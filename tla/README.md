# devharness: TLA+ models and proofs

devharness (`runtime/devharness`, Python) drives LLM "roles" through a software
task: research and spec, a signed plan, a developer that edits a worktree, a
verifier and a reviewer that must both agree before a task counts as done, and a
retro spine that learns from the outcome. Everything it knows is in one SQLite
store: an append-only, hash-chained event log and tables projected from it.

The specification (`devharness-spec.md`, "Invariants") numbers the rules the code
has to keep. "Inv 1", "Inv 10" below are those numbers. All source paths are
relative to `src/runtime/devharness/` unless they start with `src/`.

## 1. Inventory

| Component | State it keeps | Operations | Hard behaviour |
|---|---|---|---|
| Event bus (`events/bus.py`) | `events`: seq, id, payload, prev_hash, hash | `emit_sync`, `verify_chain` | several connections and processes append at once; any statement may raise; the process may die between statements; callers write rows directly |
| Projections (`projections/`) | some forty `proj_*` tables, pure functions of the log | one handler per event type, `rebuild` (`parity.py`) | incremental state must equal a replay (Inv 8) |
| Single-writer lock (`lock/base.py`) | `proj_lock`: one row per held lock | `acquire`, `release` | check and insert are two steps; a killed holder leaves its row |
| Single-flight guards (`panel/worker.py`, `console/tui.py`) | the process's build slot, a worker thread | `submit`, `_run`, `_begin`/`_end` | thread start may fail; the slot must be freed whatever the step does |
| Task dispatch (`console/developer.py`, `roles/director.py`, `roles/developer.py`) | attempt counter, worktree, developer, lifecycle | dispatch loop, retries, acceptance closure, abort | exceptions out of every call, transient SDK glitches, kill and restart |
| Task lifecycle (`task_lifecycle/`) | state per task, in memory, new for each run; `proj_task_lifecycle` | `transition`, `complete`, `reject`, `can_complete`, rewind | done is earned twice in the current attempt (Inv 5); exactly one terminal (Inv 10) |
| Certification (`console/review.py`) | none of its own | `certify` | state read before a review and used after it |
| Invariant monitor (`monitor/`) | findings, dedup by key | `all_violations`, sweep | judges a log written by others, with the lock as its only sign of activity |
| OSS runs (`console/oss.py`, `roles/director.py`, `oss/`) | caps, intake, cooldowns, harness | poll loop, in-lock verification, commit, publish | coroutine cancelled at an await; cap against completion; publishing stale work |
| Plans (`artifacts/plan.py`, `projections/handlers.py`) | plan rows and plan task states | sign, plan, re-plan, next ready task | task ids reused by a re-plan |
| Research, spec, sign-off (`roles/`, `cli/sign.py`) | questions, answers, spec artifact | interview loop, sign | artifact row committed before its event |
| Retro spine (`retro/`) | `retro_run`, candidates, antibodies | scheduler step, approve, enact | two drainers; crash between two emits; held by the fermata |
| Trust and calibration (`calibration/`, `maintenance/prune.py`) | trust grants, Brier scores | grant, renew, revoke, prune | expiry and overlapping grants |
| Maintenance (`maintenance/`) | cycle times | fermata, cycles | held for ever by an orphaned running task |
| Verifiers (`verifier/`) | none; the worktree, its branch and the repository's stash | one verifier per task class, `at_baseline` | the tree is taken apart and put back; the same change is judged twice, perhaps before and after its commit |
| Memory (`memory/`) | entries per project | export, import | import of an older export |
| Gates (`gates/`) | none | allow or deny | pure predicates on text |
| Panel and TUI (`panel/`, `console/`) | session, store connection, runner, target; the question and the events shown | keys and routes from research to assembly, the hint, the progress pane, store switch | fields replaced one by one while request threads read them; the hint and the handlers ask the log different questions; two surfaces on one store; a stream that turns to polling |
| Event relay and dashboard (`src/sidecar`, `src/dashboard`) | high-water mark, broadcast ring, clients | poll, backlog, broadcast | a row between backlog and broadcast, lagging clients, restarts |
| Schema (`migrate.py`) | `schema_migrations` | `migrate` | autocommitted scripts, killed or run twice at a time |
| Worktrees, checkpoints, assembly | git branches | create, rewind, commit, merge | a re-drive deletes the branch of the earlier drive |
| Bundled programs (`src/jqlite`, `src/csvlite`, `src/specledger`) | none | one command each | hand-written parsers; numbers, texts and NaN compared by shape; lists in five files that must agree |

How they interact. Every component reads the store and changes it only by
`emit_sync` (plus a few direct writes, see below); handlers run inside the emit's
transaction. A process runs one build step at a time (single flight); a step runs
developer sessions one after the other, each holding the lock while it may write.
Verification and review of an ordinary task run after the lock was released; of an
OSS task, verification runs inside it. The monitor, the retro scheduler and the
maintenance loop are readers that infer what is going on from `proj_lock` and
`proj_task_lifecycle`.

## 2. The modules

| Module | Models | Kind |
|---|---|---|
| `EventBase` | events, the handler of a put/delete table, the reference `LiveKeys` | operators |
| `AppendLog` | what the bus promises: an atomic append with its projection | abstract specification |
| `EventLog` | `emit_sync` statement by statement on several connections | state machine; implements `AppendLog` |
| `EventLogProofs` | theorems about `EventLog` and `ReadModel` | proofs |
| `ReadModel` | every event of the catalogue, every projection handler, every table, the rebuild | state machine |
| `WriteLock` | `acquire`/`release`, the build slot, threads, kills, the Inv 1 monitor walk | state machine |
| `TaskLog` | the questions the code asks of the log about tasks: `can_complete`, lifecycle state, monitor checks | operators |
| `TaskDispatch` | the dispatch loop, director, developer, acceptance, lifecycle, certification | state machine |
| `TaskDispatchProofs` | theorems about `TaskDispatch` and `Verification` | proofs |
| `OssDispatch` | OSS runs: poll loop and worker, caps, in-lock verification, publication | state machine |
| `OssDispatchProofs` | theorems about `OssDispatch`, `CsvLite` and `SpecLedger` | proofs |
| `Verification` | the built-in verifiers on worktrees of one repository, both passes, the retry | state machine |
| `PlanBuild` | sign, plan, dispatch, scratch branches, assembly | state machine |
| `TrustGrants` | evaluate, grant, renew, revoke, prune | state machine |
| `OssIntake` | the intake with its cooldown and rate check, revocation | state machine |
| `CandidateReview` | the two candidate queues and what an approval publishes | state machine |
| `ProjectMemory` | memory entries of several projects and their artifacts | state machine |
| `StandingProofs` | theorems about the four above and `Migrations` | proofs |
| `RetroSpine` | learning windows, fermata, drains, sweep, builds seen from outside | state machine |
| `Interview` | research interviews and the operator's answers | state machine |
| `PanelSwitch` | the panel's store switch under request threads | state machine |
| `OperatorConsole` | terminal consoles and panels on one store: the hint, the keys and routes, from a seed to an assembled project | state machine |
| `ProgressTail` | the console's progress pane (stream, then polling) and the panel page's log | state machine |
| `Migrations` | `migrate` statement by statement, several openers | state machine |
| `EventRelay` | the sidecar's poller and its clients | state machine |
| `LogOps` | the entries a sequence holds, and those a query keeps | operators |
| `BuildProofs` | theorems about `PlanBuild` and `PanelSwitch` | proofs |
| `SurfacesProofs` | theorems about `WriteLock` and `OperatorConsole` | proofs |
| `ProgressProofs` | theorems about `Interview`, `EventRelay`, `ProgressTail` and `RetroSpine` | proofs |
| `SequenceFacts` | lemmas about sequences and sets of naturals that the proofs share | proofs |
| `JqLite`, `CsvLite`, `SpecLedger` | the three programs the harness built | state machines with a reference definition each |
| `MCStanding` | the machines that keep standing state, side by side | model checking |
| `MCProgress` | the machines that must get somewhere, side by side | model checking |
| `MCEventLog` | the event bus (`EventLog`) and the tables (`ReadModel`), side by side | model checking |
| `MCSurfaces` | one process's lock and slot (`WriteLock`) and the surfaces (`OperatorConsole`), side by side | model checking |
| `MCPrograms` | `OssDispatch` and the three programs, side by side | model checking |
| other `MC*` | constants and small instances for TLC | model checking |

The modules form layers. `EventLog` shows that an emit is atomic and leaves no
transaction behind, so `WriteLock`, `TaskDispatch` and `OssDispatch` take an emit
as one step. `WriteLock` shows when the lock is exclusive: with one process, or if
acquire were atomic. `TaskDispatch` therefore takes `acquire` as one step; what goes
wrong when it is not is the subject of `WriteLock` alone. `PlanBuild` takes an
attempt as where its branch and terminal stand, because `TaskDispatch` says how it
earns them, and `RetroSpine` sees a build only through its lock row, its lifecycle row
and its terminal. The machines of the later rows of the table read different tables of
the store and share no state; the MC modules put them side by side, and the variable
`focus` picks the one that moves in a behaviour. `OperatorConsole` stands above them: a
step of a surface is what it reads of the store, when, and what it leaves there.

### EventLog
`log`, `rows`, `arts` are the committed store; `wlog`, `wrows`, `warts` what the
open transaction sees; `writer` is the holder of SQLite's write lock; `pc`, `call`,
`tail` are the locals of `emit_sync` on each connection. `EmitBegin`, `ReadTail`,
`InsertEvent`, `RunHandlers`, `Commit` are its statements in order, `Rollback` its
`except`, `DirectWrite`/`DirectCommit` a caller's artifact row, `Crash` a process
that dies. One projection table stands for all of the put/delete kind (`proj_lock`
is one). Hashes are terms, hence injective: sha256 collisions are out of scope.
`emit_sync` accepts a transaction that is already open; no caller in the code uses
that, the model allows it.

### ReadModel
`tables` holds each projection table as the sequence of its rows in rowid order, which is
what `parity.py` compares; `persisted` the artifacts, which three handlers read instead of
the event. `LogEvent` is `emit_sync` as `EventLog` shows it to be: the row and all its
handlers in one step. A column is kept if a handler reads it, something writes it twice,
or a query orders or filters by it; a stamp is the seq of its event. `Persisted` and
`Produced` are what the emitters guarantee (the artifact first, a verdict on a row that
is there). The events fall into eight families, none of whose handlers reads a row that
another's wrote, and `family` is the one a behaviour logs; that is what lets four or five
events reach every pair of handlers that can meet.

### WriteLock
`slot` is the build slot of each process, `pc`/`token` the state of each step's
thread, `locks` the rows of `proj_lock`, `log` the lock events. `CheckFree` and
`TakeLock` are the two halves of `acquire`. `faults` counts kills, failed releases
and failed thread starts, up to `MaxFaults`. A restart leaves the row: the code has
no stale-lock recovery.

### TaskLog and TaskDispatch
`log` holds task events; the field `by` (run, attempt) is a history variable that no
code-modelling operator reads, except that `Certify` takes from it which worktree the
review looks at. `step[s]` is the call stack of session `s`: where it is, the
attempt, the lifecycle's state, `pre_seq`. Each action is the code between two points
where something may raise or another process may act. `Raise` is an exception out of
any call inside the loop's `try`, with the developer's `finally`; `EmitFails` is a
terminal emit that raises after `transition` has set the state
(`task_lifecycle/base.py:62`). `Escape` is an exception where the loop has no `try` -
the clean-up and `pre_seq` of an attempt (`Prepare`), the search for its terminal
(`Settle`), the costs emitted behind the loop (`Spend`), the abort -: it leaves
`dispatch`. The history variable `escaped` has the runs that ended so, or whose abort
was refused because the emit of their terminal had raised. `can_complete` and the emit that follows are one step:
no await and no other connection's write to the same attempt is modelled between them.
Gates, verifier and reviewer are choices. Verifier failures carry one bit, whether the
worker can correct itself, which is all the loop looks at.

### OssDispatch
Director and worker are coroutines of one thread, so an action is the code between
two awaits, however many events it emits. `poll` is the director, `work` the worker's
await or how it ended, `over` whether a cap is passed, `blocked` whether a command of the
worker holds the thread: the session's shell and test runner (`RunCommand`) and the
verifiers (`VerifyInLock`, and the reviewer's second pass) call `subprocess.run` there,
and until the command is back (`CommandReturns`, or the verdict) the poll loop does not
wake up, whatever the clock says. A cap is three steps: `Cancel`, the worker's own
`Unwind` with its `finally`, and `CapAbort`, which awaited it. The lifecycle is left out:
the harness is new for each run and a worker makes one terminal transition at most, so it
never refuses. Kills and failing emits are left out: what they leave behind is in
`TaskDispatch` and `WriteLock`.

### Verification
A tree is whose code and whose test are in it and whether bytecode caches lie about;
`tip` is what HEAD holds, `stash` the repository's stash. `StashWork`, `GoToBaseline`,
`Capture`, `RestoreHead`, `PopWork` are `at_baseline` (`verifier/builtin/_baseline.py`)
statement by statement, `RestoreFails` and `BaselineRaises` its ways out. A change says
what its tests would show before and after it; `Judge` derives the verdict of its
class. `CommitAccepted` is the commit an OSS worker makes between the two passes. What
a suite contains, the dispatch on language, the parsing of a judge's answer are
choices; a bump's own command is taken not to change the tree, and a repository is
taken to have no `.gitignore`, the worst case for the caches.

### PlanBuild
`signed`, `plans` are the artifacts, `planState`, `taskRow` the projections, `building`
and `assembling` a console each; `branch[t]` and `head` are sets of certified works.
`DraftPlan`/`AnnouncePlan`, `DispatchTask`/`AnnounceDispatch`, `CompleteTask`/
`CommitWork` and `MergeBranch`/`RecordAssembly` are pairs between which a process may
die. A re-plan reuses the task ids, as the planner does. A dispatch takes the first task
without a terminal, or any that the operator names (`_select_task`), out of the plan's
order and with its dependencies unbuilt if he likes. `BuildMoves` bounds plans and
dispatches together.

### TrustGrants, OssIntake, CandidateReview, ProjectMemory
`grants` is `proj_trust_grants` by SQLite row id, which is one above the largest in use,
so a pruned id comes back. Every evaluator reads, then appends; a prune lists, then
removes row by row. An intake is stamped, checked, recorded, counted and perhaps
followed by a cooldown row, each a step of its own. An approval is a verdict event, a
row id read, the publishing event, a memory entry; nobody looks at an earlier verdict.
`memory[p]` is the sequence of project `p`'s rows, `artifact[p]` its latest export, an
import is one entry at a time.

### RetroSpine
`terminals`, `signals`, `analysed`, `drained`, `queue` are the store; a window is one
maintenance run (or the pass a console makes after a build) through its phases:
terminals, sweep, signals. `FermataHeld` and `LockHeld` are its two queries. The T0
signatures and the residue prompt are constants: what a terminal yields, and whether
that takes the language model, which may be unavailable. The bound of five terminals
per console pass (`_AUTO_RETRO_MAX`) and `max_retro` are left out: the instances are
smaller.

### Interview
`interview[i]` is a research role's loop, `questions` and `answers` the log, `spec[i]`
what it drafted, `heard` the history of what it took for an answer. A
reply is one of the shapes the loop tells apart (`Replies`). A re-driven interview
numbers its questions from zero under the same correlation, as `question_id` does. The
`diverge` fallback and the synthesis call are part of `PersistSpec`; the console's own
`ask_question` is left out.

### PanelSwitch, Migrations, EventRelay
Each request thread reads the panel's session, writer and runner when the code does,
`SwapWriter`, `SwapSession`, `SwapRunner`, `CloseOldWriter`, `RestoreTarget` are a switch
in order, `SwitchFails` its failed open. `new_project` is a switch followed by a target
within one request. A migration script is a sequence of statements of three kinds, each
autocommitted, its version recorded last. The relay polls by `seq`, sends row by row to
a ring of `Capacity` rows, and may break off, restart or be lagged behind.

### OperatorConsole
The log is what the surfaces ask of it: runs started, questions and answers per run, the
spec's row and the latest `spec_drafted` and `spec_signed`, the plan's row and the latest
`plan_drafted`, the latest terminal and the branch of each task, `project_assembled`, the
lock. `surface[s]` is where a surface is, its target and the question it shows; `job[s]`
the step in its build slot, with the run it captured when it was started (consoles) or
looks up when it runs (panels). `Hint` is `_hint_and_action`, in its order. `FollowHint`
is an operator who does what the hint says and nothing else: always the one at the
surface `follower`. Everybody else acts by `Whim`, at most `WhimCap` times, anything
the surfaces offer; `Mishap` is a step that fails, a kill, an assembly or a signature that
is not recorded. `LeadsAstray` names the six dead ends known (section 5). Left out: a
rejection, which leaves no trace the hint reads; merge conflicts and warnings about
foreign branches; certification, OSS and candidate keys.

### ProgressTail
`head[s]` is the last seq of store `s`, `tui` the follower thread and the poll timer,
`page` the panel's page with its `lastSeq` and the answer under way, `pane` and `pageLog`
the lines shown. `ReadBlock`/`DispatchFrame` are `parse_sse_frames`, `StartPolling` what
follows any error or silence of the stream, `StreamCloses` a stream that ends cleanly,
`SwitchConsole`/`SwitchPage` a switch to another store. The sidecar's stream is taken
as `EventRelay` has it: the log in order.

### JqLite, CsvLite, SpecLedger
Text is tokens, cells and names of small sets. `ParseQuery` is jqlite's parser with its
scans for brackets and parentheses, `EvaluateStream` its evaluator, which takes the whole
stream through one step after the other; the references are the grammar (`Readings`: every
way to cut the tokens into steps) and jq's own definitions followed value by value
(`Answers`). csvlite's steps follow its `main`; the reference is that a predicate and
its opposite divide the rows. specledger's checks are operators on what they read of the
repository; the reference is what the migration runner accepts (`Discovers`), and that the
report says how to make the lists agree. Output formats (indentation, colour, quoting) and
the regular expressions with which specledger reads sources are left out.

## 3. The runs

| Run | Instance | Shows |
|---|---|---|
| `event_log` | bus: 2 connections, 3 events, 2 keys, 1 artifact; tables: 2 tasks, 2 ids, 4 events (5 of tasks and plans, of trust) | The committed log stays one intact chain (`ChainIntact`, Inv 7) and its table holds what the log says (`LiveKeysParity`) in every interleaving with failures and crashes; no transaction outlives its emit (`NoPoisonedTransaction`); any edit, removal (but the last row's) or swap is noticed (`TamperEvident`); the whole implements `AppendLog`; SQLite's lock is always given back (`LockReleased`). Over the whole catalogue of events, with artifacts written in between, every table equals its rebuild (`ReadModelParity`, Inv 8) and means what the log says (`TablesMeanLog`: keys are unique, the lifecycle is the last start's or terminal's, a plan's pointer is a task in flight, a candidate has its last verdict, grants and revocations nest, a role's cost is a sum) |
| `operator_surfaces` | lock: 1 process, 2 jobs, 3 tokens, 2 faults; surfaces: a console and a panel, 2 runs of 2 questions, plans of up to 2 tasks, no target at first, 1 whim, 1 mishap | Exclusive writing although `acquire` is not atomic (`SingleWriter`), a stranded row is never taken over (`StrandedLockFailsClosed`), the slot is freed by every step whose thread started and, without faults, the lock as well (`EverythingLetGo`); what a hint names would not be refused and an answer reaches the question its author was shown (`GuidanceHolds`); whoever follows the hint gets home or to a named dead end (`HintsLeadHome`) |
| `write_lock_overlap` | 2 processes, 3 jobs, 3 tokens, 2 faults | **violated**: `SingleWriter` with two processes |
| `dispatch_one_session` | 1 task, 1 session, 1 retry, 3 runs, 1 kill or escape | one terminal per run, none missing unless the run was killed or an exception left `dispatch` (`EndsExactlyOnce`, Inv 10); done is earned by the attempt that is completed, and the monitor's check of it is exact (`DoneIsEarned`, Inv 5) |
| `dispatch_two_sessions` | 1 task, 2 sessions, no retry, 2 runs, 2 kills or escapes, failing terminal emits | `WriterHoldsLock` across sessions, `StepEnds` |
| `dispatch_glitch` | 1 task, 1 session, 2 retries | **violated**: `RetryIsNotRefused` |
| `dispatch_mixed_evidence` | 1 task, 2 sessions, 1 retry, 3 runs | **violated**: `EarnedBySameWork` |
| `oss_runs_and_programs` | 2 tasks, 2 runs; every query of up to 3 tokens and every pair of calls on 13 inputs; 27 predicates on 4 tables; the repositories that differ from a sound one in one part, up to 4 migration files, numbers padded to 1 digit | `LockCoversWork`, `PublishedWasEarned`, the monitor sees every double and missing terminal (`MonitorSeesEnds`), the caps end a dispatch whose session or judge never answers, if commands return and a cancelled worker unwinds (`DispatchEnds`); what the three programs accept, select and report is what their documents say (`ProgramsMean`) |
| `oss_silent` | 1 task, 1 run | **violated**: `NoSilentTermination` |
| `standing_state` | see below | one property or two of each machine |
| `verification_overlap` | 2 worktrees, a refactor in each, no fault | **violated**: `StashAlwaysRestored` |
| `progress` | see below | what must end, ends; what races, stays bounded |

`standing_state` (about 2.4 million states), by machine:

| Machine | Instance | Property |
|---|---|---|
| `TrustGrants` | 1 class, 2 evaluators, 1 pruner, 2 rows, 5 instants | `NoTrustAfterRevocation`: a revoked class is not trusted before a later grant or a prune of its revoked row |
| `OssIntake` | 3 intakes of 1 requester, 2 per window | `RevokedStaysOut`; `Throttled`: a requester at its limit is in cooldown; only intakes between their record and their count, or killed there, go over it |
| `CandidateReview` | 2 reviewers, 2 antibodies, 2 gate changes | `VerdictStands`: a candidate decided once and not cut short is published exactly when approved |
| `ProjectMemory` | 2 projects, 2 entries | `TrustIsEarned`: trusted only if verified here, or created under this project's name |
| `PlanBuild` | 3 tasks, one on another, 2 plans, 4 dispatches, 5 of both together, 1 kill | `BuiltIsEarned`: HEAD holds the work each completed terminal certified, and a plan shown as completed was built |
| `PanelSwitch` | 2 requests, 2 stores, 1 switch | `StoresDoNotMix`: of requests no switch overlapped, and while switches come one at a time, no build, target or assembly crosses stores, and one build runs at a time |
| `Migrations` | 2 openers, 3 scripts, 2 kills | `NeverOpensTorn`: an opener that gets through has the whole schema |
| `Verification` | 2 worktrees, one with any change on any path, 1 fault | `VerdictIsClaim`: a verdict says of the change what its class claims; `WorkComesBack` when no other comparison overlaps |
| `WriteLock` | 3 jobs in 2 processes, 3 tokens, 2 faults | `MonitorExact`: the Inv 1 walk flags exactly the logs in which two locks were held at once |

`progress` (about 128 thousand states), by machine: `RetroSpine` with 2 windows, 2
builds and 1 kill (`RaceResidueBounded`: one content has at most as many pending
candidates, and one orphan as many signals, as there are windows; `WindowEnds`);
`Interview` with 2 interviews of one correlation, 2 questions at most, 2 answers, 1 kill
(`AnswersFresh`: an interview hears the answer to its own question unless another run of
the correlation asked under the same id; `InterviewEnds`); `EventRelay` with 1
client, a ring of 1 row, 3 events, 1 fault, 2 connections (`StreamIsLog`: a connection
sees a gapless, repetition-free run of the log unless a fault is on record);
`ProgressTail` with 2 stores of 2 events, pages of 1 row, 2 switches or reloads
(`TailIsLog`: neither surface shows an event twice or out of order, and each shows all
from where it began). `EventReachesOperator` is about the last two: in the end an event
arrives at every client, and is shown.

The type invariants are conjuncts of the invariants named above (`GuidanceHolds`,
`BuiltIsEarned`, `StoresDoNotMix`, `NeverOpensTorn`, `VerdictIsClaim`,
`RaceResidueBounded`, `AnswersFresh`, `StreamIsLog`, `TailIsLog`, `ProgramsMean`); all but that
of jqlite are theorems as well, on their own or within an invariant.

Why the bounds are enough. Two connections are what a race on the tail needs, three
events give a chain with an inner row to remove or swap, two keys let a delete leave
another row. Two jobs of one process compete for the slot, the third, of another
process, for the lock; two faults are a kill and a failed release. Three runs of a
task are a killed run, its re-drive and a certification; one retry shows the loop's
second round and its end. Two tasks and two OSS runs give a stale commit of the other
task and of the other run. Three tasks, the second on the first and the third on none, let an
operator build a task before the one it depends on, re-drive that one, and assemble in an
order that is not the order of the builds; four dispatches are one of each and a re-drive.

Two surfaces are what two views of one store need, two runs an interview and one that
overtakes it, two tasks a plan that is half built; the whim and the mishap may fall
anywhere. The last of the `RunCap` runs is not abandoned, or no follower could come home
within the bound. Two stores with two switches allow a switch and the switch back; a page
of one row makes every answer a partial one. Three tokens and pairs of calls reach every
branch of jqlite's parser and every pair of handlers, one digit of padding makes 10 the
first number that is too long.

`MaxLog`, `MaxRuns`, `MaxBreaks`, `MaxFaults` and the finite tokens bound exploration;
a bounded system stops, so the runs do not check for deadlock. What could wait for
ever is stated as a leads-to property instead.

Fairness. `EventLog`: weak fairness of each connection's own statements, straight-line
code that nothing schedules away; starting an emit is not fair. `WriteLock`: weak
fairness of each started thread, none of `Submit` or a fault. `TaskDispatch`: weak
fairness of each session's progress, which assumes that the SDK session and the
verifier's commands return or raise; operators and kills are not fair. `OssDispatch`:
weak fairness of the clock, and strong fairness of the poll loop whenever no command holds
the thread, because asyncio runs whatever is ready once before it goes round again. Two
assumptions the code does not enforce: a command returns (most have no timeout), and a
cancelled worker unwinds (the director awaits it). Nothing is assumed of a worker at an
await: its SDK session, or a judge, may hang.
`OperatorConsole`: weak fairness of each surface's step in its slot, which assumes what
`TaskDispatch` does, and of the follower, who acts in the end; nothing is assumed of
other operators, so an interview may wait for good. `ProgressTail`: weak fairness of the
follower thread or the timer, and of the page's loop; nothing of the stream's ends.
`MCProgress`: weak fairness of each window's, each interview's, the poller's and each
stream's own steps; nothing is assumed of operators, builds, clients or faults, and an
answer need never come (the poll's timeout is a step of the interview).

## 4. What is proved

The theorems hold for every value of the constants that satisfies the named
assumptions (sentinels differ from real values, bounds are naturals, `Home` maps jobs
to processes). `MaxLog` and the like are arbitrary naturals.

- `EventLogProofs`. The inductive invariant `Inv` says, for each place in `emit_sync`,
  what the transaction sees (`View`): the committed log, or the committed log and one
  new row chained from its tail. `ChainIntact` alone is not inductive: a row that
  waits for its commit could be chained from anywhere. `CommitShape` derives from
  `Inv` that a step shows readers nothing, artifact rows, or one whole event with its
  handler applied. From it follow `ChainAlwaysIntact`, `ParityAlwaysHolds` and
  `Refinement` (the safety specification implements `AppendLog`).
  `TamperingShows` (`TamperEvident`) adds `LogShape`: every row is what `emit_sync` makes of
  an id and an event, and no id occurs twice. So no row's hash is another's, and a row that
  is edited, removed or moved leaves a neighbour whose `prev` is wrong.
  `TablesSurviveRebuild` is `ReadModelParity` for every handler of the catalogue. Parity is
  not inductive: an artifact written after the event that announces it would change the
  rebuild and not the table. `ReadModelInv` adds that the artifact of every logged draft is
  there, and `HandlersReadTheirOwn` that no other event looks at artifacts; then writing an
  artifact changes neither side and logging an event runs its handler once on both.
  `TablesMeanTheLog` (`TablesMeanLog`) says of each table what its rows mean. Handlers are
  sequences of statements keyed by row, and a family of tables whose statements are all
  keyed (`Proper`) never holds a key twice and keeps every row no statement names (`Kept`,
  `FamilyKeeps`). Then each table has an invariant that relates a row to the whole log:
  `LifeFits` (a task's lifecycle has its last start and last end), `PlanFits`, `QueueFits`,
  `GrantFits` (grants and revocations pair like brackets) and `CostInv` (a role's spending is
  the sum the log gives, `SumGoesOn`); a row appended to the log changes at most what its event is
  about.
- `SurfacesProofs`. Of `WriteLock`: `SingleFlight` is inductive with the types. For one
  process, `SingleWriter` needs that a thread between its check and its emit still finds
  `proj_lock` empty (`CheckedMeansFree`), which holds because single flight makes it
  the only thread. `StrandedLockStopsEveryone` is an action property from the same
  invariant. `MonitorMissesNothing` (`MonitorExact`, any number of processes) relates the
  walk to the log (`MonitorInv`): until it flags, the token it remembers is the one live
  token, and `proj_lock` holds what the log says is live. Of `OperatorConsole`:
  `GuidanceIsSound` (`GuidanceHolds`) from `GuidanceInv`: an interview has a run of its own
  and at most one open question, asked while that run has no spec, and no spec goes back
  to unwritten or unsigned. Without it the question shown need not be the latest open one.
- `TaskDispatchProofs`. The types, and `WriterHoldsLock` by classifying what each
  action does to the pair of lock and place (`LockMove`), for any number of tasks,
  sessions and retries. `DoneIsEarned` and `EndsExactlyOnce` are proved for one session:
  with two both are false (finding 3 and section 5). The first
  rests on `DoneInv` - evidence of an attempt lies behind its start, and the attempt under
  way is the latest one started -, the second on `EndInv` - what each place in the call
  stack implies of the log: started or not, ended or not (`FrameFits`). What excuses a
  missing terminal is a history variable of the machine (`killed`, `escaped`), no
  assumption of the theorem.
  Of `Verification`: `VerdictIsClaim` and `WorkComesBack` from `VerificationInv`, which
  follows a worktree: a comparison that overlaps no other has its work on top of the stash
  (`IsAside`), one that was cut short leaves it below whatever is stashed later
  (`IsBuried`), so each step finds the tree its verdict is meant to be about (`CheckFits`).
- `OssDispatchProofs`. The types, and `LockCoversWork`, which needs `Joined`: outside the poll
  loop and its cancellation nobody works, because a cap's abort awaits the cancelled worker. `PublishedWasEarned`
  needs of the log (`LogInv`) that a commit follows a pass and a completion a certification of
  its own run, and that no other commit falls between a completion and its commit; and of the
  run (`RunInv`) that the latest commit of a task under review is its own. `MonitorSeesEnds`
  follows from the order of runs in the same invariant.
  Of the programs: `SelectionsMean` (`CsvTypeOK` and `SelectionMeans` of csvlite) from
  `CsvInv`, which says what each step leaves: the columns chosen, the rows kept, the output.
  What divides the rows is that a comparison is the negation of its opposite (`OrderedDivides`,
  `CompareDivides`). `LedgersMean` (`LedgerTypeOK` and `LedgerMeans` of specledger) from
  `LedgerInv`: the violations are what the checks run so far find. Each check speaks in words
  of its own, so a report can be taken apart (`Speaks`, `OneWord`), and `ContiguityMeans` counts:
  files without doubles, whose numbers start at 1 and leave no gap, are numbered from 1 to
  their number, which is what the migration runner asks.
- `StandingProofs`. `NoTrustAfterRevocation` needs `RevokedIsNewest`: every open row of a
  revoked class is older than one of its revoked rows, whatever a pruner removes and
  whichever row id an append reuses. `RevokedStaysOut` from `BarredForGood`: a barred
  requester has a row that outlives the horizon, and an intake begun under it has not passed
  its checks. `Throttled` is proved of every instant to come, so that the clock cannot break
  it; the intake that counts last has every other recent one in its window, and starts a
  cooldown that outlasts them. `TrustIsEarned` from `SourcesAreTrue`: entries keep the source
  under which they were created through every row, export and import under way.
  `VerdictStands` from `VerdictsCarried`, which follows a candidate from untouched through
  the reviewer who has it in hand to where it rests.
  `NobodyOpensTorn` (`NeverOpensTorn`) from `MigrationInv`: the versions on record are a
  prefix of the scripts and openers are at most one ahead of it (`OpenersInOrder`); the schema
  lies between what the recorded scripts leave and what the next one makes of it (`SchemaBetween`);
  who is behind the record finds all its script makes already made, and fails there
  (`BehindIsMade`); who is not finds its own statements in force (`OwnWorkStands`).
- `BuildProofs`. `BuiltIsEarned`: a certified work is on its branch, in some console's hands
  before its commit, or was superseded by a later dispatch, which has a higher number; an
  assembly has in HEAD what it merged and on branches what is left to merge. `StoresDoNotMix`
  from `PanelInv`: when no switch is under way the panel is of one piece, and otherwise how
  far the switch has come; a clean request that holds the slot of the runner in place keeps
  every switch out.
- `ProgressProofs`. `AnswersFresh` from `AskedApart`: a run numbers its own questions apart.
  `StreamIsLog` from `PollsInOrder`, `AscendsAhead` and `SeesAll`: what was broadcast before a
  connection subscribed is in the backlog that it reads afterwards. `TailIsLog`: what is shown
  lies at or below the point the stream, the timer or `lastSeq` has come to, and an answer on
  its way starts there. `RaceResidueBounded` counts a window that has decided to emit as one
  of the pending rows already; the windows are processes, so there are finitely many
  (`IsFiniteSet(Windows)`).

Four definitions are recursive functions where a fold or `SelectSeq` would be shorter, because
the provers see through the recursion of a function and not into the library's operators:
`Walk` (`WriteLock`), `RebuildTables` and `SumOf` (`ReadModel`) and `Keep` (`LogOps`). That such
a function is defined, and how it goes on when its sequence grows, are lemmas (`WalkGoesOn`,
`RebuildGoesOn`, `SumGoesOn`, those of `SequenceFacts`), by induction over a set of naturals
(`UpTo`). The proofs about `SpecLedger` compare with `Width`
and need not know how it is computed.

The named assumptions exclude nothing the code can be in: sentinels differ from values, caps are
naturals, every worktree is given some change and some path in `Verification`, `base` is
not a worktree's name, csvlite's input is cells that the order of texts ranks, and a file's
number is written with as many digits as it needs (`Directory` of `SpecLedger`).
`DropsComeFirst` (`Migrations`) says what the repository's scripts have in common: one that drops
a table does so before it says anything else of it (0004, 0005, 0013, 0022). For an arbitrary
list of scripts `NeverOpensTorn` is false: one that makes a table and then drops it lets a
slower opener remake the table between two statements of a faster one.

Only model-checked:

- The liveness properties (`LockReleased`, `EverythingLetGo`, `StepEnds`, `DispatchEnds`,
  `HintsLeadHome`, `WindowEnds`, `InterviewEnds`, `EventReachesOperator`): out of the prover's
  reach.
- `ProgramsMean` as a whole: jqlite's parser is a recursive operator, so `QueryMeans` stays with
  TLC. The parts about csvlite and specledger are theorems of their own.
- What is false beyond the instance it is proved for stays there: `DoneIsEarned` and
  `EndsExactlyOnce` with more than one session, `SingleWriter` with more than one process
  (section 5).

## 5. Where code and text disagree

Five disagreements are runs that TLC refutes:

1. `write_lock_overlap`. `acquire` (`lock/base.py:44`) checks, then emits. Two
   processes on one store can both write. The docstring promises at most one writer.
2. `dispatch_glitch`. A transient glitch in the verifier's or reviewer's session is
   retried with the lifecycle of the failed attempt, already `running`; the retry's
   own `queued -> running` is refused and the task aborted as a crash.
3. `dispatch_mixed_evidence`. Verification runs outside the lock, so a pass of an
   older attempt can land after a newer attempt's start and count for it.
4. `oss_silent`. On the OSS path nobody turns a scope violation or a raising worker
   into a terminal.
5. `verification_overlap`. The stash belongs to the repository: two worktrees compared
   with their baselines at once pop each other's work (`verifier/builtin/_baseline.py:79`).

Others were met while modelling and are not among the runs:

- Callers commit an artifact row before they emit its event (`cli/sign.py:57`,
  `roles/director.py:617`), not in one batch as a comment in `emit_sync` describes.
  `AppendLog` admits a row on its own for this reason.
- `submit` claims the slot before `Thread.start`; if that raises the slot stays taken
  (`ThreadStartFails`). `EverythingLetGo` starts at the running thread for this reason.
- If the emit of a terminal raises, the lifecycle is terminal already and the abort
  that should surface the failure is refused (`task_lifecycle/base.py:62`).
- An exception in `emit_client_costs`, which emits to the store between the loop and the
  abort (`console/developer.py:434`), or in the clean-up or the query before a retry
  (`console/developer.py:391`), leaves `dispatch` without the terminal that the comment
  on the abort promises ("Invariant 10: a started task emits exactly one",
  `console/developer.py:439`). `EndsExactlyOnce` excuses these runs and those of the
  item above by name (`escaped`), and no others.
- With two sessions `EndsExactlyOnce` is false in both halves; TLC finds it where the
  assumption of one session is dropped. A session waits for a terminal of its task, not
  of its run, so the end that another session's run reached ends its loop and its own
  run keeps a start without a terminal; and two certifications of one killed run, neither
  of which holds anything, both reject it.
- The monitor takes the terminal of a run denied before its start for a double
  (`monitor/checks.py:151`), and a task under verification for an orphan when another
  process sweeps (`monitor/checks.py:115`): no property says that what it flags is
  genuine.
- The OSS poll loop reads the caps before `worker.done()` (`roles/director.py:480`), so
  a completed task can be aborted as well, and its contribution is still published.
  `MonitorSeesEnds` shows that the monitor sees the double.
- The caps of an OSS run are polled on the thread that its commands block: verifiers
  (`verifier/builtin/test_suite.py:38`) and the unsandboxed tools (`aci/shell.py:42`,
  `aci/test_runner.py:34`) call `subprocess.run` without a timeout, so while a suite hangs
  no cap trips; and the director awaits the worker it cancelled
  (`roles/director.py:481-483`), so a session that does not close holds the dispatch.
  `DispatchEnds` assumes neither happens.
- A denied OSS run publishes the latest commit of the correlation again
  (`console/oss.py:272`); `PublishedWasEarned` shows that such a commit was earned.
- A prune lists expired rows, then removes them by row id. A row that was revoked or
  renewed after it was listed is removed all the same, and with the revocation an older
  open grant is the newest again (`maintenance/prune.py:6-8` calls the prune storage
  tidiness, never a correctness change). `NoTrustAfterRevocation` excepts classes that
  lost a revoked row to a prune.
- `has_active_trust` has one caller, the evaluation itself: no gate asks it.
- A process killed after a migration's script and before its version is recorded leaves
  a store nobody can open (`migrate.py:121`); a slower opener may drop a table
  (`proj_lock`, the candidate queues) that a faster one has remade and used.
- Between the swaps of a panel switch (`panel/server.py:152`) a dispatch builds one
  store's plan in the other's target, a target typed for one store is recorded in the
  other, and a failed open leaves `db_path` on the new store and the rest on the old.
  `StoresDoNotMix` speaks of requests that do not overlap a switch. Two switches that
  overlap may leave the writer, the session and the runner of different stores, and no
  later request undoes that (`collided`); the attempt to prove the property for them is
  what showed it.
- `cli/prune.py` and `cli/ratify.py` use a name `db` their `main` never binds.
- `check_trusted_memory` asks for a column `trust` that no migration makes.
- A signal of an orphaned build stays undrained while the orphan's lifecycle row holds
  the fermata.
- The hint says "done - project assembled" after a re-plan or re-dispatch that follows
  the assembly (`panel/state.py:243-247`), and keeps saying "assemble" if an assembly is
  killed before `project_assembled` (`console/assemble.py:115-119`).
- A relay poll that breaks off resends what it had sent (`StreamIsLog` excepts it).
- `created_at` orders an import: an entry that is older than the newest row is dropped,
  not merged (`memory/export_import.py:34-48`), and two projects that go by the default
  name trust each other's entries (`memory/base.py:12`).
- A suite whose failing output quotes "spec_claim axis" is retried as a wrong judgement
  (`verifier/runner.py:52`), although its docstring keeps such a failure terminal.
- Of the tables: re-dispatching a task leaves `completed_at_millis` of its earlier drive in
  `proj_plan_tasks`; a question asked again under its id stays answered;
  `candidate_rejected` sets a review state that `candidate_reviewed` has set; the verified
  flag of a memory entry depends on `DEVHARNESS_PROJECT_NAME` of the process that projects
  it, so a rebuild elsewhere differs. No production code rebuilds the live store, and
  `run_boot_checks` is never given it.
- Of the hint (the dead ends of `LeadsAstray`): it says "assemble" on a surface without a
  target or with the harness's own checkout as target, where the console refuses and the
  panel's assembly fails; a build in the harness's own checkout makes no branch, so it can only
  end there; it reads the plan of the latest `plan_drafted` while dispatch and assembly read
  the latest plan artifact; a killed build's lock is invisible to it.
- A rejected spec is still hinted for signing, and can be signed.
- An answer is given to the question that is pending when it is sent (`console/tui.py`,
  `_answer`; `panel/routes.py:301`), not to the one it was typed under: when another surface
  answered that one meanwhile, the next question gets it. An interview that another
  surface's later run overtook waits for good.
- A dispatch clears the task's stale worktree and branch before it asks for the lock
  (`console/developer.py`, `_clean_stale_worktree`): a second process's dispatch of the same
  task destroys the running one's work and is then refused.
- The console's stream gives up after five seconds without a line (`console/tui.py:212`),
  the sidecar's keep-alive comes every fifteen: an idle log turns the pane to polling for
  good, from the head of the log, and what was not streamed yet is never shown. A stream
  that the sidecar closes cleanly ends the follower without any polling.
- The panel's page keeps `lastSeq` when the project is switched
  (`panel/static/index.html:145,192`): rows of the new store up to that seq are never shown.
- jqlite refuses an operator after the bare `.` (`. | keys`) or after a leading quote without
  naming it, against `src/jqlite/parser.py:14-19`; a parenthesis inside the literal of
  `has("(")` is counted. csvlite's `--json` keeps the last of two chosen columns of one
  name, and a comparison with NaN drops a row under an operator and its opposite. specledger
  passes migration files that the runner refuses (nothing after the underscore, five
  digits), and refuses an empty directory that the runner accepts.

## 6. What is not modelled

Text and I/O: gate patterns, prompts, rendering, git's and SQLite's internals, ACI
tools, sandbox, MCP clients, the suites that verifiers run, the output formats of the
bundled programs. The scripts and the deployment wrap modules that are modelled; the
dashboard displays. The Brier arithmetic is real-valued. `PROJECT.json` lists every
component with its status and every hazard with the property that covers it or the
reason none does.

## 7. Plan

The order is by how much the rest rests on it.

1. Done: the modules of section 2; theorems about all of them but `JqLite`, and about every
   safety property the runs check but jqlite's `QueryMeans`.
2. Proofs: jqlite's evaluator on parsed queries, once its parser is written as a function of
   positions; the liveness properties stay with TLC.
3. Larger instances: two requesters in `OssIntake`, three panel requests.
