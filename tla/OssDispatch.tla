---------------------------- MODULE OssDispatch ----------------------------
(***************************************************************************)
(* OSS runs: DirectorRole.run on the is_oss tasks of a plan, one after the *)
(* other, with the caps poll loop (director.py, _dispatch_oss_with_caps),  *)
(* the developer and the in-lock harness (developer.py; console/oss.py,    *)
(* _build_harness) and the publication (_maybe_publish).                   *)
(*                                                                         *)
(* Two coroutines share one thread: the poll loop and the worker. Control  *)
(* changes hands only at an await, so an action is the code between two    *)
(* awaits, however many events it emits. An exception may leave the worker *)
(* at any await. The tools of the session (the shell, the test runner) and *)
(* the verifiers (the suite, a regression test, a bump) run their commands *)
(* with subprocess.run on that same thread, mostly without a timeout:      *)
(* until such a command returns, the poll loop does not wake up.           *)
(*   poll     the director: admission, polling, cancelling (it awaits the  *)
(*            worker that it cancelled), returned                          *)
(*   work     the worker's place, or how it ended: done, raised, cancelled *)
(*   blocked  a command of the worker holds the thread                     *)
(*   over     the clock or the spend has passed a cap                      *)
(***************************************************************************)
EXTENDS TaskLog

CONSTANTS MaxRuns    \* bound on the operator's runs, for model checking

ASSUME RunsAssumption == MaxRuns \in Nat

VARIABLES log, lock, poll, task, work, blocked, denial, over, runs

vars == <<log, lock, poll, task, work, blocked, denial, over, runs>>

OssEvents == EventTypes \cup {"committed", "published"}

NoTask == "none"

Ended == {"done", "raised", "cancelled"}

InLock == {"working", "verifying"}

Awaits == {"new", "reviewing"} \cup InLock

(* The worker goes on only while the loop polls: a cancelled one unwinds.  *)
WorkerAt(place) == poll = "polling" /\ work = place

Ev(type) == TaskEvent(type, task, <<runs, 0>>)

Emit(types) == log' = log \o [i \in DOMAIN types |-> Ev(types[i])]
-----------------------------------------------------------------------------
Init ==
  /\ log = <<>> /\ lock = "free"
  /\ poll = "idle" /\ task = NoTask
  /\ work = "none" /\ blocked = FALSE /\ denial = FALSE
  /\ over = FALSE /\ runs = 0

(* The intake is accepted and the plan drafted. The harness is new for the *)
(* run and its lifecycle empty, and a worker makes one terminal transition *)
(* at most: the lifecycle never refuses here and is left out.              *)
Begin(t) ==
  /\ poll = "idle" /\ runs < MaxRuns
  /\ runs' = runs + 1 /\ task' = t
  /\ poll' = "admission" /\ work' = "none"
  /\ denial' = FALSE /\ over' = FALSE
  /\ UNCHANGED <<log, lock, blocked>>

Dispatched == { log[i].task : i \in { j \in DOMAIN log : log[j].by[1] = runs } }

(* The loop of DirectorRole.run: only a completed task lets the next one   *)
(* of the plan in. Its developer and its caps are new.                     *)
NextTask(t) ==
  /\ poll = "returned" /\ CurrentState(log, task) = "completed"
  /\ t \notin Dispatched
  /\ poll' = "admission" /\ task' = t /\ work' = "none"
  /\ denial' = FALSE /\ over' = FALSE
  /\ UNCHANGED <<log, lock, blocked, runs>>

(* An admission gate or non_goals_guard denies. *)
Deny ==
  /\ poll = "admission"
  /\ Emit(<<"aborted">>)
  /\ poll' = "returned"
  /\ UNCHANGED <<lock, task, work, blocked, denial, over, runs>>

Admit ==
  /\ poll = "admission"
  /\ poll' = "polling" /\ work' = "new"
  /\ UNCHANGED <<log, lock, task, blocked, denial, over, runs>>
-----------------------------------------------------------------------------
(* The worker. It takes the lock, creates the fork-branch worktree and     *)
(* starts the task; refused is the marker scan, which sends nothing to the *)
(* SDK and releases the lock at once.                                      *)
WorkerStart(refused) ==
  /\ WorkerAt("new") /\ lock = "free"
  /\ Emit(<<"started">>)
  /\ IF refused THEN /\ work' = "done" /\ UNCHANGED lock
                ELSE /\ work' = "working" /\ lock' = "developer"
  /\ denial' = refused
  /\ UNCHANGED <<poll, task, blocked, over, runs>>

(* The session calls a tool of the in-process server that runs a command.  *)
RunCommand ==
  /\ WorkerAt("working") /\ ~blocked
  /\ blocked' = TRUE
  /\ UNCHANGED <<log, lock, poll, task, work, denial, over, runs>>

(* The command has returned: the tool answers the session, or the verifier *)
(* awaits a judge. A verifier without one gives its verdict at once.       *)
CommandReturns ==
  /\ poll = "polling" /\ blocked
  /\ blocked' = FALSE
  /\ UNCHANGED <<log, lock, poll, task, work, denial, over, runs>>

(* A path out of scope: rewound and flagged. complete_task finds no        *)
(* VerifierOk and returns.                                                 *)
OutOfScope ==
  /\ WorkerAt("working") /\ ~blocked
  /\ work' = "done" /\ lock' = "free"
  /\ UNCHANGED <<log, poll, task, blocked, denial, over, runs>>

(* A content gate denies the realized diff: rewound, no verify, no commit. *)
ContentGateDenies ==
  /\ WorkerAt("working") /\ ~blocked
  /\ work' = "done" /\ lock' = "free" /\ denial' = TRUE
  /\ UNCHANGED <<log, poll, task, blocked, over, runs>>

(* Every verifier starts with its commands.                                *)
VerifyInLock ==
  /\ WorkerAt("working") /\ ~blocked
  /\ work' = "verifying" /\ blocked' = TRUE
  /\ UNCHANGED <<log, lock, poll, task, denial, over, runs>>

(* The bot's commit lands while the lock is held, after a pass only; on a  *)
(* failure the worktree is rewound and the task rejected.                  *)
VerifierFails ==
  /\ WorkerAt("verifying")
  /\ Emit(<<"failed", "rejected">>)
  /\ work' = "done" /\ lock' = "free" /\ blocked' = FALSE
  /\ UNCHANGED <<poll, task, denial, over, runs>>

(* lands: the commit may fail after the verifier passed. The reviewer runs *)
(* the task's verifier again, from its commands on.                        *)
VerifierPasses(lands) ==
  /\ WorkerAt("verifying")
  /\ Emit(IF lands THEN <<"passed", "committed">> ELSE <<"passed">>)
  /\ work' = (IF lands THEN "reviewing" ELSE "raised")
  /\ lock' = "free" /\ blocked' = lands
  /\ UNCHANGED <<poll, task, denial, over, runs>>

(* The reviewer's verdict and the terminal it earns. *)
Certifies ==
  /\ WorkerAt("reviewing")
  /\ Emit(IF CanComplete(Append(log, Ev("certified")), task)
          THEN <<"certified", "completed">> ELSE <<"certified">>)
  /\ IF CanComplete(Append(log, Ev("certified")), task)
     THEN work' = "done" ELSE work' = "raised"
  /\ blocked' = FALSE
  /\ UNCHANGED <<lock, poll, task, denial, over, runs>>

Refuses ==
  /\ WorkerAt("reviewing")
  /\ Emit(<<"refused", "rejected">>)
  /\ work' = "done" /\ blocked' = FALSE
  /\ UNCHANGED <<lock, poll, task, denial, over, runs>>

(* git, the SDK or a verifier raises; the finally releases the lock. A     *)
(* tool whose command fails answers the session with the error.            *)
WorkerRaises ==
  /\ poll = "polling" /\ work \in Awaits /\ ~(blocked /\ work = "working")
  /\ work' = "raised" /\ lock' = "free" /\ blocked' = FALSE
  /\ UNCHANGED <<log, poll, task, denial, over, runs>>
-----------------------------------------------------------------------------
(* The poll loop.                                                          *)

(* The clock and the spend go on while the thread is blocked.              *)
Overrun ==
  /\ poll = "polling" /\ ~over
  /\ over' = TRUE
  /\ UNCHANGED <<log, lock, poll, task, work, blocked, denial, runs>>

(* Fault: the caps are read only once the worker is done. *)
CancelAfterDone ==
  /\ poll = "polling" /\ over /\ work \in Ended
  /\ poll' = "cancelling"
  /\ UNCHANGED <<log, lock, task, work, blocked, denial, over, runs>>

(* enforce_caps comes before worker.done(): the worker is cancelled        *)
(* wherever it is, which is nothing to one that has ended.                 *)
Cancel ==
  /\ poll = "polling" /\ over /\ ~blocked
  /\ poll' = "cancelling"
  /\ UNCHANGED <<log, lock, task, work, blocked, denial, over, runs>>

(* The cancelled worker leaves its await with the cancellation or with an  *)
(* exception met on the way, and its finally runs. It may never: the SDK   *)
(* session is closed at an await of its own.                               *)
Unwind ==
  /\ poll = "cancelling" /\ work \in Awaits
  /\ work' \in {"cancelled", "raised"} /\ lock' = "free"
  /\ UNCHANGED <<log, poll, task, blocked, denial, over, runs>>

(* Fault: the loop cancels the worker and does not await it, so its        *)
(* finally has not run.                                                    *)
CapAbortNoAwait ==
  /\ poll = "cancelling"
  /\ Emit(<<"aborted">>)
  /\ poll' = "returned"
  /\ UNCHANGED <<lock, task, work, blocked, denial, over, runs>>

(* The cancelled worker is awaited, whatever it raises is suppressed, and  *)
(* the director emits the terminal.                                        *)
CapAbort ==
  /\ poll = "cancelling" /\ work \in Ended
  /\ Emit(<<"aborted">>)
  /\ poll' = "returned"
  /\ UNCHANGED <<lock, task, work, blocked, denial, over, runs>>

(* The worker is done and under the caps. Its exception, or a task without *)
(* a terminal (integrate reads None), leaves director.run as an exception: *)
(* the run is over and nothing is published.                               *)
Join ==
  /\ poll = "polling" /\ ~over
  /\ \/ work = "raised" /\ poll' = "idle" /\ UNCHANGED log
     \/ work = "done" /\ denial /\ poll' = "returned" /\ Emit(<<"rejected">>)
     \/ /\ work = "done" /\ ~denial /\ CurrentState(log, task) \in Outcomes
        /\ poll' = "returned" /\ UNCHANGED log
     \/ /\ work = "done" /\ ~denial /\ CurrentState(log, task) \notin Outcomes
        /\ poll' = "idle" /\ UNCHANGED log
  /\ UNCHANGED <<lock, task, work, blocked, denial, over, runs>>

LatestCommit == Latest({ i \in DOMAIN log : log[i].type = "committed" })

(* Fault: any completed terminal of the task will do. *)
AnyCompleted ==
  /\ LatestCommit # 0
  /\ At(log, log[LatestCommit].task, {"completed"}) # {}

(* The latest bot commit of the correlation has a completed terminal of    *)
(* its task after it.                                                      *)
Publishable ==
  /\ LatestCommit # 0
  /\ \E i \in At(log, log[LatestCommit].task, {"completed"}) : i > LatestCommit

(* No push target or token is configured, nothing is publishable, or the   *)
(* push fails; or the branch is pushed and the pull request opened.        *)
MaybePublish ==
  /\ poll = "returned"
  /\ \/ UNCHANGED log
     \/ /\ Publishable
        /\ log' = Append(log, TaskEvent("published", log[LatestCommit].task, <<runs, 0>>))
  /\ poll' = "idle"
  /\ UNCHANGED <<lock, task, work, blocked, denial, over, runs>>
-----------------------------------------------------------------------------
Worker ==
  \/ \E refused \in BOOLEAN : WorkerStart(refused)
  \/ OutOfScope \/ ContentGateDenies \/ RunCommand \/ CommandReturns \/ VerifyInLock \/ VerifierFails
  \/ \E lands \in BOOLEAN : VerifierPasses(lands)
  \/ Certifies \/ Refuses \/ WorkerRaises

PollLoop == Cancel \/ CapAbort \/ Join

Director == Deny \/ Admit \/ PollLoop \/ MaybePublish

Next == (\E t \in Tasks : Begin(t) \/ NextTask(t)) \/ Director \/ Worker \/ Unwind \/ Overrun

Spec == Init /\ [][Next]_vars

Unblock == blocked /\ Worker

(* The clock goes on. When the thread is free asyncio runs whatever is     *)
(* ready once before it goes round: the poll loop, due since a command     *)
(* started, has its turn before the next one (strong fairness). Two things *)
(* are assumed that the code does not enforce: a command returns, and a    *)
(* cancelled worker unwinds. Nothing is assumed of a worker at an await:   *)
(* an SDK session, or a judge, may hang.                                   *)
FairSpec ==
  /\ Spec
  /\ SF_vars(PollLoop) /\ WF_vars(Overrun)
  /\ WF_vars(Unblock) /\ WF_vars(Unwind)
-----------------------------------------------------------------------------
TypeOK ==
  /\ \A i \in DOMAIN log : log[i].type \in OssEvents /\ log[i].task \in Tasks
  /\ lock \in {"free", "developer"}
  /\ poll \in {"idle", "admission", "polling", "cancelling", "returned"}
  /\ task \in Tasks \cup {NoTask}
  /\ work \in Awaits \cup Ended \cup {"none"}
  /\ blocked \in BOOLEAN /\ denial \in BOOLEAN /\ over \in BOOLEAN
  /\ runs \in 0 .. MaxRuns

(* Inv 1: the lock is held exactly while the worker may write or verify,   *)
(* and never once the run is over.                                         *)
LockCoversWork == lock = "developer" <=> work \in InLock

(* S5, verifier first: the branch whose commit is published passed the     *)
(* verifier before that commit, and was certified and completed after it,  *)
(* by the work of the commit's own run.                                    *)
PublishedWasEarned ==
  \A i \in DOMAIN log :
    log[i].type = "published" =>
      LET t == log[i].task
          c == Latest({ j \in At(log, t, {"committed"}) : j < i })
      IN  /\ c # 0
          /\ \E j \in 1 .. c : log[j] = TaskEvent("passed", t, log[c].by)
          /\ \E j, k \in c .. i : /\ j < k
                                  /\ log[j] = TaskEvent("certified", t, log[c].by)
                                  /\ log[k] = TaskEvent("completed", t, log[c].by)

Terminals(r, t) == { i \in At(log, t, Outcomes) : log[i].by[1] = r }

(* Inv 10, monitored, whatever runs of the task came before: a run that    *)
(* gets a second terminal is flagged by the monitor, and one that started  *)
(* its task and is over without a terminal of its own shows as an orphan.  *)
MonitorSeesEnds ==
  /\ \A r \in 1 .. runs, t \in Tasks :
       Cardinality(Terminals(r, t)) > 1 => Terminals(r, t) \cap DoubleTerminals(log) # {}
  /\ /\ poll = "idle" /\ Terminals(runs, task) = {}
     /\ \E i \in DOMAIN log : log[i] = TaskEvent("started", task, <<runs, 0>>)
     => task \in Orphans(log)

(* The caps bound a dispatch: it ends even if the worker's session goes on *)
(* for ever or never answers, or its judge does not, provided that its     *)
(* commands return and a cancelled worker unwinds. A suite that hangs      *)
(* blocks the thread, and no cap trips.                                    *)
DispatchEnds == poll \in {"polling", "cancelling"} ~> poll \in {"idle", "returned"}

(* "the director emits the rejected terminal": no run that started a task  *)
(* is over without one.                                                    *)
NoSilentTermination ==
  \A i \in DOMAIN log :
    log[i].type = "started" =>
      \/ Terminals(log[i].by[1], log[i].task) # {}
      \/ runs = log[i].by[1] /\ task = log[i].task /\ poll # "idle"
=============================================================================
