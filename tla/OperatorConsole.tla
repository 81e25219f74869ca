-------------------------- MODULE OperatorConsole --------------------------
(***************************************************************************)
(* The operator's surfaces on one store, from a seed to an assembled       *)
(* project: terminal consoles (console/tui.py) and web panels              *)
(* (panel/state.py, panel/routes.py), each a process with one build slot.  *)
(* A surface derives what to do next - its hint - from the log alone, and  *)
(* an operator may do that, or anything else the surface offers. How a     *)
(* step does its work is the other modules'; here a step is what it reads  *)
(* of the store, when, and what it leaves there.                           *)
(***************************************************************************)
EXTENDS Naturals, FiniteSets

CONSTANTS
    Surfaces,
    Tuis,        \* the terminal consoles; the others are panels
    EnvTarget,   \* DEVHARNESS_TARGET_REPO in every process, or NoTarget
    RunCap,      \* bound: research runs; the last of them is not abandoned
    QuestionCap, \* bound: questions of one run
    TaskCap,     \* bound: tasks of one plan
    WhimCap,     \* bound: things an operator does that the hint did not say
    MishapCap    \* bound: failures, of a step or a process

NoTarget == "no target"
Own == "devharness"   \* the harness's own checkout
Repo == "repository"  \* the project's

ASSUME ConsoleAssumption ==
    /\ Tuis \subseteq Surfaces /\ Surfaces # {}
    /\ EnvTarget \in {NoTarget, Own, Repo}
    /\ RunCap \in Nat \ {0} /\ QuestionCap \in Nat /\ TaskCap \in Nat \ {0}
    /\ WhimCap \in Nat /\ MishapCap \in Nat

VARIABLES
    follower,    \* the surface whose operator does what the hint says: always the same one
    started,     \* research_started events; run r is the r-th
    asked,       \* per run: question_asked events
    answered,    \* question_answered events: run and number of the question
    specRow,     \* per run: the row of its spec artifact
    lastDrafted, \* the spec of the latest spec_drafted event, by its run
    lastSigned,  \* the newest row of proj_signed_spec, by its run
    planRow,     \* per run: how many tasks its latest plan artifact has
    planShown,   \* per run: how many the plan of its latest plan_drafted event has
    latest,      \* per run and task: its latest terminal_outcome
    work,        \* per run and task: where its certified work is in the repository
    recorded,    \* runs with a project_assembled event
    targetSet,   \* the latest build_target_set
    lockHolder,  \* proj_lock
    surface,     \* per surface: where it is, its target, the question it shows
    job,         \* per surface: the step in its build slot
    misread,     \* an answer went to a question its author did not see, see AnswerLatest
    whims,
    mishaps

interviewLog == <<started, asked, answered>>
specLog == <<specRow, lastDrafted, lastSigned>>
planLog == <<planRow, planShown>>
buildLog == <<latest, work, recorded, lockHolder>>
budgets == <<whims, mishaps>>
consoleVars == <<follower, interviewLog, specLog, planLog, buildLog, targetSet, surface, job, misread, budgets>>

Runs == 1 .. RunCap
PlanTasks == 1 .. TaskCap
NoQuestion == <<0, 0>>
Targets == {NoTarget, Own, Repo}

Researching == {"starting", "eliciting", "waiting", "drafting", "announcing spec"}
Planning == {"planning", "announcing plan"}
Developing == {"selecting", "writing", "judging"}

FreeSlot == [step |-> "idle", run |-> 0, task |-> 0, holds |-> FALSE, own |-> FALSE, upset |-> FALSE, cancelled |-> FALSE]

ConsoleTypeOK ==
    /\ follower \in Surfaces
    /\ started \in 0 .. RunCap
    /\ asked \in [Runs -> 0 .. QuestionCap]
    /\ answered \subseteq {q \in Runs \X (1 .. QuestionCap) : q[2] <= asked[q[1]]}
    /\ specRow \in [Runs -> {"none", "unsigned", "signed"}]
    /\ lastDrafted \in 0 .. RunCap /\ lastSigned \in 0 .. RunCap
    /\ planRow \in [Runs -> 0 .. TaskCap] /\ planShown \in [Runs -> 0 .. TaskCap]
    /\ latest \in [Runs -> [PlanTasks -> {"none", "completed", "stopped"}]]
    /\ work \in [Runs -> [PlanTasks -> {"none", "branch", "merged"}]]
    /\ recorded \subseteq Runs
    /\ targetSet \in Targets
    /\ lockHolder \in Surfaces \cup {"nobody", "a dead process"}
    /\ surface \in [Surfaces -> [at : {"here", "away", "closed"}, target : Targets,
                                 page : (Runs \X (1 .. QuestionCap)) \cup {NoQuestion}]]
    /\ job \in [Surfaces -> [step : {"idle"} \cup Researching \cup Planning \cup Developing,
                             run : 0 .. RunCap, task : 0 .. TaskCap,
                             holds : BOOLEAN, own : BOOLEAN, upset : BOOLEAN, cancelled : BOOLEAN]]
    /\ misread \in BOOLEAN
    /\ whims \in 0 .. WhimCap /\ mishaps \in 0 .. MishapCap

ConsoleInit ==
    /\ follower \in Surfaces
    /\ started = 0 /\ asked = [r \in Runs |-> 0] /\ answered = {}
    /\ specRow = [r \in Runs |-> "none"] /\ lastDrafted = 0 /\ lastSigned = 0
    /\ planRow = [r \in Runs |-> 0] /\ planShown = [r \in Runs |-> 0]
    /\ latest = [r \in Runs |-> [t \in PlanTasks |-> "none"]]
    /\ work = [r \in Runs |-> [t \in PlanTasks |-> "none"]]
    /\ recorded = {} /\ lockHolder = "nobody" /\ targetSet = NoTarget
    /\ surface = [s \in Surfaces |-> [at |-> "here", target |-> NoTarget, page |-> NoQuestion]]
    /\ job = [s \in Surfaces |-> FreeSlot]
    /\ misread = FALSE
    /\ whims = 0 /\ mishaps = 0

-----------------------------------------------------------------------------
(***************************************************************************)
(* What a surface reads of the log.                                        *)
(***************************************************************************)
LatestOf(S) == CHOOSE n \in S : \A m \in S : m <= n
FirstOf(S) == CHOOSE n \in S : \A m \in S : n <= m

\* Fault: the latest run, whatever spec is signed
RunInResearch == started

\* the signed spec's run, else the latest run
LatestRun == IF lastSigned # 0 THEN lastSigned ELSE started

\* Fault: a signed spec's run wins over an interview under way
QuestionRunOfSigned == LatestRun

\* the run whose questions are answered: the latest while it has no spec
QuestionRun ==
    IF started # 0 /\ specRow[started] = "none" THEN started ELSE LatestRun

UnansweredOf(r) == {n \in 1 .. asked[r] : <<r, n>> \notin answered}

LatestUnanswered ==
    IF QuestionRun = 0 \/ UnansweredOf(QuestionRun) = {} THEN NoQuestion
    ELSE <<QuestionRun, LatestOf(UnansweredOf(QuestionRun))>>

LatestUnsigned == IF lastDrafted # lastSigned THEN lastDrafted ELSE 0

\* of the announced plan: the tasks without a terminal, and those that ended
\* otherwise than completed
PendingTasks(r) == {t \in 1 .. planShown[r] : latest[r][t] = "none"}
BlockedTasks(r) == {t \in 1 .. planShown[r] : latest[r][t] = "stopped"}

Targeted(s) == surface[s].target # NoTarget \/ EnvTarget # NoTarget

\* ConsoleDeveloper's and ConsoleAssemble's base_path
Base(s) ==
    IF surface[s].target # NoTarget THEN surface[s].target
    ELSE IF EnvTarget # NoTarget THEN EnvTarget
    ELSE Own

\* a step that runs hides everything but a question it may be waiting on
HintWhileBusy(s) ==
    IF job[s].step \in Researching /\ LatestUnanswered # NoQuestion THEN "answer" ELSE "busy"

\* in the order in which the log is asked
HintOfPlan(s) ==
    IF planShown[LatestRun] = 0 THEN "plan"
    ELSE IF BlockedTasks(LatestRun) # {} THEN "retry"
    ELSE IF PendingTasks(LatestRun) # {} THEN (IF Targeted(s) THEN "build" ELSE "target")
    ELSE IF LatestRun \in recorded THEN "done"
    ELSE "assemble"

Hint(s) ==
    IF job[s] # FreeSlot THEN HintWhileBusy(s)
    ELSE IF LatestUnanswered # NoQuestion THEN "answer"
    ELSE IF LatestUnsigned # 0 THEN "sign"
    ELSE IF lastSigned = 0 THEN "research"
    ELSE HintOfPlan(s)

-----------------------------------------------------------------------------
(***************************************************************************)
(* The interview, as the operator sees it.                                 *)
(***************************************************************************)
Here(s) == surface[s].at = "here"

\* a prompt is modal: no other key reaches a terminal console meanwhile
KeysReach(s) == s \in Tuis /\ Here(s) /\ surface[s].page = NoQuestion

Posts(s) == s \notin Tuis /\ Here(s)

Shows(s, q) == surface' = [surface EXCEPT ![s].page = q]

\* action_answer: the prompt shows the question that is pending now
OpenPrompt(s) ==
    /\ KeysReach(s) /\ LatestUnanswered # NoQuestion
    /\ Shows(s, LatestUnanswered)
    /\ UNCHANGED <<interviewLog, specLog, planLog, buildLog, targetSet, job, misread>>

\* pending_question, as the page last polled it
ReadQuestion(s) ==
    /\ Posts(s) /\ LatestUnanswered # NoQuestion
    /\ Shows(s, LatestUnanswered)
    /\ UNCHANGED <<interviewLog, specLog, planLog, buildLog, targetSet, job, misread>>

\* The question is looked up again when the answer is sent: it goes to the one
\* pending then. A history remembers an answer sent to another question than
\* the one shown although that was open still and no later run had started.
AnswerLatest(s) ==
    /\ answered' = IF LatestUnanswered = NoQuestion THEN answered ELSE answered \cup {LatestUnanswered}
    /\ LET shown == surface[s].page
       IN  misread' = (misread \/ (LatestUnanswered # shown /\ shown \notin answered /\ shown[1] = started))
    /\ Shows(s, NoQuestion)
    /\ UNCHANGED <<started, asked, specLog, planLog, buildLog, targetSet, job>>

SubmitPrompt(s) == s \in Tuis /\ Here(s) /\ surface[s].page # NoQuestion /\ AnswerLatest(s)

PostAnswer(s) == Posts(s) /\ surface[s].page # NoQuestion /\ AnswerLatest(s)

-----------------------------------------------------------------------------
(***************************************************************************)
(* Signing.                                                                *)
(***************************************************************************)
\* the artifact's row, then the event
Signs(r) ==
    /\ r # 0 /\ specRow[r] # "none"
    /\ specRow' = [specRow EXCEPT ![r] = "signed"]
    /\ lastSigned' = r
    /\ UNCHANGED <<interviewLog, lastDrafted, planLog, buildLog, targetSet, surface, job, misread>>

\* the event is lost: the row is signed all the same
SignsSilently(r) ==
    /\ r # 0 /\ specRow[r] # "none"
    /\ specRow' = [specRow EXCEPT ![r] = "signed"]
    /\ UNCHANGED <<interviewLog, lastDrafted, lastSigned, planLog, buildLog, targetSet, surface, job, misread>>

\* blank: the latest unsigned; or a spec the operator names
TuiSign(s, r) == KeysReach(s) /\ Signs(r)
PostSign(s, r) == Posts(s) /\ Signs(r)

-----------------------------------------------------------------------------
(***************************************************************************)
(* The build slot, and the steps that run in it.                           *)
(***************************************************************************)
\* _begin and BuildRunner.submit
Claims(s, step, r, t) ==
    /\ job[s] = FreeSlot
    /\ job' = [job EXCEPT ![s] = [FreeSlot EXCEPT !.step = step, !.run = r, !.task = t]]
    /\ UNCHANGED <<interviewLog, specLog, planLog, buildLog, targetSet, surface, misread>>

\* _run_step's finally and _end
Frees(s) == job' = [job EXCEPT ![s] = FreeSlot]

Goes(s, step) == job' = [job EXCEPT ![s].step = step]

RunsToCome == started + Cardinality({s \in Surfaces : job[s].step = "starting"})

TuiResearch(s) == KeysReach(s) /\ RunsToCome < RunCap /\ Claims(s, "starting", 0, 0)
PostResearch(s) == Posts(s) /\ RunsToCome < RunCap /\ Claims(s, "starting", 0, 0)

StartRun(s) ==
    /\ job[s].step = "starting"
    /\ started' = started + 1
    /\ job' = [job EXCEPT ![s].step = "eliciting", ![s].run = started + 1]
    /\ UNCHANGED <<asked, answered, specLog, planLog, buildLog, targetSet, surface, misread>>

AskOperator(s) ==
    /\ job[s].step = "eliciting" /\ asked[job[s].run] < QuestionCap
    /\ asked' = [asked EXCEPT ![job[s].run] = @ + 1]
    /\ Goes(s, "waiting")
    /\ UNCHANGED <<started, answered, specLog, planLog, buildLog, targetSet, surface, misread>>

\* answer_fn polls the log until the question is answered or the step is cancelled
HearAnswer(s) ==
    /\ job[s].step = "waiting" /\ ~job[s].cancelled
    /\ <<job[s].run, asked[job[s].run]>> \in answered
    /\ Goes(s, "eliciting")
    /\ UNCHANGED <<interviewLog, specLog, planLog, buildLog, targetSet, surface, misread>>

GiveUpWaiting(s) ==
    /\ job[s].step = "waiting" /\ job[s].cancelled
    /\ Frees(s)
    /\ UNCHANGED <<interviewLog, specLog, planLog, buildLog, targetSet, surface, misread>>

DraftSpec(s) ==
    /\ job[s].step = "eliciting"
    /\ specRow' = [specRow EXCEPT ![job[s].run] = "unsigned"]
    /\ Goes(s, "announcing spec")
    /\ UNCHANGED <<interviewLog, lastDrafted, lastSigned, planLog, buildLog, targetSet, surface, misread>>

AnnounceDraft(s) ==
    /\ job[s].step = "announcing spec"
    /\ lastDrafted' = job[s].run
    /\ Frees(s)
    /\ UNCHANGED <<interviewLog, specRow, lastSigned, planLog, buildLog, targetSet, surface, misread>>

-----------------------------------------------------------------------------
\* a console looks the run up when the prompt is sent, a panel's step later
TuiPlan(s) == KeysReach(s) /\ LatestRun # 0 /\ Claims(s, "planning", LatestRun, 0)
PostPlan(s) == Posts(s) /\ Claims(s, "planning", 0, 0)

RunOf(s) == IF job[s].run # 0 THEN job[s].run ELSE LatestRun

Plannable(r) == r # 0 /\ specRow[r] = "signed"

\* NoSignedSpec
RefusePlan(s) ==
    /\ job[s].step = "planning" /\ ~Plannable(RunOf(s))
    /\ Frees(s)
    /\ UNCHANGED <<interviewLog, specLog, planLog, buildLog, targetSet, surface, misread>>

\* the artifact; a transient glitch drafts another
DraftTasks(s) ==
    /\ job[s].step = "planning" /\ Plannable(RunOf(s))
    /\ \E n \in PlanTasks :
          /\ planRow' = [planRow EXCEPT ![RunOf(s)] = n]
          /\ job' = [job EXCEPT ![s].step = "announcing plan", ![s].run = RunOf(s), ![s].task = n]
    /\ UNCHANGED <<interviewLog, specLog, planShown, buildLog, targetSet, surface, misread>>

AnnounceTasks(s) ==
    /\ job[s].step = "announcing plan"
    /\ planShown' = [planShown EXCEPT ![job[s].run] = job[s].task]
    /\ Frees(s)
    /\ UNCHANGED <<interviewLog, specLog, planRow, buildLog, targetSet, surface, misread>>

-----------------------------------------------------------------------------
\* task 0: the next without a terminal
TuiDispatch(s, t) ==
    /\ KeysReach(s) /\ LatestRun # 0 /\ Targeted(s)
    /\ Claims(s, "selecting", LatestRun, t)

\* the route takes every request; its step refuses
PostDispatch(s, t) == Posts(s) /\ Claims(s, "selecting", 0, t)

\* _select_task, on the latest artifact
Selected(r, t) ==
    LET open == {u \in 1 .. planRow[r] : latest[r][u] = "none"}
    IN  IF t # 0 THEN {t} \cap (1 .. planRow[r])
        ELSE IF open = {} THEN {} ELSE {FirstOf(open)}

Dispatchable(s, r, t) == Targeted(s) /\ Plannable(r) /\ Selected(r, t) # {}

\* NoSignedSpec, NoPlan, UnknownTask, AllTasksSettled, or no target
RefuseDispatch(s) ==
    /\ job[s].step = "selecting" /\ ~Dispatchable(s, RunOf(s), job[s].task)
    /\ Frees(s)
    /\ UNCHANGED <<interviewLog, specLog, planLog, buildLog, targetSet, surface, misread>>

\* The stale worktree goes, and with it, outside the harness's own checkout,
\* the branch of the task: also that of a dispatch under way elsewhere. Then
\* the lock, which is refused while another process holds it.
StartTask(s) ==
    /\ job[s].step = "selecting" /\ Dispatchable(s, RunOf(s), job[s].task)
    /\ LET r == RunOf(s)
           t == CHOOSE u \in Selected(r, job[s].task) : TRUE
           own == Base(s) = Own
       IN  /\ job' = [x \in Surfaces |->
                 IF x = s THEN [job[s] EXCEPT !.step = "writing", !.run = r, !.task = t,
                                              !.own = own, !.holds = (lockHolder = "nobody")]
                 ELSE IF job[x].step \in {"writing", "judging"} /\ job[x].run = r /\ job[x].task = t /\ job[x].own = own
                      THEN [job[x] EXCEPT !.upset = TRUE]
                 ELSE job[x]]
           /\ work' = IF own THEN work ELSE [work EXCEPT ![r][t] = "none"]
    /\ lockHolder' = IF lockHolder = "nobody" THEN s ELSE lockHolder
    /\ UNCHANGED <<interviewLog, specLog, planLog, latest, recorded, targetSet, surface, misread>>

Releases(s) == lockHolder' = IF job[s].holds THEN "nobody" ELSE lockHolder

\* the lock is given back before the work is judged
LayDownPen(s) ==
    /\ job[s].step = "writing" /\ job[s].holds
    /\ Releases(s)
    /\ job' = [job EXCEPT ![s].step = "judging", ![s].holds = FALSE]
    /\ UNCHANGED <<interviewLog, specLog, planLog, latest, work, recorded, targetSet, surface, misread>>

\* completed, and committed to its branch where there is one
CompleteJob(s) ==
    /\ job[s].step = "judging"
    /\ latest' = [latest EXCEPT ![job[s].run][job[s].task] = "completed"]
    /\ work' = IF job[s].own \/ job[s].upset THEN work
               ELSE [work EXCEPT ![job[s].run][job[s].task] = "branch"]
    /\ Frees(s)
    /\ UNCHANGED <<interviewLog, specLog, planLog, recorded, lockHolder, targetSet, surface, misread>>

\* rejected or aborted
EndsStopped(s) ==
    /\ latest' = [latest EXCEPT ![job[s].run][job[s].task] = "stopped"]
    /\ Releases(s) /\ Frees(s)
    /\ UNCHANGED <<interviewLog, specLog, planLog, work, recorded, targetSet, surface, misread>>

\* LockHeld is a crash of the dispatch, as is a worktree that is gone: a crash
\* ends in an abort
CrashWriting(s) ==
    /\ job[s].step \in {"writing", "judging"}
    /\ job[s].upset \/ (job[s].step = "writing" /\ ~job[s].holds)
    /\ EndsStopped(s)

StopWriting(s) == job[s].step \in {"writing", "judging"} /\ EndsStopped(s)

-----------------------------------------------------------------------------
\* assemble's refusals: the harness's own checkout, no plan, a task that is
\* not completed, a branch that is missing
Assemblable(s, r) ==
    /\ Base(s) # Own
    /\ r # 0 /\ planRow[r] # 0
    /\ \A t \in 1 .. planRow[r] : latest[r][t] = "completed" /\ work[r][t] # "none"

\* nothing to merge: no event either
AllMerged(r) == \A t \in 1 .. planRow[r] : work[r][t] = "merged"

Merged(r) == [work EXCEPT ![r] = [t \in PlanTasks |-> IF t <= planRow[r] THEN "merged" ELSE @[t]]]

MergesAll(s) ==
    /\ Assemblable(s, LatestRun) /\ ~AllMerged(LatestRun)
    /\ work' = Merged(LatestRun)
    /\ UNCHANGED <<interviewLog, specLog, planLog, latest, lockHolder, targetSet, surface, job, misread>>

TuiAssemble(s) ==
    /\ KeysReach(s) /\ Targeted(s) /\ MergesAll(s)
    /\ recorded' = recorded \cup {LatestRun}

PostAssemble(s) ==
    /\ Posts(s) /\ MergesAll(s)
    /\ recorded' = recorded \cup {LatestRun}

-----------------------------------------------------------------------------
(***************************************************************************)
(* Targets, stores and processes.                                          *)
(***************************************************************************)
SetsTarget(s, v) ==
    /\ surface' = [surface EXCEPT ![s].target = v]
    /\ targetSet' = v
    /\ UNCHANGED <<interviewLog, specLog, planLog, buildLog, job, misread>>

\* at any time, mid-build as well
TuiSetTarget(s, v) == KeysReach(s) /\ SetsTarget(s, v)
PostTarget(s, v) == Posts(s) /\ SetsTarget(s, v)

Leaves(s, where) ==
    /\ surface' = [surface EXCEPT ![s] = [at |-> where, target |-> NoTarget, page |-> NoQuestion]]
    /\ UNCHANGED <<interviewLog, specLog, planLog, buildLog, targetSet, job, misread>>

\* to another store, or to a new project's: refused mid-build
SwitchAway(s) == s \in Tuis /\ KeysReach(s) /\ job[s] = FreeSlot /\ Leaves(s, "away")
PanelAway(s) == Posts(s) /\ job[s] = FreeSlot /\ Leaves(s, "away")

Quit(s) == KeysReach(s) /\ job[s] = FreeSlot /\ Leaves(s, "closed")

\* Back on this store the target is the latest one set there, if that
\* repository still is one.
ComeBack(s) ==
    /\ surface[s].at \in {"away", "closed"}
    /\ surface' = [surface EXCEPT ![s].at = "here", ![s].target = targetSet]
    /\ UNCHANGED <<interviewLog, specLog, planLog, buildLog, targetSet, job, misread>>

\* seen by an interview that waits; any other step goes on
CancelJob(s) ==
    /\ Here(s) /\ surface[s].page = NoQuestion
    /\ job[s] # FreeSlot /\ ~job[s].cancelled
    /\ job' = [job EXCEPT ![s].cancelled = TRUE]
    /\ UNCHANGED <<interviewLog, specLog, planLog, buildLog, targetSet, surface, misread>>

\* an exception out of a step of research or planning
JobFails(s) ==
    /\ job[s].step \in Researching \cup Planning
    /\ Frees(s)
    /\ UNCHANGED <<interviewLog, specLog, planLog, buildLog, targetSet, surface, misread>>

\* the process is killed, its build slot and its session with it
SurfaceKilled(s) ==
    /\ surface[s].at # "closed"
    /\ Frees(s)
    /\ lockHolder' = IF job[s].holds THEN "a dead process" ELSE lockHolder
    /\ surface' = [surface EXCEPT ![s] = [at |-> "closed", target |-> NoTarget, page |-> NoQuestion]]
    /\ UNCHANGED <<interviewLog, specLog, planLog, latest, work, recorded, targetSet, misread>>

\* the merges are done, the process dies before project_assembled
AssemblyUnrecorded(s) == Here(s) /\ MergesAll(s) /\ UNCHANGED recorded

-----------------------------------------------------------------------------
\* the last run is not abandoned: see RunCap
MayAbandon(s) == job[s].step \in Researching => RunsToCome < RunCap

SlotStep(s) ==
    \/ StartRun(s) \/ AskOperator(s) \/ HearAnswer(s) \/ GiveUpWaiting(s) \/ DraftSpec(s) \/ AnnounceDraft(s)
    \/ RefusePlan(s) \/ DraftTasks(s) \/ AnnounceTasks(s)
    \/ RefuseDispatch(s) \/ StartTask(s) \/ LayDownPen(s) \/ CompleteJob(s) \/ CrashWriting(s)

\* the blank input, or the retry that the hint spells out
FollowHint(s) ==
    \/ ComeBack(s)
    \/ SubmitPrompt(s) \/ PostAnswer(s)
    \/ Hint(s) = "answer" /\ surface[s].page = NoQuestion /\ (OpenPrompt(s) \/ ReadQuestion(s))
    \/ Hint(s) = "sign" /\ (TuiSign(s, LatestUnsigned) \/ PostSign(s, LatestUnsigned))
    \/ Hint(s) = "research" /\ (TuiResearch(s) \/ PostResearch(s))
    \/ Hint(s) = "plan" /\ (TuiPlan(s) \/ PostPlan(s))
    \/ Hint(s) = "retry" /\ LET t == FirstOf(BlockedTasks(LatestRun)) IN TuiDispatch(s, t) \/ PostDispatch(s, t)
    \/ Hint(s) = "target" /\ (TuiSetTarget(s, Repo) \/ PostTarget(s, Repo))
    \/ Hint(s) = "build" /\ (TuiDispatch(s, 0) \/ PostDispatch(s, 0))
    \/ Hint(s) = "assemble" /\ (TuiAssemble(s) \/ PostAssemble(s))

Whim(s) ==
    \/ ComeBack(s)
    \/ OpenPrompt(s) \/ ReadQuestion(s) \/ SubmitPrompt(s) \/ PostAnswer(s)
    \/ \E r \in Runs : TuiSign(s, r) \/ PostSign(s, r)
    \/ TuiResearch(s) \/ PostResearch(s)
    \/ TuiPlan(s) \/ PostPlan(s)
    \/ \E t \in 0 .. TaskCap : TuiDispatch(s, t) \/ PostDispatch(s, t)
    \/ TuiAssemble(s) \/ PostAssemble(s)
    \/ \E v \in {Own, Repo} : TuiSetTarget(s, v) \/ PostTarget(s, v)
    \/ SwitchAway(s) \/ PanelAway(s) \/ Quit(s)
    \/ MayAbandon(s) /\ CancelJob(s)

Mishap(s) ==
    \/ MayAbandon(s) /\ (JobFails(s) \/ SurfaceKilled(s))
    \/ StopWriting(s)
    \/ AssemblyUnrecorded(s)
    \/ \E r \in Runs : Here(s) /\ SignsSilently(r)

FollowerActs == FollowHint(follower) /\ UNCHANGED <<follower, budgets>>

SlotMoves(s) == SlotStep(s) /\ UNCHANGED <<follower, budgets>>

ConsoleNext ==
    \/ FollowerActs
    \/ \E s \in Surfaces :
          \/ SlotMoves(s)
          \/ whims < WhimCap /\ Whim(s) /\ whims' = whims + 1 /\ UNCHANGED <<follower, mishaps>>
          \/ mishaps < MishapCap /\ Mishap(s) /\ mishaps' = mishaps + 1 /\ UNCHANGED <<follower, whims>>

\* A step that runs goes on; the follower does, sooner or later, what the
\* hint says. Nothing is assumed of other operators.
ConsoleFairness ==
    /\ WF_consoleVars(FollowerActs)
    /\ \A s \in Surfaces : WF_consoleVars(SlotMoves(s))

ConsoleSpec == ConsoleInit /\ [][ConsoleNext]_consoleVars /\ ConsoleFairness

-----------------------------------------------------------------------------
\* Where the hint is known to lead nowhere: an interview that another surface's
\* later run overtook, whose questions nobody can answer any more; a lock left by a killed build; a
\* plan artifact that was never announced, which dispatch and assembly read and
\* the hint does not; an assembly in no target or the harness's own checkout,
\* one of completed work without a branch, or one that was merged but not
\* recorded.
LeadsAstray(s) ==
    \/ job[s].step = "waiting" /\ job[s].run # started
    \/ lockHolder = "a dead process"
    \/ LatestRun # 0 /\ planRow[LatestRun] # planShown[LatestRun]
    \/ /\ Hint(s) = "assemble"
       /\ Base(s) = Own \/ AllMerged(LatestRun) \/ \E t \in 1 .. planRow[LatestRun] : work[LatestRun][t] = "none"

\* the surface shows the project as assembled, or one of the known dead ends
LedHome(s) == Hint(s) = "done" \/ LeadsAstray(s)

(***************************************************************************)
(* Guidance. On a surface at rest the action that the hint names would not *)
(* be refused, although hint and handlers each put their own questions to  *)
(* the log (panel/state.py:195-247, routes.py:325-328), the surfaces act   *)
(* on one store, and steps fail halfway.                                   *)
(***************************************************************************)
HintIsAdmitted ==
    \A s \in Surfaces : Here(s) /\ job[s] = FreeSlot /\ ~LeadsAstray(s) =>
        /\ Hint(s) = "sign" => specRow[LatestUnsigned] # "none"
        /\ Hint(s) = "plan" => Plannable(LatestRun)
        /\ Hint(s) = "build" => Dispatchable(s, LatestRun, 0)
        /\ Hint(s) = "retry" => Plannable(LatestRun) /\ Selected(LatestRun, FirstOf(BlockedTasks(LatestRun))) # {}
        /\ Hint(s) = "assemble" => Assemblable(s, LatestRun)

(***************************************************************************)
(* An answer goes to the question its author was shown, although the       *)
(* pending question is looked up again when it is sent (tui.py:1095,       *)
(* routes.py:277), unless somebody else answered that one or a later run   *)
(* started meanwhile.                                                      *)
(***************************************************************************)
AnswerAsShown == ~misread

(***************************************************************************)
(* What a surface tells its operator is so: its hint (panel/state.py:195,  *)
(* tui.py:428) and the question it shows (tui.py:1071), as above.          *)
(***************************************************************************)
GuidanceHolds == ConsoleTypeOK /\ HintIsAdmitted /\ AnswerAsShown
=============================================================================
