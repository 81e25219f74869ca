----------------------------- MODULE PlanBuild -----------------------------
(***************************************************************************)
(* One correlation from its signed spec to the assembled project, as one   *)
(* console (sign, plan, build) and another that assembles leave it: the    *)
(* artifact rows, the plan projection, the task branches and the HEAD of   *)
(* the target. A branch or HEAD is the set of certified works it holds.    *)
(* How an attempt earns its terminal is TaskDispatch's; here an attempt    *)
(* is where its branch and its terminal stand.                             *)
(***************************************************************************)
EXTENDS Naturals, Sequences, FiniteSets

CONSTANTS
    Tasks,       \* the tasks of a plan: ids are positions in it, so a new plan reuses them
    TaskOrder,   \* Tasks in the plan's order, which is a dependency order
    DependsOn,   \* [Tasks -> SUBSET Tasks]
    Specs,       \* specs drafted in the correlation, in order of creation
    PlanCap,     \* bound: plans drafted
    DispatchCap, \* bound: dispatches of tasks
    BuildMoves,  \* bound: plans drafted and tasks dispatched, together
    BuildKills   \* bound: how many times a process is killed

Plans == 1 .. PlanCap
Tries == 1 .. DispatchCap

ASSUME PlanAssumption ==
    /\ TaskOrder \in Seq(Tasks) /\ Tasks = {TaskOrder[i] : i \in DOMAIN TaskOrder}
    /\ \A i, j \in DOMAIN TaskOrder : TaskOrder[i] = TaskOrder[j] => i = j
    /\ DependsOn \in [Tasks -> SUBSET Tasks]
    /\ Specs \subseteq Nat \ {0}
    /\ PlanCap \in Nat /\ DispatchCap \in Nat /\ BuildMoves \in Nat /\ BuildKills \in Nat

VARIABLES
    signed,      \* the specs whose artifact row has signed = 1
    plans,       \* plan artifacts, in order of creation: the spec each was drafted from
    planState,   \* proj_plan: where each plan announced by plan_drafted stands
    taskRow,     \* proj_plan_tasks: the plan and the state of each task's one row
    dispatches,  \* dispatches so far: they number the attempts
    tries,       \* the latest attempt of each task
    outcome,     \* the latest terminal_outcome of each task, and the attempt it ended
    completions, \* tasks in the order of their 'completed' terminals
    branch,      \* devharness/<task>: the works it holds, or NoBranch
    head,        \* the target's HEAD
    building,    \* the dispatch under way
    assembling,  \* the assembly under way
    assembled,   \* plans with a project_assembled event
    uncommitted, \* certified works not committed to their branch (a history)
    deaths

planVars == <<signed, plans, planState, taskRow, dispatches, tries, outcome, completions,
              branch, head, building, assembling, assembled, uncommitted, deaths>>

planningVars == <<plans, planState>>
gitVars == <<branch, head>>
workVars == <<taskRow, dispatches, tries, outcome, completions, uncommitted, building>>
mergeVars == <<assembling, assembled>>

NoTask == "no task"
NoBranch == {[task |-> NoTask, try |-> 0]}
Works == [task : Tasks, try : Tries]

Resting == [phase |-> "idle", task |-> NoTask, plan |-> 0, base |-> NoTask]

Unassembling == [phase |-> "idle", plan |-> 0, left |-> <<>>, tries |-> [t \in Tasks |-> 0], unready |-> {}]

PlanTypeOK ==
    /\ signed \subseteq Specs
    /\ plans \in Seq(Specs) /\ Len(plans) <= PlanCap
    /\ planState \in [Plans -> {"no row", "drafted", "executing", "completed", "blocked"}]
    /\ taskRow \in [Tasks -> [plan : Plans \cup {0}, state : {"none", "running", "completed", "stopped"}]]
    /\ dispatches \in 0 .. DispatchCap
    /\ tries \in [Tasks -> 0 .. DispatchCap]
    /\ outcome \in [Tasks -> [kind : {"none", "completed", "stopped"}, try : 0 .. DispatchCap]]
    /\ completions \in Seq(Tasks)
    /\ \A t \in Tasks : branch[t] = NoBranch \/ branch[t] \subseteq Works
    /\ head \subseteq Works /\ uncommitted \subseteq Works
    /\ building.phase \in {"idle", "cleaned", "dispatched", "writing", "certified"}
    /\ building.task \in Tasks \cup {NoTask} /\ building.base \in Tasks \cup {NoTask}
    /\ building.plan \in Plans \cup {0}
    /\ assembling.phase \in {"idle", "merging", "merged"}
    /\ assembled \subseteq Plans /\ deaths \in 0 .. BuildKills

-----------------------------------------------------------------------------
MayMove == Len(plans) + dispatches < BuildMoves

Latest(S) == CHOOSE s \in S : \A r \in S : r <= s

\* _select_task: any task of the plan that the operator names, settled or not
\* and out of order; without a name the first with no terminal of any kind, in
\* whatever plan it was reached
Pending == {i \in DOMAIN TaskOrder : outcome[TaskOrder[i]].kind = "none"}

Selectable(t, named) == named \/ \E i \in Pending : TaskOrder[i] = t /\ \A j \in Pending : i <= j

\* _transitive_descendants: the tasks that depend on t, and t
Descendants(t) ==
    LET Grow(S) == S \cup {u \in Tasks : DependsOn[u] \cap S # {}}
        grown[n \in 0 .. Len(TaskOrder)] == IF n = 0 THEN {t} ELSE Grow(grown[n - 1])
    IN  grown[Len(TaskOrder)]

\* _latest_completed_branch
BaseOf(t) ==
    LET usable == {i \in DOMAIN completions : completions[i] \notin Descendants(t)}
    IN  IF usable = {} THEN NoTask ELSE completions[Latest(usable)]

\* Which outcomes count toward the plan: rows carry the plan that dispatched
\* the task last.
CompletedIn(p, rows) == {t \in Tasks : rows[t].plan = p /\ rows[t].state = "completed"}

\* Fault: the count forgets the plan
CountAnyPlan(p, rows) ==
    IF {t \in Tasks : rows[t].state = "completed"} = Tasks THEN "completed" ELSE "executing"

\* handle_terminal_outcome on a completed terminal
StateOnCompleted(p, rows) ==
    IF CompletedIn(p, rows) = Tasks THEN "completed" ELSE "executing"

SetPlanState(p, s) ==
    planState' = [q \in Plans |-> IF q = p /\ planState[q] # "no row" THEN s ELSE planState[q]]

PlanInit ==
    /\ signed = {}
    /\ plans = <<>> /\ planState = [p \in Plans |-> "no row"]
    /\ taskRow = [t \in Tasks |-> [plan |-> 0, state |-> "none"]]
    /\ dispatches = 0 /\ tries = [t \in Tasks |-> 0]
    /\ outcome = [t \in Tasks |-> [kind |-> "none", try |-> 0]]
    /\ completions = <<>>
    /\ branch = [t \in Tasks |-> NoBranch] /\ head = {}
    /\ building = Resting /\ assembling = Unassembling
    /\ assembled = {} /\ uncommitted = {} /\ deaths = 0

-----------------------------------------------------------------------------
\* sign_spec sets the row, which is what plan and build resolve. Its event
\* comes after (sign.py:56-59) and nothing here reads it; a rejection is an
\* event only.
SignSpec(s) ==
    /\ s \notin signed
    /\ signed' = signed \cup {s}
    /\ UNCHANGED <<planningVars, workVars, gitVars, mergeVars, deaths>>

\* ConsoleDirector.plan and DirectorRole.run: the artifact is committed, then
\* announced; a director that fails in between leaves an artifact that build
\* and assemble resolve all the same
DraftPlan ==
    /\ signed # {} /\ Len(plans) < PlanCap /\ MayMove
    /\ plans' = Append(plans, Latest(signed))
    /\ UNCHANGED <<planState, signed, workVars, gitVars, mergeVars, deaths>>

AnnouncePlan ==
    /\ plans # <<>> /\ planState[Len(plans)] = "no row"
    /\ planState' = [planState EXCEPT ![Len(plans)] = "drafted"]
    /\ UNCHANGED <<plans, signed, workVars, gitVars, mergeVars, deaths>>

-----------------------------------------------------------------------------
\* ConsoleDeveloper.dispatch up to the first attempt: the task is selected,
\* then its base; its old branch is deleted
DispatchTask(t, named) ==
    /\ building.phase = "idle"
    /\ signed # {} /\ plans # <<>>
    /\ Selectable(t, named)
    /\ dispatches < DispatchCap /\ MayMove /\ dispatches' = dispatches + 1
    /\ tries' = [tries EXCEPT ![t] = dispatches + 1]
    /\ building' = [phase |-> "cleaned", task |-> t, plan |-> Len(plans), base |-> BaseOf(t)]
    /\ branch' = [branch EXCEPT ![t] = NoBranch]
    /\ UNCHANGED <<head, taskRow, outcome, completions, uncommitted, signed, planningVars, mergeVars, deaths>>

\* task_dispatched
AnnounceDispatch ==
    /\ building.phase = "cleaned"
    /\ building' = [building EXCEPT !.phase = "dispatched"]
    /\ taskRow' = [taskRow EXCEPT ![building.task] = [plan |-> building.plan, state |-> "running"]]
    /\ SetPlanState(building.plan, "executing")
    /\ UNCHANGED <<plans, dispatches, tries, outcome, completions, uncommitted, signed, gitVars, mergeVars, deaths>>

BaseWorks == IF building.base = NoTask THEN head ELSE branch[building.base]

\* git worktree add -b devharness/<task> <base>
AddWorktree ==
    /\ building.phase = "dispatched" /\ BaseWorks # NoBranch
    /\ branch' = [branch EXCEPT ![building.task] = BaseWorks]
    /\ building' = [building EXCEPT !.phase = "writing"]
    /\ UNCHANGED <<head, taskRow, dispatches, tries, outcome, completions, uncommitted, signed, planningVars, mergeVars, deaths>>

\* a spec-claim rewind or the SDK glitch: cleaned and dispatched again
RetryTask ==
    /\ building.phase = "writing"
    /\ branch' = [branch EXCEPT ![building.task] = NoBranch]
    /\ building' = [building EXCEPT !.phase = "cleaned"]
    /\ UNCHANGED <<head, taskRow, dispatches, tries, outcome, completions, uncommitted, signed, planningVars, mergeVars, deaths>>

Terminal(t, kind) ==
    /\ outcome' = [outcome EXCEPT ![t] = [kind |-> kind, try |-> tries[t]]]
    /\ taskRow' = [taskRow EXCEPT ![t].state = kind]

\* the certified task is complete before its work is committed
CompleteTask ==
    /\ building.phase = "writing"
    /\ LET t == building.task
           p == taskRow[t].plan
       IN  /\ Terminal(t, "completed")
           /\ SetPlanState(p, StateOnCompleted(p, taskRow'))
           /\ completions' = Append(completions, t)
           /\ uncommitted' = uncommitted \cup {[task |-> t, try |-> tries[t]]}
    /\ building' = [building EXCEPT !.phase = "certified"]
    /\ UNCHANGED <<plans, dispatches, tries, signed, gitVars, mergeVars, deaths>>

\* a gate denies it, a verifier or the reviewer rejects it, or it crashes (a
\* base branch that is missing, too)
StopTask ==
    /\ building.phase \in {"dispatched", "writing"}
    /\ Terminal(building.task, "stopped")
    /\ SetPlanState(taskRow[building.task].plan, "blocked")
    /\ building' = Resting
    /\ UNCHANGED <<plans, dispatches, tries, completions, uncommitted, signed, gitVars, mergeVars, deaths>>

\* _commit_scratch_branch; when git refuses, abort() is illegal on a completed
\* task and the dispatch ends in its exception
CommitWork ==
    /\ building.phase = "certified"
    /\ LET w == [task |-> building.task, try |-> tries[building.task]]
       IN  \/ /\ branch' = [branch EXCEPT ![building.task] = @ \cup {w}]
              /\ uncommitted' = uncommitted \ {w}
           \/ UNCHANGED <<branch, uncommitted>>
    /\ building' = Resting
    /\ UNCHANGED <<head, taskRow, dispatches, tries, outcome, completions, signed, planningVars, mergeVars, deaths>>

BuildDies ==
    /\ building.phase # "idle" /\ building' = Resting
    /\ deaths < BuildKills /\ deaths' = deaths + 1
    /\ UNCHANGED <<taskRow, dispatches, tries, outcome, completions, uncommitted, signed, planningVars, gitVars, mergeVars>>

-----------------------------------------------------------------------------
AllCompleted == \A t \in Tasks : outcome[t].kind = "completed"

Landed(t) == branch[t] # NoBranch /\ branch[t] \subseteq head

StartFrom(tasks) ==
    assembling' = [phase |-> "merging", plan |-> Len(plans), left |-> tasks,
                   tries |-> [t \in Tasks |-> outcome[t].try], unready |-> uncommitted]

\* Fault: a terminal of any kind counts as done
StartOnTerminals ==
    /\ assembling.phase = "idle" /\ plans # <<>>
    /\ \A t \in Tasks : outcome[t].kind # "none"
    /\ ~\A t \in Tasks : Landed(t)
    /\ StartFrom(TaskOrder)
    /\ UNCHANGED <<assembled, signed, planningVars, workVars, gitVars, deaths>>

\* ConsoleAssemble.assemble: nothing to do when every branch is in HEAD
StartAssembly ==
    /\ assembling.phase = "idle" /\ plans # <<>>
    /\ AllCompleted
    /\ ~\A t \in Tasks : Landed(t)
    /\ StartFrom(TaskOrder)
    /\ UNCHANGED <<assembled, signed, planningVars, workVars, gitVars, deaths>>

\* one branch, in dependency order; a missing one, or one whose merge
\* conflicts, ends the assembly with what was merged before it in HEAD
MergeBranch ==
    /\ assembling.phase = "merging"
    /\ LET t == Head(assembling.left)
           rest == Tail(assembling.left)
       IN  \/ /\ branch[t] # NoBranch
              /\ head' = head \cup branch[t]
              /\ assembling' = [assembling EXCEPT !.left = rest,
                                                  !.phase = IF rest = <<>> THEN "merged" ELSE @]
           \/ /\ branch[t] = NoBranch \/ (~head \subseteq branch[t] /\ ~Landed(t))
              /\ assembling' = Unassembling
              /\ UNCHANGED head
    /\ UNCHANGED <<branch, assembled, signed, planningVars, workVars, deaths>>

\* project_assembled
RecordAssembly ==
    /\ assembling.phase = "merged"
    /\ assembled' = assembled \cup {assembling.plan}
    /\ assembling' = Unassembling
    /\ UNCHANGED <<signed, planningVars, workVars, gitVars, deaths>>

AssemblyDies ==
    /\ assembling.phase # "idle" /\ assembling' = Unassembling
    /\ deaths < BuildKills /\ deaths' = deaths + 1
    /\ UNCHANGED <<assembled, signed, planningVars, workVars, gitVars>>

PlanNext ==
    \/ \E s \in Specs : SignSpec(s)
    \/ DraftPlan
    \/ AnnouncePlan
    \/ \E t \in Tasks, named \in BOOLEAN : DispatchTask(t, named)
    \/ AnnounceDispatch
    \/ AddWorktree
    \/ RetryTask
    \/ CompleteTask
    \/ StopTask
    \/ CommitWork
    \/ BuildDies
    \/ StartAssembly
    \/ MergeBranch
    \/ RecordAssembly
    \/ AssemblyDies

PlanSpec == PlanInit /\ [][PlanNext]_planVars

-----------------------------------------------------------------------------
(***************************************************************************)
(* An assembled project holds what its tasks earned. When every branch is  *)
(* merged and project_assembled is due, HEAD holds the work that each      *)
(* task's completed terminal certified, except a task whose work was not   *)
(* committed when the assembly began (developer.py:589 completes before    *)
(* 593 commits) and one dispatched again since (developer.py:717 deletes   *)
(* its branch). Chained bases, retries, a build that goes on beside the    *)
(* merges and an assembly that was killed halfway lose nothing.            *)
(***************************************************************************)
AssembledIsEarned ==
    assembling.phase = "merged" =>
        \A t \in Tasks :
            LET w == [task |-> t, try |-> assembling.tries[t]]
            IN  w \in head \/ w \in assembling.unready \/ tries[t] > w.try

(***************************************************************************)
(* A plan shown as completed was built: every task still on its rows ended *)
(* completed, and none is without a completed attempt, although a later    *)
(* plan of the correlation reuses the task ids, takes the rows over and    *)
(* leaves the terminals of the earlier plan in place (handlers.py:574-589).*)
(***************************************************************************)
ShownCompleteWasBuilt ==
    \A p \in Plans : planState[p] = "completed" =>
        \A t \in Tasks :
            /\ taskRow[t].plan >= p
            /\ taskRow[t].plan = p => taskRow[t].state = "completed"
            /\ t \in {completions[i] : i \in DOMAIN completions}

(***************************************************************************)
(* What is shown or merged as built was earned: the two properties above,  *)
(* of plan projection (handlers.py:555-603) and assembly (assemble.py).    *)
(***************************************************************************)
BuiltIsEarned == PlanTypeOK /\ AssembledIsEarned /\ ShownCompleteWasBuilt
=============================================================================
