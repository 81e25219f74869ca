----------------------------- MODULE BuildProofs ----------------------------
(***************************************************************************)
(* What is proved of the machines between a signed plan and the repository *)
(* it is built in, and of the panel they are driven from.                  *)
(***************************************************************************)
EXTENDS PlanBuild, PanelSwitch, SequenceFacts, FiniteSetTheorems

-----------------------------------------------------------------------------
(***************************************************************************)
(* PlanBuild. The argument: a certified work is always somewhere - on its  *)
(* branch, or not committed yet - unless its task was dispatched again,    *)
(* and a dispatch numbers its attempt above every earlier one; an assembly *)
(* has in HEAD what it merged and on its branch what is left to merge. A   *)
(* plan that is shown as completed stays built because no row goes back to *)
(* an earlier plan.                                                        *)
(***************************************************************************)
BuildFrame ==
    [phase : {"idle", "cleaned", "dispatched", "writing", "certified"},
     task : Tasks \cup {NoTask}, plan : Plans \cup {0}, base : Tasks \cup {NoTask}]

AssemblyFrame ==
    [phase : {"idle", "merging", "merged"}, plan : Plans \cup {0}, left : Seq(Tasks),
     tries : [Tasks -> 0 .. DispatchCap], unready : SUBSET Works]

PlanFrames ==
    /\ PlanTypeOK
    /\ \E n \in Nat : signed \subseteq 1 .. n
    /\ branch = [t \in Tasks |-> branch[t]]
    /\ building \in BuildFrame /\ assembling \in AssemblyFrame
    /\ building.phase # "idle" => building.task \in Tasks /\ building.plan \in Plans
    /\ building.phase \in {"writing", "certified"} => branch[building.task] # NoBranch
    /\ building.phase # "idle" => tries[building.task] >= 1
    /\ assembling.phase # "idle" => assembling.plan \in Plans
    /\ assembling.phase = "merging" => assembling.left # <<>>
    /\ assembling.phase = "merged" => assembling.left = <<>>

\* A dispatch has a higher number than every attempt that was recorded before.
TriesAscend ==
    /\ \A t \in Tasks : outcome[t].try <= tries[t] /\ tries[t] <= dispatches
    /\ assembling.phase # "idle" => \A t \in Tasks : assembling.tries[t] <= dispatches
    /\ building.phase \in {"cleaned", "dispatched", "writing"} =>
          /\ outcome[building.task].try < tries[building.task]
          /\ assembling.phase # "idle" => assembling.tries[building.task] < tries[building.task]

\* the work an attempt certifies
Certified(t, n) == [task |-> t, try |-> n]

CertifiedIsSomewhere ==
    \A t \in Tasks : outcome[t].kind = "completed" =>
        \/ Certified(t, outcome[t].try) \in branch[t]
        \/ Certified(t, outcome[t].try) \in uncommitted
        \/ tries[t] > outcome[t].try

MergesToCome ==
    assembling.phase # "idle" =>
        \A t \in Tasks :
            \/ Certified(t, assembling.tries[t]) \in head
            \/ Certified(t, assembling.tries[t]) \in assembling.unready
            \/ tries[t] > assembling.tries[t]
            \/ Certified(t, assembling.tries[t]) \in branch[t] /\ t \in Held(assembling.left)

RowsAreRecent ==
    /\ \A t \in Tasks : taskRow[t].plan <= Len(plans)
    /\ building.phase # "idle" =>
          /\ building.plan <= Len(plans)
          /\ \A t \in Tasks : taskRow[t].plan <= building.plan
    /\ \A t \in Tasks : taskRow[t].state = "completed" => t \in Held(completions)

PlanInv ==
    /\ PlanFrames
    /\ TriesAscend
    /\ CertifiedIsSomewhere
    /\ MergesToCome
    /\ RowsAreRecent
    /\ ShownCompleteWasBuilt

\* what the constants and the types say, in the form the proofs use it
LEMMA PlanFacts ==
    ASSUME PlanFrames
    PROVE  /\ PlanCap \in Nat /\ DispatchCap \in Nat /\ BuildKills \in Nat
           /\ TaskOrder \in Seq(Tasks) /\ Held(TaskOrder) = Tasks
           /\ signed \subseteq Specs /\ plans \in Seq(Specs) /\ Len(plans) \in Nat /\ Len(plans) <= PlanCap
           /\ planState \in [Plans -> {"no row", "drafted", "executing", "completed", "blocked"}]
           /\ taskRow \in [Tasks -> [plan : Plans \cup {0}, state : {"none", "running", "completed", "stopped"}]]
           /\ dispatches \in 0 .. DispatchCap /\ tries \in [Tasks -> 0 .. DispatchCap]
           /\ outcome \in [Tasks -> [kind : {"none", "completed", "stopped"}, try : 0 .. DispatchCap]]
           /\ completions \in Seq(Tasks)
           /\ branch = [t \in Tasks |-> branch[t]]
           /\ \A t \in Tasks : branch[t] = NoBranch \/ branch[t] \subseteq Works
           /\ head \subseteq Works /\ uncommitted \subseteq Works
           /\ building \in BuildFrame /\ assembling \in AssemblyFrame
           /\ assembled \subseteq Plans /\ deaths \in 0 .. BuildKills
<1>1. PlanCap \in Nat /\ DispatchCap \in Nat /\ BuildKills \in Nat /\ TaskOrder \in Seq(Tasks)
  BY PlanAssumption
<1>2. Held(TaskOrder) = Tasks
  BY PlanAssumption DEF Held
<1>3. plans \in Seq(Specs) /\ Len(plans) <= PlanCap /\ Len(plans) \in Nat
  BY Positions DEF PlanFrames, PlanTypeOK
<1>4. QED
  BY <1>1, <1>2, <1>3 DEF PlanFrames, PlanTypeOK

\* the base a task is built on is a task completed before it, or HEAD
LEMMA BaseIsTask ==
    ASSUME PlanFrames, NEW t \in Tasks
    PROVE  BaseOf(t) \in Tasks \cup {NoTask}
<1> DEFINE usable == {i \in DOMAIN completions : completions[i] \notin Descendants(t)}
<1>1. /\ usable \subseteq 1 .. Len(completions) /\ Len(completions) \in Nat
      /\ \A i \in DOMAIN completions : completions[i] \in Tasks
  BY ZenonT(30), PlanFacts, Positions
<1>2. usable # {} => Latest(usable) \in usable
  BY <1>1, LargestExists DEF Latest
<1>3. usable # {} => completions[Latest(usable)] \in Tasks
  BY <1>1, <1>2
<1> HIDE DEF usable
<1>4. BaseOf(t) = IF usable = {} THEN NoTask ELSE completions[Latest(usable)]
  BY DEF BaseOf, usable
<1>5. QED
  BY <1>3, <1>4

\* a record of the types above is itself with one field replaced
LEMMA BuildingMoves ==
    ASSUME NEW b \in BuildFrame, NEW step \in {"idle", "cleaned", "dispatched", "writing", "certified"}
    PROVE  /\ [b EXCEPT !.phase = step] \in BuildFrame
           /\ [b EXCEPT !.phase = step].phase = step
           /\ [b EXCEPT !.phase = step].task = b.task
           /\ [b EXCEPT !.phase = step].plan = b.plan
           /\ [b EXCEPT !.phase = step].base = b.base
BY DEF BuildFrame

LEMMA Rests ==
    /\ Resting \in BuildFrame /\ Resting.phase = "idle"
    /\ Unassembling.phase = "idle" /\ (DispatchCap \in Nat => Unassembling \in AssemblyFrame)
<1>1. Resting \in BuildFrame /\ Resting.phase = "idle"
  BY DEF Resting, BuildFrame
<1>2. <<>> \in Seq(Tasks)
  BY EmptySeq
<1>3. QED
  BY <1>1, <1>2 DEF Unassembling, AssemblyFrame

LEMMA PlanStatesStay ==
    ASSUME PlanFrames, NEW p, NEW s \in {"drafted", "executing", "completed", "blocked"}, SetPlanState(p, s)
    PROVE  planState' \in [Plans -> {"no row", "drafted", "executing", "completed", "blocked"}]
BY PlanFacts DEF SetPlanState

\* the latest signed spec, which is what a plan is drafted from
LEMMA LatestIsSpec ==
    ASSUME PlanFrames, signed # {}
    PROVE  Latest(signed) \in Specs
<1>1. signed \subseteq Specs
  BY DEF PlanFrames, PlanTypeOK
<1>2. PICK n \in Nat : signed \subseteq 1 .. n
  BY DEF PlanFrames
<1>3. QED
  BY <1>1, <1>2, LargestExists DEF Latest

LEMMA SigningKeepsFrames ==
    ASSUME PlanFrames, (\E s \in Specs : SignSpec(s)) \/ DraftPlan \/ AnnouncePlan
    PROVE  PlanFrames'
<1> USE DEF planningVars, gitVars, workVars, mergeVars
<1>1. CASE \E s \in Specs : SignSpec(s)
  <2> PICK s \in Specs : SignSpec(s)
    BY <1>1
  <2>1. PICK n \in Nat : signed \subseteq 1 .. n
    BY DEF PlanFrames
  <2>2. s \in Nat \ {0}
    BY PlanAssumption
  <2>3. \E m \in Nat : signed' \subseteq 1 .. m
    <3>1. CASE s <= n
      BY <2>1, <2>2, <3>1 DEF SignSpec
    <3>2. CASE n < s
      BY <2>1, <2>2, <3>2 DEF SignSpec
    <3>3. QED
      BY <2>2, <3>1, <3>2
  <2>4. PlanTypeOK'
    BY DEF SignSpec, PlanFrames, PlanTypeOK
  <2>5. QED
    BY <2>3, <2>4 DEF SignSpec, PlanFrames
<1>2. CASE DraftPlan
  <2>1. Latest(signed) \in Specs
    BY <1>2, LatestIsSpec DEF DraftPlan
  <2>2. plans' \in Seq(Specs) /\ Len(plans') <= PlanCap
    <3>1. plans \in Seq(Specs) /\ Len(plans) \in Nat /\ PlanCap \in Nat
      BY PlanFacts
    <3>2. plans' = Append(plans, Latest(signed)) /\ Len(plans) < PlanCap
      BY <1>2 DEF DraftPlan
    <3>3. plans' \in Seq(Specs) /\ Len(plans') = Len(plans) + 1
      BY <2>1, <3>1, <3>2, AppendGrows
    <3>4. QED
      BY <3>1, <3>2, <3>3
  <2>3. QED
    BY <1>2, <2>2 DEF DraftPlan, PlanFrames, PlanTypeOK
<1>3. CASE AnnouncePlan
  <2>1. planState' \in [Plans -> {"no row", "drafted", "executing", "completed", "blocked"}]
    BY <1>3, PlanFacts DEF AnnouncePlan
  <2>2. QED
    BY <1>3, <2>1 DEF AnnouncePlan, PlanFrames, PlanTypeOK
<1>4. QED
  BY <1>1, <1>2, <1>3

LEMMA DispatchKeepsFrames ==
    ASSUME PlanFrames, NEW t \in Tasks, NEW named \in BOOLEAN, DispatchTask(t, named)
    PROVE  PlanFrames'
<1> USE DEF planningVars, gitVars, workVars, mergeVars
<1>0. /\ UNCHANGED <<head, taskRow, outcome, completions, uncommitted, signed, plans, planState,
                     assembling, assembled, deaths>>
      /\ dispatches' = dispatches + 1 /\ dispatches < DispatchCap
      /\ tries' = [tries EXCEPT ![t] = dispatches + 1] /\ branch' = [branch EXCEPT ![t] = NoBranch]
      /\ building' = [phase |-> "cleaned", task |-> t, plan |-> Len(plans), base |-> BaseOf(t)]
      /\ plans # <<>>
  BY DEF DispatchTask
<1>1. Len(plans) \in Plans
  <2>1. plans \in Seq(Specs) /\ Len(plans) \in Nat /\ Len(plans) <= PlanCap /\ PlanCap \in Nat
    BY PlanFacts
  <2>2. Len(plans) # 0
    BY <1>0, <2>1, EmptySeq
  <2>3. QED
    BY <2>1, <2>2 DEF Plans
<1>2. BaseOf(t) \in Tasks \cup {NoTask}
  BY BaseIsTask
<1>3. building' \in BuildFrame /\ building'.phase = "cleaned" /\ building'.task = t /\ building'.plan = Len(plans)
  BY <1>0, <1>1, <1>2 DEF BuildFrame
<1>4. /\ dispatches' \in 0 .. DispatchCap /\ dispatches + 1 >= 1
      /\ tries' \in [Tasks -> 0 .. DispatchCap] /\ tries'[t] = dispatches + 1
  <2>1. DispatchCap \in Nat /\ dispatches \in 0 .. DispatchCap /\ tries \in [Tasks -> 0 .. DispatchCap]
    BY PlanFacts
  <2>2. QED
    BY <1>0, <2>1
<1>5. /\ branch' = [u \in Tasks |-> branch'[u]]
      /\ \A u \in Tasks : branch'[u] = NoBranch \/ branch'[u] \subseteq Works
  BY <1>0, PlanFacts
<1>6. PlanTypeOK'
  BY <1>0, <1>3, <1>4, <1>5 DEF PlanFrames, PlanTypeOK, BuildFrame
<1>7. QED
  BY <1>0, <1>1, <1>3, <1>4, <1>5, <1>6 DEF PlanFrames

\* the steps of a dispatch: what they have in common
LEMMA AttemptKeepsFrames ==
    ASSUME PlanFrames, building.phase # "idle",
           building' \in BuildFrame, building'.phase # "idle" => building'.task = building.task /\ building'.plan = building.plan,
           building'.phase \in {"writing", "certified"} => branch'[building.task] # NoBranch,
           planState' \in [Plans -> {"no row", "drafted", "executing", "completed", "blocked"}],
           taskRow' \in [Tasks -> [plan : Plans \cup {0}, state : {"none", "running", "completed", "stopped"}]],
           outcome' \in [Tasks -> [kind : {"none", "completed", "stopped"}, try : 0 .. DispatchCap]],
           completions' \in Seq(Tasks), uncommitted' \subseteq Works,
           branch' = [t \in Tasks |-> branch'[t]],
           \A t \in Tasks : branch'[t] = NoBranch \/ branch'[t] \subseteq Works,
           deaths' \in 0 .. BuildKills,
           UNCHANGED <<signed, plans, dispatches, tries, head, assembling, assembled>>
    PROVE  PlanFrames'
<1>1. PlanTypeOK'
  BY DEF PlanFrames, PlanTypeOK, BuildFrame
<1>2. QED
  BY <1>1 DEF PlanFrames

\* what is true of a dispatch that is under way
LEMMA UnderWay ==
    ASSUME PlanFrames, building.phase # "idle"
    PROVE  /\ building.task \in Tasks /\ building.plan \in Plans
           /\ tries[building.task] \in Tries /\ tries[building.task] \in 0 .. DispatchCap
           /\ taskRow[building.task] \in [plan : Plans \cup {0}, state : {"none", "running", "completed", "stopped"}]
           /\ \A n \in Tries : Certified(building.task, n) \in Works
<1>1. building.task \in Tasks /\ building.plan \in Plans /\ tries[building.task] >= 1
  BY DEF PlanFrames
<1>2. DispatchCap \in Nat /\ tries[building.task] \in 0 .. DispatchCap
  BY <1>1, PlanFacts
<1>3. tries[building.task] \in Tries
  BY <1>1, <1>2 DEF Tries
<1>4. \A n \in Tries : Certified(building.task, n) \in Works
  BY <1>1 DEF Certified, Works
<1>5. QED
  BY <1>1, <1>2, <1>3, <1>4, PlanFacts

LEMMA RecordsTerminal ==
    ASSUME PlanFrames, NEW t \in Tasks, NEW kind \in {"completed", "stopped"}, Terminal(t, kind)
    PROVE  /\ taskRow' \in [Tasks -> [plan : Plans \cup {0}, state : {"none", "running", "completed", "stopped"}]]
           /\ outcome' \in [Tasks -> [kind : {"none", "completed", "stopped"}, try : 0 .. DispatchCap]]
           /\ \A u \in Tasks : taskRow'[u].plan = taskRow[u].plan
           /\ \A u \in Tasks : u # t => taskRow'[u] = taskRow[u] /\ outcome'[u] = outcome[u]
           /\ taskRow'[t].state = kind
           /\ outcome'[t].kind = kind /\ outcome'[t].try = tries[t]
<1> DEFINE row == [taskRow[t] EXCEPT !.state = kind]
           end == [kind |-> kind, try |-> tries[t]]
<1>1. /\ taskRow \in [Tasks -> [plan : Plans \cup {0}, state : {"none", "running", "completed", "stopped"}]]
      /\ outcome \in [Tasks -> [kind : {"none", "completed", "stopped"}, try : 0 .. DispatchCap]]
      /\ tries[t] \in 0 .. DispatchCap
  BY PlanFacts
<1>2. /\ row \in [plan : Plans \cup {0}, state : {"none", "running", "completed", "stopped"}]
      /\ row.plan = taskRow[t].plan /\ row.state = kind
  BY <1>1
<1>3. /\ end \in [kind : {"none", "completed", "stopped"}, try : 0 .. DispatchCap]
      /\ end.kind = kind /\ end.try = tries[t]
  BY <1>1
<1>4. taskRow' = [taskRow EXCEPT ![t] = row] /\ outcome' = [outcome EXCEPT ![t] = end]
  BY <1>1 DEF Terminal
<1> HIDE DEF row, end
<1>5. QED
  BY <1>1, <1>2, <1>3, <1>4

LEMMA AnnouncingKeepsFrames ==
    ASSUME PlanFrames, AnnounceDispatch
    PROVE  PlanFrames'
<1>1. building.phase = "cleaned" /\ building' = [building EXCEPT !.phase = "dispatched"]
      /\ UNCHANGED <<plans, dispatches, tries, outcome, completions, uncommitted, signed, branch, head,
                     assembling, assembled, deaths>>
  BY DEF AnnounceDispatch, gitVars, mergeVars
<1>2. /\ building' \in BuildFrame /\ building'.phase = "dispatched"
      /\ building'.task = building.task /\ building'.plan = building.plan
  BY <1>1, BuildingMoves, PlanFacts
<1>3. planState' \in [Plans -> {"no row", "drafted", "executing", "completed", "blocked"}]
  BY PlanStatesStay DEF AnnounceDispatch
<1>4. taskRow' \in [Tasks -> [plan : Plans \cup {0}, state : {"none", "running", "completed", "stopped"}]]
  <2>1. building.task \in Tasks /\ building.plan \in Plans
    BY <1>1, UnderWay
  <2>2. [plan |-> building.plan, state |-> "running"]
           \in [plan : Plans \cup {0}, state : {"none", "running", "completed", "stopped"}]
    BY <2>1
  <2>3. QED
    BY <2>2, PlanFacts DEF AnnounceDispatch
<1>5. QED
  BY <1>1, <1>2, <1>3, <1>4, PlanFacts, AttemptKeepsFrames

LEMMA WorktreeKeepsFrames ==
    ASSUME PlanFrames, AddWorktree \/ RetryTask
    PROVE  PlanFrames'
<1>1. /\ UNCHANGED <<head, taskRow, dispatches, tries, outcome, completions, uncommitted, signed, plans, planState,
                     assembling, assembled, deaths>>
      /\ building.phase # "idle"
  BY DEF AddWorktree, RetryTask, planningVars, mergeVars
<1>2. building.task \in Tasks
  BY <1>1, UnderWay
<1>3. CASE AddWorktree
  <2>1. BaseWorks # NoBranch /\ BaseWorks \subseteq Works
    BY <1>3, PlanFacts DEF AddWorktree, BaseWorks, BuildFrame
  <2>2. /\ building' \in BuildFrame /\ building'.phase = "writing"
        /\ building'.task = building.task /\ building'.plan = building.plan
    BY <1>3, BuildingMoves, PlanFacts DEF AddWorktree
  <2>3. branch' = [branch EXCEPT ![building.task] = BaseWorks]
    BY <1>3 DEF AddWorktree
  <2>4. /\ branch' = [t \in Tasks |-> branch'[t]] /\ branch'[building.task] = BaseWorks
        /\ \A t \in Tasks : branch'[t] = NoBranch \/ branch'[t] \subseteq Works
    BY <1>2, <2>1, <2>3, PlanFacts
  <2>5. QED
    BY <1>1, <2>1, <2>2, <2>4, PlanFacts, AttemptKeepsFrames
<1>4. CASE RetryTask
  <2>1. /\ building' \in BuildFrame /\ building'.phase = "cleaned"
        /\ building'.task = building.task /\ building'.plan = building.plan
    BY <1>4, BuildingMoves, PlanFacts DEF RetryTask
  <2>2. branch' = [branch EXCEPT ![building.task] = NoBranch]
    BY <1>4 DEF RetryTask
  <2>3. /\ branch' = [t \in Tasks |-> branch'[t]]
        /\ \A t \in Tasks : branch'[t] = NoBranch \/ branch'[t] \subseteq Works
    BY <2>2, PlanFacts
  <2>4. QED
    BY <1>1, <2>1, <2>3, PlanFacts, AttemptKeepsFrames
<1>5. QED
  BY <1>3, <1>4

LEMMA EndingKeepsFrames ==
    ASSUME PlanFrames, CompleteTask \/ StopTask
    PROVE  PlanFrames'
<1> DEFINE t == building.task
<1>1. /\ UNCHANGED <<plans, dispatches, tries, signed, branch, head, assembling, assembled, deaths>>
      /\ building.phase \in {"dispatched", "writing"}
  BY DEF CompleteTask, StopTask, gitVars, mergeVars
<1>2. t \in Tasks /\ Certified(t, tries[t]) \in Works
  BY <1>1, UnderWay
<1>3. \E kind \in {"completed", "stopped"} : Terminal(t, kind)
  BY DEF CompleteTask, StopTask
<1>4. /\ taskRow' \in [Tasks -> [plan : Plans \cup {0}, state : {"none", "running", "completed", "stopped"}]]
      /\ outcome' \in [Tasks -> [kind : {"none", "completed", "stopped"}, try : 0 .. DispatchCap]]
  BY <1>2, <1>3, RecordsTerminal
<1>5. CASE CompleteTask
  <2>1. planState' \in [Plans -> {"no row", "drafted", "executing", "completed", "blocked"}]
    BY <1>5, PlanStatesStay DEF CompleteTask, StateOnCompleted
  <2>2. completions' \in Seq(Tasks)
    BY <1>2, <1>5, PlanFacts, AppendGrows DEF CompleteTask
  <2>3. uncommitted' \subseteq Works
    BY <1>2, <1>5, PlanFacts DEF CompleteTask, Certified
  <2>4. /\ building' \in BuildFrame /\ building'.phase = "certified"
        /\ building'.task = t /\ building'.plan = building.plan
    BY <1>5, BuildingMoves, PlanFacts DEF CompleteTask
  <2>5. branch[t] # NoBranch
    BY <1>5 DEF CompleteTask, PlanFrames
  <2>6. QED
    BY <1>1, <1>4, <2>1, <2>2, <2>3, <2>4, <2>5, PlanFacts, AttemptKeepsFrames
<1>6. CASE StopTask
  <2>1. planState' \in [Plans -> {"no row", "drafted", "executing", "completed", "blocked"}]
    BY <1>6, PlanStatesStay DEF StopTask
  <2>2. UNCHANGED <<completions, uncommitted>> /\ building' = Resting
    BY <1>6 DEF StopTask
  <2>3. QED
    BY <1>1, <1>4, <2>1, <2>2, Rests, PlanFacts, AttemptKeepsFrames
<1>7. QED
  BY <1>5, <1>6

LEMMA LeavingKeepsFrames ==
    ASSUME PlanFrames, CommitWork \/ BuildDies
    PROVE  PlanFrames'
<1> DEFINE t == building.task
           w == Certified(t, tries[t])
<1>1. /\ UNCHANGED <<taskRow, dispatches, tries, outcome, completions, signed, plans, planState, head,
                     assembling, assembled>>
      /\ building.phase # "idle" /\ building' = Resting
  BY DEF CommitWork, BuildDies, planningVars, gitVars, mergeVars
<1>2. t \in Tasks /\ w \in Works
  BY <1>1, UnderWay
<1>3. CASE CommitWork /\ branch' = [branch EXCEPT ![t] = @ \cup {w}] /\ uncommitted' = uncommitted \ {w}
  <2>1. branch[t] # NoBranch /\ branch[t] \subseteq Works
    BY <1>2, <1>3, PlanFacts DEF CommitWork, PlanFrames
  <2>2. /\ branch' = [u \in Tasks |-> branch'[u]]
        /\ \A u \in Tasks : branch'[u] = NoBranch \/ branch'[u] \subseteq Works
    BY <1>2, <1>3, <2>1, PlanFacts
  <2>3. deaths' = deaths /\ uncommitted' \subseteq Works
    BY <1>3, PlanFacts DEF CommitWork
  <2>4. QED
    BY <1>1, <2>2, <2>3, Rests, PlanFacts, AttemptKeepsFrames
<1>4. CASE CommitWork /\ UNCHANGED <<branch, uncommitted>>
  <2>1. deaths' = deaths
    BY <1>4 DEF CommitWork
  <2>2. QED
    BY <1>1, <1>4, <2>1, Rests, PlanFacts, AttemptKeepsFrames
<1>5. CASE BuildDies
  <2>1. deaths' \in 0 .. BuildKills /\ UNCHANGED <<branch, uncommitted>>
    <3>1. deaths \in 0 .. BuildKills /\ BuildKills \in Nat
      BY PlanFacts
    <3>2. QED
      BY <1>5, <3>1 DEF BuildDies, gitVars
  <2>2. QED
    BY <1>1, <2>1, Rests, PlanFacts, AttemptKeepsFrames
<1>6. QED
  BY <1>3, <1>4, <1>5 DEF CommitWork, Certified

\* the steps of an assembly
LEMMA AssemblyKeepsFrames ==
    ASSUME PlanFrames, StartAssembly \/ MergeBranch \/ RecordAssembly \/ AssemblyDies
    PROVE  PlanFrames'
<1>1. UNCHANGED <<signed, plans, planState, taskRow, dispatches, tries, outcome, completions, uncommitted, building, branch>>
  BY DEF StartAssembly, MergeBranch, RecordAssembly, AssemblyDies, planningVars, workVars, gitVars
<1>2. SUFFICES /\ head' \subseteq Works /\ assembling' \in AssemblyFrame
               /\ assembled' \subseteq Plans /\ deaths' \in 0 .. BuildKills
               /\ assembling'.phase # "idle" => assembling'.plan \in Plans
               /\ assembling'.phase = "merging" => assembling'.left # <<>>
               /\ assembling'.phase = "merged" => assembling'.left = <<>>
  <2>1. PlanTypeOK'
    BY <1>1, <1>2 DEF PlanFrames, PlanTypeOK, AssemblyFrame
  <2>2. QED
    BY <1>1, <1>2, <2>1 DEF PlanFrames
<1>3. Unassembling \in AssemblyFrame /\ Unassembling.phase = "idle"
  BY Rests, PlanFacts
<1>4. CASE StartAssembly
  <2>1. assembling' = [phase |-> "merging", plan |-> Len(plans), left |-> TaskOrder,
                       tries |-> [t \in Tasks |-> outcome[t].try], unready |-> uncommitted]
    BY <1>4 DEF StartAssembly, StartFrom
  <2>2. Len(plans) \in Plans
    <3>1. plans \in Seq(Specs) /\ Len(plans) \in Nat /\ Len(plans) <= PlanCap /\ PlanCap \in Nat
      BY PlanFacts
    <3>2. Len(plans) # 0
      BY <1>4, <3>1, EmptySeq DEF StartAssembly
    <3>3. QED
      BY <3>1, <3>2 DEF Plans
  <2>3. TaskOrder # <<>>
    <3>1. Tasks # {}
      BY <1>4 DEF StartAssembly
    <3>2. DOMAIN TaskOrder # {} /\ TaskOrder \in Seq(Tasks)
      BY <3>1, PlanFacts DEF Held
    <3>3. DOMAIN TaskOrder = 1 .. Len(TaskOrder)
      BY <3>2, Positions
    <3>4. Len(TaskOrder) # 0
      BY <3>2, <3>3
    <3>5. QED
      BY <3>2, <3>4, EmptySeq
  <2>4. assembling' \in AssemblyFrame /\ assembling'.phase = "merging" /\ assembling'.plan = Len(plans)
        /\ assembling'.left = TaskOrder
    BY <2>1, <2>2, PlanFacts DEF AssemblyFrame
  <2>5. UNCHANGED <<assembled, deaths, head>>
    BY <1>4 DEF StartAssembly, gitVars
  <2>6. QED
    BY <2>2, <2>3, <2>4, <2>5, PlanFacts
<1>5. CASE MergeBranch
  <2> DEFINE t == Head(assembling.left)
             rest == Tail(assembling.left)
             to == [assembling EXCEPT !.left = rest, !.phase = IF rest = <<>> THEN "merged" ELSE @]
  <2>1. /\ assembling.phase = "merging" /\ assembling \in AssemblyFrame /\ assembling.left \in Seq(Tasks)
        /\ assembling.left # <<>> /\ assembling.plan \in Plans
    BY <1>5, PlanFacts DEF MergeBranch, PlanFrames, AssemblyFrame
  <2>2. t \in Tasks /\ rest \in Seq(Tasks)
    BY <2>1, TailShifts
  <2>3. UNCHANGED <<assembled, deaths>>
    BY <1>5 DEF MergeBranch
  <2>4. CASE branch[t] # NoBranch /\ head' = head \cup branch[t] /\ assembling' = to
    <3>1. head' \subseteq Works
      BY <2>2, <2>4, PlanFacts
    <3>2. /\ to \in AssemblyFrame /\ to.phase = (IF rest = <<>> THEN "merged" ELSE "merging")
          /\ to.left = rest /\ to.plan = assembling.plan
      BY <2>1, <2>2 DEF AssemblyFrame
    <3>3. QED
      <4>1. assembled \subseteq Plans /\ deaths \in 0 .. BuildKills
        BY PlanFacts
      <4>2. assembling' \in AssemblyFrame /\ assembling'.phase = (IF rest = <<>> THEN "merged" ELSE "merging")
            /\ assembling'.left = rest /\ assembling'.plan \in Plans
        BY <2>1, <2>4, <3>2
      <4>3. QED
        BY <2>3, <3>1, <4>1, <4>2
  <2>5. CASE assembling' = Unassembling /\ UNCHANGED head
    BY <1>3, <2>3, <2>5, PlanFacts
  <2>6. QED
    BY <1>5, <2>4, <2>5 DEF MergeBranch
<1>6. CASE RecordAssembly
  <2>1. assembling.plan \in Plans
    BY <1>6 DEF RecordAssembly, PlanFrames
  <2>2. QED
    BY <1>3, <1>6, <2>1, PlanFacts DEF RecordAssembly, gitVars
<1>7. CASE AssemblyDies
  <2>1. deaths \in 0 .. BuildKills /\ BuildKills \in Nat
    BY PlanFacts
  <2>2. deaths' \in 0 .. BuildKills
    BY <1>7, <2>1 DEF AssemblyDies
  <2>3. QED
    BY <1>3, <1>7, <2>2, PlanFacts DEF AssemblyDies, gitVars
<1>8. QED
  BY <1>4, <1>5, <1>6, <1>7

AssemblyStep == StartAssembly \/ MergeBranch \/ RecordAssembly \/ AssemblyDies

LEMMA FramesKeep ==
    ASSUME PlanFrames, PlanNext
    PROVE  PlanFrames'
<1>1. CASE (\E s \in Specs : SignSpec(s)) \/ DraftPlan \/ AnnouncePlan
  BY <1>1, SigningKeepsFrames
<1>2. CASE \E t \in Tasks, named \in BOOLEAN : DispatchTask(t, named)
  BY <1>2, DispatchKeepsFrames
<1>3. CASE AnnounceDispatch
  BY <1>3, AnnouncingKeepsFrames
<1>4. CASE AddWorktree \/ RetryTask
  BY <1>4, WorktreeKeepsFrames
<1>5. CASE CompleteTask \/ StopTask
  BY <1>5, EndingKeepsFrames
<1>6. CASE CommitWork \/ BuildDies
  BY <1>6, LeavingKeepsFrames
<1>7. CASE AssemblyStep
  BY <1>7, AssemblyKeepsFrames DEF AssemblyStep
<1>8. QED
  BY <1>1, <1>2, <1>3, <1>4, <1>5, <1>6, <1>7 DEF PlanNext, AssemblyStep

\* An attempt keeps its number, above those recorded before it, until it ends.
LEMMA TriesKeepAscending ==
    ASSUME PlanFrames, TriesAscend, PlanNext
    PROVE  TriesAscend'
<1>0. /\ dispatches \in Nat /\ \A t \in Tasks : tries[t] \in Nat /\ outcome[t].try \in Nat
      /\ tries \in [Tasks -> Nat]
      /\ \A t \in Tasks : assembling.tries[t] \in Nat
      /\ building.phase # "idle" => building.task \in Tasks
      /\ building \in BuildFrame /\ assembling \in AssemblyFrame
  <2>1. /\ dispatches \in 0 .. DispatchCap /\ DispatchCap \in Nat /\ tries \in [Tasks -> 0 .. DispatchCap]
        /\ outcome \in [Tasks -> [kind : {"none", "completed", "stopped"}, try : 0 .. DispatchCap]]
        /\ assembling.tries \in [Tasks -> 0 .. DispatchCap]
    BY PlanFacts DEF AssemblyFrame
  <2>2. building.phase # "idle" => building.task \in Tasks
    BY DEF PlanFrames
  <2>3. building \in BuildFrame /\ assembling \in AssemblyFrame
    BY PlanFacts
  <2>4. 0 .. DispatchCap \subseteq Nat
    BY <2>1
  <2>5. /\ dispatches \in Nat /\ \A t \in Tasks : tries[t] \in Nat
        /\ tries \in [Tasks -> Nat] /\ \A t \in Tasks : assembling.tries[t] \in Nat
    BY <2>1, <2>4
  <2>6. \A t \in Tasks : outcome[t].try \in Nat
    BY <2>1, <2>4
  <2>7. QED
    BY <2>2, <2>3, <2>5, <2>6
<1>1. CASE (\E s \in Specs : SignSpec(s)) \/ DraftPlan \/ AnnouncePlan
  <2>1. UNCHANGED <<dispatches, tries, outcome, building, assembling>>
    BY <1>1 DEF SignSpec, DraftPlan, AnnouncePlan, workVars, mergeVars
  <2>2. QED
    BY <2>1 DEF TriesAscend
<1>2. ASSUME NEW t \in Tasks, NEW named \in BOOLEAN, DispatchTask(t, named)
      PROVE  TriesAscend'
  <2>1. /\ dispatches' = dispatches + 1 /\ UNCHANGED <<outcome, assembling>>
        /\ tries' = [tries EXCEPT ![t] = dispatches + 1] /\ building'.task = t
    BY <1>2 DEF DispatchTask, mergeVars
  <2>2. tries'[t] = dispatches + 1 /\ \A u \in Tasks : u # t => tries'[u] = tries[u]
    BY <1>0, <2>1
  <2>3. \A u \in Tasks : outcome[u].try <= tries'[u] /\ tries'[u] <= dispatches'
    BY <1>0, <2>1, <2>2 DEF TriesAscend
  <2>4. assembling.phase # "idle" => \A u \in Tasks : assembling.tries[u] <= dispatches'
    BY <1>0, <2>1 DEF TriesAscend
  <2>5. outcome[t].try < tries'[t] /\ (assembling.phase # "idle" => assembling.tries[t] < tries'[t])
    <3>1. outcome[t].try <= dispatches
      BY <1>0 DEF TriesAscend
    <3>2. assembling.phase # "idle" => assembling.tries[t] <= dispatches
      BY DEF TriesAscend
    <3>3. QED
      BY <1>0, <2>2, <3>1, <3>2
  <2>6. QED
    BY <2>1, <2>3, <2>4, <2>5 DEF TriesAscend
<1>3. CASE AnnounceDispatch \/ AddWorktree \/ RetryTask
  <2>1. /\ UNCHANGED <<dispatches, tries, outcome, assembling>>
        /\ building.phase \in {"cleaned", "dispatched", "writing"}
    BY <1>3 DEF AnnounceDispatch, AddWorktree, RetryTask, mergeVars
  <2>2. building'.task = building.task
    <3>1. \E step \in {"dispatched", "writing", "cleaned"} : building' = [building EXCEPT !.phase = step]
      BY <1>3 DEF AnnounceDispatch, AddWorktree, RetryTask
    <3>2. QED
      BY <1>0, <3>1, BuildingMoves
  <2>3. QED
    BY <2>1, <2>2 DEF TriesAscend
<1>4. CASE CompleteTask \/ StopTask
  <2>1. /\ UNCHANGED <<dispatches, tries, assembling>> /\ building.phase # "idle"
        /\ \E kind \in {"completed", "stopped"} : Terminal(building.task, kind)
        /\ building' = [building EXCEPT !.phase = "certified"] \/ building' = Resting
    BY <1>4 DEF CompleteTask, StopTask, mergeVars
  <2>2. \A t \in Tasks : outcome'[t].try <= tries[t]
    <3>1. \A t \in Tasks : outcome'[t].try = tries[t] \/ outcome'[t] = outcome[t]
      BY <1>0, <2>1, RecordsTerminal
    <3>2. QED
      BY <1>0, <3>1 DEF TriesAscend
  <2>3. building'.phase \in {"certified", "idle"}
    <3>1. CASE building' = [building EXCEPT !.phase = "certified"]
      BY <1>0, <3>1, BuildingMoves
    <3>2. CASE building' = Resting
      BY <3>2, Rests
    <3>3. QED
      BY <2>1, <3>1, <3>2
  <2>4. QED
    BY <2>1, <2>2, <2>3 DEF TriesAscend
<1>5. CASE CommitWork \/ BuildDies
  <2>1. UNCHANGED <<dispatches, tries, outcome, assembling>> /\ building' = Resting
    BY <1>5 DEF CommitWork, BuildDies, mergeVars
  <2>2. QED
    BY <2>1, Rests DEF TriesAscend
<1>6. CASE StartAssembly
  <2>1. /\ UNCHANGED <<dispatches, tries, outcome, building>>
        /\ \A t \in Tasks : assembling'.tries[t] = outcome[t].try
    BY <1>6 DEF StartAssembly, StartFrom, workVars
  <2>2. \A t \in Tasks : outcome[t].try <= dispatches
    BY <1>0 DEF TriesAscend
  <2>3. QED
    BY <1>0, <2>1, <2>2 DEF TriesAscend
<1>7. CASE MergeBranch \/ RecordAssembly \/ AssemblyDies
  <2>1. UNCHANGED <<dispatches, tries, outcome, building>> /\ assembling.phase # "idle"
    BY <1>7 DEF MergeBranch, RecordAssembly, AssemblyDies, workVars
  <2>2. assembling'.tries = assembling.tries \/ assembling'.phase = "idle"
    <3>1. \/ assembling' = Unassembling
          \/ \E step, rest : assembling' = [assembling EXCEPT !.left = rest, !.phase = step]
      BY <1>7 DEF MergeBranch, RecordAssembly, AssemblyDies
    <3>2. QED
      BY <1>0, <3>1, Rests DEF AssemblyFrame
  <2>3. QED
    BY <2>1, <2>2 DEF TriesAscend
<1>8. QED
  BY <1>1, <1>2, <1>3, <1>4, <1>5, <1>6, <1>7 DEF PlanNext

\* The numbers, as the proofs compare them.
LEMMA TryNumbers ==
    ASSUME PlanFrames
    PROVE  /\ dispatches \in Nat
           /\ \A t \in Tasks : tries[t] \in Nat /\ outcome[t].try \in Nat /\ assembling.tries[t] \in Nat
           /\ tries \in [Tasks -> Nat]
<1>1. /\ dispatches \in 0 .. DispatchCap /\ DispatchCap \in Nat /\ tries \in [Tasks -> 0 .. DispatchCap]
      /\ outcome \in [Tasks -> [kind : {"none", "completed", "stopped"}, try : 0 .. DispatchCap]]
      /\ assembling.tries \in [Tasks -> 0 .. DispatchCap]
  BY PlanFacts DEF AssemblyFrame
<1>2. 0 .. DispatchCap \subseteq Nat
  BY <1>1
<1>3. \A t \in Tasks : outcome[t].try \in Nat
  BY <1>1, <1>2
<1>4. QED
  BY <1>1, <1>2, <1>3

LEMMA TriesStayNumbers ==
    ASSUME PlanFrames, PlanNext
    PROVE  \A t \in Tasks : tries'[t] \in Nat
<1>1. PlanTypeOK'
  BY FramesKeep DEF PlanFrames
<1>2. tries' \in [Tasks -> 0 .. DispatchCap] /\ DispatchCap \in Nat
  BY <1>1, PlanAssumption DEF PlanTypeOK
<1>3. QED
  BY <1>2

\* A branch loses works only to a later dispatch of its task.
LEMMA BranchesKeep ==
    ASSUME PlanFrames, TriesAscend, PlanNext
    PROVE  \A t \in Tasks :
              /\ tries'[t] >= tries[t]
              /\ \/ branch[t] \subseteq branch'[t]
                 \/ /\ UNCHANGED <<outcome, assembling>> /\ outcome[t].try < tries'[t]
                    /\ assembling.phase # "idle" => assembling.tries[t] < tries'[t]
<1>1. CASE UNCHANGED <<tries, branch>>
  BY <1>1, TryNumbers
<1>2. ASSUME NEW t \in Tasks, NEW named \in BOOLEAN, DispatchTask(t, named)
      PROVE  \A u \in Tasks :
                /\ tries'[u] >= tries[u]
                /\ \/ branch[u] \subseteq branch'[u]
                   \/ /\ UNCHANGED <<outcome, assembling>> /\ outcome[u].try < tries'[u]
                      /\ assembling.phase # "idle" => assembling.tries[u] < tries'[u]
  <2>1. /\ UNCHANGED <<outcome, assembling>> /\ tries' = [tries EXCEPT ![t] = dispatches + 1]
        /\ branch' = [branch EXCEPT ![t] = NoBranch]
    BY <1>2 DEF DispatchTask, mergeVars
  <2>2. \A u \in Tasks : u # t => branch'[u] = branch[u] /\ tries'[u] = tries[u]
    BY <2>1, PlanFacts
  <2>3. tries'[t] = dispatches + 1
    BY <2>1, TryNumbers
  <2>4. tries[t] <= dispatches /\ outcome[t].try <= tries[t] /\ (assembling.phase # "idle" => assembling.tries[t] <= dispatches)
    BY DEF TriesAscend
  <2>5. /\ tries'[t] >= tries[t] /\ outcome[t].try < tries'[t]
        /\ assembling.phase # "idle" => assembling.tries[t] < tries'[t]
    BY <2>3, <2>4, TryNumbers
  <2>6. QED
    BY <2>1, <2>2, <2>5, TryNumbers
<1>3. CASE AddWorktree \/ RetryTask
  <2> DEFINE t == building.task
  <2>1. /\ UNCHANGED <<tries, outcome, assembling>> /\ building.phase \in {"dispatched", "writing"}
        /\ \E held : branch' = [branch EXCEPT ![t] = held]
    BY <1>3 DEF AddWorktree, RetryTask, mergeVars
  <2>2. t \in Tasks
    BY <2>1, UnderWay
  <2>3. \A u \in Tasks : u # t => branch'[u] = branch[u]
    BY <2>1, PlanFacts
  <2>4. outcome[t].try < tries[t] /\ (assembling.phase # "idle" => assembling.tries[t] < tries[t])
    BY <2>1 DEF TriesAscend
  <2>5. QED
    BY <2>1, <2>3, <2>4, TryNumbers
<1>4. CASE CommitWork
  <2>1. tries' = tries /\ \A t \in Tasks : branch[t] \subseteq branch'[t]
    BY <1>4, PlanFacts DEF CommitWork
  <2>2. QED
    BY <2>1, TryNumbers
<1>5. CASE AnnounceDispatch \/ CompleteTask \/ StopTask \/ BuildDies
  BY <1>1, <1>5 DEF AnnounceDispatch, CompleteTask, StopTask, BuildDies, workVars, gitVars
<1>6. CASE (\E s \in Specs : SignSpec(s)) \/ DraftPlan \/ AnnouncePlan
  BY <1>1, <1>6 DEF SignSpec, DraftPlan, AnnouncePlan, workVars, gitVars
<1>7. CASE AssemblyStep
  BY <1>1, <1>7 DEF AssemblyStep, StartAssembly, MergeBranch, RecordAssembly, AssemblyDies, workVars, gitVars
<1>8. QED
  BY <1>2, <1>3, <1>4, <1>5, <1>6, <1>7 DEF PlanNext, AssemblyStep

LEMMA CertifiedStaysSomewhere ==
    ASSUME PlanFrames, TriesAscend, CertifiedIsSomewhere, PlanNext
    PROVE  CertifiedIsSomewhere'
<1> SUFFICES ASSUME NEW t \in Tasks, outcome'[t].kind = "completed"
             PROVE  \/ Certified(t, outcome'[t].try) \in branch'[t]
                    \/ Certified(t, outcome'[t].try) \in uncommitted'
                    \/ tries'[t] > outcome'[t].try
  BY DEF CertifiedIsSomewhere, Certified
<1>1. CASE CompleteTask /\ t = building.task
  <2>1. Terminal(t, "completed") /\ uncommitted' = uncommitted \cup {Certified(t, tries[t])}
    BY <1>1 DEF CompleteTask, Certified
  <2>2. outcome'[t].try = tries[t]
    BY <2>1, RecordsTerminal
  <2>3. QED
    BY <2>1, <2>2
<1>2. CASE outcome'[t] = outcome[t] /\ uncommitted \subseteq uncommitted'
  <2>1. \/ Certified(t, outcome[t].try) \in branch[t]
        \/ Certified(t, outcome[t].try) \in uncommitted
        \/ tries[t] > outcome[t].try
    BY <1>2 DEF CertifiedIsSomewhere
  <2>2. CASE branch[t] \subseteq branch'[t]
    <3>1. tries'[t] \in Nat /\ tries[t] \in Nat /\ outcome[t].try \in Nat /\ tries'[t] >= tries[t]
      BY TryNumbers, TriesStayNumbers, BranchesKeep
    <3>2. tries[t] > outcome[t].try => tries'[t] > outcome[t].try
      BY <3>1
    <3>3. QED
      BY <1>2, <2>1, <2>2, <3>2
  <2>3. CASE outcome[t].try < tries'[t]
    BY <1>2, <2>3
  <2>4. QED
    BY <2>2, <2>3, BranchesKeep
<1>3. CASE CommitWork /\ branch' = [branch EXCEPT ![building.task] = @ \cup {Certified(building.task, tries[building.task])}]
                      /\ uncommitted' = uncommitted \ {Certified(building.task, tries[building.task])}
  <2>1. outcome' = outcome /\ tries' = tries /\ building.phase # "idle"
    BY <1>3 DEF CommitWork
  <2>2. \/ Certified(t, outcome[t].try) \in branch[t]
        \/ Certified(t, outcome[t].try) \in uncommitted
        \/ tries[t] > outcome[t].try
    BY <2>1 DEF CertifiedIsSomewhere
  <2>3. branch[t] \subseteq branch'[t] /\ Certified(building.task, tries[building.task]) \in branch'[building.task]
    BY <1>3, <2>1, UnderWay, PlanFacts
  <2>4. CASE Certified(t, outcome[t].try) = Certified(building.task, tries[building.task])
    <3>1. t = building.task
      BY <2>4 DEF Certified
    <3>2. QED
      BY <2>1, <2>3, <2>4, <3>1
  <2>5. CASE Certified(t, outcome[t].try) # Certified(building.task, tries[building.task])
    BY <1>3, <2>1, <2>2, <2>3, <2>5
  <2>6. QED
    BY <2>4, <2>5
<1>4. CASE CompleteTask /\ t # building.task
  <2>1. building.task \in Tasks /\ Terminal(building.task, "completed") /\ uncommitted \subseteq uncommitted'
    BY <1>4, UnderWay DEF CompleteTask
  <2>2. outcome'[t] = outcome[t]
    BY <1>4, <2>1, RecordsTerminal
  <2>3. QED
    BY <1>2, <2>1, <2>2
<1>5. CASE StopTask
  <2>1. building.task \in Tasks /\ Terminal(building.task, "stopped") /\ uncommitted' = uncommitted
    BY <1>5, UnderWay DEF StopTask
  <2>2. outcome'[t] = outcome[t]
    BY <2>1, RecordsTerminal
  <2>3. QED
    BY <1>2, <2>1, <2>2
<1>6. CASE (\E s \in Specs : SignSpec(s)) \/ DraftPlan \/ AnnouncePlan \/ (\E u \in Tasks, named \in BOOLEAN : DispatchTask(u, named))
  BY <1>2, <1>6 DEF SignSpec, DraftPlan, AnnouncePlan, DispatchTask, workVars
<1>7. CASE AnnounceDispatch \/ AddWorktree \/ RetryTask \/ BuildDies
  BY <1>2, <1>7 DEF AnnounceDispatch, AddWorktree, RetryTask, BuildDies, workVars
<1>8. CASE AssemblyStep
  BY <1>2, <1>8 DEF AssemblyStep, StartAssembly, MergeBranch, RecordAssembly, AssemblyDies, workVars
<1>9. CASE CommitWork /\ UNCHANGED <<branch, uncommitted>>
  BY <1>2, <1>9 DEF CommitWork
<1>10. QED
  BY <1>1, <1>3, <1>4, <1>5, <1>6, <1>7, <1>8, <1>9 DEF PlanNext, AssemblyStep, CommitWork, Certified

\* An assembly that is under way: what is not in HEAD is still on its branch.
LEMMA MergesKeep ==
    ASSUME PlanFrames, TriesAscend, CertifiedIsSomewhere, MergesToCome, PlanNext
    PROVE  MergesToCome'
<1> SUFFICES ASSUME assembling'.phase # "idle", NEW t \in Tasks
             PROVE  \/ Certified(t, assembling'.tries[t]) \in head'
                    \/ Certified(t, assembling'.tries[t]) \in assembling'.unready
                    \/ tries'[t] > assembling'.tries[t]
                    \/ Certified(t, assembling'.tries[t]) \in branch'[t] /\ t \in Held(assembling'.left)
  BY DEF MergesToCome, Certified
<1>1. CASE UNCHANGED <<head, assembling>>
  <2>1. \/ Certified(t, assembling.tries[t]) \in head
        \/ Certified(t, assembling.tries[t]) \in assembling.unready
        \/ tries[t] > assembling.tries[t]
        \/ Certified(t, assembling.tries[t]) \in branch[t] /\ t \in Held(assembling.left)
    BY <1>1 DEF MergesToCome
  <2>2. CASE branch[t] \subseteq branch'[t]
    <3>1. tries[t] > assembling.tries[t] => tries'[t] > assembling.tries[t]
      <4>1. tries'[t] \in Nat /\ tries[t] \in Nat /\ assembling.tries[t] \in Nat /\ tries'[t] >= tries[t]
        BY TryNumbers, TriesStayNumbers, BranchesKeep
      <4>2. QED
        BY <4>1
    <3>2. QED
      BY <1>1, <2>1, <2>2, <3>1
  <2>3. CASE assembling.tries[t] < tries'[t]
    BY <1>1, <2>3
  <2>4. QED
    BY <1>1, <2>2, <2>3, BranchesKeep
<1>2. CASE StartAssembly
  <2>1. /\ assembling' = [phase |-> "merging", plan |-> Len(plans), left |-> TaskOrder,
                          tries |-> [u \in Tasks |-> outcome[u].try], unready |-> uncommitted]
        /\ outcome[t].kind = "completed" /\ UNCHANGED <<tries, branch>>
    BY <1>2 DEF StartAssembly, StartFrom, AllCompleted, workVars, gitVars
  <2>2. \/ Certified(t, outcome[t].try) \in branch[t]
        \/ Certified(t, outcome[t].try) \in uncommitted
        \/ tries[t] > outcome[t].try
    BY <2>1 DEF CertifiedIsSomewhere
  <2>3. assembling'.tries[t] = outcome[t].try /\ assembling'.unready = uncommitted /\ assembling'.left = TaskOrder
    BY <2>1
  <2>4. t \in Held(TaskOrder)
    BY PlanFacts
  <2>5. QED
    BY <2>1, <2>2, <2>3, <2>4
<1>3. CASE MergeBranch
  <2> DEFINE first == Head(assembling.left)
             rest == Tail(assembling.left)
             step == IF rest = <<>> THEN "merged" ELSE assembling.phase
  <2>1. /\ branch[first] # NoBranch /\ head' = head \cup branch[first]
        /\ assembling' = [assembling EXCEPT !.left = rest, !.phase = step]
        /\ UNCHANGED <<tries, branch>> /\ assembling.phase = "merging"
    BY <1>3, Rests DEF MergeBranch, workVars
  <2>2. /\ assembling \in AssemblyFrame /\ assembling.left \in Seq(Tasks) /\ assembling.left # <<>>
    BY <2>1, PlanFacts DEF PlanFrames, AssemblyFrame
  <2> HIDE DEF step
  <2>3. /\ assembling'.tries = assembling.tries /\ assembling'.unready = assembling.unready
        /\ assembling'.left = rest
    BY <2>1, <2>2 DEF AssemblyFrame
  <2>4. \/ Certified(t, assembling.tries[t]) \in head
        \/ Certified(t, assembling.tries[t]) \in assembling.unready
        \/ tries[t] > assembling.tries[t]
        \/ Certified(t, assembling.tries[t]) \in branch[t] /\ t \in Held(assembling.left)
    BY <2>1 DEF MergesToCome
  <2>5. t \in Held(assembling.left) => t = first \/ t \in Held(rest)
    BY <2>2, HeldSplits
  <2>6. QED
    BY <2>1, <2>3, <2>4, <2>5
<1>4. CASE RecordAssembly \/ AssemblyDies
  BY <1>4, Rests DEF RecordAssembly, AssemblyDies
<1>5. CASE (\E s \in Specs : SignSpec(s)) \/ DraftPlan \/ AnnouncePlan \/ (\E u \in Tasks, named \in BOOLEAN : DispatchTask(u, named))
  BY <1>1, <1>5 DEF SignSpec, DraftPlan, AnnouncePlan, DispatchTask, gitVars, mergeVars
<1>6. CASE AnnounceDispatch \/ AddWorktree \/ RetryTask \/ CompleteTask \/ StopTask
  BY <1>1, <1>6 DEF AnnounceDispatch, AddWorktree, RetryTask, CompleteTask, StopTask, gitVars, mergeVars
<1>7. CASE CommitWork \/ BuildDies
  BY <1>1, <1>7 DEF CommitWork, BuildDies, gitVars, mergeVars
<1>8. QED
  BY <1>2, <1>3, <1>4, <1>5, <1>6, <1>7 DEF PlanNext

\* what a row says once its task is complete, and what is counted of them
LEMMA RowsKeep ==
    ASSUME PlanFrames, RowsAreRecent, ShownCompleteWasBuilt, PlanNext
    PROVE  RowsAreRecent' /\ ShownCompleteWasBuilt'
<1>0. /\ plans \in Seq(Specs) /\ Len(plans) \in Nat /\ Plans \subseteq Nat
      /\ taskRow \in [Tasks -> [plan : Plans \cup {0}, state : {"none", "running", "completed", "stopped"}]]
      /\ completions \in Seq(Tasks) /\ planState \in [Plans -> {"no row", "drafted", "executing", "completed", "blocked"}]
      /\ building \in BuildFrame /\ building.plan \in Nat
  <2>1. PlanCap \in Nat /\ building \in BuildFrame
    BY PlanFacts
  <2>2. Plans \subseteq Nat
    BY <2>1 DEF Plans
  <2>3. building.plan \in Nat
    <3>1. building.plan \in Plans \cup {0}
      BY <2>1 DEF BuildFrame
    <3>2. Plans \cup {0} \subseteq Nat
      BY <2>2
    <3>3. QED
      BY <3>1, <3>2
  <2>4. QED
    BY <2>2, <2>3, PlanFacts
<1>1. \A t \in Tasks : taskRow[t].plan \in Nat
  <2>1. \A t \in Tasks : taskRow[t].plan \in Plans \cup {0}
    BY <1>0
  <2>2. Plans \cup {0} \subseteq Nat
    <3>1. Plans \subseteq Nat
      BY <1>0
    <3>2. QED
      BY <3>1
  <2>3. QED
    BY <2>1, <2>2
<1>2. CASE UNCHANGED <<plans, planState, taskRow, completions>> /\ (building' = Resting \/ UNCHANGED building)
  BY <1>2, Rests DEF RowsAreRecent, ShownCompleteWasBuilt
<1>3. CASE DraftPlan
  <2>1. Len(plans') = Len(plans) + 1
    <3>1. Latest(signed) \in Specs /\ plans' = Append(plans, Latest(signed))
      BY <1>3, LatestIsSpec DEF DraftPlan
    <3>2. QED
      BY <1>0, <3>1, AppendGrows
  <2>2. UNCHANGED <<planState, taskRow, completions, building>>
    BY <1>3 DEF DraftPlan, workVars
  <2>3. QED
    <3>1. Len(plans) \in Nat /\ building.plan \in Nat
      BY <1>0
    <3>2. RowsAreRecent'
      BY <1>1, <2>1, <2>2, <3>1 DEF RowsAreRecent
    <3>3. QED
      BY <2>2, <3>2 DEF ShownCompleteWasBuilt
<1>4. CASE AnnouncePlan
  <2>1. UNCHANGED <<plans, taskRow, completions, building>>
    BY <1>4 DEF AnnouncePlan, workVars
  <2>2. \A p \in Plans : planState'[p] = "completed" => planState[p] = "completed"
    BY <1>0, <1>4 DEF AnnouncePlan
  <2>3. QED
    BY <2>1, <2>2 DEF RowsAreRecent, ShownCompleteWasBuilt
<1>5. ASSUME NEW t \in Tasks, NEW named \in BOOLEAN, DispatchTask(t, named)
      PROVE  RowsAreRecent' /\ ShownCompleteWasBuilt'
  <2>1. UNCHANGED <<plans, planState, taskRow, completions>> /\ building'.plan = Len(plans)
    BY <1>5 DEF DispatchTask, planningVars
  <2>2. QED
    <3>1. Len(plans) \in Nat
      BY <1>0
    <3>2. RowsAreRecent'
      BY <2>1, <3>1 DEF RowsAreRecent
    <3>3. QED
      BY <2>1, <3>2 DEF ShownCompleteWasBuilt
<1>6. CASE AnnounceDispatch
  <2> DEFINE t == building.task
             row == [plan |-> building.plan, state |-> "running"]
  <2>1. /\ building.phase = "cleaned" /\ UNCHANGED <<plans, completions>>
        /\ building'.plan = building.plan
    BY <1>0, <1>6, BuildingMoves DEF AnnounceDispatch
  <2>2. t \in Tasks /\ building.plan \in Plans
    BY <2>1, UnderWay
  <2>3. taskRow'[t] = row /\ \A u \in Tasks : u # t => taskRow'[u] = taskRow[u]
    BY <1>0, <1>6, <2>2 DEF AnnounceDispatch
  <2>4. \A p \in Plans : planState'[p] = "completed" => planState[p] = "completed" /\ p # building.plan
    BY <1>0, <1>6 DEF AnnounceDispatch, SetPlanState
  <2>5. building.plan <= Len(plans) /\ \A u \in Tasks : taskRow[u].plan <= building.plan
    BY <2>1 DEF RowsAreRecent
  <2>6. RowsAreRecent'
    <3>1. building.plan \in Nat
      BY <1>0
    <3>2. \A u \in Tasks : taskRow'[u].plan <= building.plan
      BY <2>3, <2>5, <3>1
    <3>3. \A u \in Tasks : taskRow'[u].plan <= Len(plans)
      BY <2>3, <2>5 DEF RowsAreRecent
    <3>4. \A u \in Tasks : taskRow'[u].state = "completed" => u \in Held(completions)
      BY <2>3 DEF RowsAreRecent
    <3>5. QED
      BY <2>1, <2>5, <3>2, <3>3, <3>4 DEF RowsAreRecent
  <2>7. ShownCompleteWasBuilt'
    <3> SUFFICES ASSUME NEW p \in Plans, planState'[p] = "completed", NEW u \in Tasks
                 PROVE  /\ taskRow'[u].plan >= p
                        /\ taskRow'[u].plan = p => taskRow'[u].state = "completed"
                        /\ u \in Held(completions)
      BY <2>1 DEF ShownCompleteWasBuilt, Held
    <3>1. /\ planState[p] = "completed" /\ p # building.plan
      BY <2>4
    <3>2. /\ taskRow[u].plan >= p /\ u \in Held(completions)
          /\ taskRow[u].plan = p => taskRow[u].state = "completed"
      BY <3>1 DEF ShownCompleteWasBuilt, Held
    <3>3. building.plan >= p /\ building.plan \in Nat /\ p \in Nat
      <4>1. taskRow[u].plan \in Nat /\ building.plan \in Nat /\ p \in Nat
        BY <1>0, <1>1, <2>2
      <4>2. taskRow[u].plan <= building.plan
        BY <2>5
      <4>3. QED
        BY <3>2, <4>1, <4>2
    <3>4. QED
      BY <2>3, <3>1, <3>2, <3>3
  <2>8. QED
    BY <2>6, <2>7
<1>7. CASE CompleteTask
  <2> DEFINE t == building.task
             p == taskRow[t].plan
  <2>1. /\ building.phase = "writing" /\ Terminal(t, "completed") /\ plans' = plans
        /\ completions' = Append(completions, t) /\ building'.plan = building.plan
        /\ SetPlanState(p, StateOnCompleted(p, taskRow'))
    BY <1>0, <1>7, BuildingMoves DEF CompleteTask
  <2>2. t \in Tasks
    BY <2>1, UnderWay
  <2>3. /\ \A u \in Tasks : taskRow'[u].plan = taskRow[u].plan
        /\ \A u \in Tasks : u # t => taskRow'[u] = taskRow[u]
        /\ taskRow'[t].state = "completed"
    BY <2>1, <2>2, RecordsTerminal
  <2>4. Held(completions') = Held(completions) \cup {t}
    <3>1. completions \in Seq(Tasks)
      BY <1>0
    <3>2. QED
      BY <2>1, <2>2, <3>1, AppendHolds
  <2>5. RowsAreRecent'
    <3>1. \A u \in Tasks : taskRow'[u].state = "completed" => u \in Held(completions')
      BY <2>3, <2>4 DEF RowsAreRecent
    <3>2. QED
      BY <2>1, <2>3, <3>1 DEF RowsAreRecent
  <2>6. ShownCompleteWasBuilt'
    <3> SUFFICES ASSUME NEW q \in Plans, planState'[q] = "completed", NEW u \in Tasks
                 PROVE  /\ taskRow'[u].plan >= q
                        /\ taskRow'[u].plan = q => taskRow'[u].state = "completed"
                        /\ u \in Held(completions')
      BY DEF ShownCompleteWasBuilt, Held
    <3>1. CASE planState[q] = "completed" /\ q # p
      <4>1. /\ taskRow[u].plan >= q /\ u \in Held(completions)
            /\ taskRow[u].plan = q => taskRow[u].state = "completed"
        BY <3>1 DEF ShownCompleteWasBuilt, Held
      <4>2. QED
        BY <2>3, <2>4, <4>1
    <3>2. CASE q = p
      <4>1. StateOnCompleted(p, taskRow') = "completed"
        BY <2>1, <3>2 DEF SetPlanState, StateOnCompleted
      <4>2. taskRow'[u].plan = p /\ taskRow'[u].state = "completed"
        BY <4>1 DEF StateOnCompleted, CompletedIn
      <4>3. u \in Held(completions')
        BY <2>5, <4>2 DEF RowsAreRecent
      <4>4. p >= q
        <5>1. q \in Nat
          BY <1>0
        <5>2. QED
          BY <3>2, <5>1
      <4>5. QED
        BY <3>2, <4>2, <4>3, <4>4
    <3>3. QED
      BY <2>1, <3>1, <3>2 DEF SetPlanState
  <2>7. QED
    BY <2>5, <2>6
<1>8. CASE StopTask
  <2> DEFINE t == building.task
             p == taskRow[t].plan
  <2>1. /\ building.phase \in {"dispatched", "writing"} /\ Terminal(t, "stopped") /\ UNCHANGED <<plans, completions>>
        /\ building' = Resting /\ SetPlanState(p, "blocked")
    BY <1>8 DEF StopTask
  <2>2. t \in Tasks
    BY <2>1, UnderWay
  <2>3. /\ \A u \in Tasks : taskRow'[u].plan = taskRow[u].plan
        /\ \A u \in Tasks : u # t => taskRow'[u] = taskRow[u]
        /\ taskRow'[t].state = "stopped"
    BY <2>1, <2>2, RecordsTerminal
  <2>4. \A q \in Plans : planState'[q] = "completed" => planState[q] = "completed" /\ q # p
    BY <1>0, <2>1 DEF SetPlanState
  <2>5. RowsAreRecent'
    BY <2>1, <2>3, Rests DEF RowsAreRecent
  <2>6. ShownCompleteWasBuilt'
    BY <2>1, <2>3, <2>4 DEF ShownCompleteWasBuilt
  <2>7. QED
    BY <2>5, <2>6
<1>9. CASE (\E s \in Specs : SignSpec(s)) \/ CommitWork \/ BuildDies
  BY <1>2, <1>9 DEF SignSpec, CommitWork, BuildDies, planningVars, workVars
<1>10. CASE AddWorktree \/ RetryTask
  <2>1. UNCHANGED <<plans, planState, taskRow, completions>> /\ building.phase # "idle"
    BY <1>10 DEF AddWorktree, RetryTask, planningVars
  <2>2. building'.plan = building.plan
    <3>1. \E step \in {"writing", "cleaned"} : building' = [building EXCEPT !.phase = step]
      BY <1>10 DEF AddWorktree, RetryTask
    <3>2. building \in BuildFrame
      BY <1>0
    <3>3. QED
      BY <3>1, <3>2, BuildingMoves
  <2>3. QED
    BY <2>1, <2>2 DEF RowsAreRecent, ShownCompleteWasBuilt
<1>11. CASE AssemblyStep
  BY <1>2, <1>11 DEF AssemblyStep, StartAssembly, MergeBranch, RecordAssembly, AssemblyDies, planningVars, workVars
<1>12. QED
  BY <1>3, <1>4, <1>5, <1>6, <1>7, <1>8, <1>9, <1>10, <1>11 DEF PlanNext, AssemblyStep

LEMMA PlanStarts ==
    ASSUME PlanInit
    PROVE  PlanInv
<1>1. \A S : <<>> \in Seq(S)
  BY EmptySeq
<1>2. PlanCap \in Nat /\ DispatchCap \in Nat /\ BuildKills \in Nat
  BY PlanAssumption
<1>3. plans \in Seq(Specs) /\ Len(plans) = 0 /\ completions \in Seq(Tasks)
  BY <1>1 DEF PlanInit
<1>4. Resting \in BuildFrame /\ Resting.phase = "idle" /\ Unassembling \in AssemblyFrame /\ Unassembling.phase = "idle"
  BY <1>2, Rests
<1>5. PlanTypeOK
  <2>1. /\ building.phase = "idle" /\ building.task \in Tasks \cup {NoTask} /\ building.base \in Tasks \cup {NoTask}
        /\ building.plan \in Plans \cup {0} /\ assembling.phase = "idle"
    BY DEF PlanInit, Resting, Unassembling
  <2>2. /\ planState \in [Plans -> {"no row", "drafted", "executing", "completed", "blocked"}]
        /\ taskRow \in [Tasks -> [plan : Plans \cup {0}, state : {"none", "running", "completed", "stopped"}]]
        /\ signed \subseteq Specs /\ head \subseteq Works /\ uncommitted \subseteq Works /\ assembled \subseteq Plans
        /\ \A t \in Tasks : branch[t] = NoBranch
    BY DEF PlanInit
  <2>3. /\ dispatches \in 0 .. DispatchCap /\ tries \in [Tasks -> 0 .. DispatchCap]
        /\ outcome \in [Tasks -> [kind : {"none", "completed", "stopped"}, try : 0 .. DispatchCap]]
        /\ deaths \in 0 .. BuildKills
    <3>1. 0 \in 0 .. DispatchCap /\ 0 \in 0 .. BuildKills
      BY <1>2
    <3>2. QED
      BY <3>1 DEF PlanInit
  <2>4. plans \in Seq(Specs) /\ Len(plans) <= PlanCap
    BY <1>2, <1>3
  <2>5. QED
    BY <1>3, <2>1, <2>2, <2>3, <2>4 DEF PlanTypeOK
<1>6. \E n \in Nat : signed \subseteq 1 .. n
  BY DEF PlanInit
<1>7. PlanFrames
  BY <1>4, <1>5, <1>6 DEF PlanInit, PlanFrames
<1>8. TriesAscend /\ CertifiedIsSomewhere /\ MergesToCome
  <2>1. \A t \in Tasks : outcome[t].try = 0 /\ tries[t] = 0 /\ outcome[t].kind = "none"
    BY DEF PlanInit
  <2>2. dispatches = 0 /\ building.phase = "idle" /\ assembling.phase = "idle"
    BY <1>4 DEF PlanInit
  <2>3. TriesAscend
    BY <2>1, <2>2 DEF TriesAscend
  <2>4. QED
    BY <2>1, <2>2, <2>3 DEF CertifiedIsSomewhere, MergesToCome
<1>9. RowsAreRecent /\ ShownCompleteWasBuilt
  <2>1. \A t \in Tasks : taskRow[t].plan = 0 /\ taskRow[t].state = "none"
    BY DEF PlanInit
  <2>2. building.phase = "idle" /\ \A p \in Plans : planState[p] = "no row"
    BY <1>4 DEF PlanInit
  <2>3. RowsAreRecent
    <3>1. \A t \in Tasks : taskRow[t].plan <= Len(plans)
      BY <1>3, <2>1
    <3>2. QED
      BY <2>1, <2>2, <3>1 DEF RowsAreRecent
  <2>4. QED
    BY <2>2, <2>3 DEF ShownCompleteWasBuilt
<1>10. QED
  BY <1>7, <1>8, <1>9 DEF PlanInv

(***************************************************************************)
(* What is shown or merged as built was earned, for every plan, every      *)
(* dependency order and any number of dispatches: when project_assembled   *)
(* is due (assemble.py), HEAD holds every certified work but the two kinds *)
(* the property names, and a plan that handlers.py:555-603 marks complete  *)
(* had every task completed.                                               *)
(***************************************************************************)
THEOREM WhatIsBuiltIsEarned == PlanSpec => []BuiltIsEarned
<1>1. PlanInit => PlanInv
  BY PlanStarts
<1>2. PlanInv /\ [PlanNext]_planVars => PlanInv'
  <2>1. ASSUME PlanInv, PlanNext
        PROVE  PlanInv'
    BY <2>1, FramesKeep, TriesKeepAscending, CertifiedStaysSomewhere, MergesKeep, RowsKeep DEF PlanInv
  <2>2. ASSUME PlanInv, UNCHANGED planVars
        PROVE  PlanInv'
    <3>1. PlanFrames'
      BY <2>2 DEF PlanInv, PlanFrames, PlanTypeOK, planVars
    <3>2. TriesAscend' /\ CertifiedIsSomewhere' /\ MergesToCome' /\ RowsAreRecent' /\ ShownCompleteWasBuilt'
      BY <2>2 DEF PlanInv, TriesAscend, CertifiedIsSomewhere, MergesToCome, RowsAreRecent, ShownCompleteWasBuilt, planVars
    <3>3. QED
      BY <3>1, <3>2 DEF PlanInv
  <2>3. QED
    BY <2>1, <2>2
<1>3. PlanInv => BuiltIsEarned
  <2> SUFFICES ASSUME PlanInv
               PROVE  BuiltIsEarned
    OBVIOUS
  <2>1. AssembledIsEarned
    <3> SUFFICES ASSUME assembling.phase = "merged", NEW t \in Tasks
                 PROVE  \/ Certified(t, assembling.tries[t]) \in head
                        \/ Certified(t, assembling.tries[t]) \in assembling.unready
                        \/ tries[t] > assembling.tries[t]
      BY DEF AssembledIsEarned, Certified
    <3>1. assembling.left = <<>>
      BY DEF PlanInv, PlanFrames
    <3>2. Held(assembling.left) = {}
      BY <3>1 DEF Held
    <3>3. QED
      BY <3>2 DEF PlanInv, MergesToCome
  <2>2. QED
    BY <2>1 DEF PlanInv, PlanFrames, BuiltIsEarned
<1>4. QED
  BY <1>1, <1>2, <1>3, PTL DEF PlanSpec

-----------------------------------------------------------------------------
(***************************************************************************)
(* PanelSwitch. The argument: a request no switch overlapped was begun on  *)
(* a panel of one piece, and a switch would have spoilt it or, once it     *)
(* holds the slot of the runner in place, would have been refused. So what *)
(* has to be known is that the panel is of one piece whenever no switch is *)
(* under way, and how far one has come when one is: which of the writer,   *)
(* the session and the runner it has replaced, and that the writer it will *)
(* close is no longer the one in place.                                    *)
(***************************************************************************)
Steps == Swaps \cup {"idle", "submitting", "starting", "building", "targeting", "preparing", "inline"}

PanelRequest ==
    [doing : Steps, session : DOMAIN sessions, writer : DOMAIN writers, runner : DOMAIN runners,
     store : Stores, target : Targets \cup {NoTarget}, clean : BOOLEAN]

Writers == [store : Stores, open : BOOLEAN]

\* the sequences only grow: what pointed into them still does
PanelGrows ==
    /\ DOMAIN sessions \subseteq DOMAIN sessions'
    /\ DOMAIN writers \subseteq DOMAIN writers'
    /\ DOMAIN runners \subseteq DOMAIN runners'

\* A request goes on to a step, with whatever it has read on the way.
LEMMA RequestsTyped ==
    ASSUME PanelTypeOK, PanelGrows, NEW r \in Requests, NEW x \in PanelRequest',
           request' = [request EXCEPT ![r] = x]
    PROVE  request' \in [Requests -> PanelRequest']
<1>1. \A q \in Requests : request[q] \in PanelRequest
  BY DEF PanelTypeOK, PanelRequest, Steps
<1>2. PanelRequest \subseteq PanelRequest'
  BY DEF PanelGrows, PanelRequest
<1>3. request = [q \in Requests |-> request[q]]
  BY DEF PanelTypeOK
<1> QED
  BY <1>1, <1>2, <1>3

\* What the types of the panel say, piece by piece.
LEMMA PanelPieces ==
    ASSUME PanelTypeOK
    PROVE  /\ writers \in Seq(Writers) /\ sessions \in Seq(Targets \cup {NoTarget})
           /\ runners \in Seq([store : Stores, writer : DOMAIN writers, busy : BOOLEAN])
           /\ panel \in [writer : DOMAIN writers, session : DOMAIN sessions, runner : DOMAIN runners]
           /\ panel.writer \in DOMAIN writers /\ panel.session \in DOMAIN sessions
           /\ panel.runner \in DOMAIN runners
           /\ request \in [Requests -> PanelRequest]
           /\ \A r \in Requests : request[r] \in PanelRequest
           /\ \A i \in DOMAIN writers : writers[i] \in Writers
           /\ \A i \in DOMAIN sessions : sessions[i] \in Targets \cup {NoTarget}
           /\ \A i \in DOMAIN runners : runners[i] \in [store : Stores, writer : DOMAIN writers, busy : BOOLEAN]
<1>1. writers \in Seq(Writers) /\ sessions \in Seq(Targets \cup {NoTarget})
  BY DEF PanelTypeOK, Writers
<1>2. /\ runners \in Seq([store : Stores, writer : DOMAIN writers, busy : BOOLEAN])
      /\ panel \in [writer : DOMAIN writers, session : DOMAIN sessions, runner : DOMAIN runners]
  BY DEF PanelTypeOK
<1>3. request \in [Requests -> PanelRequest]
  BY DEF PanelTypeOK, PanelRequest, Steps
<1>4. panel.writer \in DOMAIN writers /\ panel.session \in DOMAIN sessions /\ panel.runner \in DOMAIN runners
  BY <1>2
<1>5. \A i \in DOMAIN writers : writers[i] \in Writers
  BY <1>1, Positions
<1>6. \A i \in DOMAIN sessions : sessions[i] \in Targets \cup {NoTarget}
  BY <1>1, Positions
<1>7. \A i \in DOMAIN runners : runners[i] \in [store : Stores, writer : DOMAIN writers, busy : BOOLEAN]
  BY <1>2, Positions
<1> QED
  BY <1>1, <1>2, <1>3, <1>4, <1>5, <1>6, <1>7

\* the types, as a step re-establishes them
LEMMA PanelTyped ==
    ASSUME path' \in Stores, writers' \in Seq(Writers), sessions' \in Seq(Targets \cup {NoTarget}),
           runners' \in Seq([store : Stores, writer : DOMAIN writers', busy : BOOLEAN]),
           panel' \in [writer : DOMAIN writers', session : DOMAIN sessions', runner : DOMAIN runners'],
           targetRow' \in [Stores -> Targets \cup {NoTarget}],
           request' \in [Requests -> PanelRequest'],
           assembles' \subseteq [store : Stores, target : Targets, clean : BOOLEAN],
           switches' \in 0 .. SwitchCap, collided' \in BOOLEAN
    PROVE  PanelTypeOK'
  BY DEF PanelTypeOK, Writers, PanelRequest, Steps

\* An idle thread's record is one.
LEMMA IdlingTyped == ASSUME PanelTypeOK PROVE Idling \in PanelRequest
<1>1. 1 \in DOMAIN writers /\ 1 \in DOMAIN sessions /\ 1 \in DOMAIN runners
  <2>1. /\ Len(writers) \in Nat /\ DOMAIN writers = 1 .. Len(writers)
        /\ Len(sessions) \in Nat /\ DOMAIN sessions = 1 .. Len(sessions)
        /\ Len(runners) \in Nat /\ DOMAIN runners = 1 .. Len(runners)
    BY PanelPieces, Positions
  <2>2. panel.writer \in DOMAIN writers /\ panel.session \in DOMAIN sessions /\ panel.runner \in DOMAIN runners
    BY PanelPieces
  <2> QED
    BY <2>1, <2>2
<1> QED
  BY <1>1, PanelAssumption DEF Idling, PanelRequest, Steps, Targets

\* The types hold at the start, and every step keeps them.
LEMMA PanelTypesInit == PanelInit => PanelTypeOK
<1> SUFFICES ASSUME PanelInit PROVE PanelTypeOK
  OBVIOUS
<1>1. /\ writers \in Seq([store : Stores, open : BOOLEAN]) /\ DOMAIN writers = {1}
      /\ sessions \in Seq(Targets \cup {NoTarget}) /\ DOMAIN sessions = {1}
  BY PanelAssumption DEF PanelInit
<1>2. runners \in Seq([store : Stores, writer : DOMAIN writers, busy : BOOLEAN]) /\ DOMAIN runners = {1}
  BY <1>1, PanelAssumption DEF PanelInit
<1>3. Idling \in PanelRequest
  BY <1>1, <1>2, PanelAssumption DEF Idling, PanelRequest, Steps, Targets
<1>4. request \in [Requests -> PanelRequest]
  BY <1>3 DEF PanelInit
<1>5. panel \in [writer : DOMAIN writers, session : DOMAIN sessions, runner : DOMAIN runners]
  BY <1>1, <1>2 DEF PanelInit
<1>6. /\ path \in Stores /\ targetRow \in [Stores -> Targets \cup {NoTarget}]
      /\ assembles \subseteq [store : Stores, target : Targets, clean : BOOLEAN]
      /\ switches \in 0 .. SwitchCap /\ collided \in BOOLEAN
  <2>1. path \in Stores
    BY PanelAssumption DEF PanelInit
  <2>4. SwitchCap \in Nat /\ switches = 0
    BY PanelAssumption DEF PanelInit
  <2>5. collided \in BOOLEAN
    BY DEF PanelInit
  <2>2. targetRow \in [Stores -> Targets \cup {NoTarget}]
    BY DEF PanelInit
  <2>3. assembles \subseteq [store : Stores, target : Targets, clean : BOOLEAN]
    BY DEF PanelInit
  <2> QED
    BY <2>1, <2>2, <2>3, <2>4, <2>5
<1> QED
  BY <1>1, <1>2, <1>4, <1>5, <1>6 DEF PanelTypeOK, PanelRequest, Steps

\* A step that moves one request and nothing that switches.
LEMMA RequestStepTyped ==
    ASSUME PanelTypeOK, UNCHANGED storeVars, targetRow' \in [Stores -> Targets \cup {NoTarget}],
           assembles' \subseteq [store : Stores, target : Targets, clean : BOOLEAN],
           NEW r \in Requests, NEW x \in PanelRequest, request' = [request EXCEPT ![r] = x]
    PROVE  PanelTypeOK'
<1>1. /\ path' \in Stores /\ switches' \in 0 .. SwitchCap /\ collided' \in BOOLEAN
      /\ writers' = writers /\ sessions' = sessions /\ runners' = runners /\ panel' = panel
  BY DEF PanelTypeOK, storeVars, switchVars
<1>2. request' \in [Requests -> PanelRequest]
  BY PanelPieces
<1>3. request' \in [Requests -> PanelRequest']
  BY <1>1, <1>2 DEF PanelRequest
<1> QED
  BY <1>1, <1>3, PanelPieces, PanelTyped

LEMMA PanelTypesStep == PanelTypeOK /\ [PanelNext]_panelVars => PanelTypeOK'
<1> SUFFICES ASSUME PanelTypeOK, [PanelNext]_panelVars PROVE PanelTypeOK'
  OBVIOUS
<1>p. /\ path \in Stores /\ switches \in 0 .. SwitchCap /\ collided \in BOOLEAN
      /\ targetRow \in [Stores -> Targets \cup {NoTarget}]
      /\ assembles \subseteq [store : Stores, target : Targets, clean : BOOLEAN]
  BY DEF PanelTypeOK
<1>i. Idling \in PanelRequest /\ panel.writer \in DOMAIN writers /\ panel.session \in DOMAIN sessions
      /\ panel.runner \in DOMAIN runners
  BY IdlingTyped, PanelPieces
<1>r. \A r \in Requests : request[r] \in PanelRequest
  BY PanelPieces
<1>1. ASSUME NEW r \in Requests, BeginDispatch(r) PROVE PanelTypeOK'
  <2>1. PICK x \in PanelRequest : request' = [request EXCEPT ![r] = x]
    BY <1>1, <1>i DEF BeginDispatch, PanelRequest, Steps, Settled
  <2> QED
    BY <1>1, <1>p, <2>1, RequestStepTyped DEF BeginDispatch
<1>2. ASSUME NEW r \in Requests, BeginTarget(r) \/ PrepareTarget(r) \/ BeginInline(r) \/ SwitchFails(r)
      PROVE PanelTypeOK'
  <2>1. PICK x \in PanelRequest : request' = [request EXCEPT ![r] = x]
    <3>1. CASE BeginTarget(r)
      BY <1>i, <1>p, <3>1 DEF BeginTarget, PanelRequest, Steps, Settled
    <3>2. CASE PrepareTarget(r)
      <4>1. [request[r] EXCEPT !.doing = "preparing", !.writer = panel.writer] \in PanelRequest
        BY <1>i, <1>r DEF PanelRequest, Steps
      <4> QED
        BY <3>2, <4>1 DEF PrepareTarget
    <3>3. CASE BeginInline(r)
      BY <1>i, <3>3 DEF BeginInline, PanelRequest, Steps, Settled
    <3>4. CASE SwitchFails(r)
      BY <1>i, <3>4 DEF SwitchFails, Ends
    <3> QED
      BY <1>2, <3>1, <3>2, <3>3, <3>4
  <2> QED
    BY <1>2, <1>p, <2>1, RequestStepTyped DEF BeginTarget, PrepareTarget, BeginInline, SwitchFails
<1>3. ASSUME NEW r \in Requests, Assemble(r) PROVE PanelTypeOK'
  <2>1. request' = [request EXCEPT ![r] = Idling]
    BY <1>3 DEF Assemble, Ends
  <2>2. assembles' \subseteq [store : Stores, target : Targets, clean : BOOLEAN]
    <3>1. writers[request[r].writer] \in Writers /\ sessions[panel.session] \in Targets \cup {NoTarget}
          /\ request[r].clean \in BOOLEAN
      BY <1>r, PanelPieces DEF PanelRequest
    <3> QED
      BY <1>3, <1>p, <3>1 DEF Assemble, Writers
  <2> QED
    BY <1>3, <1>p, <1>i, <2>1, <2>2, RequestStepTyped DEF Assemble
<1>4. ASSUME NEW r \in Requests, SubmitBuild(r) \/ StartBuild(r) \/ EndBuild(r) PROVE PanelTypeOK'
  <2> DEFINE Runner == [store : Stores, writer : DOMAIN writers, busy : BOOLEAN]
  <2>1. /\ path' = path /\ writers' = writers /\ sessions' = sessions /\ panel' = panel
        /\ switches' = switches /\ collided' = collided /\ targetRow' = targetRow /\ assembles' = assembles
    BY <1>4 DEF SubmitBuild, StartBuild, EndBuild, switchVars
  <2>2. PICK k \in DOMAIN runners, b \in BOOLEAN, x \in PanelRequest :
          /\ runners' = runners \/ runners' = [runners EXCEPT ![k].busy = b]
          /\ request' = [request EXCEPT ![r] = x]
    <3>1. request[r].runner \in DOMAIN runners /\ request[r].session \in DOMAIN sessions
          /\ sessions[request[r].session] \in Targets \cup {NoTarget}
      BY <1>r, PanelPieces DEF PanelRequest
    <3>2. CASE SubmitBuild(r)
      <4> DEFINE x == [request[r] EXCEPT !.doing = "starting", !.runner = panel.runner]
      <4>1. x \in PanelRequest
        BY <1>i, <1>r DEF PanelRequest, Steps
      <4>2. CASE runners[panel.runner].busy
        BY <1>i, <3>2, <4>2 DEF SubmitBuild, Ends
      <4>3. CASE ~runners[panel.runner].busy
        <5>1. runners' = [runners EXCEPT ![panel.runner].busy = TRUE] /\ request' = [request EXCEPT ![r] = x]
          BY <3>2, <4>3 DEF SubmitBuild
        <5> QED
          BY <1>i, <4>1, <5>1
      <4> QED
        BY <4>2, <4>3
    <3>3. CASE StartBuild(r)
      <4> DEFINE t == sessions[request[r].session]
                 x == [request[r] EXCEPT !.doing = "building", !.target = t]
      <4>1. x \in PanelRequest
        BY <1>r, <3>1 DEF PanelRequest, Steps
      <4>2. CASE t = NoTarget
        BY <1>i, <3>1, <3>3, <4>2 DEF StartBuild, Ends
      <4>3. CASE t # NoTarget
        <5>1. runners' = runners /\ request' = [request EXCEPT ![r] = x]
          BY <3>3, <4>3 DEF StartBuild
        <5> QED
          BY <1>i, <4>1, <5>1
      <4> QED
        BY <4>2, <4>3
    <3>4. CASE EndBuild(r)
      BY <1>i, <1>r, <3>1, <3>4 DEF EndBuild, Ends, PanelRequest, Steps
    <3> QED
      BY <1>4, <3>2, <3>3, <3>4
  <2>3. runners' \in Seq(Runner) /\ DOMAIN runners' = DOMAIN runners
    <3>1. runners \in Seq(Runner) /\ runners[k] \in Runner
      BY PanelPieces
    <3>2. [runners[k] EXCEPT !.busy = b] \in Runner
      BY <3>1
    <3>3. [runners EXCEPT ![k] = [runners[k] EXCEPT !.busy = b]] \in Seq(Runner)
          /\ DOMAIN [runners EXCEPT ![k] = [runners[k] EXCEPT !.busy = b]] = DOMAIN runners
      BY <3>1, <3>2, ReplaceOne
    <3> QED
      BY <2>2, <3>1, <3>3
  <2>4. request' \in [Requests -> PanelRequest']
    BY <2>1, <2>2, <2>3, PanelPieces DEF PanelRequest
  <2> QED
    BY <1>p, <2>1, <2>3, <2>4, PanelPieces, PanelTyped
<1>5. ASSUME NEW r \in Requests, SetTarget(r) \/ RestoreTarget(r) PROVE PanelTypeOK'
  <2>1. /\ path' = path /\ writers' = writers /\ runners' = runners /\ panel' = panel
        /\ switches' = switches /\ collided' = collided /\ assembles' = assembles
    BY <1>5 DEF SetTarget, RestoreTarget, switchVars
  <2>2. PICK k \in DOMAIN sessions, t \in Targets \cup {NoTarget}, s \in Stores :
          /\ sessions' = sessions \/ sessions' = [sessions EXCEPT ![k] = t]
          /\ targetRow' = targetRow \/ targetRow' = [targetRow EXCEPT ![s] = t]
    <3>1. /\ request[r].session \in DOMAIN sessions /\ request[r].store \in Stores /\ request[r].clean \in BOOLEAN
          /\ writers[request[r].writer].store \in Stores
      BY <1>r, PanelPieces DEF PanelRequest, Writers
    <3>2. CASE SetTarget(r)
      BY <3>1, <3>2 DEF SetTarget, Targets
    <3>3. CASE RestoreTarget(r)
      BY <1>i, <1>p, <3>3 DEF RestoreTarget
    <3> QED
      BY <1>5, <3>2, <3>3
  <2>3. sessions' \in Seq(Targets \cup {NoTarget}) /\ DOMAIN sessions' = DOMAIN sessions
    <3>1. sessions \in Seq(Targets \cup {NoTarget})
      BY PanelPieces
    <3>2. CASE sessions' = [sessions EXCEPT ![k] = t]
      BY <3>1, <3>2, ReplaceOne
    <3> QED
      BY <2>2, <3>1, <3>2
  <2>4. request' \in [Requests -> PanelRequest']
    <3>1. request' = [request EXCEPT ![r] = Idling]
      BY <1>5 DEF SetTarget, RestoreTarget, Ends
    <3> QED
      BY <1>i, <2>1, <2>3, <3>1, PanelPieces DEF PanelRequest
  <2>5. targetRow' \in [Stores -> Targets \cup {NoTarget}]
    BY <1>p, <2>2
  <2> QED
    BY <1>p, <2>1, <2>3, <2>4, <2>5, PanelPieces, PanelTyped
<1>6. ASSUME NEW r \in Requests, NEW s \in Stores, Switch(r, s) PROVE PanelTypeOK'
  <2>1. /\ path' = s /\ writers' = writers /\ runners' = runners /\ panel' = panel /\ sessions' = sessions
        /\ switches' \in 0 .. SwitchCap /\ collided' \in BOOLEAN /\ assembles' = assembles /\ targetRow' = targetRow
    BY <1>6, <1>p, PanelAssumption DEF Switch, BeginSwap
  <2>2. request' \in [Requests -> PanelRequest']
    <3>1. \A q \in Requests : request'[q] \in PanelRequest
      BY <1>6, <1>i, <1>r DEF Switch, BeginSwap, PanelRequest, Steps, Swaps
    <3>2. request' = [q \in Requests |-> request'[q]]
      BY <1>6 DEF Switch, BeginSwap
    <3>3. request' \in [Requests -> PanelRequest]
      BY <3>1, <3>2
    <3> QED
      BY <2>1, <3>3 DEF PanelRequest
  <2> QED
    BY <1>p, <2>1, <2>2, PanelPieces, PanelTyped
<1>7. ASSUME NEW r \in Requests, SwapWriter(r) \/ SwapSession(r) \/ SwapRunner(r) PROVE PanelTypeOK'
  <2>1. /\ path' = path /\ switches' = switches /\ collided' = collided
        /\ assembles' = assembles /\ targetRow' = targetRow
    BY <1>7 DEF SwapWriter, SwapSession, SwapRunner, switchVars
  <2> DEFINE Runner == [store : Stores, writer : DOMAIN writers, busy : BOOLEAN]
  <2>2. /\ writers' \in Seq(Writers) /\ sessions' \in Seq(Targets \cup {NoTarget}) /\ PanelGrows
        /\ runners' \in Seq([store : Stores, writer : DOMAIN writers', busy : BOOLEAN])
        /\ panel' \in [writer : DOMAIN writers', session : DOMAIN sessions', runner : DOMAIN runners']
    <3>1. CASE SwapWriter(r)
      <4>1. [store |-> path, open |-> TRUE] \in Writers /\ writers \in Seq(Writers)
        BY <1>p, PanelPieces DEF Writers
      <4>2. writers' = Append(writers, [store |-> path, open |-> TRUE])
            /\ panel' = [panel EXCEPT !.writer = Len(writers) + 1] /\ sessions' = sessions /\ runners' = runners
        BY <3>1 DEF SwapWriter
      <4>3. writers' \in Seq(Writers) /\ DOMAIN writers' = (DOMAIN writers) \cup {Len(writers) + 1}
        BY <4>1, <4>2, AppendGrows
      <4>4. runners' \in Seq([store : Stores, writer : DOMAIN writers', busy : BOOLEAN])
        <5>1. Runner \subseteq [store : Stores, writer : DOMAIN writers', busy : BOOLEAN]
          BY <4>3
        <5>2. \A i \in DOMAIN runners : runners[i] \in [store : Stores, writer : DOMAIN writers', busy : BOOLEAN]
          BY <5>1, PanelPieces
        <5>3. runners \in Seq(Runner)
          BY PanelPieces
        <5>4. runners = [i \in DOMAIN runners |-> runners[i]]
          BY <5>3
        <5>5. runners \in Seq([store : Stores, writer : DOMAIN writers', busy : BOOLEAN])
          <6> DEFINE R == [store : Stores, writer : DOMAIN writers', busy : BOOLEAN]
          <6>1. \A i \in DOMAIN runners : runners[i] \in R
            BY <5>2
          <6> HIDE DEF R, Runner
          <6>2. runners \in Seq(R)
            BY <5>3, <5>4, <6>1, RewriteHolds
          <6> QED
            BY <6>2 DEF R
        <5> QED
          BY <4>2, <5>5
      <4> QED
        BY <4>2, <4>3, <4>4, PanelPieces DEF PanelGrows
    <3>2. CASE SwapSession(r)
      <4>2. sessions' = Append(sessions, NoTarget)
            /\ panel' = [panel EXCEPT !.session = Len(sessions) + 1] /\ writers' = writers /\ runners' = runners
        BY <3>2 DEF SwapSession
      <4>3. sessions' \in Seq(Targets \cup {NoTarget}) /\ DOMAIN sessions' = (DOMAIN sessions) \cup {Len(sessions) + 1}
        BY SMTT(30), <4>2, AppendGrows, PanelPieces
      <4> QED
        BY <4>2, <4>3, PanelPieces DEF PanelGrows
    <3>3. CASE SwapRunner(r)
      <4>1. [store |-> path, writer |-> panel.writer, busy |-> FALSE] \in Runner /\ runners \in Seq(Runner)
        BY <1>p, <1>i, PanelPieces
      <4>2. runners' = Append(runners, [store |-> path, writer |-> panel.writer, busy |-> FALSE])
            /\ panel' = [panel EXCEPT !.runner = Len(runners) + 1] /\ writers' = writers /\ sessions' = sessions
        BY <3>3 DEF SwapRunner
      <4>3. runners' \in Seq(Runner) /\ DOMAIN runners' = (DOMAIN runners) \cup {Len(runners) + 1}
        BY <4>1, <4>2, AppendGrows
      <4> QED
        BY <4>2, <4>3, PanelPieces DEF PanelGrows
    <3> QED
      BY <1>7, <3>1, <3>2, <3>3
  <2>3. request' \in [Requests -> PanelRequest']
    <3>1. PICK x \in PanelRequest : request' = [request EXCEPT ![r] = x]
      BY <1>7, <1>r DEF SwapWriter, SwapSession, SwapRunner, Goes, PanelRequest, Steps, Swaps
    <3>2. x \in PanelRequest'
      BY <2>2 DEF PanelGrows, PanelRequest
    <3> QED
      BY <2>2, <3>1, <3>2, RequestsTyped
  <2> QED
    BY <1>p, <2>1, <2>2, <2>3, PanelTyped
<1>8. ASSUME NEW r \in Requests, CloseOldWriter(r) PROVE PanelTypeOK'
  <2>1. /\ path' = path /\ sessions' = sessions /\ runners' = runners /\ panel' = panel
        /\ switches' = switches /\ collided' = collided /\ assembles' = assembles /\ targetRow' = targetRow
        /\ writers' = [writers EXCEPT ![request[r].writer] = [writers[request[r].writer] EXCEPT !.open = FALSE]]
    BY <1>8 DEF CloseOldWriter, switchVars
  <2>2. request[r].writer \in DOMAIN writers /\ writers[request[r].writer] \in Writers
    BY <1>r, PanelPieces DEF PanelRequest
  <2>3. writers' \in Seq(Writers) /\ DOMAIN writers' = DOMAIN writers
    <3>1. [writers[request[r].writer] EXCEPT !.open = FALSE] \in Writers
      BY <2>2 DEF Writers
    <3> QED
      BY <2>1, <2>2, <3>1, PanelPieces, ReplaceOne
  <2>4. request' \in [Requests -> PanelRequest']
    <3>1. PICK x \in PanelRequest : request' = [request EXCEPT ![r] = x]
      BY <1>8, <1>r DEF CloseOldWriter, Goes, PanelRequest, Steps, Swaps
    <3> QED
      BY <2>1, <2>3, <3>1, PanelPieces DEF PanelRequest
  <2> QED
    BY <1>p, <2>1, <2>3, <2>4, PanelPieces, PanelTyped
<1>9. CASE UNCHANGED panelVars
  BY <1>9 DEF panelVars, switchVars, PanelTypeOK
<1> QED
  BY <1>1, <1>2, <1>3, <1>4, <1>5, <1>6, <1>7, <1>8, <1>9 DEF PanelNext

-----------------------------------------------------------------------------
\* the steps at which a request holds the slot of its runner
Occupying == {"starting", "building"}

\* under way, and not overlapped by a switch
Clean(r) == request[r].clean /\ request[r].doing \in Reading \cup Occupying

Here == writers[panel.writer]

\* a target no switch was overlapped by is the store's
ForStore(t, s) == t # NoTarget /\ t.clean => t.for = s

SessionFits == ForStore(sessions[panel.session], Here.store)

RunnerFits == runners[panel.runner].store = Here.store /\ runners[panel.runner].writer = panel.writer

Whole == Here.open /\ SessionFits /\ RunnerFits

\* A slot that is held is taken, by one request.
SlotsAreTaken ==
    /\ \A r \in Requests : request[r].doing \in Occupying => runners[request[r].runner].busy
    /\ \A r, q \in Requests :
          /\ request[r].doing \in Occupying /\ request[q].doing \in Occupying
          /\ request[r].runner = request[q].runner
          => r = q

\* How far a switch has come.
HasReplaced(r) ==
    /\ request[r].doing = "opening" => Whole /\ request[r].writer = panel.writer
    /\ request[r].doing # "opening" => Here = [store |-> path, open |-> TRUE]
    /\ request[r].doing \in {"swapping session", "swapping runner", "closing"} => request[r].writer # panel.writer
    /\ request[r].doing \notin {"opening", "swapping session"} => SessionFits
    /\ request[r].doing \in {"closing", "restoring"} => RunnerFits

SwitchesInOrder ==
    ~collided =>
        /\ \A r, q \in Switching : r = q
        /\ Switching = {} => Whole
        /\ \A r \in Switching : HasReplaced(r)

\* what a request no switch overlapped has read is still what is in place
ReadsInPlace(r) ==
    /\ request[r].doing \in Occupying => request[r].runner = panel.runner
    /\ request[r].doing # "inline" => request[r].session = panel.session
    /\ request[r].doing \in {"preparing", "inline"} => request[r].writer = panel.writer
    /\ request[r].doing \in {"targeting", "preparing"} => request[r].store = path
    /\ request[r].doing = "building" => ForStore(request[r].target, path) /\ request[r].target # NoTarget

CleanIsSettled == \A r \in Requests : Clean(r) => Settled /\ ReadsInPlace(r)

TargetsFit ==
    /\ \A s \in Stores : ForStore(targetRow[s], s)
    /\ \A a \in assembles : a.clean => ForStore(a.target, a.store)

PanelInv == PanelTypeOK /\ SlotsAreTaken /\ SwitchesInOrder /\ CleanIsSettled /\ TargetsFit

\* The invariant holds when the panel is started.
LEMMA PanelInvInit == PanelInit => PanelInv
<1> SUFFICES ASSUME PanelInit PROVE PanelInv
  OBVIOUS
<1>1. PanelTypeOK
  BY PanelTypesInit
<1>2. \A r \in Requests : request[r].doing = "idle"
  BY DEF PanelInit, Idling
<1>3. Whole
  BY DEF PanelInit, Whole, SessionFits, RunnerFits, ForStore, Here
<1>4. Switching = {} /\ \A r \in Requests : ~Clean(r)
  BY <1>2 DEF Switching, Swaps, Clean, Reading, Occupying
<1>5. SlotsAreTaken
  BY <1>2 DEF SlotsAreTaken, Occupying
<1>6. TargetsFit
  BY DEF PanelInit, TargetsFit, ForStore
<1> QED
  BY <1>1, <1>3, <1>4, <1>5, <1>6 DEF PanelInv, SwitchesInOrder, CleanIsSettled

\* The request that moves, and the others.
Others(r) == \A q \in Requests : q # r => request'[q] = request[q]

LEMMA RequestMoves ==
    ASSUME PanelTypeOK, NEW r \in Requests
    PROVE  /\ \A step : Goes(r, step) =>
                 /\ request'[r].doing = step /\ request'[r].writer = request[r].writer
                 /\ request'[r].runner = request[r].runner /\ request'[r].clean = request[r].clean
                 /\ request'[r].session = request[r].session /\ request'[r].store = request[r].store
                 /\ Others(r)
           /\ Ends(r) => request'[r] = Idling /\ request'[r].doing = "idle" /\ Others(r)
           /\ \A x : request' = [request EXCEPT ![r] = x] => request'[r] = x /\ Others(r)
<1>1. request \in [Requests -> PanelRequest] /\ request[r] \in PanelRequest
  BY PanelPieces
<1>2. ASSUME NEW x, request' = [request EXCEPT ![r] = x]
      PROVE  request'[r] = x /\ Others(r)
  BY <1>1, <1>2 DEF Others
<1>3. ASSUME NEW step, Goes(r, step)
      PROVE  /\ request'[r].doing = step /\ request'[r].writer = request[r].writer
             /\ request'[r].runner = request[r].runner /\ request'[r].clean = request[r].clean
             /\ request'[r].session = request[r].session /\ request'[r].store = request[r].store
             /\ Others(r)
  <2>1. request' = [request EXCEPT ![r] = [request[r] EXCEPT !.doing = step]]
    BY <1>3 DEF Goes
  <2>2. request'[r] = [request[r] EXCEPT !.doing = step] /\ Others(r)
    BY <1>2, <2>1
  <2> QED
    BY <1>1, <2>2 DEF PanelRequest
<1>4. Ends(r) => request'[r] = Idling /\ request'[r].doing = "idle" /\ Others(r)
  <2>1. request' = [request EXCEPT ![r] = Idling] => request'[r] = Idling /\ Others(r)
    BY <1>1 DEF Others
  <2> QED
    BY <2>1 DEF Ends, Idling
<1> QED
  BY <1>2, <1>3, <1>4

\* What a request reads when it begins, and when it prepares a target.
LEMMA RequestReads ==
    ASSUME PanelTypeOK, NEW r \in Requests
    PROVE  /\ BeginDispatch(r) =>
                /\ Others(r) /\ request'[r].doing = "submitting" /\ request'[r].clean = Settled
                /\ request'[r].session = panel.session
           /\ BeginTarget(r) =>
                /\ Others(r) /\ request'[r].doing = "targeting" /\ request'[r].clean = Settled
                /\ request'[r].session = panel.session /\ request'[r].store = path
           /\ PrepareTarget(r) =>
                /\ Others(r) /\ request'[r].doing = "preparing" /\ request'[r].clean = request[r].clean
                /\ request'[r].session = request[r].session /\ request'[r].store = request[r].store
                /\ request'[r].writer = panel.writer
           /\ BeginInline(r) =>
                /\ Others(r) /\ request'[r].doing = "inline" /\ request'[r].clean = Settled
                /\ request'[r].writer = panel.writer
<1>1. request[r] \in PanelRequest /\ \A x : request' = [request EXCEPT ![r] = x] => request'[r] = x /\ Others(r)
  BY RequestMoves, PanelPieces
<1>2. ASSUME BeginDispatch(r)
      PROVE  /\ Others(r)
             /\ request'[r].doing = "submitting"
             /\ request'[r].clean = Settled
             /\ request'[r].session = panel.session
  <2> DEFINE x == [Idling EXCEPT !.doing = "submitting", !.session = panel.session, !.clean = Settled]
  <2>1. request' = [request EXCEPT ![r] = x]
    BY <1>2 DEF BeginDispatch
  <2>2. x.doing = "submitting" /\ x.clean = Settled /\ x.session = panel.session
    BY <1>1 DEF Idling
  <2> HIDE DEF x
  <2>3. request'[r] = x /\ Others(r)
    BY <1>1, <2>1
  <2> QED
    BY <2>2, <2>3
<1>3. ASSUME BeginTarget(r)
      PROVE  /\ Others(r)
             /\ request'[r].doing = "targeting"
             /\ request'[r].clean = Settled
             /\ request'[r].session = panel.session
             /\ request'[r].store = path
  <2> DEFINE x == [Idling EXCEPT !.doing = "targeting", !.session = panel.session, !.store = path, !.clean = Settled]
  <2>1. request' = [request EXCEPT ![r] = x]
    BY <1>3 DEF BeginTarget
  <2>2. x.doing = "targeting" /\ x.clean = Settled /\ x.session = panel.session /\ x.store = path
    BY <1>1 DEF Idling
  <2> HIDE DEF x
  <2>3. request'[r] = x /\ Others(r)
    BY <1>1, <2>1
  <2> QED
    BY <2>2, <2>3
<1>4. ASSUME PrepareTarget(r)
      PROVE  /\ Others(r)
             /\ request'[r].doing = "preparing"
             /\ request'[r].clean = request[r].clean
             /\ request'[r].session = request[r].session
             /\ request'[r].store = request[r].store
             /\ request'[r].writer = panel.writer
  <2> DEFINE x == [request[r] EXCEPT !.doing = "preparing", !.writer = panel.writer]
  <2>1. request' = [request EXCEPT ![r] = x]
    BY <1>4 DEF PrepareTarget
  <2>2. x.doing = "preparing" /\ x.clean = request[r].clean /\ x.session = request[r].session /\ x.store = request[r].store /\ x.writer = panel.writer
    BY <1>1 DEF PanelRequest
  <2> HIDE DEF x
  <2>3. request'[r] = x /\ Others(r)
    BY <1>1, <2>1
  <2> QED
    BY <2>2, <2>3
<1>5. ASSUME BeginInline(r)
      PROVE  /\ Others(r)
             /\ request'[r].doing = "inline"
             /\ request'[r].clean = Settled
             /\ request'[r].writer = panel.writer
  <2> DEFINE x == [Idling EXCEPT !.doing = "inline", !.writer = panel.writer, !.clean = Settled]
  <2>1. request' = [request EXCEPT ![r] = x]
    BY <1>5 DEF BeginInline
  <2>2. x.doing = "inline" /\ x.clean = Settled /\ x.writer = panel.writer
    BY <1>1 DEF Idling
  <2> HIDE DEF x
  <2>3. request'[r] = x /\ Others(r)
    BY <1>1, <2>1
  <2> QED
    BY <2>2, <2>3
<1> QED
  BY <1>2, <1>3, <1>4, <1>5

\* A step that leaves the slots alone.
LEMMA SlotsStand ==
    ASSUME PanelTypeOK, SlotsAreTaken, NEW r \in Requests,
           \A k \in DOMAIN runners : runners'[k].busy = runners[k].busy,
           \A q \in Requests : q # r => request'[q].doing = request[q].doing /\ request'[q].runner = request[q].runner,
           \/ request'[r].doing \notin Occupying
           \/ request[r].doing \in Occupying /\ request'[r].runner = request[r].runner
    PROVE  SlotsAreTaken'
<1>1. \A q \in Requests : request[q].runner \in DOMAIN runners
  BY PanelPieces DEF PanelRequest
<1> QED
  BY <1>1 DEF SlotsAreTaken

\* A request lets go of its slot.
LEMMA SlotsReleased ==
    ASSUME PanelTypeOK, SlotsAreTaken, NEW r \in Requests, request[r].doing \in Occupying, Ends(r),
           runners' = [runners EXCEPT ![request[r].runner].busy = FALSE]
    PROVE  SlotsAreTaken'
<1>1. \A q \in Requests : request[q].runner \in DOMAIN runners
  BY PanelPieces DEF PanelRequest
<1>2. request'[r].doing = "idle" /\ \A q \in Requests : q # r => request'[q] = request[q]
  BY PanelPieces DEF Ends, Idling
<1>3. \A k \in DOMAIN runners : k # request[r].runner => runners'[k] = runners[k]
  BY <1>1, PanelPieces
<1> QED
  BY <1>1, <1>2, <1>3 DEF SlotsAreTaken, Occupying

\* No step gives a slot to two requests, or a held one away.
LEMMA SlotsStep == PanelTypeOK /\ SlotsAreTaken /\ PanelNext => SlotsAreTaken'
<1> SUFFICES ASSUME PanelTypeOK, SlotsAreTaken, PanelNext PROVE SlotsAreTaken'
  OBVIOUS
<1>f. request \in [Requests -> PanelRequest] /\ \A q \in Requests : request[q] \in PanelRequest
  BY PanelPieces
<1>1. ASSUME NEW r \in Requests,
             \/ BeginDispatch(r) \/ BeginTarget(r) \/ PrepareTarget(r) \/ SetTarget(r) \/ BeginInline(r) \/ Assemble(r)
             \/ SwitchFails(r) \/ SwapWriter(r) \/ SwapSession(r) \/ CloseOldWriter(r) \/ RestoreTarget(r)
      PROVE SlotsAreTaken'
  <2>1. runners' = runners
    BY <1>1 DEF BeginDispatch, BeginTarget, PrepareTarget, SetTarget, BeginInline, Assemble, SwitchFails, SwapWriter,
                SwapSession, CloseOldWriter, RestoreTarget, storeVars
  <2>2. request'[r].doing \notin Occupying /\ \A q \in Requests : q # r => request'[q] = request[q]
    <3>1. CASE BeginDispatch(r) \/ BeginTarget(r) \/ PrepareTarget(r) \/ BeginInline(r)
      BY <3>1, RequestReads DEF Others, Occupying
    <3>2. CASE SetTarget(r) \/ Assemble(r) \/ SwitchFails(r) \/ RestoreTarget(r)
      BY <1>f, <3>2 DEF SetTarget, Assemble, SwitchFails, RestoreTarget, Ends, Idling, Occupying
    <3>3. CASE SwapWriter(r) \/ SwapSession(r) \/ CloseOldWriter(r)
      <4>1. Goes(r, "swapping session") \/ Goes(r, "swapping runner") \/ Goes(r, "restoring")
        BY <3>3 DEF SwapWriter, SwapSession, CloseOldWriter
      <4> QED
        <5>1. \A step : Goes(r, step) => request'[r].doing = step /\ Others(r)
          BY RequestMoves
        <5>2. (request'[r].doing = "swapping session" \/ request'[r].doing = "swapping runner"
               \/ request'[r].doing = "restoring") /\ Others(r)
          BY <4>1, <5>1
        <5> QED
          BY <5>2 DEF Others, Occupying
    <3> QED
      BY <1>1, <3>1, <3>2, <3>3
  <2> QED
    BY <2>1, <2>2, SlotsStand
<1>2. ASSUME NEW r \in Requests, SubmitBuild(r) PROVE SlotsAreTaken'
  <2>1. CASE runners[panel.runner].busy
    <3>1. runners' = runners /\ request'[r].doing \notin Occupying /\ \A q \in Requests : q # r => request'[q] = request[q]
      BY <1>2, <1>f, <2>1 DEF SubmitBuild, Ends, Idling, Occupying
    <3> QED
      BY <3>1, SlotsStand
  <2>2. CASE ~runners[panel.runner].busy
    <3>1. /\ runners' = [runners EXCEPT ![panel.runner].busy = TRUE]
          /\ request'[r].runner = panel.runner /\ \A q \in Requests : q # r => request'[q] = request[q]
      BY <1>2, <1>f, <2>2 DEF SubmitBuild, PanelRequest
    <3>2. \A k \in DOMAIN runners : runners'[k].busy = (k = panel.runner \/ runners[k].busy)
      BY <3>1, PanelPieces
    <3>3. panel.runner \in DOMAIN runners /\ \A q \in Requests : request[q].runner \in DOMAIN runners
      BY <1>f, PanelPieces DEF PanelRequest
    <3> QED
      BY <2>2, <3>1, <3>2, <3>3 DEF SlotsAreTaken
  <2> QED
    BY <2>1, <2>2
<1>3. ASSUME NEW r \in Requests, StartBuild(r) PROVE SlotsAreTaken'
  <2>1. CASE sessions[request[r].session] = NoTarget
    BY <1>3, <2>1, SlotsReleased DEF StartBuild, Doing, Occupying
  <2>2. CASE sessions[request[r].session] # NoTarget
    <3>1. /\ runners' = runners /\ request'[r].runner = request[r].runner /\ request[r].doing \in Occupying
          /\ \A q \in Requests : q # r => request'[q] = request[q]
      BY <1>3, <1>f, <2>2 DEF StartBuild, Doing, Occupying, PanelRequest
    <3> QED
      BY <3>1, SlotsStand
  <2> QED
    BY <2>1, <2>2
<1>4. ASSUME NEW r \in Requests, EndBuild(r) PROVE SlotsAreTaken'
  BY <1>4, SlotsReleased DEF EndBuild, Doing, Occupying
<1>5. ASSUME NEW r \in Requests, NEW s \in Stores, Switch(r, s) PROVE SlotsAreTaken'
  <2>1. /\ runners' = runners /\ request'[r].doing \notin Occupying
        /\ \A q \in Requests : q # r => request'[q].doing = request[q].doing /\ request'[q].runner = request[q].runner
    BY <1>5, <1>f DEF Switch, BeginSwap, Idling, Occupying, PanelRequest
  <2> QED
    BY <2>1, SlotsStand
<1>6. ASSUME NEW r \in Requests, SwapRunner(r) PROVE SlotsAreTaken'
  <2>1. request'[r].doing \notin Occupying /\ \A q \in Requests : q # r => request'[q] = request[q]
    <3>1. Goes(r, "closing")
      BY <1>6 DEF SwapRunner
    <3>2. request'[r].doing = "closing" /\ Others(r)
      BY <3>1, RequestMoves
    <3> QED
      BY <3>2 DEF Others, Occupying
  <2>2. \A k \in DOMAIN runners : runners'[k] = runners[k]
    <3>1. runners' = Append(runners, [store |-> path, writer |-> panel.writer, busy |-> FALSE])
      BY <1>6 DEF SwapRunner
    <3>2. [store |-> path, writer |-> panel.writer, busy |-> FALSE] \in [store : Stores, writer : DOMAIN writers, busy : BOOLEAN]
      BY PanelPieces DEF PanelTypeOK
    <3>3. runners \in Seq([store : Stores, writer : DOMAIN writers, busy : BOOLEAN])
      BY PanelPieces
    <3> QED
      BY <3>1, <3>2, <3>3, AppendGrows
  <2> QED
    BY <2>1, <2>2, SlotsStand
<1> QED
  BY <1>1, <1>2, <1>3, <1>4, <1>5, <1>6 DEF PanelNext

-----------------------------------------------------------------------------
\* A step that no switch takes leaves the panel as it is, but for the target
\* of a session.
LEMMA PanelStands ==
    ASSUME SwitchesInOrder, path' = path, writers' = writers, panel' = panel, collided' = collided,
           SessionFits => SessionFits', RunnerFits => RunnerFits',
           \A q \in Requests :
               \/ request'[q] = request[q]
               \/ request[q].doing \notin Swaps /\ request'[q].doing \notin Swaps
    PROVE  SwitchesInOrder'
<1>1. Switching' = Switching /\ \A q \in Switching : request'[q] = request[q]
  BY DEF Switching
<1>2. Here' = Here /\ (Whole => Whole')
  BY DEF Here, Whole
<1>3. SUFFICES ASSUME ~collided
               PROVE  /\ \A r, q \in Switching' : r = q
                      /\ Switching' = {} => Whole'
                      /\ \A r \in Switching' : HasReplaced(r)'
  BY DEF SwitchesInOrder
<1>4. \A r \in Switching : HasReplaced(r)'
  <2> SUFFICES ASSUME NEW r \in Switching PROVE HasReplaced(r)'
    OBVIOUS
  <2>1. HasReplaced(r) /\ request'[r] = request[r]
    BY <1>1, <1>3 DEF SwitchesInOrder
  <2> QED
    BY <1>2, <2>1 DEF HasReplaced
<1> QED
  BY <1>1, <1>2, <1>3, <1>4 DEF SwitchesInOrder

\* the one switch under way comes further
LEMMA SwitchComesOn ==
    ASSUME SwitchesInOrder, NEW r \in Switching, Others(r), collided' = collided,
           ~collided /\ HasReplaced(r) => (IF request'[r].doing \in Swaps THEN HasReplaced(r)' ELSE Whole')
    PROVE  SwitchesInOrder'
<1> SUFFICES ASSUME ~collided
             PROVE  /\ \A p, q \in Switching' : p = q
                    /\ Switching' = {} => Whole'
                    /\ \A q \in Switching' : HasReplaced(q)'
  BY DEF SwitchesInOrder
<1>1. Switching = {r} /\ HasReplaced(r)
  BY DEF SwitchesInOrder
<1>2. Switching' = IF request'[r].doing \in Swaps THEN {r} ELSE {}
  BY <1>1 DEF Switching, Others
<1> QED
  BY <1>1, <1>2

\* Every step keeps the panel whole, or a switch where it says it is.
LEMMA SwitchesStep == PanelTypeOK /\ SwitchesInOrder /\ CleanIsSettled /\ TargetsFit /\ PanelNext => SwitchesInOrder'
<1> SUFFICES ASSUME PanelTypeOK, SwitchesInOrder, CleanIsSettled, TargetsFit, PanelNext PROVE SwitchesInOrder'
  OBVIOUS
<1>f. request \in [Requests -> PanelRequest] /\ \A q \in Requests : request[q] \in PanelRequest
  BY PanelPieces
<1>p. panel.writer \in DOMAIN writers /\ panel.session \in DOMAIN sessions /\ panel.runner \in DOMAIN runners
      /\ panel \in [writer : DOMAIN writers, session : DOMAIN sessions, runner : DOMAIN runners]
      /\ path \in Stores
  BY PanelPieces DEF PanelTypeOK
<1>1. ASSUME NEW r \in Requests,
             BeginDispatch(r) \/ BeginTarget(r) \/ PrepareTarget(r) \/ BeginInline(r) \/ Assemble(r)
      PROVE SwitchesInOrder'
  <2>1. UNCHANGED storeVars
    BY <1>1 DEF BeginDispatch, BeginTarget, PrepareTarget, BeginInline, Assemble
  <2>2. Others(r) /\ request[r].doing \notin Swaps /\ request'[r].doing \notin Swaps
    <3>1. CASE Assemble(r)
      BY <3>1, RequestMoves DEF Assemble, Doing, Swaps
    <3>2. CASE BeginDispatch(r) \/ BeginTarget(r) \/ PrepareTarget(r) \/ BeginInline(r)
      <4>1. Others(r) /\ request'[r].doing \in {"submitting", "targeting", "preparing", "inline"}
        BY <3>2, RequestReads
      <4>2. request[r].doing \in {"idle", "targeting"}
        BY <3>2 DEF BeginDispatch, BeginTarget, PrepareTarget, BeginInline, Doing
      <4> QED
        BY <4>1, <4>2 DEF Swaps
    <3> QED
      BY <1>1, <3>1, <3>2
  <2>3. \A q \in Requests : request'[q] = request[q] \/ (request[q].doing \notin Swaps /\ request'[q].doing \notin Swaps)
    BY <2>2 DEF Others
  <2> QED
    BY <2>1, <2>3, PanelStands DEF storeVars, switchVars, SessionFits, RunnerFits, Here
<1>2. ASSUME NEW r \in Requests, SubmitBuild(r) \/ StartBuild(r) \/ EndBuild(r) PROVE SwitchesInOrder'
  <2>1. path' = path /\ writers' = writers /\ panel' = panel /\ collided' = collided /\ sessions' = sessions
    BY <1>2 DEF SubmitBuild, StartBuild, EndBuild, switchVars
  <2>2. Others(r) /\ request[r].doing \notin Swaps /\ request'[r].doing \notin Swaps
    <3>1. CASE Ends(r)
      BY <1>2, <3>1, RequestMoves DEF SubmitBuild, StartBuild, EndBuild, Doing, Swaps
    <3>2. CASE request' = [request EXCEPT ![r].doing = "starting", ![r].runner = panel.runner]
      <4> DEFINE x == [request[r] EXCEPT !.doing = "starting", !.runner = panel.runner]
      <4>1. request' = [request EXCEPT ![r] = x] /\ x.doing = "starting"
        BY <1>f, <3>2 DEF PanelRequest
      <4> HIDE DEF x
      <4>2. request'[r] = x /\ Others(r)
        BY <4>1, RequestMoves
      <4> QED
        BY <1>2, <4>1, <4>2 DEF SubmitBuild, StartBuild, EndBuild, Doing, Swaps
    <3>3. CASE request' = [request EXCEPT ![r].doing = "building", ![r].target = sessions[request[r].session]]
      <4> DEFINE x == [request[r] EXCEPT !.doing = "building", !.target = sessions[request[r].session]]
      <4>1. request' = [request EXCEPT ![r] = x] /\ x.doing = "building"
        BY <1>f, <3>3 DEF PanelRequest
      <4> HIDE DEF x
      <4>2. request'[r] = x /\ Others(r)
        BY <4>1, RequestMoves
      <4> QED
        BY <1>2, <4>1, <4>2 DEF SubmitBuild, StartBuild, EndBuild, Doing, Swaps
    <3> QED
      BY <1>2, <3>1, <3>2, <3>3 DEF SubmitBuild, StartBuild, EndBuild
  <2>3. RunnerFits' = RunnerFits
    <3>1. \A k \in DOMAIN runners : runners'[k].store = runners[k].store /\ runners'[k].writer = runners[k].writer
      <4>1. PICK k \in DOMAIN runners, b \in BOOLEAN : runners' = runners \/ runners' = [runners EXCEPT ![k].busy = b]
        BY <1>2, <1>f, <1>p DEF SubmitBuild, StartBuild, EndBuild, PanelRequest
      <4>2. runners \in Seq([store : Stores, writer : DOMAIN writers, busy : BOOLEAN])
            /\ runners[k] \in [store : Stores, writer : DOMAIN writers, busy : BOOLEAN]
        BY PanelPieces
      <4> DEFINE x == [runners[k] EXCEPT !.busy = b]
      <4>3. x.store = runners[k].store /\ x.writer = runners[k].writer
            /\ x \in [store : Stores, writer : DOMAIN writers, busy : BOOLEAN]
        BY <4>2
      <4>4. CASE runners' = [runners EXCEPT ![k] = x]
        <5> HIDE DEF x
        <5>1. runners'[k] = x /\ \A i \in DOMAIN runners : i # k => runners'[i] = runners[i]
          BY <4>2, <4>3, <4>4, ReplaceOne
        <5> QED
          BY <4>3, <5>1
      <4> QED
        BY <4>1, <4>4
    <3> QED
      BY <1>p, <2>1, <3>1 DEF RunnerFits, Here
  <2>4. \A q \in Requests : request'[q] = request[q] \/ (request[q].doing \notin Swaps /\ request'[q].doing \notin Swaps)
    BY <2>2 DEF Others
  <2> QED
    BY <2>1, <2>3, <2>4, PanelStands DEF SessionFits, Here
<1>3. ASSUME NEW r \in Requests, SetTarget(r) PROVE SwitchesInOrder'
  <2>1. path' = path /\ writers' = writers /\ panel' = panel /\ collided' = collided /\ runners' = runners
    BY <1>3 DEF SetTarget, switchVars
  <2>2. Others(r) /\ request[r].doing \notin Swaps /\ request'[r].doing \notin Swaps
    BY <1>3, RequestMoves DEF SetTarget, Doing, Swaps
  <2>3. SessionFits => SessionFits'
    <3> DEFINE t == [for |-> request[r].store, clean |-> request[r].clean]
    <3>1. sessions' = [sessions EXCEPT ![request[r].session] = t] /\ request[r].doing = "preparing"
      BY <1>3 DEF SetTarget, Doing
    <3>2. t.clean => t.for = Here.store
      <4> SUFFICES ASSUME request[r].clean PROVE request[r].store = Here.store
        OBVIOUS
      <4>1. Clean(r)
        BY <3>1 DEF Clean, Reading
      <4> QED
        BY <3>1, <4>1 DEF CleanIsSettled, ReadsInPlace, Settled, Here
    <3> HIDE DEF t
    <3>3. sessions'[panel.session] = t \/ sessions'[panel.session] = sessions[panel.session]
      BY <1>p, <3>1, PanelPieces
    <3> QED
      BY <2>1, <3>2, <3>3 DEF SessionFits, ForStore, Here
  <2>4. \A q \in Requests : request'[q] = request[q] \/ (request[q].doing \notin Swaps /\ request'[q].doing \notin Swaps)
    BY <2>2 DEF Others
  <2> QED
    BY <2>1, <2>3, <2>4, PanelStands DEF RunnerFits, Here
<1>4. ASSUME NEW r \in Requests, NEW s \in Stores, Switch(r, s) PROVE SwitchesInOrder'
  <2>1. /\ writers' = writers /\ panel' = panel /\ sessions' = sessions /\ runners' = runners
        /\ collided' = (collided \/ Switching # {})
    BY <1>4 DEF Switch, BeginSwap
  <2> SUFFICES ASSUME ~collided, Switching = {}
               PROVE  /\ \A p, q \in Switching' : p = q
                      /\ Switching' = {} => Whole'
                      /\ \A q \in Switching' : HasReplaced(q)'
    BY <2>1 DEF SwitchesInOrder
  <2>2. /\ request'[r].doing = "opening" /\ request'[r].writer = panel.writer
        /\ \A q \in Requests : q # r => request'[q].doing = request[q].doing
    BY <1>4, <1>f DEF Switch, BeginSwap, Idling, PanelRequest
  <2>3. Switching' = {r}
    BY <2>2 DEF Switching, Swaps
  <2>4. Whole'
    BY <2>1 DEF SwitchesInOrder, Whole, Here, SessionFits, RunnerFits
  <2> QED
    BY <2>1, <2>2, <2>3, <2>4 DEF HasReplaced
<1>5. ASSUME NEW r \in Requests, SwitchFails(r) PROVE SwitchesInOrder'
  <2>1. UNCHANGED storeVars /\ r \in Switching /\ request[r].doing = "opening"
    BY <1>5 DEF SwitchFails, Switching, Doing, Swaps
  <2>2. Others(r) /\ request'[r].doing = "idle"
    BY <1>5, RequestMoves DEF SwitchFails
  <2>3. HasReplaced(r) => Whole'
    BY <2>1 DEF HasReplaced, storeVars, Whole, Here, SessionFits, RunnerFits
  <2> QED
    BY <2>1, <2>2, <2>3, SwitchComesOn DEF storeVars, switchVars, Swaps
<1>6. ASSUME NEW r \in Requests, SwapWriter(r) PROVE SwitchesInOrder'
  <2>1. r \in Switching /\ request[r].doing = "opening" /\ path' = path /\ collided' = collided /\ sessions' = sessions
    BY <1>6 DEF SwapWriter, Switching, Doing, Swaps, switchVars
  <2>2. Others(r) /\ request'[r].doing = "swapping session" /\ request'[r].writer = request[r].writer
    BY <1>6, RequestMoves DEF SwapWriter
  <2>3. Here' = [store |-> path, open |-> TRUE] /\ panel'.writer = Len(writers) + 1 /\ Len(writers) + 1 \notin DOMAIN writers
    <3>1. writers' = Append(writers, [store |-> path, open |-> TRUE]) /\ panel' = [panel EXCEPT !.writer = Len(writers) + 1]
      BY <1>6 DEF SwapWriter
    <3>2. writers \in Seq(Writers) /\ [store |-> path, open |-> TRUE] \in Writers
      BY <1>p, PanelPieces DEF Writers
    <3>3. panel'.writer = Len(writers) + 1
      BY <1>p, <3>1
    <3>4. writers'[Len(writers) + 1] = [store |-> path, open |-> TRUE] /\ Len(writers) + 1 \notin DOMAIN writers
      BY <3>1, <3>2, AppendGrows
    <3> QED
      BY <3>3, <3>4 DEF Here
  <2>4. HasReplaced(r) => HasReplaced(r)'
    BY <1>f, <2>1, <2>2, <2>3 DEF HasReplaced, PanelRequest
  <2> QED
    BY <2>1, <2>2, <2>4, SwitchComesOn DEF Swaps
<1>7. ASSUME NEW r \in Requests, SwapSession(r) PROVE SwitchesInOrder'
  <2>1. r \in Switching /\ request[r].doing = "swapping session" /\ path' = path /\ collided' = collided /\ writers' = writers
    BY <1>7 DEF SwapSession, Switching, Doing, Swaps, switchVars
  <2>2. Others(r) /\ request'[r].doing = "swapping runner" /\ request'[r].writer = request[r].writer
    BY <1>7, RequestMoves DEF SwapSession
  <2>3. panel'.writer = panel.writer /\ sessions'[panel'.session] = NoTarget
    <3>1. sessions' = Append(sessions, NoTarget) /\ panel' = [panel EXCEPT !.session = Len(sessions) + 1]
      BY <1>7 DEF SwapSession
    <3>2. sessions'[Len(sessions) + 1] = NoTarget
      BY <3>1, PanelPieces, AppendGrows
    <3> QED
      BY <1>p, <3>1, <3>2
  <2>4. SessionFits' /\ Here' = Here
    BY <2>1, <2>3 DEF SessionFits, ForStore, Here
  <2>5. HasReplaced(r) => HasReplaced(r)'
    BY <2>1, <2>2, <2>3, <2>4 DEF HasReplaced
  <2> QED
    BY <2>1, <2>2, <2>5, SwitchComesOn DEF Swaps
<1>8. ASSUME NEW r \in Requests, SwapRunner(r) PROVE SwitchesInOrder'
  <2>1. /\ r \in Switching /\ request[r].doing = "swapping runner" /\ path' = path /\ collided' = collided
        /\ writers' = writers /\ sessions' = sessions
    BY <1>8 DEF SwapRunner, Switching, Doing, Swaps, switchVars
  <2>2. Others(r) /\ request'[r].doing = "closing" /\ request'[r].writer = request[r].writer
    BY <1>8, RequestMoves DEF SwapRunner
  <2>3. /\ panel'.writer = panel.writer /\ panel'.session = panel.session
        /\ runners'[panel'.runner] = [store |-> path, writer |-> panel.writer, busy |-> FALSE]
    <3> DEFINE new == [store |-> path, writer |-> panel.writer, busy |-> FALSE]
    <3>1. runners' = Append(runners, new) /\ panel' = [panel EXCEPT !.runner = Len(runners) + 1]
      BY <1>8 DEF SwapRunner
    <3>2. new \in [store : Stores, writer : DOMAIN writers, busy : BOOLEAN]
      BY <1>p
    <3>3. runners \in Seq([store : Stores, writer : DOMAIN writers, busy : BOOLEAN])
      BY PanelPieces
    <3>4. runners'[Len(runners) + 1] = new
      BY <3>1, <3>2, <3>3, AppendGrows
    <3> QED
      BY <1>p, <3>1, <3>4
  <2>4. Here' = Here /\ SessionFits' = SessionFits
    BY <2>1, <2>3 DEF SessionFits, Here
  <2>5. HasReplaced(r) => HasReplaced(r)'
    <3> SUFFICES ASSUME HasReplaced(r) PROVE HasReplaced(r)'
      OBVIOUS
    <3>1. Here = [store |-> path, open |-> TRUE] /\ request[r].writer # panel.writer /\ SessionFits
      BY <2>1 DEF HasReplaced
    <3>2. RunnerFits'
      BY <2>3, <2>4, <3>1 DEF RunnerFits
    <3> QED
      BY <2>1, <2>2, <2>3, <2>4, <3>1, <3>2 DEF HasReplaced
  <2> QED
    BY <2>1, <2>2, <2>5, SwitchComesOn DEF Swaps
<1>9. ASSUME NEW r \in Requests, CloseOldWriter(r) PROVE SwitchesInOrder'
  <2>1. /\ r \in Switching /\ request[r].doing = "closing" /\ path' = path /\ collided' = collided
        /\ panel' = panel /\ sessions' = sessions /\ runners' = runners
    BY <1>9 DEF CloseOldWriter, Switching, Doing, Swaps, switchVars
  <2>2. Others(r) /\ request'[r].doing = "restoring" /\ request'[r].writer = request[r].writer
    BY <1>9, RequestMoves DEF CloseOldWriter
  <2>3. request[r].writer # panel.writer => Here' = Here
    BY <1>9, <1>f, <1>p, <2>1, PanelPieces DEF CloseOldWriter, Here, PanelRequest
  <2>4. HasReplaced(r) => HasReplaced(r)'
    BY <2>1, <2>2, <2>3 DEF HasReplaced, SessionFits, RunnerFits
  <2> QED
    BY <2>1, <2>2, <2>4, SwitchComesOn DEF Swaps
<1>10. ASSUME NEW r \in Requests, RestoreTarget(r) PROVE SwitchesInOrder'
  <2>1. /\ r \in Switching /\ request[r].doing = "restoring" /\ path' = path /\ collided' = collided
        /\ panel' = panel /\ writers' = writers /\ runners' = runners
    BY <1>10 DEF RestoreTarget, Switching, Doing, Swaps, switchVars
  <2>2. Others(r) /\ request'[r].doing = "idle"
    BY <1>10, RequestMoves DEF RestoreTarget
  <2>3. sessions'[panel.session] \in {sessions[panel.session], targetRow[path]}
    BY <1>10, <1>p, PanelPieces DEF RestoreTarget
  <2>4. HasReplaced(r) => Whole'
    <3> SUFFICES ASSUME HasReplaced(r) PROVE Whole'
      OBVIOUS
    <3>1. Here = [store |-> path, open |-> TRUE] /\ SessionFits /\ RunnerFits /\ Here' = Here
      BY <2>1 DEF HasReplaced, Here
    <3>2. ForStore(targetRow[path], path)
      BY <1>p DEF TargetsFit
    <3>3. SessionFits'
      BY <2>1, <2>3, <3>1, <3>2 DEF SessionFits, ForStore
    <3> QED
      BY <2>1, <3>1, <3>3 DEF Whole, RunnerFits
  <2> QED
    BY <2>1, <2>2, <2>4, SwitchComesOn DEF Swaps
<1> QED
  BY <1>1, <1>2, <1>3, <1>4, <1>5, <1>6, <1>7, <1>8, <1>9, <1>10 DEF PanelNext

-----------------------------------------------------------------------------
\* A request that was not overlapped keeps what it has read as long as the
\* panel stands.
LEMMA CleanStands ==
    ASSUME CleanIsSettled, path' = path, writers' = writers, panel' = panel, collided' = collided,
           NEW r \in Requests, Others(r), request[r].doing \notin Swaps, request'[r].doing \notin Swaps,
           Clean(r)' => Settled /\ ReadsInPlace(r)'
    PROVE  CleanIsSettled'
<1>1. Switching' = Switching
  BY DEF Switching, Others
<1>2. Settled' = Settled
  BY <1>1 DEF Settled
<1>3. \A q \in Requests : q # r => (Clean(q)' = Clean(q)) /\ (ReadsInPlace(q)' = ReadsInPlace(q))
  BY DEF Others, Clean, ReadsInPlace
<1> QED
  BY <1>2, <1>3 DEF CleanIsSettled

\* While a switch is under way nothing is clean.
LEMMA NothingIsClean ==
    ASSUME CleanIsSettled, NEW r \in Switching, Others(r), ~Clean(r)'
    PROVE  CleanIsSettled'
<1>1. \A q \in Requests : ~Clean(q)
  BY DEF CleanIsSettled, Settled
<1>2. \A q \in Requests : q # r => Clean(q)' = Clean(q)
  BY DEF Others, Clean
<1> QED
  BY <1>1, <1>2 DEF CleanIsSettled

\* A switch spoils what it overlaps, so what stays clean has read what is in place.
LEMMA CleanStep ==
    PanelTypeOK /\ SlotsAreTaken /\ SwitchesInOrder /\ CleanIsSettled /\ PanelNext => CleanIsSettled'
<1> SUFFICES ASSUME PanelTypeOK, SlotsAreTaken, SwitchesInOrder, CleanIsSettled, PanelNext PROVE CleanIsSettled'
  OBVIOUS
<1>f. request \in [Requests -> PanelRequest] /\ \A q \in Requests : request[q] \in PanelRequest
  BY PanelPieces
<1>1. ASSUME NEW r \in Requests, BeginDispatch(r) \/ BeginTarget(r) \/ PrepareTarget(r) \/ BeginInline(r)
      PROVE CleanIsSettled'
  <2>1. path' = path /\ writers' = writers /\ panel' = panel /\ collided' = collided
    BY <1>1 DEF BeginDispatch, BeginTarget, PrepareTarget, BeginInline, storeVars, switchVars
  <2>2. CASE BeginDispatch(r)
    <3>1. /\ Others(r) /\ request'[r].doing = "submitting" /\ request'[r].clean = Settled
          /\ request'[r].session = panel.session
      BY <2>2, RequestReads
    <3>2. request[r].doing \notin Swaps
      BY <2>2 DEF BeginDispatch, Doing, Swaps
    <3>3. Clean(r)' => Settled /\ ReadsInPlace(r)'
      BY <2>1, <3>1 DEF Clean, ReadsInPlace, Occupying
    <3> QED
      BY <2>1, <3>1, <3>2, <3>3, CleanStands DEF Swaps
  <2>3. CASE BeginTarget(r)
    <3>1. /\ Others(r) /\ request'[r].doing = "targeting" /\ request'[r].clean = Settled
          /\ request'[r].session = panel.session /\ request'[r].store = path
      BY <2>3, RequestReads
    <3>2. request[r].doing \notin Swaps
      BY <2>3 DEF BeginTarget, Doing, Swaps
    <3>3. Clean(r)' => Settled /\ ReadsInPlace(r)'
      BY <2>1, <3>1 DEF Clean, ReadsInPlace, Occupying
    <3> QED
      BY <2>1, <3>1, <3>2, <3>3, CleanStands DEF Swaps
  <2>4. CASE PrepareTarget(r)
    <3>1. /\ Others(r) /\ request'[r].doing = "preparing" /\ request'[r].clean = request[r].clean
          /\ request'[r].session = request[r].session /\ request'[r].store = request[r].store
          /\ request'[r].writer = panel.writer
      BY <2>4, RequestReads
    <3>2. request[r].doing = "targeting"
      BY <2>4 DEF PrepareTarget, Doing
    <3>3. Clean(r)' => Settled /\ ReadsInPlace(r)'
      <4> SUFFICES ASSUME Clean(r)' PROVE Settled /\ ReadsInPlace(r)'
        OBVIOUS
      <4>1. Settled /\ ReadsInPlace(r)
        BY <3>1, <3>2 DEF Clean, Reading, CleanIsSettled
      <4> QED
        BY <2>1, <3>1, <3>2, <4>1 DEF ReadsInPlace, Occupying
    <3> QED
      BY <2>1, <3>1, <3>2, <3>3, CleanStands DEF Swaps
  <2>5. CASE BeginInline(r)
    <3>1. /\ Others(r) /\ request'[r].doing = "inline" /\ request'[r].clean = Settled
          /\ request'[r].writer = panel.writer
      BY <2>5, RequestReads
    <3>2. request[r].doing \notin Swaps
      BY <2>5 DEF BeginInline, Doing, Swaps
    <3>3. Clean(r)' => Settled /\ ReadsInPlace(r)'
      BY <2>1, <3>1 DEF Clean, ReadsInPlace, Occupying
    <3> QED
      BY <2>1, <3>1, <3>2, <3>3, CleanStands DEF Swaps
  <2> QED
    BY <1>1, <2>2, <2>3, <2>4, <2>5
<1>2. ASSUME NEW r \in Requests, SetTarget(r) \/ Assemble(r) \/ EndBuild(r) PROVE CleanIsSettled'
  <2>1. path' = path /\ writers' = writers /\ panel' = panel /\ collided' = collided
    BY <1>2 DEF SetTarget, Assemble, EndBuild, storeVars, switchVars
  <2>2. Others(r) /\ request'[r].doing = "idle" /\ request[r].doing \notin Swaps
    BY <1>2, RequestMoves DEF SetTarget, Assemble, EndBuild, Doing, Swaps
  <2>3. ~Clean(r)'
    BY <2>2 DEF Clean, Reading, Occupying
  <2> QED
    BY <2>1, <2>2, <2>3, CleanStands DEF Swaps
<1>3. ASSUME NEW r \in Requests, SubmitBuild(r) PROVE CleanIsSettled'
  <2>1. path' = path /\ writers' = writers /\ panel' = panel /\ collided' = collided /\ request[r].doing = "submitting"
    BY <1>3 DEF SubmitBuild, switchVars, Doing
  <2>2. CASE runners[panel.runner].busy
    <3>1. Others(r) /\ request'[r].doing = "idle"
      BY <1>3, <2>2, RequestMoves DEF SubmitBuild
    <3>2. ~Clean(r)'
      BY <3>1 DEF Clean, Reading, Occupying
    <3> QED
      BY <2>1, <3>1, <3>2, CleanStands DEF Swaps
  <2>3. CASE ~runners[panel.runner].busy
    <3> DEFINE x == [request[r] EXCEPT !.doing = "starting", !.runner = panel.runner]
    <3>1. request' = [request EXCEPT ![r] = x]
      BY <1>3, <2>3 DEF SubmitBuild
    <3>2. x.doing = "starting" /\ x.runner = panel.runner /\ x.session = request[r].session /\ x.clean = request[r].clean
      BY <1>f DEF PanelRequest
    <3> HIDE DEF x
    <3>3. request'[r] = x /\ Others(r)
      BY <3>1, RequestMoves
    <3>4. Clean(r)' => Settled /\ ReadsInPlace(r)'
      <4> SUFFICES ASSUME Clean(r)' PROVE Settled /\ ReadsInPlace(r)'
        OBVIOUS
      <4>1. Settled /\ ReadsInPlace(r)
        BY <2>1, <3>2, <3>3 DEF Clean, Reading, CleanIsSettled
      <4> QED
        BY <2>1, <3>2, <3>3, <4>1 DEF ReadsInPlace, Occupying
    <3> QED
      BY <2>1, <3>2, <3>3, <3>4, CleanStands DEF Swaps
  <2> QED
    BY <2>2, <2>3
<1>4. ASSUME NEW r \in Requests, StartBuild(r) PROVE CleanIsSettled'
  <2> DEFINE t == sessions[request[r].session]
  <2>1. path' = path /\ writers' = writers /\ panel' = panel /\ collided' = collided /\ request[r].doing = "starting"
    BY <1>4 DEF StartBuild, switchVars, Doing
  <2>2. CASE t = NoTarget
    <3>1. Others(r) /\ request'[r].doing = "idle"
      BY <1>4, <2>2, RequestMoves DEF StartBuild
    <3>2. ~Clean(r)'
      BY <3>1 DEF Clean, Reading, Occupying
    <3> QED
      BY <2>1, <3>1, <3>2, CleanStands DEF Swaps
  <2>3. CASE t # NoTarget
    <3> DEFINE x == [request[r] EXCEPT !.doing = "building", !.target = t]
    <3>1. request' = [request EXCEPT ![r] = x]
      BY <1>4, <2>3 DEF StartBuild
    <3>2. /\ x.doing = "building" /\ x.runner = request[r].runner /\ x.session = request[r].session
          /\ x.clean = request[r].clean /\ x.target = t
      BY <1>f DEF PanelRequest
    <3> HIDE DEF x
    <3>3. request'[r] = x /\ Others(r)
      BY <3>1, RequestMoves
    <3>4. Clean(r)' => Settled /\ ReadsInPlace(r)'
      <4> SUFFICES ASSUME Clean(r)' PROVE Settled /\ ReadsInPlace(r)'
        OBVIOUS
      <4>1. Settled /\ request[r].runner = panel.runner /\ request[r].session = panel.session
        BY <2>1, <3>2, <3>3 DEF Clean, Occupying, CleanIsSettled, ReadsInPlace
      <4>2. ForStore(t, path)
        <5>1. SessionFits /\ Here.store = path
          BY <4>1 DEF SwitchesInOrder, Settled, Whole, Here
        <5> QED
          BY <4>1, <5>1 DEF SessionFits
      <4> HIDE DEF t
      <4> QED
        BY <2>1, <2>3, <3>2, <3>3, <4>1, <4>2 DEF ReadsInPlace, Occupying
    <3> QED
      BY <2>1, <3>2, <3>3, <3>4, CleanStands DEF Swaps
  <2> QED
    BY <2>2, <2>3
<1>5. ASSUME NEW r \in Requests, NEW s \in Stores, Switch(r, s) PROVE CleanIsSettled'
  <2>1. \A q \in Requests : request[q].clean => request[q].doing \notin Occupying
    <3> SUFFICES ASSUME NEW q \in Requests, request[q].clean, request[q].doing \in Occupying PROVE FALSE
      OBVIOUS
    <3>1. request[q].runner = panel.runner
      BY DEF CleanIsSettled, Clean, ReadsInPlace
    <3> QED
      BY <1>5, <3>1 DEF Switch, SlotsAreTaken
  <2>2. \A q \in Requests : ~Clean(q)'
    <3>1. request'[r].doing = "opening"
      BY <1>5, <1>f DEF Switch, BeginSwap, Idling
    <3>2. \A q \in Requests : q # r =>
             request'[q] = IF request[q].doing \in Reading THEN [request[q] EXCEPT !.clean = FALSE] ELSE request[q]
      BY <1>5, <1>f DEF Switch, BeginSwap
    <3>3. \A q \in Requests : q # r =>
             IF request[q].doing \in Reading THEN ~request'[q].clean
             ELSE request'[q] = request[q]
      BY <1>f, <3>2 DEF PanelRequest
    <3> QED
      BY <2>1, <3>1, <3>3 DEF Clean, Reading, Occupying
  <2> QED
    BY <2>2 DEF CleanIsSettled
<1>6. ASSUME NEW r \in Requests, SwitchFails(r) \/ SwapWriter(r) \/ SwapSession(r) \/ SwapRunner(r) \/ CloseOldWriter(r) \/ RestoreTarget(r)
      PROVE CleanIsSettled'
  <2>1. r \in Switching
    BY <1>6 DEF SwitchFails, SwapWriter, SwapSession, SwapRunner, CloseOldWriter, RestoreTarget, Doing, Switching, Swaps
  <2>2. \A step : Goes(r, step) => request'[r].doing = step /\ Others(r)
    BY RequestMoves
  <2>3. \E step \in {"idle", "swapping session", "swapping runner", "closing", "restoring"} :
            request'[r].doing = step /\ Others(r)
    BY <1>6, <2>2, RequestMoves DEF SwitchFails, SwapWriter, SwapSession, SwapRunner, CloseOldWriter, RestoreTarget
  <2>4. ~Clean(r)'
    BY <2>3 DEF Clean, Reading, Occupying
  <2> QED
    BY <2>1, <2>3, <2>4, NothingIsClean
<1> QED
  BY <1>1, <1>2, <1>3, <1>4, <1>5, <1>6 DEF PanelNext

\* A target and an assembly no switch overlapped are of one store.
LEMMA TargetsStep == PanelTypeOK /\ SwitchesInOrder /\ CleanIsSettled /\ TargetsFit /\ PanelNext => TargetsFit'
<1> SUFFICES ASSUME PanelTypeOK, SwitchesInOrder, CleanIsSettled, TargetsFit, PanelNext PROVE TargetsFit'
  OBVIOUS
<1>1. ASSUME NEW r \in Requests, SetTarget(r) PROVE TargetsFit'
  <2> DEFINE t == [for |-> request[r].store, clean |-> request[r].clean]
             w == writers[request[r].writer]
  <2>1. ForStore(t, w.store)
    <3> SUFFICES ASSUME request[r].clean PROVE request[r].store = w.store
      BY DEF ForStore
    <3>1. Clean(r) /\ request[r].doing = "preparing"
      BY <1>1 DEF SetTarget, Doing, Clean, Reading
    <3> QED
      BY <3>1 DEF CleanIsSettled, ReadsInPlace, Settled
  <2>2. assembles' = assembles /\ (targetRow' = targetRow \/ targetRow' = [targetRow EXCEPT ![w.store] = t])
    BY <1>1 DEF SetTarget
  <2> HIDE DEF t, w
  <2>3. \A s \in Stores : targetRow'[s] = targetRow[s] \/ (s = w.store /\ targetRow'[s] = t)
    BY <2>2 DEF PanelTypeOK
  <2> QED
    BY <2>1, <2>2, <2>3 DEF TargetsFit
<1>2. ASSUME NEW r \in Requests, Assemble(r) PROVE TargetsFit'
  <2> DEFINE w == writers[request[r].writer]
             t == sessions[panel.session]
             a == [store |-> w.store, target |-> t, clean |-> request[r].clean]
  <2>1. targetRow' = targetRow /\ (assembles' = assembles \/ assembles' = assembles \cup {a})
    BY <1>2 DEF Assemble
  <2>2. request[r].clean => ForStore(t, w.store)
    <3> SUFFICES ASSUME request[r].clean PROVE ForStore(t, w.store)
      OBVIOUS
    <3>1. Settled /\ request[r].writer = panel.writer
      BY <1>2 DEF Assemble, Doing, Clean, Reading, CleanIsSettled, ReadsInPlace
    <3> QED
      BY <3>1 DEF SwitchesInOrder, Settled, Whole, SessionFits, Here
  <2> QED
    BY <2>1, <2>2 DEF TargetsFit
<1>3. CASE UNCHANGED <<targetRow, assembles>>
  BY <1>3 DEF TargetsFit
<1> QED
  BY <1>1, <1>2, <1>3 DEF PanelNext, BeginDispatch, SubmitBuild, StartBuild, EndBuild, BeginTarget, PrepareTarget,
       BeginInline, Switch, BeginSwap, SwitchFails, SwapWriter, SwapSession, SwapRunner, CloseOldWriter, RestoreTarget

\* Every step keeps the invariant.
LEMMA PanelInvStep == PanelInv /\ [PanelNext]_panelVars => PanelInv'
<1> SUFFICES ASSUME PanelInv, [PanelNext]_panelVars PROVE PanelInv'
  OBVIOUS
<1>1. PanelTypeOK /\ PanelTypeOK'
  BY PanelTypesStep DEF PanelInv
<1>2. CASE PanelNext
  BY <1>1, <1>2, SlotsStep, SwitchesStep, CleanStep, TargetsStep DEF PanelInv
<1>3. CASE UNCHANGED panelVars
  <2>1. /\ UNCHANGED storeVars /\ UNCHANGED <<targetRow, request, assembles>>
    BY <1>3 DEF panelVars, storeVars, switchVars
  <2>2. SlotsAreTaken' /\ TargetsFit'
    BY <2>1 DEF PanelInv, SlotsAreTaken, TargetsFit, storeVars
  <2>3. Here' = Here /\ Switching' = Switching /\ (SessionFits' = SessionFits) /\ (RunnerFits' = RunnerFits)
    BY <2>1 DEF storeVars, switchVars, Here, Switching, SessionFits, RunnerFits
  <2>4. (Whole' = Whole) /\ \A r \in Requests : HasReplaced(r)' = HasReplaced(r)
    BY <2>1, <2>3 DEF Whole, HasReplaced, storeVars
  <2>5. SwitchesInOrder'
    BY <2>1, <2>3, <2>4 DEF PanelInv, SwitchesInOrder, storeVars, switchVars, Switching
  <2>6. CleanIsSettled'
    BY <2>1, <2>3 DEF PanelInv, CleanIsSettled, Clean, ReadsInPlace, Settled, storeVars, switchVars
  <2> QED
    BY <1>1, <2>2, <2>5, <2>6 DEF PanelInv
<1> QED
  BY <1>2, <1>3

\* The invariant says that the stores do not mix.
LEMMA PanelInvSuffices == PanelInv => StoresDoNotMix
<1> SUFFICES ASSUME PanelInv PROVE StoresDoNotMix
  OBVIOUS
<1>1. ASSUME NEW r \in Building
      PROVE  /\ Settled /\ ReadsInPlace(r) /\ request[r].runner = panel.runner /\ r \in Requests
             /\ request[r].doing \in Occupying
  BY DEF Building, PanelInv, CleanIsSettled, Clean, ReadsInPlace, Occupying
<1>2. Cardinality(Building) <= 1
  <2>1. \A r, q \in Building : r = q
    BY <1>1 DEF PanelInv, SlotsAreTaken
  <2>2. CASE Building = {}
    BY <2>2, FS_EmptySet
  <2>3. CASE Building # {}
    <3>1. PICK r \in Building : TRUE
      BY <2>3
    <3>2. Building = {r}
      BY <2>1, <3>1
    <3> QED
      <4>1. Cardinality({r}) = 1
        BY FS_Singleton
      <4> QED
        BY <3>2, <4>1
  <2> QED
    BY <2>2, <2>3
<1>3. ASSUME NEW r \in Building
      PROVE  /\ writers[runners[request[r].runner].writer] = [store |-> runners[request[r].runner].store, open |-> TRUE]
             /\ request[r].doing = "building" /\ request[r].target.clean
                => request[r].target.for = runners[request[r].runner].store
  <2>1. Whole /\ Here.store = path
    BY <1>1 DEF PanelInv, SwitchesInOrder, Settled, Here
  <2>2. Here \in Writers
    BY PanelPieces DEF PanelInv, Here
  <2>3. Here = [store |-> path, open |-> TRUE]
    BY <2>1, <2>2 DEF Whole, Writers
  <2>4. runners[panel.runner].store = path /\ writers[runners[panel.runner].writer] = Here
    BY <2>1 DEF Whole, RunnerFits, Here
  <2> QED
    BY <1>1, <2>3, <2>4 DEF ReadsInPlace, ForStore
<1>4. \A a \in assembles : a.clean /\ a.target.clean => a.target.for = a.store
  BY PanelAssumption DEF PanelInv, PanelTypeOK, TargetsFit, ForStore, Targets
<1> QED
  BY <1>2, <1>3, <1>4 DEF StoresDoNotMix, PanelInv

(***************************************************************************)
(* Switches that come one at a time mix no stores, for any number of them, *)
(* of stores and of request threads, however builds, targets and           *)
(* assemblies interleave with them (panel/server.py:152).                  *)
(***************************************************************************)
THEOREM SwitchesMixNothing == PanelSpec => []StoresDoNotMix
<1>1. PanelSpec => []PanelInv
  BY PanelInvInit, PanelInvStep, PTL DEF PanelSpec
<1> QED
  BY <1>1, PanelInvSuffices, PTL
=============================================================================
