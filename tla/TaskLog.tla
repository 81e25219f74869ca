------------------------------ MODULE TaskLog ------------------------------
(***************************************************************************)
(* What the event log says of tasks: the questions that the lifecycle, the *)
(* dispatch loop, the certification and the invariant monitor ask of it.   *)
(* All of them are reads of the committed log; nothing here changes it.    *)
(*                                                                         *)
(* "by" is a history field that the code does not store: <<run, try>>, the *)
(* operator's run of the task and the attempt within it that the event is  *)
(* about. No operator that models code reads it.                           *)
(***************************************************************************)
EXTENDS Naturals, Sequences, FiniteSets, SequencesExt

CONSTANTS Tasks

Outcomes == {"completed", "rejected", "aborted"}

Evidence == {"passed", "failed", "certified", "refused"}

EventTypes == {"started"} \cup Evidence \cup Outcomes

TaskEvent(type, t, by) == [type |-> type, task |-> t, by |-> by]

(* The indices (seq) of task t's events of the given types. *)
At(l, t, types) == { i \in DOMAIN l : l[i].task = t /\ l[i].type \in types }

Latest(seqs) == IF seqs = {} THEN 0 ELSE CHOOSE i \in seqs : \A j \in seqs : j <= i

(* Fault: evidence is taken from the whole log, not from this attempt.     *)
WholeLog(l, t) == 0

(* _attempt_start_seq: where the current attempt begins. *)
AttemptStart(l, t) == Latest(At(l, t, {"started"}))

HasSince(l, t, type, seq) == \E i \in At(l, t, {type}) : i > seq

HasVerifierPass(l, t) == HasSince(l, t, "passed", AttemptStart(l, t))

(* can_complete: done is earned twice, in the current attempt. *)
CanComplete(l, t) ==
  HasVerifierPass(l, t) /\ HasSince(l, t, "certified", AttemptStart(l, t))

(* proj_task_lifecycle.current_state: task_started inserts the row or sets *)
(* it back to running; a terminal updates it, if there is one.             *)
CurrentState(l, t) ==
  IF At(l, t, {"started"}) = {} THEN "none"
  ELSE LET last == l[Latest(At(l, t, {"started"} \cup Outcomes))].type
       IN  IF last = "started" THEN "running" ELSE last

TerminalSince(l, t, seq) == \E i \in At(l, t, Outcomes) : i > seq
-----------------------------------------------------------------------------
(* The invariant monitor's checks (monitor/checks.py).                     *)

(* check_done_earned: for each completed terminal, its own attempt's window *)
(* (the start that precedes it, to itself) holds both earns.               *)
UnearnedDone(l) ==
  { i \in DOMAIN l :
      /\ l[i].type = "completed"
      /\ LET lo == Latest({ j \in At(l, l[i].task, {"started"}) : j < i })
             window == { l[j].type : j \in { k \in DOMAIN l : /\ lo < k /\ k < i
                                                            /\ l[k].task = l[i].task } }
         IN  ~({"passed", "certified"} \subseteq window) }

(* Fault: one double per task is enough; the later ones are not looked for.*)
FirstDoubleOnly(l) ==
  { i \in DOMAIN l :
      /\ l[i].type \in Outcomes
      /\ Cardinality({ j \in At(l, l[i].task, Outcomes) : j < i }) = 1
      /\ Cardinality({ j \in At(l, l[i].task, {"started"}) : j < i }) <= 1 }

(* check_terminal_per_task: terminals with a terminal and no start before  *)
(* them (tiw is still set).                                                *)
DoubleTerminals(l) ==
  { i \in DOMAIN l :
      /\ l[i].type \in Outcomes
      /\ LET before == SubSeq(l, 1, i - 1)
             last == Latest(At(before, l[i].task, {"started"} \cup Outcomes))
         IN  last # 0 /\ before[last].type \in Outcomes }

(* The same walk's liveness half: a trailing start without a terminal. The *)
(* sweep leaves this half out while proj_lock has a row.                   *)
Orphans(l) == { t \in Tasks : CurrentState(l, t) = "running" }
=============================================================================
