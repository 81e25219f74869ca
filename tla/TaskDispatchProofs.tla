------------------------- MODULE TaskDispatchProofs ------------------------
(***************************************************************************)
(* What it means that a task is done: proofs about TaskDispatch, for any   *)
(* sets of tasks and sessions and any number of retries, and about the     *)
(* Verification that a task's change goes through, for any worktrees,      *)
(* changes and faults. The two machines share no variable.                 *)
(***************************************************************************)
EXTENDS TaskDispatch, Verification, SequenceFacts, FiniteSetTheorems

LEMMA LatestIsMember ==
  ASSUME NEW n \in Nat, NEW S, S \subseteq 1 .. n, S # {}
  PROVE  Latest(S) \in S
BY LargestExists DEF Latest

Entry == [type : EventTypes, task : Tasks, by : Runs \X Attempts]

(* Every step is one of these.                                             *)
LEMMA NextCases ==
  ASSUME Next
  PROVE  \E s \in Sessions :
           \/ \E t \in Tasks : Dispatch(s, t) \/ Certify(s, t)
           \/ Prepare(s) \/ Deny(s) \/ Acquire(s) \/ StartTask(s) \/ WorkDone(s) \/ OutOfScope(s)
           \/ RejectViolation(s) \/ Accept(s) \/ VerifierPasses(s)
           \/ \E self \in BOOLEAN : VerifierFails(s, self)
           \/ RewindForRetry(s) \/ (\E ok \in BOOLEAN : Review(s, ok))
           \/ Complete(s) \/ Reject(s) \/ Land(s)
           \/ \E cause \in {"error", "transient"} : Raise(s, cause)
           \/ Settle(s) \/ Recover(s) \/ Spend(s) \/ Abort(s) \/ EmitFails(s) \/ Escape(s)
           \/ CertifyEnds(s) \/ Kill(s)
  BY DEF Next, Progress

StepType == /\ step \in [Sessions -> Frame]
            /\ \A s \in Sessions : step[s].at # "idle" => step[s].task \in Tasks

(* An action replaces the frame of its session.                            *)
LEMMA FrameType ==
  ASSUME StepType, NEW s \in Sessions, NEW f \in Frame, f.at # "idle" => f.task \in Tasks,
         step' = [step EXCEPT ![s] = f]
  PROVE  StepType'
<1> HIDE DEF Frame
<1>1. step' \in [Sessions -> Frame]
  BY DEF StepType
<1>2. ASSUME NEW r \in Sessions, step'[r].at # "idle" PROVE step'[r].task \in Tasks
  <2>1. CASE r = s
    BY <2>1, <1>2 DEF StepType
  <2>2. CASE r # s
    BY <2>2, <1>2 DEF StepType
  <2> QED BY <2>1, <2>2
<1> QED BY <1>1, <1>2 DEF StepType

LEMMA EmitType ==
  ASSUME TypeOK, NEW s \in Sessions, step[s].at # "idle", NEW type \in EventTypes, Emit(s, type)
  PROVE  log' \in Seq(Entry)
BY DEF TypeOK, Emit, Entry, TaskEvent, By, Frame

(* Every variable keeps its type.                                          *)
THEOREM TypeCorrect == Spec => []TypeOK
<1> USE BoundsAssumption
<1>1. Init => TypeOK
  BY DEF Init, TypeOK, Idle, Frame, Places, Unguarded, Runs, Attempts, Free, Outcomes
<1>2. TypeOK /\ [Next]_vars => TypeOK'
  <2> SUFFICES ASSUME TypeOK, [Next]_vars PROVE TypeOK'
    OBVIOUS
  <2>0. log \in Seq(Entry)
    BY DEF TypeOK, Entry
  <2>1. ASSUME NEW s \in Sessions, NEW t \in Tasks, Dispatch(s, t) PROVE TypeOK'
    <3>1. runs + 1 \in Runs /\ Len(log) \in Nat /\ 0 \in Attempts
      BY <2>0, <2>1 DEF Dispatch, TypeOK, Runs, Attempts
    <3>2. step'[s] \in Frame /\ step'[s].task \in Tasks
      BY <2>1, <3>1 DEF Dispatch, TypeOK, Idle, Frame, Places, Unguarded, CanRaise, Outcomes, Runs
    <3> QED BY <2>1, <3>1, <3>2 DEF Dispatch, TypeOK
  <2>2. ASSUME NEW s \in Sessions, NEW t \in Tasks, Certify(s, t) PROVE TypeOK'
    <3> DEFINE by == log[Latest(At(log, t, {"started"}))].by
    <3>1. At(log, t, {"started"}) # {}
      BY <2>2 DEF Certify, CurrentState
    <3>2. At(log, t, {"started"}) \subseteq 1 .. Len(log) /\ Len(log) \in Nat
      BY <2>0 DEF At
    <3>3. Latest(At(log, t, {"started"})) \in 1 .. Len(log)
      BY <3>1, <3>2, LatestIsMember
    <3>4. log[Latest(At(log, t, {"started"}))] \in Entry
      BY <2>0, <3>3
    <3>5. by[1] \in Runs /\ by[2] \in Attempts
      BY <3>4 DEF Entry
    <3>6. runs + 1 \in Runs /\ 0 \in Attempts
      BY <2>2 DEF Certify, TypeOK, Runs, Attempts
    <3> DEFINE f == [Idle EXCEPT !.kind = "certify", !.at = "reviewing", !.task = t,
                                 !.life = "running", !.run = by[1], !.tried = by[2]]
    <3>7. f \in Frame /\ f.task \in Tasks
      <4> HIDE DEF by
      <4> QED BY <3>5, <3>6 DEF Idle, Frame, Places, Unguarded, CanRaise, Outcomes
    <3>8. step' = [step EXCEPT ![s] = f] /\ runs' = runs + 1 /\ UNCHANGED <<log, lock, killed, escaped>>
      BY <2>2 DEF Certify
    <3> HIDE DEF f
    <3>9. StepType'
      BY <3>7, <3>8, FrameType DEF TypeOK, StepType
    <3> QED BY <3>6, <3>8, <3>9 DEF TypeOK, StepType
  <2>3. ASSUME NEW s \in Sessions, Deny(s) \/ RejectViolation(s) \/ VerifierPasses(s)
        PROVE  TypeOK'
    <3>1. step[s] \in Frame /\ step[s].at # "idle" /\ step[s].task \in Tasks
      BY <2>3 DEF Deny, RejectViolation, VerifierPasses, TypeOK
    <3>2. step' = [step EXCEPT ![s] = step'[s]] /\ step'[s] \in Frame /\ step'[s].task \in Tasks
      BY SMTT(30), <2>3, <3>1 DEF Deny, RejectViolation, VerifierPasses, TypeOK, Frame, Places, Unguarded, CanRaise, Outcomes, Goto
    <3>3. StepType'
      BY <3>1, <3>2, FrameType DEF TypeOK, StepType
    <3>4. log' \in Seq(Entry)
      BY <2>3, <3>1, EmitType, <2>0 DEF Deny, RejectViolation, VerifierPasses, EventTypes, Evidence, Outcomes
    <3> QED BY <2>3, <3>3, <3>4 DEF Deny, RejectViolation, VerifierPasses, TypeOK, StepType, Entry
  <2>4. ASSUME NEW s \in Sessions, NEW self \in BOOLEAN, VerifierFails(s, self)
        PROVE  TypeOK'
    <3>1. step[s] \in Frame /\ step[s].at # "idle" /\ step[s].task \in Tasks
      BY <2>4 DEF VerifierFails, TypeOK
    <3>2. step' = [step EXCEPT ![s] = step'[s]] /\ step'[s] \in Frame /\ step'[s].task \in Tasks
      BY ZenonT(60), <2>4, <3>1 DEF VerifierFails, TypeOK, Frame, Places, Unguarded, CanRaise, Outcomes, Goto
    <3>3. StepType'
      BY <3>1, <3>2, FrameType DEF TypeOK, StepType
    <3>4. log' \in Seq(Entry)
      BY <2>4, <3>1, EmitType, <2>0 DEF VerifierFails, EventTypes, Evidence, Outcomes
    <3> QED BY <2>4, <3>3, <3>4 DEF VerifierFails, TypeOK, StepType, Entry
  <2>5. ASSUME NEW s \in Sessions, NEW ok \in BOOLEAN, Review(s, ok)
        PROVE  TypeOK'
    <3>1. step[s] \in Frame /\ step[s].at # "idle" /\ step[s].task \in Tasks
      BY <2>5 DEF Review, TypeOK
    <3>2. step' = [step EXCEPT ![s] = step'[s]] /\ step'[s] \in Frame /\ step'[s].task \in Tasks
      BY ZenonT(60), <2>5, <3>1 DEF Review, TypeOK, Frame, Places, Unguarded, CanRaise, Outcomes, Goto
    <3>3. StepType'
      BY <3>1, <3>2, FrameType DEF TypeOK, StepType
    <3>4. log' \in Seq(Entry)
      BY <2>5, <3>1, EmitType, <2>0 DEF Review, EventTypes, Evidence, Outcomes
    <3> QED BY <2>5, <3>3, <3>4 DEF Review, TypeOK, StepType, Entry
  <2>6. ASSUME NEW s \in Sessions, 
            Acquire(s) \/ WorkDone(s) \/ OutOfScope(s) \/ Accept(s) \/ RewindForRetry(s) \/ Land(s)
        PROVE  TypeOK'
    <3>1. step[s] \in Frame /\ step[s].at # "idle" /\ step[s].task \in Tasks
      BY <2>6 DEF Acquire, WorkDone, OutOfScope, Accept, RewindForRetry, Land, TypeOK
    <3>2. step' = [step EXCEPT ![s] = step'[s]] /\ step'[s] \in Frame /\ step'[s].task \in Tasks
      BY SMTT(30), <2>6, <3>1 DEF Acquire, WorkDone, OutOfScope, Accept, RewindForRetry, Land, TypeOK, Frame, Places, Unguarded, CanRaise, Outcomes, Goto
    <3>3. StepType'
      BY <3>1, <3>2, FrameType DEF TypeOK, StepType
    <3> QED BY <2>6, <3>3 DEF Acquire, WorkDone, OutOfScope, Accept, RewindForRetry, Land, TypeOK, StepType, Unlock
  <2>7. ASSUME NEW s \in Sessions, NEW cause \in {"error", "transient"}, Raise(s, cause)
        PROVE  TypeOK'
    <3>1. step[s] \in Frame /\ step[s].at # "idle" /\ step[s].task \in Tasks
      BY <2>7 DEF Raise, TypeOK, CanRaise, Sdk
    <3>2. step' = [step EXCEPT ![s] = step'[s]] /\ step'[s] \in Frame /\ step'[s].task \in Tasks
      BY ZenonT(60), <2>7, <3>1 DEF Raise, TypeOK, Frame, Places, Unguarded, CanRaise, Outcomes, Goto
    <3>3. StepType'
      BY <3>1, <3>2, FrameType DEF TypeOK, StepType
    <3> QED BY <2>7, <3>3 DEF Raise, TypeOK, StepType, Unlock
  <2>8. ASSUME NEW s \in Sessions, Complete(s) \/ Reject(s)
        PROVE  TypeOK'
    <3>1. step[s] \in Frame /\ step[s].at # "idle" /\ step[s].task \in Tasks
      BY <2>8 DEF Complete, Reject, TypeOK
    <3>2. step' = [step EXCEPT ![s] = step'[s]] /\ step'[s] \in Frame /\ step'[s].task \in Tasks
      BY SMTT(30), <2>8, <3>1 DEF Complete, Reject, TypeOK, Frame, Places, Unguarded, CanRaise, Outcomes, Goto, Terminate
    <3>3. StepType'
      BY <3>1, <3>2, FrameType DEF TypeOK, StepType
    <3>4. log' \in Seq(Entry)
      BY <2>8, <3>1, EmitType, <2>0 DEF Complete, Reject, EventTypes, Evidence, Outcomes, Terminate
    <3> QED BY <2>8, <3>3, <3>4 DEF Complete, Reject, TypeOK, StepType, Entry, Terminate
  <2>9. ASSUME NEW s \in Sessions, StartTask(s) PROVE TypeOK'
    <3>1. step[s] \in Frame /\ step[s].task \in Tasks
      BY <2>9 DEF StartTask, TypeOK
    <3>2. step' = [step EXCEPT ![s] = step'[s]] /\ step'[s] \in Frame /\ step'[s].task \in Tasks
      BY <2>9, <3>1 DEF StartTask, TypeOK, Frame, Places, Unguarded, CanRaise
    <3>3. StepType'
      BY <3>1, <3>2, FrameType DEF TypeOK, StepType
    <3>4. TaskEvent("started", step[s].task, <<step[s].run, step[s].try>>) \in Entry
      BY <3>1 DEF TaskEvent, Entry, EventTypes, Frame
    <3>5. log' \in Seq(Entry)
      BY <2>0, <2>9, <3>4 DEF StartTask
    <3> QED BY <2>9, <3>3, <3>5 DEF StartTask, TypeOK, StepType, Entry
  <2>10. ASSUME NEW s \in Sessions, Again(s), step[s].at \in {"settle", "raised"} PROVE StepType'
    <3>1. step[s] \in Frame /\ step[s].task \in Tasks /\ step[s].try \in 0 .. Retries
      BY <2>10 DEF TypeOK, Frame, Attempts
    <3>2. step[s].try + 1 \in Attempts
      BY <2>10, <3>1 DEF Again, Attempts
    <3>3. step' = [step EXCEPT ![s] = step'[s]] /\ step'[s] \in Frame /\ step'[s].task \in Tasks
      BY <2>10, <3>1, <3>2 DEF Again, TypeOK, Frame, Places, Unguarded
    <3> QED BY <3>1, <3>3, FrameType DEF TypeOK, StepType
  <2>11. ASSUME NEW s \in Sessions, NEW where \in {"spend", "abort"}, Goto(s, where),
                step[s].at \in {"settle", "raised", "spend"}
         PROVE  StepType'
    <3>1. step[s] \in Frame /\ step[s].task \in Tasks
      BY <2>11 DEF TypeOK
    <3>2. step' = [step EXCEPT ![s] = step'[s]] /\ step'[s] \in Frame /\ step'[s].task \in Tasks
      BY <2>11, <3>1 DEF Goto, TypeOK, Frame, Places, Unguarded
    <3> QED BY <3>1, <3>2, FrameType DEF TypeOK, StepType
  <2>12. ASSUME NEW s \in Sessions, End(s) PROVE StepType'
    <3>1. Idle \in Frame /\ Idle.at = "idle"
      BY DEF Idle, Frame, Places, Unguarded, Runs, Attempts
    <3> QED BY <2>12, <3>1, FrameType DEF End, TypeOK, StepType
  <2>13. ASSUME NEW s \in Sessions, Settle(s) \/ Recover(s) PROVE TypeOK'
    <3>1. step[s] \in Frame /\ step[s].task \in Tasks /\ step[s].at \in {"settle", "raised"}
      BY <2>13 DEF Settle, Recover, TypeOK
    <3>2. ASSUME step' = [step EXCEPT ![s].at = "spend", ![s].cause = "ended"] PROVE StepType'
      <4>1. step' = [step EXCEPT ![s] = step'[s]] /\ step'[s] \in Frame /\ step'[s].task \in Tasks
        BY <3>1, <3>2 DEF TypeOK, Frame, Places, Unguarded
      <4> QED BY <3>1, <4>1, FrameType DEF TypeOK, StepType
    <3>3. StepType'
      BY <2>10, <2>11, <2>13, <3>1, <3>2 DEF Settle, Recover
    <3> QED BY <2>13, <3>3 DEF Settle, Recover, TypeOK, StepType
  <2>14. ASSUME NEW s \in Sessions, CertifyEnds(s) PROVE TypeOK'
    BY <2>12, <2>14 DEF CertifyEnds, TypeOK, StepType
  <2>15. ASSUME NEW s \in Sessions, Abort(s) PROVE TypeOK'
    <3>1. log' \in Seq(Entry)
      BY <2>0, <2>15, EmitType DEF Abort, EventTypes, Outcomes
    <3>2. escaped' \subseteq Runs
      <4>1. step[s].run \in Runs
        BY DEF TypeOK, Frame
      <4> QED BY <2>15, <4>1 DEF Abort, TypeOK
    <3> QED BY <2>12, <2>15, <3>1, <3>2 DEF Abort, TypeOK, StepType, Entry
  <2>16. ASSUME NEW s \in Sessions, Kill(s) \/ Escape(s) PROVE TypeOK'
    <3>1. step[s].run \in Runs
      BY DEF TypeOK, Frame
    <3> QED BY <2>12, <2>16, <3>1 DEF Kill, Escape, TypeOK, StepType
  <2>17. CASE UNCHANGED vars
    BY <2>17 DEF vars, TypeOK
  <2>18. ASSUME NEW s \in Sessions, EmitFails(s) PROVE TypeOK'
    <3>1. step[s] \in Frame /\ step[s].task \in Tasks
      BY <2>18 DEF EmitFails, TypeOK
    <3>2. step' = [step EXCEPT ![s] = step'[s]] /\ step'[s] \in Frame /\ step'[s].task \in Tasks
      BY <2>18, <3>1 DEF EmitFails, TypeOK, Frame, Places, Outcomes
    <3>3. StepType'
      BY <3>1, <3>2, FrameType DEF TypeOK, StepType
    <3> QED BY <2>18, <3>3 DEF EmitFails, TypeOK, StepType
  <2>19. ASSUME NEW s \in Sessions, Prepare(s) PROVE TypeOK'
    <3>1. step[s] \in Frame /\ step[s].task \in Tasks /\ Len(log) \in Nat
      BY <2>0, <2>19 DEF Prepare, TypeOK
    <3>2. step' = [step EXCEPT ![s] = step'[s]] /\ step'[s] \in Frame /\ step'[s].task \in Tasks
      BY <2>19, <3>1 DEF Prepare, TypeOK, Frame, Places, CanRaise
    <3>3. StepType'
      BY <3>1, <3>2, FrameType DEF TypeOK, StepType
    <3> QED BY <2>19, <3>3 DEF Prepare, TypeOK, StepType
  <2>20. ASSUME NEW s \in Sessions, Spend(s) PROVE TypeOK'
    <3>1. StepType'
      BY <2>11, <2>12, <2>20 DEF Spend
    <3> QED BY <2>20, <3>1 DEF Spend, TypeOK, StepType
  <2> QED
    BY <2>1, <2>2, <2>3, <2>4, <2>5, <2>6, <2>7, <2>8, <2>9, <2>13, <2>14, <2>15, <2>16, <2>17,
       <2>18, <2>19, <2>20, NextCases
<1> QED BY <1>1, <1>2, PTL DEF Spec

-----------------------------------------------------------------------------
Writing == {"locked", "working"}

(* Only session s moves, and the lock follows it and nobody else.          *)
LEMMA LockMove ==
  ASSUME WriterHoldsLock, NEW s \in Sessions,
         \A r \in Sessions \ {s} : step'[r] = step[r] /\ (lock' = r <=> lock = r),
         step'[s].at \in Writing <=> lock' = s
  PROVE  WriterHoldsLock'
BY DEF WriterHoldsLock, Writing

(* Inv 1 as dispatch keeps it: the lock is held by a session exactly while *)
(* it may write, for any number of sessions, attempts and kills.           *)
THEOREM LockFollowsWriter == Spec => []WriterHoldsLock
<1> USE SessionAssumption
<1>1. Init => WriterHoldsLock
  BY DEF Init, WriterHoldsLock, Idle, Free
<1>2. TypeOK /\ WriterHoldsLock /\ [Next]_vars => WriterHoldsLock'
  <2> SUFFICES ASSUME TypeOK, WriterHoldsLock, [Next]_vars PROVE WriterHoldsLock'
    OBVIOUS
  <2>0. /\ \A s \in Sessions : step[s].at \in Writing <=> lock = s
        /\ Free \notin Sessions /\ Stranded \notin Sessions
        /\ DOMAIN step = Sessions /\ step \in [Sessions -> Frame]
    BY DEF TypeOK, WriterHoldsLock, Writing
  <2> USE DEF Writing
  <2>1. ASSUME NEW s \in Sessions, NEW t \in Tasks, Dispatch(s, t) \/ Certify(s, t)
        PROVE  WriterHoldsLock'
    <3>1. step'[s].at \notin Writing /\ step[s].at \notin Writing
      BY ZenonT(60), <2>0, <2>1 DEF Dispatch, Certify, Idle
    <3> QED BY <2>0, <2>1, <3>1, LockMove DEF Dispatch, Certify
  <2>2. ASSUME NEW s \in Sessions, Acquire(s) PROVE WriterHoldsLock'
    <3>1. step'[s].at = "locked" /\ lock = Free /\ lock' = s
      BY <2>0, <2>2 DEF Acquire, Goto, Frame
    <3>2. \A r \in Sessions \ {s} : step'[r] = step[r]
      BY <2>0, <2>2 DEF Acquire, Goto
    <3> QED BY <2>0, <3>1, <3>2, LockMove
  <2>3. ASSUME NEW s \in Sessions,
               \/ WorkDone(s) \/ OutOfScope(s)
               \/ \E cause \in {"error", "transient"} : Raise(s, cause)
        PROVE  WriterHoldsLock'
    <3>1. step'[s].at \notin Writing
      BY <2>0, <2>3 DEF WorkDone, OutOfScope, Raise, Goto, Frame
    <3>2. lock' = IF lock = s THEN Free ELSE lock
      BY <2>3 DEF WorkDone, OutOfScope, Raise, Unlock
    <3>3. \A r \in Sessions \ {s} : step'[r] = step[r]
      BY <2>0, <2>3 DEF WorkDone, OutOfScope, Raise, Goto
    <3> QED BY <2>0, <3>1, <3>2, <3>3, LockMove
  <2>4. ASSUME NEW s \in Sessions, Kill(s) PROVE WriterHoldsLock'
    <3>1. step'[s].at \notin Writing
      BY <2>0, <2>4 DEF Kill, End, Idle
    <3>2. \A r \in Sessions \ {s} : step'[r] = step[r]
      BY <2>0, <2>4 DEF Kill, End
    <3> QED BY <2>0, <2>4, <3>1, <3>2, LockMove DEF Kill
  <2>5. ASSUME NEW s \in Sessions, StartTask(s) PROVE WriterHoldsLock'
    <3>1. step[s].at \in Writing /\ step'[s].at \in Writing
      BY <2>0, <2>5 DEF StartTask, Frame
    <3> QED BY <2>0, <2>5, <3>1, LockMove DEF StartTask
  <2>6. ASSUME NEW s \in Sessions, step[s].at \notin Writing, step'[s].at \notin Writing,
               \A r \in Sessions \ {s} : step'[r] = step[r],
               lock' = lock
        PROVE  WriterHoldsLock'
    BY <2>0, <2>6, LockMove
  <2>7. ASSUME NEW s \in Sessions,
               \/ Prepare(s) \/ Deny(s) \/ RejectViolation(s) \/ Accept(s) \/ VerifierPasses(s)
               \/ \E self \in BOOLEAN : VerifierFails(s, self)
               \/ RewindForRetry(s) \/ \E ok \in BOOLEAN : Review(s, ok)
               \/ Land(s)
        PROVE  WriterHoldsLock'
    BY <2>0, <2>6, <2>7 DEF Prepare, Deny, RejectViolation, Accept, VerifierPasses, VerifierFails,
                            RewindForRetry, Review, Land, Goto, Frame
  <2>8. ASSUME NEW s \in Sessions, Complete(s) \/ Reject(s) PROVE WriterHoldsLock'
    BY <2>0, <2>6, <2>8 DEF Complete, Reject, Terminate, Frame
  <2>9. ASSUME NEW s \in Sessions,
               \/ Settle(s) \/ Recover(s) \/ Spend(s) \/ Abort(s) \/ EmitFails(s) \/ Escape(s)
               \/ CertifyEnds(s)
        PROVE  WriterHoldsLock'
    <3>1. step[s].at \notin Writing /\ lock' = lock
      BY <2>9 DEF Settle, Recover, Spend, Abort, EmitFails, Escape, CertifyEnds, Unguarded
    <3>2. step'[s].at \notin Writing
      BY <2>0, <2>9 DEF Settle, Recover, Spend, Abort, EmitFails, Escape, CertifyEnds, Again, Goto, End,
                        Idle, Frame
    <3>3. \A r \in Sessions \ {s} : step'[r] = step[r]
      BY <2>0, <2>9 DEF Settle, Recover, Spend, Abort, EmitFails, Escape, CertifyEnds, Again, Goto, End
    <3> QED BY <2>6, <3>1, <3>2, <3>3
  <2>10. CASE UNCHANGED vars
    BY <2>10 DEF vars, WriterHoldsLock
  <2> QED BY <2>1, <2>2, <2>3, <2>4, <2>5, <2>7, <2>8, <2>9, <2>10, NextCases
<1> QED BY <1>1, <1>2, TypeCorrect, PTL DEF Spec

-----------------------------------------------------------------------------
(* Inv 5. The evidence that can_complete looks forward for and the monitor *)
(* looks back for is tied to one attempt by what the log has between a     *)
(* start and the events that follow it.                                    *)

IsStart(l, i, t) == l[i].type = "started" /\ l[i].task = t

(* The latest start of t is the one of the attempt "by".                   *)
LatestStartIs(l, t, by) ==
  \E k \in DOMAIN l : /\ l[k] = TaskEvent("started", t, by)
                      /\ \A m \in DOMAIN l : IsStart(l, m, t) => m <= k

(* Evidence is about the attempt that the latest start before it opened.   *)
EvidenceFollowsStart(l) ==
  \A j \in DOMAIN l : l[j].type \in Evidence =>
    \E k \in 1 .. j - 1 : /\ l[k] = TaskEvent("started", l[j].task, l[j].by)
                          /\ \A m \in k + 1 .. j : ~IsStart(l, m, l[j].task)

(* Both earns of a completion are of its attempt, and no start of the task *)
(* lies between them and it.                                               *)
EarnedInAttempt(l) ==
  \A i \in DOMAIN l : l[i].type = "completed" =>
    \A type \in {"passed", "certified"} :
      \E j \in 1 .. i - 1 : /\ l[j] = TaskEvent(type, l[i].task, l[i].by)
                            /\ \A m \in j .. i : ~IsStart(l, m, l[i].task)

Attempting == {"working", "violation", "accepting", "verifying", "rewind", "rejecting",
               "reviewing", "completing", "landed"}

(* A step past its start is about the attempt that started last.           *)
AttemptIsLatest ==
  \A s \in Sessions : step[s].at \in Attempting => LatestStartIs(log, step[s].task, By(s))

DoneInv == EvidenceFollowsStart(log) /\ EarnedInAttempt(log) /\ AttemptIsLatest

(* What an appended entry leaves as it was.                                *)
LEMMA EntryAdded ==
  ASSUME NEW l \in Seq(Entry), NEW e \in Entry
  PROVE  /\ Append(l, e) \in Seq(Entry)
         /\ Len(l) \in Nat /\ DOMAIN l = 1 .. Len(l)
         /\ DOMAIN Append(l, e) = 1 .. Len(l) + 1
         /\ \A i \in 1 .. Len(l) : Append(l, e)[i] = l[i]
         /\ Append(l, e)[Len(l) + 1] = e
<1>1. /\ Append(l, e) \in Seq(Entry) /\ Len(l) \in Nat /\ DOMAIN l = 1 .. Len(l)
      /\ DOMAIN Append(l, e) = (DOMAIN l) \cup {Len(l) + 1}
  BY AppendGrows
<1>2. /\ \A i \in 1 .. Len(l) : Append(l, e)[i] = l[i]
      /\ Append(l, e)[Len(l) + 1] = e
  BY AppendGrows, <1>1
<1> QED BY <1>1, <1>2

(* The latest start stays the latest until a start of the task is added.   *)
LEMMA LatestStartStays ==
  ASSUME NEW l \in Seq(Entry), NEW e \in Entry, NEW t, NEW by,
         e.type # "started", LatestStartIs(l, t, by)
  PROVE  LatestStartIs(Append(l, e), t, by)
<1> DEFINE n == Len(l)
           g == Append(l, e)
<1>1. /\ n \in Nat /\ DOMAIN l = 1 .. n /\ DOMAIN g = 1 .. n + 1
      /\ \A i \in 1 .. n : g[i] = l[i]
      /\ g[n + 1] = e
  BY EntryAdded
<1>2. PICK k \in 1 .. n : /\ l[k] = TaskEvent("started", t, by)
                          /\ \A m \in 1 .. n : IsStart(l, m, t) => m <= k
  BY <1>1 DEF LatestStartIs
<1> HIDE DEF n, g
<1>3. \A m \in 1 .. n + 1 : IsStart(g, m, t) => m <= k
  BY <1>1, <1>2 DEF IsStart
<1>4. k \in 1 .. n + 1 /\ g[k] = TaskEvent("started", t, by)
  BY <1>1, <1>2
<1> QED BY <1>1, <1>3, <1>4 DEF LatestStartIs, g

(* A start is the latest one when it is added.                             *)
LEMMA LatestStartAdded ==
  ASSUME NEW l \in Seq(Entry), NEW t, NEW by, TaskEvent("started", t, by) \in Entry
  PROVE  LatestStartIs(Append(l, TaskEvent("started", t, by)), t, by)
<1> DEFINE n == Len(l)
           e == TaskEvent("started", t, by)
           g == Append(l, e)
<1>1. /\ n \in Nat /\ DOMAIN g = 1 .. n + 1 /\ g[n + 1] = e
  BY EntryAdded
<1> HIDE DEF n, g
<1>2. n + 1 \in DOMAIN g /\ \A m \in DOMAIN g : m <= n + 1
  BY <1>1
<1> QED BY <1>1, <1>2 DEF LatestStartIs, g

(* The largest of a set of positions, as the code's MAX(seq) finds it.     *)
LEMMA LatestIsLargest ==
  ASSUME NEW n \in Nat, NEW S, S \subseteq 1 .. n, NEW k \in S, \A m \in S : m <= k
  PROVE  Latest(S) = k
<1>1. Latest(S) \in S /\ \A j \in S : j <= Latest(S)
  BY DEF Latest
<1> DEFINE x == Latest(S)
<1>2. x \in S /\ k <= x /\ x <= k
  BY <1>1
<1> HIDE DEF x
<1>3. x \in Nat /\ k \in Nat
  BY <1>2
<1>4. x = k
  BY <1>2, <1>3
<1> QED BY <1>4 DEF x

(* So _attempt_start_seq is where that attempt began.                      *)
LEMMA AttemptStartIs ==
  ASSUME NEW l \in Seq(Entry), NEW t, NEW by, LatestStartIs(l, t, by)
  PROVE  /\ AttemptStart(l, t) \in DOMAIN l
         /\ l[AttemptStart(l, t)] = TaskEvent("started", t, by)
         /\ \A m \in DOMAIN l : IsStart(l, m, t) => m <= AttemptStart(l, t)
<1>1. Len(l) \in Nat /\ DOMAIN l = 1 .. Len(l)
  BY Positions
<1>2. PICK k \in DOMAIN l : /\ l[k] = TaskEvent("started", t, by)
                            /\ \A m \in DOMAIN l : IsStart(l, m, t) => m <= k
  BY DEF LatestStartIs
<1>3. /\ At(l, t, {"started"}) \subseteq 1 .. Len(l)
      /\ k \in At(l, t, {"started"})
      /\ \A m \in At(l, t, {"started"}) : m <= k
  BY <1>1, <1>2 DEF At, IsStart, TaskEvent
<1>4. AttemptStart(l, t) = k
  BY <1>1, <1>3, LatestIsLargest DEF AttemptStart
<1> QED BY <1>2, <1>4

LEMMA EvidenceAdded ==
  ASSUME NEW l \in Seq(Entry), NEW e \in Entry, EvidenceFollowsStart(l),
         e.type \in Evidence => LatestStartIs(l, e.task, e.by)
  PROVE  EvidenceFollowsStart(Append(l, e))
<1> DEFINE n == Len(l)
           g == Append(l, e)
<1>1. /\ n \in Nat /\ DOMAIN l = 1 .. n /\ DOMAIN g = 1 .. n + 1
      /\ \A i \in 1 .. n : g[i] = l[i]
      /\ g[n + 1] = e
  BY EntryAdded
<1> HIDE DEF n, g
<1> SUFFICES ASSUME NEW j \in 1 .. n + 1, g[j].type \in Evidence
             PROVE  \E k \in 1 .. j - 1 : /\ g[k] = TaskEvent("started", g[j].task, g[j].by)
                                          /\ \A m \in k + 1 .. j : ~IsStart(g, m, g[j].task)
  BY <1>1 DEF EvidenceFollowsStart, g
<1>2. CASE j \in 1 .. n
  <2>1. g[j] = l[j] /\ j \in DOMAIN l
    BY <1>1, <1>2
  <2>2. PICK k \in 1 .. j - 1 : /\ l[k] = TaskEvent("started", l[j].task, l[j].by)
                                /\ \A m \in k + 1 .. j : ~IsStart(l, m, l[j].task)
    BY <2>1 DEF EvidenceFollowsStart
  <2>3. k \in 1 .. n /\ \A m \in k + 1 .. j : m \in 1 .. n
    BY <1>1, <1>2
  <2>4. g[k] = TaskEvent("started", g[j].task, g[j].by)
    BY <1>1, <2>1, <2>2, <2>3
  <2>5. \A m \in k + 1 .. j : ~IsStart(g, m, g[j].task)
    BY <1>1, <2>1, <2>2, <2>3 DEF IsStart
  <2> QED BY <2>4, <2>5
<1>3. CASE j = n + 1
  <2>1. g[j] = e /\ e.type \in Evidence
    BY <1>1, <1>3
  <2>2. PICK k \in 1 .. n : /\ l[k] = TaskEvent("started", e.task, e.by)
                            /\ \A m \in 1 .. n : IsStart(l, m, e.task) => m <= k
    BY <1>1, <2>1 DEF LatestStartIs
  <2>3. k \in 1 .. j - 1 /\ g[k] = TaskEvent("started", g[j].task, g[j].by)
    BY <1>1, <1>3, <2>1, <2>2
  <2>4. ASSUME NEW m \in k + 1 .. j PROVE ~IsStart(g, m, g[j].task)
    <3>1. CASE m = n + 1
      BY <1>1, <1>3, <2>1, <3>1 DEF IsStart, Evidence
    <3>2. CASE m # n + 1
      <4>1. m \in 1 .. n /\ ~(m <= k)
        BY <1>1, <1>3, <2>2, <3>2
      <4> QED BY <1>1, <2>1, <2>2, <4>1 DEF IsStart
    <3> QED BY <3>1, <3>2
  <2> QED BY <2>3, <2>4
<1> QED BY <1>1, <1>2, <1>3

(* Where can_complete finds an earn, it is one of the attempt.             *)
LEMMA EarnIsTheAttempts ==
  ASSUME NEW l \in Seq(Entry), NEW t, NEW by, NEW type \in {"passed", "certified"},
         EvidenceFollowsStart(l), LatestStartIs(l, t, by),
         HasSince(l, t, type, AttemptStart(l, t))
  PROVE  \E j \in DOMAIN l : /\ l[j] = TaskEvent(type, t, by)
                             /\ \A m \in DOMAIN l : m >= j => ~IsStart(l, m, t)
<1> DEFINE a == AttemptStart(l, t)
<1>1. Len(l) \in Nat /\ DOMAIN l = 1 .. Len(l) /\ \A i \in DOMAIN l : l[i] \in Entry
  BY Positions
<1>2. /\ a \in DOMAIN l /\ l[a] = TaskEvent("started", t, by)
      /\ \A m \in DOMAIN l : IsStart(l, m, t) => m <= a
  BY AttemptStartIs
<1>3. PICK j \in DOMAIN l : l[j].task = t /\ l[j].type = type /\ j > a
  BY DEF HasSince, At
<1> HIDE DEF a
<1>4. PICK k \in 1 .. j - 1 : /\ l[k] = TaskEvent("started", l[j].task, l[j].by)
                              /\ \A m \in k + 1 .. j : ~IsStart(l, m, l[j].task)
  BY <1>3 DEF EvidenceFollowsStart, Evidence
<1>5. k \in DOMAIN l /\ IsStart(l, k, t) /\ IsStart(l, a, t)
  BY <1>1, <1>2, <1>3, <1>4 DEF IsStart, TaskEvent
<1>6. k = a
  <2>1. k \in Nat /\ a \in Nat /\ j \in Nat /\ k <= a
    BY <1>1, <1>2, <1>5
  <2>2. ~(a \in k + 1 .. j)
    BY <1>3, <1>4, <1>5
  <2> QED BY <1>3, <2>1, <2>2
<1>7. l[j].by = by
  BY <1>2, <1>4, <1>6 DEF TaskEvent
<1>8. l[j] = TaskEvent(type, t, by)
  BY <1>1, <1>3, <1>7 DEF Entry, TaskEvent
<1>9. ASSUME NEW m \in DOMAIN l, m >= j PROVE ~IsStart(l, m, t)
  <2>1. m \in Nat /\ a \in Nat /\ j \in Nat /\ ~(m <= a)
    BY <1>1, <1>2, <1>3, <1>9
  <2> QED BY <1>2, <2>1
<1> QED BY <1>3, <1>8, <1>9

LEMMA CompletionAdded ==
  ASSUME NEW l \in Seq(Entry), NEW e \in Entry, EarnedInAttempt(l), EvidenceFollowsStart(l),
         e.type = "completed" => LatestStartIs(l, e.task, e.by) /\ CanComplete(l, e.task)
  PROVE  EarnedInAttempt(Append(l, e))
<1> DEFINE n == Len(l)
           g == Append(l, e)
<1>1. /\ n \in Nat /\ DOMAIN l = 1 .. n /\ DOMAIN g = 1 .. n + 1
      /\ \A i \in 1 .. n : g[i] = l[i]
      /\ g[n + 1] = e
  BY EntryAdded
<1> HIDE DEF n, g
<1> SUFFICES ASSUME NEW i \in 1 .. n + 1, g[i].type = "completed",
                    NEW type \in {"passed", "certified"}
             PROVE  \E j \in 1 .. i - 1 : /\ g[j] = TaskEvent(type, g[i].task, g[i].by)
                                          /\ \A m \in j .. i : ~IsStart(g, m, g[i].task)
  BY <1>1 DEF EarnedInAttempt, g
<1>2. CASE i \in 1 .. n
  <2>1. g[i] = l[i] /\ i \in DOMAIN l
    BY <1>1, <1>2
  <2>2. PICK j \in 1 .. i - 1 : /\ l[j] = TaskEvent(type, l[i].task, l[i].by)
                                /\ \A m \in j .. i : ~IsStart(l, m, l[i].task)
    BY <2>1 DEF EarnedInAttempt
  <2>3. j \in 1 .. n /\ \A m \in j .. i : m \in 1 .. n
    BY <1>1, <1>2
  <2>4. g[j] = TaskEvent(type, g[i].task, g[i].by)
    BY <1>1, <2>1, <2>2, <2>3
  <2>5. \A m \in j .. i : ~IsStart(g, m, g[i].task)
    BY <1>1, <2>1, <2>2, <2>3 DEF IsStart
  <2> QED BY <2>4, <2>5
<1>3. CASE i = n + 1
  <2>1. g[i] = e /\ e.type = "completed"
    BY <1>1, <1>3
  <2>2. HasSince(l, e.task, type, AttemptStart(l, e.task))
    BY <2>1 DEF CanComplete, HasVerifierPass
  <2>3. PICK j \in DOMAIN l : /\ l[j] = TaskEvent(type, e.task, e.by)
                              /\ \A m \in DOMAIN l : m >= j => ~IsStart(l, m, e.task)
    BY <2>1, <2>2, EarnIsTheAttempts
  <2>4. j \in 1 .. i - 1 /\ g[j] = TaskEvent(type, g[i].task, g[i].by)
    BY <1>1, <1>3, <2>1, <2>3
  <2>5. ASSUME NEW m \in j .. i PROVE ~IsStart(g, m, g[i].task)
    <3>1. CASE m = n + 1
      BY <1>1, <2>1, <3>1 DEF IsStart
    <3>2. CASE m # n + 1
      <4>1. m \in DOMAIN l /\ m >= j /\ g[m] = l[m]
        BY <1>1, <1>3, <2>3, <3>2
      <4> QED BY <2>1, <2>3, <4>1 DEF IsStart
    <3> QED BY <3>1, <3>2
  <2> QED BY <2>4, <2>5
<1> QED BY <1>1, <1>2, <1>3

(* An earn inside the completion's own attempt is inside the window that   *)
(* the monitor looks at.                                                   *)
LEMMA EarnedIsSeen ==
  ASSUME NEW l \in Seq(Entry), EarnedInAttempt(l)
  PROVE  UnearnedDone(l) = {}
<1>1. Len(l) \in Nat /\ DOMAIN l = 1 .. Len(l)
  BY Positions
<1> SUFFICES ASSUME NEW i \in DOMAIN l, l[i].type = "completed"
             PROVE  LET lo == Latest({ j \in At(l, l[i].task, {"started"}) : j < i })
                        window == { l[j].type : j \in { k \in DOMAIN l : /\ lo < k /\ k < i
                                                                         /\ l[k].task = l[i].task } }
                    IN  {"passed", "certified"} \subseteq window
  BY DEF UnearnedDone
<1> DEFINE starts == { j \in At(l, l[i].task, {"started"}) : j < i }
           lo == Latest(starts)
           window == { l[j].type : j \in { k \in DOMAIN l : /\ lo < k /\ k < i
                                                            /\ l[k].task = l[i].task } }
<1>2. starts \subseteq 1 .. Len(l)
  BY <1>1 DEF At
<1>3. lo = 0 \/ lo \in starts
  <2>1. CASE starts = {}
    BY <2>1 DEF Latest
  <2>2. CASE starts # {}
    BY <1>1, <1>2, <2>2, LatestIsMember
  <2> QED BY <2>1, <2>2
<1>4. lo \in Nat
  BY <1>2, <1>3
<1>5. lo = 0 \/ (lo < i /\ IsStart(l, lo, l[i].task))
  BY <1>3 DEF At, IsStart
<1> HIDE DEF starts, lo
<1>6. ASSUME NEW type \in {"passed", "certified"} PROVE type \in window
  <2>1. PICK j \in 1 .. i - 1 : /\ l[j] = TaskEvent(type, l[i].task, l[i].by)
                                /\ \A m \in j .. i : ~IsStart(l, m, l[i].task)
    BY <1>6 DEF EarnedInAttempt
  <2>2. i \in Nat /\ j \in DOMAIN l /\ j < i /\ 0 < j
    BY <1>1
  <2>3. lo < j
    <3>1. CASE lo = 0
      BY <2>2, <3>1
    <3>2. CASE lo # 0
      <4>1. lo < i /\ ~(lo \in j .. i)
        BY <1>5, <2>1, <3>2
      <4> QED BY <1>4, <2>2, <4>1
    <3> QED BY <3>1, <3>2
  <2>4. l[j].type = type /\ l[j].task = l[i].task
    BY <2>1 DEF TaskEvent
  <2> QED BY <2>2, <2>3, <2>4
<1> QED BY <1>6 DEF lo, starts

(* Most steps: the attempt is the one it was, and the entry that the step  *)
(* adds, if it adds one, is about it.                                      *)
LEMMA AttemptGoesOn ==
  ASSUME TypeOK, DoneInv, NEW s \in Sessions, \A r \in Sessions : r = s,
         step'[s].at \in Attempting =>
           /\ step[s].at \in Attempting /\ step'[s].task = step[s].task
           /\ step'[s].run = step[s].run /\ step'[s].tried = step[s].tried,
         \/ log' = log
         \/ \E type \in EventTypes \ {"started"} :
              /\ step[s].at # "idle"
              /\ Emit(s, type)
              /\ type \in Evidence \cup {"completed"} => step[s].at \in Attempting
              /\ type = "completed" => CanComplete(log, step[s].task)
  PROVE  DoneInv'
<1>1. log \in Seq(Entry)
  BY DEF TypeOK, Entry
<1>2. step'[s].at \in Attempting => By(s)' = By(s) /\ LatestStartIs(log, step'[s].task, By(s)')
  BY DEF By, DoneInv, AttemptIsLatest
<1>3. CASE log' = log
  BY <1>2, <1>3 DEF DoneInv, AttemptIsLatest
<1>4. ASSUME NEW type \in EventTypes \ {"started"},
             step[s].at # "idle",
             Emit(s, type),
             type \in Evidence \cup {"completed"} => step[s].at \in Attempting,
             type = "completed" => CanComplete(log, step[s].task)
      PROVE  DoneInv'
  <2> DEFINE e == TaskEvent(type, step[s].task, By(s))
  <2>1. log' = Append(log, e)
    BY <1>4 DEF Emit
  <2>2. e.type = type /\ e.task = step[s].task /\ e.by = By(s)
    BY DEF TaskEvent
  <2>3. e \in Entry
    BY <1>4 DEF TypeOK, Entry, TaskEvent, By, Frame
  <2> HIDE DEF e
  <2>4. type \in Evidence \cup {"completed"} => LatestStartIs(log, e.task, e.by)
    BY <1>4, <2>2 DEF DoneInv, AttemptIsLatest
  <2>5. EvidenceFollowsStart(log) /\ EarnedInAttempt(log)
    BY DEF DoneInv
  <2>6. EvidenceFollowsStart(log')
    BY <1>1, <2>1, <2>2, <2>3, <2>4, <2>5, EvidenceAdded
  <2>7. EarnedInAttempt(log')
    BY <1>1, <1>4, <2>1, <2>2, <2>3, <2>4, <2>5, CompletionAdded
  <2>8. step'[s].at \in Attempting => LatestStartIs(log', step'[s].task, By(s)')
    BY <1>1, <1>2, <1>4, <2>1, <2>2, <2>3, LatestStartStays
  <2> QED BY <2>6, <2>7, <2>8 DEF DoneInv, AttemptIsLatest
<1> QED BY <1>3, <1>4

(* Inv 5, while one console works on the store: whatever raises, is        *)
(* retried, killed or certified later, a completion rests on a verifier    *)
(* pass and a certification of the very attempt that it completes, and the *)
(* monitor, which looks back from the terminal, agrees.                    *)
THEOREM DoneIsEarnedInOneSession ==
  ASSUME \A r, s \in Sessions : r = s
  PROVE  Spec => []DoneIsEarned
<1>1. Init => DoneInv
  <2>1. ASSUME Init PROVE DoneInv
    <3>1. DOMAIN log = {}
      BY <2>1 DEF Init
    <3>2. \A s \in Sessions : step[s].at \notin Attempting
      BY <2>1 DEF Init, Idle, Attempting
    <3> QED BY <3>1, <3>2 DEF DoneInv, EvidenceFollowsStart, EarnedInAttempt, AttemptIsLatest
  <2> QED BY <2>1
<1>2. TypeOK /\ TypeOK' /\ DoneInv /\ [Next]_vars => DoneInv'
  <2> SUFFICES ASSUME TypeOK, TypeOK', DoneInv, [Next]_vars PROVE DoneInv'
    OBVIOUS
  <2>0. step \in [Sessions -> Frame] /\ log \in Seq(Entry) /\ DOMAIN step = Sessions
    BY DEF TypeOK, Entry
  <2>1. ASSUME NEW s \in Sessions,
               \/ \E t \in Tasks : Dispatch(s, t)
               \/ Acquire(s) \/ WorkDone(s) \/ OutOfScope(s) \/ Accept(s) \/ RewindForRetry(s)
               \/ Land(s) \/ (\E cause \in {"error", "transient"} : Raise(s, cause))
               \/ Prepare(s) \/ Settle(s) \/ Recover(s) \/ Spend(s) \/ CertifyEnds(s) \/ Kill(s)
               \/ EmitFails(s) \/ Escape(s)
        PROVE  DoneInv'
    <3>1. log' = log
      BY <2>1 DEF Dispatch, Acquire, WorkDone, OutOfScope, Accept, RewindForRetry, Land, Raise,
                  Prepare, Settle, Recover, Spend, CertifyEnds, Kill, EmitFails, Escape
    <3>2. step'[s].at \in Attempting =>
            /\ step[s].at \in Attempting /\ step'[s].task = step[s].task
            /\ step'[s].run = step[s].run /\ step'[s].tried = step[s].tried
      <4>1. CASE \E t \in Tasks : Dispatch(s, t)
        <5>1. step'[s].at = "clean"
          BY <2>0, <4>1 DEF Dispatch, Idle
        <5> QED BY <5>1 DEF Attempting
      <4>6. CASE CertifyEnds(s) \/ Kill(s) \/ Escape(s)
        BY <2>0, <4>6 DEF CertifyEnds, Kill, Escape, End, Idle, Attempting
      <4>7. CASE Acquire(s)
        BY <2>0, <4>7 DEF Acquire, Goto, Frame, Attempting
      <4>3. CASE \E cause \in {"error", "transient"} : Raise(s, cause)
        BY <2>0, <4>3 DEF Raise, Frame, Attempting
      <4>4. CASE EmitFails(s)
        BY <2>0, <4>4 DEF EmitFails, End, Idle, Frame, Attempting
      <4>5. CASE Settle(s) \/ Recover(s) \/ Spend(s) \/ Prepare(s)
        <5>1. step'[s].at \in {"clean", "spend", "abort", "idle", "admission"}
          BY <2>0, <4>5 DEF Settle, Recover, Spend, Prepare, Again, Goto, End, Idle, Frame
        <5> QED BY <5>1 DEF Attempting
      <4>2. CASE WorkDone(s) \/ OutOfScope(s) \/ Accept(s) \/ RewindForRetry(s) \/ Land(s)
        BY <2>0, <4>2 DEF WorkDone, OutOfScope, Accept, RewindForRetry, Land, Goto, Frame, Attempting
      <4> QED BY <2>1, <4>1, <4>2, <4>3, <4>4, <4>5, <4>6, <4>7
    <3> QED BY <3>1, <3>2, AttemptGoesOn
  <2>2. ASSUME NEW s \in Sessions, NEW type \in EventTypes \ {"started"}, Emit(s, type),
               step[s].at # "idle",
               type \in Evidence \cup {"completed"} => step[s].at \in Attempting,
               type = "completed" => CanComplete(log, step[s].task),
               step'[s].at \in Attempting =>
                 /\ step[s].at \in Attempting /\ step'[s].task = step[s].task
                 /\ step'[s].run = step[s].run /\ step'[s].tried = step[s].tried
        PROVE  DoneInv'
    BY <2>2, AttemptGoesOn
  <2>3. ASSUME NEW s \in Sessions, Deny(s) \/ RejectViolation(s) \/ VerifierPasses(s)
        PROVE  DoneInv'
    BY <2>0, <2>2, <2>3 DEF Deny, RejectViolation, VerifierPasses, Goto, Frame, Attempting,
                            EventTypes, Evidence, Outcomes
  <2>4. ASSUME NEW s \in Sessions, NEW self \in BOOLEAN, VerifierFails(s, self)
        PROVE  DoneInv'
    BY <2>0, <2>2, <2>4 DEF VerifierFails, Goto, Frame, Attempting, EventTypes, Evidence, Outcomes
  <2>5. ASSUME NEW s \in Sessions, NEW ok \in BOOLEAN, Review(s, ok)
        PROVE  DoneInv'
    BY <2>0, <2>2, <2>5 DEF Review, Goto, Frame, Attempting, EventTypes, Evidence, Outcomes
  <2>6. ASSUME NEW s \in Sessions, Complete(s) \/ Reject(s)
        PROVE  DoneInv'
    <3>1. step[s].at \in Attempting
      BY <2>6 DEF Complete, Reject, Attempting
    <3>2. step'[s].task = step[s].task /\ step'[s].run = step[s].run /\ step'[s].tried = step[s].tried
      BY <2>0, <2>6 DEF Complete, Reject, Terminate, Frame
    <3>3. CASE log' = log
      BY <3>1, <3>2, <3>3, AttemptGoesOn
    <3>4. CASE log' # log
      <4>1. \/ Emit(s, "completed") /\ CanComplete(log, step[s].task)
            \/ Emit(s, "rejected")
        BY <2>6, <3>4 DEF Complete, Reject, Terminate
      <4>2. step[s].at # "idle" /\ {"completed", "rejected"} \subseteq EventTypes \ {"started"}
        BY <3>1 DEF Attempting, EventTypes, Evidence, Outcomes
      <4>3. CASE Emit(s, "completed") /\ CanComplete(log, step[s].task)
        BY <2>2, <3>1, <3>2, <4>2, <4>3
      <4>4. CASE Emit(s, "rejected")
        BY <2>2, <3>1, <3>2, <4>2, <4>4
      <4> QED BY <4>1, <4>3, <4>4
    <3> QED BY <3>3, <3>4
  <2>7. ASSUME NEW s \in Sessions, Abort(s)
        PROVE  DoneInv'
    <3>1. step'[s].at \notin Attempting /\ step[s].at # "idle"
      BY <2>0, <2>7 DEF Abort, End, Idle, Attempting
    <3>2. CASE log' = log
      BY <3>1, <3>2, AttemptGoesOn
    <3>3. CASE Emit(s, "aborted")
      BY <2>2, <3>1, <3>3 DEF EventTypes, Evidence, Outcomes
    <3> QED BY <2>7, <3>2, <3>3 DEF Abort
  <2>8. ASSUME NEW s \in Sessions, StartTask(s)
        PROVE  DoneInv'
    <3> DEFINE by == <<step[s].run, step[s].try>>
               e == TaskEvent("started", step[s].task, by)
    <3>1. log' = Append(log, e)
      BY <2>8 DEF StartTask
    <3>2. e \in Entry /\ e.type = "started"
      BY <2>0, <2>8 DEF StartTask, TypeOK, TaskEvent, Entry, EventTypes, Frame
    <3>3. step'[s].task = step[s].task /\ By(s)' = by
      BY <2>0, <2>8 DEF StartTask, By, Frame
    <3>4. LatestStartIs(log', step'[s].task, By(s)')
      BY <2>0, <3>1, <3>2, <3>3, LatestStartAdded
    <3> HIDE DEF e, by
    <3>5. EvidenceFollowsStart(log) /\ EarnedInAttempt(log)
      BY DEF DoneInv
    <3>6. EvidenceFollowsStart(log')
      BY <2>0, <3>1, <3>2, <3>5, EvidenceAdded DEF Evidence
    <3>7. EarnedInAttempt(log')
      BY <2>0, <3>1, <3>2, <3>5, CompletionAdded
    <3>8. \A r \in Sessions : r = s
      OBVIOUS
    <3> QED BY <3>4, <3>6, <3>7, <3>8 DEF DoneInv, AttemptIsLatest
  <2>9. ASSUME NEW s \in Sessions, NEW t \in Tasks, Certify(s, t)
        PROVE  DoneInv'
    <3> DEFINE k == AttemptStart(log, t)
    <3>1. log' = log /\ step'[s].task = t /\ By(s)' = <<log[k].by[1], log[k].by[2]>>
      BY <2>0, <2>9 DEF Certify, By, Idle, AttemptStart
    <3>2. Len(log) \in Nat /\ DOMAIN log = 1 .. Len(log) /\ \A i \in DOMAIN log : log[i] \in Entry
      BY <2>0, Positions
    <3>3. At(log, t, {"started"}) # {} /\ At(log, t, {"started"}) \subseteq 1 .. Len(log)
      BY <2>9, <3>2 DEF Certify, CurrentState, At
    <3>4. k \in At(log, t, {"started"})
      BY <3>2, <3>3, LatestIsMember DEF AttemptStart
    <3>5. \A m \in At(log, t, {"started"}) : m <= k
      <4>1. \E m \in At(log, t, {"started"}) : \A j \in At(log, t, {"started"}) : j <= m
        BY <3>2, <3>3, LargestExists
      <4> QED BY <3>3, <4>1 DEF AttemptStart, Latest
    <3> HIDE DEF k
    <3>6. log[k].by = <<log[k].by[1], log[k].by[2]>> /\ k \in DOMAIN log
      BY <3>2, <3>4 DEF At, Entry
    <3>7. log[k] = TaskEvent("started", t, By(s)')
      BY <3>1, <3>2, <3>4, <3>6 DEF At, Entry, TaskEvent
    <3>8. LatestStartIs(log', step'[s].task, By(s)')
      BY <3>1, <3>5, <3>6, <3>7 DEF LatestStartIs, At, IsStart
    <3>9. \A r \in Sessions : r = s
      OBVIOUS
    <3> QED BY <3>1, <3>8, <3>9 DEF DoneInv, AttemptIsLatest
  <2>10. CASE UNCHANGED vars
    BY <2>10 DEF vars, DoneInv, AttemptIsLatest, By
  <2> QED BY <2>1, <2>3, <2>4, <2>5, <2>6, <2>7, <2>8, <2>9, <2>10, NextCases
<1>3. TypeOK /\ DoneInv => DoneIsEarned
  <2> SUFFICES ASSUME TypeOK, DoneInv PROVE DoneIsEarned
    OBVIOUS
  <2>1. log \in Seq(Entry) /\ EarnedInAttempt(log)
    BY DEF TypeOK, Entry, DoneInv
  <2>2. EarnedBySameWork
    BY <2>1 DEF EarnedInAttempt, EarnedBySameWork
  <2>3. MonitorSeesEarned
    BY <2>1, EarnedIsSeen DEF MonitorSeesEarned
  <2> QED BY <2>2, <2>3 DEF DoneIsEarned
<1> QED BY <1>1, <1>2, <1>3, TypeCorrect, PTL DEF Spec

-----------------------------------------------------------------------------
(* Inv 10. A run is one piece of work on one task: its events carry its    *)
(* number, and whatever it starts it must end.                             *)

RunOf(l, i) == l[i].by[1]

HasEnded(l, r) == \E i \in DOMAIN l : l[i].type \in Outcomes /\ RunOf(l, i) = r

(* A run has one task, at most one terminal, and no start after it.        *)
RunsAreOrderly(l) ==
  \A i, j \in DOMAIN l :
    RunOf(l, i) = RunOf(l, j) =>
      /\ l[i].task = l[j].task
      /\ l[i].type \in Outcomes /\ l[j].type \in Outcomes => i = j
      /\ l[i].type \in Outcomes /\ l[j].type = "started" => j < i

RunsAreNumbered(l) == \A i \in DOMAIN l : RunOf(l, i) <= runs

(* A step whose run has ended can only leave: dispatch returned and the    *)
(* loop finds the terminal, or something raised past it and the lifecycle  *)
(* refuses to abort.                                                       *)
LeadsOut(l, f) ==
  /\ HasEnded(l, f.run) =>
       \/ /\ f.at \in {"settle", "landed"}
          /\ f.kind = "dispatch" => TerminalSince(l, f.task, f.pre)
       \/ f.at = "spend" /\ f.cause = "ended"
       \/ f.at \in {"raised", "spend", "abort"} /\ f.life \in Outcomes /\ f.cause # "transient"
  /\ f.life \in Outcomes => HasEnded(l, f.run) \/ f.cause = "fault"
  /\ f.at = "landed" => f.life \in Outcomes
  /\ f.cause = "fault" => f.at \in {"raised", "spend", "abort"}
  /\ f.cause = "ended" => f.at = "spend" /\ HasEnded(l, f.run)

(* What the log has of the step's run is about the step's task; what it    *)
(* has since pre_seq is of the run.                                        *)
OwnsItsRun(l, f) ==
  /\ f.run <= runs
  /\ \A i \in DOMAIN l : RunOf(l, i) = f.run => l[i].task = f.task
  /\ f.kind = "dispatch" /\ f.at # "clean" =>
       f.pre <= Len(l) /\ \A i \in DOMAIN l : i > f.pre => RunOf(l, i) = f.run

Excused == killed \cup escaped

(* Only a run that was killed or escaped is left to a certification.       *)
FrameFits(l, f) ==
  /\ f.at # "idle" => LeadsOut(l, f) /\ OwnsItsRun(l, f)
  /\ f.kind = "certify" => f.run \in Excused

(* Nothing that was started is forgotten.                                  *)
StartsAreAccounted(l) ==
  \A i \in DOMAIN l :
    l[i].type = "started" =>
      \/ \E s \in Sessions : step[s].at # "idle" /\ step[s].run = RunOf(l, i)
      \/ RunOf(l, i) \in Excused
      \/ HasEnded(l, RunOf(l, i))

EndInv ==
  /\ RunsAreOrderly(log) /\ RunsAreNumbered(log) /\ StartsAreAccounted(log)
  /\ \A s \in Sessions : FrameFits(log, step[s])

(* A run that has ended has ended for good, and an entry ends no other run.*)
LEMMA EndsAdded ==
  ASSUME NEW l \in Seq(Entry), NEW e \in Entry, NEW r
  PROVE  HasEnded(Append(l, e), r) <=> HasEnded(l, r) \/ (e.type \in Outcomes /\ e.by[1] = r)
<1> DEFINE n == Len(l)
           g == Append(l, e)
<1>1. /\ n \in Nat /\ DOMAIN l = 1 .. n /\ DOMAIN g = 1 .. n + 1
      /\ \A i \in 1 .. n : g[i] = l[i]
      /\ g[n + 1] = e
  BY EntryAdded
<1> HIDE DEF n, g
<1>2. 1 .. n + 1 = (1 .. n) \cup {n + 1}
  BY <1>1
<1> QED BY <1>1, <1>2 DEF HasEnded, RunOf, g

(* The log stays orderly when a run that has not ended says something.     *)
LEMMA RunsStayOrderly ==
  ASSUME NEW l \in Seq(Entry), NEW e \in Entry, RunsAreOrderly(l),
         \A i \in DOMAIN l : RunOf(l, i) = e.by[1] => l[i].task = e.task,
         e.type \in Outcomes \cup {"started"} => ~HasEnded(l, e.by[1])
  PROVE  RunsAreOrderly(Append(l, e))
<1> DEFINE n == Len(l)
           g == Append(l, e)
<1>1. /\ n \in Nat /\ DOMAIN l = 1 .. n /\ DOMAIN g = 1 .. n + 1
      /\ \A i \in 1 .. n : g[i] = l[i]
      /\ g[n + 1] = e
  BY EntryAdded
<1> HIDE DEF n, g
<1>2. \A i \in 1 .. n : RunOf(g, i) = RunOf(l, i)
  BY <1>1 DEF RunOf
<1>3. RunOf(g, n + 1) = e.by[1]
  BY <1>1 DEF RunOf
<1>4. ASSUME NEW i \in 1 .. n + 1, NEW j \in 1 .. n + 1, RunOf(g, i) = RunOf(g, j)
      PROVE  /\ g[i].task = g[j].task
             /\ g[i].type \in Outcomes /\ g[j].type \in Outcomes => i = j
             /\ g[i].type \in Outcomes /\ g[j].type = "started" => j < i
  <2>1. CASE i \in 1 .. n /\ j \in 1 .. n
    BY <1>1, <1>2, <1>4, <2>1 DEF RunsAreOrderly
  <2>2. CASE i = n + 1 /\ j \in 1 .. n
    <3>1. l[j].task = e.task /\ j < i
      BY <1>1, <1>2, <1>3, <1>4, <2>2
    <3>2. e.type \in Outcomes => l[j].type \notin Outcomes
      BY <1>1, <1>2, <1>3, <1>4, <2>2 DEF HasEnded
    <3> QED BY <1>1, <2>2, <3>1, <3>2
  <2>3. CASE i \in 1 .. n /\ j = n + 1
    <3>1. l[i].task = e.task
      BY <1>1, <1>2, <1>3, <1>4, <2>3
    <3>2. e.type \in Outcomes \cup {"started"} => l[i].type \notin Outcomes
      BY <1>1, <1>2, <1>3, <1>4, <2>3 DEF HasEnded
    <3> QED BY <1>1, <2>3, <3>1, <3>2
  <2>4. CASE i = n + 1 /\ j = n + 1
    BY <1>1, <2>4 DEF Outcomes
  <2>5. (i \in 1 .. n \/ i = n + 1) /\ (j \in 1 .. n \/ j = n + 1)
    BY <1>1, <1>4
  <2> QED BY <2>1, <2>2, <2>3, <2>4, <2>5
<1> QED BY <1>1, <1>4 DEF RunsAreOrderly, g

(* A terminal that is added lies behind every pre_seq.                     *)
LEMMA TerminalIsSince ==
  ASSUME NEW l \in Seq(Entry), NEW e \in Entry, NEW p \in Nat, p <= Len(l), e.type \in Outcomes
  PROVE  TerminalSince(Append(l, e), e.task, p)
<1>1. /\ Len(l) \in Nat /\ DOMAIN Append(l, e) = 1 .. Len(l) + 1
      /\ Append(l, e)[Len(l) + 1] = e
  BY EntryAdded
<1>2. Len(l) + 1 \in At(Append(l, e), e.task, Outcomes)
  BY <1>1 DEF At
<1>3. Len(l) + 1 > p
  BY <1>1
<1> QED BY <1>2, <1>3 DEF TerminalSince

(* A terminal since pre_seq is the run's own.                              *)
LEMMA TerminalIsOwn ==
  ASSUME NEW l \in Seq(Entry), NEW f, f.kind = "dispatch", f.at # "clean", OwnsItsRun(l, f),
         TerminalSince(l, f.task, f.pre)
  PROVE  HasEnded(l, f.run)
BY DEF TerminalSince, At, OwnsItsRun, HasEnded

(* certify finds a task running only if the run that started it last has   *)
(* not ended.                                                              *)
LEMMA RunningHasNotEnded ==
  ASSUME NEW l \in Seq(Entry), NEW t, RunsAreOrderly(l), CurrentState(l, t) = "running"
  PROVE  /\ AttemptStart(l, t) \in DOMAIN l
         /\ l[AttemptStart(l, t)].task = t /\ l[AttemptStart(l, t)].type = "started"
         /\ ~HasEnded(l, RunOf(l, AttemptStart(l, t)))
<1> DEFINE starts == At(l, t, {"started"})
           both == At(l, t, {"started"} \cup Outcomes)
           k == Latest(both)
<1>1. Len(l) \in Nat /\ DOMAIN l = 1 .. Len(l)
  BY Positions
<1>2. starts \subseteq both /\ both \subseteq 1 .. Len(l) /\ starts # {}
  BY <1>1 DEF At, CurrentState
<1>3. PICK x \in both : \A y \in both : y <= x
  BY <1>1, <1>2, LargestExists
<1>4. k = x
  <2> HIDE DEF both
  <2> QED BY <1>1, <1>2, <1>3, LatestIsLargest
<1>5. l[k].type = "started"
  <2>1. l[x].type \in {"started"} \cup Outcomes
    BY <1>3 DEF At
  <2>2. (IF l[k].type = "started" THEN "running" ELSE l[k].type) = "running"
    BY <1>2 DEF CurrentState
  <2> QED BY <1>4, <2>1, <2>2 DEF Outcomes
<1>6. k \in starts /\ \A y \in starts : y <= k
  BY <1>2, <1>3, <1>4, <1>5 DEF At
<1>7. AttemptStart(l, t) = k
  <2> HIDE DEF starts, k
  <2>1. starts \subseteq 1 .. Len(l)
    BY <1>2
  <2>2. Latest(starts) = k
    BY <1>1, <1>6, <2>1, LatestIsLargest
  <2> QED BY <2>2 DEF AttemptStart, starts
<1>8. ASSUME HasEnded(l, RunOf(l, k)) PROVE FALSE
  <2>1. PICK i \in DOMAIN l : l[i].type \in Outcomes /\ RunOf(l, i) = RunOf(l, k)
    BY <1>8 DEF HasEnded
  <2>2. l[i].task = t /\ k < i
    BY <1>6, <2>1 DEF RunsAreOrderly, At
  <2>3. i <= k
    BY <1>3, <1>4, <2>1, <2>2 DEF At
  <2> QED BY <1>1, <1>6, <2>1, <2>2, <2>3 DEF At
<1> QED BY <1>6, <1>7, <1>8 DEF At

(* A step that goes on, and says at most one thing about its run.          *)
LEMMA StepGoesOn ==
  ASSUME TypeOK, EndInv, NEW s \in Sessions, \A r \in Sessions : r = s,
         step[s].at # "idle", step'[s].at # "idle",
         runs' = runs, killed' = killed, escaped' = escaped,
         step'[s].kind = step[s].kind, step'[s].task = step[s].task, step'[s].run = step[s].run,
         \/ step'[s].at = "clean" /\ log' = log
         \/ step'[s].pre = step[s].pre /\ step[s].at # "clean"
         \/ step'[s].pre = Len(log) /\ log' = log,
         \/ log' = log
         \/ \E e \in Entry :
              /\ log' = Append(log, e) /\ e.task = step[s].task /\ e.by[1] = step[s].run
              /\ e.type \in Outcomes \cup {"started"} => ~HasEnded(log, step[s].run),
         LeadsOut(log', step'[s])
  PROVE  EndInv'
<1>1. log \in Seq(Entry) /\ Len(log) \in Nat /\ DOMAIN log = 1 .. Len(log)
  <2>1. log \in Seq(Entry)
    BY DEF TypeOK, Entry
  <2> QED BY <2>1, Positions
<1>2. /\ RunsAreOrderly(log) /\ RunsAreNumbered(log) /\ StartsAreAccounted(log)
      /\ FrameFits(log, step[s])
  BY DEF EndInv
<1>3. OwnsItsRun(log, step[s]) /\ (step[s].kind = "certify" => step[s].run \in Excused)
  BY <1>2 DEF FrameFits
<1>4. step[s].pre \in Nat
  BY DEF TypeOK, Frame
<1>5. CASE log' = log
  <2>1. RunsAreOrderly(log') /\ RunsAreNumbered(log)'
    BY <1>2, <1>5 DEF RunsAreNumbered
  <2>2. StartsAreAccounted(log)'
    BY <1>2, <1>5 DEF StartsAreAccounted, Excused
  <2>3. ASSUME step[s].kind = "dispatch", step'[s].at # "clean"
        PROVE  step'[s].pre <= Len(log)
               /\ \A i \in DOMAIN log : i > step'[s].pre => RunOf(log, i) = step[s].run
    <3>1. CASE step'[s].pre = step[s].pre /\ step[s].at # "clean"
      BY <1>3, <2>3, <3>1 DEF OwnsItsRun
    <3>2. CASE step'[s].pre = Len(log)
      BY <1>1, <3>2
    <3> QED BY <2>3, <3>1, <3>2
  <2>4. OwnsItsRun(log, step[s])'
    BY <1>3, <1>5, <2>3 DEF OwnsItsRun
  <2>5. FrameFits(log, step[s])'
    BY <1>3, <2>4 DEF FrameFits, Excused
  <2> QED BY <2>1, <2>2, <2>5 DEF EndInv
<1>6. ASSUME NEW e \in Entry,
             log' = Append(log, e), e.task = step[s].task, e.by[1] = step[s].run,
             e.type \in Outcomes \cup {"started"} => ~HasEnded(log, step[s].run)
      PROVE  EndInv'
  <2> DEFINE n == Len(log)
  <2>0. Len(log') = n + 1
    <3>1. Len(Append(log, e)) = Len(log) + 1
      BY <1>1, AppendGrows
    <3> QED BY <1>6, <3>1
  <2>1. /\ n \in Nat /\ DOMAIN log = 1 .. n /\ DOMAIN log' = 1 .. n + 1 /\ Len(log') = n + 1
        /\ \A i \in 1 .. n : log'[i] = log[i]
        /\ log'[n + 1] = e
    BY <1>1, <1>6, <2>0, EntryAdded
  <2> HIDE DEF n
  <2>2. /\ \A i \in 1 .. n + 1 : i \in 1 .. n \/ i = n + 1
        /\ n <= n + 1
    BY <2>1
  <2>3. \A i \in 1 .. n : RunOf(log', i) = RunOf(log, i)
    BY <2>1 DEF RunOf
  <2>4. RunOf(log', n + 1) = step[s].run
    BY <1>6, <2>1 DEF RunOf
  <2>5. RunsAreOrderly(log')
    BY <1>1, <1>2, <1>3, <1>6, RunsStayOrderly DEF OwnsItsRun
  <2>6. RunsAreNumbered(log)'
    BY <1>2, <1>3, <2>1, <2>2, <2>3, <2>4 DEF RunsAreNumbered, OwnsItsRun
  <2>7. \A r : HasEnded(log, r) => HasEnded(log', r)
    BY <1>1, <1>6, EndsAdded
  <2>8. StartsAreAccounted(log)'
    <3> SUFFICES ASSUME NEW i \in 1 .. n + 1, log'[i].type = "started"
                 PROVE  \/ step'[s].at # "idle" /\ step'[s].run = RunOf(log', i)
                        \/ RunOf(log', i) \in Excused
                        \/ HasEnded(log', RunOf(log', i))
      BY <2>1 DEF StartsAreAccounted, Excused
    <3>1. CASE i \in 1 .. n
      <4>1. \/ \E r \in Sessions : step[r].at # "idle" /\ step[r].run = RunOf(log, i)
            \/ RunOf(log, i) \in Excused
            \/ HasEnded(log, RunOf(log, i))
        BY <1>2, <2>1, <3>1 DEF StartsAreAccounted
      <4> QED BY <2>3, <2>7, <3>1, <4>1
    <3>2. CASE i = n + 1
      BY <2>4, <3>2
    <3> QED BY <2>2, <3>1, <3>2
  <2>9. step'[s].pre = step[s].pre /\ step[s].at # "clean"
    <3>1. log' # log
      BY <2>1
    <3> QED BY <3>1
  <2>10. ASSUME step[s].kind = "dispatch"
         PROVE  step[s].pre <= n + 1
                /\ \A i \in 1 .. n + 1 : i > step[s].pre => RunOf(log', i) = step[s].run
    <3>1. step[s].pre <= n /\ \A i \in 1 .. n : i > step[s].pre => RunOf(log, i) = step[s].run
      BY <1>3, <2>1, <2>9, <2>10 DEF OwnsItsRun, n
    <3>2. step[s].pre <= n + 1
      BY <1>4, <2>1, <3>1
    <3> QED BY <2>2, <2>3, <2>4, <3>1, <3>2
  <2>11. \A i \in 1 .. n + 1 : RunOf(log', i) = step[s].run => log'[i].task = step[s].task
    BY <1>3, <1>6, <2>1, <2>2, <2>3 DEF OwnsItsRun
  <2>12. OwnsItsRun(log, step[s])'
    BY <1>3, <2>1, <2>9, <2>10, <2>11 DEF OwnsItsRun
  <2>13. FrameFits(log, step[s])'
    BY <1>3, <2>12 DEF FrameFits, Excused
  <2> QED BY <2>5, <2>6, <2>8, <2>13 DEF EndInv
<1> QED BY <1>5, <1>6

(* A step that is over: its run has ended, or its process is gone.         *)
LEMMA StepLeaves ==
  ASSUME TypeOK, EndInv, NEW s \in Sessions, \A r \in Sessions : r = s,
         step[s].at # "idle", step'[s] = Idle,
         runs' = runs, Excused \subseteq Excused',
         \/ log' = log
         \/ \E e \in Entry :
              /\ log' = Append(log, e) /\ e.task = step[s].task /\ e.by[1] = step[s].run
              /\ e.type # "started" /\ ~HasEnded(log, step[s].run),
         HasEnded(log', step[s].run) \/ step[s].run \in Excused'
  PROVE  EndInv'
<1>1. log \in Seq(Entry) /\ Len(log) \in Nat /\ DOMAIN log = 1 .. Len(log)
  <2>1. log \in Seq(Entry)
    BY DEF TypeOK, Entry
  <2> QED BY <2>1, Positions
<1>2. /\ RunsAreOrderly(log) /\ RunsAreNumbered(log) /\ StartsAreAccounted(log)
      /\ OwnsItsRun(log, step[s])
  BY DEF EndInv, FrameFits
<1>3. FrameFits(log, step[s])'
  BY DEF FrameFits, Idle
<1>4. CASE log' = log
  <2>1. RunsAreOrderly(log') /\ RunsAreNumbered(log)'
    BY <1>2, <1>4 DEF RunsAreNumbered
  <2>2. \A i \in DOMAIN log : log[i].type = "started" =>
          RunOf(log, i) = step[s].run \/ RunOf(log, i) \in Excused \/ HasEnded(log, RunOf(log, i))
    BY <1>2 DEF StartsAreAccounted
  <2>3. StartsAreAccounted(log)'
    BY <1>4, <2>2 DEF StartsAreAccounted
  <2> QED BY <1>3, <2>1, <2>3 DEF EndInv
<1>5. ASSUME NEW e \in Entry,
             log' = Append(log, e), e.task = step[s].task, e.by[1] = step[s].run,
             e.type # "started", ~HasEnded(log, step[s].run)
      PROVE  EndInv'
  <2> DEFINE n == Len(log)
  <2>1. /\ n \in Nat /\ DOMAIN log = 1 .. n /\ DOMAIN log' = 1 .. n + 1
        /\ \A i \in 1 .. n : log'[i] = log[i]
        /\ log'[n + 1] = e
    BY <1>1, <1>5, EntryAdded
  <2> HIDE DEF n
  <2>2. \A i \in 1 .. n + 1 : i \in 1 .. n \/ i = n + 1
    BY <2>1
  <2>3. \A i \in 1 .. n : RunOf(log', i) = RunOf(log, i)
    BY <2>1 DEF RunOf
  <2>4. RunOf(log', n + 1) = step[s].run
    BY <1>5, <2>1 DEF RunOf
  <2>5. RunsAreOrderly(log')
    BY <1>1, <1>2, <1>5, RunsStayOrderly DEF OwnsItsRun
  <2>6. RunsAreNumbered(log)'
    BY <1>2, <2>1, <2>2, <2>3, <2>4 DEF RunsAreNumbered, OwnsItsRun
  <2>7. \A r : HasEnded(log, r) => HasEnded(log', r)
    BY <1>1, <1>5, EndsAdded
  <2>8. \A i \in 1 .. n : log[i].type = "started" =>
          RunOf(log, i) = step[s].run \/ RunOf(log, i) \in Excused \/ HasEnded(log, RunOf(log, i))
    BY <1>2, <2>1 DEF StartsAreAccounted
  <2>9. \A i \in 1 .. n + 1 : log'[i].type = "started" =>
          RunOf(log', i) \in Excused' \/ HasEnded(log', RunOf(log', i))
    BY <1>5, <2>1, <2>2, <2>3, <2>7, <2>8
  <2>10. StartsAreAccounted(log)'
    BY <2>1, <2>9 DEF StartsAreAccounted
  <2> QED BY <1>3, <2>5, <2>6, <2>10 DEF EndInv
<1> QED BY <1>4, <1>5

(* A step begins: on a new run, or on one that a kill left.                *)
LEMMA StepBegins ==
  ASSUME TypeOK, EndInv, NEW s \in Sessions, \A r \in Sessions : r = s,
         step[s].at = "idle", log' = log, runs' = runs + 1, killed' = killed,
         escaped' = escaped,
         FrameFits(log, step[s])'
  PROVE  EndInv'
<1>1. log \in Seq(Entry) /\ \A i \in DOMAIN log : log[i] \in Entry
  <2>1. log \in Seq(Entry)
    BY DEF TypeOK, Entry
  <2> QED BY <2>1, Positions
<1>2. runs \in Nat /\ \A i \in DOMAIN log : RunOf(log, i) \in Nat
  BY <1>1, BoundsAssumption DEF TypeOK, Entry, RunOf, Runs
<1>3. RunsAreNumbered(log)'
  BY <1>2 DEF EndInv, RunsAreNumbered, RunOf
<1>4. StartsAreAccounted(log)'
  BY DEF EndInv, StartsAreAccounted, Excused
<1> QED BY <1>3, <1>4 DEF EndInv

(* Inv 10, while one console works on the store: a run never ends a task   *)
(* twice, and one that started a task ends it, however its attempts raise, *)
(* are retried, abort or are certified later; unless its process is killed,*)
(* or an exception is on record that left dispatch where the loop has no   *)
(* try, or that was raised by the emit of the terminal itself.             *)
THEOREM RunsEndExactlyOnce ==
  ASSUME \A r, s \in Sessions : r = s
  PROVE  Spec => []EndsExactlyOnce
<1>1. Init => EndInv
  <2> SUFFICES ASSUME Init PROVE EndInv
    OBVIOUS
  <2>1. DOMAIN log = {}
    BY DEF Init
  <2>2. \A s \in Sessions : FrameFits(log, step[s])
    BY DEF Init, FrameFits, Idle
  <2> QED BY <2>1, <2>2 DEF EndInv, RunsAreOrderly, RunsAreNumbered, StartsAreAccounted
<1>2. TypeOK /\ TypeOK' /\ EndInv /\ [Next]_vars => EndInv'
  <2> SUFFICES ASSUME TypeOK, TypeOK', EndInv, [Next]_vars PROVE EndInv'
    OBVIOUS
  <2>0. step \in [Sessions -> Frame] /\ log \in Seq(Entry) /\ DOMAIN step = Sessions
    BY DEF TypeOK, Entry
  <2>a. /\ RunsAreOrderly(log) /\ RunsAreNumbered(log)
        /\ \A s \in Sessions : step[s].at # "idle" => LeadsOut(log, step[s]) /\ OwnsItsRun(log, step[s])
        /\ \A s \in Sessions : step[s].kind = "certify" => step[s].run \in Excused
        /\ \A s \in Sessions :
             step[s].at \notin {"idle", "raised", "spend", "abort"} => step[s].cause \notin {"fault", "ended"}
    BY DEF EndInv, FrameFits, LeadsOut
  <2>1. ASSUME NEW s \in Sessions, Acquire(s) \/ WorkDone(s) \/ OutOfScope(s) \/ Accept(s) \/ RewindForRetry(s)
        PROVE  EndInv'
    <3>1. /\ step[s].at # "idle" /\ LeadsOut(log, step[s])
          /\ step[s].at \in {"admission", "working", "accepting", "rewind"}
      BY <2>1, <2>a DEF Acquire, WorkDone, OutOfScope, Accept, RewindForRetry
    <3>2. /\ step'[s].at # "idle" /\ step'[s].at # "landed"
          /\ step'[s].kind = step[s].kind /\ step'[s].task = step[s].task
          /\ step'[s].run = step[s].run /\ step'[s].pre = step[s].pre
          /\ step'[s].life \in {step[s].life, "queued", "running"}
          /\ step'[s].cause \in {step[s].cause, "lifecycle"}
      BY <2>0, <2>1 DEF Acquire, WorkDone, OutOfScope, Accept, RewindForRetry, Goto, Frame
    <3>3. UNCHANGED <<log, runs, killed, escaped>>
      BY <2>1 DEF Acquire, WorkDone, OutOfScope, Accept, RewindForRetry
    <3>4. LeadsOut(log', step'[s])
      <4>1. step[s].cause \notin {"fault", "ended"} /\ ~HasEnded(log, step[s].run)
        BY <3>1 DEF LeadsOut
      <4> QED BY <3>1, <3>2, <3>3, <4>1 DEF LeadsOut, Outcomes
    <3> QED BY <3>1, <3>2, <3>3, <3>4, StepGoesOn
  <2>2. ASSUME NEW s \in Sessions, Land(s)
        PROVE  EndInv'
    <3>1. /\ step[s].at = "landed" /\ LeadsOut(log, step[s])
      BY <2>2, <2>a DEF Land
    <3>2. /\ step'[s].at = "settle"
          /\ step'[s].kind = step[s].kind /\ step'[s].task = step[s].task
          /\ step'[s].run = step[s].run /\ step'[s].pre = step[s].pre
          /\ step'[s].life = step[s].life /\ step'[s].cause = step[s].cause
      BY <2>0, <2>2 DEF Land, Goto, Frame
    <3>3. UNCHANGED <<log, runs, killed, escaped>>
      BY <2>2 DEF Land
    <3>4. LeadsOut(log', step'[s])
      BY <3>1, <3>2, <3>3 DEF LeadsOut
    <3> QED BY <3>1, <3>2, <3>3, <3>4, StepGoesOn
  <2>3. ASSUME NEW s \in Sessions, NEW cause \in {"error", "transient"}, Raise(s, cause)
        PROVE  EndInv'
    <3>1. /\ step[s].at \in CanRaise /\ step[s].at # "idle" /\ LeadsOut(log, step[s])
          /\ step[s].at = "landed" => cause # "transient"
      BY <2>3, <2>a DEF Raise, CanRaise, Sdk
    <3>2. /\ step'[s].at = "raised" /\ step'[s].cause = cause
          /\ step'[s].kind = step[s].kind /\ step'[s].task = step[s].task
          /\ step'[s].run = step[s].run /\ step'[s].pre = step[s].pre
          /\ step'[s].life = step[s].life
      BY <2>0, <2>3 DEF Raise, Frame
    <3>3. UNCHANGED <<log, runs, killed, escaped>>
      BY <2>3 DEF Raise
    <3>4. LeadsOut(log', step'[s])
      <4>1. step[s].cause \notin {"fault", "ended"}
        BY <3>1, <2>a DEF CanRaise
      <4> QED BY <3>1, <3>2, <3>3, <4>1 DEF LeadsOut, CanRaise
    <3>5. step[s].at \notin {"idle", "clean"} /\ step'[s].at # "idle"
      BY <3>1, <3>2 DEF CanRaise
    <3>6. \/ step'[s].at = "clean" /\ log' = log
          \/ step'[s].pre = step[s].pre /\ step[s].at # "clean"
          \/ step'[s].pre = Len(log) /\ log' = log
      BY <3>2, <3>5
    <3> QED BY <3>2, <3>3, <3>4, <3>5, <3>6, StepGoesOn
  <2>4. ASSUME NEW s \in Sessions, NEW type \in Evidence, Emit(s, type),
               step[s].at \in {"verifying", "reviewing"},
               step'[s].at \in {"reviewing", "rewind", "rejecting", "completing"},
               step'[s].kind = step[s].kind, step'[s].task = step[s].task,
               step'[s].run = step[s].run, step'[s].pre = step[s].pre,
               step'[s].life = step[s].life, step'[s].cause = step[s].cause, UNCHANGED <<runs, killed, escaped>>
        PROVE  EndInv'
    <3> DEFINE e == TaskEvent(type, step[s].task, By(s))
    <3>1. log' = Append(log, e)
      BY <2>4 DEF Emit
    <3>2. e \in Entry /\ e.type = type /\ e.task = step[s].task /\ e.by[1] = step[s].run
      BY <2>0, <2>4 DEF TypeOK, TaskEvent, By, Entry, EventTypes, Frame
    <3> HIDE DEF e
    <3>3. e.type \notin Outcomes \cup {"started"}
      BY <3>2, <2>4 DEF Evidence, Outcomes
    <3>4. /\ ~HasEnded(log, step[s].run) /\ step[s].life \notin Outcomes
          /\ step[s].cause \notin {"fault", "ended"}
      BY <2>4, <2>a DEF LeadsOut
    <3>5. ~HasEnded(log', step[s].run)
      BY <2>0, <3>1, <3>2, <3>3, <3>4, EndsAdded
    <3>6. LeadsOut(log', step'[s])
      BY <2>4, <3>4, <3>5 DEF LeadsOut
    <3>7. step[s].at # "idle" /\ step'[s].at # "idle"
      BY <2>4
    <3> QED BY <2>4, <3>1, <3>2, <3>3, <3>6, <3>7, StepGoesOn
  <2>5. ASSUME NEW s \in Sessions, NEW type \in Outcomes, Emit(s, type),
               step[s].at \in {"admission", "violation", "completing", "rejecting"},
               step'[s].at \in {"settle", "landed"},
               step'[s].kind = step[s].kind, step'[s].task = step[s].task,
               step'[s].run = step[s].run, step'[s].pre = step[s].pre,
               step'[s].cause = step[s].cause,
               step'[s].at = "landed" => step'[s].life = type, UNCHANGED <<runs, killed, escaped>>
        PROVE  EndInv'
    <3> DEFINE e == TaskEvent(type, step[s].task, By(s))
    <3>1. log' = Append(log, e)
      BY <2>5 DEF Emit
    <3>2. e \in Entry /\ e.type = type /\ e.task = step[s].task /\ e.by[1] = step[s].run
      BY <2>0, <2>5 DEF TypeOK, TaskEvent, By, Entry, EventTypes, Frame
    <3> HIDE DEF e
    <3>3. step[s].at # "idle" /\ step'[s].at # "idle"
      BY <2>5
    <3>4. /\ ~HasEnded(log, step[s].run) /\ OwnsItsRun(log, step[s])
          /\ step[s].cause \notin {"fault", "ended"}
      BY <2>5, <2>a DEF LeadsOut
    <3>5. HasEnded(log', step[s].run)
      BY <2>0, <2>5, <3>1, <3>2, EndsAdded
    <3>6. step[s].kind = "dispatch" => TerminalSince(log', step[s].task, step[s].pre)
      <4>1. step[s].pre \in Nat
        BY <2>0 DEF Frame
      <4> QED BY <2>0, <2>5, <3>1, <3>2, <3>4, <4>1, TerminalIsSince DEF OwnsItsRun
    <3>7. LeadsOut(log', step'[s])
      BY <2>5, <3>4, <3>5, <3>6 DEF LeadsOut
    <3> QED BY <2>5, <3>1, <3>2, <3>3, <3>4, <3>7, StepGoesOn
  <2>6. ASSUME NEW s \in Sessions, Deny(s) \/ RejectViolation(s)
        PROVE  EndInv'
    BY <2>0, <2>5, <2>6 DEF Deny, RejectViolation, Goto, Frame, Outcomes
  <2>7. ASSUME NEW s \in Sessions, VerifierPasses(s)
        PROVE  EndInv'
    BY <2>0, <2>4, <2>7 DEF VerifierPasses, Goto, Frame, Evidence
  <2>8. ASSUME NEW s \in Sessions, NEW self \in BOOLEAN, VerifierFails(s, self)
        PROVE  EndInv'
    BY <2>0, <2>4, <2>8 DEF VerifierFails, Goto, Frame, Evidence
  <2>9. ASSUME NEW s \in Sessions, NEW ok \in BOOLEAN, Review(s, ok)
        PROVE  EndInv'
    BY <2>0, <2>4, <2>9 DEF Review, Goto, Frame, Evidence
  <2>10. ASSUME NEW s \in Sessions, Complete(s) \/ Reject(s)
         PROVE  EndInv'
    <3>1. step[s].at \in {"completing", "rejecting"} /\ step[s].life \notin Outcomes
      <4>1. step[s].at \in {"completing", "rejecting"}
        BY <2>10 DEF Complete, Reject
      <4>2. LeadsOut(log, step[s]) /\ step[s].cause # "fault"
        BY <4>1, <2>a
      <4> QED BY <4>1, <4>2 DEF LeadsOut
    <3>2. PICK type \in {"completed", "rejected"} :
            /\ Emit(s, type) /\ UNCHANGED <<runs, killed, escaped>>
            /\ step' = [step EXCEPT ![s].life = type,
                                    ![s].at = IF type = "completed" THEN "landed" ELSE "settle"]
      BY <2>10, <3>1 DEF Complete, Reject, Terminate
    <3>3. /\ step'[s].at \in {"settle", "landed"} /\ step'[s].life = type
          /\ step'[s].kind = step[s].kind /\ step'[s].task = step[s].task
          /\ step'[s].run = step[s].run /\ step'[s].pre = step[s].pre
          /\ step'[s].cause = step[s].cause
      BY <2>0, <3>2 DEF Frame
    <3> QED BY <2>5, <3>1, <3>2, <3>3 DEF Outcomes
  <2>11. ASSUME NEW s \in Sessions, StartTask(s)
         PROVE  EndInv'
    <3> DEFINE e == TaskEvent("started", step[s].task, <<step[s].run, step[s].try>>)
    <3>1. log' = Append(log, e)
      BY <2>11 DEF StartTask
    <3>2. e \in Entry /\ e.type = "started" /\ e.task = step[s].task /\ e.by[1] = step[s].run
      BY <2>0, <2>11 DEF StartTask, TypeOK, TaskEvent, Entry, EventTypes, Frame
    <3> HIDE DEF e
    <3>3. /\ ~HasEnded(log, step[s].run) /\ step[s].life \notin Outcomes /\ step[s].at # "idle"
          /\ step[s].at # "clean" /\ step[s].cause \notin {"fault", "ended"}
      BY <2>11, <2>a DEF StartTask, LeadsOut
    <3>4. ~HasEnded(log', step[s].run)
      BY <2>0, <3>1, <3>2, <3>3, EndsAdded DEF Outcomes
    <3>5. /\ step'[s].at = "working"
          /\ step'[s].kind = step[s].kind /\ step'[s].task = step[s].task
          /\ step'[s].run = step[s].run /\ step'[s].pre = step[s].pre
          /\ step'[s].life = step[s].life /\ step'[s].cause = step[s].cause
      BY <2>0, <2>11 DEF StartTask, Frame
    <3>6. LeadsOut(log', step'[s])
      BY <3>3, <3>4, <3>5 DEF LeadsOut
    <3>7. runs' = runs /\ killed' = killed /\ escaped' = escaped
      BY <2>11 DEF StartTask
    <3> QED BY <3>1, <3>2, <3>3, <3>5, <3>6, <3>7, StepGoesOn
  <2>12. ASSUME NEW s \in Sessions, Settle(s) \/ Recover(s)
         PROVE  EndInv'
    <3>1. /\ step[s].at \in {"settle", "raised"} /\ step[s].kind = "dispatch"
          /\ LeadsOut(log, step[s]) /\ OwnsItsRun(log, step[s])
          /\ UNCHANGED <<log, runs, killed, escaped>>
      BY <2>12, <2>a DEF Settle, Recover
    <3>2. CASE /\ step[s].at = "settle" /\ TerminalSince(log, step[s].task, step[s].pre)
               /\ step' = [step EXCEPT ![s].at = "spend", ![s].cause = "ended"]
      <4>1. HasEnded(log, step[s].run)
        BY <2>0, <3>1, <3>2, TerminalIsOwn
      <4>2. /\ step'[s].at = "spend" /\ step'[s].cause = "ended"
            /\ step'[s].kind = step[s].kind /\ step'[s].task = step[s].task
            /\ step'[s].run = step[s].run /\ step'[s].pre = step[s].pre
        BY <2>0, <3>2 DEF Frame
      <4>3. LeadsOut(log', step'[s])
        BY <3>1, <4>1, <4>2 DEF LeadsOut
      <4> QED BY <3>1, <3>2, <4>2, <4>3, StepGoesOn
    <3>3. CASE Again(s) /\ ~HasEnded(log, step[s].run) /\ step[s].cause # "fault"
      <4>1. /\ step'[s].at = "clean" /\ step'[s].cause = "none"
            /\ step'[s].kind = step[s].kind /\ step'[s].task = step[s].task
            /\ step'[s].run = step[s].run /\ step'[s].life = step[s].life
        BY <2>0, <3>3 DEF Again, Frame
      <4>2. LeadsOut(log', step'[s])
        BY <3>1, <3>3, <4>1 DEF LeadsOut
      <4> QED BY <3>1, <4>1, <4>2, StepGoesOn
    <3>4. CASE Goto(s, "spend")
               /\ (HasEnded(log, step[s].run) => step[s].life \in Outcomes /\ step[s].cause # "transient")
      <4>1. /\ step'[s].at = "spend"
            /\ step'[s].kind = step[s].kind /\ step'[s].task = step[s].task
            /\ step'[s].run = step[s].run /\ step'[s].pre = step[s].pre
            /\ step'[s].life = step[s].life /\ step'[s].cause = step[s].cause
        BY <2>0, <3>4 DEF Goto, Frame
      <4>2. LeadsOut(log', step'[s])
        BY <3>1, <3>4, <4>1 DEF LeadsOut
      <4> QED BY <3>1, <4>1, <4>2, StepGoesOn
    <3>5. CASE Settle(s)
      <4>1. /\ ~TerminalSince(log, step[s].task, step[s].pre) => ~HasEnded(log, step[s].run)
            /\ step[s].cause # "fault" /\ step[s].at = "settle"
        BY <3>1, <3>5 DEF Settle, LeadsOut
      <4> QED BY <3>2, <3>3, <3>4, <3>5, <4>1 DEF Settle
    <3>6. CASE Recover(s)
      <4>1. HasEnded(log, step[s].run) => step[s].life \in Outcomes /\ step[s].cause # "transient"
        BY <3>1, <3>6 DEF Recover, LeadsOut
      <4> QED BY <3>3, <3>4, <3>6, <4>1 DEF Recover
    <3> QED BY <2>12, <3>5, <3>6
  <2>13. ASSUME NEW s \in Sessions, Abort(s)
         PROVE  EndInv'
    <3>1. /\ step[s].at = "abort" /\ LeadsOut(log, step[s]) /\ step'[s] = Idle
          /\ runs' = runs /\ Excused \subseteq Excused'
      BY <2>0, <2>13, <2>a DEF Abort, End, Excused
    <3>2. CASE step[s].life \in Outcomes
      <4>1. log' = log
        BY <2>13, <3>2 DEF Abort
      <4>2. HasEnded(log', step[s].run) \/ step[s].run \in Excused'
        <5>1. CASE step[s].cause = "fault"
          BY <2>13, <5>1 DEF Abort, Excused
        <5>2. CASE step[s].cause # "fault"
          BY <3>1, <3>2, <4>1, <5>2 DEF LeadsOut
        <5> QED BY <5>1, <5>2
      <4> QED BY <3>1, <4>1, <4>2, StepLeaves
    <3>3. CASE step[s].life \notin Outcomes
      <4> DEFINE e == TaskEvent("aborted", step[s].task, By(s))
      <4>1. log' = Append(log, e)
        BY <2>13, <3>3 DEF Abort, Emit
      <4>2. /\ e \in Entry /\ e.type = "aborted" /\ e.task = step[s].task
            /\ e.by[1] = step[s].run
        BY <2>0, <3>1 DEF TypeOK, TaskEvent, By, Entry, EventTypes, Outcomes, Frame
      <4> HIDE DEF e
      <4>3. ~HasEnded(log, step[s].run)
        BY <3>1, <3>3 DEF LeadsOut
      <4>4. HasEnded(log', step[s].run)
        BY <2>0, <4>1, <4>2, EndsAdded DEF Outcomes
      <4> QED BY <3>1, <4>1, <4>2, <4>3, <4>4, StepLeaves
    <3> QED BY <3>2, <3>3
  <2>14. ASSUME NEW s \in Sessions, CertifyEnds(s)
         PROVE  EndInv'
    <3>1. /\ step[s].at # "idle" /\ step[s].run \in Excused' /\ step'[s] = Idle
          /\ UNCHANGED <<log, runs>> /\ Excused \subseteq Excused'
      BY <2>0, <2>14, <2>a DEF CertifyEnds, End, Excused
    <3> QED BY <3>1, StepLeaves
  <2>15. ASSUME NEW s \in Sessions, Kill(s) \/ Escape(s)
         PROVE  EndInv'
    <3>1. /\ step[s].at # "idle" /\ step[s].run \in Excused' /\ step'[s] = Idle
          /\ UNCHANGED <<log, runs>> /\ Excused \subseteq Excused'
      BY <2>0, <2>15 DEF Kill, Escape, End, Excused, Unguarded
    <3> QED BY <3>1, StepLeaves
  <2>16. ASSUME NEW s \in Sessions, EmitFails(s)
         PROVE  EndInv'
    <3>1. /\ step[s].at \in {"completing", "rejecting"} /\ LeadsOut(log, step[s])
          /\ UNCHANGED <<log, runs, killed, escaped>>
      BY <2>16, <2>a DEF EmitFails
    <3>2. /\ step'[s].at = "raised" /\ step'[s].cause = "fault"
          /\ step'[s].kind = step[s].kind /\ step'[s].task = step[s].task
          /\ step'[s].run = step[s].run /\ step'[s].pre = step[s].pre
      BY <2>0, <2>16 DEF EmitFails, Frame
    <3>3. LeadsOut(log', step'[s])
      BY <3>1, <3>2 DEF LeadsOut
    <3> QED BY <3>1, <3>2, <3>3, StepGoesOn
  <2>20. ASSUME NEW s \in Sessions, Prepare(s)
         PROVE  EndInv'
    <3>1. /\ step[s].at = "clean" /\ LeadsOut(log, step[s])
          /\ UNCHANGED <<log, runs, killed, escaped>>
      BY <2>20, <2>a DEF Prepare
    <3>2. /\ step'[s].at = "admission" /\ step'[s].cause = step[s].cause
          /\ step'[s].kind = step[s].kind /\ step'[s].task = step[s].task
          /\ step'[s].run = step[s].run /\ step'[s].pre = Len(log)
          /\ step'[s].life = step[s].life
      BY <2>0, <2>20 DEF Prepare, Frame
    <3>3. LeadsOut(log', step'[s])
      BY <3>1, <3>2 DEF LeadsOut
    <3> QED BY <3>1, <3>2, <3>3, StepGoesOn
  <2>21. ASSUME NEW s \in Sessions, Spend(s)
         PROVE  EndInv'
    <3>1. /\ step[s].at = "spend" /\ LeadsOut(log, step[s])
          /\ UNCHANGED <<log, runs, killed, escaped>>
      BY <2>21, <2>a DEF Spend
    <3>2. CASE step[s].cause = "ended"
      <4>1. HasEnded(log', step[s].run) /\ step'[s] = Idle /\ Excused \subseteq Excused'
        BY <2>0, <2>21, <3>1, <3>2 DEF Spend, End, LeadsOut, Excused
      <4> QED BY <3>1, <4>1, StepLeaves
    <3>3. CASE step[s].cause # "ended"
      <4>1. /\ step'[s].at = "abort"
            /\ step'[s].kind = step[s].kind /\ step'[s].task = step[s].task
            /\ step'[s].run = step[s].run /\ step'[s].pre = step[s].pre
            /\ step'[s].life = step[s].life /\ step'[s].cause = step[s].cause
        BY <2>0, <2>21, <3>3 DEF Spend, Goto, Frame
      <4>2. LeadsOut(log', step'[s])
        BY <3>1, <3>3, <4>1 DEF LeadsOut
      <4> QED BY <3>1, <4>1, <4>2, StepGoesOn
    <3> QED BY <3>2, <3>3
  <2>17. ASSUME NEW s \in Sessions, NEW t \in Tasks, Dispatch(s, t)
         PROVE  EndInv'
    <3>1. /\ step[s].at = "idle" /\ runs' = runs + 1 /\ UNCHANGED <<log, killed, escaped>>
          /\ step'[s].kind = "dispatch" /\ step'[s].at = "clean" /\ step'[s].life = "queued"
          /\ step'[s].task = t /\ step'[s].run = runs + 1 /\ step'[s].cause = "none"
      BY <2>0, <2>17 DEF Dispatch, Idle
    <3>2. Len(log) \in Nat /\ DOMAIN log = 1 .. Len(log) /\ \A i \in DOMAIN log : log[i] \in Entry
      BY <2>0, Positions
    <3>3. runs \in Nat /\ \A i \in DOMAIN log : RunOf(log, i) \in Nat
      BY <3>2, BoundsAssumption DEF TypeOK, Entry, RunOf, Runs
    <3>4. \A i \in DOMAIN log : RunOf(log, i) # runs + 1
      BY <2>a, <3>3 DEF RunsAreNumbered
    <3>5. LeadsOut(log, step[s])'
      BY <3>1, <3>4 DEF LeadsOut, HasEnded, Outcomes
    <3>6. OwnsItsRun(log, step[s])'
      <4>1. runs + 1 <= runs'
        BY <3>1, <3>3
      <4> QED BY <3>1, <3>2, <3>4, <4>1 DEF OwnsItsRun
    <3>7. FrameFits(log, step[s])'
      BY <3>1, <3>5, <3>6 DEF FrameFits
    <3> QED BY <3>1, <3>7, StepBegins
  <2>18. ASSUME NEW s \in Sessions, NEW t \in Tasks, Certify(s, t)
         PROVE  EndInv'
    <3> DEFINE k == AttemptStart(log, t)
    <3>1. /\ step[s].at = "idle" /\ runs' = runs + 1 /\ UNCHANGED <<log, killed, escaped>>
          /\ step'[s].kind = "certify" /\ step'[s].at = "reviewing" /\ step'[s].life = "running"
          /\ step'[s].task = t /\ step'[s].run = RunOf(log, k) /\ step'[s].cause = "none"
      BY <2>0, <2>18 DEF Certify, Idle, AttemptStart, RunOf
    <3>2. /\ k \in DOMAIN log /\ log[k].task = t /\ log[k].type = "started"
          /\ ~HasEnded(log, RunOf(log, k))
      BY <2>0, <2>18, <2>a, RunningHasNotEnded DEF Certify
    <3> HIDE DEF k
    <3>3. RunOf(log, k) \in Excused
      <4>1. \A r \in Sessions : step[r].at = "idle"
        BY <3>1
      <4> QED BY <3>2, <4>1 DEF EndInv, StartsAreAccounted
    <3>a. Excused' = Excused
      BY <3>1 DEF Excused
    <3>4. RunOf(log, k) <= runs'
      <4>1. runs \in Nat
        BY BoundsAssumption DEF TypeOK, Runs
      <4>2. RunOf(log, k) <= runs
        BY <2>a, <3>2 DEF RunsAreNumbered
      <4>3. RunOf(log, k) \in Nat
        <5>1. RunOf(log, k) \in Runs
          BY <3>3 DEF TypeOK, Excused
        <5> QED BY <5>1, BoundsAssumption DEF Runs
      <4> QED BY <3>1, <4>1, <4>2, <4>3
    <3>5. \A i \in DOMAIN log : RunOf(log, i) = RunOf(log, k) => log[i].task = t
      BY <2>a, <3>2 DEF RunsAreOrderly
    <3>6. LeadsOut(log, step[s])'
      BY <3>1, <3>2 DEF LeadsOut, Outcomes
    <3>7. OwnsItsRun(log, step[s])'
      BY <3>1, <3>4, <3>5 DEF OwnsItsRun
    <3>8. FrameFits(log, step[s])'
      BY <3>1, <3>3, <3>a, <3>6, <3>7 DEF FrameFits
    <3> QED BY <3>1, <3>8, StepBegins
  <2>19. CASE UNCHANGED vars
    <3>1. UNCHANGED <<log, step, runs, killed, escaped>>
      BY <2>19 DEF vars
    <3> QED BY <3>1 DEF EndInv, RunsAreOrderly, RunsAreNumbered, StartsAreAccounted, FrameFits, OwnsItsRun, Excused
  <2> QED BY <2>1, <2>2, <2>3, <2>6, <2>7, <2>8, <2>9, <2>10, <2>11, <2>12, <2>13, <2>14, <2>15,
             <2>16, <2>17, <2>18, <2>19, <2>20, <2>21, NextCases
<1>3. TypeOK /\ EndInv => EndsExactlyOnce
  <2> SUFFICES ASSUME TypeOK, EndInv PROVE EndsExactlyOnce
    OBVIOUS
  <2>1. OneTerminalPerRun
    BY DEF EndInv, RunsAreOrderly, OneTerminalPerRun, RunOf
  <2>2. NoSilentTermination
    <3> SUFFICES ASSUME NEW i \in DOMAIN log, log[i].type = "started",
                        HasEnded(log, RunOf(log, i))
                 PROVE  \E j \in DOMAIN log : /\ j > i /\ log[j].type \in Outcomes
                                              /\ log[j].task = log[i].task
                                              /\ log[j].by[1] = log[i].by[1]
      BY DEF NoSilentTermination, EndInv, StartsAreAccounted, RunOf, Excused
    <3>1. PICK j \in DOMAIN log : log[j].type \in Outcomes /\ RunOf(log, j) = RunOf(log, i)
      BY DEF HasEnded
    <3>2. i < j /\ log[j].task = log[i].task
      BY <3>1 DEF EndInv, RunsAreOrderly
    <3>3. log \in Seq(Entry)
      BY DEF TypeOK, Entry
    <3>4. i \in Nat /\ j \in Nat
      BY <3>3, Positions
    <3>5. j > i
      BY <3>2, <3>4
    <3> QED BY <3>1, <3>2, <3>5 DEF RunOf
  <2> QED BY <2>1, <2>2 DEF EndsExactlyOnce
<1> QED BY <1>1, <1>2, <1>3, TypeCorrect, PTL DEF Spec

-----------------------------------------------------------------------------
(***************************************************************************)
(* Verification. The argument follows one worktree. A comparison that      *)
(* overlaps no other has its own work on top of the shared stash for as    *)
(* long as it lasts, or in the commit (IsAside); one that was cut short    *)
(* leaves it below whatever is stashed later, and no more is ever popped   *)
(* above it than was pushed (IsBuried). So a check finds, at each of its   *)
(* steps, the trees its verdict is meant to be about: the base with the    *)
(* new test overlaid, and the change (CheckFits).                          *)
(***************************************************************************)
CheckFrame ==
    [at : CheckSteps, pass : {"acceptance", "review"}, stashed : BOOLEAN, overlays : BOOLEAN,
     baseline : {"none", "raised", "pass", "fail"} \cup TestSets]

\* the worktrees with an entry of their own on the stash to pop
Stashing == {v \in Worktrees : Comparing(v) /\ check[v].stashed}

StashHolds == IsFiniteSet(Stashing) /\ Cardinality(Stashing) <= Len(stash)

\* only the two classes that have a baseline are compared with it
ComparesWithCause == \A w \in Worktrees : Comparing(w) \/ check[w].at = "compared" => Compares(w)

VerificationFrames ==
    /\ VerificationTypeOK
    /\ work \in [Worktrees -> [change : Changes, path : Paths]]
    /\ StashHolds
    /\ ComparesWithCause

\* A worktree's own state.
LEMMA WorktreeTyped ==
    ASSUME VerificationFrames, NEW w \in Worktrees
    PROVE  /\ work[w] \in [change : Changes, path : Paths] /\ Change(w) \in Changes /\ Change(w) \in ChangesIn[w]
           /\ tree[w] \in Trees /\ tip[w] \in Trees /\ diff[w] \in {"none", "empty", "realized"}
           /\ check[w] \in CheckFrame /\ said[w] \in [acceptance : Axes, review : Axes]
           /\ WorkOf(w) \in Trees /\ Base \in Trees /\ w # "base"
<1>1. tree[w] \in Trees /\ tip[w] \in Trees /\ diff[w] \in {"none", "empty", "realized"}
  BY DEF VerificationFrames, VerificationTypeOK
<1>2. check[w] \in CheckFrame /\ said[w] \in [acceptance : Axes, review : Axes]
  BY DEF VerificationFrames, VerificationTypeOK, CheckFrame
<1>3. work[w] \in [change : Changes, path : Paths] /\ Change(w) \in Changes /\ Change(w) \in ChangesIn[w]
  BY DEF VerificationFrames, VerificationTypeOK, Change
<1>4. WorkOf(w) \in Trees /\ Base \in Trees
  BY DEF WorkOf, Base, Trees, Owners
<1>5. w # "base"
  BY VerificationAssumption
<1> QED
  BY <1>1, <1>2, <1>3, <1>4, <1>5

\* A change, by its class.
LEMMA ChangeByClass ==
    ASSUME NEW c \in Changes
    PROVE  \/ c.class = "bugfix" /\ c \in Bugfixes
           \/ c.class = "refactor" /\ c \in Refactors
           \/ c.class = "feature" /\ c \in Features
           \/ c.class = "bump" /\ c \in Bumps
           \/ c.class = "scaffold" /\ c \in Scaffolds
<1>1. c \in Bugfixes => c.class = "bugfix"
  BY DEF Bugfixes
<1>2. c \in Refactors => c.class = "refactor"
  BY DEF Refactors
<1>3. c \in Features => c.class = "feature"
  BY DEF Features
<1>4. c \in Bumps => c.class = "bump"
  BY DEF Bumps
<1>5. c \in Scaffolds => c.class = "scaffold"
  BY DEF Scaffolds
<1> QED
  BY <1>1, <1>2, <1>3, <1>4, <1>5 DEF Changes

\* What a suite's run may be taken for.
LEMMA SuiteShows ==
    ASSUME NEW w \in Worktrees
    PROVE  /\ SuiteVerdicts(w) \subseteq {"ok", "suite", "quoting suite", "raised"}
           /\ \A v \in SuiteVerdicts(w) : tree[w].code = w =>
                 /\ v = "ok" => Change(w).suite = "pass"
                 /\ v \in Refuting => Change(w).suite # "pass"
<1>1. ASSUME NEW v \in SuiteVerdicts(w)
      PROVE  /\ v \in {"ok", "suite", "quoting suite", "raised"}
             /\ tree[w].code = w => /\ v = "ok" => Change(w).suite = "pass"
                                    /\ v \in Refuting => Change(w).suite # "pass"
  <2>1. PICK s \in SuiteOn(w) : v = IF s = "pass" THEN "ok" ELSE IF s = "fail" THEN "suite"
                                    ELSE IF s = "quoting" THEN "quoting suite" ELSE "raised"
    BY DEF SuiteVerdicts
  <2>2. tree[w].code = w => s = Change(w).suite
    BY DEF SuiteOn
  <2> QED
    BY <2>1, <2>2 DEF Refuting, Axes
<1> QED
  BY <1>1

\* Every verdict names an axis.
LEMMA VerdictsTyped ==
    ASSUME VerificationFrames, NEW w \in Worktrees
    PROVE  Verdicts(w) \subseteq Axes \ {"none"}
<1>c. Change(w) \in Changes /\ SuiteVerdicts(w) \subseteq {"ok", "suite", "quoting suite", "raised"}
  BY WorktreeTyped, SuiteShows
<1>1. BugfixVerdicts(w) \subseteq Axes \ {"none"}
  BY <1>c DEF BugfixVerdicts, Axes
<1>2. RefactorVerdicts(w) \subseteq Axes \ {"none"}
  BY DEF RefactorVerdicts, Axes
<1>3. FeatureVerdicts(w) \subseteq Axes \ {"none"}
  <2>1. ASSUME NEW v \in FeatureVerdicts(w)
        PROVE  v \in SuiteVerdicts(w) \/ v \in {"test_coverage", "spec_claim", "spec_criteria", "ok"}
    BY <2>1 DEF FeatureVerdicts
  <2> QED
    BY <1>c, <2>1 DEF Axes
<1>4. BumpVerdicts(w) \subseteq Axes \ {"none"}
  BY <1>c DEF BumpVerdicts, Axes
<1>5. SuiteVerdicts(w) \subseteq Axes \ {"none"}
  BY <1>c DEF Axes
<1> QED
  BY <1>c, <1>1, <1>2, <1>3, <1>4, <1>5, ChangeByClass DEF Verdicts

\* What the captured command or test set may show.
LEMMA ShownTyped ==
    ASSUME VerificationFrames, NEW w \in Worktrees, NEW t \in Trees, Compares(w)
    PROVE  ShownOn(w, t) \subseteq {"none", "raised", "pass", "fail"} \cup TestSets
<1>1. Change(w) \in Changes
  BY WorktreeTyped
<1>2. CASE Change(w).class = "refactor"
  BY <1>1, <1>2, ChangeByClass DEF ShownOn, Refactors, TestSets
<1>3. CASE Change(w).class = "bugfix"
  BY <1>1, <1>3, ChangeByClass DEF ShownOn, Bugfixes
<1> QED
  BY <1>2, <1>3 DEF Compares

\* A step of one worktree's check, and what it does with the stash they share.
OnlyAt(v) ==
    \A w \in Worktrees : w # v =>
        /\ work'[w] = work[w] /\ tree'[w] = tree[w] /\ tip'[w] = tip[w]
        /\ diff'[w] = diff[w] /\ check'[w] = check[w] /\ said'[w] = said[w]

StashStays == stash' = stash /\ Stashing' \subseteq Stashing

StashPushed(v) ==
    \E t \in Trees : stash' = Append(stash, t) /\ v \notin Stashing /\ Stashing' = Stashing \cup {v}

StashPopped(v) == v \in Stashing /\ stash' = Front(stash) /\ Stashing' = Stashing \ {v}

StashMoves(v) == StashStays \/ StashPushed(v) \/ StashPopped(v)

\* An entry of the stash that is below those still to be popped stays there.
LEMMA StashStands ==
    ASSUME VerificationFrames, NEW v \in Worktrees, StashMoves(v)
    PROVE  /\ stash' \in Seq(Trees) /\ StashHolds'
           /\ \A p \in DOMAIN stash : Cardinality(Stashing) <= Len(stash) - p =>
                 /\ p \in DOMAIN stash' /\ stash'[p] = stash[p]
                 /\ Cardinality(Stashing') <= Len(stash') - p
<1> DEFINE c == Cardinality(Stashing)
<1>1. /\ stash \in Seq(Trees) /\ Len(stash) \in Nat /\ DOMAIN stash = 1 .. Len(stash)
      /\ IsFiniteSet(Stashing) /\ c \in Nat /\ c <= Len(stash)
  <2>1. stash \in Seq(Trees) /\ IsFiniteSet(Stashing) /\ c <= Len(stash)
    BY DEF VerificationFrames, VerificationTypeOK, StashHolds
  <2>2. c \in Nat
    BY <2>1, FS_CardinalityType
  <2> QED
    BY <2>1, <2>2, Positions
<1>2. CASE StashStays
  <2>1. IsFiniteSet(Stashing') /\ Cardinality(Stashing') <= c /\ Cardinality(Stashing') \in Nat
    BY <1>1, <1>2, FS_Subset, FS_CardinalityType DEF StashStays
  <2>2. stash' = stash
    BY <1>2 DEF StashStays
  <2> HIDE DEF c
  <2> QED
    BY <1>1, <2>1, <2>2 DEF StashHolds, c
<1>3. CASE StashPushed(v)
  <2>1. PICK t \in Trees : stash' = Append(stash, t) /\ v \notin Stashing /\ Stashing' = Stashing \cup {v}
    BY <1>3 DEF StashPushed
  <2>2. IsFiniteSet(Stashing') /\ Cardinality(Stashing') = c + 1
    BY <1>1, <2>1, FS_AddElement
  <2>3. /\ stash' \in Seq(Trees) /\ Len(stash') = Len(stash) + 1
        /\ DOMAIN stash' = (DOMAIN stash) \cup {Len(stash) + 1} /\ \A i \in DOMAIN stash : stash'[i] = stash[i]
    BY <1>1, <2>1, AppendGrows
  <2> HIDE DEF c
  <2> QED
    BY <1>1, <2>2, <2>3 DEF StashHolds, c
<1>4. CASE StashPopped(v)
  <2>1. v \in Stashing /\ stash' = Front(stash) /\ Stashing' = Stashing \ {v}
    BY <1>4 DEF StashPopped
  <2>2. IsFiniteSet(Stashing') /\ Cardinality(Stashing') = c - 1
    BY <1>1, <2>1, FS_RemoveElement
  <2>3. c >= 1
    <3>1. Cardinality(Stashing') \in Nat
      BY <2>2, FS_CardinalityType
    <3> HIDE DEF c
    <3> QED
      BY <1>1, <2>2, <3>1
  <2> HIDE DEF c
  <2>4. stash' = SubSeq(stash, 1, Len(stash) - 1)
    BY <2>1 DEF Front
  <2>5. /\ stash' \in Seq(Trees) /\ Len(stash') = Len(stash) - 1
        /\ DOMAIN stash' = 1 .. Len(stash) - 1 /\ \A i \in 1 .. Len(stash) - 1 : stash'[i] = stash[i]
    BY <1>1, <2>3, <2>4
  <2> QED
    BY <1>1, <2>2, <2>3, <2>5 DEF StashHolds, c
<1> QED
  BY <1>2, <1>3, <1>4 DEF StashMoves

\* the types, as a step of one worktree re-establishes them
LEMMA FramesStand ==
    ASSUME VerificationFrames, NEW v \in Worktrees, OnlyAt(v), StashMoves(v),
           work' \in [Worktrees -> [change : Changes, path : Paths]], Change(v)' \in ChangesIn[v],
           tree' \in [Worktrees -> Trees], tip' \in [Worktrees -> Trees],
           diff' \in [Worktrees -> {"none", "empty", "realized"}], check' \in [Worktrees -> CheckFrame],
           said' \in [Worktrees -> [acceptance : Axes, review : Axes]],
           overlapped' \subseteq Worktrees, checkFaults' \in 0 .. CheckFaults,
           Comparing(v)' \/ check'[v].at = "compared" => Compares(v)'
    PROVE  VerificationFrames'
<1>1. \A w \in Worktrees : work'[w].change \in ChangesIn[w] /\ work'[w].path \in Paths
  BY DEF OnlyAt, VerificationFrames, VerificationTypeOK, Change
<1>2. stash' \in Seq(Trees) /\ StashHolds'
  BY StashStands
<1>3. ComparesWithCause'
  <2> SUFFICES ASSUME NEW w \in Worktrees, Comparing(w)' \/ check'[w].at = "compared" PROVE Compares(w)'
    BY DEF ComparesWithCause
  <2>1. CASE w = v
    BY <2>1
  <2>2. CASE w # v
    <3>1. Compares(w)
      BY <2>2 DEF OnlyAt, Comparing, VerificationFrames, ComparesWithCause
    <3> QED
      BY <2>2, <3>1 DEF OnlyAt, Compares, HasCommand, Change
  <2> QED
    BY <2>1, <2>2
<1> QED
  BY <1>1, <1>2, <1>3 DEF VerificationFrames, VerificationTypeOK, CheckFrame

\* How the stash moves, by how the check does.
LEMMA StashMoved ==
    ASSUME VerificationFrames, NEW v \in Worktrees, check' \in [Worktrees -> CheckFrame],
           \A w \in Worktrees : w # v => check'[w] = check[w],
           \/ stash' = stash /\ (Comparing(v)' /\ check'[v].stashed => v \in Stashing)
           \/ \E t \in Trees : stash' = Append(stash, t) /\ v \notin Stashing /\ Comparing(v)' /\ check'[v].stashed
           \/ v \in Stashing /\ stash' = Front(stash) /\ ~Comparing(v)'
    PROVE  StashMoves(v)
<1>1. Stashing' = (Stashing \ {v}) \cup (IF Comparing(v)' /\ check'[v].stashed THEN {v} ELSE {})
  BY DEF Stashing, Comparing
<1> QED
  BY <1>1 DEF StashMoves, StashStays, StashPushed, StashPopped

\* how the stash moves when the check of v becomes x
StashBy(v, x) ==
    \/ stash' = stash /\ (x.at \in ComparisonSteps /\ x.stashed => v \in Stashing)
    \/ /\ \E e \in Trees : stash' = Append(stash, e)
       /\ v \notin Stashing /\ x.at \in ComparisonSteps /\ x.stashed
    \/ v \in Stashing /\ stash' = Front(stash) /\ x.at \notin ComparisonSteps

\* A step of a worktree other than Develop, which changes no work, by what it
\* makes of the worktree's check and trees.
LEMMA CheckStands ==
    ASSUME VerificationFrames, NEW v \in Worktrees, NEW x \in CheckFrame, check' = [check EXCEPT ![v] = x],
           UNCHANGED <<work, diff>>, NEW t \in Trees, tree' = [tree EXCEPT ![v] = t],
           NEW h \in Trees, tip' = [tip EXCEPT ![v] = h],
           NEW said2 \in [acceptance : Axes, review : Axes], said' = [said EXCEPT ![v] = said2],
           overlapped' \subseteq Worktrees, checkFaults' \in 0 .. CheckFaults,
           x.at \in ComparisonSteps \cup {"compared"} => Compares(v), StashBy(v, x)
    PROVE  /\ VerificationFrames' /\ OnlyAt(v) /\ StashMoves(v)
           /\ check'[v] = x /\ tree'[v] = t /\ tip'[v] = h /\ said'[v] = said2
<1>1. /\ work \in [Worktrees -> [change : Changes, path : Paths]] /\ tree \in [Worktrees -> Trees]
      /\ tip \in [Worktrees -> Trees] /\ diff \in [Worktrees -> {"none", "empty", "realized"}]
      /\ check \in [Worktrees -> CheckFrame] /\ said \in [Worktrees -> [acceptance : Axes, review : Axes]]
  BY DEF VerificationFrames, VerificationTypeOK, CheckFrame
<1>2. /\ check'[v] = x /\ \A w \in Worktrees : w # v => check'[w] = check[w]
      /\ check' \in [Worktrees -> CheckFrame]
  BY <1>1
<1>3. /\ tree'[v] = t /\ \A w \in Worktrees : w # v => tree'[w] = tree[w]
      /\ tree' \in [Worktrees -> Trees]
  BY <1>1
<1>4. /\ tip'[v] = h /\ \A w \in Worktrees : w # v => tip'[w] = tip[w]
      /\ tip' \in [Worktrees -> Trees]
  BY <1>1
<1>5. /\ said'[v] = said2 /\ \A w \in Worktrees : w # v => said'[w] = said[w]
      /\ said' \in [Worktrees -> [acceptance : Axes, review : Axes]]
  BY <1>1
<1>6. OnlyAt(v)
  BY <1>2, <1>3, <1>4, <1>5 DEF OnlyAt
<1>7. StashMoves(v)
  BY <1>2, StashMoved DEF Comparing, StashBy
<1>8. Change(v)' \in ChangesIn[v] /\ (Compares(v)' = Compares(v))
  BY WorktreeTyped DEF Change, Compares, HasCommand
<1>9. VerificationFrames'
  BY <1>1, <1>2, <1>3, <1>4, <1>5, <1>6, <1>7, <1>8, FramesStand DEF Comparing
<1> QED
  BY <1>2, <1>3, <1>4, <1>5, <1>6, <1>7, <1>9

\* what a step makes of one worktree
StepAt(v, x, t, h, s) ==
    /\ VerificationFrames' /\ OnlyAt(v) /\ StashMoves(v)
    /\ check'[v] = x /\ tree'[v] = t /\ tip'[v] = h /\ said'[v] = s
    /\ work'[v] = work[v] /\ diff'[v] = diff[v]

\* What a step leaves alone, as an update.
LEMMA SelfUpdate ==
    ASSUME VerificationFrames, NEW v \in Worktrees
    PROVE  /\ tree = [tree EXCEPT ![v] = tree[v]] /\ tip = [tip EXCEPT ![v] = tip[v]]
           /\ said = [said EXCEPT ![v] = said[v]]
  BY DEF VerificationFrames, VerificationTypeOK

\* Taking the work away.
LEMMA StashWorkMoves ==
    ASSUME VerificationFrames, NEW v \in Worktrees, StashWork(v)
    PROVE  StepAt(v, [check[v] EXCEPT !.at = "stashed", !.stashed = Dirty(v), !.baseline = "none",
                                      !.overlays = (BringsTest(v) /\ diff[v] = "realized" /\ tree[v].test = v)],
                  tip[v], tip[v], said[v])
<1> DEFINE x == [check[v] EXCEPT !.at = "stashed", !.stashed = Dirty(v), !.baseline = "none",
                                 !.overlays = (BringsTest(v) /\ diff[v] = "realized" /\ tree[v].test = v)]
<1>1. x \in CheckFrame /\ x.at = "stashed" /\ x.stashed = Dirty(v)
  BY WorktreeTyped DEF CheckFrame, CheckSteps, ComparisonSteps, Dirty, BringsTest
<1>2. /\ check' = [check EXCEPT ![v] = x] /\ tree' = [tree EXCEPT ![v] = tip[v]]
      /\ UNCHANGED <<work, tip, diff, said, checkFaults>> /\ Compares(v) /\ check[v].at = "called"
      /\ stash' = IF Dirty(v) THEN Append(stash, tree[v]) ELSE stash
      /\ overlapped' \subseteq Worktrees /\ checkFaults \in 0 .. CheckFaults
  <2>1. overlapped' \subseteq Worktrees /\ checkFaults \in 0 .. CheckFaults
    BY DEF StashWork, VerificationFrames, VerificationTypeOK
  <2> QED
    BY <2>1 DEF StashWork, TreeBecomes, CheckIs
<1>3. v \notin Stashing /\ tree[v] \in Trees /\ tip[v] \in Trees /\ said[v] \in [acceptance : Axes, review : Axes]
  BY <1>2, WorktreeTyped DEF Stashing, Comparing, ComparisonSteps
<1> HIDE DEF x
<1>4. /\ tip' = [tip EXCEPT ![v] = tip[v]] /\ said' = [said EXCEPT ![v] = said[v]]
  BY <1>2, SelfUpdate
<1>6. x.at \in ComparisonSteps /\ checkFaults' \in 0 .. CheckFaults
  BY <1>1, <1>2 DEF ComparisonSteps
<1>7. StashBy(v, x)
  <2>1. CASE Dirty(v)
    BY <1>1, <1>2, <1>3, <1>6, <2>1 DEF StashBy
  <2>2. CASE ~Dirty(v)
    BY <1>1, <1>2, <2>2 DEF StashBy
  <2> QED
    BY <2>1, <2>2
<1>5. /\ VerificationFrames' /\ OnlyAt(v) /\ StashMoves(v)
      /\ check'[v] = x /\ tree'[v] = tip[v] /\ tip'[v] = tip[v] /\ said'[v] = said[v]
  BY <1>1, <1>2, <1>3, <1>4, <1>6, <1>7, CheckStands
<1> QED
  BY <1>2, <1>5 DEF StepAt, x

\* A step that leaves the stash, the commit and what was said.
LEMMA CheckSteps1 ==
    ASSUME VerificationFrames, NEW v \in Worktrees, NEW x \in CheckFrame, check' = [check EXCEPT ![v] = x],
           NEW t \in Trees, tree' = [tree EXCEPT ![v] = t],
           UNCHANGED <<work, tip, diff, stash, said, overlapped>>, checkFaults' \in 0 .. CheckFaults,
           x.at \in ComparisonSteps \cup {"compared"} => Compares(v),
           x.at \in ComparisonSteps => check[v].at \in ComparisonSteps /\ x.stashed = check[v].stashed
    PROVE  StepAt(v, x, t, tip[v], said[v])
<1>1. tip[v] \in Trees /\ said[v] \in [acceptance : Axes, review : Axes] /\ overlapped' \subseteq Worktrees
  BY WorktreeTyped DEF VerificationFrames, VerificationTypeOK
<1>2. tip' = [tip EXCEPT ![v] = tip[v]] /\ said' = [said EXCEPT ![v] = said[v]]
  BY SelfUpdate
<1>3. StashBy(v, x)
  BY DEF StashBy, Stashing, Comparing
<1>4. /\ VerificationFrames' /\ OnlyAt(v) /\ StashMoves(v)
      /\ check'[v] = x /\ tree'[v] = t /\ tip'[v] = tip[v] /\ said'[v] = said[v]
  BY <1>1, <1>2, <1>3, CheckStands
<1> QED
  BY <1>4 DEF StepAt

\* Moving a check on changes where it is and nothing else.
LEMMA CheckGoesTyped ==
    ASSUME VerificationFrames, NEW v \in Worktrees, NEW where \in CheckSteps
    PROVE  /\ [check[v] EXCEPT !.at = where] \in CheckFrame /\ [check[v] EXCEPT !.at = where].at = where
           /\ [check[v] EXCEPT !.at = where].stashed = check[v].stashed
           /\ [check[v] EXCEPT !.at = where].pass = check[v].pass
           /\ [check[v] EXCEPT !.at = where].overlays = check[v].overlays
           /\ [check[v] EXCEPT !.at = where].baseline = check[v].baseline
           /\ (CheckGoes(v, where) => check' = [check EXCEPT ![v] = [check[v] EXCEPT !.at = where]])
           /\ checkFaults \in 0 .. CheckFaults /\ CheckFaults \in Nat
<1>1. check[v] \in CheckFrame
  BY WorktreeTyped
<1>2. checkFaults \in 0 .. CheckFaults /\ CheckFaults \in Nat
  BY VerificationAssumption DEF VerificationFrames, VerificationTypeOK
<1> QED
  BY <1>1, <1>2 DEF CheckFrame, CheckGoes

\* The steps of a comparison that leave the stash.
LEMMA GoToBaselineMoves ==
    ASSUME VerificationFrames, NEW v \in Worktrees, GoToBaseline(v)
    PROVE  StepAt(v, [check[v] EXCEPT !.at = "baseline"], WithOverlay(v, Base), tip[v], said[v])
<1>1. /\ check[v].at = "stashed" /\ CheckGoes(v, "baseline") /\ tree' = [tree EXCEPT ![v] = WithOverlay(v, Base)]
      /\ UNCHANGED <<work, tip, diff, stash, said, overlapped, checkFaults>>
  BY DEF GoToBaseline, CheckIs, TreeBecomes
<1>2. Compares(v)
  BY <1>1 DEF VerificationFrames, ComparesWithCause, Comparing, ComparisonSteps
<1>3. WithOverlay(v, Base) \in Trees
  BY WorktreeTyped DEF WithOverlay, Base, Trees, Owners
<1>4. "baseline" \in CheckSteps
  BY DEF CheckSteps, ComparisonSteps
<1> QED
  BY <1>1, <1>2, <1>3, <1>4, CheckSteps1, CheckGoesTyped DEF ComparisonSteps

LEMMA CaptureMoves ==
    ASSUME VerificationFrames, NEW v \in Worktrees, Capture(v)
    PROVE  \E r \in ShownOn(v, tree[v]) :
               StepAt(v, [check[v] EXCEPT !.at = "captured", !.baseline = r],
                      [tree[v] EXCEPT !.caches = TRUE], tip[v], said[v])
<1>1. PICK r \in ShownOn(v, tree[v]) :
         /\ check' = [check EXCEPT ![v] = [check[v] EXCEPT !.at = "captured", !.baseline = r]]
         /\ check[v].at = "baseline" /\ tree' = [tree EXCEPT ![v] = [tree[v] EXCEPT !.caches = TRUE]]
         /\ UNCHANGED <<work, tip, diff, stash, said, overlapped, checkFaults>>
  <2>1. PICK r \in ShownOn(v, tree[v]) : check' = [check EXCEPT ![v].at = "captured", ![v].baseline = r]
    BY DEF Capture
  <2>2. check' = [check EXCEPT ![v] = [check[v] EXCEPT !.at = "captured", !.baseline = r]]
    BY <2>1 DEF VerificationFrames, VerificationTypeOK
  <2> QED
    BY <2>2 DEF Capture, CheckIs, TreeBecomes
<1>2. Compares(v)
  BY <1>1 DEF VerificationFrames, ComparesWithCause, Comparing, ComparisonSteps
<1>3. [tree[v] EXCEPT !.caches = TRUE] \in Trees /\ tree[v] \in Trees
  BY WorktreeTyped DEF Trees
<1>4. r \in {"none", "raised", "pass", "fail"} \cup TestSets
  BY <1>2, <1>3, ShownTyped
<1> DEFINE x == [check[v] EXCEPT !.at = "captured", !.baseline = r]
<1>5. x \in CheckFrame /\ x.at = "captured" /\ x.stashed = check[v].stashed
  BY <1>4, WorktreeTyped DEF CheckFrame, CheckSteps, ComparisonSteps
<1>6. checkFaults' \in 0 .. CheckFaults
  BY <1>1 DEF VerificationFrames, VerificationTypeOK
<1> HIDE DEF x
<1>7. check' = [check EXCEPT ![v] = x]
  BY <1>1 DEF x
<1>8. StepAt(v, x, [tree[v] EXCEPT !.caches = TRUE], tip[v], said[v])
  BY <1>1, <1>2, <1>3, <1>5, <1>6, <1>7, CheckSteps1 DEF ComparisonSteps
<1> QED
  BY <1>8 DEF x

LEMMA BaselineRaisesMoves ==
    ASSUME VerificationFrames, NEW v \in Worktrees, BaselineRaises(v)
    PROVE  StepAt(v, [check[v] EXCEPT !.at = "captured", !.baseline = "raised"], tree[v], tip[v], said[v])
<1> DEFINE x == [check[v] EXCEPT !.at = "captured", !.baseline = "raised"]
<1>1. /\ check' = [check EXCEPT ![v] = x]
      /\ check[v].at \in {"stashed", "baseline"} /\ checkFaults < CheckFaults /\ checkFaults' = checkFaults + 1
      /\ UNCHANGED <<work, tree, tip, diff, stash, said, overlapped>>
  <2>1. check' = [check EXCEPT ![v].at = "captured", ![v].baseline = "raised"]
    BY DEF BaselineRaises
  <2>2. check' = [check EXCEPT ![v] = x]
    BY <2>1 DEF VerificationFrames, VerificationTypeOK
  <2> QED
    BY <2>2 DEF BaselineRaises
<1>2. Compares(v)
  BY <1>1 DEF VerificationFrames, ComparesWithCause, Comparing, ComparisonSteps
<1>3. tree[v] \in Trees /\ tree' = [tree EXCEPT ![v] = tree[v]]
  BY <1>1, WorktreeTyped, SelfUpdate
<1>5. x \in CheckFrame /\ x.at = "captured" /\ x.stashed = check[v].stashed
  BY WorktreeTyped DEF CheckFrame, CheckSteps, ComparisonSteps
<1>6. checkFaults' \in 0 .. CheckFaults
  BY <1>1, VerificationAssumption DEF VerificationFrames, VerificationTypeOK
<1> HIDE DEF x
<1>8. StepAt(v, x, tree[v], tip[v], said[v])
  BY <1>1, <1>2, <1>3, <1>5, <1>6, CheckSteps1 DEF ComparisonSteps
<1> QED
  BY <1>8 DEF x

LEMMA RestoreHeadMoves ==
    ASSUME VerificationFrames, NEW v \in Worktrees, RestoreHead(v)
    PROVE  StepAt(v, [check[v] EXCEPT !.at = "at head"], [tip[v] EXCEPT !.caches = tree[v].caches], tip[v], said[v])
<1>1. /\ check[v].at = "captured" /\ CheckGoes(v, "at head")
      /\ tree' = [tree EXCEPT ![v] = [tip[v] EXCEPT !.caches = tree[v].caches]]
      /\ UNCHANGED <<work, tip, diff, stash, said, overlapped, checkFaults>>
  BY DEF RestoreHead, CheckIs, TreeBecomes
<1>2. Compares(v)
  BY <1>1 DEF VerificationFrames, ComparesWithCause, Comparing, ComparisonSteps
<1>3. [tip[v] EXCEPT !.caches = tree[v].caches] \in Trees
  BY WorktreeTyped DEF Trees
<1>4. "at head" \in CheckSteps
  BY DEF CheckSteps, ComparisonSteps
<1> QED
  BY <1>1, <1>2, <1>3, <1>4, CheckSteps1, CheckGoesTyped DEF ComparisonSteps

LEMMA CutShortMoves ==
    ASSUME VerificationFrames, NEW v \in Worktrees, RestoreFails(v) \/ CheckKilled(v)
    PROVE  \E where \in {"broken", "killed"} :
               Comparing(v) /\ StepAt(v, [check[v] EXCEPT !.at = where], tree[v], tip[v], said[v])
<1>1. PICK where \in {"broken", "killed"} :
        /\ CheckGoes(v, where) /\ checkFaults < CheckFaults /\ checkFaults' = checkFaults + 1
        /\ check[v].at \in ComparisonSteps /\ UNCHANGED <<work, tree, tip, diff, stash, said, overlapped>>
  BY DEF RestoreFails, CheckKilled, Comparing, ComparisonSteps
<1>3. tree[v] \in Trees /\ tree' = [tree EXCEPT ![v] = tree[v]]
  BY <1>1, WorktreeTyped, SelfUpdate
<1>4. where \in CheckSteps /\ where \notin ComparisonSteps \cup {"compared"}
  BY DEF CheckSteps, ComparisonSteps, EndSteps
<1>6. checkFaults' \in 0 .. CheckFaults
  BY <1>1, VerificationAssumption DEF VerificationFrames, VerificationTypeOK
<1>7. StepAt(v, [check[v] EXCEPT !.at = where], tree[v], tip[v], said[v])
  BY ZenonT(60), <1>1, <1>3, <1>4, <1>6, CheckSteps1, CheckGoesTyped
<1> QED
  BY <1>1, <1>7 DEF Comparing

\* Giving the work back: the pop never aborts, for the caches are cleared first.
LEMMA PopWorkMoves ==
    ASSUME VerificationFrames, NEW v \in Worktrees, PopWork(v)
    PROVE  /\ check[v].at = "at head" /\ (check[v].stashed => Len(stash) > 0)
           /\ StepAt(v, [check[v] EXCEPT !.at = "compared"],
                     IF check[v].stashed THEN Last(stash) ELSE tree[v], tip[v], said[v])
<1> DEFINE x == [check[v] EXCEPT !.at = "compared"]
           t == IF check[v].stashed THEN Last(stash) ELSE tree[v]
<1>1. ~BeforePop(tree[v]).caches
  BY WorktreeTyped DEF BeforePop, Purged, Trees
<1>2. /\ check[v].at = "at head" /\ CheckGoes(v, "compared") /\ tree' = [tree EXCEPT ![v] = t]
      /\ stash' = IF check[v].stashed THEN Front(stash) ELSE stash
      /\ UNCHANGED <<work, tip, diff, said, overlapped, checkFaults>>
  BY <1>1 DEF PopWork, CheckIs, TreeBecomes
<1>3. Compares(v) /\ Comparing(v)
  BY <1>2 DEF VerificationFrames, ComparesWithCause, Comparing, ComparisonSteps
<1>4. "compared" \in CheckSteps /\ "compared" \notin ComparisonSteps
  BY DEF CheckSteps, ComparisonSteps
<1>5. /\ x \in CheckFrame /\ x.at = "compared" /\ check' = [check EXCEPT ![v] = x]
      /\ checkFaults' \in 0 .. CheckFaults
  BY <1>2, <1>4, CheckGoesTyped
<1>6. check[v].stashed => v \in Stashing /\ Len(stash) > 0
  <2>1. check[v].stashed => v \in Stashing
    BY <1>3 DEF Stashing
  <2>2. ASSUME v \in Stashing PROVE Len(stash) > 0
    <3>1. IsFiniteSet(Stashing) /\ Cardinality(Stashing) <= Len(stash) /\ stash \in Seq(Trees)
      BY DEF VerificationFrames, VerificationTypeOK, StashHolds
    <3>2. Cardinality(Stashing \ {v}) = Cardinality(Stashing) - 1 /\ IsFiniteSet(Stashing \ {v})
      BY <2>2, <3>1, FS_RemoveElement
    <3>3. Cardinality(Stashing \ {v}) \in Nat /\ Cardinality(Stashing) \in Nat
      BY <3>1, <3>2, FS_CardinalityType
    <3> QED
      BY <3>1, <3>2, <3>3
  <2> QED
    BY <2>1, <2>2
<1>7. t \in Trees
  <2>1. stash \in Seq(Trees)
    BY DEF VerificationFrames, VerificationTypeOK
  <2>2. check[v].stashed => Last(stash) \in Trees
    BY <1>6, <2>1 DEF Last
  <2> QED
    BY <2>2, WorktreeTyped
<1>8. StashBy(v, x)
  BY <1>2, <1>4, <1>5, <1>6 DEF StashBy
<1>9. /\ tip' = [tip EXCEPT ![v] = tip[v]] /\ said' = [said EXCEPT ![v] = said[v]]
      /\ tip[v] \in Trees /\ said[v] \in [acceptance : Axes, review : Axes] /\ overlapped' \subseteq Worktrees
  BY <1>2, SelfUpdate, WorktreeTyped DEF VerificationFrames, VerificationTypeOK
<1> HIDE DEF x, t
<1>10. /\ VerificationFrames' /\ OnlyAt(v) /\ StashMoves(v)
       /\ check'[v] = x /\ tree'[v] = t /\ tip'[v] = tip[v] /\ said'[v] = said[v]
  BY <1>2, <1>3, <1>5, <1>7, <1>8, <1>9, CheckStands
<1>11. StepAt(v, x, t, tip[v], said[v])
  BY <1>2, <1>10 DEF StepAt
<1> QED
  BY <1>2, <1>6, <1>11 DEF x, t

\* The verdict.
LEMMA JudgeMoves ==
    ASSUME VerificationFrames, NEW v \in Worktrees, Judge(v)
    PROVE  \E verdict \in Verdicts(v) :
               StepAt(v, [check[v] EXCEPT !.at = AfterVerdict(check[v].pass, verdict)],
                      [tree[v] EXCEPT !.caches = TRUE], tip[v], [said[v] EXCEPT ![check[v].pass] = verdict])
<1>1. PICK verdict \in Verdicts(v) :
         /\ said' = [said EXCEPT ![v] = [said[v] EXCEPT ![check[v].pass] = verdict]]
         /\ CheckGoes(v, AfterVerdict(check[v].pass, verdict))
         /\ tree' = [tree EXCEPT ![v] = [tree[v] EXCEPT !.caches = TRUE]]
         /\ UNCHANGED <<work, tip, diff, stash, overlapped, checkFaults>>
  <2>1. PICK verdict \in Verdicts(v) :
           /\ said' = [said EXCEPT ![v][check[v].pass] = verdict]
           /\ CheckGoes(v, AfterVerdict(check[v].pass, verdict))
    BY DEF Judge
  <2>2. said' = [said EXCEPT ![v] = [said[v] EXCEPT ![check[v].pass] = verdict]]
    BY <2>1 DEF VerificationFrames, VerificationTypeOK
  <2> QED
    BY <2>1, <2>2 DEF Judge, TreeBecomes
<1> DEFINE where == AfterVerdict(check[v].pass, verdict)
           x == [check[v] EXCEPT !.at = where]
           s == [said[v] EXCEPT ![check[v].pass] = verdict]
           t == [tree[v] EXCEPT !.caches = TRUE]
<1>2. where \in CheckSteps /\ where \notin ComparisonSteps \cup {"compared"}
  BY DEF AfterVerdict, CheckSteps, ComparisonSteps, EndSteps
<1>3. s \in [acceptance : Axes, review : Axes]
  <2>1. verdict \in Axes
    BY VerdictsTyped
  <2>2. said[v] \in [acceptance : Axes, review : Axes] /\ check[v].pass \in {"acceptance", "review"}
    BY WorktreeTyped DEF CheckFrame
  <2> QED
    BY <2>1, <2>2
<1>4. t \in Trees
  BY WorktreeTyped DEF Trees
<1>5. CheckGoes(v, where)
  BY <1>1
<1> HIDE DEF where
<1>6. /\ x \in CheckFrame /\ x.at = where /\ check' = [check EXCEPT ![v] = x]
      /\ checkFaults' \in 0 .. CheckFaults
  BY <1>1, <1>2, <1>5, CheckGoesTyped
<1>7. /\ tip' = [tip EXCEPT ![v] = tip[v]] /\ tip[v] \in Trees /\ overlapped' \subseteq Worktrees
  BY <1>1, SelfUpdate, WorktreeTyped DEF VerificationFrames, VerificationTypeOK
<1>8. StashBy(v, x)
  BY <1>1, <1>2, <1>6 DEF StashBy
<1>9. said' = [said EXCEPT ![v] = s] /\ tree' = [tree EXCEPT ![v] = t]
  BY <1>1
<1> HIDE DEF x, s, t
<1>10. /\ VerificationFrames' /\ OnlyAt(v) /\ StashMoves(v)
       /\ check'[v] = x /\ tree'[v] = t /\ tip'[v] = tip[v] /\ said'[v] = s
  BY ZenonT(60), <1>1, <1>2, <1>3, <1>4, <1>6, <1>7, <1>8, <1>9, CheckStands
<1>11. StepAt(v, x, t, tip[v], s)
  BY <1>1, <1>10 DEF StepAt
<1> QED
  BY <1>11 DEF x, s, t, where

\* Between the passes.
LEMMA ReviewMoves ==
    ASSUME VerificationFrames, NEW v \in Worktrees, ReviewAccepted(v) \/ CommitAccepted(v)
    PROVE  \E t \in {tree[v], Purged(tree[v])}, h \in {tip[v], Purged(tree[v])} :
               /\ StepAt(v, [NoCheck EXCEPT !.at = "called", !.pass = "review"], t, h, said[v])
               /\ check[v].at = "accepted"
               /\ h = IF work[v].path = "oss" THEN Purged(tree[v]) ELSE tip[v]
<1> DEFINE x == [NoCheck EXCEPT !.at = "called", !.pass = "review"]
<1>1. PICK t \in {tree[v], Purged(tree[v])}, h \in {tip[v], Purged(tree[v])} :
         /\ tree' = [tree EXCEPT ![v] = t] /\ tip' = [tip EXCEPT ![v] = h]
         /\ h = IF work[v].path = "oss" THEN Purged(tree[v]) ELSE tip[v]
         /\ check' = [check EXCEPT ![v] = x] /\ check[v].at = "accepted"
         /\ UNCHANGED <<work, diff, stash, said, overlapped, checkFaults>>
  <2>1. CASE ReviewAccepted(v)
    BY <2>1, SelfUpdate DEF ReviewAccepted, ReviewNextPass, CheckIs
  <2>2. CASE CommitAccepted(v)
    BY <2>2, SelfUpdate DEF CommitAccepted, ReviewNextPass, CheckIs, TreeBecomes
  <2> QED
    BY <2>1, <2>2
<1>2. x \in CheckFrame /\ x.at = "called"
  BY DEF NoCheck, CheckFrame, CheckSteps
<1>3. "called" \notin ComparisonSteps \cup {"compared"}
  BY DEF ComparisonSteps
<1>4. t \in Trees /\ h \in Trees
  BY WorktreeTyped DEF Purged, Trees
<1>5. /\ said' = [said EXCEPT ![v] = said[v]] /\ said[v] \in [acceptance : Axes, review : Axes]
      /\ overlapped' \subseteq Worktrees /\ checkFaults' \in 0 .. CheckFaults
  BY <1>1, SelfUpdate, WorktreeTyped DEF VerificationFrames, VerificationTypeOK
<1>6. StashBy(v, x)
  BY <1>1, <1>2, <1>3 DEF StashBy
<1> HIDE DEF x
<1>7. /\ VerificationFrames' /\ OnlyAt(v) /\ StashMoves(v)
      /\ check'[v] = x /\ tree'[v] = t /\ tip'[v] = h /\ said'[v] = said[v]
  <2>1. x.at \in ComparisonSteps \cup {"compared"} => Compares(v)
    BY <1>2, <1>3
  <2>2. x \in CheckFrame
    BY <1>2
  <2>3. /\ check' = [check EXCEPT ![v] = x] /\ tree' = [tree EXCEPT ![v] = t] /\ tip' = [tip EXCEPT ![v] = h]
        /\ UNCHANGED <<work, diff>>
    BY <1>1
  <2> QED
    BY <1>4, <1>5, <1>6, <2>1, <2>2, <2>3, CheckStands
<1>8. StepAt(v, x, t, h, said[v])
  BY <1>1, <1>7 DEF StepAt
<1> QED
  BY <1>1, <1>8 DEF x

LEMMA RewindMoves ==
    ASSUME VerificationFrames, NEW v \in Worktrees, RewindWork(v)
    PROVE  \E where \in {"retry", "rejected"} :
               /\ StepAt(v, [check[v] EXCEPT !.at = where], Base, tip[v], said[v])
               /\ check[v].at = "rejecting"
<1>1. PICK where \in {"retry", "rejected"} :
         /\ CheckGoes(v, where) /\ tree' = [tree EXCEPT ![v] = Base] /\ check[v].at = "rejecting"
         /\ UNCHANGED <<work, tip, diff, stash, said, overlapped, checkFaults>>
  BY DEF RewindWork, TreeBecomes, CheckIs
<1>2. where \in CheckSteps /\ where \notin ComparisonSteps \cup {"compared"}
  BY DEF CheckSteps, ComparisonSteps, EndSteps
<1>3. Base \in Trees /\ checkFaults' \in 0 .. CheckFaults
  BY <1>1, WorktreeTyped, CheckGoesTyped, <1>2
<1>4. StepAt(v, [check[v] EXCEPT !.at = where], Base, tip[v], said[v])
  BY <1>1, <1>2, <1>3, CheckSteps1, CheckGoesTyped
<1> QED
  BY <1>1, <1>4

\* the two steps that change the work or the diff
LEMMA DevelopMoves ==
    ASSUME VerificationFrames, NEW v \in Worktrees, Develop(v)
    PROVE  /\ VerificationFrames' /\ OnlyAt(v) /\ StashMoves(v)
           /\ check[v].at \in {"idle", "retry"} /\ check'[v] = [NoCheck EXCEPT !.at = "written"]
           /\ tree'[v] = [WorkOf(v)' EXCEPT !.caches = TRUE] /\ tip'[v] = tip[v]
           /\ said'[v] = Unverified
<1> DEFINE x == [NoCheck EXCEPT !.at = "written"]
<1>1. PICK c \in ChangesIn[v], p \in PathsOf[v] : work' = [work EXCEPT ![v] = [change |-> c, path |-> p]]
  BY DEF Develop
<1>2. c \in Changes /\ p \in Paths
  BY VerificationAssumption
<1>3. /\ work' \in [Worktrees -> [change : Changes, path : Paths]] /\ Change(v)' \in ChangesIn[v]
      /\ \A w \in Worktrees : w # v => work'[w] = work[w]
  BY <1>1, <1>2 DEF VerificationFrames, Change
<1>4. WorkOf(v)' \in Trees
  BY DEF WorkOf, Trees, Owners
<1> DEFINE t == [WorkOf(v)' EXCEPT !.caches = TRUE]
<1>5. t \in Trees
  BY <1>4 DEF Trees
<1>6. tree' = [tree EXCEPT ![v] = t] /\ check' = [check EXCEPT ![v] = x] /\ said' = [said EXCEPT ![v] = Unverified]
      /\ diff' = [diff EXCEPT ![v] = "none"] /\ UNCHANGED <<tip, stash, overlapped, checkFaults>>
      /\ check[v].at \in {"idle", "retry"}
  BY DEF Develop, TreeBecomes
<1> HIDE DEF t
<1>7. /\ tree' \in [Worktrees -> Trees] /\ tree'[v] = t /\ \A w \in Worktrees : w # v => tree'[w] = tree[w]
  BY <1>5, <1>6 DEF VerificationFrames, VerificationTypeOK
<1>8. x \in CheckFrame /\ x.at = "written"
  BY DEF NoCheck, CheckFrame, CheckSteps
<1>9. /\ check' \in [Worktrees -> CheckFrame] /\ check'[v] = x /\ \A w \in Worktrees : w # v => check'[w] = check[w]
  BY <1>6, <1>8 DEF VerificationFrames, VerificationTypeOK, CheckFrame
<1>10. Unverified \in [acceptance : Axes, review : Axes]
  BY DEF Unverified, Axes
<1>11. /\ said' \in [Worktrees -> [acceptance : Axes, review : Axes]] /\ said'[v] = Unverified
       /\ \A w \in Worktrees : w # v => said'[w] = said[w]
  BY <1>6, <1>10 DEF VerificationFrames, VerificationTypeOK
<1>12. /\ diff' \in [Worktrees -> {"none", "empty", "realized"}]
       /\ \A w \in Worktrees : w # v => diff'[w] = diff[w]
  BY <1>6 DEF VerificationFrames, VerificationTypeOK
<1>13. tip' = tip /\ stash' = stash /\ overlapped' \subseteq Worktrees /\ checkFaults' \in 0 .. CheckFaults
       /\ tip' \in [Worktrees -> Trees]
  BY <1>6 DEF VerificationFrames, VerificationTypeOK
<1>14. OnlyAt(v)
  BY <1>3, <1>7, <1>9, <1>11, <1>12, <1>13 DEF OnlyAt
<1>15. ~Comparing(v)' /\ check'[v].at # "compared"
  BY <1>8, <1>9 DEF Comparing, ComparisonSteps
<1>16. StashMoves(v)
  BY <1>9, <1>13, <1>15, StashMoved
<1>17. VerificationFrames'
  BY <1>3, <1>7, <1>9, <1>11, <1>12, <1>13, <1>14, <1>15, <1>16, FramesStand
<1> QED
  BY <1>6, <1>7, <1>9, <1>11, <1>13, <1>14, <1>16, <1>17 DEF t

LEMMA BuildContextMoves ==
    ASSUME VerificationFrames, NEW v \in Worktrees, BuildContext(v)
    PROVE  /\ VerificationFrames' /\ OnlyAt(v) /\ StashMoves(v)
           /\ check[v].at = "written" /\ check'[v] = [check[v] EXCEPT !.at = "called"]
           /\ tree'[v] = Purged(tree[v]) /\ tip'[v] = tip[v] /\ said'[v] = said[v] /\ work'[v] = work[v]
           /\ diff'[v] = IF Purged(tree[v]) = tip[v] THEN "empty" ELSE "realized"
<1> DEFINE x == [check[v] EXCEPT !.at = "called"]
           t == Purged(tree[v])
           d == IF Purged(tree[v]) = tip[v] THEN "empty" ELSE "realized"
<1>1. /\ tree' = [tree EXCEPT ![v] = t] /\ diff' = [diff EXCEPT ![v] = d] /\ CheckGoes(v, "called")
      /\ check[v].at = "written" /\ UNCHANGED <<work, tip, stash, said, overlapped, checkFaults>>
  BY DEF BuildContext, CheckIs, TreeBecomes
<1>2. t \in Trees /\ d \in {"none", "empty", "realized"}
  BY WorktreeTyped DEF Purged, Trees
<1>3. "called" \in CheckSteps
  BY DEF CheckSteps
<1>4. x \in CheckFrame /\ x.at = "called" /\ check' = [check EXCEPT ![v] = x]
  BY <1>1, <1>3, CheckGoesTyped
<1> HIDE DEF x, t, d
<1>7. /\ tree' \in [Worktrees -> Trees] /\ tree'[v] = t /\ \A w \in Worktrees : w # v => tree'[w] = tree[w]
  BY <1>1, <1>2 DEF VerificationFrames, VerificationTypeOK
<1>9. /\ check' \in [Worktrees -> CheckFrame] /\ check'[v] = x /\ \A w \in Worktrees : w # v => check'[w] = check[w]
  BY <1>4 DEF VerificationFrames, VerificationTypeOK, CheckFrame
<1>12. /\ diff' \in [Worktrees -> {"none", "empty", "realized"}] /\ diff'[v] = d
       /\ \A w \in Worktrees : w # v => diff'[w] = diff[w]
  BY <1>1, <1>2 DEF VerificationFrames, VerificationTypeOK
<1>13. /\ tip' \in [Worktrees -> Trees] /\ said' \in [Worktrees -> [acceptance : Axes, review : Axes]]
       /\ work' \in [Worktrees -> [change : Changes, path : Paths]]
       /\ overlapped' \subseteq Worktrees /\ checkFaults' \in 0 .. CheckFaults
  BY <1>1 DEF VerificationFrames, VerificationTypeOK
<1>14. OnlyAt(v)
  BY <1>1, <1>7, <1>9, <1>12 DEF OnlyAt
<1>15. ~Comparing(v)' /\ check'[v].at # "compared" /\ Change(v)' \in ChangesIn[v]
  BY <1>1, <1>4, <1>9, WorktreeTyped DEF Comparing, ComparisonSteps, Change
<1>16. StashMoves(v)
  BY <1>1, <1>9, <1>15, StashMoved
<1>17. VerificationFrames'
  BY <1>7, <1>9, <1>12, <1>13, <1>14, <1>15, <1>16, FramesStand
<1> QED
  BY <1>1, <1>7, <1>9, <1>12, <1>14, <1>16, <1>17 DEF x, t, d

-----------------------------------------------------------------------------
(***************************************************************************)
(* What a check finds and what it said, step by step.                      *)
(***************************************************************************)
Alone(w) == \A v \in Worktrees \ {w} : ~Comparing(v)

IsAside(w) ==
    IF check[w].stashed THEN stash # <<>> /\ Purged(Last(stash)) = WorkOf(w) ELSE Purged(tip[w]) = WorkOf(w)

IsBuried(w) ==
    \E p \in DOMAIN stash : Purged(stash[p]) = WorkOf(w) /\ Cardinality(Stashing) <= Len(stash) - p

TipFits(w) == tip[w] = IF check[w].pass = "review" /\ work[w].path = "oss" THEN WorkOf(w) ELSE Base

\* what the change shows without the fix
Expected(w) == IF Change(w).class = "refactor" THEN Change(w).before ELSE Change(w).unfixed

Begun(w) == check[w].at \notin {"idle", "retry", "written"}

WorkInPlace ==
    {"written", "called", "compared", "accepted", "rejecting", "refused", "certified", "raised"}

CheckFits(w) ==
    /\ TipFits(w)
    /\ ~Begun(w) \/ check[w].at = "rejecting" => check[w].pass = "acceptance"
    /\ check[w].at \in WorkInPlace => Purged(tree[w]) = WorkOf(w)
    /\ Begun(w) => diff[w] = "realized"
    /\ Comparing(w) => Alone(w) /\ IsAside(w)
    /\ check[w].at = "at head" => Purged(tree[w]) = Purged(tip[w])
    /\ check[w].at \in {"stashed", "baseline"} => check[w].overlays = BringsTest(w)
    /\ check[w].at = "baseline" => tree[w] = WithOverlay(w, Base)
    /\ check[w].at \in {"captured", "at head", "compared"} => check[w].baseline \in {"raised", Expected(w)}
    /\ check[w].at \in {"broken", "killed"} =>
           IsBuried(w) \/ Purged(tip[w]) = WorkOf(w) \/ Purged(tree[w]) = WorkOf(w)

SaidFits(w) ==
    \A pass \in {"acceptance", "review"} :
        /\ said[w][pass] = "ok" => ClaimHolds(Change(w))
        /\ said[w][pass] \in Refuting => ~ClaimHolds(Change(w))

VerificationInv ==
    VerificationFrames /\ \A w \in Worktrees \ overlapped : CheckFits(w) /\ SaidFits(w)

\* A change's work is never the base's.
LEMMA WorkIsNotBase ==
    ASSUME VerificationFrames, NEW w \in Worktrees
    PROVE  /\ WorkOf(w) # Base /\ WorkOf(w).code = w /\ Purged(WorkOf(w)) = WorkOf(w)
           /\ WorkOf(w).test = IF BringsTest(w) THEN w ELSE "base"
           /\ Purged(Base) = Base
<1>1. w # "base"
  BY WorktreeTyped
<1>2. /\ WorkOf(w).code = w /\ WorkOf(w).test = (IF BringsTest(w) THEN w ELSE "base") /\ ~WorkOf(w).caches
      /\ Base.code = "base" /\ ~Base.caches
  BY DEF WorkOf, Base
<1>3. \A t \in Trees : ~t.caches => Purged(t) = t
  BY DEF Purged, Trees
<1>4. Purged(WorkOf(w)) = WorkOf(w) /\ Purged(Base) = Base
  BY <1>2, <1>3, WorktreeTyped
<1> QED
  BY <1>1, <1>2, <1>4

\* A tree without its caches.
LEMMA PurgedTree ==
    ASSUME NEW t \in Trees
    PROVE  /\ Purged(t) \in Trees /\ Purged(t).code = t.code /\ Purged(t).test = t.test
           /\ Purged(Purged(t)) = Purged(t) /\ ~Purged(t).caches
           /\ \A b \in BOOLEAN : Purged([t EXCEPT !.caches = b]) = Purged(t)
           /\ (~t.caches => Purged(t) = t)
  BY DEF Purged, Trees

\* What a step of one worktree leaves of another.
LEMMA OthersFit ==
    ASSUME VerificationFrames, NEW v \in Worktrees, NEW w \in Worktrees, w # v, OnlyAt(v), StashMoves(v),
           CheckFits(w), Comparing(w) => stash' = stash /\ ~Comparing(v)'
    PROVE  CheckFits(w)'
<1>1. /\ work'[w] = work[w] /\ tree'[w] = tree[w] /\ tip'[w] = tip[w]
      /\ diff'[w] = diff[w] /\ check'[w] = check[w]
  BY DEF OnlyAt
<1>2. /\ WorkOf(w)' = WorkOf(w) /\ (BringsTest(w)' = BringsTest(w)) /\ Expected(w)' = Expected(w)
      /\ (Comparing(w)' = Comparing(w)) /\ (Begun(w)' = Begun(w)) /\ (TipFits(w)' = TipFits(w))
      /\ WithOverlay(w, Base)' = WithOverlay(w, Base)
  BY <1>1 DEF WorkOf, BringsTest, Expected, Comparing, Begun, TipFits, WithOverlay, Change, Base
<1>3. Comparing(w) => Alone(w)' /\ IsAside(w)'
  <2> SUFFICES ASSUME Comparing(w) PROVE Alone(w)' /\ IsAside(w)'
    OBVIOUS
  <2>1. Alone(w) /\ IsAside(w) /\ stash' = stash /\ ~Comparing(v)'
    BY DEF CheckFits
  <2>2. Alone(w)'
    BY <2>1 DEF Alone, OnlyAt, Comparing
  <2>3. IsAside(w)'
    BY <1>1, <1>2, <2>1 DEF IsAside
  <2> QED
    BY <2>2, <2>3
<1>4. IsBuried(w) => IsBuried(w)'
  <2> SUFFICES ASSUME IsBuried(w) PROVE IsBuried(w)'
    OBVIOUS
  <2>1. PICK p \in DOMAIN stash : Purged(stash[p]) = WorkOf(w) /\ Cardinality(Stashing) <= Len(stash) - p
    BY DEF IsBuried
  <2>2. p \in DOMAIN stash' /\ stash'[p] = stash[p] /\ Cardinality(Stashing') <= Len(stash') - p
    BY <2>1, StashStands
  <2> QED
    BY <1>2, <2>1, <2>2 DEF IsBuried
<1> QED
  BY <1>1, <1>2, <1>3, <1>4 DEF CheckFits

\* What a verdict says, when the check finds its trees: the suite, alone or
\* after the class's own checks, is the change's.
LEMMA VerdictMeans ==
    ASSUME VerificationFrames, NEW w \in Worktrees, CheckFits(w), NEW verdict \in Verdicts(w),
           check[w].at = "compared" \/ (check[w].at = "called" /\ ~Compares(w))
    PROVE  /\ verdict = "ok" => ClaimHolds(Change(w))
           /\ verdict \in Refuting => ~ClaimHolds(Change(w))
<1> DEFINE c == Change(w)
<1>1. c \in Changes /\ tree[w] \in Trees
  BY WorktreeTyped
<1>2. Purged(tree[w]) = WorkOf(w) /\ diff[w] = "realized"
  BY DEF CheckFits, WorkInPlace, Begun
<1>3. tree[w].code = w /\ (BringsTest(w) => tree[w].test = w)
  BY <1>1, <1>2, PurgedTree, WorkIsNotBase
<1>4. /\ SuiteVerdicts(w) \subseteq {"ok", "suite", "quoting suite", "raised"}
      /\ \A v \in SuiteVerdicts(w) : /\ v = "ok" => c.suite = "pass"
                                     /\ v \in Refuting => c.suite # "pass"
  BY <1>3, SuiteShows
<1>w. w # "base"
  BY WorktreeTyped
<1>5. CASE c.class = "scaffold"
  <2>1. verdict \in SuiteVerdicts(w)
    BY <1>5 DEF Verdicts
  <2> QED
    BY <1>4, <1>5, <2>1 DEF ClaimHolds
<1>6. CASE c.class = "bump"
  <2>1. verdict \in BumpVerdicts(w)
    BY <1>6 DEF Verdicts
  <2>2. FieldsKnown(w) <=> c.declared \/ (c.pairs = 1 /\ c.tool)
    BY <1>2 DEF FieldsKnown
  <2>3. ClaimHolds(c) <=> /\ c.declared \/ (c.pairs = 1 /\ c.tool)
                          /\ c.applies /\ c.manifest /\ c.lockfile # "stale" /\ c.suite = "pass"
    BY <1>6 DEF ClaimHolds
  <2> HIDE DEF c
  <2>4. CASE FieldsKnown(w) /\ c.applies /\ c.manifest /\ c.lockfile # "stale"
    <3>1. verdict \in SuiteVerdicts(w)
      BY <2>1, <2>4 DEF BumpVerdicts, c
    <3> QED
      BY <1>4, <2>2, <2>3, <2>4, <3>1 DEF c
  <2>5. CASE ~(FieldsKnown(w) /\ c.applies /\ c.manifest /\ c.lockfile # "stale")
    <3>1. verdict # "ok"
      BY <2>1, <2>5 DEF BumpVerdicts, c
    <3> QED
      BY <2>2, <2>3, <2>5, <3>1 DEF c
  <2> QED
    BY <2>4, <2>5
<1>7. CASE c.class = "feature"
  <2>1. verdict \in FeatureVerdicts(w)
    BY <1>7 DEF Verdicts
  <2>2. ClaimHolds(c) <=> c.covers /\ c.suite = "pass"
    BY <1>7 DEF ClaimHolds
  <2>3. \/ verdict \in SuiteVerdicts(w) /\ verdict # "ok"
        \/ "ok" \in SuiteVerdicts(w) /\ verdict = "test_coverage" /\ ~c.covers
        \/ "ok" \in SuiteVerdicts(w) /\ verdict \in {"spec_claim", "spec_criteria", "ok"} /\ c.covers
    BY <1>2, <2>1 DEF FeatureVerdicts
  <2> QED
    BY <1>4, <2>2, <2>3 DEF Refuting
<1>8. CASE c.class = "refactor"
  <2>1. verdict \in RefactorVerdicts(w) /\ Compares(w)
    BY <1>8 DEF Verdicts, Compares
  <2>2. check[w].at = "compared"
    BY <2>1
  <2>3. check[w].baseline \in {"raised", c.before}
    BY <1>8, <2>2 DEF CheckFits, Expected
  <2>4. ShownOn(w, tree[w]) = {c.after}
    BY <1>3, <1>8, <1>w DEF ShownOn
  <2>5. c.before \in TestSets /\ c.after \in TestSets
    BY <1>1, <1>8, ChangeByClass DEF Refactors
  <2>6. ClaimHolds(c) <=> c.before = c.after /\ c.before # "no tests"
    BY <1>8 DEF ClaimHolds
  <2> HIDE DEF c
  <2>7. CASE check[w].baseline = "raised"
    <3>1. verdict = "raised"
      BY <2>1, <2>7 DEF RefactorVerdicts
    <3> QED
      BY <3>1 DEF Refuting
  <2>8. CASE check[w].baseline # "raised"
    <3>1. check[w].baseline = c.before
      BY <2>3, <2>8
    <3>2. verdict = IF c.before = "no tests" /\ c.after = "no tests" THEN "empty"
                    ELSE IF c.before = c.after THEN "ok" ELSE "divergence"
      BY <2>1, <2>4, <2>8, <3>1 DEF RefactorVerdicts
    <3>3. verdict = "ok" => c.before = c.after /\ c.before # "no tests"
      BY <3>2
    <3>4. verdict # "ok" => ~(c.before = c.after /\ c.before # "no tests")
      BY <3>2
    <3> QED
      BY <2>6, <3>3, <3>4 DEF c, Refuting
  <2> QED
    BY <2>7, <2>8
<1>9. CASE c.class = "bugfix"
  <2>1. verdict \in BugfixVerdicts(w)
    BY <1>9 DEF Verdicts
  <2>2. ClaimHolds(c) <=> c.names # "nothing" /\ c.unfixed = "fail" /\ c.fixed = "pass" /\ c.suite = "pass"
    BY <1>9 DEF ClaimHolds
  <2>3. /\ c.names \in {"task", "diff", "nothing"} /\ c.unfixed \in {"pass", "fail"} /\ c.fixed \in {"pass", "fail"}
    BY <1>1, <1>9, ChangeByClass DEF Bugfixes
  <2>4. HasCommand(w) <=> c.names # "nothing"
    BY <1>2, <2>3 DEF HasCommand
  <2>5. ShownOn(w, tree[w]) = {c.fixed}
    BY <1>3, <1>9, <1>w DEF ShownOn
  <2>6. HasCommand(w) => check[w].baseline \in {"raised", c.unfixed}
    <3>1. HasCommand(w) => check[w].at = "compared"
      BY <1>9 DEF Compares
    <3> QED
      BY <1>9, <3>1 DEF CheckFits, Expected
  <2> HIDE DEF c
  <2>7. CASE ~HasCommand(w)
    <3>1. verdict = "regression_command"
      BY <2>1, <2>7 DEF BugfixVerdicts
    <3> QED
      BY <2>2, <2>4, <2>7, <3>1 DEF c
  <2>8. CASE HasCommand(w) /\ check[w].baseline = "raised"
    <3>1. verdict = "raised"
      BY <2>1, <2>8 DEF BugfixVerdicts
    <3> QED
      BY <3>1 DEF Refuting
  <2>9. CASE HasCommand(w) /\ check[w].baseline # "raised"
    <3>1. check[w].baseline = c.unfixed
      BY <2>6, <2>9
    <3>2. CASE c.unfixed = "pass"
      <4>1. verdict = "baseline_should_fail"
        BY <2>1, <2>9, <3>1, <3>2 DEF BugfixVerdicts
      <4> QED
        BY <2>2, <3>2, <4>1 DEF c
    <3>3. CASE c.unfixed = "fail" /\ c.fixed = "fail"
      <4>1. verdict = "post_should_pass"
        BY <2>1, <2>5, <2>9, <3>1, <3>3 DEF BugfixVerdicts
      <4> QED
        BY <2>2, <3>3, <4>1 DEF c
    <3>4. CASE c.unfixed = "fail" /\ c.fixed = "pass"
      <4>1. verdict \in SuiteVerdicts(w)
        BY <2>1, <2>5, <2>9, <3>1, <3>4 DEF BugfixVerdicts
      <4> QED
        BY <1>4, <2>2, <2>4, <2>9, <3>4, <4>1 DEF c
    <3> QED
      BY <2>3, <3>2, <3>3, <3>4
  <2> QED
    BY <2>7, <2>8, <2>9
<1> QED
  BY <1>1, <1>5, <1>6, <1>7, <1>8, <1>9, ChangeByClass

\* A step that leaves the work and the diff leaves what is said of them.
LEMMA SameWork ==
    ASSUME NEW v \in Worktrees, work'[v] = work[v], diff'[v] = diff[v]
    PROVE  /\ Change(v)' = Change(v) /\ WorkOf(v)' = WorkOf(v) /\ (BringsTest(v)' = BringsTest(v))
           /\ Expected(v)' = Expected(v) /\ (Compares(v)' = Compares(v))
  BY DEF Change, WorkOf, BringsTest, Expected, Compares, HasCommand

\* The steps that begin a check.
LEMMA DevelopFits ==
    ASSUME VerificationFrames, NEW v \in Worktrees, Develop(v), CheckFits(v)
    PROVE  CheckFits(v)' /\ SaidFits(v)'
<1>1. /\ check[v].at \in {"idle", "retry"} /\ check'[v] = [NoCheck EXCEPT !.at = "written"]
      /\ tree'[v] = [WorkOf(v)' EXCEPT !.caches = TRUE] /\ tip'[v] = tip[v] /\ said'[v] = Unverified
  BY DevelopMoves
<1>2. check'[v].at = "written" /\ check'[v].pass = "acceptance"
  BY <1>1 DEF NoCheck
<1>3. tip[v] = Base
  BY <1>1 DEF CheckFits, TipFits, Begun
<1>4. Purged(tree'[v]) = WorkOf(v)'
  <2>1. WorkOf(v)' \in Trees /\ ~WorkOf(v)'.caches
    BY DEF WorkOf, Trees, Owners
  <2> QED
    BY <1>1, <2>1, PurgedTree
<1>5. CheckFits(v)'
  BY <1>1, <1>2, <1>3, <1>4
     DEF CheckFits, TipFits, Begun, Comparing, ComparisonSteps, WorkInPlace, Base, Purged
<1>6. SaidFits(v)'
  BY <1>1 DEF SaidFits, Unverified, Refuting
<1> QED
  BY <1>5, <1>6

LEMMA BuildContextFits ==
    ASSUME VerificationFrames, NEW v \in Worktrees, BuildContext(v), CheckFits(v)
    PROVE  CheckFits(v)'
<1>1. /\ check[v].at = "written" /\ check'[v] = [check[v] EXCEPT !.at = "called"]
      /\ tree'[v] = Purged(tree[v]) /\ tip'[v] = tip[v] /\ work'[v] = work[v]
      /\ diff'[v] = IF Purged(tree[v]) = tip[v] THEN "empty" ELSE "realized"
  BY BuildContextMoves
<1>2. check'[v].at = "called" /\ check'[v].pass = check[v].pass
  BY <1>1, WorktreeTyped DEF CheckFrame
<1>3. tip[v] = Base /\ Purged(tree[v]) = WorkOf(v) /\ check[v].pass = "acceptance"
  BY <1>1 DEF CheckFits, TipFits, Begun, WorkInPlace
<1>4. diff'[v] = "realized" /\ Purged(tree'[v]) = WorkOf(v)
  BY <1>1, <1>3, WorkIsNotBase
<1>5. WorkOf(v)' = WorkOf(v)
  BY <1>1 DEF WorkOf, BringsTest, Change
<1> QED
  BY <1>1, <1>2, <1>3, <1>4, <1>5 DEF CheckFits, TipFits, Begun, Comparing, ComparisonSteps, WorkInPlace, Base

LEMMA StashWorkFits ==
    ASSUME VerificationFrames, NEW v \in Worktrees, StashWork(v), CheckFits(v), v \notin overlapped'
    PROVE  CheckFits(v)'
<1> DEFINE x == [check[v] EXCEPT !.at = "stashed", !.stashed = Dirty(v), !.baseline = "none",
                                 !.overlays = (BringsTest(v) /\ diff[v] = "realized" /\ tree[v].test = v)]
<1>1. /\ check'[v] = x /\ tree'[v] = tip[v] /\ tip'[v] = tip[v] /\ OnlyAt(v)
      /\ work'[v] = work[v] /\ diff'[v] = diff[v]
  BY StashWorkMoves DEF StepAt
<1>2. /\ check'[v].at = "stashed" /\ check'[v].pass = check[v].pass /\ check'[v].stashed = Dirty(v)
      /\ check'[v].overlays = (BringsTest(v) /\ diff[v] = "realized" /\ tree[v].test = v)
  BY <1>1, WorktreeTyped DEF CheckFrame
<1>3. /\ Change(v)' = Change(v) /\ WorkOf(v)' = WorkOf(v) /\ (BringsTest(v)' = BringsTest(v))
  BY <1>1, SameWork
<1>4. /\ check[v].at = "called" /\ stash' = IF Dirty(v) THEN Append(stash, tree[v]) ELSE stash
      /\ \A u \in Worktrees \ {v} : ~Comparing(u)
  BY DEF StashWork, CheckIs
<1>5. Purged(tree[v]) = WorkOf(v) /\ diff[v] = "realized"
  BY <1>4 DEF CheckFits, WorkInPlace, Begun
<1>6. Alone(v)'
  BY <1>1, <1>4 DEF Alone, OnlyAt, Comparing
<1>7. IsAside(v)'
  <2>1. CASE Dirty(v)
    <3>1. stash \in Seq(Trees) /\ tree[v] \in Trees
      BY WorktreeTyped DEF VerificationFrames, VerificationTypeOK
    <3>2. stash' = Append(stash, tree[v])
      BY <1>4, <2>1
    <3>3. stash' # <<>> /\ Last(stash') = tree[v]
      BY <3>1, <3>2 DEF Last
    <3> QED
      BY <1>2, <1>3, <1>5, <2>1, <3>3 DEF IsAside
  <2>2. CASE ~Dirty(v)
    BY <1>1, <1>2, <1>3, <1>5, <2>2 DEF IsAside, Dirty
  <2> QED
    BY <2>1, <2>2
<1>8. check'[v].overlays = BringsTest(v)'
  <2>1. BringsTest(v) => tree[v].test = v
    BY <1>5, WorktreeTyped, PurgedTree, WorkIsNotBase
  <2> QED
    BY <1>2, <1>3, <1>5, <2>1 DEF BringsTest
<1>9. TipFits(v)'
  BY <1>1, <1>2, <1>3 DEF CheckFits, TipFits, Base
<1> QED
  BY <1>1, <1>2, <1>5, <1>6, <1>7, <1>8, <1>9 DEF CheckFits, Begun, Comparing, ComparisonSteps, WorkInPlace

\* The steps of a comparison.
LEMMA StaysAside ==
    ASSUME NEW v \in Worktrees, OnlyAt(v), Alone(v) /\ IsAside(v), stash' = stash, tip'[v] = tip[v],
           work'[v] = work[v], diff'[v] = diff[v], check'[v].stashed = check[v].stashed
    PROVE  Alone(v)' /\ IsAside(v)'
<1>1. WorkOf(v)' = WorkOf(v)
  BY SameWork
<1> QED
  BY <1>1 DEF Alone, IsAside, OnlyAt, Comparing

LEMMA GoToBaselineFits ==
    ASSUME VerificationFrames, NEW v \in Worktrees, GoToBaseline(v), CheckFits(v)
    PROVE  CheckFits(v)'
<1>1. /\ check'[v] = [check[v] EXCEPT !.at = "baseline"] /\ tree'[v] = WithOverlay(v, Base)
      /\ tip'[v] = tip[v] /\ OnlyAt(v) /\ work'[v] = work[v] /\ diff'[v] = diff[v]
  BY GoToBaselineMoves DEF StepAt
<1>2. /\ check'[v].at = "baseline" /\ check'[v].pass = check[v].pass /\ check'[v].stashed = check[v].stashed
      /\ check'[v].overlays = check[v].overlays
  BY <1>1, WorktreeTyped DEF CheckFrame
<1>3. /\ Change(v)' = Change(v) /\ WorkOf(v)' = WorkOf(v) /\ (BringsTest(v)' = BringsTest(v))
  BY <1>1, SameWork
<1>4. check[v].at = "stashed" /\ stash' = stash
  BY DEF GoToBaseline, CheckIs
<1>5. Alone(v)' /\ IsAside(v)'
  BY <1>1, <1>2, <1>4, StaysAside DEF CheckFits, Comparing, ComparisonSteps
<1>6. diff'[v] = "realized" /\ check'[v].overlays = BringsTest(v)'
  BY <1>1, <1>2, <1>3, <1>4 DEF CheckFits, Begun
<1>7. TipFits(v)'
  BY <1>1, <1>2, <1>3 DEF CheckFits, TipFits, Base
<1>8. tree'[v] = WithOverlay(v, Base)'
  BY <1>1, <1>2 DEF WithOverlay, Base
<1> QED
  BY <1>2, <1>5, <1>6, <1>7, <1>8 DEF CheckFits, Begun, Comparing, ComparisonSteps, WorkInPlace

LEMMA CaptureFits ==
    ASSUME VerificationFrames, NEW v \in Worktrees, Capture(v), CheckFits(v)
    PROVE  CheckFits(v)'
<1>1. PICK r \in ShownOn(v, tree[v]) :
         /\ check'[v] = [check[v] EXCEPT !.at = "captured", !.baseline = r]
         /\ tip'[v] = tip[v] /\ OnlyAt(v) /\ work'[v] = work[v] /\ diff'[v] = diff[v]
  BY CaptureMoves DEF StepAt
<1>2. /\ check'[v].at = "captured" /\ check'[v].pass = check[v].pass /\ check'[v].stashed = check[v].stashed
      /\ check'[v].baseline = r
  BY <1>1, WorktreeTyped DEF CheckFrame
<1>3. /\ Change(v)' = Change(v) /\ WorkOf(v)' = WorkOf(v) /\ Expected(v)' = Expected(v)
  BY <1>1, SameWork
<1>4. check[v].at = "baseline" /\ stash' = stash
  BY DEF Capture, CheckIs
<1>5. Alone(v)' /\ IsAside(v)'
  BY <1>1, <1>2, <1>4, StaysAside DEF CheckFits, Comparing, ComparisonSteps
<1>6. diff'[v] = "realized" /\ tree[v] = WithOverlay(v, Base) /\ check[v].overlays = BringsTest(v)
  BY <1>1, <1>4 DEF CheckFits, Begun
<1>7. TipFits(v)'
  BY <1>1, <1>2, <1>3 DEF CheckFits, TipFits, Base
<1>8. r = Expected(v)
  <2>1. Compares(v)
    BY <1>4 DEF VerificationFrames, ComparesWithCause, Comparing, ComparisonSteps
  <2>2. tree[v].code = "base" /\ (BringsTest(v) => tree[v].test = v)
    BY <1>6 DEF WithOverlay, Base
  <2>3. CASE Change(v).class = "refactor"
    BY <1>1, <2>2, <2>3 DEF ShownOn, Expected
  <2>4. CASE Change(v).class = "bugfix"
    BY <1>1, <2>2, <2>4 DEF ShownOn, Expected
  <2> QED
    BY <2>1, <2>3, <2>4 DEF Compares
<1> QED
  BY <1>2, <1>3, <1>5, <1>6, <1>7, <1>8 DEF CheckFits, Begun, Comparing, ComparisonSteps, WorkInPlace

LEMMA BaselineRaisesFits ==
    ASSUME VerificationFrames, NEW v \in Worktrees, BaselineRaises(v), CheckFits(v)
    PROVE  CheckFits(v)'
<1>1. /\ check'[v] = [check[v] EXCEPT !.at = "captured", !.baseline = "raised"]
      /\ tip'[v] = tip[v] /\ OnlyAt(v) /\ work'[v] = work[v] /\ diff'[v] = diff[v]
  BY BaselineRaisesMoves DEF StepAt
<1>2. /\ check'[v].at = "captured" /\ check'[v].pass = check[v].pass /\ check'[v].stashed = check[v].stashed
      /\ check'[v].baseline = "raised"
  BY <1>1, WorktreeTyped DEF CheckFrame
<1>3. Change(v)' = Change(v) /\ WorkOf(v)' = WorkOf(v)
  BY <1>1, SameWork
<1>4. check[v].at \in {"stashed", "baseline"} /\ stash' = stash
  BY DEF BaselineRaises
<1>5. Alone(v)' /\ IsAside(v)'
  BY <1>1, <1>2, <1>4, StaysAside DEF CheckFits, Comparing, ComparisonSteps
<1>6. diff'[v] = "realized"
  BY <1>1, <1>4 DEF CheckFits, Begun
<1>7. TipFits(v)'
  BY <1>1, <1>2, <1>3 DEF CheckFits, TipFits, Base
<1> QED
  BY <1>2, <1>5, <1>6, <1>7 DEF CheckFits, Begun, Comparing, ComparisonSteps, WorkInPlace

LEMMA RestoreHeadFits ==
    ASSUME VerificationFrames, NEW v \in Worktrees, RestoreHead(v), CheckFits(v)
    PROVE  CheckFits(v)'
<1>1. /\ check'[v] = [check[v] EXCEPT !.at = "at head"]
      /\ tree'[v] = [tip[v] EXCEPT !.caches = tree[v].caches]
      /\ tip'[v] = tip[v] /\ OnlyAt(v) /\ work'[v] = work[v] /\ diff'[v] = diff[v]
  BY RestoreHeadMoves DEF StepAt
<1>2. /\ check'[v].at = "at head" /\ check'[v].pass = check[v].pass /\ check'[v].stashed = check[v].stashed
      /\ check'[v].baseline = check[v].baseline
  BY <1>1, WorktreeTyped DEF CheckFrame
<1>3. Change(v)' = Change(v) /\ WorkOf(v)' = WorkOf(v) /\ Expected(v)' = Expected(v)
  BY <1>1, SameWork
<1>4. check[v].at = "captured" /\ stash' = stash
  BY DEF RestoreHead, CheckIs
<1>5. Alone(v)' /\ IsAside(v)'
  BY <1>1, <1>2, <1>4, StaysAside DEF CheckFits, Comparing, ComparisonSteps
<1>6. diff'[v] = "realized" /\ check'[v].baseline \in {"raised", Expected(v)'}
  BY <1>1, <1>2, <1>3, <1>4 DEF CheckFits, Begun
<1>7. TipFits(v)'
  BY <1>1, <1>2, <1>3 DEF CheckFits, TipFits, Base
<1>8. Purged(tree'[v]) = Purged(tip'[v])
  <2>1. tip[v] \in Trees /\ tree[v].caches \in BOOLEAN
    BY WorktreeTyped DEF Trees
  <2>2. Purged([tip[v] EXCEPT !.caches = tree[v].caches]) = Purged(tip[v])
    BY <2>1, PurgedTree
  <2> QED
    BY <1>1, <2>2
<1> QED
  BY <1>2, <1>5, <1>6, <1>7, <1>8 DEF CheckFits, Begun, Comparing, ComparisonSteps, WorkInPlace

LEMMA PopWorkFits ==
    ASSUME VerificationFrames, NEW v \in Worktrees, PopWork(v), CheckFits(v)
    PROVE  CheckFits(v)'
<1>1. /\ check[v].at = "at head" /\ check'[v] = [check[v] EXCEPT !.at = "compared"]
      /\ tree'[v] = IF check[v].stashed THEN Last(stash) ELSE tree[v]
      /\ tip'[v] = tip[v] /\ work'[v] = work[v] /\ diff'[v] = diff[v]
  BY PopWorkMoves DEF StepAt
<1>2. /\ check'[v].at = "compared" /\ check'[v].pass = check[v].pass /\ check'[v].baseline = check[v].baseline
  BY <1>1, WorktreeTyped DEF CheckFrame
<1>3. Change(v)' = Change(v) /\ WorkOf(v)' = WorkOf(v) /\ Expected(v)' = Expected(v)
  BY <1>1, SameWork
<1>4. /\ diff'[v] = "realized" /\ check'[v].baseline \in {"raised", Expected(v)'}
      /\ Purged(tree[v]) = Purged(tip[v]) /\ IsAside(v)
  BY <1>1, <1>2, <1>3 DEF CheckFits, Begun, Comparing, ComparisonSteps
<1>5. TipFits(v)'
  BY <1>1, <1>2, <1>3 DEF CheckFits, TipFits, Base
<1>6. Purged(tree'[v]) = WorkOf(v)
  <2>1. CASE check[v].stashed
    BY <1>1, <1>4, <2>1 DEF IsAside
  <2>2. CASE ~check[v].stashed
    <3>1. tree'[v] = tree[v] /\ Purged(tip[v]) = WorkOf(v)
      BY <1>1, <1>4, <2>2 DEF IsAside
    <3> QED
      BY <1>4, <3>1
  <2> QED
    BY <2>1, <2>2
<1> QED
  BY <1>2, <1>3, <1>4, <1>5, <1>6 DEF CheckFits, Begun, Comparing, ComparisonSteps, WorkInPlace

\* A comparison that was cut short: its work is on the stash with nothing
\* left to pop above it, or in the commit.
LEMMA CutShortFits ==
    ASSUME VerificationFrames, NEW v \in Worktrees, RestoreFails(v) \/ CheckKilled(v), CheckFits(v)
    PROVE  CheckFits(v)'
<1>1. PICK where \in {"broken", "killed"} :
         /\ Comparing(v) /\ check'[v] = [check[v] EXCEPT !.at = where] /\ OnlyAt(v)
         /\ tip'[v] = tip[v] /\ work'[v] = work[v] /\ diff'[v] = diff[v]
  BY CutShortMoves DEF StepAt
<1>2. check'[v].at = where /\ check'[v].pass = check[v].pass
  BY <1>1, WorktreeTyped DEF CheckFrame
<1>3. WorkOf(v)' = WorkOf(v)
  BY <1>1, SameWork
<1>4. diff'[v] = "realized" /\ Alone(v) /\ IsAside(v) /\ stash' = stash
  BY <1>1 DEF CheckFits, Begun, Comparing, ComparisonSteps, RestoreFails, CheckKilled
<1>5. TipFits(v)'
  BY <1>1, <1>2, <1>3 DEF CheckFits, TipFits, Base
<1>6. IsBuried(v)' \/ Purged(tip'[v]) = WorkOf(v)'
  <2>1. CASE check[v].stashed
    <3>1. Stashing' = {}
      <4>1. ASSUME NEW u \in Worktrees PROVE ~Comparing(u)'
        <5>1. CASE u = v
          BY <1>2, <5>1 DEF Comparing, ComparisonSteps
        <5>2. CASE u # v
          BY <1>1, <1>4, <5>2 DEF Alone, OnlyAt, Comparing
        <5> QED
          BY <5>1, <5>2
      <4> QED
        BY <4>1 DEF Stashing
    <3>2. Cardinality(Stashing') = 0
      BY <3>1, FS_EmptySet
    <3>3. stash \in Seq(Trees) /\ stash # <<>> /\ Purged(stash[Len(stash)]) = WorkOf(v)
      BY <1>4, <2>1 DEF IsAside, Last, VerificationFrames, VerificationTypeOK
    <3>4. Len(stash) \in DOMAIN stash /\ Cardinality(Stashing') <= Len(stash) - Len(stash)
      BY <3>2, <3>3
    <3> QED
      BY <1>3, <1>4, <3>3, <3>4 DEF IsBuried
  <2>2. CASE ~check[v].stashed
    BY <1>1, <1>3, <1>4, <2>2 DEF IsAside
  <2> QED
    BY <2>1, <2>2
<1> QED
  BY <1>2, <1>4, <1>5, <1>6 DEF CheckFits, Begun, Comparing, ComparisonSteps, WorkInPlace

\* The verdict and what follows it.
LEMMA JudgeFits ==
    ASSUME VerificationFrames, NEW v \in Worktrees, Judge(v), CheckFits(v), SaidFits(v)
    PROVE  CheckFits(v)' /\ SaidFits(v)'
<1>1. PICK verdict \in Verdicts(v) :
         /\ check'[v] = [check[v] EXCEPT !.at = AfterVerdict(check[v].pass, verdict)]
         /\ tree'[v] = [tree[v] EXCEPT !.caches = TRUE] /\ said'[v] = [said[v] EXCEPT ![check[v].pass] = verdict]
         /\ tip'[v] = tip[v] /\ work'[v] = work[v] /\ diff'[v] = diff[v]
  BY JudgeMoves DEF StepAt
<1>2. /\ check'[v].at = AfterVerdict(check[v].pass, verdict) /\ check'[v].pass = check[v].pass
      /\ check[v].pass \in {"acceptance", "review"}
  BY <1>1, WorktreeTyped DEF CheckFrame
<1>3. Change(v)' = Change(v) /\ WorkOf(v)' = WorkOf(v)
  BY <1>1, SameWork
<1>4. check[v].at = "compared" \/ (check[v].at = "called" /\ ~Compares(v))
  BY DEF Judge, CheckIs
<1>5. Purged(tree'[v]) = WorkOf(v) /\ diff'[v] = "realized"
  <2>1. Purged(tree[v]) = WorkOf(v) /\ diff[v] = "realized"
    BY <1>4 DEF CheckFits, WorkInPlace, Begun
  <2> QED
    BY ZenonT(60), <1>1, <2>1, WorktreeTyped, PurgedTree
<1>6. TipFits(v)'
  BY <1>1, <1>2, <1>3 DEF CheckFits, TipFits, Base
<1>7. /\ check'[v].at \in {"raised", "accepted", "rejecting", "certified", "refused"}
      /\ check'[v].at = "rejecting" => check'[v].pass = "acceptance"
  BY <1>2 DEF AfterVerdict
<1>8. SaidFits(v)'
  <2>1. /\ verdict = "ok" => ClaimHolds(Change(v))
        /\ verdict \in Refuting => ~ClaimHolds(Change(v))
    BY <1>4, VerdictMeans
  <2>2. \A pass \in {"acceptance", "review"} :
            said'[v][pass] = IF pass = check[v].pass THEN verdict ELSE said[v][pass]
    BY <1>1, <1>2, WorktreeTyped
  <2>3. \A pass \in {"acceptance", "review"} :
            /\ said'[v][pass] = "ok" => ClaimHolds(Change(v))
            /\ said'[v][pass] \in Refuting => ~ClaimHolds(Change(v))
    BY <2>1, <2>2 DEF SaidFits
  <2>4. ClaimHolds(Change(v))' = ClaimHolds(Change(v))
    BY <1>1 DEF Change, ClaimHolds
  <2> QED
    BY <2>3, <2>4 DEF SaidFits, Refuting, Axes
<1>9. CheckFits(v)'
  BY <1>3, <1>5, <1>6, <1>7 DEF CheckFits, Begun, Comparing, ComparisonSteps, WorkInPlace
<1> QED
  BY <1>8, <1>9

LEMMA ReviewFits ==
    ASSUME VerificationFrames, NEW v \in Worktrees, ReviewAccepted(v) \/ CommitAccepted(v), CheckFits(v)
    PROVE  CheckFits(v)'
<1>1. PICK t \in {tree[v], Purged(tree[v])}, h \in {tip[v], Purged(tree[v])} :
         /\ check'[v] = [NoCheck EXCEPT !.at = "called", !.pass = "review"]
         /\ tree'[v] = t /\ tip'[v] = h /\ work'[v] = work[v] /\ diff'[v] = diff[v]
         /\ check[v].at = "accepted" /\ h = IF work[v].path = "oss" THEN Purged(tree[v]) ELSE tip[v]
  BY ReviewMoves DEF StepAt
<1>2. check'[v].at = "called" /\ check'[v].pass = "review"
  BY <1>1 DEF NoCheck
<1>3. WorkOf(v)' = WorkOf(v)
  BY <1>1, SameWork
<1>4. Purged(tree[v]) = WorkOf(v) /\ diff[v] = "realized"
  BY <1>1 DEF CheckFits, WorkInPlace, Begun
<1>5. Purged(tree'[v]) = WorkOf(v)
  BY <1>1, <1>4, WorktreeTyped, PurgedTree
<1>6. TipFits(v)'
  <2>1. CASE work[v].path = "oss"
    BY <1>1, <1>2, <1>3, <1>4, <2>1 DEF TipFits
  <2>2. CASE work[v].path # "oss"
    BY <1>1, <1>2, <2>2 DEF CheckFits, TipFits, Base
  <2> QED
    BY <2>1, <2>2
<1> QED
  BY <1>1, <1>2, <1>3, <1>4, <1>5, <1>6 DEF CheckFits, Begun, Comparing, ComparisonSteps, WorkInPlace

LEMMA RewindFits ==
    ASSUME VerificationFrames, NEW v \in Worktrees, RewindWork(v), CheckFits(v)
    PROVE  CheckFits(v)'
<1>1. PICK where \in {"retry", "rejected"} :
         /\ check'[v] = [check[v] EXCEPT !.at = where] /\ check[v].at = "rejecting"
         /\ tree'[v] = Base /\ tip'[v] = tip[v] /\ work'[v] = work[v] /\ diff'[v] = diff[v]
  BY RewindMoves DEF StepAt
<1>2. check'[v].at = where /\ check'[v].pass = check[v].pass
  BY <1>1, WorktreeTyped DEF CheckFrame
<1>3. check[v].pass = "acceptance" /\ diff[v] = "realized"
  BY <1>1 DEF CheckFits, Begun
<1>4. TipFits(v)'
  BY <1>1, <1>2, <1>3 DEF CheckFits, TipFits, Base
<1> QED
  BY <1>1, <1>2, <1>3, <1>4 DEF CheckFits, Begun, Comparing, ComparisonSteps, WorkInPlace

\* a step of v's check, of those in VerificationNext
CheckStep(v) ==
    \/ Develop(v) \/ BuildContext(v) \/ StashWork(v) \/ GoToBaseline(v) \/ Capture(v)
    \/ BaselineRaises(v) \/ RestoreHead(v) \/ PopWork(v) \/ RestoreFails(v) \/ CheckKilled(v)
    \/ Judge(v) \/ ReviewAccepted(v) \/ CommitAccepted(v) \/ RewindWork(v)

\* The frames hold after any step, and it is one worktree's.
LEMMA EveryStepFrames ==
    ASSUME VerificationFrames, NEW v \in Worktrees, CheckStep(v)
    PROVE  VerificationFrames' /\ OnlyAt(v) /\ StashMoves(v) /\ overlapped \subseteq overlapped'
<1>1. overlapped \subseteq overlapped'
  BY DEF CheckStep, Develop, BuildContext, StashWork, GoToBaseline, Capture, BaselineRaises, RestoreHead,
         PopWork, RestoreFails, CheckKilled, Judge, ReviewAccepted, CommitAccepted, RewindWork
<1>2. CASE Develop(v)
  BY <1>1, <1>2, DevelopMoves
<1>3. CASE BuildContext(v)
  BY <1>1, <1>3, BuildContextMoves
<1>4. CASE StashWork(v)
  BY <1>1, <1>4, StashWorkMoves DEF StepAt
<1>5. CASE GoToBaseline(v)
  BY <1>1, <1>5, GoToBaselineMoves DEF StepAt
<1>6. CASE Capture(v)
  BY <1>1, <1>6, CaptureMoves DEF StepAt
<1>7. CASE BaselineRaises(v)
  BY <1>1, <1>7, BaselineRaisesMoves DEF StepAt
<1>8. CASE RestoreHead(v)
  BY <1>1, <1>8, RestoreHeadMoves DEF StepAt
<1>9. CASE PopWork(v)
  BY <1>1, <1>9, PopWorkMoves DEF StepAt
<1>10. CASE RestoreFails(v) \/ CheckKilled(v)
  BY <1>1, <1>10, CutShortMoves DEF StepAt
<1>11. CASE Judge(v)
  BY <1>1, <1>11, JudgeMoves DEF StepAt
<1>12. CASE ReviewAccepted(v) \/ CommitAccepted(v)
  BY <1>1, <1>12, ReviewMoves DEF StepAt
<1>13. CASE RewindWork(v)
  BY <1>1, <1>13, RewindMoves DEF StepAt
<1> QED
  BY <1>2, <1>3, <1>4, <1>5, <1>6, <1>7, <1>8, <1>9, <1>10, <1>11, <1>12, <1>13 DEF CheckStep

\* While a comparison that overlaps no other lasts, nobody else's step moves
\* the stash or begins another.
LEMMA NobodyInterferes ==
    ASSUME VerificationFrames, NEW v \in Worktrees, CheckStep(v), NEW w \in Worktrees, w # v,
           w \notin overlapped', CheckFits(w), Comparing(w)
    PROVE  stash' = stash /\ ~Comparing(v)'
<1>1. ~Comparing(v)
  BY DEF CheckFits, Alone
<1>2. CASE Develop(v)
  <2>1. check'[v] = [NoCheck EXCEPT !.at = "written"] /\ stash' = stash
    BY <1>2, DevelopMoves DEF Develop
  <2> QED
    BY <2>1 DEF NoCheck, Comparing, ComparisonSteps
<1>3. CASE BuildContext(v)
  <2>1. check[v] \in CheckFrame
    BY WorktreeTyped
  <2>2. check'[v] = [check[v] EXCEPT !.at = "called"]
    BY <1>3, BuildContextMoves
  <2>3. check'[v].at = "called"
    BY <2>1, <2>2 DEF CheckFrame
  <2> QED
    BY <1>3, <2>3 DEF BuildContext, Comparing, ComparisonSteps
<1>4. CASE StashWork(v)
  <2>1. w \in {u \in Worktrees \ {v} : Comparing(u)}
    OBVIOUS
  <2>2. w \in overlapped'
    BY <1>4, <2>1 DEF StashWork
  <2> QED
    BY <2>2
<1>5. CASE \/ GoToBaseline(v) \/ Capture(v) \/ BaselineRaises(v) \/ RestoreHead(v) \/ PopWork(v)
           \/ RestoreFails(v) \/ CheckKilled(v)
  BY <1>1, <1>5 DEF GoToBaseline, Capture, BaselineRaises, RestoreHead, PopWork, RestoreFails, CheckKilled,
                    CheckIs, Comparing, ComparisonSteps
<1>6. CASE Judge(v)
  <2>1. PICK verdict \in Verdicts(v) : check'[v] = [check[v] EXCEPT !.at = AfterVerdict(check[v].pass, verdict)]
    BY <1>6, JudgeMoves DEF StepAt
  <2>2. check'[v].at = AfterVerdict(check[v].pass, verdict)
    BY <2>1, WorktreeTyped DEF CheckFrame
  <2> QED
    BY <1>6, <2>2 DEF Judge, AfterVerdict, Comparing, ComparisonSteps
<1>7. CASE ReviewAccepted(v) \/ CommitAccepted(v)
  <2>1. check'[v].at = "called"
    BY <1>7, ReviewMoves DEF StepAt, NoCheck
  <2> QED
    BY <1>7, <2>1 DEF ReviewAccepted, CommitAccepted, Comparing, ComparisonSteps
<1>8. CASE RewindWork(v)
  <2>1. PICK where \in {"retry", "rejected"} : check'[v] = [check[v] EXCEPT !.at = where]
    BY <1>8, RewindMoves DEF StepAt
  <2>2. check'[v].at = where
    BY <2>1, WorktreeTyped DEF CheckFrame
  <2> QED
    BY <1>8, <2>2 DEF RewindWork, Comparing, ComparisonSteps
<1> QED
  BY <1>2, <1>3, <1>4, <1>5, <1>6, <1>7, <1>8 DEF CheckStep

\* What a check's own step makes of it.
LEMMA OwnFit ==
    ASSUME VerificationFrames, NEW v \in Worktrees, CheckStep(v), v \notin overlapped', CheckFits(v), SaidFits(v)
    PROVE  CheckFits(v)' /\ SaidFits(v)'
<1>1. ASSUME said' = said, work' = work PROVE SaidFits(v)'
  <2>1. ClaimHolds(Change(v))' = ClaimHolds(Change(v))
    BY <1>1 DEF Change, ClaimHolds
  <2> QED
    BY <1>1, <2>1 DEF SaidFits, Refuting, Axes
<1>2. CASE Develop(v)
  BY <1>2, DevelopFits
<1>3. CASE BuildContext(v)
  BY <1>1, <1>3, BuildContextFits DEF BuildContext
<1>4. CASE StashWork(v)
  BY <1>1, <1>4, StashWorkFits DEF StashWork
<1>5. CASE GoToBaseline(v)
  BY <1>1, <1>5, GoToBaselineFits DEF GoToBaseline
<1>6. CASE Capture(v)
  BY <1>1, <1>6, CaptureFits DEF Capture
<1>7. CASE BaselineRaises(v)
  BY <1>1, <1>7, BaselineRaisesFits DEF BaselineRaises
<1>8. CASE RestoreHead(v)
  BY <1>1, <1>8, RestoreHeadFits DEF RestoreHead
<1>9. CASE PopWork(v)
  BY <1>1, <1>9, PopWorkFits DEF PopWork
<1>10. CASE RestoreFails(v) \/ CheckKilled(v)
  BY <1>1, <1>10, CutShortFits DEF RestoreFails, CheckKilled
<1>11. CASE Judge(v)
  BY <1>11, JudgeFits
<1>12. CASE ReviewAccepted(v) \/ CommitAccepted(v)
  BY <1>1, <1>12, ReviewFits DEF ReviewAccepted, CommitAccepted
<1>13. CASE RewindWork(v)
  BY <1>1, <1>13, RewindFits DEF RewindWork
<1> QED
  BY <1>2, <1>3, <1>4, <1>5, <1>6, <1>7, <1>8, <1>9, <1>10, <1>11, <1>12, <1>13 DEF CheckStep

LEMMA VerificationStarts == VerificationInit => VerificationInv
<1> SUFFICES ASSUME VerificationInit PROVE VerificationInv
  OBVIOUS
<1>1. /\ tree = [w \in Worktrees |-> Base] /\ tip = [w \in Worktrees |-> Base]
      /\ diff = [w \in Worktrees |-> "none"] /\ stash = << >> /\ check = [w \in Worktrees |-> NoCheck]
      /\ said = [w \in Worktrees |-> Unverified] /\ overlapped = {} /\ checkFaults = 0
  BY DEF VerificationInit
<1>2. work = [w \in Worktrees |-> [change |-> CHOOSE c \in ChangesIn[w] : TRUE, path |-> CHOOSE p \in PathsOf[w] : TRUE]]
  BY DEF VerificationInit
<1>3. \A w \in Worktrees : /\ (CHOOSE c \in ChangesIn[w] : TRUE) \in ChangesIn[w] /\ ChangesIn[w] \subseteq Changes
                           /\ (CHOOSE p \in PathsOf[w] : TRUE) \in PathsOf[w] /\ PathsOf[w] \subseteq Paths
  <2>1. ASSUME NEW w \in Worktrees
        PROVE  ChangesIn[w] # {} /\ ChangesIn[w] \subseteq Changes /\ PathsOf[w] # {} /\ PathsOf[w] \subseteq Paths
    BY VerificationAssumption
  <2> QED
    BY <2>1
<1>4. /\ work \in [Worktrees -> [change : Changes, path : Paths]]
      /\ \A w \in Worktrees : work[w].change \in ChangesIn[w] /\ work[w].path \in Paths
  BY <1>2, <1>3
<1>5. Base \in Trees /\ NoCheck \in CheckFrame /\ Unverified \in [acceptance : Axes, review : Axes]
  BY DEF Base, Trees, Owners, NoCheck, CheckFrame, CheckSteps, Unverified, Axes
<1>6. checkFaults \in 0 .. CheckFaults
  BY <1>1, VerificationAssumption
<1>7. VerificationTypeOK
  BY <1>1, <1>4, <1>5, <1>6 DEF VerificationTypeOK, CheckFrame
<1>8. \A w \in Worktrees : check[w].at = "idle" /\ check[w].pass = "acceptance"
  BY <1>1 DEF NoCheck
<1>9. Stashing = {} /\ ComparesWithCause
  BY <1>8 DEF Stashing, ComparesWithCause, Comparing, ComparisonSteps
<1>10. StashHolds
  BY <1>1, <1>9, FS_EmptySet DEF StashHolds
<1>11. \A w \in Worktrees : CheckFits(w)
  BY <1>1, <1>8 DEF CheckFits, TipFits, Begun, Comparing, ComparisonSteps, WorkInPlace
<1>12. \A w \in Worktrees : SaidFits(w)
  BY <1>1 DEF SaidFits, Unverified, Refuting
<1> QED
  BY <1>4, <1>7, <1>9, <1>10, <1>11, <1>12 DEF VerificationInv, VerificationFrames

LEMMA VerificationSteps == VerificationInv /\ [VerificationNext]_verificationVars => VerificationInv'
<1> SUFFICES ASSUME VerificationInv, [VerificationNext]_verificationVars PROVE VerificationInv'
  OBVIOUS
<1>1. CASE UNCHANGED verificationVars
  <2>1. /\ work' = work /\ tree' = tree /\ tip' = tip /\ diff' = diff /\ stash' = stash /\ check' = check
        /\ said' = said /\ overlapped' = overlapped /\ checkFaults' = checkFaults
    BY <1>1 DEF verificationVars
  <2>2. (VerificationFrames' = VerificationFrames) /\ (Stashing' = Stashing)
    BY <2>1 DEF VerificationFrames, VerificationTypeOK, StashHolds, Stashing, ComparesWithCause, Compares,
                HasCommand, Comparing, Change
  <2>3. ASSUME NEW w \in Worktrees PROVE (CheckFits(w)' = CheckFits(w)) /\ (SaidFits(w)' = SaidFits(w))
    <3>1. /\ WorkOf(w)' = WorkOf(w) /\ Change(w)' = Change(w) /\ (BringsTest(w)' = BringsTest(w))
          /\ Expected(w)' = Expected(w) /\ (TipFits(w)' = TipFits(w)) /\ (Begun(w)' = Begun(w))
          /\ (Comparing(w)' = Comparing(w)) /\ WithOverlay(w, Base)' = WithOverlay(w, Base)
      BY <2>1 DEF WorkOf, Change, BringsTest, Expected, TipFits, Begun, Comparing, WithOverlay, Base
    <3>2. (Alone(w)' = Alone(w)) /\ (IsAside(w)' = IsAside(w)) /\ (IsBuried(w)' = IsBuried(w))
      BY <2>1, <2>2, <3>1 DEF Alone, IsAside, IsBuried, Comparing
    <3>3. ClaimHolds(Change(w))' = ClaimHolds(Change(w))
      BY <2>1 DEF Change, ClaimHolds
    <3> QED
      BY <2>1, <3>1, <3>2, <3>3 DEF CheckFits, SaidFits, Refuting, Axes
  <2> QED
    BY <2>1, <2>2, <2>3 DEF VerificationInv
<1>2. CASE VerificationNext
  <2>1. PICK v \in Worktrees : CheckStep(v)
    BY <1>2 DEF VerificationNext, CheckStep
  <2>2. VerificationFrames' /\ OnlyAt(v) /\ StashMoves(v) /\ overlapped \subseteq overlapped'
    BY <2>1, EveryStepFrames DEF VerificationInv
  <2>3. ASSUME NEW w \in Worktrees, w \notin overlapped' PROVE CheckFits(w)' /\ SaidFits(w)'
    <3>1. CheckFits(w) /\ SaidFits(w) /\ VerificationFrames
      BY <2>2, <2>3 DEF VerificationInv
    <3>2. CASE w = v
      BY <2>1, <2>3, <3>1, <3>2, OwnFit
    <3>3. CASE w # v
      <4>1. Comparing(w) => stash' = stash /\ ~Comparing(v)'
        BY <2>1, <2>3, <3>1, <3>3, NobodyInterferes
      <4>2. CheckFits(w)'
        BY <2>2, <3>1, <3>3, <4>1, OthersFit
      <4>3. work'[w] = work[w] /\ said'[w] = said[w]
        BY <2>2, <3>3 DEF OnlyAt
      <4>4. ClaimHolds(Change(w))' = ClaimHolds(Change(w))
        BY <4>3 DEF Change, ClaimHolds
      <4>5. SaidFits(w)'
        BY <3>1, <4>3, <4>4 DEF SaidFits, Refuting, Axes
      <4> QED
        BY <4>2, <4>5
    <3> QED
      BY <3>2, <3>3
  <2> QED
    BY <2>2, <2>3 DEF VerificationInv
<1> QED
  BY <1>1, <1>2

(***************************************************************************)
(* A verdict is about the change, not about where the check found it: a    *)
(* pass means that the claim of the change's class holds, and a failed     *)
(* axis that it does not, in both passes and however many worktrees share  *)
(* the stash - as long as their comparisons do not overlap.                *)
(***************************************************************************)
THEOREM VerdictsJudgeTheChange == VerificationSpec => []VerdictIsClaim
<1>1. VerificationInv => VerdictIsClaim
  BY DEF VerificationInv, VerificationFrames, VerdictIsClaim, SaidFits
<1> QED
  BY <1>1, VerificationStarts, VerificationSteps, PTL DEF VerificationSpec

(***************************************************************************)
(* at_baseline gives back the work it took away, and not even a killed     *)
(* check or a failed restore loses it: it is in the worktree, the commit   *)
(* or the stash.                                                           *)
(***************************************************************************)
THEOREM ComparisonsGiveBack == VerificationSpec => []WorkComesBack
<1>1. VerificationInv => WorkComesBack
  <2> SUFFICES ASSUME VerificationInv, NEW w \in Worktrees, w \notin overlapped PROVE WorkIsBack(w)
    BY DEF WorkComesBack
  <2>1. CheckFits(w) /\ stash \in Seq(Trees)
    BY DEF VerificationInv, VerificationFrames, VerificationTypeOK
  <2>2. \A p \in DOMAIN stash : stash[p] \in Range(stash)
    BY DEF Range
  <2>3. IsAside(w) \/ IsBuried(w) => WorkOf(w) \in {Purged(t) : t \in Range(stash) \cup {tree[w], tip[w]}}
    <3>1. CASE IsBuried(w)
      BY <2>2, <3>1 DEF IsBuried
    <3>2. CASE IsAside(w) /\ check[w].stashed
      <4>1. stash # <<>> /\ Purged(Last(stash)) = WorkOf(w)
        BY <3>2 DEF IsAside
      <4>2. Last(stash) \in Range(stash)
        BY <2>1, <2>2, <4>1 DEF Last
      <4> QED
        BY <4>1, <4>2
    <3>3. CASE IsAside(w) /\ ~check[w].stashed
      BY <3>3 DEF IsAside
    <3> QED
      BY <3>1, <3>2, <3>3
  <2> QED
    BY <2>1, <2>3 DEF CheckFits, WorkIsBack, WorkInPlace
<1> QED
  BY <1>1, VerificationStarts, VerificationSteps, PTL DEF VerificationSpec
=============================================================================
