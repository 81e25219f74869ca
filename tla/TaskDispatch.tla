---------------------------- MODULE TaskDispatch ---------------------------
(***************************************************************************)
(* Driving a task to its terminal: ConsoleDeveloper.dispatch and its retry *)
(* loop (console/developer.py), DirectorRole.dispatch (roles/director.py), *)
(* DeveloperRole.run (roles/developer.py), the acceptance closure with the *)
(* verifier runner and the reviewer, the task lifecycle (task_lifecycle/)  *)
(* and the stand-alone certification (console/review.py).                  *)
(*                                                                         *)
(* A session is one operator process; single flight (module WriteLock)     *)
(* lets it run one step at a time. step[s] is that step's call stack:      *)
(*   kind   dispatch or certify          at    where it is                 *)
(*   task   the task                     try   the attempt of the loop     *)
(*   life   the TaskLifecycle's state    pre   pre_seq of this attempt     *)
(*   run    history: the operator's run  cause how the attempt ended: its  *)
(*   tried  history: the attempt whose         terminal found, or what     *)
(*          worktree the step has              raised                      *)
(* The process may be killed at any point: the step is gone, the events    *)
(* and a held lock stay. An exception outside the loop's try leaves        *)
(* dispatch as it is; history: escaped has the runs that ended so, or      *)
(* that could not write a terminal.                                        *)
(***************************************************************************)
EXTENDS TaskLog

CONSTANTS
  Sessions,
  Retries,    \* spec_claim_retries
  MaxRuns,    \* bound on the operator's commands, for model checking
  MaxBreaks   \* bound on kills and escapes, together, for model checking

ASSUME BoundsAssumption == Retries \in Nat /\ MaxRuns \in Nat /\ MaxBreaks \in Nat

VARIABLES log, lock, step, runs, killed, escaped

vars == <<log, lock, step, runs, killed, escaped>>

Free == "free"
Stranded == "stranded"    \* the row of a process that is gone

ASSUME SessionAssumption == Sessions \cap {Free, Stranded} = {}

Idle == [kind |-> "none", at |-> "idle", task |-> "none", try |-> 0, life |-> "queued",
         pre |-> 0, run |-> 0, tried |-> 0, cause |-> "none"]

By(s) == <<step[s].run, step[s].tried>>

Emit(s, type) == log' = Append(log, TaskEvent(type, step[s].task, By(s)))

Goto(s, where) == step' = [step EXCEPT ![s].at = where]

(* A step that ends leaves nothing behind in the process. *)
End(s) == step' = [step EXCEPT ![s] = Idle]

Unlock(s) == lock' = IF lock = s THEN Free ELSE lock
-----------------------------------------------------------------------------
Init ==
  /\ log = <<>>
  /\ lock = Free
  /\ step = [s \in Sessions |-> Idle]
  /\ runs = 0
  /\ killed = {}
  /\ escaped = {}

(* The first task without any terminal, or any task the operator names.    *)
Dispatch(s, t) ==
  /\ step[s].at = "idle"
  /\ runs < MaxRuns
  /\ runs' = runs + 1
  /\ step' = [step EXCEPT ![s] = [Idle EXCEPT !.kind = "dispatch", !.at = "clean",
                                              !.task = t, !.run = runs + 1]]
  /\ UNCHANGED <<log, lock, killed, escaped>>

(* The stale worktree and those of terminal tasks are removed; pre_seq is  *)
(* where the log is now. None of it is inside the loop's try.              *)
Prepare(s) ==
  /\ step[s].at = "clean"
  /\ step' = [step EXCEPT ![s].at = "admission", ![s].pre = Len(log)]
  /\ UNCHANGED <<log, lock, runs, killed, escaped>>

(* An admission gate or non_goals_guard denies: the terminal is emitted    *)
(* directly, past the lifecycle.                                           *)
Deny(s) ==
  /\ step[s].at = "admission"
  /\ Emit(s, "aborted")
  /\ Goto(s, "settle")
  /\ UNCHANGED <<lock, runs, killed, escaped>>

(* Fault: the lock is not looked at. *)
AcquireAnyway(s) ==
  /\ step[s].at = "admission"
  /\ lock' = s
  /\ Goto(s, "locked")
  /\ UNCHANGED <<log, runs, killed, escaped>>

Acquire(s) ==
  /\ step[s].at = "admission"
  /\ lock = Free
  /\ lock' = s
  /\ Goto(s, "locked")
  /\ UNCHANGED <<log, runs, killed, escaped>>

(* The worktree is there: task_started opens the attempt. *)
StartTask(s) ==
  /\ step[s].at = "locked"
  /\ step' = [step EXCEPT ![s].at = "working", ![s].tried = step[s].try]
  /\ log' = Append(log, TaskEvent("started", step[s].task, <<step[s].run, step[s].try>>))
  /\ UNCHANGED <<lock, runs, killed, escaped>>

(* The worker is done and its realized diff in scope; the lock is released.*)
WorkDone(s) ==
  /\ step[s].at = "working"
  /\ Unlock(s)
  /\ Goto(s, "accepting")
  /\ UNCHANGED <<log, runs, killed, escaped>>

(* A path out of scope: rewound, flagged, released ... *)
OutOfScope(s) ==
  /\ step[s].at = "working"
  /\ Unlock(s)
  /\ Goto(s, "violation")
  /\ UNCHANGED <<log, runs, killed, escaped>>

(* ... and rejected by the director, past the lifecycle. *)
RejectViolation(s) ==
  /\ step[s].at = "violation"
  /\ Emit(s, "rejected")
  /\ Goto(s, "settle")
  /\ UNCHANGED <<lock, runs, killed, escaped>>

(* lifecycle.transition(queued -> running), then the verifier. *)
Accept(s) ==
  /\ step[s].at = "accepting"
  /\ step' = IF step[s].life = "queued"
             THEN [step EXCEPT ![s].life = "running", ![s].at = "verifying"]
             ELSE [step EXCEPT ![s].at = "raised", ![s].cause = "lifecycle"]
  /\ UNCHANGED <<log, lock, runs, killed, escaped>>

VerifierPasses(s) ==
  /\ step[s].at = "verifying"
  /\ Emit(s, "passed")
  /\ Goto(s, "reviewing")
  /\ UNCHANGED <<lock, runs, killed, escaped>>

(* self: the failure is one the worker can correct itself (spec_claim or   *)
(* test_coverage axis); it is retryable while the loop has attempts left.  *)
VerifierFails(s, self) ==
  /\ step[s].at = "verifying"
  /\ Emit(s, "failed")
  /\ Goto(s, IF self /\ step[s].try < Retries THEN "rewind" ELSE "rejecting")
  /\ UNCHANGED <<lock, runs, killed, escaped>>

(* on_verifier_failure, retryable: the lifecycle forgets the task. *)
RewindForRetry(s) ==
  /\ step[s].at = "rewind"
  /\ step' = [step EXCEPT ![s].at = "settle", ![s].life = "queued"]
  /\ UNCHANGED <<log, lock, runs, killed, escaped>>

(* ReviewerRole.run in a fresh context: one event, certified or refused.   *)
Review(s, ok) ==
  /\ step[s].at = "reviewing"
  /\ Emit(s, IF ok THEN "certified" ELSE "refused")
  /\ Goto(s, IF ok THEN "completing" ELSE "rejecting")
  /\ UNCHANGED <<lock, runs, killed, escaped>>

(* TaskLifecycle.transition into a terminal: refused if it is in one, else *)
(* the state is set and terminal_outcome emitted.                          *)
Terminate(s, outcome, next) ==
  IF step[s].life \in Outcomes
  THEN /\ step' = [step EXCEPT ![s].at = "raised", ![s].cause = "lifecycle"]
       /\ UNCHANGED log
  ELSE /\ Emit(s, outcome)
       /\ step' = [step EXCEPT ![s].life = outcome, ![s].at = next]

(* complete: done must be earned, or DoneNotEarned. *)
Complete(s) ==
  /\ step[s].at = "completing"
  /\ CanComplete(log, step[s].task)
  /\ Terminate(s, "completed", "landed")
  /\ UNCHANGED <<lock, runs, killed, escaped>>

Reject(s) ==
  /\ step[s].at = "rejecting"
  /\ Terminate(s, "rejected", "settle")
  /\ UNCHANGED <<lock, runs, killed, escaped>>

(* The certified change is committed to its scratch branch, if it has one. *)
Land(s) ==
  /\ step[s].at = "landed"
  /\ Goto(s, "settle")
  /\ UNCHANGED <<log, lock, runs, killed, escaped>>

(* Where a session calls out: the gates, the lock, git, the SDK, the store.*)
CanRaise == {"admission", "locked", "working", "violation", "accepting", "verifying", "rewind",
             "rejecting", "reviewing", "completing", "landed"}

Sdk == {"admission", "working", "verifying", "reviewing"}

(* Something raises out of director.dispatch or certify: a refused lock    *)
(* (LockHeldByAnotherRole), git, the SDK, DoneNotEarned. The finally       *)
(* releases the lock. Only the SDK's glitch is transient.                  *)
Raise(s, cause) ==
  /\ \/ cause = "error" /\ step[s].at \in CanRaise
     \/ cause = "transient" /\ step[s].at \in Sdk
  /\ Unlock(s)
  /\ step' = [step EXCEPT ![s].at = "raised", ![s].cause = cause]
  /\ UNCHANGED <<log, runs, killed, escaped>>

(* The loop goes round, with a new developer. *)
Again(s) ==
  /\ step[s].try < Retries
  /\ step' = [step EXCEPT ![s].at = "clean", ![s].try = @ + 1, ![s].cause = "none"]

(* Fault: a terminal is not looked for; the loop goes round. *)
SettleIgnoresTerminal(s) ==
  /\ step[s].at = "settle" /\ step[s].kind = "dispatch"
  /\ Again(s)
  /\ UNCHANGED <<log, lock, runs, killed, escaped>>

(* dispatch returned: a terminal of this attempt ends the loop; otherwise  *)
(* the next attempt, or no terminal after all retries.                     *)
Settle(s) ==
  /\ step[s].at = "settle" /\ step[s].kind = "dispatch"
  /\ \/ /\ TerminalSince(log, step[s].task, step[s].pre)
        /\ step' = [step EXCEPT ![s].at = "spend", ![s].cause = "ended"]
     \/ ~TerminalSince(log, step[s].task, step[s].pre) /\ Again(s)
     \/ /\ ~TerminalSince(log, step[s].task, step[s].pre)
        /\ step[s].try = Retries
        /\ Goto(s, "spend")
  /\ UNCHANGED <<log, lock, runs, killed, escaped>>

(* dispatch raised: a transient glitch is retried, the rest is a crash.    *)
Recover(s) ==
  /\ step[s].at = "raised" /\ step[s].kind = "dispatch"
  /\ \/ step[s].cause = "transient" /\ Again(s)
     \/ (step[s].cause # "transient" \/ step[s].try = Retries) /\ Goto(s, "spend")
  /\ UNCHANGED <<log, lock, runs, killed, escaped>>

(* Behind the loop emit_client_costs emits what the reviews cost. Then a   *)
(* terminal ends the run (integrate, the sweep and the retro drain follow).*)
Spend(s) ==
  /\ step[s].at = "spend"
  /\ IF step[s].cause = "ended" THEN End(s) ELSE Goto(s, "abort")
  /\ UNCHANGED <<log, lock, runs, killed, escaped>>

(* A crash, or no terminal: abort, unless the lifecycle is in a terminal,  *)
(* when the TaskLifecycleViolation leaves dispatch. The log has that       *)
(* terminal, unless its emit is what raised.                               *)
Abort(s) ==
  /\ step[s].at = "abort"
  /\ IF step[s].life \in Outcomes THEN UNCHANGED log ELSE Emit(s, "aborted")
  /\ End(s)
  /\ escaped' = IF step[s].cause = "fault" THEN escaped \cup {step[s].run} ELSE escaped
  /\ UNCHANGED <<lock, runs, killed>>

(* The emit of terminal_outcome raises. transition has set the state of the *)
(* lifecycle before it emits.                                              *)
EmitFails(s) ==
  /\ step[s].life \notin Outcomes
  /\ \/ /\ step[s].at = "completing" /\ CanComplete(log, step[s].task)
        /\ step' = [step EXCEPT ![s].life = "completed", ![s].at = "raised", ![s].cause = "fault"]
     \/ /\ step[s].at = "rejecting"
        /\ step' = [step EXCEPT ![s].life = "rejected", ![s].at = "raised", ![s].cause = "fault"]
  /\ UNCHANGED <<log, lock, runs, killed, escaped>>

MayBreak == Cardinality(killed \cup escaped) < MaxBreaks

(* What dispatch does outside the loop's try: the clean-up and pre_seq of  *)
(* an attempt, the search for its terminal, the costs, the abort.          *)
Unguarded == {"clean", "settle", "spend", "abort"}

(* Something raises there (git, the store, the emit of the costs or of the *)
(* abort): the exception leaves dispatch, and nothing more is written.     *)
Escape(s) ==
  /\ step[s].at \in Unguarded /\ step[s].kind = "dispatch"
  /\ MayBreak
  /\ End(s)
  /\ escaped' = escaped \cup {step[s].run}
  /\ UNCHANGED <<log, lock, runs, killed>>

(* certify: started, not terminal, the verifier has passed in this attempt.*)
(* The lifecycle it terminates is seeded with the state read here.         *)
Certify(s, t) ==
  /\ step[s].at = "idle"
  /\ runs < MaxRuns
  /\ runs' = runs + 1
  /\ CurrentState(log, t) = "running"
  /\ HasVerifierPass(log, t)
  /\ LET by == log[Latest(At(log, t, {"started"}))].by
     IN  step' = [step EXCEPT ![s] = [Idle EXCEPT !.kind = "certify", !.at = "reviewing", !.task = t,
                                         !.life = "running", !.run = by[1], !.tried = by[2]]]
  /\ UNCHANGED <<log, lock, killed, escaped>>

(* certify returns or raises; there is no loop around it. *)
CertifyEnds(s) ==
  /\ step[s].at \in {"settle", "raised", "landed"} /\ step[s].kind = "certify"
  /\ End(s)
  /\ UNCHANGED <<log, lock, runs, killed, escaped>>

Kill(s) ==
  /\ step[s].at # "idle"
  /\ MayBreak
  /\ killed' = killed \cup {step[s].run}
  /\ lock' = IF lock = s THEN Stranded ELSE lock
  /\ End(s)
  /\ UNCHANGED <<log, runs, escaped>>

Progress(s) ==
  \/ Prepare(s) \/ Deny(s) \/ Acquire(s) \/ StartTask(s) \/ WorkDone(s) \/ OutOfScope(s) \/ RejectViolation(s)
  \/ Accept(s) \/ VerifierPasses(s) \/ (\E self \in BOOLEAN : VerifierFails(s, self))
  \/ RewindForRetry(s) \/ (\E ok \in BOOLEAN : Review(s, ok)) \/ Complete(s) \/ Reject(s) \/ Land(s)
  \/ (\E cause \in {"error", "transient"} : Raise(s, cause))
  \/ Settle(s) \/ Recover(s) \/ Spend(s) \/ Abort(s) \/ EmitFails(s) \/ CertifyEnds(s)

Next ==
  \E s \in Sessions :
    \/ \E t \in Tasks : Dispatch(s, t) \/ Certify(s, t)
    \/ Progress(s)
    \/ Escape(s)
    \/ Kill(s)

Spec == Init /\ [][Next]_vars

(* The step is one thread running straight-line code: it goes on, or its   *)
(* process is killed. The SDK session and the verifier's commands are      *)
(* assumed to return or raise. Nothing makes an exception escape.          *)
FairSpec == Spec /\ \A s \in Sessions : WF_vars(Progress(s))
-----------------------------------------------------------------------------
Places == CanRaise \cup Unguarded \cup {"idle", "raised"}

Runs == 0 .. MaxRuns

Attempts == 0 .. Retries

Frame == [kind : {"none", "dispatch", "certify"}, at : Places, task : Tasks \cup {"none"},
          try : Attempts, life : {"queued", "running"} \cup Outcomes, pre : Nat, run : Runs,
          tried : Attempts, cause : {"none", "error", "transient", "lifecycle", "fault", "ended"}]

TypeOK ==
  /\ log \in Seq([type : EventTypes, task : Tasks, by : Runs \X Attempts])
  /\ lock \in Sessions \cup {Free, Stranded}
  /\ step \in [Sessions -> Frame]
  /\ \A s \in Sessions : step[s].at # "idle" => step[s].task \in Tasks
  /\ runs \in Runs
  /\ killed \subseteq Runs
  /\ escaped \subseteq Runs

(* Inv 10, safety: a run ends in one terminal, however its attempts, the   *)
(* direct terminals of the director, a crash after the terminal, a restart *)
(* and a later certification follow each other.                            *)
OneTerminalPerRun ==
  \A i, j \in DOMAIN log :
    /\ log[i].type \in Outcomes /\ log[j].type \in Outcomes
    /\ log[i].task = log[j].task /\ log[i].by[1] = log[j].by[1]
    => i = j

(* Inv 10, no silent termination: a task that was started has its terminal *)
(* once the run that started it is over, whatever raises inside an attempt *)
(* and however often it is retried. What is excused is on record: a kill,  *)
(* and an exception where the loop has no try, or in the emit of the       *)
(* terminal itself, which reached the operator instead.                    *)
NoSilentTermination ==
  \A i \in DOMAIN log :
    log[i].type = "started" =>
      \/ \E s \in Sessions : step[s].at # "idle" /\ step[s].run = log[i].by[1]
      \/ log[i].by[1] \in killed \cup escaped
      \/ \E j \in DOMAIN log : /\ j > i /\ log[j].type \in Outcomes
                               /\ log[j].task = log[i].task /\ log[j].by[1] = log[i].by[1]

(* Inv 10 as a whole: a run that is over has its terminal, but for what is *)
(* excused above, and never two.                                           *)
EndsExactlyOnce == OneTerminalPerRun /\ NoSilentTermination

(* Inv 5: done is earned by one piece of work. The verifier pass and the   *)
(* certification that a completion rests on judged the same attempt's      *)
(* worktree, the one that is being completed.                              *)
EarnedBySameWork ==
  \A i \in DOMAIN log :
    log[i].type = "completed" =>
      \A type \in {"passed", "certified"} :
        \E j \in 1 .. i - 1 : log[j] = TaskEvent(type, log[i].task, log[i].by)

(* The monitor's Inv-5 check, which looks back from the terminal, agrees   *)
(* with can_complete, which looked forward from the start.                 *)
MonitorSeesEarned == UnearnedDone(log) = {}

(* Inv 5 as a whole: every completion is earned, and the monitor says so.  *)
DoneIsEarned == EarnedBySameWork /\ MonitorSeesEarned

(* Inv 1: the lock is held exactly while a developer session may write.    *)
WriterHoldsLock == \A s \in Sessions : step[s].at \in {"locked", "working"} <=> lock = s

(* The step ends, whatever fails in it, and the console is free again.     *)
StepEnds == \A s \in Sessions : step[s].at # "idle" ~> step[s].at = "idle"

(* The comment on the loop and its test: the SDK glitch "is retried (the   *)
(* next attempt cleans the worktree and re-dispatches), not aborted". So   *)
(* an attempt is never refused by the lifecycle of the attempt before it.  *)
RetryIsNotRefused == \A s \in Sessions : step[s].cause # "lifecycle"
=============================================================================
