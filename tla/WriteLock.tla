----------------------------- MODULE WriteLock -----------------------------
(***************************************************************************)
(* The single-writer lock (lock/base.py) and the single-flight guard that  *)
(* decides who reaches for it: BuildRunner (panel/worker.py) and the TUI's *)
(* _begin / _end (console/tui.py). Each operator process runs one build    *)
(* step at a time; a step may run developer sessions, and each session     *)
(* takes the lock, writes, and releases it in a finally block.             *)
(*                                                                         *)
(* acquire is two steps, as in the code: the SELECT on proj_lock, and the  *)
(* emit of write_lock_acquired whose handler inserts the row. Each emit is *)
(* atomic, which is what module EventLog shows of the bus. A process may   *)
(* be killed and restarted at any point, and any emit may raise.           *)
(***************************************************************************)
EXTENDS Naturals, Sequences, FiniteSets, SequencesExt

CONSTANTS
  Jobs,       \* build steps; an id stands for one thread of one process
  Procs,      \* operator processes that share the store
  Home,       \* the process each job belongs to
  NoJob,      \* the build slot is free
  Tokens,     \* uuid4 lock tokens
  NoToken,
  MaxFaults   \* bound on kills and failed releases, for model checking

ASSUME HomeAssumption == Home \in [Jobs -> Procs]
ASSUME SentinelAssumption == NoJob \notin Jobs /\ NoToken \notin Tokens
ASSUME FaultsAssumption == MaxFaults \in Nat

VARIABLES
  slot,     \* per process: the job that holds the single build slot
  pc,       \* per job: where its thread is
  token,    \* per job: the LockToken it holds
  locks,    \* proj_lock: the tokens of its rows
  log,      \* the lock events of the log
  faults    \* kills and failed releases so far

vars == <<slot, pc, token, locks, log, faults>>

Acquired(tok) == [kind |-> "acquired", token |-> tok]
Released(tok) == [kind |-> "released", token |-> tok]

Used == { log[i].token : i \in DOMAIN log }

Goto(j, where) == pc' = [pc EXCEPT ![j] = where]
-----------------------------------------------------------------------------
Init ==
  /\ slot = [p \in Procs |-> NoJob]
  /\ pc = [j \in Jobs |-> "idle"]
  /\ token = [j \in Jobs |-> NoToken]
  /\ locks = {}
  /\ log = <<>>
  /\ faults = 0

(* Fault: the busy check is made outside the guard. *)
SubmitUnguarded(j) ==
  /\ pc[j] = "idle"
  /\ slot' = [slot EXCEPT ![Home[j]] = j]
  /\ Goto(j, "claimed")
  /\ UNCHANGED <<token, locks, log, faults>>

(* submit: the slot is claimed under the guard, or BusyError. *)
Submit(j) ==
  /\ pc[j] = "idle"
  /\ slot[Home[j]] = NoJob
  /\ slot' = [slot EXCEPT ![Home[j]] = j]
  /\ Goto(j, "claimed")
  /\ UNCHANGED <<token, locks, log, faults>>

StartThread(j) ==
  /\ pc[j] = "claimed"
  /\ Goto(j, "running")
  /\ UNCHANGED <<slot, token, locks, log, faults>>

(* Thread.start raises in the caller; _run, which frees the slot, never runs. *)
ThreadStartFails(j) ==
  /\ pc[j] = "claimed"
  /\ faults < MaxFaults
  /\ faults' = faults + 1
  /\ Goto(j, "idle")
  /\ UNCHANGED <<slot, token, locks, log>>

(* acquire, first half: SELECT ... FROM proj_lock finds no row. *)
CheckFree(j) ==
  /\ pc[j] = "running"
  /\ locks = {}
  /\ Goto(j, "checked")
  /\ UNCHANGED <<slot, token, locks, log, faults>>

(* LockHeldByAnotherRole leaves the step: it is not retried. *)
Refused(j) ==
  /\ pc[j] = "running"
  /\ locks # {}
  /\ Goto(j, "ending")
  /\ UNCHANGED <<slot, token, locks, log, faults>>

(* acquire, second half: emit with a fresh token; the handler inserts it.  *)
TakeLock(j, tok) ==
  /\ pc[j] = "checked"
  /\ tok \notin Used
  /\ log' = Append(log, Acquired(tok))
  /\ locks' = locks \cup {tok}
  /\ token' = [token EXCEPT ![j] = tok]
  /\ Goto(j, "writing")
  /\ UNCHANGED <<slot, faults>>

(* A step that never runs a developer (research, plan, certify), or whose  *)
(* acquire could not emit, ends without having held the lock.              *)
EndWithoutLock(j) ==
  /\ pc[j] \in {"running", "checked"}
  /\ Goto(j, "ending")
  /\ UNCHANGED <<slot, token, locks, log, faults>>

(* Fault: the handler's DELETE matches no row.                             *)
ReleaseKeepsRow(j) ==
  /\ pc[j] = "writing"
  /\ log' = Append(log, Released(token[j]))
  /\ token' = [token EXCEPT ![j] = NoToken]
  /\ Goto(j, "released")
  /\ UNCHANGED <<slot, locks, faults>>

(* release in the developer's finally: a row for the token exists; emit.   *)
Release(j) ==
  /\ pc[j] = "writing"
  /\ token[j] \in locks
  /\ log' = Append(log, Released(token[j]))
  /\ locks' = locks \ {token[j]}
  /\ token' = [token EXCEPT ![j] = NoToken]
  /\ Goto(j, "released")
  /\ UNCHANGED <<slot, faults>>

(* The emit of write_lock_released raises: the row stays.                  *)
ReleaseFails(j) ==
  /\ pc[j] = "writing"
  /\ faults < MaxFaults
  /\ faults' = faults + 1
  /\ token' = [token EXCEPT ![j] = NoToken]
  /\ Goto(j, "ending")
  /\ UNCHANGED <<slot, locks, log>>

(* The same step runs its next developer session: a retry, or the next     *)
(* task of the plan. Only a step whose last session released goes on.      *)
NextSession(j) ==
  /\ pc[j] = "released"
  /\ Used # Tokens
  /\ Goto(j, "running")
  /\ UNCHANGED <<slot, token, locks, log, faults>>

(* _run's finally, whatever the step did: the slot is released last.       *)
Finish(j) ==
  /\ pc[j] \in {"released", "ending"}
  /\ slot' = [slot EXCEPT ![Home[j]] = NoJob]
  /\ Goto(j, "idle")
  /\ UNCHANGED <<token, locks, log, faults>>

(* Fault: a restart clears proj_lock although another process may write.   *)
KillClearsLock(p) ==
  /\ faults < MaxFaults
  /\ faults' = faults + 1
  /\ slot' = [slot EXCEPT ![p] = NoJob]
  /\ pc' = [j \in Jobs |-> IF Home[j] = p THEN "idle" ELSE pc[j]]
  /\ token' = [j \in Jobs |-> IF Home[j] = p THEN NoToken ELSE token[j]]
  /\ locks' = {}
  /\ UNCHANGED log

(* The process dies and is started again: its threads, its slot and the    *)
(* tokens they held are gone. The store keeps the row.                     *)
Kill(p) ==
  /\ faults < MaxFaults
  /\ faults' = faults + 1
  /\ slot' = [slot EXCEPT ![p] = NoJob]
  /\ pc' = [j \in Jobs |-> IF Home[j] = p THEN "idle" ELSE pc[j]]
  /\ token' = [j \in Jobs |-> IF Home[j] = p THEN NoToken ELSE token[j]]
  /\ UNCHANGED <<locks, log>>

JobStep(j) ==
  \/ StartThread(j) \/ CheckFree(j) \/ Refused(j)
  \/ \E tok \in Tokens : TakeLock(j, tok)
  \/ EndWithoutLock(j) \/ Release(j) \/ NextSession(j) \/ Finish(j)

Next ==
  \/ \E j \in Jobs : Submit(j) \/ JobStep(j) \/ ThreadStartFails(j) \/ ReleaseFails(j)
  \/ \E p \in Procs : Kill(p)

Spec == Init /\ [][Next]_vars

(* A thread that was started runs to its finally block; the operator is    *)
(* not obliged to submit anything, and nothing obliges a fault.            *)
FairSpec == Spec /\ \A j \in Jobs : WF_vars(JobStep(j))
-----------------------------------------------------------------------------
Live(l) == { tok \in Tokens : Acquired(tok) \in Range(l) /\ Released(tok) \notin Range(l) }

(* Fault: the walk never forgets the token it held. *)
WalkForgetsRelease(acc, e) ==
  IF e.kind = "acquired"
  THEN [held |-> e.token, flagged |-> acc.flagged \/ acc.held # NoToken]
  ELSE acc

(* check_single_writer (monitor/checks.py): one walk of the lock events in *)
(* seq order that remembers one held token.                                *)
WalkStep(acc, e) ==
  IF e.kind = "acquired"
  THEN [held |-> e.token, flagged |-> acc.flagged \/ acc.held # NoToken]
  ELSE IF e.token = acc.held THEN [acc EXCEPT !.held = NoToken] ELSE acc

NothingHeld == [held |-> NoToken, flagged |-> FALSE]

Walk(l) ==
  LET walk[n \in 0 .. Len(l)] == IF n = 0 THEN NothingHeld ELSE WalkStep(walk[n - 1], l[n])
  IN  walk[Len(l)]

CheckSingleWriter(l) == Walk(l).flagged
-----------------------------------------------------------------------------
Phases == {"idle", "claimed", "running", "checked", "writing", "released", "ending"}

TypeOK ==
  /\ slot \in [Procs -> Jobs \cup {NoJob}]
  /\ pc \in [Jobs -> Phases]
  /\ token \in [Jobs -> Tokens \cup {NoToken}]
  /\ locks \subseteq Tokens
  /\ log \in Seq([kind : {"acquired", "released"}, token : Tokens])
  /\ faults \in 0 .. MaxFaults

(* Inv 1: whoever writes holds the one row of proj_lock, so no two jobs    *)
(* write at once and a row left behind by a dead process stops everyone.   *)
SingleWriter == \A j \in Jobs : pc[j] = "writing" => locks = {token[j]}

(* Single flight: a process never has two build steps under way, whatever  *)
(* raises and wherever it is killed.                                       *)
SingleFlight == \A j \in Jobs : pc[j] # "idle" => slot[Home[j]] = j

(* The Inv-1 monitor is exact: its walk flags the log exactly when two     *)
(* locks were held at once at some point of it, however many were.         *)
MonitorExact ==
  CheckSingleWriter(log) <=>
    \E n \in 0 .. Len(log) : Cardinality(Live(SubSeq(log, 1, n))) > 1

(* There is no stale-lock recovery: a row that no live job holds is never  *)
(* removed, and as long as it is there no other row is added.              *)
Stranded == locks \ { token[j] : j \in Jobs }

StrandedFailsClosed == Stranded # {} => Stranded \subseteq locks' /\ locks' \subseteq locks

StrandedLockFailsClosed == [][StrandedFailsClosed]_vars

SlotFreed == \A j \in Jobs : pc[j] = "running" ~> slot[Home[j]] # j

LockLetGo == \A tok \in Tokens : (tok \in locks /\ faults = 0) ~> (tok \notin locks \/ faults > 0)

(* A step that got its thread gives everything back, whatever it raised:   *)
(* the build slot, and, unless a fault intervenes, the lock. Otherwise     *)
(* every later build waits for ever.                                       *)
EverythingLetGo == SlotFreed /\ LockLetGo
=============================================================================
