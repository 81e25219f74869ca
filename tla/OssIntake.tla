------------------------------ MODULE OssIntake -----------------------------
(***************************************************************************)
(* The OSS front door (oss/intake.py, oss/cooldowns.py, oss/revocation.py):*)
(* process_intake stamps itself, refuses a requester in cooldown, screens  *)
(* the envelope, records the intake and its acceptance, and only then      *)
(* counts the requester's intakes and may write a cooldown row for the     *)
(* next one. Intakes of one requester run in several processes, the        *)
(* operator revokes a requester at any time, and a process may be killed   *)
(* between two writes. Cooldown rows are written directly, never removed.  *)
(***************************************************************************)
EXTENDS Integers, FiniteSets

CONSTANTS
    Requesters,
    Intakes,          \* calls of process_intake
    RequesterOf,      \* the requester each one is for
    MaxPerWindow,     \* CooldownConfig.max_intakes_per_window
    Window,           \* CooldownConfig.window_seconds
    CooldownFor,      \* CooldownConfig.cooldown_duration_seconds
    Permanent,        \* the length of a revocation, ~100 years
    IntakeHorizon     \* bound: the last instant of the clock

ASSUME IntakeAssumption ==
    /\ RequesterOf \in [Intakes -> Requesters]
    /\ MaxPerWindow \in Nat \ {0}
    /\ Window \in Nat \ {0}
    /\ CooldownFor \in Nat \ {0}
    /\ IntakeHorizon \in Nat
    /\ Permanent \in Nat /\ Permanent > IntakeHorizon

VARIABLES
    intakeNow,    \* the wall clock
    intakePc,     \* where each intake is
    stampedAt,    \* its `at`, taken once at the start
    cooldowns,    \* proj_requester_cooldown: [who, until, of], of = the intake that wrote it
    recorded,     \* the intakes with an oss_task_intake event
    barred,       \* requesters whose revocation row is committed
    begunBarred,  \* history: intakes begun after that
    screened      \* history: intakes whose rate check ended

intakeVars == <<intakeNow, intakePc, stampedAt, cooldowns, recorded, barred, begunBarred, screened>>

Times == 0 .. IntakeHorizon

Revocation == "revocation"

IntakePcs == {"new", "checking", "rejected", "recording", "counting", "auditing", "accepted", "killed"}

OssIntakeTypeOK ==
    /\ intakeNow \in Times
    /\ intakePc \in [Intakes -> IntakePcs]
    /\ stampedAt \in [Intakes -> Times]
    /\ cooldowns \subseteq [who : Requesters, until : Nat, of : Intakes \cup {Revocation}]
    /\ recorded \subseteq Intakes
    /\ barred \subseteq Requesters
    /\ begunBarred \subseteq Intakes
    /\ screened \subseteq Intakes

-----------------------------------------------------------------------------
\* Fault: only the row written last counts, as if it superseded the others
CooldownByShortest(q, at) ==
    LET own == {r \in cooldowns : r.who = q}
    IN  own # {} /\ \A r \in own : r.until > at

\* check_cooldown: the most-future row of the requester is after `at`
InCooldown(q, at) == \E r \in cooldowns : r.who = q /\ r.until > at

Move(k, from, to) ==
    /\ intakePc[k] = from
    /\ intakePc' = [intakePc EXCEPT ![k] = to]

OssIntakeInit ==
    /\ intakeNow = 0
    /\ intakePc = [k \in Intakes |-> "new"]
    /\ stampedAt = [k \in Intakes |-> 0]
    /\ cooldowns = {}
    /\ recorded = {}
    /\ barred = {}
    /\ begunBarred = {}
    /\ screened = {}

IntakeTick ==
    /\ intakeNow < IntakeHorizon
    /\ intakeNow' = intakeNow + 1
    /\ UNCHANGED <<intakePc, stampedAt, cooldowns, recorded, barred, begunBarred, screened>>

\* step 0: the stamp; the cooldown is read next, by CheckCooldown
BeginIntake(k) ==
    /\ Move(k, "new", "checking")
    /\ stampedAt' = [stampedAt EXCEPT ![k] = intakeNow]
    /\ begunBarred' = IF RequesterOf[k] \in barred THEN begunBarred \cup {k} ELSE begunBarred
    /\ UNCHANGED <<intakeNow, cooldowns, recorded, barred, screened>>

\* refused in cooldown, or by the license, maintainer or injection screen
Refuse(k) ==
    /\ Move(k, "checking", "rejected")
    /\ UNCHANGED <<intakeNow, stampedAt, cooldowns, recorded, barred, begunBarred, screened>>

PassChecks(k) ==
    /\ ~InCooldown(RequesterOf[k], stampedAt[k])
    /\ Move(k, "checking", "recording")
    /\ UNCHANGED <<intakeNow, stampedAt, cooldowns, recorded, barred, begunBarred, screened>>

\* oss_task_intake, then intake_decision(accepted)
RecordIntake(k) ==
    /\ Move(k, "recording", "counting")
    /\ recorded' = recorded \cup {k}
    /\ UNCHANGED <<intakeNow, stampedAt, cooldowns, barred, begunBarred, screened>>

InWindow(k) ==
    {i \in recorded : RequesterOf[i] = RequesterOf[k] /\ stampedAt[i] >= stampedAt[k] - Window}

\* Fault: the window excludes the limit itself
CountStrict(k) ==
    /\ screened' = screened \cup {k}
    /\ IF Cardinality(InWindow(k)) > MaxPerWindow
       THEN /\ Move(k, "counting", "auditing")
            /\ cooldowns' = cooldowns \cup
                  {[who |-> RequesterOf[k], until |-> stampedAt[k] + CooldownFor, of |-> k]}
       ELSE Move(k, "counting", "accepted") /\ UNCHANGED cooldowns
    /\ UNCHANGED <<intakeNow, stampedAt, recorded, barred, begunBarred>>

\* check_intake_rate up to the commit of its cooldown row
CheckRate(k) ==
    /\ screened' = screened \cup {k}
    /\ IF Cardinality(InWindow(k)) >= MaxPerWindow
       THEN /\ Move(k, "counting", "auditing")
            /\ cooldowns' = cooldowns \cup
                  {[who |-> RequesterOf[k], until |-> stampedAt[k] + CooldownFor, of |-> k]}
       ELSE Move(k, "counting", "accepted") /\ UNCHANGED cooldowns
    /\ UNCHANGED <<intakeNow, stampedAt, recorded, barred, begunBarred>>

\* the budget_exceeded event of a tripped cooldown
AuditCooldown(k) ==
    /\ Move(k, "auditing", "accepted")
    /\ UNCHANGED <<intakeNow, stampedAt, cooldowns, recorded, barred, begunBarred, screened>>

\* the process ends between two writes
IntakeKilled(k) ==
    /\ intakePc[k] \in {"checking", "recording", "counting", "auditing"}
    /\ Move(k, intakePc[k], "killed")
    /\ UNCHANGED <<intakeNow, stampedAt, cooldowns, recorded, barred, begunBarred, screened>>

\* revoke_requester: the row is committed before its event
RevokeRequester(q) ==
    /\ q \notin barred
    /\ barred' = barred \cup {q}
    /\ cooldowns' = cooldowns \cup {[who |-> q, until |-> intakeNow + Permanent, of |-> Revocation]}
    /\ UNCHANGED <<intakeNow, intakePc, stampedAt, recorded, begunBarred, screened>>

OssIntakeNext ==
    \/ IntakeTick
    \/ \E k \in Intakes :
          \/ BeginIntake(k)
          \/ Refuse(k)
          \/ PassChecks(k)
          \/ RecordIntake(k)
          \/ CheckRate(k)
          \/ AuditCooldown(k)
          \/ IntakeKilled(k)
    \/ \E q \in Requesters : RevokeRequester(q)

OssIntakeSpec == OssIntakeInit /\ [][OssIntakeNext]_intakeVars

-----------------------------------------------------------------------------
(***************************************************************************)
(* A revoked requester stays out (revocation.py:3): no intake begun after  *)
(* the revocation row was committed is recorded, although rate-limit rows  *)
(* that expire sooner are written after it by intakes still in flight.     *)
(***************************************************************************)
RevokedStaysOut == recorded \cap begunBarred = {}

\* An intake's share of the limit: stamped within the shorter of the window
\* and the cooldown.
Shorter == IF Window < CooldownFor THEN Window ELSE CooldownFor

Recent(q) == {k \in recorded : RequesterOf[k] = q /\ stampedAt[k] > intakeNow - Shorter}

(***************************************************************************)
(* The limit is kept by whoever counts last: either the requester is in    *)
(* cooldown now, or fewer than the limit of its recent intakes were        *)
(* counted. Several intakes may pass the check together and be stamped in  *)
(* another order than they are counted in; only those killed between their *)
(* record and their count, or still in between, go over it                 *)
(* (cooldowns.py:77).                                                      *)
(***************************************************************************)
Throttled ==
    \A q \in Requesters :
        \/ InCooldown(q, intakeNow)
        \/ Cardinality(Recent(q) \cap screened) < MaxPerWindow

\* The inductive form of RevokedStaysOut.
BarredForGood ==
    /\ RevokedStaysOut
    /\ \A q \in barred : \E r \in cooldowns : r.who = q /\ r.until > IntakeHorizon
    /\ \A k \in begunBarred : RequesterOf[k] \in barred /\ intakePc[k] \in {"checking", "rejected", "killed"}
    /\ \A k \in recorded : intakePc[k] \in {"counting", "auditing", "accepted", "killed"}
=============================================================================
