--------------------------- MODULE SurfacesProofs ---------------------------
(***************************************************************************)
(* Proofs about WriteLock, and in the second half about OperatorConsole.   *)
(*                                                                         *)
(* WriteLock: single flight holds for any number of processes and jobs.    *)
(* Single writer needs single flight and one process: acquire checks and   *)
(* inserts in two steps, so it is only the build slot that keeps a second  *)
(* check from falling between them. The monitor of Inv 1 is exact whatever *)
(* the log holds.                                                          *)
(*                                                                         *)
(* OperatorConsole: what a surface tells its operator is so, however many  *)
(* surfaces share the store.                                               *)
(***************************************************************************)
EXTENDS WriteLock, OperatorConsole, SequenceFacts, FiniteSetTheorems

(* Every step is one of these, so a proof about Next is by their cases.    *)
LEMMA NextCases ==
  ASSUME Next
  PROVE  \/ \E j \in Jobs : Submit(j)
         \/ \E j \in Jobs : StartThread(j) \/ CheckFree(j) \/ Refused(j) \/ EndWithoutLock(j)
                            \/ NextSession(j)
         \/ \E j \in Jobs, tok \in Tokens : TakeLock(j, tok)
         \/ \E j \in Jobs : Release(j)
         \/ \E j \in Jobs : Finish(j)
         \/ \E j \in Jobs : ThreadStartFails(j)
         \/ \E j \in Jobs : ReleaseFails(j)
         \/ \E p \in Procs : Kill(p)
  BY DEF Next, JobStep

(* The thread moves and nothing else does.                                 *)
Moves(j, from, to) == 
  /\ pc[j] \in from /\ pc' = [pc EXCEPT ![j] = to]
  /\ UNCHANGED <<slot, token, locks, log, faults>>

LEMMA QuietSteps ==
  ASSUME NEW j \in Jobs,
         StartThread(j) \/ CheckFree(j) \/ Refused(j) \/ EndWithoutLock(j) \/ NextSession(j)
  PROVE  \/ Moves(j, {"claimed", "released"}, "running")
         \/ Moves(j, {"running"}, "checked") /\ locks = {}
         \/ Moves(j, {"running", "checked"}, "ending")
  BY DEF StartThread, CheckFree, Refused, EndWithoutLock, NextSession, Moves, Goto

(* Every variable keeps its type.                                          *)
THEOREM TypeCorrect == Spec => []TypeOK
<1>1. Init => TypeOK
  BY FaultsAssumption, SMT DEF Init, TypeOK, Phases
<1>2. TypeOK /\ [Next]_vars => TypeOK'
  <2> SUFFICES ASSUME TypeOK, [Next]_vars PROVE TypeOK'
    OBVIOUS
  <2> USE HomeAssumption, FaultsAssumption
  <2> USE DEF TypeOK, Phases, Goto
  <2>1. ASSUME NEW j \in Jobs, Submit(j) PROVE TypeOK'
    BY <2>1 DEF Submit
  <2>2. ASSUME NEW j \in Jobs,
               StartThread(j) \/ CheckFree(j) \/ Refused(j) \/ EndWithoutLock(j) \/ NextSession(j)
        PROVE  TypeOK'
    BY <2>2, QuietSteps DEF Moves
  <2>3. ASSUME NEW j \in Jobs, NEW tok \in Tokens, TakeLock(j, tok) PROVE TypeOK'
    <3>1. Acquired(tok) \in [kind : {"acquired", "released"}, token : Tokens]
      BY DEF Acquired
    <3> QED BY <2>3, <3>1 DEF TakeLock
  <2>4. ASSUME NEW j \in Jobs, Release(j) PROVE TypeOK'
    <3>1. token[j] \in Tokens
      BY <2>4 DEF Release
    <3>2. Released(token[j]) \in [kind : {"acquired", "released"}, token : Tokens]
      BY <3>1 DEF Released
    <3> QED BY <2>4, <3>2 DEF Release
  <2>5. ASSUME NEW j \in Jobs, Finish(j) PROVE TypeOK'
    BY <2>5 DEF Finish
  <2>6. ASSUME NEW j \in Jobs, ThreadStartFails(j) PROVE TypeOK'
    BY <2>6 DEF ThreadStartFails
  <2>7. ASSUME NEW j \in Jobs, ReleaseFails(j) PROVE TypeOK'
    BY <2>7 DEF ReleaseFails
  <2>8. ASSUME NEW p \in Procs, Kill(p) PROVE TypeOK'
    BY <2>8 DEF Kill
  <2>9. CASE UNCHANGED vars
    BY <2>9 DEF vars
  <2> QED BY <2>1, <2>2, <2>3, <2>4, <2>5, <2>6, <2>7, <2>8, <2>9, NextCases
<1> QED BY <1>1, <1>2, PTL DEF Spec

(* Single flight is inductive on its own, given the types: whoever is not  *)
(* idle put its name into the slot, and only it, or a kill, takes it out.  *)
LEMMA SingleFlightStep ==
  ASSUME TypeOK, SingleFlight, [Next]_vars
  PROVE  SingleFlight'
<1> USE HomeAssumption, SentinelAssumption
<1> USE DEF TypeOK, SingleFlight, Goto
<1>1. ASSUME NEW j \in Jobs, Submit(j) PROVE SingleFlight'
  BY <1>1 DEF Submit
<1>2. ASSUME NEW j \in Jobs,
             StartThread(j) \/ CheckFree(j) \/ Refused(j) \/ EndWithoutLock(j) \/ NextSession(j)
      PROVE  SingleFlight'
  BY <1>2, QuietSteps DEF Moves
<1>3. ASSUME NEW j \in Jobs, NEW tok \in Tokens, TakeLock(j, tok) PROVE SingleFlight'
  BY <1>3 DEF TakeLock
<1>4. ASSUME NEW j \in Jobs, Release(j) PROVE SingleFlight'
  BY <1>4 DEF Release
<1>5. ASSUME NEW j \in Jobs, Finish(j) PROVE SingleFlight'
  BY <1>5 DEF Finish
<1>6. ASSUME NEW j \in Jobs, ThreadStartFails(j) PROVE SingleFlight'
  BY <1>6 DEF ThreadStartFails
<1>7. ASSUME NEW j \in Jobs, ReleaseFails(j) PROVE SingleFlight'
  BY <1>7 DEF ReleaseFails
<1>8. ASSUME NEW p \in Procs, Kill(p) PROVE SingleFlight'
  BY <1>8 DEF Kill
<1>9. CASE UNCHANGED vars
  BY <1>9 DEF vars
<1> QED BY <1>1, <1>2, <1>3, <1>4, <1>5, <1>6, <1>7, <1>8, <1>9, NextCases

(* No process ever has two build steps under way, for any number of        *)
(* processes and jobs, kills and failures.                                 *)
THEOREM OneStepPerProcess == Spec => []SingleFlight
<1>1. Init => SingleFlight
  BY DEF Init, SingleFlight
<1>2. TypeOK /\ SingleFlight /\ [Next]_vars => SingleFlight'
  BY SingleFlightStep
<1> QED BY <1>1, <1>2, TypeCorrect, PTL DEF Spec

-----------------------------------------------------------------------------
(* The strengthening: between its two halves an acquire sees no row.       *)
CheckedMeansFree == \A j \in Jobs : pc[j] = "checked" => locks = {}

LockInv == TypeOK /\ SingleFlight /\ CheckedMeansFree /\ SingleWriter

LEMMA OnlyOneBusy ==
  ASSUME NEW p, Procs = {p}, SingleFlight,
         NEW i \in Jobs, NEW j \in Jobs, pc[i] # "idle", pc[j] # "idle"
  PROVE  i = j
  BY HomeAssumption DEF SingleFlight

LEMMA LockInvStep ==
  ASSUME NEW p, Procs = {p}, LockInv, [Next]_vars
  PROVE  CheckedMeansFree' /\ SingleWriter'
<1> DEFINE Goal == CheckedMeansFree /\ SingleWriter
<1>a. TypeOK /\ SingleFlight /\ CheckedMeansFree /\ SingleWriter
  BY DEF LockInv
<1>b. \A i, j \in Jobs : pc[i] # "idle" /\ pc[j] # "idle" => i = j
  BY <1>a, OnlyOneBusy
<1> USE <1>a, <1>b
<1> USE DEF TypeOK, CheckedMeansFree, SingleWriter, Goto
<1>1. ASSUME NEW j \in Jobs, Submit(j) PROVE Goal'
  BY <1>1 DEF Submit
<1>2. ASSUME NEW j \in Jobs,
             StartThread(j) \/ CheckFree(j) \/ Refused(j) \/ EndWithoutLock(j) \/ NextSession(j)
      PROVE  Goal'
  BY <1>2, QuietSteps DEF Moves
<1>3. ASSUME NEW j \in Jobs, NEW tok \in Tokens, TakeLock(j, tok) PROVE Goal'
  <2>1. locks' = {tok} /\ token'[j] = tok /\ pc[j] = "checked"
    BY <1>3 DEF TakeLock
  <2>2. \A i \in Jobs : pc'[i] = "writing" => i = j
    BY <1>3, <2>1 DEF TakeLock
  <2>3. \A i \in Jobs : pc'[i] # "checked"
    BY <1>3, <2>1 DEF TakeLock
  <2> QED BY <2>1, <2>2, <2>3
<1>4. ASSUME NEW j \in Jobs, Release(j) PROVE Goal'
  BY <1>4 DEF Release
<1>5. ASSUME NEW j \in Jobs, Finish(j) PROVE Goal'
  BY <1>5 DEF Finish
<1>6. ASSUME NEW j \in Jobs, ThreadStartFails(j) PROVE Goal'
  BY <1>6 DEF ThreadStartFails
<1>7. ASSUME NEW j \in Jobs, ReleaseFails(j) PROVE Goal'
  BY <1>7 DEF ReleaseFails
<1>8. ASSUME NEW q \in Procs, Kill(q) PROVE Goal'
  BY <1>8, HomeAssumption DEF Kill
<1>9. CASE UNCHANGED vars
  BY <1>9 DEF vars
<1> QED BY <1>1, <1>2, <1>3, <1>4, <1>5, <1>6, <1>7, <1>8, <1>9, NextCases

(* In one process the build slot makes acquire's two steps safe: whoever   *)
(* writes holds the only row of proj_lock.                                 *)
THEOREM SingleWriterInOneProcess ==
  ASSUME NEW p, Procs = {p}
  PROVE  Spec => []SingleWriter
<1>1. Init => LockInv
  <2>1. Init => TypeOK
    BY FaultsAssumption, SMT DEF Init, TypeOK, Phases
  <2> QED BY <2>1 DEF Init, LockInv, SingleFlight, CheckedMeansFree, SingleWriter
<1>2. TypeOK' /\ LockInv /\ [Next]_vars => LockInv'
  BY SingleFlightStep, LockInvStep DEF LockInv
<1>3. LockInv => SingleWriter
  BY DEF LockInv
<1> QED BY <1>1, <1>2, <1>3, TypeCorrect, PTL DEF Spec

(* In one process a row that no live job holds is never removed, and no    *)
(* lock is acquired while it is there: a stranded lock fails closed.       *)
THEOREM StrandedLockStopsEveryone ==
  ASSUME NEW p, Procs = {p}
  PROVE  Spec => StrandedLockFailsClosed
<1>1. Init => LockInv
  <2>1. Init => TypeOK
    BY FaultsAssumption, SMT DEF Init, TypeOK, Phases
  <2> QED BY <2>1 DEF Init, LockInv, SingleFlight, CheckedMeansFree, SingleWriter
<1>2. TypeOK' /\ LockInv /\ [Next]_vars => LockInv'
  BY SingleFlightStep, LockInvStep DEF LockInv
<1>3. LockInv /\ [Next]_vars => [StrandedFailsClosed]_vars
  <2> SUFFICES ASSUME LockInv, Next PROVE StrandedFailsClosed
    OBVIOUS
  <2>1. TypeOK /\ CheckedMeansFree /\ SingleWriter
    BY DEF LockInv
  <2>2. ASSUME NEW j \in Jobs, NEW tok \in Tokens, TakeLock(j, tok) PROVE Stranded = {}
    BY <2>1, <2>2 DEF TakeLock, CheckedMeansFree, Stranded
  <2>3. ASSUME NEW j \in Jobs, Release(j) PROVE StrandedFailsClosed
    BY <2>3 DEF Release, StrandedFailsClosed, Stranded
  <2>4. CASE locks' = locks
    BY <2>4 DEF StrandedFailsClosed, Stranded
  <2> QED
    BY <2>2, <2>3, <2>4, NextCases DEF StrandedFailsClosed, Submit, StartThread, CheckFree, Refused,
       EndWithoutLock, NextSession, Finish, ThreadStartFails, ReleaseFails, Kill
<1> QED BY <1>1, <1>2, <1>3, TypeCorrect, PTL DEF Spec, StrandedLockFailsClosed

-----------------------------------------------------------------------------
(***************************************************************************)
(* The monitor. As long as its walk has flagged nothing, the one token it  *)
(* remembers is the one live lock of the log, and no prefix of the log had *)
(* two; once it has, there is a prefix with two. That proj_lock is what    *)
(* the log's events say is why a token is released only when it is live.   *)
(***************************************************************************)
LockEvents == [kind : {"acquired", "released"}, token : Tokens]

IsWalk(f, l, n) ==
  f = [m \in 0 .. n |-> IF m = 0 THEN NothingHeld ELSE WalkStep(f[m - 1], l[m])]

WalksWith(f, l) ==
  /\ f[0] = NothingHeld
  /\ \A n \in 0 .. Len(l) - 1 : f[n + 1] = WalkStep(f[n], l[n + 1])
  /\ Walk(l) = f[Len(l)]

(* The walk's recursion has a solution.                                    *)
LEMMA WalkIsDefined ==
  ASSUME NEW S, NEW l \in Seq(S)
  PROVE  \E f : WalksWith(f, l)
<1>0. Len(l) \in Nat
  BY Positions
<1> DEFINE Solved == {n \in 0 .. Len(l) : \E f : IsWalk(f, l, n)}
<1>1. 0 \in Solved
  <2>1. IsWalk([m \in 0 .. 0 |-> NothingHeld], l, 0)
    BY DEF IsWalk
  <2> QED
    BY <1>0, <2>1
<1>2. ASSUME NEW n \in 0 .. Len(l) - 1, n \in Solved PROVE n + 1 \in Solved
  <2>1. PICK f : IsWalk(f, l, n)
    BY <1>2
  <2> DEFINE g == [m \in 0 .. n + 1 |-> IF m <= n THEN f[m] ELSE WalkStep(f[n], l[m])]
  <2>2. ASSUME NEW m \in 0 .. n + 1
        PROVE  g[m] = IF m = 0 THEN NothingHeld ELSE WalkStep(g[m - 1], l[m])
    <3>1. CASE m = n + 1
      <4>1. m # 0 /\ ~(m <= n) /\ m - 1 = n /\ n \in 0 .. n + 1 /\ n <= n
        BY <1>0, <3>1
      <4>2. g[m - 1] = f[n]
        BY <4>1
      <4> QED
        BY <4>1, <4>2
    <3>2. CASE m # n + 1
      <4>1. m \in 0 .. n /\ m <= n
        BY <1>0, <3>2
      <4>2. g[m] = f[m]
        BY <4>1
      <4>3. m # 0 => m - 1 \in 0 .. n + 1 /\ m - 1 <= n
        BY <1>0, <4>1
      <4>4. m # 0 => g[m - 1] = f[m - 1]
        BY <4>3
      <4>5. f[m] = IF m = 0 THEN NothingHeld ELSE WalkStep(f[m - 1], l[m])
        BY <2>1, <4>1 DEF IsWalk
      <4> QED
        BY <4>2, <4>4, <4>5
    <3> QED
      BY <3>1, <3>2
  <2>3. IsWalk(g, l, n + 1)
    <3>1. g = [m \in 0 .. n + 1 |-> g[m]]
      OBVIOUS
    <3> HIDE DEF g
    <3> QED
      BY <2>2, <3>1 DEF IsWalk
  <2>4. n + 1 \in 0 .. Len(l)
    BY <1>0
  <2> QED
    BY <2>3, <2>4
<1>3. Len(l) \in Solved
  <2> HIDE DEF Solved
  <2>1. 0 .. Len(l) \subseteq Solved
    BY <1>0, <1>1, <1>2, UpTo
  <2> QED
    BY <1>0, <2>1
<1> DEFINE k == CHOOSE f : IsWalk(f, l, Len(l))
<1>4. IsWalk(k, l, Len(l))
  BY <1>3
<1>5. Walk(l) = k[Len(l)]
  BY DEF Walk, IsWalk
<1> HIDE DEF k
<1>6. k[0] = NothingHeld
  BY <1>0, <1>4 DEF IsWalk
<1>7. ASSUME NEW n \in 0 .. Len(l) - 1 PROVE k[n + 1] = WalkStep(k[n], l[n + 1])
  <2> DEFINE m == n + 1
  <2>1. m \in 0 .. Len(l) /\ m # 0 /\ m - 1 = n
    BY <1>0
  <2> HIDE DEF m
  <2>2. k[m] = WalkStep(k[m - 1], l[m])
    BY <1>4, <2>1 DEF IsWalk
  <2>3. k[m] = WalkStep(k[n], l[m])
    BY <2>1, <2>2
  <2> QED
    BY <2>3 DEF m
<1> QED
  BY <1>5, <1>6, <1>7 DEF WalksWith

(* The walk of a longer log goes on where that of the shorter one ended.   *)
LEMMA WalkGoesOn ==
  ASSUME NEW S, NEW l \in Seq(S), NEW e \in S
  PROVE  Walk(Append(l, e)) = WalkStep(Walk(l), e) /\ Walk(<<>>) = NothingHeld
<1> DEFINE long == Append(l, e)
<1>1. /\ long \in Seq(S) /\ Len(l) \in Nat /\ Len(long) = Len(l) + 1 /\ DOMAIN l = 1 .. Len(l)
      /\ \A i \in DOMAIN l : long[i] = l[i]
      /\ long[Len(l) + 1] = e
  BY AppendGrows
<1> HIDE DEF long
<1>2. PICK f : WalksWith(f, l)
  BY WalkIsDefined
<1>3. PICK g : WalksWith(g, long)
  BY <1>1, WalkIsDefined
<1> DEFINE Agree == {n \in 0 .. Len(l) : f[n] = g[n]}
<1>4. 0 \in Agree
  BY <1>1, <1>2, <1>3 DEF WalksWith
<1>5. ASSUME NEW n \in 0 .. Len(l) - 1, n \in Agree PROVE n + 1 \in Agree
  <2>1. f[n] = g[n] /\ n + 1 \in 0 .. Len(l) /\ n + 1 \in DOMAIN l /\ n \in 0 .. Len(long) - 1
    BY <1>1, <1>5
  <2>2. f[n + 1] = WalkStep(f[n], l[n + 1]) /\ g[n + 1] = WalkStep(g[n], long[n + 1])
    BY <1>2, <1>3, <2>1 DEF WalksWith
  <2>3. long[n + 1] = l[n + 1]
    BY <1>1, <2>1
  <2> QED
    BY <2>1, <2>2, <2>3
<1>6. f[Len(l)] = g[Len(l)]
  <2> HIDE DEF Agree
  <2>1. 0 .. Len(l) \subseteq Agree
    BY <1>1, <1>4, <1>5, UpTo
  <2>2. Len(l) \in Agree
    BY <1>1, <2>1
  <2> QED
    BY <2>2 DEF Agree
<1>7. g[Len(l) + 1] = WalkStep(g[Len(l)], e)
  BY <1>1, <1>3 DEF WalksWith
<1>8. Walk(l) = f[Len(l)] /\ Walk(long) = g[Len(l) + 1]
  BY <1>1, <1>2, <1>3 DEF WalksWith
<1>9. Walk(<<>>) = NothingHeld
  <2>1. <<>> \in Seq(S) /\ Len(<<>>) = 0
    BY EmptySeq
  <2>2. PICK h : WalksWith(h, <<>>)
    BY <2>1, WalkIsDefined
  <2> QED
    BY <2>1, <2>2 DEF WalksWith
<1> QED
  BY <1>6, <1>7, <1>8, <1>9 DEF long

(* What a further event does to the live locks and to the log's prefixes.  *)
LEMMA EventIsLast ==
  ASSUME NEW l \in Seq(LockEvents), NEW e \in LockEvents
  PROVE  /\ Range(Append(l, e)) = Range(l) \cup {e}
         /\ Append(l, e) \in Seq(LockEvents) /\ Len(l) \in Nat /\ Len(Append(l, e)) = Len(l) + 1
         /\ \A n \in 0 .. Len(l) : SubSeq(Append(l, e), 1, n) = SubSeq(l, 1, n)
         /\ SubSeq(Append(l, e), 1, Len(l) + 1) = Append(l, e)
<1>1. /\ Append(l, e) \in Seq(LockEvents)
      /\ Len(l) \in Nat /\ Len(Append(l, e)) = Len(l) + 1
      /\ DOMAIN l = 1 .. Len(l)
      /\ DOMAIN Append(l, e) = (DOMAIN l) \cup {Len(l) + 1}
      /\ \A i \in DOMAIN l : Append(l, e)[i] = l[i]
      /\ Append(l, e)[Len(l) + 1] = e
  BY AppendGrows
<1>2. Range(Append(l, e)) = Range(l) \cup {e}
  BY <1>1 DEF Range
<1> DEFINE long == Append(l, e)
<1>3. long \in Seq(LockEvents) /\ Len(long) = Len(l) + 1 /\ \A i \in 1 .. Len(l) : long[i] = l[i]
  BY <1>1
<1> HIDE DEF long
<1>4. ASSUME NEW n \in 0 .. Len(l) PROVE SubSeq(long, 1, n) = SubSeq(l, 1, n)
  <2>1. SubSeq(long, 1, n) = [i \in 1 .. n |-> long[i]] /\ SubSeq(l, 1, n) = [i \in 1 .. n |-> l[i]]
    BY <1>1, <1>3
  <2> QED
    BY <1>1, <1>3, <2>1
<1>5. SubSeq(long, 1, Len(l) + 1) = long
  BY <1>1, <1>3
<1> QED
  BY <1>1, <1>2, <1>4, <1>5 DEF long

(* two locks were held at once, at some point of the log *)
TwoHeld(l) == \E n \in 0 .. Len(l) : Cardinality(Live(SubSeq(l, 1, n))) > 1

(* what the walk remembers, as a set *)
Remembered(w) == IF w.held = NoToken THEN {} ELSE {w.held}

MonitorInv ==
  /\ log \in Seq(LockEvents)
  /\ locks = Live(log)
  /\ Walk(log) \in [held : Tokens \cup {NoToken}, flagged : BOOLEAN]
  /\ ~Walk(log).flagged => Live(log) = Remembered(Walk(log))
  /\ Walk(log).flagged <=> TwoHeld(log)

(* The monitor's part of a step that records an event.                     *)
LEMMA TwoHeldGrows ==
  ASSUME NEW l \in Seq(LockEvents), NEW e \in LockEvents
  PROVE  TwoHeld(Append(l, e)) <=> TwoHeld(l) \/ Cardinality(Live(Append(l, e))) > 1
<1> DEFINE long == Append(l, e)
<1>1. /\ Len(l) \in Nat /\ Len(long) = Len(l) + 1
      /\ \A n \in 0 .. Len(l) : SubSeq(long, 1, n) = SubSeq(l, 1, n)
      /\ SubSeq(long, 1, Len(l) + 1) = long
  BY EventIsLast
<1> HIDE DEF long
<1>2. 0 .. Len(long) = (0 .. Len(l)) \cup {Len(l) + 1}
  BY <1>1
<1>3. TwoHeld(long) <=> TwoHeld(l) \/ Cardinality(Live(long)) > 1
  BY <1>1, <1>2 DEF TwoHeld
<1> QED
  BY <1>3 DEF long

LEMMA AcquireIsWalked ==
  ASSUME MonitorInv, SentinelAssumption, NEW tok \in Tokens, tok \notin Used,
         log' = Append(log, Acquired(tok)), locks' = locks \cup {tok}
  PROVE  MonitorInv'
<1> DEFINE e == Acquired(tok)
<1>1. e \in LockEvents /\ e.kind = "acquired" /\ e.token = tok
  BY DEF LockEvents, Acquired
<1>2. /\ log' \in Seq(LockEvents) /\ Range(log') = Range(log) \cup {e} /\ log \in Seq(LockEvents)
  BY <1>1, EventIsLast DEF MonitorInv
<1>3. \A i \in DOMAIN log : log[i].token # tok
  BY DEF Used
<1>4. Released(tok) \notin Range(log) /\ Acquired(tok) \notin Range(log)
  BY <1>3 DEF Range, Released, Acquired
<1>5. Live(log') = Live(log) \cup {tok} /\ tok \notin Live(log)
  BY <1>2, <1>4 DEF Live, Acquired, Released
<1>6. Walk(log') = [held |-> tok, flagged |-> Walk(log).flagged \/ Walk(log).held # NoToken]
  <2>1. Walk(log') = WalkStep(Walk(log), e)
    BY <1>1, <1>2, WalkGoesOn
  <2> QED
    BY <1>1, <2>1 DEF WalkStep
<1>7. TwoHeld(log') <=> TwoHeld(log) \/ Cardinality(Live(log')) > 1
  BY <1>1, <1>2, TwoHeldGrows
<1> HIDE DEF e
<1>8. CASE Walk(log).flagged
  BY <1>2, <1>5, <1>6, <1>7, <1>8 DEF MonitorInv
<1>9. CASE ~Walk(log).flagged /\ Walk(log).held = NoToken
  <2>1. Live(log) = {} /\ ~TwoHeld(log)
    BY <1>9 DEF MonitorInv, Remembered
  <2>2. Live(log') = {tok}
    BY <1>5, <2>1
  <2>3. Cardinality(Live(log')) = 1
    BY <2>2, FS_Singleton
  <2>4. ~TwoHeld(log')
    BY <1>7, <2>1, <2>3
  <2> QED
    BY <1>2, <1>5, <1>6, <1>9, <2>2, <2>4, SentinelAssumption DEF MonitorInv, Remembered
<1>10. CASE ~Walk(log).flagged /\ Walk(log).held # NoToken
  <2>1. Live(log) = {Walk(log).held}
    BY <1>10 DEF MonitorInv, Remembered
  <2>2. IsFiniteSet(Live(log)) /\ Cardinality(Live(log)) = 1
    BY <2>1, FS_Singleton
  <2>3. Cardinality(Live(log')) = 1 + 1
    BY <1>5, <2>2, FS_AddElement
  <2>4. TwoHeld(log')
    BY <1>7, <2>3
  <2>5. Walk(log').flagged
    <3>1. (Walk(log).flagged \/ Walk(log).held # NoToken) = TRUE
      BY <1>10
    <3>2. Walk(log') = [held |-> tok, flagged |-> TRUE]
      BY <1>6, <3>1
    <3> QED
      BY <3>2
  <2> QED
    BY <1>2, <1>5, <1>6, <2>4, <2>5 DEF MonitorInv
<1> QED
  BY <1>8, <1>9, <1>10

LEMMA ReleaseIsWalked ==
  ASSUME MonitorInv, SentinelAssumption, NEW tok \in locks,
         log' = Append(log, Released(tok)), locks' = locks \ {tok}
  PROVE  MonitorInv'
<1> DEFINE e == Released(tok)
<1>0. tok \in Tokens /\ tok \in Live(log)
  BY DEF MonitorInv, Live
<1>1. e \in LockEvents /\ e.kind = "released" /\ e.token = tok
  BY <1>0 DEF LockEvents, Released
<1>2. /\ log' \in Seq(LockEvents) /\ Range(log') = Range(log) \cup {e} /\ log \in Seq(LockEvents)
  BY <1>1, EventIsLast DEF MonitorInv
<1>3. Live(log') = Live(log) \ {tok}
  BY <1>2 DEF Live, Acquired, Released
<1>4. Walk(log') = IF tok = Walk(log).held THEN [Walk(log) EXCEPT !.held = NoToken] ELSE Walk(log)
  <2>1. Walk(log') = WalkStep(Walk(log), e)
    BY <1>1, <1>2, WalkGoesOn
  <2> QED
    BY <1>1, <2>1 DEF WalkStep
<1>5. TwoHeld(log') <=> TwoHeld(log) \/ Cardinality(Live(log')) > 1
  BY <1>1, <1>2, TwoHeldGrows
<1> HIDE DEF e
<1>6. CASE Walk(log).flagged
  <2>1. Walk(log') \in [held : Tokens \cup {NoToken}, flagged : BOOLEAN] /\ Walk(log').flagged
    BY <1>4, <1>6 DEF MonitorInv
  <2> QED
    BY <1>2, <1>3, <1>5, <1>6, <2>1 DEF MonitorInv
<1>7. CASE ~Walk(log).flagged
  <2>1. Live(log) = {tok} /\ Walk(log).held = tok /\ ~TwoHeld(log)
    BY <1>0, <1>7 DEF MonitorInv, Remembered
  <2>2. /\ Walk(log') \in [held : Tokens \cup {NoToken}, flagged : BOOLEAN]
        /\ ~Walk(log').flagged /\ Walk(log').held = NoToken
    BY <1>4, <1>7, <2>1 DEF MonitorInv
  <2>3. Live(log') = {} /\ Cardinality(Live(log')) = 0
    BY <1>3, <2>1, FS_EmptySet
  <2> QED
    BY <1>2, <1>3, <1>5, <2>1, <2>2, <2>3 DEF MonitorInv, Remembered
<1> QED
  BY <1>6, <1>7

LEMMA MonitorStarts == Init => MonitorInv
<1> SUFFICES ASSUME Init PROVE MonitorInv
  OBVIOUS
<1>1. log = <<>> /\ locks = {}
  BY DEF Init
<1>2. log \in Seq(LockEvents) /\ Len(log) = 0 /\ Range(log) = {}
  BY <1>1, EmptySeq DEF Range
<1>3. Live(log) = {}
  BY <1>2 DEF Live
<1>4. Walk(log) = NothingHeld
  <2>1. [kind |-> "acquired", token |-> NoToken] \in {[kind |-> "acquired", token |-> NoToken]}
    OBVIOUS
  <2>2. <<>> \in Seq({[kind |-> "acquired", token |-> NoToken]})
    BY EmptySeq
  <2> QED
    BY <1>1, <2>1, <2>2, WalkGoesOn
<1>5. SubSeq(log, 1, 0) = <<>>
  BY <1>1
<1>6. ~TwoHeld(log)
  <2>1. Cardinality(Live(SubSeq(log, 1, 0))) = 0
    BY <1>1, <1>3, <1>5, FS_EmptySet
  <2> QED
    BY <1>2, <2>1 DEF TwoHeld
<1>7. /\ Walk(log) \in [held : Tokens \cup {NoToken}, flagged : BOOLEAN]
      /\ ~Walk(log).flagged /\ Remembered(Walk(log)) = {}
  BY <1>4 DEF NothingHeld, Remembered
<1> QED
  BY <1>1, <1>2, <1>3, <1>6, <1>7 DEF MonitorInv

LEMMA MonitorSteps == MonitorInv /\ [Next]_vars => MonitorInv'
<1> SUFFICES ASSUME MonitorInv, [Next]_vars PROVE MonitorInv'
  OBVIOUS
<1>1. ASSUME NEW j \in Jobs, NEW tok \in Tokens, TakeLock(j, tok) PROVE MonitorInv'
  BY <1>1, AcquireIsWalked, SentinelAssumption DEF TakeLock
<1>2. ASSUME NEW j \in Jobs, Release(j) PROVE MonitorInv'
  BY <1>2, ReleaseIsWalked, SentinelAssumption DEF Release
<1>3. CASE log' = log /\ locks' = locks
  BY <1>3 DEF MonitorInv
<1> QED
  BY <1>1, <1>2, <1>3, NextCases
     DEF vars, Submit, StartThread, CheckFree, Refused, EndWithoutLock, NextSession, Finish,
         ThreadStartFails, ReleaseFails, Kill

(* The Inv-1 monitor is exact, for any number of processes, jobs and locks *)
(* held at once: its walk, which remembers one token, flags the log        *)
(* exactly when two were held together at some point of it.                *)
THEOREM MonitorMissesNothing == Spec => []MonitorExact
<1>1. MonitorInv => MonitorExact
  BY DEF MonitorInv, MonitorExact, CheckSingleWriter, TwoHeld
<1> QED
  BY <1>1, MonitorStarts, MonitorSteps, PTL DEF Spec

-----------------------------------------------------------------------------
(***************************************************************************)
(* OperatorConsole. The argument: an interview has one run of its own and  *)
(* at most one open question, asked while that run has no spec yet, so the *)
(* question a surface shows stays the latest unanswered one until somebody *)
(* answers it or a later run starts; and no announced or signed spec ever  *)
(* goes back to unwritten or unsigned, because only the interview that     *)
(* owns a run drafts its spec, once. What the hint admits is then a matter *)
(* of the types.                                                           *)
(***************************************************************************)
JobFrame ==
  [step : {"idle"} \cup Researching \cup Planning \cup Developing, run : 0 .. RunCap, task : 0 .. TaskCap,
   holds : BOOLEAN, own : BOOLEAN, upset : BOOLEAN, cancelled : BOOLEAN]

SurfaceFrame ==
  [at : {"here", "away", "closed"}, target : Targets, page : (Runs \X (1 .. QuestionCap)) \cup {NoQuestion}]

Questions == {q \in Runs \X (1 .. QuestionCap) : q[2] <= asked[q[1]]}

CoreTypeOK ==
  /\ started \in 0 .. RunCap
  /\ asked \in [Runs -> 0 .. QuestionCap]
  /\ answered \subseteq Questions
  /\ specRow \in [Runs -> {"none", "unsigned", "signed"}]
  /\ lastDrafted \in 0 .. RunCap /\ lastSigned \in 0 .. RunCap
  /\ surface \in [Surfaces -> SurfaceFrame]
  /\ job \in [Surfaces -> JobFrame]
  /\ misread \in BOOLEAN

RestTypeOK ==
  /\ follower \in Surfaces
  /\ planRow \in [Runs -> 0 .. TaskCap] /\ planShown \in [Runs -> 0 .. TaskCap]
  /\ latest \in [Runs -> [PlanTasks -> {"none", "completed", "stopped"}]]
  /\ work \in [Runs -> [PlanTasks -> {"none", "branch", "merged"}]]
  /\ recorded \subseteq Runs
  /\ targetSet \in Targets
  /\ lockHolder \in Surfaces \cup {"nobody", "a dead process"}
  /\ whims \in 0 .. WhimCap /\ mishaps \in 0 .. MishapCap

LEMMA TypesInTwo == ConsoleTypeOK <=> CoreTypeOK /\ RestTypeOK
  BY DEF ConsoleTypeOK, CoreTypeOK, RestTypeOK, JobFrame, SurfaceFrame, Questions

Interviews(s) == job[s].step \in {"eliciting", "waiting", "announcing spec"}

Starters == {s \in Surfaces : job[s].step = "starting"}

\* no more runs than there is room for
RunsLeft == IsFiniteSet(Starters) /\ RunsToCome <= RunCap

Unstarted(r) == r > started => specRow[r] = "none" /\ asked[r] = 0

OwnRun(s) ==
  Interviews(s) =>
    /\ job[s].run \in 1 .. started
    /\ \A u \in Surfaces \ {s} : Interviews(u) => job[u].run # job[s].run

JobFits(s) ==
  /\ job[s].step \in {"eliciting", "waiting"} => specRow[job[s].run] = "none"
  /\ job[s].step = "eliciting" => UnansweredOf(job[s].run) = {}
  /\ job[s].step = "announcing spec" => specRow[job[s].run] # "none"

OneQuestion(r) ==
  UnansweredOf(r) \subseteq {asked[r]} /\ (UnansweredOf(r) # {} => specRow[r] = "none")

SpecsFit ==
  /\ lastDrafted # 0 => specRow[lastDrafted] # "none"
  /\ lastSigned # 0 => specRow[lastSigned] = "signed"

PageFits(s) == surface[s].page # NoQuestion => surface[s].page \in Questions

GuidanceInv ==
  /\ CoreTypeOK
  /\ RunsLeft
  /\ \A s \in Surfaces : OwnRun(s) /\ JobFits(s) /\ PageFits(s)
  /\ \A r \in Runs : Unstarted(r) /\ OneQuestion(r)
  /\ SpecsFit
  /\ AnswerAsShown

-----------------------------------------------------------------------------
LEMMA CapsAreNatural ==
  RunCap \in Nat \ {0} /\ QuestionCap \in Nat /\ TaskCap \in Nat \ {0} /\ WhimCap \in Nat /\ MishapCap \in Nat
  BY ConsoleAssumption DEF ConsoleAssumption

LEMMA SlotTyped ==
  ASSUME CoreTypeOK, NEW s \in Surfaces
  PROVE  /\ job[s] \in JobFrame /\ job[s].run \in 0 .. RunCap /\ job[s].task \in 0 .. TaskCap
         /\ surface[s] \in SurfaceFrame /\ job[s].run \in Int /\ job[s].task \in Int
         /\ FreeSlot \in JobFrame /\ NoQuestion \notin Runs \X (1 .. QuestionCap)
<1>1. job[s] \in JobFrame /\ surface[s] \in SurfaceFrame
  BY DEF CoreTypeOK
<1>2. job[s].run \in 0 .. RunCap /\ job[s].task \in 0 .. TaskCap
  BY <1>1 DEF JobFrame
<1>3. FreeSlot \in JobFrame
  BY CapsAreNatural DEF FreeSlot, JobFrame
<1>4. NoQuestion \notin Runs \X (1 .. QuestionCap)
  BY DEF NoQuestion, Runs
<1> QED
  BY <1>1, <1>2, <1>3, <1>4, CapsAreNatural

\* The question that is pending.
LEMMA LargestOf ==
  ASSUME NEW n \in Nat, NEW S, S \subseteq 1 .. n, S # {}
  PROVE  LatestOf(S) \in S /\ \A m \in S : m <= LatestOf(S)
  BY LargestExists DEF LatestOf

LEMMA LeastOf ==
  ASSUME NEW n \in Nat, NEW S, S \subseteq 1 .. n, S # {}
  PROVE  FirstOf(S) \in S
<1>1. S \subseteq Nat
  OBVIOUS
<1> QED
  BY <1>1, LeastNatural DEF FirstOf

LEMMA RunsTyped ==
  ASSUME CoreTypeOK
  PROVE  LatestRun \in 0 .. RunCap /\ QuestionRun \in 0 .. RunCap /\ LatestUnsigned \in 0 .. RunCap
  BY CapsAreNatural DEF CoreTypeOK, LatestRun, QuestionRun, LatestUnsigned

LEMMA PendingTyped ==
  ASSUME CoreTypeOK
  PROVE  /\ LatestUnanswered # NoQuestion =>
              LatestUnanswered \in Questions /\ LatestUnanswered \notin answered
         /\ \A r \in Runs : UnansweredOf(r) \subseteq 1 .. asked[r] /\ asked[r] \in Nat
<1>1. \A r \in Runs : UnansweredOf(r) \subseteq 1 .. asked[r] /\ asked[r] \in 0 .. QuestionCap
  BY DEF CoreTypeOK, UnansweredOf
<1>2. ASSUME LatestUnanswered # NoQuestion
      PROVE  LatestUnanswered \in Questions /\ LatestUnanswered \notin answered
  <2>1. /\ QuestionRun # 0 /\ UnansweredOf(QuestionRun) # {}
        /\ LatestUnanswered = <<QuestionRun, LatestOf(UnansweredOf(QuestionRun))>>
    BY <1>2 DEF LatestUnanswered
  <2>2. QuestionRun \in Runs
    BY <2>1, RunsTyped, CapsAreNatural DEF Runs
  <2>3. LatestOf(UnansweredOf(QuestionRun)) \in UnansweredOf(QuestionRun)
    BY <1>1, <2>1, <2>2, CapsAreNatural, LargestOf
  <2>4. LatestOf(UnansweredOf(QuestionRun)) \in 1 .. asked[QuestionRun] /\ asked[QuestionRun] \in 0 .. QuestionCap
    BY <1>1, <2>2, <2>3
  <2>5. LatestUnanswered \notin answered
    BY <2>1, <2>3 DEF UnansweredOf
  <2> DEFINE n == LatestOf(UnansweredOf(QuestionRun))
  <2> HIDE DEF n
  <2>6. n \in 1 .. QuestionCap /\ n <= asked[QuestionRun] /\ LatestUnanswered = <<QuestionRun, n>>
    BY <2>1, <2>4, CapsAreNatural DEF n
  <2>7. LatestUnanswered \in Questions
    BY <2>2, <2>6 DEF Questions
  <2> QED
    BY <2>5, <2>7
<1> QED
  BY <1>1, <1>2, CapsAreNatural

-----------------------------------------------------------------------------
(***************************************************************************)
(* Most steps leave the interviews alone.                                  *)
(***************************************************************************)
Interviewing == {"starting", "eliciting", "waiting", "announcing spec"}

\* no interview begins here, and none moves
MovesOn(s) ==
  job'[s].step \in Interviewing => job'[s].step = job[s].step /\ job'[s].run = job[s].run

TurnsPage(s) == surface'[s].page \in {surface[s].page, NoQuestion, LatestUnanswered}

\* no spec is written or lost; one may be announced or signed
SpecsKeep ==
  \/ UNCHANGED specLog
  \/ /\ specRow' \in [Runs -> {"none", "unsigned", "signed"}]
     /\ \A r \in Runs : specRow'[r] = "none" <=> specRow[r] = "none"
     /\ lastDrafted' \in 0 .. RunCap /\ lastSigned' \in 0 .. RunCap
     /\ SpecsFit'

Quiet ==
  /\ UNCHANGED <<interviewLog, misread>> /\ SpecsKeep
  /\ job' \in [Surfaces -> JobFrame] /\ surface' \in [Surfaces -> SurfaceFrame]
  /\ \A s \in Surfaces : MovesOn(s) /\ TurnsPage(s)

\* A step of which nothing in the argument hears keeps the invariant.
LEMMA QuietKeeps ==
  ASSUME GuidanceInv, Quiet
  PROVE  GuidanceInv'
<1>1. started' = started /\ asked' = asked /\ answered' = answered /\ misread' = misread
  BY DEF Quiet, interviewLog
<1>11. /\ specRow' \in [Runs -> {"none", "unsigned", "signed"}]
       /\ \A r \in Runs : specRow'[r] = "none" <=> specRow[r] = "none"
       /\ lastDrafted' \in 0 .. RunCap /\ lastSigned' \in 0 .. RunCap
       /\ SpecsFit'
  BY DEF Quiet, SpecsKeep, specLog, GuidanceInv, CoreTypeOK, SpecsFit
<1>2. CoreTypeOK'
  <2>1. CoreTypeOK
    BY DEF GuidanceInv
  <2>2. Questions' = Questions
    BY <1>1 DEF Questions
  <2> QED
    BY <1>1, <1>11, <2>1, <2>2 DEF CoreTypeOK, Quiet
<1>3. RunsLeft'
  <2>1. Starters' \subseteq Starters
    BY DEF Starters, Quiet, MovesOn, Interviewing
  <2>2. IsFiniteSet(Starters) /\ RunsToCome <= RunCap
    BY DEF GuidanceInv, RunsLeft
  <2>3. IsFiniteSet(Starters') /\ Cardinality(Starters') <= Cardinality(Starters)
    BY <2>1, <2>2, FS_Subset
  <2>4. Cardinality(Starters) \in Nat /\ Cardinality(Starters') \in Nat
    BY <2>2, <2>3, FS_CardinalityType
  <2>5. RunsToCome = started + Cardinality(Starters) /\ RunsToCome' = started' + Cardinality(Starters')
    BY DEF RunsToCome, Starters
  <2>6. started \in Nat /\ RunCap \in Nat
    BY CapsAreNatural DEF GuidanceInv, CoreTypeOK
  <2> QED
    BY <1>1, <2>2, <2>3, <2>4, <2>5, <2>6 DEF RunsLeft
<1>4. ASSUME NEW s \in Surfaces
      PROVE  OwnRun(s)'
  <2>1. \A u \in Surfaces : Interviews(u)' => Interviews(u) /\ job'[u].run = job[u].run
    BY DEF Quiet, MovesOn, Interviewing, Interviews
  <2>2. OwnRun(s)
    BY DEF GuidanceInv
  <2> QED
    BY <1>1, <2>1, <2>2 DEF OwnRun
<1>5. ASSUME NEW r
      PROVE  {n \in 1 .. asked'[r] : <<r, n>> \notin answered'} = UnansweredOf(r)
  BY <1>1 DEF UnansweredOf
<1>6. ASSUME NEW s \in Surfaces
      PROVE  JobFits(s)'
  <2>1. job'[s].step \in Interviewing => job'[s].step = job[s].step /\ job'[s].run = job[s].run
    BY DEF Quiet, MovesOn
  <2>2. JobFits(s) /\ OwnRun(s) /\ started \in 0 .. RunCap
    BY DEF GuidanceInv, CoreTypeOK
  <2>5. Interviews(s) => job[s].run \in Runs
    BY <2>2, CapsAreNatural DEF OwnRun, Runs
  <2>3. job'[s].step = "eliciting" => UnansweredOf(job[s].run) = {}
    BY <2>1, <2>2 DEF JobFits, Interviewing
  <2>4. job'[s].step = "eliciting" => {n \in 1 .. asked'[job'[s].run] : <<job'[s].run, n>> \notin answered'} = {}
    BY <1>5, <2>1, <2>3 DEF Interviewing
  <2>6. Interviews(s) => (specRow'[job[s].run] = "none" <=> specRow[job[s].run] = "none")
    BY <1>11, <2>5
  <2> QED
    BY <1>1, <2>1, <2>2, <2>4, <2>6 DEF JobFits, Interviewing, UnansweredOf, Interviews
<1>7. ASSUME NEW s \in Surfaces
      PROVE  PageFits(s)'
  <2>1. surface'[s].page \in {surface[s].page, NoQuestion, LatestUnanswered}
    BY DEF Quiet, TurnsPage
  <2>2. PageFits(s)
    BY DEF GuidanceInv
  <2>3. LatestUnanswered # NoQuestion => LatestUnanswered \in Questions
    BY PendingTyped DEF GuidanceInv
  <2>4. Questions' = Questions
    BY <1>1 DEF Questions
  <2>5. CASE surface'[s].page = surface[s].page
    BY <2>2, <2>4, <2>5 DEF PageFits
  <2>6. CASE surface'[s].page = NoQuestion
    BY <2>6 DEF PageFits
  <2>7. CASE surface'[s].page = LatestUnanswered
    BY <2>3, <2>4, <2>7 DEF PageFits
  <2> QED
    BY <2>1, <2>5, <2>6, <2>7
<1>8. ASSUME NEW r \in Runs
      PROVE  Unstarted(r)' /\ OneQuestion(r)'
  <2>1. Unstarted(r) /\ OneQuestion(r)
    BY DEF GuidanceInv
  <2>2. UnansweredOf(r)' = UnansweredOf(r)
    BY <1>1 DEF UnansweredOf
  <2> QED
    BY <1>1, <1>11, <2>1, <2>2 DEF Unstarted, OneQuestion
<1>9. SpecsFit' /\ AnswerAsShown'
  BY <1>1, <1>11 DEF GuidanceInv, AnswerAsShown
<1>10. Runs' = Runs
  BY DEF Runs
<1> QED
  BY <1>2, <1>3, <1>4, <1>6, <1>7, <1>8, <1>9, <1>10 DEF GuidanceInv

\* One build slot changes.
LEMMA SlotTurns ==
  ASSUME CoreTypeOK, NEW s \in Surfaces, NEW x \in JobFrame, job' = [job EXCEPT ![s] = x]
  PROVE  job' \in [Surfaces -> JobFrame] /\ job'[s] = x /\ \A u \in Surfaces \ {s} : job'[u] = job[u]
  BY DEF CoreTypeOK

LEMMA PageTurns ==
  ASSUME CoreTypeOK, NEW s \in Surfaces, NEW y \in SurfaceFrame, surface' = [surface EXCEPT ![s] = y]
  PROVE  /\ surface' \in [Surfaces -> SurfaceFrame] /\ surface'[s] = y
         /\ \A u \in Surfaces \ {s} : surface'[u] = surface[u]
  BY DEF CoreTypeOK

\* A slot that is no interview afterwards, or the one it was, disturbs nobody.
LEMMA QuietSlot ==
  ASSUME CoreTypeOK, NEW s \in Surfaces, NEW x \in JobFrame, job' = [job EXCEPT ![s] = x],
         x.step \in Interviewing => x.step = job[s].step /\ x.run = job[s].run,
         UNCHANGED <<interviewLog, specLog, surface, misread>>
  PROVE  Quiet
<1>1. job' \in [Surfaces -> JobFrame] /\ job'[s] = x /\ \A u \in Surfaces \ {s} : job'[u] = job[u]
  BY SlotTurns
<1>2. \A u \in Surfaces : MovesOn(u)
  BY <1>1 DEF MovesOn
<1>3. surface' = surface /\ surface' \in [Surfaces -> SurfaceFrame]
  BY DEF CoreTypeOK
<1>4. \A u \in Surfaces : TurnsPage(u)
  BY <1>3 DEF TurnsPage
<1> QED
  BY <1>1, <1>2, <1>3, <1>4 DEF Quiet, SpecsKeep

\* Neither does a surface that turns to the pending question, or away.
LEMMA QuietPage ==
  ASSUME CoreTypeOK, NEW s \in Surfaces, NEW y \in SurfaceFrame, surface' = [surface EXCEPT ![s] = y],
         y.page \in {surface[s].page, NoQuestion, LatestUnanswered},
         UNCHANGED <<interviewLog, specLog, job, misread>>
  PROVE  Quiet
<1>1. /\ surface' \in [Surfaces -> SurfaceFrame] /\ surface'[s] = y
      /\ \A u \in Surfaces \ {s} : surface'[u] = surface[u]
  BY PageTurns
<1>2. \A u \in Surfaces : TurnsPage(u)
  BY <1>1 DEF TurnsPage
<1>3. job' = job /\ job' \in [Surfaces -> JobFrame]
  BY DEF CoreTypeOK
<1>4. \A u \in Surfaces : MovesOn(u)
  BY <1>3 DEF MovesOn
<1> QED
  BY <1>1, <1>2, <1>3, <1>4 DEF Quiet, SpecsKeep

\* What a slot becomes is a slot.
LEMMA SlotForms ==
  ASSUME CoreTypeOK, NEW s \in Surfaces,
         NEW step \in {"idle"} \cup Researching \cup Planning \cup Developing, NEW r \in 0 .. RunCap, NEW t \in 0 .. TaskCap
  PROVE  /\ [job[s] EXCEPT !.step = step] \in {x \in JobFrame : x.step = step /\ x.run = job[s].run}
         /\ [job[s] EXCEPT !.step = step, !.run = r] \in {x \in JobFrame : x.step = step /\ x.run = r}
         /\ [job[s] EXCEPT !.step = step, !.run = r, !.task = t] \in {x \in JobFrame : x.step = step}
         /\ [job[s] EXCEPT !.step = step, !.holds = FALSE] \in {x \in JobFrame : x.step = step}
         /\ [job[s] EXCEPT !.upset = TRUE] \in {x \in JobFrame : x.step = job[s].step /\ x.run = job[s].run}
         /\ [job[s] EXCEPT !.cancelled = TRUE] \in {x \in JobFrame : x.step = job[s].step /\ x.run = job[s].run}
<1>1. job[s] \in JobFrame /\ FreeSlot \in JobFrame
  BY SlotTyped
<1> QED
  BY <1>1 DEF JobFrame

LEMMA PageForms ==
  ASSUME CoreTypeOK, NEW s \in Surfaces,
         NEW at \in {"here", "away", "closed"}, NEW v \in Targets,
         NEW q \in (Runs \X (1 .. QuestionCap)) \cup {NoQuestion}
  PROVE  /\ [surface[s] EXCEPT !.page = q] \in {y \in SurfaceFrame : y.page = q}
         /\ [surface[s] EXCEPT !.target = v] \in {y \in SurfaceFrame : y.page = surface[s].page}
         /\ [surface[s] EXCEPT !.at = at, !.target = v] \in {y \in SurfaceFrame : y.page = surface[s].page}
         /\ [at |-> at, target |-> NoTarget, page |-> NoQuestion] \in {y \in SurfaceFrame : y.page = NoQuestion}
<1>1. surface[s] \in SurfaceFrame
  BY SlotTyped
<1> QED
  BY <1>1 DEF SurfaceFrame, Targets

LEMMA FreeSlotIsIdle == FreeSlot.step = "idle" /\ "idle" \notin Interviewing
  BY DEF FreeSlot, Interviewing

\* A step that gives its slot back.
LEMMA FreesQuietly ==
  ASSUME CoreTypeOK, NEW s \in Surfaces, Frees(s), UNCHANGED <<interviewLog, specLog, surface, misread>>
  PROVE  Quiet
<1>1. FreeSlot \in JobFrame /\ (FreeSlot.step \in Interviewing => FreeSlot.step = job[s].step /\ FreeSlot.run = job[s].run)
  BY SlotTyped, FreeSlotIsIdle
<1>2. job' = [job EXCEPT ![s] = FreeSlot]
  BY DEF Frees
<1> QED
  BY <1>1, <1>2, QuietSlot

LEMMA ClaimsQuietly ==
  ASSUME CoreTypeOK, NEW s \in Surfaces, NEW step \in {"planning", "selecting"},
         NEW r \in 0 .. RunCap, NEW t \in 0 .. TaskCap, Claims(s, step, r, t)
  PROVE  Quiet
<1> DEFINE x == [FreeSlot EXCEPT !.step = step, !.run = r, !.task = t]
<1>1. step \in {"idle"} \cup Researching \cup Planning \cup Developing /\ step \notin Interviewing
  BY DEF Planning, Developing, Interviewing
<1>2. x \in {y \in JobFrame : y.step = step /\ y.run = r}
  BY <1>1, SlotTyped DEF FreeSlot, JobFrame
<1>3. job' = [job EXCEPT ![s] = x] /\ UNCHANGED <<interviewLog, specLog, surface, misread>>
  BY DEF Claims
<1> HIDE DEF x
<1> QED
  BY <1>1, <1>2, <1>3, QuietSlot

LEMMA ReadsQuietly ==
  ASSUME CoreTypeOK, NEW s \in Surfaces, LatestUnanswered # NoQuestion, Shows(s, LatestUnanswered),
         UNCHANGED <<interviewLog, specLog, job, misread>>
  PROVE  Quiet
<1> DEFINE q == LatestUnanswered
           y == [surface[s] EXCEPT !.page = q]
<1>1. q \in (Runs \X (1 .. QuestionCap)) \cup {NoQuestion}
  BY PendingTyped DEF Questions
<1>2. surface[s].at \in {"here", "away", "closed"} /\ NoTarget \in Targets
  BY SlotTyped DEF SurfaceFrame, Targets
<1>3. y \in {z \in SurfaceFrame : z.page = q}
  BY <1>1, <1>2, PageForms
<1>4. surface' = [surface EXCEPT ![s] = y]
  BY DEF Shows
<1> HIDE DEF y
<1> QED
  BY <1>3, <1>4, QuietPage

LEMMA TargetsQuietly ==
  ASSUME CoreTypeOK, NEW s \in Surfaces, NEW v \in Targets, SetsTarget(s, v)
  PROVE  Quiet
<1> DEFINE y == [surface[s] EXCEPT !.target = v]
<1>1. NoQuestion \in (Runs \X (1 .. QuestionCap)) \cup {NoQuestion} /\ surface[s].at \in {"here", "away", "closed"}
  BY SlotTyped DEF SurfaceFrame
<1>2. y \in {z \in SurfaceFrame : z.page = surface[s].page}
  BY <1>1, PageForms
<1>3. surface' = [surface EXCEPT ![s] = y] /\ UNCHANGED <<interviewLog, specLog, job, misread>>
  BY DEF SetsTarget
<1> HIDE DEF y
<1> QED
  BY <1>2, <1>3, QuietPage

LEMMA LeavesQuietly ==
  ASSUME CoreTypeOK, NEW s \in Surfaces, NEW where \in {"away", "closed"}, Leaves(s, where)
  PROVE  Quiet
<1> DEFINE y == [at |-> where, target |-> NoTarget, page |-> NoQuestion]
<1>1. y \in {z \in SurfaceFrame : z.page = NoQuestion}
  BY DEF SurfaceFrame, Targets
<1>2. surface' = [surface EXCEPT ![s] = y] /\ UNCHANGED <<interviewLog, specLog, job, misread>>
  BY DEF Leaves
<1> HIDE DEF y
<1> QED
  BY <1>1, <1>2, QuietPage

LEMMA ReturnsQuietly ==
  ASSUME CoreTypeOK, NEW s \in Surfaces, targetSet \in Targets, ComeBack(s)
  PROVE  Quiet
<1> DEFINE y == [surface[s] EXCEPT !.at = "here", !.target = targetSet]
<1>1. NoQuestion \in (Runs \X (1 .. QuestionCap)) \cup {NoQuestion}
  OBVIOUS
<1>2. y \in {z \in SurfaceFrame : z.page = surface[s].page}
  BY <1>1, PageForms
<1>3. surface' = [surface EXCEPT ![s] = y] /\ UNCHANGED <<interviewLog, specLog, job, misread>>
  BY DEF ComeBack
<1> HIDE DEF y
<1> QED
  BY <1>2, <1>3, QuietPage

LEMMA DiesQuietly ==
  ASSUME CoreTypeOK, NEW s \in Surfaces, SurfaceKilled(s)
  PROVE  Quiet
<1> DEFINE y == [at |-> "closed", target |-> NoTarget, page |-> NoQuestion]
<1>1. y \in {z \in SurfaceFrame : z.page = NoQuestion}
  BY DEF SurfaceFrame, Targets
<1>2. /\ surface' = [surface EXCEPT ![s] = y] /\ job' = [job EXCEPT ![s] = FreeSlot]
      /\ UNCHANGED <<interviewLog, specLog, misread>>
  BY DEF SurfaceKilled, Frees
<1> HIDE DEF y
<1>3. /\ surface' \in [Surfaces -> SurfaceFrame] /\ surface'[s] = y
      /\ \A u \in Surfaces \ {s} : surface'[u] = surface[u]
  BY <1>1, <1>2, PageTurns
<1>4. FreeSlot \in JobFrame
  BY SlotTyped
<1>5. job' \in [Surfaces -> JobFrame] /\ job'[s] = FreeSlot /\ \A u \in Surfaces \ {s} : job'[u] = job[u]
  BY <1>2, <1>4, SlotTurns
<1>6. \A u \in Surfaces : MovesOn(u)
  BY <1>5, FreeSlotIsIdle DEF MovesOn
<1>7. \A u \in Surfaces : TurnsPage(u)
  BY <1>1, <1>3 DEF TurnsPage
<1> QED
  BY <1>2, <1>3, <1>5, <1>6, <1>7 DEF Quiet, SpecsKeep

LEMMA RunOfTyped ==
  ASSUME CoreTypeOK, NEW s \in Surfaces
  PROVE  RunOf(s) \in 0 .. RunCap
  BY SlotTyped, RunsTyped DEF RunOf

\* A draft of tasks, the beginning of a dispatch, the lock given back, and a
\* cancelled step.
LEMMA DraftsQuietly ==
  ASSUME CoreTypeOK, NEW s \in Surfaces, DraftTasks(s)
  PROVE  Quiet
<1>1. PICK n \in PlanTasks : job' = [job EXCEPT ![s].step = "announcing plan", ![s].run = RunOf(s), ![s].task = n]
  BY DEF DraftTasks
<1> DEFINE x == [job[s] EXCEPT !.step = "announcing plan", !.run = RunOf(s), !.task = n]
<1>2. job' = [job EXCEPT ![s] = x] /\ UNCHANGED <<interviewLog, specLog, surface, misread>>
  BY <1>1 DEF DraftTasks
<1>3. "announcing plan" \in {"idle"} \cup Researching \cup Planning \cup Developing /\ "announcing plan" \notin Interviewing
  BY DEF Planning, Interviewing
<1>4. RunOf(s) \in 0 .. RunCap /\ n \in 0 .. TaskCap
  BY RunOfTyped, CapsAreNatural DEF PlanTasks
<1>5. x \in {y \in JobFrame : y.step = "announcing plan"}
  BY <1>3, <1>4, SlotForms
<1> HIDE DEF x
<1> QED
  BY <1>2, <1>3, <1>5, QuietSlot

\* Which tasks a dispatch may select.
LEMMA SelectedTyped ==
  ASSUME RestTypeOK, NEW r \in Runs, NEW t
  PROVE  Selected(r, t) \subseteq 1 .. planRow[r] /\ 1 .. planRow[r] \subseteq PlanTasks
<1>1. planRow[r] \in 0 .. TaskCap
  BY DEF RestTypeOK
<1> DEFINE open == {u \in 1 .. planRow[r] : latest[r][u] = "none"}
<1>2. open # {} => FirstOf(open) \in open
  BY <1>1, CapsAreNatural, LeastOf
<1> QED
  BY <1>1, <1>2, CapsAreNatural DEF Selected, PlanTasks

LEMMA StartsQuietly ==
  ASSUME CoreTypeOK, RestTypeOK, NEW s \in Surfaces, StartTask(s)
  PROVE  Quiet
<1> DEFINE r == RunOf(s)
           t == CHOOSE u \in Selected(r, job[s].task) : TRUE
           own == (Base(s) = Own)
           x == [job[s] EXCEPT !.step = "writing", !.run = r, !.task = t, !.own = own, !.holds = (lockHolder = "nobody")]
           z(u) == [job[u] EXCEPT !.upset = TRUE]
<1>1. /\ job[s].step = "selecting" /\ Selected(r, job[s].task) # {} /\ r # 0
      /\ UNCHANGED <<interviewLog, specLog, surface, misread>>
  BY DEF StartTask, Dispatchable, Plannable
<1>2. job' = [u \in Surfaces |->
                IF u = s THEN x
                ELSE IF job[u].step \in {"writing", "judging"} /\ job[u].run = r /\ job[u].task = t /\ job[u].own = own
                     THEN z(u)
                ELSE job[u]]
  BY DEF StartTask
<1>3. t \in Selected(r, job[s].task)
  BY <1>1
<1>4. r \in 0 .. RunCap /\ r \in Runs
  BY <1>1, RunOfTyped, CapsAreNatural DEF Runs
<1>13. t \in 0 .. TaskCap
  <2>1. t \in PlanTasks
    BY <1>3, <1>4, SelectedTyped
  <2> QED
    BY <2>1, CapsAreNatural DEF PlanTasks
<1> HIDE DEF r, t, own
<1>5. own \in BOOLEAN /\ (lockHolder = "nobody") \in BOOLEAN
  BY DEF own
<1>6. "writing" \in {"idle"} \cup Researching \cup Planning \cup Developing /\ "writing" \notin Interviewing
  BY DEF Developing, Interviewing
<1>7. x \in {y \in JobFrame : y.step = "writing"}
  BY ZenonT(30), <1>4, <1>5, <1>13, SlotTyped DEF JobFrame, Developing
<1> HIDE DEF x
<1>8. ASSUME NEW u \in Surfaces
      PROVE  z(u) \in {y \in JobFrame : y.step = job[u].step /\ y.run = job[u].run} /\ job[u] \in JobFrame
  BY SlotTyped DEF JobFrame
<1> HIDE DEF z
<1>9. job' \in [Surfaces -> JobFrame]
  BY <1>2, <1>7, <1>8
<1>10. ASSUME NEW u \in Surfaces
       PROVE  MovesOn(u)
  BY <1>2, <1>6, <1>7, <1>8 DEF MovesOn
<1>11. surface' = surface /\ surface' \in [Surfaces -> SurfaceFrame]
  BY <1>1 DEF CoreTypeOK
<1>12. \A u \in Surfaces : TurnsPage(u)
  BY <1>11 DEF TurnsPage
<1> QED
  BY <1>1, <1>9, <1>10, <1>11, <1>12 DEF Quiet, SpecsKeep

LEMMA GivesBackQuietly ==
  ASSUME CoreTypeOK, NEW s \in Surfaces, LayDownPen(s)
  PROVE  Quiet
<1> DEFINE x == [job[s] EXCEPT !.step = "judging", !.holds = FALSE]
<1>1. job' = [job EXCEPT ![s] = x] /\ UNCHANGED <<interviewLog, specLog, surface, misread>>
  BY DEF LayDownPen
<1>2. "judging" \notin Interviewing
  BY DEF Interviewing
<1>3. x \in {y \in JobFrame : y.step = "judging"}
  BY SlotTyped DEF JobFrame, Developing
<1> HIDE DEF x
<1> QED
  BY <1>1, <1>2, <1>3, QuietSlot

LEMMA CancelsQuietly ==
  ASSUME CoreTypeOK, NEW s \in Surfaces, CancelJob(s)
  PROVE  Quiet
<1> DEFINE x == [job[s] EXCEPT !.cancelled = TRUE]
<1>1. job' = [job EXCEPT ![s] = x] /\ UNCHANGED <<interviewLog, specLog, surface, misread>>
  BY DEF CancelJob
<1>2. x \in {y \in JobFrame : y.step = job[s].step /\ y.run = job[s].run}
  BY SlotTyped DEF JobFrame
<1> HIDE DEF x
<1> QED
  BY <1>1, <1>2, QuietSlot

\* A step outside the surfaces' slots and pages.
LEMMA RestsQuietly ==
  ASSUME CoreTypeOK, UNCHANGED <<interviewLog, misread, surface, job>>, SpecsKeep
  PROVE  Quiet
<1>1. job' = job /\ surface' = surface
  OBVIOUS
<1>2. \A u \in Surfaces : MovesOn(u) /\ TurnsPage(u)
  BY <1>1 DEF MovesOn, TurnsPage
<1> QED
  BY <1>1, <1>2 DEF Quiet, CoreTypeOK

\* Signing, with its event or without it.
LEMMA SigningKeepsSpecs ==
  ASSUME GuidanceInv, NEW r, Signs(r) \/ SignsSilently(r), r \in 0 .. RunCap
  PROVE  SpecsKeep
<1>1. CoreTypeOK /\ SpecsFit
  BY DEF GuidanceInv
<1>2. /\ r \in Runs /\ specRow[r] # "none"
      /\ specRow' = [specRow EXCEPT ![r] = "signed"] /\ lastDrafted' = lastDrafted /\ lastSigned' \in {r, lastSigned}
  BY CapsAreNatural DEF Signs, SignsSilently, Runs
<1>3. lastDrafted # 0 => lastDrafted \in Runs /\ specRow[lastDrafted] # "none"
  BY <1>1, CapsAreNatural DEF CoreTypeOK, SpecsFit, Runs
<1>4. lastSigned # 0 => lastSigned \in Runs /\ specRow[lastSigned] = "signed"
  BY <1>1, CapsAreNatural DEF CoreTypeOK, SpecsFit, Runs
<1>5. SpecsFit'
  BY <1>1, <1>2, <1>3, <1>4 DEF SpecsFit, CoreTypeOK
<1> QED
  BY <1>1, <1>2, <1>5 DEF SpecsKeep, CoreTypeOK

LEMMA SignsQuietly ==
  ASSUME GuidanceInv, NEW r \in 0 .. RunCap, Signs(r) \/ SignsSilently(r)
  PROVE  Quiet
<1>1. SpecsKeep /\ CoreTypeOK
  BY SigningKeepsSpecs DEF GuidanceInv
<1>2. UNCHANGED <<interviewLog, misread, surface, job>>
  BY DEF Signs, SignsSilently
<1> QED
  BY <1>1, <1>2, RestsQuietly

\* The draft that an interview announces is written.
LEMMA AnnouncesQuietly ==
  ASSUME GuidanceInv, NEW s \in Surfaces, AnnounceDraft(s)
  PROVE  Quiet
<1>1. CoreTypeOK /\ SpecsFit /\ JobFits(s) /\ OwnRun(s)
  BY DEF GuidanceInv
<1>2. /\ job[s].step = "announcing spec" /\ lastDrafted' = job[s].run
      /\ job' = [job EXCEPT ![s] = FreeSlot]
      /\ UNCHANGED <<interviewLog, specRow, lastSigned, surface, misread>>
  BY DEF AnnounceDraft, Frees
<1>3. specRow[job[s].run] # "none" /\ job[s].run \in 0 .. RunCap
  BY <1>1, <1>2, SlotTyped DEF JobFits
<1>4. SpecsKeep
  BY <1>1, <1>2, <1>3 DEF SpecsKeep, SpecsFit, CoreTypeOK
<1>5. FreeSlot \in JobFrame
  BY <1>1, SlotTyped
<1>6. job' \in [Surfaces -> JobFrame] /\ job'[s] = FreeSlot /\ \A u \in Surfaces \ {s} : job'[u] = job[u]
  BY <1>1, <1>2, <1>5, SlotTurns
<1>7. surface' = surface
  BY <1>2
<1>8. \A u \in Surfaces : MovesOn(u) /\ TurnsPage(u)
  BY <1>6, <1>7, FreeSlotIsIdle DEF MovesOn, TurnsPage
<1> QED
  BY <1>1, <1>2, <1>4, <1>6, <1>7, <1>8 DEF Quiet, CoreTypeOK

-----------------------------------------------------------------------------
(***************************************************************************)
(* The steps that the argument does hear of.                               *)
(***************************************************************************)
\* While the log of interviews and specs stays as it is, only the slots ask.
LEMMA LogStays ==
  ASSUME GuidanceInv, job' \in [Surfaces -> JobFrame], UNCHANGED <<interviewLog, specLog, surface, misread>>
  PROVE  /\ CoreTypeOK' /\ SpecsFit' /\ AnswerAsShown' /\ Runs' = Runs /\ started' = started
         /\ \A s \in Surfaces : PageFits(s)'
         /\ \A r \in Runs : Unstarted(r)' /\ OneQuestion(r)' /\ UnansweredOf(r)' = UnansweredOf(r)
<1>1. /\ started' = started /\ asked' = asked /\ answered' = answered /\ misread' = misread
      /\ specRow' = specRow /\ lastDrafted' = lastDrafted /\ lastSigned' = lastSigned /\ surface' = surface
  BY DEF interviewLog, specLog
<1>2. Questions' = Questions /\ Runs' = Runs
  BY <1>1 DEF Questions, Runs
<1>3. CoreTypeOK'
  BY <1>1, <1>2 DEF GuidanceInv, CoreTypeOK
<1>4. SpecsFit' /\ AnswerAsShown'
  BY <1>1 DEF GuidanceInv, SpecsFit, AnswerAsShown
<1>5. \A s \in Surfaces : PageFits(s)'
  BY <1>1, <1>2 DEF GuidanceInv, PageFits
<1>6. ASSUME NEW r \in Runs
      PROVE  Unstarted(r)' /\ OneQuestion(r)' /\ UnansweredOf(r)' = UnansweredOf(r)
  <2>1. UnansweredOf(r)' = UnansweredOf(r)
    BY <1>1 DEF UnansweredOf
  <2>2. Unstarted(r) /\ OneQuestion(r)
    BY DEF GuidanceInv
  <2> QED
    BY <1>1, <2>1, <2>2 DEF Unstarted, OneQuestion
<1> QED
  BY <1>1, <1>2, <1>3, <1>4, <1>5, <1>6

\* An interview that nobody else touches.
LEMMA OthersStay ==
  ASSUME GuidanceInv, NEW s \in Surfaces, \A u \in Surfaces \ {s} : job'[u] = job[u],
         UNCHANGED <<asked, answered, specRow>>
  PROVE  \A u \in Surfaces \ {s} : JobFits(u)'
<1> TAKE u \in Surfaces \ {s}
<1>1. JobFits(u) /\ job'[u] = job[u] /\ asked' = asked /\ answered' = answered /\ specRow' = specRow
  BY DEF GuidanceInv
<1>2. job'[u].step = "eliciting" => UnansweredOf(job[u].run) = {}
  BY <1>1 DEF JobFits
<1>3. job'[u].step = "eliciting" => {n \in 1 .. asked'[job'[u].run] : <<job'[u].run, n>> \notin answered'} = {}
  BY <1>1, <1>2 DEF UnansweredOf
<1> QED
  BY <1>1, <1>3 DEF JobFits, UnansweredOf

LEMMA RunsKeptOwn ==
  ASSUME GuidanceInv, started' = started,
         \A u \in Surfaces : Interviews(u)' => Interviews(u) /\ job'[u].run = job[u].run
  PROVE  \A u \in Surfaces : OwnRun(u)'
<1> TAKE u \in Surfaces
<1>1. OwnRun(u)
  BY DEF GuidanceInv
<1> QED
  BY <1>1 DEF OwnRun

\* How many runs there may be yet.
LEMMA RunsCounted ==
  ASSUME GuidanceInv
  PROVE  /\ IsFiniteSet(Starters) /\ Cardinality(Starters) \in Nat
         /\ RunsToCome = started + Cardinality(Starters) /\ started \in Nat /\ RunCap \in Nat
         /\ started + Cardinality(Starters) <= RunCap
<1>1. IsFiniteSet(Starters) /\ RunsToCome <= RunCap /\ started \in Nat /\ RunCap \in Nat
  BY CapsAreNatural DEF GuidanceInv, RunsLeft, CoreTypeOK
<1>2. Cardinality(Starters) \in Nat
  BY <1>1, FS_CardinalityType
<1>3. RunsToCome = started + Cardinality(Starters)
  BY DEF RunsToCome, Starters
<1> QED
  BY <1>1, <1>2, <1>3

\* A surface claims its slot for a run.
LEMMA ResearchKeeps ==
  ASSUME GuidanceInv, NEW s \in Surfaces, RunsToCome < RunCap, Claims(s, "starting", 0, 0)
  PROVE  GuidanceInv'
<1> DEFINE x == [FreeSlot EXCEPT !.step = "starting", !.run = 0, !.task = 0]
<1>1. /\ job[s] = FreeSlot /\ job' = [job EXCEPT ![s] = x]
      /\ UNCHANGED <<interviewLog, specLog, surface, misread>>
  BY DEF Claims
<1>2. CoreTypeOK
  BY DEF GuidanceInv
<1>3. x \in {y \in JobFrame : y.step = "starting"}
  BY <1>2, SlotTyped, CapsAreNatural DEF FreeSlot, JobFrame, Researching
<1> HIDE DEF x
<1>4. job' \in [Surfaces -> JobFrame] /\ job'[s] = x /\ \A u \in Surfaces \ {s} : job'[u] = job[u]
  BY <1>1, <1>2, <1>3, SlotTurns
<1>5. /\ CoreTypeOK' /\ SpecsFit' /\ AnswerAsShown' /\ Runs' = Runs /\ started' = started
      /\ \A u \in Surfaces : PageFits(u)'
      /\ \A r \in Runs : Unstarted(r)' /\ OneQuestion(r)'
  BY <1>1, <1>4, LogStays
<1>6. RunsLeft'
  <2>1. Starters' = Starters \cup {s} /\ s \notin Starters
    BY <1>1, <1>3, <1>4, FreeSlotIsIdle DEF Starters, FreeSlot
  <2>2. IsFiniteSet(Starters') /\ Cardinality(Starters') = Cardinality(Starters) + 1
    BY <2>1, RunsCounted, FS_AddElement
  <2>3. RunsToCome' = started' + Cardinality(Starters')
    BY DEF RunsToCome, Starters
  <2> QED
    BY <1>5, <2>2, <2>3, RunsCounted DEF RunsLeft
<1>7. \A u \in Surfaces : Interviews(u)' => Interviews(u) /\ job'[u].run = job[u].run
  BY <1>3, <1>4 DEF Interviews
<1>8. \A u \in Surfaces : OwnRun(u)'
  BY <1>5, <1>7, RunsKeptOwn
<1>9. \A u \in Surfaces \ {s} : JobFits(u)'
  BY <1>1, <1>4, OthersStay DEF interviewLog, specLog
<1>10. JobFits(s)'
  BY <1>3, <1>4 DEF JobFits
<1> QED
  BY <1>5, <1>6, <1>8, <1>9, <1>10 DEF GuidanceInv

\* An interview hears its answer.
LEMMA HearsKeeps ==
  ASSUME GuidanceInv, NEW s \in Surfaces, HearAnswer(s)
  PROVE  GuidanceInv'
<1> DEFINE x == [job[s] EXCEPT !.step = "eliciting"]
<1>1. /\ job[s].step = "waiting" /\ <<job[s].run, asked[job[s].run]>> \in answered
      /\ job' = [job EXCEPT ![s] = x]
      /\ UNCHANGED <<interviewLog, specLog, surface, misread>>
  BY DEF HearAnswer, Goes
<1>2. CoreTypeOK /\ JobFits(s) /\ OwnRun(s) /\ started \in 0 .. RunCap
  BY DEF GuidanceInv, CoreTypeOK
<1>3. x \in {y \in JobFrame : y.step = "eliciting" /\ y.run = job[s].run}
  BY <1>2, SlotTyped DEF JobFrame, Researching
<1> HIDE DEF x
<1>4. job' \in [Surfaces -> JobFrame] /\ job'[s] = x /\ \A u \in Surfaces \ {s} : job'[u] = job[u]
  BY <1>1, <1>2, <1>3, SlotTurns
<1>5. /\ CoreTypeOK' /\ SpecsFit' /\ AnswerAsShown' /\ Runs' = Runs /\ started' = started
      /\ \A u \in Surfaces : PageFits(u)'
      /\ \A r \in Runs : Unstarted(r)' /\ OneQuestion(r)' /\ UnansweredOf(r)' = UnansweredOf(r)
  BY <1>1, <1>4, LogStays
<1>6. RunsLeft'
  <2>1. Starters' = Starters
    BY <1>1, <1>3, <1>4 DEF Starters
  <2>2. RunsToCome' = started' + Cardinality(Starters')
    BY DEF RunsToCome, Starters
  <2> QED
    BY <1>5, <2>1, <2>2, RunsCounted DEF RunsLeft
<1>7. \A u \in Surfaces : Interviews(u)' => Interviews(u) /\ job'[u].run = job[u].run
  BY <1>1, <1>3, <1>4 DEF Interviews
<1>8. \A u \in Surfaces : OwnRun(u)'
  BY <1>5, <1>7, RunsKeptOwn
<1>9. \A u \in Surfaces \ {s} : JobFits(u)'
  BY <1>1, <1>4, OthersStay DEF interviewLog, specLog
<1>10. JobFits(s)'
  <2>7. job[s].run \in 1 .. started
    BY <1>1, <1>2 DEF OwnRun, Interviews
  <2>1. PICK r \in Runs : r = job[s].run
    BY <1>2, <2>7, CapsAreNatural DEF Runs
  <2>2. OneQuestion(r)
    BY <2>1 DEF GuidanceInv
  <2>3. asked[r] \notin UnansweredOf(r)
    BY <1>1, <2>1 DEF UnansweredOf
  <2>4. UnansweredOf(r) = {}
    BY <2>2, <2>3 DEF OneQuestion
  <2>5. UnansweredOf(r)' = {}
    BY <1>5, <2>1, <2>4
  <2>6. job'[s].run = r /\ job'[s].step = "eliciting" /\ specRow' = specRow /\ specRow[r] = "none"
    BY <1>1, <1>2, <1>3, <1>4, <2>1 DEF specLog, JobFits
  <2>8. {n \in 1 .. asked'[job'[s].run] : <<job'[s].run, n>> \notin answered'} = {}
    BY <2>5, <2>6 DEF UnansweredOf
  <2> QED
    BY <2>6, <2>8 DEF JobFits, UnansweredOf
<1> QED
  BY <1>5, <1>6, <1>8, <1>9, <1>10 DEF GuidanceInv

\* A run starts, with no spec and no question.
LEMMA StartRunKeeps ==
  ASSUME GuidanceInv, NEW s \in Surfaces, StartRun(s)
  PROVE  GuidanceInv'
<1> DEFINE x == [job[s] EXCEPT !.step = "eliciting", !.run = started + 1]
<1>1. /\ job[s].step = "starting" /\ started' = started + 1 /\ job' = [job EXCEPT ![s] = x]
      /\ asked' = asked /\ answered' = answered /\ specRow' = specRow /\ lastDrafted' = lastDrafted
      /\ lastSigned' = lastSigned /\ surface' = surface /\ misread' = misread
  BY DEF StartRun, specLog
<1>2. CoreTypeOK /\ started \in 0 .. RunCap
  BY DEF GuidanceInv, CoreTypeOK
<1>3. s \in Starters
  BY <1>1 DEF Starters
<1>4. /\ IsFiniteSet(Starters \ {s}) /\ Cardinality(Starters \ {s}) = Cardinality(Starters) - 1
  BY <1>3, RunsCounted, FS_RemoveElement
<1>5. Cardinality(Starters) - 1 \in Nat
  BY <1>4, FS_CardinalityType
<1>6. started + 1 \in 1 .. RunCap /\ started + 1 \in Runs
  BY <1>2, <1>5, RunsCounted DEF Runs
<1>7. x \in {y \in JobFrame : y.step = "eliciting" /\ y.run = started + 1}
  <2>1. started + 1 \in 0 .. RunCap
    BY <1>2, <1>6, CapsAreNatural
  <2>2. PICK r \in 0 .. RunCap : r = started + 1
    BY <2>1
  <2>3. [job[s] EXCEPT !.step = "eliciting", !.run = r] \in {y \in JobFrame : y.step = "eliciting" /\ y.run = r}
    BY <1>2, SlotTyped DEF JobFrame, Researching
  <2> QED
    BY <2>2, <2>3
<1> HIDE DEF x
<1>8. job' \in [Surfaces -> JobFrame] /\ job'[s] = x /\ \A u \in Surfaces \ {s} : job'[u] = job[u]
  BY <1>1, <1>2, <1>7, SlotTurns
<1>9. Questions' = Questions /\ Runs' = Runs
  BY <1>1 DEF Questions, Runs
<1>10. CoreTypeOK'
  BY <1>1, <1>2, <1>6, <1>8, <1>9 DEF CoreTypeOK
<1>11. RunsLeft'
  <2>1. Starters' = Starters \ {s}
    BY <1>1, <1>7, <1>8 DEF Starters
  <2>2. RunsToCome' = started' + Cardinality(Starters')
    BY DEF RunsToCome, Starters
  <2> QED
    BY <1>1, <1>4, <1>5, <2>1, <2>2, RunsCounted DEF RunsLeft
<1>12. ASSUME NEW r \in Runs
       PROVE  Unstarted(r)' /\ OneQuestion(r)' /\ UnansweredOf(r)' = UnansweredOf(r)
  <2>1. Unstarted(r) /\ OneQuestion(r)
    BY DEF GuidanceInv
  <2>2. UnansweredOf(r)' = UnansweredOf(r)
    BY <1>1 DEF UnansweredOf
  <2> QED
    BY <1>1, <1>2, <2>1, <2>2, CapsAreNatural DEF Unstarted, OneQuestion, Runs
<1>13. SpecsFit' /\ AnswerAsShown' /\ \A u \in Surfaces : PageFits(u)'
  BY <1>1, <1>9 DEF GuidanceInv, SpecsFit, AnswerAsShown, PageFits
<1>14. \A u \in Surfaces \ {s} : JobFits(u)'
  BY <1>1, <1>8, OthersStay
<1>15. JobFits(s)'
  <2>1. PICK r \in Runs : r = started + 1
    BY <1>6
  <2>2. specRow[r] = "none" /\ asked[r] = 0
    BY <1>2, <2>1 DEF GuidanceInv, Unstarted
  <2>3. {n \in 1 .. asked'[job'[s].run] : <<job'[s].run, n>> \notin answered'} = {}
    BY <1>1, <1>7, <1>8, <2>1, <2>2
  <2> QED
    BY <1>1, <1>7, <1>8, <2>1, <2>2, <2>3 DEF JobFits, UnansweredOf
<1>16. ASSUME NEW u \in Surfaces, Interviews(u)'
       PROVE  job'[u].run \in 1 .. started' /\ (u # s => Interviews(u) /\ job'[u].run = job[u].run /\ job[u].run \in 1 .. started)
  <2>1. CASE u = s
    BY <1>1, <1>2, <1>7, <1>8, <2>1
  <2>2. CASE u # s
    <3>1. job'[u] = job[u] /\ Interviews(u)
      BY <1>8, <1>16, <2>2 DEF Interviews
    <3>2. OwnRun(u)
      BY DEF GuidanceInv
    <3>3. job[u].run \in 1 .. started
      BY <3>1, <3>2 DEF OwnRun
    <3> QED
      BY <1>1, <1>2, <3>1, <3>3
  <2> QED
    BY <2>1, <2>2
<1>17. ASSUME NEW u \in Surfaces
       PROVE  OwnRun(u)'
  <2>1. SUFFICES ASSUME Interviews(u)', NEW v \in Surfaces \ {u}, Interviews(v)'
                 PROVE  job'[v].run # job'[u].run
    BY <1>16 DEF OwnRun
  <2>2. CASE u = s
    BY <1>2, <1>7, <1>8, <1>16, <2>1, <2>2
  <2>3. CASE v = s
    BY <1>2, <1>7, <1>8, <1>16, <2>1, <2>3
  <2>4. CASE u # s /\ v # s
    <3>1. OwnRun(u)
      BY DEF GuidanceInv
    <3> QED
      BY <1>16, <2>1, <2>4, <3>1 DEF OwnRun
  <2> QED
    BY <2>2, <2>3, <2>4
<1> QED
  BY <1>9, <1>10, <1>11, <1>12, <1>13, <1>14, <1>15, <1>17 DEF GuidanceInv

\* The run of an interview is a run, and nobody else's.
LEMMA ItsOwnRun ==
  ASSUME GuidanceInv, NEW s \in Surfaces, Interviews(s)
  PROVE  /\ job[s].run \in Runs /\ job[s].run <= started /\ started \in 0 .. RunCap
         /\ \A u \in Surfaces \ {s} : Interviews(u) => job[u].run # job[s].run
<1>1. OwnRun(s) /\ started \in 0 .. RunCap
  BY DEF GuidanceInv, CoreTypeOK
<1>2. job[s].run \in 1 .. started
  BY <1>1 DEF OwnRun
<1> QED
  BY <1>1, <1>2, CapsAreNatural DEF OwnRun, Runs

\* An interview of its own run asks about what it has heard.
LEMMA AskKeeps ==
  ASSUME GuidanceInv, NEW s \in Surfaces, AskOperator(s)
  PROVE  GuidanceInv'
<1> DEFINE x == [job[s] EXCEPT !.step = "waiting"]
<1>1. /\ job[s].step = "eliciting" /\ asked[job[s].run] < QuestionCap
      /\ asked' = [asked EXCEPT ![job[s].run] = @ + 1] /\ job' = [job EXCEPT ![s] = x]
      /\ started' = started /\ answered' = answered /\ specRow' = specRow /\ lastDrafted' = lastDrafted
      /\ lastSigned' = lastSigned /\ surface' = surface /\ misread' = misread
  BY DEF AskOperator, Goes, specLog
<1>2. CoreTypeOK /\ JobFits(s) /\ Interviews(s)
  BY <1>1 DEF GuidanceInv, Interviews
<1>3. PICK r \in Runs : r = job[s].run
  BY <1>2, ItsOwnRun
<1>4. x \in {y \in JobFrame : y.step = "waiting" /\ y.run = r}
  BY <1>2, <1>3, SlotTyped DEF JobFrame, Researching
<1> HIDE DEF x
<1>5. job' \in [Surfaces -> JobFrame] /\ job'[s] = x /\ \A u \in Surfaces \ {s} : job'[u] = job[u]
  BY <1>1, <1>2, <1>4, SlotTurns
<1>6. /\ asked[r] \in 0 .. QuestionCap /\ asked'[r] = asked[r] + 1 /\ asked[r] + 1 \in 0 .. QuestionCap
      /\ asked' \in [Runs -> 0 .. QuestionCap] /\ \A q \in Runs \ {r} : asked'[q] = asked[q]
  BY <1>1, <1>2, <1>3, CapsAreNatural DEF CoreTypeOK
<1>7. Questions \subseteq Questions' /\ Runs' = Runs
  <2>1. \A q \in Runs : asked[q] <= asked'[q] /\ asked[q] \in Int /\ asked'[q] \in Int
    BY <1>2, <1>6, CapsAreNatural DEF CoreTypeOK
  <2>2. \A q \in Runs \X (1 .. QuestionCap) : q[1] \in Runs /\ q[2] \in Int
    BY CapsAreNatural
  <2>3. ASSUME NEW q \in Questions
        PROVE  q \in Runs \X (1 .. QuestionCap) /\ q[2] <= asked'[q[1]]
    <3>1. q \in Runs \X (1 .. QuestionCap) /\ q[2] <= asked[q[1]]
      BY DEF Questions
    <3> QED
      BY <2>1, <2>2, <3>1
  <2> QED
    BY <2>3 DEF Questions, Runs
<1>8. CoreTypeOK'
  BY <1>1, <1>2, <1>5, <1>6, <1>7 DEF CoreTypeOK
<1>9. RunsLeft'
  <2>1. Starters' = Starters
    BY <1>1, <1>4, <1>5 DEF Starters
  <2>2. RunsToCome' = started' + Cardinality(Starters')
    BY DEF RunsToCome, Starters
  <2> QED
    BY <1>1, <2>1, <2>2, RunsCounted DEF RunsLeft
<1>10. \A u \in Surfaces : Interviews(u)' => Interviews(u) /\ job'[u].run = job[u].run
  BY <1>1, <1>3, <1>4, <1>5 DEF Interviews
<1>11. \A u \in Surfaces : OwnRun(u)'
  BY <1>1, <1>10, RunsKeptOwn
<1>12. ASSUME NEW q \in Runs \ {r}
       PROVE  {n \in 1 .. asked'[q] : <<q, n>> \notin answered'} = UnansweredOf(q)
  BY <1>1, <1>6 DEF UnansweredOf
<1>13. UnansweredOf(r)' \subseteq {asked'[r]}
  <2>1. UnansweredOf(r) = {}
    BY <1>1, <1>2, <1>3 DEF JobFits
  <2>2. \A n \in 1 .. asked[r] : <<r, n>> \in answered
    BY <2>1 DEF UnansweredOf
  <2>3. ASSUME NEW n \in 1 .. asked'[r], <<r, n>> \notin answered'
        PROVE  n = asked'[r]
    BY <1>1, <1>6, <2>2, <2>3, CapsAreNatural
  <2> QED
    BY <2>3 DEF UnansweredOf
<1>14. ASSUME NEW q \in Runs
       PROVE  Unstarted(q)' /\ OneQuestion(q)'
  <2>1. Unstarted(q) /\ OneQuestion(q)
    BY DEF GuidanceInv
  <2>2. CASE q = r
    <3>1. r <= started /\ started \in 0 .. RunCap /\ r \in Int
      BY <1>2, <1>3, ItsOwnRun, CapsAreNatural DEF Runs
    <3>2. specRow'[r] = "none"
      BY <1>1, <1>2, <1>3 DEF JobFits
    <3>3. Unstarted(r)'
      BY <1>1, <3>1 DEF Unstarted
    <3> QED
      BY <1>13, <2>2, <3>2, <3>3 DEF OneQuestion
  <2>3. CASE q # r
    <3>1. UnansweredOf(q)' = UnansweredOf(q) /\ asked'[q] = asked[q]
      BY <1>6, <1>12, <2>3 DEF UnansweredOf
    <3> QED
      BY <1>1, <2>1, <3>1 DEF Unstarted, OneQuestion
  <2> QED
    BY <2>2, <2>3
<1>15. SpecsFit' /\ AnswerAsShown' /\ \A u \in Surfaces : PageFits(u)'
  BY <1>1, <1>7 DEF GuidanceInv, SpecsFit, AnswerAsShown, PageFits
<1>16. ASSUME NEW u \in Surfaces
       PROVE  JobFits(u)'
  <2>1. CASE u = s
    BY <1>1, <1>2, <1>3, <1>4, <1>5, <2>1 DEF JobFits
  <2>2. CASE u # s
    <3>1. JobFits(u) /\ job'[u] = job[u]
      BY <1>5, <2>2 DEF GuidanceInv
    <3>2. ASSUME job[u].step = "eliciting"
          PROVE  {n \in 1 .. asked'[job'[u].run] : <<job'[u].run, n>> \notin answered'} = {}
      <4>1. Interviews(u) /\ UnansweredOf(job[u].run) = {}
        BY <3>1, <3>2 DEF Interviews, JobFits
      <4>2. job[u].run \in Runs /\ job[u].run # r
        BY <1>2, <1>3, <2>2, <4>1, ItsOwnRun
      <4> QED
        BY <1>12, <3>1, <4>1, <4>2
    <3> QED
      BY <1>1, <3>1, <3>2 DEF JobFits, UnansweredOf
  <2> QED
    BY <2>1, <2>2
<1> QED
  BY <1>7, <1>8, <1>9, <1>11, <1>14, <1>15, <1>16 DEF GuidanceInv

\* Its spec is written once, and nothing is asked for that run again.
LEMMA DraftKeeps ==
  ASSUME GuidanceInv, NEW s \in Surfaces, DraftSpec(s)
  PROVE  GuidanceInv'
<1> DEFINE x == [job[s] EXCEPT !.step = "announcing spec"]
<1>1. /\ job[s].step = "eliciting" /\ specRow' = [specRow EXCEPT ![job[s].run] = "unsigned"]
      /\ job' = [job EXCEPT ![s] = x]
      /\ started' = started /\ asked' = asked /\ answered' = answered /\ lastDrafted' = lastDrafted
      /\ lastSigned' = lastSigned /\ surface' = surface /\ misread' = misread
  BY DEF DraftSpec, Goes, interviewLog
<1>2. CoreTypeOK /\ JobFits(s) /\ Interviews(s) /\ SpecsFit
  BY <1>1 DEF GuidanceInv, Interviews
<1>3. PICK r \in Runs : r = job[s].run
  BY <1>2, ItsOwnRun
<1>4. x \in {y \in JobFrame : y.step = "announcing spec" /\ y.run = r}
  BY <1>2, <1>3, SlotTyped DEF JobFrame, Researching
<1> HIDE DEF x
<1>5. job' \in [Surfaces -> JobFrame] /\ job'[s] = x /\ \A u \in Surfaces \ {s} : job'[u] = job[u]
  BY <1>1, <1>2, <1>4, SlotTurns
<1>6. /\ specRow[r] = "none" /\ specRow'[r] = "unsigned" /\ specRow' \in [Runs -> {"none", "unsigned", "signed"}]
      /\ \A q \in Runs \ {r} : specRow'[q] = specRow[q]
  BY <1>1, <1>2, <1>3 DEF CoreTypeOK, JobFits
<1>7. Questions' = Questions /\ Runs' = Runs
  BY <1>1 DEF Questions, Runs
<1>8. CoreTypeOK'
  BY <1>1, <1>2, <1>5, <1>6, <1>7 DEF CoreTypeOK
<1>9. RunsLeft'
  <2>1. Starters' = Starters
    BY <1>1, <1>4, <1>5 DEF Starters
  <2>2. RunsToCome' = started' + Cardinality(Starters')
    BY DEF RunsToCome, Starters
  <2> QED
    BY <1>1, <2>1, <2>2, RunsCounted DEF RunsLeft
<1>10. \A u \in Surfaces : Interviews(u)' => Interviews(u) /\ job'[u].run = job[u].run
  BY <1>1, <1>3, <1>4, <1>5 DEF Interviews
<1>11. \A u \in Surfaces : OwnRun(u)'
  BY <1>1, <1>10, RunsKeptOwn
<1>12. ASSUME NEW q
       PROVE  {n \in 1 .. asked'[q] : <<q, n>> \notin answered'} = UnansweredOf(q)
  BY <1>1 DEF UnansweredOf
<1>13. UnansweredOf(r) = {}
  BY <1>1, <1>2, <1>3 DEF JobFits
<1>14. ASSUME NEW q \in Runs
       PROVE  Unstarted(q)' /\ OneQuestion(q)'
  <2>1. Unstarted(q) /\ OneQuestion(q)
    BY DEF GuidanceInv
  <2>2. UnansweredOf(q)' = UnansweredOf(q)
    BY <1>1 DEF UnansweredOf
  <2>3. CASE q = r
    <3>1. r <= started /\ started \in 0 .. RunCap /\ r \in Int
      BY <1>2, <1>3, ItsOwnRun, CapsAreNatural DEF Runs
    <3> QED
      BY <1>1, <1>13, <2>2, <2>3, <3>1 DEF Unstarted, OneQuestion
  <2>4. CASE q # r
    BY <1>1, <1>6, <2>1, <2>2, <2>4 DEF Unstarted, OneQuestion
  <2> QED
    BY <2>3, <2>4
<1>15. AnswerAsShown' /\ \A u \in Surfaces : PageFits(u)'
  BY <1>1, <1>7 DEF GuidanceInv, AnswerAsShown, PageFits
<1>16. SpecsFit'
  <2>1. lastDrafted # 0 => lastDrafted \in Runs /\ specRow[lastDrafted] # "none"
    BY <1>2, CapsAreNatural DEF CoreTypeOK, SpecsFit, Runs
  <2>2. lastSigned # 0 => lastSigned \in Runs /\ specRow[lastSigned] = "signed"
    BY <1>2, CapsAreNatural DEF CoreTypeOK, SpecsFit, Runs
  <2> QED
    BY <1>1, <1>6, <2>1, <2>2 DEF SpecsFit
<1>17. ASSUME NEW u \in Surfaces
       PROVE  JobFits(u)'
  <2>1. CASE u = s
    BY <1>3, <1>4, <1>5, <1>6, <2>1 DEF JobFits
  <2>2. CASE u # s
    <3>1. JobFits(u) /\ job'[u] = job[u]
      BY <1>5, <2>2 DEF GuidanceInv
    <3>2. Interviews(u) => job[u].run \in Runs \ {r}
      BY <1>2, <1>3, <2>2, ItsOwnRun
    <3>3. Interviews(u) => specRow'[job[u].run] = specRow[job[u].run]
      BY <1>6, <3>2
    <3>4. ASSUME job[u].step = "eliciting"
          PROVE  {n \in 1 .. asked'[job'[u].run] : <<job'[u].run, n>> \notin answered'} = {}
      BY <1>12, <3>1, <3>4 DEF JobFits
    <3> QED
      BY <3>1, <3>3, <3>4 DEF JobFits, Interviews, UnansweredOf
  <2> QED
    BY <2>1, <2>2
<1> QED
  BY <1>7, <1>8, <1>9, <1>11, <1>14, <1>15, <1>16, <1>17 DEF GuidanceInv

\* The question a surface shows is the pending one while its run is the
\* latest and nobody has answered it.
LEMMA ShownIsPending ==
  ASSUME GuidanceInv, NEW s \in Surfaces, surface[s].page # NoQuestion,
         surface[s].page \notin answered, surface[s].page[1] = started
  PROVE  LatestUnanswered = surface[s].page
<1>1. surface[s].page \in Questions /\ CoreTypeOK
  BY DEF GuidanceInv, PageFits
<1>2. PICK r \in Runs, n \in 1 .. QuestionCap : surface[s].page = <<r, n>> /\ n <= asked[r]
  BY <1>1 DEF Questions
<1>3. r = started /\ asked[r] \in 0 .. QuestionCap /\ OneQuestion(r)
  BY <1>1, <1>2 DEF CoreTypeOK, GuidanceInv
<1>4. n \in UnansweredOf(r)
  BY <1>2, <1>3, CapsAreNatural DEF UnansweredOf
<1>5. UnansweredOf(r) = {n} /\ specRow[r] = "none"
  BY <1>3, <1>4 DEF OneQuestion
<1>6. QuestionRun = r /\ r # 0
  BY <1>3, <1>5, CapsAreNatural DEF QuestionRun, Runs
<1>7. UnansweredOf(r) \subseteq 1 .. asked[r] /\ asked[r] \in Nat
  BY <1>1, PendingTyped
<1>8. LatestOf(UnansweredOf(r)) \in UnansweredOf(r)
  BY <1>4, <1>7, LargestOf
<1> QED
  BY <1>2, <1>5, <1>6, <1>8 DEF LatestUnanswered

\* An answer closes the question its author was shown, or one that somebody
\* else, or a later run, had put in its place.
LEMMA AnswerKeeps ==
  ASSUME GuidanceInv, NEW s \in Surfaces, surface[s].page # NoQuestion, AnswerLatest(s)
  PROVE  GuidanceInv'
<1> DEFINE y == [surface[s] EXCEPT !.page = NoQuestion]
<1>1. /\ answered' = IF LatestUnanswered = NoQuestion THEN answered ELSE answered \cup {LatestUnanswered}
      /\ surface' = [surface EXCEPT ![s] = y] /\ job' = job
      /\ started' = started /\ asked' = asked /\ specRow' = specRow /\ lastDrafted' = lastDrafted
      /\ lastSigned' = lastSigned
  BY DEF AnswerLatest, Shows, specLog
<1>2. CoreTypeOK
  BY DEF GuidanceInv
<1>3. y \in {z \in SurfaceFrame : z.page = NoQuestion}
  BY <1>2, SlotTyped DEF SurfaceFrame
<1> HIDE DEF y
<1>4. /\ surface' \in [Surfaces -> SurfaceFrame] /\ surface'[s] = y
      /\ \A u \in Surfaces \ {s} : surface'[u] = surface[u]
  BY <1>1, <1>2, <1>3, PageTurns
<1>5. Questions' = Questions /\ Runs' = Runs
  BY <1>1 DEF Questions, Runs
<1>6. misread' = FALSE
  <2>1. misread = FALSE
    BY <1>2 DEF GuidanceInv, AnswerAsShown, CoreTypeOK
  <2>2. ~(LatestUnanswered # surface[s].page /\ surface[s].page \notin answered /\ surface[s].page[1] = started)
    BY ShownIsPending
  <2> QED
    BY <2>1, <2>2 DEF AnswerLatest
<1>7. answered \subseteq answered' /\ answered' \subseteq Questions
  BY <1>1, <1>2, PendingTyped DEF CoreTypeOK
<1>8. CoreTypeOK'
  BY <1>1, <1>2, <1>4, <1>5, <1>6, <1>7 DEF CoreTypeOK
<1>9. RunsLeft'
  <2>1. Starters' = Starters
    BY <1>1 DEF Starters
  <2>2. RunsToCome' = started' + Cardinality(Starters')
    BY DEF RunsToCome, Starters
  <2> QED
    BY <1>1, <2>1, <2>2, RunsCounted DEF RunsLeft
<1>10. \A u \in Surfaces : Interviews(u)' => Interviews(u) /\ job'[u].run = job[u].run
  BY <1>1 DEF Interviews
<1>11. \A u \in Surfaces : OwnRun(u)'
  BY <1>1, <1>10, RunsKeptOwn
<1>12. ASSUME NEW r
       PROVE  {n \in 1 .. asked'[r] : <<r, n>> \notin answered'} \subseteq UnansweredOf(r)
  BY <1>1, <1>7 DEF UnansweredOf
<1>13. ASSUME NEW u \in Surfaces
       PROVE  JobFits(u)'
  <2>1. JobFits(u)
    BY DEF GuidanceInv
  <2>2. job[u].step = "eliciting" => UnansweredOf(job[u].run) = {}
    BY <2>1 DEF JobFits
  <2>3. job[u].step = "eliciting" => {n \in 1 .. asked'[job'[u].run] : <<job'[u].run, n>> \notin answered'} = {}
    BY <1>1, <1>12, <2>2
  <2> QED
    BY <1>1, <2>1, <2>3 DEF JobFits, UnansweredOf
<1>14. ASSUME NEW r \in Runs
       PROVE  Unstarted(r)' /\ OneQuestion(r)'
  <2>1. Unstarted(r) /\ OneQuestion(r)
    BY DEF GuidanceInv
  <2>2. UnansweredOf(r)' \subseteq UnansweredOf(r)
    BY <1>1, <1>7 DEF UnansweredOf
  <2> QED
    BY <1>1, <2>1, <2>2 DEF Unstarted, OneQuestion
<1>15. SpecsFit' /\ AnswerAsShown'
  BY <1>1, <1>6 DEF GuidanceInv, SpecsFit, AnswerAsShown
<1>16. ASSUME NEW u \in Surfaces
       PROVE  PageFits(u)'
  BY <1>3, <1>4, <1>5 DEF GuidanceInv, PageFits
<1> QED
  BY <1>5, <1>8, <1>9, <1>11, <1>13, <1>14, <1>15, <1>16 DEF GuidanceInv

-----------------------------------------------------------------------------
(***************************************************************************)
(* Every step of ConsoleNext is a step of a slot or one of an operator's,  *)
(* whoever asked for it.                                                   *)
(***************************************************************************)
Operates(s) ==
  \/ /\ LatestUnanswered # NoQuestion /\ Shows(s, LatestUnanswered)
     /\ UNCHANGED <<interviewLog, specLog, planLog, buildLog, targetSet, job, misread>>
  \/ surface[s].page # NoQuestion /\ AnswerLatest(s)
  \/ \E r \in 0 .. RunCap : Signs(r) \/ SignsSilently(r)
  \/ RunsToCome < RunCap /\ Claims(s, "starting", 0, 0)
  \/ \E step \in {"planning", "selecting"}, r \in 0 .. RunCap, t \in 0 .. TaskCap : Claims(s, step, r, t)
  \/ MergesAll(s) /\ recorded' \in {recorded, recorded \cup {LatestRun}}
  \/ \E v \in Targets : SetsTarget(s, v)
  \/ \E where \in {"away", "closed"} : Leaves(s, where)
  \/ ComeBack(s) \/ CancelJob(s) \/ JobFails(s) \/ SurfaceKilled(s)
  \/ job[s].step \in {"writing", "judging"} /\ EndsStopped(s)

\* What each hint goes by.
LEMMA HintSays ==
  ASSUME NEW s \in Surfaces
  PROVE  /\ Hint(s) = "sign" => LatestUnsigned # 0
         /\ Hint(s) \in {"plan", "retry", "build", "assemble"} => lastSigned # 0 /\ LatestRun = lastSigned
         /\ Hint(s) = "retry" => BlockedTasks(LatestRun) # {}
         /\ Hint(s) = "build" => PendingTasks(LatestRun) # {} /\ Targeted(s)
         /\ Hint(s) = "assemble" =>
              planShown[LatestRun] # 0 /\ BlockedTasks(LatestRun) = {} /\ PendingTasks(LatestRun) = {}
<1>1. HintWhileBusy(s) \in {"answer", "busy"}
  BY DEF HintWhileBusy
<1>2. /\ HintOfPlan(s) = "retry" => BlockedTasks(LatestRun) # {}
      /\ HintOfPlan(s) = "build" => PendingTasks(LatestRun) # {} /\ Targeted(s)
      /\ HintOfPlan(s) = "assemble" =>
           planShown[LatestRun] # 0 /\ BlockedTasks(LatestRun) = {} /\ PendingTasks(LatestRun) = {}
      /\ HintOfPlan(s) \in {"plan", "retry", "build", "target", "done", "assemble"}
  BY DEF HintOfPlan
<1>3. lastSigned # 0 => LatestRun = lastSigned
  BY DEF LatestRun
<1>4. Hint(s) \in {"plan", "retry", "build", "assemble"} => lastSigned # 0 /\ Hint(s) = HintOfPlan(s)
  BY <1>1 DEF Hint
<1>5. Hint(s) = "sign" => LatestUnsigned # 0
  BY <1>1, <1>2 DEF Hint
<1> QED
  BY <1>2, <1>3, <1>4, <1>5

\* The tasks that a plan shows as open or blocked are its tasks.
LEMMA ShownTasks ==
  ASSUME RestTypeOK, NEW r \in Runs
  PROVE  /\ planShown[r] \in 0 .. TaskCap /\ 1 .. planShown[r] \subseteq PlanTasks
         /\ BlockedTasks(r) # {} => FirstOf(BlockedTasks(r)) \in BlockedTasks(r)
         /\ BlockedTasks(r) \subseteq 1 .. planShown[r] /\ PendingTasks(r) \subseteq 1 .. planShown[r]
<1>1. planShown[r] \in 0 .. TaskCap
  BY DEF RestTypeOK
<1>2. 1 .. planShown[r] \subseteq PlanTasks
  BY <1>1, CapsAreNatural DEF PlanTasks
<1>3. BlockedTasks(r) \subseteq 1 .. planShown[r] /\ PendingTasks(r) \subseteq 1 .. planShown[r]
  BY DEF BlockedTasks, PendingTasks
<1>4. BlockedTasks(r) # {} => FirstOf(BlockedTasks(r)) \in BlockedTasks(r)
  BY <1>1, <1>3, CapsAreNatural, LeastOf
<1> QED
  BY <1>1, <1>2, <1>3, <1>4

LEMMA RetryIsATask ==
  ASSUME CoreTypeOK, RestTypeOK, NEW s \in Surfaces, Hint(s) = "retry"
  PROVE  FirstOf(BlockedTasks(LatestRun)) \in 0 .. TaskCap
<1>1. LatestRun \in Runs /\ BlockedTasks(LatestRun) # {}
  BY HintSays, CapsAreNatural DEF CoreTypeOK, Runs
<1>2. FirstOf(BlockedTasks(LatestRun)) \in PlanTasks
  BY <1>1, ShownTasks
<1> QED
  BY <1>2, CapsAreNatural DEF PlanTasks

\* Claims of a slot for planning and for a dispatch.
LEMMA ClaimsOperate ==
  ASSUME CoreTypeOK, NEW s \in Surfaces, NEW t \in 0 .. TaskCap,
         TuiPlan(s) \/ PostPlan(s) \/ TuiDispatch(s, t) \/ PostDispatch(s, t)
  PROVE  Operates(s)
<1>1. LatestRun \in 0 .. RunCap /\ 0 \in 0 .. RunCap /\ 0 \in 0 .. TaskCap
  BY RunsTyped, CapsAreNatural
<1>2. \E step \in {"planning", "selecting"}, r \in 0 .. RunCap, u \in 0 .. TaskCap : Claims(s, step, r, u)
  BY <1>1 DEF TuiPlan, PostPlan, TuiDispatch, PostDispatch
<1> QED
  BY <1>2 DEF Operates

LEMMA FollowsOperate ==
  ASSUME CoreTypeOK, RestTypeOK, NEW s \in Surfaces, FollowHint(s)
  PROVE  Operates(s)
<1>1. CASE ComeBack(s)
  BY <1>1 DEF Operates
<1>2. CASE SubmitPrompt(s) \/ PostAnswer(s)
  BY <1>2 DEF Operates, SubmitPrompt, PostAnswer
<1>3. CASE OpenPrompt(s) \/ ReadQuestion(s)
  BY <1>3 DEF Operates, OpenPrompt, ReadQuestion
<1>4. CASE TuiSign(s, LatestUnsigned) \/ PostSign(s, LatestUnsigned)
  <2>1. LatestUnsigned \in 0 .. RunCap /\ Signs(LatestUnsigned)
    BY <1>4, RunsTyped DEF TuiSign, PostSign
  <2> QED
    BY <2>1 DEF Operates
<1>5. CASE TuiResearch(s) \/ PostResearch(s)
  BY <1>5 DEF Operates, TuiResearch, PostResearch
<1>6. CASE TuiPlan(s) \/ PostPlan(s)
  <2>1. 0 \in 0 .. TaskCap
    BY CapsAreNatural
  <2> QED
    BY <1>6, <2>1, ClaimsOperate
<1>7. CASE Hint(s) = "retry" /\ LET t == FirstOf(BlockedTasks(LatestRun)) IN TuiDispatch(s, t) \/ PostDispatch(s, t)
  BY <1>7, RetryIsATask, ClaimsOperate
<1>8. CASE TuiSetTarget(s, Repo) \/ PostTarget(s, Repo)
  BY <1>8 DEF Operates, TuiSetTarget, PostTarget, Targets
<1>9. CASE TuiDispatch(s, 0) \/ PostDispatch(s, 0)
  <2>1. 0 \in 0 .. TaskCap
    BY CapsAreNatural
  <2> QED
    BY <1>9, <2>1, ClaimsOperate
<1>10. CASE TuiAssemble(s) \/ PostAssemble(s)
  BY <1>10 DEF Operates, TuiAssemble, PostAssemble
<1> QED
  BY <1>1, <1>2, <1>3, <1>4, <1>5, <1>6, <1>7, <1>8, <1>9, <1>10 DEF FollowHint

LEMMA WhimsOperate ==
  ASSUME CoreTypeOK, NEW s \in Surfaces, Whim(s)
  PROVE  Operates(s)
<1>1. CASE ComeBack(s)
  BY <1>1 DEF Operates
<1>2. CASE SubmitPrompt(s) \/ PostAnswer(s)
  BY <1>2 DEF Operates, SubmitPrompt, PostAnswer
<1>3. CASE OpenPrompt(s) \/ ReadQuestion(s)
  BY <1>3 DEF Operates, OpenPrompt, ReadQuestion
<1>4. CASE \E r \in Runs : TuiSign(s, r) \/ PostSign(s, r)
  <2>1. \E r \in 0 .. RunCap : Signs(r)
    BY <1>4, CapsAreNatural DEF TuiSign, PostSign, Runs
  <2> QED
    BY <2>1 DEF Operates
<1>5. CASE TuiResearch(s) \/ PostResearch(s)
  BY <1>5 DEF Operates, TuiResearch, PostResearch
<1>6. CASE TuiPlan(s) \/ PostPlan(s)
  <2>1. 0 \in 0 .. TaskCap
    BY CapsAreNatural
  <2> QED
    BY <1>6, <2>1, ClaimsOperate
<1>7. CASE \E t \in 0 .. TaskCap : TuiDispatch(s, t) \/ PostDispatch(s, t)
  BY <1>7, ClaimsOperate
<1>8. CASE TuiAssemble(s) \/ PostAssemble(s)
  BY <1>8 DEF Operates, TuiAssemble, PostAssemble
<1>9. CASE \E v \in {Own, Repo} : TuiSetTarget(s, v) \/ PostTarget(s, v)
  BY <1>9 DEF Operates, TuiSetTarget, PostTarget, Targets
<1>10. CASE SwitchAway(s) \/ PanelAway(s) \/ Quit(s)
  BY <1>10 DEF Operates, SwitchAway, PanelAway, Quit
<1>11. CASE CancelJob(s)
  BY <1>11 DEF Operates
<1> QED
  BY <1>1, <1>2, <1>3, <1>4, <1>5, <1>6, <1>7, <1>8, <1>9, <1>10, <1>11 DEF Whim

LEMMA MishapsOperate ==
  ASSUME CoreTypeOK, NEW s \in Surfaces, Mishap(s)
  PROVE  Operates(s)
<1>1. CASE JobFails(s) \/ SurfaceKilled(s)
  BY <1>1 DEF Operates
<1>2. CASE StopWriting(s)
  BY <1>2 DEF Operates, StopWriting
<1>3. CASE AssemblyUnrecorded(s)
  BY <1>3 DEF Operates, AssemblyUnrecorded
<1>4. CASE \E r \in Runs : Here(s) /\ SignsSilently(r)
  <2>1. \E r \in 0 .. RunCap : SignsSilently(r)
    BY <1>4, CapsAreNatural DEF Runs
  <2> QED
    BY <2>1 DEF Operates
<1> QED
  BY <1>1, <1>2, <1>3, <1>4 DEF Mishap

LEMMA NextOperates ==
  ASSUME CoreTypeOK, RestTypeOK, ConsoleNext
  PROVE  /\ \E s \in Surfaces : SlotStep(s) \/ Operates(s)
         /\ follower' \in Surfaces /\ whims' \in 0 .. WhimCap /\ mishaps' \in 0 .. MishapCap
<1>1. follower \in Surfaces /\ whims \in 0 .. WhimCap /\ mishaps \in 0 .. MishapCap
  BY DEF RestTypeOK
<1>2. CASE FollowerActs
  BY <1>1, <1>2, FollowsOperate DEF FollowerActs, budgets
<1>3. ASSUME NEW s \in Surfaces, SlotMoves(s)
      PROVE  /\ SlotStep(s) /\ follower' \in Surfaces /\ whims' \in 0 .. WhimCap /\ mishaps' \in 0 .. MishapCap
  BY <1>1, <1>3 DEF SlotMoves, budgets
<1>4. ASSUME NEW s \in Surfaces, whims < WhimCap, Whim(s), whims' = whims + 1, UNCHANGED <<follower, mishaps>>
      PROVE  /\ Operates(s) /\ follower' \in Surfaces /\ whims' \in 0 .. WhimCap /\ mishaps' \in 0 .. MishapCap
  BY <1>1, <1>4, WhimsOperate, CapsAreNatural
<1>5. ASSUME NEW s \in Surfaces, mishaps < MishapCap, Mishap(s), mishaps' = mishaps + 1, UNCHANGED <<follower, whims>>
      PROVE  /\ Operates(s) /\ follower' \in Surfaces /\ whims' \in 0 .. WhimCap /\ mishaps' \in 0 .. MishapCap
  BY <1>1, <1>5, MishapsOperate, CapsAreNatural
<1> QED
  BY <1>2, <1>3, <1>4, <1>5 DEF ConsoleNext

LEMMA SlotStepKeeps ==
  ASSUME GuidanceInv, RestTypeOK, NEW s \in Surfaces, SlotStep(s)
  PROVE  GuidanceInv'
<1>1. CoreTypeOK
  BY DEF GuidanceInv
<1>2. CASE StartRun(s)
  BY <1>2, StartRunKeeps
<1>3. CASE AskOperator(s)
  BY <1>3, AskKeeps
<1>4. CASE HearAnswer(s)
  BY <1>4, HearsKeeps
<1>5. CASE DraftSpec(s)
  BY <1>5, DraftKeeps
<1>6. CASE AnnounceDraft(s)
  BY <1>6, AnnouncesQuietly, QuietKeeps
<1>7. CASE GiveUpWaiting(s) \/ RefusePlan(s) \/ AnnounceTasks(s) \/ RefuseDispatch(s) \/ CompleteJob(s) \/ CrashWriting(s)
  <2>1. Frees(s) /\ UNCHANGED <<interviewLog, specLog, surface, misread>>
    BY <1>7 DEF GiveUpWaiting, RefusePlan, AnnounceTasks, RefuseDispatch, CompleteJob, CrashWriting, EndsStopped
  <2>2. Quiet
    BY <1>1, <2>1, FreesQuietly
  <2> QED
    BY <2>2, QuietKeeps
<1>8. CASE DraftTasks(s)
  BY <1>1, <1>8, DraftsQuietly, QuietKeeps
<1>9. CASE StartTask(s)
  BY <1>1, <1>9, StartsQuietly, QuietKeeps
<1>10. CASE LayDownPen(s)
  BY <1>1, <1>10, GivesBackQuietly, QuietKeeps
<1> QED
  BY <1>2, <1>3, <1>4, <1>5, <1>6, <1>7, <1>8, <1>9, <1>10 DEF SlotStep

LEMMA OperatesKeeps ==
  ASSUME GuidanceInv, RestTypeOK, NEW s \in Surfaces, Operates(s)
  PROVE  GuidanceInv'
<1>1. CoreTypeOK /\ targetSet \in Targets
  BY DEF GuidanceInv, RestTypeOK
<1>2. CASE /\ LatestUnanswered # NoQuestion /\ Shows(s, LatestUnanswered)
           /\ UNCHANGED <<interviewLog, specLog, planLog, buildLog, targetSet, job, misread>>
  <2>1. Quiet
    BY <1>1, <1>2, ReadsQuietly
  <2> QED
    BY <2>1, QuietKeeps
<1>3. CASE surface[s].page # NoQuestion /\ AnswerLatest(s)
  BY <1>3, AnswerKeeps
<1>4. CASE \E r \in 0 .. RunCap : Signs(r) \/ SignsSilently(r)
  <2>1. Quiet
    BY <1>4, SignsQuietly
  <2> QED
    BY <2>1, QuietKeeps
<1>5. CASE RunsToCome < RunCap /\ Claims(s, "starting", 0, 0)
  BY <1>5, ResearchKeeps
<1>6. CASE \E step \in {"planning", "selecting"}, r \in 0 .. RunCap, t \in 0 .. TaskCap : Claims(s, step, r, t)
  <2>1. Quiet
    BY <1>1, <1>6, ClaimsQuietly
  <2> QED
    BY <2>1, QuietKeeps
<1>7. CASE MergesAll(s)
  <2>1. UNCHANGED <<interviewLog, misread, surface, job>> /\ SpecsKeep
    BY <1>7 DEF MergesAll, SpecsKeep
  <2>2. Quiet
    BY <1>1, <2>1, RestsQuietly
  <2> QED
    BY <2>2, QuietKeeps
<1>8. CASE \E v \in Targets : SetsTarget(s, v)
  <2>1. Quiet
    BY <1>1, <1>8, TargetsQuietly
  <2> QED
    BY <2>1, QuietKeeps
<1>9. CASE \E where \in {"away", "closed"} : Leaves(s, where)
  <2>1. Quiet
    BY <1>1, <1>9, LeavesQuietly
  <2> QED
    BY <2>1, QuietKeeps
<1>10. CASE ComeBack(s)
  BY <1>1, <1>10, ReturnsQuietly, QuietKeeps
<1>11. CASE CancelJob(s)
  BY <1>1, <1>11, CancelsQuietly, QuietKeeps
<1>12. CASE JobFails(s) \/ EndsStopped(s)
  <2>1. Frees(s) /\ UNCHANGED <<interviewLog, specLog, surface, misread>>
    BY <1>12 DEF JobFails, EndsStopped
  <2>2. Quiet
    BY <1>1, <2>1, FreesQuietly
  <2> QED
    BY <2>2, QuietKeeps
<1>13. CASE SurfaceKilled(s)
  BY <1>1, <1>13, DiesQuietly, QuietKeeps
<1> QED
  BY <1>2, <1>3, <1>4, <1>5, <1>6, <1>7, <1>8, <1>9, <1>10, <1>11, <1>12, <1>13 DEF Operates

-----------------------------------------------------------------------------
(***************************************************************************)
(* The rest of the types.                                                  *)
(***************************************************************************)
Untouched == UNCHANGED <<planLog, buildLog, targetSet>>

StoreTypeOK ==
  /\ planRow \in [Runs -> 0 .. TaskCap] /\ planShown \in [Runs -> 0 .. TaskCap]
  /\ latest \in [Runs -> [PlanTasks -> {"none", "completed", "stopped"}]]
  /\ work \in [Runs -> [PlanTasks -> {"none", "branch", "merged"}]]
  /\ recorded \subseteq Runs
  /\ targetSet \in Targets
  /\ lockHolder \in Surfaces \cup {"nobody", "a dead process"}

LEMMA UntouchedKeeps ==
  ASSUME StoreTypeOK, Untouched
  PROVE  StoreTypeOK'
  BY DEF StoreTypeOK, Untouched, planLog, buildLog, Runs, PlanTasks, Targets

\* One entry of a table of tables changes.
LEMMA EntryTyped ==
  ASSUME NEW A, NEW B, NEW C, NEW f \in [A -> [B -> C]], NEW a, NEW b, NEW c \in C
  PROVE  [f EXCEPT ![a][b] = c] \in [A -> [B -> C]]
<1> DEFINE g == [f[a] EXCEPT ![b] = c]
<1>1. a \in A => g \in [B -> C]
  OBVIOUS
<1>2. [f EXCEPT ![a][b] = c] = [f EXCEPT ![a] = g]
  OBVIOUS
<1> HIDE DEF g
<1>3. [f EXCEPT ![a] = g] \in [A -> [B -> C]]
  BY <1>1
<1> QED
  BY <1>2, <1>3

LEMMA SlotStepTyped ==
  ASSUME CoreTypeOK, RestTypeOK, NEW s \in Surfaces, SlotStep(s)
  PROVE  StoreTypeOK'
<1>1. StoreTypeOK
  BY DEF RestTypeOK, StoreTypeOK
<1>2. Runs' = Runs /\ PlanTasks' = PlanTasks /\ Targets' = Targets
  BY DEF Runs, PlanTasks, Targets
<1>3. CASE \/ StartRun(s) \/ AskOperator(s) \/ HearAnswer(s) \/ GiveUpWaiting(s) \/ DraftSpec(s) \/ AnnounceDraft(s)
           \/ RefusePlan(s) \/ RefuseDispatch(s)
  <2>1. Untouched
    BY <1>3 DEF StartRun, AskOperator, HearAnswer, GiveUpWaiting, DraftSpec, AnnounceDraft, RefusePlan, RefuseDispatch, Untouched
  <2> QED
    BY <1>1, <2>1, UntouchedKeeps
<1>4. CASE DraftTasks(s)
  <2>1. PICK n \in PlanTasks : planRow' = [planRow EXCEPT ![RunOf(s)] = n]
    BY <1>4 DEF DraftTasks
  <2>2. n \in 0 .. TaskCap
    BY CapsAreNatural DEF PlanTasks
  <2>3. UNCHANGED <<planShown, buildLog, targetSet>>
    BY <1>4 DEF DraftTasks
  <2> QED
    BY <1>1, <1>2, <2>1, <2>2, <2>3 DEF StoreTypeOK, buildLog
<1>5. CASE AnnounceTasks(s)
  <2>1. /\ planShown' = [planShown EXCEPT ![job[s].run] = job[s].task] /\ UNCHANGED <<planRow, buildLog, targetSet>>
        /\ job[s].task \in 0 .. TaskCap
    BY <1>5, SlotTyped DEF AnnounceTasks
  <2> QED
    BY <1>1, <1>2, <2>1 DEF StoreTypeOK, buildLog
<1>6. CASE StartTask(s)
  <2>1. PICK r, t : work' \in {work, [work EXCEPT ![r][t] = "none"]}
    BY <1>6 DEF StartTask
  <2>2. lockHolder' \in {s, lockHolder} /\ UNCHANGED <<planLog, latest, recorded, targetSet>>
    BY <1>6 DEF StartTask
  <2>4. work \in [Runs -> [PlanTasks -> {"none", "branch", "merged"}]]
    BY <1>1 DEF StoreTypeOK
  <2>5. "none" \in {"none", "branch", "merged"}
    OBVIOUS
  <2>6. [work EXCEPT ![r][t] = "none"] \in [Runs -> [PlanTasks -> {"none", "branch", "merged"}]]
    BY <2>4, <2>5, EntryTyped
  <2>3. work' \in [Runs -> [PlanTasks -> {"none", "branch", "merged"}]]
    BY <2>1, <2>4, <2>6
  <2> QED
    BY <1>1, <1>2, <2>2, <2>3 DEF StoreTypeOK, planLog
<1>7. CASE LayDownPen(s)
  <2>1. lockHolder' \in {"nobody", lockHolder} /\ UNCHANGED <<planLog, latest, work, recorded, targetSet>>
    BY <1>7 DEF LayDownPen, Releases
  <2> QED
    BY <1>1, <1>2, <2>1 DEF StoreTypeOK, planLog
<1>8. CASE CompleteJob(s)
  <2>1. /\ latest' = [latest EXCEPT ![job[s].run][job[s].task] = "completed"]
        /\ work' \in {work, [work EXCEPT ![job[s].run][job[s].task] = "branch"]}
        /\ UNCHANGED <<planLog, recorded, lockHolder, targetSet>>
    BY <1>8 DEF CompleteJob
  <2>3. work \in [Runs -> [PlanTasks -> {"none", "branch", "merged"}]]
    BY <1>1 DEF StoreTypeOK
  <2>4. latest \in [Runs -> [PlanTasks -> {"none", "completed", "stopped"}]]
    BY <1>1 DEF StoreTypeOK
  <2>5. "branch" \in {"none", "branch", "merged"} /\ "completed" \in {"none", "completed", "stopped"}
    OBVIOUS
  <2>6. [work EXCEPT ![job[s].run][job[s].task] = "branch"] \in [Runs -> [PlanTasks -> {"none", "branch", "merged"}]]
    BY <2>3, <2>5, EntryTyped
  <2>7. latest' \in [Runs -> [PlanTasks -> {"none", "completed", "stopped"}]]
    BY <2>1, <2>4, <2>5, EntryTyped
  <2>2. /\ latest' \in [Runs -> [PlanTasks -> {"none", "completed", "stopped"}]]
        /\ work' \in [Runs -> [PlanTasks -> {"none", "branch", "merged"}]]
    BY <2>1, <2>3, <2>6, <2>7
  <2> QED
    BY <1>1, <1>2, <2>1, <2>2 DEF StoreTypeOK, planLog
<1>9. CASE CrashWriting(s)
  <2>1. /\ latest' = [latest EXCEPT ![job[s].run][job[s].task] = "stopped"]
        /\ lockHolder' \in {"nobody", lockHolder} /\ UNCHANGED <<planLog, work, recorded, targetSet>>
    BY <1>9 DEF CrashWriting, EndsStopped, Releases
  <2>2. latest' \in [Runs -> [PlanTasks -> {"none", "completed", "stopped"}]]
    BY <1>1, <2>1, EntryTyped DEF StoreTypeOK
  <2> QED
    BY <1>1, <1>2, <2>1, <2>2 DEF StoreTypeOK, planLog
<1> QED
  BY <1>3, <1>4, <1>5, <1>6, <1>7, <1>8, <1>9 DEF SlotStep

LEMMA OperatesTyped ==
  ASSUME CoreTypeOK, RestTypeOK, NEW s \in Surfaces, Operates(s)
  PROVE  StoreTypeOK'
<1>1. StoreTypeOK
  BY DEF RestTypeOK, StoreTypeOK
<1>2. Runs' = Runs /\ PlanTasks' = PlanTasks /\ Targets' = Targets
  BY DEF Runs, PlanTasks, Targets
<1>3. CASE /\ LatestUnanswered # NoQuestion /\ Shows(s, LatestUnanswered)
           /\ UNCHANGED <<interviewLog, specLog, planLog, buildLog, targetSet, job, misread>>
  BY <1>1, <1>3, UntouchedKeeps DEF Untouched
<1>4. CASE AnswerLatest(s)
  BY <1>1, <1>4, UntouchedKeeps DEF Untouched, AnswerLatest
<1>5. CASE \E r \in 0 .. RunCap : Signs(r) \/ SignsSilently(r)
  BY <1>1, <1>5, UntouchedKeeps DEF Untouched, Signs, SignsSilently
<1>6. CASE Claims(s, "starting", 0, 0)
  BY <1>1, <1>6, UntouchedKeeps DEF Untouched, Claims
<1>7. CASE \E step \in {"planning", "selecting"}, r \in 0 .. RunCap, t \in 0 .. TaskCap : Claims(s, step, r, t)
  BY <1>1, <1>7, UntouchedKeeps DEF Untouched, Claims
<1>8. CASE MergesAll(s) /\ recorded' \in {recorded, recorded \cup {LatestRun}}
  <2>1. LatestRun \in Runs
    BY <1>8, RunsTyped, CapsAreNatural DEF MergesAll, Assemblable, Runs
  <2>2. work' = Merged(LatestRun) /\ UNCHANGED <<planLog, latest, lockHolder, targetSet>>
    BY <1>8 DEF MergesAll
  <2>3. work' \in [Runs -> [PlanTasks -> {"none", "branch", "merged"}]]
    BY <1>1, <2>1, <2>2 DEF StoreTypeOK, Merged
  <2> QED
    BY <1>1, <1>2, <1>8, <2>1, <2>2, <2>3 DEF StoreTypeOK, planLog
<1>9. CASE \E v \in Targets : SetsTarget(s, v)
  <2>1. targetSet' \in Targets /\ UNCHANGED <<planLog, buildLog>>
    BY <1>9 DEF SetsTarget
  <2> QED
    BY <1>1, <1>2, <2>1 DEF StoreTypeOK, planLog, buildLog
<1>10. CASE \E where \in {"away", "closed"} : Leaves(s, where)
  BY <1>1, <1>10, UntouchedKeeps DEF Untouched, Leaves
<1>11. CASE ComeBack(s) \/ CancelJob(s) \/ JobFails(s)
  BY <1>1, <1>11, UntouchedKeeps DEF Untouched, ComeBack, CancelJob, JobFails
<1>12. CASE SurfaceKilled(s)
  <2>1. lockHolder' \in {"a dead process", lockHolder} /\ UNCHANGED <<planLog, latest, work, recorded, targetSet>>
    BY <1>12 DEF SurfaceKilled
  <2> QED
    BY <1>1, <1>2, <2>1 DEF StoreTypeOK, planLog
<1>13. CASE EndsStopped(s)
  <2>1. /\ latest' = [latest EXCEPT ![job[s].run][job[s].task] = "stopped"]
        /\ lockHolder' \in {"nobody", lockHolder} /\ UNCHANGED <<planLog, work, recorded, targetSet>>
    BY <1>13 DEF EndsStopped, Releases
  <2>2. latest' \in [Runs -> [PlanTasks -> {"none", "completed", "stopped"}]]
    BY <1>1, <2>1, EntryTyped DEF StoreTypeOK
  <2> QED
    BY <1>1, <1>2, <2>1, <2>2 DEF StoreTypeOK, planLog
<1> QED
  BY <1>3, <1>4, <1>5, <1>6, <1>7, <1>8, <1>9, <1>10, <1>11, <1>12, <1>13 DEF Operates

-----------------------------------------------------------------------------
\* What the hint admits, from the invariant.
LEMMA HintsHold ==
  ASSUME GuidanceInv, RestTypeOK
  PROVE  HintIsAdmitted
<1>1. CoreTypeOK /\ SpecsFit
  BY DEF GuidanceInv
<1> SUFFICES ASSUME NEW s \in Surfaces, ~LeadsAstray(s)
             PROVE  /\ Hint(s) = "sign" => specRow[LatestUnsigned] # "none"
                    /\ Hint(s) = "plan" => Plannable(LatestRun)
                    /\ Hint(s) = "build" => Dispatchable(s, LatestRun, 0)
                    /\ Hint(s) = "retry" =>
                         Plannable(LatestRun) /\ Selected(LatestRun, FirstOf(BlockedTasks(LatestRun))) # {}
                    /\ Hint(s) = "assemble" => Assemblable(s, LatestRun)
  BY DEF HintIsAdmitted
<1>2. ASSUME Hint(s) = "sign"
      PROVE  specRow[LatestUnsigned] # "none"
  BY <1>1, <1>2, HintSays DEF LatestUnsigned, SpecsFit
<1>3. ASSUME Hint(s) \in {"plan", "retry", "build", "assemble"}
      PROVE  LatestRun \in Runs /\ Plannable(LatestRun) /\ planRow[LatestRun] = planShown[LatestRun]
  <2>1. lastSigned # 0 /\ LatestRun = lastSigned
    BY <1>3, HintSays
  <2>2. LatestRun \in Runs /\ LatestRun # 0 /\ specRow[LatestRun] = "signed"
    BY <1>1, <2>1, CapsAreNatural DEF CoreTypeOK, Runs, SpecsFit
  <2> QED
    BY <2>2 DEF Plannable, LeadsAstray
<1>4. ASSUME Hint(s) = "build"
      PROVE  Dispatchable(s, LatestRun, 0)
  <2>1. PendingTasks(LatestRun) # {} /\ Targeted(s)
    BY <1>4, HintSays
  <2>2. {u \in 1 .. planRow[LatestRun] : latest[LatestRun][u] = "none"} # {}
    BY <1>3, <1>4, <2>1 DEF PendingTasks
  <2> QED
    BY <1>3, <1>4, <2>1, <2>2 DEF Dispatchable, Selected
<1>5. ASSUME Hint(s) = "retry"
      PROVE  Selected(LatestRun, FirstOf(BlockedTasks(LatestRun))) # {}
  <2> DEFINE t == FirstOf(BlockedTasks(LatestRun))
  <2>1. BlockedTasks(LatestRun) # {}
    BY <1>5, HintSays
  <2>2. t \in 1 .. planShown[LatestRun] /\ planShown[LatestRun] \in 0 .. TaskCap
    BY <1>3, <1>5, <2>1, ShownTasks
  <2> HIDE DEF t
  <2>3. t # 0 /\ t \in {t} \cap (1 .. planRow[LatestRun])
    BY <1>3, <1>5, <2>2
  <2>4. Selected(LatestRun, t) # {}
    BY <2>3 DEF Selected
  <2> QED
    BY <2>4 DEF t
<1>6. ASSUME Hint(s) = "assemble"
      PROVE  Assemblable(s, LatestRun)
  <2>1. planShown[LatestRun] # 0 /\ BlockedTasks(LatestRun) = {} /\ PendingTasks(LatestRun) = {}
    BY <1>6, HintSays
  <2>2. Base(s) # Own /\ \A t \in 1 .. planRow[LatestRun] : work[LatestRun][t] # "none"
    BY <1>6 DEF LeadsAstray
  <2>3. ASSUME NEW t \in 1 .. planRow[LatestRun]
        PROVE  latest[LatestRun][t] = "completed"
    <3>1. t \in 1 .. planShown[LatestRun] /\ t \in PlanTasks
      BY <1>3, <1>6, ShownTasks
    <3>2. latest[LatestRun][t] \in {"none", "completed", "stopped"}
      BY <1>3, <1>6, <3>1 DEF RestTypeOK
    <3>3. latest[LatestRun][t] # "none" /\ latest[LatestRun][t] # "stopped"
      BY <2>1, <3>1 DEF BlockedTasks, PendingTasks
    <3> QED
      BY <3>2, <3>3
  <2> QED
    BY <1>3, <1>6, <2>1, <2>2, <2>3 DEF Assemblable, Plannable
<1> QED
  BY <1>2, <1>3, <1>4, <1>5, <1>6

LEMMA GuidanceInitially ==
  ASSUME ConsoleInit
  PROVE  GuidanceInv /\ RestTypeOK
<1>1. RestTypeOK
  BY CapsAreNatural DEF ConsoleInit, RestTypeOK, Targets
<1>2. /\ started = 0 /\ asked = [r \in Runs |-> 0] /\ answered = {}
      /\ specRow = [r \in Runs |-> "none"] /\ lastDrafted = 0 /\ lastSigned = 0
      /\ surface = [s \in Surfaces |-> [at |-> "here", target |-> NoTarget, page |-> NoQuestion]]
      /\ job = [s \in Surfaces |-> FreeSlot] /\ misread = FALSE
  BY DEF ConsoleInit
<1>3. FreeSlot \in JobFrame
  BY CapsAreNatural DEF FreeSlot, JobFrame
<1>4. CoreTypeOK
  <2>1. [at |-> "here", target |-> NoTarget, page |-> NoQuestion] \in SurfaceFrame
    BY DEF SurfaceFrame, Targets
  <2>2. surface \in [Surfaces -> SurfaceFrame] /\ job \in [Surfaces -> JobFrame]
    BY <1>2, <1>3, <2>1
  <2>3. answered \subseteq Questions /\ asked \in [Runs -> 0 .. QuestionCap]
    <3>1. 0 \in 0 .. QuestionCap
      BY CapsAreNatural
    <3> QED
      BY <1>2, <3>1
  <2>4. /\ started \in 0 .. RunCap /\ lastDrafted \in 0 .. RunCap /\ lastSigned \in 0 .. RunCap
        /\ specRow \in [Runs -> {"none", "unsigned", "signed"}] /\ misread \in BOOLEAN
    <3>1. 0 \in 0 .. RunCap
      BY CapsAreNatural
    <3> QED
      BY <1>2, <3>1
  <2> QED
    BY <2>2, <2>3, <2>4 DEF CoreTypeOK
<1>5. Starters = {} /\ \A s \in Surfaces : ~Interviews(s)
  BY <1>2 DEF Starters, Interviews, FreeSlot
<1>6. RunsLeft
  <2>1. IsFiniteSet(Starters) /\ Cardinality(Starters) = 0
    BY <1>5, FS_EmptySet
  <2>2. RunsToCome = started + Cardinality(Starters)
    BY DEF RunsToCome, Starters
  <2> QED
    BY <1>2, <2>1, <2>2, CapsAreNatural DEF RunsLeft
<1>7. ASSUME NEW s \in Surfaces
      PROVE  OwnRun(s) /\ JobFits(s) /\ PageFits(s)
  BY <1>2, <1>5 DEF OwnRun, JobFits, PageFits, Interviews
<1>8. ASSUME NEW r \in Runs
      PROVE  Unstarted(r) /\ OneQuestion(r)
  <2>1. UnansweredOf(r) = {}
    BY <1>2 DEF UnansweredOf
  <2> QED
    BY <1>2, <2>1 DEF Unstarted, OneQuestion
<1> QED
  BY <1>1, <1>2, <1>4, <1>6, <1>7, <1>8 DEF GuidanceInv, SpecsFit, AnswerAsShown

LEMMA GuidanceStep ==
  ASSUME GuidanceInv, RestTypeOK, [ConsoleNext]_consoleVars
  PROVE  GuidanceInv' /\ RestTypeOK'
<1>1. CoreTypeOK
  BY DEF GuidanceInv
<1>2. CASE ConsoleNext
  <2>1. PICK s \in Surfaces : SlotStep(s) \/ Operates(s)
    BY <1>1, <1>2, NextOperates
  <2>2. follower' \in Surfaces /\ whims' \in 0 .. WhimCap /\ mishaps' \in 0 .. MishapCap
    BY <1>1, <1>2, NextOperates
  <2>3. GuidanceInv'
    BY <2>1, SlotStepKeeps, OperatesKeeps
  <2>4. StoreTypeOK'
    BY <1>1, <2>1, SlotStepTyped, OperatesTyped
  <2> QED
    BY <2>2, <2>3, <2>4 DEF StoreTypeOK, RestTypeOK
<1>3. CASE UNCHANGED consoleVars
  <2>1. UNCHANGED <<interviewLog, specLog, misread, surface, job>> /\ Untouched
        /\ UNCHANGED <<follower, whims, mishaps>>
    BY <1>3 DEF consoleVars, Untouched, budgets
  <2>2. Quiet
    BY <1>1, <2>1, RestsQuietly DEF SpecsKeep
  <2>3. StoreTypeOK'
    BY <2>1, UntouchedKeeps DEF RestTypeOK, StoreTypeOK
  <2> QED
    BY <2>1, <2>2, <2>3, QuietKeeps DEF StoreTypeOK, RestTypeOK
<1> QED
  BY <1>2, <1>3

(***************************************************************************)
(* However many surfaces work on one store, and whatever their operators   *)
(* do and their steps fail at: on a surface at rest that is at no known    *)
(* dead end the action its hint names would not be refused                 *)
(* (panel/state.py:195-247), and an answer goes to the question that was   *)
(* shown unless somebody else answered it or a later run started           *)
(* (tui.py:1095, routes.py:277).                                           *)
(***************************************************************************)
THEOREM GuidanceIsSound == ConsoleSpec => []GuidanceHolds
<1>1. ConsoleInit => GuidanceInv /\ RestTypeOK
  BY GuidanceInitially
<1>2. (GuidanceInv /\ RestTypeOK) /\ [ConsoleNext]_consoleVars => (GuidanceInv /\ RestTypeOK)'
  BY GuidanceStep
<1>3. GuidanceInv /\ RestTypeOK => GuidanceHolds
  <2>1. ASSUME GuidanceInv, RestTypeOK
        PROVE  GuidanceHolds
    <3>1. ConsoleTypeOK /\ AnswerAsShown
      BY <2>1, TypesInTwo DEF GuidanceInv
    <3>2. HintIsAdmitted
      BY <2>1, HintsHold
    <3> QED
      BY <3>1, <3>2 DEF GuidanceHolds
  <2> QED
    BY <2>1
<1> QED
  BY <1>1, <1>2, <1>3, PTL DEF ConsoleSpec
=============================================================================
