------------------------- MODULE OssDispatchProofs -------------------------
(***************************************************************************)
(* Proofs about the machines that run alone.                               *)
(*                                                                         *)
(* OssDispatch, for any tasks and any number of runs. The two coroutines   *)
(* meet only through the worker's place: the loop is left by the director  *)
(* only when the worker it polls, or has cancelled, is at no await         *)
(* (Joined), so that a new run or task never resets a worker that still    *)
(* holds the lock.                                                         *)
(*                                                                         *)
(* csvlite, for any table, texts and numbers: what is selected is the body *)
(* filtered by the predicate, its columns picked one by one, and the       *)
(* predicate and its opposite divide the rows.                             *)
(*                                                                         *)
(* specledger, for any repositories: the violations are what the checks    *)
(* run so far find (LedgerInv), each check speaks in words of its own, and *)
(* a directory without gaps, doubles or short numbers is the runner's.     *)
(***************************************************************************)
EXTENDS OssDispatch, CsvLite, SpecLedger, SequenceFacts, FiniteSetTheorems

(* The last of a bounded set of indices is one of them.                    *)
LEMMA LastIndexExists ==
  ASSUME NEW n \in Nat, NEW S, S \subseteq 1 .. n, S # {}
  PROVE  Latest(S) \in S
BY LargestExists DEF Latest

Entry == [type : OssEvents, task : Tasks, by : Nat \X {0}]

(* There is a task, except between runs, and outside the poll loop and its *)
(* cancellation nobody works on it.                                        *)
Joined ==
  /\ poll # "idle" => task \in Tasks
  /\ poll \notin {"polling", "cancelling"} => work \notin Awaits

Inv ==
  /\ log \in Seq(Entry)
  /\ TypeOK
  /\ LockCoversWork
  /\ Joined

LEMMA EmitType ==
  ASSUME log \in Seq(Entry), task \in Tasks, runs \in Nat,
         NEW types \in Seq(OssEvents), Emit(types)
  PROVE  log' \in Seq(Entry)
<1> DEFINE new == [i \in DOMAIN types |-> Ev(types[i])]
<1>1. \A i \in DOMAIN types : Ev(types[i]) \in Entry
  BY DEF Ev, TaskEvent, Entry
<1>2. new \in Seq(Entry)
  <2>1. DOMAIN types = 1 .. Len(types) /\ Len(types) \in Nat
    OBVIOUS
  <2> HIDE DEF Entry
  <2> QED BY <1>1, <2>1, IsASeq
<1>3. log' = log \o new
  BY DEF Emit
<1> HIDE DEF new, Entry
<1> QED BY <1>2, <1>3

LEMMA LogType ==
  ASSUME NEW entries \in Seq(Entry), NEW i \in DOMAIN entries
  PROVE  entries[i].type \in OssEvents /\ entries[i].task \in Tasks
<1>1. entries[i] \in Entry
  <2> HIDE DEF Entry
  <2> QED OBVIOUS
<1> QED BY <1>1 DEF Entry

LEMMA InitInv == Init => Inv
<1> SUFFICES ASSUME Init PROVE Inv
  OBVIOUS
<1>1. log \in Seq(Entry) /\ log = <<>>
  BY DEF Init
<1>2. TypeOK
  <2>1. DOMAIN log = {}
    BY <1>1
  <2>2. runs \in 0 .. MaxRuns
    BY RunsAssumption DEF Init
  <2> QED BY <2>1, <2>2 DEF Init, TypeOK
<1> QED BY <1>1, <1>2 DEF Init, Inv, LockCoversWork, InLock, Joined, Awaits

(* The director opens a run, or goes on to the next task.                  *)
LEMMA TurnKeeps ==
  ASSUME Inv, NEW t \in Tasks, Begin(t) \/ NextTask(t)
  PROVE  Inv'
<1>1. poll \notin {"polling", "cancelling"} /\ lock = "free"
  BY DEF Begin, NextTask, Inv, TypeOK, LockCoversWork, Joined, Awaits, InLock
<1>2. TypeOK'
  <2>1. runs' \in 0 .. MaxRuns
    BY RunsAssumption DEF Begin, NextTask, Inv, TypeOK
  <2>2. \A i \in DOMAIN log' : log'[i].type \in OssEvents /\ log'[i].task \in Tasks
    BY DEF Begin, NextTask, Inv, TypeOK
  <2> QED BY <2>1, <2>2 DEF Begin, NextTask, Inv, TypeOK
<1> QED BY <1>1, <1>2 DEF Begin, NextTask, Inv, LockCoversWork, Joined, Awaits, InLock

LEMMA PublishKeeps ==
  ASSUME Inv, MaybePublish
  PROVE  Inv'
<1>1. log' \in Seq(Entry)
  <2>1. CASE UNCHANGED log
    BY <2>1 DEF Inv
  <2>2. CASE ~UNCHANGED log
    <3> DEFINE commits == { i \in DOMAIN log : log[i].type = "committed" }
    <3>1. LatestCommit # 0 /\ log' = Append(log, TaskEvent("published", log[LatestCommit].task, <<runs, 0>>))
      BY <2>2 DEF MaybePublish, Publishable
    <3>2. commits \subseteq 1 .. Len(log) /\ Len(log) \in Nat
      <4> HIDE DEF Entry
      <4> QED BY DEF Inv
    <3>3. commits # {}
      BY <3>1 DEF LatestCommit, Latest
    <3>4. LatestCommit \in DOMAIN log
      BY <3>2, <3>3, LastIndexExists DEF LatestCommit
    <3>5. log[LatestCommit].task \in Tasks /\ runs \in Nat
      BY <3>4, RunsAssumption DEF Inv, TypeOK
    <3>6. TaskEvent("published", log[LatestCommit].task, <<runs, 0>>) \in Entry
      BY <3>5 DEF TaskEvent, Entry, OssEvents
    <3> QED BY <3>1, <3>6 DEF Inv
  <2> QED BY <2>1, <2>2
<1>2. TypeOK'
  <2>1. \A i \in DOMAIN log' : log'[i].type \in OssEvents /\ log'[i].task \in Tasks
    BY <1>1, LogType
  <2> QED BY <2>1 DEF MaybePublish, Inv, TypeOK
<1> QED BY <1>1, <1>2 DEF MaybePublish, Inv, LockCoversWork, Joined

(* What the coroutines do to the variables other than the log.             *)
LEMMA StepKeeps ==
  ASSUME Inv, log' \in Seq(Entry), Worker \/ Deny \/ Admit \/ PollLoop \/ Unwind \/ Overrun
  PROVE  Inv'
<1>1. \A i \in DOMAIN log' : log'[i].type \in OssEvents /\ log'[i].task \in Tasks
  BY LogType
<1> USE DEF Inv, TypeOK, LockCoversWork, Joined, Awaits, InLock, Ended, WorkerAt
<1>2. CASE Worker
  <2>1. ASSUME NEW refused \in BOOLEAN, WorkerStart(refused) PROVE Inv'
    BY <1>1, <2>1 DEF WorkerStart
  <2>2. CASE RunCommand \/ CommandReturns \/ VerifyInLock
    BY <1>1, <2>2 DEF RunCommand, CommandReturns, VerifyInLock
  <2>3. CASE OutOfScope \/ ContentGateDenies
    BY <1>1, <2>3 DEF OutOfScope, ContentGateDenies
  <2>4. CASE VerifierFails
    BY <1>1, <2>4 DEF VerifierFails
  <2>5. ASSUME NEW lands \in BOOLEAN, VerifierPasses(lands) PROVE Inv'
    BY <1>1, <2>5 DEF VerifierPasses
  <2>6. CASE Certifies
    BY <1>1, <2>6 DEF Certifies
  <2>7. CASE Refuses
    BY <1>1, <2>7 DEF Refuses
  <2>8. CASE WorkerRaises
    BY <1>1, <2>8 DEF WorkerRaises
  <2> QED BY <1>2, <2>1, <2>2, <2>3, <2>4, <2>5, <2>6, <2>7, <2>8 DEF Worker
<1>3. CASE Deny \/ Admit \/ Overrun
  BY <1>1, <1>3 DEF Deny, Admit, Overrun
<1>4. CASE Cancel
  BY <1>1, <1>4 DEF Cancel
<1>5. CASE Unwind
  BY <1>1, <1>5 DEF Unwind
<1>6. CASE CapAbort
  BY <1>1, <1>6 DEF CapAbort
<1>7. CASE Join
  BY <1>1, <1>7 DEF Join
<1> QED BY <1>2, <1>3, <1>4, <1>5, <1>6, <1>7 DEF PollLoop

(* Every step writes events of the current task, or none.                  *)
LEMMA LogKeeps ==
  ASSUME Inv, Worker \/ Deny \/ Admit \/ PollLoop \/ Unwind \/ Overrun
  PROVE  log' \in Seq(Entry)
<1> DEFINE known == OssEvents
<1>1. /\ {"started", "aborted", "rejected", "completed", "passed", "failed", "certified", "refused",
           "committed"} \subseteq known
  BY DEF OssEvents, EventTypes, Evidence, Outcomes
<1>2. poll # "idle" => task \in Tasks
  BY DEF Inv, Joined
<1>3. work \in Awaits => poll # "idle"
  BY DEF Inv, Joined
<1> HIDE DEF known
<1>4. CASE UNCHANGED log
  BY <1>4 DEF Inv
<1>5. CASE ~UNCHANGED log
  <2>1. poll # "idle"
    BY <1>3, <1>5 DEF Worker, WorkerAt, WorkerStart, RunCommand, CommandReturns, OutOfScope,
       ContentGateDenies, VerifyInLock, VerifierFails, VerifierPasses, Certifies, Refuses, WorkerRaises,
       Deny, Admit, PollLoop, Cancel, Unwind, CapAbort, Join, Overrun, Awaits, InLock
  <2>2. PICK a \in known, b \in known : Emit(<<a>>) \/ Emit(<<a, b>>)
    BY <1>1, <1>5 DEF Worker, WorkerStart, RunCommand, CommandReturns, OutOfScope, ContentGateDenies,
       VerifyInLock, VerifierFails, VerifierPasses, Certifies, Refuses, WorkerRaises, Deny, Admit,
       PollLoop, Cancel, Unwind, CapAbort, Join, Overrun
  <2>3. <<a>> \in Seq(OssEvents) /\ <<a, b>> \in Seq(OssEvents)
    BY DEF known
  <2>4. \E types \in Seq(OssEvents) : Emit(types)
    BY <2>2, <2>3
  <2>5. PICK types \in Seq(OssEvents) : Emit(types)
    BY <2>4
  <2> QED BY <1>2, <2>1, <2>5, EmitType, RunsAssumption DEF Inv, TypeOK
<1> QED BY <1>4, <1>5

LEMMA NextInv == Inv /\ [Next]_vars => Inv'
<1> SUFFICES ASSUME Inv, [Next]_vars PROVE Inv'
  OBVIOUS
<1>1. CASE \E t \in Tasks : Begin(t) \/ NextTask(t)
  BY <1>1, TurnKeeps
<1>2. CASE MaybePublish
  BY <1>2, PublishKeeps
<1>3. CASE Worker \/ Deny \/ Admit \/ PollLoop \/ Unwind \/ Overrun
  BY <1>3, LogKeeps, StepKeeps
<1>4. CASE UNCHANGED vars
  BY <1>4 DEF vars, Inv, TypeOK, LockCoversWork, Joined
<1> QED BY <1>1, <1>2, <1>3, <1>4 DEF Next, Director

LEMMA InvAlwaysHolds == Spec => []Inv
BY InitInv, NextInv, PTL DEF Spec

(* Every variable keeps its type.                                          *)
THEOREM TypeCorrect == Spec => []TypeOK
<1>1. Inv => TypeOK
  BY DEF Inv
<1> QED BY <1>1, InvAlwaysHolds, PTL

(* Inv 1 on the OSS path: the lock is held exactly while the worker may    *)
(* write or verify, whatever it raises, whenever a cap cancels it and      *)
(* however many tasks and runs follow one another.                         *)
THEOREM LockIsExact == Spec => []LockCoversWork
<1>1. Inv => LockCoversWork
  BY DEF Inv
<1> QED BY <1>1, InvAlwaysHolds, PTL

-----------------------------------------------------------------------------
(* S5 and the monitored half of Inv 10. What the log alone says of a run:  *)
(* its events come in the order of the runs, a pass right before a commit, *)
(* a certification right before a completion.                              *)

RunOf(l, i) == l[i].by[1]

RunsInOrder(l) == \A i, j \in DOMAIN l : i < j => RunOf(l, i) <= RunOf(l, j)

(* Within a run a task is started before it ends.                          *)
StartsFirst(l) ==
  \A i, j \in DOMAIN l :
    /\ l[i].type \in Outcomes /\ l[j].type = "started"
    /\ l[i].task = l[j].task /\ RunOf(l, i) = RunOf(l, j)
    => j < i

CommitsPassed(l) ==
  \A c \in DOMAIN l : l[c].type = "committed" =>
    c - 1 \in DOMAIN l /\ l[c - 1] = TaskEvent("passed", l[c].task, l[c].by)

CompletionsCertified(l) ==
  \A k \in DOMAIN l : l[k].type = "completed" =>
    k - 1 \in DOMAIN l /\ l[k - 1] = TaskEvent("certified", l[k].task, l[k].by)

IsCommit(l, i) == l[i].type = "committed"

(* The commit that a completion is about is the latest one before it.      *)
CompletionsCommitted(l) ==
  \A k \in DOMAIN l : l[k].type = "completed" =>
    \E c \in 1 .. k - 1 : /\ l[c] = TaskEvent("committed", l[k].task, l[k].by)
                          /\ \A m \in c + 1 .. k : ~IsCommit(l, m)

PublishedEarned(l) ==
  \A i \in DOMAIN l :
    l[i].type = "published" =>
      LET t == l[i].task
          c == Latest({ j \in At(l, t, {"committed"}) : j < i })
      IN  /\ c # 0
          /\ \E j \in 1 .. c : l[j] = TaskEvent("passed", t, l[c].by)
          /\ \E j, k \in c .. i : /\ j < k
                                  /\ l[j] = TaskEvent("certified", t, l[c].by)
                                  /\ l[k] = TaskEvent("completed", t, l[c].by)

LogInv(l) ==
  /\ RunsInOrder(l) /\ StartsFirst(l)
  /\ CommitsPassed(l) /\ CompletionsCertified(l) /\ CompletionsCommitted(l) /\ PublishedEarned(l)

LatestCommitIs(l, t, by) ==
  \E c \in DOMAIN l : /\ l[c] = TaskEvent("committed", t, by)
                      /\ \A m \in DOMAIN l : IsCommit(l, m) => m <= c

(* What the log says of the step that the worker is in.                    *)
RunInv ==
  /\ LogInv(log)
  /\ \A i \in DOMAIN log : RunOf(log, i) <= runs
  /\ poll = "admission" \/ work = "new" =>
       \A i \in DOMAIN log : ~(RunOf(log, i) = runs /\ log[i].task = task)
  /\ work = "reviewing" => LatestCommitIs(log, task, <<runs, 0>>)

(* The largest of a set of positions, as the code's MAX(seq) finds it.     *)
LEMMA LatestIs ==
  ASSUME NEW n \in Nat, NEW S, S \subseteq 1 .. n, NEW k \in S, \A m \in S : m <= k
  PROVE  Latest(S) = k
<1>1. Latest(S) \in S /\ \A j \in S : j <= Latest(S)
  BY DEF Latest
<1> DEFINE x == Latest(S)
<1>2. x \in S /\ k <= x /\ x <= k
  BY <1>1
<1> HIDE DEF x
<1>3. x \in Nat /\ k \in Nat
  BY <1>2
<1>4. x = k
  BY <1>2, <1>3
<1> QED BY <1>4 DEF x

(* What an appended entry leaves as it was.                                *)
LEMMA EntryAdded ==
  ASSUME NEW l \in Seq(Entry), NEW e \in Entry
  PROVE  /\ Append(l, e) \in Seq(Entry)
         /\ Len(l) \in Nat /\ DOMAIN l = 1 .. Len(l)
         /\ DOMAIN Append(l, e) = 1 .. Len(l) + 1
         /\ \A i \in 1 .. Len(l) : Append(l, e)[i] = l[i]
         /\ Append(l, e)[Len(l) + 1] = e
         /\ \A i \in 1 .. Len(l) + 1 : i \in 1 .. Len(l) \/ i = Len(l) + 1
<1>1. /\ Append(l, e) \in Seq(Entry) /\ Len(l) \in Nat /\ DOMAIN l = 1 .. Len(l)
      /\ DOMAIN Append(l, e) = (DOMAIN l) \cup {Len(l) + 1}
  BY AppendGrows
<1>2. /\ \A i \in 1 .. Len(l) : Append(l, e)[i] = l[i]
      /\ Append(l, e)[Len(l) + 1] = e
  BY AppendGrows, <1>1
<1>3. \A i \in 1 .. Len(l) + 1 : i \in 1 .. Len(l) \/ i = Len(l) + 1
  BY <1>1
<1>4. DOMAIN Append(l, e) = 1 .. Len(l) + 1
  BY <1>1
<1> QED BY <1>1, <1>2, <1>3, <1>4

LEMMA OrderAdded ==
  ASSUME NEW l \in Seq(Entry), NEW e \in Entry, RunsInOrder(l), StartsFirst(l),
         \A i \in DOMAIN l : RunOf(l, i) <= e.by[1],
         e.type = "started" => \A i \in DOMAIN l : ~(RunOf(l, i) = e.by[1] /\ l[i].task = e.task)
  PROVE  RunsInOrder(Append(l, e)) /\ StartsFirst(Append(l, e))
<1> DEFINE n == Len(l)
           g == Append(l, e)
<1>1. /\ n \in Nat /\ DOMAIN l = 1 .. n /\ DOMAIN g = 1 .. n + 1
      /\ \A i \in 1 .. n : g[i] = l[i]
      /\ g[n + 1] = e
      /\ \A i \in 1 .. n + 1 : i \in 1 .. n \/ i = n + 1
  BY EntryAdded
<1> HIDE DEF n, g
<1>2. /\ \A i \in 1 .. n : RunOf(g, i) = RunOf(l, i)
      /\ RunOf(g, n + 1) = e.by[1]
  BY <1>1 DEF RunOf
<1>3. \A i \in 1 .. n : i < n + 1 /\ ~(n + 1 < i)
  BY <1>1
<1>4. ASSUME NEW i \in 1 .. n + 1, NEW j \in 1 .. n + 1, i < j
      PROVE  RunOf(g, i) <= RunOf(g, j)
  <2>1. CASE i \in 1 .. n /\ j \in 1 .. n
    BY <1>1, <1>2, <1>4, <2>1 DEF RunsInOrder
  <2>2. CASE i \in 1 .. n /\ j = n + 1
    BY <1>1, <1>2, <2>2
  <2>3. i # n + 1
    BY <1>1, <1>4
  <2> QED BY <1>1, <2>1, <2>2, <2>3
<1>5. ASSUME NEW i \in 1 .. n + 1, NEW j \in 1 .. n + 1,
             g[i].type \in Outcomes, g[j].type = "started",
             g[i].task = g[j].task, RunOf(g, i) = RunOf(g, j)
      PROVE  j < i
  <2>1. CASE i \in 1 .. n /\ j \in 1 .. n
    BY <1>1, <1>2, <1>5, <2>1 DEF StartsFirst
  <2>2. CASE i = n + 1 /\ j \in 1 .. n
    BY <1>3, <2>2
  <2>3. CASE i \in 1 .. n /\ j = n + 1
    BY <1>1, <1>2, <1>5, <2>3
  <2>4. CASE i = n + 1 /\ j = n + 1
    BY <1>5, <2>4 DEF Outcomes
  <2> QED BY <1>1, <2>1, <2>2, <2>3, <2>4
<1> QED BY <1>1, <1>4, <1>5 DEF RunsInOrder, StartsFirst, g

LEMMA EarnsAdded ==
  ASSUME NEW l \in Seq(Entry), NEW e \in Entry,
         CommitsPassed(l), CompletionsCertified(l), CompletionsCommitted(l),
         e.type = "committed" =>
           Len(l) \in DOMAIN l /\ l[Len(l)] = TaskEvent("passed", e.task, e.by),
         e.type = "completed" =>
           /\ Len(l) \in DOMAIN l /\ l[Len(l)] = TaskEvent("certified", e.task, e.by)
           /\ LatestCommitIs(l, e.task, e.by)
  PROVE  /\ CommitsPassed(Append(l, e)) /\ CompletionsCertified(Append(l, e))
         /\ CompletionsCommitted(Append(l, e))
<1> DEFINE n == Len(l)
           g == Append(l, e)
<1>1. /\ n \in Nat /\ DOMAIN l = 1 .. n /\ DOMAIN g = 1 .. n + 1
      /\ \A i \in 1 .. n : g[i] = l[i]
      /\ g[n + 1] = e
      /\ \A i \in 1 .. n + 1 : i \in 1 .. n \/ i = n + 1
  BY EntryAdded
<1>2. /\ e.type = "committed" => n \in 1 .. n /\ l[n] = TaskEvent("passed", e.task, e.by)
      /\ e.type = "completed" => n \in 1 .. n /\ l[n] = TaskEvent("certified", e.task, e.by)
  BY <1>1
<1> HIDE DEF n, g
<1>3. /\ n + 1 - 1 = n
      /\ \A i \in 1 .. n : i \in 1 .. n + 1
  BY <1>1
<1>4. ASSUME NEW c \in 1 .. n + 1, g[c].type = "committed"
      PROVE  c - 1 \in 1 .. n + 1 /\ g[c - 1] = TaskEvent("passed", g[c].task, g[c].by)
  <2>1. CASE c \in 1 .. n
    <3>1. c - 1 \in 1 .. n /\ l[c - 1] = TaskEvent("passed", l[c].task, l[c].by)
      BY <1>1, <1>4, <2>1 DEF CommitsPassed
    <3> QED BY <1>1, <1>3, <2>1, <3>1
  <2>2. CASE c = n + 1
    BY <1>1, <1>2, <1>3, <1>4, <2>2
  <2> QED BY <1>1, <2>1, <2>2
<1>5. ASSUME NEW k \in 1 .. n + 1, g[k].type = "completed"
      PROVE  /\ k - 1 \in 1 .. n + 1 /\ g[k - 1] = TaskEvent("certified", g[k].task, g[k].by)
             /\ \E c \in 1 .. k - 1 : /\ g[c] = TaskEvent("committed", g[k].task, g[k].by)
                                      /\ \A m \in c + 1 .. k : ~IsCommit(g, m)
  <2>1. CASE k \in 1 .. n
    <3>1. /\ k - 1 \in 1 .. n /\ l[k - 1] = TaskEvent("certified", l[k].task, l[k].by)
      BY <1>1, <1>5, <2>1 DEF CompletionsCertified
    <3>2. PICK c \in 1 .. k - 1 : /\ l[c] = TaskEvent("committed", l[k].task, l[k].by)
                                  /\ \A m \in c + 1 .. k : ~IsCommit(l, m)
      BY <1>1, <1>5, <2>1 DEF CompletionsCommitted
    <3>3. c \in 1 .. n /\ \A m \in c + 1 .. k : m \in 1 .. n
      BY <1>1, <2>1
    <3>4. g[c] = TaskEvent("committed", g[k].task, g[k].by) /\ \A m \in c + 1 .. k : ~IsCommit(g, m)
      BY <1>1, <2>1, <3>2, <3>3 DEF IsCommit
    <3> QED BY <1>1, <1>3, <2>1, <3>1, <3>4
  <2>2. CASE k = n + 1
    <3>1. g[k] = e /\ e.type = "completed"
      BY <1>1, <1>5, <2>2
    <3>2. k - 1 \in 1 .. n + 1 /\ g[k - 1] = TaskEvent("certified", g[k].task, g[k].by)
      BY <1>1, <1>2, <1>3, <2>2, <3>1
    <3>3. PICK c \in 1 .. n : /\ l[c] = TaskEvent("committed", e.task, e.by)
                              /\ \A m \in 1 .. n : IsCommit(l, m) => m <= c
      BY <1>1, <3>1 DEF LatestCommitIs
    <3>4. ASSUME NEW m \in c + 1 .. k PROVE ~IsCommit(g, m)
      <4>1. CASE m = n + 1
        BY <2>2, <3>1, <4>1 DEF IsCommit
      <4>2. CASE m # n + 1
        <5>1. m \in 1 .. n /\ ~(m <= c)
          BY <1>1, <2>2, <4>2
        <5> QED BY <1>1, <3>3, <5>1 DEF IsCommit
      <4> QED BY <4>1, <4>2
    <3>5. c \in 1 .. k - 1 /\ g[c] = TaskEvent("committed", g[k].task, g[k].by)
      BY <1>1, <1>3, <2>2, <3>1, <3>3
    <3> QED BY <3>2, <3>4, <3>5
  <2> QED BY <1>1, <2>1, <2>2
<1> QED BY <1>1, <1>4, <1>5 DEF CommitsPassed, CompletionsCertified, CompletionsCommitted, g

(* _maybe_publish finds a commit with a completion after it: the commit is *)
(* the one that this completion is about, so it was verified before it was *)
(* made and certified after.                                               *)
LEMMA PublicationAdded ==
  ASSUME NEW l \in Seq(Entry), NEW e \in Entry, PublishedEarned(l),
         CommitsPassed(l), CompletionsCertified(l), CompletionsCommitted(l),
         e.type = "published" =>
           \E c \in DOMAIN l :
             /\ IsCommit(l, c) /\ \A m \in DOMAIN l : IsCommit(l, m) => m <= c
             /\ e.task = l[c].task
             /\ \E k \in At(l, l[c].task, {"completed"}) : k > c
  PROVE  PublishedEarned(Append(l, e))
<1> DEFINE n == Len(l)
           g == Append(l, e)
           CommitsBefore(s, t, i) == { j \in At(s, t, {"committed"}) : j < i }
<1>1. /\ n \in Nat /\ DOMAIN l = 1 .. n /\ DOMAIN g = 1 .. n + 1
      /\ \A i \in 1 .. n : g[i] = l[i]
      /\ g[n + 1] = e
      /\ \A i \in 1 .. n + 1 : i \in 1 .. n \/ i = n + 1
  BY EntryAdded
<1>a. \A i \in 1 .. n : l[i] \in Entry
  BY <1>1
<1> HIDE DEF n, g
<1>2. \A t : \A i \in 1 .. n : CommitsBefore(g, t, i) = CommitsBefore(l, t, i)
  <2> SUFFICES ASSUME NEW t, NEW i \in 1 .. n
               PROVE  CommitsBefore(g, t, i) = CommitsBefore(l, t, i)
    OBVIOUS
  <2>1. \A j \in 1 .. n + 1 : j < i => j \in 1 .. n
    BY <1>1
  <2>2. \A j \in 1 .. n : j \in 1 .. n + 1
    BY <1>1
  <2> QED BY <1>1, <2>1, <2>2 DEF At
<1> SUFFICES ASSUME NEW i \in 1 .. n + 1, g[i].type = "published"
             PROVE  LET t == g[i].task
                        c == Latest(CommitsBefore(g, t, i))
                    IN  /\ c # 0
                        /\ \E j \in 1 .. c : g[j] = TaskEvent("passed", t, g[c].by)
                        /\ \E j, k \in c .. i : /\ j < k
                                                /\ g[j] = TaskEvent("certified", t, g[c].by)
                                                /\ g[k] = TaskEvent("completed", t, g[c].by)
  BY <1>1 DEF PublishedEarned, g
<1>3. CASE i \in 1 .. n
  <2> DEFINE t == l[i].task
             c == Latest(CommitsBefore(l, t, i))
  <2>1. /\ c # 0
        /\ \E j \in 1 .. c : l[j] = TaskEvent("passed", t, l[c].by)
        /\ \E j, k \in c .. i : /\ j < k
                                /\ l[j] = TaskEvent("certified", t, l[c].by)
                                /\ l[k] = TaskEvent("completed", t, l[c].by)
    BY <1>1, <1>3 DEF PublishedEarned
  <2>2. g[i].task = t /\ Latest(CommitsBefore(g, t, i)) = c
    BY <1>1, <1>2, <1>3
  <2>3. c \in 1 .. n
    <3>1. CommitsBefore(l, t, i) \subseteq 1 .. n /\ CommitsBefore(l, t, i) # {}
      BY <1>1, <2>1 DEF At, Latest
    <3> HIDE DEF CommitsBefore
    <3> QED BY <1>1, <3>1, LastIndexExists
  <2> HIDE DEF c
  <2>4. \A j \in 1 .. c : j \in 1 .. n
    BY <1>1, <2>3
  <2>5. \A j \in c .. i : j \in 1 .. n
    BY <1>1, <1>3, <2>3
  <2>6. PICK j \in 1 .. c : l[j] = TaskEvent("passed", t, l[c].by)
    BY <2>1
  <2>7. g[c] = l[c] /\ g[j] = l[j]
    BY <1>1, <2>3, <2>4
  <2>8. PICK u \in c .. i, v \in c .. i : /\ u < v
                                          /\ l[u] = TaskEvent("certified", t, l[c].by)
                                          /\ l[v] = TaskEvent("completed", t, l[c].by)
    BY <2>1
  <2>9. g[u] = l[u] /\ g[v] = l[v]
    BY <1>1, <2>5
  <2>10. /\ c # 0
         /\ \E x \in 1 .. c : g[x] = TaskEvent("passed", t, g[c].by)
         /\ \E x, y \in c .. i : /\ x < y
                                 /\ g[x] = TaskEvent("certified", t, g[c].by)
                                 /\ g[y] = TaskEvent("completed", t, g[c].by)
    BY <2>1, <2>6, <2>7, <2>8, <2>9
  <2> QED BY <2>2, <2>10
<1>4. CASE i = n + 1
  <2>1. g[i] = e /\ e.type = "published"
    BY <1>1, <1>4
  <2>2. PICK c \in 1 .. n : /\ IsCommit(l, c) /\ \A m \in 1 .. n : IsCommit(l, m) => m <= c
                            /\ e.task = l[c].task
                            /\ \E k \in At(l, l[c].task, {"completed"}) : k > c
    BY <1>1, <2>1
  <2> DEFINE t == l[c].task
             by == l[c].by
  <2>3. PICK k \in 1 .. n : l[k].task = t /\ l[k].type = "completed" /\ k > c
    BY <1>1, <2>2 DEF At
  <2>4. Latest(CommitsBefore(g, t, i)) = c
    <3>1. CommitsBefore(g, t, i) \subseteq 1 .. n
      BY <1>1, <1>4 DEF At
    <3>2. c \in CommitsBefore(g, t, i)
      BY <1>1, <1>4, <2>2 DEF At, IsCommit
    <3>3. \A m \in CommitsBefore(g, t, i) : m <= c
      BY <1>1, <2>2, <3>1 DEF At, IsCommit
    <3> HIDE DEF CommitsBefore
    <3> QED BY <1>1, <3>1, <3>2, <3>3, LatestIs
  <2>5. PICK d \in 1 .. k - 1 : /\ l[d] = TaskEvent("committed", l[k].task, l[k].by)
                                /\ \A m \in d + 1 .. k : ~IsCommit(l, m)
    BY <1>1, <2>3 DEF CompletionsCommitted
  <2>6. d = c
    <3>1. d \in 1 .. n /\ IsCommit(l, d)
      BY <1>1, <2>3, <2>5 DEF IsCommit, TaskEvent
    <3>2. d <= c
      BY <2>2, <3>1
    <3>3. ~(c \in d + 1 .. k)
      BY <2>2, <2>5
    <3>4. c \in Nat /\ d \in Nat /\ k \in Nat
      BY <1>1, <3>1
    <3> QED BY <2>3, <3>2, <3>3, <3>4
  <2>7. l[k].by = by
    BY <2>5, <2>6 DEF TaskEvent
  <2>8. l[k] = TaskEvent("completed", t, by)
    BY <1>a, <2>3, <2>7 DEF Entry, TaskEvent
  <2>9. k - 1 \in 1 .. n /\ l[k - 1] = TaskEvent("certified", t, by)
    BY <1>1, <2>3, <2>7 DEF CompletionsCertified
  <2>10. c - 1 \in 1 .. n /\ l[c - 1] = TaskEvent("passed", t, by)
    BY <1>1, <2>2 DEF CommitsPassed, IsCommit
  <2> HIDE DEF t, by
  <2>11. /\ c - 1 \in 1 .. c /\ k - 1 \in c .. i /\ k \in c .. i /\ k - 1 < k
         /\ c # 0
    BY <1>1, <1>4, <2>2, <2>3, <2>9, <2>10
  <2>12. /\ g[c] = l[c] /\ g[c - 1] = l[c - 1] /\ g[k] = l[k] /\ g[k - 1] = l[k - 1]
    BY <1>1, <2>2, <2>3, <2>9, <2>10
  <2>13. g[c].by = by /\ g[i].task = t
    BY <2>1, <2>2, <2>12 DEF t, by
  <2>14. /\ \E j \in 1 .. c : g[j] = TaskEvent("passed", t, g[c].by)
         /\ \E x, y \in c .. i : /\ x < y
                                 /\ g[x] = TaskEvent("certified", t, g[c].by)
                                 /\ g[y] = TaskEvent("completed", t, g[c].by)
    BY <2>8, <2>9, <2>10, <2>11, <2>12, <2>13
  <2> QED BY <2>4, <2>11, <2>13, <2>14
<1> QED BY <1>1, <1>3, <1>4

LEMMA LogInvAdded ==
  ASSUME NEW l \in Seq(Entry), NEW e \in Entry, LogInv(l),
         \A i \in DOMAIN l : RunOf(l, i) <= e.by[1],
         e.type = "started" => \A i \in DOMAIN l : ~(RunOf(l, i) = e.by[1] /\ l[i].task = e.task),
         e.type = "committed" =>
           Len(l) \in DOMAIN l /\ l[Len(l)] = TaskEvent("passed", e.task, e.by),
         e.type = "completed" =>
           /\ Len(l) \in DOMAIN l /\ l[Len(l)] = TaskEvent("certified", e.task, e.by)
           /\ LatestCommitIs(l, e.task, e.by),
         e.type = "published" =>
           \E c \in DOMAIN l :
             /\ IsCommit(l, c) /\ \A m \in DOMAIN l : IsCommit(l, m) => m <= c
             /\ e.task = l[c].task
             /\ \E k \in At(l, l[c].task, {"completed"}) : k > c
  PROVE  LogInv(Append(l, e))
<1>1. RunsInOrder(Append(l, e)) /\ StartsFirst(Append(l, e))
  BY OrderAdded DEF LogInv
<1>2. /\ CommitsPassed(Append(l, e)) /\ CompletionsCertified(Append(l, e))
      /\ CompletionsCommitted(Append(l, e))
  BY EarnsAdded DEF LogInv
<1>3. PublishedEarned(Append(l, e))
  BY PublicationAdded DEF LogInv
<1> QED BY <1>1, <1>2, <1>3 DEF LogInv

(* Emitting is appending, one event or two.                                *)
LEMMA EmitsOne ==
  ASSUME log \in Seq(Entry), NEW a, Ev(a) \in Entry, Emit(<<a>>)
  PROVE  log' = Append(log, Ev(a))
<1>1. [i \in DOMAIN <<a>> |-> Ev(<<a>>[i])] = <<Ev(a)>>
  OBVIOUS
<1>2. log' = log \o <<Ev(a)>>
  BY <1>1 DEF Emit
<1> DEFINE e == Ev(a)
<1> HIDE DEF e, Entry
<1>3. log \o <<e>> = Append(log, e)
  BY DEF e
<1> QED BY <1>2, <1>3 DEF e

LEMMA EmitsTwo ==
  ASSUME log \in Seq(Entry), NEW a, NEW b, Ev(a) \in Entry, Ev(b) \in Entry, Emit(<<a, b>>)
  PROVE  log' = Append(Append(log, Ev(a)), Ev(b))
<1>1. [i \in DOMAIN <<a, b>> |-> Ev(<<a, b>>[i])] = <<Ev(a), Ev(b)>>
  OBVIOUS
<1>2. log' = log \o <<Ev(a), Ev(b)>>
  BY <1>1 DEF Emit
<1> DEFINE e == Ev(a)
           f == Ev(b)
<1> HIDE DEF e, f, Entry
<1>3. log \o <<e, f>> = Append(Append(log, e), f)
  BY DEF e, f
<1> QED BY <1>2, <1>3 DEF e, f

LEMMA LatestCommitStays ==
  ASSUME NEW l \in Seq(Entry), NEW e \in Entry, NEW t, NEW by,
         e.type # "committed", LatestCommitIs(l, t, by)
  PROVE  LatestCommitIs(Append(l, e), t, by)
<1> DEFINE n == Len(l)
           g == Append(l, e)
<1>1. /\ n \in Nat /\ DOMAIN l = 1 .. n /\ DOMAIN g = 1 .. n + 1
      /\ \A i \in 1 .. n : g[i] = l[i]
      /\ g[n + 1] = e
      /\ \A i \in 1 .. n + 1 : i \in 1 .. n \/ i = n + 1
  BY EntryAdded
<1>2. PICK c \in 1 .. n : /\ l[c] = TaskEvent("committed", t, by)
                          /\ \A m \in 1 .. n : IsCommit(l, m) => m <= c
  BY <1>1 DEF LatestCommitIs
<1> HIDE DEF n, g
<1>3. \A m \in 1 .. n + 1 : IsCommit(g, m) => m <= c
  BY <1>1, <1>2 DEF IsCommit
<1>4. c \in 1 .. n + 1 /\ g[c] = TaskEvent("committed", t, by)
  BY <1>1, <1>2
<1> QED BY <1>1, <1>3, <1>4 DEF LatestCommitIs, g

LEMMA LatestCommitAdded ==
  ASSUME NEW l \in Seq(Entry), NEW t, NEW by, TaskEvent("committed", t, by) \in Entry
  PROVE  LatestCommitIs(Append(l, TaskEvent("committed", t, by)), t, by)
<1> DEFINE n == Len(l)
           e == TaskEvent("committed", t, by)
           g == Append(l, e)
<1>1. n \in Nat /\ DOMAIN g = 1 .. n + 1 /\ g[n + 1] = e
  BY EntryAdded
<1> HIDE DEF n, g
<1>2. n + 1 \in DOMAIN g /\ \A m \in DOMAIN g : m <= n + 1
  BY <1>1
<1> QED BY <1>1, <1>2 DEF LatestCommitIs, g

(* An event of the current run keeps the log in the order of the runs.     *)
LEMMA RunsStayNumbered ==
  ASSUME NEW l \in Seq(Entry), NEW e \in Entry, \A i \in DOMAIN l : RunOf(l, i) <= runs,
         runs \in Nat, e.by[1] = runs
  PROVE  \A i \in DOMAIN Append(l, e) : RunOf(Append(l, e), i) <= runs
<1> DEFINE n == Len(l)
           g == Append(l, e)
<1>1. /\ DOMAIN l = 1 .. n /\ DOMAIN g = 1 .. n + 1
      /\ \A i \in 1 .. n : g[i] = l[i]
      /\ g[n + 1] = e
      /\ \A i \in 1 .. n + 1 : i \in 1 .. n \/ i = n + 1
  BY EntryAdded
<1> HIDE DEF n, g
<1>2. \A i \in 1 .. n + 1 : RunOf(g, i) <= runs
  BY <1>1 DEF RunOf
<1> QED BY <1>1, <1>2 DEF g

LEMMA EvFacts ==
  ASSUME task \in Tasks, runs \in Nat, NEW a \in OssEvents
  PROVE  /\ Ev(a) \in Entry
         /\ Ev(a).type = a /\ Ev(a).task = task /\ Ev(a).by = <<runs, 0>> /\ Ev(a).by[1] = runs
         /\ Ev(a) = TaskEvent(a, task, <<runs, 0>>)
BY DEF Ev, TaskEvent, Entry

LEMMA RunIsNumber ==
  ASSUME Inv
  PROVE  runs \in Nat /\ log \in Seq(Entry)
BY RunsAssumption DEF Inv, TypeOK

(* A step that says nothing, or one thing, of the run.                     *)
LEMMA RunSaysOne ==
  ASSUME Inv, RunInv, runs' = runs, poll' # "admission", work' \notin {"new", "reviewing"},
         \/ log' = log
         \/ \E a \in OssEvents \ {"committed", "completed", "published"} :
              /\ task \in Tasks /\ Emit(<<a>>)
              /\ a = "started" => work = "new"
  PROVE  RunInv'
<1>1. runs \in Nat /\ log \in Seq(Entry)
  BY RunIsNumber
<1>2. LogInv(log) /\ \A i \in DOMAIN log : RunOf(log, i) <= runs
  BY DEF RunInv
<1>3. CASE log' = log
  BY <1>2, <1>3 DEF RunInv
<1>4. ASSUME NEW a \in OssEvents \ {"committed", "completed", "published"},
             task \in Tasks, Emit(<<a>>), a = "started" => work = "new"
      PROVE  RunInv'
  <2>1. /\ Ev(a) \in Entry /\ Ev(a).type = a /\ Ev(a).task = task /\ Ev(a).by[1] = runs
    BY <1>1, <1>4, EvFacts
  <2>2. log' = Append(log, Ev(a))
    BY <1>1, <1>4, <2>1, EmitsOne
  <2> DEFINE e == Ev(a)
  <2>3. e \in Entry /\ e.type = a /\ e.task = task /\ e.by[1] = runs /\ log' = Append(log, e)
    BY <2>1, <2>2
  <2> HIDE DEF e
  <2>4. e.type = "started" => \A i \in DOMAIN log : ~(RunOf(log, i) = e.by[1] /\ log[i].task = e.task)
    BY <1>4, <2>3 DEF RunInv
  <2>5. LogInv(log')
    BY <1>1, <1>2, <1>4, <2>3, <2>4, LogInvAdded
  <2>6. \A i \in DOMAIN log' : RunOf(log', i) <= runs
    BY <1>1, <1>2, <2>3, RunsStayNumbered
  <2> QED BY <2>5, <2>6 DEF RunInv
<1> QED BY <1>3, <1>4

(* A step that says two things of the run, without an await between them.  *)
LEMMA RunSaysTwo ==
  ASSUME Inv, RunInv, runs' = runs, task' = task, task \in Tasks,
         poll' # "admission", work' # "new",
         NEW a \in OssEvents \ {"started", "committed", "completed", "published"},
         NEW b \in OssEvents \ {"started", "published"},
         Emit(<<a, b>>),
         b = "committed" => a = "passed",
         b = "completed" => a = "certified" /\ work = "reviewing",
         work' = "reviewing" => b = "committed"
  PROVE  RunInv'
<1>1. runs \in Nat /\ log \in Seq(Entry)
  BY RunIsNumber
<1>2. LogInv(log) /\ \A i \in DOMAIN log : RunOf(log, i) <= runs
  BY DEF RunInv
<1> DEFINE by == <<runs, 0>>
           e == Ev(a)
           f == Ev(b)
           l == Append(log, e)
<1>3. /\ e \in Entry /\ e.type = a /\ e.by[1] = runs /\ e = TaskEvent(a, task, by)
      /\ f \in Entry /\ f.type = b /\ f.by[1] = runs /\ f = TaskEvent(b, task, by)
      /\ f.task = task /\ f.by = by
  BY <1>1, EvFacts
<1>4. log' = Append(l, f)
  BY <1>1, <1>3, EmitsTwo
<1> HIDE DEF e, f, by
<1>5. /\ l \in Seq(Entry) /\ Len(log) \in Nat
      /\ DOMAIN l = 1 .. Len(log) + 1 /\ l[Len(log) + 1] = e
  BY <1>1, <1>3, EntryAdded
<1>6. Len(l) = Len(log) + 1
  BY <1>1, <1>3, AppendGrows
<1>7. Len(l) \in DOMAIN l /\ l[Len(l)] = e
  BY <1>5, <1>6
<1>8. LogInv(l)
  BY <1>1, <1>2, <1>3, LogInvAdded
<1>9. \A i \in DOMAIN l : RunOf(l, i) <= runs
  BY <1>1, <1>2, <1>3, RunsStayNumbered
<1>10. b = "completed" => LatestCommitIs(l, task, by)
  <2>1. b = "completed" => LatestCommitIs(log, task, by)
    BY DEF RunInv, by
  <2> QED BY <1>1, <1>3, <2>1, LatestCommitStays
<1> HIDE DEF l
<1>11. LogInv(log')
  BY <1>3, <1>4, <1>5, <1>7, <1>8, <1>9, <1>10, LogInvAdded
<1>12. \A i \in DOMAIN log' : RunOf(log', i) <= runs
  BY <1>1, <1>3, <1>4, <1>5, <1>9, RunsStayNumbered
<1>13. work' = "reviewing" => LatestCommitIs(log', task, by)
  BY <1>3, <1>4, <1>5, LatestCommitAdded
<1> QED BY <1>11, <1>12, <1>13 DEF RunInv, by

LEMMA InitRunInv == Init => RunInv
<1> SUFFICES ASSUME Init PROVE RunInv
  OBVIOUS
<1>1. DOMAIN log = {} /\ poll # "admission" /\ work = "none"
  BY DEF Init
<1> QED BY <1>1 DEF RunInv, LogInv, RunsInOrder, StartsFirst, CommitsPassed, CompletionsCertified,
                    CompletionsCommitted, PublishedEarned

LEMMA NextRunInv ==
  ASSUME Inv, RunInv, [Next]_vars
  PROVE  RunInv'
<1>1. runs \in Nat /\ log \in Seq(Entry)
  BY RunIsNumber
<1>2. /\ LogInv(log) /\ \A i \in DOMAIN log : RunOf(log, i) <= runs
      /\ \A i \in DOMAIN log : RunOf(log, i) \in Nat
  <2>1. \A i \in DOMAIN log : RunOf(log, i) \in Nat
    <3>1. \A i \in DOMAIN log : log[i] \in Entry
      BY <1>1, Positions
    <3> QED BY <3>1 DEF Entry, RunOf
  <2> QED BY <2>1 DEF RunInv
<1>3. /\ poll # "idle" => task \in Tasks
      /\ work \in Awaits => poll \in {"polling", "cancelling"}
  BY DEF Inv, Joined
<1>4. /\ {"started", "aborted", "rejected", "completed", "passed", "failed", "certified", "refused",
           "committed"} \subseteq OssEvents
  BY DEF OssEvents, EventTypes, Evidence, Outcomes
<1>5. ASSUME NEW t \in Tasks, Begin(t) PROVE RunInv'
  <2>1. \A i \in DOMAIN log : RunOf(log, i) <= runs + 1 /\ RunOf(log, i) # runs + 1
    BY <1>1, <1>2
  <2>2. log' = log /\ runs' = runs + 1 /\ work' = "none"
    BY <1>5 DEF Begin
  <2> QED BY <1>2, <2>1, <2>2 DEF RunInv
<1>6. ASSUME NEW t \in Tasks, NextTask(t) PROVE RunInv'
  <2>1. log' = log /\ runs' = runs /\ work' = "none" /\ task' = t
    BY <1>6 DEF NextTask
  <2>2. \A i \in DOMAIN log : ~(RunOf(log, i) = runs /\ log[i].task = t)
    BY <1>6 DEF NextTask, Dispatched, RunOf
  <2> QED BY <1>2, <2>1, <2>2 DEF RunInv
<1>7. CASE Deny
  <2>1. task \in Tasks /\ work \notin Awaits
    BY <1>3, <1>7 DEF Deny
  <2>2. work' \notin {"new", "reviewing"}
    BY <1>7, <2>1 DEF Deny, Awaits
  <2> QED BY <1>4, <1>7, <2>1, <2>2, RunSaysOne DEF Deny
<1>8. CASE Admit
  <2>1. /\ log' = log /\ runs' = runs /\ task' = task /\ work' = "new" /\ poll = "admission"
    BY <1>8 DEF Admit
  <2> QED BY <2>1 DEF RunInv
<1>9. ASSUME NEW refused \in BOOLEAN, WorkerStart(refused) PROVE RunInv'
  <2>1. work = "new" /\ poll = "polling" /\ task \in Tasks
    BY <1>3, <1>9 DEF WorkerStart, WorkerAt
  <2>2. /\ runs' = runs /\ poll' # "admission" /\ work' \notin {"new", "reviewing"}
        /\ Emit(<<"started">>)
    BY <1>9, <2>1 DEF WorkerStart
  <2> QED BY <1>4, <2>1, <2>2, RunSaysOne
<1>10. CASE OutOfScope \/ ContentGateDenies \/ VerifyInLock \/ WorkerRaises
  <2>1. poll = "polling"
    BY <1>10 DEF OutOfScope, ContentGateDenies, VerifyInLock, WorkerRaises, WorkerAt
  <2>2. /\ log' = log /\ runs' = runs /\ poll' # "admission" /\ work' \notin {"new", "reviewing"}
    BY <1>10, <2>1 DEF OutOfScope, ContentGateDenies, VerifyInLock, WorkerRaises
  <2> QED BY <2>2, RunSaysOne
<1>11. CASE VerifierFails \/ Refuses
  <2>1. poll = "polling" /\ task \in Tasks
    BY <1>3, <1>11 DEF VerifierFails, Refuses, WorkerAt
  <2>2. /\ runs' = runs /\ task' = task /\ poll' # "admission" /\ work' = "done"
        /\ Emit(<<"failed", "rejected">>) \/ Emit(<<"refused", "rejected">>)
    BY <1>11, <2>1 DEF VerifierFails, Refuses
  <2>3. CASE Emit(<<"failed", "rejected">>)
    BY <1>4, <2>1, <2>2, <2>3, RunSaysTwo
  <2>4. CASE Emit(<<"refused", "rejected">>)
    BY <1>4, <2>1, <2>2, <2>4, RunSaysTwo
  <2> QED BY <2>2, <2>3, <2>4
<1>12. ASSUME NEW lands \in BOOLEAN, VerifierPasses(lands) PROVE RunInv'
  <2>1. poll = "polling" /\ task \in Tasks
    BY <1>3, <1>12 DEF VerifierPasses, WorkerAt
  <2>2. runs' = runs /\ task' = task /\ poll' # "admission"
    BY <1>12, <2>1 DEF VerifierPasses
  <2>3. CASE lands
    <3>1. Emit(<<"passed", "committed">>) /\ work' = "reviewing"
      BY <1>12, <2>3 DEF VerifierPasses
    <3> QED BY <1>4, <2>1, <2>2, <3>1, RunSaysTwo
  <2>4. CASE ~lands
    <3>1. Emit(<<"passed">>) /\ work' = "raised"
      BY <1>12, <2>4 DEF VerifierPasses
    <3> QED BY <1>4, <2>1, <2>2, <3>1, RunSaysOne
  <2> QED BY <2>3, <2>4
<1>13. CASE Certifies
  <2>1. poll = "polling" /\ task \in Tasks /\ work = "reviewing"
    BY <1>3, <1>13 DEF Certifies, WorkerAt
  <2>2. /\ runs' = runs /\ task' = task /\ poll' # "admission" /\ work' \in {"done", "raised"}
        /\ Emit(<<"certified", "completed">>) \/ Emit(<<"certified">>)
    BY <1>13, <2>1 DEF Certifies
  <2>3. CASE Emit(<<"certified", "completed">>)
    BY <1>4, <2>1, <2>2, <2>3, RunSaysTwo
  <2>4. CASE Emit(<<"certified">>)
    BY <1>4, <2>1, <2>2, <2>4, RunSaysOne
  <2> QED BY <2>2, <2>3, <2>4
<1>14. CASE CapAbort
  <2>1. task \in Tasks
    BY <1>3, <1>14 DEF CapAbort
  <2>2. /\ runs' = runs /\ poll' # "admission" /\ work' \in Ended /\ Emit(<<"aborted">>)
    BY <1>14 DEF CapAbort
  <2>3. work' \notin {"new", "reviewing"}
    BY <2>2 DEF Ended
  <2> QED BY <1>4, <2>1, <2>2, <2>3, RunSaysOne
<1>15. CASE Join
  <2>1. task \in Tasks
    BY <1>3, <1>15 DEF Join
  <2>2. /\ runs' = runs /\ poll' # "admission" /\ work' \notin {"new", "reviewing"}
        /\ Emit(<<"rejected">>) \/ log' = log
    BY <1>15 DEF Join
  <2> QED BY <1>4, <2>1, <2>2, RunSaysOne
<1>16. CASE Overrun \/ RunCommand \/ CommandReturns
  <2>1. log' = log /\ runs' = runs /\ task' = task /\ work' = work /\ poll' = poll
    BY <1>16 DEF Overrun, RunCommand, CommandReturns
  <2> QED BY <2>1 DEF RunInv
<1>17. CASE MaybePublish
  <2>1. poll = "returned" /\ runs' = runs /\ poll' = "idle" /\ work' = work
    BY <1>17 DEF MaybePublish
  <2>2. work' \notin {"new", "reviewing"}
    BY <1>3, <2>1 DEF Awaits
  <2>3. CASE log' = log
    BY <2>1, <2>2, <2>3, RunSaysOne
  <2>4. CASE log' # log
    <3> DEFINE commits == { i \in DOMAIN log : log[i].type = "committed" }
               c == LatestCommit
               e == TaskEvent("published", log[c].task, <<runs, 0>>)
    <3>1. Publishable /\ log' = Append(log, e)
      BY <1>17, <2>4 DEF MaybePublish
    <3>2. Len(log) \in Nat /\ DOMAIN log = 1 .. Len(log) /\ \A i \in DOMAIN log : log[i] \in Entry
      BY <1>1, Positions
    <3>3. commits # {} /\ commits \subseteq 1 .. Len(log)
      BY <3>1, <3>2 DEF Publishable, LatestCommit, Latest
    <3>4. c \in commits
      BY <3>2, <3>3, LastIndexExists DEF LatestCommit
    <3>5. \A m \in commits : m <= c
      <4>1. PICK m \in commits : \A k \in commits : k <= m
        BY <3>2, <3>3, LargestExists
      <4> HIDE DEF commits
      <4>2. Latest(commits) = m
        BY <3>2, <3>3, <4>1, LatestIs
      <4>3. c = Latest(commits)
        BY DEF LatestCommit, commits
      <4> QED BY <4>1, <4>2, <4>3
    <3>6. \E k \in At(log, log[c].task, {"completed"}) : k > c
      BY <3>1 DEF Publishable
    <3> HIDE DEF c
    <3>7. c \in DOMAIN log /\ IsCommit(log, c) /\ \A m \in DOMAIN log : IsCommit(log, m) => m <= c
      BY <3>4, <3>5 DEF IsCommit
    <3> HIDE DEF commits
    <3>8. e \in Entry
      <4>1. log[c].task \in Tasks
        BY <3>2, <3>7 DEF Entry
      <4> QED BY <1>1, <4>1 DEF TaskEvent, Entry, OssEvents
    <3>9. e.type = "published" /\ e.task = log[c].task /\ e.by[1] = runs
      BY DEF TaskEvent
    <3> HIDE DEF e
    <3>10. LogInv(log')
      BY <1>1, <1>2, <3>1, <3>6, <3>7, <3>8, <3>9, LogInvAdded
    <3>11. \A i \in DOMAIN log' : RunOf(log', i) <= runs
      BY <1>1, <1>2, <3>1, <3>8, <3>9, RunsStayNumbered
    <3> QED BY <2>1, <2>2, <3>10, <3>11 DEF RunInv
  <2> QED BY <2>3, <2>4
<1>18. CASE UNCHANGED vars
  <2>1. log' = log /\ runs' = runs /\ task' = task /\ work' = work /\ poll' = poll
    BY <1>18 DEF vars
  <2> QED BY <2>1 DEF RunInv
<1>19. CASE Cancel
  <2>1. log' = log /\ runs' = runs /\ task' = task /\ work' = work /\ poll' = "cancelling"
    BY <1>19 DEF Cancel
  <2> QED BY <2>1 DEF RunInv
<1>20. CASE Unwind
  <2>1. log' = log /\ runs' = runs /\ poll' # "admission" /\ work' \notin {"new", "reviewing"}
    BY <1>20 DEF Unwind
  <2> QED BY <2>1, RunSaysOne
<1> QED BY <1>5, <1>6, <1>7, <1>8, <1>9, <1>10, <1>11, <1>12, <1>13, <1>14, <1>15, <1>16, <1>17, <1>18,
           <1>19, <1>20
        DEF Next, Director, PollLoop, Worker

LEMMA RunInvAlwaysHolds == Spec => [](Inv /\ RunInv)
<1>1. Inv /\ RunInv /\ [Next]_vars => RunInv'
  BY NextRunInv
<1> QED BY <1>1, InitInv, NextInv, InitRunInv, PTL DEF Spec

(* S5: what is pushed and proposed upstream passed the verifier before its *)
(* commit was made, and was certified and completed after it, by the run   *)
(* of that commit - whatever runs, refusals, cap aborts and lost commits   *)
(* lie in between.                                                         *)
THEOREM WhatIsPublishedIsEarned == Spec => []PublishedWasEarned
<1>1. RunInv => PublishedWasEarned
  BY DEF RunInv, LogInv, PublishedEarned, PublishedWasEarned
<1> QED BY <1>1, RunInvAlwaysHolds, PTL

(* Two terminals of one run of a task have no start of the task between    *)
(* them, so the walk of the monitor meets the second with a terminal as    *)
(* the latest thing it knows of the task.                                  *)
LEMMA SecondTerminalIsSeen ==
  ASSUME log \in Seq(Entry), LogInv(log),
         NEW r, NEW t, NEW i \in Terminals(r, t), NEW j \in Terminals(r, t), i < j
  PROVE  j \in DoubleTerminals(log)
<1> DEFINE before == SubSeq(log, 1, j - 1)
           known == At(before, t, {"started"} \cup Outcomes)
           last == Latest(known)
<1>1. /\ Len(log) \in Nat /\ DOMAIN log = 1 .. Len(log)
      /\ \A k \in DOMAIN log : log[k] \in Entry
  BY Positions
<1>2. /\ i \in DOMAIN log /\ log[i].task = t /\ log[i].type \in Outcomes /\ RunOf(log, i) = r
      /\ j \in DOMAIN log /\ log[j].task = t /\ log[j].type \in Outcomes /\ RunOf(log, j) = r
  BY DEF Terminals, At, RunOf
<1>3. j - 1 \in Nat /\ j - 1 <= Len(log)
  BY <1>1, <1>2
<1>4. DOMAIN before = 1 .. j - 1 /\ \A k \in 1 .. j - 1 : before[k] = log[k]
  BY <1>1, <1>3
<1> HIDE DEF before
<1>5. i \in 1 .. j - 1
  BY <1>1, <1>2
<1>6. i \in known /\ known \subseteq 1 .. j - 1
  BY <1>2, <1>4, <1>5 DEF At
<1>7. PICK m \in known : \A k \in known : k <= m
  BY <1>3, <1>6, LargestExists
<1>8. last = m
  <2> HIDE DEF known
  <2> QED BY <1>3, <1>6, <1>7, LatestIs
<1>9. m \in 1 .. j - 1 /\ m \in DOMAIN log /\ i <= m /\ m < j
  <2>1. m \in 1 .. j - 1 /\ i <= m
    BY <1>6, <1>7
  <2>2. j \in 1 .. Len(log)
    BY <1>1, <1>2
  <2> HIDE DEF known
  <2>3. m \in 1 .. Len(log) /\ m < j
    BY <1>1, <2>1, <2>2
  <2> QED BY <1>1, <2>1, <2>3
<1>10. log[m].task = t /\ log[m].type \in {"started"} \cup Outcomes /\ before[m] = log[m]
  BY <1>4, <1>7, <1>9 DEF At
<1>11. log[m].type # "started"
  <2> SUFFICES ASSUME log[m].type = "started" PROVE FALSE
    OBVIOUS
  <2>1. m # i
    BY <1>2 DEF Outcomes
  <2>2. i \in Nat /\ m \in Nat /\ i < m
    BY <1>1, <1>2, <1>9, <2>1
  <2>3. RunOf(log, i) <= RunOf(log, m) /\ RunOf(log, m) <= RunOf(log, j)
    BY <1>2, <1>9, <2>2 DEF LogInv, RunsInOrder
  <2>4. RunOf(log, i) \in Nat /\ RunOf(log, m) \in Nat /\ RunOf(log, j) \in Nat
    BY <1>1, <1>2, <1>9 DEF Entry, RunOf
  <2>5. RunOf(log, m) = RunOf(log, i)
    BY <1>2, <2>3, <2>4
  <2>6. m < i
    BY <1>2, <1>9, <1>10, <2>5 DEF LogInv, StartsFirst
  <2> QED BY <2>2, <2>6
<1>12. last # 0 /\ before[last].type \in Outcomes
  BY <1>8, <1>9, <1>10, <1>11
<1> QED BY <1>2, <1>12 DEF DoubleTerminals, before

(* A task that the latest run started and did not end is what the monitor  *)
(* calls an orphan: everything after that start is of the same run.        *)
LEMMA UnendedIsOrphan ==
  ASSUME log \in Seq(Entry), LogInv(log), \A i \in DOMAIN log : RunOf(log, i) <= runs,
         Terminals(runs, task) = {},
         NEW s \in DOMAIN log, log[s] = TaskEvent("started", task, <<runs, 0>>)
  PROVE  task \in Orphans(log)
<1> DEFINE starts == At(log, task, {"started"})
           known == At(log, task, {"started"} \cup Outcomes)
           last == Latest(known)
<1>1. /\ Len(log) \in Nat /\ DOMAIN log = 1 .. Len(log)
      /\ \A k \in DOMAIN log : log[k] \in Entry
  BY Positions
<1>2. log[s].type = "started" /\ log[s].task = task /\ RunOf(log, s) = runs
  BY DEF TaskEvent, RunOf
<1>3. s \in starts /\ s \in known /\ known \subseteq 1 .. Len(log)
  BY <1>1, <1>2 DEF At
<1>4. PICK m \in known : \A k \in known : k <= m
  BY <1>1, <1>3, LargestExists
<1>5. last = m
  <2> HIDE DEF known
  <2> QED BY <1>1, <1>3, <1>4, LatestIs
<1>6. m \in DOMAIN log /\ s <= m /\ log[m].task = task
  BY <1>3, <1>4 DEF At
<1>7. log[m].type = "started"
  <2> SUFFICES ASSUME log[m].type \in Outcomes PROVE FALSE
    BY <1>4 DEF At
  <2>1. m # s
    BY <1>2 DEF Outcomes
  <2>2. s < m
    BY <1>1, <1>6, <2>1
  <2>3. RunOf(log, s) <= RunOf(log, m) /\ RunOf(log, m) <= runs
    BY <1>6, <2>2 DEF LogInv, RunsInOrder
  <2>4. RunOf(log, m) \in Nat /\ RunOf(log, s) \in Nat
    BY <1>1, <1>6 DEF Entry, RunOf
  <2>5. RunOf(log, m) = runs
    BY <1>2, <2>3, <2>4
  <2> QED BY <1>6, <2>5 DEF Terminals, At, RunOf
<1>8. task \in Tasks
  BY <1>1, <1>2 DEF Entry
<1>9. CurrentState(log, task) = "running"
  <2>1. starts # {}
    BY <1>3
  <2> QED BY <1>5, <1>7, <2>1 DEF CurrentState
<1> QED BY <1>8, <1>9 DEF Orphans

(* Inv 10 as the monitor watches it on the OSS path: no run that ends a    *)
(* task twice, and none that leaves a started task without its terminal,   *)
(* escapes its two checks, whatever runs of the task came before.          *)
THEOREM MonitorMissesNoEnd == Spec => []MonitorSeesEnds
<1>1. Inv /\ RunInv => MonitorSeesEnds
  <2> SUFFICES ASSUME Inv, RunInv PROVE MonitorSeesEnds
    OBVIOUS
  <2>1. log \in Seq(Entry) /\ LogInv(log) /\ \A i \in DOMAIN log : RunOf(log, i) <= runs
    BY DEF Inv, RunInv
  <2>2. ASSUME NEW r \in 1 .. runs, NEW t \in Tasks, Cardinality(Terminals(r, t)) > 1
        PROVE  Terminals(r, t) \cap DoubleTerminals(log) # {}
    <3> DEFINE T == Terminals(r, t)
    <3>1. \E i, j \in T : i # j
      <4> SUFFICES ASSUME \A i, j \in T : i = j PROVE FALSE
        OBVIOUS
      <4>1. CASE T = {}
        BY <2>2, <4>1, FS_EmptySet
      <4>2. CASE T # {}
        <5>1. PICK i \in T : TRUE
          BY <4>2
        <5>2. T = {i}
          BY <5>1
        <5>3. Cardinality(T) = 1
          BY <5>2, FS_Singleton
        <5> QED BY <2>2, <5>3
      <4> QED BY <4>1, <4>2
    <3>2. \A i \in T : i \in Nat
      <4>1. DOMAIN log = 1 .. Len(log) /\ Len(log) \in Nat
        BY <2>1, Positions
      <4> QED BY <4>1 DEF Terminals, At
    <3>3. PICK i \in T, j \in T : i < j
      <4>1. PICK x \in T, y \in T : x # y
        BY <3>1
      <4>2. x \in Nat /\ y \in Nat
        BY <3>2
      <4>3. x < y \/ y < x
        BY <4>1, <4>2
      <4> QED BY <4>3
    <3> QED BY <2>1, <3>3, SecondTerminalIsSeen
  <2>3. ASSUME Terminals(runs, task) = {},
               \E i \in DOMAIN log : log[i] = TaskEvent("started", task, <<runs, 0>>)
        PROVE  task \in Orphans(log)
    BY <2>1, <2>3, UnendedIsOrphan
  <2> QED BY <2>2, <2>3 DEF MonitorSeesEnds
<1> QED BY <1>1, RunInvAlwaysHolds, PTL

-----------------------------------------------------------------------------
(* csvlite *)

(* A cell has a place among the texts. *)
LEMMA PlaceIs == \A cell \in TextCells : Place(cell) \in Nat
<1> SUFFICES ASSUME NEW cell \in TextCells
             PROVE  Place(cell) \in Nat
  OBVIOUS
<1>1. PICK n \in DOMAIN Text : Text[n] = cell
  BY DEF TextCells
<1>2. Place(cell) \in DOMAIN Text
  <2>1. (CHOOSE i \in DOMAIN Text : Text[i] = cell) \in DOMAIN Text
    BY <1>1, Zenon
  <2> QED
    BY <2>1, Zenon DEF Place
<1>3. DOMAIN Text \subseteq Nat
  <2>1. Text \in Seq(TextCells)
    BY CsvAssumption
  <2>2. DOMAIN Text = 1 .. Len(Text)
    BY <2>1, Positions
  <2> QED
    BY <2>2
<1> QED
  BY <1>2, <1>3

(* Of two integers in order: a comparison is the negation of its opposite. *)
LEMMA OrderedDivides ==
  ASSUME NEW a \in Int, NEW b \in Int, NEW op \in Comparisons
  PROVE  Ordered(a, op, b) <=> ~Ordered(a, Opposite[op], b)
<1>1. a # NaN /\ b # NaN
  BY CsvAssumption
<1>2. op \in {"==", "!=", "<", "<=", ">", ">="}
  BY DEF Comparisons
<1>3. /\ Opposite["=="] = "!=" /\ Opposite["!="] = "=="
      /\ Opposite["<"] = ">=" /\ Opposite[">="] = "<"
      /\ Opposite[">"] = "<=" /\ Opposite["<="] = ">"
  BY DEF Opposite, Comparisons
<1>4. \A o : Ordered(a, o, b) <=> \/ o = "==" /\ a = b
                                  \/ o = "!=" /\ a # b
                                  \/ o = "<" /\ a < b
                                  \/ o = "<=" /\ a <= b
                                  \/ o = ">" /\ a > b
                                  \/ o = ">=" /\ a >= b
  BY <1>1 DEF Ordered
<1> QED
  BY <1>2, <1>3, <1>4

(* A comparison is decided, and the other way by its opposite, or it is one
   with NaN, which only != accepts. *)
LEMMA CompareDivides ==
  ASSUME NEW cell \in TextCells, NEW value \in TextCells, NEW op \in Comparisons
  PROVE  IF Undecided(cell, value) THEN Compare(cell, op, value) <=> op = "!="
         ELSE Compare(cell, op, value) <=> ~Compare(cell, Opposite[op], value)
<1>1. CASE Undecided(cell, value)
  BY <1>1 DEF Undecided, Compare, Ordered
<1>2. CASE ~Undecided(cell, value) /\ {cell, value} \subseteq DOMAIN NumberOf
  <2>1. NumberOf[cell] \in Int /\ NumberOf[value] \in Int
    BY <1>2, CsvAssumption DEF Undecided
  <2> QED
    BY <1>2, <2>1, OrderedDivides DEF Compare
<1>3. CASE ~({cell, value} \subseteq DOMAIN NumberOf)
  <2>1. Place(cell) \in Int /\ Place(value) \in Int
    BY PlaceIs
  <2> QED
    BY <1>3, <2>1, OrderedDivides DEF Compare, Undecided
<1> QED
  BY <1>1, <1>2, <1>3

(* A name that the header has is that of its first column so named. *)
LEMMA ColumnIs ==
  ASSUME NEW header \in Seq(TextCells), NEW name, Named(header, name)
  PROVE  Column(header, name) \in DOMAIN header /\ header[Column(header, name)] = name
<1> DEFINE T == {i \in DOMAIN header : header[i] = name}
<1>1. DOMAIN header = 1 .. Len(header) /\ Len(header) \in Nat
  BY Positions
<1>2. T \subseteq Nat /\ T # {}
  BY <1>1 DEF Named
<1>3. PICK i \in T : \A j \in T : i <= j
  BY <1>2, LeastNatural
<1>4. i \in DOMAIN header /\ header[i] = name /\ \A j \in 1 .. i - 1 : header[j] # name
  BY <1>1, <1>3
<1> QED
  BY <1>4 DEF Column

-----------------------------------------------------------------------------
\* the columns, the rows and the output that a command without an error ends with
Chosen == [k \in DOMAIN command.spec |-> Position(Header, command.spec[k])]

Passing == {row \in Held(Tail(rows)) : Passes(row)}

Output ==
  IF command.json THEN [k \in DOMAIN kept |-> Record(kept[k])]
  ELSE <<Project(Header)>> \o [k \in DOMAIN kept |-> Project(kept[k])]

CsvInv ==
  /\ CsvTypeOK /\ command \in Commands
  /\ csvStep \in {"args", "read", "select"} => indices = <<>>
  /\ csvStep = "args" \/ (csvExit = 2 <=> BadUsage)
  /\ csvStep # "ended" => printed = <<>> /\ csvExit = 0
  /\ csvExit # 0 => printed = <<>>
  /\ csvExit = 5 => Unknown \/ BadPredicate
  /\ csvExit = 0 /\ csvStep \in {"filter", "write", "ended"} => ~Unknown /\ indices = Chosen
  /\ csvExit = 0 /\ csvStep \in {"write", "ended"} => ~BadPredicate /\ kept = Keep(Tail(rows), Passing)
  /\ csvExit = 0 /\ csvStep = "ended" => printed = Output

(* A command that knows all its columns has read a header. *)
LEMMA HeaderIsRead ==
  ASSUME rows \in CsvInputs \cup {<<>>}, command \in Commands, ~BadUsage, ~Unknown
  PROVE  /\ rows \in Seq(Seq(TextCells)) /\ rows # <<>> /\ Header = rows[1]
         /\ Header \in Seq(TextCells)
         /\ command.spec \in Seq(TextCells)
         /\ \A k \in DOMAIN command.spec : Position(Header, command.spec[k]) \in DOMAIN Header
<1>1. command.spec \in Seq(TextCells) /\ command.spec # <<>>
  BY CsvAssumption DEF BadUsage, Commands
<1>2. 1 \in DOMAIN command.spec /\ DOMAIN command.spec = 1 .. Len(command.spec)
  BY <1>1, TailShifts
<1>3. \A k \in DOMAIN command.spec : Selectable(Header, command.spec[k])
  BY DEF Unknown
<1>4. Header # <<>>
  <2> SUFFICES ASSUME Header = <<>> PROVE FALSE
    OBVIOUS
  <2>1. DOMAIN Header = {}
    OBVIOUS
  <2>2. ~Selectable(Header, command.spec[1])
    BY <2>1 DEF Selectable, Named
  <2> QED
    BY <1>2, <1>3, <2>2
<1>5. rows # <<>> /\ Header = rows[1]
  BY <1>4 DEF Header
<1>6. rows \in Seq(Seq(TextCells))
  BY <1>5, CsvAssumption
<1>7. Header \in Seq(TextCells)
  <2>1. 1 \in DOMAIN rows
    BY <1>5, <1>6, TailShifts
  <2> QED
    BY <1>5, <1>6, <2>1, Positions
<1>8. ASSUME NEW k \in DOMAIN command.spec
      PROVE  Position(Header, command.spec[k]) \in DOMAIN Header
  <2>1. CASE command.spec[k] \in Digits
    BY <1>3, <2>1 DEF Selectable, Position
  <2>2. CASE command.spec[k] \notin Digits
    BY <1>3, <1>7, <2>2, ColumnIs DEF Selectable, Position
  <2> QED
    BY <2>1, <2>2
<1> QED
  BY <1>1, <1>5, <1>6, <1>7, <1>8

LEMMA CsvBegins == CsvInit => CsvInv
<1> SUFFICES ASSUME NEW c \in Commands, CsvStart(c)
             PROVE  CsvInv
  BY DEF CsvInit
<1> QED
  BY DEF CsvStart, CsvInv, CsvTypeOK

LEMMA CsvGoesOn == CsvInv /\ [CsvNext]_csvVars => CsvInv'
<1> SUFFICES ASSUME CsvInv, [CsvNext]_csvVars
             PROVE  CsvInv'
  OBVIOUS
<1>1. ASSUME NEW code \in {2, 4, 5}, CsvFails(code), csvStep # "ended",
             code = 2 <=> BadUsage, code = 5 => Unknown \/ BadPredicate
      PROVE  CsvInv'
  <2>1. UNCHANGED <<command, rows, indices, kept, printed>> /\ csvStep' = "ended" /\ csvExit' = code
    BY <1>1 DEF CsvFails
  <2>2. (BadUsage' <=> BadUsage) /\ (Unknown' <=> Unknown) /\ (BadPredicate' <=> BadPredicate)
    BY <2>1 DEF BadUsage, Unknown, BadPredicate, Header
  <2> QED
    BY <1>1, <2>1, <2>2 DEF CsvInv, CsvTypeOK
<1>2. CASE ParseArgs
  <2>1. BadUsage' <=> BadUsage
    BY <1>2 DEF ParseArgs, Goes, BadUsage
  <2> QED
    BY <1>2, <2>1 DEF ParseArgs, Goes, CsvInv, CsvTypeOK
<1>3. CASE RefuseUsage
  BY <1>1, <1>3 DEF RefuseUsage
<1>4. CASE ReadRows
  <2>1. BadUsage' <=> BadUsage
    BY <1>4 DEF ReadRows, Goes, BadUsage
  <2>2. indices' = <<>> /\ DOMAIN indices' = {}
    BY <1>4 DEF ReadRows, CsvInv
  <2> QED
    BY <1>4, <2>1, <2>2 DEF ReadRows, Goes, CsvInv, CsvTypeOK
<1>5. CASE CannotRead
  BY <1>1, <1>5 DEF CannotRead, CsvInv
<1>6. CASE SelectColumns
  <2>1. /\ UNCHANGED <<command, csvExit, rows, kept, printed>> /\ csvStep = "select" /\ csvStep' = "filter"
        /\ ~Unknown /\ indices' = Chosen
    BY <1>6 DEF SelectColumns, Goes, Chosen
  <2>2. ~BadUsage /\ csvExit = 0 /\ printed = <<>>
    BY <2>1 DEF CsvInv
  <2>3. (BadUsage' <=> BadUsage) /\ (Unknown' <=> Unknown) /\ Chosen' = Chosen
    BY <2>1 DEF BadUsage, Unknown, Header, Chosen
  <2>4. \A k \in DOMAIN Chosen : Chosen[k] \in DOMAIN rows[1]
    BY <2>1, <2>2, HeaderIsRead DEF CsvInv, CsvTypeOK, Chosen
  <2> QED
    BY <2>1, <2>2, <2>3, <2>4 DEF CsvInv, CsvTypeOK
<1>7. CASE RefuseColumns
  BY <1>1, <1>7 DEF RefuseColumns, CsvInv
<1>8. CASE FilterRows
  <2>1. /\ UNCHANGED <<command, csvExit, rows, indices, printed>> /\ csvStep = "filter" /\ csvStep' = "write"
        /\ ~BadPredicate /\ kept' = Keep(Tail(rows), Passing)
    BY <1>8 DEF FilterRows, Goes, Passing
  <2>2. csvExit = 0 /\ printed = <<>>
    BY <2>1 DEF CsvInv
  <2>3. /\ (BadUsage' <=> BadUsage) /\ (Unknown' <=> Unknown) /\ (BadPredicate' <=> BadPredicate)
        /\ Chosen' = Chosen /\ Passing' = Passing
    BY <2>1 DEF BadUsage, Unknown, BadPredicate, Header, Chosen, Passing, Passes
  <2> QED
    BY <2>1, <2>2, <2>3 DEF CsvInv, CsvTypeOK
<1>9. CASE RefusePredicate
  BY <1>1, <1>9 DEF RefusePredicate, CsvInv
<1>10. CASE WriteRows
  <2>1. /\ UNCHANGED <<command, csvExit, rows, indices, kept>> /\ csvStep = "write" /\ csvStep' = "ended"
        /\ printed' = Output
    BY <1>10 DEF WriteRows, Goes, Output
  <2>2. csvExit = 0
    BY <2>1 DEF CsvInv
  <2>3. /\ (BadUsage' <=> BadUsage) /\ (Unknown' <=> Unknown) /\ (BadPredicate' <=> BadPredicate)
        /\ Chosen' = Chosen /\ Passing' = Passing /\ Output' = Output
    BY <2>1 DEF BadUsage, Unknown, BadPredicate, Header, Chosen, Passing, Passes, Output, Project, Record
  <2> QED
    BY <2>1, <2>2, <2>3 DEF CsvInv, CsvTypeOK
<1>11. CASE UNCHANGED csvVars
  <2>1. UNCHANGED csvVars
    BY <1>11
  <2>2. /\ (BadUsage' <=> BadUsage) /\ (Unknown' <=> Unknown) /\ (BadPredicate' <=> BadPredicate)
        /\ Chosen' = Chosen /\ Passing' = Passing /\ Output' = Output /\ CsvTypeOK' = CsvTypeOK
    BY <2>1 DEF csvVars, BadUsage, Unknown, BadPredicate, Header, Chosen, Passing, Passes, Output,
                Project, Record, CsvTypeOK
  <2> QED
    BY <2>1, <2>2 DEF csvVars, CsvInv
<1> QED
  BY <1>2, <1>3, <1>4, <1>5, <1>6, <1>7, <1>8, <1>9, <1>10, <1>11 DEF CsvNext

(* What a predicate keeps, row by row. *)
LEMMA KeptRows ==
  ASSUME CsvInv, csvStep = "ended", csvExit = 0
  PROVE  /\ kept \in Seq(Seq(TextCells))
         /\ \A i \in 2 .. Len(rows) :
              /\ rows[i] \in Seq(TextCells)
              /\ (\E k \in DOMAIN kept : kept[k] = rows[i]) <=> Passes(rows[i])
<1>1. ~BadUsage /\ ~Unknown /\ kept = Keep(Tail(rows), Passing)
  BY DEF CsvInv
<1>2. rows \in Seq(Seq(TextCells)) /\ rows # <<>>
  BY <1>1, HeaderIsRead DEF CsvInv, CsvTypeOK
<1>3. /\ Tail(rows) \in Seq(Seq(TextCells)) /\ Len(rows) \in Nat /\ DOMAIN rows = 1 .. Len(rows)
      /\ Len(Tail(rows)) = Len(rows) - 1
      /\ \A i \in DOMAIN Tail(rows) : Tail(rows)[i] = rows[i + 1]
  BY <1>2, TailShifts
<1>4. kept \in Seq(Seq(TextCells)) /\ Held(kept) = Held(Tail(rows)) \cap Passing
  BY <1>1, <1>3, KeepHolds
<1>5. ASSUME NEW i \in 2 .. Len(rows)
      PROVE  /\ rows[i] \in Seq(TextCells)
             /\ (\E k \in DOMAIN kept : kept[k] = rows[i]) <=> Passes(rows[i])
  <2>1. i - 1 \in DOMAIN Tail(rows) /\ i \in DOMAIN rows
    <3>1. DOMAIN Tail(rows) = 1 .. Len(rows) - 1
      BY <1>3, Positions
    <3> QED
      BY <1>3, <3>1
  <2>2. Tail(rows)[i - 1] = rows[i]
    BY <1>3, <2>1
  <2>3. rows[i] \in Held(Tail(rows)) /\ rows[i] \in Seq(TextCells)
    BY <1>2, <2>1, <2>2, Positions DEF Held
  <2>4. rows[i] \in Held(kept) <=> Passes(rows[i])
    BY <1>4, <2>3 DEF Passing
  <2>5. rows[i] \in Held(kept) <=> \E k \in DOMAIN kept : kept[k] = rows[i]
    BY DEF Held
  <2> QED
    BY <2>3, <2>4, <2>5
<1> QED
  BY <1>4, <1>5

(* The rows a predicate divides. *)
LEMMA RowsDivided ==
  ASSUME CsvInv, csvStep = "ended", csvExit = 0, command.where.op # "none"
  PROVE  LET op == command.where.op
             cell(row) == Cell(row, Column(Header, command.where.column))
             passes(row) == \E k \in DOMAIN kept : kept[k] = row
         IN  \A i \in 2 .. Len(rows) :
                IF Undecided(cell(rows[i]), command.where.value)
                THEN passes(rows[i]) <=> op = "!="
                ELSE passes(rows[i]) # Compare(cell(rows[i]), Opposite[op], command.where.value)
<1> DEFINE op == command.where.op
           value == command.where.value
           cell(row) == Cell(row, Column(Header, command.where.column))
           passes(row) == \E k \in DOMAIN kept : kept[k] = row
<1>1. op \in Comparisons /\ value \in TextCells
  <2>1. command.where \in Wheres /\ op # "broken"
    BY DEF CsvInv, Commands, BadPredicate
  <2> QED
    BY <2>1, CsvAssumption
<1>2. ASSUME NEW i \in 2 .. Len(rows)
      PROVE  IF Undecided(cell(rows[i]), value) THEN passes(rows[i]) <=> op = "!="
             ELSE passes(rows[i]) # Compare(cell(rows[i]), Opposite[op], value)
  <2>1. rows[i] \in Seq(TextCells) /\ (passes(rows[i]) <=> Passes(rows[i]))
    BY KeptRows
  <2>2. cell(rows[i]) \in TextCells
    BY <2>1, CsvAssumption, Positions DEF Cell
  <2>3. Passes(rows[i]) <=> Compare(cell(rows[i]), op, value)
    BY DEF Passes
  <2> HIDE DEF cell, passes, op, value
  <2>4. IF Undecided(cell(rows[i]), value) THEN Compare(cell(rows[i]), op, value) <=> op = "!="
        ELSE Compare(cell(rows[i]), op, value) <=> ~Compare(cell(rows[i]), Opposite[op], value)
    BY <1>1, <2>2, CompareDivides
  <2>5. passes(rows[i]) \in BOOLEAN /\ Compare(cell(rows[i]), Opposite[op], value) \in BOOLEAN
    BY DEF passes, Compare, Ordered
  <2>6. passes(rows[i]) <=> Compare(cell(rows[i]), op, value)
    BY <2>1, <2>3
  <2> HIDE DEF passes
  <2> QED
    BY <2>4, <2>5, <2>6
<1> QED
  BY <1>2

(* Under a name, an object holds the cell of the last column of that name. *)
LEMMA ObjectsHold ==
  ASSUME CsvInv, csvStep = "ended", csvExit = 0,
         NEW row, NEW k \in DOMAIN indices,
         \A j \in DOMAIN indices : Header[indices[j]] = Header[indices[k]] => j <= k
  PROVE  Record(row)[Header[indices[k]]] = Project(row)[k]
<1> DEFINE name(j) == rows[1][indices[j]]
           LastOf(n, j) == name(j) = n /\ \A i \in DOMAIN indices : name(i) = n => i <= j
<1>1. Header = rows[1] /\ DOMAIN indices \subseteq Nat
  <2>1. ~BadUsage /\ ~Unknown /\ indices = Chosen
    BY DEF CsvInv
  <2>2. Header = rows[1] /\ command.spec \in Seq(TextCells)
    BY <2>1, HeaderIsRead DEF CsvInv, CsvTypeOK
  <2>3. DOMAIN indices = 1 .. Len(command.spec)
    BY <2>1, <2>2, Positions DEF Chosen
  <2> QED
    BY <2>2, <2>3
<1>2. LastOf(name(k), k)
  BY <1>1
<1>3. \A j \in DOMAIN indices : LastOf(name(k), j) => j = k
  <2> SUFFICES ASSUME NEW j \in DOMAIN indices, LastOf(name(k), j) PROVE j = k
    OBVIOUS
  <2>1. j <= k /\ k <= j
    BY <1>2
  <2> QED
    BY <1>1, <2>1
<1>4. (CHOOSE j \in DOMAIN indices : LastOf(name(k), j)) = k
  <2> HIDE DEF LastOf
  <2> QED
    BY <1>2, <1>3
<1>5. Record(row)[name(k)] = Cell(row, indices[CHOOSE j \in DOMAIN indices : LastOf(name(k), j)])
  BY DEF Record
<1> QED
  BY <1>1, <1>4, <1>5 DEF Project

(***************************************************************************)
(* What a selection means (csvlite/cli.py): each row passes exactly one of *)
(* a predicate and its opposite, NaN aside, a line is printed for each row *)
(* kept, an object holds the last column of a name, and a command that     *)
(* fails prints nothing. For any texts, numbers, tables, column arguments  *)
(* and predicates.                                                         *)
(***************************************************************************)
THEOREM SelectionsMean == CsvSpec => [](CsvTypeOK /\ SelectionMeans)
<1>1. CsvInv => SelectionMeans
  <2> SUFFICES ASSUME CsvInv, csvStep = "ended"
               PROVE  SelectionMeans
    BY DEF SelectionMeans
  <2>1. (csvExit # 0 => printed = <<>>) /\ (csvExit = 2 <=> BadUsage) /\ (csvExit = 5 => Unknown \/ BadPredicate)
    BY DEF CsvInv
  <2>2. csvExit = 0 => Len(printed) = Len(kept) + (IF command.json THEN 0 ELSE 1)
    <3> SUFFICES ASSUME csvExit = 0
                 PROVE  Len(printed) = Len(kept) + (IF command.json THEN 0 ELSE 1)
      OBVIOUS
    <3>1. printed = Output /\ kept \in Seq(Seq(TextCells)) /\ command.json \in BOOLEAN
      BY KeptRows DEF CsvInv, Commands
    <3>2. Len(kept) \in Nat /\ DOMAIN kept = 1 .. Len(kept)
      BY <3>1, Positions
    <3>3. CASE command.json
      <4>1. printed = [k \in 1 .. Len(kept) |-> Record(kept[k])]
        BY <3>1, <3>2, <3>3 DEF Output
      <4> QED
        BY <3>2, <3>3, <4>1
    <3>4. CASE ~command.json
      <4> DEFINE body == [k \in 1 .. Len(kept) |-> Project(kept[k])]
                 Lines == {Project(Header)} \cup {body[k] : k \in 1 .. Len(kept)}
      <4>1. printed = <<Project(Header)>> \o body
        BY <3>1, <3>2, <3>4 DEF Output
      <4>2. body \in Seq(Lines) /\ Len(body) = Len(kept)
        BY <3>2
      <4>3. <<Project(Header)>> \in Seq(Lines) /\ Len(<<Project(Header)>>) = 1
        OBVIOUS
      <4> HIDE DEF body, Lines
      <4>4. Len(printed) = 1 + Len(kept)
        BY <4>1, <4>2, <4>3, ConcatGrows
      <4> QED
        BY <3>2, <3>4, <4>4
    <3> QED
      BY <3>3, <3>4
  <2>3. csvExit = 0 /\ command.json =>
          \A i \in DOMAIN kept, k \in DOMAIN indices :
              (\A j \in DOMAIN indices : Header[indices[j]] = Header[indices[k]] => j <= k)
                  => printed[i][Header[indices[k]]] = Project(kept[i])[k]
    <3> SUFFICES ASSUME csvExit = 0, command.json, NEW i \in DOMAIN kept, NEW k \in DOMAIN indices,
                        \A j \in DOMAIN indices : Header[indices[j]] = Header[indices[k]] => j <= k
                 PROVE  printed[i][Header[indices[k]]] = Project(kept[i])[k]
      OBVIOUS
    <3>1. printed[i] = Record(kept[i])
      BY DEF CsvInv, Output
    <3> QED
      BY <3>1, ObjectsHold
  <2>4. csvExit = 0 /\ command.where.op # "none" =>
          LET op == command.where.op
              cell(row) == Cell(row, Column(Header, command.where.column))
              passes(row) == \E k \in DOMAIN kept : kept[k] = row
          IN  \A i \in 2 .. Len(rows) :
                 IF Undecided(cell(rows[i]), command.where.value)
                 THEN passes(rows[i]) <=> op = "!="
                 ELSE passes(rows[i]) # Compare(cell(rows[i]), Opposite[op], command.where.value)
    BY RowsDivided
  <2> QED
    BY <2>1, <2>2, <2>3, <2>4 DEF SelectionMeans
<1>2. CsvInv => CsvTypeOK
  BY DEF CsvInv
<1> QED
  BY <1>1, <1>2, CsvBegins, CsvGoesOn, PTL DEF CsvSpec

-----------------------------------------------------------------------------
(* specledger *)

(* A finding about each of S: none when there is nothing in S. *)
LEMMA WrongSays ==
  ASSUME NEW check, NEW what, NEW S
  PROVE  /\ Wrong(check, what, S) = {} <=> S = {}
         /\ \A v \in Wrong(check, what, S) : v[1] = check /\ v[2] = what /\ v[3] \in S
         /\ \A x \in S : <<check, what, x>> \in Wrong(check, what, S)
<1>1. Wrong(check, what, S) = {<<check, what, x>> : x \in S}
  BY DEF Wrong
<1>2. \A v \in Wrong(check, what, S) : \E x \in S : v = <<check, what, x>>
  BY <1>1
<1>3. \A v \in Wrong(check, what, S) : v[1] = check /\ v[2] = what /\ v[3] \in S
  BY <1>2
<1>4. \A x \in S : <<check, what, x>> \in Wrong(check, what, S)
  BY <1>1
<1>5. Wrong(check, what, S) = {} <=> S = {}
  BY <1>3, <1>4
<1> QED
  BY <1>3, <1>4, <1>5

(* A finite set of naturals has a least and a largest. *)
LEMMA Extremes ==
  ASSUME NEW S, IsFiniteSet(S), S # {}, S \subseteq Nat
  PROVE  /\ Min(S) \in S /\ \A x \in S : Min(S) <= x
         /\ Max(S) \in S /\ \A x \in S : x <= Max(S)
<1>1. \E m \in S : \A x \in S : m <= x
  BY LeastNatural
<1>2. Min(S) \in S /\ \A x \in S : Min(S) <= x
  BY <1>1, Zenon DEF Min
<1>3. \E m \in S : \A x \in S : x <= m
  <2> DEFINE n == Cardinality(S)
  <2>1. n \in Nat /\ ExistsBijection(1 .. n, S)
    BY FS_CardinalityType
  <2>2. PICK f \in Bijection(1 .. n, S) : TRUE
    BY <2>1 DEF ExistsBijection
  <2>3. f \in [1 .. n -> S] /\ \A x \in S : \E i \in 1 .. n : f[i] = x
    BY <2>2 DEF Bijection, Injection, Surjection
  <2>4. n # 0
    BY <2>1, FS_EmptySet
  <2>5. PICK m \in 1 .. n : \A i \in 1 .. n : f[i] <= f[m]
    <3>1. n \in Nat \ {0} /\ \A i \in 1 .. n : f[i] \in Nat
      BY <2>1, <2>3, <2>4
    <3> HIDE DEF n
    <3> QED
      BY <3>1, LargestValue
  <2>6. f[m] \in S /\ \A x \in S : x <= f[m]
    BY <2>3, <2>5
  <2> QED
    BY <2>6
<1>4. \E m \in S : \A x \in S : m >= x
  BY <1>3
<1>5. Max(S) \in S /\ \A x \in S : Max(S) >= x
  BY <1>4, Zenon DEF Max
<1>6. Max(S) \in Nat
  BY <1>5
<1> QED
  BY <1>2, <1>5, <1>6

(* Files and their numbers. *)
LEMMA FilesToNumbers ==
  ASSUME NEW files, Directory(files), Numbered(files) = files
  PROVE  LET N == Numbers(files)
             b == [f \in files |-> f.number]
         IN  /\ N \subseteq Nat
             /\ b \in Surjection(files, N)
             /\ IsFiniteSet(N)
             /\ files = {} <=> N = {}
             /\ Cardinality(files) \in Nat
             /\ Cardinality(N) = Cardinality(files) <=> \A f, g \in files : f.number = g.number => f = g
<1> DEFINE N == Numbers(files)
           b == [f \in files |-> f.number]
<1>1. N = {f.number : f \in files}
  BY DEF Numbers
<1>2. b \in Surjection(files, N)
  BY <1>1 DEF Surjection
<1>3. IsFiniteSet(files) /\ N \subseteq Nat
  BY <1>1 DEF Directory
<1>4. b \in Injection(files, N) <=> \A f, g \in files : f.number = g.number => f = g
  BY <1>1 DEF Injection, IsInjective
<1> HIDE DEF b, N
<1>5. IsFiniteSet(N) /\ (Cardinality(N) = Cardinality(files) <=> b \in Injection(files, N))
  BY <1>2, <1>3, FS_Surjection
<1>6. Cardinality(files) \in Nat
  BY <1>3, FS_CardinalityType
<1> QED
  BY <1>1, <1>2, <1>3, <1>4, <1>5, <1>6 DEF N, b

(* A number that two files share. *)
LEMMA SharedNumber ==
  ASSUME NEW files, IsFiniteSet(files), NEW n
  PROVE  Cardinality({f \in files : f.number = n}) > 1 <=>
           \E f, g \in files : f # g /\ f.number = n /\ g.number = n
<1> DEFINE S == {f \in files : f.number = n}
<1>1. IsFiniteSet(S) /\ Cardinality(S) \in Nat
  BY FS_Subset, FS_CardinalityType
<1>2. ASSUME NEW f \in S, NEW g \in S, f # g
      PROVE  Cardinality(S) > 1
  <2>1. /\ IsFiniteSet({f}) /\ Cardinality({f}) = 1 /\ {f} \in SUBSET S /\ {f} # S
    BY <1>2, FS_Singleton
  <2> HIDE DEF S
  <2>2. Cardinality({f}) <= Cardinality(S) /\ Cardinality(S) # Cardinality({f})
    BY <1>1, <2>1, FS_Subset
  <2> QED
    BY <1>1, <2>1, <2>2
<1>3. ASSUME Cardinality(S) > 1
      PROVE  \E f, g \in S : f # g
  <2> SUFFICES ASSUME \A f, g \in S : f = g PROVE FALSE
    OBVIOUS
  <2> HIDE DEF S
  <2>1. CASE S = {}
    BY <1>3, <2>1, FS_EmptySet
  <2>2. CASE S # {}
    <3>1. PICK f : S = {f}
      BY <2>2
    <3>2. Cardinality(S) = 1
      BY <3>1, FS_Singleton
    <3> QED
      BY <1>3, <3>2
  <2> QED
    BY <2>1, <2>2
<1> QED
  BY <1>2, <1>3

(* What the check of the migrations finds nothing wrong with. *)
LEMMA ContiguityClean ==
  ASSUME NEW files, files # Absent
  PROVE  Contiguity(files) = {} <=>
           LET N == Numbers(files)
           IN  /\ Numbered(files) = files
               /\ \A f \in files : f.digits = Padded(f.number)
               /\ N # {}
               /\ \A n \in N : ~(Cardinality({f \in files : f.number = n}) > 1)
               /\ Min(N) = 1
               /\ Min(N) .. Max(N) \subseteq N
<1> DEFINE N == Numbers(files)
           M == "migrations"
           A == files \ Numbered(files)
           B == {f \in Numbered(files) : f.digits # Padded(f.number)}
           C == {n \in N : Cardinality({f \in Numbered(files) : f.number = n}) > 1}
           D == {Min(N)} \ {1}
           G == (Min(N) .. Max(N)) \ N
           Rest == IF N = {} THEN {<<M, "none", "">>}
                   ELSE Wrong(M, "twice", C) \cup Wrong(M, "start", D) \cup Wrong(M, "gap", G)
<1>1. Contiguity(files) = Wrong(M, "no prefix", A) \cup Wrong(M, "not padded", B) \cup Rest
  BY DEF Contiguity
<1>2. /\ Wrong(M, "no prefix", A) = {} <=> A = {}
      /\ Wrong(M, "not padded", B) = {} <=> B = {}
      /\ Wrong(M, "twice", C) = {} <=> C = {}
      /\ Wrong(M, "start", D) = {} <=> D = {}
      /\ Wrong(M, "gap", G) = {} <=> G = {}
  <2> HIDE DEF A, B, C, D, G
  <2> QED
    BY WrongSays
<1>3. Numbered(files) \subseteq files
  BY DEF Numbered
<1>4. Rest = {} <=> N # {} /\ C = {} /\ D = {} /\ G = {}
  <2> HIDE DEF A, B, C, D, G, N
  <2> QED
    BY <1>2
<1>5. Contiguity(files) = {} <=> A = {} /\ B = {} /\ N # {} /\ C = {} /\ D = {} /\ G = {}
  <2> HIDE DEF A, B, C, D, G, N, Rest
  <2> QED
    BY <1>1, <1>2, <1>4
<1>6. A = {} <=> Numbered(files) = files
  BY <1>3
<1>7. Numbered(files) = files => /\ B = {} <=> \A f \in files : f.digits = Padded(f.number)
                                 /\ C = {} <=> \A n \in N : ~(Cardinality({f \in files : f.number = n}) > 1)
  OBVIOUS
<1>8. (D = {} <=> Min(N) = 1) /\ (G = {} <=> Min(N) .. Max(N) \subseteq N)
  OBVIOUS
<1> HIDE DEF A, B, C, D, G
<1>9. Contiguity(files) = {} =>
        /\ Numbered(files) = files
        /\ \A f \in files : f.digits = Padded(f.number)
        /\ N # {}
        /\ \A n \in N : ~(Cardinality({f \in files : f.number = n}) > 1)
        /\ Min(N) = 1
        /\ Min(N) .. Max(N) \subseteq N
  <2> SUFFICES ASSUME Contiguity(files) = {}
               PROVE  /\ Numbered(files) = files
                      /\ \A f \in files : f.digits = Padded(f.number)
                      /\ N # {}
                      /\ \A n \in N : ~(Cardinality({f \in files : f.number = n}) > 1)
                      /\ Min(N) = 1
                      /\ Min(N) .. Max(N) \subseteq N
    OBVIOUS
  <2>1. A = {} /\ B = {} /\ N # {} /\ C = {} /\ D = {} /\ G = {}
    BY <1>5
  <2>2. Numbered(files) = files /\ Min(N) = 1 /\ Min(N) .. Max(N) \subseteq N
    BY <1>6, <1>8, <2>1, Zenon
  <2>3. \A f \in files : f.digits = Padded(f.number)
    BY <1>7, <2>1, <2>2, Zenon
  <2>4. \A n \in N : ~(Cardinality({f \in files : f.number = n}) > 1)
    BY <1>7, <2>1, <2>2, Zenon
  <2> QED
    BY <2>1, <2>2, <2>3, <2>4, Zenon
<1>10. /\ Numbered(files) = files
       /\ \A f \in files : f.digits = Padded(f.number)
       /\ N # {}
       /\ \A n \in N : ~(Cardinality({f \in files : f.number = n}) > 1)
       /\ Min(N) = 1
       /\ Min(N) .. Max(N) \subseteq N
       => Contiguity(files) = {}
  BY <1>5, <1>6, <1>7, <1>8, Zenon
<1> QED
  BY <1>9, <1>10, Zenon

(* The check passes exactly the directories, not empty, that the runner reads. *)
LEMMA ContiguityMeans ==
  ASSUME NEW files, files # Absent, Directory(files), ~ReadDifferently(files)
  PROVE  Contiguity(files) = {} <=> Discovers(files) /\ files # {}
<1> DEFINE N == Numbers(files)
<1>0. PadWidth \in Nat /\ PadWidth > 0
  BY LedgerAssumption
<1>1. \A f \in files : /\ f.stem # "" /\ f.digits \in Nat /\ f.digits <= PadWidth /\ f.number \in Nat
                       /\ f.digits > 0 => Width[f.number] <= f.digits
  <2> SUFFICES ASSUME NEW f \in files
               PROVE  /\ f.stem # "" /\ f.digits \in Nat /\ f.digits <= PadWidth /\ f.number \in Nat
                      /\ f.digits > 0 => Width[f.number] <= f.digits
    OBVIOUS
  <2>1. f.stem # "" /\ ~(f.digits > PadWidth)
    BY DEF ReadDifferently
  <2>2. f.digits \in Nat /\ f.number \in Nat /\ (f.digits > 0 => Width[f.number] <= f.digits)
    BY DEF Directory
  <2>3. f.digits <= PadWidth
    <3>1. \A d, p \in Nat : ~(d > p) => d <= p
      OBVIOUS
    <3> QED
      BY <1>0, <2>1, <2>2, <3>1, Zenon
  <2> QED
    BY <2>1, <2>2, <2>3, Zenon
<1>2. \A f \in files : f.digits > 0 => (f.digits = Padded(f.number) <=> f.digits = PadWidth)
  <2> SUFFICES ASSUME NEW f \in files, f.digits > 0
               PROVE  f.digits = Padded(f.number) <=> f.digits = PadWidth
    OBVIOUS
  <2>1. /\ f.digits \in Nat /\ f.digits <= PadWidth /\ Width[f.number] <= f.digits
    BY <1>1
  <2>2. Padded(f.number) = IF Width[f.number] <= PadWidth THEN PadWidth ELSE Width[f.number]
    BY DEF Padded
  <2> QED
    BY <2>1, <2>2, Zenon
<1>3. ASSUME Contiguity(files) = {}
      PROVE  Discovers(files) /\ files # {}
  <2>1. /\ Numbered(files) = files
        /\ \A f \in files : f.digits = Padded(f.number)
        /\ N # {} /\ Min(N) = 1 /\ Min(N) .. Max(N) \subseteq N
        /\ \A n \in N : ~(Cardinality({f \in files : f.number = n}) > 1)
    BY <1>3, ContiguityClean
  <2>2. \A f \in files : f.digits = PadWidth
    BY <1>2, <2>1 DEF Numbered
  <2>3. \A f, g \in files : f.number = g.number => f = g
    <3> SUFFICES ASSUME NEW f \in files, NEW g \in files, f.number = g.number, f # g
                 PROVE  FALSE
      OBVIOUS
    <3>1. f.number \in N
      BY <2>1 DEF Numbers
    <3>2. IsFiniteSet(files) /\ ~(Cardinality({h \in files : h.number = f.number}) > 1)
      BY <2>1, <3>1 DEF Directory
    <3> QED
      BY <3>2, SharedNumber
  <2>4. /\ N \subseteq Nat /\ IsFiniteSet(N) /\ Cardinality(N) = Cardinality(files)
        /\ files # {}
    BY <2>1, <2>3, FilesToNumbers
  <2>5. N = 1 .. Max(N) /\ Max(N) \in Nat
    <3> HIDE DEF N
    <3>1. /\ Max(N) \in N /\ Max(N) \in Nat
          /\ \A x \in N : x \in Nat /\ 1 <= x /\ x <= Max(N)
      BY <2>1, <2>4, Extremes
    <3>2. N \subseteq 1 .. Max(N)
      BY <3>1
    <3> QED
      BY <2>1, <3>1, <3>2
  <2>6. Cardinality(N) = Max(N)
    <3>1. Cardinality(1 .. Max(N)) = IF 1 > Max(N) THEN 0 ELSE Max(N) - 1 + 1
      <4>1. 1 \in Int /\ Max(N) \in Int
        BY <2>5
      <4> QED
        BY <4>1, FS_Interval, Zenon
    <3> HIDE DEF N
    <3> QED
      BY <2>5, <3>1
  <2> QED
    BY <1>1, <2>2, <2>4, <2>5, <2>6 DEF Discovers
<1>4. ASSUME Discovers(files), files # {}
      PROVE  Contiguity(files) = {}
  <2> DEFINE k == Cardinality(files)
  <2>1. /\ \A f \in files : f.digits = PadWidth /\ f.digits > 0
        /\ Cardinality(N) = k /\ N = 1 .. k
    BY <1>0, <1>4 DEF Discovers
  <2>2. Numbered(files) = files /\ \A f \in files : f.digits = Padded(f.number)
    BY <1>2, <2>1 DEF Numbered
  <2>3. /\ IsFiniteSet(N) /\ N \subseteq Nat /\ N # {} /\ k \in Nat
        /\ \A f, g \in files : f.number = g.number => f = g
    BY <1>4, <2>1, <2>2, FilesToNumbers
  <2>4. Min(N) = 1 /\ Max(N) = k
    <3> HIDE DEF N, k
    <3>1. /\ Min(N) \in N /\ \A x \in N : Min(N) <= x
          /\ Max(N) \in N /\ \A x \in N : x <= Max(N)
      BY <2>3, Extremes
    <3>2. 1 \in N /\ k \in N
      BY <2>1, <2>3
    <3> QED
      BY <2>1, <2>3, <3>1, <3>2
  <2>5. \A n \in N : ~(Cardinality({f \in files : f.number = n}) > 1)
    <3> SUFFICES ASSUME NEW n \in N PROVE ~(Cardinality({f \in files : f.number = n}) > 1)
      OBVIOUS
    <3>1. IsFiniteSet(files)
      BY DEF Directory
    <3>2. ~ \E f, g \in files : f # g /\ f.number = n /\ g.number = n
      BY <2>3
    <3> QED
      BY <3>1, <3>2, SharedNumber, Zenon
  <2> QED
    BY <2>1, <2>2, <2>3, <2>4, <2>5, ContiguityClean
<1> QED
  BY <1>3, <1>4

(* Every finding of S is the check's, in one of the words. *)
Speaks(S, check, words) == \A v \in S : v[1] = check /\ v[2] \in words

(* Findings speak as the words they are made with, and together as each alone. *)
LEMMA Speaking ==
  ASSUME NEW check, NEW words
  PROVE  /\ \A S : \A what \in words : Speaks(Wrong(check, what, S), check, words)
         /\ \A x : \A what \in words : Speaks({<<check, what, x>>}, check, words)
         /\ \A S, T : Speaks(S, check, words) /\ Speaks(T, check, words) => Speaks(S \cup T, check, words)
<1>1. ASSUME NEW what \in words, NEW S
      PROVE  Speaks(Wrong(check, what, S), check, words)
  <2>1. \A v \in Wrong(check, what, S) : v[1] = check /\ v[2] = what
    BY WrongSays
  <2> QED
    BY <2>1, Zenon DEF Speaks
<1>2. ASSUME NEW what \in words, NEW x
      PROVE  Speaks({<<check, what, x>>}, check, words)
  BY DEF Speaks
<1>3. \A S, T : Speaks(S, check, words) /\ Speaks(T, check, words) => Speaks(S \cup T, check, words)
  BY Zenon DEF Speaks
<1> QED
  BY <1>1, <1>2, <1>3, Zenon

MigrationWords == {"no directory", "no prefix", "not padded", "none", "twice", "start", "gap"}
EventWords == {"unreadable", "not dispatched", "not registered", "no tiles", "unhandled"}
ChangelogWords == {"no changelog", "no repository", "unresolved"}
TileWords == {"unreadable", "no manifest in the spec", "not in the spec", "not in the manifest",
              "no app", "not rendered"}

(* Each check names itself in what it finds, and says one of its own words. *)
LEMMA MigrationsSpeak ==
  ASSUME NEW files
  PROVE  Speaks(Contiguity(files), "migrations", MigrationWords)
<1> DEFINE M == "migrations"
           W == MigrationWords
           N == Numbers(files)
           A == Wrong(M, "no prefix", files \ Numbered(files))
           B == Wrong(M, "not padded", {f \in Numbered(files) : f.digits # Padded(f.number)})
           C == Wrong(M, "twice", {n \in N : Cardinality({f \in Numbered(files) : f.number = n}) > 1})
           D == Wrong(M, "start", {Min(N)} \ {1})
           G == Wrong(M, "gap", (Min(N) .. Max(N)) \ N)
           None == {<<M, "none", "">>}
           Lost == {<<M, "no directory", "">>}
           Rest == IF N = {} THEN None ELSE C \cup D \cup G
<1>0. {"no directory", "no prefix", "not padded", "none", "twice", "start", "gap"} \subseteq W
  BY DEF MigrationWords
<1> HIDE DEF W
<1>1. Speaks(A, M, W) /\ Speaks(B, M, W) /\ Speaks(C, M, W) /\ Speaks(D, M, W) /\ Speaks(G, M, W)
  BY <1>0, Speaking, Zenon
<1>2. Speaks(None, M, W) /\ Speaks(Lost, M, W)
  BY <1>0, Speaking, Zenon
<1>3. Contiguity(files) = IF files = Absent THEN Lost ELSE A \cup B \cup Rest
  BY DEF Contiguity
<1> HIDE DEF A, B, C, D, G, N, None, Lost, M
<1>4. Speaks(C \cup D \cup G, M, W)
  BY <1>1, Speaking, Zenon
<1>5. Speaks(Rest, M, W)
  BY <1>2, <1>4, Zenon
<1> HIDE DEF Rest
<1>6. Speaks(A \cup B \cup Rest, M, W)
  BY <1>1, <1>5, Speaking, Zenon
<1>7. Speaks(Contiguity(files), M, W)
  BY <1>2, <1>3, <1>6, Zenon
<1> QED
  BY <1>7 DEF M, W

(* What the check of the events finds in a repository it can read. *)
LEMMA EventsFind ==
  ASSUME NEW r, Absent \notin {r.registry, r.dispatch, r.tiles}
  PROVE  DispatchCoverage(r) = Wrong("events", "not dispatched", r.registry \ r.dispatch)
                               \cup Wrong("events", "not registered", r.dispatch \ r.registry)
                               \cup Wrong("events", "unhandled", r.registry \ (r.handled \cup LogOnly))
BY DEF DispatchCoverage, TileCoverage

(* The check of the events reads all it needs, or finds something. *)
LEMMA EventsRead ==
  ASSUME NEW r, DispatchCoverage(r) = {}
  PROVE  Absent \notin {r.registry, r.dispatch, r.tiles}
<1>1. CASE Absent \in {r.registry, r.dispatch}
  <2>1. DispatchCoverage(r) = {<<"events", "unreadable", "">>}
    BY <1>1 DEF DispatchCoverage
  <2> QED
    BY <2>1
<1>2. CASE Absent \notin {r.registry, r.dispatch} /\ r.tiles = Absent
  <2>1. <<"events", "no tiles", "">> \in TileCoverage(r)
    BY <1>2 DEF TileCoverage
  <2>2. <<"events", "no tiles", "">> \in DispatchCoverage(r)
    BY <1>2, <2>1 DEF DispatchCoverage
  <2> QED
    BY <2>2
<1> QED
  BY <1>1, <1>2

(* What the check of the tiles finds in a repository it can read. *)
LEMMA TilesFind ==
  ASSUME NEW r, Absent \notin {r.manifest, r.spec, r.app}, r.spec # {}
  PROVE  OrphanedTiles(r) = Wrong("tiles", "not in the spec", r.manifest \ r.spec)
                            \cup Wrong("tiles", "not in the manifest", r.spec \ r.manifest)
                            \cup Wrong("tiles", "not rendered",
                                       r.manifest \ (r.app \cup (IF r.loop THEN LoopTiles ELSE {})))
<1>1. RenderCoverage(r) = Wrong("tiles", "not rendered",
                                r.manifest \ (r.app \cup (IF r.loop THEN LoopTiles ELSE {})))
  BY Zenon DEF RenderCoverage
<1>2. Absent \notin {r.manifest, r.spec}
  OBVIOUS
<1> QED
  BY <1>1, <1>2, Zenon DEF OrphanedTiles

(* The check of the tiles reads all it needs, or finds something. *)
LEMMA TilesRead ==
  ASSUME NEW r, OrphanedTiles(r) = {}
  PROVE  Absent \notin {r.manifest, r.spec, r.app}
<1>1. CASE Absent \in {r.manifest, r.spec}
  <2>1. OrphanedTiles(r) = {<<"tiles", "unreadable", "">>}
    BY <1>1, Zenon DEF OrphanedTiles
  <2> QED
    BY <2>1
<1>2. CASE Absent \notin {r.manifest, r.spec} /\ r.spec = {}
  <2>1. OrphanedTiles(r) = {<<"tiles", "no manifest in the spec", "">>}
    BY <1>2, Zenon DEF OrphanedTiles
  <2> QED
    BY <2>1
<1>3. CASE Absent \notin {r.manifest, r.spec} /\ r.spec # {} /\ r.app = Absent
  <2> DEFINE A == Wrong("tiles", "not in the spec", r.manifest \ r.spec)
             B == Wrong("tiles", "not in the manifest", r.spec \ r.manifest)
  <2>1. RenderCoverage(r) = {<<"tiles", "no app", "">>}
    BY <1>3, Zenon DEF RenderCoverage
  <2>2. OrphanedTiles(r) = A \cup B \cup RenderCoverage(r)
    BY <1>3, Zenon DEF OrphanedTiles
  <2> HIDE DEF A, B
  <2> QED
    BY <2>1, <2>2
<1> QED
  BY <1>1, <1>2, <1>3

(* The changelog's check speaks so too, and finds nothing only where there is a changelog, and git to ask. *)
LEMMA ChangelogSpeaks ==
  ASSUME NEW r
  PROVE  /\ Speaks(ShasResolvable(r), "changelog", ChangelogWords)
         /\ ShasResolvable(r) = {} => Absent \notin {r.changelog, r.git}
<1> DEFINE M == "changelog"
           W == ChangelogWords
           A == Wrong(M, "unresolved", {sha \in r.changelog : ~Resolves(r.git, sha)})
           None == {<<M, "no changelog", "">>}
           Lost == {<<M, "no repository", "">>}
<1>0. {"no changelog", "no repository", "unresolved"} \subseteq W
  BY DEF ChangelogWords
<1> HIDE DEF W
<1>1. Speaks(A, M, W) /\ Speaks(None, M, W) /\ Speaks(Lost, M, W)
  BY <1>0, Speaking, Zenon
<1>2. ShasResolvable(r) = IF r.changelog = Absent THEN None ELSE IF r.git = Absent THEN Lost ELSE A
  BY Zenon DEF ShasResolvable
<1>3. None # {} /\ Lost # {}
  OBVIOUS
<1> HIDE DEF A, None, Lost, M
<1>4. Speaks(ShasResolvable(r), M, W)
  BY <1>1, <1>2, Zenon
<1>5. ShasResolvable(r) = {} => r.changelog # Absent /\ r.git # Absent
  BY <1>2, <1>3, Zenon
<1> QED
  BY <1>4, <1>5 DEF M, W

(* The checks of the events and the tiles speak so, whatever they can read. *)
LEMMA EventsSpeak ==
  ASSUME NEW r
  PROVE  Speaks(DispatchCoverage(r), "events", EventWords)
<1> DEFINE M == "events"
           W == EventWords
           A == Wrong(M, "not dispatched", r.registry \ r.dispatch)
           B == Wrong(M, "not registered", r.dispatch \ r.registry)
           C == Wrong(M, "unhandled", r.registry \ (r.handled \cup LogOnly))
           None == {<<M, "no tiles", "">>}
           Lost == {<<M, "unreadable", "">>}
<1>0. {"unreadable", "not dispatched", "not registered", "no tiles", "unhandled"} \subseteq W
  BY DEF EventWords
<1> HIDE DEF W
<1>1. Speaks(A, M, W) /\ Speaks(B, M, W) /\ Speaks(C, M, W) /\ Speaks(None, M, W) /\ Speaks(Lost, M, W)
  BY <1>0, Speaking, Zenon
<1>2. TileCoverage(r) = IF r.tiles = Absent THEN None ELSE C
  BY Zenon DEF TileCoverage
<1>3. DispatchCoverage(r) = IF Absent \in {r.registry, r.dispatch} THEN Lost ELSE A \cup B \cup TileCoverage(r)
  BY Zenon DEF DispatchCoverage
<1> HIDE DEF A, B, C, None, Lost, M
<1>4. Speaks(TileCoverage(r), M, W)
  BY <1>1, <1>2, Zenon
<1>5. Speaks(A \cup B \cup TileCoverage(r), M, W)
  BY <1>1, <1>4, Speaking, Zenon
<1>6. Speaks(DispatchCoverage(r), M, W)
  BY <1>1, <1>3, <1>5, Zenon
<1> QED
  BY <1>6 DEF M, W

(* The same of the tiles. *)
LEMMA TilesSpeak ==
  ASSUME NEW r
  PROVE  Speaks(OrphanedTiles(r), "tiles", TileWords)
<1> DEFINE M == "tiles"
           W == TileWords
           D == Wrong(M, "not in the spec", r.manifest \ r.spec)
           E == Wrong(M, "not in the manifest", r.spec \ r.manifest)
           F == Wrong(M, "not rendered", r.manifest \ (r.app \cup (IF r.loop THEN LoopTiles ELSE {})))
           None == {<<M, "no manifest in the spec", "">>}
           Lost == {<<M, "unreadable", "">>}
           Bare == {<<M, "no app", "">>}
<1>0. {"unreadable", "no manifest in the spec", "not in the spec", "not in the manifest", "no app",
       "not rendered"} \subseteq W
  BY DEF TileWords
<1> HIDE DEF W
<1>1. Speaks(D, M, W) /\ Speaks(E, M, W) /\ Speaks(F, M, W)
  BY <1>0, Speaking, Zenon
<1>2. Speaks(None, M, W) /\ Speaks(Lost, M, W) /\ Speaks(Bare, M, W)
  BY <1>0, Speaking, Zenon
<1>3. RenderCoverage(r) = IF r.app = Absent THEN Bare ELSE F
  BY Zenon DEF RenderCoverage
<1>4. OrphanedTiles(r) = IF Absent \in {r.manifest, r.spec} THEN Lost
                         ELSE IF r.spec = {} THEN None ELSE D \cup E \cup RenderCoverage(r)
  BY Zenon DEF OrphanedTiles
<1> HIDE DEF D, E, F, None, Lost, Bare, M
<1>5. Speaks(RenderCoverage(r), M, W)
  BY <1>1, <1>2, <1>3, Zenon
<1>6. Speaks(D \cup E \cup RenderCoverage(r), M, W)
  BY <1>1, <1>5, Speaking, Zenon
<1>7. Speaks(OrphanedTiles(r), M, W)
  BY <1>2, <1>4, <1>6, Zenon
<1> QED
  BY <1>7 DEF M, W

-----------------------------------------------------------------------------
(* The four checks, by name. *)
LEMMA CheckByCheck ==
  /\ Len(Checks) = 4
  /\ Checks[1] = "migrations" /\ Found(Checks[1]) = Contiguity(repo.files)
  /\ Checks[2] = "events" /\ Found(Checks[2]) = DispatchCoverage(repo)
  /\ Checks[3] = "changelog" /\ Found(Checks[3]) = ShasResolvable(repo)
  /\ Checks[4] = "tiles" /\ Found(Checks[4]) = OrphanedTiles(repo)
BY DEF Checks, Found

(* A finding names the check that made it. *)
LEMMA FoundNamesItsCheck ==
  \A i \in 1 .. 4 : \A v \in Found(Checks[i]) : v[1] = Checks[i]
<1>1. /\ \A v \in Contiguity(repo.files) : v[1] = "migrations"
      /\ \A v \in DispatchCoverage(repo) : v[1] = "events"
      /\ \A v \in ShasResolvable(repo) : v[1] = "changelog"
      /\ \A v \in OrphanedTiles(repo) : v[1] = "tiles"
  BY MigrationsSpeak, EventsSpeak, ChangelogSpeaks, TilesSpeak, Zenon DEF Speaks
<1>2. /\ \A v \in Found(Checks[1]) : v[1] = Checks[1]
      /\ \A v \in Found(Checks[2]) : v[1] = Checks[2]
      /\ \A v \in Found(Checks[3]) : v[1] = Checks[3]
      /\ \A v \in Found(Checks[4]) : v[1] = Checks[4]
  BY <1>1, CheckByCheck, Zenon
<1>3. \A i \in 1 .. 4 : i = 1 \/ i = 2 \/ i = 3 \/ i = 4
  OBVIOUS
<1> QED
  BY <1>2, <1>3, Zenon

(* The violations are what the checks run so far find, and the report is     *)
(* written when all have run.                                                *)
LedgerInv ==
    /\ repo \in Repositories /\ checksRun \in 0 .. 4 /\ report \in {"none", "clean", "violations"}
    /\ \A v \in violations : \E i \in 1 .. checksRun : v \in Found(Checks[i])
    /\ \A i \in 1 .. checksRun : Found(Checks[i]) \subseteq violations
    /\ report # "none" /\ repo.root => checksRun = 4
    /\ report = "clean" => violations = {} /\ checksRun = 4

(* It holds at first, and every step keeps it. *)
LEMMA LedgerInvariant == LedgerSpec => []LedgerInv
<1>1. LedgerInit => LedgerInv
  BY DEF LedgerInit, LedgerStart, LedgerInv
<1>2. LedgerInv /\ [LedgerNext]_ledgerVars => LedgerInv'
  <2> SUFFICES ASSUME LedgerInv, [LedgerNext]_ledgerVars PROVE LedgerInv'
    OBVIOUS
  <2> USE DEF LedgerInv
  <2>0. ASSUME repo' = repo
        PROVE  \A c : Found(c)' = Found(c)
    BY <2>0 DEF Found
  <2>1. CASE NoRoot
    <3>1. \A c : Found(c)' = Found(c)
      BY <2>0, <2>1 DEF NoRoot
    <3> QED
      BY <2>1, <3>1 DEF NoRoot
  <2>2. CASE RunCheck
    <3> DEFINE n == checksRun + 1
    <3>1. /\ report = "none" /\ report' = "none" /\ repo' = repo /\ checksRun < 4
          /\ violations' = violations \cup Found(Checks[n]) /\ checksRun' = n
      BY <2>2, CheckByCheck DEF RunCheck
    <3>2. /\ n \in 0 .. 4 /\ n \in 1 .. n
          /\ \A i \in 1 .. n : i \in 1 .. checksRun \/ i = n
          /\ \A i \in 1 .. checksRun : i \in 1 .. n
      BY <3>1
    <3>3. /\ \A i : Found(Checks[i])' = Found(Checks[i])
          /\ \A v \in violations : \E i \in 1 .. checksRun : v \in Found(Checks[i])
          /\ \A i \in 1 .. checksRun : Found(Checks[i]) \subseteq violations
      BY <2>0, <3>1 DEF Found, Checks
    <3> HIDE DEF n
    <3>4. \A v \in violations' : \E i \in 1 .. n : v \in Found(Checks[i])
      BY <3>1, <3>2, <3>3, Zenon
    <3>5. \A i \in 1 .. n : Found(Checks[i]) \subseteq violations'
      BY <3>1, <3>2, <3>3, Zenon
    <3> QED
      BY <3>1, <3>2, <3>3, <3>4, <3>5
  <2>3. CASE BuildReport
    <3>1. \A c : Found(c)' = Found(c)
      BY <2>0, <2>3 DEF BuildReport
    <3> QED
      BY <2>3, <3>1, CheckByCheck DEF BuildReport
  <2>4. CASE UNCHANGED ledgerVars
    <3>1. \A c : Found(c)' = Found(c)
      BY <2>0, <2>4 DEF ledgerVars
    <3> QED
      BY <2>4, <3>1 DEF ledgerVars
  <2> QED
    BY <2>1, <2>2, <2>3, <2>4 DEF LedgerNext
<1> QED
  BY <1>1, <1>2, PTL DEF LedgerSpec

(* A clean report is about a repository with every part of it. *)
LEMMA CleanReads ==
  ASSUME LedgerInv, report = "clean"
  PROVE  \A part \in DOMAIN repo : repo[part] # Absent
<1>1. \A i \in 1 .. 4 : Found(Checks[i]) = {}
  BY DEF LedgerInv
<1>2. Contiguity(repo.files) = {} /\ DispatchCoverage(repo) = {}
      /\ ShasResolvable(repo) = {} /\ OrphanedTiles(repo) = {}
  <2>1. Found(Checks[1]) = {} /\ Found(Checks[2]) = {} /\ Found(Checks[3]) = {} /\ Found(Checks[4]) = {}
    BY <1>1
  <2> QED
    BY <2>1, CheckByCheck, Zenon
<1>3. repo.files # Absent
  <2>1. CASE repo.files = Absent
    <3>1. Contiguity(repo.files) = {<<"migrations", "no directory", "">>}
      BY <2>1 DEF Contiguity
    <3> QED
      BY <1>2, <3>1
  <2> QED
    BY <2>1
<1>4. Absent \notin {repo.registry, repo.dispatch, repo.tiles}
  BY <1>2, EventsRead
<1>5. Absent \notin {repo.changelog, repo.git}
  BY <1>2, ChangelogSpeaks
<1>6. Absent \notin {repo.manifest, repo.spec, repo.app}
  BY <1>2, TilesRead
<1>7. /\ DOMAIN repo = {"root", "files", "registry", "dispatch", "tiles", "handled", "changelog",
                        "git", "manifest", "spec", "app", "loop"}
      /\ repo.root # Absent /\ repo.handled # Absent /\ repo.loop # Absent
  BY LedgerAssumption, Zenon DEF LedgerInv
<1> QED
  BY <1>3, <1>4, <1>5, <1>6, <1>7

(* What the findings of F that say the word are about. *)
Told(F, what) == {v[3] : v \in {x \in F : x[2] = what}}

(* What the report says of one word is what the check that has it finds. *)
LEMMA AboutAWord ==
  ASSUME LedgerInv, checksRun = 4
  PROVE  /\ \A what \in {"not dispatched", "not registered", "unhandled"} :
               About(what) = Told(DispatchCoverage(repo), what)
         /\ \A what \in {"not in the spec", "not in the manifest", "not rendered"} :
               About(what) = Told(OrphanedTiles(repo), what)
         /\ (\A v \in violations : v[1] # "migrations") <=> Contiguity(repo.files) = {}
<1>1. violations = Contiguity(repo.files) \cup DispatchCoverage(repo) \cup ShasResolvable(repo)
                   \cup OrphanedTiles(repo)
  <2>1. \A v \in violations : \/ v \in Found(Checks[1]) \/ v \in Found(Checks[2])
                              \/ v \in Found(Checks[3]) \/ v \in Found(Checks[4])
    BY DEF LedgerInv
  <2>2. /\ Found(Checks[1]) \subseteq violations /\ Found(Checks[2]) \subseteq violations
        /\ Found(Checks[3]) \subseteq violations /\ Found(Checks[4]) \subseteq violations
    BY DEF LedgerInv
  <2> QED
    BY <2>1, <2>2, CheckByCheck, Zenon
<1>2. /\ \A v \in Contiguity(repo.files) : v[1] = "migrations" /\ v[2] \in MigrationWords
      /\ \A v \in DispatchCoverage(repo) : v[1] = "events" /\ v[2] \in EventWords
      /\ \A v \in ShasResolvable(repo) : v[1] = "changelog" /\ v[2] \in ChangelogWords
      /\ \A v \in OrphanedTiles(repo) : v[1] = "tiles" /\ v[2] \in TileWords
  BY MigrationsSpeak, EventsSpeak, ChangelogSpeaks, TilesSpeak, Zenon DEF Speaks
<1>3. ASSUME NEW what \in {"not dispatched", "not registered", "unhandled"}
      PROVE  {x \in violations : x[2] = what} = {x \in DispatchCoverage(repo) : x[2] = what}
  <2>1. what \notin MigrationWords /\ what \notin ChangelogWords /\ what \notin TileWords
    BY DEF MigrationWords, ChangelogWords, TileWords
  <2> QED
    BY <1>1, <1>2, <2>1, Zenon
<1>4. ASSUME NEW what \in {"not in the spec", "not in the manifest", "not rendered"}
      PROVE  {x \in violations : x[2] = what} = {x \in OrphanedTiles(repo) : x[2] = what}
  <2>1. what \notin MigrationWords /\ what \notin ChangelogWords /\ what \notin EventWords
    BY DEF MigrationWords, ChangelogWords, EventWords
  <2> QED
    BY <1>1, <1>2, <2>1, Zenon
<1>5. (\A v \in violations : v[1] # "migrations") <=> Contiguity(repo.files) = {}
  BY <1>1, <1>2
<1> QED
  BY <1>3, <1>4, <1>5, Zenon DEF About, Told

(* What the findings of one word are about. *)
LEMMA Thirds ==
  ASSUME NEW check, NEW what, NEW S
  PROVE  {v[3] : v \in Wrong(check, what, S)} = S
<1> DEFINE W == Wrong(check, what, S)
<1>1. \A v \in W : v[3] \in S
  BY WrongSays
<1>2. \A x \in S : \E v \in W : v[3] = x
  <2> SUFFICES ASSUME NEW x \in S PROVE \E v \in W : v[3] = x
    OBVIOUS
  <2>1. <<check, what, x>> \in W /\ <<check, what, x>>[3] = x
    BY WrongSays
  <2> QED
    BY <2>1, Zenon
<1> HIDE DEF W
<1>3. {v[3] : v \in W} \subseteq S
  BY <1>1
<1>4. S \subseteq {v[3] : v \in W}
  BY <1>2
<1>5. {v[3] : v \in W} = S
  BY <1>3, <1>4
<1> QED
  BY <1>5 DEF W

(* What was found wrong can be taken apart by its word. *)
LEMMA OneWord ==
  ASSUME NEW check, NEW a, NEW b, NEW c, a # b, b # c, a # c, NEW A, NEW B, NEW C,
         NEW F, F = Wrong(check, a, A) \cup Wrong(check, b, B) \cup Wrong(check, c, C)
  PROVE  Told(F, a) = A /\ Told(F, b) = B /\ Told(F, c) = C
<1> DEFINE WA == Wrong(check, a, A)
           WB == Wrong(check, b, B)
           WC == Wrong(check, c, C)
<1>1. \A v \in WA : v[2] = a /\ v[3] \in A
  BY WrongSays
<1>2. \A v \in WB : v[2] = b /\ v[3] \in B
  BY WrongSays
<1>3. \A v \in WC : v[2] = c /\ v[3] \in C
  BY WrongSays
<1> HIDE DEF WA, WB, WC
<1>8. F = WA \cup WB \cup WC
  BY DEF WA, WB, WC
<1>9. {x \in F : x[2] = a} = WA /\ {x \in F : x[2] = b} = WB /\ {x \in F : x[2] = c} = WC
  BY <1>1, <1>2, <1>3, <1>8
<1>10. {v[3] : v \in WA} = A /\ {v[3] : v \in WB} = B /\ {v[3] : v \in WC} = C
  BY Thirds DEF WA, WB, WC
<1> QED
  BY <1>9, <1>10 DEF Told

(* What the checks of the events and of the tiles tell, where they can read. *)
LEMMA EventsTold ==
  ASSUME NEW r, Absent \notin {r.registry, r.dispatch, r.tiles}
  PROVE  /\ Told(DispatchCoverage(r), "not dispatched") = r.registry \ r.dispatch
         /\ Told(DispatchCoverage(r), "not registered") = r.dispatch \ r.registry
         /\ Told(DispatchCoverage(r), "unhandled") = r.registry \ (r.handled \cup LogOnly)
<1> DEFINE a == "not dispatched"
           b == "not registered"
           c == "unhandled"
           A == r.registry \ r.dispatch
           B == r.dispatch \ r.registry
           C == r.registry \ (r.handled \cup LogOnly)
<1>1. a # b /\ b # c /\ a # c
  OBVIOUS
<1>2. DispatchCoverage(r) = Wrong("events", a, A) \cup Wrong("events", b, B) \cup Wrong("events", c, C)
  BY EventsFind
<1> HIDE DEF a, b, c, A, B, C
<1>3. Told(DispatchCoverage(r), a) = A /\ Told(DispatchCoverage(r), b) = B /\ Told(DispatchCoverage(r), c) = C
  BY <1>1, <1>2, OneWord
<1> QED
  BY <1>3 DEF a, b, c, A, B, C

(* The same of the tiles. *)
LEMMA TilesTold ==
  ASSUME NEW r, Absent \notin {r.manifest, r.spec, r.app}, r.spec # {}
  PROVE  /\ Told(OrphanedTiles(r), "not in the spec") = r.manifest \ r.spec
         /\ Told(OrphanedTiles(r), "not in the manifest") = r.spec \ r.manifest
         /\ Told(OrphanedTiles(r), "not rendered") = r.manifest \ (r.app \cup (IF r.loop THEN LoopTiles ELSE {}))
<1> DEFINE a == "not in the spec"
           b == "not in the manifest"
           c == "not rendered"
           A == r.manifest \ r.spec
           B == r.spec \ r.manifest
           C == r.manifest \ (r.app \cup (IF r.loop THEN LoopTiles ELSE {}))
<1>1. a # b /\ b # c /\ a # c
  OBVIOUS
<1>2. OrphanedTiles(r) = Wrong("tiles", a, A) \cup Wrong("tiles", b, B) \cup Wrong("tiles", c, C)
  BY TilesFind
<1> HIDE DEF a, b, c, A, B, C
<1>3. Told(OrphanedTiles(r), a) = A /\ Told(OrphanedTiles(r), b) = B /\ Told(OrphanedTiles(r), c) = C
  BY <1>1, <1>2, OneWord
<1> QED
  BY <1>3 DEF a, b, c, A, B, C

(* The reports of specledger can be relied on, and say what to repair.       *)
(* For every set of repositories: the migration runner reads exactly the     *)
(* directories, not empty, that the check passes, and the lists agree once   *)
(* what the report names is added or dropped.                                *)
THEOREM LedgersMean == LedgerSpec => [](LedgerTypeOK /\ LedgerMeans)
<1>1. LedgerInv => LedgerTypeOK
  <2> SUFFICES ASSUME LedgerInv PROVE LedgerTypeOK
    OBVIOUS
  <2>1. \A i \in 1 .. checksRun : i \in 1 .. 4
    BY DEF LedgerInv
  <2>2. \A v \in violations : \E i \in 1 .. checksRun : v[1] = Checks[i]
    BY <2>1, FoundNamesItsCheck, Zenon DEF LedgerInv
  <2> QED
    BY <2>2, CheckByCheck DEF LedgerInv, LedgerTypeOK
<1>2. LedgerInv => LedgerMeans
  <2> SUFFICES ASSUME LedgerInv, report # "none", repo.root
               PROVE  /\ report = "clean" => \A part \in DOMAIN repo : repo[part] # Absent
                      /\ repo.files # Absent /\ ~ReadDifferently(repo.files) =>
                            ((\A v \in violations : v[1] # "migrations")
                               <=> Discovers(repo.files) /\ repo.files # {})
                      /\ Absent \notin {repo.registry, repo.dispatch, repo.tiles} =>
                            /\ (repo.dispatch \cup About("not dispatched")) \ About("not registered") = repo.registry
                            /\ repo.registry \subseteq repo.handled \cup LogOnly \cup About("unhandled")
                      /\ Absent \notin {repo.manifest, repo.spec, repo.app} /\ repo.spec # {} =>
                            /\ (repo.manifest \cup About("not in the manifest")) \ About("not in the spec") = repo.spec
                            /\ ~repo.loop => repo.manifest \subseteq repo.app \cup About("not rendered")
    BY DEF LedgerMeans
  <2>1. checksRun = 4
    BY DEF LedgerInv
  <2>2. report = "clean" => \A part \in DOMAIN repo : repo[part] # Absent
    BY CleanReads, Zenon
  <2>3. ASSUME repo.files # Absent, ~ReadDifferently(repo.files)
        PROVE  (\A v \in violations : v[1] # "migrations") <=> Discovers(repo.files) /\ repo.files # {}
    <3>1. Directory(repo.files)
      BY <2>3, LedgerAssumption, Zenon DEF LedgerInv
    <3>2. Contiguity(repo.files) = {} <=> Discovers(repo.files) /\ repo.files # {}
      BY <2>3, <3>1, ContiguityMeans, Zenon
    <3> QED
      BY <2>1, <3>2, AboutAWord, Zenon
  <2>4. ASSUME Absent \notin {repo.registry, repo.dispatch, repo.tiles}
        PROVE  /\ (repo.dispatch \cup About("not dispatched")) \ About("not registered") = repo.registry
               /\ repo.registry \subseteq repo.handled \cup LogOnly \cup About("unhandled")
    <3>1. /\ About("not dispatched") = repo.registry \ repo.dispatch
          /\ About("not registered") = repo.dispatch \ repo.registry
          /\ About("unhandled") = repo.registry \ (repo.handled \cup LogOnly)
      BY <2>1, <2>4, AboutAWord, EventsTold
    <3> QED
      BY <3>1
  <2>5. ASSUME Absent \notin {repo.manifest, repo.spec, repo.app}, repo.spec # {}
        PROVE  /\ (repo.manifest \cup About("not in the manifest")) \ About("not in the spec") = repo.spec
               /\ ~repo.loop => repo.manifest \subseteq repo.app \cup About("not rendered")
    <3>1. /\ About("not in the spec") = repo.manifest \ repo.spec
          /\ About("not in the manifest") = repo.spec \ repo.manifest
          /\ About("not rendered") = repo.manifest \ (repo.app \cup (IF repo.loop THEN LoopTiles ELSE {}))
      BY <2>1, <2>5, AboutAWord, TilesTold
    <3> QED
      BY <3>1
  <2> QED
    BY <2>2, <2>3, <2>4, <2>5
<1> QED
  BY <1>1, <1>2, LedgerInvariant, PTL
=============================================================================
