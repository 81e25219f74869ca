--------------------------- MODULE EventLogProofs ---------------------------
(***************************************************************************)
(* The event log's safety for any number of connections, events, keys and  *)
(* artifact rows. The argument: while a connection is in a transaction,    *)
(* what it sees is the committed log, or that log with its one new row     *)
(* (Inv). Hence a commit publishes nothing or exactly one row chained from *)
(* the committed tail (CommitShape), from which the chain, the parity of   *)
(* the projection and the refinement follow; and that tampering shows,     *)
(* because every row has an id of its own and its hash holds that id       *)
(* (LogShape). Then, of the read model, that a rebuild makes the same      *)
(* tables and that they mean what the log says, each part beside it.       *)
(***************************************************************************)
EXTENDS EventLog, ReadModel, SequenceFacts, FiniteSetTheorems

IsSeq(l) == \E S : l \in Seq(S)

Fresh(l, id) == \A i \in DOMAIN l : l[i].id # id

(* l and t are log and rows with one event e published under id. *)
OneEvent(l, t, id, e) ==
  /\ id \in EventIds /\ e \in Event /\ e.corr # NoCorr
  /\ Fresh(log, id)
  /\ l = Append(log, Row(LastHash(log), id, e))
  /\ t = Handle(rows, e)

(* What the transaction of connection c sees, by its place in emit_sync.   *)
View(c) ==
  /\ pc[c] \in Steps => call[c] \in Event /\ call[c].corr # NoCorr
  /\ pc[c] \in {"dml", "begun", "tailed"} => wlog = log /\ wrows = rows
  /\ pc[c] = "tailed" => tail[c] = LastHash(log)
  /\ pc[c] = "inserted" =>
       /\ wrows = rows
       /\ \E id \in EventIds : OneEvent(wlog, Handle(rows, call[c]), id, call[c])
  /\ pc[c] = "handled" => \E id \in EventIds : OneEvent(wlog, wrows, id, call[c])

Inv ==
  /\ TypeOK
  /\ IsSeq(log)
  /\ arts \subseteq warts
  /\ NoPoisonedTransaction
  /\ writer = NoConn => wlog = log /\ wrows = rows /\ warts = arts
  /\ \A c \in Conns : View(c)

LEMMA AppendFacts ==
  ASSUME NEW S, NEW l \in Seq(S), NEW x
  PROVE  /\ Append(l, x) \in Seq(S \cup {x})
         /\ Len(Append(l, x)) = Len(l) + 1
         /\ \A i \in 1..Len(l) : Append(l, x)[i] = l[i]
         /\ Append(l, x)[Len(l) + 1] = x
         /\ DOMAIN Append(l, x) = 1..(Len(l) + 1)
         /\ DOMAIN l = 1..Len(l)
         /\ Len(l) \in Nat
<1>1. l \in Seq(S \cup {x})
  OBVIOUS
<1>. QED BY <1>1

LEMMA HandleType ==
  ASSUME NEW t \in SUBSET Keys, NEW e \in Event
  PROVE  Handle(t, e) \in SUBSET Keys
BY DEF Handle, Event

(* The invariant holds of the empty store. *)
LEMMA InitInv == Init => Inv
<1> SUFFICES ASSUME Init PROVE Inv
  OBVIOUS
<1>1. TypeOK
  BY ConnAssumption DEF Init, TypeOK
<1>2. IsSeq(log)
  BY <<>> \in Seq({}) DEF Init, IsSeq
<1>3. NoPoisonedTransaction
  BY ConnAssumption DEF Init, NoPoisonedTransaction
<1>4. \A c \in Conns : View(c)
  BY DEF Init, View, Steps
<1>. QED BY <1>1, <1>2, <1>3, <1>4 DEF Init, Inv

LEMMA OneEventSeq ==
  ASSUME IsSeq(log), NEW l, NEW t, NEW id, NEW e, OneEvent(l, t, id, e)
  PROVE  /\ IsSeq(l)
         /\ Len(l) = Len(log) + 1 /\ Len(log) \in Nat
         /\ DOMAIN l = 1..(Len(log) + 1) /\ DOMAIN log = 1..Len(log)
         /\ \A i \in 1..Len(log) : l[i] = log[i]
         /\ l[Len(log) + 1] = Row(LastHash(log), id, e)
<1>1. PICK S : log \in Seq(S)
  BY DEF IsSeq
<1>2. l = Append(log, Row(LastHash(log), id, e))
  BY DEF OneEvent
<1> DEFINE x == Row(LastHash(log), id, e)
<1>3. /\ Append(log, x) \in Seq(S \cup {x})
      /\ Len(Append(log, x)) = Len(log) + 1
      /\ \A i \in 1..Len(log) : Append(log, x)[i] = log[i]
      /\ Append(log, x)[Len(log) + 1] = x
      /\ DOMAIN Append(log, x) = 1..(Len(log) + 1)
      /\ DOMAIN log = 1..Len(log)
      /\ Len(log) \in Nat
  <2> HIDE DEF x
  <2>. QED BY <1>1, AppendFacts
<1>4. l = Append(log, x)
  BY <1>2
<1> HIDE DEF x
<1>5. IsSeq(l)
  BY <1>3, <1>4 DEF IsSeq
<1>. QED BY <1>3, <1>4, <1>5 DEF x

(* The inductive step: one case per action of a connection c, and under it *)
(* what the action does to c's own view and to that of the others, who are *)
(* outside every transaction.                                              *)
LEMMA NextInv == Inv /\ [Next]_vars => Inv'
<1> SUFFICES ASSUME Inv, [Next]_vars PROVE Inv'
  OBVIOUS
<1> USE DEF Inv
<1>1. ASSUME NEW c \in Conns, NEW e \in Event, EmitBegin(c, e) PROVE Inv'
  <2>1. wlog = log /\ wrows = rows
    BY <1>1, ConnAssumption DEF EmitBegin, HasWriteLock, View, NoPoisonedTransaction, TypeOK
  <2>2. (TypeOK /\ NoPoisonedTransaction)'
    BY <1>1, ConnAssumption DEF EmitBegin, HasWriteLock, NoPoisonedTransaction, TypeOK, store, working, Steps
  <2>3. \A d \in Conns : View(d)'
    BY <1>1, <2>1 DEF EmitBegin, HasWriteLock, NoPoisonedTransaction, TypeOK, View, store, working, Steps, LastHash, OneEvent, Fresh
  <2>. QED BY <1>1, <2>2, <2>3, ConnAssumption DEF EmitBegin, store, working, IsSeq
<1>2. ASSUME NEW c \in Conns, ReadTail(c) PROVE Inv'
  <2>1. (TypeOK /\ NoPoisonedTransaction)'
    BY <1>2 DEF ReadTail, NoPoisonedTransaction, TypeOK, store, working, Steps
  <2>2. \A d \in Conns : View(d)'
    BY <1>2 DEF ReadTail, NoPoisonedTransaction, TypeOK, View, store, working, Steps, LastHash, OneEvent, Fresh
  <2>. QED BY <1>2, <2>1, <2>2 DEF ReadTail, store, working, IsSeq
<1>3. ASSUME NEW c \in Conns, NEW id \in EventIds, InsertEvent(c, id) PROVE Inv'
  <2>1. wlog = log /\ wrows = rows /\ tail[c] = LastHash(log) /\ call[c] \in Event /\ call[c].corr # NoCorr
    BY <1>3 DEF InsertEvent, View, Steps
  <2>2. OneEvent(wlog', Handle(rows, call[c]), id, call[c])
    BY <1>3, <2>1 DEF InsertEvent, OneEvent, Fresh
  <2>3. (TypeOK /\ NoPoisonedTransaction)'
    BY <1>3 DEF InsertEvent, NoPoisonedTransaction, TypeOK, store, Steps
  <2>4. View(c)'
    BY <1>3, <2>1, <2>2 DEF InsertEvent, TypeOK, View, store, Steps, LastHash, OneEvent, Fresh
  <2>5. \A d \in Conns : d # c => View(d)'
    BY <1>3 DEF InsertEvent, NoPoisonedTransaction, TypeOK, View, store, Steps
  <2>. QED BY <1>3, <2>3, <2>4, <2>5, ConnAssumption DEF InsertEvent, store, IsSeq, NoPoisonedTransaction
<1>4. ASSUME NEW c \in Conns, RunHandlers(c) PROVE Inv'
  <2>1. wrows' = Handle(rows, call[c]) /\ call[c] \in Event
    BY <1>4 DEF RunHandlers, View, Steps
  <2>2. (TypeOK /\ NoPoisonedTransaction)'
    BY <1>4, <2>1, HandleType DEF RunHandlers, NoPoisonedTransaction, TypeOK, store, Steps
  <2>3. View(c)'
    BY <1>4, <2>1 DEF RunHandlers, TypeOK, View, store, Steps, OneEvent, Fresh, LastHash
  <2>4. \A d \in Conns : d # c => View(d)'
    BY <1>4 DEF RunHandlers, NoPoisonedTransaction, TypeOK, View, store, Steps
  <2>. QED BY <1>4, <2>2, <2>3, <2>4, ConnAssumption DEF RunHandlers, store, IsSeq, NoPoisonedTransaction
<1>5. ASSUME NEW c \in Conns, CommitTransaction(c), pc[c] \in {"handled", "dml"} PROVE Inv'
  <2>1. writer = c
    BY <1>5 DEF NoPoisonedTransaction
  <2>2. IsSeq(wlog)
    BY <1>5, OneEventSeq DEF View
  <2>3. (TypeOK /\ NoPoisonedTransaction)'
    BY <1>5, <2>1, ConnAssumption DEF CommitTransaction, Leaves, NoPoisonedTransaction, TypeOK, working, Steps
  <2>4. \A d \in Conns : pc'[d] = "idle"
    BY <1>5, <2>1 DEF CommitTransaction, Leaves, NoPoisonedTransaction, TypeOK
  <2>5. \A d \in Conns : View(d)'
    BY <2>4 DEF View, Steps
  <2>. QED BY <1>5, <2>2, <2>3, <2>5 DEF CommitTransaction, Leaves, working, IsSeq
<1>6. ASSUME NEW c \in Conns, RollbackTransaction(c), writer = c PROVE Inv'
  <2>1. (TypeOK /\ NoPoisonedTransaction)'
    BY <1>6, ConnAssumption DEF RollbackTransaction, Leaves, NoPoisonedTransaction, TypeOK, store, Steps
  <2>2. \A d \in Conns : pc'[d] = "idle"
    BY <1>6 DEF RollbackTransaction, Leaves, NoPoisonedTransaction, TypeOK
  <2>3. \A d \in Conns : View(d)'
    BY <2>2 DEF View, Steps
  <2>. QED BY <1>6, <2>1, <2>3 DEF RollbackTransaction, Leaves, store, IsSeq
<1>7. ASSUME NEW c \in Conns, NEW a \in Arts, DirectWrite(c, a) PROVE Inv'
  <2>1. wlog = log /\ wrows = rows
    BY <1>7, ConnAssumption DEF DirectWrite, HasWriteLock, NoPoisonedTransaction
  <2>2. (TypeOK /\ NoPoisonedTransaction)'
    BY <1>7, ConnAssumption DEF DirectWrite, HasWriteLock, NoPoisonedTransaction, TypeOK, store, Steps
  <2>3. View(c)'
    BY <1>7, <2>1 DEF DirectWrite, TypeOK, View, store, Steps
  <2>4. \A d \in Conns : d # c => pc'[d] = "idle"
    BY <1>7, ConnAssumption DEF DirectWrite, HasWriteLock, NoPoisonedTransaction, TypeOK
  <2>5. \A d \in Conns : d # c => View(d)'
    BY <2>4 DEF View, Steps
  <2>. QED BY <1>7, <2>2, <2>3, <2>5, ConnAssumption DEF DirectWrite, store, IsSeq
<1>8. CASE UNCHANGED vars
  <2>1. ASSUME NEW d \in Conns PROVE View(d)'
    BY <1>8 DEF vars, View, store, working, OneEvent, Fresh, LastHash
  <2>. QED BY <1>8, <2>1 DEF vars, store, working, TypeOK, IsSeq, NoPoisonedTransaction
<1>. QED
  BY <1>1, <1>2, <1>3, <1>4, <1>5, <1>6, <1>7, <1>8
  DEF Next, Commit, Rollback, DirectCommit, Crash, NoPoisonedTransaction, Steps

LEMMA SpecInv == Spec => []Inv
BY InitInv, NextInv, PTL DEF Spec

(* The types of the committed and the uncommitted store, of SQLite's write *)
(* lock and of the connections' places in emit_sync.                       *)
THEOREM TypeCorrect == Spec => []TypeOK
BY SpecInv, PTL DEF Inv

(* emit_sync leaves no transaction open on its connection, whatever raises *)
(* inside it.                                                              *)
THEOREM NoTransactionLeftOpen == Spec => []NoPoisonedTransaction
BY SpecInv, PTL DEF Inv
-----------------------------------------------------------------------------
(* What a reader of the store can see in one step: nothing new, artifact   *)
(* rows, or one whole event with its projection rows.                      *)
LEMMA CommitShape ==
  ASSUME Inv, [Next]_vars
  PROVE  /\ arts \subseteq arts' /\ arts' \subseteq Arts
         /\ \/ UNCHANGED <<log, rows>>
            \/ \E id, e : OneEvent(log', rows', id, e)
<1> USE DEF Inv
<1>1. ASSUME NEW c \in Conns, CommitTransaction(c), pc[c] = "handled"
      PROVE  \E id, e : OneEvent(log', rows', id, e)
  BY <1>1 DEF CommitTransaction, View
<1>2. ASSUME NEW c \in Conns, CommitTransaction(c), pc[c] = "dml"
      PROVE  UNCHANGED <<log, rows>>
  BY <1>2 DEF CommitTransaction, View
<1>3. ASSUME NEW c \in Conns, CommitTransaction(c)
      PROVE  arts \subseteq arts' /\ arts' \subseteq Arts
  BY <1>3 DEF CommitTransaction, TypeOK
<1>4. ASSUME NEW c \in Conns, RollbackTransaction(c)
      PROVE  UNCHANGED store
  BY <1>4 DEF RollbackTransaction
<1>5. CASE UNCHANGED vars
  BY <1>5 DEF vars, store, TypeOK
<1>6. ASSUME NEW c \in Conns,
             \/ \E e \in Event : EmitBegin(c, e)
             \/ ReadTail(c)
             \/ \E id \in EventIds : InsertEvent(c, id)
             \/ RunHandlers(c)
             \/ \E a \in Arts : DirectWrite(c, a)
      PROVE  UNCHANGED store
  BY <1>6 DEF EmitBegin, ReadTail, InsertEvent, RunHandlers, DirectWrite
<1>. QED
  BY <1>1, <1>2, <1>3, <1>4, <1>5, <1>6
  DEF Next, Commit, Rollback, DirectCommit, Crash, store, TypeOK

(* Inv 7: verify_chain accepts every committed log.                        *)
THEOREM ChainAlwaysIntact == Spec => []ChainIntact
<1>1. Init => ChainIntact
  BY DEF Init, ChainIntact, VerifyChain
<1>2. Inv /\ ChainIntact /\ [Next]_vars => ChainIntact'
  <2> SUFFICES ASSUME Inv, ChainIntact, [Next]_vars PROVE ChainIntact'
    OBVIOUS
  <2>1. CASE UNCHANGED log
    BY <2>1 DEF ChainIntact, VerifyChain, PrevHash
  <2>2. ASSUME NEW id, NEW e, OneEvent(log', rows', id, e) PROVE ChainIntact'
    <3>1. /\ DOMAIN log' = 1..(Len(log) + 1) /\ DOMAIN log = 1..Len(log)
          /\ Len(log) \in Nat
          /\ \A i \in 1..Len(log) : log'[i] = log[i]
          /\ log'[Len(log) + 1] = Row(LastHash(log), id, e)
      BY <2>2, OneEventSeq DEF Inv
    <3>2. LastHash(log) = PrevHash(log', Len(log) + 1)
      BY <3>1 DEF Inv, IsSeq, LastHash, PrevHash
    <3>3. ASSUME NEW i \in 1..Len(log) PROVE PrevHash(log', i) = PrevHash(log, i)
      BY <3>1 DEF PrevHash
    <3>4. ASSUME NEW i \in 1..Len(log)
          PROVE  /\ log'[i].prev = PrevHash(log', i)
                 /\ log'[i].hash = Hash(log'[i].prev, log'[i].id, log'[i].ev)
      BY <3>1, <3>3 DEF ChainIntact, VerifyChain
    <3>5. /\ log'[Len(log) + 1].prev = PrevHash(log', Len(log) + 1)
          /\ log'[Len(log) + 1].hash
               = Hash(log'[Len(log) + 1].prev, log'[Len(log) + 1].id, log'[Len(log) + 1].ev)
      BY <3>1, <3>2 DEF Row
    <3>. QED BY <3>1, <3>4, <3>5 DEF ChainIntact, VerifyChain
  <2>. QED BY <2>1, <2>2, CommitShape
<1>. QED BY <1>1, <1>2, SpecInv, PTL DEF Spec

(* One event moves the live keys exactly as its handler moves the table.   *)
LEMMA LiveKeysStep ==
  ASSUME IsSeq(log), rows = LiveKeys(EventsOf(log)),
         NEW l, NEW t, NEW id, NEW e, OneEvent(l, t, id, e)
  PROVE  t = LiveKeys(EventsOf(l))
<1> DEFINE n == Len(log)
           old == EventsOf(log)
           new == EventsOf(l)
<1>1. /\ DOMAIN old = 1..n /\ DOMAIN new = 1..(n + 1) /\ n \in Nat
      /\ \A i \in 1..n : new[i] = old[i]
      /\ new[n + 1] = e
  <2>1. /\ Len(log) \in Nat
        /\ DOMAIN l = 1..(Len(log) + 1) /\ DOMAIN log = 1..Len(log)
        /\ \A i \in 1..Len(log) : l[i] = log[i]
        /\ l[Len(log) + 1] = Row(LastHash(log), id, e)
    BY OneEventSeq
  <2>. QED BY <2>1 DEF EventsOf, Row
<1>2. t = Handle(LiveKeys(old), e) /\ e \in Event
  BY DEF OneEvent
<1> HIDE DEF n, old, new
<1>3. CASE e.kind = "put"
  <2>1. LiveKeys(new) = LiveKeys(old) \cup {e.key}
    BY <1>1, <1>2, <1>3 DEF LiveKeys, Event
  <2>. QED BY <1>2, <1>3, <2>1 DEF Handle, new
<1>4. CASE e.kind = "del"
  <2>1. LiveKeys(new) = LiveKeys(old) \ {e.key}
    BY <1>1, <1>2, <1>4 DEF LiveKeys, Event
  <2>. QED BY <1>2, <1>4, <2>1 DEF Handle, new
<1>5. CASE e.kind = "plain"
  <2>1. LiveKeys(new) = LiveKeys(old)
    BY <1>1, <1>2, <1>5 DEF LiveKeys, Event
  <2>. QED BY <1>2, <1>5, <2>1 DEF Handle, new
<1>. QED BY <1>2, <1>3, <1>4, <1>5 DEF Event

(* Inv 8: the incrementally maintained table is what the log says.         *)
THEOREM ParityAlwaysHolds == Spec => []LiveKeysParity
<1>1. Init => LiveKeysParity
  BY DEF Init, LiveKeysParity, LiveKeys, EventsOf
<1>2. Inv /\ LiveKeysParity /\ [Next]_vars => LiveKeysParity'
  <2> SUFFICES ASSUME Inv, LiveKeysParity, [Next]_vars PROVE LiveKeysParity'
    OBVIOUS
  <2>1. CASE UNCHANGED <<log, rows>>
    BY <2>1 DEF LiveKeysParity, EventsOf
  <2>2. ASSUME NEW id, NEW e, OneEvent(log', rows', id, e) PROVE LiveKeysParity'
    BY <2>2, LiveKeysStep DEF Inv, LiveKeysParity
  <2>. QED BY <2>1, <2>2, CommitShape
<1>. QED BY <1>1, <1>2, SpecInv, PTL DEF Spec

(* Every behaviour of the bus is a behaviour of the abstract ledger.       *)
THEOREM Refinement == Spec => ImplementsAppendLog
<1>1. Init => Abstract!Init
  BY DEF Init, Abstract!Init, Ledger
<1>2. Inv /\ [Next]_vars => [Abstract!Next]_(Abstract!vars)
  <2> SUFFICES ASSUME Inv, [Next]_vars PROVE Abstract!Next
    OBVIOUS
  <2> DEFINE added == arts' \ arts
  <2>1. added \in SUBSET Arts /\ arts' = arts \cup added
    BY CommitShape
  <2> HIDE DEF added
  <2>2. CASE UNCHANGED <<log, rows>>
    <3>1. Abstract!WriteArtifacts(added)
      BY <2>1, <2>2 DEF Abstract!WriteArtifacts, Ledger
    <3>. QED BY <2>1, <3>1 DEF Abstract!Next
  <2>3. ASSUME NEW id, NEW e, OneEvent(log', rows', id, e) PROVE Abstract!Next
    <3>1. /\ DOMAIN log' = 1..(Len(log) + 1) /\ DOMAIN log = 1..Len(log)
          /\ Len(log) \in Nat
          /\ \A i \in 1..Len(log) : log'[i] = log[i]
          /\ log'[Len(log) + 1] = Row(LastHash(log), id, e)
      BY <2>3, OneEventSeq DEF Inv
    <3>2. /\ id \in EventIds /\ e \in Event /\ e.corr # NoCorr
          /\ Fresh(log, id) /\ rows' = Handle(rows, e)
      BY <2>3 DEF OneEvent
    <3>3. Ledger \in Seq({Ledger[i] : i \in 1..Len(log)}) /\ Len(Ledger) = Len(log)
      BY <3>1 DEF Ledger
    <3>4. Ledger' = Append(Ledger, [id |-> id, ev |-> e])
      BY <3>1, <3>3 DEF Ledger, Row
    <3>5. \A i \in DOMAIN Ledger : Ledger[i].id # id
      BY <3>1, <3>2 DEF Ledger, Fresh
    <3>6. Abstract!Publish(id, e, added)
      BY <2>1, <3>2, <3>4, <3>5 DEF Abstract!Publish, Handle, Abstract!Handle
    <3>. QED BY <2>1, <3>2, <3>6 DEF Abstract!Next, Event, Abstract!Event
  <2>. QED BY <2>2, <2>3, CommitShape
<1>. QED BY <1>1, <1>2, SpecInv, PTL DEF Spec, ImplementsAppendLog, Abstract!Spec

-----------------------------------------------------------------------------
(* What tampering stands against: a row is chained from the one before it, *)
(* and no two rows have one id, so no two hashes are equal.                *)
RowShaped(x) == \E p, id, e : x = Row(p, id, e)

LogShape ==
  /\ \A i \in DOMAIN log : RowShaped(log[i])
  /\ \A i, j \in DOMAIN log : log[i].id = log[j].id => i = j

LEMMA LogShapeStep ==
  ASSUME Inv, LogShape, [Next]_vars
  PROVE  LogShape'
<1>1. CASE UNCHANGED log
  BY <1>1 DEF LogShape
<1>2. ASSUME NEW id, NEW e, OneEvent(log', rows', id, e) PROVE LogShape'
  <2>1. /\ DOMAIN log' = 1..(Len(log) + 1) /\ DOMAIN log = 1..Len(log)
        /\ Len(log) \in Nat
        /\ \A i \in 1..Len(log) : log'[i] = log[i]
        /\ log'[Len(log) + 1] = Row(LastHash(log), id, e)
    BY <1>2, OneEventSeq DEF Inv
  <2>2. RowShaped(log'[Len(log) + 1]) /\ log'[Len(log) + 1].id = id
    BY <2>1 DEF RowShaped, Row
  <2>3. \A i \in 1..Len(log) : RowShaped(log'[i]) /\ log'[i].id # id
    BY <1>2, <2>1 DEF LogShape, OneEvent, Fresh
  <2>4. ASSUME NEW i \in 1..(Len(log) + 1), NEW j \in 1..(Len(log) + 1), log'[i].id = log'[j].id
        PROVE  i = j
    BY <2>1, <2>2, <2>3, <2>4 DEF LogShape
  <2>. QED BY <2>1, <2>2, <2>3, <2>4 DEF LogShape
<1>. QED BY <1>1, <1>2, CommitShape

(* An edited event no longer has the hash of its row.                      *)
LEMMA EditsShow ==
  ASSUME IsSeq(log), LogShape, ChainIntact, NEW i \in DOMAIN log, NEW e, e # log[i].ev
  PROVE  ~VerifyChain([log EXCEPT ![i].ev = e])
<1> DEFINE x == [log[i] EXCEPT !.ev = e]
           l == [log EXCEPT ![i] = x]
<1>1. log[i].hash = <<log[i].prev, log[i].id, log[i].ev>>
  BY DEF ChainIntact, VerifyChain, Hash
<1>2. RowShaped(log[i])
  BY DEF LogShape
<1>3. x.ev = e /\ x.hash = log[i].hash /\ x.prev = log[i].prev /\ x.id = log[i].id
  BY <1>2 DEF RowShaped, Row
<1>4. x.hash # Hash(x.prev, x.id, x.ev)
  BY <1>1, <1>3 DEF Hash
<1>5. [log EXCEPT ![i].ev = e] = l
  OBVIOUS
<1> HIDE DEF x
<1>6. i \in DOMAIN l /\ l[i] = x
  OBVIOUS
<1> HIDE DEF l
<1>7. ~VerifyChain(l)
  BY <1>4, <1>6 DEF VerifyChain
<1>. QED BY <1>5, <1>7

(* The row after the i-th is not chained from what the i-th is chained     *)
(* from.                                                                   *)
LEMMA LinksDiffer ==
  ASSUME IsSeq(log), LogShape, ChainIntact, NEW i \in 1..Len(log), i + 1 \in 1..Len(log)
  PROVE  log[i + 1].prev # PrevHash(log, i) /\ DOMAIN log = 1..Len(log) /\ Len(log) \in Nat
<1>1. DOMAIN log = 1..Len(log) /\ Len(log) \in Nat
  BY DEF IsSeq
<1>2. log[i + 1].prev = log[i].hash
  BY <1>1 DEF ChainIntact, VerifyChain, PrevHash
<1>3. log[i].hash = <<log[i].prev, log[i].id, log[i].ev>>
  BY <1>1 DEF ChainIntact, VerifyChain, Hash
<1>4. CASE i = 1
  BY <1>2, <1>3, <1>4 DEF PrevHash, Genesis
<1>5. CASE i # 1
  <2>1. i - 1 \in 1..Len(log) /\ PrevHash(log, i) = log[i - 1].hash
    BY <1>1, <1>5 DEF PrevHash
  <2>2. log[i - 1].hash = <<log[i - 1].prev, log[i - 1].id, log[i - 1].ev>>
    BY <1>1, <2>1 DEF ChainIntact, VerifyChain, Hash
  <2>3. log[i - 1].id # log[i].id
    BY <1>1, <2>1 DEF LogShape
  <2>. QED BY <1>1, <1>2, <1>3, <2>1, <2>2, <2>3
<1>. QED BY <1>1, <1>4, <1>5

LEMMA RemovalsShow ==
  ASSUME IsSeq(log), LogShape, ChainIntact, NEW i \in 1..Len(log), i < Len(log)
  PROVE  ~VerifyChain(RemoveAt(log, i))
<1>1. PICK S : log \in Seq(S)
  BY DEF IsSeq
<1>2. Len(log) \in Nat /\ \A k \in 1..Len(log) : log[k] \in S
  BY <1>1
<1> DEFINE a == SubSeq(log, 1, i - 1)
           b == SubSeq(log, i + 1, Len(log))
           l == a \o b
<1>3. a \in Seq(S) /\ Len(a) = i - 1 /\ \A k \in 1..(i - 1) : a[k] = log[k]
  <2>1. \A k \in 1..(i - 1) : log[k] \in S
    BY <1>2
  <2>2. /\ a \in Seq(S) /\ Len(a) = IF 1 <= i - 1 THEN (i - 1) - 1 + 1 ELSE 0
        /\ \A k \in 1..((i - 1) - 1 + 1) : a[k] = log[1 + k - 1]
    <3>1. i - 1 \in Int /\ 1 \in Int
      BY <1>2
    <3>. QED BY <2>1, <3>1, SubSeqProperties
  <2>3. Len(a) = i - 1
    BY <1>2, <2>2
  <2>4. ASSUME NEW k \in 1..(i - 1) PROVE a[k] = log[k]
    <3>1. k \in 1..((i - 1) - 1 + 1) /\ 1 + k - 1 = k
      BY <1>2
    <3>. QED BY <2>2, <3>1
  <2>. QED BY <2>2, <2>3, <2>4
<1>4. b \in Seq(S) /\ Len(b) = Len(log) - i /\ b[1] = log[i + 1]
  <2>1. \A k \in (i + 1)..Len(log) : log[k] \in S
    BY <1>2
  <2>2. /\ b \in Seq(S) /\ Len(b) = IF i + 1 <= Len(log) THEN Len(log) - (i + 1) + 1 ELSE 0
        /\ \A k \in 1..(Len(log) - (i + 1) + 1) : b[k] = log[i + 1 + k - 1]
    <3>1. i + 1 \in Int /\ Len(log) \in Int
      BY <1>2
    <3>. QED BY <2>1, <3>1, SubSeqProperties
  <2>3. Len(b) = Len(log) - i
    BY SMTT(30), <1>2, <2>2
  <2>4. 1 \in 1..(Len(log) - (i + 1) + 1) /\ i + 1 + 1 - 1 = i + 1
    BY <1>2
  <2>. QED BY <2>2, <2>3, <2>4
<1> HIDE DEF a, b
<1>5. /\ l \in Seq(S) /\ Len(l) = Len(a) + Len(b)
      /\ \A k \in 1..(Len(a) + Len(b)) : l[k] = IF k <= Len(a) THEN a[k] ELSE b[k - Len(a)]
  BY <1>3, <1>4, ConcatProperties
<1> HIDE DEF l
<1>6. i \in DOMAIN l /\ l[i] = log[i + 1]
  <2>1. i \in 1..(Len(a) + Len(b)) /\ ~(i <= Len(a)) /\ i - Len(a) = 1
    BY <1>2, <1>3, <1>4
  <2>. QED BY <1>4, <1>5, <2>1
<1>7. PrevHash(l, i) = PrevHash(log, i)
  <2>1. CASE i = 1
    BY <2>1 DEF PrevHash
  <2>2. CASE i # 1
    <3>1. i - 1 \in 1..(Len(a) + Len(b)) /\ i - 1 <= Len(a) /\ i - 1 \in 1..(i - 1)
      BY <1>2, <1>3, <1>4, <2>2
    <3>2. l[i - 1] = log[i - 1]
      BY <1>3, <1>5, <3>1
    <3>. QED BY <2>2, <3>2 DEF PrevHash
  <2>. QED BY <2>1, <2>2
<1>8. log[i + 1].prev # PrevHash(log, i)
  BY <1>2, LinksDiffer
<1>9. ~VerifyChain(l)
  BY <1>6, <1>7, <1>8 DEF VerifyChain
<1>10. RemoveAt(log, i) = l
  BY DEF RemoveAt, l, a, b
<1>. QED BY <1>9, <1>10

LEMMA SwapsShow ==
  ASSUME IsSeq(log), LogShape, ChainIntact, NEW i \in 1..Len(log), i < Len(log)
  PROVE  ~VerifyChain([log EXCEPT ![i] = log[i + 1], ![i + 1] = log[i]])
<1> DEFINE l == [log EXCEPT ![i] = log[i + 1], ![i + 1] = log[i]]
<1>1. DOMAIN log = 1..Len(log) /\ Len(log) \in Nat /\ i + 1 \in 1..Len(log)
  BY DEF IsSeq
<1>2. DOMAIN l = DOMAIN log /\ l[i] = log[i + 1] /\ \A k \in DOMAIN log : k # i /\ k # i + 1 => l[k] = log[k]
  BY <1>1
<1> HIDE DEF l
<1>3. PrevHash(l, i) = PrevHash(log, i)
  BY <1>1, <1>2 DEF PrevHash
<1>4. log[i + 1].prev # PrevHash(log, i)
  BY <1>1, LinksDiffer
<1>5. ~VerifyChain(l)
  BY <1>1, <1>2, <1>3, <1>4 DEF VerifyChain
<1>. QED BY <1>5 DEF l

(* Inv 7: whoever edits, removes or swaps rows of a log that the bus wrote *)
(* is found out by verify_chain, unless it is the last row he takes.       *)
THEOREM TamperingShows == Spec => []TamperEvident
<1>1. Init => LogShape
  BY DEF Init, LogShape
<1>2. Inv /\ LogShape /\ [Next]_vars => LogShape'
  BY LogShapeStep
<1>3. Inv /\ LogShape /\ ChainIntact => TamperEvident
  <2> SUFFICES ASSUME IsSeq(log), LogShape, ChainIntact, NEW i \in DOMAIN log
               PROVE  /\ \A e \in Event : e # log[i].ev => ~VerifyChain([log EXCEPT ![i].ev = e])
                      /\ i < Len(log) =>
                           /\ ~VerifyChain(RemoveAt(log, i))
                           /\ ~VerifyChain([log EXCEPT ![i] = log[i + 1], ![i + 1] = log[i]])
    BY DEF Inv, TamperEvident
  <2>1. i \in 1..Len(log)
    BY DEF IsSeq
  <2>. QED BY <2>1, EditsShow, RemovalsShow, SwapsShow
<1>. QED BY <1>1, <1>2, <1>3, SpecInv, ChainAlwaysIntact, PTL DEF Spec

(***************************************************************************)
(* The read model. A rebuild replays the log from empty tables, a          *)
(* recursion over a function: that it is defined, and that the rebuild of  *)
(* a longer log goes on where that of the shorter one ended, is proved     *)
(* first. Then each step keeps the parity: logging an event runs the       *)
(* handler once more on both sides, and writing an artifact changes        *)
(* neither, since only the events of drafts look at artifacts, and the     *)
(* artifact of an event that was logged was there when it was logged       *)
(* (ReadModelInv). Without that order of the two writes the parity is not  *)
(* inductive, and false.                                                   *)
(***************************************************************************)
IsReplay(f, docs, l, n) ==
  f = [m \in 0 .. n |-> IF m = 0 THEN Empty ELSE Project(f[m - 1], docs, l[m])]

ReplaysWith(f, docs, l) ==
  /\ f[0] = Empty
  /\ \A n \in 0 .. Len(l) - 1 : f[n + 1] = Project(f[n], docs, l[n + 1])
  /\ RebuildTables(docs, l) = f[Len(l)]

(* The rebuild's recursion has a solution.                                 *)
LEMMA ReplayIsDefined ==
  ASSUME NEW S, NEW l \in Seq(S), NEW docs
  PROVE  \E f : ReplaysWith(f, docs, l)
<1>0. Len(l) \in Nat
  BY Positions
<1> DEFINE Solved == {n \in 0 .. Len(l) : \E f : IsReplay(f, docs, l, n)}
<1>1. 0 \in Solved
  <2>1. IsReplay([m \in 0 .. 0 |-> Empty], docs, l, 0)
    BY DEF IsReplay
  <2> QED
    BY <1>0, <2>1
<1>2. ASSUME NEW n \in 0 .. Len(l) - 1, n \in Solved PROVE n + 1 \in Solved
  <2>1. PICK f : IsReplay(f, docs, l, n)
    BY <1>2
  <2> DEFINE g == [m \in 0 .. n + 1 |-> IF m <= n THEN f[m] ELSE Project(f[n], docs, l[m])]
  <2>2. ASSUME NEW m \in 0 .. n + 1
        PROVE  g[m] = IF m = 0 THEN Empty ELSE Project(g[m - 1], docs, l[m])
    <3>1. CASE m = n + 1
      <4>1. m # 0 /\ ~(m <= n) /\ m - 1 = n /\ n \in 0 .. n + 1 /\ n <= n
        BY <1>0, <3>1
      <4>2. g[m - 1] = f[n]
        BY <4>1
      <4> QED
        BY <4>1, <4>2
    <3>2. CASE m # n + 1
      <4>1. m \in 0 .. n /\ m <= n
        BY <1>0, <3>2
      <4>2. g[m] = f[m]
        BY <4>1
      <4>3. m # 0 => m - 1 \in 0 .. n + 1 /\ m - 1 <= n
        BY <1>0, <4>1
      <4>4. m # 0 => g[m - 1] = f[m - 1]
        BY <4>3
      <4>5. f[m] = IF m = 0 THEN Empty ELSE Project(f[m - 1], docs, l[m])
        BY <2>1, <4>1 DEF IsReplay
      <4> QED
        BY <4>2, <4>4, <4>5
    <3> QED
      BY <3>1, <3>2
  <2>3. IsReplay(g, docs, l, n + 1)
    <3>1. g = [m \in 0 .. n + 1 |-> g[m]]
      OBVIOUS
    <3> HIDE DEF g
    <3> QED
      BY <2>2, <3>1 DEF IsReplay
  <2>4. n + 1 \in 0 .. Len(l)
    BY <1>0
  <2> QED
    BY <2>3, <2>4
<1>3. Len(l) \in Solved
  <2> HIDE DEF Solved
  <2>1. 0 .. Len(l) \subseteq Solved
    BY <1>0, <1>1, <1>2, UpTo
  <2> QED
    BY <1>0, <2>1
<1> DEFINE k == CHOOSE f : IsReplay(f, docs, l, Len(l))
<1>4. IsReplay(k, docs, l, Len(l))
  BY <1>3
<1>5. RebuildTables(docs, l) = k[Len(l)]
  BY DEF RebuildTables, IsReplay
<1> HIDE DEF k
<1>6. k[0] = Empty
  BY <1>0, <1>4 DEF IsReplay
<1>7. ASSUME NEW n \in 0 .. Len(l) - 1 PROVE k[n + 1] = Project(k[n], docs, l[n + 1])
  <2> DEFINE m == n + 1
  <2>1. m \in 0 .. Len(l) /\ m # 0 /\ m - 1 = n
    BY <1>0
  <2> HIDE DEF m
  <2>2. k[m] = Project(k[m - 1], docs, l[m])
    BY <1>4, <2>1 DEF IsReplay
  <2>3. k[m] = Project(k[n], docs, l[m])
    BY <2>1, <2>2
  <2> QED
    BY <2>3 DEF m
<1> QED
  BY <1>5, <1>6, <1>7 DEF ReplaysWith

(* Two rebuilds agree for as long as their handlers do.                    *)
LEMMA ReplaysAlike ==
  ASSUME NEW S, NEW l \in Seq(S), NEW k \in Seq(S), NEW n \in 0 .. Len(l), n <= Len(k),
         NEW docs, NEW docs2, NEW f, NEW g, ReplaysWith(f, docs, l), ReplaysWith(g, docs2, k),
         \A i \in 1 .. n : \A tb : Project(tb, docs, l[i]) = Project(tb, docs2, k[i])
  PROVE  f[n] = g[n]
<1>0. n \in Nat /\ Len(l) \in Nat /\ Len(k) \in Nat /\ n <= Len(l)
  BY Positions
<1> DEFINE Agree == {m \in 0 .. n : f[m] = g[m]}
<1>1. 0 \in Agree
  BY <1>0 DEF ReplaysWith
<1>2. ASSUME NEW m \in 0 .. n - 1, m \in Agree PROVE m + 1 \in Agree
  <2>1. /\ f[m] = g[m] /\ m + 1 \in 1 .. n /\ m + 1 \in 0 .. n
        /\ m \in 0 .. Len(l) - 1 /\ m \in 0 .. Len(k) - 1
    BY <1>0, <1>2
  <2>2. f[m + 1] = Project(f[m], docs, l[m + 1]) /\ g[m + 1] = Project(g[m], docs2, k[m + 1])
    BY <2>1 DEF ReplaysWith
  <2>3. Project(f[m], docs, l[m + 1]) = Project(f[m], docs2, k[m + 1])
    BY <2>1
  <2> QED
    BY <2>1, <2>2, <2>3
<1> HIDE DEF Agree
<1>3. 0 .. n \subseteq Agree
  BY <1>0, <1>1, <1>2, UpTo
<1> QED
  BY <1>0, <1>3 DEF Agree

(* The rebuild of a longer log goes on where that of the shorter one ended. *)
LEMMA RebuildGoesOn ==
  ASSUME NEW S, NEW l \in Seq(S), NEW e \in S, NEW docs
  PROVE  /\ RebuildTables(docs, Append(l, e)) = Project(RebuildTables(docs, l), docs, e)
         /\ RebuildTables(docs, <<>>) = Empty
<1> DEFINE long == Append(l, e)
<1>1. /\ long \in Seq(S) /\ Len(l) \in Nat /\ Len(long) = Len(l) + 1 /\ DOMAIN l = 1 .. Len(l)
      /\ \A i \in DOMAIN l : long[i] = l[i]
      /\ long[Len(l) + 1] = e
  BY AppendGrows
<1> HIDE DEF long
<1>2. PICK f : ReplaysWith(f, docs, l)
  BY ReplayIsDefined
<1>3. PICK g : ReplaysWith(g, docs, long)
  BY <1>1, ReplayIsDefined
<1>4. f[Len(l)] = g[Len(l)]
  <2>1. Len(l) \in 0 .. Len(l) /\ Len(l) <= Len(long)
    BY <1>1
  <2>2. \A i \in 1 .. Len(l) : \A tb : Project(tb, docs, l[i]) = Project(tb, docs, long[i])
    BY <1>1
  <2> QED
    BY <1>1, <1>2, <1>3, <2>1, <2>2, ReplaysAlike
<1>5. g[Len(l) + 1] = Project(g[Len(l)], docs, e)
  BY <1>1, <1>3 DEF ReplaysWith
<1>6. RebuildTables(docs, l) = f[Len(l)] /\ RebuildTables(docs, long) = g[Len(l) + 1]
  BY <1>1, <1>2, <1>3 DEF ReplaysWith
<1>7. RebuildTables(docs, <<>>) = Empty
  <2>1. <<>> \in Seq(S) /\ Len(<<>>) = 0
    BY EmptySeq
  <2>2. PICK h : ReplaysWith(h, docs, <<>>)
    BY <2>1, ReplayIsDefined
  <2> QED
    BY <2>1, <2>2 DEF ReplaysWith
<1> QED
  BY <1>4, <1>5, <1>6, <1>7 DEF long

(* Only the events of drafts look at artifacts, and only at their own.     *)
LEMMA HandlersReadTheirOwn ==
  ASSUME NEW tb, NEW docs, NEW docs2, NEW e,
         e.type \in Drafted => DraftedAt(docs, e.id) = DraftedAt(docs2, e.id)
  PROVE  Project(tb, docs, e) = Project(tb, docs2, e)
<1>1. CASE e.type = "spec_drafted"
  <2>1. HandleSpecDrafted(tb, docs, e) = HandleSpecDrafted(tb, docs2, e)
    BY <1>1 DEF HandleSpecDrafted, Drafted
  <2> QED
    BY <1>1, <2>1 DEF Project
<1>2. CASE e.type = "plan_drafted"
  <2>1. HandlePlanDrafted(tb, docs, e) = HandlePlanDrafted(tb, docs2, e)
    BY <1>2 DEF HandlePlanDrafted, Drafted
  <2> QED
    BY <1>2, <2>1 DEF Project
<1>3. CASE e.type = "explore_pass_completed"
  <2>1. HandleExplorePassCompleted(tb, docs, e) = HandleExplorePassCompleted(tb, docs2, e)
    BY <1>3 DEF HandleExplorePassCompleted, Drafted
  <2> QED
    BY <1>3, <2>1 DEF Project
<1>4. CASE e.type \notin Drafted
  BY <1>4 DEF Project, Drafted
<1> QED
  BY <1>1, <1>2, <1>3, <1>4 DEF Drafted

(* An event has a type, and that of a draft the id of its artifact.        *)
WellFormed(e) == "type" \in DOMAIN e /\ (e.type \in Drafted => "id" \in DOMAIN e)

LEMMA EventsAreWellFormed ==
  ASSUME NEW f \in Families, NEW e \in EventsIn(f)
  PROVE  WellFormed(e)
<1>1. ASSUME NEW x \in CoreEvents PROVE WellFormed(x)
  BY <1>1 DEF CoreEvents, WellFormed, Drafted
<1>2. ASSUME NEW x \in ResearchEvents PROVE WellFormed(x)
  BY <1>2 DEF ResearchEvents, WellFormed, Drafted
<1>3. ASSUME NEW x \in WriteEvents PROVE WellFormed(x)
  BY <1>3 DEF WriteEvents, WellFormed, Drafted
<1>4. ASSUME NEW x \in LearningEvents PROVE WellFormed(x)
  BY <1>4 DEF LearningEvents, WellFormed, Drafted
<1>5. ASSUME NEW x \in WorkItemEvents \cup MonitorEvents PROVE WellFormed(x)
  BY <1>5 DEF WorkItemEvents, MonitorEvents, WellFormed, Drafted
<1>6. ASSUME NEW x \in OssEvents \cup IntakeEvents \cup BudgetEvents PROVE WellFormed(x)
  BY <1>6 DEF OssEvents, IntakeEvents, BudgetEvents, WellFormed, Drafted
<1>7. ASSUME NEW x \in UpkeepEvents \cup SpendEvents PROVE WellFormed(x)
  BY <1>7 DEF UpkeepEvents, SpendEvents, WellFormed, Drafted
<1>8. ASSUME NEW x \in TrustEvents \cup RenewalEvents PROVE WellFormed(x)
  BY <1>8 DEF TrustEvents, RenewalEvents, WellFormed, Drafted
<1> QED
  <2>1. CASE f \in {"work", "evidence", "session", "specs"}
    BY <1>1, <1>2, <1>3, <1>7, <2>1 DEF EventsIn
  <2>2. CASE f \in {"learning", "oss", "upkeep", "trust"}
    BY <1>4, <1>5, <1>6, <1>7, <1>8, <2>2 DEF EventsIn
  <2> QED
    BY <2>1, <2>2 DEF Families

Logged == {AtSeq(e, n) : e \in UNION {EventsIn(f) : f \in Families}, n \in Nat}

ReadModelInv ==
  /\ family \in Families
  /\ eventLog \in Seq(Logged)
  /\ \A i \in DOMAIN eventLog :
        eventLog[i].type \in Drafted => eventLog[i].id \in DOMAIN persisted
  /\ ReadModelParity

(* Writing an artifact leaves the parity: no event of the log reads it.    *)
LEMMA ArtifactsChangeNothing ==
  ASSUME ReadModelInv, NEW id \in Drafts, WriteArtifact(id)
  PROVE  ReadModelInv'
<1> DEFINE docs == [d \in DOMAIN persisted \cup {id} |->
                      IF d = id THEN 1 + Len(eventLog) ELSE persisted[d]]
<1>1. /\ persisted' = docs /\ eventLog' = eventLog /\ tables' = tables /\ family' = family
  BY DEF WriteArtifact
<1>2. /\ DOMAIN persisted \subseteq DOMAIN docs
      /\ \A d \in DOMAIN persisted : docs[d] = persisted[d]
  BY DEF WriteArtifact
<1> HIDE DEF docs
<1>3. Len(eventLog) \in Nat /\ DOMAIN eventLog = 1 .. Len(eventLog)
  BY Positions DEF ReadModelInv
<1>4. RebuildTables(docs, eventLog) = RebuildTables(persisted, eventLog)
  <2>1. PICK f : ReplaysWith(f, persisted, eventLog)
    BY ReplayIsDefined DEF ReadModelInv
  <2>2. PICK g : ReplaysWith(g, docs, eventLog)
    BY ReplayIsDefined DEF ReadModelInv
  <2>3. ASSUME NEW i \in 1 .. Len(eventLog), NEW tb
        PROVE  Project(tb, persisted, eventLog[i]) = Project(tb, docs, eventLog[i])
    <3>1. eventLog[i].type \in Drafted =>
            DraftedAt(persisted, eventLog[i].id) = DraftedAt(docs, eventLog[i].id)
      BY <1>2, <1>3 DEF ReadModelInv, DraftedAt
    <3> QED
      BY <3>1, HandlersReadTheirOwn
  <2>4. f[Len(eventLog)] = g[Len(eventLog)]
    <3>1. Len(eventLog) \in 0 .. Len(eventLog) /\ Len(eventLog) <= Len(eventLog)
      BY <1>3
    <3>2. eventLog \in Seq(Logged)
      BY DEF ReadModelInv
    <3> QED
      BY <2>1, <2>2, <2>3, <3>1, <3>2, ReplaysAlike
  <2> QED
    BY <2>1, <2>2, <2>4 DEF ReplaysWith
<1>5. ReadModelParity'
  BY <1>1, <1>4 DEF ReadModelInv, ReadModelParity
<1> QED
  BY <1>1, <1>2, <1>5 DEF ReadModelInv

(* Logging an event runs its handler on the tables and on the rebuild.     *)
LEMMA LoggingProjectsOnce ==
  ASSUME ReadModelInv, NEW event \in EventsIn(family), LogEvent(event)
  PROVE  ReadModelInv'
<1> DEFINE e == AtSeq(event, 1 + Len(eventLog))
<1>1. /\ eventLog' = Append(eventLog, e) /\ tables' = Project(tables, persisted, e)
      /\ persisted' = persisted /\ family' = family
      /\ event.type \in Drafted => event.id \in DOMAIN persisted
  BY DEF LogEvent, Persisted
<1>2. Len(eventLog) \in Nat
  BY Positions DEF ReadModelInv
<1>3. e \in Logged
  <2>1. event \in UNION {EventsIn(f) : f \in Families} /\ 1 + Len(eventLog) \in Nat
    BY <1>2 DEF ReadModelInv
  <2> QED
    BY <2>1 DEF Logged
<1>4. WellFormed(event)
  BY EventsAreWellFormed DEF ReadModelInv
<1>5. e.type = event.type /\ (event.type \in Drafted => e.id = event.id)
  BY <1>4 DEF WellFormed, AtSeq
<1> HIDE DEF e
<1>6. /\ Append(eventLog, e) \in Seq(Logged)
      /\ DOMAIN Append(eventLog, e) = 1 .. Len(eventLog) + 1
      /\ DOMAIN eventLog = 1 .. Len(eventLog)
      /\ \A i \in DOMAIN eventLog : Append(eventLog, e)[i] = eventLog[i]
      /\ Append(eventLog, e)[Len(eventLog) + 1] = e
  BY <1>2, <1>3, AppendGrows, Positions DEF ReadModelInv
<1>7. ASSUME NEW i \in 1 .. Len(eventLog) + 1, Append(eventLog, e)[i].type \in Drafted
      PROVE  Append(eventLog, e)[i].id \in DOMAIN persisted
  <2>1. CASE i = Len(eventLog) + 1
    BY <1>1, <1>5, <1>6, <1>7, <2>1
  <2>2. CASE i # Len(eventLog) + 1
    <3>1. i \in DOMAIN eventLog
      BY <1>2, <1>6, <2>2
    <3> QED
      BY <1>6, <1>7, <3>1 DEF ReadModelInv
  <2> QED
    BY <2>1, <2>2
<1>8. ReadModelParity'
  <2>1. RebuildTables(persisted, Append(eventLog, e))
          = Project(RebuildTables(persisted, eventLog), persisted, e)
    BY <1>3, RebuildGoesOn DEF ReadModelInv
  <2> QED
    BY <1>1, <2>1 DEF ReadModelInv, ReadModelParity
<1> QED
  BY <1>1, <1>6, <1>7, <1>8 DEF ReadModelInv

(* Inv 8 over the whole catalogue of events: the projection tables, kept   *)
(* by the handlers while artifacts are written, are at every moment what a *)
(* rebuild makes of the log (parity.py:46), for any tasks, drafts and      *)
(* length of the log.                                                      *)
THEOREM TablesSurviveRebuild == ReadModelSpec => []ReadModelParity
<1>1. ReadModelInit => ReadModelInv
  <2> SUFFICES ASSUME ReadModelInit PROVE ReadModelInv
    OBVIOUS
  <2>1. <<>> \in Seq(Logged) /\ Len(<<>>) = 0 /\ DOMAIN <<>> = {}
    BY EmptySeq
  <2>2. RebuildTables(persisted, <<>>) = Empty
    <3>1. PICK e : e \notin {}
      OBVIOUS
    <3>2. <<>> \in Seq({e})
      BY EmptySeq
    <3> QED
      BY <3>2, RebuildGoesOn
  <2> QED
    BY <2>1, <2>2 DEF ReadModelInit, ReadModelInv, ReadModelParity
<1>2. ReadModelInv /\ [ReadModelNext]_readModelVars => ReadModelInv'
  <2> SUFFICES ASSUME ReadModelInv, [ReadModelNext]_readModelVars PROVE ReadModelInv'
    OBVIOUS
  <2>1. ASSUME NEW id \in Drafts, WriteArtifact(id) PROVE ReadModelInv'
    BY <2>1, ArtifactsChangeNothing
  <2>2. ASSUME NEW event \in EventsIn(family), LogEvent(event) PROVE ReadModelInv'
    BY <2>2, LoggingProjectsOnce
  <2>3. CASE UNCHANGED readModelVars
    BY <2>3 DEF readModelVars, ReadModelInv, ReadModelParity
  <2> QED
    BY <2>1, <2>2, <2>3 DEF ReadModelNext
<1>3. ReadModelInv => ReadModelParity
  BY DEF ReadModelInv
<1> QED
  BY <1>1, <1>2, <1>3, PTL DEF ReadModelSpec

-----------------------------------------------------------------------------
(***************************************************************************)
(* The read model's tables against its log. The argument has two halves.   *)
(* What a statement does: an INSERT adds one row under a new key, an UPDATE*)
(* and an upsert change the row under one key, a DELETE removes one, and   *)
(* nothing else moves (Proper, Kept); so a handler reads and writes rows by*)
(* key, and only in the tables of its event's family (FamilyKeeps). What the*)
(* log says: each table is related to the whole history by an invariant of *)
(* its own (LifeFits, PlanFits, QueueFits, GrantFits, CostInv), and an event*)
(* more is followed on both sides.                                         *)
(***************************************************************************)
\* A table as the handlers keep it: a sequence of rows under distinct keys.
IsTable(list) ==
  /\ IsSeq(list)
  /\ \A i \in DOMAIN list : "key" \in DOMAIN list[i]
  /\ \A i, j \in DOMAIN list : list[i].key = list[j].key => i = j

\* the tables whose keys are rowids
Numbered ==
  { "verifier_outcomes", "reviewer_certs", "developer_activity", "oss_intake", "oss_worktrees",
    "budget_exceeded", "antibody_queue", "gate_change_queue", "work_item_queue", "retro_runs",
    "commit_identity", "intake_decisions", "adversarial", "maintenance", "trust_grants",
    "assumptions" }

\* the tables are tables, all of them, and rowids are numbers
Proper(tb) ==
  /\ tb = [t \in PROJECTION_TABLES |-> tb[t]]
  /\ \A t \in PROJECTION_TABLES : IsTable(tb[t])
  /\ \A t \in Numbered : \A i \in DOMAIN tb[t] : tb[t][i].key \in Nat

\* what a handler that writes only tables in T may do
Kept(tb, after, T) ==
  /\ Proper(after)
  /\ \A t \in PROJECTION_TABLES \ T : after[t] = tb[t]

(* What SET does to a row. *)
LEMMA WithColumns ==
  ASSUME NEW row, NEW columns
  PROVE  /\ DOMAIN With(row, columns) = DOMAIN row \cup DOMAIN columns
         /\ \A c \in DOMAIN columns : With(row, columns)[c] = columns[c]
         /\ \A c \in DOMAIN row \ DOMAIN columns : With(row, columns)[c] = row[c]
BY DEF With

(* The tables with rowids are tables. *)
LEMMA NumberedTables == Numbered \subseteq PROJECTION_TABLES
BY DEF Numbered, PROJECTION_TABLES

(* Two handlers' statements, one after the other. *)
LEMMA KeptTwice ==
  ASSUME NEW tb, NEW between, NEW after, NEW T, NEW U, Kept(tb, between, T), Kept(between, after, U)
  PROVE  Kept(tb, after, T \cup U)
BY DEF Kept

\* a row as it is stored
Keyed(row, k) == With(row, [key |-> k])

\* t has a new last row x
Added(tb, after, t, x) ==
  /\ Kept(tb, after, {t})
  /\ Len(tb[t]) \in Nat /\ DOMAIN tb[t] = 1 .. Len(tb[t])
  /\ Len(after[t]) = Len(tb[t]) + 1 /\ DOMAIN after[t] = 1 .. Len(tb[t]) + 1
  /\ \A i \in DOMAIN tb[t] : after[t][i] = tb[t][i]
  /\ after[t][Len(tb[t]) + 1] = x

(* INSERT of a row under a new key. *)
LEMMA InsertAdds ==
  ASSUME NEW tb, Proper(tb), NEW t \in PROJECTION_TABLES, NEW k, NEW row, ~HasKey(tb[t], k),
         t \in Numbered => k \in Nat
  PROVE  Added(tb, InsertKeyed(tb, t, k, row), t, Keyed(row, k))
<1> DEFINE l == tb[t]
           after == InsertKeyed(tb, t, k, row)
           x == Keyed(row, k)
<1>1. /\ after = [u \in PROJECTION_TABLES |-> after[u]]
      /\ after[t] = Append(l, x)
      /\ \A u \in PROJECTION_TABLES \ {t} : after[u] = tb[u]
  BY DEF InsertKeyed, Proper, Keyed
<1>2. "key" \in DOMAIN x /\ x["key"] = k
  BY DEF Keyed, With
<1>3. IsSeq(l)
  BY DEF Proper, IsTable
<1>3b. PICK S : l \in Seq(S)
  BY <1>3 DEF IsSeq
<1>4. /\ Append(l, x) \in Seq(S \cup {x})
      /\ Len(l) \in Nat /\ DOMAIN l = 1 .. Len(l)
      /\ Len(Append(l, x)) = Len(l) + 1 /\ DOMAIN Append(l, x) = 1 .. Len(l) + 1
      /\ \A i \in DOMAIN l : Append(l, x)[i] = l[i]
      /\ Append(l, x)[Len(l) + 1] = x
  BY <1>3b, AppendFacts
<1> HIDE DEF after, x
<1>5. \A i \in DOMAIN l : l[i].key # k
  BY DEF HasKey
<1>6. \A i \in DOMAIN Append(l, x) :
        (i \in DOMAIN l /\ Append(l, x)[i] = l[i]) \/ (i = Len(l) + 1 /\ Append(l, x)[i] = x)
  BY <1>4
<1>7. IsTable(after[t])
  <2>1. \A i, j \in DOMAIN Append(l, x) :
           Append(l, x)[i].key = Append(l, x)[j].key => i = j
    <3> SUFFICES ASSUME NEW i \in DOMAIN Append(l, x), NEW j \in DOMAIN Append(l, x),
                        Append(l, x)[i].key = Append(l, x)[j].key
                 PROVE  i = j
      OBVIOUS
    <3> QED
      BY <1>2, <1>5, <1>6 DEF Proper, IsTable
  <2> QED
    <3>1. IsSeq(Append(l, x))
      BY <1>4 DEF IsSeq
    <3>2. \A i \in DOMAIN Append(l, x) : "key" \in DOMAIN Append(l, x)[i]
      BY <1>2, <1>6 DEF Proper, IsTable
    <3> QED
      BY <1>1, <2>1, <3>1, <3>2 DEF IsTable
<1>8. \A u \in Numbered : \A i \in DOMAIN after[u] : after[u][i].key \in Nat
  <2> SUFFICES ASSUME NEW u \in Numbered, NEW i \in DOMAIN after[u]
               PROVE  after[u][i].key \in Nat
    OBVIOUS
  <2>1. CASE u = t
    BY <1>1, <1>2, <1>6, <2>1 DEF Proper
  <2>2. CASE u # t
    BY <1>1, <2>2, NumberedTables DEF Proper
  <2> QED
    BY <2>1, <2>2
<1>9. Kept(tb, after, {t})
  BY <1>1, <1>7, <1>8 DEF Kept, Proper
<1> QED
  BY <1>1, <1>4, <1>9 DEF after, x, Added

(* A table is a sequence of the rows it holds. *)
LEMMA TableFacts ==
  ASSUME NEW l, IsTable(l)
  PROVE  /\ Len(l) \in Nat /\ DOMAIN l = 1 .. Len(l)
         /\ l \in Seq(Held(l))
<1>1. PICK S : l \in Seq(S)
  BY DEF IsTable, IsSeq
<1>2. Len(l) \in Nat /\ DOMAIN l = 1 .. Len(l) /\ l = [i \in DOMAIN l |-> l[i]]
  BY <1>1
<1>3. \A i \in DOMAIN l : l[i] \in Held(l)
  BY DEF Held
<1> QED
  BY <1>1, <1>2, <1>3, RewriteHolds

(* The next rowid is above every rowid there is. *)
LEMMA NextKeyIsNew ==
  ASSUME NEW tb, Proper(tb), NEW t \in Numbered
  PROVE  NextKey(tb[t]) \in Nat /\ \A i \in DOMAIN tb[t] : tb[t][i].key < NextKey(tb[t])
<1> DEFINE l == tb[t]
           T == {0} \cup {r.key : r \in Held(l)}
           keys == [i \in DOMAIN l |-> l[i].key]
<1>1. /\ Len(l) \in Nat /\ DOMAIN l = 1 .. Len(l)
      /\ \A i \in DOMAIN l : l[i].key \in Nat
  BY NumberedTables, TableFacts DEF Proper
<1> HIDE DEF l
<1>2. T = {0} \cup {keys[i] : i \in DOMAIN l}
  BY DEF Held
<1>3. T \subseteq Nat
  BY <1>1, <1>2
<1> HIDE DEF T
<1>4. \E m \in T : \A k \in T : k <= m
  <2>1. CASE Len(l) = 0
    <3>1. \A k \in T : k = 0
      BY <1>1, <1>2, <2>1
    <3> QED
      BY <1>2, <3>1
  <2>2. CASE Len(l) # 0
    <3>1. PICK m \in 1 .. Len(l) : \A i \in 1 .. Len(l) : keys[i] <= keys[m]
      <4>1. Len(l) \in Nat \ {0} /\ \A i \in 1 .. Len(l) : keys[i] \in Nat
        BY <1>1, <2>2
      <4> HIDE DEF keys
      <4> QED
        BY <4>1, LargestValue
    <3>2. keys[m] \in T
      BY <1>1, <1>2
    <3>3. \A k \in T : k = 0 \/ \E i \in 1 .. Len(l) : k = keys[i]
      BY <1>1, <1>2
    <3>4. 0 <= keys[m]
      BY <1>3, <3>2
    <3> HIDE DEF keys
    <3>5. \A k \in T : k <= keys[m]
      BY <3>1, <3>3, <3>4
    <3> QED
      BY <3>2, <3>5
  <2> QED
    BY <1>1, <2>1, <2>2
<1>5. Max(T) \in T /\ \A k \in T : k <= Max(T)
  BY <1>4 DEF Max
<1>6. NextKey(l) = 1 + Max(T)
  BY DEF NextKey, T
<1>7. \A i \in DOMAIN l : l[i].key \in T
  BY <1>2
<1>8. NextKey(l) \in Nat /\ \A i \in DOMAIN l : l[i].key < NextKey(l)
  <2>1. Max(T) \in Nat
    BY <1>3, <1>5
  <2> HIDE DEF keys
  <2>2. ASSUME NEW i \in DOMAIN l PROVE l[i].key < 1 + Max(T)
    <3>1. l[i].key \in Nat /\ l[i].key <= Max(T)
      BY <1>1, <1>5, <1>7
    <3> QED
      BY <2>1, <3>1
  <2> QED
    BY <1>6, <2>1, <2>2
<1> QED
  BY <1>8 DEF l

(* INSERT of a row under the next rowid. *)
LEMMA InsertRowAdds ==
  ASSUME NEW tb, Proper(tb), NEW t \in Numbered, NEW row
  PROVE  Added(tb, InsertRow(tb, t, row), t, Keyed(row, NextKey(tb[t])))
<1>1. t \in PROJECTION_TABLES
  BY NumberedTables
<1>2. NextKey(tb[t]) \in Nat /\ \A i \in DOMAIN tb[t] : tb[t][i].key < NextKey(tb[t])
  BY NextKeyIsNew
<1>3. ~HasKey(tb[t], NextKey(tb[t]))
  <2>1. \A i \in DOMAIN tb[t] : tb[t][i].key \in Nat
    BY DEF Proper
  <2> QED
    BY <1>2, <2>1 DEF HasKey
<1> QED
  BY <1>1, <1>2, <1>3, InsertAdds DEF InsertRow

(* Either INSERT leaves the other tables alone. *)
LEMMA InsertsKeep ==
  ASSUME NEW tb, Proper(tb), NEW t \in PROJECTION_TABLES, NEW row
  PROVE  /\ \A k : ~HasKey(tb[t], k) /\ (t \in Numbered => k \in Nat) =>
                   Kept(tb, InsertKeyed(tb, t, k, row), {t})
         /\ t \in Numbered => Kept(tb, InsertRow(tb, t, row), {t})
<1>1. ASSUME NEW k, ~HasKey(tb[t], k), t \in Numbered => k \in Nat
      PROVE  Kept(tb, InsertKeyed(tb, t, k, row), {t})
  BY <1>1, InsertAdds DEF Added
<1>2. ASSUME t \in Numbered PROVE Kept(tb, InsertRow(tb, t, row), {t})
  BY <1>2, InsertRowAdds DEF Added
<1> QED
  BY <1>1, <1>2

(* UPDATE of the row under a key. *)
LEMMA UpdateSets ==
  ASSUME NEW tb, Proper(tb), NEW t \in PROJECTION_TABLES, NEW k, NEW columns, "key" \notin DOMAIN columns
  PROVE  LET l == tb[t]
             new == UpdateAt(tb, t, k, columns)[t]
         IN  /\ Kept(tb, UpdateAt(tb, t, k, columns), {t})
             /\ Len(l) \in Nat /\ DOMAIN l = 1 .. Len(l)
             /\ Len(new) = Len(l) /\ DOMAIN new = DOMAIN l
             /\ \A i \in DOMAIN l : new[i] = IF l[i].key = k THEN With(l[i], columns) ELSE l[i]
             /\ \A i \in DOMAIN l : new[i].key = l[i].key
<1> DEFINE l == tb[t]
           after == UpdateAt(tb, t, k, columns)
           new == [i \in DOMAIN l |-> IF l[i].key = k THEN With(l[i], columns) ELSE l[i]]
<1>1. /\ after = [u \in PROJECTION_TABLES |-> after[u]]
      /\ after[t] = new
      /\ \A u \in PROJECTION_TABLES \ {t} : after[u] = tb[u]
  BY DEF UpdateAt, Proper
<1>2. IsTable(l)
  BY DEF Proper
<1>3. Len(l) \in Nat /\ DOMAIN l = 1 .. Len(l) /\ l \in Seq(Held(l))
  BY <1>2, TableFacts
<1>4. /\ DOMAIN new = DOMAIN l /\ new = [i \in DOMAIN l |-> new[i]]
      /\ \A i \in DOMAIN l : new[i] = IF l[i].key = k THEN With(l[i], columns) ELSE l[i]
  OBVIOUS
<1> HIDE DEF after, new
<1>5. ASSUME NEW i \in DOMAIN l PROVE "key" \in DOMAIN new[i] /\ new[i].key = l[i].key
  <2>1. "key" \in DOMAIN l[i]
    BY <1>2 DEF IsTable
  <2>2. "key" \in DOMAIN With(l[i], columns) /\ With(l[i], columns)["key"] = l[i]["key"]
    BY <2>1 DEF With
  <2> QED
    BY <1>4, <2>1, <2>2
<1>6. IsSeq(new) /\ Len(new) = Len(l)
  <2>1. \A i \in DOMAIN l : new[i] \in {new[j] : j \in DOMAIN l}
    OBVIOUS
  <2>2. new \in Seq({new[j] : j \in DOMAIN l})
    BY <1>3, <1>4, <2>1, RewriteHolds
  <2> QED
    <3>1. Len(new) \in Nat /\ DOMAIN new = 1 .. Len(new)
      BY <2>2, Positions
    <3>2. 1 .. Len(new) = 1 .. Len(l)
      BY <1>3, <1>4, <3>1
    <3>3. Len(new) = Len(l)
      BY <1>3, <3>1, <3>2
    <3> QED
      BY <2>2, <3>3, SMTT(30) DEF IsSeq
<1>7. IsTable(new)
  <2>1. \A i, j \in DOMAIN l : l[i].key = l[j].key => i = j
    BY <1>2 DEF IsTable
  <2>2. \A i, j \in DOMAIN l : new[i].key = new[j].key => i = j
    BY <1>5, <2>1
  <2>3. \A i \in DOMAIN l : "key" \in DOMAIN new[i]
    BY <1>5
  <2> QED
    BY <1>4, <1>6, <2>2, <2>3, Zenon DEF IsTable
<1>8. \A u \in Numbered : \A i \in DOMAIN after[u] : after[u][i].key \in Nat
  <2> SUFFICES ASSUME NEW u \in Numbered, NEW i \in DOMAIN after[u]
               PROVE  after[u][i].key \in Nat
    OBVIOUS
  <2>1. CASE u = t
    <3>1. i \in DOMAIN l /\ l[i].key \in Nat
      BY <1>1, <1>4, <2>1 DEF Proper
    <3> QED
      BY <1>1, <1>5, <2>1, <3>1
  <2>2. CASE u # t
    BY <1>1, <2>2, NumberedTables DEF Proper
  <2> QED
    BY <2>1, <2>2
<1>9. Kept(tb, after, {t})
  BY <1>1, <1>7, <1>8 DEF Kept, Proper
<1> QED
  BY <1>1, <1>3, <1>4, <1>5, <1>6, <1>9 DEF after

(* The row under a key is the row with that key. *)
LEMMA RowByKey ==
  ASSUME NEW l, IsTable(l)
  PROVE  /\ \A i \in DOMAIN l : HasKey(l, l[i].key) /\ RowWith(l, l[i].key) = l[i]
         /\ \A k : HasKey(l, k) => \E i \in DOMAIN l : l[i].key = k /\ RowWith(l, k) = l[i]
BY DEF IsTable, HasKey, RowWith

(* ON CONFLICT DO UPDATE. *)
LEMMA UpsertKeeps ==
  ASSUME NEW tb, Proper(tb), NEW t \in PROJECTION_TABLES \ Numbered, NEW k, NEW row, NEW columns,
         "key" \notin DOMAIN columns
  PROVE  Kept(tb, Upsert(tb, t, k, row, columns), {t})
<1>1. CASE HasKey(tb[t], k)
  BY <1>1, UpdateSets DEF Upsert
<1>2. CASE ~HasKey(tb[t], k)
  BY <1>2, InsertAdds DEF Upsert, Added
<1> QED
  BY <1>1, <1>2

(* INSERT OR IGNORE. *)
LEMMA InsertNewKeeps ==
  ASSUME NEW tb, Proper(tb), NEW t \in PROJECTION_TABLES \ Numbered, NEW k, NEW row
  PROVE  Kept(tb, InsertNew(tb, t, k, row), {t})
<1>1. CASE HasKey(tb[t], k)
  BY <1>1 DEF InsertNew, Kept
<1>2. CASE ~HasKey(tb[t], k)
  BY <1>2, InsertAdds DEF InsertNew, Added
<1> QED
  BY <1>1, <1>2

(* An update writes its own table and no other. *)
LEMMA UpdateKeeps ==
  ASSUME NEW tb, Proper(tb), NEW t \in PROJECTION_TABLES, NEW k, NEW columns, "key" \notin DOMAIN columns
  PROVE  Kept(tb, UpdateAt(tb, t, k, columns), {t})
BY UpdateSets, Zenon

(* What the rows say by key after an update and after an upsert. *)
LEMMA UpdateReads ==
  ASSUME NEW tb, Proper(tb), NEW t \in PROJECTION_TABLES, NEW k, NEW columns, "key" \notin DOMAIN columns
  PROVE  LET new == UpdateAt(tb, t, k, columns)[t]
         IN  \A j : /\ HasKey(new, j) <=> HasKey(tb[t], j)
                    /\ HasKey(tb[t], j) =>
                         RowWith(new, j) = IF j = k THEN With(RowWith(tb[t], j), columns)
                                                    ELSE RowWith(tb[t], j)
<1> DEFINE l == tb[t]
           new == UpdateAt(tb, t, k, columns)[t]
<1>1. /\ DOMAIN new = DOMAIN l
      /\ \A i \in DOMAIN l : new[i] = IF l[i].key = k THEN With(l[i], columns) ELSE l[i]
      /\ \A i \in DOMAIN l : new[i].key = l[i].key
      /\ IsTable(new)
  BY UpdateSets, SMTT(30) DEF Kept, Proper
<1>2. IsTable(l)
  BY DEF Proper
<1> HIDE DEF l, new
<1> SUFFICES ASSUME NEW j
             PROVE  /\ HasKey(new, j) <=> HasKey(l, j)
                    /\ HasKey(l, j) =>
                         RowWith(new, j) = IF j = k THEN With(RowWith(l, j), columns) ELSE RowWith(l, j)
  BY DEF l, new
<1>3. HasKey(new, j) <=> HasKey(l, j)
  BY <1>1 DEF HasKey
<1>4. ASSUME HasKey(l, j)
      PROVE  RowWith(new, j) = IF j = k THEN With(RowWith(l, j), columns) ELSE RowWith(l, j)
  <2>1. PICK i \in DOMAIN l : l[i].key = j /\ RowWith(l, j) = l[i]
    BY <1>2, <1>4, RowByKey
  <2>2. RowWith(new, j) = new[i]
    BY <1>1, <2>1, RowByKey
  <2> QED
    BY <1>1, <2>1, <2>2
<1> QED
  BY <1>3, <1>4

(* What the rows say by key after an upsert. *)
LEMMA UpsertReads ==
  ASSUME NEW tb, Proper(tb), NEW t \in PROJECTION_TABLES \ Numbered, NEW k, NEW row, NEW columns,
         "key" \notin DOMAIN columns
  PROVE  LET new == Upsert(tb, t, k, row, columns)[t]
         IN  /\ \A j : HasKey(new, j) <=> HasKey(tb[t], j) \/ j = k
             /\ \A j : j # k /\ HasKey(tb[t], j) => RowWith(new, j) = RowWith(tb[t], j)
             /\ HasKey(tb[t], k) => RowWith(new, k) = With(RowWith(tb[t], k), columns)
             /\ ~HasKey(tb[t], k) => RowWith(new, k) = Keyed(row, k)
<1>1. CASE HasKey(tb[t], k)
  <2>1. Upsert(tb, t, k, row, columns) = UpdateAt(tb, t, k, columns)
    BY <1>1 DEF Upsert
  <2> QED
    BY <1>1, <2>1, UpdateReads
<1>2. CASE ~HasKey(tb[t], k)
  <2> DEFINE l == tb[t]
             new == InsertKeyed(tb, t, k, row)[t]
             x == Keyed(row, k)
  <2>1. /\ Len(l) \in Nat /\ DOMAIN l = 1 .. Len(l) /\ DOMAIN new = 1 .. Len(l) + 1
        /\ \A i \in DOMAIN l : new[i] = l[i]
        /\ new[Len(l) + 1] = x
        /\ IsTable(new)
    <3>1. Added(tb, InsertKeyed(tb, t, k, row), t, x)
      BY <1>2, InsertAdds
    <3>2. IsTable(new)
      BY <3>1 DEF Added, Kept, Proper
    <3> QED
      BY <3>1, <3>2 DEF Added
  <2>2. IsTable(l)
    BY DEF Proper
  <2>3. x["key"] = k
    BY DEF Keyed, With
  <2>4. Upsert(tb, t, k, row, columns)[t] = new
    BY <1>2 DEF Upsert
  <2> HIDE DEF new, x, l
  <2>5. \A i \in DOMAIN new : i \in DOMAIN l \/ i = Len(l) + 1
    BY <2>1
  <2>6. DOMAIN l \subseteq DOMAIN new /\ Len(l) + 1 \in DOMAIN new
    BY <2>1
  <2>7. \A j : HasKey(new, j) <=> HasKey(l, j) \/ j = k
    BY <2>1, <2>3, <2>5, <2>6 DEF HasKey
  <2>8. ASSUME NEW j, HasKey(l, j) PROVE RowWith(new, j) = RowWith(l, j)
    <3>1. PICK i \in DOMAIN l : l[i].key = j /\ RowWith(l, j) = l[i]
      BY <2>2, <2>8, RowByKey
    <3>2. i \in DOMAIN new /\ new[i].key = j
      BY <2>1, <2>6, <3>1
    <3> QED
      BY <2>1, <3>1, <3>2, RowByKey
  <2>9. RowWith(new, k) = x
    BY <2>1, <2>3, <2>6, RowByKey
  <2> QED
    BY <1>2, <2>4, <2>7, <2>8, <2>9 DEF l, x
<1> QED
  BY <1>1, <1>2

(* DELETE of the row under a key. *)
LEMMA DeleteKeeps ==
  ASSUME NEW tb, Proper(tb), NEW t \in PROJECTION_TABLES, NEW k
  PROVE  Kept(tb, DeleteAt(tb, t, k), {t})
<1> DEFINE l == tb[t]
           T == {r \in Held(l) : r.key # k}
           after == DeleteAt(tb, t, k)
<1>1. /\ after = [u \in PROJECTION_TABLES |-> after[u]]
      /\ after[t] = Keep(l, T)
      /\ \A u \in PROJECTION_TABLES \ {t} : after[u] = tb[u]
  BY DEF DeleteAt, Proper
<1>2. IsTable(l)
  BY DEF Proper
<1>3. l \in Seq(Held(l))
  BY <1>2, TableFacts
<1> HIDE DEF after, T
<1>4. Keep(l, T) \in Seq(Held(l)) /\ Held(Keep(l, T)) \subseteq Held(l)
  BY <1>3, KeepHolds
<1>5. \A i, j \in DOMAIN Keep(l, T) : Keep(l, T)[i] = Keep(l, T)[j] => i = j
  <2>1. \A i, j \in DOMAIN l : l[i] = l[j] => i = j
    BY <1>2 DEF IsTable
  <2> QED
    BY <1>3, <2>1, KeepApart
<1>6. \A i \in DOMAIN Keep(l, T) : \E j \in DOMAIN l : Keep(l, T)[i] = l[j]
  BY <1>4 DEF Held
<1>7. IsTable(Keep(l, T))
  BY <1>2, <1>4, <1>5, <1>6 DEF IsTable, IsSeq
<1>8. \A u \in Numbered : \A i \in DOMAIN after[u] : after[u][i].key \in Nat
  <2> SUFFICES ASSUME NEW u \in Numbered, NEW i \in DOMAIN after[u]
               PROVE  after[u][i].key \in Nat
    OBVIOUS
  <2>1. CASE u = t
    <3>1. \E j \in DOMAIN l : after[u][i] = l[j]
      BY <1>1, <1>6, <2>1
    <3> QED
      BY <2>1, <3>1 DEF Proper
  <2>2. CASE u # t
    BY <1>1, <2>2, NumberedTables DEF Proper
  <2> QED
    BY <2>1, <2>2
<1> QED
  BY <1>1, <1>7, <1>8 DEF Kept, Proper, after

-----------------------------------------------------------------------------
(***************************************************************************)
(* The handlers, by the tables they write.                                 *)
(***************************************************************************)
(* The handlers of one statement write the one table they name. *)
LEMMA OneStatementKeeps ==
  ASSUME NEW tb, Proper(tb), NEW e
  PROVE  /\ Kept(tb, HandleConnectionOpened(tb, e), {"role_state"})
         /\ Kept(tb, HandleRoleTransitioned(tb, e), {"role_state"})
         /\ Kept(tb, HandleIntentProposed(tb, e), {"task_queue"})
         /\ Kept(tb, HandleQuestionAsked(tb, e), {"questions"})
         /\ Kept(tb, HandleCostSpent(tb, e), {"cost"})
         /\ Kept(tb, HandleRewindPerformed(tb, e), {"checkpoints"})
         /\ Kept(tb, HandleAntibodyRevoked(tb, e), {"antibody_library"})
         /\ Kept(tb, HandleMemoryEntryVerified(tb, e), {"memory"})
         /\ Kept(tb, HandleQuestionAnswered(tb, e), {"questions"})
         /\ Kept(tb, HandleVerifierOutcome(tb, e), {"verifier_outcomes"})
         /\ Kept(tb, HandleReviewerCertified(tb, e), {"reviewer_certs"})
         /\ Kept(tb, HandleReviewerRejected(tb, e), {"reviewer_certs"})
         /\ Kept(tb, HandleWriteAttempted(tb, e), {"developer_activity"})
         /\ Kept(tb, HandleWriteApplied(tb, e), {"developer_activity"})
         /\ Kept(tb, HandleOssTaskIntake(tb, e), {"oss_intake"})
         /\ Kept(tb, HandleOssWorktreeCreated(tb, e), {"oss_worktrees"})
         /\ Kept(tb, HandleAntibodyCandidate(tb, e), {"antibody_queue"})
         /\ Kept(tb, HandleGateChangeCandidate(tb, e), {"gate_change_queue"})
         /\ Kept(tb, HandleWorkItemCandidate(tb, e), {"work_item_queue"})
         /\ Kept(tb, HandleRetroRun(tb, e), {"retro_runs"})
         /\ Kept(tb, HandleCommitIdentityAssigned(tb, e), {"commit_identity"})
         /\ Kept(tb, HandleIntakeDecision(tb, e), {"intake_decisions"})
         /\ Kept(tb, HandleAdversarialTestRun(tb, e), {"adversarial"})
         /\ Kept(tb, HandleMaintenanceTick(tb, e), {"maintenance"})
         /\ Kept(tb, HandleMaintenanceAction(tb, e), {"maintenance"})
         /\ Kept(tb, HandleTrustGranted(tb, e), {"trust_grants"})
         /\ Kept(tb, HandleAssumptionFlagged(tb, e), {"assumptions"})
         /\ Kept(tb, HandleMemoryEntryCreated(tb, e), {"memory"})
         /\ Kept(tb, HandleSignalRetroRun(tb, e), {"signal_retro_runs"})
         /\ Kept(tb, HandleWriteLockAcquired(tb, e), {"lock"})
         /\ Kept(tb, HandleTrustGrantPruned(tb, e), {"trust_grants"})
         /\ Kept(tb, HandleWriteLockReleased(tb, e), {"lock"})
<1>1. Kept(tb, HandleConnectionOpened(tb, e), {"role_state"})
  BY UpsertKeeps DEF HandleConnectionOpened, Numbered, PROJECTION_TABLES
<1>2. Kept(tb, HandleRoleTransitioned(tb, e), {"role_state"})
  BY UpsertKeeps DEF HandleRoleTransitioned, Numbered, PROJECTION_TABLES
<1>3. Kept(tb, HandleIntentProposed(tb, e), {"task_queue"})
  BY UpsertKeeps DEF HandleIntentProposed, Numbered, PROJECTION_TABLES
<1>4. Kept(tb, HandleQuestionAsked(tb, e), {"questions"})
  BY UpsertKeeps DEF HandleQuestionAsked, Numbered, PROJECTION_TABLES
<1>5. Kept(tb, HandleCostSpent(tb, e), {"cost"})
  BY UpsertKeeps DEF HandleCostSpent, Numbered, PROJECTION_TABLES
<1>6. Kept(tb, HandleRewindPerformed(tb, e), {"checkpoints"})
  BY UpdateSets DEF HandleRewindPerformed, Numbered, PROJECTION_TABLES
<1>7. Kept(tb, HandleAntibodyRevoked(tb, e), {"antibody_library"})
  BY UpdateSets DEF HandleAntibodyRevoked, Numbered, PROJECTION_TABLES
<1>8. Kept(tb, HandleMemoryEntryVerified(tb, e), {"memory"})
  BY UpdateSets DEF HandleMemoryEntryVerified, Numbered, PROJECTION_TABLES
<1>9. Kept(tb, HandleQuestionAnswered(tb, e), {"questions"})
  BY UpdateSets DEF HandleQuestionAnswered, Numbered, PROJECTION_TABLES
<1>10. Kept(tb, HandleVerifierOutcome(tb, e), {"verifier_outcomes"})
  BY InsertsKeep DEF HandleVerifierOutcome, Numbered, PROJECTION_TABLES
<1>11. Kept(tb, HandleReviewerCertified(tb, e), {"reviewer_certs"})
  BY InsertsKeep DEF HandleReviewerCertified, Numbered, PROJECTION_TABLES
<1>12. Kept(tb, HandleReviewerRejected(tb, e), {"reviewer_certs"})
  BY InsertsKeep DEF HandleReviewerRejected, Numbered, PROJECTION_TABLES
<1>13. Kept(tb, HandleWriteAttempted(tb, e), {"developer_activity"})
  BY InsertsKeep DEF HandleWriteAttempted, DeveloperActivity, Numbered, PROJECTION_TABLES
<1>14. Kept(tb, HandleWriteApplied(tb, e), {"developer_activity"})
  BY InsertsKeep DEF HandleWriteApplied, DeveloperActivity, Numbered, PROJECTION_TABLES
<1>15. Kept(tb, HandleOssTaskIntake(tb, e), {"oss_intake"})
  BY InsertsKeep DEF HandleOssTaskIntake, Numbered, PROJECTION_TABLES
<1>16. Kept(tb, HandleOssWorktreeCreated(tb, e), {"oss_worktrees"})
  BY InsertsKeep DEF HandleOssWorktreeCreated, Numbered, PROJECTION_TABLES
<1>17. Kept(tb, HandleAntibodyCandidate(tb, e), {"antibody_queue"})
  BY InsertsKeep DEF HandleAntibodyCandidate, Numbered, PROJECTION_TABLES
<1>18. Kept(tb, HandleGateChangeCandidate(tb, e), {"gate_change_queue"})
  <2> DEFINE row == [review |-> IF WouldWeakenCoreGate(e.gate, e.change)
                                THEN "rejected" ELSE "pending",
                     reviewed |-> 0, at |-> e.seq]
  <2>1. HandleGateChangeCandidate(tb, e) = InsertRow(tb, "gate_change_queue", row)
    BY DEF HandleGateChangeCandidate
  <2> HIDE DEF row
  <2> QED
    BY <2>1, InsertsKeep DEF Numbered, PROJECTION_TABLES
<1>19. Kept(tb, HandleWorkItemCandidate(tb, e), {"work_item_queue"})
  BY InsertsKeep DEF HandleWorkItemCandidate, Numbered, PROJECTION_TABLES
<1>20. Kept(tb, HandleRetroRun(tb, e), {"retro_runs"})
  BY InsertsKeep DEF HandleRetroRun, Numbered, PROJECTION_TABLES
<1>21. Kept(tb, HandleCommitIdentityAssigned(tb, e), {"commit_identity"})
  BY InsertsKeep DEF HandleCommitIdentityAssigned, Numbered, PROJECTION_TABLES
<1>22. Kept(tb, HandleIntakeDecision(tb, e), {"intake_decisions"})
  BY InsertsKeep DEF HandleIntakeDecision, Numbered, PROJECTION_TABLES
<1>23. Kept(tb, HandleAdversarialTestRun(tb, e), {"adversarial"})
  BY InsertsKeep DEF HandleAdversarialTestRun, Numbered, PROJECTION_TABLES
<1>24. Kept(tb, HandleMaintenanceTick(tb, e), {"maintenance"})
  BY InsertsKeep DEF HandleMaintenanceTick, Numbered, PROJECTION_TABLES
<1>25. Kept(tb, HandleMaintenanceAction(tb, e), {"maintenance"})
  BY InsertsKeep DEF HandleMaintenanceAction, Numbered, PROJECTION_TABLES
<1>26. Kept(tb, HandleTrustGranted(tb, e), {"trust_grants"})
  BY InsertsKeep DEF HandleTrustGranted, Numbered, PROJECTION_TABLES
<1>27. Kept(tb, HandleAssumptionFlagged(tb, e), {"assumptions"})
  BY InsertsKeep DEF HandleAssumptionFlagged, Numbered, PROJECTION_TABLES
<1>28. Kept(tb, HandleMemoryEntryCreated(tb, e), {"memory"})
  BY InsertNewKeeps DEF HandleMemoryEntryCreated, Numbered, PROJECTION_TABLES
<1>29. Kept(tb, HandleSignalRetroRun(tb, e), {"signal_retro_runs"})
  BY InsertNewKeeps DEF HandleSignalRetroRun, Numbered, PROJECTION_TABLES
<1>30. Kept(tb, HandleWriteLockAcquired(tb, e), {"lock"})
  BY InsertNewKeeps DEF HandleWriteLockAcquired, Numbered, PROJECTION_TABLES
<1>31. Kept(tb, HandleTrustGrantPruned(tb, e), {"trust_grants"})
  BY DeleteKeeps DEF HandleTrustGrantPruned, Numbered, PROJECTION_TABLES
<1>32. Kept(tb, HandleWriteLockReleased(tb, e), {"lock"})
  BY DeleteKeeps DEF HandleWriteLockReleased, Numbered, PROJECTION_TABLES
<1> QED
  BY <1>1, <1>2, <1>3, <1>4, <1>5, <1>6, <1>7, <1>8, <1>9, <1>10, <1>11, <1>12, <1>13, <1>14,
     <1>15, <1>16, <1>17, <1>18, <1>19, <1>20, <1>21, <1>22, <1>23, <1>24, <1>25, <1>26, <1>27,
     <1>28, <1>29, <1>30, <1>31, <1>32

(* What a handler of few tables may do, one of more may. *)
LEMMA KeptMore ==
  ASSUME NEW tb, NEW after, NEW T, NEW U, Kept(tb, after, T), T \subseteq U
  PROVE  Kept(tb, after, U)
BY DEF Kept

\* what the INSERTs and the row ids of an event rest on
Fits(tb, e) ==
  /\ e.type = "gate_fired" => ~HasKey(tb["gate_fires"], e.seq)
  /\ e.type = "antibody_added" => ~HasKey(tb["antibody_library"], e.row)
  /\ e.type = "gate_change_enacted" => ~HasKey(tb["enacted_gate_changes"], e.row)
  /\ e.type \in {"candidate_reviewed", "candidate_rejected"} =>
       e.kind \in {"antibody_queue", "gate_change_queue"}

(* The handlers that look before they write. *)
LEMMA GuardedKeeps ==
  ASSUME NEW tb, Proper(tb), NEW e, Fits(tb, e)
  PROVE  /\ e.type = "gate_fired" => Kept(tb, HandleGateFired(tb, e), {"gate_fires"})
         /\ e.type = "antibody_added" => Kept(tb, HandleAntibodyAdded(tb, e), {"antibody_library"})
         /\ e.type = "gate_change_enacted" =>
              Kept(tb, HandleGateChangeEnacted(tb, e), {"enacted_gate_changes"})
         /\ e.type = "candidate_reviewed" =>
              Kept(tb, HandleCandidateReviewed(tb, e), {"antibody_queue", "gate_change_queue"})
         /\ e.type = "candidate_rejected" =>
              Kept(tb, HandleCandidateRejected(tb, e), {"antibody_queue", "gate_change_queue"})
         /\ Kept(tb, HandleBudgetExceeded(tb, e), {"budget_exceeded"})
         /\ Kept(tb, HandleGateRegressionDetected(tb, e), {"adversarial"})
         /\ Kept(tb, HandleTrustRenewed(tb, e), {"trust_grants"})
         /\ Kept(tb, HandleTrustRevoked(tb, e), {"trust_grants"})
<1>1. ASSUME e.type = "gate_fired" PROVE Kept(tb, HandleGateFired(tb, e), {"gate_fires"})
  BY <1>1, InsertsKeep DEF HandleGateFired, Fits, Numbered, PROJECTION_TABLES
<1>2. ASSUME e.type = "antibody_added" PROVE Kept(tb, HandleAntibodyAdded(tb, e), {"antibody_library"})
  BY <1>2, InsertsKeep DEF HandleAntibodyAdded, Fits, Numbered, PROJECTION_TABLES
<1>3. ASSUME e.type = "gate_change_enacted"
      PROVE  Kept(tb, HandleGateChangeEnacted(tb, e), {"enacted_gate_changes"})
  BY <1>3, InsertsKeep DEF HandleGateChangeEnacted, Fits, Numbered, PROJECTION_TABLES
<1>4. ASSUME e.type = "candidate_reviewed"
      PROVE  Kept(tb, HandleCandidateReviewed(tb, e), {"antibody_queue", "gate_change_queue"})
  <2>1. e.kind \in {"antibody_queue", "gate_change_queue"} /\ e.kind \in PROJECTION_TABLES
    BY <1>4 DEF Fits, PROJECTION_TABLES
  <2>2. Kept(tb, HandleCandidateReviewed(tb, e), {e.kind})
    BY <2>1, UpdateSets DEF HandleCandidateReviewed
  <2> QED
    BY <2>1, <2>2, KeptMore
<1>5. ASSUME e.type = "candidate_rejected"
      PROVE  Kept(tb, HandleCandidateRejected(tb, e), {"antibody_queue", "gate_change_queue"})
  <2>1. e.kind \in {"antibody_queue", "gate_change_queue"} /\ e.kind \in PROJECTION_TABLES
    BY <1>5 DEF Fits, PROJECTION_TABLES
  <2>2. Kept(tb, HandleCandidateRejected(tb, e), {e.kind})
    BY <2>1, UpdateSets DEF HandleCandidateRejected
  <2> QED
    BY <2>1, <2>2, KeptMore
<1>6. Kept(tb, tb, {})
  BY DEF Kept
<1>7. Kept(tb, HandleBudgetExceeded(tb, e), {"budget_exceeded"})
  <2>1. CASE e.kind = "token"
    BY <1>6, <2>1, KeptMore DEF HandleBudgetExceeded
  <2>2. CASE e.kind # "token"
    BY <2>2, InsertsKeep DEF HandleBudgetExceeded, Numbered, PROJECTION_TABLES
  <2> QED
    BY <2>1, <2>2
<1>8. Kept(tb, HandleGateRegressionDetected(tb, e), {"adversarial"})
  <2> DEFINE runs == Keep(tb["adversarial"],
                          {r \in Held(tb["adversarial"]) : r.probe = e.probe /\ r.sweep = e.sweep})
  <2>1. CASE runs = <<>>
    <3>1. HandleGateRegressionDetected(tb, e) = tb
      BY <2>1 DEF HandleGateRegressionDetected
    <3> QED
      BY <1>6, <3>1, KeptMore
  <2>2. CASE runs # <<>>
    <3>1. HandleGateRegressionDetected(tb, e)
            = UpdateAt(tb, "adversarial", Last(runs).key, [regression |-> e.seq])
      BY <2>2 DEF HandleGateRegressionDetected
    <3> HIDE DEF runs
    <3> QED
      BY <3>1, UpdateSets DEF PROJECTION_TABLES
  <2> QED
    BY <2>1, <2>2
<1>9. Kept(tb, HandleTrustRenewed(tb, e), {"trust_grants"})
  <2> DEFINE active == ActiveGrantRow(tb, e.class)
  <2>1. CASE active = <<>>
    BY <1>6, <2>1, KeptMore DEF HandleTrustRenewed
  <2>2. CASE active # <<>>
    BY <2>2, UpdateSets DEF HandleTrustRenewed, PROJECTION_TABLES
  <2> QED
    BY <2>1, <2>2
<1>10. Kept(tb, HandleTrustRevoked(tb, e), {"trust_grants"})
  <2> DEFINE active == ActiveGrantRow(tb, e.class)
  <2>1. CASE active = <<>>
    BY <1>6, <2>1, KeptMore DEF HandleTrustRevoked
  <2>2. CASE active # <<>>
    BY <2>2, UpdateSets DEF HandleTrustRevoked, PROJECTION_TABLES
  <2> QED
    BY <2>1, <2>2
<1> QED
  BY <1>1, <1>2, <1>3, <1>4, <1>5, <1>7, <1>8, <1>9, <1>10

(* The handlers of several statements. *)
LEMMA SpecHandlersKeep ==
  ASSUME NEW tb, Proper(tb), NEW docs, NEW e
  PROVE  /\ Kept(tb, HandleSpecDrafted(tb, docs, e), {"draft_spec"})
         /\ Kept(tb, HandlePlanDrafted(tb, docs, e), {"plan"})
         /\ Kept(tb, HandleExplorePassCompleted(tb, docs, e), {"explore_summary"})
         /\ Kept(tb, HandleSpecSigned(tb, e), {"signed_spec", "draft_spec"})
         /\ Kept(tb, HandleCheckpointTaken(tb, e), {"task_queue", "checkpoints"})
<1>1. Kept(tb, HandleSpecDrafted(tb, docs, e), {"draft_spec"})
  BY UpsertKeeps DEF HandleSpecDrafted, Numbered, PROJECTION_TABLES
<1>2. Kept(tb, HandlePlanDrafted(tb, docs, e), {"plan"})
  BY UpsertKeeps DEF HandlePlanDrafted, Numbered, PROJECTION_TABLES
<1>3. Kept(tb, HandleExplorePassCompleted(tb, docs, e), {"explore_summary"})
  BY UpsertKeeps DEF HandleExplorePassCompleted, Numbered, PROJECTION_TABLES
<1>4. Kept(tb, HandleSpecSigned(tb, e), {"signed_spec", "draft_spec"})
  <2> DEFINE row == [signed |-> e.seq]
             signed == Upsert(tb, "signed_spec", e.id, row, row)
  <2>1. Kept(tb, signed, {"signed_spec"})
    BY UpsertKeeps DEF Numbered, PROJECTION_TABLES
  <2>2. HandleSpecSigned(tb, e) = UpdateAt(signed, "draft_spec", e.id, [signed |-> TRUE])
    BY DEF HandleSpecSigned
  <2> HIDE DEF signed
  <2>3. Kept(signed, HandleSpecSigned(tb, e), {"draft_spec"})
    BY <2>1, <2>2, UpdateSets DEF Kept, PROJECTION_TABLES
  <2>4. Kept(tb, HandleSpecSigned(tb, e), {"signed_spec"} \cup {"draft_spec"})
    BY <2>1, <2>3, KeptTwice
  <2> QED
    BY <2>4, KeptMore
<1>5. Kept(tb, HandleCheckpointTaken(tb, e), {"task_queue", "checkpoints"})
  <2> DEFINE state == [state |-> "checkpointed", at |-> e.seq]
             queued == Upsert(tb, "task_queue", e.task, With(state, [class |-> ""]), state)
             row == [task |-> e.task, at |-> e.seq]
  <2>1. Kept(tb, queued, {"task_queue"})
    BY UpsertKeeps DEF Numbered, PROJECTION_TABLES
  <2>2. HandleCheckpointTaken(tb, e)
          = Upsert(queued, "checkpoints", e.checkpoint, With(row, [rewound |-> 0]), row)
    BY DEF HandleCheckpointTaken
  <2> HIDE DEF queued
  <2>3. Kept(queued, HandleCheckpointTaken(tb, e), {"checkpoints"})
    BY <2>1, <2>2, UpsertKeeps DEF Kept, Numbered, PROJECTION_TABLES
  <2>4. Kept(tb, HandleCheckpointTaken(tb, e), {"task_queue"} \cup {"checkpoints"})
    BY <2>1, <2>3, KeptTwice
  <2> QED
    BY <2>4, KeptMore
<1> QED
  BY <1>1, <1>2, <1>3, <1>4, <1>5

(* What the rows say by key once a task is dispatched: its row moves to the plan
   of the event, and that plan's pointer to the task. *)
LEMMA DispatchReads ==
  ASSUME NEW tb, Proper(tb), NEW e
  PROVE  LET after == HandleTaskDispatched(tb, e)
         IN  /\ Kept(tb, after, {"task_dispatched", "plan", "plan_tasks", "developer_activity"})
             /\ \A j : HasKey(after["task_dispatched"], j) <=> HasKey(tb["task_dispatched"], j) \/ j = e.task
             /\ \A j : j # e.task /\ HasKey(tb["task_dispatched"], j) =>
                         RowWith(after["task_dispatched"], j) = RowWith(tb["task_dispatched"], j)
             /\ RowWith(after["task_dispatched"], e.task).plan = e.plan
             /\ \A j : HasKey(after["plan"], j) <=> HasKey(tb["plan"], j)
             /\ \A j : HasKey(tb["plan"], j) =>
                  RowWith(after["plan"], j) =
                    IF j = e.plan THEN With(RowWith(tb["plan"], j),
                                            [state |-> "executing", executing |-> e.task, current |-> e.task])
                    ELSE RowWith(tb["plan"], j)
             /\ \A j : HasKey(after["plan_tasks"], j) <=> HasKey(tb["plan_tasks"], j) \/ j = e.task
             /\ \A j : j # e.task /\ HasKey(tb["plan_tasks"], j) =>
                         RowWith(after["plan_tasks"], j) = RowWith(tb["plan_tasks"], j)
             /\ RowWith(after["plan_tasks"], e.task).state = "running"
<1> DEFINE to == [plan |-> e.plan, at |-> e.seq]
           a == Upsert(tb, "task_dispatched", e.task, to, to)
           set == [state |-> "executing", executing |-> e.task, current |-> e.task]
           b == UpdateAt(a, "plan", e.plan, set)
           running == [state |-> "running", plan |-> e.plan]
           fresh == With(running, [completed |-> 0])
           c == Upsert(b, "plan_tasks", e.task, fresh, running)
           d == DeveloperActivity(c, e)
<1>1. /\ "task_dispatched" \in PROJECTION_TABLES \ Numbered /\ "plan" \in PROJECTION_TABLES
      /\ "plan_tasks" \in PROJECTION_TABLES \ Numbered /\ "developer_activity" \in Numbered
      /\ "developer_activity" \in PROJECTION_TABLES
  BY DEF Numbered, PROJECTION_TABLES
<1>2. HandleTaskDispatched(tb, e) = d
  BY DEF HandleTaskDispatched
<1>3. /\ "key" \notin DOMAIN to /\ "key" \notin DOMAIN set /\ "key" \notin DOMAIN running
      /\ to.plan = e.plan /\ "plan" \in DOMAIN to
      /\ running.state = "running" /\ "state" \in DOMAIN running
  OBVIOUS
<1>4. "state" \in DOMAIN fresh /\ fresh["state"] = "running" /\ "state" # "key" /\ "plan" # "key"
  BY DEF With
<1>5. Kept(tb, a, {"task_dispatched"})
  <2> HIDE DEF to
  <2> QED
    BY <1>1, <1>3, UpsertKeeps
<1>6. /\ \A j : HasKey(a["task_dispatched"], j) <=> HasKey(tb["task_dispatched"], j) \/ j = e.task
      /\ \A j : j # e.task /\ HasKey(tb["task_dispatched"], j) =>
                  RowWith(a["task_dispatched"], j) = RowWith(tb["task_dispatched"], j)
      /\ \/ RowWith(a["task_dispatched"], e.task) = With(RowWith(tb["task_dispatched"], e.task), to)
         \/ RowWith(a["task_dispatched"], e.task) = Keyed(to, e.task)
  <2> HIDE DEF to
  <2> QED
    BY <1>1, <1>3, UpsertReads
<1>7. RowWith(a["task_dispatched"], e.task).plan = e.plan
  BY <1>3, <1>4, <1>6 DEF With, Keyed
<1>8. Proper(a) /\ a["plan"] = tb["plan"] /\ a["plan_tasks"] = tb["plan_tasks"]
  BY <1>5 DEF Kept, PROJECTION_TABLES
<1> HIDE DEF a
<1>9. Kept(a, b, {"plan"})
  <2> HIDE DEF set
  <2> QED
    BY <1>1, <1>3, <1>8, UpdateKeeps
<1>10. \A j : /\ HasKey(b["plan"], j) <=> HasKey(tb["plan"], j)
              /\ HasKey(tb["plan"], j) =>
                   RowWith(b["plan"], j) = IF j = e.plan THEN With(RowWith(tb["plan"], j), set)
                                           ELSE RowWith(tb["plan"], j)
  <2> HIDE DEF set
  <2> QED
    BY <1>1, <1>3, <1>8, UpdateReads
<1>11. /\ Proper(b) /\ b["task_dispatched"] = a["task_dispatched"]
       /\ b["plan_tasks"] = tb["plan_tasks"]
  BY <1>8, <1>9 DEF Kept, PROJECTION_TABLES
<1> HIDE DEF b
<1>12. Kept(b, c, {"plan_tasks"})
  <2> HIDE DEF running, fresh
  <2> QED
    BY <1>1, <1>3, <1>11, UpsertKeeps
<1>13. /\ \A j : HasKey(c["plan_tasks"], j) <=> HasKey(tb["plan_tasks"], j) \/ j = e.task
       /\ \A j : j # e.task /\ HasKey(tb["plan_tasks"], j) =>
                   RowWith(c["plan_tasks"], j) = RowWith(tb["plan_tasks"], j)
       /\ \/ RowWith(c["plan_tasks"], e.task) = With(RowWith(tb["plan_tasks"], e.task), running)
          \/ RowWith(c["plan_tasks"], e.task) = Keyed(fresh, e.task)
  <2> HIDE DEF running, fresh
  <2> QED
    BY <1>1, <1>3, <1>11, UpsertReads
<1>14. RowWith(c["plan_tasks"], e.task).state = "running"
  <2> HIDE DEF fresh
  <2> QED
    BY <1>3, <1>4, <1>13 DEF With, Keyed
<1>15. Proper(c) /\ c["task_dispatched"] = a["task_dispatched"] /\ c["plan"] = b["plan"]
  BY <1>11, <1>12 DEF Kept, PROJECTION_TABLES
<1> HIDE DEF c
<1>16. Kept(c, d, {"developer_activity"})
  BY <1>1, <1>15, InsertsKeep DEF DeveloperActivity
<1>17. /\ d["task_dispatched"] = a["task_dispatched"] /\ d["plan"] = b["plan"]
       /\ d["plan_tasks"] = c["plan_tasks"]
  BY <1>15, <1>16 DEF Kept, PROJECTION_TABLES
<1> HIDE DEF d
<1>18. Kept(tb, d, {"task_dispatched", "plan", "plan_tasks", "developer_activity"})
  BY <1>5, <1>9, <1>12, <1>16 DEF Kept
<1> QED
  BY <1>2, <1>6, <1>7, <1>10, <1>13, <1>14, <1>17, <1>18

(* What the rows say by key once a task is started: its row starts afresh. *)
LEMMA StartReads ==
  ASSUME NEW tb, Proper(tb), NEW e
  PROVE  LET after == HandleTaskStarted(tb, e)
         IN  /\ Kept(tb, after, {"task_started", "task_lifecycle", "developer_activity"})
             /\ \A j : HasKey(after["task_lifecycle"], j) <=> HasKey(tb["task_lifecycle"], j) \/ j = e.task
             /\ \A j : j # e.task /\ HasKey(tb["task_lifecycle"], j) =>
                         RowWith(after["task_lifecycle"], j) = RowWith(tb["task_lifecycle"], j)
             /\ "started" \in DOMAIN RowWith(after["task_lifecycle"], e.task)
             /\ RowWith(after["task_lifecycle"], e.task).started = e.seq
             /\ RowWith(after["task_lifecycle"], e.task).state = "running"
             /\ RowWith(after["task_lifecycle"], e.task).terminal = 0
             /\ RowWith(after["task_lifecycle"], e.task).outcome = ""
<1> DEFINE start == [at |-> e.seq]
           row == [state |-> "running", started |-> e.seq, terminal |-> 0, outcome |-> ""]
           a == Upsert(tb, "task_started", e.task, start, start)
           b == Upsert(a, "task_lifecycle", e.task, row, row)
           c == DeveloperActivity(b, e)
<1>1. /\ "task_started" \in PROJECTION_TABLES \ Numbered
      /\ "task_lifecycle" \in PROJECTION_TABLES \ Numbered
      /\ "developer_activity" \in Numbered /\ "developer_activity" \in PROJECTION_TABLES
  BY DEF Numbered, PROJECTION_TABLES
<1>2. HandleTaskStarted(tb, e) = c
  BY DEF HandleTaskStarted
<1>3. "key" \notin DOMAIN start /\ "key" \notin DOMAIN row
  OBVIOUS
<1>4. Kept(tb, a, {"task_started"})
  <2> HIDE DEF start
  <2> QED
    BY <1>1, <1>3, UpsertKeeps
<1>5. Proper(a) /\ a["task_lifecycle"] = tb["task_lifecycle"]
  BY <1>4 DEF Kept, PROJECTION_TABLES
<1> HIDE DEF a
<1>6. /\ Kept(a, b, {"task_lifecycle"})
      /\ \A j : HasKey(b["task_lifecycle"], j) <=> HasKey(tb["task_lifecycle"], j) \/ j = e.task
      /\ \A j : j # e.task /\ HasKey(tb["task_lifecycle"], j) =>
                  RowWith(b["task_lifecycle"], j) = RowWith(tb["task_lifecycle"], j)
      /\ \/ RowWith(b["task_lifecycle"], e.task) = With(RowWith(tb["task_lifecycle"], e.task), row)
         \/ RowWith(b["task_lifecycle"], e.task) = Keyed(row, e.task)
  <2> HIDE DEF row
  <2> QED
    BY <1>1, <1>3, <1>5, UpsertKeeps, UpsertReads
<1> DEFINE x == RowWith(b["task_lifecycle"], e.task)
<1>7. /\ "started" \in DOMAIN x /\ x.started = e.seq /\ x.state = "running"
      /\ x.terminal = 0 /\ x.outcome = ""
  <2>1. CASE x = With(RowWith(tb["task_lifecycle"], e.task), row)
    <3> HIDE DEF x
    <3> QED
      BY <2>1 DEF With
  <2>2. CASE x = Keyed(row, e.task)
    <3> HIDE DEF x
    <3> QED
      BY <2>2 DEF With, Keyed
  <2> QED
    BY <1>6, <2>1, <2>2
<1>8. Proper(b)
  BY <1>6 DEF Kept
<1> HIDE DEF b
<1>9. Kept(b, c, {"developer_activity"})
  BY <1>1, <1>8, InsertsKeep DEF DeveloperActivity
<1>10. c["task_lifecycle"] = b["task_lifecycle"]
  BY <1>9 DEF Kept, PROJECTION_TABLES
<1> HIDE DEF c
<1>11. Kept(tb, c, {"task_started", "task_lifecycle", "developer_activity"})
  BY <1>4, <1>6, <1>9 DEF Kept
<1> QED
  BY <1>2, <1>6, <1>7, <1>10, <1>11

(* What the rows say by key once a task has ended: the task's rows have the end,
   and the plan it was dispatched by has no pointer. *)
LEMMA TerminalReads ==
  ASSUME NEW tb, Proper(tb), NEW e
  PROVE  LET after == HandleTerminalOutcome(tb, e)
             ended == [state |-> TerminalStateMap(e.outcome), terminal |-> e.seq, outcome |-> e.outcome]
         IN  /\ Kept(tb, after, {"terminal_outcomes", "task_lifecycle", "plan_tasks", "plan"})
             /\ \A j : /\ HasKey(after["task_lifecycle"], j) <=> HasKey(tb["task_lifecycle"], j)
                       /\ HasKey(tb["task_lifecycle"], j) =>
                            RowWith(after["task_lifecycle"], j) =
                              IF j = e.task THEN With(RowWith(tb["task_lifecycle"], j), ended)
                              ELSE RowWith(tb["task_lifecycle"], j)
             /\ \A j : HasKey(after["plan_tasks"], j) <=> HasKey(tb["plan_tasks"], j)
             /\ \A j : j # e.task /\ HasKey(tb["plan_tasks"], j) =>
                         RowWith(after["plan_tasks"], j) = RowWith(tb["plan_tasks"], j)
             /\ \A j : HasKey(after["plan"], j) <=> HasKey(tb["plan"], j)
             /\ \A j : HasKey(tb["plan"], j) =>
                  \/ RowWith(after["plan"], j) = RowWith(tb["plan"], j)
                     /\ ~(/\ HasKey(tb["task_dispatched"], e.task)
                          /\ RowWith(tb["task_dispatched"], e.task).plan = j)
                  \/ \E s : RowWith(after["plan"], j) =
                              With(RowWith(tb["plan"], j),
                                   [state |-> s, terminal |-> e.seq, executing |-> "", current |-> ""])
<1> DEFINE row == [outcome |-> e.outcome, at |-> e.seq]
           ended == [state |-> TerminalStateMap(e.outcome), terminal |-> e.seq, outcome |-> e.outcome]
           tracked == [state |-> TerminalStateMap(e.outcome), completed |-> e.seq]
           a == Upsert(tb, "terminal_outcomes", e.task, row, row)
           b == UpdateAt(a, "task_lifecycle", e.task, ended)
           c == UpdateAt(b, "plan_tasks", e.task, tracked)
           after == HandleTerminalOutcome(tb, e)
<1>1. /\ "terminal_outcomes" \in PROJECTION_TABLES \ Numbered
      /\ "task_lifecycle" \in PROJECTION_TABLES /\ "plan_tasks" \in PROJECTION_TABLES
      /\ "plan" \in PROJECTION_TABLES
  BY DEF Numbered, PROJECTION_TABLES
<1>2. "key" \notin DOMAIN row /\ "key" \notin DOMAIN ended /\ "key" \notin DOMAIN tracked
  OBVIOUS
<1>3. after = IF ~HasKey(tb["task_dispatched"], e.task) THEN c
              ELSE LET p == RowWith(tb["task_dispatched"], e.task).plan
                   IN  UpdateAt(c, "plan", p,
                                [state |-> PlanState(c, p, TerminalStateMap(e.outcome)),
                                 terminal |-> e.seq, executing |-> "", current |-> ""])
  BY DEF HandleTerminalOutcome
<1>4. Kept(tb, a, {"terminal_outcomes"})
  <2> HIDE DEF row
  <2> QED
    BY <1>1, <1>2, UpsertKeeps
<1>5. /\ Proper(a) /\ a["task_lifecycle"] = tb["task_lifecycle"]
      /\ a["plan_tasks"] = tb["plan_tasks"] /\ a["plan"] = tb["plan"]
  BY <1>4 DEF Kept, PROJECTION_TABLES
<1> HIDE DEF a, after
<1>6. /\ Kept(a, b, {"task_lifecycle"})
      /\ \A j : /\ HasKey(b["task_lifecycle"], j) <=> HasKey(tb["task_lifecycle"], j)
                /\ HasKey(tb["task_lifecycle"], j) =>
                     RowWith(b["task_lifecycle"], j) =
                       IF j = e.task THEN With(RowWith(tb["task_lifecycle"], j), ended)
                       ELSE RowWith(tb["task_lifecycle"], j)
  <2> HIDE DEF ended
  <2>1. Kept(a, b, {"task_lifecycle"})
    BY <1>1, <1>2, <1>5, UpdateSets
  <2> QED
    BY <1>1, <1>2, <1>5, <2>1, UpdateReads
<1>7. Proper(b) /\ b["plan_tasks"] = tb["plan_tasks"] /\ b["plan"] = tb["plan"]
  BY <1>5, <1>6 DEF Kept, PROJECTION_TABLES
<1> HIDE DEF b
<1>8. /\ Kept(b, c, {"plan_tasks"})
      /\ \A j : HasKey(c["plan_tasks"], j) <=> HasKey(tb["plan_tasks"], j)
      /\ \A j : j # e.task /\ HasKey(tb["plan_tasks"], j) =>
                  RowWith(c["plan_tasks"], j) = RowWith(tb["plan_tasks"], j)
  <2> HIDE DEF tracked
  <2>1. Kept(b, c, {"plan_tasks"})
    BY <1>1, <1>2, <1>7, UpdateSets
  <2> QED
    BY <1>1, <1>2, <1>7, <2>1, UpdateReads
<1>9. /\ Proper(c) /\ c["plan"] = tb["plan"]
      /\ c["task_lifecycle"] = b["task_lifecycle"]
  BY <1>7, <1>8 DEF Kept, PROJECTION_TABLES
<1> HIDE DEF c
<1>10. Kept(tb, c, {"terminal_outcomes", "task_lifecycle", "plan_tasks", "plan"})
  BY <1>4, <1>6, <1>8 DEF Kept
<1>11. CASE ~HasKey(tb["task_dispatched"], e.task)
  <2>1. after = c
    BY <1>3, <1>11
  <2> HIDE DEF ended
  <2> QED
    BY <1>6, <1>8, <1>9, <1>10, <1>11, <2>1 DEF after, ended
<1>12. CASE HasKey(tb["task_dispatched"], e.task)
  <2> DEFINE p == RowWith(tb["task_dispatched"], e.task).plan
             s == PlanState(c, p, TerminalStateMap(e.outcome))
             set == [state |-> s, terminal |-> e.seq, executing |-> "", current |-> ""]
  <2>1. after = UpdateAt(c, "plan", p, set)
    BY <1>3, <1>12
  <2>2. "key" \notin DOMAIN set
    OBVIOUS
  <2> HIDE DEF p, s
  <2>3. /\ Kept(c, after, {"plan"})
        /\ \A j : /\ HasKey(after["plan"], j) <=> HasKey(tb["plan"], j)
                  /\ HasKey(tb["plan"], j) =>
                       RowWith(after["plan"], j) = IF j = p THEN With(RowWith(tb["plan"], j), set)
                                                   ELSE RowWith(tb["plan"], j)
    <3> HIDE DEF set
    <3>1. Kept(c, after, {"plan"})
      BY <1>1, <1>9, <2>1, <2>2, UpdateSets
    <3> QED
      BY <1>1, <1>9, <2>1, <2>2, <3>1, UpdateReads
  <2>4. after["task_lifecycle"] = b["task_lifecycle"] /\ after["plan_tasks"] = c["plan_tasks"]
    BY <1>9, <2>3 DEF Kept, PROJECTION_TABLES
  <2>5. Kept(tb, after, {"terminal_outcomes", "task_lifecycle", "plan_tasks", "plan"})
    BY <1>10, <2>3 DEF Kept
  <2>6. ASSUME NEW j, HasKey(tb["plan"], j)
        PROVE  \/ RowWith(after["plan"], j) = RowWith(tb["plan"], j)
                  /\ ~(/\ HasKey(tb["task_dispatched"], e.task)
                       /\ RowWith(tb["task_dispatched"], e.task).plan = j)
               \/ \E q : RowWith(after["plan"], j) =
                           With(RowWith(tb["plan"], j),
                                [state |-> q, terminal |-> e.seq, executing |-> "", current |-> ""])
    <3>1. CASE j = p
      BY <2>3, <2>6, <3>1
    <3>2. CASE j # p
      BY <2>3, <2>6, <3>2 DEF p
    <3> QED
      BY <3>1, <3>2
  <2> HIDE DEF ended
  <2> QED
    BY <1>6, <1>8, <2>3, <2>4, <2>5, <2>6 DEF after, ended
<1> QED
  BY <1>11, <1>12

(* The three handlers of a task's work, by the tables they write. *)
LEMMA WorkHandlersKeep ==
  ASSUME NEW tb, Proper(tb), NEW e
  PROVE  /\ Kept(tb, HandleTaskDispatched(tb, e),
                 {"task_dispatched", "plan", "plan_tasks", "developer_activity"})
         /\ Kept(tb, HandleTaskStarted(tb, e), {"task_started", "task_lifecycle", "developer_activity"})
         /\ Kept(tb, HandleTerminalOutcome(tb, e),
                 {"terminal_outcomes", "task_lifecycle", "plan_tasks", "plan"})
<1>1. Kept(tb, HandleTaskDispatched(tb, e), {"task_dispatched", "plan", "plan_tasks", "developer_activity"})
  BY DispatchReads
<1>2. Kept(tb, HandleTaskStarted(tb, e), {"task_started", "task_lifecycle", "developer_activity"})
  BY StartReads
<1>3. Kept(tb, HandleTerminalOutcome(tb, e), {"terminal_outcomes", "task_lifecycle", "plan_tasks", "plan"})
  BY TerminalReads
<1> QED
  BY <1>1, <1>2, <1>3

\* the types of a family's events, and the tables they write
TypesOf(f) ==
  CASE f = "work"     -> { "plan_drafted", "task_dispatched", "task_started",
                           "terminal_outcome" }
    [] f = "evidence" -> { "intent_proposed", "verifier_outcome", "checkpoint_taken",
                           "rewind_performed", "write_attempted", "write_applied",
                           "reviewer_certified", "reviewer_rejected" }
    [] f = "session"  -> { "cost_spent", "project_assembled", "build_target_set",
                           "connection_opened", "role_transitioned", "gate_fired",
                           "write_lock_acquired", "write_lock_released" }
    [] f = "specs"    -> { "question_asked", "question_answered", "assumption_flagged",
                           "spec_drafted", "spec_signed", "explore_pass_completed" }
    [] f = "learning" -> { "antibody_candidate", "retro_run", "gate_change_candidate",
                           "candidate_reviewed", "candidate_rejected", "antibody_added",
                           "antibody_revoked", "gate_change_enacted",
                           "memory_entry_created", "memory_entry_verified",
                           "tier_floor_violation", "work_item_candidate",
                           "invariant_violated", "fault_handling_regression",
                           "signal_retro_run" }
    [] f = "oss"      -> { "oss_worktree_created", "commit_identity_assigned",
                           "oss_task_intake", "intake_decision", "budget_exceeded" }
    [] f = "upkeep"   -> { "maintenance_tick", "maintenance_action",
                           "adversarial_test_run", "gate_regression_detected" }
    [] f = "trust"    -> { "trust_granted", "trust_grant_pruned", "trust_renewed",
                           "trust_revoked" }

\* the tables of a family's events
TablesOf(f) ==
  CASE f = "work"     -> { "task_dispatched", "plan", "plan_tasks", "developer_activity",
                           "task_started", "task_lifecycle", "terminal_outcomes" }
    [] f = "evidence" -> { "task_queue", "verifier_outcomes", "checkpoints",
                           "developer_activity", "reviewer_certs" }
    [] f = "session"  -> { "cost", "role_state", "gate_fires", "lock" }
    [] f = "specs"    -> { "questions", "assumptions", "draft_spec", "signed_spec",
                           "explore_summary" }
    [] f = "learning" -> { "antibody_queue", "retro_runs", "gate_change_queue",
                           "antibody_library", "enacted_gate_changes", "memory",
                           "work_item_queue", "signal_retro_runs" }
    [] f = "oss"      -> { "oss_worktrees", "commit_identity", "oss_intake",
                           "intake_decisions", "budget_exceeded" }
    [] f = "upkeep"   -> { "maintenance", "adversarial" }
    [] f = "trust"    -> { "trust_grants" }

(* An event writes tables of its family only, and leaves them tables. *)
LEMMA FamilyKeeps ==
  ASSUME NEW tb, Proper(tb), NEW docs, NEW e, Fits(tb, e), NEW f \in Families, e.type \in TypesOf(f)
  PROVE  Kept(tb, Project(tb, docs, e), TablesOf(f))
<1>0. Kept(tb, tb, {})
  BY DEF Kept
<1>1. CASE f = "work"
  <2> DEFINE T == TablesOf(f)
  <2>0. T = { "task_dispatched", "plan", "plan_tasks", "developer_activity",
              "task_started", "task_lifecycle", "terminal_outcomes" }
    BY <1>1 DEF TablesOf
  <2> HIDE DEF T
  <2>1. CASE e.type = "plan_drafted"
    <3>1. Project(tb, docs, e) = HandlePlanDrafted(tb, docs, e)
      BY <2>1 DEF Project
    <3> QED
      BY <2>0, <3>1, SpecHandlersKeep, KeptMore DEF T
  <2>2. CASE e.type = "task_dispatched"
    <3>1. Project(tb, docs, e) = HandleTaskDispatched(tb, e)
      BY <2>2 DEF Project
    <3> QED
      BY <2>0, <3>1, WorkHandlersKeep, KeptMore DEF T
  <2>3. CASE e.type = "task_started"
    <3>1. Project(tb, docs, e) = HandleTaskStarted(tb, e)
      BY <2>3 DEF Project
    <3> QED
      BY <2>0, <3>1, WorkHandlersKeep, KeptMore DEF T
  <2>4. CASE e.type = "terminal_outcome"
    <3>1. Project(tb, docs, e) = HandleTerminalOutcome(tb, e)
      BY <2>4 DEF Project
    <3> QED
      BY <2>0, <3>1, WorkHandlersKeep, KeptMore DEF T
  <2> QED
    BY <1>1, <2>1, <2>2, <2>3, <2>4 DEF TypesOf
<1>2. CASE f = "evidence"
  <2> DEFINE T == TablesOf(f)
  <2>0. T = { "task_queue", "verifier_outcomes", "checkpoints", "developer_activity",
              "reviewer_certs" }
    BY <1>2 DEF TablesOf
  <2> HIDE DEF T
  <2>1. CASE e.type = "intent_proposed"
    <3>1. Project(tb, docs, e) = HandleIntentProposed(tb, e)
      BY <2>1 DEF Project
    <3> QED
      BY <2>0, <3>1, OneStatementKeeps, KeptMore DEF T
  <2>2. CASE e.type = "verifier_outcome"
    <3>1. Project(tb, docs, e) = HandleVerifierOutcome(tb, e)
      BY <2>2 DEF Project
    <3> QED
      BY <2>0, <3>1, OneStatementKeeps, KeptMore DEF T
  <2>3. CASE e.type = "checkpoint_taken"
    <3>1. Project(tb, docs, e) = HandleCheckpointTaken(tb, e)
      BY <2>3 DEF Project
    <3> QED
      BY <2>0, <3>1, SpecHandlersKeep, KeptMore DEF T
  <2>4. CASE e.type = "rewind_performed"
    <3>1. Project(tb, docs, e) = HandleRewindPerformed(tb, e)
      BY <2>4 DEF Project
    <3> QED
      BY <2>0, <3>1, OneStatementKeeps, KeptMore DEF T
  <2>5. CASE e.type = "write_attempted"
    <3>1. Project(tb, docs, e) = HandleWriteAttempted(tb, e)
      BY <2>5 DEF Project
    <3> QED
      BY <2>0, <3>1, OneStatementKeeps, KeptMore DEF T
  <2>6. CASE e.type = "write_applied"
    <3>1. Project(tb, docs, e) = HandleWriteApplied(tb, e)
      BY <2>6 DEF Project
    <3> QED
      BY <2>0, <3>1, OneStatementKeeps, KeptMore DEF T
  <2>7. CASE e.type = "reviewer_certified"
    <3>1. Project(tb, docs, e) = HandleReviewerCertified(tb, e)
      BY <2>7 DEF Project
    <3> QED
      BY <2>0, <3>1, OneStatementKeeps, KeptMore DEF T
  <2>8. CASE e.type = "reviewer_rejected"
    <3>1. Project(tb, docs, e) = HandleReviewerRejected(tb, e)
      BY <2>8 DEF Project
    <3> QED
      BY <2>0, <3>1, OneStatementKeeps, KeptMore DEF T
  <2> QED
    BY <1>2, <2>1, <2>2, <2>3, <2>4, <2>5, <2>6, <2>7, <2>8 DEF TypesOf
<1>3. CASE f = "session"
  <2> DEFINE T == TablesOf(f)
  <2>0. T = { "cost", "role_state", "gate_fires", "lock" }
    BY <1>3 DEF TablesOf
  <2> HIDE DEF T
  <2>1. CASE e.type = "cost_spent"
    <3>1. Project(tb, docs, e) = HandleCostSpent(tb, e)
      BY <2>1 DEF Project
    <3> QED
      BY <2>0, <3>1, OneStatementKeeps, KeptMore DEF T
  <2>2. CASE e.type = "project_assembled"
    <3>1. Project(tb, docs, e) = tb
      BY <2>2 DEF Project
    <3> QED
      BY <1>0, <2>0, <3>1, KeptMore DEF T
  <2>3. CASE e.type = "build_target_set"
    <3>1. Project(tb, docs, e) = tb
      BY <2>3 DEF Project
    <3> QED
      BY <1>0, <2>0, <3>1, KeptMore DEF T
  <2>4. CASE e.type = "connection_opened"
    <3>1. Project(tb, docs, e) = HandleConnectionOpened(tb, e)
      BY <2>4 DEF Project
    <3> QED
      BY <2>0, <3>1, OneStatementKeeps, KeptMore DEF T
  <2>5. CASE e.type = "role_transitioned"
    <3>1. Project(tb, docs, e) = HandleRoleTransitioned(tb, e)
      BY <2>5 DEF Project
    <3> QED
      BY <2>0, <3>1, OneStatementKeeps, KeptMore DEF T
  <2>6. CASE e.type = "gate_fired"
    <3>1. Project(tb, docs, e) = HandleGateFired(tb, e)
      BY <2>6 DEF Project
    <3> QED
      BY <2>0, <2>6, <3>1, GuardedKeeps, KeptMore DEF T
  <2>7. CASE e.type = "write_lock_acquired"
    <3>1. Project(tb, docs, e) = HandleWriteLockAcquired(tb, e)
      BY <2>7 DEF Project
    <3> QED
      BY <2>0, <3>1, OneStatementKeeps, KeptMore DEF T
  <2>8. CASE e.type = "write_lock_released"
    <3>1. Project(tb, docs, e) = HandleWriteLockReleased(tb, e)
      BY <2>8 DEF Project
    <3> QED
      BY <2>0, <3>1, OneStatementKeeps, KeptMore DEF T
  <2> QED
    BY <1>3, <2>1, <2>2, <2>3, <2>4, <2>5, <2>6, <2>7, <2>8 DEF TypesOf
<1>4. CASE f = "specs"
  <2> DEFINE T == TablesOf(f)
  <2>0. T = { "questions", "assumptions", "draft_spec", "signed_spec", "explore_summary" }
    BY <1>4 DEF TablesOf
  <2> HIDE DEF T
  <2>1. CASE e.type = "question_asked"
    <3>1. Project(tb, docs, e) = HandleQuestionAsked(tb, e)
      BY <2>1 DEF Project
    <3> QED
      BY <2>0, <3>1, OneStatementKeeps, KeptMore DEF T
  <2>2. CASE e.type = "question_answered"
    <3>1. Project(tb, docs, e) = HandleQuestionAnswered(tb, e)
      BY <2>2 DEF Project
    <3> QED
      BY <2>0, <3>1, OneStatementKeeps, KeptMore DEF T
  <2>3. CASE e.type = "assumption_flagged"
    <3>1. Project(tb, docs, e) = HandleAssumptionFlagged(tb, e)
      BY <2>3 DEF Project
    <3> QED
      BY <2>0, <3>1, OneStatementKeeps, KeptMore DEF T
  <2>4. CASE e.type = "spec_drafted"
    <3>1. Project(tb, docs, e) = HandleSpecDrafted(tb, docs, e)
      BY <2>4 DEF Project
    <3> QED
      BY <2>0, <3>1, SpecHandlersKeep, KeptMore DEF T
  <2>5. CASE e.type = "spec_signed"
    <3>1. Project(tb, docs, e) = HandleSpecSigned(tb, e)
      BY <2>5 DEF Project
    <3> QED
      BY <2>0, <3>1, SpecHandlersKeep, KeptMore DEF T
  <2>6. CASE e.type = "explore_pass_completed"
    <3>1. Project(tb, docs, e) = HandleExplorePassCompleted(tb, docs, e)
      BY <2>6 DEF Project
    <3> QED
      BY <2>0, <3>1, SpecHandlersKeep, KeptMore DEF T
  <2> QED
    BY <1>4, <2>1, <2>2, <2>3, <2>4, <2>5, <2>6 DEF TypesOf
<1>5. CASE f = "learning"
  <2> DEFINE T == TablesOf(f)
  <2>0. T = { "antibody_queue", "retro_runs", "gate_change_queue", "antibody_library",
              "enacted_gate_changes", "memory", "work_item_queue", "signal_retro_runs" }
    BY <1>5 DEF TablesOf
  <2> HIDE DEF T
  <2>1. CASE e.type = "antibody_candidate"
    <3>1. Project(tb, docs, e) = HandleAntibodyCandidate(tb, e)
      BY <2>1 DEF Project
    <3> QED
      BY <2>0, <3>1, OneStatementKeeps, KeptMore DEF T
  <2>2. CASE e.type = "retro_run"
    <3>1. Project(tb, docs, e) = HandleRetroRun(tb, e)
      BY <2>2 DEF Project
    <3> QED
      BY <2>0, <3>1, OneStatementKeeps, KeptMore DEF T
  <2>3. CASE e.type = "gate_change_candidate"
    <3>1. Project(tb, docs, e) = HandleGateChangeCandidate(tb, e)
      BY <2>3 DEF Project
    <3> QED
      BY <2>0, <3>1, OneStatementKeeps, KeptMore DEF T
  <2>4. CASE e.type = "candidate_reviewed"
    <3>1. Project(tb, docs, e) = HandleCandidateReviewed(tb, e)
      BY <2>4 DEF Project
    <3> QED
      BY <2>0, <2>4, <3>1, GuardedKeeps, KeptMore DEF T
  <2>5. CASE e.type = "candidate_rejected"
    <3>1. Project(tb, docs, e) = HandleCandidateRejected(tb, e)
      BY <2>5 DEF Project
    <3> QED
      BY <2>0, <2>5, <3>1, GuardedKeeps, KeptMore DEF T
  <2>6. CASE e.type = "antibody_added"
    <3>1. Project(tb, docs, e) = HandleAntibodyAdded(tb, e)
      BY <2>6 DEF Project
    <3> QED
      BY <2>0, <2>6, <3>1, GuardedKeeps, KeptMore DEF T
  <2>7. CASE e.type = "antibody_revoked"
    <3>1. Project(tb, docs, e) = HandleAntibodyRevoked(tb, e)
      BY <2>7 DEF Project
    <3> QED
      BY <2>0, <3>1, OneStatementKeeps, KeptMore DEF T
  <2>8. CASE e.type = "gate_change_enacted"
    <3>1. Project(tb, docs, e) = HandleGateChangeEnacted(tb, e)
      BY <2>8 DEF Project
    <3> QED
      BY <2>0, <2>8, <3>1, GuardedKeeps, KeptMore DEF T
  <2>9. CASE e.type = "memory_entry_created"
    <3>1. Project(tb, docs, e) = HandleMemoryEntryCreated(tb, e)
      BY <2>9 DEF Project
    <3> QED
      BY <2>0, <3>1, OneStatementKeeps, KeptMore DEF T
  <2>10. CASE e.type = "memory_entry_verified"
    <3>1. Project(tb, docs, e) = HandleMemoryEntryVerified(tb, e)
      BY <2>10 DEF Project
    <3> QED
      BY <2>0, <3>1, OneStatementKeeps, KeptMore DEF T
  <2>11. CASE e.type = "tier_floor_violation"
    <3>1. Project(tb, docs, e) = tb
      BY <2>11 DEF Project
    <3> QED
      BY <1>0, <2>0, <3>1, KeptMore DEF T
  <2>12. CASE e.type = "work_item_candidate"
    <3>1. Project(tb, docs, e) = HandleWorkItemCandidate(tb, e)
      BY <2>12 DEF Project
    <3> QED
      BY <2>0, <3>1, OneStatementKeeps, KeptMore DEF T
  <2>13. CASE e.type = "invariant_violated"
    <3>1. Project(tb, docs, e) = tb
      BY <2>13 DEF Project
    <3> QED
      BY <1>0, <2>0, <3>1, KeptMore DEF T
  <2>14. CASE e.type = "fault_handling_regression"
    <3>1. Project(tb, docs, e) = tb
      BY <2>14 DEF Project
    <3> QED
      BY <1>0, <2>0, <3>1, KeptMore DEF T
  <2>15. CASE e.type = "signal_retro_run"
    <3>1. Project(tb, docs, e) = HandleSignalRetroRun(tb, e)
      BY <2>15 DEF Project
    <3> QED
      BY <2>0, <3>1, OneStatementKeeps, KeptMore DEF T
  <2> QED
    BY <1>5, <2>1, <2>2, <2>3, <2>4, <2>5, <2>6, <2>7, <2>8, <2>9, <2>10, <2>11, <2>12, <2>13,
       <2>14, <2>15
    DEF TypesOf
<1>6. CASE f = "oss"
  <2> DEFINE T == TablesOf(f)
  <2>0. T = { "oss_worktrees", "commit_identity", "oss_intake", "intake_decisions",
              "budget_exceeded" }
    BY <1>6 DEF TablesOf
  <2> HIDE DEF T
  <2>1. CASE e.type = "oss_worktree_created"
    <3>1. Project(tb, docs, e) = HandleOssWorktreeCreated(tb, e)
      BY <2>1 DEF Project
    <3> QED
      BY <2>0, <3>1, OneStatementKeeps, KeptMore DEF T
  <2>2. CASE e.type = "commit_identity_assigned"
    <3>1. Project(tb, docs, e) = HandleCommitIdentityAssigned(tb, e)
      BY <2>2 DEF Project
    <3> QED
      BY <2>0, <3>1, OneStatementKeeps, KeptMore DEF T
  <2>3. CASE e.type = "oss_task_intake"
    <3>1. Project(tb, docs, e) = HandleOssTaskIntake(tb, e)
      BY <2>3 DEF Project
    <3> QED
      BY <2>0, <3>1, OneStatementKeeps, KeptMore DEF T
  <2>4. CASE e.type = "intake_decision"
    <3>1. Project(tb, docs, e) = HandleIntakeDecision(tb, e)
      BY <2>4 DEF Project
    <3> QED
      BY <2>0, <3>1, OneStatementKeeps, KeptMore DEF T
  <2>5. CASE e.type = "budget_exceeded"
    <3>1. Project(tb, docs, e) = HandleBudgetExceeded(tb, e)
      BY <2>5 DEF Project
    <3> QED
      BY <2>0, <2>5, <3>1, GuardedKeeps, KeptMore DEF T
  <2> QED
    BY <1>6, <2>1, <2>2, <2>3, <2>4, <2>5 DEF TypesOf
<1>7. CASE f = "upkeep"
  <2> DEFINE T == TablesOf(f)
  <2>0. T = { "maintenance", "adversarial" }
    BY <1>7 DEF TablesOf
  <2> HIDE DEF T
  <2>1. CASE e.type = "maintenance_tick"
    <3>1. Project(tb, docs, e) = HandleMaintenanceTick(tb, e)
      BY <2>1 DEF Project
    <3> QED
      BY <2>0, <3>1, OneStatementKeeps, KeptMore DEF T
  <2>2. CASE e.type = "maintenance_action"
    <3>1. Project(tb, docs, e) = HandleMaintenanceAction(tb, e)
      BY <2>2 DEF Project
    <3> QED
      BY <2>0, <3>1, OneStatementKeeps, KeptMore DEF T
  <2>3. CASE e.type = "adversarial_test_run"
    <3>1. Project(tb, docs, e) = HandleAdversarialTestRun(tb, e)
      BY <2>3 DEF Project
    <3> QED
      BY <2>0, <3>1, OneStatementKeeps, KeptMore DEF T
  <2>4. CASE e.type = "gate_regression_detected"
    <3>1. Project(tb, docs, e) = HandleGateRegressionDetected(tb, e)
      BY <2>4 DEF Project
    <3> QED
      BY <2>0, <2>4, <3>1, GuardedKeeps, KeptMore DEF T
  <2> QED
    BY <1>7, <2>1, <2>2, <2>3, <2>4 DEF TypesOf
<1>8. CASE f = "trust"
  <2> DEFINE T == TablesOf(f)
  <2>0. T = { "trust_grants" }
    BY <1>8 DEF TablesOf
  <2> HIDE DEF T
  <2>1. CASE e.type = "trust_granted"
    <3>1. Project(tb, docs, e) = HandleTrustGranted(tb, e)
      BY <2>1 DEF Project
    <3> QED
      BY <2>0, <3>1, OneStatementKeeps, KeptMore DEF T
  <2>2. CASE e.type = "trust_grant_pruned"
    <3>1. Project(tb, docs, e) = HandleTrustGrantPruned(tb, e)
      BY <2>2 DEF Project
    <3> QED
      BY <2>0, <3>1, OneStatementKeeps, KeptMore DEF T
  <2>3. CASE e.type = "trust_renewed"
    <3>1. Project(tb, docs, e) = HandleTrustRenewed(tb, e)
      BY <2>3 DEF Project
    <3> QED
      BY <2>0, <2>3, <3>1, GuardedKeeps, KeptMore DEF T
  <2>4. CASE e.type = "trust_revoked"
    <3>1. Project(tb, docs, e) = HandleTrustRevoked(tb, e)
      BY <2>4 DEF Project
    <3> QED
      BY <2>0, <2>4, <3>1, GuardedKeeps, KeptMore DEF T
  <2> QED
    BY <1>8, <2>1, <2>2, <2>3, <2>4 DEF TypesOf
<1> QED
  BY <1>1, <1>2, <1>3, <1>4, <1>5, <1>6, <1>7, <1>8 DEF Families

(* What a logged event says, and that it is one of its family. *)
Says(e, event, n, f) ==
  /\ e.type = event.type /\ e.type \in TypesOf(f) /\ e.seq = n
  /\ e.type \in {"antibody_added", "gate_change_enacted"} => e.row = event.row
  /\ e.type \in {"candidate_reviewed", "candidate_rejected"} =>
       e.row = event.row /\ e.kind = event.kind /\ e.kind \in {"antibody_queue", "gate_change_queue"}
  /\ e.type = "terminal_outcome" => e.outcome \in {"completed", "failed"}
  /\ e.type = "gate_change_candidate" => e.change \in {"tighten", "loosen"}
  /\ e.type = "cost_spent" => e.amount \in Nat

(* The events of the catalogue have the columns their handlers read. *)
LEMMA EventFields ==
  ASSUME NEW f \in Families, NEW event \in EventsIn(f), NEW n
  PROVE  Says(AtSeq(event, n), event, n, f)
<1> DEFINE e == AtSeq(event, n)
<1>1. /\ e.seq = n
      /\ \A c \in DOMAIN event : c # "seq" => e[c] = event[c]
  BY DEF AtSeq
<1>2. "type" \in DOMAIN event /\ e.type = event.type
  BY <1>1, EventsAreWellFormed DEF WellFormed
<1> HIDE DEF e
<1> DEFINE Fields ==
      /\ event.type \in {"antibody_added", "gate_change_enacted"} => "row" \in DOMAIN event
      /\ event.type \in {"candidate_reviewed", "candidate_rejected"} =>
           /\ "row" \in DOMAIN event /\ "kind" \in DOMAIN event
           /\ event.kind \in {"antibody_queue", "gate_change_queue"}
      /\ event.type = "terminal_outcome" =>
           "outcome" \in DOMAIN event /\ event.outcome \in {"completed", "failed"}
      /\ event.type = "gate_change_candidate" =>
           "change" \in DOMAIN event /\ event.change \in {"tighten", "loosen"}
      /\ event.type = "cost_spent" => "amount" \in DOMAIN event /\ event.amount \in Nat
<1>3. event.type \in TypesOf(f) /\ Fields
  <2>1. CASE f = "work"
    BY <2>1 DEF EventsIn, TypesOf, CoreEvents, WriteEvents, ResearchEvents
  <2>2. CASE f = "evidence"
    BY <2>2 DEF EventsIn, TypesOf, CoreEvents, WriteEvents
  <2>3. CASE f = "session"
    BY <2>3 DEF EventsIn, TypesOf, CoreEvents, WriteEvents, SpendEvents
  <2>4. CASE f = "specs"
    BY <2>4 DEF EventsIn, TypesOf, ResearchEvents
  <2>5. CASE f = "learning"
    BY <2>5 DEF EventsIn, TypesOf, LearningEvents, WorkItemEvents, MonitorEvents
  <2>6. CASE f = "oss"
    BY <2>6 DEF EventsIn, TypesOf, OssEvents, IntakeEvents, BudgetEvents
  <2>7. CASE f = "upkeep"
    BY <2>7 DEF EventsIn, TypesOf, UpkeepEvents
  <2>8. CASE f = "trust"
    BY <2>8 DEF EventsIn, TypesOf, TrustEvents, RenewalEvents
  <2> QED
    BY <2>1, <2>2, <2>3, <2>4, <2>5, <2>6, <2>7, <2>8 DEF Families
<1>4. Says(e, event, n, f)
  BY <1>1, <1>2, <1>3 DEF Says
<1> QED
  BY <1>4 DEF e

\* what holds of any family's tables
FamilyInv ==
  /\ family \in Families
  /\ eventLog \in Seq(Logged)
  /\ Proper(tables)
  /\ \A i \in DOMAIN tables["gate_fires"] : tables["gate_fires"][i].key \in 1 .. Len(eventLog)
  /\ \A t \in PROJECTION_TABLES \ TablesOf(family) : tables[t] = <<>>
  /\ \A i \in DOMAIN eventLog : eventLog[i].type \in TypesOf(family)

\* a step that logs e
Logs(e) ==
  /\ eventLog' = Append(eventLog, e)
  /\ tables' = Project(tables, persisted, e)
  /\ family' = family
  /\ e.seq = Len(eventLog) + 1 /\ e.type \in TypesOf(family)
  /\ Len(eventLog) \in Nat /\ DOMAIN eventLog = 1 .. Len(eventLog)
  /\ Len(eventLog') = Len(eventLog) + 1 /\ DOMAIN eventLog' = 1 .. Len(eventLog) + 1
  /\ \A i \in 1 .. Len(eventLog) : eventLog'[i] = eventLog[i]
  /\ eventLog'[Len(eventLog) + 1] = e
  /\ Kept(tables, tables', TablesOf(family))

(* Logging an event of the family keeps its tables in shape and the others empty. *)
LEMMA LoggingKeepsFamily ==
  ASSUME FamilyInv, NEW event \in EventsIn(family), LogEvent(event)
  PROVE  LET e == AtSeq(event, Len(eventLog) + 1)
         IN  /\ FamilyInv'
             /\ Logs(e)
             /\ Says(e, event, Len(eventLog) + 1, family)
<1> DEFINE N == Len(eventLog)
           e == AtSeq(event, N + 1)
<1>1. N \in Nat /\ DOMAIN eventLog = 1 .. N
  BY Positions DEF FamilyInv
<1>2. /\ eventLog' = Append(eventLog, e) /\ tables' = Project(tables, persisted, e)
      /\ family' = family /\ ~Raises(tables, event)
  <2>1. 1 + N = N + 1
    BY <1>1
  <2> QED
    BY <2>1 DEF LogEvent
<1>3. Says(e, event, N + 1, family)
  BY EventFields DEF FamilyInv
<1>4. e \in Logged
  <2> DEFINE m == N + 1
  <2>1. event \in UNION {EventsIn(f) : f \in Families} /\ m \in Nat
    BY <1>1 DEF FamilyInv
  <2> HIDE DEF m
  <2>2. AtSeq(event, m) \in Logged
    BY <2>1 DEF Logged
  <2> QED
    BY <2>2 DEF m
<1> HIDE DEF e
<1>5. /\ eventLog' \in Seq(Logged)
      /\ Len(eventLog') = N + 1 /\ DOMAIN eventLog' = 1 .. N + 1
      /\ \A i \in 1 .. N : eventLog'[i] = eventLog[i]
      /\ eventLog'[N + 1] = e
  BY <1>1, <1>2, <1>4, AppendGrows DEF FamilyInv
<1> HIDE DEF N
<1>6. Fits(tables, e)
  <2>1. e.type = "gate_fired" => ~HasKey(tables["gate_fires"], e.seq)
    BY <1>1, <1>3 DEF FamilyInv, HasKey, Says, N
  <2>2. e.type = "antibody_added" => ~HasKey(tables["antibody_library"], e.row)
    BY <1>2, <1>3 DEF Raises, Says
  <2>3. e.type = "gate_change_enacted" => ~HasKey(tables["enacted_gate_changes"], e.row)
    BY <1>2, <1>3 DEF Raises, Says
  <2> QED
    BY <1>3, <2>1, <2>2, <2>3 DEF Fits, Says
<1>7. Kept(tables, tables', TablesOf(family))
  BY <1>2, <1>3, <1>6, FamilyKeeps DEF FamilyInv, Says
<1>8. Logs(e)
  BY <1>1, <1>2, <1>3, <1>5, <1>7 DEF Logs, Says, N
<1>9. \A i \in DOMAIN tables'["gate_fires"] : tables'["gate_fires"][i].key \in 1 .. N + 1
  <2>0. "gate_fires" \in PROJECTION_TABLES /\ \A k \in 1 .. N : k \in 1 .. N + 1
    BY <1>1 DEF PROJECTION_TABLES
  <2>1. CASE e.type = "gate_fired"
    <3> DEFINE l == tables["gate_fires"]
    <3>1. tables' = InsertKeyed(tables, "gate_fires", e.seq, <<>>)
      BY <1>2, <2>1 DEF Project, HandleGateFired
    <3>2. "gate_fires" \notin Numbered /\ ~HasKey(l, e.seq)
      BY <1>6, <2>1 DEF Numbered, Fits
    <3>3. Added(tables, tables', "gate_fires", Keyed(<<>>, e.seq))
      BY <2>0, <3>1, <3>2, InsertAdds DEF FamilyInv
    <3>4. Keyed(<<>>, e.seq).key = N + 1
      BY <1>3 DEF Keyed, With, Says
    <3>5. \A i \in DOMAIN tables'["gate_fires"] :
             \/ i \in DOMAIN l /\ tables'["gate_fires"][i] = l[i]
             \/ tables'["gate_fires"][i] = Keyed(<<>>, e.seq)
      BY <3>3 DEF Added
    <3> QED
      BY <1>1, <2>0, <3>4, <3>5 DEF FamilyInv, N
  <2>2. CASE e.type # "gate_fired" /\ family = "session"
    <3>1. e.type \in TypesOf("session")
      BY <1>3, <2>2 DEF Says
    <3>2. tables'["gate_fires"] = tables["gate_fires"]
      <4>1. CASE e.type \in {"project_assembled", "build_target_set"}
        BY <1>2, <4>1 DEF Project
      <4>2. CASE e.type = "cost_spent"
        BY <1>2, <2>0, <4>2, OneStatementKeeps DEF Project, Kept, FamilyInv
      <4>3. CASE e.type = "connection_opened"
        BY <1>2, <2>0, <4>3, OneStatementKeeps DEF Project, Kept, FamilyInv
      <4>4. CASE e.type = "role_transitioned"
        BY <1>2, <2>0, <4>4, OneStatementKeeps DEF Project, Kept, FamilyInv
      <4>5. CASE e.type = "write_lock_acquired"
        BY <1>2, <2>0, <4>5, OneStatementKeeps DEF Project, Kept, FamilyInv
      <4>6. CASE e.type = "write_lock_released"
        BY <1>2, <2>0, <4>6, OneStatementKeeps DEF Project, Kept, FamilyInv
      <4> QED
        BY <2>2, <3>1, <4>1, <4>2, <4>3, <4>4, <4>5, <4>6 DEF TypesOf
    <3> QED
      BY <2>0, <3>2 DEF FamilyInv, N
  <2>3. CASE family # "session"
    <3>1. "gate_fires" \notin TablesOf(family)
      BY <2>3 DEF TablesOf, Families, FamilyInv
    <3>2. tables'["gate_fires"] = <<>>
      BY <1>7, <2>0, <3>1 DEF FamilyInv, Kept
    <3> QED
      BY <3>2
  <2> QED
    BY <2>1, <2>2, <2>3
<1>10. FamilyInv'
  <2>1. \A t \in PROJECTION_TABLES \ TablesOf(family) : tables'[t] = <<>>
    BY <1>7 DEF FamilyInv, Kept
  <2>2. \A i \in DOMAIN eventLog' : eventLog'[i].type \in TypesOf(family)
    <3> SUFFICES ASSUME NEW i \in 1 .. N + 1 PROVE eventLog'[i].type \in TypesOf(family)
      BY <1>5
    <3>1. CASE i = N + 1
      BY <1>3, <1>5, <3>1 DEF Says
    <3>2. CASE i # N + 1
      <4>1. i \in 1 .. N
        BY <1>1, <3>2
      <4> QED
        BY <1>1, <1>5, <4>1 DEF FamilyInv
    <3> QED
      BY <3>1, <3>2
  <2> QED
    BY <1>2, <1>5, <1>7, <1>9, <2>1, <2>2 DEF FamilyInv, Kept
<1> QED
  BY <1>3, <1>8, <1>10 DEF e, N

(* The last place of a log that an event was appended to. *)
LEMMA LastIs ==
  ASSUME NEW n \in Nat, NEW S, S \subseteq 1 .. n
  PROVE  /\ LastOf(S \cup {n + 1}) = n + 1
         /\ S # {} => LastOf(S) \in S
<1>1. ASSUME NEW m \in S \cup {n + 1}, \A i \in S \cup {n + 1} : i <= m PROVE m = n + 1
  BY <1>1
<1>2. n + 1 \in S \cup {n + 1} /\ \A i \in S \cup {n + 1} : i <= n + 1
  OBVIOUS
<1>3. S # {} => \E m \in S : \A i \in S : i <= m
  BY LargestExists
<1> QED
  BY <1>1, <1>2, <1>3 DEF LastOf

(* What the log holds of a type after an event more. *)
LEMMA SeqsGrow ==
  ASSUME NEW e, Logs(e), NEW T
  PROVE  /\ SeqsOf(T) \subseteq 1 .. Len(eventLog)
         /\ \A i \in SeqsOf(T) : i \in Nat /\ eventLog'[i] = eventLog[i]
         /\ e.type \in T => SeqsOf(T)' = SeqsOf(T) \cup {Len(eventLog) + 1}
         /\ e.type \notin T => SeqsOf(T)' = SeqsOf(T)
<1> DEFINE N == Len(eventLog)
<1>1. /\ N \in Nat /\ DOMAIN eventLog = 1 .. N /\ DOMAIN eventLog' = 1 .. N + 1
      /\ \A i \in 1 .. N : eventLog'[i] = eventLog[i]
      /\ eventLog'[N + 1] = e
  BY DEF Logs
<1> HIDE DEF N
<1>2. 1 .. N + 1 = (1 .. N) \cup {N + 1} /\ N + 1 \notin 1 .. N
  BY <1>1
<1>3. SeqsOf(T)' = {i \in DOMAIN eventLog' : eventLog'[i].type \in T}
  BY DEF SeqsOf
<1>4. SeqsOf(T) = {i \in DOMAIN eventLog : eventLog[i].type \in T}
  BY DEF SeqsOf
<1>5. e.type \in T => SeqsOf(T)' = SeqsOf(T) \cup {N + 1}
  BY <1>1, <1>2, <1>3, <1>4
<1>6. e.type \notin T => SeqsOf(T)' = SeqsOf(T)
  BY <1>1, <1>2, <1>3, <1>4
<1> QED
  BY <1>1, <1>4, <1>5, <1>6 DEF N

-----------------------------------------------------------------------------
(***************************************************************************)
(* The lifecycle of tasks: the last start, and the last end since.         *)
(***************************************************************************)
\* where the log has a start of the task
StartsOf(t) == {i \in SeqsOf({"task_started"}) : eventLog[i].task = t}

\* where it has an end of the task since its last start
EndsOf(t) == {i \in SeqsOf({"terminal_outcome"}) : eventLog[i].task = t /\ i > LastOf(StartsOf(t))}

\* the row of a started task
LifeFits(t) ==
  LET row == RowWith(tables["task_lifecycle"], t)
  IN  /\ "started" \in DOMAIN row
      /\ row.started = LastOf(StartsOf(t))
      /\ EndsOf(t) = {} => row.state = "running" /\ row.terminal = 0 /\ row.outcome = ""
      /\ EndsOf(t) # {} =>
           /\ row.terminal = LastOf(EndsOf(t))
           /\ row.outcome = eventLog[LastOf(EndsOf(t))].outcome
           /\ row.state = IF row.outcome = "failed" THEN "rejected" ELSE row.outcome

\* the rows of all tasks
LifeInv ==
  \A t \in ModelTasks :
    /\ StartsOf(t) = {} => ~HasKey(tables["task_lifecycle"], t)
    /\ StartsOf(t) # {} => HasKey(tables["task_lifecycle"], t) /\ LifeFits(t)

(* Then the lifecycle table means what the log says. *)
LEMMA LifeMeans == LifeInv => LifecycleMeansLog
<1> SUFFICES ASSUME LifeInv, NEW t \in ModelTasks
             PROVE  LET starts == { i \in SeqsOf({"task_started"}) : eventLog[i].task = t }
                        life == tables["task_lifecycle"]
                    IN  IF starts = {} THEN ~HasKey(life, t)
                        ELSE LET ends == { i \in SeqsOf({"terminal_outcome"}) :
                                             eventLog[i].task = t /\ i > LastOf(starts) }
                                 row == RowWith(life, t)
                             IN  /\ HasKey(life, t)
                                 /\ row.started = LastOf(starts)
                                 /\ IF ends = {}
                                    THEN row.state = "running" /\ row.terminal = 0 /\ row.outcome = ""
                                    ELSE /\ row.terminal = LastOf(ends)
                                         /\ row.outcome = eventLog[LastOf(ends)].outcome
                                         /\ row.state = IF row.outcome = "failed" THEN "rejected"
                                                        ELSE row.outcome
  BY DEF LifecycleMeansLog
<1> QED
  BY DEF LifeInv, LifeFits, StartsOf, EndsOf

(* Only two events touch the lifecycle of tasks. *)
LEMMA LifecycleUntouched ==
  ASSUME FamilyInv, NEW e, Logs(e), e.type \notin {"task_started", "terminal_outcome"}
  PROVE  tables'["task_lifecycle"] = tables["task_lifecycle"]
<1>0. "task_lifecycle" \in PROJECTION_TABLES
  BY DEF PROJECTION_TABLES
<1>1. CASE family # "work"
  <2>1. "task_lifecycle" \notin TablesOf(family)
    BY <1>1 DEF TablesOf, Families, FamilyInv
  <2> QED
    BY <1>0, <2>1 DEF Logs, Kept
<1>2. CASE family = "work"
  <2>1. e.type \in {"plan_drafted", "task_dispatched"}
    BY <1>2 DEF Logs, TypesOf
  <2>2. CASE e.type = "plan_drafted"
    <3>1. tables' = HandlePlanDrafted(tables, persisted, e)
      BY <2>2 DEF Logs, Project
    <3>2. Kept(tables, tables', {"plan"})
      BY <3>1, SpecHandlersKeep DEF FamilyInv
    <3> QED
      BY <1>0, <3>2 DEF Kept
  <2>3. CASE e.type = "task_dispatched"
    <3>1. tables' = HandleTaskDispatched(tables, e)
      BY <2>3 DEF Logs, Project
    <3>2. Kept(tables, tables', {"task_dispatched", "plan", "plan_tasks", "developer_activity"})
      BY <3>1, WorkHandlersKeep DEF FamilyInv
    <3> QED
      BY <1>0, <3>2 DEF Kept
  <2> QED
    BY <2>1, <2>2, <2>3
<1> QED
  BY <1>1, <1>2

(* An event more keeps the rows of all tasks in step with the log. *)
LEMMA LifecycleStep ==
  ASSUME FamilyInv, LifeInv, NEW e, Logs(e),
         e.type = "terminal_outcome" => e.outcome \in {"completed", "failed"}
  PROVE  LifeInv'
<1> DEFINE N == Len(eventLog)
           l == tables["task_lifecycle"]
           k == tables'["task_lifecycle"]
<1>1. N \in Nat /\ eventLog'[N + 1] = e /\ e.seq = N + 1
  BY DEF Logs
<1> SUFFICES ASSUME NEW t \in ModelTasks
             PROVE  /\ StartsOf(t)' = {} => ~HasKey(k, t)
                    /\ StartsOf(t)' # {} => HasKey(k, t) /\ LifeFits(t)'
  BY DEF LifeInv
<1>2. /\ StartsOf(t) \subseteq 1 .. N
      /\ \A i \in SeqsOf({"task_started"}) : eventLog'[i] = eventLog[i]
      /\ \A i \in SeqsOf({"terminal_outcome"}) : i \in 1 .. N /\ eventLog'[i] = eventLog[i]
      /\ e.type = "task_started" => SeqsOf({"task_started"})' = SeqsOf({"task_started"}) \cup {N + 1}
      /\ e.type # "task_started" => SeqsOf({"task_started"})' = SeqsOf({"task_started"})
      /\ e.type = "terminal_outcome" =>
           SeqsOf({"terminal_outcome"})' = SeqsOf({"terminal_outcome"}) \cup {N + 1}
      /\ e.type # "terminal_outcome" => SeqsOf({"terminal_outcome"})' = SeqsOf({"terminal_outcome"})
  BY SeqsGrow DEF StartsOf
<1>3. StartsOf(t)' = {i \in SeqsOf({"task_started"})' : eventLog'[i].task = t}
  BY DEF StartsOf
<1>4. EndsOf(t)' = {i \in SeqsOf({"terminal_outcome"})' : eventLog'[i].task = t /\ i > LastOf(StartsOf(t)')}
  BY DEF EndsOf, LastOf
<1>5. /\ StartsOf(t) = {} => ~HasKey(l, t)
      /\ StartsOf(t) # {} => HasKey(l, t) /\ LifeFits(t)
  BY DEF LifeInv
<1>6. EndsOf(t) \subseteq 1 .. N
  BY <1>2 DEF EndsOf
<1> HIDE DEF N, l, k
<1>7. StartsOf(t) # {} => LastOf(StartsOf(t)) \in 1 .. N
  BY <1>1, <1>2, LastIs
<1>8. EndsOf(t) # {} => LastOf(EndsOf(t)) \in EndsOf(t)
  BY <1>1, <1>6, LastIs
\* nothing of this task happened
<1>9. ASSUME StartsOf(t)' = StartsOf(t), EndsOf(t)' = EndsOf(t),
             HasKey(k, t) <=> HasKey(l, t), HasKey(l, t) => RowWith(k, t) = RowWith(l, t)
      PROVE  /\ StartsOf(t)' = {} => ~HasKey(k, t)
             /\ StartsOf(t)' # {} => HasKey(k, t) /\ LifeFits(t)'
  <2>1. EndsOf(t) # {} => eventLog'[LastOf(EndsOf(t))] = eventLog[LastOf(EndsOf(t))]
    BY <1>2, <1>8 DEF EndsOf
  <2>2. ASSUME StartsOf(t) # {} PROVE LifeFits(t)'
    <3>1. LifeFits(t) /\ RowWith(k, t) = RowWith(l, t)
      BY <1>5, <1>9, <2>2
    <3>2. LastOf(StartsOf(t))' = LastOf(StartsOf(t)) /\ LastOf(EndsOf(t))' = LastOf(EndsOf(t))
      BY <1>9 DEF LastOf
    <3> QED
      BY <1>9, <2>1, <3>1, <3>2 DEF LifeFits, k, l
  <2> QED
    BY <1>5, <1>9, <2>2
<1>10. CASE e.type = "task_started" /\ e.task = t
  <2>1. tables' = HandleTaskStarted(tables, e)
    BY <1>10 DEF Logs, Project
  <2>2. /\ HasKey(k, t) /\ "started" \in DOMAIN RowWith(k, t) /\ RowWith(k, t).started = N + 1
        /\ RowWith(k, t).state = "running" /\ RowWith(k, t).terminal = 0 /\ RowWith(k, t).outcome = ""
    <3> DEFINE after == HandleTaskStarted(tables, e)
               row == RowWith(after["task_lifecycle"], e.task)
    <3>1. /\ HasKey(after["task_lifecycle"], e.task) /\ "started" \in DOMAIN row
          /\ row.started = e.seq /\ row.state = "running" /\ row.terminal = 0 /\ row.outcome = ""
      BY StartReads DEF FamilyInv
    <3> HIDE DEF after
    <3> QED
      BY <1>1, <1>10, <2>1, <3>1 DEF after, k
  <2>3. StartsOf(t)' = StartsOf(t) \cup {N + 1}
    BY <1>1, <1>2, <1>3, <1>10 DEF StartsOf
  <2>4. LastOf(StartsOf(t)') = N + 1
    BY <1>1, <1>2, <2>3, LastIs
  <2>5. EndsOf(t)' = {}
    BY <1>1, <1>2, <1>4, <1>10, <2>4
  <2>6. LifeFits(t)'
    BY <2>2, <2>4, <2>5 DEF LifeFits, LastOf, k
  <2> QED
    BY <2>2, <2>3, <2>6
<1>11. CASE e.type = "task_started" /\ e.task # t
  <2>1. tables' = HandleTaskStarted(tables, e)
    BY <1>11 DEF Logs, Project
  <2>2. (HasKey(k, t) <=> HasKey(l, t)) /\ (HasKey(l, t) => RowWith(k, t) = RowWith(l, t))
    <3> DEFINE after == HandleTaskStarted(tables, e)
    <3>1. Proper(tables)
      BY DEF FamilyInv
    <3>2. \A j : HasKey(after["task_lifecycle"], j) <=> HasKey(tables["task_lifecycle"], j) \/ j = e.task
      BY <3>1, StartReads
    <3>3. \A j : j # e.task /\ HasKey(tables["task_lifecycle"], j) =>
                   RowWith(after["task_lifecycle"], j) = RowWith(tables["task_lifecycle"], j)
      BY <3>1, StartReads
    <3> HIDE DEF after
    <3> QED
      BY <1>11, <2>1, <3>2, <3>3 DEF after, k, l
  <2>3. StartsOf(t)' = StartsOf(t)
    BY <1>1, <1>2, <1>3, <1>11 DEF StartsOf
  <2>4. EndsOf(t)' = EndsOf(t)
    BY <1>2, <1>4, <1>11, <2>3 DEF EndsOf
  <2> QED
    BY <1>9, <2>2, <2>3, <2>4
<1>12. CASE e.type = "terminal_outcome"
  <2> DEFINE ended == [state |-> TerminalStateMap(e.outcome), terminal |-> e.seq, outcome |-> e.outcome]
  <2>1. tables' = HandleTerminalOutcome(tables, e)
    BY <1>12 DEF Logs, Project
  <2>2. /\ HasKey(k, t) <=> HasKey(l, t)
        /\ HasKey(l, t) => RowWith(k, t) = IF t = e.task THEN With(RowWith(l, t), ended) ELSE RowWith(l, t)
    BY <2>1, TerminalReads DEF FamilyInv, k, l
  <2>3. StartsOf(t)' = StartsOf(t)
    BY <1>2, <1>3, <1>12 DEF StartsOf
  <2>4. CASE e.task # t \/ StartsOf(t) = {}
    <3>1. EndsOf(t)' = EndsOf(t) \/ StartsOf(t) = {}
      BY <1>1, <1>2, <1>4, <1>12, <2>3, <2>4 DEF EndsOf
    <3> QED
      BY <1>5, <1>9, <2>2, <2>3, <2>4, <3>1
  <2>5. CASE e.task = t /\ StartsOf(t) # {}
    <3>1. EndsOf(t)' = EndsOf(t) \cup {N + 1}
      <4>1. N + 1 > LastOf(StartsOf(t))
        BY <1>1, <1>7, <2>5
      <4> QED
        BY <1>1, <1>2, <1>4, <1>12, <2>3, <2>5, <4>1 DEF EndsOf
    <3>2. LastOf(EndsOf(t)') = N + 1
      BY <1>1, <1>6, <3>1, LastIs
    <3>3. HasKey(l, t) /\ LifeFits(t)
      BY <1>5, <2>5
    <3> DEFINE row == RowWith(k, t)
    <3>4. row = With(RowWith(l, t), ended) /\ "started" \in DOMAIN RowWith(l, t)
      BY <2>2, <2>5, <3>3 DEF LifeFits, l
    <3> HIDE DEF row
    <3>5. /\ "started" \in DOMAIN row /\ row["started"] = RowWith(l, t)["started"]
          /\ row["terminal"] = N + 1 /\ row["outcome"] = e.outcome
          /\ row["state"] = TerminalStateMap(e.outcome)
      BY <1>1, <3>4 DEF With
    <3>6. TerminalStateMap(e.outcome) = IF e.outcome = "failed" THEN "rejected" ELSE e.outcome
      BY <1>12 DEF TerminalStateMap
    <3>7. row.started = LastOf(StartsOf(t)')
      BY <2>3, <3>3, <3>5 DEF LifeFits, l
    <3>8. LifeFits(t)'
      BY <1>1, <3>1, <3>2, <3>5, <3>6, <3>7 DEF LifeFits, LastOf, k, row
    <3> QED
      BY <2>2, <2>3, <2>5, <3>3, <3>8
  <2> QED
    BY <2>4, <2>5
<1>13. CASE e.type \notin {"task_started", "terminal_outcome"}
  <2>1. k = l
    BY <1>13, LifecycleUntouched DEF k, l
  <2>2. StartsOf(t)' = StartsOf(t)
    BY <1>2, <1>3, <1>13 DEF StartsOf
  <2>3. EndsOf(t)' = EndsOf(t)
    BY <1>2, <1>4, <1>13, <2>2 DEF EndsOf
  <2> QED
    BY <1>9, <2>1, <2>2, <2>3
<1> QED
  BY <1>10, <1>11, <1>12, <1>13

-----------------------------------------------------------------------------
(***************************************************************************)
(* The pointers of plans. A dispatch and an end both write the pointer of the*)
(* plan the event or the task's row names; a task that was dispatched by two*)
(* plans in turn is the one case in which a pointer outlives its task, and *)
(* then the task's row names the other plan.                               *)
(***************************************************************************)
\* the pointer of a plan's row, by the tables it is read against
PlanFits(tb, p) ==
  LET row == RowWith(tb["plan"], p)
      t == row.current
  IN  /\ {"state", "executing", "current"} \subseteq DOMAIN row
      /\ row.executing = t
      /\ t # "" =>
           /\ row.state = "executing"
           /\ HasKey(tb["task_dispatched"], t) /\ HasKey(tb["plan_tasks"], t)
           /\ \/ RowWith(tb["plan_tasks"], t).state = "running"
              \/ RowWith(tb["task_dispatched"], t).plan # p

\* the pointers of all plans
PlansFit(tb) == \A p : HasKey(tb["plan"], p) => PlanFits(tb, p)

(* Then a plan points at a task in flight. *)
LEMMA PlansMean == Proper(tables) /\ PlansFit(tables) => PointerIsInFlight
<1> SUFFICES ASSUME Proper(tables), PlansFit(tables), NEW i \in DOMAIN tables["plan"]
             PROVE  LET p == tables["plan"][i]
                        t == p.current
                    IN  /\ p.executing = t
                        /\ t # "" => /\ p.state = "executing"
                                     /\ \/ RowWith(tables["plan_tasks"], t).state = "running"
                                        \/ RowWith(tables["task_dispatched"], t).plan # p.key
  BY DEF PointerIsInFlight
<1>1. IsTable(tables["plan"])
  BY DEF Proper, PROJECTION_TABLES
<1>2. /\ HasKey(tables["plan"], tables["plan"][i].key)
      /\ RowWith(tables["plan"], tables["plan"][i].key) = tables["plan"][i]
  BY <1>1, RowByKey
<1> QED
  BY <1>2 DEF PlansFit, PlanFits

(* Drafting a plan again leaves its pointer. *)
LEMMA PlansStayDrafted ==
  ASSUME NEW tb, Proper(tb), PlansFit(tb), NEW docs, NEW e
  PROVE  PlansFit(HandlePlanDrafted(tb, docs, e))
<1> DEFINE after == HandlePlanDrafted(tb, docs, e)
           columns == [count |-> Cardinality(ModelTasks), drafted |-> DraftedAt(docs, e.id)]
           fresh == [state |-> "planned", executing |-> "", current |-> "", terminal |-> 0]
           row == With(columns, fresh)
           new == Keyed(row, e.id)
<1>1. /\ "plan" \in PROJECTION_TABLES \ Numbered
      /\ "task_dispatched" \in PROJECTION_TABLES /\ "plan_tasks" \in PROJECTION_TABLES
  BY DEF Numbered, PROJECTION_TABLES
<1>2. after = Upsert(tb, "plan", e.id, row, columns)
  BY DEF HandlePlanDrafted
<1>3. /\ {"key", "state", "executing", "current"} \cap DOMAIN columns = {} /\ "key" \notin DOMAIN columns
  OBVIOUS
<1>4. /\ row["executing"] = "" /\ row["current"] = ""
      /\ {"state", "executing", "current"} \subseteq DOMAIN row
  BY DEF With
<1> HIDE DEF columns, fresh, row, after
<1>5. /\ {"state", "executing", "current"} \subseteq DOMAIN new
      /\ new["executing"] = "" /\ new["current"] = ""
  BY <1>4 DEF Keyed, With
<1> HIDE DEF new
<1>6. Kept(tb, after, {"plan"})
  BY <1>1, <1>2, <1>3, UpsertKeeps
<1>7. /\ \A j : HasKey(after["plan"], j) <=> HasKey(tb["plan"], j) \/ j = e.id
      /\ \A j : j # e.id /\ HasKey(tb["plan"], j) => RowWith(after["plan"], j) = RowWith(tb["plan"], j)
      /\ HasKey(tb["plan"], e.id) =>
           RowWith(after["plan"], e.id) = With(RowWith(tb["plan"], e.id), columns)
      /\ ~HasKey(tb["plan"], e.id) => RowWith(after["plan"], e.id) = new
  BY <1>1, <1>2, <1>3, UpsertReads DEF new
<1>8. after["task_dispatched"] = tb["task_dispatched"] /\ after["plan_tasks"] = tb["plan_tasks"]
  BY <1>1, <1>6 DEF Kept
<1> SUFFICES ASSUME NEW p, HasKey(after["plan"], p) PROVE PlanFits(after, p)
  BY DEF PlansFit, after
<1>9. CASE p # e.id
  BY <1>7, <1>8, <1>9 DEF PlansFit, PlanFits
<1>10. CASE p = e.id /\ HasKey(tb["plan"], p)
  <2> DEFINE old == RowWith(tb["plan"], p)
             now == RowWith(after["plan"], p)
  <2>1. PlanFits(tb, p) /\ now = With(old, columns)
    BY <1>7, <1>10 DEF PlansFit
  <2>2. {"state", "executing", "current"} \subseteq DOMAIN old
    BY <2>1 DEF PlanFits
  <2> HIDE DEF old, now
  <2>3. /\ {"state", "executing", "current"} \subseteq DOMAIN now
        /\ now["state"] = old["state"] /\ now["executing"] = old["executing"]
        /\ now["current"] = old["current"]
    BY <1>3, <2>1, <2>2 DEF With
  <2> QED
    BY <1>8, <2>1, <2>3 DEF PlanFits, old, now
<1>11. CASE p = e.id /\ ~HasKey(tb["plan"], p)
  BY <1>5, <1>7, <1>11 DEF PlanFits
<1> QED
  BY <1>9, <1>10, <1>11

(* A dispatch points the plan at a running task, and takes the task from the plan
   that had it. *)
LEMMA PlansStayDispatched ==
  ASSUME NEW tb, Proper(tb), PlansFit(tb), NEW e
  PROVE  PlansFit(HandleTaskDispatched(tb, e))
<1> DEFINE after == HandleTaskDispatched(tb, e)
           set == [state |-> "executing", executing |-> e.task, current |-> e.task]
<1>1. /\ \A j : HasKey(after["task_dispatched"], j) <=> HasKey(tb["task_dispatched"], j) \/ j = e.task
      /\ \A j : j # e.task /\ HasKey(tb["task_dispatched"], j) =>
                  RowWith(after["task_dispatched"], j) = RowWith(tb["task_dispatched"], j)
      /\ RowWith(after["task_dispatched"], e.task).plan = e.plan
      /\ \A j : HasKey(after["plan"], j) <=> HasKey(tb["plan"], j)
      /\ \A j : HasKey(tb["plan"], j) =>
           RowWith(after["plan"], j) = IF j = e.plan THEN With(RowWith(tb["plan"], j), set)
                                       ELSE RowWith(tb["plan"], j)
      /\ \A j : HasKey(after["plan_tasks"], j) <=> HasKey(tb["plan_tasks"], j) \/ j = e.task
      /\ \A j : j # e.task /\ HasKey(tb["plan_tasks"], j) =>
                  RowWith(after["plan_tasks"], j) = RowWith(tb["plan_tasks"], j)
      /\ RowWith(after["plan_tasks"], e.task).state = "running"
  BY DispatchReads
<1> HIDE DEF after
<1> SUFFICES ASSUME NEW p, HasKey(after["plan"], p) PROVE PlanFits(after, p)
  BY DEF PlansFit, after
<1>2. PlanFits(tb, p) /\ HasKey(tb["plan"], p)
  BY <1>1 DEF PlansFit
<1>3. CASE p = e.plan
  <2> DEFINE now == RowWith(after["plan"], p)
  <2>1. now = With(RowWith(tb["plan"], p), set)
    <3> HIDE DEF set
    <3> QED
      BY <1>1, <1>2, <1>3
  <2> HIDE DEF now
  <2>2. /\ {"state", "executing", "current"} \subseteq DOMAIN now
        /\ now["state"] = "executing" /\ now["executing"] = e.task /\ now["current"] = e.task
    BY <2>1 DEF With
  <2> QED
    BY <1>1, <2>2 DEF PlanFits, now
<1>4. CASE p # e.plan
  <2> DEFINE now == RowWith(after["plan"], p)
  <2>1. now = RowWith(tb["plan"], p)
    <3> HIDE DEF set
    <3> QED
      BY <1>1, <1>2, <1>4
  <2> HIDE DEF now, set
  <2>2. CASE now.current = e.task
    BY <1>1, <1>2, <1>4, <2>1, <2>2 DEF PlanFits, now
  <2>3. CASE now.current # e.task
    BY <1>1, <1>2, <2>1, <2>3 DEF PlanFits, now
  <2> QED
    BY <2>2, <2>3
<1> QED
  BY <1>3, <1>4

(* An end clears the pointer of the plan the task was dispatched by last; any other
   plan that points at the task has lost it to that plan. *)
LEMMA PlansStayEnded ==
  ASSUME NEW tb, Proper(tb), PlansFit(tb), NEW e
  PROVE  PlansFit(HandleTerminalOutcome(tb, e))
<1> DEFINE after == HandleTerminalOutcome(tb, e)
           set(s) == [state |-> s, terminal |-> e.seq, executing |-> "", current |-> ""]
<1>1. /\ Kept(tb, after, {"terminal_outcomes", "task_lifecycle", "plan_tasks", "plan"})
      /\ \A j : HasKey(after["plan_tasks"], j) <=> HasKey(tb["plan_tasks"], j)
      /\ \A j : j # e.task /\ HasKey(tb["plan_tasks"], j) =>
                  RowWith(after["plan_tasks"], j) = RowWith(tb["plan_tasks"], j)
      /\ \A j : HasKey(after["plan"], j) <=> HasKey(tb["plan"], j)
      /\ \A j : HasKey(tb["plan"], j) =>
           \/ RowWith(after["plan"], j) = RowWith(tb["plan"], j)
              /\ ~(/\ HasKey(tb["task_dispatched"], e.task)
                   /\ RowWith(tb["task_dispatched"], e.task).plan = j)
           \/ \E s : RowWith(after["plan"], j) = With(RowWith(tb["plan"], j), set(s))
  BY TerminalReads
<1> HIDE DEF after
<1>2. after["task_dispatched"] = tb["task_dispatched"]
  BY <1>1 DEF Kept, PROJECTION_TABLES
<1> SUFFICES ASSUME NEW p, HasKey(after["plan"], p) PROVE PlanFits(after, p)
  BY DEF PlansFit, after
<1>3. PlanFits(tb, p) /\ HasKey(tb["plan"], p)
  BY <1>1 DEF PlansFit
<1> DEFINE now == RowWith(after["plan"], p)
<1>4. CASE \E s : now = With(RowWith(tb["plan"], p), set(s))
  <2>1. PICK s : now = With(RowWith(tb["plan"], p), set(s))
    BY <1>4
  <2> HIDE DEF now
  <2>2. /\ {"state", "executing", "current"} \subseteq DOMAIN now
        /\ now["executing"] = "" /\ now["current"] = ""
    BY <2>1 DEF With
  <2> QED
    BY <2>2 DEF PlanFits, now
<1>5. CASE /\ now = RowWith(tb["plan"], p)
           /\ ~(/\ HasKey(tb["task_dispatched"], e.task)
                /\ RowWith(tb["task_dispatched"], e.task).plan = p)
  <2> HIDE DEF now, set
  <2>1. CASE now.current = e.task
    BY <1>1, <1>2, <1>3, <1>5, <2>1 DEF PlanFits, now
  <2>2. CASE now.current # e.task
    BY <1>1, <1>2, <1>3, <1>5, <2>2 DEF PlanFits, now
  <2> QED
    BY <2>1, <2>2
<1> QED
  <2> HIDE DEF set
  <2> QED
    BY <1>1, <1>3, <1>4, <1>5

(* An event more keeps the pointers of all plans. *)
LEMMA PlansStep ==
  ASSUME FamilyInv, PlansFit(tables), NEW e, Logs(e)
  PROVE  PlansFit(tables')
<1>0. {"plan", "task_dispatched", "plan_tasks"} \subseteq PROJECTION_TABLES
  BY DEF PROJECTION_TABLES
<1>1. ASSUME tables'["plan"] = tables["plan"], tables'["task_dispatched"] = tables["task_dispatched"],
             tables'["plan_tasks"] = tables["plan_tasks"]
      PROVE  PlansFit(tables')
  BY <1>1 DEF PlansFit, PlanFits
<1>2. CASE family # "work"
  <2>1. \A t \in {"plan", "task_dispatched", "plan_tasks"} : t \notin TablesOf(family)
    BY <1>2 DEF TablesOf, Families, FamilyInv
  <2>2. \A t \in {"plan", "task_dispatched", "plan_tasks"} : tables'[t] = tables[t]
    BY <1>0, <2>1 DEF Logs, Kept
  <2> QED
    BY <1>1, <2>2
<1>3. CASE family = "work"
  <2>0. e.type \in {"plan_drafted", "task_dispatched", "task_started", "terminal_outcome"}
    BY <1>3 DEF Logs, TypesOf
  <2>1. CASE e.type = "plan_drafted"
    <3>1. tables' = HandlePlanDrafted(tables, persisted, e)
      BY <2>1 DEF Logs, Project
    <3> QED
      BY <3>1, PlansStayDrafted DEF FamilyInv
  <2>2. CASE e.type = "task_dispatched"
    <3>1. tables' = HandleTaskDispatched(tables, e)
      BY <2>2 DEF Logs, Project
    <3> QED
      BY <3>1, PlansStayDispatched DEF FamilyInv
  <2>3. CASE e.type = "task_started"
    <3>1. tables' = HandleTaskStarted(tables, e)
      BY <2>3 DEF Logs, Project
    <3>2. Kept(tables, tables', {"task_started", "task_lifecycle", "developer_activity"})
      BY <3>1, WorkHandlersKeep DEF FamilyInv
    <3> QED
      BY <1>0, <1>1, <3>2 DEF Kept
  <2>4. CASE e.type = "terminal_outcome"
    <3>1. tables' = HandleTerminalOutcome(tables, e)
      BY <2>4 DEF Logs, Project
    <3> QED
      BY <3>1, PlansStayEnded DEF FamilyInv
  <2> QED
    BY <2>0, <2>1, <2>2, <2>3, <2>4
<1> QED
  BY <1>2, <1>3

-----------------------------------------------------------------------------
(***************************************************************************)
(* The queues of candidates. The producers look a row up before they decide*)
(* it (Produced), so no verdict is older than its candidate.               *)
(***************************************************************************)
(* Where the n-th row has key n, the next has key n + 1. *)
LEMMA NextKeyCounts ==
  ASSUME NEW l, IsTable(l), \A i \in DOMAIN l : l[i].key = i
  PROVE  NextKey(l) = Len(l) + 1
<1> DEFINE T == {0} \cup {r.key : r \in Held(l)}
           n == Len(l)
<1>1. n \in Nat /\ DOMAIN l = 1 .. n
  BY TableFacts
<1>2. T = 0 .. n
  <2>1. {r.key : r \in Held(l)} = 1 .. n
    <3>1. \A r \in Held(l) : r.key \in 1 .. n
      BY <1>1 DEF Held
    <3>2. \A i \in 1 .. n : l[i] \in Held(l) /\ l[i].key = i
      BY <1>1 DEF Held
    <3> HIDE DEF n
    <3> QED
      BY <3>1, <3>2
  <2> HIDE DEF n
  <2> QED
    BY <1>1, <2>1
<1>3. NextKey(l) = 1 + Max(T)
  BY DEF NextKey
<1> HIDE DEF T, n
<1>4. n \in T /\ \A k \in T : k <= n
  BY <1>1, <1>2
<1>5. \A m \in T : (\A k \in T : k <= m) => m = n
  BY <1>1, <1>2, <1>4
<1>6. Max(T) = n
  BY <1>4, <1>5 DEF Max
<1> QED
  BY <1>1, <1>3, <1>6 DEF n

\* the queues of candidates, and the verdicts on them
Queues == {"antibody_queue", "gate_change_queue"}

\* what decides a candidate
Verdicts == {"candidate_reviewed", "candidate_rejected"}

\* where the log has a verdict on a candidate
VerdictsOn(q, i) == {j \in SeqsOf(Verdicts) : eventLog[j].kind = q /\ eventLog[j].row = i}

\* the row of a candidate
QueueFits(q, i) ==
  LET row == tables[q][i]
      born == eventLog[row.at]
      last == eventLog[LastOf(VerdictsOn(q, i))]
  IN  /\ "review" \in DOMAIN row /\ "at" \in DOMAIN row /\ row.key = i
      /\ row.at \in DOMAIN eventLog
      /\ VerdictsOn(q, i) # {} =>
           row.review = IF last.type = "candidate_rejected" THEN "rejected" ELSE last.verdict
      /\ VerdictsOn(q, i) = {} =>
           row.review = IF q = "gate_change_queue" /\ born.gate = "core" /\ born.change = "loosen"
                        THEN "rejected" ELSE "pending"

\* the rows of both queues; and no verdict came before its candidate
QueueInv ==
  /\ \A q \in Queues : \A i \in DOMAIN tables[q] : QueueFits(q, i)
  /\ \A j \in SeqsOf(Verdicts) :
        eventLog[j].kind \in Queues => eventLog[j].row \in DOMAIN tables[eventLog[j].kind]

(* Then the queues mean what the log says. *)
LEMMA QueuesMean == QueueInv => QueueMeansLog
<1> SUFFICES ASSUME QueueInv, NEW q \in {"antibody_queue", "gate_change_queue"}, NEW i \in DOMAIN tables[q]
             PROVE  LET row == tables[q][i]
                        verdicts == { j \in SeqsOf({"candidate_reviewed", "candidate_rejected"}) :
                                        eventLog[j].kind = q /\ eventLog[j].row = i }
                        born == eventLog[row.at]
                    IN  /\ row.key = i
                        /\ IF verdicts # {}
                           THEN row.review = IF eventLog[LastOf(verdicts)].type = "candidate_rejected"
                                             THEN "rejected" ELSE eventLog[LastOf(verdicts)].verdict
                           ELSE row.review = IF q = "gate_change_queue" /\ born.gate = "core"
                                                /\ born.change = "loosen"
                                             THEN "rejected" ELSE "pending"
  BY DEF QueueMeansLog
<1>1. QueueFits(q, i)
  BY DEF QueueInv, Queues
<1> QED
  BY <1>1 DEF QueueFits, VerdictsOn, Verdicts

(* Which events touch which queue. *)
LEMMA QueuesUntouched ==
  ASSUME FamilyInv, NEW e, Logs(e), NEW q \in Queues,
         e.type = "antibody_candidate" => q # "antibody_queue",
         e.type = "gate_change_candidate" => q # "gate_change_queue",
         e.type \in Verdicts => q # e.kind,
         e.type \in Verdicts => e.kind \in Queues
  PROVE  tables'[q] = tables[q]
<1>0. q \in PROJECTION_TABLES /\ Proper(tables) /\ tables' = Project(tables, persisted, e)
  BY DEF PROJECTION_TABLES, Queues, FamilyInv, Logs
<1>1. CASE family # "learning"
  <2>1. q \notin TablesOf(family)
    BY <1>1 DEF TablesOf, Families, FamilyInv, Queues
  <2> QED
    BY <1>0, <2>1 DEF Logs, Kept
<1>2. CASE family = "learning"
  <2>0. e.type \in TypesOf("learning") /\ q \in {"antibody_queue", "gate_change_queue"}
    BY <1>2 DEF Logs, Queues
  <2>1. CASE e.type \in {"tier_floor_violation", "invariant_violated", "fault_handling_regression"}
    BY <1>0, <2>1 DEF Project
  <2>2. CASE e.type = "antibody_candidate"
    BY <1>0, <2>0, <2>2, OneStatementKeeps DEF Project, Kept
  <2>3. CASE e.type = "gate_change_candidate"
    BY <1>0, <2>0, <2>3, OneStatementKeeps DEF Project, Kept
  <2>4. CASE e.type = "retro_run"
    BY <1>0, <2>0, <2>4, OneStatementKeeps DEF Project, Kept
  <2>5. CASE e.type = "antibody_revoked"
    BY <1>0, <2>0, <2>5, OneStatementKeeps DEF Project, Kept
  <2>6. CASE e.type = "memory_entry_created"
    BY <1>0, <2>0, <2>6, OneStatementKeeps DEF Project, Kept
  <2>7. CASE e.type = "memory_entry_verified"
    BY <1>0, <2>0, <2>7, OneStatementKeeps DEF Project, Kept
  <2>8. CASE e.type = "work_item_candidate"
    BY <1>0, <2>0, <2>8, OneStatementKeeps DEF Project, Kept
  <2>9. CASE e.type = "signal_retro_run"
    BY <1>0, <2>0, <2>9, OneStatementKeeps DEF Project, Kept
  <2>10. CASE e.type = "antibody_added"
    <3>1. tables' = HandleAntibodyAdded(tables, e)
      BY <1>0, <2>10 DEF Project
    <3> QED
      BY <2>0, <3>1 DEF HandleAntibodyAdded, InsertKeyed
  <2>11. CASE e.type = "gate_change_enacted"
    <3>1. tables' = HandleGateChangeEnacted(tables, e)
      BY <1>0, <2>11 DEF Project
    <3> QED
      BY <2>0, <3>1 DEF HandleGateChangeEnacted, InsertKeyed
  <2>12. CASE e.type = "candidate_reviewed"
    <3>1. tables' = HandleCandidateReviewed(tables, e) /\ q # e.kind
      BY <1>0, <2>12 DEF Project, Verdicts
    <3> QED
      BY <1>0, <3>1 DEF HandleCandidateReviewed, UpdateAt
  <2>13. CASE e.type = "candidate_rejected"
    <3>1. tables' = HandleCandidateRejected(tables, e) /\ q # e.kind
      BY <1>0, <2>13 DEF Project, Verdicts
    <3> QED
      BY <1>0, <3>1 DEF HandleCandidateRejected, UpdateAt
  <2> QED
    BY <2>0, <2>1, <2>2, <2>3, <2>4, <2>5, <2>6, <2>7, <2>8, <2>9, <2>10, <2>11, <2>12, <2>13
    DEF TypesOf
<1> QED
  BY <1>1, <1>2

(* A row that an event leaves alone still fits, if the event is no verdict on it. *)
LEMMA QueueRowStays ==
  ASSUME NEW e, Logs(e), NEW q \in Queues, NEW i, QueueFits(q, i),
         tables'[q][i] = tables[q][i], e.type \in Verdicts => e.kind # q \/ e.row # i
  PROVE  QueueFits(q, i)'
<1> DEFINE N == Len(eventLog)
           V == VerdictsOn(q, i)
<1>1. /\ N \in Nat /\ eventLog'[N + 1] = e /\ DOMAIN eventLog = 1 .. N
      /\ DOMAIN eventLog' = 1 .. N + 1 /\ \A j \in 1 .. N : eventLog'[j] = eventLog[j]
  BY DEF Logs
<1>2. /\ SeqsOf(Verdicts) \subseteq 1 .. N
      /\ \A j \in SeqsOf(Verdicts) : eventLog'[j] = eventLog[j]
      /\ e.type \in Verdicts => SeqsOf(Verdicts)' = SeqsOf(Verdicts) \cup {N + 1}
      /\ e.type \notin Verdicts => SeqsOf(Verdicts)' = SeqsOf(Verdicts)
  BY SeqsGrow
<1>3. V' = {j \in SeqsOf(Verdicts)' : eventLog'[j].kind = q /\ eventLog'[j].row = i}
  BY DEF VerdictsOn
<1>4. V' = V
  BY <1>1, <1>2, <1>3 DEF VerdictsOn
<1> HIDE DEF N
<1>5. V # {} => LastOf(V) \in V
  BY <1>1, <1>2, LastIs DEF VerdictsOn
<1>6. LastOf(VerdictsOn(q, i))' = LastOf(V)
  BY <1>4 DEF LastOf
<1>7. V # {} => eventLog'[LastOf(V)] = eventLog[LastOf(V)]
  BY <1>2, <1>5 DEF VerdictsOn
<1>8. /\ tables[q][i].at \in DOMAIN eventLog'
      /\ eventLog'[tables[q][i].at] = eventLog[tables[q][i].at]
  BY <1>1 DEF QueueFits
<1> QED
  BY <1>4, <1>6, <1>7, <1>8 DEF QueueFits

(* The row a candidate's event adds. *)
LEMMA QueueGrows ==
  ASSUME FamilyInv, QueueInv, NEW e, Logs(e), NEW q \in Queues, NEW x,
         Added(tables, tables', q, x), x.key = Len(tables[q]) + 1,
         {"review", "at"} \subseteq DOMAIN x, x.at = Len(eventLog) + 1,
         x.review = IF q = "gate_change_queue" /\ e.gate = "core" /\ e.change = "loosen"
                    THEN "rejected" ELSE "pending",
         e.type \notin Verdicts
  PROVE  \A i \in DOMAIN tables'[q] : QueueFits(q, i)'
<1> DEFINE N == Len(eventLog)
           M == Len(tables[q])
<1>1. /\ N \in Nat /\ eventLog'[N + 1] = e /\ DOMAIN eventLog' = 1 .. N + 1
  BY DEF Logs
<1>2. /\ M \in Nat /\ DOMAIN tables[q] = 1 .. M /\ DOMAIN tables'[q] = 1 .. M + 1
      /\ \A i \in 1 .. M : tables'[q][i] = tables[q][i]
      /\ tables'[q][M + 1] = x
  BY DEF Added
<1> SUFFICES ASSUME NEW i \in 1 .. M + 1 PROVE QueueFits(q, i)'
  BY <1>2
<1>3. CASE i \in 1 .. M
  BY <1>2, <1>3, QueueRowStays DEF QueueInv
<1>4. CASE i = M + 1
  <2>1. /\ \A j \in SeqsOf(Verdicts) : eventLog'[j] = eventLog[j]
        /\ SeqsOf(Verdicts)' = SeqsOf(Verdicts)
    BY SeqsGrow
  <2>2. VerdictsOn(q, i)' = {j \in SeqsOf(Verdicts)' : eventLog'[j].kind = q /\ eventLog'[j].row = i}
    BY DEF VerdictsOn
  <2>3. \A j \in SeqsOf(Verdicts) : eventLog[j].kind = q => eventLog[j].row \in 1 .. M
    BY <1>2 DEF QueueInv
  <2>4. VerdictsOn(q, i)' = {}
    BY <1>2, <1>4, <2>1, <2>2, <2>3
  <2>5. tables'[q][i] = x
    BY <1>2, <1>4
  <2> QED
    BY <1>1, <1>4, <2>4, <2>5 DEF QueueFits
<1> QED
  BY <1>2, <1>3, <1>4

(* The row a verdict is about. *)
LEMMA QueueSettles ==
  ASSUME FamilyInv, QueueInv, NEW e, Logs(e), NEW q \in Queues,
         e.type \in Verdicts, e.kind = q, NEW columns,
         tables' = UpdateAt(tables, q, e.row, columns),
         {"key", "at"} \cap DOMAIN columns = {}, "review" \in DOMAIN columns,
         columns.review = IF e.type = "candidate_rejected" THEN "rejected" ELSE e.verdict
  PROVE  \A i \in DOMAIN tables'[q] : QueueFits(q, i)'
<1> DEFINE N == Len(eventLog)
           l == tables[q]
           new == UpdateAt(tables, q, e.row, columns)[q]
<1>1. /\ N \in Nat /\ eventLog'[N + 1] = e /\ DOMAIN eventLog = 1 .. N
      /\ DOMAIN eventLog' = 1 .. N + 1 /\ \A j \in 1 .. N : eventLog'[j] = eventLog[j]
  BY DEF Logs
<1>2. /\ DOMAIN new = DOMAIN l
      /\ \A i \in DOMAIN l : new[i] = IF l[i].key = e.row THEN With(l[i], columns) ELSE l[i]
  <2>1. q \in PROJECTION_TABLES /\ Proper(tables) /\ "key" \notin DOMAIN columns
    BY DEF PROJECTION_TABLES, Queues, FamilyInv
  <2> QED
    BY <2>1 DEF UpdateAt, Proper
<1>3. \A i \in DOMAIN l : QueueFits(q, i) /\ l[i].key = i
  BY DEF QueueInv, QueueFits
<1>4. tables'[q] = new
  OBVIOUS
<1> HIDE DEF N, l, new
<1> SUFFICES ASSUME NEW i \in DOMAIN l PROVE QueueFits(q, i)'
  BY <1>2, <1>4
<1>5. CASE i # e.row
  <2>1. tables'[q][i] = tables[q][i]
    BY <1>2, <1>3, <1>4, <1>5 DEF l
  <2> QED
    BY <1>3, <1>5, <2>1, QueueRowStays
<1>6. CASE i = e.row
  <2>1. new[i] = With(l[i], columns)
    BY <1>2, <1>3, <1>6
  <2>2. /\ {"review", "at", "key"} \subseteq DOMAIN l[i] \/ "key" \notin DOMAIN l[i]
        /\ {"review", "at"} \subseteq DOMAIN l[i] /\ l[i].at \in 1 .. N
    BY <1>1, <1>3 DEF QueueFits, l
  <2>3. "key" \in DOMAIN l[i]
    BY DEF FamilyInv, Proper, IsTable, PROJECTION_TABLES, Queues, l
  <2> DEFINE row == new[i]
  <2>4. row["review"] = columns["review"] /\ row["at"] = l[i]["at"] /\ row["key"] = l[i]["key"]
        /\ {"review", "at"} \subseteq DOMAIN row
    <3>1. row = With(l[i], columns)
      BY <2>1
    <3> HIDE DEF row
    <3> QED
      BY <2>2, <2>3, <3>1 DEF With
  <2> HIDE DEF row
  <2>5. /\ SeqsOf(Verdicts) \subseteq 1 .. N
        /\ SeqsOf(Verdicts)' = SeqsOf(Verdicts) \cup {N + 1}
        /\ \A j \in SeqsOf(Verdicts) : eventLog'[j] = eventLog[j]
    BY SeqsGrow DEF N
  <2>6. VerdictsOn(q, i)' = {j \in SeqsOf(Verdicts)' : eventLog'[j].kind = q /\ eventLog'[j].row = i}
    BY DEF VerdictsOn
  <2>7. VerdictsOn(q, i)' = VerdictsOn(q, i) \cup {N + 1}
    BY <1>1, <1>6, <2>5, <2>6 DEF VerdictsOn
  <2>8. VerdictsOn(q, i) \subseteq 1 .. N
    BY <2>5 DEF VerdictsOn
  <2>9. LastOf(VerdictsOn(q, i))' = N + 1
    <3>1. LastOf(VerdictsOn(q, i) \cup {N + 1}) = N + 1
      BY <1>1, <2>8, LastIs
    <3> QED
      BY <2>7, <3>1 DEF LastOf
  <2>10. l[i].at \in 1 .. N + 1
    BY <1>1, <2>2
  <2> QED
    BY <1>1, <1>3, <1>4, <2>4, <2>7, <2>9, <2>10 DEF QueueFits, row, l
<1> QED
  BY <1>5, <1>6

(* An event more keeps both queues in step with the log. *)
LEMMA QueueStep ==
  ASSUME FamilyInv, QueueInv, NEW e, Logs(e),
         e.type \in Verdicts => e.kind \in Queues /\ HasKey(tables[e.kind], e.row),
         e.type = "gate_change_candidate" => e.change \in {"tighten", "loosen"}
  PROVE  QueueInv'
<1> DEFINE N == Len(eventLog)
<1>0. /\ N \in Nat /\ e.seq = N + 1 /\ eventLog'[N + 1] = e
      /\ \A j \in 1 .. N : eventLog'[j] = eventLog[j]
      /\ tables' = Project(tables, persisted, e) /\ Proper(tables)
  BY DEF Logs, FamilyInv
<1>k. \A q \in Queues : NextKey(tables[q]) = Len(tables[q]) + 1
  <2> SUFFICES ASSUME NEW q \in Queues
               PROVE  NextKey(tables[q]) = Len(tables[q]) + 1
    OBVIOUS
  <2>1. IsTable(tables[q])
    BY <1>0 DEF Proper, Queues, PROJECTION_TABLES
  <2>2. \A r \in DOMAIN tables[q] : tables[q][r].key = r
    BY DEF QueueInv, QueueFits
  <2> QED
    BY <2>1, <2>2, NextKeyCounts
<1>1. ASSUME NEW q \in Queues PROVE \A i \in DOMAIN tables'[q] : QueueFits(q, i)'
  <2>1. CASE e.type = "antibody_candidate" /\ q = "antibody_queue"
    <3> DEFINE row == [review |-> "pending", reviewed |-> 0, at |-> e.seq]
    <3>1. tables' = InsertRow(tables, q, row) /\ q \in Numbered
      BY <1>0, <2>1 DEF Project, HandleAntibodyCandidate, Numbered
    <3>2. /\ row["review"] = "pending" /\ row["at"] = N + 1
          /\ {"review", "at"} \subseteq DOMAIN row /\ "key" \notin DOMAIN row
      BY <1>0
    <3> DEFINE k == NextKey(tables[q])
               x == Keyed(row, k)
    <3>3. Added(tables, tables', q, x)
      BY <1>0, <3>1, InsertRowAdds
    <3> HIDE DEF row, N
    <3>4. k = Len(tables[q]) + 1
      BY <1>k
    <3> HIDE DEF k
    <3>5. /\ x["key"] = k /\ x["review"] = "pending" /\ x["at"] = N + 1
          /\ {"review", "at"} \subseteq DOMAIN x
      BY <3>2 DEF Keyed, With
    <3> HIDE DEF x
    <3> QED
      BY <2>1, <3>3, <3>4, <3>5, QueueGrows DEF N, Verdicts
  <2>2. CASE e.type = "gate_change_candidate" /\ q = "gate_change_queue"
    <3> DEFINE says == IF WouldWeakenCoreGate(e.gate, e.change) THEN "rejected" ELSE "pending"
               row == [review |-> says, reviewed |-> 0, at |-> e.seq]
    <3>1. tables' = InsertRow(tables, q, row) /\ q \in Numbered
      BY <1>0, <2>2 DEF Project, HandleGateChangeCandidate, Numbered
    <3>2. /\ row["review"] = says /\ row["at"] = N + 1
          /\ {"review", "at"} \subseteq DOMAIN row /\ "key" \notin DOMAIN row
      BY <1>0
    <3>3. says = IF e.gate = "core" /\ e.change = "loosen" THEN "rejected" ELSE "pending"
      BY <2>2 DEF WouldWeakenCoreGate
    <3> DEFINE k == NextKey(tables[q])
               x == Keyed(row, k)
    <3>4. Added(tables, tables', q, x)
      BY <1>0, <3>1, InsertRowAdds
    <3> HIDE DEF row, N, says
    <3>5. k = Len(tables[q]) + 1
      BY <1>k
    <3> HIDE DEF k
    <3>6. x["key"] = k /\ x["review"] = says /\ x["at"] = N + 1 /\ {"review", "at"} \subseteq DOMAIN x
      BY <3>2 DEF Keyed, With
    <3> HIDE DEF x
    <3> QED
      BY <2>2, <3>3, <3>4, <3>5, <3>6, QueueGrows DEF N, Verdicts
  <2>3. CASE e.type = "candidate_reviewed" /\ q = e.kind
    <3> DEFINE columns == [review |-> e.verdict, reviewed |-> e.seq]
    <3>1. tables' = UpdateAt(tables, q, e.row, columns)
      BY <1>0, <2>3 DEF Project, HandleCandidateReviewed
    <3>2. {"key", "at"} \cap DOMAIN columns = {} /\ "review" \in DOMAIN columns
          /\ columns.review = e.verdict
      OBVIOUS
    <3> HIDE DEF columns
    <3> QED
      BY <2>3, <3>1, <3>2, QueueSettles DEF Verdicts
  <2>4. CASE e.type = "candidate_rejected" /\ q = e.kind
    <3> DEFINE columns == [review |-> "rejected"]
    <3>1. tables' = UpdateAt(tables, q, e.row, columns)
      BY <1>0, <2>4 DEF Project, HandleCandidateRejected
    <3>2. {"key", "at"} \cap DOMAIN columns = {} /\ "review" \in DOMAIN columns
          /\ columns.review = "rejected"
      OBVIOUS
    <3> HIDE DEF columns
    <3> QED
      BY <2>4, <3>1, <3>2, QueueSettles DEF Verdicts
  <2>5. CASE /\ e.type = "antibody_candidate" => q # "antibody_queue"
             /\ e.type = "gate_change_candidate" => q # "gate_change_queue"
             /\ e.type \in Verdicts => q # e.kind
    <3>1. tables'[q] = tables[q]
      BY <2>5, QueuesUntouched
    <3> QED
      BY <2>5, <3>1, QueueRowStays DEF QueueInv
  <2> QED
    BY <2>1, <2>2, <2>3, <2>4, <2>5 DEF Verdicts
<1>2. ASSUME NEW q \in Queues PROVE DOMAIN tables[q] \subseteq DOMAIN tables'[q]
  <2>1. q \in PROJECTION_TABLES
    BY DEF PROJECTION_TABLES, Queues
  <2>2. CASE e.type = "antibody_candidate" /\ q = "antibody_queue"
    <3>1. \E row : tables' = InsertRow(tables, q, row)
      BY <1>0, <2>2 DEF Project, HandleAntibodyCandidate
    <3>2. q \in Numbered
      BY <2>2 DEF Numbered
    <3>3. \E x : Added(tables, tables', q, x)
      BY <1>0, <3>1, <3>2, InsertRowAdds
    <3> QED
      BY <3>3 DEF Added
  <2>3. CASE e.type = "gate_change_candidate" /\ q = "gate_change_queue"
    <3>1. \E row : tables' = InsertRow(tables, q, row)
      BY <1>0, <2>3 DEF Project, HandleGateChangeCandidate
    <3>2. q \in Numbered
      BY <2>3 DEF Numbered
    <3>3. \E x : Added(tables, tables', q, x)
      BY <1>0, <3>1, <3>2, InsertRowAdds
    <3> QED
      BY <3>3 DEF Added
  <2>4. CASE e.type \in Verdicts /\ q = e.kind
    <3>1. \E columns : tables' = UpdateAt(tables, q, e.row, columns)
      BY <1>0, <2>4 DEF Project, HandleCandidateRejected, HandleCandidateReviewed, Verdicts
    <3> QED
      BY <1>0, <2>1, <3>1 DEF UpdateAt, Proper
  <2>5. CASE /\ e.type = "antibody_candidate" => q # "antibody_queue"
             /\ e.type = "gate_change_candidate" => q # "gate_change_queue"
             /\ e.type \in Verdicts => q # e.kind
    BY <2>5, QueuesUntouched
  <2> QED
    BY <2>2, <2>3, <2>4, <2>5
<1>3. ASSUME NEW j \in SeqsOf(Verdicts)', eventLog'[j].kind \in Queues
      PROVE  eventLog'[j].row \in DOMAIN tables'[eventLog'[j].kind]
  <2>1. /\ SeqsOf(Verdicts) \subseteq 1 .. N
        /\ \A m \in SeqsOf(Verdicts) : eventLog'[m] = eventLog[m]
        /\ e.type \in Verdicts => SeqsOf(Verdicts)' = SeqsOf(Verdicts) \cup {N + 1}
        /\ e.type \notin Verdicts => SeqsOf(Verdicts)' = SeqsOf(Verdicts)
    BY SeqsGrow
  <2>2. CASE j \in SeqsOf(Verdicts)
    BY <1>2, <1>3, <2>1, <2>2 DEF QueueInv
  <2>3. CASE j = N + 1 /\ e.type \in Verdicts
    <3>1. e.row \in DOMAIN tables[e.kind]
      BY <2>3 DEF HasKey, QueueInv, QueueFits
    <3> QED
      BY <1>0, <1>2, <2>3, <3>1
  <2> QED
    BY <2>1, <2>2, <2>3
<1> QED
  BY <1>1, <1>3 DEF QueueInv

(* How many numbers up to a bound: one more, one less. *)
LEMMA CountIn ==
  ASSUME NEW n \in Nat, NEW S, S \subseteq 1 .. n
  PROVE  /\ Cardinality(S) \in Nat
         /\ Cardinality(S \cup {n + 1}) = Cardinality(S) + 1
         /\ \A x \in S : Cardinality(S \ {x}) + 1 = Cardinality(S)
         /\ S = {} => Cardinality(S) = 0
<1>0. IsFiniteSet(1 .. n)
  <2>1. 1 \in Int /\ n \in Int
    OBVIOUS
  <2> QED
    BY <2>1, FS_Interval, Zenon
<1>1. IsFiniteSet(S)
  BY <1>0, FS_Subset
<1>2. Cardinality(S) \in Nat
  BY <1>1, FS_CardinalityType
<1>3. n + 1 \notin S
  OBVIOUS
<1>4. Cardinality(S \cup {n + 1}) = Cardinality(S) + 1
  BY <1>1, <1>3, FS_AddElement
<1>5. \A x \in S : Cardinality(S \ {x}) + 1 = Cardinality(S)
  BY <1>1, <1>2, FS_RemoveElement
<1>6. S = {} => Cardinality(S) = 0
  BY FS_EmptySet
<1> QED
  BY <1>2, <1>4, <1>5, <1>6

-----------------------------------------------------------------------------
(***************************************************************************)
(* The grants. A revocation closes the last open row of its class, so the  *)
(* rows of a class open and close like brackets: what an open row must     *)
(* remember is how many of the rows below it are open (GrantFits).         *)
(***************************************************************************)
\* where the log has an event of a class between two places
Later(c, a, type, n) == {j \in SeqsOf({type}) : eventLog[j].class = c /\ a < j /\ j <= n}

\* the open grants of the class below a row
OpenAfter(l, i) == {j \in DOMAIN l : i < j /\ l[j].class = l[i].class /\ l[j].revoked = 0}

(* a row of the grants: while it is open, the class was granted since as often as it
   was revoked and as rows below it are open, and at no time less often than revoked *)
GrantFits(i) ==
  LET l == tables["trust_grants"]
      row == l[i]
      granted(n) == Cardinality(Later(row.class, row.at, "trust_granted", n))
      revoked(n) == Cardinality(Later(row.class, row.at, "trust_revoked", n))
  IN  /\ {"class", "revoked", "at"} \subseteq DOMAIN row
      /\ row.at \in DOMAIN eventLog
      /\ row.revoked = 0 =>
           /\ granted(Len(eventLog)) = revoked(Len(eventLog)) + Cardinality(OpenAfter(l, i))
           /\ \A n \in DOMAIN eventLog : revoked(n) <= granted(n)
      /\ row.revoked # 0 => \E n \in DOMAIN eventLog : revoked(n) > granted(n)

\* the rows of the grants, as long as none was pruned
GrantInv ==
  SeqsOf({"trust_grant_pruned"}) = {} => \A i \in DOMAIN tables["trust_grants"] : GrantFits(i)

(* The events of a class since a row, an event later. *)
LEMMA LaterGrows ==
  ASSUME NEW e, Logs(e), NEW c, NEW a \in 1 .. Len(eventLog), NEW type, NEW n \in 1 .. Len(eventLog) + 1
  PROVE  /\ \A b \in Nat : Later(c, a, type, b) \subseteq 1 .. Len(eventLog)
         /\ n <= Len(eventLog) => Later(c, a, type, n)' = Later(c, a, type, n)
         /\ n = Len(eventLog) + 1 =>
              Later(c, a, type, n)' =
                IF e.type = type /\ e.class = c
                THEN Later(c, a, type, Len(eventLog)) \cup {Len(eventLog) + 1}
                ELSE Later(c, a, type, Len(eventLog))
<1> DEFINE N == Len(eventLog)
<1>1. N \in Nat /\ eventLog'[N + 1] = e
  BY DEF Logs
<1>2. /\ SeqsOf({type}) \subseteq 1 .. N
      /\ \A i \in SeqsOf({type}) : i \in Nat /\ eventLog'[i] = eventLog[i]
      /\ e.type = type => SeqsOf({type})' = SeqsOf({type}) \cup {N + 1}
      /\ e.type # type => SeqsOf({type})' = SeqsOf({type})
  <2>1. e.type \in {type} <=> e.type = type
    OBVIOUS
  <2> QED
    BY <2>1, SeqsGrow
<1>3. Later(c, a, type, n)' = {j \in SeqsOf({type})' : eventLog'[j].class = c /\ a < j /\ j <= n}
  BY DEF Later
<1>4. \A b : Later(c, a, type, b) = {j \in SeqsOf({type}) : eventLog[j].class = c /\ a < j /\ j <= b}
  BY DEF Later
<1> HIDE DEF N
<1>5. ASSUME n <= N PROVE Later(c, a, type, n)' = Later(c, a, type, n)
  <2>1. ~(N + 1 <= n)
    BY <1>1, <1>5 DEF N
  <2>2. CASE e.type = type
    <3> SUFFICES ASSUME NEW j
                 PROVE  j \in Later(c, a, type, n)' <=> j \in Later(c, a, type, n)
      BY Zenon
    <3>1. j \in Later(c, a, type, n)' <=>
            j \in SeqsOf({type})' /\ eventLog'[j].class = c /\ a < j /\ j <= n
      BY <1>3
    <3>2. j \in Later(c, a, type, n) <=> j \in SeqsOf({type}) /\ eventLog[j].class = c /\ a < j /\ j <= n
      BY <1>4
    <3>3. j \in SeqsOf({type})' <=> j \in SeqsOf({type}) \/ j = N + 1
      BY <1>2, <2>2
    <3>4. j \in SeqsOf({type}) => eventLog'[j] = eventLog[j]
      BY <1>2
    <3> QED
      BY <2>1, <3>1, <3>2, <3>3, <3>4, SMTT(30)
  <2>3. CASE e.type # type
    <3> SUFFICES ASSUME NEW j
                 PROVE  j \in Later(c, a, type, n)' <=> j \in Later(c, a, type, n)
      BY Zenon
    <3>1. j \in Later(c, a, type, n)' <=>
            j \in SeqsOf({type})' /\ eventLog'[j].class = c /\ a < j /\ j <= n
      BY <1>3
    <3>2. j \in Later(c, a, type, n) <=> j \in SeqsOf({type}) /\ eventLog[j].class = c /\ a < j /\ j <= n
      BY <1>4
    <3>3. SeqsOf({type})' = SeqsOf({type}) /\ (j \in SeqsOf({type}) => eventLog'[j] = eventLog[j])
      BY <1>2, <2>3
    <3> QED
      BY <3>1, <3>2, <3>3, Zenon
  <2> QED
    BY <2>2, <2>3
<1>6. ASSUME n = N + 1
      PROVE  Later(c, a, type, n)' =
               IF e.type = type /\ e.class = c
               THEN Later(c, a, type, N) \cup {N + 1} ELSE Later(c, a, type, N)
  <2>1. a < N + 1 /\ \A i \in 1 .. N : i <= N + 1 /\ i <= N
    BY <1>1 DEF N
  <2>2. CASE e.type = type
    <3> DEFINE new == IF e.class = c THEN Later(c, a, type, N) \cup {N + 1} ELSE Later(c, a, type, N)
    <3> SUFFICES ASSUME NEW j
                 PROVE  j \in Later(c, a, type, n)' <=> j \in new
      BY <2>2, Zenon
    <3>1. CASE j = N + 1
      <4>1. j \notin Later(c, a, type, N)
        BY <1>1, <1>4, <3>1
      <4>2. j \in SeqsOf({type})' /\ eventLog'[j] = e /\ a < j /\ j <= n
        <5>1. j \in SeqsOf({type})'
          BY <1>2, <2>2, <3>1
        <5>2. eventLog'[j] = e
          BY <1>1, <3>1
        <5>3. a < j /\ j <= n
          BY <1>1, <1>6, <2>1, <3>1
        <5> QED
          BY <5>1, <5>2, <5>3
      <4>3. j \in Later(c, a, type, n)' <=> e.class = c
        BY <1>3, <4>2
      <4> QED
        BY <3>1, <4>1, <4>3
    <3>2. CASE j # N + 1
      <4>1. j \in Later(c, a, type, n)' <=>
              j \in SeqsOf({type}) /\ eventLog[j].class = c /\ a < j /\ j <= n
        BY <1>2, <1>3, <2>2, <3>2
      <4>2. j \in SeqsOf({type}) => j <= n /\ j <= N
        BY <1>2, <1>6, <2>1
      <4> QED
        BY <1>4, <3>2, <4>1, <4>2
    <3> QED
      BY <3>1, <3>2
  <2>3. CASE e.type # type
    BY <1>1, <1>2, <1>3, <1>4, <1>6, <2>1, <2>3
  <2> QED
    BY <2>2, <2>3
<1> QED
  BY <1>2, <1>4, <1>5, <1>6 DEF N

(* Then a grant is open iff its class was never revoked more often than granted since. *)
LEMMA GrantsMean ==
  ASSUME GrantInv, Len(eventLog) \in Nat, DOMAIN eventLog = 1 .. Len(eventLog)
  PROVE  GrantsMeanLog
<1> SUFFICES ASSUME SeqsOf({"trust_grant_pruned"}) = {}, NEW i \in DOMAIN tables["trust_grants"]
             PROVE  LET row == tables["trust_grants"][i]
                        Between(type, n) ==
                            Cardinality({ j \in SeqsOf({type}) :
                                            eventLog[j].class = row.class /\ row.at < j /\ j <= n })
                    IN  row.revoked = 0 <=>
                            \A n \in DOMAIN eventLog :
                                Between("trust_revoked", n) <= Between("trust_granted", n)
  BY DEF GrantsMeanLog
<1> DEFINE row == tables["trust_grants"][i]
           granted(n) == Cardinality(Later(row.class, row.at, "trust_granted", n))
           revoked(n) == Cardinality(Later(row.class, row.at, "trust_revoked", n))
<1>1. /\ row.revoked = 0 => \A n \in DOMAIN eventLog : revoked(n) <= granted(n)
      /\ row.revoked # 0 => \E n \in DOMAIN eventLog : revoked(n) > granted(n)
  BY DEF GrantInv, GrantFits
<1>2. \A n : granted(n) \in Nat /\ revoked(n) \in Nat
  <2> SUFFICES ASSUME NEW n PROVE granted(n) \in Nat /\ revoked(n) \in Nat
    OBVIOUS
  <2>1. Later(row.class, row.at, "trust_granted", n) \subseteq 1 .. Len(eventLog)
        /\ Later(row.class, row.at, "trust_revoked", n) \subseteq 1 .. Len(eventLog)
    BY DEF Later, SeqsOf
  <2> QED
    BY <2>1, CountIn
<1>3. row.revoked = 0 <=> \A n \in DOMAIN eventLog : revoked(n) <= granted(n)
  <2> HIDE DEF granted, revoked, row
  <2> QED
    BY <1>1, <1>2
<1> QED
  BY <1>3 DEF Later

(* How many events of a class came after a row, an event later. *)
LEMMA CountsGrow ==
  ASSUME NEW e, Logs(e), NEW c, NEW a \in 1 .. Len(eventLog), NEW type
  PROVE  LET N == Len(eventLog)
         IN  /\ \A n \in 1 .. N : /\ Cardinality(Later(c, a, type, n)) \in Nat
                                  /\ Cardinality(Later(c, a, type, n)') = Cardinality(Later(c, a, type, n))
             /\ Cardinality(Later(c, a, type, N)) \in Nat
             /\ \A n : n = N + 1 =>
                  Cardinality(Later(c, a, type, n)') =
                    Cardinality(Later(c, a, type, N)) + (IF e.type = type /\ e.class = c THEN 1 ELSE 0)
<1> DEFINE N == Len(eventLog)
<1>1. N \in Nat
  BY DEF Logs
<1>2. \A b \in Nat : Later(c, a, type, b) \subseteq 1 .. N
  <2>1. N + 1 \in 1 .. N + 1
    BY <1>1
  <2> QED
    BY <2>1, LaterGrows
<1>3. \A b \in Nat : Cardinality(Later(c, a, type, b)) \in Nat
  BY <1>1, <1>2, CountIn
<1>4. ASSUME NEW n \in 1 .. N
      PROVE  /\ Cardinality(Later(c, a, type, n)) \in Nat
             /\ Cardinality(Later(c, a, type, n)') = Cardinality(Later(c, a, type, n))
  <2>1. n \in 1 .. N + 1 /\ n <= N /\ n \in Nat
    BY <1>1
  <2>2. Later(c, a, type, n)' = Later(c, a, type, n)
    <3> HIDE DEF N
    <3> QED
      BY <2>1, LaterGrows, ZenonT(30) DEF N
  <2> QED
    BY <1>3, <2>1, <2>2
<1>5. ASSUME NEW n, n = N + 1
      PROVE  Cardinality(Later(c, a, type, n)') =
               Cardinality(Later(c, a, type, N)) + (IF e.type = type /\ e.class = c THEN 1 ELSE 0)
  <2>1. n \in 1 .. N + 1
    BY <1>1, <1>5
  <2>2. /\ e.type = type /\ e.class = c => Later(c, a, type, n)' = Later(c, a, type, N) \cup {N + 1}
        /\ ~(e.type = type /\ e.class = c) => Later(c, a, type, n)' = Later(c, a, type, N)
    BY <1>5, <2>1, LaterGrows
  <2>3. Cardinality(Later(c, a, type, N) \cup {N + 1}) = Cardinality(Later(c, a, type, N)) + 1
    BY <1>1, <1>2, CountIn
  <2>4. CASE e.type = type /\ e.class = c
    BY <2>2, <2>3, <2>4
  <2>5. CASE ~(e.type = type /\ e.class = c)
    BY <1>1, <1>3, <2>2, <2>5
  <2> QED
    BY <2>4, <2>5
<1> QED
  BY <1>1, <1>3, <1>4, <1>5

\* a row with the same columns, but for its expiry
Alike(row, was) ==
  /\ {"class", "revoked", "at"} \subseteq DOMAIN row
  /\ row.class = was.class /\ row.revoked = was.revoked /\ row.at = was.at

(* A row that keeps its columns still fits, if as many of the later rows were opened or closed as
   the event says. *)
LEMMA GrantRowStays ==
  ASSUME NEW e, Logs(e), NEW i, GrantFits(i), NEW was, was = tables["trust_grants"][i],
         Alike(tables'["trust_grants"][i], was),
         was.revoked = 0 =>
           /\ Cardinality(OpenAfter(tables["trust_grants"], i)) \in Nat
           /\ Cardinality(OpenAfter(tables'["trust_grants"], i)) \in Nat
           /\ Cardinality(OpenAfter(tables'["trust_grants"], i))
                + (IF e.type = "trust_revoked" /\ e.class = was.class THEN 1 ELSE 0) =
              Cardinality(OpenAfter(tables["trust_grants"], i))
                + (IF e.type = "trust_granted" /\ e.class = was.class THEN 1 ELSE 0)
  PROVE  GrantFits(i)'
<1> DEFINE x == tables'["trust_grants"][i]
           N == Len(eventLog)
           N1 == N + 1
           c == was.class
           a == was.at
           G(n) == Cardinality(Later(c, a, "trust_granted", n))
           R(n) == Cardinality(Later(c, a, "trust_revoked", n))
           G1(n) == Cardinality(Later(c, a, "trust_granted", n)')
           R1(n) == Cardinality(Later(c, a, "trust_revoked", n)')
           O == Cardinality(OpenAfter(tables["trust_grants"], i))
           O1 == Cardinality(OpenAfter(tables'["trust_grants"], i))
<1>1. /\ N \in Nat /\ DOMAIN eventLog = 1 .. N /\ DOMAIN eventLog' = 1 .. N + 1 /\ Len(eventLog') = N + 1
      /\ a \in 1 .. N
  BY DEF Logs, GrantFits
<1>2. /\ was.revoked = 0 => G(N) = R(N) + O /\ \A n \in 1 .. N : R(n) <= G(n)
      /\ was.revoked # 0 => \E n \in 1 .. N : R(n) > G(n)
  BY <1>1 DEF GrantFits
<1>3. /\ \A n \in 1 .. N : G(n) \in Nat /\ G1(n) = G(n)
      /\ \A n : n = N1 => G1(n) = G(N) + (IF e.type = "trust_granted" /\ e.class = c THEN 1 ELSE 0)
      /\ G(N) \in Nat
  BY <1>1, CountsGrow
<1>4. /\ \A n \in 1 .. N : R(n) \in Nat /\ R1(n) = R(n)
      /\ \A n : n = N1 => R1(n) = R(N) + (IF e.type = "trust_revoked" /\ e.class = c THEN 1 ELSE 0)
      /\ R(N) \in Nat
  BY <1>1, CountsGrow
<1>5. was.revoked = 0 => \A n \in 1 .. N + 1 : R1(n) <= G1(n)
  <2> SUFFICES ASSUME was.revoked = 0, NEW n \in 1 .. N + 1 PROVE R1(n) <= G1(n)
    OBVIOUS
  <2>1. CASE n \in 1 .. N
    <3> HIDE DEF G, R, G1, R1
    <3> QED
      BY <1>2, <1>3, <1>4, <2>1
  <2>2. CASE n = N1
    <3>1. O \in Nat /\ O1 \in Nat
          /\ O1 + (IF e.type = "trust_revoked" /\ e.class = c THEN 1 ELSE 0) =
             O + (IF e.type = "trust_granted" /\ e.class = c THEN 1 ELSE 0)
      OBVIOUS
    <3> HIDE DEF G, R, G1, R1, O, O1, N1
    <3> QED
      BY <1>2, <1>3, <1>4, <2>2, <3>1
  <2> QED
    BY <1>1, <2>1, <2>2
<1>6. was.revoked # 0 => \E n \in 1 .. N + 1 : R1(n) > G1(n)
  <2>1. \A n \in 1 .. N : n \in 1 .. N + 1
    BY <1>1
  <2> HIDE DEF G, R, G1, R1
  <2> QED
    BY <1>2, <1>3, <1>4, <2>1
<1>7. was.revoked = 0 => \A n : n = N1 => G1(n) = R1(n) + O1
  <2> SUFFICES ASSUME was.revoked = 0, NEW n, n = N1 PROVE G1(n) = R1(n) + O1
    OBVIOUS
  <2>1. O \in Nat /\ O1 \in Nat
        /\ O1 + (IF e.type = "trust_revoked" /\ e.class = c THEN 1 ELSE 0) =
           O + (IF e.type = "trust_granted" /\ e.class = c THEN 1 ELSE 0)
    OBVIOUS
  <2>2. /\ G1(n) = G(N) + (IF e.type = "trust_granted" /\ e.class = c THEN 1 ELSE 0)
        /\ R1(n) = R(N) + (IF e.type = "trust_revoked" /\ e.class = c THEN 1 ELSE 0)
        /\ G(N) = R(N) + O /\ G(N) \in Nat /\ R(N) \in Nat
    BY <1>2, <1>3, <1>4
  <2> HIDE DEF G, R, G1, R1, O, O1, N1
  <2> QED
    BY <2>1, <2>2
<1>8. x.class = c /\ x.at = a /\ (x.revoked = 0 <=> was.revoked = 0)
      /\ {"class", "revoked", "at"} \subseteq DOMAIN x
  BY DEF Alike
<1>9. /\ {"class", "revoked", "at"} \subseteq DOMAIN x /\ x.at \in DOMAIN eventLog'
      /\ x.revoked = 0 => /\ \A n : n = Len(eventLog') => G1(n) = R1(n) + O1
                          /\ \A n \in DOMAIN eventLog' : R1(n) <= G1(n)
      /\ x.revoked # 0 => \E n \in DOMAIN eventLog' : R1(n) > G1(n)
  <2>1. a \in 1 .. N + 1
    BY <1>1
  <2> HIDE DEF G1, R1, O1, x
  <2> QED
    BY <1>1, <1>5, <1>6, <1>7, <1>8, <2>1
<1>10. /\ \A n : G1(n) = Cardinality({j \in SeqsOf({"trust_granted"})' :
                                     eventLog'[j].class = c /\ a < j /\ j <= n})
       /\ \A n : R1(n) = Cardinality({j \in SeqsOf({"trust_revoked"})' :
                                     eventLog'[j].class = c /\ a < j /\ j <= n})
  BY DEF Later
<1> DEFINE S(type, n) == {j \in SeqsOf({type})' : eventLog'[j].class = x.class /\ x.at < j /\ j <= n}
<1>11. /\ \A n : G1(n) = Cardinality(S("trust_granted", n))
       /\ \A n : R1(n) = Cardinality(S("trust_revoked", n))
  <2> HIDE DEF x, G1, R1
  <2> QED
    BY <1>8, <1>10
<1> DEFINE CG(n) == Cardinality(S("trust_granted", n))
           CR(n) == Cardinality(S("trust_revoked", n))
<1>12. (\A n : G1(n) = CG(n)) /\ (\A n : R1(n) = CR(n))
  BY <1>11
<1>13. /\ {"class", "revoked", "at"} \subseteq DOMAIN x /\ x.at \in DOMAIN eventLog'
       /\ x.revoked = 0 => /\ CG(Len(eventLog')) = CR(Len(eventLog')) + O1
                           /\ \A n \in DOMAIN eventLog' : CR(n) <= CG(n)
       /\ x.revoked # 0 => \E n \in DOMAIN eventLog' : CR(n) > CG(n)
  <2> HIDE DEF G1, R1, CG, CR, S
  <2> QED
    BY <1>9, <1>12
<1> QED
  BY <1>13, Zenon DEF GrantFits, Later

(* The row a renewal or a revocation reaches: the last open one of the class. *)
LEMMA ActiveRow ==
  ASSUME NEW tb, Proper(tb), NEW c
  PROVE  LET l == tb["trust_grants"]
             active == ActiveGrantRow(tb, c)
         IN  /\ active = <<>> => \A i \in DOMAIN l : ~(l[i].class = c /\ l[i].revoked = 0)
             /\ active # <<>> =>
                  \E m \in DOMAIN l :
                    /\ l[m].class = c /\ l[m].revoked = 0 /\ Last(active).key = l[m].key
                    /\ \A i \in DOMAIN l : l[i].class = c /\ l[i].revoked = 0 => i <= m
<1> DEFINE l == tb["trust_grants"]
           T == {r \in Held(l) : r.class = c /\ r.revoked = 0}
<1>1. IsTable(l)
  BY DEF Proper, PROJECTION_TABLES
<1>2. l \in Seq(Held(l)) /\ \A i \in DOMAIN l : l[i] \in Held(l)
  BY <1>1, TableFacts DEF Held
<1>3. ActiveGrantRow(tb, c) = Keep(l, T)
  BY DEF ActiveGrantRow
<1>4. \A i \in DOMAIN l : l[i] \in T <=> l[i].class = c /\ l[i].revoked = 0
  BY <1>2
<1> HIDE DEF T, l
<1>5. /\ Keep(l, T) = <<>> => \A i \in DOMAIN l : l[i] \notin T
      /\ Keep(l, T) # <<>> =>
           \E m \in DOMAIN l :
               /\ l[m] \in T /\ Keep(l, T)[Len(Keep(l, T))] = l[m]
               /\ \A i \in DOMAIN l : l[i] \in T => i <= m
  BY <1>2, KeepLast
<1>6. Last(Keep(l, T)) = Keep(l, T)[Len(Keep(l, T))]
  BY DEF Last
<1> QED
  BY <1>3, <1>4, <1>5, <1>6 DEF l

(* An update of one row of the grants, by its key. *)
LEMMA GrantUpdated ==
  ASSUME NEW tb, Proper(tb), NEW m \in DOMAIN tb["trust_grants"], NEW columns, "key" \notin DOMAIN columns
  PROVE  LET l == tb["trust_grants"]
             k == UpdateAt(tb, "trust_grants", l[m].key, columns)["trust_grants"]
         IN  /\ DOMAIN k = DOMAIN l
             /\ k[m] = With(l[m], columns)
             /\ \A i \in DOMAIN l : i # m => k[i] = l[i]
<1> DEFINE l == tb["trust_grants"]
           k == UpdateAt(tb, "trust_grants", l[m].key, columns)["trust_grants"]
<1>1. IsTable(l) /\ "trust_grants" \in PROJECTION_TABLES
  BY DEF Proper, PROJECTION_TABLES
<1>2. /\ DOMAIN k = DOMAIN l
      /\ \A i \in DOMAIN l : k[i] = IF l[i].key = l[m].key THEN With(l[i], columns) ELSE l[i]
  BY <1>1 DEF UpdateAt, Proper
<1> HIDE DEF l, k
<1>3. \A i \in DOMAIN l : l[i].key = l[m].key => i = m
  BY <1>1 DEF IsTable, l
<1>4. k[m] = With(l[m], columns) /\ \A i \in DOMAIN l : i # m => k[i] = l[i]
  BY <1>2, <1>3 DEF l
<1> QED
  BY <1>2, <1>4 DEF k, l

(* A grant opens a row below all others. *)
LEMMA GrantsGranted ==
  ASSUME FamilyInv, \A i \in DOMAIN tables["trust_grants"] : GrantFits(i),
         NEW e, Logs(e), e.type = "trust_granted"
  PROVE  \A i \in DOMAIN tables'["trust_grants"] : GrantFits(i)'
<1> DEFINE N == Len(eventLog)
           l == tables["trust_grants"]
           k == tables'["trust_grants"]
           M == Len(l)
           row == [class |-> e.class, expires |-> e.seq, revoked |-> 0, at |-> e.seq]
           x == Keyed(row, NextKey(l))
<1>1. /\ N \in Nat /\ e.seq = N + 1 /\ DOMAIN eventLog' = 1 .. N + 1 /\ Len(eventLog') = N + 1
  BY DEF Logs
<1>2. tables' = InsertRow(tables, "trust_grants", row)
  BY DEF Logs, Project, HandleTrustGranted
<1>3. row["class"] = e.class /\ row["revoked"] = 0 /\ row["at"] = N + 1
      /\ {"class", "revoked", "at"} \subseteq DOMAIN row /\ "key" \notin DOMAIN row
  BY <1>1
<1>4. Added(tables, tables', "trust_grants", x)
  BY <1>2, InsertRowAdds DEF FamilyInv, Numbered
<1> HIDE DEF row
<1>5. /\ x["class"] = e.class /\ x["revoked"] = 0 /\ x["at"] = N + 1
      /\ {"class", "revoked", "at"} \subseteq DOMAIN x
  BY <1>3 DEF Keyed, With
<1> HIDE DEF x
<1>6. /\ M \in Nat /\ DOMAIN l = 1 .. M /\ DOMAIN k = 1 .. M + 1
      /\ \A i \in 1 .. M : k[i] = l[i]
      /\ k[M + 1] = x
  BY <1>4 DEF Added
<1> HIDE DEF N, M, l, k
<1> SUFFICES ASSUME NEW i \in 1 .. M + 1 PROVE GrantFits(i)'
  BY <1>6 DEF k
<1>7. CASE i \in 1 .. M
  <2>1. GrantFits(i) /\ k[i] = l[i] /\ i <= M
    BY <1>6, <1>7 DEF l
  <2> DEFINE O == OpenAfter(l, i)
             O1 == OpenAfter(k, i)
  <2>2. O = {j \in 1 .. M : i < j /\ l[j].class = l[i].class /\ l[j].revoked = 0}
        /\ O1 = {j \in 1 .. M + 1 : i < j /\ k[j].class = k[i].class /\ k[j].revoked = 0}
    BY <1>6 DEF OpenAfter
  <2>3. 1 .. M + 1 = (1 .. M) \cup {M + 1} /\ i < M + 1
    BY <1>6, <2>1
  <2>4. e.class = l[i].class => O1 = O \cup {M + 1}
    BY <1>5, <1>6, <2>1, <2>2, <2>3
  <2>5. e.class # l[i].class => O1 = O
    BY <1>5, <1>6, <2>1, <2>2, <2>3
  <2>6. O \subseteq 1 .. M
    BY <2>2
  <2> HIDE DEF O, O1
  <2>7. /\ Cardinality(O) \in Nat /\ Cardinality(O1) \in Nat
        /\ Cardinality(O1) = Cardinality(O) + (IF e.class = l[i].class THEN 1 ELSE 0)
    <3>1. Cardinality(O) \in Nat /\ Cardinality(O \cup {M + 1}) = Cardinality(O) + 1
      BY <1>6, <2>6, CountIn
    <3>2. CASE e.class = l[i].class
      <4>1. Cardinality(O1) = Cardinality(O) + 1
        BY <2>4, <3>1, <3>2
      <4> QED
        BY <3>1, <3>2, <4>1
    <3>3. CASE e.class # l[i].class
      BY <2>5, <3>1, <3>3
    <3> QED
      BY <3>2, <3>3
  <2>8. Alike(k[i], l[i])
    BY <2>1 DEF Alike, GrantFits, l
  <2> QED
    BY <2>1, <2>7, <2>8, GrantRowStays DEF O, O1, l, k
<1>8. CASE i = M + 1
  <2>1. k[i] = x
    BY <1>6, <1>8
  <2>2. OpenAfter(k, i) = {}
    BY <1>6, <1>8 DEF OpenAfter
  <2>3. Cardinality(OpenAfter(k, i)) = 0
    <3>1. 0 \in Nat /\ {} \subseteq 1 .. 0
      OBVIOUS
    <3> QED
      BY <2>2, <3>1, CountIn
  <2> DEFINE S(type, n) == {j \in SeqsOf({type})' : eventLog'[j].class = x.class /\ x.at < j /\ j <= n}
             CG(n) == Cardinality(S("trust_granted", n))
             CR(n) == Cardinality(S("trust_revoked", n))
  <2>4. ASSUME NEW n \in 1 .. N + 1, NEW type PROVE S(type, n) = {}
    <3>1. SeqsOf({type})' \subseteq 1 .. N + 1
      BY <1>1 DEF SeqsOf
    <3>2. \A j \in 1 .. N + 1 : ~(N + 1 < j)
      BY <1>1
    <3> QED
      BY <1>5, <3>1, <3>2
  <2>5. \A n \in 1 .. N + 1 : CG(n) = 0 /\ CR(n) = 0
    <3>1. 0 \in Nat /\ {} \subseteq 1 .. 0
      OBVIOUS
    <3>2. Cardinality({}) = 0
      BY <3>1, CountIn
    <3> QED
      BY <2>4, <3>2
  <2>6. N + 1 \in 1 .. N + 1
    BY <1>1
  <2> DEFINE y == tables'["trust_grants"][i]
  <2>7. y = x
    BY <2>1 DEF k
  <2>8. /\ {"class", "revoked", "at"} \subseteq DOMAIN x /\ x.at \in DOMAIN eventLog'
        /\ x.revoked = 0 => /\ CG(Len(eventLog')) = CR(Len(eventLog')) + Cardinality(OpenAfter(k, i))
                            /\ \A n \in DOMAIN eventLog' : CR(n) <= CG(n)
        /\ x.revoked # 0 => \E n \in DOMAIN eventLog' : CR(n) > CG(n)
    <3> HIDE DEF CG, CR
    <3> QED
      BY <1>1, <1>5, <2>3, <2>5, <2>6
  <2> DEFINE S1(type, n) == {j \in SeqsOf({type})' : eventLog'[j].class = y.class /\ y.at < j /\ j <= n}
             CG1(n) == Cardinality(S1("trust_granted", n))
             CR1(n) == Cardinality(S1("trust_revoked", n))
  <2>9. (\A n : CG1(n) = CG(n)) /\ (\A n : CR1(n) = CR(n))
    <3> HIDE DEF y
    <3> QED
      BY <2>7
  <2>10. /\ {"class", "revoked", "at"} \subseteq DOMAIN y /\ y.at \in DOMAIN eventLog'
         /\ y.revoked = 0 => /\ CG1(Len(eventLog')) = CR1(Len(eventLog')) + Cardinality(OpenAfter(k, i))
                             /\ \A n \in DOMAIN eventLog' : CR1(n) <= CG1(n)
         /\ y.revoked # 0 => \E n \in DOMAIN eventLog' : CR1(n) > CG1(n)
    <3> HIDE DEF CG, CR, CG1, CR1, y
    <3> QED
      BY <2>7, <2>8, <2>9
  <2> QED
    BY <2>10, Zenon DEF GrantFits, Later, k
<1> QED
  BY <1>6, <1>7, <1>8

(* A revocation closes the last open row of the class, if there is one. *)
LEMMA GrantsRevoked ==
  ASSUME FamilyInv, \A i \in DOMAIN tables["trust_grants"] : GrantFits(i),
         NEW e, Logs(e), e.type = "trust_revoked"
  PROVE  \A i \in DOMAIN tables'["trust_grants"] : GrantFits(i)'
<1> DEFINE N == Len(eventLog)
           l == tables["trust_grants"]
           k == tables'["trust_grants"]
           c == e.class
           active == ActiveGrantRow(tables, c)
           M == Len(l)
<1>1. /\ N \in Nat /\ e.seq = N + 1 /\ DOMAIN eventLog = 1 .. N /\ DOMAIN eventLog' = 1 .. N + 1
      /\ Len(eventLog') = N + 1
  BY DEF Logs
<1>2. tables' = HandleTrustRevoked(tables, e)
  BY DEF Logs, Project
<1>3. M \in Nat /\ DOMAIN l = 1 .. M
  BY TableFacts DEF FamilyInv, Proper, PROJECTION_TABLES
<1>4. \A i \in DOMAIN l : /\ GrantFits(i) /\ l[i].at \in 1 .. N
                          /\ {"class", "revoked", "at"} \subseteq DOMAIN l[i]
  BY <1>1 DEF GrantFits
<1>5. \A i \in DOMAIN l : OpenAfter(l, i) \subseteq 1 .. M /\ Cardinality(OpenAfter(l, i)) \in Nat
  <2>1. \A i \in DOMAIN l : OpenAfter(l, i) \subseteq 1 .. M
    BY <1>3 DEF OpenAfter
  <2> HIDE DEF M
  <2> QED
    BY <1>3, <2>1, CountIn
\* no row of the class is open
<1>6. CASE active = <<>>
  <2>1. tables' = tables
    BY <1>2, <1>6 DEF HandleTrustRevoked
  <2>2. \A i \in DOMAIN l : ~(l[i].class = c /\ l[i].revoked = 0)
    BY <1>6, ActiveRow DEF FamilyInv
  <2> SUFFICES ASSUME NEW i \in DOMAIN l PROVE GrantFits(i)'
    BY <2>1
  <2>3. Alike(k[i], l[i]) /\ k = l
    BY <1>4, <2>1 DEF Alike
  <2>4. l[i].revoked = 0 => l[i].class # e.class
    BY <2>2
  <2> DEFINE O == Cardinality(OpenAfter(l, i))
  <2>5. O \in Nat /\ OpenAfter(k, i) = OpenAfter(l, i)
    BY <1>5, <2>3
  <2> HIDE DEF O
  <2> QED
    BY <1>4, <2>3, <2>4, <2>5, GrantRowStays DEF O
\* the last open one is closed
<1>7. CASE active # <<>>
  <2>1. PICK m \in DOMAIN l : /\ l[m].class = c /\ l[m].revoked = 0 /\ Last(active).key = l[m].key
                              /\ \A i \in DOMAIN l : l[i].class = c /\ l[i].revoked = 0 => i <= m
    BY <1>7, ActiveRow DEF FamilyInv
  <2> DEFINE columns == [revoked |-> e.seq]
  <2>2. tables' = UpdateAt(tables, "trust_grants", l[m].key, columns)
    BY <1>2, <1>7, <2>1 DEF HandleTrustRevoked
  <2>3. "key" \notin DOMAIN columns
    OBVIOUS
  <2>4. DOMAIN k = DOMAIN l /\ k[m] = With(l[m], columns) /\ \A i \in DOMAIN l : i # m => k[i] = l[i]
    BY <2>2, <2>3, GrantUpdated DEF FamilyInv
  <2> DEFINE y == k[m]
  <2>5. /\ {"class", "revoked", "at"} \subseteq DOMAIN y
        /\ y["class"] = c /\ y["revoked"] = N + 1 /\ y["at"] = l[m]["at"]
    <3>1. columns["revoked"] = N + 1 /\ DOMAIN columns = {"revoked"}
      BY <1>1
    <3>2. y = With(l[m], columns)
      BY <2>4
    <3> HIDE DEF y, columns
    <3> QED
      BY <1>4, <2>1, <3>1, <3>2 DEF With
  <2> HIDE DEF columns, N, l, k, M
  <2> SUFFICES ASSUME NEW i \in DOMAIN l PROVE GrantFits(i)'
    BY <2>4 DEF k
  <2>6. CASE i # m
    <3>1. Alike(k[i], l[i])
      BY <1>4, <2>4, <2>6 DEF Alike
    <3> DEFINE O == OpenAfter(l, i)
               O1 == OpenAfter(k, i)
    <3>2. O = {j \in DOMAIN l : i < j /\ l[j].class = l[i].class /\ l[j].revoked = 0}
          /\ O1 = {j \in DOMAIN l : i < j /\ k[j].class = l[i].class /\ k[j].revoked = 0}
      BY <2>4, <2>6 DEF OpenAfter
    <3>3. O1 = O \ {m}
      <4>1. k[m].revoked # 0
        BY <1>1, <2>5
      <4> QED
        BY <2>4, <3>2, <4>1
    <3>4. l[i].revoked = 0 => (m \in O <=> l[i].class = c)
      <4>1. l[i].revoked = 0 /\ l[i].class = c => i < m
        BY <1>3, <2>1, <2>6
      <4> QED
        BY <2>1, <3>2, <4>1
    <3>5. O \subseteq 1 .. M
      BY <1>5
    <3> HIDE DEF O, O1
    <3>6. m \in O => Cardinality(O1) + 1 = Cardinality(O)
      BY <1>3, <3>3, <3>5, CountIn
    <3>7. m \notin O => O1 = O
      BY <3>3
    <3>8. Cardinality(O) \in Nat /\ Cardinality(O1) \in Nat
      <4>1. O1 \subseteq 1 .. M
        BY <3>3, <3>5
      <4> QED
        BY <1>3, <3>5, <4>1, CountIn
    <3>9. l[i].revoked = 0 => Cardinality(O1) + (IF e.class = l[i].class THEN 1 ELSE 0) = Cardinality(O)
      <4>1. CASE m \in O
        BY <3>4, <3>6, <4>1
      <4>2. CASE m \notin O
        BY <3>4, <3>7, <3>8, <4>2
      <4> QED
        BY <4>1, <4>2
    <3> QED
      BY <1>4, <3>1, <3>8, <3>9, GrantRowStays DEF O, O1, l, k
  <2>7. CASE i = m
    <3> DEFINE a == l[m].at
               G(n) == Cardinality(Later(c, a, "trust_granted", n))
               R(n) == Cardinality(Later(c, a, "trust_revoked", n))
               G1(n) == Cardinality({j \in SeqsOf({"trust_granted"})' :
                                      eventLog'[j].class = y.class /\ y.at < j /\ j <= n})
               R1(n) == Cardinality({j \in SeqsOf({"trust_revoked"})' :
                                      eventLog'[j].class = y.class /\ y.at < j /\ j <= n})
    <3>1. G(N) = R(N) + Cardinality(OpenAfter(l, m))
      BY <1>4, <2>1 DEF GrantFits, N, l
    <3>2. OpenAfter(l, m) = {}
      BY <1>3, <2>1 DEF OpenAfter
    <3>3. Cardinality(OpenAfter(l, m)) = 0
      <4>1. 0 \in Nat /\ {} \subseteq 1 .. 0
        OBVIOUS
      <4> QED
        BY <3>2, <4>1, CountIn
    <3>4. PICK b : b = l[m].at
      OBVIOUS
    <3>5. b \in 1 .. N
      BY <1>4, <3>4
    <3> DEFINE g(n) == Cardinality(Later(c, b, "trust_granted", n)')
               r(n) == Cardinality(Later(c, b, "trust_revoked", n)')
    <3>6. \A n : n = N + 1 => g(n) = G(N) /\ r(n) = R(N) + 1
      BY <3>4, <3>5, CountsGrow DEF N
    <3>7. R(N) \in Nat
      BY <3>4, <3>5, CountsGrow DEF N
    <3>8. y.class = c /\ y.at = b /\ y.revoked = N + 1
      BY <2>5, <3>4
    <3>9. (\A n : g(n) = G1(n)) /\ (\A n : r(n) = R1(n))
      <4>1. /\ \A n : g(n) = Cardinality({j \in SeqsOf({"trust_granted"})' :
                                         eventLog'[j].class = c /\ b < j /\ j <= n})
            /\ \A n : r(n) = Cardinality({j \in SeqsOf({"trust_revoked"})' :
                                         eventLog'[j].class = c /\ b < j /\ j <= n})
        BY DEF Later
      <4> HIDE DEF y, g, r
      <4> QED
        BY <3>8, <4>1
    <3>10. /\ {"class", "revoked", "at"} \subseteq DOMAIN y /\ y.at \in DOMAIN eventLog'
           /\ y.revoked # 0 /\ \E n \in DOMAIN eventLog' : R1(n) > G1(n)
      <4>1. N + 1 \in 1 .. N + 1 /\ b \in 1 .. N + 1 /\ N + 1 # 0
        BY <1>1, <3>5
      <4>2. g(N + 1) = G(N) /\ r(N + 1) = R(N) + 1
        <5> HIDE DEF g, r, G, R
        <5> QED
          BY <3>6
      <4> HIDE DEF g, r, G, R, G1, R1, y
      <4>3. r(N + 1) > g(N + 1)
        BY <3>1, <3>3, <3>7, <4>2
      <4>4. R1(N + 1) > G1(N + 1)
        BY <3>9, <4>3
      <4> QED
        BY <1>1, <2>5, <3>8, <4>1, <4>4
    <3> QED
      BY <2>7, <3>10, Zenon DEF GrantFits, Later, k
  <2> QED
    BY <2>6, <2>7
<1> QED
  BY <1>6, <1>7

(* A renewal sets an expiry. *)
LEMMA GrantsRenewed ==
  ASSUME FamilyInv, \A i \in DOMAIN tables["trust_grants"] : GrantFits(i),
         NEW e, Logs(e), e.type = "trust_renewed"
  PROVE  \A i \in DOMAIN tables'["trust_grants"] : GrantFits(i)'
<1> DEFINE l == tables["trust_grants"]
           k == tables'["trust_grants"]
           c == e.class
           active == ActiveGrantRow(tables, c)
           M == Len(l)
<1>1. tables' = HandleTrustRenewed(tables, e)
  BY DEF Logs, Project
<1>2. M \in Nat /\ DOMAIN l = 1 .. M
  BY TableFacts DEF FamilyInv, Proper, PROJECTION_TABLES
<1>3. \A i \in DOMAIN l : GrantFits(i) /\ {"class", "revoked", "at"} \subseteq DOMAIN l[i]
  BY DEF GrantFits
<1>4. \A i \in DOMAIN l : Cardinality(OpenAfter(l, i)) \in Nat
  <2>1. \A i \in DOMAIN l : OpenAfter(l, i) \subseteq 1 .. M
    BY <1>2 DEF OpenAfter
  <2> HIDE DEF M
  <2> QED
    BY <1>2, <2>1, CountIn
<1>5. DOMAIN k = DOMAIN l /\ \A i \in DOMAIN l : Alike(k[i], l[i])
  <2>1. CASE active = <<>>
    BY <1>1, <1>3, <2>1 DEF HandleTrustRenewed, Alike
  <2>2. CASE active # <<>>
    <3>1. PICK m \in DOMAIN l : Last(active).key = l[m].key
      BY <2>2, ActiveRow DEF FamilyInv
    <3> DEFINE columns == [expires |-> e.seq]
    <3>2. tables' = UpdateAt(tables, "trust_grants", l[m].key, columns)
      BY <1>1, <2>2, <3>1 DEF HandleTrustRenewed
    <3>3. DOMAIN columns = {"expires"}
      OBVIOUS
    <3>4. DOMAIN k = DOMAIN l /\ k[m] = With(l[m], columns) /\ \A i \in DOMAIN l : i # m => k[i] = l[i]
      BY <3>2, <3>3, GrantUpdated DEF FamilyInv
    <3> DEFINE y == k[m]
    <3>5. /\ {"class", "revoked", "at"} \subseteq DOMAIN y
          /\ y["class"] = l[m]["class"] /\ y["revoked"] = l[m]["revoked"] /\ y["at"] = l[m]["at"]
      <4>1. y = With(l[m], columns)
        BY <3>4
      <4> HIDE DEF y, columns, l
      <4> QED
        BY <1>3, <3>3, <4>1 DEF With
    <3> HIDE DEF columns, l, k
    <3> QED
      BY <1>3, <3>4, <3>5 DEF Alike
  <2> QED
    BY <2>1, <2>2
<1> HIDE DEF l, k, active
<1>6. \A i \in DOMAIN l : OpenAfter(k, i) = OpenAfter(l, i)
  BY <1>5 DEF OpenAfter, Alike
<1> SUFFICES ASSUME NEW i \in DOMAIN l PROVE GrantFits(i)'
  BY <1>5 DEF k
<1> DEFINE O == Cardinality(OpenAfter(l, i))
<1>7. O \in Nat /\ Cardinality(OpenAfter(k, i)) = O
  BY <1>4, <1>6
<1> HIDE DEF O
<1> QED
  BY <1>3, <1>5, <1>7, GrantRowStays DEF O, l, k

(* An event more keeps the grants in step with the log. *)
LEMMA GrantsStep ==
  ASSUME FamilyInv, GrantInv, NEW e, Logs(e)
  PROVE  GrantInv'
<1> DEFINE P == SeqsOf({"trust_grant_pruned"})
<1>1. /\ e.type = "trust_grant_pruned" => P' = P \cup {Len(eventLog) + 1}
      /\ e.type # "trust_grant_pruned" => P' = P
  <2>1. e.type \in {"trust_grant_pruned"} <=> e.type = "trust_grant_pruned"
    OBVIOUS
  <2> QED
    BY <2>1, SeqsGrow
<1> SUFFICES ASSUME P' = {} PROVE \A i \in DOMAIN tables'["trust_grants"] : GrantFits(i)'
  BY DEF GrantInv
<1>2. e.type # "trust_grant_pruned" /\ \A i \in DOMAIN tables["trust_grants"] : GrantFits(i)
  BY <1>1 DEF GrantInv
<1>3. CASE family # "trust"
  <2>1. "trust_grants" \in PROJECTION_TABLES \ TablesOf(family)
    BY <1>3 DEF TablesOf, Families, FamilyInv, PROJECTION_TABLES
  <2>2. tables'["trust_grants"] = <<>>
    BY <2>1 DEF Logs, FamilyInv, Kept
  <2> QED
    BY <2>2
<1>4. CASE family = "trust"
  <2>1. e.type \in {"trust_granted", "trust_renewed", "trust_revoked"}
    BY <1>2, <1>4 DEF Logs, TypesOf
  <2> QED
    BY <1>2, <2>1, GrantsGranted, GrantsRenewed, GrantsRevoked
<1> QED
  BY <1>3, <1>4

-----------------------------------------------------------------------------
(***************************************************************************)
(* What a role has spent: a recursion over the log, defined and continued as*)
(* the rebuild above.                                                      *)
(***************************************************************************)
\* what an event adds to what a role has spent
Spent(total, e, role) == IF e.type = "cost_spent" /\ e.role = role THEN total + e.amount ELSE total

\* the sums of a log up to n
IsSum(f, l, role, n) == f = [m \in 0 .. n |-> IF m = 0 THEN 0 ELSE Spent(f[m - 1], l[m], role)]

\* what is used of the recursion that adds them up
SumsWith(f, l, role) ==
  /\ f[0] = 0
  /\ \A n \in 0 .. Len(l) - 1 : f[n + 1] = Spent(f[n], l[n + 1], role)
  /\ SumOf(l, role) = f[Len(l)]

(* The sum's recursion has a solution. *)
LEMMA SumIsDefined ==
  ASSUME NEW S, NEW l \in Seq(S), NEW role
  PROVE  \E f : SumsWith(f, l, role)
<1>0. Len(l) \in Nat
  BY Positions
<1> DEFINE Solved == {n \in 0 .. Len(l) : \E f : IsSum(f, l, role, n)}
<1>1. 0 \in Solved
  <2>1. IsSum([m \in 0 .. 0 |-> 0], l, role, 0)
    BY DEF IsSum
  <2> QED
    BY <1>0, <2>1
<1>2. ASSUME NEW n \in 0 .. Len(l) - 1, n \in Solved PROVE n + 1 \in Solved
  <2>1. PICK f : IsSum(f, l, role, n)
    BY <1>2
  <2> DEFINE g == [m \in 0 .. n + 1 |-> IF m <= n THEN f[m] ELSE Spent(f[n], l[m], role)]
  <2>2. ASSUME NEW m \in 0 .. n + 1
        PROVE  g[m] = IF m = 0 THEN 0 ELSE Spent(g[m - 1], l[m], role)
    <3>1. CASE m = n + 1
      <4>1. m # 0 /\ ~(m <= n) /\ m - 1 = n /\ n \in 0 .. n + 1 /\ n <= n
        BY <1>0, <3>1
      <4>2. g[m - 1] = f[n]
        BY <4>1
      <4> QED
        BY <4>1, <4>2
    <3>2. CASE m # n + 1
      <4>1. m \in 0 .. n /\ m <= n
        BY <1>0, <3>2
      <4>2. g[m] = f[m]
        BY <4>1
      <4>3. m # 0 => m - 1 \in 0 .. n + 1 /\ m - 1 <= n
        BY <1>0, <4>1
      <4>4. m # 0 => g[m - 1] = f[m - 1]
        BY <4>3
      <4>5. f[m] = IF m = 0 THEN 0 ELSE Spent(f[m - 1], l[m], role)
        BY <2>1, <4>1 DEF IsSum
      <4> QED
        BY <4>2, <4>4, <4>5
    <3> QED
      BY <3>1, <3>2
  <2>3. IsSum(g, l, role, n + 1)
    <3>1. g = [m \in 0 .. n + 1 |-> g[m]]
      OBVIOUS
    <3> HIDE DEF g
    <3> QED
      BY <2>2, <3>1 DEF IsSum
  <2>4. n + 1 \in 0 .. Len(l)
    BY <1>0
  <2> QED
    BY <2>3, <2>4
<1>3. Len(l) \in Solved
  <2> HIDE DEF Solved
  <2>1. 0 .. Len(l) \subseteq Solved
    BY <1>0, <1>1, <1>2, UpTo
  <2> QED
    BY <1>0, <2>1
<1> DEFINE k == CHOOSE f : IsSum(f, l, role, Len(l))
<1>4. IsSum(k, l, role, Len(l))
  BY <1>3
<1>5. SumOf(l, role) = k[Len(l)]
  BY DEF SumOf, IsSum, Spent
<1> HIDE DEF k
<1>6. k[0] = 0
  BY <1>0, <1>4 DEF IsSum
<1>7. ASSUME NEW n \in 0 .. Len(l) - 1 PROVE k[n + 1] = Spent(k[n], l[n + 1], role)
  <2> DEFINE m == n + 1
  <2>1. m \in 0 .. Len(l) /\ m # 0 /\ m - 1 = n
    BY <1>0
  <2> HIDE DEF m
  <2>2. k[m] = Spent(k[m - 1], l[m], role)
    BY <1>4, <2>1 DEF IsSum
  <2>3. k[m] = Spent(k[n], l[m], role)
    BY <2>1, <2>2
  <2> QED
    BY <2>3 DEF m
<1> QED
  BY <1>5, <1>6, <1>7 DEF SumsWith

(* What is spent after an event more. *)
LEMMA SumGoesOn ==
  ASSUME NEW S, NEW l \in Seq(S), NEW e \in S, NEW role
  PROVE  /\ SumOf(Append(l, e), role) = Spent(SumOf(l, role), e, role)
         /\ SumOf(<<>>, role) = 0
<1> DEFINE long == Append(l, e)
<1>1. /\ long \in Seq(S) /\ Len(l) \in Nat /\ Len(long) = Len(l) + 1 /\ DOMAIN l = 1 .. Len(l)
      /\ \A i \in DOMAIN l : long[i] = l[i]
      /\ long[Len(l) + 1] = e
  BY AppendGrows
<1> HIDE DEF long
<1>2. PICK f : SumsWith(f, l, role)
  BY SumIsDefined
<1>3. PICK g : SumsWith(g, long, role)
  BY <1>1, SumIsDefined
<1>4. f[Len(l)] = g[Len(l)]
  <2> DEFINE Agree == {m \in 0 .. Len(l) : f[m] = g[m]}
  <2>1. 0 \in Agree
    BY <1>1, <1>2, <1>3 DEF SumsWith
  <2>2. ASSUME NEW m \in 0 .. Len(l) - 1, m \in Agree PROVE m + 1 \in Agree
    <3>1. /\ f[m] = g[m] /\ m + 1 \in 1 .. Len(l) /\ m + 1 \in 0 .. Len(l) /\ m \in 0 .. Len(long) - 1
      BY <1>1, <2>2
    <3>2. f[m + 1] = Spent(f[m], l[m + 1], role) /\ g[m + 1] = Spent(g[m], long[m + 1], role)
      BY <1>2, <1>3, <3>1 DEF SumsWith
    <3>3. l[m + 1] = long[m + 1]
      BY <1>1, <3>1
    <3> QED
      BY <3>1, <3>2, <3>3
  <2> HIDE DEF Agree
  <2>3. 0 .. Len(l) \subseteq Agree
    BY <1>1, <2>1, <2>2, UpTo
  <2> QED
    BY <1>1, <2>3 DEF Agree
<1>5. g[Len(l) + 1] = Spent(g[Len(l)], e, role)
  BY <1>1, <1>3 DEF SumsWith
<1>6. SumOf(l, role) = f[Len(l)] /\ SumOf(long, role) = g[Len(l) + 1]
  BY <1>1, <1>2, <1>3 DEF SumsWith
<1>7. SumOf(<<>>, role) = 0
  <2>1. <<>> \in Seq(S) /\ Len(<<>>) = 0
    BY EmptySeq
  <2>2. PICK h : SumsWith(h, <<>>, role)
    BY <2>1, SumIsDefined
  <2> QED
    BY <2>1, <2>2 DEF SumsWith
<1> QED
  BY <1>4, <1>5, <1>6, <1>7 DEF long

\* what each role has spent
CostInv ==
  \A r : /\ HasKey(tables["cost"], r) => /\ "spent" \in DOMAIN RowWith(tables["cost"], r)
                                         /\ RowWith(tables["cost"], r).spent = SumOf(eventLog, r)
         /\ ~HasKey(tables["cost"], r) => SumOf(eventLog, r) = 0

(* Then the cost table means what the log says. *)
LEMMA CostMeans == Proper(tables) /\ CostInv => CostIsSum
<1> SUFFICES ASSUME Proper(tables), CostInv, NEW i \in DOMAIN tables["cost"]
             PROVE  tables["cost"][i].spent = SumOf(eventLog, tables["cost"][i].key)
  BY DEF CostIsSum
<1>1. IsTable(tables["cost"])
  BY DEF Proper, PROJECTION_TABLES
<1>2. /\ HasKey(tables["cost"], tables["cost"][i].key)
      /\ RowWith(tables["cost"], tables["cost"][i].key) = tables["cost"][i]
  BY <1>1, RowByKey
<1> QED
  BY <1>2 DEF CostInv

(* An event more keeps the sums in step with the log. *)
LEMMA CostStep ==
  ASSUME FamilyInv, FamilyInv', CostInv, NEW e, Logs(e)
  PROVE  CostInv'
<1> DEFINE l == tables["cost"]
           k == tables'["cost"]
<1>0. /\ tables' = Project(tables, persisted, e) /\ Proper(tables) /\ "cost" \in PROJECTION_TABLES \ Numbered
  BY DEF Logs, FamilyInv, PROJECTION_TABLES, Numbered
<1>1. \A r : SumOf(eventLog', r) = Spent(SumOf(eventLog, r), e, r)
  <2>1. e \in Logged
    <3>1. Len(eventLog) + 1 \in DOMAIN eventLog' /\ eventLog'[Len(eventLog) + 1] = e
      BY DEF Logs
    <3>2. eventLog' \in Seq(Logged)
      BY DEF FamilyInv
    <3> QED
      BY <3>1, <3>2, Positions
  <2> QED
    BY <2>1, SumGoesOn DEF FamilyInv, Logs
<1> SUFFICES ASSUME NEW r
             PROVE  /\ HasKey(k, r) => /\ "spent" \in DOMAIN RowWith(k, r)
                                       /\ RowWith(k, r).spent = SumOf(eventLog', r)
                    /\ ~HasKey(k, r) => SumOf(eventLog', r) = 0
  BY DEF CostInv
<1>2. CASE e.type = "cost_spent"
  <2> DEFINE spent == IF HasKey(l, e.role) THEN RowWith(l, e.role).spent ELSE 0
             row == [spent |-> spent + e.amount, at |-> e.seq]
  <2>1. tables' = Upsert(tables, "cost", e.role, row, row)
    BY <1>0, <1>2 DEF Project, HandleCostSpent
  <2>2. "key" \notin DOMAIN row /\ "spent" \in DOMAIN row /\ row["spent"] = spent + e.amount
    OBVIOUS
  <2>3. spent = SumOf(eventLog, e.role)
    BY DEF CostInv
  <2> HIDE DEF row, spent
  <2>4. /\ \A j : HasKey(k, j) <=> HasKey(l, j) \/ j = e.role
        /\ \A j : j # e.role /\ HasKey(l, j) => RowWith(k, j) = RowWith(l, j)
        /\ HasKey(l, e.role) => RowWith(k, e.role) = With(RowWith(l, e.role), row)
        /\ ~HasKey(l, e.role) => RowWith(k, e.role) = Keyed(row, e.role)
    BY <1>0, <2>1, <2>2, UpsertReads
  <2> HIDE DEF l, k
  <2>5. CASE r = e.role
    <3> DEFINE y == RowWith(k, r)
    <3>1. y = With(RowWith(l, r), row) \/ y = Keyed(row, r)
      BY <2>4, <2>5
    <3> HIDE DEF y
    <3>2. "spent" \in DOMAIN y /\ y["spent"] = row["spent"]
      BY <2>2, <3>1 DEF With, Keyed
    <3>3. SumOf(eventLog', r) = spent + e.amount
      BY <1>1, <1>2, <2>3, <2>5 DEF Spent
    <3> QED
      BY <2>2, <2>4, <2>5, <3>2, <3>3 DEF y
  <2>6. CASE r # e.role
    <3>1. SumOf(eventLog', r) = SumOf(eventLog, r)
      BY <1>1, <2>6 DEF Spent
    <3> QED
      BY <2>4, <2>6, <3>1 DEF CostInv, l
  <2> QED
    BY <2>5, <2>6
<1>3. CASE e.type # "cost_spent"
  <2>1. SumOf(eventLog', r) = SumOf(eventLog, r)
    BY <1>1, <1>3 DEF Spent
  <2>2. k = l
    <3>1. CASE family # "session"
      <4>1. "cost" \notin TablesOf(family)
        BY <3>1 DEF TablesOf, Families, FamilyInv
      <4> QED
        BY <1>0, <4>1 DEF Logs, Kept
    <3>2. CASE family = "session"
      <4>0. e.type \in TypesOf("session")
        BY <3>2 DEF Logs
      <4>1. CASE e.type \in {"project_assembled", "build_target_set"}
        BY <1>0, <4>1 DEF Project
      <4>2. CASE e.type = "gate_fired"
        <5>1. tables' = HandleGateFired(tables, e)
          BY <1>0, <4>2 DEF Project
        <5> QED
          BY <5>1 DEF HandleGateFired, InsertKeyed
      <4>3. CASE e.type = "connection_opened"
        BY <1>0, <4>3, OneStatementKeeps DEF Project, Kept
      <4>4. CASE e.type = "role_transitioned"
        BY <1>0, <4>4, OneStatementKeeps DEF Project, Kept
      <4>5. CASE e.type = "write_lock_acquired"
        BY <1>0, <4>5, OneStatementKeeps DEF Project, Kept
      <4>6. CASE e.type = "write_lock_released"
        BY <1>0, <4>6, OneStatementKeeps DEF Project, Kept
      <4> QED
        BY <1>3, <4>0, <4>1, <4>2, <4>3, <4>4, <4>5, <4>6 DEF TypesOf
    <3> QED
      BY <3>1, <3>2
  <2> QED
    BY <2>1, <2>2 DEF CostInv
<1> QED
  BY <1>2, <1>3

-----------------------------------------------------------------------------
(***************************************************************************)
(* All of it together.                                                     *)
(***************************************************************************)
\* all of it
TablesInv == FamilyInv /\ LifeInv /\ PlansFit(tables) /\ QueueInv /\ GrantInv /\ CostInv

(* It holds of an empty log. *)
LEMMA TablesInit == ReadModelInit => TablesInv
<1> SUFFICES ASSUME ReadModelInit PROVE TablesInv
  OBVIOUS
<1>1. eventLog = <<>> /\ tables = Empty /\ family \in Families
  BY DEF ReadModelInit
<1>2. /\ \A t \in PROJECTION_TABLES : tables[t] = <<>>
      /\ tables = [t \in PROJECTION_TABLES |-> tables[t]]
      /\ \A r, k : ~HasKey(<<>>, k)
  BY <1>1 DEF Empty, HasKey
<1>3. IsSeq(<<>>) /\ DOMAIN <<>> = {} /\ Len(<<>>) = 0
  BY DEF IsSeq
<1>4. FamilyInv
  <2>1. IsTable(<<>>)
    BY <1>3 DEF IsTable
  <2>2. Proper(tables)
    BY <1>2, <1>3, <2>1, NumberedTables DEF Proper
  <2>3. "gate_fires" \in PROJECTION_TABLES
    BY DEF PROJECTION_TABLES
  <2> QED
    BY <1>1, <1>2, <1>3, <2>2, <2>3 DEF FamilyInv
<1>5. \A T : SeqsOf(T) = {}
  BY <1>1 DEF SeqsOf
<1>6. LifeInv
  <2>1. "task_lifecycle" \in PROJECTION_TABLES
    BY DEF PROJECTION_TABLES
  <2> QED
    BY <1>2, <1>5, <2>1 DEF LifeInv, StartsOf
<1>7. PlansFit(tables)
  BY <1>2 DEF PlansFit, PROJECTION_TABLES
<1>8. QueueInv
  <2>1. Queues \subseteq PROJECTION_TABLES
    BY DEF Queues, PROJECTION_TABLES
  <2> QED
    BY <1>2, <1>3, <1>5, <2>1 DEF QueueInv
<1>9. GrantInv
  BY <1>2, <1>3 DEF GrantInv, PROJECTION_TABLES
<1>10. CostInv
  <2>1. \A r : SumOf(<<>>, r) = 0
    <3>1. Empty \in {Empty} /\ <<>> \in Seq({Empty})
      OBVIOUS
    <3> QED
      BY <3>1, SumGoesOn
  <2> QED
    BY <1>1, <1>2, <2>1 DEF CostInv, PROJECTION_TABLES
<1> QED
  BY <1>4, <1>6, <1>7, <1>8, <1>9, <1>10 DEF TablesInv

(* It is kept by every step. *)
LEMMA TablesStep == TablesInv /\ [ReadModelNext]_readModelVars => TablesInv'
<1> SUFFICES ASSUME TablesInv, [ReadModelNext]_readModelVars PROVE TablesInv'
  OBVIOUS
<1> USE DEF TablesInv
<1>1. CASE UNCHANGED <<eventLog, tables, family>>
  <2>1. \A T : SeqsOf(T)' = SeqsOf(T)
    BY <1>1 DEF SeqsOf
  <2>2. FamilyInv'
    BY <1>1 DEF FamilyInv
  <2>3. LifeInv'
    <3> SUFFICES ASSUME NEW t \in ModelTasks
                 PROVE  /\ StartsOf(t)' = {} => ~HasKey(tables'["task_lifecycle"], t)
                        /\ StartsOf(t)' # {} => HasKey(tables'["task_lifecycle"], t) /\ LifeFits(t)'
      BY DEF LifeInv
    <3>1. StartsOf(t)' = StartsOf(t)
      BY <1>1, <2>1 DEF StartsOf
    <3>2. LastOf(StartsOf(t))' = LastOf(StartsOf(t))
      BY <3>1 DEF LastOf
    <3>3. EndsOf(t)' = EndsOf(t)
      BY <1>1, <2>1, <3>2 DEF EndsOf
    <3>4. LastOf(EndsOf(t))' = LastOf(EndsOf(t))
      BY <3>3 DEF LastOf
    <3>5. LifeFits(t) => LifeFits(t)'
      BY <1>1, <3>2, <3>3, <3>4 DEF LifeFits
    <3> QED
      BY <1>1, <3>1, <3>5 DEF LifeInv
  <2>4. PlansFit(tables)'
    BY <1>1
  <2>5. QueueInv'
    <3>1. ASSUME NEW q \in Queues, NEW i \in DOMAIN tables[q] PROVE QueueFits(q, i)'
      <4>1. VerdictsOn(q, i)' = VerdictsOn(q, i)
        BY <1>1, <2>1 DEF VerdictsOn
      <4>2. LastOf(VerdictsOn(q, i))' = LastOf(VerdictsOn(q, i))
        BY <4>1 DEF LastOf
      <4>3. QueueFits(q, i)
        BY DEF QueueInv
      <4> QED
        BY <1>1, <4>1, <4>2, <4>3 DEF QueueFits
    <3> QED
      BY <1>1, <2>1, <3>1 DEF QueueInv
  <2>6. GrantInv'
    <3> SUFFICES ASSUME SeqsOf({"trust_grant_pruned"}) = {}, NEW i \in DOMAIN tables["trust_grants"]
                 PROVE  GrantFits(i)'
      BY <1>1, <2>1 DEF GrantInv
    <3>1. GrantFits(i)
      BY DEF GrantInv
    <3>2. \A c, a, type, n : Later(c, a, type, n)' = Later(c, a, type, n)
      BY <1>1, <2>1 DEF Later
    <3> QED
      BY <1>1, <3>1, <3>2 DEF GrantFits
  <2>7. CostInv'
    BY <1>1 DEF CostInv
  <2> QED
    BY <2>2, <2>3, <2>4, <2>5, <2>6, <2>7
<1>2. ASSUME NEW event \in EventsIn(family), LogEvent(event) PROVE TablesInv'
  <2> DEFINE e == AtSeq(event, Len(eventLog) + 1)
  <2>1. FamilyInv' /\ Logs(e) /\ Says(e, event, Len(eventLog) + 1, family)
    BY <1>2, LoggingKeepsFamily
  <2> HIDE DEF e
  <2>2. Produced(event)
    BY <1>2 DEF LogEvent
  <2>3. LifeInv'
    BY <2>1, LifecycleStep DEF Says
  <2>4. PlansFit(tables)'
    BY <2>1, PlansStep DEF Says
  <2>5. QueueInv'
    <3>1. e.type \in Verdicts => e.kind \in Queues /\ HasKey(tables[e.kind], e.row)
      BY <2>1, <2>2 DEF Says, Produced, Verdicts, Queues
    <3>2. e.type = "gate_change_candidate" => e.change \in {"tighten", "loosen"}
      BY <2>1 DEF Says
    <3> QED
      BY <2>1, <3>1, <3>2, QueueStep
  <2>6. GrantInv'
    BY <2>1, GrantsStep
  <2>7. CostInv'
    BY <2>1, CostStep
  <2> QED
    BY <2>1, <2>3, <2>4, <2>5, <2>6, <2>7
<1> QED
  BY <1>1, <1>2 DEF ReadModelNext, WriteArtifact, readModelVars

(* The tables mean what the log says: no key is there twice, a task's lifecycle, a
   plan's pointer, a candidate's verdict, a grant and a role's spending are those
   the whole history gives (handlers.py), for any number of tasks, drafts, events. *)
THEOREM TablesMeanTheLog == ReadModelSpec => []TablesMeanLog
<1>1. TablesInv => TablesMeanLog
  <2> SUFFICES ASSUME TablesInv PROVE TablesMeanLog
    OBVIOUS
  <2> USE DEF TablesInv
  <2>1. KeysAreUnique
    BY DEF KeysAreUnique, FamilyInv, Proper, IsTable
  <2>2. Len(eventLog) \in Nat /\ DOMAIN eventLog = 1 .. Len(eventLog)
    BY Positions DEF FamilyInv
  <2>3. GrantsMeanLog
    BY <2>2, GrantsMean
  <2>4. CostIsSum
    BY CostMeans DEF FamilyInv
  <2>5. PointerIsInFlight
    BY PlansMean DEF FamilyInv
  <2> QED
    BY <2>1, <2>3, <2>4, <2>5, LifeMeans, QueuesMean DEF TablesMeanLog
<1> QED
  BY <1>1, TablesInit, TablesStep, PTL DEF ReadModelSpec
=============================================================================
