----------------------------- MODULE EventLog ------------------------------
(***************************************************************************)
(* EventBus.emit_sync (events/bus.py) on SQLite connections that share one *)
(* store. Each statement is a step of its own: BEGIN IMMEDIATE, the tail   *)
(* read, the INSERT, the projection handlers, the COMMIT; every one may    *)
(* raise, and the process may die at any point. A caller may also write    *)
(* artifact rows directly on its connection: every caller commits them     *)
(* before it emits, and emit_sync also accepts a transaction that is open. *)
(*                                                                         *)
(* SQLite is modelled by its one write lock and by the uncommitted view    *)
(* (w... variables) of the connection that holds it; while nobody holds it *)
(* that view equals the committed store.                                   *)
(***************************************************************************)
EXTENDS EventBase, FiniteSets

CONSTANTS
  Conns,    \* connections to the store
  NoConn,   \* nobody holds SQLite's write lock
  Arts,     \* artifact rows
  MaxLog    \* bound on the length of the log, for model checking

ASSUME ConnAssumption == NoConn \notin Conns

VARIABLES
  log, rows, arts,       \* the committed store
  wlog, wrows, warts,    \* the same as seen inside the open transaction
  writer,                \* the connection in a transaction, or NoConn
  pc,                    \* where each connection is in emit_sync
  call,                  \* the event each connection is emitting
  tail                   \* the prev_hash each connection has read

store == <<log, rows, arts>>
working == <<wlog, wrows, warts>>
vars == <<store, working, writer, pc, call, tail>>

NoEvent == [kind |-> "none"]

Steps == {"begun", "tailed", "inserted", "handled"}
-----------------------------------------------------------------------------
Genesis == <<>>

(* sha256 over prev_hash and the canonical content: a term, so that it is  *)
(* injective.                                                              *)
Hash(prev, id, e) == <<prev, id, e>>

(* The inserted row, chained from the hash read before. *)
Row(prev, id, e) == [id |-> id, ev |-> e, prev |-> prev, hash |-> Hash(prev, id, e)]

LastHash(l) == IF l = <<>> THEN Genesis ELSE l[Len(l)].hash

EventsOf(l) == [i \in DOMAIN l |-> l[i].ev]

(* Fault: only the links are compared, no hash is recomputed. *)
LinksOnly(l) ==
  \A i \in DOMAIN l : l[i].prev = IF i = 1 THEN Genesis ELSE l[i - 1].hash

(* verify_chain: walk the rows in seq order, carrying the running prev_hash. *)
PrevHash(l, i) == IF i = 1 THEN Genesis ELSE l[i - 1].hash

VerifyChain(l) ==
  \A i \in DOMAIN l :
    /\ l[i].prev = PrevHash(l, i)
    /\ l[i].hash = Hash(l[i].prev, l[i].id, l[i].ev)

(* Fault: the tail is read without taking the write lock first. *)
NoWriteLock(c) == c \in Conns

(* A connection that is in a transaction joins it; any other must get      *)
(* SQLite's write lock, which one connection holds at a time.              *)
HasWriteLock(c) == writer \in {NoConn, c}

(* The transaction ends and emit_sync's locals go out of scope. *)
Leaves(c) ==
  /\ writer' = NoConn
  /\ pc' = [pc EXCEPT ![c] = "idle"]
  /\ call' = [call EXCEPT ![c] = NoEvent]
  /\ tail' = [tail EXCEPT ![c] = Genesis]

CommitTransaction(c) ==
  /\ log' = wlog /\ rows' = wrows /\ arts' = warts
  /\ UNCHANGED working
  /\ Leaves(c)

(* Fault: the error path commits. *)
CommitOnError(c) == CommitTransaction(c)

RollbackTransaction(c) ==
  /\ wlog' = log /\ wrows' = rows /\ warts' = arts
  /\ UNCHANGED store
  /\ Leaves(c)
-----------------------------------------------------------------------------
Init ==
  /\ log = <<>> /\ rows = {} /\ arts = {}
  /\ wlog = <<>> /\ wrows = {} /\ warts = {}
  /\ writer = NoConn
  /\ pc = [c \in Conns |-> "idle"]
  /\ call = [c \in Conns |-> NoEvent]
  /\ tail = [c \in Conns |-> Genesis]

EmitBegin(c, e) ==
  /\ pc[c] \in {"idle", "dml"}
  /\ e.corr # NoCorr
  /\ HasWriteLock(c)
  /\ Len(wlog) < MaxLog
  /\ writer' = c
  /\ pc' = [pc EXCEPT ![c] = "begun"]
  /\ call' = [call EXCEPT ![c] = e]
  /\ UNCHANGED <<store, working, tail>>

ReadTail(c) ==
  /\ pc[c] = "begun"
  /\ tail' = [tail EXCEPT ![c] = LastHash(wlog)]
  /\ pc' = [pc EXCEPT ![c] = "tailed"]
  /\ UNCHANGED <<store, working, writer, call>>

InsertEvent(c, id) ==
  /\ pc[c] = "tailed"
  /\ \A i \in DOMAIN wlog : wlog[i].id # id
  /\ wlog' = Append(wlog, Row(tail[c], id, call[c]))
  /\ pc' = [pc EXCEPT ![c] = "inserted"]
  /\ UNCHANGED <<store, wrows, warts, writer, call, tail>>

RunHandlers(c) ==
  /\ pc[c] = "inserted"
  /\ wrows' = Handle(wrows, call[c])
  /\ pc' = [pc EXCEPT ![c] = "handled"]
  /\ UNCHANGED <<store, wlog, warts, writer, call, tail>>

(* Fault: the commit comes before the handlers. *)
CommitEarly(c) == pc[c] \in {"inserted", "handled"} /\ CommitTransaction(c)

Commit(c) == pc[c] = "handled" /\ CommitTransaction(c)

(* Fault: the exception leaves the transaction open on the connection. *)
NoRollback(c) ==
  /\ pc[c] \in Steps
  /\ pc' = [pc EXCEPT ![c] = "idle"]
  /\ UNCHANGED <<store, working, writer, call, tail>>

(* Any statement after BEGIN raises: rollback and re-raise. *)
Rollback(c) == pc[c] \in Steps /\ RollbackTransaction(c)

(* A caller INSERTs an artifact row, which opens a transaction... *)
DirectWrite(c, a) ==
  /\ pc[c] = "idle"
  /\ HasWriteLock(c)
  /\ a \notin warts
  /\ warts' = warts \cup {a}
  /\ writer' = c
  /\ pc' = [pc EXCEPT ![c] = "dml"]
  /\ UNCHANGED <<store, wlog, wrows, call, tail>>

(* ... and commits it. *)
DirectCommit(c) == pc[c] = "dml" /\ CommitTransaction(c)

(* The process dies: SQLite discards what it had not committed. *)
Crash(c) == writer = c /\ RollbackTransaction(c)

Next ==
  \E c \in Conns :
    \/ \E e \in Event : EmitBegin(c, e)
    \/ ReadTail(c)
    \/ \E id \in EventIds : InsertEvent(c, id)
    \/ RunHandlers(c)
    \/ Commit(c)
    \/ Rollback(c)
    \/ \E a \in Arts : DirectWrite(c, a)
    \/ DirectCommit(c)
    \/ Crash(c)

Spec == Init /\ [][Next]_vars

(* emit_sync is straight-line code and so is every caller's INSERT-then-   *)
(* commit: a connection that has begun keeps executing. Nothing obliges a  *)
(* caller to start.                                                        *)
Advance(c) ==
  \/ ReadTail(c)
  \/ \E id \in EventIds : InsertEvent(c, id)
  \/ RunHandlers(c)
  \/ Commit(c)
  \/ Rollback(c)
  \/ DirectCommit(c)

FairSpec == Spec /\ \A c \in Conns : WF_vars(Advance(c))
-----------------------------------------------------------------------------
TypeOK ==
  /\ rows \subseteq Keys /\ wrows \subseteq Keys
  /\ arts \subseteq Arts /\ warts \subseteq Arts
  /\ writer \in Conns \cup {NoConn}
  /\ pc \in [Conns -> {"idle", "dml"} \cup Steps]
  /\ call \in [Conns -> Event \cup {NoEvent}]
  /\ DOMAIN tail = Conns

(* Inv 7: the committed log verifies, whatever the interleaving of         *)
(* connections, failures and crashes: no two events chain from one tail.   *)
ChainIntact == VerifyChain(log)

(* Inv 8 at the bus: the committed table is what the committed log says,   *)
(* by a reference definition that replays no handler (LiveKeys).           *)
LiveKeysParity == rows = LiveKeys(EventsOf(log))

(* emit_sync never leaves an open transaction behind on its connection: a  *)
(* connection that is in a transaction is inside emit_sync or between its  *)
(* caller's INSERT and commit, and the other connections are outside both. *)
NoPoisonedTransaction ==
  \A c \in Conns : writer = c <=> pc[c] # "idle"

(* A manual mutation of the committed log is caught by verify_chain: the   *)
(* content of an event changed in place, an event other than the last      *)
(* removed, or two neighbours swapped.                                     *)
TamperEvident ==
  \A i \in DOMAIN log :
    /\ \A e \in Event : e # log[i].ev => ~VerifyChain([log EXCEPT ![i].ev = e])
    /\ i < Len(log) =>
         /\ ~VerifyChain(RemoveAt(log, i))
         /\ ~VerifyChain([log EXCEPT ![i] = log[i + 1], ![i + 1] = log[i]])

(* The bus implements the abstract ledger: what readers of the store see   *)
(* changes by whole events with their rows, and never by less.             *)
Ledger == [i \in DOMAIN log |-> [id |-> log[i].id, ev |-> log[i].ev]]

Abstract == INSTANCE AppendLog WITH ledger <- Ledger, table <- rows, artifacts <- arts

ImplementsAppendLog == Abstract!Spec

(* A transaction always ends: SQLite's write lock is released whatever     *)
(* raises inside it, so no other process of the store waits for ever.      *)
LockReleased == \A c \in Conns : writer = c ~> writer # c
=============================================================================
