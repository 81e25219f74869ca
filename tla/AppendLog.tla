----------------------------- MODULE AppendLog -----------------------------
(***************************************************************************)
(* What the event bus promises its callers, with no connections and no     *)
(* transactions: a ledger that only grows, one event at a time; a read     *)
(* model that moves in the same step as the ledger; and rows a caller      *)
(* wrote directly, which become visible alone or together with one event.  *)
(***************************************************************************)
EXTENDS EventBase

CONSTANT Arts   \* artifact rows, the direct DML of the bus's callers

VARIABLES ledger, table, artifacts

vars == <<ledger, table, artifacts>>

Init == ledger = <<>> /\ table = {} /\ artifacts = {}

Publish(id, e, new) ==
  /\ e.corr # NoCorr
  /\ \A i \in DOMAIN ledger : ledger[i].id # id
  /\ ledger' = Append(ledger, [id |-> id, ev |-> e])
  /\ table' = Handle(table, e)
  /\ artifacts' = artifacts \cup new

WriteArtifacts(new) ==
  /\ artifacts' = artifacts \cup new
  /\ UNCHANGED <<ledger, table>>

Next ==
  \E new \in SUBSET Arts :
    \/ \E id \in EventIds, e \in Event : Publish(id, e, new)
    \/ WriteArtifacts(new)

Spec == Init /\ [][Next]_vars
=============================================================================
