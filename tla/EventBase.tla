----------------------------- MODULE EventBase -----------------------------
(***************************************************************************)
(* The vocabulary shared by the event-log modules: events, the projection  *)
(* handler that applies one event to a table, and what a log says that     *)
(* table holds.                                                            *)
(*                                                                         *)
(* An event is abstracted to the effect its handler has on one projection  *)
(* table, whose rows are identified by their key: "put" inserts the row    *)
(* (ON CONFLICT DO NOTHING), "del" deletes it, "plain" has no handler.     *)
(* proj_lock is exactly such a table, keyed by lock_token.                 *)
(***************************************************************************)
EXTENDS Naturals, Sequences, SequencesExt

CONSTANTS
  Keys,       \* primary keys of the projection table
  Corrs,      \* correlation ids
  NoCorr,     \* the empty correlation id
  EventIds    \* uuid4 event ids

ASSUME CorrAssumption == NoCorr \notin Corrs

Event == [kind : {"put", "del", "plain"}, key : Keys, corr : Corrs \cup {NoCorr}]

(* One projection handler applied to the table's set of rows. *)
Handle(table, e) ==
  IF e.kind = "put" THEN table \cup {e.key}
  ELSE IF e.kind = "del" THEN table \ {e.key}
  ELSE table

(* What a log says the table holds: the keys whose last put no later del   *)
(* follows. A reference definition, independent of Handle.                 *)
LiveKeys(events) ==
  { k \in Keys :
      \E i \in DOMAIN events :
        /\ events[i].kind = "put" /\ events[i].key = k
        /\ \A j \in DOMAIN events : j > i => ~(events[j].kind = "del" /\ events[j].key = k) }
=============================================================================
