----------------------------- MODULE MCEventLog ----------------------------
(***************************************************************************)
(* The event bus and the projection tables on small instances. EventLog    *)
(* has every statement of emit_sync and one table; ReadModel has every     *)
(* handler and takes the transaction as one step. focus picks the one a    *)
(* behaviour runs. Event ids are interchangeable, but the run checks       *)
(* liveness properties, so no symmetry is declared.                        *)
(***************************************************************************)
EXTENDS EventLog, ReadModel

VARIABLE focus

recordVars == <<focus, vars, readModelVars>>

RecordInit ==
    /\ focus \in {"bus", "tables"}
    /\ Init /\ ReadModelInit
    /\ focus = "bus" => family = "work"

BusTurn == focus = "bus" /\ Next /\ UNCHANGED <<focus, readModelVars>>

TablesTurn == focus = "tables" /\ ReadModelNext /\ UNCHANGED <<focus, vars>>

RecordNext == BusTurn \/ TablesTurn

\* FairSpec's, while the bus is the one that runs
RecordFairness ==
    \A c \in Conns :
        WF_recordVars(focus = "bus" /\ Advance(c) /\ UNCHANGED <<focus, readModelVars>>)

RecordSpec == RecordInit /\ [][RecordNext]_recordVars /\ RecordFairness
=============================================================================
