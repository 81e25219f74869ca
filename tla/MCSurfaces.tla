----------------------------- MODULE MCSurfaces -----------------------------
(***************************************************************************)
(* The operator's surfaces on small instances: the build slot and the      *)
(* write lock inside one process (WriteLock), and what the surfaces tell   *)
(* their operators on one store (OperatorConsole). They share no variable; *)
(* focus picks the one a behaviour runs.                                   *)
(***************************************************************************)
EXTENDS WriteLock, OperatorConsole, TLC

CONSTANTS p1, j1, j2

VARIABLE focus

OneProcess == (j1 :> p1) @@ (j2 :> p1)

slotVars == <<focus, consoleVars>>

guidanceVars == <<focus, vars>>

LockTurn == focus = "lock" /\ Next /\ UNCHANGED slotVars

GuidanceTurn == focus = "guidance" /\ ConsoleNext /\ UNCHANGED guidanceVars

SurfacesInit ==
    /\ focus \in {"lock", "guidance"}
    /\ Init /\ ConsoleInit
    /\ focus = "lock" => follower = CHOOSE s \in Surfaces : TRUE

surfacesVars == <<focus, vars, consoleVars>>

\* the fairness of each machine, while it is the one that runs
SurfacesFairness ==
    /\ \A j \in Jobs : WF_surfacesVars(focus = "lock" /\ JobStep(j) /\ UNCHANGED slotVars)
    /\ WF_surfacesVars(focus = "guidance" /\ FollowerActs /\ UNCHANGED guidanceVars)
    /\ \A s \in Surfaces : WF_surfacesVars(focus = "guidance" /\ SlotMoves(s) /\ UNCHANGED guidanceVars)

SurfacesSpec ==
    SurfacesInit /\ [][LockTurn \/ GuidanceTurn]_surfacesVars /\ SurfacesFairness

(***************************************************************************)
(* An operator who does no more than the hint says is led home: whatever   *)
(* others do on the same store and whatever fails on the way, the surface  *)
(* shows the project as assembled in the end, or one of the dead ends that *)
(* LeadsAstray names (tui.py:428-489, panel/state.py:195-247).             *)
(***************************************************************************)
HintsLeadHome == []<>(focus = "guidance" => LedHome(follower))
=============================================================================
