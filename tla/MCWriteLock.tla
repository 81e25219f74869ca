----------------------------- MODULE MCWriteLock ----------------------------
(***************************************************************************)
(* WriteLock with jobs of two processes.                                   *)
(***************************************************************************)
EXTENDS WriteLock, TLC

CONSTANTS p1, p2, j1, j2, j3

TwoProcesses == (j1 :> p1) @@ (j2 :> p1) @@ (j3 :> p2)
=============================================================================
