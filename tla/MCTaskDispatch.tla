--------------------------- MODULE MCTaskDispatch --------------------------
(***************************************************************************)
(* TaskDispatch on small instances. Sessions are interchangeable; the      *)
(* symmetry is used where only an invariant is checked.                    *)
(***************************************************************************)
EXTENDS TaskDispatch, TLC

SessionSymmetry == Permutations(Sessions)
=============================================================================
