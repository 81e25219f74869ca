--------------------------- MODULE MCVerification ---------------------------
(***************************************************************************)
(* Verification on small instances: v1 may hold any change, of a bump at   *)
(* most one thing wrong, and be driven in any way; v2 holds a refactor     *)
(* that keeps behaviour, not to be retried.                                *)
(***************************************************************************)
EXTENDS Verification, FiniteSets, TLC

CONSTANTS v1, v2

SoundBump ==
    [class |-> "bump", declared |-> FALSE, pairs |-> 1, tool |-> TRUE, applies |-> TRUE,
     manifest |-> TRUE, lockfile |-> "current", suite |-> "pass"]

SoundRefactor == [class |-> "refactor", before |-> "all pass", after |-> "all pass"]

SomeChanges ==
    {c \in Changes : /\ c.class = "bump" => Cardinality({f \in DOMAIN c : c[f] # SoundBump[f]}) <= 1
                     /\ c.class = "bugfix" => c.suite # "crash"}

ChangesHere == (v1 :> SomeChanges) @@ (v2 :> {SoundRefactor})

PathsHere == (v1 :> Paths) @@ (v2 :> {"last attempt"})

RefactorsOnly == [w \in {v1, v2} |-> {SoundRefactor}]

LastAttempts == [w \in {v1, v2} |-> {"last attempt"}]
=============================================================================
