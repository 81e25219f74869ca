------------------------------- MODULE LogOps ------------------------------
(***************************************************************************)
(* Operators on logs that several modules need.                            *)
(***************************************************************************)
EXTENDS Naturals, Sequences

\* What a sequence holds.
Held(s) == {s[i] : i \in DOMAIN s}

\* The entries of a sequence that are in T, in their order: a query's rows.
\* A recursive function and not SelectSeq, which the provers cannot open.
Keep(s, T) ==
    LET kept[n \in 0 .. Len(s)] ==
            IF n = 0 THEN <<>>
            ELSE IF s[n] \in T THEN Append(kept[n - 1], s[n]) ELSE kept[n - 1]
    IN  kept[Len(s)]
=============================================================================
