----------------------------- MODULE TrustGrants ----------------------------
(***************************************************************************)
(* Calibrated trust (calibration/, maintenance/prune.py): one maintenance  *)
(* driver per process measures the developer's Brier score for a task      *)
(* class, reads whether the class is trusted, and later appends a grant,   *)
(* a renewal or a revocation; an operator's prune lists the expired rows   *)
(* and then appends one removal per row. proj_trust_grants is the only     *)
(* state they share, its key is SQLite's row id (one above the largest in  *)
(* use, so a removed id is used again), and nothing holds between a read   *)
(* and the events decided on it. Rows are indexed by row id.               *)
(***************************************************************************)
EXTENDS Integers

CONSTANTS
    Classes,      \* task classes: the role is always the developer
    Evaluators,   \* processes running evaluate_trust
    Pruners,      \* processes running prune_expired_trust_grants
    TrustDays,    \* how long a grant lasts
    TrustHorizon, \* bound: the last instant of the clock
    TrustRowCap   \* bound: the largest row id handed out

ASSUME TrustAssumption ==
    /\ TrustDays \in Nat \ {0}
    /\ TrustHorizon \in Nat
    /\ TrustRowCap \in Nat

Undecided == "undecided"

VARIABLES
    trustNow,     \* the wall clock, in days
    grants,       \* proj_trust_grants, by row id
    deciding,     \* per evaluator, the event it is about to append
    pruning,      \* per pruner, the ids it listed and has not yet removed
    revoked,      \* history: classes whose last grant or revocation event is a revocation
    unrevoked     \* history: classes that lost a revoked row to a prune

trustVars == <<trustNow, grants, deciding, pruning, revoked, unrevoked>>

Ids == 1 .. TrustRowCap

Instants == 0 .. TrustHorizon

Grant == [class : Classes, granted : Instants, expires : Nat, revoked : BOOLEAN]

Action == {"grant", "renew", "revoke"}

Decision == [action : Action, class : Classes, at : Instants]

NoDecision == [action |-> Undecided]

TrustTypeOK ==
    /\ trustNow \in Instants
    /\ DOMAIN grants \subseteq Ids
    /\ \A i \in DOMAIN grants : grants[i] \in Grant
    /\ deciding \in [Evaluators -> Decision \cup {NoDecision}]
    /\ pruning \in [Pruners -> SUBSET Ids]
    /\ revoked \subseteq Classes
    /\ unrevoked \subseteq Classes

-----------------------------------------------------------------------------
\* ORDER BY granted_at_millis DESC, grant_row_id DESC
Newer(i, j) ==
    \/ grants[i].granted > grants[j].granted
    \/ grants[i].granted = grants[j].granted /\ i >= j

Newest(S) == CHOOSE i \in S : \A j \in S : Newer(i, j)

RowsOf(c) == {i \in DOMAIN grants : grants[i].class = c}

\* _active_grant_row looks among the rows not revoked, expired ones included
OpenRows(c) == {i \in RowsOf(c) : ~grants[i].revoked}

\* Fault: the point-of-use check skips revoked rows, as the handlers do
TrustedByOpenRow(c) ==
    OpenRows(c) # {} /\ grants[Newest(OpenRows(c))].expires > trustNow

\* has_active_trust looks at the newest row of all, revoked ones included
HasActiveTrust(c) ==
    /\ RowsOf(c) # {}
    /\ ~grants[Newest(RowsOf(c))].revoked
    /\ grants[Newest(RowsOf(c))].expires > trustNow

\* the row id SQLite gives: one above the largest in use
IsNextId(n) ==
    /\ \A i \in DOMAIN grants : i < n
    /\ n = 1 \/ n - 1 \in DOMAIN grants

TrustInit ==
    /\ trustNow = 0
    /\ grants = [i \in {} |-> Undecided]
    /\ deciding = [e \in Evaluators |-> NoDecision]
    /\ pruning = [p \in Pruners |-> {}]
    /\ revoked = {}
    /\ unrevoked = {}

TrustTick ==
    /\ trustNow < TrustHorizon
    /\ trustNow' = trustNow + 1
    /\ UNCHANGED <<grants, deciding, pruning, revoked, unrevoked>>

\* evaluate_trust up to the event: the telemetry gives a score within the
\* threshold or above it, or too few samples (nothing happens)
Evaluate(e, c, good) ==
    /\ deciding[e] = NoDecision
    /\ good \/ HasActiveTrust(c)
    /\ deciding' = [deciding EXCEPT ![e] =
           [action |-> IF ~good THEN "revoke" ELSE IF HasActiveTrust(c) THEN "renew" ELSE "grant",
            class |-> c, at |-> trustNow]]
    /\ UNCHANGED <<trustNow, grants, pruning, revoked, unrevoked>>

Done(e) == deciding' = [deciding EXCEPT ![e] = NoDecision]

\* trust_granted: a new row stamped at some instant since the decision
AppendGrant(e, at, n) ==
    /\ deciding[e] # NoDecision /\ deciding[e].action = "grant"
    /\ at \in deciding[e].at .. trustNow
    /\ IsNextId(n)
    /\ grants' = [i \in DOMAIN grants \cup {n} |->
                    IF i = n
                    THEN [class |-> deciding[e].class, granted |-> at,
                          expires |-> at + TrustDays, revoked |-> FALSE]
                    ELSE grants[i]]
    /\ revoked' = revoked \ {deciding[e].class}
    /\ unrevoked' = unrevoked \ {deciding[e].class}
    /\ Done(e)
    /\ UNCHANGED <<trustNow, pruning>>

\* trust_renewed: the newest row not revoked gets a new expiry
AppendRenewal(e, at) ==
    /\ deciding[e] # NoDecision /\ deciding[e].action = "renew"
    /\ at \in deciding[e].at .. trustNow
    /\ LET open == OpenRows(deciding[e].class)
       IN  grants' = IF open = {} THEN grants
                     ELSE [grants EXCEPT ![Newest(open)].expires = at + TrustDays]
    /\ Done(e)
    /\ UNCHANGED <<trustNow, pruning, revoked, unrevoked>>

\* trust_revoked: the newest row not revoked is revoked
AppendRevocation(e) ==
    /\ deciding[e] # NoDecision /\ deciding[e].action = "revoke"
    /\ LET open == OpenRows(deciding[e].class)
       IN  grants' = IF open = {} THEN grants
                     ELSE [grants EXCEPT ![Newest(open)].revoked = TRUE]
    /\ revoked' = revoked \cup {deciding[e].class}
    /\ Done(e)
    /\ UNCHANGED <<trustNow, pruning, unrevoked>>

Expired == {i \in DOMAIN grants : ~grants[i].revoked /\ grants[i].expires < trustNow}

ListExpired(p) ==
    /\ pruning[p] = {}
    /\ Expired # {}
    /\ pruning' = [pruning EXCEPT ![p] = Expired]
    /\ UNCHANGED <<trustNow, grants, deciding, revoked, unrevoked>>

\* trust_grant_pruned, in row order: the handler deletes by row id alone,
\* whatever the row has become since the list was read
PruneRow(p, i) ==
    /\ i \in pruning[p]
    /\ \A j \in pruning[p] : i <= j
    /\ pruning' = [pruning EXCEPT ![p] = @ \ {i}]
    /\ grants' = [j \in DOMAIN grants \ {i} |-> grants[j]]
    /\ unrevoked' = IF i \in DOMAIN grants /\ grants[i].revoked
                    THEN unrevoked \cup {grants[i].class} ELSE unrevoked
    /\ UNCHANGED <<trustNow, deciding, revoked>>

\* a process ends between its read and its events
EvaluatorKilled(e) ==
    /\ deciding[e] # NoDecision
    /\ Done(e)
    /\ UNCHANGED <<trustNow, grants, pruning, revoked, unrevoked>>

PrunerKilled(p) ==
    /\ pruning[p] # {}
    /\ pruning' = [pruning EXCEPT ![p] = {}]
    /\ UNCHANGED <<trustNow, grants, deciding, revoked, unrevoked>>

TrustNext ==
    \/ TrustTick
    \/ \E e \in Evaluators :
          \/ \E c \in Classes, good \in BOOLEAN : Evaluate(e, c, good)
          \/ \E at \in Instants, n \in Ids : AppendGrant(e, at, n)
          \/ \E at \in Instants : AppendRenewal(e, at)
          \/ AppendRevocation(e)
          \/ EvaluatorKilled(e)
    \/ \E p \in Pruners :
          \/ ListExpired(p)
          \/ \E i \in Ids : PruneRow(p, i)
          \/ PrunerKilled(p)

TrustSpec == TrustInit /\ [][TrustNext]_trustVars

-----------------------------------------------------------------------------
(***************************************************************************)
(* A revocation sticks: until the next grant event the class is not        *)
(* trusted, although the handler of a renewal looks past the revoked row   *)
(* and may extend an older one, and although a second process may have     *)
(* granted the same class twice. It needs the newest row of all to be the  *)
(* revoked one (promotion.py:85); only a prune that removes a row revoked  *)
(* after it was listed takes that row away.                                *)
(***************************************************************************)
NoTrustAfterRevocation ==
    \A c \in revoked \ unrevoked : ~HasActiveTrust(c)

\* The inductive form: every open row of a revoked class is older than a
\* revoked one.
RevokedIsNewest ==
    \A c \in revoked \ unrevoked : \A i \in OpenRows(c) :
        \E j \in RowsOf(c) : grants[j].revoked /\ Newer(j, i)
=============================================================================
