--------------------------- MODULE CandidateReview --------------------------
(***************************************************************************)
(* The operator's review of retro candidates (retro/approval.py,           *)
(* antibody_library.py, enacted_gate_changes.py): reviewers at several     *)
(* surfaces (CLI, console, panel) decide the rows of the two queues. An    *)
(* approval is a verdict event, then a row id read from the library, then  *)
(* the event that publishes under it, then, for an antibody, a memory      *)
(* entry; a rejection is two events. No step looks at the verdict a row    *)
(* already has, and a process may be killed between any two.               *)
(***************************************************************************)
EXTENDS Naturals, FiniteSets

CONSTANTS
    Reviewers,
    Antibodies,    \* candidate rows of proj_antibody_queue
    GateChanges,   \* candidate rows of proj_gate_change_queue
    Enactable,     \* the gate changes that can be applied: add_signature
    AutoRejected,  \* the gate changes rejected as they were inserted
    ReviewCap      \* bound: verdicts in all, and entries per library

Candidates == Antibodies \cup GateChanges

ASSUME ReviewAssumption ==
    /\ Candidates # {}
    /\ Antibodies \cap GateChanges = {}
    /\ Enactable \subseteq GateChanges
    /\ AutoRejected \subseteq GateChanges \ Enactable
    /\ ReviewCap \in Nat \ {0}

VARIABLES
    verdict,      \* review_state of each row
    library,      \* proj_antibody_library and proj_enacted_gate_changes: [kind, id, of, live]
    remembered,   \* rows with a memory entry
    reviewer,     \* per reviewer, the step it is at: [doing, row, id]
    decided,      \* history: how many verdicts were given on each row
    torn          \* history: rows whose approval ended half way

reviewVars == <<verdict, library, remembered, reviewer, decided, torn>>

Free == "free"

Steps == {Free, "numbering", "adding", "remembering", "auditing"}

Idle == [doing |-> Free, row |-> CHOOSE c \in Candidates : TRUE, id |-> 1]

KindOf(c) == IF c \in Antibodies THEN "antibody" ELSE "gate change"

LibraryIds == 1 .. ReviewCap

ReviewTypeOK ==
    /\ verdict \in [Candidates -> {"pending", "approved", "rejected"}]
    /\ library \subseteq [kind : {"antibody", "gate change"}, id : LibraryIds,
                          of : Candidates, live : BOOLEAN]
    /\ remembered \subseteq Antibodies
    /\ reviewer \in [Reviewers -> [doing : Steps, row : Candidates, id : LibraryIds]]
    /\ decided \in [Candidates -> Nat]
    /\ torn \subseteq Candidates

-----------------------------------------------------------------------------
Publishable == Antibodies \cup Enactable

Published(c) == \E e \in library : e.of = c

Turn(r, step, c, n) == reviewer' = [reviewer EXCEPT ![r] = [doing |-> step, row |-> c, id |-> n]]

Row(r) == reviewer[r].row

FreeReviewer(r) == reviewer' = [reviewer EXCEPT ![r] = Idle]

VerdictsInAll == Cardinality({x \in Candidates \X LibraryIds : x[2] <= decided[x[1]]})

Decide(c, v) ==
    /\ verdict' = [verdict EXCEPT ![c] = v]
    /\ VerdictsInAll < ReviewCap
    /\ decided' = [decided EXCEPT ![c] = @ + 1]

ReviewInit ==
    /\ verdict = [c \in Candidates |-> IF c \in AutoRejected THEN "rejected" ELSE "pending"]
    /\ library = {}
    /\ remembered = {}
    /\ reviewer = [r \in Reviewers |-> Idle]
    /\ decided = [c \in Candidates |-> 0]
    /\ torn = {}

\* Fault: an enactable gate change is approved and not enacted
ApproveAdvisory(r, c) ==
    /\ reviewer[r].doing = Free
    /\ Decide(c, "approved")
    /\ IF c \in Antibodies THEN Turn(r, "numbering", c, 1) ELSE FreeReviewer(r)
    /\ UNCHANGED <<library, remembered, torn>>

\* candidate_reviewed(approved) comes first; an advisory gate change ends there
Approve(r, c) ==
    /\ reviewer[r].doing = Free
    /\ Decide(c, "approved")
    /\ IF c \in Publishable THEN Turn(r, "numbering", c, 1) ELSE FreeReviewer(r)
    /\ UNCHANGED <<library, remembered, torn>>

\* the console's enact takes any approved enactable row, enacted before or not
EnactAgain(r, c) ==
    /\ reviewer[r].doing = Free
    /\ c \in Enactable /\ verdict[c] = "approved"
    /\ Turn(r, "numbering", c, 1)
    /\ UNCHANGED <<verdict, library, remembered, decided, torn>>

InUse(kind) == {e.id : e \in {x \in library : x.kind = kind}}

\* COALESCE(MAX(row_id), 0) + 1
ReadNextId(r, n) ==
    /\ reviewer[r].doing = "numbering"
    /\ \A i \in InUse(KindOf(Row(r))) : i < n
    /\ n = 1 \/ n - 1 \in InUse(KindOf(Row(r)))
    /\ Turn(r, "adding", Row(r), n)
    /\ UNCHANGED <<verdict, library, remembered, decided, torn>>

\* antibody_added, gate_change_enacted: a plain INSERT of the id read before
Publish(r) ==
    /\ reviewer[r].doing = "adding"
    /\ reviewer[r].id \notin InUse(KindOf(Row(r)))
    /\ library' = library \cup
          {[kind |-> KindOf(Row(r)), id |-> reviewer[r].id, of |-> Row(r), live |-> TRUE]}
    /\ IF Row(r) \in Antibodies THEN Turn(r, "remembering", Row(r), 1) ELSE FreeReviewer(r)
    /\ UNCHANGED <<verdict, remembered, decided, torn>>

\* the id was taken in between: the INSERT fails and the event rolls back
PublishCollides(r) ==
    /\ reviewer[r].doing = "adding"
    /\ reviewer[r].id \in InUse(KindOf(Row(r)))
    /\ torn' = torn \cup {Row(r)}
    /\ FreeReviewer(r)
    /\ UNCHANGED <<verdict, library, remembered, decided>>

\* memory_entry_created
Remember(r) ==
    /\ reviewer[r].doing = "remembering"
    /\ remembered' = remembered \cup {Row(r)}
    /\ FreeReviewer(r)
    /\ UNCHANGED <<verdict, library, decided, torn>>

\* candidate_reviewed(rejected)
Reject(r, c) ==
    /\ reviewer[r].doing = Free
    /\ Decide(c, "rejected")
    /\ Turn(r, "auditing", c, 1)
    /\ UNCHANGED <<library, remembered, torn>>

\* candidate_rejected, whose handler sets the state once more
AuditRejection(r) ==
    /\ reviewer[r].doing = "auditing"
    /\ verdict' = [verdict EXCEPT ![Row(r)] = "rejected"]
    /\ FreeReviewer(r)
    /\ UNCHANGED <<library, remembered, decided, torn>>

RevokeAntibody(e) ==
    /\ e \in library /\ e.kind = "antibody" /\ e.live
    /\ library' = (library \ {e}) \cup {[e EXCEPT !.live = FALSE]}
    /\ UNCHANGED <<verdict, remembered, reviewer, decided, torn>>

ReviewerKilled(r) ==
    /\ reviewer[r].doing # Free
    /\ torn' = torn \cup {Row(r)}
    /\ FreeReviewer(r)
    /\ UNCHANGED <<verdict, library, remembered, decided>>

ReviewNext ==
    \/ \E r \in Reviewers :
          \/ \E c \in Candidates : Approve(r, c) \/ EnactAgain(r, c) \/ Reject(r, c)
          \/ \E n \in LibraryIds : ReadNextId(r, n)
          \/ Publish(r)
          \/ PublishCollides(r)
          \/ Remember(r)
          \/ AuditRejection(r)
          \/ ReviewerKilled(r)
    \/ \E e \in library : RevokeAntibody(e)

ReviewSpec == ReviewInit /\ [][ReviewNext]_reviewVars

-----------------------------------------------------------------------------
InHand(c) == \E r \in Reviewers : reviewer[r].doing # Free /\ Row(r) = c

(***************************************************************************)
(* A verdict takes effect whole. Of a row nobody has in hand and nobody    *)
(* decided twice, approved means published and, for an antibody,           *)
(* remembered, unless the approval was torn by a kill or by another        *)
(* approval that took its row id; and what is not approved is not          *)
(* published (approval.py:38, antibody_library.py:33).                     *)
(***************************************************************************)
VerdictStands ==
    \A c \in Candidates : ~InHand(c) /\ decided[c] <= 1 =>
        /\ verdict[c] = "approved" /\ c \in Publishable /\ c \notin torn
              => Published(c) /\ (c \in Antibodies => c \in remembered)
        /\ Published(c) \/ c \in remembered => verdict[c] = "approved"

\* What the induction needs: where a row decided at most once can be.
At(c, steps) == \E r \in Reviewers : Row(r) = c /\ reviewer[r].doing \in steps

Untouched(c) ==
    /\ verdict[c] # "approved" /\ ~Published(c) /\ c \notin remembered
    /\ ~At(c, {"numbering", "adding", "remembering"})

Carried(c) ==
    /\ verdict[c] = "approved" /\ ~At(c, {"auditing"})
    /\ At(c, {"numbering", "adding", "remembering"}) => c \in Publishable
    /\ At(c, {"remembering"}) => Published(c)
    /\ c \in Publishable \ torn =>
          /\ Published(c) \/ At(c, {"numbering", "adding"})
          /\ Published(c) /\ c \in Antibodies => c \in remembered \/ At(c, {"remembering"})

VerdictsCarried ==
    \A c \in Candidates :
        /\ decided[c] = 0 => Untouched(c) /\ ~At(c, {"auditing"})
        /\ decided[c] = 1 => Untouched(c) \/ Carried(c)
=============================================================================
