--------------------------- MODULE StandingProofs ---------------------------
(***************************************************************************)
(* Theorems about what stands until somebody decides otherwise: grants of  *)
(* trust, cooldowns of requesters, the review of candidates, the lessons   *)
(* projects share, the schema of a store. Each holds for any constants its *)
(* machine assumes. The machines share no variable; each part below is     *)
(* about one of them.                                                      *)
(***************************************************************************)
EXTENDS TrustGrants, OssIntake, CandidateReview, ProjectMemory, Migrations,
        SequenceFacts, FiniteSetTheorems

-----------------------------------------------------------------------------
(***************************************************************************)
(* The types of TrustGrants, and that a revocation sticks, for any task    *)
(* classes, processes, validity and bounds. The argument: the order of the *)
(* table's rows is total, so that a newest row exists (NewestExists); a    *)
(* revocation revokes the newest open row, so that every open row is older *)
(* than a revoked one (RevokedIsNewest), which is inductive.               *)
(***************************************************************************)

(***************************************************************************)
(* The types of every variable, for any constants that satisfy             *)
(* TrustAssumption.                                                        *)
(***************************************************************************)
THEOREM TrustTypeCorrect == TrustSpec => []TrustTypeOK
<1>1. TrustInit => TrustTypeOK
  BY TrustAssumption DEF TrustInit, TrustTypeOK, Instants
<1>2. TrustTypeOK /\ [TrustNext]_trustVars => TrustTypeOK'
  <2> SUFFICES ASSUME TrustTypeOK, [TrustNext]_trustVars
               PROVE  TrustTypeOK'
    OBVIOUS
  <2> USE TrustAssumption DEF TrustTypeOK
  <2>1. CASE TrustTick
    BY <2>1 DEF TrustTick, Instants
  <2>2. ASSUME NEW e \in Evaluators, NEW c \in Classes, NEW good \in BOOLEAN, Evaluate(e, c, good)
        PROVE  TrustTypeOK'
    <3>1. [action |-> IF ~good THEN "revoke" ELSE IF HasActiveTrust(c) THEN "renew" ELSE "grant",
           class |-> c, at |-> trustNow] \in Decision
      BY DEF Decision, Action
    <3>2. QED
      BY <2>2, <3>1 DEF Evaluate
  <2>3. ASSUME NEW e \in Evaluators, NEW at \in Instants, NEW n \in Ids, AppendGrant(e, at, n)
        PROVE  TrustTypeOK'
    <3>1. deciding[e] \in Decision
      BY <2>3 DEF AppendGrant
    <3>2. [class |-> deciding[e].class, granted |-> at, expires |-> at + TrustDays, revoked |-> FALSE] \in Grant
      BY <3>1 DEF Decision, Grant, Instants
    <3>3. DOMAIN grants' \subseteq Ids /\ \A i \in DOMAIN grants' : grants'[i] \in Grant
      BY <2>3, <3>2 DEF AppendGrant
    <3>4. QED
      BY <2>3, <3>3 DEF AppendGrant, Done
  <2>4. ASSUME NEW e \in Evaluators, NEW at \in Instants, AppendRenewal(e, at)
        PROVE  TrustTypeOK'
    <3>1. DOMAIN grants' \subseteq Ids /\ \A i \in DOMAIN grants' : grants'[i] \in Grant
      BY <2>4 DEF AppendRenewal, Grant, Instants
    <3>2. QED
      BY <2>4, <3>1 DEF AppendRenewal, Done
  <2>5. ASSUME NEW e \in Evaluators, AppendRevocation(e)
        PROVE  TrustTypeOK'
    <3>1. DOMAIN grants' \subseteq Ids /\ \A i \in DOMAIN grants' : grants'[i] \in Grant
      BY <2>5 DEF AppendRevocation, Grant
    <3>2. deciding[e] \in Decision
      BY <2>5 DEF AppendRevocation
    <3>3. QED
      BY <2>5, <3>1, <3>2 DEF AppendRevocation, Done, Decision
  <2>6. ASSUME NEW e \in Evaluators, EvaluatorKilled(e)
        PROVE  TrustTypeOK'
    BY <2>6 DEF EvaluatorKilled, Done
  <2>7. ASSUME NEW p \in Pruners, ListExpired(p)
        PROVE  TrustTypeOK'
    BY <2>7 DEF ListExpired, Expired
  <2>8. ASSUME NEW p \in Pruners, NEW i \in Ids, PruneRow(p, i)
        PROVE  TrustTypeOK'
    BY <2>8 DEF PruneRow, Grant
  <2>9. ASSUME NEW p \in Pruners, PrunerKilled(p)
        PROVE  TrustTypeOK'
    BY <2>9 DEF PrunerKilled
  <2>10. CASE UNCHANGED trustVars
    BY <2>10 DEF trustVars
  <2>11. QED
    BY <2>1, <2>2, <2>3, <2>4, <2>5, <2>6, <2>7, <2>8, <2>9, <2>10 DEF TrustNext
<1>3. QED
  BY <1>1, <1>2, PTL DEF TrustSpec

-----------------------------------------------------------------------------
\* A set of rows that is not empty has a newest one: the latest instant of a
\* grant, and among the rows of that instant the largest id.
LEMMA NewestExists ==
    ASSUME TrustTypeOK, NEW S, S \subseteq DOMAIN grants, S # {}
    PROVE  Newest(S) \in S /\ \A j \in S : Newer(Newest(S), j)
<1> USE TrustAssumption
<1>1. \A i \in S : /\ i \in 1 .. TrustRowCap
                   /\ grants[i].granted \in 0 .. TrustHorizon
  BY DEF TrustTypeOK, Grant, Instants, Ids
<1>2. PICK a \in S : \A i \in S : grants[i].granted <= grants[a].granted
  <2> DEFINE Ages == {TrustHorizon - grants[i].granted : i \in S}
  <2>1. PICK x \in Ages : \A y \in Ages : x <= y
    <3>1. Ages \subseteq Nat /\ Ages # {}
      BY <1>1
    <3>2. QED
      BY <3>1, LeastNatural
  <2>2. PICK a \in S : x = TrustHorizon - grants[a].granted
    BY <2>1
  <2>3. \A i \in S : TrustHorizon - grants[a].granted <= TrustHorizon - grants[i].granted
    BY <2>1, <2>2
  <2>4. QED
    BY <1>1, <2>3
<1>3. PICK b \in S : /\ grants[b].granted = grants[a].granted
                     /\ \A i \in S : grants[i].granted = grants[a].granted => i <= b
  <2> DEFINE Below == {TrustRowCap - i : i \in {k \in S : grants[k].granted = grants[a].granted}}
  <2>1. PICK x \in Below : \A y \in Below : x <= y
    <3>1. Below \subseteq Nat /\ Below # {}
      BY <1>1, <1>2
    <3>2. QED
      BY <3>1, LeastNatural
  <2>2. PICK b \in S : grants[b].granted = grants[a].granted /\ x = TrustRowCap - b
    BY <2>1
  <2>3. \A i \in S : grants[i].granted = grants[a].granted => TrustRowCap - b <= TrustRowCap - i
    BY <2>1, <2>2
  <2>4. QED
    BY <1>1, <2>2, <2>3
<1>4. \A j \in S : Newer(b, j)
  BY <1>1, <1>2, <1>3 DEF Newer
<1>5. QED
  BY <1>4 DEF Newest

\* What every step keeps: the types, and a revoked row above every open one.
TrustInv == TrustTypeOK /\ RevokedIsNewest

\* A step that leaves the rows' classes, instants and revocations alone, and
\* makes no class revoked, keeps RevokedIsNewest.
LEMMA RowsStand ==
    ASSUME RevokedIsNewest,
           DOMAIN grants' = DOMAIN grants,
           \A i \in DOMAIN grants : /\ grants'[i].class = grants[i].class
                                    /\ grants'[i].granted = grants[i].granted
                                    /\ grants'[i].revoked = grants[i].revoked,
           revoked' \ unrevoked' \subseteq revoked \ unrevoked
    PROVE  RevokedIsNewest'
BY DEF RevokedIsNewest, OpenRows, RowsOf, Newer

\* trust_granted: the new row's class is no longer revoked, and the other
\* classes keep their rows.
LEMMA GrantKeepsOrder ==
    ASSUME TrustInv, NEW e \in Evaluators, NEW at \in Instants, NEW n \in Ids, AppendGrant(e, at, n)
    PROVE  RevokedIsNewest'
<1>1. /\ n \notin DOMAIN grants
      /\ \A i \in DOMAIN grants : i \in DOMAIN grants' /\ grants'[i] = grants[i]
      /\ DOMAIN grants' = DOMAIN grants \cup {n}
      /\ grants'[n].class = deciding[e].class
  <2>1. n \notin DOMAIN grants
    BY DEF AppendGrant, IsNextId, Ids
  <2>2. QED
    BY <2>1 DEF AppendGrant
<1>2. SUFFICES ASSUME NEW c \in (revoked \ unrevoked)', NEW i \in OpenRows(c)'
               PROVE  \E j \in RowsOf(c)' : grants'[j].revoked /\ Newer(j, i)'
  BY DEF RevokedIsNewest
<1>3. c # deciding[e].class /\ c \in revoked \ unrevoked
  BY <1>2 DEF AppendGrant
<1>4. i \in OpenRows(c)
  BY <1>1, <1>2, <1>3 DEF OpenRows, RowsOf
<1>5. PICK j \in RowsOf(c) : grants[j].revoked /\ Newer(j, i)
  BY <1>3, <1>4 DEF TrustInv, RevokedIsNewest
<1>6. QED
  BY <1>1, <1>4, <1>5 DEF OpenRows, RowsOf, Newer

\* trust_revoked: the newest open row of the class is the one revoked.
LEMMA RevocationKeepsOrder ==
    ASSUME TrustInv, NEW e \in Evaluators, AppendRevocation(e)
    PROVE  RevokedIsNewest'
<1> DEFINE class == deciding[e].class
           m == Newest(OpenRows(class))
<1>1. SUFFICES ASSUME NEW c \in (revoked \ unrevoked)', NEW i \in OpenRows(c)'
               PROVE  \E j \in RowsOf(c)' : grants'[j].revoked /\ Newer(j, i)'
  BY DEF RevokedIsNewest
<1>2. c = class \/ c \in revoked \ unrevoked
  BY <1>1 DEF AppendRevocation
<1>3. CASE OpenRows(class) = {}
  <2>1. grants' = grants
    BY <1>3 DEF AppendRevocation
  <2>2. i \in OpenRows(c) /\ c # class
    BY <1>1, <1>3, <2>1 DEF OpenRows, RowsOf
  <2>3. QED
    BY <1>2, <2>1, <2>2 DEF TrustInv, RevokedIsNewest, RowsOf, Newer
<1>4. CASE OpenRows(class) # {}
  <2> HIDE DEF m
  <2>1. m \in OpenRows(class) /\ \A k \in OpenRows(class) : Newer(m, k)
    <3>1. OpenRows(class) \subseteq DOMAIN grants
      BY DEF OpenRows, RowsOf
    <3>2. QED
      BY <1>4, <3>1, NewestExists DEF TrustInv, m
  <2>2. m \in DOMAIN grants /\ grants[m].class = class
    BY <2>1 DEF OpenRows, RowsOf
  <2>3. grants' = [grants EXCEPT ![m].revoked = TRUE]
    BY <1>4 DEF AppendRevocation, m
  <2>4. /\ DOMAIN grants' = DOMAIN grants
        /\ \A k \in DOMAIN grants : /\ grants'[k].class = grants[k].class
                                    /\ grants'[k].granted = grants[k].granted
                                    /\ grants[k].revoked => grants'[k].revoked
                                    /\ ~grants'[k].revoked => ~grants[k].revoked
        /\ grants'[m].revoked
    <3>1. \A k \in DOMAIN grants : grants[k] \in Grant
      BY DEF TrustInv, TrustTypeOK
    <3>2. QED
      BY <2>2, <2>3, <3>1 DEF Grant
  <2>5. i \in OpenRows(c)
    BY <1>1, <2>4 DEF OpenRows, RowsOf
  <2>6. CASE c = class
    BY <2>1, <2>2, <2>4, <2>5, <2>6 DEF OpenRows, RowsOf, Newer
  <2>7. CASE c \in revoked \ unrevoked
    <3>1. PICK j \in RowsOf(c) : grants[j].revoked /\ Newer(j, i)
      BY <2>5, <2>7 DEF TrustInv, RevokedIsNewest
    <3>2. QED
      BY <2>4, <2>5, <3>1 DEF OpenRows, RowsOf, Newer
  <2>8. QED
    BY <1>2, <2>6, <2>7
<1>5. QED
  BY <1>3, <1>4

\* trust_grant_pruned: a revoked row that goes takes its class out of the claim.
LEMMA PruneKeepsOrder ==
    ASSUME TrustInv, NEW p \in Pruners, NEW k \in Ids, PruneRow(p, k)
    PROVE  RevokedIsNewest'
<1>1. SUFFICES ASSUME NEW c \in (revoked \ unrevoked)', NEW i \in OpenRows(c)'
               PROVE  \E j \in RowsOf(c)' : grants'[j].revoked /\ Newer(j, i)'
  BY DEF RevokedIsNewest
<1>2. /\ DOMAIN grants' = DOMAIN grants \ {k}
      /\ \A j \in DOMAIN grants' : grants'[j] = grants[j]
  BY DEF PruneRow
<1>3. c \in revoked \ unrevoked
  BY <1>1 DEF PruneRow
<1>4. i \in OpenRows(c)
  BY <1>1, <1>2 DEF OpenRows, RowsOf
<1>5. PICK j \in RowsOf(c) : grants[j].revoked /\ Newer(j, i)
  BY <1>3, <1>4 DEF TrustInv, RevokedIsNewest
<1>6. j # k
  BY <1>1, <1>5 DEF PruneRow, RowsOf
<1>7. QED
  BY <1>1, <1>2, <1>5, <1>6 DEF OpenRows, RowsOf, Newer

(***************************************************************************)
(* A class is not trusted from a revocation to its next grant, unless a    *)
(* prune took a revoked row of it away.                                    *)
(***************************************************************************)
THEOREM RevocationSticks == TrustSpec => []NoTrustAfterRevocation
<1>1. TrustInit => RevokedIsNewest
  BY DEF TrustInit, RevokedIsNewest
<1>2. TrustInv /\ [TrustNext]_trustVars => RevokedIsNewest'
  <2> SUFFICES ASSUME TrustInv, [TrustNext]_trustVars
               PROVE  RevokedIsNewest'
    OBVIOUS
  <2>1. CASE TrustTick
    BY <2>1, RowsStand DEF TrustInv, TrustTick
  <2>2. ASSUME NEW e \in Evaluators, NEW c \in Classes, NEW good \in BOOLEAN, Evaluate(e, c, good)
        PROVE  RevokedIsNewest'
    BY <2>2, RowsStand DEF TrustInv, Evaluate
  <2>3. ASSUME NEW e \in Evaluators, NEW at \in Instants, NEW n \in Ids, AppendGrant(e, at, n)
        PROVE  RevokedIsNewest'
    BY <2>3, GrantKeepsOrder
  <2>4. ASSUME NEW e \in Evaluators, NEW at \in Instants, AppendRenewal(e, at)
        PROVE  RevokedIsNewest'
    <3> DEFINE m == Newest(OpenRows(deciding[e].class))
    <3> HIDE DEF m
    <3>1. grants' = grants \/ grants' = [grants EXCEPT ![m].expires = at + TrustDays]
      BY <2>4 DEF AppendRenewal, m
    <3>2. \A i \in DOMAIN grants : grants[i] \in Grant
      BY DEF TrustInv, TrustTypeOK
    <3>3. /\ DOMAIN grants' = DOMAIN grants
          /\ \A i \in DOMAIN grants : /\ grants'[i].class = grants[i].class
                                      /\ grants'[i].granted = grants[i].granted
                                      /\ grants'[i].revoked = grants[i].revoked
      BY <3>1, <3>2 DEF Grant
    <3>4. QED
      BY <2>4, <3>3, RowsStand DEF TrustInv, AppendRenewal
  <2>5. ASSUME NEW e \in Evaluators, AppendRevocation(e)
        PROVE  RevokedIsNewest'
    BY <2>5, RevocationKeepsOrder
  <2>6. ASSUME NEW e \in Evaluators, EvaluatorKilled(e)
        PROVE  RevokedIsNewest'
    BY <2>6, RowsStand DEF TrustInv, EvaluatorKilled
  <2>7. ASSUME NEW p \in Pruners, ListExpired(p)
        PROVE  RevokedIsNewest'
    BY <2>7, RowsStand DEF TrustInv, ListExpired
  <2>8. ASSUME NEW p \in Pruners, NEW i \in Ids, PruneRow(p, i)
        PROVE  RevokedIsNewest'
    BY <2>8, PruneKeepsOrder
  <2>9. ASSUME NEW p \in Pruners, PrunerKilled(p)
        PROVE  RevokedIsNewest'
    BY <2>9, RowsStand DEF TrustInv, PrunerKilled
  <2>10. CASE UNCHANGED trustVars
    BY <2>10, RowsStand DEF TrustInv, trustVars
  <2>11. QED
    BY <2>1, <2>2, <2>3, <2>4, <2>5, <2>6, <2>7, <2>8, <2>9, <2>10 DEF TrustNext
<1>3. TrustInv => NoTrustAfterRevocation
  <2> SUFFICES ASSUME TrustInv, NEW c \in revoked \ unrevoked, HasActiveTrust(c)
               PROVE  FALSE
    BY DEF NoTrustAfterRevocation
  <2> DEFINE m == Newest(RowsOf(c))
  <2> HIDE DEF m
  <2>1. m \in RowsOf(c) /\ \A j \in RowsOf(c) : Newer(m, j)
    <3>1. RowsOf(c) \subseteq DOMAIN grants /\ RowsOf(c) # {}
      BY DEF HasActiveTrust, RowsOf
    <3>2. QED
      BY <3>1, NewestExists DEF TrustInv, m
  <2>2. m \in OpenRows(c)
    BY <2>1 DEF OpenRows, HasActiveTrust, m
  <2>3. PICK j \in RowsOf(c) : grants[j].revoked /\ Newer(j, m)
    BY <2>2 DEF TrustInv, RevokedIsNewest
  <2>4. j = m
    <3>1. /\ j \in 1 .. TrustRowCap /\ m \in 1 .. TrustRowCap
          /\ grants[j].granted \in 0 .. TrustHorizon /\ grants[m].granted \in 0 .. TrustHorizon
      BY <2>1, <2>3 DEF RowsOf, TrustInv, TrustTypeOK, Grant, Instants, Ids
    <3>2. QED
      BY <2>1, <2>3, <3>1, TrustAssumption DEF Newer
  <2>5. QED
    BY <2>2, <2>3, <2>4 DEF OpenRows
<1>4. QED
  BY <1>1, <1>2, <1>3, TrustTypeCorrect, PTL DEF TrustSpec, TrustInv

-----------------------------------------------------------------------------
(***************************************************************************)
(* The types of OssIntake, and that a revoked requester stays out, for any *)
(* requesters, intakes, limits and bounds. The argument: a revocation row  *)
(* outlasts every instant an intake can be stamped with and no row is ever *)
(* removed, so that an intake begun after it never leaves the checks       *)
(* (BarredForGood).                                                        *)
(***************************************************************************)

(***************************************************************************)
(* The types of every variable, for any constants that satisfy             *)
(* IntakeAssumption.                                                       *)
(***************************************************************************)
THEOREM IntakeTypeCorrect == OssIntakeSpec => []OssIntakeTypeOK
<1>1. OssIntakeInit => OssIntakeTypeOK
  BY IntakeAssumption DEF OssIntakeInit, OssIntakeTypeOK, Times, IntakePcs
<1>2. OssIntakeTypeOK /\ [OssIntakeNext]_intakeVars => OssIntakeTypeOK'
  <2> SUFFICES ASSUME OssIntakeTypeOK, [OssIntakeNext]_intakeVars
               PROVE  OssIntakeTypeOK'
    OBVIOUS
  <2> USE IntakeAssumption DEF OssIntakeTypeOK
  <2>1. CASE IntakeTick
    BY <2>1 DEF IntakeTick, Times
  <2>2. ASSUME NEW k \in Intakes, BeginIntake(k)
        PROVE  OssIntakeTypeOK'
    BY <2>2 DEF BeginIntake, Move, IntakePcs
  <2>3. ASSUME NEW k \in Intakes, Refuse(k) \/ PassChecks(k) \/ AuditCooldown(k)
        PROVE  OssIntakeTypeOK'
    BY <2>3 DEF Refuse, PassChecks, AuditCooldown, Move, IntakePcs
  <2>4. ASSUME NEW k \in Intakes, RecordIntake(k)
        PROVE  OssIntakeTypeOK'
    BY <2>4 DEF RecordIntake, Move, IntakePcs
  <2>5. ASSUME NEW k \in Intakes, CheckRate(k)
        PROVE  OssIntakeTypeOK'
    <3>1. cooldowns' \subseteq [who : Requesters, until : Nat, of : Intakes \cup {Revocation}]
      BY <2>5 DEF CheckRate, Times
    <3>2. intakePc' \in [Intakes -> IntakePcs]
      BY <2>5 DEF CheckRate, Move, IntakePcs
    <3>3. QED
      BY <2>5, <3>1, <3>2 DEF CheckRate
  <2>6. ASSUME NEW k \in Intakes, IntakeKilled(k)
        PROVE  OssIntakeTypeOK'
    BY <2>6 DEF IntakeKilled, Move, IntakePcs
  <2>7. ASSUME NEW q \in Requesters, RevokeRequester(q)
        PROVE  OssIntakeTypeOK'
    BY <2>7 DEF RevokeRequester, Times
  <2>8. CASE UNCHANGED intakeVars
    BY <2>8 DEF intakeVars
  <2>9. QED
    BY <2>1, <2>2, <2>3, <2>4, <2>5, <2>6, <2>7, <2>8 DEF OssIntakeNext
<1>3. QED
  BY <1>1, <1>2, PTL DEF OssIntakeSpec

(***************************************************************************)
(* An intake begun after the requester's revocation is never recorded.     *)
(***************************************************************************)
THEOREM RevocationBars == OssIntakeSpec => []RevokedStaysOut
<1> DEFINE Inv == OssIntakeTypeOK /\ BarredForGood
<1>1. OssIntakeInit => BarredForGood
  BY DEF OssIntakeInit, BarredForGood, RevokedStaysOut
<1>2. Inv /\ [OssIntakeNext]_intakeVars => BarredForGood'
  <2> SUFFICES ASSUME OssIntakeTypeOK, BarredForGood, [OssIntakeNext]_intakeVars
               PROVE  BarredForGood'
    OBVIOUS
  <2> USE IntakeAssumption DEF OssIntakeTypeOK
  \* an intake changes place, rows are kept, nobody is barred or recorded
  <2>1. ASSUME NEW k \in Intakes, NEW from \in IntakePcs, NEW to \in IntakePcs,
               Move(k, from, to),
               cooldowns \subseteq cooldowns',
               barred' = barred, begunBarred' = begunBarred, recorded' = recorded,
               \/ from = "checking" /\ to = "rejected"
               \/ to = "killed"
               \/ from \in {"counting", "auditing"} /\ to \in {"auditing", "accepted"}
        PROVE  BarredForGood'
    <3>1. \A i \in Intakes : intakePc'[i] = IF i = k THEN to ELSE intakePc[i]
      BY <2>1 DEF Move
    <3>2. intakePc[k] = from
      BY <2>1 DEF Move
    <3>3. \A q \in barred' : \E r \in cooldowns' : r.who = q /\ r.until > IntakeHorizon
      BY <2>1 DEF BarredForGood
    <3>4. \A i \in begunBarred' :
             RequesterOf[i] \in barred' /\ intakePc'[i] \in {"checking", "rejected", "killed"}
      BY <2>1, <3>1, <3>2 DEF BarredForGood
    <3>5. \A i \in recorded' : intakePc'[i] \in {"counting", "auditing", "accepted", "killed"}
      BY <2>1, <3>1, <3>2 DEF BarredForGood
    <3>6. QED
      BY <2>1, <3>3, <3>4, <3>5 DEF BarredForGood, RevokedStaysOut
  <2>2. CASE IntakeTick
    BY <2>2 DEF IntakeTick, BarredForGood, RevokedStaysOut
  <2>3. ASSUME NEW k \in Intakes, BeginIntake(k)
        PROVE  BarredForGood'
    BY <2>3 DEF BeginIntake, Move, BarredForGood, RevokedStaysOut
  <2>4. ASSUME NEW k \in Intakes, Refuse(k)
        PROVE  BarredForGood'
    BY <2>1, <2>4 DEF Refuse, IntakePcs
  <2>5. ASSUME NEW k \in Intakes, PassChecks(k)
        PROVE  BarredForGood'
    <3>1. k \notin begunBarred
      <4> SUFFICES ASSUME k \in begunBarred
                   PROVE  FALSE
        OBVIOUS
      <4>1. PICK r \in cooldowns : r.who = RequesterOf[k] /\ r.until > IntakeHorizon
        BY DEF BarredForGood
      <4>2. r.until \in Nat /\ stampedAt[k] \in 0 .. IntakeHorizon
        BY DEF Times
      <4>3. r.until > stampedAt[k]
        BY <4>1, <4>2
      <4>4. QED
        BY <2>5, <4>1, <4>3 DEF PassChecks, InCooldown
    <3>2. QED
      BY <2>5, <3>1 DEF PassChecks, Move, BarredForGood, RevokedStaysOut
  <2>6. ASSUME NEW k \in Intakes, RecordIntake(k)
        PROVE  BarredForGood'
    BY <2>6 DEF RecordIntake, Move, BarredForGood, RevokedStaysOut
  <2>7. ASSUME NEW k \in Intakes, CheckRate(k)
        PROVE  BarredForGood'
    <3>1. PICK to \in {"auditing", "accepted"} : Move(k, "counting", to)
      BY <2>7 DEF CheckRate
    <3>2. /\ cooldowns \subseteq cooldowns' /\ barred' = barred
          /\ begunBarred' = begunBarred /\ recorded' = recorded
      BY <2>7 DEF CheckRate
    <3>3. "counting" \in IntakePcs /\ to \in IntakePcs
      BY DEF IntakePcs
    <3>4. QED
      BY <2>1, <3>1, <3>2, <3>3
  <2>8. ASSUME NEW k \in Intakes, AuditCooldown(k)
        PROVE  BarredForGood'
    BY <2>1, <2>8 DEF AuditCooldown, IntakePcs
  <2>9. ASSUME NEW k \in Intakes, IntakeKilled(k)
        PROVE  BarredForGood'
    <3>1. "killed" \in IntakePcs
      BY DEF IntakePcs
    <3>2. QED
      BY <2>1, <2>9, <3>1 DEF IntakeKilled
  <2>10. ASSUME NEW q \in Requesters, RevokeRequester(q)
         PROVE  BarredForGood'
    <3> DEFINE row == [who |-> q, until |-> intakeNow + Permanent, of |-> Revocation]
    <3>1. row \in cooldowns' /\ row.who = q /\ row.until > IntakeHorizon
      BY <2>10 DEF RevokeRequester, Times
    <3> HIDE DEF row
    <3>2. \A p \in barred' : \E r \in cooldowns' : r.who = p /\ r.until > IntakeHorizon
      BY <2>10, <3>1 DEF RevokeRequester, BarredForGood
    <3>3. QED
      BY <2>10, <3>2 DEF RevokeRequester, BarredForGood, RevokedStaysOut
  <2>11. CASE UNCHANGED intakeVars
    BY <2>11 DEF intakeVars, BarredForGood, RevokedStaysOut
  <2>12. QED
    BY <2>2, <2>3, <2>4, <2>5, <2>6, <2>7, <2>8, <2>9, <2>10, <2>11 DEF OssIntakeNext
<1>3. BarredForGood => RevokedStaysOut
  BY DEF BarredForGood
<1>4. QED
  BY <1>1, <1>2, <1>3, IntakeTypeCorrect, PTL DEF OssIntakeSpec

-----------------------------------------------------------------------------
(***************************************************************************)
(* The limit of OssIntake. The argument: what is promised of now is kept   *)
(* for every instant to come, so that the clock cannot break it. The       *)
(* intake that counts last has every other one that is recent then in its  *)
(* window: either it finds fewer than the limit, and so few are recent, or *)
(* its cooldown outlasts the last instant at which it is recent itself.    *)
(***************************************************************************)
\* the requester's intakes that were counted and are recent at an instant
Counted(q, t) == {k \in recorded \cap screened : RequesterOf[k] = q /\ stampedAt[k] > t - Shorter}

ThrottledFrom(now) ==
    \A q \in Requesters, t \in Times :
        t >= now => InCooldown(q, t) \/ Cardinality(Counted(q, t)) < MaxPerWindow

CountsAreRecorded ==
    /\ OssIntakeTypeOK
    /\ IsFiniteSet(recorded)
    /\ screened \subseteq recorded
    /\ \A k \in Intakes : intakePc[k] \in {"new", "checking", "recording", "rejected"} => k \notin screened
    /\ \A k \in Intakes : intakePc[k] = "counting" => k \in recorded
    /\ \A k \in recorded \cup screened : intakePc[k] # "new"
    /\ \A k \in recorded : stampedAt[k] <= intakeNow
    /\ \A k \in Intakes : stampedAt[k] <= intakeNow

\* A step that counts nothing, cools nobody down less, and lets time go on.
LEMMA ThrottleStands ==
    ASSUME CountsAreRecorded, ThrottledFrom(intakeNow), intakeNow' \in Nat, intakeNow' >= intakeNow,
           screened' = screened, cooldowns \subseteq cooldowns',
           recorded' \cap screened = recorded \cap screened,
           \A k \in recorded \cap screened : stampedAt'[k] = stampedAt[k]
    PROVE  ThrottledFrom(intakeNow)'
<1> SUFFICES ASSUME NEW q \in Requesters, NEW t \in Times, t >= intakeNow'
             PROVE  InCooldown(q, t)' \/ Cardinality(Counted(q, t)') < MaxPerWindow
  BY DEF ThrottledFrom
<1>1. intakeNow \in Nat /\ t \in Nat
  BY DEF CountsAreRecorded, OssIntakeTypeOK, Times
<1>2. InCooldown(q, t) \/ Cardinality(Counted(q, t)) < MaxPerWindow
  BY <1>1 DEF ThrottledFrom
<1>3. Counted(q, t)' = Counted(q, t)
  BY DEF Counted, Shorter
<1>4. InCooldown(q, t) => InCooldown(q, t)'
  BY DEF InCooldown
<1> QED
  BY <1>2, <1>3, <1>4

\* An intake is counted.
LEMMA CountingThrottles ==
    ASSUME CountsAreRecorded, ThrottledFrom(intakeNow), NEW k \in Intakes, CheckRate(k)
    PROVE  ThrottledFrom(intakeNow)'
<1>t. /\ intakeNow \in Nat /\ \A i \in Intakes : stampedAt[i] \in Nat /\ stampedAt[i] <= intakeNow
      /\ recorded \subseteq Intakes /\ k \in recorded
  BY DEF CountsAreRecorded, OssIntakeTypeOK, Times, CheckRate, Move
<1>c. MaxPerWindow \in Nat /\ Window \in Nat /\ CooldownFor \in Nat
  BY IntakeAssumption
<1> SUFFICES ASSUME NEW q \in Requesters, NEW t \in Times, t >= intakeNow
             PROVE  InCooldown(q, t)' \/ Cardinality(Counted(q, t)') < MaxPerWindow
  BY DEF ThrottledFrom, CheckRate
<1>1. t \in Nat /\ (InCooldown(q, t) \/ Cardinality(Counted(q, t)) < MaxPerWindow)
  BY DEF ThrottledFrom, Times
<1>2. InCooldown(q, t) => InCooldown(q, t)'
  BY DEF InCooldown, CheckRate
<1>3. CASE RequesterOf[k] # q \/ ~(stampedAt[k] > t - Shorter)
  <2>1. Counted(q, t)' = Counted(q, t)
    BY <1>3 DEF Counted, CheckRate, Shorter
  <2> QED
    BY <1>1, <1>2, <2>1
<1>4. CASE RequesterOf[k] = q /\ stampedAt[k] > t - Shorter
  <2>1. CASE Cardinality(InWindow(k)) >= MaxPerWindow
    <3> DEFINE row == [who |-> q, until |-> stampedAt[k] + CooldownFor, of |-> k]
    <3>1. row \in cooldowns'
      BY <1>4, <2>1 DEF CheckRate
    <3>2. stampedAt[k] + CooldownFor > t
      BY <1>1, <1>c, <1>t, <1>4 DEF Shorter
    <3> QED
      BY <3>1, <3>2 DEF InCooldown
  <2>2. CASE ~(Cardinality(InWindow(k)) >= MaxPerWindow)
    <3>1. IsFiniteSet(InWindow(k))
      <4>1. InWindow(k) \subseteq recorded /\ IsFiniteSet(recorded)
        BY DEF InWindow, CountsAreRecorded
      <4> QED
        BY <4>1, FS_Subset
    <3>2. Counted(q, t)' \subseteq InWindow(k)
      <4> SUFFICES ASSUME NEW i \in recorded, RequesterOf[i] = q, stampedAt[i] > t - Shorter
                   PROVE  i \in InWindow(k)
        BY DEF Counted, CheckRate, Shorter
      <4>1. stampedAt[i] >= stampedAt[k] - Window
        BY <1>1, <1>c, <1>t DEF Shorter
      <4> QED
        BY <1>4, <4>1 DEF InWindow
    <3>3. Cardinality(Counted(q, t)') <= Cardinality(InWindow(k))
      BY <3>1, <3>2, FS_Subset
    <3>4. Cardinality(InWindow(k)) \in Nat /\ Cardinality(Counted(q, t)') \in Nat
      BY <3>1, <3>2, FS_Subset, FS_CardinalityType
    <3> QED
      BY <1>c, <2>2, <3>3, <3>4
  <2> QED
    BY <2>1, <2>2
<1> QED
  BY <1>3, <1>4

\* What was counted was recorded, and every stamp is past.
LEMMA CountsStayRecorded ==
    OssIntakeTypeOK' /\ CountsAreRecorded /\ [OssIntakeNext]_intakeVars => CountsAreRecorded'
<1> SUFFICES ASSUME OssIntakeTypeOK', CountsAreRecorded, [OssIntakeNext]_intakeVars PROVE CountsAreRecorded'
  OBVIOUS
<1>t. OssIntakeTypeOK
  BY DEF CountsAreRecorded
<1>1. CASE IntakeTick
  <2>1. intakeNow' = intakeNow + 1 /\ intakeNow \in Nat /\ \A k \in Intakes : stampedAt[k] \in Nat
    BY <1>t, <1>1 DEF IntakeTick, OssIntakeTypeOK, Times
  <2>2. UNCHANGED <<intakePc, stampedAt, recorded, screened>> /\ recorded \subseteq Intakes
    BY <1>t, <1>1 DEF IntakeTick, OssIntakeTypeOK
  <2> QED
    BY <2>1, <2>2 DEF CountsAreRecorded
<1>2. ASSUME NEW k \in Intakes, BeginIntake(k) PROVE CountsAreRecorded'
  <2>1. /\ stampedAt' = [stampedAt EXCEPT ![k] = intakeNow] /\ intakePc' = [intakePc EXCEPT ![k] = "checking"]
        /\ UNCHANGED <<intakeNow, recorded, screened>> /\ intakePc[k] = "new"
    BY <1>2 DEF BeginIntake, Move
  <2>2. intakeNow \in Nat /\ stampedAt \in [Intakes -> Times] /\ intakePc \in [Intakes -> IntakePcs]
    BY <1>t DEF OssIntakeTypeOK, Times
  <2>3. recorded \subseteq Intakes /\ screened \subseteq Intakes
    BY <1>t DEF OssIntakeTypeOK
  <2> QED
    BY <2>1, <2>2, <2>3 DEF CountsAreRecorded
<1>3. ASSUME NEW k \in Intakes, Refuse(k) \/ PassChecks(k) \/ AuditCooldown(k) \/ IntakeKilled(k)
      PROVE CountsAreRecorded'
  <2>1. PICK to \in {"rejected", "recording", "accepted", "killed"} :
             /\ intakePc' = [intakePc EXCEPT ![k] = to] /\ UNCHANGED <<intakeNow, stampedAt, recorded, screened>>
             /\ to \in {"rejected", "recording"} => intakePc[k] = "checking"
             /\ intakePc[k] # "new"
    BY <1>3 DEF Refuse, PassChecks, AuditCooldown, IntakeKilled, Move
  <2>2. intakePc \in [Intakes -> IntakePcs] /\ recorded \subseteq Intakes /\ screened \subseteq Intakes
    BY <1>t DEF OssIntakeTypeOK
  <2> QED
    BY <2>1, <2>2 DEF CountsAreRecorded
<1>4. ASSUME NEW k \in Intakes, RecordIntake(k) PROVE CountsAreRecorded'
  <2>1. /\ intakePc[k] = "recording" /\ intakePc' = [intakePc EXCEPT ![k] = "counting"]
        /\ recorded' = recorded \cup {k} /\ UNCHANGED <<intakeNow, stampedAt, screened>>
    BY <1>4 DEF RecordIntake, Move
  <2>2. intakePc \in [Intakes -> IntakePcs] /\ recorded \subseteq Intakes /\ screened \subseteq Intakes
    BY <1>t DEF OssIntakeTypeOK
  <2>3. IsFiniteSet(recorded')
    BY <2>1, FS_AddElement DEF CountsAreRecorded
  <2> QED
    BY <2>1, <2>2, <2>3 DEF CountsAreRecorded
<1>5. ASSUME NEW k \in Intakes, CheckRate(k) PROVE CountsAreRecorded'
  <2>1. /\ intakePc[k] = "counting" /\ screened' = screened \cup {k} /\ UNCHANGED <<intakeNow, stampedAt, recorded>>
        /\ \E to \in {"auditing", "accepted"} : intakePc' = [intakePc EXCEPT ![k] = to]
    BY <1>5 DEF CheckRate, Move
  <2>2. intakePc \in [Intakes -> IntakePcs] /\ recorded \subseteq Intakes /\ screened \subseteq Intakes
    BY <1>t DEF OssIntakeTypeOK
  <2> QED
    BY <2>1, <2>2 DEF CountsAreRecorded
<1>6. ASSUME NEW q \in Requesters, RevokeRequester(q) PROVE CountsAreRecorded'
  BY <1>6 DEF RevokeRequester, CountsAreRecorded
<1>7. CASE UNCHANGED intakeVars
  BY <1>7 DEF intakeVars, CountsAreRecorded
<1> QED
  BY <1>1, <1>2, <1>3, <1>4, <1>5, <1>6, <1>7 DEF OssIntakeNext

(***************************************************************************)
(* The limit is kept by whoever counts last, for any number of requesters  *)
(* and intakes in any order of stamps, records and counts, and any limit,  *)
(* window and cooldown (cooldowns.py:77).                                  *)
(***************************************************************************)
THEOREM LimitIsKept == OssIntakeSpec => []Throttled
<1>1. OssIntakeInit => CountsAreRecorded /\ ThrottledFrom(intakeNow)
  <2> SUFFICES ASSUME OssIntakeInit PROVE CountsAreRecorded /\ ThrottledFrom(intakeNow)
    OBVIOUS
  <2>1. OssIntakeTypeOK
    BY IntakeAssumption DEF OssIntakeInit, OssIntakeTypeOK, Times, IntakePcs
  <2>2. CountsAreRecorded
    BY <2>1, FS_EmptySet DEF OssIntakeInit, CountsAreRecorded
  <2>3. \A q \in Requesters, t \in Times : Counted(q, t) = {}
    BY DEF OssIntakeInit, Counted
  <2>4. Cardinality({}) = 0 /\ MaxPerWindow \in Nat \ {0}
    BY FS_EmptySet, IntakeAssumption
  <2> QED
    BY <2>2, <2>3, <2>4 DEF ThrottledFrom
<1>2. /\ OssIntakeTypeOK /\ OssIntakeTypeOK' /\ CountsAreRecorded /\ ThrottledFrom(intakeNow)
      /\ [OssIntakeNext]_intakeVars
      => CountsAreRecorded' /\ ThrottledFrom(intakeNow)'
  <2> SUFFICES ASSUME OssIntakeTypeOK, OssIntakeTypeOK', CountsAreRecorded, ThrottledFrom(intakeNow),
                      [OssIntakeNext]_intakeVars
               PROVE  ThrottledFrom(intakeNow)'
    BY CountsStayRecorded
  <2>n. intakeNow \in Nat
    BY DEF OssIntakeTypeOK, Times
  <2>1. CASE \E k \in Intakes : CheckRate(k)
    BY <2>1, CountingThrottles
  <2>2. CASE IntakeTick
    BY <2>2, <2>n, ThrottleStands DEF IntakeTick
  <2>3. ASSUME NEW k \in Intakes,
               Refuse(k) \/ PassChecks(k) \/ AuditCooldown(k) \/ IntakeKilled(k)
        PROVE ThrottledFrom(intakeNow)'
    <3>1. UNCHANGED <<intakeNow, stampedAt, cooldowns, recorded, screened>>
      BY <2>3 DEF Refuse, PassChecks, AuditCooldown, IntakeKilled
    <3> QED
      BY <2>n, <3>1, ThrottleStands
  <2>4. ASSUME NEW k \in Intakes, BeginIntake(k) PROVE ThrottledFrom(intakeNow)'
    <3>1. UNCHANGED <<intakeNow, cooldowns, recorded, screened>> /\ k \notin screened
      BY <2>4 DEF BeginIntake, Move, CountsAreRecorded
    <3>2. \A i \in recorded \cap screened : stampedAt'[i] = stampedAt[i]
      BY <2>4, <3>1 DEF BeginIntake, OssIntakeTypeOK
    <3> QED
      BY <2>n, <3>1, <3>2, ThrottleStands
  <2>5. ASSUME NEW k \in Intakes, RecordIntake(k) PROVE ThrottledFrom(intakeNow)'
    <3>1. UNCHANGED <<intakeNow, cooldowns, stampedAt, screened>> /\ k \notin screened /\ recorded' = recorded \cup {k}
      BY <2>5 DEF RecordIntake, Move, CountsAreRecorded
    <3> QED
      BY <2>n, <3>1, ThrottleStands
  <2>6. ASSUME NEW q \in Requesters, RevokeRequester(q) PROVE ThrottledFrom(intakeNow)'
    BY <2>6, <2>n, ThrottleStands DEF RevokeRequester
  <2>7. CASE UNCHANGED intakeVars
    BY <2>7, <2>n, ThrottleStands DEF intakeVars
  <2> QED
    BY <2>1, <2>2, <2>3, <2>4, <2>5, <2>6, <2>7 DEF OssIntakeNext
<1>3. CountsAreRecorded /\ ThrottledFrom(intakeNow) => Throttled
  <2> SUFFICES ASSUME CountsAreRecorded, ThrottledFrom(intakeNow), NEW q \in Requesters
               PROVE  InCooldown(q, intakeNow) \/ Cardinality(Recent(q) \cap screened) < MaxPerWindow
    BY DEF Throttled
  <2>1. intakeNow \in Times /\ intakeNow >= intakeNow
    BY DEF CountsAreRecorded, OssIntakeTypeOK, Times
  <2>2. Recent(q) \cap screened = Counted(q, intakeNow)
    BY DEF Recent, Counted
  <2> QED
    BY <2>1, <2>2 DEF ThrottledFrom
<1> QED
  BY <1>1, <1>2, <1>3, IntakeTypeCorrect, PTL DEF OssIntakeSpec

-----------------------------------------------------------------------------
(***************************************************************************)
(* The types of CandidateReview, and that a verdict stands, for any        *)
(* reviewers, rows and bound. The argument follows one row (Carried): from *)
(* its single approval until it is published and remembered, somebody has  *)
(* it in hand at the step that is missing, or its approval was torn.       *)
(***************************************************************************)

LEMMA IdleIsAStep == Idle \in [doing : Steps, row : Candidates, id : LibraryIds] /\ Idle.doing = Free
<1>1. (CHOOSE c \in Candidates : TRUE) \in Candidates
  BY ReviewAssumption
<1>2. 1 \in LibraryIds
  BY ReviewAssumption DEF LibraryIds
<1>3. QED
  BY <1>1, <1>2 DEF Idle, Steps

\* Only an antibody is remembered.
RemembersAntibodies ==
    \A r \in Reviewers : reviewer[r].doing = "remembering" => Row(r) \in Antibodies

\* What a step leaves of the reviewers: r moved as it says, the others not.
LEMMA OnlyOneMoves ==
    ASSUME ReviewTypeOK, NEW r \in Reviewers, NEW step \in Steps, NEW c \in Candidates, NEW n \in LibraryIds,
           Turn(r, step, c, n) \/ (step = Free /\ FreeReviewer(r))
    PROVE  /\ reviewer' \in [Reviewers -> [doing : Steps, row : Candidates, id : LibraryIds]]
           /\ reviewer'[r].doing = step
           /\ step # Free => reviewer'[r].row = c
           /\ \A s \in Reviewers \ {r} : reviewer'[s] = reviewer[s]
<1>1. CASE Turn(r, step, c, n)
  BY <1>1 DEF Turn, ReviewTypeOK
<1>2. CASE step = Free /\ FreeReviewer(r)
  BY <1>2, IdleIsAStep DEF FreeReviewer, ReviewTypeOK
<1>3. QED
  BY <1>1, <1>2

(***************************************************************************)
(* The types of every variable, for any constants that satisfy             *)
(* ReviewAssumption.                                                       *)
(***************************************************************************)
THEOREM ReviewTypeCorrect == ReviewSpec => [](ReviewTypeOK /\ RemembersAntibodies)
<1>1. ReviewInit => ReviewTypeOK /\ RemembersAntibodies
  BY IdleIsAStep, ReviewAssumption DEF ReviewInit, ReviewTypeOK, RemembersAntibodies, Free
<1>2. ReviewTypeOK /\ RemembersAntibodies /\ [ReviewNext]_reviewVars => (ReviewTypeOK /\ RemembersAntibodies)'
  <2> SUFFICES ASSUME ReviewTypeOK, RemembersAntibodies, [ReviewNext]_reviewVars
               PROVE  ReviewTypeOK' /\ RemembersAntibodies'
    OBVIOUS
  <2>0. 1 \in LibraryIds /\ Steps = {Free, "numbering", "adding", "remembering", "auditing"} /\ Free = "free"
    BY ReviewAssumption DEF LibraryIds, Steps, Free
  <2>r. \A r \in Reviewers : Row(r) \in Candidates /\ reviewer[r].id \in LibraryIds
    BY DEF ReviewTypeOK, Row
  \* a reviewer that moves is somewhere, and remembers antibodies only
  <2>m. ASSUME NEW r \in Reviewers, NEW step \in Steps, NEW c \in Candidates, NEW n \in LibraryIds,
               Turn(r, step, c, n) \/ (step = Free /\ FreeReviewer(r)), step = "remembering" => c \in Antibodies
        PROVE  /\ reviewer' \in [Reviewers -> [doing : Steps, row : Candidates, id : LibraryIds]]
               /\ RemembersAntibodies'
    BY <2>m, OnlyOneMoves, <2>0 DEF RemembersAntibodies, Row
  <2>v. ASSUME NEW c \in Candidates, NEW v \in {"pending", "approved", "rejected"}, Decide(c, v)
        PROVE  /\ verdict' \in [Candidates -> {"pending", "approved", "rejected"}]
               /\ decided' \in [Candidates -> Nat]
    <3>1. verdict' = [verdict EXCEPT ![c] = v] /\ decided' = [decided EXCEPT ![c] = decided[c] + 1]
      BY <2>v DEF Decide
    <3>2. verdict' \in [Candidates -> {"pending", "approved", "rejected"}]
      BY <3>1 DEF ReviewTypeOK
    <3>3. decided[c] + 1 \in Nat
      <4>1. decided[c] \in Nat
        BY DEF ReviewTypeOK
      <4>2. QED
        BY <4>1
    <3>4. decided' \in [Candidates -> Nat]
      BY <3>1, <3>3 DEF ReviewTypeOK
    <3>5. QED
      BY <3>2, <3>4
  <2>1. ASSUME NEW r \in Reviewers, NEW c \in Candidates, Approve(r, c)
        PROVE  ReviewTypeOK' /\ RemembersAntibodies'
    <3>1. /\ reviewer' \in [Reviewers -> [doing : Steps, row : Candidates, id : LibraryIds]]
          /\ RemembersAntibodies'
      BY <2>0, <2>m, <2>1 DEF Approve
    <3>2. Decide(c, "approved") /\ UNCHANGED <<library, remembered, torn>>
      BY <2>1 DEF Approve
    <3>3. QED
      BY <2>v, <3>1, <3>2 DEF ReviewTypeOK
  <2>2. ASSUME NEW r \in Reviewers, NEW c \in Candidates, EnactAgain(r, c)
        PROVE  ReviewTypeOK' /\ RemembersAntibodies'
    BY <2>0, <2>m, <2>2 DEF EnactAgain, ReviewTypeOK
  <2>3. ASSUME NEW r \in Reviewers, NEW c \in Candidates, Reject(r, c)
        PROVE  ReviewTypeOK' /\ RemembersAntibodies'
    BY <2>0, <2>m, <2>v, <2>3 DEF Reject, ReviewTypeOK
  <2>4. ASSUME NEW r \in Reviewers, NEW n \in LibraryIds, ReadNextId(r, n)
        PROVE  ReviewTypeOK' /\ RemembersAntibodies'
    BY <2>0, <2>r, <2>m, <2>4 DEF ReadNextId, ReviewTypeOK
  <2>5. ASSUME NEW r \in Reviewers, Publish(r)
        PROVE  ReviewTypeOK' /\ RemembersAntibodies'
    <3>1. [kind |-> KindOf(Row(r)), id |-> reviewer[r].id, of |-> Row(r), live |-> TRUE] \in
             [kind : {"antibody", "gate change"}, id : LibraryIds, of : Candidates, live : BOOLEAN]
      BY <2>r DEF KindOf
    <3>2. library' \subseteq [kind : {"antibody", "gate change"}, id : LibraryIds, of : Candidates, live : BOOLEAN]
      BY <2>5, <3>1 DEF Publish, ReviewTypeOK
    <3>3. /\ reviewer' \in [Reviewers -> [doing : Steps, row : Candidates, id : LibraryIds]]
          /\ RemembersAntibodies'
      BY <2>0, <2>r, <2>m, <2>5 DEF Publish
    <3>4. UNCHANGED <<verdict, remembered, decided, torn>>
      BY <2>5 DEF Publish
    <3>5. QED
      BY <3>2, <3>3, <3>4 DEF ReviewTypeOK
  <2>6. ASSUME NEW r \in Reviewers, PublishCollides(r)
        PROVE  ReviewTypeOK' /\ RemembersAntibodies'
    BY <2>0, <2>r, <2>m, <2>6 DEF PublishCollides, ReviewTypeOK
  <2>7. ASSUME NEW r \in Reviewers, Remember(r)
        PROVE  ReviewTypeOK' /\ RemembersAntibodies'
    BY <2>0, <2>r, <2>m, <2>7 DEF Remember, ReviewTypeOK, RemembersAntibodies
  <2>8. ASSUME NEW r \in Reviewers, AuditRejection(r)
        PROVE  ReviewTypeOK' /\ RemembersAntibodies'
    BY <2>0, <2>r, <2>m, <2>8 DEF AuditRejection, ReviewTypeOK
  <2>9. ASSUME NEW r \in Reviewers, ReviewerKilled(r)
        PROVE  ReviewTypeOK' /\ RemembersAntibodies'
    BY <2>0, <2>r, <2>m, <2>9 DEF ReviewerKilled, ReviewTypeOK
  <2>10. ASSUME NEW e \in library, RevokeAntibody(e)
         PROVE  ReviewTypeOK' /\ RemembersAntibodies'
    BY <2>10 DEF RevokeAntibody, ReviewTypeOK, RemembersAntibodies, Row
  <2>11. CASE UNCHANGED reviewVars
    BY <2>11 DEF reviewVars, ReviewTypeOK, RemembersAntibodies, Row
  <2>12. QED
    BY <2>1, <2>2, <2>3, <2>4, <2>5, <2>6, <2>7, <2>8, <2>9, <2>10, <2>11 DEF ReviewNext
<1>3. QED
  BY <1>1, <1>2, PTL DEF ReviewSpec

-----------------------------------------------------------------------------
ReviewInv == ReviewTypeOK /\ RemembersAntibodies /\ VerdictsCarried

\* Nobody takes the row up, hands it on or puts it down.
StaysPut(c) ==
    \A steps \in {{"auditing"}, {"remembering"}, {"numbering", "adding"},
                  {"numbering", "adding", "remembering"}} : At(c, steps)' = At(c, steps)

\* What a row's argument looks at: a step that leaves it all alone for the
\* row leaves the row where it was. torn only grows.
LEMMA RowAside ==
    ASSUME NEW c \in Candidates, VerdictsCarried,
           verdict'[c] = verdict[c], decided'[c] = decided[c],
           Published(c)' = Published(c), (c \in remembered') = (c \in remembered),
           c \in torn => c \in torn',
           StaysPut(c)
    PROVE  /\ decided'[c] = 0 => Untouched(c)' /\ ~At(c, {"auditing"})'
           /\ decided'[c] = 1 => Untouched(c)' \/ Carried(c)'
<1>1. /\ At(c, {"auditing"})' = At(c, {"auditing"})
      /\ At(c, {"remembering"})' = At(c, {"remembering"})
      /\ At(c, {"numbering", "adding"})' = At(c, {"numbering", "adding"})
      /\ At(c, {"numbering", "adding", "remembering"})' = At(c, {"numbering", "adding", "remembering"})
  BY DEF StaysPut
<1>2. QED
  BY <1>1 DEF VerdictsCarried, Untouched, Carried

\* Where a row is after r has moved to step with row d.
LEMMA MovesOneRow ==
    ASSUME ReviewTypeOK, NEW r \in Reviewers, NEW step \in Steps, NEW d \in Candidates, NEW n \in LibraryIds,
           Turn(r, step, d, n) \/ (step = Free /\ FreeReviewer(r)),
           NEW c \in Candidates, NEW steps, Free \notin steps
    PROVE  /\ At(c, steps)' => At(c, steps) \/ (d = c /\ step \in steps)
           /\ d = c /\ step \in steps => At(c, steps)'
           /\ At(c, steps) => At(c, steps)' \/ (Row(r) = c /\ reviewer[r].doing \in steps)
<1>1. /\ reviewer'[r].doing = step /\ (step # Free => reviewer'[r].row = d)
      /\ \A s \in Reviewers \ {r} : reviewer'[s] = reviewer[s]
  BY OnlyOneMoves
<1>2. step \in steps => step # Free
  OBVIOUS
<1>3. QED
  BY <1>1, <1>2 DEF At, Row

\* A step that neither takes the row up nor puts it down.
LEMMA MovesElsewhere ==
    ASSUME ReviewTypeOK, NEW r \in Reviewers, NEW step \in Steps, NEW d \in Candidates, NEW n \in LibraryIds,
           Turn(r, step, d, n) \/ (step = Free /\ FreeReviewer(r)),
           NEW c \in Candidates, Row(r) = c => reviewer[r].doing = Free, step # Free => d # c
    PROVE  StaysPut(c)
<1> SUFFICES \A steps \in {{"auditing"}, {"remembering"}, {"numbering", "adding"},
                          {"numbering", "adding", "remembering"}} : At(c, steps)' = At(c, steps)
  BY DEF StaysPut
<1> TAKE steps \in {{"auditing"}, {"remembering"}, {"numbering", "adding"}, {"numbering", "adding", "remembering"}}
<1>1. Free \notin steps
  BY DEF Free
<1>2. /\ At(c, steps)' => At(c, steps) \/ (d = c /\ step \in steps)
      /\ At(c, steps) => At(c, steps)' \/ (Row(r) = c /\ reviewer[r].doing \in steps)
  BY <1>1, MovesOneRow
<1>3. At(c, steps)' \in BOOLEAN /\ At(c, steps) \in BOOLEAN
  BY DEF At
<1>4. QED
  BY <1>1, <1>2, <1>3

\* What RowAside and the theorem ask of a row.
RowCarried(c) ==
    /\ decided[c] = 0 => Untouched(c) /\ ~At(c, {"auditing"})
    /\ decided[c] = 1 => Untouched(c) \/ Carried(c)

\* A reviewer that was free takes a row up under a verdict.
LEMMA VerdictCarries ==
    ASSUME ReviewInv, NEW r \in Reviewers, NEW d \in Candidates, NEW c \in Candidates,
           reviewer[r].doing = Free, Approve(r, d) \/ Reject(r, d)
    PROVE  RowCarried(c)'
<1> USE DEF Free
<1>0. /\ ReviewTypeOK /\ 1 \in LibraryIds /\ Free \in Steps /\ "numbering" \in Steps /\ "auditing" \in Steps
      /\ decided[c] \in Nat /\ verdict \in [Candidates -> {"pending", "approved", "rejected"}]
      /\ decided \in [Candidates -> Nat]
  <2>1. ReviewTypeOK /\ 1 \in LibraryIds
    BY ReviewAssumption DEF ReviewInv, LibraryIds
  <2>2. /\ verdict \in [Candidates -> {"pending", "approved", "rejected"}]
        /\ decided \in [Candidates -> Nat]
    BY <2>1 DEF ReviewTypeOK
  <2>3. Free \in Steps /\ "numbering" \in Steps /\ "auditing" \in Steps
    BY DEF Steps
  <2>4. decided[c] \in Nat
    BY <2>2
  <2>5. QED
    BY <2>1, <2>2, <2>3, <2>4
<1>1. UNCHANGED <<library, remembered, torn>>
  BY DEF Approve, Reject
<1>2. PICK v \in {"approved", "rejected"} : Decide(d, v) /\ (v = "approved" => Approve(r, d)) /\ (v = "rejected" => Reject(r, d))
  BY DEF Approve, Reject
<1>3. verdict' = [verdict EXCEPT ![d] = v] /\ decided' = [decided EXCEPT ![d] = decided[d] + 1]
  BY <1>2 DEF Decide
<1>4. PICK step \in Steps : /\ Turn(r, step, d, 1) \/ (step = Free /\ FreeReviewer(r))
                            /\ v = "rejected" => step = "auditing"
                            /\ v = "approved" => step = (IF d \in Publishable THEN "numbering" ELSE Free)
  BY <1>0, <1>2 DEF Approve, Reject
<1>5. CASE d # c
  <2>1. StaysPut(c)
    <3>1. Row(r) = c => reviewer[r].doing = Free
      OBVIOUS
    <3>2. QED
      BY <1>0, <1>4, <1>5, <3>1, MovesElsewhere
  <2>2. verdict'[c] = verdict[c] /\ decided'[c] = decided[c]
    BY <1>0, <1>3, <1>5
  <2>3. Published(c)' = Published(c) /\ (c \in remembered') = (c \in remembered) /\ (c \in torn => c \in torn')
    BY <1>1 DEF Published
  <2>4. QED
    BY <2>1, <2>2, <2>3, RowAside DEF RowCarried, ReviewInv
<1>6. CASE d = c
  <2>1. verdict'[c] = v /\ decided'[c] = decided[c] + 1
    BY <1>0, <1>3, <1>6
  <2>2. CASE decided[c] # 0
    <3>1. decided'[c] # 0 /\ decided'[c] # 1
      BY <1>0, <2>1, <2>2
    <3>2. QED
      BY <3>1 DEF RowCarried
  <2>3. CASE decided[c] = 0
    <3>1. Untouched(c) /\ ~At(c, {"auditing"})
      BY <2>3 DEF ReviewInv, VerdictsCarried
    <3>2. ~Published(c)' /\ c \notin remembered' /\ ~At(c, {"remembering"}) /\ ~At(c, {"numbering", "adding"})
      BY <1>1, <3>1 DEF Untouched, Published, At
    <3>3. \A steps : Free \notin steps => /\ At(c, steps)' => At(c, steps) \/ step \in steps
                                          /\ step \in steps => At(c, steps)'
      BY <1>0, <1>4, <1>6, MovesOneRow
    <3>4. CASE v = "rejected"
      <4>1. ~At(c, {"numbering", "adding", "remembering"})'
        BY <1>4, <3>1, <3>3, <3>4 DEF Untouched
      <4>2. Untouched(c)'
        BY <2>1, <3>2, <3>4, <4>1 DEF Untouched
      <4>3. QED
        BY <2>1, <2>3, <4>2 DEF RowCarried
    <3>5. CASE v = "approved"
      <4>1. ~At(c, {"auditing"})' /\ ~At(c, {"remembering"})'
        BY <1>4, <3>1, <3>2, <3>3, <3>5
      <4>2. At(c, {"numbering", "adding", "remembering"})' => c \in Publishable
        BY <1>4, <1>6, <3>1, <3>3, <3>5 DEF Untouched
      <4>3. c \in Publishable => At(c, {"numbering", "adding"})'
        BY <1>4, <1>6, <3>3, <3>5
      <4>4. Carried(c)'
        BY <2>1, <3>2, <3>5, <4>1, <4>2, <4>3 DEF Carried
      <4>5. QED
        BY <2>1, <2>3, <4>4 DEF RowCarried
    <3>6. QED
      BY <1>2, <3>4, <3>5
  <2>4. QED
    BY <2>2, <2>3
<1>7. QED
  BY <1>5, <1>6

\* A reviewer that has a row in hand moves on with it, or puts it down.
LEMMA HandsCarry ==
    ASSUME ReviewInv, NEW r \in Reviewers, NEW c \in Candidates, reviewer[r].doing # Free,
           \/ \E n \in LibraryIds : ReadNextId(r, n)
           \/ Publish(r)
           \/ PublishCollides(r)
           \/ Remember(r)
           \/ AuditRejection(r)
           \/ ReviewerKilled(r)
    PROVE  RowCarried(c)'
<1>0. /\ ReviewTypeOK /\ 1 \in LibraryIds /\ Row(r) \in Candidates /\ reviewer[r].doing \in Steps
      /\ Free = "free" /\ Steps = {Free, "numbering", "adding", "remembering", "auditing"}
      /\ (reviewer[r].doing = "remembering" => Row(r) \in Antibodies)
  <2>1. ReviewTypeOK /\ RemembersAntibodies /\ 1 \in LibraryIds
    BY ReviewAssumption DEF ReviewInv, LibraryIds
  <2>2. Row(r) \in Candidates /\ reviewer[r].doing \in Steps
    BY <2>1 DEF ReviewTypeOK, Row
  <2>3. Free = "free" /\ Steps = {Free, "numbering", "adding", "remembering", "auditing"}
    BY DEF Steps, Free
  <2>4. QED
    BY <2>1, <2>2, <2>3 DEF RemembersAntibodies
<1>1. decided' = decided /\ (\A d \in Candidates : d # Row(r) => verdict'[d] = verdict[d])
  BY <1>0 DEF ReadNextId, Publish, PublishCollides, Remember, AuditRejection, ReviewerKilled, ReviewTypeOK
<1>2. torn \subseteq torn'
  BY DEF ReadNextId, Publish, PublishCollides, Remember, AuditRejection, ReviewerKilled
<1>3. \E step \in Steps, n \in LibraryIds : Turn(r, step, Row(r), n) \/ (step = Free /\ FreeReviewer(r))
  BY <1>0 DEF ReadNextId, Publish, PublishCollides, Remember, AuditRejection, ReviewerKilled
<1>4. CASE c # Row(r)
  <2>1. StaysPut(c)
    BY <1>0, <1>3, <1>4, MovesElsewhere
  <2>2. Published(c)' = Published(c)
    BY <1>4 DEF Published, ReadNextId, Publish, PublishCollides, Remember, AuditRejection, ReviewerKilled
  <2>3. (c \in remembered') = (c \in remembered)
    BY <1>4 DEF ReadNextId, Publish, PublishCollides, Remember, AuditRejection, ReviewerKilled
  <2>4. QED
    BY <1>1, <1>2, <1>4, <2>1, <2>2, <2>3, RowAside DEF RowCarried, ReviewInv
<1>5. CASE c = Row(r)
  <2>1. At(c, {reviewer[r].doing}) /\ \A steps : reviewer[r].doing \in steps => At(c, steps)
    BY <1>5 DEF At
  <2>2. CASE decided[c] # 1
    <3>1. decided[c] # 0
      <4>1. reviewer[r].doing \in {"numbering", "adding", "remembering"} \/ reviewer[r].doing \in {"auditing"}
        BY <1>0
      <4>2. QED
        BY <2>1, <4>1 DEF ReviewInv, VerdictsCarried, Untouched
    <3>2. QED
      BY <1>1, <2>2, <3>1 DEF RowCarried
  <2>3. CASE decided[c] = 1
    <3>1. Untouched(c) \/ Carried(c)
      BY <2>3 DEF ReviewInv, VerdictsCarried
    \* from where r is, one of the two is left
    <3>2. reviewer[r].doing \in {"numbering", "adding", "remembering"} => Carried(c) /\ c \in Publishable
      BY <2>1, <3>1 DEF Untouched, Carried
    <3>3. reviewer[r].doing = "auditing" => Untouched(c)
      BY <2>1, <3>1 DEF Carried
    <3>4. SUFFICES Untouched(c)' \/ Carried(c)'
      BY <1>1, <2>3 DEF RowCarried
    <3>5. ASSUME NEW n \in LibraryIds, ReadNextId(r, n)
          PROVE  Carried(c)'
      <4>1. reviewer[r].doing = "numbering" /\ Turn(r, "adding", c, n) /\ UNCHANGED <<verdict, library, remembered, torn>>
        BY <1>5, <3>5 DEF ReadNextId
      <4>2. \A steps : Free \notin steps => /\ At(c, steps)' => At(c, steps) \/ "adding" \in steps
                                            /\ "adding" \in steps => At(c, steps)'
                                            /\ At(c, steps) => At(c, steps)' \/ "numbering" \in steps
        BY <1>0, <4>1, MovesOneRow
      <4>3. Carried(c) /\ c \in Publishable
        BY <3>2, <4>1
      <4>4. /\ At(c, {"auditing"})' => At(c, {"auditing"})
            /\ At(c, {"remembering"})' = At(c, {"remembering"})
            /\ At(c, {"numbering", "adding"})'
        <5>1. Free \notin {"auditing"} /\ Free \notin {"remembering"} /\ Free \notin {"numbering", "adding"}
          BY <1>0
        <5>2. At(c, {"remembering"})' \in BOOLEAN /\ At(c, {"remembering"}) \in BOOLEAN
          BY DEF At
        <5>3. QED
          BY <4>2, <5>1, <5>2
      <4>5. Published(c)' = Published(c) /\ verdict'[c] = verdict[c] /\ remembered' = remembered /\ torn' = torn
        BY <4>1 DEF Published
      <4>6. QED
        BY <4>3, <4>4, <4>5 DEF Carried
    <3>6. ASSUME Publish(r)
          PROVE  Carried(c)'
      <4>1. /\ reviewer[r].doing = "adding" /\ UNCHANGED <<verdict, remembered, torn>>
            /\ Published(c)'
        <5>1. /\ reviewer[r].doing = "adding" /\ UNCHANGED <<verdict, remembered, torn>>
              /\ [kind |-> KindOf(c), id |-> reviewer[r].id, of |-> c, live |-> TRUE] \in library'
          BY <1>5, <3>6 DEF Publish
        <5>2. QED
          BY <5>1 DEF Published
      <4>2. PICK step \in {Free, "remembering"} :
               /\ Turn(r, step, c, 1) \/ (step = Free /\ FreeReviewer(r))
               /\ c \in Antibodies => step = "remembering"
        BY <1>5, <3>6 DEF Publish
      <4>3. \A steps : Free \notin steps => /\ At(c, steps)' => At(c, steps) \/ step \in steps
                                            /\ step \in steps => At(c, steps)'
        BY <1>0, <4>2, MovesOneRow
      <4>4. Carried(c) /\ c \in Publishable
        BY <3>2, <4>1
      <4>5. /\ At(c, {"auditing"})' => At(c, {"auditing"})
            /\ c \in Antibodies => At(c, {"remembering"})'
        BY <1>0, <4>2, <4>3
      <4>6. QED
        BY <4>1, <4>4, <4>5 DEF Carried
    <3>7. ASSUME PublishCollides(r)
          PROVE  Carried(c)'
      <4>1. /\ reviewer[r].doing = "adding" /\ UNCHANGED <<verdict, library, remembered>>
            /\ c \in torn' /\ FreeReviewer(r)
        BY <1>5, <3>7 DEF PublishCollides
      <4>2. /\ At(c, {"auditing"})' => At(c, {"auditing"})
            /\ At(c, {"remembering"})' => At(c, {"remembering"})
        BY <1>0, <4>1, MovesOneRow
      <4>3. Published(c)' = Published(c) /\ Carried(c) /\ c \in Publishable
        BY <3>2, <4>1 DEF Published
      <4>4. QED
        BY <4>1, <4>2, <4>3 DEF Carried
    <3>8. ASSUME Remember(r)
          PROVE  Carried(c)'
      <4>1. /\ reviewer[r].doing = "remembering" /\ UNCHANGED <<verdict, library, torn>>
            /\ c \in remembered' /\ FreeReviewer(r)
        BY <1>5, <3>8 DEF Remember
      <4>2. At(c, {"auditing"})' => At(c, {"auditing"})
        BY <1>0, <4>1, MovesOneRow
      <4>3. Carried(c) /\ c \in Publishable /\ At(c, {"remembering"})
        BY <2>1, <3>2, <4>1
      <4>4. Published(c) /\ Published(c)' = Published(c)
        BY <4>1, <4>3 DEF Carried, Published
      <4>5. QED
        BY <4>1, <4>2, <4>3, <4>4 DEF Carried
    <3>9. ASSUME AuditRejection(r)
          PROVE  Untouched(c)'
      <4>1. /\ reviewer[r].doing = "auditing" /\ UNCHANGED <<library, remembered>>
            /\ verdict'[c] = "rejected" /\ FreeReviewer(r)
        BY <1>0, <1>5, <3>9 DEF AuditRejection, ReviewTypeOK
      <4>2. At(c, {"numbering", "adding", "remembering"})' => At(c, {"numbering", "adding", "remembering"})
        BY <1>0, <4>1, MovesOneRow
      <4>3. QED
        BY <3>3, <4>1, <4>2 DEF Untouched, Published
    <3>10. ASSUME ReviewerKilled(r)
           PROVE  Untouched(c)' \/ Carried(c)'
      <4>1. UNCHANGED <<verdict, library, remembered>> /\ c \in torn' /\ FreeReviewer(r)
        BY <1>5, <3>10 DEF ReviewerKilled
      <4>2. /\ At(c, {"auditing"})' => At(c, {"auditing"})
            /\ At(c, {"remembering"})' => At(c, {"remembering"})
            /\ At(c, {"numbering", "adding", "remembering"})' => At(c, {"numbering", "adding", "remembering"})
        BY <1>0, <4>1, MovesOneRow
      <4>3. Published(c)' = Published(c)
        BY <4>1 DEF Published
      <4>4. QED
        BY <3>1, <4>1, <4>2, <4>3 DEF Untouched, Carried
    <3>11. QED
      BY <3>5, <3>6, <3>7, <3>8, <3>9, <3>10
  <2>4. QED
    BY <2>2, <2>3
<1>6. QED
  BY <1>4, <1>5

\* Enacting once more takes up a row that is approved already.
LEMMA EnactingCarries ==
    ASSUME ReviewInv, NEW r \in Reviewers, NEW d \in Candidates, NEW c \in Candidates, EnactAgain(r, d)
    PROVE  RowCarried(c)'
<1>0. /\ ReviewTypeOK /\ 1 \in LibraryIds /\ reviewer[r].doing = Free /\ Free = "free"
      /\ "numbering" \in Steps /\ Turn(r, "numbering", d, 1)
      /\ d \in Enactable /\ verdict[d] = "approved" /\ d \notin Antibodies
      /\ UNCHANGED <<verdict, library, remembered, decided, torn>>
  BY ReviewAssumption DEF ReviewInv, LibraryIds, Steps, Free, EnactAgain
<1>1. Published(c)' = Published(c)
  BY <1>0 DEF Published
<1>2. CASE d # c
  <2>1. StaysPut(c)
    BY <1>0, <1>2, MovesElsewhere
  <2>2. QED
    BY <1>0, <1>1, <2>1, RowAside DEF RowCarried, ReviewInv
<1>3. CASE d = c
  <2>1. decided[c] # 0
    BY <1>0, <1>3 DEF ReviewInv, VerdictsCarried, Untouched
  <2>2. decided[c] = 1 => Carried(c)
    BY <1>0, <1>3 DEF ReviewInv, VerdictsCarried, Untouched
  <2>3. /\ At(c, {"auditing"})' => At(c, {"auditing"})
        /\ At(c, {"remembering"})' => At(c, {"remembering"})
        /\ At(c, {"numbering", "adding"})'
    BY <1>0, <1>3, MovesOneRow
  <2>4. decided[c] = 1 => Carried(c)'
    BY <1>0, <1>1, <1>3, <2>2, <2>3 DEF Carried, Publishable
  <2>5. QED
    BY <1>0, <2>1, <2>4 DEF RowCarried
<1>4. QED
  BY <1>2, <1>3

(***************************************************************************)
(* A verdict takes effect whole, for any reviewers and rows: of a row      *)
(* decided once and in nobody's hand, approved means published and         *)
(* remembered unless the approval was torn, and published means approved.  *)
(***************************************************************************)
THEOREM VerdictTakesEffect == ReviewSpec => []VerdictStands
<1>1. ReviewInit => VerdictsCarried
  <2> SUFFICES ASSUME ReviewInit, NEW c \in Candidates
               PROVE  decided[c] = 0 /\ Untouched(c) /\ ~At(c, {"auditing"})
    BY DEF VerdictsCarried
  <2>1. \A r \in Reviewers : reviewer[r].doing = "free"
    BY IdleIsAStep DEF ReviewInit, Free
  <2>2. \A steps : "free" \notin steps => ~At(c, steps)
    BY <2>1 DEF At
  <2>3. QED
    BY <2>2 DEF ReviewInit, Untouched, Published
<1>2. ReviewInv /\ [ReviewNext]_reviewVars => VerdictsCarried'
  <2> SUFFICES ASSUME ReviewInv, [ReviewNext]_reviewVars, NEW c \in Candidates
               PROVE  RowCarried(c)'
    BY DEF VerdictsCarried, RowCarried
  <2>1. ASSUME NEW r \in Reviewers, NEW d \in Candidates, Approve(r, d) \/ Reject(r, d)
        PROVE  RowCarried(c)'
    BY <2>1, VerdictCarries DEF Approve, Reject
  <2>2. ASSUME NEW r \in Reviewers, NEW d \in Candidates, EnactAgain(r, d)
        PROVE  RowCarried(c)'
    BY <2>2, EnactingCarries
  <2>3. ASSUME NEW r \in Reviewers,
               \/ \E n \in LibraryIds : ReadNextId(r, n)
               \/ Publish(r)
               \/ PublishCollides(r)
               \/ Remember(r)
               \/ AuditRejection(r)
               \/ ReviewerKilled(r)
        PROVE  RowCarried(c)'
    <3>1. reviewer[r].doing # Free
      BY <2>3 DEF Free, ReadNextId, Publish, PublishCollides, Remember, AuditRejection, ReviewerKilled
    <3>2. QED
      BY <2>3, <3>1, HandsCarry
  <2>4. ASSUME NEW e \in library, RevokeAntibody(e)
        PROVE  RowCarried(c)'
    <3>1. UNCHANGED <<verdict, remembered, reviewer, decided, torn>>
      BY <2>4 DEF RevokeAntibody
    <3>2. Published(c)' = Published(c)
      <4> DEFINE withdrawn == [e EXCEPT !.live = FALSE]
      <4>1. withdrawn.of = e.of
        BY DEF ReviewInv, ReviewTypeOK
      <4>2. library' = (library \ {e}) \cup {withdrawn}
        BY <2>4 DEF RevokeAntibody
      <4> HIDE DEF withdrawn
      <4>3. QED
        BY <4>1, <4>2 DEF Published
    <3>3. StaysPut(c)
      BY <3>1 DEF StaysPut, At, Row
    <3>4. QED
      BY <3>1, <3>2, <3>3, RowAside DEF RowCarried, ReviewInv
  <2>5. CASE UNCHANGED reviewVars
    <3>1. UNCHANGED <<verdict, library, remembered, reviewer, decided, torn>>
      BY <2>5 DEF reviewVars
    <3>2. Published(c)' = Published(c) /\ StaysPut(c)
      BY <3>1 DEF Published, StaysPut, At, Row
    <3>3. QED
      BY <3>1, <3>2, RowAside DEF RowCarried, ReviewInv
  <2>6. QED
    BY <2>1, <2>2, <2>3, <2>4, <2>5 DEF ReviewNext
<1>3. ReviewInv => VerdictStands
  <2> SUFFICES ASSUME ReviewInv, NEW c \in Candidates, ~InHand(c), decided[c] <= 1
               PROVE  /\ verdict[c] = "approved" /\ c \in Publishable /\ c \notin torn
                            => Published(c) /\ (c \in Antibodies => c \in remembered)
                      /\ Published(c) \/ c \in remembered => verdict[c] = "approved"
    BY DEF VerdictStands
  <2>1. ~At(c, {"numbering", "adding"}) /\ ~At(c, {"remembering"})
    BY DEF InHand, At, Free
  <2>2. decided[c] = 0 \/ decided[c] = 1
    <3>1. decided[c] \in Nat
      BY DEF ReviewInv, ReviewTypeOK
    <3>2. QED
      BY <3>1
  <2>3. Untouched(c) \/ Carried(c)
    BY <2>2 DEF ReviewInv, VerdictsCarried
  <2>4. QED
    BY <2>1, <2>3 DEF Untouched, Carried
<1>4. QED
  BY <1>1, <1>2, <1>3, ReviewTypeCorrect, PTL DEF ReviewSpec, ReviewInv

-----------------------------------------------------------------------------
(***************************************************************************)
(* The types of ProjectMemory, and that trust is earned, for any projects, *)
(* names and entries. The argument: an entry names the project that made   *)
(* it wherever it travels - row, exported file, import under way           *)
(* (SourcesAreTrue) -, so that a row trusted on arrival was made under the *)
(* name of the project it arrives in.                                      *)
(***************************************************************************)

(***************************************************************************)
(* The types of every variable, for any constants that satisfy             *)
(* MemoryAssumption.                                                       *)
(***************************************************************************)
THEOREM MemoryTypeCorrect == MemorySpec => []MemoryTypeOK
<1>1. MemoryInit => MemoryTypeOK
  BY EmptySeq DEF MemoryInit, MemoryTypeOK
<1>2. MemoryTypeOK /\ [MemoryNext]_memoryVars => MemoryTypeOK'
  <2> SUFFICES ASSUME MemoryTypeOK, [MemoryNext]_memoryVars
               PROVE  MemoryTypeOK'
    OBVIOUS
  <2> USE MemoryAssumption DEF MemoryTypeOK
  <2>1. ASSUME NEW p \in Projects, NEW e \in Entry, Insert(p, e)
        PROVE  memory' \in [Projects -> Seq(MemoryRow)]
    <3>1. Arrival(p, e) \in MemoryRow
      BY DEF Arrival, Entry, MemoryRow
    <3>2. Append(memory[p], Arrival(p, e)) \in Seq(MemoryRow)
      BY <3>1, AppendHolds
    <3>3. QED
      BY <2>1, <3>2 DEF Insert
  <2>2. ASSUME NEW p \in Projects, NEW e \in Entries, NEW at \in MemoryStamps, CreateEntry(p, e, at)
        PROVE  MemoryTypeOK'
    <3>1. [id |-> e, source |-> NameOf[p], created |-> at] \in Entry
      BY DEF Entry
    <3>2. memory' \in [Projects -> Seq(MemoryRow)]
      BY <2>1, <2>2, <3>1 DEF CreateEntry
    <3>3. QED
      BY <2>2, <3>2 DEF CreateEntry
  <2>3. ASSUME NEW p \in Projects, Export(p)
        PROVE  MemoryTypeOK'
    <3> DEFINE file == [i \in DOMAIN memory[p] |->
                  [id |-> memory[p][i].id, source |-> memory[p][i].source, created |-> memory[p][i].created]]
    <3>1. \A i \in DOMAIN memory[p] : memory[p][i] \in MemoryRow
      BY ElementOfSeq, LenProperties
    <3>2. \A i \in DOMAIN memory[p] : file[i] \in Entry
      BY <3>1 DEF MemoryRow, Entry
    <3>3. DOMAIN file = DOMAIN memory[p] /\ file = [i \in DOMAIN memory[p] |-> file[i]]
      OBVIOUS
    <3> HIDE DEF file
    <3>4. file \in Seq(Entry)
      <4>1. memory[p] \in Seq(MemoryRow)
        OBVIOUS
      <4>2. QED
        BY ONLY <3>2, <3>3, <4>1, RewriteHolds
    <3>5. artifact' = [artifact EXCEPT ![p] = file]
      BY <2>3 DEF Export, file
    <3>6. UNCHANGED <<memory, importing, creator, verifiedAt>>
      BY <2>3 DEF Export
    <3>7. QED
      BY <3>4, <3>5, <3>6
  <2>4. ASSUME NEW p \in Projects, NEW q \in Projects, StartImport(p, q)
        PROVE  MemoryTypeOK'
    BY <2>4 DEF StartImport
  <2>5. ASSUME NEW p \in Projects, ImportEntry(p)
        PROVE  MemoryTypeOK'
    <3>1. Head(importing[p]) \in Entry /\ Tail(importing[p]) \in Seq(Entry)
      BY <2>5, HeadTailProperties DEF ImportEntry
    <3>2. memory' \in [Projects -> Seq(MemoryRow)]
      BY <2>1, <2>5, <3>1 DEF ImportEntry
    <3>3. QED
      BY <2>5, <3>1, <3>2 DEF ImportEntry
  <2>6. ASSUME NEW p \in Projects, ImportKilled(p)
        PROVE  MemoryTypeOK'
    BY <2>6, EmptySeq DEF ImportKilled
  <2>7. ASSUME NEW p \in Projects, NEW e \in Entries, VerifyEntry(p, e)
        PROVE  MemoryTypeOK'
    <3> DEFINE after == [i \in DOMAIN memory[p] |->
                   IF memory[p][i].id = e THEN [memory[p][i] EXCEPT !.trusted = TRUE] ELSE memory[p][i]]
    <3>1. \A i \in DOMAIN memory[p] : memory[p][i] \in MemoryRow
      BY ElementOfSeq, LenProperties
    <3>2. \A i \in DOMAIN memory[p] : after[i] \in MemoryRow
      BY <3>1 DEF MemoryRow
    <3>3. DOMAIN after = DOMAIN memory[p] /\ after = [i \in DOMAIN memory[p] |-> after[i]]
      OBVIOUS
    <3> HIDE DEF after
    <3>4. after \in Seq(MemoryRow)
      BY <3>2, <3>3, RewriteHolds
    <3>5. memory' = [memory EXCEPT ![p] = after]
      BY <2>7 DEF VerifyEntry, after
    <3>6. UNCHANGED <<artifact, importing, creator>> /\ verifiedAt' \subseteq Projects \X Entries
      BY <2>7 DEF VerifyEntry
    <3>7. QED
      BY <3>4, <3>5, <3>6
  <2>8. CASE UNCHANGED memoryVars
    BY <2>8 DEF memoryVars
  <2>9. QED
    BY <2>2, <2>3, <2>4, <2>5, <2>6, <2>7, <2>8 DEF MemoryNext
<1>3. QED
  BY <1>1, <1>2, PTL DEF MemorySpec

-----------------------------------------------------------------------------
\* SourcesAreTrue, said of what the rows, files and imports hold.
TrueBy(who, e) == who[e.id] # Nobody /\ e.source = NameOf[who[e.id]]

MemoryInv ==
    /\ MemoryTypeOK
    /\ SourcesAreTrue
    /\ TrustIsEarned

LEMMA SourcesOfHeld ==
    SourcesAreTrue <=> \A p \in Projects :
        /\ \A e \in Held(memory[p]) : TrueBy(creator, e)
        /\ \A e \in Held(artifact[p]) : TrueBy(creator, e)
        /\ \A e \in Held(importing[p]) : TrueBy(creator, e)
BY DEF SourcesAreTrue, Rows, Held, TrueBy

\* A true entry that arrives leaves its project's rows true and their trust
\* earned: it is trusted only if the name of its maker is the project's.
LEMMA ArrivalIsTrue ==
    ASSUME MemoryTypeOK, NEW p \in Projects, NEW e \in Entry, Insert(p, e),
           \A q \in Projects : \A r \in Held(memory[q]) : TrueBy(creator', r),
           TrueBy(creator', e),
           \A q \in Projects : \A r \in Held(memory[q]) :
              r.trusted => NameOf[creator'[r.id]] = NameOf[q] \/ <<q, r.id>> \in verifiedAt'
    PROVE  /\ \A q \in Projects : \A r \in Held(memory'[q]) : TrueBy(creator', r)
           /\ TrustIsEarned'
<1>1. CASE memory' = memory
  BY <1>1 DEF TrustIsEarned, Rows, Held, TrueBy
<1>2. CASE memory' = [memory EXCEPT ![p] = Append(@, Arrival(p, e))]
  <2> DEFINE row == Arrival(p, e)
  <2>1. row \in MemoryRow /\ row.id = e.id /\ row.source = e.source
        /\ row.trusted = (e.source = NameOf[p])
    BY DEF Arrival, MemoryRow, Entry
  <2>2. /\ memory'[p] = Append(memory[p], row)
        /\ \A q \in Projects \ {p} : memory'[q] = memory[q]
        /\ memory[p] \in Seq(MemoryRow)
    BY <1>2 DEF MemoryTypeOK
  <2> HIDE DEF row
  <2>3. Held(memory'[p]) = Held(memory[p]) \cup {row}
    BY <2>1, <2>2, AppendHolds
  <2>4. \A q \in Projects : \A r \in Held(memory'[q]) : r \in Held(memory[q]) \/ (q = p /\ r = row)
    BY <2>2, <2>3
  <2>5. TrueBy(creator', row) /\ (row.trusted => NameOf[creator'[row.id]] = NameOf[p])
    BY <2>1 DEF TrueBy
  <2>6. \A q \in Projects : \A r \in Held(memory'[q]) : TrueBy(creator', r)
    BY <2>4, <2>5
  <2>7. \A q \in Projects : \A r \in Held(memory'[q]) :
           r.trusted => NameOf[creator'[r.id]] = NameOf[q] \/ <<q, r.id>> \in verifiedAt'
    BY <2>4, <2>5
  <2>8. QED
    BY <2>6, <2>7 DEF TrustIsEarned, Rows, Held
<1>3. QED
  BY <1>1, <1>2 DEF Insert

(***************************************************************************)
(* No chain of exports and imports passes trust on: a trusted row was made *)
(* under the project's own name or verified in the project.                *)
(***************************************************************************)
THEOREM TrustIsNotPassedOn == MemorySpec => []TrustIsEarned
<1>1. MemoryInit => SourcesAreTrue /\ TrustIsEarned
  BY DEF MemoryInit, SourcesAreTrue, TrustIsEarned, Rows
<1>2. MemoryInv /\ [MemoryNext]_memoryVars => (SourcesAreTrue /\ TrustIsEarned)'
  <2> SUFFICES ASSUME MemoryInv, [MemoryNext]_memoryVars
               PROVE  SourcesAreTrue' /\ TrustIsEarned'
    OBVIOUS
  <2>1. /\ \A p \in Projects : \A e \in Held(memory[p]) : TrueBy(creator, e)
        /\ \A p \in Projects : \A e \in Held(artifact[p]) : TrueBy(creator, e)
        /\ \A p \in Projects : \A e \in Held(importing[p]) : TrueBy(creator, e)
        /\ \A p \in Projects : \A r \in Held(memory[p]) :
              r.trusted => NameOf[creator[r.id]] = NameOf[p] \/ <<p, r.id>> \in verifiedAt
        /\ MemoryTypeOK
    BY SourcesOfHeld DEF MemoryInv, TrustIsEarned, Rows, Held
  \* it is enough to look at what the sequences hold afterwards
  <2>2. ASSUME \A p \in Projects : \A e \in Held(memory'[p]) : TrueBy(creator', e),
               \A p \in Projects : \A e \in Held(artifact'[p]) : TrueBy(creator', e),
               \A p \in Projects : \A e \in Held(importing'[p]) : TrueBy(creator', e)
        PROVE  SourcesAreTrue'
    BY <2>2 DEF SourcesAreTrue, Rows, Held, TrueBy
  <2>3. ASSUME NEW p \in Projects, NEW e \in Entries, NEW at \in MemoryStamps, CreateEntry(p, e, at)
        PROVE  SourcesAreTrue' /\ TrustIsEarned'
    <3> DEFINE entry == [id |-> e, source |-> NameOf[p], created |-> at]
    <3>1. /\ creator[e] = Nobody /\ creator' = [creator EXCEPT ![e] = p]
          /\ Insert(p, entry) /\ UNCHANGED <<artifact, importing, verifiedAt>>
      BY <2>3 DEF CreateEntry
    <3>2. ASSUME NEW x, TrueBy(creator, x)
          PROVE  TrueBy(creator', x) /\ creator'[x.id] = creator[x.id]
      <4>1. x.id # e
        BY <3>1, <3>2 DEF TrueBy
      <4>2. creator'[x.id] = creator[x.id]
        BY <3>1, <4>1, <2>1 DEF MemoryTypeOK
      <4>3. QED
        BY <3>2, <4>2 DEF TrueBy
    <3>3. entry \in Entry /\ TrueBy(creator', entry)
      <4>1. creator'[e] = p /\ p # Nobody
        BY <2>1, <3>1, MemoryAssumption DEF MemoryTypeOK
      <4>2. QED
        BY <4>1, MemoryAssumption DEF Entry, TrueBy
    <3> HIDE DEF entry
    <3>4. /\ \A q \in Projects : \A r \in Held(memory'[q]) : TrueBy(creator', r)
          /\ TrustIsEarned'
      BY <2>1, <3>1, <3>2, <3>3, ArrivalIsTrue
    <3>5. QED
      BY <2>1, <2>2, <3>1, <3>2, <3>4
  <2>4. ASSUME NEW p \in Projects, Export(p)
        PROVE  SourcesAreTrue' /\ TrustIsEarned'
    <3> DEFINE file == [i \in DOMAIN memory[p] |->
                  [id |-> memory[p][i].id, source |-> memory[p][i].source, created |-> memory[p][i].created]]
    <3>a. /\ DOMAIN file = DOMAIN memory[p]
          /\ \A i \in DOMAIN memory[p] : file[i].id = memory[p][i].id /\ file[i].source = memory[p][i].source
      OBVIOUS
    <3>b. artifact' = [artifact EXCEPT ![p] = file]
      BY <2>4 DEF Export
    <3> HIDE DEF file
    <3>1. \A q \in Projects : \A e \in Held(artifact'[q]) :
             \/ e \in Held(artifact[q])
             \/ \E r \in Held(memory[p]) : e.id = r.id /\ e.source = r.source
      <4>1. \A q \in Projects : artifact'[q] = artifact[q] \/ artifact'[q] = file
        BY <2>1, <3>b DEF MemoryTypeOK
      <4>2. \A e \in Held(file) : \E r \in Held(memory[p]) : e.id = r.id /\ e.source = r.source
        BY <3>a DEF Held
      <4>3. QED
        BY <4>1, <4>2
    <3>2. UNCHANGED <<memory, importing, creator, verifiedAt>>
      BY <2>4 DEF Export
    <3>3. \A q \in Projects : \A e \in Held(artifact'[q]) : TrueBy(creator', e)
      BY <2>1, <3>1, <3>2 DEF TrueBy
    <3>4. QED
      BY <2>1, <2>2, <3>2, <3>3 DEF MemoryInv, TrustIsEarned, Rows, TrueBy
  <2>5. ASSUME NEW p \in Projects, NEW q \in Projects, StartImport(p, q)
        PROVE  SourcesAreTrue' /\ TrustIsEarned'
    <3>1. \A k \in Projects : importing'[k] = importing[k] \/ importing'[k] = artifact[q]
      BY <2>1, <2>5 DEF StartImport, MemoryTypeOK
    <3>2. UNCHANGED <<memory, artifact, creator, verifiedAt>>
      BY <2>5 DEF StartImport
    <3>3. \A k \in Projects : \A e \in Held(importing'[k]) : TrueBy(creator', e)
      BY <2>1, <3>1, <3>2 DEF TrueBy
    <3>4. QED
      BY <2>1, <2>2, <3>2, <3>3 DEF MemoryInv, TrustIsEarned, Rows, TrueBy
  <2>6. ASSUME NEW p \in Projects, ImportEntry(p)
        PROVE  SourcesAreTrue' /\ TrustIsEarned'
    <3>e. PICK e : e = Head(importing[p])
      OBVIOUS
    <3>1. /\ importing[p] \in Seq(Entry) /\ importing[p] # <<>>
          /\ importing' = [importing EXCEPT ![p] = Tail(@)]
          /\ memory' = memory \/ Insert(p, e)
          /\ UNCHANGED <<artifact, creator, verifiedAt>>
      BY <2>1, <2>6, <3>e DEF ImportEntry, MemoryTypeOK
    <3>2. e \in Held(importing[p]) /\ e \in Entry /\ Held(Tail(importing[p])) \subseteq Held(importing[p])
      BY <3>1, <3>e, TailHolds, HeadTailProperties
    <3>3. \A k \in Projects : \A x \in Held(importing'[k]) : TrueBy(creator', x)
      <4>1. \A k \in Projects : Held(importing'[k]) \subseteq Held(importing[k])
        BY <2>1, <3>1, <3>2 DEF MemoryTypeOK
      <4>2. QED
        BY <2>1, <3>1, <4>1 DEF TrueBy
    <3>4. \A k \in Projects : \A x \in Held(artifact'[k]) : TrueBy(creator', x)
      BY <2>1, <3>1 DEF TrueBy
    <3>5. CASE memory' = memory
      BY <2>1, <2>2, <3>1, <3>3, <3>4, <3>5 DEF MemoryInv, TrustIsEarned, Rows, TrueBy
    <3>6. CASE Insert(p, e)
      <4>1. TrueBy(creator', e) /\ \A k \in Projects : \A r \in Held(memory[k]) : TrueBy(creator', r)
        BY <2>1, <3>1, <3>2 DEF TrueBy
      <4>2. /\ \A k \in Projects : \A r \in Held(memory'[k]) : TrueBy(creator', r)
            /\ TrustIsEarned'
        BY <2>1, <3>1, <3>2, <3>6, <4>1, ArrivalIsTrue
      <4>3. QED
        BY <2>2, <3>3, <3>4, <4>2
    <3>7. QED
      BY <3>1, <3>5, <3>6
  <2>7. ASSUME NEW p \in Projects, ImportKilled(p)
        PROVE  SourcesAreTrue' /\ TrustIsEarned'
    <3>1. \A k \in Projects : importing'[k] = importing[k] \/ importing'[k] = <<>>
      BY <2>1, <2>7 DEF ImportKilled, MemoryTypeOK
    <3>2. UNCHANGED <<memory, artifact, creator, verifiedAt>>
      BY <2>7 DEF ImportKilled
    <3>3. \A k \in Projects : \A e \in Held(importing'[k]) : TrueBy(creator', e)
      <4>1. Held(<<>>) = {}
        BY DEF Held
      <4>2. QED
        BY <2>1, <3>1, <3>2, <4>1 DEF TrueBy
    <3>4. QED
      BY <2>1, <2>2, <3>2, <3>3 DEF MemoryInv, TrustIsEarned, Rows, TrueBy
  <2>8. ASSUME NEW p \in Projects, NEW e \in Entries, VerifyEntry(p, e)
        PROVE  SourcesAreTrue' /\ TrustIsEarned'
    <3>1. \A i \in DOMAIN memory[p] : memory[p][i] \in MemoryRow
      BY <2>1, ElementOfSeq, LenProperties DEF MemoryTypeOK
    <3> DEFINE after == [i \in DOMAIN memory[p] |->
                   IF memory[p][i].id = e THEN [memory[p][i] EXCEPT !.trusted = TRUE] ELSE memory[p][i]]
    <3>a. \A i \in DOMAIN memory[p] :
             \/ after[i] = memory[p][i]
             \/ after[i].id = e /\ after[i].id = memory[p][i].id /\ after[i].source = memory[p][i].source
      BY <3>1 DEF MemoryRow
    <3>b. DOMAIN after = DOMAIN memory[p] /\ memory' = [memory EXCEPT ![p] = after]
      BY <2>8 DEF VerifyEntry
    <3> HIDE DEF after
    <3>2. \A q \in Projects : \A x \in Held(memory'[q]) :
             \/ x \in Held(memory[q])
             \/ q = p /\ x.id = e /\ \E r \in Held(memory[p]) : x.id = r.id /\ x.source = r.source
      <4>1. \A q \in Projects : memory'[q] = memory[q] \/ (q = p /\ memory'[q] = after)
        BY <2>1, <3>b DEF MemoryTypeOK
      <4>2. \A x \in Held(after) :
               \/ x \in Held(memory[p])
               \/ x.id = e /\ \E r \in Held(memory[p]) : x.id = r.id /\ x.source = r.source
        BY <3>a, <3>b DEF Held
      <4>3. QED
        BY <4>1, <4>2
    <3>3. verifiedAt' = verifiedAt \cup {<<p, e>>} /\ UNCHANGED <<artifact, importing, creator>>
      BY <2>8 DEF VerifyEntry
    <3>4. \A q \in Projects : \A x \in Held(memory'[q]) : TrueBy(creator', x)
      BY <2>1, <3>2, <3>3 DEF TrueBy
    <3>5. \A q \in Projects : \A x \in Held(memory'[q]) :
             x.trusted => NameOf[creator'[x.id]] = NameOf[q] \/ <<q, x.id>> \in verifiedAt'
      BY <2>1, <3>2, <3>3
    <3>6. TrustIsEarned'
      BY <3>5 DEF TrustIsEarned, Rows, Held
    <3>7. QED
      BY <2>1, <2>2, <3>3, <3>4, <3>6 DEF TrueBy
  <2>9. CASE UNCHANGED memoryVars
    BY <2>9 DEF memoryVars, MemoryInv, SourcesAreTrue, TrustIsEarned, Rows
  <2>10. QED
    BY <2>3, <2>4, <2>5, <2>6, <2>7, <2>8, <2>9 DEF MemoryNext
<1>3. QED
  BY <1>1, <1>2, MemoryTypeCorrect, PTL DEF MemorySpec, MemoryInv

-----------------------------------------------------------------------------
(***************************************************************************)
(* Of Migrations, that nobody opens a half-migrated store, for any scripts *)
(* that drop a table before they say anything else of it, any openers and  *)
(* any kills. NeverOpensTorn is not inductive: it says nothing of a store  *)
(* on its way. MigrationInv does: a schema lies between what the recorded  *)
(* scripts leave of it and what the next one adds, whoever is behind the   *)
(* record finds everything he could make made (and so fails), and whoever  *)
(* works on the next script finds his own statements still in force.       *)
(***************************************************************************)

Recorded == Cardinality(versions)

MadeBy(v) == {x \in Parts : v \in DOMAIN Scripts /\ \E i \in DOMAIN Scripts[v] : Makes(Scripts[v][i], x)}

DroppedBy(v, x) == v \in DOMAIN Scripts /\ \E i \in DOMAIN Scripts[v] : Drops(Scripts[v][i], x)

\* each opener works on a version whose predecessors are on record
OpenersInOrder ==
    \A o \in Openers :
        /\ opener[o].at = "open" => versions = DOMAIN Scripts
        /\ opener[o].at = "migrating" =>
              opener[o].version <= Recorded + 1 /\ opener[o].step <= Len(Work(opener[o].version))

\* the schema between two versions
SchemaBetween ==
    /\ schema \subseteq SchemaAfter(Recorded) \cup MadeBy(Recorded + 1)
    /\ \A x \in SchemaAfter(Recorded) : x \in schema \/ DroppedBy(Recorded + 1, x)

\* an opener that is behind the record can make nothing
BehindIsMade ==
    \A o \in Openers : opener[o].at = "migrating" /\ opener[o].version <= Recorded =>
        MadeBy(opener[o].version) \subseteq schema

\* what a statement of version v did is still so
InForce(s, v) ==
    \A x \in Parts : /\ Makes(s, x) => x \in schema
                     /\ Drops(s, x) /\ x \in schema => x \in MadeBy(v)

OwnWorkStands ==
    \A o \in Openers : opener[o].at = "migrating" /\ opener[o].version = Recorded + 1 =>
        \A i \in DOMAIN Scripts[opener[o].version] :
            i < opener[o].step => InForce(Scripts[opener[o].version][i], opener[o].version)

MigrationInv ==
    /\ MigrationTypeOK
    /\ versions = 1 .. Recorded /\ Recorded \in 0 .. Len(Scripts)
    /\ OpenersInOrder
    /\ contested \/ (SchemaBetween /\ BehindIsMade /\ OwnWorkStands)

\* A set of the first n numbers has n members.
LEMMA FirstNumbers ==
    ASSUME NEW n \in Nat
    PROVE  Cardinality(1 .. n) = n
<1>1. 1 \in Int /\ n \in Int
  OBVIOUS
<1>2. Cardinality(1 .. n) = IF 1 > n THEN 0 ELSE n - 1 + 1
  BY Zenon, <1>1, FS_Interval
<1>3. QED
  BY <1>2

\* The statements of a version, and the record after them.
LEMMA ScriptFacts ==
    /\ Len(Scripts) \in Nat /\ Len(Scripts) >= 1 /\ DOMAIN Scripts = 1 .. Len(Scripts)
    /\ \A v \in DOMAIN Scripts :
          /\ Len(Scripts[v]) \in Nat /\ DOMAIN Scripts[v] = 1 .. Len(Scripts[v])
          /\ Len(Work(v)) = Len(Scripts[v]) + 1
          /\ \A i \in DOMAIN Scripts[v] :
                /\ Work(v)[i] = Scripts[v][i]
                /\ Scripts[v][i].kind \in {"create", "drop", "part"}
                /\ <<Scripts[v][i].table, Scripts[v][i].name>> \in Parts
          /\ Work(v)[Len(Scripts[v]) + 1] = Recording(v)
<1>1. Scripts \in Seq(Seq(Statements)) /\ Scripts # <<>>
  BY MigrationAssumption
<1>2. Len(Scripts) \in Nat /\ DOMAIN Scripts = 1 .. Len(Scripts) /\ \A v \in DOMAIN Scripts : Scripts[v] \in Seq(Statements)
  BY <1>1, Positions
<1>3. Len(Scripts) >= 1
  <2>1. Len(Scripts) # 0
    BY <1>1, EmptySeq
  <2>2. QED
    BY <1>2, <2>1
<1>4. ASSUME NEW v \in DOMAIN Scripts
      PROVE  /\ Len(Scripts[v]) \in Nat /\ DOMAIN Scripts[v] = 1 .. Len(Scripts[v])
             /\ Len(Work(v)) = Len(Scripts[v]) + 1
             /\ \A i \in DOMAIN Scripts[v] :
                   /\ Work(v)[i] = Scripts[v][i]
                   /\ Scripts[v][i].kind \in {"create", "drop", "part"}
                   /\ <<Scripts[v][i].table, Scripts[v][i].name>> \in Parts
             /\ Work(v)[Len(Scripts[v]) + 1] = Recording(v)
  <2> DEFINE Listed == Statements \cup {Recording(v)}
  <2>1. /\ Len(Scripts[v]) \in Nat /\ DOMAIN Scripts[v] = 1 .. Len(Scripts[v])
        /\ \A i \in DOMAIN Scripts[v] : Scripts[v][i] \in Statements
    BY <1>2, Positions
  <2>2. Scripts[v] \in Seq(Listed)
    BY <2>1, <1>2, SeqDef
  <2>3. Recording(v) \in Listed
    OBVIOUS
  <2> HIDE DEF Listed
  <2>4. /\ Len(Append(Scripts[v], Recording(v))) = Len(Scripts[v]) + 1
        /\ \A i \in DOMAIN Scripts[v] : Append(Scripts[v], Recording(v))[i] = Scripts[v][i]
        /\ Append(Scripts[v], Recording(v))[Len(Scripts[v]) + 1] = Recording(v)
    BY <2>2, <2>3, AppendGrows
  <2>5. \A i \in DOMAIN Scripts[v] : /\ Scripts[v][i].kind \in {"create", "drop", "part"}
                                     /\ <<Scripts[v][i].table, Scripts[v][i].name>> \in Parts
    BY <2>1, MigrationAssumption DEF Parts
  <2>6. QED
    BY <2>1, <2>4, <2>5 DEF Work
<1>5. QED
  BY <1>2, <1>3, <1>4

\* No version takes more statements than the longest.
LEMMA LongestBounds ==
    Longest \in Nat /\ \A v \in DOMAIN Scripts : Len(Work(v)) <= Longest
<1> DEFINE N == Len(Scripts)
           f == [v \in 1 .. N |-> Len(Work(v))]
<1>1. /\ N \in Nat /\ N >= 1 /\ DOMAIN Scripts = 1 .. N
      /\ \A v \in 1 .. N : Len(Work(v)) \in Nat
  BY ScriptFacts
<1> HIDE DEF N
<1>2. \A v \in 1 .. N : f[v] = Len(Work(v))
  OBVIOUS
<1> HIDE DEF f
<1>3. PICK m \in 1 .. N : \A v \in 1 .. N : f[v] <= f[m]
  <2>1. N \in Nat \ {0} /\ \A v \in 1 .. N : f[v] \in Nat
    BY <1>1, <1>2
  <2>2. QED
    BY <2>1, LargestValue
<1> DEFINE Lengths == {Len(Work(v)) : v \in DOMAIN Scripts}
<1>4. Len(Work(m)) \in Lengths /\ \A k \in Lengths : Len(Work(m)) >= k
  BY <1>1, <1>2, <1>3
<1>5. Longest = CHOOSE k \in Lengths : \A j \in Lengths : k >= j
  BY DEF Longest, Max
<1>6. Longest \in Lengths /\ \A k \in Lengths : Longest >= k
  <2> HIDE DEF Lengths
  <2>1. QED
    BY <1>4, <1>5
<1>7. QED
  BY <1>1, <1>6

\* A version takes away what it drops and adds what it makes.
LEMMA NextVersion ==
    ASSUME NEW r \in 0 .. Len(Scripts) - 1
    PROVE  /\ r + 1 \in DOMAIN Scripts
           /\ SchemaAfter(r + 1) = MadeBy(r + 1) \cup {x \in SchemaAfter(r) : ~DroppedBy(r + 1, x)}
<1>0. /\ Len(Scripts) \in Nat /\ DOMAIN Scripts = 1 .. Len(Scripts)
      /\ \A v \in DOMAIN Scripts : DOMAIN Scripts[v] \subseteq Nat
  BY ScriptFacts
<1>1. r + 1 \in DOMAIN Scripts /\ r \in Nat
  BY <1>0
<1>2. ASSUME NEW x \in SchemaAfter(r + 1) PROVE x \in MadeBy(r + 1) \/ (x \in SchemaAfter(r) /\ ~DroppedBy(r + 1, x))
  <2>1. x \in Parts
    BY DEF SchemaAfter
  <2>2. PICK v \in 1 .. r + 1 : \E i \in DOMAIN Scripts[v] :
            /\ Makes(Scripts[v][i], x)
            /\ \A w \in v .. r + 1 : \A j \in DOMAIN Scripts[w] :
                  w # v \/ j > i => ~Drops(Scripts[w][j], x)
    BY DEF SchemaAfter
  <2>3. PICK i \in DOMAIN Scripts[v] :
            /\ Makes(Scripts[v][i], x)
            /\ \A w \in v .. r + 1 : \A j \in DOMAIN Scripts[w] :
                  w # v \/ j > i => ~Drops(Scripts[w][j], x)
    BY <2>2
  <2>4. CASE v = r + 1
    BY <1>1, <2>1, <2>3, <2>4 DEF MadeBy
  <2>5. CASE v # r + 1
    <3>1. v \in 1 .. r /\ r + 1 \in v .. r + 1 /\ \A w \in v .. r : w \in v .. r + 1
      BY <1>1, <2>5
    <3>2. ~DroppedBy(r + 1, x)
      BY <2>3, <2>5, <3>1 DEF DroppedBy
    <3>3. x \in SchemaAfter(r)
      BY <2>1, <2>3, <3>1 DEF SchemaAfter
    <3>4. QED
      BY <3>2, <3>3
  <2>6. QED
    BY <2>4, <2>5
<1>3. ASSUME NEW x \in MadeBy(r + 1) PROVE x \in SchemaAfter(r + 1)
  <2>1. PICK i \in DOMAIN Scripts[r + 1] : x \in Parts /\ Makes(Scripts[r + 1][i], x)
    BY DEF MadeBy
  <2>2. ASSUME NEW j \in DOMAIN Scripts[r + 1], j > i PROVE ~Drops(Scripts[r + 1][j], x)
    <3>1. i < j
      BY <1>0, <1>1, <2>2
    <3>2. x[1] = Scripts[r + 1][i].table
      BY <2>1 DEF Makes
    <3>3. QED
      BY <1>1, <3>1, <3>2, DropsComeFirst DEF Drops
  <2>3. r + 1 \in 1 .. r + 1 /\ \A w \in r + 1 .. r + 1 : w = r + 1
    BY <1>1
  <2>4. QED
    BY <2>1, <2>2, <2>3 DEF SchemaAfter
<1>4. ASSUME NEW x \in SchemaAfter(r), ~DroppedBy(r + 1, x) PROVE x \in SchemaAfter(r + 1)
  <2>1. x \in Parts
    BY DEF SchemaAfter
  <2>2. PICK v \in 1 .. r : \E i \in DOMAIN Scripts[v] :
            /\ Makes(Scripts[v][i], x)
            /\ \A w \in v .. r : \A j \in DOMAIN Scripts[w] :
                  w # v \/ j > i => ~Drops(Scripts[w][j], x)
    BY DEF SchemaAfter
  <2>3. v \in 1 .. r + 1 /\ \A w \in v .. r + 1 : w \in v .. r \/ w = r + 1
    BY <1>1
  <2>4. \A j \in DOMAIN Scripts[r + 1] : ~Drops(Scripts[r + 1][j], x)
    BY <1>1, <1>4 DEF DroppedBy
  <2>5. QED
    BY <2>1, <2>2, <2>3, <2>4 DEF SchemaAfter
<1>5. SchemaAfter(r + 1) \subseteq MadeBy(r + 1) \cup {x \in SchemaAfter(r) : ~DroppedBy(r + 1, x)}
  BY <1>2
<1>6. MadeBy(r + 1) \cup {x \in SchemaAfter(r) : ~DroppedBy(r + 1, x)} \subseteq SchemaAfter(r + 1)
  BY <1>3, <1>4
<1>7. QED
  BY <1>1, <1>5, <1>6

\* Where an opener goes when its statement has succeeded.
LEMMA AdvanceGoes ==
    ASSUME MigrationTypeOK, NEW o \in Openers, opener[o].at = "migrating",
           opener[o].step <= Len(Work(opener[o].version)), Advance(o)
    PROVE  LET v == opener[o].version
               k == opener[o].step
           IN  /\ v \in DOMAIN Scripts /\ k \in 1 .. Len(Scripts[v]) + 1
               /\ opener' \in [Openers -> [at : {"out", "migrating", "open"},
                                           version : DOMAIN Scripts, step : 1 .. Longest]]
               /\ \A p \in Openers \ {o} : opener'[p] = opener[p]
               /\ k <= Len(Scripts[v]) =>
                      opener'[o].at = "migrating" /\ opener'[o].version = v /\ opener'[o].step = k + 1
               /\ k = Len(Scripts[v]) + 1 /\ v < Len(Scripts) =>
                      opener'[o].at = "migrating" /\ opener'[o].version = v + 1 /\ opener'[o].step = 1
               /\ k = Len(Scripts[v]) + 1 /\ v = Len(Scripts) => opener'[o].at = "open"
<1> DEFINE f == opener[o]
           v == opener[o].version
           k == opener[o].step
           Place == [at : {"out", "migrating", "open"}, version : DOMAIN Scripts, step : 1 .. Longest]
           next == IF k < Len(Work(v)) THEN [at |-> "migrating", version |-> v, step |-> k + 1]
                   ELSE IF v < Len(Scripts) THEN [at |-> "migrating", version |-> v + 1, step |-> 1]
                   ELSE [Out EXCEPT !.at = "open"]
<1>1. opener \in [Openers -> Place] /\ f \in Place
  BY DEF MigrationTypeOK
<1>2. /\ v \in DOMAIN Scripts /\ k \in 1 .. Longest /\ Longest \in Nat /\ f.version = v /\ f.step = k
      /\ Len(Scripts[v]) \in Nat /\ Len(Work(v)) = Len(Scripts[v]) + 1 /\ Len(Work(v)) <= Longest
      /\ Len(Scripts) \in Nat /\ DOMAIN Scripts = 1 .. Len(Scripts) /\ Len(Scripts) >= 1
  BY <1>1, ScriptFacts, LongestBounds
<1>3. k \in 1 .. Len(Scripts[v]) + 1
  BY <1>2
<1>4. opener' = [opener EXCEPT ![o] = next]
  BY DEF Advance
<1>5. opener'[o] = next /\ \A p \in Openers \ {o} : opener'[p] = opener[p]
  BY <1>1, <1>4
<1>6. CASE k <= Len(Scripts[v])
  <2>1. next = [at |-> "migrating", version |-> v, step |-> k + 1]
    BY <1>2, <1>6
  <2>2. k + 1 \in 1 .. Longest
    BY <1>2, <1>6
  <2>3. next \in Place /\ next.at = "migrating" /\ next.version = v /\ next.step = k + 1
    BY <1>1, <2>1, <2>2
  <2>4. opener' \in [Openers -> Place]
    BY <1>1, <1>4, <2>3
  <2>5. QED
    BY <1>2, <1>3, <1>5, <1>6, <2>3, <2>4
<1>7. CASE k = Len(Scripts[v]) + 1 /\ v < Len(Scripts)
  <2>1. next = [at |-> "migrating", version |-> v + 1, step |-> 1]
    BY <1>2, <1>7
  <2>2. 1 \in 1 .. Longest /\ v + 1 \in DOMAIN Scripts
    BY <1>2, <1>7
  <2>3. next \in Place /\ next.at = "migrating" /\ next.version = v + 1 /\ next.step = 1
    BY <1>1, <2>1, <2>2
  <2>4. opener' \in [Openers -> Place]
    BY <1>1, <1>4, <2>3
  <2>5. QED
    BY <1>2, <1>3, <1>5, <1>7, <2>3, <2>4
<1>8. CASE k = Len(Scripts[v]) + 1 /\ v = Len(Scripts)
  <2>1. next = [Out EXCEPT !.at = "open"]
    BY <1>2, <1>8
  <2>2. 1 \in 1 .. Longest /\ 1 \in DOMAIN Scripts
    BY <1>2
  <2>3. next \in Place /\ next.at = "open"
    BY <2>1, <2>2 DEF Out
  <2>4. opener' \in [Openers -> Place]
    BY <1>1, <1>4, <2>3
  <2>5. ~(k <= Len(Scripts[v])) /\ ~(v < Len(Scripts)) /\ opener'[o].at = "open"
    BY <1>2, <1>5, <1>8, <2>3
  <2>6. QED
    BY <1>2, <1>3, <1>5, <2>4, <2>5
<1>9. k <= Len(Scripts[v]) \/ (k = Len(Scripts[v]) + 1 /\ (v < Len(Scripts) \/ v = Len(Scripts)))
  BY <1>2, <1>3
<1>10. QED
  BY <1>6, <1>7, <1>8, <1>9

\* An opener leaves the store, or comes to it; the store is as it was.
LEMMA OpenerMoves ==
    ASSUME MigrationInv, NEW o \in Openers, UNCHANGED <<schema, versions, contested>>,
           openerKills' \in 0 .. MigrationKills,
           NEW at \in {"out", "migrating", "open"}, NEW v \in DOMAIN Scripts,
           opener' = [opener EXCEPT ![o] = [at |-> at, version |-> v, step |-> 1]],
           at = "open" => versions = DOMAIN Scripts,
           at = "migrating" => v = Recorded + 1
    PROVE  MigrationInv'
<1>1. /\ opener \in [Openers -> [at : {"out", "migrating", "open"}, version : DOMAIN Scripts, step : 1 .. Longest]]
      /\ Longest \in Nat /\ Len(Work(v)) \in Nat /\ Len(Work(v)) >= 1 /\ Len(Work(v)) <= Longest
      /\ Recorded \in Nat
      /\ \A i \in DOMAIN Scripts[v] : ~(i < 1)
  <2>1. Len(Scripts[v]) \in Nat /\ DOMAIN Scripts[v] = 1 .. Len(Scripts[v]) /\ Len(Work(v)) = Len(Scripts[v]) + 1
    BY ScriptFacts
  <2>2. Longest \in Nat /\ Len(Work(v)) <= Longest
    BY LongestBounds
  <2>3. Recorded \in Nat
    BY DEF MigrationInv
  <2>4. QED
    BY <2>1, <2>2, <2>3 DEF MigrationInv, MigrationTypeOK
<1>2. /\ opener'[o] = [at |-> at, version |-> v, step |-> 1]
      /\ \A p \in Openers \ {o} : opener'[p] = opener[p]
      /\ Recorded' = Recorded
  BY <1>1 DEF Recorded
<1>3. MigrationTypeOK'
  <2>1. 1 \in 1 .. Longest
    BY <1>1
  <2>2. opener' \in [Openers -> [at : {"out", "migrating", "open"}, version : DOMAIN Scripts, step : 1 .. Longest]]
    BY <1>1, <2>1
  <2>3. QED
    BY <2>2 DEF MigrationInv, MigrationTypeOK
<1>4. OpenersInOrder'
  BY <1>1, <1>2 DEF MigrationInv, OpenersInOrder
<1>5. SchemaBetween => SchemaBetween'
  BY <1>2 DEF SchemaBetween
<1>6. BehindIsMade => BehindIsMade'
  BY <1>1, <1>2 DEF BehindIsMade
<1>7. OwnWorkStands => OwnWorkStands'
  BY <1>1, <1>2 DEF OwnWorkStands, InForce
<1>8. QED
  BY <1>2, <1>3, <1>4, <1>5, <1>6, <1>7 DEF MigrationInv

\* The last statement of a version has succeeded; the version is recorded.
LEMMA RecordMoves ==
    ASSUME MigrationInv, NEW o \in Openers, RunStatement(o),
           opener[o].step = Len(Scripts[opener[o].version]) + 1
    PROVE  MigrationInv'
<1> DEFINE v == opener[o].version
           r == Recorded
<1>1. /\ v \in DOMAIN Scripts /\ r \in 0 .. Len(Scripts) /\ Len(Scripts) \in Nat
      /\ versions = 1 .. r /\ v <= r + 1 /\ DOMAIN Scripts = 1 .. Len(Scripts)
      /\ opener[o].at = "migrating" /\ opener[o].step <= Len(Work(v)) /\ Advance(o)
      /\ \A u \in DOMAIN Scripts : /\ Len(Scripts[u]) \in Nat /\ Len(Work(u)) = Len(Scripts[u]) + 1
                                   /\ DOMAIN Scripts[u] = 1 .. Len(Scripts[u])
  BY ScriptFacts DEF MigrationInv, MigrationTypeOK, OpenersInOrder, RunStatement
<1>2. Current(o).kind = "record" /\ Current(o).name = v
  <2>1. Current(o) = Recording(v)
    BY <1>1, ScriptFacts DEF Current
  <2>2. QED
    BY <2>1 DEF Recording
<1>3. v \notin versions /\ versions' = versions \cup {v} /\ schema' = schema /\ contested' = contested
  <2>1. /\ Succeeds(Current(o)) /\ schema' = Effect(Current(o), schema)
        /\ versions' = IF Current(o).kind = "record" THEN versions \cup {Current(o).name} ELSE versions
        /\ contested' = (contested \/ (Current(o).kind = "drop" /\ Contested(o)))
    BY DEF RunStatement
  <2>2. v \notin versions /\ versions' = versions \cup {v} /\ schema' = schema
    BY <1>2, <2>1 DEF Succeeds, Effect
  <2>3. contested' = contested
    <3>1. contested' = (contested \/ FALSE)
      BY <1>2, <2>1
    <3>2. QED
      BY <3>1 DEF MigrationInv, MigrationTypeOK
  <2>4. QED
    BY <2>2, <2>3
<1>4. v = r + 1 /\ r \in 0 .. Len(Scripts) - 1 /\ r + 1 \in Nat /\ r \in Nat /\ Len(Scripts) \in Nat
  BY <1>1, <1>3
<1>5. versions' = 1 .. r + 1 /\ Recorded' = r + 1
  <2>1. versions' = 1 .. r + 1
    BY <1>1, <1>3, <1>4
  <2>2. Cardinality(1 .. r + 1) = r + 1
    BY <1>4, FirstNumbers
  <2>3. QED
    BY <2>1, <2>2 DEF Recorded
<1>6. /\ opener' \in [Openers -> [at : {"out", "migrating", "open"},
                                  version : DOMAIN Scripts, step : 1 .. Longest]]
      /\ \A p \in Openers \ {o} : opener'[p] = opener[p]
      /\ \/ v < Len(Scripts) /\ opener'[o].at = "migrating" /\ opener'[o].version = v + 1 /\ opener'[o].step = 1
         \/ v = Len(Scripts) /\ opener'[o].at = "open"
  <2>1. MigrationTypeOK
    BY DEF MigrationInv
  <2>2. QED
    BY SMTT(30), <1>1, <2>1, AdvanceGoes
<1> HIDE DEF v, r
<1>7. MigrationTypeOK'
  <2>1. versions' \subseteq DOMAIN Scripts
    BY <1>1, <1>4, <1>5
  <2>2. QED
    BY <1>3, <1>6, <2>1 DEF MigrationInv, MigrationTypeOK, RunStatement
<1>8. OpenersInOrder'
  <2>1. ASSUME NEW p \in Openers
        PROVE  /\ opener'[p].at = "open" => versions' = DOMAIN Scripts
               /\ opener'[p].at = "migrating" =>
                     opener'[p].version <= r + 2 /\ opener'[p].step <= Len(Work(opener'[p].version))
    <3>1. CASE p = o
      <4>1. CASE v < Len(Scripts)
        <5>1. v + 1 \in DOMAIN Scripts /\ 1 <= Len(Work(v + 1)) /\ v + 1 <= r + 2
          <6>1. v + 1 \in 1 .. Len(Scripts) /\ v + 1 <= r + 2
            BY <1>4, <4>1
          <6>2. Len(Work(v + 1)) = Len(Scripts[v + 1]) + 1 /\ Len(Scripts[v + 1]) \in Nat
            BY <6>1, ScriptFacts
          <6>3. QED
            BY <1>1, <6>1, <6>2
        <5>2. /\ opener'[p].at = "migrating"
              /\ opener'[p].version = v + 1 /\ opener'[p].step = 1
          <6>1. v # Len(Scripts)
            BY <1>4, <4>1
          <6>2. QED
            BY <1>6, <3>1, <6>1
        <5>3. QED
          BY <5>1, <5>2
      <4>2. CASE v = Len(Scripts)
        <5>1. versions' = DOMAIN Scripts /\ ~(v < Len(Scripts))
          <6>1. r + 1 = Len(Scripts) /\ ~(v < Len(Scripts))
            BY <1>4, <4>2
          <6>2. QED
            BY <1>1, <1>5, <6>1
        <5>2. opener'[p].at = "open"
          BY <1>6, <3>1, <5>1
        <5>3. QED
          BY <5>1, <5>2
      <4>3. QED
        BY <1>6, <4>1, <4>2
    <3>2. CASE p # o
      <4>1. /\ opener'[p] = opener[p] /\ opener[p].version \in Nat
            /\ opener[p].at = "open" => versions = DOMAIN Scripts
            /\ opener[p].at = "migrating" =>
                  opener[p].version <= r + 1 /\ opener[p].step <= Len(Work(opener[p].version))
        <5>1. opener'[p] = opener[p]
          BY <1>6, <3>2
        <5>2. opener[p].version \in Nat
          BY <1>1 DEF MigrationInv, MigrationTypeOK
        <5>3. QED
          BY <5>1, <5>2 DEF MigrationInv, OpenersInOrder, r
      <4>2. opener[p].at # "open"
        <5>1. v \in DOMAIN Scripts /\ v \notin versions
          BY <1>1, <1>3
        <5>2. QED
          BY <4>1, <5>1
      <4>3. opener[p].version <= r + 1 => opener[p].version <= r + 2
        <5>1. r \in Nat /\ opener[p].version \in Nat
          BY <1>4, <4>1
        <5>2. QED
          BY <5>1
      <4>4. QED
        BY <4>1, <4>2, <4>3
    <3>3. QED
      BY <3>1, <3>2
  <2>2. r + 2 = Recorded' + 1
    BY <1>1, <1>5
  <2>3. QED
    BY <2>1, <2>2 DEF OpenersInOrder
<1>9. ASSUME ~contested PROVE SchemaBetween' /\ BehindIsMade' /\ OwnWorkStands'
  <2>1. /\ schema \subseteq SchemaAfter(r) \cup MadeBy(v)
        /\ \A x \in SchemaAfter(r) : x \in schema \/ DroppedBy(v, x)
        /\ BehindIsMade
        /\ \A i \in DOMAIN Scripts[v] : InForce(Scripts[v][i], v)
    <3>1. SchemaBetween /\ BehindIsMade /\ OwnWorkStands
      BY <1>9 DEF MigrationInv
    <3>2. \A i \in DOMAIN Scripts[v] : i < opener[o].step
      BY <1>1 DEF v
    <3>3. QED
      BY <1>1, <1>4, <3>1, <3>2 DEF SchemaBetween, OwnWorkStands, v, r
  <2>2. MadeBy(v) \subseteq schema
    BY <2>1 DEF MadeBy, InForce
  <2>3. ASSUME NEW x \in schema, DroppedBy(v, x) PROVE x \in MadeBy(v)
    <3>1. x \in Parts
      BY DEF MigrationInv, MigrationTypeOK
    <3>2. QED
      BY <2>1, <2>3, <3>1 DEF DroppedBy, InForce
  <2>4. SchemaAfter(v) = MadeBy(v) \cup {x \in SchemaAfter(r) : ~DroppedBy(v, x)}
    BY <1>4, NextVersion
  <2>5. SchemaAfter(v) = schema
    BY <2>1, <2>2, <2>3, <2>4
  <2>6. SchemaBetween'
    BY <1>3, <1>4, <1>5, <2>5 DEF SchemaBetween
  <2>7. BehindIsMade'
    <3> SUFFICES ASSUME NEW p \in Openers, opener'[p].at = "migrating", opener'[p].version <= r + 1
                 PROVE  MadeBy(opener'[p].version) \subseteq schema
      BY <1>3, <1>5 DEF BehindIsMade
    <3>1. p # o
      <4>1. v + 1 = r + 2 /\ ~(r + 2 <= r + 1)
        BY <1>4
      <4>2. opener'[o].at = "migrating" => opener'[o].version = r + 2
        BY <1>6, <4>1
      <4>3. QED
        BY <4>1, <4>2
    <3>2. opener'[p] = opener[p] /\ opener[p].version \in Nat
      BY SMTT(30), <1>1, <1>6, <3>1 DEF MigrationInv, MigrationTypeOK
    <3>3. CASE opener[p].version <= r
      BY <2>1, <3>2, <3>3 DEF BehindIsMade, r
    <3>4. CASE opener[p].version = v
      BY <2>2, <3>2, <3>4
    <3>5. QED
      BY <1>1, <1>4, <3>2, <3>3, <3>4
  <2>8. OwnWorkStands'
    <3> SUFFICES ASSUME NEW p \in Openers, opener'[p].at = "migrating", opener'[p].version = r + 2,
                        NEW i \in DOMAIN Scripts[opener'[p].version], i < opener'[p].step
                 PROVE  FALSE
      <4>1. r + 2 = Recorded' + 1
        BY <1>1, <1>5
      <4>2. QED
        BY <4>1 DEF OwnWorkStands
    <3>1. CASE p = o
      <4>1. opener'[p].step = 1 /\ opener'[p].version \in DOMAIN Scripts
        BY <1>6, <3>1
      <4>2. i \in Nat /\ i >= 1
        BY <1>1, <4>1
      <4>3. QED
        BY <4>1, <4>2
    <3>2. CASE p # o
      <4>1. opener[p].at = "migrating" /\ opener[p].version = r + 2
        BY <1>6, <3>2
      <4>2. opener[p].version <= r + 1
        BY <4>1 DEF MigrationInv, OpenersInOrder, r
      <4>3. QED
        BY <1>1, <4>1, <4>2
    <3>3. QED
      BY <3>1, <3>2
  <2>9. QED
    BY <2>6, <2>7, <2>8
<1>10. QED
  <2>1. Recorded' \in 0 .. Len(Scripts)
    BY <1>1, <1>4, <1>5
  <2>2. QED
    BY <1>3, <1>5, <1>7, <1>8, <1>9, <2>1 DEF MigrationInv

\* An opener's statement succeeds, and it is not the last of its version.
LEMMA StatementMoves ==
    ASSUME MigrationInv, NEW o \in Openers, RunStatement(o),
           opener[o].step <= Len(Scripts[opener[o].version])
    PROVE  MigrationInv'
<1> DEFINE v == opener[o].version
           k == opener[o].step
           r == Recorded
           s == Scripts[v][k]
<1>1. /\ v \in DOMAIN Scripts /\ r \in Nat /\ v \in Nat /\ v <= r + 1 /\ k \in Nat /\ k >= 1
      /\ opener[o].at = "migrating" /\ k <= Len(Work(v)) /\ Advance(o)
  <2>1. v \in DOMAIN Scripts /\ k \in 1 .. Longest
    BY DEF MigrationInv, MigrationTypeOK
  <2>2. opener[o].at = "migrating" /\ Advance(o)
    BY DEF RunStatement
  <2>3. v <= r + 1 /\ k <= Len(Work(v)) /\ r \in Nat
    BY <2>2 DEF MigrationInv, OpenersInOrder
  <2>4. v \in Nat
    BY <2>1, ScriptFacts
  <2>5. k \in Nat /\ k >= 1
    BY <2>1, LongestBounds
  <2>6. QED
    BY <2>1, <2>2, <2>3, <2>4, <2>5
<1>2. k \in DOMAIN Scripts[v] /\ Current(o) = s /\ s.kind \in {"create", "drop", "part"} /\ DOMAIN Scripts[v] \subseteq Nat
      /\ <<s.table, s.name>> \in Parts /\ Len(Scripts[v]) \in Nat
  <2>1. Len(Scripts[v]) \in Nat /\ DOMAIN Scripts[v] = 1 .. Len(Scripts[v])
    BY <1>1, ScriptFacts
  <2>2. k \in DOMAIN Scripts[v]
    BY <1>1, <2>1
  <2>3. Current(o) = s
    BY <1>1, <2>2, ScriptFacts DEF Current
  <2>4. s.kind \in {"create", "drop", "part"} /\ <<s.table, s.name>> \in Parts
    BY <1>1, <2>2, ScriptFacts
  <2>5. DOMAIN Scripts[v] \subseteq Nat
    BY <2>1
  <2>6. QED
    BY <2>1, <2>2, <2>3, <2>4, <2>5
<1>3. /\ opener' \in [Openers -> [at : {"out", "migrating", "open"},
                                  version : DOMAIN Scripts, step : 1 .. Longest]]
      /\ \A p \in Openers \ {o} : opener'[p] = opener[p]
      /\ opener'[o].at = "migrating" /\ opener'[o].version = v /\ opener'[o].step = k + 1
  <2>1. MigrationTypeOK
    BY DEF MigrationInv
  <2>2. QED
    BY SMTT(30), <1>1, <2>1, AdvanceGoes
<1>4. /\ versions' = versions /\ Recorded' = r /\ Succeeds(s) /\ schema' = Effect(s, schema)
      /\ contested' = (contested \/ (s.kind = "drop" /\ Contested(o)))
      /\ openerKills' = openerKills
  BY <1>2 DEF RunStatement, Recorded
<1>5. k + 1 <= Len(Work(v))
  <2>1. Len(Work(v)) = Len(Scripts[v]) + 1
    BY <1>1, ScriptFacts
  <2>2. QED
    BY <1>1, <1>2, <2>1
<1>6. \A x \in Parts : x \in schema' <=> Makes(s, x) \/ (x \in schema /\ ~Drops(s, x))
  BY <1>2, <1>4 DEF Effect, Makes, Drops
<1>7. schema' \subseteq Parts
  BY <1>2, <1>4 DEF Effect, MigrationInv, MigrationTypeOK
<1> HIDE DEF v, k, r, s
<1>8. MigrationTypeOK'
  BY <1>3, <1>4, <1>7 DEF MigrationInv, MigrationTypeOK
<1>9. OpenersInOrder'
  <2> SUFFICES ASSUME NEW p \in Openers
               PROVE  /\ opener'[p].at = "open" => versions = DOMAIN Scripts
                      /\ opener'[p].at = "migrating" =>
                            opener'[p].version <= r + 1 /\ opener'[p].step <= Len(Work(opener'[p].version))
    BY <1>4 DEF OpenersInOrder
  <2>1. CASE p = o
    BY <1>1, <1>3, <1>5, <2>1
  <2>2. CASE p # o
    BY <1>3, <2>2 DEF MigrationInv, OpenersInOrder, r
  <2>3. QED
    BY <2>1, <2>2
<1>10. ASSUME ~contested' PROVE SchemaBetween' /\ BehindIsMade' /\ OwnWorkStands'
  <2>1. ~contested /\ (s.kind = "drop" => ~Contested(o))
    BY <1>4, <1>10
  <2>2. SchemaBetween /\ BehindIsMade /\ OwnWorkStands
    BY <2>1 DEF MigrationInv
  \* a make of a version on record does not succeed, nor a drop uncontested
  <2>3. v = r + 1
    <3>1. SUFFICES ASSUME v <= r PROVE FALSE
      BY <1>1
    <3>2. s.kind # "drop"
      <4>1. v \in versions
        <5>1. versions = 1 .. r /\ v >= 1
          BY <1>1, ScriptFacts DEF MigrationInv, r
        <5>2. QED
          BY <1>1, <3>1, <5>1
      <4>2. QED
        BY <2>1, <4>1 DEF Contested, v
    <3>3. <<s.table, s.name>> \in MadeBy(v)
      BY <1>1, <1>2, <3>2 DEF MadeBy, Makes, s
    <3>4. <<s.table, s.name>> \in schema
      BY <1>1, <2>2, <3>1, <3>3 DEF BehindIsMade, v, r
    <3>5. QED
      BY <1>2, <1>4, <3>2, <3>4 DEF Succeeds
  <2>4. \A x \in Parts : Makes(s, x) => x \in MadeBy(v)
    BY <1>1, <1>2 DEF MadeBy, s
  <2>5. \A x \in Parts : Drops(s, x) => DroppedBy(v, x)
    BY <1>1, <1>2 DEF DroppedBy, s
  <2>6. SchemaBetween'
    <3>1. schema' \subseteq SchemaAfter(r) \cup MadeBy(v)
      BY <1>6, <1>7, <2>2, <2>3, <2>4 DEF SchemaBetween, r
    <3>2. \A x \in SchemaAfter(r) : x \in schema' \/ DroppedBy(v, x)
      <4> SUFFICES ASSUME NEW x \in SchemaAfter(r) PROVE x \in schema' \/ DroppedBy(v, x)
        OBVIOUS
      <4>1. x \in Parts
        BY DEF SchemaAfter
      <4>2. x \in schema \/ DroppedBy(v, x)
        BY <2>2, <2>3 DEF SchemaBetween, r
      <4>3. QED
        BY <1>6, <2>5, <4>1, <4>2
    <3>3. QED
      BY <1>4, <2>3, <3>1, <3>2 DEF SchemaBetween
  \* whoever drops is alone
  <2>7. ASSUME NEW p \in Openers \ {o}, opener[p].at = "migrating" PROVE s.kind # "drop"
    BY <2>1, <2>7 DEF Contested
  <2>8. s.kind # "drop" => schema \subseteq schema'
    BY <1>6 DEF MigrationInv, MigrationTypeOK, Drops
  <2>9. BehindIsMade'
    <3> SUFFICES ASSUME NEW p \in Openers, opener'[p].at = "migrating", opener'[p].version <= r
                 PROVE  MadeBy(opener'[p].version) \subseteq schema'
      BY <1>4 DEF BehindIsMade
    <3>1. p # o
      BY <1>1, <1>3, <2>3
    <3>2. opener'[p] = opener[p]
      BY <1>3, <3>1
    <3>3. MadeBy(opener[p].version) \subseteq schema
      BY <2>2, <3>2 DEF BehindIsMade, r
    <3>4. QED
      BY <2>7, <2>8, <3>1, <3>2, <3>3
  <2>10. OwnWorkStands'
    <3> SUFFICES ASSUME NEW p \in Openers, opener'[p].at = "migrating", opener'[p].version = v,
                        NEW i \in DOMAIN Scripts[v], i < opener'[p].step, NEW x \in Parts
                 PROVE  /\ Makes(Scripts[v][i], x) => x \in schema'
                        /\ Drops(Scripts[v][i], x) /\ x \in schema' => x \in MadeBy(v)
      BY <1>4, <2>3 DEF OwnWorkStands, InForce, MadeBy
    <3>1. CASE p # o
      <4>1. opener'[p] = opener[p]
        BY <1>3, <3>1
      <4>2. InForce(Scripts[v][i], v)
        BY <2>2, <2>3, <4>1 DEF OwnWorkStands, r
      <4>3. s.kind # "drop"
        BY <2>7, <3>1, <4>1
      <4>4. QED
        BY <1>6, <2>4, <2>8, <4>2, <4>3 DEF InForce
    <3>2. CASE p = o /\ i = k
      <4>1. Scripts[v][i] = s
        BY <3>2 DEF s
      <4>2. QED
        BY <1>6, <2>4, <4>1
    <3>3. CASE p = o /\ i # k
      <4>1. i < k
        BY <1>1, <1>2, <1>3, <3>3
      <4>2. InForce(Scripts[v][i], v)
        BY <1>1, <2>2, <2>3, <4>1 DEF OwnWorkStands, v, k, r
      <4>3. ASSUME Makes(Scripts[v][i], x) PROVE ~Drops(s, x)
        <5>1. x[1] = Scripts[v][i].table
          BY <4>3 DEF Makes
        <5>2. QED
          BY <1>1, <1>2, <4>1, <5>1, DropsComeFirst DEF Drops, s
      <4>4. QED
        BY <1>6, <2>4, <4>2, <4>3 DEF InForce
    <3>4. QED
      BY <3>1, <3>2, <3>3
  <2>11. QED
    BY <2>6, <2>9, <2>10
<1>11. QED
  BY <1>4, <1>8, <1>9, <1>10 DEF MigrationInv, r

\* The invariant holds of a new file and is kept by every step.
LEMMA MigrationInvHolds == MigrationSpec => []MigrationInv
<1>1. MigrationInit => MigrationInv
  <2> SUFFICES ASSUME MigrationInit PROVE MigrationInv
    OBVIOUS
  <2>1. Recorded = 0 /\ versions = 1 .. 0
    BY FS_EmptySet DEF MigrationInit, Recorded
  <2>2. 1 \in DOMAIN Scripts /\ Len(Scripts) \in Nat /\ 1 \in 1 .. Longest
    <3>1. 1 \in DOMAIN Scripts /\ Len(Scripts) \in Nat
      BY ScriptFacts
    <3>2. Len(Work(1)) \in Nat /\ Len(Work(1)) >= 1
      BY <3>1, ScriptFacts
    <3>3. QED
      BY <3>1, <3>2, LongestBounds
  <2>3. MigrationTypeOK
    <3>1. Out \in [at : {"out", "migrating", "open"}, version : DOMAIN Scripts, step : 1 .. Longest]
      BY <2>2 DEF Out
    <3>2. openerKills \in 0 .. MigrationKills
      BY MigrationAssumption DEF MigrationInit
    <3>3. QED
      BY <3>1, <3>2 DEF MigrationInit, MigrationTypeOK
  <2>4. \A o \in Openers : opener[o].at = "out"
    BY DEF MigrationInit, Out
  <2>5. OpenersInOrder /\ BehindIsMade /\ OwnWorkStands
    BY <2>4 DEF OpenersInOrder, BehindIsMade, OwnWorkStands
  <2>6. SchemaBetween
    <3>1. SchemaAfter(0) = {}
      BY DEF SchemaAfter
    <3>2. QED
      BY <2>1, <3>1 DEF SchemaBetween, MigrationInit
  <2>7. QED
    BY <2>1, <2>2, <2>3, <2>5, <2>6 DEF MigrationInv
<1>2. MigrationInv /\ [MigrationNext]_migrationVars => MigrationInv'
  <2> SUFFICES ASSUME MigrationInv, [MigrationNext]_migrationVars
               PROVE  MigrationInv'
    OBVIOUS
  <2>0. /\ 1 \in DOMAIN Scripts /\ DOMAIN Scripts = 1 .. Len(Scripts) /\ Len(Scripts) \in Nat
        /\ openerKills \in 0 .. MigrationKills /\ MigrationKills \in Nat
        /\ Recorded \in 0 .. Len(Scripts) /\ versions = 1 .. Recorded
    BY ScriptFacts, MigrationAssumption DEF MigrationInv, MigrationTypeOK
  <2>1. ASSUME NEW o \in Openers, Open(o) PROVE MigrationInv'
    <3>1. CASE versions = DOMAIN Scripts
      <4>1. opener' = [opener EXCEPT ![o] = [at |-> "open", version |-> 1, step |-> 1]]
        <5>1. [Out EXCEPT !.at = "open"] = [at |-> "open", version |-> 1, step |-> 1]
          BY DEF Out
        <5>2. QED
          BY <2>1, <3>1, <5>1 DEF Open
      <4>2. QED
        BY <2>0, <2>1, <3>1, <4>1, OpenerMoves DEF Open
    <3>2. CASE versions # DOMAIN Scripts
      <4>1. Recorded + 1 \in DOMAIN Scripts
        <5>1. Recorded # Len(Scripts) /\ Recorded \in 0 .. Len(Scripts) /\ Len(Scripts) \in Nat
          BY <2>0, <3>2
        <5>2. Recorded + 1 \in 1 .. Len(Scripts)
          BY <5>1
        <5>3. QED
          BY <2>0, <5>2
      <4>2. opener' = [opener EXCEPT ![o] = [at |-> "migrating", version |-> Recorded + 1, step |-> 1]]
        BY <2>1, <3>2 DEF Open, Recorded
      <4>3. QED
        BY <2>0, <2>1, <4>1, <4>2, OpenerMoves DEF Open
    <3>3. QED
      BY <3>1, <3>2
  <2>2. ASSUME NEW o \in Openers, RunStatement(o) PROVE MigrationInv'
    <3>1. opener[o].version \in DOMAIN Scripts /\ opener[o].step \in 1 .. Longest
          /\ opener[o].step <= Len(Work(opener[o].version))
      BY <2>2 DEF MigrationInv, MigrationTypeOK, OpenersInOrder, RunStatement
    <3>2. /\ Len(Work(opener[o].version)) = Len(Scripts[opener[o].version]) + 1
          /\ Len(Scripts[opener[o].version]) \in Nat
      BY <3>1, ScriptFacts
    <3>3. \/ opener[o].step <= Len(Scripts[opener[o].version])
          \/ opener[o].step = Len(Scripts[opener[o].version]) + 1
      BY <3>1, <3>2, LongestBounds
    <3>4. QED
      BY <2>2, <3>3, RecordMoves, StatementMoves
  <2>3. ASSUME NEW o \in Openers, StatementFails(o) \/ KillOpener(o) \/ CloseStore(o)
        PROVE  MigrationInv'
    <3>1. opener' = [opener EXCEPT ![o] = [at |-> "out", version |-> 1, step |-> 1]]
          /\ UNCHANGED <<schema, versions, contested>>
      BY <2>3 DEF StatementFails, KillOpener, CloseStore, Out
    <3>2. openerKills' \in 0 .. MigrationKills
      BY <2>0, <2>3 DEF StatementFails, KillOpener, CloseStore
    <3>3. QED
      BY <2>0, <3>1, <3>2, OpenerMoves
  <2>4. CASE UNCHANGED migrationVars
    BY <2>4 DEF migrationVars, MigrationInv, MigrationTypeOK, OpenersInOrder, SchemaBetween,
                BehindIsMade, OwnWorkStands, InForce, Recorded
  <2>5. QED
    BY <2>1, <2>2, <2>3, <2>4 DEF MigrationNext
<1>3. QED
  BY <1>1, <1>2, PTL DEF MigrationSpec

(***************************************************************************)
(* migrate.py's "fails closed", for any openers, kills and scripts: whoever *)
(* has the store open finds every version on record and the schema that a  *)
(* sole opener would have made, unless a table was dropped under another.  *)
(***************************************************************************)
THEOREM NobodyOpensTorn == MigrationSpec => []NeverOpensTorn
<1>1. MigrationInv => NeverOpensTorn
  <2> SUFFICES ASSUME MigrationInv, NEW o \in Openers, opener[o].at = "open"
               PROVE  versions = DOMAIN Scripts /\ (contested \/ schema = Whole)
    BY DEF MigrationInv, NeverOpensTorn
  <2>1. versions = DOMAIN Scripts
    BY DEF MigrationInv, OpenersInOrder
  <2>2. Recorded = Len(Scripts) /\ Recorded + 1 \notin DOMAIN Scripts
    <3>1. Len(Scripts) \in Nat /\ Len(Scripts) >= 1 /\ DOMAIN Scripts = 1 .. Len(Scripts)
      BY ScriptFacts
    <3>2. Cardinality(1 .. Len(Scripts)) = Len(Scripts)
      BY <3>1, FirstNumbers
    <3>3. QED
      BY <2>1, <3>1, <3>2 DEF Recorded
  <2>3. MadeBy(Recorded + 1) = {} /\ \A x : ~DroppedBy(Recorded + 1, x)
    BY <2>2 DEF MadeBy, DroppedBy
  <2>4. ASSUME ~contested PROVE schema = Whole
    BY <2>2, <2>3, <2>4 DEF MigrationInv, SchemaBetween, Whole
  <2>5. QED
    BY <2>1, <2>4
<1>2. QED
  BY <1>1, MigrationInvHolds, PTL
=============================================================================
