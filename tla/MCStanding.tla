----------------------------- MODULE MCStanding -----------------------------
(***************************************************************************)
(* The machines that keep standing state - trust, intake, review, memory,  *)
(* plans, the panel, the schema of a store, the worktrees of a repository  *)
(* and the lock under two processes - on small instances. They             *)
(* share no variable with one another; focus picks the one a behaviour     *)
(* runs, so that their state spaces add up instead of multiplying.         *)
(***************************************************************************)
EXTENDS TrustGrants, OssIntake, CandidateReview, ProjectMemory, PlanBuild, PanelSwitch, Migrations, MCVerification, WriteLock

CONSTANTS e1, e2, r1, r2, q1, k1, k2, k3, p1, p2, s1, s2

VARIABLE focus

OneRequester == [k \in Intakes |-> q1]

\* p2 was set up with a name of its own; p1 goes by the default
ProjectNames == (p1 :> "devharness") @@ (p2 :> "other")

\* t2 is built on t1, t3 on nothing
ThreeTasks == <<"t1", "t2", "t3">>

SecondOnFirst == [t \in {"t1", "t2", "t3"} |-> IF t = "t2" THEN {"t1"} ELSE {}]

Statement(kind, table, name) == [kind |-> kind, table |-> table, name |-> name]

\* the shapes of 0001, 0005 and 0013: tables made; one remade with its
\* index; columns added to both
ThreeScripts ==
    << <<Statement("create", "plan", "table"), Statement("create", "lock", "table")>>,
       <<Statement("drop", "lock", "table"), Statement("create", "lock", "table"),
         Statement("part", "lock", "index")>>,
       <<Statement("part", "plan", "column"), Statement("part", "lock", "column")>> >>

\* three builds in two processes
LockHomes == (e1 :> p1) @@ (e2 :> p1) @@ (r1 :> p2)

standingVars ==
    <<focus, trustVars, intakeVars, reviewVars, memoryVars, planVars, panelVars, migrationVars,
      verificationVars, vars>>

StandingInit ==
    /\ focus \in {"trust", "intake", "review", "memory", "plan", "panel", "schema",
                "verification", "lock"}
    /\ TrustInit /\ OssIntakeInit /\ ReviewInit /\ MemoryInit /\ PlanInit /\ PanelInit /\ MigrationInit
    /\ VerificationInit /\ Init

TrustTurn ==
    /\ focus = "trust" /\ TrustNext
    /\ UNCHANGED <<focus, intakeVars, reviewVars, memoryVars, planVars, panelVars, migrationVars,
                   verificationVars, vars>>

IntakeTurn ==
    /\ focus = "intake" /\ OssIntakeNext
    /\ UNCHANGED <<focus, trustVars, reviewVars, memoryVars, planVars, panelVars, migrationVars,
                   verificationVars, vars>>

ReviewTurn ==
    /\ focus = "review" /\ ReviewNext
    /\ UNCHANGED <<focus, trustVars, intakeVars, memoryVars, planVars, panelVars, migrationVars,
                   verificationVars, vars>>

MemoryTurn ==
    /\ focus = "memory" /\ MemoryNext
    /\ UNCHANGED <<focus, trustVars, intakeVars, reviewVars, planVars, panelVars, migrationVars,
                   verificationVars, vars>>

PlanTurn ==
    /\ focus = "plan" /\ PlanNext
    /\ UNCHANGED <<focus, trustVars, intakeVars, reviewVars, memoryVars, panelVars, migrationVars,
                   verificationVars, vars>>

PanelTurn ==
    /\ focus = "panel" /\ PanelNext
    /\ UNCHANGED <<focus, trustVars, intakeVars, reviewVars, memoryVars, planVars, migrationVars,
                   verificationVars, vars>>

SchemaTurn ==
    /\ focus = "schema" /\ MigrationNext
    /\ UNCHANGED <<focus, trustVars, intakeVars, reviewVars, memoryVars, planVars, panelVars,
                   verificationVars, vars>>

VerificationTurn ==
    /\ focus = "verification" /\ VerificationNext
    /\ UNCHANGED <<focus, trustVars, intakeVars, reviewVars, memoryVars, planVars, panelVars, migrationVars,
                   vars>>

LockTurn ==
    /\ focus = "lock" /\ Next
    /\ UNCHANGED <<focus, trustVars, intakeVars, reviewVars, memoryVars, planVars, panelVars, migrationVars,
                   verificationVars>>

StandingNext ==
    \/ TrustTurn
    \/ IntakeTurn
    \/ ReviewTurn
    \/ MemoryTurn
    \/ PlanTurn
    \/ PanelTurn
    \/ SchemaTurn
    \/ VerificationTurn
    \/ LockTurn

StandingSpec == StandingInit /\ [][StandingNext]_standingVars
=============================================================================
