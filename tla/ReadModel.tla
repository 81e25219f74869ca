----------------------------- MODULE ReadModel -----------------------------
(***************************************************************************)
(* The read model (projections/handlers.py, registry.py, parity.py): what  *)
(* each event of the catalogue (events/registry.py) does to the projection *)
(* tables, in the transaction that logs it, and the from-scratch rebuild.  *)
(*                                                                         *)
(* A table is the sequence of its rows in rowid order, which is what the   *)
(* parity check compares. key is the primary key; a column is kept if some *)
(* handler reads it, writes it twice, or a query of the program orders or  *)
(* filters by it. A stamp is the seq of its event, 0 and "" are NULL.      *)
(*                                                                         *)
(* The events form families: no handler of one reads or updates a row that *)
(* a handler of another wrote. A behaviour logs the events of one family.  *)
(***************************************************************************)
EXTENDS Naturals, Sequences, FiniteSets, SequencesExt, LogOps

CONSTANTS
    ModelTasks,   \* task ids; the ids a plan, a spec and an exploration have
    Drafts,       \*   come from Drafts
    Mine,         \* project_name() of the process
    Foreign,      \* the project an imported memory entry comes from
    ShortLog,     \* bounds on the length of the log: most families,
    LongLog       \*   and those whose rows need more events to get wrong

VARIABLES
    eventLog,     \* the events, in seq order
    tables,       \* the projection tables, kept by the handlers
    persisted,    \* artifacts: id |-> the instant it was written
    family        \* the family this behaviour logs

readModelVars == <<eventLog, tables, persisted, family>>

PROJECTION_TABLES ==
    { "role_state", "task_queue", "gate_fires", "cost", "terminal_outcomes", "antibody_queue",
      "gate_change_queue", "work_item_queue", "lock", "questions", "assumptions", "draft_spec",
      "signed_spec", "plan", "explore_summary", "task_started", "checkpoints", "reviewer_certs",
      "task_lifecycle", "task_dispatched", "trust_grants", "developer_activity",
      "verifier_outcomes", "plan_tasks", "maintenance", "adversarial", "oss_intake",
      "intake_decisions", "oss_worktrees", "commit_identity", "budget_exceeded", "retro_runs",
      "antibody_library", "memory", "enacted_gate_changes", "signal_retro_runs" }

Empty == [t \in PROJECTION_TABLES |-> <<>>]

-----------------------------------------------------------------------------
(* The statements the handlers are made of.                                *)

HasKey(rows, k) == \E i \in DOMAIN rows : rows[i].key = k

RowWith(rows, k) == rows[CHOOSE i \in DOMAIN rows : rows[i].key = k]

\* rowid of an INTEGER PRIMARY KEY without AUTOINCREMENT
NextKey(rows) == 1 + Max({0} \cup {r.key : r \in Held(rows)})

\* SET columns
With(row, columns) ==
    [c \in DOMAIN row \cup DOMAIN columns |-> IF c \in DOMAIN columns THEN columns[c] ELSE row[c]]

InsertKeyed(tb, t, k, row) == [tb EXCEPT ![t] = Append(tb[t], With(row, [key |-> k]))]

InsertRow(tb, t, row) == InsertKeyed(tb, t, NextKey(tb[t]), row)

\* INSERT OR IGNORE, ON CONFLICT DO NOTHING
InsertNew(tb, t, k, row) == IF HasKey(tb[t], k) THEN tb ELSE InsertKeyed(tb, t, k, row)

UpdateAt(tb, t, k, columns) ==
    [tb EXCEPT ![t] = [i \in DOMAIN tb[t] |->
        IF tb[t][i].key = k THEN With(tb[t][i], columns) ELSE tb[t][i]]]

\* ON CONFLICT DO UPDATE keeps the row's place and its other columns
Upsert(tb, t, k, row, columns) ==
    IF HasKey(tb[t], k) THEN UpdateAt(tb, t, k, columns) ELSE InsertKeyed(tb, t, k, row)

DeleteAt(tb, t, k) == [tb EXCEPT ![t] = Keep(tb[t], {r \in Held(tb[t]) : r.key # k})]

-----------------------------------------------------------------------------
(* The events, by the block of the catalogue that declares them.           *)

CoreEvents ==
    [type : {"connection_opened", "role_transitioned"}, role : {"developer", "director"}]
    \cup [type : {"intent_proposed", "verifier_outcome"}, task : ModelTasks]
    \cup [type : {"checkpoint_taken"}, task : ModelTasks, checkpoint : Drafts]
    \cup [type : {"gate_fired"}]
    \cup [type : {"terminal_outcome"}, task : ModelTasks,
          outcome : {"completed", "failed"}]

ResearchEvents ==
    [type : {"question_asked", "question_answered"}, question : Drafts]
    \cup [type : {"assumption_flagged"}]
    \cup [type : {"spec_drafted", "spec_signed", "explore_pass_completed", "plan_drafted"}, id : Drafts]

BudgetEvents ==
    [type : {"budget_exceeded"}, kind : {"token", "oss_usd"}]

WriteEvents ==
    [type : {"write_lock_acquired", "write_lock_released"}, token : Drafts]
    \cup [type : {"task_started", "write_attempted", "write_applied", "reviewer_certified",
                  "reviewer_rejected"}, task : ModelTasks]
    \cup [type : {"rewind_performed"}, checkpoint : Drafts]
    \cup [type : {"task_dispatched"}, task : ModelTasks, plan : Drafts]

LearningEvents ==
    [type : {"antibody_candidate", "retro_run"}]
    \cup [type : {"gate_change_candidate"}, gate : {"core", "other"}, change : {"tighten", "loosen"}]
    \cup [type : {"candidate_reviewed"}, kind : {"antibody_queue", "gate_change_queue"}, row : {1, 2},
          verdict : {"approved", "rejected"}]
    \cup [type : {"candidate_rejected"}, kind : {"antibody_queue", "gate_change_queue"}, row : {1, 2}]
    \cup [type : {"antibody_added", "antibody_revoked", "gate_change_enacted"}, row : {1, 2}]
    \cup [type : {"memory_entry_created"}, entry : Drafts, source : {Mine, Foreign}]
    \cup [type : {"memory_entry_verified"}, entry : Drafts]

OssEvents == [type : {"oss_worktree_created", "commit_identity_assigned"}]

IntakeEvents == [type : {"oss_task_intake", "intake_decision"}]

UpkeepEvents ==
    [type : {"maintenance_tick", "maintenance_action"}]
    \cup [type : {"adversarial_test_run", "gate_regression_detected"}, probe : {"p", "q"}, sweep : {1, 2}]

TrustEvents ==
    [type : {"trust_granted"}, class : Drafts] \cup [type : {"trust_grant_pruned"}, row : {1, 2}]

RenewalEvents == [type : {"trust_renewed", "trust_revoked"}, class : Drafts]

SpendEvents ==
    [type : {"cost_spent"}, role : {"developer", "director"}, amount : {1, 2}]
    \cup [type : {"project_assembled", "build_target_set"}]

WorkItemEvents == [type : {"tier_floor_violation", "work_item_candidate"}]

MonitorEvents ==
    [type : {"invariant_violated", "fault_handling_regression"}]
    \cup [type : {"signal_retro_run"}, signal : Drafts]

EventsIn(f) ==
    CASE f = "work"     -> { e \in CoreEvents \cup WriteEvents \cup ResearchEvents :
                               e.type \in {"plan_drafted", "task_dispatched", "task_started",
                                           "terminal_outcome"} }
      [] f = "evidence" -> { e \in CoreEvents \cup WriteEvents :
                               e.type \in {"intent_proposed", "verifier_outcome", "checkpoint_taken",
                                           "rewind_performed", "write_attempted", "write_applied",
                                           "reviewer_certified", "reviewer_rejected"} }
      [] f = "session"  -> SpendEvents \cup
                           { e \in CoreEvents \cup WriteEvents :
                               e.type \in {"connection_opened", "role_transitioned", "gate_fired",
                                           "write_lock_acquired", "write_lock_released"} }
      [] f = "specs"    -> { e \in ResearchEvents : e.type # "plan_drafted" }
      [] f = "learning" -> LearningEvents \cup WorkItemEvents \cup MonitorEvents
      [] f = "oss"      -> OssEvents \cup IntakeEvents \cup BudgetEvents
      [] f = "upkeep"   -> UpkeepEvents
      [] f = "trust"    -> TrustEvents \cup RenewalEvents

Families == {"work", "evidence", "session", "specs", "learning", "oss", "upkeep", "trust"}

-----------------------------------------------------------------------------
(* The handlers. e.seq is the event's place in the log; arts are the       *)
(* artifacts a handler may read besides the event.                         *)

HandleConnectionOpened(tb, e) ==
    LET row == [role |-> e.role, at |-> e.seq] IN Upsert(tb, "role_state", 1, row, row)

HandleRoleTransitioned(tb, e) ==
    LET row == [role |-> e.role, at |-> e.seq] IN Upsert(tb, "role_state", 1, row, row)

HandleIntentProposed(tb, e) ==
    LET row == [class |-> "call", state |-> "proposed", at |-> e.seq]
    IN  Upsert(tb, "task_queue", e.task, row, row)

HandleGateFired(tb, e) == InsertKeyed(tb, "gate_fires", e.seq, <<>>)

HandleVerifierOutcome(tb, e) == InsertRow(tb, "verifier_outcomes", [task |-> e.task, at |-> e.seq])

HandleCheckpointTaken(tb, e) ==
    LET state == [state |-> "checkpointed", at |-> e.seq]
        queued == Upsert(tb, "task_queue", e.task, With(state, [class |-> ""]), state)
        row == [task |-> e.task, at |-> e.seq]
    IN  Upsert(queued, "checkpoints", e.checkpoint, With(row, [rewound |-> 0]), row)

HandleRewindPerformed(tb, e) == UpdateAt(tb, "checkpoints", e.checkpoint, [rewound |-> e.seq])

HandleReviewerCertified(tb, e) ==
    InsertRow(tb, "reviewer_certs", [task |-> e.task, verdict |-> "certified", at |-> e.seq])

HandleReviewerRejected(tb, e) ==
    InsertRow(tb, "reviewer_certs", [task |-> e.task, verdict |-> "rejected", at |-> e.seq])

DeveloperActivity(tb, e) ==
    InsertRow(tb, "developer_activity", [task |-> e.task, event |-> e.type, at |-> e.seq])

HandleTaskDispatched(tb, e) ==
    LET to == [plan |-> e.plan, at |-> e.seq]
        dispatched == Upsert(tb, "task_dispatched", e.task, to, to)
        pointed == UpdateAt(dispatched, "plan", e.plan,
                            [state |-> "executing", executing |-> e.task, current |-> e.task])
        running == [state |-> "running", plan |-> e.plan]
        tracked == Upsert(pointed, "plan_tasks", e.task, With(running, [completed |-> 0]), running)
    IN  DeveloperActivity(tracked, e)

HandleWriteAttempted(tb, e) == DeveloperActivity(tb, e)

HandleWriteApplied(tb, e) == DeveloperActivity(tb, e)

HandleOssTaskIntake(tb, e) == InsertRow(tb, "oss_intake", [at |-> e.seq])

HandleOssWorktreeCreated(tb, e) == InsertRow(tb, "oss_worktrees", [at |-> e.seq])

\* the per-role budgets stay in the log only
HandleBudgetExceeded(tb, e) ==
    IF e.kind = "token" THEN tb ELSE InsertRow(tb, "budget_exceeded", [kind |-> e.kind, at |-> e.seq])

HandleAntibodyAdded(tb, e) ==
    InsertKeyed(tb, "antibody_library", e.row, [added |-> e.seq, revoked |-> 0])

HandleCostSpent(tb, e) ==
    LET spent == IF HasKey(tb["cost"], e.role) THEN RowWith(tb["cost"], e.role).spent ELSE 0
        row == [spent |-> spent + e.amount, at |-> e.seq]
    IN  Upsert(tb, "cost", e.role, row, row)

HandleGateChangeEnacted(tb, e) == InsertKeyed(tb, "enacted_gate_changes", e.row, [at |-> e.seq])

HandleCandidateReviewed(tb, e) ==
    UpdateAt(tb, e.kind, e.row, [review |-> e.verdict, reviewed |-> e.seq])

HandleAntibodyRevoked(tb, e) == UpdateAt(tb, "antibody_library", e.row, [revoked |-> e.seq])

HandleCandidateRejected(tb, e) == UpdateAt(tb, e.kind, e.row, [review |-> "rejected"])

HandleAntibodyCandidate(tb, e) ==
    InsertRow(tb, "antibody_queue", [review |-> "pending", reviewed |-> 0, at |-> e.seq])

WouldWeakenCoreGate(gate, change) == gate = "core" /\ change \in {"loosen", "remove_signature"}

\* Inv 12: rejected in the transaction that queues it
HandleGateChangeCandidate(tb, e) ==
    InsertRow(tb, "gate_change_queue",
           [review |-> IF WouldWeakenCoreGate(e.gate, e.change) THEN "rejected" ELSE "pending",
            reviewed |-> 0, at |-> e.seq])

HandleWorkItemCandidate(tb, e) == InsertRow(tb, "work_item_queue", [at |-> e.seq])

\* trusted at once only if this project wrote it
HandleMemoryEntryCreated(tb, e) ==
    InsertNew(tb, "memory", e.entry,
              [verified |-> (e.source = Mine), stamp |-> 0, at |-> e.seq])

HandleMemoryEntryVerified(tb, e) == UpdateAt(tb, "memory", e.entry, [verified |-> TRUE, stamp |-> e.seq])

HandleRetroRun(tb, e) == InsertRow(tb, "retro_runs", [at |-> e.seq])

HandleSignalRetroRun(tb, e) == InsertNew(tb, "signal_retro_runs", e.signal, [at |-> e.seq])

HandleCommitIdentityAssigned(tb, e) == InsertRow(tb, "commit_identity", [at |-> e.seq])

HandleIntakeDecision(tb, e) == InsertRow(tb, "intake_decisions", [at |-> e.seq])

HandleAdversarialTestRun(tb, e) ==
    InsertRow(tb, "adversarial", [probe |-> e.probe, sweep |-> e.sweep, regression |-> 0, at |-> e.seq])

\* the reason goes to the probe's latest run of the same correlation
HandleGateRegressionDetected(tb, e) ==
    LET runs == Keep(tb["adversarial"],
                     {r \in Held(tb["adversarial"]) : r.probe = e.probe /\ r.sweep = e.sweep})
    IN  IF runs = <<>> THEN tb
        ELSE UpdateAt(tb, "adversarial", Last(runs).key, [regression |-> e.seq])

HandleMaintenanceTick(tb, e) == InsertRow(tb, "maintenance", [event |-> "tick", at |-> e.seq])

HandleMaintenanceAction(tb, e) == InsertRow(tb, "maintenance", [event |-> "action", at |-> e.seq])

HandleTrustGranted(tb, e) ==
    InsertRow(tb, "trust_grants", [class |-> e.class, expires |-> e.seq, revoked |-> 0, at |-> e.seq])

ActiveGrantRow(tb, class) ==
    Keep(tb["trust_grants"],
         {r \in Held(tb["trust_grants"]) : r.class = class /\ r.revoked = 0})

HandleTrustGrantPruned(tb, e) == DeleteAt(tb, "trust_grants", e.row)

HandleTrustRenewed(tb, e) ==
    LET active == ActiveGrantRow(tb, e.class)
    IN  IF active = <<>> THEN tb
        ELSE UpdateAt(tb, "trust_grants", Last(active).key, [expires |-> e.seq])

HandleTrustRevoked(tb, e) ==
    LET active == ActiveGrantRow(tb, e.class)
    IN  IF active = <<>> THEN tb
        ELSE UpdateAt(tb, "trust_grants", Last(active).key, [revoked |-> e.seq])

TerminalStateMap(outcome) ==
    CASE outcome = "failed" -> "rejected"
      [] outcome \in {"completed", "rejected"} -> outcome
      [] OTHER -> "aborted"

Completed(tb, p) ==
    Cardinality({i \in DOMAIN tb["plan_tasks"] :
        tb["plan_tasks"][i].plan = p /\ tb["plan_tasks"][i].state = "completed"})

\* any bad end blocks the plan; it is complete when all its tasks are
PlanState(tb, p, mapped) ==
    IF mapped # "completed" THEN "blocked"
    ELSE IF HasKey(tb["plan"], p) /\ Completed(tb, p) >= RowWith(tb["plan"], p).count
         THEN "completed"
         ELSE "executing"

HandleTerminalOutcome(tb, e) ==
    LET mapped == TerminalStateMap(e.outcome)
        row == [outcome |-> e.outcome, at |-> e.seq]
        recorded == Upsert(tb, "terminal_outcomes", e.task, row, row)
        ended == UpdateAt(recorded, "task_lifecycle", e.task,
                          [state |-> mapped, terminal |-> e.seq, outcome |-> e.outcome])
        tracked == UpdateAt(ended, "plan_tasks", e.task, [state |-> mapped, completed |-> e.seq])
    IN  IF ~HasKey(tb["task_dispatched"], e.task) THEN tracked
        ELSE LET p == RowWith(tb["task_dispatched"], e.task).plan
             IN  UpdateAt(tracked, "plan", p,
                          [state |-> PlanState(tracked, p, mapped), terminal |-> e.seq,
                           executing |-> "", current |-> ""])

\* asked again, a question keeps the answer it has
HandleQuestionAsked(tb, e) ==
    Upsert(tb, "questions", e.question, [answered |-> 0, asked |-> e.seq], [asked |-> e.seq])

HandleQuestionAnswered(tb, e) == UpdateAt(tb, "questions", e.question, [answered |-> e.seq])

HandleAssumptionFlagged(tb, e) == InsertRow(tb, "assumptions", [at |-> e.seq])

\* created_at_millis of the artifact, or NULL
DraftedAt(arts, id) == IF id \in DOMAIN arts THEN arts[id] ELSE 0

HandleSpecDrafted(tb, arts, e) ==
    LET columns == [drafted |-> DraftedAt(arts, e.id)]
    IN  Upsert(tb, "draft_spec", e.id, With(columns, [signed |-> FALSE]), columns)

HandleSpecSigned(tb, e) ==
    LET row == [signed |-> e.seq]
        signed == Upsert(tb, "signed_spec", e.id, row, row)
    IN  UpdateAt(signed, "draft_spec", e.id, [signed |-> TRUE])

HandlePlanDrafted(tb, arts, e) ==
    LET columns == [count |-> Cardinality(ModelTasks), drafted |-> DraftedAt(arts, e.id)]
        fresh == [state |-> "planned", executing |-> "", current |-> "", terminal |-> 0]
    IN  Upsert(tb, "plan", e.id, With(columns, fresh), columns)

HandleExplorePassCompleted(tb, arts, e) ==
    LET row == [completed |-> DraftedAt(arts, e.id)] IN Upsert(tb, "explore_summary", e.id, row, row)

HandleWriteLockAcquired(tb, e) == InsertNew(tb, "lock", e.token, [at |-> e.seq])

HandleWriteLockReleased(tb, e) == DeleteAt(tb, "lock", e.token)

\* Fault: a re-drive leaves the prior attempt's terminal fields.
KeepsTerminalFields(tb, e) ==
    LET start == [at |-> e.seq]
        running == [state |-> "running", started |-> e.seq]
        recorded == Upsert(tb, "task_started", e.task, start, start)
        row == With(running, [terminal |-> 0, outcome |-> ""])
    IN  DeveloperActivity(Upsert(recorded, "task_lifecycle", e.task, row, running), e)

HandleTaskStarted(tb, e) ==
    LET start == [at |-> e.seq]
        row == [state |-> "running", started |-> e.seq, terminal |-> 0, outcome |-> ""]
        recorded == Upsert(tb, "task_started", e.task, start, start)
    IN  DeveloperActivity(Upsert(recorded, "task_lifecycle", e.task, row, row), e)

-----------------------------------------------------------------------------
(* handlers_for: the handler of the event's type, if it has one.           *)
Project(tb, arts, e) ==
    CASE e.type = "connection_opened"        -> HandleConnectionOpened(tb, e)
      [] e.type = "role_transitioned"        -> HandleRoleTransitioned(tb, e)
      [] e.type = "intent_proposed"          -> HandleIntentProposed(tb, e)
      [] e.type = "gate_fired"               -> HandleGateFired(tb, e)
      [] e.type = "verifier_outcome"         -> HandleVerifierOutcome(tb, e)
      [] e.type = "checkpoint_taken"         -> HandleCheckpointTaken(tb, e)
      [] e.type = "terminal_outcome"         -> HandleTerminalOutcome(tb, e)
      [] e.type = "question_asked"           -> HandleQuestionAsked(tb, e)
      [] e.type = "question_answered"        -> HandleQuestionAnswered(tb, e)
      [] e.type = "assumption_flagged"       -> HandleAssumptionFlagged(tb, e)
      [] e.type = "spec_drafted"             -> HandleSpecDrafted(tb, arts, e)
      [] e.type = "spec_signed"              -> HandleSpecSigned(tb, e)
      [] e.type = "plan_drafted"             -> HandlePlanDrafted(tb, arts, e)
      [] e.type = "explore_pass_completed"   -> HandleExplorePassCompleted(tb, arts, e)
      [] e.type = "write_lock_acquired"      -> HandleWriteLockAcquired(tb, e)
      [] e.type = "write_lock_released"      -> HandleWriteLockReleased(tb, e)
      [] e.type = "task_started"             -> HandleTaskStarted(tb, e)
      [] e.type = "rewind_performed"         -> HandleRewindPerformed(tb, e)
      [] e.type = "reviewer_certified"       -> HandleReviewerCertified(tb, e)
      [] e.type = "reviewer_rejected"        -> HandleReviewerRejected(tb, e)
      [] e.type = "task_dispatched"          -> HandleTaskDispatched(tb, e)
      [] e.type = "trust_granted"            -> HandleTrustGranted(tb, e)
      [] e.type = "trust_grant_pruned"       -> HandleTrustGrantPruned(tb, e)
      [] e.type = "trust_renewed"            -> HandleTrustRenewed(tb, e)
      [] e.type = "trust_revoked"            -> HandleTrustRevoked(tb, e)
      [] e.type = "write_attempted"          -> HandleWriteAttempted(tb, e)
      [] e.type = "write_applied"            -> HandleWriteApplied(tb, e)
      [] e.type = "maintenance_tick"         -> HandleMaintenanceTick(tb, e)
      [] e.type = "maintenance_action"       -> HandleMaintenanceAction(tb, e)
      [] e.type = "adversarial_test_run"     -> HandleAdversarialTestRun(tb, e)
      [] e.type = "gate_regression_detected" -> HandleGateRegressionDetected(tb, e)
      [] e.type = "oss_task_intake"          -> HandleOssTaskIntake(tb, e)
      [] e.type = "intake_decision"          -> HandleIntakeDecision(tb, e)
      [] e.type = "oss_worktree_created"     -> HandleOssWorktreeCreated(tb, e)
      [] e.type = "commit_identity_assigned" -> HandleCommitIdentityAssigned(tb, e)
      [] e.type = "budget_exceeded"          -> HandleBudgetExceeded(tb, e)
      [] e.type = "retro_run"                -> HandleRetroRun(tb, e)
      [] e.type = "memory_entry_created"     -> HandleMemoryEntryCreated(tb, e)
      [] e.type = "memory_entry_verified"    -> HandleMemoryEntryVerified(tb, e)
      [] e.type = "antibody_candidate"       -> HandleAntibodyCandidate(tb, e)
      [] e.type = "gate_change_candidate"    -> HandleGateChangeCandidate(tb, e)
      [] e.type = "antibody_added"           -> HandleAntibodyAdded(tb, e)
      [] e.type = "antibody_revoked"         -> HandleAntibodyRevoked(tb, e)
      [] e.type = "candidate_rejected"       -> HandleCandidateRejected(tb, e)
      [] e.type = "candidate_reviewed"       -> HandleCandidateReviewed(tb, e)
      [] e.type = "gate_change_enacted"      -> HandleGateChangeEnacted(tb, e)
      [] e.type = "cost_spent"               -> HandleCostSpent(tb, e)
      [] e.type = "work_item_candidate"      -> HandleWorkItemCandidate(tb, e)
      [] e.type = "signal_retro_run"         -> HandleSignalRetroRun(tb, e)
      [] OTHER                               -> tb

\* rebuild: every table emptied, the log replayed
RebuildTables(arts, events) ==
    LET built[n \in 0 .. Len(events)] ==
            IF n = 0 THEN Empty ELSE Project(built[n - 1], arts, events[n])
    IN  built[Len(events)]

-----------------------------------------------------------------------------
\* a primary key the table already has: the INSERT raises, and emit_sync
\* rolls the event back with it
Raises(tb, e) ==
    \/ e.type = "antibody_added" /\ HasKey(tb["antibody_library"], e.row)
    \/ e.type = "gate_change_enacted" /\ HasKey(tb["enacted_gate_changes"], e.row)

Drafted == {"spec_drafted", "plan_drafted", "explore_pass_completed"}

\* Fault: the event goes out before the artifact it is about is written.
EmitsFirst(e) == e.type \in Drafted => e.id \in Drafts

\* every producer persists the artifact under a new id, then emits
Persisted(e) ==
    e.type \in Drafted =>
        /\ e.id \in DOMAIN persisted
        /\ \A i \in DOMAIN eventLog : eventLog[i].type \in Drafted => eventLog[i].id # e.id

\* what the producers look up before they emit: the plan of a task, the
\* checkpoint of a rewind, the row of a decision, MAX(id) + 1 of a library
\* (another process may have taken it since), a uuid of their own
Produced(e) ==
    /\ e.type = "task_dispatched" => HasKey(tables["plan"], e.plan)
    /\ e.type = "checkpoint_taken" => ~HasKey(tables["checkpoints"], e.checkpoint)
    /\ e.type = "rewind_performed" => HasKey(tables["checkpoints"], e.checkpoint)
    /\ e.type = "spec_signed" => e.id \in DOMAIN persisted
    /\ e.type \in {"candidate_reviewed", "candidate_rejected"} => HasKey(tables[e.kind], e.row)
    /\ e.type = "antibody_revoked" => HasKey(tables["antibody_library"], e.row)
    /\ e.type = "antibody_added" => e.row <= NextKey(tables["antibody_library"])
    /\ e.type = "gate_change_enacted" => e.row <= NextKey(tables["enacted_gate_changes"])
    /\ e.type = "memory_entry_verified" => HasKey(tables["memory"], e.entry)

ReadModelInit ==
    /\ eventLog = <<>>
    /\ tables = Empty
    /\ family \in Families
    \* the plan artifacts are there when the events of their tasks begin
    /\ persisted = IF family = "work" THEN [d \in Drafts |-> 1] ELSE <<>>

\* INSERT INTO artifacts: nothing rewrites its content or its stamp
WriteArtifact(id) ==
    /\ family = "specs"
    /\ id \notin DOMAIN persisted
    /\ persisted' = [d \in DOMAIN persisted \cup {id} |->
                       IF d = id THEN 1 + Len(eventLog) ELSE persisted[d]]
    /\ UNCHANGED <<eventLog, tables, family>>

\* seq INTEGER PRIMARY KEY
AtSeq(event, n) == [c \in DOMAIN event \cup {"seq"} |-> IF c = "seq" THEN n ELSE event[c]]

\* emit_sync: the row and its handlers commit together
LogEvent(event) ==
    LET e == AtSeq(event, 1 + Len(eventLog))
    IN  /\ Len(eventLog) < IF family \in {"work", "trust"} THEN LongLog ELSE ShortLog
        /\ Persisted(event) /\ Produced(event) /\ ~Raises(tables, event)
        /\ eventLog' = Append(eventLog, e)
        /\ tables' = Project(tables, persisted, e)
        /\ UNCHANGED <<persisted, family>>

ReadModelNext ==
    \/ \E id \in Drafts : WriteArtifact(id)
    \/ \E event \in EventsIn(family) : LogEvent(event)

ReadModelSpec == ReadModelInit /\ [][ReadModelNext]_readModelVars

-----------------------------------------------------------------------------
(***************************************************************************)
(* Inv 8 over the whole catalogue: every table, kept event by event while  *)
(* artifacts were being written, is what a rebuild makes of the log and of *)
(* the artifacts there are now (parity.py:46). Three handlers read the     *)
(* artifact and not the event, so the order of the two writes matters.     *)
(***************************************************************************)
ReadModelParity == tables = RebuildTables(persisted, eventLog)

SeqsOf(types) == { i \in DOMAIN eventLog : eventLog[i].type \in types }

LastOf(seqs) == CHOOSE i \in seqs : \A j \in seqs : j <= i

KeysAreUnique ==
    \A t \in PROJECTION_TABLES : \A i, j \in DOMAIN tables[t] :
        tables[t][i].key = tables[t][j].key => i = j

\* a task is running with no terminal fields, or ended as its last
\* terminal since its last start says
LifecycleMeansLog ==
    \A t \in ModelTasks :
        LET starts == { i \in SeqsOf({"task_started"}) : eventLog[i].task = t }
            rows == tables["task_lifecycle"]
        IN  IF starts = {} THEN ~HasKey(rows, t)
            ELSE LET ends == { i \in SeqsOf({"terminal_outcome"}) :
                                 eventLog[i].task = t /\ i > LastOf(starts) }
                     row == RowWith(rows, t)
                 IN  /\ HasKey(rows, t)
                     /\ row.started = LastOf(starts)
                     /\ IF ends = {}
                        THEN row.state = "running" /\ row.terminal = 0 /\ row.outcome = ""
                        ELSE /\ row.terminal = LastOf(ends)
                             /\ row.outcome = eventLog[LastOf(ends)].outcome
                             /\ row.state = IF row.outcome = "failed" THEN "rejected" ELSE row.outcome

\* a plan's pointer is a task in flight, or one another plan has taken over
PointerIsInFlight ==
    \A i \in DOMAIN tables["plan"] :
        LET p == tables["plan"][i]
            t == p.current
        IN  /\ p.executing = t
            /\ t # "" => /\ p.state = "executing"
                         /\ \/ RowWith(tables["plan_tasks"], t).state = "running"
                            \/ RowWith(tables["task_dispatched"], t).plan # p.key

\* the n-th candidate of a queue has row n and the last verdict given on it
QueueMeansLog ==
    \A q \in {"antibody_queue", "gate_change_queue"} : \A i \in DOMAIN tables[q] :
        LET row == tables[q][i]
            verdicts == { j \in SeqsOf({"candidate_reviewed", "candidate_rejected"}) :
                            eventLog[j].kind = q /\ eventLog[j].row = i }
            born == eventLog[row.at]
        IN  /\ row.key = i
            /\ IF verdicts # {}
               THEN row.review = IF eventLog[LastOf(verdicts)].type = "candidate_rejected"
                                 THEN "rejected" ELSE eventLog[LastOf(verdicts)].verdict
               ELSE row.review = IF q = "gate_change_queue" /\ born.gate = "core" /\ born.change = "loosen"
                                 THEN "rejected" ELSE "pending"

\* a grant is open iff no run of the class's later grants and revocations
\* has more revocations than grants: they nest like brackets
GrantsMeanLog ==
    SeqsOf({"trust_grant_pruned"}) = {} =>
        \A i \in DOMAIN tables["trust_grants"] :
            LET row == tables["trust_grants"][i]
                Between(type, n) ==
                    Cardinality({ j \in SeqsOf({type}) :
                                    eventLog[j].class = row.class /\ row.at < j /\ j <= n })
            IN  row.revoked = 0 <=>
                    \A n \in DOMAIN eventLog :
                        Between("trust_revoked", n) <= Between("trust_granted", n)

\* what a role has spent is the sum of its events
SumOf(events, role) ==
    LET sum[n \in 0 .. Len(events)] ==
            IF n = 0 THEN 0
            ELSE IF events[n].type = "cost_spent" /\ events[n].role = role
                 THEN sum[n - 1] + events[n].amount
                 ELSE sum[n - 1]
    IN  sum[Len(events)]

CostIsSum ==
    \A i \in DOMAIN tables["cost"] :
        tables["cost"][i].spent = SumOf(eventLog, tables["cost"][i].key)

(***************************************************************************)
(* The tables mean what the log says, in the words of whoever reads them:  *)
(* each part derives a column from the whole history and not from the      *)
(* column's earlier value, which a redrive, a replanning or a later        *)
(* verdict could have left stale (handlers.py:724).                        *)
(***************************************************************************)
TablesMeanLog ==
    /\ KeysAreUnique
    /\ LifecycleMeansLog
    /\ PointerIsInFlight
    /\ QueueMeansLog
    /\ GrantsMeanLog
    /\ CostIsSum
=============================================================================
