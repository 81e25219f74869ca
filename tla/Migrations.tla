----------------------------- MODULE Migrations -----------------------------
(***************************************************************************)
(* Opening a store: migrate.py brings its schema to the last numbered      *)
(* migration. The versions on record are read once; then each pending      *)
(* script runs statement by statement (executescript autocommits every     *)
(* one) and its version is recorded last. Every process that opens a store *)
(* does this - CLI, panel, TUI, scripts - under no lock, and any of them   *)
(* may be killed between two statements. A script is a sequence of         *)
(* statements that create a table, drop one, or add an index or a column   *)
(* to one; none says IF NOT EXISTS.                                        *)
(***************************************************************************)
EXTENDS Naturals, Sequences, FiniteSets, SequencesExt

CONSTANTS
    Openers,         \* processes that open the store
    Scripts,         \* the migrations on disk, in order
    MigrationKills   \* bound: openers killed while they migrate

Statements == UNION {Range(Scripts[v]) : v \in DOMAIN Scripts}

\* what a schema may hold
Parts == {<<s.table, s.name>> : s \in Statements}

ASSUME MigrationAssumption ==
    /\ Scripts \in Seq(Seq(Statements)) /\ Scripts # <<>>
    /\ \A s \in Statements : s.kind \in {"create", "drop", "part"}
    /\ MigrationKills \in Nat

\* a script that drops a table does so before it says anything else of it
\* (0004, 0005, 0013, 0022)
ASSUME DropsComeFirst ==
    \A v \in DOMAIN Scripts : \A i, j \in DOMAIN Scripts[v] :
        i < j /\ Scripts[v][j].kind = "drop" => Scripts[v][i].table # Scripts[v][j].table

VARIABLES
    schema,      \* what sqlite_master holds: <<table, part>>, part "table" for the table itself
    versions,    \* the rows of schema_migrations
    opener,      \* per process: where it is in its migrations
    contested,   \* history: a table was dropped under another opener
    openerKills

migrationVars == <<schema, versions, opener, contested, openerKills>>

\* the version of a script is recorded after its last statement
Recording(v) == [kind |-> "record", table |-> "schema_migrations", name |-> v]

\* Fault: recorded before the script runs
RecordFirst(v) == <<Recording(v)>> \o Scripts[v]

Work(v) == Append(Scripts[v], Recording(v))

Longest == Max({Len(Work(v)) : v \in DOMAIN Scripts})

MigrationTypeOK ==
    /\ schema \subseteq Parts
    /\ versions \subseteq DOMAIN Scripts
    /\ opener \in [Openers -> [at : {"out", "migrating", "open"},
                               version : DOMAIN Scripts, step : 1 .. Longest]]
    /\ contested \in BOOLEAN
    /\ openerKills \in 0 .. MigrationKills

-----------------------------------------------------------------------------
Succeeds(s) ==
    \/ s.kind = "create" /\ <<s.table, s.name>> \notin schema
    \/ s.kind = "drop" /\ <<s.table, s.name>> \in schema
    \/ s.kind = "part" /\ <<s.table, "table">> \in schema /\ <<s.table, s.name>> \notin schema
    \/ s.kind = "record" /\ s.name \notin versions   \* its PRIMARY KEY

\* a dropped table takes its indexes and columns along
Effect(s, on) ==
    IF s.kind = "drop" THEN {x \in on : x[1] # s.table}
    ELSE IF s.kind = "record" THEN on
    ELSE on \cup {<<s.table, s.name>>}

Makes(s, x) == s.kind # "drop" /\ x = <<s.table, s.name>>

Drops(s, x) == s.kind = "drop" /\ s.table = x[1]

\* the schema of a store that nobody else opened, n scripts on: what one of
\* their statements makes and no later one drops
SchemaAfter(n) ==
    {x \in Parts :
        \E v \in 1 .. n : \E i \in DOMAIN Scripts[v] :
            /\ Makes(Scripts[v][i], x)
            /\ \A w \in v .. n : \A j \in DOMAIN Scripts[w] :
                  w # v \/ j > i => ~Drops(Scripts[w][j], x)}

Whole == SchemaAfter(Len(Scripts))

Out == [at |-> "out", version |-> 1, step |-> 1]

MigrationInit ==
    /\ schema = {}
    /\ versions = {}
    /\ opener = [o \in Openers |-> Out]
    /\ contested = FALSE
    /\ openerKills = 0

\* migrate: versions that are no prefix of the scripts raise
Open(o) ==
    /\ opener[o].at = "out"
    /\ versions = 1 .. Cardinality(versions)
    /\ opener' = [opener EXCEPT ![o] =
           IF versions = DOMAIN Scripts THEN [Out EXCEPT !.at = "open"]
           ELSE [at |-> "migrating", version |-> Cardinality(versions) + 1, step |-> 1]]
    /\ UNCHANGED <<schema, versions, contested, openerKills>>

Current(o) == Work(opener[o].version)[opener[o].step]

\* after the last statement the next script, after the last script the store
Advance(o) ==
    LET v == opener[o].version
        k == opener[o].step
    IN  opener' = [opener EXCEPT ![o] =
            IF k < Len(Work(v)) THEN [at |-> "migrating", version |-> v, step |-> k + 1]
            ELSE IF v < Len(Scripts) THEN [at |-> "migrating", version |-> v + 1, step |-> 1]
            ELSE [Out EXCEPT !.at = "open"]]

\* another opener is at work, or has already recorded this version
Contested(o) ==
    \/ opener[o].version \in versions
    \/ \E p \in Openers \ {o} : opener[p].at = "migrating"

RunStatement(o) ==
    LET s == Current(o)
    IN  /\ opener[o].at = "migrating"
        /\ Succeeds(s)
        /\ Advance(o)
        /\ schema' = Effect(s, schema)
        /\ versions' = IF s.kind = "record" THEN versions \cup {s.name} ELSE versions
        /\ contested' = (contested \/ (s.kind = "drop" /\ Contested(o)))
        /\ UNCHANGED openerKills

\* the statement raises, and with it the opening
StatementFails(o) ==
    /\ opener[o].at = "migrating"
    /\ ~Succeeds(Current(o))
    /\ opener' = [opener EXCEPT ![o] = Out]
    /\ UNCHANGED <<schema, versions, contested, openerKills>>

KillOpener(o) ==
    /\ opener[o].at = "migrating"
    /\ openerKills < MigrationKills /\ openerKills' = openerKills + 1
    /\ opener' = [opener EXCEPT ![o] = Out]
    /\ UNCHANGED <<schema, versions, contested>>

CloseStore(o) ==
    /\ opener[o].at = "open"
    /\ opener' = [opener EXCEPT ![o] = Out]
    /\ UNCHANGED <<schema, versions, contested, openerKills>>

MigrationNext ==
    \E o \in Openers :
        \/ Open(o)
        \/ RunStatement(o)
        \/ StatementFails(o)
        \/ KillOpener(o)
        \/ CloseStore(o)

MigrationSpec == MigrationInit /\ [][MigrationNext]_migrationVars

-----------------------------------------------------------------------------
(***************************************************************************)
(* No process works on a half-migrated store (migrate.py: "the runner      *)
(* fails closed"): whoever opened it finds every version on record and     *)
(* every table, index and column in place, through any kill between two    *)
(* statements and any overlap of two openers, unless one opener dropped a  *)
(* table while another was migrating or had already done that version.     *)
(***************************************************************************)
NeverOpensTorn ==
    MigrationTypeOK /\ \A o \in Openers :
        opener[o].at = "open" => versions = DOMAIN Scripts /\ (contested \/ schema = Whole)
=============================================================================
