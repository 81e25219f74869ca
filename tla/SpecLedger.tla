----------------------------- MODULE SpecLedger ----------------------------
(***************************************************************************)
(* specledger, one of the programs the harness built (src/specledger): it  *)
(* finds the repository, runs four checks over its files and reports every *)
(* violation. repo is what the checks read of it; a file that is missing   *)
(* or cannot be parsed is Absent. A violation is <<its check, what is      *)
(* wrong, about what>>.                                                    *)
(***************************************************************************)
EXTENDS Naturals, Sequences, FiniteSets, FiniteSetsExt

CONSTANTS
    Repositories,   \* the repositories looked at
    Absent,
    PadWidth,       \* the digits a migration's number is padded to (4)
    LogOnly,        \* EVENT_LOG_ONLY
    LoopTiles       \* the tiles whose name begins with proj_

\* how many digits write n
Width[n \in Nat] == IF n < 10 THEN 1 ELSE 1 + Width[n \div 10]

\* The migration files: the number in a file's prefix and how many digits it is
\* written with, none when the name has no prefix, and what follows the underscore.
Directory(files) ==
    /\ IsFiniteSet(files)
    /\ \A f \in files : /\ f.number \in Nat /\ f.digits \in Nat
                        /\ f.digits > 0 => Width[f.number] <= f.digits

ASSUME LedgerAssumption ==
    /\ PadWidth \in Nat \ {0}
    /\ \A r \in Repositories :
          /\ DOMAIN r = {"root", "files", "registry", "dispatch", "tiles", "handled", "changelog",
                         "git", "manifest", "spec", "app", "loop"}
          /\ r.root # Absent /\ r.handled # Absent /\ r.loop # Absent
          /\ r.files # Absent => Directory(r.files)

VARIABLES
    repo,       \* root, files, registry, dispatch, tiles, handled, changelog, git, manifest, spec, app, loop
    checksRun,
    violations,
    report

ledgerVars == <<repo, checksRun, violations, report>>

Checks == <<"migrations", "events", "changelog", "tiles">>

LedgerTypeOK ==
    /\ checksRun \in 0 .. Len(Checks)
    /\ \A v \in violations : \E i \in 1 .. checksRun : v[1] = Checks[i]
    /\ report \in {"none", "clean", "violations"}

-----------------------------------------------------------------------------
\* an f"{n:04d}"
Padded(n) == IF Width[n] <= PadWidth THEN PadWidth ELSE Width[n]

Numbered(files) == {f \in files : f.digits > 0}

Numbers(files) == {f.number : f \in Numbered(files)}

Wrong(check, what, S) == {<<check, what, x>> : x \in S}

\* Fault: numbers are counted as names, so two files may share one
ContiguityOfNumbers(files) ==
    LET numbers == Numbers(files)
    IN  IF files = Absent THEN {<<"migrations", "no directory", "">>}
        ELSE Wrong("migrations", "no prefix", files \ Numbered(files))
             \cup Wrong("migrations", "not padded", {f \in Numbered(files) : f.digits # Padded(f.number)})
             \cup (IF numbers = {} THEN {<<"migrations", "none", "">>}
                   ELSE Wrong("migrations", "start", {Min(numbers)} \ {1})
                        \cup Wrong("migrations", "gap", (Min(numbers) .. Max(numbers)) \ numbers))

\* check_migration_contiguity
Contiguity(files) ==
    LET numbers == Numbers(files)
    IN  IF files = Absent THEN {<<"migrations", "no directory", "">>}
        ELSE Wrong("migrations", "no prefix", files \ Numbered(files))
             \cup Wrong("migrations", "not padded", {f \in Numbered(files) : f.digits # Padded(f.number)})
             \cup (IF numbers = {} THEN {<<"migrations", "none", "">>}
                   ELSE Wrong("migrations", "twice",
                              {n \in numbers : Cardinality({f \in Numbered(files) : f.number = n}) > 1})
                        \cup Wrong("migrations", "start", {Min(numbers)} \ {1})
                        \cup Wrong("migrations", "gap", (Min(numbers) .. Max(numbers)) \ numbers))

\* _check_tile_event_coverage: handled is what tiles.js and the components
\* subscribe to
TileCoverage(r) ==
    IF r.tiles = Absent THEN {<<"events", "no tiles", "">>}
    ELSE Wrong("events", "unhandled", r.registry \ (r.handled \cup LogOnly))

\* check_event_dispatch_coverage
DispatchCoverage(r) ==
    IF Absent \in {r.registry, r.dispatch} THEN {<<"events", "unreadable", "">>}
    ELSE Wrong("events", "not dispatched", r.registry \ r.dispatch)
         \cup Wrong("events", "not registered", r.dispatch \ r.registry)
         \cup TileCoverage(r)

\* sha_resolvable: git is the commits there are, Absent outside a work tree or
\* without the git command
Resolves(git, sha) == git # Absent /\ sha \in git

\* check_changelog_sha_resolvable
ShasResolvable(r) ==
    IF r.changelog = Absent THEN {<<"changelog", "no changelog", "">>}
    ELSE IF r.git = Absent THEN {<<"changelog", "no repository", "">>}
    ELSE Wrong("changelog", "unresolved", {sha \in r.changelog : ~Resolves(r.git, sha)})

\* _check_app_render_coverage: app is the tiles whose component is imported
\* and rendered, loop whether TILES is rendered one by one
RenderCoverage(r) ==
    IF r.app = Absent THEN {<<"tiles", "no app", "">>}
    ELSE Wrong("tiles", "not rendered", r.manifest \ (r.app \cup (IF r.loop THEN LoopTiles ELSE {})))

\* check_orphaned_tiles
OrphanedTiles(r) ==
    IF Absent \in {r.manifest, r.spec} THEN {<<"tiles", "unreadable", "">>}
    ELSE IF r.spec = {} THEN {<<"tiles", "no manifest in the spec", "">>}
    ELSE Wrong("tiles", "not in the spec", r.manifest \ r.spec)
         \cup Wrong("tiles", "not in the manifest", r.spec \ r.manifest)
         \cup RenderCoverage(r)

Found(check) ==
    CASE check = "migrations" -> Contiguity(repo.files)
      [] check = "events" -> DispatchCoverage(repo)
      [] check = "changelog" -> ShasResolvable(repo)
      [] check = "tiles" -> OrphanedTiles(repo)

-----------------------------------------------------------------------------
LedgerStart(r) ==
    /\ repo = r
    /\ checksRun = 0 /\ violations = {} /\ report = "none"

LedgerInit == \E r \in Repositories : LedgerStart(r)

\* main: no directory above holds both .git and the spec
NoRoot ==
    /\ report = "none" /\ ~repo.root
    /\ report' = "violations"
    /\ UNCHANGED <<repo, checksRun, violations>>

\* run_all_checks
RunCheck ==
    /\ report = "none" /\ repo.root /\ checksRun < Len(Checks)
    /\ violations' = violations \cup Found(Checks[checksRun + 1])
    /\ checksRun' = checksRun + 1
    /\ UNCHANGED <<repo, report>>

\* build_report
BuildReport ==
    /\ report = "none" /\ checksRun = Len(Checks)
    /\ report' = IF violations = {} THEN "clean" ELSE "violations"
    /\ UNCHANGED <<repo, checksRun, violations>>

LedgerNext == NoRoot \/ RunCheck \/ BuildReport

LedgerSpec == LedgerInit /\ [][LedgerNext]_ledgerVars

-----------------------------------------------------------------------------
\* migrate.discover: the runner that will read the files
Discovers(files) ==
    /\ \A f \in files : f.digits = PadWidth /\ f.stem # ""
    /\ Cardinality(Numbers(files)) = Cardinality(files)
    /\ Numbers(files) = 1 .. Cardinality(files)

\* names the runner does not read and specledger does: nothing after the
\* underscore, and a number with more digits than the padding
ReadDifferently(files) ==
    \E f \in files : f.stem = "" \/ f.digits > PadWidth

About(what) == {v[3] : v \in {x \in violations : x[2] = what}}

(***************************************************************************)
(* A clean report can be relied on, and a report tells what to repair: the *)
(* migration runner reads exactly the directories, not empty, whose files  *)
(* specledger passes - but for names ReadDifferently holds of (checks.py:  *)
(* 73, migrate.py:14) - and the lists agree once the events and tiles that *)
(* the report names are added where they lack and dropped where they are   *)
(* strangers (checks.py:225, checks.py:371).                               *)
(***************************************************************************)
LedgerMeans ==
    report # "none" /\ repo.root =>
        /\ report = "clean" => \A part \in DOMAIN repo : repo[part] # Absent
        /\ repo.files # Absent /\ ~ReadDifferently(repo.files) =>
              ((\A v \in violations : v[1] # "migrations") <=> Discovers(repo.files) /\ repo.files # {})
        /\ Absent \notin {repo.registry, repo.dispatch, repo.tiles} =>
              /\ (repo.dispatch \cup About("not dispatched")) \ About("not registered") = repo.registry
              /\ repo.registry \subseteq repo.handled \cup LogOnly \cup About("unhandled")
        /\ Absent \notin {repo.manifest, repo.spec, repo.app} /\ repo.spec # {} =>
              /\ (repo.manifest \cup About("not in the manifest")) \ About("not in the spec") = repo.spec
              /\ ~repo.loop => repo.manifest \subseteq repo.app \cup About("not rendered")
=============================================================================
