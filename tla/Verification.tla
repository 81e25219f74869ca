---------------------------- MODULE Verification ----------------------------
(***************************************************************************)
(* Done is earned twice: the class's verifier judges a change in its       *)
(* worktree, and a fresh reviewer has it judged again. Two of the classes  *)
(* compare with the state before the change, which at_baseline reaches by  *)
(* moving the work away: a stash, a checkout of the checkpoint commit, an  *)
(* overlay of the new test, and back. An OSS change is committed between   *)
(* the two passes, and the tests that run leave bytecode caches behind.    *)
(* Worktrees of one repository share one stash, and verification holds no  *)
(* lock.                                                                   *)
(***************************************************************************)
EXTENDS Naturals, Sequences, SequencesExt

CONSTANTS
    Worktrees,
    ChangesIn,    \* per worktree, the changes a developer may leave in it
    PathsOf,      \* per worktree, the ways it may be driven: see Paths
    CheckFaults   \* bound: commands that fail and processes that die

\* what the code does once verification has failed or passed: an attempt
\* with retries left, the last one, or a contribution to another's repository
Paths == {"attempt", "last attempt", "oss"}

Suites == {"pass", "fail", "quoting", "crash"}   \* quoting: it fails, and says what a retryable reason says

TestSets == {"no tests", "one fails", "all pass"}

-----------------------------------------------------------------------------
(* What the tests show of a change, class by class. *)

\* what names the regression test; whether the change brings it along; what
\* it shows on the code without and with the fix
Bugfixes ==
    [class : {"bugfix"}, names : {"task", "diff", "nothing"}, test : {"new", "changed", "kept"},
     unfixed : {"pass", "fail"}, fixed : {"pass", "fail"}, suite : Suites]

Refactors == [class : {"refactor"}, before : TestSets, after : TestSets]

\* covers: adds a test; directs: reads like an instruction to the model
Features ==
    [class : {"feature"}, covers : BOOLEAN, directs : BOOLEAN, criteria : BOOLEAN, suite : Suites]

\* pairs: the (name, version) pairs its manifest lines add
Bumps ==
    [class : {"bump"}, declared : BOOLEAN, pairs : 0 .. 2, tool : BOOLEAN, applies : BOOLEAN,
     manifest : BOOLEAN, lockfile : {"none", "current", "stale"}, suite : Suites]

Scaffolds == [class : {"scaffold"}, suite : Suites]

Changes == Bugfixes \cup Refactors \cup Features \cup Bumps \cup Scaffolds

ASSUME VerificationAssumption ==
    /\ \A w \in Worktrees : /\ ChangesIn[w] # {} /\ ChangesIn[w] \subseteq Changes
                            /\ PathsOf[w] # {} /\ PathsOf[w] \subseteq Paths
    /\ "base" \notin Worktrees
    /\ CheckFaults \in Nat

VARIABLES
    work,         \* per worktree: the change it holds and the way it is driven
    tree,         \* what is checked out: whose code, whose test, caches
    tip,         \* what HEAD holds: the checkpoint, or the bot's commit
    diff,         \* the realized diff in the verifier's context
    stash,        \* the repository's stash, latest last
    check,        \* per worktree, the verification under way
    said,         \* per worktree and pass, what the verifier said
    overlapped,   \* history: worktrees whose comparison overlapped another's
    checkFaults

verificationVars == <<work, tree, tip, diff, stash, check, said, overlapped, checkFaults>>

Base == [code |-> "base", test |-> "base", caches |-> FALSE]

Owners == Worktrees \cup {"base"}

Trees == [code : Owners, test : Owners, caches : BOOLEAN]

Unverified == [acceptance |-> "none", review |-> "none"]

NoCheck == [at |-> "idle", pass |-> "acceptance", stashed |-> FALSE, overlays |-> FALSE, baseline |-> "none"]

ComparisonSteps == {"stashed", "baseline", "captured", "at head"}

EndSteps == {"retry", "rejected", "refused", "certified", "raised", "broken", "killed"}

CheckSteps == {"idle", "written", "called", "compared", "accepted", "rejecting"} \cup ComparisonSteps \cup EndSteps

Axes ==
    {"none", "ok", "raised", "suite", "quoting suite", "regression_command", "baseline_should_fail",
     "post_should_pass", "empty", "divergence", "test_coverage", "spec_claim", "spec_criteria",
     "fields", "bump_applies", "manifest_updates", "lockfile_updates"}

VerificationTypeOK ==
    /\ \A w \in Worktrees : work[w].change \in ChangesIn[w] /\ work[w].path \in Paths
    /\ tree \in [Worktrees -> Trees]
    /\ tip \in [Worktrees -> Trees]
    /\ diff \in [Worktrees -> {"none", "empty", "realized"}]
    /\ stash \in Seq(Trees)
    /\ check \in [Worktrees -> [at : CheckSteps, pass : {"acceptance", "review"}, stashed : BOOLEAN,
                                overlays : BOOLEAN,
                                baseline : {"none", "raised", "pass", "fail"} \cup TestSets]]
    /\ said \in [Worktrees -> [acceptance : Axes, review : Axes]]
    /\ overlapped \subseteq Worktrees
    /\ checkFaults \in 0 .. CheckFaults

-----------------------------------------------------------------------------
Change(w) == work[w].change

CheckIs(w, step) == check[w].at = step

CheckGoes(w, step) == check' = [check EXCEPT ![w].at = step]

TreeBecomes(w, t) == tree' = [tree EXCEPT ![w] = t]

BringsTest(w) == Change(w).class = "bugfix" /\ Change(w).test # "kept"

WorkOf(w) == [code |-> w, test |-> IF BringsTest(w) THEN w ELSE "base", caches |-> FALSE]

Purged(t) == [t EXCEPT !.caches = FALSE]

Dirty(w) == tree[w] # tip[w]

VerificationInit ==
    /\ work = [w \in Worktrees |-> [change |-> CHOOSE c \in ChangesIn[w] : TRUE,
                                    path |-> CHOOSE p \in PathsOf[w] : TRUE]]
    /\ tree = [w \in Worktrees |-> Base]
    /\ tip = [w \in Worktrees |-> Base]
    /\ diff = [w \in Worktrees |-> "none"]
    /\ stash = << >>
    /\ check = [w \in Worktrees |-> NoCheck]
    /\ said = [w \in Worktrees |-> Unverified]
    /\ overlapped = {}
    /\ checkFaults = 0

\* an attempt: the checkpoint is taken, the developer writes and runs tests;
\* a rewound attempt is followed by another, perhaps the last
Develop(w) ==
    /\ check[w].at \in {"idle", "retry"}
    /\ \E c \in ChangesIn[w], p \in PathsOf[w] :
         /\ CheckIs(w, "retry") => p # "oss"
         /\ work' = [work EXCEPT ![w] = [change |-> c, path |-> p]]
    /\ tree' = [tree EXCEPT ![w] = [WorkOf(w)' EXCEPT !.caches = TRUE]]
    /\ check' = [check EXCEPT ![w] = [NoCheck EXCEPT !.at = "written"]]
    /\ said' = [said EXCEPT ![w] = Unverified]
    /\ diff' = [diff EXCEPT ![w] = "none"]
    /\ UNCHANGED <<tip, stash, overlapped, checkFaults>>

\* the context both passes use, with the realized diff
BuildContext(w) ==
    /\ CheckIs(w, "written")
    /\ TreeBecomes(w, Purged(tree[w]))
    /\ diff' = [diff EXCEPT ![w] = IF Purged(tree[w]) = tip[w] THEN "empty" ELSE "realized"]
    /\ CheckGoes(w, "called")
    /\ UNCHANGED <<work, tip, stash, said, overlapped, checkFaults>>

-----------------------------------------------------------------------------
(* at_baseline. *)

\* the task names the regression test, or the diff holds exactly one
HasCommand(w) ==
    \/ Change(w).names = "task"
    \/ Change(w).names = "diff" /\ diff[w] = "realized"

Compares(w) ==
    \/ Change(w).class = "refactor"
    \/ Change(w).class = "bugfix" /\ HasCommand(w)

Comparing(w) == check[w].at \in ComparisonSteps

StashWork(w) ==
    LET others == {v \in Worktrees \ {w} : Comparing(v)}
    IN  /\ CheckIs(w, "called") /\ Compares(w)
        /\ check' = [check EXCEPT ![w] = [@ EXCEPT
               !.at = "stashed", !.stashed = Dirty(w), !.baseline = "none",
               !.overlays = (BringsTest(w) /\ diff[w] = "realized" /\ tree[w].test = w)]]
        /\ stash' = IF Dirty(w) THEN Append(stash, tree[w]) ELSE stash
        /\ TreeBecomes(w, tip[w])
        /\ overlapped' = IF others = {} THEN overlapped ELSE overlapped \cup others \cup {w}
        /\ UNCHANGED <<work, tip, diff, said, checkFaults>>

WithOverlay(w, t) == IF check[w].overlays THEN [t EXCEPT !.test = w] ELSE t

\* Fault: what the stash leaves is taken for the baseline
BaselineByStash(w) ==
    /\ CheckIs(w, "stashed")
    /\ TreeBecomes(w, WithOverlay(w, tree[w]))
    /\ CheckGoes(w, "baseline")
    /\ UNCHANGED <<work, tip, diff, stash, said, overlapped, checkFaults>>

GoToBaseline(w) ==
    /\ CheckIs(w, "stashed")
    /\ TreeBecomes(w, WithOverlay(w, Base))
    /\ CheckGoes(w, "baseline")
    /\ UNCHANGED <<work, tip, diff, stash, said, overlapped, checkFaults>>

\* what the regression test or the test set shows on a tree; of a tree with
\* another's code anything may be shown
ShownOn(w, t) ==
    LET c == Change(w)
    IN  IF c.class = "refactor"
        THEN IF t.code = "base" THEN {c.before} ELSE IF t.code = w THEN {c.after} ELSE TestSets
        ELSE IF BringsTest(w) /\ t.test # w
             THEN IF c.test = "new" THEN {"fail"} ELSE {"pass", "fail"}   \* no such file; an older test
        ELSE IF t.code = "base" THEN {c.unfixed}
        ELSE IF t.code = w THEN {c.fixed}
        ELSE {"pass", "fail"}

Capture(w) ==
    /\ CheckIs(w, "baseline")
    /\ \E r \in ShownOn(w, tree[w]) :
           check' = [check EXCEPT ![w].at = "captured", ![w].baseline = r]
    /\ TreeBecomes(w, [tree[w] EXCEPT !.caches = TRUE])
    /\ UNCHANGED <<work, tip, diff, stash, said, overlapped, checkFaults>>

\* the checkout, the overlay or the command raises: the finally runs
BaselineRaises(w) ==
    /\ check[w].at \in {"stashed", "baseline"}
    /\ checkFaults < CheckFaults /\ checkFaults' = checkFaults + 1
    /\ check' = [check EXCEPT ![w].at = "captured", ![w].baseline = "raised"]
    /\ UNCHANGED <<work, tree, tip, diff, stash, said, overlapped>>

\* the overlay is taken back and HEAD returns; caches stay where they are
RestoreHead(w) ==
    /\ CheckIs(w, "captured")
    /\ TreeBecomes(w, [tip[w] EXCEPT !.caches = tree[w].caches])
    /\ CheckGoes(w, "at head")
    /\ UNCHANGED <<work, tip, diff, stash, said, overlapped, checkFaults>>

\* Fault: the caches the capture left are in the way of those in the stash
LeaveCaches(t) == t

BeforePop(t) == Purged(t)

\* stash pop takes the latest entry, whosever it is; it aborts on a file that is there already
PopWork(w) ==
    LET there == BeforePop(tree[w])
        latest == Last(stash)
        aborts == check[w].stashed /\ there.caches /\ latest.caches
    IN  /\ CheckIs(w, "at head")
        /\ CheckGoes(w, IF aborts THEN "raised" ELSE "compared")
        /\ TreeBecomes(w, IF check[w].stashed /\ ~aborts THEN latest ELSE tree[w])
        /\ stash' = IF check[w].stashed /\ ~aborts THEN Front(stash) ELSE stash
        /\ UNCHANGED <<work, tip, diff, said, overlapped, checkFaults>>

\* a git command of the finally fails: what comes after it is not done
RestoreFails(w) ==
    /\ check[w].at \in {"captured", "at head"}
    /\ checkFaults < CheckFaults /\ checkFaults' = checkFaults + 1
    /\ CheckGoes(w, "broken")
    /\ UNCHANGED <<work, tree, tip, diff, stash, said, overlapped>>

CheckKilled(w) ==
    /\ Comparing(w)
    /\ checkFaults < CheckFaults /\ checkFaults' = checkFaults + 1
    /\ CheckGoes(w, "killed")
    /\ UNCHANGED <<work, tree, tip, diff, stash, said, overlapped>>

-----------------------------------------------------------------------------
(* The verdict. *)

SuiteOn(w) == IF tree[w].code = w THEN {Change(w).suite} ELSE Suites

\* a runner that never starts, tried three times, is no test result
SuiteVerdicts(w) ==
    {IF s = "pass" THEN "ok"
     ELSE IF s = "fail" THEN "suite"
     ELSE IF s = "quoting" THEN "quoting suite" ELSE "raised" : s \in SuiteOn(w)}

BugfixVerdicts(w) ==
    IF ~HasCommand(w) THEN {"regression_command"}
    ELSE IF check[w].baseline = "raised" THEN {"raised"}
    ELSE IF check[w].baseline = "pass" THEN {"baseline_should_fail"}
    ELSE UNION {IF post = "fail" THEN {"post_should_pass"} ELSE SuiteVerdicts(w) : post \in ShownOn(w, tree[w])}

RefactorVerdicts(w) ==
    LET before == check[w].baseline
    IN  IF before = "raised" THEN {"raised"}
        ELSE {IF before = "no tests" /\ after = "no tests" THEN "empty"
              ELSE IF before = after THEN "ok" ELSE "divergence" : after \in ShownOn(w, tree[w])}

\* what the model's answer may be taken for: an error, a verdict field or
\* line, findings without a verdict, prose with a refutation, with a plain or
\* with a negated word of assent
Answers ==
    {"error", "verdict for", "verdict against", "findings", "no findings", "refutation", "assent",
     "negated assent", "neither"}

Affirms(a) == a \in {"verdict for", "no findings", "assent"}

FeatureVerdicts(w) ==
    LET c == Change(w)
        Axis(claim, criteria) ==
            IF c.directs \/ ~Affirms(claim) THEN "spec_claim"
            ELSE IF c.criteria /\ ~Affirms(criteria) THEN "spec_criteria" ELSE "ok"
    IN  UNION {IF s # "ok" THEN {s}
               ELSE IF ~(c.covers /\ diff[w] = "realized") THEN {"test_coverage"}
               ELSE {Axis(a, b) : a, b \in Answers} : s \in SuiteVerdicts(w)}

\* the plan's fields, or those of the diff's only pair and a tool to apply it
FieldsKnown(w) ==
    LET c == Change(w)
    IN  c.declared \/ (diff[w] = "realized" /\ c.pairs = 1 /\ c.tool)

BumpVerdicts(w) ==
    LET c == Change(w)
    IN  IF ~FieldsKnown(w) THEN {"fields"}
        ELSE IF ~c.applies THEN {"bump_applies"}
        ELSE IF ~c.manifest THEN {"manifest_updates"}
        ELSE IF c.lockfile = "stale" THEN {"lockfile_updates"}
        ELSE SuiteVerdicts(w)

Verdicts(w) ==
    CASE Change(w).class = "bugfix" -> BugfixVerdicts(w)
      [] Change(w).class = "refactor" -> RefactorVerdicts(w)
      [] Change(w).class = "feature" -> FeatureVerdicts(w)
      [] Change(w).class = "bump" -> BumpVerdicts(w)
      [] Change(w).class = "scaffold" -> SuiteVerdicts(w)

AfterVerdict(pass, v) ==
    IF v = "raised" THEN "raised"
    ELSE IF pass = "acceptance" THEN IF v = "ok" THEN "accepted" ELSE "rejecting"
    ELSE IF v = "ok" THEN "certified" ELSE "refused"

Judge(w) ==
    /\ CheckIs(w, "compared") \/ (CheckIs(w, "called") /\ ~Compares(w))
    /\ \E v \in Verdicts(w) :
         /\ said' = [said EXCEPT ![w][check[w].pass] = v]
         /\ CheckGoes(w, AfterVerdict(check[w].pass, v))
    /\ TreeBecomes(w, [tree[w] EXCEPT !.caches = TRUE])
    /\ UNCHANGED <<work, tip, diff, stash, overlapped, checkFaults>>

-----------------------------------------------------------------------------
(* Between the passes, and after a failure. *)

ReviewNextPass(w) == check' = [check EXCEPT ![w] = [NoCheck EXCEPT !.at = "called", !.pass = "review"]]

ReviewAccepted(w) ==
    /\ CheckIs(w, "accepted") /\ work[w].path # "oss"
    /\ ReviewNextPass(w)
    /\ UNCHANGED <<work, tree, tip, diff, stash, said, overlapped, checkFaults>>

\* the bot's commit, caches purged first; the review keeps the context from before it
CommitAccepted(w) ==
    /\ CheckIs(w, "accepted") /\ work[w].path = "oss"
    /\ TreeBecomes(w, Purged(tree[w]))
    /\ tip' = [tip EXCEPT ![w] = Purged(tree[w])]
    /\ ReviewNextPass(w)
    /\ UNCHANGED <<work, diff, stash, said, overlapped, checkFaults>>

\* what the reason is searched for: a suite's output is part of it
Retryable(w) ==
    /\ work[w].path = "attempt"
    /\ said[w].acceptance \in {"spec_claim", "test_coverage", "quoting suite"}

RewindWork(w) ==
    /\ CheckIs(w, "rejecting")
    /\ TreeBecomes(w, Base)
    /\ CheckGoes(w, IF Retryable(w) THEN "retry" ELSE "rejected")
    /\ UNCHANGED <<work, tip, diff, stash, said, overlapped, checkFaults>>

VerificationNext ==
    \E w \in Worktrees :
        \/ Develop(w)
        \/ BuildContext(w)
        \/ StashWork(w)
        \/ GoToBaseline(w)
        \/ Capture(w)
        \/ BaselineRaises(w)
        \/ RestoreHead(w)
        \/ PopWork(w)
        \/ RestoreFails(w)
        \/ CheckKilled(w)
        \/ Judge(w)
        \/ ReviewAccepted(w)
        \/ CommitAccepted(w)
        \/ RewindWork(w)

VerificationSpec == VerificationInit /\ [][VerificationNext]_verificationVars

-----------------------------------------------------------------------------
\* what each class promises of the change itself, wherever it is checked out
ClaimHolds(c) ==
    CASE c.class = "bugfix" -> c.names # "nothing" /\ c.unfixed = "fail" /\ c.fixed = "pass" /\ c.suite = "pass"
      [] c.class = "refactor" -> c.before = c.after /\ c.before # "no tests"
      [] c.class = "feature" -> c.covers /\ c.suite = "pass"
      [] c.class = "bump" -> /\ c.declared \/ (c.pairs = 1 /\ c.tool)
                             /\ c.applies /\ c.manifest /\ c.lockfile # "stale" /\ c.suite = "pass"
      [] c.class = "scaffold" -> c.suite = "pass"

\* a failure that is the model's word or no verdict at all refutes nothing
Refuting == Axes \ {"none", "ok", "raised", "spec_claim", "spec_criteria"}

(***************************************************************************)
(* A verdict is about the change, not about where the check found it: in   *)
(* the acceptance pass, with the work uncommitted, and in the review, with *)
(* an OSS change already committed, a pass means that the class's claim    *)
(* holds and a failed axis that it does not - whatever the overlay, the    *)
(* stash and a diff taken before the commit do in between. Comparisons     *)
(* that overlapped in one repository are outside it: they may swap their   *)
(* work.                                                                   *)
(***************************************************************************)
VerdictIsClaim ==
    VerificationTypeOK /\ \A w \in Worktrees \ overlapped : \A pass \in {"acceptance", "review"} :
        /\ said[w][pass] = "ok" => ClaimHolds(Change(w))
        /\ said[w][pass] \in Refuting => ~ClaimHolds(Change(w))

\* a check that is over has left the developer's change in the worktree; one
\* that is under way, or was cut short, has it in the stash or the commit
WorkIsBack(w) ==
    /\ check[w].at \in {"written", "called", "compared", "accepted", "rejecting",
                        "refused", "certified", "raised"}
         => Purged(tree[w]) = WorkOf(w)
    /\ Comparing(w) \/ check[w].at \in {"broken", "killed"}
         => WorkOf(w) \in {Purged(t) : t \in Range(stash) \cup {tree[w], tip[w]}}

(***************************************************************************)
(* at_baseline gives back the work it took away: after a comparison, one   *)
(* that raised included, the worktree holds the developer's change again,  *)
(* and not even a killed check or a failed restore loses it. Comparisons   *)
(* that overlapped in one repository are left out.                         *)
(***************************************************************************)
WorkComesBack == \A w \in Worktrees \ overlapped : WorkIsBack(w)

(***************************************************************************)
(* _baseline.py:35-36 says that the HEAD detach and the stash are always      *)
(* restored. Not so when two worktrees of one repository are compared at   *)
(* once: they share the stash, and each pops whatever is on top of it.     *)
(***************************************************************************)
StashAlwaysRestored == \A w \in Worktrees : WorkIsBack(w)
=============================================================================
