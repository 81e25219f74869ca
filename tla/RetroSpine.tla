----------------------------- MODULE RetroSpine -----------------------------
(***************************************************************************)
(* The learning spine over one store: windows (a maintenance run, or the   *)
(* pass a console makes after a build) that analyse the terminals in the   *)
(* log, sweep it for orphaned builds, and turn the sweep's signals into    *)
(* candidates for review. Every read (the earliest terminal not analysed,  *)
(* the keys already signalled, the queue's duplicates) and the event       *)
(* decided on it are separate steps; windows of several processes          *)
(* interleave, and any may be killed. A build is one attempt of a task.    *)
(***************************************************************************)
EXTENDS Naturals, Sequences, FiniteSets

CONSTANTS
    Windows,     \* processes that drain this store
    Consoles,    \* those that do so after a build; the others are maintenance runs
    Builds,      \* attempts
    Backlog,     \* the attempts already settled when the windows are first opened
    NoContent,   \* an analysis that proposes nothing
    KeyOf,       \* the task and the outcome of each attempt's terminal
    YieldOf,     \* what the analysis of each attempt's terminal proposes
    NeedsLlm,    \* the attempts no T0 signature matches and no quarantine stops
    RuleOf,      \* candidate_guard's rule for each content: see IsDuplicate
    CoreGate,    \* contents that would weaken a core gate
    OrphanChange,\* the gate change a monitor signal maps to
    SpineKills,  \* bound: how many builds and windows are killed
    SpineWindows \* bound: how many windows are opened

Contents == DOMAIN RuleOf

ASSUME RetroAssumption ==
    /\ DOMAIN KeyOf = Builds
    /\ YieldOf \in [Builds -> Contents \cup {NoContent}]
    /\ NoContent \notin Contents
    /\ RuleOf \in [Contents -> {"any state", "pending", "never"}]
    /\ OrphanChange \in Contents
    /\ CoreGate \subseteq Contents
    /\ Backlog \in Seq(Builds)
    /\ Consoles \subseteq Windows
    /\ SpineKills \in Nat /\ SpineWindows \in Nat

VARIABLES
    build,      \* where each attempt is
    terminals,  \* terminal_outcome events, in log order
    signals,    \* invariant_violated events, in log order: the orphan each one names
    analysed,   \* proj_retro_runs, by task and outcome
    drained,    \* proj_signal_retro_runs, by position in signals
    queue,      \* the candidate queues; "closed": approved or rejected
    window,     \* per window: the phases left and the step it is at
    ended,      \* per window: how it left its last phase
    killings,   \* builds and windows killed so far
    openings    \* windows opened so far

retroVars == <<build, terminals, signals, analysed, drained, queue, window, ended, killings, openings>>

Terminals == "terminals"
Sweep == "sweep"
Signals == "signals"

Order(w) ==
    IF w \in Consoles THEN <<Sweep, Terminals, Signals>> ELSE <<Terminals, Sweep, Signals>>

Off == [left |-> <<>>, doing |-> "pick", item |-> 0, todo |-> {}]

BuildStates == {"none", "writing", "judging", "settled", "stranded", "dead", "redriven"}

RetroTypeOK ==
    /\ build \in [Builds -> BuildStates]
    /\ terminals \in Seq(Builds) /\ signals \in Seq(Builds)
    /\ analysed \subseteq {KeyOf[b] : b \in Builds} /\ drained \subseteq DOMAIN signals
    /\ queue \in Seq([content : Contents, state : {"pending", "closed"}])
    /\ \A w \in Windows :
          /\ window[w].doing \in {"pick", "analysing", "emitting", "recording", "reporting"}
          /\ window[w].item \in DOMAIN terminals \cup DOMAIN signals \cup {0}
          /\ window[w].todo \subseteq Builds
    /\ ended \in [Windows -> {"running", "empty", "held", "halted", "killed"}]
    /\ killings \in 0 .. SpineKills /\ openings \in 0 .. SpineWindows

-----------------------------------------------------------------------------
Least(S) == CHOOSE i \in S : \A j \in S : i <= j

LockHeld == \E b \in Builds : build[b] \in {"writing", "stranded"}

\* FermataPacing.active_work: a lock row, or a lifecycle row with no terminal
FermataHeld == \E b \in Builds : build[b] \in {"writing", "stranded", "judging", "dead"}

\* check_terminal_per_task, whose orphan half is skipped while the lock is held
Orphans == IF LockHeld THEN {} ELSE {b \in Builds : build[b] \in {"judging", "dead"}}

Signalled == {signals[i] : i \in DOMAIN signals}

\* Fault: the guard looks at nothing
NeverDuplicate(c) == FALSE

\* is_duplicate_candidate. "any state": an antibody candidate, from an LLM or
\* a T0 signature. "pending": a quarantine record, or a gate change with a
\* signature. "never": a gate change an LLM proposed.
IsDuplicate(c) ==
    \E i \in DOMAIN queue :
        /\ queue[i].content = c
        /\ RuleOf[c] = "any state" \/ (RuleOf[c] = "pending" /\ queue[i].state = "pending")

Phase(w, p) == window[w].left # <<>> /\ Head(window[w].left) = p

At(w, p, step) == Phase(w, p) /\ window[w].doing = step

Goto(w, step, i) == window' = [window EXCEPT ![w].doing = step, ![w].item = i]

Leave(w, how) ==
    /\ window' = [window EXCEPT ![w].left = Tail(@), ![w].doing = "pick", ![w].item = 0, ![w].todo = {}]
    /\ ended' = [ended EXCEPT ![w] = how]

RetroInit ==
    /\ build = [b \in Builds |-> IF b \in {Backlog[i] : i \in DOMAIN Backlog} THEN "settled" ELSE "none"]
    /\ terminals = Backlog /\ signals = <<>>
    /\ analysed = {} /\ drained = {}
    /\ queue = <<>>
    /\ window = [w \in Windows |-> Off]
    /\ ended = [w \in Windows |-> "empty"]
    /\ killings = 0 /\ openings = 0

-----------------------------------------------------------------------------
\* the builds, as the spine sees them
BuildStep(b, from, to) ==
    /\ build[b] = from
    /\ build' = [build EXCEPT ![b] = to]
    /\ UNCHANGED <<signals, analysed, drained, queue, window, ended, openings>>

BuildStarts(b) == ~LockHeld /\ BuildStep(b, "none", "writing") /\ UNCHANGED <<terminals, killings>>

\* the lock is released before the verifier and the reviewer judge the work
LockReleased(b) == BuildStep(b, "writing", "judging") /\ UNCHANGED <<terminals, killings>>

BuildSettles(b) ==
    /\ BuildStep(b, "judging", "settled")
    /\ terminals' = Append(terminals, b)
    /\ UNCHANGED killings

\* a kill leaves the lock row of a writer behind
BuildKilled(b) ==
    /\ \/ BuildStep(b, "writing", "stranded")
       \/ BuildStep(b, "judging", "dead")
    /\ killings < SpineKills /\ killings' = killings + 1
    /\ UNCHANGED terminals

\* a later attempt of the task takes the lifecycle row over
BuildRedriven(b) == BuildStep(b, "dead", "redriven") /\ UNCHANGED <<terminals, killings>>

-----------------------------------------------------------------------------
OpenWindow(w) ==
    /\ window[w].left = <<>>
    /\ window' = [window EXCEPT ![w].left = Order(w)]
    /\ ended' = [ended EXCEPT ![w] = "running"]
    /\ openings < SpineWindows /\ openings' = openings + 1
    /\ UNCHANGED <<build, terminals, signals, analysed, drained, queue, killings>>

\* one of two terminals of a task with the same outcome stands for both
Unanalysed == {i \in DOMAIN terminals : KeyOf[terminals[i]] \notin analysed}

Undrained == DOMAIN signals \ drained

\* RetroScheduler.step: held, nothing to do, or the earliest terminal with no
\* retro_run
PickTerminal(w) ==
    /\ At(w, Terminals, "pick")
    /\ \/ FermataHeld /\ Leave(w, "held")
       \/ ~FermataHeld /\ Unanalysed = {} /\ Leave(w, "empty")
       \/ /\ ~FermataHeld /\ Unanalysed # {}
          /\ Goto(w, "analysing", Least(Unanalysed))
          /\ UNCHANGED ended
    /\ UNCHANGED <<build, terminals, signals, analysed, drained, queue, killings, openings>>

\* RetroEngine.analyze up to the guard: a residue terminal waits on the LLM,
\* which may be unavailable; then the drain halts and the terminal stays
Analyse(w) ==
    /\ At(w, Terminals, "analysing")
    /\ LET b == terminals[window[w].item]
           c == YieldOf[b]
       IN  \/ b \in NeedsLlm /\ Leave(w, "halted")
           \/ /\ Goto(w, IF c = NoContent \/ IsDuplicate(c) THEN "recording" ELSE "emitting", window[w].item)
              /\ UNCHANGED ended
    /\ UNCHANGED <<build, terminals, signals, analysed, drained, queue, killings, openings>>

\* Fault: the earliest terminal is recorded, not the one at hand
RecordEarliest(w) ==
    /\ window[w].left # <<>> /\ window[w].doing = "recording"
    /\ IF Phase(w, Terminals)
       THEN analysed' = analysed \cup {KeyOf[terminals[1]]} /\ UNCHANGED drained
       ELSE drained' = drained \cup {window[w].item} /\ UNCHANGED analysed
    /\ Goto(w, "pick", 0)
    /\ UNCHANGED <<build, terminals, signals, queue, ended, killings, openings>>

\* antibody_candidate or gate_change_candidate: the handler rejects a change
\* that would weaken a core gate as it inserts it
EmitCandidate(w) ==
    /\ window[w].left # <<>> /\ window[w].doing = "emitting"
    /\ LET c == IF Phase(w, Terminals) THEN YieldOf[terminals[window[w].item]] ELSE OrphanChange
       IN  queue' = Append(queue, [content |-> c,
                                   state |-> IF c \in CoreGate THEN "closed" ELSE "pending"])
    /\ Goto(w, "recording", window[w].item)
    /\ UNCHANGED <<build, terminals, signals, analysed, drained, ended, killings, openings>>

\* retro_run, signal_retro_run
Record(w) ==
    /\ window[w].left # <<>> /\ window[w].doing = "recording"
    /\ IF Phase(w, Terminals)
       THEN analysed' = analysed \cup {KeyOf[terminals[window[w].item]]} /\ UNCHANGED drained
       ELSE drained' = drained \cup {window[w].item} /\ UNCHANGED analysed
    /\ Goto(w, "pick", 0)
    /\ UNCHANGED <<build, terminals, signals, queue, ended, killings, openings>>

\* run_invariant_sweep: the keys already signalled and the orphans are read at
\* once, then each new one is emitted
SweepLog(w) ==
    /\ At(w, Sweep, "pick")
    /\ window' = [window EXCEPT ![w].doing = "reporting", ![w].todo = Orphans \ Signalled]
    /\ UNCHANGED <<build, terminals, signals, analysed, drained, queue, ended, killings, openings>>

Report(w, b) ==
    /\ At(w, Sweep, "reporting")
    /\ b \in window[w].todo
    /\ signals' = Append(signals, b)
    /\ window' = [window EXCEPT ![w].todo = @ \ {b}]
    /\ UNCHANGED <<build, terminals, analysed, drained, queue, ended, killings, openings>>

SweepEnds(w) ==
    /\ At(w, Sweep, "reporting") /\ window[w].todo = {}
    /\ Leave(w, "empty")
    /\ UNCHANGED <<build, terminals, signals, analysed, drained, queue, killings, openings>>

\* SignalRetroScheduler.step: the open-candidate guard is read with the signal
PickSignal(w) ==
    /\ At(w, Signals, "pick")
    /\ \/ FermataHeld /\ Leave(w, "held")
       \/ ~FermataHeld /\ Undrained = {} /\ Leave(w, "empty")
       \/ /\ ~FermataHeld /\ Undrained # {}
          /\ Goto(w, IF IsDuplicate(OrphanChange) THEN "recording" ELSE "emitting", Least(Undrained))
          /\ UNCHANGED ended
    /\ UNCHANGED <<build, terminals, signals, analysed, drained, queue, killings, openings>>

WindowKilled(w) ==
    /\ window[w].left # <<>>
    /\ killings < SpineKills
    /\ killings' = killings + 1
    /\ window' = [window EXCEPT ![w] = Off]
    /\ ended' = [ended EXCEPT ![w] = "killed"]
    /\ UNCHANGED <<build, terminals, signals, analysed, drained, queue, openings>>

\* an operator's verdict on a pending candidate (CandidateReview has the rest)
Reviewed(i) ==
    /\ i \in DOMAIN queue /\ queue[i].state = "pending"
    /\ queue' = [queue EXCEPT ![i].state = "closed"]
    /\ UNCHANGED <<build, terminals, signals, analysed, drained, window, ended, killings, openings>>

WindowStep(w) ==
    \/ PickTerminal(w)
    \/ Analyse(w)
    \/ EmitCandidate(w)
    \/ Record(w)
    \/ SweepLog(w)
    \/ \E b \in Builds : Report(w, b)
    \/ SweepEnds(w)
    \/ PickSignal(w)

RetroNext ==
    \/ \E b \in Builds :
          \/ BuildStarts(b)
          \/ LockReleased(b)
          \/ BuildSettles(b)
          \/ BuildKilled(b)
          \/ BuildRedriven(b)
    \/ \E w \in Windows : OpenWindow(w) \/ WindowStep(w) \/ WindowKilled(w)
    \/ \E i \in DOMAIN queue : Reviewed(i)

RetroSpec == RetroInit /\ [][RetroNext]_retroVars

\* A window that is open runs on: drive() and run_retro_drain are loops.
\* Nothing is assumed of who opens one, of builds or of reviewers.
RetroFairness == \A w \in Windows : WF_retroVars(WindowStep(w))

-----------------------------------------------------------------------------
Pending(c) == {i \in DOMAIN queue : queue[i] = [content |-> c, state |-> "pending"]}

(***************************************************************************)
(* The residue of the race that drive.py:14-21 accepts is bounded: whatever*)
(* windows interleave, are killed between a candidate and its retro_run,   *)
(* and analyse the same terminal again, one content has at most as many    *)
(* pending rows as there are windows, and one orphan as many signals.      *)
(***************************************************************************)
RaceResidueBounded ==
    /\ RetroTypeOK
    /\ \A c \in Contents : RuleOf[c] # "never" => Cardinality(Pending(c)) <= Cardinality(Windows)
    /\ \A b \in Builds : Cardinality({i \in DOMAIN signals : signals[i] = b}) <= Cardinality(Windows)

(***************************************************************************)
(* A window ends: two windows that pick the same terminal, a candidate     *)
(* suppressed as a duplicate, an LLM that is unavailable and a build that  *)
(* starts in the middle never make a drain go round for ever               *)
(* (drive.py:48 loops until a step has nothing to do).                     *)
(***************************************************************************)
WindowEnds ==
    \A w \in Windows : window[w].left # <<>> ~> window[w].left = <<>>
=============================================================================
