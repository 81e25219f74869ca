----------------------------- MODULE MCProgress -----------------------------
(***************************************************************************)
(* The machines that must get somewhere - the windows of the learning      *)
(* spine, the research interview, the event relay and the surfaces that    *)
(* show the log - on small instances. They share no variable; focus picks  *)
(* the one a behaviour runs. Liveness is checked, so no symmetry is        *)
(* declared.                                                               *)
(***************************************************************************)
EXTENDS RetroSpine, Interview, EventRelay, ProgressTail, TLC

VARIABLE focus

OneSettled == <<"b1">>

\* attempts of two tasks
TaskEach == [b \in Builds |-> b]

AntibodyEach == [b \in Builds |-> "antibody"]

\* candidate_guard.py: an antibody is compared in any state, an orphan's
\* gate change with the pending ones
GuardRules == ("antibody" :> "any state") @@ ("orphan" :> "pending")

\* run_research.py's default correlation
SameCorrelation == [i \in Interviews |-> "specledger"]

OnKindA == [c \in Clients |-> "a"]

SpineStep ==
    focus = "spine" /\ RetroNext /\ UNCHANGED <<focus, interviewVars, relayVars, tailVars>>

InterviewTurn ==
    focus = "interview" /\ InterviewNext /\ UNCHANGED <<focus, retroVars, relayVars, tailVars>>

RelayStep ==
    focus = "relay" /\ RelayNext /\ UNCHANGED <<focus, retroVars, interviewVars, tailVars>>

TailStep ==
    focus = "tail" /\ TailNext /\ UNCHANGED <<focus, retroVars, interviewVars, relayVars>>

ProgressInit ==
    /\ focus \in {"spine", "interview", "relay", "tail"}
    /\ RetroInit /\ InterviewInit /\ RelayInit /\ TailInit

ProgressNext == SpineStep \/ InterviewTurn \/ RelayStep \/ TailStep

progressVars == <<focus, retroVars, interviewVars, relayVars, tailVars>>

\* the fairness of each machine, while it is the one that runs
ProgressFairness ==
    /\ \A w \in Windows : WF_progressVars(focus = "spine" /\ WindowStep(w) /\ UNCHANGED <<focus, interviewVars, relayVars, tailVars>>)
    /\ \A i \in Interviews : WF_progressVars(focus = "interview" /\ InterviewStep(i) /\ UNCHANGED <<focus, retroVars, relayVars, tailVars>>)
    /\ WF_progressVars(focus = "relay" /\ PollerStep /\ UNCHANGED <<focus, retroVars, interviewVars, tailVars>>)
    /\ \A c \in Clients : WF_progressVars(focus = "relay" /\ StreamStep(c) /\ UNCHANGED <<focus, retroVars, interviewVars, tailVars>>)
    /\ WF_progressVars(focus = "tail" /\ Follower /\ UNCHANGED <<focus, retroVars, interviewVars, relayVars>>)
    /\ WF_progressVars(focus = "tail" /\ PagePoll /\ UNCHANGED <<focus, retroVars, interviewVars, relayVars>>)

ProgressSpec ==
    ProgressInit /\ [][ProgressNext]_progressVars /\ ProgressFairness

(***************************************************************************)
(* An event is seen through to the operator: it arrives at every relay     *)
(* connection that can still take it (EventArrives), and the TUI's pane    *)
(* and the panel's log come to show it (EventIsShown).                     *)
(***************************************************************************)
EventReachesOperator == EventArrives /\ EventIsShown
=============================================================================
