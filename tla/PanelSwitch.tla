---------------------------- MODULE PanelSwitch ----------------------------
(***************************************************************************)
(* The panel's store switch (panel/server.py) under the threads that serve *)
(* its requests: each request reads panel.session, panel.writer and        *)
(* panel.runner one at a time, while a switch replaces them one at a time; *)
(* no lock covers either. A build runs on the runner it was submitted to,  *)
(* in the target its request's session holds; a target is typed for the    *)
(* store the page shows. A target is represented by the store it is meant  *)
(* for. The single flight of one runner is WriteLock's.                    *)
(***************************************************************************)
EXTENDS Naturals, Sequences, FiniteSets

CONSTANTS
    Stores,
    FirstStore,   \* the store the panel is started on
    Requests,     \* request threads
    NoTarget,
    SwitchCap     \* bound: switches begun

ASSUME PanelAssumption ==
    /\ FirstStore \in Stores
    /\ NoTarget \notin [for : Stores, clean : BOOLEAN]
    /\ SwitchCap \in Nat

VARIABLES
    path,      \* panel.db_path: what the page shows
    writers,   \* every PanelWriter made: its store, and whether it is open
    sessions,  \* every PanelSession made: its target
    runners,   \* every BuildRunner made: its store, its writer, and whether its slot is taken
    panel,     \* the writer, session and runner in place
    targetRow, \* per store: the target of its last build_target_set
    request,   \* per request: where it is and what it has read
    assembles, \* assemblies made (a history)
    switches,  \* switches begun
    collided   \* two switches have been under way at once (a history)

switchVars == <<switches, collided>>

panelVars == <<path, writers, sessions, runners, panel, targetRow, request, assembles, switchVars>>

storeVars == <<path, writers, sessions, runners, panel, switchVars>>

Swaps == {"opening", "swapping session", "swapping runner", "closing", "restoring"}

Idling == [doing |-> "idle", session |-> 1, writer |-> 1, runner |-> 1,
           store |-> FirstStore, target |-> NoTarget, clean |-> TRUE]

Targets == [for : Stores, clean : BOOLEAN]

PanelTypeOK ==
    /\ path \in Stores
    /\ writers \in Seq([store : Stores, open : BOOLEAN])
    /\ sessions \in Seq(Targets \cup {NoTarget})
    /\ runners \in Seq([store : Stores, writer : DOMAIN writers, busy : BOOLEAN])
    /\ panel \in [writer : DOMAIN writers, session : DOMAIN sessions, runner : DOMAIN runners]
    /\ targetRow \in [Stores -> Targets \cup {NoTarget}]
    /\ request \in [Requests ->
          [doing : Swaps \cup {"idle", "submitting", "starting", "building", "targeting", "preparing", "inline"},
           session : DOMAIN sessions, writer : DOMAIN writers, runner : DOMAIN runners,
           store : Stores, target : Targets \cup {NoTarget}, clean : BOOLEAN]]
    /\ assembles \subseteq [store : Stores, target : Targets, clean : BOOLEAN]
    /\ switches \in 0 .. SwitchCap
    /\ collided \in BOOLEAN

-----------------------------------------------------------------------------
Doing(r, step) == request[r].doing = step

Goes(r, step) == request' = [request EXCEPT ![r].doing = step]

Ends(r) == request' = [request EXCEPT ![r] = Idling]

Switching == {r \in Requests : request[r].doing \in Swaps}

\* the page shows the store that is written, no switch is replacing it, and no
\* two switches have run into each other
Settled ==
    /\ Switching = {}
    /\ ~collided
    /\ writers[panel.writer].store = path

PanelInit ==
    /\ path = FirstStore
    /\ writers = <<[store |-> FirstStore, open |-> TRUE]>>
    /\ sessions = <<NoTarget>>
    /\ runners = <<[store |-> FirstStore, writer |-> 1, busy |-> FALSE]>>
    /\ panel = [writer |-> 1, session |-> 1, runner |-> 1]
    /\ targetRow = [s \in Stores |-> NoTarget]
    /\ request = [r \in Requests |-> Idling]
    /\ assembles = {}
    /\ switches = 0
    /\ collided = FALSE

-----------------------------------------------------------------------------
\* post_dispatch: the session first, the runner when it submits
BeginDispatch(r) ==
    /\ Doing(r, "idle")
    /\ request' = [request EXCEPT ![r] = [Idling EXCEPT !.doing = "submitting", !.session = panel.session,
                                                        !.clean = Settled]]
    /\ UNCHANGED <<storeVars, targetRow, assembles>>

\* BuildRunner.submit; a BusyError ends the request
SubmitBuild(r) ==
    /\ Doing(r, "submitting")
    /\ IF runners[panel.runner].busy
       THEN Ends(r) /\ UNCHANGED runners
       ELSE /\ runners' = [runners EXCEPT ![panel.runner].busy = TRUE]
            /\ request' = [request EXCEPT ![r].doing = "starting", ![r].runner = panel.runner]
    /\ UNCHANGED <<path, writers, sessions, panel, switchVars, targetRow, assembles>>

\* the step reads its session's target on its own thread
StartBuild(r) ==
    /\ Doing(r, "starting")
    /\ LET t == sessions[request[r].session]
       IN  IF t = NoTarget
           THEN Ends(r) /\ runners' = [runners EXCEPT ![request[r].runner].busy = FALSE]
           ELSE /\ request' = [request EXCEPT ![r].doing = "building", ![r].target = t]
                /\ UNCHANGED runners
    /\ UNCHANGED <<path, writers, sessions, panel, switchVars, targetRow, assembles>>

EndBuild(r) ==
    /\ Doing(r, "building")
    /\ Ends(r)
    /\ runners' = [runners EXCEPT ![request[r].runner].busy = FALSE]
    /\ UNCHANGED <<path, writers, sessions, panel, switchVars, targetRow, assembles>>

\* post_target_set: the session, then the writer
BeginTarget(r) ==
    /\ Doing(r, "idle")
    /\ request' = [request EXCEPT ![r] = [Idling EXCEPT !.doing = "targeting", !.session = panel.session,
                                                        !.store = path, !.clean = Settled]]
    /\ UNCHANGED <<storeVars, targetRow, assembles>>

PrepareTarget(r) ==
    /\ Doing(r, "targeting")
    /\ request' = [request EXCEPT ![r].doing = "preparing", ![r].writer = panel.writer]
    /\ UNCHANGED <<storeVars, targetRow, assembles>>

\* the session has its target before the event; a closed writer raises
SetTarget(r) ==
    /\ Doing(r, "preparing")
    /\ LET t == [for |-> request[r].store, clean |-> request[r].clean]
           w == writers[request[r].writer]
       IN  /\ sessions' = [sessions EXCEPT ![request[r].session] = t]
           /\ targetRow' = IF w.open THEN [targetRow EXCEPT ![w.store] = t] ELSE targetRow
    /\ Ends(r)
    /\ UNCHANGED <<path, writers, runners, panel, switchVars, assembles>>

\* post_assemble: the writer, then, under its lock, the session's target
BeginInline(r) ==
    /\ Doing(r, "idle")
    /\ request' = [request EXCEPT ![r] = [Idling EXCEPT !.doing = "inline", !.writer = panel.writer,
                                                        !.clean = Settled]]
    /\ UNCHANGED <<storeVars, targetRow, assembles>>

Assemble(r) ==
    /\ Doing(r, "inline")
    /\ LET w == writers[request[r].writer]
           t == sessions[panel.session]
       IN  assembles' = IF w.open /\ t # NoTarget
                        THEN assembles \cup {[store |-> w.store, target |-> t, clean |-> request[r].clean]}
                        ELSE assembles
    /\ Ends(r)
    /\ UNCHANGED <<storeVars, targetRow>>

-----------------------------------------------------------------------------
\* requests under way that have yet to read something
Reading == {"submitting", "targeting", "preparing", "inline"}

BeginSwap(r, s) ==
    /\ switches < SwitchCap /\ switches' = switches + 1
    /\ collided' = (collided \/ Switching # {})
    /\ path' = s
    /\ request' = [q \in Requests |->
           IF q = r THEN [Idling EXCEPT !.doing = "opening", !.writer = panel.writer]
           ELSE IF request[q].doing \in Reading THEN [request[q] EXCEPT !.clean = FALSE]
           ELSE request[q]]
    /\ UNCHANGED <<writers, sessions, runners, panel, targetRow, assembles>>

\* Fault: the switch does not look at the build slot
SwitchUnchecked(r, s) == Doing(r, "idle") /\ BeginSwap(r, s)

\* Panel.switch: refused while the runner in place is busy
Switch(r, s) ==
    /\ Doing(r, "idle")
    /\ ~runners[panel.runner].busy
    /\ BeginSwap(r, s)

\* a store that cannot be opened ends the switch after db_path was set
SwitchFails(r) ==
    /\ Doing(r, "opening")
    /\ Ends(r)
    /\ UNCHANGED <<storeVars, targetRow, assembles>>

SwapWriter(r) ==
    /\ Doing(r, "opening")
    /\ writers' = Append(writers, [store |-> path, open |-> TRUE])
    /\ panel' = [panel EXCEPT !.writer = Len(writers) + 1]
    /\ Goes(r, "swapping session")
    /\ UNCHANGED <<path, sessions, runners, switchVars, targetRow, assembles>>

SwapSession(r) ==
    /\ Doing(r, "swapping session")
    /\ sessions' = Append(sessions, NoTarget)
    /\ panel' = [panel EXCEPT !.session = Len(sessions) + 1]
    /\ Goes(r, "swapping runner")
    /\ UNCHANGED <<path, writers, runners, switchVars, targetRow, assembles>>

SwapRunner(r) ==
    /\ Doing(r, "swapping runner")
    /\ runners' = Append(runners, [store |-> path, writer |-> panel.writer, busy |-> FALSE])
    /\ panel' = [panel EXCEPT !.runner = Len(runners) + 1]
    /\ Goes(r, "closing")
    /\ UNCHANGED <<path, writers, sessions, switchVars, targetRow, assembles>>

CloseOldWriter(r) ==
    /\ Doing(r, "closing")
    /\ writers' = [writers EXCEPT ![request[r].writer].open = FALSE]
    /\ Goes(r, "restoring")
    /\ UNCHANGED <<path, sessions, runners, panel, switchVars, targetRow, assembles>>

\* the store's last targetRow target, if it has one
RestoreTarget(r) ==
    /\ Doing(r, "restoring")
    /\ sessions' = IF targetRow[path] = NoTarget THEN sessions
                   ELSE [sessions EXCEPT ![panel.session] = targetRow[path]]
    /\ Ends(r)
    /\ UNCHANGED <<path, writers, runners, panel, switchVars, targetRow, assembles>>

PanelNext ==
    \E r \in Requests :
        \/ BeginDispatch(r)
        \/ SubmitBuild(r)
        \/ StartBuild(r)
        \/ EndBuild(r)
        \/ BeginTarget(r)
        \/ PrepareTarget(r)
        \/ SetTarget(r)
        \/ BeginInline(r)
        \/ Assemble(r)
        \/ \E s \in Stores : Switch(r, s)
        \/ SwitchFails(r)
        \/ SwapWriter(r)
        \/ SwapSession(r)
        \/ SwapRunner(r)
        \/ CloseOldWriter(r)
        \/ RestoreTarget(r)

PanelSpec == PanelInit /\ [][PanelNext]_panelVars

-----------------------------------------------------------------------------
Building == {r \in Requests : request[r].clean /\ request[r].doing \in {"starting", "building"}}

(***************************************************************************)
(* Between switches the stores do not mix, as long as switches come one at *)
(* a time: two that overlap can leave the writer, the session and the      *)
(* runner of different stores for good. Of the builds whose request no     *)
(* switch overlapped, at most one runs in the whole panel, whatever        *)
(* runners were replaced meanwhile; its store stays open; and it builds in *)
(* a target that was set for that store, as every assembly merges into     *)
(* one, unless the target itself was set across a switch (server.py:154:   *)
(* a switch is refused mid-build).                                         *)
(***************************************************************************)
StoresDoNotMix ==
    /\ PanelTypeOK
    /\ Cardinality(Building) <= 1
    /\ \A r \in Building :
          LET run == runners[request[r].runner]
          IN  /\ writers[run.writer] = [store |-> run.store, open |-> TRUE]
              /\ request[r].doing = "building" /\ request[r].target.clean => request[r].target.for = run.store
    /\ \A a \in assembles : a.clean /\ a.target.clean => a.target.for = a.store
=============================================================================
