---------------------------- MODULE ProgressTail ---------------------------
(***************************************************************************)
(* Where the operator watches the log go by. The TUI's progress pane       *)
(* follows the sidecar, which serves the store it was launched on, and     *)
(* from the first error or silence of the stream on polls the store the    *)
(* console is on. The panel's page asks the server for the rows after the  *)
(* last one it shows, a page of them at a time. Both surfaces may be       *)
(* switched to another store. Every event is one that the panes show; the  *)
(* sidecar's stream is the log in order, as EventRelay's StreamIsLog has   *)
(* it for a connection without a flaw.                                     *)
(***************************************************************************)
EXTENDS Naturals, Sequences, LogOps

CONSTANTS
    TailStores,
    Launched,      \* the store the sidecar, the TUI and the panel start on
    PageRows,      \* the most rows one answer carries (500)
    TailLogCap,    \* bound: events per store
    TailMoves      \* bound: switches to another store and reloads of the page

ASSUME TailAssumption ==
    /\ Launched \in TailStores
    /\ PageRows \in Nat \ {0}
    /\ TailLogCap \in Nat /\ TailMoves \in Nat

VARIABLES
    head,      \* per store: the seq of its last event
    tui,       \* the console: its store, and its thread's stream or its poll timer;
               \* since (a history) is where it started to poll this store
    pane,      \* the lines of the progress pane
    page,      \* the page: its store, lastSeq, and the answer on its way to it
    pageLog,   \* the lines of the page's log
    tailMoves

tailVars == <<head, tui, pane, page, pageLog, tailMoves>>

Lines == [store : TailStores, seq : 1 .. TailLogCap]

TailTypeOK ==
    /\ head \in [TailStores -> 0 .. TailLogCap]
    /\ tui \in [store : TailStores, by : {"stream", "nothing", "poll"},
                read : 0 .. TailLogCap, block : BOOLEAN, pollSeq : 0 .. TailLogCap,
                since : 0 .. TailLogCap]
    /\ pane \in Seq(Lines)
    /\ page \in [store : TailStores, lastSeq : 0 .. TailLogCap, answer : Seq(Lines),
                 moved : BOOLEAN]
    /\ pageLog \in Seq(Lines)
    /\ tailMoves \in 0 .. TailMoves

-----------------------------------------------------------------------------
\* SELECT ... WHERE seq > ? ORDER BY seq
RowsAfter(s, seq) == [i \in 1 .. head[s] - seq |-> [store |-> s, seq |-> seq + i]]

AtMost(n, rows) == SubSeq(rows, 1, IF Len(rows) < n THEN Len(rows) ELSE n)

\* on_mount starts the follower; the page starts with nothing shown
TailInit ==
    /\ head = [s \in TailStores |-> 0]
    /\ tui = [store |-> Launched, by |-> "stream", read |-> 0, block |-> FALSE, pollSeq |-> 0,
              since |-> 0]
    /\ pane = <<>>
    /\ page = [store |-> Launched, lastSeq |-> 0, answer |-> <<>>, moved |-> FALSE]
    /\ pageLog = <<>>
    /\ tailMoves = 0

Commit(s) ==
    /\ head[s] < TailLogCap
    /\ head' = [head EXCEPT ![s] = @ + 1]
    /\ UNCHANGED <<tui, pane, page, pageLog, tailMoves>>

-----------------------------------------------------------------------------
\* parse_sse_frames: the event and data lines of the next frame
ReadBlock ==
    /\ tui.by = "stream" /\ ~tui.block /\ tui.read < head[Launched]
    /\ tui' = [tui EXCEPT !.block = TRUE]
    /\ UNCHANGED <<head, pane, page, pageLog, tailMoves>>

\* the blank line dispatches it; _on_frame writes it whatever store is shown
DispatchFrame ==
    /\ tui.by = "stream" /\ tui.block
    /\ tui' = [tui EXCEPT !.block = FALSE, !.read = @ + 1]
    /\ pane' = Append(pane, [store |-> Launched, seq |-> tui.read + 1])
    /\ UNCHANGED <<head, page, pageLog, tailMoves>>

\* no sidecar, a reset connection, or no line for the five seconds of the
\* consumer's timeout; a block without its blank line is dropped
StreamBreaks(from) ==
    /\ tui.by = "stream"
    /\ tui' = [tui EXCEPT !.by = "poll", !.block = FALSE, !.pollSeq = from, !.since = head[tui.store]]
    /\ UNCHANGED <<head, pane, page, pageLog, tailMoves>>

\* Fault: the timer starts with the cursor it was made with
StartPollingAtZero == StreamBreaks(0)

\* _start_polling: from the head of the console's store
StartPolling == StreamBreaks(head[tui.store])

\* the sidecar closes the connection: the loop ends without an exception, and
\* nothing follows
StreamCloses ==
    /\ tui.by = "stream"
    /\ tui' = [tui EXCEPT !.by = "nothing", !.block = FALSE]
    /\ UNCHANGED <<head, pane, page, pageLog, tailMoves>>

\* _poll_events
PollEvents ==
    /\ tui.by = "poll" /\ tui.pollSeq < head[tui.store]
    /\ pane' = pane \o RowsAfter(tui.store, tui.pollSeq)
    /\ tui' = [tui EXCEPT !.pollSeq = head[tui.store]]
    /\ UNCHANGED <<head, page, pageLog, tailMoves>>

\* _switch_project: polling goes on from the new store's head, a stream stays
\* where it is
SwitchConsole(s) ==
    /\ tailMoves < TailMoves /\ tailMoves' = tailMoves + 1
    /\ s # tui.store
    /\ tui' = [tui EXCEPT !.store = s, !.pollSeq = head[s], !.since = head[s]]
    /\ UNCHANGED <<head, pane, page, pageLog>>

-----------------------------------------------------------------------------
\* _events: one page of rows after the page's lastSeq, from the panel's store
AnswerPage ==
    /\ page.answer = <<>> /\ page.lastSeq < head[page.store]
    /\ page' = [page EXCEPT !.answer = AtMost(PageRows, RowsAfter(page.store, page.lastSeq))]
    /\ UNCHANGED <<head, tui, pane, pageLog, tailMoves>>

\* pollLog, which passes over what it has shown
ShowAnswer ==
    LET new == Keep(page.answer, {line \in Lines : line.seq > page.lastSeq})
    IN  /\ page.answer # <<>>
        /\ pageLog' = pageLog \o new
        /\ page' = [page EXCEPT !.answer = <<>>,
                                !.lastSeq = IF new = <<>> THEN @ ELSE new[Len(new)].seq]
        /\ UNCHANGED <<head, tui, pane, tailMoves>>

\* /project/switch: the page keeps its lastSeq
SwitchPage(s) ==
    /\ tailMoves < TailMoves /\ tailMoves' = tailMoves + 1
    /\ s # page.store
    /\ page' = [page EXCEPT !.store = s, !.moved = TRUE]
    /\ UNCHANGED <<head, tui, pane, pageLog>>

\* the browser loads the page anew
ReloadPage ==
    /\ tailMoves < TailMoves /\ tailMoves' = tailMoves + 1
    /\ pageLog # <<>>
    /\ page' = [page EXCEPT !.lastSeq = 0, !.answer = <<>>, !.moved = FALSE]
    /\ pageLog' = <<>>
    /\ UNCHANGED <<head, tui, pane>>

Follower == ReadBlock \/ DispatchFrame \/ PollEvents

PagePoll == AnswerPage \/ ShowAnswer

TailNext ==
    \/ \E s \in TailStores : Commit(s) \/ SwitchConsole(s) \/ SwitchPage(s)
    \/ Follower
    \/ StartPolling
    \/ StreamCloses
    \/ PagePoll
    \/ ReloadPage

TailSpec == TailInit /\ [][TailNext]_tailVars

\* the follower thread reads on and the poll timer goes off; the page's loop
\* polls again after each answer
TailFairness ==
    /\ WF_tailVars(Follower)
    /\ WF_tailVars(PagePoll)

-----------------------------------------------------------------------------
InOrder(lines) ==
    \A i, j \in DOMAIN lines :
        i < j /\ lines[i].store = lines[j].store => lines[i].seq < lines[j].seq

Shows(lines, s, seq) == \E i \in DOMAIN lines : lines[i] = [store |-> s, seq |-> seq]

ShownFromTo(lines, s, from, to) == \A seq \in from + 1 .. to : Shows(lines, s, seq)

(***************************************************************************)
(* Neither surface shows an event twice or out of order, through the       *)
(* handover from the stream to polling, a switch and a switch back         *)
(* (tui.py:279, tui.py:882, index.html:352). A page that was not switched  *)
(* shows the log from its first event on without a gap, however many rows  *)
(* an answer leaves out (routes.py:199); while the TUI streams, so does    *)
(* its pane for the store the sidecar serves, and once it polls, for its   *)
(* store from the head it started at.                                      *)
(***************************************************************************)
TailIsLog ==
    /\ TailTypeOK
    /\ InOrder(pane)
    /\ InOrder(pageLog)
    /\ ~page.moved => ShownFromTo(pageLog, page.store, 0, page.lastSeq)
    /\ tui.by = "stream" => ShownFromTo(pane, Launched, 0, tui.read)
    /\ tui.by = "poll" => ShownFromTo(pane, tui.store, tui.since, tui.pollSeq)

(***************************************************************************)
(* Events reach the operator: whenever the logs pause, the page - unless   *)
(* it was switched - comes to show the whole log of its store, a streaming *)
(* pane the whole log of the sidecar's, and a polling pane all of its      *)
(* store's from the head it started at. A pane whose stream was closed     *)
(* shows nothing more.                                                     *)
(***************************************************************************)
EventIsShown ==
    []<>(/\ ~page.moved => ShownFromTo(pageLog, page.store, 0, head[page.store])
         /\ tui.by = "stream" => ShownFromTo(pane, Launched, 0, head[Launched])
         /\ tui.by = "poll" => ShownFromTo(pane, tui.store, tui.since, head[tui.store]))
=============================================================================
