----------------------------- MODULE EventRelay ----------------------------
(***************************************************************************)
(* The sidecar (src/sidecar): a poller follows the event log by sequence   *)
(* number and broadcasts each row; a client (dashboard, console) gets the  *)
(* log as it was when it connected and then the broadcasts. The broadcast  *)
(* channel keeps the last rows only, a poll may break off in the middle,   *)
(* the backlog may not be readable, and the sidecar may be restarted.      *)
(***************************************************************************)
EXTENDS Naturals, Sequences, LogOps

CONSTANTS
    Clients,
    Kinds,         \* event types
    AllKinds,      \* the channel that carries every event
    ChannelOf,     \* [Clients -> Kinds or AllKinds]
    Capacity,      \* of the broadcast channel
    RelayLogCap,   \* bound: events committed
    RelayFaults,   \* bound: polls and backlogs broken off, restarts
    Connections    \* bound: connections made

ASSUME RelayAssumption ==
    /\ ChannelOf \in [Clients -> Kinds \cup {AllKinds}]
    /\ Capacity \in Nat \ {0}
    /\ RelayLogCap \in Nat /\ RelayFaults \in Nat /\ Connections \in Nat

VARIABLES
    events,     \* the kinds of the committed rows: the position is the seq
    poller,     \* the store is open or not, high_water, the rows of this poll not yet sent
    broadcasts, \* the seqs sent since the sidecar started
    client,     \* per client: where its connection is
    received,   \* per client: the seqs this connection delivered, in order
    flaw,       \* per client: what went wrong during this connection (a history)
    relayFaults,
    connections

relayVars == <<events, poller, broadcasts, client, received, flaw, relayFaults, connections>>

Closed == [open |-> FALSE, highWater |-> 0, rows |-> <<>>]

Unconnected == [phase |-> "off", next |-> 1, after |-> 0, backlog |-> <<>>]

RelayTypeOK ==
    /\ events \in Seq(Kinds)
    /\ poller \in [open : BOOLEAN, highWater : 0 .. Len(events), rows : Seq(DOMAIN events)]
    /\ broadcasts \in Seq(DOMAIN events)
    /\ client \in [Clients -> [phase : {"off", "subscribed", "replaying", "live"},
                               next : 1 .. Len(broadcasts) + 1, after : 0 .. Len(events),
                               backlog : Seq(DOMAIN events)]]
    /\ received \in [Clients -> Seq(DOMAIN events)]
    /\ flaw \in [Clients -> SUBSET {"blind", "lagged", "resent"}]
    /\ relayFaults \in 0 .. RelayFaults /\ connections \in 0 .. Connections

-----------------------------------------------------------------------------
\* channel_matches
Matches(c, seq) == ChannelOf[c] \in {AllKinds, events[seq]}

\* the rows from one seq to another, in order
From(low, high) == [i \in 1 .. high - low + 1 |-> low + i - 1]

Fault == relayFaults < RelayFaults /\ relayFaults' = relayFaults + 1

Flawed(cs, how) == flaw' = [c \in Clients |-> IF c \in cs THEN flaw[c] \cup {how} ELSE flaw[c]]

Connected == {c \in Clients : client[c].phase # "off"}

RelayInit ==
    /\ events = <<>>
    /\ poller = Closed
    /\ broadcasts = <<>>
    /\ client = [c \in Clients |-> Unconnected]
    /\ received = [c \in Clients |-> <<>>]
    /\ flaw = [c \in Clients |-> {}]
    /\ relayFaults = 0 /\ connections = 0

\* the harness commits one event
CommitEvent(k) ==
    /\ Len(events) < RelayLogCap
    /\ events' = Append(events, k)
    /\ UNCHANGED <<poller, broadcasts, client, received, flaw, relayFaults, connections>>

-----------------------------------------------------------------------------
\* open_db: high_water survives, whatever broke off before
OpenStore ==
    /\ ~poller.open
    /\ poller' = [poller EXCEPT !.open = TRUE]
    /\ UNCHANGED <<events, broadcasts, client, received, flaw, relayFaults, connections>>

\* poll_once: SELECT ... WHERE seq > high_water
Poll ==
    /\ poller.open /\ poller.rows = <<>> /\ poller.highWater < Len(events)
    /\ poller' = [poller EXCEPT !.rows = From(poller.highWater + 1, Len(events))]
    /\ UNCHANGED <<events, broadcasts, client, received, flaw, relayFaults, connections>>

\* Fault: high_water is read from the log at the end of the poll
SendToEnd ==
    /\ poller.rows # <<>>
    /\ broadcasts' = Append(broadcasts, Head(poller.rows))
    /\ poller' = [poller EXCEPT !.rows = Tail(@),
                                !.highWater = IF Len(poller.rows) = 1 THEN Len(events) ELSE @]
    /\ UNCHANGED <<events, client, received, flaw, relayFaults, connections>>

\* one row; the last one moves high_water
Send ==
    /\ poller.rows # <<>>
    /\ broadcasts' = Append(broadcasts, Head(poller.rows))
    /\ poller' = [poller EXCEPT !.rows = Tail(@),
                                !.highWater = IF Len(poller.rows) = 1 THEN Head(poller.rows) ELSE @]
    /\ UNCHANGED <<events, client, received, flaw, relayFaults, connections>>

SentBeyondHighWater ==
    broadcasts # <<>> /\ broadcasts[Len(broadcasts)] > poller.highWater

\* a row cannot be read: the poll returns its error, and the rows it sent are
\* sent again once the store is open
PollBreaks ==
    /\ poller.open /\ Fault
    /\ poller' = [poller EXCEPT !.open = FALSE, !.rows = <<>>]
    /\ IF SentBeyondHighWater THEN Flawed(Connected, "resent") ELSE UNCHANGED flaw
    /\ UNCHANGED <<events, broadcasts, client, received, connections>>

RelayRestarts ==
    /\ Fault
    /\ poller' = Closed
    /\ broadcasts' = <<>>
    /\ client' = [c \in Clients |-> Unconnected]
    /\ received' = [c \in Clients |-> <<>>]
    /\ flaw' = [c \in Clients |-> {}]
    /\ UNCHANGED <<events, connections>>

-----------------------------------------------------------------------------
\* sse_channel: the subscription comes before the backlog is read
Subscribe(c) ==
    /\ client[c].phase = "off"
    /\ connections < Connections /\ connections' = connections + 1
    /\ client' = [client EXCEPT ![c] = [Unconnected EXCEPT !.phase = "subscribed",
                                                           !.next = Len(broadcasts) + 1]]
    /\ UNCHANGED <<events, poller, broadcasts, received, flaw, relayFaults>>

ReadBacklog(c) ==
    /\ client[c].phase = "subscribed"
    /\ client' = [client EXCEPT ![c].phase = "replaying", ![c].after = Len(events),
                                ![c].backlog = Keep(From(1, Len(events)), {s \in DOMAIN events : Matches(c, s)})]
    /\ UNCHANGED <<events, poller, broadcasts, received, flaw, relayFaults, connections>>

\* the store cannot be opened or read: unwrap_or_default, an empty backlog
BacklogFails(c) ==
    /\ client[c].phase = "subscribed" /\ Fault
    /\ client' = [client EXCEPT ![c].phase = "replaying"]
    /\ Flawed({c}, "blind")
    /\ UNCHANGED <<events, poller, broadcasts, received, connections>>

\* Fault: the subscription comes when the backlog has been sent
ReplayThenSubscribe(c) ==
    /\ client[c].phase = "replaying"
    /\ received' = [received EXCEPT ![c] = client[c].backlog]
    /\ client' = [client EXCEPT ![c].phase = "live", ![c].backlog = <<>>, ![c].next = Len(broadcasts) + 1]
    /\ UNCHANGED <<events, poller, broadcasts, flaw, relayFaults, connections>>

\* the replay half of the stream
Replay(c) ==
    /\ client[c].phase = "replaying"
    /\ received' = [received EXCEPT ![c] = client[c].backlog]
    /\ client' = [client EXCEPT ![c].phase = "live", ![c].backlog = <<>>]
    /\ UNCHANGED <<events, poller, broadcasts, flaw, relayFaults, connections>>

\* sse_stream: the next broadcast, unless it was replayed or is another kind's
Receive(c) ==
    /\ client[c].phase = "live"
    /\ client[c].next <= Len(broadcasts) /\ client[c].next + Capacity > Len(broadcasts)
    /\ LET s == broadcasts[client[c].next]
       IN  received' = IF s > client[c].after /\ Matches(c, s)
                       THEN [received EXCEPT ![c] = Append(@, s)] ELSE received
    /\ client' = [client EXCEPT ![c].next = @ + 1]
    /\ UNCHANGED <<events, poller, broadcasts, flaw, relayFaults, connections>>

\* more than the channel keeps was sent: the error is dropped, and the client
\* goes on with the oldest row kept
Lag(c) ==
    /\ client[c].phase = "live"
    /\ client[c].next + Capacity <= Len(broadcasts)
    /\ client' = [client EXCEPT ![c].next = Len(broadcasts) - Capacity + 1]
    /\ Flawed({c}, "lagged")
    /\ UNCHANGED <<events, poller, broadcasts, received, relayFaults, connections>>

Disconnect(c) ==
    /\ c \in Connected
    /\ client' = [client EXCEPT ![c] = Unconnected]
    /\ received' = [received EXCEPT ![c] = <<>>]
    /\ flaw' = [flaw EXCEPT ![c] = {}]
    /\ UNCHANGED <<events, poller, broadcasts, relayFaults, connections>>

PollerStep == OpenStore \/ Poll \/ Send

StreamStep(c) == ReadBacklog(c) \/ BacklogFails(c) \/ Replay(c) \/ Receive(c) \/ Lag(c)

RelayNext ==
    \/ \E k \in Kinds : CommitEvent(k)
    \/ PollerStep
    \/ PollBreaks
    \/ RelayRestarts
    \/ \E c \in Clients : Subscribe(c) \/ StreamStep(c) \/ Disconnect(c)

RelaySpec == RelayInit /\ [][RelayNext]_relayVars

\* The poller is a thread that loops for ever; the server goes on with a
\* stream whose client reads. A store that stays unreadable is not covered:
\* faults end.
RelayFairness ==
    /\ WF_relayVars(PollerStep)
    /\ \A c \in Clients : WF_relayVars(StreamStep(c))

-----------------------------------------------------------------------------
(***************************************************************************)
(* A connection sees the log: what it has received has no gap and is in    *)
(* order, without repetition, wherever the subscription, the read of the   *)
(* backlog and the poll fall between each other (lib.rs:191-203). A lagged *)
(* stream may have gaps, one whose poll broke off repetitions, and one     *)
(* whose backlog could not be read starts late.                            *)
(***************************************************************************)
StreamIsLog ==
    RelayTypeOK /\ \A c \in Clients :
        LET r == received[c]
        IN  /\ "resent" \notin flaw[c] => \A i, j \in DOMAIN r : i < j => r[i] < r[j]
            /\ flaw[c] \subseteq {"resent"} =>
                  \A i \in DOMAIN r : \A s \in 1 .. r[i] :
                      Matches(c, s) => \E j \in 1 .. i : r[j] = s

(***************************************************************************)
(* Every event reaches every stream that stays: a live connection receives *)
(* each event in the log that its channel carries, unless it lagged or     *)
(* could not read the backlog (lib.rs:239).                                *)
(***************************************************************************)
EventArrives ==
    \A c \in Clients, s \in 1 .. RelayLogCap :
        (client[c].phase = "live" /\ s \in DOMAIN events /\ Matches(c, s)) ~>
            \/ client[c].phase # "live"
            \/ flaw[c] \cap {"lagged", "blind"} # {}
            \/ \E i \in DOMAIN received[c] : received[c][i] = s
=============================================================================
