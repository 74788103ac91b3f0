------------------------------- MODULE Relay --------------------------------
(***************************************************************************)
(* Events between the nodes of a cluster: an event that the HTTP API or a  *)
(* session pushes on one node goes to the subscribers of the channel there *)
(* and, over UDP, to the other nodes, which push it to theirs.  One        *)
(* channel of one application, on every node; what a push does to the      *)
(* channel itself is in module Channels and here is one step, with any     *)
(* subset of the writes failing.                                           *)
(*                                                                         *)
(* An event is delivered in one of three modes.  A broadcast goes to all   *)
(* but the session it came from and the one socket_id names; a unicast to  *)
(* the one socket_id names, a multicast to those whose id begins with it,  *)
(* the sender included.  socket_id stands for the empty set when there is  *)
(* none, or no session it fits.                                            *)
(*                                                                         *)
(* The network loses, repeats and reorders datagrams.  Sizes are in bytes, *)
(* with the code's own limits, as the last few bytes below them matter.    *)
(***************************************************************************)
EXTENDS Naturals, Sequences, FiniteSets

CONSTANTS
    Nodes,
    Sessions,
    Home,           \* session -> the node it is connected to
    NoSession,
    Events,
    Event,          \* event -> [at, from, mode, named, size]: the node it
                    \* starts on, #msg-from (NoSession from the API),
                    \* #msg-delivery, the sessions socket_id stands for, and
                    \* the size of the packed message
    AllowTrigger,   \* app->IsAllowTrigger(type, push)
    MaxDup,         \* bound: repetitions of an event's frames by the network
    MaxBuf          \* frames the socket buffer of a node holds

ASSUME RelayAssumption ==
    /\ NoSession \notin Sessions
    /\ Home \in [Sessions -> Nodes]
    /\ Event \in [Events -> [at : Nodes, from : Sessions \cup {NoSession},
                             mode : {"broadcast", "multicast", "unicast"},
                             named : SUBSET Sessions, size : Nat]]
    /\ \A e \in Events : Event[e].from \in Sessions => Event[e].at = Home[Event[e].from]
    /\ AllowTrigger \in BOOLEAN /\ MaxDup \in Nat /\ MaxBuf \in Nat

MaxFrameSize == 65400
HdrSize == 3

VARIABLES
    conn,   \* session -> "new", "in" the channel, or "out"
    stage,  \* event -> how far the code that pushes it has come
    fly,    \* node -> event -> frames on their way to the node
    lost,   \* history: node -> event -> frames that never got there
    dup,    \* history: node -> event -> frames the network repeated
    buf,    \* node -> frames in the buffer of its socket
    got     \* session -> event -> times it was written to the session

netVars == <<fly, lost, dup, buf>>
vars == <<conn, stage, netVars, got>>

FromApi(e) == Event[e].from = NoSession
Exists(n) == \E s \in Sessions : Home[s] = n /\ conn[s] = "in"

-----------------------------------------------------------------------------
Subscribe(s) ==
    /\ conn[s] = "new"
    /\ conn' = [conn EXCEPT ![s] = "in"]
    /\ UNCHANGED <<stage, netVars, got>>

UnSubscribe(s) ==
    /\ conn[s] = "in"
    /\ conn' = [conn EXCEPT ![s] = "out"]
    /\ UNCHANGED <<stage, netVars, got>>

Subscribers(n) == {s \in Sessions : Home[s] = n /\ conn[s] = "in"}

(* Mutant of Recipients: only the sender is left out of a broadcast.        *)
RecipientsNamed(n, e) ==
    IF Event[e].mode = "broadcast" THEN Subscribers(n) \ {Event[e].from}
    ELSE Subscribers(n) \cap Event[e].named

(* Whom cchannel::Push writes to.                                           *)
Recipients(n, e) ==
    IF Event[e].mode = "broadcast"
    THEN Subscribers(n) \ (Event[e].named \cup {Event[e].from})
    ELSE Subscribers(n) \cap Event[e].named

(* cchannel::Push: a subscriber whose write fails is unsubscribed.          *)
Push(n, e) ==
    \E bad \in SUBSET Recipients(n, e) :
        /\ conn' = [s \in Sessions |-> IF s \in bad THEN "out" ELSE conn[s]]
        /\ got' = [s \in Sessions |->
                      IF s \in Recipients(n, e) \ bad THEN [got[s] EXCEPT ![e] = @ + 1] ELSE got[s]]

(* Pack cuts the length to 16 bits.                                         *)
PackedLen(e) == Event[e].size % 65536

(* ccluster::Push and Send: what is relayed at all.                         *)
Sendable(e) == AllowTrigger /\ Event[e].size + HdrSize <= MaxFrameSize

(* The frames in flight once node n has sent event e to its peers.          *)
Sent(n, e) ==
    [m \in Nodes |-> IF m # n /\ Sendable(e) THEN [fly[m] EXCEPT ![e] = @ + 1] ELSE fly[m]]

-----------------------------------------------------------------------------
(* ApiOnEvents finds the channel, or not and only relays.                   *)
ApiOnEvents(e) ==
    /\ FromApi(e) /\ stage[e] = "new"
    /\ stage' = [stage EXCEPT ![e] = IF Exists(Event[e].at) THEN "push" ELSE "relay"]
    /\ UNCHANGED <<conn, netVars, got>>

(* cwssession::OnWsMessage: a session of the channel pushes to it.          *)
OnWsMessage(e) ==
    /\ ~FromApi(e) /\ stage[e] = "new" /\ conn[Event[e].from] = "in"
    /\ stage' = [stage EXCEPT ![e] = "push"]
    /\ UNCHANGED <<conn, netVars, got>>

(* cpublicchannel::Push and its like: first to the cluster,                 *)
ChannelRelay(e) ==
    /\ stage[e] = "push"
    /\ stage' = [stage EXCEPT ![e] = "local"]
    /\ fly' = Sent(Event[e].at, e)
    /\ UNCHANGED <<conn, lost, dup, buf, got>>

(* then to the subscribers.                                                 *)
ChannelPush(e) ==
    /\ stage[e] = "local"
    /\ stage' = [stage EXCEPT ![e] = IF FromApi(e) THEN "again" ELSE "done"]
    /\ Push(Event[e].at, e)
    /\ UNCHANGED netVars

(* ApiOnEvents relays the event itself, whether the channel did so or not.  *)
ApiRelay(e) ==
    /\ stage[e] \in {"relay", "again"}
    /\ stage' = [stage EXCEPT ![e] = "done"]
    /\ fly' = Sent(Event[e].at, e)
    /\ UNCHANGED <<conn, lost, dup, buf, got>>

-----------------------------------------------------------------------------
Lose(n, e) ==
    /\ fly[n][e] > 0
    /\ fly' = [fly EXCEPT ![n][e] = @ - 1]
    /\ lost' = [lost EXCEPT ![n][e] = @ + 1]
    /\ UNCHANGED <<conn, stage, dup, buf, got>>

Repeat(n, e) ==
    /\ fly[n][e] > 0 /\ dup[n][e] < MaxDup
    /\ fly' = [fly EXCEPT ![n][e] = @ + 1]
    /\ dup' = [dup EXCEPT ![n][e] = @ + 1]
    /\ UNCHANGED <<conn, stage, lost, buf, got>>

(* Any frame may come next; a full socket buffer drops it.                  *)
Arrive(n, e) ==
    /\ fly[n][e] > 0
    /\ fly' = [fly EXCEPT ![n][e] = @ - 1]
    /\ IF Len(buf[n]) < MaxBuf
       THEN buf' = [buf EXCEPT ![n] = Append(@, e)] /\ UNCHANGED lost
       ELSE lost' = [lost EXCEPT ![n][e] = @ + 1] /\ UNCHANGED buf
    /\ UNCHANGED <<conn, stage, dup, got>>

(* Mutant of Readable: one byte less.                                       *)
ReadableLess(e) == PackedLen(e) + 1 < MaxFrameSize - HdrSize

(* What OnUdpData, having peeked at the header, is willing to read.         *)
Readable(e) == PackedLen(e) < MaxFrameSize - HdrSize

(* Mutant of OnClusterPush: the channel's Push, which relays, is called.    *)
OnClusterPushRelaying(n, e) ==
    IF Exists(n) THEN Push(n, e) /\ fly' = Sent(n, e) ELSE UNCHANGED <<conn, got, fly>>

(* OnClusterPush: to the subscribers here, if any, and no further.          *)
OnClusterPush(n, e) ==
    IF Exists(n) THEN Push(n, e) /\ UNCHANGED fly ELSE UNCHANGED <<conn, got, fly>>

(* OnUdpData: a frame that it does not read is not taken off the socket, so *)
(* the poll goes on reporting that one for ever.                            *)
OnUdpData(n) ==
    /\ buf[n] # <<>> /\ Readable(Head(buf[n]))
    /\ buf' = [buf EXCEPT ![n] = Tail(@)]
    /\ OnClusterPush(n, Head(buf[n]))
    /\ UNCHANGED <<stage, lost, dup>>

-----------------------------------------------------------------------------
NoFrames == [n \in Nodes |-> [e \in Events |-> 0]]

Init ==
    /\ conn = [s \in Sessions |-> "new"]
    /\ stage = [e \in Events |-> "new"]
    /\ fly = NoFrames /\ lost = NoFrames /\ dup = NoFrames
    /\ buf = [n \in Nodes |-> <<>>]
    /\ got = [s \in Sessions |-> [e \in Events |-> 0]]

Handle(e) == ChannelRelay(e) \/ ChannelPush(e) \/ ApiRelay(e)

Next ==
    \/ \E s \in Sessions : Subscribe(s) \/ UnSubscribe(s)
    \/ \E e \in Events : ApiOnEvents(e) \/ OnWsMessage(e) \/ Handle(e)
    \/ \E n \in Nodes, e \in Events : Lose(n, e) \/ Repeat(n, e) \/ Arrive(n, e)
    \/ \E n \in Nodes : OnUdpData(n)

(* Handlers that have begun go on, frames that are not lost arrive, and the *)
(* poll thread, level-triggered, reads as long as there is something.  None *)
(* of them need be fair to a particular event, as each has finitely many    *)
(* steps.                                                                   *)
Fairness ==
    /\ WF_vars(\E e \in Events : Handle(e))
    /\ \A n \in Nodes : WF_vars(\E e \in Events : Arrive(n, e)) /\ WF_vars(OnUdpData(n))

Spec == Init /\ [][Next]_vars
FairSpec == Spec /\ Fairness

-----------------------------------------------------------------------------
(* The variables keep to their types; at most two frames of an event, and   *)
(* what the network repeats, are under way to a node, none to its own.      *)
TypeOK ==
    /\ conn \in [Sessions -> {"new", "in", "out"}]
    /\ stage \in [Events -> {"new", "push", "local", "again", "relay", "done"}]
    /\ fly \in [Nodes -> [Events -> 0 .. 2 + MaxDup]]
    /\ lost \in [Nodes -> [Events -> 0 .. 2 + MaxDup]]
    /\ dup \in [Nodes -> [Events -> 0 .. MaxDup]]
    /\ buf \in [Nodes -> Seq(Events)] /\ \A n \in Nodes : Len(buf[n]) <= MaxBuf
    /\ got \in [Sessions -> [Events -> Nat]]
    /\ \A e \in Events : fly[Event[e].at][e] = 0

(* Whichever node pushes an event, and however often: a broadcast gets      *)
(* neither back to the session that sent it nor to the one it excludes, a   *)
(* unicast or a multicast to nobody but those it is addressed to.           *)
Audience(e) ==
    {s \in Sessions : IF Event[e].mode = "broadcast" THEN s # Event[e].from /\ s \notin Event[e].named
                      ELSE s \in Event[e].named}

OnlyAudience == \A e \in Events, s \in Sessions : got[s][e] > 0 => s \in Audience(e)

(* A session gets an event once from its own node; from another, once for a *)
(* session's event and at most twice for the API's, plus what the network   *)
(* repeats, and never when the message does not fit a frame.                *)
Allowed(s, e) ==
    LET n == Home[s]
    IN  IF n = Event[e].at THEN 1
        ELSE IF ~AllowTrigger \/ Event[e].size >= MaxFrameSize - HdrSize THEN 0
        ELSE (IF FromApi(e) THEN 2 ELSE 1) + dup[n][e]

CopiesBounded == \A e \in Events, s \in Sessions : got[s][e] <= Allowed(s, e)

(* An event that fits a frame reaches every session of another node that it *)
(* is meant for, that is subscribed before it is relayed and stays, unless  *)
(* every frame of it is lost, both of them when the API finds the channel,  *)
(* or a frame of exactly the largest size Send lets pass is at the head of  *)
(* that node's socket, which it then blocks.                                *)
HeadOfLargest(n) == buf[n] # <<>> /\ Event[Head(buf[n])].size = MaxFrameSize - HdrSize

Reached(s, e, frames) ==
    \/ got[s][e] > 0
    \/ conn[s] # "in"
    \/ lost[Home[s]][e] >= frames + dup[Home[s]][e]
    \/ HeadOfLargest(Home[s])

Elsewhere(e) == {s \in Audience(e) : Home[s] # Event[e].at}
Fitting == {e \in Events : AllowTrigger /\ Event[e].size < MaxFrameSize - HdrSize}

RelayedReaches ==
    \A e \in Fitting : \A s \in Elsewhere(e) :
        /\ stage[e] = "push" ~> Reached(s, e, IF FromApi(e) THEN 2 ELSE 1)
        /\ stage[e] = "relay" ~> Reached(s, e, 1)
=============================================================================
