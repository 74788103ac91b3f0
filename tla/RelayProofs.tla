---------------------------- MODULE RelayProofs -----------------------------
(* How often an event can reach a session, for any nodes, sessions, events  *)
(* and repetitions by the network: every frame that is sent, or repeated,   *)
(* is in flight, lost, in a socket buffer, or was read and pushed once.     *)
EXTENDS Relay, QueueLemmas

FlowType ==
    /\ conn \in [Sessions -> {"new", "in", "out"}]
    /\ stage \in [Events -> {"new", "push", "local", "again", "relay", "done"}]
    /\ fly \in [Nodes -> [Events -> Nat]]
    /\ lost \in [Nodes -> [Events -> Nat]]
    /\ dup \in [Nodes -> [Events -> 0 .. MaxDup]]
    /\ buf \in [Nodes -> Seq(Events)] /\ \A n \in Nodes : Len(buf[n]) <= MaxBuf
    /\ got \in [Sessions -> [Events -> Nat]]

(* The frames of event e that were sent to each other node so far, at most. *)
Sends(e) ==
    IF stage[e] \in {"new", "push", "relay"} THEN 0
    ELSE IF stage[e] = "done" /\ FromApi(e) THEN 2 ELSE 1

(* The frames of event e to node n that were not read.                      *)
Flow(n, e) == fly[n][e] + lost[n][e] + CountOf(buf[n], e)

(* Only what Send lets pass is on its way to a node, and never to its own.  *)
Carried(n, e) == Sendable(e) /\ n # Event[e].at
CarriedInv ==
    \A n \in Nodes : /\ \A e \in Events : fly[n][e] > 0 => Carried(n, e)
                     /\ \A i \in 1 .. Len(buf[n]) : Carried(n, buf[n][i])

StageInv == \A e \in Events : stage[e] \in {"relay", "again"} => FromApi(e)

(* The balance of frames, and of frames and copies.                         *)
FlowInv == \A n \in Nodes, e \in Events : Flow(n, e) <= Sends(e) + dup[n][e]
CopyInv ==
    \A s \in Sessions, e \in Events :
        Home[s] # Event[e].at => Flow(Home[s], e) + got[s][e] <= Sends(e) + dup[Home[s]][e]

(* On its own node an event is pushed once, and elsewhere only if its frame *)
(* can be sent and read.                                                    *)
LocalInv ==
    \A s \in Sessions, e \in Events :
        IF Home[s] = Event[e].at
        THEN got[s][e] <= 1 /\ (stage[e] \in {"new", "push", "local", "relay"} => got[s][e] = 0)
        ELSE ~(Sendable(e) /\ Readable(e)) => got[s][e] = 0

BalanceInv == StageInv /\ CarriedInv /\ FlowInv /\ CopyInv /\ LocalInv
IInv == FlowType /\ BalanceInv /\ OnlyAudience

-----------------------------------------------------------------------------
LEMMA EventType ==
    ASSUME NEW e \in Events
    PROVE  /\ Event[e].at \in Nodes /\ Event[e].size \in Nat
           /\ Event[e].from \in Sessions \cup {NoSession}
BY RelayAssumption

LEMMA HomeType ==
    ASSUME NEW s \in Sessions
    PROVE  Home[s] \in Nodes
BY RelayAssumption

LEMMA FlowIsNat ==
    ASSUME FlowType, NEW n \in Nodes, NEW e \in Events
    PROVE  /\ fly[n][e] \in Nat /\ lost[n][e] \in Nat /\ CountOf(buf[n], e) \in Nat
           /\ Flow(n, e) \in Nat /\ dup[n][e] \in Nat /\ dup[n][e] <= MaxDup
           /\ Sends(e) \in 0 .. 2
<1>1. /\ fly[n][e] \in Nat /\ lost[n][e] \in Nat /\ dup[n][e] \in Nat /\ dup[n][e] <= MaxDup
      /\ buf[n] \in Seq(Events)
  BY RelayAssumption DEF FlowType
<1>2. CountOf(buf[n], e) \in Nat
  BY <1>1, CountIsNat
<1>3. stage[e] \in {"new", "push", "local", "again", "relay", "done"}
  BY DEF FlowType
<1>4. Sends(e) \in 0 .. 2
  BY <1>3 DEF Sends
<1> QED
  BY <1>1, <1>2, <1>4 DEF Flow

LEMMA FlowIsNatNext ==
    ASSUME FlowType', NEW n \in Nodes, NEW e \in Events
    PROVE  /\ Flow(n, e)' \in Nat /\ dup'[n][e] \in Nat /\ Sends(e)' \in Nat
<1>1. /\ fly'[n][e] \in Nat /\ lost'[n][e] \in Nat /\ dup'[n][e] \in Nat
      /\ buf'[n] \in Seq(Events)
  BY RelayAssumption DEF FlowType
<1>2. CountOf(buf'[n], e) \in Nat
  BY <1>1, CountIsNat
<1>3. stage'[e] \in {"new", "push", "local", "again", "relay", "done"}
  BY DEF FlowType
<1>4. Sends(e)' \in Nat
  BY <1>3 DEF Sends, FromApi
<1>5. CountOf(buf[n], e)' = CountOf(buf'[n], e)
  BY DEF CountOf, At
<1> QED
  BY <1>1, <1>2, <1>4, <1>5 DEF Flow

(* A frame that Send lets pass and OnUdpData reads is smaller than the      *)
(* largest: the length that Pack writes is then the real one.               *)
LEMMA ReadIsSmall ==
    ASSUME NEW e \in Events, Sendable(e), Readable(e)
    PROVE  AllowTrigger /\ Event[e].size < MaxFrameSize - HdrSize
<1>1. Event[e].size \in Nat /\ Event[e].size + 3 <= 65400 /\ AllowTrigger
  BY EventType DEF Sendable, MaxFrameSize, HdrSize
<1>2. Event[e].size % 65536 = Event[e].size
  BY <1>1
<1> QED
  BY <1>1, <1>2 DEF Readable, PackedLen, MaxFrameSize, HdrSize

(* What the balance says of the properties.                                 *)
LEMMA BalanceSuffices ==
    ASSUME FlowType, BalanceInv
    PROVE  TypeOK /\ CopiesBounded
<1>1. ASSUME NEW n \in Nodes, NEW e \in Events
      PROVE  fly[n][e] \in 0 .. 2 + MaxDup /\ lost[n][e] \in 0 .. 2 + MaxDup
  <2>1. Flow(n, e) <= Sends(e) + dup[n][e]
    BY DEF BalanceInv, FlowInv
  <2>2. MaxDup \in Nat
    BY RelayAssumption
  <2> QED
    BY <2>1, <2>2, FlowIsNat DEF Flow
<1>2. fly \in [Nodes -> [Events -> 0 .. 2 + MaxDup]] /\ lost \in [Nodes -> [Events -> 0 .. 2 + MaxDup]]
  BY <1>1 DEF FlowType
<1>3. \A e \in Events : fly[Event[e].at][e] = 0
  <2> SUFFICES ASSUME NEW e \in Events PROVE fly[Event[e].at][e] = 0
    OBVIOUS
  <2>1. Event[e].at \in Nodes
    BY EventType
  <2>2. ~(fly[Event[e].at][e] > 0)
    BY <2>1 DEF BalanceInv, CarriedInv, Carried
  <2> QED
    BY <2>1, <2>2, FlowIsNat
<1>4. TypeOK
  BY <1>2, <1>3 DEF FlowType, TypeOK
<1>5. ASSUME NEW e \in Events, NEW s \in Sessions PROVE got[s][e] <= Allowed(s, e)
  <2>1. Home[s] \in Nodes /\ got[s][e] \in Nat
    BY HomeType DEF FlowType
  <2>2. CASE Home[s] = Event[e].at
    BY <2>2 DEF BalanceInv, LocalInv, Allowed
  <2>3. CASE Home[s] # Event[e].at /\ (~AllowTrigger \/ Event[e].size >= MaxFrameSize - HdrSize)
    <3>1. Event[e].size \in Nat /\ MaxFrameSize - HdrSize \in Nat
      BY EventType DEF MaxFrameSize, HdrSize
    <3>2. ~(Sendable(e) /\ Readable(e))
      BY <2>3, <3>1, ReadIsSmall
    <3>3. got[s][e] = 0
      BY <2>3, <3>2 DEF BalanceInv, LocalInv
    <3> QED
      BY <2>3, <3>3 DEF Allowed
  <2>4. CASE Home[s] # Event[e].at /\ ~(~AllowTrigger \/ Event[e].size >= MaxFrameSize - HdrSize)
    <3>1. Flow(Home[s], e) + got[s][e] <= Sends(e) + dup[Home[s]][e]
      BY <2>4 DEF BalanceInv, CopyInv
    <3>2. Sends(e) <= IF FromApi(e) THEN 2 ELSE 1
      <4>1. stage[e] \in {"new", "push", "local", "again", "relay", "done"}
        BY DEF FlowType
      <4> QED
        BY <4>1 DEF Sends
    <3>3. got[s][e] <= (IF FromApi(e) THEN 2 ELSE 1) + dup[Home[s]][e]
      BY <2>1, <3>1, <3>2, FlowIsNat
    <3> QED
      BY <2>4, <3>3 DEF Allowed
  <2> QED
    BY <2>2, <2>3, <2>4
<1> QED
  BY <1>4, <1>5 DEF CopiesBounded

LEMMA InitInv == Init => IInv
<1> SUFFICES ASSUME Init PROVE IInv
  OBVIOUS
<1>1. /\ conn = [s \in Sessions |-> "new"] /\ stage = [e \in Events |-> "new"]
      /\ fly = [n \in Nodes |-> [e \in Events |-> 0]] /\ lost = fly /\ dup = fly
      /\ buf = [n \in Nodes |-> << >>] /\ got = [s \in Sessions |-> [e \in Events |-> 0]]
  BY DEF Init, NoFrames
<1>2. FlowType
  BY <1>1, RelayAssumption DEF FlowType
<1>3. \A n \in Nodes, e \in Events : Flow(n, e) = 0 /\ Sends(e) = 0 /\ dup[n][e] = 0
  BY <1>1, CountEmpty DEF Flow, Sends
<1>4. FlowInv
  BY <1>3 DEF FlowInv
<1>5. CopyInv /\ LocalInv /\ OnlyAudience
  BY <1>1, <1>3, HomeType DEF CopyInv, LocalInv, OnlyAudience
<1>6. CarriedInv /\ StageInv
  BY <1>1 DEF CarriedInv, StageInv
<1> QED
  BY <1>2, <1>4, <1>5, <1>6 DEF IInv, BalanceInv

-----------------------------------------------------------------------------
(* A step that pushes nothing to anybody and sends no more than it says.    *)
LEMMA QuietStep ==
    ASSUME IInv, FlowType', CarriedInv', StageInv', UNCHANGED got,
           \A n \in Nodes, e \in Events :
               Flow(n, e)' + Sends(e) + dup[n][e] <= Flow(n, e) + Sends(e)' + dup'[n][e],
           \A e \in Events : stage'[e] \in {"new", "push", "local", "relay"} =>
                             stage[e] \in {"new", "push", "local", "relay"}
    PROVE  IInv'
<1>1. ASSUME NEW n \in Nodes, NEW e \in Events
      PROVE  /\ Flow(n, e)' \in Nat /\ Sends(e)' \in Nat /\ dup'[n][e] \in Nat
             /\ Flow(n, e) \in Nat /\ Sends(e) \in Nat /\ dup[n][e] \in Nat
  <2>1. Flow(n, e) \in Nat /\ Sends(e) \in Nat /\ dup[n][e] \in Nat
    BY FlowIsNat DEF IInv
  <2>2. Flow(n, e)' \in Nat /\ Sends(e)' \in Nat /\ dup'[n][e] \in Nat
    BY FlowIsNatNext
  <2> QED
    BY <2>1, <2>2
<1>2. FlowInv'
  <2> SUFFICES ASSUME NEW n \in Nodes, NEW e \in Events
               PROVE  Flow(n, e)' <= Sends(e)' + dup'[n][e]
    BY DEF FlowInv
  <2>1. Flow(n, e) <= Sends(e) + dup[n][e]
    BY DEF IInv, BalanceInv, FlowInv
  <2> QED
    BY <1>1, <2>1
<1>3. CopyInv'
  <2> SUFFICES ASSUME NEW s \in Sessions, NEW e \in Events, Home[s] # Event[e].at
               PROVE  Flow(Home[s], e)' + got[s][e] <= Sends(e)' + dup'[Home[s]][e]
    BY DEF CopyInv
  <2>1. Flow(Home[s], e) + got[s][e] <= Sends(e) + dup[Home[s]][e]
    BY DEF IInv, BalanceInv, CopyInv
  <2>2. got[s][e] \in Nat /\ Home[s] \in Nodes
    BY HomeType DEF IInv, FlowType
  <2> QED
    BY <1>1, <2>1, <2>2
<1>4. LocalInv'
  BY DEF IInv, BalanceInv, LocalInv, Sendable, Readable, PackedLen
<1>5. OnlyAudience'
  BY DEF IInv, OnlyAudience
<1> QED
  BY <1>2, <1>3, <1>4, <1>5 DEF IInv, BalanceInv

(* Subscriptions come and go and handlers begin: nothing is sent.           *)
LEMMA SubscriptionStep ==
    ASSUME IInv, NEW s \in Sessions, Subscribe(s) \/ UnSubscribe(s)
    PROVE  IInv'
<1>1. /\ UNCHANGED <<stage, fly, lost, dup, buf, got>>
      /\ conn' = [conn EXCEPT ![s] = "in"] \/ conn' = [conn EXCEPT ![s] = "out"]
  BY DEF Subscribe, UnSubscribe, netVars
<1>2. FlowType'
  BY <1>1 DEF IInv, FlowType
<1>3. CarriedInv' /\ StageInv'
  BY <1>1 DEF IInv, BalanceInv, CarriedInv, StageInv, Carried, Sendable, FromApi
<1>4. ASSUME NEW n \in Nodes, NEW e \in Events
      PROVE  Flow(n, e)' + Sends(e) + dup[n][e] <= Flow(n, e) + Sends(e)' + dup'[n][e]
  <2>1. Flow(n, e)' = Flow(n, e) /\ Sends(e)' = Sends(e) /\ dup'[n][e] = dup[n][e]
    BY <1>1 DEF Flow, Sends, CountOf, At, FromApi
  <2>2. Flow(n, e) \in Nat /\ Sends(e) \in Nat /\ dup[n][e] \in Nat
    BY FlowIsNat DEF IInv
  <2> QED
    BY <2>1, <2>2
<1> QED
  BY <1>1, <1>2, <1>3, <1>4, QuietStep

LEMMA BeginStep ==
    ASSUME IInv, NEW e \in Events, ApiOnEvents(e) \/ OnWsMessage(e)
    PROVE  IInv'
<1>1. /\ UNCHANGED <<conn, fly, lost, dup, buf, got>> /\ stage[e] = "new"
  BY DEF ApiOnEvents, OnWsMessage, netVars
<1>2. PICK l \in {"push", "relay"} : stage' = [stage EXCEPT ![e] = l] /\ (l = "relay" => FromApi(e))
  BY DEF ApiOnEvents, OnWsMessage
<1>3. FlowType'
  BY <1>1, <1>2 DEF IInv, FlowType
<1>4. stage \in [Events -> {"new", "push", "local", "again", "relay", "done"}]
  BY DEF IInv, FlowType
<1>5. CarriedInv' /\ StageInv'
  <2>1. CarriedInv'
    BY <1>1 DEF IInv, BalanceInv, CarriedInv, Carried, Sendable
  <2>2. StageInv'
    BY <1>2, <1>4 DEF IInv, BalanceInv, StageInv, FromApi
  <2> QED
    BY <2>1, <2>2
<1>6. ASSUME NEW n \in Nodes, NEW k \in Events
      PROVE  Flow(n, k)' + Sends(k) + dup[n][k] <= Flow(n, k) + Sends(k)' + dup'[n][k]
  <2>1. Flow(n, k)' = Flow(n, k) /\ dup'[n][k] = dup[n][k]
    BY <1>1 DEF Flow, CountOf, At
  <2>2. Sends(k)' = Sends(k)
    BY <1>1, <1>2, <1>4 DEF Sends, FromApi
  <2>3. Flow(n, k) \in Nat /\ Sends(k) \in Nat /\ dup[n][k] \in Nat
    BY FlowIsNat DEF IInv
  <2> QED
    BY <2>1, <2>2, <2>3
<1>7. \A k \in Events : stage'[k] \in {"new", "push", "local", "relay"} =>
                        stage[k] \in {"new", "push", "local", "relay"}
  BY <1>1, <1>2, <1>4
<1> QED
  BY <1>1, <1>3, <1>5, <1>6, <1>7, QuietStep

(* What a node sends to its peers: at most one frame of the event to each.  *)
LEMMA SentOnce ==
    ASSUME IInv, NEW e \in Events, fly' = Sent(Event[e].at, e), UNCHANGED <<lost, dup, buf>>
    PROVE  /\ fly' \in [Nodes -> [Events -> Nat]]
           /\ CarriedInv'
           /\ \A n \in Nodes, k \in Events :
                 Flow(n, k)' <= IF k = e THEN Flow(n, k) + 1 ELSE Flow(n, k)
<1>1. fly \in [Nodes -> [Events -> Nat]]
  BY DEF IInv, FlowType
<1>2. fly' \in [Nodes -> [Events -> Nat]]
  BY <1>1 DEF Sent
<1>3. ASSUME NEW n \in Nodes, NEW k \in Events
      PROVE  fly'[n][k] = IF k = e /\ Carried(n, e) THEN fly[n][k] + 1 ELSE fly[n][k]
  BY <1>1 DEF Sent, Carried
<1>4. CarriedInv'
  <2>1. \A n \in Nodes, k \in Events : fly[n][k] > 0 => Carried(n, k)
    BY DEF IInv, BalanceInv, CarriedInv
  <2>2. ASSUME NEW n \in Nodes, NEW k \in Events, fly'[n][k] > 0
        PROVE  Carried(n, k)
    BY <1>3, <2>1, <2>2
  <2>3. \A n \in Nodes : \A i \in 1 .. Len(buf[n]) : Carried(n, buf[n][i])
    BY DEF IInv, BalanceInv, CarriedInv
  <2> QED
    BY <2>2, <2>3 DEF CarriedInv, Carried, Sendable
<1>5. ASSUME NEW n \in Nodes, NEW k \in Events
      PROVE  Flow(n, k)' <= IF k = e THEN Flow(n, k) + 1 ELSE Flow(n, k)
  <2>1. Flow(n, k)' = fly'[n][k] + lost[n][k] + CountOf(buf[n], k)
    BY DEF Flow, CountOf, At
  <2>2. fly[n][k] \in Nat /\ lost[n][k] \in Nat /\ CountOf(buf[n], k) \in Nat
    BY FlowIsNat DEF IInv
  <2> QED
    BY <1>3, <2>1, <2>2 DEF Flow
<1> QED
  BY <1>2, <1>4, <1>5

LEMMA RelayStep ==
    ASSUME IInv, NEW e \in Events, ChannelRelay(e) \/ ApiRelay(e)
    PROVE  IInv'
<1>1. UNCHANGED <<conn, lost, dup, buf, got>> /\ fly' = Sent(Event[e].at, e)
  BY DEF ChannelRelay, ApiRelay
<1>2. stage \in [Events -> {"new", "push", "local", "again", "relay", "done"}]
  BY DEF IInv, FlowType
<1>3. PICK l \in {"local", "done"} :
        /\ stage' = [stage EXCEPT ![e] = l]
        /\ IF l = "local" THEN stage[e] = "push" ELSE stage[e] \in {"relay", "again"} /\ FromApi(e)
  BY DEF ChannelRelay, ApiRelay, IInv, BalanceInv, StageInv
<1>4. /\ fly' \in [Nodes -> [Events -> Nat]] /\ CarriedInv'
      /\ \A n \in Nodes, k \in Events :
            Flow(n, k)' <= IF k = e THEN Flow(n, k) + 1 ELSE Flow(n, k)
  BY <1>1, SentOnce
<1>5. FlowType'
  BY <1>1, <1>3, <1>4 DEF IInv, FlowType
<1>6. StageInv'
  BY <1>2, <1>3 DEF IInv, BalanceInv, StageInv, FromApi
<1>7. ASSUME NEW n \in Nodes, NEW k \in Events
      PROVE  Flow(n, k)' + Sends(k) + dup[n][k] <= Flow(n, k) + Sends(k)' + dup'[n][k]
  <2>1. IF k = e THEN Sends(k)' >= Sends(k) + 1 ELSE Sends(k)' = Sends(k)
    <3>1. CASE k # e
      BY <1>2, <1>3, <3>1 DEF Sends, FromApi
    <3>2. CASE k = e
      BY <1>2, <1>3, <3>2 DEF Sends, FromApi
    <3> QED
      BY <3>1, <3>2
  <2>2. Flow(n, k) \in Nat /\ Sends(k) \in Nat /\ dup[n][k] \in Nat
    BY FlowIsNat DEF IInv
  <2>3. Flow(n, k)' \in Nat /\ Sends(k)' \in Nat /\ dup'[n][k] = dup[n][k]
    BY <1>1, <1>5, FlowIsNatNext
  <2> QED
    BY <1>4, <2>1, <2>2, <2>3
<1>8. \A k \in Events : stage'[k] \in {"new", "push", "local", "relay"} =>
                        stage[k] \in {"new", "push", "local", "relay"}
  BY <1>2, <1>3
<1> QED
  BY <1>1, <1>4, <1>5, <1>6, <1>7, <1>8, QuietStep

-----------------------------------------------------------------------------
(* The network moves, loses or repeats one frame of event e to node n.      *)
LEMMA FrameStep ==
    ASSUME IInv, NEW n \in Nodes, NEW e \in Events, fly[n][e] > 0,
           UNCHANGED <<conn, stage, got>>, FlowType', CarriedInv',
           \A m \in Nodes, k \in Events :
               IF m = n /\ k = e THEN Flow(m, k)' + dup[m][k] = Flow(m, k) + dup'[m][k]
               ELSE Flow(m, k)' = Flow(m, k) /\ dup'[m][k] = dup[m][k]
    PROVE  IInv'
<1>1. StageInv'
  BY DEF IInv, BalanceInv, StageInv, FromApi
<1>2. ASSUME NEW m \in Nodes, NEW k \in Events
      PROVE  Flow(m, k)' + Sends(k) + dup[m][k] <= Flow(m, k) + Sends(k)' + dup'[m][k]
  <2>1. Flow(m, k) \in Nat /\ Sends(k) \in Nat /\ dup[m][k] \in Nat
    BY FlowIsNat DEF IInv
  <2>2. Flow(m, k)' \in Nat /\ dup'[m][k] \in Nat
    BY FlowIsNatNext
  <2>3. Sends(k)' = Sends(k)
    BY DEF Sends, FromApi
  <2>4. Flow(m, k)' + dup[m][k] = Flow(m, k) + dup'[m][k]
    BY <2>1
  <2> QED
    BY <2>1, <2>2, <2>3, <2>4
<1>3. \A k \in Events : stage'[k] = stage[k]
  OBVIOUS
<1> QED
  BY <1>1, <1>2, <1>3, QuietStep

LEMMA LoseStep ==
    ASSUME IInv, NEW n \in Nodes, NEW e \in Events, Lose(n, e)
    PROVE  IInv'
<1>1. /\ fly[n][e] > 0 /\ UNCHANGED <<conn, stage, dup, buf, got>>
      /\ fly' = [fly EXCEPT ![n][e] = @ - 1] /\ lost' = [lost EXCEPT ![n][e] = @ + 1]
  BY DEF Lose
<1>2. /\ fly \in [Nodes -> [Events -> Nat]] /\ lost \in [Nodes -> [Events -> Nat]]
  BY DEF IInv, FlowType
<1>3. ASSUME NEW m \in Nodes, NEW k \in Events
      PROVE  IF m = n /\ k = e THEN fly'[m][k] = fly[m][k] - 1 /\ lost'[m][k] = lost[m][k] + 1
             ELSE fly'[m][k] = fly[m][k] /\ lost'[m][k] = lost[m][k]
  BY <1>1, <1>2
<1>4. fly' \in [Nodes -> [Events -> Nat]] /\ lost' \in [Nodes -> [Events -> Nat]]
  BY <1>1, <1>2
<1>5. FlowType'
  BY <1>1, <1>4 DEF IInv, FlowType
<1>6. CarriedInv'
  <2>1. \A m \in Nodes, k \in Events : fly'[m][k] > 0 => fly[m][k] > 0
    BY <1>1, <1>3
  <2> QED
    BY <1>1, <2>1 DEF IInv, BalanceInv, CarriedInv, Carried, Sendable
<1>7. ASSUME NEW m \in Nodes, NEW k \in Events
      PROVE  Flow(m, k)' = Flow(m, k) /\ dup'[m][k] = dup[m][k]
  <2>1. Flow(m, k)' = fly'[m][k] + lost'[m][k] + CountOf(buf[m], k)
    BY <1>1 DEF Flow, CountOf, At
  <2>2. fly[m][k] \in Nat /\ lost[m][k] \in Nat /\ CountOf(buf[m], k) \in Nat
    BY FlowIsNat DEF IInv
  <2> QED
    BY <1>1, <1>3, <2>1, <2>2 DEF Flow
<1>8. \A m \in Nodes, k \in Events :
          IF m = n /\ k = e THEN Flow(m, k)' + dup[m][k] = Flow(m, k) + dup'[m][k]
          ELSE Flow(m, k)' = Flow(m, k) /\ dup'[m][k] = dup[m][k]
  BY <1>7
<1> QED
  BY <1>1, <1>5, <1>6, <1>8, FrameStep

LEMMA RepeatStep ==
    ASSUME IInv, NEW n \in Nodes, NEW e \in Events, Repeat(n, e)
    PROVE  IInv'
<1>1. /\ fly[n][e] > 0 /\ dup[n][e] < MaxDup /\ UNCHANGED <<conn, stage, lost, buf, got>>
      /\ fly' = [fly EXCEPT ![n][e] = @ + 1] /\ dup' = [dup EXCEPT ![n][e] = @ + 1]
  BY DEF Repeat
<1>2. fly \in [Nodes -> [Events -> Nat]] /\ dup \in [Nodes -> [Events -> 0 .. MaxDup]] /\ MaxDup \in Nat
  BY RelayAssumption DEF IInv, FlowType
<1>3. ASSUME NEW m \in Nodes, NEW k \in Events
      PROVE  IF m = n /\ k = e THEN fly'[m][k] = fly[m][k] + 1 /\ dup'[m][k] = dup[m][k] + 1
             ELSE fly'[m][k] = fly[m][k] /\ dup'[m][k] = dup[m][k]
  BY <1>1, <1>2
<1>4. fly' \in [Nodes -> [Events -> Nat]] /\ dup' \in [Nodes -> [Events -> 0 .. MaxDup]]
  BY <1>1, <1>2
<1>5. FlowType'
  BY <1>1, <1>4 DEF IInv, FlowType
<1>6. CarriedInv'
  <2>1. \A m \in Nodes, k \in Events : fly'[m][k] > 0 => fly[m][k] > 0
    BY <1>1, <1>3
  <2> QED
    BY <1>1, <2>1 DEF IInv, BalanceInv, CarriedInv, Carried, Sendable
<1>7. ASSUME NEW m \in Nodes, NEW k \in Events
      PROVE  IF m = n /\ k = e THEN Flow(m, k)' + dup[m][k] = Flow(m, k) + dup'[m][k]
             ELSE Flow(m, k)' = Flow(m, k) /\ dup'[m][k] = dup[m][k]
  <2>1. Flow(m, k)' = fly'[m][k] + lost[m][k] + CountOf(buf[m], k)
    BY <1>1 DEF Flow, CountOf, At
  <2>2. /\ fly[m][k] \in Nat /\ lost[m][k] \in Nat /\ CountOf(buf[m], k) \in Nat
        /\ dup[m][k] \in Nat
    BY FlowIsNat DEF IInv
  <2> QED
    BY <1>3, <2>1, <2>2 DEF Flow
<1> QED
  BY <1>1, <1>5, <1>6, <1>7, FrameStep

LEMMA ArriveStep ==
    ASSUME IInv, NEW n \in Nodes, NEW e \in Events, Arrive(n, e)
    PROVE  IInv'
<1>1. CASE ~(Len(buf[n]) < MaxBuf)
  BY <1>1, LoseStep DEF Arrive, Lose
<1>2. CASE Len(buf[n]) < MaxBuf
  <2>1. /\ fly[n][e] > 0 /\ UNCHANGED <<conn, stage, lost, dup, got>>
        /\ fly' = [fly EXCEPT ![n][e] = @ - 1] /\ buf' = [buf EXCEPT ![n] = Append(@, e)]
    BY <1>2 DEF Arrive
  <2>2. /\ fly \in [Nodes -> [Events -> Nat]] /\ buf \in [Nodes -> Seq(Events)]
        /\ MaxBuf \in Nat /\ \A m \in Nodes : Len(buf[m]) <= MaxBuf
    BY RelayAssumption DEF IInv, FlowType
  <2>3. ASSUME NEW m \in Nodes, NEW k \in Events
        PROVE  fly'[m][k] = IF m = n /\ k = e THEN fly[m][k] - 1 ELSE fly[m][k]
    BY <2>1, <2>2
  <2>4. fly' \in [Nodes -> [Events -> Nat]]
    BY <2>1, <2>2
  <2>5. ASSUME NEW m \in Nodes
        PROVE  /\ buf'[m] = IF m = n THEN Append(buf[m], e) ELSE buf[m]
               /\ buf'[m] \in Seq(Events) /\ Len(buf'[m]) <= MaxBuf
    BY <1>2, <2>1, <2>2
  <2>6. FlowType'
    <3>1. buf' \in [Nodes -> Seq(Events)]
      BY <2>1, <2>2
    <3> QED
      BY <2>1, <2>4, <2>5, <3>1 DEF IInv, FlowType
  <2>7. CarriedInv'
    <3>1. \A m \in Nodes, k \in Events : fly[m][k] > 0 => Carried(m, k)
      BY DEF IInv, BalanceInv, CarriedInv
    <3>2. \A m \in Nodes, k \in Events : fly'[m][k] > 0 => fly[m][k] > 0
      BY <2>1, <2>2, <2>3
    <3>3. \A m \in Nodes : \A i \in 1 .. Len(buf[m]) : Carried(m, buf[m][i])
      BY DEF IInv, BalanceInv, CarriedInv
    <3>4. ASSUME NEW m \in Nodes, NEW i \in 1 .. Len(buf'[m])
          PROVE  Carried(m, buf'[m][i])
      <4>1. CASE m # n
        BY <2>5, <3>3, <4>1
      <4>2. CASE m = n
        <5>1. buf'[m] = Append(buf[m], e) /\ buf[m] \in Seq(Events)
          BY <2>2, <2>5, <4>2
        <5>2. \/ i \in 1 .. Len(buf[m]) /\ buf'[m][i] = buf[m][i]
              \/ buf'[m][i] = e
          BY <5>1
        <5> QED
          BY <2>1, <3>1, <3>3, <4>2, <5>2
      <4> QED
        BY <4>1, <4>2
    <3> QED
      BY <3>1, <3>2, <3>4 DEF CarriedInv, Carried, Sendable
  <2>8. ASSUME NEW m \in Nodes, NEW k \in Events
        PROVE  Flow(m, k)' = Flow(m, k) /\ dup'[m][k] = dup[m][k]
    <3>1. Flow(m, k)' = fly'[m][k] + lost[m][k] + CountOf(buf'[m], k)
      BY <2>1 DEF Flow, CountOf, At
    <3>2. fly[m][k] \in Nat /\ lost[m][k] \in Nat /\ CountOf(buf[m], k) \in Nat
      BY FlowIsNat DEF IInv
    <3>3. CountOf(buf'[m], k) = IF m = n /\ k = e THEN CountOf(buf[m], k) + 1 ELSE CountOf(buf[m], k)
      BY <2>2, <2>5, CountAppend
    <3>4. Flow(m, k) = fly[m][k] + lost[m][k] + CountOf(buf[m], k)
      BY DEF Flow
    <3> QED
      BY <2>1, <2>3, <3>1, <3>2, <3>3, <3>4
  <2>9. \A m \in Nodes, k \in Events :
            IF m = n /\ k = e THEN Flow(m, k)' + dup[m][k] = Flow(m, k) + dup'[m][k]
            ELSE Flow(m, k)' = Flow(m, k) /\ dup'[m][k] = dup[m][k]
    BY <2>8
  <2> QED
    BY <2>1, <2>6, <2>7, <2>9, FrameStep
<1> QED
  BY <1>1, <1>2

-----------------------------------------------------------------------------
(* A push writes the event at most once to each session of the node, and to *)
(* none that it is not meant for.                                           *)
LEMMA PushWritesOnce ==
    ASSUME FlowType, NEW n \in Nodes, NEW e \in Events, Push(n, e)
    PROVE  /\ conn' \in [Sessions -> {"new", "in", "out"}]
           /\ got' \in [Sessions -> [Events -> Nat]]
           /\ \A s \in Sessions, k \in Events :
                 \/ got'[s][k] = got[s][k]
                 \/ /\ Home[s] = n /\ k = e /\ s \in Audience(e)
                    /\ got'[s][k] = got[s][k] + 1
<1>1. PICK bad \in SUBSET Recipients(n, e) :
        /\ conn' = [s \in Sessions |-> IF s \in bad THEN "out" ELSE conn[s]]
        /\ got' = [s \in Sessions |->
                      IF s \in Recipients(n, e) \ bad THEN [got[s] EXCEPT ![e] = @ + 1] ELSE got[s]]
  BY DEF Push
<1>2. conn \in [Sessions -> {"new", "in", "out"}] /\ got \in [Sessions -> [Events -> Nat]]
  BY DEF FlowType
<1>3. conn' \in [Sessions -> {"new", "in", "out"}]
  BY <1>1, <1>2
<1>4. got' \in [Sessions -> [Events -> Nat]]
  BY <1>1, <1>2
<1>5. ASSUME NEW s \in Sessions, NEW k \in Events
      PROVE  \/ got'[s][k] = got[s][k]
             \/ /\ Home[s] = n /\ k = e /\ s \in Audience(e)
                /\ got'[s][k] = got[s][k] + 1
  <2>1. CASE s \notin Recipients(n, e) \ bad
    BY <1>1, <2>1
  <2>2. CASE s \in Recipients(n, e) \ bad
    <3>1. Home[s] = n /\ s \in Audience(e)
      BY <2>2 DEF Recipients, Subscribers, Audience
    <3>2. got'[s] = [got[s] EXCEPT ![e] = @ + 1] /\ got[s] \in [Events -> Nat]
      BY <1>1, <1>2, <2>2
    <3> QED
      BY <3>1, <3>2
  <2> QED
    BY <2>1, <2>2
<1> QED
  BY <1>3, <1>4, <1>5

LEMMA PushStep ==
    ASSUME IInv, NEW e \in Events, ChannelPush(e)
    PROVE  IInv'
<1>1. /\ stage[e] = "local" /\ UNCHANGED <<fly, lost, dup, buf>> /\ Push(Event[e].at, e)
      /\ stage' = [stage EXCEPT ![e] = IF FromApi(e) THEN "again" ELSE "done"]
  BY DEF ChannelPush, netVars
<1>2. stage \in [Events -> {"new", "push", "local", "again", "relay", "done"}]
  BY DEF IInv, FlowType
<1>3. /\ conn' \in [Sessions -> {"new", "in", "out"}]
      /\ got' \in [Sessions -> [Events -> Nat]]
      /\ \A s \in Sessions, k \in Events :
            \/ got'[s][k] = got[s][k]
            \/ /\ Home[s] = Event[e].at /\ k = e /\ s \in Audience(e)
               /\ got'[s][k] = got[s][k] + 1
  BY <1>1, EventType, PushWritesOnce DEF IInv
<1>4. FlowType'
  BY <1>1, <1>3 DEF IInv, FlowType
<1>5. StageInv' /\ CarriedInv'
  <2>1. CarriedInv'
    BY <1>1 DEF IInv, BalanceInv, CarriedInv, Carried, Sendable
  <2>2. StageInv'
    BY <1>1, <1>2 DEF IInv, BalanceInv, StageInv, FromApi
  <2> QED
    BY <2>1, <2>2
<1>6. ASSUME NEW n \in Nodes, NEW k \in Events
      PROVE  Flow(n, k)' = Flow(n, k) /\ Sends(k)' = Sends(k) /\ dup'[n][k] = dup[n][k]
  <2>1. Flow(n, k)' = Flow(n, k)
    BY <1>1 DEF Flow, CountOf, At
  <2>2. Sends(k)' = Sends(k)
    BY <1>1, <1>2 DEF Sends, FromApi
  <2> QED
    BY <1>1, <2>1, <2>2
<1>7. FlowInv'
  BY <1>6 DEF IInv, BalanceInv, FlowInv
<1>8. CopyInv'
  <2> SUFFICES ASSUME NEW s \in Sessions, NEW k \in Events, Home[s] # Event[k].at
               PROVE  Flow(Home[s], k)' + got'[s][k] <= Sends(k)' + dup'[Home[s]][k]
    BY DEF CopyInv
  <2>1. Flow(Home[s], k) + got[s][k] <= Sends(k) + dup[Home[s]][k]
    BY DEF IInv, BalanceInv, CopyInv
  <2>2. got'[s][k] = got[s][k] /\ Home[s] \in Nodes
    BY <1>3, HomeType
  <2> QED
    BY <1>6, <2>1, <2>2
<1>9. LocalInv'
  <2> SUFFICES ASSUME NEW s \in Sessions, NEW k \in Events
               PROVE  IF Home[s] = Event[k].at
                      THEN got'[s][k] <= 1 /\ (stage'[k] \in {"new", "push", "local", "relay"} => got'[s][k] = 0)
                      ELSE ~(Sendable(k) /\ Readable(k)) => got'[s][k] = 0
    BY DEF LocalInv, Sendable, Readable, PackedLen
  <2>1. IF Home[s] = Event[k].at
        THEN got[s][k] <= 1 /\ (stage[k] \in {"new", "push", "local", "relay"} => got[s][k] = 0)
        ELSE ~(Sendable(k) /\ Readable(k)) => got[s][k] = 0
    BY DEF IInv, BalanceInv, LocalInv
  <2>2. CASE got'[s][k] = got[s][k]
    BY <1>1, <1>2, <2>1, <2>2
  <2>3. CASE got'[s][k] # got[s][k]
    BY <1>1, <1>2, <1>3, <2>1, <2>3
  <2> QED
    BY <2>2, <2>3
<1>10. OnlyAudience'
  BY <1>3 DEF IInv, OnlyAudience
<1> QED
  BY <1>4, <1>5, <1>7, <1>8, <1>9, <1>10 DEF IInv, BalanceInv

(* OnUdpData takes a frame off the buffer for the copies it writes.         *)
LEMMA ReadStep ==
    ASSUME IInv, NEW n \in Nodes, OnUdpData(n)
    PROVE  IInv'
<1> DEFINE e == Head(buf[n])
<1>1. /\ buf[n] # << >> /\ Readable(e) /\ buf' = [buf EXCEPT ![n] = Tail(@)]
      /\ UNCHANGED <<stage, lost, dup, fly>>
      /\ Push(n, e) \/ UNCHANGED <<conn, got>>
  BY DEF OnUdpData, OnClusterPush
<1>2. /\ buf \in [Nodes -> Seq(Events)] /\ MaxBuf \in Nat
      /\ \A m \in Nodes : Len(buf[m]) <= MaxBuf
      /\ conn \in [Sessions -> {"new", "in", "out"}] /\ got \in [Sessions -> [Events -> Nat]]
  BY RelayAssumption DEF IInv, FlowType
<1>3. e \in Events /\ Carried(n, e)
  <2>1. buf[n] \in Seq(Events) /\ 1 \in 1 .. Len(buf[n]) /\ e = buf[n][1]
    BY <1>1, <1>2
  <2> QED
    BY <2>1 DEF IInv, BalanceInv, CarriedInv
<1>4. ASSUME NEW m \in Nodes
      PROVE  /\ buf'[m] = IF m = n THEN Tail(buf[m]) ELSE buf[m]
             /\ buf'[m] \in Seq(Events) /\ Len(buf'[m]) <= MaxBuf
  BY <1>1, <1>2
<1>5. /\ conn' \in [Sessions -> {"new", "in", "out"}] /\ got' \in [Sessions -> [Events -> Nat]]
      /\ \A s \in Sessions, k \in Events :
            \/ got'[s][k] = got[s][k]
            \/ /\ Home[s] = n /\ k = e /\ s \in Audience(e)
               /\ got'[s][k] = got[s][k] + 1
  <2>1. CASE Push(n, e)
    BY <1>3, <2>1, PushWritesOnce DEF IInv
  <2>2. CASE UNCHANGED <<conn, got>>
    BY <1>2, <2>2
  <2> QED
    BY <1>1, <2>1, <2>2
<1>6. FlowType'
  <2>1. buf' \in [Nodes -> Seq(Events)]
    BY <1>1, <1>2
  <2> QED
    BY <1>1, <1>4, <1>5, <2>1 DEF IInv, FlowType
<1>7. CarriedInv'
  <2>1. \A m \in Nodes : \A i \in 1 .. Len(buf[m]) : Carried(m, buf[m][i])
    BY DEF IInv, BalanceInv, CarriedInv
  <2>2. ASSUME NEW m \in Nodes, NEW i \in 1 .. Len(buf'[m])
        PROVE  Carried(m, buf'[m][i])
    <3>1. CASE m # n
      BY <1>4, <2>1, <3>1
    <3>2. CASE m = n
      <4>1. buf'[m] = Tail(buf[m]) /\ buf[m] \in Seq(Events) /\ buf[m] # << >>
        BY <1>1, <1>2, <1>4, <3>2
      <4>2. i + 1 \in 1 .. Len(buf[m]) /\ buf'[m][i] = buf[m][i + 1]
        BY <4>1
      <4> QED
        BY <2>1, <4>2
    <3> QED
      BY <3>1, <3>2
  <2>3. \A m \in Nodes, k \in Events : fly'[m][k] > 0 => Carried(m, k)
    BY <1>1 DEF IInv, BalanceInv, CarriedInv
  <2> QED
    BY <2>2, <2>3 DEF CarriedInv, Carried, Sendable
<1>8. ASSUME NEW m \in Nodes, NEW k \in Events
      PROVE  /\ Flow(m, k)' = IF m = n /\ k = e THEN Flow(m, k) - 1 ELSE Flow(m, k)
             /\ Sends(k)' = Sends(k) /\ dup'[m][k] = dup[m][k]
             /\ Flow(m, k) \in Nat /\ Sends(k) \in Nat /\ dup[m][k] \in Nat
  <2>1. Flow(m, k)' = fly[m][k] + lost[m][k] + CountOf(buf'[m], k)
    BY <1>1 DEF Flow, CountOf, At
  <2>2. /\ fly[m][k] \in Nat /\ lost[m][k] \in Nat /\ CountOf(buf[m], k) \in Nat
        /\ Flow(m, k) \in Nat /\ Sends(k) \in Nat /\ dup[m][k] \in Nat
    BY FlowIsNat DEF IInv
  <2>3. CountOf(buf'[m], k) = IF m = n /\ k = e THEN CountOf(buf[m], k) - 1 ELSE CountOf(buf[m], k)
    <3>1. CASE m # n
      BY <1>4, <3>1
    <3>2. CASE m = n
      BY <1>1, <1>2, <1>4, <3>2, <2>2, CountTail
    <3> QED
      BY <3>1, <3>2
  <2>4. Flow(m, k) = fly[m][k] + lost[m][k] + CountOf(buf[m], k)
    BY DEF Flow
  <2>5. Sends(k)' = Sends(k) /\ dup'[m][k] = dup[m][k]
    BY <1>1 DEF Sends, FromApi
  <2> HIDE DEF e
  <2> QED
    BY <2>1, <2>2, <2>3, <2>4, <2>5
<1> HIDE DEF e
<1>9. FlowInv'
  <2> SUFFICES ASSUME NEW m \in Nodes, NEW k \in Events
               PROVE  Flow(m, k)' <= Sends(k)' + dup'[m][k]
    BY DEF FlowInv
  <2>1. Flow(m, k) <= Sends(k) + dup[m][k]
    BY DEF IInv, BalanceInv, FlowInv
  <2> QED
    BY <1>8, <2>1
<1>10. CopyInv'
  <2> SUFFICES ASSUME NEW s \in Sessions, NEW k \in Events, Home[s] # Event[k].at
               PROVE  Flow(Home[s], k)' + got'[s][k] <= Sends(k)' + dup'[Home[s]][k]
    BY DEF CopyInv
  <2>1. Flow(Home[s], k) + got[s][k] <= Sends(k) + dup[Home[s]][k]
    BY DEF IInv, BalanceInv, CopyInv
  <2>2. Home[s] \in Nodes /\ got[s][k] \in Nat /\ got'[s][k] \in Nat
    BY <1>2, <1>5, HomeType
  <2>3. got'[s][k] = got[s][k] \/ (Home[s] = n /\ k = e /\ got'[s][k] = got[s][k] + 1)
    BY <1>5
  <2>4. Flow(Home[s], k)' + got'[s][k] <= Flow(Home[s], k) + got[s][k]
    BY <1>8, <2>2, <2>3
  <2> QED
    BY <1>8, <2>1, <2>2, <2>4
<1>11. LocalInv'
  <2> SUFFICES ASSUME NEW s \in Sessions, NEW k \in Events
               PROVE  IF Home[s] = Event[k].at
                      THEN got'[s][k] <= 1 /\ (stage'[k] \in {"new", "push", "local", "relay"} => got'[s][k] = 0)
                      ELSE ~(Sendable(k) /\ Readable(k)) => got'[s][k] = 0
    BY DEF LocalInv, Sendable, Readable, PackedLen
  <2>1. IF Home[s] = Event[k].at
        THEN got[s][k] <= 1 /\ (stage[k] \in {"new", "push", "local", "relay"} => got[s][k] = 0)
        ELSE ~(Sendable(k) /\ Readable(k)) => got[s][k] = 0
    BY DEF IInv, BalanceInv, LocalInv
  <2>2. CASE got'[s][k] = got[s][k]
    BY <1>1, <2>1, <2>2
  <2>3. CASE got'[s][k] # got[s][k]
    <3>1. Home[s] = n /\ k = e
      BY <1>5, <2>3
    <3> QED
      BY <1>1, <1>3, <3>1 DEF Carried
  <2> QED
    BY <2>2, <2>3
<1>12. OnlyAudience'
  BY <1>5 DEF IInv, OnlyAudience
<1>13. StageInv'
  BY <1>1 DEF IInv, BalanceInv, StageInv, FromApi
<1> QED
  BY <1>6, <1>7, <1>9, <1>10, <1>11, <1>12, <1>13 DEF IInv, BalanceInv

-----------------------------------------------------------------------------
LEMMA NextInv == IInv /\ [Next]_vars => IInv'
<1> SUFFICES ASSUME IInv, [Next]_vars PROVE IInv'
  OBVIOUS
<1>1. ASSUME NEW s \in Sessions, Subscribe(s) \/ UnSubscribe(s) PROVE IInv'
  BY <1>1, SubscriptionStep
<1>2. ASSUME NEW e \in Events, ApiOnEvents(e) \/ OnWsMessage(e) PROVE IInv'
  BY <1>2, BeginStep
<1>3. ASSUME NEW e \in Events, Handle(e) PROVE IInv'
  BY <1>3, RelayStep, PushStep DEF Handle
<1>4. ASSUME NEW n \in Nodes, NEW e \in Events, Lose(n, e) \/ Repeat(n, e) \/ Arrive(n, e) PROVE IInv'
  BY <1>4, LoseStep, RepeatStep, ArriveStep
<1>5. ASSUME NEW n \in Nodes, OnUdpData(n) PROVE IInv'
  BY <1>5, ReadStep
<1>6. CASE UNCHANGED vars
  <2>1. UNCHANGED <<conn, stage, fly, lost, dup, buf, got>>
    BY <1>6 DEF vars, netVars
  <2>2. FlowType' /\ OnlyAudience'
    BY <2>1 DEF IInv, FlowType, OnlyAudience
  <2>3. StageInv' /\ CarriedInv' /\ LocalInv'
    BY <2>1 DEF IInv, BalanceInv, StageInv, CarriedInv, LocalInv, Carried, Sendable, Readable, PackedLen, FromApi
  <2>4. \A n \in Nodes, e \in Events : Flow(n, e)' = Flow(n, e) /\ Sends(e)' = Sends(e)
    BY <2>1 DEF Flow, Sends, CountOf, At, FromApi
  <2>5. FlowInv' /\ CopyInv'
    BY <2>1, <2>4, HomeType DEF IInv, BalanceInv, FlowInv, CopyInv
  <2> QED
    BY <2>2, <2>3, <2>5 DEF IInv, BalanceInv
<1> QED
  BY <1>1, <1>2, <1>3, <1>4, <1>5, <1>6 DEF Next

(* The balance of frames and copies holds at all times.                     *)
THEOREM FramesBalance == Spec => []IInv
<1>1. Init => IInv
  BY InitInv
<1>2. IInv /\ [Next]_vars => IInv'
  BY NextInv
<1> QED
  BY <1>1, <1>2, PTL DEF Spec

(* A handler sends a node at most two frames of an event and none to its    *)
(* own, however nodes, sessions, frames and failures interleave.            *)
THEOREM TypeCorrect == Spec => []TypeOK
<1>1. IInv => TypeOK
  BY BalanceSuffices DEF IInv
<1> QED
  BY <1>1, FramesBalance, PTL

(* A broadcast never gets to its sender or to the session it excludes, nor  *)
(* a unicast or multicast to anybody else than those named in it.           *)
THEOREM OnlyAudienceReached == Spec => []OnlyAudience
<1>1. IInv => OnlyAudience
  BY DEF IInv
<1> QED
  BY <1>1, FramesBalance, PTL

(* No session gets an event more often than its frames allow: once on its   *)
(* own node, and elsewhere once or, from the API, twice, plus repetitions.  *)
THEOREM CopiesAreBounded == Spec => []CopiesBounded
<1>1. IInv => CopiesBounded
  BY BalanceSuffices DEF IInv
<1> QED
  BY <1>1, FramesBalance, PTL
=============================================================================
