----------------------------- MODULE MCChannels -----------------------------
(* Instances of Channels for TLC: a Pusher session and a raw session, each  *)
(* read by a worker of its own, the idle loop, and pushes of each kind.     *)
EXTENDS Channels, TLC

CONSTANTS p1, w1, k1, k2, c1, grp

MCOwner == (p1 :> k1) @@ (w1 :> k2)
MCPrefix == (p1 :> None) @@ (w1 :> grp)

Broadcast == [mode |-> "broadcast", sid |-> None]
Multicast == [mode |-> "multicast", sid |-> grp]
Unicast == [mode |-> "unicast", sid |-> p1]
MCRequests == {Broadcast, Multicast, Unicast}
MCBroadcast == {Broadcast}

(* The state Init leads to once both sessions have subscribed to c1 and no  *)
(* call is under way.  The liveness run starts here and spends its client   *)
(* operations on what happens to an established channel.                    *)
Established ==
    /\ reg = [n \in Names |-> 1]
    /\ nInst = 1
    /\ nameOf = [i \in Insts |-> IF i = 1 THEN c1 ELSE None]
    /\ subs = [i \in Insts |-> IF i = 1 THEN Sessions ELSE {}]
    /\ lockX = [i \in Insts |-> None]
    /\ lockS = [i \in Insts |-> {}]
    /\ sock = [s \in Sessions |-> "open"]
    /\ subTo = [s \in Sessions |-> [n \in Names |-> 1]]
    /\ pc = [t \in Threads |-> "idle"]
    /\ op = [t \in Threads |-> "none"]
    /\ ch = [t \in Threads |-> 0] /\ at = [t \in Threads |-> 0]
    /\ who = [t \in Threads |-> None] /\ from = [t \in Threads |-> None]
    /\ req = [t \in Threads |-> None]
    /\ names = [t \in Threads |-> {}] /\ ret = [t \in Threads |-> "none"]
    /\ to = [t \in Threads |-> {}]
    /\ evict = [t \in Threads |-> {}] /\ list = [t \in Threads |-> {}]
    /\ due = [t \in Threads |-> {}]
    /\ ops = 0
    /\ joinedAt = [s \in Sessions |-> [n \in Names |-> 1]]
    /\ unleft = [s \in Sessions |-> {1}]

EstablishedSpec == Established /\ [][Next]_vars /\ Fairness
=============================================================================
