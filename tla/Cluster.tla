------------------------------ MODULE Cluster -------------------------------
(***************************************************************************)
(* Membership of the cluster: what ccluster::Check, called by the broker's *)
(* idle loop, and OnClusterPing, called by the poll thread, do to the      *)
(* peers of a node (clusNodes), over a network that delays and loses pings *)
(* and with nodes that crash and restart.  Nodes get their first peers     *)
(* from their configuration (clistadapter) or from the watch of the        *)
(* Kubernetes API (ck8sadapter).  The watch delivers a queue of reports,   *)
(* each listing the endpoints of the service as they were when it was      *)
(* made: some ready, some not, and some that are gone not at all.          *)
(*                                                                         *)
(* Time is counted in ticks of std::time and kept as distances from now:   *)
(* age[n][m] is now - NodeLastActivity (Never once no ping counts), since  *)
(* the time since clusPingTime was set, gcIn what is left to clusGcTime.   *)
(***************************************************************************)
EXTENDS Naturals, Sequences

CONSTANTS
    Nodes,
    K8s,        \* the nodes that use ck8sadapter
    Interval,   \* clusPingInterval, not 0
    Slack,      \* the 10 seconds Check and Gc add to it
    MaxPause,   \* bound: ticks between two runs of a node's idle loop
    MaxDelay,   \* bound: ticks a ping is under way
    MaxNews     \* bound: reports a watch has yet to deliver

ASSUME ClusterAssumption ==
    /\ K8s \subseteq Nodes
    /\ Interval \in Nat \ {0} /\ Slack \in Nat /\ MaxPause \in Nat \ {0} /\ MaxDelay \in Nat
    /\ MaxNews \in Nat \ {0}
    /\ MaxDelay < Interval            \* one ping of a node to another at a time
    /\ MaxPause + MaxDelay <= Slack   \* what the ten seconds are there for

Never == Interval + Slack + 1
Unset == Interval + Slack + 1
NoPing == MaxDelay + 1

VARIABLES
    up,         \* node -> it runs
    peers,      \* node -> the nodes in its clusNodes
    age,        \* node -> peer -> ticks since the last ping from it
    since,      \* node -> ticks since it sent pings, Interval at the start
    gcIn,       \* node -> ticks until Gc is due, Unset at the start
    idle,       \* node -> ticks since its last Check
    flight,     \* from -> to -> ticks a ping is under way, or NoPing
    ready,      \* the endpoints Kubernetes reports ready
    watch,      \* node -> its watch of the endpoints is connected
    news,       \* node -> the reports its watch has yet to deliver
    calm,       \* no more faults
    steady      \* history: node -> peer -> no ping of it was lost, and it did
                \* not stop pinging, since a ping of it was handled

nodeVars == <<peers, age, since, gcIn, idle>>
k8sVars == <<ready, watch, news>>
vars == <<up, nodeVars, flight, k8sVars, calm, steady>>

Others(n) == Nodes \ {n}
Older(a) == IF a < Never THEN a + 1 ELSE Never

Reports == [on : SUBSET Nodes, off : SUBSET Nodes]

(* A report to n that lists the endpoints `on` as ready and `off` as not,   *)
(* put behind those yet to come; one that lists nobody else is skipped.     *)
Told(q, n, on, off) ==
    IF (on \cup off) \ {n} = {} THEN q ELSE Append(q, [on |-> on \ {n}, off |-> off \ {n}])

(* ck8sadapter::Connect, when not connected: a new watch begins with the    *)
(* endpoints as they are.                                                   *)
Connect(n) ==
    /\ watch' = [watch EXCEPT ![n] = n \in K8s]
    /\ IF n \in K8s /\ ~watch[n]
       THEN \E off \in SUBSET (Nodes \ ready) : news' = [news EXCEPT ![n] = Told(<<>>, n, ready, off)]
       ELSE UNCHANGED news

-----------------------------------------------------------------------------
(* Mutant of OnClusterPing: a ping refreshes a peer and does not add one.   *)
OnClusterPingKnown(m, n) ==
    /\ up[n] /\ flight[m][n] # NoPing
    /\ age' = IF m \in peers[n] THEN [age EXCEPT ![n][m] = 0] ELSE age
    /\ flight' = [flight EXCEPT ![m][n] = NoPing]
    /\ steady' = [steady EXCEPT ![n][m] = m \in peers[n] /\ up[m] /\ n \in peers[m]]
    /\ UNCHANGED <<up, peers, since, gcIn, idle, k8sVars, calm>>

(* cadapter::UpdatePeer, called for a ping: refresh or add its sender.      *)
OnClusterPing(m, n) ==
    /\ up[n] /\ flight[m][n] # NoPing
    /\ peers' = [peers EXCEPT ![n] = @ \cup {m}]
    /\ age' = [age EXCEPT ![n][m] = 0]
    /\ flight' = [flight EXCEPT ![m][n] = NoPing]
    /\ steady' = [steady EXCEPT ![n][m] = up[m] /\ n \in peers[m]]
    /\ UNCHANGED <<up, since, gcIn, idle, k8sVars, calm>>

(* Mutant of Stale: the ten seconds are forgotten.                          *)
StaleEarly(n, m) == age[n][m] > Interval

(* cadapter::Gc: NodeLastActivity + pingInterval + 10 < now.                *)
Stale(n, m) == age[n][m] > Interval + Slack

(* Mutant of Check: the time of the first collection is never set.          *)
CheckNeverGc(n) ==
    LET ping == since[n] >= Interval
    IN  /\ up[n]
        /\ idle' = [idle EXCEPT ![n] = 0]
        /\ since' = [since EXCEPT ![n] = IF ping THEN 0 ELSE @]
        /\ flight' = [flight EXCEPT ![n] = [m \in Nodes |-> IF ping /\ m \in peers[n] THEN 0 ELSE @[m]]]
        /\ Connect(n)
        /\ UNCHANGED <<up, peers, age, gcIn, ready, calm, steady>>

(* Check: reconnect the watch; ping every peer when it is time; collect     *)
(* when it is time.                                                         *)
Check(n) ==
    LET ping == since[n] >= Interval
        gc == gcIn[n] = 0
        gone == IF gc THEN {m \in peers[n] : Stale(n, m)} ELSE {}
    IN  /\ up[n]
        /\ idle' = [idle EXCEPT ![n] = 0]
        /\ since' = [since EXCEPT ![n] = IF ping THEN 0 ELSE @]
        /\ flight' = [flight EXCEPT ![n] = [m \in Nodes |-> IF ping /\ m \in peers[n] THEN 0 ELSE @[m]]]
        /\ gcIn' = [gcIn EXCEPT ![n] = IF gc \/ @ = Unset THEN Interval + Slack ELSE @]
        /\ peers' = [peers EXCEPT ![n] = @ \ gone]
        /\ age' = [age EXCEPT ![n] = [m \in Nodes |-> IF m \in gone THEN Never ELSE @[m]]]
        /\ steady' = [i \in Nodes |-> [m \in Nodes |->
                         steady[i][m] /\ ~(m = n /\ i \in gone) /\ ~(i = n /\ m \in gone)]]
        /\ Connect(n)
        /\ UNCHANGED <<up, ready, calm>>

-----------------------------------------------------------------------------
(* ck8sadapter::OnResponse takes the next report: endpoints that are ready  *)
(* are added, those that are there left as they are, with no ping from them *)
(* yet; those that are not ready, or deleted, are erased.                   *)
OnResponse(n) ==
    LET now == Head(news[n])
    IN  /\ n \in K8s /\ up[n] /\ watch[n] /\ news[n] # <<>>
        /\ news' = [news EXCEPT ![n] = Tail(@)]
        /\ peers' = [peers EXCEPT ![n] = (@ \ now.off) \cup (now.on \ {n})]
        /\ age' = [age EXCEPT ![n] = [m \in Nodes |-> IF m \in peers[n] \ now.off THEN @[m] ELSE Never]]
        /\ steady' = [i \in Nodes |-> [m \in Nodes |->
                         steady[i][m] /\ ~(i = n /\ m \in now.off) /\ ~(m = n /\ i \in now.off)]]
        /\ UNCHANGED <<up, since, gcIn, idle, flight, ready, watch, calm>>

(* Disconnect: the connection fails, what it had to deliver is lost.        *)
Disconnect(n) ==
    /\ ~calm /\ up[n] /\ watch[n]
    /\ watch' = [watch EXCEPT ![n] = FALSE]
    /\ news' = [news EXCEPT ![n] = <<>>]
    /\ UNCHANGED <<up, nodeVars, flight, ready, calm, steady>>

(* Kubernetes changes what it holds of the endpoints that some node watches *)
(* and tells the watches, off being those it calls not ready.               *)
Modify(on, off) ==
    /\ ~calm
    /\ on \cap off = {}
    /\ \A m \in on \cup off : K8s \ {m} # {}
    /\ \A n \in Nodes : Len(news[n]) < MaxNews
    /\ ready' = on
    /\ news' = [n \in Nodes |-> IF watch[n] THEN Told(news[n], n, on, off) ELSE news[n]]
    /\ UNCHANGED <<up, nodeVars, flight, watch, calm, steady>>

-----------------------------------------------------------------------------
(* A ping is lost, in the network or because nobody listens.                *)
Lose(m, n) ==
    /\ flight[m][n] # NoPing
    /\ ~calm \/ ~up[n]
    /\ flight' = [flight EXCEPT ![m][n] = NoPing]
    /\ steady' = [steady EXCEPT ![n][m] = FALSE]
    /\ UNCHANGED <<up, nodeVars, k8sVars, calm>>

Crash(n) ==
    /\ ~calm /\ up[n]
    /\ up' = [up EXCEPT ![n] = FALSE]
    /\ peers' = [peers EXCEPT ![n] = {}]
    /\ age' = [age EXCEPT ![n] = [m \in Nodes |-> Never]]
    /\ since' = [since EXCEPT ![n] = Interval]
    /\ gcIn' = [gcIn EXCEPT ![n] = Unset]
    /\ idle' = [idle EXCEPT ![n] = 0]
    /\ watch' = [watch EXCEPT ![n] = FALSE]
    /\ news' = [news EXCEPT ![n] = <<>>]
    /\ steady' = [i \in Nodes |-> [m \in Nodes |-> i # n /\ m # n /\ steady[i][m]]]
    /\ UNCHANGED <<flight, ready, calm>>

(* Mutant of Restart: a node does not find itself among the configured.     *)
RestartWithSelf(n) ==
    /\ ~up[n]
    /\ up' = [up EXCEPT ![n] = TRUE]
    /\ peers' = [peers EXCEPT ![n] = IF n \in K8s THEN {} ELSE Nodes]
    /\ Connect(n)
    /\ UNCHANGED <<age, since, gcIn, idle, flight, ready, calm, steady>>

(* The constructors: clistadapter lists the configured nodes, ck8sadapter   *)
(* connects its watch.                                                      *)
Restart(n) ==
    /\ ~up[n]
    /\ up' = [up EXCEPT ![n] = TRUE]
    /\ peers' = [peers EXCEPT ![n] = IF n \in K8s THEN {} ELSE Others(n)]
    /\ Connect(n)
    /\ UNCHANGED <<age, since, gcIn, idle, flight, ready, calm, steady>>

CalmDown ==
    /\ ~calm
    /\ calm' = TRUE
    /\ UNCHANGED <<up, nodeVars, flight, k8sVars, steady>>

(* Time passes, but no idle loop is stopped for longer than MaxPause and no *)
(* ping is under way for longer than MaxDelay.                              *)
Tick ==
    /\ \A n \in Nodes : up[n] => idle[n] < MaxPause
    /\ \A m, n \in Nodes : flight[m][n] # MaxDelay
    /\ age' = [n \in Nodes |-> [m \in Nodes |-> Older(age[n][m])]]
    /\ since' = [n \in Nodes |-> IF up[n] THEN since[n] + 1 ELSE since[n]]
    /\ idle' = [n \in Nodes |-> IF up[n] THEN idle[n] + 1 ELSE 0]
    /\ gcIn' = [n \in Nodes |-> IF gcIn[n] \in {0, Unset} THEN gcIn[n] ELSE gcIn[n] - 1]
    /\ flight' = [m \in Nodes |-> [n \in Nodes |->
                     IF flight[m][n] = NoPing THEN NoPing ELSE flight[m][n] + 1]]
    /\ UNCHANGED <<up, peers, k8sVars, calm, steady>>

-----------------------------------------------------------------------------
Init ==
    /\ up = [n \in Nodes |-> FALSE]
    /\ peers = [n \in Nodes |-> {}]
    /\ age = [n \in Nodes |-> [m \in Nodes |-> Never]]
    /\ since = [n \in Nodes |-> Interval]
    /\ gcIn = [n \in Nodes |-> Unset]
    /\ idle = [n \in Nodes |-> 0]
    /\ flight = [m \in Nodes |-> [n \in Nodes |-> NoPing]]
    /\ ready = {} /\ watch = [n \in Nodes |-> FALSE] /\ news = [n \in Nodes |-> <<>>]
    /\ calm = FALSE
    /\ steady = [n \in Nodes |-> [m \in Nodes |-> FALSE]]

Next ==
    \/ \E n \in Nodes : Check(n) \/ Crash(n) \/ Restart(n) \/ Disconnect(n) \/ OnResponse(n)
    \/ \E on, off \in SUBSET Nodes : Modify(on, off)
    \/ \E n \in Nodes : \E m \in Others(n) : OnClusterPing(m, n) \/ Lose(m, n)
    \/ CalmDown \/ Tick

(* Time passes, idle loops and poll threads run, pings that are not lost    *)
(* arrive.                                                                  *)
Arrive(m, n) == OnClusterPing(m, n) \/ (~up[n] /\ Lose(m, n))

Fairness ==
    /\ WF_vars(Tick)
    /\ \A n \in Nodes : WF_vars(Check(n))
    /\ \A n \in Nodes : WF_vars(\E m \in Others(n) : Arrive(m, n))
    /\ \A n \in K8s : WF_vars(OnResponse(n))

Spec == Init /\ [][Next]_vars
FairSpec == Spec /\ Fairness

-----------------------------------------------------------------------------
(* The variables keep to their types; a node that is down has no peers, and *)
(* the clocks stay within what the pauses and delays allow.                 *)
TypeOK ==
    /\ up \in [Nodes -> BOOLEAN]
    /\ peers \in [Nodes -> SUBSET Nodes]
    /\ age \in [Nodes -> [Nodes -> 0 .. Never]]
    /\ since \in [Nodes -> 0 .. Interval + MaxPause]
    /\ gcIn \in [Nodes -> 0 .. Unset]
    /\ idle \in [Nodes -> 0 .. MaxPause]
    /\ flight \in [Nodes -> [Nodes -> 0 .. NoPing]]
    /\ ready \subseteq Nodes /\ watch \in [Nodes -> BOOLEAN]
    /\ news \in [Nodes -> Seq(Reports)]
    /\ calm \in BOOLEAN
    /\ steady \in [Nodes -> [Nodes -> BOOLEAN]]
    /\ \A n \in Nodes : n \notin peers[n] /\ (~up[n] => peers[n] = {})

(* A node never collects a peer that goes on pinging it and whose pings are *)
(* not lost, however late they come and however idle loops are delayed;     *)
(* only a report that calls it unready, be it still true or not, makes a    *)
(* node that watches Kubernetes drop it.                                    *)
CalledUnready(n, m) == news[n] # <<>> /\ m \in Head(news[n]).off /\ news'[n] = Tail(news[n])
KeepsLivePeers ==
    [][\A n, m \in Nodes :
         steady[n][m] /\ m \notin peers'[n] => ~up'[n] \/ (n \in K8s /\ CalledUnready(n, m))]_vars

(* A peer that is down for good is dropped, even when Kubernetes goes on    *)
(* calling it ready.                                                        *)
DropsDeadPeers ==
    \A n \in Nodes : \A m \in Others(n) : calm /\ up[n] /\ ~up[m] ~> up[m] \/ m \notin peers[n]

(* Once pings arrive, a single ping from one node to the other is enough    *)
(* for both to list each other, and to go on doing so for good, when those  *)
(* that watch Kubernetes have the other ready and no report to the contrary *)
(* left to take.                                                            *)
Linked(n, m) == m \in peers[n] /\ n \in peers[m]
Admits(n, m) == n \in K8s => m \in ready /\ \A i \in 1 .. Len(news[n]) : m \notin news[n][i].off
OnePingConnects ==
    \A n \in Nodes : \A m \in Others(n) :
        calm /\ up[n] /\ up[m] /\ Admits(n, m) /\ Admits(m, n) /\ flight[m][n] # NoPing ~> []Linked(n, m)

(* Configured peers are connected: two running nodes that are configured as *)
(* each other's peers come to list each other once pings arrive.            *)
ConfiguredPeersConnect ==
    \A n, m \in Nodes \ K8s : n # m => (calm /\ up[n] /\ up[m] ~> Linked(n, m))
=============================================================================
