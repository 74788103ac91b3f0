--------------------------- MODULE ClusterProofs ----------------------------
(* Proofs about Cluster, for any nodes and any interval, slack, pauses and  *)
(* delays that ClusterAssumption admits.                                    *)
EXTENDS Cluster, TLAPS

(* An idle loop sends pings as soon as it runs after the interval.          *)
ClockInv ==
    \A n \in Nodes : since[n] <= Interval + idle[n] /\ (~up[n] => idle[n] = 0)

(* What is known of a node n and a peer m whose pings it goes on getting:   *)
(* the last one that arrived is no older than the last one sent, unless     *)
(* that one is still under way.                                             *)
SteadyPair(n, m) ==
    /\ n # m /\ up[n] /\ up[m]
    /\ m \in peers[n] /\ n \in peers[m]
    /\ flight[m][n] = NoPing => age[n][m] <= since[m]
    /\ flight[m][n] # NoPing =>
          /\ since[m] = flight[m][n]
          /\ age[n][m] <= Interval + MaxPause + flight[m][n]

SteadyInv == \A n, m \in Nodes : steady[n][m] => SteadyPair(n, m)

(* The numbers the definitions compare are natural numbers.                 *)
LEMMA Numbers ==
    /\ Interval \in Nat /\ Slack \in Nat /\ MaxPause \in Nat /\ MaxDelay \in Nat
    /\ Interval > 0 /\ MaxDelay < Interval /\ MaxPause + MaxDelay <= Slack
    /\ Never = Interval + Slack + 1 /\ Unset = Interval + Slack + 1 /\ NoPing = MaxDelay + 1
BY ClusterAssumption DEF Never, Unset, NoPing

(* What TypeOK says of the reports, and what it says of everything else.    *)
NewsType == news \in [Nodes -> Seq(Reports)]
BaseType ==
    /\ up \in [Nodes -> BOOLEAN]
    /\ peers \in [Nodes -> SUBSET Nodes]
    /\ age \in [Nodes -> [Nodes -> 0 .. Never]]
    /\ since \in [Nodes -> 0 .. Interval + MaxPause]
    /\ gcIn \in [Nodes -> 0 .. Unset]
    /\ idle \in [Nodes -> 0 .. MaxPause]
    /\ flight \in [Nodes -> [Nodes -> 0 .. NoPing]]
    /\ ready \subseteq Nodes /\ watch \in [Nodes -> BOOLEAN]
    /\ calm \in BOOLEAN
    /\ steady \in [Nodes -> [Nodes -> BOOLEAN]]
    /\ \A n \in Nodes : n \notin peers[n] /\ (~up[n] => peers[n] = {})

IInv == BaseType /\ NewsType /\ ClockInv /\ SteadyInv

LEMMA TypeParts == BaseType /\ NewsType => TypeOK
BY DEF TypeOK, BaseType, NewsType

LEMMA ToldType ==
    ASSUME NEW q \in Seq(Reports), NEW n, NEW on \in SUBSET Nodes, NEW off \in SUBSET Nodes
    PROVE  Told(q, n, on, off) \in Seq(Reports)
<1>1. [on |-> on \ {n}, off |-> off \ {n}] \in Reports
  BY DEF Reports
<1>2. \A r \in Reports : Append(q, r) \in Seq(Reports)
  OBVIOUS
<1> QED
  BY <1>1, <1>2 DEF Told

LEMMA NewsStep ==
    ASSUME BaseType, NewsType, [Next]_vars
    PROVE  NewsType'
<1>0. ready \in SUBSET Nodes /\ << >> \in Seq(Reports)
  BY DEF BaseType
<1> USE DEF NewsType, nodeVars, k8sVars
<1>1. ASSUME NEW n \in Nodes, Connect(n) PROVE NewsType'
  <2>1. \A off \in SUBSET (Nodes \ ready) : Told(<< >>, n, ready, off) \in Seq(Reports)
    BY <1>0, ToldType
  <2> QED
    BY <1>1, <2>1 DEF Connect
<1>2. ASSUME NEW n \in Nodes, Crash(n) \/ Disconnect(n) PROVE NewsType'
  BY <1>0, <1>2 DEF Crash, Disconnect
<1>3. ASSUME NEW n \in Nodes, OnResponse(n) PROVE NewsType'
  BY <1>3 DEF OnResponse
<1>4. ASSUME NEW on \in SUBSET Nodes, NEW off \in SUBSET Nodes, Modify(on, off) PROVE NewsType'
  <2>1. \A n \in Nodes : Told(news[n], n, on, off) \in Seq(Reports)
    BY ToldType
  <2> QED
    BY <1>4, <2>1 DEF Modify
<1>5. CASE UNCHANGED news
  BY <1>5
<1>6. \/ \E n \in Nodes : Connect(n) \/ Crash(n) \/ Disconnect(n) \/ OnResponse(n)
      \/ \E on, off \in SUBSET Nodes : Modify(on, off)
      \/ UNCHANGED news
  BY DEF Next, Check, Restart, OnClusterPing, Lose, CalmDown, Tick, vars
<1> QED
  BY <1>1, <1>2, <1>3, <1>4, <1>5, <1>6

LEMMA CountsDown ==
    ASSUME NEW a \in 0 .. Unset
    PROVE  (IF a \in {0, Unset} THEN a ELSE a - 1) \in 0 .. Unset
BY Numbers

LEMMA CountsUp ==
    ASSUME NEW a \in 0 .. NoPing
    PROVE  (IF a = NoPing THEN NoPing ELSE a + 1) \in 0 .. NoPing
BY Numbers

LEMMA ArrivesBeforeNext ==
    ASSUME NEW f \in 0 .. NoPing, NEW s \in Nat, f # NoPing => s = f, s >= Interval
    PROVE  f = NoPing
BY Numbers

LEMMA StillUnderWay ==
    ASSUME NEW f \in 0 .. NoPing, f # NoPing, f # MaxDelay
    PROVE  f + 1 # NoPing
BY Numbers

LEMMA InitInv == Init => IInv
<1> SUFFICES ASSUME Init PROVE IInv
  OBVIOUS
<1>1. BaseType
  <2>1. /\ up \in [Nodes -> BOOLEAN] /\ watch \in [Nodes -> BOOLEAN] /\ calm \in BOOLEAN
        /\ steady \in [Nodes -> [Nodes -> BOOLEAN]]
    BY DEF Init
  <2>2. /\ peers \in [Nodes -> SUBSET Nodes] /\ ready \subseteq Nodes
        /\ \A n \in Nodes : peers[n] = {}
    BY DEF Init
  <2>3. age \in [Nodes -> [Nodes -> 0 .. Never]] /\ flight \in [Nodes -> [Nodes -> 0 .. NoPing]]
    BY Numbers DEF Init
  <2>4. /\ since \in [Nodes -> 0 .. Interval + MaxPause] /\ gcIn \in [Nodes -> 0 .. Unset]
        /\ idle \in [Nodes -> 0 .. MaxPause]
    BY Numbers DEF Init
  <2> QED
    BY <2>1, <2>2, <2>3, <2>4 DEF BaseType
<1>4. NewsType
  BY DEF Init, NewsType
<1>2. ClockInv
  <2>1. \A n \in Nodes : since[n] = Interval /\ idle[n] = 0
    BY DEF Init
  <2>2. Interval <= Interval + 0
    BY Numbers
  <2> QED
    BY <2>1, <2>2, Zenon DEF ClockInv
<1>3. SteadyInv
  BY DEF Init, SteadyInv
<1> QED
  BY <1>1, <1>2, <1>3, <1>4 DEF IInv

-----------------------------------------------------------------------------
(* The clocks keep within their bounds.                                     *)
LEMMA TypeStep ==
    ASSUME BaseType, NewsType, ClockInv, [Next]_vars
    PROVE  BaseType' /\ ClockInv'
<1> USE Numbers DEF BaseType, ClockInv, nodeVars, k8sVars, Others
<1>0. ASSUME NEW n \in Nodes, Connect(n) PROVE watch' \in [Nodes -> BOOLEAN]
  BY <1>0 DEF Connect
<1>1. ASSUME NEW n \in Nodes, Check(n) PROVE BaseType' /\ ClockInv'
  <2>1. UNCHANGED <<up, ready, calm>> /\ watch' \in [Nodes -> BOOLEAN]
    BY <1>0, <1>1 DEF Check
  <2>2. peers' \in [Nodes -> SUBSET Nodes] /\ \A i \in Nodes : peers'[i] \subseteq peers[i]
    BY <1>1 DEF Check
  <2>3. age' \in [Nodes -> [Nodes -> 0 .. Never]]
    BY <1>1 DEF Check
  <2>4. /\ since' \in [Nodes -> 0 .. Interval + MaxPause] /\ idle' \in [Nodes -> 0 .. MaxPause]
        /\ \A i \in Nodes : since'[i] <= Interval + idle'[i] /\ (~up[i] => idle'[i] = 0)
    BY <1>1 DEF Check
  <2>5. gcIn' \in [Nodes -> 0 .. Unset]
    BY <1>1 DEF Check
  <2>6. flight' \in [Nodes -> [Nodes -> 0 .. NoPing]]
    BY <1>1 DEF Check
  <2>7. steady' \in [Nodes -> [Nodes -> BOOLEAN]]
    BY <1>1, Zenon DEF Check
  <2> QED
    BY <2>1, <2>2, <2>3, <2>4, <2>5, <2>6, <2>7
<1>2. ASSUME NEW n \in Nodes, Crash(n) PROVE BaseType' /\ ClockInv'
  <2>1. UNCHANGED <<flight, ready, calm>> /\ up' \in [Nodes -> BOOLEAN] /\ watch' \in [Nodes -> BOOLEAN]
    BY <1>2 DEF Crash
  <2>2. peers' \in [Nodes -> SUBSET Nodes] /\ \A i \in Nodes : i \notin peers'[i] /\ (~up'[i] => peers'[i] = {})
    BY <1>2 DEF Crash
  <2>3. age' \in [Nodes -> [Nodes -> 0 .. Never]] /\ gcIn' \in [Nodes -> 0 .. Unset]
    BY <1>2 DEF Crash
  <2>4. /\ since' \in [Nodes -> 0 .. Interval + MaxPause] /\ idle' \in [Nodes -> 0 .. MaxPause]
        /\ \A i \in Nodes : since'[i] <= Interval + idle'[i] /\ (~up'[i] => idle'[i] = 0)
    BY <1>2 DEF Crash
  <2>5. steady' \in [Nodes -> [Nodes -> BOOLEAN]]
    BY <1>2, Zenon DEF Crash
  <2> QED
    BY <2>1, <2>2, <2>3, <2>4, <2>5
<1>3. ASSUME NEW n \in Nodes, Restart(n) PROVE BaseType' /\ ClockInv'
  <2>1. /\ UNCHANGED <<age, since, gcIn, idle, flight, ready, calm, steady>>
        /\ up' \in [Nodes -> BOOLEAN] /\ watch' \in [Nodes -> BOOLEAN]
    BY <1>0, <1>3 DEF Restart
  <2>2. peers' \in [Nodes -> SUBSET Nodes] /\ \A i \in Nodes : i \notin peers'[i] /\ (~up'[i] => peers'[i] = {})
    BY <1>3 DEF Restart
  <2>3. \A i \in Nodes : ~up'[i] => idle[i] = 0
    BY <1>3 DEF Restart
  <2> QED
    BY <2>1, <2>2, <2>3
<1>4. ASSUME NEW n \in Nodes, Disconnect(n) PROVE BaseType' /\ ClockInv'
  BY <1>4 DEF Disconnect
<1>5. ASSUME NEW on \in SUBSET Nodes, NEW off \in SUBSET Nodes, Modify(on, off) PROVE BaseType' /\ ClockInv'
  BY <1>5 DEF Modify
<1>6. ASSUME NEW n \in Nodes, NEW m \in Others(n), OnClusterPing(m, n) PROVE BaseType' /\ ClockInv'
  BY <1>6 DEF OnClusterPing
<1>7. ASSUME NEW n \in Nodes, NEW m \in Others(n), Lose(m, n) PROVE BaseType' /\ ClockInv'
  BY <1>7 DEF Lose
<1>8. ASSUME NEW n \in Nodes, OnResponse(n) PROVE BaseType' /\ ClockInv'
  <2>1. UNCHANGED <<up, since, gcIn, idle, flight, ready, watch, calm>>
    BY <1>8 DEF OnResponse
  <2>2. PICK now \in Reports : now = Head(news[n])
    BY <1>8 DEF OnResponse, NewsType
  <2>6. now.on \in SUBSET Nodes
    BY <2>2 DEF Reports
  <2>7. up[n] /\ peers' = [peers EXCEPT ![n] = (@ \ now.off) \cup (now.on \ {n})]
    BY <1>8, <2>2 DEF OnResponse
  <2>3. peers' \in [Nodes -> SUBSET Nodes] /\ \A i \in Nodes : i \notin peers'[i] /\ (~up[i] => peers'[i] = {})
    BY <2>6, <2>7
  <2>4. age' \in [Nodes -> [Nodes -> 0 .. Never]]
    <3>1. age' = [age EXCEPT ![n] = [m \in Nodes |-> IF m \in peers[n] \ now.off THEN @[m] ELSE Never]]
      BY <1>8, <2>2 DEF OnResponse
    <3>2. \A m \in Nodes : age[n][m] \in 0 .. Never /\ Never \in 0 .. Never
      OBVIOUS
    <3> QED
      BY <3>1, <3>2
  <2>5. steady' \in [Nodes -> [Nodes -> BOOLEAN]]
    BY <1>8, Zenon DEF OnResponse
  <2> QED
    BY <2>1, <2>2, <2>3, <2>4, <2>5
<1>9. CASE CalmDown
  BY <1>9 DEF CalmDown
<1>10. CASE Tick
  <2>1. UNCHANGED <<up, peers, k8sVars, calm, steady>>
    BY <1>10 DEF Tick
  <2>2. age' \in [Nodes -> [Nodes -> 0 .. Never]]
    <3>1. \A n, m \in Nodes : Older(age[n][m]) \in 0 .. Never
      BY DEF Older
    <3> QED
      BY <1>10, <3>1 DEF Tick
  <2>3. \A n \in Nodes : idle'[n] \in 0 .. MaxPause /\ (~up[n] => idle'[n] = 0)
    BY <1>10 DEF Tick
  <2>4. \A n \in Nodes : since'[n] \in Nat /\ since'[n] <= Interval + idle'[n]
    BY <1>10 DEF Tick
  <2>5. since' \in [Nodes -> 0 .. Interval + MaxPause] /\ idle' \in [Nodes -> 0 .. MaxPause]
    BY <1>10, <2>3, <2>4 DEF Tick
  <2>6. gcIn' \in [Nodes -> 0 .. Unset]
    <3> DEFINE left(n) == IF gcIn[n] \in {0, Unset} THEN gcIn[n] ELSE gcIn[n] - 1
    <3>1. \A n \in Nodes : left(n) \in 0 .. Unset
      BY CountsDown
    <3>2. gcIn' = [n \in Nodes |-> left(n)]
      BY <1>10 DEF Tick
    <3> QED
      BY <3>1, <3>2
  <2>7. flight' \in [Nodes -> [Nodes -> 0 .. NoPing]]
    <3> DEFINE later(m, n) == IF flight[m][n] = NoPing THEN NoPing ELSE flight[m][n] + 1
    <3>1. ASSUME NEW m \in Nodes, NEW n \in Nodes PROVE later(m, n) \in 0 .. NoPing
      <4>1. flight[m][n] \in 0 .. NoPing
        OBVIOUS
      <4> QED
        BY <4>1, CountsUp
    <3>2. flight' = [m \in Nodes |-> [n \in Nodes |-> later(m, n)]]
      BY <1>10 DEF Tick
    <3> HIDE DEF later
    <3> QED
      BY <3>1, <3>2
  <2> QED
    BY <2>1, <2>2, <2>3, <2>4, <2>5, <2>6, <2>7
<1>11. CASE UNCHANGED vars
  BY <1>11 DEF vars
<1> QED
  BY <1>1, <1>2, <1>3, <1>4, <1>5, <1>6, <1>7, <1>8, <1>9, <1>10, <1>11 DEF Next

(* Every variable keeps to its type, and no node lists itself.              *)
THEOREM TypeCorrect == Spec => []TypeOK
<1>1. BaseType /\ NewsType /\ ClockInv /\ [Next]_vars => (BaseType /\ NewsType /\ ClockInv)'
  BY TypeStep, NewsStep
<1>2. Init => BaseType /\ NewsType /\ ClockInv
  BY InitInv DEF IInv
<1> QED
  BY <1>1, <1>2, TypeParts, PTL DEF Spec
-----------------------------------------------------------------------------
(* The ten seconds of Gc cover the latest a steady peer's ping can be.      *)
LEMMA SteadyIsNotStale ==
    ASSUME IInv, NEW n \in Nodes, NEW m \in Nodes, steady[n][m]
    PROVE  ~Stale(n, m) /\ SteadyPair(n, m)
<1>1. SteadyPair(n, m)
  BY DEF IInv, SteadyInv
<1>2. age[n][m] \in Nat /\ flight[m][n] \in 0 .. NoPing /\ since[m] \in 0 .. Interval + MaxPause
  BY Numbers DEF IInv, BaseType
<1>3. age[n][m] <= Interval + Slack
  BY <1>1, <1>2, Numbers DEF SteadyPair
<1> QED
  BY <1>1, <1>2, <1>3, Numbers DEF Stale

(* A step that leaves alone everything that SteadyPair says of a pair.      *)
LEMMA PairUntouched ==
    ASSUME SteadyInv, NEW n \in Nodes, NEW m \in Nodes, steady[n][m],
           up'[n] = up[n], up'[m] = up[m],
           m \in peers[n] => m \in peers'[n], n \in peers[m] => n \in peers'[m],
           flight'[m][n] = flight[m][n], age'[n][m] = age[n][m], since'[m] = since[m]
    PROVE  SteadyPair(n, m)'
BY DEF SteadyInv, SteadyPair

LEMMA SteadyStep ==
    ASSUME IInv, [Next]_vars, NEW n \in Nodes, NEW m \in Nodes, steady'[n][m]
    PROVE  SteadyPair(n, m)'
<1> USE Numbers DEF IInv, BaseType, nodeVars, k8sVars, Others
<1>1. ASSUME NEW i \in Nodes, Check(i) PROVE SteadyPair(n, m)'
  <2>1. steady[n][m] /\ SteadyPair(n, m)
    BY <1>1, SteadyIsNotStale DEF Check
  <2>2. up' = up /\ m \in peers'[n] /\ n \in peers'[m]
    BY <1>1, <2>1 DEF Check, SteadyPair
  <2>3. age'[n][m] = age[n][m]
    BY <1>1, <2>1, SteadyIsNotStale DEF Check
  <2>4. CASE i = m /\ since[m] >= Interval
    <3>1. since'[m] = 0 /\ flight'[m][n] = 0
      BY <1>1, <2>1, <2>4 DEF Check, SteadyPair
    <3>2. flight[m][n] = NoPing
      <4>1. flight[m][n] \in 0 .. NoPing /\ since[m] \in Nat
        OBVIOUS
      <4>2. flight[m][n] # NoPing => since[m] = flight[m][n]
        BY <2>1 DEF SteadyPair
      <4> QED
        BY <2>4, <4>1, <4>2, ArrivesBeforeNext
    <3>3. age[n][m] <= Interval + MaxPause + 0 /\ age[n][m] \in Nat
      BY <2>1, <3>2 DEF SteadyPair
    <3> QED
      BY <2>1, <2>2, <2>3, <3>1, <3>3 DEF SteadyPair
  <2>5. CASE ~(i = m /\ since[m] >= Interval)
    <3>1. since'[m] = since[m] /\ flight'[m][n] = flight[m][n]
      BY <1>1, <2>5 DEF Check
    <3> QED
      BY <2>1, <2>2, <2>3, <3>1 DEF SteadyPair
  <2> QED
    BY <2>4, <2>5
<1>2. ASSUME NEW i \in Nodes, Crash(i) PROVE SteadyPair(n, m)'
  <2>1. steady[n][m] /\ i # n /\ i # m
    BY <1>2 DEF Crash
  <2> QED
    BY <1>2, <2>1, PairUntouched DEF Crash
<1>3. ASSUME NEW i \in Nodes, Restart(i) PROVE SteadyPair(n, m)'
  <2>1. steady[n][m] /\ i # n /\ i # m
    BY <1>3, SteadyIsNotStale DEF Restart, SteadyPair
  <2> QED
    BY <1>3, <2>1, PairUntouched DEF Restart
<1>4. ASSUME NEW i \in Nodes, Disconnect(i) PROVE SteadyPair(n, m)'
  BY <1>4, PairUntouched DEF Disconnect
<1>10. ASSUME NEW on, NEW off, Modify(on, off) PROVE SteadyPair(n, m)'
  BY <1>10, PairUntouched DEF Modify
<1>5. ASSUME NEW i \in Nodes, NEW k \in Others(i), OnClusterPing(k, i) PROVE SteadyPair(n, m)'
  <2>1. CASE i = n /\ k = m
    <3>1. /\ steady'[n][m] <=> up[m] /\ n \in peers[m]
          /\ age'[n][m] = 0 /\ flight'[m][n] = NoPing
          /\ m \in peers'[n] /\ peers'[m] = peers[m] /\ UNCHANGED <<up, since>> /\ up[n]
      BY <1>5, <2>1 DEF OnClusterPing
    <3>2. n # m /\ since[m] \in Nat
      BY <2>1
    <3> QED
      BY <3>1, <3>2 DEF SteadyPair
  <2>2. CASE ~(i = n /\ k = m)
    <3>1. /\ steady[n][m] /\ age'[n][m] = age[n][m] /\ flight'[m][n] = flight[m][n]
          /\ UNCHANGED <<up, since>> /\ peers[n] \subseteq peers'[n] /\ peers[m] \subseteq peers'[m]
      BY <1>5, <2>2 DEF OnClusterPing
    <3> QED
      BY <3>1, PairUntouched
  <2> QED
    BY <2>1, <2>2
<1>6. ASSUME NEW i \in Nodes, NEW k \in Others(i), Lose(k, i) PROVE SteadyPair(n, m)'
  <2>1. steady[n][m] /\ ~(i = n /\ k = m)
    BY <1>6 DEF Lose
  <2> QED
    BY <1>6, <2>1, PairUntouched DEF Lose
<1>7. ASSUME NEW i \in Nodes, OnResponse(i) PROVE SteadyPair(n, m)'
  <2>0. PICK now : now = Head(news[i])
    OBVIOUS
  <2>1. steady[n][m] /\ (i = n => m \notin now.off) /\ (i = m => n \notin now.off)
    BY <1>7, <2>0 DEF OnResponse
  <2>2. m \in peers[n] /\ n \in peers[m]
    BY <2>1, SteadyIsNotStale DEF SteadyPair
  <2>3. m \in peers'[n] /\ n \in peers'[m]
    BY <1>7, <2>0, <2>1, <2>2 DEF OnResponse
  <2>4. age'[n][m] = age[n][m]
    BY <1>7, <2>0, <2>1, <2>2 DEF OnResponse
  <2> QED
    BY <1>7, <2>1, <2>3, <2>4, PairUntouched DEF OnResponse
<1>8. CASE CalmDown \/ UNCHANGED vars
  BY <1>8, PairUntouched DEF CalmDown, vars
<1>9. CASE Tick
  <2>1. steady[n][m] /\ SteadyPair(n, m)
    BY <1>9, SteadyIsNotStale DEF Tick
  <2>2. UNCHANGED <<up, peers>> /\ since'[m] = since[m] + 1
    BY <1>9, <2>1 DEF Tick, SteadyPair
  <2>3. age'[n][m] <= age[n][m] + 1 /\ age[n][m] \in Nat /\ age'[n][m] \in Nat
    BY <1>9 DEF Tick, Older
  <2>4. /\ flight[m][n] = NoPing => flight'[m][n] = NoPing
        /\ flight[m][n] # NoPing => flight'[m][n] = flight[m][n] + 1 /\ flight'[m][n] # NoPing
    <3>1. flight[m][n] \in 0 .. NoPing /\ flight[m][n] # MaxDelay
      BY <1>9 DEF Tick
    <3>2. flight'[m][n] = IF flight[m][n] = NoPing THEN NoPing ELSE flight[m][n] + 1
      BY <1>9 DEF Tick
    <3> QED
      BY <3>1, <3>2, StillUnderWay
  <2>5. since[m] \in Nat /\ flight[m][n] \in Nat
    OBVIOUS
  <2> QED
    BY <2>1, <2>2, <2>3, <2>4, <2>5 DEF SteadyPair
<1> QED
  BY <1>1, <1>2, <1>3, <1>4, <1>5, <1>6, <1>7, <1>8, <1>9, <1>10 DEF Next

LEMMA InvariantStep ==
    ASSUME IInv, [Next]_vars
    PROVE  IInv'
<1>1. BaseType' /\ NewsType' /\ ClockInv'
  BY TypeStep, NewsStep DEF IInv
<1>2. SteadyInv'
  BY SteadyStep DEF SteadyInv
<1> QED
  BY <1>1, <1>2 DEF IInv

(* No node collects a peer that goes on pinging it, whatever the pauses of  *)
(* the idle loops and the delays of the pings, within the ten seconds.      *)
THEOREM LivePeersKept == Spec => KeepsLivePeers
<1>1. IInv /\ [Next]_vars =>
        [\A n, m \in Nodes :
           steady[n][m] /\ m \notin peers'[n] => ~up'[n] \/ (n \in K8s /\ CalledUnready(n, m))]_vars
  <2> SUFFICES ASSUME IInv, Next, NEW n \in Nodes, NEW m \in Nodes, steady[n][m],
                      m \notin peers'[n], up'[n], ~(n \in K8s /\ CalledUnready(n, m))
               PROVE  FALSE
    OBVIOUS
  <2> USE DEF IInv, BaseType, nodeVars, k8sVars, Others
  <2>0. SteadyPair(n, m) /\ ~Stale(n, m)
    BY SteadyIsNotStale
  <2>1. m \in peers[n] /\ up[n]
    BY <2>0 DEF SteadyPair
  <2>2. ASSUME NEW i \in Nodes, Check(i) PROVE FALSE
    BY <2>0, <2>1, <2>2 DEF Check
  <2>3. ASSUME NEW i \in Nodes, Crash(i) \/ Restart(i) \/ Disconnect(i) PROVE FALSE
    BY <2>1, <2>3 DEF Crash, Restart, Disconnect
  <2>4. ASSUME NEW i \in Nodes, NEW k \in Others(i), OnClusterPing(k, i) \/ Lose(k, i) PROVE FALSE
    <3>1. peers' = peers \/ peers' = [peers EXCEPT ![i] = @ \cup {k}]
      BY <2>4 DEF OnClusterPing, Lose
    <3> QED
      BY <2>1, <3>1
  <2>6. ASSUME NEW i \in Nodes, OnResponse(i) PROVE FALSE
    <3>1. /\ up[i] /\ i \in K8s /\ news[i] # <<>> /\ news' = [news EXCEPT ![i] = Tail(@)]
          /\ peers' = [peers EXCEPT ![i] = (@ \ Head(news[i]).off) \cup (Head(news[i]).on \ {i})]
      BY <2>6 DEF OnResponse
    <3>2. i = n /\ m \in Head(news[n]).off
      BY <2>1, <3>1
    <3>3. news'[n] = Tail(news[n])
      BY <3>1, <3>2 DEF NewsType
    <3> QED
      BY <3>1, <3>2, <3>3 DEF CalledUnready
  <2>7. ASSUME NEW on, NEW off, Modify(on, off) PROVE FALSE
    <3>1. peers' = peers
      BY <2>7 DEF Modify
    <3> QED
      BY <2>1, <3>1
  <2>5. CASE CalmDown \/ Tick
    BY <2>1, <2>5 DEF CalmDown, Tick
  <2> QED
    BY <2>2, <2>3, <2>4, <2>5, <2>6, <2>7 DEF Next
<1> QED
  BY <1>1, InitInv, InvariantStep, PTL DEF Spec, KeepsLivePeers
=============================================================================
