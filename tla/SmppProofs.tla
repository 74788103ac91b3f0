---------------------------- MODULE SmppProofs ------------------------------
(* The bound on how often the SMPP service sends a chunk, for any messages, *)
(* chunks, API threads, gateways and retries.  A chunk goes from the        *)
(* limiter to a sender's hands, from there to fdQueueGC, to the retry       *)
(* queue, to the retry thread's hands and to fdQueueGC again: it is in at   *)
(* most one of these places at a time, and each retry was counted.          *)
EXTENDS Smpp, QueueLemmas

InLimiter(c) == \E i \in 1 .. Len(limiter) : limiter[i].c = c
InRetry(c) == \E i \in 1 .. Len(retryQueue) : retryQueue[i] = c
InHand(c) == hand["limiter"] = c \/ hand["retry"] = c
Fresh(c) == attempts[c] = 0 /\ ~InLimiter(c) /\ ~InRetry(c) /\ c \notin watched /\ ~InHand(c)
Busy(a) == api[a].gw # 0

PlaceType ==
    /\ api \in [Apis -> Requests]
    /\ asked \subseteq Messages
    /\ limiter \in Seq([c : Chunks, gw : Gws])
    /\ retryQueue \in Seq(Chunks)
    /\ pc \in [Senders -> {"idle", "store", "fail", "watch"}]
    /\ hand \in [Senders -> Chunks \cup {None}]
    /\ \A t \in Senders : pc[t] = "idle" <=> hand[t] = None
    /\ watched \subseteq Chunks
    /\ retryNum \in [Chunks -> 0 .. NumRetries]
    /\ attempts \in [Chunks -> Nat]

(* Requests: each message is asked for once, and none of its parts is       *)
(* anywhere before its request has offered it to the limiter.               *)
Waits(m, i) == m \notin asked \/ \E a \in Apis : Busy(a) /\ api[a].m = m /\ api[a].part <= i

RequestInv ==
    /\ \A a \in Apis : Busy(a) <=> api[a].at # "idle"
    /\ \A a \in Apis : Busy(a) => api[a].m \in asked
    /\ \A a, b \in Apis : a # b /\ Busy(a) /\ Busy(b) => api[a].m # api[b].m
    /\ \A m \in Messages : \A i \in 1 .. Len(Parts[m]) : Waits(m, i) => Fresh(Parts[m][i])

LimiterOnce == \A i, j \in 1 .. Len(limiter) : limiter[i].c = limiter[j].c => i = j
RetryOnce == \A i, j \in 1 .. Len(retryQueue) : retryQueue[i] = retryQueue[j] => i = j

(* Chunk c is in one place, and may be sent only if a retry is left for it. *)
Placed(c) ==
    /\ InLimiter(c) => attempts[c] = 0 /\ ~InRetry(c) /\ c \notin watched /\ ~InHand(c)
    /\ InRetry(c) => attempts[c] <= retryNum[c] /\ c \notin watched /\ ~InHand(c)
    /\ c \in watched => ~InHand(c)
    /\ ~(hand["limiter"] = c /\ hand["retry"] = c)
    /\ attempts[c] <= retryNum[c] + 1

PlaceInv == LimiterOnce /\ RetryOnce /\ \A c \in Chunks : Placed(c)

IInv == PlaceType /\ RequestInv /\ PlaceInv

placeVars == <<api, asked, limiter, retryQueue, hand, watched, retryNum, attempts>>

-----------------------------------------------------------------------------
(* A queue without its head.                                                *)
LEMMA TailOf ==
    ASSUME NEW S, NEW q \in Seq(S), q # << >>
    PROVE  /\ Tail(q) \in Seq(S) /\ Len(Tail(q)) = Len(q) - 1 /\ Len(q) \in Nat \ {0}
           /\ Head(q) = q[1]
           /\ \A i \in 1 .. Len(Tail(q)) : i + 1 \in 1 .. Len(q) /\ i + 1 # 1 /\ Tail(q)[i] = q[i + 1]
OBVIOUS

(* A queue with one more entry.                                             *)
LEMMA AppendOf ==
    ASSUME NEW S, NEW q \in Seq(S), NEW e \in S
    PROVE  /\ Append(q, e) \in Seq(S) /\ Len(q) \in Nat /\ Len(Append(q, e)) = Len(q) + 1
           /\ \A i \in 1 .. Len(Append(q, e)) :
                 \/ i \in 1 .. Len(q) /\ Append(q, e)[i] = q[i]
                 \/ i = Len(q) + 1 /\ Append(q, e)[i] = e
OBVIOUS

LEMMA IdleIs == Idle \in Requests /\ Idle.gw = 0 /\ Idle.at = "idle"
BY SmppAssumption DEF Idle, Requests

LEMMA InitInv == Init => IInv
<1> SUFFICES ASSUME Init PROVE IInv
  OBVIOUS
<1>1. PlaceType
  <2>1. Idle \in Requests
    BY IdleIs
  <2>2. /\ limiter \in Seq([c : Chunks, gw : Gws]) /\ retryQueue \in Seq(Chunks)
        /\ pc \in [Senders -> {"idle", "store", "fail", "watch"}]
        /\ hand \in [Senders -> Chunks \cup {None}]
        /\ \A t \in Senders : pc[t] = "idle" /\ hand[t] = None
    BY DEF Init
  <2>3. retryNum \in [Chunks -> 0 .. NumRetries] /\ attempts \in [Chunks -> Nat]
    BY SmppAssumption DEF Init
  <2>4. asked \subseteq Messages /\ watched \subseteq Chunks
    BY DEF Init
  <2>5. api \in [Apis -> Requests]
    BY <2>1 DEF Init
  <2> QED
    BY <2>2, <2>3, <2>4, <2>5 DEF PlaceType
<1>2. ASSUME NEW c \in Chunks PROVE Fresh(c)
  <2>1. attempts[c] = 0 /\ c \notin watched
    BY DEF Init
  <2>2. Len(limiter) = 0 /\ Len(retryQueue) = 0
    BY DEF Init
  <2>3. hand["limiter"] = None /\ hand["retry"] = None /\ c # None
    BY SmppAssumption DEF Init, Senders
  <2> QED
    BY <2>1, <2>2, <2>3 DEF Fresh, InLimiter, InRetry, InHand
<1>3. \A a \in Apis : ~Busy(a) /\ api[a].at = "idle"
  BY IdleIs DEF Init, Busy
<1>4. RequestInv
  <2>1. \A k \in Messages : \A i \in 1 .. Len(Parts[k]) : Parts[k][i] \in Chunks
    BY SmppAssumption
  <2>2. \A k \in Messages : \A i \in 1 .. Len(Parts[k]) : Fresh(Parts[k][i])
    BY <1>2, <2>1
  <2> QED
    BY <1>3, <2>2 DEF RequestInv
<1>5. PlaceInv
  <2>1. LimiterOnce /\ RetryOnce
    BY DEF Init, LimiterOnce, RetryOnce
  <2>2. ASSUME NEW c \in Chunks PROVE Placed(c)
    <3>1. Fresh(c) /\ retryNum[c] \in Nat
      BY <1>1, <1>2, SmppAssumption DEF PlaceType
    <3>2. hand["limiter"] # c
      BY <3>1 DEF Fresh, InHand
    <3> QED
      BY <3>1, <3>2 DEF Placed, Fresh
  <2> QED
    BY <2>1, <2>2 DEF PlaceInv
<1> QED
  BY <1>1, <1>4, <1>5 DEF IInv

-----------------------------------------------------------------------------
(* A request is made, moves on or ends, and no chunk moves.                 *)
LEMMA RequestStep ==
    ASSUME IInv, NEW a \in Apis, NEW r \in Requests, api' = [api EXCEPT ![a] = r],
           r.gw # 0 <=> r.at # "idle",
           \/ r.gw = 0 /\ asked' = asked
           \/ Busy(a) /\ r.m = api[a].m /\ r.part = api[a].part /\ asked' = asked
           \/ r.m \in Messages /\ r.m \notin asked /\ asked' = asked \cup {r.m},
           UNCHANGED <<limiter, retryQueue, pc, hand, watched, retryNum, attempts>>
    PROVE  IInv'
<1>1. asked \subseteq Messages /\ api \in [Apis -> Requests]
  BY DEF IInv, PlaceType
<1>2. \A b \in Apis : api'[b] = IF b = a THEN r ELSE api[b]
  BY <1>1
<1>3. PlaceType'
  <2>1. asked' \subseteq Messages /\ api' \in [Apis -> Requests]
    BY <1>1
  <2> QED
    BY <2>1 DEF IInv, PlaceType
<1>4. PlaceInv'
  BY DEF IInv, PlaceInv, LimiterOnce, RetryOnce, Placed, InLimiter, InRetry, InHand
<1>5. \A c : Fresh(c)' <=> Fresh(c)
  BY DEF Fresh, InLimiter, InRetry, InHand
<1>6. \A b \in Apis : b # a => (Busy(b)' <=> Busy(b)) /\ api'[b] = api[b]
  BY <1>2 DEF Busy
<1>7. api'[a] = r /\ (Busy(a)' <=> r.gw # 0)
  BY <1>2 DEF Busy
<1>8. RequestInv'
  <2>1. \A b \in Apis : Busy(b)' <=> api'[b].at # "idle"
    BY <1>6, <1>7 DEF IInv, RequestInv
  <2>2. \A b \in Apis : Busy(b)' => api'[b].m \in asked'
    BY <1>6, <1>7 DEF IInv, RequestInv
  <2>3. \A b, d \in Apis : b # d /\ Busy(b)' /\ Busy(d)' => api'[b].m # api'[d].m
    BY <1>6, <1>7 DEF IInv, RequestInv
  <2>4. ASSUME NEW k \in Messages, NEW i \in 1 .. Len(Parts[k]), Waits(k, i)' PROVE Waits(k, i)
    BY <1>6, <1>7, <2>4 DEF Waits
  <2>5. \A k \in Messages : \A i \in 1 .. Len(Parts[k]) : Waits(k, i)' => Fresh(Parts[k][i])'
    BY <1>5, <2>4 DEF IInv, RequestInv
  <2> QED
    BY <2>1, <2>2, <2>3, <2>5 DEF RequestInv
<1> QED
  BY <1>3, <1>4, <1>8 DEF IInv

LEMMA SendRequestStep ==
    ASSUME IInv, NEW a \in Apis, NEW m \in Messages, SendRequest(a, m)
    PROVE  IInv'
<1>1. PICK g \in Gws : api' = [api EXCEPT ![a] = [m |-> m, gw |-> g, at |-> "connect", part |-> 1]]
  BY DEF SendRequest
<1>2. PICK r : r = [m |-> m, gw |-> g, at |-> "connect", part |-> 1]
  OBVIOUS
<1>3. r \in Requests /\ r.m = m /\ r.gw # 0 /\ r.at # "idle"
  BY <1>2, SmppAssumption DEF Requests, Gws
<1>4. /\ api' = [api EXCEPT ![a] = r] /\ asked' = asked \cup {r.m} /\ r.m \notin asked
      /\ UNCHANGED <<limiter, retryQueue, pc, hand, watched, retryNum, attempts>>
  BY <1>1, <1>2, <1>3 DEF SendRequest, jobVars, fieldVars, history
<1> QED
  BY <1>3, <1>4, RequestStep

(* While requests stand still, it is enough that fresh chunks stay fresh.   *)
LEMMA RequestsKept ==
    ASSUME IInv, UNCHANGED <<api, asked>>, \A c \in Chunks : Fresh(c) => Fresh(c)'
    PROVE  RequestInv'
<1>1. \A k \in Messages : \A i \in 1 .. Len(Parts[k]) : Parts[k][i] \in Chunks
  BY SmppAssumption
<1>2. \A b : (Busy(b)' <=> Busy(b)) /\ api'[b] = api[b]
  BY DEF Busy
<1>3. \A k, i : Waits(k, i)' <=> Waits(k, i)
  BY <1>2 DEF Waits
<1> QED
  BY <1>1, <1>2, <1>3 DEF IInv, RequestInv

(* A step that moves no chunk keeps what is said about their places ...     *)
LEMMA PlacesKept ==
    ASSUME IInv, UNCHANGED placeVars
    PROVE  RequestInv' /\ PlaceInv'
<1>1. UNCHANGED <<api, asked, limiter, retryQueue, hand, watched, retryNum, attempts>>
  BY DEF placeVars
<1>2. \A c : /\ InLimiter(c)' <=> InLimiter(c)
             /\ InRetry(c)' <=> InRetry(c)
             /\ InHand(c)' <=> InHand(c)
  BY <1>1 DEF InLimiter, InRetry, InHand
<1>3. \A c : Fresh(c)' <=> Fresh(c)
  BY <1>1, <1>2 DEF Fresh
<1>4. RequestInv'
  BY <1>1, <1>3, RequestsKept
<1>5. LimiterOnce' /\ RetryOnce'
  BY <1>1 DEF IInv, PlaceInv, LimiterOnce, RetryOnce
<1>6. ASSUME NEW c \in Chunks PROVE Placed(c)'
  <2>1. Placed(c)
    BY DEF IInv, PlaceInv
  <2> QED
    BY <1>1, <1>2, <2>1 DEF Placed
<1> QED
  BY <1>4, <1>5, <1>6 DEF PlaceInv

(* ... and, if it leaves the senders where they are, the whole invariant,   *)
(* whatever it does to gateways, numbers, queues of replies and receipts.   *)
LEMMA FrameStep ==
    ASSUME IInv, UNCHANGED placeVars, UNCHANGED pc
    PROVE  IInv'
<1>1. PlaceType'
  BY DEF placeVars, IInv, PlaceType
<1> QED
  BY <1>1, PlacesKept DEF IInv

-----------------------------------------------------------------------------
(* Connect, and a request that ends without being connected or throws.      *)
LEMMA ConnectStep ==
    ASSUME IInv, NEW a \in Apis,
           \/ ConnectBroken(a) \/ BindFails(a) \/ BindCloses(a) \/ SendConnected(a) \/ EnquiryFails(a)
           \/ SendUnconnected(a) \/ SendThrows(a)
    PROVE  IInv'
<1>1. UNCHANGED <<asked, limiter, retryQueue, pc, hand, watched, retryNum, attempts>>
  BY DEF ConnectBroken, BindFails, BindCloses, SendConnected, EnquiryFails, SendUnconnected, SendThrows, jobVars,
         fieldVars, history
<1>2. CASE SendUnconnected(a) \/ SendThrows(a)
  <2>1. api' = [api EXCEPT ![a] = Idle]
    BY <1>2 DEF SendUnconnected, SendThrows
  <2> QED
    BY <1>1, <2>1, IdleIs, RequestStep
<1>3. CASE ConnectBroken(a) \/ BindFails(a) \/ BindCloses(a) \/ SendConnected(a) \/ EnquiryFails(a)
  <2>1. PICK l \in {"hosts", "closing", "offer", "lost"} : api' = [api EXCEPT ![a].at = l]
    BY <1>3 DEF ConnectBroken, BindFails, BindCloses, SendConnected, EnquiryFails, Reached
  <2>2. api[a].at # "idle"
    BY <1>3 DEF ConnectBroken, BindFails, BindCloses, SendConnected, EnquiryFails, InConnect
  <2>3. api[a] \in Requests /\ Busy(a)
    BY <2>2 DEF IInv, PlaceType, RequestInv
  <2>4. PICK r : r = [api[a] EXCEPT !.at = l]
    OBVIOUS
  <2>5. /\ r \in Requests /\ r.m = api[a].m /\ r.gw = api[a].gw /\ r.part = api[a].part
        /\ r.at # "idle"
    BY <2>3, <2>4 DEF Requests
  <2>6. api' = [api EXCEPT ![a] = r] /\ r.gw # 0
    BY <2>1, <2>3, <2>4, <2>5 DEF Busy
  <2> QED
    BY <1>1, <2>3, <2>5, <2>6, RequestStep
<1> QED
  BY <1>2, <1>3

(* What Offer does to the queue and to the request.                         *)
LEMMA OfferIs ==
    ASSUME IInv, NEW a \in Apis, Offer(a)
    PROVE  /\ Busy(a) /\ api[a].m \in Messages /\ api[a].m \in asked /\ api[a].gw \in Gws
           /\ api[a].part \in 1 .. Len(Parts[api[a].m]) /\ Parts[api[a].m][api[a].part] \in Chunks
           /\ limiter' \in Seq([c : Chunks, gw : Gws])
           /\ \A i \in 1 .. Len(limiter') :
                 \/ i \in 1 .. Len(limiter) /\ limiter'[i] = limiter[i]
                 \/ /\ i = Len(limiter) + 1 /\ limiter'[i].gw = api[a].gw
                    /\ limiter'[i].c = Parts[api[a].m][api[a].part]
           /\ \E r \in Requests :
                 /\ api' = [api EXCEPT ![a] = r]
                 /\ r.gw # 0 <=> r.at # "idle"
                 /\ r.gw = 0 \/ (r.gw = api[a].gw /\ r.m = api[a].m /\ r.part = api[a].part + 1)
<1> DEFINE S == [c : Chunks, gw : Gws]
<1>1. PICK m, g, i : m = api[a].m /\ g = api[a].gw /\ i = api[a].part
  OBVIOUS
<1>2. /\ api[a].at = "offer" /\ i <= Len(Parts[m])
      /\ limiter' = IF Len(limiter) > MaxQueue THEN limiter
                    ELSE Append(limiter, [c |-> Parts[m][i], gw |-> g])
      /\ api' = [api EXCEPT ![a] = IF i = Len(Parts[m]) THEN Idle ELSE [@ EXCEPT !.part = i + 1]]
  BY <1>1 DEF Offer
<1>3. api[a] \in Requests /\ Busy(a) /\ m \in asked /\ m \in Messages
  BY <1>1, <1>2 DEF IInv, PlaceType, RequestInv
<1>4. g \in Gws /\ i \in Nat \ {0}
  BY <1>1, <1>3, SmppAssumption DEF Requests, Busy, Gws
<1>5. Parts[m] \in Seq(Chunks)
  BY <1>3, SmppAssumption
<1>6. i \in 1 .. Len(Parts[m]) /\ Parts[m][i] \in Chunks
  BY <1>2, <1>4, <1>5
<1>7. limiter \in Seq(S)
  BY DEF IInv, PlaceType
<1>8. PICK e : e = [c |-> Parts[m][i], gw |-> g]
  OBVIOUS
<1>9. e \in S /\ e.c = Parts[m][i] /\ e.gw = g
  BY <1>4, <1>6, <1>8
<1> HIDE DEF S
<1>10. /\ Append(limiter, e) \in Seq(S) /\ Len(limiter) \in Nat
       /\ \A j \in 1 .. Len(Append(limiter, e)) :
             \/ j \in 1 .. Len(limiter) /\ Append(limiter, e)[j] = limiter[j]
             \/ j = Len(limiter) + 1 /\ Append(limiter, e)[j] = e
  BY <1>7, <1>9, AppendOf
<1>11. limiter' = limiter \/ limiter' = Append(limiter, e)
  BY <1>2, <1>8
<1>12. /\ limiter' \in Seq(S)
       /\ \A j \in 1 .. Len(limiter') :
             \/ j \in 1 .. Len(limiter) /\ limiter'[j] = limiter[j]
             \/ j = Len(limiter) + 1 /\ limiter'[j].gw = g /\ limiter'[j].c = Parts[m][i]
  <2>1. CASE limiter' = limiter
    BY <2>1, <1>7
  <2>2. CASE limiter' = Append(limiter, e)
    BY <2>2, <1>9, <1>10
  <2> QED
    BY <1>11, <2>1, <2>2
<1>13. \E r \in Requests :
          /\ api' = [api EXCEPT ![a] = r]
          /\ r.gw # 0 <=> r.at # "idle"
          /\ r.gw = 0 \/ (r.gw = g /\ r.m = m /\ r.part = i + 1)
  <2>1. CASE i = Len(Parts[m])
    BY <1>2, <2>1, IdleIs
  <2>2. CASE i # Len(Parts[m])
    <3>1. PICK r : r = [api[a] EXCEPT !.part = i + 1]
      OBVIOUS
    <3>2. r \in Requests /\ r.gw = g /\ r.m = m /\ r.part = i + 1 /\ r.at = "offer"
      BY <1>1, <1>2, <1>3, <1>4, <3>1 DEF Requests
    <3>3. api' = [api EXCEPT ![a] = r]
      BY <1>2, <2>2, <3>1
    <3>4. g # 0
      BY <1>1, <1>3 DEF Busy
    <3> QED
      BY <3>2, <3>3, <3>4
  <2> QED
    BY <2>1, <2>2
<1> QED
  BY <1>1, <1>3, <1>4, <1>6, <1>12, <1>13 DEF S

LEMMA OfferStep ==
    ASSUME IInv, NEW a \in Apis, Offer(a)
    PROVE  IInv'
<1>0. PICK m, p, n : m = api[a].m /\ p = api[a].part /\ n = Len(limiter)
  OBVIOUS
<1>1. UNCHANGED <<asked, retryQueue, pc, hand, watched, retryNum, attempts>>
  BY DEF Offer, fieldVars, history
<1>2. Busy(a) /\ m \in Messages /\ m \in asked /\ p \in 1 .. Len(Parts[m]) /\ Parts[m][p] \in Chunks
  BY <1>0, OfferIs
<1>3. /\ limiter' \in Seq([c : Chunks, gw : Gws]) /\ n \in Nat
      /\ \A i \in 1 .. Len(limiter') :
            \/ i \in 1 .. n /\ limiter'[i] = limiter[i]
            \/ i = n + 1 /\ limiter'[i].c = Parts[m][p]
  <2>1. Len(limiter) \in Nat
    BY DEF IInv, PlaceType
  <2>2. /\ limiter' \in Seq([c : Chunks, gw : Gws])
        /\ \A i \in 1 .. Len(limiter') :
              \/ i \in 1 .. Len(limiter) /\ limiter'[i] = limiter[i]
              \/ /\ i = Len(limiter) + 1 /\ limiter'[i].gw = api[a].gw
                 /\ limiter'[i].c = Parts[api[a].m][api[a].part]
    BY OfferIs, Zenon
  <2> QED
    BY <1>0, <2>1, <2>2, Zenon
<1>4. PICK r \in Requests :
         /\ api' = [api EXCEPT ![a] = r]
         /\ r.gw # 0 <=> r.at # "idle"
         /\ r.gw = 0 \/ (r.m = m /\ r.part = p + 1)
  BY <1>0, OfferIs
<1>5. Fresh(Parts[m][p])
  <2>1. Waits(m, p)
    BY <1>0, <1>2 DEF Waits
  <2> QED
    BY <1>2, <2>1 DEF IInv, RequestInv
<1>6. ASSUME NEW c, InLimiter(c)'
      PROVE  InLimiter(c) \/ c = Parts[m][p]
  BY <1>0, <1>3, <1>6 DEF InLimiter
<1>7. api' \in [Apis -> Requests] /\ \A b \in Apis : api'[b] = IF b = a THEN r ELSE api[b]
  BY <1>4 DEF IInv, PlaceType
<1>8. /\ api'[a] = r /\ (Busy(a)' <=> r.gw # 0)
      /\ \A b \in Apis : b # a => (Busy(b)' <=> Busy(b)) /\ api'[b] = api[b]
  BY <1>7 DEF Busy
<1>9. PlaceType'
  BY <1>1, <1>3, <1>7 DEF IInv, PlaceType
<1>10. RequestInv'
  <2>1. \A b \in Apis : Busy(b)' <=> api'[b].at # "idle"
    BY <1>4, <1>8 DEF IInv, RequestInv
  <2>2. \A b \in Apis : Busy(b)' => api'[b].m \in asked'
    BY <1>1, <1>2, <1>4, <1>8 DEF IInv, RequestInv
  <2>3. \A b, d \in Apis : b # d /\ Busy(b)' /\ Busy(d)' => api'[b].m # api'[d].m
    BY <1>0, <1>2, <1>4, <1>8 DEF IInv, RequestInv
  <2>4. ASSUME NEW k \in Messages, NEW i \in 1 .. Len(Parts[k]), Waits(k, i)'
        PROVE  Fresh(Parts[k][i])'
    <3>1. Waits(k, i) /\ (k = m => i # p)
      <4>1. CASE k \notin asked
        BY <4>1, <1>2 DEF Waits
      <4>2. CASE k \in asked
        <5>1. PICK b \in Apis : Busy(b)' /\ api'[b].m = k /\ api'[b].part <= i
          BY <1>1, <2>4, <4>2 DEF Waits
        <5>2. CASE b = a
          <6>1. k = m /\ p + 1 <= i /\ p \in Nat /\ i \in Nat
            BY <1>2, <1>4, <1>8, <5>1, <5>2
          <6>2. p <= i /\ i # p
            BY <6>1
          <6> QED
            BY <6>1, <6>2, <1>0, <1>2 DEF Waits
        <5>3. CASE b # a
          <6>1. Busy(b) /\ api[b].m = k /\ api[b].part <= i
            BY <1>8, <5>1, <5>3
          <6>2. k # m
            BY <1>0, <1>2, <5>3, <6>1 DEF IInv, RequestInv
          <6> QED
            BY <6>1, <6>2 DEF Waits
        <5> QED
          BY <5>2, <5>3
      <4> QED
        BY <4>1, <4>2
    <3>2. Fresh(Parts[k][i])
      BY <3>1 DEF IInv, RequestInv
    <3>3. Parts[k][i] # Parts[m][p]
      BY <3>1, <1>2, PartsAssumption
    <3>4. ~InLimiter(Parts[k][i])'
      BY <3>2, <3>3, <1>6 DEF Fresh
    <3> QED
      BY <3>2, <3>4, <1>1 DEF Fresh, InRetry, InHand
  <2> QED
    BY <2>1, <2>2, <2>3, <2>4 DEF RequestInv
<1>11. LimiterOnce'
  <2> SUFFICES ASSUME NEW i \in 1 .. Len(limiter'), NEW j \in 1 .. Len(limiter'),
                      limiter'[i].c = limiter'[j].c
               PROVE  i = j
    BY DEF LimiterOnce
  <2>1. CASE i \in 1 .. n /\ limiter'[i] = limiter[i] /\ j \in 1 .. n /\ limiter'[j] = limiter[j]
    BY <1>0, <2>1 DEF IInv, PlaceInv, LimiterOnce
  <2>2. ASSUME NEW x \in 1 .. n, limiter'[x] = limiter[x]
        PROVE  limiter'[x].c # Parts[m][p]
    BY <1>0, <1>5, <2>2 DEF Fresh, InLimiter
  <2> QED
    BY <1>3, <2>1, <2>2
<1>12. ASSUME NEW c \in Chunks PROVE Placed(c)'
  <2>1. Placed(c)
    BY DEF IInv, PlaceInv
  <2>2. (InRetry(c)' <=> InRetry(c)) /\ (InHand(c)' <=> InHand(c))
    BY <1>1 DEF InRetry, InHand
  <2>3. InLimiter(c)' => InLimiter(c) \/ Fresh(c)
    BY <1>5, <1>6
  <2> QED
    BY <1>1, <2>1, <2>2, <2>3 DEF Placed, Fresh
<1>13. RetryOnce'
  BY <1>1 DEF IInv, PlaceInv, RetryOnce
<1> QED
  BY <1>9, <1>10, <1>11, <1>12, <1>13 DEF IInv, PlaceInv

-----------------------------------------------------------------------------
(* The limiter's chunk goes to the limiter's hands.                         *)
LEMMA SendFirstStep ==
    ASSUME IInv, SendFirst
    PROVE  IInv'
<1> DEFINE c == Head(limiter).c
           t == "limiter"
<1>1. /\ pc[t] = "idle" /\ limiter # << >> /\ limiter' = Tail(limiter)
      /\ hand' = [hand EXCEPT ![t] = c]
      /\ attempts' = [attempts EXCEPT ![c] = @ + 1]
      /\ UNCHANGED <<api, asked, retryQueue, watched, retryNum>>
  BY DEF SendFirst
<1>2. \E l \in {"store", "fail"} : pc' = [pc EXCEPT ![t] = l]
  BY DEF SendFirst, Written, WriteFails, NotConnected, Goto
<1>3. /\ Tail(limiter) \in Seq([c : Chunks, gw : Gws]) /\ Len(limiter) \in Nat \ {0}
      /\ Head(limiter) = limiter[1] /\ limiter[1] \in [c : Chunks, gw : Gws]
      /\ \A i \in 1 .. Len(Tail(limiter)) :
            i + 1 \in 1 .. Len(limiter) /\ i + 1 # 1 /\ Tail(limiter)[i] = limiter[i + 1]
  <2> DEFINE S == [c : Chunks, gw : Gws]
  <2>1. limiter \in Seq(S)
    BY DEF IInv, PlaceType
  <2> HIDE DEF S
  <2>2. /\ Tail(limiter) \in Seq(S) /\ Len(limiter) \in Nat \ {0} /\ Head(limiter) = limiter[1]
        /\ \A i \in 1 .. Len(Tail(limiter)) :
              i + 1 \in 1 .. Len(limiter) /\ i + 1 # 1 /\ Tail(limiter)[i] = limiter[i + 1]
    BY <1>1, <2>1, TailOf
  <2>3. limiter[1] \in S
    BY <2>1, <2>2
  <2> QED
    BY <2>2, <2>3 DEF S
<1>4. c \in Chunks /\ c = limiter[1].c /\ InLimiter(c) /\ c # None
  BY <1>3, SmppAssumption DEF InLimiter
<1> HIDE DEF c
<1>5. Placed(c) /\ attempts[c] = 0 /\ ~InRetry(c) /\ c \notin watched /\ ~InHand(c)
  BY <1>4 DEF IInv, PlaceInv, Placed
<1>6. ASSUME NEW d, InLimiter(d)' PROVE InLimiter(d) /\ d # c
  <2>1. PICK i \in 1 .. Len(Tail(limiter)) : Tail(limiter)[i].c = d
    BY <1>1, <1>6 DEF InLimiter
  <2>2. i + 1 \in 1 .. Len(limiter) /\ i + 1 # 1 /\ limiter[i + 1].c = d /\ 1 \in 1 .. Len(limiter)
    BY <1>3, <2>1
  <2> QED
    BY <2>2, <1>4 DEF IInv, PlaceInv, LimiterOnce, InLimiter
<1>7. /\ hand'["limiter"] = c /\ hand'["retry"] = hand["retry"]
      /\ hand["limiter"] = None
  BY <1>1 DEF IInv, PlaceType, Senders
<1>8. PlaceType'
  <2>1. limiter' \in Seq([c : Chunks, gw : Gws]) /\ hand' \in [Senders -> Chunks \cup {None}]
    BY <1>1, <1>3, <1>4 DEF IInv, PlaceType
  <2>2. /\ pc' \in [Senders -> {"idle", "store", "fail", "watch"}]
        /\ \A s \in Senders : pc'[s] = "idle" <=> hand'[s] = None
    BY <1>1, <1>2, <1>4 DEF IInv, PlaceType, Senders
  <2>3. attempts' \in [Chunks -> Nat]
    BY <1>1, <1>4 DEF IInv, PlaceType
  <2> QED
    BY <1>1, <2>1, <2>2, <2>3 DEF IInv, PlaceType
<1>9. \A d \in Chunks : attempts'[d] = IF d = c THEN 1 ELSE attempts[d]
  BY <1>1, <1>5 DEF IInv, PlaceType
<1>10. \A d \in Chunks : (InRetry(d)' <=> InRetry(d)) /\ (d # c => (InHand(d)' => InHand(d)))
  BY <1>1, <1>7 DEF InRetry, InHand
<1>11. RequestInv'
  <2>1. ASSUME NEW d \in Chunks, Fresh(d) PROVE Fresh(d)'
    BY <1>1, <1>4, <1>6, <1>9, <1>10, <2>1 DEF Fresh
  <2> QED
    BY <1>1, <2>1, RequestsKept
<1>12. LimiterOnce'
  <2> SUFFICES ASSUME NEW i \in 1 .. Len(Tail(limiter)), NEW j \in 1 .. Len(Tail(limiter)),
                      Tail(limiter)[i].c = Tail(limiter)[j].c
               PROVE  i = j
    BY <1>1 DEF LimiterOnce
  <2>1. i + 1 = j + 1
    BY <1>3 DEF IInv, PlaceInv, LimiterOnce
  <2> QED
    BY <2>1
<1>13. RetryOnce'
  BY <1>1 DEF IInv, PlaceInv, RetryOnce
<1>14. ASSUME NEW d \in Chunks PROVE Placed(d)'
  <2>0. Placed(d) /\ retryNum[d] \in Nat
    BY SmppAssumption DEF IInv, PlaceInv, PlaceType
  <2>1. CASE d = c
    <3>1. ~InLimiter(d)' /\ ~InRetry(d)' /\ d \notin watched' /\ hand'["retry"] # d
      BY <1>1, <1>5, <1>6, <1>7, <1>10, <2>1 DEF InHand
    <3>2. attempts'[d] <= retryNum'[d] + 1
      BY <1>1, <1>9, <2>0, <2>1
    <3> QED
      BY <3>1, <3>2 DEF Placed
  <2>2. CASE d # c
    <3>1. hand'["limiter"] # d
      BY <1>7, <2>2
    <3> QED
      BY <1>1, <1>6, <1>9, <1>10, <2>0, <2>2, <3>1 DEF Placed
  <2> QED
    BY <2>1, <2>2
<1> QED
  BY <1>8, <1>11, <1>12, <1>13, <1>14 DEF IInv, PlaceInv

(* The retry thread's job goes to its hands: a retry was counted for it.    *)
LEMMA SendAgainStep ==
    ASSUME IInv, SendAgain
    PROVE  IInv'
<1> DEFINE c == Head(retryQueue)
           t == "retry"
<1>1. /\ pc[t] = "idle" /\ retryQueue # << >> /\ retryQueue' = Tail(retryQueue)
      /\ hand' = [hand EXCEPT ![t] = c]
      /\ attempts' = [attempts EXCEPT ![c] = @ + 1]
      /\ UNCHANGED <<api, asked, limiter, watched, retryNum>>
  BY DEF SendAgain, fieldVars
<1>2. \E l \in {"store", "fail"} : pc' = [pc EXCEPT ![t] = l]
  BY DEF SendAgain, Written, WriteFails, NotConnected, Goto
<1>3. /\ Tail(retryQueue) \in Seq(Chunks) /\ Len(retryQueue) \in Nat \ {0}
      /\ Head(retryQueue) = retryQueue[1] /\ retryQueue[1] \in Chunks
      /\ \A i \in 1 .. Len(Tail(retryQueue)) :
            i + 1 \in 1 .. Len(retryQueue) /\ i + 1 # 1 /\ Tail(retryQueue)[i] = retryQueue[i + 1]
  BY <1>1, TailOf DEF IInv, PlaceType
<1>4. c \in Chunks /\ c = retryQueue[1] /\ InRetry(c) /\ c # None
  BY <1>3, SmppAssumption DEF InRetry
<1> HIDE DEF c
<1>5. Placed(c) /\ attempts[c] <= retryNum[c] /\ ~InLimiter(c) /\ c \notin watched /\ ~InHand(c)
  BY <1>4 DEF IInv, PlaceInv, Placed
<1>6. ASSUME NEW d, InRetry(d)' PROVE InRetry(d) /\ d # c
  <2>1. PICK i \in 1 .. Len(Tail(retryQueue)) : Tail(retryQueue)[i] = d
    BY <1>1, <1>6 DEF InRetry
  <2>2. i + 1 \in 1 .. Len(retryQueue) /\ i + 1 # 1 /\ retryQueue[i + 1] = d /\ 1 \in 1 .. Len(retryQueue)
    BY <1>3, <2>1
  <2> QED
    BY <2>2, <1>4 DEF IInv, PlaceInv, RetryOnce, InRetry
<1>7. /\ hand'["retry"] = c /\ hand'["limiter"] = hand["limiter"]
      /\ hand["retry"] = None
  BY <1>1 DEF IInv, PlaceType, Senders
<1>8. PlaceType'
  <2>1. retryQueue' \in Seq(Chunks) /\ hand' \in [Senders -> Chunks \cup {None}]
    BY <1>1, <1>3, <1>4 DEF IInv, PlaceType
  <2>2. /\ pc' \in [Senders -> {"idle", "store", "fail", "watch"}]
        /\ \A s \in Senders : pc'[s] = "idle" <=> hand'[s] = None
    BY <1>1, <1>2, <1>4 DEF IInv, PlaceType, Senders
  <2>3. attempts' \in [Chunks -> Nat]
    BY <1>1, <1>4 DEF IInv, PlaceType
  <2> QED
    BY <1>1, <2>1, <2>2, <2>3 DEF IInv, PlaceType
<1>9. \A d \in Chunks : attempts'[d] = IF d = c THEN attempts[c] + 1 ELSE attempts[d]
  BY <1>1 DEF IInv, PlaceType
<1>10. \A d \in Chunks : (InLimiter(d)' <=> InLimiter(d)) /\ (d # c => (InHand(d)' => InHand(d)))
  BY <1>1, <1>7 DEF InLimiter, InHand
<1>11. RequestInv'
  <2>1. ASSUME NEW d \in Chunks, Fresh(d) PROVE Fresh(d)'
    BY <1>1, <1>4, <1>6, <1>9, <1>10, <2>1 DEF Fresh
  <2> QED
    BY <1>1, <2>1, RequestsKept
<1>12. RetryOnce'
  <2> SUFFICES ASSUME NEW i \in 1 .. Len(Tail(retryQueue)), NEW j \in 1 .. Len(Tail(retryQueue)),
                      Tail(retryQueue)[i] = Tail(retryQueue)[j]
               PROVE  i = j
    BY <1>1 DEF RetryOnce
  <2>1. i + 1 = j + 1
    BY <1>3 DEF IInv, PlaceInv, RetryOnce
  <2> QED
    BY <2>1
<1>13. LimiterOnce'
  BY <1>1 DEF IInv, PlaceInv, LimiterOnce
<1>14. ASSUME NEW d \in Chunks PROVE Placed(d)'
  <2>0. Placed(d) /\ retryNum[d] \in Nat /\ attempts[d] \in Nat
    BY SmppAssumption DEF IInv, PlaceInv, PlaceType
  <2>1. CASE d = c
    <3>1. ~InLimiter(d)' /\ ~InRetry(d)' /\ d \notin watched' /\ hand'["limiter"] # d
      BY <1>1, <1>5, <1>6, <1>7, <1>10, <2>1 DEF InHand
    <3>2. attempts'[d] <= retryNum'[d] + 1
      BY <1>1, <1>5, <1>9, <2>0, <2>1
    <3> QED
      BY <3>1, <3>2 DEF Placed
  <2>2. CASE d # c
    <3>1. hand'["retry"] # d
      BY <1>7, <2>2
    <3> QED
      BY <1>1, <1>6, <1>9, <1>10, <2>0, <2>2, <3>1 DEF Placed
  <2> QED
    BY <2>1, <2>2
<1> QED
  BY <1>8, <1>11, <1>12, <1>13, <1>14 DEF IInv, PlaceInv

-----------------------------------------------------------------------------
(* A chunk goes from a sender's hands to fdQueueGC.                         *)
LEMMA EnqueueGcStep ==
    ASSUME IInv, NEW t \in Senders, EnqueueGc(t)
    PROVE  IInv'
<1> DEFINE c == hand[t]
<1>1. /\ pc[t] = "watch" /\ watched' = watched \cup {c}
      /\ hand' = [hand EXCEPT ![t] = None] /\ pc' = [pc EXCEPT ![t] = "idle"]
      /\ UNCHANGED <<api, asked, limiter, retryQueue, retryNum, attempts>>
  BY DEF EnqueueGc, Goto, fieldVars, history
<1>2. c \in Chunks /\ c # None
  BY <1>1 DEF IInv, PlaceType
<1>3. InHand(c) /\ (t = "limiter" \/ t = "retry")
  BY DEF InHand, Senders
<1> HIDE DEF c
<1>4. ~InLimiter(c) /\ ~InRetry(c)
  BY <1>2, <1>3 DEF IInv, PlaceInv, Placed
<1>5. \A s \in Senders : hand'[s] = IF s = t THEN None ELSE hand[s]
  BY <1>1 DEF IInv, PlaceType
<1>6. ASSUME NEW d \in Chunks, InHand(d)' PROVE InHand(d) /\ d # c
  <2>1. d # None
    BY SmppAssumption
  <2>2. ~(hand["limiter"] = c /\ hand["retry"] = c)
    BY <1>2 DEF IInv, PlaceInv, Placed
  <2>3. CASE t = "limiter"
    <3>1. hand'["retry"] = d /\ hand["retry"] = d
      BY <1>5, <1>6, <2>1, <2>3 DEF InHand, Senders
    <3> QED
      BY <2>2, <2>3, <3>1 DEF InHand, c
  <2>4. CASE t = "retry"
    <3>1. hand'["limiter"] = d /\ hand["limiter"] = d
      BY <1>5, <1>6, <2>1, <2>4 DEF InHand, Senders
    <3> QED
      BY <2>2, <2>4, <3>1 DEF InHand, c
  <2> QED
    BY <1>3, <2>3, <2>4
<1>7. \A d : (InLimiter(d)' <=> InLimiter(d)) /\ (InRetry(d)' <=> InRetry(d))
  BY <1>1 DEF InLimiter, InRetry
<1>8. PlaceType'
  <2>1. watched' \subseteq Chunks /\ hand' \in [Senders -> Chunks \cup {None}]
    BY <1>1, <1>2 DEF IInv, PlaceType
  <2>2. /\ pc' \in [Senders -> {"idle", "store", "fail", "watch"}]
        /\ \A s \in Senders : pc'[s] = "idle" <=> hand'[s] = None
    BY <1>1, <1>5 DEF IInv, PlaceType
  <2> QED
    BY <1>1, <2>1, <2>2 DEF IInv, PlaceType
<1>9. RequestInv'
  <2>1. ASSUME NEW d \in Chunks, Fresh(d) PROVE Fresh(d)'
    BY <1>1, <1>3, <1>6, <1>7, <2>1 DEF Fresh
  <2> QED
    BY <1>1, <2>1, RequestsKept
<1>10. LimiterOnce' /\ RetryOnce'
  BY <1>1 DEF IInv, PlaceInv, LimiterOnce, RetryOnce
<1>11. ASSUME NEW d \in Chunks PROVE Placed(d)'
  <2>1. Placed(d)
    BY DEF IInv, PlaceInv
  <2>2. ~(hand'["limiter"] = d /\ hand'["retry"] = d)
    BY <1>3, <1>5, SmppAssumption DEF Senders
  <2> QED
    BY <1>1, <1>4, <1>6, <1>7, <2>1, <2>2 DEF Placed
<1> QED
  BY <1>8, <1>9, <1>10, <1>11 DEF IInv, PlaceInv

(* A chunk goes from fdQueueGC to the retry queue, and the retry counts.    *)
LEMMA RetryStep ==
    ASSUME IInv, NEW c \in Chunks, Retry(c)
    PROVE  IInv'
<1>1. /\ c \in watched /\ watched' = watched \ {c} /\ retryQueue' = Append(retryQueue, c)
      /\ retryNum[c] + 1 <= NumRetries /\ retryNum' = [retryNum EXCEPT ![c] = @ + 1]
      /\ UNCHANGED <<api, asked, limiter, pc, hand, attempts>>
  BY DEF Retry, history
<1>2. Placed(c) /\ ~InLimiter(c) /\ ~InRetry(c) /\ ~InHand(c)
  BY <1>1 DEF IInv, PlaceInv, Placed
<1>3. /\ retryQueue \in Seq(Chunks) /\ retryQueue' \in Seq(Chunks)
      /\ Len(retryQueue) \in Nat /\ Len(retryQueue') = Len(retryQueue) + 1
      /\ \A i \in 1 .. Len(retryQueue') :
            \/ i \in 1 .. Len(retryQueue) /\ retryQueue'[i] = retryQueue[i]
            \/ i = Len(retryQueue) + 1 /\ retryQueue'[i] = c
  BY <1>1 DEF IInv, PlaceType
<1>4. \A d : InRetry(d)' => InRetry(d) \/ d = c
  BY <1>3 DEF InRetry
<1>5. \A d : (InLimiter(d)' <=> InLimiter(d)) /\ (InHand(d)' <=> InHand(d))
  BY <1>1 DEF InLimiter, InHand
<1>6. \A d \in Chunks : retryNum'[d] = IF d = c THEN retryNum[c] + 1 ELSE retryNum[d]
  BY <1>1 DEF IInv, PlaceType
<1>7. PlaceType'
  <2>1. retryNum' \in [Chunks -> 0 .. NumRetries]
    BY <1>1, SmppAssumption DEF IInv, PlaceType
  <2> QED
    BY <1>1, <1>3, <2>1 DEF IInv, PlaceType
<1>8. RequestInv'
  <2>1. ASSUME NEW d \in Chunks, Fresh(d) PROVE Fresh(d)'
    BY <1>1, <1>4, <1>5, <2>1 DEF Fresh
  <2> QED
    BY <1>1, <2>1, RequestsKept
<1>9. LimiterOnce'
  BY <1>1 DEF IInv, PlaceInv, LimiterOnce
<1>10. RetryOnce'
  <2>1. \A i \in 1 .. Len(retryQueue) : retryQueue[i] # c
    BY <1>2 DEF InRetry
  <2>2. RetryOnce
    BY DEF IInv, PlaceInv
  <2> QED
    BY <1>3, <2>1, <2>2 DEF RetryOnce
<1>11. ASSUME NEW d \in Chunks PROVE Placed(d)'
  <2>0. Placed(d) /\ retryNum[d] \in Nat /\ attempts[d] \in Nat
    BY SmppAssumption DEF IInv, PlaceInv, PlaceType
  <2>1. CASE d = c
    <3>1. attempts'[d] <= retryNum'[d] /\ attempts'[d] <= retryNum'[d] + 1
      BY <1>1, <1>2, <1>6, <2>0, <2>1 DEF Placed
    <3>2. ~InLimiter(d)' /\ ~InHand(d)' /\ d \notin watched'
      BY <1>1, <1>2, <1>5, <2>1
    <3> QED
      BY <2>0, <3>1, <3>2, <1>1 DEF Placed
  <2>2. CASE d # c
    BY <1>1, <1>4, <1>5, <1>6, <2>0, <2>2 DEF Placed
  <2> QED
    BY <2>1, <2>2
<1> QED
  BY <1>7, <1>8, <1>9, <1>10, <1>11 DEF IInv, PlaceInv

(* A chunk leaves fdQueueGC for good.                                       *)
LEMMA UnwatchStep ==
    ASSUME IInv, NEW c \in Chunks, Leave(c) \/ GiveUp(c)
    PROVE  IInv'
<1>1. watched' = watched \ {c} /\ UNCHANGED <<api, asked, limiter, retryQueue, pc, hand, retryNum, attempts>>
  BY DEF Leave, GiveUp, jobVars, fieldVars, history
<1>2. \A d : /\ (InLimiter(d)' <=> InLimiter(d)) /\ (InRetry(d)' <=> InRetry(d))
             /\ (InHand(d)' <=> InHand(d))
  BY <1>1 DEF InLimiter, InRetry, InHand
<1>3. PlaceType'
  BY <1>1 DEF IInv, PlaceType
<1>4. RequestInv'
  <2>1. ASSUME NEW d \in Chunks, Fresh(d) PROVE Fresh(d)'
    BY <1>1, <1>2, <2>1 DEF Fresh
  <2> QED
    BY <1>1, <2>1, RequestsKept
<1>5. LimiterOnce' /\ RetryOnce'
  BY <1>1 DEF IInv, PlaceInv, LimiterOnce, RetryOnce
<1>6. ASSUME NEW d \in Chunks PROVE Placed(d)'
  <2>1. Placed(d)
    BY DEF IInv, PlaceInv
  <2> QED
    BY <1>1, <1>2, <2>1 DEF Placed
<1> QED
  BY <1>3, <1>4, <1>5, <1>6 DEF IInv, PlaceInv

(* A sender that records its chunk keeps it in its hands.                   *)
LEMMA StoreStep ==
    ASSUME IInv, NEW t \in Senders, StorePending(t) \/ StoreRetry(t)
    PROVE  IInv'
<1>1. pc[t] \in {"store", "fail"} /\ pc' = [pc EXCEPT ![t] = "watch"] /\ UNCHANGED placeVars
  BY DEF StorePending, StoreRetry, Goto, placeVars, fieldVars, history
<1>2. PlaceType'
  BY <1>1 DEF IInv, PlaceType, placeVars
<1> QED
  BY <1>1, <1>2, PlacesKept DEF IInv

(* Gateways, pings, clocks and answers move no chunk.                       *)
LEMMA OtherStep ==
    ASSUME \/ \E c \in Chunks : TimePasses(c)
           \/ \E u \in 1 .. Len(submits) :
                 OnAccepted(u) \/ \E g \in Gws : OnDelivered(u, g) \/ OnUndelivered(u, g)
           \/ \E g \in Gws : OnGwError(g) \/ PingTimeout(g) \/ Ping(g)
           \/ UNCHANGED vars
    PROVE  UNCHANGED placeVars /\ UNCHANGED pc
<1>1. CASE \E c \in Chunks : TimePasses(c)
  BY <1>1 DEF TimePasses, placeVars, jobVars, history
<1>2. CASE \E u \in 1 .. Len(submits) :
              OnAccepted(u) \/ \E g \in Gws : OnDelivered(u, g) \/ OnUndelivered(u, g)
  BY <1>2 DEF OnAccepted, OnDelivered, OnUndelivered, OnGwReply, placeVars, jobVars
<1>3. CASE \E g \in Gws : OnGwError(g) \/ PingTimeout(g) \/ Ping(g)
  BY <1>3 DEF OnGwError, PingTimeout, Ping, placeVars, jobVars, fieldVars, history
<1>4. CASE UNCHANGED vars
  BY <1>4 DEF vars, placeVars, jobVars, fieldVars, history
<1> QED
  BY <1>1, <1>2, <1>3, <1>4

-----------------------------------------------------------------------------
LEMMA StepInv == IInv /\ [Next]_vars => IInv'
<1> SUFFICES ASSUME IInv, [Next]_vars PROVE IInv'
  OBVIOUS
<1>1. CASE \E a \in Apis, m \in Messages : SendRequest(a, m)
  BY <1>1, SendRequestStep
<1>2. CASE \E a \in Apis : \/ ConnectBroken(a) \/ BindFails(a) \/ BindCloses(a) \/ SendConnected(a) \/ EnquiryFails(a)
                          \/ SendUnconnected(a) \/ SendThrows(a)
  BY <1>2, ConnectStep
<1>7. CASE \E a \in Apis : Offer(a)
  BY <1>7, OfferStep
<1>3. CASE SendFirst \/ SendAgain
  BY <1>3, SendFirstStep, SendAgainStep
<1>4. CASE \E t \in Senders : Sender(t)
  BY <1>4, StoreStep, EnqueueGcStep DEF Sender
<1>5. CASE \E c \in Chunks : Gc(c)
  BY <1>5, UnwatchStep, RetryStep DEF Gc
<1>6. CASE \/ \E c \in Chunks : TimePasses(c)
           \/ \E u \in 1 .. Len(submits) :
                 OnAccepted(u) \/ \E g \in Gws : OnDelivered(u, g) \/ OnUndelivered(u, g)
           \/ \E g \in Gws : OnGwError(g) \/ PingTimeout(g) \/ Ping(g)
           \/ UNCHANGED vars
  BY <1>6, OtherStep, FrameStep
<1> QED
  BY <1>1, <1>2, <1>3, <1>4, <1>5, <1>6, <1>7 DEF Next

(* Every chunk is in at most one of the limiter, a sender's hands,          *)
(* fdQueueGC and the retry queue, and no chunk is sent more often than once *)
(* and numOfRetries times again, whatever the other side and the network do.*)
THEOREM SendsBounded == Spec => []AttemptsBounded
<1>1. Init => IInv
  BY InitInv
<1>2. IInv /\ [Next]_vars => IInv'
  BY StepInv
<1>3. IInv => AttemptsBounded
  <2> SUFFICES ASSUME IInv, NEW c \in Chunks PROVE attempts[c] <= NumRetries + 1
    BY DEF AttemptsBounded
  <2>1. /\ attempts[c] \in Nat /\ retryNum[c] \in 0 .. NumRetries
        /\ attempts[c] <= retryNum[c] + 1
    BY DEF IInv, PlaceType, PlaceInv, Placed
  <2> QED
    BY <2>1, SmppAssumption
<1> QED
  BY <1>1, <1>2, <1>3, PTL DEF Spec
=============================================================================
