-------------------------- MODULE SmppLifeProofs ----------------------------
(* What becomes of a chunk once it was sent, for any messages, chunks, API  *)
(* threads, gateways and retries: the types of all variables with a bound   *)
(* on the sequence numbers, and, while no two chunks share a number, the    *)
(* one of pendingMsgQueue, ackMsgQueue and retryMsgs that holds it at each  *)
(* place of its way.                                                        *)
EXTENDS SmppProofs

GwType ==
    /\ nGw \in 0 .. MaxGw /\ cur \in 0 .. nGw
    /\ link \in [Gws -> {"new", "open", "closed"}]
    /\ timer \in [Gws -> BOOLEAN]
    /\ \A a \in Apis : api[a].gw <= nGw
    /\ \A i \in 1 .. Len(limiter) : limiter[i].gw <= nGw
    /\ via \in [Senders -> 0 .. nGw]
    /\ \A t \in Senders : pc[t] = "idle" <=> via[t] = 0

(* Sequence numbers: pings and refused binds, two for each request that is  *)
(* done with Connect, and one for each chunk that was made.                 *)
Connecting(a) == api[a].at \in {"connect", "hosts", "closing"}
Done == {m \in asked : ~ \E a \in Apis : Connecting(a) /\ api[a].m = m}
SeqBound == MaxPing + 2 * Cardinality(Done) + Cardinality(made)
CountInv == seqNo \in [Gws -> Nat] /\ \A g \in Gws : seqNo[g] <= SeqBound

(* A chunk is made, and gets its number, when it is first sent.             *)
MadeInv ==
    /\ made \subseteq Chunks /\ seq \in [Chunks -> 0 .. MaxSeq]
    /\ \A c \in Chunks : (c \in made <=> seq[c] # 0) /\ (c \in made <=> attempts[c] # 0)
    /\ \A c \in Chunks : InRetry(c) \/ c \in watched \/ InHand(c) => c \in made

Submission == [c : Chunks, gw : Gws, seq : Seqs, state : {"sent", "accepted", "reported"}]
QueueType ==
    /\ finished \in [Chunks -> BOOLEAN] /\ late \in [Chunks -> BOOLEAN]
    /\ pending \in [Seqs -> Chunks \cup {None}]
    /\ ack \in [1 .. MaxUid -> Chunks \cup {None}]
    /\ retryMsgs \subseteq made /\ delivered \subseteq Chunks
    /\ submits \in Seq(Submission)

(* Whatever carries a number carries the one its chunk was made with.       *)
NumberInv ==
    /\ \A s \in Seqs : pending[s] # None => pending[s] \in made /\ seq[pending[s]] = s
    /\ \A u \in 1 .. Len(submits) : submits[u].c \in made /\ submits[u].seq = seq[submits[u].c]
    /\ \A u \in 1 .. MaxUid : ack[u] # None =>
          /\ ack[u] \in made /\ u <= Len(submits)
          /\ submits[u].state = "accepted" /\ submits[u].seq = seq[ack[u]]
    /\ \A c \in Chunks : finished[c] => c \in made

(* One submission at most for each call of SendChunk.                       *)
Sent == [u \in 1 .. Len(submits) |-> submits[u].c]
SentInv == \A c \in Chunks : CountOf(Sent, c) <= attempts[c]

-----------------------------------------------------------------------------
(* The ways a chunk is held, and where its sender is.                       *)
Pends(c) == pending[seq[c]] = c
Acked(c) == {u \in 1 .. MaxUid : ack[u] = c}
Held(c) == Pends(c) \/ Acked(c) # {} \/ c \in retryMsgs
Writing(c) == \E t \in Senders : hand[t] = c /\ pc[t] \in {"store", "fail"}
Stored(c) == \E t \in Senders : hand[t] = c /\ pc[t] = "watch"

Life(c) ==
    /\ Pends(c) => Acked(c) = {} /\ c \notin retryMsgs
    /\ c \in retryMsgs => Acked(c) = {}
    /\ \A u, v \in Acked(c) : u = v
    /\ InRetry(c) \/ Writing(c) => ~Held(c) /\ ~finished[c]
    /\ finished[c] => ~Held(c) /\ c \in delivered
    /\ (c \in watched \/ Stored(c)) /\ ~finished[c] => Held(c)
    /\ ~InRetry(c) /\ c \notin watched /\ ~InHand(c) =>
          ~Held(c) /\ (finished[c] \/ retryNum[c] = NumRetries)

LifeInv == Distinct => \A c \in made : Life(c)

ReplyInv == QueueType /\ NumberInv /\ SentInv
TInv == IInv /\ GwType /\ CountInv /\ MadeInv /\ ReplyInv
FullInv == TInv /\ LifeInv

-----------------------------------------------------------------------------
(* Gateways *)

(* GetGateway answers with a gateway that exists, one more than before if   *)
(* the login had none.                                                      *)
LEMMA GatewayIs ==
    ASSUME GwType, NEW g \in Gws, GetGateway(g)
    PROVE  /\ nGw' \in 0 .. MaxGw /\ nGw <= nGw' /\ cur' \in 0 .. nGw'
           /\ g \in 1 .. nGw' /\ timer' \in [Gws -> BOOLEAN]
<1>1. nGw \in 0 .. MaxGw /\ cur \in 0 .. nGw /\ timer \in [Gws -> BOOLEAN] /\ MaxGw \in Nat
  BY SmppAssumption DEF GwType
<1>2. CASE cur # 0 /\ g = cur /\ UNCHANGED <<cur, nGw, timer>>
  BY <1>1, <1>2
<1>3. CASE g = nGw + 1 /\ nGw' = g /\ cur' = g /\ timer' = [timer EXCEPT ![g] = TRUE]
  BY <1>1, <1>3 DEF Gws
<1> QED
  BY <1>2, <1>3 DEF GetGateway

(* What waits in the limiter, and its head.                                 *)
LEMMA LimiterType ==
    ASSUME PlaceType
    PROVE  /\ Len(limiter) \in Nat
           /\ \A i \in 1 .. Len(limiter) :
                 limiter[i].c \in Chunks /\ limiter[i].gw \in Gws /\ limiter[i].gw \in Nat
           /\ limiter # << >> =>
                 /\ Head(limiter) = limiter[1] /\ 1 \in 1 .. Len(limiter)
                 /\ \A i \in 1 .. Len(Tail(limiter)) :
                       i + 1 \in 1 .. Len(limiter) /\ Tail(limiter)[i] = limiter[i + 1]
<1> DEFINE S == [c : Chunks, gw : Gws]
<1>1. limiter \in Seq(S)
  BY DEF PlaceType
<1>2. \A x \in S : x.c \in Chunks /\ x.gw \in Gws /\ x.gw \in Nat
  BY DEF Gws
<1> HIDE DEF S
<1>3. Len(limiter) \in Nat /\ \A i \in 1 .. Len(limiter) : limiter[i] \in S
  BY <1>1
<1>4. CASE limiter # << >>
  <2>1. /\ Len(limiter) \in Nat \ {0} /\ Head(limiter) = limiter[1]
        /\ \A i \in 1 .. Len(Tail(limiter)) :
              i + 1 \in 1 .. Len(limiter) /\ i + 1 # 1 /\ Tail(limiter)[i] = limiter[i + 1]
    BY <1>1, <1>4, TailOf
  <2> QED
    BY <1>2, <1>3, <2>1
<1> QED
  BY <1>2, <1>3, <1>4

(* Close drops a socket and the login's gateway.                            *)
LEMMA CloseIs ==
    ASSUME GwType, NEW g, Close(g)
    PROVE  cur' = 0 /\ link' \in [Gws -> {"new", "open", "closed"}]
BY DEF GwType, Close

(* A step of the gateways themselves.                                       *)
LEMMA GwFrame ==
    ASSUME GwType, UNCHANGED <<nGw, api, limiter, pc, via>>, cur' \in {0, cur},
           link' \in [Gws -> {"new", "open", "closed"}], timer' \in [Gws -> BOOLEAN]
    PROVE  GwType'
<1>1. cur' \in 0 .. nGw'
  BY DEF GwType
<1> QED
  BY <1>1 DEF GwType

LEMMA GwSendRequest ==
    ASSUME TInv, NEW a \in Apis, NEW m \in Messages, SendRequest(a, m)
    PROVE  GwType'
<1>1. PICK g \in Gws :
        GetGateway(g) /\ api' = [api EXCEPT ![a] = [m |-> m, gw |-> g, at |-> "connect", part |-> 1]]
  BY DEF SendRequest
<1>2. UNCHANGED <<link, limiter, pc, via>>
  BY DEF SendRequest, jobVars
<1>3. /\ nGw' \in 0 .. MaxGw /\ nGw <= nGw' /\ cur' \in 0 .. nGw'
      /\ g \in 1 .. nGw' /\ timer' \in [Gws -> BOOLEAN]
  BY <1>1, GatewayIs DEF TInv
<1>4. nGw \in Nat /\ nGw' \in Nat /\ MaxGw \in Nat
  BY <1>3, SmppAssumption DEF TInv, GwType
<1>5. ASSUME NEW b \in Apis PROVE api'[b].gw <= nGw'
  <2>1. api[b].gw \in 0 .. MaxGw /\ api[b].gw <= nGw
    BY DEF TInv, GwType, IInv, PlaceType, Requests
  <2>2. api'[b].gw = IF b = a THEN g ELSE api[b].gw
    BY <1>1 DEF TInv, IInv, PlaceType
  <2> QED
    BY <1>3, <1>4, <2>1, <2>2
<1>6. ASSUME NEW i \in 1 .. Len(limiter') PROVE limiter'[i].gw <= nGw'
  <2>1. limiter[i].gw \in Nat /\ limiter[i].gw <= nGw
    BY <1>2, LimiterType DEF TInv, IInv, GwType
  <2> QED
    BY <1>2, <1>3, <1>4, <2>1
<1>7. via' \in [Senders -> 0 .. nGw'] /\ \A t \in Senders : pc'[t] = "idle" <=> via'[t] = 0
  BY <1>2, <1>3, <1>4 DEF TInv, GwType
<1> QED
  BY <1>2, <1>3, <1>5, <1>6, <1>7 DEF TInv, GwType

(* The other steps of a request, which make no gateway.                     *)
LEMMA GwSend ==
    ASSUME TInv, NEW a \in Apis, NEW r, api' = [api EXCEPT ![a] = r], r.gw \in {0, api[a].gw},
           cur' \in {0, cur}, link' \in [Gws -> {"new", "open", "closed"}],
           UNCHANGED <<nGw, timer, pc, via>>,
           \A i \in 1 .. Len(limiter') :
              \/ i \in 1 .. Len(limiter) /\ limiter'[i] = limiter[i]
              \/ limiter'[i].gw = api[a].gw
    PROVE  GwType'
<1>1. nGw \in Nat /\ api[a].gw <= nGw
  BY SmppAssumption DEF TInv, GwType
<1>2. \A b \in Apis : api'[b] = IF b = a THEN r ELSE api[b]
  BY DEF TInv, IInv, PlaceType
<1>3. \A b \in Apis : api'[b].gw <= nGw'
  BY <1>1, <1>2 DEF TInv, GwType
<1>4. \A i \in 1 .. Len(limiter') : limiter'[i].gw <= nGw'
  BY <1>1 DEF TInv, GwType
<1>5. cur' \in 0 .. nGw'
  BY DEF TInv, GwType
<1> QED
  BY <1>3, <1>4, <1>5 DEF TInv, GwType

LEMMA GwConnect ==
    ASSUME TInv, NEW a \in Apis,
           \/ ConnectBroken(a) \/ BindFails(a) \/ BindCloses(a) \/ SendConnected(a) \/ EnquiryFails(a)
           \/ SendUnconnected(a) \/ SendThrows(a)
    PROVE  GwType'
<1>1. UNCHANGED <<nGw, timer, pc, via, limiter>>
  BY DEF ConnectBroken, BindFails, BindCloses,
         SendConnected, EnquiryFails, SendUnconnected, SendThrows, jobVars, gwVars
<1>2. PICK r : api' = [api EXCEPT ![a] = r] /\ r.gw \in {0, api[a].gw}
  <2>1. CASE SendUnconnected(a) \/ SendThrows(a)
    BY <2>1, IdleIs DEF SendUnconnected, SendThrows
  <2>2. CASE ConnectBroken(a) \/ BindFails(a) \/ BindCloses(a) \/ SendConnected(a) \/ EnquiryFails(a)
    <3>1. PICK l : api' = [api EXCEPT ![a].at = l]
      BY <2>2 DEF ConnectBroken, BindFails, BindCloses, SendConnected, EnquiryFails, Reached
    <3>2. PICK x : x = [api[a] EXCEPT !.at = l]
      OBVIOUS
    <3>3. x.gw = api[a].gw
      BY <3>2 DEF TInv, IInv, PlaceType, Requests
    <3> QED
      BY <3>1, <3>2, <3>3
  <2> QED
    BY <2>1, <2>2
<1>3. cur' \in {0, cur} /\ link' \in [Gws -> {"new", "open", "closed"}]
  <2>1. CASE BindFails(a) \/ BindCloses(a) \/ SendUnconnected(a)
    BY <2>1, CloseIs DEF TInv, BindFails, BindCloses, SendUnconnected
  <2>2. CASE ConnectBroken(a) \/ SendConnected(a) \/ EnquiryFails(a)
    BY <2>2 DEF TInv, GwType, ConnectBroken, SendConnected, EnquiryFails
  <2>3. CASE SendThrows(a)
    BY <2>3 DEF TInv, GwType, SendThrows, gwVars
  <2> QED
    BY <2>1, <2>2, <2>3
<1> QED
  BY <1>1, <1>2, <1>3, GwSend

LEMMA GwOffer ==
    ASSUME TInv, NEW a \in Apis, Offer(a)
    PROVE  GwType'
<1>1. UNCHANGED <<cur, link, nGw, timer, pc, via>>
  BY DEF Offer, gwVars
<1>2. link' \in [Gws -> {"new", "open", "closed"}]
  BY <1>1 DEF TInv, GwType
<1>3. PICK r : api' = [api EXCEPT ![a] = r] /\ r.gw \in {0, api[a].gw}
  BY OfferIs DEF TInv
<1>4. \A i \in 1 .. Len(limiter') :
         \/ i \in 1 .. Len(limiter) /\ limiter'[i] = limiter[i]
         \/ limiter'[i].gw = api[a].gw
  BY OfferIs, Zenon DEF TInv
<1> QED
  BY <1>1, <1>2, <1>3, <1>4, GwSend

(* A sender takes a chunk and a gateway that exists.                        *)
LEMMA GwTake ==
    ASSUME TInv, NEW t \in Senders, NEW g \in 1 .. nGw', NEW l \in {"store", "fail"},
           nGw' \in 0 .. MaxGw, nGw <= nGw', cur' \in 0 .. nGw',
           link' \in [Gws -> {"new", "open", "closed"}], timer' \in [Gws -> BOOLEAN],
           UNCHANGED api, via' = [via EXCEPT ![t] = g], pc' = [pc EXCEPT ![t] = l],
           limiter' = limiter \/ (limiter # << >> /\ limiter' = Tail(limiter))
    PROVE  GwType'
<1>1. nGw \in Nat /\ nGw' \in Nat /\ MaxGw \in Nat
  BY SmppAssumption DEF TInv, GwType
<1>2. \A a \in Apis : api'[a].gw <= nGw'
  BY <1>1 DEF TInv, GwType, IInv, PlaceType, Requests
<1>3. via' \in [Senders -> 0 .. nGw'] /\ \A s \in Senders : pc'[s] = "idle" <=> via'[s] = 0
  BY <1>1 DEF TInv, GwType, IInv, PlaceType
<1>4. ASSUME NEW i \in 1 .. Len(limiter') PROVE limiter'[i].gw <= nGw'
  <2>1. \A j \in 1 .. Len(limiter) : limiter[j].gw \in Nat /\ limiter[j].gw <= nGw
    BY LimiterType DEF TInv, IInv, GwType
  <2>2. PICK j \in 1 .. Len(limiter) : limiter'[i] = limiter[j]
    BY LimiterType DEF TInv, IInv
  <2> QED
    BY <1>1, <2>1, <2>2
<1> QED
  BY <1>2, <1>3, <1>4 DEF TInv, GwType

LEMMA GwSendFirst ==
    ASSUME TInv, SendFirst
    PROVE  GwType'
<1> DEFINE g == Head(limiter).gw
<1>1. /\ limiter # << >> /\ limiter' = Tail(limiter) /\ UNCHANGED <<nGw, timer, api>>
      /\ via' = [via EXCEPT !["limiter"] = g]
      /\ \E l \in {"store", "fail"} : pc' = [pc EXCEPT !["limiter"] = l]
      /\ (UNCHANGED <<cur, link>> \/ Close(g))
  BY DEF SendFirst, Written, WriteFails, NotConnected, Goto
<1>2. g \in 1 .. nGw' /\ g \in Gws
  <2>1. Head(limiter) = limiter[1] /\ limiter[1].gw \in Gws /\ 1 \in 1 .. Len(limiter)
    BY <1>1, LimiterType DEF TInv, IInv
  <2>2. limiter[1].gw <= nGw /\ nGw \in Nat
    BY <2>1, SmppAssumption DEF TInv, GwType
  <2> QED
    BY <1>1, <2>1, <2>2 DEF Gws
<1> HIDE DEF g
<1>4. cur' \in {0, cur} /\ link' \in [Gws -> {"new", "open", "closed"}]
  BY <1>1, CloseIs DEF TInv, GwType
<1>3. /\ cur' \in 0 .. nGw' /\ nGw' \in 0 .. MaxGw /\ nGw <= nGw' /\ timer' \in [Gws -> BOOLEAN]
      /\ link' \in [Gws -> {"new", "open", "closed"}]
  BY <1>1, <1>4, SmppAssumption DEF TInv, GwType
<1> QED
  BY <1>1, <1>2, <1>3, GwTake DEF Senders

LEMMA GwSendAgain ==
    ASSUME TInv, SendAgain
    PROVE  GwType'
<1>1. UNCHANGED <<api, limiter>>
  BY DEF SendAgain
<1>2. PICK g \in Gws, l \in {"store", "fail"} :
        /\ via' = [via EXCEPT !["retry"] = g] /\ pc' = [pc EXCEPT !["retry"] = l]
        /\ \/ cur # 0 /\ g = cur /\ UNCHANGED <<nGw, timer>> /\ cur' \in {0, cur}
           \/ GetGateway(g)
        /\ link' = link \/ Close(g)
  <2>1. cur # 0 => cur \in Gws
    BY SmppAssumption DEF TInv, GwType, Gws
  <2>2. CASE cur # 0
    BY <2>1, <2>2 DEF SendAgain, Written, WriteFails, NotConnected, Goto, Close, GetGateway
  <2>3. CASE cur = 0
    BY <2>3 DEF SendAgain, NotConnected, Goto
  <2> QED
    BY <2>2, <2>3
<1>3. /\ nGw' \in 0 .. MaxGw /\ nGw <= nGw' /\ cur' \in 0 .. nGw'
      /\ g \in 1 .. nGw' /\ timer' \in [Gws -> BOOLEAN]
  <2>1. CASE cur # 0 /\ g = cur /\ UNCHANGED <<nGw, timer>> /\ cur' \in {0, cur}
    BY <2>1, SmppAssumption DEF TInv, GwType
  <2> QED
    BY <1>2, <2>1, GatewayIs DEF TInv
<1>4. link' \in [Gws -> {"new", "open", "closed"}]
  BY <1>2, CloseIs DEF TInv, GwType
<1> QED
  BY <1>1, <1>2, <1>3, <1>4, GwTake DEF Senders

LEMMA GwSender ==
    ASSUME TInv, NEW t \in Senders, Sender(t)
    PROVE  GwType'
<1>1. UNCHANGED <<cur, nGw, link, timer, api, limiter>>
  BY DEF Sender, StorePending, StoreRetry, EnqueueGc, gwVars
<1>2. \/ pc[t] # "idle" /\ pc' = [pc EXCEPT ![t] = "watch"] /\ via' = via
      \/ pc' = [pc EXCEPT ![t] = "idle"] /\ via' = [via EXCEPT ![t] = 0]
  BY DEF Sender, StorePending, StoreRetry, EnqueueGc, Goto
<1>3. nGw \in Nat
  BY SmppAssumption DEF TInv, GwType
<1>4. /\ via \in [Senders -> 0 .. nGw] /\ pc \in [Senders -> {"idle", "store", "fail", "watch"}]
      /\ \A s \in Senders : pc[s] = "idle" <=> via[s] = 0
  BY DEF TInv, GwType, IInv, PlaceType
<1>5. via' \in [Senders -> 0 .. nGw'] /\ \A s \in Senders : pc'[s] = "idle" <=> via'[s] = 0
  <2>1. CASE pc[t] # "idle" /\ pc' = [pc EXCEPT ![t] = "watch"] /\ via' = via
    BY <1>1, <1>4, <2>1
  <2>2. CASE pc' = [pc EXCEPT ![t] = "idle"] /\ via' = [via EXCEPT ![t] = 0]
    BY <1>1, <1>3, <1>4, <2>2
  <2> QED
    BY <1>2, <2>1, <2>2
<1> QED
  BY <1>1, <1>5 DEF TInv, GwType

LEMMA GwStep ==
    ASSUME TInv, [Next]_vars
    PROVE  GwType'
<1>1. CASE \E a \in Apis, m \in Messages : SendRequest(a, m)
  BY <1>1, GwSendRequest
<1>2. CASE \E a \in Apis : \/ ConnectBroken(a) \/ BindFails(a) \/ BindCloses(a) \/ SendConnected(a) \/ EnquiryFails(a)
                          \/ SendUnconnected(a) \/ SendThrows(a)
  BY <1>2, GwConnect
<1>9. CASE \E a \in Apis : Offer(a)
  BY <1>9, GwOffer
<1>3. CASE SendFirst \/ SendAgain
  BY <1>3, GwSendFirst, GwSendAgain
<1>4. CASE \E t \in Senders : Sender(t)
  BY <1>4, GwSender
<1>5. CASE \E c \in Chunks : TimePasses(c) \/ Gc(c)
  <2>1. UNCHANGED <<cur, nGw, link, timer, api, limiter, pc, via>>
    BY <1>5 DEF TimePasses, Gc, Leave, GiveUp, Retry, gwVars, jobVars
  <2> QED
    BY <2>1, GwFrame DEF TInv, GwType
<1>6. CASE \E u \in 1 .. Len(submits) :
              OnAccepted(u) \/ \E g \in Gws : OnDelivered(u, g) \/ OnUndelivered(u, g)
  <2>1. UNCHANGED <<cur, nGw, link, timer, api, limiter, pc, via>>
    BY <1>6 DEF OnAccepted, OnDelivered, OnUndelivered, OnGwReply, gwVars, jobVars
  <2> QED
    BY <2>1, GwFrame DEF TInv, GwType
<1>7. CASE \E g \in Gws : OnGwError(g) \/ PingTimeout(g) \/ Ping(g)
  <2>1. PICK g \in Gws : OnGwError(g) \/ PingTimeout(g) \/ Ping(g)
    BY <1>7
  <2>2. /\ UNCHANGED <<nGw, api, limiter, pc, via>> /\ cur' \in {0, cur}
        /\ link' = link \/ Close(g)
        /\ timer' = timer \/ timer' = [timer EXCEPT ![g] = FALSE]
    BY <2>1 DEF OnGwError, PingTimeout, Ping, Close, jobVars
  <2>3. link' \in [Gws -> {"new", "open", "closed"}] /\ timer' \in [Gws -> BOOLEAN]
    BY <2>2, CloseIs DEF TInv, GwType
  <2> QED
    BY <2>2, <2>3, GwFrame DEF TInv
<1>8. CASE UNCHANGED vars
  <2>1. UNCHANGED <<cur, nGw, link, timer, api, limiter, pc, via>>
    BY <1>8 DEF vars, gwVars, jobVars
  <2> QED
    BY <2>1, GwFrame DEF TInv, GwType
<1> QED
  BY <1>1, <1>2, <1>3, <1>4, <1>5, <1>6, <1>7, <1>8, <1>9 DEF Next

-----------------------------------------------------------------------------
(* Sequence numbers *)

LEMMA BoundOf ==
    ASSUME NEW D \in SUBSET Messages, NEW M \in SUBSET Chunks
    PROVE  /\ IsFiniteSet(D) /\ IsFiniteSet(M)
           /\ Cardinality(D) \in Nat /\ Cardinality(M) \in Nat
           /\ MaxPing + 2 * Cardinality(D) + Cardinality(M) \in 0 .. MaxSeq
<1>1. IsFiniteSet(D) /\ Cardinality(D) <= Cardinality(Messages)
  BY SmppAssumption, FS_Subset
<1>2. IsFiniteSet(M) /\ Cardinality(M) <= Cardinality(Chunks)
  BY SmppAssumption, FS_Subset
<1>3. /\ Cardinality(D) \in Nat /\ Cardinality(M) \in Nat
      /\ Cardinality(Messages) \in Nat /\ Cardinality(Chunks) \in Nat /\ MaxPing \in Nat
  BY <1>1, <1>2, SmppAssumption, FS_CardinalityType
<1> QED
  BY <1>1, <1>2, <1>3 DEF MaxSeq

LEMMA OneMore ==
    ASSUME NEW S, IsFiniteSet(S), NEW x, x \notin S
    PROVE  Cardinality(S \cup {x}) = Cardinality(S) + 1
BY FS_AddElement

LEMMA BoundIs ==
    ASSUME TInv
    PROVE  /\ IsFiniteSet(Done) /\ IsFiniteSet(made)
           /\ Cardinality(Done) \in Nat /\ Cardinality(made) \in Nat
           /\ SeqBound \in Nat /\ SeqBound <= MaxSeq /\ MaxPing \in Nat /\ MaxPing <= SeqBound
<1>1. Done \in SUBSET Messages /\ made \in SUBSET Chunks
  BY DEF TInv, IInv, PlaceType, MadeInv, Done
<1>2. /\ IsFiniteSet(Done) /\ IsFiniteSet(made)
      /\ Cardinality(Done) \in Nat /\ Cardinality(made) \in Nat
      /\ MaxPing + 2 * Cardinality(Done) + Cardinality(made) \in 0 .. MaxSeq
  BY <1>1, BoundOf
<1> QED
  BY <1>2, SmppAssumption DEF SeqBound

(* A request is done with Connect once, and the bound never falls.          *)
LEMMA DoneGrows ==
    ASSUME TInv, NEW a \in Apis, UNCHANGED <<asked, made>>,
           \A b \in Apis : b # a => api'[b] = api[b],
           Connecting(a)' => Connecting(a) /\ api'[a].m = api[a].m
    PROVE  /\ Connecting(a) /\ ~Connecting(a)' => SeqBound' = SeqBound + 2
           /\ ~(Connecting(a) /\ ~Connecting(a)') => SeqBound' = SeqBound
<1>1. PICK m : m = api[a].m
  OBVIOUS
<1>2. \A b \in Apis : b # a => (Connecting(b)' <=> Connecting(b)) /\ api'[b].m = api[b].m
  BY DEF Connecting
<1>3. \A b \in Apis : Connecting(b) => Busy(b)
  BY DEF TInv, IInv, RequestInv, Connecting
<1>4. CASE Connecting(a) /\ ~Connecting(a)'
  <2>1. m \in asked /\ m \notin Done
    BY <1>1, <1>3, <1>4 DEF TInv, IInv, RequestInv, Done
  <2>2. \A b \in Apis : b # a /\ Connecting(b) => api[b].m # m
    BY <1>1, <1>3, <1>4 DEF TInv, IInv, RequestInv
  <2>3. Done' = Done \cup {m}
    <3>1. ASSUME NEW k \in Done' PROVE k \in Done \cup {m}
      <4>1. k \in asked /\ ~ \E b \in Apis : Connecting(b)' /\ api'[b].m = k
        BY DEF Done
      <4>2. k # m => ~ \E b \in Apis : Connecting(b) /\ api[b].m = k
        BY <1>1, <1>2, <4>1
      <4> QED
        BY <4>1, <4>2 DEF Done
    <3>2. ASSUME NEW k \in Done \cup {m} PROVE k \in Done'
      <4>1. k \in asked
        BY <2>1, <3>2 DEF Done
      <4>2. \A b \in Apis : b # a /\ Connecting(b) => api[b].m # k
        BY <2>2, <3>2 DEF Done
      <4>3. ~ \E b \in Apis : Connecting(b)' /\ api'[b].m = k
        BY <1>2, <1>4, <4>2
      <4> QED
        BY <4>1, <4>3 DEF Done
    <3> QED
      BY <3>1, <3>2
  <2>4. Cardinality(Done') = Cardinality(Done) + 1
    BY <2>1, <2>3, BoundIs, OneMore
  <2>5. SeqBound' = MaxPing + 2 * Cardinality(Done') + Cardinality(made)
    BY DEF SeqBound
  <2>6. Cardinality(Done) \in Nat /\ Cardinality(made) \in Nat /\ MaxPing \in Nat
    BY BoundIs
  <2>7. SeqBound' = SeqBound + 2
    BY <2>4, <2>5, <2>6 DEF SeqBound
  <2> QED
    BY <1>4, <2>7
<1>5. CASE ~(Connecting(a) /\ ~Connecting(a)')
  <2>1. \A b \in Apis : /\ Connecting(b)' <=> Connecting(b)
                        /\ Connecting(b) => api'[b].m = api[b].m
    BY <1>2, <1>5
  <2>2. Done' = Done
    BY <2>1 DEF Done
  <2>3. SeqBound' = SeqBound
    BY <2>2 DEF SeqBound
  <2> QED
    BY <1>5, <2>3
<1> QED
  BY <1>4, <1>5

(* Fewer numbers are taken than the bound grows by.                         *)
LEMMA CountGrows ==
    ASSUME TInv, NEW g, NEW k \in 0 .. 2, seqNo' = [seqNo EXCEPT ![g] = @ + k],
           SeqBound + k <= SeqBound', SeqBound' \in Nat
    PROVE  CountInv'
<1>1. seqNo \in [Gws -> Nat] /\ \A h \in Gws : seqNo[h] <= SeqBound
  BY DEF TInv, CountInv
<1>2. SeqBound \in Nat
  BY BoundIs
<1>3. seqNo' \in [Gws -> Nat]
  <2>1. seqNo' = [h \in Gws |-> IF h = g THEN seqNo[h] + k ELSE seqNo[h]]
    BY <1>1
  <2>2. \A h \in Gws : seqNo[h] \in Nat /\ seqNo[h] + k \in Nat
    BY <1>1
  <2> QED
    BY <2>1, <2>2
<1>4. ASSUME NEW h \in Gws PROVE seqNo'[h] <= SeqBound'
  <2>1. seqNo[h] \in Nat /\ seqNo[h] <= SeqBound /\ (seqNo'[h] = seqNo[h] \/ seqNo'[h] = seqNo[h] + k)
    BY <1>1
  <2> QED
    BY <1>2, <2>1
<1> QED
  BY <1>3, <1>4 DEF CountInv

LEMMA CountSendRequest ==
    ASSUME TInv, NEW a \in Apis, NEW m \in Messages, SendRequest(a, m)
    PROVE  CountInv'
<1>1. PICK g \in Gws : api' = [api EXCEPT ![a] = [m |-> m, gw |-> g, at |-> "connect", part |-> 1]]
  BY DEF SendRequest
<1>2. asked' = asked \cup {m} /\ m \notin asked /\ ~Busy(a) /\ UNCHANGED <<seqNo, made>>
  BY DEF SendRequest, Busy, fieldVars
<1>3. /\ api'[a].m = m /\ api'[a].at = "connect"
      /\ \A b \in Apis : b # a => api'[b] = api[b]
  BY <1>1 DEF TInv, IInv, PlaceType
<1>4. /\ Connecting(a)' /\ ~Connecting(a)
      /\ \A b \in Apis : b # a => (Connecting(b)' <=> Connecting(b)) /\ api'[b].m = api[b].m
  BY <1>2, <1>3 DEF Connecting, TInv, IInv, RequestInv
<1>5. Done' = Done
  <2>1. ASSUME NEW k \in asked
        PROVE  (\E b \in Apis : Connecting(b)' /\ api'[b].m = k) <=> (\E b \in Apis : Connecting(b) /\ api[b].m = k)
    BY <1>2, <1>3, <1>4
  <2>2. \E b \in Apis : Connecting(b)' /\ api'[b].m = m
    BY <1>3, <1>4
  <2> QED
    BY <1>2, <2>1, <2>2 DEF Done
<1>6. SeqBound' = SeqBound
  BY <1>2, <1>5 DEF SeqBound
<1> QED
  BY <1>2, <1>6 DEF TInv, CountInv

(* A number below MaxPing is taken.                                         *)
LEMMA CountBelow ==
    ASSUME TInv, NEW g \in Gws, seqNo[g] < MaxPing, seqNo' = [seqNo EXCEPT ![g] = @ + 1],
           SeqBound' = SeqBound
    PROVE  CountInv'
<1>1. MaxPing \in Nat /\ SeqBound \in Nat /\ MaxPing <= SeqBound
  BY BoundIs
<1>2. seqNo \in [Gws -> Nat] /\ \A h \in Gws : seqNo[h] <= SeqBound
  BY DEF TInv, CountInv
<1> QED
  BY <1>1, <1>2 DEF CountInv

LEMMA CountConnect ==
    ASSUME TInv, NEW a \in Apis,
           \/ ConnectBroken(a) \/ BindFails(a) \/ BindCloses(a) \/ SendConnected(a) \/ EnquiryFails(a)
           \/ SendUnconnected(a) \/ SendThrows(a) \/ Offer(a)
    PROVE  CountInv'
<1>0. api \in [Apis -> Requests] /\ api[a] \in Requests /\ SeqBound \in Nat
  BY BoundIs DEF TInv, IInv, PlaceType
<1>1. UNCHANGED <<asked, made>>
  BY DEF ConnectBroken, BindFails, BindCloses, SendConnected, EnquiryFails, SendUnconnected,
         SendThrows, Offer, fieldVars
<1>2. \A b \in Apis : b # a => api'[b] = api[b]
  BY <1>0 DEF ConnectBroken, BindFails, BindCloses,
         SendConnected, EnquiryFails, SendUnconnected, SendThrows, Offer, Reached
<1>3. CASE ConnectBroken(a) \/ BindFails(a) \/ BindCloses(a)
  <2>1. PICK l \in {"hosts", "closing"} : api' = [api EXCEPT ![a].at = l]
    BY <1>3 DEF ConnectBroken, BindFails, BindCloses, Reached
  <2>2. Connecting(a) /\ Connecting(a)' /\ api'[a].m = api[a].m
    BY <1>0, <1>3, <2>1 DEF ConnectBroken, BindFails, BindCloses, InConnect, Connecting, Requests
  <2>3. SeqBound' = SeqBound
    BY <1>1, <1>2, <2>2, DoneGrows
  <2>4. CASE BindFails(a)
    <3>1. PICK g : g = api[a].gw
      OBVIOUS
    <3>2. g \in Gws
      <4>1. Busy(a)
        BY <2>2 DEF TInv, IInv, RequestInv, Connecting
      <4> QED
        BY <1>0, <3>1, <4>1, SmppAssumption DEF Busy, Requests, Gws
    <3>3. seqNo[g] < MaxPing /\ seqNo' = [seqNo EXCEPT ![g] = @ + 1]
      BY <2>4, <3>1 DEF BindFails
    <3> QED
      BY <2>3, <3>2, <3>3, CountBelow
  <2>5. CASE ConnectBroken(a) \/ BindCloses(a)
    BY <2>3, <2>5 DEF ConnectBroken, BindCloses, TInv, CountInv
  <2> QED
    BY <1>3, <2>4, <2>5
<1>4. CASE SendConnected(a) \/ EnquiryFails(a)
  <2>1. PICK l \in {"offer", "lost"} : api' = [api EXCEPT ![a].at = l]
    BY <1>4 DEF SendConnected, EnquiryFails, Reached
  <2>2. Connecting(a) /\ ~Connecting(a)'
    BY <1>0, <1>4, <2>1 DEF SendConnected, EnquiryFails, InConnect, Connecting, Requests
  <2>3. SeqBound' = SeqBound + 2
    BY <1>1, <1>2, <2>2, DoneGrows
  <2>4. seqNo' = seqNo \/ seqNo' = [seqNo EXCEPT ![api[a].gw] = @ + 2]
    BY <1>4 DEF SendConnected, EnquiryFails
  <2>5. CASE seqNo' = seqNo
    BY <1>0, <2>3, <2>5 DEF TInv, CountInv
  <2>6. CASE seqNo' = [seqNo EXCEPT ![api[a].gw] = @ + 2]
    <3>1. SeqBound + 2 <= SeqBound' /\ SeqBound' \in Nat /\ 2 \in 0 .. 2
      BY <1>0, <2>3
    <3> QED
      BY <2>6, <3>1, CountGrows
  <2> QED
    BY <2>4, <2>5, <2>6
<1>5. CASE SendUnconnected(a) \/ SendThrows(a) \/ Offer(a)
  <2>1. seqNo' = seqNo
    BY <1>5 DEF SendUnconnected, SendThrows, Offer, gwVars
  <2>2. ~Connecting(a)'
    <3>1. CASE SendUnconnected(a) \/ SendThrows(a)
      BY <1>0, <3>1, IdleIs DEF SendUnconnected, SendThrows, Connecting
    <3>2. CASE Offer(a)
      <4>1. api[a].at = "offer"
        BY <3>2 DEF Offer
      <4>2. api'[a] = Idle \/ api'[a] = [api[a] EXCEPT !.part = api[a].part + 1]
        BY <1>0, <3>2 DEF Offer
      <4>3. api'[a].at \in {"idle", "offer"}
        BY <1>0, <4>1, <4>2, IdleIs DEF Requests
      <4> QED
        BY <4>3 DEF Connecting
    <3> QED
      BY <1>5, <3>1, <3>2
  <2>3. SeqBound' = SeqBound \/ SeqBound' = SeqBound + 2
    BY <1>1, <1>2, <2>2, DoneGrows
  <2> QED
    BY <1>0, <2>1, <2>3 DEF TInv, CountInv
<1> QED
  BY <1>3, <1>4, <1>5

(* The limiter's chunk is made and numbered, for the first time.            *)
LEMMA FirstIs ==
    ASSUME TInv, SendFirst
    PROVE  /\ Head(limiter).c \in Chunks /\ Head(limiter).gw \in Gws
           /\ Head(limiter).c \notin made /\ InLimiter(Head(limiter).c)
           /\ attempts[Head(limiter).c] = 0
<1> DEFINE c == Head(limiter).c
<1>1. limiter # << >>
  BY DEF SendFirst
<1>2. /\ Head(limiter) = limiter[1] /\ 1 \in 1 .. Len(limiter)
      /\ limiter[1].c \in Chunks /\ limiter[1].gw \in Gws
  BY <1>1, LimiterType DEF TInv, IInv
<1>3. c \in Chunks /\ Head(limiter).gw \in Gws /\ InLimiter(c)
  BY <1>2 DEF InLimiter
<1> HIDE DEF c
<1>4. attempts[c] = 0
  BY <1>3 DEF TInv, IInv, PlaceInv, Placed
<1>5. c \notin made
  BY <1>3, <1>4 DEF TInv, MadeInv
<1> QED
  BY <1>3, <1>4, <1>5 DEF c

LEMMA CountSendFirst ==
    ASSUME TInv, SendFirst
    PROVE  CountInv' /\ seqNo[Head(limiter).gw] + 1 \in Seqs
<1> DEFINE c == Head(limiter).c
           g == Head(limiter).gw
<1>1. /\ seqNo' = [seqNo EXCEPT ![g] = seqNo[g] + 1] /\ made' = made \cup {c}
      /\ UNCHANGED <<api, asked>>
  BY DEF SendFirst
<1>2. c \in Chunks /\ g \in Gws /\ c \notin made
  BY FirstIs
<1> HIDE DEF c, g
<1>3. Done' = Done
  BY <1>1 DEF Done, Connecting
<1>4. /\ IsFiniteSet(made) /\ Cardinality(Done) \in Nat /\ Cardinality(made) \in Nat
      /\ MaxPing \in Nat /\ SeqBound \in Nat
  BY BoundIs
<1>5. Cardinality(made') = Cardinality(made) + 1
  BY <1>1, <1>2, <1>4, OneMore
<1>6. SeqBound' = MaxPing + 2 * Cardinality(Done) + Cardinality(made')
  BY <1>3 DEF SeqBound
<1>7. SeqBound' = SeqBound + 1
  BY <1>4, <1>5, <1>6 DEF SeqBound
<1>8. SeqBound' <= MaxSeq /\ MaxSeq \in Nat
  <2>1. Done \in SUBSET Messages /\ made' \in SUBSET Chunks
    BY <1>1, <1>2 DEF TInv, IInv, PlaceType, MadeInv, Done
  <2>2. MaxPing + 2 * Cardinality(Done) + Cardinality(made') \in 0 .. MaxSeq
    BY <2>1, BoundOf
  <2>3. Cardinality(Messages) \in Nat /\ Cardinality(Chunks) \in Nat
    BY SmppAssumption, FS_CardinalityType
  <2>4. MaxSeq \in Nat
    BY <1>4, <2>3 DEF MaxSeq
  <2> QED
    BY <1>6, <2>2, <2>4
<1>9. CountInv'
  <2>1. seqNo' = [seqNo EXCEPT ![g] = @ + 1]
    BY <1>1
  <2>2. SeqBound + 1 <= SeqBound' /\ SeqBound' \in Nat /\ 1 \in 0 .. 2
    BY <1>4, <1>7
  <2> QED
    BY <2>1, <2>2, CountGrows
<1>10. seqNo[g] \in Nat /\ seqNo[g] <= SeqBound
  BY <1>2 DEF TInv, CountInv
<1> QED
  BY <1>4, <1>7, <1>8, <1>9, <1>10 DEF Seqs, g

LEMMA CountFrame ==
    ASSUME TInv, UNCHANGED <<api, asked, made, seqNo>>
    PROVE  CountInv'
<1>1. Done' = Done
  BY DEF Done, Connecting
<1>2. SeqBound' = SeqBound
  BY <1>1 DEF SeqBound
<1> QED
  BY <1>2 DEF TInv, CountInv

LEMMA CountPing ==
    ASSUME TInv, NEW g \in Gws, Ping(g)
    PROVE  CountInv'
<1>1. /\ seqNo[g] < MaxPing /\ seqNo' = [seqNo EXCEPT ![g] = @ + 1]
      /\ UNCHANGED <<api, asked, made>>
  BY DEF Ping, fieldVars
<1>2. Done' = Done
  BY <1>1 DEF Done, Connecting
<1>3. SeqBound' = SeqBound
  BY <1>1, <1>2 DEF SeqBound
<1> QED
  BY <1>1, <1>3, CountBelow

LEMMA CountStep ==
    ASSUME TInv, [Next]_vars
    PROVE  CountInv'
<1>1. CASE \E a \in Apis, m \in Messages : SendRequest(a, m)
  BY <1>1, CountSendRequest
<1>2. CASE \E a \in Apis : \/ ConnectBroken(a) \/ BindFails(a) \/ BindCloses(a) \/ SendConnected(a) \/ EnquiryFails(a)
                          \/ SendUnconnected(a) \/ SendThrows(a) \/ Offer(a)
  BY <1>2, CountConnect
<1>3. CASE SendFirst
  BY <1>3, CountSendFirst
<1>4. CASE \E g \in Gws : Ping(g)
  BY <1>4, CountPing
<1>5. CASE SendAgain \/ (\E t \in Senders : Sender(t)) \/ (\E c \in Chunks : TimePasses(c) \/ Gc(c))
  <2>1. UNCHANGED <<api, asked, made, seqNo>>
    BY <1>5 DEF SendAgain, Sender, StorePending, StoreRetry, EnqueueGc, TimePasses, Gc, Leave, GiveUp,
                Retry, gwVars, fieldVars
  <2> QED
    BY <2>1, CountFrame
<1>6. CASE \/ \E u \in 1 .. Len(submits) :
                 OnAccepted(u) \/ \E g \in Gws : OnDelivered(u, g) \/ OnUndelivered(u, g)
           \/ \E g \in Gws : OnGwError(g) \/ PingTimeout(g)
           \/ UNCHANGED vars
  <2>1. UNCHANGED <<api, asked, made, seqNo>>
    BY <1>6 DEF OnAccepted, OnDelivered, OnUndelivered, OnGwReply, OnGwError, PingTimeout, vars,
                gwVars, fieldVars
  <2> QED
    BY <2>1, CountFrame
<1> QED
  BY <1>1, <1>2, <1>3, <1>4, <1>5, <1>6 DEF Next

-----------------------------------------------------------------------------
(* Chunks are made once *)

LEMMA MadeSendFirst ==
    ASSUME TInv, SendFirst
    PROVE  MadeInv'
<1> DEFINE c == Head(limiter).c
           n == seqNo[Head(limiter).gw] + 1
<1>1. /\ seq' = [seq EXCEPT ![c] = n] /\ made' = made \cup {c} /\ hand' = [hand EXCEPT !["limiter"] = c]
      /\ attempts' = [attempts EXCEPT ![c] = @ + 1] /\ UNCHANGED <<retryQueue, watched>>
  BY DEF SendFirst
<1>2. c \in Chunks /\ c \notin made /\ attempts[c] = 0
  BY FirstIs
<1>3. n \in Seqs
  BY CountSendFirst
<1>4. /\ made \subseteq Chunks /\ seq \in [Chunks -> 0 .. MaxSeq]
      /\ attempts \in [Chunks -> Nat] /\ hand \in [Senders -> Chunks \cup {None}]
  BY DEF TInv, MadeInv, IInv, PlaceType
<1> HIDE DEF c, n
<1>5. n \in 0 .. MaxSeq /\ n # 0
  BY <1>3 DEF Seqs
<1>6. made' \subseteq Chunks /\ seq' \in [Chunks -> 0 .. MaxSeq]
  BY <1>1, <1>2, <1>4, <1>5
<1>7. ASSUME NEW d \in Chunks
      PROVE  (d \in made' <=> seq'[d] # 0) /\ (d \in made' <=> attempts'[d] # 0)
  BY <1>1, <1>2, <1>4, <1>5 DEF TInv, MadeInv
<1>8. ASSUME NEW d \in Chunks, InRetry(d)' \/ d \in watched' \/ InHand(d)' PROVE d \in made'
  <2>1. InRetry(d) \/ d \in watched \/ InHand(d) \/ d = c
    BY <1>1, <1>4, <1>8 DEF InRetry, InHand, Senders
  <2> QED
    BY <1>1, <2>1 DEF TInv, MadeInv
<1> QED
  BY <1>6, <1>7, <1>8 DEF MadeInv

LEMMA MadeFrame ==
    ASSUME TInv, UNCHANGED <<made, seq>>,
           \A c \in Chunks : attempts'[c] = attempts[c] \/ (c \in made /\ attempts'[c] = attempts[c] + 1),
           \A c \in Chunks : InRetry(c)' \/ c \in watched' \/ InHand(c)' =>
                             InRetry(c) \/ c \in watched \/ InHand(c)
    PROVE  MadeInv'
<1>1. ASSUME NEW c \in Chunks PROVE c \in made <=> attempts'[c] # 0
  <2>1. attempts[c] \in Nat /\ (c \in made <=> attempts[c] # 0)
    BY DEF TInv, MadeInv, IInv, PlaceType
  <2> QED
    BY <2>1
<1> QED
  BY <1>1 DEF TInv, MadeInv

LEMMA MadeSendAgain ==
    ASSUME TInv, SendAgain
    PROVE  MadeInv' /\ Head(retryQueue) \in made /\ InRetry(Head(retryQueue))
<1> DEFINE c == Head(retryQueue)
<1>1. /\ retryQueue # << >> /\ retryQueue' = Tail(retryQueue) /\ hand' = [hand EXCEPT !["retry"] = c]
      /\ attempts' = [attempts EXCEPT ![c] = @ + 1] /\ UNCHANGED <<made, seq, watched>>
  BY DEF SendAgain, fieldVars
<1>2. /\ retryQueue \in Seq(Chunks) /\ hand \in [Senders -> Chunks \cup {None}]
      /\ attempts \in [Chunks -> Nat]
  BY DEF TInv, IInv, PlaceType
<1>3. /\ c = retryQueue[1] /\ Len(retryQueue) \in Nat \ {0}
      /\ \A i \in 1 .. Len(Tail(retryQueue)) :
            i + 1 \in 1 .. Len(retryQueue) /\ i + 1 # 1 /\ Tail(retryQueue)[i] = retryQueue[i + 1]
  BY <1>1, <1>2, TailOf
<1>4. c \in Chunks /\ InRetry(c)
  BY <1>2, <1>3 DEF InRetry
<1> HIDE DEF c
<1>5. c \in made
  BY <1>4 DEF TInv, MadeInv
<1>6. ASSUME NEW d \in Chunks, InRetry(d)' \/ d \in watched' \/ InHand(d)'
      PROVE  InRetry(d) \/ d \in watched \/ InHand(d)
  <2>1. InRetry(d)' => InRetry(d)
    BY <1>1, <1>3 DEF InRetry
  <2>2. InHand(d)' => InHand(d) \/ d = c
    BY <1>1, <1>2 DEF InHand, Senders
  <2> QED
    BY <1>1, <1>4, <1>6, <2>1, <2>2
<1>7. \A d \in Chunks : attempts'[d] = attempts[d] \/ (d \in made /\ attempts'[d] = attempts[d] + 1)
  BY <1>1, <1>2, <1>5
<1>8. MadeInv'
  BY <1>1, <1>6, <1>7, MadeFrame
<1> QED
  BY <1>4, <1>5, <1>8 DEF c

LEMMA MadeStep ==
    ASSUME TInv, [Next]_vars
    PROVE  MadeInv'
<1>1. CASE SendFirst \/ SendAgain
  BY <1>1, MadeSendFirst, MadeSendAgain
<1>2. CASE \E t \in Senders : Sender(t)
  <2>1. PICK t \in Senders : Sender(t)
    BY <1>2
  <2>2. /\ UNCHANGED <<made, seq, attempts, retryQueue>>
        /\ \/ UNCHANGED <<hand, watched>>
           \/ hand' = [hand EXCEPT ![t] = None] /\ watched' = watched \cup {hand[t]}
    BY <2>1 DEF Sender, StorePending, StoreRetry, EnqueueGc, fieldVars, history
  <2>3. ASSUME NEW c \in Chunks, InRetry(c)' \/ c \in watched' \/ InHand(c)'
        PROVE  InRetry(c) \/ c \in watched \/ InHand(c)
    <3>1. c # None /\ hand \in [Senders -> Chunks \cup {None}]
      BY SmppAssumption DEF TInv, IInv, PlaceType
    <3> QED
      BY <2>2, <2>3, <3>1 DEF InRetry, InHand, Senders
  <2> QED
    BY <2>2, <2>3, MadeFrame
<1>3. CASE \E c \in Chunks : Gc(c)
  <2>1. PICK c \in Chunks : Gc(c)
    BY <1>3
  <2>2. /\ UNCHANGED <<made, seq, attempts, hand>> /\ watched' = watched \ {c} /\ c \in watched
        /\ retryQueue' = retryQueue \/ retryQueue' = Append(retryQueue, c)
    BY <2>1 DEF Gc, Leave, GiveUp, Retry, jobVars, fieldVars, history
  <2>3. ASSUME NEW d \in Chunks, InRetry(d)' \/ d \in watched' \/ InHand(d)'
        PROVE  InRetry(d) \/ d \in watched \/ InHand(d)
    <3>1. retryQueue \in Seq(Chunks)
      BY DEF TInv, IInv, PlaceType
    <3>2. InRetry(d)' => InRetry(d) \/ d = c
      BY <2>2, <3>1 DEF InRetry
    <3> QED
      BY <2>2, <2>3, <3>2 DEF InHand
  <2> QED
    BY <2>2, <2>3, MadeFrame
<1>4. CASE \/ \E a \in Apis, m \in Messages : SendRequest(a, m)
           \/ \E a \in Apis : \/ ConnectBroken(a) \/ BindFails(a) \/ BindCloses(a)
                              \/ SendConnected(a) \/ EnquiryFails(a)
                              \/ SendUnconnected(a) \/ SendThrows(a) \/ Offer(a)
           \/ \E c \in Chunks : TimePasses(c)
           \/ \E u \in 1 .. Len(submits) :
                 OnAccepted(u) \/ \E g \in Gws : OnDelivered(u, g) \/ OnUndelivered(u, g)
           \/ \E g \in Gws : OnGwError(g) \/ PingTimeout(g) \/ Ping(g)
           \/ UNCHANGED vars
  <2>1. UNCHANGED <<made, seq, attempts, retryQueue, hand, watched>>
    BY <1>4 DEF SendRequest, ConnectBroken, BindFails, BindCloses,
           SendConnected, EnquiryFails, SendUnconnected, SendThrows, Offer,
           TimePasses, OnAccepted, OnDelivered,
                OnUndelivered, OnGwReply, OnGwError, PingTimeout, Ping, vars, jobVars, fieldVars, history
  <2> QED
    BY <2>1, MadeFrame DEF InRetry, InHand
<1> QED
  BY <1>1, <1>2, <1>3, <1>4 DEF Next

-----------------------------------------------------------------------------
(* Submissions and replies *)

LEMMA SubmitsType ==
    ASSUME TInv
    PROVE  /\ submits \in Seq(Submission) /\ Len(submits) \in Nat
           /\ \A u \in 1 .. Len(submits) :
                 /\ submits[u] \in Submission /\ submits[u].c \in Chunks /\ submits[u].gw \in Gws
                 /\ submits[u].seq \in Seqs /\ submits[u].state \in {"sent", "accepted", "reported"}
           /\ Sent \in Seq(Chunks) /\ Len(Sent) = Len(submits)
           /\ \A u \in 1 .. Len(submits) : Sent[u] = submits[u].c
<1>1. submits \in Seq(Submission)
  BY DEF TInv, ReplyInv, QueueType
<1>2. \A x \in Submission : /\ x.c \in Chunks /\ x.gw \in Gws /\ x.seq \in Seqs
                            /\ x.state \in {"sent", "accepted", "reported"}
  BY DEF Submission
<1>3. Len(submits) \in Nat /\ \A u \in 1 .. Len(submits) : submits[u] \in Submission
  BY <1>1
<1>4. \A u \in 1 .. Len(submits) : submits[u].c \in Chunks
  BY <1>2, <1>3
<1>5. Sent \in Seq(Chunks) /\ Len(Sent) = Len(submits)
  BY <1>3, <1>4 DEF Sent
<1>6. \A u \in 1 .. Len(submits) : Sent[u] = submits[u].c
  BY DEF Sent
<1> QED
  BY <1>1, <1>2, <1>3, <1>5, <1>6

(* Every uid is within the bound of ackMsgQueue.                            *)
LEMMA UidBound ==
    ASSUME TInv
    PROVE  \A u \in 1 .. Len(submits) : u \in 1 .. MaxUid
<1>1. Sent \in Seq(Chunks) /\ Len(Sent) = Len(submits) /\ Len(submits) \in Nat
  BY SubmitsType
<1>2. ASSUME NEW c \in Chunks PROVE CountOf(Sent, c) <= NumRetries + 1
  <2>1. CountOf(Sent, c) <= attempts[c] /\ CountOf(Sent, c) \in Nat
    BY <1>1, CountIsNat DEF TInv, ReplyInv, SentInv
  <2>2. /\ attempts[c] \in Nat /\ retryNum[c] \in 0 .. NumRetries
        /\ attempts[c] <= retryNum[c] + 1
    BY DEF TInv, IInv, PlaceType, PlaceInv, Placed
  <2> QED
    BY <2>1, <2>2, SmppAssumption
<1>3. NumRetries + 1 \in Nat /\ IsFiniteSet(Chunks)
  BY SmppAssumption
<1>4. Len(Sent) <= MaxUid
  BY <1>1, <1>2, <1>3, LengthBound DEF MaxUid
<1>5. MaxUid \in Nat
  <2>1. Cardinality(Chunks) \in Nat
    BY <1>3, FS_CardinalityType
  <2> QED
    BY <1>3, <2>1 DEF MaxUid
<1> QED
  BY <1>1, <1>4, <1>5

(* The other side's answer changes the state of a submission only.          *)
LEMMA Answered ==
    ASSUME TInv, NEW u \in 1 .. Len(submits), NEW is \in {"accepted", "reported"},
           submits' = [submits EXCEPT ![u].state = is]
    PROVE  /\ submits' \in Seq(Submission) /\ Len(submits') = Len(submits)
           /\ \A v \in 1 .. Len(submits) :
                 /\ submits'[v].c = submits[v].c /\ submits'[v].seq = submits[v].seq
                 /\ submits'[v].state = IF v = u THEN is ELSE submits[v].state
           /\ Sent' = Sent
<1>1. /\ submits \in Seq(Submission) /\ Len(submits) \in Nat
      /\ \A v \in 1 .. Len(submits) : submits[v] \in Submission
  BY SubmitsType
<1>2. \A x \in Submission : LET y == [x EXCEPT !.state = is] IN
          y \in Submission /\ y.c = x.c /\ y.seq = x.seq /\ y.state = is
  BY DEF Submission
<1> HIDE DEF Submission
<1>3. submits' = [submits EXCEPT ![u] = [submits[u] EXCEPT !.state = is]]
  BY <1>1
<1> DEFINE y == [submits[u] EXCEPT !.state = is]
<1>4. y \in Submission /\ y.c = submits[u].c /\ y.seq = submits[u].seq /\ y.state = is
  BY <1>1, <1>2
<1> HIDE DEF y
<1>5. submits' = [submits EXCEPT ![u] = y]
  BY <1>3 DEF y
<1>6. /\ submits' \in Seq(Submission) /\ Len(submits') = Len(submits)
      /\ \A v \in 1 .. Len(submits) : submits'[v] = IF v = u THEN y ELSE submits[v]
  BY <1>1, <1>4, <1>5
<1>7. \A v \in 1 .. Len(submits) :
          /\ submits'[v].c = submits[v].c /\ submits'[v].seq = submits[v].seq
          /\ submits'[v].state = IF v = u THEN is ELSE submits[v].state
  BY <1>4, <1>6
<1>8. Sent' = Sent
  BY <1>6, <1>7 DEF Sent
<1> QED
  BY <1>6, <1>7, <1>8

(* A chunk that is written is one more submission.                          *)
LEMMA Submitted ==
    ASSUME TInv, NEW c \in Chunks, NEW g \in Gws, NEW n \in Seqs,
           submits' = Append(submits, [c |-> c, gw |-> g, seq |-> n, state |-> "sent"])
    PROVE  /\ submits' \in Seq(Submission) /\ Len(submits') = Len(submits) + 1
           /\ \A v \in 1 .. Len(submits) : submits'[v] = submits[v]
           /\ submits'[Len(submits) + 1].c = c /\ submits'[Len(submits) + 1].seq = n
           /\ Sent' = Append(Sent, c)
<1> DEFINE x == [c |-> c, gw |-> g, seq |-> n, state |-> "sent"]
<1>1. x \in Submission /\ x.c = c /\ x.seq = n
  BY DEF Submission
<1>2. submits' = Append(submits, x)
  OBVIOUS
<1> HIDE DEF x
<1>3. /\ submits \in Seq(Submission) /\ Len(submits) \in Nat
      /\ Sent \in Seq(Chunks) /\ Len(Sent) = Len(submits)
      /\ \A u \in 1 .. Len(submits) : Sent[u] = submits[u].c
  BY SubmitsType
<1>4. /\ submits' \in Seq(Submission) /\ Len(submits') = Len(submits) + 1
      /\ \A v \in 1 .. Len(submits) : submits'[v] = submits[v]
      /\ submits'[Len(submits) + 1] = x
  BY <1>1, <1>2, <1>3
<1>5. Sent' = [u \in 1 .. Len(submits) + 1 |-> submits'[u].c]
  BY <1>4 DEF Sent
<1>6. /\ Append(Sent, c) \in Seq(Chunks) /\ Len(Append(Sent, c)) = Len(submits) + 1
      /\ \A u \in 1 .. Len(submits) : Append(Sent, c)[u] = Sent[u]
      /\ Append(Sent, c)[Len(submits) + 1] = c
  BY <1>3
<1>7. ASSUME NEW u \in 1 .. Len(submits) + 1 PROVE submits'[u].c = Append(Sent, c)[u] /\ submits'[u].c \in Chunks
  <2>1. u \in 1 .. Len(submits) \/ u = Len(submits) + 1
    BY <1>3
  <2> QED
    BY <1>1, <1>3, <1>4, <1>6, <2>1, SubmitsType
<1>8. Sent' \in Seq(Chunks) /\ Len(Sent') = Len(submits) + 1
  BY <1>3, <1>5, <1>7
<1>9. Sent' = Append(Sent, c)
  <2>1. \A u \in 1 .. Len(Sent') : Sent'[u] = Append(Sent, c)[u]
    BY <1>5, <1>7, <1>8
  <2> QED
    BY <1>6, <1>8, <2>1, SeqEqual
<1> QED
  BY <1>1, <1>4, <1>9

(* A chunk is sent, written or not: its number is the one it was made with, *)
(* and those of the others stay.                                            *)
LEMMA ReplySend ==
    ASSUME TInv, NEW c \in Chunks, NEW g \in Gws, NEW n \in Seqs,
           made' = made \cup {c}, seq' = [seq EXCEPT ![c] = n],
           attempts' = [attempts EXCEPT ![c] = @ + 1], c \in made => seq[c] = n,
           UNCHANGED <<pending, ack, retryMsgs, finished, late, delivered>>,
           \/ UNCHANGED submits
           \/ submits' = Append(submits, [c |-> c, gw |-> g, seq |-> n, state |-> "sent"])
    PROVE  ReplyInv'
<1>1. /\ seq \in [Chunks -> 0 .. MaxSeq] /\ made \subseteq Chunks /\ attempts \in [Chunks -> Nat]
      /\ submits \in Seq(Submission) /\ Len(submits) \in Nat /\ Sent \in Seq(Chunks)
  BY SubmitsType DEF TInv, MadeInv, IInv, PlaceType
<1>2. seq'[c] = n /\ \A d \in made : seq'[d] = seq[d] /\ d \in made'
  BY <1>1
<1>3. /\ submits' \in Seq(Submission) /\ Len(submits') \in Nat /\ Len(submits) <= Len(submits')
      /\ \A v \in 1 .. Len(submits) : submits'[v] = submits[v]
      /\ \A v \in 1 .. Len(submits') : v \in 1 .. Len(submits) \/ (submits'[v].c = c /\ submits'[v].seq = n)
      /\ Sent' = Sent \/ Sent' = Append(Sent, c)
  <2>1. CASE UNCHANGED submits
    BY <1>1, <2>1 DEF Sent
  <2>2. CASE submits' = Append(submits, [c |-> c, gw |-> g, seq |-> n, state |-> "sent"])
    <3>1. /\ submits' \in Seq(Submission) /\ Len(submits') = Len(submits) + 1
          /\ \A v \in 1 .. Len(submits) : submits'[v] = submits[v]
          /\ submits'[Len(submits) + 1].c = c /\ submits'[Len(submits) + 1].seq = n
          /\ Sent' = Append(Sent, c)
      BY <2>2, Submitted
    <3> QED
      BY <1>1, <3>1
  <2> QED
    BY <2>1, <2>2
<1>4. QueueType'
  BY <1>3 DEF TInv, ReplyInv, QueueType
<1>5. NumberInv'
  <2>1. \A s \in Seqs : pending'[s] # None => pending'[s] \in made' /\ seq'[pending'[s]] = s
    BY <1>2 DEF TInv, ReplyInv, NumberInv
  <2>2. ASSUME NEW u \in 1 .. Len(submits')
        PROVE  submits'[u].c \in made' /\ submits'[u].seq = seq'[submits'[u].c]
    <3>1. CASE u \in 1 .. Len(submits)
      BY <1>2, <1>3, <3>1 DEF TInv, ReplyInv, NumberInv
    <3>2. CASE submits'[u].c = c /\ submits'[u].seq = n
      BY <1>2, <3>2
    <3> QED
      BY <1>3, <3>1, <3>2
  <2>3. ASSUME NEW u \in 1 .. MaxUid, ack[u] # None
        PROVE  /\ ack[u] \in made' /\ u <= Len(submits')
               /\ submits'[u].state = "accepted" /\ submits'[u].seq = seq'[ack[u]]
    <3>1. /\ ack[u] \in made /\ u <= Len(submits)
          /\ submits[u].state = "accepted" /\ submits[u].seq = seq[ack[u]]
      BY <2>3 DEF TInv, ReplyInv, NumberInv
    <3>2. u \in 1 .. Len(submits)
      BY <1>1, <3>1
    <3> QED
      BY <1>1, <1>2, <1>3, <3>1, <3>2
  <2>4. \A d \in Chunks : finished'[d] => d \in made'
    BY DEF TInv, ReplyInv, NumberInv
  <2> QED
    BY <2>1, <2>2, <2>3, <2>4 DEF NumberInv
<1>6. SentInv'
  <2> SUFFICES ASSUME NEW d \in Chunks PROVE CountOf(Sent', d) <= attempts'[d]
    BY DEF SentInv, CountOf, At
  <2>1. CountOf(Sent, d) <= attempts[d] /\ CountOf(Sent, d) \in Nat /\ attempts[d] \in Nat
    BY <1>1, CountIsNat DEF TInv, ReplyInv, SentInv
  <2>2. attempts'[d] = IF d = c THEN attempts[d] + 1 ELSE attempts[d]
    BY <1>1
  <2>3. CASE Sent' = Sent
    BY <2>1, <2>2, <2>3
  <2>4. CASE Sent' = Append(Sent, c)
    <3>1. CountOf(Sent', d) = IF c = d THEN CountOf(Sent, d) + 1 ELSE CountOf(Sent, d)
      BY <1>1, <2>4, CountAppend
    <3> QED
      BY <2>1, <2>2, <3>1
  <2> QED
    BY <1>3, <2>3, <2>4
<1> QED
  BY <1>4, <1>5, <1>6 DEF ReplyInv

LEMMA ReplySendFirst ==
    ASSUME TInv, SendFirst
    PROVE  ReplyInv'
<1> DEFINE c == Head(limiter).c
           g == Head(limiter).gw
           n == seqNo[g] + 1
<1>1. /\ seq' = [seq EXCEPT ![c] = n] /\ made' = made \cup {c}
      /\ attempts' = [attempts EXCEPT ![c] = @ + 1]
      /\ UNCHANGED <<pending, ack, retryMsgs, finished, late, delivered>>
      /\ \/ UNCHANGED submits
         \/ submits' = Append(submits, [c |-> c, gw |-> g, seq |-> n, state |-> "sent"])
  BY DEF SendFirst, Written, WriteFails, NotConnected, mapVars
<1>2. c \in Chunks /\ g \in Gws /\ c \notin made
  BY FirstIs
<1>3. n \in Seqs
  BY CountSendFirst
<1> HIDE DEF c, g, n
<1> QED
  BY <1>1, <1>2, <1>3, ReplySend

LEMMA ReplySendAgain ==
    ASSUME TInv, SendAgain
    PROVE  ReplyInv'
<1> DEFINE c == Head(retryQueue)
<1>1. c \in made
  BY MadeSendAgain
<1>2. PICK g \in Gws :
        \/ UNCHANGED submits
        \/ submits' = Append(submits, [c |-> c, gw |-> g, seq |-> seq[c], state |-> "sent"])
  <2>1. 1 \in Gws
    BY SmppAssumption DEF Gws
  <2>2. cur # 0 => cur \in Gws
    BY SmppAssumption DEF TInv, GwType, Gws
  <2> QED
    BY <2>1, <2>2 DEF SendAgain, Written, WriteFails, NotConnected
<1>3. /\ attempts' = [attempts EXCEPT ![c] = @ + 1]
      /\ UNCHANGED <<pending, ack, retryMsgs, finished, late, delivered, made, seq>>
  BY DEF SendAgain, mapVars, fieldVars
<1> HIDE DEF c
<1>4. c \in Chunks /\ seq \in [Chunks -> 0 .. MaxSeq] /\ seq[c] \in Seqs
  <2>1. made \subseteq Chunks /\ seq \in [Chunks -> 0 .. MaxSeq] /\ (c \in Chunks => (c \in made <=> seq[c] # 0))
    BY DEF TInv, MadeInv
  <2> QED
    BY <1>1, <2>1 DEF Seqs
<1>5. made' = made \cup {c} /\ seq' = [seq EXCEPT ![c] = seq[c]]
  BY <1>1, <1>3, <1>4
<1> QED
  BY <1>2, <1>3, <1>4, <1>5, ReplySend

(* A step that submits nothing and makes no chunk.                          *)
LEMMA ReplyFrame ==
    ASSUME TInv, UNCHANGED <<made, seq, attempts, submits>>, QueueType',
           \A s \in Seqs : pending'[s] = pending[s] \/ pending'[s] = None \/
                           (pending'[s] \in made /\ seq[pending'[s]] = s),
           \A u \in 1 .. MaxUid : ack'[u] = ack[u] \/ ack'[u] = None,
           UNCHANGED finished
    PROVE  ReplyInv'
<1>1. NumberInv'
  BY DEF TInv, ReplyInv, NumberInv
<1>2. SentInv'
  BY DEF TInv, ReplyInv, SentInv, Sent, CountOf, At
<1> QED
  BY <1>1, <1>2 DEF ReplyInv

LEMMA ReplyStore ==
    ASSUME TInv, NEW t \in Senders, Sender(t)
    PROVE  ReplyInv'
<1>1. UNCHANGED <<made, seq, attempts, submits, ack, finished, late, delivered>>
  BY DEF Sender, StorePending, StoreRetry, EnqueueGc, fieldVars, history, mapVars
<1>2. /\ pc[t] # "idle" /\ hand[t] \in Chunks
  <2>1. pc[t] # "idle"
    BY DEF Sender, StorePending, StoreRetry, EnqueueGc
  <2> QED
    BY <2>1 DEF TInv, IInv, PlaceType
<1>3. hand[t] \in made
  <2>1. InHand(hand[t])
    BY DEF InHand, Senders
  <2> QED
    BY <1>2, <2>1 DEF TInv, MadeInv
<1>4. /\ retryMsgs' = retryMsgs \/ retryMsgs' = retryMsgs \cup {hand[t]}
      /\ \/ pending' = pending
         \/ pending' = [pending EXCEPT ![seq[hand[t]]] = IF @ = None THEN hand[t] ELSE @]
  BY DEF Sender, StorePending, StoreRetry, EnqueueGc, mapVars
<1>5. pending \in [Seqs -> Chunks \cup {None}] /\ retryMsgs \subseteq made
  BY DEF TInv, ReplyInv, QueueType
<1>6. \A s \in Seqs : pending'[s] = pending[s] \/ (pending'[s] = hand[t] /\ s = seq[hand[t]])
  BY <1>4, <1>5
<1>7. pending' \in [Seqs -> Chunks \cup {None}]
  BY <1>2, <1>4, <1>5
<1>8. QueueType'
  BY <1>1, <1>3, <1>4, <1>5, <1>7 DEF TInv, ReplyInv, QueueType
<1> QED
  BY <1>1, <1>3, <1>6, <1>8, ReplyFrame

(* What clean leaves: the chunk, its number and one receipt go.             *)
LEMMA Cleaned ==
    ASSUME TInv, NEW c \in Chunks, Clean(c)
    PROVE  /\ retryMsgs' = retryMsgs \ {c}
           /\ pending' \in [Seqs -> Chunks \cup {None}] /\ ack' \in [1 .. MaxUid -> Chunks \cup {None}]
           /\ \A s \in Seqs : pending'[s] = IF s = seq[c] THEN None ELSE pending[s]
           /\ \A u \in 1 .. MaxUid : ack'[u] = ack[u] \/ (u \in SameNumber(c) /\ ack'[u] = None)
           /\ SameNumber(c) # {} => \E u \in SameNumber(c) : ack'[u] = None
<1>1. /\ pending \in [Seqs -> Chunks \cup {None}] /\ ack \in [1 .. MaxUid -> Chunks \cup {None}]
  BY DEF TInv, ReplyInv, QueueType
<1>2. retryMsgs' = retryMsgs \ {c} /\ pending' = [pending EXCEPT ![seq[c]] = None]
  BY DEF Clean
<1>3. /\ pending' \in [Seqs -> Chunks \cup {None}]
      /\ \A s \in Seqs : pending'[s] = IF s = seq[c] THEN None ELSE pending[s]
  BY <1>1, <1>2
<1>4. SameNumber(c) \subseteq 1 .. MaxUid
  BY <1>1 DEF SameNumber
<1>5. CASE UNCHANGED ack /\ SameNumber(c) = {}
  BY <1>1, <1>2, <1>3, <1>5
<1>6. ASSUME NEW u \in SameNumber(c), ack' = [ack EXCEPT ![u] = None]
      PROVE  /\ ack' \in [1 .. MaxUid -> Chunks \cup {None}] /\ ack'[u] = None
             /\ \A v \in 1 .. MaxUid : ack'[v] = ack[v] \/ (v \in SameNumber(c) /\ ack'[v] = None)
  BY <1>1, <1>4, <1>6
<1> QED
  BY <1>2, <1>3, <1>5, <1>6 DEF Clean

LEMMA ReplyGc ==
    ASSUME TInv, NEW c \in Chunks, Gc(c) \/ TimePasses(c)
    PROVE  ReplyInv'
<1>1. UNCHANGED <<made, seq, attempts, submits, finished, delivered>>
  BY DEF Gc, Leave, GiveUp, Retry, TimePasses, fieldVars, history
<1>2. late' \in [Chunks -> BOOLEAN]
  <2>1. late \in [Chunks -> BOOLEAN]
    BY DEF TInv, ReplyInv, QueueType
  <2>2. late' = late \/ late' = [late EXCEPT ![c] = TRUE] \/ late' = [late EXCEPT ![c] = FALSE]
    BY DEF Gc, Leave, GiveUp, Retry, TimePasses, fieldVars
  <2> QED
    BY <2>1, <2>2
<1>3. UNCHANGED <<pending, ack, retryMsgs>> \/ Clean(c)
  BY DEF Gc, Leave, GiveUp, Retry, TimePasses, mapVars
<1>4. CASE UNCHANGED <<pending, ack, retryMsgs>>
  <2>1. QueueType'
    BY <1>1, <1>2, <1>4 DEF TInv, ReplyInv, QueueType
  <2> QED
    BY <1>1, <1>4, <2>1, ReplyFrame
<1>5. CASE Clean(c)
  <2>1. /\ retryMsgs' = retryMsgs \ {c}
        /\ pending' \in [Seqs -> Chunks \cup {None}] /\ ack' \in [1 .. MaxUid -> Chunks \cup {None}]
        /\ \A s \in Seqs : pending'[s] = IF s = seq[c] THEN None ELSE pending[s]
        /\ \A u \in 1 .. MaxUid : ack'[u] = ack[u] \/ (u \in SameNumber(c) /\ ack'[u] = None)
    BY <1>5, Cleaned
  <2>2. QueueType'
    BY <1>1, <1>2, <2>1 DEF TInv, ReplyInv, QueueType
  <2> QED
    BY <1>1, <2>1, <2>2, ReplyFrame
<1> QED
  BY <1>3, <1>4, <1>5

(* An answer to submission u, or a receipt for it.                          *)
LEMMA ReplyAnswer ==
    ASSUME TInv, NEW u \in 1 .. Len(submits), NEW is \in {"accepted", "reported"},
           submits' = [submits EXCEPT ![u].state = is], UNCHANGED <<made, seq, attempts, late>>,
           finished' \in [Chunks -> BOOLEAN], retryMsgs' \subseteq made, delivered' \subseteq Chunks,
           pending' \in [Seqs -> Chunks \cup {None}], ack' \in [1 .. MaxUid -> Chunks \cup {None}],
           \A s \in Seqs : pending'[s] = pending[s] \/ pending'[s] = None,
           \A v \in 1 .. MaxUid : v # u => ack'[v] = ack[v],
           ack'[u] = None \/ (is = "accepted" /\ ack'[u] \in made /\ seq[ack'[u]] = submits[u].seq),
           \A c \in Chunks : finished'[c] => c \in made
    PROVE  ReplyInv'
<1>1. /\ submits' \in Seq(Submission) /\ Len(submits') = Len(submits)
      /\ \A v \in 1 .. Len(submits) :
            /\ submits'[v].c = submits[v].c /\ submits'[v].seq = submits[v].seq
            /\ submits'[v].state = IF v = u THEN is ELSE submits[v].state
      /\ Sent' = Sent
  BY Answered
<1>2. QueueType'
  BY <1>1 DEF TInv, ReplyInv, QueueType
<1>3. NumberInv'
  <2>1. \A s \in Seqs : pending'[s] # None => pending'[s] \in made' /\ seq'[pending'[s]] = s
    BY DEF TInv, ReplyInv, NumberInv
  <2>2. \A v \in 1 .. Len(submits') : submits'[v].c \in made' /\ submits'[v].seq = seq'[submits'[v].c]
    BY <1>1 DEF TInv, ReplyInv, NumberInv
  <2>3. ASSUME NEW v \in 1 .. MaxUid, ack'[v] # None
        PROVE  /\ ack'[v] \in made' /\ v <= Len(submits')
               /\ submits'[v].state = "accepted" /\ submits'[v].seq = seq'[ack'[v]]
    <3>1. Len(submits) \in Nat
      BY SubmitsType
    <3>2. CASE v = u
      BY <1>1, <2>3, <3>1, <3>2
    <3>3. CASE v # u
      <4>1. /\ ack[v] \in made /\ v <= Len(submits)
            /\ submits[v].state = "accepted" /\ submits[v].seq = seq[ack[v]]
        BY <2>3, <3>3 DEF TInv, ReplyInv, NumberInv
      <4>2. v \in 1 .. Len(submits)
        BY <3>1, <4>1
      <4> QED
        BY <1>1, <3>3, <4>1, <4>2
    <3> QED
      BY <3>2, <3>3
  <2> QED
    BY <2>1, <2>2, <2>3 DEF NumberInv
<1>4. SentInv'
  BY <1>1 DEF TInv, ReplyInv, SentInv, CountOf, At
<1> QED
  BY <1>2, <1>3, <1>4 DEF ReplyInv

(* What an acceptance does: the pending chunk waits for its receipt.        *)
LEMMA Accepted ==
    ASSUME TInv, NEW u \in 1 .. Len(submits), OnAccepted(u)
    PROVE  LET s == submits[u].seq IN
           /\ s \in Seqs /\ u \in 1 .. MaxUid /\ ack[u] = None
           /\ submits' = [submits EXCEPT ![u].state = "accepted"]
           /\ pending' \in [Seqs -> Chunks \cup {None}] /\ ack' \in [1 .. MaxUid -> Chunks \cup {None}]
           /\ \A r \in Seqs : pending'[r] = IF r = s THEN None ELSE pending[r]
           /\ \A v \in 1 .. MaxUid : ack'[v] = IF v = u THEN pending[s] ELSE ack[v]
<1> DEFINE s == submits[u].seq
<1>1. s \in Seqs /\ u \in 1 .. MaxUid
  BY SubmitsType, UidBound
<1>2. /\ submits[u].state = "sent" /\ submits' = [submits EXCEPT ![u].state = "accepted"]
      /\ pending' = [pending EXCEPT ![s] = None]
      /\ ack' = IF pending[s] = None THEN ack ELSE [ack EXCEPT ![u] = pending[s]]
  BY DEF OnAccepted, OnGwReply
<1>3. ack[u] = None
  BY <1>1, <1>2 DEF TInv, ReplyInv, NumberInv
<1>4. pending \in [Seqs -> Chunks \cup {None}] /\ ack \in [1 .. MaxUid -> Chunks \cup {None}]
  BY DEF TInv, ReplyInv, QueueType
<1> HIDE DEF s
<1>5. /\ pending' \in [Seqs -> Chunks \cup {None}]
      /\ \A r \in Seqs : pending'[r] = IF r = s THEN None ELSE pending[r]
  BY <1>2, <1>4
<1>6. /\ ack' \in [1 .. MaxUid -> Chunks \cup {None}]
      /\ \A v \in 1 .. MaxUid : ack'[v] = IF v = u THEN pending[s] ELSE ack[v]
  BY <1>1, <1>2, <1>3, <1>4
<1> QED
  BY <1>1, <1>2, <1>3, <1>5, <1>6 DEF s

(* What a receipt does: nobody waits for it any more.                       *)
LEMMA Reported ==
    ASSUME TInv, NEW u \in 1 .. Len(submits), NEW g, OnDelivered(u, g) \/ OnUndelivered(u, g)
    PROVE  /\ u \in 1 .. MaxUid /\ ack[u] \in Chunks \cup {None} /\ (ack[u] # None => ack[u] \in made)
           /\ submits' = [submits EXCEPT ![u].state = "reported"]
           /\ ack' \in [1 .. MaxUid -> Chunks \cup {None}]
           /\ \A v \in 1 .. MaxUid : ack'[v] = IF v = u THEN None ELSE ack[v]
<1>1. u \in 1 .. MaxUid
  BY UidBound
<1>2. submits' = [submits EXCEPT ![u].state = "reported"] /\ ack' = [ack EXCEPT ![u] = None]
  BY DEF OnDelivered, OnUndelivered, OnGwReply
<1>3. ack \in [1 .. MaxUid -> Chunks \cup {None}]
  BY DEF TInv, ReplyInv, QueueType
<1>4. ack[u] # None => ack[u] \in made
  BY <1>1 DEF TInv, ReplyInv, NumberInv
<1> QED
  BY <1>1, <1>2, <1>3, <1>4

LEMMA ReplyOnAccepted ==
    ASSUME TInv, NEW u \in 1 .. Len(submits), OnAccepted(u)
    PROVE  ReplyInv'
<1> DEFINE s == submits[u].seq
<1>1. UNCHANGED <<made, seq, attempts, late, finished, retryMsgs, delivered>>
  BY DEF OnAccepted, OnGwReply
<1>2. /\ s \in Seqs /\ u \in 1 .. MaxUid
      /\ submits' = [submits EXCEPT ![u].state = "accepted"]
      /\ pending' \in [Seqs -> Chunks \cup {None}] /\ ack' \in [1 .. MaxUid -> Chunks \cup {None}]
      /\ \A r \in Seqs : pending'[r] = IF r = s THEN None ELSE pending[r]
      /\ \A v \in 1 .. MaxUid : ack'[v] = IF v = u THEN pending[s] ELSE ack[v]
  BY Accepted
<1>3. pending[s] # None => pending[s] \in made /\ seq[pending[s]] = s
  BY <1>2 DEF TInv, ReplyInv, NumberInv
<1>4. /\ finished' \in [Chunks -> BOOLEAN] /\ retryMsgs' \subseteq made /\ delivered' \subseteq Chunks
      /\ \A c \in Chunks : finished'[c] => c \in made
  BY <1>1 DEF TInv, ReplyInv, QueueType, NumberInv
<1>5. ack'[u] = None \/ (ack'[u] \in made /\ seq[ack'[u]] = s)
  BY <1>2, <1>3
<1> QED
  BY <1>1, <1>2, <1>4, <1>5, ReplyAnswer

LEMMA ReplyOnReport ==
    ASSUME TInv, NEW u \in 1 .. Len(submits), NEW g, OnDelivered(u, g) \/ OnUndelivered(u, g)
    PROVE  ReplyInv'
<1>1. UNCHANGED <<made, seq, attempts, late, pending>>
  BY DEF OnDelivered, OnUndelivered, OnGwReply
<1>2. /\ u \in 1 .. MaxUid /\ ack[u] \in Chunks \cup {None} /\ (ack[u] # None => ack[u] \in made)
      /\ submits' = [submits EXCEPT ![u].state = "reported"]
      /\ ack' \in [1 .. MaxUid -> Chunks \cup {None}]
      /\ \A v \in 1 .. MaxUid : ack'[v] = IF v = u THEN None ELSE ack[v]
  BY Reported
<1>3. /\ finished' = finished \/ (ack[u] # None /\ finished' = [finished EXCEPT ![ack[u]] = TRUE])
      /\ retryMsgs' = retryMsgs \/ (ack[u] # None /\ retryMsgs' = retryMsgs \cup {ack[u]})
      /\ delivered' = delivered \/ delivered' = delivered \cup {submits[u].c}
  BY DEF OnDelivered, OnUndelivered
<1>4. /\ finished \in [Chunks -> BOOLEAN] /\ retryMsgs \subseteq made /\ delivered \subseteq Chunks
      /\ \A c \in Chunks : finished[c] => c \in made
      /\ pending \in [Seqs -> Chunks \cup {None}]
  BY DEF TInv, ReplyInv, QueueType, NumberInv
<1>5. finished' \in [Chunks -> BOOLEAN] /\ \A c \in Chunks : finished'[c] => c \in made
  BY <1>2, <1>3, <1>4
<1>6. retryMsgs' \subseteq made /\ delivered' \subseteq Chunks
  BY <1>2, <1>3, <1>4, SubmitsType
<1> QED
  BY <1>1, <1>2, <1>4, <1>5, <1>6, ReplyAnswer

LEMMA ReplyStep ==
    ASSUME TInv, [Next]_vars
    PROVE  ReplyInv'
<1>1. CASE SendFirst \/ SendAgain
  BY <1>1, ReplySendFirst, ReplySendAgain
<1>2. CASE \E t \in Senders : Sender(t)
  BY <1>2, ReplyStore
<1>3. CASE \E c \in Chunks : TimePasses(c) \/ Gc(c)
  BY <1>3, ReplyGc
<1>4. CASE \E u \in 1 .. Len(submits) :
              OnAccepted(u) \/ \E g \in Gws : OnDelivered(u, g) \/ OnUndelivered(u, g)
  BY <1>4, ReplyOnAccepted, ReplyOnReport
<1>5. CASE \/ \E a \in Apis, m \in Messages : SendRequest(a, m)
           \/ \E a \in Apis : \/ ConnectBroken(a) \/ BindFails(a) \/ BindCloses(a)
                              \/ SendConnected(a) \/ EnquiryFails(a)
                              \/ SendUnconnected(a) \/ SendThrows(a) \/ Offer(a)
           \/ \E g \in Gws : OnGwError(g) \/ PingTimeout(g) \/ Ping(g)
           \/ UNCHANGED vars
  <2>1. /\ UNCHANGED <<made, seq, attempts, submits, finished>>
        /\ UNCHANGED <<late, delivered, pending, ack, retryMsgs>>
    BY <1>5 DEF SendRequest, ConnectBroken, BindFails, BindCloses,
           SendConnected, EnquiryFails, SendUnconnected, SendThrows, Offer,
           OnGwError, PingTimeout, Ping, vars,
                mapVars, fieldVars, history
  <2>2. QueueType'
    BY <2>1 DEF TInv, ReplyInv, QueueType
  <2> QED
    BY <2>1, <2>2, ReplyFrame
<1> QED
  BY <1>1, <1>2, <1>3, <1>4, <1>5 DEF Next

-----------------------------------------------------------------------------
LEMMA InitTInv == Init => TInv
<1> SUFFICES ASSUME Init PROVE TInv
  OBVIOUS
<1>1. IInv
  BY InitInv
<1>2. GwType
  <2>1. /\ cur = 0 /\ nGw = 0 /\ link = [g \in Gws |-> "new"] /\ timer = [g \in Gws |-> FALSE]
        /\ api = [a \in Apis |-> Idle] /\ limiter = << >> /\ via = [t \in Senders |-> 0]
        /\ pc = [t \in Senders |-> "idle"]
    BY DEF Init
  <2>2. \A a \in Apis : api[a].gw = 0
    BY <2>1 DEF Idle
  <2> QED
    BY <2>1, <2>2, SmppAssumption DEF GwType
<1>3. /\ made = {} /\ seq = [c \in Chunks |-> 0] /\ attempts = [c \in Chunks |-> 0]
      /\ retryQueue = << >> /\ watched = {} /\ hand = [t \in Senders |-> None]
      /\ seqNo = [g \in Gws |-> 0] /\ submits = << >> /\ asked = {}
  BY DEF Init
<1>4. Cardinality(Messages) \in Nat /\ Cardinality(Chunks) \in Nat
  BY SmppAssumption, FS_CardinalityType
<1>5. MadeInv
  <2>1. 0 \in 0 .. MaxSeq
    BY <1>4, SmppAssumption DEF MaxSeq
  <2>2. \A c \in Chunks : ~InRetry(c) /\ ~InHand(c)
    BY <1>3, SmppAssumption DEF InRetry, InHand, Senders
  <2> QED
    BY <1>3, <2>1, <2>2 DEF MadeInv
<1>6. CountInv
  <2>1. Done = {} /\ Cardinality({}) = 0
    BY <1>3, FS_EmptySet DEF Done
  <2>2. SeqBound = MaxPing
    BY <1>3, <2>1, SmppAssumption DEF SeqBound
  <2> QED
    BY <1>3, <2>2, SmppAssumption DEF CountInv
<1>7. QueueType
  BY <1>3 DEF Init, QueueType
<1>8. NumberInv
  BY <1>3 DEF Init, NumberInv
<1>9. SentInv
  <2>1. Sent = << >>
    BY <1>3 DEF Sent
  <2> QED
    BY <1>3, <2>1, CountEmpty DEF SentInv
<1> QED
  BY <1>1, <1>2, <1>5, <1>6, <1>7, <1>8, <1>9 DEF TInv, ReplyInv

LEMMA NextTInv == TInv /\ [Next]_vars => TInv'
<1> SUFFICES ASSUME TInv, [Next]_vars PROVE TInv'
  OBVIOUS
<1>1. IInv'
  BY StepInv DEF TInv
<1> QED
  BY <1>1, GwStep, CountStep, MadeStep, ReplyStep DEF TInv

LEMMA TypesHold == Spec => []TInv
<1>1. Init => TInv
  BY InitTInv
<1>2. TInv /\ [Next]_vars => TInv'
  BY NextTInv
<1> QED
  BY <1>1, <1>2, PTL DEF Spec

(* No gateway counts further than its pings and refused binds, two numbers  *)
(* for each request and one for each chunk; every queue, field and          *)
(* submission keeps to its type, whatever the other side, the network and   *)
(* the retries do.                                                          *)
THEOREM TypeCorrect == Spec => []TypeOK
<1>1. TInv => TypeOK
  <2> SUFFICES ASSUME TInv PROVE TypeOK
    OBVIOUS
  <2>1. seqNo \in [Gws -> 0 .. MaxSeq]
    <3>1. seqNo \in [Gws -> Nat] /\ \A g \in Gws : seqNo[g] <= SeqBound
      BY DEF TInv, CountInv
    <3>2. SeqBound \in Nat /\ SeqBound <= MaxSeq
      BY BoundIs
    <3>3. MaxSeq \in Nat
      <4>1. Cardinality(Messages) \in Nat /\ Cardinality(Chunks) \in Nat
        BY SmppAssumption, FS_CardinalityType
      <4> QED
        BY <4>1, SmppAssumption DEF MaxSeq
    <3>4. \A g \in Gws : seqNo[g] \in 0 .. MaxSeq
      BY <3>1, <3>2, <3>3
    <3> QED
      BY <3>1, <3>4
  <2>2. api \in [Apis -> Requests] /\ \A a \in Apis : api[a].gw <= nGw
    BY DEF TInv, IInv, PlaceType, GwType
  <2>3. limiter \in Seq([c : Chunks, gw : 1 .. nGw])
    <3>1. limiter \in Seq([c : Chunks, gw : Gws]) /\ \A i \in 1 .. Len(limiter) : limiter[i].gw <= nGw
      BY DEF TInv, IInv, PlaceType, GwType
    <3>2. nGw \in Nat
      BY SmppAssumption DEF TInv, GwType
    <3> DEFINE S == [c : Chunks, gw : Gws]
               R == [c : Chunks, gw : 1 .. nGw]
    <3>3. \A x \in S : x.gw <= nGw => x \in R
      BY <3>2 DEF Gws
    <3>4. limiter \in Seq(S)
      BY <3>1
    <3> HIDE DEF S, R
    <3>5. \A i \in 1 .. Len(limiter) : limiter[i] \in R
      BY <3>1, <3>3, <3>4
    <3>6. limiter \in Seq(R)
      BY <3>4, <3>5
    <3> QED
      BY <3>6 DEF R
  <2>4. /\ cur \in 0 .. nGw /\ nGw \in 0 .. MaxGw /\ link \in [Gws -> {"new", "open", "closed"}]
        /\ timer \in [Gws -> BOOLEAN] /\ via \in [Senders -> 0 .. nGw]
        /\ \A t \in Senders : pc[t] = "idle" <=> via[t] = 0
    BY DEF TInv, GwType
  <2>5. /\ asked \subseteq Messages /\ retryQueue \in Seq(Chunks)
        /\ pc \in [Senders -> {"idle", "store", "fail", "watch"}]
        /\ hand \in [Senders -> Chunks \cup {None}]
        /\ \A t \in Senders : pc[t] = "idle" <=> hand[t] = None
        /\ retryNum \in [Chunks -> 0 .. NumRetries] /\ watched \subseteq Chunks
        /\ attempts \in [Chunks -> Nat]
    BY DEF TInv, IInv, PlaceType
  <2>6. /\ made \subseteq Chunks /\ seq \in [Chunks -> 0 .. MaxSeq]
        /\ \A c \in Chunks : c \in made <=> seq[c] # 0
    BY DEF TInv, MadeInv
  <2>7. /\ finished \in [Chunks -> BOOLEAN] /\ late \in [Chunks -> BOOLEAN]
        /\ pending \in [Seqs -> Chunks \cup {None}]
        /\ ack \in [1 .. MaxUid -> Chunks \cup {None}]
        /\ retryMsgs \subseteq Chunks /\ delivered \subseteq Chunks
    BY <2>6 DEF TInv, ReplyInv, QueueType
  <2> QED
    BY <2>1, <2>2, <2>3, <2>4, <2>5, <2>6, <2>7 DEF TypeOK
<1> QED
  BY <1>1, TypesHold, PTL

-----------------------------------------------------------------------------
(* While no two chunks share a number *)

(* No step makes a number distinct again: numbers of made chunks stay.      *)
LEMMA DistinctBefore ==
    ASSUME TInv, [Next]_vars, Distinct'
    PROVE  Distinct
<1>1. CASE SendFirst
  <2> DEFINE c == Head(limiter).c
  <2>1. made' = made \cup {c} /\ \E n : seq' = [seq EXCEPT ![c] = n]
    BY <1>1 DEF SendFirst
  <2>2. c \notin made /\ seq \in [Chunks -> 0 .. MaxSeq] /\ made \subseteq Chunks
    BY <1>1, FirstIs DEF TInv, MadeInv
  <2> HIDE DEF c
  <2>3. \A d \in made : d \in made' /\ seq'[d] = seq[d]
    BY <2>1, <2>2
  <2> QED
    BY <2>3 DEF Distinct
<1>2. CASE ~SendFirst
  <2>1. UNCHANGED <<made, seq>>
    <3>1. CASE SendAgain \/ (\E t \in Senders : Sender(t)) \/ (\E c \in Chunks : TimePasses(c) \/ Gc(c))
      BY <3>1 DEF SendAgain, Sender, StorePending, StoreRetry, EnqueueGc, TimePasses, Gc, Leave, GiveUp,
                  Retry, fieldVars
    <3>2. CASE ~(SendAgain \/ (\E t \in Senders : Sender(t)) \/ (\E c \in Chunks : TimePasses(c) \/ Gc(c)))
      BY <1>2, <3>2 DEF Next, SendRequest, ConnectBroken, BindFails, BindCloses,
             SendConnected, EnquiryFails, SendUnconnected, SendThrows, Offer, OnAccepted, OnDelivered,
                  OnUndelivered, OnGwReply, OnGwError, PingTimeout, Ping, vars, fieldVars
    <3> QED
      BY <3>1, <3>2
  <2> QED
    BY <2>1 DEF Distinct
<1> QED
  BY <1>1, <1>2

(* What a chunk's life is said of; a step that leaves it alone keeps it.    *)
LEMMA LifeKept ==
    ASSUME NEW c, Life(c), Pends(c)' <=> Pends(c), Acked(c)' = Acked(c),
           c \in retryMsgs' <=> c \in retryMsgs, InRetry(c)' <=> InRetry(c),
           Writing(c)' <=> Writing(c), Stored(c)' <=> Stored(c), InHand(c)' <=> InHand(c),
           c \in watched' <=> c \in watched, finished'[c] = finished[c], retryNum'[c] = retryNum[c],
           c \in delivered => c \in delivered'
    PROVE  Life(c)'
<1>1. Held(c)' <=> Held(c)
  BY DEF Held
<1> QED
  BY <1>1 DEF Life

(* Nothing holds or sends a chunk before it is made.                        *)
LEMMA UnmadeIs ==
    ASSUME TInv, NEW c \in Chunks, c \notin made
    PROVE  /\ \A s \in Seqs : pending[s] # c
           /\ \A u \in 1 .. MaxUid : ack[u] # c
           /\ c \notin retryMsgs /\ ~finished[c]
           /\ ~InRetry(c) /\ c \notin watched /\ ~InHand(c)
<1>1. c # None
  BY SmppAssumption
<1>2. c \notin retryMsgs /\ ~finished[c]
  BY DEF TInv, ReplyInv, QueueType, NumberInv
<1>3. ~InRetry(c) /\ c \notin watched /\ ~InHand(c)
  BY DEF TInv, MadeInv
<1>4. \A s \in Seqs : pending[s] # c
  BY <1>1 DEF TInv, ReplyInv, NumberInv
<1>5. \A u \in 1 .. MaxUid : ack[u] # c
  BY <1>1 DEF TInv, ReplyInv, NumberInv
<1> QED
  BY <1>2, <1>3, <1>4, <1>5

(* A sender's chunk is in no other place.                                   *)
LEMMA HandIs ==
    ASSUME TInv, NEW t \in Senders, pc[t] # "idle"
    PROVE  /\ hand[t] \in made /\ hand[t] \in Chunks /\ hand[t] # None
           /\ seq[hand[t]] \in Seqs /\ ~InRetry(hand[t]) /\ hand[t] \notin watched
           /\ \A s \in Senders : s # t => hand[s] # hand[t]
<1>1. hand[t] \in Chunks /\ hand[t] # None
  BY SmppAssumption DEF TInv, IInv, PlaceType
<1>2. InHand(hand[t]) /\ Placed(hand[t])
  BY <1>1 DEF TInv, IInv, PlaceInv, InHand, Senders
<1>3. hand[t] \in made
  BY <1>1, <1>2 DEF TInv, MadeInv
<1>4. seq[hand[t]] \in Seqs
  <2>1. seq[hand[t]] \in 0 .. MaxSeq /\ seq[hand[t]] # 0
    BY <1>1, <1>3 DEF TInv, MadeInv
  <2> QED
    BY <2>1 DEF Seqs
<1>5. ~InRetry(hand[t]) /\ hand[t] \notin watched
  BY <1>2 DEF Placed
<1>6. ~(hand["limiter"] = hand[t] /\ hand["retry"] = hand[t])
  BY <1>2 DEF Placed
<1>7. \A s \in Senders : s # t => hand[s] # hand[t]
  BY <1>6 DEF Senders
<1> QED
  BY <1>1, <1>3, <1>4, <1>5, <1>7

(* A chunk that is sent for the first time, or again.                       *)
LEMMA LifeTake ==
    ASSUME TInv, NEW t \in Senders, pc[t] = "idle", NEW c \in Chunks, NEW l \in {"store", "fail"},
           hand' = [hand EXCEPT ![t] = c], pc' = [pc EXCEPT ![t] = l]
    PROVE  /\ Writing(c)' /\ InHand(c)' /\ (Stored(c) \/ Stored(c)' => InHand(c))
           /\ \A d \in Chunks : d # c => /\ Writing(d)' <=> Writing(d)
                                         /\ Stored(d)' <=> Stored(d)
                                         /\ InHand(d)' <=> InHand(d)
<1>1. /\ hand \in [Senders -> Chunks \cup {None}] /\ hand[t] = None
      /\ pc \in [Senders -> {"idle", "store", "fail", "watch"}]
  BY DEF TInv, IInv, PlaceType
<1>2. \A s \in Senders : /\ hand'[s] = IF s = t THEN c ELSE hand[s]
                         /\ pc'[s] = IF s = t THEN l ELSE pc[s]
  BY <1>1
<1>3. Writing(c)'
  BY <1>2 DEF Writing
<1>4. InHand(c)'
  BY <1>2 DEF InHand, Senders
<1>5. Stored(c) \/ Stored(c)' => InHand(c)
  BY <1>2 DEF Stored, InHand, Senders
<1>6. ASSUME NEW d \in Chunks, d # c
      PROVE  (Writing(d)' <=> Writing(d)) /\ (Stored(d)' <=> Stored(d)) /\ (InHand(d)' <=> InHand(d))
  <2>1. d # None
    BY SmppAssumption
  <2>2. \A s \in Senders : (hand'[s] = d <=> hand[s] = d) /\ (hand[s] = d => pc'[s] = pc[s])
    BY <1>1, <1>2, <1>6, <2>1
  <2> QED
    BY <2>2 DEF Writing, Stored, InHand, Senders
<1> QED
  BY <1>3, <1>4, <1>5, <1>6

LEMMA LifeSendFirst ==
    ASSUME TInv, \A c \in made : Life(c), SendFirst
    PROVE  \A c \in made' : Life(c)'
<1>0. PICK c \in Chunks : c = Head(limiter).c
  BY FirstIs
<1> DEFINE n == seqNo[Head(limiter).gw] + 1
<1>1. /\ pc["limiter"] = "idle" /\ seq' = [seq EXCEPT ![c] = n] /\ made' = made \cup {c}
      /\ hand' = [hand EXCEPT !["limiter"] = c]
      /\ UNCHANGED <<pending, ack, retryMsgs, retryQueue, watched, finished, retryNum, delivered>>
  BY <1>0 DEF SendFirst, mapVars
<1>2. PICK l \in {"store", "fail"} : pc' = [pc EXCEPT !["limiter"] = l]
  BY DEF SendFirst, Written, WriteFails, NotConnected, Goto
<1>3. c \in Chunks /\ c \notin made
  BY <1>0, FirstIs
<1>4. n \in Seqs
  BY CountSendFirst
<1> HIDE DEF n
<1>5. /\ Writing(c)' /\ InHand(c)' /\ (Stored(c) \/ Stored(c)' => InHand(c))
      /\ \A d \in Chunks : d # c => /\ Writing(d)' <=> Writing(d)
                                    /\ Stored(d)' <=> Stored(d)
                                    /\ InHand(d)' <=> InHand(d)
  BY <1>1, <1>2, <1>3, LifeTake DEF Senders
<1>6. seq \in [Chunks -> 0 .. MaxSeq] /\ made \subseteq Chunks
  BY DEF TInv, MadeInv
<1>7. \A d : (InRetry(d)' <=> InRetry(d)) /\ Acked(d)' = Acked(d)
  BY <1>1 DEF InRetry, Acked
<1>8. Life(c)'
  <2>1. /\ \A s \in Seqs : pending[s] # c
        /\ \A u \in 1 .. MaxUid : ack[u] # c
        /\ c \notin retryMsgs /\ ~finished[c]
        /\ ~InRetry(c) /\ c \notin watched /\ ~InHand(c)
    BY <1>3, UnmadeIs
  <2>2. seq'[c] = n
    BY <1>1, <1>3, <1>6
  <2>3. ~Pends(c)'
    BY <1>1, <1>4, <2>1, <2>2 DEF Pends
  <2>4. Acked(c)' = {}
    BY <1>1, <2>1 DEF Acked
  <2>5. ~Held(c)'
    BY <1>1, <2>1, <2>3, <2>4 DEF Held
  <2>6. ~Stored(c)' /\ c \notin watched' /\ ~finished'[c] /\ c \notin retryMsgs'
    BY <1>1, <1>5, <2>1
  <2> QED
    BY <1>5, <2>3, <2>4, <2>5, <2>6 DEF Life
<1>9. ASSUME NEW d \in made PROVE Life(d)'
  <2>1. d # c /\ d \in Chunks /\ seq'[d] = seq[d]
    BY <1>1, <1>3, <1>6
  <2>2. Pends(d)' <=> Pends(d)
    BY <1>1, <2>1 DEF Pends
  <2> QED
    BY <1>1, <1>5, <1>7, <2>1, <2>2, LifeKept
<1> QED
  BY <1>1, <1>8, <1>9

LEMMA LifeSendAgain ==
    ASSUME TInv, \A c \in made : Life(c), SendAgain
    PROVE  \A c \in made' : Life(c)'
<1>0. PICK c : c = Head(retryQueue)
  OBVIOUS
<1>1. /\ pc["retry"] = "idle" /\ retryQueue # << >> /\ retryQueue' = Tail(retryQueue)
      /\ hand' = [hand EXCEPT !["retry"] = c]
      /\ UNCHANGED <<pending, ack, retryMsgs, watched, made, seq, finished, retryNum, delivered>>
  BY <1>0 DEF SendAgain, mapVars, fieldVars
<1>2. PICK l \in {"store", "fail"} : pc' = [pc EXCEPT !["retry"] = l]
  BY DEF SendAgain, Written, WriteFails, NotConnected, Goto
<1>3. c \in made /\ c \in Chunks /\ InRetry(c)
  BY <1>0, MadeSendAgain DEF TInv, MadeInv
<1>4. \A d : (InRetry(d)' => InRetry(d)) /\ (d # c /\ InRetry(d) => InRetry(d)')
  <2>1. /\ c = retryQueue[1] /\ Len(retryQueue) \in Nat \ {0} /\ Len(Tail(retryQueue)) = Len(retryQueue) - 1
        /\ \A i \in 1 .. Len(Tail(retryQueue)) :
              i + 1 \in 1 .. Len(retryQueue) /\ i + 1 # 1 /\ Tail(retryQueue)[i] = retryQueue[i + 1]
    BY <1>0, <1>1, TailOf DEF TInv, IInv, PlaceType
  <2>2. ASSUME NEW d, InRetry(d)' PROVE InRetry(d)
    BY <1>1, <2>1, <2>2 DEF InRetry
  <2>3. ASSUME NEW d, d # c, InRetry(d) PROVE InRetry(d)'
    <3>1. PICK i \in 1 .. Len(retryQueue) : retryQueue[i] = d
      BY <2>3 DEF InRetry
    <3>2. i # 1
      BY <2>1, <2>3, <3>1
    <3>3. i - 1 \in 1 .. Len(Tail(retryQueue)) /\ (i - 1) + 1 = i
      BY <2>1, <3>1, <3>2
    <3>4. Tail(retryQueue)[i - 1] = d
      BY <2>1, <3>1, <3>3
    <3> QED
      BY <1>1, <3>3, <3>4 DEF InRetry
  <2> QED
    BY <2>2, <2>3
<1>5. /\ Writing(c)' /\ InHand(c)' /\ (Stored(c) \/ Stored(c)' => InHand(c))
      /\ \A d \in Chunks : d # c => /\ Writing(d)' <=> Writing(d)
                                    /\ Stored(d)' <=> Stored(d)
                                    /\ InHand(d)' <=> InHand(d)
  BY <1>1, <1>2, <1>3, LifeTake DEF Senders
<1>6. \A d : (Pends(d)' <=> Pends(d)) /\ Acked(d)' = Acked(d) /\ (Held(d)' <=> Held(d))
  BY <1>1 DEF Pends, Acked, Held
<1>7. Life(c)'
  <2>1. Life(c) /\ ~Held(c) /\ ~finished[c]
    BY <1>3 DEF Life
  <2>2. c \notin watched /\ ~InHand(c)
    BY <1>3 DEF TInv, IInv, PlaceInv, Placed
  <2>3. ~Held(c)' /\ ~finished'[c] /\ c \notin watched' /\ ~Stored(c)'
    BY <1>1, <1>5, <1>6, <2>1, <2>2
  <2>4. ~Pends(c)' /\ Acked(c)' = {} /\ c \notin retryMsgs'
    BY <2>3 DEF Held
  <2> QED
    BY <1>5, <2>3, <2>4 DEF Life
<1>8. ASSUME NEW d \in made, d # c PROVE Life(d)'
  <2>1. d \in Chunks
    BY DEF TInv, MadeInv
  <2> QED
    BY <1>1, <1>4, <1>5, <1>6, <1>8, <2>1, LifeKept
<1> QED
  BY <1>1, <1>7, <1>8

(* A number is then as good as the chunk.                                   *)
LEMMA NumberIsChunk ==
    ASSUME TInv, Distinct, NEW c \in made
    PROVE  /\ c \in Chunks /\ c # None /\ seq[c] \in Seqs
           /\ pending[seq[c]] \in {None, c}
           /\ \A d \in made : d # c => seq[d] # seq[c]
           /\ SameNumber(c) = Acked(c)
<1>1. c \in Chunks /\ c # None /\ seq[c] \in 0 .. MaxSeq /\ seq[c] # 0
  BY SmppAssumption DEF TInv, MadeInv
<1>2. seq[c] \in Seqs
  BY <1>1 DEF Seqs
<1>3. \A d \in made : d # c => seq[d] # seq[c]
  BY DEF Distinct
<1>4. pending[seq[c]] \in {None, c}
  BY <1>2, <1>3 DEF TInv, ReplyInv, NumberInv
<1>5. SameNumber(c) = Acked(c)
  <2>1. DOMAIN ack = 1 .. MaxUid
    BY DEF TInv, ReplyInv, QueueType
  <2>2. \A u \in 1 .. MaxUid : ack[u] # None => ack[u] \in made
    BY DEF TInv, ReplyInv, NumberInv
  <2> QED
    BY <1>1, <1>3, <2>1, <2>2 DEF SameNumber, Acked
<1> QED
  BY <1>1, <1>2, <1>3, <1>4, <1>5

(* A sender is done with the queues: its chunk was written or not.          *)
LEMMA HandStored ==
    ASSUME TInv, NEW t \in Senders, pc[t] \in {"store", "fail"}, NEW c, c = hand[t],
           pc' = [pc EXCEPT ![t] = "watch"], UNCHANGED hand
    PROVE  /\ Writing(c) /\ Stored(c)' /\ ~Writing(c)' /\ InHand(c)'
           /\ \A d : d # c => /\ Writing(d)' <=> Writing(d)
                              /\ Stored(d)' <=> Stored(d)
                              /\ InHand(d)' <=> InHand(d)
<1>1. \A s \in Senders : s # t => hand[s] # c
  BY HandIs
<1>2. \A s \in Senders : pc'[s] = IF s = t THEN "watch" ELSE pc[s]
  BY DEF TInv, IInv, PlaceType
<1>3. Writing(c) /\ Stored(c)' /\ ~Writing(c)'
  BY <1>1, <1>2 DEF Writing, Stored
<1>4. InHand(c)'
  BY DEF InHand, Senders
<1>5. ASSUME NEW d, d # c
      PROVE  (Writing(d)' <=> Writing(d)) /\ (Stored(d)' <=> Stored(d)) /\ (InHand(d)' <=> InHand(d))
  <2>1. \A s \in Senders : hand[s] = d => pc'[s] = pc[s]
    BY <1>2, <1>5
  <2> QED
    BY <2>1 DEF Writing, Stored, InHand
<1> QED
  BY <1>3, <1>4, <1>5

LEMMA LifeStore ==
    ASSUME TInv, Distinct, \A c \in made : Life(c), NEW t \in Senders, StorePending(t) \/ StoreRetry(t)
    PROVE  \A c \in made' : Life(c)'
<1>0. PICK c : c = hand[t]
  OBVIOUS
<1>1. /\ pc[t] \in {"store", "fail"} /\ pc' = [pc EXCEPT ![t] = "watch"]
      /\ UNCHANGED <<hand, ack, watched, retryQueue, made, seq, finished, retryNum, delivered>>
  BY DEF StorePending, StoreRetry, Goto, fieldVars, history
<1>2. \/ /\ pending' = [pending EXCEPT ![seq[c]] = IF @ = None THEN c ELSE @]
         /\ UNCHANGED retryMsgs
      \/ retryMsgs' = retryMsgs \cup {c} /\ UNCHANGED pending
  BY <1>0 DEF StorePending, StoreRetry
<1>3. c \in made /\ c \notin watched /\ ~InRetry(c)
  BY <1>0, <1>1, HandIs
<1>4. /\ c \in Chunks /\ c # None /\ seq[c] \in Seqs /\ pending[seq[c]] \in {None, c}
      /\ \A d \in made : d # c => seq[d] # seq[c]
  BY <1>3, NumberIsChunk
<1>5. /\ Writing(c) /\ Stored(c)' /\ ~Writing(c)' /\ InHand(c)'
      /\ \A d : d # c => /\ Writing(d)' <=> Writing(d)
                         /\ Stored(d)' <=> Stored(d)
                         /\ InHand(d)' <=> InHand(d)
  BY <1>0, <1>1, HandStored
<1>6. \A d : Acked(d)' = Acked(d) /\ (InRetry(d)' <=> InRetry(d))
  BY <1>1 DEF Acked, InRetry
<1>7. pending \in [Seqs -> Chunks \cup {None}]
  BY DEF TInv, ReplyInv, QueueType
<1>8. ~Pends(c) /\ Acked(c) = {} /\ c \notin retryMsgs /\ ~finished[c]
  <2>1. Life(c)
    BY <1>3
  <2>2. ~Held(c) /\ ~finished[c]
    BY <1>5, <2>1 DEF Life
  <2> QED
    BY <2>2 DEF Held
<1>9. (Pends(c)' /\ c \notin retryMsgs') \/ (~Pends(c)' /\ c \in retryMsgs')
  <2>1. CASE retryMsgs' = retryMsgs \cup {c} /\ UNCHANGED pending
    BY <1>1, <1>8, <2>1 DEF Pends
  <2>2. CASE pending' = [pending EXCEPT ![seq[c]] = IF @ = None THEN c ELSE @] /\ UNCHANGED retryMsgs
    <3>1. pending'[seq[c]] = c
      BY <1>4, <1>7, <1>8, <2>2 DEF Pends
    <3> QED
      BY <1>1, <1>8, <2>2, <3>1 DEF Pends
  <2> QED
    BY <1>2, <2>1, <2>2
<1>10. Life(c)'
  <2>1. Held(c)'
    BY <1>9 DEF Held
  <2>2. ~finished'[c] /\ Acked(c)' = {} /\ ~InRetry(c)'
    BY <1>1, <1>3, <1>6, <1>8
  <2> QED
    BY <1>5, <1>9, <2>1, <2>2 DEF Life
<1>11. ASSUME NEW d \in made, d # c PROVE Life(d)'
  <2>0. seq[d] \in Seqs /\ seq[d] # seq[c]
    BY <1>4, <1>11, NumberIsChunk
  <2>1. Pends(d)' <=> Pends(d)
    <3>1. pending'[seq[d]] = pending[seq[d]]
      BY <1>2, <1>7, <2>0
    <3> QED
      BY <1>1, <3>1 DEF Pends
  <2>2. d \in retryMsgs' <=> d \in retryMsgs
    BY <1>2, <1>11
  <2> QED
    BY <1>1, <1>5, <1>6, <1>11, <2>1, <2>2, LifeKept
<1> QED
  BY <1>1, <1>10, <1>11

LEMMA LifeEnqueueGc ==
    ASSUME TInv, \A c \in made : Life(c), NEW t \in Senders, EnqueueGc(t)
    PROVE  \A c \in made' : Life(c)'
<1>0. PICK c : c = hand[t]
  OBVIOUS
<1>1. /\ pc[t] = "watch" /\ watched' = watched \cup {c}
      /\ hand' = [hand EXCEPT ![t] = None] /\ pc' = [pc EXCEPT ![t] = "idle"]
      /\ UNCHANGED <<pending, ack, retryMsgs, retryQueue, made, seq, finished, retryNum, delivered>>
  BY <1>0 DEF EnqueueGc, Goto, fieldVars, history, mapVars
<1>2. /\ c \in made /\ c \in Chunks /\ c # None /\ c \notin watched /\ ~InRetry(c)
      /\ \A s \in Senders : s # t => hand[s] # c
  BY <1>0, <1>1, HandIs
<1>3. \A s \in Senders : /\ hand'[s] = IF s = t THEN None ELSE hand[s]
                         /\ pc'[s] = IF s = t THEN "idle" ELSE pc[s]
  BY <1>1 DEF TInv, IInv, PlaceType
<1>4. \A d : /\ (Pends(d)' <=> Pends(d)) /\ Acked(d)' = Acked(d) /\ (Held(d)' <=> Held(d))
             /\ (InRetry(d)' <=> InRetry(d))
  BY <1>1 DEF Pends, Acked, Held, InRetry
<1>5. Stored(c)
  BY <1>0, <1>1 DEF Stored
<1>6. \A s \in Senders : hand'[s] # c
  BY <1>2, <1>3
<1>7. ~Writing(c)' /\ ~Stored(c)' /\ ~InHand(c)'
  BY <1>6 DEF Writing, Stored, InHand, Senders
<1>8. Life(c)'
  <2>1. Life(c)
    BY <1>2
  <2>2. /\ ~finished[c] => Held(c)
        /\ finished[c] => ~Held(c) /\ c \in delivered
    BY <1>5, <2>1 DEF Life
  <2>3. c \in watched' /\ ~InRetry(c)'
    BY <1>1, <1>2, <1>4
  <2>4. /\ Pends(c)' => Acked(c)' = {} /\ c \notin retryMsgs'
        /\ c \in retryMsgs' => Acked(c)' = {}
        /\ \A u, v \in Acked(c)' : u = v
    BY <1>1, <1>4, <2>1 DEF Life
  <2>5. finished'[c] = finished[c] /\ delivered' = delivered
    BY <1>1
  <2> QED
    BY <1>4, <1>7, <2>2, <2>3, <2>4, <2>5 DEF Life
<1>9. ASSUME NEW d \in made, d # c PROVE Life(d)'
  <2>1. d # None
    BY SmppAssumption DEF TInv, MadeInv
  <2>2. \A s \in Senders : (hand'[s] = d <=> hand[s] = d) /\ (hand[s] = d => pc'[s] = pc[s])
    BY <1>0, <1>3, <1>9, <2>1
  <2>3. (Writing(d)' <=> Writing(d)) /\ (Stored(d)' <=> Stored(d)) /\ (InHand(d)' <=> InHand(d))
    BY <2>2 DEF Writing, Stored, InHand, Senders
  <2> QED
    BY <1>1, <1>4, <1>9, <2>3, LifeKept
<1> QED
  BY <1>1, <1>8, <1>9

(* Gc lets go of a chunk: it leaves fdQueueGC, and clean removes it from    *)
(* the queues that hold it, unless it is finished or its object is gone.    *)
LEMMA LifeUnwatch ==
    ASSUME TInv, Distinct, \A d \in made : Life(d), NEW c \in made, c \in watched, Gc(c),
           NEW d \in made, d # c
    PROVE  Life(d)'
<1>1. /\ UNCHANGED <<made, seq, hand, pc, finished, delivered>> /\ watched' = watched \ {c}
      /\ retryQueue' = retryQueue \/ retryQueue' = Append(retryQueue, c)
      /\ retryNum' = retryNum \/ retryNum' = [retryNum EXCEPT ![c] = @ + 1]
      /\ UNCHANGED <<pending, ack, retryMsgs>> \/ Clean(c)
  BY DEF Gc, Leave, GiveUp, Retry, jobVars, fieldVars, history, mapVars
<1>2. seq[d] \in Seqs /\ seq[d] # seq[c] /\ SameNumber(c) = Acked(c) /\ c \in Chunks /\ d \in Chunks /\ d # None
  BY NumberIsChunk
<1>3. (Writing(d)' <=> Writing(d)) /\ (Stored(d)' <=> Stored(d)) /\ (InHand(d)' <=> InHand(d))
  BY <1>1 DEF Writing, Stored, InHand
<1>4. InRetry(d)' <=> InRetry(d)
  <2>1. retryQueue \in Seq(Chunks)
    BY DEF TInv, IInv, PlaceType
  <2>2. CASE retryQueue' = retryQueue
    BY <2>2 DEF InRetry
  <2>3. CASE retryQueue' = Append(retryQueue, c)
    BY <1>2, <2>1, <2>3 DEF InRetry
  <2> QED
    BY <1>1, <2>2, <2>3
<1>5. retryNum'[d] = retryNum[d]
  BY <1>1, <1>2 DEF TInv, IInv, PlaceType
<1>6. (Pends(d)' <=> Pends(d)) /\ Acked(d)' = Acked(d) /\ (d \in retryMsgs' <=> d \in retryMsgs)
  <2>1. CASE UNCHANGED <<pending, ack, retryMsgs>>
    BY <1>1, <2>1 DEF Pends, Acked
  <2>2. CASE Clean(c)
    <3>1. /\ retryMsgs' = retryMsgs \ {c}
          /\ \A s \in Seqs : pending'[s] = IF s = seq[c] THEN None ELSE pending[s]
          /\ \A u \in 1 .. MaxUid : ack'[u] = ack[u] \/ (u \in SameNumber(c) /\ ack'[u] = None)
      BY <1>2, <2>2, Cleaned
    <3>2. Pends(d)' <=> Pends(d)
      BY <1>1, <1>2, <3>1 DEF Pends
    <3>3. \A u \in 1 .. MaxUid : ack'[u] = d <=> ack[u] = d
      BY <1>2, <3>1 DEF Acked
    <3>4. Acked(d)' = Acked(d)
      BY <3>3 DEF Acked
    <3> QED
      BY <3>1, <3>2, <3>4
  <2> QED
    BY <1>1, <2>1, <2>2
<1>7. (d \in watched' <=> d \in watched) /\ finished'[d] = finished[d] /\ (d \in delivered => d \in delivered')
  BY <1>1
<1> QED
  BY <1>3, <1>4, <1>5, <1>6, <1>7, LifeKept

(* After clean nothing holds the chunk.                                     *)
LEMMA CleanLetsGo ==
    ASSUME TInv, Distinct, NEW c \in made, Life(c), Clean(c), UNCHANGED seq
    PROVE  ~Pends(c)' /\ Acked(c)' = {} /\ c \notin retryMsgs' /\ ~Held(c)'
<1>1. c \in Chunks /\ c # None /\ seq[c] \in Seqs /\ SameNumber(c) = Acked(c)
  BY NumberIsChunk
<1>2. /\ retryMsgs' = retryMsgs \ {c}
      /\ \A s \in Seqs : pending'[s] = IF s = seq[c] THEN None ELSE pending[s]
      /\ \A u \in 1 .. MaxUid : ack'[u] = ack[u] \/ (u \in SameNumber(c) /\ ack'[u] = None)
      /\ SameNumber(c) # {} => \E u \in SameNumber(c) : ack'[u] = None
  BY <1>1, Cleaned
<1>3. ~Pends(c)'
  BY <1>1, <1>2 DEF Pends
<1>4. Acked(c)' = {}
  <2>1. \A u, v \in Acked(c) : u = v
    BY DEF Life
  <2>2. \A u \in Acked(c) : ack'[u] = None
    BY <1>1, <1>2, <2>1
  <2>3. \A u \in 1 .. MaxUid : u \notin Acked(c) => ack[u] # c
    BY DEF Acked
  <2>4. \A u \in 1 .. MaxUid : ack'[u] # c
    BY <1>1, <1>2, <2>2, <2>3
  <2> QED
    BY <2>4 DEF Acked
<1> QED
  BY <1>2, <1>3, <1>4 DEF Held

LEMMA LifeGc ==
    ASSUME TInv, Distinct, \A d \in made : Life(d), NEW c \in Chunks, Gc(c)
    PROVE  \A d \in made' : Life(d)'
<1>1. /\ c \in watched /\ watched' = watched \ {c}
      /\ UNCHANGED <<made, seq, hand, pc, finished, delivered>>
  BY DEF Gc, Leave, GiveUp, Retry, jobVars, fieldVars, history
<1>2. c \in made /\ ~InRetry(c) /\ ~InHand(c)
  BY <1>1 DEF TInv, MadeInv, IInv, PlaceInv, Placed
<1>3. Life(c) /\ seq[c] \in Seqs /\ c # None
  BY <1>2, NumberIsChunk
<1>4. ~InHand(c)' /\ ~Writing(c)' /\ ~Stored(c)'
  <2>1. \A t \in Senders : hand'[t] # c
    BY <1>1, <1>2 DEF InHand, Senders
  <2> QED
    BY <2>1 DEF InHand, Writing, Stored, Senders
<1>5. CASE Leave(c)
  <2>1. UNCHANGED <<pending, ack, retryMsgs, retryQueue, retryNum>> /\ (~Tracked(c) \/ finished[c])
    BY <1>5 DEF Leave, mapVars, jobVars, fieldVars
  <2>2. (Pends(c)' <=> Pends(c)) /\ Acked(c)' = Acked(c) /\ (Held(c)' <=> Held(c)) /\ ~InRetry(c)'
    BY <1>1, <1>2, <2>1 DEF Pends, Acked, Held, InRetry
  <2>3. Held(c) => Tracked(c)
    <3>1. DOMAIN ack = 1 .. MaxUid
      BY DEF TInv, ReplyInv, QueueType
    <3> QED
      BY <1>3, <3>1 DEF Held, Pends, Acked, Tracked, Queued
  <2>4. finished[c] /\ ~Held(c) /\ c \in delivered
    BY <1>1, <1>3, <2>1, <2>3 DEF Life
  <2>5. ~Held(c)' /\ finished'[c] /\ c \in delivered'
    BY <1>1, <2>2, <2>4
  <2>6. ~Pends(c)' /\ Acked(c)' = {} /\ c \notin retryMsgs'
    BY <2>5 DEF Held
  <2>7. Life(c)'
    BY <1>4, <2>2, <2>5, <2>6 DEF Life
  <2> QED
    BY <1>1, <1>2, <2>7, LifeUnwatch
<1>6. CASE GiveUp(c)
  <2>1. /\ Clean(c) /\ ~finished[c] /\ retryNum[c] + 1 > NumRetries
        /\ UNCHANGED <<retryQueue, retryNum>>
    BY <1>6 DEF GiveUp, jobVars, fieldVars
  <2>2. ~Pends(c)' /\ Acked(c)' = {} /\ c \notin retryMsgs' /\ ~Held(c)'
    BY <1>1, <1>2, <1>3, <2>1, CleanLetsGo
  <2>3. retryNum'[c] = NumRetries
    BY <2>1, SmppAssumption DEF TInv, IInv, PlaceType
  <2>4. ~InRetry(c)' /\ ~finished'[c] /\ c \notin watched'
    BY <1>1, <1>2, <2>1 DEF InRetry
  <2>5. Life(c)'
    BY <1>4, <2>2, <2>3, <2>4 DEF Life
  <2> QED
    BY <1>1, <1>2, <2>5, LifeUnwatch
<1>7. CASE Retry(c)
  <2>1. Clean(c) /\ ~finished[c] /\ retryQueue' = Append(retryQueue, c)
    BY <1>7 DEF Retry
  <2>2. ~Pends(c)' /\ Acked(c)' = {} /\ c \notin retryMsgs' /\ ~Held(c)'
    BY <1>1, <1>2, <1>3, <2>1, CleanLetsGo
  <2>3. InRetry(c)'
    <3>1. retryQueue \in Seq(Chunks)
      BY DEF TInv, IInv, PlaceType
    <3>2. Len(retryQueue') = Len(retryQueue) + 1 /\ retryQueue'[Len(retryQueue) + 1] = c /\ Len(retryQueue) \in Nat
      BY <2>1, <3>1
    <3>3. Len(retryQueue) + 1 \in 1 .. Len(retryQueue')
      BY <3>2
    <3> QED
      BY <3>2, <3>3 DEF InRetry
  <2>4. ~finished'[c] /\ c \notin watched'
    BY <1>1, <2>1
  <2>5. Life(c)'
    BY <1>4, <2>2, <2>3, <2>4 DEF Life
  <2> QED
    BY <1>1, <1>2, <2>5, LifeUnwatch
<1> QED
  BY <1>5, <1>6, <1>7 DEF Gc

-----------------------------------------------------------------------------
(* An answer moves at most one chunk, c, and touches no job.                *)
LEMMA LifeAnswer ==
    ASSUME TInv, \A d \in made : Life(d), UNCHANGED <<made, seq, watched, retryQueue, hand, pc, retryNum>>,
           delivered \subseteq delivered', NEW c,
           c \in made => Life(c)',
           \A d \in made : d # c => /\ Pends(d)' <=> Pends(d)
                                    /\ Acked(d)' = Acked(d)
                                    /\ d \in retryMsgs' <=> d \in retryMsgs
                                    /\ finished'[d] = finished[d]
    PROVE  \A d \in made' : Life(d)'
<1>1. \A d : /\ (InRetry(d)' <=> InRetry(d)) /\ (Writing(d)' <=> Writing(d))
             /\ (Stored(d)' <=> Stored(d)) /\ (InHand(d)' <=> InHand(d))
  BY DEF InRetry, Writing, Stored, InHand
<1>2. ASSUME NEW d \in made, d # c PROVE Life(d)'
  BY <1>1, <1>2, LifeKept
<1> QED
  BY <1>2

LEMMA LifeOnAccepted ==
    ASSUME TInv, Distinct, \A d \in made : Life(d), NEW u \in 1 .. Len(submits), OnAccepted(u)
    PROVE  \A d \in made' : Life(d)'
<1>0. PICK c, s : s = submits[u].seq /\ c = pending[s]
  OBVIOUS
<1>1. UNCHANGED <<made, seq, watched, retryQueue, hand, pc, retryNum, finished, retryMsgs, delivered>>
  BY DEF OnAccepted, OnGwReply, jobVars
<1>2. /\ s \in Seqs /\ u \in 1 .. MaxUid /\ ack[u] = None
      /\ \A r \in Seqs : pending'[r] = IF r = s THEN None ELSE pending[r]
      /\ \A v \in 1 .. MaxUid : ack'[v] = IF v = u THEN c ELSE ack[v]
  BY <1>0, Accepted
<1>3. c # None => c \in made /\ seq[c] = s
  BY <1>0, <1>2 DEF TInv, ReplyInv, NumberInv
<1>4. ASSUME NEW d \in made, d # c
      PROVE  (Pends(d)' <=> Pends(d)) /\ Acked(d)' = Acked(d)
  <2>1. d # None /\ seq[d] \in Seqs
    BY NumberIsChunk
  <2>2. \A v \in 1 .. MaxUid : ack'[v] = d <=> ack[v] = d
    BY <1>2, <1>4, <2>1
  <2>3. pending'[seq[d]] = d <=> pending[seq[d]] = d
    BY <1>0, <1>2, <1>4, <2>1
  <2> QED
    BY <1>1, <2>2, <2>3 DEF Pends, Acked
<1>5. CASE c \notin made
  BY <1>1, <1>4, <1>5, LifeAnswer
<1>6. CASE c \in made
  <2>1. c # None /\ c \in Chunks /\ seq[c] = s
    BY <1>3, <1>6, NumberIsChunk
  <2>2. Pends(c) /\ Life(c)
    BY <1>0, <1>6, <2>1 DEF Pends
  <2>3. Acked(c) = {} /\ c \notin retryMsgs /\ Held(c)
    BY <2>2 DEF Life, Held
  <2>4. ~InRetry(c) /\ ~Writing(c) /\ ~finished[c]
    BY <2>2, <2>3 DEF Life
  <2>5. c \in watched \/ InHand(c)
    BY <2>2, <2>3, <2>4 DEF Life
  <2>6. Acked(c)' = {u}
    <3>1. \A v \in 1 .. MaxUid : ack[v] # c
      BY <2>3 DEF Acked
    <3> QED
      BY <1>2, <3>1 DEF Acked
  <2>7. ~Pends(c)'
    BY <1>1, <1>2, <2>1 DEF Pends
  <2>8. Held(c)'
    BY <2>6 DEF Held
  <2>9. /\ ~InRetry(c)' /\ ~Writing(c)' /\ ~finished'[c] /\ c \notin retryMsgs'
        /\ c \in watched' \/ InHand(c)'
    BY <1>1, <2>3, <2>4, <2>5 DEF InRetry, Writing, InHand
  <2>10. Life(c)'
    BY <2>6, <2>7, <2>8, <2>9 DEF Life
  <2> QED
    BY <1>1, <1>4, <2>10, LifeAnswer
<1> QED
  BY <1>5, <1>6

LEMMA LifeOnReport ==
    ASSUME TInv, Distinct, \A d \in made : Life(d), NEW u \in 1 .. Len(submits), NEW g,
           OnDelivered(u, g) \/ OnUndelivered(u, g)
    PROVE  \A d \in made' : Life(d)'
<1>0. PICK c : c = ack[u]
  OBVIOUS
<1>1. UNCHANGED <<made, seq, watched, retryQueue, hand, pc, retryNum, pending>>
  BY DEF OnDelivered, OnUndelivered, OnGwReply, jobVars
<1>2. /\ u \in 1 .. MaxUid /\ c \in Chunks \cup {None} /\ (c # None => c \in made)
      /\ \A v \in 1 .. MaxUid : ack'[v] = IF v = u THEN None ELSE ack[v]
  BY <1>0, Reported
<1>3. \/ /\ c # None => finished' = [finished EXCEPT ![c] = TRUE]
         /\ c = None => finished' = finished
         /\ delivered' = delivered \cup {submits[u].c} /\ UNCHANGED retryMsgs
      \/ /\ c # None => retryMsgs' = retryMsgs \cup {c}
         /\ c = None => retryMsgs' = retryMsgs
         /\ UNCHANGED <<finished, delivered>>
  BY <1>0 DEF OnDelivered, OnUndelivered
<1>4. /\ finished \in [Chunks -> BOOLEAN] /\ made \subseteq Chunks
  BY DEF TInv, ReplyInv, QueueType, MadeInv
<1>5. ASSUME NEW d \in made, d # c
      PROVE  /\ (Pends(d)' <=> Pends(d)) /\ Acked(d)' = Acked(d)
             /\ (d \in retryMsgs' <=> d \in retryMsgs) /\ finished'[d] = finished[d]
  <2>1. d # None
    BY NumberIsChunk
  <2>2. \A v \in 1 .. MaxUid : ack'[v] = d <=> ack[v] = d
    BY <1>0, <1>2, <1>5, <2>1
  <2>3. (d \in retryMsgs' <=> d \in retryMsgs) /\ finished'[d] = finished[d]
    BY <1>3, <1>4, <1>5
  <2> QED
    BY <1>1, <2>2, <2>3 DEF Pends, Acked
<1>6. delivered \subseteq delivered'
  BY <1>3
<1>7. CASE c \notin made
  BY <1>1, <1>5, <1>6, <1>7, LifeAnswer
<1>8. CASE c \in made
  <2>1. c # None /\ c \in Chunks
    BY <1>8, NumberIsChunk
  <2>2. Life(c) /\ u \in Acked(c)
    BY <1>0, <1>2, <1>8 DEF Acked
  <2>3. ~Pends(c) /\ c \notin retryMsgs /\ Held(c)
    BY <2>2 DEF Life, Held
  <2>4. ~InRetry(c) /\ ~Writing(c) /\ ~finished[c] /\ (c \in watched \/ InHand(c))
    BY <2>2, <2>3 DEF Life
  <2>5. Acked(c)' = {}
    <3>1. \A v \in 1 .. MaxUid : ack[v] = c => v = u
      BY <2>2 DEF Life, Acked
    <3>2. \A v \in 1 .. MaxUid : ack'[v] # c
      BY <1>2, <2>1, <3>1
    <3> QED
      BY <3>2 DEF Acked
  <2>6. /\ ~InRetry(c)' /\ ~Writing(c)' /\ (c \in watched' \/ InHand(c)') /\ ~Pends(c)'
    BY <1>1, <2>3, <2>4 DEF InRetry, Writing, InHand, Pends
  <2>7. submits[u].c = c
    <3>1. submits[u].c \in made /\ submits[u].seq = seq[submits[u].c] /\ submits[u].seq = seq[c]
      BY <1>0, <1>2, <2>1 DEF TInv, ReplyInv, NumberInv
    <3> QED
      BY <1>8, <3>1 DEF Distinct
  <2>8. Life(c)'
    <3>1. CASE /\ finished' = [finished EXCEPT ![c] = TRUE]
               /\ delivered' = delivered \cup {submits[u].c} /\ UNCHANGED retryMsgs
      <4>1. finished'[c] /\ c \in delivered' /\ c \notin retryMsgs'
        BY <1>4, <2>1, <2>3, <2>7, <3>1
      <4>2. ~Held(c)'
        BY <2>5, <2>6, <4>1 DEF Held
      <4> QED
        BY <2>5, <2>6, <4>1, <4>2 DEF Life
    <3>2. CASE retryMsgs' = retryMsgs \cup {c} /\ UNCHANGED <<finished, delivered>>
      <4>1. c \in retryMsgs' /\ ~finished'[c]
        BY <2>4, <3>2
      <4>2. Held(c)'
        BY <4>1 DEF Held
      <4> QED
        BY <2>5, <2>6, <4>1, <4>2 DEF Life
    <3> QED
      BY <1>3, <2>1, <3>1, <3>2
  <2> QED
    BY <1>1, <1>5, <1>6, <2>8, LifeAnswer
<1> QED
  BY <1>7, <1>8

-----------------------------------------------------------------------------
LEMMA LifeStep ==
    ASSUME TInv, LifeInv, [Next]_vars
    PROVE  LifeInv'
<1> SUFFICES ASSUME Distinct' PROVE \A c \in made' : Life(c)'
  BY DEF LifeInv
<1>1. Distinct
  BY DistinctBefore
<1>2. \A c \in made : Life(c)
  BY <1>1 DEF LifeInv
<1>3. CASE SendFirst \/ SendAgain
  BY <1>2, <1>3, LifeSendFirst, LifeSendAgain
<1>4. CASE \E t \in Senders : Sender(t)
  BY <1>1, <1>2, <1>4, LifeStore, LifeEnqueueGc DEF Sender
<1>5. CASE \E c \in Chunks : Gc(c)
  BY <1>1, <1>2, <1>5, LifeGc
<1>6. CASE \E u \in 1 .. Len(submits) :
              OnAccepted(u) \/ \E g \in Gws : OnDelivered(u, g) \/ OnUndelivered(u, g)
  BY <1>1, <1>2, <1>6, LifeOnAccepted, LifeOnReport
<1>7. CASE \/ \E a \in Apis, m \in Messages : SendRequest(a, m)
           \/ \E a \in Apis : \/ ConnectBroken(a) \/ BindFails(a) \/ BindCloses(a)
                              \/ SendConnected(a) \/ EnquiryFails(a)
                              \/ SendUnconnected(a) \/ SendThrows(a) \/ Offer(a)
           \/ \E c \in Chunks : TimePasses(c)
           \/ \E g \in Gws : OnGwError(g) \/ PingTimeout(g) \/ Ping(g)
           \/ UNCHANGED vars
  <2>1. /\ UNCHANGED <<made, seq, watched, retryQueue, hand, pc, retryNum, delivered>>
        /\ UNCHANGED <<pending, ack, retryMsgs, finished>>
    BY <1>7 DEF SendRequest, ConnectBroken, BindFails, BindCloses,
           SendConnected, EnquiryFails, SendUnconnected, SendThrows, Offer,
           TimePasses, OnGwError, PingTimeout, Ping,
                vars, mapVars, fieldVars, jobVars, history
  <2>2. \A d : (Pends(d)' <=> Pends(d)) /\ Acked(d)' = Acked(d)
    BY <2>1 DEF Pends, Acked
  <2>3. None \notin made
    BY SmppAssumption DEF TInv, MadeInv
  <2> QED
    BY <1>2, <2>1, <2>2, <2>3, LifeAnswer
<1> QED
  BY <1>3, <1>4, <1>5, <1>6, <1>7 DEF Next

LEMMA LivesHold == Spec => []FullInv
<1>1. Init => FullInv
  <2> SUFFICES ASSUME Init PROVE FullInv
    OBVIOUS
  <2>1. made = {}
    BY DEF Init
  <2> QED
    BY <2>1, InitTInv DEF FullInv, LifeInv
<1>2. FullInv /\ [Next]_vars => FullInv'
  BY NextTInv, LifeStep DEF FullInv
<1> QED
  BY <1>1, <1>2, PTL DEF Spec

(* While no two chunks share a number: a finished chunk was delivered and   *)
(* is in no queue; one that nothing refers to is finished or out of         *)
(* retries; and one that a queue holds is timed, so that none waits for a   *)
(* reply that may never come.                                               *)
THEOREM ChunksAreSettled == Spec => []Settled
<1>1. FullInv => Settled
  <2> SUFFICES ASSUME FullInv, Distinct, NEW c \in made
               PROVE  /\ finished[c] => c \in delivered /\ ~Queued(c)
                      /\ ~Tracked(c) => finished[c] \/ retryNum[c] = NumRetries
                      /\ Queued(c) => \/ c \in watched \/ c \in RangeOf(retryQueue)
                                      \/ \E t \in Senders : hand[t] = c
    BY DEF Settled
  <2>1. Life(c) /\ c \in Chunks /\ c # None /\ seq[c] \in Seqs
    BY NumberIsChunk DEF FullInv, LifeInv
  <2>2. c \in RangeOf(retryQueue) <=> InRetry(c)
    BY DEF RangeOf, InRetry
  <2>3. Queued(c) <=> Held(c) \/ InRetry(c)
    <3>1. DOMAIN ack = 1 .. MaxUid
      BY DEF FullInv, TInv, ReplyInv, QueueType
    <3>2. (\E s \in Seqs : pending[s] = c) <=> Pends(c)
      BY <2>1 DEF Pends, FullInv, TInv, ReplyInv, NumberInv
    <3>3. (\E u \in DOMAIN ack : ack[u] = c) <=> Acked(c) # {}
      BY <3>1 DEF Acked
    <3> QED
      BY <2>2, <3>2, <3>3 DEF Queued, Held
  <2>4. InHand(c) <=> \E t \in Senders : hand[t] = c
    BY DEF InHand, Senders
  <2>5. finished[c] => c \in delivered /\ ~Queued(c)
    BY <2>1, <2>3 DEF Life
  <2>6. ~Tracked(c) => finished[c] \/ retryNum[c] = NumRetries
    BY <2>1, <2>3, <2>4 DEF Life, Tracked
  <2>7. Queued(c) => c \in watched \/ InRetry(c) \/ InHand(c)
    BY <2>1, <2>3 DEF Life
  <2> QED
    BY <2>2, <2>4, <2>5, <2>6, <2>7
<1> QED
  BY <1>1, LivesHold, PTL

(* While no two chunks share a number, no call of SendChunk is made for a   *)
(* chunk that is finished: neither the limiter's thread nor the retry       *)
(* thread has it any more.                                                  *)
THEOREM FinishedStays == Spec => FinishedIsFinal
<1>1. FullInv /\ [Next]_vars =>
          [Distinct' => \A c \in Chunks : finished[c] => attempts'[c] = attempts[c]]_vars
  <2> SUFFICES ASSUME FullInv, [Next]_vars, Distinct', NEW c \in Chunks, finished[c]
               PROVE  attempts'[c] = attempts[c]
    OBVIOUS
  <2>0. TInv /\ attempts \in [Chunks -> Nat] /\ c \in made
    BY DEF FullInv, TInv, IInv, PlaceType, ReplyInv, NumberInv
  <2>1. CASE SendFirst
    <3>1. Head(limiter).c \notin made
      BY <2>0, <2>1, FirstIs
    <3>2. attempts' = [attempts EXCEPT ![Head(limiter).c] = @ + 1]
      BY <2>1 DEF SendFirst
    <3> QED
      BY <2>0, <3>1, <3>2
  <2>2. CASE SendAgain
    <3>1. Head(retryQueue) \in made /\ InRetry(Head(retryQueue))
      BY <2>0, <2>2, MadeSendAgain
    <3>2. Distinct /\ Life(c)
      BY <2>0, DistinctBefore DEF FullInv, LifeInv
    <3>3. ~InRetry(c)
      BY <3>2 DEF Life
    <3>4. attempts' = [attempts EXCEPT ![Head(retryQueue)] = @ + 1]
      BY <2>2 DEF SendAgain
    <3>5. Head(retryQueue) # c
      BY <3>1, <3>3
    <3> QED
      BY <2>0, <3>4, <3>5
  <2>3. CASE ~SendFirst /\ ~SendAgain
    <3>1. UNCHANGED attempts
      <4>1. CASE (\E t \in Senders : Sender(t)) \/ (\E d \in Chunks : TimePasses(d) \/ Gc(d))
        BY <4>1 DEF Sender, StorePending, StoreRetry, EnqueueGc, TimePasses, Gc, Leave, GiveUp,
                    Retry, history
      <4>2. CASE ~((\E t \in Senders : Sender(t)) \/ (\E d \in Chunks : TimePasses(d) \/ Gc(d)))
        BY <2>3, <4>2 DEF Next, SendRequest, ConnectBroken, BindFails, BindCloses,
               SendConnected, EnquiryFails, SendUnconnected, SendThrows, Offer, OnAccepted, OnDelivered,
                    OnUndelivered, OnGwReply, OnGwError, PingTimeout, Ping, vars, history
      <4> QED
        BY <4>1, <4>2
    <3> QED
      BY <3>1
  <2> QED
    BY <2>1, <2>2, <2>3
<1> QED
  BY <1>1, LivesHold, PTL DEF Spec, FinishedIsFinal
=============================================================================
