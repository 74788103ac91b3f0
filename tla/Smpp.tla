-------------------------------- MODULE Smpp --------------------------------
(***************************************************************************)
(* csmppservice for one login at an SMPP gateway: chunks of short messages *)
(* (cackmsg) on their way from the API through the rate limiter to the     *)
(* gateway, tracked by pendingMsgQueue until accepted, by ackMsgQueue      *)
(* until a delivery receipt comes, by retryMsgs after a failure, and sent  *)
(* again when nothing was heard for retryInterval.                         *)
(*                                                                         *)
(* Threads: API threads, the limiter's, the retry queue's, and the poll    *)
(* thread, which handles replies and collects (cpoll::Gc) one at a time.   *)
(* A chunk object lives while a queue or a thread refers to it; the poll's *)
(* fdQueueGC holds weak_ptrs.  A cgateway object is used for one           *)
(* connection; each counts sequence numbers from one.  Clocks are the      *)
(* facts they are compared for: late[c] is lastSeen + retryInterval < now. *)
(***************************************************************************)
EXTENDS Naturals, Sequences, FiniteSets

CONSTANTS
    Messages,   \* messages, each sent by one API request
    Chunks,     \* the parts messages are split into
    Parts,      \* message -> sequence of its chunks (csms::Split)
    Apis,       \* threads of ApiProcessing
    NumRetries, \* numOfRetries
    MaxQueue,   \* max_queue of the rate limiter
    MaxGw,      \* bound: gateway objects made
    MaxPing,    \* bound: no pings or refused binds at or above this number
    None        \* no chunk, no message

Gws == 1 .. MaxGw
MaxSeq == MaxPing + 2 * Cardinality(Messages) + Cardinality(Chunks)
Seqs == 1 .. MaxSeq
Senders == {"limiter", "retry"}
Idle == [m |-> None, gw |-> 0, at |-> "idle", part |-> 1]

VARIABLES
    cur,        \* gwConnections[login]: registered gateway object, 0 for none
    nGw,        \* gateway objects created so far
    link,       \* gateway -> state of gwSocket: "new", "open", "closed"
    seqNo,      \* gateway -> seqNo
    timer,      \* gateway -> IsLeaveUs still watches its ping timeout
    api,        \* API thread -> its request: [m, gw, at, part]; gw 0 when idle,
                \* at the place in Send, part the first one not yet offered
    asked,      \* messages that were sent to the API
    limiter,    \* queue of the rate limiter: [c, gw], gw is the closure's con
    retryQueue, \* jobs of the retry thread
    pc,         \* sender -> place in SendChunk: "idle", "store", "fail", "watch"
    hand, via,  \* sender -> chunk it is sending, and its con
    made,       \* chunks whose cackmsg was constructed
    seq,        \* chunk -> sequence
    finished, late, retryNum,           \* chunk -> its fields
    pending,    \* pendingMsgQueue: sequence -> chunk
    ack,        \* ackMsgQueue: uid -> chunk
    retryMsgs,  \* retryMsgs
    watched,    \* chunks in fdQueueGC
    submits,    \* the gateway's side: submissions; a position is the uid
    attempts,   \* history: chunk -> calls of SendChunk
    delivered   \* history: chunks reported delivered

gwVars == <<cur, nGw, link, seqNo, timer>>
mapVars == <<pending, ack, retryMsgs>>
fieldVars == <<made, seq, finished, late, retryNum>>
jobVars == <<limiter, retryQueue, pc, hand, via>>
history == <<attempts, delivered>>
vars == <<gwVars, api, asked, jobVars, fieldVars, mapVars, watched, submits, history>>

Goto(t, l) == pc' = [pc EXCEPT ![t] = l]
RangeOf(s) == {s[i] : i \in 1 .. Len(s)}

(* The queues a chunk is in, and what keeps its object alive.               *)
Queued(c) ==
    \/ \E s \in Seqs : pending[s] = c
    \/ \E u \in DOMAIN ack : ack[u] = c
    \/ c \in retryMsgs
    \/ c \in RangeOf(retryQueue)

Tracked(c) == Queued(c) \/ \E t \in Senders : hand[t] = c

(* The references that keep a gateway object alive.                         *)
GwAlive(g) ==
    \/ cur = g
    \/ \E i \in 1 .. Len(limiter) : limiter[i].gw = g
    \/ \E a \in Apis : api[a].gw = g
    \/ \E t \in Senders : via[t] = g

-----------------------------------------------------------------------------
(* Gateways *)

(* GetGateway finds the login's gateway or constructs one.                  *)
GetGateway(g) ==
    \/ cur # 0 /\ g = cur /\ UNCHANGED <<cur, nGw, timer>>
    \/ /\ cur = 0 /\ nGw < MaxGw
       /\ g = nGw + 1
       /\ nGw' = g
       /\ cur' = g
       /\ timer' = [timer EXCEPT ![g] = TRUE]

(* cgateway::Close drops the socket, and the login's gateway: the one it is *)
(* called for or the one that took its place.                               *)
Close(g) ==
    /\ link' = [link EXCEPT ![g] = IF @ = "open" THEN "closed" ELSE @]
    /\ cur' = 0

(* The peer closes, a reply is malformed or an answer cannot be written.    *)
OnGwError(g) ==
    /\ link[g] = "open" /\ GwAlive(g)
    /\ Close(g)
    /\ UNCHANGED <<nGw, seqNo, timer, api, asked, jobVars, fieldVars, mapVars, watched, submits, history>>

(* cgateway::IsLeaveUs: the ping timeout of a gateway that was connected,   *)
(* closed meanwhile or not.                                                 *)
PingTimeout(g) ==
    /\ timer[g] /\ link[g] # "new" /\ GwAlive(g)
    /\ timer' = [timer EXCEPT ![g] = FALSE]
    /\ Close(g)
    /\ UNCHANGED <<nGw, seqNo, api, asked, jobVars, fieldVars, mapVars, watched, submits, history>>

(* IsLeaveUs sends a ping, which takes a sequence number.                   *)
Ping(g) ==
    /\ timer[g] /\ link[g] = "open" /\ GwAlive(g) /\ seqNo[g] < MaxPing
    /\ seqNo' = [seqNo EXCEPT ![g] = @ + 1]
    /\ UNCHANGED <<cur, nGw, link, timer, api, asked, jobVars, fieldVars, mapVars, watched, submits, history>>

-----------------------------------------------------------------------------
(* csmppservice::Send: GetGateway ...                                       *)
SendRequest(a, m) ==
    /\ api[a].gw = 0 /\ m \notin asked
    /\ asked' = asked \cup {m}
    /\ \E g \in Gws :
          GetGateway(g) /\ api' = [api EXCEPT ![a] = [m |-> m, gw |-> g, at |-> "connect", part |-> 1]]
    /\ UNCHANGED <<link, seqNo, jobVars, fieldVars, mapVars, watched, submits, history>>

(* ... Connect, under gwSocketLock, which a thread keeps from one host to   *)
(* the next.  A host that cannot be reached changes nothing, ...            *)
InConnect(a) ==
    /\ api[a].at \in {"connect", "hosts"}
    /\ \A b \in Apis \ {a} : api[b].gw = api[a].gw => api[b].at \notin {"closing", "hosts"}

Reached(a, l) == api' = [api EXCEPT ![a].at = l]

(* ... a socket with an error is closed first, the gateway stays where it   *)
(* is, ...                                                                  *)
ConnectBroken(a) ==
    /\ InConnect(a) /\ api[a].at = "connect" /\ link[api[a].gw] = "open"
    /\ link' = [link EXCEPT ![api[a].gw] = "closed"]
    /\ Reached(a, "hosts")
    /\ UNCHANGED <<cur, nGw, seqNo, timer, asked, jobVars, fieldVars, mapVars, watched, submits, history>>

(* ... one that refuses the bind makes the thread Close and go on, and Close *)
(* twice when the bind could not be sent or its answer not be read, ...     *)
BindFails(a) ==
    LET g == api[a].gw
    IN  /\ InConnect(a) /\ link[g] # "open" /\ seqNo[g] < MaxPing
        /\ seqNo' = [seqNo EXCEPT ![g] = @ + 1]
        /\ Close(g)
        /\ Reached(a, "hosts") \/ Reached(a, "closing")
        /\ UNCHANGED <<nGw, timer, asked, jobVars, fieldVars, mapVars, watched, submits, history>>

BindCloses(a) ==
    /\ api[a].at = "closing"
    /\ Close(api[a].gw)
    /\ Reached(a, "hosts")
    /\ UNCHANGED <<nGw, seqNo, timer, asked, jobVars, fieldVars, mapVars, watched, submits, history>>

(* ... and one that accepts it ends the loop, with two numbers taken, for   *)
(* the bind and the enquiry after it: Connect fails when that cannot be     *)
(* sent.  An open socket is reused.                                         *)
SendConnected(a) ==
    LET g == api[a].gw
    IN  /\ InConnect(a)
        /\ \/ link[g] = "open" /\ UNCHANGED <<link, seqNo>>
           \/ /\ link[g] # "open"
              /\ link' = [link EXCEPT ![g] = "open"]
              /\ seqNo' = [seqNo EXCEPT ![g] = @ + 2]
        /\ Reached(a, "offer")
        /\ UNCHANGED <<cur, nGw, timer, asked, jobVars, fieldVars, mapVars, watched, submits, history>>

EnquiryFails(a) ==
    LET g == api[a].gw
    IN  /\ InConnect(a) /\ link[g] # "open"
        /\ link' = [link EXCEPT ![g] = "closed"]
        /\ seqNo' = [seqNo EXCEPT ![g] = @ + 2]
        /\ cur' = 0
        /\ Reached(a, "lost")
        /\ UNCHANGED <<nGw, timer, asked, jobVars, fieldVars, mapVars, watched, submits, history>>

(* Not connected, no host being left or after the enquiry: Close, 400.      *)
SendUnconnected(a) ==
    /\ api[a].at = "lost" \/ (InConnect(a) /\ link[api[a].gw] # "open")
    /\ Close(api[a].gw)
    /\ api' = [api EXCEPT ![a] = Idle]
    /\ UNCHANGED <<nGw, seqNo, timer, asked, jobVars, fieldVars, mapVars, watched, submits, history>>

(* Connected: the parts are offered to the limiter one by one, each with    *)
(* the connection; what does not fit is lost although 201 is answered.      *)
Offer(a) ==
    LET m == api[a].m
        i == api[a].part
    IN  /\ api[a].at = "offer" /\ i <= Len(Parts[m])
        /\ limiter' = IF Len(limiter) > MaxQueue THEN limiter
                      ELSE Append(limiter, [c |-> Parts[m][i], gw |-> api[a].gw])
        /\ api' = [api EXCEPT ![a] = IF i = Len(Parts[m]) THEN Idle ELSE [@ EXCEPT !.part = i + 1]]
        /\ UNCHANGED <<gwVars, asked, retryQueue, pc, hand, via, fieldVars, mapVars, watched, submits, history>>

(* A field is missing or not of its type: 500, before any part is offered.  *)
SendThrows(a) ==
    /\ api[a].at = "offer" /\ api[a].part = 1
    /\ api' = [api EXCEPT ![a] = Idle]
    /\ UNCHANGED <<gwVars, asked, jobVars, fieldVars, mapVars, watched, submits, history>>

-----------------------------------------------------------------------------
(* SendChunk of chunk c on gateway g by thread t: written, or not.          *)
Written(t, c, g, n) ==
    /\ link[g] = "open"
    /\ via' = [via EXCEPT ![t] = g]
    /\ submits' = Append(submits, [c |-> c, gw |-> g, seq |-> n, state |-> "sent"])
    /\ Goto(t, "store")
    /\ UNCHANGED link

WriteFails(t, g) ==
    /\ link[g] = "open"
    /\ Close(g)
    /\ via' = [via EXCEPT ![t] = g]
    /\ Goto(t, "fail")
    /\ UNCHANGED submits

NotConnected(t, g) ==
    /\ link[g] # "open"
    /\ via' = [via EXCEPT ![t] = g]
    /\ Goto(t, "fail")
    /\ UNCHANGED <<link, submits>>

(* The limiter's thread takes a chunk: the object is made, numbered by the  *)
(* connection its closure holds, and sent on that connection.               *)
SendFirst ==
    /\ pc["limiter"] = "idle" /\ limiter # << >>
    /\ LET c == Head(limiter).c
           g == Head(limiter).gw
           n == seqNo[g] + 1
       IN  /\ seqNo' = [seqNo EXCEPT ![g] = n]
           /\ seq' = [seq EXCEPT ![c] = n]
           /\ made' = made \cup {c}
           /\ hand' = [hand EXCEPT !["limiter"] = c]
           /\ attempts' = [attempts EXCEPT ![c] = @ + 1]
           /\ \/ Written("limiter", c, g, n) /\ UNCHANGED cur
              \/ WriteFails("limiter", g)
              \/ NotConnected("limiter", g) /\ UNCHANGED cur
    /\ limiter' = Tail(limiter)
    /\ UNCHANGED <<nGw, timer, api, asked, retryQueue, finished, late, retryNum, mapVars, watched, delivered>>

(* The retry thread takes a job: GetGateway, which does not connect, then   *)
(* SendChunk of the same packet.                                            *)
SendAgain ==
    /\ pc["retry"] = "idle" /\ retryQueue # << >>
    /\ LET c == Head(retryQueue)
       IN  /\ hand' = [hand EXCEPT !["retry"] = c]
           /\ attempts' = [attempts EXCEPT ![c] = @ + 1]
           /\ \/ /\ cur # 0 /\ UNCHANGED <<nGw, timer>>
                 /\ \/ Written("retry", c, cur, seq[c]) /\ UNCHANGED cur
                    \/ WriteFails("retry", cur)
                    \/ NotConnected("retry", cur) /\ UNCHANGED cur
              \/ /\ cur = 0
                 /\ \E g \in Gws : GetGateway(g) /\ NotConnected("retry", g)
    /\ retryQueue' = Tail(retryQueue)
    /\ UNCHANGED <<seqNo, api, asked, limiter, fieldVars, mapVars, watched, delivered>>

(* A written chunk enters pendingMsgQueue, unless its number is taken ...   *)
StorePending(t) ==
    /\ pc[t] = "store"
    /\ pending' = [pending EXCEPT ![seq[hand[t]]] = IF @ = None THEN hand[t] ELSE @]
    /\ Goto(t, "watch")
    /\ UNCHANGED <<gwVars, api, asked, limiter, retryQueue, hand, via, fieldVars, ack, retryMsgs, watched, submits, history>>

(* ... one that was not written enters retryMsgs ...                        *)
StoreRetry(t) ==
    /\ pc[t] = "fail"
    /\ retryMsgs' = retryMsgs \cup {hand[t]}
    /\ Goto(t, "watch")
    /\ UNCHANGED <<gwVars, api, asked, limiter, retryQueue, hand, via, fieldVars, pending, ack, watched, submits, history>>

(* Mutant of EnqueueGc: the chunk is not watched.                           *)
EnqueueGcNot(t) ==
    /\ pc[t] = "watch"
    /\ hand' = [hand EXCEPT ![t] = None] /\ via' = [via EXCEPT ![t] = 0]
    /\ Goto(t, "idle")
    /\ UNCHANGED <<gwVars, api, asked, limiter, retryQueue, fieldVars, mapVars, watched, submits, history>>

(* ... and both are enqueued for the poll's Gc.                             *)
EnqueueGc(t) ==
    /\ pc[t] = "watch"
    /\ watched' = watched \cup {hand[t]}
    /\ hand' = [hand EXCEPT ![t] = None] /\ via' = [via EXCEPT ![t] = 0]
    /\ Goto(t, "idle")
    /\ UNCHANGED <<gwVars, api, asked, limiter, retryQueue, fieldVars, mapVars, submits, history>>

-----------------------------------------------------------------------------
(* cackmsg::IsLeaveUs, called by the poll's Gc.                             *)

(* retryInterval passes without a sign of life.                             *)
TimePasses(c) ==
    /\ c \in made /\ ~late[c] /\ Tracked(c)
    /\ late' = [late EXCEPT ![c] = TRUE]
    /\ UNCHANGED <<gwVars, api, asked, jobVars, made, seq, finished, retryNum, mapVars, watched, submits, history>>

(* A chunk whose object is gone, or that is finished, is watched no more.   *)
Leave(c) ==
    /\ c \in watched
    /\ ~Tracked(c) \/ finished[c]
    /\ watched' = watched \ {c}
    /\ UNCHANGED <<gwVars, api, asked, jobVars, fieldVars, mapVars, submits, history>>

(* clean: the chunk, whatever is pending under its number, and the first    *)
(* entry of ackMsgQueue with its number.                                    *)
SameNumber(c) == {u \in DOMAIN ack : ack[u] # None /\ seq[ack[u]] = seq[c]}

(* Mutant of Clean: the entry of ackMsgQueue stays.                         *)
CleanPending(c) ==
    /\ retryMsgs' = retryMsgs \ {c}
    /\ pending' = [pending EXCEPT ![seq[c]] = None]
    /\ UNCHANGED ack

Clean(c) ==
    /\ retryMsgs' = retryMsgs \ {c}
    /\ pending' = [pending EXCEPT ![seq[c]] = None]
    /\ \/ \E u \in SameNumber(c) : ack' = [ack EXCEPT ![u] = None]
       \/ SameNumber(c) = {} /\ UNCHANGED ack

GiveUp(c) ==
    /\ c \in watched /\ Tracked(c) /\ ~finished[c] /\ late[c]
    /\ retryNum[c] + 1 > NumRetries
    /\ Clean(c)
    /\ watched' = watched \ {c}
    /\ UNCHANGED <<gwVars, api, asked, jobVars, fieldVars, submits, history>>

(* Mutant of Retry: the number of retries is compared before it is counted. *)
RetryOnceMore(c) ==
    /\ c \in watched /\ Tracked(c) /\ ~finished[c] /\ late[c]
    /\ retryNum[c] <= NumRetries
    /\ Clean(c)
    /\ late' = [late EXCEPT ![c] = FALSE]
    /\ retryNum' = [retryNum EXCEPT ![c] = @ + 1]
    /\ retryQueue' = Append(retryQueue, c)
    /\ watched' = watched \ {c}
    /\ UNCHANGED <<gwVars, api, asked, limiter, pc, hand, via, made, seq, finished, submits, history>>

Retry(c) ==
    /\ c \in watched /\ Tracked(c) /\ ~finished[c] /\ late[c]
    /\ retryNum[c] + 1 <= NumRetries
    /\ Clean(c)
    /\ late' = [late EXCEPT ![c] = FALSE]
    /\ retryNum' = [retryNum EXCEPT ![c] = @ + 1]
    /\ retryQueue' = Append(retryQueue, c)
    /\ watched' = watched \ {c}
    /\ UNCHANGED <<gwVars, api, asked, limiter, pc, hand, via, made, seq, finished, submits, history>>

-----------------------------------------------------------------------------
(* OnGwReply, OnDeliveryStatus: the other side answers a submission on the  *)
(* connection it came by and reports on any open one; answers may be late,  *)
(* out of order or lost with the connection.  A reply with an error status  *)
(* is handled like none: it changes nothing.                                *)
OnGwReply(u, g, was, is) ==
    /\ link[g] = "open" /\ GwAlive(g)
    /\ submits[u].state = was
    /\ submits' = [submits EXCEPT ![u].state = is]
    /\ UNCHANGED <<gwVars, api, asked, jobVars, made, seq, late, retryNum, watched, attempts>>

(* submit_sm_resp: the pending chunk waits for its receipt under its id.    *)
OnAccepted(u) ==
    LET s == submits[u].seq
    IN  /\ OnGwReply(u, submits[u].gw, "sent", "accepted")
        /\ pending' = [pending EXCEPT ![s] = None]
        /\ ack' = IF pending[s] = None THEN ack ELSE [ack EXCEPT ![u] = pending[s]]
        /\ UNCHANGED <<finished, retryMsgs, delivered>>

(* deliver_sm: DELIVRD finishes the chunk, anything else is retried later.  *)
OnDelivered(u, g) ==
    /\ OnGwReply(u, g, "accepted", "reported")
    /\ delivered' = delivered \cup {submits[u].c}
    /\ ack' = [ack EXCEPT ![u] = None]
    /\ finished' = IF ack[u] = None THEN finished ELSE [finished EXCEPT ![ack[u]] = TRUE]
    /\ UNCHANGED <<pending, retryMsgs>>

(* Mutant of OnUndelivered: every receipt finishes the chunk.               *)
OnUndeliveredFinishes(u, g) ==
    /\ OnGwReply(u, g, "accepted", "reported")
    /\ ack' = [ack EXCEPT ![u] = None]
    /\ finished' = IF ack[u] = None THEN finished ELSE [finished EXCEPT ![ack[u]] = TRUE]
    /\ UNCHANGED <<pending, retryMsgs, delivered>>

OnUndelivered(u, g) ==
    /\ OnGwReply(u, g, "accepted", "reported")
    /\ ack' = [ack EXCEPT ![u] = None]
    /\ retryMsgs' = IF ack[u] = None THEN retryMsgs ELSE retryMsgs \cup {ack[u]}
    /\ UNCHANGED <<pending, finished, delivered>>

-----------------------------------------------------------------------------
(* A uid is the position of a submission; MaxUid of them can be made.       *)
MaxUid == Cardinality(Chunks) * (NumRetries + 1)

ASSUME SmppAssumption ==
    /\ None \notin Chunks /\ IsFiniteSet(Chunks) /\ IsFiniteSet(Messages)
    /\ Parts \in [Messages -> Seq(Chunks)]
    /\ NumRetries \in Nat /\ MaxQueue \in Nat /\ MaxGw \in Nat \ {0} /\ MaxPing \in Nat

(* Split makes new parts for every message.                                 *)
ASSUME PartsAssumption ==
    \A m, k \in Messages : \A i \in 1 .. Len(Parts[m]), j \in 1 .. Len(Parts[k]) :
        Parts[m][i] = Parts[k][j] => m = k /\ i = j

Init ==
    /\ cur = 0 /\ nGw = 0
    /\ link = [g \in Gws |-> "new"] /\ seqNo = [g \in Gws |-> 0]
    /\ timer = [g \in Gws |-> FALSE]
    /\ api = [a \in Apis |-> Idle]
    /\ asked = {}
    /\ limiter = << >> /\ retryQueue = << >>
    /\ pc = [t \in Senders |-> "idle"] /\ hand = [t \in Senders |-> None]
    /\ via = [t \in Senders |-> 0]
    /\ made = {} /\ seq = [c \in Chunks |-> 0]
    /\ finished = [c \in Chunks |-> FALSE] /\ late = [c \in Chunks |-> FALSE]
    /\ retryNum = [c \in Chunks |-> 0]
    /\ pending = [s \in Seqs |-> None]
    /\ ack = [u \in 1 .. MaxUid |-> None]
    /\ retryMsgs = {} /\ watched = {}
    /\ submits = << >>
    /\ attempts = [c \in Chunks |-> 0] /\ delivered = {}

Sender(t) == StorePending(t) \/ StoreRetry(t) \/ EnqueueGc(t)
Gc(c) == Leave(c) \/ GiveUp(c) \/ Retry(c)

Next ==
    \/ \E a \in Apis, m \in Messages : SendRequest(a, m)
    \/ \E a \in Apis : ConnectBroken(a) \/ BindFails(a) \/ BindCloses(a) \/ SendConnected(a) \/ EnquiryFails(a)
    \/ \E a \in Apis : SendUnconnected(a)
    \/ \E a \in Apis : Offer(a) \/ SendThrows(a)
    \/ SendFirst \/ SendAgain
    \/ \E t \in Senders : Sender(t)
    \/ \E c \in Chunks : TimePasses(c) \/ Gc(c)
    \/ \E u \in 1 .. Len(submits) :
          OnAccepted(u) \/ \E g \in Gws : OnDelivered(u, g) \/ OnUndelivered(u, g)
    \/ \E g \in Gws : OnGwError(g) \/ PingTimeout(g) \/ Ping(g)

(* The threads run and time passes; nothing is asked of the network or of   *)
(* the other side.                                                          *)
Fairness ==
    /\ WF_vars(SendFirst) /\ WF_vars(SendAgain)
    /\ \A t \in Senders : WF_vars(Sender(t))
    /\ \A c \in Chunks : WF_vars(TimePasses(c)) /\ WF_vars(Gc(c))

Spec == Init /\ [][Next]_vars
FairSpec == Spec /\ Fairness

-----------------------------------------------------------------------------
Requests ==
    [m : Messages \cup {None}, gw : 0 .. MaxGw, part : Nat \ {0},
     at : {"idle", "connect", "closing", "hosts", "lost", "offer"}]

(* The variables keep to their types; a sender has a chunk and a connection *)
(* exactly while it is in SendChunk; and a made chunk has a number.         *)
TypeOK ==
    /\ cur \in 0 .. nGw /\ nGw \in 0 .. MaxGw
    /\ link \in [Gws -> {"new", "open", "closed"}]
    /\ seqNo \in [Gws -> 0 .. MaxSeq]
    /\ timer \in [Gws -> BOOLEAN]
    /\ api \in [Apis -> Requests] /\ \A a \in Apis : api[a].gw <= nGw
    /\ asked \subseteq Messages
    /\ limiter \in Seq([c : Chunks, gw : 1 .. nGw])
    /\ retryQueue \in Seq(Chunks)
    /\ pc \in [Senders -> {"idle", "store", "fail", "watch"}]
    /\ hand \in [Senders -> Chunks \cup {None}] /\ via \in [Senders -> 0 .. nGw]
    /\ \A t \in Senders : pc[t] = "idle" <=> hand[t] = None
    /\ \A t \in Senders : pc[t] = "idle" <=> via[t] = 0
    /\ made \subseteq Chunks /\ seq \in [Chunks -> 0 .. MaxSeq]
    /\ \A c \in Chunks : c \in made <=> seq[c] # 0
    /\ finished \in [Chunks -> BOOLEAN] /\ late \in [Chunks -> BOOLEAN]
    /\ retryNum \in [Chunks -> 0 .. NumRetries]
    /\ pending \in [Seqs -> Chunks \cup {None}]
    /\ ack \in [1 .. MaxUid -> Chunks \cup {None}]
    /\ retryMsgs \subseteq Chunks /\ watched \subseteq Chunks
    /\ attempts \in [Chunks -> Nat] /\ delivered \subseteq Chunks

(* However replies, failures, retries and gateways interleave, no chunk is  *)
(* sent more often than once and numOfRetries times again.                  *)
AttemptsBounded == \A c \in Chunks : attempts[c] <= NumRetries + 1

(* Each gateway object counts from one, so two chunks may have one number.  *)
(* While no two do: a finished chunk was delivered and no queue holds it    *)
(* any more; one that nothing holds is finished or out of retries; and one  *)
(* that a queue holds is timed (in fdQueueGC, about to be put there or to   *)
(* be sent again), so that none waits for a reply that may never come.      *)
Distinct == \A c, d \in made : c # d => seq[c] # seq[d]
Settled ==
    Distinct => \A c \in made :
        /\ finished[c] => c \in delivered /\ ~Queued(c)
        /\ ~Tracked(c) => finished[c] \/ retryNum[c] = NumRetries
        /\ Queued(c) => \/ c \in watched \/ c \in RangeOf(retryQueue)
                        \/ \E t \in Senders : hand[t] = c

(* While no two chunks share a number, a chunk known to be delivered is not *)
(* sent again.                                                              *)
FinishedIsFinal ==
    [][Distinct' => \A c \in Chunks : finished[c] => attempts'[c] = attempts[c]]_vars

(* A chunk in the limiter is sent and in the end settled, gateways failing  *)
(* or not and answers coming or not.                                        *)
ChunksSettle ==
    \A c \in Chunks :
        (\E i \in 1 .. Len(limiter) : limiter[i].c = c) ~> (c \in made /\ (finished[c] \/ ~Tracked(c)))
=============================================================================
