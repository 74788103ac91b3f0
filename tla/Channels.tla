------------------------------ MODULE Channels ------------------------------
(***************************************************************************)
(* The channel registry (cchannels), the channel objects registered in it  *)
(* (cchannel with cpublicchannel / cprivatechannel) and the sessions       *)
(* subscribed to them (cpushersession, cwssession), as the worker threads  *)
(* of the broker and its idle loop interleave on them.                     *)
(*                                                                         *)
(* A channel name maps to at most one registered object, but objects come  *)
(* and go: an object is identified by a number, its name is chUid.  An     *)
(* object exists as long as the registry or a thread holds a shared_ptr to *)
(* it; sessions hold weak_ptrs only (SubscribedTo).  A step ends where the *)
(* code takes or releases chSubscribersLock or the registry's spinlock.    *)
(***************************************************************************)
EXTENDS Naturals, FiniteSets

CONSTANTS
    Names,      \* channel names (one application)
    Sessions,   \* client sessions, each constructed once
    Pusher,     \* the sessions that speak Pusher; the others are raw WebSocket
    Workers,    \* poll threads of the WebSocket, API and cluster servers
    Broker,     \* the main thread, which runs OnIdle
    Owner,      \* the worker whose poll reads a session's socket
    Prefix,     \* a session's name prefix, the target of a multicast
    Requests,   \* the pushes clients send: [mode, sid]
    MaxInst,    \* bound: channel objects ever created
    MaxOps,     \* bound: client operations in a behaviour
    None        \* no session, no sender

Insts == 1 .. MaxInst
Threads == Workers \cup {Broker}

ASSUME ChannelsAssumption ==
    /\ Broker \notin Workers
    /\ Pusher \subseteq Sessions
    /\ Owner \in [Sessions -> Workers]
    /\ None \notin Sessions /\ None \notin Threads /\ None \notin Names
    /\ MaxInst \in Nat /\ MaxOps \in Nat

VARIABLES
    reg,        \* cchannels::Channels: name -> registered object, 0 for none
    nInst,      \* objects constructed so far
    nameOf,     \* object -> its chUid
    subs,       \* object -> chSubscribers (entries are weak_ptrs)
    lockX,      \* object -> thread holding chSubscribersLock exclusively
    lockS,      \* object -> threads holding chSubscribersLock shared
    sock,       \* session -> state of its socket and object
    subTo,      \* session -> SubscribedTo: name -> weak_ptr, 0 for no entry
    pc, op,     \* thread -> where it is, and in which entry point
    ch,         \* thread -> object the entry point works on (shared_ptr)
    at,         \* thread -> object an UnSubscribe call works on (shared_ptr)
    who,        \* thread -> session being joined, removed or closed
    from, req,  \* thread -> sender and addressing of the message pushed
    names,      \* thread -> names OnSocketError has still to visit
    ret,        \* thread -> the caller an UnSubscribe call returns to
    to,         \* thread -> sessions still to deliver to, or to be visited by Gc
    evict,      \* thread -> sessions Gc removed and has to disconnect
    list,       \* thread -> objects of OnIdle's copy of the registry (shared_ptrs)
    due,        \* thread -> objects of the copy whose Gc is still to come
    ops,        \* client operations so far
    joinedAt,   \* history: object in which the session last asked to be
    unleft      \* history: objects whose join hook fired and leave hook did not

chanVars == <<reg, nInst, nameOf, subs, lockX, lockS>>
sessVars == <<sock, subTo>>
callVars == <<at, who, names, ret>>
pushVars == <<from, req, to>>
gcVars   == <<evict, list, due>>
history  == <<joinedAt, unleft>>
vars == <<chanVars, sessVars, pc, op, ch, callVars, pushVars, gcVars, ops, history>>

-----------------------------------------------------------------------------
(* States of a session: "open"; "lost" once its peer is gone, it timed out  *)
(* or broke the protocol; "closed" when SocketClose ran but the poll's      *)
(* handler still keeps the object; "dead" when the object is destroyed.     *)
SockStates == {"open", "lost", "closed", "dead"}

Ops == {"none", "sub", "unsub", "push", "drop", "gc", "gc0"}

Callers == {"none", "error", "push", "client"}

LeavePCs == {"leave", "leaveUnreg", "leaveUnlock"}
TailPCs  == {"tailUnreg", "tailUnlock"}
GcPCs    == {"gcSweep", "gcUnreg", "gcUnlock"}
PCs == {"idle", "join", "joined", "select", "selected", "deliver", "error",
        "gcNext", "gcDisc", "idleUnreg"} \cup LeavePCs \cup TailPCs \cup GcPCs

(* Does a shared_ptr to object i exist, so that a weak_ptr can be locked?   *)
Alive(i) ==
    \/ \E n \in Names : reg[n] = i
    \/ \E t \in Threads : i = ch[t] \/ i = at[t] \/ i \in list[t]

(* Is a session's object referenced by a thread (Push keeps shared_ptrs)?   *)
Referenced(s) ==
    \E t \in Threads : who[t] = s \/ (op[t] = "push" /\ s \in to[t])

Free(i) == lockX[i] = None /\ lockS[i] = {}
Unlocked(i) == lockX' = [lockX EXCEPT ![i] = None]
Locked(i, t) == Free(i) /\ lockX' = [lockX EXCEPT ![i] = t]

Goto(t, l) == pc' = [pc EXCEPT ![t] = l]

(* cchannels::UnRegister erases whatever object has the name.               *)
UnRegister(n) == reg' = [reg EXCEPT ![n] = 0]

(* The entry point returns: its shared_ptrs are released.                   *)
Return(t) ==
    /\ Goto(t, "idle")
    /\ op' = [op EXCEPT ![t] = "none"]
    /\ ch' = [ch EXCEPT ![t] = 0]

(* OnSocketError or UnSubscribe is through with its session.                *)
Done(t) ==
    /\ who' = [who EXCEPT ![t] = None]
    /\ ret' = [ret EXCEPT ![t] = "none"]

(* Call OnSocketError of session s: walk over SubscribedTo, then close.     *)
CallOnSocketError(t, s) ==
    /\ who' = [who EXCEPT ![t] = s]
    /\ names' = [names EXCEPT ![t] = {n \in Names : subTo[s][n] # 0}]
    /\ ret' = [ret EXCEPT ![t] = "error"]
    /\ Goto(t, "error")

(* Call UnSubscribe of object i for session s, from Push or from the client.*)
CallUnSubscribe(t, i, s, caller) ==
    /\ at' = [at EXCEPT ![t] = i]
    /\ who' = [who EXCEPT ![t] = s]
    /\ ret' = [ret EXCEPT ![t] = caller]
    /\ Goto(t, "leave")

-----------------------------------------------------------------------------
(* The environment: the peer disappears, stays silent for too long or sends *)
(* something the session answers with an error.                             *)
Lose(s) ==
    /\ sock[s] = "open"
    /\ sock' = [sock EXCEPT ![s] = "lost"]
    /\ UNCHANGED <<chanVars, subTo, pc, op, ch, callVars, pushVars, gcVars, ops, history>>

(* A worker's poll reports the error of a lost session (WsData), or its Gc  *)
(* finds a Pusher session timed out (IsLeaveUs): OnSocketError runs.        *)
Drop(t, s) ==
    /\ pc[t] = "idle" /\ t = Owner[s] /\ sock[s] = "lost"
    /\ op' = [op EXCEPT ![t] = "drop"]
    /\ CallOnSocketError(t, s)
    /\ UNCHANGED <<chanVars, sessVars, ch, at, pushVars, gcVars, ops, history>>

(* The fd of a closed session is reused: the poll's handler, the last       *)
(* shared_ptr to the session, is overwritten and the session destroyed.     *)
(* ~cwssession does nothing, ~cpushersession unsubscribes once more.        *)
Destroyed(t, s) ==
    /\ t \in Workers /\ pc[t] = "idle" /\ sock[s] = "closed" /\ ~Referenced(s)
    /\ sock' = [sock EXCEPT ![s] = "dead"]
    /\ UNCHANGED <<chanVars, subTo, ch, at, pushVars, gcVars, ops, history>>

DestroyRaw(t, s) ==
    /\ s \notin Pusher
    /\ Destroyed(t, s)
    /\ UNCHANGED <<pc, op, who, names, ret>>

DestroyPusher(t, s) ==
    /\ s \in Pusher
    /\ Destroyed(t, s)
    /\ op' = [op EXCEPT ![t] = "drop"]
    /\ CallOnSocketError(t, s)

-----------------------------------------------------------------------------
(* Subscribe: OnPusherSubscribe, or one channel of cwssession::OnWsConnect. *)

(* Register finds the object of the name or creates one.                    *)
Find(n) == reg[n] # 0 /\ UNCHANGED <<reg, nInst, nameOf>>

Create(n) ==
    /\ reg[n] = 0
    /\ nInst < MaxInst
    /\ nInst' = nInst + 1
    /\ reg' = [reg EXCEPT ![n] = nInst + 1]
    /\ nameOf' = [nameOf EXCEPT ![nInst + 1] = n]

(* SubscribedTo.emplace keeps an entry that is already there, even when its *)
(* weak_ptr has expired.                                                    *)
Register(t, s, n) ==
    /\ pc[t] = "idle" /\ t = Owner[s] /\ sock[s] # "dead" /\ sock[s] # "closed"
    /\ s \in Pusher \/ subTo[s][n] = 0
    /\ ops < MaxOps /\ ops' = ops + 1
    /\ Find(n) \/ Create(n)
    /\ ch' = [ch EXCEPT ![t] = reg'[n]]
    /\ subTo' = [subTo EXCEPT ![s][n] = IF @ = 0 THEN reg'[n] ELSE @]
    /\ who' = [who EXCEPT ![t] = s]
    /\ op' = [op EXCEPT ![t] = "sub"]
    /\ Goto(t, "join")
    /\ UNCHANGED <<subs, lockX, lockS, sock, at, names, ret, pushVars, gcVars, history>>

(* Mutant of Subscribe: emplace without the lock.                           *)
SubscribeUnlocked(t) ==
    /\ pc[t] = "join"
    /\ subs' = [subs EXCEPT ![ch[t]] = @ \cup {who[t]}]
    /\ joinedAt' = [joinedAt EXCEPT ![who[t]][nameOf[ch[t]]] = ch[t]]
    /\ Goto(t, "joined")
    /\ UNCHANGED <<reg, nInst, nameOf, lockX, lockS, sessVars, op, ch, callVars, pushVars, gcVars, ops, unleft>>

(* Subscribe: emplace under the exclusive lock ...                          *)
Subscribe(t) ==
    /\ pc[t] = "join"
    /\ Locked(ch[t], t)
    /\ subs' = [subs EXCEPT ![ch[t]] = @ \cup {who[t]}]
    /\ joinedAt' = [joinedAt EXCEPT ![who[t]][nameOf[ch[t]]] = ch[t]]
    /\ Goto(t, "joined")
    /\ UNCHANGED <<reg, nInst, nameOf, lockS, sessVars, op, ch, callVars, pushVars, gcVars, ops, unleft>>

(* ... release, the join hooks, and for a Pusher session the reply, whose   *)
(* failure ends in OnSocketError.                                           *)
JoinedUnlock(t) ==
    /\ pc[t] = "joined"
    /\ Unlocked(ch[t])
    /\ unleft' = [unleft EXCEPT ![who[t]] = @ \cup {ch[t]}]
    /\ UNCHANGED <<reg, nInst, nameOf, subs, lockS, sessVars, at, pushVars, gcVars, ops, joinedAt>>

Subscribed(t) ==
    /\ JoinedUnlock(t)
    /\ who[t] \in Pusher => sock[who[t]] \in {"open", "lost"}
    /\ Return(t)
    /\ who' = [who EXCEPT ![t] = None]
    /\ UNCHANGED <<names, ret>>

SubscribedUnreplied(t) ==
    /\ JoinedUnlock(t)
    /\ who[t] \in Pusher /\ sock[who[t]] # "open"
    /\ CallOnSocketError(t, who[t])
    /\ UNCHANGED <<op, ch>>

-----------------------------------------------------------------------------
(* OnPusherUnSubscribe: nothing happens when the weak_ptr has expired.  The *)
(* SubscribedTo entry stays.                                                *)
WantsOut(t, s, n) ==
    /\ pc[t] = "idle" /\ t = Owner[s] /\ sock[s] \in {"open", "lost"} /\ s \in Pusher
    /\ subTo[s][n] # 0
    /\ ops < MaxOps /\ ops' = ops + 1
    /\ joinedAt' = [joinedAt EXCEPT ![s][n] = 0]
    /\ UNCHANGED <<chanVars, sessVars, ch, names, pushVars, gcVars, unleft>>

OnPusherUnSubscribe(t, s, n) ==
    /\ WantsOut(t, s, n)
    /\ Alive(subTo[s][n])
    /\ op' = [op EXCEPT ![t] = "unsub"]
    /\ CallUnSubscribe(t, subTo[s][n], s, "client")

OnPusherUnSubscribeExpired(t, s, n) ==
    /\ WantsOut(t, s, n)
    /\ ~Alive(subTo[s][n])
    /\ UNCHANGED <<pc, op, at, who, ret>>

(* UnSubscribe returns: to the loop of OnSocketError, to the delivery loop  *)
(* of Push, or out of OnPusherUnSubscribe.                                  *)
LeftToError(t) ==
    /\ ret[t] = "error"
    /\ Goto(t, "error")
    /\ UNCHANGED <<op, ch, who, ret>>

LeftToPush(t) ==
    /\ ret[t] = "push"
    /\ Goto(t, "deliver")
    /\ Done(t)
    /\ UNCHANGED <<op, ch>>

LeftToClient(t) == ret[t] = "client" /\ Return(t) /\ Done(t)

Left(t) ==
    /\ unleft' = [unleft EXCEPT ![who[t]] = @ \ {at[t]}]
    /\ at' = [at EXCEPT ![t] = 0]
    /\ LeftToError(t) \/ LeftToPush(t) \/ LeftToClient(t)

(* UnSubscribe: try_lock succeeds, the entry is erased ...                  *)
UnSubscribe(t) ==
    /\ pc[t] = "leave"
    /\ Locked(at[t], t)
    /\ subs' = [subs EXCEPT ![at[t]] = @ \ {who[t]}]
    /\ Goto(t, IF subs'[at[t]] = {} THEN "leaveUnreg" ELSE "leaveUnlock")
    /\ UNCHANGED <<reg, nInst, nameOf, lockS, sessVars, op, ch, callVars, pushVars, gcVars, ops, history>>

(* ... an empty channel unregisters, under its own lock ...                 *)
UnSubscribeClose(t) ==
    /\ pc[t] = "leaveUnreg"
    /\ UnRegister(nameOf[at[t]])
    /\ Goto(t, "leaveUnlock")
    /\ UNCHANGED <<nInst, nameOf, subs, lockX, lockS, sessVars, op, ch, callVars, pushVars, gcVars, ops, history>>

(* ... and the lock is released; the leave hooks fire.                      *)
UnSubscribed(t) ==
    /\ pc[t] = "leaveUnlock"
    /\ Unlocked(at[t])
    /\ Left(t)
    /\ UNCHANGED <<reg, nInst, nameOf, subs, lockS, sessVars, names, pushVars, gcVars, ops, joinedAt>>

(* Mutant of UnSubscribeBusy: lock() in place of try_lock(), so that a      *)
(* thread which finds the lock taken waits.                                 *)
UnSubscribeWaits(t) == pc[t] = "leave" /\ Free(at[t]) /\ ~Free(at[t]) /\ UNCHANGED vars

(* try_lock fails: the entry stays, the leave hooks fire all the same.      *)
UnSubscribeBusy(t) ==
    /\ pc[t] = "leave"
    /\ ~Free(at[t])
    /\ Left(t)
    /\ UNCHANGED <<chanVars, sessVars, names, pushVars, gcVars, ops, joinedAt>>

-----------------------------------------------------------------------------
(* OnSocketError: one SubscribedTo entry at a time, expired ones skipped,   *)
(* then SocketClose.                                                        *)
Visit(t, n) ==
    /\ pc[t] = "error" /\ n \in names[t]
    /\ names' = [names EXCEPT ![t] = @ \ {n}]
    /\ UNCHANGED <<chanVars, sessVars, op, ch, who, ret, pushVars, gcVars, ops, history>>

OnSocketError(t, n) ==
    /\ Visit(t, n)
    /\ Alive(subTo[who[t]][n])
    /\ at' = [at EXCEPT ![t] = subTo[who[t]][n]]
    /\ Goto(t, "leave")

OnSocketErrorExpired(t, n) ==
    /\ Visit(t, n)
    /\ ~Alive(subTo[who[t]][n])
    /\ UNCHANGED <<at, pc>>

(* SocketClose, and back to the caller: Push unsubscribes the session from  *)
(* its own channel again, Gc continues with or without its lock.            *)
Closed(t) ==
    /\ pc[t] = "error" /\ names[t] = {}
    /\ sock' = [sock EXCEPT ![who[t]] = IF @ = "dead" THEN @ ELSE "closed"]
    /\ UNCHANGED <<chanVars, subTo, names, pushVars, gcVars, ops, history>>

SocketCloseInPush(t) ==
    /\ Closed(t)
    /\ op[t] = "push"
    /\ CallUnSubscribe(t, ch[t], who[t], "push")
    /\ UNCHANGED <<op, ch>>

SocketCloseInGc(t) ==
    /\ Closed(t)
    /\ op[t] \in {"gc", "gc0"}
    /\ Goto(t, IF lockX[ch[t]] = t THEN "gcSweep" ELSE "gcDisc")
    /\ Done(t)
    /\ UNCHANGED <<op, ch, at>>

SocketClose(t) ==
    /\ Closed(t)
    /\ op[t] \notin {"push", "gc", "gc0"}
    /\ Return(t)
    /\ Done(t)
    /\ UNCHANGED at

-----------------------------------------------------------------------------
(* cchannel::Push *)

(* The sessions a message is addressed to.                                  *)
Addressed(s, sender, r) ==
    CASE r.mode = "broadcast" -> s # sender /\ s # r.sid
      [] r.mode = "multicast" -> r.sid # None /\ Prefix[s] = r.sid
      [] r.mode = "unicast"   -> s = r.sid

(* Mutant of Expired: a multicast also erases the entries it passes over.   *)
ExpiredOrSkipped(i, sender, r) ==
    {s \in subs[i] : \/ sock[s] = "dead" /\ Addressed(s, sender, r)
                     \/ r.mode = "multicast" /\ r.sid # None /\ ~Addressed(s, sender, r)}

(* The expired entries the selection loop erases on its way.                *)
Expired(i, sender, r) ==
    {s \in subs[i] : /\ sock[s] = "dead"
                     /\ Addressed(s, sender, r) \/ (r.mode = "multicast" /\ r.sid # None)}

(* A call of Push with its arguments.                                       *)
CallPush(t, i, sender, r) ==
    /\ op' = [op EXCEPT ![t] = "push"]
    /\ ch' = [ch EXCEPT ![t] = i]
    /\ from' = [from EXCEPT ![t] = sender]
    /\ req' = [req EXCEPT ![t] = r]
    /\ Goto(t, "select")

(* A raw session pushes through its SubscribedTo entry; an expired one, or  *)
(* none, is answered with OnSocketError.                                    *)
OnWsMessage(t, s, n, r) ==
    /\ pc[t] = "idle" /\ t = Owner[s] /\ s \notin Pusher /\ sock[s] \in {"open", "lost"}
    /\ ops < MaxOps /\ ops' = ops + 1
    /\ subTo[s][n] # 0 /\ Alive(subTo[s][n])
    /\ CallPush(t, subTo[s][n], s, r)
    /\ UNCHANGED <<chanVars, sessVars, callVars, to, gcVars, history>>

OnWsMessageUnknown(t, s, n) ==
    /\ pc[t] = "idle" /\ t = Owner[s] /\ s \notin Pusher /\ sock[s] \in {"open", "lost"}
    /\ ops < MaxOps /\ ops' = ops + 1
    /\ subTo[s][n] = 0 \/ ~Alive(subTo[s][n])
    /\ sock' = [sock EXCEPT ![s] = "lost"]
    /\ op' = [op EXCEPT ![t] = "drop"]
    /\ CallOnSocketError(t, s)
    /\ UNCHANGED <<chanVars, subTo, ch, at, pushVars, gcVars, history>>

(* ApiOnEvents and OnClusterPush look the channel up in the registry.       *)
ApiPush(t, n, r) ==
    /\ pc[t] = "idle" /\ t \in Workers /\ reg[n] # 0
    /\ ops < MaxOps /\ ops' = ops + 1
    /\ CallPush(t, reg[n], None, r)
    /\ UNCHANGED <<chanVars, sessVars, callVars, to, gcVars, history>>

(* The shared lock is taken, receivers are copied as shared_ptrs, expired   *)
(* entries erased ...                                                       *)
PushSelect(t) ==
    /\ pc[t] = "select"
    /\ lockX[ch[t]] = None
    /\ lockS' = [lockS EXCEPT ![ch[t]] = @ \cup {t}]
    /\ to' = [to EXCEPT ![t] = {s \in subs[ch[t]] : sock[s] # "dead" /\ Addressed(s, from[t], req[t])}]
    /\ subs' = [subs EXCEPT ![ch[t]] = @ \ Expired(ch[t], from[t], req[t])]
    /\ from' = [from EXCEPT ![t] = None]
    /\ req' = [req EXCEPT ![t] = None]
    /\ Goto(t, "selected")
    /\ UNCHANGED <<reg, nInst, nameOf, lockX, sessVars, op, ch, callVars, gcVars, ops, history>>

PushSelected(t) ==
    /\ pc[t] = "selected"
    /\ lockS' = [lockS EXCEPT ![ch[t]] = @ \ {t}]
    /\ Goto(t, "deliver")
    /\ UNCHANGED <<reg, nInst, nameOf, subs, lockX, sessVars, op, ch, callVars, pushVars, gcVars, ops, history>>

(* ... then each receiver's Push: it is written to its socket, or fails and *)
(* runs its OnSocketError.                                                  *)
Receiver(t, s) ==
    /\ pc[t] = "deliver" /\ s \in to[t]
    /\ to' = [to EXCEPT ![t] = @ \ {s}]
    /\ UNCHANGED <<chanVars, sessVars, op, ch, at, from, req, gcVars, ops, history>>

Deliver(t, s) ==
    /\ Receiver(t, s)
    /\ sock[s] \in {"open", "lost"}
    /\ UNCHANGED <<pc, who, names, ret>>

DeliverFails(t, s) ==
    /\ Receiver(t, s)
    /\ sock[s] # "open"
    /\ CallOnSocketError(t, s)

(* At the end the exclusive lock is taken and an empty channel closed.      *)
PushTail(t) ==
    /\ pc[t] = "deliver" /\ to[t] = {}
    /\ Locked(ch[t], t)
    /\ Goto(t, IF subs[ch[t]] = {} THEN "tailUnreg" ELSE "tailUnlock")
    /\ UNCHANGED <<reg, nInst, nameOf, subs, lockS, sessVars, op, ch, callVars, pushVars, gcVars, ops, history>>

PushClose(t) ==
    /\ pc[t] = "tailUnreg"
    /\ UnRegister(nameOf[ch[t]])
    /\ Goto(t, "tailUnlock")
    /\ UNCHANGED <<nInst, nameOf, subs, lockX, lockS, sessVars, op, ch, callVars, pushVars, gcVars, ops, history>>

Pushed(t) ==
    /\ pc[t] = "tailUnlock"
    /\ Unlocked(ch[t])
    /\ Return(t)
    /\ UNCHANGED <<reg, nInst, nameOf, subs, lockS, sessVars, callVars, pushVars, gcVars, ops, history>>

-----------------------------------------------------------------------------
(* cbroker::OnIdle with cchannel::Gc *)

(* Mutant of OnIdle: the copy holds an empty pointer for a free name.       *)
OnIdleWithNull(t) ==
    /\ t = Broker /\ pc[t] = "idle"
    /\ list' = [list EXCEPT ![t] = {reg[n] : n \in Names}]
    /\ due' = [due EXCEPT ![t] = {reg[n] : n \in Names}]
    /\ op' = [op EXCEPT ![t] = "gc"]
    /\ Goto(t, "gcNext")
    /\ UNCHANGED <<chanVars, sessVars, ch, callVars, pushVars, evict, ops, history>>

(* Copy the registry.                                                       *)
OnIdle(t) ==
    /\ t = Broker /\ pc[t] = "idle"
    /\ list' = [list EXCEPT ![t] = {reg[n] : n \in Names} \ {0}]
    /\ due' = [due EXCEPT ![t] = {reg[n] : n \in Names} \ {0}]
    /\ op' = [op EXCEPT ![t] = "gc"]
    /\ Goto(t, "gcNext")
    /\ UNCHANGED <<chanVars, sessVars, ch, callVars, pushVars, evict, ops, history>>

(* Gc of the next channel: try_lock ...                                     *)
GcLock(t, i) ==
    /\ pc[t] = "gcNext" /\ i \in due[t]
    /\ Locked(i, t)
    /\ ch' = [ch EXCEPT ![t] = i]
    /\ to' = [to EXCEPT ![t] = subs[i]]
    /\ Goto(t, "gcSweep")
    /\ UNCHANGED <<reg, nInst, nameOf, subs, lockS, sessVars, op, callVars, from, req, gcVars, ops, history>>

(* ... a failed one counts as one subscriber: on to the next channel.       *)
GcBusy(t, i) ==
    /\ pc[t] = "gcNext" /\ i \in due[t]
    /\ ~Free(i)
    /\ due' = [due EXCEPT ![t] = @ \ {i}]
    /\ UNCHANGED <<chanVars, sessVars, pc, op, ch, callVars, pushVars, evict, list, ops, history>>

(* One entry of the sweep: connected ones stay, expired ones are erased,    *)
(* and so are disconnected ones, to be disconnected later.  IsConnected of  *)
(* a Pusher session runs OnSocketError on the spot, under the lock.         *)
GcEntry(t, s) ==
    /\ pc[t] = "gcSweep" /\ s \in to[t]
    /\ to' = [to EXCEPT ![t] = @ \ {s}]
    /\ UNCHANGED <<reg, nInst, nameOf, lockX, lockS, sessVars, op, ch, at, from, req, list, due, ops, history>>

GcKeep(t, s) ==
    /\ GcEntry(t, s)
    /\ sock[s] = "open"
    /\ UNCHANGED <<subs, evict, pc, who, names, ret>>

(* Mutant of GcErase: an expired entry is stepped over.                     *)
GcEraseSkips(t, s) ==
    /\ GcEntry(t, s)
    /\ sock[s] = "dead"
    /\ UNCHANGED <<subs, evict, pc, who, names, ret>>

GcErase(t, s) ==
    /\ GcEntry(t, s)
    /\ sock[s] = "dead"
    /\ subs' = [subs EXCEPT ![ch[t]] = @ \ {s}]
    /\ UNCHANGED <<evict, pc, who, names, ret>>

GcEvict(t, s) ==
    /\ GcEntry(t, s)
    /\ sock[s] \in {"lost", "closed"}
    /\ subs' = [subs EXCEPT ![ch[t]] = @ \ {s}]
    /\ evict' = [evict EXCEPT ![t] = @ \cup {s}]
    /\ IF s \in Pusher THEN CallOnSocketError(t, s) ELSE UNCHANGED <<pc, who, names, ret>>

(* The sweep is over: an empty channel is closed.                           *)
GcSweptEmpty(t) ==
    /\ pc[t] = "gcSweep" /\ to[t] = {} /\ subs[ch[t]] = {}
    /\ Goto(t, "gcUnreg")
    /\ op' = [op EXCEPT ![t] = "gc0"]
    /\ UNCHANGED <<chanVars, sessVars, ch, callVars, pushVars, gcVars, ops, history>>

GcSwept(t) ==
    /\ pc[t] = "gcSweep" /\ to[t] = {} /\ subs[ch[t]] # {}
    /\ Goto(t, "gcUnlock")
    /\ UNCHANGED <<chanVars, sessVars, op, ch, callVars, pushVars, gcVars, ops, history>>

GcClose(t) ==
    /\ pc[t] = "gcUnreg"
    /\ UnRegister(nameOf[ch[t]])
    /\ Goto(t, "gcUnlock")
    /\ UNCHANGED <<nInst, nameOf, subs, lockX, lockS, sessVars, op, ch, callVars, pushVars, gcVars, ops, history>>

GcUnlock(t) ==
    /\ pc[t] = "gcUnlock"
    /\ Unlocked(ch[t])
    /\ Goto(t, "gcDisc")
    /\ UNCHANGED <<reg, nInst, nameOf, subs, lockS, sessVars, op, ch, callVars, pushVars, gcVars, ops, history>>

(* Disconnect the removed sessions that still exist.                        *)
GcDisconnect(t, s) ==
    /\ pc[t] = "gcDisc" /\ s \in evict[t]
    /\ evict' = [evict EXCEPT ![t] = @ \ {s}]
    /\ IF sock[s] # "dead" THEN CallOnSocketError(t, s)
       ELSE UNCHANGED <<pc, who, names, ret>>
    /\ UNCHANGED <<chanVars, sessVars, op, ch, at, pushVars, list, due, ops, history>>

(* Gc returns the number of subscribers: none ends the round of OnIdle.     *)
(* The copy keeps every object until OnIdle returns.                        *)
GcReturn(t) ==
    /\ pc[t] = "gcDisc" /\ evict[t] = {} /\ op[t] = "gc"
    /\ due' = [due EXCEPT ![t] = @ \ {ch[t]}]
    /\ ch' = [ch EXCEPT ![t] = 0]
    /\ Goto(t, "gcNext")
    /\ UNCHANGED <<chanVars, sessVars, op, callVars, pushVars, evict, list, ops, history>>

GcReturnEmpty(t) ==
    /\ pc[t] = "gcDisc" /\ evict[t] = {} /\ op[t] = "gc0"
    /\ Goto(t, "idleUnreg")
    /\ UNCHANGED <<chanVars, sessVars, op, ch, callVars, pushVars, gcVars, ops, history>>

(* OnIdle unregisters the name of the channel Gc found empty, outside any   *)
(* lock, and breaks out of its loop.                                        *)
OnIdleUnRegister(t) ==
    /\ pc[t] = "idleUnreg"
    /\ UnRegister(nameOf[ch[t]])
    /\ list' = [list EXCEPT ![t] = {}]
    /\ due' = [due EXCEPT ![t] = {}]
    /\ Return(t)
    /\ UNCHANGED <<nInst, nameOf, subs, lockX, lockS, sessVars, callVars, pushVars, evict, ops, history>>

OnIdleDone(t) ==
    /\ pc[t] = "gcNext" /\ due[t] = {}
    /\ list' = [list EXCEPT ![t] = {}]
    /\ Return(t)
    /\ UNCHANGED <<chanVars, sessVars, callVars, pushVars, evict, due, ops, history>>

-----------------------------------------------------------------------------
Init ==
    /\ reg = [n \in Names |-> 0]
    /\ nInst = 0
    /\ nameOf = [i \in Insts |-> None]
    /\ subs = [i \in Insts |-> {}]
    /\ lockX = [i \in Insts |-> None]
    /\ lockS = [i \in Insts |-> {}]
    /\ sock = [s \in Sessions |-> "open"]
    /\ subTo = [s \in Sessions |-> [n \in Names |-> 0]]
    /\ pc = [t \in Threads |-> "idle"]
    /\ op = [t \in Threads |-> "none"]
    /\ ch = [t \in Threads |-> 0]
    /\ at = [t \in Threads |-> 0]
    /\ who = [t \in Threads |-> None]
    /\ from = [t \in Threads |-> None]
    /\ req = [t \in Threads |-> None]
    /\ names = [t \in Threads |-> {}]
    /\ ret = [t \in Threads |-> "none"]
    /\ to = [t \in Threads |-> {}]
    /\ evict = [t \in Threads |-> {}]
    /\ list = [t \in Threads |-> {}]
    /\ due = [t \in Threads |-> {}]
    /\ ops = 0
    /\ joinedAt = [s \in Sessions |-> [n \in Names |-> 0]]
    /\ unleft = [s \in Sessions |-> {}]

(* A client asks a worker for something, or its session is destroyed.       *)
Request(t) ==
    \/ \E s \in Sessions : DestroyRaw(t, s) \/ DestroyPusher(t, s)
    \/ \E s \in Sessions, n \in Names :
          \/ Register(t, s, n) \/ OnWsMessageUnknown(t, s, n)
          \/ OnPusherUnSubscribe(t, s, n) \/ OnPusherUnSubscribeExpired(t, s, n)
    \/ \E s \in Sessions, n \in Names, r \in Requests : OnWsMessage(t, s, n, r)
    \/ \E n \in Names, r \in Requests : ApiPush(t, n, r)

(* A thread goes on with the call it is in.                                 *)
Continue(t) ==
    \/ Subscribe(t) \/ Subscribed(t) \/ SubscribedUnreplied(t)
    \/ UnSubscribe(t) \/ UnSubscribeClose(t) \/ UnSubscribed(t) \/ UnSubscribeBusy(t)
    \/ \E n \in Names : OnSocketError(t, n) \/ OnSocketErrorExpired(t, n)
    \/ SocketClose(t) \/ SocketCloseInPush(t) \/ SocketCloseInGc(t)
    \/ PushSelect(t) \/ PushSelected(t) \/ PushTail(t) \/ PushClose(t) \/ Pushed(t)
    \/ \E s \in Sessions :
          \/ Deliver(t, s) \/ DeliverFails(t, s)
          \/ GcKeep(t, s) \/ GcErase(t, s) \/ GcEvict(t, s) \/ GcDisconnect(t, s)
    \/ \E i \in Insts : GcLock(t, i) \/ GcBusy(t, i)
    \/ GcSwept(t) \/ GcSweptEmpty(t) \/ GcClose(t) \/ GcUnlock(t)
    \/ GcReturn(t) \/ GcReturnEmpty(t)
    \/ OnIdleUnRegister(t) \/ OnIdleDone(t)

Next ==
    \/ \E s \in Sessions : Lose(s)
    \/ \E t \in Workers, s \in Sessions : Drop(t, s)
    \/ \E t \in Workers : Request(t)
    \/ \E t \in Threads : Continue(t) \/ OnIdle(t)

(* Every thread keeps running, a thread blocked on chSubscribersLock gets   *)
(* it if it keeps being released, the idle loop comes round every second    *)
(* and the poll's Gc reaches every lost Pusher session.  Clients may stop,  *)
(* and a raw session that times out is found by OnIdle alone.               *)
Fairness ==
    /\ \A t \in Threads : WF_vars(Continue(t))
    /\ \A t \in Workers : SF_vars(Subscribe(t) \/ PushSelect(t) \/ PushTail(t))
    /\ WF_vars(OnIdle(Broker))
    /\ \A s \in Pusher : WF_vars(Drop(Owner[s], s))

Spec == Init /\ [][Next]_vars
FairSpec == Spec /\ Fairness

-----------------------------------------------------------------------------
(* The variables keep to their types, whatever the threads interleave.      *)
TypeOK ==
    /\ reg \in [Names -> 0 .. MaxInst]
    /\ nInst \in 0 .. MaxInst
    /\ nameOf \in [Insts -> Names \cup {None}]
    /\ subs \in [Insts -> SUBSET Sessions]
    /\ lockX \in [Insts -> Threads \cup {None}]
    /\ lockS \in [Insts -> SUBSET Threads]
    /\ sock \in [Sessions -> SockStates]
    /\ subTo \in [Sessions -> [Names -> 0 .. MaxInst]]
    /\ pc \in [Threads -> PCs]
    /\ op \in [Threads -> Ops]
    /\ ch \in [Threads -> 0 .. MaxInst]
    /\ at \in [Threads -> 0 .. MaxInst]
    /\ who \in [Threads -> Sessions \cup {None}]
    /\ from \in [Threads -> Sessions \cup {None}]
    /\ req \in [Threads -> Requests \cup {None}]
    /\ names \in [Threads -> SUBSET Names]
    /\ ret \in [Threads -> Callers]
    /\ to \in [Threads -> SUBSET Sessions]
    /\ evict \in [Threads -> SUBSET Sessions]
    /\ list \in [Threads -> SUBSET Insts]
    /\ due \in [Threads -> SUBSET Insts]
    /\ ops \in 0 .. MaxOps
    /\ joinedAt \in [Sessions -> [Names -> 0 .. MaxInst]]
    /\ unleft \in [Sessions -> SUBSET Insts]

(* The object a thread about to call UnRegister acts for.                   *)
Closing(t) == IF pc[t] = "leaveUnreg" THEN at[t] ELSE ch[t]
UnregPCs == {"leaveUnreg", "tailUnreg", "gcUnreg", "idleUnreg"}

(* A channel object never takes itself out of the registry while it has a   *)
(* subscriber: UnSubscribe, Push and Gc look at chSubscribers and call      *)
(* UnRegister under one exclusive lock, and OnIdle's own UnRegister comes   *)
(* when the object it collected is out of the registry already.             *)
ClosesOnlyEmpty ==
    [][\A t \in Threads, n \in Names :
          pc[t] \in UnregPCs /\ reg[n] = Closing(t) /\ reg'[n] # reg[n]
             => subs[reg[n]] = {}]_vars

(* A session that is open and has not asked to leave stays in the channel   *)
(* object it joined, whatever pushes, failed pushes, sweeps and leaves of   *)
(* other sessions go on around it.                                          *)
KeepsSubscription ==
    \A s \in Sessions, n \in Names :
        sock[s] = "open" /\ joinedAt[s][n] # 0 => s \in subs[joinedAt[s][n]]

(* No call blocks for ever: Gc's exclusive lock, the OnSocketError it runs  *)
(* under it, the locks of Push and of Subscribe never wait for each other.  *)
CallsReturn == \A t \in Workers : pc[t] # "idle" ~> pc[t] = "idle"

(* When clients fall silent the registry settles: none but open sessions    *)
(* stay in a registered channel, also when an UnSubscribe found the lock    *)
(* taken or the poll forgot a raw session that timed out, and a channel     *)
(* without subscribers is closed.                                           *)
RegistrySettles ==
    <>[](\A n \in Names : reg[n] # 0 =>
            subs[reg[n]] # {} /\ \A s \in subs[reg[n]] : sock[s] = "open")

Quiet == \A t \in Threads : pc[t] = "idle"

(* What the test suite asserts: who is subscribed receives what is          *)
(* triggered, so the object it joined is the one the API finds by name.     *)
SubscribedReceives ==
    \A s \in Sessions, n \in Names :
        Quiet /\ sock[s] = "open" /\ joinedAt[s][n] # 0 => reg[n] = joinedAt[s][n]

(* What the README says of hooks: a subscriber whose join a registered      *)
(* channel announced and who is in it no more has been announced to leave.  *)
LeaveIsAnnounced ==
    \A s \in Sessions, n \in Names :
        Quiet /\ reg[n] # 0 /\ reg[n] \in unleft[s] => s \in subs[reg[n]]
=============================================================================
