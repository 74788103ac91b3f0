--------------------------- MODULE ChannelsProofs ---------------------------
(* Proofs about Channels, for any number of sessions, threads, names and    *)
(* channel objects.  The inductive invariant IInv says which lock a thread  *)
(* holds at which point of which call, and what it may rely on there.       *)
EXTENDS Channels, TLAPS

(* The points of a call at which a thread uses the object in ch, those at   *)
(* which it holds the exclusive lock of that object, and those at which it  *)
(* is in a call of OnSocketError or UnSubscribe.                            *)
LockPCs == {"joined"} \cup TailPCs \cup GcPCs
ChPCs == {"join", "select", "selected", "deliver", "gcDisc", "idleUnreg"} \cup LockPCs
CallPCs == {"error"} \cup LeavePCs

(* Objects are numbered in the order of their creation; a registered object *)
(* is registered under its own name.                                        *)
ObjectInv ==
    /\ \A i \in 1 .. nInst : nameOf[i] \in Names
    /\ \A n \in Names : reg[n] # 0 => reg[n] \in 1 .. nInst /\ nameOf[reg[n]] = n
    /\ \A s \in Sessions, n \in Names :
          /\ subTo[s][n] \in 0 .. nInst
          /\ subTo[s][n] # 0 => nameOf[subTo[s][n]] = n
          /\ joinedAt[s][n] \in 0 .. nInst
          /\ joinedAt[s][n] # 0 => nameOf[joinedAt[s][n]] = n

(* Thread t has an object and a session in hand where its code uses them.   *)
InHand(t) ==
    /\ ch[t] \in 0 .. nInst
    /\ at[t] \in 0 .. nInst
    /\ list[t] \subseteq 1 .. nInst
    /\ due[t] \subseteq list[t]
    /\ pc[t] \in ChPCs => ch[t] # 0
    /\ op[t] \in {"push", "gc0"} => ch[t] # 0
    /\ op[t] = "gc" /\ pc[t] \in CallPCs => ch[t] # 0
    /\ pc[t] \in LeavePCs => at[t] # 0
    /\ pc[t] \in LeavePCs /\ ret[t] = "push" => ch[t] # 0
    /\ pc[t] \in {"join", "joined"} \cup CallPCs => who[t] \in Sessions
    /\ pc[t] \in CallPCs /\ ret[t] = "error" =>
          \A n \in names[t] : subTo[who[t]][n] # 0

(* The exclusive locks thread t holds.                                      *)
Holds(t) ==
    /\ pc[t] \in LockPCs => lockX[ch[t]] = t
    /\ pc[t] \in {"leaveUnreg", "leaveUnlock"} => lockX[at[t]] = t

(* Thread t closes a channel it found empty, and OnIdle comes to its own    *)
(* UnRegister after Gc has taken the object out of the registry.            *)
Closes(t) ==
    /\ pc[t] = "leaveUnreg" => subs[at[t]] = {}
    /\ pc[t] \in {"tailUnreg", "gcUnreg"} => subs[ch[t]] = {}
    /\ pc[t] = "gcUnreg" => op[t] = "gc0"
    /\ pc[t] = "idleUnreg" => op[t] = "gc0"
    /\ pc[t] \in {"idle", "gcNext"} => op[t] # "gc0"
    /\ op[t] = "gc0" /\ pc[t] # "gcUnreg" => \A n \in Names : reg[n] # ch[t]

(* Thread t takes a session out of a channel because its socket is not open *)
(* or because the session's own worker was asked to.                        *)
Removes(t) ==
    /\ \A s \in evict[t] : sock[s] # "open"
    /\ pc[t] \in {"join", "joined"} => t = Owner[who[t]]
    /\ pc[t] = "error" => sock[who[t]] # "open" /\ ret[t] = "error"
    /\ pc[t] \in LeavePCs /\ ret[t] \in {"error", "push"} => sock[who[t]] # "open"
    /\ pc[t] \in LeavePCs /\ ret[t] = "client" =>
          t = Owner[who[t]] /\ joinedAt[who[t]][nameOf[at[t]]] = 0
    /\ pc[t] \in LeavePCs => ret[t] # "none"

ThreadInv(t) == InHand(t) /\ Holds(t) /\ Closes(t) /\ Removes(t)

IInv ==
    /\ TypeOK
    /\ ObjectInv
    /\ \A t \in Threads : ThreadInv(t)
    /\ KeepsSubscription

(* What a step of another thread leaves alone for thread u: its own call,   *)
(* the locks it holds and the subscribers under them, the names of objects, *)
(* and that a socket, once not open, stays so.                              *)
Rely(u) ==
    /\ pc'[u] = pc[u] /\ op'[u] = op[u] /\ ch'[u] = ch[u] /\ at'[u] = at[u]
    /\ who'[u] = who[u] /\ names'[u] = names[u] /\ ret'[u] = ret[u]
    /\ evict'[u] = evict[u] /\ list'[u] = list[u] /\ due'[u] = due[u]
    /\ nInst' \in Nat /\ nInst <= nInst'
    /\ \A i \in 1 .. nInst : nameOf'[i] = nameOf[i]
    /\ \A n \in Names : reg'[n] = reg[n] \/ reg'[n] = 0 \/ reg'[n] = nInst + 1
    /\ \A i \in Insts : lockX[i] = u => lockX'[i] = u /\ subs'[i] \subseteq subs[i]
    /\ \A s \in Sessions, n \in Names : subTo[s][n] # 0 => subTo'[s][n] # 0
    /\ \A s \in Sessions : sock[s] # "open" => sock'[s] # "open"
    /\ \A s \in Sessions : Owner[s] = u => joinedAt'[s] = joinedAt[s]

(* A step that Rely(u) describes keeps what holds of thread u.              *)
LEMMA RelyKeepsThreadInv ==
    ASSUME IInv, NEW u \in Threads, Rely(u)
    PROVE  ThreadInv(u)'
<1> USE ChannelsAssumption
<1>1. TypeOK /\ ObjectInv /\ InHand(u) /\ Holds(u) /\ Closes(u) /\ Removes(u)
  BY DEF IInv, ThreadInv
<1>2. InHand(u)'
  BY <1>1 DEF Rely, InHand, TypeOK, LockPCs, ChPCs, CallPCs, LeavePCs, TailPCs, GcPCs
<1>3. Holds(u)'
  BY <1>1 DEF Rely, InHand, Holds, TypeOK, Insts, LockPCs, ChPCs, CallPCs, LeavePCs,
     TailPCs, GcPCs
<1>4. Closes(u)'
  BY <1>1 DEF Rely, InHand, Holds, Closes, TypeOK, Insts, LockPCs, ChPCs, CallPCs, LeavePCs,
     TailPCs, GcPCs
<1>5. Removes(u)'
  <2>1. /\ \A s \in evict'[u] : sock'[s] # "open"
        /\ pc'[u] \in {"join", "joined"} => u = Owner[who'[u]]
        /\ pc'[u] = "error" => sock'[who'[u]] # "open" /\ ret'[u] = "error"
        /\ pc'[u] \in LeavePCs /\ ret'[u] \in {"error", "push"} => sock'[who'[u]] # "open"
        /\ pc'[u] \in LeavePCs => ret'[u] # "none"
    BY <1>1 DEF Rely, InHand, Removes, TypeOK, LockPCs, ChPCs, CallPCs, LeavePCs, TailPCs,
       GcPCs
  <2>2. ASSUME pc'[u] \in LeavePCs, ret'[u] = "client"
        PROVE  u = Owner[who'[u]] /\ joinedAt'[who'[u]][nameOf'[at'[u]]] = 0
    <3>1. /\ who'[u] = who[u] /\ who[u] \in Sessions
          /\ at'[u] = at[u] /\ at[u] \in 1 .. nInst
          /\ pc[u] \in LeavePCs /\ ret[u] = "client"
      BY <1>1, <2>2 DEF Rely, InHand, TypeOK, LockPCs, ChPCs, CallPCs, LeavePCs, TailPCs,
         GcPCs
    <3>2. u = Owner[who[u]] /\ joinedAt[who[u]][nameOf[at[u]]] = 0
      BY <1>1, <3>1 DEF Removes
    <3>3. nameOf'[at[u]] = nameOf[at[u]] /\ joinedAt'[who[u]] = joinedAt[who[u]]
      BY <3>1, <3>2 DEF Rely
    <3> QED  BY <3>1, <3>2, <3>3
  <2> QED  BY <2>1, <2>2 DEF Removes
<1> QED  BY <1>2, <1>3, <1>4, <1>5 DEF ThreadInv

(* The invariant after a step of t: what is global, what holds of t, and    *)
(* that the step disturbs no other thread.                                  *)
LEMMA Assemble ==
    ASSUME IInv, NEW t \in Threads, TypeOK', ObjectInv', KeepsSubscription', ThreadInv(t)',
           \A u \in Threads : u # t => Rely(u)
    PROVE  IInv'
<1>1. ASSUME NEW u \in Threads  PROVE ThreadInv(u)'
  BY <1>1, RelyKeepsThreadInv
<1> QED  BY <1>1 DEF IInv

(* A worker reports the error of a lost session.                            *)
LEMMA DropStep ==
    ASSUME IInv, NEW t \in Threads, NEW s \in Sessions, Drop(t, s)
    PROVE  IInv'
<1> USE ChannelsAssumption DEF Insts, Drop, Goto, CallOnSocketError, vars, chanVars,
   sessVars, callVars, pushVars, gcVars, history
<1>1. TypeOK /\ ObjectInv /\ ThreadInv(t) /\ KeepsSubscription
  BY DEF IInv
<1>3. TypeOK'
  BY <1>1 DEF TypeOK, PCs, Ops, SockStates, Callers, LeavePCs, TailPCs, GcPCs
<1>4. ObjectInv'
  BY <1>1 DEF ObjectInv
<1>5. KeepsSubscription'
  BY <1>1 DEF KeepsSubscription
<1>6. ThreadInv(t)'
  BY <1>1 DEF TypeOK, ThreadInv, InHand, Holds, Closes, Removes, LockPCs, ChPCs, CallPCs,
     LeavePCs, TailPCs, GcPCs
<1>7. ASSUME NEW u \in Threads, u # t  PROVE Rely(u)
  BY <1>1, <1>7 DEF TypeOK, Rely
<1> QED  BY <1>3, <1>4, <1>5, <1>6, <1>7, Assemble

(* A raw session is destroyed.                                              *)
LEMMA DestroyRawStep ==
    ASSUME IInv, NEW t \in Threads, NEW s \in Sessions, DestroyRaw(t, s)
    PROVE  IInv'
<1> USE ChannelsAssumption DEF Insts, DestroyRaw, Destroyed, vars, chanVars, sessVars,
   callVars, pushVars, gcVars, history
<1>1. TypeOK /\ ObjectInv /\ ThreadInv(t) /\ KeepsSubscription
  BY DEF IInv
<1>3. TypeOK'
  BY <1>1 DEF TypeOK, PCs, Ops, SockStates, Callers, LeavePCs, TailPCs, GcPCs
<1>4. ObjectInv'
  BY <1>1 DEF ObjectInv
<1>5. KeepsSubscription'
  BY <1>1 DEF KeepsSubscription
<1>6. ThreadInv(t)'
  BY <1>1 DEF TypeOK, ThreadInv, InHand, Holds, Closes, Removes, LockPCs, ChPCs, CallPCs,
     LeavePCs, TailPCs, GcPCs
<1>7. ASSUME NEW u \in Threads, u # t  PROVE Rely(u)
  BY <1>1, <1>7 DEF TypeOK, Rely
<1> QED  BY <1>3, <1>4, <1>5, <1>6, <1>7, Assemble

(* A Pusher session is destroyed and unsubscribes again.                    *)
LEMMA DestroyPusherStep ==
    ASSUME IInv, NEW t \in Threads, NEW s \in Sessions, DestroyPusher(t, s)
    PROVE  IInv'
<1> USE ChannelsAssumption DEF Insts, DestroyPusher, Destroyed, Goto, CallOnSocketError,
   vars, chanVars, sessVars, callVars, pushVars, gcVars, history
<1>1. TypeOK /\ ObjectInv /\ ThreadInv(t) /\ KeepsSubscription
  BY DEF IInv
<1>3. TypeOK'
  BY <1>1 DEF TypeOK, PCs, Ops, SockStates, Callers, LeavePCs, TailPCs, GcPCs
<1>4. ObjectInv'
  BY <1>1 DEF ObjectInv
<1>5. KeepsSubscription'
  BY <1>1 DEF KeepsSubscription
<1>6. ThreadInv(t)'
  BY <1>1 DEF TypeOK, ThreadInv, InHand, Holds, Closes, Removes, LockPCs, ChPCs, CallPCs,
     LeavePCs, TailPCs, GcPCs
<1>7. ASSUME NEW u \in Threads, u # t  PROVE Rely(u)
  BY <1>1, <1>7 DEF TypeOK, Rely
<1> QED  BY <1>3, <1>4, <1>5, <1>6, <1>7, Assemble

(* Subscribing, the registry is asked for the object of a name.             *)
LEMMA RegisterStep ==
    ASSUME IInv, NEW t \in Threads, NEW s \in Sessions, NEW n \in Names, Register(t, s, n)
    PROVE  IInv'
<1> USE ChannelsAssumption DEF Insts, Register, Goto, vars, chanVars, sessVars, callVars,
   pushVars, gcVars, history
<1>1. TypeOK /\ ObjectInv /\ ThreadInv(t) /\ KeepsSubscription
  BY DEF IInv
<1>hand. nInst \in Nat /\ reg[n] \in 0 .. nInst /\ subTo[s] \in [Names -> 0 .. MaxInst]
  BY <1>1 DEF TypeOK, ObjectInv, ThreadInv, InHand, Removes, LockPCs, ChPCs, CallPCs,
     LeavePCs, TailPCs, GcPCs
<1>split. Find(n) \/ Create(n)
  OBVIOUS
<1>3. TypeOK'
  <2>1. /\ reg' \in [Names -> 0 .. MaxInst] /\ nInst' \in 0 .. MaxInst
        /\ nameOf' \in [1 .. MaxInst -> Names \cup {None}]
    <3>1. CASE Find(n)
      BY <1>1, <3>1 DEF Find, TypeOK
    <3>2. CASE Create(n)
      BY <1>1, <3>2 DEF Create, TypeOK
    <3> QED  BY <1>split, <3>1, <3>2
  <2>2. subTo' \in [Sessions -> [Names -> 0 .. MaxInst]] /\ ch' \in [Threads -> 0 .. MaxInst]
    BY <1>1, <2>1 DEF TypeOK
  <2>3. /\ pc' \in [Threads -> PCs] /\ op' \in [Threads -> Ops]
        /\ who' \in [Threads -> Sessions \cup {None}] /\ ops' \in 0 .. MaxOps
    BY <1>1 DEF TypeOK, PCs, Ops
  <2>4. /\ UNCHANGED <<subs, lockX, lockS, sock, at, names, ret>>
        /\ UNCHANGED <<from, req, to, evict, list, due, joinedAt, unleft>>
    OBVIOUS
  <2> QED  BY <1>1, <2>1, <2>2, <2>3, <2>4 DEF TypeOK
<1>4. ObjectInv'
  <2>1. \A z \in Sessions, m \in Names : subTo'[z][m] =
             IF z = s /\ m = n /\ subTo[z][m] = 0 THEN reg'[n] ELSE subTo[z][m]
    BY <1>1 DEF TypeOK
  <2>2. CASE Find(n)
    <3>1. nInst' = nInst /\ nameOf' = nameOf /\ reg' = reg /\ joinedAt' = joinedAt
      BY <2>2 DEF Find
    <3>2. ASSUME NEW z \in Sessions, NEW m \in Names
          PROVE  subTo'[z][m] \in 0 .. nInst /\ (subTo'[z][m] # 0 => nameOf[subTo'[z][m]] = m)
      BY <1>1, <1>hand, <2>1, <3>1 DEF ObjectInv
    <3> QED  BY <1>1, <3>1, <3>2 DEF ObjectInv
  <2>3. CASE Create(n)
    <3>1. /\ nInst' = nInst + 1 /\ reg'[n] = nInst + 1 /\ nInst + 1 \in 1 .. MaxInst
          /\ \A m \in Names : m # n => reg'[m] = reg[m]
          /\ nameOf'[nInst + 1] = n /\ \A i \in 1 .. nInst : nameOf'[i] = nameOf[i]
          /\ joinedAt' = joinedAt
      BY <1>1, <2>3 DEF Create, TypeOK
    <3>2. \A m \in Names : reg'[m] # 0 => reg'[m] \in 1 .. nInst' /\ nameOf'[reg'[m]] = m
      BY <1>1, <1>hand, <3>1 DEF ObjectInv
    <3>3. ASSUME NEW z \in Sessions, NEW m \in Names
          PROVE  subTo'[z][m] \in 0 .. nInst' /\ (subTo'[z][m] # 0 => nameOf'[subTo'[z][m]] = m)
      BY <1>1, <1>hand, <2>1, <3>1 DEF ObjectInv
    <3>4. ASSUME NEW z \in Sessions, NEW m \in Names
          PROVE  joinedAt'[z][m] \in 0 .. nInst' /\ (joinedAt'[z][m] # 0 => nameOf'[joinedAt'[z][m]] = m)
      BY <1>1, <1>hand, <3>1 DEF ObjectInv
    <3>5. \A i \in 1 .. nInst' : nameOf'[i] \in Names
      BY <1>1, <1>hand, <3>1 DEF ObjectInv
    <3> QED  BY <3>2, <3>3, <3>4, <3>5 DEF ObjectInv
  <2> QED  BY <1>split, <2>2, <2>3
<1>5. KeepsSubscription'
  BY <1>1, <1>hand DEF KeepsSubscription
<1>6. ThreadInv(t)'
  <2>1. CASE Find(n)
    BY <1>1, <1>hand, <2>1 DEF Find, TypeOK, ThreadInv, InHand, Holds, Closes, Removes,
       LockPCs, ChPCs, CallPCs, LeavePCs, TailPCs, GcPCs
  <2>2. CASE Create(n)
    BY <1>1, <1>hand, <2>2 DEF Create, TypeOK, ThreadInv, InHand, Holds, Closes, Removes,
       LockPCs, ChPCs, CallPCs, LeavePCs, TailPCs, GcPCs
  <2> QED  BY <1>split, <2>1, <2>2
<1>7. ASSUME NEW u \in Threads, u # t  PROVE Rely(u)
  <2>1. /\ nInst' \in Nat /\ nInst <= nInst'
        /\ \A i \in 1 .. nInst : nameOf'[i] = nameOf[i]
        /\ \A m \in Names : reg'[m] = reg[m] \/ reg'[m] = 0 \/ reg'[m] = nInst + 1
    <3>1. CASE Find(n)
      BY <1>1, <1>hand, <3>1 DEF Find
    <3>2. CASE Create(n)
      BY <1>1, <1>hand, <3>2 DEF Create, TypeOK
    <3> QED  BY <1>split, <3>1, <3>2
  <2>2. \A z \in Sessions, m \in Names : subTo[z][m] # 0 => subTo'[z][m] # 0
    BY <1>1 DEF TypeOK
  <2> QED
    BY <1>1, <1>7, <2>1, <2>2 DEF TypeOK, Rely
<1> QED  BY <1>3, <1>4, <1>5, <1>6, <1>7, Assemble

(* The session enters chSubscribers under the exclusive lock.               *)
LEMMA SubscribeStep ==
    ASSUME IInv, NEW t \in Threads, Subscribe(t)
    PROVE  IInv'
<1> USE ChannelsAssumption DEF Insts, Subscribe, Locked, Free, Goto, vars, chanVars,
   sessVars, callVars, pushVars, gcVars, history
<1>1. TypeOK /\ ObjectInv /\ ThreadInv(t) /\ KeepsSubscription
  BY DEF IInv
<1>hand. ch[t] \in 1 .. nInst /\ ch[t] \in 1 .. MaxInst /\ nameOf[ch[t]] \in Names /\ who[t] \in Sessions
  BY <1>1 DEF TypeOK, ObjectInv, ThreadInv, InHand, Removes, LockPCs, ChPCs, CallPCs,
     LeavePCs, TailPCs, GcPCs
<1>3. TypeOK'
  <2>1. joinedAt' \in [Sessions -> [Names -> 0 .. MaxInst]]
    BY <1>1, <1>hand DEF TypeOK
  <2>2. subs' \in [1 .. MaxInst -> SUBSET Sessions]
    BY <1>1, <1>hand DEF TypeOK
  <2> QED
    BY <1>1, <1>hand, <2>1, <2>2 DEF TypeOK, PCs, Ops, SockStates, Callers, LockPCs, ChPCs,
       CallPCs, LeavePCs, TailPCs, GcPCs
<1>4. ObjectInv'
  <2>1. \A z \in Sessions, m \in Names : joinedAt'[z][m] =
             IF z = who[t] /\ m = nameOf[ch[t]] THEN ch[t] ELSE joinedAt[z][m]
    BY <1>1, <1>hand DEF TypeOK
  <2>2. ASSUME NEW z \in Sessions, NEW m \in Names
        PROVE  /\ joinedAt'[z][m] \in 0 .. nInst
               /\ joinedAt'[z][m] # 0 => nameOf[joinedAt'[z][m]] = m
    BY <1>1, <1>hand, <2>1 DEF ObjectInv
  <2> QED
    BY <1>1, <2>2 DEF ObjectInv
<1>5. KeepsSubscription'
  <2>1. \A z \in Sessions, m \in Names : joinedAt'[z][m] =
             IF z = who[t] /\ m = nameOf[ch[t]] THEN ch[t] ELSE joinedAt[z][m]
    BY <1>1, <1>hand DEF TypeOK
  <2>2. \A i \in 1 .. MaxInst : subs[i] \subseteq subs'[i] /\ who[t] \in subs'[ch[t]] /\ sock' = sock
    BY <1>1, <1>hand DEF TypeOK
  <2>3. ASSUME NEW z \in Sessions, NEW m \in Names, sock'[z] = "open", joinedAt'[z][m] # 0
        PROVE  z \in subs'[joinedAt'[z][m]]
    <3>1. CASE z = who[t] /\ m = nameOf[ch[t]]
      BY <1>hand, <2>1, <2>2, <3>1
    <3>2. CASE ~(z = who[t] /\ m = nameOf[ch[t]])
      <4>1. joinedAt'[z][m] = joinedAt[z][m]
        BY <2>1, <3>2
      <4>2. z \in subs[joinedAt[z][m]] /\ joinedAt[z][m] \in 1 .. MaxInst
        BY <1>1, <2>2, <2>3, <4>1 DEF KeepsSubscription, TypeOK
      <4> QED  BY <2>2, <4>1, <4>2
    <3> QED  BY <3>1, <3>2
  <2> QED  BY <2>3 DEF KeepsSubscription
<1>6. ThreadInv(t)'
  BY <1>1, <1>hand DEF TypeOK, ThreadInv, InHand, Holds, Closes, Removes, LockPCs, ChPCs,
     CallPCs, LeavePCs, TailPCs, GcPCs
<1>7. ASSUME NEW u \in Threads, u # t  PROVE Rely(u)
  <2>1. \A s \in Sessions : Owner[s] = u => joinedAt'[s] = joinedAt[s]
    BY <1>1, <1>hand, <1>7 DEF TypeOK, ThreadInv, Removes
  <2>2. \A i \in 1 .. MaxInst : lockX[i] = u => lockX'[i] = u /\ subs'[i] \subseteq subs[i]
    BY <1>1, <1>hand, <1>7 DEF TypeOK
  <2> QED
    BY <1>1, <1>7, <2>1, <2>2 DEF TypeOK, Rely
<1> QED  BY <1>3, <1>4, <1>5, <1>6, <1>7, Assemble

(* The lock of Subscribe is released and the reply sent.                    *)
LEMMA SubscribedStep ==
    ASSUME IInv, NEW t \in Threads, Subscribed(t)
    PROVE  IInv'
<1> USE ChannelsAssumption DEF Insts, Subscribed, JoinedUnlock, Unlocked, Goto, Return,
   vars, chanVars, sessVars, callVars, pushVars, gcVars, history
<1>1. TypeOK /\ ObjectInv /\ ThreadInv(t) /\ KeepsSubscription
  BY DEF IInv
<1>hand. ch[t] \in 1 .. nInst /\ ch[t] \in 1 .. MaxInst /\ nameOf[ch[t]] \in Names /\ who[t] \in Sessions
  BY <1>1 DEF TypeOK, ObjectInv, ThreadInv, InHand, Removes, LockPCs, ChPCs, CallPCs,
     LeavePCs, TailPCs, GcPCs
<1>3. TypeOK'
  <2>1. unleft' \in [Sessions -> SUBSET (1 .. MaxInst)]
    BY <1>1, <1>hand DEF TypeOK
  <2>2. lockX' \in [1 .. MaxInst -> Threads \cup {None}]
    BY <1>1, <1>hand DEF TypeOK
  <2> QED
    BY <1>1, <1>hand, <2>1, <2>2 DEF TypeOK, PCs, Ops, SockStates, Callers, LockPCs, ChPCs,
       CallPCs, LeavePCs, TailPCs, GcPCs
<1>4. ObjectInv'
  BY <1>1, <1>hand DEF ObjectInv
<1>5. KeepsSubscription'
  BY <1>1, <1>hand DEF KeepsSubscription
<1>6. ThreadInv(t)'
  BY <1>1, <1>hand DEF TypeOK, ThreadInv, InHand, Holds, Closes, Removes, LockPCs, ChPCs,
     CallPCs, LeavePCs, TailPCs, GcPCs
<1>7. ASSUME NEW u \in Threads, u # t  PROVE Rely(u)
  <2>0. ThreadInv(u)
    BY DEF IInv
  <2> QED
    BY <1>1, <1>hand, <1>7, <2>0 DEF TypeOK, ObjectInv, ThreadInv, InHand, Holds, Rely,
       LockPCs, ChPCs, CallPCs, LeavePCs, TailPCs, GcPCs
<1> QED  BY <1>3, <1>4, <1>5, <1>6, <1>7, Assemble

(* The lock of Subscribe is released and the reply fails.                   *)
LEMMA SubscribedUnrepliedStep ==
    ASSUME IInv, NEW t \in Threads, SubscribedUnreplied(t)
    PROVE  IInv'
<1> USE ChannelsAssumption DEF Insts, SubscribedUnreplied, JoinedUnlock, Unlocked, Goto,
   CallOnSocketError, vars, chanVars, sessVars, callVars, pushVars, gcVars, history
<1>1. TypeOK /\ ObjectInv /\ ThreadInv(t) /\ KeepsSubscription
  BY DEF IInv
<1>hand. ch[t] \in 1 .. nInst /\ ch[t] \in 1 .. MaxInst /\ nameOf[ch[t]] \in Names /\ who[t] \in Sessions
  BY <1>1 DEF TypeOK, ObjectInv, ThreadInv, InHand, Removes, LockPCs, ChPCs, CallPCs,
     LeavePCs, TailPCs, GcPCs
<1>3. TypeOK'
  BY <1>1, <1>hand DEF TypeOK, PCs, Ops, SockStates, Callers, LeavePCs, TailPCs, GcPCs
<1>4. ObjectInv'
  BY <1>1, <1>hand DEF ObjectInv
<1>5. KeepsSubscription'
  BY <1>1, <1>hand DEF KeepsSubscription
<1>6. ThreadInv(t)'
  BY <1>1, <1>hand DEF TypeOK, ThreadInv, InHand, Holds, Closes, Removes, LockPCs, ChPCs,
     CallPCs, LeavePCs, TailPCs, GcPCs
<1>7. ASSUME NEW u \in Threads, u # t  PROVE Rely(u)
  <2>0. ThreadInv(u)
    BY DEF IInv
  <2> QED
    BY <1>1, <1>hand, <1>7, <2>0 DEF TypeOK, ObjectInv, ThreadInv, InHand, Holds, Rely,
       LockPCs, ChPCs, CallPCs, LeavePCs, TailPCs, GcPCs
<1> QED  BY <1>3, <1>4, <1>5, <1>6, <1>7, Assemble

(* A client asks to leave a channel that exists.                            *)
LEMMA OnPusherUnSubscribeStep ==
    ASSUME IInv, NEW t \in Threads, NEW s \in Sessions, NEW n \in Names, OnPusherUnSubscribe(t, s, n)
    PROVE  IInv'
<1> USE ChannelsAssumption DEF Insts, OnPusherUnSubscribe, WantsOut, Goto, CallUnSubscribe,
   vars, chanVars, sessVars, callVars, pushVars, gcVars, history
<1>1. TypeOK /\ ObjectInv /\ ThreadInv(t) /\ KeepsSubscription
  BY DEF IInv
<1>3. TypeOK'
  BY <1>1 DEF TypeOK, PCs, Ops, SockStates, Callers, LeavePCs, TailPCs, GcPCs
<1>4. ObjectInv'
  BY <1>1 DEF TypeOK, ObjectInv, ThreadInv, InHand, LockPCs, ChPCs, CallPCs, LeavePCs,
     TailPCs, GcPCs
<1>5. KeepsSubscription'
  BY <1>1 DEF KeepsSubscription
<1>6. ThreadInv(t)'
  <2>1. InHand(t)'
    BY <1>1 DEF TypeOK, ObjectInv, ThreadInv, InHand, LockPCs, ChPCs, CallPCs, LeavePCs,
       TailPCs, GcPCs
  <2>2. Holds(t)'
    BY <1>1 DEF TypeOK, ThreadInv, InHand, Holds, LockPCs, ChPCs, CallPCs, LeavePCs,
       TailPCs, GcPCs
  <2>3. Closes(t)'
    BY <1>1 DEF TypeOK, ObjectInv, ThreadInv, InHand, Closes, LockPCs, ChPCs, CallPCs,
       LeavePCs, TailPCs, GcPCs
  <2>4. Removes(t)'
    BY <1>1 DEF TypeOK, ObjectInv, ThreadInv, InHand, Removes, LockPCs, ChPCs, CallPCs,
       LeavePCs, TailPCs, GcPCs
  <2> QED  BY <2>1, <2>2, <2>3, <2>4 DEF ThreadInv
<1>7. ASSUME NEW u \in Threads, u # t  PROVE Rely(u)
  BY <1>1, <1>7 DEF TypeOK, Rely
<1> QED  BY <1>3, <1>4, <1>5, <1>6, <1>7, Assemble

(* A client asks to leave a channel that is gone.                           *)
LEMMA OnPusherUnSubscribeExpiredStep ==
    ASSUME IInv, NEW t \in Threads, NEW s \in Sessions, NEW n \in Names, OnPusherUnSubscribeExpired(t, s, n)
    PROVE  IInv'
<1> USE ChannelsAssumption DEF Insts, OnPusherUnSubscribeExpired, WantsOut, vars, chanVars,
   sessVars, callVars, pushVars, gcVars, history
<1>1. TypeOK /\ ObjectInv /\ ThreadInv(t) /\ KeepsSubscription
  BY DEF IInv
<1>3. TypeOK'
  BY <1>1 DEF TypeOK, PCs, Ops
<1>4. ObjectInv'
  <2>1. ASSUME NEW z \in Sessions, NEW m \in Names
        PROVE  joinedAt'[z][m] = 0 \/ joinedAt'[z][m] = joinedAt[z][m]
    BY <1>1 DEF TypeOK
  <2>2. ASSUME NEW z \in Sessions, NEW m \in Names
        PROVE  /\ joinedAt'[z][m] \in 0 .. nInst
               /\ joinedAt'[z][m] # 0 => nameOf[joinedAt'[z][m]] = m
    BY <1>1, <2>1 DEF ObjectInv, TypeOK
  <2> QED
    BY <1>1, <2>2 DEF ObjectInv
<1>5. KeepsSubscription'
  BY <1>1 DEF KeepsSubscription
<1>6. ThreadInv(t)'
  BY <1>1 DEF TypeOK, ThreadInv, InHand, Holds, Closes, Removes, LockPCs, ChPCs, CallPCs,
     LeavePCs, TailPCs, GcPCs
<1>7. ASSUME NEW u \in Threads, u # t  PROVE Rely(u)
  BY <1>1, <1>7 DEF TypeOK, Rely
<1> QED  BY <1>3, <1>4, <1>5, <1>6, <1>7, Assemble

(* UnSubscribe takes the lock and erases its session.                       *)
LEMMA UnSubscribeStep ==
    ASSUME IInv, NEW t \in Threads, UnSubscribe(t)
    PROVE  IInv'
<1> USE ChannelsAssumption DEF Insts, UnSubscribe, Locked, Free, Goto, vars, chanVars,
   sessVars, callVars, pushVars, gcVars, history
<1>1. TypeOK /\ ObjectInv /\ ThreadInv(t) /\ KeepsSubscription
  BY DEF IInv
<1>hand. at[t] \in 1 .. nInst /\ at[t] \in 1 .. MaxInst /\ nameOf[at[t]] \in Names /\ who[t] \in Sessions
  BY <1>1 DEF TypeOK, ObjectInv, ThreadInv, InHand, Removes, LockPCs, ChPCs, CallPCs,
     LeavePCs, TailPCs, GcPCs
<1>3. TypeOK'
  BY <1>1, <1>hand DEF TypeOK, PCs, Ops, SockStates, Callers, LeavePCs, TailPCs, GcPCs
<1>4. ObjectInv'
  BY <1>1, <1>hand DEF ObjectInv
<1>5. KeepsSubscription'
  <2> SUFFICES ASSUME NEW z \in Sessions, NEW m \in Names, sock[z] = "open", joinedAt[z][m] # 0
               PROVE  z \in subs'[joinedAt[z][m]]
    BY DEF KeepsSubscription
  <2>1. z \in subs[joinedAt[z][m]] /\ joinedAt[z][m] \in 1 .. MaxInst /\ nameOf[joinedAt[z][m]] = m
    BY <1>1 DEF KeepsSubscription, TypeOK, ObjectInv
  <2>2. ~(z = who[t] /\ joinedAt[z][m] = at[t])
    BY <1>1, <2>1 DEF TypeOK, Callers, ThreadInv, Removes, LeavePCs
  <2> QED  BY <1>1, <1>hand, <2>1, <2>2 DEF TypeOK
<1>6. ThreadInv(t)'
  BY <1>1, <1>hand DEF TypeOK, ThreadInv, InHand, Holds, Closes, Removes, LockPCs, ChPCs,
     CallPCs, LeavePCs, TailPCs, GcPCs
<1>7. ASSUME NEW u \in Threads, u # t  PROVE Rely(u)
  <2>1. \A i \in 1 .. MaxInst : lockX[i] = u => lockX'[i] = u /\ subs'[i] \subseteq subs[i]
    BY <1>1, <1>hand, <1>7 DEF TypeOK
  <2> QED
    BY <1>1, <1>7, <2>1 DEF TypeOK, Rely
<1> QED  BY <1>3, <1>4, <1>5, <1>6, <1>7, Assemble

(* UnSubscribe closes the channel it found empty.                           *)
LEMMA UnSubscribeCloseStep ==
    ASSUME IInv, NEW t \in Threads, UnSubscribeClose(t)
    PROVE  IInv'
<1> USE ChannelsAssumption DEF Insts, UnSubscribeClose, Goto, UnRegister, vars, chanVars,
   sessVars, callVars, pushVars, gcVars, history
<1>1. TypeOK /\ ObjectInv /\ ThreadInv(t) /\ KeepsSubscription
  BY DEF IInv
<1>hand. at[t] \in 1 .. nInst /\ at[t] \in 1 .. MaxInst /\ nameOf[at[t]] \in Names
  BY <1>1 DEF TypeOK, ObjectInv, ThreadInv, InHand, Removes, LockPCs, ChPCs, CallPCs,
     LeavePCs, TailPCs, GcPCs
<1>3. TypeOK'
  <2>1. reg' \in [Names -> 0 .. MaxInst]
    BY <1>1, <1>hand DEF TypeOK
  <2> QED
    BY <1>1, <1>hand, <2>1 DEF TypeOK, PCs, Ops, SockStates, Callers, LockPCs, ChPCs,
       CallPCs, LeavePCs, TailPCs, GcPCs
<1>4. ObjectInv'
  BY <1>1, <1>hand DEF ObjectInv
<1>5. KeepsSubscription'
  BY <1>1, <1>hand DEF KeepsSubscription
<1>6. ThreadInv(t)'
  BY <1>1, <1>hand DEF TypeOK, ThreadInv, InHand, Holds, Closes, Removes, LockPCs, ChPCs,
     CallPCs, LeavePCs, TailPCs, GcPCs
<1>7. ASSUME NEW u \in Threads, u # t  PROVE Rely(u)
  BY <1>1, <1>hand, <1>7 DEF TypeOK, Rely
<1> QED  BY <1>3, <1>4, <1>5, <1>6, <1>7, Assemble

(* UnSubscribe releases its lock and returns.                               *)
LEMMA UnSubscribedStep ==
    ASSUME IInv, NEW t \in Threads, UnSubscribed(t)
    PROVE  IInv'
<1> USE ChannelsAssumption DEF Insts, UnSubscribed, Goto, Unlocked, Left, vars, chanVars,
   sessVars, callVars, pushVars, gcVars, history
<1>1. TypeOK /\ ObjectInv /\ ThreadInv(t) /\ KeepsSubscription
  BY DEF IInv
<1>hand. at[t] \in 1 .. nInst /\ at[t] \in 1 .. MaxInst /\ nameOf[at[t]] \in Names /\ who[t] \in Sessions
  BY <1>1 DEF TypeOK, ObjectInv, ThreadInv, InHand, Removes, LockPCs, ChPCs, CallPCs,
     LeavePCs, TailPCs, GcPCs
<1>split. LeftToError(t) \/ LeftToPush(t) \/ LeftToClient(t)
  OBVIOUS
<1>3. TypeOK'
  <2>1. lockX' \in [1 .. MaxInst -> Threads \cup {None}]
    BY <1>1, <1>hand DEF TypeOK
  <2>2. unleft' \in [Sessions -> SUBSET (1 .. MaxInst)]
    BY <1>1, <1>hand DEF TypeOK
  <2>3. CASE LeftToError(t)
    BY <1>1, <2>1, <2>2, <2>3 DEF LeftToError, TypeOK, PCs, Ops, SockStates, Callers,
       LockPCs, ChPCs, CallPCs, LeavePCs, TailPCs, GcPCs
  <2>4. CASE LeftToPush(t)
    BY <1>1, <2>1, <2>2, <2>4 DEF LeftToPush, Done, TypeOK, PCs, Ops, SockStates, Callers,
       LockPCs, ChPCs, CallPCs, LeavePCs, TailPCs, GcPCs
  <2>5. CASE LeftToClient(t)
    BY <1>1, <2>1, <2>2, <2>5 DEF LeftToClient, Done, Return, TypeOK, PCs, Ops, SockStates,
       Callers, LockPCs, ChPCs, CallPCs, LeavePCs, TailPCs, GcPCs
  <2> QED  BY <1>split, <2>3, <2>4, <2>5
<1>4. ObjectInv'
  BY <1>1, <1>hand DEF ObjectInv
<1>5. KeepsSubscription'
  BY <1>1, <1>hand DEF KeepsSubscription
<1>6. ThreadInv(t)'
  <2>1. CASE LeftToError(t)
    BY <1>1, <1>hand, <2>1 DEF LeftToError, TypeOK, ThreadInv, InHand, Holds, Closes,
       Removes, LockPCs, ChPCs, CallPCs, LeavePCs, TailPCs, GcPCs
  <2>2. CASE LeftToPush(t)
    BY <1>1, <1>hand, <2>2 DEF LeftToPush, Done, TypeOK, ThreadInv, InHand, Holds, Closes,
       Removes, LockPCs, ChPCs, CallPCs, LeavePCs, TailPCs, GcPCs
  <2>3. CASE LeftToClient(t)
    BY <1>1, <1>hand, <2>3 DEF LeftToClient, Done, Return, TypeOK, ThreadInv, InHand, Holds,
       Closes, Removes, LockPCs, ChPCs, CallPCs, LeavePCs, TailPCs, GcPCs
  <2> QED  BY <1>split, <2>1, <2>2, <2>3
<1>7. ASSUME NEW u \in Threads, u # t  PROVE Rely(u)
  <2>0. ThreadInv(u)
    BY DEF IInv
  <2>1. CASE LeftToError(t)
    BY <1>1, <1>hand, <1>7, <2>0, <2>1 DEF LeftToError, TypeOK, ObjectInv, ThreadInv,
       InHand, Holds, Rely, LockPCs, ChPCs, CallPCs, LeavePCs, TailPCs, GcPCs
  <2>2. CASE LeftToPush(t)
    BY <1>1, <1>hand, <1>7, <2>0, <2>2 DEF LeftToPush, Done, TypeOK, ObjectInv, ThreadInv,
       InHand, Holds, Rely, LockPCs, ChPCs, CallPCs, LeavePCs, TailPCs, GcPCs
  <2>3. CASE LeftToClient(t)
    BY <1>1, <1>hand, <1>7, <2>0, <2>3 DEF LeftToClient, Done, Return, TypeOK, ObjectInv,
       ThreadInv, InHand, Holds, Rely, LockPCs, ChPCs, CallPCs, LeavePCs, TailPCs, GcPCs
  <2> QED  BY <1>split, <2>1, <2>2, <2>3
<1> QED  BY <1>3, <1>4, <1>5, <1>6, <1>7, Assemble

(* UnSubscribe finds the lock taken and returns.                            *)
LEMMA UnSubscribeBusyStep ==
    ASSUME IInv, NEW t \in Threads, UnSubscribeBusy(t)
    PROVE  IInv'
<1> USE ChannelsAssumption DEF Insts, UnSubscribeBusy, Goto, Left, vars, chanVars, sessVars,
   callVars, pushVars, gcVars, history
<1>1. TypeOK /\ ObjectInv /\ ThreadInv(t) /\ KeepsSubscription
  BY DEF IInv
<1>split. LeftToError(t) \/ LeftToPush(t) \/ LeftToClient(t)
  OBVIOUS
<1>3. TypeOK'
  <2>1. CASE LeftToError(t)
    BY <1>1, <2>1 DEF LeftToError, TypeOK, ObjectInv, ThreadInv, InHand, PCs, Ops,
       SockStates, Callers, LockPCs, ChPCs, CallPCs, LeavePCs, TailPCs, GcPCs
  <2>2. CASE LeftToPush(t)
    BY <1>1, <2>2 DEF LeftToPush, Done, TypeOK, ObjectInv, ThreadInv, InHand, PCs, Ops,
       SockStates, Callers, LockPCs, ChPCs, CallPCs, LeavePCs, TailPCs, GcPCs
  <2>3. CASE LeftToClient(t)
    BY <1>1, <2>3 DEF LeftToClient, Done, Return, TypeOK, ObjectInv, ThreadInv, InHand, PCs,
       Ops, SockStates, Callers, LockPCs, ChPCs, CallPCs, LeavePCs, TailPCs, GcPCs
  <2> QED  BY <1>split, <2>1, <2>2, <2>3
<1>4. ObjectInv'
  BY <1>1 DEF ObjectInv
<1>5. KeepsSubscription'
  BY <1>1 DEF KeepsSubscription
<1>6. ThreadInv(t)'
  <2>1. CASE LeftToError(t)
    BY <1>1, <2>1 DEF LeftToError, TypeOK, ThreadInv, InHand, Holds, Closes, Removes,
       LockPCs, ChPCs, CallPCs, LeavePCs, TailPCs, GcPCs
  <2>2. CASE LeftToPush(t)
    BY <1>1, <2>2 DEF LeftToPush, Done, TypeOK, ThreadInv, InHand, Holds, Closes, Removes,
       LockPCs, ChPCs, CallPCs, LeavePCs, TailPCs, GcPCs
  <2>3. CASE LeftToClient(t)
    BY <1>1, <2>3 DEF LeftToClient, Done, Return, TypeOK, ThreadInv, InHand, Holds, Closes,
       Removes, LockPCs, ChPCs, CallPCs, LeavePCs, TailPCs, GcPCs
  <2> QED  BY <1>split, <2>1, <2>2, <2>3
<1>7. ASSUME NEW u \in Threads, u # t  PROVE Rely(u)
  <2>1. CASE LeftToError(t)
    BY <1>1, <1>7, <2>1 DEF LeftToError, TypeOK, ThreadInv, InHand, Rely, LockPCs, ChPCs,
       CallPCs, LeavePCs, TailPCs, GcPCs
  <2>2. CASE LeftToPush(t)
    BY <1>1, <1>7, <2>2 DEF LeftToPush, Done, TypeOK, ThreadInv, InHand, Rely, LockPCs,
       ChPCs, CallPCs, LeavePCs, TailPCs, GcPCs
  <2>3. CASE LeftToClient(t)
    BY <1>1, <1>7, <2>3 DEF LeftToClient, Done, Return, TypeOK, ThreadInv, InHand, Rely,
       LockPCs, ChPCs, CallPCs, LeavePCs, TailPCs, GcPCs
  <2> QED  BY <1>split, <2>1, <2>2, <2>3
<1> QED  BY <1>3, <1>4, <1>5, <1>6, <1>7, Assemble

(* OnSocketError unsubscribes from the next channel.                        *)
LEMMA OnSocketErrorStep ==
    ASSUME IInv, NEW t \in Threads, NEW n \in Names, OnSocketError(t, n)
    PROVE  IInv'
<1> USE ChannelsAssumption DEF Insts, OnSocketError, Visit, Goto, vars, chanVars, sessVars,
   callVars, pushVars, gcVars, history
<1>1. TypeOK /\ ObjectInv /\ ThreadInv(t) /\ KeepsSubscription
  BY DEF IInv
<1>hand. who[t] \in Sessions /\ subTo[who[t]][n] \in 1 .. nInst /\ subTo[who[t]][n] \in 1 .. MaxInst
  BY <1>1 DEF TypeOK, ObjectInv, ThreadInv, InHand, Removes, LockPCs, ChPCs, CallPCs,
     LeavePCs, TailPCs, GcPCs
<1>3. TypeOK'
  <2>1. at' \in [Threads -> 0 .. MaxInst]
    BY <1>1, <1>hand DEF TypeOK
  <2>2. names' \in [Threads -> SUBSET Names]
    BY <1>1, <1>hand DEF TypeOK
  <2> QED
    BY <1>1, <1>hand, <2>1, <2>2 DEF TypeOK, PCs, Ops, SockStates, Callers, LockPCs, ChPCs,
       CallPCs, LeavePCs, TailPCs, GcPCs
<1>4. ObjectInv'
  BY <1>1, <1>hand DEF ObjectInv
<1>5. KeepsSubscription'
  BY <1>1, <1>hand DEF KeepsSubscription
<1>6. ThreadInv(t)'
  <2>1. InHand(t)'
    <3>1. at'[t] = subTo[who[t]][n] /\ pc'[t] = "leave" /\ names'[t] = names[t] \ {n}
      BY <1>1 DEF TypeOK
    <3> QED  BY <1>1, <1>hand, <3>1 DEF TypeOK, ThreadInv, InHand, Removes, LockPCs, ChPCs,
       CallPCs, LeavePCs, TailPCs, GcPCs
  <2>2. Holds(t)'
    BY <1>1, <1>hand DEF TypeOK, ThreadInv, InHand, Holds, LockPCs, ChPCs, CallPCs,
       LeavePCs, TailPCs, GcPCs
  <2>3. Closes(t)'
    BY <1>1, <1>hand DEF TypeOK, ThreadInv, InHand, Closes, LockPCs, ChPCs, CallPCs,
       LeavePCs, TailPCs, GcPCs
  <2>4. Removes(t)'
    BY <1>1, <1>hand DEF TypeOK, ThreadInv, InHand, Removes, LockPCs, ChPCs, CallPCs,
       LeavePCs, TailPCs, GcPCs
  <2> QED  BY <2>1, <2>2, <2>3, <2>4 DEF ThreadInv
<1>7. ASSUME NEW u \in Threads, u # t  PROVE Rely(u)
  BY <1>1, <1>hand, <1>7 DEF TypeOK, Rely
<1> QED  BY <1>3, <1>4, <1>5, <1>6, <1>7, Assemble

(* OnSocketError skips a channel that is gone.                              *)
LEMMA OnSocketErrorExpiredStep ==
    ASSUME IInv, NEW t \in Threads, NEW n \in Names, OnSocketErrorExpired(t, n)
    PROVE  IInv'
<1> USE ChannelsAssumption DEF Insts, OnSocketErrorExpired, Visit, vars, chanVars, sessVars,
   callVars, pushVars, gcVars, history
<1>1. TypeOK /\ ObjectInv /\ ThreadInv(t) /\ KeepsSubscription
  BY DEF IInv
<1>3. TypeOK'
  BY <1>1 DEF TypeOK, PCs, Ops
<1>4. ObjectInv'
  BY <1>1 DEF ObjectInv
<1>5. KeepsSubscription'
  BY <1>1 DEF KeepsSubscription
<1>6. ThreadInv(t)'
  BY <1>1 DEF TypeOK, ThreadInv, InHand, Holds, Closes, Removes, LockPCs, ChPCs, CallPCs,
     LeavePCs, TailPCs, GcPCs
<1>7. ASSUME NEW u \in Threads, u # t  PROVE Rely(u)
  BY <1>1, <1>7 DEF TypeOK, Rely
<1> QED  BY <1>3, <1>4, <1>5, <1>6, <1>7, Assemble

(* OnSocketError closes the socket, called by a poll.                       *)
LEMMA SocketCloseStep ==
    ASSUME IInv, NEW t \in Threads, SocketClose(t)
    PROVE  IInv'
<1> USE ChannelsAssumption DEF Insts, SocketClose, Closed, Goto, Return, Done, vars,
   chanVars, sessVars, callVars, pushVars, gcVars, history
<1>1. TypeOK /\ ObjectInv /\ ThreadInv(t) /\ KeepsSubscription
  BY DEF IInv
<1>3. TypeOK'
  BY <1>1 DEF TypeOK, ObjectInv, ThreadInv, InHand, PCs, Ops, SockStates, Callers, LockPCs,
     ChPCs, CallPCs, LeavePCs, TailPCs, GcPCs
<1>4. ObjectInv'
  BY <1>1 DEF ObjectInv
<1>5. KeepsSubscription'
  BY <1>1 DEF KeepsSubscription
<1>6. ThreadInv(t)'
  BY <1>1 DEF TypeOK, ThreadInv, InHand, Holds, Closes, Removes, LockPCs, ChPCs, CallPCs,
     LeavePCs, TailPCs, GcPCs
<1>7. ASSUME NEW u \in Threads, u # t  PROVE Rely(u)
  BY <1>1, <1>7 DEF TypeOK, Rely
<1> QED  BY <1>3, <1>4, <1>5, <1>6, <1>7, Assemble

(* OnSocketError closes the socket, called by Push.                         *)
LEMMA SocketCloseInPushStep ==
    ASSUME IInv, NEW t \in Threads, SocketCloseInPush(t)
    PROVE  IInv'
<1> USE ChannelsAssumption DEF Insts, SocketCloseInPush, Closed, Goto, CallUnSubscribe,
   vars, chanVars, sessVars, callVars, pushVars, gcVars, history
<1>1. TypeOK /\ ObjectInv /\ ThreadInv(t) /\ KeepsSubscription
  BY DEF IInv
<1>3. TypeOK'
  BY <1>1 DEF TypeOK, PCs, Ops, SockStates, Callers, LeavePCs, TailPCs, GcPCs
<1>4. ObjectInv'
  BY <1>1 DEF ObjectInv
<1>5. KeepsSubscription'
  BY <1>1 DEF KeepsSubscription
<1>6. ThreadInv(t)'
  BY <1>1 DEF TypeOK, ThreadInv, InHand, Holds, Closes, Removes, LockPCs, ChPCs, CallPCs,
     LeavePCs, TailPCs, GcPCs
<1>7. ASSUME NEW u \in Threads, u # t  PROVE Rely(u)
  BY <1>1, <1>7 DEF TypeOK, Rely
<1> QED  BY <1>3, <1>4, <1>5, <1>6, <1>7, Assemble

(* OnSocketError closes the socket, called by Gc.                           *)
LEMMA SocketCloseInGcStep ==
    ASSUME IInv, NEW t \in Threads, SocketCloseInGc(t)
    PROVE  IInv'
<1> USE ChannelsAssumption DEF Insts, SocketCloseInGc, Closed, Goto, Done, vars, chanVars,
   sessVars, callVars, pushVars, gcVars, history
<1>1. TypeOK /\ ObjectInv /\ ThreadInv(t) /\ KeepsSubscription
  BY DEF IInv
<1>3. TypeOK'
  BY <1>1 DEF TypeOK, PCs, Ops, SockStates, Callers, LeavePCs, TailPCs, GcPCs
<1>4. ObjectInv'
  BY <1>1 DEF ObjectInv
<1>5. KeepsSubscription'
  BY <1>1 DEF KeepsSubscription
<1>6. ThreadInv(t)'
  BY <1>1 DEF TypeOK, ThreadInv, InHand, Holds, Closes, Removes, LockPCs, ChPCs, CallPCs,
     LeavePCs, TailPCs, GcPCs
<1>7. ASSUME NEW u \in Threads, u # t  PROVE Rely(u)
  BY <1>1, <1>7 DEF TypeOK, Rely
<1> QED  BY <1>3, <1>4, <1>5, <1>6, <1>7, Assemble

(* A raw session pushes.                                                    *)
LEMMA OnWsMessageStep ==
    ASSUME IInv, NEW t \in Threads, NEW s \in Sessions, NEW n \in Names, NEW r \in Requests, OnWsMessage(t, s, n, r)
    PROVE  IInv'
<1> USE ChannelsAssumption DEF Insts, OnWsMessage, CallPush, Goto, vars, chanVars, sessVars,
   callVars, pushVars, gcVars, history
<1>1. TypeOK /\ ObjectInv /\ ThreadInv(t) /\ KeepsSubscription
  BY DEF IInv
<1>3. TypeOK'
  BY <1>1 DEF TypeOK, PCs, Ops
<1>4. ObjectInv'
  BY <1>1 DEF ObjectInv
<1>5. KeepsSubscription'
  BY <1>1 DEF KeepsSubscription
<1>6. ThreadInv(t)'
  <2>1. InHand(t)'
    BY <1>1 DEF TypeOK, ObjectInv, ThreadInv, InHand, LockPCs, ChPCs, CallPCs, LeavePCs,
       TailPCs, GcPCs
  <2>2. Holds(t)'
    BY <1>1 DEF TypeOK, ThreadInv, InHand, Holds, LockPCs, ChPCs, CallPCs, LeavePCs,
       TailPCs, GcPCs
  <2>3. Closes(t)'
    BY <1>1 DEF TypeOK, ObjectInv, ThreadInv, InHand, Closes, LockPCs, ChPCs, CallPCs,
       LeavePCs, TailPCs, GcPCs
  <2>4. Removes(t)'
    BY <1>1 DEF TypeOK, ObjectInv, ThreadInv, InHand, Removes, LockPCs, ChPCs, CallPCs,
       LeavePCs, TailPCs, GcPCs
  <2> QED  BY <2>1, <2>2, <2>3, <2>4 DEF ThreadInv
<1>7. ASSUME NEW u \in Threads, u # t  PROVE Rely(u)
  BY <1>1, <1>7 DEF TypeOK, Rely
<1> QED  BY <1>3, <1>4, <1>5, <1>6, <1>7, Assemble

(* A raw session names a channel it has not.                                *)
LEMMA OnWsMessageUnknownStep ==
    ASSUME IInv, NEW t \in Threads, NEW s \in Sessions, NEW n \in Names, OnWsMessageUnknown(t, s, n)
    PROVE  IInv'
<1> USE ChannelsAssumption DEF Insts, OnWsMessageUnknown, Goto, CallOnSocketError, vars,
   chanVars, sessVars, callVars, pushVars, gcVars, history
<1>1. TypeOK /\ ObjectInv /\ ThreadInv(t) /\ KeepsSubscription
  BY DEF IInv
<1>3. TypeOK'
  BY <1>1 DEF TypeOK, PCs, Ops, SockStates, Callers, LeavePCs, TailPCs, GcPCs
<1>4. ObjectInv'
  BY <1>1 DEF ObjectInv
<1>5. KeepsSubscription'
  BY <1>1 DEF KeepsSubscription
<1>6. ThreadInv(t)'
  BY <1>1 DEF TypeOK, ThreadInv, InHand, Holds, Closes, Removes, LockPCs, ChPCs, CallPCs,
     LeavePCs, TailPCs, GcPCs
<1>7. ASSUME NEW u \in Threads, u # t  PROVE Rely(u)
  BY <1>1, <1>7 DEF TypeOK, Rely
<1> QED  BY <1>3, <1>4, <1>5, <1>6, <1>7, Assemble

(* The API or the cluster pushes.                                           *)
LEMMA ApiPushStep ==
    ASSUME IInv, NEW t \in Threads, NEW n \in Names, NEW r \in Requests, ApiPush(t, n, r)
    PROVE  IInv'
<1> USE ChannelsAssumption DEF Insts, ApiPush, Goto, CallPush, vars, chanVars, sessVars,
   callVars, pushVars, gcVars, history
<1>1. TypeOK /\ ObjectInv /\ ThreadInv(t) /\ KeepsSubscription
  BY DEF IInv
<1>3. TypeOK'
  BY <1>1 DEF TypeOK, PCs, Ops
<1>4. ObjectInv'
  BY <1>1 DEF ObjectInv
<1>5. KeepsSubscription'
  BY <1>1 DEF KeepsSubscription
<1>6. ThreadInv(t)'
  <2>1. InHand(t)'
    BY <1>1 DEF TypeOK, ObjectInv, ThreadInv, InHand, LockPCs, ChPCs, CallPCs, LeavePCs,
       TailPCs, GcPCs
  <2>2. Holds(t)'
    BY <1>1 DEF TypeOK, ThreadInv, InHand, Holds, LockPCs, ChPCs, CallPCs, LeavePCs,
       TailPCs, GcPCs
  <2>3. Closes(t)'
    BY <1>1 DEF TypeOK, ObjectInv, ThreadInv, InHand, Closes, LockPCs, ChPCs, CallPCs,
       LeavePCs, TailPCs, GcPCs
  <2>4. Removes(t)'
    BY <1>1 DEF TypeOK, ObjectInv, ThreadInv, InHand, Removes, LockPCs, ChPCs, CallPCs,
       LeavePCs, TailPCs, GcPCs
  <2> QED  BY <2>1, <2>2, <2>3, <2>4 DEF ThreadInv
<1>7. ASSUME NEW u \in Threads, u # t  PROVE Rely(u)
  BY <1>1, <1>7 DEF TypeOK, Rely
<1> QED  BY <1>3, <1>4, <1>5, <1>6, <1>7, Assemble

(* Push selects receivers and erases expired entries.                       *)
LEMMA PushSelectStep ==
    ASSUME IInv, NEW t \in Threads, PushSelect(t)
    PROVE  IInv'
<1> USE ChannelsAssumption DEF Insts, PushSelect, Goto, Expired, vars, chanVars, sessVars,
   callVars, pushVars, gcVars, history
<1>1. TypeOK /\ ObjectInv /\ ThreadInv(t) /\ KeepsSubscription
  BY DEF IInv
<1>3. TypeOK'
  BY <1>1 DEF TypeOK, ObjectInv, ThreadInv, InHand, PCs, Ops, SockStates, Callers, LockPCs,
     ChPCs, CallPCs, LeavePCs, TailPCs, GcPCs
<1>4. ObjectInv'
  BY <1>1 DEF ObjectInv
<1>5. KeepsSubscription'
  BY <1>1 DEF KeepsSubscription
<1>6. ThreadInv(t)'
  BY <1>1 DEF TypeOK, ThreadInv, InHand, Holds, Closes, Removes, LockPCs, ChPCs, CallPCs,
     LeavePCs, TailPCs, GcPCs
<1>7. ASSUME NEW u \in Threads, u # t  PROVE Rely(u)
  BY <1>1, <1>7 DEF TypeOK, Rely
<1> QED  BY <1>3, <1>4, <1>5, <1>6, <1>7, Assemble

(* Push releases the shared lock.                                           *)
LEMMA PushSelectedStep ==
    ASSUME IInv, NEW t \in Threads, PushSelected(t)
    PROVE  IInv'
<1> USE ChannelsAssumption DEF Insts, PushSelected, Goto, vars, chanVars, sessVars,
   callVars, pushVars, gcVars, history
<1>1. TypeOK /\ ObjectInv /\ ThreadInv(t) /\ KeepsSubscription
  BY DEF IInv
<1>3. TypeOK'
  BY <1>1 DEF TypeOK, PCs, Ops
<1>4. ObjectInv'
  BY <1>1 DEF ObjectInv
<1>5. KeepsSubscription'
  BY <1>1 DEF KeepsSubscription
<1>6. ThreadInv(t)'
  BY <1>1 DEF TypeOK, ThreadInv, InHand, Holds, Closes, Removes, LockPCs, ChPCs, CallPCs,
     LeavePCs, TailPCs, GcPCs
<1>7. ASSUME NEW u \in Threads, u # t  PROVE Rely(u)
  BY <1>1, <1>7 DEF TypeOK, Rely
<1> QED  BY <1>3, <1>4, <1>5, <1>6, <1>7, Assemble

(* Push delivers to a receiver.                                             *)
LEMMA DeliverStep ==
    ASSUME IInv, NEW t \in Threads, NEW s \in Sessions, Deliver(t, s)
    PROVE  IInv'
<1> USE ChannelsAssumption DEF Insts, Deliver, Receiver, vars, chanVars, sessVars, callVars,
   pushVars, gcVars, history
<1>1. TypeOK /\ ObjectInv /\ ThreadInv(t) /\ KeepsSubscription
  BY DEF IInv
<1>3. TypeOK'
  BY <1>1 DEF TypeOK, PCs, Ops
<1>4. ObjectInv'
  BY <1>1 DEF ObjectInv
<1>5. KeepsSubscription'
  BY <1>1 DEF KeepsSubscription
<1>6. ThreadInv(t)'
  BY <1>1 DEF TypeOK, ThreadInv, InHand, Holds, Closes, Removes, LockPCs, ChPCs, CallPCs,
     LeavePCs, TailPCs, GcPCs
<1>7. ASSUME NEW u \in Threads, u # t  PROVE Rely(u)
  BY <1>1, <1>7 DEF TypeOK, Rely
<1> QED  BY <1>3, <1>4, <1>5, <1>6, <1>7, Assemble

(* Push fails to deliver to a receiver.                                     *)
LEMMA DeliverFailsStep ==
    ASSUME IInv, NEW t \in Threads, NEW s \in Sessions, DeliverFails(t, s)
    PROVE  IInv'
<1> USE ChannelsAssumption DEF Insts, DeliverFails, Receiver, Goto, CallOnSocketError, vars,
   chanVars, sessVars, callVars, pushVars, gcVars, history
<1>1. TypeOK /\ ObjectInv /\ ThreadInv(t) /\ KeepsSubscription
  BY DEF IInv
<1>3. TypeOK'
  BY <1>1 DEF TypeOK, PCs, Ops, SockStates, Callers, LeavePCs, TailPCs, GcPCs
<1>4. ObjectInv'
  BY <1>1 DEF ObjectInv
<1>5. KeepsSubscription'
  BY <1>1 DEF KeepsSubscription
<1>6. ThreadInv(t)'
  BY <1>1 DEF TypeOK, ThreadInv, InHand, Holds, Closes, Removes, LockPCs, ChPCs, CallPCs,
     LeavePCs, TailPCs, GcPCs
<1>7. ASSUME NEW u \in Threads, u # t  PROVE Rely(u)
  BY <1>1, <1>7 DEF TypeOK, Rely
<1> QED  BY <1>3, <1>4, <1>5, <1>6, <1>7, Assemble

(* Push takes the exclusive lock at its end.                                *)
LEMMA PushTailStep ==
    ASSUME IInv, NEW t \in Threads, PushTail(t)
    PROVE  IInv'
<1> USE ChannelsAssumption DEF Insts, PushTail, Goto, Locked, Free, vars, chanVars,
   sessVars, callVars, pushVars, gcVars, history
<1>1. TypeOK /\ ObjectInv /\ ThreadInv(t) /\ KeepsSubscription
  BY DEF IInv
<1>3. TypeOK'
  BY <1>1 DEF TypeOK, PCs, Ops, SockStates, Callers, LeavePCs, TailPCs, GcPCs
<1>4. ObjectInv'
  BY <1>1 DEF ObjectInv
<1>5. KeepsSubscription'
  BY <1>1 DEF KeepsSubscription
<1>6. ThreadInv(t)'
  BY <1>1 DEF TypeOK, ThreadInv, InHand, Holds, Closes, Removes, LockPCs, ChPCs, CallPCs,
     LeavePCs, TailPCs, GcPCs
<1>7. ASSUME NEW u \in Threads, u # t  PROVE Rely(u)
  BY <1>1, <1>7 DEF TypeOK, Rely
<1> QED  BY <1>3, <1>4, <1>5, <1>6, <1>7, Assemble

(* Push closes the channel it found empty.                                  *)
LEMMA PushCloseStep ==
    ASSUME IInv, NEW t \in Threads, PushClose(t)
    PROVE  IInv'
<1> USE ChannelsAssumption DEF Insts, PushClose, Goto, UnRegister, vars, chanVars, sessVars,
   callVars, pushVars, gcVars, history
<1>1. TypeOK /\ ObjectInv /\ ThreadInv(t) /\ KeepsSubscription
  BY DEF IInv
<1>3. TypeOK'
  BY <1>1 DEF TypeOK, ObjectInv, ThreadInv, InHand, PCs, Ops, SockStates, Callers, LockPCs,
     ChPCs, CallPCs, LeavePCs, TailPCs, GcPCs
<1>4. ObjectInv'
  BY <1>1 DEF ObjectInv
<1>5. KeepsSubscription'
  BY <1>1 DEF KeepsSubscription
<1>6. ThreadInv(t)'
  BY <1>1 DEF TypeOK, ThreadInv, InHand, Holds, Closes, Removes, LockPCs, ChPCs, CallPCs,
     LeavePCs, TailPCs, GcPCs
<1>7. ASSUME NEW u \in Threads, u # t  PROVE Rely(u)
  BY <1>1, <1>7 DEF TypeOK, Rely
<1> QED  BY <1>3, <1>4, <1>5, <1>6, <1>7, Assemble

(* Push returns.                                                            *)
LEMMA PushedStep ==
    ASSUME IInv, NEW t \in Threads, Pushed(t)
    PROVE  IInv'
<1> USE ChannelsAssumption DEF Insts, Pushed, Goto, Unlocked, Return, vars, chanVars,
   sessVars, callVars, pushVars, gcVars, history
<1>1. TypeOK /\ ObjectInv /\ ThreadInv(t) /\ KeepsSubscription
  BY DEF IInv
<1>3. TypeOK'
  BY <1>1 DEF TypeOK, ObjectInv, ThreadInv, InHand, PCs, Ops, SockStates, Callers, LockPCs,
     ChPCs, CallPCs, LeavePCs, TailPCs, GcPCs
<1>4. ObjectInv'
  BY <1>1 DEF ObjectInv
<1>5. KeepsSubscription'
  BY <1>1 DEF KeepsSubscription
<1>6. ThreadInv(t)'
  BY <1>1 DEF TypeOK, ThreadInv, InHand, Holds, Closes, Removes, LockPCs, ChPCs, CallPCs,
     LeavePCs, TailPCs, GcPCs
<1>7. ASSUME NEW u \in Threads, u # t  PROVE Rely(u)
  <2>0. ThreadInv(u)
    BY DEF IInv
  <2> QED
    BY <1>1, <1>7, <2>0 DEF TypeOK, ObjectInv, ThreadInv, InHand, Holds, Rely, LockPCs,
       ChPCs, CallPCs, LeavePCs, TailPCs, GcPCs
<1> QED  BY <1>3, <1>4, <1>5, <1>6, <1>7, Assemble

(* OnIdle copies the registry.                                              *)
LEMMA OnIdleStep ==
    ASSUME IInv, NEW t \in Threads, OnIdle(t)
    PROVE  IInv'
<1> USE ChannelsAssumption DEF Insts, OnIdle, Goto, vars, chanVars, sessVars, callVars,
   pushVars, gcVars, history
<1>1. TypeOK /\ ObjectInv /\ ThreadInv(t) /\ KeepsSubscription
  BY DEF IInv
<1>3. TypeOK'
  BY <1>1 DEF TypeOK, PCs, Ops
<1>4. ObjectInv'
  BY <1>1 DEF ObjectInv
<1>5. KeepsSubscription'
  BY <1>1 DEF KeepsSubscription
<1>6. ThreadInv(t)'
  <2>1. InHand(t)'
    BY <1>1 DEF TypeOK, ObjectInv, ThreadInv, InHand, LockPCs, ChPCs, CallPCs, LeavePCs,
       TailPCs, GcPCs
  <2>2. Holds(t)'
    BY <1>1 DEF TypeOK, ThreadInv, InHand, Holds, LockPCs, ChPCs, CallPCs, LeavePCs,
       TailPCs, GcPCs
  <2>3. Closes(t)'
    BY <1>1 DEF TypeOK, ObjectInv, ThreadInv, InHand, Closes, LockPCs, ChPCs, CallPCs,
       LeavePCs, TailPCs, GcPCs
  <2>4. Removes(t)'
    BY <1>1 DEF TypeOK, ObjectInv, ThreadInv, InHand, Removes, LockPCs, ChPCs, CallPCs,
       LeavePCs, TailPCs, GcPCs
  <2> QED  BY <2>1, <2>2, <2>3, <2>4 DEF ThreadInv
<1>7. ASSUME NEW u \in Threads, u # t  PROVE Rely(u)
  BY <1>1, <1>7 DEF TypeOK, Rely
<1> QED  BY <1>3, <1>4, <1>5, <1>6, <1>7, Assemble

(* Gc locks a channel.                                                      *)
LEMMA GcLockStep ==
    ASSUME IInv, NEW t \in Threads, NEW i \in Insts, GcLock(t, i)
    PROVE  IInv'
<1> USE ChannelsAssumption DEF Insts, GcLock, Goto, Locked, Free, vars, chanVars, sessVars,
   callVars, pushVars, gcVars, history
<1>1. TypeOK /\ ObjectInv /\ ThreadInv(t) /\ KeepsSubscription
  BY DEF IInv
<1>3. TypeOK'
  BY <1>1 DEF TypeOK, PCs, Ops, SockStates, Callers, LeavePCs, TailPCs, GcPCs
<1>4. ObjectInv'
  BY <1>1 DEF ObjectInv
<1>5. KeepsSubscription'
  BY <1>1 DEF KeepsSubscription
<1>6. ThreadInv(t)'
  BY <1>1 DEF TypeOK, ThreadInv, InHand, Holds, Closes, Removes, LockPCs, ChPCs, CallPCs,
     LeavePCs, TailPCs, GcPCs
<1>7. ASSUME NEW u \in Threads, u # t  PROVE Rely(u)
  BY <1>1, <1>7 DEF TypeOK, Rely
<1> QED  BY <1>3, <1>4, <1>5, <1>6, <1>7, Assemble

(* Gc finds the lock of a channel taken.                                    *)
LEMMA GcBusyStep ==
    ASSUME IInv, NEW t \in Threads, NEW i \in Insts, GcBusy(t, i)
    PROVE  IInv'
<1> USE ChannelsAssumption DEF Insts, GcBusy, Free, vars, chanVars, sessVars, callVars,
   pushVars, gcVars, history
<1>1. TypeOK /\ ObjectInv /\ ThreadInv(t) /\ KeepsSubscription
  BY DEF IInv
<1>3. TypeOK'
  BY <1>1 DEF TypeOK, PCs, Ops
<1>4. ObjectInv'
  BY <1>1 DEF ObjectInv
<1>5. KeepsSubscription'
  BY <1>1 DEF KeepsSubscription
<1>6. ThreadInv(t)'
  BY <1>1 DEF TypeOK, ThreadInv, InHand, Holds, Closes, Removes, LockPCs, ChPCs, CallPCs,
     LeavePCs, TailPCs, GcPCs
<1>7. ASSUME NEW u \in Threads, u # t  PROVE Rely(u)
  BY <1>1, <1>7 DEF TypeOK, Rely
<1> QED  BY <1>3, <1>4, <1>5, <1>6, <1>7, Assemble

(* Gc leaves a connected session alone.                                     *)
LEMMA GcKeepStep ==
    ASSUME IInv, NEW t \in Threads, NEW s \in Sessions, GcKeep(t, s)
    PROVE  IInv'
<1> USE ChannelsAssumption DEF Insts, GcKeep, GcEntry, vars, chanVars, sessVars, callVars,
   pushVars, gcVars, history
<1>1. TypeOK /\ ObjectInv /\ ThreadInv(t) /\ KeepsSubscription
  BY DEF IInv
<1>3. TypeOK'
  BY <1>1 DEF TypeOK, PCs, Ops
<1>4. ObjectInv'
  BY <1>1 DEF ObjectInv
<1>5. KeepsSubscription'
  BY <1>1 DEF KeepsSubscription
<1>6. ThreadInv(t)'
  BY <1>1 DEF TypeOK, ThreadInv, InHand, Holds, Closes, Removes, LockPCs, ChPCs, CallPCs,
     LeavePCs, TailPCs, GcPCs
<1>7. ASSUME NEW u \in Threads, u # t  PROVE Rely(u)
  BY <1>1, <1>7 DEF TypeOK, Rely
<1> QED  BY <1>3, <1>4, <1>5, <1>6, <1>7, Assemble

(* Gc erases an expired entry.                                              *)
LEMMA GcEraseStep ==
    ASSUME IInv, NEW t \in Threads, NEW s \in Sessions, GcErase(t, s)
    PROVE  IInv'
<1> USE ChannelsAssumption DEF Insts, GcErase, GcEntry, vars, chanVars, sessVars, callVars,
   pushVars, gcVars, history
<1>1. TypeOK /\ ObjectInv /\ ThreadInv(t) /\ KeepsSubscription
  BY DEF IInv
<1>hand. ch[t] \in 1 .. nInst /\ ch[t] \in 1 .. MaxInst /\ nameOf[ch[t]] \in Names
  BY <1>1 DEF TypeOK, ObjectInv, ThreadInv, InHand, Removes, LockPCs, ChPCs, CallPCs,
     LeavePCs, TailPCs, GcPCs
<1>3. TypeOK'
  BY <1>1, <1>hand DEF TypeOK, PCs, Ops
<1>4. ObjectInv'
  BY <1>1, <1>hand DEF ObjectInv
<1>5. KeepsSubscription'
  <2> SUFFICES ASSUME NEW z \in Sessions, NEW m \in Names, sock[z] = "open", joinedAt[z][m] # 0
               PROVE  z \in subs'[joinedAt[z][m]]
    BY DEF KeepsSubscription
  <2>1. z \in subs[joinedAt[z][m]] /\ joinedAt[z][m] \in 1 .. MaxInst /\ z # s
    BY <1>1 DEF KeepsSubscription, TypeOK
  <2> QED  BY <1>1, <1>hand, <2>1 DEF TypeOK
<1>6. ThreadInv(t)'
  BY <1>1, <1>hand DEF TypeOK, ThreadInv, InHand, Holds, Closes, Removes, LockPCs, ChPCs,
     CallPCs, LeavePCs, TailPCs, GcPCs
<1>7. ASSUME NEW u \in Threads, u # t  PROVE Rely(u)
  BY <1>1, <1>hand, <1>7 DEF TypeOK, Rely
<1> QED  BY <1>3, <1>4, <1>5, <1>6, <1>7, Assemble

(* Gc erases a disconnected session.                                        *)
LEMMA GcEvictStep ==
    ASSUME IInv, NEW t \in Threads, NEW s \in Sessions, GcEvict(t, s)
    PROVE  IInv'
<1> USE ChannelsAssumption DEF Insts, GcEvict, GcEntry, Goto, vars, chanVars, sessVars,
   callVars, pushVars, gcVars, history
<1>1. TypeOK /\ ObjectInv /\ ThreadInv(t) /\ KeepsSubscription
  BY DEF IInv
<1>hand. ch[t] \in 1 .. nInst /\ ch[t] \in 1 .. MaxInst /\ nameOf[ch[t]] \in Names
  BY <1>1 DEF TypeOK, ObjectInv, ThreadInv, InHand, Removes, LockPCs, ChPCs, CallPCs,
     LeavePCs, TailPCs, GcPCs
<1>split. CallOnSocketError(t, s) \/ UNCHANGED <<pc, who, names, ret>>
  OBVIOUS
<1>3. TypeOK'
  <2>1. subs' \in [1 .. MaxInst -> SUBSET Sessions]
    BY <1>1, <1>hand DEF TypeOK
  <2>2. CASE CallOnSocketError(t, s)
    BY <1>1, <1>hand, <2>1, <2>2 DEF CallOnSocketError, TypeOK, PCs, Ops, SockStates,
       Callers, LockPCs, ChPCs, CallPCs, LeavePCs, TailPCs, GcPCs
  <2>3. CASE UNCHANGED <<pc, who, names, ret>>
    BY <1>1, <1>hand, <2>1, <2>3 DEF TypeOK, PCs, Ops, SockStates, Callers, LockPCs, ChPCs,
       CallPCs, LeavePCs, TailPCs, GcPCs
  <2> QED  BY <1>split, <2>2, <2>3
<1>4. ObjectInv'
  BY <1>1, <1>hand DEF ObjectInv
<1>5. KeepsSubscription'
  <2> SUFFICES ASSUME NEW z \in Sessions, NEW m \in Names, sock[z] = "open", joinedAt[z][m] # 0
               PROVE  z \in subs'[joinedAt[z][m]]
    BY DEF KeepsSubscription
  <2>1. z \in subs[joinedAt[z][m]] /\ joinedAt[z][m] \in 1 .. MaxInst /\ z # s
    BY <1>1 DEF KeepsSubscription, TypeOK
  <2> QED  BY <1>1, <1>hand, <2>1 DEF TypeOK
<1>6. ThreadInv(t)'
  <2>1. CASE CallOnSocketError(t, s)
    BY <1>1, <1>hand, <2>1 DEF CallOnSocketError, TypeOK, ThreadInv, InHand, Holds, Closes,
       Removes, LockPCs, ChPCs, CallPCs, LeavePCs, TailPCs, GcPCs
  <2>2. CASE UNCHANGED <<pc, who, names, ret>>
    BY <1>1, <1>hand, <2>2 DEF TypeOK, ThreadInv, InHand, Holds, Closes, Removes, LockPCs,
       ChPCs, CallPCs, LeavePCs, TailPCs, GcPCs
  <2> QED  BY <1>split, <2>1, <2>2
<1>7. ASSUME NEW u \in Threads, u # t  PROVE Rely(u)
  <2>1. CASE CallOnSocketError(t, s)
    BY <1>1, <1>hand, <1>7, <2>1 DEF CallOnSocketError, TypeOK, ThreadInv, InHand, Rely,
       LockPCs, ChPCs, CallPCs, LeavePCs, TailPCs, GcPCs
  <2>2. CASE UNCHANGED <<pc, who, names, ret>>
    BY <1>1, <1>hand, <1>7, <2>2 DEF TypeOK, ThreadInv, InHand, Rely, LockPCs, ChPCs,
       CallPCs, LeavePCs, TailPCs, GcPCs
  <2> QED  BY <1>split, <2>1, <2>2
<1> QED  BY <1>3, <1>4, <1>5, <1>6, <1>7, Assemble

(* Gc leaves a channel with subscribers.                                    *)
LEMMA GcSweptStep ==
    ASSUME IInv, NEW t \in Threads, GcSwept(t)
    PROVE  IInv'
<1> USE ChannelsAssumption DEF Insts, GcSwept, Goto, vars, chanVars, sessVars, callVars,
   pushVars, gcVars, history
<1>1. TypeOK /\ ObjectInv /\ ThreadInv(t) /\ KeepsSubscription
  BY DEF IInv
<1>3. TypeOK'
  BY <1>1 DEF TypeOK, PCs, Ops, SockStates, Callers, LeavePCs, TailPCs, GcPCs
<1>4. ObjectInv'
  BY <1>1 DEF ObjectInv
<1>5. KeepsSubscription'
  BY <1>1 DEF KeepsSubscription
<1>6. ThreadInv(t)'
  BY <1>1 DEF TypeOK, ThreadInv, InHand, Holds, Closes, Removes, LockPCs, ChPCs, CallPCs,
     LeavePCs, TailPCs, GcPCs
<1>7. ASSUME NEW u \in Threads, u # t  PROVE Rely(u)
  BY <1>1, <1>7 DEF TypeOK, Rely
<1> QED  BY <1>3, <1>4, <1>5, <1>6, <1>7, Assemble

(* Gc finds a channel empty.                                                *)
LEMMA GcSweptEmptyStep ==
    ASSUME IInv, NEW t \in Threads, GcSweptEmpty(t)
    PROVE  IInv'
<1> USE ChannelsAssumption DEF Insts, GcSweptEmpty, Goto, vars, chanVars, sessVars,
   callVars, pushVars, gcVars, history
<1>1. TypeOK /\ ObjectInv /\ ThreadInv(t) /\ KeepsSubscription
  BY DEF IInv
<1>3. TypeOK'
  BY <1>1 DEF TypeOK, PCs, Ops, SockStates, Callers, LeavePCs, TailPCs, GcPCs
<1>4. ObjectInv'
  BY <1>1 DEF ObjectInv
<1>5. KeepsSubscription'
  BY <1>1 DEF KeepsSubscription
<1>6. ThreadInv(t)'
  BY <1>1 DEF TypeOK, ThreadInv, InHand, Holds, Closes, Removes, LockPCs, ChPCs, CallPCs,
     LeavePCs, TailPCs, GcPCs
<1>7. ASSUME NEW u \in Threads, u # t  PROVE Rely(u)
  BY <1>1, <1>7 DEF TypeOK, Rely
<1> QED  BY <1>3, <1>4, <1>5, <1>6, <1>7, Assemble

(* Gc closes the empty channel.                                             *)
LEMMA GcCloseStep ==
    ASSUME IInv, NEW t \in Threads, GcClose(t)
    PROVE  IInv'
<1> USE ChannelsAssumption DEF Insts, GcClose, Goto, UnRegister, vars, chanVars, sessVars,
   callVars, pushVars, gcVars, history
<1>1. TypeOK /\ ObjectInv /\ ThreadInv(t) /\ KeepsSubscription
  BY DEF IInv
<1>3. TypeOK'
  BY <1>1 DEF TypeOK, ObjectInv, ThreadInv, InHand, PCs, Ops, SockStates, Callers, LockPCs,
     ChPCs, CallPCs, LeavePCs, TailPCs, GcPCs
<1>4. ObjectInv'
  BY <1>1 DEF ObjectInv
<1>5. KeepsSubscription'
  BY <1>1 DEF KeepsSubscription
<1>6. ThreadInv(t)'
  <2>1. InHand(t)'
    BY <1>1 DEF TypeOK, ObjectInv, ThreadInv, InHand, LockPCs, ChPCs, CallPCs, LeavePCs,
       TailPCs, GcPCs
  <2>2. Holds(t)'
    BY <1>1 DEF TypeOK, ThreadInv, InHand, Holds, LockPCs, ChPCs, CallPCs, LeavePCs,
       TailPCs, GcPCs
  <2>3. Closes(t)'
    BY <1>1 DEF TypeOK, ObjectInv, ThreadInv, InHand, Closes, LockPCs, ChPCs, CallPCs,
       LeavePCs, TailPCs, GcPCs
  <2>4. Removes(t)'
    BY <1>1 DEF TypeOK, ObjectInv, ThreadInv, InHand, Removes, LockPCs, ChPCs, CallPCs,
       LeavePCs, TailPCs, GcPCs
  <2> QED  BY <2>1, <2>2, <2>3, <2>4 DEF ThreadInv
<1>7. ASSUME NEW u \in Threads, u # t  PROVE Rely(u)
  BY <1>1, <1>7 DEF TypeOK, Rely
<1> QED  BY <1>3, <1>4, <1>5, <1>6, <1>7, Assemble

(* Gc releases its lock.                                                    *)
LEMMA GcUnlockStep ==
    ASSUME IInv, NEW t \in Threads, GcUnlock(t)
    PROVE  IInv'
<1> USE ChannelsAssumption DEF Insts, GcUnlock, Goto, Unlocked, vars, chanVars, sessVars,
   callVars, pushVars, gcVars, history
<1>1. TypeOK /\ ObjectInv /\ ThreadInv(t) /\ KeepsSubscription
  BY DEF IInv
<1>3. TypeOK'
  BY <1>1 DEF TypeOK, PCs, Ops
<1>4. ObjectInv'
  BY <1>1 DEF ObjectInv
<1>5. KeepsSubscription'
  BY <1>1 DEF KeepsSubscription
<1>6. ThreadInv(t)'
  BY <1>1 DEF TypeOK, ThreadInv, InHand, Holds, Closes, Removes, LockPCs, ChPCs, CallPCs,
     LeavePCs, TailPCs, GcPCs
<1>7. ASSUME NEW u \in Threads, u # t  PROVE Rely(u)
  <2>0. ThreadInv(u)
    BY DEF IInv
  <2> QED
    BY <1>1, <1>7, <2>0 DEF TypeOK, ObjectInv, ThreadInv, InHand, Holds, Rely, LockPCs,
       ChPCs, CallPCs, LeavePCs, TailPCs, GcPCs
<1> QED  BY <1>3, <1>4, <1>5, <1>6, <1>7, Assemble

(* Gc disconnects an evicted session.                                       *)
LEMMA GcDisconnectStep ==
    ASSUME IInv, NEW t \in Threads, NEW s \in Sessions, GcDisconnect(t, s)
    PROVE  IInv'
<1> USE ChannelsAssumption DEF Insts, GcDisconnect, Goto, vars, chanVars, sessVars,
   callVars, pushVars, gcVars, history
<1>1. TypeOK /\ ObjectInv /\ ThreadInv(t) /\ KeepsSubscription
  BY DEF IInv
<1>split. CallOnSocketError(t, s) \/ UNCHANGED <<pc, who, names, ret>>
  OBVIOUS
<1>3. TypeOK'
  <2>1. CASE CallOnSocketError(t, s)
    BY <1>1, <2>1 DEF CallOnSocketError, TypeOK, PCs, Ops, SockStates, Callers, LeavePCs,
       TailPCs, GcPCs
  <2>2. CASE UNCHANGED <<pc, who, names, ret>>
    BY <1>1, <2>2 DEF TypeOK, PCs, Ops, SockStates, Callers, LeavePCs, TailPCs, GcPCs
  <2> QED  BY <1>split, <2>1, <2>2
<1>4. ObjectInv'
  BY <1>1 DEF ObjectInv
<1>5. KeepsSubscription'
  BY <1>1 DEF KeepsSubscription
<1>6. ThreadInv(t)'
  <2>1. CASE CallOnSocketError(t, s)
    BY <1>1, <2>1 DEF CallOnSocketError, TypeOK, ThreadInv, InHand, Holds, Closes, Removes,
       LockPCs, ChPCs, CallPCs, LeavePCs, TailPCs, GcPCs
  <2>2. CASE UNCHANGED <<pc, who, names, ret>>
    BY <1>1, <2>2 DEF TypeOK, ThreadInv, InHand, Holds, Closes, Removes, LockPCs, ChPCs,
       CallPCs, LeavePCs, TailPCs, GcPCs
  <2> QED  BY <1>split, <2>1, <2>2
<1>7. ASSUME NEW u \in Threads, u # t  PROVE Rely(u)
  <2>1. CASE CallOnSocketError(t, s)
    BY <1>1, <1>7, <2>1 DEF CallOnSocketError, TypeOK, ThreadInv, InHand, Rely, LockPCs,
       ChPCs, CallPCs, LeavePCs, TailPCs, GcPCs
  <2>2. CASE UNCHANGED <<pc, who, names, ret>>
    BY <1>1, <1>7, <2>2 DEF TypeOK, ThreadInv, InHand, Rely, LockPCs, ChPCs, CallPCs,
       LeavePCs, TailPCs, GcPCs
  <2> QED  BY <1>split, <2>1, <2>2
<1> QED  BY <1>3, <1>4, <1>5, <1>6, <1>7, Assemble

(* OnIdle goes on to the next channel.                                      *)
LEMMA GcReturnStep ==
    ASSUME IInv, NEW t \in Threads, GcReturn(t)
    PROVE  IInv'
<1> USE ChannelsAssumption DEF Insts, GcReturn, Goto, vars, chanVars, sessVars, callVars,
   pushVars, gcVars, history
<1>1. TypeOK /\ ObjectInv /\ ThreadInv(t) /\ KeepsSubscription
  BY DEF IInv
<1>3. TypeOK'
  BY <1>1 DEF TypeOK, PCs, Ops
<1>4. ObjectInv'
  BY <1>1 DEF ObjectInv
<1>5. KeepsSubscription'
  BY <1>1 DEF KeepsSubscription
<1>6. ThreadInv(t)'
  BY <1>1 DEF TypeOK, ThreadInv, InHand, Holds, Closes, Removes, LockPCs, ChPCs, CallPCs,
     LeavePCs, TailPCs, GcPCs
<1>7. ASSUME NEW u \in Threads, u # t  PROVE Rely(u)
  BY <1>1, <1>7 DEF TypeOK, Rely
<1> QED  BY <1>3, <1>4, <1>5, <1>6, <1>7, Assemble

(* OnIdle leaves its loop for an empty channel.                             *)
LEMMA GcReturnEmptyStep ==
    ASSUME IInv, NEW t \in Threads, GcReturnEmpty(t)
    PROVE  IInv'
<1> USE ChannelsAssumption DEF Insts, GcReturnEmpty, Goto, vars, chanVars, sessVars,
   callVars, pushVars, gcVars, history
<1>1. TypeOK /\ ObjectInv /\ ThreadInv(t) /\ KeepsSubscription
  BY DEF IInv
<1>3. TypeOK'
  BY <1>1 DEF TypeOK, PCs, Ops
<1>4. ObjectInv'
  BY <1>1 DEF ObjectInv
<1>5. KeepsSubscription'
  BY <1>1 DEF KeepsSubscription
<1>6. ThreadInv(t)'
  BY <1>1 DEF TypeOK, ThreadInv, InHand, Holds, Closes, Removes, LockPCs, ChPCs, CallPCs,
     LeavePCs, TailPCs, GcPCs
<1>7. ASSUME NEW u \in Threads, u # t  PROVE Rely(u)
  BY <1>1, <1>7 DEF TypeOK, Rely
<1> QED  BY <1>3, <1>4, <1>5, <1>6, <1>7, Assemble

(* OnIdle unregisters the name of the empty channel.                        *)
LEMMA OnIdleUnRegisterStep ==
    ASSUME IInv, NEW t \in Threads, OnIdleUnRegister(t)
    PROVE  IInv'
<1> USE ChannelsAssumption DEF Insts, OnIdleUnRegister, Goto, UnRegister, Return, vars,
   chanVars, sessVars, callVars, pushVars, gcVars, history
<1>1. TypeOK /\ ObjectInv /\ ThreadInv(t) /\ KeepsSubscription
  BY DEF IInv
<1>3. TypeOK'
  BY <1>1 DEF TypeOK, ObjectInv, ThreadInv, InHand, PCs, Ops, SockStates, Callers, LockPCs,
     ChPCs, CallPCs, LeavePCs, TailPCs, GcPCs
<1>4. ObjectInv'
  BY <1>1 DEF ObjectInv
<1>5. KeepsSubscription'
  BY <1>1 DEF KeepsSubscription
<1>6. ThreadInv(t)'
  BY <1>1 DEF TypeOK, ThreadInv, InHand, Holds, Closes, Removes, LockPCs, ChPCs, CallPCs,
     LeavePCs, TailPCs, GcPCs
<1>7. ASSUME NEW u \in Threads, u # t  PROVE Rely(u)
  BY <1>1, <1>7 DEF TypeOK, Rely
<1> QED  BY <1>3, <1>4, <1>5, <1>6, <1>7, Assemble

(* OnIdle ends its round.                                                   *)
LEMMA OnIdleDoneStep ==
    ASSUME IInv, NEW t \in Threads, OnIdleDone(t)
    PROVE  IInv'
<1> USE ChannelsAssumption DEF Insts, OnIdleDone, Goto, Return, vars, chanVars, sessVars,
   callVars, pushVars, gcVars, history
<1>1. TypeOK /\ ObjectInv /\ ThreadInv(t) /\ KeepsSubscription
  BY DEF IInv
<1>3. TypeOK'
  BY <1>1 DEF TypeOK, PCs, Ops
<1>4. ObjectInv'
  BY <1>1 DEF ObjectInv
<1>5. KeepsSubscription'
  BY <1>1 DEF KeepsSubscription
<1>6. ThreadInv(t)'
  BY <1>1 DEF TypeOK, ThreadInv, InHand, Holds, Closes, Removes, LockPCs, ChPCs, CallPCs,
     LeavePCs, TailPCs, GcPCs
<1>7. ASSUME NEW u \in Threads, u # t  PROVE Rely(u)
  BY <1>1, <1>7 DEF TypeOK, Rely
<1> QED  BY <1>3, <1>4, <1>5, <1>6, <1>7, Assemble

(* The peer of a session is lost: no thread is concerned.                   *)
LEMMA LoseStep ==
    ASSUME IInv, NEW s \in Sessions, Lose(s)
    PROVE  IInv'
<1> USE DEF Lose, chanVars, sessVars, callVars, pushVars, gcVars, history
<1>1. TypeOK /\ ObjectInv /\ KeepsSubscription
  BY DEF IInv
<1>2. TypeOK'
  BY <1>1 DEF TypeOK, SockStates
<1>3. ObjectInv'
  BY <1>1 DEF ObjectInv
<1>4. KeepsSubscription'
  BY <1>1 DEF TypeOK, KeepsSubscription
<1>5. ASSUME NEW u \in Threads  PROVE Rely(u)
  BY <1>1 DEF TypeOK, Rely
<1>6. ASSUME NEW u \in Threads  PROVE ThreadInv(u)'
  BY <1>5, <1>6, RelyKeepsThreadInv
<1> QED  BY <1>2, <1>3, <1>4, <1>6 DEF IInv

(* A server without channels and without calls satisfies the invariant.     *)
LEMMA InitInv == Init => IInv
<1> SUFFICES ASSUME Init PROVE IInv
  OBVIOUS
<1> USE ChannelsAssumption DEF Init, Insts
<1>1. TypeOK
  BY DEF TypeOK, PCs, Ops, SockStates, Callers
<1>2. ObjectInv
  BY DEF ObjectInv
<1>3. ASSUME NEW t \in Threads  PROVE ThreadInv(t)
  BY DEF ThreadInv, InHand, Holds, Closes, Removes, LockPCs, ChPCs, CallPCs, LeavePCs,
     TailPCs, GcPCs
<1>4. KeepsSubscription
  BY DEF KeepsSubscription
<1> QED  BY <1>1, <1>2, <1>3, <1>4 DEF IInv

(* Every step of the system preserves the inductive invariant.              *)
LEMMA NextInv == IInv /\ [Next]_vars => IInv'
<1> SUFFICES ASSUME IInv, [Next]_vars PROVE IInv'
  OBVIOUS
<1>1. ASSUME NEW s \in Sessions, Lose(s)  PROVE IInv'
  BY <1>1, LoseStep
<1>2. ASSUME NEW t \in Workers, NEW s \in Sessions, Drop(t, s)  PROVE IInv'
  BY <1>2, DropStep DEF Threads
<1>3. ASSUME NEW t \in Workers, Request(t)  PROVE IInv'
  <2> USE DEF Threads
  <2>1. ASSUME NEW s \in Sessions, DestroyRaw(t, s) \/ DestroyPusher(t, s)  PROVE IInv'
    BY <2>1, DestroyRawStep, DestroyPusherStep
  <2>2. ASSUME NEW s \in Sessions, NEW n \in Names,
               \/ Register(t, s, n) \/ OnWsMessageUnknown(t, s, n)
               \/ OnPusherUnSubscribe(t, s, n) \/ OnPusherUnSubscribeExpired(t, s, n)
        PROVE  IInv'
    BY <2>2, RegisterStep, OnWsMessageUnknownStep, OnPusherUnSubscribeStep,
       OnPusherUnSubscribeExpiredStep
  <2>3. ASSUME NEW s \in Sessions, NEW n \in Names, NEW r \in Requests, OnWsMessage(t, s, n, r)
        PROVE  IInv'
    BY <2>3, OnWsMessageStep
  <2>4. ASSUME NEW n \in Names, NEW r \in Requests, ApiPush(t, n, r)  PROVE IInv'
    BY <2>4, ApiPushStep
  <2> QED  BY <1>3, <2>1, <2>2, <2>3, <2>4 DEF Request
<1>4. ASSUME NEW t \in Threads, Continue(t)  PROVE IInv'
  <2>1. ASSUME NEW n \in Names, OnSocketError(t, n) \/ OnSocketErrorExpired(t, n)  PROVE IInv'
    BY <2>1, OnSocketErrorStep, OnSocketErrorExpiredStep
  <2>2. ASSUME NEW s \in Sessions,
               \/ Deliver(t, s) \/ DeliverFails(t, s)
               \/ GcKeep(t, s) \/ GcErase(t, s) \/ GcEvict(t, s) \/ GcDisconnect(t, s)
        PROVE  IInv'
    BY <2>2, DeliverStep, DeliverFailsStep, GcKeepStep, GcEraseStep, GcEvictStep, GcDisconnectStep
  <2>3. ASSUME NEW i \in Insts, GcLock(t, i) \/ GcBusy(t, i)  PROVE IInv'
    BY <2>3, GcLockStep, GcBusyStep
  <2>4. ASSUME \/ Subscribe(t) \/ Subscribed(t) \/ SubscribedUnreplied(t)
               \/ UnSubscribe(t) \/ UnSubscribeClose(t) \/ UnSubscribed(t) \/ UnSubscribeBusy(t)
               \/ SocketClose(t) \/ SocketCloseInPush(t) \/ SocketCloseInGc(t)
        PROVE  IInv'
    BY <2>4, SubscribeStep, SubscribedStep, SubscribedUnrepliedStep, UnSubscribeStep,
       UnSubscribeCloseStep, UnSubscribedStep, UnSubscribeBusyStep, SocketCloseStep,
       SocketCloseInPushStep, SocketCloseInGcStep
  <2>5. ASSUME PushSelect(t) \/ PushSelected(t) \/ PushTail(t) \/ PushClose(t) \/ Pushed(t)
        PROVE  IInv'
    BY <2>5, PushSelectStep, PushSelectedStep, PushTailStep, PushCloseStep, PushedStep
  <2>6. ASSUME \/ GcSwept(t) \/ GcSweptEmpty(t) \/ GcClose(t) \/ GcUnlock(t)
               \/ GcReturn(t) \/ GcReturnEmpty(t) \/ OnIdleUnRegister(t) \/ OnIdleDone(t)
        PROVE  IInv'
    BY <2>6, GcSweptStep, GcSweptEmptyStep, GcCloseStep, GcUnlockStep, GcReturnStep,
       GcReturnEmptyStep, OnIdleUnRegisterStep, OnIdleDoneStep
  <2> QED  BY <1>4, <2>1, <2>2, <2>3, <2>4, <2>5, <2>6 DEF Continue
<1>5. ASSUME NEW t \in Threads, OnIdle(t)  PROVE IInv'
  BY <1>5, OnIdleStep
<1>6. CASE UNCHANGED vars
  <2>1. TypeOK' /\ ObjectInv' /\ KeepsSubscription'
    BY <1>6 DEF IInv, TypeOK, ObjectInv, KeepsSubscription, vars, chanVars, sessVars,
       callVars, pushVars, gcVars, history
  <2>2. ASSUME NEW u \in Threads  PROVE ThreadInv(u)'
    BY <1>6 DEF IInv, ThreadInv, InHand, Holds, Closes, Removes, vars, chanVars, sessVars,
       callVars, pushVars, gcVars, history
  <2> QED  BY <2>1, <2>2 DEF IInv
<1> QED  BY <1>1, <1>2, <1>3, <1>4, <1>5, <1>6 DEF Next

(* IInv holds in every reachable state of the registry, its channels and    *)
(* its sessions.                                                            *)
THEOREM Invariance == Spec => []IInv
  BY InitInv, NextInv, PTL DEF Spec

(* Type correctness, for every number of threads, sessions and channels.    *)
THEOREM TypeCorrect == Spec => []TypeOK
<1>1. IInv => TypeOK
  BY DEF IInv
<1> QED  BY <1>1, Invariance, PTL

(* No interleaving of pushes, sweeps and leaves takes an open session out   *)
(* of the channel object it joined.                                         *)
THEOREM SubscriptionKept == Spec => []KeepsSubscription
<1>1. IInv => KeepsSubscription
  BY DEF IInv
<1> QED  BY <1>1, Invariance, PTL

(* UnSubscribe, Push, Gc and OnIdle never unregister their own channel      *)
(* object while somebody is subscribed to it.                               *)
THEOREM OnlyEmptyClosed == Spec => ClosesOnlyEmpty
<1>1. ASSUME IInv, NEW t \in Threads, NEW n \in Names,
             pc[t] \in UnregPCs, reg[n] = Closing(t)
      PROVE  subs[reg[n]] = {}
  BY <1>1 DEF IInv, ThreadInv, Closes, Closing, UnregPCs
<1>2. IInv /\ [Next]_vars =>
         [\A t \in Threads, n \in Names :
             pc[t] \in UnregPCs /\ reg[n] = Closing(t) /\ reg'[n] # reg[n]
                => subs[reg[n]] = {}]_vars
  BY <1>1
<1> QED  BY <1>2, Invariance, PTL DEF Spec, ClosesOnlyEmpty
=============================================================================
