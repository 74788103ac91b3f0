# A TLA+ model of push1st

push1st is a publish/subscribe server: clients speak the Pusher protocol or raw
WebSocket, subscribe to channels, and receive what other clients, the HTTP API
or other nodes of a cluster push into them; it also sends short messages through
SMPP gateways. This directory models the parts of the server in which threads,
nodes and networks meet, checks the models with TLC and proves their main safety
properties with TLAPS.

## The system

| Part | State | Operations | Meets |
|---|---|---|---|
| registry `cchannels` | `Channels`: name -> `shared_ptr<cchannel>`, under a spinlock | `Register`, `Get`, `List`, `UnRegister` | every other part |
| channels `cchannel`, `cpublicchannel`, `cprivatechannel` | `chSubscribers`: session id -> `weak_ptr`, under `chSubscribersLock` | `Subscribe`, `UnSubscribe`, `Push`, `Gc` | registry (close themselves), sessions, hooks, cluster |
| presence channels | also `UsersList` under `UsersLock` | the same, `OnClusterJoin`, `OnClusterLeave` | cluster |
| Pusher sessions `cpushersession` | `SubscribedTo`: name -> `weak_ptr<cchannel>`, socket, `ActivityCheckTime` | `OnPusherSubscribe`, `OnPusherUnSubscribe`, `OnSocketError`, `IsLeaveUs`, `Push`, destructor | registry, channels, poll |
| raw sessions `cwssession` | the same | `OnWsConnect`, `OnWsMessage`, `OnSocketError`, `Push` | registry, channels, poll |
| broker `cbroker` | none of its own | `OnIdle`, once a second in the main thread | registry, `Gc`, cluster |
| API `capiserver` | none | `ApiOnEvents`, reading end points | registry, cluster |
| cluster `ccluster` | peers with times, ping and collection times | UDP frames in and out, `Check` | channels, API, idle loop |
| SMPP service | gateways, `pendingMsgQueue`, `ackMsgQueue`, `retryMsgs`, rate limiter | `Send`, `SendChunk`, `OnDeliveryStatus`, retries | API, own poll, hooks |
| poll and sockets | `fdHandlers`, `fdQueueGC`, descriptors | `PollThread`, `PollAdd`, `PollDelete`, `SocketClose` | every session |
| hooks, async queue, timers | job queues | `Trigger`, `Enqueue`, `Join` | channels, SMPP |

What is hard to test here: several worker threads, the API's and the cluster's
poll and the idle loop call into one channel object at the same time; a channel
closes itself when it finds itself empty; sessions and channels hold weak
pointers to each other, which expire; a failed delivery runs the receiver's
`OnSocketError` in the sender's thread, and `Gc` runs it under the channel's own
lock; `UnSubscribe` gives up when the lock is taken. Nodes know each other only
by UDP pings and share nothing. A short message is in the hands of four threads
and up to five queues while answers, receipts and timers race, and gateways are
replaced under it. Two job queues depend on condition variables whose
notifications are sent outside the lock. `PROJECT.json` lists these hazards at
their lines.

## Modules

| Module | Models | Model values | Proofs |
|---|---|---|---|
| `Channels` | registry, channels, sessions, idle loop | `MCChannels` | `ChannelsProofs` |
| `JobQueue` | what a job queue promises (abstract) | | |
| `AsyncQueue` | `casyncqueue`, implements `JobQueue` | `MCAsyncQueue` | `AsyncQueueProofs` |
| `RateLimiter` | `cratelimiter`, implements `JobQueue` | `MCRateLimiter` | `RateLimiterProofs` |
| `Smpp` | `csmppservice` for one login | `MCSmpp` | `SmppProofs`, `SmppLifeProofs` |
| `Cluster` | who is in a node's `clusNodes` | `MCCluster` | `ClusterProofs` |
| `Relay` | events between nodes | `MCRelay` | `RelayProofs` |
| `Presence` | `cpresencechannel` | `MCPresence` | |

`QueueLemmas` holds the facts about sequences that the proofs of the queues, of
`Smpp` and of `Relay` share: heads and tails, and how often a value occurs. A definition whose comment begins "Mutant of" is a plausible
error in the definition after it; no specification uses it.

### Channels

`Channels.tla` is the registry, the channel objects, the sessions and the
threads in one module, because every property of interest is about their
interleaving. `MCChannels.tla` gives the constants values for TLC.
`ChannelsProofs.tla` holds the inductive invariant and the proofs.

A channel object has a number; `reg` says which object a name is registered to,
`nameOf[i]` is its `chUid`, `subs[i]` its `chSubscribers`, `lockX` and `lockS`
its lock. `Alive(i)` is "`weak_ptr::lock` succeeds": the registry or a thread
has a `shared_ptr`. A thread has a place `pc`, the entry point `op` it is in,
the object `ch` that entry point works on, and for the calls that nest in it
(`OnSocketError`, `UnSubscribe`) the session `who`, the object `at` and the
caller `ret`. A session is open, lost (its peer is gone, it timed out, or it
broke the protocol), closed (after `SocketClose`) or dead (destroyed, when the
poll's handler for its descriptor is overwritten).

An action ends where the code takes or releases a lock:

| Code | Actions |
|---|---|
| `OnPusherSubscribe`, `OnWsConnect` | `Register` (`Find` or `Create`), `Subscribe`, `Subscribed`, `SubscribedUnreplied` |
| `OnPusherUnSubscribe` | `OnPusherUnSubscribe`, `OnPusherUnSubscribeExpired` |
| `UnSubscribe` of a channel | `UnSubscribe`, `UnSubscribeClose`, `UnSubscribed`, `UnSubscribeBusy` |
| `OnSocketError` | `OnSocketError`, `OnSocketErrorExpired`, `SocketClose`, `SocketCloseInPush`, `SocketCloseInGc` |
| `cchannel::Push` | `OnWsMessage`, `OnWsMessageUnknown`, `ApiPush`, `PushSelect`, `PushSelected`, `Deliver`, `DeliverFails`, `PushTail`, `PushClose`, `Pushed` |
| `cbroker::OnIdle`, `cchannel::Gc` | `OnIdle`, `GcLock`, `GcBusy`, `GcKeep`, `GcErase`, `GcEvict`, `GcSwept`, `GcSweptEmpty`, `GcClose`, `GcUnlock`, `GcDisconnect`, `GcReturn`, `GcReturnEmpty`, `OnIdleUnRegister`, `OnIdleDone` |
| peer, poll | `Lose`, `Drop`, `DestroyRaw`, `DestroyPusher` |

Abstractions. Public and private channels have the same code and are one. A
message is its addressing: mode and target. A rejected subscription (name,
signature) is a lost session. The several calls of `OnSocketError` one failure
causes (`WsWriteMessage`, then `WsError`) are one, since the later ones find
nothing left to do but what the first did. The selection loop of `Push` is
atomic. Two history variables record what no variable of the code does:
`joinedAt`, the object in which a session last asked to be, and `unleft`, the
objects whose join hook fired for it and whose leave hook has not. `list` is the
copy of the registry, whose `shared_ptr`s live until `OnIdle` returns; `due` is
what is left of its loop.

### JobQueue, AsyncQueue, RateLimiter

`JobQueue` says what those who enqueue jobs rely on: threads claim jobs in the
order in which these were accepted, each job once, a thread one at a time, and
none is claimed after the stop. Both queues are shown to implement it, with the
jobs that were popped followed by those that wait as `accepted`. To claim is to
pass the last look at the stop flag. In `casyncqueue` the flag and the pop are
under one lock, so a claim is a pop. The limiter's `request_stop` is not made
under the mutex: `Claim` is the condition of its loop and `Take` the pop, and a
stop between the two does not keep the job from being popped, nor, with a sleep
in between, from being started. Nothing is said of when a claimed job starts.

| Code | Actions |
|---|---|
| `casyncqueue::Enqueue` | `Enqueue` (under `quLock`), `Notify` (after it) |
| `casyncqueue::ThreadRunner` | `Top`, `FindNothing`, `Block`, `FindStop`, `Take`, `Run`, `Again` |
| `~casyncqueue` | `Stop`, `StopNotify`, `Join` |
| `cratelimiter::Enqueue` | `Enqueue`, `EnqueueRefused`, `Notify` |
| `cratelimiter::Run` | `FindNothing`, `Block`, `FindStop`, `Claim`, `Take`, `DueLater`, `DueNow`, `WakeUp`, `Skip`, `Start`, `Finish`, `Again` |
| `~cratelimiter` | `Stop` (without the mutex), `StopNotify`, `Join` |
| platform | `WakeSpuriously`, `Tick` |

Going to sleep takes two steps, the predicate and the block, between which the
thread holds the mutex: this is the window in which a notification is lost.
The limiter's clock goes on between any two steps, so every delay of its thread
is covered.

### Smpp

One login at one gateway. `limiter`, `retryQueue`, `pending`, `ack`, `retryMsgs`
and `watched` are the limiter's queue, the jobs of the retry thread,
`pendingMsgQueue`, `ackMsgQueue`, `retryMsgs` and the poll's `fdQueueGC`; `hand`
is the chunk a thread has in `SendChunk`. `fdQueueGC` holds weak pointers, so a
chunk that has left all the others is destroyed (`Tracked`). A gateway object is
numbered; `cur` is the one registered for the login. The limiter and the retry
queue are the queues of the modules above, here one step each.

| Code | Actions |
|---|---|
| `csmppservice::Send` | `SendRequest` (`GetGateway`), `Offer` for each part, `SendUnconnected`, `SendThrows` |
| `cgateway::Connect`, under `gwSocketLock` (`InConnect`) | `ConnectBroken`, `BindFails`, `BindCloses`, `SendConnected`, `EnquiryFails` |
| job of the limiter, job of a retry, `cgateway::Send` | `SendFirst`, `SendAgain` (`Written`, `WriteFails`, `NotConnected`) |
| `SendChunk` after the write | `StorePending` or `StoreRetry`, `EnqueueGc` |
| `cackmsg::IsLeaveUs` | `Leave`, `GiveUp`, `Retry`, with `Clean` |
| `OnGwReply`, `OnDeliveryStatus` | `OnAccepted`, `OnDelivered`, `OnUndelivered`, `OnGwError` |
| `cgateway::IsLeaveUs` | `PingTimeout`, `Ping` |
| time | `TimePasses` |

`Connect` goes from host to host: one that refuses the bind takes a sequence
number and closes, which releases the gateway, twice if the bind could not be
sent or read; a later host may then open a gateway that is not registered any
more. One host is one step: that another thread writes to the socket while its
bind is not answered yet, `gwSocket` being unprotected, is left out. The number of
hosts is not fixed, and one that cannot be reached changes nothing and is no step.

An answer may come before `StorePending`, after the retry timer, after the next
retry or never. Each gateway object numbers its packets from one while the
queues outlive it, so two chunks can have the same number; `Settled` and
`FinishedIsFinal` are stated for the time during which none do (`Distinct`).

### Cluster

Each node has the peers of its `clusNodes` with the age of their last ping, the
time since it pinged and the time to its next collection. `Check` is the whole
of `ccluster::Check`: reconnecting the watch, pings, collection. `OnClusterPing`
is `UpdatePeer`; `Connect`, `OnResponse` and `Disconnect` are the Kubernetes
watch. `news[n]` is the queue of reports the watch has yet to deliver, each with
the endpoints that were ready and those that were not (or were deleted) when it
was made; `OnResponse` takes one after the other, however old, and a new watch
begins with the endpoints as they are, the unready ones too. `Lose`, `Crash`,
`Restart` and `Modify`, the changes of the endpoints, are faults, which end with
`CalmDown`; `Tick` is time. `steady[n][m]` is a history variable: node `n` handled a ping of `m`, and
since then no ping of `m` to `n` was lost and `m` did not stop sending them.

### Relay

One channel on every node, and events with the node they start on, their sender
(`#msg-from`), their delivery mode, the sessions `socket_id` stands for and their
size in bytes. `Recipients` is the three branches of `cchannel::Push`: a broadcast
spares the sender and the session named, a unicast goes to the session named and a
multicast to those whose id begins with the name, the sender not excepted. `ApiOnEvents`, `OnWsMessage`,
`ChannelRelay`, `ChannelPush` and `ApiRelay` are the path of an event on its own
node, `OnUdpData` with `OnClusterPush` its arrival on another. What `Channels`
does in many steps, a push with failing writes, is one step here; what is
detailed here is the frame: `Pack` cuts the length to 16 bits, `Send` refuses
above 65400 bytes with the header, `OnUdpData` reads below that and leaves
anything else in the socket. Membership is fixed: `Cluster` is about it.

### Presence

`Subscribe`, `GetUsers`, `Announce`, `SelfPush` and `Reply` are the steps of
`cpresencechannel::Subscribe` and of the end of `OnPusherSubscribe`;
`UnSubscribe` tries both locks. `Throws` says which `socket_id` `cchannel::Push`
cannot read, `Exception` what `PollThread` makes of that. `msg::Make` initialises
a JSON value with another in braces, which some compilers read as an array of
one; setting a member of that throws, at the first push. `wraps`, chosen in `Init`,
says which compiler built the server; `SelfMessage` fails either way.

## Runs

| Run | Checks | Result |
|---|---|---|
| `channels_safety` | `TypeOK`, `KeepsSubscription`, `ClosesOnlyEmpty` | holds, 759 087 states |
| `channels_liveness` | `CallsReturn`, `RegistrySettles` | holds, 103 530 states |
| `channels_lost_subscription` | `SubscribedReceives` | violated |
| `channels_lost_leave` | `LeaveIsAnnounced` | violated |
| `async_queue` | `TypeOK`, `WorkConserving`, `FifoOnce`, `JobsRun`, `PoolStops` | holds, 15 251 states |
| `rate_limiter` | `TypeOK`, `QueueBounded`, `NoLostWakeup`, `AtMostTwoPerInterval`, `FifoOnce`, `JobsTaken`, `LimiterStops` | holds, 251 916 states |
| `smpp_safety` | `TypeOK`, `AttemptsBounded`, `Settled`, `FinishedIsFinal` | holds, 2 561 016 states |
| `smpp_liveness` | `ChunksSettle` | holds, 574 478 states |
| `cluster_membership` | `TypeOK`, `KeepsLivePeers`, `DropsDeadPeers`, `OnePingConnects` | holds, 275 382 states |
| `cluster_never_heals` | `ConfiguredPeersConnect` | violated |
| `relay` | `TypeOK`, `OnlyAudience`, `CopiesBounded`, `RelayedReaches` | holds, 275 184 states |
| `presence_users_list` | `SelfMessage` | violated |

Channels. `KeepsSubscription`: an open session that has not asked to leave stays
in the channel object it joined. `ClosesOnlyEmpty`: a thread never takes its own
object out of the registry while somebody is in it. `CallsReturn`: a worker's
call returns; were `UnSubscribe` to wait for the lock, `Gc` would wait for
itself. `RegistrySettles`: when clients are silent, only open sessions stay in
registered channels, and empty channels leave the registry; a raw session that
timed out depends on the idle loop for this.

Queues. `WorkConserving` and `NoLostWakeup`: no job waits while a thread sleeps
through its notification. `FifoOnce`: the refinement of `JobQueue`.
`JobsRun`, `JobsTaken`: a queued job starts unless the queue is stopped.
`PoolStops`: the pool's destructor returns; `LimiterStops`: the limiter's does,
except in one window: `request_stop` is not made under the mutex, so that a
`notify_all` between the predicate and the block (`missed`) leaves the
destructor waiting. `QueueBounded`: `max_queue + 1` jobs, for Enqueue compares
with `>`. `AtMostTwoPerInterval`: the first and the third of three jobs in a row
start an interval apart, the best that holds: two can start together when the
thread overslept.

SMPP. `AttemptsBounded`: a chunk is sent once and `numOfRetries` times again,
whatever happens. `Settled`: no chunk is forgotten before it is delivered or out
of retries, and each one in a queue has a timer. `FinishedIsFinal`: what is known
to be delivered is not sent again. `ChunksSettle`: every chunk is in the end
delivered or given up, also when no gateway ever answers.

Cluster. `KeepsLivePeers`: a peer that goes on pinging is not collected, however
late pings and idle loops are, as long as both delays fit into the ten seconds;
only a report that calls it unready, true or out of date, takes it out.
`DropsDeadPeers`: a dead one is. `OnePingConnects`: once nothing is lost, one
ping connects both nodes for good, if no report to the contrary is left to take.

Relay. `OnlyAudience`: whichever node pushes an event, a broadcast gets neither
back to its sender nor to the session it excludes, a unicast or multicast to
nobody but those it is addressed to. `CopiesBounded`: how often at most.
`RelayedReaches`: only a full loss, or a frame of the largest size at the head of
the socket, keeps an event that fits a frame from a session it is meant for.

The four violations are behaviours of the code, against what a document, a
comment or a test of the repository says (quoted in `PROJECT.json`):

- `channels_lost_subscription`: another thread's push on the object that
  `Register` has just created finds it empty and unregisters it; `Subscribe` then
  enters the session into an object nobody can find, and the client is told it is
  subscribed.
- `channels_lost_leave`: a session unsubscribes, the channel closes and is
  created anew, the session subscribes again; `SubscribedTo.emplace` keeps the
  expired pointer, so when the session ends only `Gc` removes it from the new
  channel, and `Gc` calls no hooks.
- `cluster_never_heals`: two nodes configured as peers that did not hear from
  each other for the interval and ten seconds both erase the other, and neither
  ever pings again.
- `presence_users_list`: the push of the users list has an array where
  `cchannel::Push` reads a string; the exception ends the worker before the
  subscriber is sent any list.

Two more things the passing runs had to allow for are worth knowing: an API event
for a channel that exists on the node is relayed twice (`CopiesBounded` allows
two), and a frame of exactly 65400 bytes stops all cluster traffic of the nodes
that receive it (`HeadOfLargest` in `RelayedReaches`).

## Bounds

- Channels: one name, two objects (`MaxInst`): an object and the one that
  replaces it under its name, the case stale pointers and late `UnRegister`s
  need. Two workers and the idle loop, one Pusher and one raw session, each read
  by its own worker. `MaxOps` client operations: three in the safety run, with
  broadcasts, a multicast and a unicast; one in the liveness run, which starts
  from the channel both sessions have joined (`Established`); four where a
  counterexample is sought. `Lose`, `Drop`, destruction and the idle loop are not
  counted.
- Queues: two producers and three jobs; two threads in the pool (a lost wakeup
  needs a sleeper and a busy thread), `max_queue` one, so that the third job is
  refused or not. Three starts are what the rate is about; `MaxTime` stops the
  clock only when the thread does not wait for it.
- SMPP, safety: two messages of one part each, for collisions of numbers and of
  retries, one retry each; two gateway objects (`MaxGw`: no third is constructed),
  both of which fail, close and close each other's registration; no pings or
  refused binds (`MaxPing` zero), which the liveness run has: with them the run
  would no longer finish in minutes. Two gateway objects connected once each then
  give their first chunks the same number, three; chunks that have different
  numbers and are answered by two objects are left to the theorems, which hold for
  every `MaxPing`. The chunks are interchangeable, so the run uses symmetry.
  Liveness: one message of two parts, of which the limiter may refuse one, and one
  retry each; three gateway objects, as many as one request and two retries can ask
  for, so that this bound never holds anything up; pings and refused binds up to
  number three.
- Cluster: two nodes, one with configured peers and one with the watch, since
  every property is about a pair; an interval of two, pauses and delays of one
  and a slack that just covers them; at most two reports wait (`MaxNews`), one that
  is out of date and one that corrects it.
- Relay: two nodes, a session on each, three events: the API's broadcast of the
  largest size that is read, a session's broadcast of the one size that is sent and
  not read, and a small multicast that addresses its own sender too. The sizes
  whose length changes in 16 bits are covered by the theorem. One repetition per
  event and node. A socket holds one frame (`MaxBuf`); what comes while it is full
  stays in flight or is lost.
- Presence: two workers, three sessions, one without a user.

Deadlock is not checked: each instance ends when its operations are used up.

## Fairness

- Channels: a thread that can go on does (`Continue`). A worker that waits for
  `chSubscribersLock` gets it if it is released again and again, which the fair
  `std::shared_mutex` of the platform gives. The idle loop runs every second, and
  the poll's collection reaches every lost Pusher session. Nothing is assumed of
  clients, nor that a poll ever reports the error of a raw session.
- AsyncQueue: threads run and jobs return; strong fairness for the threads of
  the pool, which ask again and again for a mutex that others release.
- RateLimiter: the one thread, the producers' notifications, the destructor and
  the clock go on.
- Smpp: the sending threads and the poll go on and time passes; nothing is asked
  of the network or the gateways.
- Cluster: time passes, idle loops and watches run, and a ping under way is
  handled unless a fault loses it; liveness is stated from `CalmDown` on.
- Relay: handlers that have begun go on, frames that are not lost arrive as long
  as there is room in the socket, and the poll is level-triggered: it reports a
  socket as long as something is in it. Fairness is to each node, not to each
  event.
- Presence: a worker in `Subscribe` goes on.

## Proofs

### ChannelsProofs

`ChannelsProofs` proves, for every number of names, sessions, threads and
objects and from `ChannelsAssumption` alone,

- `TypeCorrect`: `Spec => []TypeOK`,
- `SubscriptionKept`: `Spec => []KeepsSubscription`,
- `OnlyEmptyClosed`: `Spec => ClosesOnlyEmpty`.

None of the last two is inductive. `IInv` adds `ObjectInv` (objects are numbered
in order and registered under their own names; `SubscribedTo` entries point to
objects of that name) and for each thread `ThreadInv`: what it has in hand
(`InHand`), which exclusive lock it holds where (`Holds`), that what it is about
to close is empty, or already out of the registry when `OnIdle` closes it again
(`Closes`), and why it may remove a session: its socket is not open, or its own
worker asked for it (`Removes`). The proof is by rely and guarantee: a step of
thread `t` re-establishes `ThreadInv(t)` and satisfies `Rely(u)` for every other
thread `u`; `RelyKeepsThreadInv` shows that this keeps `ThreadInv(u)`. There is
one lemma per action.

### AsyncQueueProofs

For any threads, producers and jobs (`AsyncQueueAssumption`: both sets are
finite): `TypeCorrect`; `NoWakeupLost`, that `WorkConserving` is an invariant;
`ImplementsJobQueue`, `Spec => FifoOnce`. `WorkConserving` counts two sets of
threads; it is kept because a thread about to block holds the lock and found an
empty queue (`BlocksOnEmpty`). For the refinement each step is shown to leave
`started \o quJobs` alone but for `Enqueue`, with the lemmas of `QueueLemmas`.

### RateLimiterProofs

For any producers, jobs, bound and interval: `TypeCorrect`; `QueueStaysBounded`,
`Spec => []QueueBounded`; `NoWakeupLost`, `Spec => []NoLostWakeup`; `RateHolds`,
`Spec => []AtMostTwoPerInterval`; `ImplementsJobQueue`. The first two need that
the thread has the mutex, and nothing is queued, from its look at the queue until
it blocks. For the refinement, a job that the thread has claimed but not popped is
the head of the queue, which only its own `Take` can change. The rate needs an
invariant that relates `nextDue`, `stamp`
and the clock to the last two entries of `runs`: `nextDue` is never less than
an interval after the start before the last, but for the time a job runs.

### ClusterProofs

For any nodes, interval and delays with `MaxDelay < Interval` and
`MaxPause + MaxDelay <= Slack`: `TypeCorrect` and `LivePeersKept`,
`Spec => KeepsLivePeers`. The invariant adds `ClockInv` (a node that runs pings at
the first `Check` after the interval, so `since` exceeds it by at most the pause)
and `SteadyInv`: what a node knows of a steady peer is no older than that peer's
last ping, or, while that ping is under way, than the one before it. A peer that a
report calls unready stops being steady when the report is taken, so reports may
come in any number and be of any age.

### SmppProofs

For any messages, parts, threads, gateways and retries: `SendsBounded`,
`Spec => []AttemptsBounded`. The bound itself is not inductive: if a chunk could
be in the limiter and in the retry queue, or twice in either, it could be sent
without a retry being counted. `PlaceInv` says that a chunk is in at most one of
limiter, hands, `fdQueueGC` and retry queue, at most once in each queue, and how
many sends it has had in each place; `RequestInv` that no part of a message is
anywhere before its request offers it. It rests on `PartsAssumption`: `Split`
makes new chunks for every message.

### SmppLifeProofs

On top of `SmppProofs`, from the same assumptions: `TypeCorrect`;
`ChunksAreSettled`, `Spec => []Settled`; `FinishedStays`,
`Spec => FinishedIsFinal`.

`TypeOK` bounds sequence numbers and message ids, so it has to be known how many
are used. `CountInv` says that a gateway's `seqNo` is at most `MaxPing`, for
pings and refused binds, two for each request that is done with `Connect` and one
for each chunk that was made; both sets are
finite and grow when a number is taken. `SentInv` counts submissions: there are no
more of a chunk than calls of `SendChunk` for it, of which `AttemptsBounded` allows
`numOfRetries + 1`, so ids stay below `MaxUid`. `NumberInv` says that whatever
carries a number (`pendingMsgQueue`, a submission, an entry of `ackMsgQueue`)
carries the one its chunk was made with.

`Settled` and `FinishedIsFinal` speak of the time during which no two chunks
share a number. Numbers are given once, so a state that is `Distinct` has only
`Distinct` predecessors, and `LifeInv` may be carried from step to step under that
condition. Its conjunct for one chunk, `Life`, says where a chunk is on its way: in
at most one of the three maps, once in `ackMsgQueue`; in none of them while it
waits for a retry or is being written; in one of them while `fdQueueGC` watches it,
unless it is finished; and when no thread or queue has it any more, it is finished
or out of retries. Each handler of a reply moves one chunk; that it touches no
other is where `Distinct` and `NumberInv` are used. `FinishedStays` follows since
a finished chunk is neither in the limiter (`MadeInv`: it was made, hence sent)
nor in the retry queue.

### RelayProofs

For any nodes, sessions, events, sizes, repetitions and buffers, from
`RelayAssumption`: `TypeCorrect`, `OnlyAudienceReached` (`OnlyAudience`) and
`CopiesAreBounded` (`CopiesBounded`), all from `FramesBalance`, `Spec => []IInv`.

`CopiesBounded` is not inductive: a frame in flight or in a socket is a copy that
is still to come. `FlowInv` and `CopyInv` balance them: what is in flight, lost or
in the socket of a node, together with what a session there got, is never more
than what was sent and repeated to it. `Sends` reads the first number off the
stage of the event's own handler; the frames of a socket are counted with
`CountOf`. `CarriedInv` says that only what `Send` lets pass is on its way, and
never to its own node; `LocalInv` that the event's own node pushes it once, and
that another gets nothing of an event whose frame cannot be sent and read. The
last needs that what `Pack` makes of a length is what `OnUdpData` reads, for every
size that `Send` lets pass (`ReadIsSmall`).

### Only model-checked

Every invariant and every action property of the passing runs is proved, and both
refinements of `JobQueue`. What stays with TLC are the liveness properties, for
fairness is out of the prover's reach: `CallsReturn`, `RegistrySettles`, `JobsRun`,
`PoolStops`, `JobsTaken`, `LimiterStops`, `ChunksSettle`, `DropsDeadPeers`,
`OnePingConnects`, `RelayedReaches`; and the four violations, which include all of
`Presence`. Of the conditions under which the theorems hold, the finiteness of the
sets a proof counts over, the delays of `Cluster` and the new chunks of `Split` are
assumptions on the constants; TLC evaluates them on every instance.

## Not modelled

- Data races: on `chSubscribers` between two erasing pushes and in `ApiOverview`,
  on `SubscribedTo`, on the poll's `fdQueueGC`, on `gwSocket` and the watch's
  socket. They have no defined outcome; each is a hazard or named in the
  component's note, and the actions around it are atomic.
- Descriptor numbers and `fdHandlers`: a session's socket is a state. That a
  number may be reused between `close` and the reset of `fdSocket` is listed as a
  hazard.
- Cluster joins and leaves: what is sent for them does not have the form
  `OnClusterJoin` and `OnClusterLeave` read, so they have no effect; registrations
  only reach a Lua module.
- `UsersList` after a successful subscription: no session reaches it, since the
  push before it throws.
- The timer queue, which no part of the server uses; hooks beyond their place in
  the job queue (an HTTP request); WebSocket and HTTP text, credentials, the
  parsing of messages, configuration, Lua, logging and the command line, which keep no
  state that threads share and are conversions or wrappers.
- Third-party code under `src/third` (JSON, logging, YAML and others), nearly all
  of the repository's lines: it is used, not part of the program.
