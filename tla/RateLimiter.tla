---------------------------- MODULE RateLimiter -----------------------------
(***************************************************************************)
(* cratelimiter: one thread takes jobs from a bounded queue and starts     *)
(* them no faster than one per interval.  Time is read from a clock that   *)
(* goes on between any two steps of the thread.  The destructor's stop     *)
(* request is not made under the mutex: it may come between the predicate  *)
(* of cv.wait and the block, where the thread misses it, and between the   *)
(* condition of the loop and the pop, where the thread takes one more job. *)
(***************************************************************************)
EXTENDS Naturals, Sequences

CONSTANTS
    Producers,  \* threads that call Enqueue
    Jobs,       \* jobs, each offered at most once
    MaxQueue,   \* max_queue
    Interval,   \* interval between two starts
    MaxTime,    \* bound: the clock goes further only while the thread sleeps
    None        \* no job

ASSUME RateLimiterAssumption ==
    /\ None \notin Jobs
    /\ MaxQueue \in Nat /\ Interval \in Nat /\ MaxTime \in Nat

VARIABLES
    queue,      \* the jobs waiting
    stop,       \* stop_requested
    pc, job,    \* where the thread is in Run, and with which job
    stamp,      \* its local `now`
    nextDue,    \* the time before which no job is started
    clock,      \* steady_clock
    prod,       \* producer -> "idle", or "notify" between unlock and notify_one
    refused,    \* jobs Enqueue returned false for
    dtor,       \* the destructor: "no", "notify", "join", "done"
    started,    \* history: jobs in the order in which the thread took them
    runs,       \* history: times at which jobs that were not skipped started
    missed      \* history: notify_all came while the thread went to block

queueVars == <<queue, prod, refused, started>>
timeVars == <<stamp, nextDue, clock, runs>>
stopVars == <<stop, dtor, missed>>
vars == <<queueVars, pc, job, timeVars, stopVars>>

RunPCs == {"look", "block", "wait", "take", "due", "sleep", "start", "run", "again", "exit"}

(* m_ is held across a step by the thread about to block or to take a job.  *)
LockFree == pc \notin {"block", "take"}

Offered(j) == \/ j \in refused
              \/ \E i \in 1 .. Len(queue) : queue[i] = j
              \/ \E i \in 1 .. Len(started) : started[i] = j

-----------------------------------------------------------------------------
(* Enqueue: a queue longer than max_queue refuses.                          *)
EnqueueRefused(p, j) ==
    /\ prod[p] = "idle" /\ ~Offered(j) /\ LockFree
    /\ Len(queue) > MaxQueue
    /\ refused' = refused \cup {j}
    /\ UNCHANGED <<queue, prod, started, pc, job, timeVars, stopVars>>

(* Mutant of Enqueue: the length is not looked at.                          *)
EnqueueAlways(p, j) ==
    /\ prod[p] = "idle" /\ ~Offered(j) /\ LockFree
    /\ queue' = Append(queue, j)
    /\ prod' = [prod EXCEPT ![p] = "notify"]
    /\ UNCHANGED <<refused, started, pc, job, timeVars, stopVars>>

Enqueue(p, j) ==
    /\ prod[p] = "idle" /\ ~Offered(j) /\ LockFree
    /\ Len(queue) <= MaxQueue
    /\ queue' = Append(queue, j)
    /\ prod' = [prod EXCEPT ![p] = "notify"]
    /\ UNCHANGED <<refused, started, pc, job, timeVars, stopVars>>

(* Mutant of Notify: the notification comes when the thread is not asleep.  *)
NotifyAwake(p) ==
    /\ prod[p] = "notify"
    /\ prod' = [prod EXCEPT ![p] = "idle"]
    /\ UNCHANGED <<queue, refused, started, pc, job, timeVars, stopVars>>

Notify(p) ==
    /\ prod[p] = "notify"
    /\ prod' = [prod EXCEPT ![p] = "idle"]
    /\ pc' = IF pc = "wait" THEN "look" ELSE pc
    /\ UNCHANGED <<queue, refused, started, job, timeVars, stopVars>>

-----------------------------------------------------------------------------
(* Run: the predicate of cv.wait is false ...                               *)
FindNothing ==
    /\ pc = "look" /\ queue = << >> /\ ~stop
    /\ pc' = "block"
    /\ UNCHANGED <<queueVars, job, timeVars, stopVars>>

(* ... and the thread blocks, releasing the mutex.                          *)
Block ==
    /\ pc = "block"
    /\ pc' = "wait"
    /\ UNCHANGED <<queueVars, job, timeVars, stopVars>>

WakeSpuriously ==
    /\ pc = "wait"
    /\ pc' = "look"
    /\ UNCHANGED <<queueVars, job, timeVars, stopVars>>

FindStop ==
    /\ pc = "look" /\ stop
    /\ pc' = "exit"
    /\ UNCHANGED <<queueVars, job, timeVars, stopVars>>

(* The condition of the loop holds: there is a job and no stop request.     *)
Claim ==
    /\ pc \in {"look", "again"} /\ queue # << >> /\ ~stop
    /\ pc' = "take"
    /\ UNCHANGED <<queueVars, job, timeVars, stopVars>>

(* Mutant of Take: the newest job first.                                    *)
TakeLast ==
    /\ pc = "take"
    /\ job' = queue[Len(queue)]
    /\ started' = Append(started, queue[Len(queue)])
    /\ queue' = SubSeq(queue, 1, Len(queue) - 1)
    /\ pc' = "due"
    /\ UNCHANGED <<prod, refused, timeVars, stopVars>>

(* Pop the next job, whatever was requested since, and release the mutex.   *)
Take ==
    /\ pc = "take"
    /\ job' = Head(queue)
    /\ started' = Append(started, Head(queue))
    /\ queue' = Tail(queue)
    /\ pc' = "due"
    /\ UNCHANGED <<prod, refused, timeVars, stopVars>>

(* Read the clock; a job that is early sleeps and is stamped nextDue.       *)
DueLater ==
    /\ pc = "due" /\ clock < nextDue
    /\ stamp' = nextDue
    /\ pc' = "sleep"
    /\ UNCHANGED <<queueVars, job, nextDue, clock, runs, stopVars>>

DueNow ==
    /\ pc = "due" /\ clock >= nextDue
    /\ stamp' = clock
    /\ pc' = "start"
    /\ UNCHANGED <<queueVars, job, nextDue, clock, runs, stopVars>>

WakeUp ==
    /\ pc = "sleep" /\ clock >= nextDue
    /\ pc' = "start"
    /\ UNCHANGED <<queueVars, job, timeVars, stopVars>>

(* The job runs, or skips when the service it belongs to is gone.           *)
Skip ==
    /\ pc = "start"
    /\ nextDue' = stamp
    /\ job' = None
    /\ pc' = "again"
    /\ UNCHANGED <<queueVars, stamp, clock, runs, stopVars>>

Start ==
    /\ pc = "start"
    /\ runs' = Append(runs, clock)
    /\ pc' = "run"
    /\ UNCHANGED <<queueVars, job, stamp, nextDue, clock, stopVars>>

(* Mutant of Finish: after an idle time the due times only catch up.        *)
FinishCatchingUp ==
    /\ pc = "run"
    /\ nextDue' = nextDue + Interval
    /\ job' = None
    /\ pc' = "again"
    /\ UNCHANGED <<queueVars, stamp, clock, runs, stopVars>>

(* Mutant of Finish: the job stays in the thread's hands.                   *)
FinishKeepsJob ==
    /\ pc = "run"
    /\ nextDue' = IF nextDue < stamp THEN stamp + Interval ELSE nextDue + Interval
    /\ pc' = "again"
    /\ UNCHANGED <<queueVars, job, stamp, clock, runs, stopVars>>

Finish ==
    /\ pc = "run"
    /\ nextDue' = IF nextDue < stamp THEN stamp + Interval ELSE nextDue + Interval
    /\ job' = None
    /\ pc' = "again"
    /\ UNCHANGED <<queueVars, stamp, clock, runs, stopVars>>

Again ==
    /\ pc = "again" /\ (queue = << >> \/ stop)
    /\ pc' = "look"
    /\ UNCHANGED <<queueVars, job, timeVars, stopVars>>

-----------------------------------------------------------------------------
(* The destructor: request_stop, notify_all, join.                          *)
Stop ==
    /\ dtor = "no"
    /\ stop' = TRUE
    /\ dtor' = "notify"
    /\ UNCHANGED <<queueVars, pc, job, timeVars, missed>>

(* Mutant of StopNotify: nobody is notified.                                *)
StopSilently ==
    /\ dtor = "notify"
    /\ dtor' = "join"
    /\ missed' = (pc = "block")
    /\ UNCHANGED <<queueVars, pc, job, timeVars, stop>>

StopNotify ==
    /\ dtor = "notify"
    /\ dtor' = "join"
    /\ missed' = (pc = "block")
    /\ pc' = IF pc = "wait" THEN "look" ELSE pc
    /\ UNCHANGED <<queueVars, job, timeVars, stop>>

Join ==
    /\ dtor = "join" /\ pc = "exit"
    /\ dtor' = "done"
    /\ UNCHANGED <<queueVars, pc, job, timeVars, stop, missed>>

Tick ==
    /\ clock < MaxTime \/ clock < nextDue
    /\ clock' = clock + 1
    /\ UNCHANGED <<queueVars, pc, job, stamp, nextDue, runs, stopVars>>

-----------------------------------------------------------------------------
Init ==
    /\ queue = << >> /\ refused = {} /\ started = << >>
    /\ prod = [p \in Producers |-> "idle"]
    /\ pc = "look" /\ job = None
    /\ stamp = 0 /\ nextDue = 0 /\ clock = 0 /\ runs = << >>
    /\ stop = FALSE /\ dtor = "no" /\ missed = FALSE

Run ==
    \/ FindNothing \/ Block \/ FindStop \/ Claim \/ Take \/ DueLater \/ DueNow \/ WakeUp
    \/ Skip \/ Start \/ Finish \/ Again

Next ==
    \/ \E p \in Producers, j \in Jobs : Enqueue(p, j) \/ EnqueueRefused(p, j)
    \/ \E p \in Producers : Notify(p)
    \/ Run \/ WakeSpuriously
    \/ Stop \/ StopNotify \/ Join
    \/ Tick

(* The threads run, jobs return and time passes.                            *)
Fairness ==
    /\ \A p \in Producers : WF_vars(Notify(p))
    /\ WF_vars(Run) /\ WF_vars(StopNotify) /\ WF_vars(Join) /\ WF_vars(Tick)

Spec == Init /\ [][Next]_vars
FairSpec == Spec /\ Fairness

-----------------------------------------------------------------------------
(* The variables keep to their types; a job is in hand from Take to Finish, *)
(* and a thread about to take one finds it in the queue.                    *)
TypeOK ==
    /\ queue \in Seq(Jobs) /\ started \in Seq(Jobs) /\ runs \in Seq(Nat)
    /\ refused \subseteq Jobs
    /\ prod \in [Producers -> {"idle", "notify"}]
    /\ pc \in RunPCs /\ job \in Jobs \cup {None}
    /\ job # None <=> pc \in {"due", "sleep", "start", "run"}
    /\ pc = "take" => queue # << >>
    /\ stamp \in Nat /\ nextDue \in Nat /\ clock \in Nat
    /\ stop \in BOOLEAN /\ missed \in BOOLEAN
    /\ dtor \in {"no", "notify", "join", "done"}

(* The queue never grows past max_queue + 1: Enqueue compares with `>`, and *)
(* the job in the thread's hands is not counted.                            *)
QueueBounded == Len(queue) <= MaxQueue + 1

(* No wakeup is lost: the thread sleeps on a filled queue only while a      *)
(* producer is about to notify it.                                          *)
NoLostWakeup ==
    pc = "wait" /\ queue # << >> => \E p \in Producers : prod[p] = "notify"

(* The rate holds up to a burst of two: however late the thread is woken    *)
(* and however long jobs take, among three jobs started one after the other *)
(* the first and the last are an interval apart.                            *)
AtMostTwoPerInterval ==
    \A i \in 1 .. Len(runs) : i + 2 <= Len(runs) => runs[i + 2] >= runs[i] + Interval

(* A queued job is taken, unless the limiter is stopped first.              *)
JobsTaken ==
    \A j \in Jobs :
        (\E i \in 1 .. Len(queue) : queue[i] = j) ~> (stop \/ \E i \in 1 .. Len(started) : started[i] = j)

(* The destructor returns unless its notification came in the one window    *)
(* in which the thread has looked at the stop token and not yet blocked.    *)
LimiterStops == dtor = "notify" ~> (dtor = "done" \/ missed)

(* The limiter is the queue its users rely on (see JobQueue), its thread    *)
(* claiming a job when it enters the loop: jobs go through its hands in the *)
(* order of Enqueue, each once, one at a time, and after the stop request   *)
(* only the one it had claimed before.                                      *)
Queue == INSTANCE JobQueue WITH
            Threads <- {"worker"},
            accepted <- started \o queue,
            begun <- Len(started) + (IF pc = "take" THEN 1 ELSE 0),
            hand <- [t \in {"worker"} |-> IF pc = "take" THEN Head(queue) ELSE job],
            stopped <- stop
FifoOnce == Queue!Spec
=============================================================================
