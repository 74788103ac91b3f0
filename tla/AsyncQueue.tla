----------------------------- MODULE AsyncQueue -----------------------------
(***************************************************************************)
(* core::casyncqueue: a pool of threads that take jobs from one queue, as  *)
(* used for hooks (two threads), API requests to the SMPP service (four)   *)
(* and retries of the SMPP service (one).  A thread that finds no job goes *)
(* to sleep in two steps: it looks at the queue under quLock and then      *)
(* blocks, which releases the lock.  Between the two it holds quLock.      *)
(***************************************************************************)
EXTENDS Naturals, Sequences, FiniteSets

CONSTANTS
    Workers,    \* threads of the pool
    Producers,  \* threads that call Enqueue
    Jobs,       \* jobs, each enqueued at most once
    None        \* no job

ASSUME AsyncQueueAssumption ==
    /\ None \notin Jobs
    /\ IsFiniteSet(Workers) /\ IsFiniteSet(Producers)

VARIABLES
    quJobs,     \* the queue
    quYet,      \* cleared by the destructor
    pc,         \* worker -> where it is in ThreadRunner
    job,        \* worker -> the job it runs
    prod,       \* producer -> "idle", or "notify" between unlock and notify_one
    dtor,       \* the destructor: "no", "notify", "join", "done"
    started     \* history: jobs in the order in which threads took them

vars == <<quJobs, quYet, pc, job, prod, dtor, started>>

WorkerPCs == {"top", "look", "block", "wait", "run", "again", "exit"}

Asleep == {w \in Workers : pc[w] = "wait"}

(* quLock is held across a step only by a thread about to block.            *)
LockFree == \A w \in Workers : pc[w] # "block"

Goto(w, l) == pc' = [pc EXCEPT ![w] = l]

Seen(j) == \/ \E i \in 1 .. Len(quJobs) : quJobs[i] = j
           \/ \E i \in 1 .. Len(started) : started[i] = j

-----------------------------------------------------------------------------
(* Enqueue: emplace under the lock ...                                      *)
Enqueue(p, j) ==
    /\ prod[p] = "idle" /\ ~Seen(j)
    /\ LockFree
    /\ quJobs' = Append(quJobs, j)
    /\ prod' = [prod EXCEPT ![p] = "notify"]
    /\ UNCHANGED <<quYet, pc, job, dtor, started>>

(* Mutant of Notify: nobody is woken.                                       *)
NotifyNobody(p) ==
    /\ prod[p] = "notify"
    /\ prod' = [prod EXCEPT ![p] = "idle"]
    /\ UNCHANGED <<quJobs, quYet, pc, job, dtor, started>>

(* ... then notify_one wakes a sleeper, if there is one.                    *)
Notify(p) ==
    /\ prod[p] = "notify"
    /\ prod' = [prod EXCEPT ![p] = "idle"]
    /\ \/ \E w \in Asleep : Goto(w, "look")
       \/ Asleep = {} /\ UNCHANGED pc
    /\ UNCHANGED <<quJobs, quYet, job, dtor, started>>

-----------------------------------------------------------------------------
(* ThreadRunner: while (quYet), read without the lock.                      *)
Top(w) ==
    /\ pc[w] = "top"
    /\ Goto(w, IF quYet THEN "look" ELSE "exit")
    /\ UNCHANGED <<quJobs, quYet, job, prod, dtor, started>>

(* The predicate of wait is false: the thread is going to block.            *)
FindNothing(w) ==
    /\ pc[w] = "look" /\ LockFree
    /\ quJobs = << >> /\ quYet
    /\ Goto(w, "block")
    /\ UNCHANGED <<quJobs, quYet, job, prod, dtor, started>>

Block(w) ==
    /\ pc[w] = "block"
    /\ Goto(w, "wait")
    /\ UNCHANGED <<quJobs, quYet, job, prod, dtor, started>>

(* A condition variable may wake without a notification.                    *)
WakeSpuriously(w) ==
    /\ pc[w] = "wait"
    /\ Goto(w, "look")
    /\ UNCHANGED <<quJobs, quYet, job, prod, dtor, started>>

(* The queue was stopped: leave, with jobs in it or not.                    *)
FindStop(w) ==
    /\ pc[w] = "look" /\ LockFree
    /\ ~quYet
    /\ Goto(w, "exit")
    /\ UNCHANGED <<quJobs, quYet, job, prod, dtor, started>>

(* Mutant of Take: the newest job first.                                    *)
TakeLast(w) ==
    /\ pc[w] \in {"look", "again"} /\ LockFree
    /\ quYet /\ quJobs # << >>
    /\ job' = [job EXCEPT ![w] = quJobs[Len(quJobs)]]
    /\ started' = Append(started, quJobs[Len(quJobs)])
    /\ quJobs' = SubSeq(quJobs, 1, Len(quJobs) - 1)
    /\ Goto(w, "run")
    /\ UNCHANGED <<quYet, prod, dtor>>

(* Pop a job under the lock and run it without.                             *)
Take(w) ==
    /\ pc[w] \in {"look", "again"} /\ LockFree
    /\ quYet /\ quJobs # << >>
    /\ job' = [job EXCEPT ![w] = Head(quJobs)]
    /\ started' = Append(started, Head(quJobs))
    /\ quJobs' = Tail(quJobs)
    /\ Goto(w, "run")
    /\ UNCHANGED <<quYet, prod, dtor>>

(* Mutant of Run: the thread keeps the job it has run.                      *)
RunKeepsJob(w) ==
    /\ pc[w] = "run"
    /\ Goto(w, "again")
    /\ UNCHANGED <<quJobs, quYet, job, prod, dtor, started>>

(* The job returns.                                                         *)
Run(w) ==
    /\ pc[w] = "run"
    /\ job' = [job EXCEPT ![w] = None]
    /\ Goto(w, "again")
    /\ UNCHANGED <<quJobs, quYet, prod, dtor, started>>

(* The inner loop ends.                                                     *)
Again(w) ==
    /\ pc[w] = "again" /\ LockFree
    /\ quJobs = << >> \/ ~quYet
    /\ Goto(w, "top")
    /\ UNCHANGED <<quJobs, quYet, job, prod, dtor, started>>

-----------------------------------------------------------------------------
(* Mutant of Stop: the flag is cleared without the lock.                    *)
StopUnlocked ==
    /\ dtor = "no"
    /\ quYet' = FALSE
    /\ dtor' = "notify"
    /\ UNCHANGED <<quJobs, pc, job, prod, started>>

(* The destructor: clear quYet under the lock, notify_all, join.            *)
Stop ==
    /\ dtor = "no" /\ LockFree
    /\ quYet' = FALSE
    /\ dtor' = "notify"
    /\ UNCHANGED <<quJobs, pc, job, prod, started>>

StopNotify ==
    /\ dtor = "notify"
    /\ dtor' = "join"
    /\ pc' = [w \in Workers |-> IF pc[w] = "wait" THEN "look" ELSE pc[w]]
    /\ UNCHANGED <<quJobs, quYet, job, prod, started>>

Join ==
    /\ dtor = "join"
    /\ \A w \in Workers : pc[w] = "exit"
    /\ dtor' = "done"
    /\ UNCHANGED <<quJobs, quYet, pc, job, prod, started>>

-----------------------------------------------------------------------------
Init ==
    /\ quJobs = << >>
    /\ quYet = TRUE
    /\ pc = [w \in Workers |-> "top"]
    /\ job = [w \in Workers |-> None]
    /\ prod = [p \in Producers |-> "idle"]
    /\ dtor = "no"
    /\ started = << >>

ThreadRunner(w) ==
    \/ Top(w) \/ FindNothing(w) \/ Block(w) \/ FindStop(w)
    \/ Take(w) \/ Run(w) \/ Again(w)

Next ==
    \/ \E p \in Producers, j \in Jobs : Enqueue(p, j)
    \/ \E p \in Producers : Notify(p)
    \/ \E w \in Workers : ThreadRunner(w) \/ WakeSpuriously(w)
    \/ Stop \/ StopNotify \/ Join

(* Threads run, jobs return, and the mutex does not starve a thread that    *)
(* keeps asking for it.                                                     *)
Fairness ==
    /\ \A p \in Producers : WF_vars(Notify(p))
    /\ \A w \in Workers : SF_vars(ThreadRunner(w))
    /\ WF_vars(StopNotify) /\ WF_vars(Join)

Spec == Init /\ [][Next]_vars
FairSpec == Spec /\ Fairness

-----------------------------------------------------------------------------
(* The queue, the flag and the threads keep to their types, and a thread    *)
(* has a job exactly while it runs one.                                     *)
TypeOK ==
    /\ quJobs \in Seq(Jobs)
    /\ quYet \in BOOLEAN
    /\ pc \in [Workers -> WorkerPCs]
    /\ job \in [Workers -> Jobs \cup {None}]
    /\ \A w \in Workers : job[w] # None <=> pc[w] = "run"
    /\ prod \in [Producers -> {"idle", "notify"}]
    /\ dtor \in {"no", "notify", "join", "done"}
    /\ started \in Seq(Jobs)

Looking == {w \in Workers : pc[w] \in {"top", "look", "again"}}
Notifying == {p \in Producers : prod[p] = "notify"}

(* No wakeup is lost: while a thread of a running queue sleeps, every       *)
(* queued job has a thread that is going to look at the queue, or a         *)
(* notification under way, of its own.                                      *)
WorkConserving ==
    quYet /\ Asleep # {} => Len(quJobs) <= Cardinality(Looking) + Cardinality(Notifying)

(* A job that is queued is run, unless the queue is stopped first.          *)
JobsRun ==
    \A j \in Jobs :
        (\E i \in 1 .. Len(quJobs) : quJobs[i] = j) ~> (~quYet \/ \E i \in 1 .. Len(started) : started[i] = j)

(* The destructor returns: no thread sleeps through the stop.               *)
PoolStops == dtor = "notify" ~> dtor = "done"

(* The pool is the queue its users rely on (see JobQueue): threads take the *)
(* jobs in the order of Enqueue, each once, each thread one at a time, and  *)
(* none takes one once quYet is cleared.                                    *)
Queue == INSTANCE JobQueue WITH
            Threads <- Workers, accepted <- started \o quJobs, begun <- Len(started),
            hand <- job, stopped <- ~quYet
FifoOnce == Queue!Spec
=============================================================================
