------------------------- MODULE RateLimiterProofs --------------------------
(* Proofs about RateLimiter, for any producers, jobs, queue length,         *)
(* interval and clock.                                                      *)
EXTENDS RateLimiter, QueueLemmas

-----------------------------------------------------------------------------
(* The thread has a job in hand exactly from Take to Finish or Skip.        *)
THEOREM TypeCorrect == Spec => []TypeOK
<1>1. Init => TypeOK
  <2> SUFFICES ASSUME Init PROVE TypeOK
    OBVIOUS
  <2>1. queue \in Seq(Jobs) /\ started \in Seq(Jobs) /\ runs \in Seq(Nat) /\ refused \subseteq Jobs
    BY DEF Init
  <2>2. prod \in [Producers -> {"idle", "notify"}]
    BY DEF Init
  <2> QED
    BY <2>1, <2>2 DEF Init, TypeOK, RunPCs
<1>2. TypeOK /\ [Next]_vars => TypeOK'
  <2> SUFFICES ASSUME TypeOK, [Next]_vars PROVE TypeOK'
    OBVIOUS
  <2> USE RateLimiterAssumption DEF TypeOK, RunPCs, queueVars, timeVars, stopVars
  <2>1. ASSUME NEW p \in Producers, NEW j \in Jobs, Enqueue(p, j) PROVE TypeOK'
    BY <2>1 DEF Enqueue, LockFree
  <2>2. ASSUME NEW p \in Producers, NEW j \in Jobs, EnqueueRefused(p, j) PROVE TypeOK'
    BY <2>2 DEF EnqueueRefused
  <2>3. ASSUME NEW p \in Producers, Notify(p) PROVE TypeOK'
    BY <2>3 DEF Notify
  <2>4. CASE Run
    <3>1. CASE FindNothing
      BY <3>1 DEF FindNothing
    <3>2. CASE Block
      BY <3>2 DEF Block
    <3>3. CASE FindStop
      BY <3>3 DEF FindStop
    <3>12. CASE Claim
      BY <3>12 DEF Claim
    <3>4. CASE Take
      <4>1. /\ Head(queue) \in Jobs /\ Head(queue) # None
            /\ Tail(queue) \in Seq(Jobs) /\ Append(started, Head(queue)) \in Seq(Jobs)
        BY <3>4, TakeFromFront DEF Take
      <4> QED
        BY <3>4, <4>1 DEF Take
    <3>5. CASE DueLater
      BY <3>5 DEF DueLater
    <3>6. CASE DueNow
      BY <3>6 DEF DueNow
    <3>7. CASE WakeUp
      BY <3>7 DEF WakeUp
    <3>8. CASE Skip
      BY <3>8 DEF Skip
    <3>9. CASE Start
      BY <3>9 DEF Start
    <3>10. CASE Finish
      BY <3>10 DEF Finish
    <3>11. CASE Again
      BY <3>11 DEF Again
    <3> QED
      BY <2>4, <3>1, <3>2, <3>3, <3>4, <3>5, <3>6, <3>7, <3>8, <3>9, <3>10, <3>11, <3>12 DEF Run
  <2>5. CASE WakeSpuriously
    BY <2>5 DEF WakeSpuriously
  <2>6. CASE Stop
    BY <2>6 DEF Stop
  <2>7. CASE StopNotify
    BY <2>7 DEF StopNotify
  <2>8. CASE Join
    BY <2>8 DEF Join
  <2>9. CASE Tick
    BY <2>9 DEF Tick
  <2>10. CASE UNCHANGED vars
    BY <2>10 DEF vars
  <2> QED
    BY <2>1, <2>2, <2>3, <2>4, <2>5, <2>6, <2>7, <2>8, <2>9, <2>10 DEF Next
<1> QED
  BY <1>1, <1>2, PTL DEF Spec

-----------------------------------------------------------------------------
(* The thread holds the mutex from looking at the queue until it blocks:    *)
(* nothing is put there in between.                                         *)
QueueInv == QueueBounded /\ NoLostWakeup /\ (pc = "block" => queue = << >>)

LEMMA QueueStep ==
    ASSUME TypeOK, QueueInv, [Next]_vars
    PROVE  QueueInv'
<1> USE DEF TypeOK, QueueInv, QueueBounded, NoLostWakeup, queueVars, timeVars, stopVars
<1>1. ASSUME NEW p \in Producers, NEW j \in Jobs, Enqueue(p, j) PROVE QueueInv'
  <2>1. Len(queue') = Len(queue) + 1 /\ pc' = pc /\ prod'[p] = "notify" /\ pc # "block"
    BY <1>1 DEF Enqueue, LockFree
  <2>2. Len(queue) <= MaxQueue
    BY <1>1 DEF Enqueue
  <2> QED
    BY <2>1, <2>2, RateLimiterAssumption
<1>2. ASSUME NEW p \in Producers, Notify(p) PROVE QueueInv'
  BY <1>2 DEF Notify
<1>3. CASE Take
  <2>1. Len(Tail(queue)) = Len(queue) - 1
    BY <1>3, TakeFromFront DEF Take
  <2> QED
    BY <1>3, <2>1, RateLimiterAssumption DEF Take
<1>4. CASE FindNothing \/ Block
  BY <1>4 DEF FindNothing, Block
<1>5. CASE UNCHANGED <<queue, prod>> /\ (pc' = pc \/ pc' \notin {"block", "wait"})
  BY <1>5
<1>6. \/ \E p \in Producers, j \in Jobs : Enqueue(p, j)
      \/ \E p \in Producers : Notify(p)
      \/ Take \/ FindNothing \/ Block
      \/ UNCHANGED <<queue, prod>> /\ (pc' = pc \/ pc' \notin {"block", "wait"})
  BY DEF Next, Run, EnqueueRefused, FindStop, Claim, DueLater, DueNow, WakeUp, Skip, Start, Finish, Again,
         WakeSpuriously, Stop, StopNotify, Join, Tick, vars
<1> QED
  BY <1>1, <1>2, <1>3, <1>4, <1>5, <1>6

LEMMA QueueInvariant == Spec => []QueueInv
<1>1. Init => QueueInv
  BY RateLimiterAssumption DEF Init, QueueInv, QueueBounded, NoLostWakeup
<1> QED
  BY <1>1, QueueStep, TypeCorrect, PTL DEF Spec

(* At most max_queue + 1 jobs wait: Enqueue refuses above max_queue and     *)
(* compares before it appends.                                              *)
THEOREM QueueStaysBounded == Spec => []QueueBounded
<1>1. QueueInv => QueueBounded
  BY DEF QueueInv
<1> QED
  BY <1>1, QueueInvariant, PTL

(* The limiter's thread never sleeps on a filled queue with no notification *)
(* under way.                                                               *)
THEOREM NoWakeupLost == Spec => []NoLostWakeup
<1>1. QueueInv => NoLostWakeup
  BY DEF QueueInv
<1> QED
  BY <1>1, QueueInvariant, PTL

-----------------------------------------------------------------------------
(* Why the rate holds.  A job is stamped with the time it is due, which is  *)
(* not before the previous one started nor before nextDue; it starts at or  *)
(* after its stamp; and once it has run, nextDue is an interval after its   *)
(* stamp, hence after the start of the job before it.                       *)
Last == Len(runs)

RateInv ==
    /\ \A i \in 1 .. Last : runs[i] <= clock
    /\ pc # "run" /\ Last >= 2 => nextDue >= runs[Last - 1] + Interval
    /\ pc \in {"sleep", "start"} => stamp >= nextDue /\ (Last >= 1 => stamp >= runs[Last])
    /\ pc = "sleep" => stamp = nextDue
    /\ pc = "start" => clock >= stamp
    /\ pc = "run" => stamp >= nextDue /\ (Last >= 2 => stamp >= runs[Last - 1])
    /\ AtMostTwoPerInterval

LEMMA RateStep ==
    ASSUME TypeOK, RateInv, [Next]_vars
    PROVE  RateInv'
<1> USE RateLimiterAssumption DEF TypeOK, RateInv, AtMostTwoPerInterval, Last, queueVars, timeVars, stopVars
<1>0. /\ Len(runs) \in Nat
      /\ \A i \in 1 .. Len(runs) : runs[i] \in Nat
      /\ clock \in Nat /\ stamp \in Nat /\ nextDue \in Nat /\ Interval \in Nat
  OBVIOUS
<1>1. CASE DueLater
  BY <1>1 DEF DueLater
<1>2. CASE DueNow
  BY <1>2 DEF DueNow
<1>3. CASE WakeUp
  BY <1>3 DEF WakeUp
<1>4. CASE Skip
  BY <1>4 DEF Skip
<1>5. CASE Start
  <2>1. /\ Len(runs') = Len(runs) + 1
        /\ \A i \in 1 .. Len(runs) : runs'[i] = runs[i]
        /\ runs'[Len(runs) + 1] = clock
    BY <1>0, <1>5 DEF Start
  <2>2. pc' = "run" /\ pc = "start" /\ UNCHANGED <<stamp, nextDue, clock>>
    BY <1>5 DEF Start
  <2>3. Len(runs) >= 2 => clock >= runs[Len(runs) - 1] + Interval
    BY <2>2
  <2>4. ASSUME NEW i \in 1 .. Len(runs'), i + 2 <= Len(runs')
        PROVE  runs'[i + 2] >= runs'[i] + Interval
    <3>1. CASE i + 2 = Len(runs')
      <4>1. i = Len(runs) - 1 /\ i \in 1 .. Len(runs) /\ i + 2 = Len(runs) + 1
        BY <1>0, <2>1, <3>1
      <4>2. runs'[i] = runs[i]
        BY <2>1, <4>1
      <4>3. runs'[i + 2] = clock
        BY <2>1, <4>1
      <4> QED
        BY <1>0, <2>3, <4>1, <4>2, <4>3
    <3>2. CASE i + 2 < Len(runs')
      <4>1. i \in 1 .. Len(runs) /\ i + 2 \in 1 .. Len(runs)
        BY <1>0, <2>1, <2>4, <3>2
      <4>2. runs'[i] = runs[i] /\ runs'[i + 2] = runs[i + 2]
        BY <2>1, <4>1
      <4>3. runs[i + 2] >= runs[i] + Interval
        BY <1>0, <4>1
      <4> QED
        BY <4>2, <4>3
    <3> QED
      BY <1>0, <2>1, <2>4, <3>1, <3>2
  <2>5. ASSUME NEW i \in 1 .. Len(runs') PROVE runs'[i] <= clock'
    <3>1. CASE i = Len(runs) + 1
      BY <1>0, <2>1, <2>2, <3>1
    <3>2. CASE i \in 1 .. Len(runs)
      <4>1. runs'[i] = runs[i] /\ runs[i] <= clock
        BY <2>1, <3>2
      <4> QED
        BY <2>2, <4>1
    <3> QED
      BY <1>0, <2>1, <3>1, <3>2
  <2>6. /\ stamp' >= nextDue'
        /\ Len(runs') >= 2 => stamp' >= runs'[Len(runs') - 1]
    BY <1>0, <2>1, <2>2
  <2> QED
    BY <2>2, <2>4, <2>5, <2>6
<1>6. CASE Finish
  <2>1. nextDue' = stamp + Interval /\ pc = "run" /\ pc' = "again" /\ UNCHANGED <<stamp, clock, runs>>
    BY <1>6 DEF Finish
  <2>2. Last >= 2 => runs[Last - 1] \in Nat
    OBVIOUS
  <2> QED
    BY <2>1, <2>2
<1>7. CASE Tick
  <2>1. clock' = clock + 1 /\ UNCHANGED <<pc, stamp, nextDue, runs>>
    BY <1>7 DEF Tick
  <2>2. \A i \in 1 .. Len(runs) : runs[i] <= clock'
    BY <1>0, <2>1
  <2> QED
    BY <1>0, <2>1, <2>2
<1>8. CASE /\ UNCHANGED timeVars
           /\ pc' = pc \/ {pc, pc'} \cap {"sleep", "start", "run"} = {}
  BY <1>8
<1>9. \/ DueLater \/ DueNow \/ WakeUp \/ Skip \/ Start \/ Finish \/ Tick
      \/ /\ UNCHANGED timeVars
         /\ pc' = pc \/ {pc, pc'} \cap {"sleep", "start", "run"} = {}
  BY DEF Next, Run, Enqueue, EnqueueRefused, Notify, FindNothing, Block, FindStop, Claim, Take, Again,
         WakeSpuriously, Stop, StopNotify, Join, vars
<1> QED
  BY <1>1, <1>2, <1>3, <1>4, <1>5, <1>6, <1>7, <1>8, <1>9

(* Of three jobs started one after the other, the first and the last are an *)
(* interval apart: the limiter never does worse than a burst of two.        *)
THEOREM RateHolds == Spec => []AtMostTwoPerInterval
<1>1. Init => RateInv
  BY RateLimiterAssumption DEF Init, RateInv, AtMostTwoPerInterval, Last
<1>2. RateInv => AtMostTwoPerInterval
  BY DEF RateInv
<1> QED
  BY <1>1, <1>2, RateStep, TypeCorrect, PTL DEF Spec

-----------------------------------------------------------------------------
(* The limiter implements JobQueue: its thread claims jobs in the order in  *)
(* which Enqueue accepted them, each once, one at a time, and none after    *)
(* the stop was requested.  Popping a claimed job is not a step of the      *)
(* abstract queue, so it may come after the stop.                           *)
Taking == IF pc = "take" THEN 1 ELSE 0
InHand == [t \in {"worker"} |-> IF pc = "take" THEN Head(queue) ELSE job]

THEOREM ImplementsJobQueue == Spec => FifoOnce
<1>1. Init => Queue!Init
  BY DEF Init, Queue!Init
<1>2. TypeOK /\ [Next]_vars => [Queue!Next]_<<started \o queue, Len(started) + Taking, InHand, stop>>
  <2> SUFFICES ASSUME TypeOK, [Next]_vars
               PROVE  [Queue!Next]_<<started \o queue, Len(started) + Taking, InHand, stop>>
    OBVIOUS
  <2>1. ASSUME NEW p \in Producers, NEW j \in Jobs, Enqueue(p, j) PROVE Queue!Accept(j)
    <3>0. /\ ~ \E i \in 1 .. Len(started) : started[i] = j
          /\ ~ \E i \in 1 .. Len(queue) : queue[i] = j
          /\ started \in Seq(Jobs) /\ queue \in Seq(Jobs)
      BY <2>1 DEF Enqueue, Offered, TypeOK
    <3>1. \A i \in 1 .. Len(started \o queue) : (started \o queue)[i] # j
      BY <3>0, NotInWhole
    <3>2. (started \o queue)' = Append(started \o queue, j)
      BY <2>1, EnqueueAtEnd DEF Enqueue, TypeOK
    <3>3. pc # "take" /\ UNCHANGED <<pc, job, started, stop>>
      BY <2>1 DEF Enqueue, LockFree, stopVars
    <3> QED
      BY <3>1, <3>2, <3>3 DEF Queue!Accept
  <2>2. ASSUME Claim PROVE Queue!Claim("worker")
    <3>1. /\ Len(started) < Len(started \o queue) /\ Len(started) \in Nat
          /\ (started \o queue)[Len(started) + 1] = Head(queue)
      BY <2>2, TakeFromFront DEF Claim, TypeOK
    <3>2. pc # "take" /\ pc' = "take" /\ job = None /\ ~stop /\ UNCHANGED <<queue, started, job, stop>>
      BY <2>2 DEF Claim, TypeOK, queueVars, stopVars
    <3> QED
      BY <3>1, <3>2 DEF Queue!Claim
  <2>3. ASSUME Take PROVE UNCHANGED <<started \o queue, Len(started) + Taking, InHand, stop>>
    <3>1. (started \o queue)' = started \o queue /\ Len(started)' = Len(started) + 1 /\ Len(started) \in Nat
      BY <2>3, TakeFromFront DEF Take, TypeOK
    <3>2. pc = "take" /\ pc' = "due" /\ job' = Head(queue) /\ stop' = stop
      BY <2>3 DEF Take, stopVars
    <3> QED
      BY <3>1, <3>2 DEF Taking, InHand
  <2>4. ASSUME Skip \/ Finish PROVE Queue!Return("worker")
    <3>1. pc \notin {"take"} /\ pc' = "again" /\ job # None /\ job' = None /\ UNCHANGED <<queue, started, stop>>
      BY <2>4 DEF Skip, Finish, TypeOK, queueVars, stopVars
    <3> QED
      BY <3>1 DEF Queue!Return
  <2>5. ASSUME Stop PROVE Queue!Stop
    BY <2>5 DEF Stop, Queue!Stop, queueVars
  <2>6. CASE UNCHANGED <<queue, started, job, stop>> /\ (pc' = pc \/ "take" \notin {pc, pc'})
    BY <2>6 DEF Taking, InHand
  <2>7. \/ \E p \in Producers, j \in Jobs : Enqueue(p, j)
        \/ Claim \/ Take \/ Skip \/ Finish \/ Stop
        \/ UNCHANGED <<queue, started, job, stop>> /\ (pc' = pc \/ "take" \notin {pc, pc'})
    BY DEF Next, Run, EnqueueRefused, Notify, FindNothing, Block, FindStop, DueLater, DueNow, WakeUp,
           Start, Again, WakeSpuriously, StopNotify, Join, Tick, vars, queueVars, stopVars
  <2> QED
    BY <2>1, <2>2, <2>3, <2>4, <2>5, <2>6, <2>7 DEF Queue!Next, Taking, InHand
<1> QED
  BY <1>1, <1>2, TypeCorrect, PTL DEF Spec, FifoOnce, Queue!Spec, Taking, InHand
=============================================================================
