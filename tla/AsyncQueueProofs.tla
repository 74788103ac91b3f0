-------------------------- MODULE AsyncQueueProofs --------------------------
(* Proofs about AsyncQueue, for any finite pool, any producers and jobs.    *)
EXTENDS AsyncQueue, QueueLemmas, FiniteSetTheorems

-----------------------------------------------------------------------------
(* A thread has a job exactly while it runs one, in every reachable state.  *)
THEOREM TypeCorrect == Spec => []TypeOK
<1>1. Init => TypeOK
  BY AsyncQueueAssumption DEF Init, TypeOK, WorkerPCs
<1>2. TypeOK /\ [Next]_vars => TypeOK'
  <2> SUFFICES ASSUME TypeOK, [Next]_vars PROVE TypeOK'
    OBVIOUS
  <2> USE DEF TypeOK, WorkerPCs, Goto
  <2>1. ASSUME NEW p \in Producers, NEW j \in Jobs, Enqueue(p, j) PROVE TypeOK'
    BY <2>1 DEF Enqueue
  <2>2. ASSUME NEW p \in Producers, Notify(p) PROVE TypeOK'
    BY <2>2 DEF Notify, Asleep
  <2>3. ASSUME NEW w \in Workers, ThreadRunner(w) PROVE TypeOK'
    <3>1. CASE Top(w)
      BY <3>1 DEF Top
    <3>2. CASE FindNothing(w)
      BY <3>2 DEF FindNothing
    <3>3. CASE Block(w)
      BY <3>3 DEF Block
    <3>4. CASE FindStop(w)
      BY <3>4 DEF FindStop
    <3>5. CASE Take(w)
      <4>1. /\ Head(quJobs) \in Jobs /\ Head(quJobs) # None
            /\ Tail(quJobs) \in Seq(Jobs) /\ Append(started, Head(quJobs)) \in Seq(Jobs)
        BY <3>5, TakeFromFront, AsyncQueueAssumption DEF Take
      <4> QED
        BY <3>5, <4>1 DEF Take
    <3>6. CASE Run(w)
      BY <3>6 DEF Run
    <3>7. CASE Again(w)
      BY <3>7 DEF Again
    <3> QED
      BY <2>3, <3>1, <3>2, <3>3, <3>4, <3>5, <3>6, <3>7 DEF ThreadRunner
  <2>4. ASSUME NEW w \in Workers, WakeSpuriously(w) PROVE TypeOK'
    BY <2>4 DEF WakeSpuriously
  <2>5. CASE Stop
    BY <2>5 DEF Stop
  <2>6. CASE StopNotify
    BY <2>6 DEF StopNotify
  <2>7. CASE Join
    BY <2>7 DEF Join
  <2>8. CASE UNCHANGED vars
    BY <2>8 DEF vars
  <2> QED
    BY <2>1, <2>2, <2>3, <2>4, <2>5, <2>6, <2>7, <2>8 DEF Next
<1> QED
  BY <1>1, <1>2, PTL DEF Spec

-----------------------------------------------------------------------------
(* What makes WorkConserving inductive: a thread about to block holds       *)
(* quLock, so that nothing was put in the queue since it looked, and quYet  *)
(* is cleared by the destructor's first step.                               *)
BlocksOnEmpty == \A w \in Workers : pc[w] = "block" => quJobs = << >>
StopInv == quYet <=> dtor = "no"
IInv == TypeOK /\ BlocksOnEmpty /\ StopInv /\ WorkConserving

(* The two sets that WorkConserving counts are finite.                      *)
LEMMA Counted ==
    ASSUME TypeOK
    PROVE  /\ IsFiniteSet(Looking) /\ Cardinality(Looking) \in Nat
           /\ IsFiniteSet(Notifying) /\ Cardinality(Notifying) \in Nat
           /\ Len(quJobs) \in Nat
<1>1. Looking \in SUBSET Workers /\ Notifying \in SUBSET Producers
  BY DEF Looking, Notifying
<1>2. IsFiniteSet(Looking) /\ IsFiniteSet(Notifying)
  BY <1>1, FS_Subset, AsyncQueueAssumption
<1> QED
  BY <1>2, FS_CardinalityType DEF TypeOK

(* After a step at which the queue is empty there is nothing to count.      *)
LEMMA EmptyIsConserved ==
    ASSUME quJobs' = << >>
    PROVE  WorkConserving'
<1>1. Looking' \in SUBSET Workers /\ Notifying' \in SUBSET Producers
  BY DEF Looking, Notifying
<1>2. Cardinality(Looking') \in Nat /\ Cardinality(Notifying') \in Nat
  BY <1>1, FS_Subset, FS_CardinalityType, AsyncQueueAssumption
<1> QED
  BY <1>2 DEF WorkConserving

(* A step that leaves the queue, the flag and the notifications alone and   *)
(* moves one thread, which is then not asleep, keeps WorkConserving when    *)
(* that thread is looking at the queue afterwards or was not before.        *)
LEMMA ThreadMoves ==
    ASSUME TypeOK, WorkConserving, NEW w \in Workers, NEW l \in WorkerPCs \ {"wait"},
           pc' = [pc EXCEPT ![w] = l], UNCHANGED <<quJobs, quYet, prod>>,
           w \in Looking => l \in {"top", "look", "again"}
    PROVE  WorkConserving'
<1>1. Notifying' = Notifying /\ Asleep' \subseteq Asleep
  BY DEF Notifying, Asleep, TypeOK
<1>2. Looking' = Looking \/ Looking' = Looking \cup {w}
  BY DEF Looking, TypeOK
<1>3. Cardinality(Looking') >= Cardinality(Looking) /\ Cardinality(Looking') \in Nat
  <2>1. Cardinality(Looking \cup {w}) = IF w \in Looking THEN Cardinality(Looking) ELSE Cardinality(Looking) + 1
    BY Counted, FS_AddElement
  <2>2. Cardinality(Looking) \in Nat
    BY Counted
  <2>3. CASE Looking' = Looking
    BY <2>2, <2>3
  <2>4. CASE Looking' = Looking \cup {w}
    BY <2>1, <2>2, <2>4
  <2> QED
    BY <1>2, <2>3, <2>4
<1> QED
  BY <1>1, <1>3, Counted DEF WorkConserving

(* No wakeup is lost: see WorkConserving.                                   *)
THEOREM NoWakeupLost == Spec => []WorkConserving
<1>1. TypeOK /\ Init => IInv
  <2> SUFFICES ASSUME TypeOK, Init PROVE IInv
    OBVIOUS
  <2>1. Asleep = {}
    BY DEF Init, Asleep
  <2> QED
    BY <2>1 DEF Init, IInv, BlocksOnEmpty, StopInv, WorkConserving
<1>2. IInv /\ TypeOK' /\ [Next]_vars => IInv'
  <2> SUFFICES ASSUME IInv, TypeOK', [Next]_vars PROVE IInv'
    OBVIOUS
  <2>1. ASSUME NEW p \in Producers, NEW j \in Jobs, Enqueue(p, j) PROVE IInv'
    <3>1. BlocksOnEmpty' /\ StopInv'
      BY <2>1 DEF Enqueue, LockFree, IInv, BlocksOnEmpty, StopInv
    <3>2. /\ Looking' = Looking /\ Asleep' = Asleep
          /\ Notifying' = Notifying \cup {p} /\ p \notin Notifying
      BY <2>1 DEF Enqueue, Looking, Notifying, Asleep, IInv, TypeOK
    <3>3. Cardinality(Notifying') = Cardinality(Notifying) + 1
      BY <3>2, Counted, FS_AddElement DEF IInv
    <3>4. Len(quJobs') = Len(quJobs) + 1
      BY <2>1 DEF Enqueue, IInv, TypeOK
    <3>5. WorkConserving'
      BY <2>1, <3>2, <3>3, <3>4, Counted DEF Enqueue, IInv, WorkConserving
    <3> QED
      BY <3>1, <3>5 DEF IInv
  <2>2. ASSUME NEW p \in Producers, Notify(p) PROVE IInv'
    <3>1. BlocksOnEmpty' /\ StopInv'
      BY <2>2 DEF Notify, Goto, IInv, TypeOK, BlocksOnEmpty, StopInv
    <3>2. Notifying' = Notifying \ {p} /\ p \in Notifying
      BY <2>2 DEF Notify, Notifying, IInv, TypeOK
    <3>3. Cardinality(Notifying') = Cardinality(Notifying) - 1
      BY <3>2, Counted, FS_RemoveElement DEF IInv
    <3>4. ASSUME NEW w \in Asleep, Goto(w, "look") PROVE WorkConserving'
      <4>1. Looking' = Looking \cup {w} /\ w \notin Looking /\ Asleep' \subseteq Asleep
        BY <3>4 DEF Goto, Looking, Asleep, IInv, TypeOK
      <4>2. Cardinality(Looking') = Cardinality(Looking) + 1
        BY <4>1, Counted, FS_AddElement DEF IInv
      <4> QED
        BY <2>2, <3>3, <4>1, <4>2, Counted DEF Notify, IInv, WorkConserving
    <3>5. ASSUME Asleep = {}, UNCHANGED pc PROVE WorkConserving'
      <4>1. Asleep' = {}
        BY <3>5 DEF Asleep
      <4> QED
        BY <4>1 DEF WorkConserving
    <3> QED
      BY <2>2, <3>1, <3>4, <3>5 DEF Notify, IInv
  <2>3. ASSUME NEW w \in Workers, ThreadRunner(w) PROVE IInv'
    <3> USE DEF IInv, Goto, BlocksOnEmpty, StopInv
    <3>1. CASE Top(w)
      <4>1. CASE quYet
        BY <3>1, <4>1, ThreadMoves DEF Top, WorkerPCs, TypeOK
      <4>2. CASE ~quYet
        BY <3>1, <4>2 DEF Top, WorkConserving, TypeOK
      <4> QED
        BY <4>1, <4>2
    <3>2. CASE FindNothing(w)
      <4>1. WorkConserving'
        BY <3>2, EmptyIsConserved DEF FindNothing
      <4> QED
        BY <3>2, <4>1 DEF FindNothing, TypeOK
    <3>3. CASE Block(w)
      <4>1. WorkConserving'
        BY <3>3, EmptyIsConserved DEF Block
      <4> QED
        BY <3>3, <4>1 DEF Block, TypeOK
    <3>4. CASE FindStop(w)
      BY <3>4 DEF FindStop, WorkConserving, TypeOK
    <3>5. CASE Take(w)
      <4>1. Looking' = Looking \ {w} /\ w \in Looking /\ Asleep' = Asleep /\ Notifying' = Notifying
        BY <3>5 DEF Take, Looking, Asleep, Notifying, TypeOK
      <4>2. Cardinality(Looking') = Cardinality(Looking) - 1
        BY <4>1, Counted, FS_RemoveElement
      <4>3. Len(quJobs') = Len(quJobs) - 1
        BY <3>5, TakeFromFront DEF Take, TypeOK
      <4>4. WorkConserving'
        BY <3>5, <4>1, <4>2, <4>3, Counted DEF Take, WorkConserving
      <4> QED
        BY <3>5, <4>4 DEF Take, TypeOK, LockFree
    <3>6. CASE Run(w)
      BY <3>6, ThreadMoves DEF Run, WorkerPCs, TypeOK
    <3>7. CASE Again(w)
      BY <3>7, ThreadMoves DEF Again, WorkerPCs, TypeOK
    <3> QED
      BY <2>3, <3>1, <3>2, <3>3, <3>4, <3>5, <3>6, <3>7 DEF ThreadRunner
  <2>4. ASSUME NEW w \in Workers, WakeSpuriously(w) PROVE IInv'
    BY <2>4, ThreadMoves DEF WakeSpuriously, Goto, IInv, BlocksOnEmpty, StopInv, WorkerPCs, TypeOK
  <2>5. CASE Stop
    BY <2>5 DEF Stop, IInv, BlocksOnEmpty, StopInv, WorkConserving
  <2>6. CASE StopNotify
    BY <2>6 DEF StopNotify, IInv, BlocksOnEmpty, StopInv, WorkConserving, TypeOK
  <2>7. CASE Join
    BY <2>7 DEF Join, IInv, BlocksOnEmpty, StopInv, WorkConserving, Looking, Notifying, Asleep, TypeOK
  <2>8. CASE UNCHANGED vars
    BY <2>8 DEF vars, IInv, BlocksOnEmpty, StopInv, WorkConserving, Looking, Notifying, Asleep
  <2> QED
    BY <2>1, <2>2, <2>3, <2>4, <2>5, <2>6, <2>7, <2>8 DEF Next
<1>3. IInv => WorkConserving
  BY DEF IInv
<1> QED
  BY <1>1, <1>2, <1>3, TypeCorrect, PTL DEF Spec

-----------------------------------------------------------------------------
(* The pool implements JobQueue: threads take jobs in the order in which    *)
(* Enqueue put them there, each once, a thread one at a time, and none      *)
(* takes one after quYet is cleared.                                        *)
THEOREM ImplementsJobQueue == Spec => FifoOnce
<1>1. Init => Queue!Init
  BY DEF Init, Queue!Init
<1>2. TypeOK /\ [Next]_vars => [Queue!Next]_<<started \o quJobs, Len(started), job, ~quYet>>
  <2> SUFFICES ASSUME TypeOK, [Next]_vars
               PROVE  [Queue!Next]_<<started \o quJobs, Len(started), job, ~quYet>>
    OBVIOUS
  <2>1. ASSUME NEW p \in Producers, NEW j \in Jobs, Enqueue(p, j) PROVE Queue!Accept(j)
    <3>1. \A i \in 1 .. Len(started \o quJobs) : (started \o quJobs)[i] # j
      BY <2>1, NotInWhole DEF Enqueue, Seen, TypeOK
    <3>2. (started \o quJobs)' = Append(started \o quJobs, j)
      BY <2>1, EnqueueAtEnd DEF Enqueue, TypeOK
    <3> QED
      BY <2>1, <3>1, <3>2 DEF Enqueue, Queue!Accept
  <2>2. ASSUME NEW w \in Workers, Take(w) PROVE Queue!Claim(w)
    <3>1. /\ (started \o quJobs)' = started \o quJobs
          /\ Len(started)' = Len(started) + 1
          /\ Len(started) < Len(started \o quJobs)
          /\ (started \o quJobs)[Len(started) + 1] = Head(quJobs)
      BY <2>2, TakeFromFront DEF Take, TypeOK
    <3>2. job[w] = None /\ job' = [job EXCEPT ![w] = Head(quJobs)] /\ quYet /\ quYet' = quYet
      BY <2>2 DEF Take, TypeOK
    <3> QED
      BY <3>1, <3>2 DEF Queue!Claim
  <2>6. ASSUME NEW w \in Workers, Run(w) PROVE Queue!Return(w)
    BY <2>6 DEF Run, TypeOK, Queue!Return
  <2>3. ASSUME Stop PROVE Queue!Stop
    BY <2>3 DEF Stop, Queue!Stop
  <2>4. CASE UNCHANGED <<quJobs, started, job, quYet>>
    BY <2>4
  <2>5. \/ \E p \in Producers, j \in Jobs : Enqueue(p, j)
        \/ \E w \in Workers : Take(w) \/ Run(w)
        \/ Stop
        \/ UNCHANGED <<quJobs, started, job, quYet>>
    BY DEF Next, ThreadRunner, Top, FindNothing, Block, FindStop, Again, WakeSpuriously,
           Notify, StopNotify, Join, vars
  <2> QED
    BY <2>1, <2>2, <2>3, <2>4, <2>5, <2>6 DEF Queue!Next
<1> QED
  BY <1>1, <1>2, TypeCorrect, PTL DEF Spec, FifoOnce, Queue!Spec
=============================================================================
