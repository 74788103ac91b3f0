------------------------------ MODULE JobQueue ------------------------------
(***************************************************************************)
(* What a queue of jobs promises to those who put jobs into it, be it a    *)
(* casyncqueue with its pool of threads or the cratelimiter with its one:  *)
(* threads claim the jobs in the order in which these were accepted, each  *)
(* job once, a thread one at a time, and none is claimed once the queue    *)
(* was told to stop.  Nothing is said of when a claimed job starts: two    *)
(* threads may start theirs in either order, and a job claimed before the  *)
(* stop, at most one per thread, may start after it.                       *)
(***************************************************************************)
EXTENDS Naturals, Sequences

CONSTANTS Jobs, Threads, None

VARIABLES
    accepted,   \* jobs in the order in which the queue took them
    begun,      \* how many of them have been claimed
    hand,       \* thread -> the job it has claimed and not finished, or None
    stopped     \* the queue was told to stop

Init ==
    /\ accepted = << >>
    /\ begun = 0
    /\ hand = [t \in Threads |-> None]
    /\ stopped = FALSE

(* A stopped queue still takes jobs: Enqueue does not look at the flag.     *)
Accept(j) ==
    /\ \A i \in 1 .. Len(accepted) : accepted[i] # j
    /\ accepted' = Append(accepted, j)
    /\ UNCHANGED <<begun, hand, stopped>>

Claim(t) ==
    /\ ~stopped
    /\ hand[t] = None
    /\ begun < Len(accepted)
    /\ begun' = begun + 1
    /\ hand' = [hand EXCEPT ![t] = accepted[begun + 1]]
    /\ UNCHANGED <<accepted, stopped>>

(* The job has run, or was skipped.                                         *)
Return(t) ==
    /\ hand[t] # None
    /\ hand' = [hand EXCEPT ![t] = None]
    /\ UNCHANGED <<accepted, begun, stopped>>

Stop ==
    /\ stopped' = TRUE
    /\ UNCHANGED <<accepted, begun, hand>>

Next ==
    \/ \E j \in Jobs : Accept(j)
    \/ \E t \in Threads : Claim(t) \/ Return(t)
    \/ Stop

Spec == Init /\ [][Next]_<<accepted, begun, hand, stopped>>
=============================================================================
