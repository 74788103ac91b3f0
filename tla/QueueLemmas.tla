---------------------------- MODULE QueueLemmas -----------------------------
(* Facts about the two halves of a queue of jobs, the jobs that were taken  *)
(* and the ones that wait, used by the proofs that AsyncQueue and           *)
(* RateLimiter implement JobQueue; and facts about how often something      *)
(* occurs in a queue, used by the proofs about Smpp and Relay.              *)
EXTENDS Naturals, Sequences, SequenceTheorems, FunctionTheorems, FiniteSetTheorems, TLAPS

(* A job put at the end of those that wait is at the end of all.            *)
LEMMA EnqueueAtEnd ==
    ASSUME NEW S, NEW taken \in Seq(S), NEW waiting \in Seq(S), NEW j \in S
    PROVE  taken \o Append(waiting, j) = Append(taken \o waiting, j)
<1>1. taken \o Append(waiting, j) \in Seq(S) /\ Append(taken \o waiting, j) \in Seq(S)
  OBVIOUS
<1>2. Len(taken \o Append(waiting, j)) = Len(Append(taken \o waiting, j))
  OBVIOUS
<1>3. ASSUME NEW i \in 1 .. Len(taken \o Append(waiting, j))
      PROVE  (taken \o Append(waiting, j))[i] = Append(taken \o waiting, j)[i]
  OBVIOUS
<1> QED
  BY <1>1, <1>2, <1>3, SeqEqual

(* A job that a thread takes from the front goes from one half to the other *)
(* and leaves the whole as it is.                                           *)
LEMMA TakeFromFront ==
    ASSUME NEW S, NEW taken \in Seq(S), NEW waiting \in Seq(S), waiting # << >>
    PROVE  /\ Append(taken, Head(waiting)) \o Tail(waiting) = taken \o waiting
           /\ Len(Append(taken, Head(waiting))) = Len(taken) + 1
           /\ Len(taken) < Len(taken \o waiting)
           /\ (taken \o waiting)[Len(taken) + 1] = Head(waiting)
           /\ Head(waiting) \in S /\ Tail(waiting) \in Seq(S)
           /\ Append(taken, Head(waiting)) \in Seq(S)
           /\ Len(Tail(waiting)) = Len(waiting) - 1
<1>0. Len(waiting) > 0 /\ Head(waiting) \in S /\ Tail(waiting) \in Seq(S)
      /\ Len(Tail(waiting)) = Len(waiting) - 1
  OBVIOUS
<1> DEFINE after == Append(taken, Head(waiting)) \o Tail(waiting)
<1>1. after \in Seq(S) /\ taken \o waiting \in Seq(S)
  BY <1>0
<1>2. Len(after) = Len(taken \o waiting)
  BY <1>0
<1>3. ASSUME NEW i \in 1 .. Len(after)
      PROVE  after[i] = (taken \o waiting)[i]
  <2>1. CASE i <= Len(taken)
    BY <1>0, <2>1
  <2>2. CASE i = Len(taken) + 1
    BY <1>0, <2>2
  <2>3. CASE i > Len(taken) + 1
    BY <1>0, <2>3
  <2> QED
    BY <1>0, <1>2, <2>1, <2>2, <2>3
<1>4. after = taken \o waiting
  BY <1>1, <1>2, <1>3, SeqEqual
<1>5. (taken \o waiting)[Len(taken) + 1] = Head(waiting)
  BY <1>0
<1> QED
  BY <1>0, <1>4, <1>5

(* Whatever is in neither half is nowhere in the whole.                     *)
LEMMA NotInWhole ==
    ASSUME NEW S, NEW taken \in Seq(S), NEW waiting \in Seq(S), NEW j,
           ~ \E i \in 1 .. Len(taken) : taken[i] = j,
           ~ \E i \in 1 .. Len(waiting) : waiting[i] = j
    PROVE  \A i \in 1 .. Len(taken \o waiting) : (taken \o waiting)[i] # j
<1> SUFFICES ASSUME NEW i \in 1 .. Len(taken \o waiting)
             PROVE  (taken \o waiting)[i] # j
  OBVIOUS
<1>1. CASE i <= Len(taken)
  BY <1>1
<1>2. CASE i > Len(taken)
  <2>1. i - Len(taken) \in 1 .. Len(waiting)
    BY <1>2
  <2> QED
    BY <1>2, <2>1
<1> QED
  BY <1>1, <1>2

-----------------------------------------------------------------------------
(* How often j occurs in the queue q.                                       *)
At(q, j) == {i \in 1 .. Len(q) : q[i] = j}
CountOf(q, j) == Cardinality(At(q, j))

LEMMA CountIsNat ==
    ASSUME NEW S, NEW q \in Seq(S), NEW j
    PROVE  IsFiniteSet(At(q, j)) /\ CountOf(q, j) \in Nat
<1>1. IsFiniteSet(1 .. Len(q))
  BY FS_Interval
<1>2. At(q, j) \in SUBSET (1 .. Len(q))
  BY DEF At
<1>3. IsFiniteSet(At(q, j))
  BY <1>1, <1>2, FS_Subset
<1> QED
  BY <1>3, FS_CardinalityType DEF CountOf

LEMMA CountEmpty == \A j : CountOf(<< >>, j) = 0
<1>1. \A j : At(<< >>, j) = {}
  BY DEF At
<1> QED
  BY <1>1, FS_EmptySet DEF CountOf

(* What a queue counts is in it.                                            *)
LEMMA CountZero ==
    ASSUME NEW S, NEW q \in Seq(S), NEW j, \A i \in 1 .. Len(q) : q[i] # j
    PROVE  CountOf(q, j) = 0
<1>1. At(q, j) = {}
  BY DEF At
<1> QED
  BY <1>1, FS_EmptySet DEF CountOf

LEMMA CountAppend ==
    ASSUME NEW S, NEW q \in Seq(S), NEW x \in S, NEW j
    PROVE  CountOf(Append(q, x), j) = IF x = j THEN CountOf(q, j) + 1 ELSE CountOf(q, j)
<1>1. /\ Len(Append(q, x)) = Len(q) + 1 /\ Len(q) \in Nat
      /\ Append(q, x)[Len(q) + 1] = x
      /\ \A i \in 1 .. Len(q) : Append(q, x)[i] = q[i]
  OBVIOUS
<1>2. IsFiniteSet(At(q, j)) /\ Len(q) + 1 \notin At(q, j)
  <2>1. IsFiniteSet(At(q, j))
    BY CountIsNat
  <2>2. Len(q) + 1 \notin At(q, j)
    BY <1>1 DEF At
  <2> QED
    BY <2>1, <2>2
<1>3. CASE x = j
  <2>1. At(Append(q, x), j) = At(q, j) \cup {Len(q) + 1}
    BY <1>1, <1>3 DEF At
  <2> QED
    BY <1>2, <1>3, <2>1, FS_AddElement DEF CountOf
<1>4. CASE x # j
  <2>1. At(Append(q, x), j) = At(q, j)
    BY <1>1, <1>4 DEF At
  <2> QED
    BY <1>4, <2>1 DEF CountOf
<1> QED
  BY <1>3, <1>4

LEMMA CountTail ==
    ASSUME NEW S, NEW q \in Seq(S), q # << >>, NEW j
    PROVE  CountOf(Tail(q), j) = IF Head(q) = j THEN CountOf(q, j) - 1 ELSE CountOf(q, j)
<1>1. /\ Tail(q) \in Seq(S) /\ Len(Tail(q)) = Len(q) - 1 /\ Len(q) \in Nat /\ Len(q) > 0
      /\ Head(q) = q[1]
      /\ \A i \in 1 .. Len(Tail(q)) : Tail(q)[i] = q[i + 1]
  OBVIOUS
<1> DEFINE later == At(q, j) \ {1}
           shift == [i \in At(Tail(q), j) |-> i + 1]
<1>2. shift \in [At(Tail(q), j) -> later]
  <2>1. ASSUME NEW i \in At(Tail(q), j) PROVE i + 1 \in later
    BY <1>1 DEF At
  <2> HIDE DEF later
  <2> QED
    BY <2>1
<1>3. \A a, b \in At(Tail(q), j) : shift[a] = shift[b] => a = b
  BY DEF At
<1>4. ASSUME NEW k \in later PROVE \E i \in At(Tail(q), j) : shift[i] = k
  <2>1. k - 1 \in At(Tail(q), j) /\ shift[k - 1] = k
    BY <1>1 DEF At
  <2> QED
    BY <2>1
<1>5. ExistsBijection(At(Tail(q), j), later)
  <2>1. shift \in Bijection(At(Tail(q), j), later)
    BY <1>2, <1>3, <1>4, Fun_IsBij
  <2> QED
    BY <2>1, Zenon DEF ExistsBijection
<1>6. IsFiniteSet(At(Tail(q), j)) /\ IsFiniteSet(At(q, j)) /\ CountOf(q, j) \in Nat
  BY <1>1, CountIsNat
<1>7. CountOf(Tail(q), j) = Cardinality(later)
  BY <1>5, <1>6, FS_Bijection DEF CountOf
<1>8. 1 \in At(q, j) <=> Head(q) = j
  BY <1>1 DEF At
<1> QED
  BY <1>6, <1>7, <1>8, FS_RemoveElement DEF CountOf

(* A queue in which nothing occurs more often than k times is no longer     *)
(* than k times the number of things that can be in it.                     *)
LEMMA LengthBound ==
    ASSUME NEW S, IsFiniteSet(S), NEW q \in Seq(S), NEW k \in Nat,
           \A j \in S : CountOf(q, j) <= k
    PROVE  Len(q) <= Cardinality(S) * k
<1> DEFINE upto(u) == {v \in 1 .. u : q[v] = q[u]}
           rank(u) == Cardinality(upto(u))
           place == [u \in 1 .. Len(q) |-> <<q[u], rank(u)>>]
<1>1. ASSUME NEW u \in 1 .. Len(q)
      PROVE  /\ q[u] \in S /\ IsFiniteSet(upto(u)) /\ rank(u) \in 1 .. k /\ rank(u) \in Nat
  <2>1. q[u] \in S
    OBVIOUS
  <2>2. upto(u) \in SUBSET At(q, q[u]) /\ u \in upto(u)
    BY DEF At
  <2>3. IsFiniteSet(At(q, q[u]))
    BY CountIsNat
  <2>4. IsFiniteSet(upto(u)) /\ rank(u) <= CountOf(q, q[u])
    BY <2>2, <2>3, FS_Subset DEF CountOf
  <2>5. rank(u) \in Nat /\ CountOf(q, q[u]) \in Nat /\ CountOf(q, q[u]) <= k
    BY <2>1, <2>4, CountIsNat, FS_CardinalityType
  <2>6. rank(u) # 0
    BY <2>2, <2>4, FS_EmptySet
  <2> HIDE DEF upto, rank
  <2> QED
    BY <2>1, <2>4, <2>5, <2>6
<1>2. ASSUME NEW u \in 1 .. Len(q), NEW w \in 1 .. Len(q), u < w, q[u] = q[w]
      PROVE  rank(u) < rank(w)
  <2>1. upto(u) \in SUBSET (upto(w) \ {w}) /\ w \in upto(w)
    <3>1. /\ u \in Nat /\ w \in Nat /\ u < w /\ q[u] = q[w]
      BY <1>2
    <3>2. ASSUME NEW v \in upto(u) PROVE v \in upto(w) \ {w}
      BY <3>1
    <3>3. w \in upto(w)
      BY <3>1
    <3> HIDE DEF upto
    <3> QED
      BY <3>2, <3>3
  <2>2. IsFiniteSet(upto(u)) /\ IsFiniteSet(upto(w)) /\ rank(u) \in Nat /\ rank(w) \in Nat
    BY <1>1
  <2>3. IsFiniteSet(upto(w) \ {w}) /\ Cardinality(upto(w) \ {w}) = rank(w) - 1
    BY <2>1, <2>2, FS_RemoveElement
  <2>4. rank(u) <= Cardinality(upto(w) \ {w})
    BY <2>1, <2>3, FS_Subset
  <2> HIDE DEF upto, rank
  <2> QED
    BY <2>2, <2>3, <2>4
<1>3. ASSUME NEW a \in 1 .. Len(q), NEW b \in 1 .. Len(q), place[a] = place[b]
      PROVE  a = b
  <2>0. rank(a) \in Nat /\ rank(b) \in Nat
    BY <1>1
  <2> HIDE DEF rank
  <2>1. q[a] = q[b] /\ rank(a) = rank(b)
    BY <1>3
  <2>2. ~(a < b) /\ ~(b < a)
    BY <1>2, <2>0, <2>1
  <2> QED
    BY <2>2
<1>9. ASSUME NEW u \in 1 .. Len(q) PROVE <<q[u], rank(u)>> \in S \X (1 .. k)
  <2>1. q[u] \in S /\ rank(u) \in 1 .. k
    BY <1>1
  <2> HIDE DEF rank
  <2> QED
    BY <2>1
<1> HIDE DEF rank
<1>4. place \in [1 .. Len(q) -> S \X (1 .. k)]
  BY <1>9
<1>5. place \in Injection(1 .. Len(q), S \X (1 .. k))
  BY <1>3, <1>4, Fun_IsInj
<1>6. /\ IsFiniteSet(1 .. k) /\ Cardinality(1 .. k) = k
      /\ Cardinality(1 .. Len(q)) = Len(q)
  <2>1. \A n \in Nat : IsFiniteSet(1 .. n) /\ Cardinality(1 .. n) = n
    BY FS_Interval
  <2>2. Len(q) \in Nat
    OBVIOUS
  <2> QED
    BY <2>1, <2>2
<1>7. /\ IsFiniteSet(S \X (1 .. k)) /\ Cardinality(S \X (1 .. k)) = Cardinality(S) * k
  BY <1>6, FS_Product
<1> HIDE DEF place
<1> QED
  BY <1>5, <1>6, <1>7, FS_Injection
=============================================================================
