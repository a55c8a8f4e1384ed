--------------------------- MODULE FeeWindowProofs ---------------------------
(***************************************************************************)
(* The circular buffer implements a sliding window for every capacity and   *)
(* every content of the buckets; and what a fee window reports is the       *)
(* distribution of the fees of the ledgers in it, whatever they hold.  The  *)
(* facts about lists in between are what sorting and filtering rest on.     *)
(***************************************************************************)
EXTENDS FeeWindow, SequenceTheorems, FiniteSetTheorems, FunctionTheorems, WellFoundedInduction,
        TLAPS

-----------------------------------------------------------------------------
(* The circular buffer.                                                     *)

(* The inductive invariant: the head has not moved before the buffer is     *)
(* full, and the buckets are consecutive from the head on.                  *)
RingInv ==
    /\ buckets \in Seq(Bucket)
    /\ Len(buckets) <= Capacity
    /\ start \in 0 .. Capacity - 1
    /\ Len(buckets) < Capacity => start = 0
    /\ RingContiguous

(* An index into the buffer wraps at most once.                             *)
LEMMA WrapOnce ==
    ASSUME NEW n \in Nat \ {0}, NEW a \in 0 .. n - 1, NEW b \in 0 .. n - 1
    PROVE  (a + b) % n = IF a + b < n THEN a + b ELSE a + b - n
OBVIOUS

(* Where Get finds a bucket.                                                *)
LEMMA GetFromIndex ==
    ASSUME NEW bs, NEW n \in Nat \ {0}, Len(bs) = n,
           NEW st \in 0 .. n - 1, NEW i \in 0 .. n - 1
    PROVE  GetFrom(bs, st, i) = bs[IF st + i < n THEN st + i + 1 ELSE st + i - n + 1]
<1>1. (st + i) % n = IF st + i < n THEN st + i ELSE st + i - n
  BY WrapOnce
<1>2. GetFrom(bs, st, i) = bs[((st + i) % n) + 1]
  BY DEF GetFrom
<1>3. CASE st + i < n
  BY <1>1, <1>2, <1>3
<1>4. CASE ~(st + i < n)
  BY <1>1, <1>2, <1>4
<1> QED
  BY <1>3, <1>4

(* A new bucket at the end of a buffer that is not full: every bucket stays *)
(* where it was.                                                            *)
LEMMA AppendNotFull ==
    ASSUME RingInv, NEW b \in Bucket, AppendBucket(b), Len(buckets) < Capacity
    PROVE  /\ buckets' \in Seq(Bucket) /\ Len(buckets') = Len(buckets) + 1
           /\ start' = start
           /\ \A i \in 1 .. Len(buckets) : Unrolled'[i] = Unrolled[i]
           /\ Unrolled'[Len(buckets) + 1] = b
<1> DEFINE n == Len(buckets)
<1>1. /\ buckets' = Append(buckets, b) /\ start' = start /\ start = 0
      /\ buckets \in Seq(Bucket) /\ n \in Nat
  BY DEF AppendBucket, RingInv
<1>2. /\ buckets' \in Seq(Bucket) /\ Len(buckets') = n + 1
      /\ \A i \in 1 .. n : buckets'[i] = buckets[i]
      /\ buckets'[n + 1] = b
  BY <1>1
<1>3. ASSUME NEW i \in 1 .. n + 1 PROVE Unrolled'[i] = buckets'[i]
  <2> DEFINE m == n + 1
             bs == buckets'
  <2>1. /\ m \in Nat \ {0} /\ Len(bs) = m
        /\ 0 \in 0 .. m - 1 /\ i - 1 \in 0 .. m - 1
        /\ 0 + (i - 1) < m /\ 0 + (i - 1) + 1 = i
    BY <1>1, <1>2
  <2> HIDE DEF m, bs
  <2>2. GetFrom(bs, 0, i - 1)
          = bs[IF 0 + (i - 1) < m THEN 0 + (i - 1) + 1 ELSE 0 + (i - 1) - m + 1]
    BY <2>1, GetFromIndex
  <2>3. GetFrom(bs, 0, i - 1) = bs[i]
    BY <2>1, <2>2
  <2> USE DEF bs
  <2> QED
    BY <1>1, <1>2, <2>3 DEF Unrolled, Get
<1>4. ASSUME NEW i \in 1 .. n PROVE Unrolled[i] = buckets[i]
  <2>1. GetFrom(buckets, 0, i - 1) = buckets[i]
    BY <1>1, GetFromIndex
  <2> QED
    BY <1>1, <2>1 DEF Unrolled, Get
<1>5. \A i \in 1 .. n : Unrolled'[i] = Unrolled[i]
  BY <1>1, <1>2, <1>3, <1>4
<1>6. Unrolled'[n + 1] = b
  BY <1>1, <1>2, <1>3
<1> QED
  BY <1>1, <1>2, <1>5, <1>6

(* A full buffer: the head is overwritten and becomes the tail, the others  *)
(* move up by one.                                                          *)
LEMMA AppendFull ==
    ASSUME RingInv, NEW b \in Bucket, AppendBucket(b), ~(Len(buckets) < Capacity)
    PROVE  /\ buckets' \in Seq(Bucket) /\ Len(buckets') = Len(buckets)
           /\ Len(buckets) = Capacity /\ start' \in 0 .. Capacity - 1
           /\ \A i \in 1 .. Len(buckets) - 1 : Unrolled'[i] = Unrolled[i + 1]
           /\ Unrolled'[Len(buckets)] = b
<1> DEFINE n == Len(buckets)
<1>1. /\ buckets' = [buckets EXCEPT ![start + 1] = b] /\ start' = (start + 1) % n
      /\ buckets \in Seq(Bucket) /\ n \in Nat \ {0} /\ n = Capacity /\ start \in 0 .. n - 1
  BY CapacityIsPositive DEF AppendBucket, RingInv
<1>2. /\ buckets' \in Seq(Bucket) /\ Len(buckets') = n
      /\ buckets'[start + 1] = b
      /\ \A i \in 1 .. n : i # start + 1 => buckets'[i] = buckets[i]
  BY <1>1
<1>3. start' = IF start + 1 < n THEN start + 1 ELSE 0
  <2>1. CASE n = 1
    BY <1>1, <2>1
  <2>2. CASE n # 1
    <3>1. 1 \in 0 .. n - 1
      BY <1>1, <2>2
    <3>2. (start + 1) % n = IF start + 1 < n THEN start + 1 ELSE start + 1 - n
      BY <1>1, <3>1, WrapOnce
    <3> QED
      BY <1>1, <3>2
  <2> QED
    BY <2>1, <2>2
<1>4. start' \in 0 .. n - 1
  BY <1>1, <1>3
<1>5. ASSUME NEW i \in 0 .. n - 1
      PROVE  /\ Unrolled[i + 1] = buckets[IF start + i < n THEN start + i + 1
                                          ELSE start + i - n + 1]
             /\ Unrolled'[i + 1] = buckets'[IF start' + i < n THEN start' + i + 1
                                            ELSE start' + i - n + 1]
  <2>1. /\ Unrolled[i + 1] = GetFrom(buckets, start, i)
        /\ Unrolled'[i + 1] = GetFrom(buckets', start', i)
    BY <1>1, <1>2 DEF Unrolled, Get
  <2>2. GetFrom(buckets, start, i) = buckets[IF start + i < n THEN start + i + 1
                                             ELSE start + i - n + 1]
    BY <1>1, GetFromIndex
  <2>3. GetFrom(buckets', start', i) = buckets'[IF start' + i < n THEN start' + i + 1
                                                ELSE start' + i - n + 1]
    BY <1>1, <1>2, <1>4, GetFromIndex
  <2> QED
    BY <2>1, <2>2, <2>3
<1>6. ASSUME NEW i \in 1 .. n - 1 PROVE Unrolled'[i] = Unrolled[i + 1]
  <2>1. i \in 0 .. n - 1 /\ i - 1 \in 0 .. n - 1
    BY <1>1
  <2> DEFINE old == IF start + i < n THEN start + i + 1 ELSE start + i - n + 1
             new == IF start' + (i - 1) < n THEN start' + (i - 1) + 1
                    ELSE start' + (i - 1) - n + 1
  <2>2. old = new /\ old \in 1 .. n /\ old # start + 1
    <3>1. CASE start + 1 < n
      <4>1. start' = start + 1
        BY <1>3, <3>1
      <4>2. CASE start + i < n
        BY <1>1, <4>1, <4>2
      <4>3. CASE ~(start + i < n)
        BY <1>1, <4>1, <4>3
      <4> QED
        BY <4>2, <4>3
    <3>2. CASE ~(start + 1 < n)
      <4>1. start' = 0 /\ start = n - 1
        BY <1>1, <1>3, <3>2
      <4> QED
        BY <1>1, <4>1
    <3> QED
      BY <3>1, <3>2
  <2>3. Unrolled[i + 1] = buckets[old] /\ Unrolled'[i] = buckets'[new]
    <3>1. Unrolled'[(i - 1) + 1] = buckets'[new]
      BY <1>5, <2>1
    <3>2. (i - 1) + 1 = i
      OBVIOUS
    <3>3. Unrolled[i + 1] = buckets[old]
      BY <1>5, <2>1
    <3> QED
      BY <3>1, <3>2, <3>3
  <2> HIDE DEF old, new
  <2> QED
    BY <1>2, <2>2, <2>3
<1>7. Unrolled'[n] = b
  <2> DEFINE new == IF start' + (n - 1) < n THEN start' + (n - 1) + 1
                    ELSE start' + (n - 1) - n + 1
  <2>1. new = start + 1
    BY <1>1, <1>3
  <2>2. n - 1 \in 0 .. n - 1 /\ (n - 1) + 1 = n
    BY <1>1
  <2>3. Unrolled'[(n - 1) + 1] = buckets'[new]
    BY <1>5, <2>2
  <2> HIDE DEF new
  <2> QED
    BY <1>2, <2>1, <2>2, <2>3
<1> QED
  BY <1>1, <1>2, <1>4, <1>6, <1>7

(* Contiguity, said of the window as it is read.                            *)
LEMMA UnrolledContiguous ==
    RingContiguous <=> \A i \in 1 .. Len(buckets) : Unrolled[i].seq = Unrolled[1].seq + (i - 1)
<1>1. \A i \in 1 .. Len(buckets) : Unrolled[i] = Get(i - 1)
  BY DEF Unrolled
<1>2. 1 \in 1 .. Len(buckets) => Unrolled[1] = Get(0)
  <2>1. 1 - 1 = 0
    OBVIOUS
  <2> QED
    BY <1>1, <2>1
<1> QED
  BY <1>1, <1>2 DEF RingContiguous

(* The invariant holds at the start.                                        *)
LEMMA RingInitInv == RingInit => RingInv
BY CapacityIsPositive DEF RingInit, RingInv, RingContiguous

(* The sequence number Append expects is the one after the last bucket.     *)
LEMMA ExpectedFollowsLast ==
    ASSUME RingInv, NEW b \in Bucket, Expected(b), buckets # <<>>
    PROVE  /\ Len(buckets) \in Nat \ {0}
           /\ Unrolled[1].seq \in Nat
           /\ b.seq = Unrolled[1].seq + Len(buckets)
           /\ b.seq = Unrolled[Len(buckets)].seq + 1
<1> DEFINE n == Len(buckets)
<1>1. n \in Nat \ {0} /\ start \in 0 .. n - 1 /\ buckets \in Seq(Bucket)
  <2>1. n \in Nat \ {0} /\ buckets \in Seq(Bucket)
    BY DEF RingInv
  <2>2. start \in 0 .. n - 1
    BY <2>1, CapacityIsPositive DEF RingInv
  <2> QED
    BY <2>1, <2>2
<1>2. Unrolled[1] = buckets[start + 1]
  <2>1. 0 \in 0 .. n - 1 /\ start + 0 < n /\ start + 0 + 1 = start + 1 /\ 1 - 1 = 0
    BY <1>1
  <2>2. GetFrom(buckets, start, 0)
          = buckets[IF start + 0 < n THEN start + 0 + 1 ELSE start + 0 - n + 1]
    BY <1>1, <2>1, GetFromIndex
  <2>3. Unrolled[1] = GetFrom(buckets, start, 0)
    BY <1>1, <2>1 DEF Unrolled, Get
  <2> QED
    BY <2>1, <2>2, <2>3
<1>3. Unrolled[1].seq \in Nat /\ b.seq \in Nat
  <2>1. buckets[start + 1] \in Bucket
    BY <1>1
  <2> QED
    BY <1>2, <2>1, LedgersAreNumbers DEF Bucket
<1>4. b.seq = Unrolled[1].seq + n
  BY <1>2 DEF Expected
<1>5. Unrolled[n].seq = Unrolled[1].seq + (n - 1)
  <2>1. n \in 1 .. n
    BY <1>1
  <2> QED
    BY <2>1, UnrolledContiguous DEF RingInv
<1> QED
  BY <1>1, <1>3, <1>4, <1>5

(* The window as it is read is a sequence of buckets.                       *)
LEMMA UnrolledIsSeq ==
    ASSUME NEW bs \in Seq(Bucket), NEW st \in Nat, Len(bs) > 0 => st \in 0 .. Len(bs) - 1
    PROVE  LET w == [i \in 1 .. Len(bs) |-> GetFrom(bs, st, i - 1)]
           IN  w \in Seq(Bucket) /\ Len(w) = Len(bs) /\ DOMAIN w = 1 .. Len(bs)
<1> DEFINE n == Len(bs)
           w == [i \in 1 .. n |-> GetFrom(bs, st, i - 1)]
<1>1. n \in Nat
  OBVIOUS
<1>2. ASSUME NEW i \in 1 .. n PROVE GetFrom(bs, st, i - 1) \in Bucket
  <2>1. n \in Nat \ {0} /\ st \in 0 .. n - 1 /\ i - 1 \in 0 .. n - 1
    BY <1>1
  <2> DEFINE k == IF st + (i - 1) < n THEN st + (i - 1) + 1 ELSE st + (i - 1) - n + 1
  <2>2. GetFrom(bs, st, i - 1) = bs[k]
    BY <2>1, GetFromIndex
  <2>3. k \in 1 .. n
    BY <2>1
  <2> HIDE DEF k
  <2> QED
    BY <2>2, <2>3
<1>3. w \in [1 .. n -> Bucket]
  BY <1>2
<1> QED
  BY <1>1, <1>3

(* Append, read through Get, pushes into a sliding window.                  *)
LEMMA AppendPushes ==
    ASSUME RingInv, NEW b \in Bucket, AppendBucket(b)
    PROVE  RingInv' /\ Window!Push(b)
<1> DEFINE n == Len(buckets)
           u == Unrolled
           v == Unrolled'
           kept == IF Len(u) < Capacity THEN u ELSE Tail(u)
<1>1. n \in Nat /\ n <= Capacity /\ Capacity \in Nat \ {0}
  BY CapacityIsPositive DEF RingInv
<1>2. b.seq \in Nat
  BY LedgersAreNumbers DEF Bucket
<1>3. u \in Seq(Bucket) /\ Len(u) = n
  <2>1. buckets \in Seq(Bucket) /\ start \in Nat /\ (n > 0 => start \in 0 .. n - 1)
    BY <1>1 DEF RingInv
  <2>2. u = [i \in 1 .. n |-> GetFrom(buckets, start, i - 1)]
    BY DEF Unrolled, Get
  <2> QED
    BY <2>1, <2>2, UnrolledIsSeq
<1>4. /\ buckets' \in Seq(Bucket) /\ Len(buckets') <= Capacity
      /\ start' \in 0 .. Capacity - 1 /\ (Len(buckets') < Capacity => start' = 0)
      /\ Len(buckets') = IF n < Capacity THEN n + 1 ELSE n
      /\ v = Append(kept, b)
  <2>1. CASE n < Capacity
    <3>1. /\ buckets' \in Seq(Bucket) /\ Len(buckets') = n + 1 /\ start' = start /\ start = 0
          /\ \A i \in 1 .. n : v[i] = u[i]
          /\ v[n + 1] = b
      BY <2>1, AppendNotFull DEF RingInv
    <3>2. v \in Seq(Bucket) /\ Len(v) = n + 1
      <4>1. v = [i \in 1 .. Len(buckets') |-> GetFrom(buckets', start', i - 1)]
        BY DEF Unrolled, Get
      <4> QED
        BY <1>1, <3>1, <4>1, UnrolledIsSeq
    <3>3. v = Append(u, b)
      <4> HIDE DEF u, v
      <4>1. /\ Append(u, b) \in Seq(Bucket) /\ Len(Append(u, b)) = n + 1
            /\ \A i \in 1 .. n + 1 : v[i] = Append(u, b)[i]
        BY <1>1, <1>3, <3>1, <3>2
      <4> QED
        BY <3>2, <4>1, SeqEqual
    <3> QED
      BY <1>1, <1>3, <2>1, <3>1, <3>3
  <2>2. CASE ~(n < Capacity)
    <3>1. /\ buckets' \in Seq(Bucket) /\ Len(buckets') = n /\ n = Capacity
          /\ start' \in 0 .. Capacity - 1
          /\ \A i \in 1 .. n - 1 : v[i] = u[i + 1]
          /\ v[n] = b
      BY <2>2, AppendFull
    <3>2. v \in Seq(Bucket) /\ Len(v) = n
      <4>1. v = [i \in 1 .. Len(buckets') |-> GetFrom(buckets', start', i - 1)]
        BY DEF Unrolled, Get
      <4> QED
        BY <1>1, <3>1, <4>1, UnrolledIsSeq
    <3>3. v = Append(Tail(u), b)
      <4> HIDE DEF u, v
      <4>1. /\ Tail(u) \in Seq(Bucket) /\ Len(Tail(u)) = n - 1
            /\ \A i \in 1 .. n - 1 : Tail(u)[i] = u[i + 1]
        BY <1>1, <1>3, <3>1
      <4> DEFINE t == Tail(u)
      <4> HIDE DEF t
      <4>2. /\ Append(t, b) \in Seq(Bucket) /\ Len(Append(t, b)) = n
            /\ \A i \in 1 .. n : v[i] = Append(t, b)[i]
        BY <1>1, <3>1, <3>2, <4>1 DEF t
      <4> QED
        BY <3>2, <4>2, SeqEqual DEF t
    <3> QED
      BY <1>1, <1>3, <2>2, <3>1, <3>3
  <2> QED
    BY <2>1, <2>2
<1>5. n > 0 => /\ u[1].seq \in Nat /\ b.seq = u[1].seq + n /\ b.seq = u[n].seq + 1
  BY <1>1, ExpectedFollowsLast DEF AppendBucket, RingInv
<1>6. \A i \in 1 .. n : u[i].seq = u[1].seq + (i - 1)
  BY UnrolledContiguous DEF RingInv
<1>7. \A i \in 1 .. Len(buckets') : v[i].seq = v[1].seq + (i - 1)
  <2> HIDE DEF u, v
  <2>1. CASE n < Capacity
    <3>1. v = Append(u, b) /\ Len(buckets') = n + 1
      BY <1>1, <1>3, <1>4, <2>1
    <3> QED
      BY <1>1, <1>2, <1>3, <1>5, <1>6, <3>1
  <2>2. CASE ~(n < Capacity)
    <3>1. /\ v = Append(Tail(u), b) /\ Len(buckets') = n /\ n > 0
          /\ Tail(u) \in Seq(Bucket) /\ Len(Tail(u)) = n - 1
          /\ \A i \in 1 .. n - 1 : Tail(u)[i] = u[i + 1]
      BY <1>1, <1>3, <1>4, <2>2
    <3>2. (\A i \in 1 .. n - 1 : v[i] = u[i + 1]) /\ v[n] = b
      BY <1>1, <3>1
    <3>3. \A i \in 1 .. n : v[i].seq = u[1].seq + i
      BY <1>1, <1>5, <1>6, <3>1, <3>2
    <3>4. n > 0 /\ Len(buckets') = n /\ u[1].seq \in Nat
      BY <1>5, <3>1
    <3>5. 1 \in 1 .. n
      BY <1>1, <3>4
    <3>6. v[1].seq = u[1].seq + 1
      BY <3>3, <3>5
    <3>7. ASSUME NEW i \in 1 .. n PROVE v[i].seq = v[1].seq + (i - 1)
      <4>1. v[i].seq = u[1].seq + i
        BY <3>3
      <4> QED
        BY <1>1, <3>4, <3>6, <4>1
    <3> QED
      BY <3>4, <3>7
  <2> QED
    BY <2>1, <2>2
<1>8. RingContiguous'
  <2>1. \A i \in 1 .. Len(buckets') : v[i] = GetFrom(buckets', start', i - 1)
    BY DEF Unrolled, Get
  <2>2. 1 \in 1 .. Len(buckets') => v[1] = GetFrom(buckets', start', 0)
    <3>1. 1 - 1 = 0
      OBVIOUS
    <3> QED
      BY <2>1, <3>1
  <2> HIDE DEF v
  <2> QED
    BY <1>7, <2>1, <2>2 DEF RingContiguous, Get
<1>9. u # <<>> => b.seq = u[Len(u)].seq + 1
  BY <1>1, <1>3, <1>5
<1> QED
  BY <1>4, <1>8, <1>9 DEF RingInv, Window!Push

(* A step of the ring keeps the invariant and is a step of the window.      *)
LEMMA RingNextInv ==
    ASSUME RingInv, [RingNext]_ringVars
    PROVE  RingInv' /\ [Window!WindowNext]_Unrolled
<1>1. CASE UNCHANGED ringVars
  BY <1>1 DEF ringVars, RingInv, RingContiguous, Unrolled, Get
<1>2. ASSUME NEW b \in Bucket, AppendBucket(b)
      PROVE  RingInv' /\ Window!WindowNext
  <2>1. RingInv' /\ Window!Push(b)
    BY <1>2, AppendPushes
  <2>2. Bucket = Window!Bucket
    BY DEF Bucket, Window!Bucket
  <2> QED
    BY <2>1, <2>2 DEF Window!WindowNext
<1>3. ASSUME NEW b \in Bucket, RefuseBucket(b)
      PROVE  UNCHANGED ringVars
  BY <1>3 DEF RefuseBucket
<1> QED
  BY <1>1, <1>2, <1>3 DEF RingNext

(* Get always shows consecutive ledgers, wherever the head is               *)
(* (LedgerBucketWindow.Append).                                             *)
THEOREM RingIsContiguous == RingSpec => []RingContiguous
<1>1. RingInv /\ [RingNext]_ringVars => RingInv'
  BY RingNextInv
<1>2. RingInv => RingContiguous
  BY DEF RingInv
<1> QED
  BY RingInitInv, <1>1, <1>2, PTL DEF RingSpec

(* The circular buffer implements the sliding window: no ledger of the      *)
(* window is lost, repeated or out of order, for every capacity             *)
(* (LedgerBucketWindow.Append, Get).                                        *)
THEOREM RingImplementsWindow == RingSpec => RingRefinesWindow
<1>1. RingInit => Window!WindowInit
  BY DEF RingInit, Window!WindowInit, Unrolled
<1>2. RingInv /\ [RingNext]_ringVars => RingInv' /\ [Window!WindowNext]_Unrolled
  BY RingNextInv
<1> QED
  BY RingInitInv, <1>1, <1>2, PTL DEF RingSpec, RingRefinesWindow, Window!WindowSpec

-----------------------------------------------------------------------------
(* Lists of finite sets in an order.                                        *)

(* A set of numbers that has 0 and with each number the next one has all.   *)
LEMMA AllNumbers ==
    ASSUME NEW S \in SUBSET Nat, 0 \in S, \A n \in S : n + 1 \in S PROVE S = Nat
<1> SUFFICES ASSUME Nat \ S # {} PROVE FALSE
  OBVIOUS
<1>1. PICK m \in Nat \ S : \A s \in Nat \ S : ~(<<s, m>> \in OpToRel(<, Nat))
  BY NatLessThanWellFounded, WFMin
<1>2. m \in Nat /\ m \notin S /\ m # 0
  OBVIOUS
<1>3. m - 1 \in Nat /\ m - 1 < m /\ (m - 1) + 1 = m
  BY <1>2
<1>4. m - 1 \in S
  BY <1>1, <1>3 DEF OpToRel
<1> QED
  BY <1>2, <1>3, <1>4

(* R is a strict total order on U.                                          *)
Orders(R, U) ==
    /\ \A x \in U : <<x, x>> \notin R
    /\ \A x, y, z \in U : <<x, y>> \in R /\ <<y, z>> \in R => <<x, z>> \in R
    /\ \A x, y \in U : x # y => <<x, y>> \in R \/ <<y, x>> \in R

(* A finite set has a last element.                                         *)
LEMMA LastElement ==
    ASSUME NEW U, NEW R, Orders(R, U), NEW S \in SUBSET U, IsFiniteSet(S), S # {}
    PROVE  \E m \in S : \A x \in S \ {m} : <<x, m>> \in R
<1> DEFINE HasLast(T) == \E m \in T : \A x \in T \ {m} : <<x, m>> \in R
           N == {n \in Nat : \A T \in SUBSET U : IsFiniteSet(T) /\ Cardinality(T) = n + 1 => HasLast(T)}
<1>1. 0 \in N
  <2> SUFFICES ASSUME NEW T \in SUBSET U, IsFiniteSet(T), Cardinality(T) = 1 PROVE HasLast(T)
    OBVIOUS
  <2>1. PICK x : T = {x}
    BY FS_Singleton
  <2> QED
    BY <2>1
<1>2. ASSUME NEW n \in N PROVE n + 1 \in N
  <2> SUFFICES ASSUME NEW T \in SUBSET U, IsFiniteSet(T), Cardinality(T) = n + 1 + 1
               PROVE  HasLast(T)
    OBVIOUS
  <2>1. T # {}
    BY FS_EmptySet
  <2>2. PICK x \in T : TRUE
    BY <2>1
  <2>3. T \ {x} \in SUBSET U /\ IsFiniteSet(T \ {x}) /\ Cardinality(T \ {x}) = n + 1
    BY FS_RemoveElement
  <2>4. PICK m \in T \ {x} : \A y \in (T \ {x}) \ {m} : <<y, m>> \in R
    BY <2>3
  <2>5. CASE <<x, m>> \in R
    BY <2>4, <2>5
  <2>6. CASE <<m, x>> \in R
    BY <2>4, <2>6 DEF Orders
  <2> QED
    BY <2>2, <2>4, <2>5, <2>6 DEF Orders
<1> HIDE DEF N
<1>3. N = Nat
  BY <1>1, <1>2, AllNumbers DEF N
<1>4. Cardinality(S) - 1 \in Nat /\ Cardinality(S) = (Cardinality(S) - 1) + 1
  BY FS_EmptySet, FS_CardinalityType
<1> QED
  BY <1>3, <1>4 DEF N

(* The elements of a finite set can be listed in order.                     *)
LEMMA Listing ==
    ASSUME NEW U, NEW R, Orders(R, U), NEW S \in SUBSET U, IsFiniteSet(S)
    PROVE  \E f \in Bijection(1 .. Cardinality(S), S) :
              \A i, j \in 1 .. Cardinality(S) : i < j => <<f[i], f[j]>> \in R
<1> DEFINE HasListing(n, T) == \E f \in Bijection(1 .. n, T) :
                              \A i, j \in 1 .. n : i < j => <<f[i], f[j]>> \in R
           N == {n \in Nat : \A T \in SUBSET U : IsFiniteSet(T) /\ Cardinality(T) = n => HasListing(n, T)}
<1>1. 0 \in N
  <2>1. [i \in {} |-> i] \in Bijection({}, {})
    BY DEF Bijection, Injection, Surjection, IsInjective
  <2>2. 1 .. 0 = {}
    OBVIOUS
  <2>3. HasListing(0, {})
    BY <2>1, <2>2
  <2> QED
    BY <2>3, FS_EmptySet
<1>2. ASSUME NEW n \in N PROVE n + 1 \in N
  <2> SUFFICES ASSUME NEW T \in SUBSET U, IsFiniteSet(T), Cardinality(T) = n + 1
               PROVE  HasListing(n + 1, T)
    OBVIOUS
  <2>1. T # {}
    BY FS_EmptySet
  <2>2. PICK m \in T : \A x \in T \ {m} : <<x, m>> \in R
    BY <2>1, LastElement
  <2>3. T \ {m} \in SUBSET U /\ IsFiniteSet(T \ {m}) /\ Cardinality(T \ {m}) = n
    BY FS_RemoveElement
  <2>4. PICK f \in Bijection(1 .. n, T \ {m}) : \A i, j \in 1 .. n : i < j => <<f[i], f[j]>> \in R
    BY <2>3
  <2>5. /\ f \in [1 .. n -> T \ {m}]
        /\ \A i, j \in 1 .. n : f[i] = f[j] => i = j
        /\ \A t \in T \ {m} : \E i \in 1 .. n : f[i] = t
    BY DEF Bijection, Injection, Surjection, IsInjective
  <2> DEFINE g == [i \in 1 .. n + 1 |-> IF i = n + 1 THEN m ELSE f[i]]
  <2>6. \A i \in 1 .. n + 1 : i # n + 1 => i \in 1 .. n
    OBVIOUS
  <2>7. 1 .. n \subseteq 1 .. n + 1 /\ n + 1 \in 1 .. n + 1 /\ n + 1 \notin 1 .. n
    OBVIOUS
  <2>8. g \in [1 .. n + 1 -> T]
    BY <2>5, <2>6
  <2>9. \A i, j \in 1 .. n + 1 : g[i] = g[j] => i = j
    BY <2>5, <2>6
  <2>10. \A t \in T : \E i \in 1 .. n + 1 : g[i] = t
    BY <2>5, <2>7
  <2>11. g \in Bijection(1 .. n + 1, T)
    BY <2>8, <2>9, <2>10 DEF Bijection, Injection, Surjection, IsInjective
  <2>12. ASSUME NEW i \in 1 .. n + 1, NEW j \in 1 .. n + 1, i < j PROVE <<g[i], g[j]>> \in R
    <3>1. i \in 1 .. n /\ g[i] = f[i]
      BY <2>12
    <3>2. CASE j = n + 1
      BY <2>2, <2>5, <3>1, <3>2
    <3>3. CASE j # n + 1
      BY <2>4, <2>6, <2>12, <3>1, <3>3
    <3> QED
      BY <3>2, <3>3
  <2> HIDE DEF g
  <2> QED
    BY <2>11, <2>12
<1> HIDE DEF N
<1>3. N = Nat
  BY <1>1, <1>2, AllNumbers DEF N
<1> QED
  BY <1>3, FS_CardinalityType DEF N

(* Counting through a bijection.                                            *)
LEMMA CountedThrough ==
    ASSUME NEW A, NEW B, IsFiniteSet(A), NEW q \in Bijection(A, B), NEW C \in SUBSET B
    PROVE  Cardinality({a \in A : q[a] \in C}) = Cardinality(C)
<1> DEFINE D == {a \in A : q[a] \in C}
           r == [a \in D |-> q[a]]
<1>1. r \in Bijection(D, C)
  BY DEF Bijection, Injection, Surjection, IsInjective
<1>2. IsFiniteSet(D)
  BY FS_Subset
<1> HIDE DEF D, r
<1>3. ExistsBijection(D, C)
  BY <1>1 DEF ExistsBijection
<1>4. Cardinality(C) = Cardinality(D)
  BY <1>2, <1>3, FS_Bijection
<1> QED
  BY <1>4 DEF D

(* Listed finds the one element that has its place.                         *)
LEMMA ListedFacts ==
    ASSUME NEW U, NEW R, Orders(R, U), NEW S \in SUBSET U, IsFiniteSet(S)
    PROVE  /\ Listed(S, R) \in Bijection(1 .. Cardinality(S), S)
           /\ \A i, j \in 1 .. Cardinality(S) : i < j => <<Listed(S, R)[i], Listed(S, R)[j]>> \in R
<1> DEFINE n == Cardinality(S)
           D == 1 .. n
           Before(x) == {y \in S : <<y, x>> \in R}
<1>1. PICK f \in Bijection(1 .. n, S) : \A i, j \in 1 .. n : i < j => <<f[i], f[j]>> \in R
  BY Listing
<1>2. n \in Nat
  BY FS_CardinalityType
<1>3. /\ f \in [D -> S]
      /\ \A i, j \in D : f[i] = f[j] => i = j
      /\ \A t \in S : \E i \in D : f[i] = t
  BY <1>1 DEF Bijection, Injection, Surjection, IsInjective
<1>4. \A i, j \in D : <<f[i], f[j]>> \in R <=> i < j
  <2> SUFFICES ASSUME NEW i \in D, NEW j \in D, <<f[i], f[j]>> \in R, ~(i < j) PROVE FALSE
    BY <1>1
  <2>1. i = j \/ j < i
    BY <1>2
  <2>2. f[i] \in U /\ f[j] \in U
    BY <1>3
  <2>3. i = j => FALSE
    BY <2>2 DEF Orders
  <2>4. j < i => <<f[j], f[i]>> \in R
    BY <1>1
  <2> QED
    BY <2>1, <2>2, <2>3, <2>4, Zenon DEF Orders
<1>5. ASSUME NEW k \in D PROVE Cardinality(Before(f[k])) = k - 1
  <2>1. Before(f[k]) \in SUBSET S
    OBVIOUS
  <2>2. {a \in D : f[a] \in Before(f[k])} = {a \in D : a < k}
    BY <1>3, <1>4
  <2>3. {a \in D : a < k} = 1 .. k - 1
    BY <1>2
  <2>4. Cardinality(1 .. k - 1) = k - 1
    BY <1>2, FS_Interval
  <2>5. IsFiniteSet(D)
    BY <1>2, FS_Interval
  <2> DEFINE B == Before(f[k])
  <2>6. f \in Bijection(D, S) /\ B \in SUBSET S
    BY <1>1, <2>1
  <2> HIDE DEF B, D
  <2>7. Cardinality({a \in D : f[a] \in B}) = Cardinality(B)
    BY <2>5, <2>6, CountedThrough
  <2> QED
    BY <2>2, <2>3, <2>4, <2>7 DEF B
<1>6. ASSUME NEW k \in D PROVE Listed(S, R)[k] = f[k]
  <2>1. Listed(S, R)[k] = CHOOSE x \in S : Cardinality(Before(x)) = k - 1
    BY DEF Listed
  <2>2. f[k] \in S /\ Cardinality(Before(f[k])) = k - 1
    BY <1>3, <1>5
  <2> HIDE DEF Before
  <2>3. ASSUME NEW x \in S, Cardinality(Before(x)) = k - 1 PROVE x = f[k]
    <3>1. PICK m \in D : f[m] = x
      BY <1>3
    <3>2. m - 1 = k - 1
      BY <1>5, <2>3, <3>1
    <3> QED
      BY <1>2, <3>1, <3>2
  <2> QED
    BY <2>1, <2>2, <2>3
<1>7. Listed(S, R) = f
  <2>1. Listed(S, R) = [k \in D |-> Listed(S, R)[k]]
    <3> DEFINE c(k) == CHOOSE x \in S : Cardinality(Before(x)) = k - 1
    <3>1. Listed(S, R) = [k \in D |-> c(k)]
      BY DEF Listed
    <3> HIDE DEF c
    <3> QED
      BY <3>1
  <2>2. f = [k \in D |-> f[k]]
    BY <1>3
  <2> QED
    BY <1>6, <2>1, <2>2, Zenon
<1> QED
  BY <1>1, <1>7

(* Numbers in their order, and numbers that are given a weight.             *)
LEMMA AscendingFacts ==
    ASSUME NEW S \in SUBSET Nat, IsFiniteSet(S)
    PROVE  /\ Ascending(S) \in Bijection(1 .. Cardinality(S), S)
           /\ \A i, j \in 1 .. Cardinality(S) : i < j => Ascending(S)[i] < Ascending(S)[j]
<1> DEFINE R == Less(S)
<1>1. Orders(R, S)
  BY DEF Orders, Less
<1>2. \A x, y : <<x, y>> \in R => x < y
  BY DEF Less
<1>3. Ascending(S) = Listed(S, R)
  BY DEF Ascending
<1> HIDE DEF R
<1>4. /\ Listed(S, R) \in Bijection(1 .. Cardinality(S), S)
      /\ \A i, j \in 1 .. Cardinality(S) : i < j => <<Listed(S, R)[i], Listed(S, R)[j]>> \in R
  BY <1>1, ListedFacts
<1> QED
  BY <1>2, <1>3, <1>4, Zenon

LEMMA Sorting ==
    ASSUME NEW n \in Nat, NEW w \in [1 .. n -> Nat]
    PROVE  \E p \in Bijection(1 .. n, 1 .. n) : \A i, j \in 1 .. n : i < j => w[p[i]] <= w[p[j]]
<1> DEFINE D == 1 .. n
           Before(x, y) == w[x] < w[y] \/ (w[x] = w[y] /\ x < y)
           R == {q \in D \X D : Before(q[1], q[2])}
<1>1. \A x, y \in D : <<x, y>> \in R <=> Before(x, y)
  OBVIOUS
<1>2. /\ \A x \in D : ~Before(x, x)
      /\ \A x, y, z \in D : Before(x, y) /\ Before(y, z) => Before(x, z)
      /\ \A x, y \in D : x # y => Before(x, y) \/ Before(y, x)
      /\ \A x, y \in D : Before(x, y) => w[x] <= w[y]
  OBVIOUS
<1>3. IsFiniteSet(D) /\ Cardinality(D) = n
  BY FS_Interval
<1> HIDE DEF R, D, Before
<1>4. Orders(R, D)
  BY <1>1, <1>2, Zenon DEF Orders
<1>5. PICK p \in Bijection(1 .. Cardinality(D), D) :
          \A i, j \in 1 .. Cardinality(D) : i < j => <<p[i], p[j]>> \in R
  BY <1>3, <1>4, Listing
<1>6. p \in Bijection(D, D) /\ \A i, j \in D : i < j => <<p[i], p[j]>> \in R
  BY <1>3, <1>5 DEF D
<1>7. \A i \in D : p[i] \in D
  BY <1>6 DEF Bijection, Injection
<1>8. \A i, j \in D : i < j => w[p[i]] <= w[p[j]]
  BY <1>1, <1>2, <1>6, <1>7, Zenon
<1> QED
  BY <1>6, <1>8 DEF D

LEMMA LargestNumber ==
    ASSUME NEW S \in SUBSET Nat, IsFiniteSet(S), S # {}
    PROVE  \E m \in S : \A x \in S : x <= m
<1> DEFINE n == Cardinality(S)
           f == Ascending(S)
<1>1. n \in Nat /\ n # 0
  BY FS_CardinalityType, FS_EmptySet
<1>2. n \in 1 .. n /\ \A i \in 1 .. n : i # n => i < n
  BY <1>1
<1>3. f \in Bijection(1 .. n, S) /\ \A i, j \in 1 .. n : i < j => f[i] < f[j]
  BY AscendingFacts
<1> HIDE DEF n, f
<1>4. f[n] \in S /\ \A x \in S : \E i \in 1 .. n : f[i] = x
  BY <1>2, <1>3 DEF Bijection, Injection, Surjection
<1>5. \A x \in S : x = f[n] \/ x < f[n]
  BY <1>2, <1>3, <1>4, Zenon
<1>6. PICK m \in S : \A x \in S : x = m \/ x < m
  BY <1>4, <1>5, Zenon
<1>7. \A x \in S : x <= m
  BY <1>6
<1> QED
  BY <1>7

(* Sorted moves numbers to places that are in the order of the numbers.     *)
LEMMA SortedFacts ==
    ASSUME NEW n \in Nat, NEW s \in [1 .. n -> Nat]
    PROVE  \E p \in Bijection(1 .. n, 1 .. n) :
              /\ Sorted(s) = [k \in 1 .. n |-> s[p[k]]]
              /\ \A i, j \in 1 .. n : i < j => s[p[i]] <= s[p[j]]
<1> DEFINE D == 1 .. n
           Before(x, y) == s[x] < s[y] \/ (s[x] = s[y] /\ x < y)
           R == {q \in D \X D : Before(q[1], q[2])}
           p == Listed(D, R)
<1>1. \A x, y \in D : <<x, y>> \in R <=> Before(x, y)
  OBVIOUS
<1>2. /\ \A x \in D : ~Before(x, x)
      /\ \A x, y, z \in D : Before(x, y) /\ Before(y, z) => Before(x, z)
      /\ \A x, y \in D : x # y => Before(x, y) \/ Before(y, x)
      /\ \A x, y \in D : Before(x, y) => s[x] <= s[y]
  OBVIOUS
<1>3. IsFiniteSet(D) /\ Cardinality(D) = n
  BY FS_Interval
<1>4. Sorted(s) = [k \in D |-> s[p[k]]]
  <2>1. DOMAIN s = D
    OBVIOUS
  <2> QED
    BY <2>1 DEF Sorted
<1> HIDE DEF R, D, Before
<1>5. Orders(R, D)
  BY <1>1, <1>2, Zenon DEF Orders
<1>6. /\ p \in Bijection(1 .. Cardinality(D), D)
      /\ \A i, j \in 1 .. Cardinality(D) : i < j => <<p[i], p[j]>> \in R
  BY <1>3, <1>5, ListedFacts
<1> HIDE DEF p
<1>7. p \in Bijection(D, D) /\ \A i, j \in D : i < j => <<p[i], p[j]>> \in R
  BY <1>3, <1>6 DEF D
<1>8. \A i \in D : p[i] \in D
  BY <1>7 DEF Bijection, Injection
<1>9. \A i, j \in D : i < j => s[p[i]] <= s[p[j]]
  BY <1>1, <1>2, <1>7, <1>8, Zenon
<1> QED
  BY <1>4, <1>7, <1>9 DEF D

(* The loop that appends lists to each other.                               *)
LEMMA AppendingLoop ==
    ASSUME NEW V, NEW lists \in Seq(Seq(V))
    PROVE  LET u == AppendedUpTo(lists)
           IN  /\ u[0] = <<>>
               /\ \A i \in 1 .. Len(lists) : u[i] = u[i - 1] \o lists[i]
<1> DEFINE n == Len(lists)
           Runs(k) == \E g : g = [i \in 0 .. k |-> IF i = 0 THEN <<>> ELSE g[i - 1] \o lists[i]]
           N == {k \in Nat : Runs(k)}
           u == AppendedUpTo(lists)
<1>1. 0 \in N
  <2> DEFINE g == [i \in 0 .. 0 |-> <<>>]
  <2>1. g = [i \in 0 .. 0 |-> IF i = 0 THEN <<>> ELSE g[i - 1] \o lists[i]]
    OBVIOUS
  <2> QED
    BY <2>1
<1>2. ASSUME NEW k \in N PROVE k + 1 \in N
  <2>1. PICK g : g = [i \in 0 .. k |-> IF i = 0 THEN <<>> ELSE g[i - 1] \o lists[i]]
    OBVIOUS
  <2> DEFINE h == [i \in 0 .. k + 1 |-> IF i = k + 1 THEN g[k] \o lists[k + 1] ELSE g[i]]
  <2>2. ASSUME NEW i \in 0 .. k + 1
        PROVE  h[i] = IF i = 0 THEN <<>> ELSE h[i - 1] \o lists[i]
    <3>1. CASE i = k + 1
      <4>1. i # 0 /\ i - 1 = k /\ k \in 0 .. k + 1 /\ k # k + 1
        BY <3>1
      <4> QED
        BY <3>1, <4>1
    <3>2. CASE i # k + 1
      <4>1. i \in 0 .. k /\ (i # 0 => i - 1 \in 0 .. k + 1 /\ i - 1 # k + 1)
        BY <3>2
      <4> QED
        BY <2>1, <3>2, <4>1
    <3> QED
      BY <3>1, <3>2
  <2>3. h = [i \in 0 .. k + 1 |-> IF i = 0 THEN <<>> ELSE h[i - 1] \o lists[i]]
    BY <2>2
  <2> HIDE DEF h
  <2>4. Runs(k + 1)
    BY <2>3
  <2>5. k \in Nat
    OBVIOUS
  <2> HIDE DEF Runs
  <2> QED
    BY <2>4, <2>5
<1>n. N \in SUBSET Nat
  OBVIOUS
<1> HIDE DEF N
<1>3. n \in N
  <2>1. n \in Nat
    OBVIOUS
  <2> HIDE DEF n
  <2> QED
    BY <1>1, <1>2, <1>n, <2>1, AllNumbers
<1>4. u = [i \in 0 .. n |-> IF i = 0 THEN <<>> ELSE u[i - 1] \o lists[i]]
  BY <1>3 DEF AppendedUpTo, N
<1> HIDE DEF u
<1> QED
  BY <1>4 DEF u

(* A list of n shows something of each element of a set, once.              *)
Shows(s, n, Q, show) == \E q \in Bijection(1 .. n, Q) : \A a \in 1 .. n : s[a] = show[q[a]]

(* If each list shows something of each element of a set of its own, then   *)
(* all of them together do so of the union of the sets.                     *)
LEMMA AppendedFacts ==
    ASSUME NEW V, NEW lists \in Seq(Seq(V)), NEW U, NEW show,
           NEW P \in [1 .. Len(lists) -> SUBSET U],
           \A i, j \in 1 .. Len(lists) : i # j => P[i] \cap P[j] = {},
           \A i \in 1 .. Len(lists) : Shows(lists[i], Len(lists[i]), P[i], show)
    PROVE  /\ Appended(lists) \in Seq(V)
           /\ Shows(Appended(lists), Len(Appended(lists)), UNION {P[i] : i \in 1 .. Len(lists)}, show)
<1> DEFINE n == Len(lists)
           u == AppendedUpTo(lists)
           All(k) == UNION {P[i] : i \in 1 .. k}
           Lists(s, Q) == \E q \in Bijection(1 .. Len(s), Q) : \A a \in 1 .. Len(s) : s[a] = show[q[a]]
           N == {k \in Nat : k <= n => u[k] \in Seq(V) /\ Lists(u[k], All(k))}
<1>l. \A i \in 1 .. n : Lists(lists[i], P[i])
  BY DEF Shows
<1>1. n \in Nat /\ u[0] = <<>> /\ \A i \in 1 .. n : u[i] = u[i - 1] \o lists[i]
  <2>1. n \in Nat
    OBVIOUS
  <2> QED
    BY <2>1, AppendingLoop
<1>2. 0 \in N
  <2>1. [i \in {} |-> i] \in Bijection({}, {})
    BY DEF Bijection, Injection, Surjection, IsInjective
  <2>2. 1 .. 0 = {} /\ All(0) = {} /\ Len(<<>>) = 0 /\ <<>> \in Seq(V)
    OBVIOUS
  <2>3. Lists(<<>>, {})
    BY <2>1, <2>2
  <2> HIDE DEF u, All, Lists
  <2> QED
    BY <1>1, <2>2, <2>3
<1>3. ASSUME NEW k \in N PROVE k + 1 \in N
  <2>k. k \in Nat /\ (k <= n => u[k] \in Seq(V) /\ Lists(u[k], All(k)))
    OBVIOUS
  <2> SUFFICES ASSUME k + 1 <= n PROVE u[k + 1] \in Seq(V) /\ Lists(u[k + 1], All(k + 1))
    <3> HIDE DEF u, Lists, All
    <3> QED
      BY <2>k
  <2> DEFINE s == u[k]
             t == lists[k + 1]
             Q == All(k)
             T == P[k + 1]
  <2>1. /\ k \in Nat /\ k + 1 \in 1 .. n /\ s \in Seq(V) /\ t \in Seq(V) /\ Lists(s, Q) /\ Lists(t, T)
        /\ u[k + 1] = s \o t
    <3>1. k \in Nat /\ k <= n /\ k + 1 \in 1 .. n /\ (k + 1) - 1 = k
      BY <1>1, <2>k
    <3>2. s \in Seq(V) /\ Lists(s, Q)
      BY <2>k, <3>1
    <3>3. t \in Seq(V)
      BY <3>1
    <3>4. u[k + 1] = s \o t
      <4> HIDE DEF u
      <4> QED
        BY <1>1, <3>1
    <3>5. Lists(t, T)
      <4> HIDE DEF Lists
      <4> QED
        BY <1>l, <3>1
    <3> HIDE DEF s, t, Q, T, Lists, u
    <3> QED
      BY <3>1, <3>2, <3>3, <3>4, <3>5
  <2>2. All(k + 1) = Q \union T
    <3>1. \A i : i \in 1 .. k + 1 <=> i \in 1 .. k \/ i = k + 1
      BY <2>1
    <3> QED
      BY <3>1
  <2>3. Q \cap T = {}
    <3>1. \A i \in 1 .. k : i \in 1 .. n /\ i # k + 1
      BY <1>1, <2>1
    <3> QED
      BY <2>1, <3>1
  <2>4. PICK f \in Bijection(1 .. Len(s), Q) : \A a \in 1 .. Len(s) : s[a] = show[f[a]]
    BY <2>1
  <2>5. PICK g \in Bijection(1 .. Len(t), T) : \A a \in 1 .. Len(t) : t[a] = show[g[a]]
    BY <2>1
  <2> HIDE DEF s, t, Q, T, u, All
  <2> DEFINE l == Len(s)
             m == Len(t)
             h == [a \in 1 .. l + m |-> IF a <= l THEN f[a] ELSE g[a - l]]
  <2>6. l \in Nat /\ m \in Nat /\ s \o t \in Seq(V) /\ Len(s \o t) = l + m
          /\ \A a \in 1 .. l + m : (s \o t)[a] = IF a <= l THEN s[a] ELSE t[a - l]
    BY <2>1
  <2> HIDE DEF l, m
  <2>7. /\ \A a \in 1 .. l + m : (a <= l => a \in 1 .. l) /\ (~(a <= l) => a - l \in 1 .. m)
        /\ \A a \in 1 .. l : a \in 1 .. l + m /\ a <= l
        /\ \A a \in 1 .. m : a + l \in 1 .. l + m /\ ~(a + l <= l) /\ (a + l) - l = a
    BY <2>6
  <2>8. /\ f \in [1 .. l -> Q] /\ g \in [1 .. m -> T]
        /\ \A a, b \in 1 .. l : f[a] = f[b] => a = b
        /\ \A a, b \in 1 .. m : g[a] = g[b] => a = b
        /\ \A x \in Q : \E a \in 1 .. l : f[a] = x
        /\ \A x \in T : \E a \in 1 .. m : g[a] = x
    BY <2>4, <2>5 DEF Bijection, Injection, Surjection, IsInjective, l, m
  <2>9. \A a \in 1 .. l + m : h[a] = IF a <= l THEN f[a] ELSE g[a - l]
    OBVIOUS
  <2>10. h \in [1 .. l + m -> Q \union T]
    BY <2>7, <2>8
  <2> HIDE DEF h
  <2>11. ASSUME NEW a \in 1 .. l + m, NEW b \in 1 .. l + m, h[a] = h[b] PROVE a = b
    <3>1. CASE a <= l /\ b <= l
      BY <2>7, <2>8, <2>9, <2>11, <3>1
    <3>2. CASE ~(a <= l) /\ ~(b <= l)
      <4>1. a - l = b - l
        BY <2>7, <2>8, <2>9, <2>11, <3>2
      <4> QED
        BY <2>6, <4>1
    <3>3. CASE a <= l /\ ~(b <= l)
      <4>1. h[a] = f[a] /\ f[a] \in Q /\ h[b] = g[b - l] /\ g[b - l] \in T
        BY <2>7, <2>8, <2>9, <3>3
      <4> QED
        BY <2>3, <2>11, <4>1, Zenon
    <3>4. CASE ~(a <= l) /\ b <= l
      <4>1. h[b] = f[b] /\ f[b] \in Q /\ h[a] = g[a - l] /\ g[a - l] \in T
        BY <2>7, <2>8, <2>9, <3>4
      <4> QED
        BY <2>3, <2>11, <4>1, Zenon
    <3> QED
      BY <3>1, <3>2, <3>3, <3>4
  <2>12. \A x \in Q \union T : \E a \in 1 .. l + m : h[a] = x
    <3>1. \A x \in Q : \E a \in 1 .. l + m : h[a] = x
      BY <2>7, <2>8, <2>9
    <3>2. ASSUME NEW x \in T PROVE \E a \in 1 .. l + m : h[a] = x
      <4>1. PICK a \in 1 .. m : g[a] = x
        BY <2>8
      <4>2. h[a + l] = x
        BY <2>7, <2>9, <4>1
      <4> QED
        BY <2>7, <4>2
    <3> QED
      BY <3>1, <3>2
  <2>13. h \in Bijection(1 .. l + m, Q \union T)
    BY <2>10, <2>11, <2>12 DEF Bijection, Injection, Surjection, IsInjective
  <2>14. \A a \in 1 .. l + m : (s \o t)[a] = show[h[a]]
    <3>1. \A a \in 1 .. l : s[a] = show[f[a]]
      BY <2>4 DEF l
    <3>2. \A a \in 1 .. m : t[a] = show[g[a]]
      BY <2>5 DEF m
    <3> SUFFICES ASSUME NEW a \in 1 .. l + m PROVE (s \o t)[a] = show[h[a]]
      OBVIOUS
    <3>3. CASE a <= l
      <4>1. (s \o t)[a] = s[a] /\ h[a] = f[a] /\ a \in 1 .. l
        BY <2>6, <2>7, <2>9, <3>3
      <4> QED
        BY <3>1, <4>1
    <3>4. CASE ~(a <= l)
      <4>1. (s \o t)[a] = t[a - l] /\ h[a] = g[a - l] /\ a - l \in 1 .. m
        BY <2>6, <2>7, <2>9, <3>4
      <4> QED
        BY <3>2, <4>1
    <3> QED
      BY <3>3, <3>4
  <2> DEFINE r == s \o t
  <2>15. r \in Seq(V) /\ Len(r) = l + m
    BY <2>6
  <2> HIDE DEF r
  <2>16. Lists(r, Q \union T)
    BY <2>13, <2>14, <2>15 DEF r
  <2> HIDE DEF Lists
  <2> QED
    BY <2>1, <2>2, <2>15, <2>16 DEF r
<1>n. N \in SUBSET Nat
  OBVIOUS
<1> HIDE DEF N
<1>4. n \in N
  BY <1>1, <1>2, <1>3, <1>n, AllNumbers
<1>5. u[n] \in Seq(V) /\ Lists(u[n], All(n))
  <2> HIDE DEF u, Lists, All
  <2> QED
    BY <1>1, <1>4 DEF N
<1> QED
  BY <1>5 DEF Appended, Shows

-----------------------------------------------------------------------------
(* The distribution of sorted fees.                                         *)

(* How often a value is among the first i of s.                             *)
Times(s, i, v) == Cardinality({j \in 1 .. i : s[j] = v})

IsSorted(s, n) == \A i, j \in 1 .. n : i < j => s[i] <= s[j]

LEMMA TimesFacts ==
    ASSUME NEW s, NEW i \in Nat, NEW v
    PROVE  /\ Times(s, i, v) \in Nat
           /\ Times(s, i + 1, v) = IF s[i + 1] = v THEN Times(s, i, v) + 1 ELSE Times(s, i, v)
           /\ (\A j \in 1 .. i : s[j] # v) => Times(s, i, v) = 0
           /\ (\E j \in 1 .. i : s[j] = v) => Times(s, i, v) # 0
<1> DEFINE A == {j \in 1 .. i : s[j] = v}
           B == {j \in 1 .. i + 1 : s[j] = v}
<1>1. IsFiniteSet(A)
  <2>1. IsFiniteSet(1 .. i) /\ A \subseteq 1 .. i
    BY FS_Interval
  <2> QED
    BY <2>1, FS_Subset
<1>2. \A j : j \in 1 .. i + 1 <=> j \in 1 .. i \/ j = i + 1
  OBVIOUS
<1>3. i + 1 \notin A
  OBVIOUS
<1>4. B = IF s[i + 1] = v THEN A \union {i + 1} ELSE A
  BY <1>2
<1>5. (\A j \in 1 .. i : s[j] # v) <=> A = {}
  OBVIOUS
<1> HIDE DEF A, B
<1>6. Cardinality(A) \in Nat /\ Cardinality(A \union {i + 1}) = Cardinality(A) + 1
        /\ (Cardinality(A) = 0 <=> A = {})
  BY <1>1, <1>3, FS_CardinalityType, FS_AddElement, FS_EmptySet
<1>7. Times(s, i, v) = Cardinality(A) /\ Times(s, i + 1, v) = Cardinality(B)
  BY DEF Times, A, B
<1> QED
  BY <1>4, <1>5, <1>6, <1>7

ModeState == [mode : Nat, most : Nat, last : Nat, repeated : Nat]

LEMMA ModeStepFacts ==
    ASSUME NEW m \in ModeState, NEW fee \in Nat
    PROVE  /\ ModeStep(m, fee) \in ModeState
           /\ ModeStep(m, fee).last = fee
           /\ fee = m.last =>
                 /\ ModeStep(m, fee).mode = m.mode /\ ModeStep(m, fee).most = m.most
                 /\ ModeStep(m, fee).repeated = m.repeated + 1
           /\ fee # m.last =>
                 /\ ModeStep(m, fee).mode = IF m.repeated > m.most THEN m.last ELSE m.mode
                 /\ ModeStep(m, fee).most = IF m.repeated > m.most THEN m.repeated ELSE m.most
                 /\ ModeStep(m, fee).repeated = 0
<1>1. CASE fee = m.last
  <2>1. ModeStep(m, fee) = [m EXCEPT !.repeated = @ + 1]
    BY <1>1 DEF ModeStep
  <2> QED
    BY <1>1, <2>1 DEF ModeState
<1>2. CASE fee # m.last
  <2>1. ModeStep(m, fee) = [mode |-> IF m.repeated > m.most THEN m.last ELSE m.mode,
                            most |-> IF m.repeated > m.most THEN m.repeated ELSE m.most,
                            last |-> fee, repeated |-> 0]
    BY <1>2 DEF ModeStep
  <2> QED
    BY <1>2, <2>1 DEF ModeState
<1> QED
  BY <1>1, <1>2

FirstMode(s) == [mode |-> s[1], most |-> 0, last |-> s[1], repeated |-> 0]

LEMMA ModeLooping ==
    ASSUME NEW n \in Nat \ {0}, NEW s \in [1 .. n -> Nat]
    PROVE  /\ ModeLoop(s)[1] = FirstMode(s)
           /\ \A i \in 1 .. n : i # 1 => ModeLoop(s)[i] = ModeStep(ModeLoop(s)[i - 1], s[i])
<1> DEFINE Runs(k) == \E g : g = [i \in 1 .. k |-> IF i = 1 THEN FirstMode(s)
                                                   ELSE ModeStep(g[i - 1], s[i])]
           N == {k \in Nat : Runs(k)}
           u == ModeLoop(s)
<1>1. 0 \in N
  <2> DEFINE g == [i \in 1 .. 0 |-> 0]
  <2>1. g = [i \in 1 .. 0 |-> IF i = 1 THEN FirstMode(s) ELSE ModeStep(g[i - 1], s[i])]
    OBVIOUS
  <2> QED
    BY <2>1
<1>2. ASSUME NEW k \in N PROVE k + 1 \in N
  <2>1. PICK g : g = [i \in 1 .. k |-> IF i = 1 THEN FirstMode(s) ELSE ModeStep(g[i - 1], s[i])]
    OBVIOUS
  <2>2. k \in Nat
    OBVIOUS
  <2> DEFINE new == IF k = 0 THEN FirstMode(s) ELSE ModeStep(g[k], s[k + 1])
             h == [i \in 1 .. k + 1 |-> IF i = k + 1 THEN new ELSE g[i]]
  <2>3. ASSUME NEW i \in 1 .. k + 1
        PROVE  h[i] = IF i = 1 THEN FirstMode(s) ELSE ModeStep(h[i - 1], s[i])
    <3>1. CASE i = k + 1
      <4>1. (i = 1 <=> k = 0) /\ (k # 0 => i - 1 = k /\ k \in 1 .. k + 1 /\ k # k + 1)
        BY <2>2, <3>1
      <4> QED
        BY <3>1, <4>1
    <3>2. CASE i # k + 1
      <4>1. i \in 1 .. k /\ (i # 1 => i - 1 \in 1 .. k + 1 /\ i - 1 # k + 1)
        BY <2>2, <3>2
      <4> QED
        BY <2>1, <3>2, <4>1
    <3> QED
      BY <3>1, <3>2
  <2>4. h = [i \in 1 .. k + 1 |-> IF i = 1 THEN FirstMode(s) ELSE ModeStep(h[i - 1], s[i])]
    BY <2>3
  <2> HIDE DEF h
  <2>5. Runs(k + 1)
    BY <2>4
  <2> HIDE DEF Runs
  <2> QED
    BY <2>2, <2>5
<1>3. N \in SUBSET Nat
  OBVIOUS
<1> HIDE DEF N
<1>4. n \in N
  BY <1>1, <1>2, <1>3, AllNumbers
<1>5. PICK g : g = [i \in 1 .. n |-> IF i = 1 THEN FirstMode(s) ELSE ModeStep(g[i - 1], s[i])]
  BY <1>4 DEF N
<1>6. DOMAIN s = 1 .. n
  OBVIOUS
<1>7. u = CHOOSE g1 : g1 = [i \in 1 .. n |-> IF i = 1 THEN FirstMode(s) ELSE ModeStep(g1[i - 1], s[i])]
  BY <1>6 DEF ModeLoop, FirstMode
<1>8. u = [i \in 1 .. n |-> IF i = 1 THEN FirstMode(s) ELSE ModeStep(u[i - 1], s[i])]
  BY <1>5, <1>7
<1> HIDE DEF u
<1> QED
  BY <1>8 DEF u

(* What the loop has found after the i-th of the sorted fees: all but the   *)
(* last cluster are accounted for.  As long as there is only one cluster,   *)
(* its value is the mode without having been counted.                       *)
Clustered(s, i, m) ==
    /\ m \in ModeState
    /\ m.last = s[i] /\ m.repeated + 1 = Times(s, i, s[i])
    /\ \A j \in 1 .. i : s[j] # s[i] => Times(s, i, s[j]) <= m.most + 1
    /\ \/ /\ m.mode \in {s[j] : j \in 1 .. i}
          /\ m.mode # s[i] /\ Times(s, i, m.mode) = m.most + 1
          /\ \A j \in 1 .. i : s[j] < m.mode => Times(s, i, s[j]) <= m.most
       \/ m.mode = s[i] /\ m.most = 0 /\ \A j \in 1 .. i : s[j] = s[i]

LEMMA ClusteredStep ==
    ASSUME NEW n \in Nat, NEW s \in [1 .. n -> Nat], IsSorted(s, n),
           NEW i \in 1 .. n, i + 1 \in 1 .. n, NEW m, Clustered(s, i, m)
    PROVE  Clustered(s, i + 1, ModeStep(m, s[i + 1]))
<1> DEFINE fee == s[i + 1]
           t == ModeStep(m, fee)
           C(v) == Times(s, i, v)
           D(v) == Times(s, i + 1, v)
<1>1. i \in Nat /\ i \in 1 .. i /\ \A j \in 1 .. i : j \in 1 .. n /\ s[j] \in Nat /\ j < i + 1
  OBVIOUS
<1>2. \A j : j \in 1 .. i + 1 <=> j \in 1 .. i \/ j = i + 1
  OBVIOUS
<1>3. m \in ModeState /\ fee \in Nat
  BY DEF Clustered
<1>4. /\ t \in ModeState /\ t.last = fee
      /\ fee = m.last => t.mode = m.mode /\ t.most = m.most /\ t.repeated = m.repeated + 1
      /\ fee # m.last => /\ t.mode = IF m.repeated > m.most THEN m.last ELSE m.mode
                         /\ t.most = IF m.repeated > m.most THEN m.repeated ELSE m.most
                         /\ t.repeated = 0
  BY <1>3, ModeStepFacts
<1>5. \A v : /\ C(v) \in Nat /\ D(v) = IF fee = v THEN C(v) + 1 ELSE C(v)
             /\ (\A j \in 1 .. i : s[j] # v) => C(v) = 0
             /\ (\E j \in 1 .. i : s[j] = v) => C(v) # 0
  <2> TAKE v
  <2>1. /\ Times(s, i, v) \in Nat
        /\ Times(s, i + 1, v) = IF s[i + 1] = v THEN Times(s, i, v) + 1 ELSE Times(s, i, v)
        /\ (\A j \in 1 .. i : s[j] # v) => Times(s, i, v) = 0
        /\ (\E j \in 1 .. i : s[j] = v) => Times(s, i, v) # 0
    BY <1>1, TimesFacts
  <2> QED
    BY <2>1
<1>6. /\ m.last = s[i] /\ m.repeated + 1 = C(s[i])
      /\ \A j \in 1 .. i : s[j] # s[i] => C(s[j]) <= m.most + 1
      /\ \/ /\ m.mode \in {s[j] : j \in 1 .. i}
            /\ m.mode # s[i] /\ C(m.mode) = m.most + 1
            /\ \A j \in 1 .. i : s[j] < m.mode => C(s[j]) <= m.most
         \/ m.mode = s[i] /\ m.most = 0 /\ \A j \in 1 .. i : s[j] = s[i]
  BY DEF Clustered
<1>7. m.mode \in Nat /\ m.most \in Nat /\ m.repeated \in Nat /\ m.last \in Nat
  BY <1>3 DEF ModeState
<1>8. /\ \A j \in 1 .. i : s[j] <= s[i] /\ s[j] <= fee
  <2>1. \A j \in 1 .. i : j = i \/ j < i
    BY <1>1
  <2> QED
    BY <1>1, <2>1 DEF IsSorted
<1> HIDE DEF fee, t, C, D
<1>9. CASE fee = s[i]
  <2>1. D(s[i]) = C(s[i]) + 1 /\ \A v : v # s[i] => D(v) = C(v)
    BY <1>5, <1>9
  <2>2. t.mode = m.mode /\ t.most = m.most /\ t.repeated = m.repeated + 1
    BY <1>4, <1>6, <1>9
  <2>3. {s[j] : j \in 1 .. i + 1} = {s[j] : j \in 1 .. i}
    BY <1>1, <1>2, <1>9 DEF fee
  <2>4. \A j \in 1 .. i + 1 : s[j] = fee \/ \E k \in 1 .. i : s[j] = s[k]
    BY <1>2 DEF fee
  <2>5. t.repeated + 1 = D(fee)
    BY <1>5, <1>6, <1>7, <1>9, <2>1, <2>2
  <2>6. \A j \in 1 .. i + 1 : s[j] # fee => D(s[j]) <= t.most + 1
    BY <1>6, <1>9, <2>1, <2>2, <2>4
  <2>7. CASE m.mode = s[i] /\ m.most = 0 /\ \A j \in 1 .. i : s[j] = s[i]
    BY <1>4, <1>9, <2>2, <2>4, <2>5, <2>6, <2>7 DEF Clustered, fee, t, D
  <2>8. CASE /\ m.mode \in {s[j] : j \in 1 .. i}
             /\ m.mode # s[i] /\ C(m.mode) = m.most + 1
             /\ \A j \in 1 .. i : s[j] < m.mode => C(s[j]) <= m.most
    <3>1. m.mode \in {s[j] : j \in 1 .. i + 1} /\ m.mode # fee /\ D(m.mode) = m.most + 1
      BY <1>9, <2>1, <2>3, <2>8
    <3>2. \A j \in 1 .. i + 1 : s[j] < m.mode => D(s[j]) <= m.most
      <4> SUFFICES ASSUME NEW j \in 1 .. i + 1, s[j] < m.mode PROVE D(s[j]) <= m.most
        OBVIOUS
      <4>1. m.mode <= s[i]
        BY <1>8, <2>8
      <4>2. s[j] # s[i]
        BY <1>1, <1>7, <4>1, <2>8, <1>9, <1>3, <2>4
      <4> QED
        BY <1>9, <2>1, <2>4, <2>8, <4>2
    <3> QED
      BY <1>4, <2>2, <2>5, <2>6, <3>1, <3>2 DEF Clustered, fee, t, D
  <2> QED
    BY <1>6, <2>7, <2>8
<1>10. CASE fee # s[i]
  <2>1. \A j \in 1 .. i : s[j] # fee /\ s[j] < fee
    BY <1>1, <1>3, <1>8, <1>10
  <2>2. C(fee) = 0 /\ D(fee) = 1 /\ \A v : v # fee => D(v) = C(v)
    BY <1>5, <2>1
  <2>3. /\ t.mode = IF m.repeated > m.most THEN s[i] ELSE m.mode
        /\ t.most = IF m.repeated > m.most THEN m.repeated ELSE m.most
        /\ t.repeated = 0
    BY <1>4, <1>6, <1>10
  <2>4. \A j \in 1 .. i + 1 : s[j] = fee \/ (j \in 1 .. i /\ s[j] # fee /\ D(s[j]) = C(s[j]))
    BY <1>2, <2>1, <2>2 DEF fee
  <2>5. \A j \in 1 .. i : s[j] = s[i] \/ C(s[j]) <= m.most + 1
    BY <1>6
  <2>6. CASE m.repeated > m.most
    <3>1. t.mode = s[i] /\ t.most = m.repeated
      BY <2>3, <2>6
    <3>2. \A j \in 1 .. i + 1 : s[j] # fee => D(s[j]) <= t.most + 1
      <4>1. \A j \in 1 .. i : C(s[j]) <= m.repeated + 1
        <5> TAKE j \in 1 .. i
        <5>1. CASE s[j] = s[i]
          BY <1>6, <1>7, <5>1
        <5>2. CASE C(s[j]) <= m.most + 1
          BY <1>5, <1>7, <2>6, <5>2
        <5> QED
          BY <2>5, <5>1, <5>2
      <4> QED
        BY <2>4, <3>1, <4>1
    <3>3. t.mode \in {s[j] : j \in 1 .. i + 1} /\ t.mode # fee /\ D(t.mode) = t.most + 1
      BY <1>1, <1>2, <1>6, <1>10, <2>2, <3>1
    <3>4. \A j \in 1 .. i + 1 : s[j] < t.mode => D(s[j]) <= t.most
      <4> SUFFICES ASSUME NEW j \in 1 .. i + 1, s[j] < s[i] PROVE D(s[j]) <= m.repeated
        BY <3>1
      <4>1. s[i] < fee /\ s[i] \in Nat
        BY <1>1, <2>1
      <4>2. s[j] # fee
        BY <1>3, <4>1
      <4>3. j \in 1 .. i /\ D(s[j]) = C(s[j]) /\ s[j] # s[i]
        BY <2>4, <4>1, <4>2
      <4>4. C(s[j]) <= m.most + 1 /\ C(s[j]) \in Nat
        BY <1>5, <2>5, <4>3
      <4> QED
        BY <1>7, <2>6, <4>3, <4>4
    <3> QED
      BY <1>4, <2>2, <2>3, <3>2, <3>3, <3>4 DEF Clustered, fee, t, D
  <2>7. CASE ~(m.repeated > m.most)
    <3>1. t.mode = m.mode /\ t.most = m.most
      BY <2>3, <2>7
    <3>2. C(s[i]) <= m.most + 1
      BY <1>5, <1>6, <1>7, <2>7
    <3>3. \A j \in 1 .. i + 1 : s[j] # fee => D(s[j]) <= t.most + 1
      BY <2>4, <2>5, <3>1, <3>2
    <3>4. CASE m.mode = s[i] /\ m.most = 0 /\ \A j \in 1 .. i : s[j] = s[i]
      <4>1. t.mode \in {s[j] : j \in 1 .. i + 1} /\ t.mode # fee
        BY <1>1, <1>2, <1>10, <3>1, <3>4
      <4>2. D(t.mode) = t.most + 1
        BY <1>5, <1>6, <1>7, <1>10, <2>2, <2>7, <3>1, <3>4
      <4>3. \A j \in 1 .. i + 1 : ~(s[j] < t.mode)
        BY <1>1, <1>3, <2>1, <2>4, <3>1, <3>4
      <4> QED
        BY <1>4, <2>2, <2>3, <3>3, <4>1, <4>2, <4>3 DEF Clustered, fee, t, D
    <3>5. CASE /\ m.mode \in {s[j] : j \in 1 .. i}
               /\ m.mode # s[i] /\ C(m.mode) = m.most + 1
               /\ \A j \in 1 .. i : s[j] < m.mode => C(s[j]) <= m.most
      <4>1. t.mode \in {s[j] : j \in 1 .. i + 1} /\ t.mode # fee
        BY <1>2, <2>1, <3>1, <3>5
      <4>2. D(t.mode) = t.most + 1
        BY <2>2, <3>1, <3>5, <4>1
      <4>3. \A j \in 1 .. i + 1 : s[j] < t.mode => D(s[j]) <= t.most
        <5>1. t.mode < fee
          BY <2>1, <3>1, <3>5
        <5>2. \A j \in 1 .. i + 1 : s[j] < t.mode => s[j] # fee
          BY <1>3, <1>4, <1>7, <3>1, <5>1
        <5> QED
          BY <2>4, <3>1, <3>5, <5>2
      <4> QED
        BY <1>4, <2>2, <2>3, <3>3, <4>1, <4>2, <4>3 DEF Clustered, fee, t, D
    <3> QED
      BY <1>6, <3>4, <3>5
  <2> QED
    BY <2>6, <2>7
<1> QED
  BY <1>9, <1>10

(* The mode is the smallest of the most frequent values.                    *)
LEMMA ModeFacts ==
    ASSUME NEW n \in Nat \ {0}, NEW s \in [1 .. n -> Nat], IsSorted(s, n)
    PROVE  LET mode == ModeOfSorted(s)
           IN  /\ mode \in {s[j] : j \in 1 .. n}
               /\ \A j \in 1 .. n : Times(s, n, s[j]) <= Times(s, n, mode)
               /\ \A j \in 1 .. n : s[j] < mode => Times(s, n, s[j]) < Times(s, n, mode)
<1> DEFINE u == ModeLoop(s)
           N == {k \in Nat : k + 1 <= n => Clustered(s, k + 1, u[k + 1])}
           m == u[n]
           mode == ModeOfSorted(s)
<1>1. u[1] = FirstMode(s) /\ \A i \in 1 .. n : i # 1 => u[i] = ModeStep(u[i - 1], s[i])
  BY ModeLooping
<1>2. 0 \in N
  <2>1. 1 \in 1 .. n /\ s[1] \in Nat /\ \A j : j \in 1 .. 1 <=> j = 1
    OBVIOUS
  <2>2. FirstMode(s) \in ModeState
    BY <2>1 DEF FirstMode, ModeState
  <2>3. Times(s, 1, s[1]) = 1
    <3>1. Times(s, 0 + 1, s[1]) = IF s[0 + 1] = s[1] THEN Times(s, 0, s[1]) + 1 ELSE Times(s, 0, s[1])
      BY TimesFacts
    <3>2. (\A j \in 1 .. 0 : s[j] # s[1]) => Times(s, 0, s[1]) = 0
      BY TimesFacts
    <3> QED
      BY <3>1, <3>2
  <2>4. Clustered(s, 1, FirstMode(s))
    BY <2>1, <2>2, <2>3 DEF Clustered, FirstMode
  <2> HIDE DEF u
  <2> QED
    BY <1>1, <2>4
<1>3. ASSUME NEW k \in N PROVE k + 1 \in N
  <2>1. k \in Nat /\ (k + 1 <= n => Clustered(s, k + 1, u[k + 1]))
    OBVIOUS
  <2> HIDE DEF u
  <2> SUFFICES ASSUME (k + 1) + 1 <= n PROVE Clustered(s, (k + 1) + 1, u[(k + 1) + 1])
    BY <2>1
  <2> DEFINE i == k + 1
  <2>2. i \in 1 .. n /\ i + 1 \in 1 .. n /\ i + 1 # 1 /\ (i + 1) - 1 = i
    BY <2>1
  <2>3. Clustered(s, i, u[i])
    BY <2>1
  <2>4. u[i + 1] = ModeStep(u[i], s[i + 1])
    BY <1>1, <2>2
  <2> HIDE DEF i
  <2>5. Clustered(s, i + 1, u[i + 1])
    BY <2>2, <2>3, <2>4, ClusteredStep
  <2> QED
    BY <2>5 DEF i
<1>4. N \in SUBSET Nat
  OBVIOUS
<1>5. Clustered(s, n, m)
  <2>1. n - 1 \in Nat /\ (n - 1) + 1 = n
    OBVIOUS
  <2> HIDE DEF N
  <2>2. n - 1 \in N
    BY <1>2, <1>3, <1>4, <2>1, AllNumbers
  <2> HIDE DEF u
  <2> QED
    BY <2>1, <2>2 DEF N
<1>6. Len(s) = n
  <2>1. s \in Seq(Nat)
    BY SeqDef
  <2> QED
    BY <2>1, LenProperties
<1>7. mode = IF m.repeated > m.most THEN s[n] ELSE m.mode
  BY <1>6 DEF ModeOfSorted
<1> DEFINE C(v) == Times(s, n, v)
<1>8. \A v : C(v) \in Nat
  BY TimesFacts
<1>9. /\ m.repeated + 1 = C(s[n])
      /\ \A j \in 1 .. n : s[j] # s[n] => C(s[j]) <= m.most + 1
      /\ \/ /\ m.mode \in {s[j] : j \in 1 .. n}
            /\ m.mode # s[n] /\ C(m.mode) = m.most + 1
            /\ \A j \in 1 .. n : s[j] < m.mode => C(s[j]) <= m.most
         \/ m.mode = s[n] /\ m.most = 0 /\ \A j \in 1 .. n : s[j] = s[n]
  BY <1>5 DEF Clustered
<1>10. m.mode \in Nat /\ m.most \in Nat /\ m.repeated \in Nat
  BY <1>5 DEF Clustered, ModeState
<1>11. n \in 1 .. n /\ \A j \in 1 .. n : s[j] \in Nat
  OBVIOUS
<1> HIDE DEF m, mode, C
<1>12. CASE m.repeated > m.most
  <2>1. mode = s[n] /\ C(mode) = m.repeated + 1
    BY <1>7, <1>9, <1>12
  <2>2. ASSUME NEW j \in 1 .. n, s[j] # s[n] PROVE C(s[j]) < C(mode)
    BY <1>8, <1>9, <1>10, <1>12, <2>1, <2>2
  <2>3. ASSUME NEW j \in 1 .. n PROVE C(s[j]) <= C(mode) /\ (s[j] < mode => C(s[j]) < C(mode))
    <3>1. CASE s[j] = s[n]
      BY <1>8, <1>11, <2>1, <3>1
    <3>2. CASE s[j] # s[n]
      BY <1>8, <2>2, <3>2
    <3> QED
      BY <3>1, <3>2
  <2>4. mode \in {s[j] : j \in 1 .. n}
    BY <1>11, <2>1
  <2> QED
    BY <2>3, <2>4 DEF mode, C
<1>13. CASE ~(m.repeated > m.most)
  <2>1. mode = m.mode /\ C(s[n]) <= m.most + 1
    BY <1>7, <1>8, <1>9, <1>10, <1>13
  <2>2. CASE m.mode = s[n] /\ m.most = 0 /\ \A j \in 1 .. n : s[j] = s[n]
    <3>1. \A j \in 1 .. n : s[j] = mode
      BY <2>1, <2>2
    <3>2. mode \in {s[j] : j \in 1 .. n} /\ mode \in Nat
      BY <1>10, <1>11, <2>1, <3>1
    <3>3. \A j \in 1 .. n : C(s[j]) <= C(mode) /\ ~(s[j] < mode)
      BY <1>8, <3>1, <3>2
    <3> QED
      BY <3>2, <3>3 DEF mode, C
  <2>3. CASE /\ m.mode \in {s[j] : j \in 1 .. n}
             /\ m.mode # s[n] /\ C(m.mode) = m.most + 1
             /\ \A j \in 1 .. n : s[j] < m.mode => C(s[j]) <= m.most
    <3>1. \A j \in 1 .. n : C(s[j]) <= m.most + 1
      BY <1>9, <2>1
    <3>2. ASSUME NEW j \in 1 .. n, s[j] < mode PROVE C(s[j]) < C(mode)
      <4>1. C(s[j]) <= m.most
        BY <2>1, <2>3, <3>2
      <4> QED
        BY <1>8, <1>10, <2>1, <2>3, <4>1
    <3>3. mode \in {s[j] : j \in 1 .. n} /\ \A j \in 1 .. n : C(s[j]) <= C(mode)
      BY <2>1, <2>3, <3>1
    <3> QED
      BY <3>2, <3>3 DEF mode, C
  <2> QED
    BY <1>9, <2>2, <2>3
<1> QED
  BY <1>12, <1>13

(* The nearest rank is that of a fee.                                       *)
LEMMA KthFacts ==
    ASSUME NEW n \in Nat \ {0}, NEW p \in 1 .. 100
    PROVE  LET k == KthOf(p, n)
           IN  k \in 1 .. n /\ 100 * k >= p * n /\ 100 * (k - 1) < p * n /\ p * n \in Nat
<1>1. p * n \in Nat /\ p * n >= 1 /\ p * n <= 100 * n
  OBVIOUS
<1> DEFINE t == p * n
           k == (t + 100 - 1) \div 100
<1> HIDE DEF t
<1>2. k \in Nat /\ 100 * k >= t /\ 100 * k < t + 100
  BY <1>1 DEF t
<1> HIDE DEF k
<1>3. k \in 1 .. n
  BY <1>1, <1>2 DEF t
<1>4. KthOf(p, n) = k
  BY DEF KthOf, k, t
<1> QED
  BY <1>1, <1>2, <1>3, <1>4 DEF t

AtMost(s, n, v) == Cardinality({j \in 1 .. n : s[j] <= v})

(* A percentile is the smallest fee that enough of them do not exceed.      *)
LEMMA RankFacts ==
    ASSUME NEW n \in Nat \ {0}, NEW s \in [1 .. n -> Nat], IsSorted(s, n), NEW p \in 1 .. 100
    PROVE  LET v == s[KthOf(p, n)]
           IN  /\ v \in {s[j] : j \in 1 .. n}
               /\ 100 * AtMost(s, n, v) >= p * n
               /\ \A j \in 1 .. n : 100 * AtMost(s, n, s[j]) >= p * n => v <= s[j]
<1> DEFINE k == KthOf(p, n)
           v == s[k]
           A(w) == {j \in 1 .. n : s[j] <= w}
<1>1. k \in 1 .. n /\ 100 * k >= p * n /\ 100 * (k - 1) < p * n /\ p * n \in Nat
  BY KthFacts
<1> DEFINE t == p * n
<1>t. t \in Nat /\ k \in Nat /\ k - 1 \in Nat /\ 100 * k >= t /\ 100 * (k - 1) < t /\ t = p * n
  BY <1>1
<1> HIDE DEF k, t
<1>2. \A w : IsFiniteSet(A(w)) /\ AtMost(s, n, w) = Cardinality(A(w)) /\ AtMost(s, n, w) \in Nat
  <2> TAKE w
  <2>1. IsFiniteSet(1 .. n) /\ A(w) \subseteq 1 .. n
    BY FS_Interval
  <2>2. AtMost(s, n, w) = Cardinality(A(w))
    BY DEF AtMost
  <2> HIDE DEF A
  <2> QED
    BY <2>1, <2>2, FS_Subset, FS_CardinalityType
<1>3. AtMost(s, n, v) >= k
  <2>1. 1 .. k \subseteq A(v)
    <3>1. \A j \in 1 .. k : j \in 1 .. n /\ (j = k \/ j < k)
      BY <1>1
    <3>2. v \in Nat
      BY <1>1
    <3> QED
      BY <1>1, <3>1, <3>2 DEF IsSorted
  <2>2. Cardinality(1 .. k) = k
    BY <1>1, FS_Interval
  <2> HIDE DEF A, v
  <2>3. Cardinality(1 .. k) <= Cardinality(A(v))
    BY <1>2, <2>1, FS_Subset
  <2> QED
    BY <1>1, <1>2, <2>2, <2>3
<1>4. ASSUME NEW j \in 1 .. n, 100 * AtMost(s, n, s[j]) >= p * n PROVE v <= s[j]
  <2> SUFFICES ASSUME s[j] < v PROVE FALSE
    BY <1>1
  <2>1. A(s[j]) \subseteq 1 .. k - 1
    <3> SUFFICES ASSUME NEW i \in 1 .. n, s[i] <= s[j], ~(i < k) PROVE FALSE
      BY <1>1
    <3>1. i = k \/ k < i
      BY <1>1
    <3>2. v <= s[i]
      BY <1>1, <3>1 DEF IsSorted
    <3> QED
      BY <1>1, <3>2
  <2>2. IsFiniteSet(1 .. k - 1) /\ Cardinality(1 .. k - 1) = k - 1
    <3> DEFINE e == k - 1
    <3>1. e \in Nat /\ 1 \in Int /\ e \in Int /\ e - 1 + 1 = e /\ (1 > e => e = 0)
      BY <1>t
    <3> HIDE DEF e
    <3>2. IsFiniteSet(1 .. e) /\ Cardinality(1 .. e) = e
      BY <3>1, FS_Interval
    <3> QED
      BY <3>2 DEF e
  <2>3. AtMost(s, n, s[j]) <= k - 1
    <3> HIDE DEF A
    <3>1. Cardinality(A(s[j])) <= Cardinality(1 .. k - 1)
      BY <2>1, <2>2, FS_Subset
    <3> QED
      BY <1>2, <2>2, <3>1
  <2> DEFINE c == AtMost(s, n, s[j])
  <2>4. c \in Nat /\ c <= k - 1 /\ 100 * c >= t
    BY <1>2, <1>4, <1>t, <2>3
  <2> HIDE DEF c
  <2> QED
    BY <1>t, <2>4
<1>5. 100 * AtMost(s, n, v) >= p * n
  <2> DEFINE c == AtMost(s, n, v)
  <2>1. c \in Nat /\ c >= k
    BY <1>2, <1>3
  <2> HIDE DEF c
  <2>2. 100 * c >= t
    BY <1>t, <2>1
  <2> QED
    BY <1>t, <2>2 DEF c
<1>6. v \in {s[j] : j \in 1 .. n}
  BY <1>1
<1> QED
  BY <1>4, <1>5, <1>6 DEF k

-----------------------------------------------------------------------------
(* The fees of things, and what is said of them without a list.             *)

IsLeast(v, S) == v \in S /\ \A w \in S : v <= w

TimesIn(C, show, v) == Cardinality({x \in C : show[x] = v})

AtMostIn(C, show, v) == Cardinality({x \in C : show[x] <= v})

IsDistribution(d, C, show, ledgers) ==
    LET values == {show[x] : x \in C}
    IN  /\ d.feeCount = Cardinality(C)
        /\ Cardinality(C) # 0 =>
             /\ d.ledgerCount = ledgers
             /\ IsLeast(d.min, values)
             /\ d.max \in values /\ \A v \in values : v <= d.max
             /\ IsLeast(d.mode, {v \in values : \A w \in values : TimesIn(C, show, w) <= TimesIn(C, show, v)})
             /\ \A p \in Percentiles :
                   IsLeast(d.rank[p], {v \in values : 100 * AtMostIn(C, show, v) >= p * Cardinality(C)})

(* A list of the fees of some things is still one when it is sorted.        *)
LEMMA SortedShows ==
    ASSUME NEW n \in Nat, NEW s \in [1 .. n -> Nat], NEW C, NEW show, Shows(s, n, C, show)
    PROVE  /\ Sorted(s) \in [1 .. n -> Nat]
           /\ IsSorted(Sorted(s), n)
           /\ Shows(Sorted(s), n, C, show)
<1>0. PICK q \in Bijection(1 .. n, C) : \A a \in 1 .. n : s[a] = show[q[a]]
  BY DEF Shows
<1>1. PICK p \in Bijection(1 .. n, 1 .. n) :
              /\ Sorted(s) = [k \in 1 .. n |-> s[p[k]]]
              /\ \A i, j \in 1 .. n : i < j => s[p[i]] <= s[p[j]]
  BY SortedFacts
<1> DEFINE D == 1 .. n
           r == [k \in D |-> q[p[k]]]
<1>2. /\ p \in [D -> D] /\ \A i, j \in D : p[i] = p[j] => i = j
      /\ \A t \in D : \E i \in D : p[i] = t
  BY <1>1 DEF Bijection, Injection, Surjection, IsInjective
<1>3. /\ q \in [D -> C] /\ \A i, j \in D : q[i] = q[j] => i = j
      /\ \A t \in C : \E i \in D : q[i] = t
  BY <1>0 DEF Bijection, Injection, Surjection, IsInjective
<1>4. s \in [D -> Nat] /\ Sorted(s) = [k \in D |-> s[p[k]]] /\ \A a \in D : s[a] = show[q[a]]
  BY <1>0, <1>1
<1>5. \A i, j \in D : i < j => s[p[i]] <= s[p[j]]
  BY <1>1
<1>d. D = 1 .. n
  OBVIOUS
<1> HIDE DEF D
<1>6. Sorted(s) \in [D -> Nat] /\ \A k \in D : Sorted(s)[k] = s[p[k]] /\ Sorted(s)[k] = show[r[k]]
  <2>1. \A k \in D : p[k] \in D /\ s[p[k]] \in Nat /\ s[p[k]] = show[q[p[k]]]
    BY <1>2, <1>4
  <2>2. \A k \in D : Sorted(s)[k] = s[p[k]] /\ r[k] = q[p[k]]
    BY <1>4
  <2>3. Sorted(s) \in [D -> Nat]
    BY <1>4, <2>1
  <2> QED
    BY <2>1, <2>2, <2>3
<1>7. r \in Bijection(D, C)
  <2>1. r \in [D -> C] /\ \A i, j \in D : r[i] = r[j] => i = j
    BY <1>2, <1>3
  <2>2. \A t \in C : \E i \in D : r[i] = t
    BY <1>2, <1>3
  <2> QED
    BY <2>1, <2>2 DEF Bijection, Injection, Surjection, IsInjective
<1>8. IsSorted(Sorted(s), n)
  BY <1>5, <1>6, <1>d DEF IsSorted
<1>9. Shows(Sorted(s), n, C, show)
  BY <1>6, <1>7, <1>d DEF Shows
<1> QED
  BY <1>6, <1>8, <1>9, <1>d

(* computeFeeDistribution, given a list of the fees of some things, reports *)
(* the distribution of their fees.                                          *)
LEMMA DistributionFacts ==
    ASSUME NEW fees \in Seq(Nat), NEW C, NEW show, NEW ledgers,
           Shows(fees, Len(fees), C, show)
    PROVE  IsDistribution(computeFeeDistribution(fees, ledgers), C, show, ledgers)
<1> DEFINE n == Len(fees)
           s == Sorted(fees)
           d == computeFeeDistribution(fees, ledgers)
<1>1. n \in Nat /\ fees \in [1 .. n -> Nat] /\ Shows(fees, n, C, show)
  OBVIOUS
<1>2. IsFiniteSet(C) /\ Cardinality(C) = n
  <2> HIDE DEF n
  <2>1. IsFiniteSet(1 .. n) /\ Cardinality(1 .. n) = n
    <3>1. n \in Nat
      BY <1>1
    <3> QED
      BY <3>1, FS_Interval
  <2>2. ExistsBijection(1 .. n, C)
    BY <1>1 DEF ExistsBijection, Shows
  <2> QED
    BY <2>1, <2>2, FS_Bijection
<1>3. fees = <<>> <=> n = 0
  OBVIOUS
<1>4. CASE n = 0
  BY <1>2, <1>3, <1>4 DEF IsDistribution, computeFeeDistribution, NoDistribution
<1>5. CASE n # 0
  <2>1. s \in [1 .. n -> Nat] /\ IsSorted(s, n) /\ Shows(s, n, C, show)
    <3> HIDE DEF n
    <3> QED
      BY <1>1, SortedShows
  <2>2. PICK r \in Bijection(1 .. n, C) : \A a \in 1 .. n : s[a] = show[r[a]]
    BY <2>1 DEF Shows
  <2>3. d = [max |-> s[n], min |-> s[1], mode |-> ModeOfSorted(s),
             rank |-> [p \in Percentiles |-> s[KthOf(p, n)]],
             feeCount |-> n, ledgerCount |-> ledgers]
    BY <1>3, <1>5 DEF computeFeeDistribution
  <2> DEFINE values == {show[x] : x \in C}
  <2> HIDE DEF n, s, d
  <2>4. n \in Nat \ {0} /\ 1 \in 1 .. n /\ n \in 1 .. n
    BY <1>1, <1>5
  <2>5. values = {s[j] : j \in 1 .. n}
    <3>1. (\A a \in 1 .. n : r[a] \in C) /\ \A x \in C : \E a \in 1 .. n : r[a] = x
      BY <2>2 DEF Bijection, Injection, Surjection
    <3> QED
      BY <2>2, <3>1
  <2>6. \A v : TimesIn(C, show, v) = Times(s, n, v) /\ AtMostIn(C, show, v) = AtMost(s, n, v)
    <3> TAKE v
    <3> DEFINE D == 1 .. n
               E == {x \in C : show[x] = v}
               F == {x \in C : show[x] <= v}
    <3>1. IsFiniteSet(D) /\ r \in Bijection(D, C)
      BY <2>2, <2>4, FS_Interval
    <3>2. \A a \in D : r[a] \in C /\ s[a] = show[r[a]]
      BY <2>2 DEF Bijection, Injection
    <3>3. {a \in D : r[a] \in E} = {a \in D : s[a] = v} /\ {a \in D : r[a] \in F} = {a \in D : s[a] <= v}
      BY <3>2
    <3>4. E \in SUBSET C /\ F \in SUBSET C
      OBVIOUS
    <3>5. /\ TimesIn(C, show, v) = Cardinality(E) /\ AtMostIn(C, show, v) = Cardinality(F)
          /\ Times(s, n, v) = Cardinality({a \in D : s[a] = v})
          /\ AtMost(s, n, v) = Cardinality({a \in D : s[a] <= v})
      BY DEF TimesIn, AtMostIn, Times, AtMost
    <3> HIDE DEF D, E, F
    <3>6. Cardinality({a \in D : r[a] \in E}) = Cardinality(E)
            /\ Cardinality({a \in D : r[a] \in F}) = Cardinality(F)
      BY <3>1, <3>4, CountedThrough
    <3> QED
      BY <3>3, <3>5, <3>6
  <2>7. d.feeCount = n /\ d.ledgerCount = ledgers
    BY <2>3
  <2>8. IsLeast(d.min, values) /\ d.max \in values /\ \A v \in values : v <= d.max
    <3>1. d.min = s[1] /\ d.max = s[n]
      BY <2>3
    <3>2. \A j \in 1 .. n : (j = 1 \/ 1 < j) /\ (j = n \/ j < n)
      BY <2>4
    <3>3. \A j \in 1 .. n : s[1] <= s[j] /\ s[j] <= s[n]
      BY <2>1, <2>4, <3>2 DEF IsSorted
    <3> QED
      BY <2>4, <2>5, <3>1, <3>3 DEF IsLeast
  <2>9. IsLeast(d.mode, {v \in values : \A w \in values : TimesIn(C, show, w) <= TimesIn(C, show, v)})
    <3> DEFINE mode == d.mode
               T(v) == Times(s, n, v)
    <3>1. d.mode = ModeOfSorted(s)
      BY <2>3
    <3>2. /\ mode \in {s[j] : j \in 1 .. n}
          /\ \A j \in 1 .. n : Times(s, n, s[j]) <= Times(s, n, mode)
          /\ \A j \in 1 .. n : s[j] < mode => Times(s, n, s[j]) < Times(s, n, mode)
      BY <2>1, <2>4, <3>1, ModeFacts
    <3>3. /\ mode \in values
          /\ \A v \in values : T(v) <= T(mode) /\ (v < mode => T(v) < T(mode))
      BY <2>5, <3>2
    <3>4. \A v \in values : v \in Nat /\ T(v) \in Nat
      <4>1. \A v \in values : v \in Nat
        BY <2>1, <2>5
      <4>2. ASSUME NEW v PROVE T(v) \in Nat
        BY <2>4, TimesFacts
      <4> QED
        BY <4>1, <4>2
    <3> HIDE DEF mode, values, T
    <3>5. ASSUME NEW v \in values, \A w \in values : T(w) <= T(v) PROVE mode <= v
      <4>1. v \in Nat /\ mode \in Nat /\ T(v) \in Nat /\ T(mode) \in Nat /\ T(mode) <= T(v)
              /\ (v < mode => T(v) < T(mode))
        BY <3>3, <3>4, <3>5
      <4> QED
        BY <4>1
    <3>6. IsLeast(mode, {v \in values : \A w \in values : T(w) <= T(v)})
      BY <3>3, <3>5 DEF IsLeast
    <3>7. \A v : TimesIn(C, show, v) = T(v)
      BY <2>6 DEF T
    <3>8. IsLeast(mode, {v \in values : \A w \in values : TimesIn(C, show, w) <= TimesIn(C, show, v)})
      BY <3>6, <3>7 DEF IsLeast
    <3> QED
      BY <3>8 DEF mode
  <2>10. ASSUME NEW p \in Percentiles
         PROVE  IsLeast(d.rank[p], {v \in values : 100 * AtMostIn(C, show, v) >= p * Cardinality(C)})
    <3> DEFINE k == KthOf(p, n)
    <3>1. d.rank[p] = s[k] /\ p \in 1 .. 100
      BY <2>3, PercentilesOfAll
    <3>2. /\ s[k] \in {s[j] : j \in 1 .. n}
          /\ 100 * AtMost(s, n, s[k]) >= p * n
          /\ \A j \in 1 .. n : 100 * AtMost(s, n, s[j]) >= p * n => s[k] <= s[j]
      BY <2>1, <2>4, <3>1, RankFacts
    <3> HIDE DEF k
    <3>3. s[k] \in values /\ \A v \in values : 100 * AtMost(s, n, v) >= p * n => s[k] <= v
      BY <2>5, <3>2
    <3> HIDE DEF values
    <3>4. IsLeast(s[k], {v \in values : 100 * AtMost(s, n, v) >= p * n})
      BY <3>2, <3>3, Zenon DEF IsLeast
    <3> QED
      BY <1>2, <2>6, <3>1, <3>4, Zenon
  <2> QED
    BY <1>2, <2>7, <2>8, <2>9, <2>10 DEF IsDistribution, d
<1> QED
  BY <1>4, <1>5

-----------------------------------------------------------------------------
(* The fee window.                                                          *)

(* The inductive invariant: a bucket of the window holds the fees of its    *)
(* ledger, the last one those of the ledger accepted last, and the          *)
(* distribution is that of all of them.                                     *)
FeeInv ==
    /\ RingInv
    /\ kind \in Kinds
    /\ accepted \in Seq(TxLists)
    /\ Len(buckets) = IF Len(accepted) < Capacity THEN Len(accepted) ELSE Capacity
    /\ \A i \in 1 .. Len(buckets) :
          Unrolled[i].content = IngestFees(kind, accepted[Len(accepted) - Len(buckets) + i])
    /\ distribution = computeFeeDistribution(AllFees(buckets, start), Len(buckets))

(* Division leaves a rest that is less than the divisor.                    *)
LEMMA Quotient ==
    ASSUME NEW a \in Nat, NEW b \in Nat \ {0}
    PROVE  /\ a \div b \in 0 .. a
           /\ (a \div b) * b <= a /\ a < (a \div b + 1) * b
           /\ \A f \in Nat : f * b <= a /\ a < (f + 1) * b => f = a \div b
<1> DEFINE d == a \div b
<1>1. d \in Nat /\ d * b <= a /\ a < (d + 1) * b
  OBVIOUS
<1> HIDE DEF d
<1>2. d <= a
  BY <1>1
<1>3. \A f \in Nat : f * b <= a /\ a < (f + 1) * b => f = d
  BY <1>1
<1> QED
  BY <1>1, <1>2, <1>3 DEF d

(* The transactions that a ledger has for a window are those that the loop  *)
(* over them counts, and it takes what they bid.                            *)
LEMMA FeeOfFacts ==
    ASSUME kind \in Kinds, NEW txs \in TxLists, NEW i \in DOMAIN txs
    PROVE  /\ IsAbout(txs[i]) <=> Counted(kind, txs[i])
           /\ IsAbout(txs[i]) =>
                 /\ FeeOf(kind, txs[i]) \in Nat
                 /\ \A x : accepted[x[1]][x[2]] = txs[i] => FeeAt(x) = FeeOf(kind, txs[i])
<1> DEFINE tx == txs[i]
<1>1. /\ tx.ops \in Nat /\ tx.soroban \in BOOLEAN /\ tx.ext \in BOOLEAN
      /\ tx.charged \in Nat /\ tx.nonRefundable \in Nat /\ tx.refundable \in Nat
      /\ tx.soroban => tx.ops = 1 /\ tx.nonRefundable + tx.refundable <= tx.charged
  <2>1. txs \in Seq(Transaction)
    BY TransactionsOfTheNetwork
  <2>2. tx \in Transaction
    BY <2>1
  <2>3. tx.soroban => tx.ops = 1 /\ tx.nonRefundable + tx.refundable <= tx.charged
    BY TransactionsOfTheNetwork
  <2> HIDE DEF tx
  <2> QED
    BY <2>2, <2>3 DEF Transaction
<1> HIDE DEF tx
<1>2. kind = "soroban" \/ kind = "classic"
  BY DEF Kinds
<1>3. IsAbout(tx) <=> Counted(kind, tx)
  BY <1>1, <1>2 DEF IsAbout, Counted, IsSoroban
<1>4. ASSUME IsAbout(tx), NEW x, accepted[x[1]][x[2]] = tx
      PROVE  FeeAt(x) = FeeOf(kind, tx)
  <2> DEFINE Bid(f) == IF tx.soroban THEN f + tx.nonRefundable + tx.refundable = tx.charged
                       ELSE f * tx.ops <= tx.charged /\ tx.charged < (f + 1) * tx.ops
             v == FeeOf(kind, tx)
  <2>1. FeeAt(x) = CHOOSE f \in 0 .. tx.charged : Bid(f)
    BY <1>4 DEF FeeAt
  <2>2. v \in 0 .. tx.charged /\ Bid(v) /\ \A f \in 0 .. tx.charged : Bid(f) => f = v
    <3>1. CASE kind = "soroban"
      <4>1. tx.soroban /\ v = tx.charged - (tx.nonRefundable + tx.refundable)
        BY <1>4, <3>1 DEF IsAbout, FeeOf
      <4> HIDE DEF v
      <4> QED
        BY <1>1, <4>1
    <3>2. CASE kind = "classic"
      <4>1. ~tx.soroban /\ tx.ops # 0 /\ v = tx.charged \div tx.ops
        BY <1>4, <3>2 DEF IsAbout, FeeOf
      <4> DEFINE a == tx.charged
                 b == tx.ops
                 e == a \div b
      <4>2. a \in Nat /\ b \in Nat \ {0}
        BY <1>1, <4>1
      <4> HIDE DEF a, b, e
      <4>3. /\ e \in 0 .. a /\ e * b <= a /\ a < (e + 1) * b
            /\ \A f \in Nat : f * b <= a /\ a < (f + 1) * b => f = e
        BY <4>2, Quotient DEF e
      <4>4. \A f : Bid(f) <=> f * b <= a /\ a < (f + 1) * b
        BY <4>1 DEF a, b
      <4>5. v = e
        BY <4>1 DEF a, b, e
      <4>6. \A f \in 0 .. a : f \in Nat
        BY <4>2
      <4> HIDE DEF Bid, v
      <4>7. v \in 0 .. a /\ Bid(v) /\ \A f \in 0 .. a : Bid(f) => f = v
        BY <4>3, <4>4, <4>5, <4>6, Zenon
      <4> QED
        BY <4>7 DEF a
    <3> QED
      BY <1>2, <3>1, <3>2
  <2> HIDE DEF Bid, v
  <2>3. FeeAt(x) = v
    BY <2>1, <2>2
  <2> QED
    BY <2>3 DEF v
<1>5. IsAbout(tx) => FeeOf(kind, tx) \in Nat
  <2>1. CASE kind = "soroban"
    BY <1>1, <2>1 DEF IsAbout, FeeOf
  <2>2. CASE kind = "classic"
    <3> SUFFICES ASSUME IsAbout(tx) PROVE FeeOf(kind, tx) \in Nat
      OBVIOUS
    <3>1. tx.ops \in Nat \ {0} /\ tx.charged \in Nat /\ FeeOf(kind, tx) = tx.charged \div tx.ops
      BY <1>1, <2>2 DEF IsAbout, FeeOf
    <3>2. tx.charged \div tx.ops \in 0 .. tx.charged
      BY <3>1, Quotient
    <3> QED
      BY <3>1, <3>2
  <2> QED
    BY <1>2, <2>1, <2>2
<1> QED
  BY <1>3, <1>4, <1>5 DEF tx

(* IngestFees lists the fees of a ledger's transactions of the kind.        *)
LEMMA IngestFeesFacts ==
    ASSUME kind \in Kinds, NEW txs \in TxLists
    PROVE  LET fees == IngestFees(kind, txs)
           IN  /\ fees \in Seq(Nat)
               /\ \E q \in Bijection(1 .. Len(fees), {j \in DOMAIN txs : IsAbout(txs[j])}) :
                     \A a \in 1 .. Len(fees) : fees[a] = FeeOf(kind, txs[q[a]])
<1> DEFINE S == {j \in DOMAIN txs : IsAbout(txs[j])}
           n == Cardinality(S)
           q == Ascending(S)
           fees == IngestFees(kind, txs)
<1>1. S \in SUBSET Nat /\ IsFiniteSet(S) /\ DOMAIN txs \subseteq Nat
  <2>1. txs \in Seq(Transaction)
    BY TransactionsOfTheNetwork
  <2>2. DOMAIN txs = 1 .. Len(txs) /\ Len(txs) \in Nat
    BY <2>1
  <2>3. S \subseteq 1 .. Len(txs) /\ IsFiniteSet(1 .. Len(txs))
    BY <2>2, FS_Interval
  <2>4. IsFiniteSet(S)
    BY <2>3, FS_Subset
  <2> QED
    BY <2>2, <2>3, <2>4
<1>2. S = {j \in DOMAIN txs : Counted(kind, txs[j])}
  BY FeeOfFacts
<1>3. fees = [j \in DOMAIN q |-> FeeOf(kind, txs[q[j]])]
  BY <1>2 DEF IngestFees
<1>4. \A j \in S : FeeOf(kind, txs[j]) \in Nat
  BY FeeOfFacts
<1> HIDE DEF S, q, fees
<1>5. n \in Nat /\ q \in Bijection(1 .. n, S)
  BY <1>1, AscendingFacts, FS_CardinalityType DEF q
<1>6. q \in [1 .. n -> S]
  BY <1>5 DEF Bijection, Injection
<1>7. fees \in [1 .. n -> Nat] /\ \A a \in 1 .. n : fees[a] = FeeOf(kind, txs[q[a]])
  BY <1>3, <1>4, <1>6
<1> HIDE DEF n
<1>8. fees \in Seq(Nat) /\ Len(fees) = n
  BY <1>5, <1>7, SeqDef, LenProperties
<1> QED
  BY <1>5, <1>7, <1>8 DEF fees, S

(* What the window reports of the fees in its buckets is what the ledgers   *)
(* of the window hold.                                                      *)
LEMMA WindowHoldsTheLatest ==
    ASSUME FeeInv
    PROVE  DistributionOfLatest
<1> DEFINE n == Len(buckets)
           m == Len(accepted)
           f0 == m - n
           About(txs) == {j \in DOMAIN txs : IsAbout(txs[j])}
           Part(l) == {<<l, j>> : j \in About(accepted[l])}
           P == [i \in 1 .. n |-> Part(f0 + i)]
           U == Current
           show == [x \in U |-> FeeAt(x)]
           lists == [i \in 1 .. n |-> GetFrom(buckets, start, i - 1).content]
           fees == AllFees(buckets, start)
<1>1. n \in Nat /\ m \in Nat /\ n <= m /\ f0 \in Nat
        /\ f0 + 1 = (IF m > Capacity THEN m - Capacity + 1 ELSE 1)
  <2>1. n \in Nat /\ m \in Nat /\ n = (IF m < Capacity THEN m ELSE Capacity)
    <3>1. buckets \in Seq(Bucket) /\ accepted \in Seq(TxLists)
      BY DEF FeeInv, RingInv
    <3>2. n = (IF m < Capacity THEN m ELSE Capacity)
      BY DEF FeeInv
    <3> QED
      BY <3>1, <3>2
  <2> HIDE DEF n, m
  <2> QED
    BY <2>1, CapacityIsPositive
<1>2. accepted \in Seq(TxLists) /\ kind \in Kinds
        /\ distribution = computeFeeDistribution(fees, n)
  BY DEF FeeInv
<1>3. \A i \in 1 .. n : f0 + i \in f0 + 1 .. m /\ f0 + i \in 1 .. m /\ accepted[f0 + i] \in TxLists
  <2>1. \A i \in 1 .. n : f0 + i \in f0 + 1 .. m /\ f0 + i \in 1 .. m
    BY <1>1
  <2>2. \A l \in 1 .. m : accepted[l] \in TxLists
    BY <1>2
  <2> HIDE DEF n, m, f0
  <2> QED
    BY <2>1, <2>2
<1>4. Current = UNION {Part(l) : l \in f0 + 1 .. m}
  BY <1>1 DEF Current
<1>5. UNION {P[i] : i \in 1 .. n} = Current
  <2>1. \A l \in f0 + 1 .. m : l - f0 \in 1 .. n /\ f0 + (l - f0) = l
    BY <1>1
  <2>2. \A i \in 1 .. n : P[i] = Part(f0 + i)
    OBVIOUS
  <2> HIDE DEF Part, P, n, m, f0
  <2>3. \A l \in f0 + 1 .. m : Part(l) = P[l - f0]
    BY <2>1, <2>2
  <2> QED
    BY <1>3, <1>4, <2>1, <2>2, <2>3
<1>6. lists = [i \in 1 .. n |-> IngestFees(kind, accepted[f0 + i])]
  <2>1. \A i \in 1 .. n : GetFrom(buckets, start, i - 1).content = IngestFees(kind, accepted[f0 + i])
    BY DEF FeeInv, Unrolled, Get
  <2> QED
    BY <2>1
<1>7. \A i \in 1 .. n : /\ lists[i] \in Seq(Nat)
                        /\ \E q \in Bijection(1 .. Len(lists[i]), P[i]) :
                              \A a \in 1 .. Len(lists[i]) : lists[i][a] = show[q[a]]
  <2> SUFFICES ASSUME NEW i \in 1 .. n
               PROVE  /\ lists[i] \in Seq(Nat)
                      /\ \E q \in Bijection(1 .. Len(lists[i]), P[i]) :
                            \A a \in 1 .. Len(lists[i]) : lists[i][a] = show[q[a]]
    OBVIOUS
  <2> DEFINE l == f0 + i
             txs == accepted[l]
             S == About(txs)
             ls == lists[i]
             D == 1 .. Len(ls)
  <2>1. ls = IngestFees(kind, txs) /\ P[i] = Part(l) /\ P[i] \subseteq Current
    BY <1>5, <1>6
  <2>2. txs \in TxLists /\ txs = accepted[l]
    BY <1>3
  <2>s. S = {j \in DOMAIN txs : IsAbout(txs[j])} /\ Part(l) = {<<l, j>> : j \in S}
    OBVIOUS
  <2> HIDE DEF l, txs, ls, n, m, f0, P, Part, lists, S, U
  <2>3. ls \in Seq(Nat) /\ \E q \in Bijection(D, S) : \A a \in D : ls[a] = FeeOf(kind, txs[q[a]])
    <3> DEFINE g == IngestFees(kind, txs)
               T == {j \in DOMAIN txs : IsAbout(txs[j])}
    <3>1. g \in Seq(Nat) /\ \E q \in Bijection(1 .. Len(g), T) :
                              \A a \in 1 .. Len(g) : g[a] = FeeOf(kind, txs[q[a]])
      BY <1>2, <2>2, IngestFeesFacts
    <3>2. ls = g /\ S = T
      BY <2>1, <2>s
    <3> HIDE DEF g, T
    <3> QED
      BY <3>1, <3>2
  <2>4. PICK q \in Bijection(D, S) : \A a \in D : ls[a] = FeeOf(kind, txs[q[a]])
    BY <2>3
  <2> HIDE DEF D
  <2>5. q \in [D -> S] /\ (\A a, b \in D : q[a] = q[b] => a = b) /\ \A j \in S : \E a \in D : q[a] = j
    BY <2>4 DEF Bijection, Injection, Surjection, IsInjective
  <2> DEFINE r == [a \in D |-> <<l, q[a]>>]
  <2>6. r \in Bijection(D, P[i])
    <3>1. r \in [D -> P[i]]
      BY <2>1, <2>5, <2>s
    <3>2. \A a, b \in D : r[a] = r[b] => a = b
      BY <2>5
    <3>3. \A x \in P[i] : \E a \in D : r[a] = x
      BY <2>1, <2>5, <2>s
    <3> QED
      BY <3>1, <3>2, <3>3 DEF Bijection, Injection, Surjection, IsInjective
  <2>7. ASSUME NEW a \in D PROVE ls[a] = show[r[a]]
    <3>1. q[a] \in DOMAIN txs /\ IsAbout(txs[q[a]])
      BY <2>5, <2>s
    <3>2. r[a] = <<l, q[a]>> /\ r[a] \in U
      BY <2>1, <2>5, <2>s DEF U
    <3>3. accepted[r[a][1]][r[a][2]] = txs[q[a]]
      BY <2>2, <3>2
    <3>4. FeeAt(r[a]) = FeeOf(kind, txs[q[a]])
      BY <1>2, <2>2, <3>1, <3>3, FeeOfFacts
    <3> QED
      BY <2>4, <3>2, <3>4
  <2> QED
    BY <2>3, <2>6, <2>7 DEF ls, D
<1>8. \A i, j \in 1 .. n : i # j => P[i] \cap P[j] = {}
  <2>1. \A i, j \in 1 .. n : i # j => f0 + i # f0 + j
    BY <1>1
  <2>2. \A k, l : k # l => Part(k) \cap Part(l) = {}
    OBVIOUS
  <2>3. \A i \in 1 .. n : P[i] = Part(f0 + i)
    OBVIOUS
  <2> HIDE DEF P, Part, n, f0
  <2> QED
    BY <2>1, <2>2, <2>3
<1>9. lists \in Seq(Seq(Nat)) /\ Len(lists) = n
  <2>1. lists \in [1 .. n -> Seq(Nat)]
    BY <1>7
  <2> HIDE DEF n, lists
  <2> QED
    BY <1>1, <2>1, SeqDef, LenProperties
<1>10. fees = Appended(lists)
  BY DEF AllFees
<1>11. P \in [1 .. n -> SUBSET U]
  BY <1>5
<1> HIDE DEF n, m, f0, P, Part, About, lists, fees, U, show
<1>12. fees \in Seq(Nat) /\ Shows(fees, Len(fees), U, show)
  <2>1. U = UNION {P[i] : i \in 1 .. n}
    BY <1>5 DEF U
  <2> DEFINE k == Len(lists)
             V == Nat
             all == Appended(lists)
  <2>2. lists \in Seq(Seq(V)) /\ k = n /\ P \in [1 .. k -> SUBSET U]
    BY <1>9, <1>11
  <2>3. \A i, j \in 1 .. k : i # j => P[i] \cap P[j] = {}
    BY <1>8, <2>2
  <2>4. \A i \in 1 .. k : Shows(lists[i], Len(lists[i]), P[i], show)
    BY <1>7, <2>2 DEF Shows
  <2> HIDE DEF V
  <2>5. all \in Seq(V) /\ Shows(all, Len(all), UNION {P[i] : i \in 1 .. k}, show)
    BY <2>2, <2>3, <2>4, AppendedFacts
  <2> HIDE DEF k, all
  <2>6. U = UNION {P[i] : i \in 1 .. k} /\ fees = all
    BY <1>10, <2>1, <2>2 DEF all
  <2> QED
    BY <2>5, <2>6 DEF V
<1>13. IsDistribution(distribution, U, show, n)
  BY <1>2, <1>12, DistributionFacts
<1>14. U = Current /\ \A x \in Current : show[x] = FeeAt(x)
  BY DEF U, show
<1>15. {show[x] : x \in U} = {FeeAt(x) : x \in Current}
         /\ \A v : /\ TimesIn(U, show, v) = Cardinality({x \in Current : FeeAt(x) = v})
                   /\ AtMostIn(U, show, v) = Cardinality({x \in Current : FeeAt(x) <= v})
  <2>1. {show[x] : x \in U} = {FeeAt(x) : x \in Current}
    BY <1>14
  <2>2. \A v : {x \in U : show[x] = v} = {x \in Current : FeeAt(x) = v}
                 /\ {x \in U : show[x] <= v} = {x \in Current : FeeAt(x) <= v}
    BY <1>14
  <2> QED
    BY <2>1, <2>2 DEF TimesIn, AtMostIn
<1>16. DistributionOfLatest
  <2> DEFINE values == {FeeAt(x) : x \in Current}
             T(v) == Cardinality({x \in Current : FeeAt(x) = v})
             A(v) == Cardinality({x \in Current : FeeAt(x) <= v})
             d == distribution
             total == Cardinality(Current)
             Most == {v \in values : \A w \in values : T(w) <= T(v)}
             Enough(p) == {v \in values : 100 * A(v) >= p * total}
  <2>1. {show[x] : x \in U} = values /\ U = Current
          /\ \A v : TimesIn(U, show, v) = T(v) /\ AtMostIn(U, show, v) = A(v)
    BY <1>14, <1>15
  <2> HIDE DEF values, T, A
  <2>2. {v \in values : \A w \in values : TimesIn(U, show, w) <= TimesIn(U, show, v)} = Most
    BY <2>1
  <2>3. \A p : {v \in values : 100 * AtMostIn(U, show, v) >= p * total} = Enough(p)
    BY <2>1
  <2>4. /\ d.feeCount = total
        /\ total # 0 =>
             /\ d.ledgerCount = n
             /\ IsLeast(d.min, values)
             /\ d.max \in values /\ \A v \in values : v <= d.max
             /\ IsLeast(d.mode, Most)
             /\ \A p \in Percentiles : IsLeast(d.rank[p], Enough(p))
    <3>1. /\ d.feeCount = Cardinality(U)
          /\ Cardinality(U) # 0 =>
               /\ d.ledgerCount = n
               /\ IsLeast(d.min, values)
               /\ d.max \in values /\ \A v \in values : v <= d.max
               /\ IsLeast(d.mode, {v \in values : \A w \in values : TimesIn(U, show, w) <= TimesIn(U, show, v)})
               /\ \A p \in Percentiles :
                     IsLeast(d.rank[p], {v \in values : 100 * AtMostIn(U, show, v) >= p * Cardinality(U)})
      BY <1>13, <2>1, Zenon DEF IsDistribution
    <3>2. Cardinality(U) = total
      BY <2>1
    <3> HIDE DEF Most, Enough, total
    <3> QED
      BY <2>2, <2>3, <3>1, <3>2, Zenon
  <2> QED
    BY <2>4, Zenon DEF IsLeast, DistributionOfLatest, n, values, T, A
<1> QED
  BY <1>16

(* The invariant holds at the start.                                        *)
LEMMA FeeInitInv == FeeInit => FeeInv
<1> SUFFICES ASSUME FeeInit PROVE FeeInv
  OBVIOUS
<1>1. RingInv /\ kind \in Kinds /\ accepted = <<>> /\ buckets = <<>>
        /\ start = 0 /\ distribution = NoDistribution
  BY RingInitInv DEF FeeInit, RingInit
<1>2. Len(buckets) = 0 /\ Len(accepted) = 0 /\ accepted \in Seq(TxLists) /\ 1 .. 0 = {}
  BY <1>1
<1>3. AllFees(buckets, start) = <<>>
  <2> DEFINE lists == [i \in 1 .. Len(buckets) |-> GetFrom(buckets, start, i - 1).content]
  <2>1. lists = <<>>
    BY <1>2
  <2>2. AllFees(buckets, start) = Appended(lists)
    BY DEF AllFees
  <2> HIDE DEF lists
  <2>3. lists \in Seq(Seq(Nat)) /\ Len(lists) = 0
    BY <2>1
  <2>4. AppendedUpTo(lists)[0] = <<>>
    BY <2>3, AppendingLoop
  <2> QED
    BY <2>2, <2>3, <2>4 DEF Appended
<1>4. distribution = computeFeeDistribution(AllFees(buckets, start), Len(buckets))
  BY <1>1, <1>3 DEF computeFeeDistribution
<1>5. Len(buckets) = IF Len(accepted) < Capacity THEN Len(accepted) ELSE Capacity
  BY <1>2, CapacityIsPositive
<1> QED
  BY <1>1, <1>2, <1>4, <1>5 DEF FeeInv

(* A ledger that is appended keeps it: the fees of the ledger come last and *)
(* those of the oldest one leave a full window.                             *)
LEMMA AppendKeepsFees ==
    ASSUME FeeInv, NEW l \in Ledgers, NEW txs \in TxLists,
           AppendLedgerFees([seq |-> l, content |-> IngestFees(kind, txs)]),
           accepted' = Append(accepted, txs), UNCHANGED kind
    PROVE  FeeInv'
<1> DEFINE b == [seq |-> l, content |-> IngestFees(kind, txs)]
           n == Len(buckets)
           m == Len(accepted)
           u == Unrolled
           v == Unrolled'
           Fees(i) == IngestFees(kind, accepted[m - n + i])
<1>1. b \in Bucket /\ b.content = IngestFees(kind, txs)
  BY BucketsHoldFees DEF FeeInv, Bucket
<1>2. AppendBucket(b)
        /\ distribution' = computeFeeDistribution(AllFees(buckets, start)', Len(buckets)')
  BY DEF AppendLedgerFees, AllFees, GetFrom
<1> HIDE DEF b
<1>3. RingInv' /\ Window!Push(b)
  BY <1>1, <1>2, AppendPushes DEF FeeInv
<1>4. v = Append(IF Len(u) < Capacity THEN u ELSE Tail(u), b)
  BY <1>3 DEF Window!Push
<1>5. /\ n \in Nat /\ m \in Nat /\ n = (IF m < Capacity THEN m ELSE Capacity)
      /\ accepted \in Seq(TxLists) /\ buckets \in Seq(Bucket) /\ buckets' \in Seq(Bucket)
      /\ Capacity \in Nat \ {0}
  BY <1>3, CapacityIsPositive DEF FeeInv, RingInv
<1>6. u \in Seq(Bucket) /\ Len(u) = n
  <2>1. start \in Nat /\ (n > 0 => start \in 0 .. n - 1)
    BY <1>5 DEF FeeInv, RingInv
  <2>2. u = [i \in 1 .. n |-> GetFrom(buckets, start, i - 1)]
    BY DEF Unrolled, Get
  <2> QED
    BY <1>5, <2>1, <2>2, UnrolledIsSeq
<1>7. Len(v) = Len(buckets')
  <2>1. v = [i \in 1 .. Len(buckets') |-> GetFrom(buckets', start', i - 1)]
    BY DEF Unrolled, Get
  <2> QED
    BY <1>5, <2>1
<1>8. \A i \in 1 .. n : u[i].content = Fees(i)
  BY DEF FeeInv
<1>9. /\ accepted' \in Seq(TxLists) /\ Len(accepted') = m + 1 /\ accepted'[m + 1] = txs
      /\ \A j \in 1 .. m : accepted'[j] = accepted[j]
  BY <1>5
<1> HIDE DEF n, m, u, v
<1>10. /\ Len(v) = IF m + 1 < Capacity THEN m + 1 ELSE Capacity
       /\ \A i \in 1 .. Len(v) : v[i].content = IngestFees(kind, accepted'[m + 1 - Len(v) + i])
  <2>1. CASE n < Capacity
    <3>1. v = Append(u, b) /\ n = m /\ m < Capacity
      BY <1>4, <1>5, <1>6, <2>1
    <3>2. Len(v) = m + 1 /\ v[m + 1] = b /\ \A i \in 1 .. m : v[i] = u[i]
      BY <1>1, <1>6, <3>1
    <3>3. m + 1 = IF m + 1 < Capacity THEN m + 1 ELSE Capacity
      BY <1>5, <3>1
    <3>4. ASSUME NEW i \in 1 .. m + 1
          PROVE  v[i].content = IngestFees(kind, accepted'[m + 1 - (m + 1) + i])
      <4>1. m + 1 - (m + 1) + i = i /\ (i = m + 1 \/ i \in 1 .. m)
        BY <1>5
      <4>2. CASE i = m + 1
        BY <1>1, <1>9, <3>2, <4>1, <4>2
      <4>3. CASE i \in 1 .. m
        <5>1. m - n + i = i /\ i \in 1 .. n
          BY <1>5, <3>1, <4>3
        <5> QED
          BY <1>8, <1>9, <3>2, <4>1, <4>3, <5>1
      <4> QED
        BY <4>1, <4>2, <4>3
    <3> QED
      BY <3>2, <3>3, <3>4
  <2>2. CASE ~(n < Capacity)
    <3>1. v = Append(Tail(u), b) /\ n = Capacity /\ m >= n /\ n >= 1
      BY <1>4, <1>5, <1>6, <2>2
    <3>2. /\ Len(v) = n /\ v[n] = b
          /\ \A i \in 1 .. n - 1 : v[i] = u[i + 1]
      <4>1. Tail(u) \in Seq(Bucket) /\ Len(Tail(u)) = n - 1 /\ \A i \in 1 .. n - 1 : Tail(u)[i] = u[i + 1]
        BY <1>5, <1>6, <3>1
      <4> DEFINE t == Tail(u)
      <4> HIDE DEF t
      <4>2. t \in Seq(Bucket) /\ Len(t) = n - 1 /\ (\A i \in 1 .. n - 1 : t[i] = u[i + 1]) /\ v = Append(t, b)
        BY <3>1, <4>1 DEF t
      <4>3. Len(v) = n - 1 + 1 /\ v[n - 1 + 1] = b /\ \A i \in 1 .. n - 1 : v[i] = t[i]
        BY <1>1, <4>2
      <4>4. n - 1 + 1 = n
        BY <1>5
      <4> QED
        BY <4>2, <4>3, <4>4
    <3>3. n = IF m + 1 < Capacity THEN m + 1 ELSE Capacity
      BY <1>5, <3>1
    <3>4. ASSUME NEW i \in 1 .. n
          PROVE  v[i].content = IngestFees(kind, accepted'[m + 1 - n + i])
      <4>1. i = n \/ i \in 1 .. n - 1
        BY <1>5
      <4>2. CASE i = n
        <5>1. m + 1 - n + i = m + 1
          BY <1>5, <4>2
        <5> QED
          BY <1>1, <1>9, <3>2, <4>2, <5>1
      <4>3. CASE i \in 1 .. n - 1
        <5>1. m + 1 - n + i = m - n + (i + 1) /\ i + 1 \in 1 .. n /\ m - n + (i + 1) \in 1 .. m
          BY <1>5, <3>1, <4>3
        <5>2. v[i].content = Fees(i + 1)
          BY <1>8, <3>2, <4>3, <5>1
        <5> QED
          BY <1>9, <5>1, <5>2
      <4> QED
        BY <4>1, <4>2, <4>3
    <3> QED
      BY <3>2, <3>3, <3>4
  <2> QED
    BY <2>1, <2>2
<1>11. Len(buckets') = IF Len(accepted') < Capacity THEN Len(accepted') ELSE Capacity
  BY <1>7, <1>9, <1>10
<1>12. \A i \in 1 .. Len(buckets') :
          v[i].content = IngestFees(kind', accepted'[Len(accepted') - Len(buckets') + i])
  <2>1. kind' = kind
    OBVIOUS
  <2>2. Len(accepted') = m + 1 /\ Len(buckets') = Len(v)
    BY <1>7, <1>9
  <2>3. Len(v) \in Nat /\ \A i \in 1 .. Len(v) : m + 1 - Len(v) + i = (m + 1) - Len(v) + i
    BY <1>5, <1>10
  <2> QED
    BY <1>10, <2>1, <2>2, <2>3, Zenon
<1>13. kind' \in Kinds /\ accepted' \in Seq(TxLists)
  BY <1>9 DEF FeeInv
<1> QED
  BY <1>2, <1>3, <1>11, <1>12, <1>13 DEF FeeInv, v

(* Every step of the fee window keeps it.                                   *)
LEMMA FeeNextInv ==
    ASSUME FeeInv, [FeeNext]_feeVars
    PROVE  FeeInv'
<1>1. ASSUME UNCHANGED feeVars PROVE FeeInv'
  BY <1>1 DEF feeVars, ringVars, FeeInv, RingInv, RingContiguous, Unrolled, Get, AllFees
<1>2. ASSUME NEW l \in Ledgers, NEW txs \in TxLists,
             AppendLedgerFees([seq |-> l, content |-> IngestFees(kind, txs)]),
             accepted' = Append(accepted, txs), UNCHANGED kind
      PROVE  FeeInv'
  BY <1>2, AppendKeepsFees
<1>3. ASSUME NEW b, RefuseBucket(b), UNCHANGED <<kind, distribution, accepted>>
      PROVE  UNCHANGED feeVars
  BY <1>3 DEF RefuseBucket, feeVars
<1> QED
  BY <1>1, <1>2, <1>3 DEF FeeNext

(* What getFeeStats reports is the distribution of the fees that exactly    *)
(* the transactions of its kind in the latest ledgers bid, for every        *)
(* retention window, all ledgers and all percentiles (AppendLedgerFees,     *)
(* computeFeeDistribution, IngestFees).                                     *)
THEOREM FeeStatsAreOfTheLatest == FeeSpec => []DistributionOfLatest
<1>1. FeeInv /\ [FeeNext]_feeVars => FeeInv'
  BY FeeNextInv
<1>2. FeeInv => DistributionOfLatest
  BY WindowHoldsTheLatest
<1> QED
  BY FeeInitInv, <1>1, <1>2, PTL DEF FeeSpec
=============================================================================
