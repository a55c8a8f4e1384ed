------------------------- MODULE LedgerBucketWindow -------------------------
(***************************************************************************)
(* LedgerBucketWindow (ledgerbucketwindow/ledgerbucketwindow.go): a circular *)
(* buffer of buckets, one for each of the latest ledgers.  Sequence numbers *)
(* are not bounded here: the network is far from its 2^32nd ledger.         *)
(***************************************************************************)
EXTENDS Naturals, Sequences

CONSTANTS
    Capacity,   \* retentionWindow given to NewLedgerBucketWindow
    Ledgers,    \* sequence numbers of the ledgers that may be appended
    Content     \* what a bucket may hold

ASSUME CapacityIsPositive == Capacity \in Nat \ {0}

ASSUME LedgersAreNumbers == Ledgers \subseteq Nat

VARIABLES
    buckets,    \* the circular buffer
    start       \* index of its head, counted from 0

ringVars == <<buckets, start>>

Bucket == [seq : Ledgers, content : Content]

RingInit == buckets = <<>> /\ start = 0

(* Get(i) of the window that has its buckets in bs and its head at st.      *)
GetFrom(bs, st, i) == bs[((st + i) % Len(bs)) + 1]

Get(i) == GetFrom(buckets, start, i)

(* The check of Append.                                                     *)
Expected(b) == buckets # <<>> => buckets[start + 1].seq + Len(buckets) = b.seq

(* Mutant: the head is not moved.                                           *)
AppendWithoutShift(b) ==
    /\ Expected(b)
    /\ buckets' = IF Len(buckets) < Capacity THEN Append(buckets, b)
                  ELSE [buckets EXCEPT ![start + 1] = b]
    /\ UNCHANGED start

(* Append: a full buffer has its head overwritten, which becomes its tail.  *)
AppendBucket(b) ==
    /\ Expected(b)
    /\ IF Len(buckets) < Capacity
       THEN /\ buckets' = Append(buckets, b)
            /\ UNCHANGED start
       ELSE /\ buckets' = [buckets EXCEPT ![start + 1] = b]
            /\ start' = (start + 1) % Len(buckets)

(* A ledger that does not follow is refused.                                *)
RefuseBucket(b) == ~Expected(b) /\ UNCHANGED ringVars

RingNext == \E b \in Bucket : AppendBucket(b) \/ RefuseBucket(b)

RingSpec == RingInit /\ [][RingNext]_ringVars

-----------------------------------------------------------------------------
(* GetLedgerRange and Get(0) .. Get(Len - 1) always show consecutive        *)
(* ledgers, wherever the head of the buffer is.                             *)
RingContiguous ==
    \A i \in 1 .. Len(buckets) : Get(i - 1).seq = Get(0).seq + (i - 1)

(* The window as its users read it.                                         *)
Unrolled == [i \in 1 .. Len(buckets) |-> Get(i - 1)]

(* The buffer implements a sliding window: Append never loses, repeats or   *)
(* reorders a ledger of the window.                                         *)
Window == INSTANCE SlidingWindow WITH window <- Unrolled

RingRefinesWindow == Window!WindowSpec
=============================================================================
