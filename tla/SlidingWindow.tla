---------------------------- MODULE SlidingWindow ----------------------------
(***************************************************************************)
(* What LedgerBucketWindow promises: the buckets of the latest ledgers, at  *)
(* most Capacity of them, oldest first and without a gap.                   *)
(***************************************************************************)
EXTENDS Naturals, Sequences

CONSTANTS
    Capacity,   \* retentionWindow given to NewLedgerBucketWindow
    Ledgers,    \* sequence numbers of ledgers
    Content     \* what a bucket may hold

VARIABLE window

Bucket == [seq : Ledgers, content : Content]

WindowInit == window = <<>>

(* The next ledger comes in; the oldest one leaves a full window.           *)
Push(b) ==
    /\ window # <<>> => b.seq = window[Len(window)].seq + 1
    /\ window' = Append(IF Len(window) < Capacity THEN window ELSE Tail(window), b)

WindowNext == \E b \in Bucket : Push(b)

WindowSpec == WindowInit /\ [][WindowNext]_window
=============================================================================
