------------------------------ MODULE FeeWindow ------------------------------
(***************************************************************************)
(* A fee window (feewindow/feewindow.go): the fees of the latest ledgers in *)
(* a LedgerBucketWindow, and their distribution, computed anew whenever a   *)
(* ledger is appended.  The program has two windows, which are given the    *)
(* same ledgers and take different fees of them; this is either of them.    *)
(* A transaction is a record of its number of operations, whether its       *)
(* operation is one of the three of Soroban, whether its meta carries the   *)
(* resource fees (SorobanMeta with Ext.V = 1), and of what it was charged.  *)
(***************************************************************************)
EXTENDS LedgerBucketWindow, Listings

CONSTANTS
    Percentiles,    \* those that are reported
    TxLists         \* what a ledger may hold: sequences of transactions

Kinds == {"classic", "soroban"}

ASSUME PercentilesOfAll == Percentiles \subseteq 1 .. 100

Transaction ==
    [ops : Nat, soroban : BOOLEAN, ext : BOOLEAN, charged : Nat, nonRefundable : Nat, refundable : Nat]

(* An operation of Soroban is the only one of its transaction, and resource *)
(* fees are part of the fee charged.                                        *)
ASSUME TransactionsOfTheNetwork ==
    \A txs \in TxLists :
        /\ txs \in Seq(Transaction)
        /\ \A i \in DOMAIN txs : txs[i].soroban =>
              txs[i].ops = 1 /\ txs[i].nonRefundable + txs[i].refundable <= txs[i].charged

VARIABLES
    kind,           \* SorobanInclusionFeeWindow or ClassicFeeWindow
    distribution,   \* FeeWindow.distribution
    accepted        \* transactions of all ledgers accepted so far (history)

feeVars == <<ringVars, kind, distribution, accepted>>

NoDistribution == [max |-> 0, min |-> 0, mode |-> 0, rank |-> [p \in Percentiles |-> 0],
                   feeCount |-> 0, ledgerCount |-> 0]

-----------------------------------------------------------------------------
(* The loop over the sorted fees: what it has after each of them.           *)
ModeStep(m, fee) ==
    IF fee = m.last THEN [m EXCEPT !.repeated = @ + 1]
    ELSE [mode |-> IF m.repeated > m.most THEN m.last ELSE m.mode,
          most |-> IF m.repeated > m.most THEN m.repeated ELSE m.most,
          last |-> fee, repeated |-> 0]

ModeLoop(fees) ==
    LET after[i \in DOMAIN fees] ==
          IF i = 1 THEN [mode |-> fees[1], most |-> 0, last |-> fees[1], repeated |-> 0]
          ELSE ModeStep(after[i - 1], fees[i])
    IN  after

(* Mutant: the last cluster is not looked at after the loop.                *)
ModeOfSortedDroppingLast(fees) == ModeLoop(fees)[Len(fees)].mode

(* The last cluster of fees is looked at after the loop.                    *)
ModeOfSorted(fees) ==
    LET end == ModeLoop(fees)[Len(fees)]
    IN  IF end.repeated > end.most THEN fees[Len(fees)] ELSE end.mode

(* Nearest rank, rounded up.                                                *)
KthOf(p, count) == (p * count + 100 - 1) \div 100

computeFeeDistribution(fees, ledgerCount) ==
    IF fees = <<>> THEN NoDistribution
    ELSE LET sorted == Sorted(fees)
         IN  [max |-> sorted[Len(fees)], min |-> sorted[1], mode |-> ModeOfSorted(sorted),
              rank |-> [p \in Percentiles |-> sorted[KthOf(p, Len(fees))]],
              feeCount |-> Len(fees), ledgerCount |-> ledgerCount]

(* The loop over a ledger's transactions: the inclusion fee of a Soroban    *)
(* transaction, the fee per operation of any other.  One without operations *)
(* is skipped, and so is a Soroban one whose meta does not tell its fees.   *)
IsSoroban(tx) == tx.ops = 1 /\ tx.soroban

Counted(k, tx) ==
    IF k = "soroban" THEN IsSoroban(tx) /\ tx.ext ELSE tx.ops # 0 /\ ~IsSoroban(tx)

FeeOf(k, tx) ==
    IF k = "soroban" THEN tx.charged - (tx.nonRefundable + tx.refundable)
    ELSE tx.charged \div tx.ops

IngestFees(k, txs) ==
    LET taken == Ascending({i \in DOMAIN txs : Counted(k, txs[i])})
    IN  [j \in DOMAIN taken |-> FeeOf(k, txs[taken[j]])]

ASSUME BucketsHoldFees == \A k \in Kinds, txs \in TxLists : IngestFees(k, txs) \in Content

(* AppendLedgerFees: Append, then the fees of Get(0) .. Get(Len - 1).       *)
AllFees(bs, st) == Appended([i \in 1 .. Len(bs) |-> GetFrom(bs, st, i - 1).content])

AppendLedgerFees(b) ==
    /\ AppendBucket(b)
    /\ \E allFees \in {AllFees(buckets', start')} :
          distribution' = computeFeeDistribution(allFees, Len(buckets'))

FeeInit == RingInit /\ kind \in Kinds /\ distribution = NoDistribution /\ accepted = <<>>

FeeNext ==
    \E l \in Ledgers, txs \in TxLists :
        LET b == [seq |-> l, content |-> IngestFees(kind, txs)]
        IN  \/ AppendLedgerFees(b) /\ accepted' = Append(accepted, txs) /\ UNCHANGED kind
            \/ RefuseBucket(b) /\ UNCHANGED <<kind, distribution, accepted>>

FeeSpec == FeeInit /\ [][FeeNext]_feeVars

-----------------------------------------------------------------------------
(* The transactions of the latest ledgers that this window is about, by     *)
(* ledger and position, and what such a transaction bid to be included:     *)
(* what it was charged beyond its resources, or the most that its           *)
(* operations each paid for.                                                *)
IsAbout(tx) ==
    \/ kind = "soroban" /\ tx.soroban /\ tx.ext
    \/ kind = "classic" /\ ~tx.soroban /\ tx.ops # 0

Current ==
    LET from == IF Len(accepted) > Capacity THEN Len(accepted) - Capacity + 1 ELSE 1
    IN  UNION {{<<l, i>> : i \in {j \in DOMAIN accepted[l] : IsAbout(accepted[l][j])}} :
               l \in from .. Len(accepted)}

FeeAt(x) ==
    LET tx == accepted[x[1]][x[2]]
    IN  CHOOSE f \in 0 .. tx.charged :
            IF tx.soroban THEN f + tx.nonRefundable + tx.refundable = tx.charged
            ELSE f * tx.ops <= tx.charged /\ tx.charged < (f + 1) * tx.ops

(* The distribution that getFeeStats reports is that of exactly the latest  *)
(* ledgers' transactions of its kind: the mode is the smallest of the most  *)
(* frequent fees, the p-th percentile the smallest fee that at least p      *)
(* percent of them do not exceed (IngestFees, computeFeeDistribution,       *)
(* AppendLedgerFees).                                                       *)
DistributionOfLatest ==
    LET values == {FeeAt(x) : x \in Current}
        Times(v) == Cardinality({x \in Current : FeeAt(x) = v})
        AtMost(v) == Cardinality({x \in Current : FeeAt(x) <= v})
        IsSmallest(v, S) == v \in S /\ \A w \in S : v <= w
        total == Cardinality(Current)
    IN  /\ distribution.feeCount = total
        /\ total # 0 =>
             /\ distribution.ledgerCount = Len(buckets)
             /\ IsSmallest(distribution.min, values)
             /\ distribution.max \in values /\ \A v \in values : v <= distribution.max
             /\ IsSmallest(distribution.mode,
                           {v \in values : \A w \in values : Times(w) <= Times(v)})
             /\ \A p \in Percentiles :
                   IsSmallest(distribution.rank[p], {v \in values : 100 * AtMost(v) >= p * total})
=============================================================================
