----------------------------- MODULE MCFeeWindow -----------------------------
(* A small instance of FeeWindow for TLC.                                   *)
EXTENDS FeeWindow

Classic(ops, charged) ==
    [ops |-> ops, soroban |-> FALSE, ext |-> FALSE, charged |-> charged,
     nonRefundable |-> 0, refundable |-> 0]

(* A Soroban transaction whose bid to be included is the given fee.         *)
Soroban(fee, nonRefundable, refundable) ==
    [ops |-> 1, soroban |-> TRUE, ext |-> TRUE, charged |-> fee + nonRefundable + refundable,
     nonRefundable |-> nonRefundable, refundable |-> refundable]

WithoutExt(tx) == [tx EXCEPT !.ext = FALSE]

(* Ledgers with up to three fees of a kind; fees that are not divisible by  *)
(* the number of operations, no operations, and Soroban fees that are not   *)
(* reported.                                                                *)
MCTxLists ==
    {<<>>,
     <<Classic(1, 1), Soroban(0, 2, 1)>>,
     <<Soroban(3, 1, 0), Classic(2, 7), Classic(0, 1), WithoutExt(Soroban(1, 1, 1))>>,
     <<Classic(1, 2), Soroban(2, 0, 2), Classic(3, 5), Soroban(1, 1, 0)>>,
     <<Soroban(2, 1, 1), Classic(1, 2), Soroban(2, 2, 0), Classic(2, 4), Soroban(3, 0, 1),
       Classic(1, 3)>>,
     <<Classic(3, 11), Soroban(3, 2, 2), Classic(1, 1), Soroban(1, 0, 0), Classic(2, 6),
       Soroban(3, 0, 1)>>}

MCContent == {IngestFees(k, txs) : k \in Kinds, txs \in MCTxLists}
=============================================================================
