----------------------------- MODULE MCIngestion -----------------------------
(* Small instances of Ingestion for TLC.                                    *)
EXTENDS Ingestion

(* Either fee window is the larger one; the larger one fits each retention  *)
(* window of the runs.                                                      *)
MCFeeRetentions == {[classic |-> 1, soroban |-> 2], [classic |-> 2, soroban |-> 1]}
=============================================================================
