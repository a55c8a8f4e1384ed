---------------------------- MODULE MCPagination ----------------------------
(* Small instances of Pagination for TLC.                                   *)
EXTENDS Pagination

(* Ledgers without transactions, with a transaction that has no event, and  *)
(* with two transactions and three events.                                  *)
MCContents == {<<>>, <<0>>, <<2, 1>>}
=============================================================================
