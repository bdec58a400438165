------------------------ MODULE MCRequestTransactions ------------------------
(* RequestTransactions with more requests that hold one connection and ask   *)
(* for another than the pool has connections to spare.                       *)
EXTENDS RequestTransactions
=============================================================================
