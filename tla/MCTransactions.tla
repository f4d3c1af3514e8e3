--------------------------- MODULE MCTransactions ---------------------------
(***************************************************************************)
(* Transactions for TLC: two ids and one payload, up to two imported       *)
(* inputs over two UTXOs, so that inputs can repeat and be out of order,   *)
(* and up to two outputs, initial states, outputs of a state and           *)
(* operations, so that an index taken from the place in a list and one     *)
(* taken from the length of the whole differ.                              *)
(***************************************************************************)
EXTENDS Transactions

MCIDs == {"id1", "id2"}
MCPayloads == {"out"}
=============================================================================
