--------------------------- MODULE MCWalletBackend ---------------------------
(***************************************************************************)
(* WalletBackend for TLC: two goroutines and three transactions.  t1       *)
(* spends the genesis UTXO u0 and produces u1 and u2; t2 spends u1 and t3  *)
(* spends u2, so both can be handed to AcceptTx while t1 is still being    *)
(* applied.                                                                *)
(***************************************************************************)
EXTENDS WalletBackend, TLC

CONSTANTS p1, p2, t1, t2, t3, u0, u1, u2, u3

MCProcs == {p1, p2}
MCTxs == {t1, t2, t3}
MCInputIDs == (t1 :> {u0}) @@ (t2 :> {u1}) @@ (t3 :> {u2})
MCProduced == (t1 :> <<u1, u2>>) @@ (t2 :> <<u3>>) @@ (t3 :> <<>>)
MCGenesisUTXOs == {u0}
=============================================================================
