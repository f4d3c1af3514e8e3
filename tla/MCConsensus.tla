----------------------------- MODULE MCConsensus -----------------------------
(***************************************************************************)
(* Consensus for TLC.  Snowstorm and the vertex DAG: five txs.  A and B    *)
(* spend the same input; C and D spend another one and both build on A; E  *)
(* builds on A and C, so its two dependencies resolve at different times.  *)
(* Four vertices: V1 carries A, V2 the conflicting B; V3 builds on V1 and  *)
(* carries A again and C; V4 builds on V1 and V3 and carries D and E, and  *)
(* D conflicts with the C of its parent.                                   *)
(*                                                                         *)
(* Snowman: five blocks on genesis 0.  Blocks 1 and 2 compete for the      *)
(* first height; 3 and 4 build on 1, so that losing a decision takes a     *)
(* subtree along; 5 is the only child of 3, so that a decision of one      *)
(* choice can be finalized two levels below a decision that is still open. *)
(* Two polls may be in flight, so that the tally of one arrives after the  *)
(* other has settled or pruned the decision it is for.                     *)
(***************************************************************************)
EXTENDS Consensus

CONSTANTS A, B, C, D, E, V1, V2, V3, V4

MCTxs == {A, B, C, D, E}

MCInputIDs ==
  (A :> {"u1"}) @@ (B :> {"u1"}) @@ (C :> {"u2"}) @@ (D :> {"u2"}) @@
  (E :> {"u3"})

MCDependencies ==
  (A :> {}) @@ (B :> {}) @@ (C :> {A}) @@ (D :> {A}) @@ (E :> {A, C})

MCMayFail == {C}

MCVtxs == {V1, V2, V3, V4}

MCParents == (V1 :> {}) @@ (V2 :> {}) @@ (V3 :> {V1}) @@ (V4 :> {V1, V3})

MCBlocks == 1..5

MCParent == (1 :> 0) @@ (2 :> 0) @@ (3 :> 1) @@ (4 :> 1) @@ (5 :> 3)

MCVtxTxs == (V1 :> {A}) @@ (V2 :> {B}) @@ (V3 :> {A, C}) @@ (V4 :> {D, E})
=============================================================================
