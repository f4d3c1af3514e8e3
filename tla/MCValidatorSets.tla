--------------------------- MODULE MCValidatorSets ---------------------------
(***************************************************************************)
(* ValidatorSets for TLC: two validators, the primary network, one         *)
(* whitelisted and one other subnet, weights of two bits, two blocks and *)
(* room for two sets in a cache, so that entries are evicted.              *)
(***************************************************************************)
EXTENDS ValidatorSets

CONSTANTS n1, n2, primary, tracked, other

MCNodes == {n1, n2}
MCSubnets == {primary, tracked, other}
MCWhitelisted == {tracked}

\* The chain starts with one validator on the primary network.
MCInit ==
  /\ Init
  /\ chain[0] = [s \in Subnets |->
                   IF s = primary THEN n1 :> 1 ELSE EmptyMap]

MCSpec == MCInit /\ [][Next]_vars
=============================================================================
