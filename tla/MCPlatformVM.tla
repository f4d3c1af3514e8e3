----------------------------- MODULE MCPlatformVM -----------------------------
(***************************************************************************)
(* PlatformVM for TLC: two validators; the primary network with two        *)
(* chains, a whitelisted subnet and another subnet with one chain each.    *)
(* Both validate the primary network, n2 alone the other subnet, and the   *)
(* whitelisted subnet has no validator, so that its set has no weight.     *)
(* Weights have three bits and floats two: the weight 5 of the primary     *)
(* network and the weight 7 of the other subnet are rounded, to 4 and 8.   *)
(***************************************************************************)
EXTENDS PlatformVM, TLC

CONSTANTS n1, n2, primary, mine, other, P, X, M1, O1

MCNodes == {n1, n2}
MCSubnets == {primary, mine, other}
MCWhitelisted == {mine}
MCChains == {P, X, M1, O1}
MCSubnetOf == (P :> primary) @@ (X :> primary) @@ (M1 :> mine) @@ (O1 :> other)
MCStateValidators ==
  (primary :> (n1 :> 4 @@ n2 :> 1)) @@ (mine :> <<>>) @@ (other :> (n2 :> 7))
MCBlockIDs == {"genesis", "blk"}
=============================================================================
