------------------------------ MODULE MCGenesis ------------------------------
(***************************************************************************)
(* Genesis for TLC: two addresses, configurations of up to two             *)
(* allocations, one staked fund and one staker, so that an error can come  *)
(* in any of the three loops and after a good entry; two networks with     *)
(* beacons that share their node IDs, as the two public networks do, and   *)
(* one without beacons; up to four beacons asked of three.                 *)
(***************************************************************************)
EXTENDS Genesis

MCShortIDs == {"a1", "a2"}
MCNodeIDs == {"NodeID-1"}
MCNetworks == {"MainnetID", "AddismyaID", "LocalID"}
MCBeaconIPs ==
  [MainnetID |-> <<"ip1", "ip2", "ip3">>, AddismyaID |-> <<"ip4", "ip5", "ip6">>]
MCBeaconNodeIDs ==
  [MainnetID  |-> <<"NodeID-1", "NodeID-2", "NodeID-3">>,
   AddismyaID |-> <<"NodeID-1", "NodeID-2", "NodeID-3">>]
==============================================================================
