------------------------------- MODULE Genesis -------------------------------
(***************************************************************************)
(* What a node works out from its genesis package before it starts: the    *)
(* parsed genesis configuration (genesis/unparsed_config.go) and the       *)
(* beacons it connects to first (genesis/beacons.go).                      *)
(*                                                                         *)
(* An address in the file is text.  The model keeps of a text what parsing *)
(* tells apart: the step of parsing it fails at, or the address it         *)
(* denotes.  Parsing turns the text into that address; amounts, durations  *)
(* and the message are copied and are left out.                            *)
(***************************************************************************)
EXTENDS Naturals, FiniteSets, Sequences, SequencesExt

CONSTANTS
  ShortIDs,       \* the addresses (ids.ShortID) other than the zero value
  NodeIDs,        \* the node IDs of stakers
  Networks,       \* the network IDs a node may be started with
  BeaconIPs,      \* BeaconIPs[n]: the IPs getIPs lists for network n
  BeaconNodeIDs,  \* BeaconNodeIDs[n]: the node IDs getNodeIDs lists for it,
                  \* as many; a network that is not listed has none
  MaxEntries,     \* bound: the allocations in a configuration
  MaxCount        \* bound: the beacons asked for

ASSUME /\ MaxEntries \in Nat /\ MaxCount \in Nat
       /\ DOMAIN BeaconIPs \subseteq Networks
       /\ DOMAIN BeaconNodeIDs = DOMAIN BeaconIPs
       /\ \A n \in DOMAIN BeaconIPs :
            Len(BeaconIPs[n]) = Len(BeaconNodeIDs[n])

VARIABLES
  uc,           \* the UnparsedConfig read
  c,            \* the Config Parse returned
  err,          \* and its error
  sampledIPs,   \* what SampleBeacons returned
  sampledIDs,
  asked,        \* history: the network and the count SampleBeacons was given
  stage         \* of the start of the node: "start", "sampled", "parsed"

vars == <<uc, c, err, sampledIPs, sampledIDs, asked, stage>>

Nil == "nil"
Zero == "ShortEmpty"   \* the zero value of ids.ShortID

\* The texts of an ETH address: shorter than "0x", not hexadecimal, not
\* twenty bytes, or the text of an address.
ETHAddrs ==
  [fails : {"errInvalidETHAddress", "hex.DecodeString", "ids.ToShortID"}]
    \cup [denotes : ShortIDs]

\* The texts of a chain address: not an address, not twenty bytes, or the
\* text of an address.
CFLTAddrs == [fails : {"address.Parse", "ids.ToShortID"}] \cup [denotes : ShortIDs]

\* The address of a text and the error of parsing it.
Addr(text) == IF "denotes" \in DOMAIN text THEN text.denotes ELSE Zero
ErrOf(text) == IF "fails" \in DOMAIN text THEN text.fails ELSE Nil

\* address.Parse and ids.ToShortID of a text.
AddressParse(text) == [val |-> Addr(text), err |-> ErrOf(text)]

\* UnparsedAllocation.Parse: the ETH address first; the chain address is
\* looked at only when the ETH address is good.  The allocation is returned
\* as far as it was filled.
AllocationParse(ua) ==
  [val |-> [ETHAddr |-> Addr(ua.ETHAddr),
            CFLTAddr |-> IF ErrOf(ua.ETHAddr) = Nil THEN Addr(ua.CFLTAddr)
                         ELSE Zero],
   err |-> IF ErrOf(ua.ETHAddr) # Nil THEN ErrOf(ua.ETHAddr)
           ELSE ErrOf(ua.CFLTAddr)]

\* UnparsedStaker.Parse
StakerParse(us) ==
  [val |-> [NodeID |-> us.NodeID, RewardAddress |-> Addr(us.RewardAddress)],
   err |-> ErrOf(us.RewardAddress)]

ZeroAllocation == [ETHAddr |-> Zero, CFLTAddr |-> Zero]
ZeroStaker == [NodeID |-> "EmptyNodeID", RewardAddress |-> Zero]

Each(P(_), seq) == [i \in DOMAIN seq |-> P(seq[i])]

\* The first entry that fails to parse, or the place after the last.
FirstBad(results) ==
  IF \E i \in DOMAIN results : results[i].err # Nil
  THEN CHOOSE i \in DOMAIN results :
         results[i].err # Nil /\ \A j \in 1..(i - 1) : results[j].err = Nil
  ELSE Len(results) + 1

\* --- variant: the entry is stored before its error is looked at ---
LoopStoringFirst(results, zero, reached) ==
  [out |-> [i \in DOMAIN results |->
              IF reached /\ i <= FirstBad(results) THEN results[i].val
              ELSE zero],
   err |-> IF reached /\ FirstBad(results) \in DOMAIN results
           THEN results[FirstBad(results)].err ELSE Nil]

\* One loop of UnparsedConfig.Parse, if it is reached: the entries before the
\* first that fails are stored, the others keep the zero value make gave
\* them, and the error is that of the first that fails.
Loop(results, zero, reached) ==
  [out |-> [i \in DOMAIN results |->
              IF reached /\ i < FirstBad(results) THEN results[i].val
              ELSE zero],
   err |-> IF reached /\ FirstBad(results) \in DOMAIN results
           THEN results[FirstBad(results)].err ELSE Nil]

FirstError(errs) ==
  IF \E i \in DOMAIN errs : errs[i] # Nil
  THEN errs[CHOOSE i \in DOMAIN errs :
              errs[i] # Nil /\ \A j \in 1..(i - 1) : errs[j] = Nil]
  ELSE Nil

\* --- variant: an error ends its own loop only ---
ConfigParseOn(u) ==
  LET as == Loop(Each(AllocationParse, u.Allocations), ZeroAllocation, TRUE)
      fs == Loop(Each(AddressParse, u.InitialStakedFunds), Zero, TRUE)
      ss == Loop(Each(StakerParse, u.InitialStakers), ZeroStaker, TRUE)
  IN  [c |-> [Allocations |-> as.out, InitialStakedFunds |-> fs.out,
              InitialStakers |-> ss.out],
       err |-> FirstError(<<as.err, fs.err, ss.err>>)]

\* UnparsedConfig.Parse: the allocations, the staked funds, the stakers, in
\* this order; the first error ends it, and the configuration is returned
\* as far as it was filled.
ConfigParse(u) ==
  LET as == Loop(Each(AllocationParse, u.Allocations), ZeroAllocation, TRUE)
      fs == Loop(Each(AddressParse, u.InitialStakedFunds), Zero, as.err = Nil)
      ss == Loop(Each(StakerParse, u.InitialStakers), ZeroStaker,
                 as.err = Nil /\ fs.err = Nil)
  IN  [c |-> [Allocations |-> as.out, InitialStakedFunds |-> fs.out,
              InitialStakers |-> ss.out],
       err |-> FirstError(<<as.err, fs.err, ss.err>>)]

getIPs(networkID) ==
  IF networkID \in DOMAIN BeaconIPs THEN BeaconIPs[networkID] ELSE <<>>

getNodeIDs(networkID) ==
  IF networkID \in DOMAIN BeaconNodeIDs THEN BeaconNodeIDs[networkID] ELSE <<>>

\* sampler.Uniform.Sample: count different indices, in any order; none, with
\* an error nobody looks at, when there are not that many.
Samples(length, count) ==
  IF count > length THEN {<<>>}
  ELSE UNION {SetToSeqs(S) :
                S \in {T \in SUBSET (1..length) : Cardinality(T) = count}}

\* The node samples its beacons when it starts, before it reads the genesis.
Sampled(networkID, count, indices) ==
  /\ stage = "start"
  /\ stage' = "sampled"
  /\ sampledIPs' = [i \in DOMAIN indices |-> getIPs(networkID)[indices[i]]]
  /\ sampledIDs' = [i \in DOMAIN indices |-> getNodeIDs(networkID)[indices[i]]]
  /\ asked' = [networkID |-> networkID, count |-> count]
  /\ UNCHANGED <<uc, c, err>>

\* --- variant: the count is not cut down to the beacons there are ---
SampleBeaconsUncut(networkID, count) ==
  \E indices \in Samples(Len(getIPs(networkID)), count) :
    Sampled(networkID, count, indices)

\* SampleBeacons: count beacons of the network, or all there are.
SampleBeacons(networkID, count) ==
  LET numIPs == Len(getIPs(networkID))
      cut == IF numIPs < count THEN numIPs ELSE count
  IN  \E indices \in Samples(numIPs, cut) : Sampled(networkID, count, indices)

UnparsedAllocations == [ETHAddr : ETHAddrs, CFLTAddr : CFLTAddrs]
UnparsedStakers == [NodeID : NodeIDs, RewardAddress : CFLTAddrs]

\* The configurations a genesis file can hold, up to the bounds.
UnparsedConfigs ==
  [Allocations : UNION {[1..n -> UnparsedAllocations] : n \in 0..MaxEntries},
   InitialStakedFunds : UNION {[1..n -> CFLTAddrs] : n \in 0..1},
   InitialStakers : UNION {[1..n -> UnparsedStakers] : n \in 0..1}]

\* The node reads a genesis file and parses it.
Parse ==
  /\ stage = "sampled"
  /\ stage' = "parsed"
  /\ \E u \in UnparsedConfigs :
       /\ uc' = u
       /\ c' = ConfigParse(u).c
       /\ err' = ConfigParse(u).err
  /\ UNCHANGED <<sampledIPs, sampledIDs, asked>>

EmptyConfig ==
  [Allocations |-> <<>>, InitialStakedFunds |-> <<>>, InitialStakers |-> <<>>]

Init ==
  /\ uc = EmptyConfig
  /\ c = ConfigParse(EmptyConfig).c
  /\ err = Nil
  /\ sampledIPs = <<>>
  /\ sampledIDs = <<>>
  /\ asked = [networkID |-> CHOOSE n \in Networks : TRUE, count |-> 0]
  /\ stage = "start"

Next ==
  \/ Parse
  \/ \E n \in Networks, count \in 0..MaxCount : SampleBeacons(n, count)

Spec == Init /\ [][Next]_vars

-----------------------------------------------------------------------------
(***************************************************************************)
(* Properties                                                              *)
(***************************************************************************)

Addresses == ShortIDs \cup {Zero}

\* The type invariant.  An allocation of the configuration is a whole one or
\* the zero value: Parse stores an allocation only when both its addresses
\* were read.
TypeOK ==
  /\ uc \in UnparsedConfigs
  /\ err \in {Nil, "errInvalidETHAddress", "hex.DecodeString",
              "ids.ToShortID", "address.Parse"}
  /\ DOMAIN c.Allocations = DOMAIN uc.Allocations
  /\ \A i \in DOMAIN c.Allocations :
       c.Allocations[i] \in [ETHAddr : ShortIDs, CFLTAddr : ShortIDs]
                              \cup {ZeroAllocation}
  /\ c.InitialStakedFunds \in [DOMAIN uc.InitialStakedFunds -> Addresses]
  /\ c.InitialStakers \in
       [DOMAIN uc.InitialStakers ->
          [NodeID : NodeIDs \cup {"EmptyNodeID"}, RewardAddress : Addresses]]
  /\ Len(sampledIPs) = Len(sampledIDs)
  /\ asked \in [networkID : Networks, count : 0..MaxCount]
  /\ stage \in {"start", "sampled", "parsed"}

\* The texts of a configuration in the order Parse reads them.
Texts(u) ==
  FlattenSeq([i \in DOMAIN u.Allocations |->
                IF ErrOf(u.Allocations[i].ETHAddr) # Nil
                THEN <<u.Allocations[i].ETHAddr>>
                ELSE <<u.Allocations[i].ETHAddr, u.Allocations[i].CFLTAddr>>])
    \o u.InitialStakedFunds
    \o [i \in DOMAIN u.InitialStakers |-> u.InitialStakers[i].RewardAddress]

\* The texts of the entries of a configuration up to an entry, in the three
\* lists, denote addresses.
GoodAllocations(u, n) ==
  \A j \in 1..n : /\ ErrOf(u.Allocations[j].ETHAddr) = Nil
                  /\ ErrOf(u.Allocations[j].CFLTAddr) = Nil

GoodStakedFunds(u, n) ==
  /\ GoodAllocations(u, Len(u.Allocations))
  /\ \A j \in 1..n : ErrOf(u.InitialStakedFunds[j]) = Nil

GoodStakers(u, n) ==
  /\ GoodStakedFunds(u, Len(u.InitialStakedFunds))
  /\ \A j \in 1..n : ErrOf(u.InitialStakers[j].RewardAddress) = Nil

\* The configuration with every text replaced by what it denotes, as far
\* as every text up to and of the entry denotes an address, and with the
\* zero value from there on.
Denoted(u) ==
  [Allocations |->
     [i \in DOMAIN u.Allocations |->
        IF GoodAllocations(u, i)
        THEN [ETHAddr |-> Addr(u.Allocations[i].ETHAddr),
              CFLTAddr |-> Addr(u.Allocations[i].CFLTAddr)]
        ELSE ZeroAllocation],
   InitialStakedFunds |->
     [i \in DOMAIN u.InitialStakedFunds |->
        IF GoodStakedFunds(u, i) THEN Addr(u.InitialStakedFunds[i]) ELSE Zero],
   InitialStakers |->
     [i \in DOMAIN u.InitialStakers |->
        IF GoodStakers(u, i)
        THEN [NodeID |-> u.InitialStakers[i].NodeID,
              RewardAddress |-> Addr(u.InitialStakers[i].RewardAddress)]
        ELSE ZeroStaker]]

\* UnparsedConfig.Parse against its definition: the error is that of the
\* first text of the file that does not denote an address, in the order
\* allocations, staked funds, stakers, and nil when all do; the
\* configuration returned holds every entry before the entry of that text,
\* each text replaced by its address, and the zero value at that entry and
\* at every entry after it, in its list and in the lists that follow.
ParseAgreesWithTexts ==
  LET errs == [i \in DOMAIN Texts(uc) |-> ErrOf(Texts(uc)[i])]
  IN  /\ err = FirstError(errs)
      /\ c = Denoted(uc)

\* SampleBeacons answers with as many beacons as were asked for, or all the
\* network has when that is fewer, no beacon twice, and the IP and the node
\* ID at one place of the two answers stand at one place of the two lists
\* of the network: the count is cut down before the sampler is asked,
\* whose error for too large a count is not looked at, and one index reads
\* both lists.
BeaconsArePaired ==
  LET ips == getIPs(asked.networkID)
      ids == getNodeIDs(asked.networkID)
  IN  /\ Len(sampledIPs) = IF Len(ips) < asked.count THEN Len(ips)
                           ELSE asked.count
      /\ \E indices \in [DOMAIN sampledIPs -> DOMAIN ips] :
           /\ IsInjective(indices)
           /\ \A i \in DOMAIN indices :
                /\ sampledIPs[i] = ips[indices[i]]
                /\ sampledIDs[i] = ids[indices[i]]

=============================================================================
