---------------------------- MODULE ValidatorSets ----------------------------
(***************************************************************************)
(* The validator sets the platform VM serves to the other chains           *)
(* (vms/platformvm/vm.go, GetValidatorSet): the set of a subnet at a past  *)
(* height is rebuilt from the current set by undoing, block by block, the  *)
(* weight diffs that the accepted blocks recorded, and is kept in a        *)
(* bounded cache per tracked subnet.                                       *)
(*                                                                         *)
(* The VM is called under the chain lock, so each call is one step.  The   *)
(* block executor that accepts blocks and writes the diffs is not part of  *)
(* the source tree at hand; AcceptBlock stands for what it leaves behind.  *)
(***************************************************************************)
EXTENDS Naturals, FiniteSets, TLC

CONSTANTS
  Nodes,                  \* ids.NodeID
  Subnets,                \* ids.ID of every subnet the chain knows
  PrimaryNetworkID,       \* constants.PrimaryNetworkID
  WhitelistedSubnets,     \* vm.WhitelistedSubnets
  MaxUint64,              \* the largest weight (2^64 - 1 in the code)
  MaxHeight,              \* bound: blocks accepted in a behaviour
  validatorSetsCacheSize  \* 512 in the code

ASSUME /\ PrimaryNetworkID \in Subnets
       /\ WhitelistedSubnets \subseteq Subnets
       /\ MaxUint64 \in Nat /\ MaxHeight \in Nat
       /\ validatorSetsCacheSize \in Nat \ {0}

VARIABLES
  lastAccepted,        \* height of state.GetLastAccepted()
  chain,               \* history: the validator sets after each accepted block
  weightDiffs,         \* state.GetValidatorWeightDiffs(height, subnetID)
  validators,          \* vm.Validators, the current sets held in memory
  validatorSetCaches,  \* vm.validatorSetCaches: subnetID -> height -> set
  reply                \* what the last call returned

vars == <<lastAccepted, chain, weightDiffs, validators, validatorSetCaches,
          reply>>

\* The subnets whose validators this node keeps in memory.
Tracked == WhitelistedSubnets \cup {PrimaryNetworkID}

\* map[ids.NodeID]uint64: the validators of a set and their weights.
VdrSet == UNION {[S -> 1..MaxUint64] : S \in SUBSET Nodes}

\* Reading a Go map: the zero value for a missing key.
WeightOf(vdrSet, nodeID) ==
  IF nodeID \in DOMAIN vdrSet THEN vdrSet[nodeID] ELSE 0

Diff == [Decrease : BOOLEAN, Amount : 1..MaxUint64]

EmptyMap == <<>>

-----------------------------------------------------------------------------
\* GetCurrentHeight: the height of the last accepted block.
GetCurrentHeight == lastAccepted

\* The weight before a block, from the weight after it and the block's
\* diff: a decrease is added back, an increase is taken away.
PriorWeight(weight, diff) ==
  IF diff.Decrease THEN weight + diff.Amount ELSE weight - diff.Amount

\* math.Add64 and math.Sub refuse a result outside uint64.
DiffFails(weight, diff) ==
  IF diff.Decrease THEN weight + diff.Amount > MaxUint64
                   ELSE diff.Amount > weight

\* --- variant: a validator of weight zero stays in the map ---
ApplyDiffsKeepingZero(vdrSet, diffs) ==
  [nodeID \in DOMAIN vdrSet \cup DOMAIN diffs |->
     IF nodeID \in DOMAIN diffs
     THEN PriorWeight(WeightOf(vdrSet, nodeID), diffs[nodeID])
     ELSE vdrSet[nodeID]]

\* The inner loop: every diff of one block is undone; a validator whose
\* weight becomes zero did not exist before the block and is deleted.
ApplyDiffs(vdrSet, diffs) ==
  LET prior(nodeID) ==
        IF nodeID \in DOMAIN diffs
        THEN PriorWeight(WeightOf(vdrSet, nodeID), diffs[nodeID])
        ELSE vdrSet[nodeID]
  IN  [nodeID \in {n \in DOMAIN vdrSet \cup DOMAIN diffs : prior(n) # 0} |->
         prior(nodeID)]

Ok(vdrSet) == [err |-> "nil", val |-> vdrSet]
Err(e)     == [err |-> e, val |-> EmptyMap]

RECURSIVE RewindInclusive(_, _, _, _, _)
\* --- variant: the loop runs one block too far (i >= height) ---
RewindInclusive(vdrSet, i, height, subnetID, at) ==
  IF i < height \/ i = 0 THEN Ok(vdrSet)
  ELSE IF i = at THEN Err("GetValidatorWeightDiffs")
  ELSE LET diffs == weightDiffs[i][subnetID] IN
       IF \E n \in DOMAIN diffs : DiffFails(WeightOf(vdrSet, n), diffs[n])
       THEN Err("errOverflow")
       ELSE RewindInclusive(ApplyDiffs(vdrSet, diffs), i - 1, height,
                            subnetID, at)

RECURSIVE Rewind(_, _, _, _, _)
\* The outer loop, for i := lastAcceptedHeight; i > height; i--.  The first
\* block whose diffs cannot be read (the one at height `at'), and the first
\* diff that cannot be undone, end the call with the error.
Rewind(vdrSet, i, height, subnetID, at) ==
  IF i <= height THEN Ok(vdrSet)
  ELSE IF i = at THEN Err("GetValidatorWeightDiffs")
  ELSE LET diffs == weightDiffs[i][subnetID] IN
       IF \E n \in DOMAIN diffs : DiffFails(WeightOf(vdrSet, n), diffs[n])
       THEN Err("errOverflow")
       ELSE Rewind(ApplyDiffs(vdrSet, diffs), i - 1, height, subnetID, at)

\* The cache the call works on: the subnet's own, or a fresh one.
CacheOf(subnetID) ==
  IF subnetID \in DOMAIN validatorSetCaches
  THEN validatorSetCaches[subnetID] ELSE EmptyMap

\* The reads of the state that can fail: the last accepted block, and the
\* diffs of the block at one height (0 for none).
ReadFailures ==
  {f \in [read : {"nil", "GetBlock", "GetValidatorWeightDiffs"},
          at : 0..MaxHeight] :
     (f.read = "GetValidatorWeightDiffs") = (f.at # 0)}

\* What GetValidatorSet returns.
ValidatorSetAt(height, subnetID, fail) ==
  IF height \in DOMAIN CacheOf(subnetID) THEN Ok(CacheOf(subnetID)[height])
  ELSE IF fail.read = "GetBlock" THEN Err("GetBlock")
  ELSE IF GetCurrentHeight < height THEN Err("ErrNotFound")
  ELSE IF subnetID \notin DOMAIN validators THEN Err("errMissingValidatorSet")
  ELSE Rewind(validators[subnetID], GetCurrentHeight, height, subnetID,
              fail.at)

\* cache.LRU.Put: the entry is stored; a full cache gives up another
\* entry for it.  Which one depends on the order of earlier reads, which
\* is left open here.
Put(cache, height, vdrSet) ==
  LET stored == (height :> vdrSet) @@ cache IN
  IF Cardinality(DOMAIN stored) <= validatorSetsCacheSize THEN {stored}
  ELSE {[h \in DOMAIN stored \ {victim} |-> stored[h]] :
          victim \in DOMAIN cache \ {height}}

\* --- variant: every subnet's cache is kept, tracked or not ---
CachesAfterKeepingAll(height, subnetID, result) ==
  LET known == (subnetID :> CacheOf(subnetID)) @@ validatorSetCaches
  IN  IF result.err = "nil" /\ height \notin DOMAIN CacheOf(subnetID)
      THEN {[known EXCEPT ![subnetID] = c] :
              c \in Put(CacheOf(subnetID), height, result.val)}
      ELSE {known}

\* The caches after the call: a subnet seen for the first time gets a
\* cache only if it is tracked, whatever the call then returns; a set
\* that was rebuilt is put into the cache the call works on.
CachesAfter(height, subnetID, result) ==
  LET known == IF subnetID \in Tracked
               THEN (subnetID :> CacheOf(subnetID)) @@ validatorSetCaches
               ELSE validatorSetCaches
  IN  IF /\ result.err = "nil"
         /\ height \notin DOMAIN CacheOf(subnetID)
         /\ subnetID \in DOMAIN known
      THEN {[known EXCEPT ![subnetID] = c] :
              c \in Put(CacheOf(subnetID), height, result.val)}
      ELSE {known}

GetValidatorSet(height, subnetID, fail) ==
  LET result == ValidatorSetAt(height, subnetID, fail) IN
  /\ reply' = [op |-> "GetValidatorSet", height |-> height,
               subnetID |-> subnetID, err |-> result.err, val |-> result.val]
  /\ validatorSetCaches' \in CachesAfter(height, subnetID, result)
  /\ UNCHANGED <<lastAccepted, chain, weightDiffs, validators>>

NoReply == [op |-> "none"]

StateErrors == {"GetBlock", "GetValidatorWeightDiffs"}

\* updateValidators, with the fresh caches of Initialize: after a restart
\* the current sets of the tracked subnets are read back from the state.
updateValidators ==
  /\ validators' = [s \in Tracked |-> chain[lastAccepted][s]]
  /\ validatorSetCaches' = EmptyMap
  /\ reply' = NoReply
  /\ UNCHANGED <<lastAccepted, chain, weightDiffs>>

\* The diff a block records for a validator whose weight it changes.
DiffBetween(old, new) ==
  [Decrease |-> new < old,
   Amount   |-> IF new < old THEN old - new ELSE new - old]

\* A block is accepted that changes the weight of one validator of one
\* subnet (0: the validator leaves), or of none.
AcceptBlock(subnetID, nodeID, weight) ==
  LET old  == chain[lastAccepted]
      was  == WeightOf(old[subnetID], nodeID)
      set  == [n \in (DOMAIN old[subnetID] \cup {nodeID}) \
                       (IF weight = 0 THEN {nodeID} ELSE {}) |->
                 IF n = nodeID THEN weight ELSE old[subnetID][n]]
      new  == [old EXCEPT ![subnetID] = set]
      diff == [s \in Subnets |->
                 IF s = subnetID /\ was # weight
                 THEN nodeID :> DiffBetween(was, weight) ELSE EmptyMap]
  IN
  /\ lastAccepted < MaxHeight
  /\ lastAccepted' = lastAccepted + 1
  /\ chain' = (lastAccepted' :> new) @@ chain
  /\ weightDiffs' = (lastAccepted' :> diff) @@ weightDiffs
  /\ validators' = [s \in DOMAIN validators |-> new[s]]
  /\ reply' = NoReply
  /\ UNCHANGED validatorSetCaches

Init ==
  /\ lastAccepted = 0
  /\ chain \in [{0} -> [Subnets -> VdrSet]]
  /\ weightDiffs = EmptyMap
  /\ validators = [s \in Tracked |-> chain[0][s]]
  /\ validatorSetCaches = EmptyMap
  /\ reply = NoReply

Next ==
  \/ \E height \in 0..MaxHeight, subnetID \in Subnets, fail \in ReadFailures :
       GetValidatorSet(height, subnetID, fail)
  \/ \E subnetID \in Subnets, nodeID \in Nodes, weight \in 0..MaxUint64 :
       AcceptBlock(subnetID, nodeID, weight)
  \/ updateValidators

Spec == Init /\ [][Next]_vars

-----------------------------------------------------------------------------
\* The type invariant.  A weight stays within uint64 and a set never holds a
\* validator of weight zero: GetValidatorSet deletes the validator whose
\* weight a diff brings to zero, and refuses a diff that would wrap.
TypeOK ==
  /\ lastAccepted \in 0..MaxHeight
  /\ chain \in [0..lastAccepted -> [Subnets -> VdrSet]]
  /\ DOMAIN weightDiffs = 1..lastAccepted
  /\ \A h \in DOMAIN weightDiffs :
       /\ DOMAIN weightDiffs[h] = Subnets
       /\ \A s \in Subnets : \A n \in DOMAIN weightDiffs[h][s] :
            n \in Nodes /\ weightDiffs[h][s][n] \in Diff
  /\ validators \in [Tracked -> VdrSet]
  /\ DOMAIN validatorSetCaches \subseteq Subnets
  /\ \A s \in DOMAIN validatorSetCaches :
       /\ DOMAIN validatorSetCaches[s] \subseteq 0..MaxHeight
       /\ \A h \in DOMAIN validatorSetCaches[s] :
            validatorSetCaches[s][h] \in VdrSet
  /\ reply.op \in {"none", "GetValidatorSet"}

\* The cache never lies and never outgrows its size: whatever it holds
\* for a subnet and a height is the set the chain had at that height, also
\* after later blocks, restarts and evictions, and only tracked subnets
\* have a cache (GetValidatorSet stores a set under the height it was rebuilt
\* for, and drops the cache it made for an untracked subnet).
CacheAgreesWithChain ==
  \A s \in DOMAIN validatorSetCaches :
     /\ s \in Tracked
     /\ Cardinality(DOMAIN validatorSetCaches[s]) <= validatorSetsCacheSize
     /\ \A h \in DOMAIN validatorSetCaches[s] :
          h <= lastAccepted /\ validatorSetCaches[s][h] = chain[h][s]

\* GetValidatorSet answers every height up to the last accepted one of a
\* tracked subnet, and answers it with the set the chain had then: undoing
\* the diffs from the current set neither overflows nor leaves a validator
\* of weight zero behind.  Beyond the last accepted height it answers
\* ErrNotFound, for an untracked subnet errMissingValidatorSet.  Only a
\* read of the state that fails makes it answer anything else.
AnswersThePastSet ==
  reply.op = "GetValidatorSet" /\ reply.err \notin StateErrors =>
    IF reply.height > lastAccepted THEN reply.err = "ErrNotFound"
    ELSE IF reply.subnetID \notin Tracked
    THEN reply.err = "errMissingValidatorSet"
    ELSE reply.err = "nil" /\ reply.val = chain[reply.height][reply.subnetID]

=============================================================================
