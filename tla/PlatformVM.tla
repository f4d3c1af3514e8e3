------------------------------ MODULE PlatformVM ------------------------------
(***************************************************************************)
(* The life of the platform VM (vms/platformvm/vm.go): Initialize with     *)
(* each of the steps that can fail, the chains it creates, SetState,       *)
(* Connected, Disconnected and Shutdown, and what they ask of the block    *)
(* builder, the uptime manager, the state and the database.                *)
(*                                                                         *)
(* The chain's handler calls the VM with the chain lock held, one call at  *)
(* a time: Initialize once, SetState(Bootstrapping) before                 *)
(* SetState(NormalOp), Connected and Disconnected as peers come and go,    *)
(* and, after an error of any call or when the node stops, Shutdown.       *)
(* The handler, the uptime manager, the state and the builder are not part *)
(* of the source tree at hand; they are reduced to the calls vm.go makes   *)
(* and to whether a call fails.                                            *)
(***************************************************************************)
EXTENDS Naturals, FiniteSets, Sequences, Functions

CONSTANTS
  Nodes,               \* the peers, all of them primary network validators
  Subnets,             \* every subnet the state knows
  PrimaryNetworkID,    \* constants.PrimaryNetworkID
  WhitelistedSubnets,  \* vm.WhitelistedSubnets
  Chains,              \* the chains the state says exist
  SubnetOf,            \* SubnetOf[chain]: the subnet that validates it
  StateValidators,     \* vm.state.ValidatorSet(subnetID): node -> weight
  MaxUint64,           \* the largest weight (2^64 - 1 in the code)
  MantissaBits,        \* the significant bits of a float (53 in float64)
  BlockIDs,            \* the ids a caller may name
  LastAcceptedID       \* vm.state.GetLastAccepted() when the VM starts

ASSUME /\ PrimaryNetworkID \in Subnets
       /\ WhitelistedSubnets \subseteq Subnets \ {PrimaryNetworkID}
       /\ SubnetOf \in [Chains -> Subnets]
       /\ DOMAIN StateValidators = Subnets
       /\ \A s \in Subnets :
            /\ DOMAIN StateValidators[s] \subseteq Nodes
            /\ \A n \in DOMAIN StateValidators[s] :
                 StateValidators[s][n] \in 1..MaxUint64
       /\ LastAcceptedID \in BlockIDs
       /\ MantissaBits \in 1..MaxUint64
       \* validators.Set refuses a validator that takes its weight past uint64
       /\ \A s \in Subnets : SumFunction(StateValidators[s]) <= MaxUint64

VARIABLES
  StakingEnabled,  \* vm.StakingEnabled
  dbManager,       \* vm.dbManager: "nil", "open" or "closed"
  state,           \* vm.state: "nil", "open" or "closed"
  Builder,         \* vm.Builder: "nil", "running", "building" once its
                   \* block timer was reset, or "shutdown"
  bootstrapped,    \* vm.bootstrapped
  preferred,       \* the block the Builder builds on, "none" before any
  uptimeManager,   \* vm.uptimeManager: "nil", "idle", "tracking", "stopped"
  Validators,      \* vm.Validators: subnetID -> the set held in memory
  connections,     \* the peers the uptime manager holds as connected
  uncommitted,     \* the state holds writes that no Commit has persisted
  created,         \* the chains handed to vm.Config.CreateChain
  started,         \* history: the number of calls of StartTracking
  handler,         \* the caller: what it may call next
  reply            \* the last call and what it returned

vars == <<StakingEnabled, dbManager, state, Builder, preferred, bootstrapped,
          uptimeManager, Validators, connections, uncommitted, created,
          started, handler, reply>>

\* float64(x): x itself while it fits the mantissa, and otherwise the
\* nearest number of MantissaBits significant bits, the even one of two
\* that are as near.
Float(x) ==
  IF x < 2^MantissaBits THEN x
  ELSE LET k == CHOOSE k \in 1..MaxUint64 :
                  x \div 2^k \in 2^(MantissaBits - 1) .. 2^MantissaBits - 1
           ulp == 2^k
           down == (x \div ulp) * ulp
           twice == 2 * (x - down)
       IN  IF twice < ulp \/ (twice = ulp /\ (x \div ulp) % 2 = 0)
           THEN down ELSE down + ulp

\* float64(n) / float64(d), kept as the two floats: the quotient of two
\* floats is 0 exactly when the first is 0, 1 exactly when they are equal,
\* and below 1 exactly when the first is the smaller.
Ratio(n, d) == <<Float(n), Float(d)>>

Returned(op, err) ==
  [op |-> op, err |-> err, of |-> "none", val |-> Ratio(0, 1)]

EmptyMap == <<>>

\* What the handler does with an answer: an error ends the chain.
After(err, next) == IF err = "nil" THEN next ELSE "failed"

-----------------------------------------------------------------------------
(***************************************************************************)
(* Initialize                                                              *)
(***************************************************************************)

\* The steps of Initialize that can fail, in the order they are taken.
InitializeSteps ==
  <<"Register", "metrics.New", "fx.Initialize", "state.New", "NewMempool",
    "updateValidators", "initBlockchains">>

InitializeFailures ==
  {"nil"} \cup {InitializeSteps[i] : i \in DOMAIN InitializeSteps}

StepOf(name) == CHOOSE i \in DOMAIN InitializeSteps : InitializeSteps[i] = name

\* The step was taken and did not fail.
Done(fail, step) == fail = "nil" \/ StepOf(step) < StepOf(fail)

ChainsOf(subnets) == {c \in Chains : SubnetOf[c] \in subnets}

\* --- variant: the test of StakingEnabled the wrong way round ---
SubnetsToCreateInverted(staking) ==
  {PrimaryNetworkID} \cup (IF staking THEN Subnets ELSE WhitelistedSubnets)

\* The subnets whose chains initBlockchains creates: the primary network
\* and, with staking, the whitelisted subnets, without it every subnet.
SubnetsToCreate(staking) ==
  {PrimaryNetworkID} \cup (IF staking THEN WhitelistedSubnets ELSE Subnets)

\* createSubnet of one subnet: all of its chains, or, if reading them
\* fails or one of them is not a CreateChainTx, only some.
createSubnet(subnetID, fails) ==
  IF fails THEN SUBSET ChainsOf({subnetID}) \ {ChainsOf({subnetID})}
           ELSE {ChainsOf({subnetID})}

\* initBlockchains: the chains created by the time it returns.  The
\* primary network comes first, the others in the order the map yields
\* them; the first createSubnet that fails ends the call.
initBlockchains(staking, fails) ==
  LET all == SubnetsToCreate(staking)
      \* the subnets done before the one that fails, and that one
      done == {{}} \cup {b \in SUBSET all : PrimaryNetworkID \in b}
      next(before) == IF before = {} THEN {PrimaryNetworkID} ELSE all \ before
  IN  IF ~fails THEN {ChainsOf(all)}
      ELSE UNION {{ChainsOf(before) \cup part :
                     part \in UNION {createSubnet(s, TRUE) : s \in next(before)}} :
                  before \in done}

\* The subnets whose validators this node keeps in memory.
Tracked == WhitelistedSubnets \cup {PrimaryNetworkID}

\* updateValidators: vm.Validators when it returns.  The set of the
\* primary network is read and stored first, then those of the whitelisted
\* subnets in the order the map yields them; the first read or store that
\* fails ends the call and leaves the sets stored so far.
updateValidators(fails) ==
  IF ~fails THEN {[s \in Tracked |-> StateValidators[s]]}
  ELSE {[s \in stored |-> StateValidators[s]] :
          stored \in {{}} \cup {{PrimaryNetworkID} \cup w :
                       w \in SUBSET WhitelistedSubnets \ {WhitelistedSubnets}}}

Initialize(fail) ==
  /\ handler = "new"
  /\ fail \in InitializeFailures
  /\ dbManager' = IF Done(fail, "metrics.New") THEN "open" ELSE "nil"
  /\ state' = IF Done(fail, "state.New") THEN "open" ELSE "nil"
  /\ uptimeManager' = IF Done(fail, "state.New") THEN "idle" ELSE "nil"
  /\ Builder' = IF Done(fail, "NewMempool") THEN "running" ELSE "nil"
  /\ IF Done(fail, "NewMempool")
     THEN Validators' \in updateValidators(fail = "updateValidators")
     ELSE Validators' = EmptyMap
  /\ IF Done(fail, "updateValidators")
     THEN created' \in initBlockchains(StakingEnabled, fail # "nil")
     ELSE created' = {}
  /\ preferred' = IF fail = "nil" THEN LastAcceptedID ELSE "none"
  /\ reply' = Returned("Initialize", fail)
  /\ handler' = After(fail, "initialized")
  /\ UNCHANGED <<StakingEnabled, bootstrapped, connections, uncommitted,
                 started>>

-----------------------------------------------------------------------------
(***************************************************************************)
(* SetState                                                                *)
(***************************************************************************)

onBootstrapStarted(fail) ==
  /\ fail \in {"nil", "fx.Bootstrapping"}
  /\ bootstrapped' = FALSE
  /\ reply' = Returned("SetState", fail)
  /\ handler' = After(fail, "bootstrapping")
  /\ UNCHANGED <<Builder, uptimeManager, uncommitted, started>>

\* vm.Validators.GetValidators(constants.PrimaryNetworkID)
PrimaryValidatorsExist == PrimaryNetworkID \in DOMAIN Validators

\* What a VM that leaves bootstrapping does once the flag is up: the fx is
\* told, the primary validators are looked up (errNoPrimaryValidators
\* without them), their uptimes start to be tracked, which writes them to
\* the state, the state is committed, and the block timer of the builder
\* is reset; the first of these that fails ends the call.
StartTrackingAndCommit(fail) ==
  LET err == IF fail # "fx.Bootstrapped" /\ ~PrimaryValidatorsExist
             THEN "errNoPrimaryValidators" ELSE fail
      tracks == err \in {"nil", "Commit"}
  IN  /\ fail \in {"nil", "fx.Bootstrapped", "StartTracking", "Commit"}
      /\ uptimeManager' = IF tracks THEN "tracking" ELSE uptimeManager
      /\ started' = IF tracks THEN started + 1 ELSE started
      /\ uncommitted' = IF tracks THEN err = "Commit" ELSE uncommitted
      /\ Builder' = IF err = "nil" THEN "building" ELSE Builder
      /\ reply' = Returned("SetState", err)
      /\ handler' = After(err, "normal")

\* --- variant: without the test for a VM that is bootstrapped already ---
onNormalOperationsStartedAgain(fail) ==
  bootstrapped' = TRUE /\ StartTrackingAndCommit(fail)

\* --- variant: the flag is never raised ---
onNormalOperationsStartedWithoutFlag(fail) ==
  UNCHANGED bootstrapped /\ StartTrackingAndCommit(fail)

\* --- variant: the flag is raised last, once nothing has failed ---
onNormalOperationsStartedFlagLast(fail) ==
  /\ ~bootstrapped
  /\ bootstrapped' = (fail = "nil")
  /\ StartTrackingAndCommit(fail)

\* onNormalOperationsStarted: nothing to do for a VM that is bootstrapped
\* already.  Otherwise the flag is raised first, before the steps that
\* can fail.
onNormalOperationsStarted(fail) ==
  IF bootstrapped
  THEN /\ fail = "nil"
       /\ reply' = Returned("SetState", "nil")
       /\ handler' = "normal"
       /\ UNCHANGED <<bootstrapped, Builder, uptimeManager, uncommitted,
                      started>>
  ELSE bootstrapped' = TRUE /\ StartTrackingAndCommit(fail)

\* The states of snow.State; the handler asks for Bootstrapping before
\* NormalOp, and this VM knows no other.
SnowStates == {"Initializing", "StateSyncing", "Bootstrapping", "NormalOp"}

SetState(snowState, fail) ==
  /\ \/ handler \in {"initialized", "bootstrapping"} /\ snowState # "NormalOp"
     \/ handler \in {"bootstrapping", "normal"} /\ snowState = "NormalOp"
  /\ CASE snowState = "Bootstrapping" -> onBootstrapStarted(fail)
       [] snowState = "NormalOp" -> onNormalOperationsStarted(fail)
       [] OTHER ->
            /\ fail = "nil"
            /\ reply' = Returned("SetState", "ErrUnknownState")
            /\ handler' = "failed"
            /\ UNCHANGED <<bootstrapped, Builder, uptimeManager, uncommitted,
                           started>>
  /\ UNCHANGED <<StakingEnabled, dbManager, state, preferred, Validators,
                 connections, created>>

-----------------------------------------------------------------------------
(***************************************************************************)
(* Connected and Disconnected                                              *)
(***************************************************************************)

Running == {"initialized", "bootstrapping", "normal"}

Connected(vdrID, fail) ==
  /\ handler \in Running
  /\ fail \in {"nil", "Connect"}
  /\ connections' = IF fail = "nil" THEN connections \cup {vdrID}
                                   ELSE connections
  /\ reply' = Returned("Connected", fail)
  /\ handler' = After(fail, handler)
  /\ UNCHANGED <<StakingEnabled, dbManager, state, Builder, preferred,
                 bootstrapped, uptimeManager, Validators, uncommitted, created,
                 started>>

\* Disconnected: the uptime manager forgets the connection and, while it
\* is tracking, writes the uptime of the peer; only then is the state
\* committed.  A Disconnect that fails may have forgotten the connection
\* or not.
Disconnected(vdrID, fail) ==
  /\ handler \in Running
  /\ fail \in {"nil", "Disconnect", "Commit"}
  /\ connections' \in {connections \ {vdrID}} \cup
                       (IF fail = "Disconnect" THEN {connections} ELSE {})
  /\ uncommitted' = (fail # "nil" /\
                       (uncommitted \/ (fail = "Commit" /\ vdrID \in connections
                                          /\ uptimeManager = "tracking")))
  /\ reply' = Returned("Disconnected", fail)
  /\ handler' = After(fail, handler)
  /\ UNCHANGED <<StakingEnabled, dbManager, state, Builder, preferred,
                 bootstrapped, uptimeManager, Validators, created, started>>

-----------------------------------------------------------------------------
(***************************************************************************)
(* Blocks and the preference                                               *)
(***************************************************************************)

\* ParseBlock, GetBlock and LastAccepted read: bytes that do not parse and
\* an id the manager does not know are answered with an error, which the
\* engine takes as an answer and not as a failure of the chain.
Reads ==
  [ParseBlock |-> {"nil", "Parse"}, GetBlock |-> {"nil", "ErrNotFound"},
   LastAccepted |-> {"nil"}]

Read(op, err) ==
  /\ handler \in Running
  /\ err \in Reads[op]
  /\ reply' = Returned(op, err)
  /\ UNCHANGED <<StakingEnabled, dbManager, state, Builder, preferred,
                 bootstrapped, uptimeManager, Validators, connections,
                 uncommitted, created, started, handler>>

\* SetPreference hands the id to the Builder, known or not.
SetPreference(blkID) ==
  /\ handler \in Running
  /\ preferred' = blkID
  /\ reply' = Returned("SetPreference", "nil")
  /\ UNCHANGED <<StakingEnabled, dbManager, state, Builder, bootstrapped,
                 uptimeManager, Validators, connections, uncommitted, created,
                 started, handler>>

-----------------------------------------------------------------------------
(***************************************************************************)
(* getPercentConnected                                                     *)
(***************************************************************************)

\* vdrSet.Weight(): the weight of all validators of the set.
Weight(vdrSet) == SumFunction(vdrSet)

\* --- variant: every validator counts, connected or not ---
ConnectedStakeOfAll(vdrSet) == SumFunction(vdrSet)

\* The loop: the weights of the validators the uptime manager holds as
\* connected.
ConnectedStake(vdrSet) ==
  SumFunctionOnSet(vdrSet, DOMAIN vdrSet \cap connections)

\* What getPercentConnected returns: errNoValidators for a subnet without
\* a set in memory, 1 for a set without weight, errOverflow when the sum
\* leaves uint64, and otherwise the share of the weight that is connected.
PercentConnected(subnetID) ==
  LET vdrSet == Validators[subnetID]
      answer(err, val) ==
        [Returned("getPercentConnected", err) EXCEPT
           !.of = subnetID, !.val = val]
  IN  IF subnetID \notin DOMAIN Validators
      THEN answer("errNoValidators", Ratio(0, 1))
      ELSE IF Weight(vdrSet) = 0 THEN answer("nil", Ratio(1, 1))
      ELSE IF ConnectedStake(vdrSet) > MaxUint64
      THEN answer("errOverflow", Ratio(0, 1))
      ELSE answer("nil", Ratio(ConnectedStake(vdrSet), Weight(vdrSet)))

getPercentConnected(subnetID) ==
  /\ handler \in Running
  /\ reply' = PercentConnected(subnetID)
  /\ UNCHANGED <<StakingEnabled, dbManager, state, Builder, preferred,
                 bootstrapped, uptimeManager, Validators, connections,
                 uncommitted, created, started, handler>>

-----------------------------------------------------------------------------
(***************************************************************************)
(* Shutdown                                                                *)
(***************************************************************************)

\* The failures Shutdown can meet from the calls it makes, by whether the
\* VM is bootstrapped.
ShutdownFailures(tracked) ==
  {"nil", "Close"} \cup (IF tracked THEN {"uptime.Shutdown", "Commit"} ELSE {})

\* Shutdown writes the uptimes of a VM whose flag is up.
FlushesUptimes == bootstrapped

\* Shutdown: nothing for a VM without a database manager.  Otherwise the
\* builder is shut down; a bootstrapped VM looks up the primary validators
\* (errNoPrimaryValidators without them), has the uptime manager write the
\* uptimes of the connected ones and commits the state, and an error of
\* any of these ends the call there; last, the state and the databases
\* are closed, both of them even if one fails.  A VM that has a database
\* manager and no builder dereferences nil.
Shutdown(fail) ==
  LET err == IF FlushesUptimes /\ ~PrimaryValidatorsExist
             THEN "errNoPrimaryValidators" ELSE fail
      flushed == FlushesUptimes /\ err \in {"nil", "Commit", "Close"}
      closes  == err \in {"nil", "Close"}
  IN
  /\ handler # "shutdown"
  /\ fail \in ShutdownFailures(FlushesUptimes)
  /\ \/ /\ dbManager = "nil"
        /\ fail = "nil"
        /\ reply' = Returned("Shutdown", "nil")
        /\ UNCHANGED <<dbManager, state, Builder, uptimeManager, uncommitted,
                       connections>>
     \/ /\ dbManager # "nil"
        /\ Builder = "nil"
        /\ fail = "nil"
        /\ reply' = Returned("Shutdown", "panic")
        /\ UNCHANGED <<dbManager, state, Builder, uptimeManager, uncommitted,
                       connections>>
     \/ /\ dbManager # "nil"
        /\ Builder # "nil"
        /\ Builder' = "shutdown"
        /\ uptimeManager' = IF flushed THEN "stopped" ELSE uptimeManager
        /\ connections' = IF flushed THEN {} ELSE connections
        /\ uncommitted' = (~(FlushesUptimes /\ closes) /\
                             (uncommitted \/ (err = "Commit" /\
                                                uptimeManager = "tracking")))
        /\ state' = IF closes THEN "closed" ELSE state
        /\ dbManager' = IF closes THEN "closed" ELSE dbManager
        /\ reply' = Returned("Shutdown", err)
  /\ handler' = "shutdown"
  /\ UNCHANGED <<StakingEnabled, preferred, bootstrapped, Validators, created,
                 started>>

-----------------------------------------------------------------------------
Init ==
  /\ StakingEnabled \in BOOLEAN
  /\ dbManager = "nil"
  /\ state = "nil"
  /\ Builder = "nil"
  /\ bootstrapped = FALSE
  /\ uptimeManager = "nil"
  /\ Validators = EmptyMap
  /\ preferred = "none"
  /\ connections = {}
  /\ uncommitted = FALSE
  /\ created = {}
  /\ started = 0
  /\ handler = "new"
  /\ reply = Returned("none", "nil")

Failures ==
  InitializeFailures \cup
  {"Close", "Commit", "Connect", "Disconnect", "StartTracking", "uptime.Shutdown",
   "fx.Bootstrapped", "fx.Bootstrapping"}

Answers == UNION {Reads[op] : op \in DOMAIN Reads}

Next ==
  \/ \E fail \in Failures :
       \/ Initialize(fail)
       \/ \E snowState \in SnowStates : SetState(snowState, fail)
       \/ \E vdrID \in Nodes :
            Connected(vdrID, fail) \/ Disconnected(vdrID, fail)
       \/ Shutdown(fail)
  \/ \E op \in DOMAIN Reads, err \in Answers : Read(op, err)
  \/ \E blkID \in BlockIDs : SetPreference(blkID)
  \/ \E subnetID \in Subnets : getPercentConnected(subnetID)

Spec == Init /\ [][Next]_vars

-----------------------------------------------------------------------------
\* The type invariant.  The uptime manager starts tracking at most once in
\* the life of a VM: onNormalOperationsStarted returns at once when the chain
\* is already bootstrapped.
TypeOK ==
  /\ StakingEnabled \in BOOLEAN
  /\ dbManager \in {"nil", "open", "closed"}
  /\ state \in {"nil", "open", "closed"}
  /\ Builder \in {"nil", "running", "building", "shutdown"}
  /\ preferred \in BlockIDs \cup {"none"}
  /\ bootstrapped \in BOOLEAN
  /\ uptimeManager \in {"nil", "idle", "tracking", "stopped"}
  /\ DOMAIN Validators \subseteq Tracked
  /\ connections \subseteq Nodes
  /\ uncommitted \in BOOLEAN
  /\ created \subseteq Chains
  /\ started \in 0..1
  /\ handler \in Running \cup {"new", "failed", "shutdown"}
  /\ reply \in [op : {"none", "Initialize", "SetState", "Connected",
                      "Disconnected", "Shutdown", "SetPreference",
                      "getPercentConnected"} \cup DOMAIN Reads,
                err : Failures \cup Answers \cup
                      {"ErrUnknownState", "panic", "errNoValidators",
                       "errNoPrimaryValidators", "errOverflow"},
                of : Subnets \cup {"none"},
                val : (0..MaxUint64 + 1) \X (0..MaxUint64 + 1)]

\* Uptime tracking never runs behind the back of the flag that Shutdown
\* acts on: whenever the uptime manager tracks, also after a call that
\* failed, vm.bootstrapped is up (onNormalOperationsStarted raises it
\* before the steps that can fail).  And while no call has failed the two
\* agree, tracking was started exactly once however often SetState(NormalOp)
\* came, the builder's timer runs only then, and the uptimes written so
\* far are committed: onNormalOperationsStarted and Disconnected commit
\* what StartTracking and Disconnect wrote before they return.
UptimesTrackedAndCommitted ==
  /\ uptimeManager = "tracking" => bootstrapped
  /\ handler \in Running =>
       /\ bootstrapped <=> uptimeManager = "tracking"
       /\ bootstrapped <=> Builder = "building"
       /\ started = IF bootstrapped THEN 1 ELSE 0
       /\ ~uncommitted

\* A Shutdown that reports no error has left nothing behind, also after a
\* call failed half way (a SetState(NormalOp) whose Commit failed after
\* tracking had started, a Disconnected whose Commit failed after the
\* uptime was written): the builder is shut down, tracking, if it was ever
\* started, is stopped, its writes are committed, and the state and the
\* databases are closed.
CleanShutdown ==
  reply = Returned("Shutdown", "nil") /\ dbManager # "nil" =>
    /\ Builder = "shutdown"
    /\ uptimeManager # "tracking"
    /\ ~uncommitted
    /\ state = "closed" /\ dbManager = "closed"

\* With staking, a node creates only the chains of the primary network and
\* of the subnets it is whitelisted for, also when initBlockchains fails
\* half way; and when Initialize returns without error every chain it has
\* to run has been created.
CreatedChainsAreValidated ==
  /\ StakingEnabled =>
       created \subseteq ChainsOf(WhitelistedSubnets \cup {PrimaryNetworkID})
  /\ reply = Returned("Initialize", "nil") =>
       created = ChainsOf(IF StakingEnabled
                          THEN WhitelistedSubnets \cup {PrimaryNetworkID}
                          ELSE Subnets)

\* What the health check reports is a share, also where float64 rounds
\* the two weights: an answer of getPercentConnected without error is a
\* quotient between 0 and 1 that is never 0/0; it is 1 when every validator
\* of the subnet is among the peers connected now, whatever peers came and
\* went before, and it is 0 exactly when none of them is (the test of
\* IsConnected, that of a weight of zero, and the conversion of both sums
\* before the division).  An answer of 1 does not say that every validator
\* is connected: the weight that is missing may be lost in the rounding.
PercentConnectedIsAShare ==
  reply.op = "getPercentConnected" /\ reply.err = "nil" =>
    LET vdrSet == StateValidators[reply.of]
        up == DOMAIN vdrSet \cap connections
    IN  /\ reply.val[2] > 0 /\ reply.val[1] <= reply.val[2]
        /\ up = DOMAIN vdrSet => reply.val[1] = reply.val[2]
        /\ vdrSet # EmptyMap => (reply.val[1] = 0 <=> up = {})

\* Shutdown returns nil for a VM that was never initialized (the test of
\* vm.dbManager): it is meant to be safe on a VM whose Initialize did not
\* run to its end.
ShutdownIsSafe ==
  reply # Returned("Shutdown", "panic")

=============================================================================
