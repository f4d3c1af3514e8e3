------------------------------ MODULE Consensus ------------------------------
(***************************************************************************)
(* The consensus instance of one chain of the node.  The engine of a chain *)
(* is configured with the parameters of snowball and with one consensus:   *)
(* a vertex DAG over a conflict graph (snow/engine/coinflect/config.go) or *)
(* a chain of blocks (snow/engine/snowman/config.go).  Instances share no  *)
(* state and no lock (section 5 of the design document), so a behaviour is *)
(* that of one instance of either kind; the other kind stays as it was     *)
(* initialized.                                                            *)
(***************************************************************************)
EXTENDS VertexDAG

CONSTANTS
  Blocks,            \* the ids of the candidate blocks      (Snowman)
  Genesis,           \* the block the chain starts from
  Parent,            \* Parent[b]: the block b builds on
  ConcurrentRepolls  \* the polls in flight together

VARIABLES
  consensus,     \* Config.Consensus: the kind of instance the engine has
  blkStatus,     \* the variables of Snowman
  nodes,
  lastAccepted,
  chain,
  polls

chainVars == <<blkStatus, nodes, lastAccepted, chain, polls>>

engineVars == <<consensus, vars, dagVars, chainVars>>

\* Config.Params is one for both kinds.
Chain == INSTANCE Snowman WITH status <- blkStatus

\* coinflect.Config and snowman.Config: what Config.Consensus can hold.
Kinds == {"coinflect.Consensus", "snowman.Consensus"}

EngineInit ==
  /\ consensus \in Kinds
  /\ DagInit
  /\ Chain!Init

EngineNext ==
  \/ /\ consensus = "coinflect.Consensus"
     /\ DagNext
     /\ UNCHANGED <<consensus, chainVars>>
  \/ /\ consensus = "snowman.Consensus"
     /\ Chain!Next
     /\ UNCHANGED <<consensus, vars, dagVars>>

EngineSpec == EngineInit /\ [][EngineNext]_engineVars

-----------------------------------------------------------------------------
\* The type invariant of an instance of either kind; see DagTypeOK and
\* TypeOK of Snowman for what it says beyond the types: no vertex is
\* accepted twice, and no confidence passes BetaRogue.
EngineTypeOK ==
  /\ consensus \in Kinds
  /\ DagTypeOK
  /\ Chain!TypeOK

\* Snowman: the accepted blocks form one path from genesis, accepted in
\* the order of their heights; a decision finalized below a processing
\* block is not carried out before that block is accepted.
AcceptedIsOneRootedPath == Chain!AcceptedIsOneRootedPath

\* Snowman: every processing block builds on the last accepted block or on
\* a processing block, nothing is left under a rejected block, and
\* Preference() is a block of the tree.
TreeHangsFromLastAccepted == Chain!TreeHangsFromLastAccepted

\* Snowman: a decision that was finalized while its block was processing
\* is carried out in the call that accepts the block (settle).
NoDecisionLeftBehind == Chain!NoDecisionLeftBehind

\* No decision is revised: no call moves a transaction or a block out of
\* Accepted or Rejected (Add refuses what was decided, accept ignores it),
\* and a finalized snowball node never changes again (RecordPoll for its
\* key is a no-op).
NoDecisionIsRevised == DecisionsAreFinal /\ Chain!DecisionsAreFinal

=============================================================================
