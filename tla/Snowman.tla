------------------------------ MODULE Snowman ------------------------------
(***************************************************************************)
(* The chain consensus of snow/consensus/snowman as seen by one node: a    *)
(* tree of blocks that hangs from the last accepted block, one snowball    *)
(* node for the children of every block that has any, and the accepted     *)
(* chain that grows by one block whenever the decision below its tip is    *)
(* finalized.                                                              *)
(*                                                                         *)
(* Of the package only topological_test.go is in the source tree, and the  *)
(* engine's Config (snow/engine/snowman/config.go) that names it.  Add,    *)
(* RecordPoll and Preference follow sections 3, 4.5 and 6 of the design    *)
(* document.  All calls of one instance run under one lock (section 5),    *)
(* so a call, with the blocks it accepts and rejects, is one step.         *)
(*                                                                         *)
(* Only the collection of votes is concurrent (section 5): a poll asks K   *)
(* peers, every peer answers or its query fails at the deadline, and the   *)
(* tally of the K outcomes is then handed to RecordPoll.  Polls for        *)
(* different decisions are in flight together, so a tally can arrive for   *)
(* a decision that another poll has settled or pruned meanwhile.           *)
(***************************************************************************)
EXTENDS Naturals, FiniteSets, Sequences, SequencesExt, Graphs

CONSTANTS
  Blocks,        \* the ids of the candidate blocks
  Genesis,       \* the block the chain starts from, accepted before Initialize
  Parent,        \* Parent[b]: the block b builds on
  K,             \* snowball.Parameters, as in Snowball
  Alpha,
  BetaVirtuous,
  BetaRogue,
  ConcurrentRepolls  \* the polls that may be in flight together

\* The decision below a block is a snowball node.
Node == INSTANCE Snowball

\* b builds on p is the edge <<b, p>>.
BlockGraph ==
  [node |-> Blocks \cup {Genesis},
   edge |-> {e \in Blocks \X (Blocks \cup {Genesis}) : e[2] = Parent[e[1]]}]

ASSUME /\ IsFiniteSet(Blocks) /\ Blocks \subseteq Nat /\ Genesis \notin Blocks
       /\ Parent \in [Blocks -> Blocks \cup {Genesis}]
       /\ IsDag(BlockGraph)
       /\ ConcurrentRepolls \in Nat \ {0}

VARIABLES
  status,        \* choices.Status of every block
  nodes,         \* the snowball node of every block that has children
  lastAccepted,  \* the tip of the accepted chain, the root of the tree
  chain,         \* history: the blocks in the order they were accepted
  polls          \* the polls in flight, by the block whose children they
                 \* are about: the votes so far and the queries still out

treeVars == <<status, nodes, lastAccepted, chain>>
vars == <<treeVars, polls>>

Unissued   == "Unissued"
Processing == "Processing"
Accepted   == "Accepted"
Rejected   == "Rejected"
Status     == {Unissued, Processing, Accepted, Rejected}

\* The instance as one value, so that a poll and the acceptances that
\* follow from it compose as functions of it.
Tree ==
  [status |-> status, nodes |-> nodes, lastAccepted |-> lastAccepted,
   chain |-> chain]

Children(p) == {b \in Blocks : Parent[b] = p}

\* The tree holds the last accepted block and the blocks being processed.
InTree(t, b) ==
  b = t.lastAccepted \/ (b \in Blocks /\ t.status[b] = Processing)

\* The sibling set below p: its children that are in the tree.
Siblings(t, p) == {b \in Children(p) : t.status[b] = Processing}

\* The blocks of seed and every block that builds on one of them.
RECURSIVE Subtree(_)
Subtree(seed) ==
  LET more == {b \in Blocks \ seed : Parent[b] \in seed}
  IN  IF more = {} THEN seed ELSE Subtree(seed \cup more)

\* --- variant: the siblings are rejected, what builds on them stays ---
SiblingsOf(t, b) == Siblings(t, Parent[b]) \ {b}

\* What the acceptance of b rejects: the siblings of b in the tree and
\* all that builds on them.
Conflicting(t, b) ==
  {c \in Subtree(Children(Parent[b]) \ {b}) : t.status[c] = Processing}

\* accept: the child b of the tip becomes the tip; what conflicts with it
\* is rejected and leaves the tree with its nodes, as does the node that
\* decided for b.
accept(t, b) ==
  LET gone == Conflicting(t, b)
  IN  [status |-> [c \in Blocks |-> IF c = b THEN Accepted
                                    ELSE IF c \in gone THEN Rejected
                                    ELSE t.status[c]],
       nodes |-> Restrict(t.nodes, DOMAIN t.nodes \ (gone \cup {Parent[b]})),
       lastAccepted |-> b,
       chain |-> Append(t.chain, b)]

\* --- variant: one block is accepted in a call ---
settleOnce(t) ==
  LET p == t.lastAccepted
  IN  IF p \in DOMAIN t.nodes /\ t.nodes[p].finalized
      THEN accept(t, t.nodes[p].preference) ELSE t

\* --- variant: a finalized decision is carried out wherever it is ---
RECURSIVE settleAnywhere(_)
settleAnywhere(t) ==
  LET done == {p \in DOMAIN t.nodes : t.nodes[p].finalized}
  IN  IF done = {} THEN t
      ELSE settleAnywhere(
             accept(t, t.nodes[CHOOSE p \in done : TRUE].preference))

\* Acceptance goes by height: while the decision below the tip is
\* finalized its choice is accepted, so that a decision that was finalized
\* before the parent was accepted is carried out with the parent.
RECURSIVE settle(_)
settle(t) ==
  LET p == t.lastAccepted
  IN  IF p \in DOMAIN t.nodes /\ t.nodes[p].finalized
      THEN settle(accept(t, t.nodes[p].preference)) ELSE t

\* A decision is contested while the block has more than one child.
Beta(t, p) ==
  IF Cardinality(Siblings(t, p)) > 1 THEN BetaRogue ELSE BetaVirtuous

\* Preference(): the tip of the preferred chain, which follows the
\* preference of every decision from the last accepted block down.
RECURSIVE PreferredFrom(_, _)
PreferredFrom(t, b) ==
  IF b \in DOMAIN t.nodes THEN PreferredFrom(t, t.nodes[b].preference) ELSE b

Preference == PreferredFrom(Tree, lastAccepted)

Becomes(t) ==
  /\ status' = t.status
  /\ nodes' = t.nodes
  /\ lastAccepted' = t.lastAccepted
  /\ chain' = t.chain

-----------------------------------------------------------------------------
Init ==
  /\ status = [b \in Blocks |-> Unissued]
  /\ nodes = <<>>
  /\ lastAccepted = Genesis
  /\ chain = <<>>
  /\ polls = <<>>

\* Add(block): refused for a block that was added before (AlreadyDecided)
\* and for one whose parent is not in the tree (UnknownParent): the tree
\* holds the last accepted block and what is processing, everything
\* decided earlier has left it.  The first child of a block makes the node
\* of the decision below it and is its preference.
Add(b) ==
  /\ status[b] = Unissued
  /\ InTree(Tree, Parent[b])
  /\ status' = [status EXCEPT ![b] = Processing]
  /\ nodes' = IF Parent[b] \in DOMAIN nodes THEN nodes
              ELSE (Parent[b] :> Node!NewNode(b)) @@ nodes
  /\ UNCHANGED <<lastAccepted, chain, polls>>

\* sendQuery: K peers are asked what they prefer below p, while fewer
\* than ConcurrentRepolls polls are in flight and none for p.
SendQuery(p) ==
  /\ p \in DOMAIN nodes \ DOMAIN polls
  /\ Cardinality(DOMAIN polls) < ConcurrentRepolls
  /\ polls' = (p :> [tally |-> [c \in Children(p) |-> 0], out |-> K]) @@ polls
  /\ UNCHANGED treeVars

\* Chits: a peer answers with a block, which counts for the child c of p
\* it builds on.  A block this node has not been given yet leads to no
\* decision and is what QueryFailed is for the poll.
Chits(p, c) ==
  /\ p \in DOMAIN polls /\ polls[p].out > 0
  /\ c \in Children(p) /\ status[c] # Unissued
  /\ polls' = [polls EXCEPT ![p].tally[c] = @ + 1, ![p].out = @ - 1]
  /\ UNCHANGED treeVars

\* QueryFailed: the deadline of a query passes without an answer.
QueryFailed(p) ==
  /\ p \in DOMAIN polls /\ polls[p].out > 0
  /\ polls' = [polls EXCEPT ![p].out = @ - 1]
  /\ UNCHANGED treeVars

\* RecordPoll(decisionKey, tally): the poll for p has its K outcomes and
\* its tally is handed to the node of the decision, and whatever is
\* finalized below the tip is accepted.  A tally for a decision that is
\* no longer in the tree changes nothing; votes count for the children
\* that are in the tree now.
RecordPoll(p) ==
  /\ p \in DOMAIN polls /\ polls[p].out = 0
  /\ polls' = Restrict(polls, DOMAIN polls \ {p})
  /\ IF p \in DOMAIN nodes
     THEN Becomes(settle([Tree EXCEPT !.nodes[p] =
            Node!RecordPoll(@, Restrict(polls[p].tally, Siblings(Tree, p)),
                            Beta(Tree, p))]))
     ELSE UNCHANGED treeVars

Next ==
  \/ \E b \in Blocks : Add(b)
  \/ \E p \in DOMAIN nodes : SendQuery(p)
  \/ \E p \in DOMAIN polls :
       \/ \E c \in Children(p) : Chits(p, c)
       \/ QueryFailed(p)
       \/ RecordPoll(p)

Spec == Init /\ [][Next]_vars

-----------------------------------------------------------------------------
\* The type invariant.  A confidence never passes BetaRogue: the node is
\* finalized by the poll that brings it to its beta, and the beta of a
\* decision only grows as siblings are added.
TypeOK ==
  /\ status \in [Blocks -> Status]
  /\ DOMAIN nodes \subseteq Blocks \cup {Genesis}
  /\ \A p \in DOMAIN nodes :
       nodes[p] \in [preference : Children(p), confidence : 0..BetaRogue,
                     finalized : BOOLEAN]
  /\ lastAccepted \in Blocks \cup {Genesis}
  /\ chain \in Seq(Blocks)
  /\ DOMAIN polls \subseteq Blocks \cup {Genesis}
  /\ Cardinality(DOMAIN polls) <= ConcurrentRepolls
  /\ \A p \in DOMAIN polls :
       /\ polls[p] \in [tally : Node!Tallies(Children(p)), out : 0..K]
       /\ SumFunction(polls[p].tally) + polls[p].out <= K

\* The accepted blocks form one path from genesis, accepted in the order of
\* their heights, with the last accepted block at its end: a decision that
\* is finalized below a block that is still processing is not carried out
\* before that block is accepted, and never if it is rejected.
AcceptedIsOneRootedPath ==
  /\ {b \in Blocks : status[b] = Accepted} = ToSet(chain)
  /\ \A i \in DOMAIN chain :
       Parent[chain[i]] = IF i = 1 THEN Genesis ELSE chain[i - 1]
  /\ lastAccepted = IF chain = <<>> THEN Genesis ELSE Last(chain)

\* The tree hangs from the last accepted block: a block that is processing
\* builds on it or on a processing block, so that nothing is left under a
\* rejected block or beside the accepted chain; and exactly the blocks
\* with children in the tree have a node, which prefers one of them, so
\* that Preference() is a block of the tree.
TreeHangsFromLastAccepted ==
  /\ \A b \in Blocks : status[b] = Processing => InTree(Tree, Parent[b])
  /\ DOMAIN nodes = {p \in Blocks \cup {Genesis} : Siblings(Tree, p) # {}}
  /\ \A p \in DOMAIN nodes : nodes[p].preference \in Siblings(Tree, p)

\* No decision is left behind: the decision below the last accepted block
\* is never finalized between two calls.  A decision that was finalized
\* while its block was still processing is carried out in the call that
\* accepts the block; no later poll would do it, since a finalized node
\* ignores polls.
NoDecisionLeftBehind ==
  lastAccepted \in DOMAIN nodes => ~nodes[lastAccepted].finalized

\* A decision is final: no call moves a block out of Accepted or Rejected,
\* and a finalized node never changes again, whatever is polled for its
\* decision while the blocks above it are still voted on (RecordPoll for
\* the key of a finalized node is a no-op).
DecisionsAreFinal ==
  [][/\ \A b \in Blocks : status[b] \in {Accepted, Rejected} =>
          status'[b] = status[b]
     /\ \A p \in DOMAIN nodes \cap DOMAIN nodes' :
          nodes[p].finalized => nodes'[p] = nodes[p]]_vars

=============================================================================
