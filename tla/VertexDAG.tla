------------------------------ MODULE VertexDAG ------------------------------
(***************************************************************************)
(* The vertex DAG of snow/consensus/coinflect on top of the conflict graph *)
(* of Snowstorm: a vertex names its parents and carries transactions       *)
(* (vertex.go, test_vertex.go); it is accepted once every parent and every *)
(* transaction in it is accepted, and rejected with the first of them that *)
(* is rejected.                                                            *)
(*                                                                         *)
(* Only the Vertex interface and its test double are in the source tree.   *)
(* The acceptance of vertices follows section 4.4 of the design document:  *)
(* a vertex waits in a dependency resolver of its own, which the conflict  *)
(* graph tells of every transaction it accepts or rejects, in the call     *)
(* that decides the transaction.  Nothing a vertex does changes a          *)
(* transaction, so a call of the conflict graph is the step of Snowstorm   *)
(* followed, in the same step, by what the resolver makes of its outcome.  *)
(***************************************************************************)
EXTENDS Snowstorm

CONSTANTS
  Vtxs,     \* the candidate vertices
  Parents,  \* Parents[v]: the vertices v builds on         (TestVertex.ParentsV)
  VtxTxs    \* VtxTxs[v]: the transactions v carries        (TestVertex.TxsV)

ParentGraph ==
  [node |-> Vtxs, edge |-> {e \in Vtxs \X Vtxs : e[2] \in Parents[e[1]]}]

ASSUME /\ IsFiniteSet(Vtxs) /\ Vtxs \cap Txs = {}
       /\ Parents \in [Vtxs -> SUBSET Vtxs]
       /\ VtxTxs \in [Vtxs -> SUBSET Txs]
       /\ IsDag(ParentGraph)

VARIABLES
  vtxStatus,   \* choices.Status of every vertex
  waiting,     \* the resolver's entry of a vertex: what it still waits on
  vtxBlocker,  \* the resolver: id -> the vertices that wait on it, in order
  vtxLog       \* history: the vertices in the order they were accepted

dagVars == <<vtxStatus, waiting, vtxBlocker, vtxLog>>

\* The ids a vertex can wait on.
Items == Txs \cup Vtxs

\* The vertex layer as one value, as Graph is for the transactions.
Dag ==
  [status |-> vtxStatus, waiting |-> waiting, blocker |-> vtxBlocker,
   log |-> vtxLog]

VertexParents(v) == Parents[v]

VertexTxs(v) == VtxTxs[v]

-----------------------------------------------------------------------------
(***************************************************************************)
(* The resolver of the vertices (sections 4.3 and 4.4)                     *)
(***************************************************************************)

RECURSIVE VtxFulfill(_, _)

\* --- variant: a vertex is accepted with the first dependency that drains ---
VtxUpdateOnAnyFulfill(d, v) ==
  IF d.status[v] # Processing THEN d
  ELSE VtxFulfill([d EXCEPT !.status[v] = Accepted, !.log = Append(@, v)], v)

\* The entry is evaluated: a vertex that waits on nothing any more, and was
\* not abandoned, is accepted, and the vertices waiting on it are told.
VtxUpdate(d, v) ==
  IF d.status[v] # Processing \/ d.waiting[v] # {} THEN d
  ELSE VtxFulfill([d EXCEPT !.status[v] = Accepted, !.log = Append(@, v)], v)

\* Fulfill(id): the entries waiting on id are taken off the resolver, lose
\* the dependency and are evaluated, in the order they registered.
VtxFulfill(d, id) ==
  FoldLeft(LAMBDA e, v : VtxUpdate([e EXCEPT !.waiting[v] = @ \ {id}], v),
           [d EXCEPT !.blocker[id] = <<>>], d.blocker[id])

RECURSIVE VtxAbandon(_, _)
\* Abandon(id): every entry waiting on id is abandoned for good, which
\* rejects its vertex and abandons, in turn, whatever waits on that.
VtxAbandon(d, id) ==
  FoldLeft(LAMBDA e, v : IF e.status[v] # Processing THEN e
                         ELSE VtxAbandon([e EXCEPT !.status[v] = Rejected], v),
           [d EXCEPT !.blocker[id] = <<>>], d.blocker[id])

\* What a vertex has to wait for when it is registered.
Outstanding(d, g, v) ==
  {p \in VertexParents(v) : d.status[p] # Accepted} \cup
  {t \in VertexTxs(v) : g.status[t] # Accepted}

\* --- variant: the vertex waits on all it names, accepted or not ---
VtxRegisterOnAll(d, v, deps) ==
  LET all == VertexParents(v) \cup VertexTxs(v) IN
  VtxUpdate([d EXCEPT !.status[v] = Processing, !.waiting[v] = all,
                      !.blocker = [id \in Items |->
                         IF id \in all THEN Append(@[id], v) ELSE @[id]]], v)

\* Register: the vertex is queued under each of its dependencies and
\* evaluated at once.
VtxRegister(d, v, deps) ==
  VtxUpdate([d EXCEPT !.status[v] = Processing, !.waiting[v] = deps,
                      !.blocker = [id \in Items |->
                         IF id \in deps THEN Append(@[id], v) ELSE @[id]]], v)

\* What the resolver makes of a call of the conflict graph that took it
\* from g to h: the transactions the call rejected are abandoned, the ones
\* it accepted fulfilled in the order the log of h has them.
Settle(d, g, h) ==
  LET gone == {t \in Txs : g.status[t] # Rejected /\ h.status[t] = Rejected}
      came == SelectSeq(SubSeq(h.log, Len(g.log) + 1, Len(h.log)),
                        LAMBDA c : c.ok)
  IN  FoldLeft(LAMBDA e, c : VtxFulfill(e, c.tx),
               FoldLeft(VtxAbandon, d, SetToSeq(gone)), came)

DagBecomes(d) ==
  /\ vtxStatus' = d.status
  /\ waiting' = d.waiting
  /\ vtxBlocker' = d.blocker
  /\ vtxLog' = d.log

-----------------------------------------------------------------------------
DagInit ==
  /\ Init
  /\ vtxStatus = [v \in Vtxs |-> Unissued]
  /\ waiting = [v \in Vtxs |-> {}]
  /\ vtxBlocker = [id \in Items |-> <<>>]
  /\ vtxLog = <<>>

\* Add(vertex): refused for a vertex that was added before (AlreadyDecided)
\* and for one with a parent or a transaction that is not known
\* (UnknownParent, UnknownDependency).  A vertex is verified before it is
\* added, so one that names a rejected parent or transaction never arrives.
AddVertex(v) ==
  /\ ~errored
  /\ vtxStatus[v] = Unissued
  /\ \A p \in VertexParents(v) : vtxStatus[p] \in {Processing, Accepted}
  /\ \A t \in VertexTxs(v) : status[t] \in {Processing, Accepted}
  /\ DagBecomes(VtxRegister(Dag, v, Outstanding(Dag, Graph, v)))
  /\ UNCHANGED vars

\* A call of the conflict graph, and what the vertices make of it.
ConflictGraphStep ==
  /\ Next
  /\ DagBecomes(Settle(Dag, Graph, [status |-> status', log |-> log']))

DagNext ==
  \/ ConflictGraphStep
  \/ \E v \in Vtxs : AddVertex(v)

DagSpec == DagInit /\ [][DagNext]_<<vars, dagVars>>

-----------------------------------------------------------------------------
\* The type invariant of both layers.  The log holds no vertex twice: the
\* entry of a vertex fires once, since Fulfill takes it off the resolver
\* and VtxUpdate leaves a decided vertex alone.
DagTypeOK ==
  /\ TypeOK
  /\ vtxStatus \in [Vtxs -> Status]
  /\ waiting \in [Vtxs -> SUBSET Items]
  /\ vtxBlocker \in [Items -> Seq(Vtxs)]
  /\ vtxLog \in Seq(Vtxs) /\ IsInjective(vtxLog)

\* Acceptance of vertices is topological: when a vertex is accepted, each
\* of its parents was accepted before it and each of its transactions is
\* accepted, whether they were decided before the vertex was added, in the
\* same call or calls apart (a vertex whose transaction has drained still
\* waits for its parent).
VerticesAcceptedTopologically ==
  \A i \in DOMAIN vtxLog :
     /\ \A p \in VertexParents(vtxLog[i]) :
          \E j \in 1..(i - 1) : vtxLog[j] = p
     /\ \A t \in VertexTxs(vtxLog[i]) : status[t] = Accepted

\* No vertex is left behind: while no call has failed, a vertex that is
\* still processing waits on something, everything it waits on is itself
\* undecided, and the resolver holds the vertex there.  So a vertex added
\* after its parent was accepted does not wait for a Fulfill that has
\* already happened, and a vertex is rejected in the call that rejects one
\* of its transactions or parents.
NoVertexLeftBehind ==
  ~errored =>
    \A v \in Vtxs : vtxStatus[v] = Processing =>
       /\ waiting[v] # {}
       /\ \A id \in waiting[v] :
            /\ Contains(vtxBlocker[id], v)
            /\ IF id \in Txs THEN status[id] = Processing
                             ELSE vtxStatus[id] = Processing

=============================================================================
