------------------------------ MODULE Snowstorm ------------------------------
(***************************************************************************)
(* The conflict-graph consensus of snow/consensus/snowstorm as seen by one *)
(* node: transactions that spend the same input are mutually exclusive;    *)
(* a transaction that has collected enough consecutive successful polls    *)
(* is handed to an acceptor, which waits in the dependency resolver        *)
(* (events.Blocker) until every dependency is accepted, and is abandoned   *)
(* when one of them is rejected.                                           *)
(*                                                                         *)
(* The acceptor (Dependencies, Fulfill, Abandon, Update) is translated     *)
(* from snow/consensus/snowstorm/acceptor.go.  The conflict graph it calls *)
(* into (Directed) and the resolver that calls it (events.Blocker) are     *)
(* not part of the source tree at hand; they follow sections 4.2 to 4.4    *)
(* of the design document.                                                 *)
(*                                                                         *)
(* All calls of one instance run under one lock (section 5), so every      *)
(* call, with the whole cascade of callbacks it triggers, is one step.     *)
(***************************************************************************)
EXTENDS Naturals, FiniteSets, Sequences, SequencesExt, Graphs

CONSTANTS
  Txs,           \* the candidate transactions
  InputIDs,      \* InputIDs[tx]: the inputs tx consumes       (Tx.InputIDs)
  Dependencies,  \* Dependencies[tx]: the txs it builds on     (Tx.Dependencies)
  K,             \* sample size of a poll
  Alpha,         \* votes a transaction needs for a successful poll
  BetaVirtuous,  \* consecutive successes that finalize a virtuous tx
  BetaRogue,     \* consecutive successes that finalize a rogue tx
  MayFail        \* txs whose Accept() the VM may answer with an error

\* t depends on d is the edge <<t, d>>.
DependencyGraph ==
  [node |-> Txs, edge |-> {e \in Txs \X Txs : e[2] \in Dependencies[e[1]]}]

ASSUME /\ IsFiniteSet(Txs)
       /\ DOMAIN InputIDs = Txs /\ DOMAIN Dependencies = Txs
       /\ \A t \in Txs : Dependencies[t] \subseteq Txs
       /\ IsDag(DependencyGraph)
       /\ K \in Nat /\ Alpha \in 1..K
       /\ BetaVirtuous \in Nat \ {0} /\ BetaVirtuous <= BetaRogue
       /\ MayFail \subseteq Txs

VARIABLES
  status,      \* choices.Status of every tx
  confidence,  \* consecutive successful polls of every tx
  acceptors,   \* the acceptor of every tx that is pending acceptance
  blocker,     \* events.Blocker: id -> the txs whose acceptor waits on it
  errored,     \* wrappers.Errs shared by all acceptors of the instance
  log          \* history: the Accept() calls made on the VM, in order

vars == <<status, confidence, acceptors, blocker, errored, log>>

Unissued   == "Unissued"
Processing == "Processing"
Accepted   == "Accepted"
Rejected   == "Rejected"
Status     == {Unissued, Processing, Accepted, Rejected}

\* The state of the instance as one value, so that a call and the
\* callbacks it triggers can be composed as functions of it.
Graph ==
  [status |-> status, confidence |-> confidence, acceptors |-> acceptors,
   blocker |-> blocker, errored |-> errored, log |-> log]

Conflicts(tx) == {o \in Txs \ {tx} : InputIDs[o] \cap InputIDs[tx] # {}}

Live(g) == {t \in Txs : g.status[t] = Processing}

-----------------------------------------------------------------------------
(***************************************************************************)
(* acceptor.go                                                             *)
(***************************************************************************)

\* type acceptor: the dependencies still outstanding and the abandon flag;
\* g, errs and txID are the instance, its error and the key of the record.
NewAcceptor(deps) == [deps |-> deps, rejected |-> FALSE]

AcceptorDependencies(g, tx) == g.acceptors[tx].deps

RECURSIVE accept(_, _, _)

\* --- variant of Update that does not wait for the dependencies ---
UpdateIgnoringDeps(g, tx, failing) ==
  IF g.acceptors[tx].rejected \/ g.errored THEN g ELSE accept(g, tx, failing)

\* Update: nothing happens while the acceptor was abandoned, still waits
\* on a dependency, or an earlier accept has failed; otherwise the tx is
\* accepted and a failure of that is remembered in errs.
AcceptorUpdate(g, tx, failing) ==
  IF \/ g.acceptors[tx].rejected
     \/ AcceptorDependencies(g, tx) # {}
     \/ g.errored
  THEN g
  ELSE accept(g, tx, failing)

\* --- variant of Fulfill that forgets to re-evaluate ---
FulfillWithoutUpdate(g, tx, id, failing) ==
  [g EXCEPT !.acceptors[tx].deps = @ \ {id}]

AcceptorFulfill(g, tx, id, failing) ==
  AcceptorUpdate([g EXCEPT !.acceptors[tx].deps = @ \ {id}], tx, failing)

\* --- variant of Abandon that leaves the flag down ---
AbandonForgotten(g, tx) == g

AcceptorAbandon(g, tx) == [g EXCEPT !.acceptors[tx].rejected = TRUE]

-----------------------------------------------------------------------------
(***************************************************************************)
(* events.Blocker (section 4.3)                                            *)
(***************************************************************************)

\* Register: the entry is queued under each of its dependencies, in
\* arrival order, and evaluated at once.
BlockerRegister(g, tx, failing) ==
  LET deps == AcceptorDependencies(g, tx) IN
  AcceptorUpdate(
    [g EXCEPT !.blocker =
       [id \in Txs |-> IF id \in deps THEN Append(@[id], tx) ELSE @[id]]],
    tx, failing)

\* Fulfill: the entries waiting on id are taken off the resolver and told,
\* in the order they registered.
BlockerFulfill(g, id, failing) ==
  FoldLeft(LAMBDA h, tx : AcceptorFulfill(h, tx, id, failing),
           [g EXCEPT !.blocker[id] = <<>>], g.blocker[id])

BlockerAbandon(g, id) ==
  FoldLeft(AcceptorAbandon, [g EXCEPT !.blocker[id] = <<>>], g.blocker[id])

-----------------------------------------------------------------------------
(***************************************************************************)
(* The conflict graph (sections 4.2 and 4.4)                               *)
(***************************************************************************)

\* The live txs that build, directly or through other live txs, on one of
\* the txs in seed: rejection of a dependency is rejection of the dependent.
RECURSIVE Doomed(_, _)
Doomed(g, seed) ==
  LET more == {t \in Live(g) \ seed : Dependencies[t] \cap seed # {}}
  IN  IF more = {} THEN seed ELSE Doomed(g, seed \cup more)

\* reject: the conflicts and everything that builds on them become
\* Rejected, and every entry waiting on one of them is abandoned.  No
\* callback of Abandon changes anything but a flag, so the order in which
\* the set is walked does not show in the result.
reject(g, conflicts) ==
  LET gone == Doomed(g, conflicts \cap Live(g))
      g1   == [g EXCEPT !.status =
                 [t \in Txs |-> IF t \in gone THEN Rejected ELSE @[t]]]
  IN  FoldLeft(BlockerAbandon, g1, SetToSeq(gone))

Call(tx, ok) == [tx |-> tx, ok |-> ok]

\* --- variant of accept without the check that tx is still processing ---
acceptWhateverStatus(g, tx, failing) ==
  IF tx \in failing
  THEN [g EXCEPT !.errored = TRUE, !.log = Append(@, Call(tx, FALSE))]
  ELSE BlockerFulfill(
         reject([g EXCEPT !.status[tx] = Accepted,
                          !.log = Append(@, Call(tx, TRUE))],
                Conflicts(tx)),
         tx, failing)

\* accept: a tx that was decided in the meantime is left alone; a VM
\* failure is returned to the acceptor; otherwise the tx becomes Accepted,
\* its conflicts are rejected in the same call, and the entries waiting on
\* it are fulfilled, which may accept further txs.
accept(g, tx, failing) ==
  IF g.status[tx] # Processing THEN g
  ELSE IF tx \in failing
  THEN [g EXCEPT !.errored = TRUE, !.log = Append(@, Call(tx, FALSE))]
  ELSE BlockerFulfill(
         reject([g EXCEPT !.status[tx] = Accepted,
                          !.log = Append(@, Call(tx, TRUE))],
                Conflicts(tx)),
         tx, failing)

\* deferAcceptance: the finalized tx gets an acceptor that waits on the
\* dependencies that are not accepted yet.
deferAcceptance(g, tx, failing) ==
  LET deps == {d \in Dependencies[tx] : g.status[d] # Accepted} IN
  BlockerRegister(
    [g EXCEPT !.acceptors = (tx :> NewAcceptor(deps)) @@ @], tx, failing)

\* A tx is rogue while a conflicting tx is live, virtuous otherwise.
Beta(g, tx) ==
  IF Conflicts(tx) \cap Live(g) # {} THEN BetaRogue ELSE BetaVirtuous

\* --- variant that also counts the polls of a tx pending acceptance ---
RecordPollOfPending(g, tx, failing) ==
  IF tx \notin Live(g) THEN g
  ELSE LET g1 == [g EXCEPT !.confidence[tx] = @ + 1] IN
       IF g1.confidence[tx] >= Beta(g1, tx)
       THEN deferAcceptance(g1, tx, failing)
       ELSE g1

\* One tx of a successful poll: txs decided earlier in the same poll and
\* txs that are already pending acceptance are skipped.
RecordSuccessfulPoll(g, tx, failing) ==
  IF tx \notin Live(g) \/ tx \in DOMAIN g.acceptors THEN g
  ELSE LET g1 == [g EXCEPT !.confidence[tx] = @ + 1] IN
       IF g1.confidence[tx] >= Beta(g1, tx)
       THEN deferAcceptance(g1, tx, failing)
       ELSE g1

\* A poll that did not reach Alpha for tx breaks its run of successes.
RecordUnsuccessfulPoll(g, met) ==
  [g EXCEPT !.confidence =
     [t \in Txs |-> IF t \in Live(g) \ met /\ t \notin DOMAIN g.acceptors
                    THEN 0 ELSE @[t]]]

Becomes(g) ==
  /\ status' = g.status
  /\ confidence' = g.confidence
  /\ acceptors' = g.acceptors
  /\ blocker' = g.blocker
  /\ errored' = g.errored
  /\ log' = g.log

-----------------------------------------------------------------------------
Init ==
  /\ status = [t \in Txs |-> Unissued]
  /\ confidence = [t \in Txs |-> 0]
  /\ acceptors = <<>>
  /\ blocker = [t \in Txs |-> <<>>]
  /\ errored = FALSE
  /\ log = <<>>

\* Add(tx): refused for a tx that was added or decided before
\* (AlreadyDecided) and for one whose dependency is not known
\* (UnknownDependency).  The VM verifies a tx before it is added, so a tx
\* that builds on a rejected tx or spends an input of an accepted one
\* never arrives here.
Add(tx) ==
  /\ ~errored
  /\ status[tx] = Unissued
  /\ \A d \in Dependencies[tx] : status[d] \in {Processing, Accepted}
  /\ \A c \in Conflicts(tx) : status[c] # Accepted
  /\ status' = [status EXCEPT ![tx] = Processing]
  /\ UNCHANGED <<confidence, acceptors, blocker, errored, log>>

\* The sets of txs that can reach Alpha in one poll: every sampled peer
\* names one conflict-free set, so two conflicting txs can both reach
\* Alpha only if 2 * Alpha <= K.
Tallies ==
  {met \in SUBSET Live(Graph) :
     2 * Alpha > K => \A t \in met : Conflicts(t) \cap met = {}}

\* RecordPoll: the txs that reached Alpha are walked in the order the
\* vote bag yields them, each applied in full before the next.  An error
\* of the VM is returned to the engine, which stops the chain: nothing
\* is called after errored.
RecordPoll(met, order, failing) ==
  /\ ~errored
  /\ met \in Tallies
  /\ order \in SetToSeqs(met)
  /\ Becomes(FoldLeft(LAMBDA g, tx : RecordSuccessfulPoll(g, tx, failing),
                      RecordUnsuccessfulPoll(Graph, met), order))

Next ==
  \/ \E tx \in Txs : Add(tx)
  \/ \E met \in SUBSET Txs, failing \in SUBSET MayFail :
       \E order \in SetToSeqs(met) : RecordPoll(met, order, failing)

Spec == Init /\ [][Next]_vars

-----------------------------------------------------------------------------
\* The type invariant.  A confidence never passes BetaRogue: a transaction is
\* handed to its acceptor in the poll that brings it to its beta, and
\* RecordPoll counts only transactions that are still being processed.
TypeOK ==
  /\ status \in [Txs -> Status]
  /\ confidence \in [Txs -> 0..BetaRogue]
  /\ DOMAIN acceptors \subseteq Txs
  /\ \A t \in DOMAIN acceptors :
       acceptors[t] \in [deps : SUBSET Txs, rejected : BOOLEAN]
  /\ blocker \in [Txs -> Seq(Txs)]
  /\ errored \in BOOLEAN
  /\ log \in Seq([tx : Txs, ok : BOOLEAN])

\* At most one member of a conflict set is ever accepted: accept rejects
\* the live conflicts in the same call and ignores a tx that a conflict has
\* already displaced, even when its acceptor fires later.
ConflictSafety ==
  \A t \in Txs : status[t] = Accepted =>
     \A c \in Conflicts(t) : status[c] # Accepted

\* The calls of Accept() are in order: the VM sees Accept() of a tx only
\* after Accept() of each of its dependencies has succeeded, and once a
\* call has failed no acceptor calls into the VM again, not even those
\* that the same Fulfill still has to visit (acceptor.Update fires only
\* when deps has drained and errs.Errored() is false).
AcceptCallsInOrder ==
  \A i \in DOMAIN log :
     IF log[i].ok
     THEN \A d \in Dependencies[log[i].tx] :
             \E j \in 1..(i - 1) : log[j] = Call(d, TRUE)
     ELSE i = Len(log)

\* No wake-up is lost: a live tx whose acceptor has not been abandoned
\* still waits on something, everything it waits on is itself live, and
\* the resolver still holds it there (Fulfill re-evaluates the acceptor,
\* deferAcceptance leaves accepted dependencies out).
NoLostWakeup ==
  ~errored =>
    \A t \in DOMAIN acceptors \cap Live(Graph) :
       /\ ~acceptors[t].rejected
       /\ acceptors[t].deps # {}
       /\ \A d \in acceptors[t].deps :
            status[d] = Processing /\ Contains(blocker[d], t)

\* Abandonment propagates: a tx that builds on a rejected one is never
\* accepted and is not left processing, and the acceptor that was waiting
\* for it has been told so: acceptor.Abandon has raised its flag, whether
\* the dependency lost its conflict before or after the acceptor was
\* registered and whatever was fulfilled in between, so that Update would
\* refuse it on the flag alone.
AbandonPropagates ==
  \A t \in Txs :
     (\E d \in Dependencies[t] : status[d] = Rejected) =>
        /\ status[t] \in {Unissued, Rejected}
        /\ t \in DOMAIN acceptors => acceptors[t].rejected

\* A decision is final: no call moves a tx out of Accepted or Rejected
\* (Add refuses decided txs, accept ignores them).
DecisionsAreFinal ==
  [][\A t \in Txs : status[t] \in {Accepted, Rejected} =>
        status'[t] = status[t]]_vars

=============================================================================
