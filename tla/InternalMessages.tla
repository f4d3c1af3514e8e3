--------------------------- MODULE InternalMessages ---------------------------
(***************************************************************************)
(* The messages a node sends to itself (message/internal_msg_builder.go)   *)
(* and the request bookkeeping they serve.  A chain that sends a request   *)
(* registers the failure message the builder makes for it; the router      *)
(* hands the chain either the response, if it comes while the request is   *)
(* registered, or, at the deadline, the failure message.  A chain can also *)
(* ask another chain of the same node; request, response and failure are   *)
(* then all made by the builder.  Connections, VM notifications, gossip    *)
(* and timeout ticks reach a chain as internal messages too.               *)
(*                                                                         *)
(* Every chain has a handler that takes the messages of its queue in       *)
(* order and drops a message whose expiration has passed.  The router, the *)
(* timeout manager, the sender and the handler are not part of the source  *)
(* tree at hand; they are reduced to what they do with these messages.     *)
(***************************************************************************)
EXTENDS Naturals, FiniteSets, Sequences, SequencesExt

CONSTANTS
  Chains,       \* the chains of this node
  Self,         \* ids.NodeID of this node
  Peers,        \* ids.NodeID of the other nodes
  Deadline,     \* ticks a request is given
  MaxTime,      \* bound: ticks of the clock in a behaviour
  MaxRequests,  \* bound: requests sent in a behaviour
  MaxEvents     \* bound: connection and other internal events

ASSUME /\ Deadline \in Nat \ {0} /\ MaxTime \in Nat
       /\ MaxRequests \in Nat /\ MaxEvents \in Nat
       /\ Self \notin Peers

VARIABLES
  now,         \* the clock
  queue,       \* queue[chain]: the messages its handler has not taken yet
  registered,  \* the requests the timeout manager holds
  sent,        \* history: every request that was sent
  delivered,   \* history: delivered[chain], the outcomes handed to its engine
  connected,   \* the peers the network is connected to
  view,        \* view[chain]: the peers the chain was told are connected
  noted,       \* history: the other internal messages handed to an engine
  events       \* history: the number of internal events so far

vars == <<now, queue, registered, sent, delivered, connected, view, noted,
          events>>

\* mockable.MaxTime: later than every time of the clock.
MaxTimeStamp == MaxTime + Deadline + 1

-----------------------------------------------------------------------------
(***************************************************************************)
(* internal_msg_builder.go                                                 *)
(***************************************************************************)

\* An inboundMessage.
Inbound(nodeID, op, message, expiration) ==
  [nodeID |-> nodeID, op |-> op, message |-> message,
   expiration |-> expiration]

\* The eight failures of a request to a peer: the chain and the request.
Failed(op, nodeID, chainID, requestID) ==
  Inbound(nodeID, op, [ChainID |-> chainID, RequestID |-> requestID],
          MaxTimeStamp)

InternalGetStateSummaryFrontierFailed(nodeID, chainID, requestID) ==
  Failed("GetStateSummaryFrontierFailedOp", nodeID, chainID, requestID)

InternalGetAcceptedStateSummaryFailed(nodeID, chainID, requestID) ==
  Failed("GetAcceptedStateSummaryFailedOp", nodeID, chainID, requestID)

InternalGetAcceptedFrontierFailed(nodeID, chainID, requestID) ==
  Failed("GetAcceptedFrontierFailedOp", nodeID, chainID, requestID)

InternalGetAcceptedFailed(nodeID, chainID, requestID) ==
  Failed("GetAcceptedFailedOp", nodeID, chainID, requestID)

InternalGetAncestorsFailed(nodeID, chainID, requestID) ==
  Failed("GetAncestorsFailedOp", nodeID, chainID, requestID)

InternalGetFailed(nodeID, chainID, requestID) ==
  Failed("GetFailedOp", nodeID, chainID, requestID)

InternalQueryFailed(nodeID, chainID, requestID) ==
  Failed("QueryFailedOp", nodeID, chainID, requestID)

InternalAppRequestFailed(nodeID, chainID, requestID) ==
  Failed("AppRequestFailedOp", nodeID, chainID, requestID)

\* The three messages between chains name both chains.
CrossChain(sourceChainID, destinationChainID, requestID) ==
  [SourceChainID |-> sourceChainID, DestinationChainID |-> destinationChainID,
   RequestID |-> requestID]

\* --- variant: the expiration of every other constructor ---
InternalCrossChainAppRequestForever(nodeID, sourceChainID, destinationChainID, requestID, deadline) ==
  Inbound(nodeID, "CrossChainAppRequestOp",
          CrossChain(sourceChainID, destinationChainID, requestID),
          MaxTimeStamp)

\* The request is the one internal message that expires.
InternalCrossChainAppRequest(nodeID, sourceChainID, destinationChainID, requestID, deadline) ==
  Inbound(nodeID, "CrossChainAppRequestOp",
          CrossChain(sourceChainID, destinationChainID, requestID),
          now + deadline)

\* --- variant: a failure that expires like the request ---
InternalCrossChainAppRequestFailedExpiring(nodeID, sourceChainID, destinationChainID, requestID) ==
  Inbound(nodeID, "CrossChainAppRequestFailedOp",
          CrossChain(sourceChainID, destinationChainID, requestID), now)

InternalCrossChainAppRequestFailed(nodeID, sourceChainID, destinationChainID, requestID) ==
  Inbound(nodeID, "CrossChainAppRequestFailedOp",
          CrossChain(sourceChainID, destinationChainID, requestID),
          MaxTimeStamp)

InternalCrossChainAppResponse(nodeID, sourceChainID, destinationChainID, requestID) ==
  Inbound(nodeID, "CrossChainAppResponseOp",
          CrossChain(sourceChainID, destinationChainID, requestID),
          MaxTimeStamp)

InternalConnected(nodeID, nodeVersion) ==
  Inbound(nodeID, "ConnectedOp", [NodeVersion |-> nodeVersion], MaxTimeStamp)

\* --- variant: a disconnection that is only news for a moment ---
InternalDisconnectedExpiring(nodeID) ==
  Inbound(nodeID, "DisconnectedOp", <<>>, now)

InternalDisconnected(nodeID) ==
  Inbound(nodeID, "DisconnectedOp", <<>>, MaxTimeStamp)

InternalVMMessage(nodeID, notification) ==
  Inbound(nodeID, "NotifyOp", [Notification |-> notification], MaxTimeStamp)

InternalGossipRequest(nodeID) ==
  Inbound(nodeID, "GossipRequestOp", <<>>, MaxTimeStamp)

InternalTimeout(nodeID) ==
  Inbound(nodeID, "TimeoutOp", <<>>, MaxTimeStamp)

\* --- variant: the chain the message comes from ---
GetChainIdOfSource(msg) ==
  IF "DestinationChainID" \in DOMAIN msg.message
  THEN msg.message.SourceChainID ELSE msg.message.ChainID

\* GetChainId: the chain a message is for; between chains, its destination.
GetChainId(msg) ==
  IF "DestinationChainID" \in DOMAIN msg.message
  THEN msg.message.DestinationChainID ELSE msg.message.ChainID

GetRequestId(msg) == msg.message.RequestID

GetSourceChainID(msg) == msg.message.SourceChainID

-----------------------------------------------------------------------------
(***************************************************************************)
(* Sender, router, timeout manager and handler                             *)
(***************************************************************************)

\* The requests to a peer, each with the constructor of its failure.
FailureOf ==
  [GetStateSummaryFrontier |-> "GetStateSummaryFrontierFailedOp",
   GetAcceptedStateSummary |-> "GetAcceptedStateSummaryFailedOp",
   GetAcceptedFrontier     |-> "GetAcceptedFrontierFailedOp",
   GetAccepted             |-> "GetAcceptedFailedOp",
   GetAncestors            |-> "GetAncestorsFailedOp",
   Get                     |-> "GetFailedOp",
   Query                   |-> "QueryFailedOp",
   AppRequest              |-> "AppRequestFailedOp",
   CrossChainAppRequest    |-> "CrossChainAppRequestFailedOp"]

ResponseOf ==
  [kind \in DOMAIN FailureOf |->
     IF kind = "CrossChainAppRequest" THEN "CrossChainAppResponseOp"
     ELSE "ResponseOp"]

PeerRequests == DOMAIN FailureOf \ {"CrossChainAppRequest"}

\* The failure message the sender registers with a request to a peer.
FailedMessage(kind, nodeID, chainID, requestID) ==
  CASE kind = "GetStateSummaryFrontier" ->
         InternalGetStateSummaryFrontierFailed(nodeID, chainID, requestID)
    [] kind = "GetAcceptedStateSummary" ->
         InternalGetAcceptedStateSummaryFailed(nodeID, chainID, requestID)
    [] kind = "GetAcceptedFrontier" ->
         InternalGetAcceptedFrontierFailed(nodeID, chainID, requestID)
    [] kind = "GetAccepted" ->
         InternalGetAcceptedFailed(nodeID, chainID, requestID)
    [] kind = "GetAncestors" ->
         InternalGetAncestorsFailed(nodeID, chainID, requestID)
    [] kind = "Get" -> InternalGetFailed(nodeID, chainID, requestID)
    [] kind = "Query" -> InternalQueryFailed(nodeID, chainID, requestID)
    [] kind = "AppRequest" ->
         InternalAppRequestFailed(nodeID, chainID, requestID)

\* A response of a peer, made by the network's own builder: it never expires.
Response(nodeID, chainID, requestID) ==
  Inbound(nodeID, "ResponseOp",
          [ChainID |-> chainID, RequestID |-> requestID], MaxTimeStamp)

\* The router passes a message on to the handler of the chain it is for.
Push(q, msg) == [q EXCEPT ![GetChainId(msg)] = Append(@, msg)]

PushToAll(q, msg) == [c \in Chains |-> Append(q[c], msg)]

RequestIDs == 1..MaxRequests

Request(kind, chainID, requestID, to, failedMsg) ==
  [kind |-> kind, chainID |-> chainID, requestID |-> requestID, to |-> to,
   deadline |-> now + Deadline, failedMsg |-> failedMsg]

\* The request a message answers, if it is still registered.
RegisteredFor(msg) ==
  {r \in registered : /\ r.chainID = GetChainId(msg)
                      /\ r.requestID = GetRequestId(msg)
                      /\ ResponseOf[r.kind] = msg.op}

\* A response reaches the router: it is passed on if its request is still
\* registered, and the request is then cleared; otherwise it is dropped.
HandleInboundResponse(q, msg) ==
  IF RegisteredFor(msg) = {}
  THEN /\ queue' = q
       /\ UNCHANGED registered
  ELSE /\ queue' = Push(q, msg)
       /\ registered' = registered \ RegisteredFor(msg)

NextRequestID == Cardinality(sent) + 1

\* A chain asks a peer.
SendRequest(chainID, kind, peer) ==
  /\ NextRequestID \in RequestIDs
  /\ now + Deadline <= MaxTime
  /\ kind \in PeerRequests
  /\ LET r == Request(kind, chainID, NextRequestID, peer,
                      FailedMessage(kind, peer, chainID, NextRequestID))
     IN  /\ registered' = registered \cup {r}
         /\ sent' = sent \cup {r}
  /\ UNCHANGED <<now, queue, delivered, connected, view, noted, events>>

\* A chain asks another chain of this node: the failure names the asked chain
\* as its source and the asking chain as its destination.
SendCrossChainAppRequest(chainID, to) ==
  /\ NextRequestID \in RequestIDs
  /\ now + Deadline <= MaxTime
  /\ LET failedMsg == InternalCrossChainAppRequestFailed(
                        Self, to, chainID, NextRequestID)
         r == Request("CrossChainAppRequest", chainID, NextRequestID, to,
                      failedMsg)
         inMsg == InternalCrossChainAppRequest(
                    Self, chainID, to, NextRequestID, Deadline)
     IN  /\ registered' = registered \cup {r}
         /\ sent' = sent \cup {r}
         /\ queue' = Push(queue, inMsg)
  /\ UNCHANGED <<now, delivered, connected, view, noted, events>>

\* The peer answers: at any time, and as often as it likes.
PeerResponds(r) ==
  /\ r.kind \in PeerRequests
  /\ HandleInboundResponse(queue, Response(r.to, r.chainID, r.requestID))
  /\ UNCHANGED <<now, sent, delivered, connected, view, noted, events>>

\* The timeout manager: at the deadline the registered failure is sent.
Timeout(r) ==
  /\ r \in registered
  /\ now >= r.deadline
  /\ registered' = registered \ {r}
  /\ queue' = Push(queue, r.failedMsg)
  /\ UNCHANGED <<now, sent, delivered, connected, view, noted, events>>

Expired(msg) == now > msg.expiration

Outcomes == {FailureOf[k] : k \in DOMAIN FailureOf}
              \cup {ResponseOf[k] : k \in DOMAIN FailureOf}

\* The handler of a chain takes the next message: an expired one is dropped,
\* an outcome goes to the engine, a request of another chain is answered by
\* the VM or not, a connection changes the chain's view.
Handle(chainID, answers) ==
  /\ queue[chainID] # <<>>
  /\ LET msg == Head(queue[chainID])
         rest == [queue EXCEPT ![chainID] = Tail(@)]
         live == ~Expired(msg)
     IN  /\ IF live /\ msg.op = "CrossChainAppRequestOp" /\ answers
            THEN HandleInboundResponse(rest,
                   InternalCrossChainAppResponse(Self, chainID,
                     GetSourceChainID(msg), GetRequestId(msg)))
            ELSE queue' = rest /\ UNCHANGED registered
         /\ delivered' =
              IF live /\ msg.op \in Outcomes
              THEN [delivered EXCEPT ![chainID] =
                      Append(@, [op |-> msg.op, requestID |-> GetRequestId(msg)])]
              ELSE delivered
         /\ view' =
              CASE live /\ msg.op = "ConnectedOp" ->
                     [view EXCEPT ![chainID] = @ \cup {msg.nodeID}]
                [] live /\ msg.op = "DisconnectedOp" ->
                     [view EXCEPT ![chainID] = @ \ {msg.nodeID}]
                [] OTHER -> view
         /\ noted' =
              IF live /\ msg.op \in {"NotifyOp", "GossipRequestOp", "TimeoutOp"}
              THEN noted \cup {<<chainID, msg.op>>}
              ELSE noted
  /\ UNCHANGED <<now, sent, connected, events>>

\* The network connects to a peer and tells every chain.
PeerConnects(nodeID, nodeVersion) ==
  /\ events < MaxEvents
  /\ nodeID \notin connected
  /\ connected' = connected \cup {nodeID}
  /\ queue' = PushToAll(queue, InternalConnected(nodeID, nodeVersion))
  /\ events' = events + 1
  /\ UNCHANGED <<now, registered, sent, delivered, view, noted>>

PeerDisconnects(nodeID) ==
  /\ events < MaxEvents
  /\ nodeID \in connected
  /\ connected' = connected \ {nodeID}
  /\ queue' = PushToAll(queue, InternalDisconnected(nodeID))
  /\ events' = events + 1
  /\ UNCHANGED <<now, registered, sent, delivered, view, noted>>

\* The VM has work, the gossip timer fires, the engine's timer fires.
InternalEvents ==
  {InternalVMMessage(Self, "PendingTxs"), InternalGossipRequest(Self),
   InternalTimeout(Self)}

Notify(chainID, msg) ==
  /\ events < MaxEvents
  /\ msg \in InternalEvents
  /\ queue' = [queue EXCEPT ![chainID] = Append(@, msg)]
  /\ events' = events + 1
  /\ UNCHANGED <<now, registered, sent, delivered, connected, view, noted>>

Tick ==
  /\ now < MaxTime
  /\ now' = now + 1
  /\ UNCHANGED <<queue, registered, sent, delivered, connected, view, noted,
                 events>>

Init ==
  /\ now = 0
  /\ queue = [c \in Chains |-> <<>>]
  /\ registered = {}
  /\ sent = {}
  /\ delivered = [c \in Chains |-> <<>>]
  /\ connected = {}
  /\ view = [c \in Chains |-> {}]
  /\ noted = {}
  /\ events = 0

Next ==
  \/ \E c \in Chains, k \in PeerRequests, p \in Peers : SendRequest(c, k, p)
  \/ \E c \in Chains : \E to \in Chains \ {c} :
       SendCrossChainAppRequest(c, to)
  \/ \E r \in sent : PeerResponds(r)
  \/ \E r \in registered : Timeout(r)
  \/ \E c \in Chains, answers \in BOOLEAN : Handle(c, answers)
  \/ \E p \in Peers : PeerConnects(p, "v1")
  \/ \E p \in Peers : PeerDisconnects(p)
  \/ \E c \in Chains, msg \in InternalEvents : Notify(c, msg)
  \/ Tick

\* The timeout manager and every handler run in goroutines of their own, and
\* the clock goes on.
Fairness ==
  /\ WF_vars(Tick)
  /\ \A c \in Chains : WF_vars(\E answers \in BOOLEAN : Handle(c, answers))
  /\ WF_vars(\E r \in registered : Timeout(r))

Spec == Init /\ [][Next]_vars /\ Fairness

-----------------------------------------------------------------------------
(***************************************************************************)
(* Properties                                                              *)
(***************************************************************************)

PeerOutcomes == {FailureOf[k] : k \in PeerRequests} \cup {"ResponseOp"}

CrossChainOps == {"CrossChainAppRequestOp", "CrossChainAppRequestFailedOp",
                  "CrossChainAppResponseOp"}

\* What a message of each op carries; only a request of another chain expires.
WellFormed(msg) ==
  /\ msg.nodeID \in Peers \cup {Self}
  /\ msg.expiration \in 0..MaxTimeStamp
  /\ msg.expiration <= MaxTime <=> msg.op = "CrossChainAppRequestOp"
  /\ CASE msg.op \in PeerOutcomes ->
            msg.message \in [ChainID : Chains, RequestID : RequestIDs]
       [] msg.op \in CrossChainOps ->
            msg.message \in [SourceChainID : Chains,
                             DestinationChainID : Chains,
                             RequestID : RequestIDs]
       [] msg.op = "ConnectedOp" -> DOMAIN msg.message = {"NodeVersion"}
       [] msg.op = "NotifyOp" -> DOMAIN msg.message = {"Notification"}
       [] msg.op \in {"DisconnectedOp", "GossipRequestOp", "TimeoutOp"} ->
            DOMAIN msg.message = {}
       [] OTHER -> FALSE

\* The type invariant: every queued message is one the builder can make, and
\* the bookkeeping of internal_msg_builder.go's callers has its shape.
TypeOK ==
  /\ now \in 0..MaxTime
  /\ events \in 0..MaxEvents
  /\ \A c \in Chains : \A i \in DOMAIN queue[c] : WellFormed(queue[c][i])
  /\ registered \subseteq sent
  /\ \A r \in sent : /\ r.kind \in DOMAIN FailureOf
                     /\ r.chainID \in Chains
                     /\ r.requestID \in RequestIDs
                     /\ WellFormed(r.failedMsg)
  /\ delivered \in [Chains -> Seq([op : Outcomes, requestID : RequestIDs])]
  /\ connected \subseteq Peers
  /\ view \in [Chains -> SUBSET Peers]

\* The outcomes of a request that chain c's engine was handed.
OutcomesAt(c, r) ==
  {i \in DOMAIN delivered[c] : delivered[c][i].requestID = r.requestID}

\* A request has at most one outcome, the chain that asked gets it, and it is
\* the response or the failure of that kind of request: a response that comes
\* with or after the timeout, a peer that answers twice, and the failure built
\* by InternalCrossChainAppRequestFailed and routed by GetChainId, never hand
\* an engine a second or a foreign outcome.
OneOutcomePerRequest ==
  \A r \in sent :
    /\ \A c \in Chains \ {r.chainID} : OutcomesAt(c, r) = {}
    /\ Cardinality(OutcomesAt(r.chainID, r)) <= 1
    /\ \A i \in OutcomesAt(r.chainID, r) :
         delivered[r.chainID][i].op \in {FailureOf[r.kind], ResponseOf[r.kind]}

ConnectionOps == {"ConnectedOp", "DisconnectedOp"}

\* Once a chain's handler has taken every connection message, the chain knows
\* exactly the peers the network is connected to: InternalConnected and
\* InternalDisconnected never expire, so a slow handler loses neither.
ConnectionsAreTracked ==
  \A c \in Chains :
    (\A i \in DOMAIN queue[c] : queue[c][i].op \notin ConnectionOps)
      => view[c] = connected

\* The state of a request as its engine sees it: what the chain that asked
\* was handed last for it.
OutcomeOf(id) ==
  IF \A r \in sent : r.requestID # id THEN "unsent"
  ELSE LET r == CHOOSE r \in sent : r.requestID = id
           at == OutcomesAt(r.chainID, r)
       IN  IF at = {} THEN "pending"
           ELSE LET last == CHOOSE i \in at : \A j \in at : j <= i
                IN  IF delivered[r.chainID][last].op = ResponseOf[r.kind]
                    THEN "answered" ELSE "failed"

Engine == INSTANCE RequestOutcome WITH outcome <- [id \in RequestIDs |-> OutcomeOf(id)]

\* The bookkeeping implements RequestOutcome: to the engine that sent it a
\* request is pending until it is answered or fails, it never changes after
\* that, and it does not stay pending: at the deadline the timeout manager
\* sends the failure message that was registered, which has to reach the
\* chain that asked (InternalCrossChainAppRequestFailed names it as the
\* destination) and which the handler must not drop however late it takes it
\* (the failures carry mockable.MaxTime).
ImplementsRequestOutcome == Engine!Spec

=============================================================================
