------------------------------- MODULE MeterVM -------------------------------
(***************************************************************************)
(* The metering wrapper of a block VM (vms/metervm).  Every call of the    *)
(* engine goes through the wrapper to the VM inside it, and the wrapper    *)
(* observes the time of the call in one metric: of the result, or of the   *)
(* error, for the calls that have both.  The calls of a batched VM are     *)
(* refused when the VM inside is not one, and their metrics exist only     *)
(* when it is.  Observing a metric that was never registered is a nil      *)
(* dereference; the model records it as a panic.                           *)
(*                                                                         *)
(* The VM inside is any VM: each of its calls succeeds or fails.           *)
(***************************************************************************)
EXTENDS Naturals, FiniteSets, Sequences

CONSTANTS
  MaxCalls   \* bound: calls of the engine in a behaviour

ASSUME MaxCalls \in Nat

VARIABLES
  bVM,         \* the VM inside is a block.BatchedChainVM
  registered,  \* blockMetrics: the metrics that exist
  ctxMetrics,  \* chainCtx.Metrics, as the VM inside will see it
  inner,       \* the VM inside: "new", "initialized", or "failed"
  observed,    \* observed[metric]: the observations so far
  forwarded,   \* history: the calls that reached the VM inside, with result
  panicked,    \* a metric that does not exist was observed
  calls,       \* history: the number of calls so far
  reply        \* what the last call returned

vars == <<bVM, registered, ctxMetrics, inner, observed, forwarded, panicked,
          calls, reply>>

\* The metrics of every VM, and those of a batched one.
ChainMetrics ==
  {"buildBlock", "buildBlockErr", "parseBlock", "parseBlockErr", "getBlock",
   "getBlockErr", "setPreference", "lastAccepted"}

BatchedMetrics == {"getAncestors", "batchedParseBlock"}

Metrics == ChainMetrics \cup BatchedMetrics

\* blockMetrics.Initialize
MetricsFor(supportsBatchedFetching) ==
  ChainMetrics \cup (IF supportsBatchedFetching THEN BatchedMetrics ELSE {})

\* The steps of Initialize that can fail, in their order.
InitializeFailures ==
  <<"blockMetrics", "metervm", "optional", "chainCtx", "ChainVM">>

Failures ==
  {"none"} \cup {InitializeFailures[i] : i \in DOMAIN InitializeFailures}

\* The step was done when Initialize fails at fail.
Before(fail, step) ==
  \/ fail = "none"
  \/ \E i, j \in DOMAIN InitializeFailures :
       /\ InitializeFailures[i] = step
       /\ InitializeFailures[j] = fail
       /\ i < j

\* Initialize: the metrics, the gatherers, the chain's gatherer replaced by
\* the one the VM inside is to use, and last the VM inside; the first failure
\* ends it.
Initialize(fail) ==
  /\ inner = "new"
  /\ fail \in Failures
  /\ registered' = IF Before(fail, "blockMetrics") THEN MetricsFor(bVM)
                   ELSE registered
  /\ ctxMetrics' = IF Before(fail, "chainCtx") THEN "optional" ELSE ctxMetrics
  /\ inner' = IF fail = "none" THEN "initialized" ELSE "failed"
  /\ reply' = [call |-> "Initialize",
               result |-> IF fail = "none" THEN "nil" ELSE "err"]
  /\ UNCHANGED <<bVM, observed, forwarded, panicked, calls>>

\* Averager.Observe on a field of blockMetrics.
Observe(metric) ==
  IF metric \in registered
  THEN /\ observed' = [observed EXCEPT ![metric] = @ + 1]
       /\ UNCHANGED panicked
  ELSE /\ panicked' = TRUE
       /\ UNCHANGED observed

\* The engine calls a VM it has initialized, and stops at a panic.
Callable ==
  /\ inner = "initialized"
  /\ ~panicked
  /\ calls < MaxCalls

Forward(call, err) ==
  /\ forwarded' = Append(forwarded, [call |-> call, err |-> err])
  /\ calls' = calls + 1
  /\ UNCHANGED <<bVM, registered, ctxMetrics, inner>>

\* --- variant: no return after the error was observed ---
BlockCallFallingThrough(call, metric, err) ==
  /\ Callable
  /\ Forward(call, err)
  /\ observed' = [m \in Metrics |->
                    IF m = metric \/ (err /\ m = metric \o "Err")
                    THEN observed[m] + 1 ELSE observed[m]]
  /\ UNCHANGED panicked
  /\ reply' = [call |-> call, result |-> IF err THEN "err" ELSE "meterBlock"]

\* --- variant: the block of the VM inside, not wrapped ---
BlockCallUnwrapped(call, metric, err) ==
  /\ Callable
  /\ Forward(call, err)
  /\ Observe(IF err THEN metric \o "Err" ELSE metric)
  /\ reply' = [call |-> call, result |-> IF err THEN "err" ELSE "Block"]

\* BuildBlock, ParseBlock, GetBlock: the error metric and the error, or the
\* metric and the block, wrapped to meter its own calls.
BlockCall(call, metric, err) ==
  /\ Callable
  /\ Forward(call, err)
  /\ Observe(IF err THEN metric \o "Err" ELSE metric)
  /\ reply' = [call |-> call, result |-> IF err THEN "err" ELSE "meterBlock"]

BuildBlock(err) == BlockCall("BuildBlock", "buildBlock", err)

ParseBlock(err) == BlockCall("ParseBlock", "parseBlock", err)

GetBlock(err) == BlockCall("GetBlock", "getBlock", err)

\* SetPreference, LastAccepted: one metric, whatever the result.
PlainCall(call, metric, err) ==
  /\ Callable
  /\ Forward(call, err)
  /\ Observe(metric)
  /\ reply' = [call |-> call, result |-> IF err THEN "err" ELSE "nil"]

SetPreference(err) == PlainCall("SetPreference", "setPreference", err)

LastAccepted(err) == PlainCall("LastAccepted", "lastAccepted", err)

\* GetAncestors, BatchedParseBlock: refused when the VM inside is not a
\* batched one; one metric otherwise.
BatchedCall(call, metric, err) ==
  /\ Callable
  /\ IF ~bVM
     THEN /\ reply' = [call |-> call, result |-> "ErrRemoteVMNotImplemented"]
          /\ calls' = calls + 1
          /\ UNCHANGED <<bVM, registered, ctxMetrics, inner, observed,
                         forwarded, panicked>>
     ELSE /\ Forward(call, err)
          /\ Observe(metric)
          /\ reply' = [call |-> call, result |-> IF err THEN "err" ELSE "nil"]

GetAncestors(err) == BatchedCall("GetAncestors", "getAncestors", err)

BatchedParseBlock(err) ==
  BatchedCall("BatchedParseBlock", "batchedParseBlock", err)

\* NewBlockVM: what the VM inside is, is seen once, when it is wrapped.
Init ==
  /\ bVM \in BOOLEAN
  /\ registered = {}
  /\ ctxMetrics = "chain"
  /\ inner = "new"
  /\ observed = [m \in Metrics |-> 0]
  /\ forwarded = <<>>
  /\ panicked = FALSE
  /\ calls = 0
  /\ reply = [call |-> "NewBlockVM", result |-> "nil"]

Next ==
  \/ \E fail \in Failures : Initialize(fail)
  \/ \E err \in BOOLEAN :
       \/ BuildBlock(err)
       \/ ParseBlock(err)
       \/ GetBlock(err)
       \/ SetPreference(err)
       \/ LastAccepted(err)
       \/ GetAncestors(err)
       \/ BatchedParseBlock(err)

Spec == Init /\ [][Next]_vars

-----------------------------------------------------------------------------
(***************************************************************************)
(* Properties                                                              *)
(***************************************************************************)

Calls == {"BuildBlock", "ParseBlock", "GetBlock", "SetPreference",
          "LastAccepted", "GetAncestors", "BatchedParseBlock"}

\* The type invariant.  A block the wrapper returns from BuildBlock,
\* ParseBlock or GetBlock is a meterBlock, never the block of the VM inside,
\* whose Verify, Accept and Reject would go unmetered.
TypeOK ==
  /\ bVM \in BOOLEAN
  /\ registered \subseteq Metrics
  /\ ctxMetrics \in {"chain", "optional"}
  /\ inner \in {"new", "initialized", "failed"}
  /\ observed \in [Metrics -> 0..MaxCalls]
  /\ forwarded \in Seq([call : Calls, err : BOOLEAN])
  /\ panicked \in BOOLEAN
  /\ calls \in 0..MaxCalls
  /\ reply.call \in Calls \cup {"NewBlockVM", "Initialize"}
  /\ reply.result \in
       CASE reply.call \in {"BuildBlock", "ParseBlock", "GetBlock"} ->
              {"meterBlock", "err"}
         [] reply.call \in {"GetAncestors", "BatchedParseBlock"} ->
              {"nil", "err", "ErrRemoteVMNotImplemented"}
         [] OTHER -> {"nil", "err"}

\* The metric of a call that reached the VM inside.
MetricOf(f) ==
  CASE f.call = "BuildBlock" -> IF f.err THEN "buildBlockErr" ELSE "buildBlock"
    [] f.call = "ParseBlock" -> IF f.err THEN "parseBlockErr" ELSE "parseBlock"
    [] f.call = "GetBlock" -> IF f.err THEN "getBlockErr" ELSE "getBlock"
    [] f.call = "SetPreference" -> "setPreference"
    [] f.call = "LastAccepted" -> "lastAccepted"
    [] f.call = "GetAncestors" -> "getAncestors"
    [] f.call = "BatchedParseBlock" -> "batchedParseBlock"

\* Every metric counts exactly the calls of its kind that reached the VM
\* inside: a failed BuildBlock, ParseBlock or GetBlock is counted as an error
\* and not also as a block, and a refused batched call is counted nowhere.
\* No call observes a metric that blockMetrics.Initialize did not make: the
\* batched metrics exist exactly when GetAncestors and BatchedParseBlock go
\* through to the VM inside, both decided by the same vm.bVM != nil.
EveryCallMeteredOnce ==
  /\ ~panicked
  /\ \A m \in Metrics :
       observed[m] =
         Cardinality({i \in DOMAIN forwarded : MetricOf(forwarded[i]) = m})

=============================================================================
