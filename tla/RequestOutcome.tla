---------------------------- MODULE RequestOutcome ----------------------------
(***************************************************************************)
(* What the request bookkeeping promises the engine of a chain: a request  *)
(* it has sent is answered or fails, once, and one of the two happens.     *)
(* InternalMessages implements this specification.                         *)
(***************************************************************************)
CONSTANTS
  RequestIDs   \* the requests

VARIABLES
  outcome      \* outcome[id]: "unsent", "pending", "answered" or "failed"

Init == outcome = [id \in RequestIDs |-> "unsent"]

Becomes(id, from, to) ==
  /\ outcome[id] = from
  /\ outcome' = [outcome EXCEPT ![id] = to]

\* The engine sends the request.
Send(id) == Becomes(id, "unsent", "pending")

\* The engine is handed the response, or the failure.
Answer(id) == Becomes(id, "pending", "answered")
Fail(id) == Becomes(id, "pending", "failed")

Next == \E id \in RequestIDs : Send(id) \/ Answer(id) \/ Fail(id)

Spec ==
  /\ Init
  /\ [][Next]_outcome
  /\ \A id \in RequestIDs : WF_outcome(Answer(id) \/ Fail(id))

=============================================================================
