------------------------------ MODULE Snowball ------------------------------
(***************************************************************************)
(* The snowball node of snow/consensus/snowball: the decision primitive    *)
(* that turns the tallies of repeated polls into one irreversible choice.  *)
(* The package is named by snow/engine/snowman/config.go and is not part   *)
(* of the source tree at hand; the node follows sections 3 and 4.1 of the  *)
(* design document.  A node is a value and RecordPoll a function of it, so *)
(* that the structures that own nodes apply it inside their own steps.     *)
(***************************************************************************)
EXTENDS Naturals, FiniteSets, Functions

CONSTANTS
  K,             \* sample size of a poll
  Alpha,         \* responses a choice needs for a poll to be successful
  BetaVirtuous,  \* consecutive successes that finalize a lone choice
  BetaRogue      \* consecutive successes that finalize a contested choice

ASSUME /\ K \in Nat /\ Alpha \in 1..K
       /\ BetaVirtuous \in Nat \ {0} /\ BetaVirtuous <= BetaRogue

\* A node that has seen no poll: it prefers the choice it was made for.
NewNode(choice) ==
  [preference |-> choice, confidence |-> 0, finalized |-> FALSE]

\* The tallies a poll of K responses can bring for a set of choices; a poll
\* that timed out brings fewer than K.
Tallies(choices) ==
  {tally \in [choices -> 0..K] : SumFunction(tally) <= K}

\* The modal choice of a tally; of the choices with the highest count the
\* one with the lowest id, on every node alike.
Modal(tally) ==
  CHOOSE c \in DOMAIN tally :
    \A d \in DOMAIN tally :
       tally[d] < tally[c] \/ (tally[d] = tally[c] /\ c <= d)

\* --- variant: a finalized node goes on counting ---
RecordPollWhenFinalized(node, tally, beta) ==
  LET m == Modal(tally)
      c == IF m = node.preference THEN node.confidence + 1 ELSE 1
  IN  IF SumFunction(tally) = 0 THEN node
      ELSE IF tally[m] < Alpha THEN [node EXCEPT !.confidence = 0]
      ELSE [preference |-> m, confidence |-> c, finalized |-> c >= beta]

\* RecordPoll: a finalized node and a poll without responses change
\* nothing; a poll whose modal choice stays below Alpha breaks the run of
\* successes and leaves the preference; a successful poll for the
\* preference adds to the run, one for another choice starts a run for
\* that choice.  The node is finalized when the run reaches beta.
RecordPoll(node, tally, beta) ==
  LET m == Modal(tally)
      c == IF m = node.preference THEN node.confidence + 1 ELSE 1
  IN  IF node.finalized \/ SumFunction(tally) = 0 THEN node
      ELSE IF tally[m] < Alpha THEN [node EXCEPT !.confidence = 0]
      ELSE [preference |-> m, confidence |-> c, finalized |-> c >= beta]

=============================================================================
