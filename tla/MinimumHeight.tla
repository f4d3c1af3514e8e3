---------------------------- MODULE MinimumHeight ----------------------------
(***************************************************************************)
(* The height the platform VM reports as safely in the past               *)
(* (vms/platformvm/vm.go, GetMinimumHeight): the parent of the oldest      *)
(* block in the window of recently accepted blocks, or the last accepted   *)
(* height while that window is empty.  The window forgets a block when it  *)
(* has been in it for longer than the TTL, and its oldest block when it is *)
(* full; a restart starts with an empty window.                            *)
(*                                                                         *)
(* Blocks are named by their heights: the accepted blocks form one chain.  *)
(* The window (utils/window) and the acceptor that adds to it are not part *)
(* of the source tree at hand; they are modelled by what vm.go configures  *)
(* and expects of them.                                                    *)
(***************************************************************************)
EXTENDS Naturals, Sequences, SequencesExt

CONSTANTS
  maxRecentlyAcceptedWindowSize,  \* 256 in the code
  recentlyAcceptedWindowTTL,      \* 5 minutes in the code, in ticks here
  MaxUint64,                      \* the largest height (2^64 - 1 in the code)
  MaxHeight,                      \* bound: blocks accepted in a behaviour
  MaxTime                         \* bound: ticks of the clock in a behaviour

ASSUME /\ maxRecentlyAcceptedWindowSize \in Nat \ {0}
       /\ recentlyAcceptedWindowTTL \in Nat
       /\ MaxHeight \in Nat /\ MaxTime \in Nat
       /\ MaxUint64 \in Nat /\ MaxHeight <= MaxUint64

VARIABLES
  lastAccepted,      \* height of state.GetLastAccepted()
  recentlyAccepted,  \* vm.recentlyAccepted, oldest block first
  UseCurrentHeight,  \* vm.Config.UseCurrentHeight
  now,               \* vm.clock
  acceptedAt,        \* history: when each block was accepted
  expired,           \* history: blocks the window has let go since the start
  reply              \* what the last call of GetMinimumHeight returned

vars == <<lastAccepted, recentlyAccepted, UseCurrentHeight, now, acceptedAt,
          expired, reply>>

-----------------------------------------------------------------------------
\* The blocks of a window that are not older than the TTL.
Fresh(window) ==
  SelectSeq(window,
            LAMBDA blk : now - acceptedAt[blk] <= recentlyAcceptedWindowTTL)

\* --- variant: a window without a maximal size ---
AddUnbounded(window, blk) == Append(Fresh(window), blk)

\* window.Add: stale blocks leave, a full window gives up its oldest
\* block, and the new block becomes the newest.
Add(window, blk) ==
  LET fresh == Fresh(window) IN
  Append(IF Len(fresh) >= maxRecentlyAcceptedWindowSize
         THEN Tail(fresh) ELSE fresh, blk)

\* GetCurrentHeight: the height of the last accepted block.
GetCurrentHeight == lastAccepted

\* blk.Height() - 1 on uint64.
ParentHeight(height) == IF height = 0 THEN MaxUint64 ELSE height - 1

\* --- variant: the height of the oldest block itself ---
MinimumHeightOfOldest ==
  IF UseCurrentHeight \/ Fresh(recentlyAccepted) = <<>>
  THEN GetCurrentHeight
  ELSE Head(Fresh(recentlyAccepted))

\* --- variant: nothing is known while the window is empty ---
MinimumHeightOrZero ==
  IF UseCurrentHeight THEN GetCurrentHeight
  ELSE IF Fresh(recentlyAccepted) = <<>> THEN 0
  ELSE ParentHeight(Head(Fresh(recentlyAccepted)))

\* What GetMinimumHeight returns: the current height if the configuration
\* asks for it or the window is empty, else the height before the oldest
\* block of the window.
MinimumHeight ==
  IF UseCurrentHeight \/ Fresh(recentlyAccepted) = <<>>
  THEN GetCurrentHeight
  ELSE ParentHeight(Head(Fresh(recentlyAccepted)))

\* The blocks that are in the first window and not in the second.
Gone(before, after) == ToSet(before) \ ToSet(after)

\* GetMinimumHeight: Oldest() drops the stale blocks before it answers;
\* with UseCurrentHeight the window is not consulted at all.  Either way
\* one block is read from the manager, and the call returns 0 with the
\* error if that read fails.
GetMinimumHeight(err) ==
  LET window == IF UseCurrentHeight THEN recentlyAccepted
                ELSE Fresh(recentlyAccepted) IN
  /\ err \in {"nil", "GetBlock"}
  /\ reply' = [op |-> "GetMinimumHeight", err |-> err,
               val |-> IF err = "nil" THEN MinimumHeight ELSE 0]
  /\ recentlyAccepted' = window
  /\ expired' = expired \cup Gone(recentlyAccepted, window)
  /\ UNCHANGED <<lastAccepted, UseCurrentHeight, now, acceptedAt>>

NoReply == [op |-> "none", err |-> "nil", val |-> 0]

\* A block is accepted on top of the last one and added to the window.
AcceptBlock ==
  LET blk == lastAccepted + 1 IN
  /\ lastAccepted < MaxHeight
  /\ lastAccepted' = blk
  /\ acceptedAt' = (blk :> now) @@ acceptedAt
  /\ recentlyAccepted' = Add(recentlyAccepted, blk)
  /\ expired' = expired \cup Gone(recentlyAccepted, recentlyAccepted')
  /\ reply' = NoReply
  /\ UNCHANGED <<UseCurrentHeight, now>>

\* Initialize after a restart: the window is made anew; the chain and the
\* configuration are what they were.
Initialize ==
  /\ recentlyAccepted' = <<>>
  /\ expired' = {}
  /\ reply' = NoReply
  /\ UNCHANGED <<lastAccepted, UseCurrentHeight, now, acceptedAt>>

Tick ==
  /\ now < MaxTime
  /\ now' = now + 1
  /\ UNCHANGED <<lastAccepted, recentlyAccepted, UseCurrentHeight, acceptedAt,
                 expired, reply>>

Init ==
  /\ lastAccepted = 0
  /\ recentlyAccepted = <<>>
  /\ UseCurrentHeight \in BOOLEAN
  /\ now = 0
  /\ acceptedAt = (0 :> 0)
  /\ expired = {}
  /\ reply = NoReply

Next ==
  \/ \E err \in {"nil", "GetBlock"} : GetMinimumHeight(err)
  \/ AcceptBlock
  \/ Initialize
  \/ Tick

Spec == Init /\ [][Next]_vars

-----------------------------------------------------------------------------
\* The type invariant.  The window never holds more than
\* maxRecentlyAcceptedWindowSize blocks, and never genesis: Add lets go of
\* the oldest block when the window is full.
TypeOK ==
  /\ lastAccepted \in 0..MaxHeight
  /\ recentlyAccepted \in Seq(1..MaxHeight)
  /\ Len(recentlyAccepted) <= maxRecentlyAcceptedWindowSize
  /\ UseCurrentHeight \in BOOLEAN
  /\ now \in 0..MaxTime
  /\ acceptedAt \in [0..lastAccepted -> 0..MaxTime]
  /\ expired \subseteq 1..MaxHeight
  /\ reply \in [op : {"none", "GetMinimumHeight"}, err : {"nil", "GetBlock"},
                val : 0..MaxUint64]

\* The height GetMinimumHeight returns lies before every block that is
\* still in the window and is a height of the chain: the subtraction in
\* blk.Height() - 1 never wraps, because genesis is never in the window.
MinimumHeightPrecedesWindow ==
  reply.op = "GetMinimumHeight" /\ reply.err = "nil" =>
    /\ reply.val <= lastAccepted
    /\ ~UseCurrentHeight =>
         \A i \in DOMAIN recentlyAccepted : reply.val < recentlyAccepted[i]

\* The minimum height never goes back, whatever happens between two calls
\* of GetMinimumHeight: blocks accepted, blocks expiring, the window
\* running full or empty, a restart.
MinimumHeightNeverGoesBack ==
  [][MinimumHeight' >= MinimumHeight]_vars

\* The comment of GetMinimumHeight: "an expired element is always
\* guaranteed to be sufficiently stale", so that the parent of the oldest
\* block of the window is older than the TTL.  Stated for the blocks that
\* the window itself has let go.
ExpiredBlocksAreStale ==
  reply.op = "GetMinimumHeight" /\ reply.val \in expired =>
    now - acceptedAt[reply.val] > recentlyAcceptedWindowTTL

=============================================================================
