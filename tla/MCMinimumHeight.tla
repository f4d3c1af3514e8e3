--------------------------- MODULE MCMinimumHeight ---------------------------
(***************************************************************************)
(* MinimumHeight for TLC: a window of two blocks with a TTL of two ticks,  *)
(* four blocks and five ticks, so that blocks leave the window both by age *)
(* and because it is full.                                                 *)
(***************************************************************************)
EXTENDS MinimumHeight
=============================================================================
