-------------------------- MODULE MCInternalMessages --------------------------
(***************************************************************************)
(* InternalMessages for TLC: two chains and one peer, a deadline of one    *)
(* tick and a clock of three, so that a response can come before, with and *)
(* after the timeout and a handler can take a message after its            *)
(* expiration.  MCInternalMessages.cfg sends two requests of any of the    *)
(* nine kinds and no other event; MCInternalEvents.cfg sends one request   *)
(* among two connection, notification, gossip or timeout events.           *)
(***************************************************************************)
EXTENDS InternalMessages

MCChains == {"P", "X"}
MCPeers == {"n1"}
==============================================================================
