----------------------------- MODULE MCTracker -----------------------------
(***************************************************************************)
(* An instance of Tracker for TLC.                                         *)
(***************************************************************************)
EXTENDS Tracker

\* A list longer than MAX_PEERS, and one the zero entry cuts short.
CONSTANTS a, b
MCPeerLists == {<<a, b, a>>, <<b, NoAddress, a>>}
=============================================================================
