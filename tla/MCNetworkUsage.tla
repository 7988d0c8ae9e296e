--------------------------- MODULE MCNetworkUsage ---------------------------
(***************************************************************************)
(* A small instance of the path from the packet to the list: the traffic   *)
(* of MCNetworkAnalyzer on one interface, and integers of a few bits.      *)
(***************************************************************************)
EXTENDS MCNetworkAnalyzer, NetworkUsage
=============================================================================
