-------------------------- MODULE MCChaosDashboard --------------------------
(***************************************************************************)
(* Instances of ChaosDashboard for TLC.  The .cfg files choose the nodes,  *)
(* the addresses and which of the dashboard's features are in use.         *)
(***************************************************************************)
EXTENDS ChaosDashboard, TLC

\* Addresses and profiles are interchangeable, nodes too.
Permute == Permutations(Node) \cup Permutations(IP)
==============================================================================
