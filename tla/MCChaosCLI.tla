------------------------------ MODULE MCChaosCLI ------------------------------
(***************************************************************************)
(* Instances of ChaosCLI for TLC.                                          *)
(***************************************************************************)
EXTENDS ChaosCLI, TLC

\* Nodes, addresses, processes and shells are interchangeable.
Permute ==
  Permutations(Node) \cup Permutations(IP) \cup Permutations(Proc) \cup Permutations(Shell)
==============================================================================
