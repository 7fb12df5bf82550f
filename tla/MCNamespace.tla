---------------------------- MODULE MCNamespace ----------------------------
(***************************************************************************)
(* Instances of NamespaceLifecycle for TLC.                                *)
(***************************************************************************)
EXTENDS NamespaceLifecycle, TLC

CONSTANTS s, c, k
=============================================================================
