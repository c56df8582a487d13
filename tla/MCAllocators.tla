---------------------------- MODULE MCAllocators ----------------------------
(* Allocators for TLC.                                                      *)
EXTENDS Allocators
=============================================================================
