----------------------------- MODULE Allocators -----------------------------
(***************************************************************************)
(* The two block allocators behind struct allocator_factory: the mount     *)
(* option alloc selects one, at mkfs and at every later mount the same.    *)
(* (A remount with another value is not refused, super.c:351; that nobody  *)
(* asks for one is assumed.)                                               *)
(* Allocator 0 needs the option vmap, allocator 1 is the default and works *)
(* without it only: without the static mapping area nothing marks the      *)
(* reserved pages for the rebuild of allocator 0, and with it allocator 1  *)
(* would take virtual offsets for block numbers.                           *)
(***************************************************************************)
EXTENDS BinAlloc, PmfsAlloc

VARIABLE alloc   \* the factory that wpmfs_select_allocator has installed

-----------------------------------------------------------------------------
\* pmfs_parse_options.
wpmfs_select_allocator == alloc \in {0, 1}

SelectInit == wpmfs_select_allocator /\ Init /\ PInit

SelectNext ==
  \/ alloc = 0 /\ Next /\ UNCHANGED <<alloc, pmfsVars>>
  \/ alloc = 1 /\ PNext /\ UNCHANGED <<alloc, vars>>

SelectSpec == SelectInit /\ [][SelectNext]_<<alloc, vars, pmfsVars>>
=============================================================================
