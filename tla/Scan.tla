-------------------------------- MODULE Scan --------------------------------
(***************************************************************************)
(* Every table of the kernel (cache lines, task structs, open objects,     *)
(* heap slots, semaphores) is searched the same way: an index loop from 0  *)
(* that stops at the first slot that fits.                                 *)
(***************************************************************************)
EXTENDS Integers

\* The slot such a loop stops at, when some slot fits.
FirstOf(slots) == CHOOSE l \in slots : \A k \in slots : l <= k
=============================================================================
