------------------------------- MODULE MCVfio -------------------------------
(***************************************************************************)
(* Vfio for TLC: two groups for one slot, so that one can take it from the  *)
(* other, two callers, two regions, and enough descriptors for a group, a   *)
(* container, a device, a portal or a file, and one to run out of.          *)
(***************************************************************************)
EXTENDS Vfio

MCGroups  == {1, 2}
MCRegions == {"image", "args"}
MCFds     == 1..5

=============================================================================
