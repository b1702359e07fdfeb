------------------------- MODULE MCConsumerTracking -------------------------
(***************************************************************************)
(* ConsumerTracking for TLC: one workload, one Pod, two Secret names.      *)
(***************************************************************************)
EXTENDS ConsumerTracking, TLC

Symmetry == Permutations(Names)
=============================================================================
