------------------------- MODULE MCSyncClusterLock -------------------------
(* Small instances of SyncClusterLock; threads are interchangeable.         *)
EXTENDS SyncClusterLock, TLC

CONSTANTS a, b

Symmetry == Permutations(Thread)
=============================================================================
