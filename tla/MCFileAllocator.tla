-------------------------- MODULE MCFileAllocator --------------------------
(* Small instances of FileAllocator.                                       *)
EXTENDS FileAllocator, TLC

CONSTANTS c1, c2, f1, f2, f3

=============================================================================
