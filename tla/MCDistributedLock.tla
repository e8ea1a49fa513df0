------------------------- MODULE MCDistributedLock -------------------------
(* Small instances of DistributedLock: processes p1, p2, p3 with threads a, *)
(* b, c, and clocks that agree or differ by one minute.                    *)
EXTENDS DistributedLock, TLC

\* One thread per process.
OneEach == ("a" :> "p1") @@ ("b" :> "p2") @@ ("c" :> "p3")
OneEachOfTwo == ("a" :> "p1") @@ ("b" :> "p2")

\* a and b are threads of the same process and share its pinger.
SharedByTwo == ("a" :> "p1") @@ ("b" :> "p1") @@ ("c" :> "p2")

SameClocks == [p \in Process |-> 0]
P2Ahead == [p \in Process |-> IF p = "p2" THEN 1 ELSE 0]
=============================================================================
