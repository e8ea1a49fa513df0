---------------------------- MODULE MCThreadPool ----------------------------
(* A small instance of ThreadPool: the first task schedules another one.   *)
EXTENDS ThreadPool

FirstSpawns == [t \in Task |-> IF t = "a" THEN {"spawned"} ELSE {}]
=============================================================================
