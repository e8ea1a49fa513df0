----------------------------- MODULE MCConnPool -----------------------------
(* Small instances of ConnPool: two names of one replica set, which share  *)
(* a pool, and a third server.                                             *)
EXTENDS ConnPool, TLC

CONSTANTS s1, s2, s3, c1, c2, c3

SetAndServer == ("d" :> 1) @@ ("set/a" :> 2) @@ ("set/b" :> 2)

\* Scoped connections, and connections, are interchangeable.
Symmetry == Permutations(Scoped) \cup Permutations(Conn)
=============================================================================
