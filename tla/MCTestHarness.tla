--------------------------- MODULE MCTestHarness ---------------------------
(* Small instances of TestHarness: a simple test r, a complex test x, regex *)
(* tests m and n of both modes, and compare tests c and d.                  *)
EXTENDS TestHarness, TLC

KindOf == [t \in Test |-> CASE t = "r" -> "simple"
                            [] t = "x" -> "complex"
                            [] t \in {"m", "n"} -> "regex"
                            [] t \in {"c", "d"} -> "compare"]
ModeOf == [t \in Test |-> IF t = "m" THEN "failure" ELSE "success"]
ExpectedOf == [t \in Test |-> IF t = "c" THEN <<"A", "A">> ELSE <<"A">>]
=============================================================================
