------------------------------ MODULE MCHashmap ------------------------------
(* Small instances of Hashmap: keys and elements are model values, which     *)
(* equal no number, as no key in use is a number.                            *)
EXTENDS Hashmap
CONSTANTS k1, k2, k3, e1, e2
=============================================================================
