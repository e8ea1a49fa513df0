------------------------------- MODULE KeyMap -------------------------------
(* What hashmap() of ZilliansHashmapUtility.cmake promises its callers: a    *)
(* finite map from keys to lists.                                            *)
CONSTANTS Key, List   \* keys, and the lists that may be stored

VARIABLE map   \* a function from the present keys to their lists

Init == map = <<>>

Put(k, v) == map' = [j \in DOMAIN map \cup {k} |-> IF j = k THEN v ELSE map[j]]
Remove(k) == map' = [j \in DOMAIN map \ {k} |-> map[j]]
Clear     == map' = <<>>

Next == Clear \/ \E k \in Key : Remove(k) \/ \E v \in List : Put(k, v)

Spec == Init /\ [][Next]_map
=============================================================================
