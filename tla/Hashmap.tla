------------------------------ MODULE Hashmap ------------------------------
(***************************************************************************)
(* CMake/Packages/ZilliansHashmapUtility.cmake and the split_options macro *)
(* of ZilliansOptionUtility.cmake.  A hashmap is one flat CMake list       *)
(*     key1; length1; element; ...; key2; length2; element; ...            *)
(* and macros have no scope of their own: __value keeps what the last      *)
(* macro left in it.  The first position of a list is 1 here.              *)
(***************************************************************************)
EXTENDS Integers, Sequences, SequencesExt

CONSTANTS
    Key,         \* keys of the map; the option categories of split_options
    Elem,        \* elements of the lists
    Default,     \* the name of split_options' default category
    MaxValue,    \* bound on the length of a list
    MaxOptions   \* bound on the number of options split at once

ASSUME KeyAssumption ==
    /\ Key \cap Elem = {} /\ Default \notin Key \cup Elem
    /\ MaxValue \in Nat /\ MaxOptions \in Nat

Values == UNION {[1..n -> Elem] : n \in 0..MaxValue}
Options == UNION {[1..n -> Key \cup Elem] : n \in 0..MaxOptions}

VARIABLES
    hashmap,   \* the list
    __value,   \* the list stored at the last key any macro found
    out,       \* the output variable of the last GET
    asked      \* history: the key of the last GET, Default for none

vars == <<hashmap, __value, out, asked>>

---------------------------------------------------------------------------
(* The macros, as functions of the list they work on.                      *)

\* __next_element_in_hashmap
KeyAt(m, i)    == m[i]
LengthAt(m, i) == m[i + 1]
ValueAt(m, i)  == SubSeq(m, i + 2, i + 1 + LengthAt(m, i))
NextAt(m, i)   == i + LengthAt(m, i) + 2

\* Where the loop of __find_in_hashmap stops over, from entry to entry, as long
\* as its index is inside the list.  (What is no entry would stop CMake itself.)
Walk(m) ==
    LET from[i \in 1..Len(m)] ==
          IF i < Len(m) /\ LengthAt(m, i) \in Nat /\ NextAt(m, i) <= Len(m)
          THEN {i} \cup from[NextAt(m, i)]
          ELSE {i}
    IN IF m = <<>> THEN {} ELSE from[1]

\* It breaks off at the first entry with the key; -1 when there is none.
__find_in_hashmap(m, k) ==
    LET found == {i \in Walk(m) : KeyAt(m, i) = k} IN
    IF found = {} THEN -1 ELSE Min(found)

\* It sets the caller's value variable only when it finds the key.
FoundValue(m, k, old) ==
    IF __find_in_hashmap(m, k) = -1 THEN old ELSE ValueAt(m, __find_in_hashmap(m, k))

__append_to_hashmap(m, k, v) == m \o <<k, Len(v)>> \o v

\* Mutant of __remove_one_from_hashmap: the last element stays.
RemoveOneShort(m, i) ==
    SubSeq(m, 1, i - 1) \o SubSeq(m, NextAt(m, i) - (IF LengthAt(m, i) > 0 THEN 1 ELSE 0), Len(m))

__remove_one_from_hashmap(m, i) ==
    SubSeq(m, 1, i - 1) \o SubSeq(m, NextAt(m, i), Len(m))

__remove_from_hashmap(m, k) ==
    IF __find_in_hashmap(m, k) # -1 THEN __remove_one_from_hashmap(m, __find_in_hashmap(m, k)) ELSE m

\* Mutant of __put_into_hashmap: an entry with the same key is not removed.
PutAppends(m, k, v) == __append_to_hashmap(m, k, v)

__put_into_hashmap(m, k, v) == __append_to_hashmap(__remove_from_hashmap(m, k), k, v)

\* Mutant of __get_from_hashmap: the answer is taken before the search.
GetBeforeFind(m, k, old) == old

\* __get_from_hashmap tests _index, which no macro sets: it always answers
\* with __value.
__get_from_hashmap(m, k, old) == FoundValue(m, k, old)

---------------------------------------------------------------------------
(* split_options: one pass over the options.                               *)

\* Mutant of SplitOne: a category's list starts over with every option.
SplitOneForgets(acc, o) ==
    IF o \in Key THEN [acc EXCEPT !.catalog = o]
    ELSE IF acc.catalog = Default THEN [acc EXCEPT !.default = Append(@, o)]
    ELSE [acc EXCEPT !.map = __put_into_hashmap(@, acc.catalog, <<o>>)]

\* A category's name switches to it; any other option is appended to the
\* current category, by GET and PUT, or to the default list.
SplitOne(acc, o) ==
    IF o \in Key THEN [acc EXCEPT !.catalog = o]
    ELSE IF acc.catalog = Default THEN [acc EXCEPT !.default = Append(@, o)]
    ELSE LET list == __get_from_hashmap(acc.map, acc.catalog, acc.value) IN
         [acc EXCEPT !.map = __put_into_hashmap(@, acc.catalog, Append(list, o)),
                     !.value = list]

\* Every category starts with an empty list; the default one exists only when
\* something went there.
EmptyMap(value) ==
    [map |-> FoldLeft(LAMBDA m, k : __put_into_hashmap(m, k, <<>>), <<>>, SetToSeq(Key)),
     value |-> value, catalog |-> Default, default |-> <<>>]

split_options(options, value) ==
    LET end == FoldLeft(SplitOne, EmptyMap(value), options) IN
    [map |-> IF end.default = <<>> THEN end.map
             ELSE __put_into_hashmap(end.map, Default, end.default),
     value |-> end.value]

---------------------------------------------------------------------------
(* hashmap(PUT | GET | REMOVE | CLEAR) as commands.                        *)

Init ==
    /\ hashmap = <<>>
    /\ __value = <<>>
    /\ out = <<>> /\ asked = Default

Find(k) == __value' = FoundValue(hashmap, k, __value)

PUT(k, v) ==
    /\ Find(k)
    /\ hashmap' = __put_into_hashmap(hashmap, k, v)
    /\ asked' = Default
    /\ UNCHANGED out

GET(k) ==
    /\ Find(k)
    /\ out' = __get_from_hashmap(hashmap, k, __value)
    /\ asked' = k
    /\ UNCHANGED hashmap

REMOVE(k) ==
    /\ Find(k)
    /\ hashmap' = __remove_from_hashmap(hashmap, k)
    /\ asked' = Default
    /\ UNCHANGED out

CLEAR ==
    /\ hashmap' = <<>>
    /\ asked' = Default
    /\ UNCHANGED <<__value, out>>

\* A configuration uses one map with single commands.
Next ==
    \/ \E k \in Key : GET(k) \/ REMOVE(k) \/ \E v \in Values : PUT(k, v)
    \/ CLEAR

Spec == Init /\ [][Next]_vars

---------------------------------------------------------------------------
(* Properties.                                                             *)

\* The map a list stands for: the entry of a key is where the walk finds it.
KeysIn(m) == {k \in Key \cup {Default} : __find_in_hashmap(m, k) # -1}
Decode(m) == [k \in KeysIn(m) |-> ValueAt(m, __find_in_hashmap(m, k))]

\* An entry is complete: a key, a length, and as many elements as it says.
EntryAt(m, i) ==
    /\ i < Len(m) /\ KeyAt(m, i) \in Key \cup {Default}
    /\ LengthAt(m, i) \in 0..MaxValue /\ NextAt(m, i) <= Len(m) + 1
    /\ Range(ValueAt(m, i)) \subseteq Elem

\* The walk over the list finds complete entries only, each with a key of its
\* own, and ends exactly at its end: the lengths stored in the list stay right
\* under every edit of ZilliansHashmapUtility.cmake, so no element is ever
\* taken for a key.
Layout ==
    /\ \A i \in Walk(hashmap) : EntryAt(hashmap, i)
    /\ \A i, j \in Walk(hashmap) : KeyAt(hashmap, i) = KeyAt(hashmap, j) => i = j

\* The flat list implements the map, and each command of hashmap() is the
\* operation of that name, also when the map has the key already.
Map == INSTANCE KeyMap WITH map <- Decode(hashmap), List <- Values
CommandsImplemented ==
    /\ CLEAR => Map!Clear
    /\ \A k \in Key :
         /\ GET(k) => UNCHANGED Decode(hashmap)
         /\ REMOVE(k) => Map!Remove(k)
         /\ \A v \in Values : PUT(k, v) => Map!Put(k, v)
ImplementsMap == Map!Spec /\ [][CommandsImplemented]_vars

\* GET of a key that is present answers with its list, whatever was looked up
\* or overwritten before.
GetFindsList ==
    asked \in KeysIn(hashmap) => out = Decode(hashmap)[asked]

\* What split_options should find: an option belongs to the nearest category
\* named before it, or to the default one.
CategoryOf(options, i) ==
    LET named == {j \in 1..i : options[j] \in Key} IN
    IF named = {} THEN Default ELSE options[CHOOSE j \in named : \A l \in named : l <= j]

OptionsOf(options, c) ==
    LET mine == SelectSeq([i \in 1..Len(options) |-> i],
                          LAMBDA i : options[i] \notin Key /\ CategoryOf(options, i) = c)
    IN [n \in 1..Len(mine) |-> options[mine[n]]]

\* "Split list of arguments into seperate list stored in a hashmap"
\* (ZilliansOptionUtility.cmake): whatever is left in __value, the list of a
\* category has its options in order, also when it is named again later, and
\* the default category is there only if it has any.  split_options clears the
\* map first, so this is about the states in which it is clear.
SplitIsRight ==
    hashmap = <<>> =>
      \A options \in Options :
        LET map == Decode(split_options(options, __value).map) IN
        /\ DOMAIN map = Key \cup {c \in {Default} : OptionsOf(options, c) # <<>>}
        /\ \A c \in DOMAIN map : map[c] = OptionsOf(options, c)
=============================================================================
