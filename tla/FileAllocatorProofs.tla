------------------------ MODULE FileAllocatorProofs ------------------------
(***************************************************************************)
(* What FileAllocator guarantees for any number of callers, files and      *)
(* sizes, whether or not a disk operation fails.                           *)
(***************************************************************************)
EXTENDS FileAllocator, SequenceTheorems, TLAPS

\* A listed file is listed with the size first specified for it; any other is
\* as long on disk as first specified, or was never specified and is absent.
SizesAreFirst ==
    \A f \in File :
      /\ f \in DOMAIN _pendingSize => first[f] # Absent /\ _pendingSize[f] = first[f]
      /\ f \notin DOMAIN _pendingSize => disk[f] = first[f]

\* How far the worker is with its file; the other listed ones do not exist yet.
DiskProgress ==
    /\ worker = "open" => disk[wname] = Absent
    /\ worker = "fill" => disk[wname] = 0
    /\ worker = "pop" => disk[wname] = wsize
    /\ worker # "gone" =>
         \A f \in DOMAIN _pendingSize : (Allocating /\ f = wname) \/ disk[f] = Absent

\* What a caller's size argument says of its file.
Knows(c) ==
    /\ cpc[c] \in {"requested", "asap", "returned"} => cname[c] \in File
    /\ cpc[c] = "requested" /\ ~_failed => csize[c] = first[cname[c]] /\ csize[c] # Absent
    /\ cpc[c] = "asap" => csize[c] = first[cname[c]]
    /\ cpc[c] = "returned" => cname[c] \notin DOMAIN _pendingSize /\ csize[c] = first[cname[c]]

CallersKnow == \A c \in Caller : Knows(c)

IInv ==
    /\ TypeOK
    /\ ListAndSizesAgree
    /\ WorkerHasFirst
    /\ SizesAreFirst
    /\ DiskProgress
    /\ CallersKnow

---------------------------------------------------------------------------
(* Lists without repetitions.                                              *)

\* RemoveFirst takes an element out of a list that has it once at most.
LEMMA RemoveFirstOnce ==
  ASSUME NEW S, NEW s \in Seq(S), NEW e, IsInjective(s)
  PROVE  /\ RemoveFirst(s, e) \in Seq(S)
         /\ IsInjective(RemoveFirst(s, e))
         /\ Range(RemoveFirst(s, e)) = Range(s) \ {e}
<1>0. DOMAIN s = 1..Len(s) /\ Len(s) \in Nat /\ \A i \in 1..Len(s) : s[i] \in S
  BY LenProperties, ElementOfSeq
<1>1. CASE ~ \E i \in 1..Len(s) : s[i] = e
  BY <1>0, <1>1 DEF RemoveFirst, Range
<1>2. ASSUME NEW k \in 1..Len(s), s[k] = e
      PROVE  /\ RemoveFirst(s, e) \in Seq(S)
             /\ IsInjective(RemoveFirst(s, e))
             /\ Range(RemoveFirst(s, e)) = Range(s) \ {e}
  <2> DEFINE a == SubSeq(s, 1, k-1)
             b == SubSeq(s, k+1, Len(s))
             t == a \o b
  <2>1. {i \in 1..Len(s) : s[i] = e} = {k}
    BY <1>0, <1>2 DEF IsInjective
  <2>2. SelectInSeq(s, LAMBDA v : v = e) = k
    BY <2>1, <1>0 DEF SelectInSeq, Min
  <2>3. RemoveFirst(s, e) = t
    BY <2>2, <1>2 DEF RemoveFirst, RemoveAt
  <2>4. a \in Seq(S) /\ Len(a) = k-1 /\ \A i \in 1..(k-1) : a[i] = s[i]
    <3>1. /\ a \in Seq(S) /\ Len(a) = IF 1 <= k-1 THEN k-1-1+1 ELSE 0
          /\ \A i \in 1 .. k-1-1+1 : a[i] = s[1+i-1]
      <4>1. \A i \in 1..(k-1) : s[i] \in S
        BY <1>0
      <4> QED BY <4>1, <1>0, SubSeqProperties
    <3> QED BY <3>1, <1>0
  <2>5. b \in Seq(S) /\ Len(b) = Len(s) - k /\ \A i \in 1..(Len(s) - k) : b[i] = s[i + k]
    <3>1. /\ b \in Seq(S) /\ Len(b) = IF k+1 <= Len(s) THEN Len(s)-(k+1)+1 ELSE 0
          /\ \A i \in 1 .. Len(s)-(k+1)+1 : b[i] = s[(k+1)+i-1]
      <4>1. \A i \in (k+1)..Len(s) : s[i] \in S
        BY <1>0
      <4> QED BY <4>1, <1>0, SubSeqProperties
    <3> HIDE DEF b
    <3>2. Len(s)-(k+1)+1 = Len(s) - k /\ Len(b) = Len(s) - k
      <4>1. k \in Int /\ Len(s) \in Int /\ k <= Len(s)
        BY <1>0
      <4>2. Len(s)-(k+1)+1 = Len(s) - k
        BY <4>1
      <4>3. CASE k+1 <= Len(s)
        BY <3>1, <4>2, <4>3
      <4>4. CASE ~(k+1 <= Len(s))
        <5>1. Len(b) = 0
          BY <3>1, <4>4
        <5>2. Len(s) - k = 0
          BY <4>1, <4>4
        <5> QED BY <4>2, <5>1, <5>2
      <4> QED BY <4>2, <4>3, <4>4
    <3>3. ASSUME NEW i \in 1..(Len(s) - k) PROVE b[i] = s[i + k]
      <4>1. (k+1)+i-1 = i + k
        BY <1>0
      <4> QED BY <3>1, <3>2, <4>1
    <3> QED BY <3>1, <3>2, <3>3
  <2>6. /\ t \in Seq(S) /\ Len(t) = Len(s) - 1
        /\ \A i \in 1..Len(t) : t[i] = IF i < k THEN s[i] ELSE s[i+1]
    <3>1. /\ t \in Seq(S) /\ Len(t) = Len(a) + Len(b)
          /\ \A i \in 1..(Len(a) + Len(b)) : t[i] = IF i <= Len(a) THEN a[i] ELSE b[i - Len(a)]
      BY <2>4, <2>5, ConcatProperties
    <3> HIDE DEF t, a, b
    <3>2. /\ Len(a) + Len(b) = Len(s) - 1
          /\ Len(t) = Len(s) - 1
          /\ \A i \in 1..(Len(s) - 1) : t[i] = IF i <= k-1 THEN a[i] ELSE b[i - (k-1)]
      <4>1. Len(a) + Len(b) = Len(s) - 1
        BY <2>4, <2>5, <1>0
      <4> QED BY <3>1, <4>1, <2>4
    <3>3. ASSUME NEW i \in 1..(Len(s) - 1), i < k PROVE t[i] = s[i]
      <4>1. i <= k - 1 /\ i \in 1..(k-1)
        BY <3>3, <1>0
      <4> QED BY <3>2, <4>1, <2>4
    <3>4. ASSUME NEW i \in 1..(Len(s) - 1), ~(i < k) PROVE t[i] = s[i+1]
      <4>1. t[i] = b[i - (k-1)] /\ i - (k-1) \in 1..(Len(s) - k)
        <5>1. ~(i <= k - 1) /\ i - (k-1) \in 1..(Len(s) - k)
          BY <3>4, <1>0
        <5> QED BY <3>2, <5>1
      <4>2. b[i - (k-1)] = s[(i - (k-1)) + k]
        BY <4>1, <2>5
      <4>3. (i - (k-1)) + k = i + 1
        BY <1>0
      <4> QED BY <4>1, <4>2, <4>3
    <3> QED BY <3>1, <3>2, <3>3, <3>4, <1>0
  <2>7. DOMAIN t = 1..Len(t)
    BY <2>6, LenProperties
  <2> HIDE DEF t
  <2>8. IsInjective(t)
    <3>1. ASSUME NEW i \in 1..Len(t)
          PROVE  \E o \in 1..Len(s) : t[i] = s[o] /\ o = IF i < k THEN i ELSE i + 1
      <4>1. CASE i < k
        BY <2>6, <1>0, <4>1
      <4>2. CASE ~(i < k)
        <5>1. i + 1 \in 1..Len(s) /\ t[i] = s[i + 1]
          BY <2>6, <1>0, <4>2
        <5> QED BY <4>2, <5>1
      <4> QED BY <4>1, <4>2
    <3>2. ASSUME NEW i \in 1..Len(t), NEW j \in 1..Len(t), t[i] = t[j] PROVE i = j
      <4>1. PICK o \in 1..Len(s) : t[i] = s[o] /\ o = IF i < k THEN i ELSE i + 1
        BY <3>1
      <4>2. PICK q \in 1..Len(s) : t[j] = s[q] /\ q = IF j < k THEN j ELSE j + 1
        BY <3>1
      <4>3. o = q
        BY <1>0, <3>2, <4>1, <4>2 DEF IsInjective
      <4> QED BY <1>0, <4>1, <4>2, <4>3
    <3> QED BY <2>7, <3>2 DEF IsInjective
  <2>9. Range(t) = Range(s) \ {e}
    <3>1. ASSUME NEW x \in Range(s), x # e PROVE x \in Range(t)
      <4>1. PICK i \in 1..Len(s) : s[i] = x /\ i # k
        BY <3>1, <1>0, <1>2 DEF Range
      <4>2. CASE i < k
        BY <4>1, <4>2, <2>6, <2>7, <1>0 DEF Range
      <4>3. CASE i > k
        <5>1. i - 1 \in DOMAIN t /\ t[i-1] = s[i]
          BY <4>1, <4>3, <2>6, <2>7, <1>0
        <5> QED BY <5>1, <4>1 DEF Range
      <4> QED BY <4>1, <4>2, <4>3, <1>0
    <3>2. ASSUME NEW x \in Range(t) PROVE x \in Range(s) /\ x # e
      <4>1. PICK i \in 1..Len(t) : t[i] = x
        BY <2>7 DEF Range
      <4>2. PICK j \in 1..Len(s) : s[j] = x /\ j # k
        BY <4>1, <2>6, <1>0
      <4> QED BY <4>2, <1>0, <1>2 DEF Range, IsInjective
    <3> QED BY <3>1, <3>2
  <2> QED BY <2>3, <2>6, <2>8, <2>9
<1> QED BY <1>1, <1>2

\* What pop_front leaves of a list without repetitions.
LEMMA TailOnce ==
  ASSUME NEW S, NEW s \in Seq(S), s # <<>>, IsInjective(s)
  PROVE  /\ Head(s) \in Range(s)
         /\ Tail(s) \in Seq(S)
         /\ IsInjective(Tail(s))
         /\ Range(Tail(s)) = Range(s) \ {Head(s)}
<1>1. /\ DOMAIN s = 1..Len(s) /\ Len(s) \in Nat \ {0} /\ Head(s) = s[1]
      /\ Tail(s) \in Seq(S) /\ Len(Tail(s)) = Len(s) - 1
      /\ \A i \in 1..Len(Tail(s)) : Tail(s)[i] = s[i+1]
  BY LenProperties, EmptySeq, HeadTailProperties
<1>2. DOMAIN Tail(s) = 1..Len(Tail(s))
  BY <1>1, LenProperties
<1> DEFINE t == Tail(s)
<1> HIDE DEF t
<1>3. /\ DOMAIN t = 1..(Len(s) - 1) /\ \A i \in 1..(Len(s) - 1) : t[i] = s[i+1]
  BY <1>1, <1>2 DEF t
<1>4. IsInjective(t)
  BY <1>1, <1>3 DEF IsInjective
<1>5. ASSUME NEW x \in Range(s), x # Head(s) PROVE x \in Range(t)
  <2>1. PICK i \in 2..Len(s) : s[i] = x
    BY <1>1, <1>5 DEF Range
  <2>2. i - 1 \in DOMAIN t /\ t[i-1] = x
    BY <2>1, <1>1, <1>3
  <2> QED BY <2>2 DEF Range
<1>6. ASSUME NEW x \in Range(t) PROVE x \in Range(s) /\ x # Head(s)
  <2>1. PICK i \in 1..(Len(s) - 1) : s[i+1] = x
    BY <1>3 DEF Range
  <2> QED BY <2>1, <1>1 DEF Range, IsInjective
<1>7. Head(s) \in Range(s)
  BY <1>1 DEF Range
<1> QED BY <1>1, <1>4, <1>5, <1>6, <1>7 DEF t

\* Putting a new element before a list without repetitions.
LEMMA ConsOnce ==
  ASSUME NEW S, NEW s \in Seq(S), NEW e \in S, IsInjective(s), e \notin Range(s)
  PROVE  /\ <<e>> \o s \in Seq(S)
         /\ IsInjective(<<e>> \o s)
         /\ Range(<<e>> \o s) = Range(s) \cup {e}
         /\ <<e>> \o s # <<>> /\ Head(<<e>> \o s) = e
<1> DEFINE t == <<e>> \o s
<1>1. <<e>> \in Seq(S) /\ Len(<<e>>) = 1 /\ <<e>>[1] = e /\ Len(s) \in Nat /\ DOMAIN s = 1..Len(s)
  BY LenProperties
<1>2. /\ t \in Seq(S) /\ Len(t) = Len(<<e>>) + Len(s)
      /\ \A i \in 1..(Len(<<e>>) + Len(s)) : t[i] = IF i <= Len(<<e>>) THEN <<e>>[i] ELSE s[i - Len(<<e>>)]
  BY <1>1, ConcatProperties
<1>3. DOMAIN t = 1..Len(t)
  BY <1>2, LenProperties
<1> HIDE DEF t
<1>4. Len(t) = Len(s) + 1 /\ t[1] = e /\ \A i \in 2..(Len(s) + 1) : t[i] = s[i-1]
  BY <1>1, <1>2
<1>5. IsInjective(t)
  <2>1. ASSUME NEW i \in 2..(Len(s) + 1) PROVE i - 1 \in 1..Len(s) /\ t[i] = s[i - 1] /\ t[i] # e
    <3>1. i - 1 \in 1..Len(s) /\ t[i] = s[i - 1]
      BY <1>1, <1>4
    <3> QED BY <1>1, <3>1 DEF Range
  <2>2. ASSUME NEW i \in 1..(Len(s) + 1), NEW j \in 1..(Len(s) + 1), t[i] = t[j] PROVE i = j
    <3>1. (i = 1 \/ i \in 2..(Len(s) + 1)) /\ (j = 1 \/ j \in 2..(Len(s) + 1))
      BY <1>1
    <3>2. CASE i = 1 \/ j = 1
      BY <1>4, <2>1, <2>2, <3>1, <3>2
    <3>3. CASE i \in 2..(Len(s) + 1) /\ j \in 2..(Len(s) + 1)
      <4>1. s[i - 1] = s[j - 1] /\ i - 1 \in DOMAIN s /\ j - 1 \in DOMAIN s
        BY <1>1, <2>1, <2>2, <3>3
      <4>2. i - 1 = j - 1
        BY <4>1 DEF IsInjective
      <4> QED BY <1>1, <4>2
    <3> QED BY <3>1, <3>2, <3>3
  <2> QED BY <1>3, <1>4, <2>2 DEF IsInjective
<1>6. Range(t) = Range(s) \cup {e}
  <2>1. ASSUME NEW x \in Range(t) PROVE x \in Range(s) \cup {e}
    BY <1>1, <1>3, <1>4 DEF Range
  <2>2. ASSUME NEW x \in Range(s) PROVE x \in Range(t)
    <3>1. PICK i \in 1..Len(s) : s[i] = x
      BY <1>1 DEF Range
    <3>2. i + 1 \in DOMAIN t /\ t[i+1] = x
      BY <3>1, <1>1, <1>3, <1>4
    <3> QED BY <3>2 DEF Range
  <2>3. e \in Range(t)
    BY <1>1, <1>3, <1>4 DEF Range
  <2> QED BY <2>1, <2>2, <2>3
<1>7. t # <<>> /\ Head(t) = e
  BY <1>1, <1>2, <1>4
<1> QED BY <1>2, <1>5, <1>6, <1>7 DEF t

\* Appending a new element to a list without repetitions.
LEMMA AppendOnce ==
  ASSUME NEW S, NEW s \in Seq(S), NEW e \in S, IsInjective(s), e \notin Range(s)
  PROVE  /\ Append(s, e) \in Seq(S)
         /\ IsInjective(Append(s, e))
         /\ Range(Append(s, e)) = Range(s) \cup {e}
         /\ Append(s, e) # <<>>
         /\ s # <<>> => Head(Append(s, e)) = Head(s)
<1> DEFINE t == Append(s, e)
<1>1. Len(s) \in Nat /\ DOMAIN s = 1..Len(s) /\ (s # <<>> => Len(s) > 0)
  BY LenProperties, EmptySeq
<1>2. /\ t \in Seq(S) /\ t # <<>> /\ Len(t) = Len(s) + 1
      /\ t[Len(s) + 1] = e /\ \A i \in 1..Len(s) : t[i] = s[i]
  BY AppendProperties
<1>3. DOMAIN t = 1..Len(t)
  BY <1>2, LenProperties
<1>4. s # <<>> => Head(t) = Head(s)
  BY HeadTailAppend
<1> HIDE DEF t
<1>5. IsInjective(t)
  BY <1>1, <1>2, <1>3 DEF IsInjective, Range
<1>6. Range(t) = Range(s) \cup {e}
  <2>1. ASSUME NEW x \in Range(t) PROVE x \in Range(s) \cup {e}
    BY <1>1, <1>2, <1>3 DEF Range
  <2>2. ASSUME NEW x \in Range(s) PROVE x \in Range(t)
    BY <1>1, <1>2, <1>3 DEF Range
  <2>3. e \in Range(t)
    BY <1>1, <1>2, <1>3 DEF Range
  <2> QED BY <2>1, <2>2, <2>3
<1> QED BY <1>2, <1>4, <1>5, <1>6 DEF t

---------------------------------------------------------------------------
(* The list of files.                                                      *)

\* allocateAsap's reordering leaves the file being allocated in its place.
LEMMA MoveToSecondOnce ==
  ASSUME NEW f \in File, _pending \in Seq(File), IsInjective(_pending)
  PROVE  /\ MoveToSecond(f) \in Seq(File)
         /\ IsInjective(MoveToSecond(f))
         /\ Range(MoveToSecond(f)) = Range(_pending) \cup {f}
         /\ MoveToSecond(f) # <<>>
         /\ _pending # <<>> => Head(MoveToSecond(f)) = Head(_pending)
<1> DEFINE h == Head(_pending)
           r == RemoveFirst(Tail(_pending), f)
<1>1. CASE _pending = <<>>
  <2>1. /\ <<f>> \in Seq(File) /\ DOMAIN <<f>> = {1} /\ <<f>>[1] = f /\ <<f>> # <<>>
    OBVIOUS
  <2>2. Range(<<f>>) = {f} /\ Range(_pending) = {} /\ IsInjective(<<f>>)
    BY <2>1, <1>1 DEF Range, IsInjective
  <2> QED BY <1>1, <2>1, <2>2 DEF MoveToSecond
<1>2. CASE _pending # <<>> /\ h = f
  <2>1. f \in Range(_pending)
    BY <1>2, TailOnce
  <2> QED BY <1>2, <2>1 DEF MoveToSecond
<1>3. CASE _pending # <<>> /\ h # f
  <2>1. /\ h \in Range(_pending) /\ Tail(_pending) \in Seq(File) /\ IsInjective(Tail(_pending))
        /\ Range(Tail(_pending)) = Range(_pending) \ {h}
    BY <1>3, TailOnce
  <2>2. r \in Seq(File) /\ IsInjective(r) /\ Range(r) = Range(Tail(_pending)) \ {f}
    BY <2>1, RemoveFirstOnce
  <2>3. h \in File
    BY <1>3, HeadTailProperties
  <2> HIDE DEF h, r
  <2> DEFINE u == <<f>> \o r
             v == <<h>> \o u
  <2>4. u \in Seq(File) /\ IsInjective(u) /\ Range(u) = Range(r) \cup {f}
    BY <2>2, ConsOnce
  <2> HIDE DEF u
  <2>5. h \notin Range(u)
    BY <2>1, <2>2, <2>4, <1>3
  <2>6. /\ v \in Seq(File) /\ IsInjective(v) /\ Range(v) = Range(u) \cup {h}
        /\ v # <<>> /\ Head(v) = h
    BY <2>3, <2>4, <2>5, ConsOnce
  <2>7. <<h, f>> \o r = v
    <3>1. <<h, f>> = <<h>> \o <<f>>
      OBVIOUS
    <3>2. <<h>> \in Seq(File) /\ <<f>> \in Seq(File)
      BY <2>3
    <3> QED BY <3>1, <3>2, <2>2, ConcatAssociative DEF u
  <2>8. MoveToSecond(f) = v
    BY <2>7, <1>3 DEF MoveToSecond, h, r
  <2>9. Range(v) = Range(_pending) \cup {f}
    BY <2>6, <2>4, <2>2, <2>1
  <2> QED BY <2>6, <2>8, <2>9 DEF h
<1> QED BY <1>1, <1>2, <1>3

---------------------------------------------------------------------------
(* The inductive invariant.                                                *)

LEMMA InitIInv == Init => IInv
<1> SUFFICES ASSUME Init PROVE IInv
  OBVIOUS
<1> USE SizeAssumption DEF Init, Absent
<1>1. DOMAIN _pendingSize = {} /\ Range(_pendingSize) = {} /\ Range(_pending) = {} /\ IsInjective(_pending)
  BY DEF Range, IsInjective
<1>2. TypeOK
  <2>1. disk \in [File -> Nat \cup {-1}] /\ first = disk
    OBVIOUS
  <2>2. _pending \in Seq(File)
    OBVIOUS
  <2> QED BY <1>1, <2>1, <2>2 DEF TypeOK, WorkerStates, CallerStates
<1>3. ListAndSizesAgree /\ WorkerHasFirst
  BY <1>1 DEF ListAndSizesAgree, WorkerHasFirst, Allocating
<1>4. SizesAreFirst /\ DiskProgress /\ CallersKnow
  BY <1>1 DEF SizesAreFirst, DiskProgress, CallersKnow, Knows, Allocating
<1> QED BY <1>2, <1>3, <1>4 DEF IInv

\* A size for one more file, or another one for a known file.
LEMMA SetSizeFacts ==
  ASSUME TypeOK, NEW f \in File, NEW n \in Nat, SetSize(f, n)
  PROVE  /\ DOMAIN _pendingSize' = DOMAIN _pendingSize \cup {f}
         /\ _pendingSize'[f] = n
         /\ \A g \in DOMAIN _pendingSize : g # f => _pendingSize'[g] = _pendingSize[g]
         /\ Range(_pendingSize') \subseteq Nat
BY DEF TypeOK, SetSize, Range

\* prevSize answers a length or Absent, and knows every listed file.
LEMMA PrevSizeFacts ==
  ASSUME TypeOK, ListAndSizesAgree, NEW f \in File
  PROVE  /\ prevSize(f) \in Nat \cup {Absent} /\ Absent \notin Nat
         /\ inProgress(f) <=> f \in DOMAIN _pendingSize
         /\ prevSize(f) = Absent => f \notin DOMAIN _pendingSize /\ disk[f] = Absent
<1>1. Absent \notin Nat
  BY DEF Absent
<1>2. \A g \in DOMAIN _pendingSize : _pendingSize[g] \in Nat
  BY DEF TypeOK, Range
<1>3. inProgress(f) <=> f \in DOMAIN _pendingSize
  <2>1. DOMAIN _pending = 1..Len(_pending)
    BY LenProperties DEF TypeOK
  <2> QED BY <2>1 DEF inProgress, Contains, ListAndSizesAgree, Range
<1> QED BY <1>1, <1>2, <1>3 DEF TypeOK, prevSize

\* The file the worker takes up is listed, and its size is that of the list.
LEMMA HeadFacts ==
  ASSUME TypeOK, ListAndSizesAgree, _pending # <<>>
  PROVE  /\ Head(_pending) \in File /\ Head(_pending) \in DOMAIN _pendingSize
         /\ _pendingSize[Head(_pending)] \in Nat
<1>1. Head(_pending) \in Range(_pending) /\ Head(_pending) \in File
  BY TailOnce, HeadTailProperties DEF TypeOK, ListAndSizesAgree
<1> QED BY <1>1 DEF TypeOK, ListAndSizesAgree, Range

LEMMA TypeStep ==
  ASSUME TypeOK, ListAndSizesAgree, WorkerHasFirst, [Next]_vars
  PROVE  TypeOK'
<1> USE SizeAssumption DEF TypeOK, Worker, WorkerStates, CallerStates, pendingVars, workerVars, callerVars
<1>0. Absent \notin Nat /\ Size \subseteq Nat
  BY DEF Absent
<1>1. ASSUME start PROVE TypeOK'
  BY <1>1 DEF start
<1>2. ASSUME NEW c \in Caller, NEW f \in File, NEW n \in Size, requestAllocation(c, f, n)
      PROVE  TypeOK'
  <2>1. CASE _failed \/ prevSize(f) # Absent
    BY <1>0, <1>2, <2>1, PrevSizeFacts DEF requestAllocation, CallerGoes
  <2>2. CASE ~(_failed \/ prevSize(f) # Absent)
    <3>1. Append(_pending, f) \in Seq(File)
      BY AppendProperties
    <3>2. SetSize(f, n) /\ n \in Nat
      BY <1>0, <1>2, <2>2 DEF requestAllocation
    <3>3. DOMAIN _pendingSize' \subseteq File /\ Range(_pendingSize') \subseteq Nat
      BY <3>2, SetSizeFacts
    <3>4. _pending' \in Seq(File) /\ _failed' \in BOOLEAN
      BY <1>2, <2>2, <3>1 DEF requestAllocation
    <3>5. first' \in [File -> Nat \cup {Absent}] /\ waiting' \subseteq Caller \cup {Worker}
      BY <1>2, <2>2, <3>2 DEF requestAllocation, FirstSize, notify_all
    <3>6. CallerGoes(c, "requested", f, n)
      BY <1>2, <2>2 DEF requestAllocation
    <3>7. cpc' \in [Caller -> CallerStates] /\ cname' \in [Caller -> File \cup {NoFile}] /\ csize' \in [Caller -> Nat]
      BY <3>2, <3>6 DEF CallerGoes
    <3>8. UNCHANGED <<disk, workerVars>>
      BY <1>2 DEF requestAllocation
    <3> QED BY <3>3, <3>4, <3>5, <3>7, <3>8
  <2> QED BY <2>1, <2>2
<1>3. ASSUME NEW c \in Caller, NEW f \in File, NEW n \in Size, allocateAsap(c, f, n)
      PROVE  TypeOK'
  <2> DEFINE size == IF prevSize(f) = Absent THEN n ELSE prevSize(f)
  <2>1. size \in Nat
    BY <1>0, PrevSizeFacts
  <2> HIDE DEF size
  <2>2. CASE CallerGoes(c, "returned", f, size) /\ UNCHANGED <<pendingVars, waiting, first>>
    BY <1>3, <2>1, <2>2 DEF allocateAsap, CallerGoes
  <2>3. CASE CallerGoes(c, "threw", f, size) /\ UNCHANGED <<pendingVars, waiting, first>>
    BY <1>3, <2>1, <2>3 DEF allocateAsap, CallerGoes
  <2>4. CASE /\ SetSize(f, size) /\ FirstSize(f, size) /\ _pending' = MoveToSecond(f)
             /\ waiting' = {c} /\ CallerGoes(c, "asap", f, size) /\ UNCHANGED _failed
    <3>1. _pending' \in Seq(File)
      BY <2>4, MoveToSecondOnce DEF ListAndSizesAgree
    <3>2. DOMAIN _pendingSize' \subseteq File /\ Range(_pendingSize') \subseteq Nat
      BY <2>1, <2>4, SetSizeFacts
    <3> QED BY <1>3, <2>1, <2>4, <3>1, <3>2 DEF allocateAsap, CallerGoes, FirstSize
  <2> QED BY <1>3, <2>2, <2>3, <2>4 DEF allocateAsap, size
<1>4. ASSUME NEW c \in Caller, waitUntilFinished(c) PROVE TypeOK'
  BY <1>4 DEF waitUntilFinished, CallerGoes
<1>5. ASSUME NEW c \in Caller, AsapWakes(c) PROVE TypeOK'
  BY <1>5 DEF AsapWakes, CallerGoes
<1>6. ASSUME NEW c \in Caller, Resume(c) PROVE TypeOK'
  BY <1>6 DEF Resume, CallerGoes
<1>7. ASSUME NEW c \in Caller, FinishLoop(c) PROVE TypeOK'
  <2>1. PICK where \in {"idle", "finishWait"} : CallerGoes(c, where, NoFile, 0)
    BY <1>7 DEF FinishLoop
  <2>2. /\ cpc' \in [Caller -> CallerStates]
        /\ cname' \in [Caller -> File \cup {NoFile}] /\ csize' \in [Caller -> Nat]
    BY <2>1 DEF CallerGoes
  <2>3. waiting' \subseteq Caller \cup {Worker}
    BY <1>7 DEF FinishLoop
  <2> QED BY <1>7, <2>2, <2>3 DEF FinishLoop
<1>8. ASSUME WorkerWaits PROVE TypeOK'
  BY <1>8 DEF WorkerWaits, WorkerAt
<1>9. ASSUME WorkerPeeks PROVE TypeOK'
  BY <1>9, HeadFacts DEF WorkerPeeks, WorkerAt
<1>10. ASSUME WorkerOpens PROVE TypeOK'
  BY <1>10 DEF WorkerOpens, WorkerAt
<1>11. ASSUME ensureLength PROVE TypeOK'
  <2>1. \E n \in Nat : disk' = [disk EXCEPT ![wname] = IF @ < n THEN n ELSE @]
    BY <1>11 DEF ensureLength
  <2>2. disk' \in [File -> Nat \cup {Absent}]
    BY <2>1
  <2> QED BY <1>11, <2>2 DEF ensureLength, WorkerAt
<1>12. ASSUME WorkerCleansUp PROVE TypeOK'
  BY <1>12 DEF WorkerCleansUp, WorkerAt
<1>13. ASSUME WorkerFails PROVE TypeOK'
  BY <1>13 DEF WorkerFails, WorkerAt, notify_all
<1>14. ASSUME WorkerPops PROVE TypeOK'
  <2>1. Tail(_pending) \in Seq(File)
    BY <1>14, TailOnce DEF WorkerPops, WorkerHasFirst, Allocating, ListAndSizesAgree
  <2> QED BY <1>14, <2>1 DEF WorkerPops, WorkerAt, notify_all, Range
<1>15. ASSUME SpuriousWakeup PROVE TypeOK'
  BY <1>15 DEF SpuriousWakeup
<1>16. ASSUME UNCHANGED vars PROVE TypeOK'
  BY <1>16 DEF vars
<1> QED BY <1>1, <1>2, <1>3, <1>4, <1>5, <1>6, <1>7, <1>8, <1>9, <1>10, <1>11, <1>12, <1>13, <1>14,
           <1>15, <1>16 DEF Next, WorkerStep, Call, Continue

---------------------------------------------------------------------------
(* What a step does to the list.                                           *)

\* f is put on the list, or has been there and may move.
Grows(f) ==
    /\ IsInjective(_pending') /\ Range(_pending') = Range(_pending) \cup {f}
    /\ _pending' # <<>> /\ (_pending # <<>> => Head(_pending') = Head(_pending))
    /\ DOMAIN _pendingSize' = DOMAIN _pendingSize \cup {f}
    /\ \A g \in DOMAIN _pendingSize : _pendingSize'[g] = _pendingSize[g]
    /\ _pendingSize'[f] = first'[f] /\ first'[f] # Absent
    /\ \A g \in File : g # f \/ f \in DOMAIN _pendingSize => first'[g] = first[g]
    /\ f \notin DOMAIN _pendingSize => disk[f] = Absent
    /\ UNCHANGED <<_failed, disk, worker, wname, wsize>>

\* requestAllocation puts a file on the list that nobody asked for before.
LEMMA RequestGrows ==
  ASSUME IInv, NEW c \in Caller, NEW f \in File, NEW n \in Size,
         requestAllocation(c, f, n), ~(_failed \/ prevSize(f) # Absent)
  PROVE  Grows(f)
<1> USE DEF IInv
<1>1. /\ _pending' = Append(_pending, f) /\ SetSize(f, n) /\ FirstSize(f, n)
      /\ UNCHANGED <<_failed, disk, worker, wname, wsize>> /\ n \in Nat /\ Absent \notin Nat
  BY SizeAssumption DEF requestAllocation, workerVars, Absent
<1>2. f \notin DOMAIN _pendingSize /\ disk[f] = Absent
  BY PrevSizeFacts
<1>3. /\ IsInjective(_pending') /\ Range(_pending') = Range(_pending) \cup {f}
      /\ _pending' # <<>> /\ (_pending # <<>> => Head(_pending') = Head(_pending))
  BY <1>1, <1>2, AppendOnce DEF ListAndSizesAgree, TypeOK
<1>4. first[f] = Absent
  BY <1>2 DEF SizesAreFirst
<1>5. first'[f] = n /\ \A g \in File : g # f => first'[g] = first[g]
  BY <1>1, <1>4 DEF FirstSize, TypeOK
<1>6. /\ DOMAIN _pendingSize' = DOMAIN _pendingSize \cup {f} /\ _pendingSize'[f] = n
      /\ \A g \in DOMAIN _pendingSize : g # f => _pendingSize'[g] = _pendingSize[g]
  BY <1>1, SetSizeFacts
<1> QED BY <1>1, <1>2, <1>3, <1>5, <1>6 DEF Grows

\* allocateAsap's wait puts a file on the list, or moves it up with its size.
LEMMA AsapGrows ==
  ASSUME IInv, NEW f \in File, NEW n \in Nat,
         n = prevSize(f) \/ prevSize(f) = Absent, prevSize(f) = Absent \/ inProgress(f),
         SetSize(f, n), FirstSize(f, n), _pending' = MoveToSecond(f),
         UNCHANGED <<_failed, disk, worker, wname, wsize>>
  PROVE  Grows(f)
<1> USE DEF IInv
<1>1. /\ IsInjective(_pending') /\ Range(_pending') = Range(_pending) \cup {f}
      /\ _pending' # <<>> /\ (_pending # <<>> => Head(_pending') = Head(_pending))
  BY MoveToSecondOnce DEF ListAndSizesAgree, TypeOK
<1>2. /\ DOMAIN _pendingSize' = DOMAIN _pendingSize \cup {f} /\ _pendingSize'[f] = n
      /\ \A g \in DOMAIN _pendingSize : g # f => _pendingSize'[g] = _pendingSize[g]
  BY SetSizeFacts
<1>3. Absent \notin Nat
  BY DEF Absent
<1>4. CASE f \in DOMAIN _pendingSize
  <2>1. first[f] # Absent /\ _pendingSize[f] = first[f] /\ n = first[f]
    BY <1>4, PrevSizeFacts DEF SizesAreFirst, prevSize
  <2>2. first' = first
    BY <2>1 DEF FirstSize
  <2> QED BY <1>1, <1>2, <1>3, <1>4, <2>1, <2>2 DEF Grows
<1>5. CASE f \notin DOMAIN _pendingSize
  <2>1. disk[f] = Absent /\ first[f] = Absent
    BY <1>5, PrevSizeFacts DEF SizesAreFirst
  <2>2. first'[f] = n /\ \A g \in File : g # f => first'[g] = first[g]
    BY <2>1 DEF FirstSize, TypeOK
  <2> QED BY <1>1, <1>2, <1>3, <1>5, <2>1, <2>2 DEF Grows
<1> QED BY <1>4, <1>5

\* A call of allocateAsap that goes to its wait.
LEMMA AllocateAsapGrows ==
  ASSUME IInv, NEW c \in Caller, NEW f \in File, NEW n \in Size, allocateAsap(c, f, n),
         cpc'[c] = "asap"
  PROVE  /\ Grows(f)
         /\ CallerGoes(c, "asap", f, _pendingSize'[f])
<1> DEFINE size == IF prevSize(f) = Absent THEN n ELSE prevSize(f)
<1>1. /\ SetSize(f, size) /\ FirstSize(f, size) /\ _pending' = MoveToSecond(f)
      /\ prevSize(f) = Absent \/ inProgress(f)
      /\ CallerGoes(c, "asap", f, size) /\ UNCHANGED <<_failed, disk, worker, wname, wsize>>
  BY DEF allocateAsap, CallerGoes, pendingVars, workerVars, IInv, TypeOK
<1>2. size \in Nat /\ (size = prevSize(f) \/ prevSize(f) = Absent)
  BY PrevSizeFacts, SizeAssumption DEF IInv
<1> HIDE DEF size
<1>3. Grows(f)
  BY <1>1, <1>2, AsapGrows
<1>4. _pendingSize'[f] = size
  BY <1>1, <1>2, SetSizeFacts DEF IInv
<1> QED BY <1>1, <1>3, <1>4

\* The list stays, gets a file, or loses its first.
LEMMA ListStep ==
  ASSUME IInv, [Next]_vars
  PROVE  \/ UNCHANGED <<_pending, _pendingSize, first>>
         \/ \E f \in File : Grows(f)
         \/ WorkerPops
<1> DEFINE Goal == \/ UNCHANGED <<_pending, _pendingSize, first>>
                   \/ \E f \in File : Grows(f)
                   \/ WorkerPops
<1> USE DEF pendingVars
<1>1. ASSUME NEW c \in Caller, NEW f \in File, NEW n \in Size, requestAllocation(c, f, n)
      PROVE  Goal
  BY <1>1, RequestGrows DEF requestAllocation
<1>2. ASSUME NEW c \in Caller, NEW f \in File, NEW n \in Size, allocateAsap(c, f, n)
      PROVE  Goal
  <2>1. CASE cpc'[c] = "asap"
    BY <1>2, <2>1, AllocateAsapGrows
  <2>2. CASE cpc'[c] # "asap"
    BY <1>2, <2>2 DEF allocateAsap, CallerGoes, IInv, TypeOK
  <2> QED BY <2>1, <2>2
<1>3. ASSUME NEW c \in Caller, waitUntilFinished(c) \/ Continue(c) PROVE Goal
  BY <1>3 DEF waitUntilFinished, Continue, AsapWakes, Resume, FinishLoop
<1>4. ASSUME WorkerStep PROVE Goal
  BY <1>4 DEF WorkerStep, WorkerWaits, WorkerPeeks, WorkerOpens, ensureLength, WorkerCleansUp, WorkerFails
<1>5. ASSUME start \/ SpuriousWakeup \/ UNCHANGED vars PROVE Goal
  BY <1>5 DEF start, SpuriousWakeup, vars
<1> QED BY <1>1, <1>2, <1>3, <1>4, <1>5 DEF Next, Call

\* Callers leave the worker and the disk alone.
LEMMA WorkerUnchanged ==
  ASSUME [Next]_vars, ~WorkerStep, ~start
  PROVE  UNCHANGED <<disk, worker, wname, wsize, _failed>>
BY DEF Next, Call, Continue, requestAllocation, allocateAsap, waitUntilFinished, AsapWakes, Resume, FinishLoop,
       SpuriousWakeup, vars, pendingVars, workerVars

\* pop_front takes the allocated file off the list and out of the sizes.
LEMMA PopFacts ==
  ASSUME IInv, WorkerPops
  PROVE  /\ IsInjective(_pending')
         /\ Range(_pending') = Range(_pending) \ {wname}
         /\ DOMAIN _pendingSize' = DOMAIN _pendingSize \ {wname}
         /\ \A g \in DOMAIN _pendingSize' : _pendingSize'[g] = _pendingSize[g]
         /\ wname \in DOMAIN _pendingSize
         /\ worker = "pop" /\ worker' = "peek" /\ UNCHANGED <<disk, first, _failed>>
         /\ disk[wname] = first[wname]
<1> USE DEF IInv
<1>1. worker = "pop" /\ _pending # <<>> /\ Head(_pending) = wname /\ _pendingSize[wname] = wsize
  BY DEF WorkerPops, WorkerHasFirst, Allocating
<1>2. wname \in DOMAIN _pendingSize /\ wname \in File
  BY <1>1, HeadFacts
<1>3. IsInjective(_pending') /\ Range(_pending') = Range(_pending) \ {wname}
  BY <1>1, TailOnce DEF WorkerPops, ListAndSizesAgree, TypeOK
<1>4. disk[wname] = first[wname]
  BY <1>1, <1>2 DEF DiskProgress, SizesAreFirst
<1> QED BY <1>1, <1>2, <1>3, <1>4 DEF WorkerPops, WorkerAt

---------------------------------------------------------------------------
(* The steps of the inductive invariant.                                   *)

LEMMA ListAndSizesStep ==
  ASSUME IInv, [Next]_vars
  PROVE  ListAndSizesAgree'
<1> USE DEF IInv, ListAndSizesAgree
<1>1. CASE UNCHANGED <<_pending, _pendingSize, first>>
  BY <1>1
<1>2. CASE \E f \in File : Grows(f)
  BY <1>2 DEF Grows
<1>3. CASE WorkerPops
  BY <1>3, PopFacts
<1> QED BY <1>1, <1>2, <1>3, ListStep

\* While the worker allocates, its file keeps the first place and its size.
LEMMA WorkerStepFirst ==
  ASSUME IInv, [Next]_vars
  PROVE  WorkerHasFirst'
<1> USE DEF IInv, WorkerHasFirst, Allocating
<1>1. CASE \E f \in File : Grows(f)
  <2>1. PICK f \in File : Grows(f)
    BY <1>1
  <2>2. Allocating => wname \in DOMAIN _pendingSize
    BY HeadFacts
  <2> QED BY <2>1, <2>2 DEF Grows
<1>2. CASE WorkerPops
  BY <1>2 DEF WorkerPops, WorkerAt
<1>3. CASE UNCHANGED <<_pending, _pendingSize, first>>
  <2>1. CASE start
    BY <2>1 DEF start
  <2>2. CASE WorkerStep
    <3>1. CASE WorkerWaits
      BY <3>1 DEF WorkerWaits, WorkerAt
    <3>2. CASE WorkerPeeks
      BY <3>2, <1>3 DEF WorkerPeeks, WorkerAt
    <3>3. CASE WorkerOpens \/ ensureLength \/ WorkerCleansUp
      BY <3>3, <1>3 DEF WorkerOpens, ensureLength, WorkerCleansUp, WorkerAt
    <3>4. CASE WorkerFails \/ WorkerPops
      BY <3>4 DEF WorkerFails, WorkerPops, WorkerAt
    <3> QED BY <2>2, <3>1, <3>2, <3>3, <3>4 DEF WorkerStep
  <2>3. CASE ~start /\ ~WorkerStep
    BY <2>3, <1>3, WorkerUnchanged
  <2> QED BY <2>1, <2>2, <2>3
<1> QED BY <1>1, <1>2, <1>3, ListStep

\* The worker is the only one to write to the disk, and to its own file only.
LEMMA DiskStep ==
  ASSUME IInv, [Next]_vars, UNCHANGED <<_pending, _pendingSize, first>>
  PROVE  /\ DiskProgress'
         /\ \A f \in File : f \notin DOMAIN _pendingSize => disk'[f] = disk[f]
<1> USE DEF IInv
<1> DEFINE Others == \A f \in File : f \notin DOMAIN _pendingSize => disk'[f] = disk[f]
<1>0. Allocating => wname \in DOMAIN _pendingSize /\ wname \in File
  BY HeadFacts DEF WorkerHasFirst
<1>1. CASE start
  BY <1>1 DEF start, DiskProgress, Allocating
<1>2. CASE WorkerWaits
  BY <1>2 DEF WorkerWaits, WorkerAt, DiskProgress, Allocating
<1>3. CASE WorkerPeeks
  <2>1. CASE _pending = <<>>
    BY <1>3, <2>1 DEF WorkerPeeks, WorkerAt, DiskProgress, Allocating
  <2>2. CASE _pending # <<>>
    <3>1. wname' \in DOMAIN _pendingSize /\ worker' = "open" /\ disk' = disk
      BY <1>3, <2>2, HeadFacts DEF WorkerPeeks, WorkerAt
    <3>2. disk[wname'] = Absent
      BY <1>3, <3>1 DEF DiskProgress, Allocating, WorkerPeeks
    <3> QED BY <1>3, <3>1, <3>2 DEF WorkerPeeks, DiskProgress, Allocating
  <2> QED BY <2>1, <2>2
<1>4. CASE WorkerOpens
  <2>1. disk[wname] = Absent /\ wname' = wname /\ wname \in File /\ wname \in DOMAIN _pendingSize
    BY <1>4, <1>0 DEF WorkerOpens, WorkerAt, DiskProgress, Allocating
  <2>2. /\ (worker' = "fill" /\ disk'[wname] = 0) \/ worker' = "cleanup"
        /\ \A f \in File : f # wname => disk'[f] = disk[f]
    BY <1>4, <2>1 DEF WorkerOpens, WorkerAt, TypeOK
  <2> QED BY <1>4, <2>1, <2>2 DEF WorkerOpens, DiskProgress, Allocating, TypeOK
<1>5. CASE ensureLength
  <2>1. /\ disk[wname] = 0 /\ wname' = wname /\ wsize' = wsize /\ wname \in File
        /\ wname \in DOMAIN _pendingSize
    BY <1>5, <1>0 DEF ensureLength, WorkerAt, DiskProgress, Allocating
  <2>2. /\ (worker' = "pop" /\ disk'[wname] = wsize) \/ worker' = "cleanup"
        /\ \A f \in File : f # wname => disk'[f] = disk[f]
    BY <1>5, <2>1 DEF ensureLength, WorkerAt, TypeOK
  <2> QED BY <1>5, <2>1, <2>2 DEF ensureLength, DiskProgress, Allocating, TypeOK
<1>6. CASE WorkerCleansUp
  <2>1. /\ worker' = "setFailed" /\ wname' = wname /\ wname \in File /\ wname \in DOMAIN _pendingSize
        /\ \A f \in File : f # wname => disk'[f] = disk[f]
    BY <1>6, <1>0 DEF WorkerCleansUp, WorkerAt, Allocating, TypeOK
  <2> QED BY <1>6, <2>1 DEF WorkerCleansUp, DiskProgress, Allocating, TypeOK
<1>7. CASE WorkerFails
  BY <1>7 DEF WorkerFails, WorkerAt, DiskProgress, Allocating
<1>8. CASE WorkerPops
  BY <1>8, PopFacts
<1>9. CASE ~start /\ ~WorkerStep
  BY <1>9, WorkerUnchanged DEF DiskProgress, Allocating
<1> QED BY <1>1, <1>2, <1>3, <1>4, <1>5, <1>6, <1>7, <1>8, <1>9 DEF WorkerStep

LEMMA DiskProgressStep ==
  ASSUME IInv, [Next]_vars
  PROVE  DiskProgress'
<1> USE DEF IInv
<1>1. CASE UNCHANGED <<_pending, _pendingSize, first>>
  BY <1>1, DiskStep
<1>2. CASE \E f \in File : Grows(f)
  BY <1>2 DEF Grows, DiskProgress, Allocating
<1>3. CASE WorkerPops
  BY <1>3, PopFacts DEF DiskProgress, Allocating
<1> QED BY <1>1, <1>2, <1>3, ListStep

LEMMA SizesStep ==
  ASSUME IInv, [Next]_vars
  PROVE  SizesAreFirst'
<1> USE DEF IInv, SizesAreFirst
<1>1. CASE UNCHANGED <<_pending, _pendingSize, first>>
  BY <1>1, DiskStep
<1>2. CASE \E f \in File : Grows(f)
  BY <1>2 DEF Grows
<1>3. CASE WorkerPops
  BY <1>3, PopFacts
<1> QED BY <1>1, <1>2, <1>3, ListStep

\* A size once specified stays, and only Grows brings a file back to the list.
LEMMA FirstStays ==
  ASSUME IInv, [Next]_vars, NEW f \in File, first[f] # Absent
  PROVE  /\ first'[f] = first[f]
         /\ f \notin DOMAIN _pendingSize => f \notin DOMAIN _pendingSize'
<1> USE DEF IInv
<1>1. CASE UNCHANGED <<_pending, _pendingSize, first>>
  BY <1>1
<1>2. ASSUME NEW g \in File, Grows(g) PROVE first'[f] = first[f]
  BY <1>2 DEF Grows, SizesAreFirst
<1>3. ASSUME NEW g \in File, Grows(g), f \notin DOMAIN _pendingSize
      PROVE  f \notin DOMAIN _pendingSize'
  BY <1>3 DEF Grows, SizesAreFirst
<1>4. CASE WorkerPops
  BY <1>4, PopFacts
<1> QED BY <1>1, <1>2, <1>3, <1>4, ListStep

\* Whatever others do, what a caller knows stays true.
LEMMA KnowledgeStays ==
  ASSUME IInv, [Next]_vars, NEW c \in Caller,
         cpc'[c] = cpc[c] /\ cname'[c] = cname[c] /\ csize'[c] = csize[c]
  PROVE  Knows(c)'
<1>1. Knows(c) /\ (csize[c] # Absent)
  BY DEF IInv, CallersKnow, Knows, TypeOK, Absent
<1>2. _failed => _failed'
  BY WorkerUnchanged DEF start, WorkerStep, WorkerWaits, WorkerPeeks, WorkerOpens, ensureLength,
     WorkerCleansUp, WorkerFails, WorkerPops, pendingVars
<1> QED BY <1>1, <1>2, FirstStays DEF Knows

\* The other callers of a call, and what its caller gets.
LEMMA GoesFacts ==
  ASSUME TypeOK, NEW c \in Caller, NEW where, NEW f, NEW n, CallerGoes(c, where, f, n)
  PROVE  /\ cpc'[c] = where /\ cname'[c] = f /\ csize'[c] = n
         /\ \A d \in Caller : d # c => cpc'[d] = cpc[d] /\ cname'[d] = cname[d] /\ csize'[d] = csize[d]
BY DEF TypeOK, CallerGoes

\* A call that ends elsewhere than in the three places says nothing of a file.
LEMMA GoesAway ==
  ASSUME IInv, [Next]_vars, NEW c \in Caller, NEW where, NEW f, NEW n, CallerGoes(c, where, f, n),
         where \notin {"requested", "asap", "returned"}
  PROVE  CallersKnow'
BY GoesFacts, KnowledgeStays DEF IInv, CallersKnow, Knows

LEMMA CallersStep ==
  ASSUME IInv, [Next]_vars
  PROVE  CallersKnow'
<1> USE DEF IInv, CallersKnow, pendingVars
<1>1. ASSUME NEW c \in Caller, NEW f \in File, NEW n \in Size, requestAllocation(c, f, n)
      PROVE  CallersKnow'
  <2> DEFINE size == IF _failed \/ prevSize(f) = Absent THEN n ELSE prevSize(f)
  <2>1. CallerGoes(c, "requested", f, size)
    BY <1>1 DEF requestAllocation
  <2>2. CASE _failed \/ prevSize(f) # Absent
    <3>1. UNCHANGED <<_pending, _pendingSize, _failed, first>>
      BY <1>1, <2>2 DEF requestAllocation
    <3>2. ~_failed => size = first[f] /\ size # Absent
      BY <2>2, PrevSizeFacts DEF SizesAreFirst, prevSize
    <3> HIDE DEF size
    <3>3. Knows(c)'
      BY <2>1, <3>1, <3>2, GoesFacts DEF Knows
    <3> QED BY <2>1, <3>3, GoesFacts, KnowledgeStays
  <2>3. CASE ~(_failed \/ prevSize(f) # Absent)
    <3>1. Grows(f)
      BY <1>1, <2>3, RequestGrows
    <3>2. SetSize(f, n) /\ n \in Nat /\ size = n
      BY <1>1, <2>3, SizeAssumption DEF requestAllocation
    <3>3. size = first'[f] /\ size # Absent
      BY <3>1, <3>2, SetSizeFacts DEF Grows
    <3> HIDE DEF size
    <3>4. Knows(c)'
      BY <2>1, <3>3, GoesFacts DEF Knows
    <3> QED BY <2>1, <3>4, GoesFacts, KnowledgeStays
  <2> QED BY <2>2, <2>3
<1>2. ASSUME NEW c \in Caller, NEW f \in File, NEW n \in Size, allocateAsap(c, f, n)
      PROVE  CallersKnow'
  <2>1. CASE UNCHANGED <<_pending, _pendingSize, first>> /\ prevSize(f) # Absent /\ ~inProgress(f)
             /\ CallerGoes(c, "returned", f, prevSize(f))
    <3>1. f \notin DOMAIN _pendingSize /\ prevSize(f) = first[f]
      BY <2>1, PrevSizeFacts DEF prevSize, SizesAreFirst
    <3>2. Knows(c)'
      BY <2>1, <3>1, GoesFacts DEF Knows
    <3> QED BY <2>1, <3>2, GoesFacts, KnowledgeStays
  <2>2. CASE \E m : CallerGoes(c, "threw", f, m)
    BY <2>2, GoesAway
  <2>3. CASE cpc'[c] = "asap"
    <3>1. Grows(f) /\ CallerGoes(c, "asap", f, _pendingSize'[f])
      BY <1>2, <2>3, AllocateAsapGrows
    <3>2. _pendingSize'[f] = first'[f]
      BY <3>1 DEF Grows
    <3>3. Knows(c)'
      BY <3>1, <3>2, GoesFacts DEF Knows
    <3> QED BY <3>1, <3>3, GoesFacts, KnowledgeStays
  <2> QED BY <1>2, <2>1, <2>2, <2>3 DEF allocateAsap, CallerGoes, TypeOK
<1>3. ASSUME NEW c \in Caller, waitUntilFinished(c) \/ Resume(c) \/ FinishLoop(c) PROVE CallersKnow'
  <2>1. \E where \in {"finish", "idle", "finishWait"} : CallerGoes(c, where, NoFile, 0)
    BY <1>3 DEF waitUntilFinished, Resume, FinishLoop
  <2> QED BY <2>1, GoesAway
<1>4. ASSUME NEW c \in Caller, AsapWakes(c) PROVE CallersKnow'
  <2>1. CASE ~inProgress(cname[c]) /\ CallerGoes(c, "returned", cname[c], csize[c])
    <3>1. cpc[c] = "asap" /\ UNCHANGED <<_pendingSize, first>>
      BY <1>4 DEF AsapWakes
    <3>2. cname[c] \in File /\ csize[c] = first[cname[c]]
      BY <3>1 DEF Knows
    <3>3. Knows(c)'
      BY <2>1, <3>1, <3>2, GoesFacts, PrevSizeFacts DEF Knows
    <3> QED BY <2>1, <3>3, GoesFacts, KnowledgeStays
  <2>2. CASE CallerGoes(c, "threw", cname[c], csize[c])
    BY <2>2, GoesAway
  <2>3. CASE UNCHANGED callerVars
    BY <2>3, KnowledgeStays DEF callerVars
  <2> QED BY <1>4, <2>1, <2>2, <2>3 DEF AsapWakes
<1>5. CASE UNCHANGED callerVars
  BY <1>5, KnowledgeStays DEF callerVars
<1>6. CASE start \/ WorkerStep \/ SpuriousWakeup
  BY <1>5, <1>6 DEF start, WorkerStep, WorkerWaits, WorkerPeeks, WorkerOpens, ensureLength,
     WorkerCleansUp, WorkerFails, WorkerPops, SpuriousWakeup
<1>7. CASE UNCHANGED vars
  BY <1>5, <1>7 DEF vars
<1> QED BY <1>1, <1>2, <1>3, <1>4, <1>6, <1>7 DEF Next, Call, Continue

LEMMA StepIInv == IInv /\ [Next]_vars => IInv'
<1> SUFFICES ASSUME IInv, [Next]_vars PROVE IInv'
  OBVIOUS
<1>1. TypeOK'
  BY TypeStep DEF IInv
<1> QED BY <1>1, ListAndSizesStep, WorkerStepFirst, DiskProgressStep, SizesStep, CallersStep DEF IInv

LEMMA Invariance == Spec => []IInv
BY InitIInv, StepIInv, PTL DEF Spec

---------------------------------------------------------------------------
(* The theorems.                                                           *)

\* The variables of file_allocator.cpp keep their types.
THEOREM TypeCorrect == Spec => []TypeOK
<1>1. IInv => TypeOK
  BY DEF IInv
<1> QED BY <1>1, Invariance, PTL

\* While it allocates without _pendingMutex, the worker's file stays first in
\* the list, with the size the worker read: pop_front removes that file.
THEOREM WorkerKeepsFirst == Spec => []WorkerHasFirst
<1>1. IInv => WorkerHasFirst
  BY DEF IInv
<1> QED BY <1>1, Invariance, PTL

\* _pending lists every file once, and _pendingSize knows exactly those.
THEOREM ListMatchesSizes == Spec => []ListAndSizesAgree
<1>1. IInv => ListAndSizesAgree
  BY DEF IInv
<1> QED BY <1>1, Invariance, PTL

\* "Only the first size specified per file will be used" (file_allocator.h):
\* on disk, and in what requestAllocation answers.
THEOREM FirstSizeIsUsed == Spec => []FirstSizeUsed
<1>1. IInv => FirstSizeUsed
  BY DEF IInv, SizesAreFirst, CallersKnow, Knows, FirstSizeUsed
<1> QED BY <1>1, Invariance, PTL

\* When allocateAsap returns, the file is on disk with the size it reports.
THEOREM AsapReturnsAllocated == Spec => []AsapMeansAllocated
<1>1. IInv => AsapMeansAllocated
  BY DEF IInv, SizesAreFirst, CallersKnow, Knows, AsapMeansAllocated
<1> QED BY <1>1, Invariance, PTL
=============================================================================
