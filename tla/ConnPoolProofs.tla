--------------------------- MODULE ConnPoolProofs ---------------------------
(***************************************************************************)
(* What the connection pool guarantees for any number of scoped            *)
(* connections, hosts and pools, whichever connects, sockets and hooks     *)
(* fail.                                                                   *)
(***************************************************************************)
EXTENDS ConnPool, SequenceTheorems, FiniteSetTheorems, TLAPS

\* A stack has a connection once.
Once(stack) == \A i, j \in DOMAIN stack : stack[i].conn = stack[j].conn => i = j

\* A connection is in one place of one stack, and stacks are not too high.
StacksApart ==
    /\ \A p \in Pool : Once(_pool[p]) /\ Len(_pool[p]) <= _maxPerHost
    /\ \A p, q \in Pool : p # q => Conns(_pool[p]) \cap Conns(_pool[q]) = {}

\* A connection that is held is nobody else's and in no stack, is open, and the
\* pool has not forgotten it.
HeldApart ==
    \A s \in Scoped : _conn[s] # NoConn =>
      /\ _conn[s] \in open \ lost
      /\ \A t \in Scoped : _conn[t] = _conn[s] => t = s
      /\ \A p \in Pool : _conn[s] \notin Conns(_pool[p])

\* A stored connection can be handed out; its pool has made one.
StoredClean ==
    \A p \in Pool :
      /\ Conns(_pool[p]) \subseteq open \ (dirty \cup failed \cup lost)
      /\ _pool[p] # <<>> => _created[p] > 0

\* What a scoped connection has at each stage of its life.
Stages ==
    \A s \in Scoped :
      /\ pc[s] \in {"none", "connect"} => _conn[s] = NoConn
      /\ pc[s] \in {"finishCreate", "hooks"} => _conn[s] # NoConn /\ _conn[s] \notin dirty \cup failed
      /\ pc[s] # "none" => _host[s] \in Host
      /\ pc[s] \in {"hooks", "live"} => _created[PoolOf[_host[s]]] > 0

\* An open connection is held, stored, or forgotten by the pool itself.
Owned ==
    \A c \in open :
      (\E s \in Scoped : _conn[s] = c) \/ (\E p \in Pool : c \in Conns(_pool[p])) \/ c \in lost

IInv ==
    /\ TypeOK
    /\ StacksApart
    /\ HeldApart
    /\ StoredClean
    /\ Stages
    /\ Owned

\* Any set of numbers has a least element, which Min finds.
LEMMA MinIsLeast ==
  ASSUME NEW T \in SUBSET Nat, T # {}
  PROVE  Min(T) \in T /\ \A y \in T : Min(T) <= y
<1>1. PICK x \in T : \A y \in T : ~ (<<y, x>> \in OpToRel(<, Nat))
  BY WFMin, NatLessThanWellFounded
<1>2. ASSUME NEW y \in T PROVE x <= y
  <2>1. <<y, x>> \notin {ss \in Nat \X Nat : ss[1] < ss[2]}
    BY <1>1 DEF OpToRel
  <2> QED BY <2>1
<1> QED BY <1>1, <1>2 DEF Min

---------------------------------------------------------------------------
(* Stacks.                                                                 *)

LEMMA StackFacts ==
  ASSUME NEW st \in Seq(Stored)
  PROVE  /\ Len(st) \in Nat /\ DOMAIN st = 1..Len(st)
         /\ \A k \in 1..Len(st) : st[k] \in Stored /\ st[k].conn \in Conn /\ st[k].conn \in Conns(st)
         /\ Conns(st) = {st[k].conn : k \in 1..Len(st)}
         /\ st = <<>> <=> Len(st) = 0
<1>1. Len(st) \in Nat /\ DOMAIN st = 1..Len(st) /\ \A k \in 1..Len(st) : st[k] \in Stored
  BY LenProperties, ElementOfSeq
<1>2. st = <<>> <=> Len(st) = 0
  BY EmptySeq
<1> QED BY <1>1, <1>2 DEF Stored, Conns

\* What comes off the stack.
LEMMA TopOf ==
  ASSUME NEW st \in Seq(Stored), NEW m \in 0..Len(st)
  PROVE  Conns(SubSeq(st, 1, m)) = {st[k].conn : k \in 1..m}
<1>1. /\ Len(st) \in Nat /\ \A k \in 1..m : st[k] \in Stored
  <2>1. Len(st) \in Nat /\ \A k \in 1..Len(st) : st[k] \in Stored
    BY StackFacts
  <2> QED BY <2>1
<1> DEFINE t == SubSeq(st, 1, m)
<1>2. /\ t \in Seq(Stored) /\ Len(t) = IF 1 <= m THEN m - 1 + 1 ELSE 0
      /\ \A k \in 1..(m - 1 + 1) : t[k] = st[1 + k - 1]
  BY <1>1, SubSeqProperties
<1> HIDE DEF t
<1>3. Len(t) = m /\ \A k \in 1..m : t[k] = st[k]
  <2>1. m - 1 + 1 = m /\ \A k \in 1..m : 1 + k - 1 = k
    BY <1>1
  <2>2. ~(1 <= m) => m = 0
    BY <1>1
  <2> QED BY <1>2, <2>1, <2>2
<1>4. DOMAIN t = 1..m
  BY <1>2, <1>3, LenProperties
<1> QED BY <1>3, <1>4 DEF Conns, t

\* What is left of it.
LEMMA RestOf ==
  ASSUME NEW st \in Seq(Stored), NEW m \in 0..Len(st)
  PROVE  /\ SubSeq(st, m + 1, Len(st)) \in Seq(Stored)
         /\ Len(SubSeq(st, m + 1, Len(st))) = Len(st) - m
         /\ \A k \in 1..(Len(st) - m) : SubSeq(st, m + 1, Len(st))[k] = st[k + m]
         /\ Conns(SubSeq(st, m + 1, Len(st))) = {st[k].conn : k \in (m + 1)..Len(st)}
         /\ Once(st) => Once(SubSeq(st, m + 1, Len(st)))
<1> DEFINE t == SubSeq(st, m + 1, Len(st))
           n == Len(st)
<1>1. n \in Nat /\ m \in Nat /\ m <= n /\ DOMAIN st = 1..n /\ \A k \in (m + 1)..n : st[k] \in Stored
  <2>1. Len(st) \in Nat /\ DOMAIN st = 1..Len(st) /\ \A k \in 1..Len(st) : st[k] \in Stored
    BY StackFacts
  <2> QED BY <2>1
<1>2. /\ t \in Seq(Stored) /\ Len(t) = IF m + 1 <= n THEN n - (m + 1) + 1 ELSE 0
      /\ \A k \in 1..(n - (m + 1) + 1) : t[k] = st[m + 1 + k - 1]
  BY <1>1, SubSeqProperties
<1> HIDE DEF t, n
<1>3. n - (m + 1) + 1 = n - m
  BY <1>1
<1>4. Len(t) = n - m
  BY <1>1, <1>2, <1>3
<1>5. ASSUME NEW k \in 1..(n - m) PROVE t[k] = st[k + m]
  <2>1. m + 1 + k - 1 = k + m
    BY <1>1
  <2> QED BY <1>2, <1>3, <2>1
<1>6. DOMAIN t = 1..(n - m)
  BY <1>2, <1>4, LenProperties
<1>7. Conns(t) = {st[k].conn : k \in (m + 1)..n}
  <2>1. ASSUME NEW x \in Conns(t) PROVE x \in {st[k].conn : k \in (m + 1)..n}
    <3>1. PICK k \in 1..(n - m) : x = t[k].conn
      BY <1>6 DEF Conns
    <3>2. k + m \in (m + 1)..n
      BY <1>1
    <3> QED BY <1>5, <3>1, <3>2
  <2>2. ASSUME NEW k \in (m + 1)..n PROVE st[k].conn \in Conns(t)
    <3>1. k - m \in 1..(n - m) /\ k - m + m = k
      BY <1>1
    <3> QED BY <1>5, <1>6, <3>1 DEF Conns
  <2> QED BY <2>1, <2>2
<1>8. ASSUME Once(st) PROVE Once(t)
  <2> SUFFICES ASSUME NEW j \in 1..(n - m), NEW k \in 1..(n - m), t[j].conn = t[k].conn PROVE j = k
    BY <1>6 DEF Once
  <2>1. j + m \in DOMAIN st /\ k + m \in DOMAIN st
    BY <1>1
  <2>2. j + m = k + m
    BY <1>5, <1>8, <2>1 DEF Once
  <2> QED BY <1>1, <2>2
<1> QED BY <1>2, <1>4, <1>5, <1>7, <1>8 DEF t, n

\* A stack upside down.
LEMMA ReverseOf ==
  ASSUME NEW st \in Seq(Stored)
  PROVE  /\ Reverse(st) \in Seq(Stored) /\ Len(Reverse(st)) = Len(st)
         /\ Conns(Reverse(st)) = Conns(st)
         /\ Once(st) => Once(Reverse(st))
<1> DEFINE t == Reverse(st)
           n == Len(st)
<1>1. n \in Nat /\ DOMAIN st = 1..n /\ \A k \in 1..n : st[k] \in Stored
  BY StackFacts
<1>2. t = [k \in 1..n |-> st[(n - k) + 1]]
  BY DEF Reverse
<1> HIDE DEF n, t
<1>3. \A k \in 1..n : (n - k) + 1 \in 1..n /\ n - ((n - k) + 1) + 1 = k
  BY <1>1
<1>4. t \in [1..n -> Stored] /\ \A k \in 1..n : t[k] = st[(n - k) + 1]
  BY <1>1, <1>2, <1>3
<1>5. t \in Seq(Stored)
  BY <1>1, <1>4, SeqDef
<1>6. DOMAIN t = 1..n /\ Len(t) = n
  BY <1>1, <1>4, <1>5, LenProperties
<1>7. Conns(t) = Conns(st)
  BY <1>1, <1>3, <1>4, <1>6 DEF Conns
<1>8. ASSUME Once(st), NEW j \in 1..n, NEW k \in 1..n, t[j].conn = t[k].conn PROVE j = k
  <2>1. /\ (n - j) + 1 \in DOMAIN st /\ (n - k) + 1 \in DOMAIN st
        /\ st[(n - j) + 1].conn = st[(n - k) + 1].conn
    BY <1>1, <1>3, <1>4, <1>8
  <2>2. (n - j) + 1 = (n - k) + 1
    BY <1>8, <2>1 DEF Once
  <2> QED BY <1>1, <2>2
<1>9. Once(st) => Once(t)
  BY <1>6, <1>8 DEF Once
<1> QED BY <1>5, <1>6, <1>7, <1>9 DEF t, n

\* A connection is put on top of a stack.
LEMMA PushOf ==
  ASSUME NEW st \in Seq(Stored), NEW c \in Conn, c \notin Conns(st)
  PROVE  /\ <<[conn |-> c, idle |-> 0]>> \o st \in Seq(Stored)
         /\ Len(<<[conn |-> c, idle |-> 0]>> \o st) = Len(st) + 1
         /\ Conns(<<[conn |-> c, idle |-> 0]>> \o st) = Conns(st) \cup {c}
         /\ Once(st) => Once(<<[conn |-> c, idle |-> 0]>> \o st)
<1> DEFINE e == [conn |-> c, idle |-> 0]
           one == <<e>>
           t == one \o st
           n == Len(st)
<1>0. e \in Stored /\ e.conn = c
  BY PoolAssumption DEF Stored
<1> HIDE DEF e
<1>1. one \in Seq(Stored) /\ Len(one) = 1 /\ one[1] = e
  BY <1>0
<1> HIDE DEF one
<1>2. n \in Nat /\ DOMAIN st = 1..n
  BY StackFacts
<1>3. /\ t \in Seq(Stored) /\ Len(t) = 1 + n
      /\ \A k \in 1..(1 + n) : t[k] = IF k <= 1 THEN one[k] ELSE st[k - 1]
  <2>1. /\ t \in Seq(Stored) /\ Len(t) = Len(one) + Len(st)
        /\ \A k \in 1..(Len(one) + Len(st)) :
             t[k] = IF k <= Len(one) THEN one[k] ELSE st[k - Len(one)]
    BY <1>1, ConcatProperties
  <2> HIDE DEF t
  <2> QED BY <1>1, <2>1
<1>4. DOMAIN t = 1..(1 + n)
  BY <1>3, LenProperties
<1> HIDE DEF t, n
<1>5. t[1] = e /\ 1 \in DOMAIN t /\ \A k \in 1..n : t[k + 1] = st[k] /\ k + 1 \in DOMAIN t
  BY <1>1, <1>2, <1>3, <1>4
<1>6. \A k \in DOMAIN t : k = 1 \/ (k - 1 \in 1..n /\ t[k] = st[k - 1] /\ k = (k - 1) + 1)
  BY <1>2, <1>3, <1>4
<1>7. Conns(t) = Conns(st) \cup {c}
  <2>1. ASSUME NEW k \in DOMAIN t PROVE t[k].conn \in Conns(st) \cup {c}
    BY <1>0, <1>2, <1>5, <1>6 DEF Conns
  <2>2. ASSUME NEW k \in 1..n PROVE st[k].conn \in Conns(t)
    BY <1>5 DEF Conns
  <2>3. c \in Conns(t)
    BY <1>0, <1>5 DEF Conns
  <2> QED BY <1>2, <2>1, <2>2, <2>3 DEF Conns
<1>8. ASSUME Once(st), NEW j \in DOMAIN t, NEW k \in DOMAIN t, t[j].conn = t[k].conn PROVE j = k
  <2>1. \A x \in 1..n : st[x].conn # c
    BY <1>2 DEF Conns
  <2>2. CASE j = 1 \/ k = 1
    BY <1>0, <1>5, <1>6, <1>8, <2>1, <2>2
  <2>3. CASE j # 1 /\ k # 1
    <3>1. j - 1 = k - 1
      BY <1>2, <1>6, <1>8, <2>3 DEF Once
    <3> QED BY <1>6, <2>3, <3>1
  <2> QED BY <2>2, <2>3
<1>9. Once(st) => Once(t)
  BY <1>8 DEF Once
<1>10. Len(t) = n + 1
  BY <1>2, <1>3
<1> QED BY <1>3, <1>7, <1>9, <1>10 DEF t, one, e, n

\* A stack that only grew older.
LEMMA TickOf ==
  ASSUME NEW st \in Seq(Stored),
         NEW t, t = [i \in DOMAIN st |->
                       [st[i] EXCEPT !.idle = IF @ < MaxIdle THEN @ + 1 ELSE @]]
  PROVE  /\ t \in Seq(Stored) /\ Len(t) = Len(st)
         /\ Conns(t) = Conns(st)
         /\ Once(st) => Once(t)
<1>1. Len(st) \in Nat /\ DOMAIN st = 1..Len(st) /\ \A k \in 1..Len(st) : st[k] \in Stored
  BY StackFacts
<1>2. \A k \in 1..Len(st) : t[k] \in Stored /\ t[k].conn = st[k].conn
  BY <1>1, PoolAssumption DEF Stored
<1>3. DOMAIN t = 1..Len(st) /\ t \in [1..Len(st) -> Stored]
  BY <1>1, <1>2
<1>4. t \in Seq(Stored) /\ Len(t) = Len(st)
  <2>1. t \in Seq(Stored)
    BY <1>1, <1>3, SeqDef
  <2>2. Len(t) \in Nat /\ DOMAIN t = 1..Len(t)
    BY <2>1, LenProperties
  <2>3. \A a, b \in Nat : 1..a = 1..b => a = b
    OBVIOUS
  <2> QED BY <1>1, <1>3, <2>1, <2>2, <2>3
<1>5. Conns(t) = Conns(st)
  BY <1>1, <1>2, <1>3 DEF Conns
<1>6. Once(st) => Once(t)
  BY <1>1, <1>2, <1>3 DEF Once
<1> QED BY <1>4, <1>5, <1>6

\* What get does to a stack: what it deletes, what it hands out and what it
\* leaves are apart.
LEMMA GetOf ==
  ASSUME NEW st \in Seq(Stored), Once(st), NEW i, i = Usable(st)
  PROVE  LET rest == SubSeq(st, i + 1, Len(st))
             old  == Conns(SubSeq(st, 1, i - 1))
         IN  /\ i \in 1..(Len(st) + 1)
             /\ rest \in Seq(Stored) /\ Once(rest) /\ Len(rest) <= Len(st)
             /\ (rest # <<>> => st # <<>>)
             /\ old \subseteq Conns(st)
             /\ Conns(rest) \subseteq Conns(st) \ old
             /\ i <= Len(st) => /\ st[i].conn \in Conns(st) \ (old \cup Conns(rest))
                                /\ st # <<>>
                                /\ Conns(st) = old \cup Conns(rest) \cup {st[i].conn}
             /\ ~(i <= Len(st)) => Conns(st) = old /\ Conns(rest) = {}
<1> DEFINE n == Len(st)
           rest == SubSeq(st, i + 1, n)
           old == Conns(SubSeq(st, 1, i - 1))
<1>1. n \in Nat /\ DOMAIN st = 1..n /\ (st = <<>> <=> n = 0)
      /\ Conns(st) = {st[k].conn : k \in 1..n}
  BY StackFacts
<1>2. \A j, k \in 1..n : st[j].conn = st[k].conn => j = k
  BY <1>1 DEF Once
<1>3. i \in 1..(n + 1)
  <2>1. CASE \E k \in 1..n : ok(st[k])
    <3> DEFINE T == {k \in 1..n : ok(st[k])}
    <3>1. T \in SUBSET Nat /\ T # {}
      BY <1>1, <2>1
    <3>2. Min(T) \in T /\ \A y \in T : Min(T) <= y
      BY <3>1, MinIsLeast
    <3>3. \A j \in 1..(Min(T) - 1) : j \in 1..n /\ j \notin T
      BY <1>1, <3>2
    <3>4. \E k \in 1..n : ok(st[k]) /\ \A j \in 1..(k - 1) : ~ok(st[j])
      BY <3>2, <3>3
    <3>5. i = CHOOSE k \in 1..n : ok(st[k]) /\ \A j \in 1..(k - 1) : ~ok(st[j])
      BY <1>1, <2>1 DEF Usable
    <3>6. i \in 1..n
      BY <3>4, <3>5
    <3> QED BY <1>1, <3>6
  <2>2. CASE ~ \E k \in 1..n : ok(st[k])
    <3>1. i = n + 1
      BY <1>1, <2>2 DEF Usable
    <3> QED BY <1>1, <3>1
  <2> QED BY <2>1, <2>2
<1>4. i - 1 \in 0..n /\ i - 1 \in 0..Len(st)
  BY <1>1, <1>3
<1>5. old = {st[k].conn : k \in 1..(i - 1)}
  BY <1>4, TopOf
<1>6. CASE i = n + 1
  <2>1. rest = <<>>
    BY <1>1, <1>6, SubSeqEmpty
  <2>2. Conns(rest) = {} /\ rest \in Seq(Stored) /\ Once(rest) /\ Len(rest) = 0
    <3>1. DOMAIN <<>> = {} /\ <<>> \in Seq(Stored) /\ Len(<<>>) = 0
      BY EmptySeq
    <3> QED BY <2>1, <3>1 DEF Conns, Once
  <2>3. i - 1 = n /\ ~(i <= n)
    BY <1>1, <1>6
  <2> HIDE DEF n, rest, old
  <2>4. old = Conns(st)
    BY <1>1, <1>5, <2>3
  <2> QED BY <1>1, <1>3, <2>1, <2>2, <2>3, <2>4 DEF n, rest, old
<1>7. CASE i # n + 1
  <2>1. i \in 1..n /\ i \in 0..Len(st)
    BY <1>1, <1>3, <1>7
  <2>2. /\ rest \in Seq(Stored) /\ Len(rest) = n - i
        /\ Conns(rest) = {st[k].conn : k \in (i + 1)..n}
        /\ Once(rest)
    BY <2>1, RestOf
  <2>3. rest # <<>> => st # <<>>
    BY <1>1, <2>1
  <2> HIDE DEF n, rest, old
  <2>4. Len(rest) <= n /\ i <= n /\ n # 0
    BY <1>1, <2>1, <2>2
  <2>5. \A k \in 1..n : k \in 1..(i - 1) \/ k = i \/ k \in (i + 1)..n
    BY <1>1, <2>1
  <2>6. /\ \A k \in 1..(i - 1) : k \in 1..n /\ k # i /\ k \notin (i + 1)..n
        /\ \A k \in (i + 1)..n : k \in 1..n /\ k # i
    BY <1>1, <2>1
  <2>7. old \subseteq Conns(st) /\ Conns(rest) \subseteq Conns(st)
    BY <1>1, <1>5, <2>2, <2>6
  <2>8. old \cap Conns(rest) = {}
    BY <1>2, <1>5, <2>2, <2>6
  <2>9. st[i].conn \in Conns(st) \ (old \cup Conns(rest))
    BY <1>1, <1>2, <1>5, <2>1, <2>2, <2>6
  <2>10. Conns(st) = old \cup Conns(rest) \cup {st[i].conn}
    BY <1>1, <1>5, <2>1, <2>2, <2>5, <2>6
  <2> QED BY <1>1, <1>3, <2>2, <2>3, <2>4, <2>7, <2>8, <2>9, <2>10 DEF n, rest, old
<1> QED BY <1>6, <1>7

---------------------------------------------------------------------------
(* Steps.                                                                  *)

\* What is known of the pools and of who holds what, stack by stack.
LEMMA PoolFacts ==
  ASSUME IInv
  PROVE  /\ \A h \in Host : PoolOf[h] \in Pool
         /\ NoConn \notin Conn /\ NoConn \notin open
         /\ \A p \in Pool : /\ _pool[p] \in Seq(Stored) /\ Once(_pool[p])
                            /\ Len(_pool[p]) \in Nat /\ Len(_pool[p]) <= _maxPerHost
                            /\ Conns(_pool[p]) \subseteq Conn
<1>1. \A p \in Pool : _pool[p] \in Seq(Stored) /\ Once(_pool[p]) /\ Len(_pool[p]) <= _maxPerHost
  BY DEF IInv, TypeOK, StacksApart
<1>2. \A p \in Pool : Len(_pool[p]) \in Nat
  BY <1>1, StackFacts
<1>3. ASSUME NEW p \in Pool PROVE Conns(_pool[p]) \subseteq Conn
  <2>1. DOMAIN _pool[p] = 1..Len(_pool[p]) /\ \A k \in 1..Len(_pool[p]) : _pool[p][k].conn \in Conn
    BY <1>1, StackFacts
  <2> QED BY <2>1 DEF Conns
<1> QED BY <1>1, <1>2, <1>3, PoolAssumption DEF IInv, TypeOK, Pool

\* One stack becomes another one, the rest stay.
LEMMA OneStack ==
  ASSUME IInv, NEW p \in Pool, NEW st \in Seq(Stored), _pool' = [_pool EXCEPT ![p] = st],
         Once(st), Len(st) <= _maxPerHost,
         \A q \in Pool \ {p} : Conns(st) \cap Conns(_pool[q]) = {}
  PROVE  /\ _pool' \in [Pool -> Seq(Stored)]
         /\ _pool'[p] = st
         /\ \A q \in Pool \ {p} : _pool'[q] = _pool[q]
         /\ StacksApart'
<1>1. /\ _pool' \in [Pool -> Seq(Stored)] /\ _pool'[p] = st
      /\ \A q \in Pool \ {p} : _pool'[q] = _pool[q]
  BY DEF IInv, TypeOK
<1>2. \A q \in Pool : Once(_pool'[q]) /\ Len(_pool'[q]) <= _maxPerHost
  BY <1>1, PoolFacts
<1>3. \A q, r \in Pool : q # r => Conns(_pool'[q]) \cap Conns(_pool'[r]) = {}
  BY <1>1 DEF IInv, StacksApart
<1>4. StacksApart'
  BY <1>2, <1>3 DEF StacksApart
<1> QED BY <1>1, <1>4

\* A scoped connection goes on, the others stay as they are.
LEMMA GoesOn ==
  ASSUME IInv, NEW s \in Scoped, NEW w \in {"none", "connect", "finishCreate", "hooks", "live"},
         NEW h \in Host \cup {NoHost}, NEW c \in Conn \cup {NoConn}, Goes(s, w, h, c)
  PROVE  /\ pc' \in [Scoped -> {"none", "connect", "finishCreate", "hooks", "live"}]
         /\ _host' \in [Scoped -> Host \cup {NoHost}]
         /\ _conn' \in [Scoped -> Conn \cup {NoConn}]
         /\ pc'[s] = w /\ _host'[s] = h /\ _conn'[s] = c
         /\ \A t \in Scoped \ {s} : pc'[t] = pc[t] /\ _host'[t] = _host[t] /\ _conn'[t] = _conn[t]
BY DEF IInv, TypeOK, Goes

LEMMA GetStep ==
  ASSUME IInv, NEW s \in Scoped, NEW h \in Host, get(s, h)
  PROVE  IInv'
<1> DEFINE p == PoolOf[h]
           st == _pool[p]
           i == Usable(st)
           old == Conns(SubSeq(st, 1, i - 1))
           rest == SubSeq(st, i + 1, Len(st))
<1>1. p \in Pool /\ st \in Seq(Stored) /\ Once(st) /\ Len(st) \in Nat /\ Len(st) <= _maxPerHost
  BY PoolFacts
<1>2. /\ i \in 1..(Len(st) + 1)
      /\ rest \in Seq(Stored) /\ Once(rest) /\ Len(rest) <= Len(st)
      /\ rest # <<>> => st # <<>>
      /\ old \subseteq Conns(st) /\ Conns(rest) \subseteq Conns(st) \ old
      /\ i <= Len(st) => /\ st[i].conn \in Conns(st) \ (old \cup Conns(rest))
                         /\ st # <<>>
                         /\ Conns(st) = old \cup Conns(rest) \cup {st[i].conn}
      /\ ~(i <= Len(st)) => Conns(st) = old /\ Conns(rest) = {}
  BY <1>1, GetOf
<1>3. /\ pc[s] = "none" /\ Delete(old) /\ _pool' = [_pool EXCEPT ![p] = rest]
      /\ IF i <= Len(st) THEN Goes(s, "hooks", h, st[i].conn) ELSE Goes(s, "connect", h, NoConn)
      /\ UNCHANGED <<_created, lost>>
  BY DEF get
<1>4. \A q \in Pool \ {p} : Conns(st) \cap Conns(_pool[q]) = {}
  BY <1>1 DEF IInv, StacksApart
<1>5. Conns(st) \subseteq Conn
  BY <1>1, PoolFacts
<1>6. rest \in Seq(Stored) /\ Len(rest) \in Nat /\ Len(rest) <= _maxPerHost
  <2>1. Len(rest) \in Nat
    BY <1>2, StackFacts
  <2> HIDE DEF rest, st
  <2>2. Len(rest) <= Len(st)
    BY <1>2
  <2>3. Len(rest) <= _maxPerHost
    BY <1>1, <2>1, <2>2, PoolAssumption
  <2> QED BY <1>2, <2>1, <2>3
<1> HIDE DEF p, st, i, old, rest
<1>7. /\ _pool' \in [Pool -> Seq(Stored)] /\ _pool'[p] = rest
      /\ \A q \in Pool \ {p} : _pool'[q] = _pool[q]
      /\ StacksApart'
  <2>1. Once(rest) /\ Conns(rest) \subseteq Conns(st)
    BY <1>2
  <2>2. \A q \in Pool \ {p} : Conns(rest) \cap Conns(_pool[q]) = {}
    BY <1>4, <2>1
  <2>3. p \in Pool /\ _pool' = [_pool EXCEPT ![p] = rest]
    BY <1>1, <1>3
  <2> QED BY <1>6, <2>1, <2>2, <2>3, OneStack
<1>8. /\ Conns(st) \subseteq open \ (dirty \cup failed \cup lost)
      /\ st # <<>> => _created[p] > 0
      /\ \A t \in Scoped : _conn[t] \notin Conns(st)
  <2>1. st = _pool[p]
    BY DEF st
  <2>2. \A t \in Scoped : _conn[t] # NoConn => _conn[t] \notin Conns(st)
    BY <1>1, <2>1 DEF IInv, HeldApart
  <2>3. NoConn \notin Conns(st)
    BY <1>5, PoolFacts
  <2> QED BY <1>1, <2>1, <2>2, <2>3 DEF IInv, StoredClean
<1> DEFINE c == IF i <= Len(st) THEN st[i].conn ELSE NoConn
           w == IF i <= Len(st) THEN "hooks" ELSE "connect"
<1>9. /\ c \in Conn \cup {NoConn}
      /\ c # NoConn => c \in Conns(st) \ (old \cup Conns(rest)) /\ st # <<>> /\ w = "hooks"
      /\ c = NoConn => w = "connect"
      /\ w \in {"connect", "hooks"}
      /\ Conns(st) \subseteq old \cup Conns(rest) \cup {c}
  <2>1. CASE i <= Len(st)
    <3>1. c = st[i].conn /\ w = "hooks" /\ c \in Conn
      BY <1>2, <1>5, <2>1
    <3> HIDE DEF c, w
    <3> QED BY <1>2, <2>1, <3>1, PoolAssumption
  <2>2. CASE ~(i <= Len(st))
    <3>1. c = NoConn /\ w = "connect"
      BY <2>2
    <3> HIDE DEF c, w
    <3> QED BY <1>2, <2>2, <3>1
  <2> QED BY <2>1, <2>2
<1>10. Goes(s, w, h, c)
  BY <1>3
<1> HIDE DEF c, w
<1>11. /\ pc' \in [Scoped -> {"none", "connect", "finishCreate", "hooks", "live"}]
       /\ _host' \in [Scoped -> Host \cup {NoHost}]
       /\ _conn' \in [Scoped -> Conn \cup {NoConn}]
       /\ pc'[s] = w /\ _host'[s] = h /\ _conn'[s] = c
       /\ \A t \in Scoped \ {s} : pc'[t] = pc[t] /\ _host'[t] = _host[t] /\ _conn'[t] = _conn[t]
  BY <1>9, <1>10, GoesOn
<1>12. /\ open' = open \ old /\ failed' = failed \ old /\ dirty' = dirty \ old
       /\ _created' = _created /\ lost' = lost
  BY <1>3 DEF Delete
<1>13. /\ _conn[s] = NoConn
       /\ st = _pool[p] /\ p = PoolOf[h]
  BY <1>3 DEF IInv, Stages, st, p
<1>14. TypeOK'
  BY <1>2, <1>7, <1>8, <1>11, <1>12 DEF IInv, TypeOK
<1>15. HeldApart'
  <2> SUFFICES ASSUME NEW t \in Scoped, _conn'[t] # NoConn
               PROVE  /\ _conn'[t] \in open' \ lost'
                      /\ \A u \in Scoped : _conn'[u] = _conn'[t] => u = t
                      /\ \A q \in Pool : _conn'[t] \notin Conns(_pool'[q])
    BY DEF HeldApart
  <2>1. CASE t = s
    <3>1. c \in Conns(st) \ (old \cup Conns(rest))
      BY <1>9, <1>11, <2>1
    <3>2. \A q \in Pool : c \notin Conns(_pool'[q])
      BY <1>4, <1>7, <3>1
    <3>3. \A u \in Scoped : _conn'[u] = c => u = s
      BY <1>8, <1>11, <3>1
    <3>4. c \in open' \ lost'
      BY <1>8, <1>12, <3>1
    <3> QED BY <1>11, <2>1, <3>2, <3>3, <3>4
  <2>2. CASE t # s
    <3>1. /\ _conn'[t] = _conn[t] /\ _conn[t] \in open \ lost
          /\ \A u \in Scoped : _conn[u] = _conn[t] => u = t
          /\ \A q \in Pool : _conn[t] \notin Conns(_pool[q])
      BY <1>11, <2>2 DEF IInv, HeldApart
    <3>2. _conn[t] \notin Conns(st)
      BY <1>8
    <3>3. \A q \in Pool : _conn[t] \notin Conns(_pool'[q])
      BY <1>2, <1>7, <3>1, <3>2
    <3>4. _conn[t] # c
      BY <1>9, <2>2, <3>1, <3>2
    <3> QED BY <1>2, <1>11, <1>12, <3>1, <3>2, <3>3, <3>4
  <2> QED BY <2>1, <2>2
<1>16. StoredClean'
  <2> SUFFICES ASSUME NEW q \in Pool
               PROVE  /\ Conns(_pool'[q]) \subseteq open' \ (dirty' \cup failed' \cup lost')
                      /\ _pool'[q] # <<>> => _created'[q] > 0
    BY DEF StoredClean
  <2>1. CASE q = p
    BY <1>2, <1>7, <1>8, <1>12, <2>1
  <2>2. CASE q # p
    <3>1. /\ Conns(_pool[q]) \subseteq open \ (dirty \cup failed \cup lost)
          /\ _pool[q] # <<>> => _created[q] > 0
      BY DEF IInv, StoredClean
    <3> QED BY <1>2, <1>4, <1>7, <1>12, <2>2, <3>1
  <2> QED BY <2>1, <2>2
<1>17. Stages'
  <2> SUFFICES ASSUME NEW t \in Scoped
               PROVE  /\ pc'[t] \in {"none", "connect"} => _conn'[t] = NoConn
                      /\ pc'[t] \in {"finishCreate", "hooks"} =>
                           _conn'[t] # NoConn /\ _conn'[t] \notin dirty' \cup failed'
                      /\ pc'[t] # "none" => _host'[t] \in Host
                      /\ pc'[t] \in {"hooks", "live"} => _created'[PoolOf[_host'[t]]] > 0
    BY DEF Stages
  <2>1. CASE t = s
    <3>1. w = "hooks" => c \in Conns(st) /\ st # <<>> /\ c # NoConn
      BY <1>9
    <3>2. w = "connect" => c = NoConn
      BY <1>9
    <3> QED BY <1>8, <1>9, <1>11, <1>12, <1>13, <2>1, <3>1, <3>2
  <2>2. CASE t # s
    BY <1>11, <1>12, <2>2 DEF IInv, Stages
  <2> QED BY <2>1, <2>2
<1>18. Owned'
  <2> SUFFICES ASSUME NEW x \in open'
               PROVE  \/ \E t \in Scoped : _conn'[t] = x
                      \/ \E q \in Pool : x \in Conns(_pool'[q])
                      \/ x \in lost'
    BY DEF Owned
  <2>1. x \in open \ old /\ x # NoConn
    BY <1>12, PoolFacts
  <2>2. CASE \E t \in Scoped : _conn[t] = x
    BY <1>11, <1>13, <2>1, <2>2
  <2>3. CASE x \in lost
    BY <1>12, <2>3
  <2>4. CASE \E q \in Pool : x \in Conns(_pool[q])
    <3>1. PICK q \in Pool : x \in Conns(_pool[q])
      BY <2>4
    <3>2. CASE q # p
      BY <1>7, <3>1, <3>2
    <3>3. CASE q = p
      <4>1. x \in Conns(rest) \/ x = c
        BY <1>9, <1>13, <2>1, <3>1, <3>3
      <4> QED BY <1>1, <1>7, <1>11, <4>1
    <3> QED BY <3>2, <3>3
  <2> QED BY <2>1, <2>2, <2>3, <2>4 DEF IInv, Owned
<1> QED BY <1>7, <1>14, <1>15, <1>16, <1>17, <1>18 DEF IInv

\* A scoped connection has no connection any more; what it had is closed.
LEMMA DropStep ==
  ASSUME IInv, NEW s \in Scoped, NEW w \in {"none", "live"}, NEW h \in Host \cup {NoHost},
         w = "live" => pc[s] = "live" /\ h = _host[s],
         Delete({_conn[s]}), Goes(s, w, h, NoConn), UNCHANGED <<poolVars, lost>>
  PROVE  IInv'
<1>1. /\ pc' \in [Scoped -> {"none", "connect", "finishCreate", "hooks", "live"}]
      /\ _host' \in [Scoped -> Host \cup {NoHost}]
      /\ _conn' \in [Scoped -> Conn \cup {NoConn}]
      /\ pc'[s] = w /\ _host'[s] = h /\ _conn'[s] = NoConn
      /\ \A t \in Scoped \ {s} : pc'[t] = pc[t] /\ _host'[t] = _host[t] /\ _conn'[t] = _conn[t]
  BY GoesOn
<1>2. /\ open' = open \ {_conn[s]} /\ failed' = failed \ {_conn[s]} /\ dirty' = dirty \ {_conn[s]}
      /\ _pool' = _pool /\ _created' = _created /\ lost' = lost
  BY DEF Delete, poolVars
<1>3. _conn[s] \notin lost
  <2>1. _conn[s] # NoConn => _conn[s] \notin lost
    BY DEF IInv, HeldApart
  <2> QED BY <2>1, PoolFacts DEF IInv, TypeOK
<1>4. \A p \in Pool : _conn[s] \notin Conns(_pool[p])
  <2>1. _conn[s] # NoConn => \A p \in Pool : _conn[s] \notin Conns(_pool[p])
    BY DEF IInv, HeldApart
  <2> QED BY <2>1, PoolFacts
<1>5. TypeOK'
  BY <1>1, <1>2, <1>3 DEF IInv, TypeOK
<1>6. StacksApart'
  BY <1>2 DEF IInv, StacksApart
<1>7. HeldApart'
  <2> SUFFICES ASSUME NEW t \in Scoped, _conn'[t] # NoConn
               PROVE  /\ _conn'[t] \in open' \ lost'
                      /\ \A u \in Scoped : _conn'[u] = _conn'[t] => u = t
                      /\ \A p \in Pool : _conn'[t] \notin Conns(_pool'[p])
    BY DEF HeldApart
  <2>1. t # s /\ _conn'[t] = _conn[t]
    BY <1>1
  <2>2. /\ _conn[t] \in open \ lost
        /\ \A u \in Scoped : _conn[u] = _conn[t] => u = t
        /\ \A p \in Pool : _conn[t] \notin Conns(_pool[p])
    BY <2>1 DEF IInv, HeldApart
  <2> QED BY <1>1, <1>2, <2>1, <2>2
<1>8. StoredClean'
  BY <1>2, <1>4 DEF IInv, StoredClean
<1>9. Stages'
  <2>1. Stages
    BY DEF IInv
  <2> QED BY <1>1, <1>2, <2>1 DEF Stages
<1>10. Owned'
  <2>1. Owned
    BY DEF IInv
  <2> QED BY <1>1, <1>2, <2>1 DEF Owned
<1> QED BY <1>5, <1>6, <1>7, <1>8, <1>9, <1>10 DEF IInv

\* A scoped connection goes on with the connection it has.
LEMMA KeepStep ==
  ASSUME IInv, NEW s \in Scoped, NEW w \in {"hooks", "live"},
         Goes(s, w, _host[s], _conn[s]),
         _host[s] \in Host,
         w = "hooks" => _conn[s] # NoConn /\ _conn[s] \notin dirty \cup failed,
         _created' \in [Pool -> 0..MaxCreated],
         \A p \in Pool : _created[p] > 0 => _created'[p] > 0,
         _created'[PoolOf[_host[s]]] > 0,
         UNCHANGED <<_pool, connVars, lost>>
  PROVE  IInv'
<1>1. _host[s] \in Host \cup {NoHost} /\ _conn[s] \in Conn \cup {NoConn}
  BY DEF IInv, TypeOK
<1>2. /\ pc' \in [Scoped -> {"none", "connect", "finishCreate", "hooks", "live"}]
      /\ pc'[s] = w /\ \A t \in Scoped \ {s} : pc'[t] = pc[t]
      /\ _host' = _host /\ _conn' = _conn
  BY <1>1 DEF IInv, TypeOK, Goes
<1>3. open' = open /\ failed' = failed /\ dirty' = dirty /\ _pool' = _pool /\ lost' = lost
  BY DEF connVars
<1>4. TypeOK'
  BY <1>2, <1>3 DEF IInv, TypeOK
<1>5. StacksApart'
  BY <1>3 DEF IInv, StacksApart
<1>6. HeldApart'
  BY <1>2, <1>3 DEF IInv, HeldApart
<1>7. StoredClean'
  BY <1>3 DEF IInv, StoredClean
<1>8. Stages'
  <2> SUFFICES ASSUME NEW t \in Scoped
               PROVE  /\ pc'[t] \in {"none", "connect"} => _conn[t] = NoConn
                      /\ pc'[t] \in {"finishCreate", "hooks"} =>
                           _conn[t] # NoConn /\ _conn[t] \notin dirty \cup failed
                      /\ pc'[t] # "none" => _host[t] \in Host
                      /\ pc'[t] \in {"hooks", "live"} => _created'[PoolOf[_host[t]]] > 0
    BY <1>2, <1>3 DEF Stages
  <2>1. CASE t = s
    BY <1>2, <2>1
  <2>2. CASE t # s
    <3>1. /\ pc[t] \in {"none", "connect"} => _conn[t] = NoConn
          /\ pc[t] \in {"finishCreate", "hooks"} =>
               _conn[t] # NoConn /\ _conn[t] \notin dirty \cup failed
          /\ pc[t] # "none" => _host[t] \in Host
          /\ pc[t] \in {"hooks", "live"} => _created[PoolOf[_host[t]]] > 0
      BY DEF IInv, Stages
    <3>2. pc[t] \in {"hooks", "live"} => PoolOf[_host[t]] \in Pool
      BY <3>1, PoolFacts
    <3> QED BY <1>2, <2>2, <3>1, <3>2
  <2> QED BY <2>1, <2>2
<1>9. Owned'
  BY <1>2, <1>3 DEF IInv, Owned
<1> QED BY <1>4, <1>5, <1>6, <1>7, <1>8, <1>9 DEF IInv

LEMMA ConnectStep ==
  ASSUME IInv, NEW s \in Scoped, Connect(s)
  PROVE  IInv'
<1>1. CASE Goes(s, "none", NoHost, NoConn) /\ UNCHANGED connVars
  <2>1. _conn[s] = NoConn
    BY DEF IInv, Stages, Connect
  <2>2. Delete({_conn[s]})
    BY <1>1, <2>1, PoolFacts DEF IInv, TypeOK, Delete, connVars
  <2> QED BY <1>1, <2>2, DropStep DEF Connect
<1>2. ASSUME NEW c \in Conn \ open, open' = open \cup {c}, Goes(s, "finishCreate", _host[s], c),
             UNCHANGED <<failed, dirty>>
      PROVE  IInv'
  <2>0. pc[s] = "connect" /\ _conn[s] = NoConn /\ _host[s] \in Host
    BY DEF IInv, Stages, Connect
  <2>1. /\ pc' \in [Scoped -> {"none", "connect", "finishCreate", "hooks", "live"}]
        /\ _host' \in [Scoped -> Host \cup {NoHost}]
        /\ _conn' \in [Scoped -> Conn \cup {NoConn}]
        /\ pc'[s] = "finishCreate" /\ _host'[s] = _host[s] /\ _conn'[s] = c
        /\ \A t \in Scoped \ {s} : pc'[t] = pc[t] /\ _host'[t] = _host[t] /\ _conn'[t] = _conn[t]
    BY <1>2, <2>0, GoesOn
  <2>2. _pool' = _pool /\ _created' = _created /\ lost' = lost
    BY DEF Connect, poolVars
  <2>3. /\ c \notin lost \cup failed \cup dirty /\ c # NoConn
        /\ \A p \in Pool : c \notin Conns(_pool[p])
        /\ \A t \in Scoped : _conn[t] # c
    <3>1. c \notin lost \cup failed \cup dirty /\ c # NoConn
      BY PoolAssumption DEF IInv, TypeOK
    <3> QED BY <3>1 DEF IInv, StoredClean, HeldApart
  <2>4. TypeOK'
    BY <1>2, <2>1, <2>2 DEF IInv, TypeOK
  <2>5. StacksApart'
    BY <2>2 DEF IInv, StacksApart
  <2>6. HeldApart'
    <3> SUFFICES ASSUME NEW t \in Scoped, _conn'[t] # NoConn
                 PROVE  /\ _conn'[t] \in open' \ lost'
                        /\ \A u \in Scoped : _conn'[u] = _conn'[t] => u = t
                        /\ \A p \in Pool : _conn'[t] \notin Conns(_pool'[p])
      BY DEF HeldApart
    <3>1. CASE t = s
      BY <1>2, <2>1, <2>2, <2>3, <3>1
    <3>2. CASE t # s
      <4>1. /\ _conn[t] \in open \ lost
            /\ \A u \in Scoped : _conn[u] = _conn[t] => u = t
            /\ \A p \in Pool : _conn[t] \notin Conns(_pool[p])
        BY <2>1, <3>2 DEF IInv, HeldApart
      <4> QED BY <1>2, <2>1, <2>2, <2>3, <3>2, <4>1
    <3> QED BY <3>1, <3>2
  <2>7. StoredClean'
    BY <1>2, <2>2 DEF IInv, StoredClean
  <2>8. Stages'
    <3>1. Stages
      BY DEF IInv
    <3> QED BY <1>2, <2>0, <2>1, <2>2, <2>3, <3>1 DEF Stages
  <2>9. Owned'
    <3>1. Owned
      BY DEF IInv
    <3> QED BY <1>2, <2>0, <2>1, <2>2, <2>3, <3>1, PoolFacts DEF Owned
  <2> QED BY <2>4, <2>5, <2>6, <2>7, <2>8, <2>9 DEF IInv
<1> QED BY <1>1, <1>2 DEF Connect

LEMMA CreateStep ==
  ASSUME IInv, NEW s \in Scoped, _finishCreate(s)
  PROVE  IInv'
<1>1. /\ pc[s] = "finishCreate" /\ _host[s] \in Host
      /\ _conn[s] # NoConn /\ _conn[s] \notin dirty \cup failed
  BY DEF IInv, Stages, _finishCreate
<1> DEFINE p == PoolOf[_host[s]]
<1>2. p \in Pool
  BY <1>1, PoolFacts
<1> HIDE DEF p
<1>3. _created' = [_created EXCEPT ![p] = @ + 1] /\ _created[p] < MaxCreated
  BY DEF _finishCreate, p
<1>4. _created \in [Pool -> 0..MaxCreated]
  BY DEF IInv, TypeOK
<1>5. /\ _created' \in [Pool -> 0..MaxCreated] /\ _created'[p] > 0
      /\ \A q \in Pool : _created[q] > 0 => _created'[q] > 0
  <2>1. _created[p] \in 0..MaxCreated /\ _created[p] + 1 \in 0..MaxCreated /\ _created[p] + 1 > 0
    BY <1>2, <1>3, <1>4, PoolAssumption
  <2> QED BY <1>2, <1>3, <1>4, <2>1
<1>6. _created'[PoolOf[_host[s]]] > 0
  BY <1>5 DEF p
<1>7. Goes(s, "hooks", _host[s], _conn[s]) /\ UNCHANGED <<_pool, connVars, lost>>
  BY DEF _finishCreate
<1> QED BY <1>1, <1>5, <1>6, <1>7, KeepStep

LEMMA HooksStep ==
  ASSUME IInv, NEW s \in Scoped, RunHooks(s)
  PROVE  IInv'
<1>1. /\ pc[s] = "hooks" /\ _host[s] \in Host /\ _created[PoolOf[_host[s]]] > 0
      /\ _conn[s] # NoConn
      /\ UNCHANGED <<poolVars, connVars>>
  BY DEF IInv, Stages, RunHooks
<1>2. _created \in [Pool -> 0..MaxCreated]
  BY DEF IInv, TypeOK
<1>3. CASE Goes(s, "live", _host[s], _conn[s]) /\ UNCHANGED lost
  <2>1. /\ _created' \in [Pool -> 0..MaxCreated] /\ _created'[PoolOf[_host[s]]] > 0
        /\ \A p \in Pool : _created[p] > 0 => _created'[p] > 0
        /\ UNCHANGED <<_pool, connVars, lost>>
    BY <1>1, <1>2, <1>3 DEF poolVars
  <2> QED BY <1>1, <1>3, <2>1, KeepStep
<1>4. CASE Goes(s, "none", NoHost, NoConn) /\ lost' = lost \cup {_conn[s]}
  <2>1. /\ pc' \in [Scoped -> {"none", "connect", "finishCreate", "hooks", "live"}]
        /\ _host' \in [Scoped -> Host \cup {NoHost}]
        /\ _conn' \in [Scoped -> Conn \cup {NoConn}]
        /\ pc'[s] = "none" /\ _host'[s] = NoHost /\ _conn'[s] = NoConn
        /\ \A t \in Scoped \ {s} : pc'[t] = pc[t] /\ _host'[t] = _host[t] /\ _conn'[t] = _conn[t]
    BY <1>4, GoesOn
  <2>2. /\ open' = open /\ failed' = failed /\ dirty' = dirty
        /\ _pool' = _pool /\ _created' = _created
    BY <1>1 DEF poolVars, connVars
  <2>3. /\ _conn[s] \in open
        /\ \A t \in Scoped : _conn[t] = _conn[s] => t = s
        /\ \A p \in Pool : _conn[s] \notin Conns(_pool[p])
    BY <1>1 DEF IInv, HeldApart
  <2>4. TypeOK'
    BY <1>4, <2>1, <2>2, <2>3 DEF IInv, TypeOK
  <2>5. StacksApart'
    BY <2>2 DEF IInv, StacksApart
  <2>6. HeldApart'
    <3> SUFFICES ASSUME NEW t \in Scoped, _conn'[t] # NoConn
                 PROVE  /\ _conn'[t] \in open' \ lost'
                        /\ \A u \in Scoped : _conn'[u] = _conn'[t] => u = t
                        /\ \A p \in Pool : _conn'[t] \notin Conns(_pool'[p])
      BY DEF HeldApart
    <3>1. t # s /\ _conn'[t] = _conn[t]
      BY <2>1
    <3>2. /\ _conn[t] \in open \ lost
          /\ \A u \in Scoped : _conn[u] = _conn[t] => u = t
          /\ \A p \in Pool : _conn[t] \notin Conns(_pool[p])
      BY <2>1, <3>1 DEF IInv, HeldApart
    <3> QED BY <1>4, <2>1, <2>2, <2>3, <3>1, <3>2
  <2>7. StoredClean'
    BY <1>4, <2>2, <2>3 DEF IInv, StoredClean
  <2>8. Stages'
    <3>1. Stages
      BY DEF IInv
    <3> QED BY <2>1, <2>2, <3>1 DEF Stages
  <2>9. Owned'
    <3>1. Owned
      BY DEF IInv
    <3> QED BY <1>4, <2>1, <2>2, <3>1 DEF Owned
  <2> QED BY <2>4, <2>5, <2>6, <2>7, <2>8, <2>9 DEF IInv
<1> QED BY <1>3, <1>4 DEF RunHooks

LEMMA UseStep ==
  ASSUME IInv, NEW s \in Scoped, Use(s)
  PROVE  IInv'
<1>1. /\ pc[s] = "live" /\ _conn[s] # NoConn
      /\ _pool' = _pool /\ _created' = _created /\ open' = open /\ lost' = lost
      /\ pc' = pc /\ _host' = _host /\ _conn' = _conn
  BY DEF Use, poolVars, scopedVars
<1>2. /\ dirty' \subseteq dirty \cup {_conn[s]} /\ failed' \subseteq failed \cup {_conn[s]}
  BY DEF Use
<1>3. /\ _conn[s] \in open \ lost
      /\ \A t \in Scoped : _conn[t] = _conn[s] => t = s
      /\ \A p \in Pool : _conn[s] \notin Conns(_pool[p])
  BY <1>1 DEF IInv, HeldApart
<1>4. TypeOK'
  BY <1>1, <1>2, <1>3 DEF IInv, TypeOK
<1>5. StacksApart' /\ HeldApart' /\ Owned'
  BY <1>1 DEF IInv, StacksApart, HeldApart, Owned
<1>6. StoredClean'
  BY <1>1, <1>2, <1>3 DEF IInv, StoredClean
<1>7. Stages'
  <2>1. Stages
    BY DEF IInv
  <2>2. \A t \in Scoped : pc[t] \in {"finishCreate", "hooks"} => _conn[t] # _conn[s]
    BY <1>1, <1>3
  <2> QED BY <1>1, <1>2, <2>1, <2>2 DEF Stages
<1> QED BY <1>4, <1>5, <1>6, <1>7 DEF IInv

\* A connection goes back to its pool.
LEMMA StoreStep ==
  ASSUME IInv, NEW s \in Scoped, pc[s] = "live", _conn[s] # NoConn,
         _conn[s] \notin dirty \cup failed,
         Len(_pool[PoolOf[_host[s]]]) < _maxPerHost,
         _pool' = [_pool EXCEPT ![PoolOf[_host[s]]] = <<[conn |-> _conn[s], idle |-> 0]>> \o @],
         UNCHANGED connVars, Goes(s, "live", _host[s], NoConn), UNCHANGED <<_created, lost>>
  PROVE  IInv'
<1> DEFINE p == PoolOf[_host[s]]
           c == _conn[s]
           st == <<[conn |-> c, idle |-> 0]>> \o _pool[p]
<1>1. _host[s] \in Host /\ p \in Pool /\ _created[p] > 0
  BY PoolFacts DEF IInv, Stages
<1>2. /\ c \in open \ lost /\ c \in Conn /\ c \notin dirty \cup failed /\ c # NoConn
      /\ \A t \in Scoped : _conn[t] = c => t = s
      /\ \A q \in Pool : c \notin Conns(_pool[q])
  BY DEF IInv, HeldApart, TypeOK
<1>3. /\ _pool[p] \in Seq(Stored) /\ Once(_pool[p]) /\ Len(_pool[p]) \in Nat
      /\ Len(_pool[p]) < _maxPerHost
  BY <1>1, PoolFacts
<1>4. /\ st \in Seq(Stored) /\ Len(st) = Len(_pool[p]) + 1
      /\ Conns(st) = Conns(_pool[p]) \cup {c}
      /\ Once(st)
  BY <1>1, <1>2, <1>3, PushOf
<1>5. /\ _pool' = [_pool EXCEPT ![p] = st]
      /\ open' = open /\ failed' = failed /\ dirty' = dirty
      /\ _created' = _created /\ lost' = lost
  BY DEF connVars
<1>6. /\ pc' \in [Scoped -> {"none", "connect", "finishCreate", "hooks", "live"}]
      /\ _host' \in [Scoped -> Host \cup {NoHost}]
      /\ _conn' \in [Scoped -> Conn \cup {NoConn}]
      /\ pc'[s] = "live" /\ _host'[s] = _host[s] /\ _conn'[s] = NoConn
      /\ \A t \in Scoped \ {s} : pc'[t] = pc[t] /\ _host'[t] = _host[t] /\ _conn'[t] = _conn[t]
  BY <1>1, GoesOn
<1> HIDE DEF p, c, st
<1>7. Len(st) <= _maxPerHost
  BY <1>3, <1>4, PoolAssumption
<1>8. \A q \in Pool \ {p} : Conns(st) \cap Conns(_pool[q]) = {}
  BY <1>1, <1>2, <1>4 DEF IInv, StacksApart
<1>9. /\ _pool' \in [Pool -> Seq(Stored)] /\ _pool'[p] = st
      /\ \A q \in Pool \ {p} : _pool'[q] = _pool[q]
      /\ StacksApart'
  BY <1>1, <1>4, <1>5, <1>7, <1>8, OneStack
<1>10. TypeOK'
  BY <1>5, <1>6, <1>9 DEF IInv, TypeOK
<1>11. HeldApart'
  <2> SUFFICES ASSUME NEW t \in Scoped, _conn'[t] # NoConn
               PROVE  /\ _conn'[t] \in open' \ lost'
                      /\ \A u \in Scoped : _conn'[u] = _conn'[t] => u = t
                      /\ \A q \in Pool : _conn'[t] \notin Conns(_pool'[q])
    BY DEF HeldApart
  <2>1. t # s /\ _conn'[t] = _conn[t]
    BY <1>6
  <2>2. /\ _conn[t] \in open \ lost
        /\ \A u \in Scoped : _conn[u] = _conn[t] => u = t
        /\ \A q \in Pool : _conn[t] \notin Conns(_pool[q])
    BY <2>1 DEF IInv, HeldApart
  <2>3. _conn[t] # c
    BY <1>2, <2>1
  <2>4. \A q \in Pool : _conn[t] \notin Conns(_pool'[q])
    BY <1>4, <1>9, <2>2, <2>3
  <2> QED BY <1>5, <1>6, <2>1, <2>2, <2>4
<1>12. StoredClean'
  <2> SUFFICES ASSUME NEW q \in Pool
               PROVE  /\ Conns(_pool'[q]) \subseteq open \ (dirty \cup failed \cup lost)
                      /\ _pool'[q] # <<>> => _created[q] > 0
    BY <1>5 DEF StoredClean
  <2>1. Conns(_pool[q]) \subseteq open \ (dirty \cup failed \cup lost)
        /\ (_pool[q] # <<>> => _created[q] > 0)
    BY DEF IInv, StoredClean
  <2>2. _created[p] > 0
    BY <1>1 DEF p
  <2>3. CASE q = p
    BY <1>2, <1>4, <1>9, <2>1, <2>2, <2>3
  <2>4. CASE q # p
    BY <1>9, <2>1, <2>4
  <2> QED BY <2>3, <2>4
<1>13. Stages'
  <2>1. Stages
    BY DEF IInv
  <2> QED BY <1>5, <1>6, <2>1 DEF Stages
<1>14. Owned'
  <2> SUFFICES ASSUME NEW x \in open
               PROVE  \/ \E t \in Scoped : _conn'[t] = x
                      \/ \E q \in Pool : x \in Conns(_pool'[q])
                      \/ x \in lost
    BY <1>5 DEF Owned
  <2>1. CASE x = c
    BY <1>1, <1>4, <1>9, <2>1
  <2>2. ASSUME NEW t \in Scoped, _conn[t] = x, x # c
        PROVE  _conn'[t] = x
    BY <1>6, <2>2 DEF c
  <2>3. ASSUME NEW q \in Pool, x \in Conns(_pool[q])
        PROVE  x \in Conns(_pool'[q])
    BY <1>4, <1>9, <2>3
  <2> QED BY <2>1, <2>2, <2>3 DEF IInv, Owned
<1> QED BY <1>9, <1>10, <1>11, <1>12, <1>13, <1>14 DEF IInv

LEMMA DoneStep ==
  ASSUME IInv, NEW s \in Scoped, done(s)
  PROVE  IInv'
<1>1. /\ pc[s] = "live" /\ _conn[s] \notin dirty
      /\ Goes(s, "live", _host[s], NoConn) /\ UNCHANGED <<_created, lost>>
      /\ _host[s] \in Host \cup {NoHost}
  BY DEF done, IInv, TypeOK
<1>2. ASSUME Delete({_conn[s]}), UNCHANGED _pool
      PROVE  IInv'
  BY <1>1, <1>2, DropStep DEF poolVars
<1>3. CASE _conn[s] = NoConn
  <2>1. UNCHANGED <<_pool, connVars>>
    BY <1>3 DEF done
  <2>2. Delete({_conn[s]})
    BY <1>3, <2>1, PoolFacts DEF IInv, TypeOK, Delete, connVars
  <2> QED BY <1>2, <2>1, <2>2
<1>4. CASE _conn[s] # NoConn
  <2>1. release(_host[s], _conn[s])
    BY <1>4 DEF done
  <2>2. CASE _conn[s] \in failed
    BY <1>2, <2>1, <2>2 DEF release
  <2>3. CASE _conn[s] \notin failed
    <3>1. PoolDone(PoolOf[_host[s]], _conn[s])
      BY <2>1, <2>3 DEF release
    <3>2. CASE Delete({_conn[s]}) /\ UNCHANGED _pool
      BY <1>2, <3>2
    <3>3. CASE /\ Len(_pool[PoolOf[_host[s]]]) < _maxPerHost
               /\ _pool' = [_pool EXCEPT ![PoolOf[_host[s]]] =
                              <<[conn |-> _conn[s], idle |-> 0]>> \o @]
               /\ UNCHANGED connVars
      BY <1>1, <1>4, <2>3, <3>3, StoreStep
    <3> QED BY <3>1, <3>2, <3>3 DEF PoolDone
  <2> QED BY <2>2, <2>3
<1> QED BY <1>3, <1>4

LEMMA KillStep ==
  ASSUME IInv, NEW s \in Scoped, kill(s)
  PROVE  IInv'
<1>1. _host[s] \in Host \cup {NoHost}
  BY DEF IInv, TypeOK
<1> QED BY <1>1, DropStep DEF kill

LEMMA DestroyStep ==
  ASSUME IInv, NEW s \in Scoped, Destroy(s)
  PROVE  IInv'
BY DropStep DEF Destroy

LEMMA StealStep ==
  ASSUME IInv, NEW s \in Scoped, NEW n \in Scoped, steal(s, n)
  PROVE  IInv'
<1>1. /\ pc[s] = "live" /\ _conn[s] # NoConn /\ pc[n] = "none" /\ s # n
      /\ _host[s] \in Host /\ _created[PoolOf[_host[s]]] > 0
  BY DEF IInv, Stages, steal
<1>2. /\ open' = open /\ failed' = failed /\ dirty' = dirty /\ lost' = lost
      /\ _pool' = _pool /\ _created' = _created
  BY DEF steal, poolVars, connVars
<1>3. /\ pc' \in [Scoped -> {"none", "connect", "finishCreate", "hooks", "live"}]
      /\ pc'[n] = "live" /\ \A t \in Scoped \ {n} : pc'[t] = pc[t]
  BY DEF steal, IInv, TypeOK
<1>4. /\ _host' \in [Scoped -> Host \cup {NoHost}]
      /\ _host'[n] = _host[s] /\ \A t \in Scoped \ {n} : _host'[t] = _host[t]
  BY DEF steal, IInv, TypeOK
<1>5. /\ _conn' \in [Scoped -> Conn \cup {NoConn}]
      /\ _conn'[n] = _conn[s] /\ _conn'[s] = NoConn
      /\ \A t \in Scoped \ {n, s} : _conn'[t] = _conn[t]
  BY <1>1 DEF steal, IInv, TypeOK
<1>6. TypeOK'
  BY <1>2, <1>3, <1>4, <1>5 DEF IInv, TypeOK
<1>7. StacksApart' /\ StoredClean'
  BY <1>2 DEF IInv, StacksApart, StoredClean
<1>8. _conn[n] = NoConn
  BY <1>1 DEF IInv, Stages
<1>9. HeldApart'
  <2> SUFFICES ASSUME NEW t \in Scoped, _conn'[t] # NoConn
               PROVE  /\ _conn'[t] \in open \ lost
                      /\ \A u \in Scoped : _conn'[u] = _conn'[t] => u = t
                      /\ \A p \in Pool : _conn'[t] \notin Conns(_pool[p])
    BY <1>2 DEF HeldApart
  <2>1. \A u \in Scoped : _conn[u] # NoConn =>
          /\ _conn[u] \in open \ lost
          /\ \A v \in Scoped : _conn[v] = _conn[u] => v = u
          /\ \A p \in Pool : _conn[u] \notin Conns(_pool[p])
    BY DEF IInv, HeldApart
  <2>2. t # s
    BY <1>5
  <2>3. CASE t = n
    BY <1>1, <1>5, <2>1, <2>3
  <2>4. CASE t # n
    BY <1>1, <1>5, <2>1, <2>2, <2>4
  <2> QED BY <2>3, <2>4
<1>10. Stages'
  <2>1. Stages
    BY DEF IInv
  <2> QED BY <1>1, <1>2, <1>3, <1>4, <1>5, <2>1 DEF Stages
<1>11. Owned'
  <2> SUFFICES ASSUME NEW x \in open
               PROVE  \/ \E t \in Scoped : _conn'[t] = x
                      \/ \E p \in Pool : x \in Conns(_pool[p])
                      \/ x \in lost
    BY <1>2 DEF Owned
  <2>1. ASSUME NEW t \in Scoped, _conn[t] = x
        PROVE  \E u \in Scoped : _conn'[u] = x
    <3>1. x # NoConn
      BY PoolFacts
    <3> QED BY <1>5, <1>8, <2>1, <3>1
  <2> QED BY <2>1 DEF IInv, Owned
<1> QED BY <1>6, <1>7, <1>9, <1>10, <1>11 DEF IInv

\* Stacks change without a new connection in any; what is missing afterwards is
\* forgotten, and no one else has it.
LEMMA StacksStep ==
  ASSUME IInv, NEW G \in SUBSET open,
         _pool' \in [Pool -> Seq(Stored)],
         \A p \in Pool : /\ Once(_pool'[p]) /\ Len(_pool'[p]) <= Len(_pool[p])
                         /\ Conns(_pool'[p]) \subseteq Conns(_pool[p]) \ G
                         /\ Conns(_pool[p]) \subseteq Conns(_pool'[p]) \cup G,
         \A s \in Scoped : _conn[s] \notin G,
         failed \subseteq failed', failed' \subseteq failed \cup G, lost' = lost \cup G,
         UNCHANGED <<_created, open, dirty, scopedVars>>
  PROVE  IInv'
<1>1. /\ _created' = _created /\ open' = open /\ dirty' = dirty
      /\ pc' = pc /\ _host' = _host /\ _conn' = _conn
  BY DEF scopedVars
<1>2. TypeOK'
  BY <1>1 DEF IInv, TypeOK
<1>3. StacksApart'
  <2>1. ASSUME NEW p \in Pool PROVE Len(_pool'[p]) <= _maxPerHost
    <3>1. Len(_pool'[p]) \in Nat
      BY StackFacts
    <3> QED BY <3>1, PoolFacts, PoolAssumption
  <2>2. \A p, q \in Pool : p # q => Conns(_pool'[p]) \cap Conns(_pool'[q]) = {}
    BY DEF IInv, StacksApart
  <2> QED BY <2>1, <2>2 DEF StacksApart
<1>4. HeldApart'
  <2> SUFFICES ASSUME NEW s \in Scoped, _conn[s] # NoConn
               PROVE  /\ _conn[s] \in open \ lost'
                      /\ \A t \in Scoped : _conn[t] = _conn[s] => t = s
                      /\ \A p \in Pool : _conn[s] \notin Conns(_pool'[p])
    BY <1>1 DEF HeldApart
  <2> QED BY DEF IInv, HeldApart
<1>5. StoredClean'
  <2> SUFFICES ASSUME NEW p \in Pool
               PROVE  /\ Conns(_pool'[p]) \subseteq open \ (dirty \cup failed' \cup lost')
                      /\ _pool'[p] # <<>> => _created[p] > 0
    BY <1>1 DEF StoredClean
  <2>1. /\ Conns(_pool[p]) \subseteq open \ (dirty \cup failed \cup lost)
        /\ _pool[p] # <<>> => _created[p] > 0
    BY DEF IInv, StoredClean
  <2>2. _pool'[p] # <<>> => _pool[p] # <<>>
    <3>1. /\ Len(_pool'[p]) \in Nat /\ (_pool'[p] = <<>> <=> Len(_pool'[p]) = 0)
          /\ Len(_pool[p]) \in Nat /\ (_pool[p] = <<>> <=> Len(_pool[p]) = 0)
      BY StackFacts, PoolFacts
    <3>2. Len(_pool'[p]) <= Len(_pool[p])
      OBVIOUS
    <3> QED BY <3>1, <3>2
  <2> QED BY <2>1, <2>2
<1>6. Stages'
  <2>1. Stages
    BY DEF IInv
  <2>2. \A s \in Scoped : _conn[s] \notin failed => _conn[s] \notin failed'
    OBVIOUS
  <2> QED BY <1>1, <2>1, <2>2 DEF Stages
<1>7. Owned'
  <2>1. Owned
    BY DEF IInv
  <2>2. ASSUME NEW p \in Pool, NEW x \in Conns(_pool[p])
        PROVE  x \in Conns(_pool'[p]) \/ x \in lost'
    OBVIOUS
  <2> QED BY <1>1, <2>1, <2>2 DEF Owned
<1> QED BY <1>2, <1>3, <1>4, <1>5, <1>6, <1>7 DEF IInv

LEMMA FlushStep ==
  ASSUME IInv, flush
  PROVE  IInv'
<1>1. ASSUME NEW p \in Pool
      PROVE  /\ Reverse(_pool[p]) \in Seq(Stored) /\ Once(Reverse(_pool[p]))
             /\ Len(Reverse(_pool[p])) <= Len(_pool[p])
             /\ Conns(Reverse(_pool[p])) = Conns(_pool[p])
  BY PoolFacts, ReverseOf
<1>2. _pool' = [p \in Pool |-> Reverse(_pool[p])] /\ UNCHANGED <<_created, connVars, scopedVars, lost>>
  BY DEF flush
<1>3. /\ _pool' \in [Pool -> Seq(Stored)]
      /\ \A p \in Pool : /\ Once(_pool'[p]) /\ Len(_pool'[p]) <= Len(_pool[p])
                         /\ Conns(_pool'[p]) = Conns(_pool[p])
  BY <1>1, <1>2
<1>4. failed' = failed /\ UNCHANGED <<_created, open, dirty, scopedVars>>
  BY <1>2 DEF connVars
<1>5. lost' = lost \cup {} /\ {} \in SUBSET open
  BY <1>2
<1> QED BY <1>3, <1>4, <1>5, StacksStep

LEMMA TickStep ==
  ASSUME IInv, Tick
  PROVE  IInv'
<1> DEFINE older(st) == [i \in DOMAIN st |->
                           [st[i] EXCEPT !.idle = IF @ < MaxIdle THEN @ + 1 ELSE @]]
<1>1. ASSUME NEW p \in Pool
      PROVE  /\ older(_pool[p]) \in Seq(Stored) /\ Once(older(_pool[p]))
             /\ Len(older(_pool[p])) <= Len(_pool[p])
             /\ Conns(older(_pool[p])) = Conns(_pool[p])
  <2>1. _pool[p] \in Seq(Stored) /\ Once(_pool[p]) /\ Len(_pool[p]) \in Nat
    BY PoolFacts
  <2>2. /\ older(_pool[p]) \in Seq(Stored) /\ Len(older(_pool[p])) = Len(_pool[p])
        /\ Conns(older(_pool[p])) = Conns(_pool[p])
        /\ Once(_pool[p]) => Once(older(_pool[p]))
    BY <2>1, TickOf
  <2> HIDE DEF older
  <2> QED BY <2>1, <2>2
<1>2. _pool' = [p \in Pool |-> older(_pool[p])] /\ UNCHANGED <<_created, connVars, scopedVars, lost>>
  BY DEF Tick
<1> HIDE DEF older
<1>3. /\ _pool' \in [Pool -> Seq(Stored)]
      /\ \A p \in Pool : /\ Once(_pool'[p]) /\ Len(_pool'[p]) <= Len(_pool[p])
                         /\ Conns(_pool'[p]) = Conns(_pool[p])
  BY <1>1, <1>2
<1>4. failed' = failed /\ UNCHANGED <<_created, open, dirty, scopedVars>>
  BY <1>2 DEF connVars
<1>5. lost' = lost \cup {} /\ {} \in SUBSET open
  BY <1>2
<1> QED BY <1>3, <1>4, <1>5, StacksStep

LEMMA FlushThrowsStep ==
  ASSUME IInv, NEW p \in Pool, FlushThrows(p)
  PROVE  IInv'
<1> DEFINE st == _pool[p]
<1>1. st \in Seq(Stored) /\ Once(st) /\ Len(st) \in Nat
  BY PoolFacts
<1>2. DOMAIN st = 1..Len(st) /\ Conns(st) = {st[k].conn : k \in 1..Len(st)}
  BY <1>1, StackFacts
<1>3. PICK i \in DOMAIN st :
        /\ failed' = failed \cup {st[i].conn}
        /\ lost' = lost \cup Conns(SubSeq(st, 1, i))
        /\ _pool' = [q \in Pool |-> IF q < p THEN Reverse(_pool[q])
                                   ELSE IF q = p THEN SubSeq(st, i + 1, Len(st))
                                   ELSE _pool[q]]
  BY DEF FlushThrows
<1> DEFINE G == Conns(SubSeq(st, 1, i))
           rest == SubSeq(st, i + 1, Len(st))
           n == Len(st)
<1>4. i \in 0..Len(st) /\ i \in 1..n
  BY <1>1, <1>2
<1>5. G = {st[k].conn : k \in 1..i}
  BY <1>1, <1>4, TopOf
<1>6. /\ rest \in Seq(Stored) /\ Len(rest) = n - i /\ Once(rest)
      /\ Conns(rest) = {st[k].conn : k \in (i + 1)..n}
  BY <1>1, <1>4, RestOf
<1>7. p \notin {q \in Pool : q < p}
  <2>1. p \in Nat
    BY PoolAssumption DEF Pool
  <2> QED BY <2>1
<1>8. n \in Nat /\ DOMAIN st = 1..n /\ Conns(st) = {st[k].conn : k \in 1..n}
  BY <1>1, <1>2
<1>9. \A j, k \in 1..n : st[j].conn = st[k].conn => j = k
  BY <1>1, <1>8 DEF Once
<1>10. _pool'[p] = rest
  BY <1>3, <1>7
<1>11. \A q \in Pool \ {p} : _pool'[q] = Reverse(_pool[q]) \/ _pool'[q] = _pool[q]
  BY <1>3
<1>12. _pool' = [q \in Pool |-> _pool'[q]]
  BY <1>3
<1>13. lost' = lost \cup G /\ failed' = failed \cup {st[i].conn}
  BY <1>3
<1>14. UNCHANGED <<_created, open, dirty, scopedVars>>
  BY DEF FlushThrows
<1>15. st = _pool[p]
  OBVIOUS
<1> HIDE DEF st, G, rest, n
<1>16. \A k \in 1..n : k \in 1..i \/ k \in (i + 1)..n
  BY <1>4, <1>8
<1>17. /\ \A k \in 1..i : k \in 1..n /\ k \notin (i + 1)..n
       /\ \A k \in (i + 1)..n : k \in 1..n
       /\ i \in 1..i
  BY <1>4, <1>8
<1>18. G \subseteq Conns(st) /\ Conns(rest) \subseteq Conns(st) /\ st[i].conn \in G
  BY <1>5, <1>6, <1>8, <1>17
<1>19. G \cap Conns(rest) = {}
  BY <1>5, <1>6, <1>9, <1>17
<1>20. Conns(st) \subseteq Conns(rest) \cup G
  BY <1>5, <1>6, <1>8, <1>16
<1>21. G \in SUBSET open /\ \A s \in Scoped : _conn[s] \notin G
  <2>1. Conns(st) \subseteq open
    BY <1>15 DEF IInv, StoredClean
  <2>2. \A s \in Scoped : _conn[s] # NoConn => _conn[s] \notin Conns(st)
    BY <1>15 DEF IInv, HeldApart
  <2> QED BY <1>18, <2>1, <2>2, PoolFacts
<1>22. Len(rest) <= n
  BY <1>4, <1>6, <1>8
<1>23. ASSUME NEW q \in Pool
       PROVE  /\ _pool'[q] \in Seq(Stored)
              /\ Once(_pool'[q]) /\ Len(_pool'[q]) <= Len(_pool[q])
              /\ Conns(_pool'[q]) \subseteq Conns(_pool[q]) \ G
              /\ Conns(_pool[q]) \subseteq Conns(_pool'[q]) \cup G
  <2>1. CASE q = p
    <3>1. Len(rest) <= Len(st)
      BY <1>22 DEF n
    <3> QED BY <1>6, <1>10, <1>15, <1>18, <1>19, <1>20, <2>1, <3>1
  <2>2. CASE q # p
    <3>1. Conns(_pool[q]) \cap Conns(st) = {}
      BY <1>15, <2>2 DEF IInv, StacksApart
    <3>2. /\ _pool[q] \in Seq(Stored) /\ Once(_pool[q]) /\ Len(_pool[q]) \in Nat
      BY PoolFacts
    <3>3. /\ Reverse(_pool[q]) \in Seq(Stored) /\ Once(Reverse(_pool[q]))
          /\ Len(Reverse(_pool[q])) = Len(_pool[q])
          /\ Conns(Reverse(_pool[q])) = Conns(_pool[q])
      BY <3>2, ReverseOf
    <3>4. /\ _pool'[q] \in Seq(Stored) /\ Once(_pool'[q]) /\ Len(_pool'[q]) = Len(_pool[q])
          /\ Conns(_pool'[q]) = Conns(_pool[q])
      BY <1>11, <2>2, <3>2, <3>3
    <3>5. Len(_pool'[q]) <= Len(_pool[q])
      BY <3>2, <3>4
    <3> QED BY <1>18, <3>1, <3>4, <3>5
  <2> QED BY <2>1, <2>2
<1>24. _pool' \in [Pool -> Seq(Stored)]
  BY <1>12, <1>23
<1>25. failed \subseteq failed' /\ failed' \subseteq failed \cup G
  BY <1>13, <1>18
<1> QED BY <1>13, <1>14, <1>21, <1>23, <1>24, <1>25, StacksStep

---------------------------------------------------------------------------
(* The invariant, and what follows from it.                                *)

LEMMA InitIInv == Init => IInv
<1> SUFFICES ASSUME Init PROVE IInv
  OBVIOUS
<1>1. DOMAIN <<>> = {} /\ <<>> \in Seq(Stored) /\ Len(<<>>) = 0
  BY EmptySeq
<1>2. \A p \in Pool : /\ _pool[p] = <<>> /\ Once(_pool[p]) /\ Conns(_pool[p]) = {}
                      /\ Len(_pool[p]) <= _maxPerHost
  BY <1>1, PoolAssumption DEF Init, Once, Conns
<1>3. TypeOK
  BY <1>1, PoolAssumption DEF Init, TypeOK
<1>4. StacksApart /\ HeldApart /\ StoredClean /\ Owned
  BY <1>2 DEF Init, StacksApart, HeldApart, StoredClean, Owned
<1>5. Stages
  BY DEF Init, Stages
<1> QED BY <1>3, <1>4, <1>5 DEF IInv

LEMMA NextIInv == IInv /\ [Next]_vars => IInv'
<1> SUFFICES ASSUME IInv, [Next]_vars PROVE IInv'
  OBVIOUS
<1>1. ASSUME NEW s \in Scoped, NEW h \in Host, get(s, h) PROVE IInv'
  BY <1>1, GetStep
<1>2. ASSUME NEW s \in Scoped, Connect(s) PROVE IInv'
  BY <1>2, ConnectStep
<1>3. ASSUME NEW s \in Scoped, _finishCreate(s) PROVE IInv'
  BY <1>3, CreateStep
<1>4. ASSUME NEW s \in Scoped, RunHooks(s) PROVE IInv'
  BY <1>4, HooksStep
<1>5. ASSUME NEW s \in Scoped, Use(s) PROVE IInv'
  BY <1>5, UseStep
<1>6. ASSUME NEW s \in Scoped, done(s) PROVE IInv'
  BY <1>6, DoneStep
<1>7. ASSUME NEW s \in Scoped, kill(s) PROVE IInv'
  BY <1>7, KillStep
<1>8. ASSUME NEW s \in Scoped, Destroy(s) PROVE IInv'
  BY <1>8, DestroyStep
<1>9. ASSUME NEW s \in Scoped, NEW n \in Scoped, steal(s, n) PROVE IInv'
  BY <1>9, StealStep
<1>10. ASSUME flush PROVE IInv'
  BY <1>10, FlushStep
<1>11. ASSUME NEW p \in Pool, FlushThrows(p) PROVE IInv'
  BY <1>11, FlushThrowsStep
<1>12. ASSUME Tick PROVE IInv'
  BY <1>12, TickStep
<1>13. CASE UNCHANGED vars
  <2>1. /\ _pool' = _pool /\ _created' = _created /\ open' = open /\ failed' = failed
        /\ dirty' = dirty /\ pc' = pc /\ _host' = _host /\ _conn' = _conn /\ lost' = lost
    BY <1>13 DEF vars, poolVars, connVars, scopedVars
  <2> QED BY <2>1 DEF IInv, TypeOK, StacksApart, HeldApart, StoredClean, Stages, Owned
<1> QED BY <1>1, <1>2, <1>3, <1>4, <1>5, <1>6, <1>7, <1>8, <1>9, <1>10, <1>11, <1>12, <1>13 DEF Next

LEMMA Inductive == Spec => []IInv
BY InitIInv, NextIInv, PTL DEF Spec

LEMMA AtMostOne ==
  ASSUME NEW T, \A x, y \in T : x = y
  PROVE  Cardinality(T) \in {0, 1} /\ (T = {} => Cardinality(T) = 0)
<1>1. CASE T = {}
  BY <1>1, FS_EmptySet
<1>2. ASSUME NEW x \in T PROVE Cardinality(T) = 1
  <2>1. T = {x}
    BY <1>2
  <2> QED BY <2>1, FS_Singleton
<1> QED BY <1>1, <1>2

\* The places of a connection are where its stack has it.
LEMMA PlacesOf ==
  ASSUME IInv, NEW c \in Conn
  PROVE  /\ \A a, b \in Places(c) : a = b
         /\ Places(c) # {} => \E p \in Pool : c \in Conns(_pool[p])
         /\ \A p \in Pool : c \in Conns(_pool[p]) => Places(c) # {}
<1>1. \A p \in Pool : /\ Len(_pool[p]) \in Nat /\ Len(_pool[p]) <= _maxPerHost
                      /\ DOMAIN _pool[p] = 1..Len(_pool[p])
                      /\ Once(_pool[p])
  BY PoolFacts, StackFacts
<1>2. ASSUME NEW a \in Places(c)
      PROVE  a[1] \in Pool /\ a[2] \in DOMAIN _pool[a[1]] /\ _pool[a[1]][a[2]].conn = c
             /\ a = <<a[1], a[2]>>
  <2>1. a[1] \in Pool /\ a[2] \in 1.._maxPerHost /\ a = <<a[1], a[2]>>
        /\ a[2] <= Len(_pool[a[1]]) /\ _pool[a[1]][a[2]].conn = c
    BY DEF Places
  <2>2. a[2] \in 1..Len(_pool[a[1]])
    BY <1>1, <2>1, PoolAssumption
  <2> QED BY <1>1, <2>1, <2>2
<1>3. \A a \in Places(c) : c \in Conns(_pool[a[1]])
  BY <1>2 DEF Conns
<1>4. ASSUME NEW a \in Places(c), NEW b \in Places(c) PROVE a = b
  <2>1. a[1] = b[1]
    BY <1>2, <1>3 DEF IInv, StacksApart
  <2>2. a[2] = b[2]
    BY <1>1, <1>2, <2>1 DEF Once
  <2> QED BY <1>2, <2>1, <2>2
<1>5. ASSUME NEW p \in Pool, c \in Conns(_pool[p]) PROVE Places(c) # {}
  <2>1. PICK i \in 1..Len(_pool[p]) : _pool[p][i].conn = c
    BY <1>1, <1>5 DEF Conns
  <2>2. i \in 1.._maxPerHost /\ i <= Len(_pool[p])
    BY <1>1, PoolAssumption
  <2>3. <<p, i>> \in Places(c)
    BY <2>1, <2>2 DEF Places
  <2> QED BY <2>3
<1> QED BY <1>2, <1>3, <1>4, <1>5

\* The types of the pools, of the connections and of those who hold them.
THEOREM TypeCorrect == Spec => []TypeOK
<1>1. IInv => TypeOK
  BY DEF IInv
<1> QED BY <1>1, Inductive, PTL

\* A connection is never in two places: in two stacks, twice in a stack, with
\* two scoped connections, or stored and handed out; and a closed one is nowhere.
THEOREM ConnectionHasOneUser == Spec => []OneUser
<1>1. ASSUME IInv PROVE OneUser
  <2>1. ASSUME NEW c \in Conn, NEW s \in Scoped, _conn[s] = c
        PROVE  /\ c \in open /\ Held(c) = {s} /\ \A p \in Pool : c \notin Conns(_pool[p])
    <3>1. c # NoConn
      BY PoolAssumption
    <3> QED BY <1>1, <2>1, <3>1 DEF IInv, HeldApart, Held
  <2>2. ASSUME NEW c \in Conn
        PROVE  Cardinality(Held(c)) + Cardinality(Places(c)) <= 1
    <3>1. \A s, t \in Held(c) : s = t
      BY <2>1 DEF Held
    <3>2. Held(c) # {} => Places(c) = {}
      BY <1>1, <2>1, PlacesOf DEF Held
    <3>3. /\ Cardinality(Held(c)) \in {0, 1} /\ (Held(c) = {} => Cardinality(Held(c)) = 0)
      BY <3>1, AtMostOne
    <3>4. /\ Cardinality(Places(c)) \in {0, 1} /\ (Places(c) = {} => Cardinality(Places(c)) = 0)
      BY <1>1, PlacesOf, AtMostOne
    <3> QED BY <3>2, <3>3, <3>4
  <2>3. ASSUME NEW c \in Conn \ open PROVE Held(c) = {} /\ Places(c) = {}
    <3>1. Held(c) = {}
      BY <2>1 DEF Held
    <3>2. \A p \in Pool : c \notin Conns(_pool[p])
      BY <1>1 DEF IInv, StoredClean
    <3> QED BY <1>1, <3>1, <3>2, PlacesOf
  <2> QED BY <2>2, <2>3 DEF OneUser
<1> QED BY <1>1, Inductive, PTL

\* What is stored, or was just handed out, has no unread reply and did not fail;
\* no stack is higher than the pool allows, and who hands out has made one.
THEOREM NoOldReply == Spec => []NoOldReplies
<1>1. ASSUME IInv PROVE NoOldReplies
  <2>1. \A p \in Pool : Conns(_pool[p]) \cap (dirty \cup failed) = {}
    BY <1>1 DEF IInv, StoredClean
  <2>2. \A p \in Pool : Len(_pool[p]) <= _maxPerHost
    BY <1>1, PoolFacts
  <2>3. \A s \in Scoped : pc[s] = "hooks" => /\ _conn[s] \in open \ (dirty \cup failed)
                                             /\ _created[PoolOf[_host[s]]] > 0
    BY <1>1 DEF IInv, Stages, HeldApart
  <2> QED BY <2>1, <2>2, <2>3 DEF NoOldReplies
<1> QED BY <1>1, Inductive, PTL

\* Every open connection is stored or somebody's, or the pool forgot it when a
\* hook or an isMaster threw.
THEOREM NothingLeaks == Spec => []NoneLeaked
<1>1. ASSUME IInv PROVE NoneLeaked
  <2> SUFFICES ASSUME NEW c \in open PROVE Held(c) # {} \/ Places(c) # {} \/ c \in lost
    BY DEF NoneLeaked
  <2>1. c \in Conn
    BY <1>1 DEF IInv, TypeOK
  <2>2. \A p \in Pool : c \in Conns(_pool[p]) => Places(c) # {}
    BY <1>1, <2>1, PlacesOf
  <2> QED BY <1>1, <2>2 DEF IInv, Owned, Held
<1> QED BY <1>1, Inductive, PTL
=============================================================================
