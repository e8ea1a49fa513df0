-------------------------- MODULE ReplicaSetProofs --------------------------
(***************************************************************************)
(* What the replica set monitor guarantees for any number of hosts and     *)
(* clients, and any number of changes of the set.                          *)
(***************************************************************************)
EXTENDS ReplicaSet, SequenceTheorems, FiniteSetTheorems, TLAPS

\* A thread that has an index into _nodes, and a loop that has not ended.
Indexes ==
    \A t \in Thread :
      /\ pc[t] \in {"wait", "status", "set"} => node[t] \in DOMAIN _nodes
      /\ pc[t] \in {"wait", "status"} /\ from[t] # "first" => i[t] \in DOMAIN _nodes

\* A query on a slave has tries left.
TriesLeft ==
    \A c \in Client : pc[c] \in {"pick", "connect slave", "query", "blame"} => tries[c] < 2

\* One thread at a time has _checkConnectionLock, and what the member it asks has
\* said stays true until _master is written.
Heard ==
    \A t \in Thread :
      /\ pc[t] = "status" => cc.by = t /\ (cc.isMaster => _nodes[node[t]] \in answered)
      /\ pc[t] = "set" => _nodes[node[t]] \in answered

IInv ==
    /\ TypeOK
    /\ IsInjective(_nodes)
    /\ Indexes
    /\ TriesLeft
    /\ Heard
    /\ MasterHadAnswered

---------------------------------------------------------------------------
(* Lists without repetitions.                                              *)

\* A list without repetitions has as many elements as it is long.
LEMMA OnceCounted ==
  ASSUME NEW S, NEW s \in Seq(S), IsInjective(s)
  PROVE  IsFiniteSet(Range(s)) /\ Cardinality(Range(s)) = Len(s)
<1>1. DOMAIN s = 1..Len(s) /\ Len(s) \in Nat /\ s \in [1..Len(s) -> S]
  BY LenProperties
<1>2. s \in Bijection(1..Len(s), Range(s))
  BY <1>1 DEF Bijection, Injection, Surjection, Range, IsInjective
<1>3. ExistsBijection(1..Len(s), Range(s))
  BY <1>2 DEF ExistsBijection
<1> QED BY <1>1, <1>3, FS_CountingElements, FS_NatBijection

\* One list appended to another with which it has nothing in common.
LEMMA ConcatOnce ==
  ASSUME NEW S, NEW s \in Seq(S), NEW r \in Seq(S), IsInjective(s), IsInjective(r),
         Range(s) \cap Range(r) = {}
  PROVE  /\ s \o r \in Seq(S)
         /\ IsInjective(s \o r)
         /\ Len(s \o r) = Len(s) + Len(r)
         /\ \A k \in 1..Len(s) : (s \o r)[k] = s[k]
         /\ Range(s \o r) = Range(s) \cup Range(r)
         /\ IsPrefix(s, s \o r)
<1> DEFINE t == s \o r
<1>1. /\ Len(s) \in Nat /\ DOMAIN s = 1..Len(s) /\ Len(r) \in Nat /\ DOMAIN r = 1..Len(r)
      /\ \A k \in 1..Len(s) : s[k] \in S
  BY LenProperties, ElementOfSeq
<1>2. /\ t \in Seq(S) /\ Len(t) = Len(s) + Len(r)
      /\ \A k \in 1..(Len(s) + Len(r)) : t[k] = IF k <= Len(s) THEN s[k] ELSE r[k - Len(s)]
  BY ConcatProperties
<1>3. DOMAIN t = 1..Len(t)
  BY <1>2, LenProperties
<1> HIDE DEF t
<1>4. \A k \in 1..Len(s) : k \in DOMAIN t /\ t[k] = s[k]
  BY <1>1, <1>2, <1>3
<1>5. \A k \in 1..Len(r) : k + Len(s) \in DOMAIN t /\ t[k + Len(s)] = r[k]
  <2> SUFFICES ASSUME NEW k \in 1..Len(r) PROVE k + Len(s) \in DOMAIN t /\ t[k + Len(s)] = r[k]
    OBVIOUS
  <2>1. k + Len(s) \in 1..(Len(s) + Len(r)) /\ ~(k + Len(s) <= Len(s)) /\ k + Len(s) - Len(s) = k
    BY <1>1
  <2> QED BY <1>2, <1>3, <2>1
<1>6. ASSUME NEW k \in DOMAIN t
      PROVE  \/ k \in 1..Len(s) /\ t[k] = s[k]
             \/ k - Len(s) \in 1..Len(r) /\ t[k] = r[k - Len(s)] /\ k \in Int
  <2>1. k \in 1..(Len(s) + Len(r))
    BY <1>2, <1>3
  <2>2. k \in 1..Len(s) \/ (k - Len(s) \in 1..Len(r) /\ ~(k <= Len(s)))
    BY <2>1, <1>1
  <2> QED BY <1>1, <1>2, <2>1, <2>2
<1>7. Range(t) = Range(s) \cup Range(r)
  <2>1. ASSUME NEW x \in Range(t) PROVE x \in Range(s) \cup Range(r)
    BY <1>1, <1>6 DEF Range
  <2>2. ASSUME NEW x \in Range(s) PROVE x \in Range(t)
    BY <1>1, <1>4 DEF Range
  <2>3. ASSUME NEW x \in Range(r) PROVE x \in Range(t)
    BY <1>1, <1>5 DEF Range
  <2> QED BY <2>1, <2>2, <2>3
<1>8. IsInjective(t)
  <2> SUFFICES ASSUME NEW j \in DOMAIN t, NEW k \in DOMAIN t, t[j] = t[k] PROVE j = k
    BY DEF IsInjective
  <2>1. \A a \in 1..Len(s), b \in 1..Len(r) : s[a] # r[b]
    BY <1>1 DEF Range
  <2>2. CASE j \in 1..Len(s) /\ t[j] = s[j] /\ k \in 1..Len(s) /\ t[k] = s[k]
    BY <1>1, <2>2 DEF IsInjective
  <2>3. CASE /\ j - Len(s) \in 1..Len(r) /\ t[j] = r[j - Len(s)] /\ j \in Int
             /\ k - Len(s) \in 1..Len(r) /\ t[k] = r[k - Len(s)] /\ k \in Int
    <3>1. j - Len(s) = k - Len(s)
      BY <1>1, <2>3 DEF IsInjective
    <3> QED BY <1>1, <2>3, <3>1
  <2> QED BY <1>6, <2>1, <2>2, <2>3
<1>9. IsPrefix(s, t)
  <2>1. Len(s) <= Len(t)
    BY <1>1, <1>2
  <2>2. SubSeq(s, 1, Len(s)) = SubSeq(t, 1, Len(s))
    BY <1>1, <1>4
  <2> QED BY <2>1, <2>2 DEF IsPrefix
<1> QED BY <1>2, <1>4, <1>7, <1>8, <1>9 DEF t

\* The listings of a set.
LEMMA ListingOnce ==
  ASSUME NEW S, NEW T \in SUBSET S, IsFiniteSet(T), NEW s \in SetToSeqs(T)
  PROVE  s \in Seq(S) /\ IsInjective(s) /\ Range(s) \subseteq T
<1>1. Cardinality(T) \in Nat
  BY FS_CardinalityType
<1>2. s \in [1..Cardinality(T) -> T] /\ \A j, k \in 1..Cardinality(T) : j # k => s[j] # s[k]
  BY DEF SetToSeqs
<1>3. s \in [1..Cardinality(T) -> S]
  BY <1>2
<1> QED BY <1>1, <1>2, <1>3, SeqDef DEF IsInjective, Range

\* Any set of numbers has a least element, which Min finds.
LEMMA MinIsLeast ==
  ASSUME NEW T \in SUBSET Nat, T # {}
  PROVE  Min(T) \in T /\ \A y \in T : Min(T) <= y
<1>1. PICK x \in T : \A y \in T : ~ (<<y, x>> \in OpToRel(<, Nat))
  BY WFMin, NatLessThanWellFounded
<1>2. ASSUME NEW y \in T PROVE x <= y
  <2>1. <<y, x>> \notin {ss \in Nat \X Nat : ss[1] < ss[2]}
    BY <1>1 DEF OpToRel
  <2> QED BY <2>1
<1> QED BY <1>1, <1>2 DEF Min

\* A listing of a set has all its elements.
LEMMA ListingComplete ==
  ASSUME NEW T, IsFiniteSet(T), NEW s \in SetToSeqs(T)
  PROVE  Range(s) = T
<1>1. Cardinality(T) \in Nat
  BY FS_CardinalityType
<1>2. s \in Injection(1..Cardinality(T), T)
  BY DEF SetToSeqs, Injection, IsInjective
<1>3. Cardinality(1..Cardinality(T)) = Cardinality(T)
  BY <1>1, FS_Interval
<1>4. s \in Surjection(1..Cardinality(T), T)
  BY <1>2, <1>3, FS_Injection
<1> QED BY <1>4 DEF Surjection, Range

---------------------------------------------------------------------------
(* The monitor's operations.                                               *)

Places == {"idle", "first", "scan", "wait", "status", "set", "got", "ask", "notify",
           "connect", "caught", "use", "slave", "pick", "connect slave", "blame", "query"}

\* Who is told of hosts keeps the nodes it has, in their place, and has none twice.
LEMMA HostsAdded ==
  ASSUME NEW nodes \in Seq(Host), IsInjective(nodes), config \subseteq Host, NEW new \in _checkHosts(nodes)
  PROVE  /\ new \in Seq(Host) /\ IsInjective(new) /\ IsPrefix(nodes, new)
         /\ DOMAIN new = 1..Len(new) /\ DOMAIN nodes = 1..Len(nodes) /\ Len(nodes) \in Nat /\ Len(new) \in Nat
         /\ Len(nodes) <= Len(new) /\ Len(new) <= Cardinality(Host)
         /\ \A k \in DOMAIN nodes : k \in DOMAIN new /\ new[k] = nodes[k]
         /\ Range(nodes) \subseteq Range(new)
         /\ Cardinality(Range(new)) = Len(new)
<1>1. PICK more \in SetToSeqs(config \ Range(nodes)) : new = nodes \o more
  BY DEF _checkHosts
<1>2. IsFiniteSet(config \ Range(nodes))
  BY FS_Subset, MonitorAssumption
<1>3. more \in Seq(Host) /\ IsInjective(more) /\ Range(more) \cap Range(nodes) = {}
  <2>1. config \ Range(nodes) \in SUBSET Host
    OBVIOUS
  <2>2. more \in Seq(Host) /\ IsInjective(more) /\ Range(more) \subseteq config \ Range(nodes)
    BY <1>2, <2>1, ListingOnce
  <2> QED BY <2>2
<1>4. /\ new \in Seq(Host) /\ IsInjective(new) /\ Len(new) = Len(nodes) + Len(more)
      /\ \A k \in 1..Len(nodes) : new[k] = nodes[k]
      /\ Range(new) = Range(nodes) \cup Range(more) /\ IsPrefix(nodes, new)
  BY <1>1, <1>3, ConcatOnce
<1>5. /\ DOMAIN new = 1..Len(new) /\ DOMAIN nodes = 1..Len(nodes)
      /\ Len(nodes) \in Nat /\ Len(more) \in Nat /\ Len(new) \in Nat
  BY <1>3, <1>4, LenProperties
<1>6. Cardinality(Range(new)) = Len(new)
  BY <1>4, OnceCounted
<1>7. Range(new) \subseteq Host
  BY <1>4, <1>5, ElementOfSeq DEF Range
<1>8. Len(new) <= Cardinality(Host)
  BY <1>6, <1>7, FS_Subset, MonitorAssumption
<1> QED BY <1>4, <1>5, <1>6, <1>8

\* What the answer of _checkConnection makes of the thread that asked.
LEMMA AnswerTo ==
  ASSUME TypeOK, Indexes, NEW t \in Thread, pc[t] \in {"wait", "status"},
         NEW isMaster \in BOOLEAN, NEW primary \in Host \cup {None}, Answer(t, isMaster, primary)
  PROVE  /\ pc' \in [Thread -> Places]
         /\ i' \in [Thread -> 1..(Cardinality(Host) + 1)] /\ retry' \in [Thread -> 0..1]
         /\ quick' \in [Thread -> BOOLEAN]
         /\ node' \in [Thread -> 0..Len(_nodes)]
         /\ from' \in [Thread -> {"first", "scan", "quick"}]
         /\ \A u \in Thread \ {t} : pc'[u] = pc[u] /\ node'[u] = node[u] /\ from'[u] = from[u] /\ i'[u] = i[u]
         /\ \/ pc'[t] \in {"idle", "got", "scan"}
            \/ pc'[t] = "set" /\ isMaster /\ node'[t] = node[t]
            \/ pc'[t] = "wait" /\ node'[t] \in DOMAIN _nodes /\ i'[t] \in DOMAIN _nodes
<1> USE DEF Goes
<1>0. Len(_nodes) \in Nat /\ DOMAIN _nodes = 1..Len(_nodes) /\ Cardinality(Host) \in Nat
  BY LenProperties, FS_CardinalityType, MonitorAssumption DEF TypeOK
<1>t. /\ pc \in [Thread -> Places] /\ i \in [Thread -> 1..(Cardinality(Host) + 1)] /\ retry \in [Thread -> 0..1]
      /\ quick \in [Thread -> BOOLEAN] /\ node \in [Thread -> 0..Len(_nodes)]
      /\ from \in [Thread -> {"first", "scan", "quick"}]
  BY DEF TypeOK, Places
<1>r. 1 \in 1..(Cardinality(Host) + 1) /\ 0 \in 0..1 /\ 0 \in 0..Len(_nodes)
      /\ \A k \in DOMAIN _nodes : k \in 0..Len(_nodes)
  BY <1>0
<1>1. CASE isMaster /\ from[t] = "first" /\ CheckReturns(t)
  BY <1>r, <1>t, <1>1 DEF CheckReturns, Places
<1>2. CASE isMaster /\ Goes(t, "set") /\ UNCHANGED <<i, retry, quick, node, from>>
  BY <1>t, <1>2 DEF Places
<1>3. CASE ~isMaster /\ Scan(t) /\ UNCHANGED <<node, from>>
  BY <1>r, <1>t, <1>3 DEF Scan, Places
<1>4. CASE /\ ~isMaster /\ from[t] = "scan" /\ ~quick[t] /\ primary \in Range(_nodes)
           /\ quick' = [quick EXCEPT ![t] = TRUE]
           /\ node' = [node EXCEPT ![t] = _find(primary)]
           /\ from' = [from EXCEPT ![t] = "quick"]
           /\ Goes(t, "wait")
           /\ UNCHANGED <<i, retry>>
  <2>1. \E x \in DOMAIN _nodes : _nodes[x] = primary
    BY <1>4 DEF Range
  <2>2. _find(primary) \in DOMAIN _nodes
    BY <1>4, <2>1 DEF _find
  <2>3. i[t] \in DOMAIN _nodes
    BY <1>4 DEF Indexes
  <2> QED BY <1>r, <1>t, <1>4, <2>2, <2>3 DEF Places
<1>5. CASE /\ ~isMaster /\ from[t] # "first"
           /\ i' = [i EXCEPT ![t] = @ + 1]
           /\ Goes(t, "scan")
           /\ UNCHANGED <<retry, quick, node, from>>
  <2>1. i[t] \in DOMAIN _nodes /\ Len(_nodes) <= Cardinality(Host)
    BY <1>5 DEF Indexes, TypeOK
  <2>2. i[t] + 1 \in 1..(Cardinality(Host) + 1)
    BY <1>0, <2>1
  <2>3. i' \in [Thread -> 1..(Cardinality(Host) + 1)]
    BY <1>t, <1>5, <2>2
  <2> QED BY <1>t, <1>5, <2>3 DEF Places
<1> QED BY <1>1, <1>2, <1>3, <1>4, <1>5 DEF Answer

\* getSlave's index and host.
LEMMA SlaveFound ==
  ASSUME TypeOK, getSlaveNext
  PROVE  /\ _nextSlave' \in 1..Cardinality(Host) /\ wild' \in BOOLEAN
         /\ ~wild' => getSlave \in Host
<1>0. Len(_nodes) \in Nat /\ DOMAIN _nodes = 1..Len(_nodes) /\ Cardinality(Host) \in Nat /\ Len(_nodes) <= Cardinality(Host)
      /\ \A k \in 1..Len(_nodes) : _nodes[k] \in Host
  BY LenProperties, ElementOfSeq, FS_CardinalityType, MonitorAssumption DEF TypeOK
<1>1. CASE _nodes = <<>>
  BY <1>1 DEF getSlaveNext, TypeOK
<1>2. CASE _nodes # <<>>
  <2>1. Len(_nodes) > 0
    <3>1. _nodes \in Seq(Host)
      BY DEF TypeOK
    <3>2. Len(_nodes) # 0
      BY <1>2, <3>1, EmptySeq
    <3> QED BY <1>0, <3>2
  <2>2. \A k \in Int : Ring(k) \in 1..Len(_nodes)
    <3> SUFFICES ASSUME NEW k \in Int PROVE Ring(k) \in 1..Len(_nodes)
      OBVIOUS
    <3>0. _nextSlave \in Int
      <4>1. _nextSlave \in 1..Cardinality(Host)
        BY DEF TypeOK
      <4> QED BY <1>0, <4>1
    <3>1. _nextSlave - 1 + k \in Int
      BY <3>0
    <3> DEFINE a == _nextSlave - 1 + k
               b == Len(_nodes)
    <3> HIDE DEF a, b
    <3>2. a \in Int /\ b \in Nat \ {0}
      BY <1>0, <2>1, <3>1 DEF a, b
    <3>3. a % b \in 0..(b - 1)
      BY <3>2
    <3>4. (a % b) + 1 \in 1..b
      BY <3>2, <3>3
    <3> QED BY <3>4 DEF Ring, a, b
  <2>3. Slaves # {} => Min(Slaves) \in Nat
    <3>1. Slaves \in SUBSET Nat
      BY <1>0 DEF Slaves
    <3> QED BY <3>1, MinIsLeast
  <2>4. _nextSlave' \in 1..Cardinality(Host) /\ wild' \in BOOLEAN
    <3>1. CASE Slaves = {}
      BY <1>2, <3>1 DEF getSlaveNext, TypeOK
    <3>2. CASE Slaves # {}
      <4>1. _nextSlave' = Ring(Min(Slaves)) /\ wild' = wild
        BY <1>2, <3>2 DEF getSlaveNext
      <4>2. Ring(Min(Slaves)) \in 1..Len(_nodes)
        BY <2>2, <2>3, <3>2
      <4>3. Ring(Min(Slaves)) \in 1..Cardinality(Host)
        BY <1>0, <4>2
      <4>4. wild \in BOOLEAN
        BY DEF TypeOK
      <4> QED BY <4>1, <4>3, <4>4
    <3> QED BY <3>1, <3>2
  <2>5. getSlave \in Host
    <3>1. CASE Slaves = {}
      BY <1>0, <2>1, <3>1 DEF getSlave
    <3>2. CASE Slaves # {}
      <4>1. Ring(Min(Slaves)) \in 1..Len(_nodes)
        BY <2>2, <2>3, <3>2
      <4> QED BY <1>0, <3>2, <4>1 DEF getSlave
    <3> QED BY <3>1, <3>2
  <2> QED BY <2>4, <2>5
<1> QED BY <1>1, <1>2

---------------------------------------------------------------------------
(* Types.                                                                  *)

Conns == [host: Host \cup {None}, conn: {"none", "good", "failed"}]

\* What the monitor's steps change, and what the clients' do.
MonitorTypes ==
    /\ _nodes \in Seq(Host) /\ Len(_nodes) <= Cardinality(Host) /\ ok \subseteq Range(_nodes)
    /\ _master \in 0..Len(_nodes)
    /\ cc \in [by: Thread \cup {None}, isMaster: BOOLEAN, primary: Host \cup {None}]
    /\ node \in [Thread -> 0..Len(_nodes)]
    /\ answered \subseteq Host

LoopTypes ==
    /\ pc \in [Thread -> Places]
    /\ i \in [Thread -> 1..(Cardinality(Host) + 1)] /\ retry \in [Thread -> 0..1]
    /\ quick \in [Thread -> BOOLEAN]
    /\ from \in [Thread -> {"first", "scan", "quick"}]

ClientTypes ==
    /\ _nextSlave \in 1..Cardinality(Host)
    /\ call \in [Client -> 1..2] /\ tries \in [Client -> 0..2]
    /\ master \in [Client -> Conns] /\ slave \in [Client -> Conns]
    /\ wild \in BOOLEAN

SetTypes ==
    /\ role \in [Host -> Roles] /\ config \subseteq Host /\ changes \in 0..MaxChanges

LEMMA TypeParts == TypeOK <=> MonitorTypes /\ LoopTypes /\ ClientTypes /\ SetTypes
  BY DEF TypeOK, MonitorTypes, LoopTypes, ClientTypes, SetTypes, Places, Conns

LEMMA TypePartsNext == TypeOK' <=> MonitorTypes' /\ LoopTypes' /\ ClientTypes' /\ SetTypes'
  BY TypeParts, PTL

LEMMA Numbers ==
  ASSUME TypeOK
  PROVE  /\ Len(_nodes) \in Nat /\ DOMAIN _nodes = 1..Len(_nodes) /\ Cardinality(Host) \in Nat
         /\ \A k \in DOMAIN _nodes : _nodes[k] \in Host /\ k \in 0..Len(_nodes) /\ k # 0
         /\ 0 \in 0..Len(_nodes) /\ 1 \in 1..(Cardinality(Host) + 1)
         /\ (_master > 0 <=> _master \in DOMAIN _nodes) /\ ~(0 > 0)
<1>1. /\ Len(_nodes) \in Nat /\ DOMAIN _nodes = 1..Len(_nodes) /\ Cardinality(Host) \in Nat
      /\ \A k \in 1..Len(_nodes) : _nodes[k] \in Host
  BY LenProperties, ElementOfSeq, FS_CardinalityType, MonitorAssumption DEF TypeOK
<1>2. _master \in 0..Len(_nodes)
  BY DEF TypeOK
<1>3. 0 \in 0..Len(_nodes) /\ 1 \in 1..(Cardinality(Host) + 1)
  BY <1>1
<1>4. _master > 0 <=> _master \in 1..Len(_nodes)
  BY <1>1, <1>2
<1>5. \A k \in 1..Len(_nodes) : k \in 0..Len(_nodes) /\ k # 0
  BY <1>1
<1> QED BY <1>1, <1>3, <1>4, <1>5

LEMMA InitIInv == Init => IInv
<1> SUFFICES ASSUME Init PROVE IInv
  OBVIOUS
<1>0. Cardinality(Host) \in Nat /\ Cardinality(Host) >= 1
  <2>1. Cardinality(Host) \in Nat
    BY FS_CardinalityType, MonitorAssumption
  <2>2. Host # {}
    <3>1. Seeds \in Seq(Host) /\ Seeds # <<>>
      BY MonitorAssumption
    <3>2. Head(Seeds) \in Host
      BY <3>1, HeadTailProperties
    <3> QED BY <3>2
  <2>3. Cardinality(Host) # 0
    BY <2>2, FS_EmptySet, MonitorAssumption
  <2> QED BY <2>1, <2>3
<1>1. _nodes \in Seq(Host) /\ Len(_nodes) <= Cardinality(Host) /\ ok \subseteq Range(_nodes) /\ IsInjective(_nodes)
  <2>1. CASE _nodes = <<>> /\ ok = {}
    BY <1>0, <2>1, EmptySeq DEF IsInjective
  <2>2. ASSUME NEW k \in DOMAIN Seeds, _nodes \in _checkHosts(<<Seeds[k]>>), ok = config \cap ({Seeds[k]} \cup Readable)
        PROVE  _nodes \in Seq(Host) /\ Len(_nodes) <= Cardinality(Host) /\ ok \subseteq Range(_nodes) /\ IsInjective(_nodes)
    <3> DEFINE h == Seeds[k]
               one == <<h>>
    <3>1. h \in Host
      BY ElementOfSeq, LenProperties, MonitorAssumption
    <3>2. one \in Seq(Host) /\ IsInjective(one) /\ Range(one) = {h}
      BY <3>1 DEF IsInjective, Range
    <3>3. config \subseteq Host /\ _nodes \in _checkHosts(one)
      BY <2>2 DEF Init
    <3> HIDE DEF h, one
    <3>4. PICK more \in SetToSeqs(config \ {h}) : _nodes = one \o more
      BY <3>2, <3>3 DEF _checkHosts
    <3>5. /\ _nodes \in Seq(Host) /\ IsInjective(_nodes) /\ Len(_nodes) <= Cardinality(Host)
      BY <3>2, <3>3, HostsAdded
    <3>6. Range(_nodes) = {h} \cup Range(more)
      <4>1. IsFiniteSet(config \ {h}) /\ config \ {h} \in SUBSET Host
        BY <3>3, FS_Subset, MonitorAssumption
      <4>2. more \in Seq(Host) /\ IsInjective(more) /\ Range(more) \subseteq config \ {h}
        BY <3>4, <4>1, ListingOnce
      <4>3. Range(one) \cap Range(more) = {}
        BY <3>2, <4>2
      <4> QED BY <3>2, <3>4, <4>2, <4>3, ConcatOnce
    <3>7. config \ {h} \subseteq Range(more)
      BY <3>3, <3>4, FS_Subset, MonitorAssumption, ListingComplete
    <3> QED BY <2>2, <3>5, <3>6, <3>7 DEF h
  <2> QED BY <2>1, <2>2 DEF Init
<1>2. TypeOK
  <2>1. MonitorTypes
    <3>1. Len(_nodes) \in Nat
      BY <1>1, LenProperties
    <3>2. 0 \in 0..Len(_nodes)
      BY <3>1
    <3> QED BY <1>1, <3>2 DEF Init, MonitorTypes, Idle
  <2>2. LoopTypes
    BY <1>0 DEF Init, LoopTypes, Places
  <2>3. ClientTypes
    <3>1. NoConn \in Conns
      BY DEF NoConn, Conns
    <3>2. 1 \in 1..Cardinality(Host) /\ 1 \in 1..2 /\ 0 \in 0..2
      BY <1>0
    <3>3. master \in [Client -> Conns] /\ slave \in [Client -> Conns]
      BY <3>1 DEF Init
    <3>4. _nextSlave \in 1..Cardinality(Host) /\ call \in [Client -> 1..2] /\ tries \in [Client -> 0..2] /\ wild \in BOOLEAN
      BY <3>2 DEF Init
    <3> QED BY <3>3, <3>4 DEF ClientTypes
  <2>4. SetTypes
    BY MonitorAssumption DEF Init, SetTypes
  <2> QED BY <2>1, <2>2, <2>3, <2>4, TypeParts
<1>3. Indexes /\ TriesLeft /\ Heard /\ MasterHadAnswered
  BY DEF Init, Indexes, TriesLeft, Heard, MasterHadAnswered, Thread
<1> QED BY <1>1, <1>2, <1>3 DEF IInv

---------------------------------------------------------------------------
(* Steps.                                                                  *)

\* A step of one thread that leaves the nodes in their place, takes back nothing
\* that a host has said, and does not write _master but to reset it.
LEMMA OneMoves ==
  ASSUME IInv, NEW t \in Thread,
         \A k \in DOMAIN _nodes : k \in DOMAIN _nodes' /\ _nodes'[k] = _nodes[k],
         answered \subseteq answered',
         \A u \in Thread \ {t} :
           /\ pc'[u] = pc[u] /\ node'[u] = node[u] /\ from'[u] = from[u] /\ i'[u] = i[u]
           /\ pc[u] = "status" => cc' = cc,
         pc'[t] \in {"wait", "status", "set"} => node'[t] \in DOMAIN _nodes',
         pc'[t] \in {"wait", "status"} /\ from'[t] # "first" => i'[t] \in DOMAIN _nodes',
         pc'[t] = "status" => cc'.by = t /\ (cc'.isMaster => _nodes'[node'[t]] \in answered'),
         pc'[t] = "set" => _nodes'[node'[t]] \in answered',
         _master' \in {0, _master} \/ _nodes'[_master'] \in answered'
  PROVE  Indexes' /\ Heard' /\ MasterHadAnswered'
<1> USE DEF IInv
<1>1. Indexes'
  BY DEF Indexes
<1>2. Heard'
  BY DEF Heard, Indexes
<1>3. MasterHadAnswered'
  BY Numbers DEF MasterHadAnswered
<1> QED BY <1>1, <1>2, <1>3

\* The same for a thread that is not in the middle of a check afterwards.
LEMMA ClientMoves ==
  ASSUME IInv, NEW t \in Thread, UNCHANGED <<_nodes, answered, cc, node, from>>,
         \A u \in Thread \ {t} : pc'[u] = pc[u] /\ i'[u] = i[u],
         pc'[t] \notin {"wait", "status", "set"},
         _master' \in {0, _master}
  PROVE  Indexes' /\ Heard' /\ MasterHadAnswered' /\ IsInjective(_nodes)'
  BY OneMoves DEF IInv

\* Where a step takes a client, and what becomes of its tries.
LEMMA TriesMove ==
  ASSUME IInv, NEW c \in Thread,
         \A u \in Client \ {c} : pc'[u] = pc[u] /\ tries'[u] = tries[u],
         c \in Client /\ pc'[c] \in {"pick", "connect slave", "query", "blame"} => tries'[c] < 2
  PROVE  TriesLeft'
  BY DEF IInv, TriesLeft, Thread

LEMMA NotifyTo ==
  ASSUME NEW h, MonitorTypes, notifyFailure(h)
  PROVE  ok' \subseteq ok /\ _master' \in {0, _master}
  BY DEF notifyFailure

LEMMA GotTo ==
  ASSUME LoopTypes, ClientTypes, NEW c \in Client, NEW h \in Host, Got(c, h)
  PROVE  /\ pc' \in [Thread -> Places] /\ call' \in [Client -> 1..2] /\ master' \in [Client -> Conns]
         /\ \A u \in Thread \ {c} : pc'[u] = pc[u]
         /\ pc'[c] \in {"use", "notify", "ask", "connect"}
<1> USE DEF Goes
<1>0. c \in Thread /\ 1 \in 1..2 /\ 2 \in 1..2
  BY DEF Thread
<1>1. CASE /\ Goes(c, IF master[c].conn = "good" THEN "use" ELSE "notify")
           /\ UNCHANGED <<call, master>>
  BY <1>0, <1>1 DEF LoopTypes, ClientTypes, Places
<1>2. CASE Goes(c, "ask") /\ call' = [call EXCEPT ![c] = 2] /\ UNCHANGED master
  BY <1>0, <1>2 DEF LoopTypes, ClientTypes, Places
<1>3. CASE /\ Goes(c, "connect") /\ master' = [master EXCEPT ![c].host = h]
           /\ call' = [call EXCEPT ![c] = 1]
  <2>1. master' \in [Client -> Conns]
    BY <1>3 DEF ClientTypes, Conns
  <2> QED BY <1>0, <1>3, <2>1 DEF LoopTypes, ClientTypes, Places
<1> QED BY <1>1, <1>2, <1>3 DEF Got

LEMMA ScanTo ==
  ASSUME LoopTypes, NEW t \in Thread, Scan(t), UNCHANGED from
  PROVE  /\ LoopTypes'
         /\ \A u \in Thread \ {t} : pc'[u] = pc[u] /\ i'[u] = i[u]
         /\ pc'[t] = "scan"
<1>1. Cardinality(Host) \in Nat
  BY FS_CardinalityType, MonitorAssumption
<1>2. 1 \in 1..(Cardinality(Host) + 1) /\ 0 \in 0..1
  BY <1>1
<1> QED BY <1>2 DEF LoopTypes, Scan, Goes, Places

\* The steps of an operation on the master.
LEMMA MasterStepKeeps ==
  ASSUME IInv, NEW c \in Client, MasterStep(c)
  PROVE  IInv'
<1> USE DEF Goes, rsVars, setVars, nodeVars
<1>0. /\ MonitorTypes /\ LoopTypes /\ ClientTypes /\ SetTypes /\ c \in Thread
  BY TypeParts DEF IInv, Thread
<1>1. UNCHANGED <<_nodes, answered, cc, node, from, tries, slave, _nextSlave, wild, role, config, changes>>
  BY DEF MasterStep, getMaster, getMasterChecked, MasterFailed, ConnectMaster, ConnectCatches, Use
<1>2. /\ LoopTypes' /\ \A u \in Thread \ {c} : pc'[u] = pc[u] /\ i'[u] = i[u]
      /\ pc'[c] \in {"use", "notify", "ask", "connect", "idle", "caught", "scan"}
  <2>1. CASE getMaster(c)
    <3>1. CASE _master > 0 /\ _nodes[_master] \in ok
      <4>1. _nodes[_master] \in Host
        BY <3>1, Numbers DEF IInv
      <4> QED BY <1>0, <1>1, <2>1, <3>1, <4>1, GotTo DEF getMaster, LoopTypes
    <3>2. CASE ~(_master > 0 /\ _nodes[_master] \in ok)
      BY <1>0, <1>1, <2>1, <3>2, ScanTo DEF getMaster
    <3> QED BY <3>1, <3>2
  <2>2. CASE getMasterChecked(c)
    <3>1. CASE _master > 0
      <4>1. _nodes[_master] \in Host
        BY <3>1, Numbers DEF IInv
      <4> QED BY <1>0, <1>1, <2>2, <3>1, <4>1, GotTo DEF getMasterChecked, LoopTypes
    <3>2. CASE ~(_master > 0)
      BY <1>0, <2>2, <3>2 DEF getMasterChecked, Throws, LoopTypes, Places
    <3> QED BY <3>1, <3>2
  <2>3. CASE MasterFailed(c)
    BY <1>0, <2>3 DEF MasterFailed, LoopTypes, Places
  <2>4. CASE ConnectMaster(c)
    BY <1>0, <2>4 DEF ConnectMaster, LoopTypes, Places
  <2>5. CASE ConnectCatches(c)
    BY <1>0, <2>5 DEF ConnectCatches, LoopTypes, Places
  <2>6. CASE Use(c)
    BY <1>0, <2>6 DEF Use, LoopTypes, Places
  <2> QED BY <2>1, <2>2, <2>3, <2>4, <2>5, <2>6 DEF MasterStep
<1>3. ok' \subseteq ok /\ _master' \in {0, _master}
  BY <1>0, NotifyTo DEF MasterStep, getMaster, getMasterChecked, MasterFailed, ConnectMaster, ConnectCatches, Use, isntMaster
<1>4. call' \in [Client -> 1..2] /\ master' \in [Client -> Conns]
  <2>0. 1 \in 1..2 /\ 2 \in 1..2
    OBVIOUS
  <2>1. CASE getMaster(c)
    <3>1. _master > 0 => _nodes[_master] \in Host
      BY Numbers DEF IInv
    <3> QED BY <1>0, <2>1, <3>1, GotTo DEF getMaster, ClientTypes
  <2>2. CASE getMasterChecked(c)
    <3>1. _master > 0 => _nodes[_master] \in Host
      BY Numbers DEF IInv
    <3> QED BY <1>0, <2>0, <2>2, <3>1, GotTo DEF getMasterChecked, ClientTypes
  <2>3. CASE MasterFailed(c)
    BY <1>0, <2>0, <2>3 DEF MasterFailed, ClientTypes
  <2>4. CASE ConnectMaster(c)
    BY <1>0, <2>4 DEF ConnectMaster, ClientTypes, Conns
  <2>5. CASE ConnectCatches(c)
    BY <1>0, <2>5 DEF ConnectCatches, ClientTypes
  <2>6. CASE Use(c)
    BY <1>0, <2>6 DEF Use, isntMaster, ClientTypes, Conns
  <2> QED BY <2>1, <2>2, <2>3, <2>4, <2>5, <2>6 DEF MasterStep
<1>5. MonitorTypes'
  BY <1>0, <1>1, <1>3, Numbers DEF MonitorTypes, IInv
<1>6. ClientTypes' /\ SetTypes'
  BY <1>0, <1>1, <1>4 DEF ClientTypes, SetTypes
<1>7. Indexes' /\ Heard' /\ MasterHadAnswered' /\ IsInjective(_nodes)'
  BY <1>0, <1>1, <1>2, <1>3, ClientMoves
<1>8. TriesLeft'
  BY <1>0, <1>1, <1>2, TriesMove DEF Thread
<1> QED BY <1>2, <1>5, <1>6, <1>7, <1>8, TypePartsNext DEF IInv

\* Dropping a client's connection keeps the type of its connections.
LEMMA ConnTurned ==
  ASSUME NEW conns \in [Client -> Conns], NEW c \in Client
  PROVE  [conns EXCEPT ![c].conn = "none"] \in [Client -> Conns]
<1>1. ASSUME NEW x \in Conns PROVE [x EXCEPT !.conn = "none"] \in Conns
  BY DEF Conns
<1> DEFINE turned == [conns[c] EXCEPT !.conn = "none"]
<1>2. turned \in Conns
  BY <1>1
<1>3. [conns EXCEPT ![c].conn = "none"] = [conns EXCEPT ![c] = turned]
  OBVIOUS
<1> HIDE DEF turned
<1> QED BY <1>2, <1>3

\* The steps of a query with SlaveOk.
LEMMA SlaveStepKeeps ==
  ASSUME IInv, NEW c \in Client, SlaveStep(c)
  PROVE  IInv'
<1> USE DEF Goes, rsVars, setVars, nodeVars, clientVars
<1>0. /\ MonitorTypes /\ LoopTypes /\ ClientTypes /\ SetTypes /\ c \in Thread /\ TypeOK
  BY TypeParts DEF IInv, Thread
<1>1. UNCHANGED <<_nodes, answered, cc, node, from, i, retry, quick, role, config, changes, call>>
  BY DEF SlaveStep, getSlavePrev, PickSlave, ConnectSlave, notifySlaveFailure, Query
<1>2. pc' \in [Thread -> Places] /\ pc'[c] \notin {"wait", "status", "set"} /\ \A u \in Thread \ {c} : pc'[u] = pc[u]
  <2>1. CASE getSlavePrev(c)
    BY <1>0, <2>1 DEF getSlavePrev, GotSlave, LoopTypes, Places
  <2>2. CASE PickSlave(c)
    BY <1>0, <2>2 DEF PickSlave, GotSlave, LoopTypes, Places
  <2>3. CASE ConnectSlave(c)
    BY <1>0, <2>3 DEF ConnectSlave, NextTry, LoopTypes, Places
  <2>4. CASE notifySlaveFailure(c)
    BY <1>0, <2>4 DEF notifySlaveFailure, NextTry, LoopTypes, Places
  <2>5. CASE Query(c)
    BY <1>0, <2>5 DEF Query, NextTry, LoopTypes, Places
  <2> QED BY <2>1, <2>2, <2>3, <2>4, <2>5 DEF SlaveStep
<1>3. ok' \subseteq ok /\ _master' \in {0, _master}
  <2>1. CASE ~Query(c)
    BY <2>1 DEF SlaveStep, getSlavePrev, PickSlave, ConnectSlave, notifySlaveFailure
  <2>2. CASE Query(c)
    BY <1>0, <2>2, NotifyTo DEF Query, isntMaster
  <2> QED BY <2>1, <2>2
<1>4. _nextSlave' \in 1..Cardinality(Host) /\ wild' \in BOOLEAN
  BY <1>0, SlaveFound DEF SlaveStep, getSlavePrev, PickSlave, ConnectSlave, notifySlaveFailure, Query, ClientTypes
<1>5. /\ tries' \in [Client -> 0..2] /\ \A u \in Client \ {c} : tries'[u] = tries[u]
      /\ pc'[c] \in {"pick", "connect slave", "query", "blame"} => tries'[c] < 2
  <2>1. CASE UNCHANGED tries /\ tries[c] < 2
    BY <1>0, <2>1 DEF ClientTypes
  <2>2. CASE tries' = [tries EXCEPT ![c] = 0]
    BY <1>0, <2>2 DEF ClientTypes
  <2>3. CASE NextTry(c) /\ tries[c] < 2
    <3>1. tries[c] + 1 \in 0..2
      BY <1>0, <2>3 DEF ClientTypes
    <3>2. pc'[c] = "slave"
      BY <1>0, <2>3 DEF NextTry, LoopTypes
    <3> QED BY <1>0, <2>3, <3>1, <3>2 DEF NextTry, ClientTypes
  <2>4. pc[c] \in {"pick", "connect slave", "query", "blame"} => tries[c] < 2
    BY DEF IInv, TriesLeft
  <2> QED BY <2>1, <2>2, <2>3, <2>4 DEF SlaveStep, getSlavePrev, PickSlave, ConnectSlave, notifySlaveFailure, Query
<1>6. master' \in [Client -> Conns] /\ slave' \in [Client -> Conns]
  <2>1. CASE ConnectSlave(c)
    <3>1. ~wild' => [host |-> getSlave, conn |-> "good"] \in Conns /\ [host |-> getSlave, conn |-> "failed"] \in Conns
      BY <1>0, <2>1, SlaveFound DEF ConnectSlave, Conns
    <3> QED BY <1>0, <2>1, <3>1 DEF ConnectSlave, ClientTypes
  <2>2. CASE Query(c)
    <3>1. slave' = slave \/ \E x \in {"none", "failed"} : slave' = [slave EXCEPT ![c].conn = x]
      BY <2>2 DEF Query
    <3>2. master' = master \/ master' = [master EXCEPT ![c].conn = "none"]
      BY <2>2 DEF Query, isntMaster
    <3>3. slave' \in [Client -> Conns]
      BY <1>0, <3>1 DEF ClientTypes, Conns
    <3>4. master \in [Client -> Conns]
      BY <1>0 DEF ClientTypes
    <3> DEFINE Turned == [master EXCEPT ![c].conn = "none"]
    <3>5. Turned \in [Client -> Conns]
      BY <3>4, ConnTurned
    <3>6. master' = master \/ master' = Turned
      BY <3>2
    <3> HIDE DEF Turned, Conns
    <3> QED BY <3>3, <3>4, <3>5, <3>6
  <2>3. CASE ~ConnectSlave(c) /\ ~Query(c)
    BY <1>0, <2>3 DEF SlaveStep, getSlavePrev, PickSlave, notifySlaveFailure, ClientTypes
  <2> QED BY <2>1, <2>2, <2>3
<1>7. MonitorTypes'
  BY <1>0, <1>1, <1>3, Numbers DEF MonitorTypes
<1>8. LoopTypes' /\ ClientTypes' /\ SetTypes'
  BY <1>0, <1>1, <1>2, <1>4, <1>5, <1>6 DEF LoopTypes, ClientTypes, SetTypes
<1>9. Indexes' /\ Heard' /\ MasterHadAnswered' /\ IsInjective(_nodes)'
  BY <1>0, <1>1, <1>2, <1>3, ClientMoves
<1>10. TriesLeft'
  BY <1>0, <1>2, <1>5, TriesMove DEF Thread
<1> QED BY <1>7, <1>8, <1>9, <1>10, TypePartsNext DEF IInv

\* An operation starts, and the watcher's check.
LEMMA StartKeeps ==
  ASSUME IInv, Check \/ CheckFirst \/ \E c \in Client : Operation(c)
  PROVE  IInv'
<1> USE DEF Goes, rsVars, setVars, nodeVars, clientVars
<1>0. /\ MonitorTypes /\ LoopTypes /\ ClientTypes /\ SetTypes /\ Watcher \in Thread /\ TypeOK
  BY TypeParts DEF IInv, Thread
<1>1. ASSUME NEW c \in Client, Operation(c) PROVE IInv'
  <2>0. c \in Thread
    BY DEF Thread
  <2>1. /\ UNCHANGED <<_nodes, ok, _master, answered, cc, node, from, i, retry, quick, role, config, changes, call, tries,
                       master, slave, _nextSlave, wild>>
        /\ pc' \in [Thread -> Places] /\ pc'[c] \in {"ask", "slave"} /\ \A u \in Thread \ {c} : pc'[u] = pc[u]
    <3>1. PICK where \in {"ask", "slave"} : pc' = [pc EXCEPT ![c] = where]
      BY <1>1 DEF Operation
    <3>2. pc \in [Thread -> Places] /\ where \in Places
      BY <1>0, <3>1 DEF LoopTypes, Places
    <3>3. pc' \in [Thread -> Places] /\ pc'[c] = where /\ \A u \in Thread \ {c} : pc'[u] = pc[u]
      BY <2>0, <3>1, <3>2
    <3> QED BY <1>1, <3>1, <3>3 DEF Operation
  <2>2. MonitorTypes' /\ LoopTypes' /\ ClientTypes' /\ SetTypes'
    BY <1>0, <2>1 DEF MonitorTypes, LoopTypes, ClientTypes, SetTypes
  <2>3. Indexes' /\ Heard' /\ MasterHadAnswered' /\ IsInjective(_nodes)'
    BY <2>0, <2>1, ClientMoves
  <2>4. TriesLeft'
    BY <2>0, <2>1, TriesMove DEF Thread
  <2> QED BY <2>2, <2>3, <2>4, TypePartsNext DEF IInv
<1>2. CASE Check
  <2>1. UNCHANGED <<_nodes, ok, _master, answered, cc, node, from, role, config, changes, call, tries,
                    master, slave, _nextSlave, wild>>
    BY <1>2 DEF Check
  <2>2. /\ LoopTypes' /\ pc'[Watcher] \in {"first", "scan"}
        /\ \A u \in Thread \ {Watcher} : pc'[u] = pc[u] /\ i'[u] = i[u]
    <3>1. CASE _master > 0
      BY <1>0, <1>2, <3>1 DEF Check, LoopTypes, Places
    <3>2. CASE ~(_master > 0)
      BY <1>0, <1>2, <2>1, <3>2, ScanTo DEF Check
    <3> QED BY <3>1, <3>2
  <2>3. MonitorTypes' /\ ClientTypes' /\ SetTypes'
    BY <1>0, <2>1 DEF MonitorTypes, ClientTypes, SetTypes
  <2>4. Indexes' /\ Heard' /\ MasterHadAnswered' /\ IsInjective(_nodes)'
    BY <1>0, <2>1, <2>2, ClientMoves
  <2>5. TriesLeft'
    BY <1>0, <2>1, <2>2, TriesMove, MonitorAssumption DEF Thread
  <2> QED BY <2>2, <2>3, <2>4, <2>5, TypePartsNext DEF IInv
<1>3. CASE CheckFirst
  <2>1. UNCHANGED <<_nodes, ok, _master, answered, cc, i, retry, quick, role, config, changes, call, tries,
                    master, slave, _nextSlave>> /\ wild' \in BOOLEAN
    BY <1>0, <1>3 DEF CheckFirst, ClientTypes
  <2>2. CASE _master = 0
    <3>1. UNCHANGED <<pc, node, from>> /\ pc[Watcher] = "first"
      BY <1>3, <2>2 DEF CheckFirst
    <3>2. MonitorTypes' /\ LoopTypes' /\ ClientTypes' /\ SetTypes'
      BY <1>0, <2>1, <3>1 DEF MonitorTypes, LoopTypes, ClientTypes, SetTypes
    <3>3. Indexes' /\ Heard' /\ MasterHadAnswered' /\ IsInjective(_nodes)'
      BY <1>0, <2>1, <3>1, ClientMoves
    <3>4. TriesLeft'
      BY <1>0, <2>1, <3>1, TriesMove DEF Thread
    <3> QED BY <3>2, <3>3, <3>4, TypePartsNext DEF IInv
  <2>3. CASE _master # 0
    <3>1. _master \in DOMAIN _nodes /\ _master \in 0..Len(_nodes)
      <4>1. Len(_nodes) \in Nat /\ _master \in 0..Len(_nodes) /\ DOMAIN _nodes = 1..Len(_nodes)
        BY <1>0, Numbers DEF MonitorTypes
      <4>2. _master \in 1..Len(_nodes)
        BY <2>3, <4>1
      <4> QED BY <4>1, <4>2
    <3>2. /\ node' = [node EXCEPT ![Watcher] = _master] /\ from' = [from EXCEPT ![Watcher] = "first"]
          /\ pc' = [pc EXCEPT ![Watcher] = "wait"]
      BY <1>3, <2>3 DEF CheckFirst
    <3>3. /\ pc'[Watcher] = "wait" /\ node'[Watcher] = _master /\ from'[Watcher] = "first"
          /\ \A u \in Thread \ {Watcher} : pc'[u] = pc[u] /\ node'[u] = node[u] /\ from'[u] = from[u]
      BY <1>0, <3>2 DEF LoopTypes, MonitorTypes
    <3>4. MonitorTypes' /\ LoopTypes' /\ ClientTypes' /\ SetTypes'
      BY <1>0, <2>1, <3>1, <3>2 DEF MonitorTypes, LoopTypes, ClientTypes, SetTypes, Places
    <3>5. Indexes' /\ Heard' /\ MasterHadAnswered'
      BY <1>0, <2>1, <3>1, <3>3, OneMoves
    <3>6. TriesLeft'
      BY <1>0, <2>1, <3>3, TriesMove DEF Thread
    <3> QED BY <2>1, <3>4, <3>5, <3>6, TypePartsNext DEF IInv
  <2> QED BY <2>2, <2>3
<1> QED BY <1>1, <1>2, <1>3

\* The steps of a check.
LEMMA CheckingKeeps ==
  ASSUME IInv, NEW t \in Thread, Checking(t)
  PROVE  IInv'
<1> USE DEF Goes, setVars, nodeVars, clientVars, checkVars
<1>0. /\ MonitorTypes /\ LoopTypes /\ ClientTypes /\ SetTypes /\ TypeOK
      /\ Indexes /\ Heard /\ IsInjective(_nodes)
  BY TypeParts DEF IInv
<1>n. /\ Len(_nodes) \in Nat /\ DOMAIN _nodes = 1..Len(_nodes)
      /\ \A k \in DOMAIN _nodes : _nodes[k] \in Host /\ k \in 0..Len(_nodes)
  BY <1>0, Numbers
<1>1. UNCHANGED <<role, config, changes, _nextSlave, call, tries, master, slave, wild>>
  BY DEF Checking, _check, _checkConnection, CheckStatus, SetMaster
<1>2. ClientTypes' /\ SetTypes'
  BY <1>0, <1>1 DEF ClientTypes, SetTypes
<1>3. ASSUME LoopTypes, NEW u \in Thread, CheckReturns(u)
      PROVE  /\ LoopTypes' /\ node' = [node EXCEPT ![u] = 0] /\ pc'[u] \in {"idle", "got"}
             /\ \A v \in Thread \ {u} : pc'[v] = pc[v] /\ i'[v] = i[v] /\ from'[v] = from[v]
  <2>1. 1 \in 1..(Cardinality(Host) + 1) /\ 0 \in 0..1
    BY <1>0, Numbers
  <2> QED BY <1>3, <2>1 DEF CheckReturns, LoopTypes, Places
<1>4. CASE _check(t)
  <2>1. UNCHANGED <<_nodes, ok, _master, cc, answered>> /\ pc[t] = "scan"
    BY <1>4 DEF _check
  <2>2. CASE /\ MoreNodes(t) /\ node' = [node EXCEPT ![t] = i[t]]
             /\ from' = [from EXCEPT ![t] = "scan"] /\ Goes(t, "wait") /\ UNCHANGED <<i, retry, quick>>
    <3>1. i[t] \in DOMAIN _nodes
      <4>1. i[t] \in 1..(Cardinality(Host) + 1) /\ i[t] <= Len(_nodes) /\ Cardinality(Host) \in Nat
        BY <1>0, <2>2, Numbers DEF MoreNodes, LoopTypes
      <4>2. i[t] \in 1..Len(_nodes)
        BY <1>n, <4>1
      <4> QED BY <1>n, <4>2
    <3>2. /\ pc'[t] = "wait" /\ node'[t] = i[t] /\ i' = i
          /\ \A u \in Thread \ {t} : pc'[u] = pc[u] /\ node'[u] = node[u] /\ from'[u] = from[u]
      BY <1>0, <2>2 DEF LoopTypes, MonitorTypes
    <3>3. MonitorTypes' /\ LoopTypes'
      BY <1>0, <1>n, <2>1, <2>2, <3>1 DEF MonitorTypes, LoopTypes, Places
    <3>4. Indexes' /\ Heard' /\ MasterHadAnswered'
      BY <2>1, <3>1, <3>2, OneMoves
    <3>5. TriesLeft'
      BY <1>1, <3>2, TriesMove DEF Thread
    <3> QED BY <1>0, <1>2, <2>1, <3>3, <3>4, <3>5, TypePartsNext DEF IInv
  <2>3. CASE retry' = [retry EXCEPT ![t] = 1] /\ i' = [i EXCEPT ![t] = 1] /\ UNCHANGED <<pc, quick, node, from>>
    <3>1. MonitorTypes' /\ LoopTypes'
      <4>1. 1 \in 1..(Cardinality(Host) + 1)
        BY <1>0, Numbers
      <4> QED BY <1>0, <2>1, <2>3, <4>1 DEF MonitorTypes, LoopTypes
    <3>2. \A u \in Thread \ {t} : i'[u] = i[u]
      BY <1>0, <2>3 DEF LoopTypes
    <3>3. Indexes' /\ Heard' /\ MasterHadAnswered' /\ IsInjective(_nodes)'
      BY <2>1, <2>3, <3>2, ClientMoves
    <3>4. TriesLeft'
      BY <1>1, <2>1, <2>3, TriesMove DEF Thread
    <3> QED BY <1>2, <3>1, <3>3, <3>4, TypePartsNext DEF IInv
  <2>4. CASE CheckReturns(t)
    <3>1. /\ LoopTypes' /\ node' = [node EXCEPT ![t] = 0] /\ pc'[t] \in {"idle", "got"}
          /\ \A v \in Thread \ {t} : pc'[v] = pc[v] /\ i'[v] = i[v] /\ from'[v] = from[v]
      BY <1>0, <1>3, <2>4
    <3>2. MonitorTypes'
      BY <1>0, <2>1, <3>1, Numbers DEF MonitorTypes
    <3>3. \A v \in Thread \ {t} : node'[v] = node[v]
      BY <1>0, <3>1 DEF MonitorTypes
    <3>4. Indexes' /\ Heard' /\ MasterHadAnswered'
      BY <2>1, <3>1, <3>3, OneMoves
    <3>5. TriesLeft'
      BY <1>1, <3>1, TriesMove DEF Thread
    <3> QED BY <1>0, <1>2, <2>1, <3>1, <3>2, <3>4, <3>5, TypePartsNext DEF IInv
  <2> QED BY <1>4, <2>2, <2>3, <2>4 DEF _check
<1>5. CASE SetMaster(t)
  <2>1. UNCHANGED <<_nodes, ok, cc, answered>> /\ pc[t] = "set" /\ _master' = node[t] /\ CheckReturns(t)
    BY <1>5 DEF SetMaster
  <2>2. /\ LoopTypes' /\ node' = [node EXCEPT ![t] = 0] /\ pc'[t] \in {"idle", "got"}
        /\ \A v \in Thread \ {t} : pc'[v] = pc[v] /\ i'[v] = i[v] /\ from'[v] = from[v]
    BY <1>0, <1>3, <2>1
  <2>3. _nodes[node[t]] \in answered /\ node[t] \in DOMAIN _nodes
    BY <1>0, <2>1 DEF Heard, Indexes
  <2>4. MonitorTypes'
    BY <1>0, <1>n, <2>1, <2>2, <2>3, Numbers DEF MonitorTypes
  <2>5. \A v \in Thread \ {t} : node'[v] = node[v]
    BY <1>0, <2>2 DEF MonitorTypes
  <2>6. Indexes' /\ Heard' /\ MasterHadAnswered'
    BY <2>1, <2>2, <2>3, <2>5, OneMoves
  <2>7. TriesLeft'
    BY <1>1, <2>2, TriesMove DEF Thread
  <2> QED BY <1>0, <1>2, <2>1, <2>2, <2>4, <2>6, <2>7, TypePartsNext DEF IInv
<1>6. CASE CheckStatus(t)
  <2>1. UNCHANGED <<_nodes, _master, answered>> /\ pc[t] = "status" /\ cc' = Idle /\ Answer(t, cc.isMaster, cc.primary)
    BY <1>6 DEF CheckStatus
  <2>2. cc.by = t /\ (cc.isMaster => _nodes[node[t]] \in answered) /\ node[t] \in DOMAIN _nodes
    BY <1>0, <2>1 DEF Heard, Indexes
  <2>3. \A u \in Thread \ {t} : pc[u] # "status"
    BY <1>0, <2>2 DEF Heard
  <2>4. /\ LoopTypes' /\ node' \in [Thread -> 0..Len(_nodes)]
        /\ \A u \in Thread \ {t} : pc'[u] = pc[u] /\ node'[u] = node[u] /\ from'[u] = from[u] /\ i'[u] = i[u]
        /\ \/ pc'[t] \in {"idle", "got", "scan"}
           \/ pc'[t] = "set" /\ cc.isMaster /\ node'[t] = node[t]
           \/ pc'[t] = "wait" /\ node'[t] \in DOMAIN _nodes /\ i'[t] \in DOMAIN _nodes
    <3>1. cc.isMaster \in BOOLEAN /\ cc.primary \in Host \cup {None}
      BY <1>0 DEF MonitorTypes
    <3> QED BY <1>0, <2>1, <3>1, AnswerTo DEF LoopTypes
  <2>5. MonitorTypes'
    <3>1. ok' \subseteq Range(_nodes)
      BY <1>0, <1>6 DEF CheckStatus, _checkStatus, MonitorTypes
    <3>2. Idle \in [by: Thread \cup {None}, isMaster: BOOLEAN, primary: Host \cup {None}]
      BY DEF Idle
    <3> QED BY <1>0, <2>1, <2>4, <3>1, <3>2 DEF MonitorTypes
  <2>6. Indexes' /\ Heard' /\ MasterHadAnswered'
    BY <2>1, <2>2, <2>3, <2>4, OneMoves
  <2>7. TriesLeft'
    BY <1>1, <2>4, TriesMove DEF Thread
  <2> QED BY <1>0, <1>2, <2>1, <2>4, <2>5, <2>6, <2>7, TypePartsNext DEF IInv
<1>7. CASE _checkConnection(t)
  <2>1. pc[t] = "wait" /\ cc.by = None /\ _master' = _master /\ node[t] \in DOMAIN _nodes
    BY <1>0, <1>7 DEF _checkConnection, Indexes
  <2>2. \A u \in Thread : pc[u] # "status"
    BY <1>0, <2>1, MonitorAssumption DEF Heard, Thread
  <2>3. CASE Up(_nodes[node[t]])
    <3> DEFINE h == _nodes[node[t]]
    <3>0. /\ cc'.by = t /\ cc'.isMaster = (role[h] = "primary")
          /\ cc' \in [by: Thread \cup {None}, isMaster: BOOLEAN, primary: Host \cup {None}]
      <4> DEFINE told == IF \E g \in Host : role[g] = "primary"
                         THEN CHOOSE g \in Host : role[g] = "primary" ELSE None
      <4>1. told \in Host \cup {None}
        OBVIOUS
      <4>2. cc' = [by |-> t, isMaster |-> role[h] = "primary", primary |-> told]
        BY <1>7, <2>3 DEF _checkConnection
      <4> HIDE DEF told, h
      <4> QED BY <4>1, <4>2
    <3>1. /\ _nodes' \in _checkHosts(_nodes)
          /\ ok' = ok \cup (Range(_nodes') \ Range(_nodes))
          /\ answered' = IF role[h] = "primary" THEN answered \cup {h} ELSE answered
          /\ pc' = [pc EXCEPT ![t] = "status"]
          /\ UNCHANGED <<i, retry, quick, node, from>>
      BY <1>7, <2>3 DEF _checkConnection
    <3>2. /\ _nodes' \in Seq(Host) /\ IsInjective(_nodes') /\ Len(_nodes) <= Len(_nodes')
          /\ Len(_nodes') \in Nat /\ Len(_nodes') <= Cardinality(Host)
          /\ \A k \in DOMAIN _nodes : k \in DOMAIN _nodes' /\ _nodes'[k] = _nodes[k]
          /\ Range(_nodes) \subseteq Range(_nodes')
      BY <1>0, <3>1, HostsAdded DEF MonitorTypes, SetTypes
    <3>3. \A k \in 0..Len(_nodes) : k \in 0..Len(_nodes')
      BY <1>n, <3>2
    <3>4. h \in Host
      BY <1>n, <2>1
    <3>5. MonitorTypes'
      BY <1>0, <2>1, <3>0, <3>1, <3>2, <3>3, <3>4 DEF MonitorTypes
    <3>6. LoopTypes' /\ pc'[t] = "status" /\ \A u \in Thread \ {t} : pc'[u] = pc[u]
      BY <1>0, <3>1 DEF LoopTypes, Places
    <3>7. answered \subseteq answered' /\ (cc'.isMaster => h \in answered')
      BY <3>0, <3>1
    <3>8. from[t] # "first" => i[t] \in DOMAIN _nodes
      BY <1>0, <2>1 DEF Indexes
    <3>9. Indexes' /\ Heard' /\ MasterHadAnswered'
      BY <2>1, <2>2, <3>0, <3>1, <3>2, <3>6, <3>7, <3>8, OneMoves
    <3>10. TriesLeft'
      BY <1>1, <3>6, TriesMove DEF Thread
    <3> QED BY <1>2, <3>2, <3>5, <3>6, <3>9, <3>10, TypePartsNext DEF IInv
  <2>4. CASE ~Up(_nodes[node[t]])
    <3>1. Answer(t, FALSE, None) /\ UNCHANGED <<cc, _nodes, ok, answered>>
      BY <1>7, <2>4 DEF _checkConnection
    <3>2. /\ LoopTypes' /\ node' \in [Thread -> 0..Len(_nodes)]
          /\ \A u \in Thread \ {t} : pc'[u] = pc[u] /\ node'[u] = node[u] /\ from'[u] = from[u] /\ i'[u] = i[u]
          /\ \/ pc'[t] \in {"idle", "got", "scan"}
             \/ pc'[t] = "wait" /\ node'[t] \in DOMAIN _nodes /\ i'[t] \in DOMAIN _nodes
      BY <1>0, <2>1, <3>1, AnswerTo DEF LoopTypes
    <3>3. MonitorTypes'
      BY <1>0, <2>1, <3>1, <3>2 DEF MonitorTypes
    <3>4. Indexes' /\ Heard' /\ MasterHadAnswered'
      BY <2>1, <3>1, <3>2, OneMoves
    <3>5. TriesLeft'
      BY <1>1, <3>2, TriesMove DEF Thread
    <3> QED BY <1>0, <1>2, <3>1, <3>2, <3>3, <3>4, <3>5, TypePartsNext DEF IInv
  <2> QED BY <2>3, <2>4
<1> QED BY <1>4, <1>5, <1>6, <1>7 DEF Checking

\* Members change and are added: the monitor notices nothing.
LEMMA SetChanges ==
  ASSUME IInv, ChangeRoles \/ \E h \in Host : AddMember(h)
  PROVE  IInv'
<1>0. MonitorTypes /\ LoopTypes /\ ClientTypes /\ SetTypes
  BY TypeParts DEF IInv
<1>1. UNCHANGED <<nodeVars, _master, _nextSlave, cc, pc, checkVars, clientVars, answered, wild>>
  BY DEF ChangeRoles, AddMember
<1>2. SetTypes'
  <2>1. changes' \in 0..MaxChanges
    BY <1>0, MonitorAssumption DEF ChangeRoles, AddMember, SetTypes
  <2>2. CASE ChangeRoles
    BY <1>0, <2>1, <2>2 DEF ChangeRoles, SetTypes
  <2>3. ASSUME NEW h \in Host, AddMember(h) PROVE SetTypes'
    BY <1>0, <2>1, <2>3 DEF AddMember, SetTypes, Roles
  <2> QED BY <2>2, <2>3
<1>3. MonitorTypes' /\ LoopTypes' /\ ClientTypes'
  BY <1>0, <1>1 DEF MonitorTypes, LoopTypes, ClientTypes, nodeVars, checkVars, clientVars
<1>4. Indexes' /\ TriesLeft' /\ Heard' /\ MasterHadAnswered' /\ IsInjective(_nodes)'
  BY <1>1 DEF IInv, Indexes, TriesLeft, Heard, MasterHadAnswered, nodeVars, checkVars, clientVars
<1> QED BY <1>2, <1>3, <1>4, TypePartsNext DEF IInv

LEMMA Stutter ==
  ASSUME IInv, UNCHANGED vars
  PROVE  IInv'
<1>1. TypeOK'
  BY DEF IInv, TypeOK, vars, setVars, nodeVars, checkVars, clientVars
<1>2. Indexes' /\ TriesLeft' /\ Heard' /\ MasterHadAnswered' /\ IsInjective(_nodes)'
  BY DEF IInv, Indexes, TriesLeft, Heard, MasterHadAnswered, vars, setVars, nodeVars, checkVars, clientVars
<1> QED BY <1>1, <1>2 DEF IInv

---------------------------------------------------------------------------
(* Theorems.                                                               *)

LEMMA Inductive == Spec => []IInv
<1>1. IInv /\ [Next]_vars => IInv'
  BY MasterStepKeeps, SlaveStepKeeps, StartKeeps, CheckingKeeps, SetChanges, Stutter DEF Next, Thread
<1> QED BY <1>1, InitIInv, PTL DEF Spec

\* Every index is one of the list it is used with, and every variable keeps its
\* type.
THEOREM TypeCorrect == Spec => []TypeOK
<1>1. IInv => TypeOK
  BY DEF IInv
<1> QED BY <1>1, Inductive, PTL

\* Whatever others say about a host, the monitor takes it for the master only
\* when it has said so itself.
THEOREM MasterAnswered == Spec => []MasterHadAnswered
<1>1. IInv => MasterHadAnswered
  BY DEF IInv
<1> QED BY <1>1, Inductive, PTL

\* However many threads check, blame and add hosts, a node is added once and
\* stays where it is.
THEOREM NodesStay == Spec => NodesKeepTheirPlace
<1>1. IInv /\ [Next]_vars => [IsPrefix(_nodes, _nodes') /\ Cardinality(Range(_nodes')) = Len(_nodes')]_vars
  <2> SUFFICES ASSUME IInv, [Next]_vars
               PROVE  IsPrefix(_nodes, _nodes') /\ Cardinality(Range(_nodes')) = Len(_nodes')
    OBVIOUS
  <2>1. _nodes \in Seq(Host) /\ IsInjective(_nodes) /\ config \subseteq Host
    BY DEF IInv, TypeOK
  <2>2. CASE UNCHANGED _nodes
    <3>1. Cardinality(Range(_nodes)) = Len(_nodes)
      BY <2>1, OnceCounted
    <3>2. IsPrefix(_nodes, _nodes)
      <4>1. Len(_nodes) <= Len(_nodes)
        BY <2>1, LenProperties
      <4> QED BY <4>1 DEF IsPrefix
    <3> QED BY <2>2, <3>1, <3>2
  <2>3. CASE _nodes' \in _checkHosts(_nodes)
    BY <2>1, <2>3, HostsAdded
  <2>4. ASSUME NEW t \in Thread, Checking(t) PROVE UNCHANGED _nodes \/ _nodes' \in _checkHosts(_nodes)
    BY <2>4 DEF Checking, _check, _checkConnection, CheckStatus, SetMaster, nodeVars
  <2>5. ASSUME NEW c \in Client, MasterStep(c) \/ SlaveStep(c) \/ Operation(c) PROVE UNCHANGED _nodes
    BY <2>5 DEF MasterStep, SlaveStep, Operation, getMaster, getMasterChecked, MasterFailed, ConnectMaster,
         ConnectCatches, Use, getSlavePrev, PickSlave, ConnectSlave, notifySlaveFailure, Query, rsVars, nodeVars
  <2>6. Check \/ CheckFirst \/ ChangeRoles \/ (\E h \in Host : AddMember(h)) => UNCHANGED _nodes
    BY DEF Check, CheckFirst, ChangeRoles, AddMember, nodeVars
  <2>7. UNCHANGED vars => UNCHANGED _nodes
    BY DEF vars, nodeVars
  <2> QED BY <2>2, <2>3, <2>4, <2>5, <2>6, <2>7 DEF Next, Thread
<1> QED BY <1>1, Inductive, PTL DEF Spec, NodesKeepTheirPlace
=============================================================================
