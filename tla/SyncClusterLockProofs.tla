----------------------- MODULE SyncClusterLockProofs -----------------------
(***************************************************************************)
(* What the lock over a SyncClusterConnection guarantees for any number of *)
(* threads and config servers, with servers that fail and clocks that      *)
(* differ.                                                                 *)
(***************************************************************************)
EXTENDS SyncClusterLock, WellFoundedInduction, TLAPS

Works(t) == pc[t] \in {"prepare", "send"}

\* t has won the lock, and what is left is to write its document everywhere.
Decided(t) == Owner(t) \/ (Works(t) /\ op[t] = "propagate")

\* unlock gives up after maxAttempts.
AttemptBound ==
    \A t \in Thread : pc[t] = "unlock" \/ (Works(t) /\ op[t] = "unlock") => attempted[t] < maxAttempts

\* OIDs are generated once, and a thread has one from the acquiring update on.
TsDistinct ==
    /\ \A t \in Thread : ts[t] \in used \cup {0}
    /\ \A t, u \in Thread : t # u /\ ts[t] = ts[u] => ts[t] = 0
    /\ \A t \in Thread :
         Decided(t) \/ pc[t] = "read" \/ (pc[t] = "send" /\ op[t] = "acquire") => ts[t] # 0

\* The handler of UpdateNotTheSame starts with the first server.
ReadsFromFirst == \A t \in Thread : pc[t] # "read" => next[t] = 1

---------------------------------------------------------------------------
(* Named everywhere.                                                       *)

NamedOn(t, s) == doc[s].state = 1 /\ doc[s].ts = ts[t]

\* A server that executed the taking of the lock names the thread.
TakenIsNamed ==
    \A t \in Thread \ robbed, s \in Server :
      \/ Owner(t)
      \/ pc[t] = "send" /\ op[t] \in {"acquire", "propagate"} /\ s \notin todo[t] /\ n[t][s] = 1
      => NamedOn(t, s)

\* A document that was taken is not inserted again.
TakenIsThere == \A s \in Server : doc[s].state = 1 => doc[s].there

\* A propagation changes at least one server's document: the contest needed it.
SomeDoc ==
    \A t \in Thread :
      /\ pc[t] = "send" => \A s \in Server : s \notin todo[t] /\ n[t][s] = 1 => doc[s].there
      /\ pc[t] = "read" \/ (pc[t] = "prepare" /\ op[t] = "propagate") => \E s \in Server : doc[s].there
      /\ pc[t] = "send" /\ op[t] = "propagate" =>
           \E s \in Server : doc[s].there /\ (s \in todo[t] \/ n[t][s] = 1)

---------------------------------------------------------------------------
(* One winner.                                                             *)

Full == \A s \in Server : doc[s].state = 1

Highest(m) == (\A s \in Server : doc[s].ts <= m) /\ (\E s \in Server : doc[s].ts = m)

\* All servers were free with the same document, and t asks for that one.
FreeAgree ==
    /\ \A s, r \in Server : doc[s].state = 0 /\ doc[r].state = 0 => doc[s].ts = doc[r].ts
    /\ \A t \in Thread, s \in Server :
         Works(t) /\ op[t] = "acquire" /\ doc[s].state = 0 => wantTs[t] = doc[s].ts

\* A server that executed t's update is taken; t has all servers it won, or
\* another one was taken before it.
Acquiring ==
    \A t \in Thread : pc[t] = "send" /\ op[t] = "acquire" =>
      /\ \A s \in Server : s \notin todo[t] => doc[s].state = 1
      /\ \/ \A s \in Server : s \notin todo[t] /\ n[t][s] = 1 => doc[s].ts = ts[t]
         \/ \E s \in Server : doc[s].state = 1 /\ (s \notin todo[t] => n[t][s] = 0)

\* When all servers are taken the highest ts stays what it is, and a reader has
\* it once it has read the right server.
Reads(t) ==
    \E s \in Server :
      /\ \A r \in Server : doc[r].ts <= doc[s].ts
      /\ next[t] > 1 => now[t] <= doc[s].ts
      /\ s < next[t] => now[t] >= doc[s].ts

Reading == \A t \in Thread : pc[t] = "read" => Full /\ Reads(t)

Winning == \A t \in Thread : Decided(t) => Full /\ Highest(ts[t])

\* From a free lock on which all servers agree to the next unlock.
Contest ==
    ~unsettled =>
      /\ \A s \in Server : doc[s].there
      /\ \A t \in Thread : pc[t] # "unlock" /\ (Works(t) => op[t] \in {"acquire", "propagate"})
      /\ FreeAgree
      /\ Acquiring
      /\ Reading
      /\ Winning

IInv ==
    /\ TypeOK
    /\ AttemptBound
    /\ TsDistinct
    /\ ReadsFromFirst
    /\ TakenIsNamed
    /\ TakenIsThere
    /\ SomeDoc
    /\ Contest

---------------------------------------------------------------------------
(* Servers and documents.                                                  *)

\* Any set of numbers has a least element.
LEMMA Least ==
  ASSUME NEW T \in SUBSET Nat, T # {}
  PROVE  \E x \in T : \A y \in T : x <= y
<1>1. PICK x \in T : \A y \in T : ~ (<<y, x>> \in OpToRel(<, Nat))
  BY WFMin, NatLessThanWellFounded
<1>2. ASSUME NEW y \in T PROVE x <= y
  <2>1. <<y, x>> \notin {ss \in Nat \X Nat : ss[1] < ss[2]}
    BY <1>1 DEF OpToRel
  <2> QED BY <2>1
<1> QED BY <1>2

\* The server that answers a query is one that is up.
LEMMA ActiveIsUp ==
  ASSUME TypeOK, up # {}
  PROVE  Active \in up /\ Active \in Server
<1>1. up \in SUBSET Nat
  BY ClusterAssumption DEF TypeOK, Server
<1>2. \E x \in up : \A y \in up : x <= y
  BY <1>1, Least
<1>3. Active \in up
  BY <1>2 DEF Active, Min
<1> QED BY <1>3 DEF TypeOK

\* Some server's document has the highest ts.
LEMMA SomeServerHighest ==
  ASSUME TypeOK
  PROVE  \E s \in Server : \A r \in Server : doc[r].ts <= doc[s].ts
<1> DEFINE T == {MaxTs - doc[s].ts : s \in Server}
<1>0. \A s \in Server : doc[s].ts \in Nat /\ doc[s].ts <= MaxTs
  <2>1. \A s \in Server : doc[s].ts \in 0..MaxTs
    BY DEF TypeOK
  <2> QED BY <2>1, ClusterAssumption
<1>1. T \in SUBSET Nat
  BY <1>0, ClusterAssumption
<1>2. 1 \in Server
  BY ClusterAssumption DEF Server
<1>3. MaxTs - doc[1].ts \in T
  BY <1>2
<1>4. T # {}
  BY <1>3
<1> HIDE DEF T
<1>5. PICK x \in T : \A y \in T : x <= y
  BY <1>1, <1>4, Least
<1>6. PICK s \in Server : x = MaxTs - doc[s].ts
  BY <1>5 DEF T
<1>7. ASSUME NEW r \in Server PROVE doc[r].ts <= doc[s].ts
  <2>1. MaxTs - doc[s].ts <= MaxTs - doc[r].ts
    BY <1>5, <1>6 DEF T
  <2> QED BY <2>1, <1>0, ClusterAssumption
<1> QED BY <1>7

---------------------------------------------------------------------------
(* Types and the attempts of unlock.                                       *)

\* Where an exception leaves a thread: nowhere, before the acquiring update, or
\* before unlock's next attempt.
LEMMA ThrowsTo ==
  ASSUME TypeOK, AttemptBound, NEW t \in Thread, NEW user \in BOOLEAN, Works(t), Throws(t, user)
  PROVE  /\ pc' \in [Thread -> {"idle", "prepare", "send", "read", "held", "unlock"}]
         /\ op' \in [Thread -> Ops]
         /\ todo' = [todo EXCEPT ![t] = {}]
         /\ attempted' \in [Thread -> 0..maxAttempts]
         /\ \A u \in Thread \ {t} : pc'[u] = pc[u] /\ op'[u] = op[u] /\ attempted'[u] = attempted[u]
         /\ \/ pc'[t] = "idle"
            \/ pc'[t] = "prepare" /\ op[t] = "insert" /\ op'[t] = "acquire"
            \/ pc'[t] = "unlock" /\ op[t] = "unlock" /\ op'[t] = "unlock" /\ attempted'[t] < maxAttempts
<1>0. todo' = [todo EXCEPT ![t] = {}]
  BY DEF Throws
<1>1. CASE /\ op[t] = "insert" /\ user
           /\ Goes(t, "prepare") /\ op' = [op EXCEPT ![t] = "acquire"]
           /\ UNCHANGED attempted
  BY <1>0, <1>1 DEF TypeOK, Goes, Ops
<1>2. CASE /\ op[t] # "unlock" /\ (op[t] = "insert" => ~user)
           /\ Goes(t, "idle")
           /\ UNCHANGED <<op, attempted>>
  BY <1>0, <1>2 DEF TypeOK, Goes, Ops
<1>3. CASE /\ op[t] = "unlock"
           /\ attempted' = [attempted EXCEPT ![t] = @ + 1]
           /\ Goes(t, IF attempted[t] + 1 < maxAttempts THEN "unlock" ELSE "idle")
           /\ UNCHANGED op
  <2>1. attempted[t] \in 0..maxAttempts /\ attempted[t] < maxAttempts
    BY <1>3 DEF AttemptBound, TypeOK
  <2>2. attempted[t] + 1 \in 0..maxAttempts
    BY <2>1 DEF maxAttempts
  <2> QED BY <1>0, <1>3, <2>1, <2>2 DEF TypeOK, Goes, Ops
<1> QED BY <1>1, <1>2, <1>3 DEF Throws

\* From prepare a thread goes on to send the write, or an exception ends it.
LEMMA PrepareTo ==
  ASSUME TypeOK, AttemptBound, NEW t \in Thread, prepare(t)
  PROVE  /\ pc[t] = "prepare"
         /\ \A u \in Thread \ {t} : pc'[u] = pc[u] /\ op'[u] = op[u] /\ todo'[u] = todo[u]
         /\ \/ pc'[t] = "send" /\ op'[t] = op[t] /\ todo'[t] = Server
            \/ pc'[t] \in {"idle", "unlock"}
            \/ pc'[t] = "prepare" /\ op'[t] = "acquire" /\ op[t] = "insert"
<1>1. CASE Goes(t, "send") /\ todo' = [todo EXCEPT ![t] = Server] /\ UNCHANGED <<op, attempted>>
  BY <1>1 DEF prepare, TypeOK, Goes
<1>2. CASE Throws(t, TRUE)
  <2>1. Works(t) /\ pc[t] = "prepare"
    BY DEF prepare, Works
  <2>2. \A u \in Thread \ {t} : todo'[u] = todo[u]
    BY <1>2, <2>1, ThrowsTo DEF TypeOK
  <2> QED BY <1>2, <2>1, <2>2, ThrowsTo
<1> QED BY <1>1, <1>2 DEF prepare

\* _checkLast hands over the lock only when all servers answered alike.
LEMMA CheckLastTo ==
  ASSUME TypeOK, AttemptBound, NEW t \in Thread, CheckLast(t)
  PROVE  /\ pc[t] = "send" /\ todo[t] = {} /\ UNCHANGED <<doc, todo, n, used, ts, next, now, wantTs, robbed>>
         /\ \A u \in Thread \ {t} : pc'[u] = pc[u] /\ op'[u] = op[u]
         /\ \/ pc'[t] \in {"idle", "unlock"}
            \/ pc'[t] = "prepare" /\ op'[t] = "acquire" /\ op[t] = "insert"
            \/ pc'[t] = "held" /\ op[t] = "acquire" /\ Same(t) /\ n[t][1] # 0
            \/ pc'[t] = "held" /\ op[t] = "propagate" /\ Same(t)
            \/ pc'[t] = "read" /\ op[t] = "acquire" /\ ~Same(t)
<1>1. pc[t] = "send" /\ todo[t] = {} /\ UNCHANGED <<doc, todo, n, used, ts, next, now, wantTs, robbed>> /\ Works(t)
  BY DEF CheckLast, tryVars, Works
<1>2. CASE Throws(t, TRUE)
  BY <1>1, <1>2, ThrowsTo
<1>3. CASE ~Throws(t, TRUE)
  BY <1>1, <1>3 DEF CheckLast, TypeOK, Goes
<1> QED BY <1>1, <1>2, <1>3

LEMMA InitIInv == Init => IInv
<1> SUFFICES ASSUME Init PROVE IInv
  OBVIOUS
<1> PICK there \in BOOLEAN : /\ doc = [s \in Server |-> [NoDoc EXCEPT !.there = there]]
                             /\ unsettled = ~there
  BY DEF Init
<1>0. \A s \in Server : doc[s] = [there |-> there, state |-> 0, ts |-> 0]
  BY DEF NoDoc
<1>1. TypeOK
  BY <1>0, ClusterAssumption DEF Init, TypeOK, Server, Ops, NoDoc, maxAttempts
<1>2. AttemptBound /\ TsDistinct /\ ReadsFromFirst /\ TakenIsNamed /\ TakenIsThere /\ SomeDoc
  BY <1>0 DEF Init, TakenIsThere, AttemptBound, TsDistinct, ReadsFromFirst, TakenIsNamed, SomeDoc, Works, Decided, Owner
<1>3. Contest
  BY <1>0 DEF Init, Contest, FreeAgree, Acquiring, Reading, Winning, Works, Decided, Owner
<1> QED BY <1>1, <1>2, <1>3 DEF IInv

LEMMA TypeStep ==
  ASSUME TypeOK, AttemptBound, [Next]_vars
  PROVE  TypeOK' /\ AttemptBound'
<1> USE DEF Goes, roundVars, tryVars
<1>1. ASSUME NEW t \in Thread, FindLock(t) PROVE TypeOK' /\ AttemptBound'
  <2>1. doc[Active].ts \in 0..MaxTs
    BY <1>1, ActiveIsUp DEF FindLock, TypeOK
  <2>2. TypeOK'
    BY <1>1, <2>1 DEF FindLock, TypeOK, Ops
  <2>3. AttemptBound'
    BY <1>1 DEF FindLock, TypeOK, AttemptBound, Works
  <2> QED BY <2>2, <2>3
<1>2. ASSUME NEW t \in Thread, FindTaken(t) PROVE TypeOK' /\ AttemptBound'
  BY <1>2 DEF FindTaken, vars, TypeOK, AttemptBound, Works
<1>3. ASSUME NEW t \in Thread, prepare(t) PROVE TypeOK' /\ AttemptBound'
  <2>1. used' \subseteq 1..MaxTs /\ ts' \in [Thread -> 0..MaxTs] /\ robbed' \subseteq Thread
    <3>1. CASE op[t] = "acquire"
      <4>1. PICK v \in 1..MaxTs : /\ ts' = [ts EXCEPT ![t] = v]
                                 /\ used' = used \cup {v}
                                 /\ robbed' = robbed \ {t}
        BY <1>3, <3>1 DEF prepare
      <4>2. v \in 0..MaxTs
        BY ClusterAssumption
      <4> QED BY <4>1, <4>2 DEF TypeOK
    <3>2. CASE op[t] # "acquire"
      BY <1>3, <3>2 DEF prepare, TypeOK
    <3> QED BY <3>1, <3>2
  <2>2. CASE /\ Goes(t, "send") /\ todo' = [todo EXCEPT ![t] = Server]
             /\ UNCHANGED <<op, attempted>>
    BY <1>3, <2>1, <2>2 DEF prepare, TypeOK, AttemptBound, Works
  <2>3. CASE Throws(t, TRUE)
    BY <1>3, <2>1, <2>3, ThrowsTo DEF prepare, TypeOK, AttemptBound, Works
  <2> QED BY <1>3, <2>2, <2>3 DEF prepare
<1>4. ASSUME NEW t \in Thread, SendFails(t) PROVE TypeOK' /\ AttemptBound'
  BY <1>4, ThrowsTo DEF SendFails, TypeOK, AttemptBound, Works
<1>5. ASSUME NEW t \in Thread, CheckLastFails(t) PROVE TypeOK' /\ AttemptBound'
  BY <1>5, ThrowsTo DEF CheckLastFails, TypeOK, AttemptBound, Works
<1>6. ASSUME NEW t \in Thread, CheckLast(t) PROVE TypeOK' /\ AttemptBound'
  <2>1. unsettled' \in BOOLEAN
    BY <1>6 DEF CheckLast, TypeOK
  <2>2. CASE Throws(t, TRUE)
    <3>1. Works(t)
      BY <1>6 DEF CheckLast, Works
    <3>2. TypeOK'
      BY <1>6, <2>1, <2>2, <3>1, ThrowsTo DEF CheckLast, TypeOK
    <3>3. AttemptBound'
      BY <2>2, <3>1, ThrowsTo DEF AttemptBound, Works
    <3> QED BY <3>2, <3>3
  <2>3. CASE /\ \E where \in {"prepare", "idle", "held", "read"} : Goes(t, where)
             /\ op' = op \/ op' = [op EXCEPT ![t] = "acquire"]
             /\ op'[t] = "unlock" => pc'[t] = "idle"
             /\ UNCHANGED attempted
    <3>1. TypeOK'
      BY <1>6, <2>1, <2>3 DEF CheckLast, TypeOK, Ops
    <3>2. AttemptBound'
      BY <1>6, <2>3 DEF CheckLast, TypeOK, AttemptBound, Works
    <3> QED BY <3>1, <3>2
  <2> QED BY <1>6, <2>2, <2>3 DEF CheckLast, TypeOK
<1>7. ASSUME NEW t \in Thread, ReadBack(t) PROVE TypeOK' /\ AttemptBound'
  <2>1. CASE next[t] \in up
    <3>1. next[t] \in Server /\ next[t] + 1 \in 1..(Servers + 1) /\ doc[next[t]].ts \in 0..MaxTs
      BY <2>1, ClusterAssumption DEF TypeOK, Server
    <3>2. now' \in [Thread -> 0..MaxTs] /\ next' \in [Thread -> 1..(Servers + 1)]
      BY <1>7, <2>1, <3>1 DEF ReadBack, TypeOK
    <3> QED BY <1>7, <2>1, <3>2 DEF ReadBack, TypeOK, AttemptBound, Works
  <2>2. CASE next[t] \notin up
    <3>1. next' \in [Thread -> 1..(Servers + 1)]
      BY <1>7, <2>2, ClusterAssumption DEF ReadBack, TypeOK
    <3> QED BY <1>7, <2>2, <3>1 DEF ReadBack, TypeOK, AttemptBound, Works
  <2> QED BY <2>1, <2>2
<1>8. ASSUME NEW t \in Thread, Propagate(t) PROVE TypeOK' /\ AttemptBound'
  <2>1. next' \in [Thread -> 1..(Servers + 1)]
    BY <1>8, ClusterAssumption DEF Propagate, TypeOK
  <2>2. pc' \in [Thread -> {"idle", "prepare", "send", "read", "held", "unlock"}]
    BY <1>8 DEF Propagate, TypeOK, Goes
  <2>3. op' \in [Thread -> Ops]
    BY <1>8 DEF Propagate, TypeOK, Ops
  <2>4. UNCHANGED <<doc, up, used, todo, n, wantTs, ts, now, attempted, robbed, unsettled>>
    BY <1>8 DEF Propagate
  <2>5. TypeOK'
    BY <2>1, <2>2, <2>3, <2>4 DEF TypeOK
  <2>6. \A u \in Thread : pc'[u] = "unlock" \/ (Works(u)' /\ op'[u] = "unlock") => pc[u] = pc'[u] /\ op[u] = op'[u]
    BY <1>8 DEF Propagate, TypeOK, Goes, Works
  <2>7. AttemptBound'
    BY <2>4, <2>6 DEF AttemptBound, Works
  <2> QED BY <2>5, <2>7
<1>9. ASSUME NEW t \in Thread, unlock(t) PROVE TypeOK' /\ AttemptBound'
  <2>1. attempted' \in [Thread -> 0..maxAttempts] /\ attempted'[t] < maxAttempts
    BY <1>9 DEF unlock, TypeOK, AttemptBound, maxAttempts
  <2> QED BY <1>9, <2>1 DEF unlock, TypeOK, Ops, AttemptBound, Works
<1>10. ASSUME NEW t \in Thread, NEW s \in Server, Execute(t, s) PROVE TypeOK' /\ AttemptBound'
  <2>1. Written(t, doc[s]) \in [there: BOOLEAN, state: {0, 1}, ts: 0..MaxTs]
    <3>1. doc[s] \in [there: BOOLEAN, state: {0, 1}, ts: 0..MaxTs] /\ ts[t] \in 0..MaxTs
      BY DEF TypeOK
    <3>2. [NoDoc EXCEPT !.there = TRUE] \in [there: BOOLEAN, state: {0, 1}, ts: 0..MaxTs]
      <4>1. 0 \in 0..MaxTs
        BY ClusterAssumption
      <4> QED BY <4>1 DEF NoDoc
    <3>3. CASE op[t] = "insert"
      BY <3>1, <3>2, <3>3 DEF Written
    <3>4. CASE op[t] = "unlock"
      BY <3>1, <3>4 DEF Written
    <3>5. CASE op[t] \notin {"insert", "unlock"}
      <4>1. Written(t, doc[s]) = [doc[s] EXCEPT !.state = 1, !.ts = ts[t]]
        BY <3>5 DEF Written
      <4> QED BY <3>1, <4>1
    <3> QED BY <3>3, <3>4, <3>5
  <2>2. doc' \in [Server -> [there: BOOLEAN, state: {0, 1}, ts: 0..MaxTs]]
    BY <1>10, <2>1 DEF Execute, TypeOK
  <2>3. n' \in [Thread -> [Server -> {0, 1}]] /\ todo' \in [Thread -> SUBSET Server]
    BY <1>10 DEF Execute, TypeOK
  <2> QED BY <1>10, <2>2, <2>3 DEF Execute, TypeOK, AttemptBound, Works
<1>11. ASSUME NEW s \in Server, ServerFails(s) PROVE TypeOK' /\ AttemptBound'
  BY <1>11 DEF ServerFails, TypeOK, AttemptBound, Works
<1>12. CASE UNCHANGED vars
  BY <1>12 DEF vars, TypeOK, AttemptBound, Works
<1> QED BY <1>1, <1>2, <1>3, <1>4, <1>5, <1>6, <1>7, <1>8, <1>9, <1>10, <1>11, <1>12 DEF Next, Done

---------------------------------------------------------------------------
(* OIDs, and where a handler's reading starts.                             *)

LEMMA LocalStep ==
  ASSUME TypeOK, AttemptBound, TsDistinct, ReadsFromFirst, [Next]_vars
  PROVE  TsDistinct' /\ ReadsFromFirst'
<1> USE DEF Goes, roundVars, tryVars
<1> DEFINE Used(t) == Decided(t) \/ pc[t] = "read" \/ (pc[t] = "send" /\ op[t] = "acquire")
<1>0. ASSUME UNCHANGED <<ts, used>>, \A t \in Thread : Used(t)' => Used(t) PROVE TsDistinct'
  BY <1>0 DEF TsDistinct
<1>1. ASSUME NEW t \in Thread, FindLock(t) PROVE TsDistinct' /\ ReadsFromFirst'
  <2>1. \A u \in Thread : Used(u)' => Used(u)
    BY <1>1 DEF FindLock, TypeOK, Decided, Works, Owner
  <2> QED BY <1>0, <1>1, <2>1 DEF FindLock, TypeOK, ReadsFromFirst
<1>2. ASSUME NEW t \in Thread, prepare(t) PROVE TsDistinct' /\ ReadsFromFirst'
  <2>1. /\ pc[t] = "prepare"
        /\ \A u \in Thread \ {t} : pc'[u] = pc[u] /\ op'[u] = op[u]
        /\ \/ pc'[t] = "send" /\ op'[t] = op[t]
           \/ pc'[t] \in {"idle", "unlock"}
           \/ pc'[t] = "prepare" /\ op'[t] = "acquire"
    BY <1>2, PrepareTo
  <2>2. ReadsFromFirst'
    BY <1>2, <2>1 DEF prepare, ReadsFromFirst
  <2>3. CASE op[t] # "acquire"
    <3>1. \A u \in Thread : Used(u)' => Used(u)
      BY <2>1, <2>3 DEF Decided, Works, Owner
    <3> QED BY <1>0, <1>2, <2>2, <2>3, <3>1 DEF prepare
  <2>4. CASE op[t] = "acquire"
    <3>1. PICK v \in 1..MaxTs : FreshTs(v) /\ ts' = [ts EXCEPT ![t] = v] /\ used' = used \cup {v}
      BY <1>2, <2>4 DEF prepare
    <3>2. v \notin used /\ v # 0
      BY <3>1 DEF FreshTs
    <3>3. ts'[t] = v /\ \A u \in Thread \ {t} : ts'[u] = ts[u]
      BY <3>1 DEF TypeOK
    <3>4. \A u \in Thread : ts'[u] \in used' \cup {0}
      BY <3>1, <3>3 DEF TsDistinct
    <3>5. \A u, w \in Thread : u # w /\ ts'[u] = ts'[w] => ts'[u] = 0
      BY <3>2, <3>3 DEF TsDistinct
    <3>6. \A u \in Thread : Used(u)' => ts'[u] # 0
      BY <2>1, <3>2, <3>3 DEF TsDistinct, Decided, Works, Owner
    <3> QED BY <2>2, <3>4, <3>5, <3>6 DEF TsDistinct
  <2> QED BY <2>3, <2>4
<1>3. ASSUME NEW t \in Thread, SendFails(t) \/ CheckLastFails(t) PROVE TsDistinct' /\ ReadsFromFirst'
  <2>1. PICK user \in BOOLEAN : Throws(t, user)
    BY <1>3 DEF SendFails, CheckLastFails
  <2>2. Works(t) /\ UNCHANGED <<ts, used, next>>
    BY <1>3 DEF SendFails, CheckLastFails, Works
  <2>3. \A u \in Thread : Used(u)' => Used(u)
    BY <2>1, <2>2, ThrowsTo DEF Decided, Works, Owner
  <2>4. ReadsFromFirst'
    BY <2>1, <2>2, ThrowsTo DEF ReadsFromFirst, Works
  <2> QED BY <1>0, <2>2, <2>3, <2>4
<1>4. ASSUME NEW t \in Thread, CheckLast(t) PROVE TsDistinct' /\ ReadsFromFirst'
  <2>1. Works(t) /\ UNCHANGED <<ts, used, next>>
    BY <1>4, CheckLastTo DEF Works
  <2>2. /\ \A u \in Thread \ {t} : pc'[u] = pc[u] /\ op'[u] = op[u]
        /\ \/ pc'[t] \in {"idle", "unlock"}
           \/ pc'[t] = "prepare" /\ op'[t] = "acquire"
           \/ pc[t] = "send" /\ pc'[t] \in {"held", "read"} /\ op[t] \in {"acquire", "propagate"}
    BY <1>4, CheckLastTo
  <2>3. \A u \in Thread : Used(u)' => Used(u)
    BY <2>1, <2>2 DEF Decided, Works, Owner
  <2>4. ReadsFromFirst'
    BY <2>1, <2>2 DEF ReadsFromFirst, Works
  <2> QED BY <1>0, <2>1, <2>3, <2>4
<1>5. ASSUME NEW t \in Thread, ReadBack(t) PROVE TsDistinct' /\ ReadsFromFirst'
  <2>1. \A u \in Thread : Used(u)' => Used(u)
    BY <1>5 DEF ReadBack, TypeOK, Decided, Works, Owner
  <2>2. ReadsFromFirst'
    BY <1>5 DEF ReadBack, TypeOK, ReadsFromFirst
  <2> QED BY <1>0, <1>5, <2>1, <2>2 DEF ReadBack
<1>6. ASSUME NEW t \in Thread, Propagate(t) PROVE TsDistinct' /\ ReadsFromFirst'
  <2>1. \A u \in Thread : Used(u)' => Used(u)
    BY <1>6 DEF Propagate, TypeOK, Decided, Works, Owner
  <2>2. ReadsFromFirst'
    BY <1>6 DEF Propagate, TypeOK, ReadsFromFirst
  <2> QED BY <1>0, <1>6, <2>1, <2>2 DEF Propagate
<1>7. ASSUME NEW t \in Thread, unlock(t) PROVE TsDistinct' /\ ReadsFromFirst'
  <2>1. \A u \in Thread : Used(u)' => Used(u)
    BY <1>7 DEF unlock, TypeOK, Decided, Works, Owner
  <2> QED BY <1>0, <1>7, <2>1 DEF unlock, TypeOK, ReadsFromFirst
<1>8. ASSUME UNCHANGED <<ts, used, pc, op, next>> PROVE TsDistinct' /\ ReadsFromFirst'
  BY <1>8 DEF TsDistinct, ReadsFromFirst, Decided, Works, Owner
<1>9. ASSUME NEW t \in Thread, NEW s \in Server, Execute(t, s) PROVE TsDistinct' /\ ReadsFromFirst'
  BY <1>8, <1>9 DEF Execute
<1>10. ASSUME NEW s \in Server, ServerFails(s) PROVE TsDistinct' /\ ReadsFromFirst'
  BY <1>8, <1>10 DEF ServerFails
<1>11. ASSUME UNCHANGED vars PROVE TsDistinct' /\ ReadsFromFirst'
  BY <1>8, <1>11 DEF vars
<1> HIDE DEF Used
<1> QED BY <1>1, <1>2, <1>3, <1>4, <1>5, <1>6, <1>7, <1>9, <1>10, <1>11 DEF Next, Done, FindTaken

---------------------------------------------------------------------------
(* Named everywhere.                                                       *)

\* What a server does with a request.
LEMMA ExecuteDoes ==
  ASSUME TypeOK, TakenIsThere, NEW t \in Thread, NEW s \in Server, Execute(t, s)
  PROVE  /\ pc[t] = "send" /\ s \in todo[t] /\ UNCHANGED <<pc, op, ts, now, next, wantTs, unsettled>>
         /\ \A r \in Server \ {s} : doc'[r] = doc[r] /\ n'[t][r] = n[t][r]
         /\ \A u \in Thread \ {t} : n'[u] = n[u] /\ todo'[u] = todo[u]
         /\ todo'[t] = todo[t] \ {s}
         /\ robbed \subseteq robbed'
         /\ doc[s].there => doc'[s].there
         /\ n'[t][s] = 1 => doc'[s].there
         /\ \/ doc'[s].state = 1 /\ doc'[s].ts = ts[t] /\ n'[t][s] = 1
               /\ op[t] \in {"acquire", "propagate"} /\ doc[s].there
               /\ (op[t] = "acquire" => doc[s].state = 0)
            \/ op[t] = "acquire" /\ doc'[s] = doc[s] /\ n'[t][s] = 0 /\ ~Matches(t, doc[s])
            \/ op[t] = "propagate" /\ doc'[s] = doc[s] /\ ~doc[s].there /\ n'[t][s] = 0
            \/ op[t] = "insert" /\ (doc'[s] = doc[s] \/ (doc[s].state = 0 /\ doc'[s].state = 0))
            \/ op[t] = "unlock" /\ (doc'[s] = doc[s] \/ doc'[s].state = 0)
<1> DEFINE changes == op[t] = "insert" \/ Matches(t, doc[s])
<1>1. /\ doc' = [doc EXCEPT ![s] = IF changes THEN Written(t, doc[s]) ELSE doc[s]]
      /\ n' = [n EXCEPT ![t] = [n[t] EXCEPT ![s] = IF changes THEN 1 ELSE 0]]
      /\ todo' = [todo EXCEPT ![t] = todo[t] \ {s}]
  BY DEF Execute
<1>2. /\ doc'[s] = IF changes THEN Written(t, doc[s]) ELSE doc[s]
      /\ \A r \in Server \ {s} : doc'[r] = doc[r]
  <2> HIDE DEF changes
  <2> QED BY <1>1 DEF TypeOK
<1>3. /\ n'[t][s] = IF changes THEN 1 ELSE 0
      /\ \A r \in Server \ {s} : n'[t][r] = n[t][r]
      /\ \A u \in Thread \ {t} : n'[u] = n[u]
  <2>1. n[t] \in [Server -> {0, 1}]
    BY DEF TypeOK
  <2> HIDE DEF changes
  <2>2. n'[t] = [n[t] EXCEPT ![s] = IF changes THEN 1 ELSE 0]
    BY <1>1 DEF TypeOK
  <2>3. \A u \in Thread \ {t} : n'[u] = n[u]
    BY <1>1 DEF TypeOK
  <2> QED BY <2>1, <2>2, <2>3
<1>4. todo'[t] = todo[t] \ {s} /\ \A u \in Thread \ {t} : todo'[u] = todo[u]
  BY <1>1 DEF TypeOK
<1>5. pc[t] = "send" /\ s \in todo[t] /\ UNCHANGED <<pc, op, ts, now, next, wantTs, unsettled>> /\ robbed \subseteq robbed'
  BY DEF Execute, tryVars
<1>6. doc[s] \in [there: BOOLEAN, state: {0, 1}, ts: 0..MaxTs] /\ op[t] \in Ops
  BY DEF TypeOK
<1>7. CASE op[t] = "insert"
  <2>1. CASE doc[s].there
    BY <1>2, <1>3, <1>4, <1>5, <1>7, <2>1 DEF Written
  <2>2. CASE ~doc[s].there
    <3>1. doc'[s].there /\ doc'[s].state = 0
      BY <1>2, <1>7, <2>2 DEF Written, NoDoc
    <3>2. doc[s].state = 0
      BY <2>2, <1>6 DEF TakenIsThere
    <3> QED BY <1>2, <1>3, <1>4, <1>5, <1>7, <3>1, <3>2
  <2> QED BY <2>1, <2>2
<1>8. CASE op[t] = "unlock"
  <2>1. changes => Written(t, doc[s]) = [doc[s] EXCEPT !.state = 0]
    BY <1>8 DEF Written
  <2>2. changes => doc[s].there
    BY <1>8 DEF Matches
  <2> HIDE DEF changes
  <2>3. CASE changes
    <3>1. doc'[s] = [doc[s] EXCEPT !.state = 0]
      BY <1>2, <2>1, <2>3
    <3>2. doc'[s].state = 0 /\ doc'[s].there = doc[s].there
      BY <1>6, <3>1
    <3> QED BY <1>2, <1>3, <1>4, <1>5, <1>8, <2>2, <2>3, <3>2
  <2>4. CASE ~changes
    BY <1>2, <1>3, <1>4, <1>5, <1>8, <2>4
  <2> QED BY <2>3, <2>4
<1>9. CASE op[t] \in {"acquire", "propagate"}
  <2>1. changes => Written(t, doc[s]) = [doc[s] EXCEPT !.state = 1, !.ts = ts[t]]
    BY <1>9 DEF Written
  <2>2. changes => doc[s].there /\ (op[t] = "acquire" => doc[s].state = 0)
    BY <1>9 DEF Matches
  <2>3. ~changes => ~Matches(t, doc[s]) /\ (op[t] = "propagate" => ~doc[s].there)
    BY <1>9 DEF Matches
  <2> HIDE DEF changes
  <2>4. CASE changes
    <3>1. doc'[s] = [doc[s] EXCEPT !.state = 1, !.ts = ts[t]]
      BY <1>2, <2>1, <2>4
    <3>2. doc'[s].state = 1 /\ doc'[s].ts = ts[t] /\ doc'[s].there = doc[s].there
      BY <1>6, <3>1
    <3> QED BY <1>2, <1>3, <1>4, <1>5, <1>9, <2>2, <2>4, <3>2
  <2>5. CASE ~changes
    BY <1>2, <1>3, <1>4, <1>5, <1>9, <2>3, <2>5
  <2> QED BY <2>4, <2>5
<1> QED BY <1>6, <1>7, <1>8, <1>9 DEF Ops

LEMMA NamedStep ==
  ASSUME IInv, [Next]_vars
  PROVE  TakenIsNamed' /\ TakenIsThere' /\ SomeDoc'
<1> USE DEF IInv
<1>1. ASSUME NEW t \in Thread, NEW s \in Server, Execute(t, s)
      PROVE  TakenIsNamed' /\ TakenIsThere' /\ SomeDoc'
  <2>1. TakenIsThere'
    BY <1>1, ExecuteDoes DEF TakenIsThere
  <2>2. ASSUME NEW u \in Thread, u \notin robbed', NEW r \in Server,
               \/ Owner(u)'
               \/ pc'[u] = "send" /\ op'[u] \in {"acquire", "propagate"} /\ r \notin todo'[u] /\ n'[u][r] = 1
        PROVE  NamedOn(u, r)'
    <3>1. u \notin robbed /\ ts'[u] = ts[u]
      BY <1>1, <2>2, ExecuteDoes
    <3>2. CASE u = t /\ r = s
      BY <1>1, <2>2, <3>2, ExecuteDoes DEF NamedOn, Owner
    <3>3. CASE ~(u = t /\ r = s)
      <4>1. NamedOn(u, r)
        BY <1>1, <2>2, <3>1, <3>3, ExecuteDoes DEF TakenIsNamed, Owner
      <4>2. CASE r # s
        BY <1>1, <3>1, <4>1, <4>2, ExecuteDoes DEF NamedOn
      <4>3. CASE r = s /\ u # t
        <5>1. op[t] \notin {"unlock", "propagate"}
          BY <1>1, <2>2, <4>1, <4>3 DEF Execute, NamedOn
        <5>2. doc'[s] = doc[s]
          BY <1>1, <4>1, <4>3, <5>1, ExecuteDoes DEF NamedOn
        <5> QED BY <3>1, <4>1, <4>3, <5>2 DEF NamedOn
      <4> QED BY <3>3, <4>2, <4>3
    <3> QED BY <3>2, <3>3
  <2>3. TakenIsNamed'
    BY <2>2 DEF TakenIsNamed
  <2>4. ASSUME NEW r \in Server, doc[r].there PROVE doc'[r].there
    BY <1>1, <2>4, ExecuteDoes
  <2>5. ASSUME NEW u \in Thread, pc'[u] = "send", NEW r \in Server, r \notin todo'[u], n'[u][r] = 1
        PROVE  doc'[r].there
    <3>1. CASE u = t /\ r = s
      BY <1>1, <2>5, <3>1, ExecuteDoes
    <3>2. CASE ~(u = t /\ r = s)
      BY <1>1, <2>4, <2>5, <3>2, ExecuteDoes DEF SomeDoc
    <3> QED BY <3>1, <3>2
  <2>6. ASSUME NEW u \in Thread, pc'[u] = "read" \/ (pc'[u] = "prepare" /\ op'[u] = "propagate")
        PROVE  \E r \in Server : doc'[r].there
    <3>1. PICK r \in Server : doc[r].there
      BY <1>1, <2>6, ExecuteDoes DEF SomeDoc
    <3> QED BY <2>4, <3>1
  <2>7. ASSUME NEW u \in Thread, pc'[u] = "send" /\ op'[u] = "propagate"
        PROVE  \E r \in Server : doc'[r].there /\ (r \in todo'[u] \/ n'[u][r] = 1)
    <3>1. PICK r \in Server : doc[r].there /\ (r \in todo[u] \/ n[u][r] = 1)
      BY <1>1, <2>7, ExecuteDoes DEF SomeDoc
    <3>2. r \in todo'[u] \/ n'[u][r] = 1
      BY <1>1, <2>7, <3>1, ExecuteDoes
    <3> QED BY <2>4, <3>1, <3>2
  <2>8. SomeDoc'
    BY <2>5, <2>6, <2>7 DEF SomeDoc
  <2> QED BY <2>1, <2>3, <2>8
<1>2. ASSUME NEW t \in Thread, CheckLast(t) PROVE TakenIsNamed' /\ TakenIsThere' /\ SomeDoc'
  <2>1. TakenIsThere'
    BY <1>2, CheckLastTo DEF TakenIsThere
  <2>2. n[t] \in [Server -> {0, 1}] /\ 1 \in Server
    BY ClusterAssumption DEF TypeOK, Server
  <2>3. ASSUME pc'[t] = "held", t \notin robbed, NEW r \in Server PROVE NamedOn(t, r)
    <3>1. CASE op[t] = "acquire" /\ Same(t) /\ n[t][1] # 0
      <4>1. n[t][r] = 1
        BY <2>2, <3>1 DEF Same
      <4> QED BY <1>2, <2>3, <3>1, <4>1, CheckLastTo DEF TakenIsNamed
    <3>2. CASE op[t] = "propagate" /\ Same(t)
      <4>1. PICK s \in Server : n[t][s] = 1
        BY <1>2, <3>2, CheckLastTo DEF SomeDoc
      <4>2. n[t][r] = 1
        BY <3>2, <4>1 DEF Same
      <4> QED BY <1>2, <2>3, <3>2, <4>2, CheckLastTo DEF TakenIsNamed
    <3> QED BY <1>2, <2>3, <3>1, <3>2, CheckLastTo
  <2>4. TakenIsNamed'
    BY <1>2, <2>3, CheckLastTo DEF TakenIsNamed, NamedOn, Owner
  <2>5. ASSUME pc'[t] = "read" PROVE \E r \in Server : doc[r].there
    <3>1. pc[t] = "send" /\ todo[t] = {} /\ ~Same(t)
      BY <1>2, <2>5, CheckLastTo
    <3>2. PICK r \in Server : n[t][r] = 1
      BY <2>2, <3>1 DEF Same
    <3> QED BY <3>1, <3>2 DEF SomeDoc
  <2>6. SomeDoc'
    BY <1>2, <2>5, CheckLastTo DEF SomeDoc
  <2> QED BY <2>1, <2>4, <2>6
<1>3. ASSUME NEW t \in Thread, prepare(t) PROVE TakenIsNamed' /\ TakenIsThere' /\ SomeDoc'
  <2>1. UNCHANGED <<doc, n>> /\ robbed \subseteq robbed' \cup {t} /\ \A u \in Thread \ {t} : ts'[u] = ts[u]
    BY <1>3 DEF prepare, TypeOK
  <2>2. TakenIsNamed'
    BY <1>3, <2>1, PrepareTo DEF TakenIsNamed, NamedOn, Owner
  <2>3. SomeDoc'
    BY <1>3, <2>1, PrepareTo DEF SomeDoc
  <2> QED BY <2>1, <2>2, <2>3 DEF TakenIsThere
<1>4. ASSUME NEW t \in Thread, UNCHANGED <<doc, n, ts, robbed>>,
             \A u \in Thread \ {t} : pc'[u] = pc[u] /\ op'[u] = op[u] /\ todo'[u] = todo[u],
             pc'[t] \in {"idle", "unlock", "prepare", "read"},
             pc'[t] = "read" \/ (pc'[t] = "prepare" /\ op'[t] = "propagate") => pc[t] = "read"
      PROVE  TakenIsNamed' /\ TakenIsThere' /\ SomeDoc'
  <2>1. TakenIsNamed'
    BY <1>4 DEF TakenIsNamed, NamedOn, Owner
  <2>2. SomeDoc'
    BY <1>4 DEF SomeDoc
  <2> QED BY <1>4, <2>1, <2>2 DEF TakenIsThere
<1>5. ASSUME NEW t \in Thread, SendFails(t) \/ CheckLastFails(t) PROVE TakenIsNamed' /\ TakenIsThere' /\ SomeDoc'
  <2>1. PICK user \in BOOLEAN : Throws(t, user)
    BY <1>5 DEF SendFails, CheckLastFails
  <2>2. Works(t) /\ UNCHANGED <<doc, n, ts, robbed>>
    BY <1>5 DEF SendFails, CheckLastFails, Works, tryVars
  <2>3. \A u \in Thread \ {t} : todo'[u] = todo[u]
    BY <2>1, <2>2, ThrowsTo DEF TypeOK
  <2> QED BY <1>4, <2>1, <2>2, <2>3, ThrowsTo
<1>6. ASSUME NEW t \in Thread, FindLock(t) \/ ReadBack(t) \/ Propagate(t) \/ unlock(t)
      PROVE  TakenIsNamed' /\ TakenIsThere' /\ SomeDoc'
  <2>1. UNCHANGED <<doc, n, ts, robbed, todo>>
    BY <1>6 DEF FindLock, ReadBack, Propagate, unlock, roundVars, tryVars
  <2>2. /\ \A u \in Thread \ {t} : pc'[u] = pc[u] /\ op'[u] = op[u]
        /\ pc'[t] \in {"idle", "unlock", "prepare", "read"}
        /\ pc'[t] = "read" \/ (pc'[t] = "prepare" /\ op'[t] = "propagate") => pc[t] = "read"
    <3>1. CASE FindLock(t)
      BY <3>1 DEF FindLock, TypeOK, Goes
    <3>2. CASE ReadBack(t)
      BY <3>2 DEF ReadBack, TypeOK, Goes, roundVars
    <3>3. CASE Propagate(t)
      BY <3>3 DEF Propagate, TypeOK, Goes
    <3>4. CASE unlock(t)
      BY <3>4 DEF unlock, TypeOK, Goes
    <3> QED BY <1>6, <3>1, <3>2, <3>3, <3>4
  <2> QED BY <1>4, <2>1, <2>2
<1>7. ASSUME UNCHANGED <<doc, n, ts, robbed, pc, op, todo>> PROVE TakenIsNamed' /\ TakenIsThere' /\ SomeDoc'
  BY <1>7 DEF TakenIsNamed, NamedOn, Owner, TakenIsThere, SomeDoc
<1>8. ASSUME NEW s \in Server, ServerFails(s) PROVE TakenIsNamed' /\ TakenIsThere' /\ SomeDoc'
  BY <1>7, <1>8 DEF ServerFails, roundVars, tryVars
<1>9. ASSUME UNCHANGED vars PROVE TakenIsNamed' /\ TakenIsThere' /\ SomeDoc'
  BY <1>7, <1>9 DEF vars, roundVars, tryVars
<1> QED BY <1>1, <1>2, <1>3, <1>5, <1>6, <1>8, <1>9 DEF Next, Done, FindTaken

---------------------------------------------------------------------------
(* One winner.                                                             *)

\* In a contest only free documents are taken by an acquiring update, and a
\* propagation writes the ts that is the highest already.
LEMMA ContestExecute ==
  ASSUME IInv, ~unsettled, NEW t \in Thread, NEW s \in Server, Execute(t, s)
  PROVE  /\ op[t] \in {"acquire", "propagate"}
         /\ doc'[s].state = 1 /\ doc'[s].there
         /\ n'[t][s] = 1 => doc'[s].ts = ts[t]
         /\ doc[s].state = 1 /\ op[t] = "acquire" => doc'[s] = doc[s] /\ n'[t][s] = 0
         /\ op[t] = "propagate" => doc'[s].ts = ts[t] /\ Full /\ Highest(ts[t]) /\ ts[t] # 0
<1> USE DEF IInv
<1>1. pc[t] = "send" /\ op[t] \in {"acquire", "propagate"} /\ doc[s].there
  BY ExecuteDoes DEF Contest, Works
<1>2. CASE op[t] = "acquire"
  <2>1. doc[s].state = 0 => Matches(t, doc[s])
    BY <1>1, <1>2 DEF Contest, FreeAgree, Matches, Works
  <2>2. doc[s].state \in {0, 1}
    BY DEF TypeOK
  <2> QED BY <1>1, <1>2, <2>1, <2>2, ExecuteDoes
<1>3. CASE op[t] = "propagate"
  <2>1. Decided(t)
    BY <1>1, <1>3 DEF Decided, Works
  <2>2. Full /\ Highest(ts[t]) /\ ts[t] # 0
    BY <2>1 DEF Contest, Winning, TsDistinct
  <2> QED BY <1>1, <1>3, <2>2, ExecuteDoes
<1> QED BY <1>1, <1>2, <1>3

LEMMA ContestExecuteStep ==
  ASSUME IInv, ~unsettled, NEW t \in Thread, NEW s \in Server, Execute(t, s)
  PROVE  Contest'
<1> USE DEF IInv
<1>1. /\ UNCHANGED <<pc, op, ts, now, next, wantTs, unsettled>> /\ s \in todo[t]
      /\ \A r \in Server \ {s} : doc'[r] = doc[r] /\ n'[t][r] = n[t][r]
      /\ \A u \in Thread \ {t} : n'[u] = n[u] /\ todo'[u] = todo[u]
      /\ todo'[t] = todo[t] \ {s}
  BY ExecuteDoes
<1>21. pc[t] = "send"
  BY DEF Execute
<1>22. ~unsettled /\ IInv
  OBVIOUS
<1> HIDE DEF IInv
<1>2. /\ op[t] \in {"acquire", "propagate"} /\ pc[t] = "send"
      /\ doc'[s].state = 1 /\ doc'[s].there
      /\ n'[t][s] = 1 => doc'[s].ts = ts[t]
      /\ doc[s].state = 1 /\ op[t] = "acquire" => doc'[s] = doc[s] /\ n'[t][s] = 0
      /\ op[t] = "propagate" => doc'[s].ts = ts[t] /\ Full /\ Highest(ts[t]) /\ ts[t] # 0
  BY <1>21, <1>22, ContestExecute
<1> USE DEF IInv
<1>3. \A r \in Server : doc[r].state = 1 => doc'[r].state = 1
  BY <1>1, <1>2
<1>4. /\ \A r \in Server : doc'[r].there
      /\ \A u \in Thread : pc'[u] # "unlock" /\ (Works(u)' => op'[u] \in {"acquire", "propagate"})
  BY <1>1, <1>2 DEF Contest, Works
<1>5. FreeAgree'
  BY <1>1, <1>2 DEF Contest, FreeAgree, Works
<1>6. ASSUME NEW u \in Thread, pc'[u] = "send" /\ op'[u] = "acquire"
      PROVE  /\ \A r \in Server : r \notin todo'[u] => doc'[r].state = 1
             /\ \/ \A r \in Server : r \notin todo'[u] /\ n'[u][r] = 1 => doc'[r].ts = ts'[u]
                \/ \E r \in Server : doc'[r].state = 1 /\ (r \notin todo'[u] => n'[u][r] = 0)
  <2>1. pc[u] = "send" /\ op[u] = "acquire" /\ ts'[u] = ts[u]
    BY <1>1, <1>6
  <2>2. \A r \in Server : r \notin todo'[u] => doc'[r].state = 1
    BY <1>1, <1>2, <1>3, <2>1 DEF Contest, Acquiring
  <2>3. CASE \E r \in Server : doc[r].state = 1 /\ (r \notin todo[u] => n[u][r] = 0)
    <3>1. PICK r \in Server : doc[r].state = 1 /\ (r \notin todo[u] => n[u][r] = 0)
      BY <2>3
    <3>2. r \notin todo'[u] => n'[u][r] = 0
      BY <1>1, <1>2, <2>1, <3>1
    <3> QED BY <1>3, <2>2, <3>1, <3>2
  <2>4. CASE ~\E r \in Server : doc[r].state = 1 /\ (r \notin todo[u] => n[u][r] = 0)
    <3>1. \A r \in Server : r \notin todo[u] /\ n[u][r] = 1 => doc[r].ts = ts[u]
      BY <2>1, <2>4 DEF Contest, Acquiring
    <3>2. CASE u = t
      BY <1>1, <1>2, <2>1, <2>2, <3>1, <3>2
    <3>3. CASE u # t /\ op[t] = "acquire"
      <4>1. doc[s].state = 1 \/ s \in todo[u]
        BY <2>1 DEF Contest, Acquiring
      <4> QED BY <1>1, <1>2, <2>1, <2>2, <3>1, <3>3, <4>1
    <3>4. CASE u # t /\ op[t] = "propagate"
      <4>1. Full /\ Highest(ts[t]) /\ ts[t] # 0
        BY <1>2, <3>4
      <4>2. \A r \in Server : doc[r].ts = ts[u]
        <5>1. \A r \in Server : n[u][r] \in {0, 1}
          BY DEF TypeOK
        <5> QED BY <2>4, <3>1, <4>1, <5>1 DEF Full
      <4>3. ts[t] = ts[u]
        BY <4>1, <4>2 DEF Highest
      <4> QED BY <3>4, <4>1, <4>3 DEF TsDistinct
    <3> QED BY <1>2, <3>2, <3>3, <3>4
  <2> QED BY <2>3, <2>4
<1>7. Acquiring'
  BY <1>6 DEF Acquiring
<1>8. ASSUME Full PROVE Full' /\ \A r \in Server : doc'[r].ts = doc[r].ts \/ (r = s /\ doc'[s].ts = ts[t] /\ Highest(ts[t]))
  BY <1>1, <1>2, <1>3, <1>8 DEF Full
<1>9. ASSUME NEW u \in Thread, pc'[u] = "read" PROVE Full' /\ Reads(u)'
  <2>1. Full /\ Reads(u)
    BY <1>1, <1>9 DEF Contest, Reading
  <2>2. PICK r \in Server : /\ \A q \in Server : doc[q].ts <= doc[r].ts
                            /\ next[u] > 1 => now[u] <= doc[r].ts
                            /\ r < next[u] => now[u] >= doc[r].ts
    BY <2>1 DEF Reads
  <2>3. \A q \in Server : doc[q].ts \in Nat
    BY ClusterAssumption DEF TypeOK
  <2>4. Highest(ts[t]) => ts[t] = doc[r].ts
    <3>1. ASSUME Highest(ts[t]) PROVE ts[t] = doc[r].ts
      <4>1. PICK q \in Server : doc[q].ts = ts[t]
        BY <3>1 DEF Highest
      <4> QED BY <2>2, <2>3, <3>1, <4>1 DEF Highest
    <3> QED BY <3>1
  <2>5. doc'[r].ts = doc[r].ts /\ \A q \in Server : doc'[q].ts <= doc[r].ts
    BY <1>8, <2>1, <2>2, <2>3, <2>4
  <2>6. Reads(u)'
    BY <1>1, <2>2, <2>5 DEF Reads
  <2> QED BY <1>8, <2>1, <2>6
<1>10. ASSUME NEW u \in Thread, Decided(u)' PROVE Full' /\ Highest(ts[u])'
  <2>1. Full /\ Highest(ts[u])
    BY <1>1, <1>10 DEF Contest, Winning, Decided, Owner, Works
  <2>2. \A q \in Server : doc[q].ts \in Nat
    BY ClusterAssumption DEF TypeOK
  <2>3. Highest(ts[t]) => ts[t] = ts[u]
    <3>1. ASSUME Highest(ts[t]) PROVE ts[t] = ts[u]
      <4>1. PICK q \in Server, r \in Server : doc[q].ts = ts[t] /\ doc[r].ts = ts[u]
        BY <2>1, <3>1 DEF Highest
      <4>2. doc[q].ts <= ts[u] /\ doc[r].ts <= ts[t]
        BY <2>1, <3>1 DEF Highest
      <4> QED BY <2>2, <4>1, <4>2
    <3> QED BY <3>1
  <2>4. \A q \in Server : doc'[q].ts = doc[q].ts \/ (q = s /\ doc'[q].ts = ts[u])
    BY <1>8, <2>1, <2>3
  <2>5. PICK q \in Server : doc[q].ts = ts[u]
    BY <2>1 DEF Highest
  <2>6. doc'[q].ts = ts[u]
    BY <2>4, <2>5
  <2>7. \A r \in Server : doc'[r].ts <= ts[u]
    BY <2>1, <2>2, <2>4, <2>5 DEF Highest
  <2> QED BY <1>1, <1>8, <2>1, <2>6, <2>7 DEF Highest
<1> QED BY <1>4, <1>5, <1>7, <1>9, <1>10 DEF Contest, Reading, Winning

\* A thread that moves on while the documents stay as they are changes nothing
\* for the others, and only what the following conditions say for itself.
LEMMA ContestMove ==
  ASSUME IInv, ~unsettled, NEW t \in Thread, UNCHANGED <<doc, n>>,
         \A u \in Thread \ {t} :
           /\ pc'[u] = pc[u] /\ op'[u] = op[u] /\ todo'[u] = todo[u]
           /\ wantTs'[u] = wantTs[u] /\ ts'[u] = ts[u] /\ now'[u] = now[u] /\ next'[u] = next[u],
         pc'[t] # "unlock",
         Works(t)' => op'[t] \in {"acquire", "propagate"},
         Works(t)' /\ op'[t] = "acquire" =>
           \A s \in Server : doc[s].state = 0 => wantTs'[t] = doc[s].ts,
         pc'[t] = "send" /\ op'[t] = "acquire" => todo'[t] = Server,
         pc'[t] = "read" => Full /\ Reads(t)',
         Decided(t)' => Full /\ Highest(ts'[t])
  PROVE  Contest'
<1> USE DEF IInv
<1>1. /\ \A s \in Server : doc'[s].there
      /\ \A u \in Thread : pc'[u] # "unlock" /\ (Works(u)' => op'[u] \in {"acquire", "propagate"})
  BY DEF Contest, Works
<1>2. FreeAgree'
  BY DEF Contest, FreeAgree, Works
<1>3. Acquiring'
  BY DEF Contest, Acquiring
<1>4. Reading'
  BY DEF Contest, Reading, Full, Reads
<1>5. Winning'
  BY DEF Contest, Winning, Full, Highest, Decided, Owner, Works
<1> QED BY <1>1, <1>2, <1>3, <1>4, <1>5 DEF Contest

LEMMA ContestCheckLast ==
  ASSUME IInv, NEW t \in Thread, CheckLast(t)
  PROVE  Contest'
<1> USE DEF IInv
<1>1. CASE unsettled'
  BY <1>1 DEF Contest
<1>2. CASE ~unsettled' /\ unsettled
  <2>1. Quiet'
    BY <1>2 DEF CheckLast
  <2>2. \A u \in Thread : pc'[u] = "idle"
    BY <2>1 DEF Quiet
  <2>3. \A s, r \in Server : doc'[s].there /\ doc'[s].ts = doc'[r].ts
    BY <2>1 DEF Quiet
  <2> QED BY <2>2, <2>3 DEF Contest, FreeAgree, Acquiring, Reading, Winning, Works, Decided, Owner
<1>3. CASE ~unsettled
  <2>1. op[t] \in {"acquire", "propagate"}
    BY <1>3, CheckLastTo DEF Contest, Works
  <2>2. op[t] = "propagate" => Full /\ Highest(ts[t])
    BY <1>3, <2>1, CheckLastTo DEF Contest, Winning, Decided, Works
  <2>3. op[t] = "acquire" => Full
    BY <1>3, CheckLastTo DEF Contest, Acquiring, Full
  <2>4. ASSUME op[t] = "acquire", Same(t), n[t][1] # 0 PROVE Highest(ts[t])
    <3>1. 1 \in Server /\ \A s \in Server : n[t][s] = 1
      <4>1. 1 \in Server
        BY ClusterAssumption DEF Server
      <4> QED BY <2>4, <4>1 DEF Same, TypeOK
    <3>2. todo[t] = {} /\ pc[t] = "send"
      BY CheckLastTo
    <3>3. \A s \in Server : doc[s].ts = ts[t]
      BY <1>3, <2>4, <3>1, <3>2 DEF Contest, Acquiring
    <3>4. \A s \in Server : doc[s].ts \in Nat
      BY ClusterAssumption DEF TypeOK
    <3> QED BY <3>1, <3>3, <3>4 DEF Highest
  <2>5. ASSUME pc'[t] = "read" PROVE Full /\ Reads(t)'
    <3>1. op[t] = "acquire" /\ next'[t] = 1 /\ doc' = doc
      BY <2>5, CheckLastTo DEF ReadsFromFirst
    <3>2. PICK s \in Server : \A r \in Server : doc[r].ts <= doc[s].ts
      BY SomeServerHighest
    <3>3. ~(s < 1)
      BY ClusterAssumption DEF Server
    <3> QED BY <2>3, <3>1, <3>2, <3>3 DEF Reads
  <2>6. Decided(t)' => Full /\ Highest(ts'[t])
    BY <2>2, <2>3, <2>4, CheckLastTo DEF Decided, Owner, Works
  <2>7. pc'[t] # "unlock" /\ pc'[t] \notin {"prepare", "send"}
    <3>1. CASE Throws(t, TRUE)
      BY <2>1, <3>1, CheckLastTo, ThrowsTo DEF Works
    <3>2. CASE ~Throws(t, TRUE)
      BY <2>1, <3>2 DEF CheckLast, TypeOK, Goes
    <3> QED BY <3>1, <3>2
  <2> QED BY <1>3, <2>5, <2>6, <2>7, CheckLastTo, ContestMove DEF Works
<1> QED BY <1>1, <1>2, <1>3

LEMMA ContestStep ==
  ASSUME IInv, [Next]_vars
  PROVE  Contest'
<1> USE DEF IInv
<1>1. ASSUME NEW t \in Thread, CheckLast(t) PROVE Contest'
  BY <1>1, ContestCheckLast
<1>2. ASSUME NEW t \in Thread, unlock(t) PROVE Contest'
  BY <1>2 DEF unlock, Contest
<1> SUFFICES ASSUME ~ \E t \in Thread : CheckLast(t) \/ unlock(t)
             PROVE  Contest'
  BY <1>1, <1>2
<1>3. unsettled' = unsettled
  BY DEF Next, FindLock, FindTaken, prepare, SendFails, CheckLastFails, ReadBack, Propagate, Execute,
         ServerFails, Done, vars
<1> SUFFICES ASSUME ~unsettled PROVE Contest'
  BY <1>3 DEF Contest
<1>4. ASSUME NEW t \in Thread, NEW s \in Server, Execute(t, s) PROVE Contest'
  BY <1>4, ContestExecuteStep
<1>5. ASSUME NEW t \in Thread, FindLock(t) PROVE Contest'
  <2>1. Active \in Server /\ doc[Active].state = 0 /\ doc[Active].there
    BY <1>5, ActiveIsUp DEF FindLock, Contest
  <2>2. /\ UNCHANGED <<doc, todo, n, ts, now, next>>
        /\ pc'[t] = "prepare" /\ op'[t] = "acquire" /\ wantTs'[t] = doc[Active].ts
        /\ \A u \in Thread \ {t} : pc'[u] = pc[u] /\ op'[u] = op[u] /\ wantTs'[u] = wantTs[u]
    BY <1>5, <2>1 DEF FindLock, TypeOK, Goes
  <2>3. \A s \in Server : doc[s].state = 0 => wantTs'[t] = doc[s].ts
    BY <2>1, <2>2 DEF Contest, FreeAgree
  <2> QED BY <2>2, <2>3, ContestMove DEF Works, Decided, Owner
<1>6. ASSUME NEW t \in Thread, prepare(t) PROVE Contest'
  <2>1. /\ UNCHANGED <<doc, n, wantTs, now, next>>
        /\ \A u \in Thread \ {t} : ts'[u] = ts[u]
        /\ op[t] # "acquire" => ts'[t] = ts[t]
    BY <1>6 DEF prepare, TypeOK
  <2>2. op[t] \in {"acquire", "propagate"}
    BY <1>6 DEF prepare, Contest, Works
  <2>3. pc'[t] = "idle" \/ (pc'[t] = "send" /\ op'[t] = op[t] /\ todo'[t] = Server)
    <3>1. CASE Goes(t, "send") /\ todo' = [todo EXCEPT ![t] = Server] /\ UNCHANGED <<op, attempted>>
      BY <3>1 DEF TypeOK, Goes
    <3>2. CASE Throws(t, TRUE)
      BY <1>6, <2>2, <3>2, ThrowsTo DEF Works, prepare
    <3> QED BY <1>6, <3>1, <3>2 DEF prepare
  <2>4. pc[t] = "prepare"
    BY <1>6 DEF prepare
  <2>5. op[t] = "acquire" => \A s \in Server : doc[s].state = 0 => wantTs[t] = doc[s].ts
    BY <2>4 DEF Contest, FreeAgree, Works
  <2>6. op[t] = "propagate" => Full /\ Highest(ts[t])
    BY <2>4 DEF Contest, Winning, Decided, Works
  <2>7. Decided(t)' => Full /\ Highest(ts'[t])
    BY <2>1, <2>2, <2>3, <2>6 DEF Decided, Owner, Works
  <2>8. pc'[t] # "unlock" /\ pc'[t] # "read" /\ (Works(t)' => op'[t] = op[t])
    BY <2>3 DEF Works
  <2> QED BY <1>6, <2>1, <2>2, <2>3, <2>5, <2>7, <2>8, PrepareTo, ContestMove
<1>7. ASSUME NEW t \in Thread, SendFails(t) \/ CheckLastFails(t) PROVE Contest'
  <2>1. PICK user \in BOOLEAN : Throws(t, user)
    BY <1>7 DEF SendFails, CheckLastFails
  <2>2. Works(t) /\ UNCHANGED <<doc, n, wantTs, ts, now, next>>
    BY <1>7 DEF SendFails, CheckLastFails, Works, tryVars
  <2>3. op[t] \in {"acquire", "propagate"}
    BY <2>2 DEF Contest
  <2>4. pc'[t] = "idle"
    BY <2>1, <2>2, <2>3, ThrowsTo
  <2>5. \A u \in Thread \ {t} : todo'[u] = todo[u]
    BY <2>1, <2>2, ThrowsTo DEF TypeOK
  <2>6. \A u \in Thread \ {t} : pc'[u] = pc[u] /\ op'[u] = op[u]
    BY <2>1, <2>2, ThrowsTo
  <2> QED BY <2>2, <2>4, <2>5, <2>6, ContestMove DEF Works, Decided, Owner
<1>8. ASSUME NEW t \in Thread, ReadBack(t) PROVE Contest'
  <2>1. /\ UNCHANGED <<doc, n, op, todo, wantTs, ts>>
        /\ pc[t] = "read" /\ next[t] <= Servers
        /\ \A u \in Thread \ {t} : pc'[u] = pc[u] /\ now'[u] = now[u] /\ next'[u] = next[u]
    BY <1>8 DEF ReadBack, TypeOK, Goes, roundVars
  <2>2. Full /\ Reads(t)
    BY <2>1 DEF Contest, Reading
  <2>3. CASE next[t] \notin up
    <3>1. pc'[t] = "idle"
      BY <1>8, <2>3 DEF ReadBack, TypeOK, Goes
    <3> QED BY <2>1, <3>1, ContestMove DEF Works, Decided, Owner
  <2>4. CASE next[t] \in up
    <3> DEFINE k == next[t]
    <3>1. /\ pc'[t] = "read" /\ next'[t] = k + 1
          /\ now'[t] = IF k = 1 \/ now[t] < doc[k].ts THEN doc[k].ts ELSE now[t]
      BY <1>8, <2>1, <2>4 DEF ReadBack, TypeOK
    <3>2. PICK s \in Server : /\ \A r \in Server : doc[r].ts <= doc[s].ts
                              /\ k > 1 => now[t] <= doc[s].ts
                              /\ s < k => now[t] >= doc[s].ts
      BY <2>2 DEF Reads
    <3>3. k \in Server /\ k \in Nat /\ s \in Nat /\ k >= 1 /\ s >= 1 /\ now[t] \in Nat /\ \A r \in Server : doc[r].ts \in Nat
      BY <2>4, ClusterAssumption DEF TypeOK, Server
    <3> HIDE DEF k
    <3>4. now'[t] <= doc[s].ts
      BY <3>1, <3>2, <3>3
    <3>5. s < k + 1 => now'[t] >= doc[s].ts
      BY <3>1, <3>2, <3>3
    <3>6. Reads(t)'
      BY <2>1, <3>1, <3>2, <3>4, <3>5 DEF Reads
    <3> QED BY <2>1, <2>2, <3>1, <3>6, ContestMove DEF Works, Decided, Owner
  <2> QED BY <2>3, <2>4
<1>9. ASSUME NEW t \in Thread, Propagate(t) PROVE Contest'
  <2>1. /\ UNCHANGED <<doc, n, todo, wantTs, ts, now>>
        /\ pc[t] = "read" /\ next[t] > Servers
        /\ pc'[t] = "idle" \/ (pc'[t] = "prepare" /\ op'[t] = "propagate" /\ now[t] = ts[t])
        /\ \A u \in Thread \ {t} : pc'[u] = pc[u] /\ op'[u] = op[u] /\ next'[u] = next[u]
    BY <1>9 DEF Propagate, TypeOK, Goes
  <2>2. ASSUME now[t] = ts[t] PROVE Full /\ Highest(ts[t])
    <3>1. PICK s \in Server : /\ \A r \in Server : doc[r].ts <= doc[s].ts
                              /\ next[t] > 1 => now[t] <= doc[s].ts
                              /\ s < next[t] => now[t] >= doc[s].ts
      BY <2>1 DEF Contest, Reading, Reads
    <3>2. s < next[t] /\ next[t] > 1
      <4>1. next[t] \in Nat /\ s \in Nat /\ s <= Servers /\ Servers > 1
        BY ClusterAssumption DEF TypeOK, Server
      <4> QED BY <2>1, <4>1, ClusterAssumption
    <3>3. now[t] = doc[s].ts
      <4>1. now[t] \in Nat /\ doc[s].ts \in Nat
        BY ClusterAssumption DEF TypeOK
      <4> QED BY <3>1, <3>2, <4>1
    <3> QED BY <2>1, <2>2, <3>1, <3>3 DEF Contest, Reading, Highest
  <2> QED BY <2>1, <2>2, ContestMove DEF Works, Decided, Owner
<1>10. ASSUME UNCHANGED <<doc, pc, op, todo, n, wantTs, ts, now, next>> PROVE Contest'
  BY <1>10, <1>3 DEF Contest, FreeAgree, Acquiring, Reading, Reads, Winning, Full, Highest, Works, Decided, Owner
<1>11. ASSUME NEW s \in Server, ServerFails(s) PROVE Contest'
  BY <1>10, <1>11 DEF ServerFails, roundVars, tryVars
<1>12. ASSUME UNCHANGED vars PROVE Contest'
  BY <1>10, <1>12 DEF vars, roundVars, tryVars
<1> QED BY <1>4, <1>5, <1>6, <1>7, <1>8, <1>9, <1>11, <1>12 DEF Next, Done, FindTaken

---------------------------------------------------------------------------
(* Theorems.                                                               *)

LEMMA Inductive == Spec => []IInv
<1>1. IInv /\ [Next]_vars => IInv'
  <2> SUFFICES ASSUME IInv, [Next]_vars PROVE IInv'
    OBVIOUS
  <2>1. TypeOK' /\ AttemptBound'
    BY TypeStep DEF IInv
  <2>2. TsDistinct' /\ ReadsFromFirst'
    BY LocalStep DEF IInv
  <2> QED BY <2>1, <2>2, NamedStep, ContestStep DEF IInv
<1> QED BY <1>1, InitIInv, PTL DEF Spec

\* Every variable keeps its type, whatever servers and clocks do.
THEOREM TypeCorrect == Spec => []TypeOK
<1>1. IInv => TypeOK
  BY DEF IInv
<1> QED BY <1>1, Inductive, PTL

\* An owner whose document no unlock and no propagation of another thread
\* overwrote is named by every config server, however many of them failed and
\* came back in between.
THEOREM OwnerNamed == Spec => []OwnerIsNamedEverywhere
<1>1. IInv => OwnerIsNamedEverywhere
  BY DEF IInv, TakenIsNamed, OwnerIsNamedEverywhere, NamedOn
<1> QED BY <1>1, Inductive, PTL

\* A contest for a lock that was free on all servers has one winner at most:
\* every thread that decided for itself has the highest ts of all documents.
THEOREM OneWinner == Spec => []ContestHasOneWinner
<1>1. IInv => ContestHasOneWinner
  <2> SUFFICES ASSUME IInv, ~unsettled, NEW t \in Thread, NEW u \in Thread, Owner(t), Owner(u)
               PROVE  t = u
    BY DEF ContestHasOneWinner, MutualExclusion
  <2>1. Highest(ts[t]) /\ Highest(ts[u]) /\ ts[t] # 0
    BY DEF IInv, Contest, Winning, Decided, TsDistinct
  <2>2. PICK s \in Server, r \in Server : doc[s].ts = ts[t] /\ doc[r].ts = ts[u]
    BY <2>1 DEF Highest
  <2>3. doc[s].ts <= ts[u] /\ doc[r].ts <= ts[t]
    BY <2>1 DEF Highest
  <2>4. doc[s].ts \in Nat /\ doc[r].ts \in Nat
    BY ClusterAssumption DEF IInv, TypeOK
  <2>5. ts[t] = ts[u]
    BY <2>2, <2>3, <2>4
  <2> QED BY <2>1, <2>5 DEF IInv, TsDistinct
<1> QED BY <1>1, Inductive, PTL
=============================================================================
