----------------------- MODULE DistributedLockProofs -----------------------
(***************************************************************************)
(* What DistributedLock guarantees for any number of threads, processes,   *)
(* clock offsets and time-outs.                                            *)
(***************************************************************************)
EXTENDS DistributedLock, TLAPS

\* unlock gives up after maxAttempts, and only an idle thread remembers that.
AttemptBound == \A t \in Thread : pc[t] # "idle" => attempted[t] < maxAttempts

\* No two threads hold the same OID.
TsDistinct == \A t, u \in Thread : t # u /\ myTs[t] = myTs[u] => myTs[t] = 0

\* A taken lock has a document with an OID.
TakenDoc == doc.state = 1 => doc.there /\ doc.ts # 0 /\ doc.ts \in Ts

\* A thread about to take the lock is not the one the document names: it saw
\* the lock free or reset it, and acquisitions since then have newer OIDs.
AcquirerNotNamed == \A t \in Thread : pc[t] \in {"insert", "acquire"} => ~Named(t)

IInv ==
    /\ TypeOK
    /\ AttemptBound
    /\ TsDistinct
    /\ TakenDoc
    /\ AcquirerNotNamed
    /\ UnrobbedOwnerIsNamed
    /\ TakenByOne

\* OID::init gives a value nobody has a copy of, if there is one left.
LEMMA FreshTsIsNew ==
  ASSUME \E x \in Ts : x \notin UsedTs
  PROVE  FreshTs \in Ts /\ FreshTs \notin UsedTs
BY DEF FreshTs

\* The write of lock_try preserves the typing of what it assigns.
LEMMA AcquireWriteType ==
  ASSUME TypeOK, NEW t \in Thread, AcquireWrite(t)
  PROVE  doc' \in LockDoc /\ myTs' \in [Thread -> Ts \cup {0}]
BY FreshTsIsNew, ConstantsAssumption DEF TypeOK, AcquireWrite, LockDoc

LEMMA InitIInv == Init => IInv
<1> SUFFICES ASSUME Init PROVE IInv
  OBVIOUS
<1>1. TypeOK
  BY ConstantsAssumption DEF Init, TypeOK, NoDoc, LockDoc, PcStates, TryStates, maxAttempts
<1>2. AttemptBound /\ TsDistinct
  BY DEF Init, AttemptBound, TsDistinct, maxAttempts
<1>3. TakenDoc /\ AcquirerNotNamed /\ UnrobbedOwnerIsNamed /\ TakenByOne
  BY DEF Init, NoDoc, TakenDoc, AcquirerNotNamed, UnrobbedOwnerIsNamed, TakenByOne, Owner, Named
<1> QED BY <1>1, <1>2, <1>3 DEF IInv

LEMMA TypeStep ==
  ASSUME TypeOK, AttemptBound, [Next]_vars
  PROVE  TypeOK'
<1> USE ConstantsAssumption DEF TypeOK, LockDoc, PcStates, TryStates, maxAttempts
<1>1. ASSUME NEW t \in Thread, Construct(t) PROVE TypeOK'
  BY <1>1 DEF Construct, GoTo, dbVars, tryVars
<1>2. ASSUME NEW t \in Thread, FindLock(t) PROVE TypeOK'
  BY <1>2 DEF FindLock, GoTo, dbVars, pingVars
<1>3. ASSUME NEW t \in Thread, InsertLock(t) PROVE TypeOK'
  BY <1>3 DEF InsertLock, InsertWrite, NoDoc, GoTo, pingVars, tryVars
<1>4. ASSUME NEW t \in Thread, FindPing(t) PROVE TypeOK'
  BY <1>4 DEF FindPing, GoTo, Leave, dbVars, pingVars
<1>5. ASSUME NEW t \in Thread, TakeOver(t) PROVE TypeOK'
  BY <1>5 DEF TakeOver, ResetDoc, RobbedBy, GoTo, pingVars, tryVars
<1>6. ASSUME NEW t \in Thread, Acquire(t) PROVE TypeOK'
  BY <1>6, AcquireWriteType DEF Acquire, Leave, pingVars
<1>7. ASSUME NEW t \in Thread, LockTryThrows(t) PROVE TypeOK'
  <2>1. doc' \in LockDoc /\ myTs' \in [Thread -> Ts \cup {0}] /\ robbed' \subseteq Thread
    <3>1. CASE AcquireWrite(t) /\ UNCHANGED robbed
      <4>1. doc' \in LockDoc /\ myTs' \in [Thread -> Ts \cup {0}]
        BY <3>1, AcquireWriteType
      <4> QED BY <3>1, <4>1
    <3>2. CASE InsertWrite /\ UNCHANGED <<myTs, robbed>>
      BY <3>2 DEF InsertWrite, NoDoc
    <3>3. CASE ResetDoc /\ robbed' = robbed \cup RobbedBy(t) /\ UNCHANGED myTs
      BY <3>3 DEF ResetDoc, RobbedBy
    <3>4. CASE UNCHANGED <<doc, myTs, robbed>>
      BY <3>4
    <3> QED BY <1>7, <3>1, <3>2, <3>3, <3>4 DEF LockTryThrows
  <2> QED BY <1>7, <2>1 DEF LockTryThrows, Leave, pingVars
<1>8. ASSUME NEW t \in Thread, Unlock(t) PROVE TypeOK'
  BY <1>8 DEF Unlock, UnlockWrite, ResetDoc, RobbedBy, GoTo, pingVars
<1>9. ASSUME NEW t \in Thread, UnlockThrows(t) PROVE TypeOK'
  <2>1. attempted[t] < maxAttempts
    BY <1>9 DEF UnlockThrows, AttemptBound
  <2>2. attempted' \in [Thread -> 0..maxAttempts]
    BY <1>9, <2>1 DEF UnlockThrows
  <2> QED BY <1>9, <2>2 DEF UnlockThrows, UnlockWrite, ResetDoc, RobbedBy, GoTo, pingVars, tryVars
<1>10. ASSUME NEW p \in Process, PingerStep(p) PROVE TypeOK'
  BY <1>10 DEF PingerStep, Ping, PingFails, QueryLocks, RemoveOldPings, PingWrite, RemoveWrite, dbVars, tryVars
<1>11. ASSUME NEW p \in Process, Crash(p) PROVE TypeOK'
  BY <1>11 DEF Crash, dbVars
<1>12. CASE Tick
  BY <1>12 DEF Tick, pingVars, tryVars
<1>13. CASE UNCHANGED vars
  BY <1>13 DEF vars, dbVars, pingVars, tryVars
<1> QED BY <1>1, <1>2, <1>3, <1>4, <1>5, <1>6, <1>7, <1>8, <1>9, <1>10, <1>11, <1>12, <1>13
        DEF Next, ThreadStep

LEMMA BoundsStep ==
  ASSUME TypeOK, AttemptBound, [Next]_vars
  PROVE  AttemptBound'
<1> USE DEF TypeOK, AttemptBound, maxAttempts
<1>1. ASSUME NEW t \in Thread, ThreadStep(t) PROVE AttemptBound'
  BY <1>1 DEF ThreadStep, Construct, FindLock, InsertLock, FindPing, TakeOver, Acquire, LockTryThrows,
              Unlock, UnlockThrows, GoTo, Leave
<1>2. ASSUME NEW p \in Process, PingerStep(p) PROVE AttemptBound'
  BY <1>2 DEF PingerStep, Ping, PingFails, QueryLocks, RemoveOldPings
<1>3. ASSUME NEW p \in Process, Crash(p) PROVE AttemptBound'
  BY <1>3 DEF Crash
<1>4. CASE Tick \/ UNCHANGED vars
  BY <1>4 DEF Tick, vars
<1> QED BY <1>1, <1>2, <1>3, <1>4 DEF Next

\* What the update of lock_try does when its query matches: the document names
\* the thread, with an OID nobody else has.
LEMMA AcquireMatched ==
  ASSUME TypeOK, TsDistinct, NEW t \in Thread, AcquireWrite(t), Matches(t)
  PROVE  /\ doc'.there /\ doc'.state = 1 /\ doc'.process = ProcessOf[t]
         /\ doc'.ts = myTs'[t] /\ doc'.ts \in Ts
         /\ \A u \in Thread \ {t} : myTs'[u] = myTs[u] /\ myTs'[u] # doc'.ts
         /\ doc.state = 0
<1>1. FreshTs \in Ts /\ FreshTs \notin UsedTs
  BY FreshTsIsNew DEF AcquireWrite
<1>2. doc' = [doc EXCEPT !.state = 1, !.process = ProcessOf[t], !.ts = FreshTs]
      /\ myTs' = [myTs EXCEPT ![t] = FreshTs]
  BY DEF AcquireWrite
<1>3. doc'.there /\ doc'.state = 1 /\ doc'.process = ProcessOf[t] /\ doc'.ts = FreshTs /\ doc.state = 0
  BY <1>2 DEF TypeOK, LockDoc, Matches
<1>4. \A u \in Thread : myTs[u] # FreshTs
  BY <1>1 DEF UsedTs
<1> QED BY <1>1, <1>2, <1>3, <1>4 DEF TypeOK

\* When it does not match, the thread only forgets its OID.
LEMMA AcquireUnmatched ==
  ASSUME TypeOK, NEW t \in Thread, AcquireWrite(t), ~Matches(t)
  PROVE  doc' = doc /\ myTs' = [myTs EXCEPT ![t] = 0]
BY DEF AcquireWrite

\* The invariants about OIDs and the document, action by action.
DocInv == TsDistinct /\ TakenDoc /\ AcquirerNotNamed /\ UnrobbedOwnerIsNamed /\ TakenByOne

\* A write that takes the lock preserves them, whether or not its answer
\* reaches the thread.
LEMMA AcquireStep ==
  ASSUME TypeOK, DocInv, NEW t \in Thread, AcquireWrite(t), pc[t] = "acquire",
         pc' = [pc EXCEPT ![t] = IF Matches(t) THEN "held" ELSE "idle"] \/ pc' = [pc EXCEPT ![t] = "idle"],
         Matches(t) \/ pc'[t] # "held",
         UNCHANGED robbed
  PROVE  DocInv'
<1> USE DEF DocInv, TypeOK
<1>1. CASE Matches(t)
  <2>1. /\ doc'.there /\ doc'.state = 1 /\ doc'.process = ProcessOf[t]
        /\ doc'.ts = myTs'[t] /\ doc'.ts \in Ts
        /\ \A u \in Thread \ {t} : myTs'[u] = myTs[u] /\ myTs'[u] # doc'.ts
        /\ doc.state = 0
    BY <1>1, AcquireMatched
  <2>2. doc'.ts # 0
    BY <2>1, ConstantsAssumption
  <2>3. TsDistinct' /\ TakenDoc'
    BY <2>1, <2>2 DEF TsDistinct, TakenDoc
  <2>4. AcquirerNotNamed'
    BY <2>1 DEF AcquirerNotNamed, Named
  <2>5. UnrobbedOwnerIsNamed'
    BY <2>1 DEF UnrobbedOwnerIsNamed, Owner, Named
  <2>6. TakenByOne'
    BY <2>1 DEF TakenByOne
  <2> QED BY <2>3, <2>4, <2>5, <2>6
<1>2. CASE ~Matches(t)
  <2>1. doc' = doc /\ myTs' = [myTs EXCEPT ![t] = 0] /\ pc' = [pc EXCEPT ![t] = "idle"]
    BY <1>2, AcquireUnmatched
  <2>2. ~Named(t)
    BY DEF AcquirerNotNamed
  <2>3. TsDistinct' /\ TakenDoc'
    BY <2>1 DEF TsDistinct, TakenDoc
  <2>4. AcquirerNotNamed'
    BY <2>1 DEF AcquirerNotNamed, Named, TakenDoc
  <2>5. UnrobbedOwnerIsNamed'
    BY <2>1, <2>2 DEF UnrobbedOwnerIsNamed, Owner, Named
  <2>6. TakenByOne'
    BY <2>1, <2>2 DEF TakenByOne, Named, TakenDoc
  <2> QED BY <2>3, <2>4, <2>5, <2>6
<1> QED BY <1>1, <1>2

\* A reset preserves them when it records whom it robs and its author is not
\* an owner afterwards.
LEMMA ResetStep ==
  ASSUME TypeOK, DocInv, NEW t \in Thread, ResetDoc, NEW w \in {"idle", "unlock", "acquire"},
         pc' = [pc EXCEPT ![t] = w],
         myTs' = myTs \/ myTs' = [myTs EXCEPT ![t] = 0],
         robbed \cup RobbedBy(t) = robbed' \/ (robbed \ {t}) \cup RobbedBy(t) = robbed'
  PROVE  DocInv'
<1> USE DEF DocInv, TypeOK
<1>1. doc'.state = 0
  BY DEF ResetDoc, LockDoc
<1>2. TsDistinct'
  BY DEF TsDistinct
<1>3. TakenDoc' /\ AcquirerNotNamed' /\ TakenByOne'
  BY <1>1 DEF TakenDoc, AcquirerNotNamed, TakenByOne, Named
<1>4. UnrobbedOwnerIsNamed'
  <2>1. SUFFICES ASSUME NEW u \in Thread, Owner(u)', u \notin robbed' PROVE FALSE
    BY DEF UnrobbedOwnerIsNamed
  <2>2. u # t /\ Owner(u)
    BY <2>1 DEF Owner
  <2>3. u \in RobbedBy(t)
    BY <2>1, <2>2 DEF UnrobbedOwnerIsNamed, RobbedBy
  <2> QED BY <2>1, <2>3
<1> QED BY <1>2, <1>3, <1>4

LEMMA DocStep ==
  ASSUME TypeOK, DocInv, [Next]_vars
  PROVE  DocInv'
<1> USE DEF DocInv, TsDistinct, TakenDoc, AcquirerNotNamed, UnrobbedOwnerIsNamed, TakenByOne, Owner, Named, TypeOK
<1>1. ASSUME NEW t \in Thread, Construct(t) PROVE DocInv'
  BY <1>1 DEF Construct, GoTo, dbVars, tryVars
<1>2. ASSUME NEW t \in Thread, FindLock(t) PROVE DocInv'
  BY <1>2 DEF FindLock, GoTo, dbVars
<1>3. ASSUME NEW t \in Thread, InsertLock(t) PROVE DocInv'
  BY <1>3 DEF InsertLock, InsertWrite, NoDoc, GoTo, tryVars
<1>4. ASSUME NEW t \in Thread, FindPing(t) PROVE DocInv'
  BY <1>4 DEF FindPing, GoTo, Leave, dbVars
<1>5. ASSUME NEW t \in Thread, TakeOver(t) PROVE DocInv'
  BY <1>5, ResetStep DEF TakeOver, GoTo, tryVars
<1>6. ASSUME NEW t \in Thread, Acquire(t) PROVE DocInv'
  BY <1>6, AcquireStep DEF Acquire, Leave
<1>7. ASSUME NEW t \in Thread, LockTryThrows(t) PROVE DocInv'
  <2>1. CASE pc[t] = "insert" /\ InsertWrite /\ UNCHANGED <<myTs, robbed>>
    BY <1>7, <2>1 DEF LockTryThrows, InsertWrite, NoDoc, Leave
  <2>2. CASE pc[t] = "takeover" /\ ResetDoc /\ robbed' = robbed \cup RobbedBy(t) /\ UNCHANGED myTs
    BY <1>7, <2>2, ResetStep DEF LockTryThrows, Leave
  <2>3. CASE pc[t] = "acquire" /\ AcquireWrite(t) /\ UNCHANGED robbed
    BY <1>7, <2>3, AcquireStep DEF LockTryThrows, Leave
  <2>4. CASE UNCHANGED <<doc, myTs, robbed>>
    BY <1>7, <2>4 DEF LockTryThrows, Leave
  <2> QED BY <1>7, <2>1, <2>2, <2>3, <2>4 DEF LockTryThrows
<1>8. ASSUME NEW t \in Thread, Unlock(t) PROVE DocInv'
  BY <1>8, ResetStep DEF Unlock, UnlockWrite, GoTo
<1>9. ASSUME NEW t \in Thread, UnlockThrows(t) PROVE DocInv'
  <2>1. CASE UnlockWrite(t)
    BY <1>9, <2>1, ResetStep DEF UnlockThrows, UnlockWrite, GoTo, tryVars
  <2>2. CASE UNCHANGED doc /\ robbed' = robbed \ {t}
    BY <1>9, <2>2 DEF UnlockThrows, GoTo, tryVars
  <2> QED BY <1>9, <2>1, <2>2 DEF UnlockThrows
<1>10. ASSUME NEW p \in Process, PingerStep(p) PROVE DocInv'
  BY <1>10 DEF PingerStep, Ping, PingFails, QueryLocks, RemoveOldPings, dbVars, tryVars
<1>11. ASSUME NEW p \in Process, Crash(p) PROVE DocInv'
  BY <1>11 DEF Crash, dbVars
<1>12. CASE Tick
  BY <1>12 DEF Tick, tryVars
<1>13. CASE UNCHANGED vars
  BY <1>13 DEF vars, dbVars, tryVars
<1> QED BY <1>1, <1>2, <1>3, <1>4, <1>5, <1>6, <1>7, <1>8, <1>9, <1>10, <1>11, <1>12, <1>13
        DEF Next, ThreadStep

LEMMA IInvStep == IInv /\ [Next]_vars => IInv'
BY TypeStep, BoundsStep, DocStep DEF IInv, DocInv

\* The inductive invariant holds in every behaviour, whatever fails.
THEOREM Inductive == Spec => []IInv
BY InitIInv, IInvStep, PTL DEF Spec

\* Every variable keeps its type.
THEOREM TypeCorrect == Spec => []TypeOK
BY Inductive, PTL DEF IInv

\* Whatever crashes, is lost or is late, a thread for which lock_try returned
\* true and which nobody's reset has robbed is the one the document names.
THEOREM UnrobbedOwner == Spec => []UnrobbedOwnerIsNamed
BY Inductive, PTL DEF IInv

\* Whatever fails, the taken lock's document records one acquisition, of one
\* thread of the process whose pings decide about a takeover.
THEOREM TakenOnce == Spec => []TakenByOne
BY Inductive, PTL DEF IInv

---------------------------------------------------------------------------
(* The lock implements RobbableLock.                                       *)

\* Whom lock_try told that he owns the lock.
Owners == {t \in Thread : Owner(t)}

\* Only owners are robbed; who has called unlock has nothing to lose.
RobbedOwners == robbed \subseteq Owners

\* What a reset by t takes is the one good claim, if another thread has it.
LEMMA ResetRobs ==
  ASSUME IInv, NEW t \in Thread
  PROVE  robbed \cup RobbedBy(t) = robbed \cup (Owners \ {t})
BY DEF IInv, UnrobbedOwnerIsNamed, RobbedBy, Owners

\* While a claim is good, the query of lock_try does not match.
LEMMA MatchMeansFree ==
  ASSUME IInv, NEW t \in Thread, Matches(t)
  PROVE  Owners \subseteq robbed
BY DEF IInv, UnrobbedOwnerIsNamed, Matches, Named, Owners

\* A call of a thread that does not own the lock, but for the one that takes it.
LEMMA OtherStep ==
  ASSUME NEW t \in Thread, ~Owner(t), NEW where \in PcStates \ {"held"}, pc' = [pc EXCEPT ![t] = where], TypeOK
  PROVE  Owners' = Owners
BY DEF Owners, Owner, TypeOK

\* A call of the owner that lets it go.
LEMMA OwnerLeaves ==
  ASSUME NEW t \in Thread, NEW where \in PcStates \ {"held"}, pc' = [pc EXCEPT ![t] = where], TypeOK
  PROVE  Owners' = Owners \ {t}
BY DEF Owners, Owner, TypeOK

\* The steps of RobbableLock, and a step of none of its variables.
LockStep ==
    \/ \E t \in Thread : \/ Owners \subseteq robbed /\ Owners' = Owners \cup {t} /\ robbed' = robbed
                         \/ /\ t \in Owners /\ Owners' = Owners \ {t}
                            /\ robbed' \in {robbed \ {t}, (robbed \cup Owners) \ {t}}
    \/ robbed' = robbed \cup Owners /\ Owners' = Owners
    \/ \E dead \in SUBSET Thread : Owners' = Owners \ dead /\ robbed' = robbed \ dead
    \/ Owners' = Owners /\ robbed' = robbed

\* A request of unlock, executed or not.
LEMMA UnlockRequest ==
  ASSUME IInv, RobbedOwners, NEW t \in Thread, NEW where \in PcStates \ {"held"}, pc' = [pc EXCEPT ![t] = where],
         UnlockWrite(t) \/ robbed' = robbed \ {t}
  PROVE  LockStep
<1>1. robbed' \in {robbed \ {t}, (robbed \cup Owners) \ {t}}
  <2>1. RobbedBy(t) \cap {t} = {}
    BY DEF RobbedBy
  <2>2. robbed \cup RobbedBy(t) = robbed \cup (Owners \ {t})
    BY ResetRobs
  <2>3. CASE UnlockWrite(t)
    <3>1. robbed' = (robbed \ {t}) \cup RobbedBy(t)
      BY <2>3 DEF UnlockWrite
    <3> QED BY <2>1, <2>2, <3>1
  <2> QED BY <2>3
<1>2. Owners' = Owners \ {t}
  BY OwnerLeaves DEF IInv
<1>3. CASE t \in Owners
  BY <1>1, <1>2, <1>3 DEF LockStep
<1>4. CASE t \notin Owners
  <2>1. robbed' = robbed \/ robbed' = robbed \cup Owners
    BY <1>1, <1>4 DEF RobbedOwners
  <2>2. Owners' = Owners
    BY <1>2, <1>4
  <2> QED BY <2>1, <2>2 DEF LockStep
<1> QED BY <1>3, <1>4

\* Every step of the code is one of the lock it implements.
LEMMA EveryStepIsLockStep ==
  ASSUME IInv, RobbedOwners, [Next]_vars
  PROVE  LockStep
<1> USE DEF PcStates, TryStates
<1>0. TypeOK
  BY DEF IInv
<1>1. ASSUME NEW t \in Thread, Construct(t) \/ FindLock(t) \/ InsertLock(t) \/ FindPing(t) PROVE LockStep
  <2>1. ~Owner(t) /\ UNCHANGED robbed
    BY <1>1 DEF Construct, FindLock, InsertLock, FindPing, Owner
  <2>2. \E where \in PcStates \ {"held"} : pc' = [pc EXCEPT ![t] = where]
    BY <1>1 DEF Construct, FindLock, InsertLock, FindPing, GoTo, Leave
  <2>3. Owners' = Owners
    BY <1>0, <2>1, <2>2, OtherStep
  <2> QED BY <2>1, <2>3 DEF LockStep
<1>2. ASSUME NEW t \in Thread, TakeOver(t) PROVE LockStep
  <2>1. ~Owner(t) /\ robbed' = robbed \cup RobbedBy(t) /\ pc' = [pc EXCEPT ![t] = "acquire"]
    BY <1>2 DEF TakeOver, Owner, GoTo
  <2>2. Owners' = Owners
    BY <1>0, <2>1, OtherStep
  <2>3. robbed' = robbed \cup Owners
    BY <2>1, ResetRobs DEF Owners
  <2> QED BY <2>2, <2>3 DEF LockStep
<1>3. ASSUME NEW t \in Thread, Acquire(t) PROVE LockStep
  <2>1. ~Owner(t) /\ robbed' = robbed /\ pc' = [pc EXCEPT ![t] = IF Matches(t) THEN "held" ELSE "idle"]
    BY <1>3 DEF Acquire, Owner, Leave
  <2>2. CASE Matches(t)
    <3>1. Owners \subseteq robbed
      BY <2>2, MatchMeansFree
    <3>2. Owners' = Owners \cup {t}
      BY <1>0, <2>1, <2>2 DEF Owners, Owner, TypeOK
    <3> QED BY <2>1, <3>1, <3>2 DEF LockStep
  <2>3. CASE ~Matches(t)
    <3>1. Owners' = Owners
      BY <1>0, <2>1, <2>3, OtherStep
    <3> QED BY <2>1, <3>1 DEF LockStep
  <2> QED BY <2>2, <2>3
<1>4. ASSUME NEW t \in Thread, LockTryThrows(t) PROVE LockStep
  <2>1. ~Owner(t) /\ pc' = [pc EXCEPT ![t] = "idle"] /\ (robbed' = robbed \/ robbed' = robbed \cup RobbedBy(t))
    BY <1>4 DEF LockTryThrows, Owner, Leave
  <2>2. Owners' = Owners
    BY <1>0, <2>1, OtherStep
  <2>3. robbed' = robbed \/ robbed' = robbed \cup Owners
    BY <2>1, ResetRobs DEF Owners
  <2> QED BY <2>2, <2>3 DEF LockStep
<1>5. ASSUME NEW t \in Thread, Unlock(t) PROVE LockStep
  <2>1. UnlockWrite(t) /\ pc' = [pc EXCEPT ![t] = "idle"]
    BY <1>5 DEF Unlock, GoTo
  <2> QED BY <2>1, UnlockRequest
<1>6. ASSUME NEW t \in Thread, UnlockThrows(t) PROVE LockStep
  <2>1. UnlockWrite(t) \/ robbed' = robbed \ {t}
    BY <1>6 DEF UnlockThrows
  <2>2. \E where \in PcStates \ {"held"} : pc' = [pc EXCEPT ![t] = where]
    BY <1>6 DEF UnlockThrows, GoTo
  <2> QED BY <2>1, <2>2, UnlockRequest
<1>7. ASSUME NEW p \in Process, Crash(p) PROVE LockStep
  <2> DEFINE dead == {t \in Thread : ProcessOf[t] = p}
  <2>1. Owners' = Owners \ dead
    BY <1>0, <1>7 DEF Crash, Owners, Owner, TypeOK
  <2>2. robbed' = robbed \ dead
    BY <1>0, <1>7 DEF Crash, TypeOK
  <2> QED BY <2>1, <2>2 DEF LockStep
<1>8. ASSUME (\E p \in Process : PingerStep(p)) \/ Tick \/ UNCHANGED vars PROVE LockStep
  <2>1. UNCHANGED <<pc, robbed>>
    BY <1>8 DEF PingerStep, Ping, PingFails, QueryLocks, RemoveOldPings, Tick, vars
  <2> QED BY <2>1 DEF LockStep, Owners, Owner
<1> QED BY <1>1, <1>2, <1>3, <1>4, <1>5, <1>6, <1>7, <1>8 DEF Next, ThreadStep

\* Each of those keeps the robbed among the owners.
LEMMA RobbedStep ==
  ASSUME RobbedOwners, LockStep
  PROVE  RobbedOwners'
BY DEF RobbedOwners, LockStep

\* Whatever crashes, is lost or is late: the lock implements RobbableLock, with
\* the threads that lock_try told so as its owners.
THEOREM LockIsImplemented == Spec => ImplementsLock
<1>1. Init => RobbedOwners /\ Lock!Init
  BY DEF Init, RobbedOwners, Owners, Owner, Lock!Init
<1>2. IInv /\ RobbedOwners /\ [Next]_vars => RobbedOwners'
  BY EveryStepIsLockStep, RobbedStep
<1>3. IInv /\ RobbedOwners /\ [Next]_vars => [Lock!Next]_<<{t \in Thread : Owner(t)}, robbed>>
  <2> SUFFICES ASSUME LockStep PROVE [Lock!Next]_<<{t \in Thread : Owner(t)}, robbed>>
    BY EveryStepIsLockStep
  <2>1. ASSUME NEW t \in Thread, Owners \subseteq robbed, Owners' = Owners \cup {t}, robbed' = robbed
        PROVE  Lock!Acquire(t)
    BY <2>1 DEF Owners, Lock!Acquire, Lock!Rightful
  <2>2. ASSUME NEW t \in Thread, t \in Owners, Owners' = Owners \ {t},
               robbed' \in {robbed \ {t}, (robbed \cup Owners) \ {t}}
        PROVE  Lock!Release(t)
    BY <2>2 DEF Owners, Lock!Release
  <2>3. ASSUME robbed' = robbed \cup Owners, Owners' = Owners PROVE Lock!Reset
    BY <2>3 DEF Owners, Lock!Reset
  <2>4. ASSUME NEW dead \in SUBSET Thread, Owners' = Owners \ dead, robbed' = robbed \ dead
        PROVE  Lock!Die(dead)
    BY <2>4 DEF Owners, Lock!Die
  <2>5. ASSUME Owners' = Owners, robbed' = robbed
        PROVE  UNCHANGED <<{t \in Thread : Owner(t)}, robbed>>
    BY <2>5 DEF Owners
  <2> QED BY <2>1, <2>2, <2>3, <2>4, <2>5 DEF LockStep, Lock!Next
<1> QED BY <1>1, <1>2, <1>3, Inductive, PTL DEF Spec, ImplementsLock, Lock!Spec

\* So of all the threads that lock_try told so, at most one has not been robbed.
THEOREM OneRightfulOwner == Spec => []Lock!OneRightful
<1>1. Lock!Init => Lock!OneRightful
  BY DEF Lock!Init, Lock!OneRightful, Lock!Rightful
<1>2. Lock!OneRightful /\ [Lock!Next]_<<{t \in Thread : Owner(t)}, robbed>> => Lock!OneRightful'
  BY DEF Lock!OneRightful, Lock!Rightful, Lock!Next, Lock!Acquire, Lock!Release, Lock!Reset, Lock!Die
<1>3. ImplementsLock => []Lock!OneRightful
  BY <1>1, <1>2, PTL DEF ImplementsLock, Lock!Spec
<1> QED BY <1>3, LockIsImplemented

---------------------------------------------------------------------------
(* Without faults the lock excludes, if the clocks are close enough.       *)

\* Clocks may disagree by what a punctual ping leaves of the takeover time.
ClocksClose == \A p, q \in Process : PingLimit + Skew[p] - Skew[q] <= Takeover

\* Nobody dies, pings are fresh, nobody takes over or retries an unlock, and
\* the document never names a thread that does not know it.
CalmInv ==
    /\ alive = Process
    /\ \A p \in pinged : age[p] <= PingLimit
    /\ \A t \in Thread : pc[t] \notin {"takeover", "unlock"}
    /\ robbed = {}
    /\ \A t \in Thread : Named(t) => Owner(t)

LEMMA NoTakeOver ==
  ASSUME ClocksClose, TypeOK, CalmInv, NEW p \in Process, NEW q
  PROVE  ~MayTakeOver(p, q)
<1> SUFFICES ASSUME q \in pinged PROVE ~MayTakeOver(p, q)
  BY DEF MayTakeOver
<1>1. q \in Process /\ age[q] \in Nat /\ age[q] <= PingLimit
  BY ConstantsAssumption DEF TypeOK, CalmInv
<1>2. Skew[p] \in Int /\ Skew[q] \in Int /\ PingLimit \in Int /\ Takeover \in Int
  BY <1>1, ConstantsAssumption
<1>3. Elapsed(p, q) \in Int /\ Elapsed(p, q) <= Takeover
  BY <1>1, <1>2 DEF Elapsed, ClocksClose
<1> QED BY <1>2, <1>3 DEF MayTakeOver, Unsigned

LEMMA CalmStep ==
  ASSUME Faults = {}, ClocksClose, IInv, CalmInv, [Next]_vars
  PROVE  CalmInv'
<1> USE DEF IInv, CalmInv, TypeOK, Owner
<1>1. ASSUME NEW t \in Thread, Construct(t) PROVE CalmInv'
  BY <1>1 DEF Construct, GoTo, dbVars, tryVars, Named
<1>2. ASSUME NEW t \in Thread, FindLock(t) PROVE CalmInv'
  BY <1>2 DEF FindLock, GoTo, dbVars, Named
<1>3. ASSUME NEW t \in Thread, InsertLock(t) PROVE CalmInv'
  BY <1>3 DEF InsertLock, InsertWrite, NoDoc, GoTo, tryVars, Named
<1>4. ASSUME NEW t \in Thread, FindPing(t) PROVE CalmInv'
  <2>1. ~MayTakeOver(ProcessOf[t], seen[t])
    BY NoTakeOver, ConstantsAssumption
  <2> QED BY <1>4, <2>1 DEF FindPing, Leave, dbVars, Named
<1>5. ASSUME NEW t \in Thread, TakeOver(t) PROVE CalmInv'
  BY <1>5 DEF TakeOver
<1>6. ASSUME NEW t \in Thread, Acquire(t) PROVE CalmInv'
  <2>1. CASE Matches(t)
    <3>1. /\ doc'.ts = myTs'[t]
          /\ \A u \in Thread \ {t} : myTs'[u] = myTs[u] /\ myTs'[u] # doc'.ts
      BY <1>6, <2>1, AcquireMatched DEF Acquire
    <3> QED BY <1>6, <2>1, <3>1 DEF Acquire, Leave, Named
  <2>2. CASE ~Matches(t)
    BY <1>6, <2>2, AcquireUnmatched DEF Acquire, Leave, Named, TakenDoc
  <2> QED BY <2>1, <2>2
<1>7. ASSUME NEW t \in Thread, Unlock(t) PROVE CalmInv'
  <2>1. Owner(t) /\ Named(t)
    BY <1>7 DEF Unlock, UnrobbedOwnerIsNamed
  <2>2. RobbedBy(t) = {}
    BY <2>1 DEF RobbedBy, Named, TsDistinct, TakenDoc
  <2>3. doc'.state = 0
    BY <1>7 DEF Unlock, UnlockWrite, ResetDoc, LockDoc
  <2> QED BY <1>7, <2>2, <2>3 DEF Unlock, UnlockWrite, GoTo, Named
<1>8. ASSUME NEW t \in Thread PROVE ~LockTryThrows(t) /\ ~UnlockThrows(t)
  BY DEF LockTryThrows, UnlockThrows
<1>9. ASSUME NEW p \in Process PROVE ~PingFails(p) /\ ~Crash(p)
  BY DEF PingFails, Crash
<1>10. ASSUME NEW p \in Process, Ping(p) PROVE CalmInv'
  BY <1>10, ConstantsAssumption DEF Ping, PingWrite, tryVars, Named
<1>11. ASSUME NEW p \in Process, QueryLocks(p) \/ RemoveOldPings(p) PROVE CalmInv'
  BY <1>11 DEF QueryLocks, RemoveOldPings, RemoveWrite, dbVars, tryVars, Named
<1>12. CASE Tick
  <2>1. \A p \in pinged : age'[p] <= PingLimit
    BY <1>12, ConstantsAssumption DEF Tick
  <2> QED BY <1>12, <2>1 DEF Tick, tryVars, Named
<1>13. CASE UNCHANGED vars
  BY <1>13 DEF vars, dbVars, tryVars, Named
<1> QED BY <1>1, <1>2, <1>3, <1>4, <1>5, <1>6, <1>7, <1>8, <1>9, <1>10, <1>11, <1>12, <1>13
        DEF Next, ThreadStep, PingerStep

LEMMA CalmBehaviour ==
  ASSUME Faults = {}, ClocksClose
  PROVE  Spec => [](IInv /\ CalmInv)
<1>1. Init => CalmInv
  BY DEF Init, CalmInv, NoDoc, Named
<1>2. IInv /\ CalmInv /\ [Next]_vars => CalmInv'
  BY CalmStep
<1> QED BY <1>1, <1>2, InitIInv, IInvStep, PTL DEF Spec

\* If no request fails, no process dies, every pinger is punctual and clocks
\* differ by at most Takeover - PingLimit minutes, two threads never hold the
\* lock at once.
THEOREM CalmMutualExclusion ==
  ASSUME Faults = {}, ClocksClose
  PROVE  Spec => []MutualExclusion
<1>1. IInv /\ CalmInv => MutualExclusion
  BY DEF IInv, CalmInv, UnrobbedOwnerIsNamed, MutualExclusion, Named, TsDistinct, TakenDoc
<1> QED BY <1>1, CalmBehaviour, PTL

\* Under the same conditions no lock is left taken by nobody.
THEOREM CalmTakenHasOwner ==
  ASSUME Faults = {}, ClocksClose
  PROVE  Spec => []TakenHasOwner
<1>1. IInv /\ CalmInv => TakenHasOwner
  BY DEF IInv, CalmInv, TakenByOne, TakenHasOwner, Named
<1> QED BY <1>1, CalmBehaviour, PTL
=============================================================================
