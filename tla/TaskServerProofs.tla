-------------------------- MODULE TaskServerProofs --------------------------
(***************************************************************************)
(* What TaskServer and the BackgroundJobs under it guarantee for any       *)
(* number of ports, tasks and messages, and any length of the deque.       *)
(***************************************************************************)
EXTENDS TaskServer, FiniteSetTheorems, SequenceTheorems, TLAPS

\* A job's thread only lives while its object does.
ThreadHasObject == \A j \in Job : thread[j] # "none" => exists[j]

\* A ConnectBG exists while connect waits for it, which is at least as long as
\* its thread goes on; the port's descriptor is given back when the wait fails.
PortJob ==
    \A p \in Port :
      /\ exists[p] <=> port[p] \in {"wait", "waitAgain"}
      /\ state[p] = "Done" => thread[p] = "none"
      /\ thread[p] \in {"none", "body", "run", "inside", "finish"}
      /\ port[p] = "wait" => sock[p] = "open"
      /\ port[p] = "connected" => sock[p] = "open" /\ _res[p] = "ok"
      /\ port[p] \in {"waitAgain", "refused"} => sock[p] # "open"

\* A message is queued again into the place it had; a called one is remembered
\* from the moment that is certain.
Serving ==
    /\ serving # "loop" => Len(d) <= MaxQueue
    /\ serving \in {"done", "notify"} => f \in Called
    /\ rq /\ serving \in {"done", "notify", "requeue"} => f \in requeued \/ f \notin Called

\* The requeue() that a message left in rq when it threw, for the next to get.
Stray == IF rq /\ serving \in {"loop", "exec"} THEN 1 ELSE 0

\* Every message is in the deque or in hand as often as it is to run, and more
\* often only for what others left in rq.
OwedCounts ==
    \A m \in Msg :
      /\ Extra(m) >= 0 /\ Extra(m) + Stray <= strays
      /\ m \in Called \ requeued => Extra(m) = 0

\* A call is made once at a time, and done is set when nothing of it is left.
OneCall ==
    \A m \in Called \ requeued :
      /\ owed[m] \in {0, 1}
      /\ client[m] = "idle" => owed[m] = 0
      /\ done[m] => owed[m] = 0
      /\ serving = "done" /\ f = m => owed[m] = 0 /\ ~done[m] /\ client[m] # "idle"

JobIInv == JobTypeOK /\ ThreadHasObject /\ PortJob

IInv ==
    /\ TypeOK
    /\ JobIInv
    /\ Serving
    /\ OwedCounts
    /\ OneCall

---------------------------------------------------------------------------
(* The jobs.                                                               *)

LEMMA InitJob == JobInit => JobIInv
<1> SUFFICES ASSUME JobInit PROVE JobIInv
  OBVIOUS
<1>1. JobTypeOK /\ ThreadHasObject
  BY DEF JobInit, JobTypeOK, ThreadHasObject
<1>2. PortJob
  BY JobAssumption DEF JobInit, PortJob, Job
<1> QED BY <1>1, <1>2 DEF JobIInv

\* A step of a job's thread or of MessagingPort::connect.
LEMMA JobStep ==
  ASSUME JobIInv, JobNext
  PROVE  JobIInv'
<1> USE JobAssumption DEF JobIInv, JobTypeOK, ThreadHasObject, PortJob, ThreadAt, jobVars, portVars
<1>1. ASSUME NEW j \in Job, BodyStarts(j) PROVE JobIInv'
  BY <1>1 DEF BodyStarts, Job
<1>2. ASSUME NEW j \in Job, BodyFinishes(j) PROVE JobIInv'
  BY <1>2 DEF BodyFinishes, Job
<1>3. ASSUME NEW j \in Job, BodyDeletes(j) PROVE JobIInv'
  BY <1>3 DEF BodyDeletes, Job
<1>4. ASSUME NEW p \in Port, connect(p) PROVE JobIInv'
  <2>1. p \in Job
    BY DEF Job
  <2>2. CASE /\ port' = [port EXCEPT ![p] = "wait"] /\ sock' = [sock EXCEPT ![p] = "open"]
             /\ _res' = [_res EXCEPT ![p] = "unset"] /\ exists' = [exists EXCEPT ![p] = TRUE]
             /\ state' = [state EXCEPT ![p] = "NotStarted"] /\ go(p)
    <3>1. JobTypeOK' /\ ThreadHasObject'
      BY <2>1, <2>2 DEF go
    <3>2. PortJob'
      BY <2>1, <2>2 DEF go, Job
    <3> QED BY <3>1, <3>2
  <2>3. CASE /\ port' = [port EXCEPT ![p] = "refused"] /\ sock' = [sock EXCEPT ![p] = "none"]
             /\ UNCHANGED <<_res, jobVars>>
    BY <1>4, <2>1, <2>3 DEF connect
  <2> QED BY <1>4, <2>2, <2>3 DEF connect
<1>5. ASSUME NEW p \in Port, RunConnect(p) PROVE JobIInv'
  BY <1>5 DEF RunConnect, Job
<1>6. ASSUME NEW p \in Port, ConnectAnswers(p) PROVE JobIInv'
  BY <1>6 DEF ConnectAnswers, Job
<1>7. ASSUME NEW p \in Port, WaitEnds(p) PROVE JobIInv'
  <2>1. thread[p] = "none" /\ p \in Job /\ exists' = [exists EXCEPT ![p] = FALSE] /\ UNCHANGED <<state, thread, _res>>
    BY <1>7 DEF WaitEnds, Return, Job
  <2>2. CASE _res[p] = "ok" /\ port' = [port EXCEPT ![p] = "connected"] /\ UNCHANGED sock
    BY <1>7, <2>1, <2>2 DEF WaitEnds, Job
  <2>3. CASE port' = [port EXCEPT ![p] = "refused"] /\ sock' = [sock EXCEPT ![p] = "closed"]
    BY <1>7, <2>1, <2>3 DEF WaitEnds, Job
  <2> QED BY <1>7, <2>2, <2>3 DEF WaitEnds, Return
<1>8. ASSUME NEW p \in Port, WaitAgainEnds(p) PROVE JobIInv'
  <2>1. /\ thread[p] = "none" /\ p \in Job /\ exists' = [exists EXCEPT ![p] = FALSE]
        /\ port' = [port EXCEPT ![p] = "refused"] /\ UNCHANGED <<state, thread, sock, _res>>
    BY <1>8 DEF WaitAgainEnds, Return, Job
  <2>2. sock[p] # "open"
    BY <1>8 DEF WaitAgainEnds
  <2> QED BY <1>8, <2>1, <2>2 DEF WaitAgainEnds, Job
<1>9. ASSUME NEW p \in Port, WaitTimesOut(p) PROVE JobIInv'
  BY <1>9 DEF WaitTimesOut, Job
<1>10. ASSUME NEW p \in Port, shutdown(p) PROVE JobIInv'
  BY <1>10 DEF shutdown, Job
<1> QED BY <1>1, <1>2, <1>3, <1>4, <1>5, <1>6, <1>7, <1>8, <1>9, <1>10
        DEF JobNext, Body, ConnectBGRuns, ConnectGoesOn

\* A Task moves a thread of its own, which none of the ports has.
LEMMA TaskJobStep ==
  ASSUME JobIInv, NEW t \in Task, NEW pos \in {"body", "run", "sleep", "finish"},
         exists[t], ThreadAt(t, pos), UNCHANGED <<state, exists, portVars>>
  PROVE  JobIInv'
BY JobAssumption DEF JobIInv, JobTypeOK, ThreadHasObject, PortJob, ThreadAt, portVars, Job

LEMMA JobUnchanged ==
  ASSUME JobIInv, UNCHANGED bgVars
  PROVE  JobIInv'
BY DEF JobIInv, JobTypeOK, ThreadHasObject, PortJob, bgVars, jobVars, portVars

---------------------------------------------------------------------------
(* The deque.                                                              *)

\* How often a message is in the deque.
Places(q, m) == {i \in DOMAIN q : q[i] = m}

LEMMA PlacesFinite ==
  ASSUME NEW q \in Seq(Msg), NEW m
  PROVE  /\ IsFiniteSet(Places(q, m)) /\ Cardinality(Places(q, m)) \in Nat
         /\ Cardinality(Places(q, m)) <= Len(q) /\ Len(q) \in Nat
<1>1. DOMAIN q = 1..Len(q) /\ Len(q) \in Nat
  BY LenProperties
<1> DEFINE n == Len(q)
<1> HIDE DEF n
<1>2. n \in Nat => IsFiniteSet(1..n) /\ Cardinality(1..n) = n
  <2> SUFFICES ASSUME n \in Nat PROVE IsFiniteSet(1..n) /\ Cardinality(1..n) = n
    OBVIOUS
  <2>1. IsFiniteSet(1..n) /\ Cardinality(1..n) = IF 1 > n THEN 0 ELSE n - 1 + 1
    BY FS_Interval
  <2> QED BY <2>1
<1>3. Places(q, m) \in SUBSET (1..n) /\ n \in Nat
  BY <1>1 DEF Places, n
<1> QED BY <1>1, <1>2, <1>3, FS_Subset, FS_CardinalityType DEF n

\* push_back
LEMMA PlacesAppend ==
  ASSUME NEW q \in Seq(Msg), NEW x \in Msg, NEW m \in Msg
  PROVE  Cardinality(Places(Append(q, x), m)) =
           IF m = x THEN Cardinality(Places(q, m)) + 1 ELSE Cardinality(Places(q, m))
<1> DEFINE a == Append(q, x)
<1>1. /\ a \in Seq(Msg) /\ Len(a) = Len(q) + 1 /\ a[Len(q) + 1] = x
      /\ \A i \in 1..Len(q) : a[i] = q[i]
  BY AppendProperties
<1>2. DOMAIN a = 1..Len(a) /\ DOMAIN q = 1..Len(q) /\ Len(q) \in Nat
  BY <1>1, LenProperties
<1> HIDE DEF a
<1>3. CASE m = x
  <2>1. Places(a, m) = Places(q, m) \cup {Len(q) + 1}
    BY <1>1, <1>2, <1>3 DEF Places
  <2>2. Len(q) + 1 \notin Places(q, m)
    BY <1>2 DEF Places
  <2>3. IsFiniteSet(Places(q, m))
    BY PlacesFinite
  <2>4. Cardinality(Places(a, m)) = Cardinality(Places(q, m)) + 1
    BY <2>1, <2>2, <2>3, FS_AddElement
  <2> QED BY <1>3, <2>4 DEF a
<1>4. CASE m # x
  <2>1. Places(a, m) = Places(q, m)
    BY <1>1, <1>2, <1>4 DEF Places
  <2> QED BY <1>4, <2>1 DEF a
<1> QED BY <1>3, <1>4

\* pop_front
LEMMA PlacesTail ==
  ASSUME NEW q \in Seq(Msg), q # <<>>, NEW m \in Msg
  PROVE  Cardinality(Places(q, m)) =
           IF m = Head(q) THEN Cardinality(Places(Tail(q), m)) + 1 ELSE Cardinality(Places(Tail(q), m))
<1> DEFINE t == Tail(q)
           later == Places(q, m) \ {1}
           shift == [i \in Places(t, m) |-> i + 1]
<1>1. /\ t \in Seq(Msg) /\ Len(t) = Len(q) - 1 /\ Len(q) \in Nat \ {0} /\ Head(q) = q[1]
      /\ \A i \in 1..Len(t) : t[i] = q[i + 1]
  BY HeadTailProperties, EmptySeq
<1>2. DOMAIN t = 1..Len(t) /\ DOMAIN q = 1..Len(q)
  BY <1>1, LenProperties
<1> HIDE DEF t
<1>3. shift \in Bijection(Places(t, m), later)
  <2>1. \A i \in Places(t, m) : i + 1 \in later /\ i \in Int
    BY <1>1, <1>2 DEF Places
  <2>2. \A j \in later : j - 1 \in Places(t, m) /\ (j - 1) + 1 = j
    BY <1>1, <1>2 DEF Places
  <2>3. shift \in [Places(t, m) -> later]
    BY <2>1
  <2>4. shift \in Injection(Places(t, m), later)
    BY <2>1, <2>3 DEF Injection, IsInjective
  <2>5. shift \in Surjection(Places(t, m), later)
    BY <2>2, <2>3 DEF Surjection
  <2> QED BY <2>4, <2>5 DEF Bijection
<1>4. Cardinality(later) = Cardinality(Places(t, m)) /\ IsFiniteSet(later)
  BY <1>1, <1>3, PlacesFinite, FS_Bijection DEF ExistsBijection
<1>5. CASE m = Head(q)
  <2>1. 1 \in Places(q, m)
    BY <1>1, <1>2, <1>5 DEF Places
  <2>2. Cardinality(later) = Cardinality(Places(q, m)) - 1
    BY <2>1, PlacesFinite, FS_RemoveElement
  <2> QED BY <1>4, <1>5, <2>2, PlacesFinite DEF t
<1>6. CASE m # Head(q)
  <2>1. later = Places(q, m)
    BY <1>1, <1>6 DEF Places
  <2> QED BY <1>4, <1>6, <2>1 DEF t
<1> QED BY <1>5, <1>6

---------------------------------------------------------------------------
(* Messages.                                                               *)

\* What the properties call Queued is the count of the places.
LEMMA QueuedFacts ==
  ASSUME d \in Seq(Msg), NEW m \in Msg
  PROVE  /\ Queued(m) = Cardinality(Places(d, m)) /\ Queued(m) \in Nat
         /\ Queued(m) <= Len(d) /\ InHand(m) \in {0, 1}
BY PlacesFinite DEF Queued, Places, InHand

\* What a message is owed lies between what it may have had too much and one run
\* for every place of the deque and one for the server's hand.
LEMMA OwedBound ==
  /\ d \in Seq(Msg) /\ Len(d) <= MaxQueue + 1 /\ (f = NoMsg <=> serving = "loop")
  /\ owed \in [Msg -> Int] /\ strays \in 0..MaxStrays
  /\ Serving /\ OwedCounts
  => \A m \in Msg : owed[m] \in -MaxStrays..MaxQueue + 1
<1> SUFFICES ASSUME d \in Seq(Msg), Len(d) <= MaxQueue + 1, f = NoMsg <=> serving = "loop",
                    owed \in [Msg -> Int], strays \in 0..MaxStrays,
                    Serving, OwedCounts, NEW m \in Msg
             PROVE  owed[m] \in -MaxStrays..MaxQueue + 1
  OBVIOUS
<1>1. /\ Queued(m) \in Nat /\ Queued(m) <= Len(d) /\ Len(d) \in Nat /\ InHand(m) \in {0, 1}
      /\ owed[m] \in Int /\ MaxStrays \in Nat /\ MaxQueue \in Nat
  BY QueuedFacts, LenProperties, ServerAssumption
<1>2. Queued(m) + InHand(m) - owed[m] >= 0 /\ Queued(m) + InHand(m) - owed[m] <= MaxStrays
  <2>1. Stray \in {0, 1} /\ strays <= MaxStrays /\ strays \in Nat
    BY <1>1 DEF Stray
  <2>2. Extra(m) \in Int /\ Extra(m) >= 0 /\ Extra(m) + Stray <= strays
    BY <1>1 DEF OwedCounts, Extra
  <2>3. Extra(m) <= MaxStrays
    BY <1>1, <2>1, <2>2
  <2> QED BY <2>2, <2>3 DEF Extra
<1>3. CASE serving = "loop"
  <2>1. InHand(m) = 0
    BY <1>3, ServerAssumption DEF InHand
  <2> QED BY <1>1, <1>2, <2>1
<1>4. CASE serving # "loop"
  <2>1. Len(d) <= MaxQueue
    BY <1>4 DEF Serving
  <2> QED BY <1>1, <1>2, <2>1
<1> QED BY <1>3, <1>4

\* The invariants of the messages hold again: so do the types.
LEMMA MessageStep ==
  ASSUME IInv, UNCHANGED <<bgVars, taskVars>>,
         d' \in Seq(Msg), Len(d') <= MaxQueue + 1, rq' \in BOOLEAN,
         serving' \in {"loop", "exec", "done", "notify", "requeue"},
         f' \in Msg \cup {NoMsg}, f' = NoMsg <=> serving' = "loop",
         client' \in [Msg -> {"idle", "test", "enter", "wait"}], done' \in [Msg -> BOOLEAN],
         owed' \in [Msg -> Int], strays' \in 0..MaxStrays, requeued' \subseteq Called,
         Serving', OwedCounts', OneCall'
  PROVE  IInv'
<1>1. (/\ d \in Seq(Msg) /\ Len(d) <= MaxQueue + 1 /\ (f = NoMsg <=> serving = "loop")
       /\ owed \in [Msg -> Int] /\ strays \in 0..MaxStrays
       /\ Serving /\ OwedCounts
       => \A m \in Msg : owed[m] \in -MaxStrays..MaxQueue + 1)'
  BY OwedBound, PTL
<1>2. owed' \in [Msg -> -MaxStrays..MaxQueue + 1]
  BY <1>1
<1>3. JobIInv'
  BY JobUnchanged DEF IInv
<1>4. TypeOK'
  BY <1>2, <1>3 DEF IInv, TypeOK, JobIInv, taskVars
<1> QED BY <1>3, <1>4 DEF IInv

\* As long as a message's runs in the deque and in hand change with what it is
\* owed, and nothing is left in rq that was not, the counts are right.
LEMMA CountsKept ==
  ASSUME OwedCounts, d \in Seq(Msg), owed \in [Msg -> Int], strays \in Nat,
         \A n \in Msg : Extra(n)' = Extra(n), Stray' = Stray, strays' = strays, requeued' = requeued
  PROVE  OwedCounts'
BY DEF OwedCounts

\* push_back by a client.
LEMMA PushFacts ==
  ASSUME IInv, NEW m \in Msg, Push(m)
  PROVE  /\ d' \in Seq(Msg) /\ Len(d') <= MaxQueue + 1 /\ owed' \in [Msg -> Int]
         /\ Serving' /\ OwedCounts'
         /\ rq' \in BOOLEAN /\ serving' \in {"loop", "exec", "done", "notify", "requeue"}
         /\ f' \in Msg \cup {NoMsg} /\ (f' = NoMsg <=> serving' = "loop")
         /\ strays' \in 0..MaxStrays /\ requeued' \subseteq Called
         /\ owed'[m] = owed[m] + 1 /\ \A n \in Msg : n # m => owed'[n] = owed[n]
         /\ UNCHANGED <<rq, serving, f, strays, requeued>>
<1> USE DEF IInv, TypeOK, Push
<1>1. d' \in Seq(Msg) /\ Len(d') <= MaxQueue
  BY AppendProperties, LenProperties, ServerAssumption
<1>2. /\ owed' \in [Msg -> Int] /\ owed'[m] = owed[m] + 1
      /\ \A n \in Msg : n # m => owed'[n] = owed[n]
  OBVIOUS
<1>3. ASSUME NEW n \in Msg PROVE Extra(n)' = Extra(n)
  <2>1. Queued(n) = Cardinality(Places(d, n)) /\ Queued(n) \in Nat /\ InHand(n) \in {0, 1}
    BY QueuedFacts
  <2>2. Queued(n)' = Cardinality(Places(Append(d, m), n))
    BY DEF Queued, Places
  <2>3. Queued(n)' = IF n = m THEN Queued(n) + 1 ELSE Queued(n)
    BY <2>1, <2>2, PlacesAppend
  <2>4. InHand(n)' = InHand(n)
    BY DEF InHand
  <2>5. owed[n] \in Int /\ owed'[n] = IF n = m THEN owed[n] + 1 ELSE owed[n]
    BY <1>2
  <2>6. Extra(n) = Queued(n) + InHand(n) - owed[n] /\ Extra(n)' = Queued(n)' + InHand(n)' - owed'[n]
    BY DEF Extra
  <2> QED BY ONLY <2>1, <2>3, <2>4, <2>5, <2>6
<1>4. OwedCounts'
  <2>1. Stray' = Stray
    BY DEF Stray
  <2>2. owed \in [Msg -> Int] /\ strays \in Nat
    BY ServerAssumption
  <2> QED BY <1>3, <2>1, <2>2, CountsKept
<1>5. Serving'
  BY <1>1 DEF Serving
<1>6. Len(d') <= MaxQueue + 1
  BY <1>1, LenProperties, ServerAssumption
<1> QED BY <1>1, <1>2, <1>4, <1>5, <1>6

LEMMA SendStep ==
  ASSUME IInv, NEW m \in Msg, send(m)
  PROVE  IInv'
<1>1. Push(m) /\ m \notin Called /\ UNCHANGED <<bgVars, taskVars, client, done>>
  BY DEF send
<1>2. OneCall'
  BY <1>1, PushFacts, ServerAssumption DEF OneCall, IInv
<1>3. client' \in [Msg -> {"idle", "test", "enter", "wait"}] /\ done' \in [Msg -> BOOLEAN]
  BY <1>1 DEF IInv, TypeOK
<1> QED BY <1>1, <1>2, <1>3, PushFacts, MessageStep

LEMMA CallStep ==
  ASSUME IInv, NEW m \in Msg, call(m)
  PROVE  IInv'
<1>1. /\ Push(m) /\ m \in Called /\ client[m] = "idle" /\ UNCHANGED <<bgVars, taskVars>>
      /\ done' = [done EXCEPT ![m] = FALSE] /\ client' = [client EXCEPT ![m] = "test"]
  BY DEF call
<1>2. done' \in [Msg -> BOOLEAN] /\ client' \in [Msg -> {"idle", "test", "enter", "wait"}]
  BY <1>1 DEF IInv, TypeOK
<1>3. m \notin requeued => owed[m] = 0 /\ ~(serving = "done" /\ f = m)
  BY <1>1 DEF OneCall, IInv
<1>4. OneCall'
  <2> SUFFICES ASSUME NEW n \in Called \ requeued
               PROVE  /\ owed'[n] \in {0, 1}
                      /\ client'[n] = "idle" => owed'[n] = 0
                      /\ done'[n] => owed'[n] = 0
                      /\ serving' = "done" /\ f' = n => owed'[n] = 0 /\ ~done'[n] /\ client'[n] # "idle"
    BY <1>1, PushFacts DEF OneCall
  <2>1. n \in Msg
    BY ServerAssumption
  <2>2. CASE n = m
    <3>1. owed'[n] = 1 /\ client'[n] = "test" /\ ~done'[n] /\ ~(serving' = "done" /\ f' = n)
      BY <1>1, <1>3, <2>1, <2>2, PushFacts DEF IInv, TypeOK
    <3> QED BY <3>1
  <2>3. CASE n # m
    <3>1. /\ owed'[n] = owed[n] /\ client'[n] = client[n] /\ done'[n] = done[n]
          /\ serving' = serving /\ f' = f
      BY <1>1, <2>1, <2>3, PushFacts DEF IInv, TypeOK
    <3> QED BY <3>1 DEF OneCall, IInv
  <2> QED BY <2>2, <2>3
<1> QED BY <1>1, <1>2, <1>4, PushFacts, MessageStep

\* A caller's own steps: it returns only when done is set.
LEMMA ClientStep ==
  ASSUME IInv, NEW m \in Msg, CallTests(m) \/ CallWaits(m) \/ SpuriousWakeup(m)
  PROVE  IInv'
<1>1. PICK to \in {"idle", "test", "enter", "wait"} :
        /\ client' = [client EXCEPT ![m] = to] /\ (to = "idle" => done[m])
        /\ UNCHANGED <<bgVars, taskVars, serverVars, done, histVars>>
  BY DEF CallTests, CallWaits, SpuriousWakeup, ClientAt
<1>2. UNCHANGED <<d, rq, serving, f, done, owed, strays, requeued>>
  BY <1>1 DEF serverVars, histVars
<1>3. client' \in [Msg -> {"idle", "test", "enter", "wait"}] /\ client'[m] = to
      /\ \A n \in Msg : n # m => client'[n] = client[n]
  BY <1>1 DEF IInv, TypeOK
<1>4. Serving' /\ OwedCounts'
  BY <1>2 DEF IInv, Serving, OwedCounts, Stray, Extra, Queued, InHand
<1>5. OneCall'
  BY <1>1, <1>2, <1>3, ServerAssumption DEF IInv, OneCall
<1>6. owed' \in [Msg -> Int]
  BY <1>2 DEF IInv, TypeOK
<1> QED BY <1>1, <1>2, <1>3, <1>4, <1>5, <1>6, MessageStep DEF IInv, TypeOK

---------------------------------------------------------------------------
(* Server::doWork.                                                         *)

LEMMA TakeMessageStep ==
  ASSUME IInv, TakeMessage
  PROVE  IInv'
<1> USE DEF IInv, TypeOK
<1>1. /\ serving = "loop" /\ d # <<>> /\ f' = Head(d) /\ d' = Tail(d) /\ serving' = "exec"
      /\ UNCHANGED <<bgVars, taskVars, rq, client, done, owed, strays, requeued>>
  BY DEF TakeMessage, clientVars, histVars
<1>2. d' \in Seq(Msg) /\ Len(d') = Len(d) - 1 /\ Len(d) \in Nat /\ f' \in Msg
  BY <1>1, HeadTailProperties, LenProperties
<1>3. ASSUME NEW n \in Msg PROVE Extra(n)' = Extra(n)
  <2>1. Queued(n) = Cardinality(Places(d, n)) /\ InHand(n) = 0
    BY <1>1, QueuedFacts, ServerAssumption DEF InHand
  <2>2. Queued(n)' = Cardinality(Places(Tail(d), n)) /\ Cardinality(Places(Tail(d), n)) \in Nat
    BY <1>1, <1>2, PlacesFinite DEF Queued, Places
  <2>3. InHand(n)' = IF n = Head(d) THEN 1 ELSE 0
    BY <1>1 DEF InHand
  <2>4. Queued(n) = Queued(n)' + InHand(n)'
    BY <1>1, <2>1, <2>2, <2>3, PlacesTail
  <2> QED BY <1>1, <2>1, <2>2, <2>3, <2>4 DEF Extra
<1>4. OwedCounts'
  <2>1. Stray' = Stray
    BY <1>1 DEF Stray
  <2>2. owed \in [Msg -> Int] /\ strays \in Nat
    BY ServerAssumption
  <2> QED BY <1>1, <1>3, <2>1, <2>2, CountsKept
<1>5. Serving'
  BY <1>1, <1>2, ServerAssumption DEF Serving
<1>6. OneCall'
  BY <1>1 DEF OneCall
<1>7. Len(d') <= MaxQueue + 1 /\ (f' = NoMsg <=> serving' = "loop") /\ owed' \in [Msg -> Int]
  BY <1>1, <1>2, ServerAssumption
<1> QED BY <1>1, <1>2, <1>4, <1>5, <1>6, <1>7, MessageStep

\* What the server has in hand while it runs a message: that message, once.
LEMMA InHandFacts ==
  ASSUME IInv, serving = "exec", UNCHANGED d
  PROVE  /\ f \in Msg /\ f # NoMsg /\ Len(d) <= MaxQueue
         /\ \A n \in Msg :
              /\ Queued(n) \in Nat /\ Queued(n)' = Queued(n)
              /\ InHand(n) = (IF n = f THEN 1 ELSE 0)
              /\ owed[n] \in Int /\ Extra(n) \in Int
<1>1. f \in Msg /\ f # NoMsg /\ Len(d) <= MaxQueue
  BY ServerAssumption DEF IInv, TypeOK, Serving
<1>2. ASSUME NEW n \in Msg
      PROVE  /\ Queued(n) \in Nat /\ Queued(n)' = Queued(n)
             /\ InHand(n) = (IF n = f THEN 1 ELSE 0)
             /\ owed[n] \in Int /\ Extra(n) \in Int
  <2>1. Queued(n) \in Nat /\ Queued(n)' = Queued(n)
    BY QueuedFacts DEF IInv, TypeOK, Queued
  <2>2. InHand(n) = IF n = f THEN 1 ELSE 0
    BY <1>1 DEF InHand
  <2>3. owed[n] \in Int
    BY ServerAssumption DEF IInv, TypeOK
  <2> QED BY <2>1, <2>2, <2>3 DEF Extra
<1> QED BY <1>1, <1>2

\* A call whose message was never queued again has one run to go, and waits.
LEMMA CallInHand ==
  ASSUME IInv, serving = "exec", UNCHANGED d, f \in Called \ requeued
  PROVE  owed[f] = 1 /\ ~done[f] /\ client[f] # "idle"
<1>1. Extra(f) = 0 /\ owed[f] \in {0, 1} /\ f \in Msg
  BY InHandFacts DEF IInv, OwedCounts, OneCall
<1>2. Queued(f) \in Nat /\ InHand(f) = 1
  BY <1>1, InHandFacts
<1>3. owed[f] = 1
  BY <1>1, <1>2 DEF Extra
<1> QED BY <1>3 DEF IInv, OneCall

\* The message in hand returned: it leaves the hand or, with rq, will be queued.
LEMMA RunEndsStep ==
  ASSUME IInv, serving = "exec", UNCHANGED <<bgVars, taskVars, d, client, done>>,
         NEW asks \in BOOLEAN, RunEnds(asks)
  PROVE  IInv'
<1> USE DEF IInv, TypeOK
<1>1. /\ rq' = (rq \/ asks) /\ rq' \in BOOLEAN /\ f' = f /\ strays' = strays
      /\ owed' = IF asks THEN owed ELSE [owed EXCEPT ![f] = @ - 1]
      /\ requeued' = IF rq' THEN requeued \cup ({f} \cap Called) ELSE requeued
      /\ serving' = IF f \in Called THEN "done" ELSE "requeue"
  BY DEF RunEnds, ServeAt
<1>2. f \in Msg /\ f # NoMsg /\ Len(d) <= MaxQueue
  BY InHandFacts
<1>3. /\ owed' \in [Msg -> Int] /\ \A n \in Msg : n # f => owed'[n] = owed[n]
      /\ owed'[f] = IF asks THEN owed[f] ELSE owed[f] - 1
  <2>1. owed \in [Msg -> Int]
    BY ServerAssumption
  <2> QED BY <1>1, <1>2, <2>1
<1>4. \A n \in Msg : InHand(n)' = IF n = f /\ rq' THEN 1 ELSE 0
  BY <1>1 DEF InHand
<1>5. ASSUME NEW n \in Msg
      PROVE  Extra(n)' = IF n = f /\ rq' /\ ~asks THEN Extra(n) + 1 ELSE Extra(n)
  <2>1. /\ Queued(n)' = Queued(n) /\ Queued(n) \in Nat /\ owed[n] \in Int
        /\ InHand(n) = (IF n = f THEN 1 ELSE 0)
    BY InHandFacts
  <2>2. /\ InHand(n)' = IF n = f /\ rq' THEN 1 ELSE 0
        /\ owed'[n] = IF n = f /\ ~asks THEN owed[n] - 1 ELSE owed[n]
    BY <1>3, <1>4
  <2>3. asks => rq'
    BY <1>1
  <2>4. Extra(n) = Queued(n) + InHand(n) - owed[n] /\ Extra(n)' = Queued(n)' + InHand(n)' - owed'[n]
    BY DEF Extra
  <2> QED BY ONLY <2>1, <2>2, <2>3, <2>4
<1>6. /\ Stray = IF rq THEN 1 ELSE 0
      /\ Stray' = 0 /\ strays \in Nat
  BY <1>1, ServerAssumption DEF Stray
<1>7. OwedCounts'
  <2> SUFFICES ASSUME NEW n \in Msg
               PROVE  /\ Extra(n)' >= 0 /\ Extra(n)' + Stray' <= strays'
                      /\ n \in Called \ requeued' => Extra(n)' = 0
    BY DEF OwedCounts
  <2>1. /\ Extra(n) \in Int /\ Extra(n) >= 0 /\ Extra(n) + Stray <= strays
        /\ n \in Called \ requeued => Extra(n) = 0
    BY InHandFacts DEF OwedCounts
  <2>2. CASE n # f
    BY <1>1, <1>5, <1>6, <2>1, <2>2
  <2>3. CASE n = f /\ rq' /\ ~asks
    <3>1. rq /\ f \notin Called \ requeued'
      BY <1>1, <2>3
    <3> QED BY <1>1, <1>5, <1>6, <2>1, <2>3, <3>1
  <2>4. CASE n = f /\ ~(rq' /\ ~asks)
    BY <1>1, <1>5, <1>6, <2>1, <2>4
  <2> QED BY <2>2, <2>3, <2>4
<1>8. Serving'
  BY <1>1, <1>2 DEF Serving
<1>9. OneCall'
  <2> SUFFICES ASSUME NEW n \in Called \ requeued'
               PROVE  /\ owed'[n] \in {0, 1}
                      /\ client'[n] = "idle" => owed'[n] = 0
                      /\ done'[n] => owed'[n] = 0
                      /\ serving' = "done" /\ f' = n => owed'[n] = 0 /\ ~done'[n] /\ client'[n] # "idle"
    BY DEF OneCall
  <2>1. n \in Called \ requeued /\ n \in Msg
    BY <1>1, ServerAssumption
  <2>2. CASE n = f
    <3>1. ~rq' /\ ~asks
      BY <1>1, <2>2
    <3> QED BY <1>3, <2>1, <2>2, <3>1, CallInHand
  <2>3. CASE n # f
    BY <1>1, <1>3, <2>1, <2>3 DEF OneCall
  <2> QED BY <2>2, <2>3
<1>10. requeued' \subseteq Called /\ Len(d') <= MaxQueue + 1
  BY <1>1, <1>2, LenProperties, ServerAssumption
<1>11. /\ serving' \in {"loop", "exec", "done", "notify", "requeue"}
       /\ f' \in Msg \cup {NoMsg} /\ (f' = NoMsg <=> serving' = "loop")
  BY <1>1, <1>2
<1> QED BY <1>1, <1>3, <1>7, <1>8, <1>9, <1>10, <1>11, MessageStep

\* The message in hand threw: it had its run, and what is left in rq may be its own.
LEMMA RunThrowsStep ==
  ASSUME IInv, serving = "exec", UNCHANGED <<bgVars, taskVars, d, client, done>>,
         NEW asks \in BOOLEAN, RunThrows(asks)
  PROVE  IInv'
<1> USE DEF IInv, TypeOK
<1>1. /\ rq' = (rq \/ asks) /\ rq' \in BOOLEAN /\ f' = NoMsg /\ serving' = "loop"
      /\ asks => strays < MaxStrays
      /\ owed' = [owed EXCEPT ![f] = @ - 1]
      /\ strays' = IF asks THEN strays + 1 ELSE strays
      /\ requeued' = requeued
  BY DEF RunThrows, ServeAt
<1>2. f \in Msg /\ f # NoMsg /\ Len(d) <= MaxQueue
  BY InHandFacts
<1>3. /\ owed' \in [Msg -> Int] /\ \A n \in Msg : n # f => owed'[n] = owed[n]
      /\ owed'[f] = owed[f] - 1
  <2>1. owed \in [Msg -> Int]
    BY ServerAssumption
  <2> QED BY <1>1, <1>2, <2>1
<1>4. ASSUME NEW n \in Msg PROVE Extra(n)' = Extra(n)
  <2>1. InHand(n)' = 0
    BY <1>1, ServerAssumption DEF InHand
  <2>2. CASE n = f
    BY <1>3, <2>1, <2>2, InHandFacts DEF Extra
  <2>3. CASE n # f
    BY <1>3, <2>1, <2>3, InHandFacts DEF Extra
  <2> QED BY <2>2, <2>3
<1>5. strays \in Nat /\ strays' \in 0..MaxStrays /\ Stray' - Stray <= strays' - strays /\ Stray \in {0, 1} /\ Stray' \in {0, 1}
  BY <1>1, ServerAssumption DEF Stray
<1>6. OwedCounts'
  <2> SUFFICES ASSUME NEW n \in Msg
               PROVE  /\ Extra(n)' >= 0 /\ Extra(n)' + Stray' <= strays'
                      /\ n \in Called \ requeued' => Extra(n)' = 0
    BY DEF OwedCounts
  <2>1. /\ Extra(n) \in Int /\ Extra(n) >= 0 /\ Extra(n) + Stray <= strays
        /\ n \in Called \ requeued => Extra(n) = 0
    BY InHandFacts DEF OwedCounts
  <2>2. Extra(n)' = Extra(n) /\ requeued' = requeued
    BY <1>1, <1>4
  <2>3. strays \in Int /\ strays' \in Int /\ Stray \in Int /\ Stray' \in Int
    BY <1>5, ServerAssumption
  <2>4. Stray' - Stray <= strays' - strays
    BY <1>5
  <2>5. Extra(n)' >= 0 /\ Extra(n)' + Stray' <= strays'
    <3>1. \A a, b, c, e, g \in Int : a + b <= c /\ e - b <= g - c => a + e <= g
      OBVIOUS
    <3>2. Extra(n) + Stray' <= strays'
      BY ONLY <2>1, <2>3, <2>4, <3>1
    <3> QED BY ONLY <2>1, <2>2, <3>2
  <2>6. n \in Called \ requeued' => Extra(n)' = 0
    BY ONLY <2>1, <2>2
  <2> QED BY <2>5, <2>6
<1>7. Serving'
  BY <1>1 DEF Serving
<1>8. OneCall'
  <2> SUFFICES ASSUME NEW n \in Called \ requeued
               PROVE  /\ owed'[n] \in {0, 1}
                      /\ client[n] = "idle" => owed'[n] = 0
                      /\ done[n] => owed'[n] = 0
    BY <1>1 DEF OneCall
  <2>1. n \in Msg
    BY ServerAssumption
  <2>2. CASE n = f
    BY <1>3, <2>2, CallInHand
  <2>3. CASE n # f
    BY <1>3, <2>1, <2>3 DEF OneCall
  <2> QED BY <2>2, <2>3
<1>9. Len(d') <= MaxQueue + 1
  BY <1>2, LenProperties, ServerAssumption
<1> QED BY <1>1, <1>3, <1>5, <1>6, <1>7, <1>8, <1>9, MessageStep

LEMMA ExecMessageStep ==
  ASSUME IInv, ExecMessage
  PROVE  IInv'
BY RunEndsStep, RunThrowsStep DEF ExecMessage

\* Ret::f's two steps.
LEMMA AnswerStep ==
  ASSUME IInv, SetDone \/ NotifyCaller
  PROVE  IInv'
<1> USE DEF IInv, TypeOK
<1>1. /\ serving \in {"done", "notify"} /\ f \in Called /\ f \in Msg /\ f' = f
      /\ serving' = IF serving = "done" THEN "notify" ELSE "requeue"
      /\ UNCHANGED <<bgVars, taskVars, d, rq, owed, strays, requeued>> /\ Len(d) <= MaxQueue /\ f # NoMsg
  BY ServerAssumption DEF SetDone, NotifyCaller, ServeAt, Serving, histVars
<1>2. OwedCounts' /\ Serving'
  BY <1>1 DEF OwedCounts, Stray, Extra, Queued, InHand, Serving
<1>3. Len(d') <= MaxQueue + 1 /\ owed' \in [Msg -> Int]
  BY <1>1, LenProperties, ServerAssumption
<1>4. CASE SetDone
  <2>1. serving = "done" /\ done' = [done EXCEPT ![f] = TRUE] /\ client' = client
    BY <1>4 DEF SetDone
  <2>2. OneCall'
    BY <1>1, <2>1, ServerAssumption DEF OneCall
  <2>3. done' \in [Msg -> BOOLEAN]
    BY <2>1
  <2> QED BY <1>1, <1>2, <1>3, <2>1, <2>2, <2>3, MessageStep
<1>5. CASE NotifyCaller
  <2>1. /\ serving = "notify" /\ done' = done
        /\ client' = [client EXCEPT ![f] = IF @ = "wait" THEN "test" ELSE @]
    BY <1>5 DEF NotifyCaller
  <2>2. /\ client' \in [Msg -> {"idle", "test", "enter", "wait"}]
        /\ \A n \in Msg : client'[n] = "idle" => client[n] = "idle"
    BY <1>1, <2>1
  <2>3. OneCall'
    BY <1>1, <2>1, <2>2, ServerAssumption DEF OneCall
  <2> QED BY <1>1, <1>2, <1>3, <2>1, <2>2, <2>3, MessageStep
<1> QED BY <1>4, <1>5

LEMMA RequeueStep ==
  ASSUME IInv, Requeue
  PROVE  IInv'
<1> USE DEF IInv, TypeOK
<1>1. /\ serving = "requeue" /\ f \in Msg /\ rq' = FALSE /\ serving' = "loop" /\ f' = NoMsg
      /\ Len(d) <= MaxQueue /\ UNCHANGED <<bgVars, taskVars, client, done, owed, strays, requeued>>
  BY DEF Requeue, ServeAt, clientVars, histVars, Serving
<1>2. \A n \in Msg : InHand(n)' = 0 /\ InHand(n) = IF rq /\ n = f THEN 1 ELSE 0
  BY <1>1, ServerAssumption DEF InHand
<1>3. /\ d' \in Seq(Msg) /\ Len(d') <= MaxQueue + 1
      /\ \A n \in Msg : Queued(n)' = Queued(n) + InHand(n) /\ Queued(n) \in Nat
  <2>1. CASE rq
    <3>1. d' = Append(d, f)
      BY <2>1 DEF Requeue
    <3>2. d' \in Seq(Msg) /\ Len(d') = Len(d) + 1
      BY <1>1, <3>1, AppendProperties
    <3>3. ASSUME NEW n \in Msg PROVE Queued(n)' = Queued(n) + InHand(n) /\ Queued(n) \in Nat
      <4>1. Queued(n) = Cardinality(Places(d, n)) /\ Queued(n) \in Nat
        BY QueuedFacts
      <4>2. Queued(n)' = Cardinality(Places(Append(d, f), n))
        BY <3>1 DEF Queued, Places
      <4> QED BY <1>1, <1>2, <2>1, <4>1, <4>2, PlacesAppend
    <3> QED BY <1>1, <3>2, <3>3, LenProperties, ServerAssumption
  <2>2. CASE ~rq
    <3>1. d' = d
      BY <2>2 DEF Requeue
    <3> QED BY <1>1, <1>2, <2>2, <3>1, QueuedFacts, LenProperties, ServerAssumption DEF Queued
  <2> QED BY <2>1, <2>2
<1>4. OwedCounts'
  <2>1. ASSUME NEW n \in Msg PROVE Extra(n)' = Extra(n)
    <3>1. owed[n] \in Int /\ owed'[n] = owed[n]
      BY <1>1, ServerAssumption
    <3>2. Extra(n) = Queued(n) + InHand(n) - owed[n] /\ Extra(n)' = Queued(n)' + InHand(n)' - owed'[n]
      BY DEF Extra
    <3>3. /\ Queued(n)' = Queued(n) + InHand(n) /\ Queued(n) \in Nat
          /\ InHand(n)' = 0 /\ InHand(n) \in {0, 1}
      BY <1>2, <1>3
    <3> QED BY ONLY <3>1, <3>2, <3>3
  <2>2. Stray' = 0 /\ Stray = 0
    BY <1>1 DEF Stray
  <2>3. owed \in [Msg -> Int] /\ strays \in Nat
    BY ServerAssumption
  <2> QED BY <1>1, <2>1, <2>2, <2>3, CountsKept
<1>5. Serving' /\ OneCall'
  BY <1>1 DEF Serving, OneCall
<1>6. owed' \in [Msg -> Int]
  BY <1>1
<1> QED BY <1>1, <1>3, <1>4, <1>5, <1>6, MessageStep

---------------------------------------------------------------------------
(* The inductive invariant.                                                *)

LEMMA InitIInv == Init => IInv
<1> SUFFICES ASSUME Init PROVE IInv
  OBVIOUS
<1> USE ServerAssumption DEF Init
<1>1. JobIInv
  BY InitJob
<1>2. d = <<>> /\ d \in Seq(Msg) /\ Len(d) = 0
  BY EmptySeq
<1>3. TypeOK
  <2>1. Len(d) <= MaxQueue + 1 /\ 0 \in -MaxStrays..MaxQueue + 1 /\ 0 \in 0..MaxStrays
    BY <1>2
  <2> QED BY <1>1, <1>2, <2>1 DEF TypeOK, JobIInv
<1>4. \A m \in Msg : Queued(m) = 0 /\ InHand(m) = 0
  BY <1>2, FS_EmptySet DEF Queued, InHand
<1>5. Serving /\ OwedCounts /\ OneCall
  BY <1>4 DEF Serving, OwedCounts, Stray, Extra, OneCall
<1> QED BY <1>1, <1>3, <1>5 DEF IInv

\* The jobs' and tasks' steps do not touch the messages.
LEMMA OtherStep ==
  ASSUME IInv, UNCHANGED <<serverVars, clientVars>>, JobIInv',
         repeat' \in [Task -> BOOLEAN], inShutdown' \in BOOLEAN
  PROVE  IInv'
BY DEF IInv, TypeOK, JobIInv, Serving, OwedCounts, Stray, Extra, OneCall, Queued, InHand,
       serverVars, clientVars, histVars

LEMMA StepIInv == IInv /\ [Next]_vars => IInv'
<1> SUFFICES ASSUME IInv, [Next]_vars PROVE IInv'
  OBVIOUS
<1>1. JobIInv /\ repeat \in [Task -> BOOLEAN] /\ inShutdown \in BOOLEAN
  BY DEF IInv, TypeOK
<1>2. CASE JobNext /\ UNCHANGED <<taskVars, serverVars, clientVars>>
  BY <1>1, <1>2, JobStep, OtherStep DEF taskVars
<1>3. ASSUME NEW t \in Task, Begin(t) PROVE IInv'
  <2>1. JobIInv'
    BY <1>1, <1>3, TaskJobStep DEF Begin, go
  <2>2. repeat' \in [Task -> BOOLEAN] /\ inShutdown' = inShutdown
    BY <1>1, <1>3 DEF Begin
  <2> QED BY <1>1, <1>3, <2>1, <2>2, OtherStep DEF Begin
<1>4. ASSUME NEW t \in Task, halt(t) PROVE IInv'
  <2>1. repeat' \in [Task -> BOOLEAN]
    BY <1>1, <1>4 DEF halt
  <2> QED BY <1>1, <1>4, <2>1, JobUnchanged, OtherStep DEF halt
<1>5. ASSUME NEW t \in Task, WorkEnds(t) \/ TaskWakes(t) PROVE IInv'
  <2>1. exists[t]
    BY <1>1, <1>5 DEF JobIInv, ThreadHasObject, WorkEnds, TaskWakes, Job
  <2>2. /\ \E pos \in {"body", "run", "sleep", "finish"} : ThreadAt(t, pos)
        /\ UNCHANGED <<state, exists, portVars, taskVars, serverVars, clientVars>>
    BY <1>5 DEF WorkEnds, TaskWakes
  <2> QED BY <1>1, <2>1, <2>2, TaskJobStep, OtherStep DEF taskVars
<1>6. CASE ShutDown
  BY <1>1, <1>6, JobUnchanged, OtherStep DEF ShutDown
<1>7. ASSUME NEW m \in Msg, send(m) \/ call(m) PROVE IInv'
  BY <1>7, SendStep, CallStep
<1>8. ASSUME NEW m \in Msg, CallTests(m) \/ CallWaits(m) \/ SpuriousWakeup(m) PROVE IInv'
  BY <1>8, ClientStep
<1>9. CASE ServerStep
  BY <1>9, TakeMessageStep, ExecMessageStep, AnswerStep, RequeueStep DEF ServerStep
<1>10. CASE UNCHANGED vars
  BY <1>1, <1>10, JobUnchanged, OtherStep DEF vars, taskVars
<1> QED BY <1>2, <1>3, <1>4, <1>5, <1>6, <1>7, <1>8, <1>9, <1>10 DEF Next

LEMMA Invariance == Spec => []IInv
BY InitIInv, StepIInv, PTL DEF Spec

---------------------------------------------------------------------------
(* The theorems.                                                           *)

\* The jobs', tasks' and server's variables keep their types; the deque exceeds
\* the clients' bound by the one message that is queued again.
THEOREM TypeCorrect == Spec => []TypeOK
<1>1. IInv => TypeOK
  BY DEF IInv
<1> QED BY <1>1, Invariance, PTL

\* "BackgroundJob object must exist for as long the background thread is
\* running" (background.h), for the jobs on a stack and for those that delete
\* themselves.
THEOREM JobOutlivesThread == Spec => []ObjectOutlivesUse
<1>1. IInv => ObjectOutlivesUse
  BY DEF IInv, JobIInv, ThreadHasObject, ObjectOutlivesUse
<1> QED BY <1>1, Invariance, PTL

\* connect answers true only for a connected descriptor, and false only when
\* it gave the descriptor back, whoever wins the race with its time-out.
THEOREM ConnectAnswersRight == Spec => []AnswerIsAboutSocket
<1>1. IInv => AnswerIsAboutSocket
  BY DEF IInv, JobIInv, PortJob, AnswerIsAboutSocket
<1> QED BY <1>1, Invariance, PTL

\* No message is dropped, and a message runs more often than it was sent and asked
\* for requeue() at most once for every exception that followed a requeue(); a
\* call that returned has run, unless its Ret is also a requeued message's.
THEOREM MessagesRanAsAsked == Spec => []RanAsAsked
<1>1. ASSUME IInv PROVE RanAsAsked
  <2>1. ASSUME NEW m \in Msg PROVE Extra(m) \in 0..strays
    <3>1. Extra(m) \in Int
      <4>1. Queued(m) \in Nat /\ InHand(m) \in {0, 1}
        BY <1>1, QueuedFacts DEF IInv, TypeOK
      <4>2. owed[m] \in Int
        BY <1>1, ServerAssumption DEF IInv, TypeOK
      <4> QED BY <4>1, <4>2 DEF Extra
    <3>2. Stray \in {0, 1} /\ strays \in Nat
      BY <1>1, ServerAssumption DEF IInv, TypeOK, Stray
    <3> QED BY <1>1, <3>1, <3>2 DEF IInv, OwedCounts
  <2>2. \A m \in Called \ requeued : client[m] = "idle" => owed[m] = 0
    BY <1>1 DEF IInv, OneCall
  <2> QED BY <2>1, <2>2 DEF RanAsAsked
<1> QED BY <1>1, Invariance, PTL
=============================================================================
