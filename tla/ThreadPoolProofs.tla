-------------------------- MODULE ThreadPoolProofs --------------------------
(***************************************************************************)
(* What ThreadPool guarantees for any number of workers, tasks and         *)
(* clients, and any pattern of tasks that schedule tasks.                  *)
(***************************************************************************)
EXTENDS ThreadPool, FiniteSetTheorems, SequenceTheorems, TLAPS

Free      == ToSet(_freeWorkers)
Scheduled == {t \in Task : progress[t] = "scheduled"}
Finished  == {t \in Task : progress[t] = "finished"}
Reporting == {w \in Worker : at[w] = "report"}

\* _tasksRemaining counts the tasks that have not ended and the workers that
\* have not yet told the pool so.
CountsMatch ==
    /\ _tasksRemaining = Cardinality(Scheduled) + Cardinality(Reporting)
    /\ Cardinality(Reporting) <= Cardinality(Finished)

\* A scheduled task is in the queue, in an MVar or run, and in one place only.
OnePlace ==
    /\ \A t \in Task : t \in Scheduled <=>
         t \in ToSet(_tasks) \/ \E w \in Worker : t = _task[w] \/ t = runs[w]
    /\ \A v, w \in Worker :
         /\ _task[v] \in Task => _task[v] # runs[w] /\ _task[v] \notin ToSet(_tasks)
         /\ runs[v] \in Task => runs[v] \notin ToSet(_tasks)
         /\ v # w => (_task[v] \in Task => _task[v] # _task[w]) /\ (runs[v] \in Task => runs[v] # runs[w])

\* A worker is free, or it has a task to take, or it is somewhere else.
EachWorker ==
    \A w \in Worker :
      /\ at[w] = "run" <=> runs[w] \in Task
      /\ at[w] # "take" => _task[w] = Empty
      /\ at[w] = "report" => _is_done[w]
      /\ w \in Free => at[w] \in {"take", "ended"} /\ _is_done[w] /\ _task[w] \notin Task
      /\ w \in Free \/ _task[w] \in Task \/ at[w] # "take"

\* No worker is free while tasks wait; the destructor finds every task done,
\* and ends one worker after the other.
Destruction ==
    /\ _tasks # <<>> => _freeWorkers = <<>>
    /\ where[Owner] \in {"idle", "join"} => \A w \in Worker : at[w] # "ended"
    /\ where[Owner] \in {"stop", "await", "gone"} => Scheduled = {} /\ Reporting = {}
    /\ where[Owner] = "stop" => \A w \in Worker : w \in Free <=> at[w] # "ended"
    /\ where[Owner] = "await" =>
         /\ _freeWorkers # <<>>
         /\ \A w \in Worker : w \in Free <=> at[w] # "ended" \/ w = Head(_freeWorkers)
    /\ \A w \in Worker : _task[w] = NullTask =>
         where[Owner] = "await" /\ _freeWorkers # <<>> /\ w = Head(_freeWorkers)

IInv ==
    /\ TypeOK
    /\ CountsMatch
    /\ OnePlace
    /\ EachWorker
    /\ Destruction

---------------------------------------------------------------------------
(* Lists without repetitions.                                              *)

\* What pop_front leaves of a list without repetitions.
LEMMA TailOnce ==
  ASSUME NEW S, NEW s \in Seq(S), s # <<>>, IsInjective(s)
  PROVE  /\ Head(s) \in Range(s)
         /\ Tail(s) \in Seq(S)
         /\ IsInjective(Tail(s))
         /\ Range(Tail(s)) = Range(s) \ {Head(s)}
<1>1. /\ DOMAIN s = 1..Len(s) /\ Len(s) \in Nat \ {0} /\ Head(s) = s[1]
      /\ Tail(s) \in Seq(S) /\ Len(Tail(s)) = Len(s) - 1
      /\ \A i \in 1..Len(Tail(s)) : Tail(s)[i] = s[i+1]
  BY LenProperties, EmptySeq, HeadTailProperties
<1>2. DOMAIN Tail(s) = 1..Len(Tail(s))
  BY <1>1, LenProperties
<1> DEFINE t == Tail(s)
<1> HIDE DEF t
<1>3. /\ DOMAIN t = 1..(Len(s) - 1) /\ \A i \in 1..(Len(s) - 1) : t[i] = s[i+1]
  BY <1>1, <1>2 DEF t
<1>4. IsInjective(t)
  BY <1>1, <1>3 DEF IsInjective
<1>5. ASSUME NEW x \in Range(s), x # Head(s) PROVE x \in Range(t)
  <2>1. PICK i \in 2..Len(s) : s[i] = x
    BY <1>1, <1>5 DEF Range
  <2>2. i - 1 \in DOMAIN t /\ t[i-1] = x
    BY <2>1, <1>1, <1>3
  <2> QED BY <2>2 DEF Range
<1>6. ASSUME NEW x \in Range(t) PROVE x \in Range(s) /\ x # Head(s)
  <2>1. PICK i \in 1..(Len(s) - 1) : s[i+1] = x
    BY <1>3 DEF Range
  <2> QED BY <2>1, <1>1 DEF Range, IsInjective
<1>7. Head(s) \in Range(s)
  BY <1>1 DEF Range
<1> QED BY <1>1, <1>4, <1>5, <1>6, <1>7 DEF t

\* Putting a new element before a list without repetitions.
LEMMA ConsOnce ==
  ASSUME NEW S, NEW s \in Seq(S), NEW e \in S, IsInjective(s), e \notin Range(s)
  PROVE  /\ <<e>> \o s \in Seq(S)
         /\ IsInjective(<<e>> \o s)
         /\ Range(<<e>> \o s) = Range(s) \cup {e}
         /\ <<e>> \o s # <<>> /\ Head(<<e>> \o s) = e
<1> DEFINE t == <<e>> \o s
<1>1. <<e>> \in Seq(S) /\ Len(<<e>>) = 1 /\ <<e>>[1] = e /\ Len(s) \in Nat /\ DOMAIN s = 1..Len(s)
  BY LenProperties
<1>2. /\ t \in Seq(S) /\ Len(t) = Len(<<e>>) + Len(s)
      /\ \A i \in 1..(Len(<<e>>) + Len(s)) : t[i] = IF i <= Len(<<e>>) THEN <<e>>[i] ELSE s[i - Len(<<e>>)]
  BY <1>1, ConcatProperties
<1>3. DOMAIN t = 1..Len(t)
  BY <1>2, LenProperties
<1> HIDE DEF t
<1>4. Len(t) = Len(s) + 1 /\ t[1] = e /\ \A i \in 2..(Len(s) + 1) : t[i] = s[i-1]
  BY <1>1, <1>2
<1>5. IsInjective(t)
  <2>1. ASSUME NEW i \in 2..(Len(s) + 1) PROVE i - 1 \in 1..Len(s) /\ t[i] = s[i - 1] /\ t[i] # e
    <3>1. i - 1 \in 1..Len(s) /\ t[i] = s[i - 1]
      BY <1>1, <1>4
    <3> QED BY <1>1, <3>1 DEF Range
  <2>2. ASSUME NEW i \in 1..(Len(s) + 1), NEW j \in 1..(Len(s) + 1), t[i] = t[j] PROVE i = j
    <3>1. (i = 1 \/ i \in 2..(Len(s) + 1)) /\ (j = 1 \/ j \in 2..(Len(s) + 1))
      BY <1>1
    <3>2. CASE i = 1 \/ j = 1
      BY <1>4, <2>1, <2>2, <3>1, <3>2
    <3>3. CASE i \in 2..(Len(s) + 1) /\ j \in 2..(Len(s) + 1)
      <4>1. s[i - 1] = s[j - 1] /\ i - 1 \in DOMAIN s /\ j - 1 \in DOMAIN s
        BY <1>1, <2>1, <2>2, <3>3
      <4>2. i - 1 = j - 1
        BY <4>1 DEF IsInjective
      <4> QED BY <1>1, <4>2
    <3> QED BY <3>1, <3>2, <3>3
  <2> QED BY <1>3, <1>4, <2>2 DEF IsInjective
<1>6. Range(t) = Range(s) \cup {e}
  <2>1. ASSUME NEW x \in Range(t) PROVE x \in Range(s) \cup {e}
    BY <1>1, <1>3, <1>4 DEF Range
  <2>2. ASSUME NEW x \in Range(s) PROVE x \in Range(t)
    <3>1. PICK i \in 1..Len(s) : s[i] = x
      BY <1>1 DEF Range
    <3>2. i + 1 \in DOMAIN t /\ t[i+1] = x
      BY <3>1, <1>1, <1>3, <1>4
    <3> QED BY <3>2 DEF Range
  <2>3. e \in Range(t)
    BY <1>1, <1>3, <1>4 DEF Range
  <2> QED BY <2>1, <2>2, <2>3
<1>7. t # <<>> /\ Head(t) = e
  BY <1>1, <1>2, <1>4
<1> QED BY <1>2, <1>5, <1>6, <1>7 DEF t

\* Appending a new element to a list without repetitions.
LEMMA AppendOnce ==
  ASSUME NEW S, NEW s \in Seq(S), NEW e \in S, IsInjective(s), e \notin Range(s)
  PROVE  /\ Append(s, e) \in Seq(S)
         /\ IsInjective(Append(s, e))
         /\ Range(Append(s, e)) = Range(s) \cup {e}
         /\ Append(s, e) # <<>>
         /\ s # <<>> => Head(Append(s, e)) = Head(s)
<1> DEFINE t == Append(s, e)
<1>1. Len(s) \in Nat /\ DOMAIN s = 1..Len(s) /\ (s # <<>> => Len(s) > 0)
  BY LenProperties, EmptySeq
<1>2. /\ t \in Seq(S) /\ t # <<>> /\ Len(t) = Len(s) + 1
      /\ t[Len(s) + 1] = e /\ \A i \in 1..Len(s) : t[i] = s[i]
  BY AppendProperties
<1>3. DOMAIN t = 1..Len(t)
  BY <1>2, LenProperties
<1>4. s # <<>> => Head(t) = Head(s)
  BY HeadTailAppend
<1> HIDE DEF t
<1>5. IsInjective(t)
  BY <1>1, <1>2, <1>3 DEF IsInjective, Range
<1>6. Range(t) = Range(s) \cup {e}
  <2>1. ASSUME NEW x \in Range(t) PROVE x \in Range(s) \cup {e}
    BY <1>1, <1>2, <1>3 DEF Range
  <2>2. ASSUME NEW x \in Range(s) PROVE x \in Range(t)
    BY <1>1, <1>2, <1>3 DEF Range
  <2>3. e \in Range(t)
    BY <1>1, <1>2, <1>3 DEF Range
  <2> QED BY <2>1, <2>2, <2>3
<1> QED BY <1>2, <1>4, <1>5, <1>6 DEF t

\* The two names of the set of a list's elements.
LEMMA ToSetIsRange == ASSUME NEW s PROVE ToSet(s) = Range(s)
BY DEF ToSet, Range

---------------------------------------------------------------------------
(* Counting.                                                               *)

\* Tasks and workers can be counted.
LEMMA Finite ==
  /\ IsFiniteSet(Scheduled) /\ IsFiniteSet(Finished) /\ IsFiniteSet(Reporting)
  /\ Cardinality(Scheduled) \in Nat /\ Cardinality(Finished) \in Nat /\ Cardinality(Reporting) \in Nat
BY PoolAssumption, FS_Subset, FS_CardinalityType DEF Scheduled, Finished, Reporting

\* A task is not both on its way and at its end.
LEMMA ScheduledOrFinished == Cardinality(Scheduled) + Cardinality(Finished) <= Cardinality(Task)
<1>1. Scheduled \cap Finished = {} /\ (Scheduled \cup Finished) \in SUBSET Task
  BY DEF Scheduled, Finished
<1>2. Cardinality(Scheduled \cup Finished) = Cardinality(Scheduled) + Cardinality(Finished)
  <2>1. Cardinality(Scheduled \cap Finished) = 0
    BY <1>1, FS_EmptySet
  <2>2. Cardinality(Scheduled \cup Finished) =
          Cardinality(Scheduled) + Cardinality(Finished) - Cardinality(Scheduled \cap Finished)
    BY Finite, FS_Union
  <2> QED BY <2>1, <2>2, Finite
<1>3. Cardinality(Scheduled \cup Finished) <= Cardinality(Task)
  BY <1>1, PoolAssumption, FS_Subset
<1> QED BY <1>2, <1>3

\* The count of the remaining tasks stays within its type.
LEMMA CountBound == CountsMatch => _tasksRemaining \in 0..Cardinality(Task)
<1>1. Cardinality(Task) \in Nat
  BY PoolAssumption, FS_CardinalityType
<1> QED BY <1>1, Finite, ScheduledOrFinished DEF CountsMatch

---------------------------------------------------------------------------
(* The inductive invariant.                                                *)

LEMMA InitIInv == Init => IInv
<1> SUFFICES ASSUME Init PROVE IInv
  OBVIOUS
<1> USE PoolAssumption DEF Init
<1>1. _freeWorkers \in Seq(Worker) /\ IsInjective(_freeWorkers) /\ ToSet(_freeWorkers) = Worker
  <2> DEFINE n == Cardinality(Worker)
  <2>1. n \in Nat /\ IsFiniteSet(1..n) /\ Cardinality(1..n) = n
    <3>1. n \in Nat
      BY FS_CardinalityType
    <3> HIDE DEF n
    <3>2. IsFiniteSet(1..n) /\ Cardinality(1..n) = IF 1 > n THEN 0 ELSE n - 1 + 1
      BY <3>1, FS_Interval
    <3> QED BY <3>1, <3>2
  <2>2. _freeWorkers \in Injection(1..n, Worker)
    BY DEF SetToSeqs, Injection, IsInjective
  <2>3. _freeWorkers \in Surjection(1..n, Worker)
    BY <2>1, <2>2, FS_Injection
  <2>4. _freeWorkers \in Seq(Worker)
    BY <2>1, <2>2 DEF Injection
  <2> QED BY <2>2, <2>3, <2>4 DEF Injection, Surjection, ToSet
<1>2. ToSet(_tasks) = {} /\ _tasks \in Seq(Task) /\ IsInjective(_tasks)
  BY DEF ToSet, IsInjective
<1>3. Scheduled = {} /\ Reporting = {} /\ Finished = {}
  BY DEF Scheduled, Reporting, Finished
<1>4. CountsMatch
  BY <1>3, FS_EmptySet DEF CountsMatch
<1>5. TypeOK
  BY <1>1, <1>2, <1>4, CountBound DEF TypeOK, Joiner
<1>6. OnePlace /\ EachWorker
  BY <1>1, <1>2, <1>3 DEF OnePlace, EachWorker, Free
<1>7. Destruction
  BY DEF Destruction, Joiner
<1> QED BY <1>4, <1>5, <1>6, <1>7 DEF IInv

\* A new task is in no place, so it can go to a worker or into the queue.
LEMMA ScheduleStep ==
  ASSUME IInv, NEW t \in Task, schedule(t), where[Owner] \in {"idle", "join"}
  PROVE  IInv'
<1> USE DEF IInv
<1>1. /\ t \notin Scheduled /\ Scheduled' = Scheduled \cup {t}
      /\ Finished' = Finished /\ Reporting' = Reporting
      /\ progress' \in [Task -> {"new", "scheduled", "finished"}]
      /\ UNCHANGED <<at, runs, where, waiting>> /\ _tasksRemaining' = _tasksRemaining + 1
  BY DEF schedule, TypeOK, Scheduled, Finished, Reporting
<1>2. CountsMatch'
  <2>1. Cardinality(Scheduled') = Cardinality(Scheduled) + 1
    BY <1>1, Finite, FS_AddElement
  <2> QED BY <1>1, <2>1, Finite DEF CountsMatch
<1>3. _tasksRemaining' \in 0..Cardinality(Task)
  <2>1. (CountsMatch => _tasksRemaining \in 0..Cardinality(Task))'
    BY CountBound, PTL
  <2> QED BY <1>2, <2>1
<1>4. t \notin ToSet(_tasks) /\ \A w \in Worker : _task[w] # t /\ runs[w] # t
  BY <1>1 DEF OnePlace
<1>5. CASE _freeWorkers # <<>>
  <2> DEFINE h == Head(_freeWorkers)
  <2>1. /\ _task[h] = Empty /\ _task' = [_task EXCEPT ![h] = t]
        /\ _is_done' = [_is_done EXCEPT ![h] = FALSE]
        /\ _freeWorkers' = Tail(_freeWorkers) /\ _tasks' = _tasks
    BY <1>5 DEF schedule, set_task, put
  <2>2. /\ h \in Worker /\ h \in Free /\ Free' = Free \ {h}
        /\ _freeWorkers' \in Seq(Worker) /\ IsInjective(_freeWorkers')
    BY <1>5, <2>1, TailOnce, HeadTailProperties, ToSetIsRange DEF TypeOK, Free
  <2>3. _tasks = <<>>
    BY <1>5 DEF Destruction
  <2> HIDE DEF h
  <2>4. TypeOK'
    BY <1>1, <1>3, <2>1, <2>2 DEF TypeOK
  <2>5. OnePlace'
    BY <1>1, <1>4, <2>1, <2>2, PoolAssumption DEF OnePlace, TypeOK
  <2>6. EachWorker'
    BY <1>1, <2>1, <2>2, PoolAssumption DEF EachWorker, Destruction, TypeOK
  <2>7. Destruction'
    BY <1>1, <2>1, <2>2, <2>3, PoolAssumption DEF Destruction, TypeOK
  <2> QED BY <1>2, <2>4, <2>5, <2>6, <2>7
<1>6. CASE _freeWorkers = <<>>
  <2>1. _tasks' = Append(_tasks, t) /\ UNCHANGED <<_freeWorkers, _task, _is_done>>
    BY <1>6 DEF schedule
  <2>2. _tasks' \in Seq(Task) /\ IsInjective(_tasks') /\ ToSet(_tasks') = ToSet(_tasks) \cup {t}
    BY <1>4, <2>1, AppendOnce, ToSetIsRange DEF TypeOK
  <2>3. TypeOK'
    BY <1>1, <1>3, <2>1, <2>2 DEF TypeOK
  <2>4. OnePlace'
    BY <1>1, <1>4, <2>1, <2>2, PoolAssumption DEF OnePlace, TypeOK
  <2>5. EachWorker' /\ Destruction'
    BY <1>1, <1>6, <2>1 DEF EachWorker, Destruction, Free
  <2> QED BY <1>2, <2>3, <2>4, <2>5
<1> QED BY <1>5, <1>6

\* MVar::take: the task stays where only this worker has it.
LEMMA TakeStep ==
  ASSUME IInv, NEW w \in Worker, WorkerTakes(w)
  PROVE  IInv'
<1> USE DEF IInv
<1>1. /\ at[w] = "take" /\ _task[w] # Empty /\ _task' = [_task EXCEPT ![w] = Empty]
      /\ UNCHANGED <<_freeWorkers, _tasks, _tasksRemaining, _is_done, where, waiting, progress>>
  BY DEF WorkerTakes, poolVars
<1>2. Scheduled' = Scheduled /\ Finished' = Finished /\ Free' = Free
  BY <1>1 DEF Scheduled, Finished, Free
<1>3. CASE _task[w] = NullTask
  <2>1. at' = [at EXCEPT ![w] = "ended"] /\ runs' = runs
    BY <1>3 DEF WorkerTakes
  <2>2. Reporting' = Reporting
    BY <1>1, <2>1 DEF Reporting, TypeOK
  <2>3. TypeOK'
    BY <1>1, <2>1 DEF TypeOK
  <2>4. CountsMatch' /\ OnePlace'
    BY <1>1, <1>2, <1>3, <2>1, <2>2, PoolAssumption DEF CountsMatch, OnePlace, TypeOK
  <2>5. EachWorker'
    BY <1>1, <1>2, <1>3, <2>1, PoolAssumption DEF EachWorker, TypeOK
  <2>6. Destruction'
    BY <1>1, <1>2, <1>3, <2>1, <2>2, PoolAssumption DEF Destruction, TypeOK
  <2> QED BY <2>3, <2>4, <2>5, <2>6
<1>4. CASE _task[w] # NullTask
  <2>1. at' = [at EXCEPT ![w] = "run"] /\ runs' = [runs EXCEPT ![w] = _task[w]] /\ _task[w] \in Task
    BY <1>1, <1>4 DEF WorkerTakes, TypeOK
  <2>2. Reporting' = Reporting
    BY <1>1, <2>1 DEF Reporting, TypeOK
  <2>3. TypeOK'
    BY <1>1, <2>1 DEF TypeOK
  <2>4. runs[w] \notin Task /\ w \notin Free
    BY <1>1, <2>1 DEF EachWorker
  <2>5. CountsMatch'
    BY <1>1, <1>2, <2>2 DEF CountsMatch
  <2>6. OnePlace'
    BY <1>1, <1>2, <2>1, <2>4, PoolAssumption DEF OnePlace, TypeOK
  <2>7. EachWorker'
    BY <1>1, <1>2, <2>1, <2>4, PoolAssumption DEF EachWorker, TypeOK
  <2>8. Destruction'
    BY <1>1, <1>2, <2>1, <2>2, PoolAssumption DEF Destruction, OnePlace, TypeOK
  <2> QED BY <2>3, <2>5, <2>6, <2>7, <2>8
<1> QED BY <1>3, <1>4

\* The only worker that has the task ends it, and owes the pool a report.
LEMMA TaskEndsStep ==
  ASSUME IInv, NEW w \in Worker, TaskEnds(w)
  PROVE  IInv'
<1> USE DEF IInv
<1>1. /\ at[w] = "run" /\ progress' = [progress EXCEPT ![runs[w]] = "finished"]
      /\ _is_done' = [_is_done EXCEPT ![w] = TRUE] /\ at' = [at EXCEPT ![w] = "report"]
      /\ runs' = [runs EXCEPT ![w] = Empty]
      /\ UNCHANGED <<_freeWorkers, _tasks, _tasksRemaining, _task, where, waiting>>
  BY DEF TaskEnds, poolVars
<1>2. runs[w] \in Task /\ runs[w] \in Scheduled /\ Free' = Free /\ w \notin Free
  BY <1>1 DEF EachWorker, OnePlace, Free
<1>3. /\ Scheduled' = Scheduled \ {runs[w]}
      /\ runs[w] \notin Finished /\ Finished' = Finished \cup {runs[w]}
      /\ w \notin Reporting /\ Reporting' = Reporting \cup {w}
  BY <1>1, <1>2 DEF Scheduled, Finished, Reporting, TypeOK
<1>4. CountsMatch'
  <2>1. /\ Cardinality(Scheduled') = Cardinality(Scheduled) - 1
        /\ Cardinality(Finished') = Cardinality(Finished) + 1
        /\ Cardinality(Reporting') = Cardinality(Reporting) + 1
    BY <1>2, <1>3, Finite, FS_AddElement, FS_RemoveElement
  <2> QED BY <1>1, <2>1, Finite DEF CountsMatch
<1>5. TypeOK'
  BY <1>1, <1>2 DEF TypeOK
<1>6. OnePlace'
  BY <1>1, <1>2, <1>3, PoolAssumption DEF OnePlace, TypeOK
<1>7. EachWorker'
  BY <1>1, <1>2, PoolAssumption DEF EachWorker, TypeOK
<1>8. Destruction'
  BY <1>1, <1>2, <1>3, PoolAssumption DEF Destruction, TypeOK, Joiner
<1> QED BY <1>4, <1>5, <1>6, <1>7, <1>8

\* task_done: the worker takes the next task of the queue or is free again.
LEMMA TaskDoneStep ==
  ASSUME IInv, NEW w \in Worker, task_done(w)
  PROVE  IInv'
<1> USE DEF IInv
<1>1. /\ at[w] = "report" /\ at' = [at EXCEPT ![w] = "take"]
      /\ _tasksRemaining' = _tasksRemaining - 1
      /\ UNCHANGED <<runs, where, progress>> /\ waiting' \subseteq waiting
  BY DEF task_done, notify_all_if
<1>2. /\ Scheduled' = Scheduled /\ Finished' = Finished
      /\ w \in Reporting /\ Reporting' = Reporting \ {w}
  BY <1>1 DEF Scheduled, Finished, Reporting, TypeOK
<1>3. CountsMatch'
  <2>1. Cardinality(Reporting') = Cardinality(Reporting) - 1
    BY <1>2, Finite, FS_RemoveElement
  <2> QED BY <1>1, <1>2, <2>1, Finite DEF CountsMatch
<1>4. _tasksRemaining' \in 0..Cardinality(Task)
  <2>1. (CountsMatch => _tasksRemaining \in 0..Cardinality(Task))'
    BY CountBound, PTL
  <2> QED BY <1>3, <2>1
<1>5. w \notin Free /\ _task[w] = Empty /\ _is_done[w] /\ runs[w] \notin Task
  BY <1>1 DEF EachWorker
<1>6. where[Owner] \in {"idle", "join"}
  BY <1>2 DEF Destruction, TypeOK, Joiner
<1>7. CASE _tasks # <<>>
  <2> DEFINE t == Head(_tasks)
  <2>1. /\ _task' = [_task EXCEPT ![w] = t] /\ _is_done' = [_is_done EXCEPT ![w] = FALSE]
        /\ _tasks' = Tail(_tasks) /\ _freeWorkers' = _freeWorkers /\ Free' = Free
    BY <1>7 DEF task_done, set_task, put, Free
  <2>2. /\ t \in Task /\ t \in ToSet(_tasks) /\ ToSet(_tasks') = ToSet(_tasks) \ {t}
        /\ _tasks' \in Seq(Task) /\ IsInjective(_tasks')
    BY <1>7, <2>1, TailOnce, HeadTailProperties, ToSetIsRange DEF TypeOK
  <2> HIDE DEF t
  <2>3. _freeWorkers = <<>>
    BY <1>7 DEF Destruction
  <2>4. TypeOK'
    BY <1>1, <1>4, <2>1, <2>2 DEF TypeOK
  <2>5. OnePlace'
    BY <1>1, <1>2, <1>5, <2>1, <2>2, PoolAssumption DEF OnePlace, TypeOK
  <2>6. EachWorker'
    BY <1>1, <1>5, <2>1, <2>2, PoolAssumption DEF EachWorker, TypeOK
  <2>7. Destruction'
    BY <1>1, <1>6, <2>1, <2>2, <2>3, PoolAssumption DEF Destruction, TypeOK
  <2> QED BY <1>3, <2>4, <2>5, <2>6, <2>7
<1>8. CASE _tasks = <<>>
  <2>1. _freeWorkers' = <<w>> \o _freeWorkers /\ UNCHANGED <<_tasks, _task, _is_done>>
    BY <1>8 DEF task_done
  <2>2. Free' = Free \cup {w} /\ _freeWorkers' \in Seq(Worker) /\ IsInjective(_freeWorkers')
    BY <1>5, <2>1, ConsOnce, ToSetIsRange DEF TypeOK, Free
  <2>3. TypeOK'
    BY <1>1, <1>4, <2>1, <2>2 DEF TypeOK
  <2>4. OnePlace'
    BY <1>1, <1>2, <2>1 DEF OnePlace
  <2>5. EachWorker'
    BY <1>1, <1>5, <2>1, <2>2, PoolAssumption DEF EachWorker, TypeOK
  <2>6. Destruction'
    BY <1>1, <1>6, <1>8, <2>1, PoolAssumption DEF Destruction, TypeOK
  <2> QED BY <1>3, <2>3, <2>4, <2>5, <2>6
<1> QED BY <1>7, <1>8

\* Nothing remains: no task is on its way and every worker is free or ended.
LEMMA NothingRemains ==
  ASSUME IInv, _tasksRemaining = 0
  PROVE  /\ Scheduled = {} /\ Reporting = {}
         /\ \A w \in Worker : at[w] # "ended" => w \in Free
<1> USE DEF IInv
<1>1. Cardinality(Scheduled) = 0 /\ Cardinality(Reporting) = 0
  BY Finite DEF CountsMatch
<1>2. Scheduled = {} /\ Reporting = {}
  BY <1>1, Finite, FS_EmptySet
<1>3. ASSUME NEW w \in Worker, at[w] # "ended" PROVE w \in Free
  <2>1. at[w] # "run" /\ at[w] # "report" /\ _task[w] \notin Task
    BY <1>2 DEF EachWorker, OnePlace, Reporting
  <2> QED BY <1>3, <2>1 DEF EachWorker, TypeOK
<1> QED BY <1>2, <1>3

\* A joiner that only moves between its own places leaves the pool alone.
LEMMA JoinerStep ==
  ASSUME IInv, UNCHANGED <<poolVars, workerVars, progress>>,
         waiting' \in SUBSET Joiner, where' \in [Joiner -> {"idle", "join", "stop", "await", "gone"}],
         \/ where'[Owner] = where[Owner]
         \/ where[Owner] = "idle" /\ where'[Owner] = "join"
         \/ where[Owner] = "join" /\ where'[Owner] = "stop" /\ _tasksRemaining = 0
         \/ where[Owner] = "stop" /\ where'[Owner] = "gone"
  PROVE  IInv'
<1> USE DEF IInv, poolVars, workerVars
<1>1. /\ Scheduled' = Scheduled /\ Finished' = Finished /\ Reporting' = Reporting /\ Free' = Free
  BY DEF Scheduled, Finished, Reporting, Free
<1>2. TypeOK' /\ CountsMatch' /\ OnePlace' /\ EachWorker'
  BY <1>1 DEF TypeOK, CountsMatch, OnePlace, EachWorker
<1>3. Destruction'
  <2>1. CASE where'[Owner] = where[Owner]
    BY <1>1, <2>1 DEF Destruction
  <2>2. CASE where[Owner] = "idle" /\ where'[Owner] = "join"
    BY <1>1, <2>2 DEF Destruction
  <2>3. CASE where[Owner] = "join" /\ where'[Owner] = "stop" /\ _tasksRemaining = 0
    BY <1>1, <2>3, NothingRemains DEF Destruction
  <2>4. CASE where[Owner] = "stop" /\ where'[Owner] = "gone"
    BY <1>1, <2>4 DEF Destruction
  <2> QED BY <2>1, <2>2, <2>3, <2>4
<1> QED BY <1>2, <1>3

\* ~Worker puts the empty task into the MVar of the first free worker.
LEMMA StopWorkerStep ==
  ASSUME IInv, StopWorker
  PROVE  IInv'
<1> USE DEF IInv
<1> DEFINE h == Head(_freeWorkers)
<1>1. /\ where[Owner] = "stop" /\ _freeWorkers # <<>> /\ _task[h] = Empty
      /\ _task' = [_task EXCEPT ![h] = NullTask] /\ where' = [where EXCEPT ![Owner] = "await"]
      /\ UNCHANGED <<_freeWorkers, _tasks, _tasksRemaining, _is_done, at, runs, waiting, progress>>
  BY DEF StopWorker, put, Moves, poolVars
<1>2. h \in Worker /\ h \in Free /\ where'[Owner] = "await"
  BY <1>1, TailOnce, HeadTailProperties, ToSetIsRange DEF TypeOK, Free, Joiner
<1> HIDE DEF h
<1>3. Scheduled' = Scheduled /\ Finished' = Finished /\ Reporting' = Reporting /\ Free' = Free
  BY <1>1 DEF Scheduled, Finished, Reporting, Free
<1>4. TypeOK' /\ CountsMatch'
  BY <1>1, <1>3 DEF TypeOK, CountsMatch
<1>5. OnePlace'
  BY <1>1, <1>2, <1>3, PoolAssumption DEF OnePlace, TypeOK
<1>6. at[h] # "ended"
  BY <1>1, <1>2 DEF Destruction
<1>7. EachWorker'
  BY <1>1, <1>2, <1>3, <1>6, PoolAssumption DEF EachWorker, TypeOK
<1>8. Destruction'
  BY <1>1, <1>2, <1>3, <1>6, PoolAssumption DEF Destruction, TypeOK, h
<1> QED BY <1>4, <1>5, <1>7, <1>8

\* ... and takes the worker off the list when its thread has ended.
LEMMA WorkerJoinedStep ==
  ASSUME IInv, WorkerJoined
  PROVE  IInv'
<1> USE DEF IInv
<1> DEFINE h == Head(_freeWorkers)
<1>1. /\ where[Owner] = "await" /\ at[h] = "ended"
      /\ _freeWorkers' = Tail(_freeWorkers) /\ where' = [where EXCEPT ![Owner] = "stop"]
      /\ UNCHANGED <<_tasks, _tasksRemaining, _task, _is_done, at, runs, waiting, progress>>
  BY DEF WorkerJoined, Moves, workerVars
<1>2. _freeWorkers # <<>>
  BY <1>1 DEF Destruction
<1>3. /\ h \in Worker /\ Free' = Free \ {h} /\ where'[Owner] = "stop"
      /\ _freeWorkers' \in Seq(Worker) /\ IsInjective(_freeWorkers')
  BY <1>1, <1>2, TailOnce, HeadTailProperties, ToSetIsRange DEF TypeOK, Free, Joiner
<1>4. \A w \in Worker : w \in Free <=> at[w] # "ended" \/ w = h
  BY <1>1 DEF Destruction
<1>5. \A w \in Worker : _task[w] # NullTask
  <2>1. _task[h] = Empty
    BY <1>1, <1>3 DEF EachWorker
  <2> QED BY <2>1, PoolAssumption DEF Destruction
<1>6. _tasks = <<>>
  BY <1>2 DEF Destruction
<1> HIDE DEF h
<1>7. Scheduled' = Scheduled /\ Finished' = Finished /\ Reporting' = Reporting
  BY <1>1 DEF Scheduled, Finished, Reporting
<1>8. TypeOK' /\ CountsMatch' /\ OnePlace'
  BY <1>1, <1>3, <1>7 DEF TypeOK, CountsMatch, OnePlace
<1>9. EachWorker'
  BY <1>1, <1>3 DEF EachWorker
<1>10. Destruction'
  BY <1>1, <1>3, <1>4, <1>5, <1>6, <1>7 DEF Destruction
<1> QED BY <1>8, <1>9, <1>10

LEMMA StepIInv == IInv /\ [Next]_vars => IInv'
<1> SUFFICES ASSUME IInv, [Next]_vars PROVE IInv'
  OBVIOUS
<1>1. ASSUME NEW t \in Task, ClientSchedules(t) PROVE IInv'
  BY <1>1, ScheduleStep DEF ClientSchedules
<1>2. ASSUME NEW w \in Worker, WorkerStep(w) PROVE IInv'
  BY <1>2, TakeStep, TaskEndsStep, TaskDoneStep DEF WorkerStep
<1>3. ASSUME NEW w \in Worker, NEW t \in Task, TaskSchedules(w, t) PROVE IInv'
  <2>1. runs[w] \in Scheduled
    BY <1>3 DEF TaskSchedules, IInv, EachWorker, OnePlace
  <2>2. where[Owner] \in {"idle", "join"}
    BY <2>1 DEF IInv, Destruction, TypeOK, Joiner
  <2> QED BY <1>3, <2>2, ScheduleStep DEF TaskSchedules
<1> USE PoolAssumption DEF Moves, Joiner
<1>4. ASSUME NEW c \in Client, join(c) PROVE IInv'
  BY <1>4, JoinerStep DEF join, IInv, TypeOK
<1>5. CASE Destroy
  BY <1>5, JoinerStep DEF Destroy, IInv, TypeOK
<1>6. ASSUME NEW j \in Joiner, JoinLoop(j) PROVE IInv'
  <2>1. CASE _tasksRemaining = 0
    BY <1>6, <2>1, JoinerStep DEF JoinLoop, IInv, TypeOK
  <2>2. CASE _tasksRemaining # 0
    BY <1>6, <2>2, JoinerStep DEF JoinLoop, IInv, TypeOK
  <2> QED BY <2>1, <2>2
<1>7. CASE PoolGone
  BY <1>7, JoinerStep DEF PoolGone, IInv, TypeOK
<1>8. ASSUME NEW j \in Joiner, SpuriousWakeup(j) PROVE IInv'
  BY <1>8, JoinerStep DEF SpuriousWakeup, IInv, TypeOK
<1>9. CASE UNCHANGED vars
  BY <1>9, JoinerStep DEF vars, IInv, TypeOK
<1> QED BY <1>1, <1>2, <1>3, <1>4, <1>5, <1>6, <1>7, <1>8, <1>9, StopWorkerStep, WorkerJoinedStep
        DEF Next, OwnerStep

LEMMA Invariance == Spec => []IInv
BY InitIInv, StepIInv, PTL DEF Spec

---------------------------------------------------------------------------
(* The theorems.                                                           *)

\* The pool's variables keep their types: no worker is free twice, no task is
\* queued twice, and _tasksRemaining is never negative.
THEOREM TypeCorrect == Spec => []TypeOK
<1>1. IInv => TypeOK
  BY DEF IInv
<1> QED BY <1>1, Invariance, PTL

\* No task waits while a worker is free, no put blocks under the pool's mutex,
\* every scheduled task is in one place, and the assertions of schedule,
\* task_done and ~ThreadPool hold.
THEOREM PoolAlwaysAddsUp == Spec => []PoolAddsUp
<1>1. IInv => PoolAddsUp
  <2> SUFFICES ASSUME IInv PROVE PoolAddsUp
    OBVIOUS
  <2> USE DEF IInv
  <2>1. \A w \in ToSet(_freeWorkers) : w \in Worker
    BY LenProperties, ElementOfSeq DEF ToSet, TypeOK
  <2>2. _tasks # <<>> => _freeWorkers = <<>>
    BY DEF Destruction
  <2>3. \A w \in ToSet(_freeWorkers) : at[w] \in {"take", "ended"} /\ _is_done[w] /\ _task[w] \notin Task
    BY <2>1 DEF EachWorker, Free
  <2>4. where[Owner] # "await" => \A w \in ToSet(_freeWorkers) : _task[w] = Empty
    BY <2>1, <2>3 DEF Destruction, TypeOK
  <2>5. {t \in Task : progress[t] = "scheduled"} =
          ToSet(_tasks) \cup (({_task[w] : w \in Worker} \cup {runs[w] : w \in Worker}) \cap Task)
    <3>1. ToSet(_tasks) \subseteq Task
      BY LenProperties, ElementOfSeq DEF ToSet, TypeOK
    <3> QED BY <3>1 DEF OnePlace, Scheduled
  <2>6. where[Owner] = "stop" => _tasks = <<>> /\ ToSet(_freeWorkers) = {w \in Worker : at[w] # "ended"}
    <3>1. where[Owner] = "stop" => _tasks = <<>>
      <4>1. _tasks # <<>> => Head(_tasks) \in Scheduled
        BY TailOnce, HeadTailProperties, ToSetIsRange DEF OnePlace, TypeOK
      <4> QED BY <4>1 DEF Destruction
    <3> QED BY <2>1, <3>1 DEF Destruction, Free
  <2> QED BY <2>2, <2>3, <2>4, <2>5, <2>6 DEF PoolAddsUp
<1> QED BY <1>1, Invariance, PTL

\* "blocks until all tasks are complete" (thread_pool.h): no join returns
\* while a task that was scheduled has not run to its end.
THEOREM JoinWaitsForAll == Spec => JoinMeansDone
<1> DEFINE Done == \A j \in Joiner : where[j] = "join" /\ where'[j] # "join" =>
                     \A t \in Task : progress[t] # "scheduled"
<1>1. IInv /\ [Next]_vars => [Done]_vars
  <2> SUFFICES ASSUME IInv, [Next]_vars, NEW j \in Joiner, where[j] = "join", where'[j] # "join"
               PROVE  \A t \in Task : progress[t] # "scheduled"
    OBVIOUS
  <2>1. _tasksRemaining = 0
    BY PoolAssumption DEF IInv, TypeOK, Next, ClientSchedules, schedule, WorkerStep, WorkerTakes, TaskEnds, task_done,
       TaskSchedules, join, JoinLoop, Destroy, OwnerStep, StopWorker, WorkerJoined, PoolGone,
       SpuriousWakeup, Moves, Joiner, vars
  <2> QED BY <2>1, NothingRemains DEF Scheduled
<1> QED BY <1>1, Invariance, PTL DEF Spec, JoinMeansDone
=============================================================================
