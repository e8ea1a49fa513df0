----------------------------- MODULE ThreadPool -----------------------------
(***************************************************************************)
(* mongo/util/concurrency/thread_pool.cpp: a pool whose workers each get   *)
(* their tasks through an MVar of their own (mvar.h).  What happens under  *)
(* ThreadPool::_mutex is one step, and so is a put or a take, which the    *)
(* MVar's mutex makes atomic; a put waits until the MVar is empty and a    *)
(* take until it is full.                                                  *)
(***************************************************************************)
EXTENDS Integers, Sequences, SequencesExt

CONSTANTS
    Worker,   \* the worker threads
    Task,     \* the tasks, each scheduled once
    Spawns,   \* the tasks that a task schedules while it runs
    Client,   \* threads that schedule tasks and join
    Owner,    \* the thread that destroys the pool
    Empty,    \* an MVar's state when it holds nothing
    NullTask  \* Task(), which ends a worker

ASSUME PoolAssumption ==
    /\ IsFiniteSet(Worker) /\ IsFiniteSet(Task)
    /\ Spawns \in [Task -> SUBSET Task]
    /\ Owner \notin Client /\ Empty \notin Task \cup {NullTask} /\ NullTask \notin Task

Joiner == Client \cup {Owner}

VARIABLES
    _freeWorkers, _tasks, _tasksRemaining,   \* as in ThreadPool
    _task,     \* each worker's MVar
    _is_done,  \* Worker::_is_done
    at,        \* where each worker is
    runs,      \* the task each worker runs
    where,     \* where each joiner is
    waiting,   \* joiners blocked on ThreadPool::_condition
    progress   \* history: what became of each task

poolVars   == <<_freeWorkers, _tasks, _tasksRemaining>>
workerVars == <<_task, _is_done, at, runs>>
vars       == <<poolVars, workerVars, where, waiting, progress>>

TypeOK ==
    /\ _freeWorkers \in Seq(Worker) /\ IsInjective(_freeWorkers)
    /\ _tasks \in Seq(Task) /\ IsInjective(_tasks)
    /\ _tasksRemaining \in 0..Cardinality(Task)
    /\ _task \in [Worker -> Task \cup {Empty, NullTask}]
    /\ _is_done \in [Worker -> BOOLEAN]
    /\ at \in [Worker -> {"take", "run", "report", "ended"}]
    /\ runs \in [Worker -> Task \cup {Empty}]
    /\ where \in [Joiner -> {"idle", "join", "stop", "await", "gone"}]
    /\ waiting \subseteq Joiner
    /\ progress \in [Task -> {"new", "scheduled", "finished"}]

Init ==
    /\ _freeWorkers \in SetToSeqs(Worker)
    /\ _tasks = <<>> /\ _tasksRemaining = 0
    /\ _task = [w \in Worker |-> Empty]
    /\ _is_done = [w \in Worker |-> TRUE]
    /\ at = [w \in Worker |-> "take"]
    /\ runs = [w \in Worker |-> Empty]
    /\ where = [j \in Joiner |-> "idle"]
    /\ waiting = {}
    /\ progress = [t \in Task |-> "new"]

---------------------------------------------------------------------------
(* Scheduling.                                                             *)

\* MVar::put
put(w, t) == _task[w] = Empty /\ _task' = [_task EXCEPT ![w] = t]

set_task(w, t) == put(w, t) /\ _is_done' = [_is_done EXCEPT ![w] = FALSE]

\* Mutant of schedule: only a task that has to wait is counted.
scheduleCountsQueued(t) ==
    /\ progress[t] = "new"
    /\ progress' = [progress EXCEPT ![t] = "scheduled"]
    /\ \/ /\ _freeWorkers # <<>>
          /\ set_task(Head(_freeWorkers), t)
          /\ _freeWorkers' = Tail(_freeWorkers)
          /\ UNCHANGED <<_tasks, _tasksRemaining>>
       \/ /\ _freeWorkers = <<>>
          /\ _tasks' = Append(_tasks, t)
          /\ _tasksRemaining' = _tasksRemaining + 1
          /\ UNCHANGED <<_freeWorkers, _task, _is_done>>
    /\ UNCHANGED <<at, runs, where, waiting>>

schedule(t) ==
    /\ progress[t] = "new"
    /\ progress' = [progress EXCEPT ![t] = "scheduled"]
    /\ _tasksRemaining' = _tasksRemaining + 1
    /\ \/ /\ _freeWorkers # <<>>
          /\ set_task(Head(_freeWorkers), t)
          /\ _freeWorkers' = Tail(_freeWorkers)
          /\ UNCHANGED _tasks
       \/ /\ _freeWorkers = <<>>
          /\ _tasks' = Append(_tasks, t)
          /\ UNCHANGED <<_freeWorkers, _task, _is_done>>
    /\ UNCHANGED <<at, runs, where, waiting>>

IsSpawned(t) == \E u \in Task : t \in Spawns[u]

\* "You should not call schedule while in the destructor"
ClientSchedules(t) == where[Owner] = "idle" /\ ~IsSpawned(t) /\ schedule(t)

---------------------------------------------------------------------------
(* The workers.                                                            *)

\* MVar::take; an empty task ends the thread.
WorkerTakes(w) ==
    /\ at[w] = "take" /\ _task[w] # Empty
    /\ _task' = [_task EXCEPT ![w] = Empty]
    /\ IF _task[w] = NullTask
       THEN at' = [at EXCEPT ![w] = "ended"] /\ UNCHANGED runs
       ELSE at' = [at EXCEPT ![w] = "run"] /\ runs' = [runs EXCEPT ![w] = _task[w]]
    /\ UNCHANGED <<poolVars, _is_done, where, waiting, progress>>

TaskSchedules(w, t) == at[w] = "run" /\ t \in Spawns[runs[w]] /\ schedule(t)

\* The task returns or throws, and the worker is done.
TaskEnds(w) ==
    /\ at[w] = "run"
    /\ progress' = [progress EXCEPT ![runs[w]] = "finished"]
    /\ _is_done' = [_is_done EXCEPT ![w] = TRUE]
    /\ at' = [at EXCEPT ![w] = "report"]
    /\ runs' = [runs EXCEPT ![w] = Empty]
    /\ UNCHANGED <<poolVars, _task, where, waiting>>

\* Mutant of notify_all_if: one of the waiting threads is woken.
notify_one_if(zero) ==
    waiting' = IF zero /\ waiting # {} THEN waiting \ {CHOOSE j \in waiting : TRUE} ELSE waiting

notify_all_if(zero) == waiting' = IF zero THEN {} ELSE waiting

\* Mutant of task_done: a worker that gets the next task is free as well.
task_doneFreesAlways(w) ==
    /\ at[w] = "report" /\ at' = [at EXCEPT ![w] = "take"]
    /\ _freeWorkers' = <<w>> \o _freeWorkers
    /\ \/ /\ _tasks # <<>>
          /\ set_task(w, Head(_tasks))
          /\ _tasks' = Tail(_tasks)
       \/ _tasks = <<>> /\ UNCHANGED <<_tasks, _task, _is_done>>
    /\ _tasksRemaining' = _tasksRemaining - 1
    /\ notify_all_if(_tasksRemaining' = 0)
    /\ UNCHANGED <<runs, where, progress>>

\* Mutant of task_done: a task taken off the queue is counted off as well.
task_doneCountsTwice(w) ==
    /\ at[w] = "report" /\ at' = [at EXCEPT ![w] = "take"]
    /\ \/ /\ _tasks # <<>>
          /\ set_task(w, Head(_tasks))
          /\ _tasks' = Tail(_tasks)
          /\ _tasksRemaining' = _tasksRemaining - 2
          /\ UNCHANGED _freeWorkers
       \/ /\ _tasks = <<>>
          /\ _freeWorkers' = <<w>> \o _freeWorkers
          /\ _tasksRemaining' = _tasksRemaining - 1
          /\ UNCHANGED <<_tasks, _task, _is_done>>
    /\ notify_all_if(_tasksRemaining' = 0)
    /\ UNCHANGED <<runs, where, progress>>

task_done(w) ==
    /\ at[w] = "report" /\ at' = [at EXCEPT ![w] = "take"]
    /\ \/ /\ _tasks # <<>>
          /\ set_task(w, Head(_tasks))
          /\ _tasks' = Tail(_tasks)
          /\ UNCHANGED _freeWorkers
       \/ /\ _tasks = <<>>
          /\ _freeWorkers' = <<w>> \o _freeWorkers
          /\ UNCHANGED <<_tasks, _task, _is_done>>
    /\ _tasksRemaining' = _tasksRemaining - 1
    /\ notify_all_if(_tasksRemaining' = 0)
    /\ UNCHANGED <<runs, where, progress>>

---------------------------------------------------------------------------
(* Joining and destruction.                                                *)

Moves(j, to) == where' = [where EXCEPT ![j] = to]

join(c) ==
    /\ c \in Client /\ where[c] = "idle" /\ where[Owner] = "idle"
    /\ Moves(c, "join")
    /\ UNCHANGED <<poolVars, workerVars, waiting, progress>>

\* The destructor starts with a join, when nobody else uses the pool any more.
Destroy ==
    /\ \A j \in Joiner : where[j] = "idle"
    /\ \A t \in Task : progress[t] = "new" => IsSpawned(t)
    /\ Moves(Owner, "join")
    /\ UNCHANGED <<poolVars, workerVars, waiting, progress>>

\* The loop of join: it returns if nothing remains, and waits otherwise.
JoinLoop(j) ==
    /\ where[j] = "join" /\ j \notin waiting
    /\ \/ /\ _tasksRemaining = 0
          /\ Moves(j, IF j = Owner THEN "stop" ELSE "idle")
          /\ UNCHANGED waiting
       \/ /\ _tasksRemaining # 0
          /\ waiting' = waiting \cup {j}
          /\ UNCHANGED where
    /\ UNCHANGED <<poolVars, workerVars, progress>>

\* ~Worker sends the empty task and joins the thread.
StopWorker ==
    /\ where[Owner] = "stop" /\ _freeWorkers # <<>>
    /\ put(Head(_freeWorkers), NullTask)
    /\ Moves(Owner, "await")
    /\ UNCHANGED <<poolVars, _is_done, at, runs, waiting, progress>>

WorkerJoined ==
    /\ where[Owner] = "await" /\ at[Head(_freeWorkers)] = "ended"
    /\ _freeWorkers' = Tail(_freeWorkers)
    /\ Moves(Owner, "stop")
    /\ UNCHANGED <<_tasks, _tasksRemaining, workerVars, waiting, progress>>

PoolGone ==
    /\ where[Owner] = "stop" /\ _freeWorkers = <<>>
    /\ Moves(Owner, "gone")
    /\ UNCHANGED <<poolVars, workerVars, waiting, progress>>

\* A condition variable may wake a thread without a notification.
SpuriousWakeup(j) ==
    /\ j \in waiting /\ waiting' = waiting \ {j}
    /\ UNCHANGED <<poolVars, workerVars, where, progress>>

WorkerStep(w) == WorkerTakes(w) \/ TaskEnds(w) \/ task_done(w)
OwnerStep == JoinLoop(Owner) \/ StopWorker \/ WorkerJoined \/ PoolGone

Next ==
    \/ \E t \in Task : ClientSchedules(t)
    \/ \E w \in Worker : WorkerStep(w) \/ \E t \in Task : TaskSchedules(w, t)
    \/ \E c \in Client : join(c) \/ JoinLoop(c)
    \/ Destroy \/ OwnerStep
    \/ \E j \in Joiner : SpuriousWakeup(j)
    \/ where[Owner] = "gone" /\ UNCHANGED vars

Spec == Init /\ [][Next]_vars

\* Threads inside the pool's functions run when they can; tasks end.
FairSpec ==
    /\ Spec
    /\ \A w \in Worker : WF_vars(WorkerStep(w))
    /\ \A c \in Client : WF_vars(JoinLoop(c))
    /\ WF_vars(OwnerStep)

---------------------------------------------------------------------------
(* Properties.                                                             *)

\* "blocks until all tasks are complete" (thread_pool.h): when a join returns,
\* every task that was scheduled by then has run to its end, those that other
\* tasks scheduled included.
JoinMeansDone ==
    [][\A j \in Joiner : where[j] = "join" /\ where'[j] # "join" =>
         \A t \in Task : progress[t] # "scheduled"]_vars

\* No worker is free while a task waits; a free worker's MVar is empty, so that
\* no put blocks while it holds the pool's mutex, and set_task's assertion
\* holds; every task that was scheduled is in one place; and the destructor's
\* assertions hold (thread_pool.cpp, schedule, task_done, ~ThreadPool).
PoolAddsUp ==
    LET free == ToSet(_freeWorkers)
        scheduled == {t \in Task : progress[t] = "scheduled"} IN
    /\ _tasks # <<>> => _freeWorkers = <<>>
    /\ \A w \in free : at[w] \in {"take", "ended"} /\ _is_done[w] /\ _task[w] \notin Task
    /\ where[Owner] # "await" => \A w \in free : _task[w] = Empty
    /\ scheduled = ToSet(_tasks) \cup (({_task[w] : w \in Worker} \cup {runs[w] : w \in Worker}) \cap Task)
    /\ where[Owner] = "stop" =>
         /\ _tasks = <<>>
         /\ free = {w \in Worker : at[w] # "ended"}

\* Every task that was scheduled runs, every join returns once no more tasks
\* are scheduled, and the destructor ends, so no wake-up and no task is lost.
PoolComesToRest ==
    /\ \A t \in Task : progress[t] = "scheduled" ~> progress[t] = "finished"
    /\ \A c \in Client : where[c] = "join" ~> where[c] = "idle"
    /\ where[Owner] = "join" ~> where[Owner] = "gone"
=============================================================================
