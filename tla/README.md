# A TLA+ model of supercell's platform

`src/` is the *Platform* sub-project of supercell: a CMake tool box
(`CMake/Packages`, `scripts`) and the native dependencies the platform is built
with (`dep/linux`), most of all the MongoDB client library in source form. It
contains no application code. The logic with state, concurrency and failure in it
is in the MongoDB client and utilities (`dep/linux/mongodb/mongo/client`, `util`)
and, of a quieter kind, in the Zillians CMake macros. This project models that
logic, checks it with TLC and proves its safety with TLAPS. Paths below are
relative to `src/`; `mongo/` stands for `dep/linux/mongodb/mongo/`.

## 1. Inventory

| Component | State it keeps | Operations | Where it is hard |
|---|---|---|---|
| Distributed lock, `mongo/client/distlock.*` | a document per lock in `config.locks`, an entry per process in `config.lockpings`; per process a pinger thread and a set of pinged servers | constructor, `lock_try`, `unlock`, `_distLockPingThread` | every call is several requests; processes die; requests throw after they were executed; clocks differ; stale reads justify writes |
| File allocator, `mongo/util/file_allocator.*` | `_pending`, `_pendingSize`, `_failed` under one mutex; one condition variable | `start`, `requestAllocation`, `allocateAsap`, `waitUntilFinished`, worker `run` | the worker releases the mutex while it allocates; one condition for all; the disk fails |
| Connection pool, `mongo/client/connpool.*` | a stack of idle connections per server name, counters, hooks; a raw pointer per `ScopedDbConnection` | `get`, `release`, `flush`, hooks; `done`, `kill`, `steal`, destructor | ownership by raw pointer across throwing calls; reuse of sockets with old replies |
| CMake hashmap, `CMake/Packages/ZilliansHashmapUtility.cmake`, and `split_options`, `ZilliansOptionUtility.cmake` | one flat list per map; macro variables without scope | `PUT`, `GET`, `REMOVE`, `CLEAR`, `DUMP`; `split_options` | edits of a length-encoded list by index; stale macro variables |
| Test harness, `ZilliansTestUtility.cmake`, `scripts/run*.cmake` | `/tmp/output.txt`, verdicts | the four `zillians_add_*_test` macros and three scripts | two registrations per test; parallel jobs share a file |
| Sync cluster connection, `mongo/client/syncclusterconnection.*` | one connection per config server, their last errors | `prepare`, writes, `_checkLast`, reads | a write executed on some servers only |
| Replica set monitor and client, `mongo/client/dbclient_rs.*` | `_nodes`, `_master`, `_nextSlave`; connections to master and slave | `check`, `_checkConnection`, `getMaster`, `getSlave`, `notify*Failure`, `checkMaster` | indexes used after the lock that protected them was released |
| Background jobs and tasks, `mongo/util/background.*`, `util/concurrency/task.*` | job state under a mutex; a deque of messages | `go`, `wait`, `jobBody`; `send`, `call`, `doWork` | self-deletion; a notification without the mutex |
| Thread pool, MVar, `mongo/util/concurrency` | free workers, queued tasks, remaining count; a full/empty cell | `schedule`, `task_done`, `join`; `put`, `take` | hand-over between threads, shutdown |
| Messaging port, `mongo/util/message.*` | socket, piggy-backed data | `say`, `call`, `recv`, `piggyBack` | order of buffered and direct messages |
| Client connection, cursor, shard connection | failed flag, batch, per-thread connection cache | `call`, `say`, `more`, `next`, `get`, `done`, `sync` | reconnects, exhaustion, use after `done` |
| Scripts, `scripts/autobuild.sh` and others | the running make | watch, kill, rebuild | events between two watches |
| Thrift output, minizip, ticpp, thrust wrappers, Find*.cmake, binaries | | | third-party or generated |

Interactions. `lock_try`, `unlock` and the pinger each take a
`ScopedDbConnection` from the pool; a config of three servers makes that connection
a `SyncClusterConnection`. The pool's connections may be replica set clients, which
ask a `ReplicaSetMonitor`, whose watcher is a `BackgroundJob`. `ShardConnection`
keeps a cache of the pool's connections per thread. On the CMake side every macro
with options calls `split_options`, which is a client of the hashmap; the test
macros then register commands that start the scripts.

What makes each component correct: the lock excludes and is not lost with its
holder; the allocator's worker, list and sizes agree, answers are true and nobody
waits for ever; a pooled connection has one user, no old reply on it, and is not
leaked; three config servers agree on who owns a lock; a monitor's indexes keep their
meaning and a steady master is found; a job's object outlives its thread, and a
message runs as often as it was asked for; a pool's tasks all run and `join` means
done; the flat list implements a map; a verdict is about the test's own program.

## 2. Modules

| Module | What it is |
|---|---|
| `RobbableLock` | the abstract specification of the lock: who owns it, and whose claim a reset has robbed |
| `DistributedLock` | the lock against one config server, with faults as a parameter |
| `SyncClusterLock` | `lock_try` and `unlock` over a `SyncClusterConnection`: the lock's document on several servers |
| `ReplicaSet` | a `ReplicaSetMonitor` with its watcher, and clients with a `DBClientReplicaSet` each |
| `BackgroundJob` | the life of a job and its thread, and `MessagingPort::connect`, which waits for one |
| `TaskServer` | extends `BackgroundJob`: tasks that repeat and are halted, and the message server |
| `ThreadPool` | the pool, its workers' MVars, joining and destruction |
| `FileAllocator` | the POSIX file allocator |
| `ConnPool` | the pool and the scoped connections |
| `KeyMap` | the abstract specification of the hashmap: a finite map from keys to lists |
| `Hashmap` | the CMake macros on the flat list, and `split_options` |
| `TestHarness` | the two drivers, the scripts and the shared output file |
| `MC...` | constants and symmetry sets for TLC |
| `...Proofs` | the theorems about `DistributedLock`, `SyncClusterLock`, `ReplicaSet`, `TaskServer` (with `BackgroundJob`), `ThreadPool`, `FileAllocator` and `ConnPool`; `CMakeProofs` has those about `Hashmap` and `TestHarness` |

### DistributedLock

A step is one request to the config server, which executes requests one at a time;
what a thread does between two requests is its own. `pc` tells which request a
thread sends next.

| Code | Model |
|---|---|
| constructor, `DistributedLockPinger::got` | `Construct`: one pinger per process |
| ping upsert and its `getLastError` | `Ping`, `PingFails` |
| query of all locks into `pids` | `QueryLocks` |
| removal of old pings | `RemoveOldPings`, `PingFails` |
| `findOne` and the three cases of the document | `FindLock` |
| insert of the initial document | `InsertLock` |
| `findOne` of the holder's ping, four early returns | `FindPing` with `MayTakeOver` |
| forced reset | `TakeOver` |
| `ts.init`, the acquiring update, `getLastErrorDetailed` | `Acquire` with `Matches` |
| an exception out of any of these, or an error from the forced reset | `LockTryThrows` |
| one attempt of `unlock` | `Unlock`, `UnlockThrows` |

Abstractions. The lock document has `state`, `process` and `ts`; `who`, `when` and
`why` are only shown. Time is the age of each ping in minutes, capped at `MaxAge`;
an assumption (`AgeBoundAssumption`) says the cap lies beyond both time-outs for
every pair of clocks, so it hides no decision. A clock is an offset `Skew`; elapsed
time wraps like the unsigned type of the code. An OID is a number nobody holds a
copy of (`FreshTs`); the code compares them for equality only. A request that throws
was either executed or will never be: requests that a dead connection delivers later
are left out. The `findOne` after the update feeds only the log and `*other`. The
`UserException` handler around the insert cannot be entered with a single server,
whose insert is a one-way message that throws only socket exceptions. A restarted
process is another process, as its process string contains time and a random number.
`robbed` is a history variable: owners whose acquisition somebody else's write reset.

`RobbableLock` is what the lock promises when anything may fail: a thread is told that
it owns the lock only when no other claim is good; a good claim ends with its owner's
`unlock`, with its process, or with a reset, which a forced take-over does and also an
`unlock` that is tried again after its first attempt was executed. `ImplementsLock` is
the refinement, with `owners` the threads between a successful `lock_try` and `unlock`.

### SyncClusterLock

A write to the cluster is a round: `prepare` asks every server for an fsync (any failure
ends the write before it began), the request goes to each server in order without
waiting, and `_checkLast` collects the answers.

| Code | Model |
|---|---|
| `SyncClusterConnection::prepare`, `fsync` | `prepare` |
| the loop of `insert` and `update` over the servers | one `Execute` per server, in any order; `SendFails` |
| `_checkLast` | `CheckLast`, `CheckLastFails` |
| the comparison of the answers' `n` in `update` | `Same` |
| reads, `_queryOnActive` | `Active` |
| the handler of `UpdateNotTheSame` | `ReadBack` per server, `Propagate` |
| exceptions, and who catches them | `Throws` |

A request that a live server received is executed before the sending thread goes on; a
server that fails keeps its documents and comes back. The pings and the forced take-over
are `DistributedLock`'s subject: here a document found taken ends `lock_try`
(`FindTaken`). OIDs are numbers in the order in which they are generated, or in any order
with the fault `clock`. `unsettled` is a history variable: an insert or unlock has begun,
and the lock has not been free on all servers, with nobody using it, since. A comment in
syncclusterconnection.h:36 says that reads go to a random node; the code asks the servers
in order and takes the first answer, and so does the model.

### ReplicaSet

A step is a critical section of `_lock`, an access to `_master` outside it, or the answer
of a server. Indexes count from 1, so `_master = 0` is the code's -1. A member names the
hosts of the set in an order of its own, so `_checkHosts` may append those that are new
in any order. The constructor starts with the first seed that answers.

| Code | Model |
|---|---|
| `check`, with its two unlocked reads of `_master` | `Check`, `CheckFirst` |
| the loops of `_check`, the quick check of a hint | `_check`, `Answer`, `SetMaster` |
| `_checkConnection`, which holds `_checkConnectionLock`, `_checkHosts` | `_checkConnection` |
| `_checkStatus` | `CheckStatus` |
| `getMaster` before and after its `_check` | `getMaster`, `getMasterChecked` |
| `checkMaster`, `connect`, `isntMaster` | `Got`, `MasterFailed`, `ConnectMaster`, `ConnectCatches`, `isntMaster` |
| an operation on the master | `Use` |
| `getSlave(prev)`, `getSlave()`, `checkSlave` | `getSlavePrev`, `getSlaveNext`, `PickSlave`, `ConnectSlave` |
| `notifyFailure`, `notifySlaveFailure` | the operators of these names |
| a slaveOk query, two tries and the master | `Query`, `NextTry` |

Abstractions. A command to a member that is up succeeds, and one to a member that is
down fails at once: the reconnect pauses of a connection are left out. A member's answer
to `replSetGetStatus` sets all flags in one step. `notifySlaveFailure` finds its index
and uses it in two critical sections, which the model merges; `NodesKeepTheirPlace` says
why that is sound. What follows an index of -1 or into an empty vector is undefined, and
the model stops there (`wild`). Roles and membership change between any two steps, at
most `MaxChanges` times.

### BackgroundJob and TaskServer

`BackgroundJob` has the object (`exists`), its `JobStatus` (`state`) and its thread. What
happens under `JobStatus::m` is one step; as `finished` is notified in the step that sets
`Done`, a wait may be modelled by its condition. `wait(5000)` returns false after a
time-out without looking at the state again, so `WaitTimesOut` is possible when the job is
already done. A `ConnectBG` lives on the stack of `MessagingPort::connect` and a `Task`
deletes itself: `ObjectOutlivesUse` is about both. `::connect` answers at some time, also
after the descriptor was closed; a number that is closed and given to another socket
before the job's thread starts is not modelled.

`TaskServer` adds `fork`, `repeat` and `halt`, and the `Server`, a task whose `doWork`
never returns. `Server::call` is in steps because its flag is set without the mutex its
caller holds between the test and the wait: `CallTests`, `CallWaits`; `SetDone`,
`NotifyCaller`. A notification that finds nobody waiting is lost, as in the code.
Any message may call `requeue()` while it runs, throw, or do both (`RunEnds`,
`RunThrows`). The handlers of `doWork` leave `rq` alone (task.cpp:145-154), so a
`requeue()` that an exception follows is given to the next message that ends without one;
that may be a called message, whose copy in the deque then points at the `Ret` of a call
that may be over (`RetIsGone`). What such a run does is undefined: in the model what is
left of the `Ret` in memory still runs the message, or throws; a process that dies is a
behaviour that ends there, which the safety properties cover; what it may overwrite is
not modelled. A later call of the same message has its `Ret` in the same place, as the
same frame on the stack has. A notification of a `Ret` that its caller has left is
without effect. Three history variables serve `RanAsAsked`: `owed`, the runs a message
was sent for, or asked for without throwing, less those it had; `strays`, how often a
message threw after `requeue()`; `requeued`, the called messages that were queued again.
No message is dropped, and none gets more runs than it is owed and `strays` together; with
`strays = 0` it gets exactly what it is owed.

### ThreadPool

What happens under the pool's mutex is one step. A `put` is guarded by an empty MVar:
where it would block, the step that holds the pool's mutex cannot be taken, and
`PoolAddsUp` says that this never happens. Tasks may schedule other tasks; the
destructor starts when nobody else uses the pool, as thread_pool.h:41 demands.

### FileAllocator

What happens under `_pendingMutex` is one step. `waiting` holds the threads blocked
on the one condition variable; `notify_all` empties it; a spurious wake-up may happen
at any time. `allocateAsap` is one step up to its first wait and one per wake-up.
The worker's disk operations are separate steps without the mutex: `WorkerOpens`,
`ensureLength` (which may fail half-way), `WorkerCleansUp`. The open's `uassert`
(file_allocator.cpp:225) has its condition the wrong way round; the bad descriptor
is then rejected inside `ensureLength`, so the outcome is the same. `disk` also holds
files left over from earlier runs. The class comment forbids concurrent calls of the
public functions; the properties hold with two concurrent callers all the same, and
the one counterexample needs a single caller.

### ConnPool

What happens under `_mutex` is one step; connecting and hooks run outside it.
`PoolOf` maps names to pools by the part before the slash, as `serverNameCompare`
does. `open` is the set of allocated connection objects, `dirty` those with an unread
reply, `failed` those with `isFailed()`. `done` is called on connections whose reply
was read, which is what connpool.h:223-227 asks of callers. Idle time is counted up
to `MaxIdle`, the hour of the code. `_created` is capped by `MaxCreated`: when every
connection has been made the model stops, which is why deadlock is not checked in
`cp_safe`. `lost` is a history variable: the connections whose last pointer went with
an exception out of a hook or out of `flush`. Those two places are the only ones where
the code leaks (section 3), and `NoneLeaked` says that there is no other.

### Hashmap and KeyMap

Lists are sequences with positions from 1; everything else keeps the macros' own
index arithmetic. `Walk` is the set of indexes the loop of `__find_in_hashmap` stops
over, going from entry to entry by the lengths it reads; the macro breaks off at the
first of them with its key, which is the least, as the indexes grow. `Layout` says that
every index of the walk is a complete entry and that their keys differ. `__value` survives between
commands as macro variables do. `KeyMap` is the promise; `ImplementsMap` is the
refinement with `map` read off the list by the walk. It also says that each command
is the operation of its name, which the refinement alone does not: a `PUT` that changed
nothing would be a stuttering step. Keys and elements are model
values, never numbers, as no key in use is a number. `split_options` clears its map and
then runs `PUT` and `GET` on it, with nothing in between as a configuration is
sequential; it is a function of the options and of whatever `__value` holds, and
`SplitIsRight` compares it with a direct definition for every list of options and every
`__value` an earlier command can leave behind.

### TestHarness

`program` fixes what each test's program would do (exit code, output blocks, whether
the pattern occurs) and the properties compare verdicts with it. The four kinds of
test differ in script and in what the two drivers pass to it: `PassesExpectFail`,
`PassesMatchMode`, `NameHasQuotes`. The last comes from two rules of CMake: double
quotes inside an unquoted argument are kept, and a custom target's command without
`VERBATIM` goes through the shell unescaped, which removes them, while `ctest` passes
arguments literally. A compare test writes block by block at its own file position,
so truncation by another test leaves a hole, as on a POSIX file. The properties about a
right verdict are about the tests whose script is started with what it reads; the other
tests fail always (section 3). `disturbed` is a history variable: compare tests that ran
while another one did. `VerdictsRight` excepts them, and no others.

## 3. Runs

| Run | Result | What it shows |
|---|---|---|
| `dl_nofault` | pass | exclusion, and no lock left taken by nobody, with two threads sharing a pinger and clocks a minute apart |
| `dl_faults` | pass | with crashes, exceptions and late pingers together: an unrobbed owner is the named one; a taken document was written by one attempt; the lock implements `RobbableLock` |
| `dl_dead_holder` | pass | liveness: the lock of a dead process that pinged is taken over |
| `sc_contest` | pass | three config servers that fail, and clocks that go back: a contest for a lock that was free everywhere has at most one winner; an owner is named everywhere |
| `sc_first_use` | violation | without any failure, two threads own a lock that is used for the first time |
| `rs_monitor` | pass | indexes keep their meaning; only a member that said so is the master; liveness: a steady primary and its readable members are found again |
| `tk_jobs` | pass | objects outlive their threads; answers are about the right socket; no message is dropped or runs more often than asked but for what exceptions leave in `rq`; liveness of `connect`, halted tasks and the deque |
| `tp_pool` | pass | no task waits while a worker is free, no `put` blocks under the mutex, `join` means done; liveness of tasks, joins and the destructor |
| `fa_allocator` | pass | worker, list, sizes, disk and answers agree; urgent callers end, requests are served or fail |
| `cp_safe` | pass | one user per connection; pooled and handed-out ones are clean; no leak but by an exception out of a hook or `flush` |
| `hm_map` | pass | layout, lookup, refinement of `KeyMap`, `split_options` against a direct definition |
| `th_tests` | pass | `ctest` and `make check`, two tests at a time: verdicts are right where the script gets its arguments and no two compare tests overlap; nothing else passes wrongly |

`sc_first_use` in short: both threads insert the document, and both updates ask for
`state : 0` without a `ts`. On some server an update comes before the insert and matches
nothing, so both get different answers and read back. One reads the last server before
the other's update has arrived there, finds its own OID everywhere it looks, and
propagates; so does the other. Once the lock has been free on all servers
(`ContestHasOneWinner`), an update that is late on one server was overtaken on it, and
the comparison of OIDs decides.

Met while modelling, and part of the models although no run is about them:

* The forced take-over and `unlock` reset the lock's document by `_id` alone
  (distlock.cpp:235, :319). Two threads that judged the same stale ping both reset it,
  the second one after the first has taken the lock; and an `unlock` whose first attempt
  was executed without an answer is retried after somebody else has taken the lock.
  `robbed` records both, and `UnrobbedOwnerIsNamed` is about everybody else.
* A lock that `unlock` gave up after three attempts stays taken while its process lives,
  whose pinger keeps the entry fresh, although the message at distlock.cpp:335 promises a
  take-over.
* `waitUntilFinished` (file_allocator.cpp:132) tests `_failed` before its loop only: a
  failure while it waits leaves it waiting for ever. The liveness properties of
  `FileAllocator` are about the other callers.
* Two compare tests at a time write and compare the same `/tmp/output.txt`
  (ZilliansTestUtility.cmake:270); `disturbed` records them.
* `SyncClusterConnection::update` rethrows with `throw e` (syncclusterconnection.cpp:293),
  which slices the exception: no handler for `UserException` sees it.
* `ReplicaSetMonitor::check` reads `_master` twice without the lock (dbclient_rs.cpp:390,
  :392); a failure reported in between makes it index `_nodes` with -1. If no seed answers,
  the monitor has no nodes for ever, and `getSlave` indexes the empty vector (:240).
* A slave's "not master or secondary" error makes its connection call `isntMaster` on the
  client (dbclient.cpp:917-929): the master is given up although it did nothing, and found
  again by the next check.
* `getMaster` may return a master that was reported failed while its `_check` ran
  (dbclient_rs.cpp:209), and `_checkStatus` never updates the first node (:269), which
  `OkAgain` excepts.
* `Server::call` may never return: `Ret::f` sets `done` and notifies without `Ret::m`
  (task.cpp:96), so the notification may fall between the caller's test and its wait; and
  it is not sent at all if the message throws. The caller may also be gone, with its
  condition, when it is notified.
* A message that throws after `requeue()` is not queued again; `rq` stays true and the
  next message that ends is, although it did not ask (task.cpp:137). If that one was
  called, its second run uses a `Ret` that may be gone, as it does when a called message
  calls `requeue()` itself; a later call with its `Ret` in the same place may then return
  before its message ran. `RanAsAsked` counts the extra runs and excepts those calls.
  msg.h does not say what a message may do.
* A repeating task that is halted in its sleep works once more (task.cpp:56-58), although
  task.h:37 says that it stops after the current invocation.
* A second `go()` of a job ends in the `massert` of `jobBody`, outside its `try`, because
  the state is never set back to `NotStarted` (background.cpp:49); background.h:26 allows
  it. Nothing in this repository does it.
* A holder that dies before its pinger's first write has no entry in `lockpings`, and
  nobody ever takes its lock over (distlock.cpp:198). The code knows and asks for manual
  intervention. `PingedDeadHolderIsTakenOver` is about the holders that did ping.
* A hook that throws (connpool.cpp:113; no `DBConnectionHook` subclass is in this
  repository) and an `isMaster` that throws inside `flush` (connpool.cpp:70) drop the
  only pointer to connections. `lost` records them.
* `__get_from_hashmap` tests `_index` where `__find_in_hashmap` set `__index`
  (ZilliansHashmapUtility.cmake:141), so `GET` of a missing key answers with an old list.
  The macros here only `GET` categories that `split_options` has put.
* `zillians_add_compare_output_test` has two named arguments before the options
  (ZilliansTestUtility.cmake:240), its siblings none: called like them, it takes
  `TARGET` and the target for the two, and ends in "no target declared!". The model's
  tests are declared with two arguments in front.
* Under `ctest`, complex and compare tests get a program or an output file with literal
  double quotes in its name, and `EXPECT_FAIL` is not passed
  (ZilliansTestUtility.cmake:184, 269): they always fail. Under `make check`, the mode of a
  regex test is passed as `MATCH_TYPE` (:232) where the script reads `MATCH_MODE`: they
  always fail there. A program that writes nothing makes the `string(REGEX)` of
  `run_and_match.cmake` an error, in either mode.
* The condition of the `uassert` at file_allocator.cpp:225 is inverted, without effect.

Bounds. The lock's violations of exclusion need three threads, so the exhaustive runs
with two or three threads and a `Ts` set one or two larger than the copies that can be
held at a time show the interesting cases, and every fault appears in `dl_faults`.
Take-over after one or two minutes and clean-up after one to three keep the order of
the real time-outs (15 minutes, 4 days) with `MaxAge` beyond them. Three servers are what
the code demands; two threads and two OIDs are one whole contest, and servers fail and
come back without a bound. `MaxTs` ends a behaviour when all OIDs are used (`Done`). Two
members, one of them the seed and not the first of the list, one client and one change of
roles give the monitor an index 0 to skip, a hint to follow, a node that is added and a
master that is lost and found; a change may come between any two steps. One port that
connects again and again, one repeating task and two messages, one sent and one called,
which requeue, throw or do both, with two places in the deque and two exceptions after a
`requeue()` (`MaxStrays`), let either message get the other's requeue. The port and the
messages share no variable and neither part reads the other's, so a behaviour of
`MCTaskServer` has only one of the two (`part`), each next to the tasks.
Three workers and five tasks make tasks wait and workers race for one, and two joiners
wait together. The allocator
needs three files so that one can be moved in front of another behind a third; two callers
give every interleaving of one waiting and one acting. Three scoped connections over pools
of two reach a full pool; one idle tick is the expiry. Two keys and lists of up to two
elements put an entry in front of and behind the one removed; four options name a category
twice. A program writes up to two blocks (`MaxOut`), so that another test's blocks can come
before, between and after them, and two jobs are enough for every pair of tests to overlap. `cp_safe` and the runs of
`SyncClusterLock` use symmetry sets, as they check invariants only.

Fairness. `DistributedLock!FairSpec`: time passes, pingers loop (`while( !
inShutdown() )`), and threads that can send a request do, callers included, which
retry and give back what they got; nothing is assumed about faults.
`FileAllocator!FairSpec`: the worker and every caller inside a function run when they
can; nobody has to call, and spurious wake-ups are never relied on.
`ReplicaSet!Fairness`: the watcher checks every 20 seconds as long as the process runs,
and an operation that was started goes on; nobody has to start one.
`TaskServer!Fairness`, in `FairSpec` and in the instance's `MCSpec`: job threads run, the kernel answers every `::connect` in the end,
work and messages end. `ThreadPool!FairSpec`: workers, joiners and the destructor go on,
tasks end; nobody has to schedule or join. All of it is weak
fairness, per thread, which is what a scheduler that starves nobody gives; a
mutex is held only inside a step, but for `_checkConnectionLock`, whose holder goes on.

Each property of a passing run has a mutant: an operator next to the one it replaces,
with a plausible slip in it (a missing test of the clock, an entry moved to the front
of the list, a pointer not cleared), under which TLC finds the property violated.

## 4. Proofs

`DistributedLockProofs` proves, for every set of threads and processes, all clock
offsets, time-outs and faults, from `ConstantsAssumption` alone:

* `TypeCorrect`: `Spec => []TypeOK`.
* `UnrobbedOwner`: `Spec => []UnrobbedOwnerIsNamed`. Whatever fails, exclusion can
  only be lost through a reset by somebody else: `lock_try`'s conditional update
  never lets two in by itself.
* `TakenOnce`: `Spec => []TakenByOne`.
* `LockIsImplemented`: `Spec => ImplementsLock`, the refinement of `RobbableLock`, and
  `OneRightfulOwner`, what that lock promises. `ResetRobs` says that a reset takes the one
  good claim there is, `MatchMeansFree` that no claim is good when the acquiring update
  matches; `RobbedOwners` (only owners are robbed) is needed because a late unlock is a
  reset for the abstract lock, and no release, when its thread no longer owns anything.

and, assuming `Faults = {}` and `ClocksClose` (offsets differ by at most `Takeover -
PingLimit`):

* `CalmMutualExclusion`: `Spec => []MutualExclusion`,
* `CalmTakenHasOwner`: `Spec => []TakenHasOwner`.

The inductive invariant `IInv` adds to the properties: `AttemptBound` (an unlock in
progress has attempts left), `TsDistinct` (no two threads hold the same OID),
`TakenDoc` (a taken document has an OID) and `AcquirerNotNamed`. The last is the
heart: a thread about to send the acquiring update is not the one the document
names, although its last acquisition may still be recorded there as free. Without it
the update's effect on `myTs` could turn an old acquisition into a current one. The
proof goes action by action; the acquiring write, shared by `Acquire` and
`LockTryThrows`, and the reset, shared by `TakeOver`, `Unlock` and their failing
forms, have lemmas of their own (`AcquireStep`, `ResetStep`). `CalmInv` adds that pings
are fresh and nobody is in a take-over, which `NoTakeOver` derives from the clocks.

The other proof modules are laid out alike: the invariant's parts, lemmas about the
operators, one lemma per action, then the theorems. Each invariant was checked with TLC
as an invariant of the component's run before it was proved. What each adds to the
properties, and why the properties are not inductive without it:

`SyncClusterLockProofs`, for any threads, at least two servers (`ClusterAssumption`) and
all faults: `TypeCorrect`, `OwnerNamed` (`OwnerIsNamedEverywhere`), `OneWinner`
(`ContestHasOneWinner`). `TakenIsNamed` follows a write from server to server: one that
has executed a thread's request with effect names the thread until somebody else's unlock
or propagation overwrites it, so that the owner is named everywhere when the round ends,
however often servers failed in between. `SomeDoc` says that a propagation always finds a
document to change, without which all answers would be equally 0. The contest needs
`Contest`, about the time from a lock that is free everywhere to the next unlock:
`FreeAgree` (servers that are still free have the same document, and it is the one the
contenders ask for), `Acquiring` (whom a contender's update came too late for has another
server that somebody else took), `Reading` (nobody reads back before all servers are
taken, and the highest OID read so far approaches that of all documents) and `Winning`
(who has decided for itself has the highest OID of all documents; as OIDs are distinct,
there is one such thread). `OneWinner` holds for OIDs in any order, since OIDs decide only
between updates that are already there.

`ReplicaSetProofs`, for any finite set of hosts, any list of seeds and any clients
(`MonitorAssumption`): `TypeCorrect`, which contains that every index is one of its list;
`MasterAnswered` (`MasterHadAnswered`); and the action property `NodesStay`
(`NodesKeepTheirPlace`). `Indexes` and `TriesLeft` are about indexes that threads keep
from one critical section to the next; they hold because `_nodes` only grows at its end,
which is `NodesStay`. `Heard` says that what `_checkConnection` was told stays true
until `_master` is written, because `_checkConnectionLock` is held in between. That no
host is in the list twice (`IsInjective(_nodes)`) makes a host's index unique.

`TaskServerProofs`, for any ports, tasks, messages and length of the deque
(`JobAssumption`, `ServerAssumption`): `TypeCorrect`, `JobOutlivesThread`
(`ObjectOutlivesUse`), `ConnectAnswersRight` (`AnswerIsAboutSocket`), `MessagesRanAsAsked`
(`RanAsAsked`). The jobs' part `JobIInv` is about `BackgroundJob` alone: `PortJob` ties
the object, the thread and the descriptor of a `ConnectBG` to where `connect` waits.
`OwedCounts` is the heart of the server's: a message is in the deque and in the server's
hand as often as it is owed a run, or more often, but then only for exceptions that
followed a `requeue()`. `RanAsAsked` alone is not inductive: a requeue that is still in `rq`
(`Stray`) has to be set aside for the message that will get it, and a called message that
was never queued again has no extra run at all. `Serving` says that a message is queued
again into a place that was just made; `OneCall` that a called message which never was is
there once, so that `done` means it. Nothing is assumed of what messages do.

`ThreadPoolProofs`, for any finite sets of workers and tasks and any pattern of tasks
that schedule tasks (`PoolAssumption`; the sets are finite because `_tasksRemaining`
counts): `TypeCorrect`, `PoolAlwaysAddsUp` (`PoolAddsUp`), and the action property
`JoinWaitsForAll` (`JoinMeansDone`). `CountsMatch` says that the count is that of the
tasks that have not ended plus that of the workers that have not yet reported, which is
why it may be positive when all tasks are done but never zero too early. `OnePlace` and
`EachWorker` say where tasks and workers are; `Destruction` that the destructor stops one
free worker after the other.

`FileAllocatorProofs`, for any callers, files and sizes (`SizeAssumption`,
`NoFileAssumption`): `TypeCorrect`, `WorkerKeepsFirst` (`WorkerHasFirst`),
`ListMatchesSizes` (`ListAndSizesAgree`), `FirstSizeIsUsed` (`FirstSizeUsed`) and
`AsapReturnsAllocated` (`AsapMeansAllocated`). `SizesAreFirst` and `DiskProgress` connect
the list, the sizes, the disk and the worker's progress with the first size requested;
`CallersKnow` says what a caller's argument means at each of its waits. The reordering of
`allocateAsap` has a lemma of its own: it moves a file behind the first one, and never
the one the worker is at.

`ConnPoolProofs`, for any scoped connections, hosts, connections and limits
(`PoolAssumption`): `TypeCorrect`, `ConnectionHasOneUser` (`OneUser`), `NoOldReply`
(`NoOldReplies`) and `NothingLeaks` (`NoneLeaked`). `StacksApart` (a connection is in one
stack, once) and `HeldApart` (who holds one holds it alone, and it is open and in no
stack) are `OneUser` without counting; `StoredClean` and `Stages` say what is true of a
connection that is stored or on its way to a user; `Owned` that nothing open is without a
holder, a stack or an exception that dropped it. `StacksStep` is shared by `flush`, its
failing form and the passing of time: stacks may be reordered and may lose what is
forgotten in the same step.

`CMakeProofs`, for any keys and elements with `KeyAssumption`: `LayoutStays` (`Layout`),
`GetAnswers` (`GetFindsList`) and `HashmapIsMap` (`ImplementsMap`: the flat list implements
`KeyMap`, and each command is the map's operation of its name). The walk is a recursive
function, and no induction theorem can be used here (their parameter is an operator), so
the argument goes by least counterexamples instead: `FromExists` shows that the function
exists, by the last index it cannot be given from; `WalkIs` that on a list which is a chain
of entries (`IsPath`: where each entry begins, what follows, whose keys differ) the walk is
exactly the set of their beginnings. `IsPath` is the inductive invariant: `PathAppend` and
`PathRemove` say where the entries are after an edit and that each carries its key and
value along, the ones behind a removed entry shifted by its length; `Layout` alone is not
inductive, as it does not say that the last entry ends where the list does.

The same module extends `TestHarness` too (whose specification has names of its own,
`TestInit`, `TestNext` and `TestSpec`, for that), and proves of it, with
`HarnessAssumption`: `TestsTyped`
(`TypeOK`, which no run repeats, with the number of tests that run at once) and `VerdictsAreRight`
(`VerdictsRight`). `FileIsOwn` is the strengthening: a compare test that has not met
another one finds in the shared file what its program has written so far, and has it to
itself.

Only model-checked:

* all liveness, and the fairness it needs (with `ENABLED`, out of the prover's reach);
* `SplitIsRight`: `split_options` is a fold over the options, compared with a direct
  definition for every list of options; that needs an induction over lists.

## 5. Not modelled

The Windows branch and the lazy singleton of the file allocator; the pool's statistics;
`hashmap(DUMP)`; build dependencies of test targets; the pings and the take-over over
several servers at once; `remove` and the commands of the sync cluster; authentication
and raw messages of the replica set client; piggy-backed messages; the cursor's batches.
The shard connection's cache is driven by version checks that are only hooks here. The
scripts are sequential shell loops. Thrift output, minizip, ticpp and the wrappers are
generated or third-party code, and most of the lines of `src/`: the models cover the
parts with state and concurrency of their own, a small share of all lines. The
components of section 1 without a module are listed in `PROJECT.json` with the reason.

## 6. Plan

Done: the lock on one server and on three, the pool, the allocator, the replica set, jobs,
tasks and thread pool, the hashmap and the test harness, and the proofs of the safety
invariants of all of them but `SplitIsRight`. Left:

1. Abstract specifications of two more parts: what three config servers make of
   `RobbableLock`, where a contest has a winner, on `OwnerNamed` and `OneWinner`; a set of
   pending files that `FileAllocator` implements, on `FirstSizeIsUsed`.
2. `MessagingPort`'s piggy-backed messages and the cursor in front of `ConnPool`. It
   should show that a kill of a cursor leaves before anything sent later on its
   connection (message.cpp:525), that a cursor hands out each document once and in order
   up to its limit, also when `requestMore` throws after it has lowered `nToReturn`
   (dbclientcursor.cpp:71) and is called again, and that an attached cursor never uses a
   connection it gave back (dbclientcursor.cpp:93).
