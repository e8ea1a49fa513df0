-------------------------- MODULE DistributedLock --------------------------
(***************************************************************************)
(* client/distlock.cpp with one config server: threads of several          *)
(* processes compete for one named lock, a document of config.locks, and   *)
(* every process has one "LockPinger" thread that refreshes its entry in   *)
(* config.lockpings.  Each step is one request to the config server, which *)
(* executes requests one at a time; everything between two requests is     *)
(* local to its thread.                                                    *)
(*                                                                         *)
(* Time is kept as the age, in minutes, of every entry of config.lockpings.*)
(* What can go wrong is a parameter: Faults contains "crash" when          *)
(* processes may die, "network" when a request may throw before or after   *)
(* the server executed it, and "late" when a pinger may be delayed beyond  *)
(* PingLimit minutes.                                                      *)
(***************************************************************************)
EXTENDS Integers, FiniteSets

CONSTANTS
    Thread,       \* threads that use the lock
    Process,      \* processes, identified by getDistLockProcess()
    ProcessOf,    \* the process of each thread
    Skew,         \* how many minutes each process's clock is ahead
    Ts,           \* the values OID::init can produce, positive integers
    Takeover,     \* _takeoverMinutes
    PingLimit,    \* a punctual pinger's entry is never older than this
    OldPing,      \* "4 days", in minutes
    MaxAge,       \* ages are counted up to this bound
    Faults,       \* a subset of {"crash", "network", "late"}
    NoProcess     \* the lock document has no "process" field yet

ASSUME ConstantsAssumption ==
    /\ ProcessOf \in [Thread -> Process]
    /\ Skew \in [Process -> Int]
    /\ Ts \subseteq Nat \ {0}
    /\ Takeover \in Nat /\ PingLimit \in Nat /\ OldPing \in Nat /\ MaxAge \in Nat
    /\ NoProcess \notin Process

\* The bound on ages hides no decision the code takes on them.
ASSUME AgeBoundAssumption ==
    \A p, q \in Process : MaxAge + Skew[p] - Skew[q] > Takeover
                       /\ MaxAge + Skew[p] - Skew[q] > OldPing

VARIABLES
    doc,       \* the lock's document in config.locks
    pinged,    \* processes that have an entry in config.lockpings
    age,       \* minutes since the "ping" date of each entry was taken
    alive,     \* processes that are running
    pinger,    \* where each process's LockPinger thread is
    pids,      \* the pinger's local vector of lock holders' processes
    pc,        \* where each thread is in the lock's code
    seen,      \* lock_try's local o["process"]: who it found holding the lock
    wantTs,    \* the "ts" lock_try put in its query, 0 for none
    myTs,      \* the OID with which a thread last took the lock, 0 once it gave it back
    attempted, \* attempts of unlock that failed, kept until the next call
    robbed     \* history: owners whose lock somebody else's write reset

dbVars   == <<doc, pinged, age>>
pingVars == <<pinger, pids>>
tryVars  == <<seen, wantTs, myTs>>
vars     == <<dbVars, alive, pingVars, pc, tryVars, attempted, robbed>>

maxAttempts == 3

\* The request a thread sends next.  An idle thread may call lock_try, whose
\* first request is findOne; "held" is the time between lock_try returning
\* true and the first request of unlock, "unlock" are unlock's later attempts.
TryStates == {"insert", "findPing", "takeover", "acquire"}
PcStates  == TryStates \cup {"new", "idle", "held", "unlock", "dead"}

NoDoc   == [there |-> FALSE, state |-> 0, process |-> NoProcess, ts |-> 0]
LockDoc == [there: BOOLEAN, state: {0, 1}, process: Process \cup {NoProcess}, ts: Ts \cup {0}]

Owner(t) == pc[t] = "held"

\* The threads whose acquisition the document records.
Named(t) == doc.state = 1 /\ doc.ts = myTs[t]

TypeOK ==
    /\ doc \in LockDoc
    /\ pinged \subseteq Process
    /\ age \in [Process -> 0..MaxAge]
    /\ alive \subseteq Process
    /\ pinger \in [Process -> {"none", "ping", "query", "remove"}]
    /\ pids \in [Process -> SUBSET Process]
    /\ pc \in [Thread -> PcStates]
    /\ seen \in [Thread -> Process \cup {NoProcess}]
    /\ wantTs \in [Thread -> Ts \cup {0}]
    /\ myTs \in [Thread -> Ts \cup {0}]
    /\ attempted \in [Thread -> 0..maxAttempts]
    /\ robbed \subseteq Thread

Init ==
    /\ doc = NoDoc
    /\ pinged = {}
    /\ age = [p \in Process |-> 0]
    /\ alive = Process
    /\ pinger = [p \in Process |-> "none"]
    /\ pids = [p \in Process |-> {}]
    /\ pc = [t \in Thread |-> "new"]
    /\ seen = [t \in Thread |-> NoProcess]
    /\ wantTs = [t \in Thread |-> 0]
    /\ myTs = [t \in Thread |-> 0]
    /\ attempted = [t \in Thread |-> 0]
    /\ robbed = {}

---------------------------------------------------------------------------
(* Helpers.                                                                *)

Running(t) == ProcessOf[t] \in alive

\* now - pingTime as process p computes it from its own clock, for the ping
\* that process q wrote with its own.
Elapsed(p, q) == age[q] + Skew[p] - Skew[q]

\* elapsed is an unsigned long long: a negative difference would be huge.
Unsigned(n) == IF n < 0 THEN n + 2^20 ELSE n

\* An OID that nobody holds a copy of.
UsedTs == {doc.ts} \cup {wantTs[t] : t \in Thread} \cup {myTs[t] : t \in Thread}
FreshTs == CHOOSE ts \in Ts : ts \notin UsedTs

\* { _id : name }, { $set : { state : 0 } }: whatever the document says now.
ResetDoc == doc' = [doc EXCEPT !.state = 0]

\* Who else's acquisition a reset by t throws away.
RobbedBy(t) == {u \in Thread \ {t} : Owner(u) /\ Named(u)}

\* lock_try returns or throws; its locals are gone.
Leave(t, where) ==
    /\ pc' = [pc EXCEPT ![t] = where]
    /\ seen' = [seen EXCEPT ![t] = NoProcess]
    /\ wantTs' = [wantTs EXCEPT ![t] = 0]

GoTo(t, where) == pc' = [pc EXCEPT ![t] = where]

---------------------------------------------------------------------------
(* Construction and the pinger.                                            *)

\* The constructor: distLockPinger.got starts one pinger per process.
Construct(t) ==
    /\ Running(t) /\ pc[t] = "new"
    /\ GoTo(t, "idle")
    /\ pinger' = IF pinger[ProcessOf[t]] = "none"
                   THEN [pinger EXCEPT ![ProcessOf[t]] = "ping"] ELSE pinger
    /\ UNCHANGED <<dbVars, alive, pids, tryVars, attempted, robbed>>

\* Refresh this process's entry (an upsert with the process's own clock).
PingWrite(p) == pinged' = pinged \cup {p} /\ age' = [age EXCEPT ![p] = 0]

\* Mutant of RemoveWrite: the clean-up does not spare the holders of locks.
RemoveWriteOfHolders(p) ==
    /\ pinged' = {q \in pinged : Elapsed(p, q) <= OldPing}
    /\ UNCHANGED age

\* Remove the entries older than four days of processes not in pids.
RemoveWrite(p) ==
    /\ pinged' = {q \in pinged : q \in pids[p] \/ Elapsed(p, q) <= OldPing}
    /\ UNCHANGED age

Ping(p) ==
    /\ p \in alive /\ pinger[p] = "ping"
    /\ PingWrite(p)
    /\ pinger' = [pinger EXCEPT ![p] = "query"]
    /\ UNCHANGED <<doc, alive, pids, pc, tryVars, attempted, robbed>>

\* The request throws or reports an error: the loop starts over.  A write may
\* have been executed.
PingFails(p) ==
    /\ "network" \in Faults
    /\ p \in alive /\ pinger[p] # "none"
    /\ \/ pinger[p] = "ping" /\ PingWrite(p)
       \/ pinger[p] = "remove" /\ RemoveWrite(p)
       \/ UNCHANGED <<pinged, age>>
    /\ pinger' = [pinger EXCEPT ![p] = "ping"]
    /\ pids' = [pids EXCEPT ![p] = {}]
    /\ UNCHANGED <<doc, alive, pc, tryVars, attempted, robbed>>

\* Collect the "process" of every lock document, whatever its state.
QueryLocks(p) ==
    /\ p \in alive /\ pinger[p] = "query"
    /\ pids' = [pids EXCEPT ![p] = {doc.process} \ {NoProcess}]
    /\ pinger' = [pinger EXCEPT ![p] = "remove"]
    /\ UNCHANGED <<dbVars, alive, pc, tryVars, attempted, robbed>>

RemoveOldPings(p) ==
    /\ p \in alive /\ pinger[p] = "remove"
    /\ RemoveWrite(p)
    /\ pids' = [pids EXCEPT ![p] = {}]
    /\ pinger' = [pinger EXCEPT ![p] = "ping"]
    /\ UNCHANGED <<doc, alive, pc, tryVars, attempted, robbed>>

---------------------------------------------------------------------------
(* lock_try.                                                               *)

\* findOne(_ns, _id), and the three-way test of the document it returns.
FindLock(t) ==
    /\ Running(t) /\ pc[t] = "idle"
    /\ attempted' = [attempted EXCEPT ![t] = 0]
    /\ \/ /\ ~doc.there
          /\ GoTo(t, "insert")
          /\ UNCHANGED <<seen, wantTs>>
       \/ /\ doc.there /\ doc.state = 1
          /\ GoTo(t, "findPing")
          /\ seen' = [seen EXCEPT ![t] = doc.process]
          /\ UNCHANGED wantTs
       \/ /\ doc.there /\ doc.state = 0
          /\ GoTo(t, "acquire")
          /\ wantTs' = [wantTs EXCEPT ![t] = doc.ts]
          /\ UNCHANGED seen
    /\ UNCHANGED <<dbVars, alive, pingVars, myTs, robbed>>

\* The initial document; a second insert of the same _id changes nothing.
InsertWrite ==
    doc' = IF doc.there THEN doc ELSE [NoDoc EXCEPT !.there = TRUE]

InsertLock(t) ==
    /\ Running(t) /\ pc[t] = "insert"
    /\ InsertWrite
    /\ GoTo(t, "acquire")
    /\ UNCHANGED <<pinged, age, alive, pingVars, tryVars, attempted, robbed>>

\* Mutant of MayTakeOver: no test for a ping from the future.
MayTakeOverWithoutSkewTest(p, q) ==
    q \in pinged /\ Unsigned(Elapsed(p, q)) > Takeover

\* The holder's last ping decides: no entry, a ping from the future or a
\* recent one and lock_try returns false.
MayTakeOver(p, q) ==
    /\ q \in pinged
    /\ Elapsed(p, q) >= 0
    /\ Unsigned(Elapsed(p, q)) > Takeover

FindPing(t) ==
    /\ Running(t) /\ pc[t] = "findPing"
    /\ IF MayTakeOver(ProcessOf[t], seen[t])
         THEN GoTo(t, "takeover") /\ UNCHANGED <<seen, wantTs>>
         ELSE Leave(t, "idle")
    /\ UNCHANGED <<dbVars, alive, pingVars, myTs, attempted, robbed>>

\* "forcefully taking over"
TakeOver(t) ==
    /\ Running(t) /\ pc[t] = "takeover"
    /\ ResetDoc
    /\ robbed' = robbed \cup RobbedBy(t)
    /\ GoTo(t, "acquire")
    /\ UNCHANGED <<pinged, age, alive, pingVars, tryVars, attempted>>

\* Mutant of Matches: the query leaves out the state.
MatchesAnyState(t) == doc.there /\ (wantTs[t] # 0 => doc.ts = wantTs[t])

\* The update's query: { _id : name, state : 0 } and, when lock_try found the
\* lock free with a "ts", that ts.
Matches(t) == doc.there /\ doc.state = 0 /\ (wantTs[t] # 0 => doc.ts = wantTs[t])

\* Mutant of AcquireWrite: the document keeps the last holder's process.
AcquireWriteKeepsProcess(t) ==
    /\ \E x \in Ts : x \notin UsedTs
    /\ myTs' = [myTs EXCEPT ![t] = IF Matches(t) THEN FreshTs ELSE 0]
    /\ doc' = IF Matches(t) THEN [doc EXCEPT !.state = 1, !.ts = FreshTs] ELSE doc

\* ts.init(), then the update that takes the lock if the query matches.
AcquireWrite(t) ==
    /\ \E x \in Ts : x \notin UsedTs
    /\ myTs' = [myTs EXCEPT ![t] = IF Matches(t) THEN FreshTs ELSE 0]
    /\ doc' = IF Matches(t)
                THEN [doc EXCEPT !.state = 1, !.process = ProcessOf[t], !.ts = FreshTs]
                ELSE doc

\* Mutant of Acquire: taking a new document's lock is reported as a failure.
AcquireMissesNew(t) ==
    /\ Running(t) /\ pc[t] = "acquire"
    /\ AcquireWrite(t)
    /\ Leave(t, IF Matches(t) /\ wantTs[t] # 0 THEN "held" ELSE "idle")
    /\ UNCHANGED <<pinged, age, alive, pingVars, attempted, robbed>>

\* Mutant of Acquire: the answer to the update is not looked at.
AcquireBlindly(t) ==
    /\ Running(t) /\ pc[t] = "acquire"
    /\ AcquireWrite(t)
    /\ Leave(t, "held")
    /\ UNCHANGED <<pinged, age, alive, pingVars, attempted, robbed>>

\* The update and its getLastError: n = 0 means the query matched nothing.
\* The findOne that follows only feeds the log and *other.
Acquire(t) ==
    /\ Running(t) /\ pc[t] = "acquire"
    /\ AcquireWrite(t)
    /\ Leave(t, IF Matches(t) THEN "held" ELSE "idle")
    /\ UNCHANGED <<pinged, age, alive, pingVars, attempted, robbed>>

\* A request of lock_try throws, before or after the server executed it; no
\* handler on the way to the caller gives anything back.
LockTryThrows(t) ==
    /\ "network" \in Faults
    /\ Running(t) /\ pc[t] \in TryStates
    /\ \/ pc[t] = "insert" /\ InsertWrite /\ UNCHANGED <<myTs, robbed>>
       \/ /\ pc[t] = "takeover" /\ ResetDoc
          /\ robbed' = robbed \cup RobbedBy(t) /\ UNCHANGED myTs
       \/ pc[t] = "acquire" /\ AcquireWrite(t) /\ UNCHANGED robbed
       \/ UNCHANGED <<doc, myTs, robbed>>
    /\ Leave(t, "idle")
    /\ UNCHANGED <<pinged, age, alive, pingVars, attempted>>

---------------------------------------------------------------------------
(* unlock.                                                                 *)

\* unlock's write.
UnlockWrite(t) == ResetDoc /\ robbed' = (robbed \ {t}) \cup RobbedBy(t)

Unlock(t) ==
    /\ Running(t) /\ pc[t] \in {"held", "unlock"}
    /\ UnlockWrite(t)
    /\ GoTo(t, "idle")
    /\ myTs' = [myTs EXCEPT ![t] = 0]
    /\ attempted' = [attempted EXCEPT ![t] = 0]
    /\ UNCHANGED <<pinged, age, alive, pingVars, seen, wantTs>>

\* Mutant of UnlockThrows: one attempt too many.
UnlockThrowsOnceMore(t) ==
    /\ "network" \in Faults
    /\ Running(t) /\ pc[t] \in {"held", "unlock"}
    /\ \/ UnlockWrite(t)
       \/ UNCHANGED doc /\ robbed' = robbed \ {t}
    /\ attempted' = [attempted EXCEPT ![t] = @ + 1]
    /\ GoTo(t, IF attempted[t] + 1 <= maxAttempts THEN "unlock" ELSE "idle")
    /\ UNCHANGED <<pinged, age, alive, pingVars, tryVars>>

\* The update or the findOne after it throws: unlock sleeps and tries again,
\* three times in all.  The update may have been executed.
UnlockThrows(t) ==
    /\ "network" \in Faults
    /\ Running(t) /\ pc[t] \in {"held", "unlock"}
    /\ \/ UnlockWrite(t)
       \/ UNCHANGED doc /\ robbed' = robbed \ {t}
    /\ attempted' = [attempted EXCEPT ![t] = @ + 1]
    /\ GoTo(t, IF attempted[t] + 1 < maxAttempts THEN "unlock" ELSE "idle")
    /\ UNCHANGED <<pinged, age, alive, pingVars, tryVars>>

---------------------------------------------------------------------------
(* The environment.                                                        *)

\* A process dies with all its threads; a new instance of it is another
\* process, because its process string has another time and random number.
Crash(p) ==
    /\ "crash" \in Faults
    /\ p \in alive
    /\ alive' = alive \ {p}
    /\ pc' = [t \in Thread |-> IF ProcessOf[t] = p THEN "dead" ELSE pc[t]]
    /\ seen' = [t \in Thread |-> IF ProcessOf[t] = p THEN NoProcess ELSE seen[t]]
    /\ wantTs' = [t \in Thread |-> IF ProcessOf[t] = p THEN 0 ELSE wantTs[t]]
    /\ attempted' = [t \in Thread |-> IF ProcessOf[t] = p THEN 0 ELSE attempted[t]]
    /\ robbed' = {t \in robbed : ProcessOf[t] # p}
    /\ pids' = [pids EXCEPT ![p] = {}]
    /\ UNCHANGED <<dbVars, pinger, myTs>>

\* A minute passes.  Unless pingers may be late, the entry of a running
\* process is refreshed in time.
Tick ==
    /\ "late" \in Faults \/ \A p \in alive \cap pinged : age[p] < PingLimit
    /\ age' = [p \in Process |-> IF p \in pinged /\ age[p] < MaxAge THEN age[p] + 1 ELSE age[p]]
    /\ UNCHANGED <<doc, pinged, alive, pingVars, pc, tryVars, attempted, robbed>>

PingerStep(p) == Ping(p) \/ PingFails(p) \/ QueryLocks(p) \/ RemoveOldPings(p)

ThreadStep(t) ==
    \/ Construct(t) \/ FindLock(t) \/ InsertLock(t) \/ FindPing(t) \/ TakeOver(t)
    \/ Acquire(t) \/ LockTryThrows(t) \/ Unlock(t) \/ UnlockThrows(t)

Next ==
    \/ \E t \in Thread : ThreadStep(t)
    \/ \E p \in Process : PingerStep(p) \/ Crash(p)
    \/ Tick

Spec == Init /\ [][Next]_vars

\* Every pinger loops, time passes, calls return, callers ask again and give
\* back what they got.  Nothing obliges a request to fail or a process to die.
Fairness ==
    /\ WF_vars(Tick)
    /\ \A p \in Process : WF_vars(Ping(p) \/ QueryLocks(p) \/ RemoveOldPings(p))
    /\ \A t \in Thread : WF_vars(Construct(t) \/ FindLock(t) \/ InsertLock(t) \/ FindPing(t)
                                  \/ TakeOver(t) \/ Acquire(t) \/ Unlock(t))

FairSpec == Spec /\ Fairness

---------------------------------------------------------------------------
(* Properties.                                                             *)

\* "A way of synchronizing system-wide tasks" (distlock.h): lock_try has not
\* answered true to two threads that have not called unlock since.
MutualExclusion ==
    \A t, u \in Thread : Owner(t) /\ Owner(u) => t = u

\* A thread that was not robbed by another's reset is the one the document
\* names, so at most one thread believes in the lock with reason: whatever
\* fails, the conditional update of lock_try never lets two in by itself.
UnrobbedOwnerIsNamed ==
    \A t \in Thread : Owner(t) /\ t \notin robbed => doc.there /\ Named(t) /\ doc.process = ProcessOf[t]

\* "A way of synchronizing system-wide tasks" (distlock.h), whatever fails:
\* lock_try answers true only when no other owner's claim is good, and a good
\* claim ends with its owner's unlock or death or with another thread's reset.
Lock == INSTANCE RobbableLock WITH owners <- {t \in Thread : Owner(t)}
ImplementsLock == Lock!Spec

\* A taken lock was taken by exactly one attempt, of a thread of the process
\* the document gives: the takeover test always looks at the ping of the
\* process that wrote the document, never of a bystander.
TakenByOne ==
    doc.state = 1 =>
      \E t \in Thread : /\ doc.ts = myTs[t] /\ doc.process = ProcessOf[t]
                        /\ \A u \in Thread : doc.ts = myTs[u] => u = t

\* Without failing requests or crashes a lock is never left taken by nobody:
\* every path through lock_try and unlock that wrote state 1 leads to the
\* write that resets it.
TakenHasOwner ==
    doc.state = 1 => \E t \in Thread : Owner(t) /\ Named(t)

\* "if the lock is taken, the take-over mechanism should handle the situation"
\* (distlock.cpp): the lock of a process that pinged at least once and died is
\* eventually reset, because the clean-up spares its entry.  Without an entry
\* lock_try asks for "manual intervention" instead.
PingedDeadHolderIsTakenOver ==
    \A t \in Thread :
      (pc[t] = "dead" /\ Named(t) /\ ProcessOf[t] \in pinged) ~> (~Named(t) \/ alive = {})

=============================================================================
