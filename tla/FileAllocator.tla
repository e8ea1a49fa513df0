--------------------------- MODULE FileAllocator ---------------------------
(***************************************************************************)
(* util/file_allocator.cpp (the POSIX half): callers ask for data files of *)
(* a given size, a worker thread creates and fills them one by one.  What  *)
(* the code does while it holds _pendingMutex is one step; the worker's    *)
(* disk operations happen between two such steps.                          *)
(***************************************************************************)
EXTENDS Integers, Sequences, FiniteSets, SequencesExt

CONSTANTS
    Caller,     \* threads that call the public functions
    File,       \* file names
    Size,       \* sizes callers ask for, positive
    DiskFails,  \* whether a disk operation may fail
    NoFile      \* the worker has no file in hand, a caller waits for no file

ASSUME SizeAssumption == Size \subseteq Nat \ {0}
ASSUME NoFileAssumption == NoFile \notin File

Absent == -1    \* what prevSize answers for a file nobody asked for

VARIABLES
    _pending,      \* the list of files to allocate; the worker is on the first
    _pendingSize,  \* the size of every file in the list
    _failed,       \* an allocation failed; the worker is gone
    disk,          \* the length of every file, or Absent
    waiting,       \* threads blocked in _pendingUpdated.wait
    worker,        \* where the worker thread is
    wname, wsize,  \* the worker's local name and size
    cpc,           \* where each caller is
    cname, csize,  \* the file a caller asks for and its in-out size argument
    first          \* history: the first size specified for each file, or Absent

pendingVars == <<_pending, _pendingSize, _failed>>
workerVars  == <<worker, wname, wsize>>
callerVars  == <<cpc, cname, csize>>
vars == <<pendingVars, disk, waiting, workerVars, callerVars, first>>

\* The worker thread among the threads that wait.
Worker == NoFile

WorkerStates == {"created", "wait", "peek", "open", "fill", "cleanup", "setFailed", "pop", "gone"}
CallerStates == {"idle", "requested", "asap", "returned", "threw", "finish", "finishWait"}

TypeOK ==
    /\ _pending \in Seq(File)
    /\ DOMAIN _pendingSize \subseteq File /\ Range(_pendingSize) \subseteq Nat
    /\ _failed \in BOOLEAN
    /\ disk \in [File -> Nat \cup {Absent}]
    /\ waiting \subseteq Caller \cup {Worker}
    /\ worker \in WorkerStates /\ wname \in File \cup {NoFile} /\ wsize \in Nat
    /\ cpc \in [Caller -> CallerStates]
    /\ cname \in [Caller -> File \cup {NoFile}] /\ csize \in [Caller -> Nat]
    /\ first \in [File -> Nat \cup {Absent}]

\* Files may be left over from an earlier run of the program.
Init ==
    /\ _pending = <<>> /\ _pendingSize = <<>> /\ _failed = FALSE
    /\ disk \in [File -> Size \cup {Absent}]
    /\ waiting = {}
    /\ worker = "created" /\ wname = NoFile /\ wsize = 0
    /\ cpc = [c \in Caller |-> "idle"]
    /\ cname = [c \in Caller |-> NoFile] /\ csize = [c \in Caller |-> 0]
    /\ first = disk

---------------------------------------------------------------------------
(* Helpers.                                                                *)

notify_all == waiting' = {}

Wait(t) == t \notin waiting

\* Mutant of prevSize: requested files are not looked up.
prevSizeOnDisk(f) == disk[f]

\* The size of a requested or existing file, Absent for any other.
prevSize(f) == IF f \in DOMAIN _pendingSize THEN _pendingSize[f] ELSE disk[f]

inProgress(f) == Contains(_pending, f)

\* Throws, ending the caller's function, after an allocation failed.
checkFailure == _failed

SetSize(f, n) ==
    _pendingSize' = [g \in DOMAIN _pendingSize \cup {f} |-> IF g = f THEN n ELSE _pendingSize[g]]

\* Mutants of MoveToSecond: to the front of the list, and without the removal.
MoveToFront(f) == <<f>> \o SelectSeq(_pending, LAMBDA g : g # f)
InsertSecond(f) ==
    IF _pending = <<>> THEN <<f>>
    ELSE IF Head(_pending) = f THEN _pending
    ELSE <<Head(_pending), f>> \o Tail(_pending)

\* Remove f from the list, which has it once at most, and put it right behind
\* the file being allocated.
MoveToSecond(f) ==
    IF _pending = <<>> THEN <<f>>
    ELSE IF Head(_pending) = f THEN _pending
    ELSE <<Head(_pending), f>> \o RemoveFirst(Tail(_pending), f)

FirstSize(f, n) == first' = IF first[f] = Absent THEN [first EXCEPT ![f] = n] ELSE first

\* Mutant of CallerGoes: the size argument is prevSize's answer, Absent included.
CallerGoesAbsent(c, where, f, n) ==
    /\ cpc' = [cpc EXCEPT ![c] = where]
    /\ cname' = [cname EXCEPT ![c] = f]
    /\ csize' = [csize EXCEPT ![c] = IF f = NoFile THEN n ELSE prevSize(f)]

CallerGoes(c, where, f, n) ==
    /\ cpc' = [cpc EXCEPT ![c] = where]
    /\ cname' = [cname EXCEPT ![c] = f]
    /\ csize' = [csize EXCEPT ![c] = n]

---------------------------------------------------------------------------
(* The public functions.                                                   *)

start ==
    /\ worker = "created"
    /\ worker' = "wait"
    /\ UNCHANGED <<pendingVars, disk, waiting, wname, wsize, callerVars, first>>

\* The size argument changes only when the file is known and nothing failed.
requestAllocation(c, f, n) ==
    /\ cpc[c] = "idle"
    /\ CallerGoes(c, "requested", f, IF _failed \/ prevSize(f) = Absent THEN n ELSE prevSize(f))
    /\ IF _failed \/ prevSize(f) # Absent
         THEN UNCHANGED <<pendingVars, waiting, first>>
         ELSE /\ _pending' = Append(_pending, f)
              /\ SetSize(f, n)
              /\ FirstSize(f, n)
              /\ notify_all
              /\ UNCHANGED _failed
    /\ UNCHANGED <<disk, workerVars>>

\* allocateAsap up to its wait: the answer for a file that exists, the error
\* after a failure, or the file gets the second place of the list.
allocateAsap(c, f, n) ==
    LET size == IF prevSize(f) = Absent THEN n ELSE prevSize(f) IN
    /\ cpc[c] = "idle"
    /\ \/ /\ prevSize(f) # Absent /\ ~inProgress(f)
          /\ CallerGoes(c, "returned", f, size)
          /\ UNCHANGED <<pendingVars, waiting, first>>
       \/ /\ prevSize(f) = Absent \/ inProgress(f)
          /\ checkFailure
          /\ CallerGoes(c, "threw", f, size)
          /\ UNCHANGED <<pendingVars, waiting, first>>
       \/ /\ prevSize(f) = Absent \/ inProgress(f)
          /\ ~checkFailure
          /\ SetSize(f, size)
          /\ FirstSize(f, size)
          /\ _pending' = MoveToSecond(f)
          /\ waiting' = {c}
          /\ CallerGoes(c, "asap", f, size)
          /\ UNCHANGED _failed
    /\ UNCHANGED <<disk, workerVars>>

\* Mutant of AsapWakes: any wake-up counts, the list is not looked at again.
AsapWakesOnce(c) ==
    /\ cpc[c] = "asap" /\ Wait(c)
    /\ CallerGoes(c, "returned", cname[c], csize[c])
    /\ UNCHANGED <<pendingVars, disk, waiting, workerVars, first>>

\* allocateAsap's loop, after a wake-up.
AsapWakes(c) ==
    /\ cpc[c] = "asap" /\ Wait(c)
    /\ \/ ~inProgress(cname[c]) /\ CallerGoes(c, "returned", cname[c], csize[c]) /\ UNCHANGED waiting
       \/ inProgress(cname[c]) /\ checkFailure /\ CallerGoes(c, "threw", cname[c], csize[c]) /\ UNCHANGED waiting
       \/ inProgress(cname[c]) /\ ~checkFailure /\ waiting' = waiting \cup {c} /\ UNCHANGED callerVars
    /\ UNCHANGED <<pendingVars, disk, workerVars, first>>

\* The caller goes on with the answer.
Resume(c) ==
    /\ cpc[c] \in {"requested", "returned", "threw"}
    /\ CallerGoes(c, "idle", NoFile, 0)
    /\ UNCHANGED <<pendingVars, disk, waiting, workerVars, first>>

\* waitUntilFinished reads _failed before it takes the mutex.
waitUntilFinished(c) ==
    /\ cpc[c] = "idle"
    /\ ~_failed
    /\ CallerGoes(c, "finish", NoFile, 0)
    /\ UNCHANGED <<pendingVars, disk, waiting, workerVars, first>>

FinishLoop(c) ==
    /\ cpc[c] \in {"finish", "finishWait"} /\ Wait(c)
    /\ IF _pending = <<>>
         THEN CallerGoes(c, "idle", NoFile, 0) /\ UNCHANGED waiting
         ELSE CallerGoes(c, "finishWait", NoFile, 0) /\ waiting' = waiting \cup {c}
    /\ UNCHANGED <<pendingVars, disk, workerVars, first>>

---------------------------------------------------------------------------
(* The worker thread.                                                      *)

WorkerAt(where, f, n) == worker' = where /\ wname' = f /\ wsize' = n

\* Mutant of WorkerWaits: it waits without a look at the list.
WorkerWaitsBlindly ==
    /\ worker = "wait"
    /\ waiting' = waiting \cup {Worker}
    /\ WorkerAt("peek", NoFile, 0)
    /\ UNCHANGED <<pendingVars, disk, callerVars, first>>

\* run's outer loop waits once when the list is empty, without testing again.
WorkerWaits ==
    /\ worker = "wait"
    /\ waiting' = IF _pending = <<>> THEN waiting \cup {Worker} ELSE waiting
    /\ WorkerAt("peek", NoFile, 0)
    /\ UNCHANGED <<pendingVars, disk, callerVars, first>>

WorkerPeeks ==
    /\ worker = "peek" /\ Wait(Worker)
    /\ IF _pending = <<>>
         THEN WorkerAt("wait", NoFile, 0)
         ELSE WorkerAt("open", Head(_pending), _pendingSize[Head(_pending)])
    /\ UNCHANGED <<pendingVars, disk, waiting, callerVars, first>>

\* open(O_CREAT), after the parent directories.  The uassert on a failed open has
\* its condition the wrong way round, but ensureLength then throws for the bad
\* descriptor, before it touches anything.
WorkerOpens ==
    /\ worker = "open"
    /\ \/ /\ disk' = [disk EXCEPT ![wname] = IF @ = Absent THEN 0 ELSE @]
          /\ WorkerAt("fill", wname, wsize)
       \/ /\ DiskFails
          /\ WorkerAt("cleanup", wname, wsize)
          /\ UNCHANGED disk
    /\ UNCHANGED <<pendingVars, waiting, callerVars, first>>

\* ensureLength reaches the size, or throws with the file half written.
ensureLength ==
    /\ worker = "fill"
    /\ \/ /\ disk' = [disk EXCEPT ![wname] = IF @ < wsize THEN wsize ELSE @]
          /\ WorkerAt("pop", wname, wsize)
       \/ /\ DiskFails
          /\ \E n \in 0..wsize : disk' = [disk EXCEPT ![wname] = IF @ < n THEN n ELSE @]
          /\ WorkerAt("cleanup", wname, wsize)
    /\ UNCHANGED <<pendingVars, waiting, callerVars, first>>

\* The handler removes the file, if it can, before it takes the mutex.
WorkerCleansUp ==
    /\ worker = "cleanup"
    /\ \/ disk' = [disk EXCEPT ![wname] = Absent]
       \/ UNCHANGED disk
    /\ WorkerAt("setFailed", wname, wsize)
    /\ UNCHANGED <<pendingVars, waiting, callerVars, first>>

\* Mutant of WorkerFails: nobody is told.
WorkerFailsSilently ==
    /\ worker = "setFailed"
    /\ _failed' = TRUE
    /\ WorkerAt("gone", NoFile, 0)
    /\ UNCHANGED <<_pending, _pendingSize, disk, waiting, callerVars, first>>

WorkerFails ==
    /\ worker = "setFailed"
    /\ _failed' = TRUE
    /\ notify_all
    /\ WorkerAt("gone", NoFile, 0)
    /\ UNCHANGED <<_pending, _pendingSize, disk, callerVars, first>>

WorkerPops ==
    /\ worker = "pop"
    /\ _pendingSize' = [g \in DOMAIN _pendingSize \ {wname} |-> _pendingSize[g]]
    /\ _pending' = Tail(_pending)
    /\ notify_all
    /\ WorkerAt("peek", NoFile, 0)
    /\ UNCHANGED <<_failed, disk, callerVars, first>>

\* A condition variable may wake a thread without a notification.
SpuriousWakeup ==
    /\ \E t \in waiting : waiting' = waiting \ {t}
    /\ UNCHANGED <<pendingVars, disk, workerVars, callerVars, first>>

WorkerStep ==
    \/ WorkerWaits \/ WorkerPeeks \/ WorkerOpens \/ ensureLength
    \/ WorkerCleansUp \/ WorkerFails \/ WorkerPops

Call(c) ==
    \/ \E f \in File, n \in Size : requestAllocation(c, f, n) \/ allocateAsap(c, f, n)
    \/ waitUntilFinished(c)

Continue(c) == AsapWakes(c) \/ Resume(c) \/ FinishLoop(c)

Next == start \/ WorkerStep \/ SpuriousWakeup \/ \E c \in Caller : Call(c) \/ Continue(c)

Spec == Init /\ [][Next]_vars

\* Threads that can run do; nobody is obliged to call, and no wake-up comes
\* without a notification for sure.
FairSpec ==
    /\ Spec
    /\ WF_vars(start) /\ WF_vars(WorkerStep)
    /\ \A c \in Caller : WF_vars(Continue(c))

---------------------------------------------------------------------------
(* Properties.                                                             *)

Allocating == worker \in {"open", "fill", "cleanup", "setFailed", "pop"}

\* The file in the worker's hands stays first in the list although the worker
\* released the mutex: that is why allocateAsap inserts at the second place,
\* and why pop_front removes the file that was allocated.
WorkerHasFirst ==
    Allocating => _pending # <<>> /\ Head(_pending) = wname /\ _pendingSize[wname] = wsize

\* Every listed file is listed once and has a size, and nothing else has: the
\* two structures are updated in different places and never disagree.
ListAndSizesAgree ==
    /\ IsInjective(_pending)
    /\ DOMAIN _pendingSize = Range(_pending)

\* "Only the first size specified per file will be used" (file_allocator.h):
\* whatever later callers ask for, a file that is not being worked on has the
\* size it was first asked for, and requestAllocation tells a later caller so.
FirstSizeUsed ==
    /\ \A f \in File : disk[f] # Absent /\ f \notin DOMAIN _pendingSize => disk[f] = first[f]
    /\ \A c \in Caller : cpc[c] = "requested" /\ ~_failed => csize[c] = first[cname[c]]

\* "Returns when file has been allocated. If file exists, size is updated to
\* match existing file size" (file_allocator.h).
AsapMeansAllocated ==
    \A c \in Caller : cpc[c] = "returned" => disk[cname[c]] = csize[c]

\* allocateAsap ends, with an answer or with the error, even when another
\* caller's file fails while it waits.
AsapEnds == \A c \in Caller : cpc[c] = "asap" ~> cpc[c] # "asap"

\* A requested file is eventually allocated unless an allocation fails.
RequestsServed == \A f \in File : inProgress(f) ~> (~inProgress(f) \/ _failed)

=============================================================================
