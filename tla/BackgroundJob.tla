--------------------------- MODULE BackgroundJob ---------------------------
(***************************************************************************)
(* The life of a BackgroundJob (mongo/util/background.cpp): an object with *)
(* a thread of its own that shares a JobStatus with it.  Some jobs are on  *)
(* the stack of the thread that waits for them, as the ConnectBG of        *)
(* MessagingPort::connect (mongo/util/message.cpp) is; the Tasks of        *)
(* mongo/util/concurrency/task.cpp delete themselves.  What a thread does  *)
(* under JobStatus::m is one step, and as state is set and finished is     *)
(* notified in one such step, a wait ends when the state is Done.          *)
(***************************************************************************)
EXTENDS Integers

CONSTANTS
    Port,   \* messaging ports, each with the ConnectBG it connects with
    Task    \* task objects, allocated with deleteSelf

ASSUME JobAssumption == Port \cap Task = {}

Job == Port \cup Task

VARIABLES
    state,    \* JobStatus::state
    exists,   \* the object exists
    thread,   \* where the job's thread is
    port,     \* where MessagingPort::connect is
    sock,     \* the port's descriptor, or what became of it
    _res      \* ConnectBG::_res

jobVars  == <<state, exists, thread>>
portVars == <<port, sock, _res>>
bgVars   == <<jobVars, portVars>>

JobTypeOK ==
    /\ state \in [Job -> {"NotStarted", "Running", "Done"}]
    /\ exists \in [Job -> BOOLEAN]
    /\ thread \in [Job -> {"none", "body", "run", "inside", "sleep", "finish", "delete"}]
    /\ port \in [Port -> {"idle", "wait", "waitAgain", "connected", "refused"}]
    /\ sock \in [Port -> {"none", "open", "closed"}]
    /\ _res \in [Port -> {"unset", "ok", "failed"}]

JobInit ==
    /\ state = [j \in Job |-> "NotStarted"]
    /\ exists = [j \in Job |-> j \in Task]
    /\ thread = [j \in Job |-> "none"]
    /\ port = [p \in Port |-> "idle"]
    /\ sock = [p \in Port |-> "none"]
    /\ _res = [p \in Port |-> "unset"]

ThreadAt(j, pos) == thread' = [thread EXCEPT ![j] = pos]

---------------------------------------------------------------------------
(* jobBody.                                                                *)

\* A new thread; the massert of jobBody lets only one through per object.
go(j) == ThreadAt(j, "body")

BodyStarts(j) ==
    /\ thread[j] = "body" /\ state[j] = "NotStarted"
    /\ state' = [state EXCEPT ![j] = "Running"]
    /\ ThreadAt(j, "run")
    /\ UNCHANGED <<exists, portVars>>

\* From here on only the JobStatus is used, unless the job deletes itself.
BodyFinishes(j) ==
    /\ thread[j] = "finish"
    /\ state' = [state EXCEPT ![j] = "Done"]
    /\ ThreadAt(j, IF j \in Task THEN "delete" ELSE "none")
    /\ UNCHANGED <<exists, portVars>>

BodyDeletes(j) ==
    /\ thread[j] = "delete"
    /\ exists' = [exists EXCEPT ![j] = FALSE]
    /\ ThreadAt(j, "none")
    /\ UNCHANGED <<state, portVars>>

Body(j) == BodyStarts(j) \/ BodyFinishes(j) \/ BodyDeletes(j)

---------------------------------------------------------------------------
(* MessagingPort::connect and its ConnectBG.                               *)

\* The port gets a socket and starts its job, or gets no socket.
connect(p) ==
    /\ port[p] \in {"idle", "refused"}
    /\ \/ /\ port' = [port EXCEPT ![p] = "wait"]
          /\ sock' = [sock EXCEPT ![p] = "open"]
          /\ _res' = [_res EXCEPT ![p] = "unset"]
          /\ exists' = [exists EXCEPT ![p] = TRUE]
          /\ state' = [state EXCEPT ![p] = "NotStarted"]
          /\ go(p)
       \/ /\ port' = [port EXCEPT ![p] = "refused"]
          /\ sock' = [sock EXCEPT ![p] = "none"]
          /\ UNCHANGED <<_res, jobVars>>

\* ::connect rejects a descriptor that is closed already.
RunConnect(p) ==
    /\ thread[p] = "run"
    /\ \/ sock[p] = "open" /\ ThreadAt(p, "inside") /\ UNCHANGED _res
       \/ /\ sock[p] # "open"
          /\ _res' = [_res EXCEPT ![p] = "failed"]
          /\ ThreadAt(p, "finish")
    /\ UNCHANGED <<state, exists, port, sock>>

\* It answers in its own time, also after the descriptor was closed.
ConnectAnswers(p) ==
    /\ thread[p] = "inside"
    /\ \E r \in {"ok", "failed"} : _res' = [_res EXCEPT ![p] = r]
    /\ ThreadAt(p, "finish")
    /\ UNCHANGED <<state, exists, port, sock>>

\* connect returns; the job on its stack goes with it.
Return(p, answer) ==
    /\ port' = [port EXCEPT ![p] = answer]
    /\ exists' = [exists EXCEPT ![p] = FALSE]

\* Mutant of WaitEnds: inError is not asked.
WaitEndsWithoutError(p) ==
    /\ port[p] = "wait" /\ state[p] = "Done"
    /\ Return(p, "connected") /\ UNCHANGED sock
    /\ UNCHANGED <<state, thread, _res>>

\* wait(5000) answers true.
WaitEnds(p) ==
    /\ port[p] = "wait" /\ state[p] = "Done"
    /\ \/ _res[p] = "ok" /\ Return(p, "connected") /\ UNCHANGED sock
       \/ /\ _res[p] # "ok"
          /\ sock' = [sock EXCEPT ![p] = "closed"]
          /\ Return(p, "refused")
    /\ UNCHANGED <<state, thread, _res>>

\* Mutant of WaitTimesOut: connect does not wait for the job once more.
WaitTimesOutAndReturns(p) ==
    /\ port[p] = "wait"
    /\ sock' = [sock EXCEPT ![p] = "closed"]
    /\ Return(p, "refused")
    /\ UNCHANGED <<state, thread, _res>>

\* wait(5000) answers false.  It does not look at the state again after the
\* time-out, so the job may be done by then.
WaitTimesOut(p) ==
    /\ port[p] = "wait"
    /\ sock' = [sock EXCEPT ![p] = "closed"]
    /\ port' = [port EXCEPT ![p] = "waitAgain"]
    /\ UNCHANGED <<jobVars, _res>>

WaitAgainEnds(p) ==
    /\ port[p] = "waitAgain" /\ state[p] = "Done"
    /\ Return(p, "refused")
    /\ UNCHANGED <<state, thread, sock, _res>>

\* MessagingPort::shutdown
shutdown(p) ==
    /\ port[p] = "connected"
    /\ port' = [port EXCEPT ![p] = "idle"]
    /\ sock' = [sock EXCEPT ![p] = "closed"]
    /\ UNCHANGED <<jobVars, _res>>

ConnectGoesOn(p) == WaitEnds(p) \/ WaitAgainEnds(p)
ConnectBGRuns(p) == RunConnect(p) \/ ConnectAnswers(p)

JobNext ==
    \/ \E j \in Job : Body(j)
    \/ \E p \in Port : connect(p) \/ ConnectBGRuns(p) \/ ConnectGoesOn(p) \/ WaitTimesOut(p) \/ shutdown(p)

\* Job threads run when they can, the kernel answers every ::connect in the
\* end, and a port whose wait is over goes on.
JobFairness ==
    /\ \A j \in Job : WF_bgVars(Body(j))
    /\ \A p \in Port : WF_bgVars(ConnectBGRuns(p)) /\ WF_bgVars(ConnectGoesOn(p))

---------------------------------------------------------------------------
(* Properties.                                                             *)

\* "BackgroundJob object must exist for as long the background thread is
\* running" (background.h): whoever owns the object, no thread uses it once it
\* is gone, also when the wait for it timed out.
ObjectOutlivesUse ==
    \A j \in Job : thread[j] \in {"body", "run", "inside", "sleep", "delete"} => exists[j]

\* The answer of connect is about the port's own descriptor, whichever of the
\* time-out and ::connect was first: true means it is open and connected, false
\* that the port has given it back (message.cpp, MessagingPort::connect).
AnswerIsAboutSocket ==
    \A p \in Port : /\ port[p] = "connected" => sock[p] = "open" /\ _res[p] = "ok"
                    /\ port[p] = "refused" => sock[p] # "open"
=============================================================================
