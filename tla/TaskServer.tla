----------------------------- MODULE TaskServer -----------------------------
(***************************************************************************)
(* Tasks and the message server (mongo/util/concurrency/task.cpp, msg.h),  *)
(* on top of BackgroundJob.  A Task runs doWork once or again and again,   *)
(* and deletes itself; a Server is a Task whose doWork takes messages off  *)
(* a deque for ever.  Clients send messages, or call and wait for the      *)
(* answer with a mutex and a condition of the call's own Ret.              *)
(***************************************************************************)
EXTENDS BackgroundJob, Sequences, SequencesExt

CONSTANTS
    Server,     \* the task that is a Server
    Msg,        \* messages, each with its client
    Called,     \* those sent with call
    Requeuing,  \* those that may call requeue() when they run
    Throwing,   \* those that may throw when they run
    NoMsg,
    MaxQueue,   \* bound on the deque, for the clients
    MaxStrays   \* bound on the requeue() calls that an exception follows

ASSUME ServerAssumption ==
    /\ Server \in Task /\ MaxQueue \in Nat /\ MaxStrays \in Nat /\ NoMsg \notin Msg
    /\ Called \subseteq Msg /\ Requeuing \subseteq Msg /\ Throwing \subseteq Msg

VARIABLES
    repeat,      \* Task::repeat is not 0
    inShutdown,  \* the program shuts down
    d,           \* Server::d
    rq,          \* Server::rq
    serving,     \* where Server::doWork is
    f,           \* the message it runs
    client,      \* where each message's client is
    done,        \* Ret::done
    owed,        \* history: runs each message was sent for, or asked for and
                 \* did not throw, less those it had
    strays,      \* history: how often a message threw after requeue()
    requeued     \* history: the called messages that were queued again

taskVars   == <<repeat, inShutdown>>
serverVars == <<d, rq, serving, f>>
histVars   == <<owed, strays, requeued>>
clientVars == <<client, done, histVars>>
vars       == <<bgVars, taskVars, serverVars, clientVars>>

TypeOK ==
    /\ JobTypeOK
    /\ repeat \in [Task -> BOOLEAN] /\ inShutdown \in BOOLEAN
    /\ d \in Seq(Msg) /\ Len(d) <= MaxQueue + 1
    /\ rq \in BOOLEAN
    /\ serving \in {"loop", "exec", "done", "notify", "requeue"}
    /\ f \in Msg \cup {NoMsg} /\ (f = NoMsg <=> serving = "loop")
    /\ client \in [Msg -> {"idle", "test", "enter", "wait"}]
    /\ done \in [Msg -> BOOLEAN]
    /\ owed \in [Msg -> -MaxStrays..MaxQueue + 1]
    /\ strays \in 0..MaxStrays /\ requeued \subseteq Called

Init ==
    /\ JobInit
    /\ repeat = [t \in Task |-> FALSE] /\ inShutdown = FALSE
    /\ d = <<>> /\ rq = FALSE /\ serving = "loop" /\ f = NoMsg
    /\ client = [m \in Msg |-> "idle"]
    /\ done = [m \in Msg |-> FALSE]
    /\ owed = [m \in Msg |-> 0] /\ strays = 0 /\ requeued = {}

---------------------------------------------------------------------------
(* Task.                                                                   *)

\* fork(t), and repeat(t, millis) for tasks that do return.
Begin(t) ==
    /\ thread[t] = "none" /\ state[t] = "NotStarted" /\ exists[t]
    /\ \E again \in IF t = Server THEN {FALSE} ELSE BOOLEAN : repeat' = [repeat EXCEPT ![t] = again]
    /\ go(t)
    /\ UNCHANGED <<state, exists, portVars, inShutdown, serverVars, clientVars>>

\* "can be called by other threads as long as the Task is still in scope"
halt(t) ==
    /\ exists[t] /\ repeat[t]
    /\ repeat' = [repeat EXCEPT ![t] = FALSE]
    /\ UNCHANGED <<bgVars, inShutdown, serverVars, clientVars>>

\* doWork returned or threw, and repeat is looked at.
WorkEnds(t) ==
    /\ t # Server /\ thread[t] = "run"
    /\ ThreadAt(t, IF repeat[t] THEN "sleep" ELSE "finish")
    /\ UNCHANGED <<state, exists, portVars, taskVars, serverVars, clientVars>>

\* After the sleep only the shutdown is looked at: a task that was halted in
\* its sleep works once more.
TaskWakes(t) ==
    /\ thread[t] = "sleep"
    /\ ThreadAt(t, IF inShutdown THEN "finish" ELSE "run")
    /\ UNCHANGED <<state, exists, portVars, taskVars, serverVars, clientVars>>

ShutDown ==
    /\ ~inShutdown /\ inShutdown' = TRUE
    /\ UNCHANGED <<bgVars, repeat, serverVars, clientVars>>

---------------------------------------------------------------------------
(* Clients.                                                                *)

Push(m) ==
    /\ Len(d) < MaxQueue
    /\ d' = Append(d, m)
    /\ owed' = [owed EXCEPT ![m] = @ + 1]
    /\ UNCHANGED <<rq, serving, f, strays, requeued>>

\* The server is the only thread that waits for messages, and it tests the
\* deque and waits under the mutex of the deque: notify_one never goes amiss.
send(m) ==
    /\ m \notin Called /\ exists[Server]
    /\ Push(m)
    /\ UNCHANGED <<bgVars, taskVars, client, done>>

call(m) ==
    /\ m \in Called /\ client[m] = "idle" /\ exists[Server]
    /\ Push(m)
    /\ done' = [done EXCEPT ![m] = FALSE]
    /\ client' = [client EXCEPT ![m] = "test"]
    /\ UNCHANGED <<bgVars, taskVars>>

ClientAt(m, from, to) ==
    /\ client[m] = from
    /\ client' = [client EXCEPT ![m] = to]
    /\ UNCHANGED <<bgVars, taskVars, serverVars, done, histVars>>

\* Mutant of CallTests: an if, not a while, around the wait.
CallTestsOnce(m) ==
    \/ done[m] /\ ClientAt(m, "test", "idle")
    \/ ~done[m] /\ ClientAt(m, "test", "enter")
    \/ ClientAt(m, "wait", "idle")

\* The caller holds Ret::m from the test of done until it waits, which does not
\* keep Ret::f out.
CallTests(m) ==
    \/ done[m] /\ ClientAt(m, "test", "idle")
    \/ ~done[m] /\ ClientAt(m, "test", "enter")

CallWaits(m) == ClientAt(m, "enter", "wait")

\* A condition variable may wake a thread without a notification.
SpuriousWakeup(m) == ClientAt(m, "wait", "test")

---------------------------------------------------------------------------
(* Server::doWork.                                                         *)

\* Mutant of ServeAt: the message is kept after its turn.
ServeAtKeepsMessage(pos) == serving' = pos /\ UNCHANGED f

ServeAt(pos) == serving' = pos /\ f' = IF pos = "loop" THEN NoMsg ELSE f

\* Mutant of TakeMessage: the last one that came is taken first.
TakeLastMessage ==
    /\ thread[Server] = "run" /\ serving = "loop" /\ d # <<>>
    /\ f' = Last(d) /\ d' = Front(d) /\ serving' = "exec"
    /\ UNCHANGED <<bgVars, taskVars, rq, clientVars>>

TakeMessage ==
    /\ thread[Server] = "run" /\ serving = "loop" /\ d # <<>>
    /\ f' = Head(d) /\ d' = Tail(d) /\ serving' = "exec"
    /\ UNCHANGED <<bgVars, taskVars, rq, clientVars>>

\* The message in hand is a call's, and the call, with its Ret, is over.
RetIsGone == f \in Called /\ client[f] = "idle"

\* f() returns; what requeue() was called since the last reset, by this message
\* or by one that threw, now counts for this one.
RunEnds(asks) ==
    /\ rq' = (rq \/ asks)
    /\ owed' = IF asks THEN owed ELSE [owed EXCEPT ![f] = @ - 1]
    /\ requeued' = IF rq' THEN requeued \cup ({f} \cap Called) ELSE requeued
    /\ ServeAt(IF f \in Called THEN "done" ELSE "requeue")
    /\ UNCHANGED strays

\* f() throws, and the handlers leave rq as it is.
RunThrows(asks) ==
    /\ f \in Throwing \/ RetIsGone
    /\ asks => strays < MaxStrays
    /\ rq' = (rq \/ asks)
    /\ owed' = [owed EXCEPT ![f] = @ - 1]
    /\ strays' = IF asks THEN strays + 1 ELSE strays
    /\ ServeAt("loop")
    /\ UNCHANGED requeued

\* A called message runs inside Ret::f.  When its Ret is gone, what is left of
\* it in memory may still run as before, or throw.
ExecMessage ==
    /\ serving = "exec"
    /\ \E asks \in BOOLEAN : (asks => f \in Requeuing) /\ (RunEnds(asks) \/ RunThrows(asks))
    /\ UNCHANGED <<bgVars, taskVars, d, client, done>>

\* Ret::f sets done without Ret::m.
SetDone ==
    /\ serving = "done"
    /\ done' = [done EXCEPT ![f] = TRUE]
    /\ ServeAt("notify")
    /\ UNCHANGED <<bgVars, taskVars, d, rq, client, histVars>>

\* notify_one finds the caller waiting, or is lost.
NotifyCaller ==
    /\ serving = "notify"
    /\ client' = [client EXCEPT ![f] = IF @ = "wait" THEN "test" ELSE @]
    /\ ServeAt("requeue")
    /\ UNCHANGED <<bgVars, taskVars, d, rq, done, histVars>>

\* Mutant of Requeue: rq is not reset.
RequeueWithoutReset ==
    /\ serving = "requeue"
    /\ d' = IF rq THEN Append(d, f) ELSE d
    /\ ServeAt("loop")
    /\ UNCHANGED <<bgVars, taskVars, rq, clientVars>>

Requeue ==
    /\ serving = "requeue"
    /\ d' = IF rq THEN Append(d, f) ELSE d
    /\ rq' = FALSE
    /\ ServeAt("loop")
    /\ UNCHANGED <<bgVars, taskVars, clientVars>>

ServerStep == TakeMessage \/ ExecMessage \/ SetDone \/ NotifyCaller \/ Requeue

Next ==
    \/ JobNext /\ UNCHANGED <<taskVars, serverVars, clientVars>>
    \/ \E t \in Task : Begin(t) \/ halt(t) \/ WorkEnds(t) \/ TaskWakes(t)
    \/ ShutDown
    \/ \E m \in Msg : send(m) \/ call(m) \/ CallTests(m) \/ CallWaits(m) \/ SpuriousWakeup(m)
    \/ ServerStep

Spec == Init /\ [][Next]_vars

\* Threads that can run do; doWork, messages and sleeps end.
Fairness ==
    /\ JobFairness
    /\ \A t \in Task : WF_vars(WorkEnds(t)) /\ WF_vars(TaskWakes(t))
    /\ \A m \in Called : WF_vars(CallTests(m)) /\ WF_vars(CallWaits(m))
    /\ WF_vars(ServerStep)

FairSpec == Spec /\ Fairness

---------------------------------------------------------------------------
(* Properties.                                                             *)

Queued(m) == Cardinality({i \in DOMAIN d : d[i] = m})
InHand(m) == IF f = m /\ (serving = "exec" \/ rq) THEN 1 ELSE 0

\* The runs a message gets that it was not sent for and did not ask for itself.
Extra(m) == Queued(m) + InHand(m) - owed[m]

\* No message is dropped, and none runs more often than it was sent and asked
\* for requeue(), but for what doWork's handlers leave in rq: each exception after
\* a requeue() gives a message one run too many at most, a called one too.  And
\* "send message but block until function completes" (msg.h), for the calls that
\* do return: whatever woke it, a call returns after its message ran, unless an
\* earlier call's message was queued again and runs with the same Ret.
RanAsAsked ==
    /\ \A m \in Msg : Extra(m) \in 0..strays
    /\ \A m \in Called \ requeued : client[m] = "idle" => owed[m] = 0

\* Nobody is forgotten: connect returns although its job's ::connect outlasts
\* the time-out, a halted task ends and is deleted, and whatever is in the
\* deque of a running server runs, while others are sent, requeued and throw.
EveryoneIsServed ==
    /\ \A p \in Port : port[p] = "waitAgain" ~> port[p] = "refused"
    /\ \A t \in Task \ {Server} : (thread[t] = "sleep" /\ ~repeat[t]) ~> ~exists[t]
    /\ \A m \in Msg : (thread[Server] = "run" /\ Queued(m) > 0) ~> f = m
=============================================================================
