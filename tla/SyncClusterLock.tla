-------------------------- MODULE SyncClusterLock --------------------------
(***************************************************************************)
(* client/distlock.cpp over a SyncClusterConnection: the lock's document   *)
(* is kept on several config servers and a write goes to all of them.  A   *)
(* write is a round: prepare asks every server for an fsync, the request   *)
(* is sent to each server without waiting, and _checkLast collects the     *)
(* answers.  Each server executes a request some time before its answer is *)
(* collected, so the servers may execute one round in any order.           *)
(*                                                                         *)
(* DistributedLock models the pings and the forced take-over; here every   *)
(* holder pings in time, so a document that is found taken ends lock_try.  *)
(* Faults may contain "server", when servers fail and come back, and       *)
(* "clock", when a later OID may be smaller than an earlier one.           *)
(***************************************************************************)
EXTENDS Integers, FiniteSets, FiniteSetsExt

CONSTANTS
    Thread,   \* threads that use the lock
    Servers,  \* _conns.size(): the servers are 1..Servers
    MaxTs,    \* bound on the OIDs generated
    Faults    \* a subset of {"server", "clock"}

ASSUME ClusterAssumption == Servers \in Nat \ {0, 1} /\ MaxTs \in Nat

VARIABLES
    doc,        \* each server's copy of the lock's document
    up,         \* servers that answer
    used,       \* OIDs generated so far
    pc,         \* where each thread is
    op,         \* the write a thread's round is about
    todo,       \* servers that have not executed the round's request
    n,          \* the "n" of each server's getlasterror
    wantTs,     \* the "ts" lock_try put in its query, 0 for none
    ts,         \* the OID of a thread's last attempt
    now,        \* lock_try's now["ts"]
    next,       \* the next server whose document the handler reads
    attempted,  \* failed attempts of unlock
    robbed,     \* history: threads whose taken document somebody else overwrote
    unsettled   \* history: an insert or unlock began, and the lock has not been Quiet since

tryVars   == <<wantTs, ts, now, next>>
roundVars == <<op, todo, n>>
vars      == <<doc, up, used, pc, roundVars, tryVars, attempted, robbed, unsettled>>

Server      == 1..Servers
maxAttempts == 3
NoDoc       == [there |-> FALSE, state |-> 0, ts |-> 0]
Ops         == {"insert", "acquire", "propagate", "unlock"}

TypeOK ==
    /\ doc \in [Server -> [there: BOOLEAN, state: {0, 1}, ts: 0..MaxTs]]
    /\ up \subseteq Server /\ used \subseteq 1..MaxTs
    /\ pc \in [Thread -> {"idle", "prepare", "send", "read", "held", "unlock"}]
    /\ op \in [Thread -> Ops]
    /\ todo \in [Thread -> SUBSET Server] /\ n \in [Thread -> [Server -> {0, 1}]]
    /\ wantTs \in [Thread -> 0..MaxTs] /\ ts \in [Thread -> 0..MaxTs]
    /\ now \in [Thread -> 0..MaxTs] /\ next \in [Thread -> 1..(Servers + 1)]
    /\ attempted \in [Thread -> 0..maxAttempts]
    /\ robbed \subseteq Thread /\ unsettled \in BOOLEAN

Init ==
    /\ \E there \in BOOLEAN :
         /\ doc = [s \in Server |-> [NoDoc EXCEPT !.there = there]]
         /\ unsettled = ~there
    /\ up = Server /\ used = {}
    /\ pc = [t \in Thread |-> "idle"]
    /\ op = [t \in Thread |-> "insert"]
    /\ todo = [t \in Thread |-> {}]
    /\ n = [t \in Thread |-> [s \in Server |-> 0]]
    /\ wantTs = [t \in Thread |-> 0] /\ ts = [t \in Thread |-> 0]
    /\ now = [t \in Thread |-> 0] /\ next = [t \in Thread |-> 1]
    /\ attempted = [t \in Thread |-> 0]
    /\ robbed = {}

Owner(t) == pc[t] = "held"

\* Nobody is using the lock and all servers agree that it is free.
Quiet ==
    /\ \A t \in Thread : pc[t] = "idle"
    /\ \A s \in Server : doc[s].there /\ doc[s].state = 0 /\ doc[s].ts = doc[1].ts

Goes(t, where) == pc' = [pc EXCEPT ![t] = where]

---------------------------------------------------------------------------
(* SyncClusterConnection.                                                  *)

\* The function that sent the write ends with an exception.  lock_try only
\* catches the UserException of insert and goes on; unlock tries again.
Throws(t, user) ==
    /\ \/ /\ op[t] = "insert" /\ user
          /\ Goes(t, "prepare") /\ op' = [op EXCEPT ![t] = "acquire"]
          /\ UNCHANGED attempted
       \/ /\ op[t] # "unlock" /\ (op[t] = "insert" => ~user)
          /\ Goes(t, "idle")
          /\ UNCHANGED <<op, attempted>>
       \/ /\ op[t] = "unlock"
          /\ attempted' = [attempted EXCEPT ![t] = @ + 1]
          /\ Goes(t, IF attempted[t] + 1 < maxAttempts THEN "unlock" ELSE "idle")
          /\ UNCHANGED op
    /\ todo' = [todo EXCEPT ![t] = {}]

\* A new OID; without skewed clocks it is larger than the earlier ones.
FreshTs(v) ==
    /\ v \in 1..MaxTs \ used
    /\ "clock" \in Faults \/ \A u \in used : u < v

\* prepare: all servers are asked to fsync before the write is sent to any.
\* lock_try generates its OID before the acquiring update.
prepare(t) ==
    /\ pc[t] = "prepare"
    /\ IF op[t] = "acquire"
       THEN \E v \in 1..MaxTs :
              /\ FreshTs(v)
              /\ ts' = [ts EXCEPT ![t] = v]
              /\ used' = used \cup {v}
              /\ robbed' = robbed \ {t}
       ELSE UNCHANGED <<ts, used, robbed>>
    /\ \/ /\ up = Server
          /\ Goes(t, "send")
          /\ todo' = [todo EXCEPT ![t] = Server]
          /\ UNCHANGED <<op, attempted>>
       \/ up # Server /\ Throws(t, TRUE)
    /\ UNCHANGED <<doc, up, n, wantTs, now, next, unsettled>>

\* Mutant of Matches: the query leaves out the state.
MatchesAnyState(t, d) ==
    /\ d.there
    /\ op[t] = "acquire" => wantTs[t] = 0 \/ d.ts = wantTs[t]

\* Whether a server's document matches the query of the write.
Matches(t, d) ==
    /\ d.there
    /\ op[t] = "acquire" => d.state = 0 /\ (wantTs[t] = 0 \/ d.ts = wantTs[t])

Written(t, d) ==
    CASE op[t] = "insert" -> IF d.there THEN d ELSE [NoDoc EXCEPT !.there = TRUE]
      [] op[t] = "unlock" -> [d EXCEPT !.state = 0]
      [] OTHER            -> [d EXCEPT !.state = 1, !.ts = ts[t]]

\* A server executes the request.
Execute(t, s) ==
    LET changes == op[t] = "insert" \/ Matches(t, doc[s]) IN
    /\ pc[t] = "send" /\ s \in todo[t] /\ s \in up
    /\ doc' = [doc EXCEPT ![s] = IF changes THEN Written(t, @) ELSE @]
    /\ n' = [n EXCEPT ![t][s] = IF changes THEN 1 ELSE 0]
    /\ todo' = [todo EXCEPT ![t] = @ \ {s}]
    /\ robbed' = robbed \cup
         {u \in Thread \ {t} : op[t] \in {"unlock", "propagate"} /\ doc[s].state = 1 /\ doc[s].ts = ts[u]}
    /\ UNCHANGED <<up, used, pc, op, tryVars, attempted, unsettled>>

\* The request cannot be sent to a server that is down: those before it have
\* executed theirs, those behind it are not sent one.
SendFails(t) ==
    /\ pc[t] = "send" /\ up # Server
    /\ \A s \in Server : s \in todo[t] <=> s >= Min(Server \ up)
    /\ Throws(t, FALSE)
    /\ UNCHANGED <<doc, up, used, n, tryVars, robbed, unsettled>>

\* _checkLast: the getlasterror of a server that is down fails.
CheckLastFails(t) ==
    /\ pc[t] = "send" /\ up # Server
    /\ todo[t] \cap up = {}
    /\ Throws(t, TRUE)
    /\ UNCHANGED <<doc, up, used, n, tryVars, robbed, unsettled>>

Same(t) == \A s \in Server : n[t][s] = n[t][1]

\* _checkLast found every answer good; update compares their "n".  A findOne
\* follows in lock_try and in unlock, which throws when all servers are down.
CheckLast(t) ==
    /\ pc[t] = "send" /\ todo[t] = {}
    /\ \/ /\ op[t] = "insert"
          /\ Goes(t, "prepare") /\ op' = [op EXCEPT ![t] = "acquire"]
          /\ UNCHANGED attempted
       \/ /\ op[t] = "acquire" /\ Same(t) /\ up # {}
          /\ Goes(t, IF n[t][1] = 0 THEN "idle" ELSE "held")
          /\ UNCHANGED <<op, attempted>>
       \/ /\ op[t] = "acquire" /\ ~Same(t)
          /\ Goes(t, "read")
          /\ UNCHANGED <<op, attempted>>
       \/ /\ op[t] = "propagate" /\ Same(t)
          /\ Goes(t, "held")
          /\ UNCHANGED <<op, attempted>>
       \/ /\ op[t] = "unlock" /\ Same(t) /\ up # {}
          /\ Goes(t, "idle")
          /\ UNCHANGED <<op, attempted>>
       \/ /\ \/ op[t] = "propagate" /\ ~Same(t)
             \/ op[t] = "acquire" /\ Same(t) /\ up = {}
             \/ op[t] = "unlock" /\ ~(Same(t) /\ up # {})
          /\ Throws(t, TRUE)
    /\ UNCHANGED <<doc, up, used, todo, n, tryVars, robbed>>
    /\ unsettled' = (unsettled /\ ~Quiet')

\* _queryOnActive: the first server that answers.
Active == Min(up)

---------------------------------------------------------------------------
(* DistributedLock.                                                        *)

\* lock_try: find the document, insert it if it is missing, and remember its ts
\* if it is free.
FindLock(t) ==
    /\ pc[t] = "idle" /\ up # {} /\ \E v \in 1..MaxTs : FreshTs(v)
    /\ LET d == doc[Active] IN
       /\ d.state = 0
       /\ Goes(t, "prepare")
       /\ op' = [op EXCEPT ![t] = IF d.there THEN "acquire" ELSE "insert"]
       /\ wantTs' = [wantTs EXCEPT ![t] = d.ts]
    /\ UNCHANGED <<doc, up, used, todo, n, ts, now, next, attempted, robbed, unsettled>>

\* lock_try returns false: the holder's ping is recent.
FindTaken(t) ==
    /\ pc[t] = "idle" /\ up # {} /\ doc[Active].state = 1
    /\ UNCHANGED vars

\* The handler of UpdateNotTheSame reads every server's document and keeps the
\* largest ts.
ReadBack(t) ==
    /\ pc[t] = "read" /\ next[t] <= Servers
    /\ \/ /\ next[t] \in up
          /\ now' = [now EXCEPT ![t] = IF next[t] = 1 \/ @ < doc[next[t]].ts THEN doc[next[t]].ts ELSE @]
          /\ next' = [next EXCEPT ![t] = @ + 1]
          /\ UNCHANGED pc
       \/ /\ next[t] \notin up
          /\ Goes(t, "idle")
          /\ next' = [next EXCEPT ![t] = 1]
          /\ UNCHANGED now
    /\ UNCHANGED <<doc, up, used, roundVars, wantTs, ts, attempted, robbed, unsettled>>

\* Mutant of Propagate: it does not compare the largest ts with its own.
PropagateUnasked(t) ==
    /\ pc[t] = "read" /\ next[t] > Servers
    /\ next' = [next EXCEPT ![t] = 1]
    /\ Goes(t, "prepare") /\ op' = [op EXCEPT ![t] = "propagate"]
    /\ UNCHANGED <<doc, up, used, todo, n, wantTs, ts, now, attempted, robbed, unsettled>>

\* Its own ts is the largest: it writes the document everywhere, whatever it
\* is by then.
Propagate(t) ==
    /\ pc[t] = "read" /\ next[t] > Servers
    /\ next' = [next EXCEPT ![t] = 1]
    /\ IF now[t] = ts[t]
       THEN Goes(t, "prepare") /\ op' = [op EXCEPT ![t] = "propagate"]
       ELSE Goes(t, "idle") /\ UNCHANGED op
    /\ UNCHANGED <<doc, up, used, todo, n, wantTs, ts, now, attempted, robbed, unsettled>>

\* Mutant of unlock: the attempts of the last call are not forgotten.
unlockKeepsCount(t) ==
    /\ pc[t] \in {"held", "unlock"}
    /\ Goes(t, "prepare")
    /\ op' = [op EXCEPT ![t] = "unlock"]
    /\ unsettled' = TRUE
    /\ UNCHANGED <<doc, up, used, todo, n, tryVars, attempted, robbed>>

unlock(t) ==
    /\ pc[t] \in {"held", "unlock"}
    /\ Goes(t, "prepare")
    /\ op' = [op EXCEPT ![t] = "unlock"]
    /\ attempted' = [attempted EXCEPT ![t] = IF pc[t] = "held" THEN 0 ELSE @]
    /\ unsettled' = TRUE
    /\ UNCHANGED <<doc, up, used, todo, n, tryVars, robbed>>

ServerFails(s) ==
    /\ "server" \in Faults
    /\ up' = IF s \in up THEN up \ {s} ELSE up \cup {s}
    /\ UNCHANGED <<doc, used, pc, roundVars, tryVars, attempted, robbed, unsettled>>

\* All OIDs of the bound are used up.
Done ==
    /\ ~\E v \in 1..MaxTs : FreshTs(v)
    /\ \A t \in Thread : pc[t] = "idle" \/ <<pc[t], op[t]>> = <<"prepare", "acquire">>
    /\ UNCHANGED vars

Next ==
    \/ \E t \in Thread :
         \/ FindLock(t) \/ FindTaken(t) \/ prepare(t) \/ SendFails(t) \/ CheckLastFails(t) \/ CheckLast(t)
         \/ ReadBack(t) \/ Propagate(t) \/ unlock(t)
         \/ \E s \in Server : Execute(t, s)
    \/ \E s \in Server : ServerFails(s)
    \/ Done

Spec == Init /\ [][Next]_vars

---------------------------------------------------------------------------
(* Properties.                                                             *)

MutualExclusion == \A t, u \in Thread : Owner(t) /\ Owner(u) => t = u

\* However the servers order the updates of competing threads, whoever of them
\* sees what when it reads back, and whatever fails, a contest for a lock that
\* was free everywhere has at most one winner: the ts that the handler of
\* UpdateNotTheSame compares decide it (distlock.cpp:279-303).
ContestHasOneWinner == unsettled \/ MutualExclusion

\* An owner whose document no unlock and no propagation of another thread
\* overwrote is named by all servers: no acquiring update takes the lock away on
\* any of them, and update reports success only when all have it.
OwnerIsNamedEverywhere ==
    \A t \in Thread \ robbed : Owner(t) => \A s \in Server : doc[s].state = 1 /\ doc[s].ts = ts[t]
=============================================================================
