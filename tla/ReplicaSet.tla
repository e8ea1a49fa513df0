----------------------------- MODULE ReplicaSet -----------------------------
(***************************************************************************)
(* client/dbclient_rs.cpp: one ReplicaSetMonitor, its watcher thread, and  *)
(* client threads with a DBClientReplicaSet each.  A step is a critical    *)
(* section of _lock, an access to _master outside it, or an answer of a    *)
(* server; _checkConnection holds _checkConnectionLock from its isMaster   *)
(* command to the end of _checkStatus, and only it adds to _nodes.         *)
(*                                                                         *)
(* Members change their roles, and the set may grow, at any time, but not  *)
(* more than MaxChanges times.  A command to a member that is up succeeds. *)
(***************************************************************************)
EXTENDS Integers, SequencesExt

CONSTANTS
    Host,       \* the hosts of members and of those to be
    Seeds,      \* the hosts that ReplicaSetMonitor::get is given, in order
    Client,     \* threads that use a DBClientReplicaSet
    Watcher,    \* the thread of ReplicaSetMonitorWatcher
    MaxChanges, \* bound on the changes of roles and members
    None        \* no host, no thread

ASSUME MonitorAssumption ==
    /\ IsFiniteSet(Host) /\ Seeds \in Seq(Host) /\ Seeds # <<>>
    /\ Watcher \notin Client /\ None \notin Host \cup Client \cup {Watcher}
    /\ MaxChanges \in Nat

VARIABLES
    role,       \* each host: "primary", "secondary", "recovering" or "down"
    config,     \* the hosts that belong to the set
    changes,    \* how many changes there have been
    _nodes,     \* the addresses of the monitor's nodes
    ok,         \* the hosts whose node is flagged ok
    _master,    \* index of the current master, 0 for none (the code's -1)
    _nextSlave, \* index of the last slave given out
    cc,         \* _checkConnection under its lock: who, and what it has heard
    pc,         \* where each thread is
    i,          \* _check's loop: the node,
    retry,      \*   the round,
    quick,      \*   triedQuickCheck
    node,       \* the index a thread works with: its connection's, _find's answer
    from,       \* where _checkConnection was called
    call,       \* which getMaster of checkMaster runs
    tries,      \* slaves tried by a slaveOk query
    master,     \* each client's _masterHost and its connection's state
    slave,      \* each client's _slaveHost and its connection's state
    answered,   \* history: hosts that have said that they are master
    wild        \* history: _nodes was indexed with -1, or while it was empty

setVars    == <<role, config, changes>>
nodeVars   == <<_nodes, ok>>
checkVars  == <<i, retry, quick, node, from>>
clientVars == <<call, tries, master, slave>>
vars == <<setVars, nodeVars, _master, _nextSlave, cc, pc, checkVars, clientVars, answered, wild>>

Thread == Client \cup {Watcher}
Roles  == {"primary", "secondary", "recovering", "down"}
NoConn == [host |-> None, conn |-> "none"]
Idle   == [by |-> None, isMaster |-> FALSE, primary |-> None]

TypeOK ==
    /\ role \in [Host -> Roles] /\ config \subseteq Host /\ changes \in 0..MaxChanges
    /\ _nodes \in Seq(Host) /\ Len(_nodes) <= Cardinality(Host) /\ ok \subseteq Range(_nodes)
    /\ _master \in 0..Len(_nodes)
    /\ _nextSlave \in 1..Cardinality(Host)
    /\ cc \in [by: Thread \cup {None}, isMaster: BOOLEAN, primary: Host \cup {None}]
    /\ pc \in [Thread -> {"idle", "first", "scan", "wait", "status", "set", "got", "ask", "notify",
                          "connect", "caught", "use", "slave", "pick", "connect slave", "blame", "query"}]
    /\ i \in [Thread -> 1..(Cardinality(Host) + 1)] /\ retry \in [Thread -> 0..1]
    /\ quick \in [Thread -> BOOLEAN]
    /\ node \in [Thread -> 0..Len(_nodes)]
    /\ from \in [Thread -> {"first", "scan", "quick"}]
    /\ call \in [Client -> 1..2] /\ tries \in [Client -> 0..2]
    /\ master \in [Client -> [host: Host \cup {None}, conn: {"none", "good", "failed"}]]
    /\ slave \in [Client -> [host: Host \cup {None}, conn: {"none", "good", "failed"}]]
    /\ answered \subseteq Host /\ wild \in BOOLEAN

AtMostOnePrimary(r) == Cardinality({h \in DOMAIN r : r[h] = "primary"}) <= 1
Up(h)      == role[h] # "down"
Readable   == {h \in config : role[h] \in {"primary", "secondary"}}
_find(h)   == IF h \in Range(_nodes) THEN CHOOSE x \in DOMAIN _nodes : _nodes[x] = h ELSE 0

\* Mutant of _checkHosts: the list is not searched first.
_checkHostsAdds(nodes) == {nodes \o more : more \in SetToSeqs(config)}

\* _checkHosts: the hosts that nodes lacks are appended, in the order in which
\* the server that answers names them.
_checkHosts(nodes) == {nodes \o more : more \in SetToSeqs(config \ Range(nodes))}

\* Mutant of _checkStatus: a member that was not ok is not looked at.
_checkStatusClears(good) == ok \ (config \ ({_nodes[1]} \cup good))

\* _checkStatus: the members that the answer names, but the one at index 0.
_checkStatus(good) ==
    LET told == (Range(_nodes) \cap config) \ {_nodes[1]} IN (ok \ told) \cup (told \cap good)

---------------------------------------------------------------------------
(* ReplicaSetMonitor.                                                      *)

\* The constructor stays with the first seed that it can connect to: that one
\* names all the others.
Init ==
    /\ role \in [Host -> Roles] /\ AtMostOnePrimary(role)
    /\ config \in {c \in SUBSET Host : Range(Seeds) \subseteq c /\ \A h \in Host \ c : role[h] = "down"}
    /\ changes = 0
    /\ \/ /\ \A k \in DOMAIN Seeds : ~Up(Seeds[k])
          /\ _nodes = <<>> /\ ok = {}
       \/ \E k \in DOMAIN Seeds :
            /\ Up(Seeds[k]) /\ \A j \in 1..(k - 1) : ~Up(Seeds[j])
            /\ _nodes \in _checkHosts(<<Seeds[k]>>)
            /\ ok = config \cap ({Seeds[k]} \cup Readable)
    /\ _master = 0 /\ _nextSlave = 1
    /\ cc = Idle
    /\ pc = [t \in Thread |-> "idle"]
    /\ i = [t \in Thread |-> 1] /\ retry = [t \in Thread |-> 0] /\ quick = [t \in Thread |-> FALSE]
    /\ node = [t \in Thread |-> 0] /\ from = [t \in Thread |-> "scan"]
    /\ call = [c \in Client |-> 1] /\ tries = [c \in Client |-> 0]
    /\ master = [c \in Client |-> NoConn] /\ slave = [c \in Client |-> NoConn]
    /\ answered = {} /\ wild = FALSE

Goes(t, where) == pc' = [pc EXCEPT ![t] = where]

\* _check starts.
Scan(t) ==
    /\ Goes(t, "scan")
    /\ i' = [i EXCEPT ![t] = 1] /\ retry' = [retry EXCEPT ![t] = 0]
    /\ quick' = [quick EXCEPT ![t] = FALSE]

\* _check or check returns, to getMaster or to the watcher.  Their locals are
\* gone.
CheckReturns(t) ==
    /\ Goes(t, IF t = Watcher THEN "idle" ELSE "got")
    /\ i' = [i EXCEPT ![t] = 1] /\ retry' = [retry EXCEPT ![t] = 0]
    /\ quick' = [quick EXCEPT ![t] = FALSE]
    /\ node' = [node EXCEPT ![t] = 0] /\ from' = [from EXCEPT ![t] = "scan"]

\* check: _master is read twice, without the lock.
Check ==
    /\ pc[Watcher] = "idle"
    /\ IF _master > 0
       THEN Goes(Watcher, "first") /\ UNCHANGED <<i, retry, quick>>
       ELSE Scan(Watcher)
    /\ UNCHANGED <<setVars, nodeVars, _master, _nextSlave, cc, node, from, clientVars, answered, wild>>

CheckFirst ==
    /\ pc[Watcher] = "first"
    /\ IF _master = 0
       THEN wild' = TRUE /\ UNCHANGED <<pc, node, from>>
       ELSE /\ node' = [node EXCEPT ![Watcher] = _master]
            /\ from' = [from EXCEPT ![Watcher] = "first"]
            /\ Goes(Watcher, "wait")
            /\ UNCHANGED wild
    /\ UNCHANGED <<setVars, nodeVars, _master, _nextSlave, cc, i, retry, quick, clientVars, answered>>

\* Mutant of MoreNodes: the last node is left out.
MoreNodesShort(t) == i[t] < Len(_nodes)

MoreNodes(t) == i[t] <= Len(_nodes)

\* The head of _check's loops.
_check(t) ==
    /\ pc[t] = "scan"
    /\ \/ /\ MoreNodes(t)
          /\ node' = [node EXCEPT ![t] = i[t]]
          /\ from' = [from EXCEPT ![t] = "scan"]
          /\ Goes(t, "wait")
          /\ UNCHANGED <<i, retry, quick>>
       \/ /\ ~MoreNodes(t) /\ retry[t] = 0
          /\ retry' = [retry EXCEPT ![t] = 1] /\ i' = [i EXCEPT ![t] = 1]
          /\ UNCHANGED <<pc, quick, node, from>>
       \/ /\ ~MoreNodes(t) /\ retry[t] = 1
          /\ CheckReturns(t)
    /\ UNCHANGED <<setVars, nodeVars, _master, _nextSlave, cc, clientVars, answered, wild>>

\* What the caller of _checkConnection does with its answer.
Answer(t, isMaster, primary) ==
    \/ /\ isMaster /\ from[t] = "first"
       /\ CheckReturns(t)
    \/ /\ isMaster /\ from[t] # "first"
       /\ Goes(t, "set")
       /\ UNCHANGED <<i, retry, quick, node, from>>
    \/ /\ ~isMaster /\ from[t] = "first"
       /\ Scan(t)
       /\ UNCHANGED <<node, from>>
    \/ /\ ~isMaster /\ from[t] = "scan" /\ ~quick[t] /\ primary \in Range(_nodes)
       /\ quick' = [quick EXCEPT ![t] = TRUE]
       /\ node' = [node EXCEPT ![t] = _find(primary)]
       /\ from' = [from EXCEPT ![t] = "quick"]
       /\ Goes(t, "wait")
       /\ UNCHANGED <<i, retry>>
    \/ /\ ~isMaster /\ from[t] # "first"
       /\ ~(from[t] = "scan" /\ ~quick[t] /\ primary \in Range(_nodes))
       /\ i' = [i EXCEPT ![t] = @ + 1]
       /\ Goes(t, "scan")
       /\ UNCHANGED <<retry, quick, node, from>>

\* _checkConnection: the isMaster command and _checkHosts.
_checkConnection(t) ==
    LET h == _nodes[node[t]] IN
    /\ pc[t] = "wait" /\ cc.by = None
    /\ IF Up(h)
       THEN /\ cc' = [by |-> t, isMaster |-> role[h] = "primary",
                      primary |-> IF \E g \in Host : role[g] = "primary"
                                  THEN CHOOSE g \in Host : role[g] = "primary" ELSE None]
            /\ _nodes' \in _checkHosts(_nodes)
            /\ ok' = ok \cup (Range(_nodes') \ Range(_nodes))
            /\ answered' = IF role[h] = "primary" THEN answered \cup {h} ELSE answered
            /\ Goes(t, "status")
            /\ UNCHANGED checkVars
       ELSE /\ Answer(t, FALSE, None)
            /\ UNCHANGED <<cc, nodeVars, answered>>
    /\ UNCHANGED <<setVars, _master, _nextSlave, clientVars, wild>>

\* _checkStatus, if the member is still there, and the end of _checkConnection.
\* The flags are set one by one from the answer; here the answer sets them all.
CheckStatus(t) ==
    /\ pc[t] = "status"
    /\ ok' = IF Up(_nodes[node[t]]) THEN _checkStatus(Readable) ELSE ok
    /\ cc' = Idle
    /\ Answer(t, cc.isMaster, cc.primary)
    /\ UNCHANGED <<setVars, _nodes, _master, _nextSlave, clientVars, answered, wild>>

\* Mutant of SetMaster: the loop's node, also when another one was asked.
SetMasterI(t) ==
    /\ pc[t] = "set"
    /\ _master' = i[t]
    /\ CheckReturns(t)
    /\ UNCHANGED <<setVars, nodeVars, _nextSlave, cc, clientVars, answered, wild>>

\* _check writes _master, without the lock.
SetMaster(t) ==
    /\ pc[t] = "set"
    /\ _master' = node[t]
    /\ CheckReturns(t)
    /\ UNCHANGED <<setVars, nodeVars, _nextSlave, cc, clientVars, answered, wild>>

notifyFailure(h) ==
    IF _master > 0 /\ _nodes[_master] = h
    THEN ok' = ok \ {h} /\ _master' = 0
    ELSE UNCHANGED <<ok, _master>>

---------------------------------------------------------------------------
(* DBClientReplicaSet.                                                     *)

rsVars == <<setVars, _nodes, cc, i, retry, quick, from, answered>>

\* checkMaster throws; connect, if that was the caller, notifies the monitor.
Throws(c) == Goes(c, "idle") \/ (master[c].conn # "none" /\ Goes(c, "caught"))

\* checkMaster goes on with what getMaster returned.
Got(c, h) ==
    \/ /\ call[c] = 1 /\ h = master[c].host /\ master[c].conn # "none"
       /\ Goes(c, IF master[c].conn = "good" THEN "use" ELSE "notify")
       /\ UNCHANGED <<call, master>>
    \/ /\ call[c] = 1 /\ ~(h = master[c].host /\ master[c].conn # "none")
       /\ Goes(c, "ask")
       /\ call' = [call EXCEPT ![c] = 2]
       /\ UNCHANGED master
    \/ /\ call[c] = 2
       /\ Goes(c, "connect")
       /\ master' = [master EXCEPT ![c].host = h]
       /\ call' = [call EXCEPT ![c] = 1]

\* An operation starts: on the master, or a query with SlaveOk.
Operation(c) ==
    /\ pc[c] = "idle"
    /\ \E where \in {"ask", "slave"} : Goes(c, where)
    /\ UNCHANGED <<rsVars, ok, _master, _nextSlave, node, clientVars, wild>>

\* getMaster: the master is known and ok, or _check looks for one.
getMaster(c) ==
    /\ pc[c] = "ask"
    /\ IF _master > 0 /\ _nodes[_master] \in ok
       THEN Got(c, _nodes[_master]) /\ UNCHANGED <<i, retry, quick>>
       ELSE Scan(c) /\ UNCHANGED <<call, master>>
    /\ UNCHANGED <<setVars, nodeVars, _master, _nextSlave, cc, node, from, tries, slave, answered, wild>>

\* getMaster after _check, whatever became of _master since.
getMasterChecked(c) ==
    /\ pc[c] = "got"
    /\ IF _master > 0
       THEN Got(c, _nodes[_master])
       ELSE Throws(c) /\ call' = [call EXCEPT ![c] = 1] /\ UNCHANGED master
    /\ UNCHANGED <<rsVars, ok, _master, _nextSlave, node, tries, slave, wild>>

\* checkMaster found its connection failed.
MasterFailed(c) ==
    /\ pc[c] = "notify"
    /\ notifyFailure(master[c].host)
    /\ Goes(c, "ask") /\ call' = [call EXCEPT ![c] = 2]
    /\ UNCHANGED <<rsVars, _nextSlave, node, tries, master, slave, wild>>

\* checkMaster's new connection.
ConnectMaster(c) ==
    /\ pc[c] = "connect"
    /\ IF Up(master[c].host)
       THEN /\ master' = [master EXCEPT ![c].conn = "good"]
            /\ Goes(c, "use")
            /\ UNCHANGED <<ok, _master>>
       ELSE /\ master' = [master EXCEPT ![c].conn = "failed"]
            /\ notifyFailure(master[c].host)
            /\ Goes(c, "idle") \/ Goes(c, "caught")
    /\ UNCHANGED <<rsVars, _nextSlave, node, call, tries, slave, wild>>

\* connect catches what checkMaster threw.
ConnectCatches(c) ==
    /\ pc[c] = "caught"
    /\ notifyFailure(master[c].host)
    /\ Goes(c, "idle")
    /\ UNCHANGED <<rsVars, _nextSlave, node, call, tries, master, slave, wild>>

\* An answer with "not master" in its error, whoever gave it.
isntMaster(c) ==
    /\ notifyFailure(master[c].host)
    /\ master' = [master EXCEPT ![c].conn = "none"]

\* The operation on the master's connection.
Use(c) ==
    /\ pc[c] = "use"
    /\ Goes(c, "idle")
    /\ LET r == role[master[c].host] IN
       \/ r = "primary" /\ UNCHANGED <<ok, _master, master>>
       \/ r = "down" /\ master' = [master EXCEPT ![c].conn = "failed"] /\ UNCHANGED <<ok, _master>>
       \/ r \in {"secondary", "recovering"} /\ isntMaster(c)
    /\ UNCHANGED <<rsVars, _nextSlave, node, call, tries, slave, wild>>

NextTry(c) == Goes(c, "slave") /\ tries' = [tries EXCEPT ![c] = @ + 1]

\* checkSlave goes on with what getSlave returned.
GotSlave(c, h) ==
    IF h # slave[c].host \/ slave[c].conn = "none" THEN Goes(c, "connect slave")
    ELSE Goes(c, IF slave[c].conn = "good" THEN "query" ELSE "blame")

\* getSlave(prev): the last slave again, if it is ok.
getSlavePrev(c) ==
    /\ pc[c] = "slave"
    /\ \/ /\ tries[c] = 2
          /\ Goes(c, "ask") /\ tries' = [tries EXCEPT ![c] = 0]
       \/ /\ tries[c] < 2
          /\ IF slave[c].host \in ok THEN GotSlave(c, slave[c].host) ELSE Goes(c, "pick")
          /\ UNCHANGED tries
    /\ UNCHANGED <<rsVars, ok, _master, _nextSlave, node, call, master, slave, wild>>

\* getSlave: the next one that is ok and not the master, or the first node.
Ring(k)  == ((_nextSlave - 1 + k) % Len(_nodes)) + 1
Slaves   == {k \in DOMAIN _nodes : Ring(k) # _master /\ _nodes[Ring(k)] \in ok}
getSlave == IF Slaves = {} THEN _nodes[1] ELSE _nodes[Ring(Min(Slaves))]

\* Mutant of getSlaveNext: the index does not wrap around.
getSlaveNextUnwrapped ==
    IF _nodes = <<>>
    THEN wild' = TRUE /\ UNCHANGED _nextSlave
    ELSE /\ _nextSlave' = IF Slaves = {} THEN _nextSlave ELSE _nextSlave + Min(Slaves)
         /\ UNCHANGED wild

getSlaveNext ==
    IF _nodes = <<>>
    THEN wild' = TRUE /\ UNCHANGED _nextSlave
    ELSE /\ _nextSlave' = IF Slaves = {} THEN _nextSlave ELSE Ring(Min(Slaves))
         /\ UNCHANGED wild

\* The first getSlave of checkSlave.
PickSlave(c) ==
    /\ pc[c] = "pick"
    /\ getSlaveNext
    /\ IF wild' THEN UNCHANGED pc ELSE GotSlave(c, getSlave)
    /\ UNCHANGED <<rsVars, ok, _master, node, clientVars>>

\* The second one, whose answer is connected to.
ConnectSlave(c) ==
    /\ pc[c] = "connect slave"
    /\ getSlaveNext
    /\ IF wild'
       THEN UNCHANGED <<pc, tries, slave>>
       ELSE \/ /\ Up(getSlave)
               /\ slave' = [slave EXCEPT ![c] = [host |-> getSlave, conn |-> "good"]]
               /\ Goes(c, "query")
               /\ UNCHANGED tries
            \/ /\ ~Up(getSlave)
               /\ slave' = [slave EXCEPT ![c] = [host |-> getSlave, conn |-> "failed"]]
               /\ NextTry(c)
    /\ UNCHANGED <<rsVars, ok, _master, node, call, master>>

\* notifySlaveFailure.  The index that _find returns in a critical section of its
\* own still means the same host in the next one: NodesKeepTheirPlace.
notifySlaveFailure(c) ==
    /\ pc[c] = "blame"
    /\ ok' = ok \ {slave[c].host}
    /\ IF slave[c].conn = "none" THEN NextTry(c) ELSE Goes(c, "connect slave") /\ UNCHANGED tries
    /\ UNCHANGED <<rsVars, _master, _nextSlave, node, call, master, slave, wild>>

\* The query on the slave.  A member that recovers answers "not master or
\* secondary": checkResponse calls isntMaster, checkSlaveQueryResult isntSecondary.
Query(c) ==
    /\ pc[c] = "query"
    /\ LET r == role[slave[c].host] IN
       \/ /\ r \in {"primary", "secondary"}
          /\ Goes(c, "idle") /\ tries' = [tries EXCEPT ![c] = 0]
          /\ UNCHANGED <<ok, _master, master, slave>>
       \/ /\ r = "down"
          /\ slave' = [slave EXCEPT ![c].conn = "failed"]
          /\ NextTry(c)
          /\ UNCHANGED <<ok, _master, master>>
       \/ /\ r = "recovering"
          /\ isntMaster(c)
          /\ slave' = [slave EXCEPT ![c].conn = "none"]
          /\ Goes(c, "blame")
          /\ UNCHANGED tries
    /\ UNCHANGED <<rsVars, _nextSlave, node, call, wild>>

---------------------------------------------------------------------------
(* The replica set.                                                        *)

\* Members fail, come back, and elect another primary between two of the steps.
ChangeRoles ==
    /\ changes < MaxChanges /\ changes' = changes + 1
    /\ \E r \in [config -> Roles] :
         /\ AtMostOnePrimary(r)
         /\ role' = [h \in Host |-> IF h \in config THEN r[h] ELSE role[h]]
    /\ UNCHANGED <<config, nodeVars, _master, _nextSlave, cc, pc, checkVars, clientVars, answered, wild>>

AddMember(h) ==
    /\ changes < MaxChanges /\ changes' = changes + 1
    /\ h \notin config
    /\ config' = config \cup {h} /\ role' = [role EXCEPT ![h] = "secondary"]
    /\ UNCHANGED <<nodeVars, _master, _nextSlave, cc, pc, checkVars, clientVars, answered, wild>>

Checking(t) ==
    \/ _check(t) \/ _checkConnection(t) \/ CheckStatus(t) \/ SetMaster(t)

MasterStep(c) ==
    \/ getMaster(c) \/ getMasterChecked(c) \/ MasterFailed(c)
    \/ ConnectMaster(c) \/ ConnectCatches(c) \/ Use(c)

SlaveStep(c) ==
    \/ getSlavePrev(c) \/ PickSlave(c) \/ ConnectSlave(c)
    \/ notifySlaveFailure(c) \/ Query(c)

\* What follows a wild access is not modelled.
Next ==
    \/ /\ ~wild
       /\ \/ Check \/ CheckFirst \/ Checking(Watcher)
          \/ \E c \in Client : Operation(c) \/ Checking(c) \/ MasterStep(c) \/ SlaveStep(c)
          \/ ChangeRoles \/ \E h \in Host : AddMember(h)
    \/ wild /\ UNCHANGED vars

\* The watcher runs as long as the process, and no operation stops half-way.
Fairness ==
    /\ WF_vars(~wild /\ (Check \/ CheckFirst \/ Checking(Watcher)))
    /\ \A c \in Client : WF_vars(~wild /\ (Checking(c) \/ MasterStep(c) \/ SlaveStep(c)))

Spec == Init /\ [][Next]_vars /\ Fairness

---------------------------------------------------------------------------
(* Properties.                                                             *)

\* A node is added once and stays where it is: an index that notifySlaveFailure
\* or _check found in one critical section of _lock means the same host in the
\* next one (dbclient_rs.cpp:247, :366).
NodesKeepTheirPlace ==
    [][IsPrefix(_nodes, _nodes') /\ Cardinality(Range(_nodes')) = Len(_nodes')]_vars

\* The monitor never takes a host for the master that has not said so itself,
\* whatever others say about it and whichever loop of _check asked.
MasterHadAnswered == _master > 0 => _nodes[_master] \in answered

\* A member that stays primary, while some node the monitor knows is up, is the
\* monitor's master again and again, however often clients give it up.
MasterFoundAgain ==
    \A h \in Host : <>[](role[h] = "primary" /\ \E k \in DOMAIN _nodes : Up(_nodes[k]))
                    => []<>(wild \/ (_master > 0 /\ _nodes[_master] = h))

\* A member that stays readable while there is a master, is flagged ok again
\* after a failure, unless it is the first of the list.
OkAgain ==
    \A h \in Host : <>[](h \in Readable /\ \E g \in Host : role[g] = "primary"
                         /\ \E k \in DOMAIN _nodes : Up(_nodes[k]))
                    => []<>(wild \/ h \in ok \/ _find(h) = 1)
=============================================================================
