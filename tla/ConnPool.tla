----------------------------- MODULE ConnPool ------------------------------
(***************************************************************************)
(* client/connpool.cpp and connpool.h: threads construct scoped            *)
(* connections, which take a connection from the pool of their host or     *)
(* make one, and give it back, close it or hand it over when they end.     *)
(* What happens under DBConnectionPool::_mutex is one step; connecting and *)
(* the hooks run without it.                                               *)
(***************************************************************************)
EXTENDS Integers, Sequences, FiniteSets, SequencesExt

CONSTANTS
    Scoped,      \* ScopedDbConnection objects
    Host,        \* server names
    PoolOf,      \* the place in _pools of each name, by serverNameCompare
    Conn,        \* addresses of connection objects
    NoConn,      \* the null pointer
    NoHost,      \* the scoped connection was not constructed
    _maxPerHost, \* how many idle connections a pool keeps
    MaxIdle,     \* the hour after which an idle connection is not reused
    MaxCreated,  \* bound on the connections made per pool
    Faults       \* a subset of {"connect", "socket", "hook"}

Pool == {PoolOf[h] : h \in Host}

ASSUME PoolAssumption ==
    /\ _maxPerHost \in Nat /\ MaxIdle \in Nat /\ MaxCreated \in Nat
    /\ NoConn \notin Conn /\ NoHost \notin Host
    /\ PoolOf \in [Host -> Nat]

VARIABLES
    _pool,     \* per pool the stack of stored connections, the top first
    _created,  \* per pool the number of connections made
    open,      \* addresses that are allocated: new and not yet deleted
    failed,    \* connections whose isFailed() is true
    dirty,     \* connections with a reply that was not read to its end
    pc,        \* where each scoped connection is
    _host,     \* its host
    _conn,     \* its connection
    lost       \* history: connections whose last pointer an exception dropped

poolVars   == <<_pool, _created>>
connVars   == <<open, failed, dirty>>
scopedVars == <<pc, _host, _conn>>
vars       == <<poolVars, connVars, scopedVars, lost>>

Stored == [conn: Conn, idle: 0..MaxIdle]

TypeOK ==
    /\ _pool \in [Pool -> Seq(Stored)]
    /\ _created \in [Pool -> 0..MaxCreated]
    /\ open \subseteq Conn /\ failed \subseteq open /\ dirty \subseteq open
    /\ pc \in [Scoped -> {"none", "connect", "finishCreate", "hooks", "live"}]
    /\ _host \in [Scoped -> Host \cup {NoHost}]
    /\ _conn \in [Scoped -> Conn \cup {NoConn}]
    /\ lost \subseteq open

Init ==
    /\ _pool = [p \in Pool |-> <<>>]
    /\ _created = [p \in Pool |-> 0]
    /\ open = {} /\ failed = {} /\ dirty = {}
    /\ pc = [s \in Scoped |-> "none"]
    /\ _host = [s \in Scoped |-> NoHost]
    /\ _conn = [s \in Scoped |-> NoConn]
    /\ lost = {}

---------------------------------------------------------------------------
(* Helpers.                                                                *)

Goes(s, where, h, c) ==
    /\ pc' = [pc EXCEPT ![s] = where]
    /\ _host' = [_host EXCEPT ![s] = h]
    /\ _conn' = [_conn EXCEPT ![s] = c]

Conns(stack) == {stack[i].conn : i \in DOMAIN stack}

\* Mutant of Delete: the flags of a deleted connection stay behind.
DeleteKeepsFlags(cs) == open' = open \ cs /\ UNCHANGED <<failed, dirty>>

\* delete: the socket is closed and the address may be used again.
Delete(cs) == open' = open \ cs /\ failed' = failed \ cs /\ dirty' = dirty \ cs

\* StoredConnection::ok
ok(sc) == sc.idle < MaxIdle

\* The first stored connection from the top that PoolForHost::get may return,
\* or one past the bottom.
Usable(stack) ==
    IF \E i \in DOMAIN stack : ok(stack[i])
      THEN CHOOSE i \in DOMAIN stack : ok(stack[i]) /\ \A j \in 1..(i - 1) : ~ok(stack[j])
      ELSE Len(stack) + 1

---------------------------------------------------------------------------
(* DBConnectionPool::get, in a ScopedDbConnection constructor.             *)

\* _get: stored connections that were idle for too long are deleted on the way.
get(s, h) ==
    LET stack == _pool[PoolOf[h]]  i == Usable(stack) IN
    /\ pc[s] = "none"
    /\ Delete(Conns(SubSeq(stack, 1, i - 1)))
    /\ _pool' = [_pool EXCEPT ![PoolOf[h]] = SubSeq(stack, i + 1, Len(stack))]
    /\ IF i <= Len(stack) THEN Goes(s, "hooks", h, stack[i].conn)
                          ELSE Goes(s, "connect", h, NoConn)
    /\ UNCHANGED <<_created, lost>>

\* connect, without the mutex.
Connect(s) ==
    /\ pc[s] = "connect"
    /\ \/ \E c \in Conn \ open :
            /\ open' = open \cup {c}
            /\ Goes(s, "finishCreate", _host[s], c)
            /\ UNCHANGED <<failed, dirty>>
       \/ /\ "connect" \in Faults
          /\ Goes(s, "none", NoHost, NoConn)
          /\ UNCHANGED connVars
    /\ UNCHANGED <<poolVars, lost>>

_finishCreate(s) ==
    /\ pc[s] = "finishCreate"
    /\ _created[PoolOf[_host[s]]] < MaxCreated
    /\ _created' = [_created EXCEPT ![PoolOf[_host[s]]] = @ + 1]
    /\ Goes(s, "hooks", _host[s], _conn[s])
    /\ UNCHANGED <<_pool, connVars, lost>>

\* onCreate and onHandedOut run every hook; a hook that throws ends the
\* constructor, and only a raw pointer knew the connection.
RunHooks(s) ==
    /\ pc[s] = "hooks"
    /\ \/ Goes(s, "live", _host[s], _conn[s]) /\ UNCHANGED lost
       \/ /\ "hook" \in Faults
          /\ Goes(s, "none", NoHost, NoConn)
          /\ lost' = lost \cup {_conn[s]}
    /\ UNCHANGED <<poolVars, connVars>>

---------------------------------------------------------------------------
(* A live scoped connection.                                               *)

\* The owner sends a request; the reply may be read to the end, read in part,
\* or the socket fails.
Use(s) ==
    /\ pc[s] = "live" /\ _conn[s] # NoConn
    /\ \/ dirty' = dirty \ {_conn[s]} /\ UNCHANGED failed
       \/ dirty' = dirty \cup {_conn[s]} /\ UNCHANGED failed
       \/ "socket" \in Faults /\ failed' = failed \cup {_conn[s]} /\ UNCHANGED dirty
    /\ UNCHANGED <<poolVars, open, scopedVars, lost>>

\* Mutant of PoolDone: a connection for which there is no room is forgotten.
PoolDoneForgets(p, c) ==
    /\ _pool' = IF Len(_pool[p]) >= _maxPerHost THEN _pool
                ELSE [_pool EXCEPT ![p] = <<[conn |-> c, idle |-> 0]>> \o @]
    /\ UNCHANGED connVars

\* PoolForHost::done: on top of the stack if there is room, deleted otherwise.
PoolDone(p, c) ==
    \/ /\ Len(_pool[p]) >= _maxPerHost
       /\ Delete({c})
       /\ UNCHANGED _pool
    \/ /\ Len(_pool[p]) < _maxPerHost
       /\ _pool' = [_pool EXCEPT ![p] = <<[conn |-> c, idle |-> 0]>> \o @]
       /\ UNCHANGED connVars

\* DBConnectionPool::release
release(h, c) ==
    IF c \in failed THEN Delete({c}) /\ UNCHANGED _pool ELSE PoolDone(PoolOf[h], c)

\* Mutant of done: the pointer is not cleared.
doneKeepsConn(s) ==
    /\ pc[s] = "live" /\ _conn[s] \notin dirty
    /\ IF _conn[s] = NoConn THEN UNCHANGED <<_pool, connVars>> ELSE release(_host[s], _conn[s])
    /\ UNCHANGED <<_created, scopedVars, lost>>

\* done(): callers read their replies first.
done(s) ==
    /\ pc[s] = "live" /\ _conn[s] \notin dirty
    /\ IF _conn[s] = NoConn THEN UNCHANGED <<_pool, connVars>> ELSE release(_host[s], _conn[s])
    /\ Goes(s, "live", _host[s], NoConn)
    /\ UNCHANGED <<_created, lost>>

kill(s) ==
    /\ pc[s] = "live"
    /\ Delete({_conn[s]})
    /\ Goes(s, "live", _host[s], NoConn)
    /\ UNCHANGED <<poolVars, lost>>

\* Mutant of Destroy: the destructor gives the connection back.
DestroyReleases(s) ==
    /\ pc[s] = "live"
    /\ IF _conn[s] = NoConn THEN UNCHANGED <<_pool, connVars>> ELSE release(_host[s], _conn[s])
    /\ Goes(s, "none", NoHost, NoConn)
    /\ UNCHANGED <<_created, lost>>

\* The object goes out of scope, after done() or because of an exception; a
\* connection it still has is killed.
Destroy(s) ==
    /\ pc[s] = "live"
    /\ Delete({_conn[s]})
    /\ Goes(s, "none", NoHost, NoConn)
    /\ UNCHANGED <<poolVars, lost>>

\* steal() moves the connection to a new object.
steal(s, n) ==
    /\ pc[s] = "live" /\ _conn[s] # NoConn /\ pc[n] = "none"
    /\ pc' = [pc EXCEPT ![n] = "live"]
    /\ _host' = [_host EXCEPT ![n] = _host[s]]
    /\ _conn' = [_conn EXCEPT ![n] = _conn[s], ![s] = NoConn]
    /\ UNCHANGED <<poolVars, connVars, lost>>

---------------------------------------------------------------------------
(* The pool itself.                                                        *)

\* Under the mutex, for one pool after the other: every connection is taken
\* off the stack and asked isMaster, then all are pushed in the order they came
\* off.
flush ==
    /\ _pool' = [p \in Pool |-> Reverse(_pool[p])]
    /\ UNCHANGED <<_created, connVars, scopedVars, lost>>

\* The i-th isMaster of pool p throws: what was taken off p's stack by then is
\* not put back, and later pools are not reached.
FlushThrows(p) ==
    /\ "socket" \in Faults
    /\ \E i \in DOMAIN _pool[p] :
         /\ failed' = failed \cup {_pool[p][i].conn}
         /\ lost' = lost \cup Conns(SubSeq(_pool[p], 1, i))
         /\ _pool' = [q \in Pool |-> IF q < p THEN Reverse(_pool[q])
                                    ELSE IF q = p THEN SubSeq(_pool[p], i + 1, Len(_pool[p]))
                                    ELSE _pool[q]]
    /\ UNCHANGED <<_created, open, dirty, scopedVars>>

\* Time passes for the idle connections.
Tick ==
    /\ _pool' = [p \in Pool |-> [i \in DOMAIN _pool[p] |->
                    [_pool[p][i] EXCEPT !.idle = IF @ < MaxIdle THEN @ + 1 ELSE @]]]
    /\ UNCHANGED <<_created, connVars, scopedVars, lost>>

Next ==
    \/ \E s \in Scoped :
         \/ \E h \in Host : get(s, h)
         \/ Connect(s) \/ _finishCreate(s) \/ RunHooks(s)
         \/ Use(s) \/ done(s) \/ kill(s) \/ Destroy(s)
         \/ \E n \in Scoped : steal(s, n)
    \/ flush
    \/ \E p \in Pool : FlushThrows(p)
    \/ Tick

Spec == Init /\ [][Next]_vars

---------------------------------------------------------------------------
(* Properties.                                                             *)

Held(c) == {s \in Scoped : _conn[s] = c}
Places(c) == {at \in Pool \X (1.._maxPerHost) : /\ at[2] <= Len(_pool[at[1]])
                                                 /\ _pool[at[1]][at[2]].conn = c}

\* A connection has one user: it is never handed out twice, nor both handed
\* out and available, nor available twice, and it is not used once deleted.
OneUser ==
    /\ \A c \in Conn : Cardinality(Held(c)) + Cardinality(Places(c)) <= 1
    /\ \A c \in Conn \ open : Held(c) = {} /\ Places(c) = {}

\* "we can't be sure we fully read all expected data of a reply on the socket.
\* so we don't try to reuse the connection in that situation" (connpool.h): a
\* connection that is available, or was just handed out, carries no old reply
\* and did not fail; a server whose connection is handed out was counted.
NoOldReplies ==
    /\ \A p \in Pool : /\ Conns(_pool[p]) \cap (dirty \cup failed) = {}
                       /\ Len(_pool[p]) <= _maxPerHost
    /\ \A s \in Scoped : pc[s] = "hooks" => /\ _conn[s] \in open \ (dirty \cup failed)
                                            /\ _created[PoolOf[_host[s]]] > 0

\* "On exceptions things clean up nicely (i.e. the socket gets closed
\* automatically when the scopeddbconnection goes out of scope)" (connpool.h):
\* every open connection is available or somebody's, except for what a throwing
\* hook or the isMaster of flush made the pool itself forget.
NoneLeaked ==
    \A c \in open : Held(c) # {} \/ Places(c) # {} \/ c \in lost
=============================================================================
