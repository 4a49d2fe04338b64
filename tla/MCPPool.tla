------------------------------ MODULE MCPPool ------------------------------
(***************************************************************************)
(* The pool of connections to MCP servers (internal/mcp/pool.go).  Tool    *)
(* calls of several executions and the handlers of mcp.* share one         *)
(* connection per server.  The pool's mutex covers each look at its maps   *)
(* but not the dialing between two looks, during which a server may be     *)
(* removed, dialed by someone else, reaped or shut down.                   *)
(***************************************************************************)
EXTENDS Naturals, FiniteSets

CONSTANTS
  Servers,    \* names of MCP servers, all of type http
  Callers,    \* goroutines that use the pool
  MaxConns    \* bound: how many clients are dialed

ASSUME ConstantsAssumption == MaxConns \in Nat

NoConn == 0
Conns  == 1 .. MaxConns

VARIABLES
  servers,       \* the names that are configured
  connections,   \* server -> its pooled client
  client,        \* each client object: not made, alive, closed
  caller,        \* goroutines: the next step, the operation, its server and client
  done           \* is the pool's context cancelled?

vars == <<servers, connections, client, caller, done>>

Caller == [pc: {"idle", "alive", "connect", "dial", "store", "reread", "use", "disconnect"},
           op: {"call", "discover", "test"},
           srv: Servers, conn: Conns \cup {NoConn}]

Types ==
  /\ servers \subseteq Servers
  /\ connections \in [Servers -> Conns \cup {NoConn}]
  /\ client \in [Conns -> {"none", "alive", "closed"}]
  /\ caller \in [Callers -> Caller]
  /\ done \in BOOLEAN

At(c, pc)   == caller[c].pc = pc
Goto(c, pc) == caller' = [caller EXCEPT ![c].pc = pc]
Server(c)   == caller[c].srv

\* No goroutine asks, calls or stores nil: what it holds is a client.
Dialed == \A c \in Callers : At(c, "alive") \/ At(c, "use") \/ At(c, "store") => caller[c].conn \in Conns

TypeOK == Types /\ Dialed

\* NewManager loads the configuration and connects to nothing.
Init ==
  /\ servers \in SUBSET Servers
  /\ connections = [s \in Servers |-> NoConn]
  /\ client = [n \in Conns |-> "none"]
  /\ caller \in [Callers -> [pc: {"idle"}, op: {"call"}, srv: Servers, conn: {NoConn}]]
  /\ done = FALSE

Pooled == {connections[s] : s \in Servers} \ {NoConn}

\* Close the clients of these servers and forget their entries.
CloseEntries(S) ==
  /\ client' = [n \in Conns |-> IF \E s \in S : connections[s] = n THEN "closed" ELSE client[n]]
  /\ connections' = [s \in Servers |-> IF s \in S THEN NoConn ELSE connections[s]]

-----------------------------------------------------------------------------
(* Callers; the mutants of an action stand before it *)

CallLookup_Configured(c, s) ==
  /\ At(c, "idle")
  /\ caller' = [caller EXCEPT ![c] =
       [pc |-> IF s \in servers THEN "alive" ELSE "connect",
        op |-> "call", srv |-> s, conn |-> connections[s]]]
  /\ UNCHANGED <<servers, connections, client, done>>

\* Call looks its server up, and asks the client it found whether it is alive
\* when it no longer holds the lock.
CallLookup(c, s) ==
  /\ At(c, "idle")
  /\ caller' = [caller EXCEPT ![c] =
       [pc |-> IF connections[s] = NoConn THEN "connect" ELSE "alive",
        op |-> "call", srv |-> s, conn |-> connections[s]]]
  /\ UNCHANGED <<servers, connections, client, done>>

CallAlive(c) ==
  /\ At(c, "alive")
  /\ Goto(c, IF client[caller[c].conn] = "alive" THEN "use" ELSE "connect")
  /\ UNCHANGED <<servers, connections, client, done>>

\* DiscoverTools and TestConnection connect first.
Begin(c, op, s) ==
  /\ At(c, "idle")
  /\ caller' = [caller EXCEPT ![c] = [pc |-> "connect", op |-> op, srv |-> s, conn |-> NoConn]]
  /\ UNCHANGED <<servers, connections, client, done>>

\* What follows Connect in each of its callers.
Connected(c) == IF caller[c].op = "test" THEN "disconnect" ELSE "reread"

\* Connect under the lock: an error, a pooled client that lives, or a dial.
Connect(c) ==
  /\ At(c, "connect")
  /\ Goto(c, IF Server(c) \notin servers THEN "idle"
             ELSE IF \E n \in Pooled : connections[Server(c)] = n /\ client[n] = "alive"
                  THEN Connected(c) ELSE "dial")
  /\ UNCHANGED <<servers, connections, client, done>>

\* Credentials, client and handshake, without the lock: a client whose handshake
\* fails was never alive.
DialFails(c) ==
  /\ At(c, "dial")
  /\ Goto(c, "idle")
  /\ UNCHANGED <<servers, connections, client, done>>

Dial(c) ==
  /\ At(c, "dial")
  /\ \E n \in Conns :
       /\ client[n] = "none" /\ \A m \in 1 .. n - 1 : client[m] # "none"
       /\ client' = [client EXCEPT ![n] = "alive"]
       /\ caller' = [caller EXCEPT ![c].pc = "store", ![c].conn = n]
  /\ UNCHANGED <<servers, connections, done>>

Store_KeepOld(c) ==
  /\ At(c, "store")
  /\ connections' = [connections EXCEPT ![Server(c)] = caller[c].conn]
  /\ Goto(c, Connected(c))
  /\ UNCHANGED <<servers, client, done>>

\* The client another caller stored meanwhile is closed and replaced.  Whether
\* the server is still configured, or the pool shut down, is not looked at again.
Store(c) ==
  /\ At(c, "store")
  /\ client' = [n \in Conns |-> IF connections[Server(c)] = n THEN "closed" ELSE client[n]]
  /\ connections' = [connections EXCEPT ![Server(c)] = caller[c].conn]
  /\ Goto(c, Connected(c))
  /\ UNCHANGED <<servers, done>>

\* Call and DiscoverTools look the client up again; when it is gone by now they
\* dereference nil, and the panic is the end of them.
Reread(c) ==
  /\ At(c, "reread")
  /\ caller' = [caller EXCEPT
       ![c].pc = IF connections[Server(c)] = NoConn THEN "idle" ELSE "use",
       ![c].conn = connections[Server(c)]]
  /\ UNCHANGED <<servers, connections, client, done>>

\* tools/call or tools/list, answered or not: an http client that was closed
\* meanwhile sends its request all the same.
Use(c) ==
  /\ At(c, "use")
  /\ Goto(c, "idle")
  /\ UNCHANGED <<servers, connections, client, done>>

Disconnect_Own(c) ==
  /\ At(c, "disconnect")
  /\ client' = [n \in Conns |-> IF n = caller[c].conn THEN "closed" ELSE client[n]]
  /\ connections' = [connections EXCEPT ![Server(c)] = NoConn]
  /\ Goto(c, "idle")
  /\ UNCHANGED <<servers, done>>

\* TestConnection disconnects whatever is pooled by now, used by others or not.
Disconnect(c) ==
  /\ At(c, "disconnect")
  /\ CloseEntries({Server(c)})
  /\ Goto(c, "idle")
  /\ UNCHANGED <<servers, done>>

-----------------------------------------------------------------------------
(* Configuration, reaping, shutdown: each in one critical section *)

AddServer(s) ==
  /\ servers' = servers \cup {s}
  /\ UNCHANGED <<connections, client, caller, done>>

RemoveServer_NotDeleted(s) ==
  /\ servers' = servers \ {s}
  /\ client' = [n \in Conns |-> IF connections[s] = n THEN "closed" ELSE client[n]]
  /\ UNCHANGED <<connections, caller, done>>

\* mcp.server.remove of any name; a name that is not configured may have a client,
\* dialed when it was removed.
RemoveServer(s) ==
  /\ servers' = servers \ {s}
  /\ CloseEntries({s})
  /\ UNCHANGED <<caller, done>>

\* A tick of the reap loop closes the clients that were not used for their ttl;
\* time is not modelled, so it may be any of them, in use or not.
Reap_Replaced(S) ==
  /\ ~done
  /\ \E s \in S : s \in servers /\ connections[s] # NoConn
  /\ CloseEntries(S \cap servers)
  /\ UNCHANGED <<servers, caller, done>>

Reap(S) ==
  /\ ~done
  /\ \E s \in S : connections[s] # NoConn
  /\ CloseEntries(S)
  /\ UNCHANGED <<servers, caller, done>>

CloseAll ==
  /\ ~done
  /\ done' = TRUE
  /\ CloseEntries(Servers)
  /\ UNCHANGED <<servers, caller>>

-----------------------------------------------------------------------------

Start(c) ==
  \/ \E s \in Servers : CallLookup(c, s)
  \/ \E s \in Servers, op \in {"discover", "test"} : Begin(c, op, s)

Proceed(c) ==
  \/ CallAlive(c)
  \/ Connect(c)
  \/ DialFails(c)
  \/ Dial(c)
  \/ Store(c)
  \/ Reread(c)
  \/ Use(c)
  \/ Disconnect(c)

Next ==
  \/ \E c \in Callers : Start(c) \/ Proceed(c)
  \/ \E s \in Servers : AddServer(s) \/ RemoveServer(s)
  \/ \E S \in SUBSET Servers : Reap(S)
  \/ CloseAll

Spec == Init /\ [][Next]_vars

Quiet == \A c \in Callers : At(c, "idle")

\* Goroutines are scheduled and a request over http ends in 30 seconds; when no one
\* uses the pool everything in it grows older than its ttl before some tick.
Fairness ==
  /\ \A c \in Callers : WF_vars(Proceed(c))
  /\ WF_vars(Quiet /\ Reap(Servers))

FairSpec == Spec /\ Fairness

-----------------------------------------------------------------------------
(* Properties *)

\* A client that is alive is in the pool, or in the hands of the goroutine that
\* has just dialed it: two dials of one server, or a disconnect, a removal or a
\* reaping during a dial, leave no client behind that nobody can close
\* (pool.go:137-147).
NoLeak ==
  \A n \in Conns : client[n] = "alive" =>
    n \in Pooled \/ \E c \in Callers : At(c, "store") /\ caller[c].conn = n

\* What is pooled lives and serves one server; a client being stored is not
\* pooled yet and has one owner.  So the "dead connection" Call reconnects is
\* always one that was taken out of the pool after it was looked up.
PooledAlive ==
  /\ \A s \in Servers : connections[s] # NoConn =>
       /\ client[connections[s]] = "alive"
       /\ \A t \in Servers : connections[t] = connections[s] => t = s
  /\ \A c \in Callers : At(c, "store") =>
       /\ client[caller[c].conn] = "alive"
       /\ caller[c].conn \notin Pooled
       /\ \A d \in Callers : At(d, "store") /\ caller[d].conn = caller[c].conn => d = c

\* Who has each client: its dialer, the pool, nobody any more.
held   == {caller[c].conn : c \in {d \in Callers : At(d, "store")}}
pool   == [s \in Servers |-> {connections[s]} \ {NoConn}]
closed == {n \in Conns : client[n] = "closed"}

Life == INSTANCE ClientLife WITH Clients <- Conns

\* A client is handed to the pool once, for one server, and closed in the same
\* critical section in which it leaves the pool, by a later dial, a disconnect, a
\* removal, the reap loop or the shutdown; never by anyone while its dialer has it, and
\* it never comes back (pool.go:87, :137-147, :193, :204, :235).
FollowsLife == Life!Spec

\* When the callers fall silent every client is closed in the end, those of
\* servers removed during a dial too, unless the reap loop was stopped before.
QuietPoolDrains ==
  <>[]Quiet => <>[]((\A n \in Conns : client[n] # "alive") \/ done)
=============================================================================
