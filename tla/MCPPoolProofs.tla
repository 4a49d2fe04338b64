--------------------------- MODULE MCPPoolProofs ---------------------------
(***************************************************************************)
(* Proofs about MCPPool, for any number of servers, callers and dials.     *)
(***************************************************************************)
EXTENDS MCPPool, TLAPS

\* The invariant the four properties make up is inductive as it stands.
IInv == Types /\ Dialed /\ NoLeak /\ PooledAlive

-----------------------------------------------------------------------------

\* No client is numbered as the absent one is.
LEMMA ConnsFacts == NoConn \notin Conns
BY ConstantsAssumption DEF NoConn, Conns

\* Initially no client was made.
LEMMA InitIInv == Init => IInv
<1> SUFFICES ASSUME Init PROVE IInv
  OBVIOUS
<1>1. Types
  BY DEF Init, Types, Caller
<1>2. \A c \in Callers : ~At(c, "store") /\ ~At(c, "alive") /\ ~At(c, "use")
  BY DEF Init, At
<1>3. Dialed /\ NoLeak /\ PooledAlive
  BY <1>2 DEF Init, Dialed, NoLeak, PooledAlive
<1> QED
  BY <1>1, <1>3 DEF IInv

-----------------------------------------------------------------------------
(* Four kinds of step: aside, dial, store and close *)

\* A goroutine goes on, and neither the pool nor a dialed client is concerned.
LEMMA AsideStep ==
  ASSUME IInv, NEW c \in Callers, NEW new \in Caller,
         new.pc # "store", caller[c].pc # "store", new.pc \in {"alive", "use"} => new.conn \in Conns,
         caller' = [caller EXCEPT ![c] = new],
         UNCHANGED <<connections, client>>, servers' \subseteq Servers, done' \in BOOLEAN
  PROVE  IInv'
<1>1. caller' \in [Callers -> Caller] /\ caller'[c] = new
  BY DEF IInv, Types
<1>2. \A d \in Callers : /\ At(d, "store")' <=> At(d, "store")
                         /\ At(d, "store") => caller'[d] = caller[d]
  BY <1>1 DEF IInv, Types, At
<1>3. Types'
  BY <1>1 DEF IInv, Types
<1>4. Dialed'
  <2>1. \A d \in Callers \ {c} : caller'[d] = caller[d]
    BY DEF IInv, Types
  <2> QED
    BY <1>1, <2>1 DEF IInv, Dialed, At
<1>5. Pooled' = Pooled
  BY DEF Pooled
<1>6. NoLeak'
  BY <1>2, <1>5 DEF IInv, NoLeak
<1>7. PooledAlive'
  BY <1>2, <1>5 DEF IInv, PooledAlive
<1> QED
  BY <1>3, <1>4, <1>6, <1>7 DEF IInv

\* The steps of a goroutine that only move it.
LEMMA MoveStep ==
  ASSUME IInv, NEW c \in Callers, NEW pc \in {"idle", "alive", "connect", "dial", "reread", "use", "disconnect"},
         caller[c].pc # "store", pc \in {"alive", "use"} => caller[c].conn \in Conns,
         Goto(c, pc), UNCHANGED <<servers, connections, client, done>>
  PROVE  IInv'
<1> DEFINE new == [caller[c] EXCEPT !.pc = pc]
<1>1. caller[c] \in Caller
  BY DEF IInv, Types
<1>2. new \in Caller /\ new.pc # "store" /\ (new.pc \in {"alive", "use"} => new.conn \in Conns)
  BY <1>1 DEF Caller
<1>3. caller' = [caller EXCEPT ![c] = new]
  BY DEF Goto
<1>4. servers' \subseteq Servers /\ done' \in BOOLEAN
  BY DEF IInv, Types
<1> HIDE DEF new
<1> QED
  BY <1>2, <1>3, <1>4, AsideStep

\* A client that was just dialed is alive, in one pair of hands and not pooled.
LEMMA DialStep ==
  ASSUME IInv, NEW c \in Callers, Dial(c)
  PROVE  IInv'
<1>1. PICK n \in Conns : /\ client[n] = "none"
                         /\ client' = [client EXCEPT ![n] = "alive"]
                         /\ caller' = [caller EXCEPT ![c].pc = "store", ![c].conn = n]
  BY DEF Dial
<1>2. /\ client \in [Conns -> {"none", "alive", "closed"}]
      /\ caller \in [Callers -> Caller]
      /\ connections \in [Servers -> Conns \cup {NoConn}]
      /\ UNCHANGED <<servers, connections, done>>
  BY DEF IInv, Types, Dial
<1>3. /\ caller'[c] \in Caller /\ caller'[c].pc = "store" /\ caller'[c].conn = n
      /\ \A d \in Callers \ {c} : caller'[d] = caller[d]
  BY <1>1, <1>2 DEF Caller
<1>4. Types'
  BY <1>1, <1>2, <1>3 DEF IInv, Types
<1>5. Dialed'
  BY <1>3 DEF IInv, Dialed, At
<1>6. n \notin Pooled /\ Pooled' = Pooled
  BY <1>1, <1>2 DEF IInv, PooledAlive, Pooled
<1>7. \A d \in Callers : At(d, "store") => caller[d].conn # n
  BY <1>1 DEF IInv, PooledAlive
<1>8. ~At(c, "store")
  BY DEF Dial, At
<1>9. NoLeak'
  <2> SUFFICES ASSUME NEW m \in Conns, client'[m] = "alive"
               PROVE  m \in Pooled' \/ \E d \in Callers : At(d, "store")' /\ caller'[d].conn = m
    BY DEF NoLeak
  <2>1. CASE m = n
    BY <1>3, <2>1 DEF At
  <2>2. CASE m # n
    BY <1>1, <1>2, <1>3, <1>6, <1>8, <2>2 DEF IInv, NoLeak, At
  <2> QED
    BY <2>1, <2>2
<1>10. PooledAlive'
  <2>1. \A s \in Servers : connections'[s] # NoConn =>
          /\ client'[connections'[s]] = "alive"
          /\ \A t \in Servers : connections'[t] = connections'[s] => t = s
    BY <1>1, <1>2 DEF IInv, PooledAlive
  <2>2. ASSUME NEW d \in Callers, At(d, "store")'
        PROVE  /\ client'[caller'[d].conn] = "alive"
               /\ caller'[d].conn \notin Pooled'
               /\ \A e \in Callers : At(e, "store")' /\ caller'[e].conn = caller'[d].conn => e = d
    <3>1. CASE d = c
      BY <1>1, <1>2, <1>3, <1>6, <1>7, <3>1 DEF At
    <3>2. CASE d # c
      <4>1. At(d, "store") /\ caller'[d] = caller[d] /\ caller[d].conn \in Conns
        BY <1>3, <2>2, <3>2 DEF At, IInv, Dialed
      <4>2. client[caller[d].conn] = "alive" /\ caller[d].conn \notin Pooled
        BY <4>1 DEF IInv, PooledAlive
      <4>3. \A e \in Callers : At(e, "store") /\ caller[e].conn = caller[d].conn => e = d
        BY <4>1 DEF IInv, PooledAlive
      <4> QED
        BY <1>1, <1>2, <1>3, <1>6, <1>7, <4>1, <4>2, <4>3 DEF At
    <3> QED
      BY <3>1, <3>2
  <2> QED
    BY <2>1, <2>2 DEF PooledAlive
<1> QED
  BY <1>4, <1>5, <1>9, <1>10 DEF IInv

\* Storing closes the client it replaces, and hands over the one it stores.
LEMMA StoreStep ==
  ASSUME IInv, NEW c \in Callers, Store(c)
  PROVE  IInv'
<1> DEFINE s == Server(c)
           n == caller[c].conn
<1>1. /\ client \in [Conns -> {"none", "alive", "closed"}]
      /\ caller \in [Callers -> Caller]
      /\ connections \in [Servers -> Conns \cup {NoConn}]
      /\ s \in Servers /\ n \in Conns /\ At(c, "store")
      /\ UNCHANGED <<servers, done>>
  BY DEF IInv, Types, Store, Server, Caller, Dialed
<1>2. /\ client' = [m \in Conns |-> IF connections[s] = m THEN "closed" ELSE client[m]]
      /\ connections' = [connections EXCEPT ![s] = n]
  BY DEF Store
<1>3. /\ caller'[c] \in Caller /\ caller'[c].pc \in {"disconnect", "reread"}
      /\ \A d \in Callers \ {c} : caller'[d] = caller[d]
      /\ caller' \in [Callers -> Caller]
  BY <1>1 DEF Store, Goto, Connected, Caller
<1>4. client[n] = "alive" /\ n \notin Pooled
      /\ \A d \in Callers : At(d, "store") /\ caller[d].conn = n => d = c
  BY <1>1 DEF IInv, PooledAlive
<1>5. connections[s] # n
  BY <1>1, <1>4, ConnsFacts DEF Pooled
<1>6. Types'
  BY <1>1, <1>2, <1>3 DEF IInv, Types
<1>7. Dialed'
  BY <1>3 DEF IInv, Dialed, At
<1>8. connections'[s] = n /\ \A t \in Servers \ {s} : connections'[t] = connections[t]
  BY <1>1, <1>2
<1>9. \A d \in Callers : At(d, "store")' => At(d, "store") /\ caller'[d] = caller[d] /\ d # c
  BY <1>3 DEF At
<1>10. NoLeak'
  <2> SUFFICES ASSUME NEW m \in Conns, client'[m] = "alive"
               PROVE  m \in Pooled' \/ \E d \in Callers : At(d, "store")' /\ caller'[d].conn = m
    BY DEF NoLeak
  <2>1. CASE m = n
    BY <1>1, <1>8, <2>1, ConnsFacts DEF Pooled
  <2>2. CASE m # n
    <3>1. client[m] = "alive" /\ connections[s] # m
      BY <1>2
    <3>2. CASE m \in Pooled
      <4>1. PICK t \in Servers : connections[t] = m
        BY <3>2 DEF Pooled
      <4>2. connections'[t] = m
        BY <1>8, <3>1, <4>1
      <4> QED
        BY <4>2, ConnsFacts DEF Pooled
    <3>3. CASE \E d \in Callers : At(d, "store") /\ caller[d].conn = m
      BY <1>3, <2>2, <3>3 DEF At
    <3> QED
      BY <3>1, <3>2, <3>3 DEF IInv, NoLeak
  <2> QED
    BY <2>1, <2>2
<1>11. PooledAlive'
  <2>1. ASSUME NEW t \in Servers, connections'[t] # NoConn
        PROVE  /\ client'[connections'[t]] = "alive"
               /\ \A u \in Servers : connections'[u] = connections'[t] => u = t
    <3>1. CASE t = s
      <4>1. \A u \in Servers \ {s} : connections[u] # n
        BY <1>1, <1>4, ConnsFacts DEF Pooled
      <4> QED
        BY <1>1, <1>2, <1>4, <1>5, <1>8, <3>1, <4>1
    <3>2. CASE t # s
      <4>1. connections'[t] = connections[t] /\ connections[t] \in Conns
        BY <1>1, <1>8, <2>1, <3>2
      <4>2. client[connections[t]] = "alive"
            /\ \A u \in Servers : connections[u] = connections[t] => u = t
        BY <2>1, <4>1 DEF IInv, PooledAlive
      <4>3. connections[t] # n /\ connections[s] # connections[t]
        BY <1>1, <1>4, <3>2, <4>1, <4>2, ConnsFacts DEF Pooled
      <4> QED
        BY <1>1, <1>2, <1>8, <4>1, <4>2, <4>3
    <3> QED
      BY <3>1, <3>2
  <2>2. ASSUME NEW d \in Callers, At(d, "store")'
        PROVE  /\ client'[caller'[d].conn] = "alive"
               /\ caller'[d].conn \notin Pooled'
               /\ \A e \in Callers : At(e, "store")' /\ caller'[e].conn = caller'[d].conn => e = d
    <3>1. At(d, "store") /\ caller'[d] = caller[d] /\ d # c /\ caller[d].conn \in Conns
      BY <1>9, <2>2 DEF IInv, Dialed
    <3>2. /\ client[caller[d].conn] = "alive" /\ caller[d].conn \notin Pooled
          /\ \A e \in Callers : At(e, "store") /\ caller[e].conn = caller[d].conn => e = d
      BY <3>1 DEF IInv, PooledAlive
    <3>3. caller[d].conn # n /\ \A t \in Servers : connections[t] # caller[d].conn
      BY <1>4, <3>1, <3>2, ConnsFacts DEF Pooled
    <3>4. client'[caller[d].conn] = "alive"
      BY <1>1, <1>2, <3>1, <3>2, <3>3
    <3>5. caller[d].conn \notin Pooled'
      BY <1>8, <3>3 DEF Pooled
    <3> QED
      BY <1>9, <3>1, <3>2, <3>4, <3>5
  <2> QED
    BY <2>1, <2>2 DEF PooledAlive
<1> QED
  BY <1>6, <1>7, <1>10, <1>11 DEF IInv

\* Closing entries forgets exactly the clients it closes.
LEMMA CloseStep ==
  ASSUME IInv, NEW S \in SUBSET Servers, CloseEntries(S),
         caller' \in [Callers -> Caller], Dialed',
         \A d \in Callers : /\ At(d, "store")' <=> At(d, "store")
                            /\ At(d, "store") => caller'[d] = caller[d],
         servers' \subseteq Servers, done' \in BOOLEAN
  PROVE  IInv'
<1>1. /\ client \in [Conns -> {"none", "alive", "closed"}]
      /\ connections \in [Servers -> Conns \cup {NoConn}]
  BY DEF IInv, Types
<1>2. /\ client' = [n \in Conns |-> IF \E s \in S : connections[s] = n THEN "closed" ELSE client[n]]
      /\ connections' = [s \in Servers |-> IF s \in S THEN NoConn ELSE connections[s]]
  BY DEF CloseEntries
<1>3. Types'
  BY <1>1, <1>2 DEF Types
<1>4. Dialed'
  OBVIOUS
<1>5. NoLeak'
  <2> SUFFICES ASSUME NEW m \in Conns, client'[m] = "alive"
               PROVE  m \in Pooled' \/ \E d \in Callers : At(d, "store")' /\ caller'[d].conn = m
    BY DEF NoLeak
  <2>1. client[m] = "alive" /\ \A s \in S : connections[s] # m
    BY <1>2
  <2>2. CASE m \in Pooled
    <3>1. PICK t \in Servers : connections[t] = m
      BY <2>2 DEF Pooled
    <3>2. connections'[t] = m
      BY <1>2, <2>1, <3>1
    <3> QED
      BY <3>2, ConnsFacts DEF Pooled
  <2> QED
    BY <2>1, <2>2 DEF IInv, NoLeak
<1>6. PooledAlive'
  <2>1. ASSUME NEW t \in Servers, connections'[t] # NoConn
        PROVE  /\ client'[connections'[t]] = "alive"
               /\ \A u \in Servers : connections'[u] = connections'[t] => u = t
    <3>1. t \notin S /\ connections'[t] = connections[t] /\ connections[t] \in Conns
      BY <1>1, <1>2, <2>1
    <3>2. client[connections[t]] = "alive"
          /\ \A u \in Servers : connections[u] = connections[t] => u = t
      BY <2>1, <3>1 DEF IInv, PooledAlive
    <3> QED
      BY <1>2, <2>1, <3>1, <3>2
  <2>2. ASSUME NEW d \in Callers, At(d, "store")'
        PROVE  /\ client'[caller'[d].conn] = "alive"
               /\ caller'[d].conn \notin Pooled'
               /\ \A e \in Callers : At(e, "store")' /\ caller'[e].conn = caller'[d].conn => e = d
    <3>1. At(d, "store") /\ caller'[d] = caller[d] /\ caller[d].conn \in Conns
      BY <2>2 DEF IInv, Dialed
    <3>2. /\ client[caller[d].conn] = "alive" /\ caller[d].conn \notin Pooled
          /\ \A e \in Callers : At(e, "store") /\ caller[e].conn = caller[d].conn => e = d
      BY <3>1 DEF IInv, PooledAlive
    <3>3. \A t \in Servers : connections[t] # caller[d].conn
      BY <3>1, <3>2, ConnsFacts DEF Pooled
    <3>4. client'[caller[d].conn] = "alive"
      BY <1>2, <3>1, <3>2, <3>3
    <3>5. caller[d].conn \notin Pooled'
      BY <1>2, <3>3 DEF Pooled
    <3> QED
      BY <3>1, <3>2, <3>4, <3>5
  <2> QED
    BY <2>1, <2>2 DEF PooledAlive
<1> QED
  BY <1>3, <1>4, <1>5, <1>6 DEF IInv

-----------------------------------------------------------------------------

\* Every step keeps the invariant.
LEMMA NextIInv == IInv /\ [Next]_vars => IInv'
<1> SUFFICES ASSUME IInv, [Next]_vars PROVE IInv'
  OBVIOUS
<1>0. /\ servers \subseteq Servers /\ done \in BOOLEAN
      /\ connections \in [Servers -> Conns \cup {NoConn}]
      /\ caller \in [Callers -> Caller]
  BY DEF IInv, Types
<1>1. ASSUME NEW c \in Callers, Start(c) PROVE IInv'
  <2>1. ASSUME NEW s \in Servers, CallLookup(c, s) PROVE IInv'
    <3> DEFINE new == [pc |-> IF connections[s] = NoConn THEN "connect" ELSE "alive",
                       op |-> "call", srv |-> s, conn |-> connections[s]]
    <3>1. new \in Caller /\ new.pc # "store" /\ (new.pc \in {"alive", "use"} => new.conn \in Conns)
      BY <1>0 DEF Caller
    <3>2. /\ caller' = [caller EXCEPT ![c] = new] /\ caller[c].pc # "store"
          /\ UNCHANGED <<servers, connections, client, done>>
      BY <2>1 DEF CallLookup, At
    <3> HIDE DEF new
    <3> QED
      BY <1>0, <3>1, <3>2, AsideStep
  <2>2. ASSUME NEW s \in Servers, NEW op \in {"discover", "test"}, Begin(c, op, s) PROVE IInv'
    <3> DEFINE new == [pc |-> "connect", op |-> op, srv |-> s, conn |-> NoConn]
    <3>1. new \in Caller /\ new.pc \notin {"store", "alive", "use"}
      BY DEF Caller
    <3>2. /\ caller' = [caller EXCEPT ![c] = new] /\ caller[c].pc # "store"
          /\ UNCHANGED <<servers, connections, client, done>>
      BY <2>2 DEF Begin, At
    <3> HIDE DEF new
    <3> QED
      BY <1>0, <3>1, <3>2, AsideStep
  <2> QED
    BY <1>1, <2>1, <2>2 DEF Start
<1>2. ASSUME NEW c \in Callers, Proceed(c) PROVE IInv'
  <2>1. CASE CallAlive(c)
    BY <2>1, MoveStep DEF CallAlive, At, IInv, Dialed
  <2>2. CASE Connect(c)
    BY <2>2, MoveStep DEF Connect, Connected, At
  <2>3. CASE DialFails(c) \/ Use(c)
    BY <2>3, MoveStep DEF DialFails, Use, At
  <2>4. CASE Reread(c)
    <3> DEFINE new == [caller[c] EXCEPT !.pc = IF connections[Server(c)] = NoConn THEN "idle" ELSE "use",
                                        !.conn = connections[Server(c)]]
    <3>1. caller[c] \in Caller /\ connections[Server(c)] \in Conns \cup {NoConn}
      BY <1>0 DEF Caller, Server
    <3>2. new \in Caller /\ new.pc # "store" /\ (new.pc \in {"alive", "use"} => new.conn \in Conns)
      BY <3>1 DEF Caller
    <3>3. /\ caller' = [caller EXCEPT ![c] = new] /\ caller[c].pc # "store"
          /\ UNCHANGED <<servers, connections, client, done>>
      BY <2>4 DEF Reread, At
    <3> HIDE DEF new
    <3> QED
      BY <1>0, <3>2, <3>3, AsideStep
  <2>5. CASE Disconnect(c)
    <3>1. {Server(c)} \in SUBSET Servers
      BY <1>0 DEF Caller, Server
    <3>2. /\ caller' \in [Callers -> Caller]
          /\ \A d \in Callers \ {c} : caller'[d] = caller[d]
          /\ caller[c].pc = "disconnect" /\ caller'[c].pc = "idle"
      BY <1>0, <2>5 DEF Disconnect, At, Goto, Caller
    <3>3. /\ Dialed'
          /\ \A d \in Callers : /\ At(d, "store")' <=> At(d, "store")
                                /\ At(d, "store") => caller'[d] = caller[d]
      BY <3>2 DEF IInv, Dialed, At
    <3> QED
      BY <1>0, <2>5, <3>1, <3>2, <3>3, CloseStep DEF Disconnect
  <2> QED
    BY <1>2, <2>1, <2>2, <2>3, <2>4, <2>5, DialStep, StoreStep DEF Proceed
<1>3. ASSUME NEW s \in Servers, AddServer(s) PROVE IInv'
  BY <1>3 DEF AddServer, IInv, Types, Dialed, NoLeak, PooledAlive, Pooled, At
<1>4. ASSUME NEW S \in SUBSET Servers, CloseEntries(S), UNCHANGED caller,
             servers' \subseteq Servers, done' \in BOOLEAN
      PROVE  IInv'
  <2>1. /\ caller' \in [Callers -> Caller] /\ Dialed'
        /\ \A d \in Callers : /\ At(d, "store")' <=> At(d, "store")
                              /\ At(d, "store") => caller'[d] = caller[d]
    BY <1>0, <1>4 DEF IInv, Dialed, At
  <2> QED
    BY <1>4, <2>1, CloseStep
<1>5. ASSUME NEW s \in Servers, RemoveServer(s) PROVE IInv'
  BY <1>0, <1>4, <1>5 DEF RemoveServer
<1>6. ASSUME NEW S \in SUBSET Servers, Reap(S) PROVE IInv'
  BY <1>0, <1>4, <1>6 DEF Reap
<1>7. CASE CloseAll
  BY <1>0, <1>4, <1>7 DEF CloseAll
<1>8. CASE UNCHANGED vars
  BY <1>8 DEF vars, IInv, Types, Dialed, NoLeak, PooledAlive, Pooled, At
<1> QED
  BY <1>1, <1>2, <1>3, <1>5, <1>6, <1>7, <1>8 DEF Next

\* The inductive invariant holds of every behaviour of the pool.
THEOREM Inductive == Spec => []IInv
<1> QED BY InitIInv, NextIInv, PTL DEF Spec

\* Every variable keeps its type, whatever callers, handlers and the reap loop do.
THEOREM TypeCorrect == Spec => []TypeOK
<1>1. IInv => TypeOK
  BY DEF IInv, TypeOK
<1> QED BY <1>1, Inductive, PTL

\* No client that is alive is lost: it is pooled, or about to be stored by the
\* goroutine that dialed it (pool.go 123-147).
THEOREM NothingLeaks == Spec => []NoLeak
<1>1. IInv => NoLeak
  BY DEF IInv
<1> QED BY <1>1, Inductive, PTL

\* What is pooled lives, serves one server and is in nobody's hands.
THEOREM PoolAlive == Spec => []PooledAlive
<1>1. IInv => PooledAlive
  BY DEF IInv
<1> QED BY <1>1, Inductive, PTL

-----------------------------------------------------------------------------
(* The pool implements ClientLife *)

\* Initially there is no client.
LEMMA InitLife == Init => Life!Init
<1> SUFFICES ASSUME Init PROVE Life!Init
  OBVIOUS
<1>1. \A c \in Callers : ~At(c, "store")
  BY DEF Init, At
<1>2. held = {} /\ closed = {}
  BY <1>1 DEF Init, held, closed
<1>3. pool = [s \in Servers |-> {}]
  BY DEF Init, pool
<1> QED
  BY <1>2, <1>3 DEF Life!Init

\* Who is about to store, and what, decides what is held.
LEMMA HeldKept ==
  ASSUME \A d \in Callers : /\ At(d, "store")' <=> At(d, "store")
                            /\ At(d, "store") => caller'[d].conn = caller[d].conn
  PROVE  held' = held
BY DEF held

\* A goroutine that moves on changes nobody's client.
LEMMA AsideLife ==
  ASSUME Types, NEW c \in Callers, ~At(c, "store"), ~At(c, "store")',
         \A d \in Callers \ {c} : caller'[d] = caller[d],
         UNCHANGED <<connections, client>>
  PROVE  UNCHANGED Life!vars
<1>1. held' = held
  BY HeldKept DEF At
<1> QED
  BY <1>1 DEF Life!vars, pool, closed

\* A client that is made is new: nobody holds, pools or closed it before.
LEMMA DialLife ==
  ASSUME IInv, NEW c \in Callers, Dial(c)
  PROVE  \E n \in Conns : Life!Dial(n)
<1>1. PICK n \in Conns : /\ client[n] = "none"
                         /\ client' = [client EXCEPT ![n] = "alive"]
                         /\ caller' = [caller EXCEPT ![c].pc = "store", ![c].conn = n]
  BY DEF Dial
<1>2. /\ client \in [Conns -> {"none", "alive", "closed"}]
      /\ caller \in [Callers -> Caller]
      /\ connections' = connections /\ ~At(c, "store")
  BY DEF IInv, Types, Dial, At
<1>3. /\ caller'[c].pc = "store" /\ caller'[c].conn = n
      /\ \A d \in Callers \ {c} : caller'[d] = caller[d]
  BY <1>1, <1>2 DEF Caller
<1>4. n \notin held \cup closed \cup UNION {pool[s] : s \in Servers}
  <2>1. n \notin held
    BY <1>1 DEF IInv, PooledAlive, held
  <2>2. n \notin closed
    BY <1>1 DEF closed
  <2>3. \A s \in Servers : n \notin pool[s]
    BY <1>1 DEF IInv, PooledAlive, pool
  <2> QED
    BY <2>1, <2>2, <2>3
<1>5. held' = held \cup {n}
  BY <1>2, <1>3 DEF held, At
<1>6. closed' = closed /\ pool' = pool
  BY <1>1, <1>2 DEF closed, pool
<1> QED
  BY <1>4, <1>5, <1>6 DEF Life!Dial

\* Storing hands the client over, and closes the one it replaces.
LEMMA StoreLife ==
  ASSUME IInv, NEW c \in Callers, Store(c)
  PROVE  \E n \in Conns, s \in Servers : Life!HandOver(n, s)
<1> DEFINE s == Server(c)
           n == caller[c].conn
<1>1. /\ client \in [Conns -> {"none", "alive", "closed"}]
      /\ caller \in [Callers -> Caller]
      /\ connections \in [Servers -> Conns \cup {NoConn}]
      /\ s \in Servers /\ n \in Conns /\ At(c, "store")
  BY DEF IInv, Types, Store, Server, Caller, Dialed
<1>2. /\ client' = [m \in Conns |-> IF connections[s] = m THEN "closed" ELSE client[m]]
      /\ connections' = [connections EXCEPT ![s] = n]
  BY DEF Store
<1>3. /\ caller'[c].pc # "store"
      /\ \A d \in Callers \ {c} : caller'[d] = caller[d]
  BY <1>1 DEF Store, Goto, Connected, Caller
<1>4. \A d \in Callers : At(d, "store") /\ caller[d].conn = n => d = c
  BY <1>1 DEF IInv, PooledAlive
<1>5. n \in held /\ held' = held \ {n}
  BY <1>1, <1>3, <1>4 DEF held, At
<1>6. pool' = [pool EXCEPT ![s] = {n}]
  BY <1>1, <1>2, ConnsFacts DEF pool
<1>7. closed' = closed \cup pool[s]
  BY <1>1, <1>2, ConnsFacts DEF closed, pool
<1> QED
  BY <1>1, <1>5, <1>6, <1>7 DEF Life!HandOver

\* What leaves the pool is closed, and nothing else is.
LEMMA CloseLife ==
  ASSUME Types, NEW S \in SUBSET Servers, CloseEntries(S), held' = held
  PROVE  Life!Next
<1>1. /\ client \in [Conns -> {"none", "alive", "closed"}]
      /\ connections \in [Servers -> Conns \cup {NoConn}]
  BY DEF Types
<1>2. /\ client' = [n \in Conns |-> IF \E s \in S : connections[s] = n THEN "closed" ELSE client[n]]
      /\ connections' = [s \in Servers |-> IF s \in S THEN NoConn ELSE connections[s]]
  BY DEF CloseEntries
<1>3. pool' = [s \in Servers |-> IF s \in S THEN {} ELSE pool[s]]
  BY <1>1, <1>2 DEF pool
<1>4. closed' = closed \cup UNION {pool[s] : s \in S}
  <2>1. \A s \in S : pool[s] \subseteq Conns /\ \A n \in Conns : n \in pool[s] <=> connections[s] = n
    BY <1>1, ConnsFacts DEF pool
  <2>2. \A n \in Conns : n \in closed' <=> n \in closed \/ \E s \in S : connections[s] = n
    BY <1>1, <1>2 DEF closed
  <2>3. \A n \in Conns : n \in closed' <=> n \in closed \cup UNION {pool[s] : s \in S}
    BY <2>1, <2>2
  <2>4. closed' \subseteq Conns /\ closed \cup UNION {pool[s] : s \in S} \subseteq Conns
    BY <2>1 DEF closed
  <2> QED
    BY <2>3, <2>4
<1>5. Life!Close(S)
  BY <1>3, <1>4 DEF Life!Close
<1> QED
  BY <1>5 DEF Life!Next

\* Every step is one of a client's life or a stutter.
LEMMA NextLife == ASSUME IInv, [Next]_vars PROVE [Life!Next]_Life!vars
<1>0. Types /\ caller \in [Callers -> Caller]
  BY DEF IInv, Types
<1>1. ASSUME NEW c \in Callers, Start(c) PROVE UNCHANGED Life!vars
  <2>1. /\ ~At(c, "store") /\ ~At(c, "store")'
        /\ \A d \in Callers \ {c} : caller'[d] = caller[d]
        /\ UNCHANGED <<connections, client>>
    BY <1>0, <1>1 DEF Start, CallLookup, Begin, At
  <2> QED
    BY <1>0, <2>1, AsideLife
<1>2. ASSUME NEW c \in Callers, Proceed(c) PROVE [Life!Next]_Life!vars
  <2>1. CASE CallAlive(c) \/ Connect(c) \/ DialFails(c) \/ Use(c) \/ Reread(c)
    <3>1. /\ ~At(c, "store") /\ ~At(c, "store")'
          /\ \A d \in Callers \ {c} : caller'[d] = caller[d]
          /\ UNCHANGED <<connections, client>>
      BY <1>0, <2>1 DEF CallAlive, Connect, Connected, DialFails, Use, Reread, Goto, At, Caller
    <3> QED
      BY <1>0, <3>1, AsideLife
  <2>2. CASE Dial(c)
    BY <2>2, DialLife DEF Life!Next
  <2>3. CASE Store(c)
    BY <2>3, StoreLife DEF Life!Next
  <2>4. CASE Disconnect(c)
    <3>1. {Server(c)} \in SUBSET Servers
      BY <1>0 DEF Caller, Server
    <3>2. held' = held
      <4>1. /\ ~At(c, "store") /\ ~At(c, "store")'
            /\ \A d \in Callers \ {c} : caller'[d] = caller[d]
        BY <1>0, <2>4 DEF Disconnect, Goto, At, Caller
      <4> QED
        BY <4>1, HeldKept DEF At
    <3> QED
      BY <1>0, <2>4, <3>1, <3>2, CloseLife DEF Disconnect
  <2> QED
    BY <1>2, <2>1, <2>2, <2>3, <2>4 DEF Proceed
<1>3. ASSUME UNCHANGED <<connections, client, caller>> PROVE UNCHANGED Life!vars
  BY <1>3 DEF Life!vars, held, pool, closed, At
<1>4. ASSUME NEW s \in Servers, AddServer(s) \/ RemoveServer(s) PROVE [Life!Next]_Life!vars
  <2>1. CASE AddServer(s)
    BY <1>3, <2>1 DEF AddServer
  <2>2. CASE RemoveServer(s)
    <3>1. held' = held
      BY <2>2 DEF RemoveServer, held, At
    <3> QED
      BY <1>0, <2>2, <3>1, CloseLife DEF RemoveServer
  <2> QED
    BY <1>4, <2>1, <2>2
<1>5. ASSUME NEW S \in SUBSET Servers, Reap(S) PROVE [Life!Next]_Life!vars
  <2>1. held' = held
    BY <1>5 DEF Reap, held, At
  <2> QED
    BY <1>0, <1>5, <2>1, CloseLife DEF Reap
<1>6. CASE CloseAll
  <2>1. held' = held
    BY <1>6 DEF CloseAll, held, At
  <2> QED
    BY <1>0, <1>6, <2>1, CloseLife DEF CloseAll
<1>7. CASE UNCHANGED vars
  BY <1>3, <1>7 DEF vars
<1> QED
  BY <1>1, <1>2, <1>4, <1>5, <1>6, <1>7 DEF Next

\* A client is handed over once, for one server, and closed when it leaves the pool,
\* by nobody else and for good (pool.go:87, :137-147, :193, :204, :235).
THEOREM Refines == Spec => FollowsLife
<1>1. Init => Life!Init
  BY InitLife
<1>2. IInv /\ [Next]_vars => [Life!Next]_Life!vars
  BY NextLife
<1> QED BY <1>1, <1>2, Inductive, PTL DEF Spec, FollowsLife, Life!Spec
=============================================================================
