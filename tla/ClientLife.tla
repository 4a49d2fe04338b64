----------------------------- MODULE ClientLife -----------------------------
(***************************************************************************)
(* The life of a client as the MCP pool means it: dialed by one goroutine, *)
(* handed to the pool once, for one server, and closed in the step in      *)
(* which it leaves the pool.  Nobody but the pool closes a client, and a   *)
(* closed one does not come back.                                          *)
(***************************************************************************)
CONSTANTS Servers, Clients

VARIABLES
  held,     \* clients in the hands of those who dialed them
  pool,     \* the clients of each server: none or one
  closed    \* clients that were closed

vars == <<held, pool, closed>>

Init ==
  /\ held = {}
  /\ pool = [s \in Servers |-> {}]
  /\ closed = {}

Dial(n) ==
  /\ n \notin held \cup closed \cup UNION {pool[s] : s \in Servers}
  /\ held' = held \cup {n}
  /\ UNCHANGED <<pool, closed>>

\* The server's client, if it has one by now, is closed.
HandOver(n, s) ==
  /\ n \in held
  /\ held' = held \ {n}
  /\ pool' = [pool EXCEPT ![s] = {n}]
  /\ closed' = closed \cup pool[s]

Close(S) ==
  /\ pool' = [s \in Servers |-> IF s \in S THEN {} ELSE pool[s]]
  /\ closed' = closed \cup UNION {pool[s] : s \in S}
  /\ UNCHANGED held

\* Lookups, requests and the configuration do not show.  [Next]_vars allows for
\* them anyway; TLC is faster when it looks for them first.
Unseen == UNCHANGED vars

Next ==
  \/ Unseen
  \/ \E n \in Clients : Dial(n)
  \/ \E n \in Clients, s \in Servers : HandOver(n, s)
  \/ \E S \in SUBSET Servers : Close(S)

Spec == Init /\ [][Next]_vars
=============================================================================
