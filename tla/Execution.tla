----------------------------- MODULE Execution -----------------------------
(***************************************************************************)
(* Agent executions on behalf of WebSocket clients (internal/svc).  The    *)
(* message handler of a connection cancels the client's previous execution,*)
(* registers the new one and runs it in a goroutine, whose deferred        *)
(* functions undo the registrations.  clientCancels and activeSessions are *)
(* sync.Maps: each access is atomic, a sequence of them is not.            *)
(***************************************************************************)
EXTENDS Naturals, FiniteSets

CONSTANTS
  Clients,    \* connected clients
  Sessions,   \* session ids
  Execs,      \* bound: the messages that arrive, each with its execution
  NoExec      \* no entry in a map

ASSUME ConstantsAssumption == NoExec \notin Execs

VARIABLES
  clientCancels,   \* client -> the execution whose CancelFunc is registered
  activeSessions,  \* session -> the execution whose Session is registered
  exec,            \* the handler and then the goroutine of each message
  link,            \* connection: on, in the disconnect handler, or off
  cancelAll        \* message.cancel: clients still to visit, the one to delete

vars == <<clientCancels, activeSessions, exec, link, cancelAll>>

InHandler == {"cancel", "drop", "store", "load"}
Exec == [pc: InHandler \cup {"new", "run", "release", "forget", "done", "failed"},
         client: Clients, session: Sessions, cancelled: BOOLEAN]

Types ==
  /\ clientCancels \in [Clients -> Execs \cup {NoExec}]
  /\ activeSessions \in [Sessions -> Execs \cup {NoExec}]
  /\ exec \in [Execs -> Exec]
  /\ link \in [Clients -> {"on", "closing", "off"}]
  /\ cancelAll \in [todo: SUBSET Clients, drop: SUBSET Clients]

\* No execution that is over leaks its context.
Released == \A e \in Execs : exec[e].pc \in {"forget", "done"} => exec[e].cancelled

TypeOK == Types /\ Released

\* Which client a message comes from, and its session, is not known before it
\* arrives: any assignment is an initial state.
Init ==
  /\ clientCancels = [c \in Clients |-> NoExec]
  /\ activeSessions = [s \in Sessions |-> NoExec]
  /\ exec \in [Execs -> [pc: {"new"}, client: Clients, session: Sessions, cancelled: {FALSE}]]
  /\ link = [c \in Clients |-> "on"]
  /\ cancelAll = [todo |-> {}, drop |-> {}]

At(e, pc) == exec[e].pc = pc
Client(e) == exec[e].client

-----------------------------------------------------------------------------
(* defaultHandler: one message of a client at a time; the mutants of an *)
(* action stand before it                                               *)

Busy(c) == \E e \in Execs : Client(e) = c /\ exec[e].pc \in InHandler

Receive(e) ==
  /\ At(e, "new")
  /\ link[Client(e)] = "on"
  /\ ~Busy(Client(e))
  /\ exec' = [exec EXCEPT ![e].pc = "cancel"]
  /\ UNCHANGED <<clientCancels, activeSessions, link, cancelAll>>

CancelOld_NotCalled(e) ==
  /\ At(e, "cancel")
  /\ exec' = [exec EXCEPT ![e].pc = IF clientCancels[Client(e)] = NoExec THEN "store" ELSE "drop"]
  /\ UNCHANGED <<clientCancels, activeSessions, link, cancelAll>>

\* cancelClientExecution: load, call the CancelFunc, delete the key.
CancelOld(e) ==
  /\ At(e, "cancel")
  /\ LET old == clientCancels[Client(e)]
     IN exec' = IF old = NoExec THEN [exec EXCEPT ![e].pc = "store"]
                ELSE [exec EXCEPT ![e].pc = "drop", ![old].cancelled = TRUE]
  /\ UNCHANGED <<clientCancels, activeSessions, link, cancelAll>>

DropOld(e) ==
  /\ At(e, "drop")
  /\ clientCancels' = [clientCancels EXCEPT ![Client(e)] = NoExec]
  /\ exec' = [exec EXCEPT ![e].pc = "store"]
  /\ UNCHANGED <<activeSessions, link, cancelAll>>

StoreCancel(e) ==
  /\ At(e, "store")
  /\ clientCancels' = [clientCancels EXCEPT ![Client(e)] = e]
  /\ exec' = [exec EXCEPT ![e].pc = "load"]
  /\ UNCHANGED <<activeSessions, link, cancelAll>>

\* The session fails to load and the handler returns, its CancelFunc still
\* registered; or the session is registered and the goroutine started.
LoadSession(e) ==
  /\ At(e, "load")
  /\ \/ /\ exec' = [exec EXCEPT ![e].pc = "failed"]
        /\ UNCHANGED activeSessions
     \/ /\ exec' = [exec EXCEPT ![e].pc = "run"]
        /\ activeSessions' = [activeSessions EXCEPT ![exec[e].session] = e]
  /\ UNCHANGED <<clientCancels, link, cancelAll>>

-----------------------------------------------------------------------------
(* The goroutine of an execution *)

Finish_NoContext(e) ==
  /\ At(e, "run") /\ ~exec[e].cancelled
  /\ exec' = [exec EXCEPT ![e].pc = "release"]
  /\ UNCHANGED <<clientCancels, activeSessions, link, cancelAll>>

\* Run returns or panics.
Finish(e) ==
  /\ At(e, "run")
  /\ exec' = [exec EXCEPT ![e].pc = "release"]
  /\ UNCHANGED <<clientCancels, activeSessions, link, cancelAll>>

Release_NoCancel(e) ==
  /\ At(e, "release")
  /\ exec' = [exec EXCEPT ![e].pc = "forget"]
  /\ clientCancels' = [clientCancels EXCEPT ![Client(e)] = NoExec]
  /\ UNCHANGED <<activeSessions, link, cancelAll>>

Release_NoDelete(e) ==
  /\ At(e, "release")
  /\ exec' = [exec EXCEPT ![e].pc = "forget", ![e].cancelled = TRUE]
  /\ UNCHANGED <<clientCancels, activeSessions, link, cancelAll>>

\* The deferred functions delete whatever their key maps to by now.
Release(e) ==
  /\ At(e, "release")
  /\ exec' = [exec EXCEPT ![e].pc = "forget", ![e].cancelled = TRUE]
  /\ clientCancels' = [clientCancels EXCEPT ![Client(e)] = NoExec]
  /\ UNCHANGED <<activeSessions, link, cancelAll>>

Forget_OnPanicOnly(e) ==
  /\ At(e, "forget")
  /\ exec' = [exec EXCEPT ![e].pc = "done"]
  /\ activeSessions' \in {activeSessions, [activeSessions EXCEPT ![exec[e].session] = NoExec]}
  /\ UNCHANGED <<clientCancels, link, cancelAll>>

Forget(e) ==
  /\ At(e, "forget")
  /\ exec' = [exec EXCEPT ![e].pc = "done"]
  /\ activeSessions' = [activeSessions EXCEPT ![exec[e].session] = NoExec]
  /\ UNCHANGED <<clientCancels, link, cancelAll>>

-----------------------------------------------------------------------------
(* Interruptions *)

\* The gateway reports the connection closed, after its last message.
Disconnect(c) ==
  /\ link[c] = "on"
  /\ ~Busy(c)
  /\ IF clientCancels[c] = NoExec
     THEN link' = [link EXCEPT ![c] = "off"] /\ UNCHANGED exec
     ELSE /\ link' = [link EXCEPT ![c] = "closing"]
          /\ exec' = [exec EXCEPT ![clientCancels[c]].cancelled = TRUE]
  /\ UNCHANGED <<clientCancels, activeSessions, cancelAll>>

DropGone(c) ==
  /\ link[c] = "closing"
  /\ link' = [link EXCEPT ![c] = "off"]
  /\ clientCancels' = [clientCancels EXCEPT ![c] = NoExec]
  /\ UNCHANGED <<activeSessions, exec, cancelAll>>

\* message.cancel ranges over the map: each key once, with its value by then.
CancelAllStart ==
  /\ cancelAll.todo = {} /\ cancelAll.drop = {}
  /\ \E c \in Clients : clientCancels[c] # NoExec
  /\ cancelAll' = [cancelAll EXCEPT !.todo = Clients]
  /\ UNCHANGED <<clientCancels, activeSessions, exec, link>>

CancelAllVisit(c) ==
  /\ c \in cancelAll.todo /\ cancelAll.drop = {}
  /\ IF clientCancels[c] = NoExec
     THEN cancelAll' = [cancelAll EXCEPT !.todo = @ \ {c}] /\ UNCHANGED exec
     ELSE /\ cancelAll' = [todo |-> cancelAll.todo \ {c}, drop |-> {c}]
          /\ exec' = [exec EXCEPT ![clientCancels[c]].cancelled = TRUE]
  /\ UNCHANGED <<clientCancels, activeSessions, link>>

CancelAllDrop(c) ==
  /\ c \in cancelAll.drop
  /\ cancelAll' = [cancelAll EXCEPT !.drop = {}]
  /\ clientCancels' = [clientCancels EXCEPT ![c] = NoExec]
  /\ UNCHANGED <<activeSessions, exec, link>>

-----------------------------------------------------------------------------

Handler(e) == CancelOld(e) \/ DropOld(e) \/ StoreCancel(e) \/ LoadSession(e)

Goroutine(e) == Finish(e) \/ Release(e) \/ Forget(e)

Interrupt(c) == Disconnect(c) \/ DropGone(c) \/ CancelAllVisit(c) \/ CancelAllDrop(c)

Next ==
  \/ \E e \in Execs : Receive(e)
  \/ \E e \in Execs : Handler(e)
  \/ \E e \in Execs : Goroutine(e)
  \/ \E c \in Clients : Interrupt(c)
  \/ CancelAllStart

Spec == Init /\ [][Next]_vars

\* Handlers and goroutines are scheduled.  An execution returns when its
\* context is cancelled; without that it may go on for ever.
FairSpec ==
  /\ Spec
  /\ \A e \in Execs :
       /\ WF_vars(Handler(e))
       /\ WF_vars(exec[e].cancelled /\ Finish(e))
       /\ WF_vars(Release(e) \/ Forget(e))

-----------------------------------------------------------------------------
(* Properties *)

\* A registered CancelFunc belongs to the client it is registered for and to an
\* execution that has not been released yet, or whose session failed to load;
\* no interleaving of handler, disconnect, message.cancel and deferred deletes
\* brings one back (daemon.go:1059, :1147, :1275).
RegisteredIsOwn ==
  \A c \in Clients : LET e == clientCancels[c] IN e # NoExec =>
    Client(e) = c /\ exec[e].pc \in {"load", "run", "release", "failed"}

\* activeSessions holds no session whose goroutine has ended, also when several
\* executions share it (daemon.go:1092, :1138).
ActiveIsLive ==
  \A s \in Sessions : LET e == activeSessions[s] IN e # NoExec =>
    exec[e].session = s /\ exec[e].pc \in {"run", "release", "forget"}

\* Neither a new message nor a disconnect takes a CancelFunc out of the map that
\* has not been called: the one they load is the one they delete, or it was gone
\* by then (daemon.go:1058, :1275).  Only the deferred delete of another execution of
\* the client (daemon.go:1147) and message.cancel's (handler_interact.go:134) do.
CalledBeforeDropped ==
  [][\A c \in Clients : LET e == clientCancels[c] IN
       e # NoExec /\ clientCancels'[c] # e /\ ~exec'[e].cancelled =>
         \/ \E f \in Execs : Client(f) = c /\ At(f, "release") /\ exec'[f].pc = "forget"
         \/ c \in cancelAll.drop /\ cancelAll'.drop = {}]_vars

\* An execution that is cancelled, by whichever of the four ways and even while
\* its handler is still loading the session, ends (daemon.go:1058, :1212).
CancelledEnds ==
  \A e \in Execs : exec[e].cancelled ~> exec[e].pc \in {"done", "failed"}
=============================================================================
