-------------------------- MODULE ExecutionProofs --------------------------
(***************************************************************************)
(* The invariants of Execution, for every set of clients, sessions and     *)
(* messages.                                                               *)
(***************************************************************************)
EXTENDS Execution, TLAPS

\* What the maps hold is bounded by where each execution stands: no more is
\* needed for the invariant to be inductive.
IInv == Types /\ Released /\ RegisteredIsOwn /\ ActiveIsLive

\* Initially the maps are empty.
LEMMA InitIInv == Init => IInv
  <1> SUFFICES ASSUME Init PROVE IInv OBVIOUS
  <1>1. exec \in [Execs -> Exec]
    BY DEF Init, Exec
  <1>2. Types
    BY <1>1 DEF Init, Types
  <1>3. Released /\ RegisteredIsOwn /\ ActiveIsLive
    BY DEF Init, Released, RegisteredIsOwn, ActiveIsLive
  <1> QED BY <1>2, <1>3 DEF IInv

PC == InHandler \cup {"new", "run", "release", "forget", "done", "failed"}

\* Moving an execution on, or cancelling it, keeps its type.
LEMMA ExecUpdates ==
  ASSUME NEW f \in [Execs -> Exec], NEW e \in Execs, NEW p \in PC
  PROVE  /\ [f EXCEPT ![e].pc = p] \in [Execs -> Exec]
         /\ [f EXCEPT ![e].cancelled = TRUE] \in [Execs -> Exec]
  <1>1. [f[e] EXCEPT !.pc = p] \in Exec /\ [f[e] EXCEPT !.cancelled = TRUE] \in Exec
    BY DEF Exec, PC
  <1>2. /\ [f EXCEPT ![e].pc = p] = [f EXCEPT ![e] = [f[e] EXCEPT !.pc = p]]
        /\ [f EXCEPT ![e].cancelled = TRUE] = [f EXCEPT ![e] = [f[e] EXCEPT !.cancelled = TRUE]]
    OBVIOUS
  <1> QED BY <1>1, <1>2

\* A message handler keeps the types.
LEMMA HandlerTypes ==
  ASSUME Types, NEW e \in Execs, Receive(e) \/ Handler(e)
  PROVE  Types'
  <1>0. exec \in [Execs -> Exec]
    BY DEF Types
  <1>move. \A p \in PC : [exec EXCEPT ![e].pc = p] \in [Execs -> Exec]
    BY <1>0, ExecUpdates
  <1>pcs. "cancel" \in PC /\ "drop" \in PC /\ "store" \in PC /\ "load" \in PC
        /\ "run" \in PC /\ "failed" \in PC
    BY DEF PC, InHandler
  <1>1. exec' \in [Execs -> Exec]
    <2>1. CASE Receive(e) \/ DropOld(e) \/ StoreCancel(e) \/ LoadSession(e)
      BY <1>move, <1>pcs, <2>1 DEF Receive, DropOld, StoreCancel, LoadSession
    <2>2. CASE CancelOld(e)
      <3> DEFINE old == clientCancels[Client(e)]
                 f == [exec EXCEPT ![e].pc = "drop"]
      <3>1. CASE old = NoExec
        BY <1>move, <1>pcs, <2>2, <3>1 DEF CancelOld
      <3>2. CASE old # NoExec
        <4>1. old \in Execs
          BY <1>0, <3>2 DEF Types, Client, Exec
        <4>2. f \in [Execs -> Exec]
          BY <1>move, <1>pcs
        <4>3. [f EXCEPT ![old].cancelled = TRUE] \in [Execs -> Exec]
          <5> HIDE DEF f, old
          <5> QED BY <1>pcs, <4>1, <4>2, ExecUpdates
        <4> QED BY <2>2, <3>2, <4>3 DEF CancelOld
      <3> QED BY <3>1, <3>2
    <2> QED BY <2>1, <2>2 DEF Handler
  <1>2. /\ clientCancels' \in [Clients -> Execs \cup {NoExec}]
        /\ activeSessions' \in [Sessions -> Execs \cup {NoExec}]
        /\ UNCHANGED <<link, cancelAll>>
    BY DEF Receive, Handler, CancelOld, DropOld, StoreCancel, LoadSession, Types
  <1> QED BY <1>1, <1>2 DEF Types

\* An execution keeps the types.
LEMMA RunTypes == ASSUME Types, NEW e \in Execs, Goroutine(e) PROVE Types'
  <1>0. exec \in [Execs -> Exec]
    BY DEF Types
  <1>move. \A p \in PC : [exec EXCEPT ![e].pc = p] \in [Execs -> Exec]
    BY <1>0, ExecUpdates
  <1>pcs. "release" \in PC /\ "forget" \in PC /\ "done" \in PC
    BY DEF PC
  <1>1. CASE Finish(e) \/ Forget(e)
    <2>1. exec' \in [Execs -> Exec]
      BY <1>move, <1>pcs, <1>1 DEF Finish, Forget
    <2> QED BY <1>1, <2>1 DEF Finish, Forget, Types
  <1>2. CASE Release(e)
    <2> DEFINE f == [exec EXCEPT ![e].pc = "forget"]
    <2>1. f \in [Execs -> Exec]
      BY <1>move, <1>pcs
    <2>2. exec' = [f EXCEPT ![e].cancelled = TRUE]
      BY <1>2 DEF Release
    <2>3. exec' \in [Execs -> Exec]
      <3> HIDE DEF f
      <3> QED BY <1>pcs, <2>1, <2>2, ExecUpdates
    <2> QED BY <1>2, <2>3 DEF Release, Types
  <1> QED BY <1>1, <1>2 DEF Goroutine

\* The interruptions keep the types.
LEMMA InterruptTypes ==
  ASSUME Types, (\E c \in Clients : Interrupt(c)) \/ CancelAllStart
  PROVE  Types'
  <1>1. ASSUME NEW c \in Clients, Disconnect(c) \/ CancelAllVisit(c) PROVE Types'
    <2>1. clientCancels[c] # NoExec => clientCancels[c] \in Execs
      BY DEF Types
    <2>2. exec \in [Execs -> Exec] /\ "new" \in PC
      BY DEF Types, PC
    <2>cancel. \A e \in Execs : [exec EXCEPT ![e].cancelled = TRUE] \in [Execs -> Exec]
      BY <2>2, ExecUpdates
    <2>3. exec' \in [Execs -> Exec]
      BY <1>1, <2>1, <2>2, <2>cancel DEF Disconnect, CancelAllVisit
    <2>4. /\ link' \in [Clients -> {"on", "closing", "off"}]
          /\ cancelAll' \in [todo: SUBSET Clients, drop: SUBSET Clients]
      BY <1>1 DEF Disconnect, CancelAllVisit, Types
    <2> QED BY <1>1, <2>3, <2>4 DEF Disconnect, CancelAllVisit, Types
  <1>2. ASSUME NEW c \in Clients, DropGone(c) \/ CancelAllDrop(c) PROVE Types'
    BY <1>2 DEF DropGone, CancelAllDrop, Types
  <1>3. CASE CancelAllStart
    BY <1>3 DEF CancelAllStart, Types
  <1> QED BY <1>1, <1>2, <1>3 DEF Interrupt

\* A message handler keeps both maps right.
LEMMA HandlerMaps ==
  ASSUME IInv, NEW e \in Execs, Receive(e) \/ Handler(e)
  PROVE  RegisteredIsOwn' /\ ActiveIsLive'
  <1> USE DEF IInv, Types, RegisteredIsOwn, ActiveIsLive, At, Client, Exec, InHandler
  <1>1. CASE Receive(e)
    BY <1>1 DEF Receive
  <1>2. CASE CancelOld(e)
    <2>1. /\ \A f \in Execs : exec'[f].client = exec[f].client /\ exec'[f].session = exec[f].session
          /\ \A f \in Execs \ {e} : exec'[f].pc = exec[f].pc
      BY <1>2 DEF CancelOld
    <2>2. exec[e].pc = "cancel" /\ UNCHANGED <<clientCancels, activeSessions>>
      BY <1>2 DEF CancelOld
    <2> QED BY <2>1, <2>2
  <1>3. CASE DropOld(e)
    BY <1>3 DEF DropOld
  <1>4. CASE StoreCancel(e)
    BY <1>4 DEF StoreCancel
  <1>5. CASE LoadSession(e)
    BY <1>5 DEF LoadSession
  <1> QED BY <1>1, <1>2, <1>3, <1>4, <1>5 DEF Handler

\* An execution keeps both maps right.
LEMMA RunMaps ==
  ASSUME IInv, NEW e \in Execs, Goroutine(e)
  PROVE  RegisteredIsOwn' /\ ActiveIsLive'
  <1> USE DEF IInv, Types, RegisteredIsOwn, ActiveIsLive, At, Client, Exec, InHandler
  <1>1. CASE Finish(e)
    BY <1>1 DEF Finish
  <1>2. CASE Release(e)
    <2>1. /\ \A f \in Execs \ {e} : exec'[f] = exec[f]
          /\ exec'[e].session = exec[e].session /\ exec'[e].pc = "forget"
          /\ clientCancels' = [clientCancels EXCEPT ![exec[e].client] = NoExec]
          /\ activeSessions' = activeSessions
      BY <1>2 DEF Release
    <2>2. RegisteredIsOwn'
      BY <2>1
    <2>3. ActiveIsLive'
      BY <2>1
    <2> QED BY <2>2, <2>3
  <1>3. CASE Forget(e)
    BY <1>3 DEF Forget
  <1> QED BY <1>1, <1>2, <1>3 DEF Goroutine

\* Interruptions cancel and delete, and keep both maps right.
LEMMA InterruptMaps ==
  ASSUME IInv, (\E c \in Clients : Interrupt(c)) \/ CancelAllStart
  PROVE  RegisteredIsOwn' /\ ActiveIsLive'
  <1> USE DEF IInv, Types, RegisteredIsOwn, ActiveIsLive, Client, Exec, InHandler
  <1>1. ASSUME NEW c \in Clients, Disconnect(c) \/ CancelAllVisit(c)
        PROVE  RegisteredIsOwn' /\ ActiveIsLive'
    BY <1>1, ConstantsAssumption DEF Disconnect, CancelAllVisit
  <1>2. ASSUME NEW c \in Clients, DropGone(c) \/ CancelAllDrop(c)
        PROVE  RegisteredIsOwn' /\ ActiveIsLive'
    <2>1. /\ exec' = exec /\ activeSessions' = activeSessions
          /\ clientCancels' = [clientCancels EXCEPT ![c] = NoExec]
      BY <1>2 DEF DropGone, CancelAllDrop
    <2> QED BY <2>1
  <1>3. CASE CancelAllStart
    BY <1>3 DEF CancelAllStart
  <1> QED BY <1>1, <1>2, <1>3 DEF Interrupt

\* No step gives an execution another client or takes back a cancellation; one
\* that is neither a handler's nor a goroutine's leaves every control point alone.
LEMMA ExecStep ==
  ASSUME IInv, Next
  PROVE  /\ \A f \in Execs : Client(f)' = Client(f) /\ (exec[f].cancelled => exec'[f].cancelled)
         /\ (\E c \in Clients : Interrupt(c)) \/ CancelAllStart => \A f \in Execs : exec'[f].pc = exec[f].pc
         /\ \A e \in Execs : Receive(e) \/ Handler(e) \/ Goroutine(e) =>
              \A f \in Execs \ {e} : exec'[f].pc = exec[f].pc
  <1> USE DEF IInv, Types, Exec, Client
  <1>1. ASSUME NEW e \in Execs, Receive(e) \/ Handler(e) \/ Goroutine(e)
        PROVE  /\ \A f \in Execs : exec'[f].client = exec[f].client /\ (exec[f].cancelled => exec'[f].cancelled)
               /\ \A f \in Execs \ {e} : exec'[f].pc = exec[f].pc
    BY <1>1 DEF Receive, Handler, CancelOld, DropOld, StoreCancel, LoadSession, Goroutine, Finish, Release, Forget
  <1>2. ASSUME (\E c \in Clients : Interrupt(c)) \/ CancelAllStart
        PROVE  \A f \in Execs : /\ exec'[f].client = exec[f].client /\ (exec[f].cancelled => exec'[f].cancelled)
                               /\ exec'[f].pc = exec[f].pc
    <2>1. exec' = exec \/ \E o \in Execs : exec' = [exec EXCEPT ![o].cancelled = TRUE]
      <3>1. ASSUME NEW c \in Clients, Disconnect(c) \/ CancelAllVisit(c) PROVE  exec' = exec \/ \E o \in Execs : exec' = [exec EXCEPT ![o].cancelled = TRUE]
        <4>1. clientCancels[c] # NoExec => clientCancels[c] \in Execs
          OBVIOUS
        <4> QED BY <3>1, <4>1 DEF Disconnect, CancelAllVisit
      <3> QED BY <1>2, <3>1 DEF Interrupt, DropGone, CancelAllDrop, CancelAllStart
    <2> QED BY <2>1
  <1> QED BY <1>1, <1>2 DEF Next

\* The context of an execution that is over is cancelled and stays so.
LEMMA NextReleased == ASSUME IInv, Next PROVE Released'
  <1> USE DEF IInv, Types, Exec, Released, At
  <1>1. ASSUME NEW e \in Execs, Goroutine(e) PROVE Released'
    <2>1. \A f \in Execs \ {e} : exec'[f].pc = exec[f].pc /\ (exec[f].cancelled => exec'[f].cancelled)
      BY <1>1, ExecStep
    <2>2. exec'[e].pc \in {"forget", "done"} => exec'[e].cancelled
      BY <1>1 DEF Goroutine, Finish, Release, Forget
    <2> QED BY <2>1, <2>2
  <1>2. ASSUME NEW e \in Execs, Receive(e) \/ Handler(e) PROVE Released'
    <2>1. \A f \in Execs \ {e} : exec'[f].pc = exec[f].pc /\ (exec[f].cancelled => exec'[f].cancelled)
      BY <1>2, ExecStep
    <2>2. exec'[e].pc \notin {"forget", "done"}
      BY <1>2 DEF Receive, Handler, CancelOld, DropOld, StoreCancel, LoadSession
    <2> QED BY <2>1, <2>2
  <1>3. CASE (\E c \in Clients : Interrupt(c)) \/ CancelAllStart
    BY <1>3, ExecStep
  <1> QED BY <1>1, <1>2, <1>3 DEF Next

\* The invariant is inductive.
LEMMA NextIInv == ASSUME IInv, [Next]_vars PROVE IInv'
  <1>1. CASE UNCHANGED vars
    BY <1>1 DEF vars, IInv, Types, Released, RegisteredIsOwn, ActiveIsLive, Client
  <1>2. CASE Next
    <2>1. Types'
      BY <1>2, HandlerTypes, RunTypes, InterruptTypes DEF Next, IInv
    <2>2. RegisteredIsOwn' /\ ActiveIsLive'
      BY <1>2, HandlerMaps, RunMaps, InterruptMaps DEF Next
    <2>3. Released'
      BY <1>2, NextReleased
    <2> QED BY <2>1, <2>2, <2>3 DEF IInv
  <1> QED BY <1>1, <1>2

\* Every reachable state satisfies the invariant.
THEOREM Inductive == Spec => []IInv
  BY InitIInv, NextIInv, PTL DEF Spec

\* The types hold.
THEOREM TypeCorrect == Spec => []TypeOK
  BY Inductive, PTL DEF IInv, TypeOK

\* A registered CancelFunc is one of the client's own executions, and none that
\* has been released (daemon.go:1059, :1147, :1275).
THEOREM Registered == Spec => []RegisteredIsOwn
  BY Inductive, PTL DEF IInv

\* activeSessions names only executions whose goroutine has not ended
\* (daemon.go:1092, :1138).
THEOREM Active == Spec => []ActiveIsLive
  BY Inductive, PTL DEF IInv

-----------------------------------------------------------------------------
(* No CancelFunc is dropped that was not called *)

\* What a client's entry holds has been called, or there is none.
Called(c) == clientCancels[c] # NoExec => exec[clientCancels[c]].cancelled

\* A handler has its client for itself, and no longer starts once the link is
\* gone: between calling a CancelFunc and deleting the key it stays called.
Alone ==
  /\ \A e, f \in Execs : exec[e].pc \in InHandler /\ exec[f].pc \in InHandler /\ Client(e) = Client(f)
                       => e = f
  /\ \A c \in Clients : link[c] # "on" => ~Busy(c)

Calling ==
  /\ \A e \in Execs : At(e, "drop") => Called(Client(e))
  /\ \A e \in Execs : At(e, "store") => clientCancels[Client(e)] = NoExec
  /\ \A c \in Clients : link[c] = "closing" => Called(c)

\* Initially no handler runs.
LEMMA InitCalling == Init => Alone /\ Calling
  BY DEF Init, Alone, Calling, Busy, At, InHandler

\* A handler keeps to itself, whatever happens meanwhile.
LEMMA NextAlone == ASSUME IInv, Alone, Next PROVE Alone'
  <1> USE DEF Alone, Busy, At, InHandler
  <1>0. \A f \in Execs : Client(f)' = Client(f)
    BY ExecStep
  <1>1. ASSUME NEW e \in Execs, Receive(e) PROVE Alone'
    <2>1. /\ \A f \in Execs \ {e} : exec'[f].pc = exec[f].pc
          /\ link[Client(e)] = "on" /\ ~Busy(Client(e)) /\ link' = link
      BY <1>1, ExecStep DEF Receive
    <2> QED BY <1>0, <2>1
  <1>2. ASSUME NEW e \in Execs, Handler(e) \/ Goroutine(e) PROVE Alone'
    <2>1. /\ \A f \in Execs \ {e} : exec'[f].pc = exec[f].pc
          /\ exec'[e].pc \in InHandler => exec[e].pc \in InHandler
          /\ link' = link
      <3>1. \A f \in Execs \ {e} : exec'[f].pc = exec[f].pc
        BY <1>2, ExecStep
      <3>2. CASE Handler(e)
        BY <3>1, <3>2 DEF Handler, CancelOld, DropOld, StoreCancel, LoadSession
      <3>3. CASE Goroutine(e)
        BY <3>1, <3>3 DEF Goroutine, Finish, Release, Forget, IInv, Types, Exec
      <3> QED BY <1>2, <3>2, <3>3
    <2> QED BY <1>0, <2>1
  <1>3. CASE (\E c \in Clients : Interrupt(c)) \/ CancelAllStart
    <2>1. \A f \in Execs : exec'[f].pc = exec[f].pc
      BY <1>3, ExecStep
    <2>2. \A c \in Clients : link'[c] # "on" => ~Busy(c)
      BY <1>3 DEF Interrupt, Disconnect, DropGone, CancelAllVisit, CancelAllDrop, CancelAllStart, IInv, Types
    <2> QED BY <1>0, <2>1, <2>2
  <1> QED BY <1>1, <1>2, <1>3 DEF Next

\* What a step leaves in the map was there before, or a handler put it there.
LEMMA NextCancels ==
  ASSUME IInv, Next, NEW c \in Clients, clientCancels'[c] # clientCancels[c], clientCancels'[c] # NoExec
  PROVE  \E e \in Execs : StoreCancel(e) /\ Client(e) = c
  <1>1. ASSUME NEW e \in Execs, Handler(e) PROVE StoreCancel(e) /\ Client(e) = c
    BY <1>1 DEF Handler, CancelOld, DropOld, StoreCancel, LoadSession, IInv, Types
  <1>2. \A e \in Execs : ~Receive(e) /\ ~Goroutine(e)
    BY DEF Receive, Goroutine, Finish, Release, Forget, IInv, Types
  <1>3. ~CancelAllStart /\ \A d \in Clients : ~Interrupt(d)
    BY DEF Interrupt, Disconnect, DropGone, CancelAllVisit, CancelAllDrop, CancelAllStart, IInv, Types
  <1> QED BY <1>1, <1>2, <1>3 DEF Next

\* How a handler gets to where it deletes or stores, and a disconnect to where
\* it deletes.
LEMMA Arrivals ==
  ASSUME IInv, Next
  PROVE  /\ \A e \in Execs : At(e, "drop")' => At(e, "drop") \/ CancelOld(e)
         /\ \A e \in Execs : At(e, "store")' => At(e, "store") \/ CancelOld(e) \/ DropOld(e)
         /\ \A c \in Clients : link'[c] = "closing" => link[c] = "closing" \/ Disconnect(c)
  <1> USE DEF IInv, Types, Exec, At
  <1>1. ASSUME NEW e \in Execs, Receive(e) \/ Handler(e) \/ Goroutine(e)
        PROVE  /\ \A f \in Execs \ {e} : exec'[f].pc = exec[f].pc
               /\ exec'[e].pc = "drop" => CancelOld(e)
               /\ exec'[e].pc = "store" => CancelOld(e) \/ DropOld(e)
               /\ link' = link
    <2>1. \A f \in Execs \ {e} : exec'[f].pc = exec[f].pc
      BY <1>1, ExecStep
    <2>2. CASE Receive(e)
      BY <2>1, <2>2 DEF Receive
    <2>3. CASE Handler(e)
      BY <2>1, <2>3 DEF Handler, CancelOld, DropOld, StoreCancel, LoadSession
    <2>4. CASE Goroutine(e)
      BY <2>1, <2>4 DEF Goroutine, Finish, Release, Forget
    <2> QED BY <1>1, <2>2, <2>3, <2>4
  <1>2. ASSUME (\E c \in Clients : Interrupt(c)) \/ CancelAllStart
        PROVE  /\ \A f \in Execs : exec'[f].pc = exec[f].pc
               /\ \A c \in Clients : link'[c] = "closing" => link[c] = "closing" \/ Disconnect(c)
    <2>1. \A f \in Execs : exec'[f].pc = exec[f].pc
      BY <1>2, ExecStep
    <2>2. \A c \in Clients : link'[c] = "closing" => link[c] = "closing" \/ Disconnect(c)
      BY <1>2 DEF Interrupt, Disconnect, DropGone, CancelAllVisit, CancelAllDrop, CancelAllStart
    <2> QED BY <2>1, <2>2
  <1> QED BY <1>1, <1>2 DEF Next

\* Until the key is deleted, what a handler or a disconnect found stays called.
LEMMA NextCalling == ASSUME IInv, Alone, Calling, Next PROVE Calling'
  <1>client. \A f \in Execs : Client(f)' = Client(f) /\ (exec[f].cancelled => exec'[f].cancelled)
    BY ExecStep
  <1>type. \A e \in Execs : Client(e) \in Clients
    BY DEF IInv, Types, Exec, Client
  <1>1. ASSUME NEW c \in Clients, Called(c), \A e \in Execs : Client(e) = c => ~StoreCancel(e)
        PROVE  Called(c)'
    <2>1. clientCancels'[c] = clientCancels[c] \/ clientCancels'[c] = NoExec
      BY <1>1, NextCancels
    <2>2. clientCancels[c] # NoExec => clientCancels[c] \in Execs
      BY DEF IInv, Types
    <2> QED BY <1>client, <1>1, <2>1, <2>2 DEF Called
  <1>2. ASSUME NEW c \in Clients, clientCancels[c] = NoExec, \A e \in Execs : Client(e) = c => ~StoreCancel(e)
        PROVE  clientCancels'[c] = NoExec
    BY <1>2, NextCancels
  <1>3. ASSUME NEW e \in Execs, CancelOld(e)
        PROVE  /\ At(e, "drop")' => Called(Client(e))'
               /\ At(e, "store")' => clientCancels'[Client(e)] = NoExec
    <2>1. clientCancels[Client(e)] # NoExec => clientCancels[Client(e)] \in Execs
      BY <1>type DEF IInv, Types
    <2>2. clientCancels' = clientCancels
      BY <1>3 DEF CancelOld
    <2>3. CASE clientCancels[Client(e)] = NoExec
      BY <1>client, <2>2, <2>3 DEF Called
    <2>4. CASE clientCancels[Client(e)] # NoExec
      <3> DEFINE f == [exec EXCEPT ![e].pc = "drop"]
      <3>1. exec' = [f EXCEPT ![clientCancels[Client(e)]].cancelled = TRUE] /\ exec'[e].pc = "drop"
        BY <1>3, <2>1, <2>4 DEF CancelOld, IInv, Types, Exec
      <3>2. clientCancels[Client(e)] \in DOMAIN f /\ DOMAIN f = Execs
        BY <2>1, <2>4 DEF IInv, Types
      <3>3. exec'[clientCancels[Client(e)]].cancelled
        <4>1. f \in [Execs -> Exec]
          BY ExecUpdates DEF IInv, Types, PC, InHandler
        <4> HIDE DEF f
        <4> QED BY <2>1, <2>4, <3>1, <4>1 DEF Exec
      <3> QED BY <1>client, <2>2, <3>1, <3>3 DEF Called, At
    <2> QED BY <2>3, <2>4
  <1>4. ASSUME NEW e \in Execs, At(e, "drop") \/ At(e, "store"), ~StoreCancel(e)
        PROVE  \A f \in Execs : Client(f) = Client(e) => ~StoreCancel(f)
    BY <1>4 DEF Alone, StoreCancel, At, InHandler
  <1>5. ASSUME NEW e \in Execs, At(e, "drop")' PROVE Called(Client(e))'
    <2>1. CASE At(e, "drop")
      <3>1. ~StoreCancel(e)
        BY <2>1 DEF StoreCancel, At
      <3> QED BY <1>client, <1>type, <1>1, <1>4, <2>1, <3>1 DEF Calling
    <2>2. CASE CancelOld(e)
      BY <1>client, <1>3, <1>5, <2>2
    <2> QED BY <1>5, <2>1, <2>2, Arrivals
  <1>6. ASSUME NEW e \in Execs, At(e, "store")' PROVE clientCancels'[Client(e)] = NoExec
    <2>1. CASE At(e, "store")
      <3>1. ~StoreCancel(e)
        BY <1>6 DEF StoreCancel, At, IInv, Types, Exec
      <3> QED BY <1>type, <1>2, <1>4, <2>1, <3>1 DEF Calling
    <2>2. CASE CancelOld(e)
      BY <1>client, <1>3, <1>6, <2>2
    <2>3. CASE DropOld(e)
      BY <1>type, <2>3 DEF DropOld, IInv, Types
    <2> QED BY <1>6, <2>1, <2>2, <2>3, Arrivals
  <1>7. ASSUME NEW c \in Clients, link'[c] = "closing" PROVE Called(c)'
    <2>1. CASE link[c] = "closing"
      <3>1. \A e \in Execs : Client(e) = c => ~StoreCancel(e)
        BY <2>1 DEF Alone, Busy, StoreCancel, At, InHandler
      <3> QED BY <1>1, <2>1, <3>1 DEF Calling
    <2>2. CASE Disconnect(c)
      <3>1. clientCancels[c] # NoExec => clientCancels[c] \in Execs
        BY DEF IInv, Types
      <3> QED BY <1>7, <2>2, <3>1 DEF Disconnect, Called, IInv, Types, Exec
    <2> QED BY <1>7, <2>1, <2>2, Arrivals
  <1> QED BY <1>client, <1>5, <1>6, <1>7 DEF Calling

\* The map, the handlers and the disconnects together.
LEMMA NextHandlers == ASSUME IInv, Alone, Calling, [Next]_vars PROVE Alone' /\ Calling'
  <1>1. CASE UNCHANGED vars
    BY <1>1 DEF vars, Alone, Calling, Called, Busy, At, Client
  <1> QED BY <1>1, NextAlone, NextCalling

\* An entry is deleted by a handler or a disconnect, which have called it, by
\* message.cancel, or by an execution of the client that is being released.
LEMMA Deletions ==
  ASSUME IInv, Alone, Calling, Next, NEW c \in Clients,
         clientCancels[c] # NoExec, clientCancels'[c] # clientCancels[c]
  PROVE  \/ exec'[clientCancels[c]].cancelled
         \/ \E f \in Execs : Client(f) = c /\ At(f, "release") /\ exec'[f].pc = "forget"
         \/ c \in cancelAll.drop /\ cancelAll'.drop = {}
  <1> DEFINE old == clientCancels[c]
  <1>1. old \in Execs
    BY DEF IInv, Types
  <1>2. Called(c) => exec'[old].cancelled
    BY <1>1, ExecStep DEF Called
  <1>3. ASSUME NEW e \in Execs, Handler(e) PROVE Called(c)
    <2>1. Client(e) = c /\ (DropOld(e) \/ StoreCancel(e))
      BY <1>3 DEF Handler, CancelOld, DropOld, StoreCancel, LoadSession, IInv, Types
    <2> QED BY <2>1 DEF Calling, DropOld, StoreCancel
  <1>4. ASSUME NEW e \in Execs, Receive(e) \/ Goroutine(e)
        PROVE  Client(e) = c /\ At(e, "release") /\ exec'[e].pc = "forget"
    <2>1. Release(e)
      BY <1>4 DEF Receive, Goroutine, Finish, Forget
    <2>2. Client(e) = c
      BY <2>1 DEF Release, IInv, Types
    <2>3. exec[e] \in Exec
      BY DEF IInv, Types
    <2>4. exec'[e].pc = "forget"
      BY <2>1, <2>3 DEF Release, IInv, Types, Exec
    <2> QED BY <2>1, <2>2, <2>4 DEF Release
  <1>5. ASSUME NEW d \in Clients, Interrupt(d)
        PROVE  Called(c) \/ (c \in cancelAll.drop /\ cancelAll'.drop = {})
    <2>1. d = c /\ (DropGone(c) \/ CancelAllDrop(c))
      BY <1>5 DEF Interrupt, Disconnect, DropGone, CancelAllVisit, CancelAllDrop, IInv, Types
    <2>2. CASE DropGone(c)
      BY <2>2 DEF Calling, DropGone
    <2>3. CASE CancelAllDrop(c)
      BY <2>3 DEF CancelAllDrop, IInv, Types
    <2> QED BY <2>1, <2>2, <2>3
  <1>6. ~CancelAllStart
    BY DEF CancelAllStart
  <1> QED BY <1>2, <1>3, <1>4, <1>5, <1>6 DEF Next

\* Neither a new message nor a disconnect drops a CancelFunc that was not called:
\* only the deferred delete of another execution of the client and message.cancel
\* do (daemon.go:1058, :1275, :1147, handler_interact.go:134).
THEOREM CalledFirst == Spec => CalledBeforeDropped
  <1> DEFINE A == \A c \in Clients : LET e == clientCancels[c] IN
                    e # NoExec /\ clientCancels'[c] # e /\ ~exec'[e].cancelled =>
                      \/ \E f \in Execs : Client(f) = c /\ At(f, "release") /\ exec'[f].pc = "forget"
                      \/ c \in cancelAll.drop /\ cancelAll'.drop = {}
  <1>1. IInv /\ Alone /\ Calling /\ [Next]_vars => [A]_vars
    BY Deletions
  <1>2. Spec => [](Alone /\ Calling)
    BY InitCalling, NextHandlers, Inductive, PTL DEF Spec
  <1> QED BY <1>1, <1>2, Inductive, PTL DEF Spec, CalledBeforeDropped


=============================================================================
