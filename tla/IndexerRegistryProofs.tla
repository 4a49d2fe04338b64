----------------------- MODULE IndexerRegistryProofs -----------------------
(***************************************************************************)
(* Proofs about IndexerRegistry, for any number of projects and requests.  *)
(***************************************************************************)
EXTENDS IndexerRegistry, TLAPS

\* Who holds which lock is told by where it is.
Locks == \A c \in Callers : /\ c \in writer <=> caller[c].pc \in {"drain", "open", "wire"}
                            /\ c \in readers <=> caller[c].pc = "reset"

\* Who makes an indexer makes one that is not there: the lock keeps it so.
Fresh == \A c \in Callers : At(c, "open") => Project(c) \notin indexers

IInv == TypeOK /\ Locks /\ Fresh /\ NoOrphan

-----------------------------------------------------------------------------

\* A goroutine that asks for nothing has a project, of whatever name.
LEMMA IdleType == Idle \in Caller /\ Idle.pc = "idle"
BY SomeProject DEF Idle, Caller

\* Initially no lock is held and no manifest is open.
LEMMA InitIInv == Init => IInv
<1> SUFFICES ASSUME Init PROVE IInv
  OBVIOUS
<1>1. /\ caller \in [Callers -> Caller]
      /\ \A c \in Callers : caller[c].pc = "idle"
  BY IdleType DEF Init
<1>2. TypeOK
  BY <1>1 DEF Init, TypeOK
<1> QED
  BY <1>1, <1>2 DEF Init, IInv, Locks, Fresh, NoOrphan, At

\* A goroutine goes on without a lock taken or released, or an indexer made.
LEMMA AsideStep ==
  ASSUME IInv, NEW c \in Callers, NEW new \in Caller,
         caller' = [caller EXCEPT ![c] = new],
         new.pc \notin {"drain", "open", "wire"}, caller[c].pc \notin {"drain", "open", "wire"},
         new.pc = "reset" <=> caller[c].pc = "reset",
         UNCHANGED <<memory, lock, manifest>>
  PROVE  IInv'
<1>1. /\ caller' \in [Callers -> Caller] /\ caller'[c] = new
      /\ \A d \in Callers : d # c => caller'[d] = caller[d]
  BY DEF IInv, TypeOK
<1>2. UNCHANGED <<indexers, errors, writer, readers, manifest>>
  BY DEF memory, lock
<1>3. TypeOK'
  BY <1>1, <1>2 DEF IInv, TypeOK
<1>4. Locks'
  BY <1>1, <1>2 DEF IInv, Locks
<1>5. Fresh'
  BY <1>1, <1>2 DEF IInv, Fresh, At, Project
<1>6. c \notin writer
  BY DEF IInv, Locks
<1>7. NoOrphan'
  BY <1>1, <1>2, <1>6 DEF IInv, TypeOK, NoOrphan, At, Project
<1> QED
  BY <1>3, <1>4, <1>5, <1>7 DEF IInv

-----------------------------------------------------------------------------
(* The steps of the writer *)

\* Announcing a writer: it is the only one, and waits.
LEMMA LockStep == ASSUME IInv, NEW c \in Callers, Lock(c) PROVE IInv'
<1> USE DEF Lock, At, Goto, Project, memory
<1>1. /\ caller \in [Callers -> Caller] /\ caller' \in [Callers -> Caller] /\ caller'[c].pc = "drain"
      /\ caller[c].pc = "lock"
      /\ \A d \in Callers : caller'[d].project = caller[d].project /\ (d # c => caller'[d] = caller[d])
  BY DEF IInv, TypeOK, Caller
<1>2. TypeOK'
  BY <1>1 DEF IInv, TypeOK
<1>3. \A d \in Callers : caller[d].pc \notin {"drain", "open", "wire"}
  BY DEF IInv, Locks
<1>4. Locks' /\ Fresh'
  BY <1>1, <1>3 DEF IInv, Locks, Fresh
<1>5. NoOrphan'
  BY <1>1, <1>3 DEF IInv, NoOrphan
<1> QED
  BY <1>2, <1>4, <1>5 DEF IInv

\* The last reader is gone: nobody else is inside.
LEMMA SecondLookStep == ASSUME IInv, NEW c \in Callers, SecondLook(c) PROVE IInv'
<1> USE DEF SecondLook, At, Goto, Project, memory
<1>1. /\ caller \in [Callers -> Caller] /\ caller' \in [Callers -> Caller]
      /\ caller[c].pc = "drain" /\ c \in writer
      /\ \A d \in Callers : caller'[d].project = caller[d].project /\ (d # c => caller'[d] = caller[d])
  BY DEF IInv, TypeOK, Locks, Caller, Answer
<1>2. writer = {c}
  BY <1>1 DEF IInv, TypeOK
<1>3. CASE Project(c) \in indexers
  <2>1. caller'[c].pc \in {"found", "refused"} /\ writer' = {}
    BY <1>1, <1>3 DEF Caller, Answer
  <2>2. TypeOK'
    BY <1>1, <2>1 DEF IInv, TypeOK
  <2>3. Locks' /\ Fresh' /\ NoOrphan'
    BY <1>1, <1>2, <2>1 DEF IInv, Locks, Fresh, NoOrphan
  <2> QED
    BY <2>2, <2>3 DEF IInv
<1>4. CASE Project(c) \notin indexers
  <2>1. caller'[c].pc = "open" /\ writer' = writer
    BY <1>1, <1>4 DEF Caller
  <2>2. TypeOK'
    BY <1>1, <2>1 DEF IInv, TypeOK
  <2>3. Locks' /\ Fresh' /\ NoOrphan'
    BY <1>1, <1>2, <1>4, <2>1 DEF IInv, Locks, Fresh, NoOrphan
  <2> QED
    BY <2>2, <2>3 DEF IInv
<1> QED
  BY <1>3, <1>4

\* Whoever is at open or wire holds the lock alone.
LEMMA Alone ==
  ASSUME IInv, NEW c \in Callers, caller[c].pc \in {"open", "wire"}
  PROVE  writer = {c} /\ readers = {}
BY DEF IInv, TypeOK, Locks

\* The manifest is opened, and the indexer is with the writer.
LEMMA OpenStep == ASSUME IInv, NEW c \in Callers, Open(c) PROVE IInv'
<1> USE DEF Open, At, Goto, Project, memory, lock
<1>1. /\ caller \in [Callers -> Caller] /\ caller' \in [Callers -> Caller] /\ caller'[c].pc = "wire"
      /\ \A d \in Callers : caller'[d].project = caller[d].project /\ (d # c => caller'[d] = caller[d])
  BY DEF IInv, TypeOK, Caller
<1>2. Project(c) \in Projects /\ manifest' = [manifest EXCEPT ![Project(c)] = "open"]
      /\ UNCHANGED <<indexers, errors, writer, readers>>
  BY <1>1 DEF Caller
<1>3. writer = {c} /\ Project(c) \notin indexers
  BY Alone DEF IInv, Fresh
<1>4. TypeOK'
  BY <1>1, <1>2 DEF IInv, TypeOK
<1>5. Locks' /\ Fresh'
  BY <1>1, <1>2, <1>3 DEF IInv, Locks, Fresh
<1>6. \A p \in Projects : manifest[p] = "open" <=> p \in indexers
  BY <1>3 DEF IInv, NoOrphan
<1>7. NoOrphan'
  BY <1>1, <1>2, <1>3, <1>6 DEF IInv, TypeOK, NoOrphan
<1> QED
  BY <1>4, <1>5, <1>7 DEF IInv

\* The lock is released with nothing opened.
LEMMA OpenFailsStep == ASSUME IInv, NEW c \in Callers, OpenFails(c) PROVE IInv'
<1> USE DEF OpenFails, At, Goto, Project, memory
<1>1. /\ caller \in [Callers -> Caller] /\ caller' \in [Callers -> Caller] /\ caller'[c].pc = "refused"
      /\ \A d \in Callers : caller'[d].project = caller[d].project /\ (d # c => caller'[d] = caller[d])
  BY DEF IInv, TypeOK, Caller
<1>2. writer = {c} /\ Project(c) \in Projects
  BY <1>1, Alone DEF Caller
<1>3. TypeOK'
  BY <1>1, <1>2 DEF IInv, TypeOK
<1>4. Locks' /\ Fresh'
  BY <1>1, <1>2 DEF IInv, Locks, Fresh
<1>5. NoOrphan'
  BY <1>2 DEF IInv, NoOrphan
<1> QED
  BY <1>3, <1>4, <1>5 DEF IInv

\* The indexer the writer made is the one that is published.
LEMMA PublishStep == ASSUME IInv, NEW c \in Callers, Publish(c) PROVE IInv'
<1> USE DEF Publish, At, Goto, Project
<1>1. /\ caller \in [Callers -> Caller] /\ caller' \in [Callers -> Caller] /\ caller'[c].pc = "found"
      /\ \A d \in Callers : caller'[d].project = caller[d].project /\ (d # c => caller'[d] = caller[d])
  BY DEF IInv, TypeOK, Caller
<1>2. writer = {c} /\ Project(c) \in Projects
  BY <1>1, Alone DEF Caller
<1>3. TypeOK'
  BY <1>1, <1>2 DEF IInv, TypeOK
<1>4. Locks' /\ Fresh'
  BY <1>1, <1>2 DEF IInv, Locks, Fresh
<1>5. NoOrphan'
  BY <1>2 DEF IInv, NoOrphan
<1> QED
  BY <1>3, <1>4, <1>5 DEF IInv

-----------------------------------------------------------------------------
(* The steps of the readers *)

\* Entering: every indexer is still to be reset.
LEMMA RLockStep == ASSUME IInv, NEW c \in Callers, RLock(c) PROVE IInv'
<1> USE DEF RLock, At, Project, memory
<1>1. /\ caller \in [Callers -> Caller] /\ caller' \in [Callers -> Caller] /\ caller'[c].pc = "reset"
      /\ \A d \in Callers : caller'[d].project = caller[d].project /\ (d # c => caller'[d] = caller[d])
  BY DEF IInv, TypeOK, Caller
<1>2. TypeOK'
  BY <1>1 DEF IInv, TypeOK
<1>3. Locks' /\ Fresh'
  BY <1>1 DEF IInv, Locks, Fresh
<1>4. NoOrphan'
  BY DEF IInv, NoOrphan
<1> QED
  BY <1>2, <1>3, <1>4 DEF IInv

\* Leaving.
LEMMA EndResetStep == ASSUME IInv, NEW c \in Callers, EndReset(c) PROVE IInv'
<1> USE DEF EndReset, At, Goto, Project, memory
<1>1. /\ caller \in [Callers -> Caller] /\ caller' \in [Callers -> Caller] /\ caller'[c].pc = "idle"
      /\ \A d \in Callers : caller'[d].project = caller[d].project /\ (d # c => caller'[d] = caller[d])
  BY DEF IInv, TypeOK, Caller
<1>2. c \notin writer
  BY DEF IInv, Locks
<1>3. TypeOK'
  BY <1>1 DEF IInv, TypeOK
<1>4. Locks' /\ Fresh'
  BY <1>1 DEF IInv, Locks, Fresh
<1>5. NoOrphan'
  BY <1>1, <1>2 DEF IInv, TypeOK, NoOrphan
<1> QED
  BY <1>3, <1>4, <1>5 DEF IInv

-----------------------------------------------------------------------------
(* Processes *)

\* A new process holds nothing: what the old one held is the old one's.
LEMMA RestartStep == ASSUME IInv, NEW gone \in BOOLEAN, Restart(gone) PROVE IInv'
<1> USE DEF Restart
<1>2. /\ caller' \in [Callers -> Caller] /\ \A c \in Callers : caller'[c].pc = "idle"
      /\ manifest' \in [Projects -> {"free", "open", "old"}]
      /\ \A p \in Projects : manifest'[p] # "open"
  BY IdleType
<1>3. TypeOK'
  BY <1>2 DEF IInv, TypeOK
<1> QED
  BY <1>2, <1>3 DEF IInv, Locks, Fresh, NoOrphan, At

-----------------------------------------------------------------------------

\* Every step keeps the invariant.
LEMMA NextIInv == IInv /\ [Next]_vars => IInv'
<1> SUFFICES ASSUME IInv, [Next]_vars PROVE IInv'
  OBVIOUS
<1>0. /\ caller \in [Callers -> Caller]
      /\ \A c \in Callers : caller[c].project \in Projects /\ caller[c].todo \subseteq Projects
  BY DEF IInv, TypeOK, Caller
<1>1. ASSUME NEW c \in Callers, NEW p \in Projects, Call(c, p) PROVE IInv'
  <2> DEFINE new == [caller[c] EXCEPT !.pc = "lookup", !.project = p]
  <2>1. new \in Caller /\ new.pc \notin {"drain", "open", "wire", "reset"}
    BY <1>0 DEF Caller
  <2>2. caller' = [caller EXCEPT ![c] = new]
    BY <1>1 DEF Call
  <2>3. caller[c].pc = "idle" /\ UNCHANGED <<memory, lock, manifest>>
    BY <1>1 DEF Call, At
  <2> HIDE DEF new
  <2> QED
    BY <1>0, <2>1, <2>2, <2>3, AsideStep
<1>2. ASSUME NEW c \in Callers, Lookup(c) \/ Errors(c) \/ BeginReset(c) PROVE IInv'
  <2>1. PICK pc \in {"found", "refused", "rlock", "errors", "lock"} :
          caller' = [caller EXCEPT ![c].pc = pc]
    BY <1>2 DEF Lookup, Errors, Answer, BeginReset, Goto
  <2> DEFINE new == [caller[c] EXCEPT !.pc = pc]
  <2>2. new \in Caller /\ new.pc \notin {"drain", "open", "wire", "reset"}
    BY <1>0 DEF Caller
  <2>3. caller' = [caller EXCEPT ![c] = new] /\ caller[c].pc \in {"lookup", "errors", "idle"}
    BY <1>2, <2>1 DEF Lookup, Errors, BeginReset, At
  <2>4. UNCHANGED <<memory, lock, manifest>>
    BY <1>2 DEF Lookup, Errors, BeginReset
  <2> HIDE DEF new
  <2> QED
    BY <1>0, <2>2, <2>3, <2>4, AsideStep
<1>3. ASSUME NEW c \in Callers, NEW p \in Projects, ResetManifest(c, p) PROVE IInv'
  <2> DEFINE new == [caller[c] EXCEPT !.todo = @ \ {p}]
  <2>1. new \in Caller /\ new.pc = caller[c].pc /\ caller[c].pc = "reset"
    BY <1>0, <1>3 DEF Caller, ResetManifest, At
  <2>2. caller' = [caller EXCEPT ![c] = new]
    BY <1>3 DEF ResetManifest
  <2>3. UNCHANGED <<memory, lock, manifest>>
    BY <1>0, <1>3 DEF ResetManifest
  <2> HIDE DEF new
  <2> QED
    BY <1>0, <2>1, <2>2, <2>3, AsideStep
<1>4. CASE OldExits
  <2>1. /\ manifest' \in [Projects -> {"free", "open", "old"}]
        /\ \A p \in Projects : manifest'[p] = "open" <=> manifest[p] = "open"
        /\ UNCHANGED <<indexers, errors, writer, readers, caller>>
    BY <1>4 DEF OldExits, IInv, TypeOK, memory, lock
  <2> QED
    BY <2>1 DEF IInv, TypeOK, Locks, Fresh, NoOrphan, At, Project
<1>5. CASE UNCHANGED vars
  BY <1>5 DEF vars, memory, lock, IInv, TypeOK, Locks, Fresh, NoOrphan, At, Project
<1>6. ASSUME NEW c \in Callers, Return(c) PROVE IInv'
  <2>1. Idle.pc \notin {"drain", "open", "wire", "reset"}
    BY IdleType
  <2>2. caller' = [caller EXCEPT ![c] = Idle] /\ caller[c].pc \in {"found", "refused"}
    BY <1>6 DEF Return, At
  <2>3. UNCHANGED <<memory, lock, manifest>>
    BY <1>6 DEF Return
  <2> QED
    BY IdleType, <2>1, <2>2, <2>3, AsideStep
<1> QED
  BY <1>1, <1>2, <1>3, <1>4, <1>5, <1>6, LockStep, SecondLookStep, OpenStep, OpenFailsStep, PublishStep,
     RLockStep, EndResetStep, RestartStep DEF Next, Acquire, Proceed

\* The inductive invariant holds of every behaviour of the registry.
THEOREM Inductive == Spec => []IInv
<1> QED BY InitIInv, NextIInv, PTL DEF Spec

\* Every variable keeps its type; the write lock excludes everyone else.
THEOREM TypeCorrect == Spec => []TypeOK
<1>1. IInv => TypeOK
  BY DEF IInv
<1> QED BY <1>1, Inductive, PTL

\* However many first requests for a project come at once, NewIndexer is never
\* called while this process has the manifest open (daemon.go 655-679).
THEOREM OpenOnce == Spec => []OpensOnce
<1>1. IInv => OpensOnce
  <2> SUFFICES ASSUME IInv, NEW c \in Callers, At(c, "open") PROVE manifest[Project(c)] # "open"
    BY DEF OpensOnce
  <2>1. writer = {c} /\ Project(c) \notin indexers /\ Project(c) \in Projects
    BY Alone DEF IInv, Fresh, At, TypeOK, Caller, Project
  <2> QED
    BY <2>1 DEF IInv, NoOrphan, At
<1> QED BY <1>1, Inductive, PTL

\* An open manifest belongs to an indexer someone can reach (daemon.go 679-779).
THEOREM NoneOrphaned == Spec => []NoOrphan
<1>1. IInv => NoOrphan
  BY DEF IInv
<1> QED BY <1>1, Inductive, PTL

\* No indexer is published while kb.reset walks the registry (handler_kb.go 464-470).
THEOREM ResetSeesAll == Spec => ResetCovers
<1>1. IInv /\ [Next]_vars => [\A c \in Callers : At(c, "reset") => indexers' \subseteq indexers]_vars
  <2> SUFFICES ASSUME IInv, Next, NEW c \in Callers, At(c, "reset") PROVE indexers' \subseteq indexers
    OBVIOUS
  <2>1. \A d \in Callers : ~Publish(d)
    BY Alone DEF Publish, At, IInv, TypeOK, Locks
  <2> QED
    BY <2>1 DEF Next, Acquire, Proceed, Call, Lookup, BeginReset, Lock, SecondLook, RLock, Errors, Open, OpenFails,
                Return, ResetManifest, EndReset, Restart, OldExits, memory
<1> QED BY <1>1, Inductive, PTL DEF Spec, ResetCovers

-----------------------------------------------------------------------------
(* IndexerRegistry implements LazyTable *)

\* What is being wired is not in the registry yet; what a call has found, and what
\* a walk has still to go through, is.
Making ==
  \A c \in Callers : /\ At(c, "wire") => Project(c) \notin indexers
                     /\ At(c, "errors") => Project(c) \in indexers
                     /\ At(c, "reset") => caller[c].todo \subseteq indexers

\* The request, the answer and the walk of a caller in state x, when the registry
\* holds I.
Asks(x)     == IF x.pc \in {"lookup", "errors", "lock", "drain", "open", "wire"}
               THEN {x.project} ELSE {}
Has(x)      == IF x.pc = "found" THEN {"entry"} ELSE IF x.pc = "refused" THEN {"error"} ELSE {}
Sees(x, I)  == IF x.pc = "reset" THEN {I \ x.todo} ELSE {}

\* The parts of the mapping are functions of the callers.
LEMMA Mapping ==
  /\ asked = [c \in Callers |-> Asks(caller[c])]
  /\ answer = [c \in Callers |-> Has(caller[c])]
  /\ seen = [c \in Callers |-> Sees(caller[c], indexers)]
  /\ answer' = [c \in Callers |-> Has(caller'[c])]
  /\ asked' = [c \in Callers |-> Asks(caller'[c])]
  /\ seen' = [c \in Callers |-> Sees(caller'[c], indexers')]
BY DEF asked, answer, seen, Asks, Has, Sees, At, Project

\* One caller goes on: nothing else of the mapping changes, unless it publishes
\* while another one walks.
LEMMA OneMoves ==
  ASSUME IInv, Making, NEW c \in Callers, NEW new \in Caller,
         caller' = [caller EXCEPT ![c] = new],
         \/ indexers' = indexers
         \/ \A d \in Callers \ {c} : caller[d].pc \notin {"wire", "reset"},
         indexers \subseteq indexers',
         new.pc = "wire" => new.project \notin indexers',
         new.pc = "errors" => new.project \in indexers',
         new.pc = "reset" => new.todo \subseteq indexers'
  PROVE  /\ Making'
         /\ asked' = [asked EXCEPT ![c] = Asks(new)]
         /\ answer' = [answer EXCEPT ![c] = Has(new)]
         /\ seen' = [seen EXCEPT ![c] = Sees(new, indexers')]
<1>1. caller'[c] = new /\ \A d \in Callers \ {c} : caller'[d] = caller[d]
  BY DEF IInv, TypeOK
<1>2. Making'
  BY <1>1 DEF Making, At, Project
<1>3. \A d \in Callers \ {c} : Sees(caller'[d], indexers') = Sees(caller[d], indexers)
  BY <1>1 DEF Sees
<1>4. asked' = [asked EXCEPT ![c] = Asks(new)]
  <2>1. \A d \in Callers : asked'[d] = IF d = c THEN Asks(new) ELSE asked[d]
    BY <1>1, Mapping
  <2> QED
    BY <2>1, Mapping
<1>5. seen' = [seen EXCEPT ![c] = Sees(new, indexers')]
  <2>1. \A d \in Callers : seen'[d] = IF d = c THEN Sees(new, indexers') ELSE seen[d]
    BY <1>1, <1>3, Mapping
  <2> QED
    BY <2>1, Mapping
<1>6. answer' = [answer EXCEPT ![c] = Has(new)]
  <2>1. \A d \in Callers : answer'[d] = IF d = c THEN Has(new) ELSE answer[d]
    BY <1>1, Mapping
  <2> QED
    BY <2>1, Mapping
<1> QED
  BY <1>2, <1>4, <1>5, <1>6

\* A step that changes no caller and nothing of the registry.
LEMMA Unmoved ==
  ASSUME Making, UNCHANGED <<indexers, errors, caller>>
  PROVE  Making' /\ UNCHANGED Table!vars
<1>1. Making'
  BY DEF Making, At, Project
<1>2. asked' = asked /\ answer' = answer /\ seen' = seen
  BY Mapping
<1> QED
  BY <1>1, <1>2 DEF Table!vars

\* The steps of getIndexer up to where the lock is held and nobody is inside.
LEMMA LookTable ==
  ASSUME IInv, Making, NEW c \in Callers,
         Lookup(c) \/ Errors(c) \/ Lock(c) \/ SecondLook(c)
  PROVE  Making' /\ [Table!Next]_(Table!vars)
<1> DEFINE p == Project(c)
<1>0. p \in Projects /\ caller[c] \in Caller /\ caller \in [Callers -> Caller]
  BY DEF IInv, TypeOK, Caller, Project
<1>1. UNCHANGED <<indexers, errors>>
  BY DEF Lookup, Errors, Lock, SecondLook, memory
<1>2. ASSUME NEW pc \in {"found", "refused", "errors", "lock", "drain", "open"}, Goto(c, pc),
             pc = "errors" => p \in indexers
      PROVE  /\ Making' /\ seen' = [seen EXCEPT ![c] = {}]
             /\ asked' = [asked EXCEPT ![c] = IF pc \in {"found", "refused"} THEN {} ELSE {p}]
             /\ answer' = [answer EXCEPT ![c] = IF pc = "found" THEN {"entry"}
                                               ELSE IF pc = "refused" THEN {"error"} ELSE {}]
  <2> DEFINE new == [caller[c] EXCEPT !.pc = pc]
  <2>1. new \in Caller /\ new.pc = pc /\ new.project = p
    BY <1>0 DEF Caller, Project
  <2>2. caller' = [caller EXCEPT ![c] = new]
    BY <1>2 DEF Goto
  <2> HIDE DEF new
  <2> QED
    BY <1>1, <1>2, <2>1, <2>2, OneMoves DEF Asks, Has, Sees
<1>3. seen[c] = {} /\ answer[c] = {} /\ asked[c] = {p}
  BY Mapping DEF Lookup, Errors, Lock, SecondLook, At, Asks, Has, Sees, Project
<1>4. ASSUME Goto(c, Answer(c)), p \in indexers
      PROVE  Making' /\ (Table!Find(c, p) \/ Table!Recall(c, p))
  <2>1. CASE p \in errors
    <3>1. Goto(c, "refused")
      BY <1>4, <2>1 DEF Answer
    <3>2. /\ Making' /\ seen' = seen /\ asked' = [asked EXCEPT ![c] = {}]
          /\ answer' = [answer EXCEPT ![c] = {"error"}]
      BY <1>2, <1>3, <3>1, Mapping
    <3> QED
      BY <1>1, <1>3, <1>4, <2>1, <3>2 DEF Table!Recall, Table!Answered
  <2>2. CASE p \notin errors
    <3>1. Goto(c, "found")
      BY <1>4, <2>2 DEF Answer
    <3>2. /\ Making' /\ seen' = seen /\ asked' = [asked EXCEPT ![c] = {}]
          /\ answer' = [answer EXCEPT ![c] = {"entry"}]
      BY <1>2, <1>3, <3>1, Mapping
    <3> QED
      BY <1>1, <1>3, <1>4, <2>2, <3>2 DEF Table!Find, Table!Answered
  <2> QED
    BY <2>1, <2>2
<1>5. ASSUME NEW pc \in {"errors", "lock", "drain", "open"}, Goto(c, pc),
             pc = "errors" => p \in indexers
      PROVE  Making' /\ UNCHANGED Table!vars
  <2>1. Making' /\ seen' = seen /\ asked' = asked /\ answer' = answer
    BY <1>2, <1>3, <1>5, Mapping
  <2> QED
    BY <1>1, <2>1 DEF Table!vars
<1>6. CASE Lookup(c)
  BY <1>5, <1>6 DEF Lookup
<1>7. CASE SecondLook(c)
  BY <1>0, <1>4, <1>5, <1>7 DEF SecondLook, Table!Next
<1>8. CASE Lock(c)
  BY <1>5, <1>8 DEF Lock
<1>9. CASE Errors(c)
  <2>1. p \in indexers
    BY <1>9 DEF Errors, Making
  <2> QED
    BY <1>0, <1>4, <1>9, <2>1 DEF Errors, Table!Next
<1> QED
  BY <1>6, <1>7, <1>8, <1>9

\* The caller takes its answer.
LEMMA ReturnTable ==
  ASSUME IInv, Making, NEW c \in Callers, Return(c)
  PROVE  Making' /\ [Table!Next]_(Table!vars)
<1>1. caller' = [caller EXCEPT ![c] = Idle] /\ UNCHANGED <<indexers, errors>>
  BY DEF Return, memory
<1>2. asked[c] = {} /\ seen[c] = {}
  BY Mapping DEF Return, At, Asks, Sees
<1>3. Asks(Idle) = {} /\ Has(Idle) = {} /\ Sees(Idle, indexers') = {}
  BY IdleType DEF Asks, Has, Sees
<1>4. indexers' = indexers /\ Idle.pc \notin {"wire", "errors", "reset"}
  BY <1>1, IdleType
<1>5. /\ Making' /\ asked' = [asked EXCEPT ![c] = Asks(Idle)]
      /\ answer' = [answer EXCEPT ![c] = Has(Idle)]
      /\ seen' = [seen EXCEPT ![c] = Sees(Idle, indexers')]
  BY <1>1, <1>4, IdleType, OneMoves
<1>6. /\ Making' /\ asked' = [asked EXCEPT ![c] = {}]
      /\ answer' = [answer EXCEPT ![c] = {}] /\ seen' = [seen EXCEPT ![c] = {}]
  BY <1>3, <1>5
<1>7. Table!Return(c)
  BY <1>1, <1>2, <1>6, Mapping DEF Table!Return
<1> QED
  BY <1>6, <1>7 DEF Table!Next

\* The steps of getIndexer under the write lock.
LEMMA MakeTable ==
  ASSUME IInv, Making, NEW c \in Callers, Open(c) \/ OpenFails(c) \/ Publish(c)
  PROVE  Making' /\ [Table!Next]_(Table!vars)
<1> DEFINE p == Project(c)
<1>0. p \in Projects /\ caller[c] \in Caller /\ caller \in [Callers -> Caller]
  BY DEF IInv, TypeOK, Caller, Project
<1>1. /\ caller[c].pc \in {"open", "wire"} /\ p \notin indexers
      /\ asked[c] = {p} /\ answer[c] = {} /\ seen[c] = {}
  BY Mapping DEF Open, OpenFails, Publish, At, IInv, Fresh, Making, Asks, Has, Sees, Project
<1>2. \A d \in Callers : /\ d # c => caller[d].pc \notin {"wire", "reset"}
                         /\ seen[d] = {}
  BY <1>1, Alone, Mapping DEF IInv, Locks, Sees
<1>3. ASSUME NEW pc \in {"wire", "found", "refused"}, Goto(c, pc),
             pc = "wire" => indexers' = indexers, indexers \subseteq indexers'
      PROVE  /\ Making' /\ seen' = seen
             /\ asked' = [asked EXCEPT ![c] = IF pc = "wire" THEN {p} ELSE {}]
             /\ answer' = [answer EXCEPT ![c] = IF pc = "found" THEN {"entry"}
                                               ELSE IF pc = "refused" THEN {"error"} ELSE {}]
  <2> DEFINE new == [caller[c] EXCEPT !.pc = pc]
  <2>1. new \in Caller /\ new.pc = pc /\ new.project = p
    BY <1>0 DEF Caller, Project
  <2>2. caller' = [caller EXCEPT ![c] = new]
    BY <1>3 DEF Goto
  <2> HIDE DEF new
  <2>a. /\ \A d \in Callers \ {c} : caller[d].pc \notin {"wire", "reset"}
        /\ new.pc = "wire" => new.project \notin indexers'
        /\ new.pc \notin {"reset", "errors"}
    BY <1>1, <1>2, <1>3, <2>1
  <2>b. /\ Making' /\ seen' = [seen EXCEPT ![c] = Sees(new, indexers')]
        /\ asked' = [asked EXCEPT ![c] = Asks(new)]
        /\ answer' = [answer EXCEPT ![c] = Has(new)]
    BY <1>3, <2>1, <2>2, <2>a, OneMoves
  <2>3. /\ Making' /\ seen' = [seen EXCEPT ![c] = {}]
        /\ asked' = [asked EXCEPT ![c] = IF pc = "wire" THEN {p} ELSE {}]
        /\ answer' = [answer EXCEPT ![c] = IF pc = "found" THEN {"entry"}
                                          ELSE IF pc = "refused" THEN {"error"} ELSE {}]
    BY <2>1, <2>b DEF Asks, Has, Sees
  <2> QED
    BY <1>1, <2>3, Mapping
<1>4. CASE Open(c)
  <2>1. UNCHANGED <<indexers, errors>> /\ Goto(c, "wire")
    BY <1>4 DEF Open, memory
  <2>2. Making' /\ seen' = seen /\ asked' = asked /\ answer' = answer
    BY <1>1, <1>3, <2>1, Mapping
  <2> QED
    BY <2>1, <2>2 DEF Table!vars
<1>5. CASE OpenFails(c)
  <2>1. Making' /\ Table!Fail(c, p)
    BY <1>1, <1>3, <1>5 DEF OpenFails, Table!Fail, Table!Answered
  <2> QED
    BY <1>0, <2>1 DEF Table!Next
<1>6. CASE Publish(c)
  <2>1. Making' /\ Table!Make(c, p)
    BY <1>1, <1>2, <1>3, <1>6 DEF Publish, Table!Make, Table!Answered
  <2> QED
    BY <1>0, <2>1 DEF Table!Next
<1> QED
  BY <1>4, <1>5, <1>6

\* kb.reset is a walk.
LEMMA WalkTable ==
  ASSUME IInv, Making, NEW c \in Callers,
         BeginReset(c) \/ RLock(c) \/ EndReset(c) \/ \E p \in Projects : ResetManifest(c, p)
  PROVE  Making' /\ [Table!Next]_(Table!vars)
<1>0. caller[c] \in Caller /\ caller \in [Callers -> Caller] /\ indexers \subseteq Projects
  BY DEF IInv, TypeOK
<1>1. UNCHANGED <<indexers, errors>> /\ asked[c] = {} /\ answer[c] = {}
  BY Mapping DEF BeginReset, RLock, EndReset, ResetManifest, memory, At, Asks, Has
<1>2. ASSUME NEW pc \in {"rlock", "reset", "idle"}, NEW todo \in SUBSET indexers,
             caller' = [caller EXCEPT ![c] = [caller[c] EXCEPT !.pc = pc, !.todo = todo]]
      PROVE  /\ Making' /\ asked' = asked /\ answer' = answer
             /\ seen' = [seen EXCEPT ![c] = IF pc = "reset" THEN {indexers \ todo} ELSE {}]
  <2> DEFINE new == [caller[c] EXCEPT !.pc = pc, !.todo = todo]
  <2>1. new \in Caller /\ new.pc = pc /\ new.todo = todo
    BY <1>0 DEF Caller
  <2>2. caller' = [caller EXCEPT ![c] = new]
    BY <1>2
  <2> HIDE DEF new
  <2>3. /\ Making' /\ asked' = [asked EXCEPT ![c] = {}] /\ answer' = [answer EXCEPT ![c] = {}]
        /\ seen' = [seen EXCEPT ![c] = IF pc = "reset" THEN {indexers \ todo} ELSE {}]
    BY <1>1, <2>1, <2>2, OneMoves DEF Asks, Has, Sees
  <2> QED
    BY <1>1, <2>3, Mapping
<1>3. CASE BeginReset(c)
  <2> DEFINE new == [caller[c] EXCEPT !.pc = "rlock"]
  <2>1. new \in Caller /\ new.pc = "rlock" /\ caller' = [caller EXCEPT ![c] = new]
    BY <1>0, <1>3 DEF BeginReset, Goto, Caller
  <2>2. seen[c] = {}
    BY <1>3, Mapping DEF BeginReset, At, Sees
  <2> HIDE DEF new
  <2>3. /\ Making' /\ asked' = [asked EXCEPT ![c] = {}] /\ answer' = [answer EXCEPT ![c] = {}]
        /\ seen' = [seen EXCEPT ![c] = {}]
    BY <1>1, <2>1, OneMoves DEF Asks, Has, Sees
  <2>4. asked' = asked /\ answer' = answer /\ seen' = seen
    BY <1>1, <2>2, <2>3, Mapping
  <2> QED
    BY <1>1, <2>3, <2>4 DEF Table!vars
<1>4. CASE RLock(c)
  <2>1. caller' = [caller EXCEPT ![c] = [caller[c] EXCEPT !.pc = "reset", !.todo = indexers]]
    BY <1>4 DEF RLock
  <2>2. /\ Making' /\ asked' = asked /\ answer' = answer
        /\ seen' = [seen EXCEPT ![c] = {indexers \ indexers}]
    BY <1>2, <2>1
  <2>3. seen[c] = {}
    BY <1>4, Mapping DEF RLock, At, Sees
  <2>4. Table!Walk(c)
    BY <1>1, <2>2, <2>3 DEF Table!Walk, Table!Free
  <2> QED
    BY <2>2, <2>4 DEF Table!Next
<1>5. ASSUME NEW p \in Projects, ResetManifest(c, p)
      PROVE  Making' /\ [Table!Next]_(Table!vars)
  <2> DEFINE todo == caller[c].todo \ {p}
  <2>1. /\ caller[c].pc = "reset" /\ p \in caller[c].todo /\ caller[c].todo \subseteq indexers
        /\ caller' = [caller EXCEPT ![c] = [caller[c] EXCEPT !.todo = todo]]
    BY <1>0, <1>5 DEF ResetManifest, At, Making
  <2>2. [caller[c] EXCEPT !.todo = todo] = [caller[c] EXCEPT !.pc = "reset", !.todo = todo]
    BY <1>0, <2>1 DEF Caller
  <2>3. todo \in SUBSET indexers
    BY <2>1
  <2>4. /\ Making' /\ asked' = asked /\ answer' = answer
        /\ seen' = [seen EXCEPT ![c] = {indexers \ todo}]
    BY <1>2, <2>1, <2>2, <2>3
  <2>5. seen[c] = {indexers \ caller[c].todo}
    BY <2>1, Mapping DEF Sees
  <2>6. indexers \ todo = (indexers \ caller[c].todo) \cup {p} /\ p \in indexers
    BY <2>1
  <2>7. Table!Visit(c, p)
    BY <1>1, <2>1, <2>4, <2>5, <2>6 DEF Table!Visit
  <2> QED
    BY <2>4, <2>7 DEF Table!Next
<1>6. CASE EndReset(c)
  <2>1. [caller[c] EXCEPT !.pc = "idle"] = [caller[c] EXCEPT !.pc = "idle", !.todo = {}]
    BY <1>0, <1>6 DEF EndReset, Caller
  <2>2. caller' = [caller EXCEPT ![c] = [caller[c] EXCEPT !.pc = "idle", !.todo = {}]]
    BY <1>6, <2>1 DEF EndReset, Goto
  <2> DEFINE new == [caller[c] EXCEPT !.pc = "idle", !.todo = {}]
  <2>a. new \in Caller /\ new.pc = "idle" /\ caller' = [caller EXCEPT ![c] = new]
    BY <1>0, <2>2 DEF Caller
  <2> HIDE DEF new
  <2>b. /\ Making' /\ asked' = [asked EXCEPT ![c] = {}] /\ answer' = [answer EXCEPT ![c] = {}]
        /\ seen' = [seen EXCEPT ![c] = {}]
    BY <1>1, <2>a, OneMoves DEF Asks, Has, Sees
  <2>3. Making' /\ asked' = asked /\ answer' = answer /\ seen' = [seen EXCEPT ![c] = {}]
    BY <1>1, <2>b, Mapping
  <2>4. seen[c] = {indexers}
    BY <1>6, Mapping DEF EndReset, At, Sees
  <2>5. Table!EndWalk(c)
    BY <1>1, <2>3, <2>4 DEF Table!EndWalk
  <2> QED
    BY <2>3, <2>5 DEF Table!Next
<1> QED
  BY <1>3, <1>4, <1>5, <1>6

\* A registry without indexers is an empty table.
LEMMA InitTable == Init => Making /\ Table!Init
<1> SUFFICES ASSUME Init PROVE Making /\ Table!Init
  OBVIOUS
<1>1. \A c \in Callers : caller[c].pc = "idle"
  BY IdleType DEF Init
<1>2. Making
  BY <1>1 DEF Making, At
<1>3. /\ asked = [c \in Callers |-> {}] /\ answer = [c \in Callers |-> {}]
      /\ seen = [c \in Callers |-> {}]
  BY <1>1, Mapping DEF Asks, Has, Sees
<1> QED
  BY <1>2, <1>3 DEF Init, Table!Init

\* Every step of the registry is a step of the table or one it does not see.
LEMMA NextTable == IInv /\ Making /\ [Next]_vars => Making' /\ [Table!Next]_(Table!vars)
<1> SUFFICES ASSUME IInv, Making, [Next]_vars PROVE Making' /\ [Table!Next]_(Table!vars)
  OBVIOUS
<1>1. ASSUME NEW c \in Callers, NEW p \in Projects, Call(c, p)
      PROVE  Making' /\ [Table!Next]_(Table!vars)
  <2> DEFINE new == [caller[c] EXCEPT !.pc = "lookup", !.project = p]
  <2>1. new \in Caller /\ new.pc = "lookup" /\ new.project = p
    BY DEF IInv, TypeOK, Caller
  <2>2. caller' = [caller EXCEPT ![c] = new] /\ caller[c].pc = "idle" /\ UNCHANGED <<indexers, errors>>
    BY <1>1 DEF Call, At, memory
  <2> HIDE DEF new
  <2>3. /\ Making' /\ asked' = [asked EXCEPT ![c] = {p}]
        /\ answer' = [answer EXCEPT ![c] = {}] /\ seen' = [seen EXCEPT ![c] = {}]
    BY <2>1, <2>2, OneMoves DEF Asks, Has, Sees
  <2>4. asked[c] = {} /\ answer[c] = {} /\ seen[c] = {} /\ answer' = answer /\ seen' = seen
    BY <2>2, <2>3, Mapping DEF Asks, Has, Sees
  <2>5. Table!Ask(c, p)
    BY <2>2, <2>3, <2>4 DEF Table!Ask, Table!Free
  <2> QED
    BY <2>3, <2>5 DEF Table!Next
<1>2. ASSUME NEW c \in Callers, BeginReset(c) \/ Acquire(c) \/ Proceed(c)
      PROVE  Making' /\ [Table!Next]_(Table!vars)
  BY <1>2, LookTable, ReturnTable, MakeTable, WalkTable DEF Acquire, Proceed
<1>3. ASSUME NEW gone \in BOOLEAN, Restart(gone)
      PROVE  Making' /\ [Table!Next]_(Table!vars)
  <2>1. indexers' = {} /\ errors' = {} /\ \A c \in Callers : caller'[c].pc = "idle"
    BY <1>3, IdleType DEF Restart
  <2>2. Making'
    BY <2>1 DEF Making, At
  <2>3. /\ asked' = [c \in Callers |-> {}] /\ answer' = [c \in Callers |-> {}]
        /\ seen' = [c \in Callers |-> {}]
    BY <2>1, Mapping DEF Asks, Has, Sees
  <2> QED
    BY <2>1, <2>2, <2>3 DEF Table!Restart, Table!Next
<1>4. CASE OldExits \/ UNCHANGED vars
  BY <1>4, Unmoved DEF OldExits, vars, memory
<1> QED
  BY <1>1, <1>2, <1>3, <1>4 DEF Next

\* However many requests come at once, the registry is a table whose entries are
\* made once, whose requests are answered with the entry or, for ever after a
\* failure, with the error, and of which kb.reset sees every entry
\* (daemon.go 644-684, handler_kb.go 464-470).
THEOREM Refines == Spec => ImplementsLazyTable
<1>1. Spec => []Making
  BY InitIInv, NextIInv, InitTable, NextTable, PTL DEF Spec
<1> QED
  BY <1>1, Inductive, InitTable, NextTable, PTL DEF Spec, ImplementsLazyTable, Table!Spec
=============================================================================
