-------------------------- MODULE IndexerRegistry --------------------------
(***************************************************************************)
(* The daemon's registry of project indexers (internal/svc/daemon.go).     *)
(* An indexer is made when a request first names its project, under the    *)
(* registry's write lock, and holds the file lock of the project's         *)
(* manifest until the process ends.  kb.reset walks the registry under the *)
(* read lock.  A restart hands the manifests over to a new process.        *)
(***************************************************************************)
EXTENDS Naturals, FiniteSets

CONSTANTS
  Projects,   \* project directories
  Callers     \* goroutines that serve requests

ASSUME SomeProject == Projects # {}

VARIABLES
  indexers,   \* projects whose indexer is published
  errors,     \* projects for which an error of NewIndexer is remembered
  writer,     \* who holds the write lock of the registry, or is the next to
  readers,    \* who holds its read lock
  caller,     \* goroutines: the next step, its project, the projects still to reset
  manifest    \* the lock of each manifest: free, open in this process, held by the old one

memory == <<indexers, errors>>
lock   == <<writer, readers>>
vars   == <<memory, lock, caller, manifest>>

\* A goroutine that asks for no indexer; the project is any one.
Idle == [pc |-> "idle", project |-> CHOOSE p \in Projects : TRUE, todo |-> {}]

Caller == [pc: {"idle", "lookup", "errors", "lock", "drain", "open", "wire",
                "found", "refused", "rlock", "reset"},
           project: Projects, todo: SUBSET Projects]

TypeOK ==
  /\ indexers \subseteq Projects
  /\ errors \subseteq Projects
  /\ writer \subseteq Callers
  /\ readers \subseteq Callers
  /\ \A c, d \in writer : c = d
  /\ caller \in [Callers -> Caller]
  /\ \A c \in writer : caller[c].pc # "drain" => readers = {}
  /\ manifest \in [Projects -> {"free", "open", "old"}]

At(c, pc) == caller[c].pc = pc
Goto(c, pc) == caller' = [caller EXCEPT ![c].pc = pc]
Project(c) == caller[c].project

Init ==
  /\ indexers = {} /\ errors = {} /\ writer = {} /\ readers = {}
  /\ caller = [c \in Callers |-> Idle]
  /\ manifest = [p \in Projects |-> "free"]

-----------------------------------------------------------------------------
(* getIndexer; before an action, its mutants *)

Call(c, p) ==
  /\ At(c, "idle")
  /\ caller' = [caller EXCEPT ![c].pc = "lookup", ![c].project = p]
  /\ UNCHANGED <<memory, lock, manifest>>

\* Under the read lock, in one step; the remembered error is read after it was
\* released.
Lookup(c) ==
  /\ At(c, "lookup") /\ writer = {}
  /\ Goto(c, IF Project(c) \in indexers THEN "errors" ELSE "lock")
  /\ UNCHANGED <<memory, lock, manifest>>

\* An error that is remembered is the answer even when there is an indexer.
Answer(c) == IF Project(c) \in errors THEN "refused" ELSE "found"

Errors(c) ==
  /\ At(c, "errors")
  /\ Goto(c, Answer(c))
  /\ UNCHANGED <<memory, lock, manifest>>

\* A writer that waits for the readers keeps new ones out.
Lock(c) ==
  /\ At(c, "lock") /\ writer = {}
  /\ writer' = {c}
  /\ Goto(c, "drain")
  /\ UNCHANGED <<memory, readers, manifest>>

SecondLook_Skipped(c) ==
  /\ At(c, "drain") /\ readers = {}
  /\ Goto(c, "open")
  /\ UNCHANGED <<memory, lock, manifest>>

SecondLook_AmongReaders(c) ==
  /\ At(c, "drain")
  /\ IF Project(c) \in indexers
     THEN Goto(c, Answer(c)) /\ writer' = {}
     ELSE Goto(c, "open") /\ UNCHANGED writer
  /\ UNCHANGED <<memory, readers, manifest>>

SecondLook_NoErrors(c) ==
  /\ At(c, "drain") /\ readers = {}
  /\ IF Project(c) \in indexers
     THEN Goto(c, "found") /\ writer' = {}
     ELSE Goto(c, "open") /\ UNCHANGED writer
  /\ UNCHANGED <<memory, readers, manifest>>

\* The double-check: what another call has published meanwhile is found, with
\* the error check again.
SecondLook(c) ==
  /\ At(c, "drain") /\ readers = {}
  /\ IF Project(c) \in indexers
     THEN Goto(c, Answer(c)) /\ writer' = {}
     ELSE Goto(c, "open") /\ UNCHANGED writer
  /\ UNCHANGED <<memory, readers, manifest>>

\* NewIndexer opens the manifest and starts the worker.
Open(c) ==
  /\ At(c, "open") /\ manifest[Project(c)] = "free"
  /\ manifest' = [manifest EXCEPT ![Project(c)] = "open"]
  /\ Goto(c, "wire")
  /\ UNCHANGED <<memory, lock>>

OpenFails_NotClosed(c) ==
  /\ At(c, "open")
  /\ errors' = errors \cup {Project(c)}
  /\ manifest' = [manifest EXCEPT ![Project(c)] = IF @ = "free" THEN "open" ELSE @]
  /\ writer' = {}
  /\ Goto(c, "refused")
  /\ UNCHANGED <<indexers, readers>>

OpenFails_NotUnlocked(c) ==
  /\ At(c, "open")
  /\ errors' = errors \cup {Project(c)}
  /\ Goto(c, "refused")
  /\ UNCHANGED <<indexers, lock, manifest>>

\* Someone else has the manifest for more than two seconds, or the disk fails,
\* and then what was opened is closed again: the error is remembered, nothing is
\* published, and the next call tries again.
OpenFails(c) ==
  /\ At(c, "open")
  /\ errors' = errors \cup {Project(c)}
  /\ writer' = {}
  /\ Goto(c, "refused")
  /\ UNCHANGED <<indexers, readers, manifest>>

\* Callbacks, the version recorder and the entity definitions of the project are
\* set while the worker runs already; then the indexer is published.
Publish(c) ==
  /\ At(c, "wire")
  /\ indexers' = indexers \cup {Project(c)}
  /\ writer' = {}
  /\ Goto(c, "found")
  /\ UNCHANGED <<errors, readers, manifest>>

\* The caller has its answer: an indexer or an error.
Return(c) ==
  /\ At(c, "found") \/ At(c, "refused")
  /\ caller' = [caller EXCEPT ![c] = Idle]
  /\ UNCHANGED <<memory, lock, manifest>>

-----------------------------------------------------------------------------
(* kb.reset *)

\* The graph has been cleared, without any lock.  What is cleared, and how the
\* workers get in between, is in module Indexer.
BeginReset(c) ==
  /\ At(c, "idle")
  /\ Goto(c, "rlock")
  /\ UNCHANGED <<memory, lock, manifest>>

RLock(c) ==
  /\ At(c, "rlock") /\ writer = {}
  /\ readers' = readers \cup {c}
  /\ caller' = [caller EXCEPT ![c].pc = "reset", ![c].todo = indexers]
  /\ UNCHANGED <<memory, writer, manifest>>

\* One manifest; one that cannot be cleared is logged and passed over.
ResetManifest(c, p) ==
  /\ At(c, "reset") /\ p \in caller[c].todo
  /\ caller' = [caller EXCEPT ![c].todo = @ \ {p}]
  /\ UNCHANGED <<memory, lock, manifest>>

EndReset(c) ==
  /\ At(c, "reset") /\ caller[c].todo = {}
  /\ readers' = readers \ {c}
  /\ Goto(c, "idle")
  /\ UNCHANGED <<memory, writer, manifest>>

-----------------------------------------------------------------------------
(* Processes *)

\* Restart starts the new process before the old one has exited; after a crash or
\* a shutdown the locks of the old one are gone.
Restart(gone) ==
  /\ indexers' = {} /\ errors' = {} /\ writer' = {} /\ readers' = {}
  /\ caller' = [c \in Callers |-> Idle]
  /\ manifest' = [p \in Projects |-> IF gone \/ manifest[p] = "free" THEN "free" ELSE "old"]

OldExits ==
  /\ \E p \in Projects : manifest[p] = "old"
  /\ manifest' = [p \in Projects |-> IF manifest[p] = "old" THEN "free" ELSE manifest[p]]
  /\ UNCHANGED <<memory, lock, caller>>

-----------------------------------------------------------------------------

Acquire(c) == Lookup(c) \/ Lock(c) \/ RLock(c)

Proceed(c) ==
  \/ Errors(c)
  \/ SecondLook(c)
  \/ Open(c)
  \/ OpenFails(c)
  \/ Publish(c)
  \/ Return(c)
  \/ \E p \in Projects : ResetManifest(c, p)
  \/ EndReset(c)

Next ==
  \/ \E c \in Callers, p \in Projects : Call(c, p)
  \/ \E c \in Callers : BeginReset(c) \/ Acquire(c) \/ Proceed(c)
  \/ \E gone \in BOOLEAN : Restart(gone)
  \/ OldExits

Spec == Init /\ [][Next]_vars

\* Goroutines are scheduled, bbolt gives up after two seconds, and Go's RWMutex
\* starves neither readers nor writers.
Fairness == \A c \in Callers : WF_vars(Proceed(c)) /\ SF_vars(Acquire(c))

FairSpec == Spec /\ Fairness

-----------------------------------------------------------------------------
(* Properties *)

\* NewIndexer never waits for a manifest that its own process has open: two
\* first requests for a project do not both make an indexer, and the one that
\* came second does not fail after two seconds (daemon.go:658-664).
OpensOnce == \A c \in Callers : At(c, "open") => manifest[Project(c)] # "open"

\* A manifest is open exactly when its indexer can be found, or is being wired
\* by the one call that holds the lock: no worker runs that nobody can reach,
\* and no failure leaves a project locked (manifest.go:44-54, daemon.go:679-684).
NoOrphan ==
  \A p \in Projects : manifest[p] = "open" <=>
    p \in indexers \/ \E c \in writer : At(c, "wire") /\ Project(c) = p

\* While kb.reset walks the registry no indexer is published behind its back, so
\* at its end it has gone through every one there is (handler_kb.go:464-470).
ResetCovers ==
  [][\A c \in Callers : At(c, "reset") => indexers' \subseteq indexers]_vars

\* The requests without an answer, the answers on their way back, and what the
\* walks have been at.
asked == [c \in Callers |->
  IF caller[c].pc \in {"lookup", "errors", "lock", "drain", "open", "wire"} THEN {Project(c)}
  ELSE {}]

answer == [c \in Callers |->
  IF At(c, "found") THEN {"entry"} ELSE IF At(c, "refused") THEN {"error"} ELSE {}]

seen == [c \in Callers |-> IF At(c, "reset") THEN {indexers \ caller[c].todo} ELSE {}]

Table == INSTANCE LazyTable WITH
  Keys <- Projects, Clients <- Callers, made <- indexers, failed <- errors

\* The double-checked lookup, with its error check after the lock was released,
\* is one lookup: each call of getIndexer takes effect at one instant, at which
\* it makes the only indexer, or fails because it could not be made, or finds
\* the one there is.  Whoever finds one gets it if no call for the project has
\* failed in this process, and the remembered error if one has, although it is
\* there.  And kb.reset goes through exactly the indexers there were when it
\* began (daemon.go:644-684, handler_kb.go:464-470).
ImplementsLazyTable == Table!Spec

\* Every request is answered, whatever fails on the way.
EveryCallAnswered == \A c \in Callers : ~At(c, "idle") ~> At(c, "idle")

-----------------------------------------------------------------------------
(* What a comment of the code claims, and the code does not do *)

\* daemon.go 643: "getIndexer lazily creates or returns an Indexer for the given
\* projectDir."  So a call that finds one has no error to return.
GetReturnsIndexer == \A c \in Callers : At(c, "errors") => Project(c) \notin errors
=============================================================================
