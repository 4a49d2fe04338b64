------------------------------ MODULE Indexer ------------------------------
(***************************************************************************)
(* The project file indexer (pkg/indexing).  One worker goroutine drains a *)
(* queue that is kept in a bbolt manifest; RPC handlers (kb.index.*,       *)
(* kb.reset, session.delete) add, enqueue and remove entries while it      *)
(* runs.  Every bbolt transaction is one step: the code reads an entry in  *)
(* one transaction and writes its private copy back in another, and that   *)
(* gap is what the module is about.                                        *)
(***************************************************************************)
EXTENDS Naturals, FiniteSets

CONSTANTS
  NumFiles,     \* files of the project
  MaxVersion,   \* bound: how often the content of a file can change
  MaxCrashes,   \* bound: how often the process dies and restarts
  Clients       \* RPC handlers that may run at the same time

ASSUME ConstantsAssumption ==
  /\ NumFiles \in Nat \ {0}
  /\ MaxVersion \in Nat \ {0}
  /\ MaxCrashes \in Nat

\* Manifest keys in bbolt's byte order: a directory sorts before its files.
NoPath     == 0
ProjectDir == 1
Files      == 2 .. NumFiles + 1
Paths      == 1 .. NumFiles + 1

Version == 0 .. MaxVersion       \* mtime and size of a file; 0: none
Chunk   == Paths \X Version      \* the chunks AddFile makes of one content

FileState == {"absent", "pending", "enqueued", "processing", "indexed", "failed"}
FileMeta  == [state: FileState, ver: Version, chunks: SUBSET Chunk]
Absent    == [state |-> "absent", ver |-> 0, chunks |-> {}]

VARIABLES
  disk,         \* the version of each file on disk, 0 when it does not exist
  manifest,     \* the "files" bucket
  store,        \* the chunks held by the graph indexer
  notify,       \* is there a token in the channel of capacity one?
  stopped,      \* is the stop channel closed?
  processing,   \* Indexer.processing, NoPath for ""
  worker,       \* the worker goroutine: pc, the dequeued path, its copy, what it indexed
  client,       \* the handlers: the next step, its path, the stat result, the chunk list read
  crashes

vars == <<disk, manifest, store, notify, stopped, processing, worker, client, crashes>>

Worker == [pc: {"check", "wait", "claim", "dir", "file", "read", "stat", "put",
                "clear", "recover", "retract", "exited"},
           path: Paths \cup {NoPath}, meta: FileMeta, read: Version]
Client == [pc: {"idle", "add_read", "add_chunks", "add_put", "add_dir", "add_putdir",
                "notify", "rm_chunks", "rm_delete", "reset"},
           path: Paths \cup {NoPath}, ver: Version, chunks: SUBSET Chunk]

IdleWorker == [pc |-> "check", path |-> NoPath, meta |-> Absent, read |-> 0]
IdleClient == [pc |-> "idle", path |-> NoPath, ver |-> 0, chunks |-> {}]

TypeOK ==
  /\ disk \in [Files -> Version]
  /\ manifest \in [Paths -> FileMeta]
  /\ store \subseteq Chunk
  /\ notify \in BOOLEAN
  /\ stopped \in BOOLEAN
  /\ processing \in Paths \cup {NoPath}
  /\ worker \in Worker
  /\ client \in [Clients -> Client]
  /\ crashes \in 0 .. MaxCrashes

Init ==
  /\ disk = [f \in Files |-> 1]
  /\ manifest = [p \in Paths |-> Absent]
  /\ store = {}
  /\ notify = FALSE
  /\ stopped = FALSE
  /\ processing = NoPath
  /\ worker = IdleWorker
  /\ client = [c \in Clients |-> IdleClient]
  /\ crashes = 0

-----------------------------------------------------------------------------
(* Manifest transactions *)

Enqueued == {p \in Paths : manifest[p].state = "enqueued"}

\* firstEnqueued's callback returns FALSE at the first match, and forEach
\* then returns nil to bbolt, which goes on: the last match is what remains.
firstEnqueued == {p \in Enqueued : \A q \in Enqueued : q <= p}

put(p, meta) == manifest' = [manifest EXCEPT ![p] = meta]

moveToEnqueued(S) ==
  [p \in Paths |-> IF p \in S /\ manifest[p].state = "pending"
                   THEN [manifest[p] EXCEPT !.state = "enqueued"]
                   ELSE manifest[p]]

\* What NewIndexer makes of the entries a dead process left in Processing;
\* before it, as everywhere below, the mutants the README describes.
resetStaleProcessing_Kept == manifest

resetStaleProcessing_NewState ==
  [p \in Paths |-> IF manifest[p].state = "processing"
                   THEN [manifest[p] EXCEPT !.state = "interrupted"]
                   ELSE manifest[p]]

resetStaleProcessing ==
  [p \in Paths |-> IF manifest[p].state = "processing"
                   THEN [manifest[p] EXCEPT !.state = "failed"]
                   ELSE manifest[p]]

-----------------------------------------------------------------------------
(* RPC handlers *)

Step(c, pc) == client[c].pc = pc
Goto(c, pc) == client' = [client EXCEPT ![c].pc = pc]
Return(c)   == client' = [client EXCEPT ![c] = IdleClient]

AlreadyCurrent(meta, ver) ==
  meta.ver = ver /\ meta.state \in {"indexed", "failed"}

\* Add: stat the file, then read its entry; a changed file loses its chunks.
AddStat(c, f) ==
  /\ Step(c, "idle")
  /\ disk[f] # 0
  /\ client' = [client EXCEPT ![c] =
       [IdleClient EXCEPT !.pc = "add_read", !.path = f, !.ver = disk[f]]]
  /\ UNCHANGED <<disk, manifest, store, notify, stopped, processing, worker, crashes>>

AddRead(c) ==
  LET old   == manifest[client[c].path]
      stale == old.ver # client[c].ver /\ old.chunks # {}
  IN /\ Step(c, "add_read")
     /\ \/ AlreadyCurrent(old, client[c].ver) /\ Return(c)
        \/ /\ ~AlreadyCurrent(old, client[c].ver)
           /\ client' = [client EXCEPT ![c].pc = IF stale THEN "add_chunks" ELSE "add_put",
                                       ![c].chunks = old.chunks]
     /\ UNCHANGED <<disk, manifest, store, notify, stopped, processing, worker, crashes>>

AddRemoveChunks(c) ==
  /\ Step(c, "add_chunks")
  /\ store' = store \ client[c].chunks
  /\ Goto(c, "add_put")
  /\ UNCHANGED <<disk, manifest, notify, stopped, processing, worker, crashes>>

AddPut(c) ==
  /\ Step(c, "add_put")
  /\ put(client[c].path, [state |-> "pending", ver |-> client[c].ver, chunks |-> client[c].chunks])
  /\ client' = [client EXCEPT ![c] = [IdleClient EXCEPT !.pc = "add_dir"]]
  /\ UNCHANGED <<disk, store, notify, stopped, processing, worker, crashes>>

\* upsertParentDirs, for the one directory of the model: read, then write.
AddReadDir(c) ==
  /\ Step(c, "add_dir")
  /\ IF manifest[ProjectDir].state \in {"absent", "indexed"}
     THEN client' = [client EXCEPT ![c] =
            [IdleClient EXCEPT !.pc = "add_putdir", !.chunks = manifest[ProjectDir].chunks]]
     ELSE Return(c)
  /\ UNCHANGED <<disk, manifest, store, notify, stopped, processing, worker, crashes>>

AddPutDir(c) ==
  /\ Step(c, "add_putdir")
  /\ put(ProjectDir, [state |-> "pending", ver |-> 0, chunks |-> client[c].chunks])
  /\ Return(c)
  /\ UNCHANGED <<disk, store, notify, stopped, processing, worker, crashes>>

\* Enqueue: one transaction, then a non-blocking send when it moved anything.
EnqueueMove(c, S) ==
  /\ Step(c, "idle")
  /\ \E p \in S : manifest[p].state = "pending"
  /\ manifest' = moveToEnqueued(S)
  /\ Goto(c, "notify")
  /\ UNCHANGED <<disk, store, notify, stopped, processing, worker, crashes>>

\* Without a buffer the send is lost on a worker that has not reached select.
EnqueueNotify_Unbuffered(c) ==
  /\ Step(c, "notify")
  /\ notify' \in {notify, worker.pc = "wait"}
  /\ Return(c)
  /\ UNCHANGED <<disk, manifest, store, stopped, processing, worker, crashes>>

EnqueueNotify(c) ==
  /\ Step(c, "notify")
  /\ notify' = TRUE
  /\ Return(c)
  /\ UNCHANGED <<disk, manifest, store, stopped, processing, worker, crashes>>

\* RemoveFile: read and refuse a Processing entry, remove its chunks, delete.
RemoveRead(c, p) ==
  /\ Step(c, "idle")
  /\ manifest[p].state \notin {"absent", "processing"}
  /\ client' = [client EXCEPT ![c] =
       [pc |-> IF manifest[p].chunks = {} THEN "rm_delete" ELSE "rm_chunks",
        path |-> p, ver |-> 0, chunks |-> manifest[p].chunks]]
  /\ UNCHANGED <<disk, manifest, store, notify, stopped, processing, worker, crashes>>

RemoveChunks(c) ==
  /\ Step(c, "rm_chunks")
  /\ store' = store \ client[c].chunks
  /\ client' = [client EXCEPT ![c].pc = "rm_delete", ![c].chunks = {}]
  /\ UNCHANGED <<disk, manifest, notify, stopped, processing, worker, crashes>>

RemoveDelete(c) ==
  /\ Step(c, "rm_delete")
  /\ put(client[c].path, Absent)
  /\ Return(c)
  /\ UNCHANGED <<disk, store, notify, stopped, processing, worker, crashes>>

\* kb.reset: empty the graph indexer, then the manifest.
ResetStore(c) ==
  /\ Step(c, "idle")
  /\ store' = {}
  /\ Goto(c, "reset")
  /\ UNCHANGED <<disk, manifest, notify, stopped, processing, worker, crashes>>

ResetManifest(c) ==
  /\ Step(c, "reset")
  /\ manifest' = [p \in Paths |-> Absent]
  /\ Return(c)
  /\ UNCHANGED <<disk, store, notify, stopped, processing, worker, crashes>>

\* session.delete stops the indexer of the session's project and keeps it.
Stop ==
  /\ ~stopped
  /\ stopped' = TRUE
  /\ UNCHANGED <<disk, manifest, store, notify, processing, worker, client, crashes>>

-----------------------------------------------------------------------------
(* The worker goroutine *)

At(pc) == worker.pc = pc

\* Take an enqueued entry, or report the queue empty and wait.
WorkerCheck ==
  /\ At("check")
  /\ \/ /\ Enqueued = {}
        /\ worker' = [IdleWorker EXCEPT !.pc = "wait"]
     \/ \E p \in firstEnqueued :
          worker' = [pc |-> "claim", path |-> p, meta |-> manifest[p], read |-> 0]
  /\ UNCHANGED <<disk, manifest, store, notify, stopped, processing, client, crashes>>

WorkerWake ==
  /\ At("wait")
  /\ notify
  /\ notify' = FALSE
  /\ worker' = IdleWorker
  /\ UNCHANGED <<disk, manifest, store, stopped, processing, client, crashes>>

WorkerExit ==
  /\ At("wait")
  /\ stopped
  /\ worker' = [worker EXCEPT !.pc = "exited"]
  /\ UNCHANGED <<disk, manifest, store, notify, stopped, processing, client, crashes>>

\* processNext gives up when stop is closed, and workerLoop ignores that.
WorkerSkip ==
  /\ At("claim")
  /\ stopped
  /\ worker' = IdleWorker
  /\ UNCHANGED <<disk, manifest, store, notify, stopped, processing, client, crashes>>

\* Without the first write of processNext the entry stays enqueued.
WorkerClaim_Unmarked ==
  /\ At("claim")
  /\ ~stopped
  /\ worker' = [worker EXCEPT !.pc = IF worker.path = ProjectDir THEN "dir" ELSE "file",
                              !.meta = [@ EXCEPT !.state = "processing"]]
  /\ processing' = worker.path
  /\ UNCHANGED <<disk, manifest, store, notify, stopped, client, crashes>>

WorkerClaim ==
  /\ At("claim")
  /\ ~stopped
  /\ LET meta == [worker.meta EXCEPT !.state = "processing"]
     IN /\ put(worker.path, meta)
        /\ worker' = [worker EXCEPT !.pc = IF worker.path = ProjectDir THEN "dir" ELSE "file",
                                    !.meta = meta]
  /\ processing' = worker.path
  /\ UNCHANGED <<disk, store, notify, stopped, client, crashes>>

\* The worker settles on the outcome; WorkerPut writes it.
Conclude(state, ver, chunks) ==
  worker' = [worker EXCEPT !.pc = "put",
                           !.meta = [state |-> state, ver |-> ver, chunks |-> chunks]]

\* processDir: the region indexer fails, or summarizes and maybe has a README to
\* index, whose content does not change here.  Old chunks are not removed.
WorkerDir ==
  /\ At("dir")
  /\ \/ /\ Conclude("failed", worker.meta.ver, worker.meta.chunks)
        /\ UNCHANGED store
     \/ /\ Conclude("indexed", worker.meta.ver, worker.meta.chunks)
        /\ UNCHANGED store
     \/ /\ store' = store \cup {<<ProjectDir, 1>>}
        /\ Conclude("indexed", worker.meta.ver, {<<ProjectDir, 1>>})
  /\ UNCHANGED <<disk, manifest, notify, stopped, processing, client, crashes>>

\* processFile: not ready, or remove the chunks of the copy before indexing.
WorkerFile ==
  /\ At("file")
  /\ \/ /\ Conclude("failed", worker.meta.ver, worker.meta.chunks)
        /\ UNCHANGED store
     \/ /\ store' = store \ worker.meta.chunks
        /\ worker' = [worker EXCEPT !.pc = "read"]
  /\ UNCHANGED <<disk, manifest, notify, stopped, processing, client, crashes>>

\* indexFile: an error, content that yields no chunks, or chunks of what is
\* on disk now.
WorkerIndex ==
  /\ At("read")
  /\ \/ /\ Conclude("failed", worker.meta.ver, worker.meta.chunks)
        /\ UNCHANGED store
     \/ /\ disk[worker.path] # 0
        /\ \E v \in {0, disk[worker.path]} :
             /\ store' = IF v = 0 THEN store ELSE store \cup {<<worker.path, v>>}
             /\ worker' = [worker EXCEPT !.pc = "stat", !.read = v]
  /\ UNCHANGED <<disk, manifest, notify, stopped, processing, client, crashes>>

\* The stat that dates the entry comes after the content was read.
WorkerStat ==
  /\ At("stat")
  /\ Conclude("indexed",
              IF disk[worker.path] = 0 THEN worker.meta.ver ELSE disk[worker.path],
              IF worker.read = 0 THEN worker.meta.chunks ELSE {<<worker.path, worker.read>>})
  /\ UNCHANGED <<disk, manifest, store, notify, stopped, processing, client, crashes>>

WorkerPut_RetryFailed ==
  /\ At("put")
  /\ put(worker.path, IF worker.meta.state = "failed"
                      THEN [worker.meta EXCEPT !.state = "enqueued"] ELSE worker.meta)
  /\ worker' = [IdleWorker EXCEPT !.pc = "clear"]
  /\ UNCHANGED <<disk, store, notify, stopped, processing, client, crashes>>

WorkerPut ==
  /\ At("put")
  /\ put(worker.path, worker.meta)
  /\ worker' = [IdleWorker EXCEPT !.pc = "clear"]
  /\ UNCHANGED <<disk, store, notify, stopped, processing, client, crashes>>

WorkerClear ==
  /\ At("clear")
  /\ processing' = NoPath
  /\ worker' = IdleWorker
  /\ UNCHANGED <<disk, manifest, store, notify, stopped, client, crashes>>

\* What a step that panics may have done to the store.
Interrupted ==
  {store} \cup
    CASE At("dir")  -> {store \cup {<<ProjectDir, 1>>}}
      [] At("file") -> {store \ worker.meta.chunks}
      [] At("read") /\ disk[worker.path] # 0 -> {store \cup {<<worker.path, disk[worker.path]>>}}
      [] OTHER -> {}

\* A panic at any point of processNext, in the graph indexer or a callback, the
\* callbacks after the outcome was written included: the deferred function
\* clears processing and reads the entry of the path it found there.
WorkerPanic ==
  /\ worker.pc \in {"dir", "file", "read", "stat", "put", "clear"}
  /\ store' \in Interrupted
  /\ processing' = NoPath
  /\ worker' = IF manifest[processing].state = "absent" THEN IdleWorker
               ELSE [pc |-> IF At("clear") THEN "retract" ELSE "recover", path |-> processing,
                     meta |-> [manifest[processing] EXCEPT !.state = "failed"], read |-> 0]
  /\ UNCHANGED <<disk, manifest, notify, stopped, client, crashes>>

WorkerRecover_NoPut ==
  /\ At("recover") \/ At("retract")
  /\ worker' = IdleWorker
  /\ UNCHANGED <<disk, manifest, store, notify, stopped, processing, client, crashes>>

\* The failure is written, over the outcome if there is one.
WorkerRecover ==
  /\ At("recover") \/ At("retract")
  /\ put(worker.path, worker.meta)
  /\ worker' = IdleWorker
  /\ UNCHANGED <<disk, store, notify, stopped, processing, client, crashes>>

-----------------------------------------------------------------------------
(* Environment *)

EditFile(f) ==
  /\ disk[f] \in 1 .. MaxVersion - 1
  /\ disk' = [disk EXCEPT ![f] = @ + 1]
  /\ UNCHANGED <<manifest, store, notify, stopped, processing, worker, client, crashes>>

DeleteFile(f) ==
  /\ disk[f] # 0
  /\ disk' = [disk EXCEPT ![f] = 0]
  /\ UNCHANGED <<manifest, store, notify, stopped, processing, worker, client, crashes>>

\* The process dies; NewIndexer reopens the manifest and starts a worker.
Restart ==
  /\ crashes < MaxCrashes
  /\ crashes' = crashes + 1
  /\ manifest' = resetStaleProcessing
  /\ notify' = FALSE
  /\ stopped' = FALSE
  /\ processing' = NoPath
  /\ worker' = IdleWorker
  /\ client' = [c \in Clients |-> IdleClient]
  /\ UNCHANGED <<disk, store>>

-----------------------------------------------------------------------------

ClientStart(c) ==
  \/ \E f \in Files : AddStat(c, f)
  \/ \E S \in SUBSET Paths : EnqueueMove(c, S)
  \/ \E p \in Paths : RemoveRead(c, p)
  \/ ResetStore(c)

ClientStep(c) ==
  \/ AddRead(c)
  \/ AddRemoveChunks(c)
  \/ AddPut(c)
  \/ AddReadDir(c)
  \/ AddPutDir(c)
  \/ EnqueueNotify(c)
  \/ RemoveChunks(c)
  \/ RemoveDelete(c)
  \/ ResetManifest(c)

WorkerStep ==
  \/ WorkerCheck
  \/ WorkerWake
  \/ WorkerSkip
  \/ WorkerClaim
  \/ WorkerDir
  \/ WorkerFile
  \/ WorkerIndex
  \/ WorkerStat
  \/ WorkerPut
  \/ WorkerClear
  \/ WorkerRecover

Environment ==
  \/ \E f \in Files : EditFile(f)
  \/ \E f \in Files : DeleteFile(f)
  \/ Restart

Next ==
  \/ \E c \in Clients : ClientStart(c)
  \/ \E c \in Clients : ClientStep(c)
  \/ Stop
  \/ WorkerStep
  \/ WorkerExit
  \/ WorkerPanic
  \/ Environment

Spec == Init /\ [][Next]_vars

\* A handler that has begun runs to its end and the worker goroutine is
\* scheduled; select takes a ready channel at random, so the exit is not
\* passed over for ever.  Nothing is assumed of clients, disk or crashes.
Fairness ==
  /\ \A c \in Clients : WF_vars(ClientStep(c))
  /\ WF_vars(WorkerStep)
  /\ SF_vars(WorkerExit)

FairSpec == Spec /\ Fairness

-----------------------------------------------------------------------------
(* Properties *)

\* An entry shows "processing" only while the worker is at work on it, through
\* panics, restarts and handlers that write back entries they read before
\* (indexer.go 384-394 and 629-651 rely on it).
ProcessingOwned ==
  \A p \in Paths : manifest[p].state = "processing" =>
    /\ worker.path = p
    /\ \/ worker.pc \in {"dir", "file", "read", "stat", "put"} /\ processing = p
       \/ worker.pc = "recover"

\* The worker never sleeps on a non-empty queue without a wake-up on its way
\* (the capacity of one of notify, indexer.go 70 and 306-310).
NoLostWakeup ==
  worker.pc = "wait" /\ Enqueued # {} => notify \/ \E c \in Clients : client[c].pc = "notify"

\* Whatever is being processed is settled in the end, panics included.
ProcessingEnds ==
  \A p \in Paths : manifest[p].state = "processing" ~> manifest[p].state # "processing"

\* When the handlers fall silent the worker drains the queue, unless stopped.
QuiescentDrain ==
  <>[](\A c \in Clients : client[c].pc = "idle") => <>[](Enqueued = {} \/ stopped)

\* The entry the worker has marked and not yet let go.
Active == IF worker.pc \in {"dir", "file", "read", "stat", "put", "recover", "retract"}
          THEN {worker.path}
          ELSE IF At("clear") THEN {processing} ELSE {}

\* Is its outcome in the manifest?
Told == worker.pc \in {"clear", "retract"}

Queue == INSTANCE WorkQueue WITH
           status <- [p \in Paths |-> manifest[p].state], active <- Active, told <- Told

\* The indexer is a queue with one worker: whatever handlers do to the entry being
\* processed meanwhile, an outcome is written only for an entry that was claimed,
\* once per claim, and no other is claimed before.  Only a panic in the callback
\* that announces the outcome is written over it, as a failure
\* (indexer.go:677-704, 711-949).
ImplementsQueue == Queue!Spec

-----------------------------------------------------------------------------
(* What a comment of the code claims, and the code does not do *)

\* indexer.go 142: "Stop signals the worker to stop gracefully."
StopEndsWorker == stopped ~> (worker.pc = "exited" \/ ~stopped)
=============================================================================
