--------------------------- MODULE IndexerProofs ---------------------------
(***************************************************************************)
(* Proofs about Indexer, for any number of files, versions, handlers and   *)
(* crashes.                                                                *)
(***************************************************************************)
EXTENDS Indexer, TLAPS

\* What the worker's private copy says at each step of its loop, and that the
\* field "processing" names the path it works on.
WorkerShape ==
  /\ worker.pc \in {"claim", "dir", "file", "read", "stat", "put", "recover", "retract"}
       => worker.path \in Paths
  /\ worker.pc \in {"dir", "file", "read", "stat", "put"} => processing = worker.path
  /\ worker.pc = "clear" => processing \in Paths
  /\ worker.pc \in {"file", "read", "stat"} => worker.path \in Files
  /\ worker.pc = "put" => worker.meta.state \in {"indexed", "failed"}
  /\ worker.pc \in {"recover", "retract"} => worker.meta.state = "failed"

\* A handler that is about to read a record has the path of a file.
HandlerShape == \A c \in Clients : client[c].pc = "add_read" => client[c].path \in Files

IInv == TypeOK /\ WorkerShape /\ HandlerShape /\ ProcessingOwned /\ NoLostWakeup

-----------------------------------------------------------------------------

\* The directory, the files and the null path are apart.
LEMMA PathsFacts == /\ ProjectDir \in Paths
                    /\ Files \subseteq Paths
                    /\ NoPath \notin Paths
                    /\ ProjectDir \notin Files
                    /\ \A p \in Paths : p # ProjectDir => p \in Files
                    /\ 0 \in Version /\ 1 \in Version
                    /\ 1 .. MaxVersion \subseteq Version
BY ConstantsAssumption DEF ProjectDir, Paths, Files, NoPath, Version

\* Initially the manifest is empty and the worker looks at it.
LEMMA InitIInv == Init => IInv
<1> SUFFICES ASSUME Init PROVE IInv
  OBVIOUS
<1>1. TypeOK
  <2>1. Absent \in FileMeta
    BY PathsFacts DEF Absent, FileMeta, FileState
  <2>2. IdleWorker \in Worker /\ IdleClient \in Client
    BY <2>1, PathsFacts DEF IdleWorker, Worker, IdleClient, Client
  <2>3. 0 \in 0 .. MaxCrashes
    BY ConstantsAssumption
  <2>4. NoPath \in Paths \cup {NoPath} /\ {} \subseteq Chunk
    OBVIOUS
  <2> QED
    BY <2>1, <2>2, <2>3, <2>4, PathsFacts DEF Init, TypeOK
<1>2. WorkerShape /\ HandlerShape /\ ProcessingOwned /\ NoLostWakeup
  BY DEF Init, WorkerShape, HandlerShape, ProcessingOwned, NoLostWakeup, IdleWorker, IdleClient,
         Absent, Paths
<1> QED
  BY <1>1, <1>2 DEF IInv

-----------------------------------------------------------------------------
(* Type correctness, action by action *)

\* Handlers keep the types.
LEMMA ClientTypes ==
  ASSUME TypeOK, HandlerShape, NEW c \in Clients, ClientStart(c) \/ ClientStep(c)
  PROVE  TypeOK'
<1> USE PathsFacts DEF TypeOK, Step, Goto, Return, put
<1>1. IdleClient \in Client
  BY DEF IdleClient, Client
<1>2. Absent \in FileMeta
  BY DEF Absent, FileMeta, FileState
<1>a. /\ client[c].path \in Paths \cup {NoPath}
      /\ client[c].ver \in Version
      /\ client[c].chunks \subseteq Chunk
  BY DEF Client
<1>b. \A p \in Paths : manifest[p].ver \in Version /\ manifest[p].chunks \subseteq Chunk
  BY DEF FileMeta
<1>3. ASSUME NEW f \in Files, AddStat(c, f) PROVE TypeOK'
  <2>1. [IdleClient EXCEPT !.pc = "add_read", !.path = f, !.ver = disk[f]] \in Client
    BY <1>1 DEF Client
  <2> QED BY <1>3, <2>1 DEF AddStat
<1>3a. CASE AddRead(c)
  <2>1. client[c].path \in Paths
    BY <1>3a DEF AddRead, HandlerShape
  <2>2. manifest[client[c].path].chunks \in SUBSET Chunk
    BY <1>b, <2>1
  <2>3. [client[c] EXCEPT !.pc = IF manifest[client[c].path].ver # client[c].ver
                                    /\ manifest[client[c].path].chunks # {}
                                 THEN "add_chunks" ELSE "add_put",
                          !.chunks = manifest[client[c].path].chunks] \in Client
    BY <2>2 DEF Client
  <2>4. client' \in [Clients -> Client]
    BY <1>3a, <1>1, <2>3 DEF AddRead
  <2> QED
    BY <1>3a, <2>4 DEF AddRead
<1>4. CASE AddRemoveChunks(c)
  BY <1>4, <1>a DEF AddRemoveChunks, Client
<1>5. CASE AddPut(c)
  <2>1. [IdleClient EXCEPT !.pc = "add_dir"] \in Client
    BY DEF IdleClient, Client
  <2>2. [state |-> "pending", ver |-> client[c].ver, chunks |-> client[c].chunks] \in FileMeta
    BY <1>a DEF FileMeta, FileState
  <2> QED
    BY <1>5, <2>1, <2>2, <1>a DEF AddPut
<1>6. CASE AddReadDir(c)
  <2>1. [IdleClient EXCEPT !.pc = "add_putdir", !.chunks = manifest[ProjectDir].chunks] \in Client
    BY <1>b DEF IdleClient, Client
  <2> QED
    BY <1>6, <2>1, <1>1 DEF AddReadDir
<1>7. CASE AddPutDir(c)
  BY <1>7, <1>a, <1>1 DEF AddPutDir, FileMeta, FileState
<1>8. ASSUME NEW S \in SUBSET Paths, EnqueueMove(c, S) PROVE TypeOK'
  <2>1. moveToEnqueued(S) \in [Paths -> FileMeta]
    BY DEF moveToEnqueued, FileMeta, FileState
  <2> QED
    BY <1>8, <2>1 DEF EnqueueMove, Client
<1>9. CASE EnqueueNotify(c)
  BY <1>9, <1>1 DEF EnqueueNotify
<1>10. ASSUME NEW p \in Paths, RemoveRead(c, p) PROVE TypeOK'
  <2>1. [pc |-> IF manifest[p].chunks = {} THEN "rm_delete" ELSE "rm_chunks",
         path |-> p, ver |-> 0, chunks |-> manifest[p].chunks] \in Client
    BY <1>b DEF Client
  <2>2. client' \in [Clients -> Client]
    BY <1>10, <2>1 DEF RemoveRead
  <2> QED
    BY <1>10, <2>2 DEF RemoveRead
<1>11. CASE RemoveChunks(c)
  <2>1. [client[c] EXCEPT !.pc = "rm_delete", !.chunks = {}] \in Client
    BY DEF Client
  <2>2. client' = [client EXCEPT ![c] = [client[c] EXCEPT !.pc = "rm_delete", !.chunks = {}]]
    BY <1>11 DEF RemoveChunks
  <2>3. client' \in [Clients -> Client]
    BY <2>1, <2>2
  <2> QED
    BY <1>11, <2>3 DEF RemoveChunks
<1>12. CASE RemoveDelete(c)
  BY <1>12, <1>1, <1>2 DEF RemoveDelete
<1>13. CASE ResetStore(c)
  BY <1>13 DEF ResetStore, Client
<1>14. CASE ResetManifest(c)
  BY <1>14, <1>1, <1>2 DEF ResetManifest
<1> QED
  BY <1>3, <1>3a, <1>4, <1>5, <1>6, <1>7, <1>8, <1>9, <1>10, <1>11, <1>12, <1>13, <1>14
  DEF ClientStart, ClientStep

\* Only Add's stat leads to Add's read of the record.
LEMMA ClientShape ==
  ASSUME TypeOK, HandlerShape, NEW c \in Clients, ClientStart(c) \/ ClientStep(c)
  PROVE  HandlerShape'
<1> USE DEF Step, Goto, Return, IdleClient
<1>0. client \in [Clients -> Client]
  BY DEF TypeOK
<1>1. ASSUME NEW f \in Files, AddStat(c, f) PROVE HandlerShape'
  BY <1>0, <1>1 DEF AddStat, HandlerShape
<1>2. ASSUME client'[c].pc # "add_read", \A d \in Clients \ {c} : client'[d] = client[d]
      PROVE  HandlerShape'
  BY <1>2 DEF HandlerShape
<1>3. ASSUME NEW new, new.pc # "add_read", client' = [client EXCEPT ![c] = new]
      PROVE  HandlerShape'
  <2>1. client'[c] = new /\ \A d \in Clients \ {c} : client'[d] = client[d]
    BY <1>0, <1>3
  <2> QED
    BY <1>2, <1>3, <2>1
<1>4. ASSUME NEW pc, pc # "add_read", client' = [client EXCEPT ![c].pc = pc]
      PROVE  HandlerShape'
  <2>1. client'[c].pc = pc /\ \A d \in Clients \ {c} : client'[d] = client[d]
    BY <1>0, <1>4 DEF Client
  <2> QED
    BY <1>2, <1>4, <2>1
<1>5. ASSUME NEW pc, NEW chunks, pc # "add_read",
             client' = [client EXCEPT ![c].pc = pc, ![c].chunks = chunks]
      PROVE  HandlerShape'
  <2>1. client'[c].pc = pc /\ \A d \in Clients \ {c} : client'[d] = client[d]
    BY <1>0, <1>5 DEF Client
  <2> QED
    BY <1>2, <1>5, <2>1
<1>6. IdleClient.pc # "add_read"
  OBVIOUS
<1>7. CASE AddRead(c)
  BY <1>3, <1>5, <1>7 DEF AddRead
<1>8. CASE AddRemoveChunks(c)
  BY <1>4, <1>8 DEF AddRemoveChunks
<1>9. CASE AddPut(c)
  BY <1>3, <1>9 DEF AddPut
<1>10. CASE AddReadDir(c)
  BY <1>3, <1>10 DEF AddReadDir
<1>11. ASSUME NEW S \in SUBSET Paths, EnqueueMove(c, S) PROVE HandlerShape'
  BY <1>4, <1>11 DEF EnqueueMove
<1>12. ASSUME NEW p \in Paths, RemoveRead(c, p) PROVE HandlerShape'
  BY <1>3, <1>12 DEF RemoveRead
<1>13. CASE RemoveChunks(c)
  BY <1>5, <1>13 DEF RemoveChunks
<1>14. CASE ResetStore(c)
  BY <1>4, <1>14 DEF ResetStore
<1>15. CASE AddPutDir(c) \/ EnqueueNotify(c) \/ RemoveDelete(c) \/ ResetManifest(c)
  BY <1>3, <1>6, <1>15 DEF AddPutDir, EnqueueNotify, RemoveDelete, ResetManifest
<1> QED
  BY <1>1, <1>7, <1>8, <1>9, <1>10, <1>11, <1>12, <1>13, <1>14, <1>15
  DEF ClientStart, ClientStep

\* The worker keeps the types.
LEMMA WorkerTypes ==
  ASSUME TypeOK, WorkerShape, WorkerStep \/ WorkerExit \/ WorkerPanic
  PROVE  TypeOK'
<1> USE PathsFacts DEF TypeOK, At, put
<1>1. IdleWorker \in Worker /\ Absent \in FileMeta
  BY DEF IdleWorker, Worker, Absent, FileMeta, FileState
<1>2. /\ worker.path \in Paths \cup {NoPath}
      /\ worker.meta \in FileMeta
      /\ worker.meta.ver \in Version
      /\ worker.meta.chunks \subseteq Chunk
      /\ worker.read \in Version
  BY DEF Worker, FileMeta
<1>3. ASSUME NEW v \in Version, NEW p \in Paths
      PROVE {<<p, v>>} \subseteq Chunk
  BY DEF Chunk
<1>4. ASSUME NEW pc \in {"wait", "claim", "file", "dir", "read", "stat", "put", "clear", "exited"},
             NEW meta \in FileMeta, NEW v \in Version
      PROVE  /\ [worker EXCEPT !.pc = pc] \in Worker
             /\ [worker EXCEPT !.pc = pc, !.meta = meta] \in Worker
             /\ [worker EXCEPT !.pc = pc, !.read = v] \in Worker
             /\ [IdleWorker EXCEPT !.pc = pc] \in Worker
  BY <1>1 DEF Worker
<1>5. ASSUME NEW state \in FileState, NEW ver \in Version, NEW chunks \in SUBSET Chunk,
             Conclude(state, ver, chunks)
      PROVE  worker' \in Worker
  <2>1. [state |-> state, ver |-> ver, chunks |-> chunks] \in FileMeta
    BY DEF FileMeta
  <2> QED
    BY <1>4, <1>5, <2>1 DEF Conclude
<1>6. CASE WorkerCheck
  <2>1. ASSUME NEW p \in Paths
        PROVE [pc |-> "claim", path |-> p, meta |-> manifest[p], read |-> 0] \in Worker
    BY DEF Worker
  <2>2. worker' \in Worker
    BY <1>6, <1>4, <2>1 DEF WorkerCheck, firstEnqueued, Enqueued
  <2> QED
    BY <1>6, <2>2 DEF WorkerCheck
<1>7. CASE WorkerWake
  BY <1>7, <1>1 DEF WorkerWake
<1>8. CASE WorkerExit
  BY <1>8, <1>4, <1>2 DEF WorkerExit
<1>9. CASE WorkerSkip
  BY <1>9, <1>1 DEF WorkerSkip
<1>10. CASE WorkerClaim
  <2>1. [worker.meta EXCEPT !.state = "processing"] \in FileMeta
    BY <1>2 DEF FileMeta, FileState
  <2> QED
    BY <1>10, <1>2, <1>4, <2>1 DEF WorkerClaim, WorkerShape
<1>11. CASE WorkerDir
  <2>1. "failed" \in FileState /\ "indexed" \in FileState
    BY DEF FileState
  <2>2. {<<ProjectDir, 1>>} \subseteq Chunk
    BY <1>3
  <2> QED
    BY <1>11, <1>2, <1>5, <2>1, <2>2 DEF WorkerDir
<1>12. CASE WorkerFile
  <2>1. "failed" \in FileState
    BY DEF FileState
  <2> QED
    BY <1>12, <1>2, <1>4, <1>5, <2>1 DEF WorkerFile
<1>13. CASE WorkerIndex
  <2>1. "failed" \in FileState
    BY DEF FileState
  <2>2. worker.path \in Files /\ disk[worker.path] \in Version
    BY <1>13 DEF WorkerIndex, WorkerShape
  <2>3. {<<worker.path, disk[worker.path]>>} \subseteq Chunk
    BY <2>2, <1>3
  <2>4. CASE Conclude("failed", worker.meta.ver, worker.meta.chunks) /\ UNCHANGED store
    BY <1>13, <1>2, <1>5, <2>1, <2>4 DEF WorkerIndex
  <2>5. ASSUME NEW v \in {0, disk[worker.path]},
               store' = IF v = 0 THEN store ELSE store \cup {<<worker.path, v>>},
               worker' = [worker EXCEPT !.pc = "stat", !.read = v]
        PROVE  TypeOK'
    <3>1. worker' \in Worker
      BY <2>2, <2>5, <1>4
    <3>2. store' \subseteq Chunk
      BY <2>3, <2>5
    <3> QED
      BY <1>13, <3>1, <3>2 DEF WorkerIndex
  <2> QED
    BY <1>13, <2>4, <2>5 DEF WorkerIndex
<1>14. CASE WorkerStat
  <2>1. "indexed" \in FileState
    BY DEF FileState
  <2>2. worker.path \in Files /\ disk[worker.path] \in Version
    BY <1>14 DEF WorkerStat, WorkerShape
  <2>3. {<<worker.path, worker.read>>} \subseteq Chunk
    BY <2>2, <1>2, <1>3
  <2> QED
    BY <1>14, <1>2, <1>5, <2>1, <2>2, <2>3 DEF WorkerStat
<1>15. CASE WorkerPut
  BY <1>15, <1>1, <1>2, <1>4 DEF WorkerPut, WorkerShape
<1>16. CASE WorkerClear
  BY <1>16, <1>1 DEF WorkerClear
<1>17. CASE WorkerRecover
  BY <1>17, <1>1, <1>2 DEF WorkerRecover, WorkerShape
<1>18. CASE WorkerPanic
  <2>1. processing \in Paths
    BY <1>18 DEF WorkerPanic, WorkerShape
  <2>2. [manifest[processing] EXCEPT !.state = "failed"] \in FileMeta
    BY <2>1 DEF FileMeta, FileState
  <2>3. worker' \in Worker
    BY <1>1, <1>18, <2>1, <2>2 DEF WorkerPanic, Worker
  <2>4. store' \subseteq Chunk
    <3>1. CASE At("dir")
      <4>1. {<<ProjectDir, 1>>} \subseteq Chunk
        BY <1>3
      <4> QED
        BY <1>18, <3>1, <4>1 DEF WorkerPanic, Interrupted
    <3>2. CASE At("file")
      BY <1>18, <3>2 DEF WorkerPanic, Interrupted
    <3>3. CASE At("read")
      <4>1. worker.path \in Files /\ disk[worker.path] \in Version
        BY <3>3 DEF WorkerShape
      <4>2. {<<worker.path, disk[worker.path]>>} \subseteq Chunk
        BY <4>1, <1>3
      <4>3. CASE disk[worker.path] = 0
        BY <1>18, <3>3, <4>3 DEF WorkerPanic, Interrupted
      <4>4. CASE disk[worker.path] # 0
        BY <1>18, <3>3, <4>2, <4>4 DEF WorkerPanic, Interrupted
      <4> QED
        BY <4>3, <4>4
    <3>4. CASE worker.pc \in {"stat", "put", "clear"}
      BY <1>18, <3>4 DEF WorkerPanic, Interrupted
    <3> QED
      BY <1>18, <3>1, <3>2, <3>3, <3>4 DEF WorkerPanic
  <2> QED
    BY <1>18, <2>3, <2>4 DEF WorkerPanic
<1> QED
  BY <1>6, <1>7, <1>8, <1>9, <1>10, <1>11, <1>12, <1>13, <1>14, <1>15, <1>16, <1>17, <1>18
  DEF WorkerStep

\* Disk changes and restarts keep the types.
LEMMA EnvironmentTypes ==
  ASSUME TypeOK, Environment \/ Stop
  PROVE  TypeOK'
<1> USE PathsFacts DEF TypeOK
<1>1. ASSUME NEW f \in Files, EditFile(f) PROVE TypeOK'
  BY <1>1, ConstantsAssumption DEF EditFile, Version
<1>2. ASSUME NEW f \in Files, DeleteFile(f) PROVE TypeOK'
  BY <1>2 DEF DeleteFile
<1>3. CASE Restart
  <2>1. IdleWorker \in Worker /\ IdleClient \in Client
    BY DEF IdleWorker, Worker, IdleClient, Client, Absent, FileMeta, FileState
  <2>2. resetStaleProcessing \in [Paths -> FileMeta]
    BY DEF resetStaleProcessing, FileMeta, FileState
  <2>3. crashes + 1 \in 0 .. MaxCrashes
    BY <1>3, ConstantsAssumption DEF Restart
  <2> QED
    BY <1>3, <2>1, <2>2, <2>3 DEF Restart
<1>4. CASE Stop
  BY <1>4 DEF Stop
<1> QED
  BY <1>1, <1>2, <1>3, <1>4 DEF Environment

-----------------------------------------------------------------------------
(* The worker's copy, and who may show "processing" *)

\* Handlers put no entry in Processing that the worker does not own.
LEMMA ClientOwned ==
  ASSUME TypeOK, ProcessingOwned, NEW c \in Clients, ClientStart(c) \/ ClientStep(c)
  PROVE  ProcessingOwned' /\ UNCHANGED <<worker, processing>>
<1>1. UNCHANGED <<worker, processing>>
  BY DEF ClientStart, ClientStep, AddStat, AddRead, AddRemoveChunks, AddPut, AddReadDir, AddPutDir,
         EnqueueMove, EnqueueNotify, RemoveRead, RemoveChunks, RemoveDelete, ResetStore, ResetManifest
<1>2. \A p \in Paths : manifest'[p].state = "processing" => manifest[p].state = "processing"
  <2> USE DEF TypeOK, put, Absent
  <2>1. CASE UNCHANGED manifest
    BY <2>1
  <2>2. CASE AddPut(c)
    BY <2>2 DEF AddPut
  <2>3. CASE AddPutDir(c)
    BY <2>3 DEF AddPutDir
  <2>4. ASSUME NEW S \in SUBSET Paths, EnqueueMove(c, S)
        PROVE \A p \in Paths : manifest'[p].state = "processing" => manifest[p].state = "processing"
    BY <2>4 DEF EnqueueMove, moveToEnqueued, FileMeta
  <2>5. CASE RemoveDelete(c)
    BY <2>5 DEF RemoveDelete
  <2>6. CASE ResetManifest(c)
    BY <2>6 DEF ResetManifest
  <2> QED
    BY <2>1, <2>2, <2>3, <2>4, <2>5, <2>6
    DEF ClientStart, ClientStep, AddStat, AddRead, AddRemoveChunks, AddReadDir, EnqueueNotify,
        RemoveRead, RemoveChunks, ResetStore
<1> QED
  BY <1>1, <1>2 DEF ProcessingOwned

\* The worker settles an entry before it lets it go, panics included.
LEMMA WorkerOwned ==
  ASSUME TypeOK, WorkerShape, ProcessingOwned, WorkerStep \/ WorkerExit \/ WorkerPanic
  PROVE  WorkerShape' /\ ProcessingOwned'
<1> USE PathsFacts DEF TypeOK, WorkerShape, ProcessingOwned, At, put, IdleWorker
<1>0. worker \in Worker /\ manifest \in [Paths -> FileMeta]
  OBVIOUS
<1>1. CASE WorkerCheck
  BY <1>1 DEF WorkerCheck, firstEnqueued, Enqueued
<1>2. CASE WorkerWake
  BY <1>2 DEF WorkerWake
<1>3. CASE WorkerExit
  BY <1>3 DEF WorkerExit, Worker
<1>4. CASE WorkerSkip
  BY <1>4 DEF WorkerSkip
<1>5. CASE WorkerClaim
  BY <1>5 DEF WorkerClaim, Worker, FileMeta
<1>a. ASSUME UNCHANGED <<manifest, processing>>,
             worker.pc \in {"dir", "file", "read", "stat"},
             worker'.path = worker.path,
             \/ worker'.pc \in {"read", "stat"} /\ worker.pc \in {"file", "read", "stat"}
             \/ worker'.pc = "put" /\ worker'.meta.state \in {"indexed", "failed"}
      PROVE  WorkerShape' /\ ProcessingOwned'
  BY <1>a
<1>b. ASSUME NEW state \in {"indexed", "failed"}, NEW ver, NEW chunks, Conclude(state, ver, chunks)
      PROVE  worker'.path = worker.path /\ worker'.pc = "put" /\ worker'.meta.state = state
  BY <1>b DEF Conclude, Worker
<1>6. CASE WorkerDir
  BY <1>6, <1>a, <1>b DEF WorkerDir
<1>7. CASE WorkerFile
  <2>1. CASE worker' = [worker EXCEPT !.pc = "read"]
    BY <1>7, <2>1, <1>a DEF WorkerFile, Worker
  <2> QED
    BY <1>7, <2>1, <1>a, <1>b DEF WorkerFile
<1>8. CASE WorkerIndex
  <2>1. ASSUME NEW v, worker' = [worker EXCEPT !.pc = "stat", !.read = v]
        PROVE  WorkerShape' /\ ProcessingOwned'
    BY <1>8, <2>1, <1>a DEF WorkerIndex, Worker
  <2> QED
    BY <1>8, <2>1, <1>a, <1>b DEF WorkerIndex
<1>9. CASE WorkerStat
  BY <1>9 DEF WorkerStat, Conclude, Worker
<1>10. CASE WorkerPut
  BY <1>10 DEF WorkerPut
<1>11. CASE WorkerClear
  BY <1>11 DEF WorkerClear
<1>12. CASE WorkerRecover
  BY <1>12 DEF WorkerRecover
<1>13. CASE WorkerPanic
  BY <1>13 DEF WorkerPanic, Worker, FileMeta
<1> QED
  BY <1>1, <1>2, <1>3, <1>4, <1>5, <1>6, <1>7, <1>8, <1>9, <1>10, <1>11, <1>12, <1>13
  DEF WorkerStep

\* A restart leaves no entry in Processing (resetStaleProcessing).
LEMMA EnvironmentOwned ==
  ASSUME TypeOK, WorkerShape, ProcessingOwned, Environment \/ Stop
  PROVE  WorkerShape' /\ ProcessingOwned'
<1>1. CASE Restart
  BY <1>1 DEF Restart, resetStaleProcessing, TypeOK, FileMeta, WorkerShape, ProcessingOwned, IdleWorker
<1>2. CASE UNCHANGED <<manifest, worker, processing>>
  BY <1>2 DEF WorkerShape, ProcessingOwned
<1> QED
  BY <1>1, <1>2 DEF Environment, EditFile, DeleteFile, Stop

-----------------------------------------------------------------------------
(* The wake-up *)

\* Only Enqueue makes an entry enqueued, and it then owes a notification.
LEMMA ClientWakeup ==
  ASSUME TypeOK, NoLostWakeup, NEW c \in Clients, ClientStart(c) \/ ClientStep(c)
  PROVE  NoLostWakeup'
<1> USE DEF TypeOK, NoLostWakeup, Step, Goto, Return, put, Enqueued
<1>1. ASSUME NEW S \in SUBSET Paths, EnqueueMove(c, S) PROVE NoLostWakeup'
  BY <1>1 DEF EnqueueMove, Client
<1>2. CASE EnqueueNotify(c)
  BY <1>2 DEF EnqueueNotify
<1>3. ASSUME client[c].pc # "notify", UNCHANGED <<worker, notify>>,
             \A d \in Clients \ {c} : client'[d] = client[d],
             \A p \in Paths : manifest'[p].state = "enqueued" => manifest[p].state = "enqueued"
      PROVE  NoLostWakeup'
  BY <1>3
<1>4. ASSUME NEW f \in Files, AddStat(c, f) PROVE NoLostWakeup'
  BY <1>4, <1>3 DEF AddStat
<1>4a. CASE AddRead(c)
  BY <1>4a, <1>3 DEF AddRead
<1>5. CASE AddRemoveChunks(c)
  BY <1>5, <1>3 DEF AddRemoveChunks
<1>6. CASE AddPut(c)
  BY <1>6, <1>3 DEF AddPut
<1>7. CASE AddReadDir(c)
  BY <1>7, <1>3 DEF AddReadDir
<1>8. CASE AddPutDir(c)
  BY <1>8, <1>3 DEF AddPutDir
<1>9. ASSUME NEW p \in Paths, RemoveRead(c, p) PROVE NoLostWakeup'
  BY <1>9, <1>3 DEF RemoveRead
<1>10. CASE RemoveChunks(c)
  BY <1>10, <1>3 DEF RemoveChunks
<1>11. CASE RemoveDelete(c)
  BY <1>11, <1>3 DEF RemoveDelete, Absent
<1>12. CASE ResetStore(c)
  BY <1>12, <1>3 DEF ResetStore
<1>13. CASE ResetManifest(c)
  BY <1>13, <1>3 DEF ResetManifest, Absent
<1> QED
  BY <1>1, <1>2, <1>4, <1>4a, <1>5, <1>6, <1>7, <1>8, <1>9, <1>10, <1>11, <1>12, <1>13
  DEF ClientStart, ClientStep

\* The worker sleeps only when it has seen the queue empty.
LEMMA WorkerWakeup ==
  ASSUME TypeOK, NoLostWakeup,
         WorkerStep \/ WorkerExit \/ WorkerPanic \/ Environment \/ Stop
  PROVE  NoLostWakeup'
<1> USE DEF TypeOK, NoLostWakeup, At, IdleWorker
<1>0. worker \in Worker
  OBVIOUS
<1>1. CASE WorkerCheck
  BY <1>1 DEF WorkerCheck, Enqueued
<1>2. CASE WorkerWake \/ WorkerSkip \/ WorkerClear \/ WorkerRecover \/ WorkerPut \/ Restart
  BY <1>2 DEF WorkerWake, WorkerSkip, WorkerClear, WorkerRecover, WorkerPut, Restart
<1>3. CASE WorkerExit
  BY <1>3 DEF WorkerExit, Worker
<1>4. CASE WorkerClaim
  BY <1>4 DEF WorkerClaim, Worker
<1>5. CASE WorkerDir
  BY <1>5 DEF WorkerDir, Conclude, Worker
<1>6. CASE WorkerFile
  BY <1>6 DEF WorkerFile, Conclude, Worker
<1>7. CASE WorkerIndex
  BY <1>7 DEF WorkerIndex, Conclude, Worker
<1>8. CASE WorkerStat
  BY <1>8 DEF WorkerStat, Conclude, Worker
<1>9. CASE WorkerPanic
  BY <1>9 DEF WorkerPanic, Worker
<1>10. CASE UNCHANGED <<worker, manifest, notify, client>>
  BY <1>10 DEF Enqueued
<1> QED
  BY <1>1, <1>2, <1>3, <1>4, <1>5, <1>6, <1>7, <1>8, <1>9, <1>10
  DEF WorkerStep, Environment, EditFile, DeleteFile, Stop

-----------------------------------------------------------------------------

\* Every step keeps the invariant.
LEMMA NextIInv == IInv /\ [Next]_vars => IInv'
<1> SUFFICES ASSUME IInv, [Next]_vars PROVE IInv'
  OBVIOUS
<1> USE DEF IInv
<1>0. ASSUME UNCHANGED client \/ Restart PROVE HandlerShape'
  BY <1>0 DEF HandlerShape, Restart, IdleClient
<1>1. ASSUME NEW c \in Clients, ClientStart(c) \/ ClientStep(c) PROVE IInv'
  <2>1. WorkerShape'
    BY <1>1, ClientOwned DEF WorkerShape
  <2> QED
    BY <1>1, <2>1, ClientTypes, ClientShape, ClientOwned, ClientWakeup
<1>2. CASE WorkerStep \/ WorkerExit \/ WorkerPanic
  <2>1. UNCHANGED client
    BY <1>2 DEF WorkerStep, WorkerCheck, WorkerWake, WorkerSkip, WorkerClaim, WorkerDir, WorkerFile,
                WorkerIndex, WorkerStat, WorkerPut, WorkerClear, WorkerRecover, WorkerExit, WorkerPanic
  <2> QED
    BY <1>0, <1>2, <2>1, WorkerTypes, WorkerOwned, WorkerWakeup
<1>3. CASE Environment \/ Stop
  <2>1. UNCHANGED client \/ Restart
    BY <1>3 DEF Environment, EditFile, DeleteFile, Stop
  <2> QED
    BY <1>0, <1>3, <2>1, EnvironmentTypes, EnvironmentOwned, WorkerWakeup
<1>4. CASE UNCHANGED vars
  BY <1>4 DEF vars, TypeOK, WorkerShape, HandlerShape, ProcessingOwned, NoLostWakeup, Enqueued
<1> QED
  BY <1>1, <1>2, <1>3, <1>4 DEF Next

\* The inductive invariant holds of every behaviour of the indexer.
THEOREM Inductive == Spec => []IInv
<1> QED BY InitIInv, NextIInv, PTL DEF Spec

\* Every variable keeps its type, whatever handlers, worker, disk and crashes do.
THEOREM TypeCorrect == Spec => []TypeOK
<1>1. IInv => TypeOK
  BY DEF IInv
<1> QED BY <1>1, Inductive, PTL

\* An entry shows "processing" only while the worker is at work on it: a panic
\* or a restart never leaves one behind (indexer.go 629-651 and 679-704).
THEOREM Owned == Spec => []ProcessingOwned
<1>1. IInv => ProcessingOwned
  BY DEF IInv
<1> QED BY <1>1, Inductive, PTL

\* The worker never sleeps on a non-empty queue without a wake-up on its way.
THEOREM Wakeup == Spec => []NoLostWakeup
<1>1. IInv => NoLostWakeup
  BY DEF IInv
<1> QED BY <1>1, Inductive, PTL

-----------------------------------------------------------------------------
(* The indexer implements the work queue *)

Status == [p \in Paths |-> manifest[p].state]

\* A step that changes one entry of the manifest changes one entry of the queue.
LEMMA StatusPut ==
  ASSUME TypeOK, NEW p, NEW meta, put(p, meta)
  PROVE  /\ p \in Paths => Status' = [Status EXCEPT ![p] = meta.state]
         /\ p \notin Paths => Status' = Status
<1> QED BY DEF TypeOK, put, Status

\* What is being worked on depends on the worker and its field alone.
LEMMA ActiveFollows == UNCHANGED <<worker, processing>> => Active' = Active /\ Told' = Told
BY DEF Active, Told, At

\* Initially the queue is empty and nothing is being worked on.
LEMMA InitQueue == Init => Queue!Init
BY DEF Init, Queue!Init, Active, Told, At, IdleWorker, Absent

\* Handlers add, enqueue and withdraw entries, or only read.
LEMMA ClientQueue ==
  ASSUME IInv, NEW c \in Clients, ClientStart(c) \/ ClientStep(c)
  PROVE  [Queue!Next]_(Queue!vars)
<1> USE DEF IInv
<1>0. Active' = Active /\ Told' = Told
  BY ClientOwned, ActiveFollows
<1>1. CASE UNCHANGED manifest
  BY <1>0, <1>1 DEF Queue!vars
<1>2. CASE AddPut(c)
  <2>1. CASE client[c].path \in Paths
    <3>1. Status' = [Status EXCEPT ![client[c].path] = "pending"]
      BY <1>2, <2>1, StatusPut DEF AddPut
    <3> QED
      BY <1>0, <2>1, <3>1 DEF Status, Queue!Next, Queue!Add
  <2>2. CASE client[c].path \notin Paths
    <3>1. Status' = Status
      BY <1>2, <2>2, StatusPut DEF AddPut
    <3> QED
      BY <1>0, <3>1 DEF Status, Queue!vars
  <2> QED
    BY <2>1, <2>2
<1>3. CASE AddPutDir(c)
  <2>1. Status' = [Status EXCEPT ![ProjectDir] = "pending"]
    BY <1>3, StatusPut, PathsFacts DEF AddPutDir
  <2> QED
    BY <1>0, <2>1, PathsFacts DEF Status, Queue!Next, Queue!Add
<1>4. ASSUME NEW S \in SUBSET Paths, EnqueueMove(c, S)
      PROVE  [Queue!Next]_(Queue!vars)
  <2> DEFINE T == {p \in S : manifest[p].state = "pending"}
  <2>1. \A p \in T : Status[p] = "pending"
    BY DEF Status
  <2>2. Status' = [p \in Paths |-> IF p \in T THEN "enqueued" ELSE Status[p]]
    BY <1>4 DEF EnqueueMove, moveToEnqueued, TypeOK, FileMeta, Status
  <2>3. T \in SUBSET Paths
    OBVIOUS
  <2> HIDE DEF T
  <2> QED
    BY <1>0, <2>1, <2>2, <2>3 DEF Status, Queue!Next, Queue!Enqueue
<1>5. CASE RemoveDelete(c)
  <2>1. CASE client[c].path \in Paths
    <3>1. Status' = [Status EXCEPT ![client[c].path] = "absent"]
      BY <1>5, <2>1, StatusPut DEF RemoveDelete, Absent
    <3>2. Status' = [p \in Paths |-> IF p \in {client[c].path} THEN "absent" ELSE Status[p]]
      BY <3>1 DEF Status
    <3> QED
      BY <1>0, <2>1, <3>2 DEF Status, Queue!Next, Queue!Withdraw
  <2>2. CASE client[c].path \notin Paths
    <3>1. Status' = Status
      BY <1>5, <2>2, StatusPut DEF RemoveDelete
    <3> QED
      BY <1>0, <3>1 DEF Status, Queue!vars
  <2> QED
    BY <2>1, <2>2
<1>6. CASE ResetManifest(c)
  <2>1. Status' = [p \in Paths |-> IF p \in Paths THEN "absent" ELSE Status[p]]
    BY <1>6 DEF ResetManifest, Absent, Status
  <2>2. Paths \in SUBSET Paths
    OBVIOUS
  <2> QED
    BY <1>0, <2>1, <2>2 DEF Status, Queue!Next, Queue!Withdraw
<1> QED
  BY <1>1, <1>2, <1>3, <1>4, <1>5, <1>6
  DEF ClientStart, ClientStep, AddStat, AddRead, AddRemoveChunks, AddReadDir, EnqueueNotify,
      RemoveRead, RemoveChunks, ResetStore

\* The worker claims an entry when it has none, reports on the one it has, lets it
\* go or gives it up, or only works on it.
LEMMA WorkerQueue ==
  ASSUME IInv, WorkerStep \/ WorkerExit \/ WorkerPanic
  PROVE  [Queue!Next]_(Queue!vars)
<1> USE DEF IInv, At
<1>0. worker \in Worker /\ manifest \in [Paths -> FileMeta]
  BY DEF TypeOK
<1>1. ASSUME UNCHANGED manifest, Active' = Active, Told' = Told
      PROVE  [Queue!Next]_(Queue!vars)
  BY <1>1 DEF Queue!vars
<1>2. CASE WorkerClaim
  <2>1. worker.path \in Paths
    BY <1>2 DEF WorkerClaim, WorkerShape
  <2>2. [worker.meta EXCEPT !.state = "processing"].state = "processing"
    BY <1>0 DEF Worker, FileMeta
  <2>3. Status' = [Status EXCEPT ![worker.path] = "processing"]
    <3> DEFINE meta == [worker.meta EXCEPT !.state = "processing"]
    <3>1. put(worker.path, meta)
      BY <1>2 DEF WorkerClaim
    <3>2. meta.state = "processing"
      BY <2>2
    <3> HIDE DEF meta
    <3> QED
      BY <2>1, <3>1, <3>2, StatusPut
  <2>4. Active = {} /\ Active' = {worker.path} /\ Told' = Told
    BY <1>0, <1>2 DEF WorkerClaim, Active, Told, Worker
  <2> QED
    BY <2>1, <2>3, <2>4 DEF Status, Queue!Next, Queue!Claim
<1>3. CASE WorkerPut
  <2>1. /\ worker.path \in Paths /\ worker.meta.state \in {"indexed", "failed"}
        /\ processing = worker.path
    BY <1>3 DEF WorkerPut, WorkerShape
  <2>2. Status' = [Status EXCEPT ![worker.path] = worker.meta.state]
    BY <1>3, <2>1, StatusPut DEF WorkerPut
  <2>3. Active = {worker.path} /\ Active' = Active /\ Told = FALSE /\ Told' = TRUE
    BY <1>3, <2>1 DEF WorkerPut, Active, Told, IdleWorker
  <2> QED
    BY <2>1, <2>2, <2>3 DEF Status, Queue!Next, Queue!Report
<1>4. ASSUME NEW p \in Paths, Active = {p}, Active' = {}, Told' = FALSE, UNCHANGED manifest,
             Told \/ manifest[p].state = "absent"
      PROVE  [Queue!Next]_(Queue!vars)
  BY <1>4 DEF Queue!Next, Queue!LetGo
<1>5. CASE WorkerClear
  <2>1. processing \in Paths /\ Active = {processing} /\ Active' = {} /\ Told /\ Told' = FALSE
    BY <1>5 DEF WorkerClear, WorkerShape, Active, Told, IdleWorker
  <2> QED
    BY <1>4, <1>5, <2>1 DEF WorkerClear
<1>6. CASE WorkerRecover
  <2>1. worker.path \in Paths /\ worker.meta.state = "failed"
    BY <1>6 DEF WorkerRecover, WorkerShape
  <2>2. Status' = [Status EXCEPT ![worker.path] = "failed"]
    BY <1>6, <2>1, StatusPut DEF WorkerRecover
  <2>3. Active = {worker.path} /\ Active' = {} /\ Told' = FALSE
    BY <1>6 DEF WorkerRecover, Active, Told, IdleWorker
  <2> QED
    BY <2>1, <2>2, <2>3 DEF Status, Queue!Next, Queue!GiveUp
<1>7. CASE WorkerPanic
  <2>1. processing \in Paths /\ Active = {processing} /\ UNCHANGED manifest
    BY <1>7 DEF WorkerPanic, WorkerShape, Active
  <2>2. Told <=> worker.pc = "clear"
    BY <1>7 DEF WorkerPanic, Told
  <2>3. CASE manifest[processing].state = "absent"
    <3>1. Active' = {} /\ Told' = FALSE
      BY <1>7, <2>3 DEF WorkerPanic, Active, Told, IdleWorker
    <3> QED
      BY <1>4, <2>1, <2>3, <3>1
  <2>4. CASE manifest[processing].state # "absent"
    <3>1. /\ worker'.pc = IF worker.pc = "clear" THEN "retract" ELSE "recover"
          /\ worker'.path = processing
      BY <1>7, <2>4 DEF WorkerPanic
    <3>2. Active' = Active
      BY <2>1, <3>1 DEF Active
    <3>3. Told' = Told
      BY <2>2, <3>1 DEF Told
    <3> QED
      BY <1>1, <2>1, <3>2, <3>3
  <2> QED
    BY <2>3, <2>4
<1>8. CASE WorkerCheck \/ WorkerWake \/ WorkerExit \/ WorkerSkip
  <2>1. UNCHANGED manifest
    BY <1>8 DEF WorkerCheck, WorkerWake, WorkerExit, WorkerSkip
  <2>2. worker'.pc \in {"check", "wait", "claim", "exited"}
    BY <1>0, <1>8 DEF WorkerCheck, WorkerWake, WorkerExit, WorkerSkip, IdleWorker, Worker
  <2>3. worker.pc \in {"check", "wait", "claim"}
    BY <1>8 DEF WorkerCheck, WorkerWake, WorkerExit, WorkerSkip
  <2> QED
    BY <1>1, <2>1, <2>2, <2>3 DEF Active, Told
<1>9. CASE WorkerDir \/ WorkerFile \/ WorkerIndex \/ WorkerStat
  <2>1. UNCHANGED manifest /\ worker.pc \in {"dir", "file", "read", "stat"}
    BY <1>9 DEF WorkerDir, WorkerFile, WorkerIndex, WorkerStat
  <2>2. worker'.path = worker.path /\ worker'.pc \in {"read", "stat", "put"}
    BY <1>0, <1>9 DEF WorkerDir, WorkerFile, WorkerIndex, WorkerStat, Conclude, Worker
  <2> QED
    BY <1>1, <2>1, <2>2 DEF Active, Told
<1> QED
  BY <1>2, <1>3, <1>5, <1>6, <1>7, <1>8, <1>9 DEF WorkerStep

\* A restart reopens the queue; the disk and the stop channel are not part of it.
LEMMA EnvironmentQueue ==
  ASSUME IInv, Environment \/ Stop
  PROVE  [Queue!Next]_(Queue!vars)
<1>1. CASE Restart
  <2>1. Active' = {} /\ Told' = FALSE
    BY <1>1 DEF Restart, Active, Told, At, IdleWorker
  <2>2. Status' = [p \in Paths |-> IF Status[p] = "processing" THEN "failed" ELSE Status[p]]
    BY <1>1 DEF Restart, resetStaleProcessing, IInv, TypeOK, FileMeta, Status
  <2> QED
    BY <2>1, <2>2 DEF Status, Queue!Next, Queue!Reopen
<1>2. CASE UNCHANGED <<manifest, worker, processing>>
  BY <1>2, ActiveFollows DEF Queue!vars
<1> QED
  BY <1>1, <1>2 DEF Environment, EditFile, DeleteFile, Stop

\* Every step of the indexer is a step of the queue or changes nothing of it.
LEMMA NextQueue == IInv /\ [Next]_vars => [Queue!Next]_(Queue!vars)
<1> SUFFICES ASSUME IInv, [Next]_vars PROVE [Queue!Next]_(Queue!vars)
  OBVIOUS
<1>1. CASE UNCHANGED vars
  BY <1>1, ActiveFollows DEF vars, Queue!vars
<1> QED
  BY <1>1, ClientQueue, WorkerQueue, EnvironmentQueue DEF Next

\* The indexer implements the queue with one worker: an outcome is written only for
\* an entry the worker claimed, once per claim, no other is claimed before, and
\* only a panic takes it back, whatever handlers and crashes do
\* (indexer.go 653-708 and 711-949).
THEOREM Refines == Spec => ImplementsQueue
<1> QED BY Inductive, InitQueue, NextQueue, PTL DEF Spec, ImplementsQueue, Queue!Spec
=============================================================================
