-------------------------- MODULE HotReloadProofs --------------------------
(***************************************************************************)
(* Proofs about HotReload, for any number of handlers, resolutions, agents *)
(* and changes.                                                            *)
(***************************************************************************)
EXTENDS HotReload, TLAPS

\* A runtime under construction that nothing crossed holds what is loaded.
Current ==
  \A r \in Resolvers : ~resolve[r].rt.crossed =>
    /\ resolve[r].pc \in {"skills", "store"} => resolve[r].rt.agents = registry["agents"]
    /\ resolve[r].pc = "store" => resolve[r].rt.skills = registry["skills"]

CacheInv == TypeOK /\ Current /\ CacheFresh

\* How far Start, the loop and Stop can be apart.
Shape ==
  /\ loop = "none" <=> start # "spawned"
  /\ loop \in {"none", "spawned"} => pending = {}
  /\ ~Reloading(Loop, "idle") => loop \in {"flush", "last"}
  /\ stop \notin {"no", "missed"} => start = "spawned"
  /\ stop \in {"closed", "waiting", "returned"} => closed

StopInv == Shape /\ StopIsQuiet

-----------------------------------------------------------------------------

\* The loop is a thread, and zero a version.
LEMMA Constants == Loop \in Threads /\ Loop \notin Handlers /\ 0 \in Versions /\ Fresh0 \in Runtime
BY LoopAssumption, VersionAssumption DEF Threads, Versions, Fresh0, Runtime

\* Nothing but the bound keeps a version from growing.
LEMMA NextVersion == ASSUME NEW v \in Versions, v < MaxVersion PROVE v + 1 \in Versions
BY VersionAssumption DEF Versions

\* Init puts every variable in its type.
LEMMA InitType == Init => TypeOK
<1> SUFFICES ASSUME Init PROVE TypeOK
  OBVIOUS
<1>1. resolve \in [Resolvers -> [pc: {"idle", "agents", "skills", "store"}, name: Agents, rt: Runtime]]
  BY Constants DEF Init
<1> QED
  BY <1>1, Constants DEF Init, TypeOK, Kinds

\* A reload keeps types.
LEMMA ReloadType == ASSUME TypeOK, NEW t \in Threads, ReloadStep(t) PROVE TypeOK'
<1> USE DEF TypeOK, life, runtimes, changes
<1>0. Kinds = {"agents", "skills"}
  BY DEF Kinds
<1>1. CASE Load(t)
  <2> DEFINE v == files[reload[t].kind]
  <2>1. /\ reload[t] \in [pc: {"idle", "load", "publish", "invalidate"}, kind: Kinds, version: Versions]
        /\ v \in Versions
    OBVIOUS
  <2>2. reload' = [reload EXCEPT ![t] = [reload[t] EXCEPT !.pc = "publish", !.version = v]]
    BY <1>1 DEF Load
  <2> HIDE DEF v
  <2>3. [reload[t] EXCEPT !.pc = "publish", !.version = v]
          \in [pc: {"idle", "load", "publish", "invalidate"}, kind: Kinds, version: Versions]
    BY <2>1
  <2>4. reload' \in [Threads -> [pc: {"idle", "load", "publish", "invalidate"},
                                 kind: Kinds, version: Versions]]
    BY <2>2, <2>3
  <2> QED
    BY <1>1, <2>4 DEF Load
<1>2. CASE LoadFails(t)
  BY <1>0, <1>2, Constants DEF LoadFails, EndReload
<1>3. CASE Invalidate(t)
  BY <1>0, <1>3, Constants DEF Invalidate, EndReload
<1>4. CASE Publish(t)
  <2>1. \A r \in Resolvers : \A b \in BOOLEAN :
          [resolve[r] EXCEPT !.rt.crossed = b]
            \in [pc: {"idle", "agents", "skills", "store"}, name: Agents, rt: Runtime]
    BY DEF Runtime
  <2>2. \A r \in Resolvers : resolve[r].rt.crossed \in BOOLEAN
    BY DEF Runtime
  <2>3. resolve' \in [Resolvers -> [pc: {"idle", "agents", "skills", "store"}, name: Agents, rt: Runtime]]
    BY <1>4, <2>1, <2>2 DEF Publish
  <2>4. UNCHANGED <<files, reported, due, pending, runtimeCache, loop, start, stop, cancelled, closed>>
    BY <1>4 DEF Publish, changes
  <2>5. registry' \in [Kinds -> Versions]
    BY <1>4 DEF Publish
  <2>6. reload' \in [Threads -> [pc: {"idle", "load", "publish", "invalidate"},
                                 kind: Kinds, version: Versions]]
    BY <1>4, Constants DEF Publish
  <2> QED
    BY <2>3, <2>4, <2>5, <2>6
<1> QED
  BY <1>1, <1>2, <1>3, <1>4 DEF ReloadStep

\* So does a resolution.
LEMMA ResolveType ==
  ASSUME TypeOK, NEW r \in Resolvers, ResolveStep(r) \/ \E a \in Agents : Miss(r, a)
  PROVE  TypeOK'
<1> USE DEF TypeOK, life, changes, loading
<1>1. ASSUME NEW a \in Agents, Miss(r, a) PROVE TypeOK'
  BY <1>1, Constants DEF Miss
<1>2. CASE ReadAgents(r)
  <2> DEFINE rt == [resolve[r].rt EXCEPT !.agents = registry["agents"]]
  <2>1. registry["agents"] \in Versions /\ rt \in Runtime
    BY DEF Kinds, Runtime
  <2>2. resolve' = [resolve EXCEPT ![r] = [resolve[r] EXCEPT !.pc = "skills", !.rt = rt]]
    BY <1>2 DEF ReadAgents
  <2> HIDE DEF rt
  <2>3. resolve' \in [Resolvers -> [pc: {"idle", "agents", "skills", "store"}, name: Agents, rt: Runtime]]
    BY <2>1, <2>2
  <2> QED
    BY <1>2, <2>3 DEF ReadAgents
<1>3. CASE ReadSkills(r)
  <2> DEFINE rt == [resolve[r].rt EXCEPT !.skills = registry["skills"]]
  <2>1. registry["skills"] \in Versions /\ rt \in Runtime
    BY DEF Kinds, Runtime
  <2>2. resolve' = [resolve EXCEPT ![r] = [resolve[r] EXCEPT !.pc = "store", !.rt = rt]]
    BY <1>3 DEF ReadSkills
  <2> HIDE DEF rt
  <2>3. resolve' \in [Resolvers -> [pc: {"idle", "agents", "skills", "store"}, name: Agents, rt: Runtime]]
    BY <2>1, <2>2
  <2> QED
    BY <1>3, <2>3 DEF ReadSkills
<1>4. CASE CreateFails(r)
  BY <1>4, Constants DEF CreateFails
<1>5. CASE Store(r)
  BY <1>5, Constants DEF Store
<1> QED
  BY <1>1, <1>2, <1>3, <1>4, <1>5 DEF ResolveStep

\* And everything else.
LEMMA TypeStep == TypeOK /\ [Next]_vars => TypeOK'
<1> SUFFICES ASSUME TypeOK, [Next]_vars PROVE TypeOK'
  OBVIOUS
<1> USE DEF TypeOK, life, changes, loading, runtimes
<1>1. ASSUME NEW h \in Handlers, NEW k \in Kinds, HandleReload(h, k) PROVE TypeOK'
  <2>1. h \in Threads /\ [pc |-> "load", kind |-> k, version |-> 0]
                        \in [pc: {"idle", "load", "publish", "invalidate"}, kind: Kinds, version: Versions]
    BY Constants DEF Threads
  <2> QED
    BY <1>1, <2>1 DEF HandleReload
<1>2. ASSUME NEW k \in Kinds, NEW watched \in BOOLEAN, Change(k, watched) PROVE TypeOK'
  <2>1. files' \in [Kinds -> Versions] /\ reported' \subseteq Kinds /\ due' \subseteq Kinds
    <3>1. files[k] \in Versions /\ files[k] + 1 \in Versions
      BY <1>2, NextVersion DEF Change
    <3> QED
      BY <1>2, <3>1 DEF Change
  <2> QED
    BY <1>2, <2>1 DEF Change
<1>3. CASE StartStep
  BY <1>3 DEF StartStep
<1>4. CASE Enter \/ Tick \/ Cancelled \/ Closed \/ EndFlush
  BY <1>4 DEF Enter, Tick, Cancelled, Closed, EndFlush, LoopTo
<1>5. ASSUME NEW k \in Kinds, Receive(k) \/ Flush(k) PROVE TypeOK'
  BY <1>5, Constants DEF Receive, Flush
<1>6. CASE StopStep
  BY <1>6 DEF StopStep, StopEarly, StopCancel, StopClose, StopCheck, StopDone, StopTo
<1>7. CASE UNCHANGED vars
  BY <1>7 DEF vars
<1> QED
  BY <1>1, <1>2, <1>3, <1>4, <1>5, <1>6, <1>7, Constants, ReloadType, ResolveType
     DEF Next, LoopStep, Threads

-----------------------------------------------------------------------------
(* The cache *)

\* A step that begins or ends no publication and touches no runtime.
LEMMA CacheAside ==
  ASSUME CacheInv, UNCHANGED <<registry, runtimeCache, resolve>>,
         \A t \in Threads : Reloading(t, "invalidate") => reload'[t] = reload[t]
  PROVE  Current' /\ CacheFresh'
BY DEF CacheInv, Current, CacheFresh, Reloading

\* The steps of a reload.
LEMMA CacheReload ==
  ASSUME CacheInv, NEW t \in Threads, ReloadStep(t)
  PROVE  Current' /\ CacheFresh'
<1> USE DEF CacheInv
<1>1. CASE Load(t)
  BY <1>1, CacheAside DEF Load, runtimes, Reloading, TypeOK
<1>2. CASE LoadFails(t)
  BY <1>2, CacheAside DEF LoadFails, EndReload, runtimes, Reloading, TypeOK
<1>3. CASE Invalidate(t)
  <2>1. \A a \in Agents : runtimeCache'[a] = NoRuntime
    BY <1>3 DEF Invalidate
  <2>2. UNCHANGED <<registry, resolve>>
    BY <1>3 DEF Invalidate
  <2> QED
    BY <2>1, <2>2 DEF Current, CacheFresh
<1>4. CASE Publish(t)
  <2> DEFINE k == reload[t].kind
             HasRead(r) == resolve[r].pc = "store" \/ (k = "agents" /\ resolve[r].pc = "skills")
  <2>1. /\ k \in Kinds
        /\ \A j \in Kinds : j # k => registry'[j] = registry[j]
        /\ reload'[t].pc = "invalidate" /\ reload'[t].kind = k
        /\ \A u \in Threads : u # t => reload'[u] = reload[u]
        /\ reload[t].pc = "publish"
        /\ runtimeCache' = runtimeCache
    BY <1>4 DEF Publish, TypeOK, Reloading
  <2>2. ASSUME NEW r \in Resolvers
        PROVE  /\ resolve'[r].pc = resolve[r].pc
               /\ resolve'[r].rt.agents = resolve[r].rt.agents
               /\ resolve'[r].rt.skills = resolve[r].rt.skills
               /\ ~resolve'[r].rt.crossed => ~resolve[r].rt.crossed /\ ~HasRead(r)
    <3>1. resolve[r] \in [pc: {"idle", "agents", "skills", "store"}, name: Agents, rt: Runtime]
      BY DEF TypeOK
    <3>2. resolve'[r] = [resolve[r] EXCEPT !.rt.crossed = resolve[r].rt.crossed \/ HasRead(r)]
      BY <1>4 DEF Publish
    <3>3. /\ resolve'[r].pc = resolve[r].pc
          /\ resolve'[r].rt = [resolve[r].rt EXCEPT !.crossed = resolve[r].rt.crossed \/ HasRead(r)]
      BY <3>1, <3>2
    <3>4. resolve[r].rt \in [agents: Versions, skills: Versions, crossed: BOOLEAN]
      BY <3>1 DEF Runtime
    <3>5. resolve'[r].rt.crossed = (resolve[r].rt.crossed \/ HasRead(r))
      BY <3>3, <3>4
    <3>6. /\ resolve'[r].rt.agents = resolve[r].rt.agents
          /\ resolve'[r].rt.skills = resolve[r].rt.skills
      BY <3>3, <3>4
    <3> QED
      BY <3>3, <3>5, <3>6
  <2>3. Current'
    <3> SUFFICES ASSUME NEW r \in Resolvers, ~resolve'[r].rt.crossed
                 PROVE  /\ resolve'[r].pc \in {"skills", "store"} =>
                             resolve'[r].rt.agents = registry'["agents"]
                        /\ resolve'[r].pc = "store" => resolve'[r].rt.skills = registry'["skills"]
      BY DEF Current
    <3>1. ~HasRead(r) /\ ~resolve[r].rt.crossed
      BY <2>2
    <3>2. resolve'[r].pc # "store"
      BY <2>2, <3>1
    <3>3. ASSUME resolve'[r].pc = "skills"
          PROVE  resolve'[r].rt.agents = registry'["agents"]
      <4>1. k # "agents" /\ resolve[r].pc = "skills"
        BY <2>2, <3>1, <3>3
      <4>2. registry'["agents"] = registry["agents"]
        BY <2>1, <4>1 DEF Kinds
      <4> QED
        BY <2>2, <3>1, <4>1, <4>2 DEF Current
    <3> QED
      BY <3>2, <3>3
  <2>4. CacheFresh'
    <3> SUFFICES ASSUME NEW a \in Agents, runtimeCache[a] # NoRuntime, ~runtimeCache[a].crossed,
                        NEW j \in Kinds
                 PROVE  \/ runtimeCache[a][j] = registry'[j]
                        \/ \E u \in Threads : reload'[u].pc = "invalidate" /\ reload'[u].kind = j
      BY <2>1 DEF CacheFresh, Reloading
    <3>1. CASE j = k
      BY <2>1, <3>1
    <3>2. CASE j # k
      <4>1. \/ runtimeCache[a][j] = registry[j]
            \/ \E u \in Threads : reload[u].pc = "invalidate" /\ reload[u].kind = j
        BY DEF CacheFresh, Reloading
      <4> QED
        BY <2>1, <3>2, <4>1
    <3> QED
      BY <3>1, <3>2
  <2> QED
    BY <2>3, <2>4
<1> QED
  BY <1>1, <1>2, <1>3, <1>4 DEF ReloadStep

\* The steps of a resolution.
LEMMA CacheResolve ==
  ASSUME CacheInv, NEW r \in Resolvers, ResolveStep(r) \/ \E a \in Agents : Miss(r, a)
  PROVE  Current' /\ CacheFresh'
<1> USE DEF CacheInv, Resolving
<1>0. /\ resolve \in [Resolvers -> [pc: {"idle", "agents", "skills", "store"}, name: Agents, rt: Runtime]]
      /\ resolve[r].rt \in Runtime
  BY DEF TypeOK
<1>1. ASSUME NEW a \in Agents, Miss(r, a) PROVE Current' /\ CacheFresh'
  BY <1>1 DEF Miss, loading, TypeOK, Current, CacheFresh, Reloading
<1>2. CASE ReadAgents(r)
  <2>1. /\ resolve'[r].pc = "skills" /\ resolve'[r].rt.agents = registry["agents"]
        /\ \A q \in Resolvers : q # r => resolve'[q] = resolve[q]
        /\ UNCHANGED <<reload, registry, runtimeCache>>
    BY <1>0, <1>2 DEF ReadAgents, loading, Runtime
  <2> QED
    BY <2>1 DEF Current, CacheFresh, Reloading
<1>3. CASE ReadSkills(r)
  <2>1. /\ resolve[r].pc = "skills"
        /\ resolve'[r].pc = "store" /\ resolve'[r].rt.skills = registry["skills"]
        /\ resolve'[r].rt.agents = resolve[r].rt.agents
        /\ resolve'[r].rt.crossed = resolve[r].rt.crossed
        /\ \A q \in Resolvers : q # r => resolve'[q] = resolve[q]
        /\ UNCHANGED <<reload, registry, runtimeCache>>
    BY <1>0, <1>3 DEF ReadSkills, loading, Runtime
  <2> QED
    BY <2>1 DEF Current, CacheFresh, Reloading
<1>4. CASE CreateFails(r)
  <2>1. /\ resolve'[r].pc = "idle"
        /\ \A q \in Resolvers : q # r => resolve'[q] = resolve[q]
        /\ UNCHANGED <<reload, registry, runtimeCache>>
    BY <1>0, <1>4 DEF CreateFails, loading
  <2> QED
    BY <2>1 DEF Current, CacheFresh, Reloading
<1>5. CASE Store(r)
  <2> DEFINE n == resolve[r].name
  <2>1. /\ n \in Agents /\ runtimeCache'[n] = resolve[r].rt /\ resolve[r].pc = "store"
        /\ \A a \in Agents : a # n => runtimeCache'[a] = runtimeCache[a]
        /\ resolve'[r].pc = "idle"
        /\ \A q \in Resolvers : q # r => resolve'[q] = resolve[q]
        /\ UNCHANGED <<reload, registry>>
    BY <1>0, <1>5 DEF Store, loading, TypeOK
  <2>2. ~resolve[r].rt.crossed => \A k \in Kinds : resolve[r].rt[k] = registry[k]
    BY <2>1 DEF Current, Kinds
  <2>3. CacheFresh'
    BY <2>1, <2>2 DEF CacheFresh, Reloading
  <2>4. Current'
    BY <2>1 DEF Current
  <2> QED
    BY <2>3, <2>4
<1> QED
  BY <1>1, <1>2, <1>3, <1>4, <1>5 DEF ResolveStep

\* Every step keeps the cache's invariant.
LEMMA CacheStep == CacheInv /\ [Next]_vars => CacheInv'
<1> SUFFICES ASSUME CacheInv, [Next]_vars PROVE Current' /\ CacheFresh'
  BY TypeStep DEF CacheInv
<1>1. ASSUME NEW h \in Handlers, NEW k \in Kinds, HandleReload(h, k) PROVE Current' /\ CacheFresh'
  BY <1>1, CacheAside DEF HandleReload, runtimes, Reloading, CacheInv, TypeOK
<1>2. ASSUME NEW k \in Kinds, Flush(k) PROVE Current' /\ CacheFresh'
  BY <1>2, CacheAside DEF Flush, runtimes, Reloading, CacheInv, TypeOK
<1>3. CASE UNCHANGED <<loading, runtimes>>
  BY <1>3, CacheAside DEF loading, runtimes
<1>4. ASSUME NEW k \in Kinds, Receive(k) PROVE UNCHANGED <<loading, runtimes>>
  BY <1>4 DEF Receive
<1>5. ASSUME NEW k \in Kinds, NEW watched \in BOOLEAN, Change(k, watched)
      PROVE  UNCHANGED <<loading, runtimes>>
  BY <1>5 DEF Change
<1>6. CASE StartStep \/ StopStep \/ Enter \/ Tick \/ Cancelled \/ Closed \/ EndFlush \/ UNCHANGED vars
  <2>1. UNCHANGED <<loading, runtimes>>
    BY <1>6 DEF StartStep, StopStep, StopEarly, StopCancel, StopClose, StopCheck, StopDone, StopTo,
                Enter, Tick, Cancelled, Closed, EndFlush, LoopTo, vars
  <2> QED
    BY <1>3, <2>1
<1> QED
  BY <1>1, <1>2, <1>3, <1>4, <1>5, <1>6, Constants, CacheReload, CacheResolve
     DEF Next, LoopStep, Threads

-----------------------------------------------------------------------------
(* Start, the loop and Stop *)

\* Every step keeps what Stop relies on.
LEMMA StopStepInv == TypeOK /\ StopInv /\ [Next]_vars => StopInv'
<1> SUFFICES ASSUME TypeOK, StopInv, [Next]_vars PROVE StopInv'
  OBVIOUS
<1> USE DEF StopInv, Shape, StopIsQuiet, Reloading
<1>1. ASSUME UNCHANGED <<pending, life>>, reload'[Loop].pc = "idle" \/ ~Reloading(Loop, "idle")
      PROVE  StopInv'
  BY <1>1 DEF life
<1>2. ASSUME NEW t \in Threads, ReloadStep(t) PROVE StopInv'
  <2>1. UNCHANGED <<pending, life>>
    BY <1>2 DEF ReloadStep, Load, LoadFails, Publish, Invalidate
  <2>2. reload'[Loop].pc = "idle" \/ ~Reloading(Loop, "idle")
    BY <1>2, Constants DEF ReloadStep, Load, LoadFails, Publish, Invalidate, EndReload, TypeOK
  <2> QED
    BY <1>1, <2>1, <2>2
<1>3. ASSUME NEW h \in Handlers, NEW k \in Kinds, HandleReload(h, k) PROVE StopInv'
  <2>1. reload'[Loop] = reload[Loop]
    BY <1>3, Constants DEF HandleReload, TypeOK
  <2> QED
    BY <1>1, <1>3, <2>1 DEF HandleReload
<1>4. ASSUME NEW r \in Resolvers, ResolveStep(r) \/ \E a \in Agents : Miss(r, a) PROVE StopInv'
  BY <1>1, <1>4 DEF ResolveStep, ReadAgents, ReadSkills, CreateFails, Store, Miss, loading
<1>5. ASSUME NEW k \in Kinds, NEW watched \in BOOLEAN, Change(k, watched) PROVE StopInv'
  BY <1>1, <1>5 DEF Change, loading
<1>6. CASE StartStep
  BY <1>6 DEF StartStep, loading, TypeOK
<1>7. CASE Enter \/ Tick \/ Cancelled \/ Closed \/ EndFlush
  BY <1>7 DEF Enter, Tick, Cancelled, Closed, EndFlush, LoopTo, loading, TypeOK
<1>8. ASSUME NEW k \in Kinds, Receive(k) PROVE StopInv'
  BY <1>8 DEF Receive, loading, life
<1>9. ASSUME NEW k \in Kinds, Flush(k) PROVE StopInv'
  <2>1. reload'[Loop].pc = "load" /\ pending # {} /\ loop \in {"flush", "last"} /\ UNCHANGED life
    BY <1>9, Constants DEF Flush, TypeOK
  <2>2. pending' \subseteq pending
    BY <1>9 DEF Flush
  <2> QED
    BY <2>1, <2>2 DEF life
<1>10. CASE StopStep
  <2>1. UNCHANGED <<pending, reload, loop, start>>
    BY <1>10 DEF StopStep, StopEarly, StopCancel, StopClose, StopCheck, StopDone, StopTo, loading
  <2>2. CASE StopEarly
    BY <2>1, <2>2 DEF StopEarly, StopTo
  <2>3. CASE StopCancel \/ StopClose
    BY <2>1, <2>3 DEF StopCancel, StopClose, StopTo
  <2>4. CASE StopCheck
    BY <2>1, <2>4 DEF StopCheck, StopTo, IsRunning, TypeOK
  <2>5. CASE StopDone
    BY <2>1, <2>5 DEF StopDone, StopTo
  <2> QED
    BY <1>10, <2>2, <2>3, <2>4, <2>5 DEF StopStep
<1>11. CASE UNCHANGED vars
  BY <1>1, <1>11 DEF vars, loading
<1> QED
  BY <1>2, <1>3, <1>4, <1>5, <1>6, <1>7, <1>8, <1>9, <1>10, <1>11, Constants DEF Next, LoopStep, Threads

-----------------------------------------------------------------------------
(* Reported changes *)

\* A step that takes no kind out of the watcher's hands.
LEMMA Handed ==
  ASSUME NothingForgotten, due' \subseteq due, reported \subseteq reported', pending \subseteq pending',
         Reloading(Loop, "load") => reload'[Loop] = reload[Loop]
  PROVE  NothingForgotten'
BY DEF NothingForgotten, Reloading

\* Every step keeps what was reported in sight.
LEMMA ForgottenStep == TypeOK /\ NothingForgotten /\ [Next]_vars => NothingForgotten'
<1> SUFFICES ASSUME TypeOK, NothingForgotten, [Next]_vars PROVE NothingForgotten'
  OBVIOUS
<1> USE DEF changes
<1>1. ASSUME NEW t \in Threads, ReloadStep(t) PROVE NothingForgotten'
  <2>1. UNCHANGED <<reported, pending>> /\ due' \subseteq due
    BY <1>1 DEF ReloadStep, Load, LoadFails, Publish, Invalidate
  <2>2. CASE t = Loop /\ Reloading(Loop, "load")
    <3>1. due' = due \ {reload[Loop].kind}
      BY <1>1, <2>2 DEF ReloadStep, Load, LoadFails, Publish, Invalidate, Reloading
    <3> QED
      BY <2>1, <3>1 DEF NothingForgotten
  <2>3. CASE ~(t = Loop /\ Reloading(Loop, "load"))
    <3>1. Reloading(Loop, "load") => reload'[Loop] = reload[Loop]
      BY <1>1, <2>3, Constants
         DEF ReloadStep, Load, LoadFails, Publish, Invalidate, EndReload, TypeOK
    <3> QED
      BY <2>1, <3>1, Handed
  <2> QED
    BY <2>2, <2>3
<1>2. ASSUME NEW h \in Handlers, NEW k \in Kinds, HandleReload(h, k) PROVE NothingForgotten'
  BY <1>2, Constants, Handed DEF HandleReload, TypeOK
<1>3. ASSUME NEW k \in Kinds, NEW watched \in BOOLEAN, Change(k, watched) PROVE NothingForgotten'
  BY <1>3 DEF Change, loading, NothingForgotten, Reloading
<1>4. ASSUME NEW k \in Kinds, Receive(k) PROVE NothingForgotten'
  BY <1>4 DEF Receive, loading, NothingForgotten, Reloading
<1>5. ASSUME NEW k \in Kinds, Flush(k) PROVE NothingForgotten'
  <2>1. /\ Reloading(Loop, "idle") /\ reload'[Loop].pc = "load" /\ reload'[Loop].kind = k
        /\ UNCHANGED <<due, reported>> /\ pending' = pending \ {k}
    BY <1>5, Constants DEF Flush, TypeOK
  <2> QED
    BY <2>1 DEF NothingForgotten, Reloading
<1>6. CASE UNCHANGED <<changes, pending, reload>>
  BY <1>6, Handed
<1>7. ASSUME NEW r \in Resolvers, ResolveStep(r) \/ \E a \in Agents : Miss(r, a)
      PROVE  UNCHANGED <<changes, pending, reload>>
  BY <1>7 DEF ResolveStep, ReadAgents, ReadSkills, CreateFails, Store, Miss, loading
<1>8. CASE StartStep \/ StopStep \/ Enter \/ Tick \/ Cancelled \/ Closed \/ EndFlush \/ UNCHANGED vars
  <2>1. UNCHANGED <<changes, pending, reload>>
    BY <1>8 DEF StartStep, StopStep, StopEarly, StopCancel, StopClose, StopCheck, StopDone, StopTo,
                Enter, Tick, Cancelled, Closed, EndFlush, LoopTo, vars, loading
  <2> QED
    BY <1>6, <2>1
<1> QED
  BY <1>1, <1>2, <1>3, <1>4, <1>5, <1>6, <1>7, <1>8, Constants DEF Next, LoopStep, Threads

-----------------------------------------------------------------------------

\* The inductive invariant holds of every behaviour of the watcher and the cache.
THEOREM Inductive == Spec => [](CacheInv /\ StopInv /\ NothingForgotten)
<1>1. Init => CacheInv /\ StopInv /\ NothingForgotten
  <2> SUFFICES ASSUME Init PROVE CacheInv /\ StopInv /\ NothingForgotten
    OBVIOUS
  <2>1. Current /\ CacheFresh
    BY DEF Init, Current, CacheFresh
  <2>2. Shape /\ StopIsQuiet
    BY Constants DEF Init, Shape, StopIsQuiet, Reloading
  <2>3. NothingForgotten
    BY DEF Init, NothingForgotten
  <2> QED
    BY <2>1, <2>2, <2>3, InitType DEF CacheInv, StopInv
<1>2. CacheInv /\ StopInv /\ NothingForgotten /\ [Next]_vars
        => (CacheInv /\ StopInv /\ NothingForgotten)'
  BY CacheStep, StopStepInv, ForgottenStep DEF CacheInv
<1> QED BY <1>1, <1>2, PTL DEF Spec

\* Every variable keeps its type.
THEOREM TypeCorrect == Spec => []TypeOK
<1>1. CacheInv => TypeOK
  BY DEF CacheInv
<1> QED BY <1>1, Inductive, PTL

\* A cached runtime that no reload crossed is current, or about to be invalidated
\* (app.go 390-421, 789-812).
THEOREM CacheIsFresh == Spec => []CacheFresh
<1>1. CacheInv => CacheFresh
  BY DEF CacheInv
<1> QED BY <1>1, Inductive, PTL

\* After a Stop that came after Start the watcher reloads nothing
\* (hotreload_watcher.go 107-122).
THEOREM StoppedIsQuiet == Spec => []StopIsQuiet
<1>1. StopInv => StopIsQuiet
  BY DEF StopInv
<1> QED BY <1>1, Inductive, PTL

\* Of a change that fsnotify reported, the watcher has the event, the flag or the
\* reload in hand until some reload has read the directory
\* (hotreload_watcher.go 150-232).
THEOREM NoneForgotten == Spec => []NothingForgotten
  BY Inductive, PTL
=============================================================================
