----------------------------- MODULE HotReload -----------------------------
(***************************************************************************)
(* Reloading of the agents/ and skills/ directories: the watcher that      *)
(* reports changes (internal/svc/hotreload_watcher.go), the reload it and  *)
(* the handlers of agent.reload and skill.reload run, and the cache of     *)
(* runtimes built from what was loaded (internal/core/app.go).  Contents   *)
(* are version numbers.                                                    *)
(***************************************************************************)
EXTENDS Naturals

CONSTANTS
  Handlers,     \* goroutines that serve agent.reload and skill.reload
  Loop,         \* the watcher's event loop
  Resolvers,    \* goroutines that ask for the runtime of an agent
  Agents,       \* names of agents
  MaxVersion    \* bound: how often each directory changes

ASSUME LoopAssumption == Loop \notin Handlers
ASSUME VersionAssumption == MaxVersion \in Nat

Kinds    == {"agents", "skills"}
Versions == 0 .. MaxVersion
Threads  == Handlers \cup {Loop}

VARIABLES
  files,          \* kind -> what its directory holds
  reported,       \* kinds of which fsnotify has a change to tell
  due,            \* history: kinds with a reported change that no reload looked at since
  pending,        \* kinds the event loop will reload at its next tick
  reload,         \* threads: the progress of ReloadAgents or ReloadSkills
  registry,       \* kind -> the version that is loaded
  runtimeCache,   \* agent -> its cached runtime
  resolve,        \* goroutines: the progress of ResolveRuntime
  loop,           \* the event loop
  start, stop,    \* the progress of the watcher's Start and Stop
  cancelled, closed   \* the watcher's context, its fsnotify watcher

loading == <<reload, registry>>
runtimes == <<runtimeCache, resolve>>
changes == <<files, reported, due>>
life    == <<loop, start, stop, cancelled, closed>>
vars    == <<changes, pending, loading, runtimes, life>>

\* A runtime keeps the registries it was built from; crossed is history: was one
\* of them replaced before the runtime got into the cache?
Runtime   == [agents: Versions, skills: Versions, crossed: BOOLEAN]
NoRuntime == [agents |-> 0]
Fresh0    == [agents |-> 0, skills |-> 0, crossed |-> FALSE]

TypeOK ==
  /\ files \in [Kinds -> Versions]
  /\ registry \in [Kinds -> Versions]
  /\ reported \subseteq Kinds /\ due \subseteq Kinds /\ pending \subseteq Kinds
  /\ reload \in [Threads -> [pc: {"idle", "load", "publish", "invalidate"},
                             kind: Kinds, version: Versions]]
  /\ runtimeCache \in [Agents -> Runtime \cup {NoRuntime}]
  /\ resolve \in [Resolvers -> [pc: {"idle", "agents", "skills", "store"},
                                name: Agents, rt: Runtime]]
  /\ loop \in {"none", "spawned", "select", "flush", "last", "exited"}
  /\ start \in {"begin", "context", "watching", "spawned", "failed"}
  /\ stop \in {"no", "cancelled", "closed", "waiting", "returned", "missed"}
  /\ cancelled \in BOOLEAN /\ closed \in BOOLEAN

\* The application has loaded both directories; the watcher is about to start.
Init ==
  /\ files = [k \in Kinds |-> 0] /\ registry = files
  /\ reported = {} /\ due = {} /\ pending = {}
  /\ reload = [t \in Threads |-> [pc |-> "idle", kind |-> "agents", version |-> 0]]
  /\ runtimeCache = [a \in Agents |-> NoRuntime]
  /\ resolve \in [Resolvers -> [pc: {"idle"}, name: Agents, rt: {Fresh0}]]
  /\ loop = "none" /\ start = "begin" /\ stop = "no"
  /\ cancelled = FALSE /\ closed = FALSE

-----------------------------------------------------------------------------
(* ReloadAgents and ReloadSkills; before an action, its mutants *)

Reloading(t, pc) == reload[t].pc = pc
EndReload(t)     == reload' = [reload EXCEPT ![t] = [pc |-> "idle", kind |-> "agents", version |-> 0]]

\* agent.reload and skill.reload
HandleReload(h, k) ==
  /\ Reloading(h, "idle")
  /\ reload' = [reload EXCEPT ![h] = [pc |-> "load", kind |-> k, version |-> 0]]
  /\ UNCHANGED <<changes, pending, registry, runtimes, life>>

Load(t) ==
  /\ Reloading(t, "load")
  /\ reload' = [reload EXCEPT ![t].pc = "publish", ![t].version = files[reload[t].kind]]
  /\ due' = due \ {reload[t].kind}
  /\ UNCHANGED <<files, reported, pending, registry, runtimes, life>>

LoadFails_Overlooked(t) ==
  /\ Reloading(t, "load")
  /\ reload' = [reload EXCEPT ![t].pc = "publish", ![t].version = MaxVersion + 1]
  /\ due' = due \ {reload[t].kind}
  /\ UNCHANGED <<files, reported, pending, registry, runtimes, life>>

\* An error changes nothing, and nobody tries again.
LoadFails(t) ==
  /\ Reloading(t, "load")
  /\ EndReload(t)
  /\ due' = due \ {reload[t].kind}
  /\ UNCHANGED <<files, reported, pending, registry, runtimes, life>>

\* The registry is replaced, without a lock.  A runtime under construction that
\* has read the old one is crossed.
Publish(t) ==
  LET k == reload[t].kind
      HasRead(r) == resolve[r].pc = "store" \/ (k = "agents" /\ resolve[r].pc = "skills")
  IN
  /\ Reloading(t, "publish")
  /\ registry' = [registry EXCEPT ![k] = reload[t].version]
  /\ reload' = [reload EXCEPT ![t].pc = "invalidate", ![t].version = 0]
  /\ resolve' = [r \in Resolvers |->
       [resolve[r] EXCEPT !.rt.crossed = @ \/ HasRead(r)]]
  /\ UNCHANGED <<changes, pending, runtimeCache, life>>

Invalidate_OnlyAgents(t) ==
  /\ Reloading(t, "invalidate")
  /\ runtimeCache' = [a \in Agents |->
       IF reload[t].kind = "agents" THEN NoRuntime ELSE runtimeCache[a]]
  /\ EndReload(t)
  /\ UNCHANGED <<changes, pending, registry, resolve, life>>

Invalidate(t) ==
  /\ Reloading(t, "invalidate")
  /\ runtimeCache' = [a \in Agents |-> NoRuntime]
  /\ EndReload(t)
  /\ UNCHANGED <<changes, pending, registry, resolve, life>>

-----------------------------------------------------------------------------
(* ResolveRuntime *)

Resolving(r, pc) == resolve[r].pc = pc

\* Nothing is cached: a runtime is created, with no lock held.
Miss(r, a) ==
  /\ Resolving(r, "idle") /\ runtimeCache[a] = NoRuntime
  /\ resolve' = [resolve EXCEPT ![r] = [pc |-> "agents", name |-> a, rt |-> Fresh0]]
  /\ UNCHANGED <<changes, pending, loading, runtimeCache, life>>

ReadAgents(r) ==
  /\ Resolving(r, "agents")
  /\ resolve' = [resolve EXCEPT ![r].pc = "skills", ![r].rt.agents = registry["agents"]]
  /\ UNCHANGED <<changes, pending, loading, runtimeCache, life>>

ReadSkills(r) ==
  /\ Resolving(r, "skills")
  /\ resolve' = [resolve EXCEPT ![r].pc = "store", ![r].rt.skills = registry["skills"]]
  /\ UNCHANGED <<changes, pending, loading, runtimeCache, life>>

\* No such agent, no model, or the runtime cannot be built.
CreateFails(r) ==
  /\ resolve[r].pc \in {"agents", "skills", "store"}
  /\ resolve' = [resolve EXCEPT ![r].pc = "idle", ![r].rt = Fresh0]
  /\ UNCHANGED <<changes, pending, loading, runtimeCache, life>>

\* The cache is not looked at again, nor the registries.
Store(r) ==
  /\ Resolving(r, "store")
  /\ runtimeCache' = [runtimeCache EXCEPT ![resolve[r].name] = resolve[r].rt]
  /\ resolve' = [resolve EXCEPT ![r].pc = "idle", ![r].rt = Fresh0]
  /\ UNCHANGED <<changes, pending, loading, life>>

-----------------------------------------------------------------------------
(* The watcher *)

\* A file changes.  fsnotify reports it unless its directory is so new that it is
\* not watched yet, or the file is of no interest.
Change(k, watched) ==
  /\ files[k] < MaxVersion
  /\ files' = [files EXCEPT ![k] = @ + 1]
  /\ IF watched /\ start \in {"watching", "spawned"} /\ ~closed
     THEN reported' = reported \cup {k} /\ due' = due \cup {k}
     ELSE UNCHANGED <<reported, due>>
  /\ UNCHANGED <<pending, loading, runtimes, life>>

\* Start, in a goroutine of its own: the context; the fsnotify watcher, unless
\* it, or no directory, can be watched; the event loop.
StartStep ==
  /\ \/ start = "begin" /\ start' = "context" /\ UNCHANGED loop
     \/ start = "context" /\ start' \in {"watching", "failed"} /\ UNCHANGED loop
     \/ start = "watching" /\ start' = "spawned" /\ loop' = "spawned"
  /\ UNCHANGED <<changes, pending, loading, runtimes, stop, cancelled, closed>>

LoopTo(pc) ==
  /\ loop' = pc
  /\ UNCHANGED <<changes, pending, loading, runtimes, start, stop, cancelled, closed>>

Enter == loop = "spawned" /\ LoopTo("select")

Receive_Replaces(k) ==
  /\ loop = "select" /\ k \in reported /\ ~closed
  /\ reported' = reported \ {k}
  /\ pending' = {k}
  /\ UNCHANGED <<files, due, loading, runtimes, life>>

\* select: an event, a tick with something pending, the context, a closed channel.
Receive(k) ==
  /\ loop = "select" /\ k \in reported /\ ~closed
  /\ reported' = reported \ {k}
  /\ pending' = pending \cup {k}
  /\ UNCHANGED <<files, due, loading, runtimes, life>>

Tick      == loop = "select" /\ pending # {} /\ LoopTo("flush")
Cancelled == loop = "select" /\ cancelled /\ LoopTo("last")
Closed    == loop = "select" /\ closed /\ LoopTo("exited")

Flush_ClearsBoth(k) ==
  /\ loop \in {"flush", "last"} /\ Reloading(Loop, "idle")
  /\ k \in pending /\ (k = "skills" => "agents" \notin pending)
  /\ pending' = {}
  /\ reload' = [reload EXCEPT ![Loop] = [pc |-> "load", kind |-> k, version |-> 0]]
  /\ UNCHANGED <<changes, registry, runtimes, life>>

\* flush reloads the agents, then the skills.  A flag, which only the loop sees, is
\* down after its reload, failed or not.
Flush(k) ==
  /\ loop \in {"flush", "last"} /\ Reloading(Loop, "idle")
  /\ k \in pending /\ (k = "skills" => "agents" \notin pending)
  /\ pending' = pending \ {k}
  /\ reload' = [reload EXCEPT ![Loop] = [pc |-> "load", kind |-> k, version |-> 0]]
  /\ UNCHANGED <<changes, registry, runtimes, life>>

EndFlush_NoReturn ==
  /\ loop \in {"flush", "last"} /\ Reloading(Loop, "idle") /\ pending = {}
  /\ LoopTo("select")

EndFlush ==
  /\ loop \in {"flush", "last"} /\ Reloading(Loop, "idle") /\ pending = {}
  /\ LoopTo(IF loop = "flush" THEN "select" ELSE "exited")

IsRunning == loop \in {"select", "flush", "last"}

StopTo(pc) ==
  /\ stop' = pc
  /\ UNCHANGED <<changes, pending, loading, runtimes, loop, start>>

\* Stop reads the watcher's fields with no lock: when it comes before Start is
\* done it may see some of them.
StopEarly ==
  /\ stop = "no" /\ start # "spawned"
  /\ cancelled' \in {FALSE, start # "begin"}
  /\ closed' \in {FALSE, start = "watching"}
  /\ StopTo("missed")

StopCancel == stop = "no" /\ start = "spawned" /\ cancelled' = TRUE /\ UNCHANGED closed
              /\ StopTo("cancelled")
StopClose  == stop = "cancelled" /\ closed' = TRUE /\ UNCHANGED cancelled /\ StopTo("closed")

StopCheck_NoWait == stop = "closed" /\ UNCHANGED <<cancelled, closed>> /\ StopTo("returned")

\* It waits for a loop that runs by now, or returns at once.
StopCheck  == stop = "closed" /\ UNCHANGED <<cancelled, closed>>
              /\ StopTo(IF IsRunning THEN "waiting" ELSE "returned")
StopDone   == stop = "waiting" /\ loop = "exited" /\ UNCHANGED <<cancelled, closed>>
              /\ StopTo("returned")

-----------------------------------------------------------------------------

ReloadStep(t) == Load(t) \/ LoadFails(t) \/ Publish(t) \/ Invalidate(t)

LoopStep ==
  \/ Enter \/ Tick \/ Cancelled \/ Closed \/ EndFlush
  \/ \E k \in Kinds : Receive(k) \/ Flush(k)
  \/ ReloadStep(Loop)

StopStep == StopCancel \/ StopClose \/ StopCheck \/ StopDone \/ StopEarly

ResolveStep(r) == ReadAgents(r) \/ ReadSkills(r) \/ CreateFails(r) \/ Store(r)

Next ==
  \/ \E h \in Handlers : ReloadStep(h) \/ \E k \in Kinds : HandleReload(h, k)
  \/ \E r \in Resolvers : ResolveStep(r) \/ \E a \in Agents : Miss(r, a)
  \/ \E k \in Kinds, watched \in BOOLEAN : Change(k, watched)
  \/ StartStep \/ LoopStep \/ StopStep

Spec == Init /\ [][Next]_vars

\* Goroutines are scheduled and a directory is read in finite time; Stop is not
\* bound to be called, only to go on.
Fairness ==
  /\ WF_vars(StartStep)
  /\ WF_vars(LoopStep)
  /\ WF_vars(StopClose \/ StopCheck \/ StopDone)

FairSpec == Spec /\ Fairness

-----------------------------------------------------------------------------
(* Properties *)

\* A runtime that was cached with no reload in between is current, or about to be
\* invalidated by the reload that replaced its registry: whatever mix of
\* handlers and loop reloads, no change of a registry misses the cache
\* (app.go:395-400, 412-417).
CacheFresh ==
  \A a \in Agents : runtimeCache[a] # NoRuntime /\ ~runtimeCache[a].crossed =>
    \A k \in Kinds :
      \/ runtimeCache[a][k] = registry[k]
      \/ \E t \in Threads : Reloading(t, "invalidate") /\ reload[t].kind = k

\* Once Stop has returned, if Start was done when it began, the watcher reloads
\* nothing any more, even when its loop had not begun to run
\* (hotreload_watcher.go:107-122).
StopIsQuiet ==
  stop = "returned" =>
    /\ Reloading(Loop, "idle")
    /\ loop = "exited" \/ (loop \in {"spawned", "select", "last"} /\ pending = {})

\* No reported change is forgotten between the watcher's hands, whatever reloads
\* fail or overlap: until a reload has read the directory it changed, either its
\* event waits in fsnotify, or its kind is flagged, or the loop is about to read
\* that directory (hotreload_watcher.go:150-232).
NothingForgotten ==
  \A k \in due : k \in reported \cup pending \/ (Reloading(Loop, "load") /\ reload[Loop].kind = k)

\* A change that fsnotify reports is looked at by a later reload, also when it
\* comes while a reload is running, unless the watcher is stopped
\* (hotreload_watcher.go:150-232).
ChangeLoaded == \A k \in Kinds : k \in due ~> k \notin due \/ stop # "no"

\* Stop returns: the loop cannot be kept from its end.
StopReturns == stop = "cancelled" ~> stop = "returned"
=============================================================================
