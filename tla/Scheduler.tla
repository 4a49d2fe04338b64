----------------------------- MODULE Scheduler -----------------------------
(***************************************************************************)
(* Scheduled jobs (pkg/scheduler, internal/svc/handler_schedule.go, the    *)
(* Cron tool and daemon.executeScheduleCommand).  Clients write one JSON   *)
(* file per job; a watch goroutine compares the files with the table of    *)
(* the cron library every few seconds; the library starts a goroutine per  *)
(* firing, which runs the prompt in the job's directory and records the    *)
(* outcome in the job's file.  The working directory belongs to the whole  *)
(* process, so execMu lends it to one run at a time.                       *)
(***************************************************************************)
EXTENDS Naturals, FiniteSets

CONSTANTS
  NumJobs,      \* job ids, sorted as the store lists them
  DirJobs,      \* jobs with a project_dir, their own or their session's
  LegacyJobs,   \* jobs whose file was written by an old version
  OddJobs,      \* jobs that may be given a cron_expr the library cannot parse
  MaxContent,   \* bound: the prompts a job may have
  MaxFires,     \* bound: how often the cron library fires
  MaxRestarts,  \* bound: how often the daemon is killed and started again
  Runs,         \* bound: runs going on at the same time
  Editors       \* Cron tool calls that may be updating a job

Jobs == 1 .. NumJobs

ASSUME ConstantsAssumption ==
  /\ NumJobs \in Nat \ {0}
  /\ DirJobs \subseteq Jobs
  /\ LegacyJobs \subseteq Jobs
  /\ OddJobs \subseteq Jobs
  /\ MaxContent \in Nat \ {0}
  /\ MaxFires \in Nat
  /\ MaxRestarts \in Nat

NoJob == 0
Lost  == 0                      \* the empty prompt
Prompt == 0 .. MaxContent
CronID == 1 .. NumJobs + 1
NoID   == 0
Home   == 0                     \* the daemon's own directory; a job's is its id

\* A job's file.  "legacy" keeps the prompt under "command"; of the cron_expr
\* only whether the library can parse it matters.
Entry == [form: {"none", "legacy", "current"}, enabled: BOOLEAN,
          content: Prompt, parses: BOOLEAN, runs: Nat]
NoEntry == [form |-> "none", enabled |-> FALSE, content |-> Lost, parses |-> TRUE,
            runs |-> 0]

VARIABLES
  file,      \* FileSchedulerStore: the file of each job
  entries,   \* Scheduler.entries: the cron id of each job, NoID when absent
  cron,      \* the cron library's table: the job and prompt each id captured
  clock,     \* is the cron library "new", "running" or "stopped"?
  watch,     \* the watch goroutine: pc, the list it read, the next job to apply
  run,       \* executeJob goroutines: pc, captured entry, outcome, saved directory
  execMu,    \* the runs that hold Daemon.execMu
  cwd,       \* working directory (and MINDX_PROJECT_DIR) of the process
  editor,    \* Cron tool updates: the job and the copy loaded
  fires, restarts

vars == <<file, entries, cron, clock, watch, run, execMu, cwd, editor, fires, restarts>>

NoCron  == [job |-> NoJob, content |-> Lost]
IdleRun == [pc |-> "idle", job |-> NoJob, content |-> Lost, ok |-> FALSE, orig |-> Home]
NoEdit  == [job |-> NoJob, copy |-> NoEntry]
Boot    == [pc |-> "list", list |-> [j \in Jobs |-> NoEntry], next |-> 1]

Exists(f, j) == f[j].form # "none"

TypeOK ==
  /\ file \in [Jobs -> Entry]
  /\ entries \in [Jobs -> CronID \cup {NoID}]
  /\ cron \in [CronID -> [job: Jobs \cup {NoJob}, content: Prompt]]
  /\ clock \in {"new", "running", "stopped"}
  /\ watch \in [pc: {"list", "apply", "idle", "blocked", "ended"},
                list: [Jobs -> Entry], next: 1 .. NumJobs + 1]
  /\ run \in [Runs -> [pc: {"idle", "start", "lock", "ask", "record"},
                       job: Jobs \cup {NoJob}, content: Prompt, ok: BOOLEAN,
                       orig: Jobs \cup {Home}]]
  /\ execMu \subseteq Runs
  /\ cwd \in Jobs \cup {Home}
  /\ editor \in [Editors -> [job: Jobs \cup {NoJob}, copy: Entry]]
  /\ fires \in 0 .. MaxFires
  /\ restarts \in 0 .. MaxRestarts

Init ==
  /\ file = [j \in Jobs |->
       IF j \in LegacyJobs
       THEN [NoEntry EXCEPT !.form = "legacy", !.enabled = TRUE, !.content = 1]
       ELSE NoEntry]
  /\ entries = [j \in Jobs |-> NoID]
  /\ cron = [i \in CronID |-> NoCron]
  /\ clock = "new"
  /\ watch = Boot
  /\ run = [r \in Runs |-> IdleRun]
  /\ execMu = {}
  /\ cwd = Home
  /\ editor = [e \in Editors |-> NoEdit]
  /\ fires = 0
  /\ restarts = 0

-----------------------------------------------------------------------------
(* The store, as handlers and the Cron tool use it: each call is atomic *)

Save(j, entry) == file' = [file EXCEPT ![j] = [entry EXCEPT !.form = "current"]]

\* Nobody who saves an entry tries its cron_expr first.
Parses(j) == IF j \in OddJobs THEN BOOLEAN ELSE {TRUE}

\* schedule.add and the tool's create, which may be given an id in use.
Create(j, on, c) ==
  /\ \E ok \in Parses(j) :
       Save(j, [NoEntry EXCEPT !.enabled = on, !.content = c, !.parses = ok])
  /\ UNCHANGED <<entries, cron, clock, watch, run, execMu, cwd, editor, fires, restarts>>

Delete(j) ==
  /\ Exists(file, j)
  /\ file' = [file EXCEPT ![j] = NoEntry]
  /\ UNCHANGED <<entries, cron, clock, watch, run, execMu, cwd, editor, fires, restarts>>

\* The tool's update loads the entry, changes the copy and saves it.  What the
\* copy says of enabled and cron_expr is left out: the update may set them to
\* anything, what they were included.
UpdateLoad(e, j) ==
  /\ editor[e] = NoEdit
  /\ Exists(file, j)
  /\ editor' = [editor EXCEPT ![e] = [job |-> j, copy |->
                  [file[j] EXCEPT !.enabled = FALSE, !.parses = TRUE]]]
  /\ UNCHANGED <<file, entries, cron, clock, watch, run, execMu, cwd, fires, restarts>>

UpdateSave(e) ==
  /\ editor[e] # NoEdit
  /\ LET old == editor[e].copy
     IN \E on \in BOOLEAN, c \in {old.content} \cup 1 .. MaxContent,
           ok \in Parses(editor[e].job) :
          Save(editor[e].job, [old EXCEPT !.enabled = on, !.content = c, !.parses = ok])
  /\ editor' = [editor EXCEPT ![e] = NoEdit]
  /\ UNCHANGED <<entries, cron, clock, watch, run, execMu, cwd, fires, restarts>>

\* UpdateLastRun decodes the file without the migration that Load applies.
UpdateLastRun(j) ==
  IF Exists(file, j)
  THEN Save(j, [file[j] EXCEPT !.content = IF file[j].form = "legacy" THEN Lost ELSE @,
                               !.runs = @ + 1])
  ELSE UNCHANGED file

-----------------------------------------------------------------------------
(* The watch goroutine: Start's reloadAll, then one per tick *)

Watching(pc) == watch.pc = pc

WatchTick ==
  /\ Watching("idle")
  /\ watch' = [watch EXCEPT !.pc = "list"]
  /\ UNCHANGED <<file, entries, cron, clock, run, execMu, cwd, editor, fires, restarts>>

WatchEnd ==
  /\ Watching("idle")
  /\ clock = "stopped"
  /\ watch' = [watch EXCEPT !.pc = "ended"]
  /\ UNCHANGED <<file, entries, cron, clock, run, execMu, cwd, editor, fires, restarts>>

WatchList ==
  /\ Watching("list")
  /\ watch' = [pc |-> "apply", next |-> 1,
                list |-> [j \in Jobs |-> [file[j] EXCEPT !.runs = 0]]]
  /\ UNCHANGED <<file, entries, cron, clock, run, execMu, cwd, editor, fires, restarts>>

\* Ways the operators below could be wrong (see the README).
addJob_Always(j, entry) ==
  \E i \in {k \in CronID : cron[k] = NoCron} :
    /\ cron' = [cron EXCEPT ![i] = [job |-> j, content |-> entry.content]]
    /\ entries' = [entries EXCEPT ![j] = i]

addJob_AtStart(j, entry) ==
  \/ /\ clock # "new" \/ entries[j] # NoID \/ ~entry.parses
     /\ UNCHANGED <<entries, cron>>
  \/ /\ clock = "new" /\ entries[j] = NoID /\ entry.parses
     /\ \E i \in {k \in CronID : cron[k] = NoCron} :
          /\ cron' = [cron EXCEPT ![i] = [job |-> j, content |-> entry.content]]
          /\ entries' = [entries EXCEPT ![j] = i]

\* An entry that is already scheduled keeps the closure it was added with,
\* whatever its expression is now; one the library cannot parse is left out,
\* and the error only logged.
addJob(j, entry) ==
  \/ /\ entries[j] # NoID \/ ~entry.parses
     /\ UNCHANGED <<entries, cron>>
  \/ /\ entries[j] = NoID /\ entry.parses
     /\ \E i \in {k \in CronID : cron[k] = NoCron} :
          /\ cron' = [cron EXCEPT ![i] = [job |-> j, content |-> entry.content]]
          /\ entries' = [entries EXCEPT ![j] = i]

removeJob_Skipped(j) == UNCHANGED <<entries, cron>>

removeJob(j) ==
  \/ /\ entries[j] = NoID
     /\ UNCHANGED <<entries, cron>>
  \/ /\ entries[j] # NoID
     /\ cron' = [cron EXCEPT ![entries[j]] = NoCron]
     /\ entries' = [entries EXCEPT ![j] = NoID]

WatchApply ==
  /\ Watching("apply")
  /\ watch.next \in Jobs
  /\ LET j == watch.next
         entry == watch.list[j]
     IN \/ ~Exists(watch.list, j) /\ UNCHANGED <<entries, cron>>
        \/ Exists(watch.list, j) /\ ~entry.enabled /\ removeJob(j)
        \/ Exists(watch.list, j) /\ entry.enabled /\ addJob(j, entry)
  /\ watch' = [watch EXCEPT !.next = @ + 1]
  /\ UNCHANGED <<file, clock, run, execMu, cwd, editor, fires, restarts>>

Orphans == {j \in Jobs : entries[j] # NoID /\ ~Exists(watch.list, j)}

\* The sweep holds Scheduler.mu.  removeJob locks it again, and Go's mutexes
\* are not reentrant: with an orphan to remove the goroutine waits for itself.
WatchSweep ==
  /\ Watching("apply")
  /\ watch.next \notin Jobs
  /\ watch' = [Boot EXCEPT !.pc = IF Orphans = {} THEN "idle" ELSE "blocked"]
  /\ clock' = IF clock = "new" THEN "running" ELSE clock
  /\ UNCHANGED <<file, entries, cron, run, execMu, cwd, editor, fires, restarts>>

\* Stop halts the clock; runs that have started are left alone.
Stop ==
  /\ clock = "running"
  /\ clock' = "stopped"
  /\ UNCHANGED <<file, entries, cron, watch, run, execMu, cwd, editor, fires, restarts>>

-----------------------------------------------------------------------------
(* executeJob and executeScheduleCommand, one goroutine per firing *)

At(r, pc) == run[r].pc = pc

Fire_Reloads(r, i) ==
  /\ clock = "running"
  /\ At(r, "idle")
  /\ cron[i] # NoCron
  /\ fires < MaxFires
  /\ fires' = fires + 1
  /\ run' = [run EXCEPT ![r] = [IdleRun EXCEPT !.pc = "start", !.job = cron[i].job,
                                               !.content = file[cron[i].job].content]]
  /\ UNCHANGED <<file, entries, cron, clock, watch, execMu, cwd, editor, restarts>>

Fire(r, i) ==
  /\ clock = "running"
  /\ At(r, "idle")
  /\ cron[i] # NoCron
  /\ fires < MaxFires
  /\ fires' = fires + 1
  /\ run' = [run EXCEPT ![r] = [IdleRun EXCEPT !.pc = "start", !.job = cron[i].job,
                                               !.content = cron[i].content]]
  /\ UNCHANGED <<file, entries, cron, clock, watch, execMu, cwd, editor, restarts>>

\* The runtime or the session cannot be resolved, or the run goes on.
RunStart(r) ==
  /\ At(r, "start")
  /\ \E pc \in {"record", IF run[r].job \in DirJobs THEN "lock" ELSE "ask"} :
       run' = [run EXCEPT ![r].pc = pc]
  /\ UNCHANGED <<file, entries, cron, clock, watch, execMu, cwd, editor, fires, restarts>>

RunChdir_Unlocked(r) ==
  /\ At(r, "lock")
  /\ execMu' = execMu \cup {r}
  /\ cwd' = run[r].job
  /\ run' = [run EXCEPT ![r].pc = "ask", ![r].orig = cwd]
  /\ UNCHANGED <<file, entries, cron, clock, watch, editor, fires, restarts>>

RunChdir_NoGetwd(r) ==
  /\ At(r, "lock")
  /\ execMu = {}
  /\ execMu' = {r}
  /\ cwd' = run[r].job
  /\ run' = [run EXCEPT ![r].pc = "ask", ![r].orig = NumJobs + 1]
  /\ UNCHANGED <<file, entries, cron, clock, watch, editor, fires, restarts>>

RunChdir(r) ==
  /\ At(r, "lock")
  /\ execMu = {}
  /\ execMu' = {r}
  /\ cwd' = run[r].job
  /\ run' = [run EXCEPT ![r].pc = "ask", ![r].orig = cwd]
  /\ UNCHANGED <<file, entries, cron, clock, watch, editor, fires, restarts>>

RunNoDir_KeepLock(r) ==
  /\ At(r, "lock")
  /\ execMu = {}
  /\ execMu' = {r}
  /\ run' = [run EXCEPT ![r].pc = "record"]
  /\ UNCHANGED <<file, entries, cron, clock, watch, cwd, editor, fires, restarts>>

\* The directory is gone: unlock, and run where the process happens to be.
RunNoDir(r) ==
  /\ At(r, "lock")
  /\ execMu = {}
  /\ run' = [run EXCEPT ![r].pc = "ask"]
  /\ UNCHANGED <<file, entries, cron, clock, watch, execMu, cwd, editor, fires, restarts>>

\* Ask returns, and the deferred function gives the directory back.
RunAsk(r) ==
  /\ At(r, "ask")
  /\ \E ok \in BOOLEAN : run' = [run EXCEPT ![r].pc = "record", ![r].ok = ok]
  /\ execMu' = execMu \ {r}
  /\ cwd' = IF r \in execMu THEN run[r].orig ELSE cwd
  /\ UNCHANGED <<file, entries, cron, clock, watch, editor, fires, restarts>>

RunRecord(r) ==
  /\ At(r, "record")
  /\ UpdateLastRun(run[r].job)
  /\ run' = [run EXCEPT ![r] = IdleRun]
  /\ UNCHANGED <<entries, cron, clock, watch, execMu, cwd, editor, fires, restarts>>

\* The daemon dies; only the files survive.
Restart ==
  /\ restarts < MaxRestarts
  /\ restarts' = restarts + 1
  /\ entries' = [j \in Jobs |-> NoID]
  /\ cron' = [i \in CronID |-> NoCron]
  /\ clock' = "new"
  /\ watch' = Boot
  /\ run' = [r \in Runs |-> IdleRun]
  /\ execMu' = {}
  /\ cwd' = Home
  /\ editor' = [e \in Editors |-> NoEdit]
  /\ UNCHANGED <<file, fires>>

-----------------------------------------------------------------------------

Edit ==
  \/ \E j \in Jobs, on \in BOOLEAN, c \in 1 .. MaxContent : Create(j, on, c)
  \/ \E j \in Jobs : Delete(j)
  \/ \E e \in Editors, j \in Jobs : UpdateLoad(e, j)
  \/ \E e \in Editors : UpdateSave(e)

WatchStep == WatchTick \/ WatchList \/ WatchApply \/ WatchSweep

RunStep(r) == RunStart(r) \/ RunChdir(r) \/ RunNoDir(r) \/ RunAsk(r) \/ RunRecord(r)

Next ==
  \/ Edit
  \/ WatchStep
  \/ WatchEnd
  \/ Stop
  \/ \E r \in Runs, i \in CronID : Fire(r, i)
  \/ \E r \in Runs : RunStep(r)
  \/ Restart

Spec == Init /\ [][Next]_vars

\* The watch goroutine and the runs are goroutines that are never descheduled
\* for ever; Ask returns because its context expires after five minutes; and a
\* goroutine that waits for a sync.Mutex is not starved.  Nothing is assumed of
\* clients, of the clock, or of crashes.
FairSpec ==
  /\ Spec
  /\ WF_vars(WatchStep)
  /\ \A r \in Runs :
       /\ WF_vars(RunStart(r) \/ RunAsk(r) \/ RunRecord(r))
       /\ SF_vars(RunChdir(r) \/ RunNoDir(r))

-----------------------------------------------------------------------------
(* Properties *)

\* The map and the cron table agree: a job in Scheduler.entries has exactly one
\* row in the cron library, the one its id names, so no job fires twice at one
\* instant and none is out of removeJob's reach (scheduler.go:127, :152).
OneCronPerEntry ==
  /\ \A i \in CronID : cron[i] # NoCron => cron[i].job \in Jobs /\ entries[cron[i].job] = i
  /\ \A j \in Jobs : entries[j] # NoID => cron[entries[j]].job = j

\* The process is in the daemon's own directory whenever no run holds execMu,
\* and in the holder's project directory while one does (daemon.go:1378-1397).
CwdDiscipline ==
  /\ execMu = {} => cwd = Home
  /\ \A r \in execMu :
       /\ execMu = {r}
       /\ At(r, "ask")
       /\ cwd = run[r].job
       /\ run[r].orig = Home

\* What the cron library has rows for, and what its goroutines are at.
scheduled == [j \in Jobs |-> {cron[i].content : i \in {k \in CronID : cron[k].job = j}}]
doing == [r \in Runs |-> IF At(r, "idle") THEN {}
                         ELSE {[job |-> run[r].job, prompt |-> run[r].content]}]

Table == INSTANCE JobTable WITH Prompts <- Prompt, lent <- execMu, place <- cwd

\* The scheduler is the table of JobTable: a job has one row, whose prompt never
\* changes in place; a run has the prompt its row had when it fired, whatever
\* happens to the file meanwhile; nobody moves the directory while a run has it
\* (scheduler.go:127, :136, daemon.go:1378).
ImplementsTable == Table!Spec

\* Every run ends, whatever the other runs do with the directory and whether
\* or not its own directory exists (scheduler.go:158, daemon.go:1382).
RunsEnd == \A r \in Runs : run[r].pc # "idle" ~> run[r].pc = "idle"

Watched == watch.pc \notin {"blocked", "ended"}

\* A job that stays enabled with an expression the library can parse is
\* eventually scheduled for good, through edits, earlier expressions it could
\* not parse, lists that were stale when applied and restarts, as long as the
\* watch goroutine lives (scheduler.go:92).  With one it cannot parse the job
\* is accepted, listed as enabled and never scheduled (scheduler.go:132).
EnabledScheduled ==
  \A j \in Jobs :
    <>[](Exists(file, j) /\ file[j].enabled /\ file[j].parses /\ Watched)
      => <>[](entries[j] # NoID)

\* A job that stays disabled is eventually out of the table for good
\* (scheduler.go:88).
DisabledUnscheduled ==
  \A j \in Jobs : <>[](Exists(file, j) /\ ~file[j].enabled /\ Watched)
                    => <>[](entries[j] = NoID)

\* "permanently removed" (runtime/skills/mindx-cli/references/ref-automation.md:16):
\* a job whose file stays deleted is eventually out of the cron table.
DeletedJobStops ==
  \A j \in Jobs : <>[]~Exists(file, j) => <>[](entries[j] = NoID)
=============================================================================
