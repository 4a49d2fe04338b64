-------------------------- MODULE SchedulerProofs --------------------------
(***************************************************************************)
(* The invariants of Scheduler, for every number of jobs, prompts, runs    *)
(* and editors.                                                            *)
(***************************************************************************)
EXTENDS Scheduler, TLAPS

\* Table and lock discipline rest on types only; types on the table as well,
\* because a run is given the job of the cron row that fires.
IInv == TypeOK /\ OneCronPerEntry /\ CwdDiscipline

\* Ids and directories are apart from their null values, and the null job,
\* prompt and entry have the types of theirs.
LEMMA NullFacts ==
  /\ NoID \notin CronID /\ NoJob \notin Jobs /\ Home \notin Jobs
  /\ NoEntry \in Entry /\ Lost \in Prompt /\ 1 \in Prompt
  /\ \A c \in 1 .. MaxContent : c \in Prompt
  /\ NoCron \in [job: Jobs \cup {NoJob}, content: Prompt]
  /\ IdleRun \in [pc: {"idle", "start", "lock", "ask", "record"},
                  job: Jobs \cup {NoJob}, content: Prompt, ok: BOOLEAN,
                  orig: Jobs \cup {Home}]
  /\ NoEdit \in [job: Jobs \cup {NoJob}, copy: Entry]
  /\ Boot \in [pc: {"list", "apply", "idle", "blocked", "ended"},
               list: [Jobs -> Entry], next: 1 .. NumJobs + 1]
  BY SMT, ConstantsAssumption
     DEF NoID, CronID, NoJob, Jobs, Home, NoEntry, Entry, Lost, Prompt, NoCron,
         IdleRun, NoEdit, Boot

\* The program starts in the invariant.
LEMMA InitIInv == Init => IInv
  <1> SUFFICES ASSUME Init PROVE IInv OBVIOUS
  <1>1. TypeOK
    <2>1. file \in [Jobs -> Entry]
      BY NullFacts DEF Init, Entry, NoEntry
    <2> QED BY <2>1, NullFacts, ConstantsAssumption DEF Init, TypeOK
  <1>2. OneCronPerEntry
    BY DEF Init, OneCronPerEntry
  <1>3. CwdDiscipline
    BY DEF Init, CwdDiscipline
  <1> QED BY <1>1, <1>2, <1>3 DEF IInv

\* Saving a well-typed entry keeps the store well typed.
LEMMA SaveType ==
  ASSUME NEW j, file \in [Jobs -> Entry], NEW entry,
         j \in Jobs => entry \in Entry, Save(j, entry)
  PROVE  file' \in [Jobs -> Entry]
  BY DEF Save, Entry

\* Whether an expression parses is yes or no.
LEMMA ParsesType == \A j : Parses(j) \subseteq BOOLEAN
  BY DEF Parses

\* Handlers and the Cron tool keep the types.
LEMMA EditTypes == ASSUME TypeOK, Edit PROVE TypeOK'
  <1>1. ASSUME NEW j \in Jobs, NEW on \in BOOLEAN, NEW c \in 1 .. MaxContent, Create(j, on, c)
        PROVE TypeOK'
    <2>1. PICK ok \in Parses(j) :
            Save(j, [NoEntry EXCEPT !.enabled = on, !.content = c, !.parses = ok])
      BY <1>1 DEF Create
    <2>2. [NoEntry EXCEPT !.enabled = on, !.content = c, !.parses = ok] \in Entry
      BY NullFacts, ParsesType DEF NoEntry, Entry
    <2> QED BY <1>1, <2>1, <2>2, SaveType DEF Create, TypeOK
  <1>2. ASSUME NEW j \in Jobs, Delete(j) PROVE TypeOK'
    BY <1>2, NullFacts DEF Delete, TypeOK
  <1>3. ASSUME NEW e \in Editors, NEW j \in Jobs, UpdateLoad(e, j) PROVE TypeOK'
    <2>1. file[j] \in Entry
      BY DEF TypeOK
    <2>2. [file[j] EXCEPT !.enabled = FALSE, !.parses = TRUE] \in Entry
      BY <2>1 DEF Entry
    <2> QED BY <1>3, <2>2 DEF UpdateLoad, TypeOK
  <1>4. ASSUME NEW e \in Editors, UpdateSave(e) PROVE TypeOK'
    <2> DEFINE old == editor[e].copy
    <2>1. PICK on \in BOOLEAN, c \in {old.content} \cup 1 .. MaxContent,
               ok \in Parses(editor[e].job) :
            Save(editor[e].job, [old EXCEPT !.enabled = on, !.content = c, !.parses = ok])
      BY <1>4 DEF UpdateSave
    <2>2. old \in Entry
      BY DEF TypeOK
    <2>3. [old EXCEPT !.enabled = on, !.content = c, !.parses = ok] \in Entry
      BY <2>2, NullFacts, ParsesType DEF Entry
    <2>4. file' \in [Jobs -> Entry]
      BY <2>1, <2>3, SaveType DEF TypeOK
    <2> QED BY <1>4, <2>4, NullFacts DEF UpdateSave, TypeOK
  <1> QED BY <1>1, <1>2, <1>3, <1>4 DEF Edit

TableTypes ==
  /\ entries \in [Jobs -> CronID \cup {NoID}]
  /\ cron \in [CronID -> [job: Jobs \cup {NoJob}, content: Prompt]]

\* addJob and removeJob keep the types of the map and of the cron table.
LEMMA TableTypesStep ==
  ASSUME TableTypes, NEW j \in Jobs, NEW entry \in Entry, addJob(j, entry) \/ removeJob(j)
  PROVE  TableTypes'
  <1>1. CASE entries' = entries /\ cron' = cron
    BY <1>1 DEF TableTypes
  <1>2. ASSUME NEW i \in CronID, entries' = [entries EXCEPT ![j] = i],
               cron' = [cron EXCEPT ![i] = [job |-> j, content |-> entry.content]]
        PROVE  TableTypes'
    BY <1>2 DEF TableTypes, Entry
  <1>3. ASSUME cron' = [cron EXCEPT ![entries[j]] = NoCron],
               entries' = [entries EXCEPT ![j] = NoID]
        PROVE  TableTypes'
    BY <1>3, NullFacts DEF TableTypes
  <1> QED BY <1>1, <1>2, <1>3 DEF addJob, removeJob

\* The watch goroutine and Stop keep the types.
LEMMA WatchTypes == ASSUME TypeOK, WatchStep \/ WatchEnd \/ Stop PROVE TypeOK'
  <1>1. CASE WatchTick \/ WatchEnd \/ Stop
    BY <1>1 DEF WatchTick, WatchEnd, Stop, TypeOK
  <1>2. CASE WatchList
    <2>1. ASSUME NEW j \in Jobs PROVE [file[j] EXCEPT !.runs = 0] \in Entry
      <3>1. file[j] \in Entry
        BY DEF TypeOK
      <3> QED BY <3>1 DEF Entry
    <2> QED BY <1>2, <2>1, ConstantsAssumption DEF WatchList, TypeOK
  <1>3. CASE WatchApply
    <2> DEFINE j == watch.next
    <2>1. j \in Jobs /\ watch.list[j] \in Entry
      BY <1>3 DEF WatchApply, TypeOK
    <2>2. TableTypes'
      BY <1>3, <2>1, TableTypesStep DEF WatchApply, TableTypes, TypeOK
    <2>3. watch.next + 1 \in 1 .. NumJobs + 1
      BY <2>1, ConstantsAssumption DEF Jobs
    <2> QED BY <1>3, <2>2, <2>3 DEF WatchApply, TableTypes, TypeOK
  <1>4. CASE WatchSweep
    BY <1>4, NullFacts DEF WatchSweep, Boot, TypeOK
  <1> QED BY <1>1, <1>2, <1>3, <1>4 DEF WatchStep

RunRec == [pc: {"idle", "start", "lock", "ask", "record"},
           job: Jobs \cup {NoJob}, content: Prompt, ok: BOOLEAN,
           orig: Jobs \cup {Home}]

\* Firing and running keep the types.
LEMMA RunTypes ==
  ASSUME TypeOK, NEW r \in Runs, RunStep(r) \/ \E i \in CronID : Fire(r, i)
  PROVE  TypeOK'
  <1>0. run \in [Runs -> RunRec] /\ run[r] \in RunRec
    BY DEF TypeOK, RunRec
  <1>1. ASSUME NEW i \in CronID, Fire(r, i) PROVE TypeOK'
    <2>1. fires \in 0 .. MaxFires /\ fires < MaxFires
      BY <1>1 DEF Fire, TypeOK
    <2>2. fires + 1 \in 0 .. MaxFires
      BY <2>1, ConstantsAssumption
    <2>3. run' \in [Runs -> RunRec]
      <3>1. cron[i].job \in Jobs \cup {NoJob} /\ cron[i].content \in Prompt
        BY DEF TypeOK
      <3>2. [IdleRun EXCEPT !.pc = "start", !.job = cron[i].job,
                            !.content = cron[i].content] \in RunRec
        BY <3>1 DEF IdleRun, RunRec
      <3> QED BY <1>1, <3>2 DEF Fire, TypeOK, RunRec
    <2> QED BY <1>1, <2>2, <2>3 DEF Fire, RunRec, TypeOK
  <1>2. CASE RunStart(r)
    BY <1>2 DEF RunStart, TypeOK
  <1>3. CASE RunChdir(r)
    <2>1. run' \in [Runs -> RunRec]
      <3>1. [run[r] EXCEPT !.pc = "ask", !.orig = cwd] \in RunRec
        BY <1>0 DEF RunRec, TypeOK
      <3>2. run' = [run EXCEPT ![r] = [run[r] EXCEPT !.pc = "ask", !.orig = cwd]]
        BY <1>3 DEF RunChdir
      <3> QED BY <1>0, <3>1, <3>2
    <2>2. cwd' \in Jobs \cup {Home}
      BY <1>3 DEF RunChdir, TypeOK, Home, NoJob
    <2> QED BY <1>3, <2>1, <2>2 DEF RunChdir, TypeOK, RunRec
  <1>4. CASE RunNoDir(r)
    <2>1. run' \in [Runs -> RunRec]
      <3>1. [run[r] EXCEPT !.pc = "ask"] \in RunRec
        BY <1>0 DEF RunRec
      <3>2. run' = [run EXCEPT ![r] = [run[r] EXCEPT !.pc = "ask"]]
        BY <1>4 DEF RunNoDir
      <3> QED BY <1>0, <3>1, <3>2
    <2> QED BY <1>4, <2>1 DEF RunNoDir, TypeOK, RunRec
  <1>5. CASE RunAsk(r)
    <2>1. run' \in [Runs -> RunRec]
      <3>1. PICK ok \in BOOLEAN : run' = [run EXCEPT ![r].pc = "record", ![r].ok = ok]
        BY <1>5 DEF RunAsk
      <3>2. [run[r] EXCEPT !.pc = "record", !.ok = ok] \in RunRec
        BY <1>0 DEF RunRec
      <3>3. run' = [run EXCEPT ![r] = [run[r] EXCEPT !.pc = "record", !.ok = ok]]
        BY <3>1
      <3> QED BY <1>0, <3>2, <3>3
    <2>2. cwd' \in Jobs \cup {Home}
      BY <1>5 DEF RunAsk, TypeOK
    <2> QED BY <1>5, <2>1, <2>2 DEF RunAsk, TypeOK, RunRec
  <1>6. CASE RunRecord(r)
    <2> DEFINE j == run[r].job
               entry == [file[j] EXCEPT !.content = IF file[j].form = "legacy" THEN Lost ELSE @,
                                        !.runs = @ + 1]
    <2>1. ASSUME j \in Jobs PROVE entry \in Entry
      <3>1. file[j] \in Entry
        BY <2>1 DEF TypeOK
      <3>2. Lost \in Prompt
        BY NullFacts
      <3>3. /\ file[j].form \in {"none", "legacy", "current"}
            /\ file[j].enabled \in BOOLEAN
            /\ file[j].content \in Prompt
            /\ file[j].runs + 1 \in Nat
        BY <3>1 DEF Entry
      <3> DEFINE c == IF file[j].form = "legacy" THEN Lost ELSE file[j].content
      <3>4. entry = [file[j] EXCEPT !.content = c, !.runs = file[j].runs + 1]
        OBVIOUS
      <3>5. c \in Prompt
        BY <3>2, <3>3
      <3> HIDE DEF c, entry
      <3> QED BY <3>1, <3>3, <3>4, <3>5 DEF Entry
    <2>2. file' \in [Jobs -> Entry]
      BY <1>6, <2>1, SaveType DEF RunRecord, UpdateLastRun, TypeOK
    <2> QED BY <1>6, <2>2, NullFacts DEF RunRecord, TypeOK
  <1> QED BY <1>1, <1>2, <1>3, <1>4, <1>5, <1>6 DEF RunStep

\* A restart keeps the types.
LEMMA RestartTypes == ASSUME TypeOK, Restart PROVE TypeOK'
  <1>1. restarts + 1 \in 0 .. MaxRestarts
    BY ConstantsAssumption DEF Restart, TypeOK
  <1> QED BY <1>1, NullFacts DEF Restart, TypeOK

\* addJob and removeJob keep the map and the cron table in agreement.
LEMMA TableStep ==
  ASSUME TypeOK, OneCronPerEntry, NEW j \in Jobs, NEW entry \in Entry,
         addJob(j, entry) \/ removeJob(j)
  PROVE  OneCronPerEntry'
  <1>1. CASE entries' = entries /\ cron' = cron
    BY <1>1 DEF OneCronPerEntry
  <1>2. ASSUME entries[j] = NoID, NEW i \in CronID, cron[i] = NoCron,
               cron' = [cron EXCEPT ![i] = [job |-> j, content |-> entry.content]],
               entries' = [entries EXCEPT ![j] = i]
        PROVE  OneCronPerEntry'
    BY <1>2, NullFacts DEF OneCronPerEntry, TypeOK, NoCron
  <1>3. ASSUME entries[j] # NoID, cron' = [cron EXCEPT ![entries[j]] = NoCron],
               entries' = [entries EXCEPT ![j] = NoID]
        PROVE  OneCronPerEntry'
    BY <1>3, NullFacts DEF OneCronPerEntry, TypeOK
  <1> QED BY <1>1, <1>2, <1>3 DEF addJob, removeJob

\* Every step keeps the map and the cron table in agreement.
LEMMA NextTable == ASSUME TypeOK, OneCronPerEntry, Next PROVE OneCronPerEntry'
  <1>1. CASE UNCHANGED <<entries, cron>>
    BY <1>1 DEF OneCronPerEntry
  <1>2. CASE WatchApply
    <2>1. watch.next \in Jobs /\ watch.list[watch.next] \in Entry
      BY <1>2 DEF WatchApply, TypeOK
    <2> QED BY <1>1, <1>2, <2>1, TableStep DEF WatchApply
  <1>3. CASE Restart
    BY <1>3 DEF Restart, OneCronPerEntry
  <1>4. CASE Edit \/ WatchTick \/ WatchList \/ WatchSweep \/ WatchEnd \/ Stop
    BY <1>1, <1>4 DEF Edit, Create, Delete, UpdateLoad, UpdateSave, WatchTick,
                      WatchList, WatchSweep, WatchEnd, Stop
  <1>5. ASSUME NEW r \in Runs, RunStep(r) \/ \E i \in CronID : Fire(r, i)
        PROVE  UNCHANGED <<entries, cron>>
    BY <1>5 DEF RunStep, RunStart, RunChdir, RunNoDir, RunAsk, RunRecord, Fire
  <1> QED BY <1>1, <1>2, <1>3, <1>4, <1>5 DEF Next, WatchStep

\* Every step of a run keeps the working directory with the lock.
LEMMA RunCwd ==
  ASSUME TypeOK, CwdDiscipline, NEW r \in Runs, RunStep(r) \/ \E i \in CronID : Fire(r, i)
  PROVE  CwdDiscipline'
  <1>1. CASE (\E i \in CronID : Fire(r, i)) \/ RunStart(r) \/ RunRecord(r)
    <2>1. /\ UNCHANGED <<execMu, cwd>>
          /\ ~At(r, "ask")
          /\ \A s \in Runs \ {r} : run'[s] = run[s]
      BY <1>1 DEF Fire, RunStart, RunRecord, At, TypeOK
    <2> QED BY <2>1 DEF CwdDiscipline, At, TypeOK
  <1>2. CASE RunChdir(r)
    BY <1>2 DEF RunChdir, CwdDiscipline, At, TypeOK
  <1>3. CASE RunNoDir(r)
    BY <1>3 DEF RunNoDir, CwdDiscipline
  <1>4. CASE RunAsk(r)
    BY <1>4 DEF RunAsk, CwdDiscipline, At, TypeOK
  <1> QED BY <1>1, <1>2, <1>3, <1>4 DEF RunStep

\* Every step keeps the working directory with the lock.
LEMMA NextCwd == ASSUME TypeOK, CwdDiscipline, Next PROVE CwdDiscipline'
  <1>1. CASE UNCHANGED <<run, execMu, cwd>>
    BY <1>1 DEF CwdDiscipline, At
  <1>2. CASE Restart
    BY <1>2 DEF Restart, CwdDiscipline
  <1>3. CASE Edit \/ WatchStep \/ WatchEnd \/ Stop
    BY <1>1, <1>3 DEF Edit, Create, Delete, UpdateLoad, UpdateSave, WatchStep, WatchTick,
                      WatchList, WatchApply, WatchSweep, WatchEnd, Stop
  <1> QED BY <1>2, <1>3, RunCwd DEF Next

\* The invariant is inductive.
LEMMA NextIInv == ASSUME IInv, [Next]_vars PROVE IInv'
  <1>1. CASE UNCHANGED vars
    BY <1>1 DEF IInv, vars, TypeOK, OneCronPerEntry, CwdDiscipline, At
  <1>2. CASE Next
    <2>1. TypeOK'
      BY <1>2, EditTypes, WatchTypes, RunTypes, RestartTypes DEF Next, IInv
    <2> QED BY <1>2, <2>1, NextTable, NextCwd DEF IInv
  <1> QED BY <1>1, <1>2

\* Every reachable state of the scheduler satisfies the invariant.
THEOREM Inductive == Spec => []IInv
  BY InitIInv, NextIInv, PTL DEF Spec

\* The types hold: in particular a run only ever saves, and gives back, a
\* directory the process can be in (daemon.go:1380, :1390).
THEOREM TypeCorrect == Spec => []TypeOK
  BY Inductive, PTL DEF IInv

\* The map and the cron library's table agree (scheduler.go:127, :152).
THEOREM OneCron == Spec => []OneCronPerEntry
  BY Inductive, PTL DEF IInv

\* The working directory is the daemon's own, or that of the one run that
\* holds execMu (daemon.go:1378-1397).
THEOREM Cwd == Spec => []CwdDiscipline
  BY Inductive, PTL DEF IInv

-----------------------------------------------------------------------------
(* The scheduler implements JobTable *)

Rows(j) == {i \in CronID : cron[i].job = j}

\* A job has the row its id names, or none.
LEMMA JobRows ==
  ASSUME TypeOK, OneCronPerEntry, NEW j \in Jobs
  PROVE  /\ entries[j] = NoID => Rows(j) = {}
         /\ entries[j] # NoID => Rows(j) = {entries[j]}
  BY NullFacts DEF TypeOK, OneCronPerEntry, Rows, NoCron

\* addJob schedules a job that has no row, or changes nothing.
LEMMA AddRefines ==
  ASSUME TypeOK, OneCronPerEntry, NEW j \in Jobs, NEW entry \in Entry, addJob(j, entry)
  PROVE  \/ scheduled[j] = {} /\ scheduled' = [scheduled EXCEPT ![j] = {entry.content}]
         \/ scheduled' = scheduled
  <1> DEFINE c == entry.content
  <1>1. CASE UNCHANGED <<entries, cron>>
    BY <1>1 DEF scheduled
  <1>2. ASSUME entries[j] = NoID, NEW i \in CronID, cron[i] = NoCron,
               cron' = [cron EXCEPT ![i] = [job |-> j, content |-> c]]
        PROVE  scheduled[j] = {} /\ scheduled' = [scheduled EXCEPT ![j] = {c}]
    <2>1. Rows(j) = {}
      BY <1>2, JobRows
    <2>2. Rows(j)' = {i} /\ cron'[i].content = c
      BY <1>2, <2>1 DEF Rows, TypeOK
    <2>3. ASSUME NEW k \in Jobs, k # j
          PROVE  Rows(k)' = Rows(k) /\ \A h \in Rows(k) : cron'[h].content = cron[h].content
      BY <1>2, <2>3, NullFacts DEF Rows, TypeOK, NoCron
    <2>4. scheduled[j] = {} /\ scheduled'[j] = {c}
      BY <2>1, <2>2 DEF scheduled, Rows
    <2>5. \A k \in Jobs : k # j => scheduled'[k] = scheduled[k]
      BY <2>3 DEF scheduled, Rows
    <2> QED BY <2>4, <2>5 DEF scheduled
  <1> QED BY <1>1, <1>2 DEF addJob

\* removeJob leaves the job without a row.
LEMMA RemoveRefines ==
  ASSUME TypeOK, OneCronPerEntry, NEW j \in Jobs, removeJob(j)
  PROVE  scheduled' = [scheduled EXCEPT ![j] = {}]
  <1>1. CASE entries[j] = NoID /\ UNCHANGED <<entries, cron>>
    <2>1. Rows(j) = {}
      BY <1>1, JobRows
    <2> QED BY <1>1, <2>1 DEF scheduled, Rows
  <1>2. CASE entries[j] # NoID /\ cron' = [cron EXCEPT ![entries[j]] = NoCron]
    <2>1. Rows(j) = {entries[j]}
      BY <1>2, JobRows
    <2>2. Rows(j)' = {}
      BY <1>2, <2>1, NullFacts DEF Rows, TypeOK, NoCron
    <2>3. ASSUME NEW k \in Jobs, k # j
          PROVE  Rows(k)' = Rows(k) /\ \A h \in Rows(k) : cron'[h].content = cron[h].content
      <3>1. entries[j] \notin Rows(k)
        BY <2>1, <2>3 DEF Rows
      <3> QED BY <1>2, <2>3, <3>1, NullFacts DEF Rows, TypeOK, NoCron
    <2>4. scheduled'[j] = {}
      BY <2>2 DEF scheduled, Rows
    <2>5. \A k \in Jobs : k # j => scheduled'[k] = scheduled[k]
      BY <2>3 DEF scheduled, Rows
    <2> QED BY <2>4, <2>5 DEF scheduled
  <1> QED BY <1>1, <1>2 DEF removeJob

\* Applying the list is a step of the table.
LEMMA ApplyRefines == ASSUME TypeOK, OneCronPerEntry, WatchApply PROVE [Table!Next]_Table!vars
  <1> DEFINE j == watch.next
             entry == watch.list[j]
  <1>1. j \in Jobs /\ entry \in Entry /\ entry.content \in Prompt
    BY DEF WatchApply, TypeOK, Entry
  <1>2. UNCHANGED <<doing, execMu, cwd>>
    BY DEF WatchApply, doing, At
  <1>3. CASE UNCHANGED <<entries, cron>>
    BY <1>2, <1>3 DEF Table!vars, scheduled
  <1>4. CASE removeJob(j)
    <2>1. Table!Unschedule(j)
      BY <1>1, <1>2, <1>4, RemoveRefines DEF Table!Unschedule
    <2> QED BY <1>1, <2>1 DEF Table!Next
  <1>5. CASE addJob(j, entry)
    <2>1. CASE scheduled' = scheduled
      BY <1>2, <2>1 DEF Table!vars
    <2>2. CASE scheduled[j] = {} /\ scheduled' = [scheduled EXCEPT ![j] = {entry.content}]
      <3>1. Table!Schedule(j)
        BY <1>1, <1>2, <2>2 DEF Table!Schedule
      <3> QED BY <1>1, <3>1 DEF Table!Next
    <2> QED BY <1>1, <1>5, <2>1, <2>2, AddRefines
  <1> QED BY <1>3, <1>4, <1>5 DEF WatchApply

\* What a run is at, once it has been given its job.
Work(r) == [job |-> run[r].job, prompt |-> run[r].content]

\* A run that keeps its job, and does not end, is at the same work.
LEMMA SameWork ==
  ASSUME NEW r \in Runs, ~At(r, "idle"), ~At(r, "idle")', Work(r)' = Work(r),
         \A s \in Runs \ {r} : run'[s] = run[s]
  PROVE  doing' = doing
  BY DEF doing, Work, At

\* A firing and the steps of a run are steps of the table.
LEMMA RunRefines ==
  ASSUME TypeOK, OneCronPerEntry, CwdDiscipline,
         NEW r \in Runs, RunStep(r) \/ \E i \in CronID : Fire(r, i)
  PROVE  [Table!Next]_Table!vars
  <1>0. scheduled' = scheduled
    <2>1. cron' = cron
      BY DEF RunStep, RunStart, RunChdir, RunNoDir, RunAsk, RunRecord, Fire
    <2> QED BY <2>1 DEF scheduled
  <1>1. ASSUME NEW i \in CronID, Fire(r, i) PROVE [Table!Next]_Table!vars
    <2> DEFINE j == cron[i].job
               c == cron[i].content
    <2>1. j \in Jobs /\ c \in scheduled[j]
      BY <1>1 DEF Fire, OneCronPerEntry, scheduled
    <2>2. doing[r] = {} /\ doing' = [doing EXCEPT ![r] = {[job |-> j, prompt |-> c]}]
      BY <1>1 DEF Fire, doing, At, IdleRun, TypeOK
    <2>3. Table!Start(r, j)
      BY <1>0, <1>1, <2>1, <2>2 DEF Table!Start, Fire
    <2> QED BY <2>1, <2>3 DEF Table!Next
  <1>2. CASE RunStart(r) \/ RunNoDir(r)
    <2>1. ~At(r, "idle") /\ ~At(r, "idle")' /\ Work(r)' = Work(r) /\ \A s \in Runs \ {r} : run'[s] = run[s]
      BY <1>2 DEF RunStart, RunNoDir, At, Work, TypeOK
    <2> QED BY <1>0, <1>2, <2>1, SameWork DEF RunStart, RunNoDir, Table!vars
  <1>3. CASE RunChdir(r)
    <2>1. ~At(r, "idle") /\ ~At(r, "idle")' /\ Work(r)' = Work(r) /\ \A s \in Runs \ {r} : run'[s] = run[s]
      BY <1>3 DEF RunChdir, At, Work, TypeOK
    <2>2. doing[r] = {Work(r)} /\ Work(r).job = run[r].job
      BY <2>1 DEF doing, Work
    <2>3. Table!Enter(r)
      BY <1>0, <1>3, <2>1, <2>2, SameWork DEF RunChdir, Table!Enter
    <2> QED BY <2>3 DEF Table!Next
  <1>4. CASE RunAsk(r)
    <2>1. ~At(r, "idle") /\ ~At(r, "idle")' /\ Work(r)' = Work(r) /\ \A s \in Runs \ {r} : run'[s] = run[s]
      BY <1>4 DEF RunAsk, At, Work, TypeOK
    <2>2. CASE r \in execMu
      <3>1. execMu = {r} /\ execMu' = {} /\ cwd' = Home
        BY <1>4, <2>2 DEF RunAsk, CwdDiscipline
      <3>2. Table!Leave(r)
        BY <1>0, <2>1, <3>1, SameWork DEF Table!Leave
      <3> QED BY <3>2 DEF Table!Next
    <2>3. CASE r \notin execMu
      <3>1. UNCHANGED <<execMu, cwd>>
        BY <1>4, <2>3 DEF RunAsk
      <3> QED BY <1>0, <2>1, <3>1, SameWork DEF Table!vars
    <2> QED BY <2>2, <2>3
  <1>5. CASE RunRecord(r)
    <2>1. r \notin execMu
      BY <1>5 DEF RunRecord, CwdDiscipline, At
    <2>2. doing' = [doing EXCEPT ![r] = {}]
      BY <1>5 DEF RunRecord, doing, At, IdleRun, TypeOK
    <2>3. Table!Finish(r)
      BY <1>0, <1>5, <2>1, <2>2 DEF Table!Finish, RunRecord
    <2> QED BY <2>3 DEF Table!Next
  <1> QED BY <1>1, <1>2, <1>3, <1>4, <1>5 DEF RunStep

\* An empty cron table and idle runs: nothing is scheduled, nothing goes on.
LEMMA InitTable == Init => Table!Init
  <1> SUFFICES ASSUME Init PROVE Table!Init OBVIOUS
  <1>1. \A j \in Jobs : Rows(j) = {}
    BY NullFacts DEF Init, Rows, NoCron
  <1>2. \A r \in Runs : At(r, "idle")
    BY DEF Init, At, IdleRun
  <1> QED BY <1>1, <1>2 DEF Init, scheduled, doing, Rows, Table!Init

\* Every step is one of the table or a stutter.
LEMMA NextJobTable == ASSUME IInv, [Next]_vars PROVE [Table!Next]_Table!vars
  <1> USE DEF IInv
  <1>1. CASE UNCHANGED <<cron, run, execMu, cwd>>
    BY <1>1 DEF Table!vars, scheduled, doing, At
  <1>2. CASE Edit \/ WatchTick \/ WatchList \/ WatchSweep \/ WatchEnd \/ Stop
    BY <1>1, <1>2 DEF Edit, Create, Delete, UpdateLoad, UpdateSave, WatchTick,
                      WatchList, WatchSweep, WatchEnd, Stop
  <1>3. CASE WatchApply
    BY <1>3, ApplyRefines
  <1>4. ASSUME NEW r \in Runs, RunStep(r) \/ \E i \in CronID : Fire(r, i)
        PROVE  [Table!Next]_Table!vars
    BY <1>4, RunRefines
  <1>5. CASE Restart
    <2>1. Table!Reboot
      <3>1. \A j \in Jobs : Rows(j)' = {}
        BY <1>5, NullFacts DEF Restart, Rows, NoCron
      <3>2. \A r \in Runs : At(r, "idle")'
        BY <1>5 DEF Restart, At, IdleRun
      <3> QED BY <1>5, <3>1, <3>2 DEF Restart, scheduled, doing, Rows, Table!Reboot
    <2> QED BY <2>1 DEF Table!Next
  <1>6. CASE UNCHANGED vars
    BY <1>1, <1>6 DEF vars
  <1> QED BY <1>2, <1>3, <1>4, <1>5, <1>6 DEF Next, WatchStep

\* The scheduler implements JobTable: one row per job, whose prompt stays as it was
\* scheduled; runs of what their row held; one directory, lent to one run at a
\* time (scheduler.go:127, :136, daemon.go:1378).
THEOREM Refines == Spec => ImplementsTable
  <1>1. Init => Table!Init
    BY InitTable
  <1>2. IInv /\ [Next]_vars => [Table!Next]_Table!vars
    BY NextJobTable
  <1> QED BY <1>1, <1>2, Inductive, PTL DEF Spec, ImplementsTable, Table!Spec

=============================================================================
