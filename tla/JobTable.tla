------------------------------ MODULE JobTable ------------------------------
(***************************************************************************)
(* What the scheduler promises to those who wrote the jobs: a table with   *)
(* at most one prompt per job, which stays as it was scheduled until the   *)
(* job is taken out; runs of what the table held when they started; and    *)
(* one working directory, lent to one run at a time for the length of its  *)
(* prompt.                                                                 *)
(***************************************************************************)
CONSTANTS Jobs, Prompts, Runs, Home

VARIABLES
  scheduled,   \* the prompts each job is scheduled with: none or one
  doing,       \* what each run is at: nothing, or a job with a prompt
  lent,        \* the run that has the directory, if any
  place        \* the directory of the process

vars == <<scheduled, doing, lent, place>>

Init ==
  /\ scheduled = [j \in Jobs |-> {}]
  /\ doing = [r \in Runs |-> {}]
  /\ lent = {}
  /\ place = Home

Schedule(j) ==
  /\ scheduled[j] = {}
  /\ \E p \in Prompts : scheduled' = [scheduled EXCEPT ![j] = {p}]
  /\ UNCHANGED <<doing, lent, place>>

Unschedule(j) ==
  /\ scheduled' = [scheduled EXCEPT ![j] = {}]
  /\ UNCHANGED <<doing, lent, place>>

Start(r, j) ==
  /\ doing[r] = {}
  /\ \E p \in scheduled[j] : doing' = [doing EXCEPT ![r] = {[job |-> j, prompt |-> p]}]
  /\ UNCHANGED <<scheduled, lent, place>>

\* A run may borrow the directory; the others wait, or do without.
Enter(r) ==
  /\ lent = {}
  /\ lent' = {r}
  /\ \E work \in doing[r] : place' = work.job
  /\ UNCHANGED <<scheduled, doing>>

Leave(r) ==
  /\ lent = {r}
  /\ lent' = {}
  /\ place' = Home
  /\ UNCHANGED <<scheduled, doing>>

Finish(r) ==
  /\ r \notin lent
  /\ doing' = [doing EXCEPT ![r] = {}]
  /\ UNCHANGED <<scheduled, lent, place>>

\* The daemon dies; nothing goes on, and nothing is scheduled yet.
Reboot ==
  /\ scheduled' = [j \in Jobs |-> {}]
  /\ doing' = [r \in Runs |-> {}]
  /\ lent' = {}
  /\ place' = Home

\* Edits, lists and waiting do not show.  [Next]_vars allows for them anyway; TLC
\* is faster when it looks for them first.
Unseen == UNCHANGED vars

Next ==
  \/ Unseen
  \/ \E j \in Jobs : Schedule(j) \/ Unschedule(j)
  \/ \E r \in Runs, j \in Jobs : Start(r, j)
  \/ \E r \in Runs : Enter(r) \/ Leave(r) \/ Finish(r)
  \/ Reboot

Spec == Init /\ [][Next]_vars
=============================================================================
