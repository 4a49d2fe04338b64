----------------------------- MODULE WorkQueue ------------------------------
(***************************************************************************)
(* What the project file indexer promises to those who give it files: a    *)
(* queue whose entries one worker takes one at a time.  Clients may change *)
(* any entry at any time, the one being worked on included; only the       *)
(* worker reports outcomes, and for each entry it takes it reports one,    *)
(* which it can take back, as a failure, only before it lets the entry go. *)
(***************************************************************************)
CONSTANT Paths

VARIABLES
  status,    \* what the manifest says of each path
  active,    \* the path being worked on, if any
  told       \* has its outcome been reported?

vars == <<status, active, told>>

Init ==
  /\ status = [p \in Paths |-> "absent"]
  /\ active = {}
  /\ told = FALSE

\* Clients add, enqueue and withdraw.
Add(p) ==
  /\ status' = [status EXCEPT ![p] = "pending"]
  /\ UNCHANGED <<active, told>>

Enqueue(S) ==
  /\ \A p \in S : status[p] = "pending"
  /\ status' = [p \in Paths |-> IF p \in S THEN "enqueued" ELSE status[p]]
  /\ UNCHANGED <<active, told>>

Withdraw(S) ==
  /\ status' = [p \in Paths |-> IF p \in S THEN "absent" ELSE status[p]]
  /\ UNCHANGED <<active, told>>

\* The worker takes an entry, and says so, only when it has none.
Claim(p) ==
  /\ active = {}
  /\ active' = {p}
  /\ status' = [status EXCEPT ![p] = "processing"]
  /\ UNCHANGED told

Report(p) ==
  /\ active = {p} /\ ~told
  /\ told' = TRUE
  /\ \E outcome \in {"indexed", "failed"} : status' = [status EXCEPT ![p] = outcome]
  /\ UNCHANGED active

\* It is done with an entry it has reported, or that was withdrawn.
LetGo(p) ==
  /\ active = {p} /\ (told \/ status[p] = "absent")
  /\ active' = {} /\ told' = FALSE
  /\ UNCHANGED status

\* It cannot go on: a failure, whether or not it has reported.
GiveUp(p) ==
  /\ active = {p}
  /\ active' = {} /\ told' = FALSE
  /\ status' = [status EXCEPT ![p] = "failed"]

\* The process dies and starts again.
Reopen ==
  /\ active' = {} /\ told' = FALSE
  /\ status' = [p \in Paths |-> IF status[p] = "processing" THEN "failed" ELSE status[p]]

Next ==
  \/ \E p \in Paths : Add(p) \/ Claim(p) \/ Report(p) \/ LetGo(p) \/ GiveUp(p)
  \/ \E S \in SUBSET Paths : Enqueue(S) \/ Withdraw(S)
  \/ Reopen

Spec == Init /\ [][Next]_vars
=============================================================================
