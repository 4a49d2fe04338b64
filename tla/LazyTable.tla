----------------------------- MODULE LazyTable -----------------------------
(***************************************************************************)
(* What the registry of project indexers does for those who ask it for one *)
(* (getIndexer) and for the one who goes through all of them (kb.reset): a *)
(* table whose entry for a key is made once, by a request that does not    *)
(* find it and does not fail.  Failures are remembered, and never          *)
(* forgotten: once a request for a key has failed, every request that      *)
(* finds its entry is refused; only the request that makes it gets it.  A  *)
(* walk sees the table as it was when the walk began, and each of its      *)
(* entries.  A new process starts with an empty table.                     *)
(***************************************************************************)
CONSTANTS Keys, Clients

VARIABLES
  made,    \* the keys that have an entry
  failed,  \* the keys for which making an entry has ever failed
  asked,   \* each client's request that has no answer yet: none or one key
  answer,  \* each client's answer, until it has it: none, an "entry" or an "error"
  seen     \* each client's walk: none, or the set of keys it has been at

vars == <<made, failed, asked, answer, seen>>

Init ==
  /\ made = {} /\ failed = {}
  /\ asked = [c \in Clients |-> {}]
  /\ answer = [c \in Clients |-> {}]
  /\ seen = [c \in Clients |-> {}]

\* A client does one thing at a time.
Free(c) == asked[c] = {} /\ answer[c] = {} /\ seen[c] = {}

Answered(c, a) ==
  /\ asked' = [asked EXCEPT ![c] = {}]
  /\ answer' = [answer EXCEPT ![c] = {a}]
  /\ UNCHANGED seen

Ask(c, k) ==
  /\ Free(c)
  /\ asked' = [asked EXCEPT ![c] = {k}]
  /\ UNCHANGED <<made, failed, answer, seen>>

Find(c, k) ==
  /\ asked[c] = {k} /\ k \in made \ failed
  /\ Answered(c, "entry")
  /\ UNCHANGED <<made, failed>>

\* There is an entry, and the client is refused for what failed before.
Recall(c, k) ==
  /\ asked[c] = {k} /\ k \in made \cap failed
  /\ Answered(c, "error")
  /\ UNCHANGED <<made, failed>>

Fail(c, k) ==
  /\ asked[c] = {k} /\ k \notin made
  /\ failed' = failed \cup {k}
  /\ Answered(c, "error")
  /\ UNCHANGED made

\* Whether or not it has failed before.
Make(c, k) ==
  /\ asked[c] = {k} /\ k \notin made
  /\ \A d \in Clients : seen[d] = {}
  /\ made' = made \cup {k}
  /\ Answered(c, "entry")
  /\ UNCHANGED failed

Return(c) ==
  /\ answer' = [answer EXCEPT ![c] = {}]
  /\ UNCHANGED <<made, failed, asked, seen>>

Walk(c) ==
  /\ Free(c)
  /\ seen' = [seen EXCEPT ![c] = {{}}]
  /\ UNCHANGED <<made, failed, asked, answer>>

Visit(c, k) ==
  /\ \E s \in seen[c] : k \in made \ s /\ seen' = [seen EXCEPT ![c] = {s \cup {k}}]
  /\ UNCHANGED <<made, failed, asked, answer>>

EndWalk(c) ==
  /\ seen[c] = {made}
  /\ seen' = [seen EXCEPT ![c] = {}]
  /\ UNCHANGED <<made, failed, asked, answer>>

Restart ==
  /\ made' = {} /\ failed' = {}
  /\ asked' = [c \in Clients |-> {}]
  /\ answer' = [c \in Clients |-> {}]
  /\ seen' = [c \in Clients |-> {}]

\* What a client does that the table has no part in.
Unseen == UNCHANGED vars

Next ==
  \/ Unseen
  \/ \E c \in Clients : Return(c) \/ Walk(c) \/ EndWalk(c)
  \/ \E c \in Clients, k \in Keys :
       Ask(c, k) \/ Find(c, k) \/ Recall(c, k) \/ Fail(c, k) \/ Make(c, k) \/ Visit(c, k)
  \/ Restart

Spec == Init /\ [][Next]_vars
=============================================================================
