----------------------------- MODULE MessageLog -----------------------------
(***************************************************************************)
(* What the session store promises to its callers (the SessionDB interface *)
(* as pkg/session/file_store.go offers it): a set of messages per session, *)
(* on which every call that changes it takes effect in one step, at some   *)
(* moment after it was made, on what the session holds at that moment.     *)
(* What has taken effect is written down before another call takes effect. *)
(* A crash, or a failure to write, takes, besides the calls in flight,     *)
(* messages of the session that is being written and of no other.          *)
(***************************************************************************)
CONSTANTS Sessions, Message, Callers

VARIABLES
  log,      \* the messages of each session
  asked,    \* each caller's call that has not taken effect: no or one request
  writing   \* the session that is being written down: none or one

vars == <<log, asked, writing>>

\* Remove some messages of a session and add some.
Request == [s: Sessions, gone: SUBSET Message, add: SUBSET Message]

Init ==
  /\ log = [s \in Sessions |-> {}]
  /\ asked = [c \in Callers |-> {}]
  /\ writing = {}

Ask(c) ==
  /\ asked[c] = {}
  /\ \E r \in Request : asked' = [asked EXCEPT ![c] = {r}]
  /\ UNCHANGED <<log, writing>>

Apply(c) ==
  /\ writing = {}
  /\ \E r \in asked[c] : /\ log' = [log EXCEPT ![r.s] = (@ \ r.gone) \cup r.add]
                         /\ writing' = {r.s}
  /\ asked' = [asked EXCEPT ![c] = {}]

Written ==
  /\ writing # {}
  /\ writing' = {}
  /\ UNCHANGED <<log, asked>>

\* A session is deleted or cleared while no call is pending and none is written.
Drop(s) ==
  /\ writing = {}
  /\ \A c \in Callers : asked[c] = {}
  /\ log' = [log EXCEPT ![s] = {}]
  /\ UNCHANGED <<asked, writing>>

\* A call fails before it takes effect.
Refuse(c) ==
  /\ asked[c] # {}
  /\ asked' = [asked EXCEPT ![c] = {}]
  /\ UNCHANGED <<log, writing>>

Spoil == \E s \in writing : \E left \in SUBSET log[s] : log' = [log EXCEPT ![s] = left]

\* Writing fails part of the way.
Fail ==
  /\ Spoil
  /\ writing' = {}
  /\ UNCHANGED asked

Crash ==
  /\ Spoil \/ UNCHANGED log
  /\ asked' = [c \in Callers |-> {}]
  /\ writing' = {}

Next ==
  \/ \E c \in Callers : Ask(c) \/ Apply(c) \/ Refuse(c)
  \/ Written
  \/ Fail
  \/ \E s \in Sessions : Drop(s)
  \/ Crash

Spec == Init /\ [][Next]_vars
=============================================================================
