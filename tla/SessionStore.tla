---------------------------- MODULE SessionStore ----------------------------
(***************************************************************************)
(* The file session store (pkg/session/file_store.go) and session.create.  *)
(* A session is a directory with session.yml (its messages) and meta.json  *)
(* (among others, the project directory it belongs to).  Both are written  *)
(* in place: os.WriteFile empties the file and then fills it.  Callers     *)
(* that write messages hold ioMu from the read to the last write; those    *)
(* that only touch meta.json (SetCursor, Create) do not take it.           *)
(***************************************************************************)
EXTENDS Naturals, FiniteSets

CONSTANTS
  Sessions,    \* session ids; bound: how many are ever given out
  NoSession,   \* a caller has no session yet
  Dirs,        \* project directories (of one agent)
  NoDir,       \* no project directory, or the daemon's own
  Callers,     \* goroutines that use the store
  NoCaller,    \* nobody holds ioMu
  MaxAppends,  \* bound: the messages ever appended
  MaxFaults    \* bound: how often the process dies or a write fails

ASSUME ConstantsAssumption ==
  /\ NoSession \notin Sessions
  /\ NoDir \notin Dirs
  /\ NoCaller \notin Callers
  /\ MaxAppends \in Nat
  /\ MaxFaults \in Nat

Message == 1 .. MaxAppends

\* A file does not exist, cannot be parsed, or has content.  Of session.yml only
\* which messages it holds matters; of meta.json only the project directory.
Form       == {"none", "torn", "ok"}
SessionYml == [form: Form, has: SUBSET Message]
MetaJson   == [form: Form, dir: Dirs \cup {NoDir}]
NoYml      == [form |-> "none", has |-> {}]
NoMeta     == [form |-> "none", dir |-> NoDir]

VARIABLES
  yml,      \* session.yml of each session
  meta,     \* meta.json of each session
  kept,     \* history: messages appended to a session and not removed since
  used,     \* session ids given out
  ioMu,     \* the caller that holds FileSessionStore.ioMu
  call,     \* each caller: its next step, its session, the messages it will write,
            \* those it means to remove and to add, the directory it will write,
            \* "more" when meta.json follows session.yml
  broken,   \* history: the sessions whose session.yml a crash or a failed write left torn
  appends, faults

vars == <<yml, meta, kept, used, ioMu, call, broken, appends, faults>>

Call == [pc: {"idle", "empty", "fill", "load", "create", "metaempty", "metafill"},
         s: Sessions \cup {NoSession}, more: BOOLEAN, new: SUBSET Message, gone: SUBSET Message,
         add: SUBSET Message, dir: Dirs \cup {NoDir}]

Types ==
  /\ yml \in [Sessions -> SessionYml]
  /\ meta \in [Sessions -> MetaJson]
  /\ kept \in [Sessions -> SUBSET Message]
  /\ used \subseteq Sessions
  /\ ioMu \in Callers \cup {NoCaller}
  /\ call \in [Callers -> Call]
  /\ broken \subseteq Sessions
  /\ appends \in 0 .. MaxAppends
  /\ faults \in 0 .. MaxFaults

\* Whoever will write what it has read of session.yml holds ioMu.
Rewriting(c) == call[c].pc \in {"empty", "fill"}
Holding == \A c \in Callers : Rewriting(c) => ioMu = c

TypeOK == Types /\ Holding

Idle == [pc |-> "idle", s |-> NoSession, more |-> FALSE, new |-> {}, gone |-> {},
         add |-> {}, dir |-> NoDir]

Init ==
  /\ yml = [s \in Sessions |-> NoYml]
  /\ meta = [s \in Sessions |-> NoMeta]
  /\ kept = [s \in Sessions |-> {}]
  /\ used = {}
  /\ ioMu = NoCaller
  /\ call = [c \in Callers |-> Idle]
  /\ broken = {}
  /\ appends = 0
  /\ faults = 0

At(c, pc) == call[c].pc = pc
Goto(c, pc) == call' = [call EXCEPT ![c].pc = pc]

\* The call returns; the deferred Unlock runs if it holds the lock.
Return(c) ==
  /\ call' = [call EXCEPT ![c] = Idle]
  /\ ioMu' = IF ioMu = c THEN NoCaller ELSE ioMu

-----------------------------------------------------------------------------
(* Calls that rewrite session.yml: lock, read, write; then maybe meta.json *)

\* What has been read is to be written back without "gone" and with "add".
Lock(c) == ioMu = NoCaller /\ ioMu' = c

Rewrite(c, s, gone, add, more) ==
  call' = [call EXCEPT ![c] = [pc |-> "empty", s |-> s, more |-> more,
                               new |-> (yml[s].has \ gone) \cup add,
                               gone |-> gone, add |-> add, dir |-> NoDir]]

Append_Unlocked(c, s) ==
  /\ At(c, "idle")
  /\ appends < MaxAppends
  /\ yml[s].form # "torn"
  /\ appends' = appends + 1
  /\ used' = used \cup {s}
  /\ Rewrite(c, s, {}, {appends + 1}, TRUE)
  /\ UNCHANGED <<yml, meta, kept, ioMu, broken, faults>>

\* Append creates what is missing, and fails on a file it cannot parse.
Append(c, s) ==
  /\ At(c, "idle")
  /\ appends < MaxAppends
  /\ yml[s].form # "torn"
  /\ Lock(c)
  /\ appends' = appends + 1
  /\ used' = used \cup {s}
  /\ Rewrite(c, s, {}, {appends + 1}, TRUE)
  /\ UNCHANGED <<yml, meta, kept, broken, faults>>

AppendFails_KeepsLock(c, s) ==
  /\ At(c, "idle")
  /\ appends < MaxAppends
  /\ yml[s].form = "torn"
  /\ Lock(c)
  /\ appends' = appends + 1
  /\ UNCHANGED <<yml, meta, kept, used, call, broken, faults>>

AppendFails(c, s) ==
  /\ At(c, "idle")
  /\ appends < MaxAppends
  /\ yml[s].form = "torn"
  /\ ioMu = NoCaller
  /\ appends' = appends + 1
  /\ UNCHANGED <<yml, meta, kept, used, ioMu, call, broken, faults>>

Delete_Unlocked(c, s, gone) ==
  /\ At(c, "idle")
  /\ yml[s].form = "ok"
  /\ Rewrite(c, s, gone, {}, FALSE)
  /\ UNCHANGED <<yml, meta, kept, used, ioMu, broken, appends, faults>>

\* Delete removes the messages with one timestamp, Truncate those after an
\* index; Truncate finds the session by its meta.json.
Delete(c, s, gone) ==
  /\ At(c, "idle")
  /\ yml[s].form = "ok"
  /\ Lock(c)
  /\ Rewrite(c, s, gone, {}, FALSE)
  /\ UNCHANGED <<yml, meta, kept, used, broken, appends, faults>>

Truncate_Unlocked(c, s, gone) == meta[s].form # "none" /\ gone # {} /\ Delete_Unlocked(c, s, gone)

Truncate(c, s, gone) == meta[s].form # "none" /\ gone # {} /\ Delete(c, s, gone)

\* UpdateMessages does not read the file, so a torn one is whole again after it.
UpdateMessages(c, s, new) ==
  /\ At(c, "idle")
  /\ meta[s].form # "none"
  /\ Lock(c)
  /\ Rewrite(c, s, Message, new, TRUE)
  /\ UNCHANGED <<yml, meta, kept, used, broken, appends, faults>>

EmptyYml_Released(c) ==
  /\ At(c, "empty")
  /\ yml' = [yml EXCEPT ![call[c].s] = [form |-> "torn", has |-> {}]]
  /\ Goto(c, "fill")
  /\ ioMu' = NoCaller
  /\ broken' = broken \ {call[c].s}
  /\ UNCHANGED <<meta, kept, used, appends, faults>>

\* os.WriteFile: O_TRUNC, then the bytes.
EmptyYml(c) ==
  /\ At(c, "empty")
  /\ yml' = [yml EXCEPT ![call[c].s] = [form |-> "torn", has |-> {}]]
  /\ Goto(c, "fill")
  /\ broken' = broken \ {call[c].s}
  /\ UNCHANGED <<meta, kept, used, ioMu, appends, faults>>

FillYml(c) ==
  /\ At(c, "fill")
  /\ yml' = [yml EXCEPT ![call[c].s] = [form |-> "ok", has |-> call[c].new]]
  /\ kept' = [kept EXCEPT ![call[c].s] = (@ \ call[c].gone) \cup call[c].add]
  /\ IF call[c].more THEN Goto(c, "load") /\ UNCHANGED ioMu ELSE Return(c)
  /\ UNCHANGED <<meta, used, broken, appends, faults>>

\* DeleteSession and Clear remove the directory.  A writer that does not hold
\* ioMu may be about to fill meta.json: its bytes go to the removed file.
Remove(s) ==
  /\ ioMu = NoCaller
  /\ meta[s].form # "none" \/ yml[s].form # "none"
  /\ yml' = [yml EXCEPT ![s] = NoYml]
  /\ meta' = [meta EXCEPT ![s] = NoMeta]
  /\ kept' = [kept EXCEPT ![s] = {}]
  /\ call' = [c \in Callers |-> IF At(c, "metafill") /\ call[c].s = s THEN Idle ELSE call[c]]
  /\ broken' = broken \ {s}
  /\ UNCHANGED <<used, ioMu, appends, faults>>

-----------------------------------------------------------------------------
(* meta.json: updateSessionMeta, UpdateMessages, SetCursor and Create *)

\* SetCursor finds the session and goes on without a lock.
SetCursor(c, s) ==
  /\ At(c, "idle")
  /\ meta[s].form # "none"
  /\ call' = [call EXCEPT ![c] = [Idle EXCEPT !.pc = "load", !.s = s]]
  /\ UNCHANGED <<yml, meta, kept, used, ioMu, broken, appends, faults>>

\* Load, with a blank record in place of one that cannot be read.
LoadMeta(c) ==
  /\ At(c, "load")
  /\ call' = [call EXCEPT ![c].pc = "metaempty",
       ![c].dir = IF meta[call[c].s].form = "ok" THEN meta[call[c].s].dir ELSE NoDir]
  /\ UNCHANGED <<yml, meta, kept, used, ioMu, broken, appends, faults>>

\* ListSessions gives a session whose meta.json it cannot read a default one.
Listed == [s \in Sessions |-> IF meta[s].form = "torn" THEN [form |-> "ok", dir |-> NoDir]
                              ELSE meta[s]]

ListSessions ==
  /\ ioMu = NoCaller
  /\ meta' = Listed
  /\ UNCHANGED <<yml, kept, used, ioMu, call, broken, appends, faults>>

\* session.create: go on when no listed session is in the directory, and then
\* Create, outside ioMu, under a new id.
CreateCheck(c, d) ==
  /\ At(c, "idle")
  /\ ioMu = NoCaller
  /\ meta' = Listed
  /\ IF \E s \in Sessions : meta[s] = [form |-> "ok", dir |-> d]
     THEN UNCHANGED call
     ELSE call' = [call EXCEPT ![c].pc = "create", ![c].dir = d]
  /\ UNCHANGED <<yml, kept, used, ioMu, broken, appends, faults>>

Create(c, s) ==
  /\ At(c, "create")
  /\ s \notin used
  /\ used' = used \cup {s}
  /\ call' = [call EXCEPT ![c].pc = "metaempty", ![c].s = s]
  /\ UNCHANGED <<yml, meta, kept, ioMu, broken, appends, faults>>

\* SaveSessionMeta: MkdirAll and os.WriteFile.
EmptyMeta(c) ==
  /\ At(c, "metaempty")
  /\ meta' = [meta EXCEPT ![call[c].s] = [form |-> "torn", dir |-> NoDir]]
  /\ Goto(c, "metafill")
  /\ UNCHANGED <<yml, kept, used, ioMu, broken, appends, faults>>

\* Over a file another caller has filled meanwhile, shorter bytes leave its tail.
FillMeta(c) ==
  LET s == call[c].s
  IN /\ At(c, "metafill")
     /\ \E form \in {"ok"} \cup (IF meta[s].form = "ok" THEN {"torn"} ELSE {}) :
          meta' = [meta EXCEPT ![s] =
                     [form |-> form, dir |-> IF form = "ok" THEN call[c].dir ELSE NoDir]]
     /\ Return(c)
     /\ UNCHANGED <<yml, kept, used, broken, appends, faults>>

-----------------------------------------------------------------------------
(* Faults *)

Fault == faults < MaxFaults /\ faults' = faults + 1

\* A session.yml that was being filled has some of its bytes: none, or whole
\* messages, can be parsed; others cannot.
Remains(c) == {[form |-> "torn", has |-> {}]} \cup [form: {"ok"}, has: SUBSET call[c].new]

Spoil(c) ==
  /\ At(c, "fill")
  /\ \E left \in Remains(c) :
       LET s == call[c].s
       IN /\ yml' = [yml EXCEPT ![s] = left]
          /\ kept' = [kept EXCEPT ![s] = @ \cap left.has]
          /\ broken' = IF left.form = "torn" THEN broken \cup {s} ELSE broken \ {s}

\* os.WriteFile fails, before it has emptied the file or when it has written part
\* of it, and the call returns.
YmlFails(c) ==
  /\ Fault
  /\ \/ At(c, "empty") /\ UNCHANGED <<yml, kept, broken>>
     \/ Spoil(c)
  /\ Return(c)
  /\ UNCHANGED <<meta, used, appends>>

MetaFails(c) ==
  /\ Fault
  /\ \/ At(c, "metaempty") /\ UNCHANGED meta
     \/ At(c, "metafill") /\ meta' \in {meta, [meta EXCEPT ![call[c].s] = [form |-> "torn", dir |-> NoDir]]}
  /\ Return(c)
  /\ UNCHANGED <<yml, kept, used, broken, appends>>

Crash ==
  /\ Fault
  /\ ioMu' = NoCaller
  /\ call' = [c \in Callers |-> Idle]
  /\ \/ (\A c \in Callers : ~At(c, "fill")) /\ UNCHANGED <<yml, kept, broken>>
     \/ \E c \in Callers : Spoil(c)
  /\ UNCHANGED <<meta, used, appends>>

-----------------------------------------------------------------------------

Begin(c) ==
  \/ \E s \in Sessions : Append(c, s)
  \/ \E s \in Sessions : AppendFails(c, s)
  \/ \E s \in Sessions : \E gone \in SUBSET yml[s].has : Delete(c, s, gone)
  \/ \E s \in Sessions : \E gone \in SUBSET yml[s].has : Truncate(c, s, gone)
  \/ \E s \in Sessions : \E new \in SUBSET (1 .. appends) : UpdateMessages(c, s, new)
  \/ \E s \in Sessions : SetCursor(c, s)
  \/ \E d \in Dirs : CreateCheck(c, d)

Continue(c) ==
  \/ EmptyYml(c)
  \/ FillYml(c)
  \/ \E s \in Sessions : Create(c, s)
  \/ LoadMeta(c)
  \/ EmptyMeta(c)
  \/ FillMeta(c)

Next ==
  \/ \E c \in Callers : Begin(c)
  \/ \E c \in Callers : Continue(c)
  \/ \E c \in Callers : YmlFails(c) \/ MetaFails(c)
  \/ \E s \in Sessions : Remove(s)
  \/ ListSessions
  \/ Crash

Spec == Init /\ [][Next]_vars

\* A call that has begun goes on; nothing is assumed of who calls, or of faults.
FairSpec == Spec /\ \A c \in Callers : WF_vars(Continue(c))

-----------------------------------------------------------------------------
(* Properties *)

\* No message is lost to a concurrent call: session.yml, unless it is torn, holds
\* every message that was appended and that no call meant to remove, and that
\* neither a crash in the middle of a write nor a write that failed took away; a
\* crash at any other moment, or a failure to open the file, takes none (file_store.go:167-184; TestFileStoreConcurrentAppend has only appends).
MessagesKept ==
  \A s \in Sessions : yml[s].form # "torn" => kept[s] \subseteq yml[s].has

\* Whoever holds ioMu finds session.yml whole, so Get and Append never fail on
\* one that is being written; only a crash or a failed write leaves one torn, until
\* the next call rewrites it, and no other session's (file_store.go:184).
TornWhileWriting ==
  \A s \in Sessions : yml[s].form = "torn" =>
    \/ s \in broken
    \/ \E c \in Callers : ioMu = c /\ At(c, "fill") /\ call[c].s = s

\* ioMu is released on every path out of a call, the one where session.yml
\* cannot be parsed too (file_store.go:149, :170).
LockReleased == ioMu # NoCaller ~> ioMu = NoCaller

\* The sessions whose session.yml is being filled, what a caller that waits for
\* ioMu will find in each, and the calls that have read one and not yet emptied it.
Writing == {s \in Sessions : \E c \in Callers : ioMu = c /\ At(c, "fill") /\ call[c].s = s}

Found == [s \in Sessions |-> IF s \in Writing THEN call[ioMu].new ELSE yml[s].has]

Asked == [c \in Callers |->
  IF At(c, "empty") THEN {[s |-> call[c].s, gone |-> call[c].gone, add |-> call[c].add]} ELSE {}]

Log == INSTANCE MessageLog WITH log <- Found, asked <- Asked, writing <- Writing

\* Append, Delete, Truncate and UpdateMessages are linearizable: each takes effect
\* at one instant, when it empties the file, on what is in it at that instant and
\* not on what was there before some other call wrote it (ioMu is held from the
\* read to the write: file_store.go:147, :284, :697, :722).  And what has been
\* written stays: a crash, or a write that fails, takes messages only of the session
\* whose file was being filled, and none when no file was; a call that fails before
\* that takes no effect (os.WriteFile in place: file_store.go:184).
ImplementsLog == Log!Spec
=============================================================================
