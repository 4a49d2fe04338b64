------------------------- MODULE SessionStoreProofs -------------------------
(***************************************************************************)
(* The invariants of SessionStore, for every set of sessions, directories  *)
(* and callers and every bound.                                            *)
(***************************************************************************)
EXTENDS SessionStore, TLAPS

\* What makes the invariants inductive: a call has a session, and what it will
\* write holds all that may not be lost.
Placed  == \A c \in Callers : call[c].pc \notin {"idle", "create"} => call[c].s \in Sessions
Pending == \A c \in Callers : Rewriting(c) =>
             (kept[call[c].s] \ call[c].gone) \cup call[c].add \subseteq call[c].new

IInv == Types /\ Holding /\ Placed /\ Pending /\ MessagesKept /\ TornWhileWriting

\* Initially nothing is stored and nobody calls.
LEMMA InitIInv == Init => IInv
  <1> SUFFICES ASSUME Init PROVE IInv OBVIOUS
  <1>1. Idle \in Call
    BY DEF Idle, Call
  <1>2. Types
    BY <1>1, ConstantsAssumption
       DEF Init, Types, SessionYml, MetaJson, NoYml, NoMeta, Form
  <1>3. Holding /\ Placed /\ Pending
    BY DEF Init, Holding, Placed, Pending, Rewriting, Idle
  <1>4. MessagesKept /\ TornWhileWriting
    BY DEF Init, MessagesKept, TornWhileWriting, NoYml
  <1> QED BY <1>2, <1>3, <1>4 DEF IInv

PC == {"idle", "empty", "fill", "load", "create", "metaempty", "metafill"}

\* A call that rewrites session.yml begins with a well-typed record.
LEMMA RewriteTypes ==
  ASSUME Types, NEW c \in Callers, NEW s \in Sessions,
         NEW gone \in SUBSET Message, NEW add \in SUBSET Message, NEW more \in BOOLEAN,
         Rewrite(c, s, gone, add, more)
  PROVE  call' \in [Callers -> Call]
  <1>1. yml[s].has \in SUBSET Message
    BY DEF Types, SessionYml
  <1>2. [pc |-> "empty", s |-> s, more |-> more, new |-> (yml[s].has \ gone) \cup add,
         gone |-> gone, add |-> add, dir |-> NoDir] \in Call
    BY <1>1 DEF Call
  <1> QED BY <1>2 DEF Rewrite, Types

\* The first step of a call keeps the types.
LEMMA BeginTypes == ASSUME Types, NEW c \in Callers, Begin(c) PROVE Types'
  <1>1. ASSUME NEW s \in Sessions, Append(c, s) PROVE Types'
    <2>1. appends + 1 \in Message /\ appends + 1 \in 0 .. MaxAppends
      BY <1>1, ConstantsAssumption DEF Append, Types, Message
    <2>2. call' \in [Callers -> Call]
      BY <1>1, <2>1, RewriteTypes DEF Append
    <2> QED BY <1>1, <2>1, <2>2 DEF Append, Lock, Types
  <1>2. ASSUME NEW s \in Sessions, AppendFails(c, s) PROVE Types'
    <2>1. appends + 1 \in 0 .. MaxAppends
      BY <1>2, ConstantsAssumption DEF AppendFails, Types
    <2> QED BY <1>2, <2>1 DEF AppendFails, Types
  <1>3. ASSUME NEW s \in Sessions, NEW gone \in SUBSET yml[s].has, Delete(c, s, gone)
        PROVE  Types'
    <2>1. gone \in SUBSET Message /\ {} \in SUBSET Message /\ FALSE \in BOOLEAN
      BY <1>3 DEF Types, SessionYml
    <2>2. call' \in [Callers -> Call]
      BY <1>3, <2>1, RewriteTypes DEF Delete
    <2> QED BY <1>3, <2>2 DEF Delete, Lock, Types
  <1>4. ASSUME NEW s \in Sessions, NEW new \in SUBSET (1 .. appends), UpdateMessages(c, s, new)
        PROVE  Types'
    <2>1. new \in SUBSET Message /\ Message \in SUBSET Message /\ TRUE \in BOOLEAN
      BY <1>4, ConstantsAssumption DEF Types, Message
    <2>2. call' \in [Callers -> Call]
      BY <1>4, <2>1, RewriteTypes DEF UpdateMessages
    <2> QED BY <1>4, <2>2 DEF UpdateMessages, Lock, Types
  <1>5. ASSUME NEW s \in Sessions, SetCursor(c, s) PROVE Types'
    <2>1. [Idle EXCEPT !.pc = "load", !.s = s] \in Call
      BY DEF Idle, Call
    <2> QED BY <1>5, <2>1 DEF SetCursor, Types
  <1>6. ASSUME NEW d \in Dirs, CreateCheck(c, d) PROVE Types'
    <2>1. "create" \in PC /\ d \in Dirs \cup {NoDir}
      BY DEF PC
    <2>2. [call EXCEPT ![c].pc = "create", ![c].dir = d] \in [Callers -> Call]
      <3>1. call \in [Callers -> Call] BY DEF Types
      <3>2. [call[c] EXCEPT !.pc = "create", !.dir = d] \in Call
        BY <3>1 DEF Call
      <3> QED BY <3>1, <3>2
    <2>3. Listed \in [Sessions -> MetaJson]
      BY DEF Types, Listed, MetaJson, Form
    <2> QED BY <1>6, <2>2, <2>3 DEF CreateCheck, Types
  <1> QED BY <1>1, <1>2, <1>3, <1>4, <1>5, <1>6 DEF Begin, Truncate

\* The later steps of a call keep the types.
LEMMA ContinueTypes == ASSUME Types, Placed, NEW c \in Callers, Continue(c) PROVE Types'
  <1>0. call \in [Callers -> Call] /\ call[c] \in Call
    BY DEF Types
  <1>1. {"fill", "load", "metaempty", "metafill"} \subseteq PC
    BY DEF PC
  <1>move. \A p \in PC : [call EXCEPT ![c].pc = p] \in [Callers -> Call]
    <2> TAKE p \in PC
    <2>1. [call[c] EXCEPT !.pc = p] \in Call
      BY <1>0 DEF Call, PC
    <2> QED BY <1>0, <2>1
  <1>ret. Return(c) => call' \in [Callers -> Call] /\ ioMu' \in Callers \cup {NoCaller}
    <2>1. Idle \in Call
      BY DEF Idle, Call
    <2> QED BY <1>0, <2>1 DEF Return, Types
  <1>2. CASE EmptyYml(c)
    <2>1. [form |-> "torn", has |-> {}] \in SessionYml
      BY DEF SessionYml, Form
    <2> QED BY <1>1, <1>2, <1>move, <2>1 DEF EmptyYml, Goto, Types
  <1>3. CASE FillYml(c)
    <2>1. [form |-> "ok", has |-> call[c].new] \in SessionYml
      BY <1>0 DEF SessionYml, Form, Call
    <2>2. kept' \in [Sessions -> SUBSET Message]
      BY <1>0, <1>3 DEF FillYml, Types, Call
    <2>3. call' \in [Callers -> Call] /\ ioMu' \in Callers \cup {NoCaller}
      BY <1>1, <1>3, <1>move, <1>ret DEF FillYml, Goto, Types
    <2>4. yml' \in [Sessions -> SessionYml]
      BY <1>3, <2>1 DEF FillYml, Types
    <2> QED BY <1>3, <2>2, <2>3, <2>4 DEF FillYml, Types
  <1>4. CASE \E s \in Sessions : Create(c, s)
    <2> PICK s \in Sessions : Create(c, s) BY <1>4
    <2>1. [call[c] EXCEPT !.pc = "metaempty", !.s = s] \in Call
      BY <1>0 DEF Call
    <2>2. call' = [call EXCEPT ![c] = [call[c] EXCEPT !.pc = "metaempty", !.s = s]]
      BY DEF Create
    <2>3. call' \in [Callers -> Call]
      BY <1>0, <2>1, <2>2
    <2> QED BY <2>3 DEF Create, Types
  <1>5. CASE LoadMeta(c)
    <2> DEFINE d == IF meta[call[c].s].form = "ok" THEN meta[call[c].s].dir ELSE NoDir
    <2>1. call[c].s \in Sessions
      BY <1>5 DEF Placed, LoadMeta, At
    <2>2. d \in Dirs \cup {NoDir}
      BY <2>1 DEF Types, MetaJson
    <2>3. call' = [call EXCEPT ![c] = [call[c] EXCEPT !.pc = "metaempty", !.dir = d]]
      BY <1>5 DEF LoadMeta
    <2> HIDE DEF d
    <2>4. [call[c] EXCEPT !.pc = "metaempty", !.dir = d] \in Call
      BY <1>0, <2>2 DEF Call
    <2>5. call' \in [Callers -> Call]
      BY <1>0, <2>3, <2>4
    <2> QED BY <1>5, <2>5 DEF LoadMeta, Types
  <1>6. CASE EmptyMeta(c)
    <2>1. [form |-> "torn", dir |-> NoDir] \in MetaJson
      BY DEF MetaJson, Form
    <2> QED BY <1>1, <1>6, <1>move, <2>1 DEF EmptyMeta, Goto, Types
  <1>7. CASE FillMeta(c)
    <2>1. \A form \in {"ok", "torn"} :
            [form |-> form, dir |-> IF form = "ok" THEN call[c].dir ELSE NoDir] \in MetaJson
      BY <1>0 DEF MetaJson, Form, Call
    <2>2. PICK form \in {"ok", "torn"} :
            meta' = [meta EXCEPT ![call[c].s] =
                       [form |-> form, dir |-> IF form = "ok" THEN call[c].dir ELSE NoDir]]
      BY <1>7 DEF FillMeta
    <2>3. meta' \in [Sessions -> MetaJson]
      BY <2>1, <2>2 DEF Types
    <2> QED BY <1>7, <1>ret, <2>3 DEF FillMeta, Types
  <1> QED BY <1>2, <1>3, <1>4, <1>5, <1>6, <1>7 DEF Continue

\* What a write that is cut short leaves is well typed.
LEMMA SpoilTypes ==
  ASSUME Types, Placed, NEW c \in Callers, Spoil(c)
  PROVE  /\ yml' \in [Sessions -> SessionYml] /\ kept' \in [Sessions -> SUBSET Message]
         /\ broken' \subseteq Sessions
  <1> DEFINE s == call[c].s
  <1>1. PICK left \in Remains(c) :
          /\ yml' = [yml EXCEPT ![s] = left]
          /\ kept' = [kept EXCEPT ![s] = @ \cap left.has]
          /\ broken' = IF left.form = "torn" THEN broken \cup {s} ELSE broken \ {s}
    BY DEF Spoil
  <1>2. call[c].new \in SUBSET Message /\ s \in Sessions
    BY DEF Types, Call, Placed, Spoil, At
  <1>3. left \in SessionYml
    BY <1>2 DEF SessionYml, Form, Remains
  <1> HIDE DEF s
  <1> QED BY <1>1, <1>2, <1>3 DEF Types

\* A call that fails ends, and keeps the types.
LEMMA FailTypes ==
  ASSUME Types, Placed, NEW c \in Callers, YmlFails(c) \/ MetaFails(c)
  PROVE  Types'
  <1>1. faults' \in 0 .. MaxFaults
    BY ConstantsAssumption DEF YmlFails, MetaFails, Fault, Types
  <1>2. call' \in [Callers -> Call] /\ ioMu' \in Callers \cup {NoCaller}
    <2>1. Idle \in Call
      BY DEF Idle, Call
    <2> QED BY <2>1 DEF YmlFails, MetaFails, Return, Types
  <1>3. CASE YmlFails(c)
    <2>1. /\ yml' \in [Sessions -> SessionYml] /\ kept' \in [Sessions -> SUBSET Message]
          /\ broken' \subseteq Sessions
      <3>1. CASE Spoil(c)
        BY <3>1, SpoilTypes
      <3> QED BY <1>3, <3>1 DEF YmlFails, Types
    <2> QED BY <1>1, <1>2, <1>3, <2>1 DEF YmlFails, Types
  <1>4. CASE MetaFails(c)
    <2>1. [form |-> "torn", dir |-> NoDir] \in MetaJson
      BY DEF MetaJson, Form
    <2>2. meta' \in [Sessions -> MetaJson]
      BY <1>4, <2>1 DEF MetaFails, Types
    <2> QED BY <1>1, <1>2, <1>4, <2>2 DEF MetaFails, Types
  <1> QED BY <1>3, <1>4

\* Removal, listing and a crash keep the types.
LEMMA OtherTypes ==
  ASSUME Types, Placed, (\E s \in Sessions : Remove(s)) \/ ListSessions \/ Crash
  PROVE  Types'
  <1>0. Idle \in Call
    BY DEF Idle, Call
  <1>1. ASSUME NEW s \in Sessions, Remove(s) PROVE Types'
    <2>1. NoYml \in SessionYml /\ NoMeta \in MetaJson
      BY DEF NoYml, NoMeta, SessionYml, MetaJson, Form
    <2>2. call' \in [Callers -> Call]
      BY <1>0, <1>1 DEF Remove, Types
    <2> QED BY <1>1, <2>1, <2>2 DEF Remove, Types
  <1>2. CASE ListSessions
    BY <1>2 DEF ListSessions, Listed, Types, MetaJson, Form
  <1>3. CASE Crash
    <2>1. faults' \in 0 .. MaxFaults
      BY <1>3, ConstantsAssumption DEF Crash, Fault, Types
    <2>2. /\ yml' \in [Sessions -> SessionYml] /\ kept' \in [Sessions -> SUBSET Message]
          /\ broken' \subseteq Sessions
      <3>1. CASE UNCHANGED <<yml, kept, broken>>
        BY <3>1 DEF Types
      <3>2. CASE \E c \in Callers : Spoil(c)
        BY <3>2, SpoilTypes
      <3> QED BY <1>3, <3>1, <3>2 DEF Crash
    <2> QED BY <1>0, <1>3, <2>1, <2>2 DEF Crash, Types
  <1> QED BY <1>1, <1>2, <1>3

\* Steps of one caller leave the records of the others alone.
LEMMA OthersStay ==
  ASSUME Types, NEW c \in Callers, Begin(c) \/ Continue(c) \/ YmlFails(c) \/ MetaFails(c)
  PROVE  \A x \in Callers \ {c} : call'[x] = call[x]
  <1> USE DEF Types, Goto, Return
  <1>1. CASE Begin(c)
    BY <1>1 DEF Begin, Append, AppendFails, Delete, Truncate, UpdateMessages, SetCursor,
                CreateCheck, Rewrite
  <1>2. CASE Continue(c)
    BY <1>2 DEF Continue, EmptyYml, FillYml, Create, LoadMeta, EmptyMeta, FillMeta
  <1> QED BY <1>1, <1>2 DEF YmlFails, MetaFails

\* The start of a call that rewrites session.yml: it takes ioMu, and what it will
\* write holds what it has read.
LEMMA RewriteStep ==
  ASSUME IInv, NEW c \in Callers, NEW s \in Sessions,
         NEW gone \in SUBSET Message, NEW add \in SUBSET Message, NEW more \in BOOLEAN,
         kept[s] \ gone \subseteq yml[s].has \ gone,
         Lock(c), Rewrite(c, s, gone, add, more), UNCHANGED <<yml, kept, broken>>
  PROVE  (Holding /\ Placed /\ Pending /\ MessagesKept /\ TornWhileWriting)'
  <1> USE DEF IInv
  <1>1. /\ call'[c] = [pc |-> "empty", s |-> s, more |-> more, new |-> (yml[s].has \ gone) \cup add,
                       gone |-> gone, add |-> add, dir |-> NoDir]
        /\ \A x \in Callers \ {c} : call'[x] = call[x]
    BY DEF Rewrite, Types
  <1>2. \A x \in Callers : ~Rewriting(x)
    BY ConstantsAssumption DEF Holding, Lock
  <1>3. Holding' /\ Placed'
    BY <1>1, <1>2 DEF Holding, Placed, Rewriting, Lock
  <1>4. Pending'
    BY <1>1, <1>2 DEF Pending, Rewriting
  <1>5. MessagesKept'
    BY DEF MessagesKept
  <1>6. TornWhileWriting'
    BY <1>2 DEF TornWhileWriting, Rewriting, At
  <1> QED BY <1>3, <1>4, <1>5, <1>6

\* A step that neither begins nor ends the rewriting of a session.yml.
LEMMA ElsewhereStep ==
  ASSUME IInv, yml' = yml, kept' = kept, broken' = broken,
         \A x \in Callers :
           \/ call'[x] = call[x]
           \/ /\ call[x].pc \notin {"empty", "fill"}
              /\ call'[x].pc \notin {"empty", "fill"}
              /\ call'[x].pc \notin {"idle", "create"} => call'[x].s \in Sessions,
         \A x \in Callers : call[x].pc \in {"empty", "fill"} => ioMu' = ioMu
  PROVE  (Holding /\ Placed /\ Pending /\ MessagesKept /\ TornWhileWriting)'
  <1> USE DEF IInv, Rewriting
  <1>1. Holding' /\ Placed'
    BY DEF Holding, Placed
  <1>2. Pending'
    BY DEF Pending
  <1>3. MessagesKept'
    BY DEF MessagesKept
  <1>4. TornWhileWriting'
    BY DEF TornWhileWriting, At, Holding
  <1> QED BY <1>1, <1>2, <1>3, <1>4

\* The first step of every call keeps the invariant.
LEMMA BeginKeeps ==
  ASSUME IInv, NEW c \in Callers, Begin(c)
  PROVE  (Holding /\ Placed /\ Pending /\ MessagesKept /\ TornWhileWriting)'
  <1>0. Types /\ MessagesKept
    BY DEF IInv
  <1>1. ASSUME NEW s \in Sessions, Append(c, s)
        PROVE  (Holding /\ Placed /\ Pending /\ MessagesKept /\ TornWhileWriting)'
    <2>1. {appends + 1} \in SUBSET Message /\ {} \in SUBSET Message /\ TRUE \in BOOLEAN
      BY <1>0, <1>1, ConstantsAssumption DEF Append, Types, Message
    <2>2. kept[s] \ {} \subseteq yml[s].has \ {}
      BY <1>0, <1>1 DEF Append, MessagesKept
    <2> QED BY <1>1, <2>1, <2>2, RewriteStep DEF Append
  <1>2. ASSUME NEW s \in Sessions, AppendFails(c, s)
        PROVE  (Holding /\ Placed /\ Pending /\ MessagesKept /\ TornWhileWriting)'
    BY <1>2, ElsewhereStep DEF AppendFails
  <1>3. ASSUME NEW s \in Sessions, NEW gone \in SUBSET yml[s].has, Delete(c, s, gone)
        PROVE  (Holding /\ Placed /\ Pending /\ MessagesKept /\ TornWhileWriting)'
    <2>1. gone \in SUBSET Message /\ {} \in SUBSET Message /\ FALSE \in BOOLEAN
      BY <1>0 DEF Types, SessionYml
    <2>2. kept[s] \ gone \subseteq yml[s].has \ gone
      BY <1>0, <1>3 DEF Delete, MessagesKept
    <2> QED BY <1>3, <2>1, <2>2, RewriteStep DEF Delete
  <1>4. ASSUME NEW s \in Sessions, NEW new \in SUBSET (1 .. appends), UpdateMessages(c, s, new)
        PROVE  (Holding /\ Placed /\ Pending /\ MessagesKept /\ TornWhileWriting)'
    <2>1. new \in SUBSET Message /\ Message \in SUBSET Message /\ TRUE \in BOOLEAN
      BY <1>0, ConstantsAssumption DEF Types, Message
    <2>2. kept[s] \ Message \subseteq yml[s].has \ Message
      BY <1>0 DEF Types
    <2> QED BY <1>4, <2>1, <2>2, RewriteStep DEF UpdateMessages
  <1>5. ASSUME NEW s \in Sessions, SetCursor(c, s)
        PROVE  (Holding /\ Placed /\ Pending /\ MessagesKept /\ TornWhileWriting)'
    <2>1. call'[c].pc = "load" /\ call'[c].s = s
      BY <1>0, <1>5 DEF SetCursor, Types, Idle
    <2>2. \A x \in Callers \ {c} : call'[x] = call[x]
      BY <1>0, <1>5, OthersStay DEF Begin
    <2> QED BY <1>5, <2>1, <2>2, ElsewhereStep DEF SetCursor, At, Rewriting
  <1>6. ASSUME NEW d \in Dirs, CreateCheck(c, d)
        PROVE  (Holding /\ Placed /\ Pending /\ MessagesKept /\ TornWhileWriting)'
    <2>1. call' = call \/ call'[c].pc = "create"
      BY <1>0, <1>6 DEF CreateCheck, Types, Call
    <2>2. \A x \in Callers \ {c} : call'[x] = call[x]
      BY <1>0, <1>6, OthersStay DEF Begin
    <2> QED BY <1>6, <2>1, <2>2, ElsewhereStep DEF CreateCheck, At, Rewriting
  <1> QED BY <1>1, <1>2, <1>3, <1>4, <1>5, <1>6 DEF Begin, Truncate

\* Writing session.yml keeps it: the caller holds ioMu, so it is alone.
LEMMA YmlKeeps ==
  ASSUME IInv, NEW c \in Callers, EmptyYml(c) \/ FillYml(c)
  PROVE  (Holding /\ Placed /\ Pending /\ MessagesKept /\ TornWhileWriting)'
  <1> DEFINE s == call[c].s
  <1>0. /\ Rewriting(c) /\ ioMu = c
        /\ s \in Sessions
        /\ (kept[s] \ call[c].gone) \cup call[c].add \subseteq call[c].new
        /\ call \in [Callers -> Call]
    BY DEF IInv, EmptyYml, FillYml, At, Rewriting, Holding, Placed, Pending, Types
  <1>1. \A x \in Callers \ {c} : ~Rewriting(x) /\ call'[x] = call[x]
    BY <1>0, OthersStay DEF IInv, Holding, Continue
  <1>2. CASE EmptyYml(c)
    <2>1. /\ call'[c] = [call[c] EXCEPT !.pc = "fill"]
          /\ ioMu' = c /\ kept' = kept /\ broken' = broken \ {s}
          /\ yml' = [yml EXCEPT ![s] = [form |-> "torn", has |-> {}]]
      BY <1>0, <1>2 DEF EmptyYml, Goto
    <2>2. /\ call'[c].pc = "fill" /\ call'[c].s = s /\ call'[c].gone = call[c].gone
          /\ call'[c].add = call[c].add /\ call'[c].new = call[c].new
      BY <1>0, <2>1 DEF Call
    <2>3. Holding' /\ Placed' /\ Pending'
      BY <1>0, <1>1, <2>1, <2>2 DEF IInv, Holding, Placed, Pending, Rewriting
    <2>4. MessagesKept'
      BY <2>1 DEF IInv, Types, MessagesKept
    <2>5. \A t \in Sessions \ {s} : yml'[t] = yml[t] /\ (yml[t].form = "torn" => t \in broken')
      BY <1>0, <1>1, <2>1 DEF IInv, Types, TornWhileWriting, At, Rewriting
    <2>6. TornWhileWriting'
      BY <2>1, <2>2, <2>5 DEF TornWhileWriting, At
    <2> QED BY <2>3, <2>4, <2>6
  <1>3. CASE FillYml(c)
    <2>1. /\ kept' = [kept EXCEPT ![s] = (@ \ call[c].gone) \cup call[c].add]
          /\ yml' = [yml EXCEPT ![s] = [form |-> "ok", has |-> call[c].new]]
          /\ broken' = broken
      BY <1>3 DEF FillYml
    <2>2. \/ call'[c].pc = "load" /\ call'[c].s = s
          \/ call'[c].pc = "idle"
      BY <1>0, <1>3 DEF FillYml, Goto, Return, Idle, Call
    <2>3. Holding' /\ Placed' /\ Pending'
      BY <1>0, <1>1, <2>2 DEF IInv, Holding, Placed, Pending, Rewriting
    <2>4. MessagesKept'
      BY <1>0, <2>1 DEF IInv, Types, MessagesKept
    <2>5. \A t \in Sessions : yml'[t].form = "torn" => t \in broken
      BY <1>0, <1>1, <1>3, <2>1 DEF IInv, Types, TornWhileWriting, At, Rewriting
    <2>6. TornWhileWriting'
      BY <2>1, <2>5 DEF TornWhileWriting
    <2> QED BY <2>3, <2>4, <2>6
  <1> QED BY <1>2, <1>3

\* A write that is cut short leaves no session torn but those it is known to have.
LEMMA SpoilKeeps ==
  ASSUME IInv, NEW c \in Callers, Spoil(c)
  PROVE  MessagesKept' /\ \A t \in Sessions : yml'[t].form = "torn" => t \in broken'
  <1> DEFINE s == call[c].s
  <1>1. PICK left \in Remains(c) :
          /\ yml' = [yml EXCEPT ![s] = left]
          /\ kept' = [kept EXCEPT ![s] = @ \cap left.has]
          /\ broken' = IF left.form = "torn" THEN broken \cup {s} ELSE broken \ {s}
    BY DEF Spoil
  <1>2. ioMu = c /\ s \in Sessions
    BY DEF IInv, Holding, Placed, Rewriting, Spoil, At
  <1>3. MessagesKept'
    BY <1>1, <1>2 DEF IInv, Types, MessagesKept
  <1>4. \A t \in Sessions \ {s} : yml[t].form = "torn" => t \in broken
    BY <1>2 DEF IInv, Holding, TornWhileWriting, Rewriting, At
  <1>5. \A t \in Sessions \ {s} : yml'[t] = yml[t]
    BY <1>1 DEF IInv, Types
  <1>6. yml'[s] = left
    BY <1>1, <1>2 DEF IInv, Types
  <1> HIDE DEF s
  <1> QED BY <1>1, <1>3, <1>4, <1>5, <1>6

\* A call that fails keeps it: the lock is released, and what it was rewriting is
\* whole, or known to be torn.
LEMMA FailKeeps ==
  ASSUME IInv, NEW c \in Callers, YmlFails(c) \/ MetaFails(c)
  PROVE  (Holding /\ Placed /\ Pending /\ MessagesKept /\ TornWhileWriting)'
  <1>0. /\ call'[c].pc = "idle"
        /\ \A x \in Callers \ {c} : call'[x] = call[x]
    BY OthersStay DEF YmlFails, MetaFails, Return, Idle, IInv, Types
  <1>1. CASE YmlFails(c)
    <2>1. \A x \in Callers : ~Rewriting(x)'
      BY <1>0, <1>1 DEF YmlFails, Spoil, At, IInv, Holding, Rewriting
    <2>2. Holding' /\ Placed' /\ Pending'
      BY <1>0, <2>1 DEF IInv, Holding, Placed, Pending
    <2>3. MessagesKept' /\ \A t \in Sessions : yml'[t].form = "torn" => t \in broken'
      <3>1. CASE At(c, "empty") /\ UNCHANGED <<yml, kept, broken>>
        BY <3>1 DEF IInv, Holding, Rewriting, MessagesKept, TornWhileWriting, At
      <3>2. CASE Spoil(c)
        BY <3>2, SpoilKeeps
      <3> QED BY <1>1, <3>1, <3>2 DEF YmlFails
    <2> QED BY <2>2, <2>3 DEF TornWhileWriting
  <1>2. CASE MetaFails(c)
    <2>1. ~Rewriting(c) /\ \A x \in Callers : Rewriting(x) => ioMu' = ioMu
      BY <1>2 DEF MetaFails, Return, At, Rewriting, IInv, Holding
    <2> QED BY <1>0, <1>2, <2>1, ElsewhereStep DEF MetaFails, Rewriting
  <1> QED BY <1>1, <1>2

\* The steps on meta.json keep it: they touch no session.yml.
LEMMA MetaKeeps ==
  ASSUME IInv, NEW c \in Callers,
         LoadMeta(c) \/ EmptyMeta(c) \/ FillMeta(c) \/ \E s \in Sessions : Create(c, s)
  PROVE  (Holding /\ Placed /\ Pending /\ MessagesKept /\ TornWhileWriting)'
  <1>0. /\ call \in [Callers -> Call] /\ ~Rewriting(c)
        /\ UNCHANGED <<yml, kept, broken>>
    BY DEF IInv, Types, LoadMeta, EmptyMeta, FillMeta, Create, At, Rewriting
  <1>1. \A x \in Callers \ {c} : call'[x] = call[x]
    BY OthersStay DEF Continue, IInv
  <1>2. \/ call'[c].pc \in {"metaempty", "metafill"} /\ call'[c].s \in Sessions
        \/ call'[c].pc = "idle"
    <2>1. call[c].pc \notin {"idle", "create"} => call[c].s \in Sessions
      BY DEF IInv, Placed
    <2>2. CASE LoadMeta(c) \/ EmptyMeta(c)
      BY <1>0, <2>1, <2>2 DEF LoadMeta, EmptyMeta, Goto, At, Call
    <2>3. CASE FillMeta(c)
      BY <1>0, <2>3 DEF FillMeta, Return, Idle
    <2>4. CASE \E s \in Sessions : Create(c, s)
      <3> PICK s \in Sessions : Create(c, s) BY <2>4
      <3>1. call' = [call EXCEPT ![c] = [call[c] EXCEPT !.pc = "metaempty", !.s = s]]
        BY DEF Create
      <3> QED BY <1>0, <3>1 DEF Call
    <2> QED BY <2>2, <2>3, <2>4
  <1>3. \A x \in Callers : Rewriting(x) => ioMu' = ioMu
    BY <1>0 DEF IInv, Holding, LoadMeta, EmptyMeta, FillMeta, Create, Return
  <1> QED BY <1>0, <1>1, <1>2, <1>3, ElsewhereStep DEF Rewriting

\* Removal, listing and a crash keep it.
LEMMA OtherKeeps ==
  ASSUME IInv, (\E s \in Sessions : Remove(s)) \/ ListSessions \/ Crash
  PROVE  (Holding /\ Placed /\ Pending /\ MessagesKept /\ TornWhileWriting)'
  <1>1. ASSUME NEW s \in Sessions, Remove(s)
        PROVE  (Holding /\ Placed /\ Pending /\ MessagesKept /\ TornWhileWriting)'
    <2>1. \A x \in Callers : ~Rewriting(x)
      BY <1>1, ConstantsAssumption DEF Remove, IInv, Holding
    <2>2. \A x \in Callers : call'[x] = call[x] \/ call'[x].pc = "idle"
      BY <1>1 DEF Remove, Idle
    <2>3. Holding' /\ Placed' /\ Pending'
      BY <2>1, <2>2 DEF IInv, Holding, Placed, Pending, Rewriting
    <2>4. MessagesKept' /\ TornWhileWriting'
      BY <1>1, <2>1 DEF Remove, NoYml, IInv, Types, MessagesKept, TornWhileWriting, At, Rewriting
    <2> QED BY <2>3, <2>4
  <1>2. CASE ListSessions
    BY <1>2, ElsewhereStep DEF ListSessions
  <1>3. CASE Crash
    <2>1. \A x \in Callers : call'[x].pc = "idle"
      BY <1>3 DEF Crash, Idle
    <2>2. MessagesKept' /\ \A t \in Sessions : yml'[t].form = "torn" => t \in broken'
      <3>1. CASE (\A c \in Callers : ~At(c, "fill")) /\ UNCHANGED <<yml, kept, broken>>
        BY <3>1 DEF IInv, MessagesKept, TornWhileWriting
      <3>2. CASE \E c \in Callers : Spoil(c)
        BY <3>2, SpoilKeeps
      <3> QED BY <1>3, <3>1, <3>2 DEF Crash
    <2> QED BY <2>1, <2>2 DEF Holding, Placed, Pending, TornWhileWriting, Rewriting
  <1> QED BY <1>1, <1>2, <1>3

\* The invariant is inductive: every step of a caller of the store keeps it.
LEMMA NextIInv == IInv /\ [Next]_vars => IInv'
  <1> SUFFICES ASSUME IInv, [Next]_vars PROVE IInv' OBVIOUS
  <1>0. Types /\ Placed
    BY DEF IInv
  <1>1. ASSUME NEW c \in Callers, Begin(c) PROVE IInv'
    BY <1>0, <1>1, BeginTypes, BeginKeeps DEF IInv
  <1>2. ASSUME NEW c \in Callers, Continue(c) PROVE IInv'
    <2>1. Types'
      BY <1>0, <1>2, ContinueTypes
    <2>2. (Holding /\ Placed /\ Pending /\ MessagesKept /\ TornWhileWriting)'
      BY <1>2, YmlKeeps, MetaKeeps DEF Continue
    <2> QED BY <2>1, <2>2 DEF IInv
  <1>fail. ASSUME NEW c \in Callers, YmlFails(c) \/ MetaFails(c) PROVE IInv'
    BY <1>0, <1>fail, FailTypes, FailKeeps DEF IInv
  <1>3. CASE (\E s \in Sessions : Remove(s)) \/ ListSessions \/ Crash
    BY <1>0, <1>3, OtherTypes, OtherKeeps DEF IInv
  <1>4. CASE UNCHANGED vars
    BY <1>4 DEF vars, IInv, Types, Holding, Placed, Pending, MessagesKept, TornWhileWriting,
                Rewriting, At
  <1> QED BY <1>1, <1>2, <1>fail, <1>3, <1>4 DEF Next

\* Every reachable state of the store satisfies the invariant.
THEOREM Inductive == Spec => []IInv
  BY InitIInv, NextIInv, PTL DEF Spec

\* The store's state is well typed (file_store.go).
THEOREM TypeCorrect == Spec => []TypeOK
  <1>1. IInv => TypeOK
    BY DEF IInv, TypeOK
  <1> QED BY <1>1, Inductive, PTL

\* However many goroutines share a session, none loses a message of another
\* (Append, Delete, Truncate and UpdateMessages under ioMu).
THEOREM Kept == Spec => []MessagesKept
  <1>1. IInv => MessagesKept
    BY DEF IInv
  <1> QED BY <1>1, Inductive, PTL

\* Nobody who holds ioMu meets a session.yml that another is still writing.
THEOREM Torn == Spec => []TornWhileWriting
  <1>1. IInv => TornWhileWriting
    BY DEF IInv
  <1> QED BY <1>1, Inductive, PTL

-----------------------------------------------------------------------------
(* SessionStore implements MessageLog *)

\* What a call will write is what its request makes of the file as it is now.
Fresh == \A c \in Callers : At(c, "empty") =>
           call[c].new = (yml[call[c].s].has \ call[c].gone) \cup call[c].add

\* A step that touches no session.yml and no caller that is rewriting one.
Aside ==
  /\ yml' = yml
  /\ \A x \in Callers :
       \/ call'[x] = call[x]
       \/ call[x].pc \notin {"empty", "fill"} /\ call'[x].pc \notin {"empty", "fill"}
  /\ \A x \in Callers : call[x].pc \in {"empty", "fill"} => ioMu' = ioMu

\* The log and the requests of the mapping are functions.
LEMMA MappingDomains ==
  /\ Found = [t \in Sessions |-> Found[t]] /\ Found' = [t \in Sessions |-> Found'[t]]
  /\ Asked = [x \in Callers |-> Asked[x]] /\ Asked' = [x \in Callers |-> Asked'[x]]
  BY DEF Found, Asked

\* Every step is aside, or begins, applies or completes the rewriting of a file,
\* or removes one, or is a crash.
LEMMA AsideSteps ==
  ASSUME IInv, NEW c \in Callers,
         \/ LoadMeta(c) \/ EmptyMeta(c) \/ FillMeta(c) \/ MetaFails(c)
         \/ \E s \in Sessions : Create(c, s)
         \/ \E s \in Sessions : AppendFails(c, s)
         \/ \E s \in Sessions : SetCursor(c, s)
         \/ \E d \in Dirs : CreateCheck(c, d)
  PROVE  Aside
  <1>0. Types /\ call \in [Callers -> Call] /\ call[c] \in Call
    BY DEF IInv, Types
  <1>1. /\ call[c].pc \notin {"empty", "fill"}
        /\ yml' = yml
    BY DEF LoadMeta, EmptyMeta, FillMeta, MetaFails, Create, AppendFails, SetCursor, CreateCheck, At
  <1>2. \A x \in Callers \ {c} : call'[x] = call[x]
    BY <1>0, OthersStay DEF Begin, Continue
  <1>3. call'[c] = call[c] \/ call'[c].pc \notin {"empty", "fill"}
    <2>1. CASE LoadMeta(c) \/ EmptyMeta(c)
      BY <1>0, <2>1 DEF LoadMeta, EmptyMeta, Goto, Call
    <2>2. CASE FillMeta(c) \/ MetaFails(c)
      BY <1>0, <2>2 DEF FillMeta, MetaFails, Return, Idle
    <2>3. CASE \E s \in Sessions : Create(c, s)
      <3> PICK s \in Sessions : Create(c, s) BY <2>3
      <3>1. call' = [call EXCEPT ![c] = [call[c] EXCEPT !.pc = "metaempty", !.s = s]]
        BY DEF Create
      <3> QED BY <1>0, <3>1 DEF Call
    <2>4. CASE \E s \in Sessions : AppendFails(c, s)
      BY <2>4 DEF AppendFails
    <2>5. CASE \E s \in Sessions : SetCursor(c, s)
      BY <1>0, <2>5 DEF SetCursor, Idle
    <2>6. CASE \E d \in Dirs : CreateCheck(c, d)
      <3> PICK d \in Dirs : CreateCheck(c, d) BY <2>6
      <3>1. call' = call \/ call' = [call EXCEPT ![c] = [call[c] EXCEPT !.pc = "create", !.dir = d]]
        BY DEF CreateCheck
      <3> QED BY <1>0, <3>1 DEF Call
    <2> QED BY <2>1, <2>2, <2>3, <2>4, <2>5, <2>6
  <1>4. \A x \in Callers : call[x].pc \in {"empty", "fill"} => ioMu' = ioMu
    BY <1>1 DEF IInv, Holding, Rewriting, LoadMeta, EmptyMeta, FillMeta, MetaFails, Create, AppendFails,
                SetCursor, CreateCheck, Return
  <1> QED BY <1>1, <1>2, <1>3, <1>4 DEF Aside

\* A step that is aside changes nothing of the log.
LEMMA AsideKeeps ==
  ASSUME IInv, Fresh, Aside
  PROVE  Fresh' /\ Found' = Found /\ Asked' = Asked /\ Writing' = Writing
  <1>1. \A x \in Callers : At(x, "empty")' => At(x, "empty") /\ call'[x] = call[x]
    BY DEF Aside, At
  <1>2. \A x \in Callers : At(x, "empty") => At(x, "empty")' /\ call'[x] = call[x]
    BY DEF Aside, At
  <1>3. Fresh'
    BY <1>1 DEF Fresh, Aside
  <1>4. Asked' = Asked
    BY <1>1, <1>2 DEF Asked
  <1>5. \A x \in Callers : \/ /\ (ioMu = x /\ At(x, "fill"))' 
                              /\ ioMu = x /\ At(x, "fill") /\ call'[x] = call[x]
                           \/ ~(ioMu = x /\ At(x, "fill"))' /\ ~(ioMu = x /\ At(x, "fill"))
    BY DEF Aside, At, IInv, Holding, Rewriting
  <1>6. Writing' = Writing
    BY <1>5 DEF Writing
  <1>7. \A t \in Sessions : t \in Writing => call'[ioMu'] = call[ioMu]
    BY <1>5 DEF Writing
  <1>8. Found' = Found
    BY <1>6, <1>7 DEF Found, Aside
  <1> QED BY <1>3, <1>4, <1>6, <1>8

\* Reading session.yml under ioMu is making the request.
LEMMA AskStep ==
  ASSUME IInv, Fresh, NEW c \in Callers, NEW s \in Sessions,
         NEW gone \in SUBSET Message, NEW add \in SUBSET Message, NEW more \in BOOLEAN,
         At(c, "idle"), Lock(c), Rewrite(c, s, gone, add, more), UNCHANGED yml
  PROVE  Fresh' /\ Log!Ask(c)
  <1> DEFINE r == [s |-> s, gone |-> gone, add |-> add]
  <1>0. \A x \in Callers : call[x].pc \notin {"empty", "fill"}
    BY ConstantsAssumption DEF IInv, Holding, Rewriting, Lock
  <1>1. /\ call'[c] = [pc |-> "empty", s |-> s, more |-> more, new |-> (yml[s].has \ gone) \cup add,
                       gone |-> gone, add |-> add, dir |-> NoDir]
        /\ \A x \in Callers \ {c} : call'[x] = call[x]
    BY DEF Rewrite, IInv, Types
  <1>2. Fresh'
    BY <1>0, <1>1 DEF Fresh, At
  <1>3. Asked[c] = {} /\ Asked' = [Asked EXCEPT ![c] = {r}]
    <2>1. Asked[c] = {} /\ Asked'[c] = {r}
      BY <1>0, <1>1 DEF Asked, At
    <2>2. \A x \in Callers \ {c} : Asked'[x] = Asked[x]
      BY <1>1 DEF Asked, At
    <2> QED BY <2>1, <2>2, MappingDomains
  <1>4. r \in Log!Request
    BY DEF Log!Request
  <1>5. Writing = {} /\ Writing' = {}
    BY <1>0, <1>1 DEF Writing, At
  <1>6. Found' = Found
    BY <1>5 DEF Found
  <1> HIDE DEF r
  <1> QED BY <1>2, <1>3, <1>4, <1>5, <1>6 DEF Log!Ask

\* Emptying session.yml is where the request takes effect.
LEMMA ApplyStep ==
  ASSUME IInv, Fresh, NEW c \in Callers, EmptyYml(c)
  PROVE  Fresh' /\ Log!Apply(c)
  <1> DEFINE s == call[c].s
             r == [s |-> s, gone |-> call[c].gone, add |-> call[c].add]
  <1>0. /\ call \in [Callers -> Call] /\ s \in Sessions
        /\ yml \in [Sessions -> SessionYml]
        /\ ioMu = c /\ ioMu' = c /\ At(c, "empty")
        /\ \A x \in Callers \ {c} : call[x].pc \notin {"empty", "fill"} /\ call'[x] = call[x]
    BY OthersStay DEF IInv, Types, Holding, Placed, Rewriting, EmptyYml, At, Continue
  <1>1. /\ call'[c] = [call[c] EXCEPT !.pc = "fill"]
        /\ yml' = [yml EXCEPT ![s] = [form |-> "torn", has |-> {}]]
    BY <1>0 DEF EmptyYml, Goto
  <1>2. call'[c].pc = "fill" /\ call'[c].s = s /\ call'[c].new = call[c].new
    BY <1>0, <1>1 DEF Call
  <1>3. Fresh'
    BY <1>0, <1>2 DEF Fresh, At
  <1>4. Asked[c] = {r} /\ Asked' = [Asked EXCEPT ![c] = {}]
    BY <1>0, <1>2 DEF Asked, At
  <1>5. call[c].new = (yml[s].has \ call[c].gone) \cup call[c].add
    BY <1>0 DEF Fresh
  <1>6. Writing = {} /\ Writing' = {s}
    BY <1>0, <1>2 DEF Writing, At
  <1>7. \A t \in Sessions : Found[t] = yml[t].has
    BY <1>6 DEF Found
  <1>8. \A t \in Sessions : Found'[t] = IF t = s THEN call[c].new ELSE yml[t].has
    BY <1>0, <1>1, <1>2, <1>6 DEF Found
  <1>9. Found' = [Found EXCEPT ![s] = (@ \ call[c].gone) \cup call[c].add]
    BY <1>0, <1>5, <1>7, <1>8, MappingDomains
  <1> QED BY <1>3, <1>4, <1>6, <1>9 DEF Log!Apply

\* Filling session.yml writes down what was decided before.
LEMMA FillStep ==
  ASSUME IInv, Fresh, NEW c \in Callers, FillYml(c)
  PROVE  Fresh' /\ Log!Written
  <1> DEFINE s == call[c].s
  <1>0. /\ call \in [Callers -> Call] /\ s \in Sessions
        /\ yml \in [Sessions -> SessionYml]
        /\ ioMu = c /\ At(c, "fill")
        /\ \A x \in Callers \ {c} : call[x].pc \notin {"empty", "fill"} /\ call'[x] = call[x]
    BY OthersStay DEF IInv, Types, Holding, Placed, Rewriting, FillYml, At, Continue
  <1>1. yml' = [yml EXCEPT ![s] = [form |-> "ok", has |-> call[c].new]]
    BY DEF FillYml
  <1>2. call'[c].pc \in {"load", "idle"}
    BY <1>0 DEF FillYml, Goto, Return, Idle, Call
  <1>3. Fresh' /\ Asked' = Asked
    BY <1>0, <1>2 DEF Fresh, Asked, At
  <1>4. Writing = {s} /\ Writing' = {}
    BY <1>0, <1>2 DEF Writing, At
  <1>5. \A t \in Sessions : Found[t] = IF t = s THEN call[c].new ELSE yml[t].has
    BY <1>0, <1>4 DEF Found
  <1>6. \A t \in Sessions : Found'[t] = yml'[t].has
    BY <1>4 DEF Found
  <1>7. Found' = Found
    BY <1>0, <1>1, <1>5, <1>6 DEF Found
  <1> QED BY <1>3, <1>4, <1>7 DEF Log!Written

\* Removing the directory drops the session's messages.
LEMMA DropStep ==
  ASSUME IInv, Fresh, NEW s \in Sessions, Remove(s)
  PROVE  Fresh' /\ Log!Drop(s)
  <1>0. \A x \in Callers : /\ call[x].pc \notin {"empty", "fill"}
                           /\ call'[x].pc \notin {"empty", "fill"}
    BY ConstantsAssumption DEF IInv, Holding, Rewriting, Remove, Idle
  <1>1. yml' = [yml EXCEPT ![s] = NoYml] /\ yml \in [Sessions -> SessionYml]
    BY DEF Remove, IInv, Types
  <1>2. Fresh' /\ Asked' = Asked /\ \A c \in Callers : Asked[c] = {}
    BY <1>0 DEF Fresh, Asked, At
  <1>3. Writing = {} /\ Writing' = {}
    BY <1>0 DEF Writing, At
  <1>4. Found' = [Found EXCEPT ![s] = {}]
    BY <1>1, <1>3 DEF Found, NoYml
  <1> QED BY <1>2, <1>3, <1>4 DEF Log!Drop

\* What is left of a file that was being filled is part of what was to be in it,
\* and no other file is touched.
LEMMA SpoilStep ==
  ASSUME IInv, NEW c \in Callers, Spoil(c), Writing' = {}
  PROVE  Log!Spoil
  <1> DEFINE s == call[c].s
  <1>1. PICK left \in Remains(c) : yml' = [yml EXCEPT ![s] = left]
    BY DEF Spoil
  <1>2. /\ s \in Sessions /\ ioMu = c /\ yml \in [Sessions -> SessionYml]
        /\ At(c, "fill") /\ \A x \in Callers \ {c} : ~At(x, "fill")
    BY DEF Spoil, IInv, Types, Placed, Holding, Rewriting, At
  <1>3. Writing = {s}
    BY <1>2 DEF Writing
  <1>4. \A t \in Sessions : Found[t] = IF t = s THEN call[c].new ELSE yml[t].has
    BY <1>2, <1>3 DEF Found
  <1>5. left.has \in SUBSET Found[s]
    BY <1>2, <1>4 DEF Remains
  <1>6. \A t \in Sessions : Found'[t] = yml'[t].has
    BY DEF Found
  <1>7. Found' = [Found EXCEPT ![s] = left.has]
    BY <1>1, <1>2, <1>4, <1>6, MappingDomains
  <1> QED BY <1>3, <1>5, <1>7 DEF Log!Spoil

\* A crash ends every call.
LEMMA CrashStep ==
  ASSUME IInv, Fresh, Crash
  PROVE  Fresh' /\ Log!Crash
  <1>0. \A x \in Callers : call'[x].pc = "idle"
    BY DEF Crash, Idle
  <1>1. Fresh' /\ Asked' = [c \in Callers |-> {}] /\ Writing' = {}
    BY <1>0 DEF Fresh, Asked, Writing, At
  <1>2. CASE (\A c \in Callers : ~At(c, "fill")) /\ UNCHANGED yml
    <2>1. Writing = {}
      BY <1>2 DEF Writing
    <2>2. Found' = Found
      BY <1>1, <1>2, <2>1 DEF Found
    <2> QED BY <1>1, <2>2 DEF Log!Crash
  <1>3. CASE \E c \in Callers : Spoil(c)
    BY <1>1, <1>3, SpoilStep DEF Log!Crash
  <1> QED BY <1>2, <1>3 DEF Crash

\* A failed write refuses the request, or spoils what was being written.
LEMMA FailStep ==
  ASSUME IInv, Fresh, NEW c \in Callers, YmlFails(c)
  PROVE  Fresh' /\ (Log!Refuse(c) \/ Log!Fail)
  <1>0. /\ call[c].pc \in {"empty", "fill"} /\ call'[c].pc = "idle"
        /\ \A x \in Callers \ {c} : call[x].pc \notin {"empty", "fill"} /\ call'[x] = call[x]
    BY OthersStay DEF IInv, Types, Holding, Rewriting, YmlFails, Spoil, At, Return, Idle
  <1>1. Fresh' /\ Writing' = {} /\ Asked' = [x \in Callers |-> {}]
    BY <1>0 DEF Fresh, Writing, Asked, At
  <1>2. CASE At(c, "empty") /\ UNCHANGED yml
    <2>1. Writing = {}
      BY <1>0, <1>2 DEF Writing, At
    <2>2. Found' = Found
      BY <1>1, <1>2, <2>1 DEF Found
    <2>3. Asked[c] # {} /\ Asked' = [Asked EXCEPT ![c] = {}]
      BY <1>0, <1>1, <1>2, MappingDomains DEF Asked, At
    <2> QED BY <1>1, <2>1, <2>2, <2>3 DEF Log!Refuse
  <1>3. CASE Spoil(c)
    <2>1. Asked' = Asked
      BY <1>0, <1>1, <1>3 DEF Asked, At, Spoil
    <2> QED BY <1>1, <1>3, <2>1, SpoilStep DEF Log!Fail
  <1> QED BY <1>2, <1>3 DEF YmlFails

\* A store without sessions is an empty log.
LEMMA InitLog == Init => Fresh /\ Log!Init
  <1> SUFFICES ASSUME Init PROVE Fresh /\ Log!Init OBVIOUS
  <1>1. \A x \in Callers : call[x].pc = "idle"
    BY DEF Init, Idle
  <1>2. Fresh /\ Asked = [c \in Callers |-> {}]
    BY <1>1 DEF Fresh, Asked, At
  <1>3. Writing = {}
    BY <1>1 DEF Writing, At
  <1>4. Found = [s \in Sessions |-> {}]
    BY <1>3 DEF Init, Found, NoYml
  <1> QED BY <1>2, <1>3, <1>4 DEF Log!Init

\* Every step of the store is a step of the log or changes nothing of it.
LEMMA NextLog == IInv /\ Fresh /\ [Next]_vars => Fresh' /\ [Log!Next]_(Log!vars)
  <1> SUFFICES ASSUME IInv, Fresh, [Next]_vars PROVE Fresh' /\ [Log!Next]_(Log!vars) OBVIOUS
  <1> DEFINE Maps == Fresh' /\ [Log!Next]_(Log!vars)
  <1>0. Types
    BY DEF IInv
  <1>same. Fresh' /\ Found' = Found /\ Asked' = Asked /\ Writing' = Writing => Maps
    BY DEF Log!vars
  <1>1. ASSUME NEW c \in Callers, Begin(c) PROVE Maps
    <2>1. ASSUME NEW s \in Sessions, Append(c, s) PROVE Maps
      <3>1. {appends + 1} \in SUBSET Message /\ {} \in SUBSET Message /\ TRUE \in BOOLEAN
        BY <1>0, <2>1, ConstantsAssumption DEF Append, Types, Message
      <3> QED BY <2>1, <3>1, AskStep DEF Append, Log!Next
    <2>2. ASSUME NEW s \in Sessions, NEW gone \in SUBSET yml[s].has, Delete(c, s, gone)
          PROVE  Maps
      <3>1. gone \in SUBSET Message /\ {} \in SUBSET Message /\ FALSE \in BOOLEAN
        BY <1>0 DEF Types, SessionYml
      <3> QED BY <2>2, <3>1, AskStep DEF Delete, Log!Next
    <2>3. ASSUME NEW s \in Sessions, NEW new \in SUBSET (1 .. appends), UpdateMessages(c, s, new)
          PROVE  Maps
      <3>1. new \in SUBSET Message /\ Message \in SUBSET Message /\ TRUE \in BOOLEAN
        BY <1>0, ConstantsAssumption DEF Types, Message
      <3> QED BY <2>3, <3>1, AskStep DEF UpdateMessages, Log!Next
    <2>4. CASE \/ \E s \in Sessions : AppendFails(c, s)
               \/ \E s \in Sessions : SetCursor(c, s)
               \/ \E d \in Dirs : CreateCheck(c, d)
      BY <1>same, <2>4, AsideSteps, AsideKeeps
    <2> QED BY <1>1, <2>1, <2>2, <2>3, <2>4 DEF Begin, Truncate
  <1>2. ASSUME NEW c \in Callers, Continue(c) PROVE Maps
    <2>1. CASE EmptyYml(c)
      BY <2>1, ApplyStep DEF Log!Next
    <2>2. CASE FillYml(c)
      BY <2>2, FillStep DEF Log!Next
    <2>3. CASE LoadMeta(c) \/ EmptyMeta(c) \/ FillMeta(c) \/ \E s \in Sessions : Create(c, s)
      BY <1>same, <2>3, AsideSteps, AsideKeeps
    <2> QED BY <1>2, <2>1, <2>2, <2>3 DEF Continue
  <1>yml. ASSUME NEW c \in Callers, YmlFails(c) PROVE Maps
    BY <1>yml, FailStep DEF Log!Next
  <1>meta. ASSUME NEW c \in Callers, MetaFails(c) PROVE Maps
    BY <1>same, <1>meta, AsideSteps, AsideKeeps
  <1>3. ASSUME NEW s \in Sessions, Remove(s) PROVE Maps
    BY <1>3, DropStep DEF Log!Next
  <1>4. CASE ListSessions
    <2>1. Aside
      BY <1>4 DEF ListSessions, Aside
    <2> QED BY <1>same, <2>1, AsideKeeps
  <1>5. CASE Crash
    BY <1>5, CrashStep DEF Log!Next
  <1>6. CASE UNCHANGED vars
    <2>1. Aside
      BY <1>6 DEF vars, Aside
    <2> QED BY <1>same, <2>1, AsideKeeps
  <1> QED BY <1>1, <1>2, <1>3, <1>4, <1>5, <1>6, <1>yml, <1>meta DEF Next

\* The store implements the log whose calls each take effect at one instant: no
\* call works on what it read before another one wrote (ioMu is held from the read
\* to the write), and neither a crash nor a failed write takes anything of a file
\* that nobody was filling.
THEOREM Refines == Spec => ImplementsLog
  <1>1. Spec => []Fresh
    BY InitIInv, NextIInv, InitLog, NextLog, PTL DEF Spec
  <1> QED BY <1>1, Inductive, InitLog, NextLog, PTL DEF Spec, ImplementsLog, Log!Spec
=============================================================================
