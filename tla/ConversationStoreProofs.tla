----------------------- MODULE ConversationStoreProofs -----------------------
(***************************************************************************)
(* What holds of one conversation and its memories for any handlers,       *)
(* memories, titles, contexts and texts, and any LIMIT of list_memories.   *)
(*                                                                         *)
(* StoreInv is inductive: besides the types, the scopes of the memories    *)
(* and the title the user chose, it says what each handler has read, and   *)
(* that a row whose revision is the one a handler read has the text it     *)
(* read.  UpToDate adds that a handler no transaction has overtaken has    *)
(* read what the tables hold.                                              *)
(***************************************************************************)
EXTENDS MCConversationStore, FiniteSetTheorems, TLAPS

-----------------------------------------------------------------------------
(* Conversations and memories: the invariant.                              *)

\* The conversation that a memory of the scope "chat" belongs to exists.
ScopesFit == \A m \in Mem : mem[m].live /\ mem[m].scope = "chat" => conv.live

\* No row is newer than the last transaction.
RowsDated == \A m \in Mem : mem[m].rev <= rev

\* Once a user has chosen a title, the conversation has the last one chosen.
TitleKept == userTitle # "New chat" => conv.title = userTitle

\* The rows that a handler has read.
RowsRead(j) == \A m \in DOMAIN j.rows : m \in Mem /\ j.rows[m] \in Memory /\ j.rows[m].rev <= rev

\* A row that has the revision at which it was read has the text that was read.
TextsRead(j) ==
  \A m \in DOMAIN j.rows :
    mem[m].live /\ mem[m].rev = j.rows[m].rev => mem[m].text = j.rows[m].text

\* What a handler is about to write.
JobFits(j) ==
  /\ j.op \in {"rename", "naming"} => j.title \in Title
  /\ j.op \in {"rename", "naming", "context"} => j.ctx \in Context
  /\ j.op = "memory" => /\ j.id \in Mem /\ j.scope \in {"chat", "cross"}
                        /\ j.text \in Text /\ j.pinned \in BOOLEAN
  /\ j.op \in {"delete", "condense"} => RowsRead(j)
  /\ j.op = "condense" => DOMAIN j.rows # {} /\ TextsRead(j)

JobsFit == job = [h \in Handler |-> job[h]] /\ \A h \in Handler : JobFits(job[h])

StoreInv == TypeOK /\ ScopesFit /\ RowsDated /\ TitleKept /\ JobsFit

-----------------------------------------------------------------------------
(* Conversations and memories: what the rows are.                          *)

Seen == [conv : Conversation, mem : [Mem -> Memory]]
Scope == {"chat", "cross"}
Content == Text \cup {"merged"}

\* A conversation that gets a title.
LEMMA ConversationColumns ==
  ASSUME NEW c \in Conversation, NEW t \in Title
  PROVE  /\ [c EXCEPT !.title = t] \in Conversation
         /\ [c EXCEPT !.title = t].live = c.live /\ [c EXCEPT !.title = t].title = t
  BY DEF Conversation

\* A conversation that is deleted.
LEMMA GoneColumns ==
  ASSUME NEW c \in Conversation
  PROVE  /\ [c EXCEPT !.live = FALSE] \in Conversation
         /\ ~[c EXCEPT !.live = FALSE].live /\ [c EXCEPT !.live = FALSE].title = c.title
  BY DEF Conversation

\* The columns of a memory.
LEMMA MemoryColumns ==
  ASSUME NEW r \in Memory
  PROVE  r.live \in BOOLEAN /\ r.rev \in Nat /\ r.scope \in {"chat", "cross"}
  BY DEF Memory

\* A memory that is promoted to cross-chat scope.
Promoted(r, n) == [r EXCEPT !.scope = "cross", !.rev = n]

\* Its columns: a promotion changes only the scope and the revision.
LEMMA PromotedColumns ==
  ASSUME NEW r \in Memory, NEW n \in Nat
  PROVE  /\ Promoted(r, n) \in Memory /\ Promoted(r, n).live = r.live
         /\ Promoted(r, n).text = r.text /\ Promoted(r, n).rev = n
<1>1. Promoted(r, n) \in Memory /\ Promoted(r, n).live = r.live
  BY Zenon DEF Memory, Promoted
<1>2. Promoted(r, n).text = r.text /\ Promoted(r, n).rev = n
  BY DEF Memory, Promoted
<1> QED
  BY Zenon, <1>1, <1>2

\* A row that is written, and one that stands for nothing.
LEMMA NewRows ==
  ASSUME NEW s \in Scope, NEW t \in Content, NEW p \in BOOLEAN, NEW n \in Nat
  PROVE  /\ Row(s, t, p, n) \in Memory /\ Row(s, t, p, n).live
         /\ Row(s, t, p, n).scope = s /\ Row(s, t, p, n).rev = n
  BY DEF Memory, Row, Scope, Content

\* The absent row is typed like any other.
LEMMA NoRowIsRow == NoRow \in Memory /\ ~NoRow.live /\ NoRow.rev = 0
  BY DEF Memory, NoRow

\* What the deltas give stays typed.
LEMMA SeenColumns ==
  ASSUME NEW s \in Seen, NEW t \in Title, NEW x \in Context
  PROVE  [s EXCEPT !.conv.title = t, !.conv.ctx = x] \in Seen
  BY DEF Seen, Conversation

\* The same for the rows of memories.
LEMMA SeenRows ==
  ASSUME NEW s \in Seen, NEW f \in [Mem -> Memory], NEW m \in Mem, NEW r \in Memory
  PROVE  /\ [s EXCEPT !.mem[m] = r] \in Seen
         /\ [s EXCEPT !.mem = f] \in Seen
         /\ [conv |-> [s.conv EXCEPT !.live = FALSE], mem |-> f] \in Seen
<1>1. [s EXCEPT !.mem[m] = r] \in Seen
  BY DEF Seen
<1>2. [s EXCEPT !.mem = f] \in Seen
  BY DEF Seen
<1>3. [conv |-> [s.conv EXCEPT !.live = FALSE], mem |-> f] \in Seen
  <2>1. s.conv \in Conversation
    BY DEF Seen
  <2>2. [s.conv EXCEPT !.live = FALSE] \in Conversation
    BY Zenon, <2>1, GoneColumns
  <2> QED
    BY <2>2 DEF Seen
<1> QED
  BY Zenon, <1>1, <1>2, <1>3

-----------------------------------------------------------------------------
(* Conversations and memories: the kinds of steps.                         *)

\* The invariant holds initially.
LEMMA StoreInit ==
  ASSUME Init
  PROVE  StoreInv
<1>1. conv \in Conversation /\ conv.live
  <2>1. PICK x \in Context : conv = [live |-> TRUE, title |-> "New chat", ctx |-> x]
    BY Zenon DEF Init
  <2> QED
    BY <2>1 DEF Conversation
<1>2. mem \in [Mem -> Memory] /\ \A m \in Mem : mem[m].rev = 0
  <2>1. Row("chat", "merged", FALSE, 0) \in Memory /\ Row("chat", "merged", FALSE, 0).rev = 0
    BY DEF Row, Memory
  <2> QED
    BY Zenon, <2>1, NoRowIsRow DEF Init
<1>3. seen \in Seen
  <2>1. seen = [conv |-> conv, mem |-> mem]
    BY Zenon DEF Init
  <2> QED
    BY <1>1, <1>2, <2>1 DEF Seen
<1>4. job = [h \in Handler |-> job[h]] /\ \A h \in Handler : job[h].op = "idle"
  BY DEF Init, Idle
<1>5. TypeOK
  <2>1. rev \in Nat
    BY DEF Init
  <2>2. /\ blocked \in BOOLEAN /\ userTitle \in Title \cup {"New chat"}
    BY Zenon DEF Init
  <2>3. \A h \in Handler : job[h].op \in {"idle", "rename", "context", "naming",
                                          "delete", "memory", "condense"}
    BY <1>4
  <2> QED
    BY Zenon, <1>1, <1>2, <1>3, <2>1, <2>2, <2>3 DEF TypeOK, Seen
<1>6. JobsFit
  <2>1. \A h \in Handler : JobFits(job[h])
    BY <1>4 DEF JobFits
  <2> QED
    BY Zenon, <1>4, <2>1 DEF JobsFit
<1>7. ScopesFit /\ TitleKept
  BY Zenon, <1>1 DEF Init, ScopesFit, TitleKept
<1>8. RowsDated
  <2>1. rev = 0
    BY Zenon DEF Init
  <2> QED
    BY <1>2, <2>1 DEF RowsDated
<1> QED
  BY Zenon, <1>5, <1>6, <1>7, <1>8 DEF StoreInv

\* Where a job fits, it fits after a step that adds no revision to rows that
\* were read.
LEMMA JobStaysFit ==
  ASSUME NEW j, JobFits(j), rev \in Nat, rev' \in Nat, rev <= rev',
         \A m \in Mem : \/ mem'[m] = mem[m] \/ ~mem'[m].live
                        \/ mem'[m].rev = rev' /\ rev < rev'
  PROVE  JobFits(j)'
<1>1. ASSUME RowsRead(j)
      PROVE  RowsRead(j)'
  <2> SUFFICES ASSUME NEW m \in DOMAIN j.rows
               PROVE  m \in Mem /\ j.rows[m] \in Memory /\ j.rows[m].rev <= rev'
    BY Zenon DEF RowsRead
  <2>1. m \in Mem /\ j.rows[m] \in Memory /\ j.rows[m].rev <= rev
    BY Zenon, <1>1 DEF RowsRead
  <2>2. j.rows[m].rev \in Nat
    BY Zenon, <2>1, MemoryColumns
  <2>3. j.rows[m].rev <= rev'
    BY <2>1, <2>2
  <2> QED
    BY Zenon, <2>1, <2>3
<1>2. ASSUME RowsRead(j), TextsRead(j)
      PROVE  TextsRead(j)'
  <2> SUFFICES ASSUME NEW m \in DOMAIN j.rows, mem'[m].live, mem'[m].rev = j.rows[m].rev
               PROVE  mem'[m].text = j.rows[m].text
    BY Zenon DEF TextsRead
  <2>1. m \in Mem /\ j.rows[m] \in Memory /\ j.rows[m].rev <= rev
    BY Zenon, <1>2 DEF RowsRead
  <2>2. j.rows[m].rev \in Nat
    BY Zenon, <2>1, MemoryColumns
  <2>3. ~(mem'[m].rev = rev' /\ rev < rev')
    BY <2>1, <2>2
  <2>4. mem'[m] = mem[m]
    BY Zenon, <2>1, <2>3
  <2> QED
    BY Zenon, <1>2, <2>4 DEF TextsRead
<1> QED
  BY Zenon, <1>1, <1>2 DEF JobFits

\* An idle handler has nothing to write.
LEMMA IdleFits == JobFits(Idle) /\ JobFits(Idle)' /\ Idle.op = "idle"
  BY DEF JobFits, Idle

\* What a handler may be about to do.
Ops == {"idle", "rename", "context", "naming", "delete", "memory", "condense"}

\* The jobs of the other handlers stay.
LEMMA JobsStayFit ==
  ASSUME StoreInv, rev' \in Nat, rev <= rev',
         \A m \in Mem : \/ mem'[m] = mem[m] \/ ~mem'[m].live
                        \/ mem'[m].rev = rev' /\ rev < rev',
         NEW h \in Handler, NEW j, job' = [job EXCEPT ![h] = j], JobFits(j)', j.op \in Ops
  PROVE  JobsFit' /\ \A g \in Handler : job'[g].op \in Ops
<1>1. rev \in Nat /\ \A g \in Handler : job[g].op \in Ops
  BY Zenon DEF StoreInv, TypeOK, Ops
<1>2. /\ job' = [g \in Handler |-> job'[g]] /\ job'[h] = j
      /\ \A g \in Handler : g # h => job'[g] = job[g]
  BY Zenon DEF StoreInv, JobsFit
<1>3. \A g \in Handler : JobFits(job[g])'
  <2> SUFFICES ASSUME NEW g \in Handler
               PROVE  JobFits(job[g])'
    BY Zenon
  <2>1. CASE g = h
    BY Zenon, <1>2, <2>1 DEF JobFits, RowsRead, TextsRead
  <2>2. CASE g # h
    <3>1. PICK k : k = job[g]
      BY Zenon
    <3>2. JobFits(k)
      BY Zenon, <3>1 DEF StoreInv, JobsFit
    <3>3. JobFits(k)'
      BY Zenon, <1>1, <3>2, JobStaysFit
    <3>4. job'[g] = k
      BY Zenon, <1>2, <2>2, <3>1
    <3> QED
      BY Zenon, <3>3, <3>4 DEF JobFits, RowsRead, TextsRead
  <2> QED
    BY Zenon, <2>1, <2>2
<1> QED
  BY Zenon, <1>1, <1>2, <1>3 DEF JobsFit

\* A step that writes nothing: a handler reads, or gives up.
LEMMA ReadKeeps ==
  ASSUME StoreInv, UNCHANGED <<conv, mem, rev, seen, userTitle>>, blocked' \in BOOLEAN,
         NEW h \in Handler, NEW j, job' = [job EXCEPT ![h] = j], JobFits(j)', j.op \in Ops
  PROVE  StoreInv'
<1>1. rev \in Nat
  BY Zenon DEF StoreInv, TypeOK
<1>2. rev' \in Nat /\ rev <= rev'
  BY <1>1
<1>3. JobsFit' /\ \A g \in Handler : job'[g].op \in Ops
  BY Zenon, <1>2, JobsStayFit
<1>4. TypeOK'
  BY Zenon, <1>3 DEF StoreInv, TypeOK, Ops
<1>5. ScopesFit' /\ RowsDated' /\ TitleKept'
  BY Zenon DEF StoreInv, ScopesFit, RowsDated, TitleKept
<1> QED
  BY Zenon, <1>3, <1>4, <1>5 DEF StoreInv

\* The next revision.
LEMMA NextRevision ==
  ASSUME NEW a \in Nat, NEW b, b = a + 1
  PROVE  b \in Nat /\ a < b /\ a <= b /\ 0 <= b /\ b <= b /\ \A n \in Nat : n <= a => n <= b
  OBVIOUS

\* A transaction: every row it writes has the new revision or is deleted.
LEMMA WriteKeeps ==
  ASSUME StoreInv, rev' = rev + 1, conv' \in Conversation, mem' \in [Mem -> Memory],
         seen' \in Seen, userTitle' \in Title \cup {"New chat"}, blocked' = blocked,
         \A m \in Mem : \/ mem'[m] = mem[m] \/ mem'[m] = NoRow
                        \/ mem'[m].rev = rev + 1,
         ScopesFit', TitleKept', NEW h \in Handler,
         job' = [job EXCEPT ![h] = Idle] \/ (job' = job /\ job[h] = Idle)
  PROVE  StoreInv'
<1>1. rev \in Nat /\ mem \in [Mem -> Memory] /\ RowsDated
  BY Zenon DEF StoreInv, TypeOK
<1>2. /\ rev' \in Nat /\ rev < rev' /\ rev <= rev' /\ 0 <= rev' /\ rev' <= rev'
      /\ \A n \in Nat : n <= rev => n <= rev'
  BY Zenon, <1>1, NextRevision
<1>3. \A m \in Mem : \/ mem'[m] = mem[m] \/ ~mem'[m].live
                     \/ mem'[m].rev = rev' /\ rev < rev'
  BY Zenon, <1>2, NoRowIsRow
<1>4. job' = [job EXCEPT ![h] = Idle]
  BY Zenon DEF StoreInv, JobsFit
<1>5. Idle.op \in Ops /\ JobFits(Idle)'
  BY Zenon, IdleFits DEF Ops
<1>6. JobsFit' /\ \A g \in Handler : job'[g].op \in Ops
  BY Zenon, <1>2, <1>3, <1>4, <1>5, JobsStayFit
<1>7. RowsDated'
  <2> SUFFICES ASSUME NEW m \in Mem
               PROVE  mem'[m].rev <= rev'
    BY Zenon DEF RowsDated
  <2>1. mem[m].rev \in Nat /\ mem[m].rev <= rev
    BY Zenon, <1>1, MemoryColumns DEF RowsDated
  <2>2. mem[m].rev <= rev'
    BY Zenon, <1>2, <2>1
  <2>3. mem'[m] = mem[m] \/ mem'[m] = NoRow \/ mem'[m].rev = rev'
    BY Zenon
  <2> QED
    BY Zenon, <1>2, <2>2, <2>3, NoRowIsRow
<1>8. TypeOK'
  <2>1. blocked' \in BOOLEAN
    BY Zenon DEF StoreInv, TypeOK
  <2> QED
    BY Zenon, <1>2, <1>6, <2>1 DEF TypeOK, Ops, Seen
<1> QED
  BY Zenon, <1>6, <1>7, <1>8 DEF StoreInv

-----------------------------------------------------------------------------
(* Conversations and memories: every step keeps the invariant.             *)

\* A handler that has read nothing but what fits.
LEMMA StartKeeps ==
  ASSUME StoreInv, NEW h \in Handler, NEW j, Start(h, j), JobFits(j)', j.op \in Ops
  PROVE  StoreInv'
<1>1. /\ job' = [job EXCEPT ![h] = j] /\ UNCHANGED <<conv, mem, rev, seen, userTitle>>
      /\ blocked' = blocked
  BY Zenon DEF Start
<1>2. blocked' \in BOOLEAN
  BY Zenon, <1>1 DEF StoreInv, TypeOK
<1> QED
  BY Zenon, <1>1, <1>2, ReadKeeps

\* The rows that a deletion or a condensation reads are those of the table.
LEMMA RowsFit ==
  ASSUME StoreInv, UNCHANGED <<mem, rev>>, NEW S \in SUBSET Mem, NEW f,
         f = [m \in S |-> mem[m]], NEW o \in {"delete", "condense"}, o = "condense" => S # {}
  PROVE  JobFits([op |-> o, rows |-> f])'
<1> DEFINE j == [op |-> o, rows |-> f]
<1>1. j.op = o /\ j.rows = f
  OBVIOUS
<1>2. o \notin {"rename", "naming", "context", "memory"}
  OBVIOUS
<1> HIDE DEF j
<1>3. DOMAIN f = S /\ \A m \in S : f[m] = mem[m]
  BY Zenon
<1>4. mem \in [Mem -> Memory] /\ \A m \in Mem : mem[m].rev <= rev
  BY Zenon DEF StoreInv, TypeOK, RowsDated
<1>5. RowsRead(j)'
  BY Zenon, <1>1, <1>3, <1>4 DEF RowsRead
<1>6. TextsRead(j)'
  BY ZenonT(30), <1>1, <1>3 DEF TextsRead
<1>7. JobFits(j)'
  BY Zenon, <1>1, <1>2, <1>3, <1>5, <1>6 DEF JobFits
<1> QED
  BY Zenon, <1>7 DEF j

\* Every handler that reads.
LEMMA ReadsKeep ==
  ASSUME StoreInv, NEW h \in Handler,
         \/ \E t \in Title : ReadRename(h, t) \/ ReadNaming(h, t)
         \/ \E x \in Context : ReadContext(h, x)
         \/ ReadDeletion(h)
         \/ \E m \in Mem, s \in {"chat", "cross"}, t \in Text, p \in BOOLEAN :
              ReadMemory(h, m, s, t, p)
         \/ \E group \in SUBSET Mem : ReadCondense(h, group)
  PROVE  StoreInv'
<1>1. ASSUME NEW t \in Title, ReadRename(h, t) \/ ReadNaming(h, t)
      PROVE  StoreInv'
  <2>1. PICK x \in Context : x = conv.ctx
    <3>1. conv \in Conversation
      BY Zenon DEF StoreInv, TypeOK
    <3>2. conv.ctx \in Context
      BY <3>1 DEF Conversation
    <3> QED
      BY Zenon, <3>2
  <2>2. PICK o \in {"rename", "naming"} : Start(h, [op |-> o, title |-> t, ctx |-> x])
    BY Zenon, <1>1, <2>1 DEF ReadRename, ReadNaming
  <2>3. JobFits([op |-> o, title |-> t, ctx |-> x])' /\ [op |-> o, title |-> t, ctx |-> x].op \in Ops
    BY DEF JobFits, Ops
  <2> QED
    BY Zenon, <2>2, <2>3, StartKeeps
<1>2. ASSUME NEW x \in Context, ReadContext(h, x)
      PROVE  StoreInv'
  <2>1. Start(h, [op |-> "context", ctx |-> x])
    BY Zenon, <1>2 DEF ReadContext
  <2>2. JobFits([op |-> "context", ctx |-> x])' /\ [op |-> "context", ctx |-> x].op \in Ops
    BY DEF JobFits, Ops
  <2> QED
    BY Zenon, <2>1, <2>2, StartKeeps
<1>3. ASSUME NEW m \in Mem, NEW s \in {"chat", "cross"}, NEW t \in Text, NEW p \in BOOLEAN,
             ReadMemory(h, m, s, t, p)
      PROVE  StoreInv'
  <2> DEFINE j == [op |-> "memory", id |-> m, scope |-> s, text |-> t, pinned |-> p]
  <2>1. Start(h, j)
    BY Zenon, <1>3 DEF ReadMemory
  <2>2. JobFits(j)' /\ j.op \in Ops
    BY DEF JobFits, Ops
  <2> HIDE DEF j
  <2> QED
    BY Zenon, <2>1, <2>2, StartKeeps DEF j
<1>4. ASSUME NEW S \in SUBSET Mem, NEW o \in {"delete", "condense"}, o = "condense" => S # {},
             Start(h, [op |-> o, rows |-> [m \in S |-> mem[m]]])
      PROVE  StoreInv'
  <2>1. PICK f : f = [m \in S |-> mem[m]]
    BY Zenon
  <2>2. Start(h, [op |-> o, rows |-> f]) /\ UNCHANGED <<mem, rev>>
    BY Zenon, <1>4, <2>1 DEF Start
  <2>3. JobFits([op |-> o, rows |-> f])'
    BY Zenon, <1>4, <2>1, <2>2, RowsFit
  <2>4. [op |-> o, rows |-> f].op \in Ops
    BY DEF Ops
  <2> QED
    BY Zenon, <2>2, <2>3, <2>4, StartKeeps
<1>5. CASE ReadDeletion(h)
  <2>1. PICK S \in SUBSET Mem : S = Listed
    BY Zenon DEF Listed, Live
  <2>2. Start(h, [op |-> "delete", rows |-> [m \in S |-> mem[m]]])
    BY Zenon, <1>5, <2>1 DEF ReadDeletion
  <2>3. "delete" # "condense"
    OBVIOUS
  <2> QED
    BY Zenon, <1>4, <2>2, <2>3
<1>6. ASSUME NEW group \in SUBSET Mem, ReadCondense(h, group)
      PROVE  StoreInv'
  <2>1. group # {} /\ Start(h, [op |-> "condense", rows |-> [m \in group |-> mem[m]]])
    BY Zenon, <1>6 DEF ReadCondense
  <2> QED
    BY Zenon, <1>4, <2>1
<1> QED
  BY Zenon, <1>1, <1>2, <1>3, <1>5, <1>6

\* A transaction that fails, whatever it was.
LEMMA AbortKeeps ==
  ASSUME StoreInv, NEW h \in Handler, Abort(h), blocked' \in BOOLEAN
  PROVE  StoreInv'
<1>1. job' = [job EXCEPT ![h] = Idle] /\ UNCHANGED <<conv, mem, rev, seen, userTitle>>
  BY Zenon DEF Abort, Finish
<1>2. Idle.op \in Ops /\ JobFits(Idle)'
  BY Zenon, IdleFits DEF Ops
<1> QED
  BY Zenon, <1>1, <1>2, ReadKeeps

\* UpdateConversation and maybe_name_new_chat write a title, of the user in
\* the first case, and in the second while no user has chosen one.
LEMMA TitleKeeps ==
  ASSUME StoreInv, NEW h \in Handler, job[h].op \in {"rename", "naming"}, conv.live,
         rev' = rev + 1, conv' = [conv EXCEPT !.title = job[h].title],
         seen' = [seen EXCEPT !.conv.title = job[h].title, !.conv.ctx = job[h].ctx],
         userTitle' = job[h].title \/ (userTitle' = userTitle /\ conv.title = "New chat"),
         Finish(h), UNCHANGED <<mem, blocked>>
  PROVE  StoreInv'
<1>1. JobFits(job[h]) /\ conv \in Conversation /\ seen \in Seen /\ mem \in [Mem -> Memory]
        /\ userTitle \in Title \cup {"New chat"}
  BY Zenon DEF StoreInv, TypeOK, JobsFit, Seen
<1>2. PICK t \in Title, x \in Context : t = job[h].title /\ x = job[h].ctx
  BY <1>1 DEF JobFits
<1>3. /\ conv' = [conv EXCEPT !.title = t]
      /\ seen' = [seen EXCEPT !.conv.title = t, !.conv.ctx = x]
      /\ userTitle' = t \/ (userTitle' = userTitle /\ conv.title = "New chat")
  BY Zenon, <1>2
<1>4. conv' \in Conversation /\ conv'.live = conv.live /\ conv'.title = t
  <2>1. /\ [conv EXCEPT !.title = t] \in Conversation
        /\ [conv EXCEPT !.title = t].live = conv.live /\ [conv EXCEPT !.title = t].title = t
    BY Zenon, <1>1, ConversationColumns
  <2> QED
    BY Zenon, <1>3, <2>1
<1>5. seen' \in Seen
  <2>1. [seen EXCEPT !.conv.title = t, !.conv.ctx = x] \in Seen
    BY Zenon, <1>1, SeenColumns
  <2> QED
    BY Zenon, <1>3, <2>1
<1>6. mem' \in [Mem -> Memory] /\ userTitle' \in Title \cup {"New chat"}
  BY Zenon, <1>1, <1>2, <1>3
<1>7. ScopesFit'
  BY Zenon, <1>4 DEF StoreInv, ScopesFit
<1>8. TitleKept'
  BY Zenon, <1>3, <1>4 DEF StoreInv, TitleKept
<1>9. job' = [job EXCEPT ![h] = Idle]
  BY Zenon DEF Finish
<1> QED
  BY Zenon, <1>4, <1>5, <1>6, <1>7, <1>8, <1>9, WriteKeeps

\* UpdateConversation.
LEMMA RenameKeeps ==
  ASSUME StoreInv, NEW h \in Handler, CommitRename(h)
  PROVE  StoreInv'
<1>1. CASE ~conv.live
  <2>1. Abort(h) /\ blocked' = blocked
    BY Zenon, <1>1 DEF CommitRename
  <2>2. blocked' \in BOOLEAN
    BY Zenon, <2>1 DEF StoreInv, TypeOK
  <2> QED
    BY Zenon, <2>1, <2>2, AbortKeeps
<1>2. CASE conv.live
  BY Zenon, <1>2, TitleKeeps DEF CommitRename
<1> QED
  BY Zenon, <1>1, <1>2

\* maybe_name_new_chat.
LEMMA NamingKeeps ==
  ASSUME StoreInv, NEW h \in Handler, CommitNaming(h)
  PROVE  StoreInv'
<1>1. CASE ~conv.live \/ conv.title # "New chat"
  <2>1. Abort(h) /\ blocked' = blocked
    BY Zenon, <1>1 DEF CommitNaming
  <2>2. blocked' \in BOOLEAN
    BY Zenon, <2>1 DEF StoreInv, TypeOK
  <2> QED
    BY Zenon, <2>1, <2>2, AbortKeeps
<1>2. CASE conv.live /\ conv.title = "New chat"
  BY Zenon, <1>2, TitleKeeps DEF CommitNaming
<1> QED
  BY Zenon, <1>1, <1>2

\* UpdateConversationState.
LEMMA ContextKeeps ==
  ASSUME StoreInv, NEW h \in Handler, CommitContext(h)
  PROVE  StoreInv'
<1>1. JobFits(job[h]) /\ conv \in Conversation /\ seen \in Seen /\ mem \in [Mem -> Memory]
        /\ userTitle \in Title \cup {"New chat"}
  BY Zenon DEF StoreInv, TypeOK, JobsFit, Seen
<1>2. job[h].op = "context"
  BY Zenon DEF CommitContext
<1>3. PICK x \in Context : x = job[h].ctx
  BY <1>1, <1>2 DEF JobFits
<1>4. conv' \in Conversation /\ conv'.live = conv.live /\ conv'.title = conv.title
  <2>1. conv' = conv \/ conv' = [conv EXCEPT !.ctx = x]
    BY Zenon, <1>3 DEF CommitContext
  <2>2. /\ [conv EXCEPT !.ctx = x] \in Conversation /\ [conv EXCEPT !.ctx = x].live = conv.live
        /\ [conv EXCEPT !.ctx = x].title = conv.title
    BY <1>1 DEF Conversation
  <2> QED
    BY Zenon, <1>1, <2>1, <2>2
<1>5. seen' \in Seen
  <2>1. seen' = seen \/ seen' = [seen EXCEPT !.conv.ctx = x]
    BY Zenon, <1>3 DEF CommitContext
  <2>2. [seen EXCEPT !.conv.ctx = x] \in Seen
    BY <1>1 DEF Seen, Conversation
  <2> QED
    BY Zenon, <1>1, <2>1, <2>2
<1>6. /\ rev' = rev + 1 /\ UNCHANGED <<mem, blocked, userTitle>>
      /\ job' = [job EXCEPT ![h] = Idle]
  BY Zenon DEF CommitContext, Finish
<1>7. ScopesFit' /\ TitleKept'
  BY Zenon, <1>4, <1>6 DEF StoreInv, ScopesFit, TitleKept
<1>8. mem' \in [Mem -> Memory] /\ userTitle' \in Title \cup {"New chat"} /\ mem' = mem
  BY Zenon, <1>1, <1>6
<1> QED
  BY Zenon, <1>4, <1>5, <1>6, <1>7, <1>8, WriteKeeps

\* The promotion of listed memories: every row is the one it was, or has the
\* new revision; none is lost, and none changes its text.
LEMMA PromotionWrites ==
  ASSUME StoreInv, NEW rows
  PROVE  /\ PromotedRows(rows) \in [Mem -> Memory]
         /\ \A m \in Mem : /\ \/ PromotedRows(rows)[m] = mem[m]
                              \/ PromotedRows(rows)[m].rev = rev + 1
                           /\ PromotedRows(rows)[m].live = mem[m].live
                           /\ PromotedRows(rows)[m].text = mem[m].text
<1>1. mem \in [Mem -> Memory] /\ rev \in Nat
  BY Zenon DEF StoreInv, TypeOK
<1>2. rev + 1 \in Nat
  BY <1>1
<1>3. PromotedRows(rows) = [m \in Mem |-> IF m \in DOMAIN rows /\ mem[m].live
                                         THEN Promoted(mem[m], rev + 1) ELSE mem[m]]
  BY Zenon DEF PromotedRows, Promoted
<1>4. \A m \in Mem : /\ mem[m] \in Memory /\ Promoted(mem[m], rev + 1) \in Memory
                     /\ Promoted(mem[m], rev + 1).live = mem[m].live
                     /\ Promoted(mem[m], rev + 1).text = mem[m].text
                     /\ Promoted(mem[m], rev + 1).rev = rev + 1
  BY Zenon, <1>1, <1>2, PromotedColumns
<1> QED
  BY Zenon, <1>3, <1>4

\* The deltas of a promotion.
LEMMA PromotionDeltas ==
  ASSUME StoreInv, NEW rows, \A m \in DOMAIN rows : rows[m] \in Memory
  PROVE  PromotedDeltas(rows) \in [Mem -> Memory]
<1>1. seen.mem \in [Mem -> Memory]
  <2>1. seen \in Seen
    BY Zenon DEF StoreInv, TypeOK, Seen
  <2> QED
    BY <2>1 DEF Seen
<1>2. rev + 1 \in Nat
  <2>1. rev \in Nat
    BY Zenon DEF StoreInv, TypeOK
  <2> QED
    BY <2>1
<1>3. PromotedDeltas(rows) = [m \in Mem |-> IF m \in DOMAIN rows
                                           THEN Promoted(rows[m], rev + 1) ELSE seen.mem[m]]
  BY Zenon DEF PromotedDeltas, Promoted
<1>4. \A m \in DOMAIN rows : Promoted(rows[m], rev + 1) \in Memory
  BY Zenon, <1>2, PromotedColumns
<1> QED
  BY Zenon, <1>1, <1>3, <1>4

\* DeleteEntity for a conversation.
LEMMA DeletionKeeps ==
  ASSUME StoreInv, NEW h \in Handler, CommitDeletion(h)
  PROVE  StoreInv'
<1> DEFINE gone == [conv EXCEPT !.live = FALSE]
           kept == PromotedRows(job[h].rows)
<1>1. CASE ~conv.live \/ ~ForeignKeys(gone, kept)
  <2>1. Abort(h) /\ blocked' = (blocked \/ conv.live)
    BY Zenon, <1>1 DEF CommitDeletion
  <2>2. blocked' \in BOOLEAN
    BY Zenon, <2>1
  <2> QED
    BY Zenon, <2>1, <2>2, AbortKeeps
<1>2. CASE ~(~conv.live \/ ~ForeignKeys(gone, kept))
  <2>1. /\ rev' = rev + 1 /\ conv' = gone /\ mem' = kept /\ UNCHANGED <<blocked, userTitle>>
        /\ seen' = [conv |-> [seen.conv EXCEPT !.live = FALSE],
                    mem |-> PromotedDeltas(job[h].rows)]
        /\ job' = [job EXCEPT ![h] = Idle]
    BY Zenon, <1>2 DEF CommitDeletion, Finish
  <2>2. JobFits(job[h]) /\ conv \in Conversation /\ seen \in Seen
          /\ userTitle \in Title \cup {"New chat"}
    BY Zenon DEF StoreInv, TypeOK, JobsFit, Seen
  <2>3. gone \in Conversation /\ gone.title = conv.title
    BY Zenon, <2>2, GoneColumns
  <2>4. kept \in [Mem -> Memory] /\ \A m \in Mem : kept[m] = mem[m] \/ kept[m].rev = rev + 1
    BY Zenon, PromotionWrites
  <2>5. PromotedDeltas(job[h].rows) \in [Mem -> Memory]
    <3>1. job[h].op \in {"delete", "condense"}
      BY Zenon DEF CommitDeletion
    <3>2. \A m \in DOMAIN job[h].rows : job[h].rows[m] \in Memory
      BY Zenon, <2>2, <3>1 DEF JobFits, RowsRead
    <3> QED
      BY Zenon, <3>2, PromotionDeltas
  <2>6. ScopesFit'
    BY Zenon, <1>2, <2>1 DEF ForeignKeys, ScopesFit
  <2> HIDE DEF gone, kept
  <2>7. seen' \in Seen
    <3>1. seen.conv \in Conversation
      BY <2>2 DEF Seen
    <3>2. [seen.conv EXCEPT !.live = FALSE] \in Conversation
      BY Zenon, <3>1, GoneColumns
    <3> DEFINE c == [seen.conv EXCEPT !.live = FALSE]
               f == PromotedDeltas(job[h].rows)
    <3>3. seen' = [conv |-> c, mem |-> f]
      BY Zenon, <2>1
    <3>4. c \in Conversation /\ f \in [Mem -> Memory]
      BY Zenon, <2>5, <3>2
    <3> HIDE DEF c, f
    <3> QED
      BY <3>3, <3>4 DEF Seen
  <2>8. TitleKept'
    BY Zenon, <2>1, <2>3 DEF StoreInv, TitleKept
  <2>9. /\ conv' \in Conversation /\ mem' \in [Mem -> Memory]
        /\ userTitle' \in Title \cup {"New chat"}
        /\ \A m \in Mem : \/ mem'[m] = mem[m] \/ mem'[m] = NoRow \/ mem'[m].rev = rev + 1
    BY Zenon, <2>1, <2>2, <2>3, <2>4
  <2> QED
    BY Zenon, <2>1, <2>6, <2>7, <2>8, <2>9, WriteKeeps
<1> QED
  BY Zenon, <1>1, <1>2

\* A transaction that writes memories only.
LEMMA MemoriesWritten ==
  ASSUME StoreInv, NEW h \in Handler, NEW ms \in [Mem -> Memory], NEW t \in Seen,
         \A m \in Mem : ms[m] = mem[m] \/ ms[m] = NoRow \/ ms[m].rev = rev + 1,
         ForeignKeys(conv, ms), rev' = rev + 1, mem' = ms, seen' = t,
         job' = [job EXCEPT ![h] = Idle] \/ (job' = job /\ job[h] = Idle),
         UNCHANGED <<conv, blocked, userTitle>>
  PROVE  StoreInv'
<1>1. conv' \in Conversation /\ userTitle' \in Title \cup {"New chat"}
  BY Zenon DEF StoreInv, TypeOK
<1>2. ScopesFit'
  BY Zenon DEF ForeignKeys, ScopesFit
<1>3. TitleKept'
  BY Zenon DEF StoreInv, TitleKept
<1>4. mem' \in [Mem -> Memory] /\ seen' \in Seen
  BY Zenon
<1>5. \A m \in Mem : mem'[m] = mem[m] \/ mem'[m] = NoRow \/ mem'[m].rev = rev + 1
  BY Zenon
<1>6. rev' = rev + 1 /\ blocked' = blocked
  BY Zenon
<1> QED
  BY Zenon, <1>1, <1>2, <1>3, <1>4, <1>5, <1>6, WriteKeeps

\* persist_memory.
LEMMA MemoryKeeps ==
  ASSUME StoreInv, NEW h \in Handler, CommitMemory(h)
  PROVE  StoreInv'
<1>1. /\ JobFits(job[h]) /\ seen \in Seen /\ mem \in [Mem -> Memory] /\ rev \in Nat
      /\ job[h].op = "memory"
  BY Zenon DEF StoreInv, TypeOK, JobsFit, Seen, CommitMemory
<1>2. PICK m \in Mem, s \in Scope, t \in Content, p \in BOOLEAN :
        m = job[h].id /\ s = job[h].scope /\ t = job[h].text /\ p = job[h].pinned
  BY Zenon, <1>1 DEF JobFits, Scope, Content
<1> DEFINE row == Row(s, t, p, rev + 1)
           stored == [mem EXCEPT ![m] = row]
<1>3. CASE ~ForeignKeys(conv, stored)
  <2>1. Abort(h) /\ blocked' = blocked
    BY Zenon, <1>2, <1>3 DEF CommitMemory
  <2>2. blocked' \in BOOLEAN
    BY Zenon, <2>1 DEF StoreInv, TypeOK
  <2> QED
    BY Zenon, <2>1, <2>2, AbortKeeps
<1>4. CASE ForeignKeys(conv, stored)
  <2>1. /\ rev' = rev + 1 /\ mem' = stored /\ seen' = [seen EXCEPT !.mem[m] = row]
        /\ job' = [job EXCEPT ![h] = Idle] /\ UNCHANGED <<conv, blocked, userTitle>>
    BY Zenon, <1>2, <1>4 DEF CommitMemory, Finish
  <2>2. row \in Memory /\ row.rev = rev + 1
    <3>1. rev + 1 \in Nat
      BY Zenon, <1>1, NextRevision
    <3> QED
      BY ZenonT(30), <3>1, NewRows
  <2> HIDE DEF row
  <2>3. stored \in [Mem -> Memory] /\ \A n \in Mem : stored[n] = mem[n] \/ stored[n].rev = rev + 1
    BY Zenon, <1>1, <2>2
  <2>4. [seen EXCEPT !.mem[m] = row] \in Seen
    BY Zenon, <1>1, <2>2, SeenRows
  <2>5. ForeignKeys(conv, stored)
    BY Zenon, <1>4
  <2> HIDE DEF stored
  <2> QED
    BY Zenon, <2>1, <2>3, <2>4, <2>5, MemoriesWritten
<1> QED
  BY Zenon, <1>3, <1>4

\* DeleteEntity for a memory.
LEMMA DeleteMemoryKeeps ==
  ASSUME StoreInv, NEW h \in Handler, NEW m \in Mem, DeleteMemory(h, m)
  PROVE  StoreInv'
<1> DEFINE stored == [mem EXCEPT ![m] = NoRow]
<1>1. seen \in Seen /\ mem \in [Mem -> Memory] /\ ScopesFit
  BY Zenon DEF StoreInv, TypeOK, Seen
<1>2. /\ rev' = rev + 1 /\ mem' = stored /\ seen' = [seen EXCEPT !.mem[m] = NoRow]
      /\ job' = job /\ job[h] = Idle /\ UNCHANGED <<conv, blocked, userTitle>>
  BY Zenon DEF DeleteMemory
<1>3. stored \in [Mem -> Memory] /\ \A n \in Mem : stored[n] = mem[n] \/ stored[n] = NoRow
  BY Zenon, <1>1, NoRowIsRow
<1>4. [seen EXCEPT !.mem[m] = NoRow] \in Seen
  BY Zenon, <1>1, NoRowIsRow, SeenRows
<1> HIDE DEF stored
<1>5. ForeignKeys(conv, stored)
  BY Zenon, <1>1, <1>3, NoRowIsRow DEF ForeignKeys, ScopesFit
<1> QED
  BY Zenon, <1>2, <1>3, <1>4, <1>5, MemoriesWritten

\* condense_memories: the merged memory has the scope of the ones it replaces.
LEMMA CondenseKeeps ==
  ASSUME StoreInv, NEW h \in Handler, NEW n \in Mem, CommitCondense(h, n)
  PROVE  StoreInv'
<1> DEFINE rows == job[h].rows
           scope == rows[CHOOSE m \in DOMAIN rows : TRUE].scope
           row == Row(scope, "merged", FALSE, rev + 1)
           Merged(ms) == [m \in Mem |-> IF m = n THEN row
                                        ELSE IF m \in DOMAIN rows THEN NoRow ELSE ms[m]]
           Refused == \/ \E m \in DOMAIN rows : ~Condensable(mem[m], rows[m])
                      \/ ~ForeignKeys(conv, Merged(mem))
<1>1. /\ JobFits(job[h]) /\ seen \in Seen /\ mem \in [Mem -> Memory] /\ rev \in Nat
      /\ job[h].op = "condense"
  BY Zenon DEF StoreInv, TypeOK, JobsFit, Seen, CommitCondense
<1>2. CASE Refused
  <2>1. Abort(h) /\ blocked' = blocked
    BY Zenon, <1>2 DEF CommitCondense
  <2>2. blocked' \in BOOLEAN
    BY Zenon, <2>1 DEF StoreInv, TypeOK
  <2> QED
    BY Zenon, <2>1, <2>2, AbortKeeps
<1>3. CASE ~Refused
  <2>1. /\ rev' = rev + 1 /\ mem' = Merged(mem) /\ seen' = [seen EXCEPT !.mem = Merged(seen.mem)]
        /\ job' = [job EXCEPT ![h] = Idle] /\ UNCHANGED <<conv, blocked, userTitle>>
    BY Zenon, <1>3 DEF CommitCondense, Finish
  <2>2. ForeignKeys(conv, Merged(mem))
    BY Zenon, <1>3
  <2>3. scope \in Scope
    <3>1. PICK k : k = CHOOSE m \in DOMAIN rows : TRUE
      BY Zenon
    <3>2. DOMAIN rows # {} /\ RowsRead(job[h])
      BY Zenon, <1>1 DEF JobFits
    <3>3. rows[k] \in Memory
      BY Zenon, <3>1, <3>2 DEF RowsRead
    <3> QED
      BY Zenon, <3>1, <3>3, MemoryColumns DEF Scope
  <2>4. row \in Memory /\ row.rev = rev + 1
    <3>1. rev + 1 \in Nat
      BY Zenon, <1>1, NextRevision
    <3>2. "merged" \in Content /\ FALSE \in BOOLEAN
      BY Zenon DEF Content
    <3> HIDE DEF scope
    <3> QED
      BY ZenonT(30), <2>3, <3>1, <3>2, NewRows
  <2>5. seen.mem \in [Mem -> Memory]
    BY <1>1 DEF Seen
  <2> HIDE DEF row, rows
  <2>6. /\ Merged(mem) \in [Mem -> Memory] /\ Merged(seen.mem) \in [Mem -> Memory]
        /\ \A m \in Mem : \/ Merged(mem)[m] = mem[m] \/ Merged(mem)[m] = NoRow
                          \/ Merged(mem)[m].rev = rev + 1
    BY Zenon, <1>1, <2>4, <2>5, NoRowIsRow
  <2> HIDE DEF Merged
  <2>7. [seen EXCEPT !.mem = Merged(seen.mem)] \in Seen
    BY Zenon, <1>1, <2>6, NoRowIsRow, SeenRows
  <2> QED
    BY Zenon, <2>1, <2>2, <2>6, <2>7, MemoriesWritten
<1> QED
  BY Zenon, <1>2, <1>3

\* Every step of the handlers of conversations and memories keeps the
\* invariant.
LEMMA StoreStep ==
  ASSUME StoreInv, [Next]_vars
  PROVE  StoreInv'
<1>1. CASE UNCHANGED vars
  <2>1. UNCHANGED <<conv, mem, rev, seen, job, blocked, userTitle>>
    BY Zenon, <1>1 DEF vars
  <2>2. TypeOK'
    BY Zenon, <2>1 DEF StoreInv, TypeOK
  <2>3. ScopesFit' /\ RowsDated' /\ TitleKept'
    BY Zenon, <2>1 DEF StoreInv, ScopesFit, RowsDated, TitleKept
  <2>4. JobsFit'
    BY ZenonT(30), <2>1 DEF StoreInv, JobsFit, JobFits, RowsRead, TextsRead
  <2> QED
    BY Zenon, <2>2, <2>3, <2>4 DEF StoreInv
<1>2. ASSUME NEW h \in Handler, Commit(h)
      PROVE  StoreInv'
  BY Zenon, <1>2, RenameKeeps, ContextKeeps, NamingKeeps, DeletionKeeps, MemoryKeeps DEF Commit
<1>3. ASSUME NEW h \in Handler, Fail(h)
      PROVE  StoreInv'
  <2>1. Abort(h) /\ blocked' = blocked
    BY Zenon, <1>3 DEF Fail
  <2>2. blocked' \in BOOLEAN
    BY Zenon, <2>1 DEF StoreInv, TypeOK
  <2> QED
    BY Zenon, <2>1, <2>2, AbortKeeps
<1>4. ASSUME NEW h \in Handler, NEW m \in Mem, DeleteMemory(h, m) \/ CommitCondense(h, m)
      PROVE  StoreInv'
  BY Zenon, <1>4, DeleteMemoryKeeps, CondenseKeeps
<1>5. ASSUME NEW h \in Handler,
             \/ \E t \in Title : ReadRename(h, t) \/ ReadNaming(h, t)
             \/ \E x \in Context : ReadContext(h, x)
             \/ ReadDeletion(h)
             \/ \E m \in Mem, s \in {"chat", "cross"}, t \in Text, p \in BOOLEAN :
                  ReadMemory(h, m, s, t, p)
             \/ \E group \in SUBSET Mem : ReadCondense(h, group)
      PROVE  StoreInv'
  BY Zenon, <1>5, ReadsKeep
<1> QED
  BY Zenon, <1>1, <1>2, <1>3, <1>4, <1>5 DEF Next

\* A condensation that is committed is one of CommitCondense: no other step
\* ends the handler with a new revision.
LEMMA CondensedByItsJob ==
  ASSUME StoreInv, [Next]_vars, NEW h \in Handler,
         job[h].op = "condense", job'[h] = Idle, rev' # rev
  PROVE  \E n \in Mem : CommitCondense(h, n)
<1>1. job = [g \in Handler |-> job[g]] /\ rev \in Nat
  BY Zenon DEF StoreInv, JobsFit, TypeOK
<1>2. job'[h] # job[h] /\ job[h] # Idle
  BY DEF Idle
<1>3. ASSUME NEW g \in Handler, Finish(g)
      PROVE  g = h
  BY Zenon, <1>1, <1>2, <1>3 DEF Finish
<1>4. ~UNCHANGED vars
  BY Zenon DEF vars
<1>5. ASSUME NEW g \in Handler, NEW j
      PROVE  ~Start(g, j)
  BY Zenon DEF Start
<1>6. ASSUME NEW g \in Handler
      PROVE  ~Abort(g)
  BY Zenon DEF Abort
<1>7. ASSUME NEW g \in Handler, Commit(g)
      PROVE  FALSE
  <2>1. job[g].op \in {"rename", "context", "naming", "delete", "memory"}
    BY Zenon, <1>7 DEF Commit, CommitRename, CommitContext, CommitNaming, CommitDeletion, CommitMemory
  <2>2. g # h
    BY <2>1
  <2>3. Finish(g)
    BY Zenon, <1>7
    DEF Commit, CommitRename, CommitContext, CommitNaming, CommitDeletion, CommitMemory, Abort
  <2> QED
    BY Zenon, <1>3, <2>2, <2>3
<1>8. ASSUME NEW g \in Handler, Fail(g)
      PROVE  FALSE
  BY Zenon, <1>6, <1>8 DEF Fail
<1>9. ASSUME NEW g \in Handler, NEW m \in Mem, DeleteMemory(g, m)
      PROVE  FALSE
  BY Zenon, <1>2, <1>9 DEF DeleteMemory
<1>10. ASSUME NEW g \in Handler, NEW n \in Mem, CommitCondense(g, n)
       PROVE  CommitCondense(h, n)
  <2>1. Finish(g)
    BY Zenon, <1>10 DEF CommitCondense, Abort
  <2> QED
    BY Zenon, <1>3, <1>10, <2>1
<1>11. ASSUME NEW g \in Handler,
              \/ \E t \in Title : ReadRename(g, t) \/ ReadNaming(g, t)
              \/ \E x \in Context : ReadContext(g, x)
              \/ ReadDeletion(g)
              \/ \E m \in Mem, s \in {"chat", "cross"}, t \in Text, p \in BOOLEAN :
                   ReadMemory(g, m, s, t, p)
              \/ \E group \in SUBSET Mem : ReadCondense(g, group)
       PROVE  FALSE
  BY Zenon, <1>5, <1>11
  DEF ReadRename, ReadNaming, ReadContext, ReadDeletion, ReadMemory, ReadCondense
<1> QED
  BY Zenon, <1>4, <1>7, <1>8, <1>9, <1>10, <1>11 DEF Next

-----------------------------------------------------------------------------
(* Conversations and memories: the theorems.                               *)

\* Every interleaving of the handlers of a conversation and its memories: the
\* rows they read and the tables satisfy the inductive invariant.
THEOREM StoreInvariant == Spec => []StoreInv
<1>1. Init => StoreInv
  BY Zenon, StoreInit
<1>2. StoreInv /\ [Next]_vars => StoreInv'
  BY Zenon, StoreStep
<1> QED
  BY <1>1, <1>2, PTL DEF Spec

\* DeleteEntity against persist_memory and condense_memories: no interleaving
\* leaves a memory in the scope of a deleted conversation.
THEOREM StoreStaysConsistent == Spec => []StoreConsistent
<1>1. StoreInv => StoreConsistent
  BY Zenon DEF StoreInv, StoreConsistent, ScopesFit, Live
<1> QED
  BY <1>1, StoreInvariant, PTL

\* maybe_name_new_chat and condense_memories: what the model works on in the
\* background never replaces what the user wrote meanwhile.
THEOREM EditsAreKept == Spec => BackgroundWorkKeepsEdits
<1> DEFINE Kept == /\ userTitle' # "New chat" => conv'.title = userTitle'
                   /\ \A h \in Handler : job[h].op = "condense" /\ job'[h] = Idle /\ rev' # rev =>
                        \A m \in DOMAIN job[h].rows :
                          mem[m].live /\ ~mem[m].pinned /\ mem[m].text = job[h].rows[m].text
<1>1. ASSUME StoreInv, [Next]_vars
      PROVE  Kept
  <2>1. StoreInv'
    BY Zenon, <1>1, StoreStep
  <2>2. userTitle' # "New chat" => conv'.title = userTitle'
    BY Zenon, <2>1 DEF StoreInv, TitleKept
  <2>3. ASSUME NEW h \in Handler, job[h].op = "condense", job'[h] = Idle, rev' # rev,
               NEW m \in DOMAIN job[h].rows
        PROVE  mem[m].live /\ ~mem[m].pinned /\ mem[m].text = job[h].rows[m].text
    <3>1. PICK n \in Mem : CommitCondense(h, n)
      BY Zenon, <1>1, <2>3, CondensedByItsJob
    <3>2. \A k \in DOMAIN job[h].rows : Condensable(mem[k], job[h].rows[k])
      BY Zenon, <2>3, <3>1 DEF CommitCondense, Abort
    <3>3. TextsRead(job[h])
      BY Zenon, <1>1, <2>3 DEF StoreInv, JobsFit, JobFits
    <3> QED
      BY Zenon, <3>2, <3>3 DEF Condensable, TextsRead
  <2> QED
    BY Zenon, <2>2, <2>3
<1>2. StoreInv /\ [Next]_vars => [Kept]_vars
  BY Zenon, <1>1
<1> HIDE DEF Kept
<1>3. Spec => [][Kept]_vars
  BY <1>2, StoreInvariant, PTL DEF Spec
<1> QED
  BY <1>3 DEF BackgroundWorkKeepsEdits, Kept

-----------------------------------------------------------------------------
(* The deltas and the tables.                                              *)

\* What a handler has read of the conversation is what the table holds.
JobFresh(j) ==
  /\ j.op \in {"rename", "naming"} => j.ctx = conv.ctx
  /\ j.op = "delete" => j.rows = [m \in Listed |-> mem[m]]

\* So it is unless another handler has committed since.
UpToDate == \A h \in Handler : h \notin outdated => JobFresh(job[h])

\* Nothing but a transaction changes the tables or adds a delta.
Unwritten == UNCHANGED <<conv, mem, rev, seen>>

\* A handler that starts has read the tables as they are.
LEMMA StartsFresh ==
  ASSUME NEW h \in Handler, job = [g \in Handler |-> job[g]],
         \/ \E t \in Title : ReadRename(h, t) \/ ReadNaming(h, t)
         \/ \E x \in Context : ReadContext(h, x)
         \/ ReadDeletion(h)
         \/ \E m \in Mem, s \in {"chat", "cross"}, t \in Text, p \in BOOLEAN :
              ReadMemory(h, m, s, t, p)
         \/ \E group \in SUBSET Mem : ReadCondense(h, group)
  PROVE  /\ Unwritten /\ blocked' = blocked /\ job[h] = Idle /\ JobFresh(job[h])'
         /\ \A g \in Handler : g # h => job'[g] = job[g]
<1>1. PICK j : /\ Start(h, j)
               /\ j.op \in {"rename", "naming"} => j.ctx = conv.ctx
               /\ j.op = "delete" => j.rows = [m \in Listed |-> mem[m]]
  <2> DEFINE Fresh0(j) == /\ Start(h, j)
                          /\ j.op \in {"rename", "naming"} => j.ctx = conv.ctx
                          /\ j.op = "delete" => j.rows = [m \in Listed |-> mem[m]]
  <2>1. ASSUME NEW t \in Title, ReadRename(h, t)
        PROVE  \E j : Fresh0(j)
    <3> DEFINE j == [op |-> "rename", title |-> t, ctx |-> conv.ctx]
    <3>1. Start(h, j)
      BY Zenon, <2>1 DEF ReadRename
    <3>2. j.ctx = conv.ctx /\ j.op # "delete"
      OBVIOUS
    <3> HIDE DEF j
    <3> QED
      BY Zenon, <3>1, <3>2
  <2>2. ASSUME NEW t \in Title, ReadNaming(h, t)
        PROVE  \E j : Fresh0(j)
    <3> DEFINE j == [op |-> "naming", title |-> t, ctx |-> conv.ctx]
    <3>1. Start(h, j)
      BY Zenon, <2>2 DEF ReadNaming
    <3>2. j.ctx = conv.ctx /\ j.op # "delete"
      OBVIOUS
    <3> HIDE DEF j
    <3> QED
      BY Zenon, <3>1, <3>2
  <2>3. ASSUME NEW x \in Context, ReadContext(h, x)
        PROVE  \E j : Fresh0(j)
    <3> DEFINE j == [op |-> "context", ctx |-> x]
    <3>1. Start(h, j)
      BY Zenon, <2>3 DEF ReadContext
    <3>2. j.op \notin {"rename", "naming"} /\ j.op # "delete"
      OBVIOUS
    <3> HIDE DEF j
    <3> QED
      BY Zenon, <3>1, <3>2
  <2>4. ASSUME ReadDeletion(h)
        PROVE  \E j : Fresh0(j)
    <3> DEFINE f == [m \in Listed |-> mem[m]]
               j == [op |-> "delete", rows |-> f]
    <3>1. Start(h, j)
      BY Zenon, <2>4 DEF ReadDeletion
    <3> HIDE DEF f
    <3>2. j.op \notin {"rename", "naming"} /\ j.rows = f
      OBVIOUS
    <3> HIDE DEF j
    <3> QED
      BY Zenon, <3>1, <3>2 DEF f
  <2>5. ASSUME NEW m \in Mem, NEW s \in {"chat", "cross"}, NEW t \in Text, NEW p \in BOOLEAN,
               ReadMemory(h, m, s, t, p)
        PROVE  \E j : Fresh0(j)
    <3> DEFINE j == [op |-> "memory", id |-> m, scope |-> s, text |-> t, pinned |-> p]
    <3>1. Start(h, j)
      BY Zenon, <2>5 DEF ReadMemory
    <3>2. j.op \notin {"rename", "naming"} /\ j.op # "delete"
      OBVIOUS
    <3> HIDE DEF j
    <3> QED
      BY Zenon, <3>1, <3>2
  <2>6. ASSUME NEW group \in SUBSET Mem, ReadCondense(h, group)
        PROVE  \E j : Fresh0(j)
    <3> DEFINE f == [m \in group |-> mem[m]]
               j == [op |-> "condense", rows |-> f]
    <3>1. Start(h, j)
      BY Zenon, <2>6 DEF ReadCondense
    <3> HIDE DEF f
    <3>2. j.op \notin {"rename", "naming"} /\ j.op # "delete"
      OBVIOUS
    <3> HIDE DEF j
    <3> QED
      BY Zenon, <3>1, <3>2
  <2>7. \E j : Fresh0(j)
    <3> HIDE DEF Fresh0
    <3> QED
      BY Zenon, <2>1, <2>2, <2>3, <2>4, <2>5, <2>6
  <2> QED
    BY Zenon, <2>7
<1>2. /\ UNCHANGED <<conv, mem, rev, seen>> /\ blocked' = blocked /\ job[h] = Idle
      /\ job' = [job EXCEPT ![h] = j]
  BY Zenon, <1>1 DEF Start
<1>3. job'[h] = j /\ \A g \in Handler : g # h => job'[g] = job[g]
  BY Zenon, <1>2
<1>4. Listed' = Listed
  BY Zenon, <1>2 DEF Listed, Live, Precedes
<1>5. JobFresh(job[h])'
  BY Zenon, <1>1, <1>2, <1>3, <1>4 DEF JobFresh
<1> QED
  BY Zenon, <1>2, <1>3, <1>5 DEF Unwritten

\* A handler's step that is not a start ends it; every other handler stays.
LEMMA OthersStay ==
  ASSUME job = [g \in Handler |-> job[g]], NEW h \in Handler,
         Commit(h) \/ Fail(h) \/ \E n \in Mem : DeleteMemory(h, n) \/ CommitCondense(h, n)
  PROVE  /\ job'[h] = Idle /\ \A g \in Handler : g # h => job'[g] = job[g]
         /\ Unwritten \/ rev' = rev + 1
<1>1. Finish(h) \/ (job' = job /\ job[h] = Idle)
  BY Zenon DEF Commit, Fail, DeleteMemory, CommitCondense, CommitRename, CommitContext,
               CommitNaming, CommitDeletion, CommitMemory, Abort
<1>2. Abort(h) \/ rev' = rev + 1
  BY Zenon DEF Commit, Fail, DeleteMemory, CommitCondense, CommitRename, CommitContext,
               CommitNaming, CommitDeletion, CommitMemory
<1>3. Unwritten \/ rev' = rev + 1
  BY Zenon, <1>2 DEF Abort, Unwritten
<1> QED
  BY Zenon, <1>1, <1>3 DEF Finish

\* Who has not been overtaken has read what the tables hold.
LEMMA UpToDateStep ==
  ASSUME StoreInv, UpToDate, [MCNext]_<<vars, outdated>>
  PROVE  UpToDate'
<1>1. job = [g \in Handler |-> job[g]] /\ rev \in Nat
  BY Zenon DEF StoreInv, JobsFit, TypeOK
<1>2. rev + 1 # rev
  BY <1>1
<1>3. ASSUME NEW g \in Handler, Unwritten, JobFresh(job[g]), job'[g] = job[g]
      PROVE  JobFresh(job[g])'
  <2>1. UNCHANGED <<conv, mem>>
    BY Zenon, <1>3 DEF Unwritten
  <2>2. Listed' = Listed
    BY Zenon, <2>1 DEF Listed, Live, Precedes
  <2> QED
    BY Zenon, <1>3, <2>1, <2>2 DEF JobFresh
<1>4. ASSUME NEW g \in Handler, job'[g] = Idle
      PROVE  JobFresh(job[g])'
  <2>1. Idle.op \notin {"rename", "naming", "delete"}
    BY DEF Idle
  <2> QED
    BY Zenon, <1>4, <2>1 DEF JobFresh
<1>5. CASE UNCHANGED <<vars, outdated>>
  <2>1. Unwritten /\ job' = job /\ outdated' = outdated
    BY Zenon, <1>5 DEF vars, Unwritten
  <2> QED
    BY Zenon, <1>3, <2>1 DEF UpToDate
<1>6. CASE MCNext
  <2> SUFFICES ASSUME NEW g \in Handler, g \notin outdated'
               PROVE  JobFresh(job[g])'
    BY Zenon DEF UpToDate
  <2>1. job[g] = Idle \/ job'[g] = Idle \/ (g \notin outdated /\ rev' = rev)
    BY Zenon, <1>6 DEF MCNext
  <2>2. ASSUME NEW h \in Handler,
               \/ \E t \in Title : ReadRename(h, t) \/ ReadNaming(h, t)
               \/ \E x \in Context : ReadContext(h, x)
               \/ ReadDeletion(h)
               \/ \E m \in Mem, s \in {"chat", "cross"}, t \in Text, p \in BOOLEAN :
                    ReadMemory(h, m, s, t, p)
               \/ \E group \in SUBSET Mem : ReadCondense(h, group)
        PROVE  JobFresh(job[g])'
    <3>1. /\ Unwritten /\ blocked' = blocked /\ job[h] = Idle /\ JobFresh(job[h])'
          /\ \A k \in Handler : k # h => job'[k] = job[k]
      BY Zenon, <1>1, <2>2, StartsFresh
    <3>2. CASE g = h
      BY Zenon, <3>1, <3>2 DEF JobFresh
    <3>3. CASE g # h
      <4>1. job'[g] = job[g]
        BY Zenon, <3>1, <3>3
      <4> QED
        BY Zenon, <1>3, <1>4, <2>1, <3>1, <4>1 DEF UpToDate
    <3> QED
      BY Zenon, <3>2, <3>3
  <2>3. ASSUME NEW h \in Handler,
               Commit(h) \/ Fail(h) \/ \E n \in Mem : DeleteMemory(h, n) \/ CommitCondense(h, n)
        PROVE  JobFresh(job[g])'
    <3>1. /\ job'[h] = Idle /\ \A k \in Handler : k # h => job'[k] = job[k]
          /\ Unwritten \/ rev' = rev + 1
      BY Zenon, <1>1, <2>3, OthersStay
    <3>2. job'[g] = Idle \/ (job'[g] = job[g] /\ g \notin outdated /\ Unwritten)
      BY Zenon, <1>2, <2>1, <3>1
    <3> QED
      BY Zenon, <1>3, <1>4, <3>2 DEF UpToDate
  <2> QED
    BY Zenon, <1>6, <2>2, <2>3 DEF MCNext, Next
<1> QED
  BY Zenon, <1>5, <1>6

\* A context written to what the deltas give.
LEMMA SeenContext ==
  ASSUME NEW c, NEW f, NEW x, NEW s, s = [conv |-> c, mem |-> f]
  PROVE  [s EXCEPT !.conv.ctx = x] = [conv |-> [c EXCEPT !.ctx = x], mem |-> f]
  OBVIOUS

\* The same for a row.
LEMMA SeenRow ==
  ASSUME NEW c, NEW f, NEW m, NEW r, NEW s, s = [conv |-> c, mem |-> f]
  PROVE  [s EXCEPT !.mem[m] = r] = [conv |-> c, mem |-> [f EXCEPT ![m] = r]]
  OBVIOUS

\* The same for the table.
LEMMA SeenTable ==
  ASSUME NEW c, NEW f, NEW g, NEW s, s = [conv |-> c, mem |-> f]
  PROVE  [s EXCEPT !.mem = g] = [conv |-> c, mem |-> g]
  OBVIOUS

\* A title written with the context that the conversation has.
LEMMA SeenTitle ==
  ASSUME NEW c \in Conversation, NEW f, NEW t \in Title, NEW s, s = [conv |-> c, mem |-> f]
  PROVE  [s EXCEPT !.conv.title = t, !.conv.ctx = c.ctx]
           = [conv |-> [c EXCEPT !.title = t], mem |-> f]
<1> DEFINE d == [c EXCEPT !.title = t]
           w == [s EXCEPT !.conv.title = t]
<1>1. w = [conv |-> d, mem |-> f]
  OBVIOUS
<1>2. d \in Conversation /\ d.ctx = c.ctx
  BY DEF Conversation
<1> HIDE DEF d
<1>3. ASSUME NEW v, v = [conv |-> d, mem |-> f]
      PROVE  [v EXCEPT !.conv.ctx = c.ctx] = [conv |-> d, mem |-> f]
  <2>1. [d EXCEPT !.ctx = c.ctx] = d
    BY <1>2 DEF Conversation
  <2>2. [v EXCEPT !.conv.ctx = c.ctx] = [conv |-> [d EXCEPT !.ctx = c.ctx], mem |-> f]
    BY <1>3
  <2> QED
    BY Zenon, <2>1, <2>2
<1> HIDE DEF w
<1>4. [w EXCEPT !.conv.ctx = c.ctx] = [conv |-> d, mem |-> f]
  BY Zenon, <1>1, <1>3
<1> QED
  BY Zenon, <1>4 DEF w, d

\* UpdateConversation and maybe_name_new_chat, of a handler that has the
\* conversation's context.
LEMMA TitleLogged ==
  ASSUME StoreInv, LogMatchesTables, NEW h \in Handler, JobFresh(job[h]),
         CommitRename(h) \/ CommitNaming(h)
  PROVE  LogMatchesTables'
<1>1. CASE Unwritten
  BY Zenon, <1>1 DEF LogMatchesTables, Unwritten
<1>2. CASE ~Unwritten
  <2>1. /\ job[h].op \in {"rename", "naming"}
        /\ conv' = [conv EXCEPT !.title = job[h].title] /\ mem' = mem
        /\ seen' = [seen EXCEPT !.conv.title = job[h].title, !.conv.ctx = job[h].ctx]
    BY Zenon, <1>2 DEF CommitRename, CommitNaming, Abort, Unwritten
  <2>2. JobFits(job[h]) /\ conv \in Conversation
    BY Zenon DEF StoreInv, TypeOK, JobsFit
  <2>3. PICK t \in Title : t = job[h].title
    BY Zenon, <2>1, <2>2 DEF JobFits
  <2>4. job[h].ctx = conv.ctx
    BY Zenon, <2>1 DEF JobFresh
  <2>5. seen' = [seen EXCEPT !.conv.title = t, !.conv.ctx = conv.ctx]
    BY Zenon, <2>1, <2>3, <2>4
  <2>6. seen = [conv |-> conv, mem |-> mem]
    BY Zenon DEF LogMatchesTables
  <2>7. seen' = [conv |-> [conv EXCEPT !.title = t], mem |-> mem]
    BY Zenon, <2>2, <2>5, <2>6, SeenTitle
  <2>8. conv' = [conv EXCEPT !.title = t]
    BY Zenon, <2>1, <2>3
  <2> QED
    BY Zenon, <2>1, <2>7, <2>8 DEF LogMatchesTables
<1> QED
  BY Zenon, <1>1, <1>2

\* UpdateConversationState.
LEMMA ContextLogged ==
  ASSUME LogMatchesTables, NEW h \in Handler, CommitContext(h)
  PROVE  LogMatchesTables'
<1>1. seen = [conv |-> conv, mem |-> mem]
  BY Zenon DEF LogMatchesTables
<1>2. seen.conv = conv
  BY <1>1
<1>3. CASE conv.live
  <2>1. /\ conv' = [conv EXCEPT !.ctx = job[h].ctx] /\ mem' = mem
        /\ seen' = [seen EXCEPT !.conv.ctx = job[h].ctx]
    BY Zenon, <1>2, <1>3 DEF CommitContext
  <2>2. seen' = [conv |-> [conv EXCEPT !.ctx = job[h].ctx], mem |-> mem]
    BY Zenon, <1>1, <2>1, SeenContext
  <2> QED
    BY Zenon, <2>1, <2>2 DEF LogMatchesTables
<1>4. CASE ~conv.live
  <2>1. conv' = conv /\ mem' = mem /\ seen' = seen
    BY Zenon, <1>2, <1>4 DEF CommitContext
  <2> QED
    BY Zenon, <1>1, <2>1 DEF LogMatchesTables
<1> QED
  BY Zenon, <1>3, <1>4

\* DeleteEntity for a conversation, of a handler that has the memories as they
\* are.
LEMMA DeletionLogged ==
  ASSUME StoreInv, LogMatchesTables, NEW h \in Handler, JobFresh(job[h]), CommitDeletion(h)
  PROVE  LogMatchesTables'
<1>1. CASE Unwritten
  BY Zenon, <1>1 DEF LogMatchesTables, Unwritten
<1>2. CASE ~Unwritten
  <2>1. /\ job[h].op = "delete" /\ conv' = [conv EXCEPT !.live = FALSE]
        /\ mem' = PromotedRows(job[h].rows)
        /\ seen' = [conv |-> [seen.conv EXCEPT !.live = FALSE],
                    mem |-> PromotedDeltas(job[h].rows)]
    BY Zenon, <1>2 DEF CommitDeletion, Abort, Unwritten
  <2>2. seen.conv = conv /\ seen.mem = mem
    BY DEF LogMatchesTables
  <2>3. PICK f : f = job[h].rows
    BY Zenon
  <2>4. f = [m \in Listed |-> mem[m]]
    BY Zenon, <2>1, <2>3 DEF JobFresh
  <2>5. \A m \in DOMAIN f : mem[m].live /\ f[m] = mem[m]
    BY Zenon, <2>4 DEF Listed, Live
  <2>6. PromotedRows(f) = PromotedDeltas(f)
    <3>1. ASSUME NEW m \in Mem
          PROVE  (IF m \in DOMAIN f /\ mem[m].live
                  THEN [mem[m] EXCEPT !.scope = "cross", !.rev = rev + 1] ELSE mem[m])
               = (IF m \in DOMAIN f
                  THEN [f[m] EXCEPT !.scope = "cross", !.rev = rev + 1] ELSE seen.mem[m])
      BY Zenon, <2>2, <2>5
    <3> QED
      BY Zenon, <3>1 DEF PromotedRows, PromotedDeltas
  <2> QED
    BY Zenon, <2>1, <2>2, <2>3, <2>6 DEF LogMatchesTables
<1> QED
  BY Zenon, <1>1, <1>2

\* persist_memory, and DeleteEntity for a memory.
LEMMA MemoryLogged ==
  ASSUME LogMatchesTables, NEW h \in Handler,
         CommitMemory(h) \/ \E m \in Mem : DeleteMemory(h, m)
  PROVE  LogMatchesTables'
<1>1. seen = [conv |-> conv, mem |-> mem]
  BY Zenon DEF LogMatchesTables
<1>2. ASSUME NEW m, NEW r, mem' = [mem EXCEPT ![m] = r], conv' = conv,
             seen' = [seen EXCEPT !.mem[m] = r]
      PROVE  LogMatchesTables'
  <2>1. seen' = [conv |-> conv, mem |-> [mem EXCEPT ![m] = r]]
    BY Zenon, <1>1, <1>2, SeenRow
  <2> QED
    BY Zenon, <1>2, <2>1 DEF LogMatchesTables
<1>3. CASE CommitMemory(h)
  <2>1. CASE Abort(h)
    BY Zenon, <2>1 DEF Abort, LogMatchesTables
  <2>2. CASE ~Abort(h)
    BY Zenon, <1>2, <1>3, <2>2 DEF CommitMemory
  <2> QED
    BY Zenon, <2>1, <2>2
<1>4. ASSUME NEW m \in Mem, DeleteMemory(h, m)
      PROVE  LogMatchesTables'
  BY Zenon, <1>2, <1>4 DEF DeleteMemory
<1> QED
  BY Zenon, <1>3, <1>4

\* condense_memories.
LEMMA CondenseLogged ==
  ASSUME LogMatchesTables, NEW h \in Handler, NEW n \in Mem, CommitCondense(h, n)
  PROVE  LogMatchesTables'
<1>1. seen = [conv |-> conv, mem |-> mem]
  BY Zenon DEF LogMatchesTables
<1>2. CASE Abort(h)
  BY Zenon, <1>2 DEF Abort, LogMatchesTables
<1>3. CASE ~Abort(h)
  <2> DEFINE rows == job[h].rows
             scope == rows[CHOOSE m \in DOMAIN rows : TRUE].scope
             Merged(ms) == [m \in Mem |-> IF m = n THEN Row(scope, "merged", FALSE, rev + 1)
                                          ELSE IF m \in DOMAIN rows THEN NoRow ELSE ms[m]]
  <2>1. conv' = conv /\ mem' = Merged(mem) /\ seen' = [seen EXCEPT !.mem = Merged(seen.mem)]
    BY Zenon, <1>3 DEF CommitCondense
  <2> HIDE DEF Merged
  <2>2. seen.mem = mem
    BY <1>1
  <2>3. PICK g : g = Merged(mem)
    BY Zenon
  <2>4. seen' = [seen EXCEPT !.mem = g] /\ mem' = g
    BY Zenon, <2>1, <2>2, <2>3
  <2>5. seen' = [conv |-> conv, mem |-> g]
    BY Zenon, <1>1, <2>4, SeenTable
  <2> QED
    BY Zenon, <2>1, <2>4, <2>5 DEF LogMatchesTables
<1> QED
  BY Zenon, <1>2, <1>3
\* A step of MCNext is a step of Next.
LEMMA StepOfNext ==
  ASSUME [MCNext]_<<vars, outdated>>
  PROVE  [Next]_vars
  BY Zenon DEF MCNext

\* A handler that commits or fails was under way and is so no more.
LEMMA CommitEnds ==
  ASSUME StoreInv, NEW h \in Handler, job[h].op # "idle",
         Commit(h) \/ \E n \in Mem : CommitCondense(h, n)
  PROVE  Ends(h)
<1>1. job = [g \in Handler |-> job[g]]
  BY Zenon DEF StoreInv, JobsFit
<1>2. job'[h] = Idle
  BY Zenon, <1>1, OthersStay
<1>3. job[h] # Idle
  BY Zenon, IdleFits
<1> QED
  BY Zenon, <1>2, <1>3 DEF Ends

\* A step in which no overtaken handler ends adds to the log what it writes.
LEMMA LogStep ==
  ASSUME StoreInv, UpToDate, [MCNext]_<<vars, outdated>>, LogMatchesTables,
         \A h \in outdated : ~Ends(h)
  PROVE  LogMatchesTables'
<1>1. ASSUME Unwritten
      PROVE  LogMatchesTables'
  BY Zenon, <1>1 DEF LogMatchesTables, Unwritten
<1>2. CASE UNCHANGED vars
  BY Zenon, <1>1, <1>2 DEF vars, Unwritten
<1>3. ASSUME NEW h \in Handler, CommitRename(h) \/ CommitNaming(h) \/ CommitDeletion(h)
      PROVE  LogMatchesTables'
  <2>1. job[h].op \in {"rename", "naming", "delete"}
    BY Zenon, <1>3 DEF CommitRename, CommitNaming, CommitDeletion
  <2>2. job[h].op # "idle"
    BY <2>1
  <2>3. Ends(h)
    BY Zenon, <1>3, <2>2, CommitEnds DEF Commit
  <2>4. JobFresh(job[h])
    BY Zenon, <2>3 DEF UpToDate
  <2> QED
    BY Zenon, <1>3, <2>4, TitleLogged, DeletionLogged
<1>4. ASSUME NEW h \in Handler,
             \/ \E t \in Title : ReadRename(h, t) \/ ReadNaming(h, t)
             \/ \E x \in Context : ReadContext(h, x)
             \/ ReadDeletion(h)
             \/ \E m \in Mem, s \in {"chat", "cross"}, t \in Text, p \in BOOLEAN :
                  ReadMemory(h, m, s, t, p)
             \/ \E group \in SUBSET Mem : ReadCondense(h, group)
             \/ Fail(h)
      PROVE  LogMatchesTables'
  <2>1. Fail(h) => Unwritten
    BY Zenon DEF Fail, Abort, Unwritten
  <2>2. job = [g \in Handler |-> job[g]]
    BY Zenon DEF StoreInv, JobsFit
  <2>3. ~Fail(h) => Unwritten
    BY Zenon, <1>4, <2>2, StartsFresh
  <2> QED
    BY Zenon, <1>1, <2>1, <2>3
<1>5. CASE Next
  BY Zenon, <1>3, <1>4, <1>5, ContextLogged, MemoryLogged, CondenseLogged DEF Next, Commit
<1> QED
  BY Zenon, <1>2, <1>5, StepOfNext

\* The handlers of a conversation and its memories: the inductive invariant,
\* and with it that a handler no transaction has overtaken has read what the
\* tables hold.
THEOREM StoreUpToDate == MCSpec => [](StoreInv /\ UpToDate)
<1>1. MCInit => StoreInv /\ UpToDate
  <2> SUFFICES ASSUME MCInit
               PROVE  StoreInv /\ UpToDate
    BY Zenon
  <2>1. Init
    BY Zenon DEF MCInit
  <2>2. \A h \in Handler : job[h] = Idle
    BY Zenon, <2>1 DEF Init
  <2>3. Idle.op \notin {"rename", "naming", "delete"}
    BY DEF Idle
  <2>4. \A h \in Handler : JobFresh(job[h])
    BY Zenon, <2>2, <2>3 DEF JobFresh
  <2> QED
    BY Zenon, <2>1, <2>4, StoreInit DEF UpToDate
<1>2. StoreInv /\ UpToDate /\ [MCNext]_<<vars, outdated>> => (StoreInv /\ UpToDate)'
  BY Zenon, StoreStep, StepOfNext, UpToDateStep
<1> QED
  BY <1>1, <1>2, PTL DEF MCSpec

\* dispatch in main.rs, condense_memories and persist_memory: a transaction
\* that starts from what its handler read keeps the log, which transport.rs
\* takes for authoritative, and the tables equal.
THEOREM LogIsKept == MCSpec => UpToDateCommitKeepsLog
<1> DEFINE Kept == LogMatchesTables /\ (\A h \in outdated : ~Ends(h)) => LogMatchesTables'
<1>1. StoreInv /\ UpToDate /\ [MCNext]_<<vars, outdated>> => [Kept]_vars
  BY Zenon, LogStep
<1> HIDE DEF Kept
<1>2. MCSpec => [][Kept]_vars
  BY <1>1, StoreUpToDate, PTL DEF MCSpec
<1> QED
  BY <1>2 DEF UpToDateCommitKeepsLog, Kept
-----------------------------------------------------------------------------
(* A conversation is deleted.                                              *)

\* A part of a finite set that lacks one of its members is smaller.
LEMMA PartIsSmaller ==
  ASSUME NEW L, IsFiniteSet(L), NEW S \in SUBSET L, NEW m \in L, m \notin S
  PROVE  Cardinality(S) \in Nat /\ Cardinality(L) \in Nat /\ Cardinality(S) < Cardinality(L)
<1>1. IsFiniteSet(L \ {m}) /\ Cardinality(L \ {m}) = Cardinality(L) - 1
  BY Zenon, FS_RemoveElement
<1>2. S \in SUBSET (L \ {m})
  BY Zenon
<1>3. Cardinality(S) <= Cardinality(L \ {m}) /\ IsFiniteSet(S)
  BY Zenon, <1>1, <1>2, FS_Subset
<1>4. Cardinality(S) \in Nat /\ Cardinality(L) \in Nat
  BY Zenon, <1>3, FS_CardinalityType
<1> QED
  BY <1>1, <1>3, <1>4

\* list_memories leaves out a memory only when the account has more than its
\* LIMIT.
LEMMA UnlistedBeyondLimit ==
  ASSUME StoreInv, NEW m \in Live, m \notin Listed
  PROVE  Cardinality(Live) > ListLimit
<1>1. Live \subseteq Mem /\ IsFiniteSet(Mem) /\ ListLimit \in Nat
  BY Zenon, StoreAssumption DEF Live
<1>2. IsFiniteSet(Live)
  BY Zenon, <1>1, FS_Subset
<1> DEFINE before == {n \in Live : Precedes(n, m)}
<1>3. ~(Cardinality(before) < ListLimit)
  BY Zenon DEF Listed
<1>4. ~Precedes(m, m)
  <2>1. mem[m] \in Memory
    BY Zenon, <1>1 DEF StoreInv, TypeOK
  <2>2. mem[m].rev \in Nat
    BY Zenon, <2>1, MemoryColumns
  <2>3. ~(mem[m].rev > mem[m].rev)
    BY <2>2
  <2> QED
    BY Zenon, <2>3 DEF Precedes
<1>5. before \in SUBSET Live /\ m \notin before
  BY Zenon, <1>4
<1> HIDE DEF before
<1>6. /\ Cardinality(before) \in Nat /\ Cardinality(Live) \in Nat
      /\ Cardinality(before) < Cardinality(Live)
  BY Zenon, <1>2, <1>5, PartIsSmaller
<1> QED
  BY <1>1, <1>3, <1>6

\* Only a deletion ends in a foreign key error that is kept as such.
LEMMA BlockedByDeletion ==
  ASSUME StoreInv, Next, blocked' # blocked
  PROVE  \E h \in Handler : /\ CommitDeletion(h) /\ conv.live
                            /\ ~ForeignKeys([conv EXCEPT !.live = FALSE], PromotedRows(job[h].rows))
<1>1. job = [g \in Handler |-> job[g]]
  BY Zenon DEF StoreInv, JobsFit
<1>2. ASSUME NEW h \in Handler,
             \/ CommitRename(h) \/ CommitContext(h) \/ CommitNaming(h) \/ CommitMemory(h)
             \/ Fail(h) \/ \E m \in Mem : DeleteMemory(h, m) \/ CommitCondense(h, m)
      PROVE  FALSE
  BY Zenon, <1>2 DEF CommitRename, CommitContext, CommitNaming, CommitMemory, Fail, DeleteMemory,
                     CommitCondense
<1>3. ASSUME NEW h \in Handler,
             \/ \E t \in Title : ReadRename(h, t) \/ ReadNaming(h, t)
             \/ \E x \in Context : ReadContext(h, x)
             \/ ReadDeletion(h)
             \/ \E m \in Mem, s \in {"chat", "cross"}, t \in Text, p \in BOOLEAN :
                  ReadMemory(h, m, s, t, p)
             \/ \E group \in SUBSET Mem : ReadCondense(h, group)
      PROVE  FALSE
  BY Zenon, <1>1, <1>3, StartsFresh
<1>4. PICK h \in Handler : CommitDeletion(h)
  BY Zenon, <1>2, <1>3 DEF Next, Commit
<1>5. blocked \in BOOLEAN
  BY Zenon DEF StoreInv, TypeOK
<1>6. conv.live /\ ~ForeignKeys([conv EXCEPT !.live = FALSE], PromotedRows(job[h].rows))
  BY Zenon, <1>4, <1>5 DEF CommitDeletion
<1> QED
  BY Zenon, <1>4, <1>6
\* Only a deletion removes the conversation, with the rows promoted.
LEMMA GoneByDeletion ==
  ASSUME StoreInv, Next, conv.live, ~conv'.live
  PROVE  \E h \in Handler : mem' = PromotedRows(job[h].rows)
<1>1. job = [g \in Handler |-> job[g]] /\ conv \in Conversation
  BY Zenon DEF StoreInv, JobsFit, TypeOK
<1>2. ASSUME NEW h \in Handler,
             \/ CommitMemory(h) \/ Fail(h)
             \/ \E m \in Mem : DeleteMemory(h, m) \/ CommitCondense(h, m)
      PROVE  FALSE
  BY Zenon, <1>2 DEF CommitMemory, Fail, Abort, DeleteMemory, CommitCondense
<1>3. ASSUME NEW h \in Handler,
             \/ \E t \in Title : ReadRename(h, t) \/ ReadNaming(h, t)
             \/ \E x \in Context : ReadContext(h, x)
             \/ ReadDeletion(h)
             \/ \E m \in Mem, s \in {"chat", "cross"}, t \in Text, p \in BOOLEAN :
                  ReadMemory(h, m, s, t, p)
             \/ \E group \in SUBSET Mem : ReadCondense(h, group)
      PROVE  FALSE
  BY Zenon, <1>1, <1>3, StartsFresh DEF Unwritten
<1>4. ASSUME NEW x
      PROVE  [conv EXCEPT !.title = x].live /\ [conv EXCEPT !.ctx = x].live
  BY <1>1 DEF Conversation
<1>5. ASSUME NEW h \in Handler, CommitRename(h) \/ CommitContext(h) \/ CommitNaming(h)
      PROVE  FALSE
  <2>1. \/ conv' = conv
        \/ conv' = [conv EXCEPT !.title = job[h].title]
        \/ conv' = [conv EXCEPT !.ctx = job[h].ctx]
    BY Zenon, <1>5 DEF CommitRename, CommitContext, CommitNaming, Abort
  <2> QED
    BY Zenon, <1>4, <2>1
<1>6. PICK h \in Handler : CommitDeletion(h)
  BY Zenon, <1>2, <1>3, <1>5 DEF Next, Commit
<1>7. mem' = PromotedRows(job[h].rows)
  BY Zenon, <1>6 DEF CommitDeletion, Abort
<1> QED
  BY Zenon, <1>7

\* A memory that a deletion promotes leaves the scope of the conversation.
LEMMA PromotedLeaves ==
  ASSUME StoreInv, NEW rows, NEW m \in DOMAIN rows, m \in Mem, mem[m].live
  PROVE  PromotedRows(rows)[m].scope = "cross"
<1>1. mem[m] \in Memory
  BY Zenon DEF StoreInv, TypeOK
<1>2. [mem[m] EXCEPT !.scope = "cross", !.rev = rev + 1].scope = "cross"
  BY <1>1 DEF Memory
<1> QED
  BY Zenon, <1>2 DEF PromotedRows

\* A deletion that is refused was overtaken, or the account has more memories
\* than are listed.
LEMMA RefusedForAReason ==
  ASSUME StoreInv, UpToDate, Next, blocked', ~blocked
  PROVE  \/ Cardinality(Live) > ListLimit
         \/ \E h \in outdated : Ends(h) /\ job[h].op = "delete"
<1>1. PICK h \in Handler :
        /\ CommitDeletion(h) /\ conv.live
        /\ ~ForeignKeys([conv EXCEPT !.live = FALSE], PromotedRows(job[h].rows))
  BY Zenon, BlockedByDeletion
<1>2. job[h].op = "delete"
  BY Zenon, <1>1 DEF CommitDeletion
<1>3. job[h].op # "idle"
  BY <1>2
<1>4. Ends(h)
  BY Zenon, <1>1, <1>3, CommitEnds DEF Commit
<1>5. CASE h \notin outdated
  <2>1. PICK f : f = job[h].rows
    BY Zenon
  <2>2. f = [m \in Listed |-> mem[m]]
    BY Zenon, <1>2, <1>5, <2>1 DEF UpToDate, JobFresh
  <2>3. PICK m \in Mem : PromotedRows(f)[m].live /\ PromotedRows(f)[m].scope = "chat"
    BY Zenon, <1>1, <2>1 DEF ForeignKeys
  <2>4. PromotedRows(f)[m].live = mem[m].live
    BY Zenon, PromotionWrites
  <2>5. m \in Live
    BY Zenon, <2>3, <2>4 DEF Live
  <2>6. ASSUME m \in Listed
        PROVE  FALSE
    <3>1. m \in DOMAIN f
      BY Zenon, <2>2, <2>6
    <3>2. PromotedRows(f)[m].scope = "cross"
      BY Zenon, <2>3, <2>4, <3>1, PromotedLeaves
    <3> QED
      BY <2>3, <3>2
  <2> QED
    BY Zenon, <2>5, <2>6, UnlistedBeyondLimit
<1> QED
  BY Zenon, <1>2, <1>4, <1>5

\* DeleteEntity for a conversation: it keeps every memory of the account and
\* its text, and is refused only for memories added since it listed them or
\* beyond the LIMIT of list_memories.
THEOREM DeletionStaysSafe == MCSpec => DeletionIsSafe
<1> DEFINE Safe ==
      /\ conv.live /\ ~conv'.live =>
           \A m \in Live : mem'[m].live /\ mem'[m].text = mem[m].text
      /\ blocked' /\ ~blocked =>
           \/ Cardinality(Live) > ListLimit
           \/ \E h \in outdated : Ends(h) /\ job[h].op = "delete"
<1>1. ASSUME StoreInv, UpToDate, Next
      PROVE  Safe
  <2>1. ASSUME conv.live, ~conv'.live, NEW m \in Live
        PROVE  mem'[m].live /\ mem'[m].text = mem[m].text
    <3>1. PICK h \in Handler : mem' = PromotedRows(job[h].rows)
      BY Zenon, <1>1, <2>1, GoneByDeletion
    <3> QED
      BY Zenon, <1>1, <3>1, PromotionWrites DEF Live
  <2> QED
    BY Zenon, <1>1, <2>1, RefusedForAReason
<1>2. StoreInv /\ UpToDate /\ [MCNext]_<<vars, outdated>> => [Safe]_vars
  <2> HIDE DEF Safe
  <2> QED
    BY Zenon, <1>1, StepOfNext
<1> HIDE DEF Safe
<1>3. MCSpec => [][Safe]_vars
  BY <1>2, StoreUpToDate, PTL DEF MCSpec
<1> QED
  BY <1>3 DEF DeletionIsSafe, Safe

=============================================================================
