------------------------- MODULE ConversationStore -------------------------
(***************************************************************************)
(* One conversation of an account, its memories, and the handlers that     *)
(* change them (dispatch in main.rs, systems/conversations.rs,             *)
(* systems/memory.rs, condense_memories in systems/inference.rs).          *)
(*                                                                         *)
(* A handler first reads what it needs, outside any transaction, and later *)
(* commits one transaction that writes the tables and a delta for each     *)
(* change; between the two, other handlers commit.  `seen' is what a       *)
(* client rebuilds by applying the deltas in the order of their revisions. *)
(*                                                                         *)
(* Texts and contexts are small sets.  The conversation exists initially,  *)
(* with the title a new chat gets and some memories.                       *)
(***************************************************************************)
EXTENDS Naturals, FiniteSets

CONSTANTS
  Handler,    \* handlers that may be under way at the same time
  Mem,        \* memory ids
  Title,      \* titles a user or the naming model may choose
  Context,    \* contents of state and summary
  Text,       \* contents of a memory
  ListLimit,  \* LIMIT of list_memories (500 in the code)
  MaxRev      \* bound on the number of transactions

ASSUME StoreAssumption ==
  /\ IsFiniteSet(Mem)
  /\ ListLimit \in Nat /\ MaxRev \in Nat
  /\ "New chat" \notin Title
  /\ "merged" \notin Text

VARIABLES
  conv,       \* the row of conversations: [live, title, ctx]
  mem,        \* the rows of memories
  rev,        \* transactions so far; the revision of the last one
  seen,       \* [conv, mem]: the deltas applied in order
  job,        \* what each handler has read and is about to write
  blocked,    \* a deletion ended in a foreign key error
  userTitle   \* the last title a user chose, "New chat" before

vars == <<conv, mem, rev, seen, job, blocked, userTitle>>

NoRow == [live |-> FALSE, scope |-> "cross", text |-> "merged", pinned |-> FALSE, rev |-> 0]
Row(s, t, p, r) == [live |-> TRUE, scope |-> s, text |-> t, pinned |-> p, rev |-> r]
Live == {m \in Mem : mem[m].live}
Idle == [op |-> "idle"]

Init ==
  /\ \E x \in Context : conv = [live |-> TRUE, title |-> "New chat", ctx |-> x]
  /\ mem \in [Mem -> {NoRow, Row("chat", "merged", FALSE, 0)}]
  /\ rev = 0
  /\ seen = [conv |-> conv, mem |-> mem]
  /\ job = [h \in Handler |-> Idle]
  /\ blocked = FALSE
  /\ userTitle = "New chat"

Start(h, j) ==
  /\ job[h] = Idle
  /\ rev < MaxRev
  /\ job' = [job EXCEPT ![h] = j]
  /\ UNCHANGED <<conv, mem, rev, seen, blocked, userTitle>>

Finish(h) == job' = [job EXCEPT ![h] = Idle]

\* The transaction fails and is rolled back; the handler reports an error.
Abort(h) ==
  /\ Finish(h)
  /\ UNCHANGED <<conv, mem, rev, seen, userTitle>>

\* A model call or a statement fails (SQLITE_BUSY included).
Fail(h) == job[h] # Idle /\ Abort(h) /\ UNCHANGED blocked

\* conversations(id) is referenced without ON DELETE: a memory row must not
\* name a conversation that does not exist.
ForeignKeys(c, ms) == \A m \in Mem : ms[m].live /\ ms[m].scope = "chat" => c.live

-----------------------------------------------------------------------------
(* UpdateConversation: the delta carries the state and summary that were   *)
(* read before the transaction; the table keeps its own.                   *)

ReadRename(h, t) ==
  /\ conv.live
  /\ Start(h, [op |-> "rename", title |-> t, ctx |-> conv.ctx])

\* Without the conversation the participants cannot be inserted.
CommitRename(h) ==
  /\ job[h].op = "rename"
  /\ IF ~conv.live
     THEN Abort(h) /\ UNCHANGED blocked
     ELSE /\ rev' = rev + 1
          /\ conv' = [conv EXCEPT !.title = job[h].title]
          /\ seen' = [seen EXCEPT !.conv.title = job[h].title, !.conv.ctx = job[h].ctx]
          /\ userTitle' = job[h].title
          /\ Finish(h)
          /\ UNCHANGED <<mem, blocked>>

\* UpdateConversationState: an update of a deleted conversation changes no
\* row, and its delta has nothing to apply to.
ReadContext(h, x) ==
  /\ conv.live
  /\ Start(h, [op |-> "context", ctx |-> x])

CommitContext(h) ==
  /\ job[h].op = "context"
  /\ rev' = rev + 1
  /\ conv' = IF conv.live THEN [conv EXCEPT !.ctx = job[h].ctx] ELSE conv
  /\ seen' = IF seen.conv.live THEN [seen EXCEPT !.conv.ctx = job[h].ctx] ELSE seen
  /\ Finish(h)
  /\ UNCHANGED <<mem, blocked, userTitle>>

\* maybe_name_new_chat: after the first message, while the title is still the
\* default; the model call lies between the read and the transaction.
ReadNaming(h, t) ==
  /\ conv.live /\ conv.title = "New chat"
  /\ Start(h, [op |-> "naming", title |-> t, ctx |-> conv.ctx])

CommitNaming(h) ==
  /\ job[h].op = "naming"
  /\ IF ~conv.live \/ conv.title # "New chat"
     THEN Abort(h) /\ UNCHANGED blocked
     ELSE /\ rev' = rev + 1
          /\ conv' = [conv EXCEPT !.title = job[h].title]
          /\ seen' = [seen EXCEPT !.conv.title = job[h].title, !.conv.ctx = job[h].ctx]
          /\ Finish(h)
          /\ UNCHANGED <<mem, blocked, userTitle>>

-----------------------------------------------------------------------------
(* DeleteEntity for a conversation: the memories to promote are listed     *)
(* before the transaction.                                                 *)

\* The order and the LIMIT of list_memories; cross-chat memories are listed
\* with those of the conversation.
Precedes(m, n) ==
  \/ mem[m].pinned /\ ~mem[n].pinned
  \/ mem[m].pinned = mem[n].pinned /\ mem[m].rev > mem[n].rev
Listed == {m \in Live : Cardinality({n \in Live : Precedes(n, m)}) < ListLimit}

ReadDeletion(h) ==
  /\ conv.live
  /\ Start(h, [op |-> "delete", rows |-> [m \in Listed |-> mem[m]]])

\* Mutant: the delta carries the memory as it was, still in the chat.
PromotedDeltasUnscoped(rows) ==
  [m \in Mem |-> IF m \in DOMAIN rows THEN [rows[m] EXCEPT !.rev = rev + 1] ELSE seen.mem[m]]

\* Every listed memory is moved to cross-chat scope.  The row keeps its other
\* columns; the delta carries the row as it was listed.
PromotedRows(rows) ==
  [m \in Mem |-> IF m \in DOMAIN rows /\ mem[m].live
                 THEN [mem[m] EXCEPT !.scope = "cross", !.rev = rev + 1] ELSE mem[m]]
PromotedDeltas(rows) ==
  [m \in Mem |-> IF m \in DOMAIN rows
                 THEN [rows[m] EXCEPT !.scope = "cross", !.rev = rev + 1] ELSE seen.mem[m]]

\* Mutant: the memories that were not promoted are deleted with the
\* conversation.
CommitDeletionCascading(h) ==
  /\ job[h].op = "delete"
  /\ conv.live
  /\ LET kept == PromotedRows(job[h].rows)
     IN /\ rev' = rev + 1
        /\ conv' = [conv EXCEPT !.live = FALSE]
        /\ mem' = [m \in Mem |-> IF kept[m].scope = "chat" THEN NoRow ELSE kept[m]]
        /\ seen' = [conv |-> [seen.conv EXCEPT !.live = FALSE],
                    mem |-> PromotedDeltas(job[h].rows)]
        /\ Finish(h)
        /\ UNCHANGED <<blocked, userTitle>>

\* Mutant: foreign keys are not enforced.
CommitDeletionUnenforced(h) ==
  /\ job[h].op = "delete"
  /\ conv.live
  /\ rev' = rev + 1
  /\ conv' = [conv EXCEPT !.live = FALSE]
  /\ mem' = PromotedRows(job[h].rows)
  /\ seen' = [conv |-> [seen.conv EXCEPT !.live = FALSE],
              mem |-> PromotedDeltas(job[h].rows)]
  /\ Finish(h)
  /\ UNCHANGED <<blocked, userTitle>>

\* A memory of the conversation that was not listed keeps it from being
\* deleted, and the whole transaction with it.
CommitDeletion(h) ==
  /\ job[h].op = "delete"
  /\ LET gone == [conv EXCEPT !.live = FALSE]
         kept == PromotedRows(job[h].rows)
     IN IF ~conv.live \/ ~ForeignKeys(gone, kept)
        THEN Abort(h) /\ blocked' = (blocked \/ conv.live)
        ELSE /\ rev' = rev + 1
             /\ conv' = gone
             /\ mem' = kept
             /\ seen' = [conv |-> [seen.conv EXCEPT !.live = FALSE],
                         mem |-> PromotedDeltas(job[h].rows)]
             /\ Finish(h)
             /\ UNCHANGED <<blocked, userTitle>>

-----------------------------------------------------------------------------
(* Memories.                                                               *)

\* persist_memory, for a new or an existing id: the scope is checked before
\* the transaction, the row inserted or updated inside it.
ReadMemory(h, m, s, t, p) ==
  /\ s = "chat" => conv.live
  /\ Start(h, [op |-> "memory", id |-> m, scope |-> s, text |-> t, pinned |-> p])

CommitMemory(h) ==
  /\ job[h].op = "memory"
  /\ LET j == job[h]
         row == Row(j.scope, j.text, j.pinned, rev + 1)
         stored == [mem EXCEPT ![j.id] = row]
     IN IF ~ForeignKeys(conv, stored)
        THEN Abort(h) /\ UNCHANGED blocked
        ELSE /\ rev' = rev + 1
             /\ mem' = stored
             /\ seen' = [seen EXCEPT !.mem[j.id] = row]
             /\ Finish(h)
             /\ UNCHANGED <<conv, blocked, userTitle>>

\* DeleteEntity for a memory reads nothing beforehand.
DeleteMemory(h, m) ==
  /\ job[h] = Idle
  /\ rev < MaxRev
  /\ mem[m].live
  /\ rev' = rev + 1
  /\ mem' = [mem EXCEPT ![m] = NoRow]
  /\ seen' = [seen EXCEPT !.mem[m] = NoRow]
  /\ UNCHANGED <<conv, job, blocked, userTitle>>

\* condense_memories reads unpinned memories of one scope, and the model
\* merges a group of them into fewer, here into one with a new id.
ReadCondense(h, group) ==
  /\ \E a, b \in group : a # b
  /\ \A m \in group : mem[m].live /\ ~mem[m].pinned
  /\ \A a, b \in group : mem[a].scope = mem[b].scope
  /\ Start(h, [op |-> "condense", rows |-> [m \in group |-> mem[m]]])

\* Uuid::new_v4: an id no row has and no handler is about to write.
Mentioned(j) == CASE j.op = "memory" -> {j.id}
                  [] j.op \in {"delete", "condense"} -> DOMAIN j.rows
                  [] OTHER -> {}
Fresh == {n \in Mem : ~mem[n].live /\ \A h \in Handler : n \notin Mentioned(job[h])}

\* Mutant: a source memory is deleted whatever has become of it.
CondensableAnyway(row, read) == row.live

\* DELETE ... AND revision=? AND pinned=0 has to hit the row.
Condensable(row, read) == row.live /\ row.rev = read.rev /\ ~row.pinned

CommitCondense(h, n) ==
  /\ job[h].op = "condense"
  /\ n \in Fresh
  /\ LET rows == job[h].rows
         scope == rows[CHOOSE m \in DOMAIN rows : TRUE].scope
         Merged(ms) == [m \in Mem |-> IF m = n THEN Row(scope, "merged", FALSE, rev + 1)
                                      ELSE IF m \in DOMAIN rows THEN NoRow ELSE ms[m]]
     IN IF \/ \E m \in DOMAIN rows : ~Condensable(mem[m], rows[m])
           \/ ~ForeignKeys(conv, Merged(mem))
        THEN Abort(h) /\ UNCHANGED blocked
        ELSE /\ rev' = rev + 1
             /\ mem' = Merged(mem)
             /\ seen' = [seen EXCEPT !.mem = Merged(@)]
             /\ Finish(h)
             /\ UNCHANGED <<conv, blocked, userTitle>>

-----------------------------------------------------------------------------
Commit(h) ==
  \/ CommitRename(h) \/ CommitContext(h) \/ CommitNaming(h)
  \/ CommitDeletion(h) \/ CommitMemory(h)

Next ==
  \/ \E h \in Handler :
       \/ Commit(h) \/ Fail(h)
       \/ \E t \in Title : ReadRename(h, t) \/ ReadNaming(h, t)
       \/ \E x \in Context : ReadContext(h, x)
       \/ ReadDeletion(h)
       \/ \E m \in Mem, s \in {"chat", "cross"}, t \in Text, p \in BOOLEAN :
            ReadMemory(h, m, s, t, p)
       \/ \E group \in SUBSET Mem : ReadCondense(h, group)
       \/ \E m \in Mem : DeleteMemory(h, m) \/ CommitCondense(h, m)

Spec == Init /\ [][Next]_vars

-----------------------------------------------------------------------------
(* Properties.                                                             *)

Conversation == [live : BOOLEAN, title : Title \cup {"New chat"}, ctx : Context]
Memory == [live : BOOLEAN, scope : {"chat", "cross"}, text : Text \cup {"merged"},
           pinned : BOOLEAN, rev : Nat]

TypeOK ==
  /\ conv \in Conversation
  /\ mem \in [Mem -> Memory]
  /\ rev \in Nat
  /\ seen \in [conv : Conversation, mem : [Mem -> Memory]]
  /\ \A h \in Handler : job[h].op \in {"idle", "rename", "context", "naming",
                                       "delete", "memory", "condense"}
  /\ blocked \in BOOLEAN
  /\ userTitle \in Title \cup {"New chat"}

\* main.rs 1068-1151 against persist_memory and condense_memories: no
\* interleaving leaves a memory in the scope of a deleted conversation.
StoreConsistent ==
  /\ TypeOK
  /\ \A m \in Live : mem[m].scope = "chat" => conv.live

\* What the model works on in the background never replaces what the user wrote
\* meanwhile: the name it finds for a chat leaves a title the user chose
\* (maybe_name_new_chat, conversations.rs 467-479), and condensation removes a
\* memory only as the model read it, unpinned and unedited (inference.rs
\* 1040-1041 and 1173-1186).
BackgroundWorkKeepsEdits ==
  [][/\ userTitle' # "New chat" => conv'.title = userTitle'
     /\ \A h \in Handler : job[h].op = "condense" /\ job'[h] = Idle /\ rev' # rev =>
          \A m \in DOMAIN job[h].rows :
            mem[m].live /\ ~mem[m].pinned /\ mem[m].text = job[h].rows[m].text]_vars

\* transport.rs 73-74 calls the delta log authoritative: what a client rebuilds
\* from the deltas is what the tables hold.
LogMatchesTables == seen = [conv |-> conv, mem |-> mem]

=============================================================================
