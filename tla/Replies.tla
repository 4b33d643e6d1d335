------------------------------ MODULE Replies ------------------------------
(***************************************************************************)
(* The messages of one conversation: replies persisted by a generation,    *)
(* their regenerated variants, the variant that is selected, and the       *)
(* portrait that a background classification of the reply stores later     *)
(* (persist_generation in systems/inference.rs, systems/emotion.rs and the *)
(* message requests of dispatch in main.rs).                               *)
(*                                                                         *)
(* An id names a generation; it becomes the id of a message, or of a       *)
(* variant of an older message.  The text of a reply is the id of its      *)
(* generation, or "" when it was cancelled before the first token.         *)
(***************************************************************************)
EXTENDS Naturals, FiniteSets

CONSTANTS
  Id,          \* generations, messages and variants
  Portrait,    \* portraits of the speaking character
  MaxPending,  \* MAX_PENDING of emotion.rs
  MaxEdits     \* bound on the selections and edits that may start

ASSUME RepliesAssumption ==
  /\ MaxPending \in Nat /\ MaxEdits \in Nat
  /\ {"", "edited"} \cap Id = {}
  /\ Portrait # {}  \* a reply is stored with one

VARIABLES
  chat,     \* the conversation exists
  msg,      \* rows of messages: [live, text, sel, img]; sel = own id: none
  variant,  \* rows of variants: [live, of, text]
  gen,      \* generations: [stage, of]; of = own id: a new message
  select,   \* SelectVariant requests that passed their check: <<message, variant>>
  portraits,      \* portrait jobs: [stage, of, reply, current]
  told,     \* [msg, variant]: the deltas applied in order
  edits

replyVars == <<chat, msg, variant, gen, select, portraits, told, edits>>

NoMessage(i) == [live |-> FALSE, text |-> "", sel |-> i, img |-> CHOOSE p \in Portrait : TRUE]
NoVariant(i) == [live |-> FALSE, of |-> i, text |-> ""]
NoJob(i) == [stage |-> "none", of |-> i, reply |-> "", current |-> CHOOSE p \in Portrait : TRUE]

ReplyInit ==
  /\ chat = TRUE
  /\ msg = [i \in Id |-> NoMessage(i)]
  /\ variant = [i \in Id |-> NoVariant(i)]
  /\ gen = [i \in Id |-> [stage |-> "new", of |-> i]]
  /\ select = {}
  /\ portraits = [i \in Id |-> NoJob(i)]
  /\ told = [msg |-> msg, variant |-> variant]
  /\ edits = 0

Pending == {i \in Id : portraits[i].stage = "pending"}

-----------------------------------------------------------------------------
\* Generate: the conversation, and the parent of a variant, are checked when
\* the request arrives.
Generate(i, parent) ==
  /\ gen[i].stage = "new"
  /\ chat
  /\ parent # i => msg[parent].live
  /\ gen' = [gen EXCEPT ![i] = [stage |-> "running", of |-> parent]]
  /\ UNCHANGED <<chat, msg, variant, select, portraits, told, edits>>

GenerationFails(i) ==
  /\ gen[i].stage = "running"
  /\ gen' = [gen EXCEPT ![i].stage = "done"]
  /\ UNCHANGED <<chat, msg, variant, select, portraits, told, edits>>

\* schedule_portrait_classification: nothing for an empty reply, nor when
\* MAX_PENDING jobs are under way.
SchedulePortrait(i, parent, reply, img) ==
  portraits' = IF reply = "" \/ Cardinality(Pending) >= MaxPending THEN portraits
         ELSE [portraits EXCEPT ![i] = [stage |-> "pending", of |-> parent,
                                  reply |-> reply, current |-> img]]

\* persist_generation for a new message, with the default portrait img.
PersistReply(i, reply, img) ==
  /\ gen[i] = [stage |-> "running", of |-> i]
  /\ chat
  /\ gen' = [gen EXCEPT ![i].stage = "done"]
  /\ LET row == [live |-> TRUE, text |-> reply, sel |-> i, img |-> img]
     IN msg' = [msg EXCEPT ![i] = row] /\ told' = [told EXCEPT !.msg[i] = row]
  /\ SchedulePortrait(i, i, reply, img)
  /\ UNCHANGED <<chat, variant, select, edits>>

\* "variant parent disappeared during generation"
ParentThere(parent) == msg[parent].live

\* persist_generation for a variant: it becomes the selected one and brings
\* its own default portrait.
PersistVariant(i, reply, img) ==
  LET parent == gen[i].of
      Selected(row) == IF row.live THEN [row EXCEPT !.sel = i, !.img = img] ELSE row
      new == [live |-> TRUE, of |-> parent, text |-> reply]
  IN /\ gen[i].stage = "running" /\ parent # i
     /\ ParentThere(parent)
     /\ gen' = [gen EXCEPT ![i].stage = "done"]
     /\ variant' = [variant EXCEPT ![i] = new]
     /\ msg' = [msg EXCEPT ![parent] = Selected(@)]
     /\ told' = [told EXCEPT !.variant[i] = new, !.msg[parent] = Selected(@)]
     /\ SchedulePortrait(i, parent, reply, img)
     /\ UNCHANGED <<chat, select, edits>>

-----------------------------------------------------------------------------
\* SelectVariant checks the variant before its transaction.
CheckSelection(m, v) ==
  /\ edits < MaxEdits
  /\ msg[m].live
  /\ v = m \/ (variant[v].live /\ variant[v].of = m)
  /\ select' = select \cup {<<m, v>>}
  /\ edits' = edits + 1
  /\ UNCHANGED <<chat, msg, variant, gen, portraits, told>>

\* A message deleted meanwhile is not updated, though a delta is logged.
CommitSelection(m, v) ==
  /\ <<m, v>> \in select
  /\ select' = select \ {<<m, v>>}
  /\ msg' = IF msg[m].live THEN [msg EXCEPT ![m].sel = v] ELSE msg
  /\ told' = IF told.msg[m].live THEN [told EXCEPT !.msg[m].sel = v] ELSE told
  /\ UNCHANGED <<chat, variant, gen, portraits, edits>>

\* UpdateMessage: one transaction, the delta carries the whole row.
EditMessage(m) ==
  /\ edits < MaxEdits
  /\ msg[m].live
  /\ msg' = [msg EXCEPT ![m].text = "edited"]
  /\ told' = [told EXCEPT !.msg[m] = [msg[m] EXCEPT !.text = "edited"]]
  /\ edits' = edits + 1
  /\ UNCHANGED <<chat, variant, gen, select, portraits>>

\* Mutant: the variants of a deleted message stay (no ON DELETE CASCADE).
WithoutCascade(ms) == [msg |-> [i \in Id |-> IF i \in ms THEN NoMessage(i) ELSE msg[i]],
                       variant |-> variant]

Without(ms) == [msg |-> [i \in Id |-> IF i \in ms THEN NoMessage(i) ELSE msg[i]],
                variant |-> [i \in Id |-> IF variant[i].of \in ms THEN NoVariant(i) ELSE variant[i]]]

\* DeleteEntity: the rows go, their variants with them, and so they do for
\* whoever applies the deltas.
Remove(ms) ==
  LET left == Without(ms)
  IN /\ msg' = left.msg
     /\ variant' = left.variant
     /\ told' = [msg |-> [i \in Id |-> IF i \in ms THEN NoMessage(i) ELSE told.msg[i]],
                 variant |-> [i \in Id |-> IF told.variant[i].of \in ms
                                           THEN NoVariant(i) ELSE told.variant[i]]]

DeleteMessage(m) ==
  /\ msg[m].live
  /\ Remove({m})
  /\ UNCHANGED <<chat, gen, select, portraits, edits>>

DeleteConversation ==
  /\ chat
  /\ chat' = FALSE
  /\ Remove({m \in Id : msg[m].live})
  /\ UNCHANGED <<gen, select, portraits, edits>>

-----------------------------------------------------------------------------
\* Mutant: the classification of a variant does not look at the selection.
StillSelectedUnchecked(i) == TRUE

\* "A regenerated reply only owns the portrait while it stays selected."
StillSelected(i) == portraits[i].of # i => msg[portraits[i].of].sel = i

\* persist_portrait: the row is read and written in one transaction.
StorePortrait(i, p) ==
  LET m == portraits[i].of
  IN /\ portraits[i].stage = "pending"
     /\ p # portraits[i].current
     /\ msg[m].live /\ msg[m].img = portraits[i].current
     /\ StillSelected(i)
     /\ msg' = [msg EXCEPT ![m].img = p]
     /\ told' = [told EXCEPT !.msg[m] = [msg[m] EXCEPT !.img = p]]
     /\ portraits' = [portraits EXCEPT ![i].stage = "stored"]
     /\ UNCHANGED <<chat, variant, gen, select, edits>>

\* The classifier fails, names no portrait or the one shown, or the reply is
\* no longer the one to show.
DropPortrait(i) ==
  /\ portraits[i].stage = "pending"
  /\ portraits' = [portraits EXCEPT ![i].stage = "none"]
  /\ UNCHANGED <<chat, msg, variant, gen, select, told, edits>>

-----------------------------------------------------------------------------
ReplyNext ==
  \/ \E i \in Id :
       \/ \E parent \in Id : Generate(i, parent)
       \/ GenerationFails(i)
       \/ \E reply \in {i, ""}, img \in Portrait :
            PersistReply(i, reply, img) \/ PersistVariant(i, reply, img)
       \/ EditMessage(i) \/ DeleteMessage(i)
       \/ \E p \in Portrait : StorePortrait(i, p)
       \/ DropPortrait(i)
  \/ \E m, v \in Id : CheckSelection(m, v) \/ CommitSelection(m, v)
  \/ DeleteConversation

ReplySpec == ReplyInit /\ [][ReplyNext]_replyVars

-----------------------------------------------------------------------------
(* Properties.                                                             *)

MessageRow == [live : BOOLEAN, text : Id \cup {"", "edited"}, sel : Id, img : Portrait]
VariantRow == [live : BOOLEAN, of : Id, text : Id \cup {""}]

ReplyTypeOK ==
  /\ chat \in BOOLEAN
  /\ msg \in [Id -> MessageRow]
  /\ variant \in [Id -> VariantRow]
  /\ gen \in [Id -> [stage : {"new", "running", "done"}, of : Id]]
  /\ select \in SUBSET (Id \X Id)
  /\ portraits \in [Id -> [stage : {"none", "pending", "stored"}, of : Id,
                     reply : Id \cup {""}, current : Portrait]]
  /\ told \in [msg : [Id -> MessageRow], variant : [Id -> VariantRow]]
  /\ edits \in Nat

\* persist_generation, SelectVariant, edits, deletions and portrait jobs,
\* overlapping: the selected variant of a message exists and belongs to it, no
\* variant outlives its message or a message its conversation, and the deltas of
\* messages and variants, applied in the order of their revisions, always give
\* the tables (transport.rs 73-74 relies on it).
MessagesConsistent ==
  /\ ReplyTypeOK
  /\ \A m \in Id : msg[m].live =>
       chat /\ (msg[m].sel = m \/ (variant[msg[m].sel].live /\ variant[msg[m].sel].of = m))
  /\ \A v \in Id : variant[v].live => msg[variant[v].of].live
  /\ told = [msg |-> msg, variant |-> variant]

Shown(m) == IF msg[m].sel = m THEN msg[m].text ELSE variant[msg[m].sel].text
Stores(i) == portraits[i].stage = "pending" /\ portraits'[i].stage = "stored"

\* emotion.rs 281: the portrait of a regenerated reply is stored only while
\* the text that was classified is the one shown.  It is not so for an original
\* reply, which may have been edited or regenerated meanwhile.
VariantPortraitFits ==
  [][\A i \in Id : Stores(i) /\ portraits[i].of # i => Shown(portraits[i].of) = portraits[i].reply]_replyVars

=============================================================================
