---------------------------- MODULE StoreProofs -----------------------------
(***************************************************************************)
(* What holds of what the broker stores: the messages of a conversation    *)
(* with their variants and portraits, the memories that are taken from     *)
(* them, and the accounts; for any number of generations, selections and   *)
(* edits and any MAX_PENDING, of messages, characters, jobs and writes,    *)
(* and of accounts and requests.                                           *)
(*                                                                         *)
(* RepliesInv is inductive: a selection that passed its check fits its     *)
(* message for as long as that lives, which rests on ids never coming back *)
(* (a generation that has not ended has left no row), and a pending        *)
(* classification of a variant has the variant's text.                     *)
(*                                                                         *)
(* MemInv is inductive: what a run is about to mark as read it has taken,  *)
(* or was read before; a message written since has a newer revision.       *)
(*                                                                         *)
(* AccountsInv is inductive: as long as no two requests overlapped, one    *)
(* handler at most has checked what it has not written yet, and what it    *)
(* checked is still so: an administrator other than the one it takes away  *)
(* is there.                                                               *)
(***************************************************************************)
EXTENDS Replies, MemoryJobs, Accounts, TLAPS

-----------------------------------------------------------------------------
(* Messages and variants: the invariant.                                   *)

\* The selected variant of a message exists and is the message's own.
SelectedThere(m, s) == s = m \/ (variant[s].live /\ variant[s].of = m)

MessagesFit == \A m \in Id : msg[m].live => chat /\ SelectedThere(m, msg[m].sel)
VariantsFit == \A v \in Id : variant[v].live => msg[variant[v].of].live
ToldExact == told = [msg |-> msg, variant |-> variant]

\* A generation that has not ended has left no row and no portrait job.
UnfinishedIsBare ==
  \A i \in Id : gen[i].stage # "done" =>
    ~msg[i].live /\ ~variant[i].live /\ portraits[i].stage = "none"

\* A selection that passed its check still fits, unless its message is gone; an
\* id that was a message never becomes one again.
SelectionsFit ==
  \A m, v \in Id : <<m, v>> \in select =>
    gen[m].stage = "done" /\ (msg[m].live => SelectedThere(m, v))

\* A pending classification of a variant has the variant's text.
PendingFits ==
  \A i \in Id : portraits[i].stage = "pending" /\ portraits[i].of # i /\ variant[i].live =>
    variant[i].text = portraits[i].reply

RepliesInv ==
  /\ ReplyTypeOK /\ MessagesFit /\ VariantsFit /\ ToldExact
  /\ UnfinishedIsBare /\ SelectionsFit /\ PendingFits

\* A reply, and a portrait job, as ReplyTypeOK has them.
ReplyText == Id \cup {""}
PortraitJob == [stage : {"none", "pending", "stored"}, of : Id,
                reply : Id \cup {""}, current : Portrait]

-----------------------------------------------------------------------------
(* Messages and variants: what the rows are.                               *)

\* The rows that stand for nothing are rows.
LEMMA EmptyRows ==
  ASSUME NEW i \in Id
  PROVE  /\ NoMessage(i) \in MessageRow /\ ~NoMessage(i).live
         /\ NoVariant(i) \in VariantRow /\ ~NoVariant(i).live /\ NoVariant(i).of = i
<1> DEFINE p == CHOOSE p \in Portrait : TRUE
<1>1. p \in Portrait
  BY Zenon, RepliesAssumption
<1> HIDE DEF p
<1> DEFINE r == [live |-> FALSE, text |-> "", sel |-> i, img |-> p]
<1>2. r \in MessageRow /\ ~r.live
  BY <1>1 DEF MessageRow
<1>3. NoMessage(i) = r
  BY Zenon DEF NoMessage, p
<1>4. NoVariant(i) \in VariantRow /\ ~NoVariant(i).live /\ NoVariant(i).of = i
  BY DEF NoVariant, VariantRow
<1> HIDE DEF r
<1> QED
  BY Zenon, <1>2, <1>3, <1>4

\* A row of messages has its columns; writing one leaves the others.
LEMMA MessageColumns ==
  ASSUME NEW r \in MessageRow, NEW s \in Id, NEW p \in Portrait
  PROVE  /\ r.live \in BOOLEAN /\ r.sel \in Id
         /\ [r EXCEPT !.sel = s] \in MessageRow
         /\ [r EXCEPT !.sel = s].live = r.live /\ [r EXCEPT !.sel = s].sel = s
         /\ [r EXCEPT !.img = p] \in MessageRow
         /\ [r EXCEPT !.img = p].live = r.live /\ [r EXCEPT !.img = p].sel = r.sel
         /\ [r EXCEPT !.text = "edited"] \in MessageRow
         /\ [r EXCEPT !.text = "edited"].live = r.live
         /\ [r EXCEPT !.text = "edited"].sel = r.sel
<1>1. r.live \in BOOLEAN /\ r.sel \in Id
  BY DEF MessageRow
<1>2. /\ [r EXCEPT !.sel = s] \in MessageRow
      /\ [r EXCEPT !.sel = s].live = r.live /\ [r EXCEPT !.sel = s].sel = s
  BY DEF MessageRow
<1>3. /\ [r EXCEPT !.img = p] \in MessageRow
      /\ [r EXCEPT !.img = p].live = r.live /\ [r EXCEPT !.img = p].sel = r.sel
  BY DEF MessageRow
<1>4. /\ [r EXCEPT !.text = "edited"] \in MessageRow
      /\ [r EXCEPT !.text = "edited"].live = r.live
      /\ [r EXCEPT !.text = "edited"].sel = r.sel
  BY DEF MessageRow
<1> QED
  BY Zenon, <1>1, <1>2, <1>3, <1>4

\* The rows that persist_generation writes for a variant.
Reselected(r, s, p) == [r EXCEPT !.sel = s, !.img = p]
NewVariant(m, reply) == [live |-> TRUE, of |-> m, text |-> reply]

\* They are rows.
LEMMA NewColumns ==
  ASSUME NEW m \in Id, NEW reply \in ReplyText
  PROVE  /\ NewVariant(m, reply) \in VariantRow /\ NewVariant(m, reply).live
         /\ NewVariant(m, reply).of = m /\ NewVariant(m, reply).text = reply
  BY DEF VariantRow, ReplyText, NewVariant

\* The message keeps its other columns.
LEMMA SelectedColumns ==
  ASSUME NEW r \in MessageRow, NEW s \in Id, NEW p \in Portrait
  PROVE  /\ Reselected(r, s, p) \in MessageRow
         /\ Reselected(r, s, p).live = r.live /\ Reselected(r, s, p).sel = s
  BY DEF MessageRow, Reselected

\* A portrait job has its fields; ending it leaves the others.
LEMMA JobColumns ==
  ASSUME NEW j \in PortraitJob
  PROVE  /\ j.of \in Id
         /\ [j EXCEPT !.stage = "stored"] \in PortraitJob
         /\ [j EXCEPT !.stage = "stored"].stage # "pending"
         /\ [j EXCEPT !.stage = "none"] \in PortraitJob
         /\ [j EXCEPT !.stage = "none"].stage # "pending"
  BY DEF PortraitJob

\* A row of messages written to the tables and to the delta.
LEMMA ToldRow ==
  ASSUME NEW f, NEW g, NEW m, NEW r
  PROVE  [[msg |-> f, variant |-> g] EXCEPT !.msg[m] = r]
           = [msg |-> [f EXCEPT ![m] = r], variant |-> g]
  OBVIOUS

\* The same for a variant and its message.
LEMMA ToldVariant ==
  ASSUME NEW f, NEW g, NEW m, NEW r, NEW i, NEW n
  PROVE  [[msg |-> f, variant |-> g] EXCEPT !.variant[i] = n, !.msg[m] = r]
           = [msg |-> [f EXCEPT ![m] = r], variant |-> [g EXCEPT ![i] = n]]
<1> DEFINE t == [msg |-> f, variant |-> g]
           h == [g EXCEPT ![i] = n]
<1>1. [t EXCEPT !.variant[i] = n] = [msg |-> f, variant |-> h]
  OBVIOUS
<1>2. ASSUME NEW w, w = [msg |-> f, variant |-> h]
      PROVE  [w EXCEPT !.msg[m] = r] = [msg |-> [f EXCEPT ![m] = r], variant |-> h]
  <2> HIDE DEF h
  <2> QED
    BY <1>2
<1> HIDE DEF h, t
<1>3. [[t EXCEPT !.variant[i] = n] EXCEPT !.msg[m] = r]
        = [msg |-> [f EXCEPT ![m] = r], variant |-> h]
  BY Zenon, <1>1, <1>2
<1> QED
  BY Zenon, <1>3 DEF h, t

\* What the deltas give is typed as the tables are.
LEMMA ToldPair ==
  ASSUME NEW f \in [Id -> MessageRow], NEW g \in [Id -> VariantRow],
         NEW t, t = [msg |-> f, variant |-> g]
  PROVE  t \in [msg : [Id -> MessageRow], variant : [Id -> VariantRow]]
  OBVIOUS

\* The invariant holds initially.
LEMMA RepliesInit ==
  ASSUME ReplyInit
  PROVE  RepliesInv
<1>1. msg \in [Id -> MessageRow] /\ \A i \in Id : ~msg[i].live
  BY Zenon, EmptyRows DEF ReplyInit
<1>2. variant \in [Id -> VariantRow] /\ \A i \in Id : ~variant[i].live
  BY Zenon, EmptyRows DEF ReplyInit
<1>3. gen \in [Id -> [stage : {"new", "running", "done"}, of : Id]]
  BY DEF ReplyInit
<1>4. /\ portraits \in [Id -> [stage : {"none", "pending", "stored"}, of : Id,
                               reply : Id \cup {""}, current : Portrait]]
      /\ \A i \in Id : portraits[i].stage = "none"
  <2> DEFINE p == CHOOSE p \in Portrait : TRUE
  <2>1. p \in Portrait
    BY Zenon, RepliesAssumption
  <2>2. portraits = [i \in Id |-> [stage |-> "none", of |-> i, reply |-> "", current |-> p]]
    BY Zenon DEF ReplyInit, NoJob
  <2> HIDE DEF p
  <2> QED
    BY <2>1, <2>2
<1>5. told \in [msg : [Id -> MessageRow], variant : [Id -> VariantRow]] /\ ToldExact
  BY <1>1, <1>2 DEF ReplyInit, ToldExact
<1>6. ReplyTypeOK
  BY <1>1, <1>2, <1>3, <1>4, <1>5 DEF ReplyInit, ReplyTypeOK
<1>7. MessagesFit /\ VariantsFit /\ UnfinishedIsBare
  BY Zenon, <1>1, <1>2, <1>4 DEF MessagesFit, VariantsFit, UnfinishedIsBare
<1>8. SelectionsFit /\ PendingFits
  BY Zenon, <1>2 DEF ReplyInit, SelectionsFit, PendingFits
<1> QED
  BY Zenon, <1>5, <1>6, <1>7, <1>8 DEF RepliesInv

-----------------------------------------------------------------------------
(* Messages and variants: every step keeps the invariant.                  *)

\* Rewriting the row of a message that exists, with a selection that fits.
LEMMA RowRewritten ==
  ASSUME RepliesInv, NEW m \in Id, NEW r \in MessageRow,
         msg[m].live, r.live, SelectedThere(m, r.sel),
         msg' = [msg EXCEPT ![m] = r], told' = [told EXCEPT !.msg[m] = r],
         UNCHANGED <<chat, variant>>
  PROVE  /\ msg' \in [Id -> MessageRow] /\ \A i \in Id : msg'[i].live = msg[i].live
         /\ told' \in [msg : [Id -> MessageRow], variant : [Id -> VariantRow]]
         /\ MessagesFit' /\ VariantsFit' /\ ToldExact'
<1>1. msg \in [Id -> MessageRow] /\ variant \in [Id -> VariantRow]
  BY Zenon DEF RepliesInv, ReplyTypeOK
<1>2. \A v \in Id : variant[v].of \in Id
  BY <1>1 DEF VariantRow
<1>3. /\ msg' \in [Id -> MessageRow] /\ msg'[m] = r
      /\ \A i \in Id : i # m => msg'[i] = msg[i]
  BY Zenon, <1>1
<1>4. \A i \in Id : msg'[i].live = msg[i].live
  <2>1. msg'[m].live = msg[m].live
    <3>1. r.live \in BOOLEAN /\ msg[m].live \in BOOLEAN
      BY <1>1 DEF MessageRow
    <3> QED
      BY Zenon, <1>3, <3>1
  <2> QED
    BY Zenon, <1>3, <2>1
<1>5. MessagesFit'
  <2> SUFFICES ASSUME NEW i \in Id, msg'[i].live
               PROVE  chat' /\ SelectedThere(i, msg[i].sel)'
    BY Zenon DEF MessagesFit
  <2>1. chat'
    BY Zenon, <1>4 DEF RepliesInv, MessagesFit
  <2>2. CASE i = m
    BY Zenon, <1>3, <2>1, <2>2 DEF SelectedThere
  <2>3. CASE i # m
    BY Zenon, <1>3, <2>1, <2>3 DEF SelectedThere, RepliesInv, MessagesFit
  <2> QED
    BY Zenon, <2>2, <2>3
<1>6. VariantsFit'
  BY Zenon, <1>2, <1>4 DEF RepliesInv, VariantsFit
<1>7. ToldExact'
  <2>1. told' = [[msg |-> msg, variant |-> variant] EXCEPT !.msg[m] = r]
    BY Zenon DEF RepliesInv, ToldExact
  <2>2. told' = [msg |-> [msg EXCEPT ![m] = r], variant |-> variant]
    BY Zenon, <2>1, ToldRow
  <2>3. msg' = [msg EXCEPT ![m] = r] /\ variant' = variant
    BY Zenon
  <2>4. told' = [msg |-> msg', variant |-> variant']
    BY Zenon, <2>2, <2>3
  <2> QED
    BY Zenon, <2>4 DEF ToldExact
<1>8. told' \in [msg : [Id -> MessageRow], variant : [Id -> VariantRow]]
  <2>1. variant' \in [Id -> VariantRow]
    BY Zenon, <1>1
  <2>2. told' = [msg |-> msg', variant |-> variant']
    BY Zenon, <1>7 DEF ToldExact
  <2> QED
    BY Zenon, <1>3, <2>1, <2>2, ToldPair
<1> QED
  BY Zenon, <1>3, <1>4, <1>5, <1>6, <1>7, <1>8

\* A generation starts or fails.
LEMMA GenerationKeeps ==
  ASSUME RepliesInv, NEW i \in Id,
         GenerationFails(i) \/ \E parent \in Id : Generate(i, parent)
  PROVE  RepliesInv'
<1> DEFINE Gen == [stage : {"new", "running", "done"}, of : Id]
<1>1. gen \in [Id -> Gen]
  BY Zenon DEF RepliesInv, ReplyTypeOK
<1>2. PICK g \in Gen : /\ gen' = [gen EXCEPT ![i] = g] /\ gen[i].stage # "done"
                       /\ UNCHANGED <<chat, msg, variant, select, portraits, told, edits>>
  <2>1. CASE GenerationFails(i)
    <3>1. [gen[i] EXCEPT !.stage = "done"] \in Gen
      BY <1>1
    <3> HIDE DEF Gen
    <3>2. gen[i].stage = "running" /\ gen' = [gen EXCEPT ![i] = [gen[i] EXCEPT !.stage = "done"]]
      BY Zenon, <2>1 DEF GenerationFails
    <3>3. gen[i].stage # "done"
      BY <3>2
    <3> QED
      BY Zenon, <2>1, <3>1, <3>2, <3>3 DEF GenerationFails
  <2>2. ASSUME NEW parent \in Id, Generate(i, parent)
        PROVE  \E g \in Gen : /\ gen' = [gen EXCEPT ![i] = g] /\ gen[i].stage # "done"
                              /\ UNCHANGED <<chat, msg, variant, select, portraits, told, edits>>
    <3>1. [stage |-> "running", of |-> parent] \in Gen
      OBVIOUS
    <3>2. gen[i].stage # "done"
      BY <2>2 DEF Generate
    <3> HIDE DEF Gen
    <3> QED
      BY Zenon, <2>2, <3>1, <3>2 DEF Generate
  <2> HIDE DEF Gen
  <2> QED
    BY Zenon, <2>1, <2>2
<1> HIDE DEF Gen
<1>3. gen' \in [Id -> Gen] /\ \A j \in Id : j # i => gen'[j] = gen[j]
  BY Zenon, <1>1, <1>2
<1>4. ReplyTypeOK'
  BY Zenon, <1>2, <1>3 DEF RepliesInv, ReplyTypeOK, Gen
<1>5. MessagesFit' /\ VariantsFit' /\ ToldExact'
  BY Zenon, <1>2 DEF RepliesInv, MessagesFit, VariantsFit, ToldExact, SelectedThere
<1>6. UnfinishedIsBare'
  BY Zenon, <1>2, <1>3 DEF RepliesInv, UnfinishedIsBare
<1>7. SelectionsFit'
  <2>1. \A v \in Id : <<i, v>> \notin select
    BY Zenon, <1>2 DEF RepliesInv, SelectionsFit
  <2> QED
    BY Zenon, <1>2, <1>3, <2>1 DEF RepliesInv, SelectionsFit, SelectedThere
<1>8. PendingFits'
  BY Zenon, <1>2 DEF RepliesInv, PendingFits
<1> QED
  BY Zenon, <1>4, <1>5, <1>6, <1>7, <1>8 DEF RepliesInv

\* A step that writes no variant, and only ends selections and portrait jobs.
LEMMA RestKept ==
  ASSUME RepliesInv, UNCHANGED <<variant, gen>>,
         \A i \in Id : msg'[i].live = msg[i].live,
         select' \subseteq select,
         \A i \in Id : \/ portraits'[i] = portraits[i]
                       \/ portraits[i].stage = "pending" /\ portraits'[i].stage # "pending"
  PROVE  UnfinishedIsBare' /\ SelectionsFit' /\ PendingFits'
<1>1. UnfinishedIsBare'
  <2> SUFFICES ASSUME NEW i \in Id, gen[i].stage # "done"
               PROVE  ~msg'[i].live /\ ~variant[i].live /\ portraits'[i].stage = "none"
    BY Zenon DEF UnfinishedIsBare
  <2>1. ~msg[i].live /\ ~variant[i].live /\ portraits[i].stage = "none"
    BY Zenon DEF RepliesInv, UnfinishedIsBare
  <2>2. portraits[i].stage # "pending"
    BY <2>1
  <2>3. portraits'[i] = portraits[i]
    BY Zenon, <2>2
  <2> QED
    BY Zenon, <2>1, <2>3
<1>2. SelectionsFit'
  <2> SUFFICES ASSUME NEW m \in Id, NEW v \in Id, <<m, v>> \in select'
               PROVE  gen[m].stage = "done" /\ (msg'[m].live => SelectedThere(m, v))
    BY Zenon DEF SelectionsFit, SelectedThere
  <2>1. <<m, v>> \in select
    BY Zenon
  <2> QED
    BY Zenon, <2>1 DEF RepliesInv, SelectionsFit
<1>3. PendingFits'
  <2> SUFFICES ASSUME NEW i \in Id, portraits'[i].stage = "pending",
                      portraits'[i].of # i, variant[i].live
               PROVE  variant[i].text = portraits'[i].reply
    BY Zenon DEF PendingFits
  <2>1. portraits'[i] = portraits[i]
    BY Zenon
  <2> QED
    BY Zenon, <2>1 DEF RepliesInv, PendingFits
<1> QED
  BY Zenon, <1>1, <1>2, <1>3

\* UpdateMessage.
LEMMA EditKeeps ==
  ASSUME RepliesInv, NEW m \in Id, EditMessage(m)
  PROVE  RepliesInv'
<1> DEFINE r == [msg[m] EXCEPT !.text = "edited"]
<1>1. msg \in [Id -> MessageRow] /\ msg[m] \in MessageRow /\ edits \in Nat
  BY Zenon DEF RepliesInv, ReplyTypeOK
<1>2. r \in MessageRow /\ r.live = msg[m].live /\ r.sel = msg[m].sel
  BY <1>1 DEF MessageRow
<1>3. msg[m].live /\ UNCHANGED <<chat, variant, gen, select, portraits>> /\ edits' = edits + 1
  BY Zenon DEF EditMessage
<1>4. msg' = [msg EXCEPT ![m] = r] /\ told' = [told EXCEPT !.msg[m] = r]
  BY Zenon DEF EditMessage
<1> HIDE DEF r
<1>5. r.live /\ SelectedThere(m, r.sel)
  BY Zenon, <1>2, <1>3 DEF RepliesInv, MessagesFit
<1>6. /\ msg' \in [Id -> MessageRow] /\ \A i \in Id : msg'[i].live = msg[i].live
      /\ told' \in [msg : [Id -> MessageRow], variant : [Id -> VariantRow]]
      /\ MessagesFit' /\ VariantsFit' /\ ToldExact'
  BY Zenon, <1>2, <1>3, <1>4, <1>5, RowRewritten
<1>7. UnfinishedIsBare' /\ SelectionsFit' /\ PendingFits'
  BY Zenon, <1>3, <1>6, RestKept
<1>8. edits' \in Nat
  BY <1>1, <1>3
<1>9. ReplyTypeOK'
  <2>1. /\ msg' \in [Id -> MessageRow]
        /\ told' \in [msg : [Id -> MessageRow], variant : [Id -> VariantRow]]
    BY Zenon, <1>6
  <2> QED
    BY Zenon, <1>3, <1>8, <2>1 DEF RepliesInv, ReplyTypeOK
<1> QED
  BY Zenon, <1>6, <1>7, <1>9 DEF RepliesInv

\* SelectVariant, its transaction.
LEMMA SelectionKeeps ==
  ASSUME RepliesInv, NEW m \in Id, NEW v \in Id, CommitSelection(m, v)
  PROVE  RepliesInv'
<1> DEFINE r == [msg[m] EXCEPT !.sel = v]
<1>1. msg \in [Id -> MessageRow] /\ msg[m] \in MessageRow
  BY Zenon DEF RepliesInv, ReplyTypeOK
<1>2. r \in MessageRow /\ r.live = msg[m].live /\ r.sel = v
  BY <1>1 DEF MessageRow
<1>3. <<m, v>> \in select /\ UNCHANGED <<chat, variant, gen, portraits, edits>>
  BY Zenon DEF CommitSelection
<1>4. select' \subseteq select /\ select' \in SUBSET (Id \X Id)
  BY Zenon DEF CommitSelection, RepliesInv, ReplyTypeOK
<1>5. told.msg = msg
  BY DEF RepliesInv, ToldExact
<1>6. /\ msg' \in [Id -> MessageRow] /\ \A i \in Id : msg'[i].live = msg[i].live
      /\ told' \in [msg : [Id -> MessageRow], variant : [Id -> VariantRow]]
      /\ MessagesFit' /\ VariantsFit' /\ ToldExact'
  <2>1. CASE ~msg[m].live
    <3>1. msg' = msg /\ told' = told
      BY Zenon, <1>5, <2>1 DEF CommitSelection
    <3> QED
      BY Zenon, <1>3, <3>1
      DEF RepliesInv, ReplyTypeOK, MessagesFit, VariantsFit, ToldExact, SelectedThere
  <2>2. CASE msg[m].live
    <3>1. msg' = [msg EXCEPT ![m] = r]
      BY Zenon, <2>2 DEF CommitSelection
    <3>2. told' = [told EXCEPT !.msg[m] = [told.msg[m] EXCEPT !.sel = v]]
      BY Zenon, <1>5, <2>2 DEF CommitSelection
    <3>3. told' = [told EXCEPT !.msg[m] = r]
      BY Zenon, <1>5, <3>2
    <3> HIDE DEF r
    <3>4. r.live /\ SelectedThere(m, r.sel)
      BY Zenon, <1>2, <1>3, <2>2 DEF RepliesInv, SelectionsFit
    <3> QED
      BY Zenon, <1>2, <1>3, <2>2, <3>1, <3>3, <3>4, RowRewritten
  <2> QED
    BY Zenon, <2>1, <2>2
<1>7. UnfinishedIsBare' /\ SelectionsFit' /\ PendingFits'
  BY Zenon, <1>3, <1>4, <1>6, RestKept
<1>8. ReplyTypeOK'
  <2>1. /\ msg' \in [Id -> MessageRow]
        /\ told' \in [msg : [Id -> MessageRow], variant : [Id -> VariantRow]]
    BY Zenon, <1>6
  <2> QED
    BY Zenon, <1>3, <1>4, <2>1 DEF RepliesInv, ReplyTypeOK
<1> QED
  BY Zenon, <1>6, <1>7, <1>8 DEF RepliesInv

\* SelectVariant, its check.
LEMMA CheckKeeps ==
  ASSUME RepliesInv, NEW m \in Id, NEW v \in Id, CheckSelection(m, v)
  PROVE  RepliesInv'
<1>1. /\ msg[m].live /\ SelectedThere(m, v) /\ select' = select \cup {<<m, v>>}
      /\ edits' = edits + 1 /\ UNCHANGED <<chat, msg, variant, gen, portraits, told>>
  BY Zenon DEF CheckSelection, SelectedThere
<1>2. edits \in Nat /\ select \in SUBSET (Id \X Id)
  BY Zenon DEF RepliesInv, ReplyTypeOK
<1>3. edits' \in Nat /\ select' \in SUBSET (Id \X Id)
  BY <1>1, <1>2
<1>4. ReplyTypeOK'
  BY Zenon, <1>1, <1>3 DEF RepliesInv, ReplyTypeOK
<1>5. MessagesFit' /\ VariantsFit' /\ ToldExact' /\ UnfinishedIsBare' /\ PendingFits'
  BY Zenon, <1>1 DEF RepliesInv, MessagesFit, VariantsFit, ToldExact, SelectedThere,
                     UnfinishedIsBare, PendingFits
<1>6. SelectionsFit'
  <2> SUFFICES ASSUME NEW n \in Id, NEW w \in Id, <<n, w>> \in select'
               PROVE  gen[n].stage = "done" /\ (msg[n].live => SelectedThere(n, w))
    BY Zenon, <1>1 DEF SelectionsFit, SelectedThere
  <2>1. CASE <<n, w>> \in select
    BY Zenon, <2>1 DEF RepliesInv, SelectionsFit
  <2>2. CASE <<n, w>> = <<m, v>>
    <3>1. n = m /\ w = v
      BY <2>2
    <3>2. gen[m].stage = "done"
      BY Zenon, <1>1 DEF RepliesInv, UnfinishedIsBare
    <3> QED
      BY Zenon, <1>1, <3>1, <3>2
  <2> QED
    BY Zenon, <1>1, <2>1, <2>2
<1> QED
  BY Zenon, <1>4, <1>5, <1>6 DEF RepliesInv

\* persist_portrait: the job ends, and the portrait is stored.
LEMMA PortraitKeeps ==
  ASSUME RepliesInv, NEW i \in Id, NEW p \in Portrait, StorePortrait(i, p)
  PROVE  RepliesInv'
<1>1. /\ msg \in [Id -> MessageRow] /\ portraits \in [Id -> PortraitJob]
  BY Zenon DEF RepliesInv, ReplyTypeOK, PortraitJob
<1>2. portraits[i].of \in Id /\ [portraits[i] EXCEPT !.stage = "stored"] \in PortraitJob
        /\ [portraits[i] EXCEPT !.stage = "stored"].stage # "pending"
  <2>1. portraits[i] \in PortraitJob
    BY Zenon, <1>1
  <2> QED
    BY Zenon, <2>1, JobColumns
<1>3. PICK m \in Id : m = portraits[i].of
  BY Zenon, <1>2
<1> DEFINE r == [msg[m] EXCEPT !.img = p]
<1>4. r \in MessageRow /\ r.live = msg[m].live /\ r.sel = msg[m].sel
  <2>1. msg[m] \in MessageRow
    BY Zenon, <1>1
  <2> QED
    BY Zenon, <2>1, MessageColumns
<1>5. /\ portraits[i].stage = "pending" /\ msg[m].live
      /\ UNCHANGED <<chat, variant, gen, select, edits>>
      /\ portraits' = [portraits EXCEPT ![i] = [portraits[i] EXCEPT !.stage = "stored"]]
  BY Zenon, <1>3 DEF StorePortrait
<1>6. msg' = [msg EXCEPT ![m] = r] /\ told' = [told EXCEPT !.msg[m] = r]
  BY Zenon, <1>3 DEF StorePortrait
<1> HIDE DEF r
<1>7. r.live /\ SelectedThere(m, r.sel)
  BY Zenon, <1>4, <1>5 DEF RepliesInv, MessagesFit
<1>8. /\ msg' \in [Id -> MessageRow] /\ \A j \in Id : msg'[j].live = msg[j].live
      /\ told' \in [msg : [Id -> MessageRow], variant : [Id -> VariantRow]]
      /\ MessagesFit' /\ VariantsFit' /\ ToldExact'
  BY Zenon, <1>4, <1>5, <1>6, <1>7, RowRewritten
<1>9. /\ portraits' \in [Id -> PortraitJob]
      /\ \A j \in Id : \/ portraits'[j] = portraits[j]
                       \/ portraits[j].stage = "pending" /\ portraits'[j].stage # "pending"
  BY Zenon, <1>1, <1>2, <1>5
<1>10. UnfinishedIsBare' /\ SelectionsFit' /\ PendingFits'
  <2>1. select' \subseteq select /\ UNCHANGED <<variant, gen>>
    BY Zenon, <1>5
  <2> QED
    BY Zenon, <1>8, <1>9, <2>1, RestKept
<1>11. ReplyTypeOK'
  <2>1. /\ msg' \in [Id -> MessageRow] /\ portraits' \in [Id -> PortraitJob]
        /\ told' \in [msg : [Id -> MessageRow], variant : [Id -> VariantRow]]
    BY Zenon, <1>8, <1>9
  <2> QED
    BY Zenon, <1>5, <2>1 DEF RepliesInv, ReplyTypeOK, PortraitJob
<1> QED
  BY Zenon, <1>8, <1>10, <1>11 DEF RepliesInv

\* The classification comes to nothing.
LEMMA DropKeeps ==
  ASSUME RepliesInv, NEW i \in Id, DropPortrait(i)
  PROVE  RepliesInv'
<1>1. portraits \in [Id -> PortraitJob]
  BY Zenon DEF RepliesInv, ReplyTypeOK, PortraitJob
<1>2. /\ [portraits[i] EXCEPT !.stage = "none"] \in PortraitJob
      /\ [portraits[i] EXCEPT !.stage = "none"].stage # "pending"
  <2>1. portraits[i] \in PortraitJob
    BY Zenon, <1>1
  <2> QED
    BY Zenon, <2>1, JobColumns
<1>3. /\ portraits[i].stage = "pending"
      /\ UNCHANGED <<chat, msg, variant, gen, select, told, edits>>
      /\ portraits' = [portraits EXCEPT ![i] = [portraits[i] EXCEPT !.stage = "none"]]
  BY Zenon DEF DropPortrait
<1>4. /\ portraits' \in [Id -> PortraitJob]
      /\ \A j \in Id : \/ portraits'[j] = portraits[j]
                       \/ portraits[j].stage = "pending" /\ portraits'[j].stage # "pending"
  BY Zenon, <1>1, <1>2, <1>3
<1>5. UnfinishedIsBare' /\ SelectionsFit' /\ PendingFits'
  BY Zenon, <1>3, <1>4, RestKept
<1>6. MessagesFit' /\ VariantsFit' /\ ToldExact'
  BY Zenon, <1>3 DEF RepliesInv, MessagesFit, VariantsFit, ToldExact, SelectedThere
<1>7. ReplyTypeOK'
  BY Zenon, <1>3, <1>4 DEF RepliesInv, ReplyTypeOK, PortraitJob
<1> QED
  BY Zenon, <1>5, <1>6, <1>7 DEF RepliesInv

\* schedule_portrait_classification starts at most the job of the new reply.
LEMMA Scheduled ==
  ASSUME RepliesInv, NEW i \in Id, NEW parent \in Id, NEW reply \in ReplyText,
         NEW img \in Portrait, SchedulePortrait(i, parent, reply, img)
  PROVE  /\ portraits' \in [Id -> PortraitJob]
         /\ \A j \in Id : j # i => portraits'[j] = portraits[j]
         /\ \/ portraits'[i] = portraits[i]
            \/ portraits'[i].of = parent /\ portraits'[i].reply = reply
<1> DEFINE planned == [stage |-> "pending", of |-> parent, reply |-> reply, current |-> img]
<1>1. portraits \in [Id -> PortraitJob]
  BY Zenon DEF RepliesInv, ReplyTypeOK, PortraitJob
<1>2. planned \in PortraitJob /\ planned.of = parent /\ planned.reply = reply
  BY DEF PortraitJob, ReplyText
<1>3. portraits' = portraits \/ portraits' = [portraits EXCEPT ![i] = planned]
  BY Zenon DEF SchedulePortrait
<1> HIDE DEF planned
<1> QED
  BY Zenon, <1>1, <1>2, <1>3

\* The generation i ends.
LEMMA GenerationEnds ==
  ASSUME RepliesInv, NEW i \in Id, gen' = [gen EXCEPT ![i].stage = "done"]
  PROVE  /\ gen' \in [Id -> [stage : {"new", "running", "done"}, of : Id]]
         /\ gen'[i].stage = "done" /\ \A j \in Id : j # i => gen'[j] = gen[j]
<1> DEFINE Gen == [stage : {"new", "running", "done"}, of : Id]
           g == [gen[i] EXCEPT !.stage = "done"]
<1>1. gen \in [Id -> Gen]
  BY Zenon DEF RepliesInv, ReplyTypeOK
<1>2. g \in Gen /\ g.stage = "done"
  BY <1>1
<1>3. gen' = [gen EXCEPT ![i] = g]
  BY Zenon
<1> HIDE DEF g, Gen
<1>4. gen' \in [Id -> Gen] /\ gen'[i].stage = "done" /\ \A j \in Id : j # i => gen'[j] = gen[j]
  BY Zenon, <1>1, <1>2, <1>3
<1> QED
  BY Zenon, <1>4 DEF Gen

\* persist_generation for a new message.
LEMMA ReplyKeeps ==
  ASSUME RepliesInv, NEW i \in Id, NEW reply \in ReplyText, NEW img \in Portrait,
         PersistReply(i, reply, img)
  PROVE  RepliesInv'
<1> DEFINE r == [live |-> TRUE, text |-> reply, sel |-> i, img |-> img]
<1>1. msg \in [Id -> MessageRow] /\ variant \in [Id -> VariantRow]
  BY Zenon DEF RepliesInv, ReplyTypeOK
<1>2. r \in MessageRow /\ r.live /\ r.sel = i
  BY DEF MessageRow, ReplyText
<1>3. /\ gen[i] = [stage |-> "running", of |-> i] /\ chat /\ gen' = [gen EXCEPT ![i].stage = "done"]
      /\ msg' = [msg EXCEPT ![i] = r] /\ told' = [told EXCEPT !.msg[i] = r]
      /\ SchedulePortrait(i, i, reply, img) /\ UNCHANGED <<chat, variant, select, edits>>
  BY Zenon DEF PersistReply
<1> HIDE DEF r
<1>4. gen[i].stage # "done"
  <2>1. gen[i] = [stage |-> "running", of |-> i]
    BY Zenon, <1>3
  <2> QED
    BY <2>1
<1>5. ~msg[i].live /\ ~variant[i].live
  BY Zenon, <1>4 DEF RepliesInv, UnfinishedIsBare
<1>6. /\ msg' \in [Id -> MessageRow] /\ msg'[i] = r
      /\ \A j \in Id : j # i => msg'[j] = msg[j]
  BY Zenon, <1>1, <1>2, <1>3
<1>7. /\ gen' \in [Id -> [stage : {"new", "running", "done"}, of : Id]]
      /\ gen'[i].stage = "done" /\ \A j \in Id : j # i => gen'[j] = gen[j]
  BY Zenon, <1>3, GenerationEnds
<1>8. /\ portraits' \in [Id -> PortraitJob]
      /\ \A j \in Id : j # i => portraits'[j] = portraits[j]
      /\ \/ portraits'[i] = portraits[i]
         \/ portraits'[i].of = i /\ portraits'[i].reply = reply
  <2>1. SchedulePortrait(i, i, reply, img)
    BY Zenon, <1>3
  <2> QED
    BY Zenon, <2>1, Scheduled
<1>9. told' = [msg |-> msg', variant |-> variant']
  <2>1. told' = [[msg |-> msg, variant |-> variant] EXCEPT !.msg[i] = r]
    BY Zenon, <1>3 DEF RepliesInv, ToldExact
  <2>2. told' = [msg |-> [msg EXCEPT ![i] = r], variant |-> variant]
    BY Zenon, <2>1, ToldRow
  <2> QED
    BY Zenon, <1>3, <2>2
<1>10. ReplyTypeOK'
  <2>1. variant' \in [Id -> VariantRow]
    BY Zenon, <1>1, <1>3
  <2>2. told' \in [msg : [Id -> MessageRow], variant : [Id -> VariantRow]]
    BY Zenon, <1>6, <1>9, <2>1, ToldPair
  <2>3. /\ chat' \in BOOLEAN /\ select' \in SUBSET (Id \X Id) /\ edits' \in Nat
    BY Zenon, <1>3 DEF RepliesInv, ReplyTypeOK
  <2>4. msg' \in [Id -> MessageRow] /\ portraits' \in [Id -> PortraitJob]
        /\ gen' \in [Id -> [stage : {"new", "running", "done"}, of : Id]]
    BY Zenon, <1>6, <1>7, <1>8
  <2> QED
    BY Zenon, <2>1, <2>2, <2>3, <2>4 DEF ReplyTypeOK, PortraitJob
<1>11. MessagesFit'
  <2> SUFFICES ASSUME NEW m \in Id, msg'[m].live
               PROVE  SelectedThere(m, msg[m].sel)'
    BY Zenon, <1>3 DEF MessagesFit
  <2>1. CASE m = i
    BY Zenon, <1>2, <1>6, <2>1 DEF SelectedThere
  <2>2. CASE m # i
    BY Zenon, <1>3, <1>6, <2>2 DEF SelectedThere, RepliesInv, MessagesFit
  <2> QED
    BY Zenon, <2>1, <2>2
<1>12. VariantsFit'
  <2> SUFFICES ASSUME NEW v \in Id, variant[v].live
               PROVE  msg'[variant[v].of].live
    BY Zenon, <1>3 DEF VariantsFit
  <2>1. variant[v].of \in Id
    BY <1>1 DEF VariantRow
  <2>2. msg[variant[v].of].live
    BY Zenon DEF RepliesInv, VariantsFit
  <2> QED
    BY Zenon, <1>2, <1>6, <2>1, <2>2
<1>13. UnfinishedIsBare'
  <2> SUFFICES ASSUME NEW j \in Id, gen'[j].stage # "done"
               PROVE  ~msg'[j].live /\ ~variant[j].live /\ portraits'[j].stage = "none"
    BY Zenon, <1>3 DEF UnfinishedIsBare
  <2>1. j # i
    BY Zenon, <1>7
  <2> QED
    BY Zenon, <1>6, <1>7, <1>8, <2>1 DEF RepliesInv, UnfinishedIsBare
<1>14. SelectionsFit'
  <2> SUFFICES ASSUME NEW m \in Id, NEW v \in Id, <<m, v>> \in select
               PROVE  gen'[m].stage = "done" /\ (msg'[m].live => SelectedThere(m, v))
    BY Zenon, <1>3 DEF SelectionsFit, SelectedThere
  <2>1. gen[m].stage = "done" /\ (msg[m].live => SelectedThere(m, v))
    BY Zenon DEF RepliesInv, SelectionsFit
  <2>2. m # i
    BY Zenon, <1>4, <2>1
  <2> QED
    BY Zenon, <1>6, <1>7, <2>1, <2>2
<1>15. PendingFits'
  <2> SUFFICES ASSUME NEW j \in Id, portraits'[j].stage = "pending",
                      portraits'[j].of # j, variant[j].live
               PROVE  variant[j].text = portraits'[j].reply
    BY Zenon, <1>3 DEF PendingFits
  <2>1. j # i
    BY Zenon, <1>5
  <2> QED
    BY Zenon, <1>8, <2>1 DEF RepliesInv, PendingFits
<1>16. ToldExact'
  BY Zenon, <1>9 DEF ToldExact
<1> QED
  BY Zenon, <1>10, <1>11, <1>12, <1>13, <1>14, <1>15, <1>16 DEF RepliesInv

\* What persist_generation writes for a variant: its row, and the selection and
\* the portrait of its parent.
LEMMA VariantWritten ==
  ASSUME RepliesInv, NEW i \in Id, NEW reply \in ReplyText, NEW img \in Portrait,
         NEW m \in Id, m = gen[i].of, PersistVariant(i, reply, img)
  PROVE  /\ gen[i].stage = "running" /\ m # i /\ msg[m].live
         /\ gen' = [gen EXCEPT ![i].stage = "done"]
         /\ variant' = [variant EXCEPT ![i] = NewVariant(m, reply)]
         /\ msg' = [msg EXCEPT ![m] = Reselected(msg[m], i, img)]
         /\ told' = [msg |-> msg', variant |-> variant']
         /\ SchedulePortrait(i, m, reply, img) /\ UNCHANGED <<chat, select, edits>>
<1> DEFINE n == [live |-> TRUE, of |-> m, text |-> reply]
           r == [msg[m] EXCEPT !.sel = i, !.img = img]
<1>1. /\ gen[i].stage = "running" /\ m # i /\ msg[m].live
      /\ gen' = [gen EXCEPT ![i].stage = "done"] /\ variant' = [variant EXCEPT ![i] = n]
      /\ SchedulePortrait(i, m, reply, img) /\ UNCHANGED <<chat, select, edits>>
  BY Zenon DEF PersistVariant, ParentThere
<1>2. msg' = [msg EXCEPT ![m] = IF msg[m].live THEN r ELSE msg[m]]
  BY Zenon DEF PersistVariant
<1>3. msg' = [msg EXCEPT ![m] = r]
  BY Zenon, <1>1, <1>2
<1>4. told' = [msg |-> msg', variant |-> variant']
  <2> DEFINE t == [msg |-> msg, variant |-> variant]
             w == [t EXCEPT !.variant[i] = n]
             s == IF w.msg[m].live THEN [w.msg[m] EXCEPT !.sel = i, !.img = img] ELSE w.msg[m]
  <2>1. told = t
    BY Zenon DEF RepliesInv, ToldExact
  <2>2. told' = [t EXCEPT !.variant[i] = n, !.msg[m] = s]
    BY Zenon, <2>1 DEF PersistVariant
  <2>3. w.msg = msg
    OBVIOUS
  <2> HIDE DEF w
  <2>4. s = r
    BY Zenon, <1>1, <2>3
  <2> HIDE DEF s, r, n
  <2>5. told' = [t EXCEPT !.variant[i] = n, !.msg[m] = r]
    BY Zenon, <2>2, <2>4
  <2>6. told' = [msg |-> [msg EXCEPT ![m] = r], variant |-> [variant EXCEPT ![i] = n]]
    BY Zenon, <2>5, ToldVariant
  <2> QED
    BY Zenon, <1>1, <1>3, <2>6
<1> QED
  BY Zenon, <1>1, <1>3, <1>4 DEF NewVariant, Reselected

\* persist_generation for a variant.
LEMMA VariantKeeps ==
  ASSUME RepliesInv, NEW i \in Id, NEW reply \in ReplyText, NEW img \in Portrait,
         PersistVariant(i, reply, img)
  PROVE  RepliesInv'
<1>1. msg \in [Id -> MessageRow] /\ variant \in [Id -> VariantRow]
  BY Zenon DEF RepliesInv, ReplyTypeOK
<1>2. PICK m \in Id : m = gen[i].of
  <2>1. gen[i] \in [stage : {"new", "running", "done"}, of : Id]
    BY Zenon DEF RepliesInv, ReplyTypeOK
  <2>2. gen[i].of \in Id
    BY <2>1
  <2> QED
    BY Zenon, <2>2
<1> DEFINE n == NewVariant(m, reply)
           r == Reselected(msg[m], i, img)
<1>3. /\ gen[i].stage = "running" /\ m # i /\ msg[m].live
      /\ gen' = [gen EXCEPT ![i].stage = "done"]
      /\ variant' = [variant EXCEPT ![i] = n] /\ msg' = [msg EXCEPT ![m] = r]
      /\ told' = [msg |-> msg', variant |-> variant']
      /\ SchedulePortrait(i, m, reply, img) /\ UNCHANGED <<chat, select, edits>>
  BY Zenon, <1>2, VariantWritten
<1>4. msg[m] \in MessageRow
  BY Zenon, <1>1
<1>5. /\ r \in MessageRow /\ r.live = msg[m].live /\ r.sel = i
      /\ n \in VariantRow /\ n.live /\ n.of = m /\ n.text = reply
  <2>1. r \in MessageRow /\ r.live = msg[m].live /\ r.sel = i
    BY ZenonT(30), <1>4, SelectedColumns
  <2>2. n \in VariantRow /\ n.live /\ n.of = m /\ n.text = reply
    BY Zenon, NewColumns
  <2> QED
    BY Zenon, <2>1, <2>2
<1> HIDE DEF n, r
<1>6. gen[i].stage # "done"
  <2>1. gen[i].stage = "running"
    BY Zenon, <1>3
  <2> QED
    BY <2>1
<1>7. ~msg[i].live /\ ~variant[i].live
  BY Zenon, <1>6 DEF RepliesInv, UnfinishedIsBare
<1>8. /\ msg' \in [Id -> MessageRow] /\ msg'[m] = r
      /\ \A j \in Id : j # m => msg'[j] = msg[j]
  BY Zenon, <1>1, <1>3, <1>5
<1>9. /\ variant' \in [Id -> VariantRow] /\ variant'[i] = n
      /\ \A j \in Id : j # i => variant'[j] = variant[j]
  BY Zenon, <1>1, <1>3, <1>5
<1>10. \A j \in Id : msg'[j].live = msg[j].live
  BY Zenon, <1>5, <1>8
<1>11. /\ gen' \in [Id -> [stage : {"new", "running", "done"}, of : Id]]
       /\ gen'[i].stage = "done" /\ \A j \in Id : j # i => gen'[j] = gen[j]
  BY Zenon, <1>3, GenerationEnds
<1>12. /\ portraits' \in [Id -> PortraitJob]
       /\ \A j \in Id : j # i => portraits'[j] = portraits[j]
       /\ \/ portraits'[i] = portraits[i]
          \/ portraits'[i].of = m /\ portraits'[i].reply = reply
  <2>1. SchedulePortrait(i, m, reply, img)
    BY Zenon, <1>3
  <2> QED
    BY Zenon, <2>1, Scheduled
<1>13. ReplyTypeOK'
  <2>1. told' \in [msg : [Id -> MessageRow], variant : [Id -> VariantRow]]
    BY Zenon, <1>3, <1>8, <1>9, ToldPair
  <2>2. /\ chat' \in BOOLEAN /\ select' \in SUBSET (Id \X Id) /\ edits' \in Nat
    BY Zenon, <1>3 DEF RepliesInv, ReplyTypeOK
  <2>3. /\ msg' \in [Id -> MessageRow] /\ variant' \in [Id -> VariantRow]
        /\ gen' \in [Id -> [stage : {"new", "running", "done"}, of : Id]]
        /\ portraits' \in [Id -> PortraitJob]
    BY Zenon, <1>8, <1>9, <1>11, <1>12
  <2> QED
    BY Zenon, <2>1, <2>2, <2>3 DEF ReplyTypeOK, PortraitJob
\* Whatever was selected is a variant of its message still.
<1>14. \A a, b \in Id : a # m /\ msg[a].live /\ SelectedThere(a, b) => SelectedThere(a, b)'
  BY Zenon, <1>7, <1>9 DEF SelectedThere
<1>15. MessagesFit'
  <2> SUFFICES ASSUME NEW a \in Id, msg'[a].live
               PROVE  chat' /\ SelectedThere(a, msg[a].sel)'
    BY Zenon DEF MessagesFit
  <2>1. msg[a].live
    BY Zenon, <1>10
  <2>2. chat /\ SelectedThere(a, msg[a].sel) /\ chat' = chat
    BY Zenon, <1>3, <2>1 DEF RepliesInv, MessagesFit
  <2>3. CASE a = m
    BY Zenon, <1>5, <1>8, <1>9, <2>2, <2>3 DEF SelectedThere
  <2>4. CASE a # m
    <3>1. PICK b \in Id : b = msg[a].sel
      BY <1>1 DEF MessageRow
    <3>2. SelectedThere(a, b)' /\ msg'[a].sel = b
      BY Zenon, <1>8, <1>14, <2>1, <2>2, <2>4, <3>1
    <3> QED
      BY Zenon, <2>2, <3>2 DEF SelectedThere
  <2> QED
    BY Zenon, <2>3, <2>4
<1>16. VariantsFit'
  <2> SUFFICES ASSUME NEW v \in Id, variant'[v].live
               PROVE  msg'[variant'[v].of].live
    BY Zenon DEF VariantsFit
  <2>1. CASE v = i
    BY Zenon, <1>3, <1>5, <1>9, <1>10, <2>1
  <2>2. CASE v # i
    <3>1. variant[v].of \in Id
      BY <1>1 DEF VariantRow
    <3> QED
      BY Zenon, <1>9, <1>10, <2>2, <3>1 DEF RepliesInv, VariantsFit
  <2> QED
    BY Zenon, <2>1, <2>2
<1>17. UnfinishedIsBare'
  <2> SUFFICES ASSUME NEW j \in Id, gen'[j].stage # "done"
               PROVE  ~msg'[j].live /\ ~variant'[j].live /\ portraits'[j].stage = "none"
    BY Zenon DEF UnfinishedIsBare
  <2>1. j # i
    BY Zenon, <1>11
  <2> QED
    BY Zenon, <1>9, <1>10, <1>11, <1>12, <2>1 DEF RepliesInv, UnfinishedIsBare
<1>18. SelectionsFit'
  <2> SUFFICES ASSUME NEW a \in Id, NEW v \in Id, <<a, v>> \in select
               PROVE  gen'[a].stage = "done" /\ (msg'[a].live => SelectedThere(a, v)')
    BY Zenon, <1>3 DEF SelectionsFit
  <2>1. gen[a].stage = "done" /\ (msg[a].live => SelectedThere(a, v))
    BY Zenon DEF RepliesInv, SelectionsFit
  <2>2. gen'[a].stage = "done"
    BY Zenon, <1>11, <2>1
  <2>3. ASSUME msg'[a].live
        PROVE  SelectedThere(a, v)'
    BY Zenon, <1>7, <1>9, <1>10, <2>1, <2>3 DEF SelectedThere
  <2> QED
    BY Zenon, <2>2, <2>3
<1>19. PendingFits'
  <2> SUFFICES ASSUME NEW j \in Id, portraits'[j].stage = "pending",
                      portraits'[j].of # j, variant'[j].live
               PROVE  variant'[j].text = portraits'[j].reply
    BY Zenon DEF PendingFits
  <2>1. CASE j = i
    <3>1. portraits[i].stage = "none"
      BY Zenon, <1>6 DEF RepliesInv, UnfinishedIsBare
    <3>2. portraits'[i] # portraits[i]
      <4>1. portraits'[i].stage = "pending"
        BY Zenon, <2>1
      <4> QED
        BY <3>1, <4>1
    <3> QED
      BY Zenon, <1>5, <1>9, <1>12, <2>1, <3>2
  <2>2. CASE j # i
    BY Zenon, <1>9, <1>12, <2>2 DEF RepliesInv, PendingFits
  <2> QED
    BY Zenon, <2>1, <2>2
<1>20. ToldExact'
  BY Zenon, <1>3 DEF ToldExact
<1> QED
  BY Zenon, <1>13, <1>15, <1>16, <1>17, <1>18, <1>19, <1>20 DEF RepliesInv

\* DeleteEntity, for a message or for all of a conversation.
LEMMA RemovalKeeps ==
  ASSUME RepliesInv, NEW ms \in SUBSET Id, Remove(ms),
         chat' \in BOOLEAN, chat => chat' \/ \A m \in Id : msg[m].live => m \in ms,
         UNCHANGED <<gen, select, portraits, edits>>
  PROVE  RepliesInv'
<1>1. msg \in [Id -> MessageRow] /\ variant \in [Id -> VariantRow]
  BY Zenon DEF RepliesInv, ReplyTypeOK
<1>2. \A v \in Id : variant[v].of \in Id
  BY <1>1 DEF VariantRow
<1> DEFINE left == [i \in Id |-> IF i \in ms THEN NoMessage(i) ELSE msg[i]]
           kept == [i \in Id |-> IF variant[i].of \in ms THEN NoVariant(i) ELSE variant[i]]
<1>3. msg' = left /\ variant' = kept
  BY DEF Remove, Without
<1>4. told' = [msg |-> left, variant |-> kept]
  <2>1. told.msg = msg /\ told.variant = variant
    BY DEF RepliesInv, ToldExact
  <2>2. told' = [msg |-> [i \in Id |-> IF i \in ms THEN NoMessage(i) ELSE told.msg[i]],
                 variant |-> [i \in Id |-> IF told.variant[i].of \in ms
                                           THEN NoVariant(i) ELSE told.variant[i]]]
    BY Zenon DEF Remove
  <2> QED
    BY Zenon, <2>1, <2>2
<1>5. left \in [Id -> MessageRow] /\ kept \in [Id -> VariantRow]
  BY Zenon, <1>1, EmptyRows
<1>6. \A i \in Id : /\ i \in ms => ~left[i].live
                    /\ i \notin ms => left[i] = msg[i]
  BY Zenon, EmptyRows
<1>7. \A i \in Id : /\ variant[i].of \in ms => ~kept[i].live
                    /\ variant[i].of \notin ms => kept[i] = variant[i]
  BY Zenon, EmptyRows
<1> HIDE DEF left, kept
<1>8. ReplyTypeOK'
  <2>1. told' \in [msg : [Id -> MessageRow], variant : [Id -> VariantRow]]
    BY Zenon, <1>4, <1>5, ToldPair
  <2> QED
    BY Zenon, <1>3, <1>5, <2>1 DEF RepliesInv, ReplyTypeOK
<1>9. ToldExact'
  BY Zenon, <1>3, <1>4 DEF ToldExact
\* What was selected of a message that stays, stays.
<1>10. \A a, b \in Id : a \notin ms /\ SelectedThere(a, b) => SelectedThere(a, b)'
  BY Zenon, <1>3, <1>7 DEF SelectedThere
<1>11. MessagesFit'
  <2> SUFFICES ASSUME NEW a \in Id, msg'[a].live
               PROVE  chat' /\ SelectedThere(a, msg[a].sel)'
    BY Zenon DEF MessagesFit
  <2>1. a \notin ms /\ msg'[a] = msg[a] /\ msg[a].live
    BY Zenon, <1>3, <1>6
  <2>2. chat /\ SelectedThere(a, msg[a].sel)
    BY Zenon, <2>1 DEF RepliesInv, MessagesFit
  <2>3. chat'
    BY Zenon, <2>1, <2>2
  <2>4. PICK b \in Id : b = msg[a].sel
    BY <1>1 DEF MessageRow
  <2>5. SelectedThere(a, b)' /\ msg'[a].sel = b
    BY Zenon, <1>10, <2>1, <2>2, <2>4
  <2> QED
    BY Zenon, <2>3, <2>5 DEF SelectedThere
<1>12. VariantsFit'
  <2> SUFFICES ASSUME NEW v \in Id, variant'[v].live
               PROVE  msg'[variant'[v].of].live
    BY Zenon DEF VariantsFit
  <2>1. variant[v].of \notin ms /\ variant'[v] = variant[v]
    BY Zenon, <1>3, <1>7
  <2>2. msg[variant[v].of].live
    BY Zenon, <2>1 DEF RepliesInv, VariantsFit
  <2> QED
    BY Zenon, <1>2, <1>3, <1>6, <2>1, <2>2
<1>13. \A j \in Id : /\ msg'[j].live => msg[j].live /\ j \notin ms
                     /\ variant'[j].live => variant[j].live /\ variant'[j] = variant[j]
  BY Zenon, <1>3, <1>6, <1>7
<1>14. UnfinishedIsBare'
  BY Zenon, <1>13 DEF RepliesInv, UnfinishedIsBare
<1>15. SelectionsFit'
  <2> SUFFICES ASSUME NEW a \in Id, NEW v \in Id, <<a, v>> \in select
               PROVE  gen[a].stage = "done" /\ (msg'[a].live => SelectedThere(a, v)')
    BY Zenon DEF SelectionsFit
  <2>1. gen[a].stage = "done" /\ (msg[a].live => SelectedThere(a, v))
    BY Zenon DEF RepliesInv, SelectionsFit
  <2> QED
    BY Zenon, <1>10, <1>13, <2>1
<1>16. PendingFits'
  BY Zenon, <1>13 DEF RepliesInv, PendingFits
<1> QED
  BY Zenon, <1>8, <1>9, <1>11, <1>12, <1>14, <1>15, <1>16 DEF RepliesInv

\* Every step of the handlers of messages keeps the invariant.
LEMMA RepliesStep ==
  ASSUME RepliesInv, [ReplyNext]_replyVars
  PROVE  RepliesInv'
<1>1. CASE UNCHANGED replyVars
  <2>1. UNCHANGED <<chat, msg, variant, gen, select, portraits, told, edits>>
    BY Zenon, <1>1 DEF replyVars
  <2>2. ReplyTypeOK'
    BY Zenon, <2>1 DEF RepliesInv, ReplyTypeOK
  <2>3. MessagesFit' /\ VariantsFit' /\ ToldExact'
    BY Zenon, <2>1 DEF RepliesInv, MessagesFit, VariantsFit, ToldExact, SelectedThere
  <2>4. UnfinishedIsBare' /\ SelectionsFit' /\ PendingFits'
    BY ZenonT(30), <2>1 DEF RepliesInv, UnfinishedIsBare, SelectionsFit, PendingFits, SelectedThere
  <2> QED
    BY Zenon, <2>2, <2>3, <2>4 DEF RepliesInv
<1>2. ASSUME NEW i \in Id, NEW reply \in {i, ""}, NEW img \in Portrait,
             PersistReply(i, reply, img) \/ PersistVariant(i, reply, img)
      PROVE  RepliesInv'
  <2>1. reply \in ReplyText
    BY Zenon DEF ReplyText
  <2> QED
    BY Zenon, <1>2, <2>1, ReplyKeeps, VariantKeeps
<1>3. ASSUME NEW m \in Id, DeleteMessage(m)
      PROVE  RepliesInv'
  <2>1. /\ Remove({m}) /\ UNCHANGED chat /\ UNCHANGED <<gen, select, portraits, edits>>
    BY Zenon, <1>3 DEF DeleteMessage
  <2>2. chat \in BOOLEAN
    BY Zenon DEF RepliesInv, ReplyTypeOK
  <2> QED
    BY Zenon, <2>1, <2>2, RemovalKeeps
<1>4. CASE DeleteConversation
  <2> DEFINE ms == {m \in Id : msg[m].live}
  <2>1. /\ Remove(ms) /\ chat' = FALSE /\ UNCHANGED <<gen, select, portraits, edits>>
    BY Zenon, <1>4 DEF DeleteConversation
  <2>2. ms \in SUBSET Id /\ \A m \in Id : msg[m].live => m \in ms
    BY Zenon
  <2> HIDE DEF ms
  <2> QED
    BY Zenon, <2>1, <2>2, RemovalKeeps
<1>5. ASSUME NEW i \in Id,
             \/ \E parent \in Id : Generate(i, parent)
             \/ GenerationFails(i) \/ EditMessage(i) \/ DropPortrait(i)
             \/ \E p \in Portrait : StorePortrait(i, p)
      PROVE  RepliesInv'
  BY Zenon, <1>5, GenerationKeeps, EditKeeps, DropKeeps, PortraitKeeps
<1>6. ASSUME NEW m \in Id, NEW v \in Id, CheckSelection(m, v) \/ CommitSelection(m, v)
      PROVE  RepliesInv'
  BY Zenon, <1>6, CheckKeeps, SelectionKeeps
<1> QED
  BY Zenon, <1>1, <1>2, <1>3, <1>4, <1>5, <1>6 DEF ReplyNext

\* A portrait is stored by persist_portrait and by nothing else.
LEMMA StoredByItsJob ==
  ASSUME RepliesInv, [ReplyNext]_replyVars, NEW i \in Id, Stores(i)
  PROVE  \E p \in Portrait : StorePortrait(i, p)
<1>1. portraits[i].stage = "pending" /\ portraits'[i].stage = "stored"
  BY Zenon DEF Stores
<1>2. portraits'[i] # portraits[i]
  BY <1>1
<1>3. portraits \in [Id -> PortraitJob] /\ portraits[i] \in PortraitJob
  BY Zenon DEF RepliesInv, ReplyTypeOK, PortraitJob
<1>4. ASSUME NEW j \in Id, NEW parent, NEW reply, NEW img, SchedulePortrait(j, parent, reply, img)
      PROVE  FALSE
  <2> DEFINE planned == [stage |-> "pending", of |-> parent, reply |-> reply, current |-> img]
  <2>1. portraits' = portraits \/ portraits' = [portraits EXCEPT ![j] = planned]
    BY Zenon, <1>4 DEF SchedulePortrait
  <2>2. planned.stage # "stored"
    OBVIOUS
  <2> HIDE DEF planned
  <2> QED
    BY Zenon, <1>1, <1>2, <1>3, <2>1, <2>2
<1>5. ASSUME NEW j \in Id, DropPortrait(j)
      PROVE  FALSE
  <2> DEFINE dropped == [portraits[j] EXCEPT !.stage = "none"]
  <2>1. portraits' = [portraits EXCEPT ![j] = dropped]
    BY Zenon, <1>5 DEF DropPortrait
  <2>2. j = i /\ portraits'[i] = [portraits[i] EXCEPT !.stage = "none"]
    BY Zenon, <1>2, <1>3, <2>1
  <2>3. [portraits[i] EXCEPT !.stage = "none"].stage # "stored"
    BY <1>3 DEF PortraitJob
  <2> QED
    BY Zenon, <1>1, <2>2, <2>3
<1>6. ASSUME NEW j \in Id, NEW p \in Portrait, StorePortrait(j, p)
      PROVE  StorePortrait(i, p)
  <2>1. portraits' = [portraits EXCEPT ![j] = [portraits[j] EXCEPT !.stage = "stored"]]
    BY Zenon, <1>6 DEF StorePortrait
  <2>2. j = i
    BY Zenon, <1>2, <1>3, <2>1
  <2> QED
    BY Zenon, <1>6, <2>2
<1>7. ASSUME NEW j \in Id, NEW reply \in {j, ""}, NEW img \in Portrait,
             PersistReply(j, reply, img) \/ PersistVariant(j, reply, img)
      PROVE  FALSE
  <2>1. \E parent : SchedulePortrait(j, parent, reply, img)
    BY Zenon, <1>7 DEF PersistReply, PersistVariant
  <2> QED
    BY Zenon, <1>4, <2>1
<1>8. ASSUME NEW j \in Id,
             \/ \E parent \in Id : Generate(j, parent)
             \/ GenerationFails(j) \/ EditMessage(j) \/ DeleteMessage(j)
      PROVE  FALSE
  BY Zenon, <1>2, <1>8 DEF Generate, GenerationFails, EditMessage, DeleteMessage
<1>9. ASSUME NEW m \in Id, NEW v \in Id, CheckSelection(m, v) \/ CommitSelection(m, v)
      PROVE  FALSE
  BY Zenon, <1>2, <1>9 DEF CheckSelection, CommitSelection
<1>10. ~DeleteConversation /\ ~UNCHANGED replyVars
  BY Zenon, <1>2 DEF DeleteConversation, replyVars
<1> QED
  BY Zenon, <1>5, <1>6, <1>7, <1>8, <1>9, <1>10 DEF ReplyNext

\* The portrait of a variant is stored while the variant's text is shown: the
\* variant is the selected one, so it exists, and its text is the one the job
\* was given.
LEMMA StoredPortraitFits ==
  ASSUME RepliesInv, NEW i \in Id, NEW p \in Portrait, StorePortrait(i, p),
         portraits[i].of # i
  PROVE  Shown(portraits[i].of) = portraits[i].reply
<1>1. portraits[i] \in PortraitJob
  BY Zenon DEF RepliesInv, ReplyTypeOK, PortraitJob
<1>2. PICK m \in Id : m = portraits[i].of
  BY Zenon, <1>1, JobColumns
<1>3. portraits[i].stage = "pending" /\ msg[m].live /\ msg[m].sel = i /\ m # i
  BY Zenon, <1>2 DEF StorePortrait, StillSelected
<1>4. variant[i].live
  BY Zenon, <1>3 DEF RepliesInv, MessagesFit, SelectedThere
<1>5. variant[i].text = portraits[i].reply
  BY Zenon, <1>3, <1>4 DEF RepliesInv, PendingFits
<1> QED
  BY Zenon, <1>2, <1>3, <1>5 DEF Shown

-----------------------------------------------------------------------------
(* Messages and variants: the theorems.                                    *)

\* persist_generation, SelectVariant, edits, deletions and portrait jobs, in
\* any order: every reachable state of messages and variants satisfies the
\* inductive invariant.
THEOREM RepliesInvariant == ReplySpec => []RepliesInv
<1>1. ReplyInit => RepliesInv
  BY Zenon, RepliesInit
<1>2. RepliesInv /\ [ReplyNext]_replyVars => RepliesInv'
  BY Zenon, RepliesStep
<1> QED
  BY <1>1, <1>2, PTL DEF ReplySpec

\* persist_generation, SelectVariant, edits and deletions, overlapping: the
\* selected variant of a message exists and belongs to it, nothing outlives what
\* it belongs to, and the deltas give the tables.
THEOREM MessagesStayConsistent == ReplySpec => []MessagesConsistent
<1>1. RepliesInv => MessagesConsistent
  BY Zenon DEF RepliesInv, MessagesConsistent, MessagesFit, SelectedThere, VariantsFit, ToldExact
<1> QED
  BY <1>1, RepliesInvariant, PTL

\* persist_portrait (emotion.rs): the portrait of a regenerated reply is stored
\* only while the text that was classified is the one shown.
THEOREM VariantPortraitsFit == ReplySpec => VariantPortraitFits
<1> DEFINE Fits == \A i \in Id : Stores(i) /\ portraits[i].of # i =>
                     Shown(portraits[i].of) = portraits[i].reply
<1>1. RepliesInv /\ [ReplyNext]_replyVars => Fits
  BY Zenon, StoredByItsJob, StoredPortraitFits
<1>2. RepliesInv /\ [ReplyNext]_replyVars => [Fits]_replyVars
  BY Zenon, <1>1
<1> HIDE DEF Fits
<1>3. ReplySpec => [][Fits]_replyVars
  BY <1>2, RepliesInvariant, PTL DEF ReplySpec
<1> QED
  BY <1>3 DEF VariantPortraitFits, Fits

-----------------------------------------------------------------------------
(* Memory jobs                                                             *)

TaskRecord == [stage : MemStage, char : Char \cup {"none"}, defers : Nat,
               read : SUBSET (Msg \X Nat), latest : Nat]

\* No revision is newer than the last one given out.
Bounded ==
  /\ \A m \in Msg : row[m] <= lastRev
  /\ \A t \in Task : task[t].stage \in {"model", "saved"} => task[t].latest <= lastRev

\* What a run is about to mark as read, it has taken or was read before; a
\* message written since has a newer revision.
RunCovers ==
  \A t \in Task, m \in Msg : row[m] # 0 /\ row[m] <= task[t].latest =>
    /\ task[t].stage = "model" => <<m, row[m]>> \in covered \cup task[t].read
    /\ task[t].stage = "saved" => <<m, row[m]>> \in covered

CheckpointBounded == checkpoint <= lastRev

MemInv ==
  /\ MemTypeOK
  /\ OneJob
  /\ ReplyNotForgotten
  /\ NothingSkipped
  /\ Bounded
  /\ RunCovers
  /\ CheckpointBounded

\* The invariant holds when the broker starts with an empty conversation.
LEMMA InitMemInv == MemInit => MemInv
<1> SUFFICES ASSUME MemInit PROVE MemInv
  OBVIOUS
<1>1. MemTypeOK
  <2>1. Dormant \in TaskRecord /\ 0 \in Nat
    BY Zenon, 0 \in Nat DEF TaskRecord, Dormant, MemStage
  <2>2. task \in [Task -> TaskRecord] /\ row \in [Msg -> Nat] /\ Active = {}
    BY Zenon, <2>1 DEF MemInit, Active, Dormant
  <2> QED
    BY Zenon, <2>1, <2>2 DEF MemInit, MemTypeOK, TaskRecord
<1>2. OneJob
  BY Zenon DEF MemInit, OneJob, Active, Dormant
<1>3. ReplyNotForgotten /\ NothingSkipped
  BY Zenon DEF MemInit, ReplyNotForgotten, NothingSkipped
<1>4. Bounded /\ RunCovers /\ CheckpointBounded
  <2>1. 0 <= 0
    BY SMT
  <2> QED
    BY Zenon, <2>1 DEF MemInit, Bounded, RunCovers, CheckpointBounded, Dormant
<1> QED
  BY Zenon, <1>1, <1>2, <1>3, <1>4 DEF MemInv

\* The rows a run with this record may mark as read are among those covered.
RunFits(new, cover) ==
  /\ new.stage \in {"model", "saved"} => new.latest <= lastRev
  /\ \A m \in Msg : row[m] # 0 /\ row[m] <= new.latest =>
       /\ new.stage = "model" => <<m, row[m]>> \in cover \cup new.read
       /\ new.stage = "saved" => <<m, row[m]>> \in cover

\* A job that takes a step has a follow-up in the map or a run before it, if
\* a scheduled reply is owed one.
OwedFits(new) == owed' => entry' \in Char \/ new.stage \in {"begin", "wait", "extract"}

\* A step of one job, or its start, that leaves the messages alone keeps the
\* invariant when the job's new record fits what is covered and owed.
LEMMA JobStep ==
  ASSUME MemInv, NEW t \in Task, NEW new \in TaskRecord,
         task' = [task EXCEPT ![t] = new], row' = row, lastRev' = lastRev, due' \in SUBSET Char,
         t \in Active \/ entry = "absent",
         entry' \in Char \cup {"absent", "none"}, entry' = "absent" <=> new.stage = "dormant",
         new.stage # "dormant" => new.char \in Char,
         owed' \in BOOLEAN, OwedFits(new),
         covered' \in SUBSET (Msg \X Nat), covered \subseteq covered', RunFits(new, covered'),
         checkpoint' \in Nat, checkpoint' <= lastRev, NothingSkipped'
  PROVE  MemInv'
<1>0. /\ row \in [Msg -> Nat] /\ lastRev \in Nat /\ task \in [Task -> TaskRecord]
      /\ \A u \in Active : task[u].char \in Char
      /\ \A u, v \in Active : u = v
      /\ entry = "absent" <=> Active = {}
  BY Zenon DEF MemInv, MemTypeOK, OneJob, TaskRecord
<1>1. /\ task' \in [Task -> TaskRecord] /\ task'[t] = new
      /\ \A u \in Task : u # t => task'[u] = task[u] /\ task[u].stage = "dormant"
  <2>1. \A u \in Task : u # t => task[u].stage = "dormant"
    BY Zenon, <1>0 DEF Active
  <2> QED
    BY Zenon, <1>0, <2>1
<1>2. \A u \in Task : u \in Active' => u = t /\ new.stage # "dormant"
  BY Zenon, <1>1 DEF Active
<1>3. MemTypeOK'
  <2>1. \A u \in Active' : task'[u].char \in Char
    BY Zenon, <1>1, <1>2 DEF Active
  <2> QED
    BY Zenon, <1>0, <1>1, <2>1 DEF MemTypeOK, TaskRecord
<1>4. OneJob'
  <2>1. Active' = {} <=> new.stage = "dormant"
    BY Zenon, <1>1, <1>2 DEF Active
  <2>2. \A u, v \in Active' : u = v
    BY Zenon, <1>2 DEF Active
  <2> QED
    BY Zenon, <2>1, <2>2 DEF OneJob
<1>5. ReplyNotForgotten'
  BY Zenon, <1>1 DEF ReplyNotForgotten, OwedFits
<1>6. Bounded'
  <2>1. \A m \in Msg : row'[m] <= lastRev'
    BY Zenon DEF MemInv, Bounded
  <2>2. \A u \in Task : task'[u].stage \in {"model", "saved"} => task'[u].latest <= lastRev'
    <3> SUFFICES ASSUME NEW u \in Task, task'[u].stage \in {"model", "saved"} PROVE task'[u].latest <= lastRev'
      BY Zenon
    <3>1. u = t
      BY Zenon, <1>1
    <3> QED
      BY Zenon, <1>1, <3>1 DEF RunFits
  <2> QED
    BY Zenon, <2>1, <2>2 DEF Bounded
<1>7. RunCovers'
  <2> SUFFICES ASSUME NEW u \in Task, NEW m \in Msg, row'[m] # 0, row'[m] <= task'[u].latest
               PROVE  /\ task'[u].stage = "model" => <<m, row'[m]>> \in covered' \cup task'[u].read
                      /\ task'[u].stage = "saved" => <<m, row'[m]>> \in covered'
    BY Zenon DEF RunCovers
  <2>1. CASE u = t
    BY Zenon, <1>1, <2>1 DEF RunFits
  <2>2. CASE u # t
    <3>1. task'[u].stage = "dormant"
      BY Zenon, <1>1, <2>2
    <3> QED
      BY Zenon, <3>1
  <2> QED
    BY Zenon, <2>1, <2>2
<1> QED
  BY Zenon, <1>3, <1>4, <1>5, <1>6, <1>7 DEF MemInv, CheckpointBounded

\* A reply owed to a run that is over, or not there, waits as the follow-up.
LEMMA OwedIsFollowUp ==
  ASSUME MemInv, NEW t \in Task, t \in Active, task[t].stage \notin {"begin", "wait", "extract"}, owed
  PROVE  entry \in Char
<1>1. \A u \in Task : task[u].stage \in {"begin", "wait", "extract"} => u = t
  BY Zenon DEF MemInv, OneJob, Active
<1> QED
  BY Zenon, <1>1 DEF MemInv, ReplyNotForgotten

\* The types of what a job's step leaves alone.
LEMMA MemTypes ==
  ASSUME MemInv
  PROVE  /\ row \in [Msg -> Nat] /\ lastRev \in Nat /\ due \in SUBSET Char
         /\ entry \in Char \cup {"absent", "none"} /\ task \in [Task -> TaskRecord]
         /\ checkpoint \in Nat /\ covered \in SUBSET (Msg \X Nat) /\ owed \in BOOLEAN
         /\ checkpoint <= lastRev
         /\ "absent" \notin Char /\ "none" \notin Char
BY Zenon, MemoryAssumption DEF MemInv, MemTypeOK, TaskRecord, CheckpointBounded

\* A record that says less about the rows fits what the job's record fits.
LEMMA EarlyRecordFits ==
  ASSUME NEW new, NEW cover, new.stage \notin {"model", "saved"}
  PROVE  RunFits(new, cover)
BY Zenon DEF RunFits

\* A message that is sent or edited has a revision above all that were read.
LEMMA MessageStep ==
  ASSUME MemInv, NEW m \in Msg, Store(m), UNCHANGED <<entry, task, checkpoint, covered, owed>>,
         due' \in SUBSET Char
  PROVE  MemInv'
<1>0. /\ lastRev' = lastRev + 1 /\ row' = [row EXCEPT ![m] = lastRev + 1]
      /\ entry' = entry /\ task' = task /\ checkpoint' = checkpoint /\ covered' = covered /\ owed' = owed
  BY Zenon DEF Store
<1>1. /\ lastRev \in Nat /\ row \in [Msg -> Nat] /\ checkpoint \in Nat /\ task \in [Task -> TaskRecord]
  BY Zenon, MemTypes
<1>a. \A t \in Task : task[t].latest \in Nat
  BY Zenon, <1>1 DEF TaskRecord
<1>2. lastRev + 1 \in Nat /\ \A k \in Nat : k <= lastRev => k <= lastRev + 1 /\ ~(lastRev + 1 <= k)
  BY <1>1, SMT
<1>3. /\ row' \in [Msg -> Nat] /\ row'[m] = lastRev + 1
      /\ \A n \in Msg : n # m => row'[n] = row[n]
  BY Zenon, <1>0, <1>1, <1>2
<1>b. Active' = Active
  BY Zenon, <1>0 DEF Active
<1>4. MemTypeOK' /\ OneJob' /\ ReplyNotForgotten'
  <2>1. MemTypeOK'
    BY Zenon, <1>0, <1>2, <1>3, <1>b DEF MemInv, MemTypeOK
  <2>2. OneJob'
    BY Zenon, <1>0, <1>b DEF MemInv, OneJob
  <2>3. owed' => owed
    BY <1>0, SMT
  <2>4. ReplyNotForgotten'
    BY Zenon, <1>0, <2>3 DEF MemInv, ReplyNotForgotten
  <2> QED
    BY Zenon, <2>1, <2>2, <2>4
<1>5. NothingSkipped' /\ CheckpointBounded'
  <2>1. checkpoint <= lastRev /\ ~(lastRev + 1 <= checkpoint) /\ checkpoint <= lastRev + 1
    BY Zenon, <1>1, <1>2, MemTypes
  <2>2. ASSUME NEW n \in Msg, row'[n] # 0, row'[n] <= checkpoint' PROVE <<n, row'[n]>> \in covered'
    <3>1. row'[n] <= checkpoint
      BY Zenon, <1>0, <2>2
    <3>2. n # m
      BY Zenon, <1>3, <2>1, <3>1
    <3> QED
      BY Zenon, <1>0, <1>3, <2>2, <3>1, <3>2 DEF MemInv, NothingSkipped
  <2> QED
    BY Zenon, <1>0, <2>1, <2>2 DEF NothingSkipped, CheckpointBounded
<1>6. Bounded'
  <2>1. \A n \in Msg : row'[n] <= lastRev'
    <3> SUFFICES ASSUME NEW n \in Msg PROVE row'[n] <= lastRev'
      BY Zenon
    <3>1. row[n] \in Nat /\ row[n] <= lastRev
      BY Zenon, <1>1 DEF MemInv, Bounded
    <3>2. row[n] <= lastRev + 1 /\ lastRev + 1 <= lastRev + 1
      BY <1>1, <3>1, SMT
    <3> QED
      BY Zenon, <1>0, <1>3, <3>2
  <2>2. \A t \in Task : task'[t].stage \in {"model", "saved"} => task'[t].latest <= lastRev'
    BY Zenon, <1>0, <1>a, <1>2 DEF MemInv, Bounded
  <2> QED
    BY Zenon, <2>1, <2>2 DEF Bounded
<1>7. RunCovers'
  <2> SUFFICES ASSUME NEW t \in Task, NEW n \in Msg, row'[n] # 0, row'[n] <= task'[t].latest
               PROVE  /\ task'[t].stage = "model" => <<n, row'[n]>> \in covered' \cup task'[t].read
                      /\ task'[t].stage = "saved" => <<n, row'[n]>> \in covered'
    BY Zenon DEF RunCovers
  <2>1. CASE n # m
    <3>1. row'[n] = row[n] /\ task'[t] = task[t]
      BY Zenon, <1>0, <1>3, <2>1
    <3>2. row[n] # 0 /\ row[n] <= task[t].latest
      BY Zenon, <3>1
    <3>3. /\ task[t].stage = "model" => <<n, row[n]>> \in covered \cup task[t].read
          /\ task[t].stage = "saved" => <<n, row[n]>> \in covered
      BY Zenon, <3>2 DEF MemInv, RunCovers
    <3> QED
      BY Zenon, <1>0, <3>1, <3>3
  <2>2. CASE n = m
    <3>1. task[t].latest \in Nat /\ lastRev + 1 <= task[t].latest
      BY Zenon, <1>0, <1>a, <1>3, <2>2
    <3>2. ~(task[t].latest <= lastRev)
      BY Zenon, <1>2, <3>1
    <3>3. task[t].stage \notin {"model", "saved"}
      BY Zenon, <3>2 DEF MemInv, Bounded
    <3> QED
      BY Zenon, <1>0, <3>3
  <2> QED
    BY Zenon, <2>1, <2>2
<1> QED
  BY Zenon, <1>4, <1>5, <1>6, <1>7 DEF MemInv

\* Every step of the jobs and of the handlers around them preserves it.
LEMMA NextMemInv == MemInv /\ [MemNext]_memVars => MemInv'
<1> SUFFICES ASSUME MemInv, [MemNext]_memVars PROVE MemInv'
  BY Zenon
<1>0. /\ row \in [Msg -> Nat] /\ lastRev \in Nat /\ due \in SUBSET Char
      /\ entry \in Char \cup {"absent", "none"} /\ task \in [Task -> TaskRecord]
      /\ checkpoint \in Nat /\ covered \in SUBSET (Msg \X Nat) /\ owed \in BOOLEAN
      /\ checkpoint <= lastRev
      /\ "absent" \notin Char /\ "none" \notin Char
  BY Zenon, MemTypes
<1>a. ASSUME row' = row, checkpoint' = checkpoint, covered \subseteq covered' PROVE NothingSkipped'
  BY Zenon, <1>a DEF MemInv, NothingSkipped
<1>b. \A t \in Active : task[t].char \in Char /\ entry # "absent"
  BY Zenon DEF MemInv, MemTypeOK, OneJob
<1>2. ASSUME NEW m \in Msg, WriteMessage(m) PROVE MemInv'
  <2>1. Store(m) /\ UNCHANGED <<entry, task, checkpoint, covered, owed>> /\ due' \in SUBSET Char
    BY Zenon, <1>0, <1>2 DEF WriteMessage
  <2> QED
    BY Zenon, <2>1, MessageStep
<1>3. ASSUME NEW m \in Msg, NEW c \in Char, Reply(m, c) PROVE MemInv'
  <2>1. Store(m) /\ UNCHANGED <<entry, task, checkpoint, covered, owed>> /\ due' \in SUBSET Char
    BY Zenon, <1>0, <1>3 DEF Reply
  <2> QED
    BY Zenon, <2>1, MessageStep
<1>4. ASSUME NEW c \in Char, NEW t \in Task, Schedule(c, t) PROVE MemInv'
  <2>0. /\ due' \in SUBSET Char /\ owed' = TRUE
        /\ row' = row /\ lastRev' = lastRev /\ checkpoint' = checkpoint /\ covered' = covered
    BY Zenon, <1>0, <1>4 DEF Schedule
  <2>1. CASE entry # "absent"
    <3>1. entry' = c /\ task' = task
      BY Zenon, <1>4, <2>1 DEF Schedule
    <3>2. Active' = Active /\ Active # {} /\ entry' # "absent" /\ entry' \in Char
      BY Zenon, <1>0, <2>1, <3>1 DEF Active, MemInv, OneJob
    <3>3. MemTypeOK'
      BY Zenon, <2>0, <3>1, <3>2 DEF MemInv, MemTypeOK
    <3>4. OneJob' /\ ReplyNotForgotten'
      BY Zenon, <3>2 DEF MemInv, OneJob, ReplyNotForgotten
    <3>5. NothingSkipped' /\ Bounded' /\ RunCovers' /\ CheckpointBounded'
      BY Zenon, <2>0, <3>1 DEF MemInv, NothingSkipped, Bounded, RunCovers, CheckpointBounded
    <3> QED
      BY Zenon, <3>3, <3>4, <3>5 DEF MemInv
  <2>2. CASE entry = "absent"
    <3>1. PICK new \in TaskRecord : new = [Dormant EXCEPT !.stage = "begin", !.char = c]
      BY Zenon, 0 \in Nat DEF TaskRecord, Dormant, MemStage
    <3>2. task' = [task EXCEPT ![t] = new] /\ entry' = "none"
      BY Zenon, <1>4, <2>2, <3>1 DEF Schedule
    <3>3. new.stage = "begin" /\ new.char = c
      BY Zenon, <3>1 DEF Dormant
    <3>4. OwedFits(new) /\ RunFits(new, covered')
      BY Zenon, <3>3, EarlyRecordFits DEF OwedFits
    <3> QED
      BY Zenon, <1>0, <1>a, <2>0, <2>2, <3>2, <3>3, <3>4, JobStep
  <2> QED
    BY Zenon, <2>1, <2>2
<1>5. ASSUME NEW t \in Task, Begin(t) \/ QuietPeriodEnds(t) PROVE MemInv'
  <2>0. /\ t \in Active
        /\ row' = row /\ lastRev' = lastRev /\ due' = due /\ checkpoint' = checkpoint
        /\ covered' = covered /\ owed' = owed
    BY Zenon, <1>5 DEF Begin, QuietPeriodEnds, Active
  <2>1. PICK new \in TaskRecord :
          /\ task' = [task EXCEPT ![t] = new]
          /\ new.stage \in {"wait", "extract"} /\ new.char \in Char
          /\ entry' = entry \/ (entry \in Char /\ entry' = "none")
    <3>0. PICK o \in TaskRecord : o = task[t] /\ o.char \in Char
      BY Zenon, <1>0, <1>b, <2>0
    <3>1. CASE Begin(t)
      <4>1. PICK s \in {"wait", "extract"} : s = IF Swaps THEN "wait" ELSE "extract"
        BY Zenon
      <4>2. PICK new \in TaskRecord : new = [o EXCEPT !.stage = s, !.defers = 0]
        BY Zenon, 0 \in Nat DEF TaskRecord, MemStage
      <4>3. new.stage = s /\ new.char = o.char
        BY Zenon, <4>2 DEF TaskRecord
      <4>4. task' = [task EXCEPT ![t] = new] /\ entry' = entry
        BY Zenon, <3>0, <3>1, <4>1, <4>2 DEF Begin
      <4> QED
        BY Zenon, <3>0, <4>1, <4>3, <4>4
    <3>2. CASE QuietPeriodEnds(t) /\ task[t].defers < MaxDeferrals /\ entry \in Char
      <4>0. PICK d \in Nat : d = o.defers + 1
        <5>1. o.defers \in Nat
          BY Zenon DEF TaskRecord
        <5> QED
          BY <5>1, SMT
      <4>1. PICK s \in {"wait", "extract"} : s = IF d < MaxDeferrals THEN "wait" ELSE "extract"
        BY Zenon
      <4>2. PICK new \in TaskRecord : new = [o EXCEPT !.char = entry, !.defers = d, !.stage = s]
        BY Zenon, <3>2 DEF TaskRecord, MemStage
      <4>3. new.stage = s /\ new.char = entry
        BY Zenon, <4>2 DEF TaskRecord
      <4>4. task' = [task EXCEPT ![t] = new] /\ entry' = "none"
        BY Zenon, <3>0, <3>2, <4>0, <4>1, <4>2 DEF QuietPeriodEnds
      <4> QED
        BY Zenon, <3>2, <4>1, <4>3, <4>4
    <3>3. CASE QuietPeriodEnds(t) /\ ~(task[t].defers < MaxDeferrals /\ entry \in Char)
      <4>2. PICK new \in TaskRecord : new = [o EXCEPT !.stage = "extract"]
        BY Zenon DEF TaskRecord, MemStage
      <4>3. new.stage = "extract" /\ new.char = o.char
        BY Zenon, <4>2 DEF TaskRecord
      <4>4. task' = [task EXCEPT ![t] = new] /\ entry' = entry
        BY Zenon, <3>0, <3>3, <4>2 DEF QuietPeriodEnds
      <4> QED
        BY Zenon, <3>0, <4>3, <4>4
    <3> QED
      BY Zenon, <1>5, <3>1, <3>2, <3>3
  <2>2. OwedFits(new) /\ RunFits(new, covered')
    BY Zenon, <2>1, EarlyRecordFits DEF OwedFits
  <2>3. entry' \in Char \cup {"absent", "none"} /\ entry' # "absent" /\ new.stage # "dormant"
    BY Zenon, <1>0, <1>b, <2>0, <2>1
  <2> QED
    BY Zenon, <1>0, <1>a, <2>0, <2>1, <2>2, <2>3, JobStep
<1>6. ASSUME NEW t \in Task, NEW top \in Msg, TakeRows(t, top) PROVE MemInv'
  <2>0. /\ t \in Active /\ owed' = FALSE
        /\ row' = row /\ lastRev' = lastRev /\ due' = due /\ entry' = entry
        /\ checkpoint' = checkpoint /\ covered' = covered
    BY Zenon, <1>6 DEF TakeRows, Active
  <2>1. PICK taken \in SUBSET (Msg \X Nat) : taken = {<<m, row[m]>> : m \in UpTo(top)}
    <3>1. \A m \in UpTo(top) : m \in Msg /\ row[m] \in Nat
      BY Zenon, <1>0 DEF UpTo, Changed
    <3>2. ASSUME NEW p \in {<<m, row[m]>> : m \in UpTo(top)} PROVE p \in Msg \X Nat
      <4>1. PICK m \in UpTo(top) : p = <<m, row[m]>>
        BY Zenon
      <4> QED
        BY Zenon, <3>1, <4>1
    <3> QED
      BY Zenon, <3>2
  <2>2. PICK o \in TaskRecord : o = task[t] /\ o.char \in Char
    BY Zenon, <1>0, <1>b, <2>0
  <2>3. row[top] \in Nat
    BY Zenon, <1>0
  <2>4. PICK new \in TaskRecord : new = [o EXCEPT !.stage = "model", !.read = taken, !.latest = row[top]]
    BY Zenon, <2>3 DEF TaskRecord, MemStage
  <2>5. new.stage = "model" /\ new.char = o.char /\ new.latest = row[top] /\ new.read = taken
    BY Zenon, <2>4 DEF TaskRecord
  <2>6. task' = [task EXCEPT ![t] = new]
    BY Zenon, <1>6, <2>1, <2>2, <2>4 DEF TakeRows, LatestRead
  <2>7. \A m \in Msg : row[m] # 0 /\ row[m] <= row[top] => <<m, row[m]>> \in covered \cup taken
    <3> SUFFICES ASSUME NEW m \in Msg, row[m] # 0, row[m] <= row[top] PROVE <<m, row[m]>> \in covered \cup taken
      BY Zenon
    <3>1. CASE row[m] <= checkpoint
      BY Zenon, <3>1 DEF MemInv, NothingSkipped
    <3>2. CASE ~(row[m] <= checkpoint)
      <4>1. row[m] > checkpoint
        <5>1. row[m] \in Nat /\ checkpoint \in Nat
          BY Zenon, <1>0
        <5> QED
          BY <3>2, <5>1, SMT
      <4> QED
        BY Zenon, <2>1, <4>1 DEF UpTo, Changed
    <3> QED
      BY Zenon, <3>1, <3>2
  <2>8. RunFits(new, covered')
    BY Zenon, <2>0, <2>5, <2>7 DEF RunFits, MemInv, Bounded
  <2>9. OwedFits(new) /\ entry # "absent" /\ new.stage # "dormant" /\ owed' \in BOOLEAN
    BY Zenon, <1>b, <2>0, <2>5 DEF OwedFits
  <2> QED
    BY Zenon, <1>0, <1>a, <2>0, <2>2, <2>5, <2>6, <2>8, <2>9, JobStep
<1>7. ASSUME NEW t \in Task, NEW s \in {"saved", "end"}, t \in Active,
             task[t].stage \in {"extract", "model", "saved"}, task' = [task EXCEPT ![t].stage = s],
             row' = row, lastRev' = lastRev, due' = due, entry' = entry,
             owed' = owed \/ (task[t].stage = "extract" /\ owed' = FALSE),
             task[t].stage = "extract" => owed' = FALSE,
             covered' \in SUBSET (Msg \X Nat), covered \subseteq covered',
             s = "saved" => task[t].stage = "model" /\ covered' = covered \cup task[t].read,
             checkpoint' \in Nat, checkpoint' <= lastRev, NothingSkipped'
      PROVE MemInv'
  <2>1. PICK o \in TaskRecord : o = task[t] /\ o.char \in Char
    BY Zenon, <1>0, <1>b, <1>7
  <2>2. PICK new \in TaskRecord : new = [o EXCEPT !.stage = s]
    BY Zenon, <1>7 DEF TaskRecord, MemStage
  <2>3. new.stage = s /\ new.char = o.char /\ new.latest = o.latest
    BY Zenon, <2>2 DEF TaskRecord
  <2>4. task' = [task EXCEPT ![t] = new]
    BY Zenon, <1>7, <2>1, <2>2
  <2>5. RunFits(new, covered')
    <3>1. CASE s = "end"
      BY Zenon, <2>3, <3>1, EarlyRecordFits
    <3>2. CASE s = "saved"
      <4>1. o.stage = "model" /\ covered' = covered \cup o.read
        BY Zenon, <1>7, <2>1, <3>2
      <4>2. o.latest <= lastRev
        BY Zenon, <2>1, <4>1 DEF MemInv, Bounded
      <4>3. \A m \in Msg : row[m] # 0 /\ row[m] <= o.latest => <<m, row[m]>> \in covered \cup o.read
        BY Zenon, <2>1, <4>1 DEF MemInv, RunCovers
      <4> QED
        BY Zenon, <2>3, <3>2, <4>1, <4>2, <4>3 DEF RunFits
    <3> QED
      BY Zenon, <1>7, <3>1, <3>2
  <2>6. OwedFits(new)
    <3> SUFFICES ASSUME owed' PROVE entry' \in Char
      BY Zenon DEF OwedFits
    <3>1. owed /\ task[t].stage \notin {"begin", "wait", "extract"}
      BY Zenon, <1>7
    <3> QED
      BY Zenon, <1>7, <3>1, OwedIsFollowUp
  <2>7. entry' # "absent" /\ new.stage # "dormant" /\ owed' \in BOOLEAN
    BY Zenon, <1>0, <1>b, <1>7, <2>3
  <2> QED
    BY Zenon, <1>0, <1>7, <2>1, <2>3, <2>4, <2>5, <2>6, <2>7, JobStep
<1>8. ASSUME NEW t \in Task, TakeNothing(t) \/ RunFails(t) PROVE MemInv'
  <2>1. /\ t \in Active /\ task[t].stage \in {"extract", "model", "saved"}
        /\ task' = [task EXCEPT ![t].stage = "end"]
        /\ row' = row /\ lastRev' = lastRev /\ due' = due /\ entry' = entry
        /\ checkpoint' = checkpoint /\ covered' = covered
    BY Zenon, <1>8 DEF TakeNothing, RunFails, Active
  <2>2. /\ task[t].stage = "extract" => owed' = FALSE
        /\ owed' = owed \/ (task[t].stage = "extract" /\ owed' = FALSE)
    BY Zenon, <1>8 DEF TakeNothing, RunFails
  <2>3. covered \subseteq covered' /\ NothingSkipped'
    BY Zenon, <1>a, <2>1
  <2> QED
    BY Zenon, <1>0, <1>7, <2>1, <2>2, <2>3
<1>9. ASSUME NEW t \in Task, SaveMemories(t) PROVE MemInv'
  <2>1. /\ t \in Active /\ task[t].stage = "model"
        /\ task' = [task EXCEPT ![t].stage = "saved"] /\ covered' = covered \cup task[t].read
        /\ row' = row /\ lastRev' = lastRev /\ due' = due /\ entry' = entry
        /\ checkpoint' = checkpoint /\ owed' = owed
    BY Zenon, <1>9 DEF SaveMemories, Active
  <2>2. task[t].read \in SUBSET (Msg \X Nat)
    BY Zenon, <1>0 DEF TaskRecord
  <2>3. covered' \in SUBSET (Msg \X Nat) /\ covered \subseteq covered'
    BY Zenon, <1>0, <2>1, <2>2
  <2>4. NothingSkipped'
    BY Zenon, <1>a, <2>1, <2>3
  <2> QED
    BY Zenon, <1>0, <1>7, <2>1, <2>3, <2>4
<1>10. ASSUME NEW t \in Task, Advance(t) PROVE MemInv'
  <2>1. /\ t \in Active /\ task[t].stage = "saved"
        /\ task' = [task EXCEPT ![t].stage = "end"]
        /\ row' = row /\ lastRev' = lastRev /\ due' = due /\ entry' = entry
        /\ covered' = covered /\ owed' = owed
        /\ checkpoint' = task[t].latest \/ checkpoint' = checkpoint
    BY Zenon, <1>10 DEF Advance, Active
  <2>2. task[t].latest \in Nat /\ task[t].latest <= lastRev
    BY Zenon, <1>0, <2>1 DEF TaskRecord, MemInv, Bounded
  <2>3. checkpoint' \in Nat /\ checkpoint' <= lastRev
    BY Zenon, <1>0, <2>1, <2>2
  <2>4. NothingSkipped'
    <3>1. CASE checkpoint' = checkpoint
      BY Zenon, <2>1, <3>1 DEF MemInv, NothingSkipped
    <3>2. CASE checkpoint' = task[t].latest
      BY Zenon, <2>1, <3>2 DEF MemInv, RunCovers, NothingSkipped
    <3> QED
      BY Zenon, <2>1, <3>1, <3>2
  <2>5. covered \subseteq covered' /\ covered' \in SUBSET (Msg \X Nat)
    BY Zenon, <1>0, <2>1
  <2> QED
    BY Zenon, <1>0, <1>7, <2>1, <2>3, <2>4, <2>5
<1>11. ASSUME NEW t \in Task, End(t) PROVE MemInv'
  <2>1. /\ task[t].stage = "end" /\ t \in Active
        /\ row' = row /\ lastRev' = lastRev /\ due' = due
        /\ checkpoint' = checkpoint /\ covered' = covered /\ owed' = owed
    BY Zenon, <1>11 DEF End, Active
  <2>2. CASE entry \in Char
    <3>1. PICK new \in TaskRecord : new = [Dormant EXCEPT !.stage = "begin", !.char = entry]
      BY Zenon, <2>2, 0 \in Nat DEF TaskRecord, Dormant, MemStage
    <3>2. task' = [task EXCEPT ![t] = new] /\ entry' = "none"
      BY Zenon, <1>11, <2>2, <3>1 DEF End
    <3>3. new.stage = "begin" /\ new.char \in Char
      BY Zenon, <2>2, <3>1 DEF Dormant
    <3>4. OwedFits(new) /\ RunFits(new, covered')
      BY Zenon, <3>3, EarlyRecordFits DEF OwedFits
    <3> QED
      BY Zenon, <1>0, <1>a, <2>1, <3>2, <3>3, <3>4, JobStep
  <2>3. CASE entry \notin Char
    <3>1. PICK new \in TaskRecord : new = Dormant
      BY Zenon, 0 \in Nat DEF TaskRecord, Dormant, MemStage
    <3>2. task' = [task EXCEPT ![t] = new] /\ entry' = "absent"
      BY Zenon, <1>11, <2>3, <3>1 DEF End
    <3>3. new.stage = "dormant"
      BY Zenon, <3>1 DEF Dormant
    <3>4. ~owed
      BY Zenon, <2>1, <2>3, OwedIsFollowUp
    <3>5. OwedFits(new) /\ RunFits(new, covered')
      BY Zenon, <2>1, <3>3, <3>4, EarlyRecordFits DEF OwedFits
    <3> QED
      BY Zenon, <1>0, <1>a, <2>1, <3>2, <3>3, <3>5, JobStep
  <2> QED
    BY Zenon, <2>2, <2>3
<1>12. ASSUME Restart PROVE MemInv'
  <2>1. /\ due' = {} /\ entry' = "absent" /\ task' = [t \in Task |-> Dormant] /\ owed' = FALSE
        /\ row' = row /\ lastRev' = lastRev /\ checkpoint' = checkpoint /\ covered' = covered
    BY Zenon, <1>12 DEF Restart
  <2>2. Dormant \in TaskRecord /\ Dormant.stage = "dormant"
    BY Zenon, 0 \in Nat DEF TaskRecord, Dormant, MemStage
  <2>3. task' \in [Task -> TaskRecord] /\ \A t \in Task : task'[t].stage = "dormant"
    BY Zenon, <2>1, <2>2
  <2>4. Active' = {}
    BY Zenon, <2>3 DEF Active
  <2>5. MemTypeOK'
    BY Zenon, <1>0, <2>1, <2>3, <2>4 DEF MemTypeOK, TaskRecord
  <2>6. OneJob' /\ ReplyNotForgotten'
    BY Zenon, <2>1, <2>4 DEF OneJob, ReplyNotForgotten
  <2>7. NothingSkipped' /\ CheckpointBounded'
    BY Zenon, <2>1 DEF MemInv, NothingSkipped, CheckpointBounded
  <2>8. Bounded' /\ RunCovers'
    BY Zenon, <2>1, <2>3 DEF MemInv, Bounded, RunCovers
  <2> QED
    BY Zenon, <2>5, <2>6, <2>7, <2>8 DEF MemInv
<1>13. ASSUME UNCHANGED memVars PROVE MemInv'
  <2>1. /\ row' = row /\ lastRev' = lastRev /\ due' = due /\ entry' = entry /\ task' = task
        /\ checkpoint' = checkpoint /\ covered' = covered /\ owed' = owed
    BY Zenon, <1>13 DEF memVars
  <2>2. Active' = Active
    BY Zenon, <2>1 DEF Active
  <2> QED
    BY Zenon, <2>1, <2>2 DEF MemInv, MemTypeOK, OneJob, ReplyNotForgotten, NothingSkipped, Bounded,
       RunCovers, CheckpointBounded
<1> QED
  BY Zenon, <1>2, <1>3, <1>4, <1>5, <1>6, <1>8, <1>9, <1>10, <1>11, <1>12, <1>13 DEF MemNext, Step

\* The inductive invariant holds in every behaviour of the extraction jobs.
THEOREM MemoryJobsInvariant == MemSpec => []MemInv
<1> QED
  BY InitMemInv, NextMemInv, PTL DEF MemSpec

\* extract_memories and maybe_extract_automatic_memory: the checkpoint never
\* passes a message whose present text has not been read and its facts stored,
\* for any number of messages, edits, failures and restarts.
THEOREM CheckpointSkipsNothing == MemSpec => []NothingSkipped
<1>1. MemInv => NothingSkipped
  BY DEF MemInv
<1> QED
  BY MemoryJobsInvariant, <1>1, PTL

\* schedule_automatic_memory: there is never a second job for a conversation,
\* and its entry is there exactly while the job is.
THEOREM AtMostOneJob == MemSpec => []OneJob
<1>1. MemInv => OneJob
  BY DEF MemInv
<1> QED
  BY MemoryJobsInvariant, <1>1, PTL

\* schedule_automatic_memory: a reply scheduled while a job is under way is
\* not lost, wherever the job stands.
THEOREM NoReplyForgotten == MemSpec => []ReplyNotForgotten
<1>1. MemInv => ReplyNotForgotten
  BY DEF MemInv
<1> QED
  BY MemoryJobsInvariant, <1>1, PTL

-----------------------------------------------------------------------------
(* Accounts: the invariant.                                                *)

Role == {"none", "user", "admin"}

\* The request is to write a new account.
Creates(j) == j.op \in {"register", "create"}

\* The request is to take an administrator away, should its user be one.
Removes(j) == j.op = "delete" \/ (j.op = "role" /\ j.role = "user")

\* What a handler has checked.
TaskFits(j) ==
  /\ j # Free => j.user \in User
  /\ j.op \in {"idle", "register", "login", "create", "delete", "role"}
  /\ j.op \in {"create", "role"} => j.role \in {"user", "admin"}

TasksFit == checked = [h \in Clerk |-> checked[h]] /\ \A h \in Clerk : TaskFits(checked[h])

\* An account that is about to be written does not exist, and is written once.
NewAccounts ==
  \A h \in Clerk : Creates(checked[h]) =>
    /\ role[checked[h].user] = "none"
    /\ \A g \in Clerk : g # h /\ Creates(checked[g]) => checked[g].user # checked[h].user

\* An administrator stands behind a change, not the one it would take away.
Behind(j) ==
  /\ j.op = "create" => Admins # {}
  /\ Removes(j) => \E a \in Admins : a # j.user

\* Requests that do not overlap.
Alone ==
  ~overlapped =>
    /\ \A g, h \in Underway : g = h
    /\ \A h \in Clerk : Behind(checked[h])
    /\ Users # {} => Admins # {}

AccountsInv == AccountTypeOK /\ TasksFit /\ NewAccounts /\ FirstAccountIsAdmin /\ Alone

-----------------------------------------------------------------------------
(* Accounts: the kinds of steps.                                           *)

\* A free handler has nothing to write.
LEMMA FreeFits == TaskFits(Free) /\ ~Creates(Free) /\ ~Removes(Free) /\ Free.op # "create" /\ Free.op = "idle"
  BY DEF TaskFits, Creates, Removes, Free

\* A handler has checked a request.
LEMMA TakeKeeps ==
  ASSUME AccountsInv, NEW h \in Clerk, NEW j, Take(h, j), TaskFits(j), Behind(j), j # Free,
         Creates(j) => NewId(j.user),
         overlapped' = (overlapped \/ \E g, k \in Underway' : g # k)
  PROVE  AccountsInv'
<1>1. AccountTypeOK /\ TasksFit /\ NewAccounts /\ FirstAccountIsAdmin /\ Alone
  BY Zenon DEF AccountsInv
<1>2. /\ UNCHANGED <<role, session, open, managed>> /\ checked' = [checked EXCEPT ![h] = j]
      /\ steps' = steps + 1 /\ checked[h] = Free
  BY Zenon DEF Take
<1>3. checked'[h] = j /\ \A g \in Clerk : g # h => checked'[g] = checked[g]
  BY Zenon, <1>1, <1>2 DEF TasksFit
<1>4. TasksFit'
  <2>1. checked' = [g \in Clerk |-> checked'[g]]
    BY Zenon, <1>1, <1>2 DEF TasksFit
  <2>2. \A g \in Clerk : TaskFits(checked'[g])
    BY Zenon, <1>1, <1>3 DEF TasksFit
  <2> QED
    BY Zenon, <2>1, <2>2 DEF TasksFit, TaskFits
<1>5. AccountTypeOK'
  <2>1. steps' \in Nat
    BY <1>1, <1>2 DEF AccountTypeOK
  <2> QED
    BY Zenon, <1>1, <1>2, <1>4, <2>1 DEF AccountTypeOK, TasksFit, TaskFits
<1>6. Users' = Users /\ Admins' = Admins
  BY Zenon, <1>2 DEF Users, Admins
<1>7. FirstAccountIsAdmin'
  BY Zenon, <1>1, <1>2, <1>6 DEF FirstAccountIsAdmin
<1>8. NewAccounts'
  <2>1. ASSUME NEW g \in Clerk, g # h, Creates(checked[g]), Creates(j)
        PROVE  checked[g].user # j.user
    <3>1. checked[g] # Free
      BY Zenon, <2>1, FreeFits
    <3> QED
      BY Zenon, <2>1, <3>1 DEF NewId
  <2>2. Creates(j) => role[j.user] = "none"
    BY Zenon DEF NewId
  <2>3. ASSUME NEW k \in Clerk, Creates(checked'[k])
        PROVE  /\ role[checked'[k].user] = "none"
               /\ \A g \in Clerk : g # k /\ Creates(checked'[g]) => checked'[g].user # checked'[k].user
    <3>1. CASE k = h
      BY Zenon, <1>3, <2>1, <2>2, <2>3, <3>1
    <3>2. CASE k # h
      BY ZenonT(30), <1>1, <1>3, <2>1, <2>3, <3>2 DEF NewAccounts
    <3> QED
      BY Zenon, <3>1, <3>2
  <2> QED
    BY ZenonT(30), <1>2, <2>3 DEF NewAccounts, Creates
<1>9. Alone'
  <2> SUFFICES ASSUME ~overlapped'
               PROVE  /\ \A g, k \in Underway' : g = k
                      /\ \A k \in Clerk : Behind(checked[k])'
                      /\ Users' # {} => Admins' # {}
    BY Zenon DEF Alone
  <2>1. ~overlapped /\ \A g, k \in Underway' : g = k
    BY Zenon
  <2>2. Users' # {} => Admins' # {}
    BY Zenon, <1>1, <1>6, <2>1 DEF Alone
  <2>3. h \in Underway'
    BY Zenon, <1>3 DEF Underway
  <2>4. ASSUME NEW k \in Clerk, k # h
        PROVE  checked'[k] = Free
    BY Zenon, <2>1, <2>3, <2>4 DEF Underway
  <2>5. Behind(checked[h])'
    BY Zenon, <1>3, <1>6 DEF Behind, Removes
  <2>6. ASSUME NEW k \in Clerk, k # h
        PROVE  Behind(checked[k])'
    BY Zenon, <2>4, <2>6, FreeFits DEF Behind, Removes
  <2> QED
    BY Zenon, <2>1, <2>2, <2>5, <2>6
<1> QED
  BY Zenon, <1>4, <1>5, <1>7, <1>8, <1>9 DEF AccountsInv

\* A handler writes, or is refused, and ends; after a registration it goes on
\* with the login.
LEMMA WriteKeeps ==
  ASSUME AccountsInv, NEW h \in Clerk, checked[h] # Free, NEW j, checked' = [checked EXCEPT ![h] = j],
         j = Free \/ (\E u \in User : j = [op |-> "login", user |-> u]),
         role' \in [User -> Role], session' \in SUBSET User, managed' \in BOOLEAN,
         UNCHANGED <<open, steps>>,
         \A g \in Clerk : g # h /\ Creates(checked[g]) => role'[checked[g].user] = "none",
         FirstAccountIsAdmin', ~overlapped => (Users' # {} => Admins' # {}),
         overlapped' = (overlapped \/ \E g, k \in Underway' : g # k)
  PROVE  AccountsInv'
<1>1. AccountTypeOK /\ TasksFit /\ NewAccounts /\ Alone
  BY Zenon DEF AccountsInv
<1>2. TaskFits(j) /\ ~Creates(j) /\ ~Removes(j) /\ j.op # "create"
  <2>1. ASSUME NEW u \in User, j = [op |-> "login", user |-> u]
        PROVE  TaskFits(j) /\ ~Creates(j) /\ ~Removes(j) /\ j.op # "create"
    BY <2>1 DEF TaskFits, Creates, Removes, Free
  <2> QED
    BY Zenon, <2>1, FreeFits
<1>3. checked'[h] = j /\ \A g \in Clerk : g # h => checked'[g] = checked[g]
  BY Zenon, <1>1 DEF TasksFit
<1>4. TasksFit'
  <2>1. checked' = [g \in Clerk |-> checked'[g]]
    BY Zenon, <1>1 DEF TasksFit
  <2>2. \A g \in Clerk : TaskFits(checked'[g])
    BY Zenon, <1>1, <1>2, <1>3 DEF TasksFit
  <2> QED
    BY Zenon, <2>1, <2>2 DEF TasksFit, TaskFits
<1>5. AccountTypeOK'
  BY Zenon, <1>1, <1>4 DEF AccountTypeOK, TasksFit, TaskFits, Role
<1>6. NewAccounts'
  <2>1. ASSUME NEW k \in Clerk, Creates(checked'[k])
        PROVE  /\ role'[checked'[k].user] = "none"
               /\ \A g \in Clerk : g # k /\ Creates(checked'[g]) => checked'[g].user # checked'[k].user
    <3>1. k # h
      BY Zenon, <1>2, <1>3, <2>1
    <3>2. checked'[k] = checked[k] /\ Creates(checked[k])
      BY Zenon, <1>3, <2>1, <3>1
    <3>3. role'[checked'[k].user] = "none"
      BY Zenon, <3>1, <3>2
    <3>4. ASSUME NEW g \in Clerk, g # k, Creates(checked'[g])
          PROVE  checked'[g].user # checked'[k].user
      BY ZenonT(30), <1>1, <1>2, <1>3, <3>2, <3>4 DEF NewAccounts
    <3> QED
      BY Zenon, <3>3, <3>4
  <2> QED
    BY ZenonT(30), <2>1 DEF NewAccounts, Creates
<1>7. Alone'
  <2> SUFFICES ASSUME ~overlapped'
               PROVE  /\ \A g, k \in Underway' : g = k
                      /\ \A k \in Clerk : Behind(checked[k])'
                      /\ Users' # {} => Admins' # {}
    BY Zenon DEF Alone
  <2>1. ~overlapped /\ \A g, k \in Underway' : g = k
    BY Zenon
  <2>2. Users' # {} => Admins' # {}
    BY Zenon, <2>1
  <2>3. ASSUME NEW k \in Clerk, k # h
        PROVE  checked'[k] = Free
    BY Zenon, <1>1, <1>3, <2>1, <2>3 DEF Alone, Underway
  <2>4. Behind(checked[h])'
    BY Zenon, <1>2, <1>3 DEF Behind, Removes
  <2>5. ASSUME NEW k \in Clerk, k # h
        PROVE  Behind(checked[k])'
    BY Zenon, <2>3, <2>5, FreeFits DEF Behind, Removes
  <2> QED
    BY Zenon, <2>1, <2>2, <2>4, <2>5
<1> QED
  BY Zenon, <1>4, <1>5, <1>6, <1>7 DEF AccountsInv
-----------------------------------------------------------------------------
(* Accounts: the requests.                                                 *)

\* What a new account's handlers have checked.
LEMMA CreationFits ==
  ASSUME NEW u \in User, NEW r \in {"user", "admin"}, NEW first
  PROVE  /\ \A j \in {[op |-> "register", user |-> u, first |-> first],
                      [op |-> "create", user |-> u, role |-> r]} :
              TaskFits(j) /\ j # Free /\ j.user = u /\ ~Removes(j)
         /\ [op |-> "register", user |-> u, first |-> first].op # "create"
  BY DEF TaskFits, Free, Removes

\* What the handlers for an existing account have.
LEMMA ChangeFits ==
  ASSUME NEW u \in User, NEW r \in {"user", "admin"}
  PROVE  /\ \A j \in {[op |-> "login", user |-> u], [op |-> "delete", user |-> u],
                      [op |-> "role", user |-> u, role |-> r]} :
              TaskFits(j) /\ j # Free /\ j.user = u /\ ~Creates(j) /\ j.op # "create"
         /\ ~Removes([op |-> "login", user |-> u])
         /\ Removes([op |-> "role", user |-> u, role |-> r]) => r = "user"
<1>1. TaskFits([op |-> "login", user |-> u]) /\ [op |-> "login", user |-> u] # Free
  BY DEF TaskFits, Free
<1>2. TaskFits([op |-> "delete", user |-> u]) /\ [op |-> "delete", user |-> u] # Free
  BY DEF TaskFits, Free
<1>3. TaskFits([op |-> "role", user |-> u, role |-> r]) /\ [op |-> "role", user |-> u, role |-> r] # Free
  BY DEF TaskFits, Free
<1>4. /\ \A j \in {[op |-> "login", user |-> u], [op |-> "delete", user |-> u],
                   [op |-> "role", user |-> u, role |-> r]} :
           j.user = u /\ ~Creates(j) /\ j.op # "create"
      /\ ~Removes([op |-> "login", user |-> u])
      /\ Removes([op |-> "role", user |-> u, role |-> r]) => r = "user"
  BY DEF Creates, Removes
<1> QED
  BY Zenon, <1>1, <1>2, <1>3, <1>4

\* Every check is of a request that fits.
LEMMA ChecksKeep ==
  ASSUME AccountsInv, NEW h \in Clerk, NEW u \in User,
         \/ CheckRegistration(h, u) \/ CheckLogin(h, u)
         \/ \E a \in User :
              \/ CheckDelete(h, a, u)
              \/ \E r \in {"user", "admin"} : CheckCreate(h, a, u, r) \/ CheckSetRole(h, a, u, r),
         overlapped' = (overlapped \/ \E g, k \in Underway' : g # k)
  PROVE  AccountsInv'
<1>1. CASE CheckRegistration(h, u)
  <2>1. PICK j : j = [op |-> "register", user |-> u, first |-> Users = {}]
    BY Zenon
  <2>2. TaskFits(j) /\ j # Free /\ j.user = u /\ ~Removes(j) /\ j.op # "create"
    BY ZenonT(30), <2>1, CreationFits
  <2>3. Take(h, j) /\ NewId(j.user) /\ Behind(j)
    BY Zenon, <1>1, <2>1, <2>2 DEF CheckRegistration, Behind
  <2> QED
    BY Zenon, <2>2, <2>3, TakeKeeps
<1>2. CASE CheckLogin(h, u)
  <2>1. PICK j : j = [op |-> "login", user |-> u]
    BY Zenon
  <2>2. TaskFits(j) /\ j # Free /\ ~Creates(j) /\ j.op # "create" /\ ~Removes(j)
    BY Zenon, <2>1, ChangeFits
  <2>3. Take(h, j) /\ Behind(j)
    BY Zenon, <1>2, <2>1, <2>2 DEF CheckLogin, Behind
  <2> QED
    BY Zenon, <2>2, <2>3, TakeKeeps
<1>3. ASSUME NEW a \in User, CheckDelete(h, a, u)
      PROVE  AccountsInv'
  <2>1. PICK j : j = [op |-> "delete", user |-> u]
    BY Zenon
  <2>2. TaskFits(j) /\ j # Free /\ ~Creates(j) /\ j.op # "create" /\ j.user = u
    BY Zenon, <2>1, ChangeFits
  <2>3. a \in Admins /\ a # u /\ Take(h, j)
    BY Zenon, <1>3, <2>1 DEF CheckDelete, RequireAdmin, MayRemove, Admins
  <2>4. Behind(j)
    BY Zenon, <2>2, <2>3 DEF Behind
  <2> QED
    BY Zenon, <2>2, <2>3, <2>4, TakeKeeps
<1>4. ASSUME NEW a \in User, NEW r \in {"user", "admin"}, CheckCreate(h, a, u, r)
      PROVE  AccountsInv'
  <2>1. PICK j : j = [op |-> "create", user |-> u, role |-> r]
    BY Zenon
  <2>2. TaskFits(j) /\ j # Free /\ j.user = u /\ ~Removes(j)
    BY ZenonT(30), <2>1, CreationFits
  <2>3. a \in Admins /\ NewId(u) /\ Take(h, j)
    BY Zenon, <1>4, <2>1 DEF CheckCreate, RequireAdmin, Admins
  <2>4. Behind(j)
    BY Zenon, <2>2, <2>3 DEF Behind
  <2> QED
    BY Zenon, <2>2, <2>3, <2>4, TakeKeeps
<1>5. ASSUME NEW a \in User, NEW r \in {"user", "admin"}, CheckSetRole(h, a, u, r)
      PROVE  AccountsInv'
  <2>1. PICK j : j = [op |-> "role", user |-> u, role |-> r]
    BY Zenon
  <2>2. /\ TaskFits(j) /\ j # Free /\ ~Creates(j) /\ j.op # "create" /\ j.user = u
        /\ Removes(j) => r = "user"
    BY Zenon, <2>1, ChangeFits
  <2>3. a \in Admins /\ (r = "user" => a # u) /\ Take(h, j)
    BY Zenon, <1>5, <2>1 DEF CheckSetRole, RequireAdmin, MayRemove, Admins
  <2>4. Behind(j)
    BY Zenon, <2>2, <2>3 DEF Behind
  <2> QED
    BY Zenon, <2>2, <2>3, <2>4, TakeKeeps
<1> QED
  BY Zenon, <1>1, <1>2, <1>3, <1>4, <1>5

\* Logout and AdminSetBrokerConfig change no role and no request.
LEMMA RolesUntouched ==
  ASSUME AccountsInv, UNCHANGED <<role, checked, managed>>, session' \in SUBSET User,
         open' \in BOOLEAN, steps' \in Nat,
         overlapped' = (overlapped \/ \E g, k \in Underway' : g # k) \/ overlapped' = overlapped
  PROVE  AccountsInv'
<1>1. AccountTypeOK /\ TasksFit /\ NewAccounts /\ FirstAccountIsAdmin /\ Alone
  BY Zenon DEF AccountsInv
<1>2. Users' = Users /\ Admins' = Admins /\ Underway' = Underway
  BY Zenon DEF Users, Admins, Underway
<1>3. AccountTypeOK' /\ TasksFit'
  BY Zenon, <1>1 DEF AccountTypeOK, TasksFit, TaskFits
<1>4. NewAccounts'
  BY Zenon, <1>1 DEF NewAccounts, Creates
<1>5. FirstAccountIsAdmin'
  BY Zenon, <1>1, <1>2 DEF FirstAccountIsAdmin
<1>6. Alone'
  BY Zenon, <1>1, <1>2 DEF Alone, Behind, Removes
<1> QED
  BY Zenon, <1>3, <1>4, <1>5, <1>6 DEF AccountsInv

\* Register: the first account becomes the administrator.
LEMMA RegisteredKeeps ==
  ASSUME AccountsInv, NEW h \in Clerk, InsertRegistered(h),
         overlapped' = (overlapped \/ \E g, k \in Underway' : g # k)
  PROVE  AccountsInv'
<1>1. AccountTypeOK /\ TasksFit /\ NewAccounts /\ FirstAccountIsAdmin /\ Alone
  BY Zenon DEF AccountsInv
<1>2. checked[h].op = "register" /\ checked[h] # Free /\ Creates(checked[h])
  <2>1. checked[h].op = "register"
    BY Zenon DEF InsertRegistered
  <2>2. checked[h].op # "idle" /\ checked[h].op \in {"register", "create"}
    BY <2>1
  <2> QED
    BY Zenon, <2>1, <2>2, FreeFits DEF Creates
<1>3. PICK u \in User : u = checked[h].user
  BY Zenon, <1>1, <1>2 DEF TasksFit, TaskFits
<1>4. role[u] = "none" /\ \A g \in Clerk : g # h /\ Creates(checked[g]) => checked[g].user # u
  BY Zenon, <1>1, <1>2, <1>3 DEF NewAccounts
<1>5. PICK r \in {"user", "admin"} : r = RegisteredRole(h) /\ (Users = {} <=> r = "admin")
  BY DEF RegisteredRole
<1>6. /\ role' = [role EXCEPT ![u] = r] /\ session' = session /\ managed' = managed
      /\ checked' = [checked EXCEPT ![h] = [op |-> "login", user |-> u]] /\ UNCHANGED <<open, steps>>
  BY Zenon, <1>3, <1>5 DEF InsertRegistered
<1>7. role \in [User -> Role] /\ r \in Role /\ session \in SUBSET User /\ managed \in BOOLEAN
  BY Zenon, <1>1 DEF AccountTypeOK, Role
<1>8. /\ role' \in [User -> Role] /\ role'[u] = r /\ \A v \in User : v # u => role'[v] = role[v]
  BY Zenon, <1>6, <1>7
<1>9. \A g \in Clerk : g # h /\ Creates(checked[g]) => role'[checked[g].user] = "none"
  BY ZenonT(30), <1>1, <1>4, <1>8, FreeFits DEF NewAccounts, TasksFit, TaskFits
<1>10. CASE Users = {}
  <2>1. r = "admin" /\ \A v \in User : role[v] # "admin"
    <3>1. \A v \in User : role[v] = "none"
      BY Zenon, <1>10 DEF Users
    <3> QED
      BY <1>5, <1>10, <3>1
  <2>2. Admins' = {u}
    BY Zenon, <1>8, <2>1 DEF Admins
  <2>3. FirstAccountIsAdmin'
    BY Zenon, <2>2 DEF FirstAccountIsAdmin
  <2> QED
    BY Zenon, <1>2, <1>6, <1>7, <1>8, <1>9, <2>2, <2>3, WriteKeeps
<1>11. CASE Users # {}
  <2>1. r # "admin" /\ role[u] # "admin"
    BY <1>4, <1>5, <1>11
  <2>2. Admins' = Admins
    BY Zenon, <1>8, <2>1 DEF Admins
  <2>3. FirstAccountIsAdmin'
    BY Zenon, <1>1, <1>6, <1>11, <2>2 DEF FirstAccountIsAdmin
  <2>4. ~overlapped => Admins' # {}
    BY Zenon, <1>1, <1>11, <2>2 DEF Alone
  <2> QED
    BY Zenon, <1>2, <1>6, <1>7, <1>8, <1>9, <2>3, <2>4, WriteKeeps
<1> QED
  BY Zenon, <1>10, <1>11

\* A login, or an answer that refuses a request, changes no role.
LEMMA AnswersKeep ==
  ASSUME AccountsInv, NEW h \in Clerk, OpenSession(h) \/ Refuse(h),
         overlapped' = (overlapped \/ \E g, k \in Underway' : g # k)
  PROVE  AccountsInv'
<1>1. AccountTypeOK /\ TasksFit /\ NewAccounts /\ FirstAccountIsAdmin /\ Alone
  BY Zenon DEF AccountsInv
<1>2. checked[h] # Free
  <2>1. checked[h].op = "login" => checked[h].op # "idle"
    OBVIOUS
  <2> QED
    BY Zenon, <2>1, FreeFits DEF OpenSession, Refuse
<1>3. /\ role' = role /\ managed' = managed /\ session' \in SUBSET User
      /\ checked' = [checked EXCEPT ![h] = Free] /\ UNCHANGED <<open, steps>>
  BY Zenon, <1>1 DEF OpenSession, Refuse, Release, Users, AccountTypeOK
<1>4. role' \in [User -> Role] /\ managed' \in BOOLEAN
  BY Zenon, <1>1, <1>3 DEF AccountTypeOK, Role
<1>5. Users' = Users /\ Admins' = Admins
  BY Zenon, <1>3 DEF Users, Admins
<1>6. \A g \in Clerk : g # h /\ Creates(checked[g]) => role'[checked[g].user] = "none"
  BY Zenon, <1>1, <1>3 DEF NewAccounts
<1>7. FirstAccountIsAdmin' /\ (~overlapped => (Users' # {} => Admins' # {}))
  BY Zenon, <1>1, <1>3, <1>5 DEF FirstAccountIsAdmin, Alone
<1> QED
  BY Zenon, <1>2, <1>3, <1>4, <1>6, <1>7, WriteKeeps

\* An administrator's change is written: of one account, to a role that leaves
\* an administrator if the request had no other beside it.
LEMMA ChangeKeeps ==
  ASSUME AccountsInv, NEW h \in Clerk, checked[h] # Free, NEW u \in User, NEW r \in Role,
         role' = [role EXCEPT ![u] = r], managed' = TRUE, session' \in SUBSET User, Release(h),
         \A g \in Clerk : g # h /\ Creates(checked[g]) => checked[g].user # u \/ r = "none",
         ~overlapped => r = "admin" \/ \E a \in Admins : a # u,
         overlapped' = (overlapped \/ \E g, k \in Underway' : g # k)
  PROVE  AccountsInv'
<1>1. AccountTypeOK /\ TasksFit /\ NewAccounts
  BY Zenon DEF AccountsInv
<1>2. role'[u] = r /\ (\A v \in User : v # u => role'[v] = role[v]) /\ role' \in [User -> Role]
  BY Zenon, <1>1 DEF AccountTypeOK, Role
<1>3. ASSUME NEW g \in Clerk, g # h, Creates(checked[g])
      PROVE  role'[checked[g].user] = "none"
  <2>1. checked[g].user \in User /\ role[checked[g].user] = "none"
    <3>1. checked[g] # Free
      BY Zenon, <1>3, FreeFits
    <3> QED
      BY Zenon, <1>1, <1>3, <3>1 DEF NewAccounts, TasksFit, TaskFits
  <2> QED
    BY Zenon, <1>2, <1>3, <2>1
<1>4. FirstAccountIsAdmin' /\ managed' \in BOOLEAN
  BY Zenon DEF FirstAccountIsAdmin
<1>5. ~overlapped => (Users' # {} => Admins' # {})
  BY Zenon, <1>2 DEF Admins
<1>6. checked' = [checked EXCEPT ![h] = Free] /\ UNCHANGED <<open, steps>>
  BY Zenon DEF Release
<1> QED
  BY ZenonT(30), <1>2, <1>3, <1>4, <1>5, <1>6, WriteKeeps

\* AdminCreateUser, AdminDeleteUser and AdminSetRole write what they checked.
LEMMA ManagedKeeps ==
  ASSUME AccountsInv, NEW h \in Clerk, InsertCreated(h) \/ DeleteUser(h) \/ SetRole(h),
         overlapped' = (overlapped \/ \E g, k \in Underway' : g # k)
  PROVE  AccountsInv'
<1>1. AccountTypeOK /\ TasksFit /\ NewAccounts /\ Alone /\ session \in SUBSET User
  BY Zenon DEF AccountsInv, AccountTypeOK
<1>2. checked[h].op \in {"create", "delete", "role"}
  BY Zenon DEF InsertCreated, DeleteUser, SetRole
<1>3. checked[h] # Free
  <2>1. checked[h].op # "idle"
    BY <1>2
  <2> QED
    BY Zenon, <2>1, FreeFits
<1>4. PICK u \in User : u = checked[h].user
  BY Zenon, <1>1, <1>3 DEF TasksFit, TaskFits
<1>5. ~overlapped => Behind(checked[h])
  BY Zenon, <1>1 DEF Alone
<1>6. CASE InsertCreated(h)
  <2>1. checked[h].op = "create" /\ Creates(checked[h])
    BY Zenon, <1>6 DEF InsertCreated, Creates
  <2>2. PICK r \in {"user", "admin"} : r = checked[h].role
    <3>1. checked[h].op \in {"create", "role"}
      BY Zenon, <2>1
    <3> QED
      BY Zenon, <1>1, <3>1 DEF TasksFit, TaskFits
  <2>3. r \in Role /\ role' = [role EXCEPT ![u] = r] /\ managed' = TRUE /\ session' = session /\ Release(h)
    BY Zenon, <1>4, <1>6, <2>2 DEF InsertCreated, Role
  <2>4. role[u] = "none" /\ \A g \in Clerk : g # h /\ Creates(checked[g]) => checked[g].user # u
    BY Zenon, <1>1, <1>4, <2>1 DEF NewAccounts
  <2>5. ~overlapped => \E a \in Admins : a # u
    <3>1. role[u] # "admin"
      BY <2>4
    <3>2. u \notin Admins
      BY Zenon, <3>1 DEF Admins
    <3>3. ~overlapped => Admins # {}
      BY Zenon, <1>5, <2>1 DEF Behind
    <3> QED
      BY Zenon, <3>2, <3>3
  <2> QED
    BY Zenon, <1>1, <1>3, <2>3, <2>4, <2>5, ChangeKeeps
<1>7. CASE DeleteUser(h)
  <2>1. checked[h].op = "delete" /\ Removes(checked[h])
    BY Zenon, <1>7 DEF DeleteUser, Removes
  <2>2. "none" \in Role /\ role' = [role EXCEPT ![u] = "none"] /\ managed' = TRUE /\ Release(h)
    BY Zenon, <1>4, <1>7 DEF DeleteUser, Role
  <2>3. session' \in SUBSET User
    BY Zenon, <1>1, <1>7 DEF DeleteUser
  <2>4. ~overlapped => \E a \in Admins : a # u
    BY Zenon, <1>4, <1>5, <2>1 DEF Behind
  <2> QED
    BY Zenon, <1>3, <2>2, <2>3, <2>4, ChangeKeeps
<1>8. CASE SetRole(h)
  <2>1. checked[h].op = "role" /\ u \in Users
    BY Zenon, <1>4, <1>8 DEF SetRole
  <2>2. PICK r \in {"user", "admin"} : r = checked[h].role
    <3>1. checked[h].op \in {"create", "role"}
      BY Zenon, <2>1
    <3> QED
      BY Zenon, <1>1, <3>1 DEF TasksFit, TaskFits
  <2>3. r \in Role /\ role' = [role EXCEPT ![u] = r] /\ managed' = TRUE /\ session' = session /\ Release(h)
    BY Zenon, <1>4, <1>8, <2>2 DEF SetRole, Role
  <2>4. \A g \in Clerk : Creates(checked[g]) => checked[g].user # u
    BY ZenonT(30), <1>1, <2>1 DEF NewAccounts, Users
  <2>5. ~overlapped => r = "admin" \/ \E a \in Admins : a # u
    <3>1. r = "admin" \/ Removes(checked[h])
      BY Zenon, <2>1, <2>2 DEF Removes
    <3> QED
      BY Zenon, <1>4, <1>5, <3>1 DEF Behind
  <2> QED
    BY Zenon, <1>1, <1>3, <2>3, <2>4, <2>5, ChangeKeeps
<1> QED
  BY Zenon, <1>6, <1>7, <1>8
-----------------------------------------------------------------------------
(* Accounts: the theorems.                                                 *)

\* No request, however it overlaps others, breaks the invariant.
LEMMA AccountStep ==
  ASSUME AccountsInv, [AccountNext]_accountVars
  PROVE  AccountsInv'
<1>0. AccountTypeOK
  BY Zenon DEF AccountsInv
<1>1. CASE UNCHANGED accountVars
  <2>1. /\ UNCHANGED <<role, checked, managed>> /\ overlapped' = overlapped
        /\ session' \in SUBSET User /\ open' \in BOOLEAN /\ steps' \in Nat
    BY Zenon, <1>0, <1>1 DEF accountVars, AccountTypeOK
  <2> QED
    BY Zenon, <2>1, RolesUntouched
<1>2. CASE AccountNext
  <2>1. Request /\ overlapped' = (overlapped \/ \E g, k \in Underway' : g # k)
    BY Zenon, <1>2 DEF AccountNext
  <2>2. ASSUME NEW h \in Clerk, Write(h)
        PROVE  AccountsInv'
    BY Zenon, <2>1, <2>2, RegisteredKeeps, AnswersKeep, ManagedKeeps DEF Write
  <2>3. ASSUME NEW h \in Clerk, NEW u \in User, CheckRegistration(h, u) \/ CheckLogin(h, u)
        PROVE  AccountsInv'
    BY Zenon, <2>1, <2>3, ChecksKeep
  <2>4. ASSUME NEW h \in Clerk, NEW a \in User, NEW u \in User,
               \/ CheckDelete(h, a, u)
               \/ \E r \in {"user", "admin"} : CheckCreate(h, a, u, r) \/ CheckSetRole(h, a, u, r)
        PROVE  AccountsInv'
    BY Zenon, <2>1, <2>4, ChecksKeep
  <2>5. ASSUME NEW u \in User, Logout(u) \/ SetPolicy(u)
        PROVE  AccountsInv'
    <3>1. steps \in Nat /\ steps' = steps + 1
      BY Zenon, <1>0, <2>5 DEF AccountTypeOK, Logout, SetPolicy
    <3>2. steps' \in Nat
      BY <3>1
    <3>3. UNCHANGED <<role, checked, managed>> /\ session' \in SUBSET User /\ open' \in BOOLEAN
      BY Zenon, <1>0, <2>5 DEF AccountTypeOK, Logout, SetPolicy
    <3> QED
      BY Zenon, <2>1, <3>2, <3>3, RolesUntouched
  <2> QED
    BY Zenon, <2>1, <2>2, <2>3, <2>4, <2>5 DEF Request
<1> QED
  BY Zenon, <1>1, <1>2

\* In an empty database there is no account and no request.
LEMMA AccountStart ==
  ASSUME AccountInit
  PROVE  AccountsInv
<1>1. /\ Users = {} /\ Admins = {} /\ Underway = {}
      /\ \A h \in Clerk : checked[h] = Free
  BY Zenon DEF AccountInit, Users, Admins, Underway
<1>2. TasksFit
  BY Zenon, <1>1, FreeFits DEF AccountInit, TasksFit
<1>3. AccountTypeOK
  <2>1. steps \in Nat
    BY DEF AccountInit
  <2>2. role \in [User -> {"none", "user", "admin"}] /\ session \in SUBSET User /\ open \in BOOLEAN
        /\ managed \in BOOLEAN
    BY Zenon DEF AccountInit
  <2> QED
    BY Zenon, <1>2, <2>1, <2>2 DEF AccountTypeOK, TasksFit, TaskFits
<1>4. NewAccounts
  BY Zenon, <1>1, FreeFits DEF NewAccounts
<1>5. FirstAccountIsAdmin
  BY Zenon, <1>1 DEF FirstAccountIsAdmin
<1>6. Alone
  BY Zenon, <1>1, FreeFits DEF Alone, Behind
<1> QED
  BY Zenon, <1>2, <1>3, <1>4, <1>5, <1>6 DEF AccountsInv

\* Whatever requests overlap: each new account has an id that no account and
\* no other registration has, the first account is the administrator until an
\* administrator changes one, and a request that ran alone has what it checked
\* still before it when it writes (Register to AdminSetRole of dispatch).
THEOREM AccountsInvariant == AccountSpec => []AccountsInv
<1>1. AccountInit => AccountsInv
  BY AccountStart
<1>2. AccountsInv /\ [AccountNext]_accountVars => AccountsInv'
  BY AccountStep
<1> QED
  BY <1>1, <1>2, PTL DEF AccountSpec

\* "The first account in an empty database becomes admin" however registrations
\* overlap, and one administrator remains as long as no two requests do.
THEOREM AnAdminRemains == AccountSpec => []AdminRemains
<1>1. AccountsInv => AdminRemains
  BY Zenon DEF AccountsInv, AdminRemains, Alone
<1> QED
  BY <1>1, AccountsInvariant, PTL

=============================================================================
