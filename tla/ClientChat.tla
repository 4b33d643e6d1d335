----------------------------- MODULE ClientChat -----------------------------
(***************************************************************************)
(* The chat screen of the client: which conversation is selected, which    *)
(* one is shown, the generation that is followed, and how answers and      *)
(* deltas change them (app/update.rs: open_conversation, submit_message,   *)
(* update_conversation, ...; app/events.rs: handle_frame, apply_delta).    *)
(*                                                                         *)
(* The broker handles every request in a task of its own: it reads at one  *)
(* moment (Serve) and its answer arrives at another (the frame actions),   *)
(* in any order with the others.  Deltas arrive in order.  Other sessions  *)
(* of the account change the same conversations.  A message is its         *)
(* conversation and a number; texts are left out.  `asked` and `answers`    *)
(* are sets: two equal requests on their way at once count as one.         *)
(***************************************************************************)
EXTENDS Naturals, Sequences

CONSTANTS Conv, NoChat, MaxMsgs, MaxSteps, MaxReplies

ASSUME ChatAssumption == NoChat \notin Conv

VARIABLES
  selected, shown, auto_select,    \* the chat screen
  conversations, messages,         \* as the client holds them
  active, pending_tts,             \* active_request, pending_tts_message_id
  form,                            \* the chat dialog: closed, new, or what it edits
  chats, stored, made,             \* the broker's conversations and messages
  asked, answers,                  \* requests on the way, answers on the way
  deltas,                          \* deltas on the way
  replies,                         \* generations: asked, running or over
  spoken,                          \* messages given to the speech worker
  refused,                         \* a request for a conversation failed
  steps

screen == <<selected, shown, auto_select, conversations, messages, active,
            pending_tts, form, spoken>>
server == <<chats, stored, made, replies>>
chatVars == <<screen, server, asked, answers, deltas, refused, steps>>

Message(c, n) == [conv |-> c, n |-> n]
Of(c, set) == {m \in set : m.conv = c}
Fresh == made + 1
Ask(op, c) == [op |-> op, conv |-> c]

\* Signed in, with `first` asked for (authenticated asks for the list).
ChatInit(first) ==
  /\ selected = NoChat /\ shown = NoChat /\ auto_select = TRUE
  /\ conversations = {} /\ messages = {} /\ active = 0 /\ pending_tts = {}
  /\ form = "closed" /\ chats \in {{}, Conv} /\ stored = {} /\ made = 0
  /\ asked = first /\ answers = {} /\ deltas = <<>>
  /\ replies = [g \in 1..MaxReplies |-> [conv |-> NoChat, state |-> "none"]]
  /\ spoken = {} /\ refused = FALSE /\ steps = 0

-----------------------------------------------------------------------------
(* Requests the application sends from its handlers.                       *)

Refresh == {Ask("list", NoChat)}
Reopen(c) == IF c = NoChat THEN {} ELSE {Ask("get", c)}

Step == steps < MaxSteps /\ steps' = steps + 1 /\ UNCHANGED refused

\* SelectConversation: open_conversation.
SelectConversation(c) ==
  /\ Step /\ c \in conversations
  /\ selected' = c /\ auto_select' = TRUE /\ asked' = asked \cup Reopen(c)
  /\ UNCHANGED <<shown, conversations, messages, active, pending_tts, form, spoken,
                 server, answers, deltas>>

\* DeleteConversation: the broker deletes it and answers Accepted.
DeleteConversation(c) ==
  /\ Step /\ c \in conversations /\ asked' = asked \cup {Ask("delete", c)}
  /\ UNCHANGED <<screen, server, answers, deltas>>

\* DeleteMessage; SaveMessageEdit and SelectVariant.
ChangeMessage(op, c) ==
  /\ Step /\ \E m \in messages : m.conv = c
  /\ asked' = asked \cup {Ask(op, c)}
  /\ UNCHANGED <<screen, server, answers, deltas>>

\* OpenNewChatDialog, EditConversation (of the chat selected then),
\* CloseNewChatDialog; submit_message without a selected chat also opens it.
Dialog(f) ==
  /\ Step /\ f # form /\ (f \in Conv => f = selected /\ f \in conversations)
  /\ form' = f
  /\ UNCHANGED <<selected, shown, auto_select, conversations, messages, active,
                 pending_tts, spoken, server, asked, answers, deltas>>

\* CreateNewChat, with at least one character chosen.
CreateNewChat(c) ==
  /\ Step /\ form # "closed" /\ form' = "closed"
  /\ asked' = asked \cup {IF form = "new" THEN Ask("create", c) ELSE Ask("rename", form)}
  /\ UNCHANGED <<selected, shown, auto_select, conversations, messages, active,
                 pending_tts, spoken, server, answers, deltas>>

\* submit_message with a text; the reply is asked for when it is accepted
\* (ClientLink).  An empty text, and RegenerateMessage, ask for a reply at once.
SubmitChat(text) ==
  /\ Step /\ selected # NoChat
  /\ asked' = asked \cup {Ask(IF text THEN "send" ELSE "generate", selected)}
  /\ UNCHANGED <<screen, server, answers, deltas>>

-----------------------------------------------------------------------------
(* The broker.                                                             *)

Delta(op, m) == [op |-> op, msg |-> m]
Store(m) == stored' = stored \cup {m} /\ made' = made + 1
Drop(set) == stored' = stored \ set /\ UNCHANGED made

\* The handler of a request reads and writes; its answer is on its way.
Serve(q) ==
  /\ q \in asked /\ asked' = asked \ {q} /\ UNCHANGED <<screen, refused, steps>>
  /\ \/ /\ q.op = "list"
        /\ answers' = answers \cup {[op |-> "list", conv |-> NoChat, data |-> chats]}
        /\ UNCHANGED <<server, deltas>>
     \/ /\ q.op = "get"
        /\ answers' = answers \cup
             {IF q.conv \in chats THEN [op |-> "view", conv |-> q.conv, data |-> Of(q.conv, stored)]
              ELSE [op |-> "missing", conv |-> q.conv, data |-> {}]}
        /\ UNCHANGED <<server, deltas>>
     \/ /\ q.op \in {"delete", "create", "rename", "remove", "edit", "send"}
        /\ chats' = CASE q.op = "delete" -> chats \ {q.conv}
                      [] q.op = "create" -> chats \cup {q.conv}
                      [] OTHER -> chats
        /\ LET m == Message(q.conv, Fresh)
               old == Of(q.conv, stored)
               one == CHOOSE d \in old : TRUE
           IN CASE q.op = "send" /\ q.conv \in chats /\ Fresh <= MaxMsgs ->
                     /\ Store(m) /\ deltas' = Append(deltas, Delta("upsert", m))
                [] q.op = "remove" /\ old # {} ->
                     /\ Drop({one}) /\ deltas' = Append(deltas, Delta("delete", one))
                [] q.op = "edit" /\ old # {} ->
                     /\ deltas' = Append(deltas, Delta("upsert", one))
                     /\ UNCHANGED <<stored, made>>
                [] q.op = "delete" -> Drop(old) /\ UNCHANGED deltas
                [] OTHER -> UNCHANGED <<stored, made, deltas>>
        /\ answers' = answers \cup {[op |-> "accepted", conv |-> NoChat, data |-> {}]}
        /\ UNCHANGED replies
     \/ /\ q.op = "generate" /\ UNCHANGED <<chats, stored, made, answers, deltas>>
        /\ \E g \in DOMAIN replies :
             /\ replies[g].state = "none"
             /\ replies' = [replies EXCEPT ![g] = [conv |-> q.conv, state |-> "asked"]]
     \/ /\ q.op = "generate"
        /\ \/ \A g \in DOMAIN replies : replies[g].state # "none"
           \/ q.conv \notin chats
        /\ answers' = answers \cup {[op |-> "error", conv |-> NoChat, data |-> {}]}
        /\ UNCHANGED <<server, deltas>>

\* A request fails in the broker.
Refuse(q) ==
  /\ Step /\ q \in asked /\ asked' = asked \ {q} /\ q.op # "get"
  /\ answers' = answers \cup {[op |-> "error", conv |-> q.conv, data |-> {}]}
  /\ UNCHANGED <<screen, server, deltas>>

RefuseGet(q) ==
  /\ steps < MaxSteps /\ steps' = steps + 1 /\ refused' = TRUE
  /\ q \in asked /\ q.op = "get" /\ asked' = asked \ {q}
  /\ answers' = answers \cup {[op |-> "error", conv |-> q.conv, data |-> {}]}
  /\ UNCHANGED <<screen, server, deltas>>

\* Another session of the account writes or deletes.
OtherSession ==
  /\ Step
  /\ \/ \E c \in chats :
          /\ Fresh <= MaxMsgs /\ Store(Message(c, Fresh))
          /\ deltas' = Append(deltas, Delta("upsert", Message(c, Fresh))) /\ UNCHANGED chats
     \/ \E c \in chats :
          chats' = chats \ {c} /\ Drop(Of(c, stored)) /\ UNCHANGED deltas
  /\ UNCHANGED <<screen, replies, asked, answers>>

-----------------------------------------------------------------------------
(* Frames.                                                                 *)

\* close_conversation, with end_generation.
Close == selected' = NoChat /\ shown' = NoChat /\ messages' = {} /\ active' = 0

Received(a) == a \in answers /\ answers' = answers \ {a} /\ UNCHANGED <<server, deltas, refused, steps>>

\* Conversations: a selected one that is gone is closed; with none selected the
\* first is opened.
ListReceived(a) ==
  LET keep == selected \in a.data
      first == IF a.data = {} THEN NoChat ELSE CHOOSE c \in a.data : TRUE
      pick == ~keep /\ auto_select
  IN /\ Received(a) /\ a.op = "list"
     /\ conversations' = a.data
     /\ IF keep THEN UNCHANGED <<selected, shown, messages, active>>
        ELSE /\ selected' = (IF pick THEN first ELSE NoChat)
             /\ shown' = (IF selected = NoChat THEN shown ELSE NoChat)
             /\ messages' = {} /\ active' = (IF selected = NoChat THEN active ELSE 0)
     /\ asked' = asked \cup (IF pick THEN Reopen(first) ELSE {})
     /\ UNCHANGED <<auto_select, pending_tts, form, spoken>>

\* Mutant: a view is shown without selecting its conversation.
ViewSelects(c) == selected

\* The conversation a view leaves selected.
ViewSelected(c) == c

\* ConversationView; with auto-speak the reply just finished is read aloud.
ViewReceived(a) ==
  /\ Received(a) /\ a.op = "view"
  /\ selected' = ViewSelected(a.conv) /\ shown' = a.conv /\ messages' = a.data
  /\ pending_tts' = {} /\ spoken' = spoken \cup (pending_tts \cap a.data)
  /\ UNCHANGED <<auto_select, conversations, active, form, asked>>


\* ConversationNotFound.
MissingReceived(a) ==
  /\ Received(a) /\ a.op = "missing"
  /\ IF selected = a.conv
       THEN Close /\ auto_select' = FALSE /\ asked' = asked \cup Refresh
       ELSE UNCHANGED <<selected, shown, messages, active, auto_select, asked>>
  /\ UNCHANGED <<conversations, pending_tts, form, spoken>>

\* Accepted and SyncComplete: everything is listed again.
AcceptedReceived(a) ==
  /\ Received(a) /\ a.op = "accepted"
  /\ asked' = asked \cup Refresh \cup Reopen(selected)
  /\ auto_select' = (auto_select \/ selected # NoChat)
  /\ UNCHANGED <<selected, shown, conversations, messages, active, pending_tts, form, spoken>>

\* An error frame ends the followed generation.
ErrorReceived(a) ==
  /\ Received(a) /\ a.op = "error" /\ active' = 0
  /\ UNCHANGED <<selected, shown, auto_select, conversations, messages, pending_tts,
                 form, spoken, asked>>

\* GenerationStarted.
ReplyStarts(g) ==
  /\ replies[g].state = "asked" /\ replies' = [replies EXCEPT ![g].state = "running"]
  /\ active' = g
  /\ UNCHANGED <<selected, shown, auto_select, conversations, messages, pending_tts, form,
                 spoken, chats, stored, made, asked, answers, deltas, refused, steps>>

\* end_generation, whichever generation is over.
Finish(g, kept) == 0

\* GenerationFinished: the message is stored (unless nothing was generated), the
\* indicator ends and the open chat is read again.
ReplyEnds(g, kept) ==
  LET c == replies[g].conv
      m == Message(c, Fresh)
      keep == kept /\ c \in chats /\ Fresh <= MaxMsgs
  IN /\ replies[g].state = "running" /\ replies' = [replies EXCEPT ![g].state = "over"]
     /\ IF keep THEN Store(m) ELSE UNCHANGED <<stored, made>>
     /\ deltas' = (IF keep THEN Append(deltas, Delta("upsert", m)) ELSE deltas)
     /\ active' = Finish(g, kept)
     /\ pending_tts' = (IF keep THEN {m} ELSE {})
     /\ asked' = asked \cup Reopen(selected) /\ auto_select' = (auto_select \/ selected # NoChat)
     /\ UNCHANGED <<selected, shown, conversations, messages, form, spoken, chats, answers,
                    refused, steps>>

\* Delta: apply_delta for messages.
DeltaReceived ==
  LET d == Head(deltas)
  IN /\ deltas # <<>> /\ deltas' = Tail(deltas)
     /\ messages' = CASE d.op = "delete" -> messages \ {d.msg}
                      [] d.op = "upsert" /\ d.msg.conv = selected -> messages \cup {d.msg}
                      [] OTHER -> messages
     /\ UNCHANGED <<selected, shown, auto_select, conversations, active, pending_tts, form,
                    spoken, server, asked, answers, refused, steps>>

ChatUser ==
  \/ \E c \in Conv : SelectConversation(c) \/ DeleteConversation(c) \/ CreateNewChat(c)
                     \/ \E op \in {"remove", "edit"} : ChangeMessage(op, c)
  \/ \E f \in {"closed", "new"} \cup Conv : Dialog(f)
  \/ \E b \in BOOLEAN : SubmitChat(b)
FrameReceived ==
  \/ \E a \in answers : ListReceived(a) \/ ViewReceived(a) \/ MissingReceived(a)
                        \/ AcceptedReceived(a) \/ ErrorReceived(a)
  \/ DeltaReceived
Generating == \E g \in DOMAIN replies : ReplyStarts(g) \/ \E b \in BOOLEAN : ReplyEnds(g, b)
Served == \E q \in asked : Serve(q)

ChatNext ==
  \/ ChatUser \/ FrameReceived \/ Generating \/ Served
  \/ \E q \in asked : Refuse(q) \/ RefuseGet(q)
  \/ OtherSession

ChatSpec == ChatInit(Refresh) /\ [][ChatNext]_chatVars

ChatFairness == WF_chatVars(FrameReceived) /\ WF_chatVars(Generating) /\ WF_chatVars(Served)

-----------------------------------------------------------------------------
(* Properties.                                                             *)

\* What is typed goes to the chat on the screen: with no answer outstanding the
\* selected conversation is the shown one and every message shown is of it,
\* in whatever order answers, deltas and deletions came in (unless the broker
\* failed to answer a request for a conversation).
ShownIsSelected ==
  asked = {} /\ answers = {} /\ ~refused =>
    /\ shown = selected
    /\ \A m \in messages : m.conv = selected
=============================================================================
