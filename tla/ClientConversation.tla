------------------------- MODULE ClientConversation -------------------------
(***************************************************************************)
(* A conversation as the user of the client sees it: what is typed on the  *)
(* chat screen (ClientChat) goes to the broker over the connection         *)
(* (ClientLink).  The two share the event loop of the client, and nothing  *)
(* of one is read by the other but that the user is signed in.             *)
(***************************************************************************)
EXTENDS ClientLink, ClientChat

ConversationSpec == LinkSpec /\ ChatSpec

\* However the link breaks, a typed message reaches the broker at most once and
\* its reply is asked for only after that (SendThenGenerate,
\* take_accepted_generation); and what is typed goes to the chat on the screen,
\* in whatever order answers, deltas and deletions came in (app/events.rs).
ConversationIsOrdered == ReplyFollowsItsMessage /\ ShownIsSelected
=============================================================================
