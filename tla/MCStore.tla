------------------------------ MODULE MCStore ------------------------------
(***************************************************************************)
(* What the broker keeps in its database, one part at a time (`focus`):    *)
(* conversations with their memories, the messages and variants of a       *)
(* conversation, and the accounts.  Their handlers share no row.           *)
(***************************************************************************)
EXTENDS MCConversationStore, Replies, Accounts

VARIABLE focus

TheStore == <<vars, outdated>>

StoreInit ==
  /\ focus \in {"conversations", "messages", "accounts"}
  /\ MCInit /\ (focus # "conversations" => Live = {} /\ conv.ctx = CHOOSE x \in Context : TRUE)
  /\ ReplyInit
  /\ AccountInit /\ (focus # "accounts" => open)

StoreNext ==
  \/ focus = "conversations" /\ MCNext /\ UNCHANGED <<focus, replyVars, accountVars>>
  \/ focus = "messages" /\ ReplyNext /\ UNCHANGED <<focus, TheStore, accountVars>>
  \/ focus = "accounts" /\ AccountNext /\ UNCHANGED <<focus, TheStore, replyVars>>

StoreSpec == StoreInit /\ [][StoreNext]_<<focus, TheStore, replyVars, accountVars>>

\* The instances give Mem, Id and User the same model values, and Handler and
\* Clerk: one permutation serves the three parts.
ASSUME MCStoreAssumption == Mem = Id /\ Mem = User /\ Handler = Clerk

StoreSymmetry == Permutations(Handler) \cup Permutations(Mem)
=============================================================================
