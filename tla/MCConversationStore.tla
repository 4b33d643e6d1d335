------------------------ MODULE MCConversationStore ------------------------
(* Instances of ConversationStore.  `outdated' is a history variable: the    *)
(* handlers that read before the last commit of another one.                 *)
EXTENDS ConversationStore, TLC

VARIABLE outdated

MCInit == Init /\ outdated = {}

MCNext ==
  /\ Next
  /\ outdated' = {h \in Handler : /\ job[h] # Idle /\ job'[h] # Idle
                                  /\ h \in outdated \/ rev' # rev}

MCSpec == MCInit /\ [][MCNext]_<<vars, outdated>>

Ends(h) == job[h] # Idle /\ job'[h] = Idle

\* transport.rs 73-74 takes the delta log for authoritative: a transaction
\* that starts from what its handler read keeps the log and the tables equal
\* (dispatch in main.rs, condense_memories, persist_memory).
UpToDateCommitKeepsLog ==
  [][LogMatchesTables /\ (\A h \in outdated : ~Ends(h)) => LogMatchesTables']_vars

\* "Deleting a conversation promotes its memories to cross-chat character
\* scope instead of deleting them" (ARCHITECTURE.md 142): the step that
\* deletes the conversation keeps every memory and its text, and a deletion is
\* refused for memories it did not promote only when some were added since it
\* listed them, or when the account has more of them than list_memories returns.
DeletionIsSafe ==
  [][/\ conv.live /\ ~conv'.live =>
          \A m \in Live : mem'[m].live /\ mem'[m].text = mem[m].text
     /\ blocked' /\ ~blocked =>
          \/ Cardinality(Live) > ListLimit
          \/ \E h \in outdated : Ends(h) /\ job[h].op = "delete"]_vars

Symmetry == Permutations(Handler) \cup Permutations(Mem)
=============================================================================
