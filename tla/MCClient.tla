------------------------------ MODULE MCClient ------------------------------
(***************************************************************************)
(* The client, one part at a time (`focus'): its connection, its open      *)
(* chat, its speech, its pending work (portraits, message images and       *)
(* models; message images without a loss of the link, where two of them    *)
(* make too many states), and the library of characters (portraits, and    *)
(* with fewer edits but a lost link, cuts) and worlds (links).  The parts  *)
(* share the event loop, and nothing of one is read by another but that    *)
(* the user is signed in.                                                  *)
(***************************************************************************)
EXTENDS ClientConversation, Speech, ClientJobs, CharacterLibrary

VARIABLE focus

TheEdits == [portraits |-> 4, cuts |-> 2, links |-> 2]
TheCuts == [portraits |-> 0, cuts |-> 1, links |-> 0]

JobFocus == {"job portrait", "job image", "job model"}
LibraryFocus == DOMAIN TheEdits

Init ==
  /\ focus \in {"link", "chat", "speech"} \cup JobFocus \cup LibraryFocus
  /\ LinkInit /\ (focus # "link" => remembered = None)
  /\ ChatInit(IF focus = "chat" THEN Refresh ELSE {}) /\ (focus # "chat" => chats = {})
  /\ SpeechInit
  /\ JobsInit
  /\ IF focus \in LibraryFocus THEN LibraryInit(focus) ELSE LibraryIdle

JobStep ==
  \/ focus = "job portrait" /\ (PortraitWork \/ (loss < 1 /\ JobLinkLost))
  \/ focus = "job image" /\ work < 2 /\ ImageWork
  \/ focus = "job model" /\ work + loss < 3 /\ ((work < 2 /\ ModelWork) \/ LinkFault)
  \/ JobsRun

Next ==
  /\ UNCHANGED focus
  /\ \/ focus = "link" /\ LinkNext /\ acts' + faults' <= 4 /\ UNCHANGED <<chatVars, speechVars, jobVars, libVars>>
     \/ focus = "chat" /\ ChatNext /\ UNCHANGED <<clientVars, speechVars, jobVars, libVars>>
     \/ focus = "speech" /\ SpeechNext /\ UNCHANGED <<clientVars, chatVars, jobVars, libVars>>
     \/ focus \in JobFocus /\ JobStep /\ UNCHANGED <<clientVars, chatVars, speechVars, libVars>>
     \/ /\ focus \in LibraryFocus /\ LibraryNext(focus)
        /\ UNCHANGED <<clientVars, chatVars, speechVars, jobVars>>

Spec ==
  /\ Init /\ [][Next]_<<focus, clientVars, chatVars, speechVars, jobVars, libVars>>
  /\ LinkFairness /\ ChatFairness /\ SpeechFairness /\ JobsFairness /\ LibraryFairness

=============================================================================
