--------------------------- MODULE DeliveryProofs ---------------------------
(***************************************************************************)
(* What arrives where it should: revisions at a client, frames at the      *)
(* other end of a wire, and utterances at the loudspeaker; for any number  *)
(* of connections, clients, accounts and mutations, any capacity of the    *)
(* queues and of the broadcast channel, any length of a frame, and any     *)
(* number of utterances and of their chunks:                               *)
(*                                                                         *)
(* - OnlyOwnRevisions: no revision of another account reaches a client;    *)
(* - EveryRevisionOnItsWay, for clients that resume from revision 0 as     *)
(* chatty-gui does: between the forwarder, the replay and send_delta! no   *)
(* revision falls through;                                                 *)
(* - IntactUnlessTorn: as long as no read was abandoned inside a frame,    *)
(* what is received is what was sent;                                      *)
(* - OnlyTheLastIsHeard: SpeechInv adds to it that commands are in the     *)
(* channel in the order of their ids, each once, so that what the thread   *)
(* works on is never newer than the last one given.                        *)
(***************************************************************************)
EXTENDS DeltaSync, WireFraming, Speech, TLAPS

\* The frame r waits in the queue q.
InQueue(q, r) == \E i \in 1..Len(q) : q[i] = r

\* The states of a handler that has committed.
Committed == {"committed", "sent", "published", "failed"}

-----------------------------------------------------------------------------
(* Queues.                                                                 *)

\* Appending a frame adds exactly that frame to a queue.
LEMMA InAppend ==
  ASSUME NEW q \in Seq(Nat), NEW x \in Nat
  PROVE  /\ Append(q, x) \in Seq(Nat)
         /\ \A r : InQueue(Append(q, x), r) <=> InQueue(q, r) \/ r = x
<1>1. Append(q, x) \in Seq(Nat) /\ Len(Append(q, x)) = Len(q) + 1
         /\ Append(q, x)[Len(q) + 1] = x
         /\ \A i \in 1..Len(q) : Append(q, x)[i] = q[i]
  OBVIOUS
<1>2. Len(q) \in Nat
  OBVIOUS
<1>3. ASSUME NEW r PROVE InQueue(Append(q, x), r) <=> InQueue(q, r) \/ r = x
  <2>1. ASSUME InQueue(Append(q, x), r) PROVE InQueue(q, r) \/ r = x
    <3>1. PICK i \in 1..(Len(q) + 1) : Append(q, x)[i] = r
      BY <1>1, <2>1 DEF InQueue
    <3>2. i \in 1..Len(q) \/ i = Len(q) + 1
      BY <1>2
    <3> QED
      BY <1>1, <3>1, <3>2 DEF InQueue
  <2>2. ASSUME InQueue(q, r) PROVE InQueue(Append(q, x), r)
    <3>1. PICK i \in 1..Len(q) : q[i] = r
      BY <2>2 DEF InQueue
    <3>2. i \in 1..(Len(q) + 1)
      BY <1>2
    <3> QED
      BY <1>1, <3>1, <3>2 DEF InQueue
  <2>3. ASSUME r = x PROVE InQueue(Append(q, x), r)
    <3>1. Len(q) + 1 \in 1..(Len(q) + 1)
      BY <1>2
    <3> QED
      BY <1>1, <2>3, <3>1 DEF InQueue
  <2> QED
    BY <2>1, <2>2, <2>3
<1> QED
  BY <1>1, <1>3

\* What waits in a queue stays there when a frame is appended.
LEMMA StaysQueued ==
  ASSUME NEW q \in Seq(Nat), NEW x \in Nat, NEW r, InQueue(q, r) \/ r = x
  PROVE  InQueue(Append(q, x), r)
BY InAppend

\* Taking the head of a queue removes no other frame and adds none.
LEMMA InTail ==
  ASSUME NEW q \in Seq(Nat), q # <<>>
  PROVE  /\ Tail(q) \in Seq(Nat) /\ Head(q) \in Nat
         /\ InQueue(q, Head(q))
         /\ \A r : InQueue(q, r) => r = Head(q) \/ InQueue(Tail(q), r)
         /\ \A r : InQueue(Tail(q), r) => InQueue(q, r)
<1>1. Len(q) \in Nat \ {0} /\ Tail(q) \in Seq(Nat) /\ Len(Tail(q)) = Len(q) - 1
         /\ Head(q) = q[1]
         /\ \A i \in 1..(Len(q) - 1) : Tail(q)[i] = q[i + 1]
  OBVIOUS
<1>2. InQueue(q, Head(q)) /\ Head(q) \in Nat
  <2>1. 1 \in 1..Len(q)
    BY <1>1
  <2> QED
    BY <1>1, <2>1 DEF InQueue
<1>3. ASSUME NEW r, InQueue(q, r) PROVE r = Head(q) \/ InQueue(Tail(q), r)
  <2>1. PICK i \in 1..Len(q) : q[i] = r
    BY <1>3 DEF InQueue
  <2>2. CASE i = 1
    BY <1>1, <2>1, <2>2
  <2>3. CASE i # 1
    <3>1. i - 1 \in 1..(Len(q) - 1) /\ (i - 1) + 1 = i
      BY <1>1, <2>3
    <3>2. Tail(q)[i - 1] = q[i]
      BY <1>1, <3>1
    <3> QED
      BY ZenonT(30), <1>1, <2>1, <3>1, <3>2 DEF InQueue
  <2> QED
    BY <2>2, <2>3
<1>4. ASSUME NEW r, InQueue(Tail(q), r) PROVE InQueue(q, r)
  <2>1. PICK i \in 1..(Len(q) - 1) : Tail(q)[i] = r
    BY <1>1, <1>4 DEF InQueue
  <2>2. i + 1 \in 1..Len(q)
    BY <1>1
  <2> QED
    BY <1>1, <2>1, <2>2 DEF InQueue
<1> QED
  BY <1>1, <1>2, <1>3, <1>4
-----------------------------------------------------------------------------
(* Types.                                                                  *)

\* The last of a set of revisions, as a resuming client computes it.
Last(mine) == CHOOSE r \in mine : \A s \in mine : s <= r

\* The revisions a client may resume from.
Since == IF ResumeFrom = "zero" THEN {0} ELSE {0} \cup {Last(m) : m \in SUBSET Nat}

\* An event of the broadcast channel and the state of a replay.
Event == [rev : Nat, origin : Conn \cup {NoConn}]
\* Where a Sync/Resume handler is.
Replay == [stage : {"idle", "identified", "streaming"}, since : Since,
           todo : SUBSET Nat]

\* The types the proofs need: as TypeOK, without the bound on revisions.
Typed ==
  /\ log \in Seq(Owner)
  /\ bus \in Seq(Event)
  /\ conn \in [Conn -> {"new", "open", "closing", "closed"}]
  /\ identified \subseteq Conn /\ lagged \subseteq Conn
  /\ writer \subseteq Conn /\ link \subseteq Conn
  /\ cursor \in [Conn -> Nat]
  /\ held \in [Conn -> Nat]
  /\ out \in [Conn -> Seq(Nat)]
  /\ replay \in [Conn -> Replay]
  /\ hstate \in [Handler -> {"idle", "running"} \cup Committed]
  /\ horigin \in [Handler -> Conn \cup {NoConn}]
  /\ howner \in [Handler -> Owner]
  /\ hrev \in [Handler -> Nat]
  /\ have \in [Client -> SUBSET Nat]

\* No step changes the type of a variable.
LEMMA TypedStep ==
  ASSUME Typed, [Next]_vars
  PROVE  Typed'
<1>0. CASE UNCHANGED vars
  BY Zenon, <1>0 DEF Typed, vars, connVars, handlerVars
<1>b. bus \in Seq(Event) /\ Len(bus) \in Nat
  <2>1. bus \in Seq(Event)
    BY Zenon DEF Typed
  <2> QED
    BY <2>1
<1>c. \A c \in Conn : /\ cursor[c] \in Nat /\ held[c] \in Nat
                      /\ out[c] \in Seq(Nat) /\ replay[c] \in Replay
  BY Zenon DEF Typed
<1>h. \A h \in Handler : hrev[h] \in Nat /\ horigin[h] \in Conn \cup {NoConn}
  BY Zenon DEF Typed
<1>r. NoReplay \in Replay /\ SyncComplete \in Nat
  BY DEF NoReplay, Replay, SyncComplete, Since
<1>1. ASSUME NEW c \in Conn, Connect(c) PROVE Typed'
  BY Zenon, <1>1, <1>b DEF Typed, Connect, handlerVars
<1>2. ASSUME NEW c \in Conn, Resume(c) PROVE Typed'
  <2> DEFINE mine == have[ClientOf[c]]
             from == IF ResumeFrom = "zero" \/ mine = {} THEN 0 ELSE Last(mine)
  <2>0. from \in Since
    <3>1. mine \in SUBSET Nat
      BY Zenon, ConstantsAssumption DEF Typed
    <3> QED
      BY Zenon, <3>1 DEF Since
  <2>2. replay' = [replay EXCEPT ![c] =
                     [stage |-> "identified", todo |-> {}, since |-> from]]
    BY Zenon, <1>2 DEF Resume, Last
  <2> HIDE DEF from
  <2>1. [stage |-> "identified", todo |-> {}, since |-> from] \in Replay
    BY <2>0 DEF Replay
  <2>3. replay' \in [Conn -> Replay]
    BY Zenon, <2>1, <2>2 DEF Typed
  <2> QED
    BY Zenon, <1>2, <2>3 DEF Typed, Resume, handlerVars
<1>3. ASSUME NEW c \in Conn, LinkLost(c) PROVE Typed'
  BY Zenon, <1>3 DEF Typed, LinkLost, handlerVars
<1>4. ASSUME NEW c \in Conn, StopReading(c) PROVE Typed'
  BY Zenon, <1>4 DEF Typed, StopReading, handlerVars
<1>5. ASSUME NEW c \in Conn, WriteFails(c) PROVE Typed'
  <2>1. <<>> \in Seq(Nat)
    OBVIOUS
  <2> QED
    BY Zenon, <1>5, <2>1 DEF Typed, WriteFails, handlerVars
<1>6. ASSUME NEW c \in Conn, ForwardReceive(c) PROVE Typed'
  <2> DEFINE e == bus[cursor[c] + 1]
  <2>1. cursor[c] + 1 \in 1..Len(bus)
    <3>1. cursor[c] < Len(bus)
      BY Zenon, <1>6 DEF ForwardReceive
    <3> QED
      BY <1>b, <1>c, <3>1
  <2>2. e.rev \in Nat /\ cursor[c] + 1 \in Nat /\ 0 \in Nat
    <3>1. e \in Event
      BY <1>b, <2>1
    <3> QED
      BY <1>c, <3>1 DEF Event
  <2>3. /\ \/ cursor' = cursor \/ cursor' = [cursor EXCEPT ![c] = cursor[c] + 1]
        /\ \/ held' = held \/ held' = [held EXCEPT ![c] = e.rev]
           \/ held' = [held EXCEPT ![c] = 0]
        /\ \/ lagged' = lagged \/ lagged' = lagged \cup {c}
    BY Zenon, <1>6 DEF ForwardReceive
  <2> HIDE DEF e
  <2>4. held' \in [Conn -> Nat] /\ cursor' \in [Conn -> Nat] /\ lagged' \subseteq Conn
    <3>1. cursor \in [Conn -> Nat] /\ held \in [Conn -> Nat] /\ lagged \subseteq Conn
      BY Zenon DEF Typed
    <3>2. held' \in [Conn -> Nat]
      BY Zenon, <2>2, <2>3, <3>1
    <3>3. cursor' \in [Conn -> Nat]
      BY Zenon, <2>2, <2>3, <3>1
    <3> QED
      BY Zenon, <2>3, <3>1, <3>2, <3>3
  <2> QED
    BY Zenon, <1>6, <2>4 DEF Typed, ForwardReceive, handlerVars
<1>7. ASSUME NEW c \in Conn, ForwardSend(c) PROVE Typed'
  <2>1. Append(out[c], held[c]) \in Seq(Nat)
    BY Zenon, <1>c, InAppend
  <2> QED
    BY Zenon, <1>7, <2>1 DEF Typed, ForwardSend, handlerVars
<1>8. ASSUME NEW c \in Conn, Write(c) PROVE Typed'
  <2>1. Tail(out[c]) \in Seq(Nat) /\ Head(out[c]) \in Nat
    BY Zenon, <1>8, <1>c, InTail DEF Write
  <2>2. have' \in [Client -> SUBSET Nat]
    <3>1. \/ have' = have
          \/ have' = [have EXCEPT ![ClientOf[c]] = @ \cup {Head(out[c])}]
      BY Zenon, <1>8 DEF Write, Receive
    <3>2. have \in [Client -> SUBSET Nat] /\ ClientOf[c] \in Client
      BY Zenon, ConstantsAssumption DEF Typed
    <3>3. have[ClientOf[c]] \cup {Head(out[c])} \in SUBSET Nat
      BY Zenon, <2>1, <3>2
    <3> QED
      BY Zenon, <3>1, <3>2, <3>3
  <2> QED
    BY Zenon, <1>8, <2>1, <2>2 DEF Typed, Write, handlerVars
<1>9. ASSUME NEW c \in Conn, Close(c) PROVE Typed'
  BY Zenon, <1>9 DEF Typed, Close, handlerVars
<1>10. ASSUME NEW c \in Conn, ReplayQuery(c) PROVE Typed'
  <2>1. ReplayRows(Owned(c), replay[c].since) \subseteq Nat
    BY DEF ReplayRows, OwnerRevs
  <2>2. replay' \in [Conn -> Replay]
    <3> DEFINE rows == ReplayRows(Owned(c), replay[c].since)
    <3>1. replay[c] \in Replay
      BY Zenon, <1>c
    <3>2. [replay[c] EXCEPT !.stage = "streaming", !.todo = rows] \in Replay
      BY <2>1, <3>1, Zenon DEF Replay
    <3>3. replay' = [replay EXCEPT ![c] =
                       [replay[c] EXCEPT !.stage = "streaming", !.todo = rows]]
      BY Zenon, <1>10, <3>1 DEF Typed, ReplayQuery, Replay
    <3> HIDE DEF rows
    <3> QED
      BY Zenon, <3>2, <3>3 DEF Typed
  <2> QED
    BY Zenon, <1>10, <2>2 DEF Typed, ReplayQuery, handlerVars
<1>11. ASSUME NEW c \in Conn, ReplaySend(c) PROVE Typed'
  <2>1. CASE /\ out' = [out EXCEPT ![c] = Append(@, SyncComplete)]
             /\ replay' = [replay EXCEPT ![c] = NoReplay]
    <3>1. Append(out[c], SyncComplete) \in Seq(Nat)
      BY Zenon, <1>c, <1>r, InAppend
    <3> QED
      BY Zenon, <1>11, <1>r, <2>1, <3>1 DEF Typed, ReplaySend, handlerVars
  <2>2. ASSUME NEW r \in replay[c].todo,
               out' = [out EXCEPT ![c] = Append(@, r)],
               replay' = [replay EXCEPT ![c].todo = @ \ {r}]
        PROVE  Typed'
    <3>1. r \in Nat
      BY Zenon, <1>c DEF Replay
    <3>2. Append(out[c], r) \in Seq(Nat)
      BY Zenon, <1>c, <3>1, InAppend
    <3>3. replay' \in [Conn -> Replay]
      <4>1. replay[c] \in Replay
        BY Zenon, <1>c
      <4>2. [replay[c] EXCEPT !.todo = @ \ {r}] \in Replay
        BY <4>1 DEF Replay
      <4> QED
        BY Zenon, <2>2, <4>2 DEF Typed
    <3> QED
      BY Zenon, <1>11, <2>2, <3>2, <3>3 DEF Typed, ReplaySend, handlerVars
  <2> QED
    BY Zenon, <1>11, <2>1, <2>2 DEF ReplaySend
<1>12. ASSUME NEW c \in Conn, ReplayFails(c) PROVE Typed'
  BY Zenon, <1>12, <1>r DEF Typed, ReplayFails, handlerVars
<1>13. ASSUME NEW h \in Handler, NEW c \in Conn, Request(h, c) PROVE Typed'
  BY Zenon, <1>13 DEF Typed, Request, connVars
<1>14. ASSUME NEW h \in Handler, Background(h) PROVE Typed'
  BY Zenon, <1>14 DEF Typed, Background, connVars
<1>15. ASSUME NEW h \in Handler, Commit(h) PROVE Typed'
  <2>1. log' \in Seq(Owner) /\ Len(log') \in Nat
    <3>1. log \in Seq(Owner) /\ howner[h] \in Owner /\ log' = Append(log, howner[h])
      BY Zenon, <1>15 DEF Typed, Commit
    <3> QED
      BY <3>1
  <2> QED
    BY Zenon, <1>15, <2>1 DEF Typed, Commit, connVars, Committed
<1>16. ASSUME NEW h \in Handler, SendOwn(h) PROVE Typed'
  <2>1. ASSUME horigin[h] \in Conn
        PROVE  Append(out[horigin[h]], hrev[h]) \in Seq(Nat)
    BY Zenon, <1>c, <1>h, <2>1, InAppend
  <2>2. out' \in [Conn -> Seq(Nat)]
    <3>1. /\ out \in [Conn -> Seq(Nat)]
          /\ horigin[h] = NoConn \/ horigin[h] \in Conn
      BY Zenon, <1>h DEF Typed
    <3>2. /\ horigin[h] # NoConn
          /\ \/ out' = out
             \/ out' = [out EXCEPT ![horigin[h]] = Append(@, hrev[h])]
      BY Zenon, <1>16 DEF SendOwn
    <3> QED
      BY Zenon, <2>1, <3>1, <3>2
  <2> QED
    BY Zenon, <1>16, <2>2 DEF Typed, SendOwn, Committed
<1>17. ASSUME NEW h \in Handler, Publish(h) PROVE Typed'
  <2>1. [rev |-> hrev[h], origin |-> horigin[h]] \in Event
    BY Zenon, <1>h DEF Event
  <2>2. bus' \in Seq(Event)
    <3>1. bus' = Append(bus, [rev |-> hrev[h], origin |-> horigin[h]])
      BY Zenon, <1>17 DEF Publish
    <3> QED
      BY <1>b, <2>1, <3>1
  <2> QED
    BY Zenon, <1>17, <2>2 DEF Typed, Publish, connVars, Committed
<1> QED
  BY Zenon, <1>0, <1>1, <1>2, <1>3, <1>4, <1>5, <1>6, <1>7, <1>8, <1>9, <1>10, <1>11,
     <1>12, <1>13, <1>14, <1>15, <1>16, <1>17 DEF Next, Broker
-----------------------------------------------------------------------------
(* The inductive invariant.                                                *)

\* What a committed handler has written is in the log.
CommittedInLog ==
  \A h \in Handler : hstate[h] \in Committed =>
    hrev[h] \in 1..Len(log) /\ log[hrev[h]] = howner[h]

\* Every revision of the log has the handler that committed it.
LogHasHandler ==
  \A r \in 1..Len(log) : \E h \in Handler : hstate[h] \in Committed /\ hrev[h] = r

\* Every event on the bus was published by a handler.
BusHasHandler ==
  \A i \in 1..Len(bus) : \E h \in Handler :
    /\ hstate[h] = "published"
    /\ hrev[h] = bus[i].rev /\ horigin[h] = bus[i].origin

\* A forwarder is never ahead of the bus, a connected socket has a writer, and
\* a connection id that was not used yet has left no trace.
ConnectionsFit ==
  \A c \in Conn :
    /\ cursor[c] <= Len(bus)
    /\ c \in link => c \in writer
    /\ conn[c] = "new" => c \notin identified /\ \A h \in Handler : horigin[h] # c

\* The requester of a mutation got its delta through its own queue: this is
\* why its forwarder may skip the event.
OwnDeltaSent ==
  \A c \in link : \A h \in Handler :
    horigin[h] = c /\ hstate[h] \in {"sent", "published"} =>
      InQueue(out[c], hrev[h]) \/ hrev[h] \in have[ClientOf[c]]

\* A handler acts for the account of the connection it answers.
OriginOwns ==
  \A c \in Conn : \A h \in Handler : horigin[h] = c => howner[h] = Owned(c)

\* Whatever is under way to a client belongs to its account.
OnlyOwnUnderWay ==
  \A c \in Conn :
    /\ have[ClientOf[c]] \subseteq OwnerRevs(Owned(c))
    /\ \A r : InQueue(out[c], r) => r = SyncComplete \/ r \in OwnerRevs(Owned(c))
    /\ held[c] = 0 \/ held[c] \in OwnerRevs(Owned(c))
    /\ replay[c].todo \subseteq OwnerRevs(Owned(c))

\* What handlers, log, channel and connections agree on.
Books ==
  /\ CommittedInLog /\ LogHasHandler /\ BusHasHandler /\ ConnectionsFit
  /\ OwnDeltaSent /\ OriginOwns

\* Publishing an event adds it at the end of the channel's history.
LEMMA AppendEvent ==
  ASSUME NEW q \in Seq(Event), NEW x \in Event
  PROVE  /\ Len(q) \in Nat /\ Len(Append(q, x)) = Len(q) + 1
         /\ Append(q, x)[Len(q) + 1] = x
         /\ \A i \in 1..Len(q) : Append(q, x)[i] = q[i]
OBVIOUS

\* The broadcast channel's history and the cursors into it are numbers.
LEMMA LenBus ==
  ASSUME Typed
  PROVE  Len(bus) \in Nat /\ \A c \in Conn : cursor[c] \in Nat
BY DEF Typed

-----------------------------------------------------------------------------
(* Every step keeps Books.  The steps are of two kinds, a connection's and *)
(* a handler's, and each kind leaves most of the state alone; what it      *)
(* leaves alone is said once, so that the proof for an action is about     *)
(* what the action writes.                                                 *)


\* The invariant holds initially.
LEMMA BooksInit ==
  ASSUME Init
  PROVE  Typed /\ Books
<1> USE ConstantsAssumption
<1>1. Typed
  BY DEF Init, Typed, Event, Replay, NoReplay, Since
<1>2. CommittedInLog /\ LogHasHandler /\ BusHasHandler
  BY DEF Init, CommittedInLog, LogHasHandler, BusHasHandler, Committed
<1>3. ConnectionsFit /\ OwnDeltaSent /\ OriginOwns
  BY DEF Init, ConnectionsFit, OwnDeltaSent, OriginOwns
<1> QED
  BY <1>1, <1>2, <1>3 DEF Books

\* A step of the reader, forwarder, writer or replay of the connection d, or of
\* the client at its other end.
ConnStep(d) ==
  \/ Connect(d) \/ Resume(d) \/ LinkLost(d) \/ StopReading(d) \/ WriteFails(d)
  \/ ForwardReceive(d) \/ ForwardSend(d) \/ Write(d) \/ Close(d)
  \/ ReplayQuery(d) \/ ReplaySend(d) \/ ReplayFails(d)

\* A step of the handler, or background job, h.
HandlerStep(h) ==
  \/ \E c \in Conn : Request(h, c)
  \/ Background(h) \/ Commit(h) \/ SendOwn(h) \/ Publish(h)

\* Every step is a connection's or a handler's.
LEMMA StepKinds ==
  ASSUME [Next]_vars
  PROVE  \/ UNCHANGED vars \/ \E d \in Conn : ConnStep(d)
         \/ \E h \in Handler : HandlerStep(h)
BY Zenon DEF Next, Broker, ConnStep, HandlerStep

\* A connection writes neither the log nor the broadcast channel, and no
\* handler's state: serve only reads them.
LEMMA ConnKeeps ==
  ASSUME NEW d \in Conn, ConnStep(d)
  PROVE  /\ log' = log /\ bus' = bus /\ hstate' = hstate /\ horigin' = horigin
         /\ howner' = howner /\ hrev' = hrev
BY Zenon DEF ConnStep, handlerVars, Connect, Resume, LinkLost, StopReading,
     WriteFails, ForwardReceive, ForwardSend, Write, Close, ReplayQuery,
     ReplaySend, ReplayFails

\* A step leaves the tasks of the connection c alone.
Same(c) ==
  /\ conn'[c] = conn[c] /\ cursor'[c] = cursor[c] /\ held'[c] = held[c]
  /\ out'[c] = out[c] /\ replay'[c] = replay[c]
  /\ c \in identified' <=> c \in identified
  /\ c \in lagged' <=> c \in lagged
  /\ c \in writer' <=> c \in writer
  /\ c \in link' <=> c \in link

\* The tasks of a connection touch that connection only: its queue, cursor and
\* flags are created in serve and never shared.
LEMMA OtherSame ==
  ASSUME Typed, NEW c \in Conn, NEW d \in Conn, d # c, ConnStep(d)
  PROVE  Same(c)
<1>0. /\ conn \in [Conn -> {"new", "open", "closing", "closed"}]
      /\ cursor \in [Conn -> Nat] /\ held \in [Conn -> Nat]
      /\ out \in [Conn -> Seq(Nat)] /\ replay \in [Conn -> Replay]
  BY Zenon DEF Typed
<1>1. CASE Connect(d)
  BY Zenon, <1>0, <1>1 DEF Connect, Same
<1>2. CASE Resume(d)
  BY Zenon, <1>0, <1>2 DEF Resume, Same
<1>3. CASE LinkLost(d)
  BY Zenon, <1>0, <1>3 DEF LinkLost, Same
<1>4. CASE StopReading(d)
  BY Zenon, <1>0, <1>4 DEF StopReading, Same
<1>5. CASE WriteFails(d)
  BY Zenon, <1>0, <1>5 DEF WriteFails, Same
<1>6. CASE ForwardReceive(d)
  BY Zenon, <1>0, <1>6 DEF ForwardReceive, Same
<1>7. CASE ForwardSend(d)
  BY Zenon, <1>0, <1>7 DEF ForwardSend, Same
<1>8. CASE Write(d)
  BY Zenon, <1>0, <1>8 DEF Write, Same
<1>9. CASE Close(d)
  BY Zenon, <1>0, <1>9 DEF Close, Same
<1>10. CASE ReplayQuery(d)
  BY Zenon, <1>0, <1>10 DEF ReplayQuery, Same
<1>11. CASE ReplaySend(d)
  BY Zenon, <1>0, <1>11 DEF ReplaySend, Same
<1>12. CASE ReplayFails(d)
  BY Zenon, <1>0, <1>12 DEF ReplayFails, Same
<1> QED
  BY Zenon, <1>1, <1>2, <1>3, <1>4, <1>5, <1>6, <1>7, <1>8, <1>9, <1>10, <1>11, <1>12
     DEF ConnStep

\* A client never forgets a revision it has applied.
LEMMA HaveGrows ==
  ASSUME Typed, NEW d \in Conn, ConnStep(d), NEW c \in Conn
  PROVE  have[ClientOf[c]] \subseteq have'[ClientOf[c]]
<1>0. have \in [Client -> SUBSET Nat] /\ ClientOf[c] \in Client
  BY Zenon, ConstantsAssumption DEF Typed
<1>1. CASE Write(d)
  <2>1. \/ have' = have
        \/ have' = [have EXCEPT ![ClientOf[d]] = @ \cup {Head(out[d])}]
    BY Zenon, <1>1 DEF Write, Receive
  <2>2. CASE have' = have
    BY Zenon, <2>2
  <2>3. CASE have' = [have EXCEPT ![ClientOf[d]] = @ \cup {Head(out[d])}]
    <3>1. CASE ClientOf[d] = ClientOf[c]
      BY Zenon, <1>0, <2>3, <3>1
    <3>2. CASE ClientOf[d] # ClientOf[c]
      BY Zenon, <1>0, <2>3, <3>2
    <3> QED
      BY Zenon, <3>1, <3>2
  <2> QED
    BY Zenon, <2>1, <2>2, <2>3
<1>2. CASE ~Write(d)
  BY Zenon, <1>2 DEF ConnStep, Connect, Resume, LinkLost, StopReading, WriteFails,
     ForwardReceive, ForwardSend, Close, ReplayQuery, ReplaySend, ReplayFails
<1> QED
  BY Zenon, <1>1, <1>2

-----------------------------------------------------------------------------
(* Steps of connections.                                                   *)

\* The relations between handlers, log and channel survive a connection's step.
LEMMA ConnKeepsHandlers ==
  ASSUME NEW d \in Conn, ConnStep(d), Books
  PROVE  CommittedInLog' /\ LogHasHandler' /\ BusHasHandler' /\ OriginOwns'
<1>1. CommittedInLog'
  BY Zenon, ConnKeeps DEF Books, CommittedInLog, Committed
<1>2. LogHasHandler'
  BY Zenon, ConnKeeps DEF Books, LogHasHandler, Committed
<1>3. BusHasHandler'
  BY SMT, ConnKeeps DEF Books, BusHasHandler
<1>4. OriginOwns'
  BY Zenon, ConnKeeps DEF Books, OriginOwns, Owned
<1> QED
  BY Zenon, <1>1, <1>2, <1>3, <1>4

\* A forwarder takes events one at a time and so never passes the end of the
\* channel; the writer of a connection outlives its socket.
LEMMA ConnKeepsFit ==
  ASSUME Typed, NEW d \in Conn, ConnStep(d), ConnectionsFit
  PROVE  ConnectionsFit'
<1> DEFINE Fits(c) == /\ cursor[c] <= Len(bus)
                      /\ c \in link => c \in writer
                      /\ conn[c] = "new" =>
                           c \notin identified /\ \A h \in Handler : horigin[h] # c
<1> SUFFICES ASSUME NEW c \in Conn PROVE Fits(c)'
  BY Zenon DEF ConnectionsFit
<1>0. Fits(c) /\ bus' = bus /\ horigin' = horigin
  BY Zenon, ConnKeeps DEF ConnectionsFit
<1>1. CASE c # d
  BY Zenon, <1>0, <1>1, OtherSame DEF Same
<1>2. CASE c = d
  <2>0. conn \in [Conn -> {"new", "open", "closing", "closed"}] /\ cursor \in [Conn -> Nat]
    BY Zenon DEF Typed
  <2>1. CASE Connect(c)
    <3>1. cursor'[c] = Len(bus) /\ c \in writer' /\ conn'[c] = "open"
      BY Zenon, <2>0, <2>1 DEF Connect
    <3>2. Len(bus) <= Len(bus)
      BY LenBus
    <3> QED
      BY Zenon, <1>0, <3>1, <3>2
  <2>2. CASE Resume(c)
    BY Zenon, <1>0, <2>2 DEF Resume
  <2>3. CASE StopReading(c)
    <3>1. cursor'[c] = 0 /\ conn'[c] = "closing" /\ link' = link /\ writer' = writer
      BY Zenon, <2>0, <2>3 DEF StopReading
    <3>2. 0 <= Len(bus)
      BY LenBus
    <3> QED
      BY Zenon, <1>0, <3>1, <3>2
  <2>4. CASE ForwardReceive(c)
    <3>1. cursor'[c] = cursor[c] \/ cursor'[c] = cursor[c] + 1
      BY Zenon, <2>0, <2>4 DEF ForwardReceive
    <3>2. cursor[c] < Len(bus) /\ link' = link /\ writer' = writer /\ conn' = conn
            /\ identified' = identified
      BY Zenon, <2>4 DEF ForwardReceive
    <3>3. cursor[c] + 1 <= Len(bus)
      BY <3>2, LenBus
    <3> QED
      BY Zenon, <1>0, <3>1, <3>2, <3>3
  <2>5. CASE LinkLost(c) \/ WriteFails(c) \/ Close(c)
    BY Zenon, <1>0, <2>0, <2>5 DEF LinkLost, WriteFails, Close
  <2>6. CASE ForwardSend(c) \/ Write(c) \/ ReplayQuery(c) \/ ReplaySend(c) \/ ReplayFails(c)
    BY Zenon, <1>0, <2>6 DEF ForwardSend, Write, ReplayQuery, ReplaySend, ReplayFails
  <2> QED
    BY Zenon, <1>2, <2>1, <2>2, <2>3, <2>4, <2>5, <2>6 DEF ConnStep
<1> QED
  BY Zenon, <1>1, <1>2

\* What send_delta! put in the origin's queue stays there until the writer has
\* handed it to the client.
LEMMA ConnKeepsOwnDelta ==
  ASSUME Typed, NEW d \in Conn, ConnStep(d), Books
  PROVE  OwnDeltaSent'
<1> SUFFICES ASSUME NEW c \in link', NEW h \in Handler, horigin'[h] = c,
                    hstate'[h] \in {"sent", "published"}
             PROVE  InQueue(out'[c], hrev'[h]) \/ hrev'[h] \in have'[ClientOf[c]]
  BY Zenon DEF OwnDeltaSent
<1> DEFINE r == hrev[h]
<1>0. hrev' = hrev /\ horigin[h] = c /\ hstate[h] \in {"sent", "published"}
  BY Zenon, ConnKeeps
<1>1. c \in Conn /\ out \in [Conn -> Seq(Nat)]
  <2>1. link \subseteq Conn
    BY Zenon DEF Typed
  <2>2. link' \subseteq link \cup {d}
    BY Zenon DEF ConnStep, Connect, Resume, LinkLost, StopReading, WriteFails,
       ForwardReceive, ForwardSend, Write, Close, ReplayQuery, ReplaySend, ReplayFails
  <2>3. c \in Conn
    BY Zenon, <2>1, <2>2
  <2> QED
    BY Zenon, <2>3 DEF Typed
<1>q. out[c] \in Seq(Nat) /\ held[c] \in Nat /\ replay[c] \in Replay
  BY Zenon, <1>1 DEF Typed
<1>2. r \in Nat /\ r # SyncComplete
  <2>1. r \in 1..Len(log)
    BY Zenon, <1>0 DEF Books, CommittedInLog, Committed
  <2> QED
    BY <2>1 DEF SyncComplete
<1>3. have[ClientOf[c]] \subseteq have'[ClientOf[c]]
  BY Zenon, <1>1, HaveGrows
<1>4. ~Connect(c)
  BY Zenon, <1>0, <1>1 DEF Connect, Books, ConnectionsFit
<1>5. c \in link => InQueue(out[c], r) \/ r \in have[ClientOf[c]]
  BY Zenon, <1>0 DEF Books, OwnDeltaSent
<1> SUFFICES InQueue(out'[c], r) \/ r \in have'[ClientOf[c]]
  BY Zenon, <1>0
<1> HIDE DEF r
<1>6. CASE c # d
  <2>1. out'[c] = out[c] /\ c \in link
    BY Zenon, <1>1, <1>6, OtherSame DEF Same
  <2> QED
    BY Zenon, <1>3, <1>5, <2>1
<1>7. CASE c = d
  <2>1. c \in link
    BY Zenon, <1>4, <1>7 DEF ConnStep, Resume, LinkLost, StopReading, WriteFails,
       ForwardReceive, ForwardSend, Write, Close, ReplayQuery, ReplaySend, ReplayFails
  <2>2. ASSUME NEW x \in Nat, out'[c] = Append(out[c], x)
        PROVE  InQueue(out[c], r) => InQueue(out'[c], r)
    <3>1. InQueue(out[c], r) => InQueue(Append(out[c], x), r)
      BY Zenon, <1>q, StaysQueued
    <3> QED
      BY Zenon, <2>2, <3>1
  <2>3. CASE ForwardSend(c)
    <3>1. out'[c] = Append(out[c], held[c])
      BY Zenon, <1>1, <2>3 DEF ForwardSend
    <3>2. InQueue(out[c], r) => InQueue(out'[c], r)
      BY Zenon, <1>q, <2>2, <3>1
    <3> QED
      BY Zenon, <1>3, <1>5, <2>1, <3>2
  <2>4. CASE ReplaySend(c)
    <3>1. \/ out'[c] = Append(out[c], SyncComplete)
          \/ \E x \in replay[c].todo : out'[c] = Append(out[c], x)
      BY Zenon, <1>1, <2>4 DEF ReplaySend
    <3>2. SyncComplete \in Nat
      BY DEF SyncComplete
    <3>3. replay[c].todo \subseteq Nat
      BY Zenon, <1>q DEF Replay
    <3> QED
      BY Zenon, <1>3, <1>5, <2>1, <2>2, <3>1, <3>2, <3>3
  <2>5. CASE Write(c)
    <3>1. out[c] # <<>> /\ out'[c] = Tail(out[c])
      BY Zenon, <1>1, <2>5 DEF Write
    <3>2. InQueue(out[c], r) => r = Head(out[c]) \/ InQueue(Tail(out[c]), r)
      BY Zenon, <1>q, <3>1, InTail
    <3>3. Head(out[c]) # SyncComplete => Head(out[c]) \in have'[ClientOf[c]]
      <4>1. have \in [Client -> SUBSET Nat] /\ ClientOf[c] \in Client
        BY Zenon, <1>1, ConstantsAssumption DEF Typed
      <4>2. Head(out[c]) # SyncComplete =>
              have' = [have EXCEPT ![ClientOf[c]] = @ \cup {Head(out[c])}]
        BY Zenon, <2>1, <2>5 DEF Write, Receive
      <4> QED
        BY <4>1, <4>2, SMT
    <3> QED
      BY Zenon, <1>2, <1>3, <1>5, <2>1, <3>1, <3>2, <3>3
  <2>6. ~WriteFails(c)
    BY Zenon, <2>1 DEF WriteFails
  <2>7. CASE out' = out
    BY Zenon, <1>3, <1>5, <2>1, <2>7
  <2>8. \/ out' = out \/ WriteFails(c) \/ ForwardSend(c) \/ Write(c) \/ ReplaySend(c)
    BY Zenon, <1>7 DEF ConnStep, Connect, Resume, LinkLost, StopReading,
       ForwardReceive, Close, ReplayQuery, ReplayFails
  <2> QED
    BY Zenon, <2>3, <2>4, <2>5, <2>6, <2>7, <2>8
<1> QED
  BY Zenon, <1>6, <1>7

-----------------------------------------------------------------------------
(* Steps of handlers.                                                      *)

\* An event keeps its handler while published handlers stay published and the
\* channel keeps its history.
LEMMA BusKeeps ==
  ASSUME Books, bus' = bus,
         \A g \in Handler : hstate[g] = "published" =>
           hstate'[g] = "published" /\ hrev'[g] = hrev[g] /\ horigin'[g] = horigin[g]
  PROVE  BusHasHandler'
<1> SUFFICES ASSUME NEW i \in 1..Len(bus)
             PROVE  \E g \in Handler :
                      /\ hstate'[g] = "published"
                      /\ hrev'[g] = bus[i].rev /\ horigin'[g] = bus[i].origin
  BY Zenon DEF BusHasHandler
<1>1. PICK g \in Handler : /\ hstate[g] = "published"
                           /\ hrev[g] = bus[i].rev /\ horigin[g] = bus[i].origin
  BY Zenon DEF Books, BusHasHandler
<1> QED
  BY Zenon, <1>1

\* The delta a handler sent to its origin stays accounted for when its state,
\* the queues and what clients have only grow.
LEMMA OwnDeltaKeeps ==
  ASSUME Books, link' = link, have' = have,
         \A d \in link : \A r : InQueue(out[d], r) => InQueue(out'[d], r),
         \A d \in link : \A g \in Handler :
           horigin'[g] = d /\ hstate'[g] \in {"sent", "published"} =>
             \/ InQueue(out'[d], hrev'[g])
             \/ /\ horigin[g] = d /\ hstate[g] \in {"sent", "published"}
                /\ hrev'[g] = hrev[g]
  PROVE  OwnDeltaSent'
<1> SUFFICES ASSUME NEW d \in link, NEW g \in Handler, horigin'[g] = d,
                    hstate'[g] \in {"sent", "published"}
             PROVE  InQueue(out'[d], hrev'[g]) \/ hrev'[g] \in have[ClientOf[d]]
  BY Zenon DEF OwnDeltaSent
<1>1. CASE InQueue(out'[d], hrev'[g])
  BY Zenon, <1>1
<1>2. CASE /\ horigin[g] = d /\ hstate[g] \in {"sent", "published"}
           /\ hrev'[g] = hrev[g]
  <2>1. InQueue(out[d], hrev[g]) \/ hrev[g] \in have[ClientOf[d]]
    BY Zenon, <1>2 DEF Books, OwnDeltaSent
  <2> QED
    BY Zenon, <1>2, <2>1
<1> QED
  BY Zenon, <1>1, <1>2

\* A handler that starts has committed nothing yet; a request comes from an
\* open, identified connection and acts for its account.
LEMMA StartKeepsBooks ==
  ASSUME Typed, Books, NEW h \in Handler,
         Background(h) \/ \E c \in Conn : Request(h, c)
  PROVE  Books'
<1>1. /\ log' = log /\ bus' = bus /\ howner' = howner /\ hrev' = hrev /\ have' = have
      /\ conn' = conn /\ identified' = identified /\ cursor' = cursor /\ out' = out
      /\ writer' = writer /\ link' = link
  BY Zenon DEF Background, Request, connVars
<1>2. hstate[h] = "idle" /\ hstate' = [hstate EXCEPT ![h] = "running"]
  BY Zenon DEF Background, Request
<1>3. \/ horigin' = horigin
      \/ \E c \in Conn : /\ horigin' = [horigin EXCEPT ![h] = c]
                         /\ conn[c] = "open" /\ howner[h] = Owned(c)
  BY Zenon DEF Background, Request
<1>4. /\ hstate'[h] = "running"
      /\ \A g \in Handler : g # h => hstate'[g] = hstate[g] /\ horigin'[g] = horigin[g]
  BY Zenon, <1>2, <1>3 DEF Typed
<1>5. \/ horigin'[h] = horigin[h]
      \/ horigin'[h] \in Conn /\ conn[horigin'[h]] = "open" /\ howner[h] = Owned(horigin'[h])
  BY Zenon, <1>3 DEF Typed
<1>6. "running" \notin Committed /\ "idle" \notin Committed
  BY DEF Committed
<1>7. CommittedInLog'
  BY Zenon, <1>1, <1>4, <1>6 DEF Books, CommittedInLog, Committed
<1>8. LogHasHandler'
  BY Zenon, <1>1, <1>2, <1>4, <1>6 DEF Books, LogHasHandler, Committed
<1>9. BusHasHandler'
  BY Zenon, <1>1, <1>2, <1>4, BusKeeps
<1>10. ConnectionsFit'
  <2>1. ASSUME NEW c \in Conn, conn[c] = "new", NEW g \in Handler
        PROVE  horigin'[g] # c
    <3>1. horigin[g] # c
      BY Zenon, <2>1 DEF Books, ConnectionsFit
    <3> QED
      BY Zenon, <1>4, <1>5, <2>1, <3>1
  <2> QED
    BY Zenon, <1>1, <2>1 DEF Books, ConnectionsFit
<1>11. OwnDeltaSent'
  BY Zenon, <1>1, <1>4, OwnDeltaKeeps
<1>12. OriginOwns'
  <2> SUFFICES ASSUME NEW c \in Conn, NEW g \in Handler, horigin'[g] = c
               PROVE  howner[g] = Owned(c)
    BY Zenon, <1>1 DEF OriginOwns, Owned
  <2>1. horigin[g] = c => howner[g] = Owned(c)
    BY Zenon DEF Books, OriginOwns
  <2> QED
    BY Zenon, <1>4, <1>5, <2>1
<1> QED
  BY Zenon, <1>7, <1>8, <1>9, <1>10, <1>11, <1>12 DEF Books

\* Commit appends the handler's row to the log, and the row's position is the
\* handler's revision (delta_tx).
LEMMA CommitKeepsBooks ==
  ASSUME Typed, Books, NEW h \in Handler, Commit(h)
  PROVE  Books'
<1>1. /\ bus' = bus /\ howner' = howner /\ horigin' = horigin /\ have' = have
      /\ conn' = conn /\ identified' = identified /\ cursor' = cursor /\ out' = out
      /\ writer' = writer /\ link' = link
  BY Zenon DEF Commit, connVars
<1>2. /\ log' = Append(log, howner[h]) /\ hrev' = [hrev EXCEPT ![h] = Len(log')]
      /\ hstate[h] = "running" /\ hstate' = [hstate EXCEPT ![h] = "committed"]
  BY Zenon DEF Commit
<1>3. /\ Len(log) \in Nat /\ Len(log') = Len(log) + 1
      /\ log'[Len(log) + 1] = howner[h]
      /\ \A i \in 1..Len(log) : log'[i] = log[i]
  <2>1. log \in Seq(Owner) /\ howner[h] \in Owner
    BY Zenon DEF Typed
  <2> QED
    BY <1>2, <2>1
<1>4. /\ hrev'[h] = Len(log) + 1 /\ hstate'[h] = "committed"
      /\ \A g \in Handler : g # h => hrev'[g] = hrev[g] /\ hstate'[g] = hstate[g]
  BY Zenon, <1>2, <1>3 DEF Typed
<1>5. "running" \notin Committed /\ "committed" \in Committed
  BY DEF Committed
<1>6. /\ 1..Len(log) \subseteq 1..Len(log') /\ Len(log) + 1 \in 1..Len(log')
      /\ \A i \in 1..Len(log') : i \in 1..Len(log) \/ i = Len(log) + 1
  BY <1>3
<1>7. CommittedInLog'
  <2> SUFFICES ASSUME NEW g \in Handler, hstate'[g] \in Committed
               PROVE  hrev'[g] \in 1..Len(log') /\ log'[hrev'[g]] = howner[g]
    BY Zenon, <1>1 DEF CommittedInLog, Committed
  <2>1. CASE g = h
    BY Zenon, <1>3, <1>4, <1>6, <2>1
  <2>2. CASE g # h
    <3>1. hrev[g] \in 1..Len(log) /\ log[hrev[g]] = howner[g]
      BY Zenon, <1>4, <2>2 DEF Books, CommittedInLog
    <3> QED
      BY Zenon, <1>3, <1>4, <1>6, <2>2, <3>1
  <2> QED
    BY Zenon, <2>1, <2>2
<1>8. LogHasHandler'
  <2> SUFFICES ASSUME NEW i \in 1..Len(log')
               PROVE  \E g \in Handler : hstate'[g] \in Committed /\ hrev'[g] = i
    BY Zenon DEF LogHasHandler, Committed
  <2>1. CASE i = Len(log) + 1
    BY Zenon, <1>4, <1>5, <2>1
  <2>2. CASE i \in 1..Len(log)
    <3>1. PICK g \in Handler : hstate[g] \in Committed /\ hrev[g] = i
      BY Zenon, <2>2 DEF Books, LogHasHandler
    <3> QED
      BY Zenon, <1>2, <1>4, <1>5, <3>1
  <2> QED
    BY Zenon, <1>6, <2>1, <2>2
<1>9. BusHasHandler'
  BY Zenon, <1>1, <1>2, <1>4, BusKeeps
<1>10. ConnectionsFit'
  BY Zenon, <1>1 DEF Books, ConnectionsFit
<1>11. OwnDeltaSent'
  BY Zenon, <1>1, <1>4, OwnDeltaKeeps
<1>12. OriginOwns'
  BY Zenon, <1>1 DEF Books, OriginOwns, Owned
<1> QED
  BY Zenon, <1>7, <1>8, <1>9, <1>10, <1>11, <1>12 DEF Books

\* The first half of send_delta! puts the delta in the origin's queue before
\* the handler counts as sent.
LEMMA SendOwnKeepsBooks ==
  ASSUME Typed, Books, NEW h \in Handler, SendOwn(h)
  PROVE  Books'
<1> DEFINE c == horigin[h]
<1>1. /\ log' = log /\ bus' = bus /\ cursor' = cursor /\ conn' = conn
      /\ identified' = identified /\ writer' = writer /\ link' = link /\ have' = have
      /\ horigin' = horigin /\ howner' = howner /\ hrev' = hrev
  BY Zenon DEF SendOwn
<1>2. /\ hstate[h] = "committed" /\ c \in Conn /\ hrev[h] \in Nat
      /\ out \in [Conn -> Seq(Nat)] /\ link \subseteq Conn
  BY Zenon DEF SendOwn, Typed
<1>3. \/ /\ hstate' = [hstate EXCEPT ![h] = "sent"]
         /\ out' = [out EXCEPT ![c] = Append(@, hrev[h])]
      \/ /\ hstate' = [hstate EXCEPT ![h] = "failed"]
         /\ out' = out
  BY Zenon DEF SendOwn
<1>4. /\ \A g \in Handler : g # h => hstate'[g] = hstate[g]
      /\ hstate'[h] = "sent" \/ hstate'[h] = "failed"
  BY Zenon, <1>3 DEF Typed
<1>5. {"sent", "failed", "committed"} \subseteq Committed
  BY DEF Committed
<1>6. \A g \in Handler : hstate'[g] \in Committed <=> hstate[g] \in Committed
  BY Zenon, <1>2, <1>4, <1>5
<1>7. CommittedInLog'
  BY Zenon, <1>1, <1>6 DEF Books, CommittedInLog, Committed
<1>8. LogHasHandler'
  BY Zenon, <1>1, <1>6 DEF Books, LogHasHandler, Committed
<1>9. BusHasHandler'
  BY Zenon, <1>1, <1>2, <1>4, BusKeeps
<1>10. ConnectionsFit'
  BY Zenon, <1>1 DEF Books, ConnectionsFit
<1>11. OwnDeltaSent'
  <2>1. \A d \in Conn : \A r : InQueue(out[d], r) => InQueue(out'[d], r)
    <3> SUFFICES ASSUME NEW d \in Conn, NEW r, InQueue(out[d], r)
                 PROVE  InQueue(out'[d], r)
      BY Zenon
    <3>1. out'[d] = out[d] \/ out'[d] = Append(out[d], hrev[h])
      BY Zenon, <1>2, <1>3
    <3>2. InQueue(Append(out[d], hrev[h]), r)
      BY Zenon, <1>2, StaysQueued
    <3> QED
      BY Zenon, <3>1, <3>2
  <2>2. hstate'[h] = "sent" => InQueue(out'[c], hrev[h])
    <3>1. hstate'[h] = "sent" => out'[c] = Append(out[c], hrev[h])
      BY Zenon, <1>2, <1>3 DEF Typed
    <3>2. InQueue(Append(out[c], hrev[h]), hrev[h])
      BY Zenon, <1>2, StaysQueued
    <3> QED
      BY Zenon, <3>1, <3>2
  <2> QED
    BY Zenon, <1>1, <1>2, <1>4, <2>1, <2>2, OwnDeltaKeeps
<1>12. OriginOwns'
  BY Zenon, <1>1 DEF Books, OriginOwns, Owned
<1> QED
  BY Zenon, <1>7, <1>8, <1>9, <1>10, <1>11, <1>12 DEF Books

\* The second half of send_delta! publishes only what the origin was sent
\* before, or what has no origin.
LEMMA PublishKeepsBooks ==
  ASSUME Typed, Books, NEW h \in Handler, Publish(h)
  PROVE  Books'
<1> DEFINE e == [rev |-> hrev[h], origin |-> horigin[h]]
<1>1. /\ log' = log /\ cursor' = cursor /\ conn' = conn /\ identified' = identified
      /\ writer' = writer /\ link' = link /\ out' = out /\ have' = have
      /\ horigin' = horigin /\ howner' = howner /\ hrev' = hrev
  BY Zenon DEF Publish, connVars
<1>2. /\ hstate[h] = "sent" \/ (hstate[h] = "committed" /\ horigin[h] = NoConn)
      /\ hstate'[h] = "published"
      /\ \A g \in Handler : g # h => hstate'[g] = hstate[g]
      /\ link \subseteq Conn
  <2>1. /\ hstate[h] = "sent" \/ (hstate[h] = "committed" /\ horigin[h] = NoConn)
        /\ hstate' = [hstate EXCEPT ![h] = "published"]
    BY Zenon DEF Publish
  <2>2. hstate \in [Handler -> {"idle", "running"} \cup Committed] /\ link \subseteq Conn
    BY Zenon DEF Typed
  <2> QED
    BY Zenon, <2>1, <2>2
<1>3. e \in Event /\ e.rev = hrev[h] /\ e.origin = horigin[h]
  <2>1. hrev[h] \in Nat /\ horigin[h] \in Conn \cup {NoConn}
    BY Zenon DEF Typed
  <2> QED
    BY <2>1 DEF Event
<1>4. bus' = Append(bus, e) /\ bus \in Seq(Event)
  BY Zenon DEF Publish, Typed
<1> HIDE DEF e
<1>5. /\ Len(bus) \in Nat /\ Len(bus') = Len(bus) + 1 /\ bus'[Len(bus) + 1] = e
      /\ \A i \in 1..Len(bus) : bus'[i] = bus[i]
  BY Zenon, <1>3, <1>4, AppendEvent
<1>6. \A i \in 1..Len(bus') : i \in 1..Len(bus) \/ i = Len(bus) + 1
  BY <1>5
<1>7. \A d \in Conn : cursor[d] <= Len(bus')
  <2>1. \A d \in Conn : cursor[d] \in Nat /\ cursor[d] <= Len(bus)
    BY Zenon DEF Typed, Books, ConnectionsFit
  <2> QED
    BY <1>5, <2>1
<1>8. {"sent", "published", "committed"} \subseteq Committed
  BY DEF Committed
<1>9. \A g \in Handler : hstate'[g] \in Committed <=> hstate[g] \in Committed
  BY Zenon, <1>2, <1>8
<1>10. CommittedInLog'
  BY Zenon, <1>1, <1>9 DEF Books, CommittedInLog, Committed
<1>11. LogHasHandler'
  BY Zenon, <1>1, <1>9 DEF Books, LogHasHandler, Committed
<1>12. BusHasHandler'
  <2> SUFFICES ASSUME NEW i \in 1..Len(bus')
               PROVE  \E g \in Handler :
                        /\ hstate'[g] = "published"
                        /\ hrev'[g] = bus'[i].rev /\ horigin'[g] = bus'[i].origin
    BY Zenon DEF BusHasHandler
  <2>1. CASE i = Len(bus) + 1
    BY Zenon, <1>1, <1>2, <1>3, <1>5, <2>1
  <2>2. CASE i \in 1..Len(bus)
    <3>1. PICK g \in Handler : /\ hstate[g] = "published"
                               /\ hrev[g] = bus[i].rev /\ horigin[g] = bus[i].origin
      BY Zenon, <2>2 DEF Books, BusHasHandler
    <3>2. hstate'[g] = "published" /\ bus'[i] = bus[i]
      BY Zenon, <1>2, <1>5, <2>2, <3>1
    <3> QED
      BY Zenon, <1>1, <3>1, <3>2
  <2> QED
    BY Zenon, <1>6, <2>1, <2>2
<1>13. ConnectionsFit'
  BY Zenon, <1>1, <1>7 DEF Books, ConnectionsFit
<1>14. OwnDeltaSent'
  <2>1. \A d \in link : \A g \in Handler :
          horigin[g] = d /\ hstate'[g] \in {"sent", "published"} =>
            hstate[g] \in {"sent", "published"}
    BY Zenon, ConstantsAssumption, <1>2
  <2> QED
    BY Zenon, <1>1, <2>1, OwnDeltaKeeps
<1>15. OriginOwns'
  BY Zenon, <1>1 DEF Books, OriginOwns, Owned
<1> QED
  BY Zenon, <1>10, <1>11, <1>12, <1>13, <1>14, <1>15 DEF Books

\* Every step keeps the relations between handlers, log, channel and
\* connections.
LEMMA BooksStep ==
  ASSUME Typed, Books, [Next]_vars
  PROVE  Books'
<1>1. CASE UNCHANGED vars
  <2>1. /\ log' = log /\ bus' = bus /\ cursor' = cursor /\ conn' = conn
        /\ identified' = identified /\ writer' = writer /\ link' = link /\ have' = have
        /\ out' = out /\ hstate' = hstate /\ horigin' = horigin /\ howner' = howner
        /\ hrev' = hrev
    BY Zenon, <1>1 DEF vars, connVars, handlerVars
  <2>2. CommittedInLog' /\ LogHasHandler'
    BY Zenon, <2>1 DEF Books, CommittedInLog, LogHasHandler, Committed
  <2>3. BusHasHandler' /\ OwnDeltaSent'
    BY Zenon, <2>1, BusKeeps, OwnDeltaKeeps
  <2>4. ConnectionsFit' /\ OriginOwns'
    BY Zenon, <2>1 DEF Books, ConnectionsFit, OriginOwns, Owned
  <2> QED
    BY Zenon, <2>2, <2>3, <2>4 DEF Books
<1>2. ASSUME NEW d \in Conn, ConnStep(d) PROVE Books'
  BY Zenon, <1>2, ConnKeepsHandlers, ConnKeepsFit, ConnKeepsOwnDelta DEF Books
<1>3. ASSUME NEW h \in Handler, HandlerStep(h) PROVE Books'
  BY Zenon, <1>3, StartKeepsBooks, CommitKeepsBooks, SendOwnKeepsBooks, PublishKeepsBooks
     DEF HandlerStep
<1> QED
  BY Zenon, <1>1, <1>2, <1>3, StepKinds

-----------------------------------------------------------------------------
(* Only the client's own revisions travel.                                 *)

\* The log only grows: a revision keeps its owner.
LEMMA OwnersKept ==
  ASSUME Typed, NEW h \in Handler, HandlerStep(h), NEW o
  PROVE  OwnerRevs(o) \subseteq OwnerRevs(o)'
<1>1. CASE log' = log
  BY Zenon, <1>1 DEF OwnerRevs
<1>2. CASE Commit(h)
  <2>1. log \in Seq(Owner) /\ howner[h] \in Owner /\ log' = Append(log, howner[h])
    BY Zenon, <1>2 DEF Commit, Typed
  <2>2. /\ 1..Len(log) \subseteq 1..Len(log')
        /\ \A i \in 1..Len(log) : log'[i] = log[i]
    BY <2>1
  <2> QED
    BY Zenon, <2>2 DEF OwnerRevs
<1> QED
  BY Zenon, <1>1, <1>2 DEF HandlerStep, Request, Background, SendOwn, Publish

\* The writer hands a client only frames of its queue.
LEMMA OwnHave ==
  ASSUME Typed, OnlyOwnUnderWay, NEW d \in Conn, ConnStep(d), NEW c \in Conn
  PROVE  have'[ClientOf[c]] \subseteq OwnerRevs(Owned(c))
<1>0. /\ have \in [Client -> SUBSET Nat] /\ ClientOf[c] \in Client
      /\ have[ClientOf[c]] \subseteq OwnerRevs(Owned(c))
  BY Zenon, ConstantsAssumption DEF Typed, OnlyOwnUnderWay
<1>1. CASE have' = have
  BY Zenon, <1>0, <1>1
<1>2. CASE /\ Write(d) /\ Head(out[d]) # SyncComplete
           /\ have' = [have EXCEPT ![ClientOf[d]] = @ \cup {Head(out[d])}]
  <2>1. CASE ClientOf[d] # ClientOf[c]
    BY Zenon, <1>0, <1>2, <2>1
  <2>2. CASE ClientOf[d] = ClientOf[c]
    <3>1. have'[ClientOf[c]] = have[ClientOf[c]] \cup {Head(out[d])}
      BY Zenon, <1>0, <1>2, <2>2
    <3>2. out[d] \in Seq(Nat) /\ out[d] # <<>>
      BY Zenon, <1>2 DEF Write, Typed
    <3>3. InQueue(out[d], Head(out[d]))
      BY Zenon, <3>2, InTail
    <3>4. Head(out[d]) \in OwnerRevs(Owned(d)) /\ Owned(d) = Owned(c)
      BY Zenon, <1>2, <2>2, <3>3 DEF OnlyOwnUnderWay, Owned
    <3> QED
      BY Zenon, <1>0, <3>1, <3>4
  <2> QED
    BY Zenon, <2>1, <2>2
<1>3. \/ have' = have
      \/ /\ Write(d) /\ Head(out[d]) # SyncComplete
         /\ have' = [have EXCEPT ![ClientOf[d]] = @ \cup {Head(out[d])}]
  <2>1. CASE Write(d)
    BY Zenon, <2>1 DEF Write, Receive
  <2>2. CASE ~Write(d)
    BY Zenon, <2>2 DEF ConnStep, Connect, Resume, LinkLost, StopReading, WriteFails,
       ForwardReceive, ForwardSend, Close, ReplayQuery, ReplaySend, ReplayFails
  <2> QED
    BY Zenon, <2>1, <2>2
<1> QED
  BY Zenon, <1>1, <1>2, <1>3

\* Forwarder and replay enqueue only what they hold, and that is the account's.
LEMMA OwnQueue ==
  ASSUME Typed, NEW c \in Conn, ConnStep(c), OnlyOwnUnderWay, NEW r, InQueue(out'[c], r)
  PROVE  r = SyncComplete \/ r \in OwnerRevs(Owned(c))
<1>0. /\ held[c] = 0 \/ held[c] \in OwnerRevs(Owned(c))
      /\ replay[c].todo \subseteq OwnerRevs(Owned(c))
      /\ \A x : InQueue(out[c], x) => x = SyncComplete \/ x \in OwnerRevs(Owned(c))
  BY Zenon DEF OnlyOwnUnderWay
<1>1. out \in [Conn -> Seq(Nat)]
  BY Zenon DEF Typed
<1>2. out[c] \in Seq(Nat) /\ held[c] \in Nat /\ replay[c].todo \subseteq Nat
  <2>1. out[c] \in Seq(Nat) /\ held[c] \in Nat /\ replay[c] \in Replay
    BY Zenon DEF Typed
  <2> QED
    BY Zenon, <2>1 DEF Replay
<1>3. ASSUME NEW x \in Nat, x = SyncComplete \/ x \in OwnerRevs(Owned(c)),
             out'[c] = Append(out[c], x)
      PROVE  r = SyncComplete \/ r \in OwnerRevs(Owned(c))
  <2>1. InQueue(out[c], r) \/ r = x
    BY Zenon, <1>2, <1>3, InAppend
  <2> QED
    BY Zenon, <1>0, <1>3, <2>1
<1>4. CASE out' = out
  BY Zenon, <1>0, <1>4
<1>5. CASE ForwardSend(c)
  <2>1. out'[c] = Append(out[c], held[c]) /\ held[c] # 0
    BY Zenon, <1>1, <1>5 DEF ForwardSend
  <2> QED
    BY Zenon, <1>0, <1>2, <1>3, <2>1
<1>6. CASE ReplaySend(c)
  <2>1. \/ out'[c] = Append(out[c], SyncComplete)
        \/ \E x \in replay[c].todo : out'[c] = Append(out[c], x)
    BY Zenon, <1>1, <1>6 DEF ReplaySend
  <2>2. SyncComplete \in Nat
    BY DEF SyncComplete
  <2> QED
    BY Zenon, <1>0, <1>2, <1>3, <2>1, <2>2
<1>7. CASE Write(c)
  <2>1. out[c] # <<>> /\ out'[c] = Tail(out[c])
    BY Zenon, <1>1, <1>7 DEF Write
  <2>2. InQueue(out[c], r)
    BY Zenon, <1>2, <2>1, InTail
  <2> QED
    BY Zenon, <1>0, <2>2
<1>8. CASE WriteFails(c)
  <2>1. out'[c] = <<>>
    BY Zenon, <1>1, <1>8 DEF WriteFails
  <2> QED
    BY <2>1 DEF InQueue
<1>9. out' = out \/ ForwardSend(c) \/ ReplaySend(c) \/ Write(c) \/ WriteFails(c)
  BY Zenon DEF ConnStep, Connect, Resume, LinkLost, StopReading, ForwardReceive, Close,
     ReplayQuery, ReplayFails
<1> QED
  BY Zenon, <1>4, <1>5, <1>6, <1>7, <1>8, <1>9

\* The forwarder takes only events of its connection's account
\* (delta_visible).
LEMMA OwnHeld ==
  ASSUME Typed, Books, NEW c \in Conn, ConnStep(c), OnlyOwnUnderWay
  PROVE  held'[c] = 0 \/ held'[c] \in OwnerRevs(Owned(c))
<1>0. held \in [Conn -> Nat] /\ (held[c] = 0 \/ held[c] \in OwnerRevs(Owned(c)))
  BY Zenon DEF OnlyOwnUnderWay, Typed
<1>1. CASE held' = held
  BY Zenon, <1>0, <1>1
<1>2. CASE ForwardSend(c) \/ StopReading(c)
  BY Zenon, <1>0, <1>2 DEF ForwardSend, StopReading
<1>3. CASE ForwardReceive(c)
  <2> DEFINE e == bus[cursor[c] + 1]
  <2>1. cursor[c] + 1 \in 1..Len(bus)
    <3>1. cursor[c] < Len(bus)
      BY Zenon, <1>3 DEF ForwardReceive
    <3> QED
      BY <3>1, LenBus
  <2>2. \/ held' = held \/ held'[c] = 0
        \/ held'[c] = e.rev /\ log[e.rev] = Owned(c)
    BY Zenon, <1>0, <1>3 DEF ForwardReceive, Visible
  <2>3. PICK h \in Handler : hstate[h] = "published" /\ hrev[h] = e.rev
    BY Zenon, <2>1 DEF Books, BusHasHandler
  <2>4. e.rev \in 1..Len(log)
    BY Zenon, <2>3 DEF Books, CommittedInLog, Committed
  <2> QED
    BY Zenon, <1>1, <2>2, <2>4 DEF OwnerRevs
<1>4. held' = held \/ ForwardSend(c) \/ StopReading(c) \/ ForwardReceive(c)
  BY Zenon DEF ConnStep, Connect, Resume, LinkLost, WriteFails, Write, Close,
     ReplayQuery, ReplaySend, ReplayFails
<1> QED
  BY Zenon, <1>1, <1>2, <1>3, <1>4

\* The replay's query selects rows of the account only.
LEMMA OwnTodo ==
  ASSUME Typed, NEW c \in Conn, ConnStep(c), OnlyOwnUnderWay
  PROVE  replay'[c].todo \subseteq OwnerRevs(Owned(c))
<1>0. /\ replay \in [Conn -> Replay] /\ replay[c] \in Replay
      /\ replay[c].todo \subseteq OwnerRevs(Owned(c))
  BY Zenon DEF OnlyOwnUnderWay, Typed
<1>1. CASE replay' = replay
  BY Zenon, <1>0, <1>1
<1>2. CASE Resume(c)
  <2>1. \E s : replay'[c] = [stage |-> "identified", todo |-> {}, since |-> s]
    BY Zenon, <1>0, <1>2 DEF Resume
  <2> QED
    BY <2>1
<1>3. CASE ReplayQuery(c)
  <2>1. replay'[c] = [replay[c] EXCEPT !.stage = "streaming",
                        !.todo = ReplayRows(Owned(c), replay[c].since)]
    BY Zenon, <1>0, <1>3 DEF ReplayQuery
  <2>2. replay'[c].todo = ReplayRows(Owned(c), replay[c].since)
    BY <1>0, <2>1 DEF Replay
  <2> QED
    BY Zenon, <2>2 DEF ReplayRows
<1>4. CASE ReplaySend(c)
  <2>1. \/ replay'[c] = NoReplay
        \/ \E x : replay'[c] = [replay[c] EXCEPT !.todo = @ \ {x}]
    BY Zenon, <1>0, <1>4 DEF ReplaySend
  <2>2. ASSUME NEW x, replay'[c] = [replay[c] EXCEPT !.todo = @ \ {x}]
        PROVE  replay'[c].todo \subseteq replay[c].todo
    BY <1>0, <2>2 DEF Replay
  <2>3. NoReplay.todo = {}
    BY DEF NoReplay
  <2> QED
    BY Zenon, <1>0, <2>1, <2>2, <2>3
<1>5. CASE ReplayFails(c)
  <2>1. replay'[c] = NoReplay
    BY Zenon, <1>0, <1>5 DEF ReplayFails
  <2> QED
    BY <2>1 DEF NoReplay
<1>6. replay' = replay \/ Resume(c) \/ ReplayQuery(c) \/ ReplaySend(c) \/ ReplayFails(c)
  BY Zenon DEF ConnStep, Connect, LinkLost, StopReading, WriteFails, ForwardReceive,
     ForwardSend, Write, Close
<1> QED
  BY Zenon, <1>1, <1>2, <1>3, <1>4, <1>5, <1>6

\* No step puts a revision of another account under way to a client.
LEMMA OwnStep ==
  ASSUME Typed, Books, OnlyOwnUnderWay, [Next]_vars
  PROVE  OnlyOwnUnderWay'
<1>1. CASE UNCHANGED vars
  <2>1. log' = log /\ have' = have /\ out' = out /\ held' = held /\ replay' = replay
    BY Zenon, <1>1 DEF vars, connVars
  <2>2. \A o : OwnerRevs(o)' = OwnerRevs(o)
    BY Zenon, <2>1 DEF OwnerRevs
  <2> QED
    BY Zenon, <2>1, <2>2 DEF OnlyOwnUnderWay, Owned, InQueue
<1>2. ASSUME NEW d \in Conn, ConnStep(d) PROVE OnlyOwnUnderWay'
  <2> SUFFICES ASSUME NEW c \in Conn
               PROVE  /\ have'[ClientOf[c]] \subseteq OwnerRevs(Owned(c))
                      /\ \A r : InQueue(out'[c], r) =>
                               r = SyncComplete \/ r \in OwnerRevs(Owned(c))
                      /\ held'[c] = 0 \/ held'[c] \in OwnerRevs(Owned(c))
                      /\ replay'[c].todo \subseteq OwnerRevs(Owned(c))
    <3>1. \A o : OwnerRevs(o)' = OwnerRevs(o)
      BY Zenon, <1>2, ConnKeeps DEF OwnerRevs
    <3> QED
      BY Zenon, <3>1 DEF OnlyOwnUnderWay, Owned, InQueue
  <2>1. CASE c = d
    BY Zenon, <1>2, <2>1, OwnHave, OwnQueue, OwnHeld, OwnTodo
  <2>2. CASE c # d
    BY Zenon, <1>2, <2>2, OwnHave, OtherSame DEF Same, OnlyOwnUnderWay
  <2> QED
    BY Zenon, <2>1, <2>2
<1>3. ASSUME NEW h \in Handler, HandlerStep(h) PROVE OnlyOwnUnderWay'
  <2>1. have' = have /\ held' = held /\ replay' = replay
    BY Zenon, <1>3 DEF HandlerStep, Request, Background, Commit, SendOwn, Publish, connVars
  <2>2. ASSUME NEW c \in Conn, NEW r, InQueue(out'[c], r)
        PROVE  r = SyncComplete \/ r \in OwnerRevs(Owned(c))
    <3>0. InQueue(out[c], r) => r = SyncComplete \/ r \in OwnerRevs(Owned(c))
      BY Zenon DEF OnlyOwnUnderWay
    <3>1. CASE out'[c] = out[c]
      BY Zenon, <2>2, <3>0, <3>1
    <3>2. CASE SendOwn(h) /\ horigin[h] = c /\ out'[c] = Append(out[c], hrev[h])
      <4>1. out[c] \in Seq(Nat) /\ hrev[h] \in Nat
        BY Zenon DEF Typed
      <4>2. InQueue(out[c], r) \/ r = hrev[h]
        <5>1. InQueue(Append(out[c], hrev[h]), r)
          BY Zenon, <2>2, <3>2
        <5> QED
          BY Zenon, <4>1, <5>1, InAppend
      <4>3. hrev[h] \in 1..Len(log) /\ log[hrev[h]] = howner[h]
        BY Zenon, <3>2 DEF SendOwn, Books, CommittedInLog, Committed
      <4>4. howner[h] = Owned(c)
        BY Zenon, <3>2 DEF Books, OriginOwns
      <4> QED
        BY Zenon, <3>0, <4>2, <4>3, <4>4 DEF OwnerRevs
    <3>3. \/ out'[c] = out[c]
          \/ SendOwn(h) /\ horigin[h] = c /\ out'[c] = Append(out[c], hrev[h])
      <4>1. out \in [Conn -> Seq(Nat)]
        BY Zenon DEF Typed
      <4>2. CASE SendOwn(h)
        BY Zenon, <4>1, <4>2 DEF SendOwn
      <4>3. CASE ~SendOwn(h)
        BY Zenon, <1>3, <4>3 DEF HandlerStep, Request, Background, Commit, Publish, connVars
      <4> QED
        BY Zenon, <4>2, <4>3
    <3> QED
      BY Zenon, <3>1, <3>2, <3>3
  <2>3. \A c \in Conn : OwnerRevs(Owned(c)) \subseteq OwnerRevs(Owned(c))'
    BY Zenon, <1>3, OwnersKept DEF Owned
  <2> QED
    BY Zenon, <2>1, <2>2, <2>3 DEF OnlyOwnUnderWay, InQueue
<1> QED
  BY Zenon, <1>1, <1>2, <1>3, StepKinds

-----------------------------------------------------------------------------
(* No revision is lost.                                                    *)

\* A revision the forwarder takes from the channel is held by it or, when the
\* forwarder skips it as its own connection's, was sent by send_delta!.
LEMMA ReceiveKeepsWay ==
  ASSUME Typed, Books, NEW c \in Conn, ForwardReceive(c), Attached(c)',
         NEW r \in OwnerRevs(Owned(c)), OnItsWay(c, r)
  PROVE  OnItsWay(c, r)'
<1> DEFINE i == cursor[c] + 1
<1>0. cursor \in [Conn -> Nat] /\ held \in [Conn -> Nat] /\ cursor[c] \in Nat
  BY Zenon DEF Typed
<1>1. Attached(c) /\ bus' = bus /\ out' = out /\ replay' = replay /\ have' = have
        /\ hstate' = hstate /\ hrev' = hrev
  BY Zenon DEF ForwardReceive, Attached, handlerVars
<1>2. i \in 1..Len(bus) /\ Len(bus) \in Nat
  <2>1. cursor[c] < Len(bus)
    BY Zenon DEF ForwardReceive
  <2> QED
    BY <1>0, <2>1, LenBus
<1>3. /\ held[c] = 0 /\ cursor'[c] = i
      /\ held'[c] = IF Visible(c, bus[i]) THEN bus[i].rev ELSE 0
  <2>1. ~(lagged' = lagged \cup {c})
    BY Zenon DEF Attached
  <2> QED
    BY Zenon, <1>0, <2>1 DEF ForwardReceive
<1>4. r # 0
  <2>1. r \in 1..Len(log)
    BY Zenon DEF OwnerRevs
  <2> QED
    BY <2>1
<1>5. CASE bus[i].rev = r
  <2>1. CASE Visible(c, bus[i])
    BY Zenon, <1>3, <1>5, <2>1 DEF OnItsWay
  <2>2. CASE ~Visible(c, bus[i])
    <3>1. bus[i].origin = c
      BY Zenon, <1>1, <1>5, <2>2 DEF Visible, Attached, OwnerRevs
    <3>2. PICK h \in Handler : hstate[h] = "published" /\ hrev[h] = r /\ horigin[h] = c
      BY Zenon, <1>2, <1>5, <3>1 DEF Books, BusHasHandler
    <3>3. InQueue(out[c], r) \/ r \in have[ClientOf[c]]
      BY Zenon, <1>1, <3>2 DEF Books, OwnDeltaSent, Attached
    <3> QED
      BY Zenon, <1>1, <3>3 DEF OnItsWay, InQueue
  <2> QED
    BY Zenon, <2>1, <2>2
<1>6. CASE bus[i].rev # r
  <2>1. ASSUME NEW j \in i..Len(bus), bus[j].rev = r
        PROVE  j \in (i + 1)..Len(bus)
    <3>1. j # i
      BY Zenon, <1>6, <2>1
    <3> HIDE DEF i
    <3> QED
      BY <1>2, <3>1
  <2> QED
    BY Zenon, <1>1, <1>3, <1>4, <2>1 DEF OnItsWay
<1> QED
  BY Zenon, <1>5, <1>6

\* A revision the forwarder held waits in the queue afterwards.
LEMMA SendKeepsWay ==
  ASSUME Typed, NEW c \in Conn, ForwardSend(c), NEW r, OnItsWay(c, r)
  PROVE  OnItsWay(c, r)'
<1>0. out \in [Conn -> Seq(Nat)] /\ out[c] \in Seq(Nat) /\ held[c] \in Nat
  BY Zenon DEF Typed
<1>1. /\ bus' = bus /\ cursor' = cursor /\ replay' = replay /\ have' = have
      /\ hstate' = hstate /\ hrev' = hrev /\ out'[c] = Append(out[c], held[c])
  BY Zenon, <1>0 DEF ForwardSend, handlerVars
<1>2. InQueue(out[c], r) \/ r = held[c] => InQueue(Append(out[c], held[c]), r)
  BY Zenon, <1>0, StaysQueued
<1>3. InQueue(out[c], r) \/ held[c] = r => InQueue(out'[c], r)
  BY Zenon, <1>1, <1>2
<1> QED
  BY Zenon, <1>1, <1>3 DEF OnItsWay, InQueue

\* A revision that leaves the queue arrives at the client.
LEMMA WriteKeepsWay ==
  ASSUME Typed, NEW c \in Conn, Write(c), Attached(c)', NEW r, r # SyncComplete,
         OnItsWay(c, r)
  PROVE  OnItsWay(c, r)'
<1>0. /\ out \in [Conn -> Seq(Nat)] /\ out[c] \in Seq(Nat)
      /\ have \in [Client -> SUBSET Nat] /\ ClientOf[c] \in Client
  BY Zenon, ConstantsAssumption DEF Typed
<1>1. /\ bus' = bus /\ cursor' = cursor /\ replay' = replay /\ held' = held
      /\ hstate' = hstate /\ hrev' = hrev
      /\ out[c] # <<>> /\ out'[c] = Tail(out[c]) /\ Receive(c, Head(out[c]))
  BY Zenon, <1>0 DEF Write, handlerVars, Attached
<1>2. InQueue(out[c], r) => r = Head(out[c]) \/ InQueue(out'[c], r)
  BY Zenon, <1>0, <1>1, InTail
<1>3. r = Head(out[c]) => r \in have'[ClientOf[c]]
  BY Zenon, <1>0, <1>1 DEF Receive
<1>4. have[ClientOf[c]] \subseteq have'[ClientOf[c]]
  BY Zenon, HaveGrows DEF ConnStep
<1> QED
  BY Zenon, <1>1, <1>2, <1>3, <1>4 DEF OnItsWay, InQueue

\* A replay from revision 0 selects every revision of the account.
LEMMA QueryFindsIt ==
  ASSUME ResumeFrom = "zero", Typed, NEW c \in Conn, ReplayQuery(c),
         NEW r \in OwnerRevs(Owned(c))
  PROVE  OnItsWay(c, r)'
<1>0. replay \in [Conn -> Replay] /\ replay[c] \in Replay
  BY Zenon DEF Typed
<1>1. replay'[c] = [replay[c] EXCEPT !.stage = "streaming",
                      !.todo = ReplayRows(Owned(c), replay[c].since)]
  BY Zenon, <1>0 DEF ReplayQuery
<1>2. replay'[c].todo = ReplayRows(Owned(c), replay[c].since)
  BY <1>0, <1>1 DEF Replay
<1>3. replay[c].since = 0
  BY Zenon, <1>0 DEF Replay, Since
<1>4. r > 0
  <2>1. r \in 1..Len(log)
    BY Zenon DEF OwnerRevs
  <2> QED
    BY <2>1
<1> QED
  BY Zenon, <1>2, <1>3, <1>4 DEF OnItsWay, ReplayRows

\* A row that leaves the replay waits in the queue afterwards.
LEMMA ReplaySendKeepsWay ==
  ASSUME Typed, NEW c \in Conn, ReplaySend(c), NEW r, OnItsWay(c, r)
  PROVE  OnItsWay(c, r)'
<1>0. /\ out \in [Conn -> Seq(Nat)] /\ out[c] \in Seq(Nat)
      /\ replay \in [Conn -> Replay] /\ replay[c] \in Replay
  BY Zenon DEF Typed
<1>1. /\ bus' = bus /\ cursor' = cursor /\ held' = held /\ have' = have
      /\ hstate' = hstate /\ hrev' = hrev
  BY Zenon DEF ReplaySend, handlerVars
<1>2. CASE replay[c].todo = {} /\ out'[c] = Append(out[c], SyncComplete)
  <2>1. SyncComplete \in Nat
    BY DEF SyncComplete
  <2>2. InQueue(out[c], r) => InQueue(Append(out[c], SyncComplete), r)
    BY Zenon, <1>0, <2>1, StaysQueued
  <2>3. InQueue(out[c], r) => InQueue(out'[c], r)
    BY Zenon, <1>2, <2>2
  <2> QED
    BY Zenon, <1>1, <1>2, <2>3 DEF OnItsWay, InQueue
<1>3. ASSUME NEW x \in replay[c].todo, out'[c] = Append(out[c], x),
             replay'[c] = [replay[c] EXCEPT !.todo = @ \ {x}]
      PROVE  OnItsWay(c, r)'
  <2>1. x \in Nat
    BY Zenon, <1>0 DEF Replay
  <2>2. InQueue(out[c], r) \/ r = x => InQueue(Append(out[c], x), r)
    BY Zenon, <1>0, <2>1, StaysQueued
  <2>3. InQueue(out[c], r) \/ r = x => InQueue(out'[c], r)
    BY Zenon, <1>3, <2>2
  <2>4. replay'[c].todo = replay[c].todo \ {x}
    BY <1>0, <1>3 DEF Replay
  <2> QED
    BY Zenon, <1>1, <2>3, <2>4 DEF OnItsWay, InQueue
<1>4. \/ replay[c].todo = {} /\ out'[c] = Append(out[c], SyncComplete)
      \/ \E x \in replay[c].todo :
           /\ out'[c] = Append(out[c], x)
           /\ replay'[c] = [replay[c] EXCEPT !.todo = @ \ {x}]
  BY Zenon, <1>0 DEF ReplaySend
<1> QED
  BY Zenon, <1>2, <1>3, <1>4

\* A connection that has just resumed has not read the log yet.
LEMMA ResumeStage ==
  ASSUME Typed, NEW c \in Conn, Resume(c)
  PROVE  replay'[c].stage = "identified"
<1>1. \E s : replay'[c] = [stage |-> "identified", todo |-> {}, since |-> s]
  BY Zenon DEF Typed, Resume
<1> QED
  BY <1>1

\* A step of a connection loses no revision: another connection's leaves c
\* alone, and c's own moves a revision from one place on the way to the next.
LEMMA ConnDelivers ==
  ASSUME ResumeFrom = "zero", Typed, Books, EveryRevisionOnItsWay,
         NEW d \in Conn, ConnStep(d)
  PROVE  EveryRevisionOnItsWay'
<1>1. log' = log /\ bus' = bus /\ hstate' = hstate /\ hrev' = hrev
  BY Zenon, ConnKeeps
<1>2. Orphans' = Orphans /\ \A o : OwnerRevs(o)' = OwnerRevs(o)
  BY Zenon, <1>1 DEF Orphans, OwnerRevs
<1> SUFFICES ASSUME NEW c \in Conn, Attached(c)',
                    NEW r \in OwnerRevs(Owned(c)), r \notin Orphans
             PROVE  OnItsWay(c, r)'
  BY Zenon, <1>2 DEF EveryRevisionOnItsWay, Owned
<1>3. Attached(c) => OnItsWay(c, r)
  BY Zenon DEF EveryRevisionOnItsWay
<1>4. r # SyncComplete
  <2>1. r \in 1..Len(log)
    BY Zenon DEF OwnerRevs
  <2> QED
    BY <2>1 DEF SyncComplete
<1>5. CASE c # d
  <2>1. Same(c)
    BY Zenon, <1>5, OtherSame
  <2>2. Attached(c)
    BY Zenon, <2>1 DEF Same, Attached
  <2>3. have[ClientOf[c]] \subseteq have'[ClientOf[c]]
    BY Zenon, HaveGrows
  <2> QED
    BY Zenon, <1>1, <1>3, <2>1, <2>2, <2>3 DEF Same, OnItsWay
<1>6. CASE c = d
  <2>1. ~Connect(c)
    BY Zenon DEF Connect, Attached, Books, ConnectionsFit
  <2>2. ~Resume(c)
    BY Zenon, ResumeStage DEF Attached
  <2>3. ~LinkLost(c) /\ ~Close(c)
    BY Zenon DEF LinkLost, Close, Attached
  <2>4. ~StopReading(c)
    <3>1. conn \in [Conn -> {"new", "open", "closing", "closed"}]
      BY Zenon DEF Typed
    <3> QED
      BY Zenon, <3>1 DEF StopReading, Attached
  <2>5. ~WriteFails(c)
    BY Zenon DEF WriteFails, Attached
  <2>6. ~ReplayFails(c)
    BY Zenon DEF ReplayFails, Attached, Books, ConnectionsFit
  <2>7. CASE ForwardReceive(c)
    <3>1. Attached(c)
      BY Zenon, <2>7 DEF ForwardReceive, Attached
    <3> QED
      BY Zenon, <1>3, <2>7, <3>1, ReceiveKeepsWay
  <2>8. CASE ForwardSend(c)
    <3>1. Attached(c)
      BY Zenon, <2>8 DEF ForwardSend, Attached
    <3> QED
      BY Zenon, <1>3, <2>8, <3>1, SendKeepsWay
  <2>9. CASE Write(c)
    <3>1. Attached(c)
      BY Zenon, <2>9 DEF Write, Attached
    <3> QED
      BY Zenon, <1>3, <1>4, <2>9, <3>1, WriteKeepsWay
  <2>10. CASE ReplayQuery(c)
    BY Zenon, <2>10, QueryFindsIt
  <2>11. CASE ReplaySend(c)
    <3>1. Attached(c)
      BY Zenon, <2>11 DEF ReplaySend, Attached
    <3> QED
      BY Zenon, <1>3, <2>11, <3>1, ReplaySendKeepsWay
  <2> QED
    BY Zenon, <1>6, <2>1, <2>2, <2>3, <2>4, <2>5, <2>6, <2>7, <2>8, <2>9, <2>10, <2>11
       DEF ConnStep
<1> QED
  BY Zenon, <1>5, <1>6

\* A step of a handler loses no revision: what it commits it still has to
\* publish, and what it publishes is ahead of every forwarder.
LEMMA HandlerDelivers ==
  ASSUME Typed, Books, EveryRevisionOnItsWay, NEW h \in Handler, HandlerStep(h)
  PROVE  EveryRevisionOnItsWay'
<1>0. /\ hstate \in [Handler -> {"idle", "running"} \cup Committed]
      /\ hrev \in [Handler -> Nat]
  BY Zenon DEF Typed
<1>1. /\ conn' = conn /\ link' = link /\ lagged' = lagged /\ identified' = identified
      /\ replay' = replay /\ cursor' = cursor /\ held' = held /\ have' = have
  BY Zenon DEF HandlerStep, Request, Background, Commit, SendOwn, Publish, connVars
<1>2. \A g \in Handler : g # h => hstate'[g] = hstate[g] /\ hrev'[g] = hrev[g]
  BY Zenon, <1>0 DEF HandlerStep, Request, Background, Commit, SendOwn, Publish
<1>3. hstate[h] # "failed"
  BY Zenon DEF HandlerStep, Request, Background, Commit, SendOwn, Publish
<1>4. Orphans \subseteq Orphans'
  BY Zenon, <1>2, <1>3 DEF Orphans
<1> SUFFICES ASSUME NEW c \in Conn, Attached(c)',
                    NEW r, r \in OwnerRevs(Owned(c))', r \notin Orphans'
             PROVE  OnItsWay(c, r)'
  BY Zenon DEF EveryRevisionOnItsWay
<1>5. r \in OwnerRevs(Owned(c)) => OnItsWay(c, r)
  BY Zenon, <1>1, <1>4 DEF EveryRevisionOnItsWay, Attached
<1>6. ~Commit(h) => r \in OwnerRevs(Owned(c))
  BY Zenon DEF HandlerStep, Request, Background, SendOwn, Publish, OwnerRevs, Owned
<1>7. CASE \/ \E d \in Conn : Request(h, d)
           \/ Background(h)
  <2>1. /\ bus' = bus /\ out' = out /\ ~Commit(h)
        /\ hstate[h] \notin {"committed", "sent"}
    BY Zenon, <1>7 DEF Request, Background, Commit, connVars
  <2> QED
    BY Zenon, <1>1, <1>2, <1>5, <1>6, <2>1 DEF OnItsWay
<1>8. CASE Commit(h)
  <2>1. bus' = bus /\ out' = out /\ hstate[h] \notin {"committed", "sent"}
    BY Zenon, <1>8 DEF Commit, connVars
  <2>2. /\ hstate'[h] = "committed" /\ hrev'[h] = Len(log')
        /\ log' = Append(log, howner[h]) /\ log \in Seq(Owner) /\ howner[h] \in Owner
    BY Zenon, <1>0, <1>8 DEF Commit, Typed
  <2>3. CASE r = Len(log')
    BY Zenon, <2>2, <2>3 DEF OnItsWay
  <2>4. CASE r # Len(log')
    <3>1. r \in 1..Len(log') /\ log'[r] = Owned(c)
      BY Zenon DEF OwnerRevs, Owned
    <3>2. r \in 1..Len(log) /\ log[r] = log'[r]
      BY <2>2, <2>4, <3>1
    <3>3. r \in OwnerRevs(Owned(c))
      BY Zenon, <3>1, <3>2 DEF OwnerRevs
    <3> QED
      BY Zenon, <1>1, <1>2, <1>5, <2>1, <3>3 DEF OnItsWay
  <2> QED
    BY Zenon, <2>3, <2>4
<1>9. CASE SendOwn(h)
  <2>1. /\ bus' = bus /\ ~Commit(h) /\ hrev' = hrev
        /\ hstate'[h] = "sent" \/ hstate'[h] = "failed"
    BY Zenon, <1>0, <1>9 DEF SendOwn, Commit
  <2>2. hrev[h] = r => hstate'[h] = "sent"
    BY Zenon, <2>1 DEF Orphans
  <2>3. InQueue(out[c], r) => InQueue(out'[c], r)
    <3>1. out \in [Conn -> Seq(Nat)] /\ out[c] \in Seq(Nat) /\ hrev[h] \in Nat
      BY Zenon DEF Typed
    <3>2. out'[c] = out[c] \/ out'[c] = Append(out[c], hrev[h])
      BY Zenon, <1>9, <3>1 DEF SendOwn
    <3>3. InQueue(out[c], r) => InQueue(Append(out[c], hrev[h]), r)
      BY Zenon, <3>1, StaysQueued
    <3> QED
      BY Zenon, <3>2, <3>3
  <2> QED
    BY Zenon, <1>1, <1>2, <1>5, <1>6, <2>1, <2>2, <2>3 DEF OnItsWay, InQueue
<1>10. CASE Publish(h)
  <2> DEFINE e == [rev |-> hrev[h], origin |-> horigin[h]]
  <2>1. bus' = Append(bus, e) /\ out' = out /\ ~Commit(h) /\ bus \in Seq(Event)
    <3>1. bus' = Append(bus, e) /\ out' = out /\ hstate[h] # "running"
      BY Zenon, <1>10 DEF Publish, connVars
    <3> QED
      BY Zenon, <3>1 DEF Commit, Typed
  <2>2. e \in Event /\ e.rev = hrev[h]
    <3>1. hrev[h] \in Nat /\ horigin[h] \in Conn \cup {NoConn}
      BY Zenon DEF Typed
    <3> QED
      BY <3>1 DEF Event
  <2>3. /\ Len(bus) \in Nat /\ Len(bus') = Len(bus) + 1
        /\ bus'[Len(bus) + 1].rev = hrev[h]
        /\ \A i \in 1..Len(bus) : bus'[i] = bus[i]
    <3> HIDE DEF e
    <3> QED
      BY Zenon, <2>1, <2>2, AppendEvent
  <2>4. cursor[c] \in Nat /\ cursor[c] <= Len(bus)
    BY Zenon DEF Typed, Books, ConnectionsFit
  <2>5. CASE r = hrev[h]
    <3>1. Len(bus) + 1 \in (cursor[c] + 1)..Len(bus')
      BY <2>3, <2>4
    <3> QED
      BY Zenon, <1>1, <2>3, <2>5, <3>1 DEF OnItsWay
  <2>6. CASE r # hrev[h]
    <3>1. ASSUME NEW i \in (cursor[c] + 1)..Len(bus)
          PROVE  i \in (cursor[c] + 1)..Len(bus') /\ bus'[i] = bus[i]
      <4>1. i \in (cursor[c] + 1)..Len(bus') /\ i \in 1..Len(bus)
        BY <2>3, <2>4
      <4> QED
        BY Zenon, <2>3, <4>1
    <3> QED
      BY Zenon, <1>1, <1>2, <1>5, <1>6, <2>1, <2>6, <3>1 DEF OnItsWay
  <2> QED
    BY Zenon, <2>5, <2>6
<1> QED
  BY Zenon, <1>7, <1>8, <1>9, <1>10 DEF HandlerStep

\* Every step keeps every revision on its way.
LEMMA DeliveryStep ==
  ASSUME ResumeFrom = "zero", Typed, Books, EveryRevisionOnItsWay, [Next]_vars
  PROVE  EveryRevisionOnItsWay'
<1>1. CASE UNCHANGED vars
  <2>1. /\ conn' = conn /\ link' = link /\ lagged' = lagged /\ identified' = identified
        /\ replay' = replay /\ cursor' = cursor /\ held' = held /\ have' = have
        /\ log' = log /\ bus' = bus /\ out' = out /\ hstate' = hstate /\ hrev' = hrev
    BY Zenon, <1>1 DEF vars, connVars, handlerVars
  <2>2. Orphans' = Orphans /\ \A o : OwnerRevs(o)' = OwnerRevs(o)
    BY Zenon, <2>1 DEF Orphans, OwnerRevs
  <2>3. \A c \in Conn : Attached(c)' => Attached(c)
    BY Zenon, <2>1 DEF Attached
  <2>4. ASSUME NEW c \in Conn, NEW r, OnItsWay(c, r) PROVE OnItsWay(c, r)'
    BY Zenon, <2>1, <2>4 DEF OnItsWay
  <2> QED
    BY Zenon, <2>2, <2>3, <2>4 DEF EveryRevisionOnItsWay, Owned
<1> QED
  BY Zenon, <1>1, StepKinds, ConnDelivers, HandlerDelivers

-----------------------------------------------------------------------------
(* The theorems.                                                           *)

\* What NoForeignRevision rests on is inductive: the types, the relations of
\* Books, and that everything under way to a client belongs to its account.
THEOREM DeltaSyncInvariant ==
  Spec => [](Typed /\ Books /\ OnlyOwnUnderWay)
<1>1. Init => Typed /\ Books /\ OnlyOwnUnderWay
  <2>1. Init => OnlyOwnUnderWay
    BY ConstantsAssumption DEF Init, OnlyOwnUnderWay, InQueue, NoReplay
  <2> QED
    BY Zenon, <2>1, BooksInit
<1>2. Typed /\ Books /\ OnlyOwnUnderWay /\ [Next]_vars
      => (Typed /\ Books /\ OnlyOwnUnderWay)'
  BY Zenon, TypedStep, BooksStep, OwnStep
<1> QED
  BY <1>1, <1>2, PTL DEF Spec

\* Every committed revision of an account is, for each of its attached
\* connections, already at the client, queued, being replayed, on the
\* broadcast channel or with a handler that will still publish it, unless
\* its handler failed to send its own delta (send_delta!'s early return):
\* the hand-over between the Resume replay and the live forwarder, and
\* the forwarder's skipping of the origin's own events, lose nothing.  It is
\* said of clients that resume from revision 0, as chatty-gui does: one that
\* resumes from its last revision never asks for an earlier one it missed.
THEOREM NoRevisionLost ==
  ASSUME ResumeFrom = "zero"
  PROVE  Spec => []EveryRevisionOnItsWay
<1>1. Spec => [](Typed /\ Books /\ OnlyOwnUnderWay)
  BY DeltaSyncInvariant
<1>2. Init => EveryRevisionOnItsWay
  BY DEF Init, EveryRevisionOnItsWay, Attached
<1>3. /\ Typed /\ Books /\ OnlyOwnUnderWay /\ EveryRevisionOnItsWay /\ [Next]_vars
      => EveryRevisionOnItsWay'
  BY Zenon, DeliveryStep
<1> QED
  BY <1>1, <1>2, <1>3, PTL DEF Spec

\* No client ever receives a revision of another account, wherever it resumes
\* from: the forwarder's owner test, the replay's WHERE clause and send_delta!
\* all keep to it.
THEOREM NoForeignRevision ==
  Spec => []OnlyOwnRevisions
<1>1. Spec => [](Typed /\ Books /\ OnlyOwnUnderWay)
  BY DeltaSyncInvariant
<1>2. OnlyOwnUnderWay => OnlyOwnRevisions
  BY DEF OnlyOwnUnderWay, OnlyOwnRevisions
<1> QED
  BY <1>1, <1>2, PTL

-----------------------------------------------------------------------------
(* Frames: the invariant.                                                  *)

\* Where the read under way stands in its frame.
Offset == IF reading.phase = "header" THEN reading.got ELSE HeaderLen + reading.got

\* The read under way is of a header, or of the payload of the next frame.
ReadingFits ==
  /\ reading \in [phase : {"header", "payload"}, got : Nat, need : Nat, frame : Nat]
  /\ reading.got < reading.need
  /\ \/ reading.phase = "header" /\ reading.need = HeaderLen
     \/ reading.phase = "payload" /\ reading.need = PayloadLen /\ reading.frame = Len(received) + 1

\* The bytes consumed are the frames received and the part of the next one.
InStep ==
  /\ sent \in Nat /\ received \in Seq(Nat) /\ open /\ FramesIntact
  /\ ReadingFits
  /\ pos = Len(received) * FrameLen + Offset

WireInv == ~torn => InStep

-----------------------------------------------------------------------------
(* Frames: arithmetic and sequences.                                       *)

\* Where frame k + 1 begins.
LEMMA FrameBegins ==
  ASSUME NEW k \in Nat
  PROVE  /\ FrameLen \in Nat \ {0} /\ k * FrameLen \in Nat
         /\ (k * FrameLen) % FrameLen = 0 /\ (k * FrameLen) \div FrameLen = k
         /\ (k + 1) * FrameLen = k * FrameLen + FrameLen
<1>1. PICK F \in Nat \ {0} : F = FrameLen
  BY FramingAssumption DEF FrameLen
<1>2. k * F \in Nat /\ (k + 1) * F = k * F + F
  OBVIOUS
<1>3. (k * F) % F = 0
  OBVIOUS
<1>4. (k * F) \div F = k
  OBVIOUS
<1> QED
  BY Zenon, <1>1, <1>2, <1>3, <1>4

\* The frames received are the first ones, and the next is the next.
LEMMA NextIsReceived ==
  ASSUME NEW c \in Seq(Nat), \A i \in DOMAIN c : c[i] = i, NEW d, d = Append(c, Len(c) + 1)
  PROVE  d \in Seq(Nat) /\ Len(d) = Len(c) + 1 /\ \A i \in DOMAIN d : d[i] = i
  OBVIOUS

\* There are so many frames received.
LEMMA ReceivedLength ==
  ASSUME NEW c \in Seq(Nat)
  PROVE  Len(c) \in Nat
  OBVIOUS

\* At the beginning of a frame nothing of it is read.
LEMMA HeaderFacts ==
  /\ AtHeader.phase = "header" /\ AtHeader.got = 0 /\ AtHeader.need = HeaderLen
  /\ AtHeader \in [phase : {"header", "payload"}, got : Nat, need : Nat, frame : Nat]
  /\ 0 < HeaderLen
  BY FramingAssumption DEF AtHeader

-----------------------------------------------------------------------------
(* Frames: the steps.                                                      *)

\* read_payload, or a header without payload, hands over the next frame.
LEMMA DeliveryKeeps ==
  ASSUME InStep, Deliver(Len(received) + 1), UNCHANGED <<sent, open>>,
         pos' = Len(received) * FrameLen + FrameLen
  PROVE  InStep'
<1>1. PICK k \in Nat : k = Len(received)
  BY Zenon, ReceivedLength DEF InStep
<1>2. received' \in Seq(Nat) /\ Len(received') = k + 1 /\ FramesIntact'
  BY Zenon, <1>1, NextIsReceived DEF InStep, FramesIntact, Deliver
<1>3. reading' = AtHeader
  BY Zenon DEF Deliver
<1>4. ReadingFits' /\ Offset' = 0
  BY Zenon, <1>3, HeaderFacts DEF ReadingFits, Offset
<1>5. pos' = k * FrameLen + FrameLen /\ (k + 1) * FrameLen \in Nat
  <2>1. k + 1 \in Nat
    OBVIOUS
  <2> QED
    BY Zenon, <1>1, <2>1, FrameBegins
<1>6. pos' = (k + 1) * FrameLen
  BY Zenon, <1>5, FrameBegins
<1>7. pos' = (k + 1) * FrameLen + 0
  BY <1>5, <1>6
<1>8. sent' \in Nat /\ open'
  BY Zenon DEF InStep
<1>9. pos' = Len(received') * FrameLen + Offset'
  BY Zenon, <1>2, <1>4, <1>7
<1>10. FrameLen' = FrameLen
  BY Zenon DEF FrameLen
<1> QED
  BY Zenon, <1>2, <1>4, <1>8, <1>9, <1>10 DEF InStep

\* A read of n bytes, whatever it completes.
LEMMA ReadKeeps ==
  ASSUME InStep, Read
  PROVE  InStep' /\ torn' = torn
<1>1. PICK n \in 1..Readable :
        \/ ReadPart(n)
        \/ \E len \in 0..PayloadLen + 1 : ReadHeader(n, len)
        \/ RefuseHeader(n)
        \/ ReadPayload(n)
  BY Zenon DEF Read
<1>2. PICK k \in Nat : k = Len(received)
  BY Zenon, ReceivedLength DEF InStep
<1>3. PICK g \in Nat, m \in Nat : g = reading.got /\ m = reading.need /\ g < m
  <2>1. reading.need \in Nat
    BY Zenon, FramingAssumption DEF InStep, ReadingFits
  <2> QED
    BY Zenon, <2>1 DEF InStep, ReadingFits
<1>4. PICK b \in Nat : b = k * FrameLen
  BY Zenon, FrameBegins
<1>5. PICK h \in Nat, q \in Nat : h = HeaderLen /\ q = PayloadLen /\ FrameLen = h + q /\ h # 0
  BY Zenon, FramingAssumption DEF FrameLen
<1>6. pos \in Nat /\ sent \in Nat
  <2>1. Offset \in Nat
    BY <1>3, <1>5 DEF Offset
  <2>2. pos = b + Offset
    BY Zenon, <1>2, <1>4 DEF InStep
  <2> QED
    BY <2>1, <2>2 DEF InStep
<1>7. n \in Nat /\ n > 0 /\ g + n \in Nat /\ (g + n >= m => g + n = m)
  <2>1. n \in 1..(IF sent - pos < m - g THEN sent - pos ELSE m - g)
    BY Zenon, <1>3 DEF Readable
  <2>2. \A s, p \in Nat : n \in 1..(IF s - p < m - g THEN s - p ELSE m - g) =>
          n \in Nat /\ n > 0 /\ g + n \in Nat /\ (g + n >= m => g + n = m)
    BY <1>3
  <2> QED
    BY Zenon, <1>6, <2>1, <2>2
<1>8. CASE ReadPart(n)
  <2>1. /\ UNCHANGED <<sent, received, open, torn>> /\ g + n < m /\ pos' = pos + n
        /\ reading' = [reading EXCEPT !.got = g + n]
    BY Zenon, <1>3, <1>8 DEF ReadPart
  <2>2. /\ reading' \in [phase : {"header", "payload"}, got : Nat, need : Nat, frame : Nat]
        /\ reading'.got = g + n /\ reading'.need = m
        /\ reading'.phase = reading.phase /\ reading'.frame = reading.frame
    <3>1. reading \in [phase : {"header", "payload"}, got : Nat, need : Nat, frame : Nat]
      BY Zenon DEF InStep, ReadingFits
    <3> QED
      BY <1>3, <1>7, <2>1, <3>1
  <2>3. Len(received') = Len(received)
    BY Zenon, <2>1
  <2>4. ReadingFits'
    BY Zenon, <1>3, <2>1, <2>2, <2>3 DEF InStep, ReadingFits
  <2>5. Offset' = Offset + n /\ Offset \in Nat
    <3>1. Offset = (IF reading.phase = "header" THEN g ELSE h + g)
      BY Zenon, <1>3, <1>5 DEF Offset
    <3>2. Offset' = (IF reading.phase = "header" THEN g + n ELSE h + (g + n))
      BY Zenon, <1>5, <2>2 DEF Offset
    <3> QED
      BY <1>7, <3>1, <3>2
  <2>6. pos' = b + Offset'
    <3>1. pos = b + Offset
      BY Zenon, <1>2, <1>4 DEF InStep
    <3> QED
      BY <1>7, <2>1, <2>5, <3>1
  <2>7. FramesIntact' /\ FrameLen' = FrameLen
    BY Zenon, <2>1 DEF InStep, FramesIntact, FrameLen
  <2> QED
    BY Zenon, <1>2, <1>4, <2>1, <2>3, <2>4, <2>6, <2>7 DEF InStep
<1>9. CASE RefuseHeader(n) \/ \E len \in 0..PayloadLen + 1 : ReadHeader(n, len)
  <2>1. reading.phase = "header" /\ g + n >= m
    BY Zenon, <1>3, <1>9 DEF RefuseHeader, ReadHeader
  <2>2. m = h /\ g + n = h /\ pos = b + g
    <3>1. reading.phase # "payload"
      BY <2>1
    <3>2. pos = b + Offset /\ Offset = g /\ m = h
      BY Zenon, <1>2, <1>3, <1>4, <1>5, <2>1, <3>1 DEF InStep, ReadingFits, Offset
    <3> QED
      BY Zenon, <1>7, <2>1, <3>2
  <2>3. pos - reading.got = b
    BY <1>3, <2>2
  <2>4. (pos - reading.got) % FrameLen = 0 /\ (pos - reading.got) \div FrameLen + 1 = k + 1
    BY Zenon, <1>4, <2>3, FrameBegins
  <2>5. PICK len \in 0..PayloadLen + 1 : ReadHeader(n, len)
    BY Zenon, <1>9, <2>4 DEF RefuseHeader
  <2>6. len = q /\ pos' = pos + n /\ UNCHANGED <<sent, open, torn>>
    BY Zenon, <1>5, <2>4, <2>5 DEF ReadHeader
  <2>7. pos' = b + h
    BY <1>7, <2>2, <2>6
  <2>8. CASE q = 0
    <3>1. Deliver(Len(received) + 1)
      BY Zenon, <1>2, <2>4, <2>5, <2>6, <2>8 DEF ReadHeader
    <3>2. b + h = b + FrameLen
      BY <1>5, <2>8
    <3>3. pos' = Len(received) * FrameLen + FrameLen
      BY Zenon, <1>2, <1>4, <2>7, <3>2
    <3> QED
      BY Zenon, <2>6, <3>1, <3>3, DeliveryKeeps
  <2>9. CASE q # 0
    <3>1. /\ reading' = [phase |-> "payload", got |-> 0, need |-> q, frame |-> k + 1]
          /\ received' = received
      BY Zenon, <2>4, <2>5, <2>6, <2>9 DEF ReadHeader
    <3>2. /\ reading' \in [phase : {"header", "payload"}, got : Nat, need : Nat, frame : Nat]
          /\ reading'.got = 0 /\ reading'.need = q /\ 0 < q
          /\ reading'.phase = "payload" /\ reading'.phase # "header" /\ reading'.frame = k + 1
      BY <2>9, <3>1
    <3>3. ReadingFits'
      BY Zenon, <1>2, <1>5, <3>1, <3>2 DEF ReadingFits
    <3>4. Offset' = h + 0 /\ h + 0 = h
      <4>1. Offset' = h + 0
        BY Zenon, <1>5, <3>2 DEF Offset
      <4> QED
        BY <4>1
    <3>5. FramesIntact' /\ FrameLen' = FrameLen
      BY Zenon, <3>1 DEF InStep, FramesIntact, FrameLen
    <3> QED
      BY Zenon, <1>2, <1>4, <2>6, <2>7, <3>1, <3>3, <3>4, <3>5 DEF InStep
  <2> QED
    BY Zenon, <2>8, <2>9
<1>10. CASE ReadPayload(n)
  <2>1. /\ reading.phase = "payload" /\ g + n >= m /\ Deliver(reading.frame) /\ pos' = pos + n
        /\ UNCHANGED <<sent, open, torn>>
    BY Zenon, <1>3, <1>10 DEF ReadPayload
  <2>2. reading.phase # "header"
    BY <2>1
  <2>3. reading.frame = Len(received) + 1 /\ m = q /\ pos = b + (h + g)
    BY Zenon, <1>2, <1>3, <1>4, <1>5, <2>2 DEF InStep, ReadingFits, Offset
  <2>4. g + n = q
    BY Zenon, <1>7, <2>1, <2>3
  <2>5. pos' = b + FrameLen
    BY <1>5, <1>7, <2>1, <2>3, <2>4
  <2>6. Deliver(Len(received) + 1) /\ pos' = Len(received) * FrameLen + FrameLen
    BY Zenon, <1>2, <1>4, <2>1, <2>3, <2>5
  <2> QED
    BY Zenon, <2>1, <2>6, DeliveryKeeps
<1> QED
  BY Zenon, <1>1, <1>8, <1>9, <1>10

\* A whole frame is written; a read that is dropped had consumed nothing, or
\* tears the stream.
LEMMA WireStep ==
  ASSUME WireInv, [WireNext]_wireVars
  PROVE  WireInv'
<1> SUFFICES ASSUME ~torn'
             PROVE  InStep'
  BY Zenon DEF WireInv
<1>1. FrameLen' = FrameLen /\ AtHeader' = AtHeader
  BY Zenon DEF FrameLen, AtHeader
<1>2. CASE UNCHANGED <<pos, reading, received, open>> /\ sent' \in Nat /\ ~torn
  BY Zenon, <1>1, <1>2 DEF WireInv, InStep, ReadingFits, Offset, FramesIntact
<1>3. CASE UNCHANGED wireVars
  <2>1. UNCHANGED <<pos, reading, received, open, sent, torn>>
    BY Zenon, <1>3 DEF wireVars
  <2> QED
    BY Zenon, <1>2, <2>1 DEF WireInv, InStep
<1>4. CASE WriteFrame
  <2>1. UNCHANGED <<pos, reading, received, open, torn>> /\ sent' = sent + FrameLen
    BY Zenon, <1>4 DEF WriteFrame
  <2>2. sent \in Nat /\ FrameLen \in Nat
    BY Zenon, <2>1, FramingAssumption, FrameBegins DEF WireInv, InStep
  <2>3. sent' \in Nat
    BY <2>1, <2>2
  <2> QED
    BY Zenon, <1>2, <2>1, <2>3
<1>5. CASE Interrupt
  <2>1. ~torn /\ reading = AtHeader /\ reading' = AtHeader /\ UNCHANGED <<sent, pos, received, open>>
    BY Zenon, <1>5 DEF Interrupt
  <2> QED
    BY Zenon, <1>2, <2>1 DEF WireInv, InStep
<1>6. CASE Read
  <2>1. torn' = torn
    BY Zenon, <1>6 DEF Read, ReadPart, ReadHeader, RefuseHeader, ReadPayload
  <2> QED
    BY Zenon, <1>6, <2>1, ReadKeeps DEF WireInv
<1> QED
  BY Zenon, <1>3, <1>4, <1>5, <1>6 DEF WireNext

\* read_frame of chatty-protocol: as long as no select has dropped a read that
\* had consumed bytes, the reader stands where the frames it has received end,
\* plus what it has read of the next.
THEOREM WireInvariant == WireSpec => []WireInv
<1>1. WireInit => WireInv
  <2> SUFFICES ASSUME WireInit
               PROVE  InStep
    BY Zenon DEF WireInv
  <2>1. received = <<>> /\ received \in Seq(Nat) /\ Len(received) = 0 /\ FramesIntact
    BY DEF WireInit, FramesIntact
  <2>2. sent \in Nat
    BY DEF WireInit
  <2>3. reading = AtHeader /\ open /\ pos = 0
    BY Zenon DEF WireInit
  <2>4. ReadingFits /\ Offset = 0
    BY Zenon, <2>3, HeaderFacts DEF ReadingFits, Offset
  <2>5. FrameLen \in Nat
    BY FramingAssumption DEF FrameLen
  <2>6. 0 * FrameLen + 0 = 0
    BY <2>5
  <2> QED
    BY Zenon, <2>1, <2>2, <2>3, <2>4, <2>6 DEF InStep
<1>2. WireInv /\ [WireNext]_wireVars => WireInv'
  BY WireStep
<1> QED
  BY <1>1, <1>2, PTL DEF WireSpec

\* However the stream is cut into pieces, the frames received are those sent,
\* in order, and the connection stays open, unless a select dropped a read
\* that had consumed bytes.
THEOREM FramesStayIntact == WireSpec => []IntactUnlessTorn
<1>1. WireInv => IntactUnlessTorn
  BY Zenon DEF WireInv, InStep, IntactUnlessTorn
<1> QED
  BY <1>1, WireInvariant, PTL

-----------------------------------------------------------------------------
(* Speech                                                                  *)

\* The utterance u waits in the command channel.
Queued(u) == \E i \in 1..Len(channel) : channel[i] = u

\* Commands up to n, in order.
Ascending(c, n) ==
  /\ \A i \in 1..Len(c) : c[i] <= n
  /\ \A i, j \in 1..Len(c) : i < j => c[i] < c[j]

SpeechTyped ==
  /\ id \in Nat /\ sink \in 0..MaxSpeech /\ saying \in Nat /\ channel \in Seq(1..MaxSpeech)
  /\ sound \in [1..MaxSpeech -> Nat]
  /\ at \in {"recv", "load", "sink", "chunk", "made"}

\* Commands are received in the order they were given, each once.
ChannelAscends == Ascending(channel, id)

\* While the current utterance waits or is worked on, the client shows it so;
\* it is not in the channel a second time, and its sink is set before its
\* first chunk.
WorkIsShown ==
  /\ Queued(id) => busy
  /\ saying <= id /\ (at # "recv" => saying \in 1..MaxSpeech)
  /\ at # "recv" /\ saying = id => busy /\ ~Queued(id)
  /\ at \in {"chunk", "made"} /\ saying = id => sink = id

SpeechInv == SpeechTyped /\ ChannelAscends /\ WorkIsShown /\ OnlyTheLastIsHeard

-----------------------------------------------------------------------------
(* The channel.                                                            *)

\* What Append and Tail do to a channel.
LEMMA ChannelFacts ==
  ASSUME NEW c \in Seq(1..MaxSpeech)
  PROVE  /\ Len(c) \in Nat /\ \A i \in 1..Len(c) : c[i] \in Nat /\ c[i] \in 1..MaxSpeech
         /\ \A x \in 1..MaxSpeech :
              /\ Append(c, x) \in Seq(1..MaxSpeech) /\ Len(Append(c, x)) = Len(c) + 1
              /\ Append(c, x)[Len(c) + 1] = x
              /\ \A i \in 1..Len(c) : Append(c, x)[i] = c[i]
         /\ c # <<>> =>
              /\ Tail(c) \in Seq(1..MaxSpeech) /\ Len(Tail(c)) = Len(c) - 1 /\ Len(c) # 0
              /\ \A i \in 1..Len(Tail(c)) : Tail(c)[i] = c[i + 1]
              /\ Head(c) = c[1]
<1>1. Len(c) \in Nat /\ \A i \in 1..Len(c) : c[i] \in Nat /\ c[i] \in 1..MaxSpeech
  BY SpeechAssumption
<1>2. ASSUME NEW x \in 1..MaxSpeech
      PROVE  /\ Append(c, x) \in Seq(1..MaxSpeech) /\ Len(Append(c, x)) = Len(c) + 1
             /\ Append(c, x)[Len(c) + 1] = x
             /\ \A i \in 1..Len(c) : Append(c, x)[i] = c[i]
  OBVIOUS
<1>3. ASSUME c # <<>>
      PROVE  /\ Tail(c) \in Seq(1..MaxSpeech) /\ Len(Tail(c)) = Len(c) - 1 /\ Len(c) # 0
             /\ \A i \in 1..Len(Tail(c)) : Tail(c)[i] = c[i + 1]
             /\ Head(c) = c[1]
  BY <1>3
<1> QED
  BY Zenon, <1>1, <1>2, <1>3

\* An order that gets a last element.
LEMMA AscendingGrows ==
  ASSUME NEW n \in Nat, NEW k \in Nat, NEW c, NEW d, Len(c) = k, Len(d) = k + 1,
         \A i \in 1..k : c[i] \in Nat /\ d[i] = c[i], d[k + 1] = n + 1, Ascending(c, n)
  PROVE  Ascending(d, n + 1)
<1>1. \A i \in 1..k : c[i] <= n
  BY Zenon DEF Ascending
<1>2. \A i, j \in 1..k : i < j => c[i] < c[j]
  BY Zenon DEF Ascending
<1>3. ASSUME NEW i \in 1..(k + 1)
      PROVE  d[i] <= n + 1
  BY <1>1
<1>4. ASSUME NEW i \in 1..(k + 1), NEW j \in 1..(k + 1), i < j
      PROVE  d[i] < d[j]
  <2>1. i \in 1..k
    BY <1>4
  <2>2. CASE j = k + 1
    BY <1>1, <2>1, <2>2
  <2>3. CASE j # k + 1
    BY <1>2, <1>4, <2>1, <2>3
  <2> QED
    BY Zenon, <2>2, <2>3
<1> QED
  BY Zenon, <1>3, <1>4 DEF Ascending

\* An order that loses its first element.
LEMMA AscendingShrinks ==
  ASSUME NEW n \in Nat, NEW k \in Nat, NEW c, NEW d, Len(c) = k + 1, Len(d) = k,
         \A i \in 1..k : d[i] = c[i + 1], Ascending(c, n)
  PROVE  Ascending(d, n) /\ \A i \in 1..k : c[1] < d[i]
<1>1. \A i \in 1..(k + 1) : c[i] <= n
  BY Zenon DEF Ascending
<1>2. \A i, j \in 1..(k + 1) : i < j => c[i] < c[j]
  BY Zenon DEF Ascending
<1>3. ASSUME NEW i \in 1..k
      PROVE  i + 1 \in 1..(k + 1) /\ 1 \in 1..(k + 1) /\ 1 < i + 1
  OBVIOUS
<1>4. ASSUME NEW i \in 1..k
      PROVE  d[i] <= n /\ c[1] < d[i]
  BY Zenon, <1>1, <1>2, <1>3
<1>5. ASSUME NEW i \in 1..k, NEW j \in 1..k, i < j
      PROVE  d[i] < d[j]
  <2>1. i + 1 < j + 1
    BY <1>5
  <2> QED
    BY Zenon, <1>2, <1>3, <2>1
<1> QED
  BY Zenon, <1>4, <1>5 DEF Ascending

\* A command is appended.
LEMMA ChannelGrows ==
  ASSUME SpeechInv, id' = id + 1, id < MaxSpeech, channel' = Append(channel, id')
  PROVE  channel' \in Seq(1..MaxSpeech) /\ ChannelAscends'
<1>1. id \in Nat /\ channel \in Seq(1..MaxSpeech) /\ Ascending(channel, id)
  BY Zenon DEF SpeechInv, SpeechTyped, ChannelAscends
<1>2. id + 1 \in 1..MaxSpeech
  BY <1>1, SpeechAssumption
<1>3. PICK d : d = Append(channel, id + 1)
  BY Zenon
<1>4. /\ d \in Seq(1..MaxSpeech) /\ Len(d) = Len(channel) + 1 /\ d[Len(channel) + 1] = id + 1
      /\ Len(channel) \in Nat /\ \A i \in 1..Len(channel) : channel[i] \in Nat /\ d[i] = channel[i]
  BY ZenonT(30), <1>1, <1>2, <1>3, ChannelFacts
<1>5. Ascending(d, id + 1)
  BY Zenon, <1>1, <1>4, AscendingGrows
<1> QED
  BY Zenon, <1>3, <1>4, <1>5 DEF ChannelAscends

\* The first command is taken; it is not there a second time.
LEMMA ChannelShrinks ==
  ASSUME SpeechInv, channel # <<>>, channel' = Tail(channel), id' = id
  PROVE  /\ channel' \in Seq(1..MaxSpeech) /\ ChannelAscends'
         /\ Head(channel) \in 1..MaxSpeech /\ Queued(Head(channel))
         /\ \A u : Queued(u)' => Queued(u) /\ u # Head(channel)
<1>1. id \in Nat /\ channel \in Seq(1..MaxSpeech) /\ Ascending(channel, id)
  BY Zenon DEF SpeechInv, SpeechTyped, ChannelAscends
<1>2. PICK d : d = Tail(channel)
  BY Zenon
<1>3. /\ Len(channel) \in Nat /\ \A i \in 1..Len(channel) : channel[i] \in Nat /\ channel[i] \in 1..MaxSpeech
      /\ d \in Seq(1..MaxSpeech) /\ Len(d) = Len(channel) - 1 /\ Len(channel) # 0
      /\ \A i \in 1..Len(d) : d[i] = channel[i + 1]
      /\ Head(channel) = channel[1]
  BY Zenon, <1>1, <1>2, ChannelFacts
<1>4. /\ Len(d) \in Nat /\ Len(channel) = Len(d) + 1 /\ 1 \in 1..Len(channel)
      /\ \A i \in 1..Len(d) : i + 1 \in 1..Len(channel)
  BY <1>3
<1>5. Ascending(d, id) /\ \A i \in 1..Len(d) : channel[1] < d[i]
  BY Zenon, <1>1, <1>3, <1>4, AscendingShrinks
<1>6. Head(channel) \in 1..MaxSpeech /\ Queued(Head(channel))
  BY Zenon, <1>3, <1>4 DEF Queued
<1>7. ASSUME NEW i \in 1..Len(d)
      PROVE  d[i] # Head(channel)
  <2>1. channel[1] \in Nat /\ channel[1] < d[i] /\ Head(channel) = channel[1]
    BY Zenon, <1>3, <1>4, <1>5
  <2> QED
    BY <2>1
<1>8. channel' = d
  BY Zenon, <1>2
<1>9. \A u : Queued(u)' => Queued(u) /\ u # Head(channel)
  BY Zenon, <1>3, <1>4, <1>7, <1>8 DEF Queued
<1> QED
  BY Zenon, <1>3, <1>5, <1>6, <1>8, <1>9 DEF ChannelAscends
-----------------------------------------------------------------------------
(* The sinks.                                                              *)

\* Nothing is heard.
Silent == \A u \in 1..MaxSpeech : sound[u] = 0

\* Silence breaks no promise.
LEMMA SilenceIsFine ==
  ASSUME NEW f \in [1..MaxSpeech -> Nat], \A u \in 1..MaxSpeech : f[u] = 0
  PROVE  \A u \in DOMAIN f : ~(f[u] > 0)
<1>1. ~(0 > 0)
  OBVIOUS
<1> QED
  BY Zenon, <1>1

\* Dropping the samples of the sink leaves nothing to be heard.
LEMMA SinkDropped ==
  ASSUME SpeechInv, sound' = [u \in DOMAIN sound |-> IF u = sink THEN 0 ELSE sound[u]]
  PROVE  sound' \in [1..MaxSpeech -> Nat] /\ Silent' /\ OnlyTheLastIsHeard'
<1>1. sound \in [1..MaxSpeech -> Nat] /\ \A u \in 1..MaxSpeech : sound[u] > 0 => u = sink
  BY Zenon DEF SpeechInv, SpeechTyped, OnlyTheLastIsHeard
<1>2. ASSUME NEW u \in 1..MaxSpeech
      PROVE  sound'[u] = 0
  <2>1. sound[u] \in Nat
    BY Zenon, <1>1
  <2>2. sound[u] > 0 \/ sound[u] = 0
    BY <2>1
  <2> QED
    BY Zenon, <1>1, <2>2
<1>3. DOMAIN sound = 1..MaxSpeech /\ 0 \in Nat
  BY <1>1
<1>4. sound' \in [1..MaxSpeech -> Nat]
  BY Zenon, <1>1, <1>3
<1> QED
  BY Zenon, <1>2, <1>4, SilenceIsFine DEF Silent, OnlyTheLastIsHeard

\* cancel_current: nothing is heard, and neither the worker nor the channel has
\* the new number.
LEMMA Cancelled ==
  ASSUME SpeechInv, CancelCurrent
  PROVE  /\ id' \in Nat /\ id' = id + 1 /\ sink' \in 0..MaxSpeech
         /\ sound' \in [1..MaxSpeech -> Nat] /\ OnlyTheLastIsHeard'
         /\ saying # id' /\ saying <= id' /\ ~Queued(id') /\ Ascending(channel, id')
<1>1. /\ id \in Nat /\ saying \in Nat /\ saying <= id /\ channel \in Seq(1..MaxSpeech)
      /\ Ascending(channel, id)
  BY Zenon DEF SpeechInv, SpeechTyped, WorkIsShown, ChannelAscends
<1>2. id' = id + 1 /\ sink' = 0
  BY Zenon DEF CancelCurrent
<1>3. id' \in Nat /\ saying # id' /\ saying <= id' /\ sink' \in 0..MaxSpeech
  BY <1>1, <1>2, SpeechAssumption
<1>4. Len(channel) \in Nat /\ \A i \in 1..Len(channel) : channel[i] \in Nat /\ channel[i] <= id
  BY Zenon, <1>1, ChannelFacts DEF Ascending
<1>5. \A i \in 1..Len(channel) : channel[i] # id' /\ channel[i] <= id'
  BY <1>1, <1>2, <1>4
<1>6. ~Queued(id') /\ Ascending(channel, id')
  BY Zenon, <1>1, <1>5 DEF Queued, Ascending
<1>7. sound' \in [1..MaxSpeech -> Nat] /\ OnlyTheLastIsHeard'
  BY Zenon, SinkDropped DEF CancelCurrent
<1> QED
  BY Zenon, <1>2, <1>3, <1>6, <1>7

-----------------------------------------------------------------------------
(* The user interface and the device.                                      *)

\* speak.
LEMMA SpeakKeeps ==
  ASSUME SpeechInv, Speak
  PROVE  SpeechInv'
<1>1. /\ id' \in Nat /\ id' = id + 1 /\ sink' \in 0..MaxSpeech
      /\ sound' \in [1..MaxSpeech -> Nat] /\ OnlyTheLastIsHeard'
      /\ saying # id' /\ saying <= id' /\ ~Queued(id') /\ Ascending(channel, id')
  BY Zenon, Cancelled DEF Speak
<1>2. /\ saying' = saying /\ at' = at /\ id < MaxSpeech
      /\ \/ channel' = Append(channel, id') /\ busy'
         \/ channel' = channel
  BY Zenon DEF Speak
<1>3. /\ saying \in Nat /\ channel \in Seq(1..MaxSpeech)
      /\ at \in {"recv", "load", "sink", "chunk", "made"}
      /\ at # "recv" => saying \in 1..MaxSpeech
  BY Zenon DEF SpeechInv, SpeechTyped, WorkIsShown
<1>4. channel' \in Seq(1..MaxSpeech) /\ ChannelAscends' /\ (Queued(id)' => busy')
  <2>1. CASE channel' = Append(channel, id') /\ busy'
    BY Zenon, <1>1, <1>2, <2>1, ChannelGrows
  <2>2. CASE channel' = channel
    BY Zenon, <1>1, <1>3, <2>2 DEF ChannelAscends, Queued
  <2> QED
    BY Zenon, <1>2, <2>1, <2>2
<1>5. SpeechTyped'
  BY Zenon, <1>1, <1>2, <1>3, <1>4 DEF SpeechTyped
<1>6. WorkIsShown'
  BY Zenon, <1>1, <1>2, <1>3, <1>4 DEF WorkIsShown
<1> QED
  BY Zenon, <1>1, <1>4, <1>5, <1>6 DEF SpeechInv

\* stop, and a worker that ends in a panic.
LEMMA StopKeeps ==
  ASSUME SpeechInv, StopSpeech \/ Panic
  PROVE  SpeechInv'
<1>1. /\ id' \in Nat /\ id' = id + 1 /\ sink' \in 0..MaxSpeech
      /\ sound' \in [1..MaxSpeech -> Nat] /\ OnlyTheLastIsHeard'
      /\ saying # id' /\ saying <= id' /\ ~Queued(id') /\ Ascending(channel, id')
  BY Zenon, Cancelled DEF StopSpeech, Panic
<1>2. saying' = saying /\ at' = at /\ (channel' = channel \/ channel' = <<>>)
  BY Zenon DEF StopSpeech, Panic
<1>3. /\ saying \in Nat /\ channel \in Seq(1..MaxSpeech)
      /\ at \in {"recv", "load", "sink", "chunk", "made"}
      /\ at # "recv" => saying \in 1..MaxSpeech
  BY Zenon DEF SpeechInv, SpeechTyped, WorkIsShown
<1>4. <<>> \in Seq(1..MaxSpeech) /\ \A i \in 1..Len(<<>>) : FALSE
  OBVIOUS
<1>5. channel' \in Seq(1..MaxSpeech) /\ ChannelAscends' /\ ~Queued(id)'
  <2>1. CASE channel' = channel
    BY Zenon, <1>1, <1>3, <2>1 DEF ChannelAscends, Queued
  <2>2. CASE channel' = <<>>
    BY Zenon, <1>4, <2>2 DEF ChannelAscends, Ascending, Queued
  <2> QED
    BY Zenon, <1>2, <2>1, <2>2
<1>6. SpeechTyped'
  BY Zenon, <1>1, <1>2, <1>3, <1>5 DEF SpeechTyped
<1>7. WorkIsShown'
  BY Zenon, <1>1, <1>2, <1>3, <1>5 DEF WorkIsShown
<1> QED
  BY Zenon, <1>1, <1>5, <1>6, <1>7 DEF SpeechInv

\* The audio device plays.
LEMMA PlayKeeps ==
  ASSUME SpeechInv, NEW u \in DOMAIN sound, Play(u)
  PROVE  SpeechInv'
<1>1. /\ sound \in [1..MaxSpeech -> Nat] /\ DOMAIN sound = 1..MaxSpeech
      /\ sound[u] > 0 /\ sound' = [sound EXCEPT ![u] = sound[u] - 1]
      /\ \A v \in 1..MaxSpeech : sound[v] > 0 => v = id /\ v = sink /\ busy
  BY Zenon DEF SpeechInv, SpeechTyped, OnlyTheLastIsHeard, Play
<1>2. sound[u] \in Nat
  BY Zenon, <1>1
<1>3. sound[u] - 1 \in Nat
  BY <1>1, <1>2
<1>4. sound' \in [1..MaxSpeech -> Nat]
  BY Zenon, <1>1, <1>3
<1>5. UNCHANGED <<id, busy, sink, channel, at, saying>>
  BY Zenon DEF Play
<1>6. OnlyTheLastIsHeard'
  BY Zenon, <1>1, <1>4, <1>5 DEF OnlyTheLastIsHeard
<1>7. SpeechTyped' /\ ChannelAscends' /\ WorkIsShown'
  BY Zenon, <1>4, <1>5 DEF SpeechInv, SpeechTyped, ChannelAscends, WorkIsShown, Queued
<1> QED
  BY Zenon, <1>6, <1>7 DEF SpeechInv
-----------------------------------------------------------------------------
(* The worker.                                                             *)

\* A command is received.
LEMMA ReceiveKeeps ==
  ASSUME SpeechInv, Recv
  PROVE  SpeechInv'
<1>1. /\ id \in Nat /\ sink \in 0..MaxSpeech /\ saying \in Nat
      /\ sound \in [1..MaxSpeech -> Nat] /\ at \in {"recv", "load", "sink", "chunk", "made"}
  BY Zenon DEF SpeechInv, SpeechTyped
<1>2. WorkIsShown /\ OnlyTheLastIsHeard
  BY Zenon DEF SpeechInv
<1>3. /\ at = "recv" /\ channel # <<>> /\ channel' = Tail(channel)
      /\ UNCHANGED <<id, busy, sink, sound>>
      /\ \/ Head(channel) = id /\ at' = "load" /\ saying' = id
         \/ at' = at /\ saying' = saying
  BY Zenon DEF Recv, Goto
<1>4. /\ channel' \in Seq(1..MaxSpeech) /\ ChannelAscends'
      /\ Head(channel) \in 1..MaxSpeech /\ Queued(Head(channel))
      /\ \A u : Queued(u)' => Queued(u) /\ u # Head(channel)
  BY Zenon, <1>3, ChannelShrinks
<1>5. PICK i : i = id
  BY Zenon
<1>6. Queued(id)' => Queued(i) /\ i # Head(channel)
  BY Zenon, <1>3, <1>4, <1>5
<1>7. Queued(id)' => busy'
  BY Zenon, <1>2, <1>3, <1>5, <1>6 DEF WorkIsShown
<1>8. OnlyTheLastIsHeard'
  BY Zenon, <1>2, <1>3 DEF OnlyTheLastIsHeard
<1>9. CASE Head(channel) = id /\ at' = "load" /\ saying' = id
  <2>1. SpeechTyped'
    BY Zenon, <1>1, <1>3, <1>4, <1>9 DEF SpeechTyped
  <2>2. ~Queued(id)' /\ busy'
    BY Zenon, <1>2, <1>3, <1>4, <1>5, <1>6, <1>9 DEF WorkIsShown
  <2>3. id <= id
    BY <1>1
  <2>4. at' \notin {"chunk", "made"}
    BY <1>9
  <2>5. WorkIsShown'
    BY ZenonT(30), <1>3, <1>4, <1>9, <2>2, <2>3, <2>4 DEF WorkIsShown
  <2> QED
    BY Zenon, <1>4, <1>8, <2>1, <2>5 DEF SpeechInv
<1>10. CASE at' = at /\ saying' = saying
  <2>1. SpeechTyped'
    BY Zenon, <1>1, <1>3, <1>4, <1>10 DEF SpeechTyped
  <2>2. at \notin {"chunk", "made"}
    BY <1>3
  <2>3. WorkIsShown'
    BY Zenon, <1>2, <1>3, <1>7, <1>10, <2>2 DEF WorkIsShown
  <2> QED
    BY Zenon, <1>4, <1>8, <2>1, <2>3 DEF SpeechInv
<1> QED
  BY Zenon, <1>3, <1>9, <1>10

\* The sink has run dry.
LEMMA IdledKeeps ==
  ASSUME SpeechInv, Idled
  PROVE  SpeechInv'
<1>1. /\ id \in Nat /\ sink \in 0..MaxSpeech /\ saying \in Nat /\ channel \in Seq(1..MaxSpeech)
      /\ sound \in [1..MaxSpeech -> Nat] /\ at \in {"recv", "load", "sink", "chunk", "made"}
      /\ \A u \in DOMAIN sound : sound[u] > 0 => u = sink
  BY Zenon DEF SpeechInv, SpeechTyped, OnlyTheLastIsHeard
<1>2. /\ at = "recv" /\ channel = <<>> /\ sink # 0 /\ sound[sink] = 0 /\ sink' = 0
      /\ UNCHANGED <<id, channel, at, saying, sound>>
  BY Zenon DEF Idled
<1>3. 0 \in 0..MaxSpeech /\ ~(0 > 0) /\ at \notin {"chunk", "made"}
      /\ \A i \in 1..Len(<<>>) : FALSE
  BY <1>2, SpeechAssumption
<1>4. SpeechTyped'
  BY Zenon, <1>1, <1>2, <1>3 DEF SpeechTyped
<1>5. OnlyTheLastIsHeard'
  BY Zenon, <1>1, <1>2, <1>3 DEF OnlyTheLastIsHeard
<1>6. ~Queued(id)' /\ saying <= id
  BY Zenon, <1>2, <1>3 DEF Queued, SpeechInv, WorkIsShown
<1>7. WorkIsShown'
  BY Zenon, <1>2, <1>3, <1>6 DEF WorkIsShown
<1>8. ChannelAscends'
  BY Zenon, <1>2 DEF SpeechInv, ChannelAscends
<1> QED
  BY Zenon, <1>4, <1>5, <1>7, <1>8 DEF SpeechInv

\* The worker goes on, or back to its channel when its utterance was replaced.
LEMMA GoesOn ==
  ASSUME SpeechInv, UNCHANGED <<id, busy, channel, saying>>,
         sink' \in 0..MaxSpeech, sound' \in [1..MaxSpeech -> Nat], OnlyTheLastIsHeard',
         at # "recv", at' \in {"recv", "sink", "chunk", "made"},
         at' \in {"chunk", "made"} /\ saying = id => sink' = id
  PROVE  SpeechInv'
<1>1. SpeechTyped /\ ChannelAscends /\ WorkIsShown
  BY Zenon DEF SpeechInv
<1>2. at' \in {"recv", "load", "sink", "chunk", "made"}
  OBVIOUS
<1>3. SpeechTyped'
  BY Zenon, <1>1, <1>2 DEF SpeechTyped
<1>4. ChannelAscends' /\ WorkIsShown'
  BY Zenon, <1>1 DEF ChannelAscends, WorkIsShown, Queued
<1> QED
  BY Zenon, <1>3, <1>4 DEF SpeechInv

\* Loading, the sink, and the place between two chunks.
LEMMA WorkKeeps ==
  ASSUME SpeechInv, Load \/ SetSink \/ NextChunk
  PROVE  SpeechInv'
<1>1. /\ id \in Nat /\ sink \in 0..MaxSpeech /\ sound \in [1..MaxSpeech -> Nat]
      /\ OnlyTheLastIsHeard /\ (at # "recv" => saying \in 1..MaxSpeech)
      /\ at \in {"chunk", "made"} /\ saying = id => sink = id
  BY Zenon DEF SpeechInv, SpeechTyped, WorkIsShown
<1>2. UNCHANGED <<id, busy, channel, saying, sound>>
  BY Zenon DEF Load, SetSink, NextChunk
<1>3. CASE Load
  <2>1. at = "load" /\ at' \in {"recv", "sink"} /\ sink' = sink
    BY Zenon, <1>3 DEF Load, Goto
  <2>2. at # "recv" /\ at' \in {"recv", "sink", "chunk", "made"} /\ at' \notin {"chunk", "made"}
    BY <2>1
  <2>3. OnlyTheLastIsHeard'
    BY Zenon, <1>1, <1>2, <2>1 DEF OnlyTheLastIsHeard
  <2> QED
    BY Zenon, <1>1, <1>2, <2>1, <2>2, <2>3, GoesOn
<1>4. CASE SetSink
  <2>1. at = "sink" /\ \/ saying = id /\ sink' = saying /\ at' = "chunk"
                       \/ sink' = sink /\ at' = "recv"
    BY Zenon, <1>4 DEF SetSink, Goto, Current
  <2>2. /\ at # "recv" /\ at' \in {"recv", "sink", "chunk", "made"}
        /\ sink' = id \/ at' \notin {"chunk", "made"}
    BY <2>1
  <2>3. sink' \in 0..MaxSpeech
    BY <1>1, <2>1, SpeechAssumption
  <2>4. OnlyTheLastIsHeard'
    BY Zenon, <1>1, <1>2, <2>1 DEF OnlyTheLastIsHeard
  <2> QED
    BY Zenon, <1>1, <1>2, <2>2, <2>3, <2>4, GoesOn
<1>5. CASE NextChunk
  <2>1. at = "chunk" /\ sink' = sink /\ at' \in {"made", "recv"}
    BY Zenon, <1>5 DEF NextChunk, Goto
  <2>2. at # "recv" /\ at' \in {"recv", "sink", "chunk", "made"} /\ at \in {"chunk", "made"}
    BY <2>1
  <2>3. OnlyTheLastIsHeard'
    BY Zenon, <1>1, <1>2, <2>1 DEF OnlyTheLastIsHeard
  <2> QED
    BY Zenon, <1>1, <1>2, <2>1, <2>2, <2>3, GoesOn
<1> QED
  BY Zenon, <1>3, <1>4, <1>5

\* A chunk is appended under the lock, or dropped.
LEMMA ChunkKeeps ==
  ASSUME SpeechInv, Chunk
  PROVE  SpeechInv'
<1>1. /\ id \in Nat /\ sink \in 0..MaxSpeech /\ sound \in [1..MaxSpeech -> Nat]
      /\ OnlyTheLastIsHeard /\ (at # "recv" => saying \in 1..MaxSpeech)
      /\ (at # "recv" /\ saying = id => busy)
      /\ at \in {"chunk", "made"} /\ saying = id => sink = id
  BY Zenon DEF SpeechInv, SpeechTyped, WorkIsShown
<1>2. /\ UNCHANGED <<id, busy, channel, saying, sink>> /\ at = "made" /\ at' \in {"chunk", "recv"}
      /\ \/ saying = id /\ sound' = [sound EXCEPT ![saying] = sound[saying] + 1]
         \/ sound' = sound
  BY Zenon DEF Chunk, AppendSamples, Goto, Current
<1>3. at # "recv" /\ at \in {"chunk", "made"} /\ at' \in {"recv", "sink", "chunk", "made"}
  BY <1>2
<1>4. CASE sound' = sound
  <2>1. OnlyTheLastIsHeard'
    BY Zenon, <1>1, <1>2, <1>4 DEF OnlyTheLastIsHeard
  <2> QED
    BY Zenon, <1>1, <1>2, <1>3, <1>4, <2>1, GoesOn
<1>5. CASE saying = id /\ sound' = [sound EXCEPT ![saying] = sound[saying] + 1]
  <2>1. sound[saying] \in Nat
    BY Zenon, <1>1, <1>3
  <2>2. sound[saying] + 1 \in Nat
    BY <2>1
  <2>3. sound' \in [1..MaxSpeech -> Nat]
    BY Zenon, <1>1, <1>5, <2>2
  <2>4. OnlyTheLastIsHeard'
    BY Zenon, <1>1, <1>2, <1>3, <1>5 DEF OnlyTheLastIsHeard
  <2> QED
    BY Zenon, <1>1, <1>2, <1>3, <2>3, <2>4, GoesOn
<1> QED
  BY Zenon, <1>2, <1>4, <1>5

\* An error of the device, the model or a chunk.
LEMMA ErrorKeeps ==
  ASSUME SpeechInv, WorkerError
  PROVE  SpeechInv'
<1>1. SpeechTyped /\ ChannelAscends /\ WorkIsShown /\ OnlyTheLastIsHeard
  BY Zenon DEF SpeechInv
<1>2. /\ at \in {"load", "made"} /\ at' = "recv" /\ UNCHANGED <<id, channel, saying>>
      /\ \/ saying = id /\ Fail
         \/ UNCHANGED <<sound, sink, busy>>
  BY Zenon DEF WorkerError, Goto, Current
<1>3. at # "recv" /\ at' \in {"recv", "load", "sink", "chunk", "made"} /\ at' \notin {"chunk", "made"}
  BY <1>2
<1>4. 0 \in 0..MaxSpeech
  BY SpeechAssumption
<1>5. ChannelAscends'
  BY Zenon, <1>1, <1>2 DEF ChannelAscends
<1>6. CASE saying = id /\ Fail
  <2>1. sound' \in [1..MaxSpeech -> Nat] /\ OnlyTheLastIsHeard' /\ sink' = 0
    BY Zenon, <1>6, SinkDropped DEF Fail
  <2>2. SpeechTyped'
    BY Zenon, <1>1, <1>2, <1>3, <1>4, <2>1 DEF SpeechTyped
  <2>3. WorkIsShown'
    BY Zenon, <1>1, <1>2, <1>3, <1>6 DEF WorkIsShown, Queued
  <2> QED
    BY Zenon, <1>5, <2>1, <2>2, <2>3 DEF SpeechInv
<1>7. CASE UNCHANGED <<sound, sink, busy>>
  <2>1. SpeechTyped'
    BY Zenon, <1>1, <1>2, <1>3, <1>7 DEF SpeechTyped
  <2>2. WorkIsShown' /\ OnlyTheLastIsHeard'
    BY Zenon, <1>1, <1>2, <1>3, <1>7 DEF WorkIsShown, Queued, OnlyTheLastIsHeard
  <2> QED
    BY Zenon, <1>5, <2>1, <2>2 DEF SpeechInv
<1> QED
  BY Zenon, <1>2, <1>6, <1>7

\* The user interface, the worker and the audio device of the client, under any
\* number of utterances, stops and errors: the inductive invariant.
THEOREM SpeechInvariant == SpeechSpec => []SpeechInv
<1>1. SpeechInit => SpeechInv
  <2> SUFFICES ASSUME SpeechInit
               PROVE  SpeechInv
    BY Zenon
  <2>1. /\ id = 0 /\ sink = 0 /\ channel = <<>> /\ at = "recv" /\ saying = 0
        /\ sound = [u \in 1..MaxSpeech |-> 0]
    BY Zenon DEF SpeechInit
  <2>2. /\ 0 \in Nat /\ 0 \in 0..MaxSpeech /\ <<>> \in Seq(1..MaxSpeech) /\ 0 <= 0
        /\ \A i \in 1..Len(<<>>) : FALSE
    BY SpeechAssumption
  <2>3. at \in {"recv", "load", "sink", "chunk", "made"} /\ at \notin {"chunk", "made"}
    BY <2>1
  <2>4. sound \in [1..MaxSpeech -> Nat] /\ \A u \in 1..MaxSpeech : sound[u] = 0
    BY Zenon, <2>1, <2>2
  <2>5. OnlyTheLastIsHeard
    BY Zenon, <2>4, SilenceIsFine DEF OnlyTheLastIsHeard
  <2>6. SpeechTyped
    BY Zenon, <2>1, <2>2, <2>3, <2>4 DEF SpeechTyped
  <2>7. ChannelAscends /\ ~Queued(id)
    BY Zenon, <2>1, <2>2 DEF ChannelAscends, Ascending, Queued
  <2>8. WorkIsShown
    BY Zenon, <2>1, <2>2, <2>3, <2>7 DEF WorkIsShown
  <2> QED
    BY Zenon, <2>5, <2>6, <2>7, <2>8 DEF SpeechInv
<1>2. SpeechInv /\ [SpeechNext]_speechVars => SpeechInv'
  <2> SUFFICES ASSUME SpeechInv, [SpeechNext]_speechVars
               PROVE  SpeechInv'
    BY Zenon
  <2>1. CASE UNCHANGED speechVars
    BY Zenon, <2>1 DEF speechVars, SpeechInv, SpeechTyped, ChannelAscends, WorkIsShown, Queued,
                       OnlyTheLastIsHeard
  <2>2. CASE Worker
    BY Zenon, <2>2, ReceiveKeeps, IdledKeeps, WorkKeeps, ChunkKeeps DEF Worker
  <2> QED
    BY Zenon, <2>1, <2>2, SpeakKeeps, StopKeeps, PlayKeeps, ErrorKeeps DEF SpeechNext, Playing
<1> QED
  BY <1>1, <1>2, PTL DEF SpeechSpec

\* tts/mod.rs appends a chunk and checks that it is still wanted under one
\* lock: what is heard is the utterance asked for last, and nothing once it was
\* stopped.
THEOREM LastIsHeard == SpeechSpec => []OnlyTheLastIsHeard
<1>1. SpeechInv => OnlyTheLastIsHeard
  BY Zenon DEF SpeechInv
<1> QED
  BY <1>1, SpeechInvariant, PTL

=============================================================================
