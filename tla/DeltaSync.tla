----------------------------- MODULE DeltaSync -----------------------------
(***************************************************************************)
(* How a committed mutation reaches the clients of its owner.              *)
(*                                                                         *)
(* A request handler (dispatch in main.rs) commits a row of the delta log, *)
(* sends the delta to its own connection and only then publishes it on the *)
(* broadcast channel; the send_delta! macro is SendOwn followed by         *)
(* Publish.  A background job (naming, memory, portrait) commits and       *)
(* publishes with no connection of its own.  Every connection (serve in    *)
(* transport.rs) runs a reader, a forwarder that copies the owner's deltas *)
(* from the broadcast channel into a bounded queue, and a writer that      *)
(* empties the queue into the socket.  A reconnecting client sends Resume  *)
(* and gets the log replayed.                                              *)
(*                                                                         *)
(* A connection id is used once, as in the code (new_uuid per connection), *)
(* so a client that reconnects moves to its next element of Conn.  Delta   *)
(* contents are not modelled: a delta is its revision.                     *)
(***************************************************************************)
EXTENDS Naturals, Sequences, FiniteSets

CONSTANTS
  Conn,        \* connection ids
  Client,      \* client processes
  Owner,       \* accounts
  Handler,     \* mutations, each of which commits one revision
  NoConn,      \* the origin of a background job
  ClientOf,    \* the client that opens a connection id
  OwnerOf,     \* the account a client is signed in to
  Unstable,    \* connections that may be lost or fall idle, a bound for TLC
  OutCap,      \* capacity of the mpsc queue of a connection (32 in the code)
  RingCap,     \* capacity of the broadcast channel (256 in the code)
  ResumeFrom   \* "zero": what chatty-gui sends; "last": what e2e-smoke sends

ASSUME ConstantsAssumption ==
  /\ NoConn \notin Conn
  /\ Unstable \subseteq Conn
  /\ ClientOf \in [Conn -> Client]
  /\ OwnerOf \in [Client -> Owner]
  /\ OutCap \in Nat \ {0} /\ RingCap \in Nat \ {0}
  /\ ResumeFrom \in {"zero", "last"}

VARIABLES
  log,        \* the owner of each revision: the deltas table, by revision
  bus,        \* everything published so far, in order: [rev, origin]
  conn,       \* "new", "open", "closing" or "closed"
  identified, \* connections whose identity is set
  cursor,     \* how much of the bus a forwarder has received
  held,       \* the delta a forwarder is sending, 0 if none
  lagged,     \* forwarders that lagged and stopped
  out,        \* the queue of a connection: revisions, 0 for SyncComplete
  writer,     \* connections whose writer task still runs
  link,       \* connections whose socket still reaches the client
  replay,     \* the Sync/Resume handler: [stage, since, todo]
  hstate,     \* "idle", "running", "committed", "sent", "published", "failed"
  horigin,    \* the connection that a handler answers, or NoConn
  howner,     \* the account a handler acts for
  hrev,       \* the revision a handler committed
  have,       \* the revisions a client has applied
  synced      \* connections on which the client has received SyncComplete

connVars == <<conn, identified, cursor, held, lagged, out, writer, link, replay>>
handlerVars == <<hstate, horigin, howner, hrev>>
vars == <<log, bus, connVars, handlerVars, have, synced>>

Rev == 1..Cardinality(Handler)
SyncComplete == 0
NoReplay == [stage |-> "idle", since |-> 0, todo |-> {}]

OwnerRevs(o) == {r \in 1..Len(log) : log[r] = o}
Room(c) == Len(out[c]) < OutCap
Owned(c) == OwnerOf[ClientOf[c]]

Init ==
  /\ log = <<>>
  /\ bus = <<>>
  /\ conn = [c \in Conn |-> "new"]
  /\ identified = {}
  /\ cursor = [c \in Conn |-> 0]
  /\ held = [c \in Conn |-> 0]
  /\ lagged = {}
  /\ out = [c \in Conn |-> <<>>]
  /\ writer = {}
  /\ link = {}
  /\ replay = [c \in Conn |-> NoReplay]
  /\ hstate = [h \in Handler |-> "idle"]
  /\ horigin = [h \in Handler |-> NoConn]
  /\ howner \in [Handler -> Owner]
  /\ hrev = [h \in Handler |-> 0]
  /\ have = [k \in Client |-> {}]
  /\ synced = {}

-----------------------------------------------------------------------------
(* Connections: serve in transport.rs, run in the GUI's network/mod.rs.    *)

\* The client parks until its previous connection is gone, then connects;
\* the broker subscribes the new connection to the broadcast channel.
Connect(c) ==
  /\ conn[c] = "new"
  /\ \A d \in link : ClientOf[d] # ClientOf[c]
  /\ conn' = [conn EXCEPT ![c] = "open"]
  /\ cursor' = [cursor EXCEPT ![c] = Len(bus)]
  /\ writer' = writer \cup {c}
  /\ link' = link \cup {c}
  /\ UNCHANGED <<log, bus, identified, held, lagged, out, replay, handlerVars,
                 have, synced>>

\* Mutant: the forwarder copies the deltas of every account.
VisibleToAnyone(c, e) ==
  /\ e.origin # c
  /\ c \in identified

\* delta_visible: the forwarder of c copies the deltas of the identity of c
\* that another connection, or no connection, caused.
Visible(c, e) ==
  /\ e.origin # c
  /\ c \in identified
  /\ log[e.rev] = Owned(c)

\* Mutant: a lagging forwarder skips to the oldest event the ring still has.
ForwardReceiveSkipping(c) ==
  /\ conn[c] = "open"
  /\ held[c] = 0
  /\ cursor[c] < Len(bus)
  /\ LET oldest == IF Len(bus) - cursor[c] > RingCap
                   THEN Len(bus) - RingCap ELSE cursor[c]
         e == bus[oldest + 1]
     IN /\ cursor' = [cursor EXCEPT ![c] = oldest + 1]
        /\ held' = [held EXCEPT ![c] = IF Visible(c, e) THEN e.rev ELSE 0]
  /\ UNCHANGED <<log, bus, conn, identified, lagged, out, writer, link, replay,
                 handlerVars, have, synced>>

\* The forwarder takes the next event, or learns that the ring has already
\* overwritten it; then it raises the lag flag and stops.
ForwardReceive(c) ==
  /\ conn[c] = "open"
  /\ c \notin lagged
  /\ held[c] = 0
  /\ cursor[c] < Len(bus)
  /\ \/ /\ Len(bus) - cursor[c] > RingCap
        /\ lagged' = lagged \cup {c}
        /\ UNCHANGED <<cursor, held>>
     \/ /\ Len(bus) - cursor[c] <= RingCap
        /\ cursor' = [cursor EXCEPT ![c] = @ + 1]
        /\ LET e == bus[cursor[c] + 1]
           IN held' = [held EXCEPT ![c] = IF Visible(c, e) THEN e.rev ELSE 0]
        /\ UNCHANGED lagged
  /\ UNCHANGED <<log, bus, conn, identified, out, writer, link, replay,
                 handlerVars, have, synced>>

\* The forwarder's send waits for room in the queue.  When the writer is
\* gone the forwarder stops; nobody receives what it would still forward.
ForwardSend(c) ==
  /\ conn[c] = "open"
  /\ held[c] # 0
  /\ c \in writer
  /\ Room(c)
  /\ out' = [out EXCEPT ![c] = Append(@, held[c])]
  /\ held' = [held EXCEPT ![c] = 0]
  /\ UNCHANGED <<log, bus, conn, identified, cursor, lagged, writer, link,
                 replay, handlerVars, have, synced>>

\* What the client does with a frame: apply the delta, or note the end of
\* the replay.
Receive(c, f) ==
  IF f = SyncComplete
  THEN /\ synced' = synced \cup {c}
       /\ UNCHANGED have
  ELSE /\ have' = [have EXCEPT ![ClientOf[c]] = @ \cup {f}]
       /\ UNCHANGED synced

\* The writer hands the next frame to the socket.  A frame written to a
\* socket whose peer is gone is lost.
Write(c) ==
  /\ c \in writer
  /\ out[c] # <<>>
  /\ out' = [out EXCEPT ![c] = Tail(@)]
  /\ IF c \in link THEN Receive(c, Head(out[c])) ELSE UNCHANGED <<have, synced>>
  /\ UNCHANGED <<log, bus, conn, identified, cursor, held, lagged, writer, link,
                 replay, handlerVars>>

\* The write fails: the writer task ends and drops the receiving half, so
\* every later send on the queue fails.
WriteFails(c) ==
  /\ c \in writer
  /\ c \notin link
  /\ out[c] # <<>>
  /\ writer' = writer \ {c}
  /\ out' = [out EXCEPT ![c] = <<>>]
  /\ UNCHANGED <<log, bus, conn, identified, cursor, held, lagged, link, replay,
                 handlerVars, have, synced>>

\* The network or the client process drops the connection.
LinkLost(c) ==
  /\ c \in link \cap Unstable
  /\ link' = link \ {c}
  /\ UNCHANGED <<log, bus, conn, identified, cursor, held, lagged, out, writer,
                 replay, handlerVars, have, synced>>

\* The reader leaves its loop: it saw the end of the stream, the lag flag,
\* or a quiet period.  The forwarder is aborted and what it held dropped.
StopReading(c) ==
  /\ conn[c] = "open"
  /\ \/ c \notin link
     \/ c \in lagged
     \/ c \in Unstable /\ out[c] = <<>>
  /\ conn' = [conn EXCEPT ![c] = "closing"]
  /\ cursor' = [cursor EXCEPT ![c] = 0]
  /\ held' = [held EXCEPT ![c] = 0]
  /\ lagged' = lagged \ {c}
  /\ UNCHANGED <<log, bus, identified, out, writer, link, replay, handlerVars,
                 have, synced>>

\* Handlers that still hold a sender of the queue of c.
Holding(c) ==
  {h \in Handler : horigin[h] = c /\ hstate[h] \in {"running", "committed", "sent"}}


\* serve returns once the writer has ended: its queue is empty and every
\* sender of it dropped, or a write failed.  The client sees the end of the
\* stream.
Close(c) ==
  /\ conn[c] = "closing"
  /\ \/ c \notin writer
     \/ out[c] = <<>> /\ Holding(c) = {} /\ replay[c].stage = "idle"
  /\ conn' = [conn EXCEPT ![c] = "closed"]
  /\ writer' = writer \ {c}
  /\ link' = link \ {c}
  /\ identified' = identified \ {c}
  /\ synced' = synced \ {c}
  /\ UNCHANGED <<log, bus, cursor, held, lagged, out, replay, handlerVars, have>>

-----------------------------------------------------------------------------
(* Sync and Resume: the handler in dispatch.                               *)

\* The handler sets the identity before it reads the log.
Resume(c) ==
  /\ conn[c] = "open"
  /\ c \in link
  /\ c \notin identified
  /\ identified' = identified \cup {c}
  /\ LET mine == have[ClientOf[c]]
         last == CHOOSE r \in mine : \A s \in mine : s <= r
     IN replay' = [replay EXCEPT ![c] =
          [stage |-> "identified", todo |-> {},
           since |-> IF ResumeFrom = "zero" \/ mine = {} THEN 0 ELSE last]]
  /\ UNCHANGED <<log, bus, conn, cursor, held, lagged, out, writer, link,
                 handlerVars, have, synced>>

\* Mutant: the first revision after since is skipped.
ReplayRowsOffByOne(o, since) == {r \in OwnerRevs(o) : r > since + 1}

\* The query reads one snapshot of the log: the owner's revisions above
\* since, in order.
ReplayRows(o, since) == {r \in OwnerRevs(o) : r > since}

ReplayQuery(c) ==
  /\ replay[c].stage = "identified"
  /\ replay' = [replay EXCEPT ![c].stage = "streaming",
                              ![c].todo = ReplayRows(Owned(c), replay[c].since)]
  /\ UNCHANGED <<log, bus, conn, identified, cursor, held, lagged, out, writer,
                 link, handlerVars, have, synced>>

\* One row of the query goes to the queue; after the last, SyncComplete.
ReplaySend(c) ==
  /\ replay[c].stage = "streaming"
  /\ c \in writer
  /\ Room(c)
  /\ \/ /\ replay[c].todo = {}
        /\ out' = [out EXCEPT ![c] = Append(@, SyncComplete)]
        /\ replay' = [replay EXCEPT ![c] = NoReplay]
     \/ \E r \in replay[c].todo :
          /\ \A s \in replay[c].todo : r <= s
          /\ out' = [out EXCEPT ![c] = Append(@, r)]
          /\ replay' = [replay EXCEPT ![c].todo = @ \ {r}]
  /\ UNCHANGED <<log, bus, conn, identified, cursor, held, lagged, writer, link,
                 handlerVars, have, synced>>

\* The queue is gone: the handler returns its error.
ReplayFails(c) ==
  /\ replay[c].stage = "streaming"
  /\ c \notin writer
  /\ replay' = [replay EXCEPT ![c] = NoReplay]
  /\ UNCHANGED <<log, bus, conn, identified, cursor, held, lagged, out, writer,
                 link, handlerVars, have, synced>>

-----------------------------------------------------------------------------
(* Mutations: a handler of dispatch, or a background job.                  *)

\* The reader spawns the handler of a mutating request.
Request(h, c) ==
  /\ hstate[h] = "idle"
  /\ conn[c] = "open"
  /\ c \in link
  /\ c \in identified
  /\ howner[h] = Owned(c)
  /\ hstate' = [hstate EXCEPT ![h] = "running"]
  /\ horigin' = [horigin EXCEPT ![h] = c]
  /\ UNCHANGED <<log, bus, connVars, howner, hrev, have, synced>>

\* A background job starts.
Background(h) ==
  /\ hstate[h] = "idle"
  /\ hstate' = [hstate EXCEPT ![h] = "running"]
  /\ UNCHANGED <<log, bus, connVars, horigin, howner, hrev, have, synced>>

\* delta_tx and commit: the revision is allocated inside the transaction of
\* the only writer, so revisions become visible in order.
Commit(h) ==
  /\ hstate[h] = "running"
  /\ log' = Append(log, howner[h])
  /\ hrev' = [hrev EXCEPT ![h] = Len(log')]
  /\ hstate' = [hstate EXCEPT ![h] = "committed"]
  /\ UNCHANGED <<bus, connVars, horigin, howner, have, synced>>

\* send_delta!, first half: the origin gets its delta, or the handler ends
\* with an error because the queue of the origin is gone.
SendOwn(h) ==
  LET c == horigin[h]
  IN /\ hstate[h] = "committed"
     /\ c # NoConn
     /\ \/ /\ c \in writer
           /\ Room(c)
           /\ out' = [out EXCEPT ![c] = Append(@, hrev[h])]
           /\ hstate' = [hstate EXCEPT ![h] = "sent"]
        \/ /\ c \notin writer
           /\ hstate' = [hstate EXCEPT ![h] = "failed"]
           /\ UNCHANGED out
     /\ UNCHANGED <<log, bus, conn, identified, cursor, held, lagged, writer,
                    link, replay, horigin, howner, hrev, have, synced>>

\* send_delta!, second half; a background job has nothing to send first.
Publish(h) ==
  /\ \/ hstate[h] = "sent"
     \/ hstate[h] = "committed" /\ horigin[h] = NoConn
  /\ bus' = Append(bus, [rev |-> hrev[h], origin |-> horigin[h]])
  /\ hstate' = [hstate EXCEPT ![h] = "published"]
  /\ UNCHANGED <<log, connVars, horigin, howner, hrev, have, synced>>

-----------------------------------------------------------------------------
Broker(c) ==
  \/ ForwardReceive(c) \/ ForwardSend(c) \/ Write(c) \/ Close(c)
  \/ ReplayQuery(c) \/ ReplaySend(c) \/ ReplayFails(c)

Next ==
  \/ \E c \in Conn :
       \/ Connect(c) \/ Resume(c) \/ LinkLost(c) \/ StopReading(c)
       \/ WriteFails(c) \/ Broker(c)
  \/ \E h \in Handler :
       \/ \E c \in Conn : Request(h, c)
       \/ Background(h) \/ Commit(h) \/ SendOwn(h) \/ Publish(h)

Spec == Init /\ [][Next]_vars

(***************************************************************************)
(* Fairness.  Spawned handlers and the forwarder and writer of a           *)
(* connection are tokio tasks that keep running; a reader that sees the    *)
(* end of its stream or the lag flag leaves its loop.  Nothing makes a     *)
(* client connect, issue a request, or lose its connection.                *)
(***************************************************************************)
Fairness ==
  /\ \A c \in Conn :
       /\ WF_vars((c \notin link \/ c \in lagged) /\ StopReading(c))
       /\ WF_vars(ForwardReceive(c)) /\ WF_vars(ForwardSend(c))
       /\ WF_vars(Write(c)) /\ WF_vars(Close(c))
       /\ WF_vars(ReplayQuery(c)) /\ SF_vars(ReplaySend(c))
  /\ \A h \in Handler :
       /\ WF_vars(Commit(h)) /\ WF_vars(Publish(h)) /\ SF_vars(SendOwn(h))

FairSpec == Spec /\ Fairness

-----------------------------------------------------------------------------
(* Properties.                                                             *)

Frame == Rev \cup {SyncComplete}

TypeOK ==
  /\ log \in Seq(Owner)
  /\ bus \in Seq([rev : Rev, origin : Conn \cup {NoConn}])
  /\ conn \in [Conn -> {"new", "open", "closing", "closed"}]
  /\ identified \subseteq Conn /\ lagged \subseteq Conn
  /\ writer \subseteq Conn /\ link \subseteq Conn /\ synced \subseteq Conn
  /\ cursor \in [Conn -> Nat]
  /\ held \in [Conn -> Frame]
  /\ out \in [Conn -> Seq(Frame)]
  /\ replay \in [Conn -> [stage : {"idle", "identified", "streaming"},
                          since : Nat, todo : SUBSET Rev]]
  /\ hstate \in [Handler -> {"idle", "running", "committed", "sent",
                             "published", "failed"}]
  /\ horigin \in [Handler -> Conn \cup {NoConn}]
  /\ howner \in [Handler -> Owner]
  /\ hrev \in [Handler -> Nat]
  /\ have \in [Client -> SUBSET Rev]

\* The forwarder of c is subscribed, and the replay has read the log.
Attached(c) ==
  /\ conn[c] = "open" /\ c \in link /\ c \notin lagged
  /\ c \in identified /\ replay[c].stage # "identified"

\* Revisions whose handler died between commit and publication.
Orphans == {hrev[h] : h \in {g \in Handler : hstate[g] = "failed"}}

\* Where a revision can be on its way from the log to the client of c.
OnItsWay(c, r) ==
  \/ r \in have[ClientOf[c]]
  \/ \E i \in 1..Len(out[c]) : out[c][i] = r
  \/ held[c] = r
  \/ r \in replay[c].todo
  \/ \E i \in (cursor[c] + 1)..Len(bus) : bus[i].rev = r
  \/ \E h \in Handler : hrev[h] = r /\ hstate[h] \in {"committed", "sent"}

\* The forwarder (transport.rs 54-82), the replay (main.rs 1894-1949) and
\* send_delta! together lose nothing: while a connection is attached, every
\* revision of its owner is at the client or still on its way there, except
\* a revision whose own handler died before publishing it.
EveryRevisionOnItsWay ==
  \A c \in Conn : Attached(c) =>
    \A r \in OwnerRevs(Owned(c)) \ Orphans : OnItsWay(c, r)

\* Nothing of the owner of c is moving: no handler between commit and
\* publication, nothing unread on the bus, nothing queued.
Quiet(c) ==
  /\ Attached(c) /\ c \in synced
  /\ cursor[c] = Len(bus) /\ held[c] = 0 /\ out[c] = <<>>
  /\ \A h \in Handler : hstate[h] \notin {"committed", "sent"}

\* transport.rs 72-74: "Never leave a connected client with a silent revision
\* gap."  A synchronised connection with nothing left to deliver has every
\* revision of its owner.
NoSilentGap ==
  \A c \in Conn : Quiet(c) => OwnerRevs(Owned(c)) \subseteq have[ClientOf[c]]

\* delta_visible (utils.rs 187-193) and the replay's WHERE owner_id: a client
\* only ever holds revisions of the account it is signed in to.
OnlyOwnRevisions ==
  \A c \in Conn : have[ClientOf[c]] \subseteq OwnerRevs(Owned(c))


\* Every committed revision that is not orphaned reaches every client of its
\* owner that has an identified connection, unless that connection is lost
\* (send_delta!, the forwarder, Sync/Resume).
EveryRevisionArrives ==
  \A c \in Conn, r \in Rev :
    (r \in OwnerRevs(Owned(c)) /\ c \in identified)
      ~> (r \in have[ClientOf[c]] \/ r \in Orphans \/ conn[c] # "open" \/ c \notin link)

=============================================================================
