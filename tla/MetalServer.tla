----------------------------- MODULE MetalServer -----------------------------
(***************************************************************************)
(* A reply from the metal appliance: the broker's client                   *)
(* (chatty-broker/src/adapters/metal.rs), the connection threads, the job  *)
(* queue and the model worker of chatty-metal/src/server.rs.               *)
(*                                                                         *)
(* A connection carries one request.  Frames are their kind; a prompt is   *)
(* the number of chunks it is fed in; a sampled token ends the reply, ends *)
(* the thinking, completes a piece of text, or does neither (bytes of an   *)
(* unfinished character).  fail_worker's answers are left out: no job is   *)
(* queued unless the model was ready, and then it does not fail_worker.    *)
(***************************************************************************)
EXTENDS Naturals, Sequences, FiniteSets

CONSTANTS
  Conn, NoConn,
  MaxConnections, JobQueue, ReplyQueue,  \* MAX_CONNECTIONS, JOB_QUEUE, REPLY_QUEUE
  MaxTokens,       \* max_tokens of the requests
  MaxPrompt,       \* chunks of a prompt
  MaxTrouble       \* clients that give up, and failures

ASSUME MetalAssumption == NoConn \notin Conn /\ MaxTokens \in Nat

VARIABLES
  client,      \* the broker: idle, hello, ready, asked, complete, broken
  kind,        \* what it wants: see Kinds
  thread,      \* the server's thread: none, hello, wait, queue, relay
  sent,        \* the frame on its way to the server
  down,        \* frames on their way to the client
  count,       \* connections
  ready,       \* StatusBoard.state is Ready
  alive,       \* the model worker runs
  jobq, cur,   \* jobs waiting, and the one at work
  feed, left,  \* prompt chunks still to be fed, tokens still allowed
  thinking, told,        \* in_thinking, thinking_reported
  replies, listening,    \* the reply channels
  cancel,
  made, given, trouble

ends == <<client, kind, sent>>
threads == <<thread, down, count>>
worker == <<alive, jobq, cur, feed, left, thinking, told>>
channels == <<replies, listening, cancel>>
metalVars == <<ends, threads, ready, worker, channels, made, given, trouble>>

Set(f, c, v) == [f EXCEPT ![c] = v]

\* A reply with reasoning, one without (generate_request adds the ThoughtEnd
\* marker to the prompt), the status frame, the status page over HTTP.
Kinds == {"reply", "quick", "status", "http"}
Generates(c) == kind[c] \in {"reply", "quick"}

MetalInit ==
  /\ client = [c \in Conn |-> "idle"] /\ kind \in [Conn -> Kinds]
  /\ sent = [c \in Conn |-> ""] /\ thread = [c \in Conn |-> "none"]
  /\ down = [c \in Conn |-> <<>>] /\ count = 0 /\ ready = FALSE /\ alive = TRUE
  /\ jobq = <<>> /\ cur = NoConn /\ feed = 0 /\ left = 0 /\ thinking = FALSE /\ told = FALSE
  /\ replies = [c \in Conn |-> <<>>] /\ listening = [c \in Conn |-> FALSE]
  /\ cancel = [c \in Conn |-> FALSE]
  /\ made = [c \in Conn |-> 0] /\ given = [c \in Conn |-> 0] /\ trouble = 0

Trouble == trouble < MaxTrouble /\ trouble' = trouble + 1

\* write_payload and read_frame: a frame is written whole or the write fails,
\* and the reader takes the oldest.
WriteFrame(c, f) == down' = Set(down, c, Append(down[c], f))
ReadFrameOf(c) == down[c] # <<>> /\ down' = Set(down, c, Tail(down[c]))

-----------------------------------------------------------------------------
(* The broker's client *)

\* TcpStream::connect and the Hello; the accept loop takes the connection,
\* drops it (too many), or fails to start its thread.
Connect(c) ==
  /\ client[c] = "idle" /\ client' = Set(client, c, IF kind[c] = "http" THEN "asked" ELSE "hello")
  /\ \/ count >= MaxConnections /\ UNCHANGED <<sent, thread, count, trouble>>
     \/ /\ count < MaxConnections /\ count' = count + 1
        /\ \/ /\ thread' = Set(thread, c, "hello") /\ UNCHANGED trouble
              /\ sent' = Set(sent, c, IF kind[c] = "http" THEN "http" ELSE "hello")
           \/ Trouble /\ UNCHANGED <<thread, sent>>
  /\ UNCHANGED <<kind, down, ready, worker, channels, made, given>>

\* connect returns the HelloAck; stream and complete want a ready server.
Acked(c) ==
  /\ client[c] = "hello" /\ ReadFrameOf(c)
  /\ IF kind[c] = "status" \/ Head(down[c]) = "ready"
     THEN client' = Set(client, c, "asked") /\ sent' = Set(sent, c, IF Generates(c) THEN "generate" ELSE "status")
     ELSE client' = Set(client, c, "broken") /\ UNCHANGED sent
  /\ UNCHANGED <<kind, thread, count, ready, worker, channels, made, given, trouble>>

\* MetalStream::next, and the loop of complete_inner.
Read(c) ==
  /\ client[c] = "asked" /\ ReadFrameOf(c)
  /\ LET f == Head(down[c]) IN
     /\ given' = IF f = "piece" THEN Set(given, c, given[c] + 1) ELSE given
     /\ client' = CASE f \in {"done", "status"} -> Set(client, c, "complete")
                    [] f = "error" -> Set(client, c, "broken")
                    [] OTHER -> client
  /\ UNCHANGED <<kind, sent, thread, count, ready, worker, channels, made, trouble>>

\* The server closed the connection: read_frame fails.
ReadEof(c) ==
  /\ client[c] \in {"hello", "asked"} /\ down[c] = <<>> /\ thread[c] = "none"
  /\ client' = Set(client, c, "broken")
  /\ UNCHANGED <<kind, sent, threads, ready, worker, channels, made, given, trouble>>

\* A timeout of the client, a lost link, or a reply nobody waits for any more.
GiveUp(c) ==
  /\ client[c] \in {"idle", "hello", "asked"} /\ Trouble
  /\ client' = Set(client, c, "broken") /\ UNCHANGED <<kind, sent, threads, ready, worker, channels, made, given>>

-----------------------------------------------------------------------------
(* A connection thread *)

Gone(c) == client[c] \in {"complete", "broken"}

\* The thread returns: the socket closes, ConnectionCount drops, and with a
\* job handed over CancelOnDrop and the reply receiver drop too.
Ends(c) ==
  /\ thread' = Set(thread, c, "none") /\ count' = count - 1
  /\ cancel' = Set(cancel, c, thread[c] = "relay" \/ cancel[c])
  /\ listening' = Set(listening, c, FALSE)

\* handle_protocol's frame, and what it makes of it.
ReadFrame(c) ==
  /\ thread[c] \in {"hello", "wait"} /\ sent[c] # "" /\ sent' = Set(sent, c, "")
  /\ CASE sent[c] = "hello" ->
            /\ WriteFrame(c, IF ready THEN "ready" ELSE "loading")
            /\ thread' = Set(thread, c, "wait") /\ UNCHANGED <<count, channels>>
       [] sent[c] = "status" ->
            /\ WriteFrame(c, "status") /\ UNCHANGED <<thread, count, channels>>
       [] sent[c] = "http" ->
            /\ WriteFrame(c, "status") /\ Ends(c) /\ UNCHANGED replies
       [] sent[c] = "generate" /\ ~ready ->
            /\ WriteFrame(c, "error") /\ Ends(c) /\ UNCHANGED replies
       [] OTHER -> thread' = Set(thread, c, "queue") /\ UNCHANGED <<down, count, channels>>
  /\ UNCHANGED <<client, kind, ready, worker, made, given, trouble>>

\* Nothing more comes: the client hung up, or CLIENT_TIMEOUT passed.
ReadFails(c) ==
  /\ thread[c] \in {"hello", "wait"} /\ sent[c] = ""
  /\ IF Gone(c) THEN UNCHANGED trouble ELSE Trouble
  /\ Ends(c) /\ UNCHANGED <<ends, down, ready, worker, replies, made, given>>

\* jobs.send: waits for room, fails when the worker is gone.
SendJob(c) ==
  /\ thread[c] = "queue"
  /\ IF alive
     THEN /\ Len(jobq) < JobQueue /\ jobq' = Append(jobq, c)
          /\ thread' = Set(thread, c, "relay") /\ listening' = Set(listening, c, TRUE)
          /\ UNCHANGED <<down, count, cancel>>
     ELSE /\ WriteFrame(c, "error") /\ Ends(c) /\ UNCHANGED jobq
  /\ UNCHANGED <<ends, ready, alive, cur, feed, left, thinking, told, replies, made, given, trouble>>

\* The reply loop: an event is written, the last one ends the thread.
Relay(c) ==
  /\ thread[c] = "relay" /\ replies[c] # <<>> /\ replies' = Set(replies, c, Tail(replies[c]))
  /\ LET e == Head(replies[c]) IN
     /\ WriteFrame(c, e)
     /\ IF e \in {"done", "error"} THEN Ends(c) ELSE UNCHANGED <<thread, count, listening, cancel>>
  /\ UNCHANGED <<ends, ready, worker, made, given, trouble>>

\* A loop that keeps the receiver when a write fails.
RelayKeeps(c) ==
  /\ thread[c] = "relay" /\ replies[c] # <<>> /\ Gone(c)
  /\ thread' = Set(thread, c, "none") /\ count' = count - 1
  /\ UNCHANGED <<ends, down, ready, worker, channels, made, given, trouble>>

\* A write fails: the client hung up, or took nothing for CLIENT_TIMEOUT.
RelayFails(c) ==
  /\ thread[c] = "relay" /\ replies[c] # <<>> /\ replies' = Set(replies, c, Tail(replies[c]))
  /\ IF Gone(c) THEN UNCHANGED trouble ELSE Trouble
  /\ Ends(c) /\ UNCHANGED <<ends, down, ready, worker, made, given>>

\* The worker dropped the job without a last event.
RelayEnds(c) ==
  /\ thread[c] = "relay" /\ replies[c] = <<>> /\ c # cur /\ c \notin {jobq[i] : i \in 1..Len(jobq)}
  /\ Ends(c) /\ UNCHANGED <<ends, down, ready, worker, replies, made, given, trouble>>

-----------------------------------------------------------------------------
(* The model worker *)

\* run_engine up to "ready", or fail_worker.
LoadModel ==
  /\ ~ready /\ alive
  /\ \/ ready' = TRUE /\ UNCHANGED <<alive, trouble>>
     \/ Trouble /\ alive' = FALSE /\ UNCHANGED ready
  /\ UNCHANGED <<ends, threads, jobq, cur, feed, left, thinking, told, channels, made, given>>

\* replies.send of e for the job at work: it waits for room, and a receiver
\* that is gone takes nothing.
Tell(e) ==
  IF listening[cur]
  THEN Len(replies[cur]) < ReplyQueue /\ replies' = Set(replies, cur, Append(replies[cur], e))
  ELSE UNCHANGED replies

\* generate begins: the prompt is refused (invalid, or too long with
\* max_tokens), or the model is reset and fed.
TakeJob ==
  /\ ready /\ alive /\ cur = NoConn /\ jobq # <<>> /\ jobq' = Tail(jobq)
  /\ cur' = Head(jobq) /\ left' = MaxTokens /\ told' = FALSE
  /\ feed' \in 0..MaxPrompt /\ thinking' = (kind[Head(jobq)] = "reply")
  /\ UNCHANGED <<ends, threads, ready, alive, channels, made, given, trouble>>

Drop == /\ cur' = NoConn /\ feed' = 0 /\ left' = 0 /\ thinking' = FALSE /\ told' = FALSE
        /\ UNCHANGED <<ends, threads, ready, alive, jobq, listening, cancel, made, given>>

\* An error ends the job: its prompt was refused (feed = 0 and nothing
\* sampled yet), or model.forward failed.
JobFails ==
  /\ cur # NoConn /\ Tell("error") /\ Drop /\ Trouble

\* One chunk of the prompt; cancel is looked at after it.
Prefill ==
  /\ cur # NoConn /\ feed > 0
  /\ IF cancel[cur] THEN Tell("done") /\ Drop
     ELSE /\ feed' = feed - 1
          /\ UNCHANGED <<ends, threads, ready, alive, jobq, cur, left, thinking, told, channels, made, given>>
  /\ UNCHANGED trouble

\* The head of the decode loop: cancelled, a stop token, or max_tokens.
JobEnds ==
  /\ cur # NoConn /\ feed = 0
  /\ Tell("done") /\ Drop /\ UNCHANGED trouble

\* A token that does not end the reply.  While thinking only the first one
\* is reported; afterwards it may complete a piece of text.
Decode ==
  /\ cur # NoConn /\ feed = 0 /\ left > 0 /\ ~cancel[cur] /\ left' = left - 1
  /\ IF thinking
     THEN /\ thinking' \in BOOLEAN /\ told' = TRUE /\ UNCHANGED made
          /\ IF told THEN UNCHANGED replies ELSE listening[cur] /\ Tell("reason")
     ELSE /\ UNCHANGED <<thinking, told>>
          /\ \/ listening[cur] /\ Tell("piece") /\ made' = Set(made, cur, made[cur] + 1)
             \/ UNCHANGED <<replies, made>>
  /\ UNCHANGED <<ends, threads, ready, alive, jobq, cur, feed, listening, cancel, given, trouble>>

\* A chunk nobody receives: generate returns.
SendFails == cur # NoConn /\ feed = 0 /\ ~listening[cur] /\ Drop /\ UNCHANGED <<replies, trouble>>

\* A panic of the worker: the queue and its jobs are dropped, the board
\* still says Ready.
WorkerDies ==
  /\ ready /\ alive /\ Trouble /\ alive' = FALSE /\ jobq' = <<>>
  /\ cur' = NoConn /\ feed' = 0 /\ left' = 0 /\ thinking' = FALSE /\ told' = FALSE
  /\ UNCHANGED <<ends, threads, ready, channels, made, given>>

-----------------------------------------------------------------------------
Client(c) == Acked(c) \/ Read(c) \/ ReadEof(c)
Thread(c) == ReadFrame(c) \/ ReadFails(c) \/ SendJob(c) \/ Relay(c) \/ RelayFails(c) \/ RelayEnds(c)
Worker == TakeJob \/ JobFails \/ Prefill \/ JobEnds \/ Decode \/ SendFails

MetalNext ==
  \/ \E c \in Conn : Connect(c) \/ GiveUp(c) \/ Client(c) \/ Thread(c)
  \/ LoadModel \/ Worker \/ WorkerDies

MetalSpec == MetalInit /\ [][MetalNext]_metalVars

\* Threads run, forward returns, and what a socket holds is read.
MetalFairness ==
  /\ \A c \in Conn : WF_metalVars(Client(c)) /\ WF_metalVars(Thread(c))
  /\ WF_metalVars(Worker)

-----------------------------------------------------------------------------
Phase(c) == IF ~Generates(c) \/ client[c] \in {"idle", "hello"} THEN "idle" ELSE client[c]

Abstract == INSTANCE GenerationService WITH phase <- [c \in Conn |-> Phase(c)]

\* The appliance and its client keep the promise of GenerationService: a
\* reply reported complete holds every piece of text the worker produced, in
\* order, nothing follows its end, and a broker that asked is not left
\* waiting, whatever connection, worker or client fails on the way.
ImplementsService == Abstract!Service
=============================================================================
