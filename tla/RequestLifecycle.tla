-------------------------- MODULE RequestLifecycle --------------------------
(***************************************************************************)
(* The long requests of a connection from the frame that asks for them to  *)
(* their end: generations, image jobs, model downloads and other model     *)
(* actions (dispatch in main.rs, generate in systems/inference.rs,         *)
(* download_model and run_ollama_action in systems/admin.rs), with the     *)
(* cancellation registry, the busy counter that holds off the idle close,  *)
(* the reservation of model operations, and the close of the connection    *)
(* (serve and cancel_connection in transport.rs).                          *)
(*                                                                         *)
(* A request is identified by its connection and the id the client chose;  *)
(* ids repeat across connections.  The queue to the client is taken to     *)
(* drain (DeltaSync models it): a send succeeds while the writer runs and  *)
(* fails afterwards.                                                       *)
(***************************************************************************)
EXTENDS Naturals, FiniteSets

CONSTANTS
  Conn,          \* connections
  Req,           \* requests
  ConnOf,        \* the connection a request arrives on
  IdOf,          \* the id its client gave it
  Workloads,     \* what clients may ask for: the kind of each request
  ModelOf,       \* the model a pull or an action names
  MaxDownloads   \* MAX_PARALLEL_DOWNLOADS (4 in the code)

ASSUME RequestAssumption ==
  /\ IsFiniteSet(Req)
  /\ ConnOf \in [Req -> Conn]
  /\ Workloads \subseteq [Req -> {"generate", "image", "pull", "action"}]
  /\ \A r, s \in Req : ConnOf[r] = ConnOf[s] /\ IdOf[r] = IdOf[s] => r = s
  /\ MaxDownloads \in Nat

VARIABLES
  want,      \* what each request asks for
  conn,      \* "open", or "closed" once cancel_connection has run
  writer,    \* connections whose writer still runs; tx.closed() otherwise
  peer,      \* connections whose client is still there
  stage,     \* how far the handler of a request is
  registry,  \* requests whose key is in the cancellation registry
  flag,      \* requests whose watch channel holds true
  asked,     \* requests for which the client sent a Cancel that was read
  busy,      \* the busy counter of a connection
  reserved   \* requests that hold a ModelOperationGuard

requestVars == <<want, conn, writer, peer, stage, registry, flag, asked, busy, reserved>>

RequestStage == {"unsent", "checking", "waiting", "connecting", "working", "ending", "done"}
ActiveRequest == {"waiting", "connecting", "working"}

RequestInit ==
  /\ want \in Workloads
  /\ conn = [c \in Conn |-> "open"]
  /\ writer = Conn
  /\ peer = Conn
  /\ stage = [r \in Req |-> "unsent"]
  /\ registry = {}
  /\ flag = {}
  /\ asked = {}
  /\ busy = [c \in Conn |-> 0]
  /\ reserved = {}

To(r, s) == stage' = [stage EXCEPT ![r] = s]
Count(r) == busy' = [busy EXCEPT ![ConnOf[r]] = @ + 1]
Uncount(r) == busy' = [busy EXCEPT ![ConnOf[r]] = @ - 1]

-----------------------------------------------------------------------------
(* The reader of a connection.                                             *)

\* Mutant: a download is not registered when its frame is read.
ReadWithoutRegistering(r) ==
  /\ conn[ConnOf[r]] = "open"
  /\ stage[r] = "unsent"
  /\ To(r, "checking")
  /\ UNCHANGED <<want, conn, writer, peer, registry, flag, asked, busy, reserved>>

\* A Request frame: dispatch_control registers a download before the handler
\* is spawned.
Read(r) ==
  /\ conn[ConnOf[r]] = "open"
  /\ stage[r] = "unsent"
  /\ To(r, "checking")
  /\ registry' = IF want[r] = "pull" THEN registry \cup {r} ELSE registry
  /\ UNCHANGED <<want, conn, writer, peer, flag, asked, busy, reserved>>

\* The key of the registry: the connection and the request id.
SameKey(r, s) == ConnOf[r] = ConnOf[s] /\ IdOf[r] = IdOf[s]

\* A Cancel frame for r: its entry is removed and signalled, if there is one.
ReadCancel(r) ==
  /\ conn[ConnOf[r]] = "open"
  /\ r \notin asked
  /\ stage[r] # "unsent"
  /\ asked' = asked \cup {r}
  /\ LET found == {s \in registry : SameKey(s, r)}
     IN /\ registry' = registry \ found
        /\ flag' = flag \cup found
  /\ UNCHANGED <<want, conn, writer, peer, stage, busy, reserved>>

\* The client goes away; the broker learns of it later.
PeerLeaves(c) ==
  /\ c \in peer
  /\ peer' = peer \ {c}
  /\ UNCHANGED <<want, conn, writer, stage, registry, flag, asked, busy, reserved>>

\* The reader leaves its loop (end of stream or lag) and cancels what this
\* connection has registered.
CancelConnection(c) ==
  /\ conn[c] = "open"
  /\ conn' = [conn EXCEPT ![c] = "closed"]
  /\ LET mine == {r \in registry : ConnOf[r] = c}
     IN /\ registry' = registry \ mine
        /\ flag' = flag \cup mine
  /\ UNCHANGED <<want, writer, peer, stage, asked, busy, reserved>>

Disconnect(c) == c \notin peer /\ CancelConnection(c)

\* The forwarder of c lagged behind the broadcast channel.
LagClose(c) == c \in peer /\ CancelConnection(c)

\* The idle timer: nothing moved for IDLE_CLOSE and no operation is counted.
\* A request that is still being checked has just arrived, unless it waits
\* for the snapshot gate, as a generation or a model action may.
IdleClose(c) ==
  /\ busy[c] = 0
  /\ \A r \in Req : ConnOf[r] = c /\ stage[r] = "checking"
                     => want[r] \in {"generate", "action"}
  /\ CancelConnection(c)

\* A write to the departed client fails and the writer drops its queue; or
\* every handler has ended and it has nothing left to write.
WriterEnds(c) ==
  /\ c \in writer
  /\ \/ c \notin peer
     \/ conn[c] = "closed" /\ \A r \in Req : ConnOf[r] = c => stage[r] \in {"unsent", "done"}
  /\ writer' = writer \ {c}
  /\ peer' = peer \ {c}
  /\ UNCHANGED <<want, conn, stage, registry, flag, asked, busy, reserved>>

-----------------------------------------------------------------------------
(* Ends of a handler.  The task removes its key whatever the result.       *)

EndRequest(r) ==
  /\ To(r, "done")
  /\ registry' = registry \ {r}

\* Authentication or a precondition fails: nothing was counted or reserved.
Refuse(r) ==
  /\ stage[r] = "checking"
  /\ EndRequest(r)
  /\ UNCHANGED <<want, conn, writer, peer, flag, asked, busy, reserved>>

\* Dropping the handler's guards: BusyGuard and ModelOperationGuard.
Release(r) ==
  /\ Uncount(r)
  /\ reserved' = reserved \ {r}

\* The handler returns an error from any point of its work: the model server
\* failed, or a send did because the writer is gone.
Fail(r) ==
  /\ stage[r] \in ActiveRequest \cup {"ending"}
  /\ EndRequest(r)
  /\ Release(r)
  /\ UNCHANGED <<want, conn, writer, peer, flag, asked>>

-----------------------------------------------------------------------------
(* Generations.                                                            *)

\* Generate: checks passed, the key is registered, generate counts itself,
\* prepares the prompt, announces the message and asks for admission.
RegisterGeneration(r) ==
  /\ want[r] = "generate"
  /\ stage[r] = "checking"
  /\ To(r, "waiting")
  /\ registry' = registry \cup {r}
  /\ Count(r)
  /\ UNCHANGED <<want, conn, writer, peer, flag, asked, reserved>>

\* text_workload admits the generation; the wait for it is not cancellable.
Admitted(r) ==
  /\ want[r] = "generate"
  /\ stage[r] = "waiting"
  /\ To(r, "connecting")
  /\ UNCHANGED <<want, conn, writer, peer, registry, flag, asked, busy, reserved>>

\* The model server starts to stream.  The select is biased to the cancel
\* channel.
StreamStarts(r) ==
  /\ want[r] = "generate"
  /\ stage[r] = "connecting"
  /\ r \notin flag
  /\ To(r, "working")
  /\ UNCHANGED <<want, conn, writer, peer, registry, flag, asked, busy, reserved>>


\* Cancelled before the stream started: StreamEnd, and nothing is persisted.
CancelledBeforeStream(r) ==
  /\ want[r] = "generate"
  /\ stage[r] = "connecting"
  /\ r \in flag
  /\ EndRequest(r)
  /\ Release(r)
  /\ UNCHANGED <<want, conn, writer, peer, flag, asked>>

\* The stream ends, or the cancel channel fires first: either way the text
\* so far is persisted (see Replies).
StreamEnds(r) ==
  /\ want[r] = "generate"
  /\ stage[r] = "working"
  /\ To(r, "ending")
  /\ UNCHANGED <<want, conn, writer, peer, registry, flag, asked, busy, reserved>>

\* Delta, publication, StreamEnd, portrait and memory jobs.
GenerationEnds(r) ==
  /\ want[r] = "generate"
  /\ stage[r] = "ending"
  /\ ConnOf[r] \in writer
  /\ EndRequest(r)
  /\ Release(r)
  /\ UNCHANGED <<want, conn, writer, peer, flag, asked>>

-----------------------------------------------------------------------------
(* Image jobs: cancellable_image_job.                                      *)

\* The job counts itself busy and registers its key.
RegisterImageJob(r) ==
  /\ want[r] = "image"
  /\ stage[r] = "checking"
  /\ To(r, "working")
  /\ registry' = registry \cup {r}
  /\ Count(r)
  /\ UNCHANGED <<want, conn, writer, peer, flag, asked, reserved>>

\* The biased select: the cancel channel, the closed queue, the work.  The
\* key and the counter are dropped on each branch.
ImageJobEnds(r) ==
  /\ want[r] = "image"
  /\ stage[r] = "working"
  /\ EndRequest(r)
  /\ Release(r)
  /\ UNCHANGED <<want, conn, writer, peer, flag, asked>>

-----------------------------------------------------------------------------
(* Model operations: AdminOllamaAction.                                    *)

\* Mutant: the limit counts one download too few.
ReservableOneMore(r) ==
  /\ \A s \in reserved : ModelOf[s] # ModelOf[r]
  /\ want[r] = "pull" =>
       Cardinality({s \in reserved : want[s] = "pull"}) <= MaxDownloads

\* reserve_model_operation: one operation per model, bounded downloads.
Reservable(r) ==
  /\ \A s \in reserved : ModelOf[s] # ModelOf[r]
  /\ want[r] = "pull" =>
       Cardinality({s \in reserved : want[s] = "pull"}) < MaxDownloads

\* The administrator check passed: the handler counts itself and starts; the
\* download's select looks at its cancel channel before its work.
StartOperation(r) ==
  /\ want[r] \in {"pull", "action"}
  /\ stage[r] = "checking"
  /\ To(r, "connecting")
  /\ Count(r)
  /\ UNCHANGED <<want, conn, writer, peer, registry, flag, asked, reserved>>

Reserve(r) ==
  /\ want[r] \in {"pull", "action"}
  /\ stage[r] = "connecting"
  /\ want[r] = "pull" => r \notin flag /\ ConnOf[r] \in writer
  /\ Reservable(r)
  /\ reserved' = reserved \cup {r}
  /\ To(r, "working")
  /\ UNCHANGED <<want, conn, writer, peer, registry, flag, asked, busy>>

\* A download's select ends: cancelled, queue closed, or complete.  The work
\* and its reservation are dropped before ModelDownloadFinished is sent.
DownloadEnds(r) ==
  /\ want[r] = "pull"
  /\ \/ stage[r] = "working"
     \/ stage[r] = "connecting" /\ (r \in flag \/ ConnOf[r] \notin writer)
  /\ To(r, "ending")
  /\ reserved' = reserved \ {r}
  /\ UNCHANGED <<want, conn, writer, peer, registry, flag, asked, busy>>

\* The answer of a download or of another action is sent.
OperationEnds(r) ==
  /\ \/ want[r] = "pull" /\ stage[r] = "ending"
     \/ want[r] = "action" /\ stage[r] = "working"
  /\ ConnOf[r] \in writer
  /\ EndRequest(r)
  /\ Release(r)
  /\ UNCHANGED <<want, conn, writer, peer, flag, asked>>

-----------------------------------------------------------------------------
Handle(r) ==
  \/ Refuse(r) \/ RegisterGeneration(r) \/ Admitted(r) \/ StreamStarts(r)
  \/ CancelledBeforeStream(r) \/ StreamEnds(r) \/ GenerationEnds(r)
  \/ RegisterImageJob(r) \/ ImageJobEnds(r)
  \/ StartOperation(r) \/ Reserve(r) \/ DownloadEnds(r) \/ OperationEnds(r)
  \/ Fail(r)

RequestNext ==
  \/ \E c \in Conn :
       PeerLeaves(c) \/ Disconnect(c) \/ LagClose(c) \/ IdleClose(c) \/ WriterEnds(c)
  \/ \E r \in Req : Read(r) \/ ReadCancel(r) \/ Handle(r)

RequestSpec == RequestInit /\ [][RequestNext]_requestVars

(***************************************************************************)
(* Fairness.  Handlers are tokio tasks and keep running, so a check ends,  *)
(* the gate admits (WorkloadGate shows when), a select notices its cancel  *)
(* channel or its closed queue, and a handler with nothing left to wait    *)
(* for returns.  A model server need never answer.                         *)
(***************************************************************************)
Signalled(r) == r \in flag \/ ConnOf[r] \notin writer

RequestFairness == \A r \in Req :
  /\ WF_requestVars(Refuse(r) \/ RegisterGeneration(r) \/ RegisterImageJob(r) \/ StartOperation(r))
  /\ WF_requestVars(Admitted(r))
  /\ WF_requestVars(CancelledBeforeStream(r))
  /\ WF_requestVars(r \in flag /\ StreamEnds(r))
  /\ WF_requestVars(Signalled(r) /\ (ImageJobEnds(r) \/ DownloadEnds(r)))
  /\ WF_requestVars(stage[r] = "ending" /\ (GenerationEnds(r) \/ OperationEnds(r) \/ Fail(r)))

RequestFairSpec == RequestSpec /\ RequestFairness

-----------------------------------------------------------------------------
(* Properties.                                                             *)

RequestTypeOK ==
  /\ want \in Workloads
  /\ conn \in [Conn -> {"open", "closed"}]
  /\ writer \subseteq Conn /\ peer \subseteq Conn
  /\ stage \in [Req -> RequestStage]
  /\ registry \subseteq Req /\ flag \subseteq Req /\ asked \subseteq Req
  /\ busy \in [Conn -> Nat]
  /\ reserved \subseteq Req

\* What ends a request and what the broker keeps of it is exact, however
\* operations succeed, fail or are refused: no key outlives its handler
\* (transport.rs 143, main.rs 1886 and 2197); reservations are the running
\* operations, on distinct models and with no more downloads than allowed
\* (adapters.rs 143-183); and the busy counter, the only thing the idle close
\* looks at (transport.rs 99-109), counts every operation under way.
RequestBooksExact ==
  /\ RequestTypeOK
  /\ \A r \in registry : stage[r] \notin {"unsent", "done"}
  /\ \A r \in Req : r \in reserved <=> want[r] \in {"pull", "action"} /\ stage[r] = "working"
  /\ \A r, s \in reserved : ModelOf[r] = ModelOf[s] => r = s
  /\ Cardinality({r \in reserved : want[r] = "pull"}) <= MaxDownloads
  /\ \A c \in Conn : busy[c] =
       Cardinality({r \in Req : ConnOf[r] = c /\ stage[r] \in ActiveRequest \cup {"ending"}})

\* A request is signalled only by a Cancel of its own connection or by the end
\* of its own connection, whatever ids other clients use (transport.rs 163-172
\* and 189-199); and "Disconnect or transport failure cancels outstanding pulls"
\* (ARCHITECTURE.md; main.rs 335-336): neither a Cancel that follows its
\* download at any distance nor the close of the connection misses a download
\* under way.
CancelIsExact ==
  /\ \A r \in flag : r \in asked \/ conn[ConnOf[r]] = "closed"
  /\ \A r \in Req : want[r] = "pull" /\ stage[r] \notin {"unsent", "done"} =>
       (r \in asked \/ conn[ConnOf[r]] = "closed" => r \in flag)

\* "Disconnect cancels generation work owned by that connection"
\* (ARCHITECTURE.md; the Generate handler, main.rs 1867-1872): work goes on for
\* a closed connection only until it looks at its cancel channel.
DisconnectCancelsGenerations ==
  \A r \in Req : want[r] = "generate" /\ stage[r] \in ActiveRequest =>
    (conn[ConnOf[r]] = "closed" => r \in flag)


=============================================================================
