------------------------------- MODULE Speech -------------------------------
(***************************************************************************)
(* Read-aloud in the client (chatty-gui/src/tts): the state shared under   *)
(* one lock by the user interface (speak, stop) and the worker thread      *)
(* (run), the command channel between them, and the audio sink the worker  *)
(* fills chunk by chunk while it plays.                                    *)
(*                                                                         *)
(* An utterance is the number speak gives it; text, phonemes and samples   *)
(* are left out: a chunk yields sound, silence, or an error.  Each worker  *)
(* action is what it does between two points where it holds the lock.      *)
(***************************************************************************)
EXTENDS Naturals, Sequences

CONSTANTS MaxSpeech,   \* utterances and stops
          MaxChunks,   \* chunks of an utterance
          MaxErrors

ASSUME SpeechAssumption == {MaxSpeech, MaxChunks, MaxErrors} \subseteq Nat

VARIABLES
  id, busy, sink,        \* State: the current utterance, and whose sink is set
  channel,               \* commands
  at, saying, chunks,    \* the worker: where, on which utterance, chunks left
  hasModel,              \* the model and the output stream are there
  alive,                 \* the worker runs
  sound,                 \* samples in each utterance's sink, not yet played
  error, errors

speechVars == <<id, busy, sink, channel, at, saying, chunks, hasModel, alive, sound,
                error, errors>>

SpeechInit ==
  /\ id = 0 /\ busy = FALSE /\ sink = 0 /\ channel = <<>>
  /\ at = "recv" /\ saying = 0 /\ chunks = 0 /\ hasModel = FALSE /\ alive = TRUE
  /\ sound = [u \in 1..MaxSpeech |-> 0] /\ error = FALSE /\ errors = 0

\* cancel_current: the sink is stopped, its samples are dropped.
CancelCurrent ==
  /\ id' = id + 1 /\ sink' = 0
  /\ sound' = [u \in DOMAIN sound |-> IF u = sink THEN 0 ELSE sound[u]]

\* speak: a new utterance replaces the current one.
Speak ==
  /\ id < MaxSpeech /\ CancelCurrent
  /\ IF alive THEN /\ channel' = Append(channel, id') /\ busy' = TRUE /\ error' = FALSE
              ELSE busy' = FALSE /\ error' = TRUE /\ UNCHANGED channel
  /\ UNCHANGED <<at, saying, chunks, hasModel, alive, errors>>

\* stop, also when the client is dropped.
StopSpeech ==
  /\ id < MaxSpeech /\ CancelCurrent /\ busy' = FALSE
  /\ UNCHANGED <<channel, at, saying, chunks, hasModel, alive, error, errors>>

\* The audio device plays.
Play(u) ==
  /\ sound[u] > 0 /\ sound' = [sound EXCEPT ![u] = @ - 1]
  /\ UNCHANGED <<id, busy, sink, channel, at, saying, chunks, hasModel, alive, error, errors>>

-----------------------------------------------------------------------------
(* The worker: run.                                                        *)

Goto(place) == at' = place
Current == saying = id     \* update_state: the utterance is still wanted

\* A command; one that was replaced meanwhile is skipped.
Recv ==
  /\ alive /\ at = "recv" /\ channel # <<>>
  /\ channel' = Tail(channel)
  /\ IF Head(channel) = id
       THEN Goto("load") /\ saying' = Head(channel) /\ \E n \in 1..MaxChunks : chunks' = n
       ELSE UNCHANGED <<at, saying, chunks>>
  /\ UNCHANGED <<id, busy, sink, hasModel, alive, sound, error, errors>>

\* No command for 100 ms: has the sink run dry?
Idled ==
  /\ alive /\ at = "recv" /\ channel = <<>> /\ sink # 0 /\ sound[sink] = 0
  /\ sink' = 0 /\ busy' = FALSE
  /\ UNCHANGED <<id, channel, at, saying, chunks, hasModel, alive, sound, error, errors>>

\* open_output_stream and load_model, on first use.
Load ==
  /\ alive /\ at = "load" /\ hasModel' = TRUE
  /\ IF Current THEN Goto("sink") ELSE Goto("recv")
  /\ UNCHANGED <<id, busy, sink, channel, saying, chunks, alive, sound, error, errors>>

SetSink ==
  /\ alive /\ at = "sink"
  /\ IF Current THEN sink' = saying /\ Goto("chunk") ELSE Goto("recv") /\ UNCHANGED sink
  /\ UNCHANGED <<id, busy, channel, saying, chunks, hasModel, alive, sound, error, errors>>

\* Between chunks: stop, replaced, or generate the next.
NextChunk ==
  /\ alive /\ at = "chunk"
  /\ IF Current /\ chunks > 0 THEN Goto("made") ELSE Goto("recv")
  /\ UNCHANGED <<id, busy, sink, channel, saying, chunks, hasModel, alive, sound, error, errors>>

\* Mutant: the check made before the chunk was generated is relied on.
AppendAnyway == sound' = [sound EXCEPT ![saying] = @ + 1] /\ Goto("chunk")

\* The samples are appended under the lock, if the utterance is still wanted.
AppendSamples ==
  IF Current THEN sound' = [sound EXCEPT ![saying] = @ + 1] /\ Goto("chunk")
  ELSE Goto("recv") /\ UNCHANGED sound

\* A generated chunk; one without sound is skipped.
Chunk ==
  /\ alive /\ at = "made" /\ chunks' = chunks - 1
  /\ AppendSamples \/ (Goto("chunk") /\ UNCHANGED sound)
  /\ UNCHANGED <<id, busy, sink, channel, saying, hasModel, alive, error, errors>>

\* What an error does to an utterance that is still wanted.
Fail ==
  /\ sound' = [u \in DOMAIN sound |-> IF u = sink THEN 0 ELSE sound[u]]
  /\ sink' = 0 /\ busy' = FALSE /\ error' = TRUE

\* Opening the device, loading the model or a chunk fails.
WorkerError ==
  /\ alive /\ at \in {"load", "made"} /\ errors < MaxErrors /\ errors' = errors + 1
  /\ Goto("recv")
  /\ IF Current THEN Fail ELSE UNCHANGED <<sound, sink, busy, error>>
  /\ UNCHANGED <<id, channel, saying, chunks, hasModel, alive>>

\* The runtime panics: the worker ends, and says so.
Panic ==
  /\ alive /\ at \in {"load", "made"} /\ errors < MaxErrors /\ errors' = errors + 1
  /\ CancelCurrent /\ busy' = FALSE /\ error' = TRUE
  /\ alive' = FALSE /\ channel' = <<>>
  /\ UNCHANGED <<at, saying, chunks, hasModel>>

Worker == Recv \/ Idled \/ Load \/ SetSink \/ NextChunk \/ Chunk
Playing == \E u \in DOMAIN sound : Play(u)

SpeechNext == Speak \/ StopSpeech \/ Playing \/ Worker \/ WorkerError \/ Panic

SpeechSpec == SpeechInit /\ [][SpeechNext]_speechVars

\* The worker thread and the audio device run on.
SpeechFairness == WF_speechVars(Worker) /\ WF_speechVars(Playing)

-----------------------------------------------------------------------------
(* Properties.                                                             *)

\* "Check and append under the same lock so Stop cannot race playback": what is
\* heard is the utterance asked for last, and nothing once it was stopped.
OnlyTheLastIsHeard == \A u \in DOMAIN sound : sound[u] > 0 => u = id /\ u = sink /\ busy
=============================================================================
