--------------------------- MODULE AdapterStream ---------------------------
(***************************************************************************)
(* Reading a streamed reply.  The provider sends records, one per line, in *)
(* chunks cut anywhere; the host (Decoder, HttpStream) keeps what follows  *)
(* the last line end and hands the complete lines to the guest, which      *)
(* turns them into one update.                                             *)
(* Source: chatty-broker/src/adapters/runtime/mod.rs (Decoder,             *)
(* HttpStream), wasm.rs (Session::invoke), the Stream arms of              *)
(* chatty-adapters/shared/openai_compatible.rs and ollama/src/lib.rs.      *)
(***************************************************************************)
EXTENDS Integers, Sequences, SequencesExt

CONSTANTS MaxRecords,    \* records of a reply
          MaxPiece,      \* bytes of a chunk
          BufferLimit,   \* MAX_MESSAGE_BYTES
          GuestBlocks    \* allocations the guest's memory has room for

VARIABLES reply,         \* the provider's records, their dialect and last line end
          body,          \* bytes not yet received
          reader         \* the host's stream

streamVars == <<reply, body, reader>>

\* "note" is a line of another kind: an SSE comment, or a line that is no JSON.
RecordKind == {"text", "think", "usage", "note", "error", "end"}
Dialect == {"sse", "ndjson"}

\* A record is two bytes long; a byte is the record's index and its place.
LineEnd == <<0, 0>>
Encoded(kinds, closed) ==
  LET lines == [k \in DOMAIN kinds |-> <<<<k, 1>>, <<k, 2>>>> \o
                  (IF k < Len(kinds) \/ closed THEN <<LineEnd>> ELSE <<>>)]
  IN FlattenSeq(lines)

----------------------------------------------------------------------------
(* The guest *)

\* The records of complete lines, in order.
RecordsIn(bytes) == [k \in 1 .. Cardinality({i \in DOMAIN bytes : bytes[i][2] = 2}) |->
  LET ends == {i \in DOMAIN bytes : bytes[i][2] = 2}
      nth == CHOOSE i \in ends : Cardinality({j \in ends : j <= i}) = k
  IN bytes[nth][1]]

\* The OpenAI-compatible guest skips lines without data and fails on an error
\* object; its end mark says nothing more.
SseRecord(kind) == [refused |-> kind = "error", speaks |-> kind = "text"]

\* Ollama's guest also fails on a line that is no record, and the record that
\* ends the reply (done, or a download's success) may still carry text.
NdjsonRecord(kind) == [refused |-> kind \in {"error", "note"}, speaks |-> kind \in {"text", "end"}]

RecordOf(kind, dialect) == IF dialect = "sse" THEN SseRecord(kind) ELSE NdjsonRecord(kind)

\* PluginInput::Stream: records up to the end mark make one update; a refused
\* one before it fails the whole batch.
Translate(records, kinds, dialect) ==
  LET ends == {k \in DOMAIN records : kinds[records[k]] = "end"}
      last == IF ends = {} THEN Len(records) ELSE CHOOSE k \in ends : \A j \in ends : k <= j
      seen == SubSeq(records, 1, last)
      spoken == SelectSeq(seen, LAMBDA r : RecordOf(kinds[r], dialect).speaks)
      counts == SelectSeq(seen, LAMBDA r : kinds[r] = "usage")
  IN [failed |-> \E k \in DOMAIN seen : RecordOf(kinds[seen[k]], dialect).refused,
      text |-> spoken,
      usage |-> IF counts = <<>> THEN 0 ELSE counts[Len(counts)],
      think |-> \E k \in DOMAIN seen : kinds[seen[k]] = "think",
      done |-> ends # {}]

\* Session::invoke: the input and the guest's output are allocated in the
\* guest's memory, which traps when it is full; both are given back.
InvokeLeaving(blocks, left) == IF blocks + 2 > GuestBlocks THEN -1 ELSE blocks + left

InvokeLeaking(blocks) == InvokeLeaving(blocks, 1)

Invoke(blocks) == InvokeLeaving(blocks, 0)

----------------------------------------------------------------------------
(* The host *)

LastLineEnd(bytes) ==
  LET ends == {i \in DOMAIN bytes : bytes[i] = LineEnd}
  IN IF ends = {} THEN 0 ELSE CHOOSE i \in ends : \A j \in ends : j <= i

Fail == [reader EXCEPT !.at = "failed"]

\* Decoder::push, then HttpStream::read_next's bookkeeping: an update is
\* returned, the stream ended by the end of the body or the guest's done.
Push(bytes, eof) ==
  LET grown == reader.buffer \o bytes
      buffer == IF eof /\ grown # <<>> /\ grown[Len(grown)] # LineEnd THEN Append(grown, LineEnd) ELSE grown
      cut == LastLineEnd(buffer)
      blocks == Invoke(reader.blocks)
      update == Translate(RecordsIn(SubSeq(buffer, 1, cut)), reply.kinds, reply.dialect)
  IN IF Len(grown) > BufferLimit THEN [Fail EXCEPT !.long = TRUE]
     ELSE IF cut = 0 THEN [reader EXCEPT !.buffer = buffer, !.at = IF eof THEN "ended" ELSE @]
     ELSE IF blocks < 0 \/ update.failed THEN Fail
     ELSE [reader EXCEPT !.buffer = SubSeq(buffer, cut + 1, Len(buffer)),
                         !.blocks = blocks,
                         !.text = @ \o update.text,
                         !.usage = IF update.usage = 0 THEN @ ELSE update.usage,
                         !.think = @ \/ update.think,
                         !.at = IF eof \/ update.done THEN "ended" ELSE @]

Chunk ==
  /\ reader.at = "open"
  /\ \E n \in 1 .. MaxPiece :
       /\ n <= Len(body)
       /\ reader' = Push(SubSeq(body, 1, n), FALSE)
       /\ body' = SubSeq(body, n + 1, Len(body))
  /\ UNCHANGED reply

EndOfBody ==
  /\ reader.at = "open" /\ body = <<>>
  /\ reader' = Push(<<>>, TRUE)
  /\ UNCHANGED <<reply, body>>

\* The connection breaks, or the consumer drops the stream.
Break ==
  /\ reader.at = "open"
  /\ reader' = [reader EXCEPT !.at = "broken"]
  /\ UNCHANGED <<reply, body>>

StreamInit ==
  /\ \E kinds \in UNION {[1 .. n -> RecordKind] : n \in 0 .. MaxRecords}, dialect \in Dialect, closed \in BOOLEAN :
       /\ reply = [kinds |-> kinds, dialect |-> dialect]
       /\ body = Encoded(kinds, closed)
  /\ reader = [at |-> "open", buffer |-> <<>>, blocks |-> 0, text |-> <<>>, usage |-> 0, think |-> FALSE, long |-> FALSE]

StreamNext == Chunk \/ EndOfBody \/ Break

----------------------------------------------------------------------------
(* Properties *)

Whole == Translate([k \in DOMAIN reply.kinds |-> k], reply.kinds, reply.dialect)

\* However the body is cut into chunks, the consumer gets the text of the
\* whole reply: always a prefix of it, and all of it, with the last token
\* count, when the stream ends well; and a stream fails only for a line the
\* guest refuses or one too long to keep, never for its length or number of
\* chunks (Decoder::push, HttpStream::read_next, Session::invoke).
StreamIsFaithful ==
  /\ IsPrefix(reader.text, Whole.text)
  /\ reader.at = "ended" => /\ reader.text = Whole.text /\ reader.usage = Whole.usage
                            /\ reader.think = Whole.think /\ ~Whole.failed
  /\ reader.at = "failed" => Whole.failed \/ reader.long
=============================================================================
