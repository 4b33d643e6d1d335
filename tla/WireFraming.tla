---------------------------- MODULE WireFraming ----------------------------
(***************************************************************************)
(* One direction of a connection: frames are written as a header that      *)
(* carries the payload's length, then the payload, and read back from a    *)
(* stream that hands out any number of bytes at a time (ProtocolCodec and  *)
(* read_frame in chatty-protocol/src/frame.rs).                            *)
(*                                                                         *)
(* Both ends read a frame as one branch of a select loop: the GUI beside   *)
(* its commands (network/mod.rs), the broker beside the idle timer         *)
(* (transport.rs).  When another branch is taken, the read is dropped with *)
(* whatever it has already consumed.                                       *)
(*                                                                         *)
(* Bytes are positions in the stream; frame f occupies the positions from  *)
(* (f - 1) * (HeaderLen + PayloadLen).  A header read at any other         *)
(* position is garbage: refused, or taken for some length.                 *)
(***************************************************************************)
EXTENDS Naturals, Sequences

CONSTANTS
  Frames,         \* bound: frames written
  HeaderLen,      \* HEADER_LEN (14)
  PayloadLen,     \* length of every payload
  MaxInterrupts   \* bound: how often another branch of the loop is taken

ASSUME FramingAssumption ==
  /\ Frames \in Nat /\ MaxInterrupts \in Nat /\ PayloadLen \in Nat
  /\ HeaderLen \in Nat \ {0}

FrameLen == HeaderLen + PayloadLen

VARIABLES
  sent,        \* bytes written
  pos,         \* bytes consumed
  reading,     \* [phase, got, need, frame]: the read under way; frame 0: garbage
  received,    \* frames handed to the loop, in order
  open,        \* FALSE once the reader has given up on the stream
  interrupts,
  torn         \* a read was dropped after it had consumed bytes

wireVars == <<sent, pos, reading, received, open, interrupts, torn>>

AtHeader == [phase |-> "header", got |-> 0, need |-> HeaderLen, frame |-> 0]

WireInit ==
  /\ sent = 0
  /\ pos = 0
  /\ reading = AtHeader
  /\ received = <<>>
  /\ open = TRUE
  /\ interrupts = 0
  /\ torn = FALSE

-----------------------------------------------------------------------------
\* write_payload: header and payload leave in one write_all.
WriteFrame ==
  /\ open
  /\ sent < Frames * FrameLen
  /\ sent' = sent + FrameLen
  /\ UNCHANGED <<pos, reading, received, open, interrupts, torn>>

\* Mutant: a read waits until the whole rest is there.
ReadableWhole == IF sent - pos < FrameLen + 1 THEN 0 ELSE reading.need - reading.got

\* Mutant: a read fills the spare capacity of the buffer as well.
ReadableInBuffer == sent - pos

\* A read takes at most what is left of the header or the payload:
\* "Spare buffer capacity must not consume the next frame's header."
Readable == IF sent - pos < reading.need - reading.got THEN sent - pos
            ELSE reading.need - reading.got

\* The stream hands out n bytes that do not complete what is being read.
ReadPart(n) ==
  /\ open
  /\ reading.got + n < reading.need
  /\ pos' = pos + n
  /\ reading' = [reading EXCEPT !.got = @ + n]
  /\ UNCHANGED <<sent, received, open, interrupts, torn>>

Deliver(frame) ==
  /\ received' = Append(received, frame)
  /\ reading' = AtHeader

\* The header is complete.  Its length field is the payload's length only if
\* the header was read from where a frame begins.
ReadHeader(n, len) ==
  LET start == pos - reading.got
      genuine == start % FrameLen = 0
  IN /\ open
     /\ reading.phase = "header"
     /\ reading.got + n >= reading.need
     /\ genuine => len = PayloadLen
     /\ LET frame == IF genuine THEN start \div FrameLen + 1 ELSE 0
        IN IF len = 0 THEN Deliver(frame)
           ELSE /\ reading' = [phase |-> "payload", got |-> 0, need |-> len, frame |-> frame]
                /\ UNCHANGED received
     /\ pos' = pos + n
     /\ UNCHANGED <<sent, open, interrupts, torn>>

\* An unknown type or flag, or a length beyond MAX_PAYLOAD.
RefuseHeader(n) ==
  /\ open
  /\ reading.phase = "header"
  /\ reading.got + n >= reading.need
  /\ (pos - reading.got) % FrameLen # 0
  /\ pos' = pos + n
  /\ open' = FALSE
  /\ UNCHANGED <<sent, reading, received, interrupts, torn>>

ReadPayload(n) ==
  /\ open
  /\ reading.phase = "payload"
  /\ reading.got + n >= reading.need
  /\ Deliver(reading.frame)
  /\ pos' = pos + n
  /\ UNCHANGED <<sent, open, interrupts, torn>>

Read ==
  \E n \in 1..Readable :
    \/ ReadPart(n)
    \/ \E len \in 0..PayloadLen + 1 : ReadHeader(n, len)
    \/ RefuseHeader(n)
    \/ ReadPayload(n)

\* A command arrives (GUI), or the idle timer fires while the connection is
\* in use (broker): the future of the read is dropped.
Interrupt ==
  /\ open
  /\ interrupts < MaxInterrupts
  /\ interrupts' = interrupts + 1
  /\ torn' = (torn \/ reading # AtHeader)
  /\ reading' = AtHeader
  /\ UNCHANGED <<sent, pos, received, open>>

WireNext == WriteFrame \/ Read \/ Interrupt
WireSpec == WireInit /\ [][WireNext]_wireVars

\* The reader's loop keeps running while bytes are there.
WireFairness == WF_wireVars(Read)

-----------------------------------------------------------------------------
(* Properties.                                                             *)

\* chatty-protocol/src/tests.rs 53 (fragmented_high_latency_frame_recovers) and
\* 232 (reusable_codec_keeps_consecutive_frames_separate): however the stream
\* is cut into pieces, the frames received are those sent, in order.
FramesIntact == \A i \in DOMAIN received : received[i] = i

\* read_frame in the select loops (network/mod.rs, transport.rs): however the
\* stream is cut, the frames received are those sent, in order, and the
\* connection stays open, as long as every read that another branch of the
\* select dropped had consumed nothing.
IntactUnlessTorn == ~torn => FramesIntact /\ open

\* And each frame that write_frame has written is received by such a read_frame.
FramesArrive == \A f \in 1..Frames : sent >= f * FrameLen ~> Len(received) >= f \/ torn

=============================================================================
