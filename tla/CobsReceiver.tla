----------------------------- MODULE CobsReceiver -----------------------------
(***************************************************************************)
(* cobs::detail::Receiver (src/cobs/detail/Receiver.h): the decoder, the   *)
(* two-stage reception (length field, then a block of exactly the declared *)
(* size) and the packets of CobsPackets, put together.  One Consume is one *)
(* byte handed to Receiver::consume, with every call it causes.            *)
(*                                                                         *)
(* The counters are kept relative to the frame: what each one gained since *)
(* the frame under way began.                                              *)
(***************************************************************************)
EXTENDS CobsPackets, CobsDecoder

CONSTANTS
    Formats,         \* Layouts: [crc_size, max_receive_size, max_send_size]
    Checksum(_, _),  \* of the CRC policy: a payload to as many bytes
    MaxChunk(_),     \* bound, of a Layout: non-zero bytes of a frame
    MaxGaps(_)       \* bound, of a Layout: gaps reported within a frame

\* The memory of the length field is the receiver's own, and a checksum of no
\* bytes has none.
ASSUME ReceiverAssumption ==
    /\ "length" \notin Blocks
    /\ Checksum(<<>>, 0) = <<>>
    /\ Formats \subseteq [crc_size : Nat, max_receive_size : Nat, max_send_size : Nat]

VARIABLES
    Format,                  \* the Layout this receiver was compiled for
    m_decoder,
    m_lengthBytes,
    m_stage,                 \* "NeedHeader", "Header", "Body"
    size, payload,           \* of each block: its size field, its written bytes
    m_stats,                 \* what each counter gained in this frame
    chunk,                   \* history: the non-zero bytes of this frame
    gaps                     \* history: the gaps reported in this frame

contents == <<size, payload>>
history == <<chunk, gaps>>
vars == <<Format, packets, m_decoder, m_lengthBytes, m_stage, contents, m_stats, history>>

Counters == {"frames_received", "frames_lost", "allocation_failure", "malformed",
             "oversize", "length_mismatch", "resyncs", "crc_errors"}

NoCounts == [c \in Counters |-> 0]
Bump(s, cs) == [c \in Counters |-> s[c] + (IF c \in cs THEN 1 ELSE 0)]

\* A frame that has not begun has counted nothing.
FrameCounts == IF chunk = <<>> /\ m_decoder.state = "Synced" THEN NoCounts ELSE m_stats
Counted(cs) == m_stats' = Bump(FrameCounts, cs)

LengthSegment == [at |-> "length", size |-> length_size(Format)]
BlockSegment(b, n) == [at |-> b, size |-> n]

ReceiverInit ==
    /\ PacketsInit
    /\ Format \in Formats
    /\ m_decoder = prepare_output(NewDecoder, LengthSegment)
    /\ m_lengthBytes = [k \in 1 .. length_size(Format) |-> 0]
    /\ m_stage = "Header"
    /\ size = [b \in Blocks |-> 0] /\ payload = [b \in Blocks |-> <<>>]
    /\ m_stats = NoCounts
    /\ chunk = <<>> /\ gaps = 0

-----------------------------------------------------------------------------
(* Memory.                                                                 *)

\* What is in a block that storage has is nobody's.
Contents(s, p) ==
    /\ size' = [b \in Blocks |-> IF b \in live' THEN s[b] ELSE 0]
    /\ payload' = [b \in Blocks |-> IF b \in live' THEN p[b] ELSE <<>>]

\* The decoder d wrote `put` where its segment says.
Written(d, put) ==
    /\ m_lengthBytes' = IF put # <<>> /\ d.output.at = "length"
                        THEN [m_lengthBytes EXCEPT ![d.written + 1] = put[1]]
                        ELSE m_lengthBytes
    /\ Contents(size, [b \in Blocks |->
                         IF b = d.output.at THEN payload[b] \o put ELSE payload[b]])

declared == load_length(Format, m_lengthBytes)

\* crc::verify over a whole body.
verify(body) ==
    LET n == Len(body) - Format.crc_size
    IN  n >= 0 /\ SubSeq(body, n + 1, Len(body)) = Checksum(SubSeq(body, 1, n), Format.crc_size)

-----------------------------------------------------------------------------
(* The ends of a frame.                                                    *)

\* Mutant: a frame lost at its delimiter keeps its block.
endFrame_KeepsBuilding(d, causes) ==
    /\ UNCHANGED <<live, headers, m_building, lists, pkt, phase>>
    /\ Contents(size, payload)
    /\ m_decoder' = prepare_output(d, LengthSegment) /\ m_stage' = "Header"
    /\ Counted(causes \union {"frames_lost"})
    /\ UNCHANGED m_lengthBytes

\* Lost at its delimiter, which has already resynchronised the stream.
endFrame(d, causes) ==
    /\ ReleaseBuilding /\ UNCHANGED phase
    /\ Contents(size, payload)
    /\ m_decoder' = prepare_output(d, LengthSegment) /\ m_stage' = "Header"
    /\ Counted(causes \union {"frames_lost"})
    /\ UNCHANGED m_lengthBytes

\* Given up before its delimiter, byte b of it still unread.
abandonFrame(d, b, causes) ==
    /\ ReleaseBuilding /\ UNCHANGED phase
    /\ Contents(size, payload)
    /\ m_decoder' = consume(discard_until_delimiter(d), b).d
    /\ m_stage' = "NeedHeader"
    /\ Counted(causes \union {"frames_lost", "resyncs"})
    /\ UNCHANGED m_lengthBytes

-----------------------------------------------------------------------------
(* onNeedOutput.                                                           *)

\* The first request after a resynchronisation gets the length field.
AttachHeader(r) ==
    /\ r.event = "NeedOutput" /\ m_stage = "NeedHeader"
    /\ m_decoder' = attach_output(r.d, LengthSegment) /\ m_stage' = "Header"
    /\ Counted({})
    /\ UNCHANGED <<packets, contents, m_lengthBytes>>

\* The length field is full and more is coming.
BodyBegins(r) == r.event = "NeedOutput" /\ m_stage = "Header"

Contradicted == declared = 0 \/ declared < Format.crc_size

RefuseBody(r, b) ==
    /\ BodyBegins(r)
    /\ \/ /\ declared > max_receive_body(Format)
          /\ abandonFrame(r.d, b, {"oversize"})
       \/ /\ declared <= max_receive_body(Format) /\ Contradicted
          /\ abandonFrame(r.d, b, {"length_mismatch"})
       \/ /\ declared <= max_receive_body(Format) /\ ~Contradicted
          /\ abandonFrame(r.d, b, {"allocation_failure"})

\* acquire_block(n) succeeded with block c, which becomes m_building.
Granted(c, n) ==
    /\ c \notin live
    /\ live' = live \union {c}
    /\ refs' = [refs EXCEPT ![c] = 1]
    /\ next_ready' = [next_ready EXCEPT ![c] = NoBlock]
    /\ m_building' = c
    /\ UNCHANGED <<lists, pkt, phase>>

\* The segment is the declared length exactly; the byte that asked for room
\* is then read again.
beginBody(r, b, c) ==
    LET d == attach_output(r.d, BlockSegment(c, declared))
        s == consume(d, b)
    IN  /\ BodyBegins(r) /\ declared <= max_receive_body(Format) /\ ~Contradicted
        /\ Granted(c, declared)
        /\ Contents([size EXCEPT ![c] = declared], [payload EXCEPT ![c] = s.put])
        /\ m_decoder' = s.d /\ m_stage' = "Body"
        /\ Counted({})
        /\ UNCHANGED m_lengthBytes

\* More body than was declared.
Overrun(r, b) ==
    /\ r.event = "NeedOutput" /\ m_stage = "Body"
    /\ abandonFrame(r.d, b, {"length_mismatch"})

-----------------------------------------------------------------------------
(* onFrameComplete.                                                        *)

\* Mutant: a length field without a body is not held against the limit.
BareHeader_NoLimit(n) ==
    CASE n < length_size(Format) -> "length_mismatch"
      [] declared # 0 \/ Format.crc_size # 0 -> "length_mismatch"
      [] OTHER -> "fine"

\* What is wrong with a frame of n decoded bytes that never began a body.
BareHeader(n) ==
    CASE n < length_size(Format) -> "length_mismatch"
      [] n >= length_size(Format) /\ declared > max_receive_body(Format) -> "oversize"
      [] n >= length_size(Format) /\ declared <= max_receive_body(Format)
           /\ (declared # 0 \/ Format.crc_size # 0) -> "length_mismatch"
      [] OTHER -> IF verify(<<>>) THEN "fine" ELSE "crc_errors"

\* What is wrong with the block being built, n decoded bytes in all.
WholeBody(n) ==
    IF n - length_size(Format) # size[m_building] THEN "length_mismatch"
    ELSE IF verify(payload[m_building]) THEN "fine" ELSE "crc_errors"

Judgement(n) == IF m_stage = "Body" THEN WholeBody(n) ELSE BareHeader(n)

LoseComplete(r) ==
    /\ r.event = "FrameComplete" /\ Judgement(r.size) # "fine"
    /\ endFrame(r.d, {Judgement(r.size)})

\* publish: the block's size becomes the payload's and endFrame prepares the
\* next header.
Published(r, c, n) ==
    /\ Contents([size EXCEPT ![c] = n], payload)
    /\ m_decoder' = prepare_output(r.d, LengthSegment) /\ m_stage' = "Header"
    /\ Counted({"frames_received"})
    /\ UNCHANGED m_lengthBytes

PublishBody(r) ==
    /\ r.event = "FrameComplete" /\ m_stage = "Body" /\ WholeBody(r.size) = "fine"
    /\ Publish
    /\ Published(r, m_building, r.size - length_size(Format) - Format.crc_size)

\* A frame that is a packet of no bytes is granted its block at the delimiter.
PublishNothing(r, c) ==
    /\ r.event = "FrameComplete" /\ m_stage # "Body" /\ BareHeader(r.size) = "fine"
    /\ PublishEmpty(c)
    /\ Published(r, c, 0)

RefuseNothing(r) ==
    /\ r.event = "FrameComplete" /\ m_stage # "Body" /\ BareHeader(r.size) = "fine"
    /\ endFrame(r.d, {"allocation_failure"})

-----------------------------------------------------------------------------
(* consume, one byte, and gap.                                             *)

Absorb(r) ==
    /\ r.event = "None"
    /\ m_decoder' = r.d
    /\ UNCHANGED packets
    /\ Written(m_decoder, r.put)
    /\ Counted({})
    /\ UNCHANGED m_stage

Malformed(r) ==
    /\ r.event = "Malformed"
    /\ endFrame(r.d, {"malformed"})

Handled(r, b) ==
    \/ Absorb(r) \/ Malformed(r)
    \/ AttachHeader(r) \/ RefuseBody(r, b) \/ Overrun(r, b)
    \/ \E c \in Blocks : beginBody(r, b, c)
    \/ LoseComplete(r) \/ PublishBody(r) \/ RefuseNothing(r)
    \/ \E c \in Blocks : PublishNothing(r, c)

Consume(b) ==
    /\ phase = "open"
    /\ b # 0 => Len(chunk) < MaxChunk(Format)
    /\ Handled(consume(m_decoder, b), b)
    /\ chunk' = IF b = 0 THEN <<>> ELSE Append(chunk, b)
    /\ gaps' = IF b = 0 THEN 0 ELSE gaps

\* Mutant: the decoder is left where it was.
gap_KeepsDecoder ==
    /\ phase = "open" /\ gaps < MaxGaps(Format)
    /\ ReleaseBuilding /\ UNCHANGED phase
    /\ Contents(size, payload)
    /\ m_decoder' = m_decoder
    /\ m_stage' = "NeedHeader"
    /\ Counted({"frames_lost", "resyncs"})
    /\ gaps' = gaps + 1
    /\ UNCHANGED <<m_lengthBytes, chunk>>

\* The transport lost bytes.
gap ==
    /\ phase = "open" /\ gaps < MaxGaps(Format)
    /\ ReleaseBuilding /\ UNCHANGED phase
    /\ Contents(size, payload)
    /\ m_decoder' = discard_until_delimiter(m_decoder)
    /\ m_stage' = "NeedHeader"
    /\ Counted({"frames_lost", "resyncs"})
    /\ gaps' = gaps + 1
    /\ UNCHANGED <<m_lengthBytes, chunk>>

\* The application's packets, and the destructor.
Elsewhere ==
    /\ Application \/ Destroy \/ ClearOne \/ Closed
    /\ Contents(size, payload)
    /\ UNCHANGED <<m_decoder, m_lengthBytes, m_stage, m_stats, history>>

ReceiverNext ==
    /\ \/ \E b \in Byte : Consume(b)
       \/ gap
       \/ Elsewhere
    /\ UNCHANGED Format

ReceiverSpec == ReceiverInit /\ [][ReceiverNext]_vars
=============================================================================
