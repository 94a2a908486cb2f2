-------------------------- MODULE CobsReceiverProps --------------------------
(***************************************************************************)
(* What the receiver promises.  Verdict judges a frame by its bytes alone, *)
(* from the table of doc/PROTOCOL.md, section 8, and the reference decoder *)
(* of CobsReference.                                                       *)
(***************************************************************************)
EXTENDS CobsReceiver

CONSTANT NoPacket

Content(b) == SubSeq(payload[b], 1, size[b])
inbox == [k \in DOMAIN queue |-> Content(queue[k])]
view == [h \in Handles |-> IF pkt[h] = NoBlock THEN NoPacket ELSE Content(pkt[h])]

ReceiverTypeOK ==
    /\ PacketsTypeOK
    /\ DecoderType(m_decoder, [at : Blocks \union {"length"}, size : Nat])
    /\ m_lengthBytes \in [1 .. length_size(Format) -> Byte]
    /\ m_stage \in {"NeedHeader", "Header", "Body"}
    /\ m_stats \in [Counters -> Nat]
    /\ \A b \in Blocks : size[b] \in 0 .. max_receive_body(Format)

OutputIsOwned ==
    phase = "open" =>
        /\ m_stage = "Body" <=> m_building # NoBlock
        /\ m_decoder.hasOutput =>
             m_decoder.output = IF m_stage = "Body" THEN BlockSegment(m_building, size[m_building])
                                ELSE LengthSegment

WithinGrant ==
    /\ m_building # NoBlock => Len(payload[m_building]) <= size[m_building]
    /\ \A b \in Queued \union (Held \ {NoBlock}) :
          Len(payload[b]) \in {0, size[b] + Format.crc_size}

\* Memory safety of the reception: every part keeps its range, the decoder writes only into memory its
\* owner has for it, the length field while the header is read and the block
\* being built while a body is; a block is being built exactly then; and no
\* block holds more bytes than storage was asked for, or, once published,
\* fewer than its body.
WritesAreOwned == ReceiverTypeOK /\ OutputIsOwned /\ WithinGrant

-----------------------------------------------------------------------------
Lost(primary, hunts) ==
    {"frames_lost", primary} \union (IF hunts THEN {"resyncs"} ELSE {})

\* What a header says, the body behind it, and whether a body can be that long.
Says(out) == load_length(Format, out)
BodyIn(out) == SubSeq(out, length_size(Format) + 1, Len(out))
CanHold(n) == n <= max_receive_body(Format) /\ n > 0 /\ n >= Format.crc_size

\* The counters a frame w moves, when storage refuses it a block or not.
Verdict(w, refused) ==
    LET out == Decoded(w)
        header == length_size(Format)
        body == BodyIn(out)
        says == Says(out)
        tooLong == says > max_receive_body(Format)
        possible == CanHold(says)
    IN  CASE Len(out) > header /\ tooLong -> Lost("oversize", TRUE)
          [] Len(out) > header /\ ~tooLong /\ ~possible -> Lost("length_mismatch", TRUE)
          [] Len(out) > header /\ possible /\ refused -> Lost("allocation_failure", TRUE)
          [] Len(out) > header /\ possible /\ ~refused /\ Len(body) > says ->
                Lost("length_mismatch", TRUE)
          [] Len(out) > header /\ possible /\ ~refused /\ Len(body) <= says ->
                IF ~WellFormed(w) THEN Lost("malformed", FALSE)
                ELSE IF Len(body) < says THEN Lost("length_mismatch", FALSE)
                ELSE IF ~verify(body) THEN Lost("crc_errors", FALSE)
                ELSE {"frames_received"}
          [] Len(out) <= header ->
                IF ~WellFormed(w) THEN Lost("malformed", FALSE)
                ELSE IF Len(out) < header THEN Lost("length_mismatch", FALSE)
                ELSE IF tooLong THEN Lost("oversize", FALSE)
                ELSE IF says > 0 \/ Format.crc_size > 0 THEN Lost("length_mismatch", FALSE)
                ELSE IF refused THEN Lost("allocation_failure", FALSE)
                ELSE {"frames_received"}

BodyOf(w) ==
    LET out == Decoded(w)
    IN  SubSeq(out, length_size(Format) + 1, Len(out) - Format.crc_size)

Delimited == chunk # <<>> /\ chunk' = <<>>

\* Every frame is accounted for exactly once, at its delimiter and as its
\* bytes deserve, however it was cut into calls and whatever came before it;
\* exactly the good ones are delivered, whole and in order.  A frame with a
\* gap in it is lost and nothing of it is delivered.
FrameVerdict ==
    [][/\ Delimited /\ gaps = 0 =>
            LET moved == Verdict(chunk, m_stats'["allocation_failure"] > 0)
            IN  /\ m_stats' = Bump(NoCounts, moved)
                /\ inbox' = IF "frames_received" \in moved THEN Append(inbox, BodyOf(chunk))
                                                           ELSE inbox
       /\ Delimited /\ gaps > 0 =>
            /\ m_stats'["frames_received"] = 0 /\ m_stats'["frames_lost"] >= gaps
            /\ inbox' = inbox
       /\ Len(queue') > Len(queue) => Delimited]_vars

\* Packets are values: blocks are shared, counted, linked and granted again
\* without any handle or waiting packet ever reading something else.
Inbox == INSTANCE CobsInbox
PacketsAreValues == Inbox!Spec

\* The receiver moves blocks only as their owner may: it never builds two at a
\* time, publishes one twice or gives back one that it does not own.
BlocksAreOwned == PacketsSpec
=============================================================================
