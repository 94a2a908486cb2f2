----------------------------- MODULE CobsDecoder -----------------------------
(***************************************************************************)
(* cobs::codec::Decoder (src/cobs/Codec.h, Decoder.cpp) as a record and    *)
(* the operators of its methods.  consume is given one byte at a time:     *)
(* its loop keeps nothing between two bytes but the record, and a span of  *)
(* one byte is a call like any other.                                      *)
(*                                                                         *)
(* A segment is [at, size]: the memory it lies in, and its length.  The    *)
(* decoder writes there; what it writes is the `put` of a step.            *)
(***************************************************************************)
EXTENDS CobsReference

NoSegment == [at |-> "nowhere", size |-> 0]

NewDecoder ==
    [state |-> "Synced", output |-> NoSegment, hasOutput |-> FALSE, written |-> 0,
     decodedBefore |-> 0, blockRemaining |-> 0, pendingZero |-> FALSE]

\* Everything but the state is forgotten.
dropFrame(d, state) == [NewDecoder EXCEPT !.state = state]

beginBlock(d, c) ==
    [d EXCEPT !.blockRemaining = c - 1, !.pendingZero = (c # FullCode)]

prepare_output(d, segment) ==
    IF d.state # "Synced" THEN d
    ELSE [d EXCEPT !.output = segment, !.hasOutput = TRUE,
                   !.written = 0, !.decodedBefore = 0]

SegmentFull(d) == d.written = d.output.size

\* The answer to NeedOutput; a segment that still has room is not replaced.
attach_output(d, segment) ==
    IF d.state # "Decoding" \/ (d.hasOutput /\ ~SegmentFull(d)) THEN d
    ELSE [d EXCEPT !.output = segment, !.hasOutput = TRUE, !.written = 0,
                   !.decodedBefore = @ + d.written]

discard_until_delimiter(d) == dropFrame(d, "DropUntilDelimiter")

-----------------------------------------------------------------------------
(* One byte of consume: the decoder after it, the event, whether the byte  *)
(* was taken, what was written into the segment, and decoded_size.         *)

Outcome(d, event, took, put, size) ==
    [d |-> d, event |-> event, took |-> took, put |-> put, size |-> size]

Quiet(d, put) == Outcome(d, "None", TRUE, put, 0)
AskFirst(d, took) == Outcome(d, "NeedOutput", took, <<>>, 0)

Skip(d, b) == Quiet([d EXCEPT !.state = IF b = 0 THEN "Synced" ELSE @], <<>>)

\* The first code of a frame is taken even when there is no segment yet.
Open(d, b) ==
    LET e == [beginBlock(d, b) EXCEPT !.state = "Decoding"]
    IN  IF d.hasOutput THEN Quiet(e, <<>>) ELSE AskFirst(e, TRUE)

\* A zero where data is owed is checked before the room for it.
Data(d, b) ==
    CASE b = 0 -> Outcome(dropFrame(d, "Synced"), "Malformed", TRUE, <<>>, 0)
      [] b # 0 /\ SegmentFull(d) -> AskFirst(d, FALSE)
      [] OTHER -> Quiet([d EXCEPT !.written = @ + 1, !.blockRemaining = @ - 1], <<b>>)

\* A delimiter ends the frame and cancels the zero owed; another code makes
\* that zero real, and waits for room for it.
Code(d, b) ==
    CASE b = 0 -> Outcome(dropFrame(d, "Synced"), "FrameComplete", TRUE, <<>>,
                          d.decodedBefore + d.written)
      [] b # 0 /\ d.pendingZero /\ SegmentFull(d) -> AskFirst(d, FALSE)
      [] b # 0 /\ d.pendingZero /\ ~SegmentFull(d) ->
            Quiet(beginBlock([d EXCEPT !.written = @ + 1], b), <<0>>)
      [] OTHER -> Quiet(beginBlock(d, b), <<>>)

consume(d, b) ==
    CASE d.state = "DropUntilDelimiter" -> Skip(d, b)
      [] d.state = "Synced" /\ b = 0 -> Quiet(d, <<>>)
      [] d.state = "Synced" /\ b # 0 -> Open(d, b)
      [] d.state = "Decoding" /\ ~d.hasOutput -> AskFirst(d, FALSE)
      [] d.state = "Decoding" /\ d.hasOutput /\ d.blockRemaining > 0 -> Data(d, b)
      [] OTHER -> Code(d, b)

\* The record keeps its ranges, for segments of the set Segments.
DecoderType(d, Segments) ==
    /\ d.state \in {"Synced", "Decoding", "DropUntilDelimiter"}
    /\ d.output \in Segments \union {NoSegment}
    /\ d.hasOutput \in BOOLEAN /\ d.pendingZero \in BOOLEAN
    /\ d.written \in 0 .. d.output.size
    /\ d.decodedBefore \in Nat
    /\ d.blockRemaining \in 0 .. FullData
=============================================================================
