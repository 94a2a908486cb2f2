------------------------------ MODULE RtuStream ------------------------------
(***************************************************************************)
(* modbus::rtu::detail::StreamReceiver and the Receiver it extends         *)
(* (src/modbus/rtu/detail/StreamReceiver.h, Receiver.h) as a record and    *)
(* the operators of their methods.  consume hands the bytes of a call over *)
(* one at a time: between two bytes its loop keeps nothing else.           *)
(*                                                                         *)
(* A block is its bytes; storage grants one while fewer than RxBlocks are  *)
(* out.  log is what the call counted, in order.                           *)
(***************************************************************************)
EXTENDS RtuPolicy, SequencesExt

CONSTANTS
    RxBlocks,        \* blocks of the receive storage
    NoFrame

ASSUME StreamAssumption ==
    RxBlocks \in Nat /\ NoFrame \notin [size : Nat, bytes : Seq(Byte)]

NewStream ==
    [stage |-> "Prefix", prefix |-> <<>>, filled |-> 0, remaining |-> 0,
     need |-> adu_prefix_size, building |-> NoFrame,
     ready |-> <<>>, granted |-> 0, log |-> <<>>, rest |-> "read"]

Logged(s, what) == [s EXCEPT !.log = Append(@, what)]

assembling(s) == s.stage # "Prefix" \/ s.filled # 0

-----------------------------------------------------------------------------
(* Blocks.                                                                 *)

CanAcquire(s) == s.granted < RxBlocks
acquire_block(s) == [s EXCEPT !.granted = @ + 1]
enqueue(s, adu) == [s EXCEPT !.ready = Append(@, adu)]
dequeue(s) == [s EXCEPT !.ready = Tail(@)]
release_rx(s) == [s EXCEPT !.granted = @ - 1]

release_building(s) ==
    IF s.building = NoFrame THEN s ELSE [release_rx(s) EXCEPT !.building = NoFrame]

reset(s) ==
    [s EXCEPT !.stage = "Prefix", !.prefix = <<>>, !.filled = 0, !.remaining = 0,
              !.need = adu_prefix_size]

-----------------------------------------------------------------------------
(* One frame.                                                              *)

\* After an error the frame start is unknown until the next chunk.
drop_rest(s) == [s EXCEPT !.rest = "drop"]

refuse(s, cause) == drop_rest(reset(Logged(s, cause)))

complete(s) ==
    IF ~verify(s.building.bytes)
    THEN drop_rest(reset(release_building(Logged(s, "crc_errors"))))
    ELSE reset([enqueue(Logged(s, "frames_received"), s.building.bytes)
                EXCEPT !.building = NoFrame])

\* Mutant: a frame without a block is skipped as if none of it had come.
skip_frame_WholeAdu(s, adu) ==
    [Logged(Logged(s, "allocation_failure"), "skipped_frames")
     EXCEPT !.stage = "Skip", !.remaining = adu, !.prefix = <<>>]

\* Storage refused: the length is known, so exactly this frame is passed over.
skip_frame(s, adu) ==
    LET n == adu - s.filled
        t == Logged(Logged(s, "allocation_failure"), "skipped_frames")
    IN  IF n = 0 THEN reset(t)
        ELSE [t EXCEPT !.stage = "Skip", !.remaining = n, !.prefix = <<>>]

begin_frame(s) ==
    LET layout == Framer(Rx, s.prefix[address_size + 1])
        adu == adu_size_for_data(Format,
                 data_size(layout, SubSeq(s.prefix, adu_prefix_size + 1, s.filled)))
        body == [acquire_block(s) EXCEPT
                   !.building = [size |-> adu, bytes |-> s.prefix],
                   !.remaining = adu - s.filled, !.stage = "Body", !.prefix = <<>>]
    IN  IF adu > max_adu_size(Format) THEN refuse(s, "oversize")
        ELSE IF ~CanAcquire(s) THEN skip_frame(s, adu)
        ELSE IF body.remaining = 0 THEN complete(body) ELSE body

\* Address and function are in: how much more header is there?
Opened(s) ==
    LET layout == Framer(Rx, s.prefix[address_size + 1])
        t == Logged(s, "candidates")
        u == [t EXCEPT !.stage = "Header", !.need = adu_prefix_size + header_size(layout)]
    IN  IF ~supported(layout) THEN refuse(t, "unsupported_function")
        ELSE IF u.filled < u.need THEN u ELSE begin_frame(u)

gather(s, b) ==
    LET t == [s EXCEPT !.prefix = Append(@, b), !.filled = @ + 1]
    IN  IF t.filled < t.need THEN t
        ELSE IF t.stage = "Prefix" THEN Opened(t) ELSE begin_frame(t)

Body(s, b) ==
    LET t == [s EXCEPT !.building.bytes = Append(@, b),
                       !.filled = @ + 1, !.remaining = @ - 1]
    IN  IF t.remaining = 0 THEN complete(t) ELSE t

Skip(s, b) ==
    IF s.remaining = 1 THEN reset(s) ELSE [s EXCEPT !.remaining = @ - 1]

ReadByte(s, b) ==
    CASE s.stage \in {"Prefix", "Header"} -> gather(s, b)
      [] s.stage = "Body" -> Body(s, b)
      [] OTHER -> Skip(s, b)

TakeByte(s, b) ==
    CASE s.rest = "read" -> ReadByte(s, b)
      [] s.rest = "drop" -> [Logged(s, "resyncs") EXCEPT !.rest = "dropped"]
      [] OTHER -> s

Begun(s) == [s EXCEPT !.log = <<>>]

-----------------------------------------------------------------------------
(* The operations.                                                         *)

\* The receiver after each of the bytes of a call.
After(s, bytes) ==
    LET after[n \in 0 .. Len(bytes)] ==
          IF n = 0 THEN Begun(s) ELSE TakeByte(after[n - 1], bytes[n])
    IN  after

consume(s, bytes) == [After(s, bytes)[Len(bytes)] EXCEPT !.rest = "read"]

\* A complete candidate; the frame in flight is not touched.
receive_adu(s, adu) ==
    LET t == Logged(Begun(s), "candidates")
        layout == Framer(Rx, adu[address_size + 1])
        data == SubSeq(adu, adu_prefix_size + 1, Len(adu) - Format.crc_size)
    IN  CASE Len(adu) < adu_overhead(Format) -> Logged(t, "too_short")
          [] Len(adu) > max_adu_size(Format) -> Logged(t, "oversize")
          [] OTHER ->
               IF ~supported(layout) THEN Logged(t, "unsupported_function")
               ELSE IF ~matches(layout, data) THEN Logged(t, "length_mismatch")
               ELSE IF ~verify(adu) THEN Logged(t, "crc_errors")
               ELSE IF ~CanAcquire(t) THEN Logged(t, "allocation_failure")
               ELSE Logged(enqueue(acquire_block(t), adu), "frames_received")

notify_gap(s) == Logged(reset(release_building(Begun(s))), "stream_gaps")

discard_incomplete(s) ==
    IF assembling(s) THEN reset(release_building(Begun(s))) ELSE Begun(s)

expire_incomplete(s) ==
    IF assembling(s) THEN Logged(discard_incomplete(s), "stale_frames") ELSE Begun(s)
=============================================================================
