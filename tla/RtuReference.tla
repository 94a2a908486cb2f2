----------------------------- MODULE RtuReference -----------------------------
(***************************************************************************)
(* What the bytes of a stream stand for, read as a whole and from the      *)
(* recovery rule of src/modbus/rtu/Framing.h, without stages or counters:  *)
(* frames follow one another; after an error the rest of the call is       *)
(* dropped; a frame that storage has no block for is passed over exactly.  *)
(***************************************************************************)
EXTENDS RtuFraming

CONSTANTS Format, Checksum(_), Framer(_, _), Rx

HeaderKnown(w) ==
    /\ Len(w) >= adu_prefix_size
    /\ supported(Framer(Rx, w[2]))
    /\ Len(w) >= adu_prefix_size + header_size(Framer(Rx, w[2]))

\* The size of the frame that w begins with.
AduSize(w) ==
    adu_size_for_data(Format, data_size(Framer(Rx, w[2]), SubSeq(w, adu_prefix_size + 1, Len(w))))

Intact(adu) ==
    LET n == Len(adu) - Format.crc_size
    IN  SubSeq(adu, n + 1, Len(adu)) = Checksum(SubSeq(adu, 1, n))

\* An error ends the call: the bytes that follow are one resync.
Dropped(cause, used, v) ==
    [delivered |-> <<>>, open |-> <<>>,
     lost |-> IF Len(v) > used THEN <<cause, "resyncs">> ELSE <<cause>>]

Open(v, lost) == [delivered |-> <<>>, open |-> v, lost |-> lost]

\* What went before what comes later.
Then(delivered, lost, later) ==
    [delivered |-> delivered \o later.delivered, open |-> later.open, lost |-> lost \o later.lost]

\* What w stands for from p on, with f blocks free; from knows it of later places.
ReadFrom(w, refused, granted, from, p, f) ==
    LET v == SubSeq(w, p, Len(w))
        layout == Framer(Rx, v[2])
        size == AduSize(v)
        adu == SubSeq(v, 1, size)
        passed == IF p = 1 /\ (refused \/ granted) THEN refused ELSE f = 0
        skipped == IF passed /\ ~(p = 1 /\ refused) THEN <<"skipped_frames">> ELSE <<>>
        left == IF p = 1 /\ granted THEN f ELSE f - 1
    IN  CASE Len(v) < adu_prefix_size -> Open(v, <<>>)
          [] Len(v) >= adu_prefix_size /\ ~supported(layout) ->
                Dropped("unsupported_function", adu_prefix_size, v)
          [] Len(v) >= adu_prefix_size /\ supported(layout) /\ ~HeaderKnown(v) -> Open(v, <<>>)
          [] OTHER ->
                IF size > max_adu_size(Format)
                THEN Dropped("oversize", adu_prefix_size + header_size(layout), v)
                ELSE IF Len(v) < size THEN Open(v, skipped)
                ELSE IF passed THEN Then(<<>>, skipped, from[p + size][f])
                ELSE IF ~Intact(adu) THEN Dropped("crc_errors", size, v)
                ELSE Then(<<adu>>, <<>>, from[p + size][left])

\* w: what was read of a frame before, and the bytes of one call.  refused says
\* that the frame under way was refused a block, granted that it has one; free
\* blocks are left.  The answer: frames delivered, causes of loss, and the
\* bytes of the frame that is open at the end.
Readings(w, refused, granted, free) ==
    LET from[p \in 1 .. Len(w) + 1] ==
          [f \in 0 .. free |-> ReadFrom(w, refused, granted, from, p, f)]
    IN  from
Reading(w, refused, granted, free) == Readings(w, refused, granted, free)[1][free]
=============================================================================
