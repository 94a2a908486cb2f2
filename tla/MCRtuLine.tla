------------------------------ MODULE MCRtuLine ------------------------------
EXTENDS RtuLineProps, RtuMessage

OneCrcByte == [crc_size |-> 1, max_data_size |-> 2]
Sum(w) == <<(FoldLeft(LAMBDA x, y : x + y, 1, w)) % 256>>

\* A frame as an endpoint of this library builds it.
Built(function, text) ==
    LET layout == Framer(Rx, function)
        room == max_adu_size(Format)
        started == Message(1, function, make_hint(layout, Len(text)), reserved(layout), room)
    IN  finalize(apply_framing(layout, append(started, text, room))).wire

\* What a slave answers: a counted answer, a damaged exception status whose
\* value looks like another header, and a count beyond the limit.
Answers ==
    { Built(3, <<1, 7>>),
      Append(<<1, 7, 7>>, 0),
      <<1, 3, 9, 1>> }
=============================================================================
