----------------------------- MODULE RtuLineProps -----------------------------
(* What a framed RTU endpoint on a UART promises: the frames of the stream,  *)
(* each once and whole, none of them dropped alive, none kept dead.          *)
EXTENDS RtuLine

CONSTANT DeadBound

\* The frame in flight is exactly its bytes: whatever stage gathers, stores or
\* skips it, the receiver has all of it that was read and waits for the bytes
\* its own header still promises; and every block of the storage is the frame's,
\* waits, or is in the application's hands.  What waits is a whole frame.
FrameInFlight ==
    LET missing == Reference!AduSize(trail) - Len(trail)
    IN  /\ \A k \in DOMAIN s.ready :
              Reference!Intact(s.ready[k]) /\ Reference!AduSize(s.ready[k]) = Len(s.ready[k])
        /\ assembling(s) <=> trail # <<>>
        /\ s.stage \in {"Prefix", "Header"} => s.prefix = trail /\ Len(trail) < s.need
        /\ s.stage = "Body" => s.building.bytes = trail /\ s.building.size = Len(trail) + missing
        /\ s.stage \in {"Body", "Skip"} => s.remaining = missing /\ missing > 0
        /\ s.granted = Len(s.ready) + (IF s.building = NoFrame THEN 0 ELSE 1)
                                    + (IF held THEN 1 ELSE 0)

Losses == {"crc_errors", "oversize", "unsupported_function", "skipped_frames", "resyncs"}

\* Of what a call counted, the losses.
LossesOf(log) ==
    LET lost[n \in 0 .. Len(log)] ==
          IF n = 0 THEN <<>>
          ELSE IF log[n] \in Losses THEN Append(lost[n - 1], log[n]) ELSE lost[n - 1]
    IN  lost[Len(log)]

\* However the stream is cut into chunks, a call delivers and loses what its
\* bytes and those of the frame under way stand for when read as a whole: a
\* frame without a block costs that frame, an error the rest of its chunk.
StreamVerdict ==
    [][Len(fifo') < Len(fifo) /\ a.bound /\ Head(fifo) # <<>> =>
         LET reading == ReadingOf(Head(fifo))
         IN  /\ s'.ready = s.ready \o reading.delivered
             /\ LossesOf(s'.log) = reading.lost]_vars

\* A pass stamps what it drains with the tick it was given: what it took itself
\* beyond one tick is missing from the silence it grants.
Spread == IF MaxBusy > 1 THEN MaxBusy - 1 ELSE 0

\* Only silence kills a frame: one is declared stale only if the line had been
\* silent for idle_stale_ms when the pass looked at it, however late chunks are
\* drained and however long they take to fill.
OnlySilenceKills ==
    [][pc = "finish" /\ assembling(s) /\ ~assembling(s')
         => heardQuiet + Spread >= idle_stale_ms]_vars

\* A dead frame does not stay: DeadBound ticks after the last byte nothing is in
\* flight, even when the event that ends its last chunk was lost.
DeadFramesGo == assembling(s) => quiet < DeadBound

\* The task never sleeps on received bytes, nor past the deadline of a frame by
\* more than its own pass took: an interrupt just before the take still wakes it.
NoOversleeping ==
    pc = "asleep" =>
        /\ (\E k \in DOMAIN fifo : fifo[k] # <<>>) => notified
        /\ a.active /\ ~notified => timeout <= deadline_in_ms + MaxBusy
=============================================================================
