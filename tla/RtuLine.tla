------------------------------- MODULE RtuLine -------------------------------
(***************************************************************************)
(* A framed RTU endpoint on a UART, in time: modbus::rtu::UartAdapter      *)
(* (src/adapters/rtu/UartAdapter.h) between the driver and the stream      *)
(* receiver of RtuStream, in a FreeRTOS task that sleeps on                *)
(* uart::FreeRtosWake (src/adapters/freertos/FreeRtosWake.h).              *)
(*                                                                         *)
(* Three actors: the line with the interrupts it raises (one tick of       *)
(* HAL_GetTick is one byte or one byte's time of silence), the task, and   *)
(* the peer, which may stop anywhere.  Of the driver, which UartDriver     *)
(* models, there is what the adapter sees: the chunk DMA fills, the fifo   *)
(* with its gap markers, and the pending overflow.                         *)
(*                                                                         *)
(* The code uses its 32-bit ticks only in differences, and so does this    *)
(* module: lag is now - m_now_ms, late is now - m_deadline_ms modulo Wrap. *)
(***************************************************************************)
EXTENDS RtuStream, Timing, FiniteSetsExt

CONSTANTS
    ChunkSize, ChunkCount,
    Rates,           \* line rates of the driver's handle once it is initialized
    Wrap,            \* of the tick counter (2^32 in the code)
    idle_stale_ms, full_chunk_guard_ms,
    fallback_ms,     \* of FreeRtosWake::wait
    TickRate, MaxDelay,  \* configTICK_RATE_HZ, portMAX_DELAY
    Frames,          \* what a peer sends: sequences of bytes
    MaxBusy,         \* bound: ticks that pass during one pass of the loop
    MaxFrames, MaxFaults, MaxAways, MaxQuiet   \* bounds of the instance

\* A tick of the kernel is one of HAL_GetTick, and a pass of the loop takes less than
\* half of what they count; a full chunk takes longer than the silence that ends a
\* frame (the code adds a guard of the same length to the chunk's own time).
ASSUME LineAssumption ==
    /\ ChunkSize \in Nat \ {0} /\ ChunkCount \in Nat \ {0}
    /\ Rates \subseteq Nat \ {0} /\ Frames \subseteq Seq(Byte) \ {<<>>}
    /\ Wrap \in Nat \ {0} /\ MaxBusy \in 0 .. Wrap \div 2
    /\ idle_stale_ms \in Nat \ {0} /\ full_chunk_guard_ms \in Nat
    /\ \A rate \in Rates :
         chunk_time_ms(ChunkSize, rate) + full_chunk_guard_ms \in idle_stale_ms + 1 .. Wrap \div 2
    /\ MaxQuiet \in Nat /\ idle_stale_ms <= MaxQuiet
    /\ TickRate = 1000 /\ MaxDelay \in Nat \ {0} /\ fallback_ms \in Nat

VARIABLES
    rest, begun,             \* the peer: bytes of its frame to come, frames begun
    quiet,                   \* ticks since the last byte of what is on its way, at most MaxQuiet
    faults,
    baud, filling, fifo, deaf, gapPending, notified,    \* the driver, and its wake
    a,                       \* the adapter's fields
    s,                       \* the receiver, of RtuStream
    held,                    \* the application keeps a packet
    pc, timeout, busy, aways,
    trail,                   \* history: the bytes of the frame in flight
    heardQuiet               \* history: quiet when prepare looked

peer == <<rest, begun>>
driver == <<baud, filling, fifo, deaf, gapPending, notified>>
task == <<pc, timeout, busy, aways>>
vars == <<peer, quiet, faults, driver, a, s, held, task, trail, heardQuiet>>

Detached ==
    [m_baud |-> 0, m_full_chunk_ms |-> 0, lag |-> 0, late |-> 0, active |-> FALSE,
     last_progress |-> 0, line_resumed |-> FALSE, bound |-> FALSE]

Init ==
    /\ rest = <<>> /\ begun = 0 /\ quiet = 0 /\ faults = 0
    /\ baud = 0 /\ filling = <<>> /\ fifo = <<>>
    /\ deaf = TRUE /\ gapPending = FALSE /\ notified = FALSE
    /\ a = Detached /\ s = NewStream /\ held = FALSE
    /\ pc = "app" /\ timeout = 0 /\ busy = 0 /\ aways = 0
    /\ trail = <<>> /\ heardQuiet = 0

-----------------------------------------------------------------------------
(* The driver, as the adapter sees it.                                     *)

\* The producer claims the next slot, or finds none and drops.
Published(chunk) ==
    /\ fifo' = Append(fifo, chunk)
    /\ filling' = <<>>
    /\ deaf' = (Len(fifo) + 1 = ChunkCount)
    /\ gapPending' = deaf'
    /\ notified' = TRUE

\* Bytes DMA has put into the chunk it owns.
rx_progress == IF deaf THEN 0 ELSE Len(filling)

-----------------------------------------------------------------------------
(* Time and the line.                                                      *)

\* The tasks's pass ends in time; asleep it lets time go by until it is woken.
Sleeping == pc = "asleep" /\ ~notified /\ timeout > 0
TickPasses ==
    /\ Sleeping \/ busy < MaxBusy
    /\ busy' = IF Sleeping THEN busy ELSE busy + 1
    /\ timeout' = IF Sleeping THEN timeout - 1 ELSE timeout
    /\ a' = [a EXCEPT !.late = IF a.active THEN (@ + 1) % Wrap ELSE 0,
                      !.lag = IF pc \in {"drain", "finish"} THEN @ + 1 ELSE 0]
    /\ UNCHANGED <<baud, s, held, pc, aways, trail, heardQuiet>>

\* A byte that fills the chunk publishes it; one that finds no chunk is lost.
ByteArrives(b) ==
    /\ quiet' = 0
    /\ IF deaf THEN UNCHANGED <<fifo, filling, deaf, gapPending, notified>>
       ELSE IF Len(filling) + 1 = ChunkSize THEN Published(Append(filling, b))
       ELSE /\ filling' = Append(filling, b)
            /\ UNCHANGED <<fifo, deaf, gapPending, notified>>

\* Nothing of a frame is anywhere on its way.
Empty == filling = <<>> /\ fifo = <<>> /\ ~assembling(s)

\* The first character time of silence is the IDLE event of a partly filled chunk.
SilentTick ==
    /\ quiet' = IF Empty THEN 0 ELSE Min({quiet + 1, MaxQuiet})
    /\ UNCHANGED <<peer>>
    /\ \/ /\ quiet = 0 /\ filling # <<>> /\ Published(filling) /\ UNCHANGED faults
       \/ /\ quiet = 0 /\ filling # <<>> /\ faults < MaxFaults    \* the event is lost
          /\ faults' = faults + 1
          /\ UNCHANGED <<fifo, filling, deaf, gapPending, notified>>
       \/ /\ quiet > 0 \/ filling = <<>>
          /\ UNCHANGED <<faults, fifo, filling, deaf, gapPending, notified>>

\* The peer goes on with its frame, or begins another one instead.
Send ==
    /\ \/ /\ rest # <<>>
          /\ ByteArrives(Head(rest)) /\ rest' = Tail(rest) /\ UNCHANGED begun
       \/ \E f \in Frames :
            /\ begun < MaxFrames
            /\ ByteArrives(Head(f)) /\ rest' = Tail(f) /\ begun' = begun + 1
    /\ UNCHANGED faults

Tick == TickPasses /\ (SilentTick \/ Send)

\* A reception error: the chunk is voided, a marker takes its place, and the
\* receiver stays down until proceed restarts it.
LineFault ==
    /\ faults < MaxFaults /\ ~deaf
    /\ faults' = faults + 1
    /\ fifo' = Append(fifo, <<>>) /\ filling' = <<>>
    /\ deaf' = TRUE /\ notified' = TRUE
    /\ UNCHANGED <<peer, quiet, baud, gapPending, a, s, held, task, trail, heardQuiet>>

-----------------------------------------------------------------------------
(* The adapter.                                                            *)

full_chunk == a.m_full_chunk_ms + full_chunk_guard_ms

\* refresh_timing, for an adapter x.
Refreshed(x) ==
    IF baud = 0 \/ baud = x.m_baud THEN x
    ELSE [x EXCEPT !.m_baud = baud, !.m_full_chunk_ms = chunk_time_ms(ChunkSize, baud)]

\* static_cast<int32_t>(now_ms - m_deadline_ms) >= 0
due(lateness) == lateness < Wrap \div 2

\* Milliseconds left, 0 when due.
deadline_in_ms == IF due(a.late) THEN 0 ELSE Wrap - a.late

\* Deadline d ticks after m_now_ms.
Armed(x, d) == [x EXCEPT !.active = TRUE, !.late = (x.lag - d) % Wrap]
Disarmed(x) == [x EXCEPT !.active = FALSE, !.late = 0]

\* The snapshot of the line, before the driver is drained.
prepare ==
    /\ pc = "run" /\ pc' = "drain"
    /\ LET x == [Refreshed([a EXCEPT !.lag = 0]) EXCEPT !.line_resumed = FALSE]
       IN  a' = IF a.active /\ due(a.late)
                THEN [x EXCEPT !.line_resumed = rx_progress > a.last_progress,
                               !.last_progress = rx_progress]
                ELSE x
    /\ heardQuiet' = quiet
    /\ UNCHANGED <<peer, quiet, faults, driver, s, held, timeout, busy, aways, trail>>

on_rx(bytes) ==
    LET t == consume(s, bytes)
        x == [a EXCEPT !.last_progress = 0]
        d == IF Len(bytes) < ChunkSize THEN idle_stale_ms ELSE full_chunk
    IN  /\ s' = t
        /\ a' = IF ~assembling(t) THEN Disarmed(x) ELSE Armed(x, d)

on_gap ==
    /\ s' = notify_gap(s)
    /\ a' = Disarmed([a EXCEPT !.last_progress = 0])

\* What the driver hands over when it is drained: a chunk, or a marker.
Delivered(chunk) ==
    IF ~a.bound THEN UNCHANGED <<a, s>>
    ELSE IF chunk = <<>> THEN on_gap ELSE on_rx(chunk)

\* History: the frame in flight, as the reference reads it.
Reference == INSTANCE RtuReference
ReadingOf(chunk) ==
    Reference!Reading(trail \o chunk, s.stage = "Skip", s.building # NoFrame,
                      RxBlocks - s.granted)
Remembered(chunk) ==
    trail' = IF ~a.bound \/ chunk = <<>> THEN <<>> ELSE ReadingOf(chunk).open

\* Uart::proceed hands over what the fifo holds, until it is empty ...
Drain ==
    /\ pc = "drain" /\ fifo # <<>>
    /\ fifo' = Tail(fifo)
    /\ Delivered(Head(fifo)) /\ Remembered(Head(fifo))
    /\ UNCHANGED <<peer, quiet, faults, baud, filling, deaf, gapPending, notified,
                   held, task, heardQuiet>>

\* ... announces an overflow, and takes a real chunk again.
Drained ==
    /\ pc = "drain" /\ fifo = <<>> /\ pc' = "finish"
    /\ gapPending' = FALSE /\ deaf' = (baud = 0)
    /\ IF gapPending /\ a.bound THEN on_gap /\ trail' = <<>>
                                ELSE s' = Begun(s) /\ UNCHANGED <<a, trail>>
    /\ UNCHANGED <<peer, quiet, faults, baud, filling, fifo, notified, held,
                   timeout, busy, aways, heardQuiet>>

\* Mutant: an overdue frame is dropped whatever the line does.
finish_IgnoresLine ==
    /\ pc = "finish" /\ pc' = "app"
    /\ IF a.active /\ due((a.late - a.lag) % Wrap)
       THEN /\ a' = Disarmed([a EXCEPT !.lag = 0]) /\ s' = expire_incomplete(s)
            /\ trail' = <<>>
       ELSE /\ a' = [a EXCEPT !.line_resumed = FALSE, !.lag = 0]
            /\ s' = Begun(s) /\ UNCHANGED trail
    /\ heardQuiet' = 0
    /\ UNCHANGED <<peer, quiet, faults, driver, held, timeout, busy, aways>>

\* The verdict on an overdue frame, by the tick proceed was given.
finish ==
    /\ pc = "finish" /\ pc' = "app"
    /\ LET overdue == a.active /\ due((a.late - a.lag) % Wrap)
           x == [a EXCEPT !.line_resumed = FALSE]
       IN  \/ /\ overdue /\ ~a.line_resumed
              /\ a' = [Disarmed(x) EXCEPT !.lag = 0]
              /\ s' = expire_incomplete(s) /\ trail' = <<>>
           \/ /\ ~(overdue /\ ~a.line_resumed)
              /\ a' = [(IF overdue THEN Armed(x, full_chunk) ELSE x) EXCEPT !.lag = 0]
              /\ s' = Begun(s) /\ UNCHANGED trail
    /\ heardQuiet' = 0
    /\ UNCHANGED <<peer, quiet, faults, driver, held, timeout, busy, aways>>

-----------------------------------------------------------------------------
(* The application, between two passes.                                    *)

Away == aways < MaxAways /\ aways' = aways + 1

\* The endpoint refuses a binding while it transmits; nothing changes then.
bind ==
    /\ pc = "app" /\ ~a.bound /\ baud # 0
    /\ a' = [Refreshed(a) EXCEPT !.bound = TRUE]
    /\ UNCHANGED <<peer, quiet, faults, driver, s, held, task, trail, heardQuiet>>

\* Mutant: the frame in flight stays for the next binding.
detach_KeepsFrame ==
    /\ a' = [Disarmed(a) EXCEPT !.line_resumed = FALSE, !.last_progress = 0, !.bound = FALSE]
    /\ UNCHANGED s /\ trail' = <<>>

detach ==
    /\ a' = [Disarmed(a) EXCEPT !.line_resumed = FALSE, !.last_progress = 0, !.bound = FALSE]
    /\ s' = discard_incomplete(s) /\ trail' = <<>>

unbind ==
    /\ pc = "app" /\ a.bound /\ Away /\ detach
    /\ UNCHANGED <<peer, quiet, faults, driver, held, pc, timeout, busy, heardQuiet>>

\* Uart::init, and setBaudRate: the reception starts over.  A chunk that was claimed
\* is voided, filled or not, and without a free one the next bytes are lost.
SetRate(r) ==
    /\ pc = "app" /\ (baud # 0 => Away)
    /\ baud = 0 => UNCHANGED aways
    /\ baud' = r /\ filling' = <<>>
    /\ fifo' = IF deaf THEN fifo ELSE Append(fifo, <<>>)
    /\ gapPending' = (gapPending \/ Len(fifo') = ChunkCount)
    /\ deaf' = gapPending'
    /\ UNCHANGED <<peer, quiet, faults, notified, a, s, held,
                   pc, timeout, busy, trail, heardQuiet>>

pop_packet ==
    /\ pc = "app" /\ ~held /\ s.ready # <<>>
    /\ held' = TRUE /\ s' = dequeue(Begun(s))
    /\ UNCHANGED <<peer, quiet, faults, driver, a, task, trail, heardQuiet>>

\* Packet::release of the last handle.
DropPacket ==
    /\ pc = "app" /\ held
    /\ held' = FALSE /\ s' = release_rx(Begun(s))
    /\ UNCHANGED <<peer, quiet, faults, driver, a, task, trail, heardQuiet>>

\* A complete candidate, from a transport that has them instead of the adapter.
Offer(adu) ==
    /\ pc = "app" /\ ~a.bound /\ aways = MaxAways
    /\ s' = receive_adu(s, adu)
    /\ UNCHANGED <<peer, quiet, faults, driver, a, held, task, trail, heardQuiet>>

-----------------------------------------------------------------------------
(* FreeRtosWake.                                                           *)

\* Milliseconds of a wait as its ticks.
ticks_for(milliseconds) == wake_ticks_for(milliseconds, TickRate, MaxDelay)

\* Mutant: the wait knows only its fallback.
wait_ForFallback ==
    /\ pc = "app" /\ pc' = "take"
    /\ timeout' = ticks_for(fallback_ms)
    /\ s' = Begun(s)
    /\ UNCHANGED <<peer, quiet, faults, driver, a, held, busy, aways, trail, heardQuiet>>

\* wait(adapter): the deadline bounds the sleep.
wait ==
    /\ pc = "app" /\ pc' = "take"
    /\ timeout' = ticks_for(
                    IF a.active THEN Min({deadline_in_ms, fallback_ms}) ELSE fallback_ms)
    /\ s' = Begun(s)
    /\ UNCHANGED <<peer, quiet, faults, driver, a, held, busy, aways, trail, heardQuiet>>

\* Mutant: what was notified before the take is forgotten.
Take_Forgets ==
    /\ pc = "take" /\ notified' = FALSE
    /\ pc' = IF timeout = 0 THEN "run" ELSE "asleep"
    /\ busy' = 0 /\ timeout' = IF pc' = "run" THEN 0 ELSE timeout
    /\ UNCHANGED <<peer, quiet, faults, baud, filling, fifo, deaf, gapPending,
                   a, s, held, aways, trail, heardQuiet>>

\* ulTaskNotifyTake(pdTRUE, timeout): a notification given before it is taken.
Take ==
    /\ pc = "take" /\ notified' = FALSE
    /\ pc' = IF notified \/ timeout = 0 THEN "run" ELSE "asleep"
    /\ busy' = 0 /\ timeout' = IF pc' = "run" THEN 0 ELSE timeout
    /\ UNCHANGED <<peer, quiet, faults, baud, filling, fifo, deaf, gapPending,
                   a, s, held, aways, trail, heardQuiet>>

Wake ==
    /\ pc = "asleep" /\ (notified \/ timeout = 0)
    /\ pc' = "run" /\ notified' = FALSE /\ timeout' = 0
    /\ UNCHANGED <<peer, quiet, faults, baud, filling, fifo, deaf, gapPending,
                   a, s, held, busy, aways, trail, heardQuiet>>

-----------------------------------------------------------------------------
Next ==
    \/ Tick \/ LineFault
    \/ wait \/ Take \/ Wake
    \/ prepare \/ Drain \/ Drained \/ finish
    \/ bind \/ unbind \/ \E r \in Rates : SetRate(r)
    \/ pop_packet \/ DropPacket \/ \E adu \in Frames \union {<<>>} : Offer(adu)

Spec == Init /\ [][Next]_vars
=============================================================================
