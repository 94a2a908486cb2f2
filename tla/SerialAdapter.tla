---------------------------- MODULE SerialAdapter ----------------------------
(***************************************************************************)
(* adapters::qt::SerialAdapter (src/adapters/qt/SerialAdapter.h): a framed *)
(* RTU endpoint on a QSerialPort, as a record x and the operators of the   *)
(* adapter's methods.  Everything runs on one event loop; what makes it    *)
(* hard is that a call may come back: clear() on a port whose device is    *)
(* gone emits an error from inside, and every event ends in notify, the    *)
(* service handler of the layer above: RtuClient applies it to what the    *)
(* operators below leave, and has the calls that meet it halfway.          *)
(*                                                                         *)
(* Of the endpoint (src/modbus/rtu/Rtu.h) x has the block it lends while a *)
(* frame leaves; of its receiver, which RtuStream models, the candidate in *)
(* flight and the packets that wait.  A frame arrives as two fragments,    *)
(* which stand for its bytes up to an arbitrary cut.  Of Qt it has the     *)
(* port's two buffers and single-shot timers that count down to an event.  *)
(***************************************************************************)
EXTENDS Integers, Sequences, SequencesExt

CONSTANTS stale_silence_ms, None

Off == -1

NewAdapter ==
    [bound |-> FALSE, service |-> FALSE, stale |-> Off, error |-> "None",   \* the adapter
     lent |-> FALSE, open |-> FALSE, flight |-> None, ready |-> <<>>,       \* the endpoint
     rest |-> "read",
     out |-> None, inp |-> <<>>, dead |-> FALSE]                            \* the port

-----------------------------------------------------------------------------
(* The endpoint.                                                           *)

\* Both fragments of one frame make a packet; anything else that completes a
\* candidate fails its CRC, and the rest of the call is dropped with it.
TakeFragment(x, b) ==
    IF x.rest = "drop" THEN x
    ELSE IF x.flight = None THEN [x EXCEPT !.flight = b]
    ELSE LET done == [x EXCEPT !.flight = None]
         IN  IF x.flight.part = 1 /\ b.part = 2 /\ b.to = x.flight.to /\ b.frame = x.flight.frame
             THEN [done EXCEPT !.ready = Append(@, x.flight)]
             ELSE [done EXCEPT !.rest = "drop"]

consume(x, bytes) == [FoldLeft(TakeFragment, x, bytes) EXCEPT !.rest = "read"]
assembling(x) == x.flight # None

\* notify_gap, expire_incomplete, discard_incomplete: they differ in what they count.
DropFlight(x) == [x EXCEPT !.flight = None]

\* Endpoint::poll, with what SerialAdapter::busy says.
busy(x) == x.out # None
poll(x) == IF x.lent /\ ~busy(x) THEN [x EXCEPT !.lent = FALSE] ELSE x

-----------------------------------------------------------------------------
(* Errors.                                                                 *)

\* poll() with busy() forced false.
release_borrowed_block(x) == [x EXCEPT !.lent = FALSE]

\* clear(Output) while m_releasing holds: the error of a dead port is ignored.
ClearOutput(x) == IF x.dead THEN x ELSE [x EXCEPT !.out = None]

\* Mutant: the block goes back only if the port could clear.
abort_outgoing_IfCleared(x, e) == [poll(ClearOutput(x)) EXCEPT !.error = e]

abort_outgoing(x, e) == [release_borrowed_block(ClearOutput(x)) EXCEPT !.error = e]

drop_incoming(x, e) == [DropFlight(x) EXCEPT !.stale = Off, !.error = e]

on_error(x, e) ==
    CASE e = "Read" -> drop_incoming(x, e)
      [] e = "Write" -> abort_outgoing(x, e)
      [] OTHER -> drop_incoming(abort_outgoing(x, e), e)

-----------------------------------------------------------------------------
(* Signals of the port, and the silence timer.                             *)

\* Bytes were read: silence is counted anew while a candidate is in flight.
Silence(t) == IF assembling(t) THEN stale_silence_ms ELSE Off

\* An empty read does not extend a frame, and still polls and notifies.
deliver(x, bytes) ==
    LET t == consume(x, bytes)
    IN  poll(IF bytes = <<>> THEN t ELSE [t EXCEPT !.stale = Silence(t)])

on_ready_read(x) == deliver([x EXCEPT !.inp = <<>>], x.inp)

on_bytes_written(x) == poll(x)

on_stale(x) == DropFlight(x)

-----------------------------------------------------------------------------
(* Calls of the layer above.                                               *)

Discarded(x) == [DropFlight(x) EXCEPT !.inp = <<>>, !.stale = Off]

\* The Sender of the endpoint.
Written(x, frame) == [x EXCEPT !.out = frame]

\* Endpoint::send of a valid message, up to the transport.
SendRefusedBusy(x) == x.lent \/ busy(x)
Sent(x, frame) == [Written(x, frame) EXCEPT !.lent = TRUE]

bind(x) ==
    IF x.bound \/ x.lent THEN x
    ELSE [x EXCEPT !.open = TRUE, !.error = "None", !.bound = TRUE]

detach(x) ==
    [DropFlight(x) EXCEPT !.stale = Off, !.service = FALSE, !.bound = FALSE]

unbind(x) ==
    LET t == poll(x)
    IN  IF ~x.bound THEN x ELSE IF t.lent THEN t ELSE detach([t EXCEPT !.open = FALSE])

\* The destructor: the block is released, the endpoint is left unbound.
Destroyed(x) ==
    IF x.bound THEN detach([release_borrowed_block(x) EXCEPT !.open = FALSE]) ELSE x
=============================================================================
