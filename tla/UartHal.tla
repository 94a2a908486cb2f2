------------------------------ MODULE UartHal ------------------------------
(***************************************************************************)
(* The hardware and HAL below uart::Uart: one USART, its receive and its   *)
(* transmit DMA channel, and the HAL calls the driver makes.  None of it   *)
(* is code of this repository; it is modelled from how src/uart/Uart.h     *)
(* uses it, from the HAL facts that file's comments record, and from the   *)
(* fake HAL its tests run against (src/uart/tests/host/fake_hal.cpp).      *)
(*                                                                         *)
(* The state of each direction is one record.  Every event and call is an  *)
(* operator from a record to a record, so that an interrupt - the HAL's    *)
(* own work followed by the driver's callback - composes into one step.    *)
(*                                                                         *)
(* Bytes of the line are numbered 1, 2, 3, ...; a received run of bytes is *)
(* the number of its first byte and its length.                            *)
(***************************************************************************)
EXTENDS Naturals

CONSTANTS
    ChunkSize,    \* bytes in one receive chunk (and in the drop buffer)
    ChunkCount,   \* slots of the chunk fifo
    FrameLength,  \* DMA elements in a transmitted frame
    NewUsartIp    \* uart::detail::new_usart_ip: an abort flushes RDR/FIFO

ASSUME HalAssumption ==
    /\ ChunkSize \in Nat \ {0}
    /\ ChunkCount \in Nat \ {0, 1}
    /\ FrameLength \in Nat \ {0}
    /\ NewUsartIp \in BOOLEAN

Slots == 0 .. ChunkCount - 1
Drop == ChunkCount       \* the drop buffer, a DMA target that is no slot
None == ChunkCount + 1   \* a null pointer
CorruptCount == ChunkSize + 1   \* stands for every count above ChunkSize

UartStates == {"READY", "BUSY"}
DmaStates  == {"READY", "BUSY", "TIMEOUT"}

(***************************************************************************)
(* Receive direction.                                                      *)
(*   live      the channel may still write dst                             *)
(*   dst       where it writes: a slot, Drop, or None before the first arm *)
(*   from      number of the first byte of this transfer                   *)
(*   remaining the channel's count register (survives a stop)              *)
(*   state     huart->RxState;  dma  hdmarx->State;  dmar  CR3.DMAR        *)
(*   err       hdmarx->ErrorCode # HAL_DMA_ERROR_NONE                      *)
(*   rdr       byte waiting in RDR while nothing drains it, 0 if none      *)
(***************************************************************************)
RxHardware == [live : BOOLEAN, dst : Slots \union {Drop, None}, from : Nat,
               remaining : 0 .. CorruptCount, state : UartStates,
               dma : DmaStates, dmar : BOOLEAN, err : BOOLEAN, rdr : Nat]

RxReset == [live |-> FALSE, dst |-> None, from |-> 1, remaining |-> 0,
            state |-> "READY", dma |-> "READY", dmar |-> FALSE,
            err |-> FALSE, rdr |-> 0]

\* IDLE, TC and a line error end the reception before their callback runs.
RxEnded(h) == [h EXCEPT !.live = FALSE, !.state = "READY", !.dma = "READY",
                        !.dmar = FALSE]

\* The IDLE handler ignores a failed HAL_DMA_Abort: UART READY, channel live.
RxEndedAbortFailed(h) == [h EXCEPT !.state = "READY", !.dma = "TIMEOUT",
                                   !.dmar = FALSE, !.err = TRUE]

RxEndedCorrupt(h) == [RxEnded(h) EXCEPT !.remaining = CorruptCount]

\* UART_DMAError for this channel: the channel stops, the UART state is READY.
RxFaulted(h) == [h EXCEPT !.live = FALSE, !.dma = "READY", !.err = TRUE,
                          !.state = IF h.dmar THEN "READY" ELSE @]

\* The same handler for the other channel: READY, but this channel goes on.
RxSiblingFaulted(h) == [h EXCEPT !.state = IF h.dmar THEN "READY" ELSE @]

\* The channel dies without any interrupt.
RxDead(h) == [h EXCEPT !.live = FALSE, !.dmar = FALSE]

\* Byte b arrives: into memory, or into RDR when no channel drains it.
CanTakeByte(h) == (h.live /\ h.remaining \in 1 .. ChunkSize) \/ h.rdr = 0
RxByteTaken(h, b) ==
    IF h.live /\ h.remaining \in 1 .. ChunkSize
    THEN [h EXCEPT !.remaining = @ - 1]
    ELSE [h EXCEPT !.rdr = b]

\* HAL_UARTEx_ReceiveToIdle_DMA succeeds only on a stopped direction.  A byte
\* waiting in RDR is the first byte of the new transfer.
CanArmRx(h) == h.state = "READY" /\ h.dma = "READY"
RxArmed(h, dst, next) ==
    [live |-> TRUE, dst |-> dst, state |-> "BUSY", dma |-> "BUSY", dmar |-> TRUE,
     err |-> FALSE, rdr |-> 0,
     from |-> IF h.rdr = 0 THEN next ELSE h.rdr,
     remaining |-> IF h.rdr = 0 THEN ChunkSize ELSE ChunkSize - 1]

\* HAL_UART_AbortReceive (with HAL_DMA_Init where the driver repairs the
\* channel): a stopped direction, its input flushed on the new IP.
RxStopped(h) ==
    [RxEnded(h) EXCEPT !.rdr = IF NewUsartIp THEN 0 ELSE @]

\* The abort timed out and the repair failed: DMAR is clear, the channel is not
\* stopped.  A repeat skips the channel, and then only the UART state is READY.
CanFailStop(h) == h.dma # "READY"
RxStopFailed(h) ==
    [h EXCEPT !.dmar = FALSE, !.dma = "TIMEOUT", !.err = TRUE,
              !.state = IF h.dmar THEN @ ELSE "READY"]

\* Clearing the error flags reads DR on the legacy IP: a waiting byte is gone.
RxErrorsCleared(h) == [h EXCEPT !.rdr = IF NewUsartIp THEN @ ELSE 0]

(***************************************************************************)
(* Transmit direction.                                                     *)
(*   live      the channel may still read the caller's span                *)
(*   remaining the channel's count;  state  huart->gState                  *)
(*   dma, dmat, err   as above                                             *)
(*   due       the interrupts of the current frame are still to come       *)
(*   tc        the TC flag: the last stop bit of the frame is on the wire  *)
(*   stuck     the transmitter will not move again by itself               *)
(***************************************************************************)
TxHardware == [live : BOOLEAN, remaining : 0 .. FrameLength, state : UartStates,
               dma : DmaStates, dmat : BOOLEAN, err : BOOLEAN,
               due : BOOLEAN, tc : BOOLEAN, stuck : BOOLEAN]

TxReset == [live |-> FALSE, remaining |-> 0, state |-> "READY", dma |-> "READY",
            dmat |-> FALSE, err |-> FALSE, due |-> FALSE, tc |-> FALSE,
            stuck |-> FALSE]

CanStartTx(h) == h.state = "READY" /\ h.dma = "READY"
TxStarted == [live |-> TRUE, remaining |-> FrameLength, state |-> "BUSY",
              dma |-> "BUSY", dmat |-> TRUE, err |-> FALSE, due |-> TRUE,
              tc |-> FALSE, stuck |-> FALSE]

\* The channel feeds one element; after the last it reads no more.
CanMoveTx(h) == h.live /\ ~h.stuck /\ h.dma = "BUSY" /\ h.remaining > 0
TxMoved(h) == [h EXCEPT !.remaining = @ - 1, !.live = h.remaining > 1]

\* Stage one: the DMA's interrupt frees the channel.  No driver callback.
Fed(h) == h.due /\ ~h.live /\ h.remaining = 0 /\ ~h.stuck
CanFreeChannel(h) == Fed(h) /\ h.dma = "BUSY"
TxChannelFreed(h) == [h EXCEPT !.dma = "READY", !.dmat = FALSE]

\* The shift register is empty.
CanDrain(h) == Fed(h) /\ ~h.tc
TxDrained(h) == [h EXCEPT !.tc = TRUE]

\* Stage two: TC raises its interrupt, enabled by stage one, and the callback.
CanComplete(h) == Fed(h) /\ h.tc /\ h.dma = "READY"
TxCompleted(h) == [h EXCEPT !.due = FALSE, !.state = "READY"]

\* The interrupt of either stage is lost: TC is up, nobody is told.
TxCompletionLost(h) == [h EXCEPT !.due = FALSE]

\* A completion callback while the channel is still at work.
TxCompletedEarly(h) == [h EXCEPT !.state = "READY"]

TxFaulted(h) == [h EXCEPT !.live = FALSE, !.dma = "READY", !.err = TRUE,
                          !.due = FALSE,
                          !.state = IF h.dmat THEN "READY" ELSE @]
TxSiblingFaulted(h) == [h EXCEPT !.state = IF h.dmat THEN "READY" ELSE @]

\* HAL_UART_AbortTransmit, succeeding and failing as RxStopped/RxStopFailed.
TxStopped(h) == [h EXCEPT !.live = FALSE, !.state = "READY", !.dma = "READY",
                          !.dmat = FALSE, !.due = FALSE, !.stuck = FALSE]
TxStopFailed(h) == [h EXCEPT !.dmat = FALSE, !.dma = "TIMEOUT", !.err = TRUE,
                             !.state = IF h.dmat THEN @ ELSE "READY"]
=============================================================================
