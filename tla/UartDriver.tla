----------------------------- MODULE UartDriver -----------------------------
(***************************************************************************)
(* uart::Uart (src/uart/Uart.h): a zero-copy UART driver.  Two contexts    *)
(* share its state: the interrupts, which never nest (the USART and the    *)
(* DMA interrupts have one priority), and the one thread that calls init,  *)
(* proceed, send and setBaudRate.                                          *)
(*                                                                         *)
(* An interrupt is one step: the HAL's own work, then the driver's         *)
(* callback.  The thread is cut wherever an interrupt can be taken: a      *)
(* step is one IRQ-guarded block, one blocking HAL abort, one handler call *)
(* or one test of shared state.  th.pc says which step is next.            *)
(***************************************************************************)
EXTENDS UartHal, Timing, Sequences

CONSTANTS
    FailThreshold,  \* UART_ENGINE_FAIL_THRESHOLD
    Baud,           \* huart->Init.BaudRate
    CheckPeriod,    \* UART_ENGINE_CHECK_PERIOD_MS
    Cts,            \* CTS flow control: the peer may hold the transmitter
    RebaudAllowed,  \* whether the application ever calls setBaudRate
    Races,          \* the known windows an interrupt may strike in, see Window
    MaxBytes, MaxSends, MaxFaults, MaxFails   \* bounds of the checked runs

ASSUME DriverAssumption ==
    /\ FailThreshold \in Nat \ {0}
    /\ Baud \in Nat
    /\ CheckPeriod \in Nat \ {0}
    /\ {Cts, RebaudAllowed} \subseteq BOOLEAN
    /\ Races \subseteq {"init", "announce", "reclaim"}
    /\ {MaxBytes, MaxSends, MaxFaults, MaxFails} \subseteq Nat

VARIABLES
    line,       \* number of the next byte on the line
    rx, tx,     \* the two directions of the hardware
    errorCode,  \* huart->ErrorCode # HAL_UART_ERROR_NONE
    r,          \* the driver's receive state
    t,          \* the driver's transmit state
    th,         \* the thread: program counter, locals, teardown gates
    opening,    \* first byte of the span last handed to RxHandler, 0 before it
    heard,      \* last byte of that span, 0 before the first
    gapped,     \* a gap was reported since (or nothing was heard yet)
    sent,       \* frames accepted by send()
    told,       \* TxHandler calls
    verdict,    \* what the last TxHandler call said
    faults,     \* faults so far, at most MaxFaults
    fails       \* failed HAL calls so far, at most MaxFails

hardware == <<line, rx, tx, errorCode>>
stream   == <<opening, heard, gapped>>
loan     == <<sent, told, verdict>>
vars == <<hardware, r, t, th, stream, loan, faults, fails>>

Init ==
    /\ line = 1
    /\ rx = RxReset /\ tx = TxReset /\ errorCode = FALSE
    /\ r = [active |-> None, started |-> FALSE, rxGapPending |-> FALSE,
            rxWorkPending |-> FALSE, queue |-> <<>>, front |-> 0]
    /\ t = [txBusy |-> FALSE, txAbortPending |-> FALSE, txProgressValid |-> FALSE,
            txStallChecks |-> 0, txLastRemaining |-> 0]
    /\ th = [pc |-> "unbound", ret |-> "idle", audit |-> FALSE, outcome |-> FALSE,
             notify |-> FALSE, failCounter |-> 0,
             rxTeardown |-> FALSE, txTeardown |-> FALSE]
    /\ opening = 0 /\ heard = 0 /\ gapped = TRUE
    /\ sent = 0 /\ told = 0 /\ verdict = "none"
    /\ faults = 0 /\ fails = 0

-----------------------------------------------------------------------------
(***************************************************************************)
(* Receive primitives: operators from the driver's receive state to the    *)
(* next one.  r.queue holds the published chunks, oldest first; its head   *)
(* lies in slot r.front.  A chunk of size 0 is the in-band gap marker.     *)
(***************************************************************************)
Full(s) == Len(s.queue) = ChunkCount
ClaimSlot(s) == (s.front + Len(s.queue)) % ChunkCount
Published == {(r.front + i) % ChunkCount : i \in 0 .. Len(r.queue) - 1}

\* Mutant: the marker is published without ringing the doorbell.
voidActiveChunk_Silent(s) ==
    IF s.active = None THEN s
    ELSE [s EXCEPT !.queue = Append(@, [from |-> 0, size |-> 0]), !.active = None]

voidActiveChunk(s) ==
    IF s.active = None THEN s
    ELSE [s EXCEPT !.queue = Append(@, [from |-> 0, size |-> 0]),
                   !.active = None, !.rxWorkPending = TRUE]

publishActive(s, from, size) ==
    IF s.active = None \/ size = 0 THEN s
    ELSE [s EXCEPT !.queue = Append(@, [from |-> from, size |-> size]),
                   !.active = None, !.rxWorkPending = TRUE]

rejectDmaCount(s) == [voidActiveChunk(s) EXCEPT !.started = FALSE]
rejectLiveRxEvent(s) == [s EXCEPT !.started = FALSE]

\* Mutant: the count register is believed.
CountValid_Unchecked(h) == h.remaining \in Nat

CountValid(h) == h.remaining <= ChunkSize
publishReceived(s, h) == publishActive(s, h.from, ChunkSize - h.remaining)

\* Mutant: a chunk is claimed while an overflow is still unannounced.
Claimed_PastGap(s) ==
    IF s.active # None THEN s
    ELSE IF Full(s) THEN [s EXCEPT !.rxGapPending = TRUE, !.rxWorkPending = TRUE]
    ELSE [s EXCEPT !.active = ClaimSlot(s)]

\* The claim of receiveArm: an already claimed chunk is reused, and while a gap
\* is pending the producer stays in the drop buffer.
Claimed(s) ==
    IF s.active # None \/ s.rxGapPending THEN s
    ELSE IF Full(s) THEN [s EXCEPT !.rxGapPending = TRUE, !.rxWorkPending = TRUE]
    ELSE [s EXCEPT !.active = ClaimSlot(s)]

(***************************************************************************)
(* Three windows are too wide in the code.  The runs that show what an     *)
(* interrupt does there name one of them in Races; where a promise is      *)
(* checked to hold, Races is empty:                                        *)
(*   init      the first interrupts go wrong before init's last check      *)
(*   announce  the fifo fills up after the drain found it empty and before *)
(*             announceGap                                                 *)
(*   reclaim   the reception ends between the overflow test of proceed and *)
(*             the teardown gate                                           *)
(***************************************************************************)
InitSpared == "init" \notin Races /\ th.ret = "initCheck"
RxEndSpared ==
    \/ "announce" \notin Races /\ th.pc = "announce" /\ Len(r.queue) + 1 >= ChunkCount
    \/ "reclaim" \notin Races /\ th.pc = "reclaimGate"

MayRefuse == fails < MaxFails /\ (~InitSpared \/ th.pc = "rsArm")

receiveArm(s, h) ==
    LET c == Claimed(s) IN
    \/ /\ CanArmRx(h)
       /\ rx' = RxArmed(h, IF c.active = None THEN Drop ELSE c.active, line)
       /\ r' = [c EXCEPT !.started = TRUE]
       /\ UNCHANGED fails
    \/ /\ ~CanArmRx(h) \/ MayRefuse
       /\ fails' = IF CanArmRx(h) THEN fails + 1 ELSE fails
       /\ rx' = h
       /\ r' = [c EXCEPT !.started = FALSE]

\* TxHandler(ok).
Tell(ok) ==
    /\ told' = told + 1 /\ verdict' = (IF ok THEN "ok" ELSE "failed")
    /\ UNCHANGED sent

\* The service doorbell covers a deferred transmit abort too.
deferTxAbort(s) ==
    /\ t' = [t EXCEPT !.txAbortPending = TRUE]
    /\ r' = [s EXCEPT !.rxWorkPending = TRUE]

-----------------------------------------------------------------------------
(***************************************************************************)
(* The driver's three interrupt callbacks, given the hardware state the    *)
(* HAL leaves behind.  An unbound driver is not in the registry.           *)
(***************************************************************************)
Bound == th.pc # "unbound"

\* Mutant: RxState READY is taken for a stopped channel.
isrRxEvent_TrustsUart(h) ==
    IF ~Bound \/ ~r.started \/ th.rxTeardown
    THEN rx' = h /\ UNCHANGED <<r, fails>>
    ELSE IF h.state # "READY" THEN rx' = h /\ r' = rejectLiveRxEvent(r) /\ UNCHANGED fails
    ELSE IF ~CountValid(h) THEN rx' = h /\ r' = rejectDmaCount(r) /\ UNCHANGED fails
    ELSE receiveArm(publishReceived(r, h), h)

isrRxEvent(h) ==
    IF ~Bound \/ ~r.started \/ th.rxTeardown
    THEN rx' = h /\ UNCHANGED <<r, fails>>
    ELSE IF h.state # "READY" \/ h.dma # "READY"
    THEN rx' = h /\ r' = rejectLiveRxEvent(r) /\ UNCHANGED fails
    ELSE IF ~CountValid(h)
    THEN rx' = h /\ r' = rejectDmaCount(r) /\ UNCHANGED fails
    ELSE receiveArm(publishReceived(r, h), h)

\* Mutants: the teardown gate is not looked at; the channel is not looked at.
isrTxCplt_Ungated(h) ==
    /\ tx' = h
    /\ IF ~Bound \/ ~t.txBusy \/ t.txAbortPending THEN UNCHANGED <<r, t, loan>>
       ELSE IF h.dma # "READY" THEN deferTxAbort(r) /\ UNCHANGED loan
       ELSE t' = [t EXCEPT !.txBusy = FALSE] /\ Tell(~h.err) /\ UNCHANGED r

isrTxCplt(h) ==
    /\ tx' = h
    /\ IF ~Bound \/ ~t.txBusy \/ th.txTeardown \/ t.txAbortPending
       THEN UNCHANGED <<r, t, loan>>
       ELSE IF h.dma # "READY"
       THEN deferTxAbort(r) /\ UNCHANGED loan
       ELSE t' = [t EXCEPT !.txBusy = FALSE] /\ Tell(~h.err) /\ UNCHANGED r

\* Mutant: RxState READY is taken for a stopped channel.
ErrorRx_TrustsUart(hr) ==
    IF th.rxTeardown \/ hr.state # "READY" THEN r
    ELSE [voidActiveChunk(r) EXCEPT !.started = FALSE]

\* The receive half of isrError.  A READY direction is voided only when its
\* channel has stopped.
ErrorRx(hr) ==
    IF th.rxTeardown \/ hr.state # "READY" THEN r
    ELSE [(IF hr.dma = "READY" THEN voidActiveChunk(r) ELSE r)
             EXCEPT !.started = FALSE]

ErrorEndsTx(ht) ==
    ~th.txTeardown /\ t.txBusy /\ ~t.txAbortPending /\ ht.state = "READY"

\* Mutant: gState READY is taken for a stopped transmit channel.
isrError_TrustsUart(hr, ht) ==
    /\ tx' = ht
    /\ IF ~Bound \/ (th.rxTeardown /\ th.txTeardown)
       THEN rx' = hr /\ errorCode' = TRUE /\ UNCHANGED <<r, t, loan>>
       ELSE /\ rx' = IF hr.state = "READY" THEN RxErrorsCleared(hr) ELSE hr
            /\ errorCode' = FALSE
            /\ r' = ErrorRx(hr)
            /\ IF ErrorEndsTx(ht) THEN t' = [t EXCEPT !.txBusy = FALSE] /\ Tell(FALSE)
               ELSE UNCHANGED <<t, loan>>

isrError(hr, ht) ==
    /\ tx' = ht
    /\ IF ~Bound \/ (th.rxTeardown /\ th.txTeardown)
       THEN rx' = hr /\ errorCode' = TRUE /\ UNCHANGED <<r, t, loan>>
       ELSE /\ rx' = IF hr.state = "READY" THEN RxErrorsCleared(hr) ELSE hr
            /\ errorCode' = FALSE
            /\ IF ~ErrorEndsTx(ht) THEN r' = ErrorRx(hr) /\ UNCHANGED <<t, loan>>
               ELSE IF ht.dma # "READY"
               THEN deferTxAbort(ErrorRx(hr)) /\ UNCHANGED loan
               ELSE /\ r' = ErrorRx(hr)
                    /\ t' = [t EXCEPT !.txBusy = FALSE] /\ Tell(FALSE)

(***************************************************************************)
(* Hardware events: the line, the interrupts and the faults.               *)
(***************************************************************************)
LineByte ==
    /\ line <= MaxBytes /\ CanTakeByte(rx)
    /\ rx' = RxByteTaken(rx, line)
    /\ line' = line + 1
    /\ UNCHANGED <<tx, errorCode, r, t, th, stream, loan, faults, fails>>

Receiving == rx.live /\ rx.state = "BUSY"

RxIdle ==
    /\ Receiving /\ ~RxEndSpared
    /\ isrRxEvent(RxEnded(rx))
    /\ UNCHANGED <<line, tx, errorCode, t, th, stream, loan, faults>>

RxComplete ==
    /\ Receiving /\ rx.remaining = 0 /\ ~RxEndSpared
    /\ isrRxEvent(RxEnded(rx))
    /\ UNCHANGED <<line, tx, errorCode, t, th, stream, loan, faults>>

TxMove ==
    /\ CanMoveTx(tx) /\ tx' = TxMoved(tx)
    /\ UNCHANGED <<line, rx, errorCode, r, t, th, stream, loan, faults, fails>>

TxFreeChannel ==
    /\ CanFreeChannel(tx) /\ tx' = TxChannelFreed(tx)
    /\ UNCHANGED <<line, rx, errorCode, r, t, th, stream, loan, faults, fails>>

TxDrain ==
    /\ CanDrain(tx) /\ tx' = TxDrained(tx)
    /\ UNCHANGED <<line, rx, errorCode, r, t, th, stream, loan, faults, fails>>

TxComplete ==
    /\ CanComplete(tx) /\ isrTxCplt(TxCompleted(tx))
    /\ UNCHANGED <<line, rx, errorCode, th, stream, faults, fails>>

Fault ==
    /\ faults < MaxFaults
    /\ th.pc # "unbound" /\ ~InitSpared
    /\ faults' = faults + 1

RxIdleAbortFails ==
    /\ Fault /\ Receiving
    /\ isrRxEvent(RxEndedAbortFailed(rx))
    /\ UNCHANGED <<line, tx, errorCode, t, th, stream, loan>>

RxCorruptCount ==
    /\ Fault /\ Receiving
    /\ isrRxEvent(RxEndedCorrupt(rx))
    /\ UNCHANGED <<line, tx, errorCode, t, th, stream, loan>>

\* A half-transfer event would be ignored; any other kind is not.
RxEventWhileRunning ==
    /\ Fault /\ Receiving
    /\ isrRxEvent(rx)
    /\ UNCHANGED <<line, tx, errorCode, t, th, stream, loan>>

RxLineError ==
    /\ Fault /\ Receiving
    /\ isrError(RxEnded(rx), tx)
    /\ UNCHANGED <<line, th, stream, fails>>

RxDmaFault ==
    /\ Fault /\ rx.live
    /\ isrError(RxFaulted(rx), TxSiblingFaulted(tx))
    /\ UNCHANGED <<line, th, stream, fails>>

TxDmaFault ==
    /\ Fault /\ tx.live
    /\ isrError(RxSiblingFaulted(rx), TxFaulted(tx))
    /\ UNCHANGED <<line, th, stream, fails>>

RxDies ==
    /\ Fault /\ Receiving /\ rx' = RxDead(rx)
    /\ UNCHANGED <<line, tx, errorCode, r, t, th, stream, loan, fails>>

TxStalls ==
    /\ Fault /\ tx.due /\ ~tx.stuck /\ tx' = [tx EXCEPT !.stuck = TRUE]
    /\ UNCHANGED <<line, rx, errorCode, r, t, th, stream, loan, fails>>

TxCompletionIsLost ==
    /\ Fault /\ tx.due /\ tx.tc /\ tx' = TxCompletionLost(tx)
    /\ UNCHANGED <<line, rx, errorCode, r, t, th, stream, loan, fails>>

TxCompletesEarly ==
    /\ Fault /\ tx.live /\ tx.due
    /\ isrTxCplt(TxCompletedEarly(tx))
    /\ UNCHANGED <<line, rx, errorCode, th, stream, fails>>

-----------------------------------------------------------------------------
(***************************************************************************)
(* The thread.  Goto(l) moves to step l and keeps every local.             *)
(***************************************************************************)
At(l) == th.pc = l
Goto(l) == th' = [th EXCEPT !.pc = l]
Quiet == UNCHANGED <<line, stream, sent, faults>>   \* what thread steps keep
NoVerdict == UNCHANGED <<told, verdict>>

\* init: the pre-flight refuses a peripheral that is not at rest.
InitCall ==
    /\ At("unbound")
    /\ rx.state = "READY" /\ tx.state = "READY" /\ rx.dma = "READY" /\ tx.dma = "READY"
    /\ th' = [th EXCEPT !.pc = "rsGate", !.ret = "initCheck"]
    /\ Quiet /\ NoVerdict /\ UNCHANGED <<rx, tx, errorCode, r, t, fails>>

InitCheck ==
    /\ At("initCheck")
    /\ IF r.started
       THEN r' = r /\ th' = [th EXCEPT !.pc = "idle", !.ret = "idle"]
       ELSE r' = [r EXCEPT !.active = None] /\ th' = [th EXCEPT !.pc = "unbound"]
    /\ Quiet /\ NoVerdict /\ UNCHANGED <<rx, tx, errorCode, t, fails>>

\* send: from the loop, or from a receive handler the drain is running.
Send ==
    /\ th.pc \in {"idle", "pop"} /\ ~t.txBusy /\ sent < MaxSends
    /\ \/ /\ CanStartTx(tx)
          /\ tx' = TxStarted /\ errorCode' = FALSE
          /\ t' = [t EXCEPT !.txProgressValid = FALSE, !.txStallChecks = 0,
                            !.txBusy = TRUE]
          /\ sent' = sent + 1 /\ verdict' = "none"
          /\ UNCHANGED fails
       \/ /\ ~CanStartTx(tx) \/ fails < MaxFails
          /\ fails' = IF CanStartTx(tx) THEN fails + 1 ELSE fails
          /\ t' = [t EXCEPT !.txProgressValid = FALSE, !.txStallChecks = 0]
          /\ UNCHANGED <<tx, errorCode, sent, verdict>>
    /\ UNCHANGED <<line, rx, r, th, stream, told, faults>>

\* setBaudRate: refused with a frame in flight; reception is stopped first.
RebaudCall ==
    /\ At("idle") /\ RebaudAllowed /\ ~t.txBusy
    /\ th' = [th EXCEPT !.pc = "baudStop", !.rxTeardown = TRUE]
    /\ Quiet /\ NoVerdict /\ UNCHANGED <<rx, tx, errorCode, r, t, fails>>

StopRxFails(next) ==
    /\ CanFailStop(rx) /\ fails < MaxFails
    /\ fails' = fails + 1
    /\ rx' = RxStopFailed(rx) /\ errorCode' = TRUE
    /\ r' = [r EXCEPT !.started = FALSE]
    /\ th' = [th EXCEPT !.pc = next, !.rxTeardown = FALSE]

\* Mutant: the baud rate is changed although the receiver did not stop.
RebaudStop_Hopes ==
    /\ At("baudStop")
    /\ \/ /\ rx' = RxStopped(rx)
          /\ r' = [r EXCEPT !.started = FALSE]
          /\ th' = [th EXCEPT !.pc = "baudApply", !.rxTeardown = FALSE]
          /\ UNCHANGED <<errorCode, fails>>
       \/ StopRxFails("baudApply")
    /\ Quiet /\ NoVerdict /\ UNCHANGED <<tx, t>>

RebaudStop ==
    /\ At("baudStop")
    /\ \/ /\ rx' = RxStopped(rx)
          /\ r' = [r EXCEPT !.started = FALSE]
          /\ th' = [th EXCEPT !.pc = "baudApply", !.rxTeardown = FALSE]
          /\ UNCHANGED <<errorCode, fails>>
       \/ StopRxFails("idle")
    /\ Quiet /\ NoVerdict /\ UNCHANGED <<tx, t>>

\* HAL_UART_Init, the FIFO restore and the fallback to the previous speed.
RebaudApply ==
    /\ At("baudApply")
    /\ errorCode' = FALSE
    /\ th' = [th EXCEPT !.pc = "rsGate", !.ret = "idle"]
    /\ Quiet /\ NoVerdict /\ UNCHANGED <<rx, tx, r, t, fails>>

(***************************************************************************)
(* proceed.  The fast path returns at once; a slow pass clears the         *)
(* doorbell, settles a deferred transmit abort, drains the fifo, announces *)
(* an overflow, runs the watchdog when its period is over, and brings the  *)
(* receiver back from the drop buffer or from a stop.                      *)
(***************************************************************************)
Proceed(audit_due) ==
    /\ At("idle") /\ (r.rxWorkPending \/ ~r.started \/ audit_due)
    /\ r' = [r EXCEPT !.rxWorkPending = FALSE]
    /\ th' = [th EXCEPT !.pc = "settle", !.audit = audit_due]
    /\ Quiet /\ NoVerdict /\ UNCHANGED <<rx, tx, errorCode, t, fails>>

\* Mutant: a deferred transmit abort is left to the watchdog.
Settle_Never ==
    /\ At("settle") /\ Goto("drain")
    /\ Quiet /\ NoVerdict /\ UNCHANGED <<rx, tx, errorCode, r, t, fails>>

Settle ==
    /\ At("settle")
    /\ th' = IF t.txAbortPending
             THEN [th EXCEPT !.pc = "finGate", !.ret = "reraise", !.outcome = FALSE]
             ELSE [th EXCEPT !.pc = "drain"]
    /\ Quiet /\ NoVerdict /\ UNCHANGED <<rx, tx, errorCode, r, t, fails>>

Reraise ==
    /\ At("reraise")
    /\ r' = IF t.txAbortPending THEN [r EXCEPT !.rxWorkPending = TRUE] ELSE r
    /\ Goto("drain")
    /\ Quiet /\ NoVerdict /\ UNCHANGED <<rx, tx, errorCode, t, fails>>

Deliver ==
    /\ At("drain")
    /\ IF r.queue = <<>>
       THEN Goto("announce") /\ UNCHANGED stream
       ELSE /\ Goto("pop")
            /\ IF Head(r.queue).size = 0
               THEN gapped' = TRUE /\ UNCHANGED <<opening, heard>>
               ELSE /\ opening' = Head(r.queue).from
                    /\ heard' = Head(r.queue).from + Head(r.queue).size - 1
                    /\ gapped' = FALSE
    /\ UNCHANGED <<hardware, r, t, loan, faults, fails>>

Pop ==
    /\ At("pop")
    /\ r' = [r EXCEPT !.queue = Tail(@), !.front = (@ + 1) % ChunkCount]
    /\ Goto("drain")
    /\ UNCHANGED <<hardware, t, stream, loan, faults, fails>>

announceGap ==
    /\ At("announce")
    /\ IF r.rxGapPending
       THEN r' = [r EXCEPT !.rxGapPending = FALSE] /\ gapped' = TRUE
       ELSE r' = r /\ UNCHANGED gapped
    /\ Goto(IF th.audit THEN "audit" ELSE "reclaim")
    /\ UNCHANGED <<hardware, t, opening, heard, loan, faults, fails>>

(***************************************************************************)
(* The watchdog.                                                           *)
(***************************************************************************)
FinishTx(ok) ==
    th' = [th EXCEPT !.pc = "finGate", !.ret = "health", !.outcome = ok]

\* A sample that settles nothing: the frame is left alone.
Observe(tNew) == t' = tNew /\ Goto("health")

\* How many audits a frame whose DMA is done may take to leave the shift register.
DrainLimit == tx_drain_audit_limit(Baud, CheckPeriod, FailThreshold)

\* A sample that counts towards a stall of the given limit.
CountStall(limit) ==
    IF t.txStallChecks + 1 >= limit
    THEN t' = [t EXCEPT !.txStallChecks = 0] /\ FinishTx(FALSE)
    ELSE Observe([t EXCEPT !.txStallChecks = @ + 1])

Baseline == [t EXCEPT !.txLastRemaining = tx.remaining, !.txProgressValid = TRUE,
                      !.txStallChecks = 0]
Moving == ~t.txProgressValid \/ tx.remaining # t.txLastRemaining

\* Mutant: the drain stage is timed under CTS too.
txLivenessAudit_DrainTimed ==
    /\ At("audit")
    /\ IF ~t.txBusy \/ t.txAbortPending THEN Observe(t)
       ELSE IF tx.remaining = 0 /\ tx.tc /\ ~tx.err THEN t' = t /\ FinishTx(TRUE)
       ELSE IF tx.remaining = 0
       THEN IF Moving THEN Observe(Baseline) ELSE CountStall(DrainLimit)
       ELSE IF Cts THEN Observe(t)
       ELSE IF Moving THEN Observe(Baseline) ELSE CountStall(FailThreshold)
    /\ Quiet /\ NoVerdict /\ UNCHANGED <<rx, tx, errorCode, r, fails>>

txLivenessAudit ==
    /\ At("audit")
    /\ IF ~t.txBusy \/ t.txAbortPending THEN Observe(t)
       ELSE IF tx.remaining = 0 /\ tx.tc /\ ~tx.err THEN t' = t /\ FinishTx(TRUE)
       ELSE IF tx.remaining = 0
       THEN IF Cts \/ Moving THEN Observe(Baseline) ELSE CountStall(DrainLimit)
       ELSE IF Cts THEN Observe(t)
       ELSE IF Moving THEN Observe(Baseline) ELSE CountStall(FailThreshold)
    /\ Quiet /\ NoVerdict /\ UNCHANGED <<rx, tx, errorCode, r, fails>>

\* Mutant: the sample taken before the gate is final.
FinishGate_StaleSample ==
    /\ At("finGate")
    /\ th' = [th EXCEPT !.pc = "finStop", !.txTeardown = TRUE]
    /\ Quiet /\ NoVerdict /\ UNCHANGED <<rx, tx, errorCode, r, t, fails>>

\* finishTx: raise the gate, and let a latched failure outrank the sample.
FinishGate ==
    /\ At("finGate")
    /\ th' = [th EXCEPT !.pc = "finStop", !.txTeardown = TRUE,
                        !.outcome = @ /\ ~t.txAbortPending]
    /\ Quiet /\ NoVerdict /\ UNCHANGED <<rx, tx, errorCode, r, t, fails>>

\* Mutant: the frame is released although its channel did not stop.
FinishStop_Hopes ==
    /\ At("finStop")
    /\ t' = [t EXCEPT !.txBusy = FALSE, !.txAbortPending = FALSE, !.txProgressValid = FALSE]
    /\ th' = [th EXCEPT !.pc = "finNotify", !.txTeardown = FALSE, !.notify = t.txBusy]
    /\ \/ tx' = TxStopped(tx) /\ UNCHANGED <<errorCode, fails>>
       \/ /\ CanFailStop(tx) /\ fails < MaxFails
          /\ fails' = fails + 1
          /\ tx' = TxStopFailed(tx) /\ errorCode' = TRUE
    /\ Quiet /\ NoVerdict /\ UNCHANGED <<rx, r>>

FinishStop ==
    /\ At("finStop")
    /\ \/ /\ tx' = TxStopped(tx)
          /\ t' = IF t.txBusy THEN [t EXCEPT !.txBusy = FALSE, !.txAbortPending = FALSE,
                                             !.txProgressValid = FALSE]
                  ELSE t
          /\ th' = [th EXCEPT !.pc = "finNotify", !.txTeardown = FALSE,
                              !.notify = t.txBusy]
          /\ UNCHANGED <<errorCode, fails>>
       \/ /\ CanFailStop(tx) /\ fails < MaxFails
          /\ fails' = fails + 1
          /\ tx' = TxStopFailed(tx) /\ errorCode' = TRUE
          /\ th' = [th EXCEPT !.pc = "finNotify", !.txTeardown = FALSE]
          /\ t' = t
    /\ Quiet /\ NoVerdict /\ UNCHANGED <<rx, r>>

FinishNotify ==
    /\ At("finNotify")
    /\ th' = [th EXCEPT !.pc = th.ret, !.notify = FALSE]
    /\ IF th.notify THEN Tell(th.outcome) ELSE UNCHANGED loan
    /\ UNCHANGED <<hardware, r, t, stream, faults, fails>>

\* Mutant: a receiver whose DMA request is gone looks healthy.
Bad_BlindToDmar ==
    \/ errorCode \/ rx.err
    \/ r.started /\ (rx.state # "BUSY" \/ rx.remaining \notin 1 .. ChunkSize)
    \/ t.txBusy /\ tx.err

Bad ==
    \/ errorCode \/ rx.err
    \/ r.started /\ (rx.state # "BUSY" \/ ~rx.dmar \/ rx.remaining \notin 1 .. ChunkSize)
    \/ t.txBusy /\ tx.err

\* healthCheck: one sample of the hardware, debounced.
healthCheck ==
    /\ At("health")
    /\ th' = IF ~Bad THEN [th EXCEPT !.pc = "reclaim", !.failCounter = 0]
             ELSE IF th.failCounter + 1 < FailThreshold
             THEN [th EXCEPT !.pc = "reclaim", !.failCounter = @ + 1]
             ELSE [th EXCEPT !.pc = "allGate", !.failCounter = 0]
    /\ Quiet /\ NoVerdict /\ UNCHANGED <<rx, tx, errorCode, r, t, fails>>

\* Gate first, snapshot second.
AllGate ==
    /\ At("allGate")
    /\ th' = [th EXCEPT !.pc = "allStop", !.rxTeardown = TRUE, !.txTeardown = TRUE,
                        !.notify = t.txBusy]
    /\ Quiet /\ NoVerdict /\ UNCHANGED <<rx, tx, errorCode, r, t, fails>>

\* stopAll aborts TX before RX, so a failure leaves RX alone or TX stopped.
AllStop ==
    /\ At("allStop")
    /\ \/ /\ rx' = RxStopped(rx) /\ tx' = TxStopped(tx) /\ errorCode' = FALSE
          /\ r' = [voidActiveChunk(r) EXCEPT !.started = FALSE]
          /\ t' = [t EXCEPT !.txBusy = FALSE, !.txAbortPending = FALSE]
          /\ th' = [th EXCEPT !.pc = "allNotify", !.rxTeardown = FALSE,
                              !.txTeardown = FALSE]
          /\ UNCHANGED fails
       \/ /\ fails < MaxFails /\ fails' = fails + 1
          /\ \/ CanFailStop(tx) /\ tx' = TxStopFailed(tx) /\ rx' = rx
             \/ CanFailStop(rx) /\ tx' = TxStopped(tx) /\ rx' = RxStopFailed(rx)
          /\ errorCode' = TRUE
          /\ r' = [r EXCEPT !.started = FALSE] /\ t' = t
          /\ th' = [th EXCEPT !.pc = "reclaim", !.rxTeardown = FALSE,
                              !.txTeardown = FALSE, !.notify = FALSE]
    /\ Quiet /\ NoVerdict

AllNotify ==
    /\ At("allNotify")
    /\ IF th.notify THEN Tell(FALSE) ELSE UNCHANGED loan
    /\ th' = [th EXCEPT !.pc = "rsGate", !.ret = "reclaim", !.notify = FALSE]
    /\ UNCHANGED <<hardware, r, t, stream, faults, fails>>

(***************************************************************************)
(* Overflow recovery and receiveRestart.                                   *)
(***************************************************************************)
ReclaimTest ==
    /\ At("reclaim")
    /\ Goto(IF r.started /\ r.active = None /\ ~Full(r) THEN "reclaimGate" ELSE "tail")
    /\ Quiet /\ NoVerdict /\ UNCHANGED <<rx, tx, errorCode, r, t, fails>>

\* Between the test and the gate an interrupt may still re-arm onto a real chunk.
ReclaimGate ==
    /\ At("reclaimGate")
    /\ th' = [th EXCEPT !.pc = "reclaimStop", !.rxTeardown = TRUE]
    /\ Quiet /\ NoVerdict /\ UNCHANGED <<rx, tx, errorCode, r, t, fails>>

ReclaimStop ==
    /\ At("reclaimStop")
    /\ \/ /\ rx' = RxStopped(rx)
          /\ th' = [th EXCEPT !.pc = "reclaimArm", !.rxTeardown = FALSE]
          /\ UNCHANGED <<errorCode, r, fails>>
       \/ StopRxFails("tail")
    /\ Quiet /\ NoVerdict /\ UNCHANGED <<tx, t>>

ReclaimArm ==
    /\ At("reclaimArm")
    /\ IF ~r.started THEN UNCHANGED <<rx, r, fails>>
       ELSE IF CountValid(rx) THEN receiveArm(publishReceived(r, rx), rx)
       ELSE r' = rejectDmaCount(r) /\ UNCHANGED <<rx, fails>>
    /\ Goto("tail")
    /\ Quiet /\ NoVerdict /\ UNCHANGED <<tx, errorCode, t>>

\* Mutant: proceed leaves a receiver that is down to the next pass.
ProceedTail_NoRetry ==
    /\ At("tail") /\ Goto("idle")
    /\ Quiet /\ NoVerdict /\ UNCHANGED <<rx, tx, errorCode, r, t, fails>>

ProceedTail ==
    /\ At("tail")
    /\ th' = IF r.started THEN [th EXCEPT !.pc = "idle"]
             ELSE [th EXCEPT !.pc = "rsGate", !.ret = "idle"]
    /\ Quiet /\ NoVerdict /\ UNCHANGED <<rx, tx, errorCode, r, t, fails>>

RestartGate ==
    /\ At("rsGate")
    /\ th' = [th EXCEPT !.pc = "rsStop", !.rxTeardown = TRUE]
    /\ Quiet /\ NoVerdict /\ UNCHANGED <<rx, tx, errorCode, r, t, fails>>

RestartStop ==
    /\ At("rsStop")
    /\ \/ /\ rx' = RxStopped(rx)
          /\ th' = [th EXCEPT !.pc = "rsArm", !.rxTeardown = FALSE]
          /\ UNCHANGED <<errorCode, r, fails>>
       \/ StopRxFails(th.ret)
    /\ Quiet /\ NoVerdict /\ UNCHANGED <<tx, t>>

\* Mutant: the restart re-arms the claimed chunk without publishing a marker.
RestartArm_Unmarked ==
    /\ At("rsArm")
    /\ receiveArm(r, RxErrorsCleared(rx))
    /\ errorCode' = FALSE
    /\ Goto(th.ret)
    /\ Quiet /\ NoVerdict /\ UNCHANGED <<tx, t>>

RestartArm ==
    /\ At("rsArm")
    /\ receiveArm(voidActiveChunk(r), RxErrorsCleared(rx))
    /\ errorCode' = FALSE
    /\ Goto(th.ret)
    /\ Quiet /\ NoVerdict /\ UNCHANGED <<tx, t>>

-----------------------------------------------------------------------------
Interrupt == RxIdle \/ RxComplete \/ TxMove \/ TxFreeChannel \/ TxDrain \/ TxComplete
Faulty ==
    \/ RxIdleAbortFails \/ RxCorruptCount \/ RxEventWhileRunning \/ RxLineError
    \/ RxDmaFault \/ TxDmaFault \/ RxDies
    \/ TxStalls \/ TxCompletionIsLost \/ TxCompletesEarly
Application == InitCall \/ Send \/ RebaudCall \/ Proceed(TRUE) \/ Proceed(FALSE)
Service ==
    \/ InitCheck \/ RebaudStop \/ RebaudApply
    \/ Settle \/ Reraise \/ Deliver \/ Pop \/ announceGap
    \/ txLivenessAudit \/ FinishGate \/ FinishStop \/ FinishNotify
    \/ healthCheck \/ AllGate \/ AllStop \/ AllNotify
    \/ ReclaimTest \/ ReclaimGate \/ ReclaimStop \/ ReclaimArm \/ ProceedTail
    \/ RestartGate \/ RestartStop \/ RestartArm

Next == LineByte \/ Interrupt \/ Faulty \/ Application \/ Service
Spec == Init /\ [][Next]_vars
=============================================================================
