--------------------------- MODULE UartDriverProps ---------------------------
(***************************************************************************)
(* What must hold of uart::Uart: the type invariant, the safety            *)
(* invariants, the two promises the driver implements (RxStream, TxLoan),  *)
(* and liveness under the fairness of the loop and of the hardware.        *)
(***************************************************************************)
EXTENDS UartDriver

Stops   == {"baudStop", "rsStop", "finStop", "allStop", "reclaimStop"}
Returns == {"idle", "initCheck", "reraise", "health", "reclaim"}
Steps   == Stops \union Returns \union
           {"unbound", "baudApply", "settle", "drain", "pop", "announce", "audit",
            "finGate", "finNotify", "allGate", "allNotify", "reclaimGate",
            "reclaimArm", "tail", "rsGate", "rsArm"}

Chunks == [from : Nat, size : 0 .. ChunkSize]

RxState == [active : Slots \union {None}, started : BOOLEAN,
            rxGapPending : BOOLEAN, rxWorkPending : BOOLEAN,
            queue : Seq(Chunks), front : Slots]
TxState == [txBusy : BOOLEAN, txAbortPending : BOOLEAN, txProgressValid : BOOLEAN,
            txStallChecks : Nat, txLastRemaining : 0 .. FrameLength]
Thread  == [pc : Steps, ret : Returns, audit : BOOLEAN, outcome : BOOLEAN,
            notify : BOOLEAN, failCounter : 0 .. FailThreshold - 1,
            rxTeardown : BOOLEAN, txTeardown : BOOLEAN]

(***************************************************************************)
(* The type invariant: every field of the driver, of the thread and of the *)
(* hardware keeps its range (Uart.h:1756-1806).  Between them, a received  *)
(* size never leaves 0 .. ChunkSize, whatever the count register says, and *)
(* the watchdog debounce never passes its threshold.                       *)
(***************************************************************************)
TypeOK ==
    /\ line \in Nat /\ rx \in RxHardware /\ tx \in TxHardware
    /\ errorCode \in BOOLEAN
    /\ r \in RxState /\ t \in TxState /\ th \in Thread
    /\ opening \in Nat /\ heard \in Nat /\ gapped \in BOOLEAN
    /\ sent \in Nat /\ told \in Nat /\ verdict \in {"none", "ok", "failed"}
    /\ faults \in Nat /\ fails \in Nat

-----------------------------------------------------------------------------
\* m_active is the one claimed, unpublished slot: the slot after the queue's
\* tail, so that a claim never overtakes the consumer and publishing it - as a
\* chunk or as a gap marker - can never overflow the fifo.  receiveArm and every
\* path that publishes or discards the claim must keep the two in step.
ClaimIsNextSlot ==
    /\ Len(r.queue) <= ChunkCount
    /\ r.active # None => r.active = ClaimSlot(r) /\ ~Full(r)

\* While the channel can still write a chunk, that chunk is the claimed one and
\* is not in the fifo: "no recovery path may publish or discard m_active while
\* DMA can still write it" (doc/UART_PARANOID_AUDIT.md, section 3).
DmaOwnsItsTarget ==
    rx.live /\ rx.dst \in Slots => rx.dst = r.active /\ rx.dst \notin Published

\* While an overflow is not announced the producer holds no chunk, so nothing
\* received after the loss can be queued ahead of the announcement
\* (receiveArm and announceGap).
NoChunkPastTheGap == r.rxGapPending => r.active = None

\* The two rules of m_active together: the producer claims the next slot of the
\* fifo and no other, and none at all while an overflow is unannounced.
SlotDiscipline == ClaimIsNextSlot /\ NoChunkPastTheGap

\* The fast path of proceed looks at the doorbell, not at the fifo: whenever the
\* thread is between two passes, work left behind by an interrupt or by a
\* recovery has the doorbell raised.
NoForgottenWork ==
    At("idle") /\ (r.queue # <<>> \/ r.rxGapPending \/ t.txAbortPending)
        => r.rxWorkPending

\* tx_busy() answers "no" only when the DMA cannot read the caller's memory any
\* more, and a deferred abort always has a frame to settle.
BorrowSafe ==
    /\ tx.live => t.txBusy
    /\ t.txAbortPending => t.txBusy

\* HAL_UART_Init runs in setBaudRate only when neither channel can move data and
\* no stale receive callback can re-arm before the restart.
BaudChangeIsQuiet ==
    At("baudApply") => ~rx.live /\ ~tx.live /\ ~r.started /\ ~t.txBusy

\* With CTS flow control the peer may hold the frame for as long as it likes:
\* with the receive line silent and without a fault the watchdog never fails a
\* frame, at any stage of it.  (Traffic counts: a receive interrupt held off over
\* FailThreshold audits looks like a receiver that is down, and recovery is full.)
CtsHoldsForever ==
    Cts /\ line = 1 /\ faults = 0 /\ fails = 0 =>
        verdict # "failed" /\ (At("finGate") => th.outcome)

\* A failure latched by an interrupt outranks the watchdog's sample of TC, even
\* when the fault strikes between the sample and the gate of finishTx.
LatchedFailureWins ==
    [][At("finStop") /\ t.txAbortPending /\ ~t'.txAbortPending => ~th.outcome]_vars

-----------------------------------------------------------------------------
\* The receive side hands over a faithful stream: ISR re-arms, restarts,
\* overflow and the reclaim of the drop buffer never duplicate, reorder or
\* silently join bytes (GapHandler, Uart.h:347-353).
Stream == INSTANCE RxStream
StreamFaithful == Stream!Spec

\* The transmit side keeps the loan contract of send() and TxHandler: one
\* verdict per accepted frame, after the DMA has stopped, and "ok" only for a
\* frame that left, whichever of ISR, watchdog and full recovery gives it.
Loan == INSTANCE TxLoan WITH accepted <- sent, reading <- tx.live, wired <- tx.tc
LoanKept == Loan!Spec

-----------------------------------------------------------------------------
(***************************************************************************)
(* Fairness: the loop calls proceed for ever and its period keeps coming   *)
(* round, a step of the thread that can run does run, and the hardware     *)
(* raises its interrupts.  The line, the faults, the application's calls   *)
(* and the failures of the HAL are under no obligation.                    *)
(***************************************************************************)
Fairness ==
    /\ WF_vars(InitCall) /\ WF_vars(Service)
    /\ SF_vars(Proceed(TRUE))
    /\ WF_vars(RxIdle /\ rx.remaining < ChunkSize) /\ WF_vars(RxComplete)
    /\ WF_vars(TxMove) /\ WF_vars(TxFreeChannel) /\ WF_vars(TxDrain) /\ WF_vars(TxComplete)
FairSpec == Spec /\ Fairness

\* A receiver that went down (fault, overflow, failed abort, refused re-arm)
\* is brought back by proceed.
ReceiverComesBack == ~r.started ~> r.started

\* Every accepted frame gets its verdict: a lost completion, a stuck channel, a
\* fault or a failed abort delays it, never forgets it.
EveryFrameIsSettled == sent > told ~> sent = told

\* No byte is forgotten: in the end everything the line carried was handed over,
\* or what is missing after the last hand-over is covered by a reported gap -
\* even a byte left in a receiver that died without an interrupt.
EveryByteAccounted == <>[](heard + 1 = line \/ gapped)
=============================================================================
