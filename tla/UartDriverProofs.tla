-------------------------- MODULE UartDriverProofs --------------------------
(***************************************************************************)
(* Type correctness of uart::Uart, its slot accounting and the transmit    *)
(* loan, for every geometry, every bound and every set of race windows;    *)
(* and that the driver implements TxLoan and, outside the windows of       *)
(* Races, RxStream.                                                        *)
(*                                                                         *)
(* The inductive invariant is a conjunction of a receive part, a transmit  *)
(* part and a thread part; an operator of the driver is shown once to keep *)
(* the part it works on, and each action then only has to cite it.  Three  *)
(* invariants build on it: DmaInv (the channel and the chunk it writes),   *)
(* LoanInv (who owes the verdict) and StreamInv (what is queued continues  *)
(* what was handed over).                                                  *)
(***************************************************************************)
EXTENDS UartDriverProps, TLAPS

\* The receive state of the driver is sound in itself.
RxOK(s) ==
    /\ s \in RxState
    /\ Len(s.queue) <= ChunkCount
    /\ s.active # None => s.active = ClaimSlot(s) /\ ~Full(s)
    /\ s.rxGapPending => s.active = None

\* A transmit channel that is READY does not run, and a running one is lent.
TxOK(h, s) ==
    /\ h \in TxHardware /\ s \in TxState
    /\ h.dma = "READY" => ~h.live
    /\ h.live => s.txBusy
    /\ s.txAbortPending => s.txBusy

LoanOK == sent \in Nat /\ told \in Nat /\ verdict \in {"none", "ok", "failed"}

RestOK ==
    /\ line \in Nat /\ errorCode \in BOOLEAN
    /\ opening \in Nat /\ heard \in Nat /\ gapped \in BOOLEAN
    /\ faults \in Nat /\ fails \in Nat

ThreadOK == th \in Thread /\ (At("pop") => r.queue # <<>>)

IInv ==
    /\ rx \in RxHardware /\ RxOK(r)
    /\ TxOK(tx, t) /\ LoanOK
    /\ ThreadOK /\ RestOK

\* The transmit channel g is sound and does not run unless h did.
Calmer(h, g) == g \in TxHardware /\ (g.dma = "READY" => ~g.live) /\ (g.live => h.live)

-----------------------------------------------------------------------------
(***************************************************************************)
(* The hardware keeps its ranges.                                          *)
(***************************************************************************)
\* Drop and None are names of their own.
LEMMA Targets ==
    /\ Slots \subseteq Nat /\ Drop \notin Slots /\ None \notin Slots /\ Drop # None
    /\ 0 \in Slots
BY HalAssumption DEF Slots, Drop, None

\* A receive event or call takes one receive record to another.
LEMMA RxHardwareOps ==
    ASSUME NEW h \in RxHardware
    PROVE  /\ RxEnded(h) \in RxHardware /\ RxEndedAbortFailed(h) \in RxHardware
           /\ RxEndedCorrupt(h) \in RxHardware /\ RxFaulted(h) \in RxHardware
           /\ RxSiblingFaulted(h) \in RxHardware /\ RxDead(h) \in RxHardware
           /\ RxStopped(h) \in RxHardware /\ RxStopFailed(h) \in RxHardware
           /\ RxErrorsCleared(h) \in RxHardware
<1> USE HalAssumption DEF RxHardware, UartStates, DmaStates, CorruptCount
<1>1. RxEnded(h) \in RxHardware
  BY DEF RxEnded
<1>2. RxEndedAbortFailed(h) \in RxHardware
  BY DEF RxEndedAbortFailed
<1>3. RxEndedCorrupt(h) \in RxHardware
  <2>1. CorruptCount \in 0 .. CorruptCount
    BY HalAssumption
  <2> QED BY <1>1, <2>1 DEF RxEndedCorrupt
<1>4. RxFaulted(h) \in RxHardware /\ RxSiblingFaulted(h) \in RxHardware
  BY DEF RxFaulted, RxSiblingFaulted
<1>5. RxDead(h) \in RxHardware
  BY DEF RxDead
<1>6. RxStopped(h) \in RxHardware
  BY DEF RxStopped, RxEnded
<1>7. RxStopFailed(h) \in RxHardware
  BY DEF RxStopFailed
<1>8. RxErrorsCleared(h) \in RxHardware
  BY DEF RxErrorsCleared
<1> QED BY <1>1, <1>2, <1>3, <1>4, <1>5, <1>6, <1>7, <1>8

LEMMA RxByteTakenType ==
    ASSUME NEW h \in RxHardware, NEW b \in Nat
    PROVE  RxByteTaken(h, b) \in RxHardware
BY HalAssumption DEF RxByteTaken, RxHardware, CorruptCount

LEMMA RxArmedType ==
    ASSUME NEW h \in RxHardware, NEW dst \in Slots \union {Drop, None}, NEW b \in Nat
    PROVE  RxArmed(h, dst, b) \in RxHardware
BY HalAssumption DEF RxArmed, RxHardware, UartStates, DmaStates, CorruptCount

-----------------------------------------------------------------------------
(***************************************************************************)
(* The receive primitives keep the slot accounting.                        *)
(***************************************************************************)
\* Publishing the claim, as a marker or as a chunk, always finds room.
LEMMA Publishing ==
    ASSUME NEW s, RxOK(s), NEW c \in Chunks, s.active # None
    PROVE  RxOK([s EXCEPT !.queue = Append(@, c), !.active = None,
                          !.rxWorkPending = TRUE])
<1> DEFINE p == [s EXCEPT !.queue = Append(@, c), !.active = None,
                          !.rxWorkPending = TRUE]
<1>1. s \in RxState /\ Len(s.queue) < ChunkCount
  BY HalAssumption DEF RxOK, Full, RxState
<1>2. Append(s.queue, c) \in Seq(Chunks) /\ Len(Append(s.queue, c)) = Len(s.queue) + 1
  BY <1>1 DEF RxState
<1>3. p \in RxState /\ p.active = None /\ p.queue = Append(s.queue, c)
  BY <1>1, <1>2 DEF RxState
<1>4. Len(s.queue) \in Nat
  BY <1>1 DEF RxState
<1> HIDE DEF p
<1>5. Len(p.queue) <= ChunkCount
  BY <1>1, <1>2, <1>3, <1>4, HalAssumption
<1> QED BY <1>3, <1>5 DEF RxOK, p

LEMMA voidActiveChunkOK ==
    ASSUME NEW s, RxOK(s)
    PROVE  RxOK(voidActiveChunk(s)) /\ (s.queue # <<>> => voidActiveChunk(s).queue # <<>>)
<1>1. [from |-> 0, size |-> 0] \in Chunks
  BY HalAssumption DEF Chunks
<1>2. RxOK(voidActiveChunk(s))
  BY <1>1, Publishing DEF voidActiveChunk
<1>3. s.queue # <<>> => voidActiveChunk(s).queue # <<>>
  BY DEF voidActiveChunk, RxOK, RxState
<1> QED BY <1>2, <1>3

LEMMA publishActiveOK ==
    ASSUME NEW s, RxOK(s), NEW from \in Nat, NEW size \in 0 .. ChunkSize
    PROVE  /\ RxOK(publishActive(s, from, size))
           /\ s.queue # <<>> => publishActive(s, from, size).queue # <<>>
<1>1. [from |-> from, size |-> size] \in Chunks
  BY DEF Chunks
<1>2. RxOK(publishActive(s, from, size))
  BY <1>1, Publishing DEF publishActive
<1>3. s.queue # <<>> => publishActive(s, from, size).queue # <<>>
  BY DEF publishActive, RxOK, RxState
<1> QED BY <1>2, <1>3

\* A valid count register gives a size the chunk can hold.
LEMMA publishReceivedOK ==
    ASSUME NEW s, RxOK(s), NEW h \in RxHardware, CountValid(h)
    PROVE  /\ RxOK(publishReceived(s, h))
           /\ s.queue # <<>> => publishReceived(s, h).queue # <<>>
<1>1. h.from \in Nat /\ ChunkSize - h.remaining \in 0 .. ChunkSize
  BY HalAssumption DEF CountValid, RxHardware, CorruptCount
<1> QED BY <1>1, publishActiveOK DEF publishReceived

LEMMA StartedOK ==
    ASSUME NEW s, RxOK(s), NEW b \in BOOLEAN
    PROVE  /\ RxOK([s EXCEPT !.started = b])
           /\ RxOK([s EXCEPT !.rxWorkPending = b])
           /\ [s EXCEPT !.started = b].queue = s.queue
           /\ [s EXCEPT !.rxWorkPending = b].queue = s.queue
BY DEF RxOK, RxState, ClaimSlot, Full

LEMMA ClaimSlotType ==
    ASSUME NEW s \in RxState
    PROVE  ClaimSlot(s) \in Slots
<1>1. s.front + Len(s.queue) \in Nat
  BY HalAssumption DEF RxState, Slots
<1> QED BY <1>1, HalAssumption DEF ClaimSlot, Slots

LEMMA ClaimedOK ==
    ASSUME NEW s, RxOK(s)
    PROVE  /\ RxOK(Claimed(s)) /\ Claimed(s).queue = s.queue
           /\ Claimed(s).active \in Slots \union {None}
<1>1. s \in RxState /\ ClaimSlot(s) \in Slots
  BY ClaimSlotType DEF RxOK
<1>2. CASE s.active # None \/ s.rxGapPending
  BY <1>1, <1>2 DEF Claimed, RxOK, RxState
<1>3. CASE s.active = None /\ ~s.rxGapPending /\ Full(s)
  BY <1>1, <1>3 DEF Claimed, RxOK, RxState
<1>4. CASE s.active = None /\ ~s.rxGapPending /\ ~Full(s)
  BY <1>1, <1>4 DEF Claimed, RxOK, RxState, ClaimSlot, Full
<1> QED BY <1>2, <1>3, <1>4

LEMMA receiveArmOK ==
    ASSUME NEW s, RxOK(s), NEW h \in RxHardware, line \in Nat, fails \in Nat,
           receiveArm(s, h)
    PROVE  rx' \in RxHardware /\ RxOK(r') /\ fails' \in Nat /\ r'.queue = s.queue
<1> DEFINE c == Claimed(s)
<1>1. RxOK(c) /\ c.queue = s.queue /\ c.active \in Slots \union {None}
  BY ClaimedOK
<1>2. CASE /\ rx' = RxArmed(h, IF c.active = None THEN Drop ELSE c.active, line)
           /\ r' = [c EXCEPT !.started = TRUE]
           /\ UNCHANGED fails
  <2>1. (IF c.active = None THEN Drop ELSE c.active) \in Slots \union {Drop, None}
    BY <1>1
  <2> HIDE DEF c
  <2> QED BY <1>1, <1>2, <2>1, RxArmedType, StartedOK
<1>3. CASE /\ fails' = IF CanArmRx(h) THEN fails + 1 ELSE fails
           /\ rx' = h
           /\ r' = [c EXCEPT !.started = FALSE]
  <2>1. fails' \in Nat
    BY <1>3 DEF CanArmRx
  <2> HIDE DEF c
  <2>2. RxOK(r') /\ r'.queue = c.queue
    BY <1>1, <1>3, StartedOK
  <2> QED BY <1>1, <1>3, <2>1, <2>2
<1> HIDE DEF c
<1>4. \/ /\ rx' = RxArmed(h, IF c.active = None THEN Drop ELSE c.active, line)
         /\ r' = [c EXCEPT !.started = TRUE]
         /\ UNCHANGED fails
      \/ /\ fails' = IF CanArmRx(h) THEN fails + 1 ELSE fails
         /\ rx' = h
         /\ r' = [c EXCEPT !.started = FALSE]
  BY Zenon DEF receiveArm, c
<1> QED BY <1>2, <1>3, <1>4

-----------------------------------------------------------------------------
(***************************************************************************)
(* The interrupt callbacks.                                                *)
(***************************************************************************)
LEMMA isrRxEventOK ==
    ASSUME IInv, NEW h \in RxHardware, isrRxEvent(h)
    PROVE  /\ rx' \in RxHardware /\ RxOK(r') /\ fails' \in Nat
           /\ r.queue # <<>> => r'.queue # <<>>
<1> USE DEF IInv, RestOK
<1>1. CASE rx' = h /\ UNCHANGED <<r, fails>>
  BY <1>1
<1>2. CASE rx' = h /\ r' = rejectLiveRxEvent(r) /\ UNCHANGED fails
  BY <1>2, StartedOK DEF rejectLiveRxEvent
<1>3. CASE rx' = h /\ r' = rejectDmaCount(r) /\ UNCHANGED fails
  BY <1>3, StartedOK, voidActiveChunkOK DEF rejectDmaCount
<1>4. CASE CountValid(h) /\ receiveArm(publishReceived(r, h), h)
  BY <1>4, publishReceivedOK, receiveArmOK
<1> QED BY <1>1, <1>2, <1>3, <1>4 DEF isrRxEvent

LEMMA TellOK ==
    ASSUME LoanOK, NEW ok \in BOOLEAN, Tell(ok)
    PROVE  LoanOK'
BY DEF LoanOK, Tell

LEMMA isrTxCpltOK ==
    ASSUME IInv, NEW h \in TxHardware, h.dma = "READY" => ~h.live,
           h.live => tx.live, isrTxCplt(h)
    PROVE  RxOK(r') /\ r'.queue = r.queue /\ TxOK(tx', t') /\ LoanOK'
<1> USE DEF IInv
<1>1. tx' = h
  BY DEF isrTxCplt
<1>2. CASE UNCHANGED <<r, t, loan>>
  BY <1>1, <1>2 DEF TxOK, LoanOK, loan
<1>3. CASE t.txBusy /\ deferTxAbort(r) /\ UNCHANGED loan
  BY <1>1, <1>3, StartedOK DEF deferTxAbort, TxOK, TxState, LoanOK, loan
<1>4. CASE /\ h.dma = "READY" /\ ~t.txAbortPending
           /\ t' = [t EXCEPT !.txBusy = FALSE] /\ Tell(~h.err) /\ UNCHANGED r
  <2>1. (~h.err) \in BOOLEAN
    BY Zenon
  <2>2. LoanOK'
    BY <1>4, <2>1, TellOK
  <2> QED BY <1>1, <1>4, <2>2 DEF TxOK, TxState
<1> QED BY <1>2, <1>3, <1>4 DEF isrTxCplt

LEMMA ErrorRxOK ==
    ASSUME RxOK(r), NEW h
    PROVE  RxOK(ErrorRx(h)) /\ (r.queue # <<>> => ErrorRx(h).queue # <<>>)
<1> DEFINE v == IF h.dma = "READY" THEN voidActiveChunk(r) ELSE r
<1>1. RxOK(v) /\ (r.queue # <<>> => v.queue # <<>>)
  BY voidActiveChunkOK
<1>2. RxOK([v EXCEPT !.started = FALSE]) /\ [v EXCEPT !.started = FALSE].queue = v.queue
  <2> HIDE DEF v
  <2> QED BY <1>1, StartedOK
<1> QED BY <1>1, <1>2 DEF ErrorRx

LEMMA isrErrorOK ==
    ASSUME IInv, NEW hr \in RxHardware, NEW ht \in TxHardware,
           ht.dma = "READY" => ~ht.live, ht.live => tx.live, isrError(hr, ht)
    PROVE  /\ rx' \in RxHardware /\ RxOK(r') /\ (r.queue # <<>> => r'.queue # <<>>)
           /\ TxOK(tx', t') /\ LoanOK' /\ errorCode' \in BOOLEAN
<1> USE DEF IInv
<1>1. tx' = ht /\ errorCode' \in BOOLEAN
  BY DEF isrError
<1>2. rx' \in RxHardware
  BY RxHardwareOps DEF isrError
<1>3. RxOK(ErrorRx(hr)) /\ (r.queue # <<>> => ErrorRx(hr).queue # <<>>)
  BY ErrorRxOK
<1>4. CASE UNCHANGED <<t, loan>> /\ (r' = r \/ r' = ErrorRx(hr))
  BY <1>1, <1>2, <1>3, <1>4 DEF TxOK, LoanOK, loan
<1>5. CASE t.txBusy /\ deferTxAbort(ErrorRx(hr)) /\ UNCHANGED loan
  BY <1>1, <1>2, <1>3, <1>5, StartedOK DEF deferTxAbort, TxOK, TxState, LoanOK, loan
<1>6. CASE /\ ht.dma = "READY" /\ ~t.txAbortPending /\ r' = ErrorRx(hr)
           /\ t' = [t EXCEPT !.txBusy = FALSE] /\ Tell(FALSE)
  <2>1. LoanOK'
    BY <1>6, TellOK
  <2> QED BY <1>1, <1>2, <1>3, <1>6, <2>1 DEF TxOK, TxState
<1> QED BY <1>4, <1>5, <1>6 DEF isrError, ErrorEndsTx
-----------------------------------------------------------------------------
(***************************************************************************)
(* The transmit channel.                                                   *)
(***************************************************************************)
\* Every transmit event and call keeps the ranges, never leaves a READY channel
\* running and never starts one.
LEMMA TxHardwareOps ==
    ASSUME NEW h \in TxHardware, h.dma = "READY" => ~h.live
    PROVE  /\ CanMoveTx(h) => Calmer(h, TxMoved(h))
           /\ CanFreeChannel(h) => Calmer(h, TxChannelFreed(h))
           /\ Calmer(h, TxDrained(h)) /\ Calmer(h, TxCompleted(h))
           /\ Calmer(h, TxCompletionLost(h)) /\ Calmer(h, TxCompletedEarly(h))
           /\ Calmer(h, TxFaulted(h)) /\ Calmer(h, TxSiblingFaulted(h))
           /\ Calmer(h, TxStopped(h)) /\ Calmer(h, TxStopFailed(h))
           /\ Calmer(h, [h EXCEPT !.stuck = TRUE]) /\ ~TxStopped(h).live
<1> USE HalAssumption DEF TxHardware, UartStates, DmaStates, Calmer
<1>1. CanMoveTx(h) => Calmer(h, TxMoved(h))
  <2> SUFFICES ASSUME CanMoveTx(h) PROVE Calmer(h, TxMoved(h))
    OBVIOUS
  <2>1. h.remaining - 1 \in 0 .. FrameLength
    BY DEF CanMoveTx
  <2>2. (h.remaining > 1) \in BOOLEAN
    BY <2>1
  <2>3. TxMoved(h) \in TxHardware /\ TxMoved(h).dma = h.dma
    BY <2>1, <2>2 DEF TxMoved
  <2> QED BY <2>3 DEF CanMoveTx
<1>2. CanFreeChannel(h) => Calmer(h, TxChannelFreed(h))
  BY DEF CanFreeChannel, Fed, TxChannelFreed
<1>3. Calmer(h, TxDrained(h)) /\ Calmer(h, TxCompleted(h)) /\ Calmer(h, TxCompletionLost(h))
  BY DEF TxDrained, TxCompleted, TxCompletionLost
<1>4. Calmer(h, TxCompletedEarly(h)) /\ Calmer(h, TxSiblingFaulted(h))
  BY DEF TxCompletedEarly, TxSiblingFaulted
<1>5. Calmer(h, TxFaulted(h))
  BY DEF TxFaulted
<1>6. Calmer(h, TxStopped(h)) /\ ~TxStopped(h).live
  BY DEF TxStopped
<1>7. Calmer(h, TxStopFailed(h))
  BY DEF TxStopFailed
<1>8. Calmer(h, [h EXCEPT !.stuck = TRUE])
  OBVIOUS
<1> QED BY <1>1, <1>2, <1>3, <1>4, <1>5, <1>6, <1>7, <1>8

-----------------------------------------------------------------------------
(***************************************************************************)
(* The steps, grouped by who takes them.                                   *)
(***************************************************************************)
LEMMA InitIInv == Init => IInv
<1> SUFFICES ASSUME Init PROVE IInv
  OBVIOUS
<1> USE HalAssumption, DriverAssumption
<1>1. rx \in RxHardware
  BY DEF Init, RxReset, RxHardware, UartStates, DmaStates, CorruptCount
<1>2. RxOK(r)
  BY DEF Init, RxOK, RxState, Slots
<1>3. TxOK(tx, t)
  BY DEF Init, TxOK, TxReset, TxHardware, TxState, UartStates, DmaStates
<1>4. ThreadOK
  BY DEF Init, ThreadOK, Thread, Steps, Stops, Returns, At
<1>5. LoanOK /\ RestOK
  BY DEF Init, LoanOK, RestOK
<1> QED BY <1>1, <1>2, <1>3, <1>4, <1>5 DEF IInv

\* The fields the hardware leaves alone.
LEMMA ThreadKept ==
    ASSUME IInv, r.queue # <<>> => r'.queue # <<>>, UNCHANGED th
    PROVE  ThreadOK'
BY DEF IInv, ThreadOK, At

LEMMA LineByteStep == ASSUME IInv, LineByte PROVE IInv'
<1>1. rx' \in RxHardware
  BY RxByteTakenType DEF IInv, RestOK, LineByte
<1> QED BY <1>1, ThreadKept DEF IInv, RestOK, LineByte, LoanOK, loan, stream

\* An interrupt that only moves the transmitter.
LEMMA TxQuietStep ==
    ASSUME IInv, NEW g, tx' = g, Calmer(tx, g),
           UNCHANGED <<line, rx, errorCode, r, t, th, stream, loan, fails>>,
           faults' \in Nat
    PROVE  IInv'
<1>1. ThreadOK'
  BY ThreadKept
<1>2. TxOK(tx', t')
  BY DEF IInv, TxOK, Calmer
<1> QED BY <1>1, <1>2 DEF IInv, RestOK, LoanOK, loan, stream

\* A receive event, whatever the HAL left behind.
LEMMA RxEventStep ==
    ASSUME IInv, NEW h \in RxHardware, isrRxEvent(h), faults' \in Nat,
           UNCHANGED <<line, tx, errorCode, t, th, stream, loan>>
    PROVE  IInv'
<1>1. rx' \in RxHardware /\ RxOK(r') /\ fails' \in Nat /\ (r.queue # <<>> => r'.queue # <<>>)
  BY isrRxEventOK
<1>2. ThreadOK'
  BY <1>1, ThreadKept
<1> QED BY <1>1, <1>2 DEF IInv, RestOK, LoanOK, TxOK, loan, stream

\* A transmit completion, whatever the HAL left behind.
LEMMA TxEventStep ==
    ASSUME IInv, NEW h, Calmer(tx, h), isrTxCplt(h), faults' \in Nat,
           UNCHANGED <<line, rx, errorCode, th, stream, fails>>
    PROVE  IInv'
<1>1. RxOK(r') /\ r'.queue = r.queue /\ TxOK(tx', t') /\ LoanOK'
  BY isrTxCpltOK DEF Calmer
<1>2. ThreadOK'
  BY <1>1, ThreadKept
<1> QED BY <1>1, <1>2 DEF IInv, RestOK, stream

\* An error interrupt, whatever the HAL left behind.
LEMMA ErrorStep ==
    ASSUME IInv, NEW hr \in RxHardware, NEW ht, Calmer(tx, ht), isrError(hr, ht),
           faults' \in Nat, UNCHANGED <<line, th, stream, fails>>
    PROVE  IInv'
<1>1. /\ rx' \in RxHardware /\ RxOK(r') /\ (r.queue # <<>> => r'.queue # <<>>)
      /\ TxOK(tx', t') /\ LoanOK' /\ errorCode' \in BOOLEAN
  BY isrErrorOK DEF Calmer
<1>2. ThreadOK'
  BY <1>1, ThreadKept
<1> QED BY <1>1, <1>2 DEF IInv, RestOK, stream

LEMMA InterruptStep == ASSUME IInv, Interrupt PROVE IInv'
<1>1. faults \in Nat /\ rx \in RxHardware /\ tx \in TxHardware
      /\ (tx.dma = "READY" => ~tx.live)
  BY DEF IInv, RestOK, TxOK
<1>2. CASE RxIdle
  BY <1>1, <1>2, RxHardwareOps, RxEventStep DEF RxIdle
<1>3. CASE RxComplete
  BY <1>1, <1>3, RxHardwareOps, RxEventStep DEF RxComplete
<1>4. CASE TxMove
  <2>1. Calmer(tx, TxMoved(tx))
    BY <1>1, <1>4, TxHardwareOps DEF TxMove
  <2> QED BY <1>1, <1>4, <2>1, TxQuietStep DEF TxMove
<1>5. CASE TxFreeChannel
  <2>1. Calmer(tx, TxChannelFreed(tx))
    BY <1>1, <1>5, TxHardwareOps DEF TxFreeChannel
  <2> QED BY <1>1, <1>5, <2>1, TxQuietStep DEF TxFreeChannel
<1>6. CASE TxDrain
  BY <1>1, <1>6, TxHardwareOps, TxQuietStep DEF TxDrain
<1>7. CASE TxComplete
  BY <1>1, <1>7, TxHardwareOps, TxEventStep DEF TxComplete
<1> QED BY <1>2, <1>3, <1>4, <1>5, <1>6, <1>7 DEF Interrupt

LEMMA FaultyStep == ASSUME IInv, Faulty PROVE IInv'
<1>1. faults \in Nat /\ rx \in RxHardware /\ tx \in TxHardware
      /\ (tx.dma = "READY" => ~tx.live)
  BY DEF IInv, RestOK, TxOK
<1>2. ASSUME Fault PROVE faults' \in Nat
  BY <1>1, <1>2 DEF Fault
<1>3. CASE RxIdleAbortFails
  BY <1>1, <1>2, <1>3, RxHardwareOps, RxEventStep DEF RxIdleAbortFails
<1>4. CASE RxCorruptCount
  BY <1>1, <1>2, <1>4, RxHardwareOps, RxEventStep DEF RxCorruptCount
<1>5. CASE RxEventWhileRunning
  BY <1>1, <1>2, <1>5, RxEventStep DEF RxEventWhileRunning
<1>6. CASE RxLineError
  <2>1. Calmer(tx, tx)
    BY <1>1 DEF Calmer
  <2> QED BY <1>1, <1>2, <1>6, <2>1, RxHardwareOps, ErrorStep DEF RxLineError
<1>7. CASE RxDmaFault
  BY <1>1, <1>2, <1>7, RxHardwareOps, TxHardwareOps, ErrorStep DEF RxDmaFault
<1>8. CASE TxDmaFault
  BY <1>1, <1>2, <1>8, RxHardwareOps, TxHardwareOps, ErrorStep DEF TxDmaFault
<1>9. CASE RxDies
  <2>1. rx' \in RxHardware /\ faults' \in Nat
    BY <1>1, <1>2, <1>9, RxHardwareOps DEF RxDies
  <2>2. ThreadOK'
    BY <1>9, ThreadKept DEF RxDies
  <2> QED BY <1>9, <2>1, <2>2 DEF RxDies, IInv, RestOK, LoanOK, TxOK, loan, stream
<1>10. CASE TxStalls
  <2>1. Calmer(tx, [tx EXCEPT !.stuck = TRUE])
    BY <1>1, TxHardwareOps
  <2> QED BY <1>2, <1>10, <2>1, TxQuietStep DEF TxStalls
<1>11. CASE TxCompletionIsLost
  <2>1. Calmer(tx, TxCompletionLost(tx))
    BY <1>1, TxHardwareOps
  <2> QED BY <1>2, <1>11, <2>1, TxQuietStep DEF TxCompletionIsLost
<1>12. CASE TxCompletesEarly
  BY <1>1, <1>2, <1>12, TxHardwareOps, TxEventStep DEF TxCompletesEarly
<1> QED BY <1>3, <1>4, <1>5, <1>6, <1>7, <1>8, <1>9, <1>10, <1>11, <1>12 DEF Faulty
-----------------------------------------------------------------------------
(***************************************************************************)
(* The thread's steps.                                                     *)
(***************************************************************************)
\* A step of the thread is sound when each part it touches is.
LEMMA ThreadStep ==
    ASSUME IInv, th' \in Thread, th'.pc # "pop", rx' \in RxHardware, RxOK(r'),
           TxOK(tx', t'), LoanOK', errorCode' \in BOOLEAN, fails' \in Nat,
           UNCHANGED <<line, stream, faults>>
    PROVE  IInv'
BY DEF IInv, RestOK, ThreadOK, At, stream

\* A step that moves the thread on and touches nothing else.
LEMMA ControlStep ==
    ASSUME IInv, th' \in Thread, th'.pc # "pop", RxOK(r'), TxOK(tx, t'),
           UNCHANGED <<line, stream, faults, rx, tx, errorCode, fails, loan>>
    PROVE  IInv'
<1>1. LoanOK'
  BY DEF IInv, LoanOK, loan
<1> QED BY <1>1, ThreadStep DEF IInv, RestOK

\* Every next step a jump names.
LEMMA Jump ==
    ASSUME th \in Thread, NEW l \in Steps
    PROVE  [th EXCEPT !.pc = l] \in Thread /\ [th EXCEPT !.pc = l].pc = l
BY DEF Thread

LEMMA ReturnType ==
    ASSUME th \in Thread
    PROVE  th.ret \in Steps /\ th.ret # "pop"
BY DEF Thread, Steps, Returns

LEMMA Names ==
    /\ "unbound" \in Steps /\ "idle" \in Steps /\ "drain" \in Steps /\ "pop" \in Steps
    /\ "announce" \in Steps /\ "audit" \in Steps /\ "health" \in Steps
    /\ "finGate" \in Steps /\ "finStop" \in Steps /\ "finNotify" \in Steps
    /\ "allGate" \in Steps /\ "allStop" \in Steps /\ "allNotify" \in Steps
    /\ "reclaim" \in Steps /\ "reclaimGate" \in Steps /\ "reclaimStop" \in Steps
    /\ "reclaimArm" \in Steps /\ "tail" \in Steps /\ "settle" \in Steps
    /\ "rsGate" \in Steps /\ "rsStop" \in Steps /\ "rsArm" \in Steps
    /\ "baudStop" \in Steps /\ "baudApply" \in Steps
    /\ "idle" \in Returns /\ "initCheck" \in Returns /\ "reraise" \in Returns
    /\ "health" \in Returns /\ "reclaim" \in Returns
BY DEF Steps, Stops, Returns

\* Steps that only decide where to go and raise the gates.
LEMMA DecisionStep ==
    ASSUME IInv,
           \/ InitCall \/ RebaudCall \/ Settle \/ FinishGate \/ healthCheck \/ AllGate
           \/ ReclaimTest \/ ReclaimGate \/ ProceedTail \/ RestartGate
    PROVE  IInv'
<1> USE Names DEF Thread, Goto
<1>1. th \in Thread /\ RxOK(r) /\ TxOK(tx, t)
  BY DEF IInv, ThreadOK
<1>2. UNCHANGED <<rx, tx, errorCode, r, t, fails, line, stream, faults, loan>>
  BY DEF InitCall, RebaudCall, Settle, FinishGate, healthCheck, AllGate, ReclaimTest,
         ReclaimGate, ProceedTail, RestartGate, Quiet, NoVerdict, loan
<1>3. ASSUME th' \in Thread, th'.pc # "pop" PROVE IInv'
  <2> HIDE Names DEF Thread, Goto
  <2>1. RxOK(r') /\ TxOK(tx, t')
    BY <1>1, <1>2
  <2> QED BY <1>2, <1>3, <2>1, ControlStep
<1>4. CASE InitCall
  BY <1>1, <1>3, <1>4 DEF InitCall
<1>5. CASE RebaudCall
  BY <1>1, <1>3, <1>5 DEF RebaudCall
<1>6. CASE Settle
  BY <1>1, <1>3, <1>6 DEF Settle
<1>7. CASE FinishGate
  <2>1. (th.outcome /\ ~t.txAbortPending) \in BOOLEAN
    BY Zenon
  <2> QED BY <1>1, <1>3, <1>7, <2>1 DEF FinishGate
<1>8. CASE healthCheck
  <2>1. \/ th' = [th EXCEPT !.pc = "reclaim", !.failCounter = 0]
        \/ /\ th.failCounter + 1 < FailThreshold
           /\ th' = [th EXCEPT !.pc = "reclaim", !.failCounter = @ + 1]
        \/ th' = [th EXCEPT !.pc = "allGate", !.failCounter = 0]
    BY <1>8, Zenon DEF healthCheck
  <2>2. 0 \in 0 .. FailThreshold - 1 /\ th.failCounter \in Nat
    BY <1>1, DriverAssumption
  <2>3. th.failCounter + 1 < FailThreshold
            => th.failCounter + 1 \in 0 .. FailThreshold - 1
    BY <2>2, DriverAssumption
  <2>4. th' \in Thread /\ th'.pc # "pop"
    BY <1>1, <2>1, <2>2, <2>3
  <2> QED BY <1>3, <2>4
<1>9. CASE AllGate
  <2>1. t.txBusy \in BOOLEAN
    BY <1>1 DEF TxOK, TxState
  <2> QED BY <1>1, <1>3, <1>9, <2>1 DEF AllGate
<1>10. CASE ReclaimTest \/ ReclaimGate
  BY <1>1, <1>3, <1>10 DEF ReclaimTest, ReclaimGate
<1>11. CASE ProceedTail \/ RestartGate
  BY <1>1, <1>3, <1>11 DEF ProceedTail, RestartGate
<1> QED BY <1>4, <1>5, <1>6, <1>7, <1>8, <1>9, <1>10, <1>11

\* Steps that write one flag of the receive state.
LEMMA FlagStep ==
    ASSUME IInv,
           \/ InitCheck \/ Reraise \/ (\E due \in BOOLEAN : Proceed(due))
    PROVE  IInv'
<1> USE Names DEF Thread, Goto
<1>1. th \in Thread /\ RxOK(r) /\ TxOK(tx, t)
  BY DEF IInv, ThreadOK
<1>2. CASE InitCheck
  <2>1. RxOK(r')
    BY <1>1, <1>2 DEF InitCheck, RxOK, RxState, ClaimSlot, Full
  <2>2. th' \in Thread /\ th'.pc # "pop"
    BY <1>1, <1>2 DEF InitCheck
  <2> QED BY <1>1, <1>2, <2>1, <2>2, ControlStep DEF InitCheck, Quiet, NoVerdict, loan
<1>3. CASE Reraise
  <2>1. RxOK(r')
    BY <1>1, <1>3, StartedOK DEF Reraise
  <2>2. th' \in Thread /\ th'.pc # "pop"
    BY <1>1, <1>3 DEF Reraise
  <2> QED BY <1>1, <1>3, <2>1, <2>2, ControlStep DEF Reraise, Quiet, NoVerdict, loan
<1>4. CASE \E due \in BOOLEAN : Proceed(due)
  <2>1. PICK due \in BOOLEAN : Proceed(due)
    BY <1>4
  <2>2. RxOK(r')
    BY <1>1, <2>1, StartedOK DEF Proceed
  <2>3. th' \in Thread /\ th'.pc # "pop"
    BY <1>1, <2>1 DEF Proceed
  <2> QED BY <1>1, <2>1, <2>2, <2>3, ControlStep DEF Proceed, Quiet, NoVerdict, loan
<1> QED BY <1>2, <1>3, <1>4

\* send either starts the channel, for a frame nobody had lent before, or changes
\* only its bookkeeping.
LEMMA SendStep == ASSUME IInv, Send PROVE IInv'
<1>1. /\ tx \in TxHardware /\ t \in TxState /\ LoanOK /\ fails \in Nat
      /\ errorCode \in BOOLEAN /\ TxOK(tx, t)
  BY DEF IInv, TxOK, RestOK
<1>2. ThreadOK'
  BY ThreadKept DEF Send
<1>3. CASE /\ tx' = TxStarted /\ errorCode' = FALSE
           /\ t' = [t EXCEPT !.txProgressValid = FALSE, !.txStallChecks = 0,
                             !.txBusy = TRUE]
           /\ sent' = sent + 1 /\ verdict' = "none" /\ UNCHANGED fails
  <2>1. TxStarted \in TxHardware /\ TxStarted.dma # "READY"
    BY HalAssumption DEF TxStarted, TxHardware, UartStates, DmaStates
  <2>2. TxOK(tx', t')
    BY <1>1, <1>3, <2>1 DEF TxOK, TxState
  <2>3. LoanOK'
    BY <1>1, <1>3 DEF Send, LoanOK
  <2> QED BY <1>2, <1>3, <2>2, <2>3 DEF Send, IInv, RestOK, stream
<1>4. CASE /\ fails' = IF CanStartTx(tx) THEN fails + 1 ELSE fails
           /\ t' = [t EXCEPT !.txProgressValid = FALSE, !.txStallChecks = 0]
           /\ UNCHANGED <<tx, errorCode, sent, verdict>>
  <2>1. TxOK(tx', t')
    BY <1>1, <1>4 DEF TxOK, TxState
  <2>2. fails' \in Nat
    BY <1>1, <1>4 DEF CanStartTx
  <2>3. LoanOK'
    BY <1>1, <1>4 DEF Send, LoanOK
  <2> QED BY <1>2, <1>4, <2>1, <2>2, <2>3 DEF Send, IInv, RestOK, stream
<1> QED BY <1>3, <1>4 DEF Send

\* A failed reception stop, from whichever call it is.
LEMMA StopRxFailsOK ==
    ASSUME IInv, NEW next \in Steps, StopRxFails(next)
    PROVE  /\ rx' \in RxHardware /\ RxOK(r') /\ errorCode' \in BOOLEAN
           /\ fails' \in Nat /\ th' \in Thread /\ th'.pc = next
<1>1. rx \in RxHardware /\ RxOK(r) /\ fails \in Nat /\ th \in Thread
  BY DEF IInv, RestOK, ThreadOK
<1>2. rx' \in RxHardware
  BY <1>1, RxHardwareOps DEF StopRxFails
<1>3. RxOK(r')
  BY <1>1, StartedOK DEF StopRxFails
<1>4. th' \in Thread /\ th'.pc = next
  BY <1>1 DEF StopRxFails, Thread
<1>5. fails' \in Nat /\ errorCode' \in BOOLEAN
  BY <1>1 DEF StopRxFails
<1> QED BY <1>2, <1>3, <1>4, <1>5

\* The steps that stop the reception alone.
LEMMA StopRxStep ==
    ASSUME IInv, RebaudStop \/ ReclaimStop \/ RestartStop PROVE IInv'
<1>1. /\ rx \in RxHardware /\ RxOK(r) /\ TxOK(tx, t) /\ LoanOK /\ fails \in Nat
      /\ th \in Thread /\ errorCode \in BOOLEAN /\ RxStopped(rx) \in RxHardware
      /\ th.ret \in Steps /\ th.ret # "pop"
  BY RxHardwareOps, ReturnType DEF IInv, RestOK, ThreadOK
<1>2. LoanOK' /\ TxOK(tx', t') /\ UNCHANGED <<line, stream, faults>>
  BY <1>1 DEF RebaudStop, ReclaimStop, RestartStop, Quiet, NoVerdict, LoanOK
<1>3. CASE \E next \in Steps \ {"pop"} : StopRxFails(next)
  BY <1>2, <1>3, StopRxFailsOK, ThreadStep
<1>4. CASE /\ rx' = RxStopped(rx) /\ (r' = r \/ r' = [r EXCEPT !.started = FALSE])
           /\ \E l \in Steps \ {"pop"} : th' = [th EXCEPT !.pc = l, !.rxTeardown = FALSE]
           /\ UNCHANGED <<errorCode, fails>>
  <2>1. RxOK(r') /\ rx' \in RxHardware
    BY <1>1, <1>4, StartedOK
  <2>2. th' \in Thread /\ th'.pc # "pop"
    BY <1>1, <1>4 DEF Thread
  <2> QED BY <1>1, <1>2, <1>4, <2>1, <2>2, ThreadStep
<1>5. CASE RebaudStop
  BY <1>3, <1>4, <1>5, Names DEF RebaudStop
<1>6. CASE ReclaimStop
  BY <1>3, <1>4, <1>6, Names DEF ReclaimStop
<1>7. CASE RestartStop
  BY <1>1, <1>3, <1>4, <1>7, Names DEF RestartStop
<1> QED BY <1>5, <1>6, <1>7

LEMMA RebaudApplyStep == ASSUME IInv, RebaudApply PROVE IInv'
<1>1. th' \in Thread /\ th'.pc # "pop"
  BY Names DEF RebaudApply, IInv, ThreadOK, Thread
<1>2. LoanOK' /\ TxOK(tx', t') /\ RxOK(r') /\ rx' \in RxHardware /\ fails' \in Nat
  BY DEF RebaudApply, IInv, LoanOK, RestOK, Quiet, NoVerdict
<1> QED BY <1>1, <1>2, ThreadStep DEF RebaudApply, Quiet

\* The steps that arm the reception.
LEMMA ArmStep == ASSUME IInv, ReclaimArm \/ RestartArm PROVE IInv'
<1>1. /\ rx \in RxHardware /\ RxOK(r) /\ TxOK(tx, t) /\ LoanOK /\ fails \in Nat
      /\ th \in Thread /\ errorCode \in BOOLEAN /\ line \in Nat
      /\ th.ret \in Steps /\ th.ret # "pop"
  BY ReturnType DEF IInv, RestOK, ThreadOK
<1>2. LoanOK' /\ TxOK(tx', t') /\ UNCHANGED <<line, stream, faults>>
  BY <1>1 DEF ReclaimArm, RestartArm, Quiet, NoVerdict, LoanOK
<1>3. CASE ReclaimArm
  <2>1. th' \in Thread /\ th'.pc # "pop"
    BY <1>1, <1>3, Jump, Names DEF ReclaimArm, Goto
  <2>2. CASE UNCHANGED <<rx, r, fails>>
    BY <1>1, <1>2, <1>3, <2>1, <2>2, ThreadStep DEF ReclaimArm
  <2>3. CASE CountValid(rx) /\ receiveArm(publishReceived(r, rx), rx)
    <3>1. rx' \in RxHardware /\ RxOK(r') /\ fails' \in Nat
      BY <1>1, <2>3, publishReceivedOK, receiveArmOK
    <3> QED BY <1>1, <1>2, <1>3, <2>1, <3>1, ThreadStep DEF ReclaimArm
  <2>4. CASE r' = rejectDmaCount(r) /\ UNCHANGED <<rx, fails>>
    <3>1. RxOK(r')
      BY <1>1, <2>4, voidActiveChunkOK, StartedOK DEF rejectDmaCount
    <3> QED BY <1>1, <1>2, <1>3, <2>1, <2>4, <3>1, ThreadStep DEF ReclaimArm
  <2> QED BY <1>3, <2>2, <2>3, <2>4 DEF ReclaimArm
<1>4. CASE RestartArm
  <2>1. th' \in Thread /\ th'.pc # "pop"
    BY <1>1, <1>4, Jump DEF RestartArm, Goto
  <2>2. RxErrorsCleared(rx) \in RxHardware /\ RxOK(voidActiveChunk(r))
    BY <1>1, RxHardwareOps, voidActiveChunkOK
  <2>3. rx' \in RxHardware /\ RxOK(r') /\ fails' \in Nat
    BY <1>1, <1>4, <2>2, receiveArmOK DEF RestartArm
  <2>4. errorCode' \in BOOLEAN
    BY <1>4 DEF RestartArm
  <2> QED BY <1>2, <2>1, <2>3, <2>4, ThreadStep
<1> QED BY <1>3, <1>4

\* Handing over the oldest chunk: only here does the thread come to "pop".
LEMMA DeliverStep == ASSUME IInv, Deliver PROVE IInv'
<1>1. r \in RxState /\ th \in Thread /\ opening \in Nat /\ heard \in Nat
      /\ gapped \in BOOLEAN
  BY DEF IInv, RxOK, ThreadOK, RestOK
<1>2. CASE r.queue = <<>>
  <2>1. ThreadOK'
    BY <1>1, <1>2, Jump, Names DEF Deliver, Goto, ThreadOK, At
  <2> QED BY <1>2, <2>1 DEF Deliver, IInv, RestOK, LoanOK, loan, hardware, stream, TxOK
<1>3. CASE r.queue # <<>>
  <2> DEFINE c == Head(r.queue)
  <2>1. c.from \in Nat /\ c.size \in Nat
    <3>1. r.queue \in Seq(Chunks)
      BY <1>1 DEF RxState
    <3>2. c \in Chunks
      BY <1>3, <3>1
    <3> HIDE DEF c
    <3> QED BY <3>2, HalAssumption DEF Chunks
  <2>2. opening' \in Nat /\ heard' \in Nat /\ gapped' \in BOOLEAN
    <3>1. \/ gapped' = TRUE /\ opening' = opening /\ heard' = heard
          \/ /\ c.size # 0 /\ gapped' = FALSE
             /\ opening' = c.from /\ heard' = c.from + c.size - 1
      BY <1>3 DEF Deliver
    <3> HIDE DEF c
    <3>2. opening' \in Nat /\ heard' \in Nat
      BY <1>1, <2>1, <3>1
    <3>3. gapped' \in BOOLEAN
      BY <3>1
    <3> QED BY <3>2, <3>3
  <2>3. ThreadOK'
    BY <1>1, <1>3, Jump, Names DEF Deliver, Goto, ThreadOK, At
  <2> QED BY <2>2, <2>3 DEF Deliver, IInv, RestOK, LoanOK, loan, hardware, TxOK
<1> QED BY <1>2, <1>3

\* A sum of two slots wraps at most once.
LEMMA Wrap ==
    ASSUME NEW i \in Nat, i < 2 * ChunkCount
    PROVE  i % ChunkCount = IF i < ChunkCount THEN i ELSE i - ChunkCount
BY HalAssumption

\* Releasing the head moves the front, and the slot after the tail stays.
LEMMA NextSlotStays ==
    ASSUME NEW f \in Slots, NEW n \in 1 .. ChunkCount - 1
    PROVE  (((f + 1) % ChunkCount) + (n - 1)) % ChunkCount = (f + n) % ChunkCount
<1>1. ChunkCount \in Nat /\ ChunkCount > 1 /\ f \in Nat /\ f < ChunkCount
  BY HalAssumption DEF Slots
<1>2. (f + 1) % ChunkCount = IF f + 1 < ChunkCount THEN f + 1 ELSE 0
  BY <1>1, Wrap
<1>3. CASE f + 1 < ChunkCount
  BY <1>1, <1>2, <1>3
<1>4. CASE f + 1 = ChunkCount
  <2>1. (n - 1) % ChunkCount = n - 1 /\ (f + n) % ChunkCount = f + n - ChunkCount
    BY <1>1, <1>4, Wrap
  <2> QED BY <1>1, <1>2, <1>4, <2>1
<1> QED BY <1>1, <1>3, <1>4

LEMMA PopStep == ASSUME IInv, Pop PROVE IInv'
<1>1. RxOK(r) /\ r \in RxState /\ th \in Thread /\ r.queue # <<>> /\ r.queue \in Seq(Chunks)
  BY DEF IInv, RxOK, ThreadOK, Pop, RxState
<1>2. Tail(r.queue) \in Seq(Chunks) /\ Len(Tail(r.queue)) = Len(r.queue) - 1
      /\ Len(r.queue) \in 1 .. ChunkCount
  BY <1>1, HalAssumption DEF RxOK
<1>3. (r.front + 1) % ChunkCount \in Slots /\ r.front \in Slots
  BY <1>1, HalAssumption DEF RxState, Slots
<1>4. r' \in RxState /\ r'.queue = Tail(r.queue) /\ r'.front = (r.front + 1) % ChunkCount
      /\ r'.active = r.active /\ r'.rxGapPending = r.rxGapPending
  BY <1>1, <1>2, <1>3 DEF Pop, RxState
<1>5. ASSUME r.active # None PROVE r'.active = ClaimSlot(r') /\ ~Full(r')
  <2>1. Len(r.queue) \in 1 .. ChunkCount - 1 /\ r.active = ClaimSlot(r)
    BY <1>1, <1>2, <1>5, HalAssumption DEF RxOK, Full
  <2>2. ClaimSlot(r') = ClaimSlot(r)
    BY <1>2, <1>3, <1>4, <2>1, NextSlotStays DEF ClaimSlot
  <2>3. ~Full(r')
    BY <1>2, <1>4, <2>1, HalAssumption DEF Full
  <2> QED BY <1>4, <2>1, <2>2, <2>3
<1>6. RxOK(r')
  BY <1>1, <1>2, <1>4, <1>5, HalAssumption DEF RxOK
<1>7. th' \in Thread /\ th'.pc # "pop"
  BY <1>1, Jump, Names DEF Pop, Goto
<1>8. LoanOK' /\ TxOK(tx', t') /\ rx' \in RxHardware /\ errorCode' \in BOOLEAN /\ fails' \in Nat
  BY DEF Pop, IInv, LoanOK, TxOK, RestOK, hardware, loan
<1> QED BY <1>6, <1>7, <1>8, ThreadStep DEF Pop, hardware

LEMMA announceGapStep == ASSUME IInv, announceGap PROVE IInv'
<1>1. RxOK(r')
  BY DEF announceGap, IInv, RxOK, RxState, ClaimSlot, Full
<1>2. ThreadOK'
  <2>1. th \in Thread /\ (th.audit \/ ~th.audit)
    BY DEF IInv, ThreadOK
  <2>2. th' \in Thread /\ th'.pc # "pop"
    BY <2>1, Jump, Names DEF announceGap, Goto
  <2> QED BY <2>2 DEF ThreadOK, At
<1>3. gapped' \in BOOLEAN
  BY DEF announceGap, IInv, RestOK
<1> QED BY <1>1, <1>2, <1>3 DEF announceGap, IInv, RestOK, LoanOK, TxOK, hardware, loan

LEMMA txLivenessAuditStep == ASSUME IInv, txLivenessAudit PROVE IInv'
<1>1. tx \in TxHardware /\ t \in TxState /\ th \in Thread /\ TxOK(tx, t) /\ RxOK(r)
  BY DEF IInv, TxOK, ThreadOK
<1>2. ASSUME NEW u \in TxState, u.txBusy = t.txBusy, u.txAbortPending = t.txAbortPending,
             t' = u
      PROVE  TxOK(tx, t')
  BY <1>1, <1>2 DEF TxOK
<1>3. TxOK(tx, t')
  <2>1. t' = t \/ t' = Baseline \/ t' = [t EXCEPT !.txStallChecks = 0]
        \/ t' = [t EXCEPT !.txStallChecks = @ + 1]
    BY Zenon DEF txLivenessAudit, Observe, CountStall
  <2>2. Baseline \in TxState /\ Baseline.txBusy = t.txBusy
        /\ Baseline.txAbortPending = t.txAbortPending
    BY <1>1 DEF Baseline, TxState, TxHardware
  <2>3. [t EXCEPT !.txStallChecks = 0] \in TxState
        /\ [t EXCEPT !.txStallChecks = @ + 1] \in TxState
    BY <1>1 DEF TxState
  <2> QED BY <1>1, <1>2, <2>1, <2>2, <2>3 DEF TxState
<1>4. th' \in Thread /\ th'.pc # "pop"
  <2>1. Goto("health") \/ FinishTx(TRUE) \/ FinishTx(FALSE)
    BY Zenon DEF txLivenessAudit, Observe, CountStall
  <2> QED BY <1>1, <2>1, Jump, Names DEF Goto, FinishTx, Thread
<1> QED BY <1>1, <1>3, <1>4, ControlStep DEF txLivenessAudit, Quiet, NoVerdict, loan

LEMMA FinishStopStep == ASSUME IInv, FinishStop PROVE IInv'
<1>1. /\ tx \in TxHardware /\ t \in TxState /\ th \in Thread /\ TxOK(tx, t) /\ fails \in Nat
      /\ Calmer(tx, TxStopped(tx)) /\ ~TxStopped(tx).live /\ Calmer(tx, TxStopFailed(tx))
  BY TxHardwareOps DEF IInv, TxOK, ThreadOK, RestOK
<1>2. RxOK(r') /\ rx' \in RxHardware /\ LoanOK' /\ errorCode' \in BOOLEAN
      /\ UNCHANGED <<line, stream, faults>>
  BY DEF FinishStop, Quiet, NoVerdict, IInv, LoanOK, RestOK
<1>3. t.txBusy \in BOOLEAN
  BY <1>1 DEF TxState
<1>4. CASE /\ tx' = TxStopped(tx)
           /\ t' = IF t.txBusy THEN [t EXCEPT !.txBusy = FALSE, !.txAbortPending = FALSE,
                                              !.txProgressValid = FALSE]
                   ELSE t
           /\ th' = [th EXCEPT !.pc = "finNotify", !.txTeardown = FALSE,
                               !.notify = t.txBusy]
           /\ UNCHANGED <<errorCode, fails>>
  <2>1. TxOK(tx', t')
    BY <1>1, <1>3, <1>4 DEF TxOK, TxState, Calmer
  <2>2. th' \in Thread /\ th'.pc # "pop"
    BY <1>1, <1>3, <1>4, Names DEF Thread
  <2> QED BY <1>1, <1>2, <1>4, <2>1, <2>2, ThreadStep
<1>5. CASE /\ fails' = fails + 1 /\ tx' = TxStopFailed(tx) /\ t' = t
           /\ th' = [th EXCEPT !.pc = "finNotify", !.txTeardown = FALSE]
  <2>1. TxOK(tx', t')
    BY <1>1, <1>5 DEF TxOK, Calmer
  <2>2. th' \in Thread /\ th'.pc # "pop"
    BY <1>1, <1>5, Names DEF Thread
  <2>3. fails' \in Nat
    BY <1>1, <1>5
  <2> QED BY <1>2, <2>1, <2>2, <2>3, ThreadStep
<1> QED BY <1>4, <1>5 DEF FinishStop

\* The steps that give the owed verdict.
LEMMA NotifyStep == ASSUME IInv, FinishNotify \/ AllNotify PROVE IInv'
<1>1. th \in Thread /\ th.outcome \in BOOLEAN /\ th.ret \in Steps /\ th.ret # "pop" /\ LoanOK
  BY ReturnType DEF IInv, ThreadOK, Thread
<1>2. th' \in Thread /\ th'.pc # "pop"
  BY <1>1, Names DEF FinishNotify, AllNotify, Thread
<1>3. LoanOK'
  <2>1. \/ \E ok \in BOOLEAN : Tell(ok)
        \/ UNCHANGED loan
    BY <1>1 DEF FinishNotify, AllNotify
  <2> QED BY <1>1, <2>1, TellOK DEF LoanOK, loan
<1>4. UNCHANGED <<hardware, r, t, stream, faults, fails>>
  BY DEF FinishNotify, AllNotify
<1> QED BY <1>2, <1>3, <1>4, ThreadStep DEF IInv, RestOK, TxOK, hardware

LEMMA AllStopStep == ASSUME IInv, AllStop PROVE IInv'
<1>1. /\ tx \in TxHardware /\ t \in TxState /\ th \in Thread /\ TxOK(tx, t) /\ fails \in Nat
      /\ rx \in RxHardware /\ RxOK(r)
      /\ Calmer(tx, TxStopped(tx)) /\ ~TxStopped(tx).live /\ Calmer(tx, TxStopFailed(tx))
      /\ RxStopped(rx) \in RxHardware /\ RxStopFailed(rx) \in RxHardware
  BY TxHardwareOps, RxHardwareOps DEF IInv, TxOK, ThreadOK, RestOK
<1>2. LoanOK' /\ errorCode' \in BOOLEAN /\ UNCHANGED <<line, stream, faults>>
  BY DEF AllStop, Quiet, NoVerdict, IInv, LoanOK, RestOK
<1>3. th' \in Thread /\ th'.pc # "pop"
  BY <1>1, Names DEF AllStop, Thread
<1>4. CASE /\ rx' = RxStopped(rx) /\ tx' = TxStopped(tx)
           /\ r' = [voidActiveChunk(r) EXCEPT !.started = FALSE]
           /\ t' = [t EXCEPT !.txBusy = FALSE, !.txAbortPending = FALSE]
           /\ UNCHANGED fails
  <2>1. TxOK(tx', t')
    BY <1>1, <1>4 DEF TxOK, TxState, Calmer
  <2>2. RxOK(r')
    BY <1>1, <1>4, voidActiveChunkOK, StartedOK
  <2> QED BY <1>1, <1>2, <1>3, <1>4, <2>1, <2>2, ThreadStep
<1>5. CASE /\ fails' = fails + 1
           /\ \/ tx' = TxStopFailed(tx) /\ rx' = rx
              \/ tx' = TxStopped(tx) /\ rx' = RxStopFailed(rx)
           /\ r' = [r EXCEPT !.started = FALSE] /\ t' = t
  <2>1. TxOK(tx', t') /\ rx' \in RxHardware
    BY <1>1, <1>5 DEF TxOK, Calmer
  <2>2. RxOK(r')
    BY <1>1, <1>5, StartedOK
  <2>3. fails' \in Nat
    BY <1>1, <1>5
  <2> QED BY <1>2, <1>3, <2>1, <2>2, <2>3, ThreadStep
<1> QED BY <1>4, <1>5 DEF AllStop

-----------------------------------------------------------------------------
(***************************************************************************)
(* The invariant is inductive, and what it gives.                          *)
(***************************************************************************)
LEMMA NextIInv == IInv /\ [Next]_vars => IInv'
<1> SUFFICES ASSUME IInv, [Next]_vars PROVE IInv'
  OBVIOUS
<1>1. CASE LineByte
  BY <1>1, LineByteStep
<1>2. CASE Interrupt
  BY <1>2, InterruptStep
<1>3. CASE Faulty
  BY <1>3, FaultyStep
<1>4. CASE Application
  BY <1>4, DecisionStep, SendStep, FlagStep DEF Application
<1>5. CASE Service
  <2>1. CASE InitCheck \/ Reraise
    BY <2>1, FlagStep
  <2>2. CASE \/ Settle \/ FinishGate \/ healthCheck \/ AllGate
             \/ ReclaimTest \/ ReclaimGate \/ ProceedTail \/ RestartGate
    BY <2>2, DecisionStep
  <2>3. CASE RebaudStop \/ ReclaimStop \/ RestartStop
    BY <2>3, StopRxStep
  <2>4. CASE RebaudApply
    BY <2>4, RebaudApplyStep
  <2>5. CASE Deliver \/ Pop \/ announceGap
    BY <2>5, DeliverStep, PopStep, announceGapStep
  <2>6. CASE txLivenessAudit \/ FinishStop
    BY <2>6, txLivenessAuditStep, FinishStopStep
  <2>7. CASE FinishNotify \/ AllNotify
    BY <2>7, NotifyStep
  <2>8. CASE AllStop
    BY <2>8, AllStopStep
  <2>9. CASE ReclaimArm \/ RestartArm
    BY <2>9, ArmStep
  <2> QED BY <1>5, <2>1, <2>2, <2>3, <2>4, <2>5, <2>6, <2>7, <2>8, <2>9 DEF Service
<1>6. CASE UNCHANGED vars
  <2>1. UNCHANGED <<line, rx, tx, errorCode, r, t, th, opening, heard, gapped,
                    sent, told, verdict, faults, fails>>
    BY <1>6 DEF vars, hardware, stream, loan
  <2> QED BY <2>1 DEF IInv, RxOK, TxOK, LoanOK, ThreadOK, At, RestOK, ClaimSlot, Full
<1> QED BY <1>1, <1>2, <1>3, <1>4, <1>5, <1>6 DEF Next

LEMMA Inductive == Spec => []IInv
BY InitIInv, NextIInv, PTL DEF Spec

\* Every field of the driver, of its thread and of the hardware keeps its range,
\* whatever the count registers say and in whatever order interrupts, faults,
\* failed HAL calls and the thread's steps come.
THEOREM UartTypeCorrect == Spec => []TypeOK
<1>1. IInv => TypeOK
  BY DEF IInv, RxOK, TxOK, LoanOK, ThreadOK, RestOK, TypeOK
<1> QED BY <1>1, Inductive, PTL

\* The claimed chunk is always the slot after the fifo's tail, and the fifo has
\* room for it: no interleaving of ISR and thread overruns the consumer.
THEOREM UartClaimIsNextSlot == Spec => []ClaimIsNextSlot
<1>1. IInv => ClaimIsNextSlot
  BY DEF IInv, RxOK, ClaimIsNextSlot
<1> QED BY <1>1, Inductive, PTL

\* While an overflow is unannounced, receiveArm claims no chunk.
THEOREM UartNoChunkPastTheGap == Spec => []NoChunkPastTheGap
<1>1. IInv => NoChunkPastTheGap
  BY DEF IInv, RxOK, NoChunkPastTheGap
<1> QED BY <1>1, Inductive, PTL

\* Both rules of the claim hold for every geometry.
THEOREM UartSlotDiscipline == Spec => []SlotDiscipline
<1>1. ClaimIsNextSlot /\ NoChunkPastTheGap => SlotDiscipline
  BY DEF SlotDiscipline
<1> QED BY <1>1, UartClaimIsNextSlot, UartNoChunkPastTheGap, PTL

\* The caller's memory is never released while the transmit channel can read it,
\* and a deferred abort always has a frame to settle.
THEOREM UartBorrowSafe == Spec => []BorrowSafe
<1>1. IInv => BorrowSafe
  BY DEF IInv, TxOK, BorrowSafe
<1> QED BY <1>1, Inductive, PTL

-----------------------------------------------------------------------------
(***************************************************************************)
(* The receive channel and the chunk it writes.                            *)
(*                                                                         *)
(* Without a race against init a running channel writes the claimed chunk. *)
(* What makes this inductive is where the thread may rely on a channel     *)
(* that does not run: it arms, changes the speed and stands unbound only   *)
(* then, and init's own first pass finds the channel at rest, arms it once *)
(* and is not disturbed before it looks at the result.                     *)
(***************************************************************************)
\* A channel that is READY does not run, and a running one writes the claim.
Tied(h, s) ==
    /\ h.dma = "READY" => ~h.live
    /\ h.live /\ h.dst \in Slots => h.dst = s.active

AtRest == {"unbound", "baudApply", "reclaimArm", "rsArm"}
InitPass == {"unbound", "rsGate", "rsStop", "rsArm", "initCheck"}

Parked ==
    /\ th.pc \in AtRest => ~rx.live
    /\ th.ret = "initCheck" => th.pc \in InitPass
    /\ th.ret = "initCheck" /\ th.pc \in {"rsGate", "rsStop"} => rx.dma = "READY"
    /\ th.pc = "initCheck" => th.ret = "initCheck" /\ (r.started \/ ~rx.live)

DmaInv == IInv /\ Tied(rx, r) /\ Parked

\* What the HAL's calls and interrupts leave of a running channel.
LEMMA RxChannelOps ==
    ASSUME NEW h \in RxHardware
    PROVE  /\ ~RxEnded(h).live /\ ~RxEndedCorrupt(h).live /\ ~RxFaulted(h).live
           /\ ~RxDead(h).live /\ ~RxStopped(h).live
           /\ RxEndedAbortFailed(h).dma # "READY" /\ RxStopFailed(h).dma # "READY"
           /\ RxStopped(h).dma = "READY"
           /\ RxEnded(h).dst = h.dst /\ RxEndedCorrupt(h).dst = h.dst
           /\ \A g \in {RxEndedAbortFailed(h), RxSiblingFaulted(h), RxStopFailed(h),
                        RxErrorsCleared(h)} : g.live = h.live /\ g.dst = h.dst
           /\ RxSiblingFaulted(h).dma = h.dma /\ RxErrorsCleared(h).dma = h.dma
           /\ \A b : RxByteTaken(h, b).live = h.live /\ RxByteTaken(h, b).dst = h.dst
                     /\ RxByteTaken(h, b).dma = h.dma
BY DEF RxHardware, RxEnded, RxEndedCorrupt, RxFaulted, RxDead, RxStopped,
       RxEndedAbortFailed, RxStopFailed, RxSiblingFaulted, RxErrorsCleared, RxByteTaken

\* A channel at rest, armed or refused, is tied to the claim again.
LEMMA ArmTies ==
    ASSUME NEW s, RxOK(s), NEW h \in RxHardware, ~h.live, receiveArm(s, h)
    PROVE  Tied(rx', r') /\ (r'.started \/ ~rx'.live)
<1> DEFINE c == Claimed(s)
<1>1. c \in RxState
  BY ClaimedOK DEF RxOK
<1> HIDE DEF c
<1>2. CASE /\ rx' = RxArmed(h, IF c.active = None THEN Drop ELSE c.active, line)
           /\ r' = [c EXCEPT !.started = TRUE]
  <2>1. r'.active = c.active /\ r'.started
    BY <1>1, <1>2 DEF RxState
  <2>2. rx'.dma = "BUSY" /\ rx'.dst = (IF c.active = None THEN Drop ELSE c.active)
    BY <1>2 DEF RxArmed
  <2> QED BY <2>1, <2>2, Targets DEF Tied
<1>3. CASE rx' = h
  BY <1>3 DEF Tied
<1> QED BY <1>2, <1>3 DEF receiveArm, c

\* A step of the hardware leaves the thread where it is: what the thread relies
\* on stays when no channel starts that did not run.
LEMMA Parking ==
    ASSUME DmaInv, UNCHANGED th, rx'.live => rx.live,
           th.ret = "initCheck" => rx'.dma = rx.dma \/ rx.live,
           th.pc = "initCheck" => r'.started \/ ~rx'.live
    PROVE  Parked'
BY DEF DmaInv, Parked, Tied, AtRest

\* A receive event: the reception that ended was running.
LEMMA RxEventTies ==
    ASSUME DmaInv, rx.live, NEW h \in RxHardware, isrRxEvent(h), UNCHANGED th,
           h.dst = rx.dst, h.dma = "READY" => ~h.live,
           th.pc = "initCheck" => ~h.live
    PROVE  Tied(rx', r') /\ Parked'
<1>1. RxOK(r) /\ r \in RxState /\ Tied(rx, r)
  BY DEF DmaInv, IInv, RxOK
<1>2. Tied(rx', r') /\ (th.pc = "initCheck" => r'.started \/ ~rx'.live)
  <2>1. CASE rx' = h /\ (r' = r \/ r' = rejectLiveRxEvent(r))
    <3>1. r'.active = r.active
      BY <1>1, <2>1 DEF rejectLiveRxEvent, RxState
    <3> QED BY <1>1, <2>1, <3>1 DEF Tied
  <2>2. CASE rx' = h /\ h.dma = "READY"
    BY <2>2 DEF Tied
  <2>3. CASE h.dma = "READY" /\ CountValid(h) /\ receiveArm(publishReceived(r, h), h)
    BY <1>1, <2>3, publishReceivedOK, ArmTies
  <2> QED BY <2>1, <2>2, <2>3 DEF isrRxEvent
<1>3. Parked'
  BY <1>2, Parking
<1> QED BY <1>2, <1>3

\* An error interrupt, once init is over.
LEMMA ErrorTies ==
    ASSUME DmaInv, NEW hr \in RxHardware, NEW ht, isrError(hr, ht), UNCHANGED th,
           th.ret # "initCheck", hr.live => rx.live /\ hr.dst = rx.dst,
           hr.dma = "READY" => ~hr.live
    PROVE  Tied(rx', r') /\ Parked'
<1>1. RxOK(r) /\ r \in RxState /\ Tied(rx, r) /\ th.pc # "initCheck"
  BY DEF DmaInv, IInv, RxOK, Parked
<1>2. rx'.live = hr.live /\ rx'.dst = hr.dst /\ rx'.dma = hr.dma
  <2>1. rx' = hr \/ rx' = RxErrorsCleared(hr)
    BY Zenon DEF isrError
  <2>2. /\ RxErrorsCleared(hr).live = hr.live /\ RxErrorsCleared(hr).dst = hr.dst
        /\ RxErrorsCleared(hr).dma = hr.dma
    BY RxChannelOps
  <2> QED BY <2>1, <2>2
<1>3. hr.live => r'.active = r.active
  <2>1. hr.live => ErrorRx(hr).active = r.active
    BY <1>1 DEF ErrorRx, RxState
  <2>2. ErrorRx(hr) \in RxState
    BY <1>1, ErrorRxOK DEF RxOK
  <2> QED BY <1>1, <2>1, <2>2 DEF isrError, deferTxAbort, RxState
<1>4. Tied(rx', r')
  BY <1>1, <1>2, <1>3 DEF Tied
<1>5. Parked'
  BY <1>1, <1>2, Parking
<1> QED BY <1>4, <1>5

\* A step that leaves the receive channel and the claim alone.
LEMMA HardwareRests ==
    ASSUME DmaInv, UNCHANGED <<rx, th>>, r'.active = r.active, r'.started = r.started
    PROVE  Tied(rx', r') /\ Parked'
BY DEF DmaInv, Tied, Parked

\* A step of the thread that leaves the receive channel and the claim alone.
LEMMA ThreadRests ==
    ASSUME DmaInv, UNCHANGED rx, r'.active = r.active,
           th'.pc \notin AtRest \union {"initCheck"},
           th'.ret = "initCheck" => th'.pc \in {"rsGate", "rsStop"} /\ rx.dma = "READY"
    PROVE  Tied(rx', r') /\ Parked'
BY DEF DmaInv, Tied, Parked, InitPass

\* A step of the thread that stops the channel, or fails to.
LEMMA ThreadStops ==
    ASSUME DmaInv,
           \/ rx' = RxStopped(rx)
           \/ rx' = RxStopFailed(rx) /\ r'.active = r.active /\ th'.pc \notin AtRest,
           th'.pc # "initCheck", th'.ret = "initCheck" => th'.pc = "rsArm"
    PROVE  Tied(rx', r') /\ Parked'
<1>1. rx \in RxHardware
  BY DEF DmaInv, IInv
<1>2. CASE rx' = RxStopped(rx)
  BY <1>1, <1>2, RxChannelOps DEF Tied, Parked, InitPass
<1>3. CASE rx' = RxStopFailed(rx) /\ r'.active = r.active /\ th'.pc \notin AtRest
  <2>1. rx'.live = rx.live /\ rx'.dst = rx.dst /\ rx'.dma # "READY"
    BY <1>1, <1>3, RxChannelOps
  <2> QED BY <1>3, <2>1 DEF DmaInv, Tied, Parked, InitPass
<1> QED BY <1>2, <1>3

\* The line, the interrupts and the faults.
LEMMA HardwareTies ==
    ASSUME "init" \notin Races, DmaInv, LineByte \/ Interrupt \/ Faulty
    PROVE  Tied(rx', r') /\ Parked'
<1>1. rx \in RxHardware /\ r \in RxState /\ RxOK(r) /\ Tied(rx, r) /\ Parked
  BY DEF DmaInv, IInv, RxOK
<1>2. ASSUME Fault PROVE th.ret # "initCheck" /\ th.pc # "initCheck"
  BY <1>1, <1>2 DEF Fault, InitSpared, Parked
<1>3. CASE LineByte
  <2>1. rx'.live = rx.live /\ rx'.dst = rx.dst /\ rx'.dma = rx.dma /\ UNCHANGED <<r, th>>
    BY <1>1, <1>3, RxChannelOps DEF LineByte
  <2> QED BY <1>1, <2>1 DEF Tied, Parked
<1>4. CASE RxIdle \/ RxComplete
  <2>1. RxEnded(rx) \in RxHardware /\ ~RxEnded(rx).live /\ RxEnded(rx).dst = rx.dst
    BY <1>1, RxHardwareOps, RxChannelOps
  <2> QED BY <1>4, <2>1, RxEventTies DEF RxIdle, RxComplete, Receiving
<1>5. CASE TxMove \/ TxFreeChannel \/ TxDrain \/ TxStalls \/ TxCompletionIsLost
  BY <1>5, HardwareRests
     DEF TxMove, TxFreeChannel, TxDrain, TxStalls, TxCompletionIsLost
<1>6. CASE TxComplete \/ TxCompletesEarly
  <2>1. UNCHANGED <<rx, th>> /\ \E g : isrTxCplt(g)
    BY <1>6 DEF TxComplete, TxCompletesEarly
  <2>2. r'.active = r.active /\ r'.started = r.started
    BY <1>1, <2>1 DEF isrTxCplt, deferTxAbort, RxState
  <2> QED BY <2>1, <2>2, HardwareRests
<1>7. CASE RxIdleAbortFails
  <2> DEFINE h == RxEndedAbortFailed(rx)
  <2>1. h \in RxHardware /\ h.dst = rx.dst /\ h.dma # "READY"
    BY <1>1, RxHardwareOps, RxChannelOps
  <2> QED BY <1>2, <1>7, <2>1, RxEventTies DEF RxIdleAbortFails, Receiving
<1>8. CASE RxCorruptCount
  <2> DEFINE h == RxEndedCorrupt(rx)
  <2>1. h \in RxHardware /\ h.dst = rx.dst /\ ~h.live
    BY <1>1, RxHardwareOps, RxChannelOps
  <2> QED BY <1>8, <2>1, RxEventTies DEF RxCorruptCount, Receiving
<1>9. CASE RxEventWhileRunning
  BY <1>1, <1>2, <1>9, RxEventTies DEF RxEventWhileRunning, Receiving, Tied
<1>10. CASE RxLineError
  <2>1. RxEnded(rx) \in RxHardware /\ ~RxEnded(rx).live
    BY <1>1, RxHardwareOps, RxChannelOps
  <2> QED BY <1>2, <1>10, <2>1, ErrorTies DEF RxLineError
<1>11. CASE RxDmaFault
  <2>1. RxFaulted(rx) \in RxHardware /\ ~RxFaulted(rx).live
    BY <1>1, RxHardwareOps, RxChannelOps
  <2> QED BY <1>2, <1>11, <2>1, ErrorTies DEF RxDmaFault
<1>12. CASE TxDmaFault
  <2> DEFINE h == RxSiblingFaulted(rx)
  <2>1. h \in RxHardware /\ h.live = rx.live /\ h.dst = rx.dst /\ h.dma = rx.dma
    BY <1>1, RxHardwareOps, RxChannelOps
  <2>2. h.dma = "READY" => ~h.live
    BY <1>1, <2>1 DEF Tied
  <2>3. isrError(h, TxFaulted(tx)) /\ UNCHANGED th /\ th.ret # "initCheck"
    BY <1>2, <1>12 DEF TxDmaFault
  <2> HIDE DEF h
  <2> QED BY <2>1, <2>2, <2>3, ErrorTies
<1>13. CASE RxDies
  <2>1. rx' = RxDead(rx) /\ UNCHANGED <<r, th>> /\ Fault
    BY <1>13 DEF RxDies
  <2>2. ~rx'.live
    BY <1>1, <2>1, RxChannelOps
  <2>3. Parked'
    BY <1>2, <2>1, <2>2, Parking
  <2> QED BY <2>2, <2>3 DEF Tied
<1> QED BY <1>3, <1>4, <1>5, <1>6, <1>7, <1>8, <1>9, <1>10, <1>11, <1>12, <1>13
        DEF Interrupt, Faulty

\* The calls of the application begin no reception and end none.
LEMMA ApplicationTies ==
    ASSUME DmaInv, Application PROVE Tied(rx', r') /\ Parked'
<1>1. th \in Thread /\ r \in RxState /\ Parked
  BY DEF DmaInv, IInv, ThreadOK, RxOK
<1>2. CASE InitCall
  <2>1. UNCHANGED <<rx, r>> /\ rx.dma = "READY"
    BY <1>2 DEF InitCall
  <2>2. th'.pc = "rsGate"
    BY <1>1, <1>2 DEF InitCall, Thread
  <2> QED BY <2>1, <2>2, ThreadRests DEF AtRest
<1>3. CASE Send
  BY <1>3, HardwareRests DEF Send
<1>4. CASE RebaudCall
  <2>1. UNCHANGED <<rx, r>> /\ th.pc = "idle"
    BY <1>4 DEF RebaudCall, At
  <2>2. th'.pc = "baudStop" /\ th'.ret = th.ret /\ th.ret # "initCheck"
    BY <1>1, <1>4, <2>1 DEF RebaudCall, Thread, Parked, InitPass
  <2> QED BY <2>1, <2>2, ThreadRests DEF AtRest
<1>5. CASE Proceed(TRUE) \/ Proceed(FALSE)
  <2>1. UNCHANGED rx /\ r'.active = r.active /\ th.pc = "idle"
    BY <1>1, <1>5 DEF Proceed, At, RxState
  <2>2. th'.pc = "settle" /\ th'.ret = th.ret /\ th.ret # "initCheck"
    BY <1>1, <1>5, <2>1 DEF Proceed, Thread, Parked, InitPass
  <2> QED BY <2>1, <2>2, ThreadRests DEF AtRest
<1> QED BY <1>2, <1>3, <1>4, <1>5, Zenon DEF Application

\* The steps of a pass that stop and arm nothing.
PassStep ==
    \/ Settle \/ Reraise \/ Deliver \/ Pop \/ announceGap
    \/ txLivenessAudit \/ FinishGate \/ FinishStop \/ FinishNotify
    \/ healthCheck \/ AllGate \/ AllNotify \/ ReclaimTest \/ ReclaimGate \/ ProceedTail

LEMMA PassTies ==
    ASSUME DmaInv, PassStep PROVE Tied(rx', r') /\ Parked'
<1>1. th \in Thread /\ r \in RxState /\ Parked
  BY DEF DmaInv, IInv, ThreadOK, RxOK
<1>2. UNCHANGED rx /\ r'.active = r.active
  BY <1>1 DEF PassStep, Settle, Reraise, Deliver, Pop, announceGap, txLivenessAudit,
       FinishGate, FinishStop, FinishNotify, healthCheck, AllGate, AllNotify,
       ReclaimTest, ReclaimGate, ProceedTail, hardware, RxState
<1>3. th.ret # "initCheck"
  BY <1>1 DEF Parked, InitPass, PassStep, At, Settle, Reraise, Deliver, Pop, announceGap,
       txLivenessAudit, FinishGate, FinishStop, FinishNotify, healthCheck, AllGate,
       AllNotify, ReclaimTest, ReclaimGate, ProceedTail
<1> DEFINE Home == AtRest \union {"initCheck"}
<1>4. th.ret \notin Home
  BY <1>1, <1>3 DEF Thread, Returns, AtRest
<1>5. th'.pc \notin Home /\ th'.ret # "initCheck"
  <2>1. CASE Settle \/ FinishGate \/ FinishNotify
    BY <1>1, <1>3, <1>4, <2>1 DEF Settle, FinishGate, FinishNotify, Thread, AtRest
  <2>2. CASE FinishStop
    BY <1>1, <1>3, <2>2 DEF FinishStop, Thread, AtRest
  <2>3. CASE \E l \in {"drain", "pop", "announce", "reclaim", "audit", "reclaimGate",
                       "tail", "health"} : Goto(l)
    BY <1>1, <1>3, <2>3 DEF Goto, Thread, AtRest
  <2>4. CASE \E ok \in BOOLEAN : FinishTx(ok)
    BY <1>1, <2>4 DEF FinishTx, Thread, AtRest
  <2>5. CASE healthCheck \/ AllGate \/ AllNotify \/ ReclaimGate \/ ProceedTail
    BY <1>1, <1>3, <2>5 DEF healthCheck, AllGate, AllNotify, ReclaimGate, ProceedTail,
                            Thread, AtRest
  <2>6. txLivenessAudit => Goto("health") \/ FinishTx(TRUE) \/ FinishTx(FALSE)
    BY Zenon DEF txLivenessAudit, Observe, CountStall
  <2> QED BY <2>1, <2>2, <2>3, <2>4, <2>5, <2>6
          DEF PassStep, Reraise, Deliver, Pop, announceGap, ReclaimTest
<1> QED BY <1>2, <1>5, ThreadRests

\* A channel that would not stop is never armed: the thread arms a stopped one.
LEMMA ServiceTies ==
    ASSUME DmaInv, Service PROVE Tied(rx', r') /\ Parked'
<1>1. /\ th \in Thread /\ r \in RxState /\ RxOK(r) /\ rx \in RxHardware
      /\ Tied(rx, r) /\ Parked
  BY DEF DmaInv, IInv, ThreadOK, RxOK
<1>2. CASE PassStep
  BY <1>2, PassTies
<1>3. CASE InitCheck
  <2>1. CASE r.started
    <3>1. UNCHANGED <<rx, r>> /\ th'.pc = "idle" /\ th'.ret = "idle"
      BY <1>1, <1>3, <2>1 DEF InitCheck, Thread
    <3> QED BY <3>1, ThreadRests DEF AtRest
  <2>2. CASE ~r.started
    <3>1. ~rx'.live /\ th'.pc = "unbound"
      BY <1>1, <1>3, <2>2 DEF InitCheck, At, Parked, Thread
    <3> QED BY <3>1 DEF Tied, Parked, InitPass
  <2> QED BY <2>1, <2>2
<1>4. CASE RebaudApply
  <2>1. UNCHANGED <<rx, r>> /\ th'.pc = "rsGate" /\ th'.ret = "idle"
    BY <1>1, <1>4 DEF RebaudApply, Thread
  <2> QED BY <2>1, ThreadRests DEF AtRest
<1>5. ASSUME NEW next, StopRxFails(next), next \notin AtRest \union {"initCheck"},
             th.ret # "initCheck"
      PROVE  Tied(rx', r') /\ Parked'
  <2>1. /\ rx' = RxStopFailed(rx) /\ r'.active = r.active
        /\ th'.pc = next /\ th'.ret = th.ret
    BY <1>1, <1>5 DEF StopRxFails, RxState, Thread
  <2> QED BY <1>5, <2>1, ThreadStops
<1>6. CASE RebaudStop \/ ReclaimStop
  <2>1. th.ret # "initCheck"
    BY <1>1, <1>6 DEF RebaudStop, ReclaimStop, At, Parked, InitPass
  <2>2. \/ StopRxFails("idle") \/ StopRxFails("tail")
        \/ /\ rx' = RxStopped(rx)
           /\ \E l \in {"baudApply", "reclaimArm"} :
                th' = [th EXCEPT !.pc = l, !.rxTeardown = FALSE]
    BY <1>6 DEF RebaudStop, ReclaimStop
  <2>3. CASE StopRxFails("idle") \/ StopRxFails("tail")
    BY <1>5, <2>1, <2>3 DEF AtRest
  <2>4. CASE /\ rx' = RxStopped(rx)
             /\ \E l \in {"baudApply", "reclaimArm"} :
                  th' = [th EXCEPT !.pc = l, !.rxTeardown = FALSE]
    <3>1. th'.pc # "initCheck" /\ th'.ret # "initCheck"
      BY <1>1, <2>1, <2>4 DEF Thread
    <3> QED BY <2>4, <3>1, ThreadStops
  <2> QED BY <2>2, <2>3, <2>4
<1>7. CASE RestartStop
  <2>1. CASE StopRxFails(th.ret)
    <3>1. th.ret # "initCheck"
      BY <1>1, <1>7, <2>1 DEF RestartStop, StopRxFails, CanFailStop, At, Parked
    <3>2. th.ret \notin AtRest \union {"initCheck"}
      BY <1>1, <3>1 DEF Thread, Returns, AtRest
    <3> QED BY <1>5, <2>1, <3>1, <3>2
  <2>2. CASE rx' = RxStopped(rx) /\ th' = [th EXCEPT !.pc = "rsArm", !.rxTeardown = FALSE]
    <3>1. th'.pc = "rsArm"
      BY <1>1, <2>2 DEF Thread
    <3> QED BY <2>2, <3>1, ThreadStops
  <2> QED BY <1>7, <2>1, <2>2 DEF RestartStop
<1>8. CASE RestartGate
  <2>1. UNCHANGED <<rx, r>> /\ th'.pc = "rsStop" /\ th'.ret = th.ret /\ th.pc = "rsGate"
    BY <1>1, <1>8 DEF RestartGate, At, Thread
  <2>2. th.ret = "initCheck" => rx.dma = "READY"
    BY <1>1, <2>1 DEF Parked
  <2> QED BY <2>1, <2>2, ThreadRests DEF AtRest
<1>9. CASE AllStop
  <2>1. th.ret # "initCheck"
    BY <1>1, <1>9 DEF AllStop, At, Parked, InitPass
  <2>2. th'.ret = th.ret /\ th'.pc \in {"allNotify", "reclaim"}
    BY <1>1, <1>9 DEF AllStop, Thread
  <2>3. CASE rx' = RxStopped(rx)
    BY <2>1, <2>2, <2>3, ThreadStops
  <2>4. CASE (rx' = rx \/ rx' = RxStopFailed(rx)) /\ r' = [r EXCEPT !.started = FALSE]
    <3>1. r'.active = r.active
      BY <1>1, <2>4 DEF RxState
    <3> QED BY <2>1, <2>2, <2>4, <3>1, ThreadRests, ThreadStops DEF AtRest
  <2> QED BY <1>9, <2>3, <2>4 DEF AllStop
<1>10. CASE ReclaimArm
  <2>1. ~rx.live /\ th.ret # "initCheck"
    BY <1>1, <1>10 DEF ReclaimArm, At, Parked, AtRest, InitPass
  <2>2. Tied(rx', r')
    BY <1>1, <1>10, <2>1, publishReceivedOK, ArmTies DEF ReclaimArm, Tied
  <2>3. th'.pc = "tail" /\ th'.ret = th.ret
    BY <1>1, <1>10 DEF ReclaimArm, Goto, Thread
  <2> QED BY <2>1, <2>2, <2>3 DEF Parked, AtRest
<1>11. CASE RestartArm
  <2>1. ~rx.live
    BY <1>1, <1>11 DEF RestartArm, At, Parked, AtRest
  <2>2. RxErrorsCleared(rx) \in RxHardware /\ ~RxErrorsCleared(rx).live
    BY <1>1, <2>1, RxHardwareOps, RxChannelOps
  <2>3. Tied(rx', r') /\ (r'.started \/ ~rx'.live)
    BY <1>1, <1>11, <2>2, voidActiveChunkOK, ArmTies DEF RestartArm
  <2>4. th'.pc = th.ret /\ th'.ret = th.ret /\ th.ret \in Returns
    BY <1>1, <1>11 DEF RestartArm, Goto, Thread
  <2>5. th.ret \notin AtRest \union {"rsGate", "rsStop"}
    BY <2>4 DEF Returns, AtRest
  <2> QED BY <2>3, <2>4, <2>5 DEF Parked, InitPass
<1> QED BY <1>2, <1>3, <1>4, <1>6, <1>7, <1>8, <1>9, <1>10, <1>11 DEF Service, PassStep

\* The ties hold in every reachable state.
LEMMA DmaInductive ==
    ASSUME "init" \notin Races PROVE Spec => []DmaInv
<1>1. Init => DmaInv
  <2> SUFFICES ASSUME Init PROVE DmaInv
    OBVIOUS
  <2>1. ~rx.live /\ th.ret = "idle" /\ th.pc = "unbound"
    BY DEF Init, RxReset
  <2> QED BY <2>1, InitIInv DEF DmaInv, Tied, Parked
<1>2. DmaInv /\ [Next]_vars => DmaInv'
  <2> SUFFICES ASSUME DmaInv, [Next]_vars PROVE DmaInv'
    OBVIOUS
  <2>1. IInv'
    BY NextIInv DEF DmaInv
  <2>2. CASE LineByte \/ Interrupt \/ Faulty
    BY <2>1, <2>2, HardwareTies DEF DmaInv
  <2>3. CASE Application
    BY <2>1, <2>3, ApplicationTies DEF DmaInv
  <2>4. CASE Service
    BY <2>1, <2>4, ServiceTies DEF DmaInv
  <2>5. CASE UNCHANGED vars
    BY <2>1, <2>5, HardwareRests DEF DmaInv, vars, hardware
  <2> QED BY <2>2, <2>3, <2>4, <2>5 DEF Next
<1> QED BY <1>1, <1>2, PTL DEF Spec

\* The slot after the tail holds no published chunk while there is room.
LEMMA ClaimIsUnpublished ==
    ASSUME r \in RxState, Len(r.queue) < ChunkCount
    PROVE  ClaimSlot(r) \notin Published
<1> DEFINE f == r.front
           n == Len(r.queue)
<1>1. f \in 0 .. ChunkCount - 1 /\ n \in Nat /\ n < ChunkCount
  BY DEF RxState, Slots
<1> HIDE DEF f, n
<1>2. ASSUME NEW i \in 0 .. n - 1 PROVE (f + i) % ChunkCount # (f + n) % ChunkCount
  <2> DEFINE a == f + i
             b == f + n
  <2>1. /\ a \in Nat /\ a < 2 * ChunkCount /\ b \in Nat /\ b < 2 * ChunkCount
        /\ a < b /\ b < a + ChunkCount
    BY <1>1, HalAssumption
  <2> HIDE DEF a, b
  <2> DEFINE p == a % ChunkCount
             q == b % ChunkCount
  <2>2. /\ p = IF a < ChunkCount THEN a ELSE a - ChunkCount
        /\ q = IF b < ChunkCount THEN b ELSE b - ChunkCount
    BY <2>1, Wrap
  <2>3. p # q
    <3> HIDE DEF p, q
    <3> QED BY <2>1, <2>2, HalAssumption
  <2> QED BY <2>3 DEF a, b
<1> QED BY <1>2 DEF ClaimSlot, Published, f, n

\* As long as no interrupt strikes init before its last check, DMA writes no
\* chunk but the claimed one, and none the application can see: through every
\* other order of interrupts, faults, failed aborts and recovery steps.
THEOREM UartDmaOwnsItsTarget ==
    ASSUME "init" \notin Races PROVE Spec => []DmaOwnsItsTarget
<1>1. DmaInv => DmaOwnsItsTarget
  <2> SUFFICES ASSUME DmaInv, rx.live, rx.dst \in Slots
               PROVE  rx.dst = r.active /\ rx.dst \notin Published
    BY DEF DmaOwnsItsTarget
  <2>1. r \in RxState /\ RxOK(r) /\ rx.dst = r.active
    BY DEF DmaInv, IInv, Tied, RxOK
  <2>2. r.active = ClaimSlot(r) /\ ~Full(r) /\ Len(r.queue) <= ChunkCount
    BY <2>1, Targets DEF RxOK
  <2>3. Len(r.queue) < ChunkCount
    BY <2>1, <2>2, HalAssumption DEF Full, RxState
  <2> QED BY <2>1, <2>2, <2>3, ClaimIsUnpublished
<1> QED BY <1>1, DmaInductive, PTL

-----------------------------------------------------------------------------
(***************************************************************************)
(* The doorbell of proceed.                                                *)
(*                                                                         *)
(* Proceed takes the doorbell down before it looks; what is found up to    *)
(* then is settled and drained by that very pass, and whoever adds work    *)
(* later rings again.  So the invariant names, for every kind of work, the *)
(* steps between the two looks where it may lie without the bell.          *)
(***************************************************************************)
Settling ==
    \/ th.pc \in {"settle", "reraise"}
    \/ th.pc \in {"finGate", "finStop", "finNotify"} /\ th.ret = "reraise"

Remembered ==
    ~r.rxWorkPending =>
        /\ t.txAbortPending => Settling
        /\ r.queue # <<>> => Settling \/ th.pc \in {"drain", "pop"}
        /\ r.rxGapPending => Settling \/ th.pc \in {"drain", "pop", "announce"}

WorkInv == IInv /\ Remembered

\* From s to v the bell is up at the end, or nothing was added and none taken down.
Rings(s, v) ==
    v.rxWorkPending \/ ( /\ ~s.rxWorkPending
                         /\ v.queue = s.queue /\ v.rxGapPending = s.rxGapPending )

LEMMA RingsTwice ==
    ASSUME NEW s, NEW u, NEW v, Rings(s, u), Rings(u, v) PROVE Rings(s, v)
BY DEF Rings

\* Queueing a chunk or a marker always rings.
LEMMA QueueingRings ==
    ASSUME NEW s \in RxState, NEW c \in Chunks
    PROVE  LET v == [s EXCEPT !.queue = Append(@, c), !.active = None, !.rxWorkPending = TRUE]
           IN  Rings(s, v) /\ v \in RxState
<1>1. Append(s.queue, c) \in Seq(Chunks)
  BY DEF RxState
<1> QED BY <1>1 DEF Rings, RxState

\* Every primitive of the receive side rings for what it adds.
LEMMA PrimitivesRing ==
    ASSUME NEW s \in RxState
    PROVE  /\ Rings(s, s)
           /\ Rings(s, voidActiveChunk(s)) /\ voidActiveChunk(s) \in RxState
           /\ \A from \in Nat, size \in 0 .. ChunkSize :
                Rings(s, publishActive(s, from, size)) /\ publishActive(s, from, size) \in RxState
           /\ Rings(s, Claimed(s)) /\ Claimed(s) \in RxState
           /\ \A b \in BOOLEAN : Rings(s, [s EXCEPT !.started = b])
<1>1. [from |-> 0, size |-> 0] \in Chunks
  BY HalAssumption DEF Chunks
<1>2. Rings(s, s)
  BY DEF Rings, RxState
<1>3. Rings(s, voidActiveChunk(s)) /\ voidActiveChunk(s) \in RxState
  <2> DEFINE v == [s EXCEPT !.queue = Append(@, [from |-> 0, size |-> 0]),
                            !.active = None, !.rxWorkPending = TRUE]
  <2>1. voidActiveChunk(s) = s \/ voidActiveChunk(s) = v
    BY Zenon DEF voidActiveChunk
  <2>2. Rings(s, v) /\ v \in RxState
    BY <1>1, QueueingRings, Zenon
  <2> HIDE DEF v
  <2> QED BY <1>2, <2>1, <2>2
<1>4. ASSUME NEW from \in Nat, NEW size \in 0 .. ChunkSize
      PROVE  Rings(s, publishActive(s, from, size)) /\ publishActive(s, from, size) \in RxState
  <2>1. [from |-> from, size |-> size] \in Chunks
    BY DEF Chunks
  <2> DEFINE v == [s EXCEPT !.queue = Append(@, [from |-> from, size |-> size]),
                            !.active = None, !.rxWorkPending = TRUE]
  <2>2. publishActive(s, from, size) = s \/ publishActive(s, from, size) = v
    BY Zenon DEF publishActive
  <2>3. Rings(s, v) /\ v \in RxState
    BY <2>1, QueueingRings, Zenon
  <2> HIDE DEF v
  <2> QED BY <1>2, <2>2, <2>3
<1>5. Rings(s, Claimed(s)) /\ Claimed(s) \in RxState
  BY <1>2, ClaimSlotType DEF Claimed, Rings, RxState
<1>6. \A b \in BOOLEAN : Rings(s, [s EXCEPT !.started = b])
  BY DEF Rings, RxState
<1> QED BY <1>2, <1>3, <1>4, <1>5, <1>6

LEMMA ArmRings ==
    ASSUME NEW s \in RxState, NEW h, receiveArm(s, h) PROVE Rings(s, r')
<1> DEFINE c == Claimed(s)
<1>1. Rings(s, c) /\ c \in RxState
  BY PrimitivesRing
<1>2. \E b \in BOOLEAN : r' = [c EXCEPT !.started = b]
  BY DEF receiveArm
<1> HIDE DEF c
<1>3. Rings(c, r')
  BY <1>1, <1>2, PrimitivesRing
<1> QED BY <1>1, <1>3, RingsTwice

\* Arming after what was received is published.
LEMMA PublishRings ==
    ASSUME NEW s \in RxState, NEW h \in RxHardware, CountValid(h),
           receiveArm(publishReceived(s, h), h)
    PROVE  Rings(s, r')
<1>1. h.from \in Nat /\ ChunkSize - h.remaining \in 0 .. ChunkSize
  BY HalAssumption DEF CountValid, RxHardware, CorruptCount
<1>2. Rings(s, publishReceived(s, h)) /\ publishReceived(s, h) \in RxState
  BY <1>1, PrimitivesRing DEF publishReceived
<1>3. Rings(publishReceived(s, h), r')
  BY <1>2, ArmRings
<1> QED BY <1>2, <1>3, RingsTwice

LEMMA RejectRings ==
    ASSUME NEW s \in RxState, NEW b \in BOOLEAN
    PROVE  /\ Rings(s, [voidActiveChunk(s) EXCEPT !.started = b])
           /\ [voidActiveChunk(s) EXCEPT !.started = b] \in RxState
<1> DEFINE v == voidActiveChunk(s)
<1>1. Rings(s, v) /\ v \in RxState
  BY PrimitivesRing
<1> HIDE DEF v
<1>2. Rings(v, [v EXCEPT !.started = b]) /\ [v EXCEPT !.started = b] \in RxState
  BY <1>1, PrimitivesRing DEF RxState
<1>3. Rings(s, [v EXCEPT !.started = b])
  BY <1>1, <1>2, RingsTwice
<1> QED BY <1>2, <1>3 DEF v

\* The three callbacks ring for what they publish, lose or defer.
LEMMA CallbacksRing ==
    ASSUME NEW h \in RxHardware, NEW g, r \in RxState, t \in TxState,
           (isrRxEvent(h) /\ UNCHANGED t) \/ isrTxCplt(g) \/ isrError(h, g)
    PROVE  Rings(r, r') /\ (t'.txAbortPending => t.txAbortPending \/ r'.rxWorkPending)
<1>1. Rings(r, r)
  BY PrimitivesRing
<1>2. CASE isrRxEvent(h) /\ UNCHANGED t
  <2>1. \/ r' = r \/ r' = rejectLiveRxEvent(r) \/ r' = rejectDmaCount(r)
        \/ CountValid(h) /\ receiveArm(publishReceived(r, h), h)
    BY <1>2, Zenon DEF isrRxEvent
  <2>2. Rings(r, rejectLiveRxEvent(r)) /\ Rings(r, rejectDmaCount(r))
    BY PrimitivesRing, RejectRings DEF rejectLiveRxEvent, rejectDmaCount
  <2>3. Rings(r, r')
    BY <1>1, <2>1, <2>2, PublishRings
  <2> QED BY <1>2, <2>3
<1>3. ASSUME NEW s \in RxState, Rings(r, s), deferTxAbort(s)
      PROVE  Rings(r, r') /\ r'.rxWorkPending
  BY <1>3 DEF deferTxAbort, Rings, RxState
<1>4. ASSUME UNCHANGED t \/ t' = [t EXCEPT !.txBusy = FALSE]
      PROVE  t'.txAbortPending => t.txAbortPending
  BY <1>4 DEF TxState
<1>5. CASE isrTxCplt(g)
  <2>1. \/ UNCHANGED r /\ (UNCHANGED t \/ t' = [t EXCEPT !.txBusy = FALSE])
        \/ deferTxAbort(r)
    BY <1>5, Zenon DEF isrTxCplt
  <2> QED BY <1>1, <1>3, <1>4, <2>1
<1>6. CASE isrError(h, g)
  <2>1. \/ (r' = r \/ r' = ErrorRx(h)) /\ (UNCHANGED t \/ t' = [t EXCEPT !.txBusy = FALSE])
        \/ deferTxAbort(ErrorRx(h))
    BY <1>6, Zenon DEF isrError
  <2>2. Rings(r, ErrorRx(h)) /\ ErrorRx(h) \in RxState
    BY <1>1, PrimitivesRing, RejectRings DEF ErrorRx, RxState
  <2> QED BY <1>1, <1>3, <1>4, <2>1, <2>2
<1> QED BY <1>2, <1>5, <1>6

\* A step that leaves the thread where it is and rings for what it adds.
LEMMA SameStepRemembers ==
    ASSUME Remembered, UNCHANGED th, Rings(r, r'),
           t'.txAbortPending => t.txAbortPending \/ r'.rxWorkPending
    PROVE  Remembered'
BY DEF Remembered, Rings, Settling

LEMMA HardwareRemembers ==
    ASSUME WorkInv, LineByte \/ Interrupt \/ Faulty PROVE Remembered'
<1>1. rx \in RxHardware /\ r \in RxState /\ t \in TxState /\ Remembered
  BY DEF WorkInv, IInv, RxOK, TxOK
<1>2. CASE UNCHANGED <<r, t, th>>
  BY <1>1, <1>2, PrimitivesRing, SameStepRemembers
<1>3. CASE /\ UNCHANGED th
           /\ \E h \in RxHardware : \E g :
                (isrRxEvent(h) /\ UNCHANGED t) \/ isrTxCplt(g) \/ isrError(h, g)
  BY <1>1, <1>3, CallbacksRing, SameStepRemembers
<1>4. CASE LineByte \/ TxMove \/ TxFreeChannel \/ TxDrain \/ RxDies \/ TxStalls
           \/ TxCompletionIsLost
  BY <1>2, <1>4 DEF LineByte, TxMove, TxFreeChannel, TxDrain, RxDies, TxStalls,
                    TxCompletionIsLost
<1>5. CASE RxIdle \/ RxComplete \/ RxIdleAbortFails \/ RxCorruptCount \/ RxEventWhileRunning
  BY <1>1, <1>3, <1>5, RxHardwareOps
     DEF RxIdle, RxComplete, RxIdleAbortFails, RxCorruptCount, RxEventWhileRunning
<1>6. CASE TxComplete \/ TxCompletesEarly
  BY <1>1, <1>3, <1>6 DEF TxComplete, TxCompletesEarly
<1>7. CASE RxLineError \/ RxDmaFault \/ TxDmaFault
  BY <1>1, <1>3, <1>7, RxHardwareOps DEF RxLineError, RxDmaFault, TxDmaFault
<1> QED BY <1>4, <1>5, <1>6, <1>7 DEF Interrupt, Faulty

\* Outside the two looks all work has its bell already.
LEMMA LaterStepRemembers ==
    ASSUME Remembered, ~Settling, th.pc \notin {"drain", "pop", "announce"},
           Rings(r, r'), t'.txAbortPending => t.txAbortPending \/ r'.rxWorkPending
    PROVE  Remembered'
BY DEF Remembered, Rings

\* The steps after the drain, and those outside a pass.
LaterStep ==
    \/ InitCall \/ InitCheck \/ RebaudCall \/ RebaudStop \/ RebaudApply
    \/ txLivenessAudit \/ healthCheck \/ AllGate \/ AllStop \/ AllNotify
    \/ ReclaimTest \/ ReclaimGate \/ ReclaimStop \/ ReclaimArm \/ ProceedTail
    \/ RestartGate \/ RestartStop \/ RestartArm

LEMMA LaterRings ==
    ASSUME WorkInv, LaterStep
    PROVE  Rings(r, r') /\ (t'.txAbortPending => t.txAbortPending)
<1>1. rx \in RxHardware /\ r \in RxState /\ Rings(r, r) /\ t \in TxState
  BY PrimitivesRing DEF WorkInv, IInv, RxOK, TxOK
<1>2. CASE InitCall \/ RebaudCall \/ RebaudApply \/ healthCheck \/ AllGate \/ AllNotify
           \/ ReclaimTest \/ ReclaimGate \/ ProceedTail \/ RestartGate
  BY <1>1, <1>2 DEF InitCall, RebaudCall, RebaudApply, healthCheck, AllGate, AllNotify,
                    ReclaimTest, ReclaimGate, ProceedTail, RestartGate
<1>3. CASE InitCheck
  BY <1>1, <1>3 DEF InitCheck, Rings, RxState
<1>4. CASE txLivenessAudit
  <2>1. t' = t \/ t' = Baseline \/ t' = [t EXCEPT !.txStallChecks = 0]
        \/ t' = [t EXCEPT !.txStallChecks = @ + 1]
    BY <1>4, Zenon DEF txLivenessAudit, Observe, CountStall
  <2>2. t'.txAbortPending = t.txAbortPending
    BY <1>1, <2>1 DEF Baseline, TxState
  <2> QED BY <1>1, <1>4, <2>2 DEF txLivenessAudit
<1>5. CASE RebaudStop \/ ReclaimStop \/ RestartStop
  <2>1. UNCHANGED t /\ (r' = r \/ r' = [r EXCEPT !.started = FALSE])
    BY <1>5, Zenon DEF RebaudStop, ReclaimStop, RestartStop, StopRxFails
  <2> QED BY <1>1, <2>1, PrimitivesRing
<1>6. CASE AllStop
  <2>1. \/ /\ t' = [t EXCEPT !.txBusy = FALSE, !.txAbortPending = FALSE]
           /\ r' = [voidActiveChunk(r) EXCEPT !.started = FALSE]
        \/ t' = t /\ r' = [r EXCEPT !.started = FALSE]
    BY <1>6, Zenon DEF AllStop
  <2> QED BY <1>1, <2>1, PrimitivesRing, RejectRings DEF TxState
<1>7. CASE ReclaimArm
  <2>1. UNCHANGED t
    BY <1>7 DEF ReclaimArm
  <2>2. \/ r' = r \/ r' = rejectDmaCount(r)
        \/ CountValid(rx) /\ receiveArm(publishReceived(r, rx), rx)
    BY <1>7, Zenon DEF ReclaimArm
  <2> QED BY <1>1, <2>1, <2>2, PublishRings, RejectRings DEF rejectDmaCount
<1>8. CASE RestartArm
  <2>1. UNCHANGED t /\ receiveArm(voidActiveChunk(r), RxErrorsCleared(rx))
    BY <1>8 DEF RestartArm
  <2>2. Rings(r, voidActiveChunk(r)) /\ Rings(voidActiveChunk(r), r')
    BY <1>1, <2>1, PrimitivesRing, ArmRings
  <2> QED BY <2>1, <2>2, RingsTwice
<1> QED BY <1>2, <1>3, <1>4, <1>5, <1>6, <1>7, <1>8 DEF LaterStep

LEMMA ThreadRemembers ==
    ASSUME WorkInv, Application \/ Service PROVE Remembered'
<1>1. r \in RxState /\ t \in TxState /\ th \in Thread /\ Remembered /\ Rings(r, r)
  BY PrimitivesRing DEF WorkInv, IInv, RxOK, TxOK, ThreadOK
<1>2. CASE LaterStep
  <2>1. ~Settling /\ th.pc \notin {"drain", "pop", "announce"}
    BY <1>2 DEF LaterStep, Settling, At, InitCall, InitCheck, RebaudCall, RebaudStop,
         RebaudApply, txLivenessAudit, healthCheck, AllGate, AllStop, AllNotify, ReclaimTest,
         ReclaimGate, ReclaimStop, ReclaimArm, ProceedTail, RestartGate, RestartStop, RestartArm
  <2> QED BY <1>1, <1>2, <2>1, LaterRings, LaterStepRemembers
<1>3. CASE Send
  <2>1. UNCHANGED <<r, th>> /\ t'.txAbortPending = t.txAbortPending
    BY <1>1, <1>3 DEF Send, TxState
  <2> QED BY <1>1, <2>1, SameStepRemembers
<1>4. CASE Proceed(TRUE) \/ Proceed(FALSE)
  <2>1. th'.pc = "settle"
    BY <1>1, <1>4 DEF Proceed, Thread
  <2> QED BY <2>1 DEF Remembered, Settling
<1>5. CASE Settle
  <2>1. CASE t.txAbortPending
    BY <1>1, <1>5, <2>1 DEF Settle, Remembered, Settling, Thread
  <2>2. CASE ~t.txAbortPending
    <3>1. th'.pc = "drain" /\ ~t'.txAbortPending
      BY <1>1, <1>5, <2>2 DEF Settle, Thread
    <3> QED BY <3>1 DEF Remembered
  <2> QED BY <2>1, <2>2
<1>6. CASE Reraise
  <2>1. th'.pc = "drain" /\ UNCHANGED t /\ (t.txAbortPending => r'.rxWorkPending)
    BY <1>1, <1>6 DEF Reraise, Goto, Thread, RxState
  <2> QED BY <2>1 DEF Remembered
<1>7. CASE FinishGate \/ FinishStop \/ FinishNotify
  <2>1. UNCHANGED r /\ (t'.txAbortPending => t.txAbortPending)
    BY <1>1, <1>7 DEF FinishGate, FinishStop, FinishNotify, TxState
  <2>2. CASE th.ret = "reraise"
    <3>1. Settling'
      BY <1>1, <1>7, <2>2 DEF FinishGate, FinishStop, FinishNotify, Thread, Settling
    <3> QED BY <3>1 DEF Remembered
  <2>3. CASE th.ret # "reraise"
    <3>1. ~Settling /\ th.pc \notin {"drain", "pop", "announce"}
      BY <1>7, <2>3 DEF FinishGate, FinishStop, FinishNotify, At, Settling
    <3> QED BY <1>1, <2>1, <3>1, LaterStepRemembers
  <2> QED BY <2>2, <2>3
<1>8. CASE Deliver \/ Pop
  <2>1. th.pc \in {"drain", "pop"} /\ ~Settling /\ UNCHANGED t
    BY <1>8 DEF Deliver, Pop, At, Settling
  <2>2. t'.txAbortPending => r'.rxWorkPending
    BY <1>1, <1>8, <2>1 DEF Remembered, Deliver, Pop, RxState
  <2>3. th'.pc \in {"drain", "pop"} \/ (th'.pc = "announce" /\ r'.queue = <<>>)
    <3>1. \/ Goto("drain") \/ Goto("pop")
          \/ Goto("announce") /\ r.queue = <<>> /\ UNCHANGED r
      BY <1>8, Zenon DEF Deliver, Pop
    <3>2. \A l \in {"drain", "pop", "announce"} : [th EXCEPT !.pc = l].pc = l
      BY <1>1 DEF Thread
    <3>3. ASSUME NEW l \in {"drain", "pop", "announce"}, Goto(l) PROVE th'.pc = l
      BY <3>2, <3>3 DEF Goto
    <3> QED BY <3>1, <3>3
  <2> QED BY <2>2, <2>3 DEF Remembered
<1>9. CASE announceGap
  <2>1. th.pc = "announce" /\ ~Settling /\ UNCHANGED t
    BY <1>9 DEF announceGap, At, Settling
  <2>2. r'.queue = r.queue /\ r'.rxWorkPending = r.rxWorkPending /\ ~r'.rxGapPending
    BY <1>1, <1>9 DEF announceGap, RxState
  <2> QED BY <1>1, <2>1, <2>2 DEF Remembered
<1> QED BY <1>2, <1>3, <1>4, <1>5, <1>6, <1>7, <1>8, <1>9, Zenon
        DEF Application, Service, LaterStep

\* The fast path of proceed never skips over work: whatever an interrupt or a
\* recovery leaves behind, in every window of every pass, has the doorbell up by
\* the time the thread is between two passes.
THEOREM UartNoForgottenWork == Spec => []NoForgottenWork
<1>1. Init => WorkInv
  BY InitIInv DEF Init, WorkInv, Remembered
<1>2. WorkInv /\ [Next]_vars => WorkInv'
  <2> SUFFICES ASSUME WorkInv, [Next]_vars PROVE WorkInv'
    OBVIOUS
  <2>1. IInv'
    BY NextIInv DEF WorkInv
  <2>2. CASE LineByte \/ Interrupt \/ Faulty
    BY <2>1, <2>2, HardwareRemembers DEF WorkInv
  <2>3. CASE Application \/ Service
    BY <2>1, <2>3, ThreadRemembers DEF WorkInv
  <2>4. CASE UNCHANGED vars
    BY <2>1, <2>4 DEF WorkInv, Remembered, Settling, vars
  <2> QED BY <2>2, <2>3, <2>4 DEF Next
<1>3. WorkInv => NoForgottenWork
  BY DEF WorkInv, Remembered, Settling, NoForgottenWork, At
<1> QED BY <1>1, <1>2, <1>3, PTL DEF Spec

-----------------------------------------------------------------------------
(***************************************************************************)
(* The change of speed.                                                    *)
(*                                                                         *)
(* setBaudRate refuses a frame in flight and stops the reception; nothing  *)
(* the interrupts do before HAL_UART_Init lends memory or starts again.    *)
(***************************************************************************)
Rebauding == th.pc \in {"baudStop", "baudApply"}
RebaudQuiet ==
    /\ Rebauding => ~t.txBusy
    /\ th.pc = "baudApply" => ~r.started

\* No interrupt takes a frame or restarts a reception that was stopped.
LEMMA InterruptsStartNothing ==
    ASSUME IInv, LineByte \/ Interrupt \/ Faulty
    PROVE  UNCHANGED th /\ (t'.txBusy => t.txBusy) /\ (r'.started => r.started)
<1>1. r \in RxState /\ t \in TxState
  BY DEF IInv, RxOK, TxOK
<1>2. UNCHANGED th
  BY DEF LineByte, Interrupt, Faulty, RxIdle, RxComplete, TxMove, TxFreeChannel, TxDrain,
         TxComplete, RxIdleAbortFails, RxCorruptCount, RxEventWhileRunning, RxLineError,
         RxDmaFault, TxDmaFault, RxDies, TxStalls, TxCompletionIsLost, TxCompletesEarly
<1>3. CASE UNCHANGED <<r, t>>
  BY <1>2, <1>3
<1>4. CASE \E h : isrRxEvent(h) /\ UNCHANGED t
  <2>1. r.started \/ r' = r
    BY <1>4, Zenon DEF isrRxEvent
  <2> QED BY <1>2, <1>4, <2>1
<1>5. CASE \E g : isrTxCplt(g)
  BY <1>1, <1>2, <1>5 DEF isrTxCplt, deferTxAbort, RxState, TxState
<1>6. CASE \E h, g : isrError(h, g)
  <2>1. PICK h, g : isrError(h, g)
    BY <1>6
  <2>2. RxOK(ErrorRx(h)) /\ (ErrorRx(h).started => r.started)
    <3>1. RxOK(r) /\ voidActiveChunk(r) \in RxState
      BY voidActiveChunkOK DEF IInv, RxOK
    <3>2. RxOK(ErrorRx(h))
      BY <3>1, ErrorRxOK
    <3> QED BY <1>1, <3>1, <3>2 DEF ErrorRx, RxState
  <2>3. \/ (r' = r \/ r' = ErrorRx(h)) /\ (UNCHANGED t \/ t' = [t EXCEPT !.txBusy = FALSE])
        \/ deferTxAbort(ErrorRx(h))
    BY <2>1, Zenon DEF isrError
  <2> QED BY <1>1, <1>2, <2>2, <2>3 DEF deferTxAbort, RxOK, RxState, TxState
<1>7. CASE LineByte \/ TxMove \/ TxFreeChannel \/ TxDrain \/ RxDies \/ TxStalls
           \/ TxCompletionIsLost
  BY <1>3, <1>7 DEF LineByte, TxMove, TxFreeChannel, TxDrain, RxDies, TxStalls,
                    TxCompletionIsLost
<1>8. CASE RxIdle \/ RxComplete \/ RxIdleAbortFails \/ RxCorruptCount \/ RxEventWhileRunning
  BY <1>4, <1>8 DEF RxIdle, RxComplete, RxIdleAbortFails, RxCorruptCount, RxEventWhileRunning
<1>9. CASE TxComplete \/ TxCompletesEarly
  BY <1>5, <1>9 DEF TxComplete, TxCompletesEarly
<1>10. CASE RxLineError \/ RxDmaFault \/ TxDmaFault
  BY <1>6, <1>10 DEF RxLineError, RxDmaFault, TxDmaFault
<1> QED BY <1>7, <1>8, <1>9, <1>10 DEF Interrupt, Faulty

\* Only RebaudCall and RebaudStop lead to a change of speed.
LEMMA ThreadStaysQuiet ==
    ASSUME IInv, RebaudQuiet, Application \/ Service PROVE RebaudQuiet'
<1>1. /\ th \in Thread /\ r \in RxState /\ t \in TxState
      /\ th.ret \notin {"baudStop", "baudApply"}
  BY DEF IInv, ThreadOK, RxOK, TxOK, Thread, Returns
<1>2. ASSUME th'.pc \notin {"baudStop", "baudApply"} PROVE RebaudQuiet'
  BY <1>2 DEF RebaudQuiet, Rebauding
<1>3. CASE Send
  <2>1. th'.pc \notin {"baudStop", "baudApply"}
    BY <1>3 DEF Send
  <2> QED BY <1>2, <2>1
<1>4. CASE RebaudCall
  <2>1. th'.pc = "baudStop" /\ UNCHANGED t /\ ~t.txBusy
    BY <1>1, <1>4 DEF RebaudCall, Thread
  <2> QED BY <2>1 DEF RebaudQuiet, Rebauding
<1>5. CASE RebaudStop
  <2>1. UNCHANGED t /\ ~t.txBusy
    BY <1>5 DEF RebaudStop, RebaudQuiet, Rebauding, At
  <2>2. r' = [r EXCEPT !.started = FALSE]
    BY <1>5, Zenon DEF RebaudStop, StopRxFails
  <2> QED BY <1>1, <2>1, <2>2 DEF RebaudQuiet, Rebauding, RxState
<1>6. CASE \E l \in Steps \ {"baudStop", "baudApply"} : Goto(l)
  BY <1>1, <1>2, <1>6 DEF Goto, Thread
<1>7. CASE PassStep
  <2>1. CASE Settle \/ FinishGate \/ FinishNotify
    BY <1>1, <1>2, <2>1 DEF Settle, FinishGate, FinishNotify, Thread
  <2>2. CASE FinishStop
    BY <1>1, <1>2, <2>2 DEF FinishStop, Thread
  <2>3. CASE healthCheck \/ AllGate \/ AllNotify \/ ReclaimGate \/ ProceedTail
    BY <1>1, <1>2, <2>3 DEF healthCheck, AllGate, AllNotify, ReclaimGate, ProceedTail, Thread
  <2>4. CASE txLivenessAudit
    <3>1. Goto("health") \/ FinishTx(TRUE) \/ FinishTx(FALSE)
      BY <2>4, Zenon DEF txLivenessAudit, Observe, CountStall
    <3> QED BY <1>1, <1>2, <3>1 DEF Goto, FinishTx, Thread
  <2>5. CASE Reraise \/ Deliver \/ Pop \/ announceGap \/ ReclaimTest
    BY <1>6, <2>5, Names DEF Reraise, Deliver, Pop, announceGap, ReclaimTest
  <2> QED BY <1>7, <2>1, <2>2, <2>3, <2>4, <2>5 DEF PassStep
<1>8. CASE InitCall \/ Proceed(TRUE) \/ Proceed(FALSE)
  BY <1>1, <1>2, <1>8 DEF InitCall, Proceed, Thread
<1>9. CASE InitCheck \/ RebaudApply \/ AllStop \/ RestartGate
  BY <1>1, <1>2, <1>9 DEF InitCheck, RebaudApply, AllStop, RestartGate, Thread
<1>10. CASE ReclaimStop \/ RestartStop
  <2>1. \/ th' = [th EXCEPT !.pc = "reclaimArm", !.rxTeardown = FALSE]
        \/ th' = [th EXCEPT !.pc = "rsArm", !.rxTeardown = FALSE]
        \/ th' = [th EXCEPT !.pc = "tail", !.rxTeardown = FALSE]
        \/ th' = [th EXCEPT !.pc = th.ret, !.rxTeardown = FALSE]
    BY <1>10, Zenon DEF ReclaimStop, RestartStop, StopRxFails
  <2> QED BY <1>1, <1>2, <2>1 DEF Thread
<1>11. CASE ReclaimArm \/ RestartArm
  <2>1. Goto("tail") \/ Goto(th.ret)
    BY <1>11 DEF ReclaimArm, RestartArm
  <2> QED BY <1>1, <1>2, <2>1 DEF Goto, Thread
<1> QED BY <1>3, <1>4, <1>5, <1>7, <1>8, <1>9, <1>10, <1>11, Zenon
        DEF Application, Service, PassStep

\* HAL_UART_Init of a change of speed finds both channels at rest, no frame lent
\* and no reception an interrupt could re-arm, whatever struck in between.
THEOREM UartBaudChangeIsQuiet ==
    ASSUME "init" \notin Races PROVE Spec => []BaudChangeIsQuiet
<1>1. Init => RebaudQuiet
  BY DEF Init, RebaudQuiet, Rebauding
<1>2. IInv /\ RebaudQuiet /\ [Next]_vars => RebaudQuiet'
  <2> SUFFICES ASSUME IInv, RebaudQuiet, [Next]_vars PROVE RebaudQuiet'
    OBVIOUS
  <2>1. CASE LineByte \/ Interrupt \/ Faulty
    BY <2>1, InterruptsStartNothing DEF RebaudQuiet, Rebauding
  <2>2. CASE Application \/ Service
    BY <2>2, ThreadStaysQuiet
  <2>3. CASE UNCHANGED vars
    BY <2>3 DEF RebaudQuiet, Rebauding, vars
  <2> QED BY <2>1, <2>2, <2>3 DEF Next
<1>3. DmaInv /\ RebaudQuiet => BaudChangeIsQuiet
  BY DEF DmaInv, IInv, TxOK, Parked, AtRest, RebaudQuiet, Rebauding, BaudChangeIsQuiet, At
<1> QED BY <1>1, <1>2, <1>3, Inductive, DmaInductive, PTL DEF Spec

-----------------------------------------------------------------------------
(***************************************************************************)
(* finishTx: the failure an interrupt has latched.                         *)
(***************************************************************************)
\* Once the gate is up the sample can no longer become stale.
Outranked ==
    At("finStop") => th.txTeardown /\ (t.txAbortPending => ~th.outcome)

\* The gate shuts the transmit half of the interrupts out.
LEMMA GateHolds ==
    ASSUME th.txTeardown, LineByte \/ Interrupt \/ Faulty
    PROVE  UNCHANGED t
<1>1. ASSUME NEW g, isrTxCplt(g) PROVE UNCHANGED t
  BY <1>1 DEF isrTxCplt
<1>2. ASSUME NEW h, NEW g, isrError(h, g) PROVE UNCHANGED t
  BY <1>2 DEF isrError, ErrorEndsTx
<1> QED BY <1>1, <1>2
        DEF LineByte, Interrupt, Faulty, RxIdle, RxComplete, TxMove, TxFreeChannel, TxDrain,
            TxComplete, RxIdleAbortFails, RxCorruptCount, RxEventWhileRunning, RxLineError,
            RxDmaFault, TxDmaFault, RxDies, TxStalls, TxCompletionIsLost, TxCompletesEarly

\* No way into the abort leads round the gate.
LEMMA OnlyTheGateLeadsToTheAbort ==
    ASSUME th \in Thread, Application \/ Service, th'.pc = "finStop", th.pc # "finStop"
    PROVE  FinishGate
<1>1. th.ret # "finStop"
  BY DEF Thread, Returns
<1>2. ASSUME NEW l, Goto(l), l # "finStop" PROVE FALSE
  BY <1>2 DEF Goto, Thread
<1>3. ~(Reraise \/ Deliver \/ Pop \/ announceGap \/ ReclaimTest)
  BY <1>2, Zenon DEF Reraise, Deliver, Pop, announceGap, ReclaimTest
<1>4. ~(ReclaimArm \/ RestartArm)
  BY <1>1, <1>2, Zenon DEF ReclaimArm, RestartArm
<1>5. ~txLivenessAudit
  <2>1. txLivenessAudit => Goto("health") \/ FinishTx(TRUE) \/ FinishTx(FALSE)
    BY Zenon DEF txLivenessAudit, Observe, CountStall
  <2> QED BY <1>2, <2>1 DEF FinishTx, Thread
<1>6. ~(Settle \/ FinishNotify \/ healthCheck \/ AllGate \/ AllStop \/ AllNotify \/ ReclaimGate)
  BY <1>1 DEF Settle, FinishNotify, healthCheck, AllGate, AllStop, AllNotify, ReclaimGate, Thread
<1>7. ~(ProceedTail \/ RestartGate \/ InitCheck \/ RebaudApply \/ FinishStop)
  BY DEF ProceedTail, RestartGate, InitCheck, RebaudApply, FinishStop, Thread
<1>8. ~(RebaudStop \/ ReclaimStop \/ RestartStop)
  <2>1. RebaudStop \/ ReclaimStop \/ RestartStop =>
            \E l \in {"baudApply", "idle", "reclaimArm", "tail", "rsArm", th.ret} :
               th' = [th EXCEPT !.pc = l, !.rxTeardown = FALSE]
    BY Zenon DEF RebaudStop, ReclaimStop, RestartStop, StopRxFails
  <2> QED BY <1>1, <2>1 DEF Thread
<1>9. ~(InitCall \/ Send \/ RebaudCall \/ Proceed(TRUE) \/ Proceed(FALSE))
  <2>1. ~(InitCall \/ Send \/ RebaudCall)
    BY DEF InitCall, Send, RebaudCall, Thread
  <2>2. ASSUME NEW due, Proceed(due) PROVE FALSE
    BY <2>2 DEF Proceed, Thread
  <2> QED BY <2>1, <2>2, Zenon
<1> QED BY <1>3, <1>4, <1>5, <1>6, <1>7, <1>8, <1>9, Zenon DEF Application, Service

\* A failure latched by an interrupt outranks the watchdog's sample in every
\* order of the two.
THEOREM UartLatchedFailureWins == Spec => LatchedFailureWins
<1>1. Init => Outranked
  BY DEF Init, Outranked, At
<1>2. IInv /\ Outranked /\ [Next]_vars => Outranked'
  <2> SUFFICES ASSUME IInv, Outranked, [Next]_vars PROVE Outranked'
    OBVIOUS
  <2>1. CASE LineByte \/ Interrupt \/ Faulty
    <3>1. UNCHANGED th
      BY <2>1, InterruptsStartNothing
    <3>2. At("finStop") => UNCHANGED t
      BY <2>1, GateHolds DEF Outranked
    <3> QED BY <3>1, <3>2 DEF Outranked, At
  <2>2. CASE Application \/ Service
    <3>1. th \in Thread
      BY DEF IInv, ThreadOK
    <3>2. CASE FinishGate
      BY <3>1, <3>2 DEF FinishGate, Outranked, Thread
    <3>3. CASE th.pc = "finStop"
      <4>1. FinishStop
        BY <2>2, <3>3 DEF Application, Service, At, InitCall, Send, RebaudCall, Proceed,
             InitCheck, RebaudStop, RebaudApply, Settle, Reraise, Deliver, Pop, announceGap,
             txLivenessAudit, FinishGate, FinishNotify, healthCheck, AllGate, AllStop,
             AllNotify, ReclaimTest, ReclaimGate, ReclaimStop, ReclaimArm, ProceedTail,
             RestartGate, RestartStop, RestartArm
      <4>2. th'.pc = "finNotify"
        BY <3>1, <4>1 DEF FinishStop, Thread
      <4> QED BY <4>2 DEF Outranked, At
    <3>4. CASE th.pc # "finStop" /\ ~FinishGate
      BY <2>2, <3>1, <3>4, OnlyTheGateLeadsToTheAbort DEF Outranked, At
    <3> QED BY <3>2, <3>3, <3>4
  <2>3. CASE UNCHANGED vars
    BY <2>3 DEF Outranked, At, vars
  <2> QED BY <2>1, <2>2, <2>3 DEF Next
<1>3. Outranked => [At("finStop") /\ t.txAbortPending /\ ~t'.txAbortPending => ~th.outcome]_vars
  BY DEF Outranked
<1> QED BY <1>1, <1>2, <1>3, Inductive, PTL DEF Spec, LatchedFailureWins

-----------------------------------------------------------------------------
(***************************************************************************)
(* The loan of a frame.                                                    *)
(*                                                                         *)
(* A frame is owed a verdict from its acceptance on: while txBusy holds it *)
(* in the driver, and then while the thread carries the verdict from the   *)
(* step that released the frame to the step that tells the application.    *)
(***************************************************************************)
Owing == t.txBusy \/ th.notify

\* The thread carries a verdict only between release and notification, nobody
\* else can then release the frame, and "ok" is carried only for a sent frame.
Carried ==
    /\ th.notify => th.pc \in {"allStop", "finNotify", "allNotify"}
    /\ th.notify /\ th.pc # "allStop" => ~t.txBusy
    /\ At("allStop") => th.rxTeardown /\ th.txTeardown /\ (t.txBusy => th.notify)
    /\ At("allStop") /\ th.notify => t.txBusy
    /\ th.pc \in {"finGate", "finStop", "finNotify"} /\ th.outcome => tx.tc

LoanInv == sent = (IF Owing THEN told + 1 ELSE told) /\ Carried

\* A transmit event that at most ends the reading.
Reads(h, g) == g.tc = h.tc /\ (g.live => h.live)

LEMMA TxOpsRead ==
    ASSUME NEW h \in TxHardware
    PROVE  /\ CanMoveTx(h) => Reads(h, TxMoved(h))
           /\ Reads(h, TxChannelFreed(h)) /\ Reads(h, TxCompleted(h))
           /\ Reads(h, TxCompletionLost(h)) /\ Reads(h, TxCompletedEarly(h))
           /\ Reads(h, TxFaulted(h)) /\ Reads(h, TxSiblingFaulted(h))
           /\ Reads(h, TxStopped(h)) /\ Reads(h, TxStopFailed(h))
           /\ Reads(h, [h EXCEPT !.stuck = TRUE]) /\ Reads(h, h)
           /\ ~TxStopped(h).live
<1> USE DEF TxHardware, Reads
<1>1. CanMoveTx(h) => Reads(h, TxMoved(h))
  BY DEF CanMoveTx, TxMoved
<1>2. Reads(h, TxChannelFreed(h)) /\ Reads(h, TxCompleted(h)) /\ Reads(h, TxCompletionLost(h))
  BY DEF TxChannelFreed, TxCompleted, TxCompletionLost
<1>3. Reads(h, TxCompletedEarly(h)) /\ Reads(h, TxFaulted(h)) /\ Reads(h, TxSiblingFaulted(h))
  BY DEF TxCompletedEarly, TxFaulted, TxSiblingFaulted
<1>4. Reads(h, TxStopped(h)) /\ Reads(h, TxStopFailed(h)) /\ ~TxStopped(h).live
  BY DEF TxStopped, TxStopFailed
<1>5. Reads(h, [h EXCEPT !.stuck = TRUE]) /\ Reads(h, h)
  OBVIOUS
<1> QED BY <1>1, <1>2, <1>3, <1>4, <1>5

\* A step that settles nothing: the frame stays owed or not owed, and the
\* transmitter reads on, stops reading, or, at rest, empties its register.
Unsettled ==
    /\ UNCHANGED loan /\ Owing' = Owing
    /\ Reads(tx, tx') \/ (~tx.live /\ ~tx'.live /\ tx'.tc)

\* A step that gives the verdict on the frame.
Settled(ok) ==
    /\ Owing /\ ~Owing' /\ Tell(ok)
    /\ Reads(tx, tx') /\ ~tx'.live
    /\ ok => tx.tc

LEMMA UnsettledRefines ==
    ASSUME IInv, LoanInv, TxOK(tx', t'), Unsettled
    PROVE  [Loan!Next]_(Loan!vars) /\ sent' = (IF Owing' THEN told' + 1 ELSE told')
<1>1. UNCHANGED <<sent, told, verdict>> /\ Owing' = Owing
  BY DEF Unsettled, loan
<1>2. sent' = (IF Owing' THEN told' + 1 ELSE told')
  BY <1>1 DEF LoanInv
<1>3. tx.live \in BOOLEAN /\ tx.tc \in BOOLEAN /\ tx'.live \in BOOLEAN /\ tx'.tc \in BOOLEAN
  BY DEF IInv, TxOK, TxHardware
<1>4. CASE UNCHANGED <<tx.live, tx.tc>>
  BY <1>1, <1>2, <1>4 DEF Loan!vars
<1>5. CASE tx.live /\ ~tx'.live /\ tx'.tc = tx.tc
  <2>1. Loan!Progress
    BY <1>1, <1>3, <1>5 DEF Loan!Progress
  <2> QED BY <1>2, <2>1 DEF Loan!Next
<1>6. CASE ~tx.live /\ ~tx'.live /\ tx'.tc
  <2>1. Loan!Progress
    BY <1>1, <1>3, <1>6 DEF Loan!Progress
  <2> QED BY <1>2, <2>1 DEF Loan!Next
<1> QED BY <1>3, <1>4, <1>5, <1>6 DEF Unsettled, Reads

LEMMA SettledRefines ==
    ASSUME IInv, LoanInv, NEW ok \in BOOLEAN, Settled(ok)
    PROVE  [Loan!Next]_(Loan!vars) /\ sent' = (IF Owing' THEN told' + 1 ELSE told')
<1>1. /\ told' = told + 1 /\ verdict' = (IF ok THEN "ok" ELSE "failed") /\ sent' = sent
      /\ sent = told + 1 /\ ~Owing'
  BY DEF Settled, Tell, LoanInv
<1>2. sent \in Nat /\ told \in Nat /\ tx'.live = FALSE /\ tx'.tc = tx.tc
  BY DEF IInv, LoanOK, Settled, Reads
<1>3. Loan!Settle(ok)
  BY <1>1, <1>2 DEF Loan!Settle, Settled
<1>4. Loan!Settle(TRUE) \/ Loan!Settle(FALSE)
  BY <1>3
<1> QED BY <1>1, <1>4 DEF Loan!Next

\* What the hardware does settles the frame only outside the teardown gate, when
\* its channel has stopped, and says "ok" only when the tail is on the wire.
LEMMA CompletionSettles ==
    ASSUME IInv, LoanInv, NEW g, Reads(tx, g), g.dma = "READY" => ~g.live,
           g.dma = "READY" /\ ~g.err => g.tc, isrTxCplt(g), UNCHANGED th
    PROVE  Unsettled \/ \E ok \in BOOLEAN : Settled(ok)
<1>1. t \in TxState /\ tx' = g
  BY DEF IInv, TxOK, isrTxCplt
<1>2. CASE UNCHANGED loan /\ (t' = t \/ t' = [t EXCEPT !.txAbortPending = TRUE])
  BY <1>1, <1>2 DEF Unsettled, Owing, TxState
<1>3. CASE /\ t.txBusy /\ ~th.txTeardown /\ g.dma = "READY"
           /\ t' = [t EXCEPT !.txBusy = FALSE] /\ Tell(~g.err)
  <2>1. ~th.notify
    BY <1>3 DEF LoanInv, Carried, At
  <2>2. Owing /\ ~Owing'
    BY <1>1, <1>3, <2>1 DEF Owing, TxState
  <2>3. ~g.err => tx.tc
    BY <1>3 DEF Reads
  <2>4. (~g.err) \in BOOLEAN
    BY Zenon
  <2>5. Settled(~g.err)
    BY <1>1, <1>3, <2>2, <2>3 DEF Settled
  <2> QED BY <2>4, <2>5
<1> QED BY <1>2, <1>3 DEF isrTxCplt, deferTxAbort

LEMMA ErrorSettles ==
    ASSUME IInv, LoanInv, NEW h, NEW g, Reads(tx, g), g.dma = "READY" => ~g.live,
           isrError(h, g), UNCHANGED th
    PROVE  Unsettled \/ \E ok \in BOOLEAN : Settled(ok)
<1>1. t \in TxState /\ tx' = g
  BY DEF IInv, TxOK, isrError
<1>2. CASE UNCHANGED loan /\ (t' = t \/ t' = [t EXCEPT !.txAbortPending = TRUE])
  BY <1>1, <1>2 DEF Unsettled, Owing, TxState
<1>3. CASE /\ ErrorEndsTx(g) /\ g.dma = "READY"
           /\ t' = [t EXCEPT !.txBusy = FALSE] /\ Tell(FALSE)
  <2>1. ~th.notify /\ t.txBusy
    BY <1>3 DEF LoanInv, Carried, At, ErrorEndsTx
  <2>2. Owing /\ ~Owing'
    BY <1>1, <1>3, <2>1 DEF Owing, TxState
  <2>3. Settled(FALSE)
    BY <1>1, <1>3, <2>2 DEF Settled
  <2> QED BY <2>3
<1> QED BY <1>2, <1>3 DEF isrError, deferTxAbort

LEMMA HardwareSettles ==
    ASSUME IInv, LoanInv, LineByte \/ Interrupt \/ Faulty
    PROVE  Unsettled \/ \E ok \in BOOLEAN : Settled(ok)
<1>1. UNCHANGED th
  BY InterruptsStartNothing
<1>2. /\ tx \in TxHardware /\ t \in TxState /\ (tx.dma = "READY" => ~tx.live)
  BY DEF IInv, TxOK
<1>3. ASSUME UNCHANGED <<t, loan>>, Reads(tx, tx') PROVE Unsettled
  BY <1>1, <1>3 DEF Unsettled, Owing
<1>4. CASE LineByte \/ RxDies
  BY <1>2, <1>3, <1>4, TxOpsRead DEF LineByte, RxDies
<1>5. CASE RxIdle \/ RxComplete \/ RxIdleAbortFails \/ RxCorruptCount \/ RxEventWhileRunning
  BY <1>2, <1>3, <1>5, TxOpsRead
     DEF RxIdle, RxComplete, RxIdleAbortFails, RxCorruptCount, RxEventWhileRunning
<1>6. CASE TxMove \/ TxFreeChannel
  BY <1>2, <1>3, <1>6, TxOpsRead DEF TxMove, TxFreeChannel
<1>7. CASE TxStalls \/ TxCompletionIsLost
  BY <1>2, <1>3, <1>7, TxOpsRead DEF TxStalls, TxCompletionIsLost
<1>8. CASE TxDrain
  BY <1>1, <1>2, <1>8 DEF TxDrain, CanDrain, Fed, TxDrained, TxHardware, Unsettled, Owing
<1>9. CASE TxComplete
  <2>1. Reads(tx, TxCompleted(tx))
    BY <1>2, TxOpsRead
  <2>2. ~TxCompleted(tx).live /\ TxCompleted(tx).tc
    BY <1>2, <1>9 DEF TxComplete, CanComplete, Fed, TxCompleted, TxHardware
  <2> QED BY <1>1, <1>9, <2>1, <2>2, CompletionSettles DEF TxComplete
<1>10. CASE TxCompletesEarly
  <2>1. Reads(tx, TxCompletedEarly(tx))
    BY <1>2, TxOpsRead
  <2>2. TxCompletedEarly(tx).dma # "READY"
    BY <1>2, <1>10 DEF TxCompletesEarly, TxCompletedEarly, TxHardware
  <2> QED BY <1>1, <1>10, <2>1, <2>2, CompletionSettles DEF TxCompletesEarly
<1>11. CASE RxLineError \/ RxDmaFault \/ TxDmaFault
  <2>1. \E h, g : isrError(h, g) /\ Reads(tx, g) /\ (g.dma = "READY" => ~g.live)
    <3>1. Calmer(tx, TxSiblingFaulted(tx)) /\ Calmer(tx, TxFaulted(tx))
      BY <1>2, TxHardwareOps
    <3> QED BY <1>2, <1>11, <3>1, TxOpsRead DEF RxLineError, RxDmaFault, TxDmaFault, Calmer
  <2> QED BY <1>1, <2>1, ErrorSettles
<1> QED BY <1>4, <1>5, <1>6, <1>7, <1>8, <1>9, <1>10, <1>11 DEF Interrupt, Faulty

\* What the thread carries survives the interrupts: the gate keeps the frame
\* where it is, a released one is not taken again, and TC stays up.
LEMMA HardwareCarries ==
    ASSUME IInv, LoanInv, LineByte \/ Interrupt \/ Faulty PROVE Carried'
<1>1. UNCHANGED th /\ (t'.txBusy => t.txBusy)
  BY InterruptsStartNothing
<1>2. At("allStop") => UNCHANGED t
  BY GateHolds DEF LoanInv, Carried
<1>3. tx.tc => tx'.tc
  BY HardwareSettles DEF Unsettled, Settled, Reads
<1> QED BY <1>1, <1>2, <1>3 DEF LoanInv, Carried, At

\* A step of the thread that has no part in a verdict.
LEMMA ThreadKeepsLoan ==
    ASSUME LoanInv, tx \in TxHardware, UNCHANGED <<tx, loan>>, t'.txBusy = t.txBusy,
           ~th.notify, ~th'.notify,
           th'.pc \notin {"allStop", "finGate", "finStop", "finNotify"}
    PROVE  Unsettled /\ Carried'
BY DEF LoanInv, Unsettled, Owing, Carried, At, Reads

\* The steps that have none.
Uninvolved ==
    \/ InitCall \/ RebaudCall \/ (\E due \in BOOLEAN : Proceed(due))
    \/ InitCheck \/ RebaudStop \/ RebaudApply \/ Reraise \/ Deliver \/ Pop \/ announceGap
    \/ ReclaimTest \/ ReclaimGate \/ ReclaimStop \/ ReclaimArm \/ ProceedTail
    \/ RestartGate \/ RestartStop \/ RestartArm

LEMMA UninvolvedStep ==
    ASSUME IInv, LoanInv, Uninvolved PROVE Unsettled /\ Carried'
<1>1. tx \in TxHardware /\ th \in Thread
  BY DEF IInv, TxOK, ThreadOK
<1>2. th.pc \notin {"allStop", "finNotify", "allNotify"}
  BY DEF Uninvolved, InitCall, RebaudCall, Proceed, InitCheck, RebaudStop, RebaudApply,
         Reraise, Deliver, Pop, announceGap, ReclaimTest, ReclaimGate, ReclaimStop,
         ReclaimArm, ProceedTail, RestartGate, RestartStop, RestartArm, At
<1>3. ~th.notify
  BY <1>2 DEF LoanInv, Carried
<1>4. UNCHANGED <<tx, t, loan>>
  BY DEF Uninvolved, InitCall, RebaudCall, Proceed, InitCheck, RebaudStop, RebaudApply,
         Reraise, Deliver, Pop, announceGap, ReclaimTest, ReclaimGate, ReclaimStop,
         ReclaimArm, ProceedTail, RestartGate, RestartStop, RestartArm, Quiet, NoVerdict,
         hardware, loan
<1>5. th'.notify = th.notify /\ th'.pc \notin {"allStop", "finGate", "finStop", "finNotify"}
  <2>1. th.ret \notin {"allStop", "finGate", "finStop", "finNotify"}
    BY <1>1 DEF Thread, Returns
  <2> DEFINE Calm == Steps \ {"allStop", "finGate", "finStop", "finNotify"}
  <2>2. ASSUME \E l \in Calm :
                   \/ Goto(l)
                   \/ th' = [th EXCEPT !.pc = l, !.rxTeardown = FALSE]
                   \/ th' = [th EXCEPT !.pc = l, !.rxTeardown = TRUE]
        PROVE  th'.notify = th.notify
               /\ th'.pc \notin {"allStop", "finGate", "finStop", "finNotify"}
    BY <1>1, <2>2 DEF Goto, Thread
  <2>3. th.ret \in Calm
    BY <1>1, <2>1 DEF Thread, Steps
  <2>4. CASE InitCall \/ InitCheck \/ RebaudApply \/ ProceedTail \/ \E due \in BOOLEAN : Proceed(due)
    BY <1>1, <2>4 DEF InitCall, InitCheck, RebaudApply, ProceedTail, Proceed, Thread
  <2>5. CASE RebaudCall \/ ReclaimGate \/ RestartGate
    BY <1>1, <2>5 DEF RebaudCall, ReclaimGate, RestartGate, Thread
  <2>6. CASE Reraise \/ Deliver \/ Pop \/ announceGap \/ ReclaimTest
    BY <2>2, <2>6, Names DEF Reraise, Deliver, Pop, announceGap, ReclaimTest
  <2>7. CASE ReclaimArm \/ RestartArm
    BY <2>2, <2>3, <2>7, Names DEF ReclaimArm, RestartArm
  <2>8. CASE RebaudStop \/ ReclaimStop \/ RestartStop
    <3>1. \E l \in {"baudApply", "idle", "reclaimArm", "tail", "rsArm", th.ret} :
              th' = [th EXCEPT !.pc = l, !.rxTeardown = FALSE]
      BY <2>8, Zenon DEF RebaudStop, ReclaimStop, RestartStop, StopRxFails
    <3> QED BY <2>2, <2>3, <3>1, Names
  <2> QED BY <2>4, <2>5, <2>6, <2>7, <2>8 DEF Uninvolved
<1> QED BY <1>1, <1>3, <1>4, <1>5, ThreadKeepsLoan

\* The watchdog: it samples, it gates, it stops, it tells.
LEMMA SettleStep ==
    ASSUME IInv, LoanInv, Settle \/ healthCheck \/ AllGate \/ FinishGate \/ txLivenessAudit
    PROVE  Unsettled /\ Carried'
<1>1. tx \in TxHardware /\ th \in Thread /\ t \in TxState
  BY DEF IInv, TxOK, ThreadOK
<1>2. ~th.notify /\ UNCHANGED <<tx, loan>> /\ t'.txBusy = t.txBusy
  <2>1. ~th.notify
    BY DEF LoanInv, Carried, At, Settle, healthCheck, AllGate, FinishGate, txLivenessAudit
  <2>2. UNCHANGED <<tx, loan>>
    BY DEF Settle, healthCheck, AllGate, FinishGate, txLivenessAudit, Quiet, NoVerdict, loan
  <2>3. t'.txBusy = t.txBusy
    <3>1. txLivenessAudit => t' = t \/ t' = Baseline \/ t' = [t EXCEPT !.txStallChecks = 0]
                                \/ t' = [t EXCEPT !.txStallChecks = @ + 1]
      BY Zenon DEF txLivenessAudit, Observe, CountStall
    <3> QED BY <1>1, <3>1 DEF Settle, healthCheck, AllGate, FinishGate, Baseline, TxState
  <2> QED BY <2>1, <2>2, <2>3
<1>3. CASE Settle
  BY <1>1, <1>2, <1>3 DEF Settle, Thread, Unsettled, Owing, Carried, At, Reads, Goto
<1>4. CASE healthCheck
  <2>1. ~th'.notify /\ th'.pc \in {"reclaim", "allGate"}
    BY <1>1, <1>2, <1>4 DEF healthCheck, Thread
  <2> QED BY <1>1, <1>2, <2>1, ThreadKeepsLoan
<1>5. CASE AllGate
  BY <1>1, <1>2, <1>5 DEF AllGate, Thread, Unsettled, Owing, Carried, At, Reads, TxState
<1>6. CASE FinishGate
  <2>1. th'.outcome => th.outcome
    BY <1>1, <1>6, Zenon DEF FinishGate, Thread
  <2>2. th'.pc = "finStop" /\ ~th'.notify /\ th.pc = "finGate"
    BY <1>1, <1>2, <1>6 DEF FinishGate, Thread, At
  <2> QED BY <1>2, <2>1, <2>2 DEF LoanInv, Unsettled, Owing, Carried, At, Reads
<1>7. CASE txLivenessAudit
  <2>1. Goto("health") \/ (FinishTx(TRUE) /\ tx.tc) \/ FinishTx(FALSE)
    BY <1>7, Zenon DEF txLivenessAudit, Observe, CountStall
  <2>2. /\ ~th'.notify /\ th'.pc \in {"health", "finGate"}
        /\ th'.pc = "finGate" /\ th'.outcome => tx.tc
    BY <1>1, <1>2, <2>1 DEF Goto, FinishTx, Thread
  <2> QED BY <1>2, <2>2 DEF LoanInv, Unsettled, Owing, Carried, At, Reads
<1> QED BY <1>3, <1>4, <1>5, <1>6, <1>7

LEMMA StopStep ==
    ASSUME IInv, LoanInv, FinishStop \/ AllStop PROVE Unsettled /\ Carried'
<1>1. tx \in TxHardware /\ th \in Thread /\ t \in TxState /\ t.txBusy \in BOOLEAN
      /\ Reads(tx, TxStopped(tx)) /\ Reads(tx, TxStopFailed(tx)) /\ Reads(tx, tx)
  BY TxOpsRead DEF IInv, TxOK, ThreadOK, TxState
<1>2. UNCHANGED loan
  BY DEF FinishStop, AllStop, Quiet, NoVerdict, loan
<1>3. CASE FinishStop
  <2>1. ~th.notify /\ th.pc = "finStop"
    BY <1>3 DEF FinishStop, LoanInv, Carried, At
  <2>2. CASE /\ tx' = TxStopped(tx)
             /\ t' = IF t.txBusy THEN [t EXCEPT !.txBusy = FALSE, !.txAbortPending = FALSE,
                                                !.txProgressValid = FALSE]
                     ELSE t
             /\ th' = [th EXCEPT !.pc = "finNotify", !.txTeardown = FALSE,
                                 !.notify = t.txBusy]
    <3>1. ~t'.txBusy /\ th'.notify = t.txBusy /\ th'.pc = "finNotify"
          /\ th'.outcome = th.outcome /\ th.notify = FALSE
      BY <1>1, <2>1, <2>2 DEF Thread, TxState
    <3> QED BY <1>1, <1>2, <2>1, <2>2, <3>1 DEF LoanInv, Unsettled, Owing, Carried, At, Reads
  <2>3. CASE /\ tx' = TxStopFailed(tx) /\ t' = t
             /\ th' = [th EXCEPT !.pc = "finNotify", !.txTeardown = FALSE]
    <3>1. ~th'.notify /\ th'.pc = "finNotify" /\ th'.outcome = th.outcome
      BY <1>1, <2>1, <2>3 DEF Thread
    <3> QED BY <1>1, <1>2, <2>1, <2>3, <3>1 DEF LoanInv, Unsettled, Owing, Carried, At, Reads
  <2> QED BY <1>3, <2>2, <2>3 DEF FinishStop
<1>4. CASE AllStop
  <2>1. th.pc = "allStop" /\ (t.txBusy <=> th.notify)
    BY <1>4 DEF AllStop, LoanInv, Carried, At
  <2>2. CASE /\ tx' = TxStopped(tx)
             /\ t' = [t EXCEPT !.txBusy = FALSE, !.txAbortPending = FALSE]
             /\ th' = [th EXCEPT !.pc = "allNotify", !.rxTeardown = FALSE,
                                 !.txTeardown = FALSE]
    <3>1. ~t'.txBusy /\ th'.notify = th.notify /\ th'.pc = "allNotify"
      BY <1>1, <2>2 DEF Thread, TxState
    <3> QED BY <1>1, <1>2, <2>1, <2>2, <3>1 DEF Unsettled, Owing, Carried, At
  <2>3. CASE /\ tx' = TxStopFailed(tx) \/ tx' = TxStopped(tx)  \/ tx' = tx
             /\ t' = t
             /\ th' = [th EXCEPT !.pc = "reclaim", !.rxTeardown = FALSE,
                                 !.txTeardown = FALSE, !.notify = FALSE]
    <3>1. ~th'.notify /\ th'.pc = "reclaim"
      BY <1>1, <2>3 DEF Thread
    <3> QED BY <1>1, <1>2, <2>1, <2>3, <3>1 DEF Unsettled, Owing, Carried, At
  <2> QED BY <1>4, <2>2, <2>3 DEF AllStop
<1> QED BY <1>3, <1>4

LEMMA TellStep ==
    ASSUME IInv, LoanInv, FinishNotify \/ AllNotify
    PROVE  (Unsettled \/ \E ok \in BOOLEAN : Settled(ok)) /\ Carried'
<1>1. tx \in TxHardware /\ th \in Thread /\ t \in TxState /\ Reads(tx, tx)
      /\ (tx.live => t.txBusy)
  BY DEF IInv, TxOK, ThreadOK, Reads
<1>2. UNCHANGED <<tx, t>> /\ ~th'.notify /\ th.pc \in {"finNotify", "allNotify"}
  BY <1>1 DEF FinishNotify, AllNotify, hardware, Thread, At
<1>3. th'.pc \notin {"allStop", "finGate", "finStop", "finNotify"}
  BY <1>1 DEF FinishNotify, AllNotify, Thread, Returns
<1>4. Carried'
  BY <1>2, <1>3 DEF Carried, At
<1>5. CASE ~th.notify
  <2>1. UNCHANGED loan
    BY <1>5 DEF FinishNotify, AllNotify
  <2> QED BY <1>1, <1>2, <1>4, <1>5, <2>1 DEF Unsettled, Owing
<1>6. CASE th.notify
  <2>1. ~t.txBusy
    BY <1>2, <1>6 DEF LoanInv, Carried
  <2>2. \E ok \in BOOLEAN : Tell(ok) /\ (ok => tx.tc)
    <3>1. CASE FinishNotify
      <4>1. Tell(th.outcome) /\ th.outcome \in BOOLEAN /\ th.pc = "finNotify"
        BY <1>1, <1>6, <3>1 DEF FinishNotify, Thread, At
      <4> QED BY <4>1 DEF LoanInv, Carried
    <3>2. CASE AllNotify
      BY <1>6, <3>2 DEF AllNotify
    <3> QED BY <3>1, <3>2
  <2> QED BY <1>1, <1>2, <1>4, <1>6, <2>1, <2>2 DEF Settled, Owing
<1> QED BY <1>5, <1>6

\* send: a frame is accepted only when nothing is owed on the one before it.
LEMMA SendRefines ==
    ASSUME IInv, LoanInv, Send
    PROVE  [Loan!Next]_(Loan!vars) /\ LoanInv'
<1>1. /\ t \in TxState /\ tx \in TxHardware /\ sent \in Nat /\ told \in Nat
      /\ (tx.live => t.txBusy)
  BY DEF IInv, TxOK, LoanOK
<1>2. ~t.txBusy /\ th.pc \in {"idle", "pop"} /\ UNCHANGED <<th, told>>
  BY DEF Send
<1>3. ~th.notify /\ ~tx.live
  BY <1>1, <1>2 DEF LoanInv, Carried
<1>4. told = sent
  BY <1>2, <1>3 DEF LoanInv, Owing
<1>5. Carried'
  BY <1>2, <1>3 DEF Carried, At
<1>6. CASE /\ tx' = TxStarted
           /\ t' = [t EXCEPT !.txProgressValid = FALSE, !.txStallChecks = 0, !.txBusy = TRUE]
           /\ sent' = sent + 1 /\ verdict' = "none"
  <2>1. tx'.live = TRUE /\ tx'.tc = FALSE
    BY <1>6 DEF TxStarted
  <2>2. Loan!Accept
    BY <1>2, <1>3, <1>4, <1>6, <2>1 DEF Loan!Accept
  <2>3. LoanInv'
    BY <1>1, <1>2, <1>4, <1>5, <1>6 DEF LoanInv, Owing, TxState
  <2> QED BY <2>2, <2>3 DEF Loan!Next
<1>7. CASE /\ t' = [t EXCEPT !.txProgressValid = FALSE, !.txStallChecks = 0]
           /\ UNCHANGED <<tx, sent, verdict>>
  <2>1. UNCHANGED <<sent, told, verdict, tx>> /\ t'.txBusy = t.txBusy
    BY <1>1, <1>2, <1>7 DEF TxState
  <2> QED BY <1>2, <1>5, <2>1 DEF LoanInv, Owing, Loan!vars
<1> QED BY <1>6, <1>7 DEF Send

LEMMA LoanStep ==
    ASSUME IInv, LoanInv, [Next]_vars
    PROVE  LoanInv' /\ [Loan!Next]_(Loan!vars)
<1>1. ASSUME Unsettled \/ (\E ok \in BOOLEAN : Settled(ok)), Carried'
      PROVE  LoanInv' /\ [Loan!Next]_(Loan!vars)
  <2>1. TxOK(tx', t')
    BY NextIInv DEF IInv, TxOK
  <2> QED BY <1>1, <2>1, UnsettledRefines, SettledRefines DEF LoanInv
<1>2. CASE LineByte \/ Interrupt \/ Faulty
  BY <1>1, <1>2, HardwareSettles, HardwareCarries
<1>3. CASE Send
  BY <1>3, SendRefines
<1>4. CASE Uninvolved
  BY <1>1, <1>4, UninvolvedStep
<1>5. CASE Settle \/ healthCheck \/ AllGate \/ FinishGate \/ txLivenessAudit
  BY <1>1, <1>5, SettleStep
<1>6. CASE FinishStop \/ AllStop
  BY <1>1, <1>6, StopStep
<1>7. CASE FinishNotify \/ AllNotify
  BY <1>1, <1>7, TellStep
<1>8. CASE UNCHANGED vars
  BY <1>8 DEF vars, hardware, loan, LoanInv, Owing, Carried, At, Loan!vars
<1> QED BY <1>2, <1>3, <1>4, <1>5, <1>6, <1>7, <1>8, Zenon DEF Next, Application, Service, Uninvolved

\* The driver keeps the loan contract: one verdict per accepted frame, after the
\* channel has stopped reading, and "ok" only for a frame that left the shift
\* register - whichever of the interrupts, the watchdog and the full recovery
\* gives it, and wherever they cut into each other.
THEOREM UartKeepsTheLoan == Spec => LoanKept
<1>1. Init => LoanInv /\ Loan!Init
  BY DEF Init, LoanInv, Owing, Carried, At, TxReset, Loan!Init
<1>2. IInv /\ LoanInv /\ [Next]_vars => LoanInv' /\ [Loan!Next]_(Loan!vars)
  BY LoanStep
<1> QED BY <1>1, <1>2, Inductive, PTL DEF Spec, LoanKept, Loan!Spec

-----------------------------------------------------------------------------
(***************************************************************************)
(* The received stream.                                                    *)
(*                                                                         *)
(* What was handed over, then what is queued, then what the channel still  *)
(* writes is one stream: each run of bytes starts where the one before it  *)
(* ended, unless a gap was reported or a marker lies between them.  A      *)
(* chunk stays in the fifo while its handler runs, so the first `done`     *)
(* chunks of the queue were handed over already.                           *)
(***************************************************************************)
\* The run that starts at byte n may follow the i-th chunk of q (the last
\* hand-over h when none is left before it, g: a gap was reported since).
Follows(q, done, i, h, g, n) ==
    IF i = done THEN g \/ n = h + 1
    ELSE q[i].size = 0 \/ n = q[i].from + q[i].size

\* Every queued byte lies before byte n.
Below(q, done, h, n) ==
    /\ h < n
    /\ \A i \in done + 1 .. Len(q) : q[i].size > 0 => q[i].from + q[i].size <= n

Ordered(q, done, h, g) ==
    \A j \in done + 1 .. Len(q) : q[j].size > 0 =>
        /\ h < q[j].from
        /\ \A i \in done + 1 .. j - 1 : q[i].size > 0 => q[i].from + q[i].size <= q[j].from
        /\ Follows(q, done, j - 1, h, g, q[j].from)

\* The stream breaks off behind the queue, and says so.
Severed(q, done, g) == IF Len(q) = done THEN g ELSE q[Len(q)].size = 0

Done == IF At("pop") THEN 1 ELSE 0

\* The next byte a transfer can bring: the one waiting in RDR, or the line's next.
NextByte(h) == IF h.rdr = 0 THEN line ELSE h.rdr

\* A byte waits in RDR only while nothing drains it, and is the line's last.
Waiting(h) ==
    h.rdr # 0 => h.rdr + 1 = line /\ ~(h.live /\ h.remaining \in 1 .. ChunkSize)

Queued(s, h) ==
    /\ Ordered(s.queue, Done, heard, gapped)
    /\ Below(s.queue, Done, heard, NextByte(h))

\* What the channel has received is the run before the next byte, and the run
\* the queue waits for.
Counted(h) == h.remaining <= ChunkSize
Aimed(s, h) == s.active # None =>
    /\ h.from + (ChunkSize - h.remaining) = NextByte(h)
    /\ Follows(s.queue, Done, Len(s.queue), heard, gapped, h.from)
    /\ Below(s.queue, Done, heard, h.from)

\* Without a claimed chunk bytes are being lost, and that is on record.
Unclaimed(s) == s.active = None => s.rxGapPending \/ Severed(s.queue, Done, gapped)

\* The reception can still publish what it received.
Flowing == r.started /\ ~th.rxTeardown /\ th.pc \notin {"rsArm", "reclaimArm"}

\* What the windows of Races would break.
Windows ==
    /\ At("announce") /\ r.rxGapPending => r.queue = <<>>
    /\ th.pc \in {"reclaimGate", "reclaimStop", "reclaimArm"} => r.active = None
    /\ At("reclaimStop") => th.rxTeardown

\* Before the first reception there is nothing to hand over.
Untouched ==
    th.pc = "unbound" \/ (th.ret = "initCheck" /\ (th.pc # "initCheck" \/ ~r.started)) =>
        /\ r.queue = <<>> /\ gapped
        /\ th.pc # "initCheck" => r.active = None

StreamInv ==
    /\ line # 0 /\ Waiting(rx)
    /\ Queued(r, rx) /\ Unclaimed(r)
    /\ Flowing => Counted(rx) /\ Aimed(r, rx)
    /\ Windows /\ Untouched

(***************************************************************************)
(* The queue.                                                              *)
(***************************************************************************)
LEMMA ChunkFields ==
    ASSUME NEW q \in Seq(Chunks), NEW i \in 1 .. Len(q)
    PROVE  q[i].from \in Nat /\ q[i].size \in Nat
<1>1. q[i] \in Chunks
  OBVIOUS
<1> QED BY <1>1, HalAssumption DEF Chunks

LEMMA SeveredFollows ==
    ASSUME NEW q, NEW done, NEW h, NEW g, Severed(q, done, g), NEW n
    PROVE  Follows(q, done, Len(q), h, g, n)
BY DEF Severed, Follows

LEMMA BelowLater ==
    ASSUME NEW q \in Seq(Chunks), NEW done \in Nat, NEW h \in Nat, NEW n \in Nat, NEW m \in Nat,
           Below(q, done, h, n), n <= m
    PROVE  Below(q, done, h, m)
<1>1. \A i \in done + 1 .. Len(q) : q[i].from + q[i].size \in Nat
  BY ChunkFields
<1> QED BY <1>1 DEF Below

\* A chunk that follows the queue, or a gap marker, goes behind it.
LEMMA Behind ==
    ASSUME NEW q \in Seq(Chunks), NEW done \in 0 .. Len(q), NEW h \in Nat, NEW g,
           NEW c \in Chunks, Ordered(q, done, h, g),
           c.size > 0 => /\ Follows(q, done, Len(q), h, g, c.from)
                         /\ Below(q, done, h, c.from)
    PROVE  Ordered(Append(q, c), done, h, g)
<1> DEFINE p == Append(q, c)
<1>1. p \in Seq(Chunks) /\ Len(p) = Len(q) + 1 /\ p[Len(q) + 1] = c
      /\ \A i \in 1 .. Len(q) : p[i] = q[i]
  OBVIOUS
<1> HIDE DEF p
<1> SUFFICES ASSUME NEW j \in done + 1 .. Len(p), p[j].size > 0
             PROVE  /\ h < p[j].from
                    /\ \A i \in done + 1 .. j - 1 :
                          p[i].size > 0 => p[i].from + p[i].size <= p[j].from
                    /\ Follows(p, done, j - 1, h, g, p[j].from)
  BY DEF Ordered, p
<1>2. CASE j \in 1 .. Len(q)
  <2>1. p[j] = q[j] /\ \A i \in done + 1 .. j - 1 : p[i] = q[i]
    BY <1>1, <1>2
  <2>2. j - 1 # done => p[j - 1] = q[j - 1]
    BY <1>1, <1>2
  <2>3. /\ h < q[j].from
        /\ \A i \in done + 1 .. j - 1 : q[i].size > 0 => q[i].from + q[i].size <= q[j].from
        /\ Follows(q, done, j - 1, h, g, q[j].from)
    BY <1>2, <2>1 DEF Ordered
  <2> QED BY <2>1, <2>2, <2>3 DEF Follows
<1>3. CASE j = Len(q) + 1
  <2>1. p[j] = c /\ j - 1 = Len(q) /\ \A i \in done + 1 .. j - 1 : p[i] = q[i]
    BY <1>1, <1>3
  <2>2. Len(q) # done => p[Len(q)] = q[Len(q)]
    BY <1>1
  <2> QED BY <2>1, <2>2 DEF Follows, Below
<1> QED BY <1>1, <1>2, <1>3

LEMMA BehindBelow ==
    ASSUME NEW q \in Seq(Chunks), NEW done \in 0 .. Len(q), NEW h \in Nat, NEW n \in Nat,
           NEW c \in Chunks, Below(q, done, h, n), c.size > 0 => c.from + c.size <= n
    PROVE  Below(Append(q, c), done, h, n)
<1> DEFINE p == Append(q, c)
<1>1. p \in Seq(Chunks) /\ Len(p) = Len(q) + 1 /\ p[Len(q) + 1] = c
      /\ \A i \in 1 .. Len(q) : p[i] = q[i]
  OBVIOUS
<1> HIDE DEF p
<1>2. \A i \in done + 1 .. Len(p) : p[i].size > 0 => p[i].from + p[i].size <= n
  BY <1>1 DEF Below
<1> QED BY <1>2 DEF Below, p

LEMMA BehindFollows ==
    ASSUME NEW q \in Seq(Chunks), NEW done \in 0 .. Len(q), NEW h, NEW g, NEW n,
           NEW c, c.size = 0 \/ n = c.from + c.size
    PROVE  Follows(Append(q, c), done, Len(Append(q, c)), h, g, n)
<1>1. Len(Append(q, c)) = Len(q) + 1 /\ Append(q, c)[Len(q) + 1] = c
  OBVIOUS
<1> QED BY <1>1 DEF Follows

\* The head is handed over: it becomes the last hand-over, or the gap.
LEMMA HandedOver ==
    ASSUME NEW q \in Seq(Chunks), q # <<>>, NEW h \in Nat, NEW g, NEW h2, NEW g2,
           Ordered(q, 0, h, g),
           \/ Head(q).size = 0 /\ g2 /\ h2 = h
           \/ Head(q).size > 0 /\ ~g2 /\ h2 = Head(q).from + Head(q).size - 1
    PROVE  /\ Ordered(q, 1, h2, g2)
           /\ \A n \in Nat : Below(q, 0, h, n) => Below(q, 1, h2, n)
           /\ \A n \in Nat : Follows(q, 0, Len(q), h, g, n) => Follows(q, 1, Len(q), h2, g2, n)
           /\ Severed(q, 0, g) => Severed(q, 1, g2)
<1>1. Len(q) \in Nat /\ Len(q) >= 1 /\ Head(q) = q[1] /\ q[1].from \in Nat /\ q[1].size \in Nat
  BY ChunkFields
<1>2. h2 \in Nat
  BY <1>1
<1>3. Ordered(q, 1, h2, g2)
  <2> SUFFICES ASSUME NEW j \in 2 .. Len(q), q[j].size > 0
               PROVE  /\ h2 < q[j].from
                      /\ \A i \in 2 .. j - 1 :
                            q[i].size > 0 => q[i].from + q[i].size <= q[j].from
                      /\ Follows(q, 1, j - 1, h2, g2, q[j].from)
    BY DEF Ordered
  <2>1. q[j].from \in Nat /\ q[j].size \in Nat
    BY ChunkFields
  <2>2. /\ h < q[j].from
        /\ \A i \in 1 .. j - 1 : q[i].size > 0 => q[i].from + q[i].size <= q[j].from
        /\ Follows(q, 0, j - 1, h, g, q[j].from)
    BY DEF Ordered
  <2>3. h2 < q[j].from
    BY <1>1, <2>1, <2>2
  <2>4. Follows(q, 1, j - 1, h2, g2, q[j].from)
    BY <1>1, <2>1, <2>2 DEF Follows
  <2> QED BY <2>2, <2>3, <2>4
<1>4. ASSUME NEW n \in Nat, Below(q, 0, h, n) PROVE Below(q, 1, h2, n)
  <2>1. h2 < n
    BY <1>1, <1>4 DEF Below
  <2> QED BY <1>4, <2>1 DEF Below
<1>5. ASSUME NEW n \in Nat, Follows(q, 0, Len(q), h, g, n) PROVE Follows(q, 1, Len(q), h2, g2, n)
  <2>1. q[Len(q)].size = 0 \/ n = q[Len(q)].from + q[Len(q)].size
    BY <1>1, <1>5 DEF Follows
  <2>2. CASE Len(q) = 1
    BY <1>1, <2>1, <2>2 DEF Follows
  <2>3. CASE Len(q) # 1
    BY <2>1, <2>3 DEF Follows
  <2> QED BY <2>2, <2>3
<1>6. Severed(q, 0, g) => Severed(q, 1, g2)
  BY <1>1 DEF Severed
<1> QED BY <1>3, <1>4, <1>5, <1>6

\* The handler returned and its chunk leaves the fifo.
LEMMA Popped ==
    ASSUME NEW q \in Seq(Chunks), q # <<>>, NEW h \in Nat, NEW g
    PROVE  /\ Ordered(q, 1, h, g) => Ordered(Tail(q), 0, h, g)
           /\ \A n \in Nat : Below(q, 1, h, n) => Below(Tail(q), 0, h, n)
           /\ \A n \in Nat : Follows(q, 1, Len(q), h, g, n)
                                => Follows(Tail(q), 0, Len(Tail(q)), h, g, n)
           /\ Severed(q, 1, g) => Severed(Tail(q), 0, g)
<1> DEFINE p == Tail(q)
<1>1. Len(q) \in Nat /\ Len(q) >= 1 /\ Len(p) = Len(q) - 1
      /\ \A i \in 1 .. Len(p) : p[i] = q[i + 1]
  OBVIOUS
<1> HIDE DEF p
<1>2. ASSUME Ordered(q, 1, h, g) PROVE Ordered(p, 0, h, g)
  <2> SUFFICES ASSUME NEW j \in 1 .. Len(p), p[j].size > 0
               PROVE  /\ h < p[j].from
                      /\ \A i \in 1 .. j - 1 :
                            p[i].size > 0 => p[i].from + p[i].size <= p[j].from
                      /\ Follows(p, 0, j - 1, h, g, p[j].from)
    BY DEF Ordered
  <2>1. j + 1 \in 2 .. Len(q) /\ p[j] = q[j + 1]
    BY <1>1
  <2>2. /\ h < q[j + 1].from
        /\ \A i \in 2 .. j : q[i].size > 0 => q[i].from + q[i].size <= q[j + 1].from
        /\ Follows(q, 1, j, h, g, q[j + 1].from)
    BY <1>2, <2>1 DEF Ordered
  <2>3. \A i \in 1 .. j - 1 : i + 1 \in 2 .. j /\ p[i] = q[i + 1]
    BY <1>1
  <2>4. Follows(p, 0, j - 1, h, g, p[j].from)
    BY <2>1, <2>2, <2>3 DEF Follows
  <2> QED BY <2>1, <2>2, <2>3, <2>4
<1>3. ASSUME NEW n \in Nat, Below(q, 1, h, n) PROVE Below(p, 0, h, n)
  <2>1. \A i \in 1 .. Len(p) : i + 1 \in 2 .. Len(q) /\ p[i] = q[i + 1]
    BY <1>1
  <2> QED BY <1>3, <2>1 DEF Below
<1>4. Len(p) # 0 => p[Len(p)] = q[Len(q)]
  BY <1>1
<1>5. ASSUME NEW n \in Nat, Follows(q, 1, Len(q), h, g, n) PROVE Follows(p, 0, Len(p), h, g, n)
  BY <1>1, <1>4, <1>5 DEF Follows
<1>6. Severed(q, 1, g) => Severed(p, 0, g)
  BY <1>1, <1>4 DEF Severed
<1> QED BY <1>2, <1>3, <1>5, <1>6 DEF p

(***************************************************************************)
(* The driver's receive primitives.                                        *)
(***************************************************************************)
LEMMA StreamTypes ==
    ASSUME IInv
    PROVE  /\ line \in Nat /\ heard \in Nat /\ rx \in RxHardware /\ r \in RxState /\ RxOK(r)
           /\ th \in Thread /\ r.queue \in Seq(Chunks) /\ Done \in 0 .. Len(r.queue)
           /\ Done \in {0, 1}
BY DEF IInv, RestOK, RxOK, RxState, ThreadOK, Done, At

LEMMA NextByteType ==
    ASSUME line \in Nat, NEW h \in RxHardware
    PROVE  NextByte(h) \in Nat /\ (Waiting(h) => NextByte(h) <= line)
BY DEF RxHardware, NextByte, Waiting

LEMMA VoidStream ==
    ASSUME line \in Nat, heard \in Nat, NEW h \in RxHardware, NEW s, RxOK(s),
           Done \in 0 .. Len(s.queue), Queued(s, h), Unclaimed(s)
    PROVE  /\ Queued(voidActiveChunk(s), h) /\ Unclaimed(voidActiveChunk(s))
           /\ voidActiveChunk(s).active = None
           /\ voidActiveChunk(s).rxGapPending = s.rxGapPending
           /\ s.active = None => voidActiveChunk(s) = s
           /\ voidActiveChunk(s).queue \in Seq(Chunks)
           /\ Done \in 0 .. Len(voidActiveChunk(s).queue)
<1> DEFINE marker == [from |-> 0, size |-> 0]
           v == [s EXCEPT !.queue = Append(@, marker), !.active = None, !.rxWorkPending = TRUE]
<1>1. s \in RxState /\ s.queue \in Seq(Chunks)
  BY DEF RxOK, RxState
<1>2. marker \in Chunks /\ marker.size = 0
  BY HalAssumption DEF Chunks
<1>3. v.queue = Append(s.queue, marker) /\ v.active = None /\ v.rxGapPending = s.rxGapPending
  BY <1>1 DEF RxState
<1>4. CASE s.active # None
  <2>1. voidActiveChunk(s) = v
    BY <1>4 DEF voidActiveChunk
  <2> HIDE DEF marker, v
  <2>2. Ordered(v.queue, Done, heard, gapped)
    BY <1>1, <1>2, <1>3, Behind DEF Queued
  <2>3. Below(v.queue, Done, heard, NextByte(h))
    BY <1>1, <1>2, <1>3, BehindBelow, NextByteType DEF Queued
  <2>4. Severed(v.queue, Done, gapped)
    <3>1. Len(v.queue) = Len(s.queue) + 1 /\ v.queue[Len(v.queue)] = marker
      BY <1>1, <1>2, <1>3
    <3> QED BY <1>1, <1>2, <3>1 DEF Severed
  <2>5. v.queue \in Seq(Chunks) /\ Done \in 0 .. Len(v.queue)
    BY <1>1, <1>2, <1>3
  <2> QED BY <1>3, <1>4, <2>1, <2>2, <2>3, <2>4, <2>5 DEF Queued, Unclaimed
<1>5. CASE s.active = None
  BY <1>1, <1>5 DEF voidActiveChunk
<1> QED BY <1>4, <1>5

\* The chunk that is armed next continues the stream, or a gap is on record.
Joined(s, h) ==
    \/ Follows(s.queue, Done, Len(s.queue), heard, gapped, NextByte(h))
    \/ s.rxGapPending

LEMMA UnclaimedJoins ==
    ASSUME NEW s, NEW h, Unclaimed(s), s.active = None PROVE Joined(s, h)
BY SeveredFollows DEF Unclaimed, Joined

LEMMA PublishStream ==
    ASSUME line \in Nat, heard \in Nat, NEW h \in RxHardware, NEW s, RxOK(s),
           Done \in 0 .. Len(s.queue), Queued(s, h), Unclaimed(s), Counted(h), Aimed(s, h)
    PROVE  /\ Queued(publishReceived(s, h), h) /\ Joined(publishReceived(s, h), h)
           /\ publishReceived(s, h).rxGapPending = s.rxGapPending
           /\ Len(publishReceived(s, h).queue) <= Len(s.queue) + 1
           /\ s.active = None => publishReceived(s, h) = s
           /\ Done \in 0 .. Len(publishReceived(s, h).queue)
<1> DEFINE got == ChunkSize - h.remaining
           c == [from |-> h.from, size |-> got]
           p == [s EXCEPT !.queue = Append(@, c), !.active = None, !.rxWorkPending = TRUE]
<1>1. s \in RxState /\ s.queue \in Seq(Chunks) /\ Len(s.queue) \in Nat
  BY DEF RxOK, RxState
<1>2. got \in 0 .. ChunkSize /\ h.from \in Nat
  BY HalAssumption DEF Counted, RxHardware, CorruptCount
<1>3. c \in Chunks /\ c.from = h.from /\ c.size = got
  BY <1>2 DEF Chunks
<1>4. p.queue = Append(s.queue, c) /\ p.active = None /\ p.rxGapPending = s.rxGapPending
  BY <1>1 DEF RxState
<1>5. CASE s.active = None
  <2>1. publishReceived(s, h) = s
    BY <1>5 DEF publishReceived, publishActive
  <2> QED BY <1>1, <1>5, <2>1, UnclaimedJoins
<1>6. CASE s.active # None /\ got = 0
  <2>1. publishReceived(s, h) = s
    BY <1>6 DEF publishReceived, publishActive
  <2>2. NextByte(h) = h.from
    BY <1>2, <1>6 DEF Aimed
  <2> QED BY <1>1, <1>6, <2>1, <2>2 DEF Aimed, Joined
<1>7. CASE s.active # None /\ got # 0
  <2>1. publishReceived(s, h) = p
    BY <1>7 DEF publishReceived, publishActive
  <2>2. NextByte(h) = h.from + got /\ NextByte(h) \in Nat
    BY <1>7, NextByteType DEF Aimed
  <2>3. Ordered(p.queue, Done, heard, gapped)
    <3> HIDE DEF got, c, p
    <3> QED BY <1>1, <1>3, <1>4, <1>7, Behind DEF Queued, Aimed
  <2>4. Below(p.queue, Done, heard, NextByte(h))
    <3> HIDE DEF got, c, p
    <3>1. c.from + c.size <= NextByte(h)
      BY <1>2, <1>3, <2>2
    <3> QED BY <1>1, <1>3, <1>4, <2>2, <3>1, BehindBelow DEF Queued
  <2>5. Follows(p.queue, Done, Len(p.queue), heard, gapped, NextByte(h))
    <3> HIDE DEF got, c, p
    <3> QED BY <1>1, <1>3, <1>4, <2>2, BehindFollows
  <2>6. Len(p.queue) = Len(s.queue) + 1
    BY <1>1, <1>4
  <2> QED BY <1>1, <1>4, <1>7, <2>1, <2>3, <2>4, <2>5, <2>6 DEF Queued, Joined
<1> QED BY <1>2, <1>5, <1>6, <1>7

LEMMA ArmStream ==
    ASSUME line \in Nat, line # 0, heard \in Nat, NEW h \in RxHardware, NEW s, RxOK(s),
           Done \in 0 .. Len(s.queue), Waiting(h), Queued(s, h), Joined(s, h), receiveArm(s, h)
    PROVE  /\ Waiting(rx') /\ Queued(r', rx') /\ Unclaimed(r')
           /\ r'.started => Counted(rx') /\ Aimed(r', rx')
           /\ r'.queue = s.queue
           /\ ~Full(s) \/ s.rxGapPending => r'.rxGapPending = s.rxGapPending
<1> DEFINE c == Claimed(s)
<1>1. /\ c \in RxState /\ s \in RxState /\ s.queue \in Seq(Chunks)
      /\ c.queue = s.queue
      /\ c.active = None => c.rxGapPending
      /\ c.active # None => Follows(s.queue, Done, Len(s.queue), heard, gapped, NextByte(h))
      /\ ~Full(s) \/ s.rxGapPending => c.rxGapPending = s.rxGapPending
  <2>1. c \in RxState /\ s \in RxState /\ s.queue \in Seq(Chunks) /\ RxOK(c)
    BY ClaimedOK DEF RxOK, RxState
  <2>2. \/ c = s /\ s.active # None /\ ~s.rxGapPending
        \/ c = s /\ s.active = None /\ s.rxGapPending
        \/ /\ s.active = None /\ Full(s) /\ ~s.rxGapPending
           /\ c = [s EXCEPT !.rxGapPending = TRUE, !.rxWorkPending = TRUE]
        \/ /\ s.active = None /\ ~Full(s) /\ ~s.rxGapPending
           /\ c = [s EXCEPT !.active = ClaimSlot(s)]
    BY Zenon DEF Claimed, RxOK
  <2>3. ClaimSlot(s) # None
    BY <2>1, ClaimSlotType, Targets
  <2> HIDE DEF c
  <2> QED BY <2>1, <2>2, <2>3 DEF Joined, RxState
<1> HIDE DEF c
<1>2. NextByte(h) \in Nat /\ NextByte(h) <= line
  BY NextByteType
<1>3. Below(s.queue, Done, heard, NextByte(h)) /\ Below(s.queue, Done, heard, line)
  BY <1>1, <1>2, BelowLater DEF Queued
<1>4. CASE /\ rx' = RxArmed(h, IF c.active = None THEN Drop ELSE c.active, line)
           /\ r' = [c EXCEPT !.started = TRUE]
  <2>1. r'.queue = s.queue /\ r'.active = c.active /\ r'.rxGapPending = c.rxGapPending
    BY <1>1, <1>4 DEF RxState
  <2>2. /\ rx'.rdr = 0 /\ rx'.from = NextByte(h)
        /\ rx'.remaining = IF h.rdr = 0 THEN ChunkSize ELSE ChunkSize - 1
    BY <1>4 DEF RxArmed, NextByte
  <2>3. NextByte(rx') = line /\ Waiting(rx')
    BY <2>2 DEF NextByte, Waiting
  <2>4. Counted(rx') /\ rx'.from + (ChunkSize - rx'.remaining) = line
    BY <2>2, HalAssumption DEF Counted, NextByte, Waiting, RxHardware
  <2>5. Queued(r', rx')
    BY <1>3, <2>1, <2>3 DEF Queued
  <2>6. Unclaimed(r') /\ Aimed(r', rx')
    BY <1>1, <1>3, <2>1, <2>2, <2>3, <2>4 DEF Unclaimed, Aimed
  <2> QED BY <1>1, <2>1, <2>3, <2>4, <2>5, <2>6
<1>5. CASE rx' = h /\ r' = [c EXCEPT !.started = FALSE]
  <2>1. r'.queue = s.queue /\ r'.active = c.active /\ r'.rxGapPending = c.rxGapPending
        /\ r'.started = FALSE
    BY <1>1, <1>5 DEF RxState
  <2> QED BY <1>1, <1>5, <2>1 DEF Queued, Unclaimed
<1> QED BY <1>4, <1>5 DEF receiveArm, c

(***************************************************************************)
(* The hardware's steps.                                                   *)
(***************************************************************************)
\* An event or call that moves no byte to memory: it may lose the byte in RDR,
\* or the count of a channel that stops.
Leaves(h, g) ==
    /\ g.from = h.from /\ (g.rdr = h.rdr \/ g.rdr = 0)
    /\ g.live => h.live /\ g.remaining = h.remaining
Keeps(h, g) == Leaves(h, g) /\ g.rdr = h.rdr /\ g.remaining = h.remaining

LEMMA RxOpsLeave ==
    ASSUME NEW h \in RxHardware
    PROVE  /\ \A g \in {h, RxEnded(h), RxEndedAbortFailed(h), RxFaulted(h), RxSiblingFaulted(h),
                        RxDead(h), RxStopFailed(h)} : Keeps(h, g)
           /\ \A g \in {RxEndedCorrupt(h), RxStopped(h), RxErrorsCleared(h)} : Leaves(h, g)
           /\ RxEndedCorrupt(h).remaining = CorruptCount
           /\ RxEnded(h).state = "READY" /\ RxEnded(h).dma = "READY"
           /\ RxEndedAbortFailed(h).dma # "READY"
<1> USE DEF RxHardware, Leaves, Keeps
<1>1. Keeps(h, h) /\ Keeps(h, RxEnded(h)) /\ Keeps(h, RxEndedAbortFailed(h))
  BY DEF RxEnded, RxEndedAbortFailed
<1>2. Keeps(h, RxFaulted(h)) /\ Keeps(h, RxSiblingFaulted(h))
  BY DEF RxFaulted, RxSiblingFaulted
<1>3. Keeps(h, RxDead(h)) /\ Keeps(h, RxStopFailed(h))
  BY DEF RxDead, RxStopFailed
<1>4. Leaves(h, RxEndedCorrupt(h)) /\ RxEndedCorrupt(h).remaining = CorruptCount
  BY DEF RxEnded, RxEndedCorrupt
<1>5. Leaves(h, RxStopped(h)) /\ Leaves(h, RxErrorsCleared(h))
  BY DEF RxStopped, RxErrorsCleared, RxEnded
<1>6. RxEnded(h).state = "READY" /\ RxEnded(h).dma = "READY"
      /\ RxEndedAbortFailed(h).dma # "READY"
  BY DEF RxEnded, RxEndedAbortFailed
<1> QED BY <1>1, <1>2, <1>3, <1>4, <1>5, <1>6, Zenon

LEMMA LeavingWaits ==
    ASSUME line \in Nat, NEW h \in RxHardware, NEW g \in RxHardware, Waiting(h), Leaves(h, g)
    PROVE  /\ Waiting(g) /\ NextByte(h) <= NextByte(g)
           /\ Keeps(h, g) => NextByte(g) = NextByte(h)
           /\ \A s : Keeps(h, g) /\ Counted(h) /\ Aimed(s, h) => Counted(g) /\ Aimed(s, g)
BY DEF Waiting, Leaves, Keeps, NextByte, RxHardware, Counted, Aimed

\* A step that leaves the queue alone and, while the reception goes on, the
\* claim and the channel too.
LEMMA QuietStream ==
    ASSUME IInv, StreamInv, rx' \in RxHardware, UNCHANGED <<line, stream>>, Done' = Done,
           r'.queue = r.queue, Leaves(rx, rx'), Unclaimed(r)', Windows', Untouched',
           Flowing' => Flowing /\ Keeps(rx, rx') /\ r'.active = r.active
    PROVE  StreamInv'
<1>1. line \in Nat /\ heard \in Nat /\ rx \in RxHardware /\ r.queue \in Seq(Chunks) /\ Done \in Nat
  BY StreamTypes
<1>2. heard' = heard /\ gapped' = gapped /\ line' = line
  BY DEF stream
<1>3. Waiting(rx') /\ NextByte(rx) <= NextByte(rx')
      /\ NextByte(rx) \in Nat /\ NextByte(rx') \in Nat
  BY <1>1, LeavingWaits, NextByteType DEF StreamInv
<1>4. Waiting(rx)' /\ line' # 0
  BY <1>2, <1>3 DEF Waiting, StreamInv
<1>5. Queued(r, rx)'
  <2>1. Below(r.queue, Done, heard, NextByte(rx'))
    BY <1>1, <1>3, BelowLater DEF StreamInv, Queued
  <2> QED BY <1>2, <2>1 DEF StreamInv, Queued, NextByte
<1>6. (Flowing => Counted(rx) /\ Aimed(r, rx))'
  <2> SUFFICES ASSUME Flowing' PROVE Counted(rx') /\ Aimed(r, rx)'
    BY DEF Counted
  <2>1. Counted(rx') /\ Aimed(r, rx')
    BY <1>1, LeavingWaits DEF StreamInv
  <2> QED BY <1>2, <2>1 DEF Aimed, NextByte
<1> QED BY <1>4, <1>5, <1>6 DEF StreamInv

\* An interrupt that leaves the queue and the claim alone.
LEMMA SameStream ==
    ASSUME IInv, StreamInv, rx' \in RxHardware, UNCHANGED <<line, th, stream>>,
           r'.queue = r.queue, r'.active = r.active, r'.rxGapPending = r.rxGapPending,
           r'.started => r.started, th.pc = "initCheck" => r'.started = r.started,
           Leaves(rx, rx'), Flowing /\ r'.started => Keeps(rx, rx')
    PROVE  StreamInv'
<1>1. Done' = Done /\ gapped' = gapped
  BY DEF Done, At, stream
<1>2. Unclaimed(r)' /\ Windows' /\ Untouched'
  BY <1>1 DEF StreamInv, Unclaimed, Windows, Untouched, At
<1> QED BY <1>1, <1>2, QuietStream DEF Flowing

\* A step that puts a gap marker in the place of the claimed chunk.
LEMMA VoidedStream ==
    ASSUME IInv, StreamInv, rx' \in RxHardware, UNCHANGED <<line, stream>>,
           Done' = Done,
           r'.queue = voidActiveChunk(r).queue, r'.active = None,
           r'.rxGapPending = r.rxGapPending, ~r'.started, Leaves(rx, rx'),
           th'.ret # "initCheck", th'.pc # "unbound",
           th' = th \/ th'.pc \notin {"announce", "reclaimStop"}
    PROVE  StreamInv'
<1>1. line \in Nat /\ heard \in Nat /\ rx \in RxHardware /\ RxOK(r) /\ r \in RxState
      /\ Done \in 0 .. Len(r.queue)
  BY StreamTypes
<1>2. heard' = heard /\ gapped' = gapped /\ line' = line /\ Done' = Done
  BY DEF stream
<1> DEFINE v == voidActiveChunk(r)
<1>3. /\ Queued(v, rx) /\ Unclaimed(v) /\ v.active = None
      /\ v.rxGapPending = r.rxGapPending /\ (r.active = None => v = r)
  BY <1>1, VoidStream DEF StreamInv
<1>4. v.queue \in Seq(Chunks)
  BY <1>1, voidActiveChunkOK DEF RxOK, RxState
<1> HIDE DEF v
<1>5. Waiting(rx') /\ NextByte(rx) <= NextByte(rx')
      /\ NextByte(rx) \in Nat /\ NextByte(rx') \in Nat
  BY <1>1, LeavingWaits, NextByteType DEF StreamInv
<1>6. Waiting(rx)' /\ line' # 0
  BY <1>2, <1>5 DEF Waiting, StreamInv
<1>7. Queued(r, rx)'
  <2>1. Below(v.queue, Done, heard, NextByte(rx'))
    BY <1>1, <1>3, <1>4, <1>5, BelowLater DEF Queued
  <2> QED BY <1>2, <1>3, <2>1 DEF Queued, NextByte, v
<1>8. Unclaimed(r)'
  BY <1>2, <1>3 DEF Unclaimed, v
<1>9. Windows'
  <2>1. r.rxGapPending => r.active = None
    BY <1>1 DEF RxOK
  <2> QED BY <1>3, <2>1 DEF StreamInv, Windows, At, v
<1> QED BY <1>6, <1>7, <1>8, <1>9 DEF StreamInv, Untouched, Flowing

\* An armed or refused transfer, behind what was received before.
LEMMA ArmedStream ==
    ASSUME IInv, StreamInv, rx' \in RxHardware, UNCHANGED <<line, stream>>,
           Done' = Done, NEW h \in RxHardware, Waiting(h),
           NEW s, RxOK(s), Done \in 0 .. Len(s.queue), Queued(s, h), Joined(s, h),
           receiveArm(s, h), Windows', Untouched'
    PROVE  StreamInv'
<1>1. line \in Nat /\ heard \in Nat /\ line # 0
  BY StreamTypes DEF StreamInv
<1>2. heard' = heard /\ gapped' = gapped /\ line' = line /\ Done' = Done
  BY DEF stream
<1>3. /\ Waiting(rx') /\ Queued(r', rx') /\ Unclaimed(r')
      /\ r'.started => Counted(rx') /\ Aimed(r', rx')
  BY <1>1, ArmStream
<1>4. Waiting(rx)' /\ Queued(r, rx)' /\ Unclaimed(r)'
  BY <1>2, <1>3 DEF Waiting, Queued, Unclaimed, NextByte
<1>5. (Flowing => Counted(rx) /\ Aimed(r, rx))'
  BY <1>2, <1>3 DEF Flowing, Counted, Aimed, NextByte
<1> QED BY <1>1, <1>2, <1>4, <1>5 DEF StreamInv
\* A receive event ends a transfer that is worth publishing, or one the driver
\* gives up.
LEMMA RxEventStream ==
    ASSUME Races = {}, DmaInv, StreamInv, rx.live, NEW h \in RxHardware, isrRxEvent(h),
           UNCHANGED <<line, th, stream>>, Leaves(rx, h), CountValid(h) => Keeps(rx, h),
           \/ h.state = "READY" /\ h.dma = "READY" /\ Keeps(rx, h) /\ ~RxEndSpared /\ ~h.live
           \/ /\ th.ret # "initCheck"
              /\ h.state # "READY" \/ h.dma # "READY" \/ ~CountValid(h)
    PROVE  StreamInv'
<1>1. /\ IInv /\ line \in Nat /\ heard \in Nat /\ rx \in RxHardware /\ r \in RxState /\ RxOK(r)
      /\ Done \in 0 .. Len(r.queue) /\ th.pc # "unbound" /\ th.pc \notin {"rsArm", "reclaimArm"}
      /\ (th.pc = "initCheck" => th.ret = "initCheck")
  BY StreamTypes DEF DmaInv, Parked, AtRest
<1>2. Done' = Done
  BY DEF Done, At
<1>3. CASE rx' = h /\ UNCHANGED r /\ ~(r.started /\ ~th.rxTeardown)
  BY <1>1, <1>3, SameStream DEF Flowing
<1>4. CASE rx' = h /\ r' = rejectLiveRxEvent(r) /\ th.ret # "initCheck"
  <2>1. r'.queue = r.queue /\ r'.active = r.active /\ r'.rxGapPending = r.rxGapPending
        /\ ~r'.started
    BY <1>1, <1>4 DEF rejectLiveRxEvent, RxState
  <2> QED BY <1>1, <1>4, <2>1, SameStream
<1>5. CASE rx' = h /\ r' = rejectDmaCount(r) /\ th.ret # "initCheck"
  <2>1. RxOK(voidActiveChunk(r)) /\ voidActiveChunk(r).active = None
        /\ voidActiveChunk(r).rxGapPending = r.rxGapPending
    BY <1>1, voidActiveChunkOK, VoidStream DEF StreamInv
  <2>2. /\ r'.queue = voidActiveChunk(r).queue /\ r'.active = None
        /\ r'.rxGapPending = r.rxGapPending /\ ~r'.started
    BY <1>5, <2>1 DEF rejectDmaCount, RxOK, RxState
  <2> QED BY <1>1, <1>2, <1>5, <2>2, VoidedStream
<1>6. CASE /\ r.started /\ ~th.rxTeardown /\ CountValid(h)
           /\ ~RxEndSpared /\ Keeps(rx, h)
           /\ h.state = "READY" /\ h.dma = "READY" /\ ~h.live
           /\ receiveArm(publishReceived(r, h), h)
  <2> DEFINE p == publishReceived(r, h)
  <2>1. Flowing
    BY <1>1, <1>6 DEF Flowing
  <2>2. Waiting(h) /\ Queued(r, h) /\ Counted(h) /\ Aimed(r, h)
    <3>1. Waiting(h) /\ NextByte(h) = NextByte(rx) /\ Counted(h) /\ Aimed(r, h)
      BY <1>1, <1>6, <2>1, LeavingWaits DEF StreamInv
    <3> QED BY <3>1 DEF StreamInv, Queued
  <2>3. /\ Queued(p, h) /\ Joined(p, h) /\ p.rxGapPending = r.rxGapPending
        /\ Len(p.queue) <= Len(r.queue) + 1 /\ (r.active = None => p = r)
        /\ Done \in 0 .. Len(p.queue)
    BY <1>1, <2>2, PublishStream DEF StreamInv
  <2>4. RxOK(p)
    BY <1>1, <1>6, publishReceivedOK
  <2>5. rx' \in RxHardware
    BY <1>6, <2>4, receiveArmOK DEF IInv, RestOK, DmaInv
  <2> HIDE DEF p
  <2>6. /\ r'.queue = p.queue
        /\ ~Full(p) \/ p.rxGapPending => r'.rxGapPending = p.rxGapPending
    BY <1>1, <1>6, <2>2, <2>3, <2>4, ArmStream DEF StreamInv, p
  <2>7. Windows'
    <3>1. th.pc \notin {"reclaimGate", "reclaimStop", "reclaimArm"}
      BY <1>1, <1>6 DEF StreamInv, Windows, RxEndSpared, At
    <3>2. ASSUME At("announce"), r'.rxGapPending PROVE r'.queue = <<>>
      <4>1. CASE r.rxGapPending
        <5>1. r.queue = <<>> /\ r.active = None
          BY <1>1, <3>2, <4>1 DEF StreamInv, Windows, RxOK
        <5> QED BY <2>3, <2>6, <5>1
      <4>2. CASE ~r.rxGapPending
        <5>1. Len(r.queue) + 1 < ChunkCount
          BY <1>1, <1>6, <3>2, HalAssumption DEF RxEndSpared, At, RxOK, RxState
        <5>2. ~Full(p)
          BY <1>1, <2>3, <2>4, <5>1, HalAssumption DEF Full, RxOK, RxState
        <5> QED BY <2>3, <2>6, <3>2, <4>2, <5>2
      <4> QED BY <4>1, <4>2
    <3> QED BY <3>1, <3>2 DEF Windows, At
  <2>8. Untouched'
    <3>1. th.ret = "initCheck" => th.pc = "initCheck"
      <4>1. th.ret = "initCheck" /\ th.pc # "initCheck" => th.pc \in {"rsGate", "rsStop"}
        BY <1>1 DEF DmaInv, Parked, InitPass
      <4> QED BY <1>1, <4>1 DEF DmaInv, Parked, Tied
    <3>2. th.pc = "initCheck" => r'.started
      <4>1. ASSUME th.pc = "initCheck" PROVE ~MayRefuse
        BY <1>1, <4>1 DEF MayRefuse, InitSpared
      <4>2. CanArmRx(h)
        BY <1>6 DEF CanArmRx
      <4>3. ASSUME th.pc = "initCheck" PROVE r' = [Claimed(p) EXCEPT !.started = TRUE]
        BY <1>6, <4>1, <4>2, <4>3 DEF receiveArm, p
      <4> QED BY <2>4, <4>3, ClaimedOK DEF RxOK, RxState
    <3> QED BY <1>1, <3>1, <3>2 DEF Untouched
  <2> QED BY <1>1, <1>2, <1>6, <2>2, <2>3, <2>4, <2>5, <2>7, <2>8, ArmedStream DEF p
<1>7. CASE /\ r.started /\ ~th.rxTeardown /\ ~CountValid(h)
           /\ h.state = "READY" /\ h.dma = "READY"
  <2>1. ~Keeps(rx, h)
    BY <1>1, <1>7 DEF StreamInv, Flowing, Counted, CountValid, Keeps
  <2>2. rx' = h /\ r' = rejectDmaCount(r)
    BY <1>1, <1>7 DEF isrRxEvent, Bound
  <2> QED BY <1>5, <2>1, <2>2
<1> QED BY <1>1, <1>3, <1>4, <1>5, <1>6, <1>7 DEF isrRxEvent, Bound

\* An error interrupt voids what it cannot trust.
LEMMA ErrorStream ==
    ASSUME DmaInv, StreamInv, NEW h \in RxHardware, Keeps(rx, h), NEW g, isrError(h, g),
           rx' \in RxHardware, UNCHANGED <<line, th, stream>>, th.ret # "initCheck",
           th.pc # "unbound"
    PROVE  StreamInv'
<1>1. /\ IInv /\ line \in Nat /\ heard \in Nat /\ rx \in RxHardware /\ r \in RxState /\ RxOK(r)
      /\ Done \in 0 .. Len(r.queue) /\ th.pc # "initCheck"
  BY StreamTypes DEF DmaInv, Parked
<1>2. Done' = Done
  BY DEF Done, At
<1>3. CASE rx' = h /\ UNCHANGED r
  BY <1>1, <1>3, SameStream DEF Keeps
<1>4. Leaves(rx, rx') /\ (h.state # "READY" => rx' = h)
  <2>1. rx' = h \/ rx' = RxErrorsCleared(h)
    BY DEF isrError
  <2>2. Leaves(h, RxErrorsCleared(h))
    BY RxOpsLeave
  <2> QED BY <1>1, <2>1, <2>2 DEF isrError, Leaves, Keeps
<1> DEFINE x == ErrorRx(h)
<1>5. r' = r \/ r' = x \/ r' = [x EXCEPT !.rxWorkPending = TRUE]
  BY DEF isrError, deferTxAbort
<1>6. CASE th.rxTeardown \/ h.state # "READY"
  <2>1. x = r
    BY <1>6 DEF ErrorRx
  <2>2. /\ r'.queue = r.queue /\ r'.active = r.active /\ r'.rxGapPending = r.rxGapPending
        /\ r'.started = r.started
    BY <1>1, <1>5, <2>1 DEF RxState
  <2>3. Flowing => Keeps(rx, rx')
    BY <1>4, <1>6 DEF Flowing
  <2> QED BY <1>1, <1>4, <2>2, <2>3, SameStream
<1>7. CASE ~th.rxTeardown /\ h.state = "READY" /\ h.dma # "READY" /\ r' # r
  <2>1. x = [r EXCEPT !.started = FALSE]
    BY <1>7 DEF ErrorRx
  <2>2. /\ r'.queue = r.queue /\ r'.active = r.active /\ r'.rxGapPending = r.rxGapPending
        /\ ~r'.started
    BY <1>1, <1>5, <1>7, <2>1 DEF RxState
  <2> QED BY <1>1, <1>4, <2>2, SameStream
<1>8. CASE ~th.rxTeardown /\ h.state = "READY" /\ h.dma = "READY" /\ r' # r
  <2> DEFINE v == voidActiveChunk(r)
  <2>1. x = [v EXCEPT !.started = FALSE]
    BY <1>8 DEF ErrorRx
  <2>2. v \in RxState /\ v.active = None /\ v.rxGapPending = r.rxGapPending
    BY <1>1, voidActiveChunkOK, VoidStream DEF StreamInv, RxOK
  <2>3. /\ r'.queue = v.queue /\ r'.active = None /\ r'.rxGapPending = r.rxGapPending
        /\ ~r'.started
    <3> HIDE DEF v
    <3> QED BY <1>5, <1>8, <2>1, <2>2 DEF RxState
  <2> QED BY <1>1, <1>2, <1>4, <2>3, VoidedStream
<1>9. CASE rx' = RxErrorsCleared(h) /\ h.state = "READY" /\ ~th.rxTeardown /\ r' = r
  <2>1. (th.rxTeardown /\ th.txTeardown) \/ r' = x \/ r' = [x EXCEPT !.rxWorkPending = TRUE]
    BY <1>1 DEF isrError, deferTxAbort, Bound
  <2>2. x \in RxState /\ ~x.started
    <3>1. voidActiveChunk(r) \in RxState
      BY <1>1, voidActiveChunkOK DEF RxOK
    <3> QED BY <1>1, <1>9, <3>1 DEF ErrorRx, RxState
  <2>3. ~r'.started
    <3> HIDE DEF x
    <3> QED BY <1>9, <2>1, <2>2 DEF RxState
  <2> QED BY <1>1, <1>4, <1>9, <2>3, SameStream
<1>10. rx' = h \/ (rx' = RxErrorsCleared(h) /\ h.state = "READY")
  BY DEF isrError
<1> QED BY <1>3, <1>6, <1>7, <1>8, <1>9, <1>10

\* A byte of the line goes where the channel writes, or waits in RDR.
LEMMA ByteStream ==
    ASSUME IInv, StreamInv, LineByte PROVE StreamInv'
<1>1. line \in Nat /\ heard \in Nat /\ rx \in RxHardware /\ r.queue \in Seq(Chunks) /\ Done \in Nat
      /\ line # 0
  BY StreamTypes DEF StreamInv
<1>2. line' = line + 1 /\ UNCHANGED <<r, th, stream>> /\ rx' = RxByteTaken(rx, line)
  BY DEF LineByte
<1>3. Done' = Done /\ heard' = heard /\ gapped' = gapped
  BY <1>2 DEF Done, At, stream
<1>4. NextByte(rx) \in Nat
  BY <1>1, NextByteType
<1>5. /\ Waiting(rx)' /\ NextByte(rx) <= NextByte(rx)' /\ NextByte(rx)' \in Nat
      /\ rx'.from = rx.from
      /\ Counted(rx) => Counted(rx')
      /\ rx.from + (ChunkSize - rx.remaining) = NextByte(rx)
            => rx'.from + (ChunkSize - rx'.remaining) = NextByte(rx)'
  <2>1. CASE rx.live /\ rx.remaining \in 1 .. ChunkSize
    <3>1. rx'.rdr = rx.rdr /\ rx'.remaining = rx.remaining - 1 /\ rx'.from = rx.from
      BY <1>1, <1>2, <2>1 DEF RxByteTaken, RxHardware
    <3>2. rx.rdr = 0
      BY <2>1 DEF StreamInv, Waiting
    <3>3. NextByte(rx)' = line + 1 /\ NextByte(rx) = line
      BY <1>2, <3>1, <3>2 DEF NextByte
    <3>4. rx.from \in Nat /\ rx.remaining \in Nat /\ ChunkSize \in Nat
      BY <1>1, HalAssumption DEF RxHardware, CorruptCount
    <3> QED BY <1>1, <1>2, <2>1, <3>1, <3>2, <3>3, <3>4 DEF Waiting, Counted
  <2>2. CASE ~(rx.live /\ rx.remaining \in 1 .. ChunkSize)
    <3>1. rx'.rdr = line /\ rx'.remaining = rx.remaining /\ rx'.from = rx.from
          /\ rx'.live = rx.live /\ rx.rdr = 0
      BY <1>1, <1>2, <2>2 DEF RxByteTaken, RxHardware, LineByte, CanTakeByte
    <3>2. NextByte(rx)' = line /\ NextByte(rx) = line
      BY <1>1, <3>1 DEF NextByte
    <3> QED BY <1>1, <1>2, <2>2, <3>1, <3>2 DEF Waiting, Counted
  <2> QED BY <2>1, <2>2
<1>6. Queued(r, rx)'
  <2>1. Below(r.queue, Done, heard, NextByte(rx)')
    BY <1>1, <1>4, <1>5, BelowLater DEF StreamInv, Queued
  <2> QED BY <1>2, <1>3, <2>1 DEF StreamInv, Queued
<1>7. Unclaimed(r)' /\ Windows' /\ Untouched'
  BY <1>2, <1>3 DEF StreamInv, Unclaimed, Windows, Untouched, At
<1>8. (Flowing => Counted(rx) /\ Aimed(r, rx))'
  BY <1>2, <1>3, <1>5 DEF StreamInv, Flowing, Aimed, Counted
<1>9. line' # 0
  BY <1>1, <1>2
<1> QED BY <1>5, <1>6, <1>7, <1>8, <1>9 DEF StreamInv

LEMMA HardwareStream ==
    ASSUME Races = {}, DmaInv, StreamInv, LineByte \/ Interrupt \/ Faulty
    PROVE  StreamInv' /\ UNCHANGED <<opening, heard, gapped>> /\ (line' = line \/ line' = line + 1)
<1>1. IInv /\ rx \in RxHardware /\ r \in RxState
  BY DEF DmaInv, IInv, RxOK
<1>2. UNCHANGED <<th, stream>> /\ (UNCHANGED line \/ LineByte)
  BY DEF LineByte, Interrupt, Faulty, RxIdle, RxComplete, TxMove, TxFreeChannel, TxDrain,
         TxComplete, RxIdleAbortFails, RxCorruptCount, RxEventWhileRunning, RxLineError,
         RxDmaFault, TxDmaFault, RxDies, TxStalls, TxCompletionIsLost, TxCompletesEarly
<1>3. ASSUME Fault PROVE th.pc # "unbound" /\ th.ret # "initCheck"
  BY <1>3 DEF Fault, InitSpared
<1>4. rx' \in RxHardware
  BY <1>1, InterruptStep, FaultyStep, LineByteStep DEF IInv
<1>5. CASE LineByte
  BY <1>1, <1>5, ByteStream DEF LineByte, stream
<1>6. StreamInv' \/ LineByte
  <2>1. CASE RxIdle \/ RxComplete
    <3>1. isrRxEvent(RxEnded(rx)) /\ rx.live /\ ~RxEndSpared
      BY <2>1 DEF RxIdle, RxComplete, Receiving
    <3> QED BY <1>1, <1>2, <2>1, <3>1, RxEventStream, RxOpsLeave, RxHardwareOps, RxChannelOps
            DEF Keeps, RxIdle, RxComplete, Receiving
  <2>2. CASE RxIdleAbortFails
    BY <1>1, <1>2, <1>3, <2>2, RxEventStream, RxOpsLeave, RxHardwareOps DEF Keeps, RxIdleAbortFails, Receiving
  <2>3. CASE RxCorruptCount
    <3>1. ~CountValid(RxEndedCorrupt(rx))
      BY <1>1, RxOpsLeave, HalAssumption DEF CountValid, CorruptCount
    <3> QED BY <1>1, <1>2, <1>3, <2>3, <3>1, RxEventStream, RxOpsLeave, RxHardwareOps DEF RxCorruptCount, Receiving
  <2>4. CASE RxEventWhileRunning
    BY <1>1, <1>2, <1>3, <2>4, RxEventStream, RxOpsLeave DEF Keeps, RxEventWhileRunning, Receiving
  <2>5. CASE RxLineError \/ RxDmaFault \/ TxDmaFault
    <3>1. \E h \in RxHardware, g \in TxHardware : isrError(h, g) /\ Keeps(rx, h)
      <4>1. tx \in TxHardware /\ TxFaulted(tx) \in TxHardware /\ TxSiblingFaulted(tx) \in TxHardware
        BY <1>1, TxHardwareOps DEF IInv, TxOK, Calmer
      <4> QED BY <1>1, <2>5, <4>1, RxOpsLeave, RxHardwareOps DEF RxLineError, RxDmaFault, TxDmaFault
    <3> QED BY <1>2, <1>3, <1>4, <2>5, <3>1, ErrorStream DEF RxLineError, RxDmaFault, TxDmaFault, DmaInv
  <2>6. CASE TxComplete \/ TxCompletesEarly
    <3>1. \E g : isrTxCplt(g) /\ UNCHANGED rx
      BY <2>6 DEF TxComplete, TxCompletesEarly
    <3>2. /\ r'.queue = r.queue /\ r'.active = r.active /\ r'.rxGapPending = r.rxGapPending
          /\ r'.started = r.started
      BY <1>1, <3>1 DEF isrTxCplt, deferTxAbort, RxState
    <3> QED BY <1>1, <1>2, <2>6, <3>1, <3>2, SameStream, RxOpsLeave DEF TxComplete, TxCompletesEarly, Keeps
  <2>7. CASE RxDies
    BY <1>1, <1>2, <1>4, <2>7, SameStream, RxOpsLeave DEF RxDies, Keeps
  <2>8. CASE TxMove \/ TxFreeChannel \/ TxDrain \/ TxStalls \/ TxCompletionIsLost
    BY <1>1, <1>2, <2>8, SameStream, RxOpsLeave DEF TxMove, TxFreeChannel, TxDrain, TxStalls, TxCompletionIsLost, Keeps
  <2> QED BY <1>2, <2>1, <2>2, <2>3, <2>4, <2>5, <2>6, <2>7, <2>8 DEF Interrupt, Faulty
<1> QED BY <1>2, <1>5, <1>6 DEF stream

(***************************************************************************)
(* The thread's steps.                                                     *)
(***************************************************************************)
\* A step of the thread that touches neither the channel nor the queue and lowers
\* no receive gate.
LEMMA PassStream ==
    ASSUME IInv, StreamInv, UNCHANGED <<line, stream, rx>>,
           r'.queue = r.queue, r'.active = r.active, r'.rxGapPending = r.rxGapPending,
           r'.started = r.started, th.pc \notin {"rsArm", "reclaimArm"},
           th.rxTeardown => th'.rxTeardown, At("pop") <=> th'.pc = "pop",
           Windows', Untouched'
    PROVE  StreamInv'
<1>1. Done' = Done /\ gapped' = gapped /\ rx \in RxHardware /\ rx' = rx
  BY StreamTypes DEF Done, At, stream
<1>2. Unclaimed(r)'
  BY <1>1 DEF StreamInv, Unclaimed
<1>3. Keeps(rx, rx)
  BY DEF Keeps, Leaves
<1> QED BY <1>1, <1>2, <1>3, QuietStream DEF Flowing, Keeps

\* The steps of this kind.
Aside ==
    \/ InitCall \/ RebaudCall \/ RebaudApply \/ (\E due \in BOOLEAN : Proceed(due))
    \/ Settle \/ Reraise \/ txLivenessAudit \/ FinishGate \/ FinishStop \/ FinishNotify
    \/ healthCheck \/ AllGate \/ AllNotify \/ ReclaimTest \/ ReclaimGate \/ ProceedTail
    \/ RestartGate

LEMMA AsideMoves ==
    ASSUME DmaInv, Aside
    PROVE  /\ th.pc \notin {"pop", "rsArm", "reclaimArm"}
           /\ th'.pc \notin {"pop", "announce", "unbound", "initCheck", "reclaimArm"}
           /\ th.rxTeardown => th'.rxTeardown
           /\ th'.pc = "reclaimGate" => r.active = None /\ UNCHANGED r
           /\ th'.pc = "reclaimStop" => th.pc = "reclaimGate" /\ th'.rxTeardown /\ UNCHANGED r
           /\ th'.ret = "initCheck" =>
                 th.pc = "unbound" \/ (th.ret = "initCheck" /\ th.pc = "rsGate")
<1>1. /\ th \in Thread
      /\ th.ret \in Returns /\ th.ret \notin {"pop", "announce", "unbound", "reclaimArm",
                                             "reclaimGate", "reclaimStop"}
      /\ th.ret = "initCheck" => th.pc \in {"unbound", "rsGate", "rsStop", "rsArm", "initCheck"}
  BY DEF DmaInv, IInv, ThreadOK, Thread, Returns, Parked, InitPass
<1> USE DEF Thread, At
<1>2. CASE InitCall
  BY <1>1, <1>2 DEF InitCall
<1>3. CASE RebaudCall \/ RebaudApply
  BY <1>1, <1>3 DEF RebaudCall, RebaudApply
<1>4. CASE \E due \in BOOLEAN : Proceed(due)
  BY <1>1, <1>4 DEF Proceed
<1>5. CASE Settle
  BY <1>1, <1>5 DEF Settle, Goto
<1>6. CASE Reraise
  BY <1>1, <1>6 DEF Reraise, Goto
<1>7. CASE txLivenessAudit
  <2>1. Goto("health") \/ FinishTx(TRUE) \/ FinishTx(FALSE)
    BY <1>7, Zenon DEF txLivenessAudit, Observe, CountStall
  <2>2. th.pc = "audit"
    BY <1>7 DEF txLivenessAudit
  <2> QED BY <1>1, <2>1, <2>2 DEF Goto, FinishTx
<1>8. CASE FinishGate \/ FinishStop
  BY <1>1, <1>8 DEF FinishGate, FinishStop
<1>9. CASE FinishNotify \/ AllNotify
  BY <1>1, <1>9 DEF FinishNotify, AllNotify
<1>10. CASE healthCheck
  <2>1. th'.pc \in {"reclaim", "allGate"} /\ th'.ret = th.ret /\ th'.rxTeardown = th.rxTeardown
    BY <1>1, <1>10 DEF healthCheck
  <2>2. th.pc = "health"
    BY <1>10 DEF healthCheck
  <2> QED BY <1>1, <2>1, <2>2
<1>11. CASE AllGate
  BY <1>1, <1>11 DEF AllGate
<1>12. CASE ReclaimTest
  BY <1>1, <1>12 DEF ReclaimTest, Goto
<1>13. CASE ReclaimGate
  BY <1>1, <1>13 DEF ReclaimGate
<1>14. CASE ProceedTail
  BY <1>1, <1>14 DEF ProceedTail
<1>15. CASE RestartGate
  BY <1>1, <1>15 DEF RestartGate
<1> QED BY <1>2, <1>3, <1>4, <1>5, <1>6, <1>7, <1>8, <1>9, <1>10, <1>11, <1>12, <1>13, <1>14,
           <1>15 DEF Aside

LEMMA AsideStream ==
    ASSUME DmaInv, StreamInv, Aside PROVE StreamInv' /\ UNCHANGED <<line, stream>>
<1>1. IInv /\ r \in RxState
  BY DEF DmaInv, IInv, RxOK
<1>2. /\ UNCHANGED <<line, stream, rx>>
      /\ r' = r \/ r' = [r EXCEPT !.rxWorkPending = FALSE] \/ r' = [r EXCEPT !.rxWorkPending = TRUE]
  BY DEF Aside, InitCall, RebaudCall, RebaudApply, Proceed, Settle, Reraise, txLivenessAudit,
         FinishGate, FinishStop, FinishNotify, healthCheck, AllGate, AllNotify, ReclaimTest,
         ReclaimGate, ProceedTail, RestartGate, Quiet, hardware
<1>3. /\ r'.queue = r.queue /\ r'.active = r.active /\ r'.rxGapPending = r.rxGapPending
      /\ r'.started = r.started
  BY <1>1, <1>2 DEF RxState
<1>4. Windows'
  BY <1>3, AsideMoves DEF StreamInv, Windows, At
<1>5. Untouched'
  <2>1. gapped' = gapped
    BY <1>2 DEF stream
  <2> QED BY <1>3, <2>1, AsideMoves DEF StreamInv, Untouched
<1> QED BY <1>1, <1>2, <1>3, <1>4, <1>5, AsideMoves, PassStream DEF At

LEMMA SendStream ==
    ASSUME IInv, StreamInv, Send PROVE StreamInv' /\ UNCHANGED <<line, stream>>
<1>1. UNCHANGED <<line, stream, rx, r, th>> /\ th.pc \notin {"rsArm", "reclaimArm"}
  BY DEF Send
<1>2. Windows' /\ Untouched'
  BY <1>1 DEF StreamInv, Windows, Untouched, At, stream
<1> QED BY <1>1, <1>2, PassStream DEF At

\* The steps that stop the reception: the next one starts behind a gap.
LEMMA StopStream ==
    ASSUME DmaInv, StreamInv, RebaudStop \/ ReclaimStop \/ RestartStop \/ AllStop
    PROVE  StreamInv' /\ UNCHANGED <<line, stream>>
<1>1. /\ IInv /\ rx \in RxHardware /\ r \in RxState /\ RxOK(r) /\ th \in Thread
      /\ th.ret \in Returns
      /\ th.ret = "initCheck" => th.pc \in {"unbound", "rsGate", "rsStop", "rsArm", "initCheck"}
      /\ line \in Nat /\ heard \in Nat /\ Done \in 0 .. Len(r.queue)
  BY StreamTypes DEF DmaInv, Parked, InitPass, Thread
<1>2. UNCHANGED <<line, stream>> /\ gapped' = gapped
  BY DEF RebaudStop, ReclaimStop, RestartStop, AllStop, Quiet, stream
<1>3. /\ RxStopped(rx) \in RxHardware /\ RxStopFailed(rx) \in RxHardware
      /\ Leaves(rx, RxStopped(rx)) /\ Leaves(rx, RxStopFailed(rx)) /\ Leaves(rx, rx)
  BY <1>1, RxHardwareOps, RxOpsLeave DEF Keeps
<1>4. ASSUME rx' \in {rx, RxStopped(rx), RxStopFailed(rx)}, ~At("pop"), th'.pc # "pop",
             r' = r \/ r' = [r EXCEPT !.started = FALSE],
             ~r'.started \/ th'.pc \in {"rsArm", "reclaimArm"}, Windows', Untouched'
      PROVE  StreamInv'
  <2>1. r'.queue = r.queue /\ r'.active = r.active /\ r'.rxGapPending = r.rxGapPending
    BY <1>1, <1>4 DEF RxState
  <2>2. Done' = Done /\ ~Flowing'
    BY <1>4 DEF Done, At, Flowing
  <2>3. Unclaimed(r)'
    BY <1>2, <2>1, <2>2 DEF StreamInv, Unclaimed
  <2> QED BY <1>1, <1>2, <1>3, <1>4, <2>1, <2>2, <2>3, QuietStream
<1>5. CASE RebaudStop
  <2>1. /\ rx' \in {RxStopped(rx), RxStopFailed(rx)} /\ th.pc = "baudStop"
        /\ r' = [r EXCEPT !.started = FALSE]
        /\ \E l \in {"baudApply", "idle"} : th' = [th EXCEPT !.pc = l, !.rxTeardown = FALSE]
    BY <1>5, Zenon DEF RebaudStop, StopRxFails, At
  <2>2. ~r'.started /\ th'.pc \in {"baudApply", "idle"} /\ th'.ret = th.ret
    BY <1>1, <2>1 DEF Thread, RxState
  <2>3. Windows' /\ Untouched'
    BY <1>1, <2>1, <2>2 DEF Windows, Untouched, At
  <2> QED BY <1>2, <1>4, <2>1, <2>2, <2>3 DEF At
<1>6. CASE ReclaimStop
  <2>1. /\ rx' \in {RxStopped(rx), RxStopFailed(rx)} /\ th.pc = "reclaimStop"
        /\ \/ r' = r /\ th' = [th EXCEPT !.pc = "reclaimArm", !.rxTeardown = FALSE]
           \/ /\ r' = [r EXCEPT !.started = FALSE]
              /\ th' = [th EXCEPT !.pc = "tail", !.rxTeardown = FALSE]
    BY <1>6, Zenon DEF ReclaimStop, StopRxFails, At
  <2>2. th'.ret = th.ret /\ r'.active = r.active
        /\ (th'.pc = "reclaimArm" \/ (th'.pc = "tail" /\ ~r'.started))
    BY <1>1, <2>1 DEF Thread, RxState
  <2>3. Windows' /\ Untouched'
    BY <1>1, <2>1, <2>2 DEF Windows, Untouched, At, StreamInv
  <2> QED BY <1>2, <1>4, <2>1, <2>2, <2>3 DEF At
<1>7. CASE RestartStop
  <2>1. /\ rx' \in {RxStopped(rx), RxStopFailed(rx)} /\ th.pc = "rsStop"
        /\ \/ r' = r /\ th' = [th EXCEPT !.pc = "rsArm", !.rxTeardown = FALSE]
           \/ /\ r' = [r EXCEPT !.started = FALSE]
              /\ th' = [th EXCEPT !.pc = th.ret, !.rxTeardown = FALSE]
    BY <1>7, Zenon DEF RestartStop, StopRxFails, At
  <2>2. /\ th'.ret = th.ret /\ r'.queue = r.queue /\ r'.active = r.active
        /\ th'.pc = "rsArm" \/ (th'.pc = th.ret /\ ~r'.started)
    BY <1>1, <2>1 DEF Thread, RxState
  <2>3. th'.pc \notin {"announce", "pop", "reclaimGate", "reclaimStop", "reclaimArm", "unbound"}
    BY <1>1, <2>2 DEF Returns
  <2>4. Windows' /\ Untouched'
    BY <1>1, <1>2, <2>1, <2>2, <2>3 DEF Windows, Untouched, At, StreamInv
  <2> QED BY <1>2, <1>4, <2>1, <2>2, <2>3, <2>4 DEF At
<1>8. CASE AllStop
  <2>1. th.pc = "allStop" /\ th.ret # "initCheck"
    BY <1>1, <1>8 DEF AllStop, At
  <2>2. CASE /\ rx' = RxStopped(rx)
             /\ r' = [voidActiveChunk(r) EXCEPT !.started = FALSE]
             /\ th' = [th EXCEPT !.pc = "allNotify", !.rxTeardown = FALSE, !.txTeardown = FALSE]
    <3> DEFINE v == voidActiveChunk(r)
    <3>1. v \in RxState /\ v.active = None /\ v.rxGapPending = r.rxGapPending
      BY <1>1, voidActiveChunkOK, VoidStream DEF StreamInv, RxOK
    <3>2. r'.queue = v.queue /\ r'.active = None /\ r'.rxGapPending = r.rxGapPending
          /\ ~r'.started
      <4> HIDE DEF v
      <4> QED BY <2>2, <3>1 DEF RxState, v
    <3>3. th'.pc = "allNotify" /\ th'.ret = th.ret
      BY <1>1, <2>2 DEF Thread
    <3>4. Done' = Done
      BY <2>1, <3>3 DEF Done, At
    <3> QED BY <1>1, <1>2, <1>3, <2>1, <2>2, <3>2, <3>3, <3>4, VoidedStream
  <2>3. CASE /\ rx' \in {rx, RxStopFailed(rx)} /\ r' = [r EXCEPT !.started = FALSE]
             /\ th' = [th EXCEPT !.pc = "reclaim", !.rxTeardown = FALSE,
                                 !.txTeardown = FALSE, !.notify = FALSE]
    <3>1. ~r'.started /\ th'.pc = "reclaim" /\ th'.ret = th.ret
      BY <1>1, <2>3 DEF Thread, RxState
    <3>2. Windows' /\ Untouched'
      BY <2>1, <3>1 DEF Windows, Untouched, At
    <3> QED BY <1>2, <1>4, <2>1, <2>3, <3>1, <3>2 DEF At
  <2> QED BY <1>2, <1>8, <2>2, <2>3 DEF AllStop
<1> QED BY <1>2, <1>5, <1>6, <1>7, <1>8

LEMMA ArmStepStream ==
    ASSUME DmaInv, StreamInv, ReclaimArm \/ RestartArm
    PROVE  StreamInv' /\ UNCHANGED <<line, stream>>
<1>1. /\ IInv /\ rx \in RxHardware /\ r \in RxState /\ RxOK(r) /\ th \in Thread
      /\ th.ret \in Returns /\ line \in Nat /\ heard \in Nat /\ Done \in 0 .. Len(r.queue)
      /\ th.ret = "initCheck" => th.pc \in {"unbound", "rsGate", "rsStop", "rsArm", "initCheck"}
  BY StreamTypes DEF DmaInv, Parked, InitPass, Thread
<1>2. UNCHANGED <<line, stream>> /\ gapped' = gapped
  BY DEF ReclaimArm, RestartArm, Quiet, stream
<1>3. rx' \in RxHardware
  BY <1>1, ArmStep DEF IInv
<1>4. CASE ReclaimArm
  <2>1. th.pc = "reclaimArm" /\ th'.pc = "tail" /\ th'.ret = th.ret /\ th.ret # "initCheck"
    BY <1>1, <1>4 DEF ReclaimArm, Goto, Thread, At
  <2>2. r.active = None
    BY <2>1 DEF StreamInv, Windows
  <2>3. Done' = Done /\ Windows' /\ Untouched'
    BY <2>1 DEF Done, Windows, Untouched, At
  <2>4. CASE rx' = rx /\ r'.queue = r.queue /\ r'.active = None
             /\ r'.rxGapPending = r.rxGapPending /\ ~r'.started
    <3>1. Unclaimed(r)' /\ ~Flowing' /\ Leaves(rx, rx')
      BY <1>2, <2>2, <2>3, <2>4 DEF StreamInv, Unclaimed, Flowing, Leaves
    <3> QED BY <1>1, <1>2, <1>3, <2>3, <2>4, <3>1, QuietStream
  <2>5. CASE CountValid(rx) /\ receiveArm(publishReceived(r, rx), rx)
    <3>1. publishReceived(r, rx) = r
      BY <2>2 DEF publishReceived, publishActive
    <3>2. Joined(r, rx) /\ Waiting(rx) /\ Queued(r, rx)
      BY <2>2, UnclaimedJoins DEF StreamInv
    <3> QED BY <1>1, <1>2, <1>3, <2>3, <2>5, <3>1, <3>2, ArmedStream
  <2>6. CASE r' = rejectDmaCount(r) /\ UNCHANGED rx
    <3>1. rejectDmaCount(r) = [r EXCEPT !.started = FALSE]
      BY <2>2 DEF rejectDmaCount, voidActiveChunk
    <3> QED BY <1>1, <2>2, <2>4, <2>6, <3>1 DEF RxState
  <2> QED BY <1>2, <1>4, <2>2, <2>4, <2>5, <2>6 DEF ReclaimArm
<1>5. CASE RestartArm
  <2> DEFINE s == voidActiveChunk(r)
             h == RxErrorsCleared(rx)
  <2>1. th.pc = "rsArm" /\ th'.pc = th.ret /\ th'.ret = th.ret /\ receiveArm(s, h)
    BY <1>1, <1>5 DEF RestartArm, Goto, Thread, At
  <2>2. /\ RxOK(s) /\ Queued(s, rx) /\ Unclaimed(s) /\ s.active = None
        /\ (r.active = None => s = r)
    BY <1>1, voidActiveChunkOK, VoidStream DEF StreamInv
  <2>3. h \in RxHardware /\ Waiting(h) /\ NextByte(rx) <= NextByte(h)
        /\ NextByte(rx) \in Nat /\ NextByte(h) \in Nat
    BY <1>1, RxHardwareOps, RxOpsLeave, LeavingWaits, NextByteType DEF StreamInv
  <2>4. s.queue \in Seq(Chunks) /\ Done \in 0 .. Len(s.queue)
    BY <1>1, VoidStream DEF StreamInv
  <2> HIDE DEF s, h
  <2>5. Queued(s, h) /\ Joined(s, h)
    <3>1. Below(s.queue, Done, heard, NextByte(h))
      BY <1>1, <2>2, <2>3, <2>4, BelowLater DEF Queued
    <3> QED BY <2>2, <3>1, UnclaimedJoins DEF Queued
  <2>6. Done' = Done /\ Windows'
    BY <1>1, <2>1 DEF Done, Windows, At, Returns
  <2>7. Done \in 0 .. Len(s.queue) /\ line # 0
    BY <1>1, <2>4 DEF StreamInv
  <2>8. r'.queue = s.queue
    BY <1>1, <2>1, <2>2, <2>3, <2>5, <2>7, ArmStream
  <2>9. Untouched'
    <3>1. th'.pc # "unbound"
      BY <1>1, <2>1 DEF Returns
    <3> QED BY <1>2, <2>1, <2>2, <2>8, <3>1 DEF StreamInv, Untouched
  <2> QED BY <1>1, <1>2, <1>3, <2>1, <2>2, <2>3, <2>5, <2>6, <2>7, <2>9, ArmedStream
<1> QED BY <1>4, <1>5

LEMMA InitCheckStream ==
    ASSUME DmaInv, StreamInv, InitCheck PROVE StreamInv' /\ UNCHANGED <<line, stream>>
<1>1. IInv /\ rx \in RxHardware /\ r \in RxState /\ th \in Thread
      /\ th.pc = "initCheck" /\ th.ret = "initCheck" /\ UNCHANGED <<line, stream, rx>>
  BY StreamTypes DEF DmaInv, Parked, InitCheck, Quiet, At
<1>2. CASE r.started
  <2>1. UNCHANGED r /\ th'.pc = "idle" /\ th'.ret = "idle" /\ th'.rxTeardown = th.rxTeardown
    BY <1>1, <1>2 DEF InitCheck, Thread
  <2>2. Windows' /\ Untouched'
    BY <2>1 DEF Windows, Untouched, At
  <2> QED BY <1>1, <2>1, <2>2, PassStream DEF At
<1>3. CASE ~r.started
  <2>1. /\ r'.queue = r.queue /\ r'.active = None /\ ~r'.started
        /\ th'.pc = "unbound" /\ gapped' = gapped
    BY <1>1, <1>3 DEF InitCheck, Thread, RxState, stream
  <2>2. r.queue = <<>> /\ gapped
    BY <1>1, <1>3 DEF StreamInv, Untouched
  <2>3. Done = 0 /\ Done' = 0
    BY <1>1, <2>1 DEF Done, At
  <2>4. Unclaimed(r)' /\ Windows' /\ Untouched' /\ ~Flowing' /\ Leaves(rx, rx')
    BY <1>1, <2>1, <2>2, <2>3
       DEF Unclaimed, Severed, Windows, Untouched, Flowing, At, Leaves
  <2> QED BY <1>1, <2>1, <2>3, <2>4, QuietStream
<1> QED BY <1>1, <1>2, <1>3
\* The head of the queue is handed to the handler, or its gap reported.
LEMMA DeliverStream ==
    ASSUME DmaInv, StreamInv, Deliver
    PROVE  StreamInv' /\ UNCHANGED line /\ [Stream!Next]_<<line, opening, heard, gapped>>
<1>1. /\ IInv /\ rx \in RxHardware /\ r \in RxState /\ th \in Thread /\ th.pc = "drain"
      /\ th.ret # "initCheck" /\ line \in Nat /\ heard \in Nat /\ r.queue \in Seq(Chunks)
      /\ UNCHANGED <<line, rx, r>> /\ Done = 0
  BY StreamTypes DEF DmaInv, Parked, InitPass, Deliver, hardware, At, Done
<1>2. CASE r.queue = <<>>
  <2>1. th'.pc = "announce" /\ th'.ret = th.ret /\ th'.rxTeardown = th.rxTeardown /\ UNCHANGED stream
    BY <1>1, <1>2 DEF Deliver, Goto, Thread
  <2>2. Windows' /\ Untouched'
    BY <1>1, <1>2, <2>1 DEF Windows, Untouched, At
  <2> QED BY <1>1, <2>1, <2>2, PassStream DEF At, stream
<1>3. CASE r.queue # <<>>
  <2>1. th'.pc = "pop" /\ th'.ret = th.ret /\ th'.rxTeardown = th.rxTeardown
    BY <1>1, <1>3 DEF Deliver, Goto, Thread
  <2>2. Done' = 1 /\ Len(r.queue) \in Nat /\ Len(r.queue) >= 1
        /\ Head(r.queue) = r.queue[1] /\ r.queue[1].from \in Nat /\ r.queue[1].size \in Nat
    BY <1>1, <1>3, <2>1, ChunkFields DEF Done, At
  <2>3. \/ Head(r.queue).size = 0 /\ gapped' = TRUE /\ heard' = heard /\ opening' = opening
        \/ /\ Head(r.queue).size > 0 /\ gapped' = FALSE /\ opening' = Head(r.queue).from
           /\ heard' = Head(r.queue).from + Head(r.queue).size - 1
    BY <1>3, <2>2 DEF Deliver
  <2>4. NextByte(rx) \in Nat /\ NextByte(rx) <= line
    BY <1>1, NextByteType DEF StreamInv
  <2>5. /\ Ordered(r.queue, 1, heard', gapped')
        /\ \A n \in Nat : Below(r.queue, 0, heard, n) => Below(r.queue, 1, heard', n)
        /\ \A n \in Nat : Follows(r.queue, 0, Len(r.queue), heard, gapped, n)
                             => Follows(r.queue, 1, Len(r.queue), heard', gapped', n)
        /\ Severed(r.queue, 0, gapped) => Severed(r.queue, 1, gapped')
    <3>1. Ordered(r.queue, 0, heard, gapped)
      BY <1>1 DEF StreamInv, Queued
    <3> QED BY <1>1, <1>3, <2>3, <3>1, HandedOver
  <2>6. Queued(r, rx)'
    BY <1>1, <2>2, <2>4, <2>5 DEF StreamInv, Queued, NextByte
  <2>7. Unclaimed(r)'
    BY <1>1, <2>2, <2>5 DEF StreamInv, Unclaimed
  <2>8. (Flowing => Counted(rx) /\ Aimed(r, rx))'
    <3> SUFFICES ASSUME Flowing' PROVE Counted(rx)' /\ Aimed(r, rx)'
      OBVIOUS
    <3>1. Flowing
      BY <1>1, <2>1 DEF Flowing
    <3>2. rx.from \in Nat
      BY <1>1 DEF RxHardware
    <3> QED BY <1>1, <2>2, <2>5, <3>1, <3>2 DEF StreamInv, Aimed, Counted, NextByte
  <2>9. Waiting(rx)' /\ line' # 0
    BY <1>1 DEF StreamInv, Waiting
  <2>10. Windows' /\ Untouched'
    BY <1>1, <2>1 DEF Windows, Untouched, At
  <2>11. Stream!Hear \/ Stream!Gap
    <3>1. CASE Head(r.queue).size = 0
      BY <1>1, <2>3, <3>1 DEF Stream!Gap
    <3>2. CASE Head(r.queue).size > 0
      <4>1. heard < r.queue[1].from /\ (gapped \/ r.queue[1].from = heard + 1)
        BY <1>1, <2>2, <3>2 DEF StreamInv, Queued, Ordered, Follows
      <4>2. r.queue[1].from + r.queue[1].size <= NextByte(rx)
        BY <1>1, <2>2, <3>2 DEF StreamInv, Queued, Below
      <4> QED BY <1>1, <2>2, <2>3, <2>4, <3>2, <4>1, <4>2 DEF Stream!Hear
    <3> QED BY <2>2, <3>1, <3>2
  <2> QED BY <1>1, <2>6, <2>7, <2>8, <2>9, <2>10, <2>11 DEF StreamInv, Stream!Next
<1> QED BY <1>2, <1>3

LEMMA PopStream ==
    ASSUME DmaInv, StreamInv, Pop PROVE StreamInv' /\ UNCHANGED <<line, stream>>
<1>1. /\ IInv /\ rx \in RxHardware /\ r \in RxState /\ th \in Thread /\ th.pc = "pop"
      /\ th.ret # "initCheck" /\ line \in Nat /\ heard \in Nat /\ r.queue \in Seq(Chunks)
      /\ UNCHANGED <<line, rx, stream>> /\ Done = 1 /\ r.queue # <<>>
  BY StreamTypes DEF DmaInv, Parked, InitPass, Pop, hardware, At, Done
<1>2. /\ th'.pc = "drain" /\ th'.ret = th.ret /\ th'.rxTeardown = th.rxTeardown
      /\ r'.queue = Tail(r.queue) /\ r'.active = r.active /\ r'.rxGapPending = r.rxGapPending
      /\ r'.started = r.started
  BY <1>1 DEF Pop, Goto, Thread, RxState
<1>3. Done' = 0 /\ heard' = heard /\ gapped' = gapped
  BY <1>1, <1>2 DEF Done, At, stream
<1>4. NextByte(rx) \in Nat /\ rx.from \in Nat
  BY <1>1, NextByteType DEF RxHardware
<1>5. /\ Ordered(r'.queue, 0, heard, gapped)
      /\ \A n \in Nat : Below(r.queue, 1, heard, n) => Below(r'.queue, 0, heard, n)
      /\ \A n \in Nat : Follows(r.queue, 1, Len(r.queue), heard, gapped, n)
                           => Follows(r'.queue, 0, Len(r'.queue), heard, gapped, n)
      /\ Severed(r.queue, 1, gapped) => Severed(r'.queue, 0, gapped)
  BY <1>1, <1>2, Popped DEF StreamInv, Queued
<1>6. Queued(r, rx)'
  BY <1>1, <1>3, <1>4, <1>5 DEF StreamInv, Queued, NextByte
<1>7. Unclaimed(r)'
  BY <1>1, <1>2, <1>3, <1>5 DEF StreamInv, Unclaimed
<1>8. (Flowing => Counted(rx) /\ Aimed(r, rx))'
  <2> SUFFICES ASSUME Flowing' PROVE Counted(rx)' /\ Aimed(r, rx)'
    OBVIOUS
  <2>1. Flowing
    BY <1>1, <1>2 DEF Flowing
  <2> QED BY <1>1, <1>2, <1>3, <1>4, <1>5, <2>1 DEF StreamInv, Aimed, Counted, NextByte
<1>9. Waiting(rx)' /\ line' # 0 /\ Windows' /\ Untouched'
  BY <1>1, <1>2 DEF StreamInv, Waiting, Windows, Untouched, At
<1> QED BY <1>1, <1>6, <1>7, <1>8, <1>9 DEF StreamInv

\* The overflow is reported once the queue behind it has been handed over.
LEMMA AnnounceStream ==
    ASSUME DmaInv, StreamInv, announceGap
    PROVE  StreamInv' /\ UNCHANGED line /\ [Stream!Next]_<<line, opening, heard, gapped>>
<1>1. /\ IInv /\ rx \in RxHardware /\ r \in RxState /\ RxOK(r) /\ th \in Thread
      /\ th.pc = "announce" /\ th.ret # "initCheck" /\ line \in Nat /\ heard \in Nat
      /\ UNCHANGED <<line, rx, opening, heard>> /\ Done = 0
  BY StreamTypes DEF DmaInv, Parked, InitPass, announceGap, hardware, At, Done
<1>2. th'.pc \in {"audit", "reclaim"} /\ th'.ret = th.ret /\ th'.rxTeardown = th.rxTeardown
  BY <1>1 DEF announceGap, Goto, Thread
<1>3. Windows' /\ Untouched' /\ Done' = 0
  BY <1>1, <1>2 DEF Windows, Untouched, At, Done
<1>4. CASE ~r.rxGapPending
  <2>1. UNCHANGED <<r, stream>>
    BY <1>1, <1>4 DEF announceGap, stream
  <2> QED BY <1>1, <1>2, <1>3, <2>1, PassStream DEF At, stream
<1>5. CASE r.rxGapPending
  <2>1. r.queue = <<>> /\ r.active = None
    BY <1>1, <1>5 DEF StreamInv, Windows, At, RxOK
  <2>2. r'.queue = <<>> /\ r'.active = None /\ r'.started = r.started /\ gapped' = TRUE
    BY <1>1, <1>5, <2>1 DEF announceGap, RxState
  <2>3. /\ Ordered(r'.queue, 0, heard, gapped') /\ Below(r'.queue, 0, heard, NextByte(rx))
        /\ Severed(r'.queue, 0, gapped')
    BY <1>1, <2>1, <2>2 DEF StreamInv, Queued, Ordered, Below, Severed
  <2>4. Queued(r, rx)' /\ Unclaimed(r)' /\ Waiting(rx)' /\ line' # 0
    BY <1>1, <1>3, <2>3 DEF StreamInv, Queued, Unclaimed, Waiting, NextByte
  <2>5. (Flowing => Counted(rx) /\ Aimed(r, rx))'
    <3> SUFFICES ASSUME Flowing' PROVE Counted(rx)' /\ Aimed(r, rx)'
      OBVIOUS
    <3>1. Flowing
      BY <1>1, <1>2, <2>2 DEF Flowing
    <3> QED BY <1>1, <2>2, <3>1 DEF StreamInv, Aimed, Counted
  <2>6. Stream!Gap
    BY <1>1, <2>2 DEF Stream!Gap
  <2> QED BY <1>1, <1>3, <2>4, <2>5, <2>6 DEF StreamInv, Stream!Next
<1> QED BY <1>4, <1>5

\* Every step keeps the invariant, and is a step of the stream or leaves it alone.
LEMMA StreamStep ==
    ASSUME Races = {}, DmaInv, StreamInv, [Next]_vars
    PROVE  StreamInv' /\ [Stream!Next]_<<line, opening, heard, gapped>>
<1>1. ASSUME StreamInv', UNCHANGED <<line, stream>>
      PROVE  StreamInv' /\ [Stream!Next]_<<line, opening, heard, gapped>>
  BY <1>1 DEF stream
<1>2. CASE LineByte \/ Interrupt \/ Faulty
  <2>1. StreamInv' /\ UNCHANGED <<opening, heard, gapped>> /\ (line' = line \/ line' = line + 1)
    BY <1>2, HardwareStream
  <2> QED BY <2>1 DEF Stream!Next, Stream!Arrive
<1>3. CASE Aside
  BY <1>1, <1>3, AsideStream
<1>4. CASE Send
  BY <1>1, <1>4, SendStream DEF DmaInv
<1>5. CASE RebaudStop \/ ReclaimStop \/ RestartStop \/ AllStop
  BY <1>1, <1>5, StopStream
<1>6. CASE ReclaimArm \/ RestartArm
  BY <1>1, <1>6, ArmStepStream
<1>7. CASE InitCheck \/ Pop
  BY <1>1, <1>7, InitCheckStream, PopStream
<1>8. CASE Deliver \/ announceGap
  BY <1>8, DeliverStream, AnnounceStream
<1>9. CASE UNCHANGED vars
  <2>1. UNCHANGED <<line, stream, rx, r, th>> /\ IInv
    BY <1>9 DEF vars, hardware, DmaInv
  <2>2. StreamInv'
    BY <2>1 DEF StreamInv, Waiting, Queued, Unclaimed, Flowing, Counted, Aimed, Windows,
                Untouched, NextByte, Done, At, stream
  <2> QED BY <1>1, <2>1, <2>2
<1>10. Application => Aside \/ Send
  BY Zenon DEF Application, Aside
<1>11. Service => \/ Aside \/ RebaudStop \/ ReclaimStop \/ RestartStop \/ AllStop
                  \/ ReclaimArm \/ RestartArm \/ InitCheck \/ Pop \/ Deliver \/ announceGap
  BY DEF Service, Aside
<1> QED BY <1>2, <1>3, <1>4, <1>5, <1>6, <1>7, <1>8, <1>9, <1>10, <1>11 DEF Next

\* The driver hands over the stream it received: each byte once and in order, and
\* never two runs as neighbours that were not, unless it reported a gap between
\* them (GapHandler, Uart.h:347-353) - whatever faults, failed calls and count
\* registers do, as long as none of the windows named in Races is entered.
THEOREM UartStreamIsFaithful == ASSUME Races = {} PROVE Spec => StreamFaithful
<1>1. Init => StreamInv /\ Stream!Init
  <2> SUFFICES ASSUME Init PROVE StreamInv /\ Stream!Init
    OBVIOUS
  <2>1. /\ line = 1 /\ opening = 0 /\ heard = 0 /\ gapped = TRUE /\ r.queue = <<>>
        /\ r.active = None /\ ~r.started /\ rx.rdr = 0 /\ th.pc = "unbound"
    BY DEF Init, RxReset
  <2>2. Queued(r, rx) /\ Unclaimed(r)
    BY <2>1 DEF Queued, Unclaimed, Ordered, Below, Severed, NextByte, Done, At
  <2> QED BY <2>1, <2>2 DEF StreamInv, Waiting, Flowing, Windows, Untouched, At, Stream!Init
<1>2. DmaInv /\ StreamInv /\ [Next]_vars
         => StreamInv' /\ [Stream!Next]_<<line, opening, heard, gapped>>
  BY StreamStep
<1>3. Spec => []DmaInv
  BY DmaInductive
<1> QED BY <1>1, <1>2, <1>3, PTL DEF Spec, StreamFaithful, Stream!Spec

-----------------------------------------------------------------------------
(***************************************************************************)
(* CTS: the peer holds the frame.                                          *)
(*                                                                         *)
(* While nothing has struck, the watchdog finds nothing to recover from:   *)
(* its samples are taken where the receiver waits for its first byte, no   *)
(* completion was deferred, and a sample under CTS settles a frame only as *)
(* sent.                                                                   *)
(***************************************************************************)
Undisturbed == line = 1 /\ faults = 0 /\ fails = 0
Finishing == th.pc \in {"finGate", "finStop", "finNotify"}

\* A reception armed, with nothing received.
Listening(h) == h.state = "BUSY" /\ h.dmar /\ h.remaining = ChunkSize

Still ==
    /\ ~errorCode /\ ~rx.err /\ ~tx.err /\ rx.rdr = 0
    /\ ~t.txAbortPending /\ verdict # "failed"
    /\ Finishing => th.outcome
    /\ th.pc \notin {"allGate", "allStop", "allNotify"}
    /\ th.rxTeardown => th.pc \in {"baudStop", "rsStop", "reclaimStop"}
    /\ th.pc = "unbound" => ~r.started
    /\ Flowing => Listening(rx)

HoldInv == line # 0 /\ (Undisturbed => Still)

\* The counts only grow.
LEMMA NothingIsForgotten ==
    ASSUME IInv, line # 0, Next
    PROVE  /\ line' # 0
           /\ Undisturbed' => Undisturbed /\ UNCHANGED <<line, faults, fails>>
<1>1. line \in Nat /\ faults \in Nat /\ fails \in Nat
  BY DEF IInv, RestOK
<1>2. ASSUME line' \in {line, line + 1}, faults' \in {faults, faults + 1},
             fails' \in {fails, fails + 1}
      PROVE  line' # 0 /\ (Undisturbed' => Undisturbed /\ UNCHANGED <<line, faults, fails>>)
  BY <1>1, <1>2 DEF Undisturbed
<1>3. ASSUME NEW s, NEW h, receiveArm(s, h) PROVE fails' \in {fails, fails + 1}
  BY <1>3 DEF receiveArm
<1>4. ASSUME NEW h, isrRxEvent(h) PROVE fails' \in {fails, fails + 1}
  BY <1>3, <1>4 DEF isrRxEvent
<1>5. CASE LineByte \/ Interrupt \/ Faulty
  BY <1>2, <1>4, <1>5
     DEF LineByte, Interrupt, Faulty, RxIdle, RxComplete, TxMove, TxFreeChannel, TxDrain,
         TxComplete, Fault, RxIdleAbortFails, RxCorruptCount, RxEventWhileRunning, RxLineError,
         RxDmaFault, TxDmaFault, RxDies, TxStalls, TxCompletionIsLost, TxCompletesEarly
<1>6. CASE Application
  BY <1>2, <1>6 DEF Application, InitCall, Send, RebaudCall, Proceed, Quiet
<1>7. CASE ReclaimArm \/ RestartArm
  BY <1>2, <1>3, <1>7 DEF ReclaimArm, RestartArm, Quiet
<1>8. CASE RebaudStop \/ FinishStop \/ AllStop \/ ReclaimStop \/ RestartStop
  BY <1>2, <1>8 DEF RebaudStop, FinishStop, AllStop, ReclaimStop, RestartStop, StopRxFails, Quiet
<1>9. CASE Service /\ ~(ReclaimArm \/ RestartArm)
           /\ ~(RebaudStop \/ FinishStop \/ AllStop \/ ReclaimStop \/ RestartStop)
  BY <1>2, <1>9
     DEF Service, InitCheck, RebaudApply, Settle, Reraise, Deliver, Pop, announceGap,
         txLivenessAudit, FinishGate, FinishNotify, healthCheck, AllGate, AllNotify,
         ReclaimTest, ReclaimGate, ProceedTail, RestartGate, Quiet, hardware
<1> QED BY <1>5, <1>6, <1>7, <1>8, <1>9 DEF Next

\* An arm whose call does not fail listens, or leaves the reception stopped.
LEMMA ArmListens ==
    ASSUME NEW s \in RxState, RxOK(s), NEW h \in RxHardware, h.rdr = 0, receiveArm(s, h),
           UNCHANGED fails, fails \in Nat, ~h.err
    PROVE  ~rx'.err /\ rx'.rdr = 0 /\ (r'.started => Listening(rx'))
<1> DEFINE c == Claimed(s)
<1>1. c \in RxState
  BY ClaimedOK DEF RxOK
<1>2. \/ /\ rx' = RxArmed(h, IF c.active = None THEN Drop ELSE c.active, line)
         /\ r' = [c EXCEPT !.started = TRUE]
      \/ rx' = h /\ r' = [c EXCEPT !.started = FALSE]
  BY Zenon DEF receiveArm
<1> HIDE DEF c
<1> QED BY <1>1, <1>2 DEF RxArmed, Listening, RxState

LEMMA RxEventIsStill ==
    ASSUME IInv, Still, isrRxEvent(RxEnded(rx)), UNCHANGED <<tx, errorCode, t, th, loan, fails>>
    PROVE  Still'
<1> DEFINE h == RxEnded(rx)
<1>1. /\ rx \in RxHardware /\ r \in RxState /\ RxOK(r) /\ fails \in Nat /\ h \in RxHardware
      /\ th \in Thread
  BY RxHardwareOps DEF IInv, RxOK, RestOK, ThreadOK
<1>2. h.state = "READY" /\ h.dma = "READY" /\ h.rdr = 0 /\ ~h.err
  BY <1>1 DEF RxEnded, RxHardware, Still
<1>3. Still /\ UNCHANGED <<tx, errorCode, t, th, verdict, told, sent>>
  BY DEF loan
<1>4. CASE ~Bound \/ ~r.started \/ th.rxTeardown
  <2>1. rx' = h /\ r' = r
    BY <1>4 DEF isrRxEvent
  <2>2. ~Flowing
    BY <1>4 DEF Bound, Flowing, Still
  <2> HIDE DEF h
  <2> QED BY <1>2, <1>3, <2>1, <2>2 DEF Still, Flowing, Finishing
<1>5. CASE Bound /\ r.started /\ ~th.rxTeardown
  <2>1. \/ rx' = h /\ r' = rejectDmaCount(r)
        \/ CountValid(h) /\ receiveArm(publishReceived(r, h), h)
    BY <1>2, <1>5 DEF isrRxEvent
  <2> HIDE DEF h
  <2>2. CASE rx' = h /\ r' = rejectDmaCount(r)
    <3>1. ~r'.started
      <4>1. voidActiveChunk(r) \in RxState
        BY <1>1, voidActiveChunkOK DEF RxOK
      <4> QED BY <2>2, <4>1 DEF rejectDmaCount, RxState
    <3> QED BY <1>2, <1>3, <2>2, <3>1 DEF Still, Flowing, Finishing
  <2>3. CASE CountValid(h) /\ receiveArm(publishReceived(r, h), h)
    <3>1. RxOK(publishReceived(r, h)) /\ publishReceived(r, h) \in RxState
      BY <1>1, <2>3, publishReceivedOK DEF RxOK
    <3>2. ~rx'.err /\ rx'.rdr = 0 /\ (r'.started => Listening(rx'))
      BY <1>1, <1>2, <2>3, <3>1, ArmListens
    <3> QED BY <1>3, <1>5, <3>2 DEF Still, Flowing, Finishing, Bound
  <2> QED BY <2>1, <2>2, <2>3
<1> QED BY <1>4, <1>5

LEMMA HardwareIsStill ==
    ASSUME IInv, Undisturbed, Still, LineByte \/ Interrupt \/ Faulty,
           UNCHANGED <<line, faults, fails>>
    PROVE  Still'
<1>1. line \in Nat /\ faults \in Nat /\ tx \in TxHardware /\ t \in TxState
  BY DEF IInv, RestOK, TxOK
<1>2. ~LineByte /\ ~Faulty
  BY <1>1
     DEF LineByte, Faulty, Fault, RxIdleAbortFails, RxCorruptCount, RxEventWhileRunning,
         RxLineError, RxDmaFault, TxDmaFault, RxDies, TxStalls, TxCompletionIsLost,
         TxCompletesEarly
<1>3. CASE RxIdle \/ RxComplete
  BY <1>3, RxEventIsStill DEF RxIdle, RxComplete
<1>4. CASE TxMove \/ TxFreeChannel \/ TxDrain
  <2>1. ~tx'.err
    BY <1>1, <1>4 DEF TxMove, TxFreeChannel, TxDrain, TxMoved, TxChannelFreed, TxDrained,
                      TxHardware, Still
  <2> QED BY <1>4, <2>1 DEF TxMove, TxFreeChannel, TxDrain, loan, Still, Flowing, Finishing
<1>5. CASE TxComplete
  <2>1. TxCompleted(tx).dma = "READY" /\ ~TxCompleted(tx).err
    BY <1>1, <1>5 DEF TxComplete, CanComplete, TxCompleted, TxHardware, Still
  <2>2. tx' = TxCompleted(tx) /\ UNCHANGED <<rx, errorCode, th>>
    BY <1>5 DEF TxComplete, isrTxCplt
  <2>3. \/ UNCHANGED <<r, t, loan>>
        \/ t' = [t EXCEPT !.txBusy = FALSE] /\ Tell(TRUE) /\ UNCHANGED r
    BY <1>5, <2>1 DEF TxComplete, isrTxCplt
  <2>4. ~t'.txAbortPending /\ verdict' # "failed" /\ UNCHANGED r
    BY <1>1, <2>3 DEF loan, Tell, TxState, Still
  <2> QED BY <2>1, <2>2, <2>4 DEF Still, Flowing, Finishing
<1> QED BY <1>2, <1>3, <1>4, <1>5 DEF Interrupt

LEMMA ApplicationIsStill ==
    ASSUME IInv, Still, Application, UNCHANGED fails
    PROVE  Still'
<1>1. r \in RxState /\ t \in TxState /\ th \in Thread /\ fails \in Nat
  BY DEF IInv, RxOK, TxOK, ThreadOK, RestOK
<1>2. CASE InitCall
  <2>1. /\ th' = [th EXCEPT !.pc = "rsGate", !.ret = "initCheck"] /\ th.pc = "unbound"
        /\ UNCHANGED <<rx, tx, errorCode, r, t, verdict>>
    BY <1>2 DEF InitCall, NoVerdict, At
  <2> QED BY <1>1, <2>1 DEF Still, Flowing, Finishing, Thread
<1>3. CASE Send
  <2>1. UNCHANGED <<rx, r, th>>
    BY <1>3 DEF Send
  <2>2. \/ tx' = TxStarted /\ errorCode' = FALSE /\ verdict' = "none"
        \/ UNCHANGED <<tx, errorCode, verdict>>
    BY <1>3, Zenon DEF Send
  <2>3. ~t'.txAbortPending
    <3>1. \/ t' = [t EXCEPT !.txProgressValid = FALSE, !.txStallChecks = 0, !.txBusy = TRUE]
          \/ t' = [t EXCEPT !.txProgressValid = FALSE, !.txStallChecks = 0]
      BY <1>3, Zenon DEF Send
    <3> QED BY <1>1, <3>1 DEF TxState, Still
  <2>4. ~tx'.err /\ ~errorCode' /\ verdict' # "failed"
    BY <2>2 DEF TxStarted, Still
  <2> QED BY <2>1, <2>3, <2>4 DEF Still, Flowing, Finishing
<1>4. CASE RebaudCall
  <2>1. /\ th' = [th EXCEPT !.pc = "baudStop", !.rxTeardown = TRUE]
        /\ UNCHANGED <<rx, tx, errorCode, r, t, verdict>>
    BY <1>4 DEF RebaudCall, NoVerdict
  <2> QED BY <1>1, <2>1 DEF Still, Flowing, Finishing, Thread
<1>5. ASSUME NEW due, Proceed(due) PROVE Still'
  <2>1. /\ th' = [th EXCEPT !.pc = "settle", !.audit = due] /\ th.pc = "idle"
        /\ r' = [r EXCEPT !.rxWorkPending = FALSE]
        /\ UNCHANGED <<rx, tx, errorCode, t, verdict>>
    BY <1>5 DEF Proceed, NoVerdict, At
  <2> QED BY <1>1, <2>1 DEF Still, Flowing, Finishing, Thread, RxState
<1> QED BY <1>2, <1>3, <1>4, <1>5 DEF Application

\* A step that only moves the thread on, from a step where the receiver is looked at.
LEMMA MovingOnIsStill ==
    ASSUME Still, UNCHANGED <<rx, tx, errorCode, verdict>>,
           r'.started => r.started, ~t'.txAbortPending,
           th'.pc \notin {"allGate", "allStop", "allNotify"},
           th.pc \notin {"rsArm", "reclaimArm", "rsStop", "reclaimStop", "baudStop"},
           th'.rxTeardown => th'.pc \in {"rsStop", "reclaimStop"},
           th'.pc = "unbound" => ~r'.started,
           th'.pc \in {"finGate", "finStop", "finNotify"} => th'.outcome
    PROVE  Still'
BY DEF Still, Flowing, Finishing

\* A stop that does not fail.
LEMMA StoppingIsStill ==
    ASSUME IInv, Still, RebaudStop \/ ReclaimStop \/ RestartStop, UNCHANGED fails
    PROVE  Still'
<1>1. rx \in RxHardware /\ r \in RxState /\ th \in Thread /\ fails \in Nat
  BY DEF IInv, RxOK, ThreadOK, RestOK
<1>2. /\ rx' = RxStopped(rx) /\ UNCHANGED <<tx, errorCode, t, verdict>>
      /\ \/ /\ th' = [th EXCEPT !.pc = "baudApply", !.rxTeardown = FALSE]
            /\ r' = [r EXCEPT !.started = FALSE]
         \/ th' = [th EXCEPT !.pc = "reclaimArm", !.rxTeardown = FALSE] /\ r' = r
         \/ th' = [th EXCEPT !.pc = "rsArm", !.rxTeardown = FALSE] /\ r' = r
  <2>1. ASSUME NEW l, StopRxFails(l) PROVE FALSE
    <3>1. fails' = fails + 1
      BY <2>1 DEF StopRxFails
    <3> QED BY <1>1, <3>1
  <2> QED BY <2>1, Zenon DEF RebaudStop, ReclaimStop, RestartStop, NoVerdict
<1>3. rx'.rdr = 0 /\ ~rx'.err
  BY <1>1, <1>2 DEF RxStopped, RxEnded, RxHardware, Still
<1>4. UNCHANGED <<tx, errorCode, t, verdict>>
  BY <1>2
<1>5. /\ th'.pc \in {"baudApply", "reclaimArm", "rsArm"} /\ ~th'.rxTeardown
      /\ th'.pc = "baudApply" => ~r'.started
  BY <1>1, <1>2 DEF Thread, RxState
<1> QED BY <1>3, <1>4, <1>5 DEF Still, Flowing, Finishing

LEMMA ArmingIsStill ==
    ASSUME IInv, Still, ReclaimArm \/ RestartArm, UNCHANGED fails
    PROVE  Still'
<1>1. rx \in RxHardware /\ r \in RxState /\ RxOK(r) /\ th \in Thread /\ fails \in Nat
  BY DEF IInv, RxOK, ThreadOK, RestOK
<1>2. th.ret \in Returns /\ ~th.rxTeardown /\ th.pc \in {"reclaimArm", "rsArm"}
  BY <1>1 DEF ReclaimArm, RestartArm, At, Thread, Still
<1>3. /\ th'.pc \in {"tail"} \union Returns /\ ~th'.rxTeardown
      /\ UNCHANGED <<tx, t, verdict>> /\ ~errorCode'
  <2>1. Goto("tail") \/ Goto(th.ret)
    BY Zenon DEF ReclaimArm, RestartArm
  <2>2. UNCHANGED <<tx, t, verdict>> /\ (UNCHANGED errorCode \/ errorCode' = FALSE)
    BY Zenon DEF ReclaimArm, RestartArm, NoVerdict
  <2> QED BY <1>1, <1>2, <2>1, <2>2 DEF Goto, Thread, Still
<1>4. ~rx'.err /\ rx'.rdr = 0 /\ (r'.started => Listening(rx'))
  <2>1. rx.rdr = 0 /\ ~rx.err
    BY DEF Still
  <2>2. CASE RestartArm
    <3>1. RxErrorsCleared(rx) \in RxHardware /\ RxErrorsCleared(rx).rdr = 0 /\ ~RxErrorsCleared(rx).err
      BY <1>1, <2>1, RxHardwareOps DEF RxErrorsCleared, RxHardware
    <3>2. RxOK(voidActiveChunk(r)) /\ voidActiveChunk(r) \in RxState
      BY <1>1, voidActiveChunkOK DEF RxOK
    <3> QED BY <1>1, <2>2, <3>1, <3>2, ArmListens DEF RestartArm
  <2>3. CASE ReclaimArm /\ ~r.started
    BY <2>1, <2>3 DEF ReclaimArm
  <2>4. CASE ReclaimArm /\ r.started /\ CountValid(rx)
    <3>1. RxOK(publishReceived(r, rx)) /\ publishReceived(r, rx) \in RxState
      BY <1>1, <2>4, publishReceivedOK DEF RxOK
    <3> QED BY <1>1, <2>1, <2>4, <3>1, ArmListens DEF ReclaimArm
  <2>5. CASE ReclaimArm /\ r.started /\ ~CountValid(rx)
    <3>1. voidActiveChunk(r) \in RxState
      BY <1>1, voidActiveChunkOK DEF RxOK
    <3>2. rx' = rx /\ r' = rejectDmaCount(r)
      BY <2>5 DEF ReclaimArm
    <3> QED BY <2>1, <3>1, <3>2 DEF rejectDmaCount, RxState
  <2> QED BY <2>2, <2>3, <2>4, <2>5
<1> QED BY <1>3, <1>4 DEF Still, Flowing, Finishing, Returns

LEMMA ServiceIsStill ==
    ASSUME IInv, Cts, Still, Service, UNCHANGED fails
    PROVE  Still'
<1>1. /\ r \in RxState /\ t \in TxState /\ th \in Thread /\ fails \in Nat
      /\ th.ret \in Returns /\ rx \in RxHardware /\ tx \in TxHardware
  BY DEF IInv, RxOK, TxOK, ThreadOK, RestOK, Thread
<1> USE DEF At, Thread
<1>2. CASE InitCheck
  <2>1. UNCHANGED <<rx, tx, errorCode, verdict, t>> /\ th.pc = "initCheck"
    BY <1>2 DEF InitCheck, NoVerdict
  <2>2. \/ r.started /\ r' = r /\ th' = [th EXCEPT !.pc = "idle", !.ret = "idle"]
        \/ /\ ~r.started /\ r' = [r EXCEPT !.active = None]
           /\ th' = [th EXCEPT !.pc = "unbound"]
    BY <1>2 DEF InitCheck
  <2>3. /\ r'.started = r.started /\ th'.pc \in {"idle", "unbound"}
        /\ th'.pc = "unbound" => ~r'.started
        /\ ~th'.rxTeardown
    BY <1>1, <2>1, <2>2 DEF RxState, Still
  <2> QED BY <2>1, <2>3, MovingOnIsStill DEF Still
<1>3. CASE RebaudStop \/ ReclaimStop \/ RestartStop
  BY <1>3, StoppingIsStill
<1>4. CASE ReclaimArm \/ RestartArm
  BY <1>4, ArmingIsStill
<1>5. CASE RebaudApply
  <2>1. /\ UNCHANGED <<rx, tx, verdict, t, r>> /\ th.pc = "baudApply" /\ ~errorCode'
        /\ th' = [th EXCEPT !.pc = "rsGate", !.ret = "idle"]
    BY <1>5 DEF RebaudApply, NoVerdict
  <2>2. errorCode' = errorCode
    BY <1>5 DEF RebaudApply, Still, IInv, RestOK
  <2>3. th'.pc = "rsGate" /\ ~th'.rxTeardown
    BY <1>1, <2>1 DEF Still
  <2> QED BY <2>1, <2>2, <2>3, MovingOnIsStill DEF Still
<1>6. CASE Settle \/ Reraise \/ Deliver \/ announceGap \/ ReclaimTest \/ ProceedTail
  <2>1. /\ UNCHANGED <<rx, tx, errorCode, verdict, t>>
        /\ r' = r \/ r' = [r EXCEPT !.rxGapPending = FALSE]
    BY <1>6 DEF Settle, Reraise, Deliver, announceGap, ReclaimTest, ProceedTail, NoVerdict,
                hardware, loan, Still
  <2>2. /\ th'.pc \in {"drain", "announce", "pop", "audit", "reclaim", "reclaimGate", "tail", "idle", "rsGate"}
        /\ th'.rxTeardown = th.rxTeardown
        /\ th.pc \in {"settle", "reraise", "drain", "announce", "reclaim", "tail"}
    BY <1>1, <1>6 DEF Settle, Reraise, Deliver, announceGap, ReclaimTest, ProceedTail, Goto, Still
  <2>3. r'.started = r.started /\ ~th'.rxTeardown
    BY <1>1, <2>1, <2>2 DEF RxState, Still
  <2> QED BY <2>1, <2>2, <2>3, MovingOnIsStill DEF Still
<1>7. CASE Pop
  <2>1. /\ UNCHANGED <<rx, tx, errorCode, verdict, t>> /\ th.pc = "pop"
        /\ r'.started = r.started /\ th' = [th EXCEPT !.pc = "drain"]
    BY <1>1, <1>7 DEF Pop, hardware, loan, Goto, RxState
  <2>2. th'.pc = "drain" /\ ~th'.rxTeardown
    BY <1>1, <2>1 DEF Still
  <2> QED BY <2>1, <2>2, MovingOnIsStill DEF Still
<1>8. CASE txLivenessAudit
  <2>1. UNCHANGED <<rx, tx, errorCode, verdict, r>> /\ th.pc = "audit"
    BY <1>8 DEF txLivenessAudit, NoVerdict
  <2>2. \/ FinishTx(TRUE) /\ t' = t
        \/ Goto("health") /\ (t' = t \/ t' = Baseline)
    BY <1>8, Zenon DEF txLivenessAudit, Observe
  <2>3. ~t'.txAbortPending
    BY <1>1, <2>2 DEF Baseline, TxState, Still
  <2>4. /\ th'.pc \in {"finGate", "health"} /\ (th'.pc = "finGate" => th'.outcome)
        /\ ~th'.rxTeardown
    BY <1>1, <2>1, <2>2 DEF FinishTx, Goto, Still
  <2> QED BY <2>1, <2>3, <2>4, MovingOnIsStill
<1>9. CASE FinishGate
  <2>1. /\ UNCHANGED <<rx, tx, errorCode, verdict, r, t>> /\ th.pc = "finGate"
        /\ th' = [th EXCEPT !.pc = "finStop", !.txTeardown = TRUE,
                            !.outcome = @ /\ ~t.txAbortPending]
    BY <1>9 DEF FinishGate, NoVerdict
  <2>2. th'.pc = "finStop" /\ th'.outcome /\ ~th'.rxTeardown
    BY <1>1, <2>1 DEF Still, Finishing
  <2> QED BY <2>1, <2>2, MovingOnIsStill DEF Still
<1>10. CASE FinishStop
  <2>1. /\ tx' = TxStopped(tx) /\ UNCHANGED <<rx, r, errorCode, verdict>> /\ th.pc = "finStop"
        /\ \/ t' = [t EXCEPT !.txBusy = FALSE, !.txAbortPending = FALSE, !.txProgressValid = FALSE]
           \/ t' = t
        /\ th' = [th EXCEPT !.pc = "finNotify", !.txTeardown = FALSE, !.notify = t.txBusy]
    <3>1. ~(fails' = fails + 1)
      BY <1>1
    <3> QED BY <1>10, <3>1, Zenon DEF FinishStop, NoVerdict
  <2>2. ~tx'.err
    BY <1>1, <2>1 DEF TxStopped, TxHardware, Still
  <2>3. th'.pc = "finNotify" /\ th'.outcome /\ ~th'.rxTeardown
    BY <1>1, <2>1 DEF Still, Finishing
  <2>4. ~t'.txAbortPending
    BY <1>1, <2>1 DEF TxState, Still
  <2> QED BY <2>1, <2>2, <2>3, <2>4 DEF Still, Flowing, Finishing
<1>11. CASE FinishNotify
  <2>1. /\ UNCHANGED <<rx, tx, errorCode, r, t>> /\ th.pc = "finNotify" /\ verdict' # "failed"
        /\ th' = [th EXCEPT !.pc = th.ret, !.notify = FALSE]
    BY <1>11 DEF FinishNotify, hardware, loan, Tell, Still, Finishing
  <2>2. th'.pc \in Returns /\ ~th'.rxTeardown
    BY <1>1, <2>1 DEF Still, Returns
  <2> QED BY <2>1, <2>2 DEF Still, Flowing, Finishing, Returns
<1>12. CASE healthCheck
  <2>1. /\ UNCHANGED <<rx, tx, errorCode, verdict, r, t>> /\ th.pc = "health" /\ ~th.rxTeardown
    BY <1>12 DEF healthCheck, NoVerdict, Still
  <2>2. ~Bad
    <3>1. r.started => Listening(rx)
      BY <2>1 DEF Still, Flowing
    <3>2. ChunkSize \in 1 .. ChunkSize
      BY HalAssumption
    <3> QED BY <3>1, <3>2 DEF Bad, Still, Listening
  <2>3. th' = [th EXCEPT !.pc = "reclaim", !.failCounter = 0]
    BY <1>12, <2>2 DEF healthCheck
  <2>4. th'.pc = "reclaim" /\ ~th'.rxTeardown
    BY <1>1, <2>1, <2>3
  <2> QED BY <2>1, <2>4, MovingOnIsStill DEF Still
<1>13. CASE ReclaimGate \/ RestartGate
  <2>1. /\ UNCHANGED <<rx, tx, errorCode, verdict, r, t>> /\ th.pc \in {"reclaimGate", "rsGate"}
        /\ th'.pc \in {"reclaimStop", "rsStop"}
    BY <1>1, <1>13 DEF ReclaimGate, RestartGate, NoVerdict
  <2> QED BY <2>1, MovingOnIsStill DEF Still
<1>14. ~AllGate /\ ~AllStop /\ ~AllNotify
  BY DEF AllGate, AllStop, AllNotify, Still
<1> QED BY <1>2, <1>3, <1>4, <1>5, <1>6, <1>7, <1>8, <1>9, <1>10, <1>11, <1>12, <1>13, <1>14, Zenon
        DEF Service

\* With CTS the peer may hold a frame for ever, at any stage of it: while the
\* line is silent and nothing fails, no frame is given up as failed, for every
\* geometry, threshold and speed.
THEOREM UartCtsHoldsForever == Spec => []CtsHoldsForever
<1>1. Init => HoldInv
  BY DEF Init, HoldInv, Undisturbed, Still, Flowing, Finishing, RxReset, TxReset
<1>2. IInv /\ HoldInv /\ Cts /\ [Next]_vars => HoldInv'
  <2> SUFFICES ASSUME IInv, HoldInv, Cts, [Next]_vars PROVE HoldInv'
    OBVIOUS
  <2>1. CASE UNCHANGED vars
    BY <2>1 DEF vars, hardware, loan, HoldInv, Undisturbed, Still, Flowing, Finishing, Listening
  <2>2. CASE Next
    <3>1. line' # 0 /\ (Undisturbed' => Undisturbed /\ UNCHANGED <<line, faults, fails>>)
      BY <2>2, NothingIsForgotten DEF HoldInv
    <3>2. ASSUME Undisturbed' PROVE Still'
      <4>1. Undisturbed /\ Still /\ UNCHANGED <<line, faults, fails>>
        BY <3>1, <3>2 DEF HoldInv
      <4> QED BY <2>2, <4>1, HardwareIsStill, ApplicationIsStill, ServiceIsStill DEF Next
    <3> QED BY <3>1, <3>2 DEF HoldInv
  <2> QED BY <2>1, <2>2
<1>3. HoldInv => CtsHoldsForever
  BY DEF HoldInv, Undisturbed, Still, Finishing, CtsHoldsForever, At
<1>4. ~Cts => CtsHoldsForever
  BY DEF CtsHoldsForever
<1>5. CASE Cts
  BY <1>1, <1>2, <1>3, <1>5, Inductive, PTL DEF Spec
<1>6. CASE ~Cts
  BY <1>4, <1>6, PTL
<1> QED BY <1>5, <1>6

-----------------------------------------------------------------------------
(***************************************************************************)
(* The times the driver and its neighbours compute (Timing).               *)
(***************************************************************************)
\* A division rounded up reaches its dividend, and by less than one divisor.
LEMMA Ceiling ==
    ASSUME NEW n \in Nat, NEW d \in Nat \ {0}
    PROVE  /\ CeilDiv(n, d) \in Nat
           /\ n <= CeilDiv(n, d) * d /\ CeilDiv(n, d) * d < n + d
<1>1. n = d * (n \div d) + (n % d) /\ n % d \in Nat /\ n % d < d /\ n \div d \in Nat
  BY Z3
<1>2. CASE n % d = 0
  BY <1>1, <1>2 DEF CeilDiv
<1>3. CASE n % d # 0
  <2>1. CeilDiv(n, d) * d = d * (n \div d) + d
    BY <1>1, <1>3 DEF CeilDiv
  <2> QED BY <1>1, <1>3, <2>1 DEF CeilDiv
<1> QED BY <1>2, <1>3

\* The watchdog's patience with a draining frame outlasts what the USART may
\* still hold, at any baud rate, by at least the threshold of its audits: none
\* that is still on its way is taken for one that stalled (txLivenessAudit).
THEOREM DrainOutlastsThePipeline ==
    ASSUME Baud # 0
    PROVE  ((DrainLimit - FailThreshold) * CheckPeriod) * Baud >= worst_pipeline_bit_milliseconds
<1> DEFINE W == worst_pipeline_bit_milliseconds
           wire_ms == CeilDiv(W, Baud)
           audits == CeilDiv(wire_ms, CheckPeriod)
<1>1. W \in Nat /\ Baud \in Nat \ {0} /\ CheckPeriod \in Nat \ {0} /\ FailThreshold \in Nat
  BY DriverAssumption DEF worst_pipeline_bit_milliseconds
<1>2. wire_ms \in Nat /\ W <= wire_ms * Baud
  BY <1>1, Ceiling
<1>3. audits \in Nat /\ wire_ms <= audits * CheckPeriod
  BY <1>1, <1>2, Ceiling
<1>4. DrainLimit - FailThreshold = audits
  <2>1. DrainLimit = audits + FailThreshold
    BY DEF DrainLimit, tx_drain_audit_limit
  <2> QED BY <1>1, <1>3, <2>1
<1> HIDE DEF W, wire_ms, audits
<1>5. wire_ms * Baud <= (audits * CheckPeriod) * Baud
  <2>1. PICK x \in Nat : audits * CheckPeriod = wire_ms + x
    <3>1. audits * CheckPeriod \in Nat
      BY <1>1, <1>3
    <3> QED BY <1>2, <1>3, <3>1
  <2>2. (wire_ms + x) * Baud = wire_ms * Baud + x * Baud /\ x * Baud >= 0
    BY <1>1, <1>2
  <2> QED BY <1>1, <1>2, <2>1, <2>2
<1>6. W <= (audits * CheckPeriod) * Baud
  <2>1. wire_ms * Baud \in Int /\ (audits * CheckPeriod) * Baud \in Int
    BY <1>1, <1>2, <1>3
  <2> QED BY <1>1, <1>2, <1>5, <2>1
<1>7. (audits * CheckPeriod) * Baud \in Int
  BY <1>1, <1>3
<1> QED BY <1>1, <1>4, <1>6, <1>7 DEF W

\* A sleep of FreeRtosWake never lasts longer than it was asked to and is never
\* the endless one: a frame's deadline is not overslept by the conversion, at any
\* tick rate (wake_ticks_for).
THEOREM WakeIsNeverLate ==
    ASSUME NEW milliseconds \in Nat, NEW rate \in Nat, NEW max_delay \in Nat \ {0}
    PROVE  LET ticks == wake_ticks_for(milliseconds, rate, max_delay)
           IN  ticks * 1000 <= milliseconds * rate /\ ticks < max_delay
<1> DEFINE exact == milliseconds * rate
           ticks == exact \div 1000
<1>1. exact \in Nat
  OBVIOUS
<1> HIDE DEF exact
<1>2. ticks \in Nat /\ ticks * 1000 <= exact
  BY <1>1, Z3
<1>3. wake_ticks_for(milliseconds, rate, max_delay)
        = IF ticks < max_delay - 1 THEN ticks ELSE max_delay - 1
  BY DEF wake_ticks_for, exact
<1> HIDE DEF ticks
<1> QED BY <1>1, <1>2, <1>3 DEF exact

\* The deadline behind a full chunk is never shorter than the next full chunk
\* takes on the wire, at any baud rate (UartAdapter::chunk_time_ms).
THEOREM ChunkTimeCoversTheChunk ==
    ASSUME NEW chunk \in Nat, NEW baud \in Nat \ {0}
    PROVE  chunk_time_ms(chunk, baud) * baud >= (chunk * bits_per_character) * 1000
<1>1. (chunk * bits_per_character) * 1000 \in Nat
  BY DEF bits_per_character
<1> QED BY <1>1, Ceiling DEF chunk_time_ms
=============================================================================
