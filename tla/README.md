# Verification of the embedded serial stack

TLA+ models, model-checking runs and machine-checked proofs for the repository's
own logic: a zero-copy UART driver, the storage below the protocols, and the
protocols (COBS, Modbus RTU and TCP) with their adapters. Source paths below are
relative to the repository root; `Uart.h` is `src/uart/Uart.h`.

## 1. Inventory of the system

| Component | State it keeps | Operations | Depends on | What makes it correct |
|---|---|---|---|---|
| **UART driver** `src/uart/Uart.h` | claimed chunk `m_active`, chunk fifo, `m_started`, gap and doorbell flags, lent TX span (`m_txBusy`, `m_txAbortPending`), watchdog counters, teardown gates | `init`, `proceed`, `send`, `setBaudRate`; interrupts `isrRxEvent`, `isrTxCplt`, `isrError` | STM32 HAL, an SPSC fifo (both external) | no slot or span given up while a DMA channel uses it; the stream handed over never joins two pieces silently; one truthful verdict per frame; recovery always comes |
| **UART registry** `src/uart/Uart.h` `detail::Registry` | table of engines and their handles | `attach`, `detach`, `find` from the HAL callbacks; the ownership protocol of `init` and the destructor | the driver's engines | a callback reaches the engine bound to its handle, or none |
| **UART registers** `src/uart/detail/UartRegs.h` | - | clear error flags | hardware | a clear may eat a waiting byte on the legacy IP only |
| **Block pool** `src/wire/detail/BlockPool.h` | free list threaded through the blocks, counters | `acquire`, `release` (checked) | - | exact, acyclic free list; abusive releases have no effect |
| **Storages** `src/wire/Storage.h` | RX pool, TX pool or the heap | `acquire_rx/tx`, `release_rx/tx` | block pool | grants honour the request or are refused |
| **COBS codec** `src/cobs/Codec.h`, `Decoder.cpp`, `Encoder.cpp`, `Format.h` | decoder state and output segment | `consume`, `prepare_output`, `attach_output`, `discard_until_delimiter`; `encode_in_place` | - | decoding inverts encoding for any segmentation; in-place encoding never overwrites unread payload |
| **COBS receiver** `src/cobs/detail/Receiver.h`, `RxBlock.h`, `Packet.h` | stage, block being built, ready queue, reference counts | `consume`, `gap`, `pop_packet`, packet copies | decoder, storage | only whole frames are delivered, once, in order; every block has one owner or counted owners |
| **COBS endpoint, message** `src/cobs/Cobs.h`, `detail/Message.h` | active TX block, bound transport, message state and block | `bind`, `unbind`, `send`, `poll`, message building and moves | storage, encoder, transport | a block is never freed or rewritten while the transport reads it; a failed start retries the same bytes |
| **Modbus RTU** `src/modbus/rtu/` | gather buffer, stage, block being filled, ready queue; message and its block, active TX block | `consume`, `notify_gap`, `expire_incomplete`, `receive_adu`; `make_message`, `append`, `send`, `poll` | CRC, storage, framing policy | whole ADUs only, resynchronisation by the recovery rule of `Framing.h`; a frame carries its layout's length however often it was refused |
| **Modbus TCP** `src/modbus/tcp/` | stage (Header, Body, Skip, Failed), ready queue; message, active TX block | `consume`, `reset_rx`, `notify_gap`; `send`, `poll` | storage | fail-closed after an untrustworthy header; a block has one owner |
| **Adapters** `src/adapters/{cobs,rtu,freertos}` | stale-frame deadline, progress count, wake state | `prepare`, drain, `finish`, `bind`, `detach`; `wait` | driver, endpoints | a partial frame is expired only if the line really was silent, and then always; no wake is lost |
| **Qt adapter and RTU client** `src/adapters/qt` | outgoing frame, request queue, timers | port signals, transactions, retries, detach | Qt, endpoints | each request finishes, once; re-entrant teardown is safe; answers are fresh; the line keeps its silences |
| **CRC, scalars, readers** `src/crc`, `src/wire/{Scalar,Read}.h` | - | pure conversions | - | values |

The parts talk by direct calls in one loop, except that the UART driver shares its
state with interrupts. Hard behaviours: interrupts between any two steps of the
loop; HAL aborts that time out and leave a channel running; DMA faults that end
the software state of both directions but only one channel; fifo overflow and its
in-order report; lost completion interrupts; CTS peers that hold the line; blocks
whose link word lies in client memory; partial frames, losses and storage
exhaustion in the middle of a frame; start failures after encoding.

## 2. Plan

1. **Done:** `UartDriver` over `UartHal` (the only concurrent component, and the
   one everything else trusts), its abstract promises `RxStream` and `TxLoan`;
   `BlockPool` with `BlockLoans`; proofs for both, the three refinements among them.
2. **Done:** COBS. The codec (`CobsFormat`, `CobsEncoder`, `CobsDecoder`)
   against `CobsReference`; `CobsReceiver`, composed of the decoder, the format and
   `CobsPackets`, against the abstract `CobsInbox`; `CobsEndpoint` with its messages;
   proofs for the size algebra, the encoding, the encoder, the packets, the receiver and
   the endpoint.
3. **Done:** Modbus RTU. Receiving: `RtuFraming`, `RtuPolicy`, `RtuStream`, judged by
   `RtuReference`, and composed in `RtuLine` with the adapter, the driver as the adapter
   sees it, and the FreeRTOS wake, in time (`Timing`). Sending: `RtuMessage`, `RtuSender`.
   Proofs for both: every property of the line, and the sender.
4. **Done:** Modbus TCP, `TcpReceiver` and `TcpEndpoint`, on two instances of `BlockPool`.
5. **Done:** Qt, `RtuClient` on `SerialAdapter`. The driver's table, `UartRegistry`, with
   proofs.
6. **Left:** runs of `RtuSender` and of `UartRegistry` besides their proofs; the destructors of
   the RTU and TCP endpoints; proofs about the Qt master, whose handlers would have to be
   stated without recursion first (section 9).

How the modules build on one another (an arrow reads "uses"):

    UartDriver -> UartHal, Timing          implements RxStream, TxLoan
    BlockPool                              implements BlockLoans
    CobsReceiver -> CobsDecoder, CobsFormat, CobsPackets
                                           implements CobsInbox, judged by CobsReference
    CobsEndpoint -> CobsFormat             frames judged by CobsReference
    CobsEncoder -> CobsFormat              judged by CobsReference
    RtuLine -> RtuStream -> RtuPolicy -> RtuFraming;  RtuLine -> Timing
                                           judged by RtuReference
    RtuSender -> RtuMessage -> RtuPolicy
    TcpEndpoint -> TcpReceiver -> BlockPool (receive pool); a second BlockPool sends
    RtuClient -> SerialAdapter

A `...Props` module states what its component promises, an `MC...` module gives the
constants values for TLC, a `...Proofs` module holds the proofs.

## 3. The UART driver

`UartHal.tla` is the hardware and HAL, external code modelled from how `Uart.h` uses
it and from the fake HAL of the tests (`src/uart/tests/host/fake_hal.cpp`). Each
direction is a record; each HAL event or call is an operator between records.
`UartDriver.tla` is the driver. An interrupt is one atomic step, the HAL's work and
then the driver's callback: the header of `Uart.h` requires USART and DMA interrupts
of one instance to have one priority, so they do not nest. The thread is cut wherever
an interrupt can be taken: before and after each HAL abort, each IRQ-guarded block,
each handler call and each test of shared state. `th.pc` names the next step:

| Code | Steps |
|---|---|
| `init` | `InitCall`, then a restart, then `InitCheck` |
| `setBaudRate` | `RebaudCall`, `RebaudStop`, `RebaudApply`, then a restart |
| `proceed` | `Proceed`, `Settle`, `Reraise`, `Deliver`/`Pop` in a loop, `announceGap`, watchdog, reclaim, `ProceedTail` |
| `healthCheck`, `txLivenessAudit` | `txLivenessAudit`, `healthCheck`, `AllGate`, `AllStop`, `AllNotify` |
| `finishTx` | `FinishGate`, `FinishStop`, `FinishNotify` |
| reclaim of the drop buffer | `ReclaimTest`, `ReclaimGate`, `ReclaimStop`, `ReclaimArm` |
| `receiveRestart` | `RestartGate`, `RestartStop`, `RestartArm` |
| interrupts | `RxIdle`, `RxComplete`, `TxComplete`, and the faults |

Received bytes are numbered; a chunk is (first number, length). That is all the
stream properties need, and it makes a lost, repeated or joined byte visible.

**Promises.** `RxStream`: what is handed over is a sub-stream of the line in order, and
two hand-overs that were not neighbours have a gap report between them. `TxLoan`: a
frame is lent, gets exactly one verdict after the channel has stopped reading it, and
"ok" only with its last stop bit on the wire. The driver refines both: the runs check it on
their instances, and section 9 proves it for all.

**Three windows.** Model checking found three places where an interrupt between two
thread steps breaks a promise. The constant `Races` says which of them the environment
may use. The passing runs exclude those that matter to them; one run each shows the
violation of the first two:

* `reclaim` (`UartNewIp`): between the overflow test (`Uart.h:837`) and the gate (851) an
  interrupt re-arms onto a real chunk and the reception ends inside the gate. The
  next byte waits in RDR; the abort flushes it on the new USART IP; `publishReceived`
  and `receiveArm` go on without a marker. On the legacy IP the abort flushes
  nothing, but a line error inside the same gate loses the byte as quietly: with
  `Races = {"reclaim"}`, the legacy IP, five bytes and one fault TLC finds that too. The
  passing receive runs therefore exclude the window on either IP.
* `announce` (`UartAnnounce`): between the drain's last `try_front` (816) and
  `announceGap` (824) the fifo can fill, so the gap is reported before chunks that
  predate the loss.
* `init`: an interrupt between the arm and the test of `m_started` (603) that finds the
  DMA not READY makes `init` clear `m_active` and hand the handle back while the channel
  still writes. With `Races = {"init"}` in the constants of `UartRx`, TLC reports
  `DmaOwnsItsTarget` violated; no run is kept for it.

**Runs.**

| Run | Instance | Shows |
|---|---|---|
| `UartRx` | 2 slots, 2-byte chunks, 5 bytes, 1 fault, 1 failed HAL call, legacy IP | slot ownership and stream faithfulness |
| `UartTx` | 2-element frames, 2 sends, CTS on, speed changes, 1 received byte, 1 fault, 1 failed call | loan contract, a held frame is never failed while the line is silent, quiet speed change, latched failures |
| `UartBoth` | both directions, 1 byte, 1 frame, new IP, 1 fault, 1 failed call, fairness | cross-direction DMA faults; a verdict for every frame |
| `UartLiveRx` | 4 bytes, 1 fault, 1 failed call, fairness | recovery, accounting of every byte |
| `UartNewIp`, `UartAnnounce` | one window each, 5 bytes, no fault | the violations above |

Two slots and two bytes per chunk are the least that let a chunk be partly filled,
the fifo be full, and a claim coexist with a published chunk; four bytes fill both
slots, and the fifth overflows. One fault plus one failed call covers a fault during
the recovery from another failure. Counters (`line`, `sent`, `faults`, `fails`) are
bounded by `MaxBytes`, `MaxSends`, `MaxFaults`, `MaxFails` in the guards. The limit of the
drain audit is `tx_drain_audit_limit` of `Timing`; `Baud` = 768000 and `CheckPeriod` = 200
make it the threshold plus one, the least it can be.

`SlotDiscipline` is the two rules of the claim together: `ClaimIsNextSlot` and
`NoChunkPastTheGap`.

**Fairness.** The loop calls `proceed` for ever, the audit period keeps coming round
(`SF` on `Proceed(TRUE)`: its guard needs an idle thread, which recurs), every started
step of the thread goes on, and pending interrupts are taken. Line bytes, faults,
failures and application calls are never forced.

**Abstractions.** Statistics, wake-up hook, cache maintenance and handler registration
do not appear. A failed abort is nondeterministic and bounded. The half-transfer event,
which the driver ignores, is left out. A byte that arrives while RDR is full is an
overrun, which the HAL reports as a line error. The audit's sample of the hardware is
atomic. Handlers may call `send`; their recursive `proceed` is a no-op in the code and
not modelled. The destructor's stop of a running transfer is not modelled.

**The registry.** `UartRegistry` is the table through which the HAL's callbacks find their
engine, for several engines at once: `attach` under its guard, with the three reasons to
refuse; `detach`, after which the hardware is stopped with interrupts on and only then
the handle given up; and a callback of any handle at any point between. It is proved and
has no run: the interesting part is that it holds for every number of engines, handles
and slots.

## 4. The block pool

`BlockPool.tla` keeps the link words where the code keeps them, in the blocks, and
lets clients overwrite them while they hold a block (`Scribble`). `is_free` is the
code's walk, stated without recursion: a block is on the list when every set closed
under the links that contains the head contains it. `BlockLoans.tla` is the clients'
view, which the pool implements.

The pool is proved rather than run alone (`PoolAndTcpProofs`: every order of grants,
releases, double and foreign releases, for every number of blocks). Two instances of it
run under the TCP endpoint, where `BlocksHaveOneOwner` checks both free lists together
with the owners of every block that is out.

## 5. COBS

### 5.1 Codec

`FullCode` stands for 0xFF, the largest byte and the code of a full block, so that
small instances meet full blocks in short payloads. `CobsReference.tla` says what a
chain of blocks means and what the canonical encoding is, with no codec in it.

* `CobsFormat`: the size algebra of `Codec.h` and `Format.h`, pure operators. Nothing is run about them alone: `CobsFormatProofs` proves them exact for every format.
* `CobsEncoder`: `encode_in_place`, one action per turn of its loop, with the raw bytes
  and the output in one array, as in the code. The run takes all payloads of up to six
  bytes over {0, 1, `FullCode`}, `FullCode` = 4 (a full block has three data bytes, and
  six are two full blocks), every storage size and every offset, the refused ones too.
* `CobsDecoder`: the decoder's record and its methods, driven by the receiver with every
  frame of up to `MaxChunk` bytes. Five bytes with `FullCode` = 3 hold two full blocks.
  `consume` is modelled one byte at a time: its loop keeps nothing between two bytes
  that is not written back to the record.

### 5.2 Receiver and packets

`CobsPackets` is the part of `Receiver.h` and `Packet.h` about memory: reference counts,
the intrusive ready list, handles, and the destructor, which runs `clearReady` turn by
turn. `CobsReceiver` extends it: the decoder, the length field, a block of exactly the
declared size, the verdict at the delimiter. One `Consume` is one byte with every call
it causes; cutting the input into spans is thereby arbitrary, and packets are popped,
copied and dropped between any two bytes.

`CobsReceiverProps` states the promises. `FrameVerdict` judges a frame by its bytes
alone, from the table of `doc/PROTOCOL.md` section 8 and the reference decoding:
which counters must move, and what must be delivered. `PacketsAreValues` is the
refinement of `CobsInbox`, where packets are values in a queue, without blocks or
counts. `BlocksAreOwned` says that the composed receiver uses the blocks only as
`CobsPackets` allows, which carries the theorems about `CobsPackets` over to it.

Counters are kept relative to the frame under way, which makes the state space
finite. Refused allocations are nondeterministic at every request, since the heap or
a shared pool may refuse at any time. The checksum is any function of the payload that
gives nothing where `crc_size` is 0 and there is nothing to check (a `NoCrc` frame without
payload); the instances use a sum.

An observation, for which no run is kept: `gap()` counts a resync unconditionally
(`Receiver.h:144`), while `doc/PROTOCOL.md` line 317 says that `resyncs` "counts only
transitions that really hunt for a later delimiter". Two gaps with no delimiter between
them count twice.

### 5.3 Endpoint and messages

`CobsEndpoint` has several endpoints, messages and transports of one type: the compiler
lets any message be sent through any of the endpoints. Memory is modelled byte for
byte, since the payload's place depends on the capacity and encoding runs over it.
`encode` is one step with the canonical frame as its outcome, which is what `CobsEncoder`
shows of it. A transport that took a frame may be done at once, before `send` stores
the descriptor. The destructor is modelled under the two lifetime preconditions of
`Cobs.h`. Short grants, which `Storage.h` forbids but `honours` guards against, leave
storage as a refusal does.

| Run | Instance | Shows |
|---|---|---|
| `CobsEncoder` | payloads up to 6 bytes, all placements | `InPlaceIsSafe` (unread bytes intact, indices in bounds), canonical frame, round trip |
| `CobsReceiver` | 2 blocks, 2 handles; either a 1-byte length with a checksum, frames up to 5 bytes and a gap each, or a 2-byte length without one and frames up to 4 bytes | writes stay inside blocks the receiver owns, counts, list, packets as values, verdict of every frame |
| `CobsSend` | 2 endpoints, 2 messages, 2 transports, 2 blocks, payloads up to 3 | ownership, payload across growth, retry, no foreign message, no early return |

The format of `CobsReceiver` is chosen in the initial states, so one run covers both: the
checked one never admits an empty packet, the plain one does.

Payloads of three bytes with a length and a checksum make five raw bytes, two full
blocks and more; four capacities give every growth. Two blocks let one packet be
held or wait while another is built and a third is refused; a longer queue is what
the theorems about `CobsPackets` cover. Growth in `CobsSend` needs both blocks at once,
so one message grows while the other owns nothing; blocks, messages, endpoints and
transports are interchangeable in the model, and the run reduces by that symmetry.
That a lent block comes back needs a transport that ends its reading, which the driver
shows of itself (`EveryFrameIsSettled`), and is not run here. Runs without
deadlock checking are those where a bounded environment or the destructor may stop.

## 6. Modbus RTU

### 6.1 Framing and the stream

`RtuFraming` is the framing language of `Framing.h`: where a function keeps the length of
its data, in which width and byte order, and the sizes that follow. `RtuPolicy` is what an
endpoint is instantiated with. `RtuStream` is the receiver as a record and its methods as
operators: the gathered header, the block being filled, the frame passed over because
storage had no block, the rest of a call dropped after an error, complete candidates from a
transport that has them. A block is its bytes; a packet has one handle (counted handles are
`CobsPackets`' subject).

`RtuReference` reads the bytes of a stream as a whole, from the recovery rule in the
comments of `Framing.h` and without stages or counters: which frames they hold, what they
lose, what is open at the end. `StreamVerdict` compares each call of the receiver with it.

### 6.2 The line, the adapter and the wake, in time

`RtuLine` puts the stream under `adapters::rtu::UartAdapter`, in a FreeRTOS task. There are
three actors:

* the line and the interrupts it raises. A tick is a byte or a byte's time of silence; a
  filled chunk or the first silent tick publishes, the event may be lost, an error voids
  the chunk and leaves a marker, and a fifo without room loses what follows;
* the peer, which may stop anywhere and begin another frame;
* the task: `wait`, `Take` and asleep on the notification; `prepare`, then `Drain` chunk by
  chunk, `Drained`, `finish`, as `UartAdapter::prepare`, the driver's `proceed` and
  `UartAdapter::finish`; and the application's calls between two passes (`bind`, `unbind`,
  a change of speed, packets popped and dropped).

Of the driver there is only what the adapter sees; that the driver delivers that is
`UartDriver`'s subject. The driver is lossier than here only inside the two windows of
section 3.

The code uses its ticks in differences only, so the model keeps `lag` (now minus
`m_now_ms`) and `late` (now minus the deadline), the latter modulo `Wrap`.

| Bound | Value | Why it is enough |
|---|---|---|
| `ChunkSize`, `ChunkCount` | 2, 2 | a frame spans chunks, a chunk ends inside a frame, the fifo fills |
| `Wrap` | 16 | deadlines are at most 4 ticks away, below half of it, and `late` wraps within a run |
| `idle_stale_ms`, guard, `fallback_ms` | 3, 1, 3 | a full chunk waits longer than an idle one, as in the code; a frame outlives one fallback |
| `MaxBusy` | 1 | a pass that takes time: the tick `finish` uses is not the one `prepare` read |
| `MaxFrames`, `MaxFaults`, `MaxAways` | 2, 1, 1 | one frame cut off by another; one lost event or line error; one unbinding or change of speed (at the speed it has, even) |
| `DeadBound`, `MaxQuiet` | 13, 13 | the bound the model has: with 12 TLC finds a frame that stays; it is `2 * longest + 6 * MaxBusy - 1` of section 9 for deadlines of at most 4 ticks |

The peer's frames are built with `RtuMessage`'s operators, as an endpoint of this library
would build them, or damaged by hand: a wrong byte in place of the checksum, and a count
beyond the limit. The exception status is chosen so that its value looks like a header
when the stream is out of step.

`OnlySilenceKills` is the adapter's promise that a live frame is never dropped, whatever
waits in the chunk or the fifo. A deadline counts from the tick the pass was given, not from
the drain, so what a pass takes beyond one tick is missing from the silence it grants
(`Spread`, none for `MaxBusy` of 1); `DeadFramesGo` is its counterpart, and holds even when the
idle event of the last chunk was lost. `NoOversleeping` is the wake: a notification between
the last look and the take is not lost, and a deadline bounds the sleep. `FrameInFlight` ties
every stage to the bytes read and the blocks out.

### 6.3 Sending

`RtuMessage` is the builder (hint, growth, append, framing, finalize) and `RtuSender` the
endpoint's half that sends. Both are proved for every format, policy, storage and order of
calls (section 9), and no run instantiates the second: its state is dominated by data.

## 7. Modbus TCP

`TcpReceiver` is the stream receiver one byte per step, on the receive pool; `TcpEndpoint`
adds messages, the endpoint and its transmit pool, so that two pools of `BlockPool` run
below it, link words and all. `FailsClosed` judges the receiver from the bytes heard since
the boundary and nothing else: every frame delivered whole, in order and with its checksum,
or passed over for want of a block; reading stops for good at the first header that cannot
be believed or the first wrong checksum. `WireIsWhole` follows an answer from the
application's appends to the wire, across moves, refused sends and a poll at any moment.

The run `TcpEndpoint` has one receive block and two transmit blocks, two message objects
(interchangeable, by symmetry), three requests out of five (good and longest, shortest with
a wrong checksum, of another protocol, too short, too long), one reconnection and two
answers. One receive block makes the second request meet a pool that is dry; two
transmit blocks let one answer be built while the other is lent, and both objects hold one.

## 8. Qt: the serial adapter and the RTU master

`SerialAdapter` is the adapter as a record and its methods as operators; each handler ends in
the notification of the layer above, which `RtuClient` applies to what they leave, together
with the calls that meet it halfway (`Refused`: `clear()` on a dead port).
`RtuClient` has one action per event of the Qt loop: signals of the port, three timers, and
the application's calls outside a handler. What a handler does inside is part of the plan
(`Plans`): the calls each request's handler makes.

What makes this code hard is modelled: `clear()` on a dead port emits an error from inside
the call, an error finishes a request that a deadline is about to retry, a handler unbinds
and binds and queues while its session is being cancelled, and the client may be destroyed
between any two events. A frame arrives as two fragments, for an arbitrary cut.

The run `RtuClient` takes four sessions: a polling loop, a broadcast whose handler goes on,
a session begun again from a handler, and one begun again by the handler of a cancelled
request. One retry, and two faults, each any of: a port error of three kinds, a refused
write, a failed message, an answer that is lost or half lost, an unbinding. The
times (1 for the silence and the frame gap, 2 for the answer and the turnaround) are the
least that order a gap, a turnaround, an answer and a timeout in every way.

**Fairness.** Time passes (`WF` of `Tick`), and a timer that has run down is served before
long, which is what a Qt event loop that runs promises (`EventLoop`; every other signal may
be late for ever, so nothing depends on a port that answers). Under it every accepted
request ends. `HandlerRunsOnce` and `NothingIsStranded` are the safety half: each
request has one place, and that place has a timer.

## 9. Proofs

Checked by TLAPS for every value of the constants.

* `PoolAndTcpProofs`: type correctness, exact and linear free list, truthful count,
  refinement of `BlockLoans`. The invariant says that the free blocks are closed under the
  links and that every closed set with the head contains them, which makes the walk of
  `is_free` exact. That a list so described reaches all its blocks needs an induction;
  induction theorems with an operator parameter cannot be instantiated by the provers, so
  the module proves one over sets (least elements exist), from the well-foundedness of
  finite subsets. All of it is said of any links (`FreeList`), so that the TCP endpoint can
  use it for its two pools: `TcpBlocksHaveOneOwner`, by `RxOwners` (the frame in flight, the
  queue and the packets share out what is held, and nothing is twice among them: `Owned`)
  and `TxOwners` (so do the messages and the transport: `Lent`). The premise is that each
  pool has a block (`PoolAssumption`, `TcpAssumption`).
  The bytes come next, for any format and checksum (`TcpPolicyFits`: a checksum is as wide
  as its policy says; `TcpDomains`: bytes are naturals, a frame has some):
  * `FailsClosed`, by `FrameInv`: `Follows` says, for each state of the receiver, how the cut
    of everything heard continues what is logged and where the bytes of the frame in
    flight lie in its block; `WholeElsewhere` that every other block that is out is a
    verified frame. `Cut` is a recursive function from the first byte on, so the step of
    the proof is `CutGrows`: a byte more leaves the frames alone and extends what is left,
    or completes it to one frame more. That `Cut` is defined at all, and what it computes,
    is shown downwards from the end by the same least elements;
  * `WireIsWhole`, by `TxContents`: the block of a message holds its text, or once finalized
    that text sealed with length and checksum, however it is moved or refused; what is
    lent holds what was sealed, since no message has that block (`Lent`).
* `UartDriverProofs`: `TypeOK`, `SlotDiscipline` (`ClaimIsNextSlot`, `NoChunkPastTheGap`) and
  `BorrowSafe` follow from one inductive invariant, `IInv`: the receive part says the claim is
  the slot after the tail and the fifo has room; the transmit part that a READY channel
  does not run and that whatever runs is lent; the thread part that the drain only pops
  what it saw. Lemmas show once for each driver primitive that it keeps its part, and
  once for each kind of interrupt and thread step that it keeps the whole. On top of it:
  * `DmaOwnsItsTarget`, by `DmaInv`: a running channel writes the claim, and the thread arms,
    changes the speed and stands unbound only while no channel runs. It is stated for
    `"init" \notin Races`, the assumption that no interrupt goes wrong before init's last
    check (section 3), and holds in the other two windows;
  * `NoForgottenWork`, by `Remembered`: for each kind of work, the steps of a pass where it may
    lie without the doorbell; whoever adds work elsewhere rings (`Rings`);
  * `BaudChangeIsQuiet`, from `DmaInv` and `RebaudQuiet`, under the same assumption; and
    `LatchedFailureWins`, by `Outranked`: the gate of `finishTx` shuts the interrupts out
    before the sample becomes final;
  * `LoanKept`, the refinement of `TxLoan`, by `LoanInv`: exactly one verdict is owed while a
    frame is lent or its verdict latched, and what a channel still reads is lent. It holds
    in all three windows of `Races`;
  * `CtsHoldsForever`, by `HoldInv`: as long as nothing has struck, every sample of the
    watchdog is taken where the receiver listens, nothing was deferred, and under CTS a
    sample settles a frame only as sent;
  * `StreamFaithful`, the refinement of `RxStream`, by `StreamInv`: what is queued, in
    order, continues what was handed over, and wherever it does not continue, a gap is
    reported first. Its parts say where the next byte of the line will lie in every
    state of the claim and the channel. It is stated for `Races = {}`: the windows of
    section 3 let a gap go unreported, or be reported out of its place.

  The same module settles the arithmetic of `Timing` at every baud rate and tick rate:
  `DrainOutlastsThePipeline` (the watchdog never fails a frame the USART may still be
  shifting out), `ChunkTimeCoversTheChunk` (the RTU deadline is never short of the chunk),
  `WakeIsNeverLate` (a sleep is never longer than asked, and never endless).
* `UartRegistry`: `RegistryServesBoundEngines` and `RegistryFindsEveryEngine`, from `Mirror`: the
  entries are exactly the engines that are in, with their handles. A handle is never found
  after `detach`, which is why the handle may be given up later with interrupts on.
* `CobsFormatProofs`: `CapacityIsExactInverse` is the claim of `Format.h:81`: the capacity
  computed for a grant is legal, its largest frame fits, and one byte more would not.
  The core is `DecodedInEncoded`: `M - ceil(M / FullCode)` is the largest d with
  `d + ceil(d / FullData) <= M`. `LengthFieldExact` and `ArithmeticGuardExact` settle the
  length field and the overflow guard for every width. `IsFormat` assumes of a format
  what the static assertions of `Layout` do. `EncodingRoundTrips`: decoding the canonical
  encoding of any sequence of bytes, as `CobsReference` defines both, gives it back. The
  two are recursive functions; what they compute is shown by least elements of sets of
  counterexamples (`Downwards`), which needs no induction theorem.
* `CobsEncoderProofs`: `TypeOK`, `Overlap` and `InPlaceIsSafe` (`UnreadIntact`, `InBounds`), for
  every byte width, payload, storage and placement. The inductive invariant `Pays` says that
  the writing leads the reading by one slot and one byte per block closed as full, and that
  each of those blocks has consumed its `FullData` raw bytes; lemmas about `CeilDiv` turn
  that into the headroom `raw_offset` grants. `Canonical` and `RoundTrip` follow from a
  second invariant, `EncInv`: what is written so far, with the block still open, followed by
  the encoding of what is left to read, is the encoding of the whole.
* `CobsReceiverProofs`, first half: all six invariants of `CobsPackets`, and `PacketsAccounted`
  out of them, for any set of blocks and any finite set of handles. None is inductive alone: freeing at a
  count of one is only right if counts are exact, and exact counts need the list and the
  stages. `OwnersExact` counts the owners of every block (building or waiting, and its
  handles). Every copy, move, pop or reset rebinds one handle with a reference in flight;
  lemmas `Rebinding` and `Assigned` settle that once.

  Second half: `WritesAreOwned`, `BlocksAreOwned` and `PacketsAreValues` of the receiver, for
  any set of formats, under `ReceiverAssumption` alone. `RInv` adds to the packets' invariant
  what the reception knows: the decoder's ranges; for each stage what is built and where
  the decoder writes (`StageOK`, which also bounds what a body can still take by what was
  asked for, and makes `finishFrame` accept only a full block); and that a block elsewhere
  is empty or whole (`Stored`). A byte consumed is one step of `CobsPackets` or none, and
  `Kept` says that it changes nothing of any block but the one being built: the two facts
  the refinements need, since a packet waiting or held is a block elsewhere.

  Last part: `FrameVerdict`. The decoder works byte by byte with one block open, the verdict
  of `CobsReference` is about the whole frame, so the invariant (`FrameInv`) says what a frame
  cut anywhere has stood for. `Tracks`, in `CobsFormatProofs`, does it for the codec: what the
  blocks read so far decode to is settled whatever follows, except the zero that the last
  block owes only if another begins. `Hears` does it for the receiver: those bytes lie, in
  order, in the length field and in the block being built. The other case is a frame given
  up already, for a cause that no further byte lifts (`Doomed`, `Hopeless`), which is why the
  receiver may count it once and sleep to the delimiter. There, what is tracked is what the
  reference decodes (`TracksMeaning`), and what is counted is its `Verdict`. The premises are
  the assumptions of the modules (`ReceiverAssumption`, `FullCodeAssumption`) and no more.
* `CobsEndpointProofs`: `OneOwner`, `PayloadKept`, `FramesAreExact` and `BorrowIsHeld`, for any
  number of endpoints, messages, transports and blocks. The invariant `EndpointInv` types the
  records (`Types`), says who may hold what (`Owners`), that no two hold the same block
  (`Apart`), what each block contains (`Contents`) and that what is lent is the canonical frame
  of what was sent (`Lent`). Of bytes it says one thing only, that a sequence `Lies` at a
  place. Every change of a message replaces its block by itself, by a free one or by none;
  one lemma, `Exchanged`, settles them all. The premise `PolicyFits` is that the format is
  one and that a checksum of bytes is `crc_size` bytes, which is what the asserts of `Layout`
  and the CRC policy promise.
* `RtuProofs`, sending: `SenderFramesAreExact`, `SenderTrailerFits` and `SenderBlocksAccounted`. The
  invariant has three parts: what a message in each state holds (`MessageOK`: the reserved
  bytes and then what was appended, within its block; a finalized one is sealed, and never
  changes again), the account of blocks, and the frame on the wire. The
  premises are `ChecksumFits` (a checksum is `crc_size` bytes) and `SenderDomains` (what the
  application and storage may pass), besides `PolicyAssumption`, which is what the static
  assertions of `Framing.h` let a policy be. `StoreCountIsReadBack` and `GrowTargetBounds` are
  the facts about widths, byte orders and growth it rests on.

  Receiving: `ReceiverSleepsInTime` (`NoOversleeping`) and `FramesDieOfSilence`
  (`OnlySilenceKills`), for every chunk size, depth, rate, format, policy and pass. The
  invariant `LineInv` dates everything by the silence of the line. A chunk that is not full
  was ended by silence, a full one says nothing of the line (`Chunks`); hence a deadline
  granted at a short chunk is as far off as the silence is short of `idle_stale_ms`, and one
  granted at a full chunk must see the chunk's whole time go by without progress
  (`Silence`). A marker or a line that is down is what keeps an old deadline from speaking:
  the reception comes up again only behind a marker that will be drained, or with nothing
  in flight. `Sleep` follows the notification and the ticks of the wait. Neither property is
  inductive: a verdict in `finish` rests on what `prepare` saw two steps before. The premises are
  `LineAssumption`: a full chunk takes longer than the silence that ends a frame (the guard
  of `UartAdapter`), deadlines and passes stay below half of the tick counter's range, and a
  kernel tick is one of `HAL_GetTick`.

  The bytes: `FramesStayWhole` (`FrameInFlight`) and `ChunksDoNotMatter` (`StreamVerdict`), for
  every format, framing policy, checksum, storage and chunk. `RtuReference` reads the bytes of a
  call from their end, the receiver from their beginning, so the proof meets them at every
  place in between:
  * `Readings` is a recursive function; that it is defined, and what it says at each place, is
    shown by least elements (`ReadingsExist`, `ReadingsUnfold`);
  * `InFlight` says, for each stage, what the receiver holds of the bytes read; `Outcome` what
    one byte more may do to it: the frame waits on, is passed over, delivered, or fails
    (`ByteRead`);
  * `Follows` says that after any number of bytes of a call, what was delivered and lost, joined
    with the reference's verdict on what is left to read from there, is its verdict on the
    whole. A byte keeps that in each of the outcomes (`FollowByte`), `FollowAll` carries it
    along the loop of `on_rx`, and where the call ends nothing is left to read (`FollowEnds`);
  * `FlightInv` puts that on the line: the receiver is in flight with `trail`, the packets that
    wait are whole, blocks are accounted for, and an unbound adapter has read nothing. It needs
    `LineInv` only for the types of the fifo. TLC checked it on the run's instance first.

  `DeadFramesLeave` (`DeadFramesGo`), by `DeadInv`, for `DeadBound >= 2 * longest + 6 * MaxBusy - 1`,
  where no rate grants a deadline beyond `longest` and the bound on a pass is at least a tick
  and less than a quarter of the counter's range (`Prompt`). The deadline alone bounds nothing,
  since it is granted when a chunk is drained, not when its bytes came. So the invariant dates
  three things: a deadline is missed by no more than the pass that overslept it and the one that
  looks (`Lateness`); what waits to be drained came within the last two passes, and what fills
  behind it later (`Recency`); and the silence so far and the way to the deadline together stay
  below a bound, a tighter one while there are bytes the adapter has not seen (`Nearing`). That
  permits one deadline more and no second: the grant in `finish` is for bytes that `prepare`
  had not seen before. The run's 13 is this bound for its constants, and it is tight. TLC
  checked `DeadInv` on the run's instance first.

Only model-checked: liveness (out of the prover's reach), and the safety of the Qt master,
since `RtuClient` declares a RECURSIVE operator, the handlers that call back, and is closed to
proof.

## 10. Not modelled

* **CRC** (`src/crc/Crc.h`): table arithmetic on bit vectors, fixed by published check values.
  The models take any function of the right width; how a frame is split into bytes and
  checksum is modelled.
* **Scalars and readers** (`src/wire/Scalar.h`, `Read.h`), the **probe** and the **demo**:
  conversions, cycle counters, an empty window; no state.
* **The COBS UART adapter**: it forwards chunks, gaps and polls, without state of its own.
* **The heap storage** as such: one of those that grant enough, too little, or nothing.
* **Destructors** of the RTU and TCP endpoints, moves between two RTU messages, the endpoint
  without a framing policy, TX counters, and setters of times, which are constants here.
* **A clock idle for half its range**: `RtuClient::schedule_next` compares the silence owed
  through a signed difference of 32-bit milliseconds and never forgets the moment; after
  24.8 days without a request the difference is positive again, and the next request waits.
  The model keeps the silence owed as a small number that runs out.
* **The window of `init`** (section 3) is modelled and has no run.
