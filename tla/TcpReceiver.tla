----------------------------- MODULE TcpReceiver -----------------------------
(***************************************************************************)
(* modbus::tcp::detail::Receiver (src/modbus/tcp/detail/Receiver.h) on the *)
(* receive pool of wire::Pool (src/wire/Storage.h), which is BlockPool.    *)
(* consume keeps nothing between two bytes of a call but these fields, so  *)
(* a step takes one byte.  What a careless caller, or the bytes a holder    *)
(* writes, could do to a pool is in BlockPool's own Next.                   *)
(***************************************************************************)
EXTENDS BlockPool, SequencesExt

CONSTANTS
    Format,         \* [crc_size, max_data_size] of the endpoint
    Checksum(_),    \* of the CRC policy: a sequence of bytes to its crc_size bytes
    Frames,         \* what the peer sends: sequences of bytes
    MaxFrames, MaxBoundaries    \* bounds of the instance

VARIABLES
    x,              \* the receiver
    memory,         \* the ADU bytes in the blocks
    packets,        \* blocks whose handle the application has
    rest,           \* the connection: bytes of the peer's frame to come
    begun, boundaries,
    heard, log      \* history, since the boundary: bytes read, frames passed

pool == <<m_free, link, stats, held>>
connection == <<rest, begun, boundaries>>
rxVars == <<pool, x, memory, packets, connection, heard, log>>

length_prefix_size == 6
adu_prefix_size == 8
adu_overhead == adu_prefix_size + Format.crc_size
max_adu_size == adu_overhead + Format.max_data_size

NewReceiver ==
    [m_state |-> "Header", header |-> <<>>, remaining |-> 0, building |-> Null, ready |-> <<>>]

InitRx ==
    /\ Init
    /\ x = NewReceiver /\ memory = [b \in Blocks |-> <<>>] /\ packets = {}
    /\ rest = <<>> /\ begun = 0 /\ boundaries = 0 /\ heard = <<>> /\ log = <<>>

Passed(what) == log' = Append(log, what)
Skipped == <<>>

-----------------------------------------------------------------------------
(* One frame.                                                              *)

LengthOf(header) == 256 * header[5] + header[6]

\* A header whose protocol and length can be believed.
Plausible(header) ==
    /\ header[3] = 0 /\ header[4] = 0
    /\ length_prefix_size + LengthOf(header) \in adu_overhead .. max_adu_size

\* crc::verify
Verified(adu) ==
    LET n == Len(adu) - Format.crc_size
    IN  SubSeq(adu, n + 1, Len(adu)) = Checksum(SubSeq(adu, 1, n))

begin_frame(header) ==
    LET y == [x EXCEPT !.header = header, !.remaining = LengthOf(header)]
    IN  \/ /\ ~Plausible(header)
           /\ x' = [x EXCEPT !.header = header, !.m_state = "Failed"]
           /\ UNCHANGED <<pool, memory, log>>
        \/ /\ Plausible(header) /\ AcquireDry
           /\ x' = [y EXCEPT !.m_state = "Skip"] /\ UNCHANGED <<memory, log>>
        \/ /\ Plausible(header) /\ Acquire
           /\ x' = [y EXCEPT !.m_state = "Body", !.building = m_free]
           /\ memory' = [memory EXCEPT ![m_free] = header] /\ UNCHANGED log

Header(b) ==
    LET header == Append(x.header, b)
    IN  /\ x.m_state = "Header"
        /\ \/ /\ Len(header) < length_prefix_size
              /\ x' = [x EXCEPT !.header = header] /\ UNCHANGED <<pool, memory, log>>
           \/ Len(header) = length_prefix_size /\ begin_frame(header)

\* Mutant: after a bad checksum the next frame is expected where this one ended.
finish_frame_Guesses(adu) ==
    LET y == [x EXCEPT !.building = Null, !.header = <<>>, !.remaining = 0, !.m_state = "Header"]
    IN  \/ /\ Verified(adu) /\ Passed(adu)
           /\ x' = [y EXCEPT !.ready = Append(@, x.building)]
           /\ UNCHANGED pool
        \/ ~Verified(adu) /\ Release(x.building) /\ x' = y /\ UNCHANGED log

\* Even a plausible length may be corrupt: never guess the next boundary.
finish_frame(adu) ==
    LET y == [x EXCEPT !.building = Null, !.header = <<>>, !.remaining = 0]
    IN  \/ /\ Verified(adu) /\ Passed(adu)
           /\ x' = [y EXCEPT !.ready = Append(@, x.building), !.m_state = "Header"]
           /\ UNCHANGED pool
        \/ /\ ~Verified(adu) /\ Release(x.building)
           /\ x' = [y EXCEPT !.m_state = "Failed"] /\ UNCHANGED log

Body(b) ==
    LET adu == Append(memory[x.building], b)
    IN  /\ x.m_state = "Body" /\ memory' = [memory EXCEPT ![x.building] = adu]
        /\ \/ /\ x.remaining > 1
              /\ x' = [x EXCEPT !.remaining = @ - 1] /\ UNCHANGED <<pool, log>>
           \/ x.remaining = 1 /\ finish_frame(adu)

Skip ==
    /\ x.m_state = "Skip" /\ UNCHANGED <<pool, memory>>
    /\ \/ /\ x.remaining > 1
          /\ x' = [x EXCEPT !.remaining = @ - 1] /\ UNCHANGED log
       \/ /\ x.remaining = 1 /\ Passed(Skipped)
          /\ x' = [x EXCEPT !.remaining = 0, !.header = <<>>, !.m_state = "Header"]

\* The peer goes on with its frame, or begins the next.
Coming(f) ==
    \/ f = rest /\ rest # <<>> /\ UNCHANGED begun
    \/ rest = <<>> /\ f \in Frames /\ begun < MaxFrames /\ begun' = begun + 1

\* One byte of consume ...
ConsumeByte(f) ==
    /\ Coming(f) /\ rest' = Tail(f) /\ heard' = Append(heard, Head(f))
    /\ Header(Head(f)) \/ Body(Head(f)) \/ Skip
    /\ UNCHANGED <<packets, boundaries>>

\* ... which leaves everything unread once it has failed.
ConsumeNothing(f) ==
    /\ x.m_state = "Failed" /\ Coming(f) /\ rest' = <<>>
    /\ UNCHANGED <<pool, x, memory, packets, boundaries, heard, log>>

Consume == \E f \in Frames \union {rest} : ConsumeByte(f) \/ ConsumeNothing(f)

-----------------------------------------------------------------------------
(* Calls of the application.                                               *)

\* Mutant: the block of the frame in flight is forgotten.
DropBuilding_Leaks == UNCHANGED pool

DropBuilding == IF x.building = Null THEN UNCHANGED pool ELSE Release(x.building)

Restarted == [NewReceiver EXCEPT !.ready = x.ready]

\* reset_rx, at the boundary that a new connection is.
reset_rx ==
    /\ boundaries < MaxBoundaries /\ boundaries' = boundaries + 1
    /\ DropBuilding /\ x' = Restarted
    /\ rest' = <<>> /\ heard' = <<>> /\ log' = <<>>
    /\ UNCHANGED <<memory, packets, begun>>

notify_gap ==
    /\ x.m_state # "Failed"
    /\ DropBuilding /\ x' = [Restarted EXCEPT !.m_state = "Failed"]
    /\ heard' = <<>> /\ log' = <<>>
    /\ UNCHANGED <<memory, packets, connection>>

pop_packet ==
    /\ x.ready # <<>>
    /\ x' = [x EXCEPT !.ready = Tail(@)] /\ packets' = packets \union {Head(x.ready)}
    /\ UNCHANGED <<pool, memory, connection, heard, log>>

\* The last handle of a packet goes: Pool::For::release_rx.
release_rx(b) ==
    /\ b \in packets /\ packets' = packets \ {b} /\ Release(b)
    /\ UNCHANGED <<x, memory, connection, heard, log>>

NextRx ==
    \/ Consume \/ reset_rx \/ notify_gap \/ pop_packet
    \/ \E b \in Blocks : release_rx(b)
=============================================================================
