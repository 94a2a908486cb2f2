----------------------------- MODULE TcpEndpoint -----------------------------
(***************************************************************************)
(* modbus::tcp::Endpoint on wire::Pool (src/modbus/tcp/Tcp.h,              *)
(* detail/Message.h, src/wire/Storage.h) as a server uses it: a request    *)
(* that was received is answered by a message that carries its             *)
(* transaction.  A message owns a block of the transmit pool, builds the   *)
(* ADU in it, and surrenders it to the endpoint, which lends it to the     *)
(* transport until that is no longer busy.  The pool grants whole slabs,   *)
(* so a message never grows into another block here (CobsEndpoint has      *)
(* that path).                                                             *)
(***************************************************************************)
EXTENDS TcpReceiver

CONSTANTS
    TxBlocks,       \* blocks of the transmit pool
    Handles,        \* the application's message objects
    Payload,        \* bytes it appends
    MaxAnswers      \* bound of the instance

ASSUME TcpAssumption == TxBlocks \in Nat \ {0}

VARIABLES
    tx_free, tx_link, tx_in_use, tx_high_water, tx_exhausted, tx_rejected, tx_held,
    m,              \* the messages
    tx_memory,      \* the ADU bytes in the blocks
    m_bound, m_active_tx, m_busy,   \* the endpoint, and its transport
    answers,
    wire            \* history: what the application asked to have sent

Tx == INSTANCE BlockPool WITH
        BlockCount <- TxBlocks, Modulus <- 1, m_free <- tx_free, link <- tx_link,
        in_use <- tx_in_use, high_water <- tx_high_water, exhausted <- tx_exhausted,
        rejected <- tx_rejected, held <- tx_held

txPool == <<tx_free, tx_link, tx_in_use, tx_high_water, tx_exhausted, tx_rejected, tx_held>>
transport == <<m_bound, m_active_tx, m_busy>>
tcpVars == <<rxVars, txPool, m, tx_memory, transport, answers, wire>>

EmptyMessage == [block |-> Tx!Null, size |-> 0, state |-> "Empty", text |-> <<>>]

InitTcp ==
    /\ InitRx /\ Tx!Init
    /\ m = [h \in Handles |-> EmptyMessage] /\ tx_memory = [b \in Tx!Blocks |-> <<>>]
    /\ m_bound = FALSE /\ m_active_tx = Tx!Null /\ m_busy = FALSE
    /\ answers = 0 /\ wire = <<>>

-----------------------------------------------------------------------------
(* Message.  text is a history: what the application put in.               *)

\* make_message, into a handle that holds nothing; hint is within the limit.
make_message(h, request) ==
    LET prefix == SubSeq(memory[request], 1, 2) \o <<0, 0, 0, 0>>
                    \o SubSeq(memory[request], 7, 8)
    IN  /\ m[h].block = Tx!Null /\ answers < MaxAnswers
        /\ \/ /\ Tx!Acquire
              /\ m' = [m EXCEPT ![h] = [block |-> tx_free, size |-> 0, state |-> "Building",
                                        text |-> prefix]]
              /\ tx_memory' = [tx_memory EXCEPT ![tx_free] = prefix]
              /\ answers' = answers + 1
           \/ Tx!AcquireDry /\ UNCHANGED <<m, tx_memory, answers>>
        /\ UNCHANGED <<transport, wire>>

\* make_room: a slab holds all a message may have.
MakeRoom(h) == m[h].state = "Building" /\ m[h].size < Format.max_data_size

append(h, b) ==
    LET at == adu_prefix_size + m[h].size
    IN  /\ MakeRoom(h)
        /\ m' = [m EXCEPT ![h].size = @ + 1,
                          ![h].text = IF m[h].state = "Building" THEN Append(@, b) ELSE @]
        /\ tx_memory' = [tx_memory EXCEPT ![m[h].block] = SubSeq(@, 1, at) \o <<b>>]
        /\ UNCHANGED <<txPool, transport, answers, wire>>

\* The move assignment: what the target held is released.
move(from, to) ==
    /\ from # to /\ m[from].block # Tx!Null
    /\ m' = [m EXCEPT ![to] = m[from], ![from] = EmptyMessage]
    /\ IF m[to].block = Tx!Null THEN UNCHANGED txPool ELSE Tx!Release(m[to].block)
    /\ UNCHANGED <<tx_memory, transport, answers, wire>>

release(h) ==
    /\ m[h].block # Tx!Null /\ Tx!Release(m[h].block)
    /\ m' = [m EXCEPT ![h] = EmptyMessage]
    /\ UNCHANGED <<tx_memory, transport, answers, wire>>

\* finalize: the length and the trailer, once.
Finalized(h) ==
    LET adu == tx_memory[m[h].block]
        length == Len(adu) + Format.crc_size - length_prefix_size
        covered == [adu EXCEPT ![5] = length \div 256, ![6] = length % 256]
    IN  IF m[h].state = "Finalized" THEN adu ELSE covered \o Checksum(covered)

-----------------------------------------------------------------------------
(* Endpoint.                                                               *)

tx_active == m_active_tx # Tx!Null

bind == ~tx_active /\ m_bound' = TRUE /\ UNCHANGED <<txPool, m, tx_memory, m_active_tx, m_busy, answers, wire>>
unbind ==
    /\ ~tx_active /\ m_bound /\ m_bound' = FALSE
    /\ UNCHANGED <<txPool, m, tx_memory, m_active_tx, m_busy, answers, wire>>

Ready(h) == m[h].block # Tx!Null /\ m_bound /\ ~tx_active /\ ~m_busy

\* The transport refuses: the message stays, final, for another try.
SendFailed(h) ==
    /\ Ready(h)
    /\ tx_memory' = [tx_memory EXCEPT ![m[h].block] = Finalized(h)]
    /\ m' = [m EXCEPT ![h].state = "Finalized"]
    /\ UNCHANGED <<txPool, transport, answers, wire>>

Sent(h) ==
    /\ Ready(h)
    /\ tx_memory' = [tx_memory EXCEPT ![m[h].block] = Finalized(h)]
    /\ m' = [m EXCEPT ![h] = EmptyMessage]
    /\ m_active_tx' = m[h].block /\ m_busy' = TRUE /\ wire' = m[h].text
    /\ UNCHANGED <<txPool, m_bound, answers>>

\* The transport has taken the bytes.
TransportDone ==
    /\ m_busy /\ m_busy' = FALSE
    /\ UNCHANGED <<txPool, m, tx_memory, m_bound, m_active_tx, answers, wire>>

\* Mutant: the block goes back while the transport still reads it.
poll_Early ==
    /\ tx_active /\ Tx!Release(m_active_tx)
    /\ m_active_tx' = Tx!Null /\ wire' = <<>>
    /\ UNCHANGED <<m, tx_memory, m_bound, m_busy, answers>>

poll ==
    /\ tx_active /\ ~m_busy /\ Tx!Release(m_active_tx)
    /\ m_active_tx' = Tx!Null /\ wire' = <<>>
    /\ UNCHANGED <<m, tx_memory, m_bound, m_busy, answers>>

NextTx ==
    \/ \E h \in Handles :
         \/ \E b \in packets : make_message(h, b)
         \/ \E b \in Payload : append(h, b)
         \/ \E g \in Handles : move(h, g)
         \/ release(h) \/ SendFailed(h) \/ Sent(h)
    \/ bind \/ unbind \/ TransportDone \/ poll

NextTcp ==
    \/ NextRx /\ UNCHANGED <<txPool, m, tx_memory, transport, answers, wire>>
    \/ NextTx /\ UNCHANGED rxVars

TcpSpec == InitTcp /\ [][NextTcp]_tcpVars
=============================================================================
