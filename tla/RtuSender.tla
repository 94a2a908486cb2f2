------------------------------ MODULE RtuSender ------------------------------
(***************************************************************************)
(* The sending half of modbus::rtu::Endpoint with a framing policy         *)
(* (src/modbus/rtu/Rtu.h): a message built in a block of the endpoint's    *)
(* storage, framed, sealed and lent to the transport until the busy query  *)
(* says that the transport let go.                                         *)
(*                                                                         *)
(* The transport is any that keeps a frame it started until it is done;    *)
(* its busy query may also answer true for somebody else's frame.  Storage *)
(* answers a request with any block, or with none.                         *)
(***************************************************************************)
EXTENDS RtuMessage

CONSTANTS Addresses, Functions, Hints, Texts, Grants   \* what the application and storage do

\* What the theorems assume of them.
SenderDomains ==
    /\ Addresses \subseteq Byte /\ Functions \subseteq Byte
    /\ Hints \subseteq Nat /\ Texts \subseteq Seq(Byte) /\ Grants \subseteq Nat

VARIABLES
    message,      \* the application's Message
    m_active_tx,  \* size of the block in flight, 0 for none
    bound,        \* a transport is bound
    reading,      \* the transport reads the frame it started
    blocks,       \* history: blocks storage has lent and not got back
    text,         \* history: what the application appended
    onWire        \* history: the last frame a transport started

senderVars == <<message, m_active_tx, bound, reading, blocks, text, onWire>>

Has(size) == IF size # 0 THEN 1 ELSE 0
NothingSent == [function |-> 0, adu |-> <<>>, text |-> <<>>]

SenderInit ==
    /\ message = Disowned /\ m_active_tx = 0
    /\ bound = FALSE /\ reading = FALSE
    /\ blocks = 0 /\ text = <<>> /\ onWire = NothingSent

\* What this endpoint sends is the other side of what it receives.
tx_layout(function) == Framer(opposite(Rx), function)

Made(address, function, hint, granted) ==
    IF hint > Format.max_data_size THEN Disowned
    ELSE Message(address, function, make_hint(tx_layout(function), hint),
                 reserved(tx_layout(function)), granted)

\* message = endpoint.make_message(...): the old block goes back last.
make_message(address, function, hint, granted) ==
    /\ message' = Made(address, function, hint, granted)
    /\ blocks' = (blocks + Has(message'.granted)) - Has(message.granted)
    /\ text' = <<>>
    /\ UNCHANGED <<m_active_tx, bound, reading, onWire>>

\* A block that replaces another leaves storage's account as it is.
append_bytes(bytes, granted) ==
    /\ message' = append(message, bytes, granted)
    /\ text' = IF message'.data = message.data THEN text ELSE text \o bytes
    /\ UNCHANGED <<m_active_tx, bound, reading, blocks, onWire>>

reserve_room(required, granted) ==
    /\ message' = reserve(message, required, granted)
    /\ UNCHANGED <<m_active_tx, bound, reading, blocks, text, onWire>>

\* The destructor, or a move into it of an empty message.
release ==
    /\ message' = Disowned /\ text' = <<>>
    /\ blocks' = blocks - Has(message.granted)
    /\ UNCHANGED <<m_active_tx, bound, reading, onWire>>

\* send, when nothing is started: Unbound and Busy leave the message framed,
\* Failed leaves it finalized.
Refused(busy) ==
    LET framed == apply_framing(tx_layout(message.function), message)
    IN  /\ Framable(tx_layout(message.function), message)
        /\ message' = IF ~bound \/ m_active_tx # 0 \/ busy THEN framed ELSE finalize(framed)
        /\ UNCHANGED <<m_active_tx, bound, reading, blocks, text, onWire>>

\* send, when the transport starts the frame: the block goes with it.
Sent ==
    LET sealed == finalize(apply_framing(tx_layout(message.function), message))
    IN  /\ Framable(tx_layout(message.function), message)
        /\ bound /\ m_active_tx = 0 /\ ~reading
        /\ onWire' = [function |-> sealed.function, adu |-> sealed.wire, text |-> text]
        /\ m_active_tx' = sealed.granted /\ message' = Disowned /\ text' = <<>>
        /\ reading' = TRUE
        /\ UNCHANGED <<bound, blocks>>

\* poll: the block goes back once the transport is done with it.
poll ==
    /\ m_active_tx # 0 /\ ~reading
    /\ m_active_tx' = 0 /\ blocks' = blocks - 1
    /\ UNCHANGED <<message, bound, reading, text, onWire>>

\* bind and unbind, both refused while a frame is in flight.
Bind(b) ==
    /\ m_active_tx = 0
    /\ bound' = b
    /\ UNCHANGED <<message, m_active_tx, reading, blocks, text, onWire>>

\* The transport finished the frame.
TransportDone ==
    /\ reading /\ reading' = FALSE
    /\ UNCHANGED <<message, m_active_tx, bound, blocks, text, onWire>>

SenderNext ==
    \/ \E address \in Addresses, function \in Functions, hint \in Hints, granted \in Grants :
         make_message(address, function, hint, granted)
    \/ \E bytes \in Texts, granted \in Grants : append_bytes(bytes, granted)
    \/ \E required \in Hints, granted \in Grants : reserve_room(required, granted)
    \/ release
    \/ \E busy \in BOOLEAN : (reading => busy) /\ Refused(busy)
    \/ Sent \/ poll \/ TransportDone
    \/ \E b \in BOOLEAN : Bind(b)

SenderSpec == SenderInit /\ [][SenderNext]_senderVars

-----------------------------------------------------------------------------
(***************************************************************************)
(* Properties.                                                             *)
(***************************************************************************)
\* However often a message was refused, appended to and sent again, the frame
\* that goes out ends in its own checksum, has the length its function's layout
\* announces, and carries what the application appended, all of it and nothing
\* else, behind the count the library owns (Endpoint::send).
FrameIsExact ==
    onWire.adu # <<>> =>
        LET adu == onWire.adu
            layout == tx_layout(onWire.function)
            data == SubSeq(adu, adu_prefix_size + 1, Len(adu) - Format.crc_size)
        IN  /\ verify(adu) /\ Len(adu) <= max_adu_size(Format)
            /\ supported(layout) => matches(layout, data)
            /\ SubSeq(data, reserved(layout) + 1, Len(data)) = onWire.text

\* Whatever storage grants, the block has room for the data and for the trailer
\* that finalize writes behind it without looking (Message::finalize).
TrailerFits ==
    message.granted # 0 => adu_size_for_data(Format, Len(message.data)) <= message.granted

\* Storage's account: every block it lent is held by the message or by the frame
\* in flight, and the transport reads no block that went back (Endpoint::poll,
\* Message::release).
BlocksAccounted ==
    /\ blocks = Has(message.granted) + Has(m_active_tx)
    /\ reading => m_active_tx # 0
=============================================================================
