----------------------------- MODULE CobsEndpoint -----------------------------
(***************************************************************************)
(* The sending half of cobs: Message (src/cobs/detail/Message.h) and the   *)
(* send, poll, bind and unbind of Endpoint (Cobs.h).  A Message builds its *)
(* payload in a block of the endpoint's storage, encodes it there in       *)
(* place, and the block is lent to the transport until the busy query says *)
(* the transport let go.                                                   *)
(*                                                                         *)
(* Endpoints of one type are interchangeable for the compiler, and so are  *)
(* their messages: several of each are modelled, over any transports.      *)
(* Memory is modelled byte for byte, because where the payload lies is     *)
(* what encoding in place depends on.  The counters are left out.          *)
(***************************************************************************)
EXTENDS CobsReference, FiniteSets

CONSTANTS
    Endpoints, Messages, Transports,
    TxBlocks,        \* the memory storage carves its blocks from
    None,            \* the null pointer, the empty delegate
    Format,
    Checksum(_),     \* of the CRC policy
    GrantSizes,      \* the sizes of the blocks storage may return
    Texts,           \* what one append may add
    Hints            \* the hints given to make_message and reserve

ASSUME EndpointAssumption ==
    /\ GrantSizes \subseteq Nat /\ Hints \subseteq Nat /\ Texts \subseteq Seq(Byte)
    /\ None \notin TxBlocks \union Endpoints \union Transports
    /\ Messages \intersect Endpoints = {}

Junk == FullCode + 1     \* a byte of a fresh block
NoGrant == [memory |-> None, granted |-> 0]

VARIABLES
    alive,       \* the endpoints that are not destroyed
    grant,       \* storage's account: who each block is granted to, how large
    mem,         \* the bytes of each granted block
    msg,         \* the Message objects
    m_activeTx,  \* of each endpoint: the block lent to the transport
    bound,       \* of each endpoint: the transport its delegate pair names
    reading,     \* of each transport: the frame it was given, or None
    text         \* history: what was appended to each message

storage == <<grant, mem>>
vars == <<alive, storage, msg, m_activeTx, bound, reading, text>>

Disowned == [m_storage |-> None, m_block |-> NoGrant, m_capacity |-> 0,
             m_size |-> 0, m_wire |-> 0, m_state |-> "Empty"]

EndpointInit ==
    /\ alive = Endpoints
    /\ grant = [b \in TxBlocks |-> [to |-> None, granted |-> 0]]
    /\ mem = [b \in TxBlocks |-> <<>>]
    /\ msg = [m \in Messages |-> Disowned]
    /\ m_activeTx = [e \in Endpoints |-> NoGrant]
    /\ bound = [e \in Endpoints |-> None]
    /\ reading = [t \in Transports |-> None]
    /\ text = [m \in Messages |-> <<>>]

Max_payload_size == Format.max_send_size

-----------------------------------------------------------------------------
(* Storage.  release_tx trusts the descriptor: it takes back `granted`     *)
(* bytes for the storage it is called on.                                  *)

FreeBlocks == {b \in TxBlocks : grant[b].to = None}

\* Storage after `old` is returned and, when it is a block, `fresh` granted
\* with the bytes `with`.
Restocked(old, e, fresh, with) ==
    /\ grant' = [b \in TxBlocks |->
                   CASE b = fresh.memory -> [to |-> e, granted |-> fresh.granted]
                     [] b = old.memory /\ b # fresh.memory -> [to |-> None, granted |-> 0]
                     [] OTHER -> grant[b]]
    /\ mem' = [b \in TxBlocks |->
                   CASE b = fresh.memory -> with
                     [] b = old.memory /\ b # fresh.memory -> <<>>
                     [] OTHER -> mem[b]]

Fresh(granted) == [k \in 1 .. granted |-> Junk]

\* A short grant is handed straight back, which leaves storage as a refusal
\* does.
honours(granted, requested) == granted >= requested

\* The grants storage may answer a request with that the message will use.
Grants(requested) ==
    {g \in [memory : FreeBlocks, granted : GrantSizes] : honours(g.granted, requested)}

CapacityOf(g) == payload_capacity_for_storage(Format, g.granted)

-----------------------------------------------------------------------------
(* Where things lie in a block.  Offsets start at 0.                       *)

\* s written over m from offset `at`; what falls outside m is lost.
Overlay(m, at, s) ==
    [k \in DOMAIN m |-> IF k - at \in DOMAIN s THEN s[k - at] ELSE m[k]]

payload_of(capacity) == raw_offset_for_capacity(Format, capacity) + length_size(Format)

\* A payload shorter than the capacity needs less headroom: its frame begins
\* further in.
FrameBegin(m) ==
    payload_of(m.m_capacity) - length_size(Format)
        - raw_offset(decoded_size_for_payload(Format, m.m_size))

Bytes(block, at, n) == SubSeq(mem[block], at + 1, at + n)
Payload(m) == Bytes(m.m_block.memory, payload_of(m.m_capacity), m.m_size)

-----------------------------------------------------------------------------
(* Building.                                                               *)

\* make_message, assigned to m: the new block is taken before the old one is
\* returned.  A hint beyond the limit never asks storage.
Make(m, e, hint) ==
    /\ e \in alive
    /\ text' = [text EXCEPT ![m] = <<>>]
    /\ LET requested == tx_storage_size_for_capacity(Format, hint)
           old == msg[m].m_block
       IN  \/ /\ hint <= Max_payload_size
              /\ \E g \in Grants(requested) :
                   /\ Restocked(old, e, g, Fresh(g.granted))
                   /\ msg' = [msg EXCEPT ![m] = [Disowned EXCEPT
                                !.m_storage = e, !.m_block = g,
                                !.m_capacity = CapacityOf(g), !.m_state = "Building"]]
           \/ /\ Restocked(old, e, NoGrant, <<>>)
              /\ msg' = [msg EXCEPT ![m] = [Disowned EXCEPT
                           !.m_storage = IF hint <= Max_payload_size THEN e ELSE None]]
    /\ UNCHANGED <<alive, m_activeTx, bound, reading>>

\* m = std::move(n), m and n different.
Move(m, n) ==
    /\ m # n
    /\ Restocked(msg[m].m_block, None, NoGrant, <<>>)
    /\ msg' = [msg EXCEPT ![m] = msg[n], ![n] = Disowned]
    /\ text' = [text EXCEPT ![m] = text[n], ![n] = <<>>]
    /\ UNCHANGED <<alive, m_activeTx, bound, reading>>

\* The destructor.
Drop(m) ==
    /\ Restocked(msg[m].m_block, None, NoGrant, <<>>)
    /\ msg' = [msg EXCEPT ![m] = Disowned]
    /\ text' = [text EXCEPT ![m] = <<>>]
    /\ UNCHANGED <<alive, m_activeTx, bound, reading>>

\* About 1.5 times the capacity, what is required, and never beyond the limit.
grow_target(capacity, required) ==
    LET half == capacity \div 2
        delta == IF half = 0 THEN 1 ELSE half
        headroom == Max_payload_size - capacity
        grown == capacity + (IF delta > headroom THEN headroom ELSE delta)
        target == IF required > grown THEN required ELSE grown
    IN  IF target > Max_payload_size THEN Max_payload_size ELSE target

\* Mutant: the payload is copied to the offset it had in the old block.
Moved_SameOffset(m, g) ==
    Overlay(Fresh(g.granted), payload_of(m.m_capacity), Payload(m))

\* The fresh block: the payload is copied to where the new capacity puts it.
Moved(m, g) == Overlay(Fresh(g.granted), payload_of(CapacityOf(g)), Payload(m))

\* reserve: the blocks in which the message can hold `required` bytes, with
\* their bytes.  None when it cannot; then nothing changes.
Places(m, required) ==
    CASE required <= m.m_capacity ->
            {[block |-> m.m_block, capacity |-> m.m_capacity, bytes |-> mem[m.m_block.memory]]}
      [] required > m.m_capacity /\ required <= Max_payload_size ->
            {[block |-> g, capacity |-> CapacityOf(g), bytes |-> Moved(m, g)] :
                g \in Grants(tx_storage_size_for_capacity(Format,
                                grow_target(m.m_capacity, required)))}
      [] OTHER -> {}

\* Adds s to m in the place p; reserve adds nothing.
Placed(m, p, s) ==
    /\ Restocked(msg[m].m_block, msg[m].m_storage, p.block,
                 Overlay(p.bytes, payload_of(p.capacity) + msg[m].m_size, s))
    /\ msg' = [msg EXCEPT ![m].m_block = p.block, ![m].m_capacity = p.capacity,
                          ![m].m_size = @ + Len(s)]
    /\ text' = [text EXCEPT ![m] = @ \o s]
    /\ UNCHANGED <<alive, m_activeTx, bound, reading>>

Reserve(m, required) ==
    /\ msg[m].m_state = "Building"
    /\ \E p \in Places(msg[m], required) : Placed(m, p, <<>>)

\* The bound of make_room comes before the growth.
Append_bytes(m, s) ==
    /\ msg[m].m_state = "Building"
    /\ Len(s) <= Max_payload_size - msg[m].m_size
    /\ \E p \in Places(msg[m], msg[m].m_size + Len(s)) : Placed(m, p, s)

-----------------------------------------------------------------------------
(* encode: the bytes of the block afterwards, and the length of the frame. *)

\* Mutant: a message that is already encoded is encoded again.
encode_Again(m) ==
    LET f == Format
        raw == store_length(f, m.m_size + f.crc_size) \o Payload(m) \o Checksum(Payload(m))
        wire == Encoded(raw) \o <<0>>
        written == Overlay(mem[m.m_block.memory],
                           payload_of(m.m_capacity) - length_size(f), raw)
    IN  [bytes |-> Overlay(written, FrameBegin(m), wire), wire |-> Len(wire)]

\* Length and checksum are written around the payload and the whole is encoded
\* in place (module CobsEncoder); an encoded message is left as it is.
encode(m) ==
    LET f == Format
        raw == store_length(f, m.m_size + f.crc_size) \o Payload(m) \o Checksum(Payload(m))
        wire == Encoded(raw) \o <<0>>
        written == Overlay(mem[m.m_block.memory],
                           payload_of(m.m_capacity) - length_size(f), raw)
    IN  IF m.m_state = "Encoded" THEN [bytes |-> mem[m.m_block.memory], wire |-> m.m_wire]
        ELSE [bytes |-> Overlay(written, FrameBegin(m), wire), wire |-> Len(wire)]

Busy(t) == reading[t] # None

\* Mutant: a message is sent through any endpoint of its type.
Accepts_Foreign(e, m) ==
    /\ e \in alive
    /\ msg[m].m_block # NoGrant
    /\ bound[e] # None
    /\ m_activeTx[e] = NoGrant /\ ~Busy(bound[e])

\* Everything send checks before it encodes.
Accepts(e, m) ==
    /\ e \in alive
    /\ msg[m].m_block # NoGrant /\ msg[m].m_storage = e
    /\ bound[e] # None
    /\ m_activeTx[e] = NoGrant /\ ~Busy(bound[e])

\* The transport took the frame, and may be done with it at once.
SendStarted(e, m) ==
    /\ Accepts(e, m)
    /\ LET block == msg[m].m_block
           frame == encode(msg[m])
       IN  /\ mem' = [mem EXCEPT ![block.memory] = frame.bytes]
           /\ \/ reading' = [reading EXCEPT ![bound[e]] =
                               [memory |-> block.memory, begin |-> FrameBegin(msg[m]),
                                wire |-> frame.wire, text |-> text[m]]]
              \/ UNCHANGED reading
           /\ m_activeTx' = [m_activeTx EXCEPT ![e] = block]
    /\ msg' = [msg EXCEPT ![m] = Disowned]
    /\ text' = [text EXCEPT ![m] = <<>>]
    /\ UNCHANGED <<alive, grant, bound>>

\* The transport refused: the message stays encoded, to be sent again.
SendFailed(e, m) ==
    /\ Accepts(e, m)
    /\ LET frame == encode(msg[m])
       IN  /\ mem' = [mem EXCEPT ![msg[m].m_block.memory] = frame.bytes]
           /\ msg' = [msg EXCEPT ![m].m_wire = frame.wire, ![m].m_state = "Encoded"]
    /\ UNCHANGED <<alive, grant, m_activeTx, bound, reading, text>>

poll(e) ==
    /\ m_activeTx[e] # NoGrant /\ ~Busy(bound[e])
    /\ Restocked(m_activeTx[e], None, NoGrant, <<>>)
    /\ m_activeTx' = [m_activeTx EXCEPT ![e] = NoGrant]
    /\ UNCHANGED <<alive, msg, bound, reading, text>>

\* Mutant: a transport may be bound over one that is still sending.
bind_Anytime(e, t) ==
    /\ e \in alive
    /\ bound' = [bound EXCEPT ![e] = t]
    /\ UNCHANGED <<alive, storage, msg, m_activeTx, reading, text>>

\* bind with the pair of delegates of t, or unbind.
bind(e, t) ==
    /\ e \in alive /\ m_activeTx[e] = NoGrant
    /\ bound' = [bound EXCEPT ![e] = t]
    /\ UNCHANGED <<alive, storage, msg, m_activeTx, reading, text>>

\* The transport stops touching the frame: sent, failed or stopped.
TransportDone(t) ==
    /\ Busy(t)
    /\ reading' = [reading EXCEPT ![t] = None]
    /\ UNCHANGED <<alive, storage, msg, m_activeTx, bound, text>>

\* ~Endpoint, under its lifetime preconditions.
Destroy(e) ==
    /\ e \in alive
    /\ \A m \in Messages : msg[m].m_storage # e
    /\ m_activeTx[e] # NoGrant => ~Busy(bound[e])
    /\ alive' = alive \ {e}
    /\ Restocked(m_activeTx[e], None, NoGrant, <<>>)
    /\ m_activeTx' = [m_activeTx EXCEPT ![e] = NoGrant]
    /\ bound' = [bound EXCEPT ![e] = None]
    /\ UNCHANGED <<msg, reading, text>>

EndpointNext ==
    \/ \E m \in Messages :
          \/ \E e \in Endpoints, hint \in Hints : Make(m, e, hint)
          \/ \E n \in Messages : Move(m, n)
          \/ Drop(m)
          \/ \E n \in Hints : Reserve(m, n)
          \/ \E s \in Texts : Append_bytes(m, s)
          \/ \E e \in Endpoints : SendStarted(e, m) \/ SendFailed(e, m)
    \/ \E e \in Endpoints :
          \/ poll(e) \/ Destroy(e)
          \/ \E t \in Transports \union {None} : bind(e, t)
    \/ \E t \in Transports : TransportDone(t)

EndpointSpec == EndpointInit /\ [][EndpointNext]_vars
=============================================================================
