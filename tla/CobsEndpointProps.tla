-------------------------- MODULE CobsEndpointProps --------------------------
(* What the sending half of cobs promises. *)
EXTENDS CobsEndpoint

EndpointTypeOK ==
    LET Lease == {NoGrant} \union [memory : TxBlocks, granted : GrantSizes]
    IN  /\ alive \subseteq Endpoints
        /\ \A b \in TxBlocks :
              /\ grant[b].to \in Endpoints \union {None}
              /\ mem[b] \in Seq(Byte \union {Junk}) /\ Len(mem[b]) = grant[b].granted
        /\ \A m \in Messages :
              /\ msg[m].m_storage \in Endpoints \union {None}
              /\ msg[m].m_block \in Lease
              /\ msg[m].m_size \in 0 .. msg[m].m_capacity
              /\ msg[m].m_capacity \in 0 .. Max_payload_size
              /\ msg[m].m_wire \in Nat
              /\ msg[m].m_state \in {"Empty", "Building", "Encoded"}
              /\ msg[m].m_block = NoGrant <=> msg[m].m_state = "Empty"
        /\ \A e \in Endpoints :
              m_activeTx[e] \in Lease /\ bound[e] \in Transports \union {None}

\* Every granted block has one owner, a message of the endpoint that was
\* granted it or that endpoint's transfer, and the owner's descriptor is what
\* storage granted: nothing leaks, returns twice or returns elsewhere.
OneOwner ==
    LET owners(b) == {m \in Messages : msg[m].m_block.memory = b}
                       \union {e \in Endpoints : m_activeTx[e].memory = b}
        As(b, e, g) == grant[b] = [to |-> e, granted |-> g.granted]
    IN  /\ EndpointTypeOK
        /\ \A b \in TxBlocks :
              /\ Cardinality(owners(b)) = IF grant[b].to = None THEN 0 ELSE 1
              /\ \A m \in owners(b) \intersect Messages :
                    As(b, msg[m].m_storage, msg[m].m_block)
              /\ \A e \in owners(b) \intersect Endpoints : As(b, e, m_activeTx[e])

\* However a message was grown, moved and refused, its payload area holds what
\* was appended to it, and its frame and the work area of the encoder lie
\* inside the grant.
PayloadKept ==
    \A m \in Messages :
        LET s == msg[m]
            decoded == decoded_size_for_payload(Format, s.m_size)
        IN  s.m_state # "Empty" =>
               /\ s.m_state = "Building" => Payload(s) = text[m]
               /\ s.m_size = Len(text[m])
               /\ FrameBegin(s) >= 0
               /\ FrameBegin(s) + max_wire_size(decoded) <= s.m_block.granted

\* The frame of a payload (doc/PROTOCOL.md, section 2).
Wire(s) ==
    Encoded(store_length(Format, Len(s) + Format.crc_size) \o s \o Checksum(s)) \o <<0>>

\* What a transport reads, and what a refused message will send again, is the
\* frame of the text byte for byte, for as long as it is read or kept.
FramesAreExact ==
    /\ \A t \in Transports : Busy(t) =>
          LET r == reading[t]
          IN  /\ r.begin >= 0 /\ r.begin + r.wire <= grant[r.memory].granted
              /\ Bytes(r.memory, r.begin, r.wire) = Wire(r.text)
    /\ \A m \in Messages : msg[m].m_state = "Encoded" =>
          Bytes(msg[m].m_block.memory, FrameBegin(msg[m]), msg[m].m_wire) = Wire(text[m])

\* What a transport reads is held by an endpoint that will ask that very
\* transport before it returns the block.
BorrowIsHeld ==
    \A t \in Transports : Busy(t) =>
        \E e \in Endpoints : m_activeTx[e].memory = reading[t].memory /\ bound[e] = t
=============================================================================
