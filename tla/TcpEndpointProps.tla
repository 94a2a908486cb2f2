--------------------------- MODULE TcpEndpointProps ---------------------------
(* What a Modbus TCP endpoint on fixed pools promises.                       *)
EXTENDS TcpEndpoint

\* v begins with a complete frame, as its header has it.
SizeOf(v) == length_prefix_size + LengthOf(v)
BeginsWhole(v) == Len(v) >= length_prefix_size /\ Plausible(v) /\ Len(v) >= SizeOf(v)

\* The frames that lie in w from p on, as their lengths cut it, and what is left:
\* less than a frame, or something whose header cannot be believed.
Piece(w, from, p) ==
    LET v == SubSeq(w, p, Len(w))
        next == from[p + SizeOf(v)]
    IN  IF BeginsWhole(v)
        THEN [frames |-> <<SubSeq(v, 1, SizeOf(v))>> \o next.frames, left |-> next.left]
        ELSE [frames |-> <<>>, left |-> v]

Pieces(w) == LET from[p \in 1 .. Len(w) + 1] == Piece(w, from, p) IN from
Cut(w) == Pieces(w)[1]

IsFrame(w) == Cut(w) = [frames |-> <<w>>, left |-> <<>>]

\* Fail closed: since the boundary every frame was delivered whole, in order and
\* with its checksum, or was passed over because no block was free, and reading
\* stopped for good at the first byte where that could not be said any more.
\* What waits for the application is a whole frame.
FailsClosed ==
    LET frames == Cut(heard).frames
        left == Cut(heard).left
        failed == x.m_state = "Failed"
    IN  /\ \A k \in DOMAIN log :
              log[k] # Skipped => k <= Len(frames) /\ log[k] = frames[k] /\ Verified(log[k])
        /\ ~failed => Len(log) = Len(frames)
        /\ failed /\ heard # <<>> =>
              \/ Len(log) = Len(frames) /\ Len(left) = length_prefix_size /\ ~Plausible(left)
              \/ Len(log) = Len(frames) - 1 /\ left = <<>> /\ ~Verified(Last(frames))
        /\ ~failed /\ Len(left) >= length_prefix_size => Plausible(left)
        /\ \A k \in DOMAIN x.ready :
              IsFrame(memory[x.ready[k]]) /\ Verified(memory[x.ready[k]])

\* Both pools are exact and every block that is out has one owner: the frame in
\* flight, the queue or one packet; one message or the transport.
BlocksHaveOneOwner ==
    LET building == IF x.building = Null THEN {} ELSE {x.building}
        queued == {x.ready[k] : k \in DOMAIN x.ready}
        owned == {h \in Handles : m[h].block # Tx!Null}
        lent == IF tx_active THEN {m_active_tx} ELSE {}
        messages == {m[h].block : h \in owned}
    IN  /\ FreeListExact /\ Tx!FreeListExact
        /\ held = building \union queued \union packets
        /\ Cardinality(held) = Cardinality(building) + Len(x.ready) + Cardinality(packets)
        /\ tx_held = messages \union lent
        /\ Cardinality(tx_held) = Cardinality(owned) + Cardinality(lent)

\* While the transport reads, it reads the answer exactly as the application put
\* it together: the transaction of its request, a length that fits, a checksum
\* over both; no later call can change it.
WireIsWhole ==
    m_busy =>
        LET adu == tx_memory[m_active_tx]
            end == Len(adu) - Format.crc_size
        IN  /\ tx_active
            /\ IsFrame(adu) /\ Verified(adu)
            /\ [SubSeq(adu, 1, end) EXCEPT ![5] = 0, ![6] = 0] = wire
=============================================================================
