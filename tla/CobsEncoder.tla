----------------------------- MODULE CobsEncoder -----------------------------
(***************************************************************************)
(* encode_in_place (src/cobs/Encoder.cpp): the raw bytes lie at `offset`   *)
(* of a block of storage, and the encoding of them is written over the     *)
(* same block from its start, reading ahead of the writing.  One action    *)
(* per turn of the loop.  Indexes of storage start at 0, as in the code.   *)
(***************************************************************************)
EXTENDS CobsReference

CONSTANTS
    Payloads,     \* the raw sequences a caller may have written
    Sizes,        \* sizes of the storage
    Offsets,      \* where the caller placed the raw bytes
    Stale         \* what the rest of the storage happens to hold

ASSUME PayloadAssumption ==
    /\ Payloads \subseteq Seq(Byte)
    /\ Sizes \subseteq Nat /\ Offsets \subseteq Nat /\ Stale \in Byte

VARIABLES
    raw, size, offset,      \* the call: fixed while it runs
    storage,
    pc,                     \* "start", "loop", "done" or "refused"
    i, w, code_pos, code, last_block_was_ff    \* the locals

call == <<raw, size, offset>>
vars == <<call, storage, pc, i, w, code_pos, code, last_block_was_ff>>

N == Len(raw)

Init ==
    /\ raw \in Payloads /\ size \in Sizes /\ offset \in Offsets
    /\ storage = [k \in 0 .. size - 1 |->
                    IF k \in offset .. offset + N - 1 THEN raw[k - offset + 1]
                                                      ELSE Stale]
    /\ pc = "start"
    /\ i = 0 /\ w = 0 /\ code_pos = 0 /\ code = 1 /\ last_block_was_ff = FALSE

\* Mutant: the headroom is assumed, not checked.
Fits_NoHeadroom ==
    /\ offset <= size /\ N <= size - offset
    /\ size >= max_wire_size(N)

\* The three preconditions the code checks.
Fits ==
    /\ offset <= size /\ N <= size - offset
    /\ size >= max_wire_size(N)
    /\ offset >= raw_offset(N)

Refuse ==
    /\ pc = "start" /\ ~Fits
    /\ pc' = "refused"
    /\ UNCHANGED <<call, storage, i, w, code_pos, code, last_block_was_ff>>

Start ==
    /\ pc = "start" /\ Fits
    /\ pc' = "loop"
    /\ w' = 1                    \* slot 0 is reserved for the first code
    /\ UNCHANGED <<call, storage, i, code_pos, code, last_block_was_ff>>

Reading == pc = "loop" /\ i < N

\* The next data byte makes its block a full one.
Fills == code + 1 = FullCode

\* A data byte that leaves room in its block.
Copy ==
    /\ Reading /\ storage[offset + i] # 0 /\ ~Fills
    /\ storage' = [storage EXCEPT ![w] = storage[offset + i]]
    /\ w' = w + 1 /\ code' = code + 1 /\ i' = i + 1
    /\ UNCHANGED <<call, pc, code_pos, last_block_was_ff>>

\* A data byte that fills its block: the block is closed, and the slot of
\* the next code reserved.
CloseFull ==
    /\ Reading /\ storage[offset + i] # 0 /\ Fills
    /\ storage' = [storage EXCEPT ![w] = storage[offset + i], ![code_pos] = code + 1]
    /\ last_block_was_ff' = (code + 1 = FullCode)
    /\ code_pos' = w + 1 /\ w' = w + 2 /\ code' = 1 /\ i' = i + 1
    /\ UNCHANGED <<call, pc>>

\* Mutant: the flag survives the zero, whose block then looks redundant.
CloseZero_KeepsFlag ==
    /\ Reading /\ storage[offset + i] = 0
    /\ storage' = [storage EXCEPT ![code_pos] = code]
    /\ code_pos' = w /\ w' = w + 1 /\ code' = 1 /\ i' = i + 1
    /\ UNCHANGED <<call, pc, last_block_was_ff>>

\* A zero: the code of the block it closes stands for it.
CloseZero ==
    /\ Reading /\ storage[offset + i] = 0
    /\ storage' = [storage EXCEPT ![code_pos] = code]
    /\ last_block_was_ff' = (code = FullCode)
    /\ code_pos' = w /\ w' = w + 1 /\ code' = 1 /\ i' = i + 1
    /\ UNCHANGED <<call, pc>>

\* Mutant: the empty block after a full one is kept.
Redundant_Never == FALSE

\* The slot reserved after a full block is given back when nothing follows.
Redundant == code = 1 /\ last_block_was_ff
End == IF Redundant THEN code_pos ELSE w

Finish ==
    /\ pc = "loop" /\ i = N
    /\ storage' = [(IF Redundant THEN storage
                                 ELSE [storage EXCEPT ![code_pos] = code])
                   EXCEPT ![End] = 0]
    /\ w' = End + 1
    /\ pc' = "done"
    /\ UNCHANGED <<call, i, code_pos, code, last_block_was_ff>>

Next == Refuse \/ Start \/ Copy \/ CloseFull \/ CloseZero \/ Finish

Spec == Init /\ [][Next]_vars

\* The span a finished call returns.
Wire == [k \in 1 .. w |-> storage[k - 1]]

-----------------------------------------------------------------------------
\* The locals keep their ranges; `code` is a uint8_t and never wraps.
TypeOK ==
    /\ storage \in [0 .. size - 1 -> Byte]
    /\ pc \in {"start", "loop", "done", "refused"}
    /\ i \in 0 .. N /\ w \in Nat /\ code_pos \in Nat
    /\ code \in 1 .. FullData
    /\ last_block_was_ff \in BOOLEAN

\* The overlap invariant of Codec.h and PROTOCOL 10.1: while raw bytes are
\* unread, written <= consumed + raw_offset(N) - 1.
Overlap == Reading => w <= i + raw_offset(N) - 1

\* What it is for: no raw byte is overwritten before it has been read.
UnreadIntact ==
    pc \in {"start", "loop"} /\ Fits =>
        \A k \in i .. N - 1 : storage[offset + k] = raw[k + 1]

\* Every index the code reads or writes next lies inside the storage.
InBounds ==
    /\ Reading => code_pos < size /\ w < size /\ offset + i < size
    /\ pc = "loop" /\ i = N => code_pos < size /\ End < size

\* Encoding in place is safe: nothing is lost before it is read, and nothing
\* outside the caller's storage is touched.
InPlaceIsSafe == UnreadIntact /\ InBounds

\* The returned span is the canonical encoding and its delimiter, and it is
\* no longer than max_wire_size promises.
Canonical ==
    pc = "done" => Wire = Append(Encoded(raw), 0) /\ w <= max_wire_size(N)

\* The span is one frame for a decoder: no zero inside, a chain of blocks
\* that ends on the delimiter, and the raw bytes as its meaning.
RoundTrip ==
    pc = "done" =>
        LET body == SubSeq(Wire, 1, w - 1)
        IN  /\ Wire[w] = 0 /\ \A k \in 1 .. w - 1 : Wire[k] # 0
            /\ WellFormed(body) /\ Decoded(body) = raw
=============================================================================
