---------------------------- MODULE CobsReference ----------------------------
(***************************************************************************)
(* What COBS means, without a decoder or an encoder (doc/PROTOCOL.md,      *)
(* sections 2, 6 and 7.3): a zero-free string is a chain of blocks, each a *)
(* code c followed by c - 1 data bytes; a block that is not full stands    *)
(* for its data and, when another block follows, a zero.                   *)
(*                                                                         *)
(* Each recursive function is given by one operator that says what it      *)
(* yields at a place, from what it yields at a later one.                  *)
(***************************************************************************)
EXTENDS CobsFormat

\* The zero that the block at p of w stands for besides its data.
Owed(w, p) == IF w[p] # FullCode /\ p + w[p] # Len(w) + 1 THEN <<0>> ELSE <<>>

\* The blocks of w from p on: where their chain ends, which is behind the string
\* when the last code asks for too much, and the bytes they stand for, those of a
\* block that breaks off included.
Meaning(w, later, p) ==
    LET next == p + w[p]
        rest == later[next]
    IN  IF p = Len(w) + 1 THEN [stop |-> p, bytes |-> <<>>]
        ELSE IF next > Len(w) + 1 THEN [stop |-> next, bytes |-> SubSeq(w, p + 1, Len(w))]
        ELSE [stop |-> rest.stop,
              bytes |-> SubSeq(w, p + 1, next - 1) \o Owed(w, p) \o rest.bytes]

Meanings(w) ==
    LET from[p \in 1 .. Len(w) + 1] == Meaning(w, from, p) IN from

\* The codes land exactly on the end of the string.
WellFormed(w) == Meanings(w)[1].stop = Len(w) + 1

\* The bytes the string stands for.
Decoded(w) == Meanings(w)[1].bytes

\* First position from p on that does not fit the block opened at p.
BlockEnd(raw, p) ==
    CHOOSE q \in p .. Len(raw) + 1 :
        /\ q = Len(raw) + 1 \/ raw[q] = 0 \/ q = p + FullData
        /\ \A k \in p .. q - 1 : raw[k] # 0 /\ k # p + FullData

Block(raw, p) == <<BlockEnd(raw, p) - p + 1>> \o SubSeq(raw, p, BlockEnd(raw, p) - 1)

\* Where the block behind it opens: the code of a block that is not full stands
\* for the zero that ended it.
NextBlock(raw, p) ==
    LET q == BlockEnd(raw, p) IN IF q - p = FullData THEN q ELSE q + 1

\* The blocks of raw from p on, every one as long as it can be, and no block
\* after a full one that ends the string.
Chain(raw, later, p) ==
    IF BlockEnd(raw, p) = Len(raw) + 1 THEN Block(raw, p)
    ELSE Block(raw, p) \o later[NextBlock(raw, p)]

Chains(raw) ==
    LET from[p \in 1 .. Len(raw) + 1] == Chain(raw, from, p) IN from

\* The canonical encoding.
Encoded(raw) == Chains(raw)[1]
=============================================================================
