---------------------------- MODULE MCCobsReceiver ----------------------------
(* Small formats and a checksum for TLC. *)
EXTENDS CobsReceiverProps, TLC

\* One length byte, a one-byte checksum, payloads of at most one byte.
Checked == [crc_size |-> 1, max_receive_size |-> 1, max_send_size |-> 1]

\* Two length bytes because of what is sent, no checksum, packets that may be empty.
Plain == [crc_size |-> 0, max_receive_size |-> 1, max_send_size |-> FullCode + 1]

BothFormats == {Checked, Plain}

\* A checksum of n bytes: any function will do.
SumOfBytes(s, n) ==
    LET sum[k \in 0 .. Len(s)] == IF k = 0 THEN 1 ELSE (sum[k - 1] + s[k]) % (FullCode + 1)
    IN  [k \in 1 .. n |-> sum[Len(s)]]

\* Enough for an accepted frame and one byte too many.
ChunkOf(f) == IF f = Checked THEN 5 ELSE 4
GapsOf(f) == IF f = Checked THEN 1 ELSE 0

Interchangeable == Permutations(Blocks) \union Permutations(Handles)
=============================================================================
