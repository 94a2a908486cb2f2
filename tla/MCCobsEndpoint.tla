---------------------------- MODULE MCCobsEndpoint ----------------------------
(* Small formats, a checksum and a storage for TLC. *)
EXTENDS CobsEndpointProps, TLC

CONSTANTS TextBytes, MaxHint

Small == [crc_size |-> 1, max_receive_size |-> 1, max_send_size |-> 3]
Tiny == [Small EXCEPT !.max_send_size = 2]

SumOfBytes(s) ==
    LET sum[k \in 0 .. Len(s)] == IF k = 0 THEN 1 ELSE (sum[k - 1] + s[k]) % (FullCode + 1)
    IN  [k \in 1 .. Format.crc_size |-> sum[Len(s)]]

\* Exact grants for every capacity, a slab with a byte to spare, and one that
\* is too short for anything.
MCGrantSizes ==
    {tx_storage_size_for_capacity(Format, n) : n \in 0 .. Max_payload_size}
       \union {tx_storage_size_for_capacity(Format, Max_payload_size) + 1, 2}

MCTexts == {<<a>> : a \in TextBytes} \union {<<a, 0>> : a \in TextBytes}
MCHints == 0 .. MaxHint

\* Everything is interchangeable with its like.
Alike ==
    Permutations(TxBlocks) \union Permutations(Messages)
       \union Permutations(Endpoints) \union Permutations(Transports)
=============================================================================
