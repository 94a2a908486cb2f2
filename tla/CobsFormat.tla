----------------------------- MODULE CobsFormat -----------------------------
(***************************************************************************)
(* The size arithmetic of cobs::codec (src/cobs/Codec.h) and, on it,       *)
(* cobs::Layout (src/cobs/Format.h): the geometry one endpoint derives     *)
(* from its CRC width and its two payload limits.  A format is a record    *)
(* [crc_size, max_receive_size, max_send_size].                            *)
(*                                                                         *)
(* Bytes are 0 .. FullCode: FullCode stands for 0xFF, which is both the    *)
(* largest byte and the code of a block that is full and owes no implicit  *)
(* zero.                                                                   *)
(***************************************************************************)
EXTENDS Integers, Sequences

CONSTANT FullCode     \* 0xFF

ASSUME FullCodeAssumption == FullCode \in Nat /\ FullCode > 1

Byte == 0 .. FullCode
FullData == FullCode - 1      \* 254: the data bytes of a full block

CeilDiv(n, k) == (n + k - 1) \div k

max_encoded_size(n) == IF n = 0 THEN 1 ELSE n + CeilDiv(n, FullData)
max_wire_size(n) == max_encoded_size(n) + 1

raw_offset(n) == max_wire_size(n) - n

\* The guard of the arithmetic in a size_t that holds 0 .. top: it computes
\* the overhead apart, so that it cannot wrap itself.
size_arithmetic_fits(n, top) ==
    \/ n = 0
    \/ n <= top - (n \div FullData + (IF n % FullData # 0 THEN 1 ELSE 0) + 1)

-----------------------------------------------------------------------------
max_receive_body(f) == f.max_receive_size + f.crc_size
max_send_body(f) == f.max_send_size + f.crc_size

wire_length_limit(f) ==
    IF max_receive_body(f) > max_send_body(f) THEN max_receive_body(f)
                                              ELSE max_send_body(f)

\* One length byte when every body length fits in it, else two.
length_size(f) == IF wire_length_limit(f) <= FullCode THEN 1 ELSE 2

\* Little-endian, length_size bytes.
store_length(f, n) ==
    [k \in 1 .. length_size(f) |->
        IF k = 1 THEN n % (FullCode + 1) ELSE (n \div (FullCode + 1)) % (FullCode + 1)]

load_length(f, bytes) ==
    bytes[1] + (IF length_size(f) = 2 THEN bytes[2] * (FullCode + 1) ELSE 0)

decoded_size_for_payload(f, n) == length_size(f) + n + f.crc_size
tx_storage_size_for_capacity(f, n) == max_wire_size(decoded_size_for_payload(f, n))
raw_offset_for_capacity(f, n) == raw_offset(decoded_size_for_payload(f, n))

\* The payload a block of `bytes` bytes can carry: the inverse of
\* tx_storage_size_for_capacity, computed without a search.
payload_capacity_for_storage(f, bytes) ==
    IF bytes < tx_storage_size_for_capacity(f, 0) THEN 0
    ELSE LET maximum == tx_storage_size_for_capacity(f, f.max_send_size)
             encoded == (IF bytes < maximum THEN bytes ELSE maximum) - 1
         IN  encoded - CeilDiv(encoded, FullCode) - length_size(f) - f.crc_size
=============================================================================
