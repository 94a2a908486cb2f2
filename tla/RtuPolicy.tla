------------------------------ MODULE RtuPolicy ------------------------------
(***************************************************************************)
(* What an RTU endpoint is instantiated with: its format (Format.h), its   *)
(* CRC policy (src/crc/Crc.h) and its framing policy (Framing.h).  Both    *)
(* halves of the endpoint, RtuStream and RtuSender, share them.            *)
(***************************************************************************)
EXTENDS RtuFraming

CONSTANTS
    Format,          \* [crc_size, max_data_size]
    Checksum(_),     \* a sequence of bytes to its crc_size bytes
    Framer(_, _),    \* direction and function to a layout
    Rx               \* the direction this endpoint receives

\* A count the library owns stands in front; length_prefixed makes no other.
ASSUME PolicyAssumption ==
    /\ Format.crc_size \in Nat /\ Format.max_data_size \in Nat
    /\ Rx \in {"Request", "Response"}
    /\ \A direction \in {"Request", "Response"}, function \in Byte :
         LET layout == Framer(direction, function)
         IN  /\ layout \in FramingLayout
             /\ layout.owned => layout.kind = "Counted" /\ layout.offset = 0
             /\ layout.kind = "Counted" => layout.width \in {1, 2}

\* crc::verify
verify(adu) ==
    LET n == Len(adu) - Format.crc_size
    IN  n >= 0 /\ SubSeq(adu, n + 1, Len(adu)) = Checksum(SubSeq(adu, 1, n))
=============================================================================
