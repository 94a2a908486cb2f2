------------------------------ MODULE RtuFraming ------------------------------
(***************************************************************************)
(* modbus::rtu::framing (src/modbus/rtu/Framing.h): where each function    *)
(* encodes the length of its data, and the sizes that follow from it       *)
(* (src/modbus/rtu/Format.h).  One Layout serves both directions: the      *)
(* receiver asks it how many bytes to expect, the message builder reserves *)
(* and fills the count.                                                    *)
(*                                                                         *)
(* Function data is a sequence of bytes; the source's data[i] is data[i+1] *)
(***************************************************************************)
EXTENDS Integers, Sequences

Byte == 0 .. 255
UINT8_MAX == 255
UINT16_MAX == 65535

max_header_size == 14
max_fixed_size == UINT16_MAX

FramingLayout ==
    [kind : {"Unsupported", "Fixed", "Counted"}, owned : BOOLEAN,
     offset : 0 .. max_header_size, width : 0 .. 2, order : {"big", "little"},
     size : 0 .. max_fixed_size]

unsupported ==
    [kind |-> "Unsupported", owned |-> FALSE, offset |-> 0, width |-> 0,
     order |-> "big", size |-> 0]

fixed(n) ==
    IF n > max_fixed_size THEN unsupported
    ELSE [unsupported EXCEPT !.kind = "Fixed", !.size = n]

\* A count of the bytes that follow it.
byte_count_at(offset, width, order) ==
    IF width \notin {1, 2} \/ offset > max_header_size - width THEN unsupported
    ELSE [unsupported EXCEPT !.kind = "Counted", !.offset = offset,
                             !.width = width, !.order = order]

\* The same count in front, which the message builder owns and fills.
length_prefixed(width, order) ==
    LET layout == byte_count_at(0, width, order)
    IN  [layout EXCEPT !.owned = layout.kind = "Counted"]

supported(layout) == layout.kind # "Unsupported"
header_size(layout) == IF layout.kind = "Counted" THEN layout.offset + layout.width ELSE 0
reserved(layout) == IF layout.owned THEN layout.width ELSE 0

\* The count field, in the byte order of the layout.
load(layout, data) ==
    LET first == data[layout.offset + 1]
        second == data[layout.offset + 2]
    IN  IF layout.width = 1 THEN first
        ELSE IF layout.order = "big" THEN 256 * first + second
        ELSE 256 * second + first

data_size(layout, header) ==
    CASE layout.kind = "Fixed" -> layout.size
      [] layout.kind = "Counted" -> header_size(layout) + load(layout, header)
      [] OTHER -> 0

matches(layout, data) ==
    \/ layout.kind = "Fixed" /\ Len(data) = layout.size
    \/ /\ layout.kind = "Counted" /\ Len(data) >= header_size(layout)
       /\ data_size(layout, data) = Len(data)

CountFits(layout, size) ==
    /\ layout.kind = "Counted" /\ size >= header_size(layout)
    /\ size - header_size(layout) <= IF layout.width = 1 THEN UINT8_MAX ELSE UINT16_MAX

\* data with the count of what follows the field in it; unchanged when refused.
store_count(layout, data) ==
    LET count == Len(data) - header_size(layout)
        high == count \div 256
        low == count % 256
    IN  IF ~CountFits(layout, Len(data)) THEN data
        ELSE IF layout.width = 1 THEN [data EXCEPT ![layout.offset + 1] = count]
        ELSE IF layout.order = "big"
             THEN [data EXCEPT ![layout.offset + 1] = high, ![layout.offset + 2] = low]
             ELSE [data EXCEPT ![layout.offset + 1] = low, ![layout.offset + 2] = high]

opposite(direction) == IF direction = "Request" THEN "Response" ELSE "Request"

\* The standard function table, Modbus Application Protocol V1.1b3, section 6.
standard_layout(direction, function) ==
    LET count(offset, width) == byte_count_at(offset, width, "big")
        of(request, response) == IF direction = "Request" THEN request ELSE response
    IN  CASE function >= 128 -> of(unsupported, fixed(1))
          [] function \in {1, 2, 3, 4} -> of(fixed(4), count(0, 1))
          [] function \in {5, 6, 8} -> fixed(4)
          [] function = 7 -> of(fixed(0), fixed(1))
          [] function = 11 -> of(fixed(0), fixed(4))
          [] function \in {12, 17} -> of(fixed(0), count(0, 1))
          [] function \in {15, 16} -> of(count(4, 1), fixed(4))
          [] function \in {20, 21} -> count(0, 1)
          [] function = 22 -> fixed(6)
          [] function = 23 -> of(count(8, 1), count(0, 1))
          [] function = 24 -> of(fixed(2), count(0, 2))
          [] OTHER -> unsupported

-----------------------------------------------------------------------------
(* rtu::Layout: address, function, data, trailer.                          *)

address_size == 1
adu_prefix_size == 2
adu_overhead(f) == adu_prefix_size + f.crc_size
max_adu_size(f) == f.max_data_size + adu_overhead(f)
adu_size_for_data(f, data) == adu_overhead(f) + data
data_capacity_for_adu(f, adu) == IF adu >= adu_overhead(f) THEN adu - adu_overhead(f) ELSE 0
=============================================================================
