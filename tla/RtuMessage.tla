------------------------------ MODULE RtuMessage ------------------------------
(***************************************************************************)
(* modbus::rtu::Message (src/modbus/rtu/detail/Message.h), the ADU builder,*)
(* as a record and the operators of its methods.  granted is the size of   *)
(* the block storage lent it, 0 for none: an operator that asks storage    *)
(* takes the size of the block storage answers with.  data are the first   *)
(* m_size bytes of the function data, wire the finalized ADU.              *)
(***************************************************************************)
EXTENDS RtuPolicy

Disowned ==
    [state |-> "Empty", granted |-> 0, address |-> 0, function |-> 0,
     data |-> <<>>, wire |-> <<>>]

\* A grant above the longest ADU is legal for storage but not for the wire.
capacity(m) ==
    data_capacity_for_adu(Format,
        IF m.granted < max_adu_size(Format) THEN m.granted ELSE max_adu_size(Format))

\* Storage promises at least what was asked for; less goes straight back.
honours(granted, requested) == granted # 0 /\ granted >= requested

\* The constructor.
Message(address, function, hint, bytes, granted) ==
    LET m == [Disowned EXCEPT !.address = address, !.function = function]
    IN  IF hint > Format.max_data_size \/ bytes > hint
           \/ ~honours(granted, adu_size_for_data(Format, hint))
        THEN m
        ELSE [m EXCEPT !.state = "Building", !.granted = granted,
                       !.data = [k \in 1 .. bytes |-> 0]]

\* A fixed size is allocated at once, an owned count at least.
make_hint(layout, hint) ==
    LET sized == IF /\ layout.kind = "Fixed" /\ hint < layout.size
                    /\ layout.size <= Format.max_data_size
                 THEN layout.size ELSE hint
    IN  IF sized < reserved(layout) THEN reserved(layout) ELSE sized

-----------------------------------------------------------------------------
(* Growing.                                                                *)

\* About 1.5 times what there is, what is required, and never beyond the limit.
grow_target(room, required) ==
    LET half == room \div 2
        delta == IF half = 0 THEN 1 ELSE half
        headroom == Format.max_data_size - room
        grown == room + (IF delta > headroom THEN headroom ELSE delta)
        target == IF required > grown THEN required ELSE grown
    IN  IF target > Format.max_data_size THEN Format.max_data_size ELSE target

\* Into a larger block with the same bytes; a refusal leaves m as it is.
reserve(m, required, granted) ==
    IF /\ m.state = "Building"
       /\ required > capacity(m) /\ required <= Format.max_data_size
       /\ honours(granted, adu_size_for_data(Format, grow_target(capacity(m), required)))
    THEN [m EXCEPT !.granted = granted]
    ELSE m

\* make_room, then the bytes: all of them or none.
append(m, bytes, granted) ==
    LET size == Len(m.data) + Len(bytes)
        roomy == reserve(m, size, granted)
    IN  IF /\ m.state = "Building" /\ size <= Format.max_data_size
           /\ size <= capacity(roomy)
        THEN [roomy EXCEPT !.data = @ \o bytes]
        ELSE m

-----------------------------------------------------------------------------
(* Finishing.                                                              *)

\* Whether apply_framing accepts the message.
Framable(layout, m) ==
    /\ m.granted # 0
    /\ \/ m.state = "Finalized"
       \/ layout.kind = "Unsupported"
       \/ layout.kind = "Fixed" /\ Len(m.data) = layout.size
       \/ layout.owned /\ CountFits(layout, Len(m.data))
       \/ ~layout.owned /\ layout.kind = "Counted" /\ matches(layout, m.data)

\* What it leaves of a message it accepts.
apply_framing(layout, m) ==
    IF m.state # "Finalized" /\ layout.owned
    THEN [m EXCEPT !.data = store_count(layout, @)]
    ELSE m

\* The CRC behind the data; a second call changes nothing.
finalize(m) ==
    LET body == <<m.address, m.function>> \o m.data
    IN  IF m.state # "Building" THEN m
        ELSE [m EXCEPT !.wire = body \o Checksum(body), !.state = "Finalized"]
=============================================================================
