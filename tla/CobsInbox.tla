------------------------------ MODULE CobsInbox ------------------------------
(***************************************************************************)
(* What a receiver promises its application, without blocks, counts or     *)
(* links: accepted packets wait in an inbox in order of arrival, and a     *)
(* Packet is a value.  Copying, moving or resetting one handle never       *)
(* changes what another one reads, and neither does anything received.     *)
(***************************************************************************)
EXTENDS Integers, Sequences

CONSTANTS Handles, NoPacket

VARIABLES
    inbox,      \* the bodies of the packets nobody has taken yet
    view        \* what each handle reads: a body, or NoPacket

Init == inbox = <<>> /\ view = [h \in Handles |-> NoPacket]

\* A body of any bytes joins the end of the inbox.
Deliver ==
    /\ inbox' # <<>> /\ inbox = SubSeq(inbox', 1, Len(inbox') - 1)
    /\ UNCHANGED view

Pop(h) ==
    IF inbox = <<>>
    THEN view' = [view EXCEPT ![h] = NoPacket] /\ UNCHANGED inbox
    ELSE view' = [view EXCEPT ![h] = Head(inbox)] /\ inbox' = Tail(inbox)

Reset(h) == view' = [view EXCEPT ![h] = NoPacket] /\ UNCHANGED inbox
Copy(h, g) == view' = [view EXCEPT ![h] = view[g]] /\ UNCHANGED inbox
Move(h, g) == view' = [view EXCEPT ![h] = view[g], ![g] = NoPacket] /\ UNCHANGED inbox

\* A receiver is destroyed when no packet is out: what waits is forgotten.
Forget ==
    /\ \A h \in Handles : view[h] = NoPacket
    /\ inbox # <<>> /\ inbox' = Tail(inbox)
    /\ UNCHANGED view

Next ==
    \/ Deliver \/ Forget
    \/ \E h \in Handles : Pop(h) \/ Reset(h)
    \/ \E h, g \in Handles : Copy(h, g) \/ Move(h, g)

Spec == Init /\ [][Next]_<<inbox, view>>
=============================================================================
