------------------------------ MODULE RxStream ------------------------------
(***************************************************************************)
(* What the receive side promises its application, whatever goes wrong     *)
(* below: the bytes it hands over are bytes of the line, each at most once *)
(* and in order, and two neighbours in the hand-over that were not         *)
(* neighbours on the line have a gap report between them.                  *)
(***************************************************************************)
EXTENDS Naturals

VARIABLES
    line,      \* number of the next byte on the line
    opening,   \* first byte of the last hand-over, 0 before it
    heard,     \* last byte of that hand-over
    gapped     \* a gap was reported since (or nothing was handed over yet)

Init == line = 1 /\ opening = 0 /\ heard = 0 /\ gapped = TRUE

Arrive ==
    /\ line' = line + 1
    /\ UNCHANGED <<opening, heard, gapped>>

\* A run of consecutive bytes is handed over in one call.
Hear ==
    /\ opening' > heard /\ opening' <= heard' /\ heard' < line
    /\ gapped \/ opening' = heard + 1
    /\ gapped' = FALSE
    /\ UNCHANGED line

Gap ==
    /\ gapped' = TRUE
    /\ UNCHANGED <<line, opening, heard>>

Next == Arrive \/ Hear \/ Gap

Spec == Init /\ [][Next]_<<line, opening, heard, gapped>>
=============================================================================
