----------------------------- MODULE BlockLoans -----------------------------
(***************************************************************************)
(* What a pool of blocks promises its clients: a grant is a block nobody   *)
(* holds, a request fails only when every block is held, and giving back   *)
(* takes exactly one held block or is refused without any effect.          *)
(***************************************************************************)
EXTENDS Naturals

CONSTANTS Blocks, Modulus
VARIABLES held, exhausted, rejected

vars == <<held, exhausted, rejected>>

Init == held = {} /\ exhausted = 0 /\ rejected = 0

Grant ==
    /\ \E b \in Blocks \ held : held' = held \union {b}
    /\ UNCHANGED <<exhausted, rejected>>

Dry ==
    /\ held = Blocks
    /\ exhausted' = (exhausted + 1) % Modulus
    /\ UNCHANGED <<held, rejected>>

GiveBack ==
    /\ \E b \in held : held' = held \ {b}
    /\ UNCHANGED <<exhausted, rejected>>

Refuse ==
    /\ rejected' = (rejected + 1) % Modulus
    /\ UNCHANGED <<held, exhausted>>

Next == Grant \/ Dry \/ GiveBack \/ Refuse

Spec == Init /\ [][Next]_vars
=============================================================================
