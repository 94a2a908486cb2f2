------------------------------- MODULE TxLoan -------------------------------
(***************************************************************************)
(* What the transmit side promises the owner of a frame.  Accepting a      *)
(* frame borrows its memory.  The loan ends with exactly one verdict, not  *)
(* before the DMA has stopped reading the memory, and the verdict "ok" is  *)
(* given only for a frame whose last stop bit is on the wire.              *)
(***************************************************************************)
EXTENDS Naturals

VARIABLES
    accepted,   \* frames accepted so far
    told,       \* verdicts given so far
    verdict,    \* the verdict on the last frame: "none", "ok" or "failed"
    reading,    \* the DMA may still read the frame
    wired       \* the last stop bit of the frame has left

vars == <<accepted, told, verdict, reading, wired>>

Init ==
    /\ accepted = 0 /\ told = 0 /\ verdict = "none"
    /\ reading = FALSE /\ wired = FALSE

Accept ==
    /\ told = accepted /\ ~reading
    /\ accepted' = accepted + 1 /\ verdict' = "none"
    /\ reading' = TRUE /\ wired' = FALSE
    /\ UNCHANGED told

\* The hardware makes progress: the memory is read, then the tail is sent.
Progress ==
    /\ \/ reading /\ reading' = FALSE /\ UNCHANGED wired
       \/ ~reading /\ wired' = TRUE /\ UNCHANGED reading
    /\ UNCHANGED <<accepted, told, verdict>>

Settle(ok) ==
    /\ told < accepted /\ told' = told + 1
    /\ verdict' = IF ok THEN "ok" ELSE "failed"
    /\ reading' = FALSE
    /\ ok => wired
    /\ UNCHANGED <<accepted, wired>>

Next == Accept \/ Progress \/ Settle(TRUE) \/ Settle(FALSE)

Spec == Init /\ [][Next]_vars
=============================================================================
