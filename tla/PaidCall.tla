------------------------------ MODULE PaidCall ------------------------------
(***************************************************************************)
(* What the bot promises about the money behind a quote, free of tables,   *)
(* locks, chat platforms and clocks: a quote that is open may be closed    *)
(* without a call, or its paid call may be submitted, once; only a         *)
(* submitted call is entered in the ledger, once; a closed quote stays     *)
(* closed.                                                                 *)
(***************************************************************************)
CONSTANT Quote          \* the quotes the bot may issue

VARIABLE phase          \* what has happened to each quote's money

Phase == {"open", "closed", "called", "recorded"}

Init == phase = [q \in Quote |-> "open"]

Move(q, from, to) ==
    /\ phase[q] = from
    /\ phase' = [phase EXCEPT ![q] = to]

\* The quote is canceled or expires before anything is paid for it.
Close(q) == Move(q, "open", "closed")

\* The paid upstream call of the quote is submitted.
Call(q) == Move(q, "open", "called")

\* The call's result is written to the ledger.
Record(q) == Move(q, "called", "recorded")

Next == \E q \in Quote : Close(q) \/ Call(q) \/ Record(q)

Spec == Init /\ [][Next]_phase

=============================================================================
