------------------------------ MODULE Settlement ------------------------------
(***************************************************************************)
(* What the order services promise about the payment of one order, without   *)
(* requests, crashes or Stripe: one of the parties is chosen once, what it   *)
(* is owed goes on record with the choice, the money moves once and only     *)
(* while it is on record as owed, and the record is closed only when the     *)
(* money has moved.                                                          *)
(***************************************************************************)
VARIABLES outcome,  \* "open", or the party the order was decided for
          owed,     \* a payment to that party is on record and not yet settled
          moved     \* the payment was executed

vars == <<outcome, owed, moved>>

Init == outcome = "open" /\ owed = FALSE /\ moved = FALSE

\* completeOrder decides for the seller, who is always owed the payout.
DecideForSeller ==
  /\ outcome = "open" /\ outcome' = "seller"
  /\ owed' = TRUE /\ UNCHANGED moved

\* cancelOrder decides for the buyer, who is owed nothing if nothing was captured.
DecideForBuyer ==
  /\ outcome = "open" /\ outcome' = "buyer"
  /\ owed' \in BOOLEAN /\ UNCHANGED moved

Move ==
  /\ owed /\ ~moved
  /\ moved' = TRUE
  /\ UNCHANGED <<outcome, owed>>

Settle ==
  /\ owed /\ moved
  /\ owed' = FALSE
  /\ UNCHANGED <<outcome, moved>>

Next == DecideForSeller \/ DecideForBuyer \/ Move \/ Settle

Spec == Init /\ [][Next]_vars

=============================================================================
