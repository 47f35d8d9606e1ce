------------------------------ MODULE EscrowHold ------------------------------
(***************************************************************************)
(* What the task escrow promises about the buyer's card: a hold is placed    *)
(* once, ends with the seller or back with the buyer, goes to the seller only *)
(* if the task was earned, and is recorded after it ended.                    *)
(***************************************************************************)
VARIABLES
  money,    \* where the money is: "none", "held", "seller", "buyer"
  earned,   \* the task was completed
  record    \* what the task says of the money: "none", "seller", "buyer"

Init == money = "none" /\ earned = FALSE /\ record = "none"

Place  == money = "none" /\ money' = "held" /\ UNCHANGED <<earned, record>>
Earn   == earned' = TRUE /\ UNCHANGED <<money, record>>
Pay    == money = "held" /\ earned /\ money' = "seller" /\ UNCHANGED <<earned, record>>
Return == money \in {"none", "held"} /\ money' = "buyer" /\ UNCHANGED <<earned, record>>
Record == money \in {"seller", "buyer"} /\ record' = money /\ UNCHANGED <<money, earned>>

Next == Place \/ Earn \/ Pay \/ Return \/ Record

Spec == Init /\ [][Next]_<<money, earned, record>>
=============================================================================
