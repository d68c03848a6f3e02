---------------------------- MODULE CreditAccount ----------------------------
(* What the credit account promises to its customer, without requests'        *)
(* handlers, retries, expiry and staff: credits come and go from outside;     *)
(* each use reserves the estimate once, and its reservation ends once, by a   *)
(* charge of at most the estimate or by giving everything back.               *)
EXTENDS Integers

CONSTANTS Requests, Estimate

VARIABLES
  available,    \* credits the customer may still use
  reserved,     \* credits set aside for uses under way
  reservation,  \* reservation[r]: the state of the use r
  charge,       \* charge[r]: what the use r cost
  given         \* what was granted and adjusted, in total

vars == <<available, reserved, reservation, charge, given>>

Init ==
  /\ available = 0 /\ reserved = 0 /\ given = 0
  /\ reservation = [r \in Requests |-> "none"]
  /\ charge = [r \in Requests |-> 0]

\* A grant, or an adjustment that the account covers.
Adjust ==
  /\ available' \in Nat
  /\ given' = given + (available' - available)
  /\ UNCHANGED <<reserved, reservation, charge>>

Reserve(r) ==
  /\ reservation[r] = "none"
  /\ available >= Estimate
  /\ available' = available - Estimate
  /\ reserved' = reserved + Estimate
  /\ reservation' = [reservation EXCEPT ![r] = "reserved"]
  /\ UNCHANGED <<charge, given>>

\* The reservation of r ends as end, at a cost; the rest is available again.
End(r, end, cost) ==
  /\ reservation[r] = "reserved"
  /\ available' = available + (Estimate - cost)
  /\ reserved' = reserved - Estimate
  /\ reservation' = [reservation EXCEPT ![r] = end]
  /\ charge' = [charge EXCEPT ![r] = cost]
  /\ UNCHANGED given

Settle(r) == \E cost \in 0 .. Estimate : End(r, "settled", cost)

Release(r) == End(r, "released", 0)

Next == Adjust \/ \E r \in Requests : Reserve(r) \/ Settle(r) \/ Release(r)

Spec == Init /\ [][Next]_vars
=============================================================================
