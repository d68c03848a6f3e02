--------------------------- MODULE MembershipOrders ---------------------------
(* The membership orders of one customer and the memberships they buy. An     *)
(* order is paid outside the platform, with evidence that one person records, *)
(* another may submit and a third decides on, or from the wallet, at once.    *)
(* Either way activates or renews a membership row, posts the purchase,       *)
(* grants AI credits and writes an entitlement event in one commit. Handlers  *)
(* lock the order, so each is one step.                                       *)
(*                                                                            *)
(* The clock counts billing periods; a monthly plan lasts Duration of them. A *)
(* membership row is named by what inserted it: the registration, which       *)
(* leaves a pending trial, or an order.                                       *)
EXTENDS CommercialLedger, PaymentEvidence, AiCredits

CONSTANTS
  Orders,    \* membership orders of the customer, by idempotency key
  Trial,     \* the membership row of the registration
  Customer,  \* the customer, who confirms payments from the wallet
  Price,     \* Price[plan]
  Duration,  \* periods of a monthly plan
  Never,     \* an expiry later than any other
  MaxClock   \* bound: periods

Plans == {"monthly", "lifetime"}
Rows == Orders \cup {Trial}
Current == {"active", "grace", "read_only"}

ASSUME OrderConstants ==
  /\ Trial \notin Orders
  /\ Customer \notin Staff /\ Customer # Nobody
  /\ Price \in [Plans -> Nat \ {0}]
  /\ Duration \in Nat \ {0} /\ MaxClock \in Nat
  /\ Never \in Nat /\ Never > MaxClock

VARIABLES
  clock,        \* the current period
  orders,       \* commercial_membership_orders with their decision
  memberships,  \* memberships of the customer
  entitlements  \* membership_entitlement_events, one per activated order

orderVars == <<clock, orders, memberships, entitlements, evidence, ledgerVars, account, granted>>

OrderStatuses == {"none", "pending_evidence", "pending_review", "activated", "rejected"}
NoOrderYet == [status |-> "none", plan |-> "monthly", submitter |-> Nobody, reviewer |-> Nobody,
               route |-> "none"]
NoMembership == [status |-> "none", plan |-> "trial", until |-> 0, grace |-> 0]
NoEntitlement == [row |-> Trial, from |-> 0, until |-> 0]
OrderSubject(o) == <<"order", o>>

OrdersTypeOK ==
  /\ clock \in 0 .. MaxClock
  /\ orders \in [Orders -> [status : OrderStatuses, plan : Plans, submitter : Staff \cup {Nobody},
                            reviewer : Staff \cup {Nobody, Customer},
                            route : {"none", "evidence", "wallet"}]]
  /\ memberships \in [Rows -> [status : {"none", "pending", "active", "grace", "read_only"},
                               plan : Plans \cup {"trial"}, until : Nat, grace : Nat]]
  /\ entitlements \in [Orders -> [row : Rows, from : Nat, until : Nat]]

\* Registration leaves a pending trial.
OrdersInit ==
  /\ clock = 0
  /\ orders = [o \in Orders |-> NoOrderYet]
  /\ memberships = [row \in Rows |-> IF row = Trial THEN [NoMembership EXCEPT !.status = "pending"]
                                     ELSE NoMembership]
  /\ entitlements = [o \in Orders |-> NoEntitlement]

-----------------------------------------------------------------------------
(* The order *)

\* The same key again returns the order there is.
CreateOrder(o, plan) ==
  /\ orders[o].status = "none"
  /\ orders' = [orders EXCEPT ![o].status = "pending_evidence", ![o].plan = plan]
  /\ UNCHANGED <<clock, memberships, entitlements, evidence, ledgerVars, account, granted>>

\* The order keeps its status: evidence does not take it out of the customer's hands.
RecordOrderEvidence(o, ref, s, matches) ==
  /\ orders[o].status = "pending_evidence"
  /\ RecordEvidence(ref, OrderSubject(o), s, matches)
  /\ UNCHANGED <<clock, orders, memberships, entitlements, ledgerVars, account, granted>>

SubmitOrder(o, s) ==
  /\ orders[o].status = "pending_evidence"
  /\ \E ref \in References : IsEvidence(ref) /\ evidence[ref].subject = OrderSubject(o)
  /\ orders' = [orders EXCEPT ![o].status = "pending_review", ![o].submitter = s]
  /\ UNCHANGED <<clock, memberships, entitlements, evidence, ledgerVars, account, granted>>

\* Mutant: the recorder of the evidence may decide when somebody else submitted the order.
OnlyNotSubmitter(o, ref, s) ==
  /\ orders[o].status = "pending_review"
  /\ orders[o].submitter # s
  /\ Decidable(ref, OrderSubject(o))

\* The reviewer is neither who submitted the order nor who recorded the evidence.
MayDecide(o, ref, s) ==
  /\ orders[o].status = "pending_review"
  /\ orders[o].submitter # s
  /\ Decidable(ref, OrderSubject(o))
  /\ evidence[ref].recorder # s

RejectOrder(o, ref, s) ==
  /\ MayDecide(o, ref, s)
  /\ MarkEvidence(ref, "rejected")
  /\ orders' = [orders EXCEPT ![o].status = "rejected", ![o].reviewer = s]
  /\ UNCHANGED <<clock, memberships, entitlements, ledgerVars, account, granted>>

-----------------------------------------------------------------------------
(* Activation *)

RowsWith(statuses) == {row \in Rows : memberships[row].status \in statuses}

\* The order's own row is inserted when the customer has none to renew.
Renewed(o, rows) == IF rows = {} THEN o ELSE CHOOSE row \in rows : TRUE

LaterOf(a, b) == IF a > b THEN a ELSE b
Expiry(o, base) == IF orders[o].plan = "lifetime" THEN Never ELSE base + Duration

\* Mutant: the renewal takes the plan but keeps the row's status.
KeepsStatus(row, o, until) ==
  memberships' = [memberships EXCEPT ![row].plan = orders[o].plan, ![row].until = until]

\* grace_ends_at is left as it was, also when a trial row turns into a paid one.
SetMembership(row, o, until) ==
  memberships' = [memberships EXCEPT ![row].status = "active", ![row].plan = orders[o].plan,
                                     ![row].until = until]

\* What both routes commit besides their ledger transaction.
Entitle(o, row, until, reviewer, route) ==
  /\ SetMembership(row, o, until)
  /\ AddCredits(Grant)
  /\ entitlements' = [entitlements EXCEPT ![o] = [row |-> row, from |-> clock, until |-> until]]
  /\ orders' = [orders EXCEPT ![o].status = "activated", ![o].reviewer = reviewer, ![o].route = route]
  /\ UNCHANGED clock

PurchaseKey(o) == <<"membership", o>>

\* Mutant: a purchase that was paid outside is taken from the wallet as well.
ChargedTwice(o) == -Price[orders[o].plan]

\* What was paid outside moves no wallet.
OutsideDelta(o) == 0

\* A renewal starts where the present period ends.
ApproveOrder(o, ref, s) ==
  LET current == RowsWith(Current)
      row == Renewed(o, current)
      until == Expiry(o, IF current = {} THEN clock ELSE LaterOf(clock, memberships[row].until))
  IN /\ MayDecide(o, ref, s)
     /\ Cardinality(current) <= 1
     /\ ~(current # {} /\ memberships[row].plan = "lifetime" /\ orders[o].plan # "lifetime")
     /\ PostTransaction(PurchaseKey(o), "evidence", OutsideDelta(o))
     /\ MarkEvidence(ref, "accepted")
     /\ Entitle(o, row, until, s, "evidence")

PayableFromWallet(o) == orders[o].status = "pending_evidence"

\* Looks at active and pending rows only, and starts the new period now.
PayOrderFromWallet(o) ==
  LET current == RowsWith({"active", "pending"})
      row == Renewed(o, current)
  IN /\ PayableFromWallet(o)
     /\ Cardinality(current) <= 1
     /\ PostTransaction(PurchaseKey(o), "wallet", -Price[orders[o].plan])
     /\ Entitle(o, row, Expiry(o, clock), Customer, "wallet")
     /\ UNCHANGED evidence

-----------------------------------------------------------------------------
(* The trial and the passing of time *)

\* Accepting the disclosures activates a pending trial, whatever else the customer has.
ActivateTrial ==
  /\ memberships[Trial].status = "pending"
  /\ memberships' = [memberships EXCEPT ![Trial].status = "active", ![Trial].until = clock + 1,
                                        ![Trial].grace = clock + 2]
  /\ UNCHANGED <<clock, orders, entitlements, evidence, ledgerVars, account, granted>>

\* The lifecycle worker ends what is due: into grace while that lasts, else into read-only.
EndPeriod(row) ==
  LET m == memberships[row]
  IN /\ \/ m.status = "active" /\ m.until <= clock
        \/ m.status = "grace" /\ m.grace <= clock
     /\ memberships' = [memberships EXCEPT ![row].status =
          IF m.status # "grace" /\ clock < m.grace THEN "grace" ELSE "read_only"]
     /\ UNCHANGED <<clock, orders, entitlements, evidence, ledgerVars, account, granted>>

Tick ==
  /\ clock < MaxClock
  /\ clock' = clock + 1
  /\ UNCHANGED <<orders, memberships, entitlements, evidence, ledgerVars, account, granted>>

OrderStep(o) ==
  \/ \E plan \in Plans : CreateOrder(o, plan)
  \/ \E ref \in References, s \in Staff :
       \/ \E matches \in BOOLEAN : RecordOrderEvidence(o, ref, s, matches)
       \/ RejectOrder(o, ref, s) \/ ApproveOrder(o, ref, s)
  \/ \E s \in Staff : SubmitOrder(o, s)
  \/ PayOrderFromWallet(o)

OrdersNext ==
  \/ \E o \in Orders : OrderStep(o)
  \/ ActivateTrial
  \/ \E row \in Rows : EndPeriod(row)
  \/ Tick

-----------------------------------------------------------------------------
(* Properties *)

Activated == {o \in Orders : orders[o].status = "activated"}
AcceptedFor(subject) ==
  {ref \in References : IsEvidence(ref) /\ evidence[ref].subject = subject
                          /\ evidence[ref].status = "accepted"}

\* An order is bought exactly once: activated if and only if the journal has its purchase, by
\* the route it was paid, and evidence is accepted exactly when it was paid outside, "or the
\* wallet would be charged once and the payment made outside once more".
OrderPaidOnce ==
  \A o \in Orders :
    /\ o \in Activated <=> EntriesOf(PurchaseKey(o)) # {}
    /\ \A entry \in EntriesOf(PurchaseKey(o)) :
         /\ entry.payload = orders[o].route
         /\ entry.delta = IF orders[o].route = "wallet" THEN -Price[orders[o].plan] ELSE 0
    /\ Cardinality(AcceptedFor(OrderSubject(o))) = IF orders[o].route = "evidence" THEN 1 ELSE 0

\* A payment made outside opens a membership on the word of two: whoever decides
\* neither recorded the accepted evidence nor submitted the order.
OrderReviewedByAnother ==
  \A o \in Activated : orders[o].route = "evidence" =>
    /\ orders[o].reviewer \in Staff
    /\ orders[o].submitter # orders[o].reviewer
    /\ \A ref \in AcceptedFor(OrderSubject(o)) : evidence[ref].recorder # orders[o].reviewer

\* Every paid membership is the purchase of some activated order: its plan and its expiry are
\* those the order's entitlement names, through trials turned into paid rows, renewals by both
\* routes and the endings of periods.
AccessIsPaidFor ==
  \A row \in Rows : memberships[row].plan # "trial" =>
    \E o \in Activated : /\ entitlements[o].row = row
                         /\ entitlements[o].until = memberships[row].until
                         /\ orders[o].plan = memberships[row].plan
                         /\ memberships[row].status # "active" => memberships[row].until <= clock
=============================================================================
