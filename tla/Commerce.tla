------------------------------- MODULE Commerce -------------------------------
(* The commercial side of the platform as one system: deposits fill the       *)
(* wallet that pays membership orders and performance fees, outside payments  *)
(* of both share one table of references, activated orders grant AI credits   *)
(* and entitle to weeks that statements charge for.                           *)
(*                                                                            *)
(* focus, fixed initially, bounds which parts move in one behaviour: the      *)
(* parts meet in the wallet, the references and the entitlements, and the     *)
(* focus keeps apart what they do not share.                                  *)
EXTENDS Deposits, PerformanceFees

CONSTANT Opening  \* bound: what the wallet holds before the first step, from earlier deposits

ASSUME CommerceConstants == Opening \in Nat

VARIABLE focus

creditOnly == <<inference, handler, adjustment, modelCalls, charged>>
depositOnly == <<deposit, creator, addressCalls, transfer, seen, ticket>>
commerceVars == <<focus, depositOnly, creditOnly, feeVars, orderVars>>

Foci == {"credits", "deposits", "orders", "fees", "weeks"}
OpeningWallet == IF focus = "deposits" THEN 0 ELSE Opening

CommerceInit ==
  /\ focus \in Foci
  /\ CreditsInit /\ DepositsInit /\ OrdersInit /\ FeesInit
  /\ evidence = [ref \in References |-> NoEvidence]
  /\ wallet = OpeningWallet
  /\ journal = {}

Credits ==
  /\ focus = "credits"
  /\ CreditsNext
  /\ UNCHANGED <<depositOnly, feeVars, clock, orders, memberships, entitlements, evidence, ledgerVars>>

Deposit ==
  /\ focus = "deposits"
  /\ DepositsNext
  /\ UNCHANGED <<creditOnly, feeVars, clock, orders, memberships, entitlements, evidence, account,
                 granted>>

OnlyOrder(o) == \A other \in Orders \ {o} : orders[other].status = "none"

\* With deposits, one order once something was credited; with fees, one order.
Order ==
  /\ \/ focus = "orders" /\ OrdersNext
     \/ focus \in {"fees", "weeks"} /\ Tick
     \/ /\ focus \in {"deposits", "fees", "weeks"}
        /\ wallet > 0
        /\ \E o \in Orders : OnlyOrder(o) /\ (CreateOrder(o, "monthly") \/ PayOrderFromWallet(o))
  /\ UNCHANGED <<creditOnly, depositOnly, feeVars>>

\* In one focus evidence, without losses, for a statement and its replacement or successor; in
\* the other more statements, by one generator and one assessor and paid from the wallet.
Evidenced ==
  /\ \A ref \in References : evidence'[ref] # NoEvidence => evidence'[ref].matches
  /\ Len(statements') < MaxStatements
  /\ \A w \in 1 .. MaxClock : net'[w] >= net'[w - 1]

LongRun ==
  /\ UNCHANGED evidence
  /\ \A i, j \in DOMAIN statements' :
       /\ statements'[i].generator = statements'[j].generator
       /\ Cardinality({statements'[i].assessor, statements'[j].assessor} \ {Nobody}) <= 1

Fee ==
  /\ FeesNext
  /\ \/ focus = "fees" /\ Evidenced
     \/ focus = "weeks" /\ LongRun
  /\ UNCHANGED <<creditOnly, depositOnly>>

CommerceNext == UNCHANGED focus /\ (Credits \/ Deposit \/ Order \/ Fee)

CommerceSpec == CommerceInit /\ [][CommerceNext]_commerceVars

-----------------------------------------------------------------------------
(* Properties of the whole *)

CommerceTypeOK ==
  /\ focus \in Foci
  /\ CreditsTypeOK /\ DepositsTypeOK /\ OrdersTypeOK /\ FeesTypeOK
  /\ wallet \in Nat
  /\ \A ref \in References : IsEvidence(ref) => evidence[ref] \in EvidenceRow(Subjects, Staff)

\* The wallet holds what deposits credited less what activated orders and paid statements took
\* from it: no payment is posted twice, lost, or taken for something paid outside, and the
\* wallet is never overdrawn.
WalletMatchesPayments ==
  /\ wallet >= 0
  /\ wallet = OpeningWallet
       + MapThenSumSet(LAMBDA d : deposit[d].amount, Credited)
       - MapThenSumSet(LAMBDA o : Price[orders[o].plan],
                       {o \in Activated : orders[o].route = "wallet"})
       - MapThenSumSet(LAMBDA i : statements[i].eligible,
                       {i \in PaidStatements : statements[i].payer = Customer})

\* A payment reference pays for one thing, and everything that was paid outside was paid by
\* exactly one reference: an order and a statement, or two orders, cannot share one, and what
\* the wallet paid accepted none.
ReferencePaysOnce ==
  /\ OrderPaidOnce
  /\ \A i \in DOMAIN statements :
       Cardinality(AcceptedFor(StatementSubject(i))) =
         IF i \in PaidStatements /\ statements[i].payer # Customer THEN 1 ELSE 0

\* Nobody completes a movement of money alone: what credits a deposit, activates an order that
\* was paid outside or closes a fee was decided by another person than whoever prepared it.
ReviewedByOthers == CreditedByTwo /\ OrderReviewedByAnother /\ FeeReviewedByOthers

-----------------------------------------------------------------------------
(* The books: what the rows of deposits, orders and statements say was paid *)

\* How an order moved the wallet.
DeltaOf(order) == IF order.route = "wallet" THEN -Price[order.plan] ELSE 0
OrderDelta(o) == DeltaOf(orders[o])

\* How a statement was paid; those that are not there yet were not.
FeeBy(i) ==
  IF i \in DOMAIN statements /\ statements[i].status = "paid"
    THEN IF statements[i].payer = Customer THEN "wallet" ELSE "evidence"
    ELSE "none"

FeeDelta(i) == IF FeeBy(i) = "wallet" THEN -statements[i].eligible ELSE 0

DepositReceipt(d) ==
  [by |-> IF d \in Credited THEN "credit" ELSE "none",
   amount |-> IF d \in Credited THEN deposit[d].amount ELSE 0,
   refs |-> {}]

OrderReceipt(o) ==
  [by |-> orders[o].route, amount |-> OrderDelta(o), refs |-> AcceptedFor(OrderSubject(o))]

StatementReceipt(i) ==
  [by |-> FeeBy(i), amount |-> FeeDelta(i), refs |-> AcceptedFor(StatementSubject(i))]

DepositKeys == {DepositKey(d) : d \in DepositOrders}
DueKeys ==
  {PurchaseKey(o) : o \in Orders} \cup {StatementKey(i) : i \in 1 .. MaxStatements}

Receipts ==
  [k \in DepositKeys \cup DueKeys |->
     CASE k[1] = "deposit" -> DepositReceipt(k[2])
       [] k[1] = "membership" -> OrderReceipt(k[2])
       [] OTHER -> StatementReceipt(k[2])]

Book == INSTANCE PaymentBook WITH
  Incoming <- DepositKeys, Due <- DueKeys, balance <- wallet, receipt <- Receipts

\* The rows implement a book of payments: nothing is paid twice, by two routes or by a
\* reference that paid something else, no paid row is ever changed in what it says was paid,
\* and the wallet moves by receipts alone.
ImplementsPaymentBook == Book!Spec
=============================================================================
