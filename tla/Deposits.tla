------------------------------- MODULE Deposits -------------------------------
(* The deposits of one customer on one network: the order and its address,    *)
(* the payment provider's callbacks about transfers to that address, and the  *)
(* two persons who credit what arrived.                                       *)
(*                                                                            *)
(* The provider is external: it creates an address, refuses, or does not      *)
(* answer, and delivers callbacks in any order, repeatedly or never. A        *)
(* callback's identity is the transfer's tradeId, whatever status it reports. *)
EXTENDS CommercialLedger

CONSTANTS
  DepositOrders,  \* idempotency keys of the customer's deposit requests
  Transfers,      \* transfers to an address, by the provider's tradeId
  Transactions,   \* transactions of the chain; one may hold several transfers
  AmountOf,       \* AmountOf[t]: the amount of a transfer
  Tickets,        \* deposit_action_requests
  Clerks,         \* operations staff who request and decide
  NoTransfer, NoTx, NoOrder, NoClerk

ASSUME DepositConstants ==
  /\ AmountOf \in [Transfers -> Nat \ {0}]
  /\ NoTransfer \notin Transfers /\ NoTx \notin Transactions
  /\ NoOrder \notin DepositOrders /\ NoClerk \notin Clerks

VARIABLES
  deposit,       \* deposit_orders
  creator,       \* where the request that creates an order is
  addressCalls,  \* history: addresses asked from the provider for an order
  transfer,      \* transfers on the chain: to the address of which order, what amount
  seen,          \* deposit_provider_events: transfers with a processed callback
  ticket         \* deposit_action_requests

depositVars == <<deposit, creator, addressCalls, transfer, seen, ticket, ledgerVars>>
orderSide == <<creator, addressCalls>>

DepositStatuses ==
  {"none", "ADDRESS_PROVISIONING", "ADDRESS_UNKNOWN", "ADDRESS_FAILED", "PENDING_CONFIRMATION",
   "CONFIRMING", "MANUAL_REVIEW", "CREDITED", "FAILED"}

\* Mutant: an address whose creation is in doubt does not keep the network busy.
OpenButKnown == {"ADDRESS_PROVISIONING", "PENDING_CONFIRMATION", "CONFIRMING", "MANUAL_REVIEW"}

OpenStatuses ==
  {"ADDRESS_PROVISIONING", "ADDRESS_UNKNOWN", "PENDING_CONFIRMATION", "CONFIRMING",
   "MANUAL_REVIEW"}

Amounts == {0} \cup {AmountOf[t] : t \in Transfers}

DepositRow ==
  [status : DepositStatuses, amount : Amounts, tx : Transactions \cup {NoTx},
   trade : Transfers \cup {NoTransfer}]
TransferRow ==
  [order : DepositOrders \cup {NoOrder}, amount : Amounts, tx : Transactions \cup {NoTx}]
TicketRow ==
  [order : DepositOrders \cup {NoOrder}, credits : BOOLEAN,
   status : {"none", "pending", "approved", "rejected"},
   requester : Clerks \cup {NoClerk}, decider : Clerks \cup {NoClerk}]

DepositsTypeOK ==
  /\ deposit \in [DepositOrders -> DepositRow]
  /\ creator \in [DepositOrders -> {"idle", "checked", "reserved", "refused", "unclear", "answered"}]
  /\ addressCalls \in [DepositOrders -> Nat]
  /\ transfer \in [Transfers -> TransferRow]
  /\ seen \subseteq Transfers
  /\ ticket \in [Tickets -> TicketRow]

DepositsInit ==
  /\ deposit = [d \in DepositOrders |-> [status |-> "none", amount |-> 0, tx |-> NoTx,
                                         trade |-> NoTransfer]]
  /\ creator = [d \in DepositOrders |-> "idle"]
  /\ addressCalls = [d \in DepositOrders |-> 0]
  /\ transfer = [t \in Transfers |-> [order |-> NoOrder, amount |-> 0, tx |-> NoTx]]
  /\ seen = {}
  /\ ticket = [q \in Tickets |-> [order |-> NoOrder, credits |-> FALSE, status |-> "none",
                                  requester |-> NoClerk, decider |-> NoClerk]]

-----------------------------------------------------------------------------
(* Creating an order: check, insert, ask for the address, store it *)

OpenOrders == {d \in DepositOrders : deposit[d].status \in OpenStatuses}

SetDeposit(d, status) == deposit' = [deposit EXCEPT ![d].status = status]
SetCreator(d, pc) == creator' = [creator EXCEPT ![d] = pc]
RestOfDeposits == UNCHANGED <<transfer, seen, ticket, ledgerVars>>

\* An existing row of the key or an open order of the network is returned instead.
CheckDeposit(d) ==
  /\ creator[d] = "idle"
  /\ deposit[d].status = "none"
  /\ OpenOrders = {}
  /\ SetCreator(d, "checked")
  /\ UNCHANGED <<deposit, addressCalls>> /\ RestOfDeposits

\* The partial unique index admits one open order of a customer, provider and network; the
\* loser of a race returns the winner's order.
ReserveDeposit(d) ==
  /\ creator[d] = "checked"
  /\ IF OpenOrders = {} /\ deposit[d].status = "none"
       THEN SetDeposit(d, "ADDRESS_PROVISIONING") /\ SetCreator(d, "reserved")
       ELSE SetCreator(d, "idle") /\ UNCHANGED deposit
  /\ UNCHANGED addressCalls /\ RestOfDeposits

\* The provider creates an address, refuses, or its answer is lost.
AskAddress(d) ==
  /\ creator[d] = "reserved"
  /\ addressCalls' = [addressCalls EXCEPT ![d] = @ + 1]
  /\ \E answer \in {"answered", "refused", "unclear"} : SetCreator(d, answer)
  /\ UNCHANGED deposit /\ RestOfDeposits

\* The answer is stored while the order is still being provisioned; an address that belongs
\* to another order, or a store that fails, leaves the result unknown.
StoreAddress(d) ==
  /\ creator[d] \in {"answered", "refused", "unclear"}
  /\ deposit[d].status = "ADDRESS_PROVISIONING"
  /\ \/ creator[d] = "answered" /\ SetDeposit(d, "PENDING_CONFIRMATION")
     \/ creator[d] \in {"answered", "unclear"} /\ SetDeposit(d, "ADDRESS_UNKNOWN")
     \/ creator[d] = "refused" /\ SetDeposit(d, "ADDRESS_FAILED")
  /\ SetCreator(d, "idle")
  /\ UNCHANGED addressCalls /\ RestOfDeposits

\* The process dies between its steps: the row stays, no retry finds it to continue.
CreatorDies(d) ==
  /\ creator[d] # "idle"
  /\ SetCreator(d, "idle")
  /\ UNCHANGED <<deposit, addressCalls>> /\ RestOfDeposits

-----------------------------------------------------------------------------
(* The chain and the provider's callbacks *)

HasAddress(d) ==
  deposit[d].status \in {"PENDING_CONFIRMATION", "CONFIRMING", "MANUAL_REVIEW", "CREDITED", "FAILED"}

\* An address is usable for ever: transfers reach it also after the order ended.
Send(t, d, tx) ==
  /\ transfer[t].order = NoOrder
  /\ HasAddress(d)
  /\ \A u \in Transfers : transfer[u].tx = tx => transfer[u].order # d
  /\ transfer' = [transfer EXCEPT ![t] = [order |-> d, amount |-> AmountOf[t], tx |-> tx]]
  /\ UNCHANGED <<deposit, orderSide, seen, ticket, ledgerVars>>

\* Mutant: a confirmation updates the order whatever became of it.
AnyReview(d) == HasAddress(d)

\* A confirmed transfer goes to review unless the order is credited or failed.
TakesConfirmation(d) ==
  deposit[d].status \in {"PENDING_CONFIRMATION", "CONFIRMING", "MANUAL_REVIEW"}

\* One transaction is the payment of one order: the index on network and tx_id.
MapsElsewhere(t, d) == \E other \in DepositOrders \ {d} : deposit[other].tx = transfer[t].tx

\* Status 3: the order takes amount and transaction of this transfer, also over those of an
\* earlier one that nobody credited yet.
Confirmed(t, d) ==
  deposit' = IF TakesConfirmation(d) /\ ~MapsElsewhere(t, d)
               THEN [deposit EXCEPT ![d] = [status |-> "MANUAL_REVIEW",
                                           amount |-> transfer[t].amount,
                                           tx |-> transfer[t].tx, trade |-> t]]
               ELSE deposit

\* Status 2 and 4: the transfer failed; an order in review is left alone.
Refused(t, d) ==
  deposit' = IF deposit[d].status \in {"PENDING_CONFIRMATION", "CONFIRMING"} /\ ~MapsElsewhere(t, d)
               THEN [deposit EXCEPT ![d].status = "FAILED"]
               ELSE deposit

\* Status 1 and 0.
Seen(t, d, confirming) ==
  deposit' = IF confirming /\ deposit[d].status = "PENDING_CONFIRMATION" /\ ~MapsElsewhere(t, d)
               THEN [deposit EXCEPT ![d].status = "CONFIRMING"]
               ELSE deposit

\* The event is stored with its effect; a second callback of the transfer is a replay.
Callback(t) ==
  LET d == transfer[t].order
  IN /\ d # NoOrder
     /\ t \notin seen
     /\ seen' = seen \cup {t}
     /\ \/ Confirmed(t, d)
        \/ Refused(t, d)
        \/ \E confirming \in BOOLEAN : Seen(t, d, confirming)
     /\ UNCHANGED <<orderSide, transfer, ticket, ledgerVars>>

-----------------------------------------------------------------------------
(* Crediting: one clerk asks, another decides *)

\* Any action may be asked for at any time, several for one order.
AskAction(q, d, c, credits) ==
  /\ ticket[q].status = "none"
  /\ deposit[d].status # "none"
  /\ ticket' = [ticket EXCEPT ![q] = [order |-> d, credits |-> credits, status |-> "pending",
                                      requester |-> c, decider |-> NoClerk]]
  /\ UNCHANGED <<deposit, orderSide, transfer, seen, ledgerVars>>

CloseTicket(q, c, status) ==
  /\ ticket[q].status = "pending"
  /\ ticket[q].requester # c
  /\ ticket' = [ticket EXCEPT ![q].status = status, ![q].decider = c]

DepositKey(d) == <<"deposit", d>>

\* The amount credited is the order's amount now, not the one of the request.
ApproveCredit(q, c) ==
  LET d == ticket[q].order
  IN /\ CloseTicket(q, c, "approved")
     /\ ticket[q].credits
     /\ deposit[d].status = "MANUAL_REVIEW"
     /\ deposit[d].amount > 0
     /\ PostTransaction(DepositKey(d), "credit", deposit[d].amount)
     /\ SetDeposit(d, "CREDITED")
     /\ UNCHANGED <<orderSide, transfer, seen>>

\* A rejection, and the approval of any other action, only closes the request.
CloseWithoutFunds(q, c) ==
  /\ \/ CloseTicket(q, c, "rejected")
     \/ CloseTicket(q, c, "approved") /\ ~ticket[q].credits
  /\ UNCHANGED <<deposit, orderSide, transfer, seen, ledgerVars>>

DepositsNext ==
  \/ \E d \in DepositOrders :
       \/ CheckDeposit(d) \/ ReserveDeposit(d) \/ AskAddress(d) \/ StoreAddress(d) \/ CreatorDies(d)
       \/ \E t \in Transfers, tx \in Transactions : Send(t, d, tx)
       \/ \E q \in Tickets, c \in Clerks, credits \in BOOLEAN : AskAction(q, d, c, credits)
  \/ \E t \in Transfers : Callback(t)
  \/ \E q \in Tickets, c \in Clerks : ApproveCredit(q, c) \/ CloseWithoutFunds(q, c)

DepositsSpec ==
  DepositsInit /\ wallet = 0 /\ journal = {} /\ [][DepositsNext]_depositVars

-----------------------------------------------------------------------------
(* Properties *)

Credited == {d \in DepositOrders : deposit[d].status = "CREDITED"}

\* What was credited is one transfer that the provider reported for this order, with its
\* amount and for no other order, and what was credited stays so, whatever callbacks arrive
\* before and after the approval.
CreditMatchesTransfer ==
  /\ \A d \in DepositOrders \ Credited : EntriesOf(DepositKey(d)) = {}
  /\ \A d \in Credited :
       LET t == deposit[d].trade
       IN /\ t \in seen /\ transfer[t].order = d
          /\ EntriesOf(DepositKey(d)) = {[key |-> DepositKey(d), payload |-> "credit",
                                          delta |-> transfer[t].amount]}
          /\ deposit[d].tx = transfer[t].tx
          /\ \A other \in Credited \ {d} : deposit[other].tx # deposit[d].tx

InDoubt(d) ==
  addressCalls[d] = 1 /\ deposit[d].status \in {"ADDRESS_PROVISIONING", "ADDRESS_UNKNOWN"}

\* The provider is asked for one address per order, and never for another address of the
\* network while the outcome for an earlier one is not known: a retry, a second window or a
\* crash must not create a second address that money is sent to ("the system will not retry
\* automatically").
OneAddressAtATime ==
  /\ \A d \in DepositOrders : addressCalls[d] <= 1
  /\ \A d, e \in DepositOrders : InDoubt(d) /\ InDoubt(e) => d = e

\* Only the approval of a request to credit, by somebody else than who asked, makes a deposit
\* available, and it stays so: no later callback moves a credited order.
CreditedByTwo ==
  \A d \in Credited : \E q \in Tickets :
    /\ ticket[q].order = d /\ ticket[q].credits /\ ticket[q].status = "approved"
    /\ ticket[q].requester # ticket[q].decider /\ NoClerk \notin {ticket[q].requester, ticket[q].decider}
=============================================================================
