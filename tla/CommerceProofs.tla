---------------------------- MODULE CommerceProofs ----------------------------
(* Money that comes in and what it pays for, for any number of orders,        *)
(* transfers, references, statements and persons.                             *)
(*                                                                            *)
(* Deposits: one address at a time, and what is credited is one transfer the  *)
(* provider reported for that order. DepositInv adds what an order in review  *)
(* already knows of its transfer, and that no two orders name the same        *)
(* transaction.                                                               *)
(*                                                                            *)
(* Memberships and fees, from FeesSpec: AccessInv says which purchase a row   *)
(* rests on, WeeksInv how the statements follow each other, PaidInv which     *)
(* reference and which ledger entry every order and statement has, ProfitInv  *)
(* what the paid statements charged of the rise of the mark.                  *)
(*                                                                            *)
(* The whole, from CommerceSpec: CommerceInv takes the invariants of all      *)
(* parts together, adds who decided what (ClerksInv, ReviewInv) and that the  *)
(* wallet is the balance of three sums (WalletInv), and is kept by the steps  *)
(* of every part.                                                             *)
EXTENDS Commerce, AiCreditsProofs, SequenceTheorems

-----------------------------------------------------------------------------
(* Deposits *)

OneOpen == \A d, e \in OpenOrders : d = e

\* Who is about to ask for an address holds an order that never asked.
AsksOnce ==
  \A d \in DepositOrders :
    /\ deposit[d].status = "none" => addressCalls[d] = 0
    /\ creator[d] = "reserved" => addressCalls[d] = 0 /\ deposit[d].status = "ADDRESS_PROVISIONING"
    /\ addressCalls[d] <= 1

\* An order in review, or credited, names a reported transfer to its own address.
ReviewKnows ==
  \A d \in DepositOrders : deposit[d].status \in {"MANUAL_REVIEW", "CREDITED"} =>
    /\ deposit[d].trade \in seen
    /\ transfer[deposit[d].trade].order = d
    /\ deposit[d].amount = transfer[deposit[d].trade].amount
    /\ deposit[d].tx = transfer[deposit[d].trade].tx

SentHasTx == \A t \in Transfers : transfer[t].order # NoOrder => transfer[t].tx # NoTx

OneOrderPerTx ==
  \A d, e \in DepositOrders : d # e /\ deposit[d].tx # NoTx => deposit[d].tx # deposit[e].tx

\* An order has its one entry when it is credited and none before.
EntryIffCredited ==
  \A d \in DepositOrders :
    EntriesOf(DepositKey(d)) =
      IF deposit[d].status = "CREDITED"
        THEN {[key |-> DepositKey(d), payload |-> "credit", delta |-> deposit[d].amount]}
        ELSE {}

\* A request names the order it is about.
TicketsName == \A q \in Tickets : ticket[q].status # "none" => ticket[q].order \in DepositOrders

AddressInv == OneOpen /\ AsksOnce
FundsInv == ReviewKnows /\ SentHasTx /\ OneOrderPerTx /\ EntryIffCredited
DepositInv == DepositsTypeOK /\ TicketsName /\ AddressInv /\ FundsInv

-----------------------------------------------------------------------------

\* The invariant says what the two properties say.
LEMMA InvImpliesProperties == DepositInv => OneAddressAtATime /\ CreditMatchesTransfer
<1> SUFFICES ASSUME DepositInv PROVE OneAddressAtATime /\ CreditMatchesTransfer OBVIOUS
<1>1. OneAddressAtATime
  <2>1. \A d \in DepositOrders : InDoubt(d) => d \in OpenOrders
    BY DEF InDoubt, OpenOrders, OpenStatuses
  <2>2. QED BY <2>1 DEF OneAddressAtATime, DepositInv, AddressInv, OneOpen, AsksOnce
<1>2. CreditMatchesTransfer
  <2>1. \A d \in DepositOrders \ Credited : EntriesOf(DepositKey(d)) = {}
    BY DEF DepositInv, FundsInv, EntryIffCredited, Credited
  <2>2. ASSUME NEW d \in Credited
        PROVE  /\ deposit[d].trade \in seen /\ transfer[deposit[d].trade].order = d
               /\ EntriesOf(DepositKey(d)) = {[key |-> DepositKey(d), payload |-> "credit",
                                               delta |-> transfer[deposit[d].trade].amount]}
               /\ deposit[d].tx = transfer[deposit[d].trade].tx
               /\ \A other \in Credited \ {d} : deposit[other].tx # deposit[d].tx
    <3>1. d \in DepositOrders /\ deposit[d].status = "CREDITED" BY DEF Credited
    <3>2. /\ deposit[d].trade \in seen /\ transfer[deposit[d].trade].order = d
          /\ deposit[d].amount = transfer[deposit[d].trade].amount
          /\ deposit[d].tx = transfer[deposit[d].trade].tx
      BY <3>1 DEF DepositInv, FundsInv, ReviewKnows
    <3>3. EntriesOf(DepositKey(d)) =
            {[key |-> DepositKey(d), payload |-> "credit", delta |-> deposit[d].amount]}
      BY <3>1 DEF DepositInv, FundsInv, EntryIffCredited
    <3>4. deposit[d].tx # NoTx
      <4>1. d # NoOrder BY <3>1, DepositConstants DEF DepositConstants
      <4>2. deposit[d].trade \in Transfers BY <3>2 DEF DepositInv, DepositsTypeOK
      <4>3. QED BY <3>2, <4>1, <4>2 DEF DepositInv, FundsInv, SentHasTx
    <3>5. \A other \in Credited \ {d} : deposit[other].tx # deposit[d].tx
      BY <3>1, <3>4 DEF DepositInv, FundsInv, OneOrderPerTx, Credited
    <3>6. QED BY <3>2, <3>3, <3>5
  <2>3. QED BY <2>1, <2>2 DEF CreditMatchesTransfer
<1>3. QED BY <1>1, <1>2

\* Nothing is asked, sent or credited at first.
LEMMA DepositInvInit == DepositsInit /\ journal = {} => DepositInv
<1> SUFFICES ASSUME DepositsInit, journal = {} PROVE DepositInv OBVIOUS
<1> USE DepositConstants DEF DepositConstants, DepositsInit
<1>1. /\ [status |-> "none", amount |-> 0, tx |-> NoTx, trade |-> NoTransfer] \in DepositRow
      /\ [order |-> NoOrder, amount |-> 0, tx |-> NoTx] \in TransferRow
      /\ [order |-> NoOrder, credits |-> FALSE, status |-> "none",
          requester |-> NoClerk, decider |-> NoClerk] \in TicketRow
  BY DEF DepositRow, TransferRow, TicketRow, DepositStatuses, Amounts
<1>2. DepositsTypeOK BY <1>1 DEF DepositsTypeOK
<1>3. \A d \in DepositOrders : deposit[d].status = "none" /\ deposit[d].tx = NoTx
  OBVIOUS
<1>4. OneOpen BY <1>3 DEF OneOpen, OpenOrders, OpenStatuses
<1>5. AsksOnce /\ ReviewKnows /\ SentHasTx /\ OneOrderPerTx
  BY <1>3 DEF AsksOnce, ReviewKnows, SentHasTx, OneOrderPerTx
<1>6. EntryIffCredited BY <1>3 DEF EntryIffCredited, EntriesOf
<1>7. TicketsName BY DEF TicketsName
<1>8. QED BY <1>2, <1>4, <1>5, <1>6, <1>7 DEF DepositInv, AddressInv, FundsInv

-----------------------------------------------------------------------------
(* What a change of one order's row disturbs *)

Others(d) == \A e \in DepositOrders \ {d} : deposit'[e] = deposit[e]
FundsFieldsSame(d) ==
  /\ deposit'[d].amount = deposit[d].amount /\ deposit'[d].tx = deposit[d].tx
  /\ deposit'[d].trade = deposit[d].trade

\* A new status leaves what was paid as it is.
LEMMA StatusChange ==
  ASSUME DepositsTypeOK, NEW d \in DepositOrders, NEW status \in DepositStatuses,
         deposit' = [deposit EXCEPT ![d].status = status]
  PROVE  /\ deposit' \in [DepositOrders -> DepositRow]
         /\ deposit'[d].status = status /\ FundsFieldsSame(d) /\ Others(d)
<1> DEFINE row == [deposit[d] EXCEPT !.status = status]
<1>1. deposit[d] \in DepositRow BY DEF DepositsTypeOK
<1>2. /\ row \in DepositRow /\ row.status = status /\ row.amount = deposit[d].amount
      /\ row.tx = deposit[d].tx /\ row.trade = deposit[d].trade
  BY <1>1 DEF DepositRow
<1>3. deposit' = [deposit EXCEPT ![d] = row] OBVIOUS
<1> HIDE DEF row
<1>4. deposit \in [DepositOrders -> DepositRow] BY DEF DepositsTypeOK
<1>5. deposit'[d] = row /\ Others(d) BY <1>3, <1>4 DEF Others
<1>6. QED BY <1>2, <1>3, <1>4, <1>5 DEF FundsFieldsSame

\* An order that is neither under review nor credited, before and after, leaves the funds alone.
LEMMA FundsStay ==
  ASSUME FundsInv, NEW d \in DepositOrders, Others(d), FundsFieldsSame(d),
         deposit[d].status \notin {"MANUAL_REVIEW", "CREDITED"},
         deposit'[d].status \notin {"MANUAL_REVIEW", "CREDITED"},
         transfer' = transfer, seen \subseteq seen', journal' = journal
  PROVE  FundsInv'
<1>1. \A e \in DepositOrders : deposit'[e].amount = deposit[e].amount
                            /\ deposit'[e].tx = deposit[e].tx
                            /\ deposit'[e].trade = deposit[e].trade
  BY DEF Others, FundsFieldsSame
<1>2. \A e \in DepositOrders : deposit'[e].status \in {"MANUAL_REVIEW", "CREDITED"} =>
                              e # d /\ deposit'[e].status = deposit[e].status
  BY DEF Others
<1>3. ReviewKnows' BY <1>1, <1>2 DEF ReviewKnows, FundsInv
<1>4. SentHasTx' BY DEF SentHasTx, FundsInv
<1>5. OneOrderPerTx' BY <1>1 DEF OneOrderPerTx, FundsInv
<1>6. ASSUME NEW e \in DepositOrders
      PROVE  EntriesOf(DepositKey(e))' =
               IF deposit'[e].status = "CREDITED"
                 THEN {[key |-> DepositKey(e), payload |-> "credit", delta |-> deposit'[e].amount]}
                 ELSE {}
  <2>1. EntriesOf(DepositKey(e))' = EntriesOf(DepositKey(e)) BY DEF EntriesOf, DepositKey
  <2>2. deposit'[e].status = "CREDITED" <=> deposit[e].status = "CREDITED" BY DEF Others
  <2>3. QED BY <1>1, <2>1, <2>2 DEF FundsInv, EntryIffCredited
<1>7. EntryIffCredited' BY <1>6 DEF EntryIffCredited, DepositKey
<1>8. QED BY <1>3, <1>4, <1>5, <1>7 DEF FundsInv

\* An order that has its address neither asks again nor takes the network a second time.
LEMMA AddressStays ==
  ASSUME AddressInv, NEW d \in DepositOrders, Others(d),
         deposit[d].status \notin {"none", "ADDRESS_PROVISIONING"}, deposit'[d].status # "none",
         deposit'[d].status \in OpenStatuses => deposit[d].status \in OpenStatuses,
         creator' = creator, addressCalls' = addressCalls
  PROVE  AddressInv'
<1>1. OneOpen'
  <2>1. \A e \in DepositOrders : deposit'[e].status \in OpenStatuses =>
                                deposit[e].status \in OpenStatuses
    BY DEF Others
  <2>2. QED BY <2>1 DEF OneOpen, OpenOrders, AddressInv
<1>2. AsksOnce' BY DEF AsksOnce, AddressInv, Others
<1>3. QED BY <1>1, <1>2 DEF AddressInv

-----------------------------------------------------------------------------
(* Creating an order *)

Pcs == {"idle", "checked", "reserved", "refused", "unclear", "answered"}

\* A deposit's creator moves on, the others stay.
LEMMA CreatorMoves ==
  ASSUME DepositsTypeOK, NEW d \in DepositOrders, NEW pc \in Pcs, SetCreator(d, pc)
  PROVE  /\ creator' \in [DepositOrders -> Pcs]
         /\ creator'[d] = pc /\ \A e \in DepositOrders \ {d} : creator'[e] = creator[e]
BY DEF SetCreator, DepositsTypeOK, Pcs

\* Checking, losing the race for the network, and dying change no row.
LEMMA InvOfGivingUp ==
  ASSUME DepositInv, NEW d \in DepositOrders, NEW pc \in Pcs \ {"reserved"}, SetCreator(d, pc),
         UNCHANGED <<deposit, addressCalls>>, RestOfDeposits
  PROVE  DepositInv'
<1> USE DEF DepositInv, RestOfDeposits
<1>1. /\ creator' \in [DepositOrders -> Pcs]
      /\ creator'[d] = pc /\ \A e \in DepositOrders \ {d} : creator'[e] = creator[e]
  BY CreatorMoves
<1>2. DepositsTypeOK' BY <1>1 DEF DepositsTypeOK, Pcs
<1>3. AddressInv'
  <2>1. OneOpen' BY DEF AddressInv, OneOpen, OpenOrders
  <2>2. AsksOnce' BY <1>1 DEF AddressInv, AsksOnce
  <2>3. QED BY <2>1, <2>2 DEF AddressInv
<1>4. FundsInv'
  BY DEF FundsInv, ReviewKnows, SentHasTx, OneOrderPerTx, EntryIffCredited, EntriesOf,
     DepositKey, ledgerVars
<1>5. TicketsName' BY DEF TicketsName
<1>6. QED BY <1>5, <1>2, <1>3, <1>4

\* The order takes the network: no other order of it is open.
LEMMA InvOfReserve ==
  ASSUME DepositInv, NEW d \in DepositOrders, OpenOrders = {}, deposit[d].status = "none",
         SetDeposit(d, "ADDRESS_PROVISIONING"), SetCreator(d, "reserved"),
         UNCHANGED addressCalls, RestOfDeposits
  PROVE  DepositInv'
<1> USE DEF DepositInv, RestOfDeposits
<1>1. /\ creator' \in [DepositOrders -> Pcs]
      /\ creator'[d] = "reserved" /\ \A e \in DepositOrders \ {d} : creator'[e] = creator[e]
  BY CreatorMoves DEF Pcs
<1>2. /\ deposit' \in [DepositOrders -> DepositRow]
      /\ deposit'[d].status = "ADDRESS_PROVISIONING" /\ FundsFieldsSame(d) /\ Others(d)
  BY StatusChange DEF SetDeposit, DepositStatuses
<1>3. DepositsTypeOK' BY <1>1, <1>2 DEF DepositsTypeOK, Pcs
<1>4. OneOpen'
  <2>1. \A e \in DepositOrders \ {d} : deposit'[e].status \notin OpenStatuses
    BY <1>2 DEF Others, OpenOrders
  <2>2. QED BY <2>1 DEF OneOpen, OpenOrders
<1>5. AsksOnce' BY <1>1, <1>2 DEF AsksOnce, AddressInv, Others
<1>6. FundsInv' BY <1>2, FundsStay DEF ledgerVars
<1>7. TicketsName' BY DEF TicketsName
<1>8. QED BY <1>7, <1>3, <1>4, <1>5, <1>6 DEF AddressInv

\* The one call for an address.
LEMMA InvOfAsk ==
  ASSUME DepositInv, NEW d \in DepositOrders, AskAddress(d)
  PROVE  DepositInv'
<1> USE DEF DepositInv, RestOfDeposits
<1>1. PICK answer \in {"answered", "refused", "unclear"} : SetCreator(d, answer)
  BY DEF AskAddress
<1>2. /\ creator' \in [DepositOrders -> Pcs]
      /\ creator'[d] = answer /\ \A e \in DepositOrders \ {d} : creator'[e] = creator[e]
  BY <1>1, CreatorMoves DEF Pcs
<1>3. addressCalls[d] = 0 /\ deposit[d].status = "ADDRESS_PROVISIONING"
  BY DEF AskAddress, AddressInv, AsksOnce
<1>4. /\ addressCalls' \in [DepositOrders -> Nat] /\ addressCalls'[d] = 1
      /\ \A e \in DepositOrders \ {d} : addressCalls'[e] = addressCalls[e]
  BY <1>3 DEF AskAddress, DepositsTypeOK
<1>5. DepositsTypeOK' BY <1>2, <1>4 DEF AskAddress, DepositsTypeOK, Pcs
<1>6. OneOpen' BY DEF AskAddress, AddressInv, OneOpen, OpenOrders
<1>7. AsksOnce' BY <1>2, <1>3, <1>4 DEF AskAddress, AddressInv, AsksOnce
<1>8. FundsInv'
  BY DEF AskAddress, FundsInv, ReviewKnows, SentHasTx, OneOrderPerTx, EntryIffCredited, EntriesOf,
     DepositKey, ledgerVars
<1>9. TicketsName' BY DEF AskAddress, TicketsName
<1>10. QED BY <1>9, <1>5, <1>6, <1>7, <1>8 DEF AddressInv

\* The answer is stored in an order that is still being provisioned.
LEMMA InvOfStore ==
  ASSUME DepositInv, NEW d \in DepositOrders, StoreAddress(d)
  PROVE  DepositInv'
<1> USE DEF DepositInv, RestOfDeposits
<1>1. PICK status \in {"PENDING_CONFIRMATION", "ADDRESS_UNKNOWN", "ADDRESS_FAILED"} :
        SetDeposit(d, status)
  BY DEF StoreAddress
<1>2. deposit[d].status = "ADDRESS_PROVISIONING" /\ SetCreator(d, "idle")
      /\ addressCalls' = addressCalls
  BY DEF StoreAddress
<1>3. /\ creator' \in [DepositOrders -> Pcs]
      /\ creator'[d] = "idle" /\ \A e \in DepositOrders \ {d} : creator'[e] = creator[e]
  BY <1>2, CreatorMoves DEF Pcs
<1>4. /\ deposit' \in [DepositOrders -> DepositRow]
      /\ deposit'[d].status = status /\ FundsFieldsSame(d) /\ Others(d)
  BY <1>1, StatusChange DEF SetDeposit, DepositStatuses
<1>5. DepositsTypeOK' BY <1>3, <1>4 DEF StoreAddress, DepositsTypeOK, Pcs
<1>6. OneOpen'
  <2>1. \A e \in DepositOrders : deposit'[e].status \in OpenStatuses =>
                                deposit[e].status \in OpenStatuses
    BY <1>2, <1>4 DEF Others, OpenStatuses
  <2>2. QED BY <2>1 DEF OneOpen, OpenOrders, AddressInv
<1>7. AsksOnce' BY <1>2, <1>3, <1>4 DEF AsksOnce, AddressInv, Others
<1>8. FundsInv' BY <1>2, <1>4, FundsStay DEF StoreAddress, ledgerVars
<1>9. TicketsName' BY DEF StoreAddress, TicketsName
<1>10. QED BY <1>9, <1>5, <1>6, <1>7, <1>8 DEF AddressInv

\* One step of a creation, whichever.
LEMMA InvOfCreation ==
  ASSUME DepositInv, NEW d \in DepositOrders,
         CheckDeposit(d) \/ ReserveDeposit(d) \/ AskAddress(d) \/ StoreAddress(d) \/ CreatorDies(d)
  PROVE  DepositInv'
<1>1. CASE CheckDeposit(d) BY <1>1, InvOfGivingUp DEF CheckDeposit, Pcs
<1>2. CASE ReserveDeposit(d)
  <2>1. CASE OpenOrders = {} /\ deposit[d].status = "none"
    BY <1>2, <2>1, InvOfReserve DEF ReserveDeposit
  <2>2. CASE ~(OpenOrders = {} /\ deposit[d].status = "none")
    BY <1>2, <2>2, InvOfGivingUp DEF ReserveDeposit, Pcs
  <2>3. QED BY <2>1, <2>2
<1>3. CASE AskAddress(d) BY <1>3, InvOfAsk
<1>4. CASE StoreAddress(d) BY <1>4, InvOfStore
<1>5. CASE CreatorDies(d) BY <1>5, InvOfGivingUp DEF CreatorDies, Pcs
<1>6. QED BY <1>1, <1>2, <1>3, <1>4, <1>5

-----------------------------------------------------------------------------
(* The chain and the callbacks *)

\* A new transfer is none that an order knows.
LEMMA InvOfSend ==
  ASSUME DepositInv, NEW t \in Transfers, NEW d \in DepositOrders, NEW tx \in Transactions,
         Send(t, d, tx)
  PROVE  DepositInv'
<1> USE DEF DepositInv
<1> DEFINE sent == [order |-> d, amount |-> AmountOf[t], tx |-> tx]
<1>1. sent \in TransferRow /\ sent.tx # NoTx
  BY DepositConstants DEF DepositConstants, TransferRow, Amounts
<1>2. transfer' = [transfer EXCEPT ![t] = sent] BY DEF Send
<1> HIDE DEF sent
<1>3. /\ transfer' \in [Transfers -> TransferRow] /\ transfer'[t] = sent
      /\ \A u \in Transfers \ {t} : transfer'[u] = transfer[u]
  BY <1>1, <1>2 DEF DepositsTypeOK
<1>4. UNCHANGED <<deposit, creator, addressCalls, seen, ticket, wallet, journal>>
      /\ transfer[t].order = NoOrder
  BY DEF Send, orderSide, ledgerVars
<1>5. DepositsTypeOK' BY <1>3, <1>4 DEF DepositsTypeOK
<1>6. AddressInv' BY <1>4 DEF AddressInv, OneOpen, AsksOnce, OpenOrders
<1>7. ReviewKnows'
  <2>1. \A e \in DepositOrders : deposit[e].status \in {"MANUAL_REVIEW", "CREDITED"} =>
          deposit[e].trade \in Transfers \ {t}
    BY <1>4, DepositConstants DEF DepositConstants, FundsInv, ReviewKnows, DepositsTypeOK
  <2>2. QED BY <1>3, <1>4, <2>1 DEF FundsInv, ReviewKnows
<1>8. SentHasTx' BY <1>1, <1>3 DEF FundsInv, SentHasTx
<1>9. OneOrderPerTx' /\ EntryIffCredited'
  BY <1>4 DEF FundsInv, OneOrderPerTx, EntryIffCredited, EntriesOf, DepositKey
<1>10. TicketsName' BY DEF Send, TicketsName
<1>11. QED BY <1>10, <1>5, <1>6, <1>7, <1>8, <1>9 DEF FundsInv

\* A confirmed transfer is taken by the order whose address it reached.
LEMMA InvOfConfirmation ==
  ASSUME DepositInv, NEW t \in Transfers, NEW d \in DepositOrders, transfer[t].order = d,
         TakesConfirmation(d), ~MapsElsewhere(t, d), Confirmed(t, d),
         seen' = seen \cup {t}, UNCHANGED <<orderSide, transfer, ticket, ledgerVars>>
  PROVE  DepositInv'
<1> USE DEF DepositInv
<1> DEFINE row == [status |-> "MANUAL_REVIEW", amount |-> transfer[t].amount,
                   tx |-> transfer[t].tx, trade |-> t]
<1>1. transfer[t] \in TransferRow BY DEF DepositsTypeOK
<1>2. transfer[t].tx # NoTx
  BY DepositConstants DEF DepositConstants, FundsInv, SentHasTx
<1>3. /\ row \in DepositRow /\ row.status = "MANUAL_REVIEW" /\ row.amount = transfer[t].amount
      /\ row.tx = transfer[t].tx /\ row.trade = t
  BY <1>1, <1>2 DEF TransferRow, DepositRow, DepositStatuses
<1>4. deposit' = [deposit EXCEPT ![d] = row] BY DEF Confirmed
<1> HIDE DEF row
<1>5. /\ deposit' \in [DepositOrders -> DepositRow] /\ deposit'[d] = row /\ Others(d)
  BY <1>3, <1>4 DEF DepositsTypeOK, Others
<1>6. UNCHANGED <<creator, addressCalls, transfer, ticket, wallet, journal>>
  BY DEF orderSide, ledgerVars
<1>7. DepositsTypeOK' BY <1>5, <1>6 DEF DepositsTypeOK
<1>8. AddressInv'
  BY <1>3, <1>5, <1>6, AddressStays DEF TakesConfirmation, OpenStatuses
<1>9. ReviewKnows' BY <1>3, <1>5, <1>6 DEF FundsInv, ReviewKnows, Others
<1>10. SentHasTx' BY <1>6 DEF FundsInv, SentHasTx
<1>11. OneOrderPerTx'
  <2>1. \A e \in DepositOrders \ {d} : deposit[e].tx # transfer[t].tx BY DEF MapsElsewhere
  <2>2. \A e \in DepositOrders \ {d} : deposit'[e].tx # deposit'[d].tx
    BY <1>3, <1>5, <2>1 DEF Others
  <2>3. QED BY <1>5, <2>2 DEF FundsInv, OneOrderPerTx, Others
<1>12. ASSUME NEW e \in DepositOrders
       PROVE  EntriesOf(DepositKey(e))' =
                IF deposit'[e].status = "CREDITED"
                  THEN {[key |-> DepositKey(e), payload |-> "credit", delta |-> deposit'[e].amount]}
                  ELSE {}
  <2>1. EntriesOf(DepositKey(e))' = EntriesOf(DepositKey(e)) BY <1>6 DEF EntriesOf, DepositKey
  <2>2. CASE e = d
    BY <1>3, <1>5, <2>1, <2>2 DEF FundsInv, EntryIffCredited, TakesConfirmation
  <2>3. CASE e # d BY <1>5, <2>1, <2>3 DEF FundsInv, EntryIffCredited, Others
  <2>4. QED BY <2>2, <2>3
<1>13. EntryIffCredited' BY <1>12 DEF EntryIffCredited, DepositKey
<1>14. TicketsName' BY DEF TicketsName
<1>15. QED BY <1>14, <1>7, <1>8, <1>9, <1>10, <1>11, <1>13 DEF FundsInv

\* Any other report ends the order or moves it on, without funds.
LEMMA InvOfReport ==
  ASSUME DepositInv, NEW t \in Transfers, NEW d \in DepositOrders,
         deposit[d].status \in {"PENDING_CONFIRMATION", "CONFIRMING"},
         NEW status \in {"FAILED", "CONFIRMING"}, deposit' = [deposit EXCEPT ![d].status = status],
         seen' = seen \cup {t}, UNCHANGED <<orderSide, transfer, ticket, ledgerVars>>
  PROVE  DepositInv'
<1> USE DEF DepositInv
<1>1. /\ deposit' \in [DepositOrders -> DepositRow]
      /\ deposit'[d].status = status /\ FundsFieldsSame(d) /\ Others(d)
  BY StatusChange DEF DepositStatuses
<1>2. DepositsTypeOK' BY <1>1 DEF DepositsTypeOK, orderSide
<1>3. AddressInv' BY <1>1, AddressStays DEF OpenStatuses, orderSide
<1>4. FundsInv' BY <1>1, FundsStay DEF ledgerVars
<1>5. TicketsName' BY DEF TicketsName
<1>6. QED BY <1>5, <1>2, <1>3, <1>4

\* A report that changes no order is only remembered.
LEMMA InvOfRemembering ==
  ASSUME DepositInv, NEW t \in Transfers, deposit' = deposit,
         seen' = seen \cup {t}, UNCHANGED <<orderSide, transfer, ticket, ledgerVars>>
  PROVE  DepositInv'
<1> USE DEF DepositInv, orderSide, ledgerVars
<1>1. DepositsTypeOK' BY DEF DepositsTypeOK
<1>2. AddressInv' BY DEF AddressInv, OneOpen, AsksOnce, OpenOrders
<1>3. FundsInv'
  BY DEF FundsInv, ReviewKnows, SentHasTx, OneOrderPerTx, EntryIffCredited, EntriesOf, DepositKey
<1>4. TicketsName' BY DEF TicketsName
<1>5. QED BY <1>4, <1>1, <1>2, <1>3

\* One report, whatever it says and whenever it comes.
LEMMA InvOfCallback ==
  ASSUME DepositInv, NEW t \in Transfers, Callback(t)
  PROVE  DepositInv'
<1> DEFINE d == transfer[t].order
<1>1. /\ d \in DepositOrders /\ seen' = seen \cup {t}
      /\ UNCHANGED <<orderSide, transfer, ticket, ledgerVars>>
      /\ Confirmed(t, d) \/ Refused(t, d) \/ \E confirming \in BOOLEAN : Seen(t, d, confirming)
  BY DEF Callback, DepositInv, DepositsTypeOK, TransferRow
<1> HIDE DEF d
<1>2. transfer[t].order = d BY DEF d
<1>3. CASE deposit' = deposit BY <1>1, <1>3, InvOfRemembering
<1>4. CASE deposit' # deposit
  <2>1. CASE Confirmed(t, d)
    <3>1. TakesConfirmation(d) /\ ~MapsElsewhere(t, d) BY <1>4, <2>1 DEF Confirmed
    <3>2. QED BY <1>1, <1>2, <2>1, <3>1, InvOfConfirmation
  <2>2. CASE Refused(t, d)
    <3>1. /\ deposit[d].status \in {"PENDING_CONFIRMATION", "CONFIRMING"}
          /\ deposit' = [deposit EXCEPT ![d].status = "FAILED"]
      BY <1>4, <2>2 DEF Refused
    <3>2. QED BY <1>1, <3>1, InvOfReport
  <2>3. CASE \E confirming \in BOOLEAN : Seen(t, d, confirming)
    <3>1. /\ deposit[d].status \in {"PENDING_CONFIRMATION", "CONFIRMING"}
          /\ deposit' = [deposit EXCEPT ![d].status = "CONFIRMING"]
      BY <1>4, <2>3 DEF Seen
    <3>2. QED BY <1>1, <3>1, InvOfReport
  <2>4. QED BY <1>1, <2>1, <2>2, <2>3
<1>5. QED BY <1>3, <1>4

-----------------------------------------------------------------------------
(* Crediting *)

\* A request, and a decision that moves no funds, touches only its ticket.
LEMMA InvOfPaper ==
  ASSUME DepositInv, ticket' \in [Tickets -> TicketRow], TicketsName',
         UNCHANGED <<deposit, orderSide, transfer, seen, ledgerVars>>
  PROVE  DepositInv'
<1> USE DEF DepositInv, orderSide, ledgerVars
<1>1. DepositsTypeOK' BY DEF DepositsTypeOK
<1>2. AddressInv' BY DEF AddressInv, OneOpen, AsksOnce, OpenOrders
<1>3. FundsInv'
  BY DEF FundsInv, ReviewKnows, SentHasTx, OneOrderPerTx, EntryIffCredited, EntriesOf, DepositKey
<1>4. QED BY <1>1, <1>2, <1>3

\* A decided ticket still names its order.
LEMMA ClosedTicket ==
  ASSUME DepositsTypeOK, TicketsName, NEW q \in Tickets, NEW c \in Clerks,
         NEW status \in {"approved", "rejected"}, CloseTicket(q, c, status)
  PROVE  ticket' \in [Tickets -> TicketRow] /\ TicketsName'
<1> DEFINE row == [ticket[q] EXCEPT !.status = status, !.decider = c]
<1>1. ticket[q] \in TicketRow /\ ticket \in [Tickets -> TicketRow] BY DEF DepositsTypeOK
<1>2. row \in TicketRow BY <1>1 DEF TicketRow
<1>3. ticket' = [ticket EXCEPT ![q] = row] BY <1>1 DEF CloseTicket
<1>4. row.order = ticket[q].order /\ ticket[q].status = "pending"
  BY <1>1 DEF TicketRow, CloseTicket
<1> HIDE DEF row
<1>5. ticket' \in [Tickets -> TicketRow] /\ ticket'[q] = row
      /\ \A p \in Tickets \ {q} : ticket'[p] = ticket[p]
  BY <1>1, <1>2, <1>3
<1>6. TicketsName' BY <1>4, <1>5 DEF TicketsName
<1>7. QED BY <1>5, <1>6

\* A request for a decision.
LEMMA InvOfAction ==
  ASSUME DepositInv, NEW q \in Tickets, NEW d \in DepositOrders, NEW c \in Clerks,
         NEW credits \in BOOLEAN, AskAction(q, d, c, credits)
  PROVE  DepositInv'
<1> DEFINE row == [order |-> d, credits |-> credits, status |-> "pending", requester |-> c,
                   decider |-> NoClerk]
<1>1. row \in TicketRow BY DEF TicketRow
<1>2. ticket' = [ticket EXCEPT ![q] = row] BY DEF AskAction
<1> HIDE DEF row
<1>3. ticket' \in [Tickets -> TicketRow] /\ ticket'[q] = row
      /\ \A p \in Tickets \ {q} : ticket'[p] = ticket[p]
  BY <1>1, <1>2 DEF DepositInv, DepositsTypeOK
<1>4. TicketsName'
  <2>1. row.order = d BY DEF row
  <2>2. QED BY <1>3, <2>1 DEF DepositInv, TicketsName
<1>5. QED BY <1>3, <1>4, InvOfPaper DEF AskAction

\* A decision that moves no funds.
LEMMA InvOfClosing ==
  ASSUME DepositInv, NEW q \in Tickets, NEW c \in Clerks, CloseWithoutFunds(q, c)
  PROVE  DepositInv'
<1>1. ticket' \in [Tickets -> TicketRow] /\ TicketsName'
  BY ClosedTicket DEF CloseWithoutFunds, DepositInv
<1>2. QED BY <1>1, InvOfPaper DEF CloseWithoutFunds

\* The order in review has no entry yet, gets its one entry and leaves review.
LEMMA InvOfCredit ==
  ASSUME DepositInv, NEW q \in Tickets, NEW c \in Clerks, ApproveCredit(q, c)
  PROVE  DepositInv'
<1> USE DEF DepositInv
<1> DEFINE d == ticket[q].order
<1>1. /\ deposit[d].status = "MANUAL_REVIEW" /\ CloseTicket(q, c, "approved")
      /\ SetDeposit(d, "CREDITED") /\ PostTransaction(DepositKey(d), "credit", deposit[d].amount)
      /\ UNCHANGED <<creator, addressCalls, transfer, seen>>
  BY DEF ApproveCredit, orderSide
<1>2. d \in DepositOrders BY <1>1 DEF CloseTicket, TicketsName
<1>3. ticket' \in [Tickets -> TicketRow] /\ TicketsName' BY <1>1, ClosedTicket
<1> HIDE DEF d
<1>4. /\ deposit' \in [DepositOrders -> DepositRow]
      /\ deposit'[d].status = "CREDITED" /\ FundsFieldsSame(d) /\ Others(d)
  BY <1>1, <1>2, StatusChange DEF SetDeposit, DepositStatuses
<1>5. DepositsTypeOK' BY <1>1, <1>3, <1>4 DEF DepositsTypeOK
<1>6. AddressInv' BY <1>1, <1>2, <1>4, AddressStays DEF OpenStatuses
<1>7. ReviewKnows' BY <1>1, <1>2, <1>4 DEF FundsInv, ReviewKnows, Others, FundsFieldsSame
<1>8. SentHasTx' BY <1>1 DEF FundsInv, SentHasTx
<1>9. OneOrderPerTx' BY <1>2, <1>4 DEF FundsInv, OneOrderPerTx, Others, FundsFieldsSame
<1>10. EntriesOf(DepositKey(d)) = {} BY <1>1, <1>2 DEF FundsInv, EntryIffCredited
<1>11. journal' = journal \cup {[key |-> DepositKey(d), payload |-> "credit",
                                 delta |-> deposit[d].amount]}
  BY <1>1, <1>10 DEF PostTransaction
<1>12. ASSUME NEW e \in DepositOrders
       PROVE  EntriesOf(DepositKey(e))' =
                IF deposit'[e].status = "CREDITED"
                  THEN {[key |-> DepositKey(e), payload |-> "credit", delta |-> deposit'[e].amount]}
                  ELSE {}
  <2>1. CASE e = d
    <3>1. EntriesOf(DepositKey(e))' = {[key |-> DepositKey(d), payload |-> "credit",
                                        delta |-> deposit[d].amount]}
      BY <1>10, <1>11, <2>1 DEF EntriesOf, DepositKey
    <3>2. QED BY <1>4, <2>1, <3>1 DEF FundsFieldsSame
  <2>2. CASE e # d
    <3>1. EntriesOf(DepositKey(e))' = EntriesOf(DepositKey(e))
      BY <1>11, <2>2 DEF EntriesOf, DepositKey
    <3>2. QED BY <1>4, <2>2, <3>1 DEF FundsInv, EntryIffCredited, Others
  <2>3. QED BY <2>1, <2>2
<1>13. EntryIffCredited' BY <1>12 DEF EntryIffCredited, DepositKey
<1>14. QED BY <1>3, <1>5, <1>6, <1>7, <1>8, <1>9, <1>13 DEF FundsInv

-----------------------------------------------------------------------------
(* The theorems *)

\* Every step of the deposits.
LEMMA DepositInvStep == DepositInv /\ [DepositsNext]_depositVars => DepositInv'
<1> SUFFICES ASSUME DepositInv, [DepositsNext]_depositVars PROVE DepositInv' OBVIOUS
<1>1. ASSUME NEW d \in DepositOrders,
             \/ CheckDeposit(d) \/ ReserveDeposit(d) \/ AskAddress(d) \/ StoreAddress(d)
             \/ CreatorDies(d)
      PROVE  DepositInv'
  BY <1>1, InvOfCreation
<1>2. ASSUME NEW t \in Transfers, NEW d \in DepositOrders, NEW tx \in Transactions, Send(t, d, tx)
      PROVE  DepositInv'
  BY <1>2, InvOfSend
<1>3. ASSUME NEW q \in Tickets, NEW d \in DepositOrders, NEW c \in Clerks, NEW credits \in BOOLEAN,
             AskAction(q, d, c, credits)
      PROVE  DepositInv'
  BY <1>3, InvOfAction
<1>4. ASSUME NEW t \in Transfers, Callback(t) PROVE DepositInv' BY <1>4, InvOfCallback
<1>5. ASSUME NEW q \in Tickets, NEW c \in Clerks, ApproveCredit(q, c) PROVE DepositInv'
  BY <1>5, InvOfCredit
<1>6. ASSUME NEW q \in Tickets, NEW c \in Clerks, CloseWithoutFunds(q, c) PROVE DepositInv'
  BY <1>6, InvOfClosing
<1>7. CASE UNCHANGED depositVars
  BY <1>7 DEF depositVars, ledgerVars, DepositInv, DepositsTypeOK, TicketsName, AddressInv,
     OneOpen, AsksOnce, OpenOrders, FundsInv, ReviewKnows, SentHasTx, OneOrderPerTx,
     EntryIffCredited, EntriesOf, DepositKey
<1>8. QED BY <1>1, <1>2, <1>3, <1>4, <1>5, <1>6, <1>7 DEF DepositsNext

\* Callbacks, clerks and creators keep what is known of every deposit.
THEOREM DepositInvariant == DepositsSpec => []DepositInv
BY DepositInvInit, DepositInvStep, PTL DEF DepositsSpec

\* Never two addresses of one network in doubt, and one request per order.
THEOREM OneAddressAlways == DepositsSpec => []OneAddressAtATime
BY DepositInvariant, InvImpliesProperties, PTL

\* Whatever order the callbacks and the clerks come in, what was credited is one reported
\* transfer of that order, once.
THEOREM CreditsAreTransfers == DepositsSpec => []CreditMatchesTransfer
BY DepositInvariant, InvImpliesProperties, PTL

\* The deposit part of the type invariant.
THEOREM DepositTypes == DepositsSpec => []DepositsTypeOK
<1>1. DepositInv => DepositsTypeOK BY DEF DepositInv
<1>2. QED BY <1>1, DepositInvariant, PTL

-----------------------------------------------------------------------------
(* Access rests on a purchase *)

\* A row that never was current is a trial: it has no purchase to rest on.
UnpaidRows ==
  \A row \in Rows : memberships[row].status \in {"none", "pending"} => memberships[row].plan = "trial"

AccessInv == OrdersTypeOK /\ UnpaidRows /\ AccessIsPaidFor

OrderRow == [status : OrderStatuses, plan : Plans, submitter : Staff \cup {Nobody},
             reviewer : Staff \cup {Nobody, Customer}, route : {"none", "evidence", "wallet"}]
MembershipRow == [status : {"none", "pending", "active", "grace", "read_only"},
                  plan : Plans \cup {"trial"}, until : Nat, grace : Nat]

\* The trial rests on no purchase.
LEMMA AccessInit == OrdersInit => AccessInv
<1> SUFFICES ASSUME OrdersInit PROVE AccessInv OBVIOUS
<1> USE OrderConstants DEF OrderConstants, OrdersInit, NoMembership, NoOrderYet, NoEntitlement, Rows
<1>1. OrdersTypeOK BY DEF OrdersTypeOK, OrderStatuses, Plans
<1>2. \A row \in Rows : memberships[row].plan = "trial" OBVIOUS
<1>3. UnpaidRows /\ AccessIsPaidFor BY <1>2 DEF UnpaidRows, AccessIsPaidFor
<1>4. QED BY <1>1, <1>3 DEF AccessInv

\* A step of an order that is not activated by it, to a row that says so, changes no access.
LEMMA OrderMoves ==
  ASSUME AccessInv, NEW o \in Orders, NEW row \in OrderRow,
         orders[o].status # "activated", row.status # "activated",
         orders' = [orders EXCEPT ![o] = row], UNCHANGED <<clock, memberships, entitlements>>
  PROVE  AccessInv'
<1> USE DEF AccessInv
<1>1. OrdersTypeOK' BY DEF OrdersTypeOK, OrderRow
<1>2. \A p \in Activated : p \in Orders /\ p # o /\ orders'[p] = orders[p] /\ p \in Activated'
  BY DEF Activated, OrdersTypeOK
<1>3. UnpaidRows' BY DEF UnpaidRows
<1>4. AccessIsPaidFor' BY <1>2 DEF AccessIsPaidFor
<1>5. QED BY <1>1, <1>3, <1>4

\* What both routes commit gives the row the plan and the expiry its order's entitlement names.
LEMMA Entitles ==
  ASSUME AccessInv, NEW o \in Orders, NEW row \in Rows, NEW until \in Nat,
         NEW reviewer \in Staff \cup {Customer}, NEW route \in {"evidence", "wallet"},
         orders[o].status # "activated", Entitle(o, row, until, reviewer, route)
  PROVE  AccessInv'
<1> USE DEF AccessInv
<1>1. /\ orders \in [Orders -> OrderRow] /\ memberships \in [Rows -> MembershipRow]
      /\ entitlements \in [Orders -> [row : Rows, from : Nat, until : Nat]]
      /\ clock \in 0 .. MaxClock /\ MaxClock \in Nat
  BY OrderConstants DEF OrderConstants, OrdersTypeOK, OrderRow, MembershipRow
<1> DEFINE order == [orders[o] EXCEPT !.status = "activated", !.reviewer = reviewer, !.route = route]
           member == [memberships[row] EXCEPT !.status = "active", !.plan = orders[o].plan,
                                              !.until = until]
           event == [row |-> row, from |-> clock, until |-> until]
<1>2. /\ orders' = [orders EXCEPT ![o] = order]
      /\ memberships' = [memberships EXCEPT ![row] = member]
      /\ entitlements' = [entitlements EXCEPT ![o] = event]
      /\ UNCHANGED clock
  BY <1>1 DEF Entitle, SetMembership
<1>3. /\ order \in OrderRow /\ order.status = "activated" /\ order.plan = orders[o].plan
      /\ orders[o].plan \in Plans
  BY <1>1 DEF OrderRow, OrderStatuses
<1>4. /\ member \in MembershipRow /\ member.status = "active" /\ member.plan = orders[o].plan
      /\ member.until = until
  <2>1. memberships[row] \in MembershipRow BY <1>1
  <2> HIDE DEF order
  <2>2. QED BY <1>3, <2>1 DEF MembershipRow
<1>5. /\ event \in [row : Rows, from : Nat, until : Nat] /\ event.row = row /\ event.until = until
  BY <1>1
<1> HIDE DEF order, member, event
<1>6. /\ orders'[o] = order /\ memberships'[row] = member /\ entitlements'[o] = event
      /\ \A p \in Orders \ {o} : orders'[p] = orders[p] /\ entitlements'[p] = entitlements[p]
      /\ \A r \in Rows \ {row} : memberships'[r] = memberships[r]
  BY <1>1, <1>2
<1>7. OrdersTypeOK' BY <1>1, <1>2, <1>3, <1>4, <1>5 DEF OrdersTypeOK, OrderRow, MembershipRow
<1>8. UnpaidRows' BY <1>4, <1>6 DEF UnpaidRows
<1>9. o \in Activated' BY <1>3, <1>6 DEF Activated
<1>10. \A p \in Activated : p \in Orders \ {o} /\ p \in Activated' BY <1>6 DEF Activated
<1>11. AccessIsPaidFor'
  <2> SUFFICES ASSUME NEW r \in Rows, memberships'[r].plan # "trial"
               PROVE  \E p \in Activated' : /\ entitlements'[p].row = r
                                            /\ entitlements'[p].until = memberships'[r].until
                                            /\ orders'[p].plan = memberships'[r].plan
                                            /\ memberships'[r].status # "active" =>
                                                 memberships'[r].until <= clock'
    BY DEF AccessIsPaidFor
  <2>1. CASE r = row BY <1>3, <1>4, <1>5, <1>6, <1>9, <2>1
  <2>2. CASE r # row
    <3>1. memberships'[r] = memberships[r] BY <1>6, <2>2
    <3>2. PICK p \in Activated : /\ entitlements[p].row = r
                                 /\ entitlements[p].until = memberships[r].until
                                 /\ orders[p].plan = memberships[r].plan
                                 /\ memberships[r].status # "active" => memberships[r].until <= clock
      BY <3>1 DEF AccessIsPaidFor
    <3>3. p \in Activated' /\ orders'[p] = orders[p] /\ entitlements'[p] = entitlements[p]
      BY <1>6, <1>10
    <3>4. QED BY <1>2, <3>1, <3>2, <3>3
  <2>3. QED BY <2>1, <2>2
<1>12. QED BY <1>7, <1>8, <1>11

\* A row whose plan and expiry stay, and that is not active only when it has expired, keeps
\* its purchase.
LEMMA RowMoves ==
  ASSUME AccessInv, NEW row \in Rows, NEW status \in {"active", "grace", "read_only"},
         memberships[row].plan # "trial" => status # "active" /\ memberships[row].until <= clock,
         NEW until \in Nat, NEW grace \in Nat,
         memberships[row].plan # "trial" => until = memberships[row].until,
         memberships' = [memberships EXCEPT ![row].status = status, ![row].until = until,
                                            ![row].grace = grace],
         UNCHANGED <<clock, orders, entitlements>>
  PROVE  AccessInv'
<1> USE DEF AccessInv
<1>1. memberships \in [Rows -> MembershipRow] BY DEF OrdersTypeOK, MembershipRow
<1> DEFINE member == [memberships[row] EXCEPT !.status = status, !.until = until, !.grace = grace]
<1>2. /\ member \in MembershipRow /\ member.status = status /\ member.plan = memberships[row].plan
      /\ member.until = until
  BY <1>1 DEF MembershipRow
<1>3. memberships' = [memberships EXCEPT ![row] = member] BY <1>1
<1> HIDE DEF member
<1>4. memberships'[row] = member /\ \A r \in Rows \ {row} : memberships'[r] = memberships[r]
  BY <1>1, <1>3
<1>5. OrdersTypeOK'
  <2>1. memberships' \in [Rows -> MembershipRow] BY <1>1, <1>2, <1>3
  <2>2. QED BY <2>1 DEF OrdersTypeOK, MembershipRow
<1>6. UnpaidRows' BY <1>2, <1>4 DEF UnpaidRows
<1>7. Activated' = Activated BY DEF Activated
<1>8. AccessIsPaidFor'
  <2> SUFFICES ASSUME NEW r \in Rows, memberships'[r].plan # "trial"
               PROVE  \E p \in Activated' : /\ entitlements'[p].row = r
                                            /\ entitlements'[p].until = memberships'[r].until
                                            /\ orders'[p].plan = memberships'[r].plan
                                            /\ memberships'[r].status # "active" =>
                                                 memberships'[r].until <= clock'
    BY DEF AccessIsPaidFor
  <2>1. /\ memberships'[r].plan = memberships[r].plan
        /\ memberships'[r].until = memberships[r].until
    BY <1>2, <1>4
  <2>2. PICK p \in Activated : /\ entitlements[p].row = r
                               /\ entitlements[p].until = memberships[r].until
                               /\ orders[p].plan = memberships[r].plan
                               /\ memberships[r].status # "active" => memberships[r].until <= clock
    BY <2>1 DEF AccessIsPaidFor
  <2>3. memberships'[r].status # "active" => memberships[r].until <= clock
    BY <1>2, <1>4, <2>1, <2>2
  <2>4. p \in Activated' BY <1>7, <2>2
  <2>5. QED BY <2>1, <2>2, <2>3, <2>4
<1>9. QED BY <1>5, <1>6, <1>8

\* Both routes renew or insert a row and compute its expiry.
LEMMA RenewedRow ==
  ASSUME OrdersTypeOK, NEW o \in Orders, NEW statuses
  PROVE  /\ Renewed(o, RowsWith(statuses)) \in Rows
         /\ \A base \in Nat : Expiry(o, base) \in Nat
<1>1. o \in Rows BY DEF Rows
<1>2. RowsWith(statuses) # {} => (CHOOSE row \in RowsWith(statuses) : TRUE) \in RowsWith(statuses)
  OBVIOUS
<1>3. RowsWith(statuses) \subseteq Rows BY DEF RowsWith
<1>4. Renewed(o, RowsWith(statuses)) \in Rows BY <1>1, <1>2, <1>3 DEF Renewed
<1>5. \A base \in Nat : Expiry(o, base) \in Nat BY OrderConstants DEF OrderConstants, Expiry
<1>6. QED BY <1>4, <1>5

\* The two activations.
LEMMA AccessPaid ==
  ASSUME AccessInv, NEW o \in Orders,
         PayOrderFromWallet(o) \/ \E ref \in References, s \in Staff : ApproveOrder(o, ref, s)
  PROVE  AccessInv'
<1>1. /\ OrdersTypeOK /\ clock \in Nat
      /\ \A row \in Rows : memberships[row].until \in Nat
  BY OrderConstants DEF OrderConstants, AccessInv, OrdersTypeOK
<1>2. CASE PayOrderFromWallet(o)
  <2> DEFINE row == Renewed(o, RowsWith({"active", "pending"}))
             until == Expiry(o, clock)
  <2>1. row \in Rows /\ until \in Nat BY <1>1, RenewedRow
  <2>2. orders[o].status # "activated" /\ Entitle(o, row, until, Customer, "wallet")
    BY <1>2 DEF PayOrderFromWallet, PayableFromWallet
  <2> HIDE DEF row, until
  <2>3. QED BY <2>1, <2>2, Entitles
<1>3. ASSUME NEW ref \in References, NEW s \in Staff, ApproveOrder(o, ref, s) PROVE AccessInv'
  <2> DEFINE current == RowsWith(Current)
             row == Renewed(o, current)
             base == IF current = {} THEN clock ELSE LaterOf(clock, memberships[row].until)
             until == Expiry(o, base)
  <2>1. row \in Rows BY <1>1, RenewedRow
  <2>2. base \in Nat BY <1>1, <2>1 DEF LaterOf
  <2>3. until \in Nat BY <1>1, <2>2, RenewedRow
  <2>4. orders[o].status # "activated" /\ Entitle(o, row, until, s, "evidence")
    BY <1>3 DEF ApproveOrder, MayDecide
  <2> HIDE DEF row, until
  <2>5. QED BY <2>1, <2>3, <2>4, Entitles
<1>4. QED BY <1>2, <1>3

\* Every step of an order.
LEMMA AccessOrder ==
  ASSUME AccessInv, NEW o \in Orders, OrderStep(o)
  PROVE  AccessInv'
<1>1. orders \in [Orders -> OrderRow] BY DEF AccessInv, OrdersTypeOK, OrderRow
<1>2. ASSUME NEW plan \in Plans, CreateOrder(o, plan) PROVE AccessInv'
  <2> DEFINE row == [orders[o] EXCEPT !.status = "pending_evidence", !.plan = plan]
  <2>1. row \in OrderRow /\ row.status # "activated" BY <1>1 DEF OrderRow, OrderStatuses
  <2>2. orders' = [orders EXCEPT ![o] = row] /\ orders[o].status # "activated"
        /\ UNCHANGED <<clock, memberships, entitlements>>
    BY <1>1, <1>2 DEF CreateOrder
  <2> HIDE DEF row
  <2>3. QED BY <2>1, <2>2, OrderMoves
<1>3. ASSUME NEW s \in Staff, SubmitOrder(o, s) PROVE AccessInv'
  <2> DEFINE row == [orders[o] EXCEPT !.status = "pending_review", !.submitter = s]
  <2>1. row \in OrderRow /\ row.status # "activated" BY <1>1 DEF OrderRow, OrderStatuses
  <2>2. orders' = [orders EXCEPT ![o] = row] /\ orders[o].status # "activated"
        /\ UNCHANGED <<clock, memberships, entitlements>>
    BY <1>1, <1>3 DEF SubmitOrder
  <2> HIDE DEF row
  <2>3. QED BY <2>1, <2>2, OrderMoves
<1>4. ASSUME NEW ref \in References, NEW s \in Staff, RejectOrder(o, ref, s) PROVE AccessInv'
  <2> DEFINE row == [orders[o] EXCEPT !.status = "rejected", !.reviewer = s]
  <2>1. row \in OrderRow /\ row.status # "activated" BY <1>1 DEF OrderRow, OrderStatuses
  <2>2. orders' = [orders EXCEPT ![o] = row] /\ orders[o].status # "activated"
        /\ UNCHANGED <<clock, memberships, entitlements>>
    BY <1>1, <1>4 DEF RejectOrder, MayDecide
  <2> HIDE DEF row
  <2>3. QED BY <2>1, <2>2, OrderMoves
<1>5. ASSUME NEW ref \in References, NEW s \in Staff, NEW matches \in BOOLEAN,
             RecordOrderEvidence(o, ref, s, matches)
      PROVE  AccessInv'
  BY <1>5 DEF RecordOrderEvidence, AccessInv, OrdersTypeOK, UnpaidRows, AccessIsPaidFor, Activated
<1>6. QED BY <1>2, <1>3, <1>4, <1>5, AccessPaid DEF OrderStep

\* Every step of the orders, the trial, the periods and the clock.
LEMMA AccessStep ==
  ASSUME AccessInv, OrdersNext \/ UNCHANGED <<clock, orders, memberships, entitlements>>
  PROVE  AccessInv'
<1>1. /\ OrdersTypeOK /\ clock \in 0 .. MaxClock /\ MaxClock \in Nat /\ UnpaidRows
      /\ memberships \in [Rows -> MembershipRow]
  BY OrderConstants DEF OrderConstants, AccessInv, OrdersTypeOK, MembershipRow
<1>2. CASE ActivateTrial
  <2>1. Trial \in Rows /\ memberships[Trial].plan = "trial" BY <1>1, <1>2 DEF ActivateTrial, Rows, UnpaidRows
  <2>2. clock + 1 \in Nat /\ clock + 2 \in Nat BY <1>1
  <2>3. QED BY <1>2, <2>1, <2>2, RowMoves DEF ActivateTrial
<1>3. ASSUME NEW row \in Rows, EndPeriod(row) PROVE AccessInv'
  <2> DEFINE m == memberships[row]
             status == IF m.status # "grace" /\ clock < m.grace THEN "grace" ELSE "read_only"
  <2>1. m \in MembershipRow /\ m.until \in Nat /\ m.grace \in Nat BY <1>1 DEF MembershipRow
  <2>2. /\ status \in {"grace", "read_only"}
        /\ \/ m.status = "active" /\ m.until <= clock
           \/ m.status = "grace" /\ m.grace <= clock
        /\ memberships' = [memberships EXCEPT ![row].status = status]
        /\ UNCHANGED <<clock, orders, entitlements>>
    BY <1>3 DEF EndPeriod
  <2>3. m.plan # "trial" => m.until <= clock
    BY <2>2 DEF AccessInv, AccessIsPaidFor
  <2>4. memberships' = [memberships EXCEPT ![row].status = status, ![row].until = m.until,
                                           ![row].grace = m.grace]
    <3>1. [m EXCEPT !.status = status]
            = [m EXCEPT !.status = status, !.until = m.until, !.grace = m.grace]
      BY <2>1 DEF MembershipRow
    <3>2. QED BY <1>1, <2>2, <3>1
  <2> HIDE DEF status
  <2>5. QED BY <2>1, <2>2, <2>3, <2>4, RowMoves
<1>4. CASE Tick
  <2>1. clock' = clock + 1 /\ clock' \in 0 .. MaxClock /\ UNCHANGED <<orders, memberships, entitlements>>
    BY <1>1, <1>4 DEF Tick
  <2>2. OrdersTypeOK' BY <1>1, <2>1 DEF OrdersTypeOK
  <2>3. \A row \in Rows : memberships[row].until \in Nat BY <1>1 DEF MembershipRow
  <2>4. AccessIsPaidFor' BY <1>1, <2>1, <2>3 DEF AccessInv, AccessIsPaidFor, Activated
  <2>5. QED BY <2>1, <2>2, <2>4 DEF AccessInv, UnpaidRows
<1>5. CASE UNCHANGED <<clock, orders, memberships, entitlements>>
  BY <1>5 DEF AccessInv, OrdersTypeOK, UnpaidRows, AccessIsPaidFor, Activated
<1>6. QED BY <1>2, <1>3, <1>4, <1>5, AccessOrder DEF OrdersNext

\* No step of the fees touches what the orders and the memberships are.
LEMMA FeesKeepAccess == FeesNext => UNCHANGED <<clock, orders, memberships, entitlements>>
<1> SUFFICES ASSUME FeesNext PROVE UNCHANGED <<clock, orders, memberships, entitlements>> OBVIOUS
<1>1. ASSUME NEW w \in Weeks, NEW result \in Results, Realise(w, result)
      PROVE  UNCHANGED <<clock, orders, memberships, entitlements>>
  BY <1>1 DEF Realise, orderVars
<1>2. ASSUME NEW s \in Staff, Generate(s)
      PROVE  UNCHANGED <<clock, orders, memberships, entitlements>>
  BY <1>2 DEF Generate, orderVars
<1>3. ASSUME NEW i \in DOMAIN statements, StatementStep(i)
      PROVE  UNCHANGED <<clock, orders, memberships, entitlements>>
  BY <1>3 DEF StatementStep, Assess, RecordFeeEvidence, RefusePayment, ConfirmPayment,
     PayFeeFromWallet, Settled, orderVars
<1>4. QED BY <1>1, <1>2, <1>3 DEF FeesNext

FeesStep == FeesNext \/ (OrdersNext /\ UNCHANGED feeVars)

\* Every step of the fees too.
LEMMA AccessInvStep == AccessInv /\ [FeesStep]_<<feeVars, orderVars>> => AccessInv'
<1> SUFFICES ASSUME AccessInv, [FeesStep]_<<feeVars, orderVars>> PROVE AccessInv' OBVIOUS
<1>1. OrdersNext \/ UNCHANGED <<clock, orders, memberships, entitlements>>
  BY FeesKeepAccess DEF FeesStep, orderVars
<1>2. QED BY <1>1, AccessStep

\* Orders, renewals and endings of periods keep types, unpaid rows and what access rests on.
THEOREM AccessInvariant == FeesSpec => []AccessInv
BY AccessInit, AccessInvStep, PTL DEF FeesSpec, FeesStep

\* Whichever way the orders are paid and the periods end, every paid membership rests on the
\* purchase of an activated order.
THEOREM AccessAlwaysPaidFor == FeesSpec => []AccessIsPaidFor
<1>1. AccessInv => AccessIsPaidFor BY DEF AccessInv
<1>2. QED BY <1>1, AccessInvariant, PTL

-----------------------------------------------------------------------------
(* The weeks follow each other *)

WeeksInv == FeesTypeOK /\ WeeksInSequence

\* A statement that waits for its assessment or its payment.
Unsettled == {"pending_review", "payment_pending"}

\* Only the last statement can be unsettled, so one that moves has no successor.
LEMMA StatementMoves ==
  ASSUME WeeksInv, NEW i \in DOMAIN statements, statements[i].status \in Unsettled,
         NEW row \in StatementRow, row.week = statements[i].week,
         statements' = [statements EXCEPT ![i] = row]
  PROVE  statements' \in Seq(StatementRow) /\ WeeksInSequence'
<1> USE DEF WeeksInv
<1>1. statements \in Seq(StatementRow) BY DEF FeesTypeOK
<1>2. statements' \in Seq(StatementRow) /\ DOMAIN statements' = DOMAIN statements BY <1>1
<1>3. \A j \in DOMAIN statements : ~(i < j) BY DEF WeeksInSequence, Unsettled, Finished
<1>4. \A j \in DOMAIN statements : statements'[j].week = statements[j].week BY <1>1
<1>5. \A j \in DOMAIN statements : j # i => statements'[j] = statements[j] BY <1>1
<1>6. WeeksInSequence'
  <2> SUFFICES ASSUME NEW k \in DOMAIN statements, NEW j \in DOMAIN statements, k < j
               PROVE  /\ statements'[k].status \in Finished \cup {"rejected"}
                      /\ statements'[k].status \in Finished => statements'[k].week < statements'[j].week
                      /\ statements'[j].week - statements'[k].week <= j - k
    BY <1>2 DEF WeeksInSequence, Finished
  <2>1. k # i BY <1>3
  <2>2. QED BY <1>4, <1>5, <2>1 DEF WeeksInSequence
<1>7. QED BY <1>2, <1>6

\* A new statement is the replacement of the last one or of the week after it.
LEMMA WeeksGenerate ==
  ASSUME WeeksInv, OrdersTypeOK, NEW s \in Staff, Generate(s)
  PROVE  WeeksInv'
<1> USE DEF WeeksInv
<1>1. /\ statements \in Seq(StatementRow) /\ net \in [Weeks -> Int] /\ mark \in Int /\ openingMark \in Int
      /\ clock \in 0 .. MaxClock /\ MaxClock \in Nat
  BY OrderConstants DEF OrderConstants, FeesTypeOK, OrdersTypeOK
<1> DEFINE w == clock - 1
           m == IF mark = NoMark THEN NetBefore(w) ELSE mark
           row == [week |-> w, status |-> "pending_review", cumulative |-> net[w],
                   weekNet |-> WeekNet(w), prior |-> m, eligible |-> ProfitAbove(m, net[w]),
                   generator |-> s, assessor |-> Nobody, payer |-> Nobody, refusers |-> {}]
           n == Len(statements)
<1>2. /\ clock > 0 /\ Succeeds(w) /\ statements' = Append(statements, row) /\ net' = net
      /\ mark' = m /\ openingMark' = IF mark = NoMark THEN m ELSE openingMark
  BY DEF Generate
<1>3. w \in Weeks /\ (w # 0 => w - 1 \in Weeks) /\ w \in Int BY <1>1, <1>2 DEF Weeks
<1>4. NetBefore(w) \in Int /\ WeekNet(w) \in Int /\ net[w] \in Int
  BY <1>1, <1>3 DEF NetBefore, WeekNet
<1>5. m \in Int BY <1>1, <1>4
<1>6. ProfitAbove(m, net[w]) \in Nat BY <1>4, <1>5 DEF ProfitAbove
<1>7. row \in StatementRow /\ row.week = w BY <1>3, <1>4, <1>5, <1>6 DEF StatementRow
<1> HIDE DEF m, row
<1>8. FeesTypeOK' BY <1>1, <1>2, <1>5, <1>7 DEF FeesTypeOK
<1>9. /\ n \in Nat /\ DOMAIN statements = 1 .. n /\ DOMAIN statements' = 1 .. n + 1
      /\ statements'[n + 1].week = w
      /\ \A j \in 1 .. n : statements'[j] = statements[j]
  BY <1>1, <1>2, <1>7
<1>10. \A j \in 1 .. n : statements[j].week \in Int
  <2>1. \A j \in 1 .. n : statements[j] \in StatementRow BY <1>1
  <2>2. \A r \in StatementRow : r.week \in Int BY <1>1 DEF StatementRow, Weeks
  <2>3. QED BY <2>1, <2>2
<1>11. n > 0 => \/ statements[n].week = w /\ statements[n].status = "rejected"
                \/ statements[n].week = w - 1 /\ statements[n].status \in Finished
  BY <1>1, <1>2, <1>9 DEF Succeeds
<1>12. WeeksInSequence'
  <2> SUFFICES ASSUME NEW i \in 1 .. n + 1, NEW j \in 1 .. n + 1, i < j
               PROVE  /\ statements'[i].status \in Finished \cup {"rejected"}
                      /\ statements'[i].status \in Finished => statements'[i].week < statements'[j].week
                      /\ statements'[j].week - statements'[i].week <= j - i
    BY <1>9 DEF WeeksInSequence, Finished
  <2>1. i \in 1 .. n /\ statements'[i] = statements[i] BY <1>9
  <2>2. CASE j \in 1 .. n BY <1>9, <2>1, <2>2 DEF WeeksInSequence
  <2>3. CASE j = n + 1 /\ i = n BY <1>3, <1>9, <1>10, <1>11, <2>1, <2>3 DEF Finished
  <2>4. CASE j = n + 1 /\ i < n
    <3>1. /\ statements[i].status \in Finished \cup {"rejected"}
          /\ statements[i].status \in Finished => statements[i].week < statements[n].week
          /\ statements[n].week - statements[i].week <= n - i
      BY <1>9, <2>1, <2>4 DEF WeeksInSequence
    <3>2. QED BY <1>3, <1>9, <1>10, <1>11, <2>1, <2>4, <3>1
  <2>5. j \in 1 .. n \/ (j = n + 1 /\ i = n) \/ (j = n + 1 /\ i < n) BY <1>9, <2>1
  <2>6. QED BY <2>2, <2>3, <2>4, <2>5
<1>13. QED BY <1>8, <1>12

\* Assessment, evidence and payment of one statement.
LEMMA WeeksStatement ==
  ASSUME WeeksInv, NEW i \in DOMAIN statements, StatementStep(i)
  PROVE  WeeksInv'
<1>1. /\ statements \in Seq(StatementRow) /\ net \in [Weeks -> Int] /\ mark \in Int
      /\ openingMark \in Int /\ statements[i] \in StatementRow
  BY DEF WeeksInv, FeesTypeOK
<1>2. ASSUME NEW s \in Staff, NEW approve \in BOOLEAN, Assess(i, s, approve) PROVE WeeksInv'
  <2> DEFINE status == IF ~approve THEN "rejected"
                       ELSE IF statements[i].eligible = 0 THEN "no_fee" ELSE "payment_pending"
             row == [statements[i] EXCEPT !.assessor = s, !.status = status]
  <2>1. row \in StatementRow /\ row.week = statements[i].week BY <1>1 DEF StatementRow
  <2>2. /\ statements' = [statements EXCEPT ![i] = row] /\ statements[i].status \in Unsettled
        /\ UNCHANGED <<net, mark, openingMark>>
    BY <1>1, <1>2 DEF Assess, Unsettled
  <2> HIDE DEF row
  <2>3. QED BY <1>1, <2>1, <2>2, StatementMoves DEF WeeksInv, FeesTypeOK
<1>3. ASSUME NEW ref \in References, NEW s \in Staff, RefusePayment(i, ref, s) PROVE WeeksInv'
  <2> DEFINE row == [statements[i] EXCEPT !.refusers = @ \cup {s}]
  <2>1. row \in StatementRow /\ row.week = statements[i].week BY <1>1 DEF StatementRow
  <2>2. /\ statements' = [statements EXCEPT ![i] = row] /\ statements[i].status \in Unsettled
        /\ UNCHANGED <<net, mark, openingMark>>
    BY <1>1, <1>3 DEF RefusePayment, MayConfirm, Unsettled
  <2> HIDE DEF row
  <2>3. QED BY <1>1, <2>1, <2>2, StatementMoves DEF WeeksInv, FeesTypeOK
<1>4. ASSUME NEW payer \in Staff \cup {Customer}, statements[i].status \in Unsettled,
             Settled(i, payer)
      PROVE  WeeksInv'
  <2> DEFINE row == [statements[i] EXCEPT !.status = "paid", !.payer = payer]
  <2>1. row \in StatementRow /\ row.week = statements[i].week BY <1>1 DEF StatementRow
  <2>2. statements[i].cumulative \in Int BY <1>1 DEF StatementRow
  <2>3. mark' \in Int /\ UNCHANGED <<net, openingMark>>
    BY <1>1, <1>4, <2>2 DEF Settled, MarkAfter, LaterOf
  <2>4. statements' = [statements EXCEPT ![i] = row] BY <1>1, <1>4 DEF Settled
  <2> HIDE DEF row
  <2>5. QED BY <1>1, <1>4, <2>1, <2>3, <2>4, StatementMoves DEF WeeksInv, FeesTypeOK
<1>5. ASSUME NEW ref \in References, NEW s \in Staff, ConfirmPayment(i, ref, s) PROVE WeeksInv'
  BY <1>4, <1>5 DEF ConfirmPayment, MayConfirm, Unsettled
<1>6. CASE PayFeeFromWallet(i)
  BY <1>4, <1>6 DEF PayFeeFromWallet, PayableStatement, Unsettled
<1>7. ASSUME NEW ref \in References, NEW s \in Staff, NEW matches \in BOOLEAN,
             RecordFeeEvidence(i, ref, s, matches)
      PROVE  WeeksInv'
  BY <1>7 DEF RecordFeeEvidence, feeVars, WeeksInv, FeesTypeOK, WeeksInSequence
<1>8. QED BY <1>2, <1>3, <1>5, <1>6, <1>7 DEF StatementStep

\* There is no statement at first.
LEMMA WeeksInit == FeesInit => WeeksInv
<1> SUFFICES ASSUME FeesInit PROVE WeeksInv OBVIOUS
<1>1. NoMark \in Int BY OrderConstants DEF OrderConstants, NoMark
<1>2. FeesTypeOK BY <1>1 DEF FeesInit, FeesTypeOK
<1>3. WeeksInSequence BY DEF FeesInit, WeeksInSequence
<1>4. QED BY <1>2, <1>3 DEF WeeksInv

\* Every step keeps the weeks in sequence.
LEMMA WeeksStep == OrdersTypeOK /\ WeeksInv /\ [FeesStep]_<<feeVars, orderVars>> => WeeksInv'
<1> SUFFICES ASSUME OrdersTypeOK, WeeksInv, [FeesStep]_<<feeVars, orderVars>> PROVE WeeksInv'
  OBVIOUS
<1>1. ASSUME NEW w \in Weeks, NEW result \in Results, Realise(w, result) PROVE WeeksInv'
  <2>1. result \in Int BY FeeConstants DEF FeeConstants
  <2>2. net' \in [Weeks -> Int] BY <1>1, <2>1 DEF Realise, WeeksInv, FeesTypeOK
  <2>3. QED BY <1>1, <2>2 DEF Realise, WeeksInv, FeesTypeOK, WeeksInSequence
<1>2. ASSUME NEW s \in Staff, Generate(s) PROVE WeeksInv' BY <1>2, WeeksGenerate
<1>3. ASSUME NEW i \in DOMAIN statements, StatementStep(i) PROVE WeeksInv' BY <1>3, WeeksStatement
<1>4. CASE UNCHANGED feeVars BY <1>4 DEF feeVars, WeeksInv, FeesTypeOK, WeeksInSequence
<1>5. QED BY <1>1, <1>2, <1>3, <1>4 DEF FeesStep, FeesNext

\* Generations, assessments and payments keep the sequence of the weeks and the types.
THEOREM WeeksInvariant == FeesSpec => []WeeksInv
<1>1. AccessInv => OrdersTypeOK BY DEF AccessInv
<1>2. QED BY <1>1, AccessInvariant, WeeksInit, WeeksStep, PTL DEF FeesSpec, FeesStep

\* Statements are generated, replaced, refused and paid in any order the code lets them: the
\* weeks are finished one after the other.
THEOREM WeeksAlwaysInSequence == FeesSpec => []WeeksInSequence
<1>1. WeeksInv => WeeksInSequence BY DEF WeeksInv
<1>2. QED BY <1>1, WeeksInvariant, PTL

-----------------------------------------------------------------------------
(* What was paid was paid once *)

EvidenceTyped == evidence \in [References -> EvidenceRow(Subjects, Staff) \cup {NoEvidence}]

\* An order says how it was paid exactly when it is activated.
RoutesOfActivated ==
  \A o \in Orders : orders[o].status = "activated" <=> orders[o].route # "none"

\* Nothing is posted or accepted before the payment; afterwards there is the one entry, and one
\* reference if it was made outside.
PaidBy(by, entries, accepted, key, delta) ==
  /\ entries = IF by = "none" THEN {} ELSE {[key |-> key, payload |-> by, delta |-> delta]}
  /\ by # "evidence" => accepted = {}
  /\ by = "evidence" => \E ref \in References : accepted = {ref}

OrdersPaid ==
  \A o \in Orders : PaidBy(orders[o].route, EntriesOf(PurchaseKey(o)), AcceptedFor(OrderSubject(o)),
                           PurchaseKey(o), OrderDelta(o))

StatementsPaid ==
  \A i \in Nat : PaidBy(FeeBy(i), EntriesOf(StatementKey(i)), AcceptedFor(StatementSubject(i)),
                        StatementKey(i), FeeDelta(i))

PaidInv ==
  /\ EvidenceTyped /\ RoutesOfActivated /\ Len(statements) <= MaxStatements
  /\ OrdersPaid /\ StatementsPaid

\* A recorded reference is accepted for nothing yet.
LEMMA RecordsAcceptNothing ==
  ASSUME EvidenceTyped, NEW ref \in References, NEW subject \in Subjects, NEW s \in Staff,
         NEW matches \in BOOLEAN, RecordEvidence(ref, subject, s, matches)
  PROVE  EvidenceTyped' /\ \A x : AcceptedFor(x)' = AcceptedFor(x)
<1> DEFINE row == [subject |-> subject, recorder |-> s, matches |-> matches, status |-> "recorded"]
<1>1. row \in EvidenceRow(Subjects, Staff) /\ row.status # "accepted" BY DEF EvidenceRow
<1>2. evidence' = [evidence EXCEPT ![ref] = row] /\ evidence[ref] = NoEvidence
  BY DEF RecordEvidence, IsFresh, IsEvidence
<1> HIDE DEF row
<1>3. EvidenceTyped' BY <1>1, <1>2 DEF EvidenceTyped
<1>4. ASSUME NEW x PROVE AcceptedFor(x)' = AcceptedFor(x)
  <2>1. \A other \in References \ {ref} : evidence'[other] = evidence[other]
    BY <1>2 DEF EvidenceTyped
  <2>2. evidence'[ref] = row BY <1>2 DEF EvidenceTyped
  <2>3. QED BY <1>1, <1>2, <2>1, <2>2 DEF AcceptedFor, IsEvidence
<1>5. QED BY <1>3, <1>4

\* A decision accepts the one reference for its subject, or none.
LEMMA MarksAccept ==
  ASSUME EvidenceTyped, NEW ref \in References, NEW subject, Decidable(ref, subject),
         NEW status \in {"accepted", "rejected"}, MarkEvidence(ref, status)
  PROVE  /\ EvidenceTyped'
         /\ \A x : AcceptedFor(x)' = IF x = subject /\ status = "accepted"
                                     THEN AcceptedFor(x) \cup {ref} ELSE AcceptedFor(x)
<1> DEFINE row == [evidence[ref] EXCEPT !.status = status]
<1>1. evidence[ref] \in EvidenceRow(Subjects, Staff) /\ evidence[ref].status = "recorded"
      /\ evidence[ref].subject = subject
  BY DEF EvidenceTyped, Decidable, IsEvidence
<1>2. /\ row \in EvidenceRow(Subjects, Staff) /\ row.status = status /\ row.subject = subject
      /\ row # NoEvidence
  BY <1>1, FeeConstants DEF FeeConstants, EvidenceRow
<1>3. evidence' = [evidence EXCEPT ![ref] = row] BY DEF MarkEvidence, EvidenceTyped
<1> HIDE DEF row
<1>4. EvidenceTyped' BY <1>2, <1>3 DEF EvidenceTyped
<1>5. ASSUME NEW x
      PROVE  AcceptedFor(x)' = IF x = subject /\ status = "accepted"
                                 THEN AcceptedFor(x) \cup {ref} ELSE AcceptedFor(x)
  <2>1. \A other \in References \ {ref} : evidence'[other] = evidence[other]
    BY <1>3 DEF EvidenceTyped
  <2>2. evidence'[ref] = row BY <1>3 DEF EvidenceTyped
  <2>3. ref \notin AcceptedFor(x) BY <1>1 DEF AcceptedFor
  <2>4. ref \in AcceptedFor(x)' <=> x = subject /\ status = "accepted"
    BY <1>2, <2>2 DEF AcceptedFor, IsEvidence
  <2>5. \A other \in References \ {ref} : other \in AcceptedFor(x)' <=> other \in AcceptedFor(x)
    BY <2>1 DEF AcceptedFor, IsEvidence
  <2>6. AcceptedFor(x) \subseteq References /\ AcceptedFor(x)' \subseteq References BY DEF AcceptedFor
  <2>7. QED BY <2>3, <2>4, <2>5, <2>6
<1>6. QED BY <1>4, <1>5

\* A fresh key gets its one entry and no other key changes.
LEMMA PostsOnce ==
  ASSUME NEW key, NEW payload, NEW delta, EntriesOf(key) = {}, PostTransaction(key, payload, delta)
  PROVE  \A k : EntriesOf(k)' = IF k = key THEN {[key |-> key, payload |-> payload, delta |-> delta]}
                               ELSE EntriesOf(k)
<1> DEFINE entry == [key |-> key, payload |-> payload, delta |-> delta]
<1>1. journal' = journal \cup {entry} /\ entry.key = key BY DEF PostTransaction
<1> HIDE DEF entry
<1>2. ASSUME NEW k PROVE EntriesOf(k)' = IF k = key THEN {entry} ELSE EntriesOf(k)
  BY <1>1 DEF EntriesOf
<1>3. QED BY <1>2 DEF entry

\* An order and a statement share neither a ledger key nor a subject.
LEMMA KeysDiffer ==
  /\ \A o, p : o # p => PurchaseKey(o) # PurchaseKey(p) /\ OrderSubject(o) # OrderSubject(p)
  /\ \A i, j : i # j => StatementKey(i) # StatementKey(j) /\ StatementSubject(i) # StatementSubject(j)
  /\ \A o, i : PurchaseKey(o) # StatementKey(i) /\ OrderSubject(o) # StatementSubject(i)
BY DEF PurchaseKey, OrderSubject, StatementKey, StatementSubject

\* A step that posts nothing for orders and statements, and accepts nothing.
LEMMA PaidKeepsEntries ==
  ASSUME PaidInv, EvidenceTyped', Len(statements)' <= MaxStatements,
         \A x : AcceptedFor(x)' = AcceptedFor(x),
         \A x : /\ EntriesOf(PurchaseKey(x))' = EntriesOf(PurchaseKey(x))
                /\ EntriesOf(StatementKey(x))' = EntriesOf(StatementKey(x)),
         \A o \in Orders : /\ orders'[o].route = orders[o].route
                           /\ orders'[o].status = "activated" <=> orders[o].status = "activated"
                           /\ OrderDelta(o)' = OrderDelta(o),
         \A i \in Nat : FeeBy(i)' = FeeBy(i) /\ FeeDelta(i)' = FeeDelta(i)
  PROVE  PaidInv'
<1>1. RoutesOfActivated' BY DEF PaidInv, RoutesOfActivated
<1>2. OrdersPaid'
  <2> SUFFICES ASSUME NEW o \in Orders
               PROVE  PaidBy(orders'[o].route, EntriesOf(PurchaseKey(o))', AcceptedFor(OrderSubject(o))',
                             PurchaseKey(o), OrderDelta(o)')
    BY DEF OrdersPaid, PurchaseKey, OrderSubject, PaidBy
  <2>1. QED BY DEF PaidInv, OrdersPaid
<1>3. StatementsPaid'
  <2> SUFFICES ASSUME NEW i \in Nat
               PROVE  PaidBy(FeeBy(i)', EntriesOf(StatementKey(i))', AcceptedFor(StatementSubject(i))',
                             StatementKey(i), FeeDelta(i)')
    BY DEF StatementsPaid, StatementKey, StatementSubject, PaidBy
  <2>1. QED BY DEF PaidInv, StatementsPaid
<1>4. QED BY <1>1, <1>2, <1>3 DEF PaidInv

\* A step that pays for nothing.
LEMMA PaidKeeps ==
  ASSUME PaidInv, EvidenceTyped', Len(statements)' <= MaxStatements,
         \A x : AcceptedFor(x)' = AcceptedFor(x), UNCHANGED journal,
         \A o \in Orders : /\ orders'[o].route = orders[o].route
                           /\ orders'[o].status = "activated" <=> orders[o].status = "activated"
                           /\ OrderDelta(o)' = OrderDelta(o),
         \A i \in Nat : FeeBy(i)' = FeeBy(i) /\ FeeDelta(i)' = FeeDelta(i)
  PROVE  PaidInv'
<1>1. \A x : /\ EntriesOf(PurchaseKey(x))' = EntriesOf(PurchaseKey(x))
             /\ EntriesOf(StatementKey(x))' = EntriesOf(StatementKey(x))
  BY DEF EntriesOf, PurchaseKey, StatementKey
<1>2. QED BY <1>1, PaidKeepsEntries

\* The activation of an order is its one payment.
LEMMA OrderPays ==
  ASSUME PaidInv, OrdersTypeOK, NEW o \in Orders, NEW reviewer, NEW route \in {"wallet", "evidence"},
         orders[o].status # "activated",
         orders' = [orders EXCEPT ![o].status = "activated", ![o].reviewer = reviewer,
                                  ![o].route = route],
         PostTransaction(PurchaseKey(o), route,
                         IF route = "wallet" THEN -Price[orders[o].plan] ELSE 0),
         NEW accepted, route = "wallet" => accepted = {},
         route = "evidence" => \E ref \in References : accepted = {ref},
         EvidenceTyped', \A x : AcceptedFor(x)' = IF x = OrderSubject(o)
                                                 THEN AcceptedFor(x) \cup accepted ELSE AcceptedFor(x),
         UNCHANGED statements
  PROVE  PaidInv'
<1> DEFINE delta == IF route = "wallet" THEN -Price[orders[o].plan] ELSE 0
<1>1. /\ orders'[o].status = "activated" /\ orders'[o].route = route
      /\ orders'[o].plan = orders[o].plan
      /\ \A p \in Orders \ {o} : orders'[p] = orders[p]
  BY DEF OrdersTypeOK
<1>2. orders[o].route = "none" BY DEF PaidInv, RoutesOfActivated
<1>3. /\ EntriesOf(PurchaseKey(o)) = {} /\ AcceptedFor(OrderSubject(o)) = {}
  BY <1>2 DEF PaidInv, OrdersPaid, PaidBy
<1>4. \A k : EntriesOf(k)' = IF k = PurchaseKey(o)
                              THEN {[key |-> PurchaseKey(o), payload |-> route, delta |-> delta]}
                              ELSE EntriesOf(k)
  BY <1>3, PostsOnce
<1>5. OrderDelta(o)' = delta BY <1>1 DEF OrderDelta, DeltaOf
<1> HIDE DEF delta
<1>6. RoutesOfActivated' BY <1>1 DEF PaidInv, RoutesOfActivated
<1>7. OrdersPaid'
  <2> SUFFICES ASSUME NEW p \in Orders
               PROVE  PaidBy(orders'[p].route, EntriesOf(PurchaseKey(p))', AcceptedFor(OrderSubject(p))',
                             PurchaseKey(p), OrderDelta(p)')
    BY DEF OrdersPaid, PurchaseKey, OrderSubject, PaidBy
  <2>1. CASE p = o BY <1>1, <1>3, <1>4, <1>5, <2>1 DEF PaidBy
  <2>2. CASE p # o
    <3>1. OrderDelta(p)' = OrderDelta(p) BY <1>1, <2>2 DEF OrderDelta
    <3>2. /\ EntriesOf(PurchaseKey(p))' = EntriesOf(PurchaseKey(p))
          /\ AcceptedFor(OrderSubject(p))' = AcceptedFor(OrderSubject(p))
      BY <1>4, <2>2, KeysDiffer
    <3>3. QED BY <1>1, <2>2, <3>1, <3>2 DEF PaidInv, OrdersPaid
  <2>3. QED BY <2>1, <2>2
<1>8. StatementsPaid'
  <2> SUFFICES ASSUME NEW i \in Nat
               PROVE  PaidBy(FeeBy(i)', EntriesOf(StatementKey(i))', AcceptedFor(StatementSubject(i))',
                             StatementKey(i), FeeDelta(i)')
    BY DEF StatementsPaid, StatementKey, StatementSubject, PaidBy
  <2>1. /\ EntriesOf(StatementKey(i))' = EntriesOf(StatementKey(i))
        /\ AcceptedFor(StatementSubject(i))' = AcceptedFor(StatementSubject(i))
    BY <1>4, KeysDiffer
  <2>2. FeeBy(i)' = FeeBy(i) /\ FeeDelta(i)' = FeeDelta(i) BY DEF FeeBy, FeeDelta
  <2>3. QED BY <2>1, <2>2 DEF PaidInv, StatementsPaid
<1>9. QED BY <1>6, <1>7, <1>8 DEF PaidInv

\* The settlement of a statement is its one payment.
LEMMA StatementPays ==
  ASSUME PaidInv, FeesTypeOK, NEW i \in DOMAIN statements, NEW payer,
         statements[i].status = "payment_pending", Settled(i, payer),
         NEW route \in {"wallet", "evidence"}, payer = Customer <=> route = "wallet",
         PostTransaction(StatementKey(i), route,
                         IF route = "wallet" THEN -statements[i].eligible ELSE 0),
         NEW accepted, route = "wallet" => accepted = {},
         route = "evidence" => \E ref \in References : accepted = {ref},
         EvidenceTyped', \A x : AcceptedFor(x)' = IF x = StatementSubject(i)
                                                 THEN AcceptedFor(x) \cup accepted ELSE AcceptedFor(x)
  PROVE  PaidInv'
<1> DEFINE delta == IF route = "wallet" THEN -statements[i].eligible ELSE 0
<1>1. /\ statements \in Seq(StatementRow) /\ i \in Nat
      /\ statements' = [statements EXCEPT ![i].status = "paid", ![i].payer = payer]
      /\ UNCHANGED orders
  BY DEF FeesTypeOK, Settled
<1>2. /\ DOMAIN statements' = DOMAIN statements /\ Len(statements') = Len(statements)
      /\ statements'[i].status = "paid" /\ statements'[i].payer = payer
      /\ statements'[i].eligible = statements[i].eligible
      /\ \A j \in DOMAIN statements \ {i} : statements'[j] = statements[j]
  <2> DEFINE row == [statements[i] EXCEPT !.status = "paid", !.payer = payer]
  <2>1. statements[i] \in StatementRow BY <1>1
  <2>2. row.status = "paid" /\ row.payer = payer /\ row.eligible = statements[i].eligible
    BY <2>1 DEF StatementRow
  <2>3. statements' = [statements EXCEPT ![i] = row] BY <1>1
  <2> HIDE DEF row
  <2>4. /\ DOMAIN statements' = DOMAIN statements /\ statements'[i] = row
        /\ \A j \in DOMAIN statements \ {i} : statements'[j] = statements[j]
    BY <2>3
  <2>5. Len(statements') = Len(statements) BY <1>1, <2>3
  <2>6. QED BY <2>2, <2>4, <2>5
<1>3. EntriesOf(StatementKey(i)) = {} /\ AcceptedFor(StatementSubject(i)) = {}
  BY <1>1 DEF PaidInv, StatementsPaid, PaidBy, FeeBy
<1>4. \A k : EntriesOf(k)' = IF k = StatementKey(i)
                              THEN {[key |-> StatementKey(i), payload |-> route, delta |-> delta]}
                              ELSE EntriesOf(k)
  BY <1>3, PostsOnce
<1>5. FeeBy(i)' = route /\ FeeDelta(i)' = delta BY <1>2 DEF FeeBy, FeeDelta
<1> HIDE DEF delta
<1>6. OrdersPaid'
  <2> SUFFICES ASSUME NEW o \in Orders
               PROVE  PaidBy(orders'[o].route, EntriesOf(PurchaseKey(o))', AcceptedFor(OrderSubject(o))',
                             PurchaseKey(o), OrderDelta(o)')
    BY DEF OrdersPaid, PurchaseKey, OrderSubject, PaidBy
  <2>1. /\ EntriesOf(PurchaseKey(o))' = EntriesOf(PurchaseKey(o))
        /\ AcceptedFor(OrderSubject(o))' = AcceptedFor(OrderSubject(o))
    BY <1>4, KeysDiffer
  <2>2. OrderDelta(o)' = OrderDelta(o) BY <1>1 DEF OrderDelta
  <2>3. QED BY <1>1, <2>1, <2>2 DEF PaidInv, OrdersPaid
<1>7. StatementsPaid'
  <2> SUFFICES ASSUME NEW j \in Nat
               PROVE  PaidBy(FeeBy(j)', EntriesOf(StatementKey(j))', AcceptedFor(StatementSubject(j))',
                             StatementKey(j), FeeDelta(j)')
    BY DEF StatementsPaid, StatementKey, StatementSubject, PaidBy
  <2>1. CASE j = i BY <1>3, <1>4, <1>5, <2>1 DEF PaidBy
  <2>2. CASE j # i
    <3>1. /\ EntriesOf(StatementKey(j))' = EntriesOf(StatementKey(j))
          /\ AcceptedFor(StatementSubject(j))' = AcceptedFor(StatementSubject(j))
      BY <1>4, <2>2, KeysDiffer
    <3>2. FeeBy(j)' = FeeBy(j) BY <1>2, <2>2 DEF FeeBy
    <3>3. FeeDelta(j)' = FeeDelta(j)
      <4>1. FeeBy(j) = "wallet" => j \in DOMAIN statements BY DEF FeeBy
      <4>2. QED BY <1>2, <2>2, <3>2, <4>1 DEF FeeDelta
    <3>4. QED BY <3>1, <3>2, <3>3 DEF PaidInv, StatementsPaid
  <2>3. QED BY <2>1, <2>2
<1>8. RoutesOfActivated' BY <1>1 DEF PaidInv, RoutesOfActivated
<1>9. Len(statements)' <= MaxStatements BY <1>2 DEF PaidInv
<1>10. QED BY <1>6, <1>7, <1>8, <1>9 DEF PaidInv

\* What leaves statements or orders alone, said once for the steps that follow.
LEMMA QuietSides ==
  /\ UNCHANGED statements => /\ \A i \in Nat : FeeBy(i)' = FeeBy(i) /\ FeeDelta(i)' = FeeDelta(i)
                             /\ Len(statements)' = Len(statements)
  /\ UNCHANGED orders => \A o \in Orders :
       /\ orders'[o].route = orders[o].route
       /\ orders'[o].status = "activated" <=> orders[o].status = "activated"
       /\ OrderDelta(o)' = OrderDelta(o)
  /\ UNCHANGED evidence /\ EvidenceTyped => EvidenceTyped' /\ \A x : AcceptedFor(x)' = AcceptedFor(x)
BY DEF FeeBy, FeeDelta, OrderDelta, EvidenceTyped, AcceptedFor, IsEvidence

\* An order that moves on without being activated pays for nothing.
LEMMA PaidOrderQuiet ==
  ASSUME PaidInv, OrdersTypeOK, NEW o \in Orders, NEW row, orders[o].status # "activated",
         row.status # "activated", row.route = orders[o].route,
         orders' = [orders EXCEPT ![o] = row], UNCHANGED <<statements, journal>>,
         EvidenceTyped', \A x : AcceptedFor(x)' = AcceptedFor(x)
  PROVE  PaidInv'
<1>1. orders'[o] = row /\ \A p \in Orders \ {o} : orders'[p] = orders[p] BY DEF OrdersTypeOK
<1>2. orders[o].route = "none" BY DEF PaidInv, RoutesOfActivated
<1>3. \A p \in Orders : /\ orders'[p].route = orders[p].route
                        /\ orders'[p].status = "activated" <=> orders[p].status = "activated"
                        /\ OrderDelta(p)' = OrderDelta(p)
  <2>1. OrderDelta(o) = 0 /\ OrderDelta(o)' = 0 BY <1>1, <1>2 DEF OrderDelta, DeltaOf
  <2>2. \A p \in Orders \ {o} : OrderDelta(p)' = OrderDelta(p) BY <1>1 DEF OrderDelta
  <2>3. QED BY <1>1, <2>1, <2>2
<1>4. Len(statements)' <= MaxStatements /\ UNCHANGED journal BY DEF PaidInv
<1>5. \A i \in Nat : FeeBy(i)' = FeeBy(i) /\ FeeDelta(i)' = FeeDelta(i) BY QuietSides
<1>6. QED BY <1>3, <1>4, <1>5, PaidKeeps

\* Every step of an order.
LEMMA PaidOrder ==
  ASSUME PaidInv, OrdersTypeOK, UNCHANGED feeVars, NEW o \in Orders, OrderStep(o)
  PROVE  PaidInv'
<1>1. /\ orders \in [Orders -> OrderRow] /\ UNCHANGED statements /\ EvidenceTyped
      /\ Len(statements)' <= MaxStatements
  BY DEF OrdersTypeOK, OrderRow, feeVars, PaidInv
<1>2. ASSUME NEW plan \in Plans, CreateOrder(o, plan) PROVE PaidInv'
  <2> DEFINE row == [orders[o] EXCEPT !.status = "pending_evidence", !.plan = plan]
  <2>1. row.status # "activated" /\ row.route = orders[o].route BY <1>1 DEF OrderRow
  <2>2. /\ orders' = [orders EXCEPT ![o] = row] /\ orders[o].status # "activated"
        /\ UNCHANGED <<evidence, journal>>
    BY <1>1, <1>2 DEF CreateOrder, ledgerVars
  <2> HIDE DEF row
  <2>3. QED BY <1>1, <2>1, <2>2, QuietSides, PaidOrderQuiet
<1>3. ASSUME NEW s \in Staff, SubmitOrder(o, s) PROVE PaidInv'
  <2> DEFINE row == [orders[o] EXCEPT !.status = "pending_review", !.submitter = s]
  <2>1. row.status # "activated" /\ row.route = orders[o].route BY <1>1 DEF OrderRow
  <2>2. /\ orders' = [orders EXCEPT ![o] = row] /\ orders[o].status # "activated"
        /\ UNCHANGED <<evidence, journal>>
    BY <1>1, <1>3 DEF SubmitOrder, ledgerVars
  <2> HIDE DEF row
  <2>3. QED BY <1>1, <2>1, <2>2, QuietSides, PaidOrderQuiet
<1>4. ASSUME NEW ref \in References, NEW s \in Staff, RejectOrder(o, ref, s) PROVE PaidInv'
  <2> DEFINE row == [orders[o] EXCEPT !.status = "rejected", !.reviewer = s]
  <2>1. row.status # "activated" /\ row.route = orders[o].route BY <1>1 DEF OrderRow
  <2>2. /\ orders' = [orders EXCEPT ![o] = row] /\ orders[o].status # "activated"
        /\ UNCHANGED journal
    BY <1>1, <1>4 DEF RejectOrder, MayDecide, ledgerVars
  <2>3. EvidenceTyped' /\ \A x : AcceptedFor(x)' = AcceptedFor(x)
    BY <1>1, <1>4, MarksAccept DEF RejectOrder, MayDecide
  <2> HIDE DEF row
  <2>4. QED BY <1>1, <2>1, <2>2, <2>3, PaidOrderQuiet
<1>5. ASSUME NEW ref \in References, NEW s \in Staff, NEW matches \in BOOLEAN,
             RecordOrderEvidence(o, ref, s, matches)
      PROVE  PaidInv'
  <2>1. OrderSubject(o) \in Subjects BY DEF Subjects
  <2>2. EvidenceTyped' /\ \A x : AcceptedFor(x)' = AcceptedFor(x)
    BY <1>1, <1>5, <2>1, RecordsAcceptNothing DEF RecordOrderEvidence
  <2>3. UNCHANGED <<orders, journal>> BY <1>5 DEF RecordOrderEvidence, ledgerVars
  <2>4. QED BY <1>1, <2>2, <2>3, QuietSides, PaidKeeps
<1>6. ASSUME NEW ref \in References, NEW s \in Staff, ApproveOrder(o, ref, s) PROVE PaidInv'
  <2>1. /\ orders[o].status # "activated" /\ Decidable(ref, OrderSubject(o))
        /\ PostTransaction(PurchaseKey(o), "evidence", 0) /\ MarkEvidence(ref, "accepted")
        /\ orders' = [orders EXCEPT ![o].status = "activated", ![o].reviewer = s,
                                    ![o].route = "evidence"]
    BY <1>6 DEF ApproveOrder, MayDecide, OutsideDelta, Entitle
  <2>2. /\ EvidenceTyped'
        /\ \A x : AcceptedFor(x)' = IF x = OrderSubject(o) THEN AcceptedFor(x) \cup {ref}
                                    ELSE AcceptedFor(x)
    BY <1>1, <2>1, MarksAccept
  <2>3. QED BY <1>1, <2>1, <2>2, OrderPays
<1>7. CASE PayOrderFromWallet(o)
  <2>1. /\ orders[o].status # "activated" /\ UNCHANGED evidence
        /\ PostTransaction(PurchaseKey(o), "wallet", -Price[orders[o].plan])
        /\ orders' = [orders EXCEPT ![o].status = "activated", ![o].reviewer = Customer,
                                    ![o].route = "wallet"]
    BY <1>7 DEF PayOrderFromWallet, PayableFromWallet, Entitle
  <2>2. EvidenceTyped' /\ \A x : AcceptedFor(x)' = IF x = OrderSubject(o) THEN AcceptedFor(x) \cup {}
                                                  ELSE AcceptedFor(x)
    BY <1>1, <2>1, QuietSides
  <2>3. QED BY <1>1, <2>1, <2>2, OrderPays
<1>8. QED BY <1>2, <1>3, <1>4, <1>5, <1>6, <1>7 DEF OrderStep

\* The statement keeps its payment, so nobody's payment changes.
LEMMA PaidStatementQuiet ==
  ASSUME PaidInv, FeesTypeOK, NEW i \in DOMAIN statements, NEW row,
         statements[i].status # "paid", row.status # "paid",
         statements' = [statements EXCEPT ![i] = row], UNCHANGED <<orders, journal>>,
         EvidenceTyped', \A x : AcceptedFor(x)' = AcceptedFor(x)
  PROVE  PaidInv'
<1>1. statements \in Seq(StatementRow) BY DEF FeesTypeOK
<1>2. /\ DOMAIN statements' = DOMAIN statements /\ statements'[i] = row
      /\ \A j \in DOMAIN statements \ {i} : statements'[j] = statements[j]
  OBVIOUS
<1>3. Len(statements)' <= MaxStatements BY <1>1 DEF PaidInv
<1>4. \A j \in Nat : FeeBy(j)' = FeeBy(j) BY <1>2 DEF FeeBy
<1>5. ASSUME NEW j \in Nat PROVE FeeDelta(j)' = FeeDelta(j)
  <2>1. FeeBy(j) = "wallet" => j \in DOMAIN statements \ {i} BY DEF FeeBy
  <2>2. QED BY <1>2, <1>4, <2>1 DEF FeeDelta
<1>6. UNCHANGED journal OBVIOUS
<1>7. \A o \in Orders : /\ orders'[o].route = orders[o].route
                        /\ orders'[o].status = "activated" <=> orders[o].status = "activated"
                        /\ OrderDelta(o)' = OrderDelta(o)
  BY QuietSides
<1>8. QED BY <1>3, <1>4, <1>5, <1>6, <1>7, PaidKeeps

\* A new statement is not paid.
LEMMA PaidGenerate ==
  ASSUME PaidInv, FeesTypeOK, NEW s \in Staff, Generate(s)
  PROVE  PaidInv'
<1>1. PICK row : statements' = Append(statements, row) /\ row.status = "pending_review"
  BY DEF Generate
<1>2. /\ Len(statements) < MaxStatements /\ UNCHANGED <<orders, evidence, journal>>
  BY DEF Generate, orderVars, ledgerVars
<1>3. statements \in Seq(StatementRow) BY DEF FeesTypeOK
<1> DEFINE n == Len(statements)
<1>4. /\ n \in Nat /\ DOMAIN statements = 1 .. n /\ DOMAIN statements' = 1 .. n + 1
      /\ statements'[n + 1] = row /\ \A j \in 1 .. n : statements'[j] = statements[j]
  BY <1>1, <1>3
<1>5. Len(statements)' <= MaxStatements
  <2>1. Len(statements)' = n + 1 BY <1>1, <1>3
  <2>2. QED BY <1>2, <1>4, <2>1, FeeConstants DEF FeeConstants
<1>6. \A j \in Nat : FeeBy(j)' = FeeBy(j) BY <1>1, <1>4 DEF FeeBy
<1>7. ASSUME NEW j \in Nat PROVE FeeDelta(j)' = FeeDelta(j)
  <2>1. FeeBy(j) = "wallet" => j \in 1 .. n BY <1>4 DEF FeeBy
  <2>2. QED BY <1>4, <1>6, <2>1 DEF FeeDelta
<1>8. EvidenceTyped' /\ \A x : AcceptedFor(x)' = AcceptedFor(x) BY <1>2, QuietSides DEF PaidInv
<1>9. \A o \in Orders : /\ orders'[o].route = orders[o].route
                        /\ orders'[o].status = "activated" <=> orders[o].status = "activated"
                        /\ OrderDelta(o)' = OrderDelta(o)
  BY <1>2, QuietSides
<1>10. QED BY <1>2, <1>5, <1>6, <1>7, <1>8, <1>9, PaidKeeps

\* Every step of a statement.
LEMMA PaidStatement ==
  ASSUME PaidInv, FeesTypeOK, NEW i \in DOMAIN statements, StatementStep(i)
  PROVE  PaidInv'
<1>1. /\ statements \in Seq(StatementRow) /\ EvidenceTyped /\ Len(statements) <= MaxStatements
      /\ statements[i] \in StatementRow
  BY DEF FeesTypeOK, PaidInv
<1>2. ASSUME NEW s \in Staff, NEW approve \in BOOLEAN, Assess(i, s, approve) PROVE PaidInv'
  <2> DEFINE status == IF ~approve THEN "rejected"
                       ELSE IF statements[i].eligible = 0 THEN "no_fee" ELSE "payment_pending"
             row == [statements[i] EXCEPT !.assessor = s, !.status = status]
  <2>1. row.status # "paid" BY <1>1 DEF StatementRow
  <2>2. /\ statements' = [statements EXCEPT ![i] = row] /\ statements[i].status # "paid"
        /\ UNCHANGED <<orders, journal, evidence>>
    BY <1>1, <1>2 DEF Assess, orderVars, ledgerVars
  <2> HIDE DEF row
  <2>3. QED BY <1>1, <2>1, <2>2, QuietSides, PaidStatementQuiet
<1>3. ASSUME NEW ref \in References, NEW s \in Staff, RefusePayment(i, ref, s) PROVE PaidInv'
  <2> DEFINE row == [statements[i] EXCEPT !.refusers = @ \cup {s}]
  <2>1. /\ statements' = [statements EXCEPT ![i] = row] /\ statements[i].status # "paid"
        /\ UNCHANGED <<orders, journal>>
    BY <1>1, <1>3 DEF RefusePayment, MayConfirm, ledgerVars
  <2>2. row.status # "paid" BY <1>1, <2>1 DEF StatementRow
  <2>3. EvidenceTyped' /\ \A x : AcceptedFor(x)' = AcceptedFor(x)
    BY <1>1, <1>3, MarksAccept DEF RefusePayment, MayConfirm
  <2> HIDE DEF row
  <2>4. QED BY <2>1, <2>2, <2>3, PaidStatementQuiet
<1>4. ASSUME NEW ref \in References, NEW s \in Staff, NEW matches \in BOOLEAN,
             RecordFeeEvidence(i, ref, s, matches)
      PROVE  PaidInv'
  <2>1. StatementSubject(i) \in Subjects
    <3>1. i \in 1 .. MaxStatements BY <1>1, FeeConstants DEF FeeConstants
    <3>2. QED BY <3>1 DEF Subjects
  <2>2. EvidenceTyped' /\ \A x : AcceptedFor(x)' = AcceptedFor(x)
    BY <1>1, <1>4, <2>1, RecordsAcceptNothing DEF RecordFeeEvidence, Outsiders
  <2>3. UNCHANGED <<orders, statements, journal>> BY <1>4 DEF RecordFeeEvidence, feeVars, ledgerVars
  <2>4. QED BY <1>1, <2>2, <2>3, QuietSides, PaidKeeps
<1>5. ASSUME NEW ref \in References, NEW s \in Staff, ConfirmPayment(i, ref, s) PROVE PaidInv'
  <2>1. /\ statements[i].status = "payment_pending" /\ Decidable(ref, StatementSubject(i))
        /\ PostTransaction(StatementKey(i), "evidence", 0) /\ MarkEvidence(ref, "accepted")
        /\ Settled(i, s)
    BY <1>5 DEF ConfirmPayment, MayConfirm
  <2>2. /\ EvidenceTyped'
        /\ \A x : AcceptedFor(x)' = IF x = StatementSubject(i) THEN AcceptedFor(x) \cup {ref}
                                    ELSE AcceptedFor(x)
    BY <1>1, <2>1, MarksAccept
  <2>3. s # Customer BY OrderConstants DEF OrderConstants
  <2>4. \E accepted : /\ accepted = {ref}
                     /\ \A x : AcceptedFor(x)' = IF x = StatementSubject(i)
                                                 THEN AcceptedFor(x) \cup accepted ELSE AcceptedFor(x)
    BY <2>2
  <2>5. QED BY <2>1, <2>2, <2>3, <2>4, StatementPays
<1>6. CASE PayFeeFromWallet(i)
  <2>1. /\ statements[i].status = "payment_pending" /\ UNCHANGED evidence
        /\ PostTransaction(StatementKey(i), "wallet", -statements[i].eligible)
        /\ Settled(i, Customer)
    BY <1>6 DEF PayFeeFromWallet, PayableStatement
  <2>2. EvidenceTyped' /\ \A x : AcceptedFor(x)' = IF x = StatementSubject(i)
                                                  THEN AcceptedFor(x) \cup {} ELSE AcceptedFor(x)
    BY <1>1, <2>1, QuietSides
  <2>3. QED BY <2>1, <2>2, StatementPays
<1>7. QED BY <1>2, <1>3, <1>4, <1>5, <1>6 DEF StatementStep

\* Nothing is paid at first.
LEMMA PaidInit ==
  OrdersInit /\ FeesInit /\ evidence = [ref \in References |-> NoEvidence] /\ journal = {} => PaidInv
<1> SUFFICES ASSUME OrdersInit, FeesInit, evidence = [ref \in References |-> NoEvidence], journal = {}
             PROVE  PaidInv
  OBVIOUS
<1>1. \A k : EntriesOf(k) = {} BY DEF EntriesOf
<1>2. \A x : AcceptedFor(x) = {} BY DEF AcceptedFor, IsEvidence
<1>3. EvidenceTyped BY DEF EvidenceTyped
<1>4. \A o \in Orders : orders[o].route = "none" /\ orders[o].status = "none"
  BY DEF OrdersInit, NoOrderYet
<1>5. statements = <<>> /\ Len(statements) <= MaxStatements BY FeeConstants DEF FeeConstants, FeesInit
<1>6. \A i \in Nat : FeeBy(i) = "none" BY <1>5 DEF FeeBy
<1>7. OrdersPaid BY <1>1, <1>2, <1>4 DEF OrdersPaid, PaidBy
<1>8. StatementsPaid BY <1>1, <1>2, <1>6 DEF StatementsPaid, PaidBy
<1>9. QED BY <1>3, <1>4, <1>5, <1>7, <1>8 DEF PaidInv, RoutesOfActivated

\* Every step keeps what was paid.
LEMMA PaidStep ==
  OrdersTypeOK /\ FeesTypeOK /\ PaidInv /\ [FeesStep]_<<feeVars, orderVars>> => PaidInv'
<1> SUFFICES ASSUME OrdersTypeOK, FeesTypeOK, PaidInv, [FeesStep]_<<feeVars, orderVars>>
             PROVE  PaidInv'
  OBVIOUS
<1>1. ASSUME UNCHANGED <<orders, statements, evidence, journal>> PROVE PaidInv'
  BY <1>1, QuietSides, PaidKeeps DEF PaidInv
<1>2. ASSUME NEW w \in Weeks, NEW result \in Results, Realise(w, result) PROVE PaidInv'
  BY <1>1, <1>2 DEF Realise, orderVars, ledgerVars
<1>3. ASSUME NEW s \in Staff, Generate(s) PROVE PaidInv' BY <1>3, PaidGenerate
<1>4. ASSUME NEW i \in DOMAIN statements, StatementStep(i) PROVE PaidInv' BY <1>4, PaidStatement
<1>5. ASSUME UNCHANGED feeVars, NEW o \in Orders, OrderStep(o) PROVE PaidInv' BY <1>5, PaidOrder
<1>6. ASSUME UNCHANGED feeVars, ActivateTrial \/ Tick \/ \E row \in Rows : EndPeriod(row)
      PROVE  PaidInv'
  BY <1>1, <1>6 DEF feeVars, ActivateTrial, Tick, EndPeriod, ledgerVars
<1>7. CASE UNCHANGED <<feeVars, orderVars>> BY <1>1, <1>7 DEF feeVars, orderVars, ledgerVars
<1>8. QED BY <1>2, <1>3, <1>4, <1>5, <1>6, <1>7 DEF FeesStep, FeesNext, OrdersNext

\* The invariant says what the property says.
LEMMA PaidImplies == FeesTypeOK /\ PaidInv => ReferencePaysOnce
<1> SUFFICES ASSUME FeesTypeOK, PaidInv PROVE ReferencePaysOnce OBVIOUS
<1>1. Cardinality({}) = 0 /\ \A ref : Cardinality({ref}) = 1 BY FS_EmptySet, FS_Singleton
<1>2. ASSUME NEW o \in Orders
      PROVE  /\ o \in Activated <=> EntriesOf(PurchaseKey(o)) # {}
             /\ \A entry \in EntriesOf(PurchaseKey(o)) :
                  /\ entry.payload = orders[o].route
                  /\ entry.delta = IF orders[o].route = "wallet" THEN -Price[orders[o].plan] ELSE 0
             /\ Cardinality(AcceptedFor(OrderSubject(o))) = IF orders[o].route = "evidence" THEN 1 ELSE 0
  <2>1. PaidBy(orders[o].route, EntriesOf(PurchaseKey(o)), AcceptedFor(OrderSubject(o)),
               PurchaseKey(o), OrderDelta(o))
    BY DEF PaidInv, OrdersPaid
  <2>2. o \in Activated <=> EntriesOf(PurchaseKey(o)) # {}
    BY <2>1 DEF PaidInv, RoutesOfActivated, PaidBy, Activated
  <2>3. \A entry \in EntriesOf(PurchaseKey(o)) :
          entry.payload = orders[o].route /\ entry.delta = OrderDelta(o)
    BY <2>1 DEF PaidBy
  <2>4. Cardinality(AcceptedFor(OrderSubject(o))) = IF orders[o].route = "evidence" THEN 1 ELSE 0
    BY <1>1, <2>1 DEF PaidBy
  <2>5. QED BY <2>2, <2>3, <2>4 DEF OrderDelta, DeltaOf
<1>3. ASSUME NEW i \in DOMAIN statements
      PROVE  Cardinality(AcceptedFor(StatementSubject(i))) =
               IF i \in PaidStatements /\ statements[i].payer # Customer THEN 1 ELSE 0
  <2>1. PaidBy(FeeBy(i), EntriesOf(StatementKey(i)), AcceptedFor(StatementSubject(i)),
               StatementKey(i), FeeDelta(i))
    BY DEF PaidInv, StatementsPaid, FeesTypeOK
  <2>2. FeeBy(i) = "evidence" <=> i \in PaidStatements /\ statements[i].payer # Customer
    BY DEF FeeBy, PaidStatements
  <2>3. QED BY <1>1, <2>1, <2>2 DEF PaidBy
<1>4. QED BY <1>2, <1>3 DEF ReferencePaysOnce, OrderPaidOnce

\* A reference pays for one order or one statement, and what was paid was paid once, whichever
\* of the routes gets there first.
THEOREM ReferencesPayOnce == FeesSpec => []ReferencePaysOnce
<1>1. AccessInv => OrdersTypeOK BY DEF AccessInv
<1>2. WeeksInv => FeesTypeOK BY DEF WeeksInv
<1>3. FeesSpec => []PaidInv
  BY <1>1, <1>2, WeeksInvariant, AccessInvariant, PaidInit, PaidStep, PTL DEF FeesSpec, FeesStep
<1>4. QED BY <1>2, <1>3, WeeksInvariant, PaidImplies, PTL

-----------------------------------------------------------------------------
(* Profit is charged once *)

Bounded == -MaxNet .. MaxNet
Eligible == [i \in DOMAIN statements |-> statements[i].eligible]
PaidTotal == Total(Eligible, PaidStatements)

\* What a statement says of its own profit, and what it knows of the mark.
FigureOf(row) ==
  /\ row.cumulative \in Bounded
  /\ row.eligible = ProfitAbove(row.prior, row.cumulative)
  /\ row.status = "payment_pending" => mark = row.prior /\ row.eligible > 0
  /\ row.status \in Finished => row.cumulative <= mark

Figures == \A i \in DOMAIN statements : FigureOf(statements[i])
NetBounded == \A w \in Weeks : net[w] \in Bounded

\* The mark is there from the first statement on, and rose by what was charged.
MarkRose ==
  IF statements = <<>> THEN mark = NoMark ELSE mark \in Bounded /\ PaidTotal = mark - openingMark

ProfitInv == Figures /\ NetBounded /\ MarkRose

\* The property in terms of Total.
LEMMA PaidIsTotal ==
  MapThenSumSet(LAMBDA i : statements[i].eligible, PaidStatements) = PaidTotal
<1> DEFINE Sums(f) == f = [s \in SUBSET PaidStatements |->
             IF s = {} THEN 0 ELSE statements[Chosen(s)].eligible + f[s \ {Chosen(s)}]]
<1>1. MapThenSumSet(LAMBDA i : statements[i].eligible, PaidStatements)
        = (CHOOSE f : Sums(f))[PaidStatements]
  BY DEF MapThenSumSet, MapThenFoldSet, Chosen
<1>2. \A s \in SUBSET PaidStatements : s # {} => Chosen(s) \in DOMAIN statements
  BY DEF Chosen, PaidStatements
<1>3. ASSUME NEW f, NEW s \in SUBSET PaidStatements
      PROVE  (IF s = {} THEN 0 ELSE statements[Chosen(s)].eligible + f[s \ {Chosen(s)}]) =
             (IF s = {} THEN 0 ELSE Eligible[Chosen(s)] + f[s \ {Chosen(s)}])
  BY <1>2 DEF Eligible
<1>4. \A f : Sums(f) <=> SumsBy(f, Eligible, PaidStatements) BY <1>3 DEF SumsBy
<1>5. (CHOOSE f : Sums(f)) = (CHOOSE f : SumsBy(f, Eligible, PaidStatements))
  <2> HIDE DEF Sums
  <2>1. QED BY <1>4
<1>6. QED BY <1>1, <1>5, TotalIs DEF PaidTotal

\* The paid statements are finitely many and charged a natural number each.
LEMMA PaidFinite ==
  ASSUME FeesTypeOK
  PROVE  /\ IsFiniteSet(PaidStatements)
         /\ \A i \in PaidStatements : Eligible[i] \in Nat
         /\ PaidTotal \in Int
<1>1. statements \in Seq(StatementRow) BY DEF FeesTypeOK
<1>2. IsFiniteSet(1 .. Len(statements)) BY <1>1, FS_Interval
<1>3. PaidStatements \subseteq 1 .. Len(statements) BY <1>1 DEF PaidStatements
<1>4. IsFiniteSet(PaidStatements) BY <1>2, <1>3, FS_Subset
<1>5. \A i \in PaidStatements : Eligible[i] \in Nat
  <2>1. \A r \in StatementRow : r.eligible \in Nat BY DEF StatementRow
  <2>2. \A i \in DOMAIN statements : statements[i] \in StatementRow BY <1>1
  <2>3. QED BY <2>1, <2>2 DEF Eligible, PaidStatements
<1>6. \A i \in PaidStatements : Eligible[i] \in Int BY <1>5
<1>7. PaidTotal \in Int BY <1>4, <1>6, TotalType DEF PaidTotal
<1>8. QED BY <1>4, <1>5, <1>7

\* Whatever pays for no statement leaves the sum.
LEMMA PaidTotalStays ==
  ASSUME FeesTypeOK, PaidStatements' = PaidStatements,
         \A i \in PaidStatements : Eligible'[i] = Eligible[i]
  PROVE  PaidTotal' = PaidTotal
<1>1. IsFiniteSet(PaidStatements) /\ \A i \in PaidStatements : Eligible[i] \in Int /\ Eligible'[i] = Eligible[i]
  BY PaidFinite
<1>2. Total(Eligible', PaidStatements) = Total(Eligible, PaidStatements) BY <1>1, TotalSame
<1>3. QED BY <1>2 DEF PaidTotal

\* Steps that leave the statements, the mark and the book alone.
LEMMA ProfitStays == ProfitInv /\ UNCHANGED feeVars => ProfitInv'
BY DEF feeVars, ProfitInv, Figures, FigureOf, NetBounded, MarkRose, PaidTotal, Eligible,
   PaidStatements, Bounded

\* There is neither statement nor mark at first.
LEMMA ProfitInit == FeesInit => ProfitInv
<1> SUFFICES ASSUME FeesInit PROVE ProfitInv OBVIOUS
<1>1. 0 \in Bounded BY FeeConstants DEF FeeConstants, Bounded
<1>2. QED BY <1>1 DEF FeesInit, ProfitInv, Figures, NetBounded, MarkRose

\* A new statement takes its figures from the book and from the mark of now.
LEMMA ProfitGenerate ==
  ASSUME ProfitInv, FeesTypeOK, OrdersTypeOK, NEW s \in Staff, Generate(s)
  PROVE  ProfitInv'
<1> DEFINE w == clock - 1
           m == IF mark = NoMark THEN NetBefore(w) ELSE mark
           row == [week |-> w, status |-> "pending_review", cumulative |-> net[w],
                   weekNet |-> WeekNet(w), prior |-> m, eligible |-> ProfitAbove(m, net[w]),
                   generator |-> s, assessor |-> Nobody, payer |-> Nobody, refusers |-> {}]
           n == Len(statements)
<1>1. /\ statements \in Seq(StatementRow) /\ clock \in 0 .. MaxClock /\ MaxClock \in Nat
      /\ MaxNet \in Nat /\ openingMark \in Int
  BY OrderConstants, FeeConstants DEF OrderConstants, FeeConstants, FeesTypeOK, OrdersTypeOK
<1>2. /\ clock > 0 /\ statements' = Append(statements, row) /\ net' = net
      /\ mark' = m /\ openingMark' = IF mark = NoMark THEN m ELSE openingMark
  BY DEF Generate
<1>3. w \in Weeks /\ (w # 0 => w - 1 \in Weeks) BY <1>1, <1>2 DEF Weeks
<1>4. NetBefore(w) \in Bounded /\ net[w] \in Bounded
  BY <1>1, <1>3 DEF NetBefore, ProfitInv, NetBounded, Bounded
<1>5. mark = NoMark <=> statements = <<>>
  BY FeeConstants DEF FeeConstants, ProfitInv, MarkRose, NoMark, Bounded
<1>6. m \in Bounded BY <1>4, <1>5 DEF ProfitInv, MarkRose
<1>7. /\ row.status = "pending_review" /\ row.cumulative \in Bounded
      /\ row.eligible = ProfitAbove(row.prior, row.cumulative)
  BY <1>4
<1>8. m = mark \/ statements = <<>> BY <1>5
<1>9. IF statements = <<>> THEN openingMark' = m ELSE openingMark' = openingMark BY <1>2, <1>5
<1> HIDE DEF m, row
<1>10. /\ n \in Nat /\ DOMAIN statements = 1 .. n /\ DOMAIN statements' = 1 .. n + 1
       /\ statements'[n + 1] = row
       /\ \A j \in 1 .. n : statements'[j] = statements[j]
  BY <1>1, <1>2
<1>18. statements' # <<>> BY <1>10
<1> HIDE DEF n
<1>11. PaidStatements' = PaidStatements
  <2>1. \A i \in 1 .. n + 1 : i \in 1 .. n \/ i = n + 1 BY <1>10
  <2>2. \A i \in 1 .. n : i \in 1 .. n + 1 BY <1>10
  <2>3. QED BY <1>7, <1>10, <2>1, <2>2 DEF PaidStatements
<1>12. \A i \in PaidStatements : Eligible'[i] = Eligible[i] BY <1>10 DEF Eligible, PaidStatements
<1>13. PaidTotal' = PaidTotal BY <1>11, <1>12, PaidTotalStays
<1>14. Figures'
  <2>1. ASSUME NEW i \in 1 .. n PROVE FigureOf(statements[i])'
    <3>1. FigureOf(statements[i]) BY <1>10 DEF ProfitInv, Figures
    <3>2. mark' = mark BY <1>2, <1>8, <1>10
    <3>3. QED BY <1>10, <3>1, <3>2 DEF FigureOf, Bounded
  <2>2. ASSUME NEW i, i = n + 1 PROVE FigureOf(statements[i])'
    BY <1>7, <1>10, <2>2 DEF FigureOf, Finished, Bounded
  <2>3. \A i \in DOMAIN statements' : i \in 1 .. n \/ i = n + 1 BY <1>10
  <2>4. QED BY <2>1, <2>2, <2>3 DEF Figures
<1>15. MarkRose'
  <2>1. CASE statements = <<>>
    <3>1. PaidStatements = {} BY <2>1 DEF PaidStatements
    <3>2. PaidTotal = 0 BY <3>1, TotalEmpty DEF PaidTotal
    <3>3. QED BY <1>1, <1>2, <1>6, <1>9, <1>18, <1>13, <2>1, <3>2 DEF MarkRose, Bounded
  <2>2. CASE statements # <<>>
    BY <1>2, <1>6, <1>8, <1>9, <1>18, <1>13, <2>2 DEF MarkRose, ProfitInv, Bounded
  <2>3. QED BY <2>1, <2>2
<1>16. NetBounded' BY <1>2 DEF NetBounded, ProfitInv, Bounded
<1>17. QED BY <1>14, <1>15, <1>16 DEF ProfitInv

\* A statement moves on without being paid.
LEMMA ProfitQuiet ==
  ASSUME ProfitInv, FeesTypeOK, NEW i \in DOMAIN statements, NEW row,
         statements[i].status # "paid", row.status # "paid",
         row.eligible = statements[i].eligible, FigureOf(row),
         statements' = [statements EXCEPT ![i] = row], UNCHANGED <<net, mark, openingMark>>
  PROVE  ProfitInv'
<1>1. statements \in Seq(StatementRow) BY DEF FeesTypeOK
<1>2. /\ DOMAIN statements' = DOMAIN statements /\ statements'[i] = row
      /\ \A j \in DOMAIN statements \ {i} : statements'[j] = statements[j]
  OBVIOUS
<1>3. PaidStatements' = PaidStatements BY <1>2 DEF PaidStatements
<1>4. \A j \in PaidStatements : Eligible'[j] = Eligible[j] BY <1>2 DEF Eligible, PaidStatements
<1>5. PaidTotal' = PaidTotal BY <1>3, <1>4, PaidTotalStays
<1>6. Figures' BY <1>2 DEF ProfitInv, Figures, FigureOf, Bounded
<1>7. statements' # <<>> /\ statements # <<>> BY <1>1, <1>2
<1>8. QED BY <1>5, <1>6, <1>7 DEF ProfitInv, NetBounded, MarkRose, Bounded

\* A payment moves the mark by what it charges.
LEMMA ProfitSettled ==
  ASSUME ProfitInv, WeeksInv, NEW i \in DOMAIN statements, NEW payer,
         statements[i].status = "payment_pending", Settled(i, payer)
  PROVE  ProfitInv'
<1> DEFINE row == [statements[i] EXCEPT !.status = "paid", !.payer = payer]
<1>1. /\ statements \in Seq(StatementRow) /\ statements[i] \in StatementRow /\ mark \in Int
      /\ openingMark \in Int /\ FeesTypeOK
  BY DEF WeeksInv, FeesTypeOK
<1>2. /\ row.status = "paid" /\ row.eligible = statements[i].eligible
      /\ row.cumulative = statements[i].cumulative /\ row.prior = statements[i].prior
      /\ statements[i].cumulative \in Int
  BY <1>1 DEF StatementRow
<1>3. /\ statements' = [statements EXCEPT ![i] = row] /\ mark' = LaterOf(mark, statements[i].cumulative)
      /\ UNCHANGED <<net, openingMark>>
  BY <1>1 DEF Settled, MarkAfter
<1> HIDE DEF row
<1>4. /\ DOMAIN statements' = DOMAIN statements /\ statements'[i] = row
      /\ \A j \in DOMAIN statements \ {i} : statements'[j] = statements[j]
  BY <1>3
<1>5. FigureOf(statements[i]) BY DEF ProfitInv, Figures
<1>6. /\ mark' = statements[i].cumulative /\ mark' > mark
      /\ statements[i].eligible = mark' - mark /\ mark' \in Bounded
  BY <1>1, <1>2, <1>3, <1>5 DEF FigureOf, ProfitAbove, LaterOf
<1>7. IsFiniteSet(PaidStatements) /\ PaidTotal \in Int
      /\ \A j \in PaidStatements : Eligible[j] \in Int /\ Eligible'[j] = Eligible[j]
  <2>1. \A j \in PaidStatements : Eligible'[j] = Eligible[j] BY <1>4 DEF Eligible, PaidStatements
  <2>2. QED BY <1>1, <2>1, PaidFinite
<1>8. PaidStatements' = PaidStatements \cup {i} /\ i \notin PaidStatements
  BY <1>2, <1>4 DEF PaidStatements
<1>9. Eligible'[i] = mark' - mark BY <1>2, <1>4, <1>6 DEF Eligible
<1>10. PaidTotal' = PaidTotal + (mark' - mark)
  <2>1. \A j \in PaidStatements : Eligible'[j] \in Int BY <1>7
  <2>2. Eligible'[i] \in Int BY <1>1, <1>2, <1>6, <1>9
  <2>3. Total(Eligible', PaidStatements \cup {i}) = Total(Eligible', PaidStatements) + Eligible'[i]
    BY <1>7, <1>8, <2>1, <2>2, TotalAdd
  <2>4. Total(Eligible', PaidStatements) = Total(Eligible, PaidStatements) BY <1>7, TotalSame
  <2>5. QED BY <1>8, <1>9, <2>3, <2>4 DEF PaidTotal
<1>11. statements # <<>> /\ statements' # <<>> BY <1>1, <1>4
<1>12. MarkRose'
  <2>1. mark \in Int /\ mark' \in Int BY <1>1, <1>2, <1>6
  <2>2. PaidTotal = mark - openingMark BY <1>11 DEF ProfitInv, MarkRose
  <2>3. QED BY <1>1, <1>3, <1>6, <1>7, <1>10, <1>11, <2>1, <2>2 DEF MarkRose, Bounded
<1>13. Figures'
  <2>1. FigureOf(statements[i])'
    <3>1. /\ statements'[i].status = "paid" /\ statements'[i].cumulative = mark'
          /\ statements'[i].eligible = statements[i].eligible
          /\ statements'[i].prior = statements[i].prior
      BY <1>2, <1>4, <1>6
    <3>2. statements'[i].eligible = ProfitAbove(statements'[i].prior, statements'[i].cumulative)
      BY <1>5, <1>6, <3>1 DEF FigureOf
    <3>3. mark' \in Int BY <1>2, <1>6
    <3>4. QED BY <1>6, <3>1, <3>2, <3>3 DEF FigureOf, Finished, Bounded, ProfitAbove
  <2>2. ASSUME NEW j \in DOMAIN statements \ {i} PROVE FigureOf(statements[j])'
    <3>1. FigureOf(statements[j]) /\ statements'[j] = statements[j] BY <1>4 DEF ProfitInv, Figures
    <3>2. statements[j].status # "payment_pending"
      <4>1. j < i \/ i < j BY <1>1
      <4>2. QED BY <4>1 DEF WeeksInv, WeeksInSequence, Finished
    <3>3. statements[j].cumulative \in Int BY <3>1, FeeConstants DEF FigureOf, Bounded, FeeConstants
    <3>4. statements[j].cumulative <= mark => statements[j].cumulative <= mark'
      BY <1>1, <1>2, <1>6, <3>3
    <3>5. QED BY <3>1, <3>2, <3>4 DEF FigureOf, Bounded
  <2>3. QED BY <1>4, <2>1, <2>2 DEF Figures
<1>14. NetBounded' BY <1>3 DEF NetBounded, ProfitInv, Bounded
<1>15. QED BY <1>12, <1>13, <1>14 DEF ProfitInv

\* Every step of a statement: only its payment moves the mark.
LEMMA ProfitStatement ==
  ASSUME ProfitInv, WeeksInv, NEW i \in DOMAIN statements, StatementStep(i)
  PROVE  ProfitInv'
<1>1. /\ statements \in Seq(StatementRow) /\ statements[i] \in StatementRow /\ FeesTypeOK
      /\ FigureOf(statements[i]) /\ mark \in Int
  BY DEF WeeksInv, FeesTypeOK, ProfitInv, Figures
<1>2. ASSUME NEW s \in Staff, NEW approve \in BOOLEAN, Assess(i, s, approve) PROVE ProfitInv'
  <2> DEFINE status == IF ~approve THEN "rejected"
                       ELSE IF statements[i].eligible = 0 THEN "no_fee" ELSE "payment_pending"
             row == [statements[i] EXCEPT !.assessor = s, !.status = status]
  <2>1. /\ row.status = status /\ row.eligible = statements[i].eligible
        /\ row.cumulative = statements[i].cumulative /\ row.prior = statements[i].prior
        /\ statements[i].cumulative \in Int /\ statements[i].prior \in Int
        /\ statements[i].eligible \in Nat
    BY <1>1 DEF StatementRow
  <2>2. /\ statements' = [statements EXCEPT ![i] = row] /\ statements[i].status = "pending_review"
        /\ UNCHANGED <<net, mark, openingMark>> /\ mark = statements[i].prior
    BY <1>1, <1>2 DEF Assess, UpToDate
  <2>3. FigureOf(row) /\ row.status # "paid"
    <3>1. status \in {"rejected", "no_fee", "payment_pending"} OBVIOUS
    <3>2. status = "no_fee" => statements[i].cumulative <= mark
      BY <1>1, <2>1, <2>2 DEF FigureOf, ProfitAbove
    <3>3. status = "payment_pending" => statements[i].eligible > 0 BY <2>1
    <3> HIDE DEF status, row
    <3>4. QED BY <1>1, <2>1, <2>2, <3>1, <3>2, <3>3 DEF FigureOf, Finished
  <2> HIDE DEF row, status
  <2>4. QED BY <1>1, <2>1, <2>2, <2>3, ProfitQuiet
<1>3. ASSUME NEW ref \in References, NEW s \in Staff, RefusePayment(i, ref, s) PROVE ProfitInv'
  <2> DEFINE row == [statements[i] EXCEPT !.refusers = @ \cup {s}]
  <2>1. /\ row.status = statements[i].status /\ row.eligible = statements[i].eligible
        /\ row.cumulative = statements[i].cumulative /\ row.prior = statements[i].prior
    BY <1>1 DEF StatementRow
  <2>2. /\ statements' = [statements EXCEPT ![i] = row] /\ statements[i].status # "paid"
        /\ UNCHANGED <<net, mark, openingMark>>
    BY <1>1, <1>3 DEF RefusePayment, MayConfirm
  <2> HIDE DEF row
  <2>3. FigureOf(row) BY <1>1, <2>1 DEF FigureOf
  <2>4. QED BY <1>1, <2>1, <2>2, <2>3, ProfitQuiet
<1>4. ASSUME NEW ref \in References, NEW s \in Staff, ConfirmPayment(i, ref, s) PROVE ProfitInv'
  BY <1>4, ProfitSettled DEF ConfirmPayment, MayConfirm
<1>5. CASE PayFeeFromWallet(i) BY <1>5, ProfitSettled DEF PayFeeFromWallet, PayableStatement
<1>6. ASSUME UNCHANGED feeVars PROVE ProfitInv' BY <1>6, ProfitStays
<1>7. ASSUME NEW ref \in References, NEW s \in Staff, NEW matches \in BOOLEAN,
             RecordFeeEvidence(i, ref, s, matches)
      PROVE  ProfitInv'
  BY <1>6, <1>7 DEF RecordFeeEvidence
<1>8. QED BY <1>2, <1>3, <1>4, <1>5, <1>7 DEF StatementStep

\* Every step; a late trade changes the book and no statement.
LEMMA ProfitStep ==
  OrdersTypeOK /\ WeeksInv /\ ProfitInv /\ (FeesStep \/ UNCHANGED feeVars) => ProfitInv'
<1> SUFFICES ASSUME OrdersTypeOK, WeeksInv, ProfitInv, FeesStep \/ UNCHANGED feeVars
             PROVE  ProfitInv'
  OBVIOUS
<1>1. FeesTypeOK BY DEF WeeksInv
<1>2. ASSUME NEW w \in Weeks, NEW result \in Results, Realise(w, result) PROVE ProfitInv'
  <2>1. NetBounded' BY <1>2 DEF Realise, NetBounded, Bounded
  <2>2. UNCHANGED <<statements, mark, openingMark>> BY <1>2 DEF Realise
  <2>3. PaidTotal' = PaidTotal BY <2>2 DEF PaidTotal, Eligible, PaidStatements
  <2>4. QED BY <2>1, <2>2, <2>3 DEF ProfitInv, Figures, FigureOf, MarkRose, Bounded
<1>3. ASSUME NEW s \in Staff, Generate(s) PROVE ProfitInv' BY <1>1, <1>3, ProfitGenerate
<1>4. ASSUME NEW i \in DOMAIN statements, StatementStep(i) PROVE ProfitInv' BY <1>4, ProfitStatement
<1>5. CASE UNCHANGED feeVars BY <1>5, ProfitStays
<1>6. QED BY <1>2, <1>3, <1>4, <1>5 DEF FeesStep, FeesNext

\* The invariant says what the property says.
LEMMA ProfitImplies == ProfitInv => ProfitChargedOnce
BY PaidIsTotal DEF ProfitInv, MarkRose, Figures, FigureOf, ProfitChargedOnce

\* Every unit of profit is charged once, for any results, late trades, rejections and
\* replacements: what was paid adds up to the rise of the high-water mark
\* (generatePerformanceStatement, decidePerformanceAssessment and both payments of the fee services).
THEOREM ProfitsChargedOnce == FeesSpec => []ProfitChargedOnce
<1>1. AccessInv => OrdersTypeOK BY DEF AccessInv
<1>2. [FeesStep]_<<feeVars, orderVars>> => FeesStep \/ UNCHANGED feeVars OBVIOUS
<1>3. FeesSpec => []ProfitInv
  BY <1>1, <1>2, WeeksInvariant, AccessInvariant, ProfitInit, ProfitStep, PTL DEF FeesSpec, FeesStep
<1>4. QED BY <1>3, ProfitImplies, PTL

-----------------------------------------------------------------------------
(* The whole: each part's invariant is kept by the others' steps *)

\* A step of the whole is one of a part, and what is not its own stays.
LEMMA WholeStep ==
  [CommerceNext]_commerceVars =>
    /\ UNCHANGED focus
    /\ \/ CreditsNext /\ UNCHANGED <<depositOnly, feeVars, clock, orders, memberships, entitlements,
                                     evidence, ledgerVars>>
       \/ DepositsNext /\ UNCHANGED <<creditOnly, feeVars, clock, orders, memberships, entitlements,
                                      evidence, account, granted>>
       \/ FeesStep /\ UNCHANGED <<creditOnly, depositOnly>>
       \/ UNCHANGED commerceVars
<1> SUFFICES ASSUME [CommerceNext]_commerceVars, ~UNCHANGED commerceVars
             PROVE  /\ UNCHANGED focus
                    /\ \/ CreditsNext /\ UNCHANGED <<depositOnly, feeVars, clock, orders, memberships,
                                                     entitlements, evidence, ledgerVars>>
                       \/ DepositsNext /\ UNCHANGED <<creditOnly, feeVars, clock, orders, memberships,
                                                      entitlements, evidence, account, granted>>
                       \/ FeesStep /\ UNCHANGED <<creditOnly, depositOnly>>
  BY DEF commerceVars
<1>1. CASE Credits BY <1>1 DEF CommerceNext, Credits
<1>2. CASE Deposit BY <1>2 DEF CommerceNext, Deposit
<1>3. CASE Order
  <2>1. OrdersNext
    <3>1. ASSUME NEW o \in Orders, CreateOrder(o, "monthly") \/ PayOrderFromWallet(o)
          PROVE  OrdersNext
      BY <3>1 DEF OrdersNext, OrderStep, Plans
    <3>2. QED BY <1>3, <3>1 DEF Order, OrdersNext
  <2>2. QED BY <1>3, <2>1 DEF Order, FeesStep, CommerceNext
<1>4. CASE Fee BY <1>4 DEF Fee, FeesStep, CommerceNext
<1>5. QED BY <1>1, <1>2, <1>3, <1>4 DEF CommerceNext

\* Orders grant credits, statements nothing.
LEMMA FeesGrant == FeesStep => AddCredits(Grant) \/ UNCHANGED <<account, granted>>
<1> SUFFICES ASSUME FeesStep PROVE AddCredits(Grant) \/ UNCHANGED <<account, granted>> OBVIOUS
<1>1. ASSUME NEW o \in Orders, OrderStep(o) PROVE AddCredits(Grant) \/ UNCHANGED <<account, granted>>
  BY <1>1 DEF OrderStep, CreateOrder, RecordOrderEvidence, RejectOrder, ApproveOrder, SubmitOrder,
     PayOrderFromWallet, Entitle
<1>2. ASSUME NEW i \in DOMAIN statements, StatementStep(i) PROVE UNCHANGED <<account, granted>>
  BY <1>2 DEF StatementStep, Assess, RecordFeeEvidence, RefusePayment, ConfirmPayment,
     PayFeeFromWallet, Settled, orderVars
<1>3. ASSUME ActivateTrial \/ Tick \/ \E row \in Rows : EndPeriod(row)
      PROVE  UNCHANGED <<account, granted>>
  BY <1>3 DEF ActivateTrial, Tick, EndPeriod
<1>4. QED BY <1>1, <1>2, <1>3 DEF FeesStep, FeesNext, OrdersNext, Realise, Generate, orderVars

\* The requests for AI see the rest only through the grants.
LEMMA CreditsBeside ==
  ASSUME CreditInv, CreditsConserved, UNCHANGED creditOnly,
         AddCredits(Grant) \/ UNCHANGED <<account, granted>>
  PROVE  CreditInv' /\ CreditsConserved'
<1> USE CreditConstants DEF CreditConstants, CreditInv
<1>1. UNCHANGED <<inference, handler, adjustment, modelCalls, charged>> BY DEF creditOnly
<1>2. \E delta \in Nat : /\ account' = [available |-> account.available + delta,
                                        reserved |-> account.reserved + 0]
                         /\ granted' = granted + (delta + 0)
  <2>1. CASE AddCredits(Grant) BY <2>1 DEF AddCredits, Mutate
  <2>2. CASE UNCHANGED <<account, granted>>
    <3>1. account' = [available |-> account.available + 0, reserved |-> account.reserved + 0]
          /\ granted' = granted + (0 + 0)
      BY <2>2 DEF CreditsTypeOK
    <3>2. QED BY <3>1
  <2>3. QED BY <2>1, <2>2
<1>3. PICK delta \in Nat : /\ account' = [available |-> account.available + delta,
                                         reserved |-> account.reserved + 0]
                          /\ granted' = granted + (delta + 0)
  BY <1>2
<1>4. /\ account' \in [available : Nat, reserved : Nat] /\ account'.reserved = account.reserved
      /\ granted' \in Int
  BY <1>3 DEF CreditsTypeOK
<1>5. CreditsTypeOK' BY <1>1, <1>4 DEF CreditsTypeOK
<1>6. CreditInv' BY <1>1, <1>4, <1>5, RowsStay, HandlersStay
<1>7. CreditsConserved' BY <1>1, <1>3, ConservedByBalance
<1>8. QED BY <1>6, <1>7

\* What a transaction under one key leaves to the others.
LEMMA PostsElsewhere ==
  ASSUME NEW key, NEW payload, NEW delta, PostTransaction(key, payload, delta), NEW k, k # key
  PROVE  EntriesOf(k)' = EntriesOf(k)
<1> DEFINE entry == [key |-> key, payload |-> payload, delta |-> delta]
<1>1. journal' = journal \/ journal' = journal \cup {entry} BY DEF PostTransaction, ledgerVars
<1>2. entry.key = key OBVIOUS
<1> HIDE DEF entry
<1>3. QED BY <1>1, <1>2 DEF EntriesOf

\* The three kinds of transactions have keys of their own.
LEMMA KeysApart ==
  /\ \A d, o : DepositKey(d) # PurchaseKey(o)
  /\ \A d, i : DepositKey(d) # StatementKey(i)
  /\ \A o, i : PurchaseKey(o) # StatementKey(i)
BY DEF DepositKey, PurchaseKey, StatementKey

\* What a step does to the ledger.
LEMMA FeesPost ==
  ASSUME FeesStep
  PROVE  \/ UNCHANGED ledgerVars
         \/ \E o \in Orders, by \in {"wallet", "evidence"} : \E delta : PostTransaction(PurchaseKey(o), by, delta)
         \/ \E i \in DOMAIN statements, by \in {"wallet", "evidence"} : \E delta :
              PostTransaction(StatementKey(i), by, delta)
<1>1. ASSUME NEW o \in Orders, OrderStep(o)
      PROVE  \/ UNCHANGED ledgerVars
             \/ \E by \in {"wallet", "evidence"} : \E delta : PostTransaction(PurchaseKey(o), by, delta)
  <2>1. CASE PayOrderFromWallet(o) BY <2>1 DEF PayOrderFromWallet
  <2>2. CASE \E ref \in References, s \in Staff : ApproveOrder(o, ref, s) BY <2>2 DEF ApproveOrder
  <2>3. QED BY <1>1, <2>1, <2>2
            DEF OrderStep, CreateOrder, RecordOrderEvidence, RejectOrder, SubmitOrder
<1>2. ASSUME NEW i \in DOMAIN statements, StatementStep(i)
      PROVE  \/ UNCHANGED ledgerVars
             \/ \E by \in {"wallet", "evidence"} : \E delta : PostTransaction(StatementKey(i), by, delta)
  <2>1. CASE PayFeeFromWallet(i) BY <2>1 DEF PayFeeFromWallet
  <2>2. CASE \E ref \in References, s \in Staff : ConfirmPayment(i, ref, s) BY <2>2 DEF ConfirmPayment
  <2>3. QED BY <1>2, <2>1, <2>2 DEF StatementStep, Assess, RecordFeeEvidence, RefusePayment, orderVars
<1>3. ASSUME ActivateTrial \/ Tick \/ \E row \in Rows : EndPeriod(row) PROVE UNCHANGED ledgerVars
  BY <1>3 DEF ActivateTrial, Tick, EndPeriod
<1>4. QED BY <1>1, <1>2, <1>3 DEF FeesStep, FeesNext, OrdersNext, Realise, Generate, orderVars

\* A deposit posts only when it is credited.
LEMMA DepositsPost ==
  DepositsNext => \/ UNCHANGED ledgerVars
                  \/ \E q \in Tickets, c \in Clerks : ApproveCredit(q, c)
BY DEF DepositsNext, CheckDeposit, ReserveDeposit, AskAddress, StoreAddress, CreatorDies, Send,
   AskAction, Callback, CloseWithoutFunds, RestOfDeposits

\* The deposits see the rest only through the journal.
LEMMA DepositsBeside ==
  ASSUME DepositInv, UNCHANGED depositOnly, UNCHANGED ledgerVars \/ FeesStep
  PROVE  DepositInv'
<1>1. \A d \in DepositOrders : EntriesOf(DepositKey(d))' = EntriesOf(DepositKey(d))
  <2>1. CASE UNCHANGED ledgerVars BY <2>1 DEF ledgerVars, EntriesOf, DepositKey
  <2>2. CASE FeesStep
    <3> SUFFICES ASSUME NEW d \in DepositOrders
                 PROVE  EntriesOf(DepositKey(d))' = EntriesOf(DepositKey(d))
      OBVIOUS
    <3> DEFINE k == DepositKey(d)
    <3>1. \A o, i : PurchaseKey(o) # k /\ StatementKey(i) # k BY KeysApart
    <3>2. k' = k BY DEF DepositKey
    <3> HIDE DEF k
    <3>3. EntriesOf(k)' = EntriesOf(k)
      <4>1. UNCHANGED ledgerVars => EntriesOf(k)' = EntriesOf(k) BY <3>2 DEF ledgerVars, EntriesOf
      <4>2. QED BY <2>2, <3>1, <4>1, FeesPost, PostsElsewhere
    <3>4. QED BY <3>3 DEF k
  <2>3. QED BY <2>1, <2>2
<1>2. UNCHANGED <<deposit, creator, addressCalls, transfer, seen, ticket>> BY DEF depositOnly
<1>3. EntryIffCredited' BY <1>1, <1>2 DEF DepositInv, FundsInv, EntryIffCredited, DepositKey
<1>4. QED BY <1>2, <1>3 DEF DepositInv, DepositsTypeOK, TicketsName, AddressInv, OneOpen, AsksOnce,
   OpenOrders, FundsInv, ReviewKnows, SentHasTx, OneOrderPerTx

\* Payments see the deposits only through the journal.
LEMMA PaidBeside ==
  ASSUME PaidInv, UNCHANGED <<orders, statements, evidence>>, UNCHANGED ledgerVars \/ DepositsNext
  PROVE  PaidInv'
<1>1. ASSUME NEW k, \A d : DepositKey(d) # k PROVE EntriesOf(k)' = EntriesOf(k)
  <2>1. UNCHANGED ledgerVars => EntriesOf(k)' = EntriesOf(k) BY DEF ledgerVars, EntriesOf
  <2>2. QED BY <1>1, <2>1, DepositsPost, PostsElsewhere DEF ApproveCredit
<1>2. \A x : /\ EntriesOf(PurchaseKey(x))' = EntriesOf(PurchaseKey(x))
             /\ EntriesOf(StatementKey(x))' = EntriesOf(StatementKey(x))
  <2>1. SUFFICES ASSUME NEW x
                 PROVE  /\ EntriesOf(PurchaseKey(x))' = EntriesOf(PurchaseKey(x))
                        /\ EntriesOf(StatementKey(x))' = EntriesOf(StatementKey(x))
    OBVIOUS
  <2> DEFINE p == PurchaseKey(x)
             s == StatementKey(x)
  <2>2. \A d : DepositKey(d) # p /\ DepositKey(d) # s BY KeysApart
  <2>3. p' = p /\ s' = s BY DEF PurchaseKey, StatementKey
  <2> HIDE DEF p, s
  <2>4. EntriesOf(p)' = EntriesOf(p) /\ EntriesOf(s)' = EntriesOf(s) BY <1>1, <2>2
  <2>5. QED BY <2>4 DEF p, s
<1>3. EvidenceTyped' /\ Len(statements)' <= MaxStatements BY DEF PaidInv, EvidenceTyped
<1>4. QED BY <1>2, <1>3, QuietSides, PaidKeepsEntries DEF PaidInv

\* Statements need nothing but their own rows.
LEMMA WeeksBeside == WeeksInv /\ UNCHANGED feeVars => WeeksInv'
BY DEF feeVars, WeeksInv, FeesTypeOK, WeeksInSequence

-----------------------------------------------------------------------------
(* The wallet holds what the sums say *)

DepositAmounts == [d \in DepositOrders |-> deposit[d].amount]
OrderPrices == [o \in Orders |-> Price[orders[o].plan]]
WalletOrders == {o \in Activated : orders[o].route = "wallet"}
WalletStatements == {i \in PaidStatements : statements[i].payer = Customer}

CreditedTotal == Total(DepositAmounts, Credited)
OrdersTotal == Total(OrderPrices, WalletOrders)
StatementsTotal == Total(Eligible, WalletStatements)

WalletInv ==
  /\ IsFiniteSet(Credited) /\ IsFiniteSet(WalletOrders)
  /\ wallet \in Nat
  /\ wallet = OpeningWallet + CreditedTotal - OrdersTotal - StatementsTotal

\* The property in terms of Total.
LEMMA CreditedIsTotal ==
  MapThenSumSet(LAMBDA d : deposit[d].amount, Credited) = CreditedTotal
<1> DEFINE Sums(f) == f = [s \in SUBSET Credited |->
             IF s = {} THEN 0 ELSE deposit[Chosen(s)].amount + f[s \ {Chosen(s)}]]
<1>1. MapThenSumSet(LAMBDA d : deposit[d].amount, Credited) = (CHOOSE f : Sums(f))[Credited]
  BY DEF MapThenSumSet, MapThenFoldSet, Chosen
<1>2. \A s \in SUBSET Credited : s # {} => Chosen(s) \in DepositOrders BY DEF Chosen, Credited
<1>3. ASSUME NEW f, NEW s \in SUBSET Credited
      PROVE  (IF s = {} THEN 0 ELSE deposit[Chosen(s)].amount + f[s \ {Chosen(s)}]) =
             (IF s = {} THEN 0 ELSE DepositAmounts[Chosen(s)] + f[s \ {Chosen(s)}])
  BY <1>2 DEF DepositAmounts
<1>4. \A f : Sums(f) <=> SumsBy(f, DepositAmounts, Credited) BY <1>3 DEF SumsBy
<1>5. (CHOOSE f : Sums(f)) = (CHOOSE f : SumsBy(f, DepositAmounts, Credited))
  <2> HIDE DEF Sums
  <2>1. QED BY <1>4
<1>6. QED BY <1>1, <1>5, TotalIs DEF CreditedTotal

\* The same of the orders.
LEMMA OrdersIsTotal ==
  MapThenSumSet(LAMBDA o : Price[orders[o].plan], WalletOrders) = OrdersTotal
<1> DEFINE Sums(f) == f = [s \in SUBSET WalletOrders |->
             IF s = {} THEN 0 ELSE Price[orders[Chosen(s)].plan] + f[s \ {Chosen(s)}]]
<1>1. MapThenSumSet(LAMBDA o : Price[orders[o].plan], WalletOrders)
        = (CHOOSE f : Sums(f))[WalletOrders]
  BY DEF MapThenSumSet, MapThenFoldSet, Chosen
<1>2. \A s \in SUBSET WalletOrders : s # {} => Chosen(s) \in Orders
  BY DEF Chosen, WalletOrders, Activated
<1>3. ASSUME NEW f, NEW s \in SUBSET WalletOrders
      PROVE  (IF s = {} THEN 0 ELSE Price[orders[Chosen(s)].plan] + f[s \ {Chosen(s)}]) =
             (IF s = {} THEN 0 ELSE OrderPrices[Chosen(s)] + f[s \ {Chosen(s)}])
  BY <1>2 DEF OrderPrices
<1>4. \A f : Sums(f) <=> SumsBy(f, OrderPrices, WalletOrders) BY <1>3 DEF SumsBy
<1>5. (CHOOSE f : Sums(f)) = (CHOOSE f : SumsBy(f, OrderPrices, WalletOrders))
  <2> HIDE DEF Sums
  <2>1. QED BY <1>4
<1>6. QED BY <1>1, <1>5, TotalIs DEF OrdersTotal

\* And of the statements.
LEMMA StatementsIsTotal ==
  MapThenSumSet(LAMBDA i : statements[i].eligible, WalletStatements) = StatementsTotal
<1> DEFINE Sums(f) == f = [s \in SUBSET WalletStatements |->
             IF s = {} THEN 0 ELSE statements[Chosen(s)].eligible + f[s \ {Chosen(s)}]]
<1>1. MapThenSumSet(LAMBDA i : statements[i].eligible, WalletStatements)
        = (CHOOSE f : Sums(f))[WalletStatements]
  BY DEF MapThenSumSet, MapThenFoldSet, Chosen
<1>2. \A s \in SUBSET WalletStatements : s # {} => Chosen(s) \in DOMAIN statements
  BY DEF Chosen, WalletStatements, PaidStatements
<1>3. ASSUME NEW f, NEW s \in SUBSET WalletStatements
      PROVE  (IF s = {} THEN 0 ELSE statements[Chosen(s)].eligible + f[s \ {Chosen(s)}]) =
             (IF s = {} THEN 0 ELSE Eligible[Chosen(s)] + f[s \ {Chosen(s)}])
  BY <1>2 DEF Eligible
<1>4. \A f : Sums(f) <=> SumsBy(f, Eligible, WalletStatements) BY <1>3 DEF SumsBy
<1>5. (CHOOSE f : Sums(f)) = (CHOOSE f : SumsBy(f, Eligible, WalletStatements))
  <2> HIDE DEF Sums
  <2>1. QED BY <1>4
<1>6. QED BY <1>1, <1>5, TotalIs DEF StatementsTotal

\* The invariant says what the property says.
LEMMA WalletImplies == WalletInv => WalletMatchesPayments
BY CreditedIsTotal, OrdersIsTotal, StatementsIsTotal
DEF WalletInv, WalletMatchesPayments, WalletOrders, WalletStatements

\* What is summed are integers.
LEMMA AmountsAreInts ==
  /\ DepositsTypeOK => \A d \in DepositOrders : deposit[d].amount \in Int
  /\ OrdersTypeOK => \A o \in Orders : orders[o].plan \in Plans /\ Price[orders[o].plan] \in Int
  /\ FeesTypeOK => /\ IsFiniteSet(WalletStatements)
                   /\ \A i \in DOMAIN statements : statements[i].eligible \in Int
<1>1. ASSUME DepositsTypeOK PROVE \A d \in DepositOrders : deposit[d].amount \in Int
  <2>1. \A a \in Amounts : a \in Int BY DepositConstants DEF DepositConstants, Amounts
  <2>2. \A row \in DepositRow : row.amount \in Int BY <2>1 DEF DepositRow
  <2>3. QED BY <1>1, <2>2 DEF DepositsTypeOK
<1>2. ASSUME OrdersTypeOK
      PROVE  \A o \in Orders : orders[o].plan \in Plans /\ Price[orders[o].plan] \in Int
  <2>1. \A row \in OrderRow : row.plan \in Plans BY DEF OrderRow
  <2>2. \A p \in Plans : Price[p] \in Int BY OrderConstants DEF OrderConstants
  <2>3. QED BY <1>2, <2>1, <2>2 DEF OrdersTypeOK, OrderRow
<1>3. ASSUME FeesTypeOK
      PROVE  /\ IsFiniteSet(WalletStatements)
             /\ \A i \in DOMAIN statements : statements[i].eligible \in Int
  <2>1. IsFiniteSet(WalletStatements)
    <3>1. WalletStatements \subseteq PaidStatements BY DEF WalletStatements
    <3>2. QED BY <1>3, <3>1, PaidFinite, FS_Subset
  <2>2. \A row \in StatementRow : row.eligible \in Int BY DEF StatementRow
  <2>3. \A i \in DOMAIN statements : statements[i] \in StatementRow BY <1>3 DEF FeesTypeOK
  <2>4. QED BY <2>1, <2>2, <2>3
<1>4. QED BY <1>1, <1>2, <1>3

\* The one entry of a key tells what was paid and how.
Entry(k, payload, delta) == {[key |-> k, payload |-> payload, delta |-> delta]}

\* Two equal entries agree on both.
LEMMA SameEntry ==
  /\ \A k, p, d : Entry(k, p, d) # {}
  /\ \A k, p, d, q, f : Entry(k, p, d) = Entry(k, q, f) => p = q /\ d = f
<1>1. ASSUME NEW k, NEW p, NEW d, NEW q, NEW f, Entry(k, p, d) = Entry(k, q, f)
      PROVE  p = q /\ d = f
  <2> DEFINE row == [key |-> k, payload |-> p, delta |-> d]
             other == [key |-> k, payload |-> q, delta |-> f]
  <2>1. row.payload = p /\ row.delta = d /\ other.payload = q /\ other.delta = f OBVIOUS
  <2>2. {row} = {other} BY <1>1 DEF Entry
  <2> HIDE DEF row, other
  <2>3. row = other BY <2>2
  <2>4. QED BY <2>1, <2>3
<1>2. QED BY <1>1 DEF Entry

\* Where the entry of an order did not change, what it credited did not.
LEMMA CreditedOne ==
  ASSUME DepositInv, DepositInv', NEW d \in DepositOrders,
         EntriesOf(DepositKey(d))' = EntriesOf(DepositKey(d))
  PROVE  /\ d \in Credited' <=> d \in Credited
         /\ d \in Credited => deposit'[d].amount = deposit[d].amount
<1>1. EntriesOf(DepositKey(d)) =
        IF deposit[d].status # "CREDITED" THEN {}
        ELSE Entry(DepositKey(d), "credit", deposit[d].amount)
  BY DEF DepositInv, FundsInv, EntryIffCredited, Entry
<1>2. EntriesOf(DepositKey(d)) =
        IF deposit'[d].status # "CREDITED" THEN {}
        ELSE Entry(DepositKey(d), "credit", deposit'[d].amount)
  BY DEF DepositInv, FundsInv, EntryIffCredited, DepositKey, Entry
<1>3. QED BY <1>1, <1>2, SameEntry DEF Credited

\* Nor what the wallet paid for an order.
LEMMA OrderOne ==
  ASSUME PaidInv, PaidInv', OrdersTypeOK, OrdersTypeOK', NEW o \in Orders,
         EntriesOf(PurchaseKey(o))' = EntriesOf(PurchaseKey(o))
  PROVE  /\ o \in WalletOrders' <=> o \in WalletOrders
         /\ o \in WalletOrders => Price[orders'[o].plan] = Price[orders[o].plan]
<1> DEFINE p == Price[orders[o].plan]
           q == Price[orders'[o].plan]
<1>1. EntriesOf(PurchaseKey(o)) =
        IF orders[o].route = "none" THEN {}
        ELSE Entry(PurchaseKey(o), orders[o].route, OrderDelta(o))
  BY DEF PaidInv, OrdersPaid, PaidBy, Entry
<1>2. EntriesOf(PurchaseKey(o)) =
        IF orders'[o].route = "none" THEN {}
        ELSE Entry(PurchaseKey(o), orders'[o].route, OrderDelta(o)')
  BY DEF PaidInv, OrdersPaid, PaidBy, PurchaseKey, Entry
<1>3. o \in WalletOrders <=> orders[o].route = "wallet"
  BY DEF PaidInv, RoutesOfActivated, WalletOrders, Activated
<1>4. o \in WalletOrders' <=> orders'[o].route = "wallet"
  BY DEF PaidInv, RoutesOfActivated, WalletOrders, Activated
<1>5. p \in Int BY AmountsAreInts
<1>6. q \in Int
  <2>1. \A row \in OrderRow : row.plan \in Plans BY DEF OrderRow
  <2>2. orders'[o] \in OrderRow BY DEF OrdersTypeOK, OrderRow
  <2>3. QED BY <2>1, <2>2, OrderConstants DEF OrderConstants
<1>7. orders[o].route = "wallet" => OrderDelta(o) = -p BY DEF OrderDelta, DeltaOf
<1>8. orders'[o].route = "wallet" => OrderDelta(o)' = -q BY DEF OrderDelta, DeltaOf
<1> HIDE DEF p, q
<1>14. /\ orders[o].route = "none" <=> orders'[o].route = "none"
       /\ orders[o].route # "none" =>
            orders[o].route = orders'[o].route /\ OrderDelta(o) = OrderDelta(o)'
  BY <1>1, <1>2, SameEntry
<1>9. o \in WalletOrders' <=> o \in WalletOrders BY <1>14, <1>3, <1>4
<1>10. o \in WalletOrders => OrderDelta(o)' = OrderDelta(o) BY <1>14, <1>3
<1>11. o \in WalletOrders => -p = -q BY <1>3, <1>4, <1>7, <1>8, <1>9, <1>10
<1>12. o \in WalletOrders => q = p BY <1>5, <1>6, <1>11
<1>13. QED BY <1>9, <1>12 DEF p, q

\* Nor for a statement.
LEMMA StatementOne ==
  ASSUME PaidInv, PaidInv', FeesTypeOK, FeesTypeOK', NEW i \in Nat,
         EntriesOf(StatementKey(i))' = EntriesOf(StatementKey(i))
  PROVE  /\ i \in WalletStatements' <=> i \in WalletStatements
         /\ i \in WalletStatements => statements'[i].eligible = statements[i].eligible
<1> DEFINE p == statements[i].eligible
           q == statements'[i].eligible
<1>1. EntriesOf(StatementKey(i)) =
        IF FeeBy(i) = "none" THEN {}
        ELSE Entry(StatementKey(i), FeeBy(i), FeeDelta(i))
  BY DEF PaidInv, StatementsPaid, PaidBy, Entry
<1>2. EntriesOf(StatementKey(i)) =
        IF FeeBy(i)' = "none" THEN {}
        ELSE Entry(StatementKey(i), FeeBy(i)', FeeDelta(i)')
  BY DEF PaidInv, StatementsPaid, PaidBy, StatementKey, Entry
<1>3. i \in WalletStatements <=> FeeBy(i) = "wallet" BY DEF FeeBy, WalletStatements, PaidStatements
<1>4. i \in WalletStatements' <=> FeeBy(i)' = "wallet"
  BY DEF FeeBy, WalletStatements, PaidStatements
<1>5. i \in WalletStatements => p \in Int
  BY AmountsAreInts DEF WalletStatements, PaidStatements
<1>6. i \in WalletStatements' => q \in Int
  <2>1. \A row \in StatementRow : row.eligible \in Int BY DEF StatementRow
  <2>2. \A j \in DOMAIN statements' : statements'[j] \in StatementRow BY DEF FeesTypeOK
  <2>3. QED BY <2>1, <2>2 DEF WalletStatements, PaidStatements
<1>7. FeeBy(i) = "wallet" => FeeDelta(i) = -p BY DEF FeeDelta
<1>8. FeeBy(i)' = "wallet" => FeeDelta(i)' = -q BY DEF FeeDelta
<1> HIDE DEF p, q
<1>14. /\ FeeBy(i) = "none" <=> FeeBy(i)' = "none"
       /\ FeeBy(i) # "none" => FeeBy(i) = FeeBy(i)' /\ FeeDelta(i) = FeeDelta(i)'
  BY <1>1, <1>2, SameEntry
<1>9. i \in WalletStatements' <=> i \in WalletStatements BY <1>14, <1>3, <1>4
<1>10. i \in WalletStatements => FeeDelta(i)' = FeeDelta(i) BY <1>14, <1>3
<1>11. i \in WalletStatements => -p = -q BY <1>3, <1>4, <1>7, <1>8, <1>9, <1>10
<1>12. i \in WalletStatements => q = p BY <1>5, <1>6, <1>9, <1>11
<1>13. QED BY <1>9, <1>12 DEF p, q

\* The sets and sums follow from the entries: where no entry came, nothing changed.
LEMMA CreditedStays ==
  ASSUME DepositInv, DepositInv', IsFiniteSet(Credited),
         \A d \in DepositOrders : EntriesOf(DepositKey(d))' = EntriesOf(DepositKey(d))
  PROVE  Credited' = Credited /\ CreditedTotal' = CreditedTotal
<1>1. \A d \in DepositOrders :
        /\ d \in Credited' <=> d \in Credited
        /\ d \in Credited => deposit'[d].amount = deposit[d].amount
  BY CreditedOne
<1>2. Credited' = Credited BY <1>1 DEF Credited
<1>3. \A d \in Credited : DepositAmounts[d] \in Int /\ DepositAmounts'[d] = DepositAmounts[d]
  BY <1>1, AmountsAreInts DEF DepositInv, DepositAmounts, Credited
<1>4. Total(DepositAmounts', Credited) = Total(DepositAmounts, Credited) BY <1>3, TotalSame
<1>5. QED BY <1>2, <1>4 DEF CreditedTotal

\* The same of the orders' entries.
LEMMA OrdersStay ==
  ASSUME PaidInv, PaidInv', OrdersTypeOK, OrdersTypeOK', IsFiniteSet(WalletOrders),
         \A o \in Orders : EntriesOf(PurchaseKey(o))' = EntriesOf(PurchaseKey(o))
  PROVE  WalletOrders' = WalletOrders /\ OrdersTotal' = OrdersTotal
<1>1. \A o \in Orders : /\ o \in WalletOrders' <=> o \in WalletOrders
                        /\ o \in WalletOrders => Price[orders'[o].plan] = Price[orders[o].plan]
  BY OrderOne
<1>2. WalletOrders' = WalletOrders BY <1>1 DEF WalletOrders, Activated
<1>3. \A o \in WalletOrders : OrderPrices[o] \in Int /\ OrderPrices'[o] = OrderPrices[o]
  <2>1. \A o \in WalletOrders : o \in Orders BY DEF WalletOrders, Activated
  <2>2. QED BY <1>1, <2>1, AmountsAreInts DEF OrderPrices
<1>4. Total(OrderPrices', WalletOrders) = Total(OrderPrices, WalletOrders) BY <1>3, TotalSame
<1>5. QED BY <1>2, <1>4 DEF OrdersTotal

\* And of the statements'.
LEMMA StatementsStay ==
  ASSUME PaidInv, PaidInv', FeesTypeOK, FeesTypeOK',
         \A i \in Nat : EntriesOf(StatementKey(i))' = EntriesOf(StatementKey(i))
  PROVE  StatementsTotal' = StatementsTotal
<1>1. \A i \in Nat : /\ i \in WalletStatements' <=> i \in WalletStatements
                     /\ i \in WalletStatements => statements'[i].eligible = statements[i].eligible
  BY StatementOne
<1>2. /\ \A i \in WalletStatements : i \in Nat /\ i \in DOMAIN statements
      /\ \A i \in WalletStatements' : i \in Nat /\ i \in DOMAIN statements'
  BY DEF WalletStatements, PaidStatements, FeesTypeOK
<1>3. WalletStatements' = WalletStatements BY <1>1, <1>2
<1>4. \A i \in WalletStatements : Eligible[i] \in Int /\ Eligible'[i] = Eligible[i]
  BY <1>1, <1>2, <1>3, AmountsAreInts DEF Eligible
<1>5. IsFiniteSet(WalletStatements) BY AmountsAreInts
<1>6. Total(Eligible', WalletStatements) = Total(Eligible, WalletStatements)
  BY <1>4, <1>5, TotalSame
<1>7. QED BY <1>3, <1>6 DEF StatementsTotal

\* A transaction under a key without entry moves the wallet by its delta.
LEMMA PostMoves ==
  ASSUME NEW key, NEW payload, NEW delta \in Int, wallet \in Nat, PostTransaction(key, payload, delta)
  PROVE  \/ UNCHANGED ledgerVars
         \/ /\ EntriesOf(key) = {} /\ EntriesOf(key)' = Entry(key, payload, delta)
            /\ wallet' = wallet + delta /\ wallet' \in Nat
<1> SUFFICES ASSUME ~UNCHANGED ledgerVars
             PROVE  /\ EntriesOf(key) = {} /\ EntriesOf(key)' = Entry(key, payload, delta)
                    /\ wallet' = wallet + delta /\ wallet' \in Nat
  OBVIOUS
<1>1. EntriesOf(key) = {} /\ wallet' = wallet + delta /\ wallet + delta >= 0
  BY DEF PostTransaction, Covers
<1>2. EntriesOf(key)' = Entry(key, payload, delta) BY <1>1, PostsOnce DEF Entry
<1>3. QED BY <1>1, <1>2

\* The credit of a deposit adds its amount.
LEMMA CreditedAdds ==
  ASSUME DepositInv, DepositInv', IsFiniteSet(Credited), NEW d \in DepositOrders,
         d \notin Credited, d \in Credited',
         \A e \in DepositOrders \ {d} : EntriesOf(DepositKey(e))' = EntriesOf(DepositKey(e))
  PROVE  /\ IsFiniteSet(Credited') /\ CreditedTotal \in Int
         /\ CreditedTotal' = CreditedTotal + deposit'[d].amount
<1>1. \A e \in DepositOrders \ {d} :
        /\ e \in Credited' <=> e \in Credited
        /\ e \in Credited => deposit'[e].amount = deposit[e].amount
  BY CreditedOne
<1>2. Credited' = Credited \cup {d} BY <1>1 DEF Credited
<1>3. \A e \in Credited : DepositAmounts[e] \in Int /\ DepositAmounts'[e] = DepositAmounts[e]
  BY <1>1, AmountsAreInts DEF DepositInv, DepositAmounts, Credited
<1>4. DepositAmounts'[d] = deposit'[d].amount /\ deposit'[d].amount \in Int
  <2>1. \A a \in Amounts : a \in Int BY DepositConstants DEF DepositConstants, Amounts
  <2>2. \A row \in DepositRow : row.amount \in Int BY <2>1 DEF DepositRow
  <2>3. deposit'[d] \in DepositRow BY DEF DepositInv, DepositsTypeOK
  <2>4. QED BY <2>2, <2>3 DEF DepositAmounts
<1>5. Total(DepositAmounts', Credited) = Total(DepositAmounts, Credited) BY <1>3, TotalSame
<1>6. \A e \in Credited : DepositAmounts'[e] \in Int BY <1>3
<1>7. Total(DepositAmounts', Credited \cup {d}) = Total(DepositAmounts', Credited) + deposit'[d].amount
  BY <1>4, <1>6, TotalAdd
<1>8. Total(DepositAmounts, Credited) \in Int BY <1>3, TotalType
<1>9. IsFiniteSet(Credited') BY <1>2, FS_AddElement
<1>10. QED BY <1>2, <1>5, <1>7, <1>8, <1>9 DEF CreditedTotal

\* An order takes from the wallet what its transaction says.
LEMMA OrdersAdd ==
  ASSUME PaidInv, PaidInv', OrdersTypeOK, OrdersTypeOK', IsFiniteSet(WalletOrders),
         NEW o \in Orders, NEW by \in {"wallet", "evidence"}, NEW delta,
         EntriesOf(PurchaseKey(o)) = {}, EntriesOf(PurchaseKey(o))' = Entry(PurchaseKey(o), by, delta),
         \A p \in Orders \ {o} : EntriesOf(PurchaseKey(p))' = EntriesOf(PurchaseKey(p))
  PROVE  /\ IsFiniteSet(WalletOrders') /\ OrdersTotal \in Int /\ delta \in Int
         /\ OrdersTotal' = OrdersTotal - delta
<1> DEFINE q == Price[orders'[o].plan]
<1>1. orders[o].route = "none" BY DEF PaidInv, OrdersPaid, PaidBy
<1>2. orders'[o].route = by /\ OrderDelta(o)' = delta
  <2> DEFINE key == PurchaseKey(o)
             route == orders'[o].route
             charged2 == OrderDelta(o)'
  <2>1. EntriesOf(key)' = IF route = "none" THEN {} ELSE Entry(key, route, charged2)
    BY DEF PaidInv, OrdersPaid, PaidBy, PurchaseKey, Entry
  <2>2. EntriesOf(key)' = Entry(key, by, delta) OBVIOUS
  <2> HIDE DEF key, route, charged2
  <2>3. route # "none" /\ Entry(key, route, charged2) = Entry(key, by, delta)
    BY <2>1, <2>2, SameEntry
  <2>4. route = by /\ charged2 = delta BY <2>3, SameEntry
  <2>5. QED BY <2>4 DEF route, charged2
<1>3. q \in Int
  <2>1. \A row \in OrderRow : row.plan \in Plans BY DEF OrderRow
  <2>2. orders'[o] \in OrderRow BY DEF OrdersTypeOK, OrderRow
  <2>3. QED BY <2>1, <2>2, OrderConstants DEF OrderConstants
<1>4. delta = IF by = "wallet" THEN -q ELSE 0 BY <1>2 DEF OrderDelta, DeltaOf
<1>5. OrderPrices'[o] = q BY DEF OrderPrices
<1> HIDE DEF q
<1>6. ASSUME NEW p \in Orders, p # o
      PROVE  /\ p \in WalletOrders' <=> p \in WalletOrders
             /\ p \in WalletOrders => Price[orders'[p].plan] = Price[orders[p].plan]
  <2>1. EntriesOf(PurchaseKey(p))' = EntriesOf(PurchaseKey(p)) BY <1>6
  <2>2. QED BY <2>1, OrderOne
<1>7. o \notin WalletOrders BY <1>1 DEF WalletOrders
<1>8. o \in WalletOrders' <=> by = "wallet"
  BY <1>2 DEF PaidInv, RoutesOfActivated, WalletOrders, Activated
<1>9. WalletOrders \subseteq Orders /\ WalletOrders' \subseteq Orders BY DEF WalletOrders, Activated
<1>10. WalletOrders' = WalletOrders \cup (IF by = "wallet" THEN {o} ELSE {})
  <2> SUFFICES ASSUME NEW p
               PROVE  p \in WalletOrders' <=> p \in WalletOrders \/ (p = o /\ by = "wallet")
    OBVIOUS
  <2>1. CASE p = o BY <1>7, <1>8, <2>1
  <2>2. CASE p # o
    <3>1. p \in Orders => (p \in WalletOrders' <=> p \in WalletOrders) BY <1>6, <2>2
    <3>2. p \notin Orders => p \notin WalletOrders' /\ p \notin WalletOrders BY <1>9
    <3>3. QED BY <2>2, <3>1, <3>2
  <2>3. QED BY <2>1, <2>2
<1>11. \A p \in WalletOrders : OrderPrices[p] \in Int /\ OrderPrices'[p] = OrderPrices[p]
  <2> SUFFICES ASSUME NEW p \in WalletOrders
               PROVE  OrderPrices[p] \in Int /\ OrderPrices'[p] = OrderPrices[p]
    OBVIOUS
  <2>1. p \in Orders /\ p # o BY <1>7, <1>9
  <2>2. Price[orders'[p].plan] = Price[orders[p].plan] BY <1>6, <2>1
  <2>3. QED BY <2>1, <2>2, AmountsAreInts DEF OrderPrices
<1>12. Total(OrderPrices', WalletOrders) = Total(OrderPrices, WalletOrders) BY <1>11, TotalSame
<1>13. Total(OrderPrices, WalletOrders) \in Int BY <1>11, TotalType
<1>14. CASE by = "wallet"
  <2>1. WalletOrders' = WalletOrders \cup {o} BY <1>10, <1>14
  <2>2. \A p \in WalletOrders : OrderPrices'[p] \in Int BY <1>11
  <2>3. Total(OrderPrices', WalletOrders \cup {o}) = Total(OrderPrices', WalletOrders) + q
    BY <1>3, <1>5, <1>7, <2>2, TotalAdd
  <2>4. IsFiniteSet(WalletOrders') BY <2>1, FS_AddElement
  <2>5. QED BY <1>3, <1>4, <1>12, <1>13, <1>14, <2>1, <2>3, <2>4 DEF OrdersTotal
<1>15. CASE by # "wallet"
  <2>1. WalletOrders' = WalletOrders BY <1>10, <1>15
  <2>2. QED BY <1>4, <1>12, <1>13, <1>15, <2>1 DEF OrdersTotal
<1>16. QED BY <1>14, <1>15

\* So does a statement.
LEMMA StatementsAdd ==
  ASSUME PaidInv, PaidInv', FeesTypeOK, FeesTypeOK',
         NEW i \in Nat, NEW by \in {"wallet", "evidence"}, NEW delta,
         EntriesOf(StatementKey(i)) = {}, EntriesOf(StatementKey(i))' = Entry(StatementKey(i), by, delta),
         \A j \in Nat \ {i} : EntriesOf(StatementKey(j))' = EntriesOf(StatementKey(j))
  PROVE  StatementsTotal \in Int /\ delta \in Int /\ StatementsTotal' = StatementsTotal - delta
<1> DEFINE q == statements'[i].eligible
<1>1. FeeBy(i) = "none" BY DEF PaidInv, StatementsPaid, PaidBy
<1>2. FeeBy(i)' = by /\ FeeDelta(i)' = delta
  <2> DEFINE key == StatementKey(i)
             route == FeeBy(i)'
             charged2 == FeeDelta(i)'
  <2>1. EntriesOf(key)' = IF route = "none" THEN {} ELSE Entry(key, route, charged2)
    BY DEF PaidInv, StatementsPaid, PaidBy, StatementKey, Entry
  <2>2. EntriesOf(key)' = Entry(key, by, delta) OBVIOUS
  <2> HIDE DEF key, route, charged2
  <2>3. route # "none" /\ Entry(key, route, charged2) = Entry(key, by, delta)
    BY <2>1, <2>2, SameEntry
  <2>4. route = by /\ charged2 = delta BY <2>3, SameEntry
  <2>5. QED BY <2>4 DEF route, charged2
<1>3. i \in DOMAIN statements' BY <1>2 DEF FeeBy
<1>4. q \in Int /\ Eligible'[i] = q
  <2>1. \A row \in StatementRow : row.eligible \in Int BY DEF StatementRow
  <2>2. \A j \in DOMAIN statements' : statements'[j] \in StatementRow BY DEF FeesTypeOK
  <2>3. QED BY <1>3, <2>1, <2>2 DEF Eligible
<1>5. delta = IF by = "wallet" THEN -q ELSE 0 BY <1>2 DEF FeeDelta
<1> HIDE DEF q
<1>6. \A j \in Nat \ {i} :
        /\ j \in WalletStatements' <=> j \in WalletStatements
        /\ j \in WalletStatements => statements'[j].eligible = statements[j].eligible
  BY StatementOne
<1>7. i \notin WalletStatements BY <1>1 DEF FeeBy, WalletStatements, PaidStatements
<1>8. i \in WalletStatements' <=> by = "wallet"
  BY <1>2 DEF FeeBy, WalletStatements, PaidStatements
<1>9. /\ \A j \in WalletStatements : j \in Nat /\ j \in DOMAIN statements
      /\ \A j \in WalletStatements' : j \in Nat /\ j \in DOMAIN statements'
  BY DEF WalletStatements, PaidStatements, FeesTypeOK
<1>10. WalletStatements' = WalletStatements \cup (IF by = "wallet" THEN {i} ELSE {})
  BY <1>6, <1>7, <1>8, <1>9
<1>11. \A j \in WalletStatements : Eligible[j] \in Int /\ Eligible'[j] = Eligible[j]
  <2> SUFFICES ASSUME NEW j \in WalletStatements
               PROVE  Eligible[j] \in Int /\ Eligible'[j] = Eligible[j]
    OBVIOUS
  <2>1. j \in Nat \ {i} /\ j \in DOMAIN statements /\ j \in WalletStatements'
    BY <1>6, <1>7, <1>9
  <2>2. j \in DOMAIN statements' BY <1>9, <2>1
  <2>3. QED BY <1>6, <2>1, <2>2, AmountsAreInts DEF Eligible
<1>12. IsFiniteSet(WalletStatements) BY AmountsAreInts
<1>13. Total(Eligible', WalletStatements) = Total(Eligible, WalletStatements)
  BY <1>11, <1>12, TotalSame
<1>14. Total(Eligible, WalletStatements) \in Int BY <1>11, <1>12, TotalType
<1>15. CASE by = "wallet"
  <2>1. WalletStatements' = WalletStatements \cup {i} BY <1>10, <1>15
  <2>2. \A j \in WalletStatements : Eligible'[j] \in Int BY <1>11
  <2>3. Total(Eligible', WalletStatements \cup {i}) = Total(Eligible', WalletStatements) + q
    BY <1>4, <1>7, <1>12, <2>2, TotalAdd
  <2>4. QED BY <1>4, <1>5, <1>13, <1>14, <1>15, <2>1, <2>3 DEF StatementsTotal
<1>16. CASE by # "wallet"
  <2>1. WalletStatements' = WalletStatements BY <1>10, <1>16
  <2>2. QED BY <1>5, <1>13, <1>14, <1>16, <2>1 DEF StatementsTotal
<1>17. QED BY <1>15, <1>16

\* The three sums are integers.
LEMMA TotalsAreInts ==
  ASSUME DepositsTypeOK, OrdersTypeOK, FeesTypeOK, IsFiniteSet(Credited), IsFiniteSet(WalletOrders)
  PROVE  CreditedTotal \in Int /\ OrdersTotal \in Int /\ StatementsTotal \in Int
<1>1. \A d \in Credited : DepositAmounts[d] \in Int
  BY AmountsAreInts DEF DepositAmounts, Credited
<1>2. \A o \in WalletOrders : OrderPrices[o] \in Int
  BY AmountsAreInts DEF OrderPrices, WalletOrders, Activated
<1>3. \A i \in WalletStatements : Eligible[i] \in Int
  BY AmountsAreInts DEF Eligible, WalletStatements, PaidStatements
<1>4. IsFiniteSet(WalletStatements) BY AmountsAreInts
<1>5. QED BY <1>1, <1>2, <1>3, <1>4, TotalType DEF CreditedTotal, OrdersTotal, StatementsTotal

\* What the parts' invariants say of a state.
PartsInv == DepositInv /\ OrdersTypeOK /\ FeesTypeOK /\ PaidInv

\* Every transaction changes one of the sums by as much as the wallet.
LEMMA WalletStep ==
  ASSUME PartsInv, PartsInv', WalletInv, [CommerceNext]_commerceVars
  PROVE  WalletInv'
<1> USE DEF PartsInv
<1>1. OpeningWallet' = OpeningWallet /\ OpeningWallet \in Nat
  BY WholeStep, CommerceConstants DEF OpeningWallet, CommerceConstants
<1>2. /\ IsFiniteSet(Credited) /\ IsFiniteSet(WalletOrders) /\ wallet \in Nat
      /\ wallet = OpeningWallet + CreditedTotal - OrdersTotal - StatementsTotal
  BY DEF WalletInv
<1>3. CreditedTotal \in Int /\ OrdersTotal \in Int /\ StatementsTotal \in Int
  BY <1>2, TotalsAreInts DEF DepositInv
<1>4. ASSUME NEW key, NEW by, NEW delta, PostTransaction(key, by, delta) \/ UNCHANGED ledgerVars,
             NEW k, k # key
      PROVE  EntriesOf(k)' = EntriesOf(k)
  <2>1. UNCHANGED ledgerVars => EntriesOf(k)' = EntriesOf(k) BY DEF ledgerVars, EntriesOf
  <2>2. QED BY <1>4, <2>1, PostsElsewhere
<1>5. CASE UNCHANGED ledgerVars
  <2>1. \A k : EntriesOf(k)' = EntriesOf(k) BY <1>5 DEF ledgerVars, EntriesOf
  <2>2. \A d : EntriesOf(DepositKey(d))' = EntriesOf(DepositKey(d)) BY <2>1 DEF DepositKey
  <2>3. \A o : EntriesOf(PurchaseKey(o))' = EntriesOf(PurchaseKey(o)) BY <2>1 DEF PurchaseKey
  <2>4. \A i : EntriesOf(StatementKey(i))' = EntriesOf(StatementKey(i)) BY <2>1 DEF StatementKey
  <2>5. Credited' = Credited /\ CreditedTotal' = CreditedTotal BY <1>2, <2>2, CreditedStays
  <2>6. WalletOrders' = WalletOrders /\ OrdersTotal' = OrdersTotal BY <1>2, <2>3, OrdersStay
  <2>7. StatementsTotal' = StatementsTotal BY <2>4, StatementsStay
  <2>8. wallet' = wallet BY <1>5 DEF ledgerVars
  <2>9. QED BY <1>1, <1>2, <2>5, <2>6, <2>7, <2>8 DEF WalletInv
<1>6. ASSUME NEW q \in Tickets, NEW c \in Clerks, ApproveCredit(q, c), ~UNCHANGED ledgerVars
      PROVE  WalletInv'
  <2>1. PICK d : d = ticket[q].order OBVIOUS
  <2>2. /\ deposit[d].status = "MANUAL_REVIEW" /\ deposit[d].amount > 0
        /\ PostTransaction(DepositKey(d), "credit", deposit[d].amount)
        /\ deposit' = [deposit EXCEPT ![d].status = "CREDITED"] /\ CloseTicket(q, c, "approved")
    BY <1>6, <2>1 DEF ApproveCredit, SetDeposit
  <2>3. d \in DepositOrders BY <2>1, <2>2 DEF CloseTicket, DepositInv, TicketsName
  <2>4. /\ deposit'[d].status = "CREDITED" /\ deposit'[d].amount = deposit[d].amount
        /\ deposit[d].amount \in Int
    <3>1. DepositsTypeOK BY DEF DepositInv
    <3>2. "CREDITED" \in DepositStatuses BY DEF DepositStatuses
    <3>3. deposit'[d].status = "CREDITED" /\ FundsFieldsSame(d)
      BY <2>2, <2>3, <3>1, <3>2, StatusChange
    <3>4. QED BY <2>3, <3>1, <3>3, AmountsAreInts DEF FundsFieldsSame
  <2>5. wallet' = wallet + deposit[d].amount /\ wallet' \in Nat
    BY <1>2, <1>6, <2>2, <2>4, PostMoves
  <2>6. d \notin Credited /\ d \in Credited' BY <2>2, <2>3, <2>4 DEF Credited
  <2>7. \A e \in DepositOrders \ {d} : EntriesOf(DepositKey(e))' = EntriesOf(DepositKey(e))
    <3> SUFFICES ASSUME NEW e \in DepositOrders \ {d}
                 PROVE  EntriesOf(DepositKey(e))' = EntriesOf(DepositKey(e))
      OBVIOUS
    <3>1. DepositKey(e) # DepositKey(d) BY DEF DepositKey
    <3>2. QED BY <1>4, <2>2, <3>1 DEF DepositKey
  <2>8. /\ \A o : EntriesOf(PurchaseKey(o))' = EntriesOf(PurchaseKey(o))
        /\ \A i : EntriesOf(StatementKey(i))' = EntriesOf(StatementKey(i))
    <3> SUFFICES ASSUME NEW x
                 PROVE  /\ EntriesOf(PurchaseKey(x))' = EntriesOf(PurchaseKey(x))
                        /\ EntriesOf(StatementKey(x))' = EntriesOf(StatementKey(x))
      OBVIOUS
    <3>1. PurchaseKey(x) # DepositKey(d) /\ StatementKey(x) # DepositKey(d) BY KeysApart
    <3>2. QED BY <1>4, <2>2, <3>1 DEF PurchaseKey, StatementKey
  <2>9. IsFiniteSet(Credited') /\ CreditedTotal' = CreditedTotal + deposit'[d].amount
    BY <1>2, <2>3, <2>6, <2>7, CreditedAdds
  <2>10. WalletOrders' = WalletOrders /\ OrdersTotal' = OrdersTotal BY <1>2, <2>8, OrdersStay
  <2>11. StatementsTotal' = StatementsTotal BY <2>8, StatementsStay
  <2>12. QED BY <1>1, <1>2, <1>3, <2>4, <2>5, <2>9, <2>10, <2>11 DEF WalletInv
<1>7. ASSUME NEW o \in Orders, NEW by \in {"wallet", "evidence"}, NEW delta, NEW key,
             key = PurchaseKey(o), EntriesOf(key) = {}, EntriesOf(key)' = Entry(key, by, delta),
             wallet' = wallet + delta, wallet + delta >= 0,
             \A k : k # key => EntriesOf(k)' = EntriesOf(k)
      PROVE  WalletInv'
  <2>1. \A d : EntriesOf(DepositKey(d))' = EntriesOf(DepositKey(d))
    <3> SUFFICES ASSUME NEW d PROVE EntriesOf(DepositKey(d))' = EntriesOf(DepositKey(d)) OBVIOUS
    <3>1. DepositKey(d) # key BY <1>7, KeysApart
    <3>2. QED BY <1>7, <3>1 DEF DepositKey
  <2>2. \A i : EntriesOf(StatementKey(i))' = EntriesOf(StatementKey(i))
    <3> SUFFICES ASSUME NEW i PROVE EntriesOf(StatementKey(i))' = EntriesOf(StatementKey(i)) OBVIOUS
    <3>1. StatementKey(i) # key BY <1>7, KeysApart
    <3>2. QED BY <1>7, <3>1 DEF StatementKey
  <2>3. \A p \in Orders \ {o} : EntriesOf(PurchaseKey(p))' = EntriesOf(PurchaseKey(p))
    <3> SUFFICES ASSUME NEW p \in Orders \ {o}
                 PROVE  EntriesOf(PurchaseKey(p))' = EntriesOf(PurchaseKey(p))
      OBVIOUS
    <3>1. PurchaseKey(p) # key BY <1>7, KeysDiffer
    <3>2. QED BY <1>7, <3>1 DEF PurchaseKey
  <2>4. EntriesOf(PurchaseKey(o)) = {} /\ EntriesOf(PurchaseKey(o))' = Entry(PurchaseKey(o), by, delta)
    BY <1>7 DEF PurchaseKey
  <2>5. /\ IsFiniteSet(WalletOrders') /\ delta \in Int /\ OrdersTotal' = OrdersTotal - delta
    BY <1>2, <2>3, <2>4, OrdersAdd
  <2>6. Credited' = Credited /\ CreditedTotal' = CreditedTotal BY <1>2, <2>1, CreditedStays
  <2>7. StatementsTotal' = StatementsTotal BY <2>2, StatementsStay
  <2>8. wallet' \in Nat BY <1>2, <1>7, <2>5
  <2>9. wallet' = OpeningWallet' + CreditedTotal' - OrdersTotal' - StatementsTotal'
    BY <1>1, <1>2, <1>3, <1>7, <2>5, <2>6, <2>7
  <2>10. QED BY <1>2, <2>5, <2>6, <2>8, <2>9 DEF WalletInv
<1>8. ASSUME NEW i \in DOMAIN statements, NEW by \in {"wallet", "evidence"}, NEW delta, NEW key,
             key = StatementKey(i), EntriesOf(key) = {}, EntriesOf(key)' = Entry(key, by, delta),
             wallet' = wallet + delta, wallet + delta >= 0,
             \A k : k # key => EntriesOf(k)' = EntriesOf(k)
      PROVE  WalletInv'
  <2>1. \A d : EntriesOf(DepositKey(d))' = EntriesOf(DepositKey(d))
    <3> SUFFICES ASSUME NEW d PROVE EntriesOf(DepositKey(d))' = EntriesOf(DepositKey(d)) OBVIOUS
    <3>1. DepositKey(d) # key BY <1>8, KeysApart
    <3>2. QED BY <1>8, <3>1 DEF DepositKey
  <2>2. \A o : EntriesOf(PurchaseKey(o))' = EntriesOf(PurchaseKey(o))
    <3> SUFFICES ASSUME NEW o PROVE EntriesOf(PurchaseKey(o))' = EntriesOf(PurchaseKey(o)) OBVIOUS
    <3>1. PurchaseKey(o) # key BY <1>8, KeysApart
    <3>2. QED BY <1>8, <3>1 DEF PurchaseKey
  <2>3. i \in Nat BY DEF FeesTypeOK
  <2>4. \A j \in Nat \ {i} : EntriesOf(StatementKey(j))' = EntriesOf(StatementKey(j))
    <3> SUFFICES ASSUME NEW j \in Nat \ {i}
                 PROVE  EntriesOf(StatementKey(j))' = EntriesOf(StatementKey(j))
      OBVIOUS
    <3>1. StatementKey(j) # key BY <1>8, KeysDiffer
    <3>2. QED BY <1>8, <3>1 DEF StatementKey
  <2>5. /\ EntriesOf(StatementKey(i)) = {}
        /\ EntriesOf(StatementKey(i))' = Entry(StatementKey(i), by, delta)
    BY <1>8 DEF StatementKey
  <2>6. delta \in Int /\ StatementsTotal' = StatementsTotal - delta
    BY <2>3, <2>4, <2>5, StatementsAdd
  <2>7. Credited' = Credited /\ CreditedTotal' = CreditedTotal BY <1>2, <2>1, CreditedStays
  <2>8. WalletOrders' = WalletOrders /\ OrdersTotal' = OrdersTotal BY <1>2, <2>2, OrdersStay
  <2>9. wallet' \in Nat BY <1>2, <1>8, <2>6
  <2>10. wallet' = OpeningWallet' + CreditedTotal' - OrdersTotal' - StatementsTotal'
    BY <1>1, <1>2, <1>3, <1>8, <2>6, <2>7, <2>8
  <2>11. QED BY <1>2, <2>7, <2>8, <2>9, <2>10 DEF WalletInv
<1>9. ASSUME NEW key, NEW by, NEW delta, PostTransaction(key, by, delta), ~UNCHANGED ledgerVars
      PROVE  /\ EntriesOf(key) = {} /\ EntriesOf(key)' = Entry(key, by, delta)
             /\ wallet' = wallet + delta /\ wallet + delta >= 0
             /\ \A k : k # key => EntriesOf(k)' = EntriesOf(k)
  <2>1. EntriesOf(key) = {} /\ wallet' = wallet + delta /\ wallet + delta >= 0
    BY <1>9 DEF PostTransaction, Covers
  <2>2. EntriesOf(key)' = Entry(key, by, delta) BY <1>9, <2>1, PostsOnce DEF Entry
  <2>3. QED BY <1>4, <1>9, <2>1, <2>2
<1>10. CASE ~UNCHANGED ledgerVars /\ FeesStep
  <2>1. ASSUME NEW o \in Orders, NEW by \in {"wallet", "evidence"}, NEW delta,
               PostTransaction(PurchaseKey(o), by, delta)
        PROVE  WalletInv'
    <3>1. PICK key : key = PurchaseKey(o) OBVIOUS
    <3>2. PostTransaction(key, by, delta) BY <2>1, <3>1
    <3>3. QED BY <1>7, <1>9, <1>10, <3>1, <3>2
  <2>2. ASSUME NEW i \in DOMAIN statements, NEW by \in {"wallet", "evidence"}, NEW delta,
               PostTransaction(StatementKey(i), by, delta)
        PROVE  WalletInv'
    <3>1. PICK key : key = StatementKey(i) OBVIOUS
    <3>2. PostTransaction(key, by, delta) BY <2>2, <3>1
    <3>3. QED BY <1>8, <1>9, <1>10, <3>1, <3>2
  <2>3. QED BY <1>10, <2>1, <2>2, FeesPost
<1>11. QED BY <1>5, <1>6, <1>10, WholeStep, DepositsPost DEF commerceVars, orderVars

-----------------------------------------------------------------------------
(* Two persons for every movement of money: the credit of a deposit *)

\* Who asked and who decided are two clerks.
TwoClerks ==
  \A q \in Tickets :
    /\ ticket[q].status # "none" => ticket[q].requester \in Clerks
    /\ ticket[q].status = "approved" => ticket[q].decider \in Clerks \ {ticket[q].requester}

ClerksInv == TwoClerks /\ CreditedByTwo

\* A request that was decided is never touched again.
LEMMA TicketsMove ==
  ASSUME DepositInv, TwoClerks, DepositsNext
  PROVE  /\ TwoClerks'
         /\ \A q \in Tickets : ticket[q].status = "approved" => ticket'[q] = ticket[q]
<1>1. ticket \in [Tickets -> TicketRow] BY DEF DepositInv, DepositsTypeOK
<1>2. ASSUME NEW q \in Tickets, NEW d \in DepositOrders, NEW c \in Clerks, NEW credits \in BOOLEAN,
             AskAction(q, d, c, credits)
      PROVE  /\ TwoClerks'
             /\ \A p \in Tickets : ticket[p].status = "approved" => ticket'[p] = ticket[p]
  <2> DEFINE row == [order |-> d, credits |-> credits, status |-> "pending", requester |-> c,
                     decider |-> NoClerk]
  <2>1. row.status = "pending" /\ row.requester = c OBVIOUS
  <2>2. ticket' = [ticket EXCEPT ![q] = row] /\ ticket[q].status = "none" BY <1>2 DEF AskAction
  <2> HIDE DEF row
  <2>3. QED BY <1>1, <2>1, <2>2 DEF TwoClerks
<1>3. ASSUME NEW q \in Tickets, NEW c \in Clerks, NEW status \in {"approved", "rejected"},
             CloseTicket(q, c, status)
      PROVE  /\ TwoClerks'
             /\ \A p \in Tickets : ticket[p].status = "approved" => ticket'[p] = ticket[p]
  <2> DEFINE row == [ticket[q] EXCEPT !.status = status, !.decider = c]
  <2>1. /\ row.status = status /\ row.decider = c /\ row.requester = ticket[q].requester
    BY <1>1 DEF TicketRow
  <2>2. ticket' = [ticket EXCEPT ![q] = row] /\ ticket[q].status = "pending"
        /\ ticket[q].requester # c
    BY <1>1, <1>3 DEF CloseTicket
  <2> HIDE DEF row
  <2>3. QED BY <1>1, <2>1, <2>2 DEF TwoClerks
<1>4. ASSUME UNCHANGED ticket
      PROVE  /\ TwoClerks'
             /\ \A p \in Tickets : ticket[p].status = "approved" => ticket'[p] = ticket[p]
  BY <1>4 DEF TwoClerks
<1>5. QED
  BY <1>2, <1>3, <1>4 DEF DepositsNext, CheckDeposit, ReserveDeposit, AskAddress, StoreAddress,
     CreatorDies, Send, Callback, RestOfDeposits, ApproveCredit, CloseWithoutFunds

\* What a request that stays says of a deposit that stays credited.
Backs(q, d) == ticket[q].order = d /\ ticket[q].credits /\ ticket[q].status = "approved"

\* A deposit is credited by the step that approves a request to credit it.
LEMMA ClerksStep ==
  ASSUME DepositInv, DepositInv', ClerksInv, DepositsNext
  PROVE  ClerksInv'
<1>1. /\ TwoClerks' /\ TwoClerks
      /\ \A q \in Tickets : ticket[q].status = "approved" => ticket'[q] = ticket[q]
  BY TicketsMove DEF ClerksInv
<1>2. ticket \in [Tickets -> TicketRow] BY DEF DepositInv, DepositsTypeOK
<1>3. ASSUME NEW d \in Credited', d \in Credited PROVE \E q \in Tickets : Backs(q, d)'
  <2>1. PICK q \in Tickets : Backs(q, d) BY <1>3 DEF ClerksInv, CreditedByTwo, Backs
  <2>2. QED BY <1>1, <2>1 DEF Backs
<1>4. ASSUME NEW d \in DepositOrders, NEW q \in Tickets, NEW c \in Clerks, ApproveCredit(q, c),
             d # ticket[q].order
      PROVE  d \in Credited' <=> d \in Credited
  BY <1>4 DEF ApproveCredit, SetDeposit, DepositInv, DepositsTypeOK, Credited
<1>5. ASSUME NEW d \in Credited', d \notin Credited PROVE \E q \in Tickets : Backs(q, d)'
  <2>1. d \in DepositOrders BY DEF Credited
  <2>2. ~UNCHANGED ledgerVars
    <3>1. UNCHANGED ledgerVars => EntriesOf(DepositKey(d))' = EntriesOf(DepositKey(d))
      BY DEF ledgerVars, EntriesOf, DepositKey
    <3>2. QED BY <1>5, <2>1, <3>1, CreditedOne
  <2>3. PICK q \in Tickets, c \in Clerks : ApproveCredit(q, c) BY <2>2, DepositsPost
  <2>4. ticket[q].order = d BY <1>4, <1>5, <2>1, <2>3
  <2> DEFINE row == [ticket[q] EXCEPT !.status = "approved", !.decider = c]
  <2>5. row.order = ticket[q].order /\ row.credits = ticket[q].credits /\ row.status = "approved"
    BY <1>2 DEF TicketRow
  <2>6. ticket' = [ticket EXCEPT ![q] = row] /\ ticket[q].credits
    BY <1>2, <2>3 DEF ApproveCredit, CloseTicket
  <2> HIDE DEF row
  <2>7. QED BY <1>2, <2>4, <2>5, <2>6 DEF Backs
<1>6. ASSUME NEW q \in Tickets, NEW d, Backs(q, d)'
      PROVE  (ticket[q].requester # ticket[q].decider
              /\ NoClerk \notin {ticket[q].requester, ticket[q].decider})'
  BY <1>1, <1>6, DepositConstants DEF DepositConstants, TwoClerks, Backs
<1>7. CreditedByTwo'
  <2> SUFFICES ASSUME NEW d \in Credited'
               PROVE  \E q \in Tickets :
                        (/\ ticket[q].order = d /\ ticket[q].credits /\ ticket[q].status = "approved"
                         /\ ticket[q].requester # ticket[q].decider
                         /\ NoClerk \notin {ticket[q].requester, ticket[q].decider})'
    BY DEF CreditedByTwo
  <2>1. PICK q \in Tickets : Backs(q, d)' BY <1>3, <1>5
  <2>2. QED BY <1>6, <2>1 DEF Backs
<1>8. QED BY <1>1, <1>7 DEF ClerksInv

\* The rest of the platform touches no request and no deposit.
LEMMA ClerksBeside == ClerksInv /\ UNCHANGED depositOnly => ClerksInv'
BY DEF ClerksInv, TwoClerks, CreditedByTwo, Credited, depositOnly

\* Nobody asked for anything at first.
LEMMA ClerksInit == DepositsInit => ClerksInv
BY DEF DepositsInit, ClerksInv, TwoClerks, CreditedByTwo, Credited

-----------------------------------------------------------------------------
(* Two persons: orders and fees that are paid outside *)

\* A row of evidence keeps who recorded it for what.
RecordersStay ==
  \A ref \in References : IsEvidence(ref) => evidence'[ref].recorder = evidence[ref].recorder

NoneNew ==
  \A ref \in References : IsEvidence(ref)' =>
    IsEvidence(ref) /\ evidence'[ref].subject = evidence[ref].subject

\* A decision keeps the row.
LEMMA MarksKeep ==
  ASSUME EvidenceTyped, NEW ref \in References, NEW subject, Decidable(ref, subject), NEW status,
         MarkEvidence(ref, status)
  PROVE  RecordersStay /\ NoneNew
<1> DEFINE row == [evidence[ref] EXCEPT !.status = status]
<1>1. evidence[ref] \in EvidenceRow(Subjects, Staff) BY DEF EvidenceTyped, Decidable, IsEvidence
<1>2. row.recorder = evidence[ref].recorder /\ row.subject = evidence[ref].subject
  BY <1>1 DEF EvidenceRow
<1>3. evidence' = [evidence EXCEPT ![ref] = row] BY DEF MarkEvidence, EvidenceTyped
<1>4. IsEvidence(ref) BY DEF Decidable
<1> HIDE DEF row
<1>5. QED BY <1>2, <1>3, <1>4 DEF EvidenceTyped, RecordersStay, NoneNew, IsEvidence

\* New evidence is a row of its own.
LEMMA RecordsKeep ==
  ASSUME EvidenceTyped, NEW ref \in References, NEW subject, NEW s, NEW matches,
         RecordEvidence(ref, subject, s, matches)
  PROVE  /\ RecordersStay
         /\ \A r \in References : IsEvidence(r)' =>
              \/ IsEvidence(r) /\ evidence'[r].subject = evidence[r].subject
              \/ evidence'[r].subject = subject /\ evidence'[r].recorder = s
<1> DEFINE row == [subject |-> subject, recorder |-> s, matches |-> matches, status |-> "recorded"]
<1>1. row.recorder = s /\ row.subject = subject OBVIOUS
<1>2. evidence' = [evidence EXCEPT ![ref] = row] /\ ~IsEvidence(ref) BY DEF RecordEvidence, IsFresh
<1> HIDE DEF row
<1>3. QED BY <1>1, <1>2 DEF EvidenceTyped, RecordersStay, IsEvidence

\* An order that is activated keeps its row; evidence that is accepted keeps its recorder.
LEMMA OrderReviewStays ==
  ASSUME PaidInv, OrderReviewedByAnother, RecordersStay, NEW o \in Orders,
         orders'[o] = orders[o], AcceptedFor(OrderSubject(o))' = AcceptedFor(OrderSubject(o)),
         o \in Activated', orders'[o].route = "evidence"
  PROVE  /\ orders'[o].reviewer \in Staff
         /\ orders'[o].submitter # orders'[o].reviewer
         /\ \A ref \in AcceptedFor(OrderSubject(o))' : evidence'[ref].recorder # orders'[o].reviewer
<1>1. o \in Activated BY DEF Activated
<1>2. \A ref \in AcceptedFor(OrderSubject(o)) :
        ref \in References /\ IsEvidence(ref)
  BY DEF AcceptedFor
<1>3. QED BY <1>1, <1>2 DEF OrderReviewedByAnother, RecordersStay

\* What a step that moves one order's row has to show.
LEMMA OrderReviewMoves ==
  ASSUME PaidInv, OrderReviewedByAnother, RecordersStay, NEW o \in Orders, NEW row,
         orders \in [Orders -> OrderRow], orders' = [orders EXCEPT ![o] = row],
         \A x : x # OrderSubject(o) => AcceptedFor(x)' = AcceptedFor(x),
         row.route = "evidence" =>
           /\ row.reviewer \in Staff /\ row.submitter # row.reviewer
           /\ \A ref \in AcceptedFor(OrderSubject(o))' : evidence'[ref].recorder # row.reviewer
  PROVE  OrderReviewedByAnother'
<1>1. orders'[o] = row /\ \A p \in Orders \ {o} : orders'[p] = orders[p] OBVIOUS
<1> SUFFICES ASSUME NEW p \in Activated', orders'[p].route = "evidence"
             PROVE  /\ orders'[p].reviewer \in Staff
                    /\ orders'[p].submitter # orders'[p].reviewer
                    /\ \A ref \in AcceptedFor(OrderSubject(p))' :
                         evidence'[ref].recorder # orders'[p].reviewer
  BY DEF OrderReviewedByAnother, OrderSubject
<1>2. p \in Orders BY DEF Activated
<1>3. CASE p = o BY <1>1, <1>3
<1>4. CASE p # o
  <2>1. OrderSubject(p) # OrderSubject(o) BY <1>4 DEF OrderSubject
  <2> DEFINE x == OrderSubject(p)
  <2>2. x # OrderSubject(o) BY <2>1
  <2> HIDE DEF x
  <2>3. AcceptedFor(x)' = AcceptedFor(x) BY <2>2
  <2>4. QED BY <1>1, <1>2, <1>4, <2>3, OrderReviewStays DEF x, OrderSubject
<1>5. QED BY <1>3, <1>4

\* Nobody's row moves, and nothing is accepted for an order.
LEMMA OrderReviewQuiet ==
  ASSUME PaidInv, OrderReviewedByAnother, RecordersStay, UNCHANGED orders,
         \A o \in Orders : AcceptedFor(OrderSubject(o))' = AcceptedFor(OrderSubject(o))
  PROVE  OrderReviewedByAnother'
<1> SUFFICES ASSUME NEW p \in Activated', orders'[p].route = "evidence"
             PROVE  /\ orders'[p].reviewer \in Staff
                    /\ orders'[p].submitter # orders'[p].reviewer
                    /\ \A ref \in AcceptedFor(OrderSubject(p))' :
                         evidence'[ref].recorder # orders'[p].reviewer
  BY DEF OrderReviewedByAnother, OrderSubject
<1>1. p \in Orders /\ orders'[p] = orders[p] BY DEF Activated
<1>2. QED BY <1>1, OrderReviewStays

\* Where no evidence moves.
LEMMA QuietRecorders == UNCHANGED evidence => RecordersStay /\ NoneNew
BY DEF RecordersStay, NoneNew, IsEvidence

\* Every step of an order.
LEMMA OrderReviewOrder ==
  ASSUME PaidInv, OrdersTypeOK, OrderReviewedByAnother, NEW o \in Orders, OrderStep(o)
  PROVE  OrderReviewedByAnother'
<1>1. orders \in [Orders -> OrderRow] /\ EvidenceTyped /\ orders[o] \in OrderRow
  BY DEF OrdersTypeOK, OrderRow, PaidInv
<1>2. orders[o].status # "activated" => orders[o].route = "none" BY DEF PaidInv, RoutesOfActivated
<1>3. ASSUME NEW plan \in Plans, CreateOrder(o, plan) PROVE OrderReviewedByAnother'
  <2> DEFINE row == [orders[o] EXCEPT !.status = "pending_evidence", !.plan = plan]
  <2>1. row.route = orders[o].route BY <1>1 DEF OrderRow
  <2>2. /\ orders' = [orders EXCEPT ![o] = row] /\ orders[o].status # "activated"
        /\ UNCHANGED evidence
    BY <1>1, <1>3 DEF CreateOrder
  <2> HIDE DEF row
  <2>3. \A x : AcceptedFor(x)' = AcceptedFor(x) BY <2>2 DEF AcceptedFor, IsEvidence
  <2>4. QED BY <1>1, <1>2, <2>1, <2>2, <2>3, QuietRecorders, OrderReviewMoves
<1>4. ASSUME NEW s \in Staff, SubmitOrder(o, s) PROVE OrderReviewedByAnother'
  <2> DEFINE row == [orders[o] EXCEPT !.status = "pending_review", !.submitter = s]
  <2>1. row.route = orders[o].route BY <1>1 DEF OrderRow
  <2>2. /\ orders' = [orders EXCEPT ![o] = row] /\ orders[o].status # "activated"
        /\ UNCHANGED evidence
    BY <1>1, <1>4 DEF SubmitOrder
  <2> HIDE DEF row
  <2>3. \A x : AcceptedFor(x)' = AcceptedFor(x) BY <2>2 DEF AcceptedFor, IsEvidence
  <2>4. QED BY <1>1, <1>2, <2>1, <2>2, <2>3, QuietRecorders, OrderReviewMoves
<1>5. ASSUME NEW ref \in References, NEW s \in Staff, RejectOrder(o, ref, s)
      PROVE  OrderReviewedByAnother'
  <2> DEFINE row == [orders[o] EXCEPT !.status = "rejected", !.reviewer = s]
  <2>1. row.route = orders[o].route BY <1>1 DEF OrderRow
  <2>2. /\ orders' = [orders EXCEPT ![o] = row] /\ orders[o].status # "activated"
        /\ MarkEvidence(ref, "rejected") /\ Decidable(ref, OrderSubject(o))
    BY <1>1, <1>5 DEF RejectOrder, MayDecide
  <2> HIDE DEF row
  <2>3. \A x : AcceptedFor(x)' = AcceptedFor(x) BY <1>1, <2>2, MarksAccept
  <2>4. RecordersStay BY <1>1, <2>2, MarksKeep
  <2>5. QED BY <1>1, <1>2, <2>1, <2>2, <2>3, <2>4, OrderReviewMoves
<1>6. ASSUME NEW ref \in References, NEW s \in Staff, NEW matches \in BOOLEAN,
             RecordOrderEvidence(o, ref, s, matches)
      PROVE  OrderReviewedByAnother'
  <2>1. OrderSubject(o) \in Subjects BY DEF Subjects
  <2>2. UNCHANGED orders /\ RecordEvidence(ref, OrderSubject(o), s, matches)
    BY <1>6 DEF RecordOrderEvidence
  <2>3. \A x : AcceptedFor(x)' = AcceptedFor(x) BY <1>1, <2>1, <2>2, RecordsAcceptNothing
  <2>4. RecordersStay BY <1>1, <2>2, RecordsKeep
  <2>5. \A p \in Orders : AcceptedFor(OrderSubject(p))' = AcceptedFor(OrderSubject(p))
    BY <2>3 DEF OrderSubject
  <2>6. QED BY <2>2, <2>4, <2>5, OrderReviewQuiet
<1>7. ASSUME NEW ref \in References, NEW s \in Staff, ApproveOrder(o, ref, s)
      PROVE  OrderReviewedByAnother'
  <2> DEFINE row == [orders[o] EXCEPT !.status = "activated", !.reviewer = s, !.route = "evidence"]
  <2>1. row.reviewer = s /\ row.submitter = orders[o].submitter BY <1>1 DEF OrderRow
  <2>2. /\ orders' = [orders EXCEPT ![o] = row] /\ orders[o].status # "activated"
        /\ orders[o].submitter # s /\ evidence[ref].recorder # s /\ IsEvidence(ref)
        /\ MarkEvidence(ref, "accepted") /\ Decidable(ref, OrderSubject(o))
    BY <1>1, <1>7 DEF ApproveOrder, MayDecide, Entitle, Decidable
  <2> HIDE DEF row
  <2>3. \A x : AcceptedFor(x)' = IF x = OrderSubject(o) THEN AcceptedFor(x) \cup {ref}
                                 ELSE AcceptedFor(x)
    BY <1>1, <2>2, MarksAccept
  <2>4. RecordersStay BY <1>1, <2>2, MarksKeep
  <2>5. AcceptedFor(OrderSubject(o)) = {}
    BY <1>2, <2>2 DEF PaidInv, OrdersPaid, PaidBy
  <2> DEFINE x == OrderSubject(o)
  <2>6. AcceptedFor(x)' = {ref}
    <3>1. AcceptedFor(x) = {} /\ x = OrderSubject(o) BY <2>5
    <3> HIDE DEF x
    <3>2. QED BY <2>3, <3>1
  <2>7. evidence'[ref].recorder # s BY <2>2, <2>4 DEF RecordersStay
  <2>8. \A y : y # OrderSubject(o) => AcceptedFor(y)' = AcceptedFor(y) BY <2>3
  <2>9. QED BY <1>1, <2>1, <2>2, <2>4, <2>6, <2>7, <2>8, OrderReviewMoves DEF OrderSubject
<1>8. CASE PayOrderFromWallet(o)
  <2> DEFINE row == [orders[o] EXCEPT !.status = "activated", !.reviewer = Customer, !.route = "wallet"]
  <2>1. row.route = "wallet" BY <1>1 DEF OrderRow
  <2>2. /\ orders' = [orders EXCEPT ![o] = row] /\ UNCHANGED evidence
    BY <1>1, <1>8 DEF PayOrderFromWallet, Entitle
  <2> HIDE DEF row
  <2>3. \A x : AcceptedFor(x)' = AcceptedFor(x) BY <2>2 DEF AcceptedFor, IsEvidence
  <2>4. QED BY <1>1, <2>1, <2>2, <2>3, QuietRecorders, OrderReviewMoves
<1>9. QED BY <1>3, <1>4, <1>5, <1>6, <1>7, <1>8 DEF OrderStep

\* Orders and statements are different subjects.
LEMMA SubjectsApart ==
  /\ \A o, i : OrderSubject(o) # StatementSubject(i)
  /\ \A i, j : i # j => StatementSubject(i) # StatementSubject(j)
BY DEF OrderSubject, StatementSubject

\* What a statement's row says of the persons: who assessed it did not generate it, and who
\* paid it outside did neither.
Assessed == {"payment_pending", "paid", "no_fee"}
Payable == {"payment_pending", "paid"}
RowReviewed(row) ==
  /\ row.status \in Assessed => row.assessor \in Staff \ {row.generator}
  /\ row.status = "paid" => row.payer \in (Staff \ {row.generator, row.assessor}) \cup {Customer}

RowsReviewed == \A i \in DOMAIN statements : RowReviewed(statements[i])

\* Evidence for a statement comes after its assessment, from somebody else.
RecordersApart ==
  \A ref \in References, i \in Nat : IsEvidence(ref) /\ evidence[ref].subject = StatementSubject(i) =>
    /\ i \in DOMAIN statements /\ statements[i].status \in Payable
    /\ evidence[ref].recorder \notin {statements[i].generator, statements[i].assessor}

\* Nobody accepts the evidence he recorded.
PayersApart ==
  \A i \in PaidStatements : \A ref \in AcceptedFor(StatementSubject(i)) :
    evidence[ref].recorder # statements[i].payer

FeeReviews == RowsReviewed /\ RecordersApart /\ PayersApart

\* Four persons for what was paid outside.
LEMMA FeeReviewsImply ==
  FeesTypeOK /\ PaidInv /\ FeeReviews => FeeReviewedByOthers
<1> SUFFICES ASSUME FeesTypeOK, PaidInv, FeeReviews, NEW i \in PaidStatements
             PROVE  /\ statements[i].assessor \in Staff \ {statements[i].generator}
                    /\ statements[i].payer # Customer =>
                         \E ref \in AcceptedFor(StatementSubject(i)) :
                           Cardinality({statements[i].generator, statements[i].assessor,
                                        statements[i].payer, evidence[ref].recorder}) = 4
  BY DEF FeeReviewedByOthers
<1>1. i \in DOMAIN statements /\ statements[i].status = "paid" /\ i \in Nat
  BY DEF PaidStatements, FeesTypeOK
<1>2. RowReviewed(statements[i]) BY <1>1 DEF FeeReviews, RowsReviewed
<1> DEFINE g == statements[i].generator
           a == statements[i].assessor
           p == statements[i].payer
<1>3. a \in Staff \ {g} /\ p \in (Staff \ {g, a}) \cup {Customer}
  BY <1>1, <1>2 DEF RowReviewed, Assessed
<1>4. ASSUME p # Customer
      PROVE  \E ref \in AcceptedFor(StatementSubject(i)) :
               Cardinality({g, a, p, evidence[ref].recorder}) = 4
  <2>1. FeeBy(i) = "evidence" BY <1>1, <1>4 DEF FeeBy
  <2>2. PICK ref \in References : AcceptedFor(StatementSubject(i)) = {ref}
    BY <1>1, <2>1 DEF PaidInv, StatementsPaid, PaidBy
  <2> DEFINE r == evidence[ref].recorder
  <2>3. IsEvidence(ref) /\ evidence[ref].subject = StatementSubject(i)
    BY <2>2 DEF AcceptedFor
  <2>4. r \notin {g, a} BY <1>1, <2>3 DEF FeeReviews, RecordersApart
  <2>5. r # p
    <3>1. ref \in AcceptedFor(StatementSubject(i)) BY <2>2
    <3>2. QED BY <3>1 DEF FeeReviews, PayersApart
  <2>6. g # a /\ p \notin {g, a} BY <1>3, <1>4
  <2> HIDE DEF g, a, p, r
  <2> DEFINE two == {g} \cup {a}
             three == two \cup {p}
  <2>7. a \notin {g} /\ p \notin two /\ r \notin three BY <2>4, <2>5, <2>6
  <2>8. Cardinality({g}) = 1 /\ IsFiniteSet({g}) BY FS_Singleton
  <2>9. Cardinality(two) = 2 /\ IsFiniteSet(two) BY <2>7, <2>8, FS_AddElement
  <2>10. {g, a, p, r} = three \cup {r} OBVIOUS
  <2> HIDE DEF two
  <2>11. Cardinality(three) = 3 /\ IsFiniteSet(three) BY <2>7, <2>9, FS_AddElement
  <2> HIDE DEF three
  <2>12. Cardinality({g, a, p, r}) = 4 BY <2>7, <2>10, <2>11, FS_AddElement
  <2>13. ref \in AcceptedFor(StatementSubject(i)) BY <2>2
  <2>14. QED BY <2>12, <2>13 DEF r
<1>5. QED BY <1>3, <1>4

\* What a step that moves one statement's row has to show; the others keep theirs.
LEMMA FeeReviewMoves ==
  ASSUME FeesTypeOK, FeeReviews, RecordersStay, NEW i \in DOMAIN statements, NEW row,
         statements' = [statements EXCEPT ![i] = row], RowReviewed(row),
         statements[i].status \in Payable =>
           /\ row.status \in Payable
           /\ row.generator = statements[i].generator /\ row.assessor = statements[i].assessor,
         NoneNew, \A x : x # StatementSubject(i) => AcceptedFor(x)' = AcceptedFor(x),
         row.status = "paid" =>
           \A ref \in AcceptedFor(StatementSubject(i))' : evidence'[ref].recorder # row.payer
  PROVE  FeeReviews'
<1>1. /\ DOMAIN statements' = DOMAIN statements /\ statements'[i] = row
      /\ \A j \in DOMAIN statements \ {i} : statements'[j] = statements[j]
  OBVIOUS
<1>2. RowsReviewed'
  <2>1. \A j \in DOMAIN statements' : RowReviewed(statements'[j])
    BY <1>1 DEF FeeReviews, RowsReviewed
  <2>2. QED BY <2>1 DEF RowsReviewed, RowReviewed
<1>3. RecordersApart'
  <2> SUFFICES ASSUME NEW ref \in References, NEW j \in Nat, IsEvidence(ref)',
                      evidence'[ref].subject = StatementSubject(j)
               PROVE  /\ j \in DOMAIN statements' /\ statements'[j].status \in Payable
                      /\ evidence'[ref].recorder \notin {statements'[j].generator, statements'[j].assessor}
    BY DEF RecordersApart, StatementSubject, Payable
  <2>1. IsEvidence(ref) /\ evidence[ref].subject = StatementSubject(j) BY DEF NoneNew
  <2>2. evidence'[ref].recorder = evidence[ref].recorder BY <2>1 DEF RecordersStay
  <2>3. /\ j \in DOMAIN statements /\ statements[j].status \in Payable
        /\ evidence[ref].recorder \notin {statements[j].generator, statements[j].assessor}
    BY <2>1 DEF FeeReviews, RecordersApart
  <2>4. QED BY <1>1, <2>2, <2>3
<1>4. PayersApart'
  <2> SUFFICES ASSUME NEW j \in PaidStatements', NEW ref \in AcceptedFor(StatementSubject(j))'
               PROVE  evidence'[ref].recorder # statements'[j].payer
    BY DEF PayersApart, StatementSubject
  <2>1. j \in DOMAIN statements /\ statements'[j].status = "paid" BY <1>1 DEF PaidStatements
  <2>2. CASE j = i BY <1>1, <2>1, <2>2
  <2>3. CASE j # i
    <3> DEFINE x == StatementSubject(j)
    <3>1. x # StatementSubject(i) BY <2>3, SubjectsApart
    <3>2. x' = x /\ ref \in AcceptedFor(x)' BY DEF StatementSubject
    <3>3. j \in PaidStatements /\ statements'[j] = statements[j] BY <1>1, <2>1, <2>3 DEF PaidStatements
    <3>4. \A r \in AcceptedFor(x) : evidence[r].recorder # statements[j].payer
      BY <3>3 DEF FeeReviews, PayersApart
    <3> HIDE DEF x
    <3>5. AcceptedFor(x)' = AcceptedFor(x) BY <3>1
    <3>6. ref \in AcceptedFor(x) BY <3>2, <3>5
    <3>7. evidence'[ref].recorder = evidence[ref].recorder
      BY <3>6 DEF AcceptedFor, RecordersStay
    <3>8. QED BY <3>3, <3>4, <3>6, <3>7
  <2>4. QED BY <2>2, <2>3
<1>5. QED BY <1>2, <1>3, <1>4 DEF FeeReviews

\* Steps that move no statement and record nothing for one.
LEMMA FeeReviewQuiet ==
  ASSUME FeeReviews, RecordersStay, UNCHANGED statements,
         \A i : AcceptedFor(StatementSubject(i))' = AcceptedFor(StatementSubject(i)),
         \A ref \in References, i \in Nat :
           IsEvidence(ref)' /\ evidence'[ref].subject = StatementSubject(i) =>
             \/ IsEvidence(ref) /\ evidence[ref].subject = StatementSubject(i)
             \/ /\ i \in DOMAIN statements /\ statements[i].status \in Payable
                /\ evidence'[ref].recorder \notin {statements[i].generator, statements[i].assessor}
  PROVE  FeeReviews'
<1>1. RowsReviewed' BY DEF FeeReviews, RowsReviewed, RowReviewed
<1>2. RecordersApart'
  <2> SUFFICES ASSUME NEW ref \in References, NEW j \in Nat, IsEvidence(ref)',
                      evidence'[ref].subject = StatementSubject(j)
               PROVE  /\ j \in DOMAIN statements /\ statements[j].status \in Payable
                      /\ evidence'[ref].recorder \notin {statements[j].generator, statements[j].assessor}
    BY DEF RecordersApart, StatementSubject, Payable
  <2>1. CASE IsEvidence(ref) /\ evidence[ref].subject = StatementSubject(j)
    BY <2>1 DEF RecordersStay, FeeReviews, RecordersApart
  <2>2. QED BY <2>1
<1>3. PayersApart'
  <2> SUFFICES ASSUME NEW j \in PaidStatements', NEW ref \in AcceptedFor(StatementSubject(j))'
               PROVE  evidence'[ref].recorder # statements'[j].payer
    BY DEF PayersApart, StatementSubject
  <2>1. j \in PaidStatements BY DEF PaidStatements
  <2>2. ref \in AcceptedFor(StatementSubject(j)) OBVIOUS
  <2>3. ref \in References /\ IsEvidence(ref) BY <2>2 DEF AcceptedFor
  <2>4. QED BY <2>1, <2>2, <2>3 DEF FeeReviews, PayersApart, RecordersStay
<1>4. QED BY <1>1, <1>2, <1>3 DEF FeeReviews

\* A statement's row after each of its steps.
LEMMA FeeReviewStatement ==
  ASSUME PaidInv, FeesTypeOK, FeeReviews, NEW i \in DOMAIN statements, StatementStep(i)
  PROVE  FeeReviews'
<1>1. /\ statements \in Seq(StatementRow) /\ EvidenceTyped /\ statements[i] \in StatementRow
      /\ i \in Nat
  BY DEF FeesTypeOK, PaidInv
<1>2. RowReviewed(statements[i]) BY DEF FeeReviews, RowsReviewed
<1>3. ASSUME NEW s \in Staff, NEW approve \in BOOLEAN, Assess(i, s, approve) PROVE FeeReviews'
  <2> DEFINE status == IF ~approve THEN "rejected"
                       ELSE IF statements[i].eligible = 0 THEN "no_fee" ELSE "payment_pending"
             row == [statements[i] EXCEPT !.assessor = s, !.status = status]
  <2>1. /\ row.status # "paid" /\ row.assessor = s /\ row.generator = statements[i].generator
    BY <1>1 DEF StatementRow
  <2>2. /\ statements' = [statements EXCEPT ![i] = row] /\ statements[i].status = "pending_review"
        /\ statements[i].generator # s /\ UNCHANGED evidence
    BY <1>1, <1>3 DEF Assess, orderVars
  <2> HIDE DEF row
  <2>3. \A x : AcceptedFor(x)' = AcceptedFor(x) BY <2>2 DEF AcceptedFor, IsEvidence
  <2>4. RowReviewed(row) BY <2>1, <2>2 DEF RowReviewed
  <2>5. statements[i].status \notin Payable BY <2>2 DEF Payable
  <2>6. QED BY <2>1, <2>2, <2>3, <2>4, <2>5, QuietRecorders, FeeReviewMoves
<1>4. ASSUME NEW ref \in References, NEW s \in Staff, RefusePayment(i, ref, s) PROVE FeeReviews'
  <2> DEFINE row == [statements[i] EXCEPT !.refusers = @ \cup {s}]
  <2>1. /\ row.status = statements[i].status /\ row.assessor = statements[i].assessor
        /\ row.generator = statements[i].generator /\ row.payer = statements[i].payer
    BY <1>1 DEF StatementRow
  <2>2. /\ statements' = [statements EXCEPT ![i] = row] /\ statements[i].status = "payment_pending"
        /\ Decidable(ref, StatementSubject(i)) /\ MarkEvidence(ref, "rejected")
    BY <1>1, <1>4 DEF RefusePayment, MayConfirm
  <2> HIDE DEF row
  <2>3. \A x : AcceptedFor(x)' = AcceptedFor(x) BY <1>1, <2>2, MarksAccept
  <2>4. RowReviewed(row) BY <1>2, <2>1 DEF RowReviewed
  <2>5. RecordersStay /\ NoneNew BY <1>1, <2>2, MarksKeep
  <2>6. QED BY <2>1, <2>2, <2>3, <2>4, <2>5, FeeReviewMoves
<1>5. ASSUME NEW ref \in References, NEW s \in Staff, ConfirmPayment(i, ref, s) PROVE FeeReviews'
  <2> DEFINE row == [statements[i] EXCEPT !.status = "paid", !.payer = s]
  <2>1. /\ row.status = "paid" /\ row.assessor = statements[i].assessor
        /\ row.generator = statements[i].generator /\ row.payer = s
    BY <1>1 DEF StatementRow
  <2>2. /\ statements' = [statements EXCEPT ![i] = row] /\ statements[i].status = "payment_pending"
        /\ Decidable(ref, StatementSubject(i)) /\ MarkEvidence(ref, "accepted")
        /\ s \in Outsiders(i) /\ evidence[ref].recorder # s /\ IsEvidence(ref)
    BY <1>1, <1>5 DEF ConfirmPayment, Settled, MayConfirm, Decidable
  <2> HIDE DEF row
  <2>3. \A x : AcceptedFor(x)' = IF x = StatementSubject(i) THEN AcceptedFor(x) \cup {ref}
                                 ELSE AcceptedFor(x)
    BY <1>1, <2>2, MarksAccept
  <2>4. RowReviewed(row)
    BY <1>2, <2>1, <2>2 DEF RowReviewed, Outsiders, Assessed
  <2>5. RecordersStay /\ NoneNew BY <1>1, <2>2, MarksKeep
  <2> DEFINE x == StatementSubject(i)
  <2>6. AcceptedFor(x)' = {ref}
    <3>1. FeeBy(i) = "none" BY <2>2 DEF FeeBy
    <3>2. AcceptedFor(x) = {} BY <1>1, <3>1 DEF PaidInv, StatementsPaid, PaidBy
    <3>3. x = StatementSubject(i) OBVIOUS
    <3> HIDE DEF x
    <3>4. QED BY <2>3, <3>2, <3>3
  <2>7. evidence'[ref].recorder # s BY <2>2, <2>5 DEF RecordersStay
  <2>8. \A y : y # StatementSubject(i) => AcceptedFor(y)' = AcceptedFor(y) BY <2>3
  <2>9. row.status \in Payable BY <2>1 DEF Payable
  <2>10. \A r \in AcceptedFor(StatementSubject(i))' : evidence'[r].recorder # row.payer
    BY <2>1, <2>6, <2>7 DEF StatementSubject
  <2>11. QED BY <2>1, <2>2, <2>4, <2>5, <2>8, <2>9, <2>10, FeeReviewMoves
<1>6. CASE PayFeeFromWallet(i)
  <2> DEFINE row == [statements[i] EXCEPT !.status = "paid", !.payer = Customer]
  <2>1. /\ row.status = "paid" /\ row.assessor = statements[i].assessor
        /\ row.generator = statements[i].generator /\ row.payer = Customer
    BY <1>1 DEF StatementRow
  <2>2. /\ statements' = [statements EXCEPT ![i] = row] /\ statements[i].status = "payment_pending"
        /\ UNCHANGED evidence
    BY <1>1, <1>6 DEF PayFeeFromWallet, PayableStatement, Settled
  <2> HIDE DEF row
  <2>3. \A x : AcceptedFor(x)' = AcceptedFor(x) BY <2>2 DEF AcceptedFor, IsEvidence
  <2>4. RowReviewed(row) BY <1>2, <2>1, <2>2 DEF RowReviewed, Assessed
  <2>5. AcceptedFor(StatementSubject(i)) = {}
    <3>1. FeeBy(i) = "none" BY <2>2 DEF FeeBy
    <3>2. QED BY <1>1, <3>1 DEF PaidInv, StatementsPaid, PaidBy
  <2>6. AcceptedFor(StatementSubject(i))' = {}
    <3> DEFINE x == StatementSubject(i)
    <3>1. AcceptedFor(x) = {} BY <2>5
    <3> HIDE DEF x
    <3>2. AcceptedFor(x)' = {} BY <2>3, <3>1
    <3>3. QED BY <3>2 DEF x, StatementSubject
  <2>7. row.status \in Payable BY <2>1 DEF Payable
  <2>8. QED BY <2>1, <2>2, <2>3, <2>4, <2>6, <2>7, QuietRecorders, FeeReviewMoves
<1>7. ASSUME NEW ref \in References, NEW s \in Staff, NEW matches \in BOOLEAN,
             RecordFeeEvidence(i, ref, s, matches)
      PROVE  FeeReviews'
  <2>1. StatementSubject(i) \in Subjects
    <3>1. i \in 1 .. MaxStatements BY <1>1, FeeConstants DEF FeeConstants, PaidInv
    <3>2. QED BY <3>1 DEF Subjects
  <2>2. /\ UNCHANGED statements /\ RecordEvidence(ref, StatementSubject(i), s, matches)
        /\ statements[i].status \in Payable /\ s \in Outsiders(i)
    BY <1>7 DEF RecordFeeEvidence, feeVars, Payable
  <2>3. \A x : AcceptedFor(x)' = AcceptedFor(x)
    BY <1>1, <2>1, <2>2, RecordsAcceptNothing DEF Outsiders
  <2>4. /\ RecordersStay
        /\ \A r \in References : IsEvidence(r)' =>
             \/ IsEvidence(r) /\ evidence'[r].subject = evidence[r].subject
             \/ evidence'[r].subject = StatementSubject(i) /\ evidence'[r].recorder = s
    BY <1>1, <2>2, RecordsKeep
  <2>5. \A j : AcceptedFor(StatementSubject(j))' = AcceptedFor(StatementSubject(j))
    BY <2>3 DEF StatementSubject
  <2>6. ASSUME NEW r \in References, NEW j \in Nat, IsEvidence(r)',
               evidence'[r].subject = StatementSubject(j),
               ~(IsEvidence(r) /\ evidence[r].subject = StatementSubject(j))
        PROVE  /\ j \in DOMAIN statements /\ statements[j].status \in Payable
               /\ evidence'[r].recorder \notin {statements[j].generator, statements[j].assessor}
    <3>1. StatementSubject(j) = StatementSubject(i) /\ evidence'[r].recorder = s BY <2>4, <2>6
    <3>2. j = i BY <3>1, SubjectsApart
    <3>3. QED BY <2>2, <3>1, <3>2 DEF Outsiders
  <2>7. QED BY <2>2, <2>4, <2>5, <2>6, FeeReviewQuiet
<1>8. QED BY <1>3, <1>4, <1>5, <1>6, <1>7 DEF StatementStep

\* A new statement nobody assessed or paid.
LEMMA FeeReviewGenerate ==
  ASSUME PaidInv, FeesTypeOK, FeeReviews, NEW s \in Staff, Generate(s)
  PROVE  FeeReviews'
<1>1. PICK row : statements' = Append(statements, row) /\ row.status = "pending_review"
  BY DEF Generate
<1>2. UNCHANGED evidence BY DEF Generate, orderVars
<1>3. statements \in Seq(StatementRow) BY DEF FeesTypeOK
<1> DEFINE n == Len(statements)
<1>4. /\ n \in Nat /\ DOMAIN statements = 1 .. n /\ DOMAIN statements' = 1 .. n + 1
      /\ \A j \in 1 .. n : statements'[j] = statements[j]
      /\ \A j \in 1 .. n + 1 : j \in 1 .. n \/ statements'[j].status = "pending_review"
  BY <1>1, <1>3
<1>5. RowsReviewed'
  <2>1. \A j \in DOMAIN statements' : RowReviewed(statements'[j])
    <3> SUFFICES ASSUME NEW j \in 1 .. n + 1 PROVE RowReviewed(statements'[j]) BY <1>4
    <3>1. CASE j \in 1 .. n BY <1>4, <3>1 DEF FeeReviews, RowsReviewed
    <3>2. CASE statements'[j].status = "pending_review" BY <3>2 DEF RowReviewed, Assessed
    <3>3. QED BY <1>4, <3>1, <3>2
  <2>2. QED BY <2>1 DEF RowsReviewed, RowReviewed
<1>6. RecordersApart'
  <2> SUFFICES ASSUME NEW ref \in References, NEW j \in Nat, IsEvidence(ref)',
                      evidence'[ref].subject = StatementSubject(j)
               PROVE  /\ j \in DOMAIN statements' /\ statements'[j].status \in Payable
                      /\ evidence'[ref].recorder \notin {statements'[j].generator, statements'[j].assessor}
    BY DEF RecordersApart, StatementSubject, Payable
  <2>1. /\ j \in DOMAIN statements /\ statements[j].status \in Payable
        /\ evidence[ref].recorder \notin {statements[j].generator, statements[j].assessor}
    BY <1>2 DEF FeeReviews, RecordersApart, IsEvidence
  <2>2. QED BY <1>2, <1>4, <2>1
<1>7. PayersApart'
  <2> SUFFICES ASSUME NEW j \in PaidStatements', NEW ref \in AcceptedFor(StatementSubject(j))'
               PROVE  evidence'[ref].recorder # statements'[j].payer
    BY DEF PayersApart, StatementSubject
  <2>1. j \in 1 .. n /\ statements'[j] = statements[j] BY <1>4 DEF PaidStatements
  <2>2. j \in PaidStatements BY <1>4, <2>1 DEF PaidStatements
  <2>3. ref \in AcceptedFor(StatementSubject(j))
    BY <1>2 DEF AcceptedFor, IsEvidence, StatementSubject
  <2>4. QED BY <1>2, <2>1, <2>2, <2>3 DEF FeeReviews, PayersApart
<1>8. QED BY <1>5, <1>6, <1>7 DEF FeeReviews

\* What an order does to evidence leaves the statements' alone.
LEMMA FeeReviewOrder ==
  ASSUME PaidInv, FeeReviews, UNCHANGED statements, NEW o \in Orders, OrderStep(o)
  PROVE  FeeReviews'
<1>1. EvidenceTyped BY DEF PaidInv
<1>2. CASE UNCHANGED evidence
  <2>1. \A i : AcceptedFor(StatementSubject(i))' = AcceptedFor(StatementSubject(i))
    BY <1>2 DEF AcceptedFor, IsEvidence, StatementSubject
  <2>2. QED BY <1>2, <2>1, QuietRecorders, FeeReviewQuiet DEF NoneNew
<1>3. ASSUME NEW ref \in References, NEW status \in {"accepted", "rejected"},
             Decidable(ref, OrderSubject(o)), MarkEvidence(ref, status)
      PROVE  FeeReviews'
  <2>1. RecordersStay /\ NoneNew BY <1>1, <1>3, MarksKeep
  <2>2. \A x : x # OrderSubject(o) => AcceptedFor(x)' = AcceptedFor(x) BY <1>1, <1>3, MarksAccept
  <2>3. \A i : AcceptedFor(StatementSubject(i))' = AcceptedFor(StatementSubject(i))
    <3> SUFFICES ASSUME NEW i
                 PROVE  AcceptedFor(StatementSubject(i))' = AcceptedFor(StatementSubject(i))
      OBVIOUS
    <3>1. StatementSubject(i) # OrderSubject(o) BY SubjectsApart
    <3> DEFINE x == StatementSubject(i)
    <3>2. x # OrderSubject(o) BY <3>1
    <3> HIDE DEF x
    <3>3. AcceptedFor(x)' = AcceptedFor(x) BY <2>2, <3>2
    <3>4. QED BY <3>3 DEF x, StatementSubject
  <2>4. QED BY <2>1, <2>3, FeeReviewQuiet DEF NoneNew
<1>4. ASSUME NEW ref \in References, NEW s \in Staff, NEW matches \in BOOLEAN,
             RecordEvidence(ref, OrderSubject(o), s, matches)
      PROVE  FeeReviews'
  <2>1. OrderSubject(o) \in Subjects BY DEF Subjects
  <2>2. \A x : AcceptedFor(x)' = AcceptedFor(x) BY <1>1, <1>4, <2>1, RecordsAcceptNothing
  <2>3. /\ RecordersStay
        /\ \A r \in References : IsEvidence(r)' =>
             \/ IsEvidence(r) /\ evidence'[r].subject = evidence[r].subject
             \/ evidence'[r].subject = OrderSubject(o) /\ evidence'[r].recorder = s
    BY <1>1, <1>4, RecordsKeep
  <2>4. \A i : AcceptedFor(StatementSubject(i))' = AcceptedFor(StatementSubject(i))
    BY <2>2 DEF StatementSubject
  <2>5. QED BY <2>3, <2>4, SubjectsApart, FeeReviewQuiet
<1>5. QED BY <1>2, <1>3, <1>4 DEF OrderStep, CreateOrder, RecordOrderEvidence, RejectOrder,
     ApproveOrder, MayDecide, SubmitOrder, PayOrderFromWallet

\* Nor does a statement accept anything for an order.
LEMMA OrderReviewStatement ==
  ASSUME PaidInv, FeesTypeOK, OrderReviewedByAnother, NEW i \in DOMAIN statements, StatementStep(i)
  PROVE  OrderReviewedByAnother'
<1>1. EvidenceTyped /\ statements \in Seq(StatementRow) BY DEF PaidInv, FeesTypeOK
<1>2. UNCHANGED orders
  BY DEF StatementStep, Assess, RecordFeeEvidence, RefusePayment, ConfirmPayment, PayFeeFromWallet,
     Settled, orderVars
<1>3. CASE UNCHANGED evidence
  <2>1. \A o \in Orders : AcceptedFor(OrderSubject(o))' = AcceptedFor(OrderSubject(o))
    BY <1>3 DEF AcceptedFor, IsEvidence, OrderSubject
  <2>2. QED BY <1>2, <1>3, <2>1, QuietRecorders, OrderReviewQuiet
<1>4. ASSUME NEW ref \in References, NEW status \in {"accepted", "rejected"},
             Decidable(ref, StatementSubject(i)), MarkEvidence(ref, status)
      PROVE  OrderReviewedByAnother'
  <2>1. RecordersStay BY <1>1, <1>4, MarksKeep
  <2>2. \A x : x # StatementSubject(i) => AcceptedFor(x)' = AcceptedFor(x)
    BY <1>1, <1>4, MarksAccept
  <2>3. \A o \in Orders : AcceptedFor(OrderSubject(o))' = AcceptedFor(OrderSubject(o))
    <3> SUFFICES ASSUME NEW o \in Orders
                 PROVE  AcceptedFor(OrderSubject(o))' = AcceptedFor(OrderSubject(o))
      OBVIOUS
    <3>1. OrderSubject(o) # StatementSubject(i) BY SubjectsApart
    <3> DEFINE x == OrderSubject(o)
    <3>2. x # StatementSubject(i) BY <3>1
    <3> HIDE DEF x
    <3>3. AcceptedFor(x)' = AcceptedFor(x) BY <2>2, <3>2
    <3>4. QED BY <3>3 DEF x, OrderSubject
  <2>4. QED BY <1>2, <2>1, <2>3, OrderReviewQuiet
<1>5. ASSUME NEW ref \in References, NEW s \in Staff, NEW matches \in BOOLEAN,
             RecordEvidence(ref, StatementSubject(i), s, matches)
      PROVE  OrderReviewedByAnother'
  <2>1. StatementSubject(i) \in Subjects
    <3>1. i \in 1 .. MaxStatements BY <1>1, FeeConstants DEF FeeConstants, PaidInv
    <3>2. QED BY <3>1 DEF Subjects
  <2>2. \A x : AcceptedFor(x)' = AcceptedFor(x) BY <1>1, <1>5, <2>1, RecordsAcceptNothing
  <2>3. RecordersStay BY <1>1, <1>5, RecordsKeep
  <2>4. \A o \in Orders : AcceptedFor(OrderSubject(o))' = AcceptedFor(OrderSubject(o))
    BY <2>2 DEF OrderSubject
  <2>5. QED BY <1>2, <2>3, <2>4, OrderReviewQuiet
<1>6. QED BY <1>3, <1>4, <1>5 DEF StatementStep, Assess, RecordFeeEvidence, RefusePayment,
     ConfirmPayment, MayConfirm, PayFeeFromWallet, orderVars, Outsiders

ReviewInv == OrderReviewedByAnother /\ FeeReviews

\* Neither orders nor evidence nor statements move.
LEMMA ReviewBeside ==
  ASSUME PaidInv, ReviewInv, UNCHANGED <<orders, statements, evidence>>
  PROVE  ReviewInv'
<1>1. \A o \in Orders : AcceptedFor(OrderSubject(o))' = AcceptedFor(OrderSubject(o))
  BY DEF AcceptedFor, IsEvidence, OrderSubject
<1>2. \A i : AcceptedFor(StatementSubject(i))' = AcceptedFor(StatementSubject(i))
  BY DEF AcceptedFor, IsEvidence, StatementSubject
<1>3. RecordersStay /\ NoneNew BY QuietRecorders
<1>4. OrderReviewedByAnother' BY <1>1, <1>3, OrderReviewQuiet DEF ReviewInv
<1>5. FeeReviews' BY <1>2, <1>3, FeeReviewQuiet DEF ReviewInv, NoneNew
<1>6. QED BY <1>4, <1>5 DEF ReviewInv

\* Every step keeps who reviewed what.
LEMMA ReviewStep ==
  OrdersTypeOK /\ FeesTypeOK /\ PaidInv /\ ReviewInv /\ [FeesStep]_<<feeVars, orderVars>> => ReviewInv'
<1> SUFFICES ASSUME OrdersTypeOK, FeesTypeOK, PaidInv, ReviewInv, [FeesStep]_<<feeVars, orderVars>>
             PROVE  ReviewInv'
  OBVIOUS
<1>1. ASSUME NEW w \in Weeks, NEW result \in Results, Realise(w, result) PROVE ReviewInv'
  BY <1>1, ReviewBeside DEF Realise, orderVars
<1>2. ASSUME NEW s \in Staff, Generate(s) PROVE ReviewInv'
  <2>1. UNCHANGED <<orders, evidence>> BY <1>2 DEF Generate, orderVars
  <2>2. \A o \in Orders : AcceptedFor(OrderSubject(o))' = AcceptedFor(OrderSubject(o))
    BY <2>1 DEF AcceptedFor, IsEvidence, OrderSubject
  <2>3. OrderReviewedByAnother' BY <2>1, <2>2, QuietRecorders, OrderReviewQuiet DEF ReviewInv
  <2>4. QED BY <1>2, <2>3, FeeReviewGenerate DEF ReviewInv
<1>3. ASSUME NEW i \in DOMAIN statements, StatementStep(i) PROVE ReviewInv'
  BY <1>3, FeeReviewStatement, OrderReviewStatement DEF ReviewInv
<1>4. ASSUME UNCHANGED feeVars, NEW o \in Orders, OrderStep(o) PROVE ReviewInv'
  BY <1>4, OrderReviewOrder, FeeReviewOrder DEF ReviewInv, feeVars
<1>5. ASSUME UNCHANGED feeVars, ActivateTrial \/ Tick \/ \E row \in Rows : EndPeriod(row)
      PROVE  ReviewInv'
  BY <1>5, ReviewBeside DEF feeVars, ActivateTrial, Tick, EndPeriod
<1>6. CASE UNCHANGED <<feeVars, orderVars>> BY <1>6, ReviewBeside DEF feeVars, orderVars
<1>7. QED BY <1>1, <1>2, <1>3, <1>4, <1>5, <1>6 DEF FeesStep, FeesNext, OrdersNext

\* Nothing was reviewed at first.
LEMMA ReviewInit ==
  OrdersInit /\ FeesInit /\ evidence = [ref \in References |-> NoEvidence] => ReviewInv
<1> SUFFICES ASSUME OrdersInit, FeesInit, evidence = [ref \in References |-> NoEvidence]
             PROVE  ReviewInv
  OBVIOUS
<1>1. OrderReviewedByAnother BY DEF OrdersInit, NoOrderYet, OrderReviewedByAnother, Activated
<1>2. statements = <<>> /\ DOMAIN statements = {} BY DEF FeesInit
<1>3. FeeReviews
  BY <1>2 DEF FeeReviews, RowsReviewed, RecordersApart, IsEvidence, PayersApart, PaidStatements
<1>4. QED BY <1>1, <1>3 DEF ReviewInv

-----------------------------------------------------------------------------
(* The whole *)

\* What every part knows of itself, and what the wallet says of the parts that move it.
CommerceInv ==
  /\ focus \in Foci
  /\ CreditInv /\ CreditsConserved
  /\ DepositInv /\ ClerksInv
  /\ AccessInv /\ WeeksInv /\ PaidInv /\ ProfitInv /\ ReviewInv
  /\ WalletInv

\* The sums of a state in which nothing was paid.
LEMMA WalletInit ==
  CommerceInit => WalletInv
<1> SUFFICES ASSUME CommerceInit PROVE WalletInv OBVIOUS
<1>1. Credited = {} BY DEF CommerceInit, DepositsInit, Credited
<1>2. WalletOrders = {} BY DEF CommerceInit, OrdersInit, NoOrderYet, WalletOrders, Activated
<1>3. WalletStatements = {} BY DEF CommerceInit, FeesInit, WalletStatements, PaidStatements
<1>4. CreditedTotal = 0 /\ OrdersTotal = 0 /\ StatementsTotal = 0
  BY <1>1, <1>2, <1>3, TotalEmpty DEF CreditedTotal, OrdersTotal, StatementsTotal
<1>5. OpeningWallet \in Nat BY CommerceConstants DEF CommerceConstants, OpeningWallet
<1>6. IsFiniteSet(Credited) /\ IsFiniteSet(WalletOrders) BY <1>1, <1>2, FS_EmptySet
<1>7. wallet = OpeningWallet BY DEF CommerceInit
<1>8. QED BY <1>4, <1>5, <1>6, <1>7 DEF WalletInv

\* It holds at first.
LEMMA CommerceInvInit == CommerceInit => CommerceInv
BY CreditInvInit, ConservedInit, DepositInvInit, ClerksInit, AccessInit, WeeksInit, PaidInit,
   ProfitInit, ReviewInit, WalletInit
DEF CommerceInit, CommerceInv

\* The parts keep their own invariants, and each other's.
LEMMA CommerceInvStep == CommerceInv /\ [CommerceNext]_commerceVars => CommerceInv'
<1> SUFFICES ASSUME CommerceInv, [CommerceNext]_commerceVars PROVE CommerceInv' OBVIOUS
<1> USE DEF CommerceInv
<1>1. OrdersTypeOK /\ FeesTypeOK BY DEF AccessInv, WeeksInv
<1> DEFINE Parts == CreditInv' /\ CreditsConserved' /\ DepositInv' /\ ClerksInv' /\ AccessInv'
                    /\ WeeksInv' /\ PaidInv' /\ ProfitInv' /\ ReviewInv'
<1>2. ASSUME UNCHANGED <<feeVars, clock, orders, memberships, entitlements, evidence>>,
             UNCHANGED ledgerVars \/ DepositsNext
      PROVE  AccessInv' /\ WeeksInv' /\ PaidInv' /\ ProfitInv' /\ ReviewInv'
  <2>1. AccessInv' BY <1>2, AccessStep
  <2>2. WeeksInv' /\ ProfitInv' BY <1>2, WeeksBeside, ProfitStays
  <2>3. PaidInv' BY <1>2, PaidBeside DEF feeVars
  <2>4. ReviewInv' BY <1>2, ReviewBeside DEF feeVars
  <2>5. QED BY <2>1, <2>2, <2>3, <2>4
<1>3. ASSUME CreditsNext, UNCHANGED <<depositOnly, feeVars, clock, orders, memberships, entitlements,
                                      evidence, ledgerVars>>
      PROVE  Parts
  <2>1. CreditInv' /\ CreditsConserved' BY <1>3, CreditInvStep, ConservedStep
  <2>2. DepositInv' /\ ClerksInv' BY <1>3, DepositsBeside, ClerksBeside
  <2>3. QED BY <1>2, <1>3, <2>1, <2>2
<1>4. ASSUME DepositsNext, UNCHANGED <<creditOnly, feeVars, clock, orders, memberships, entitlements,
                                       evidence, account, granted>>
      PROVE  Parts
  <2>1. CreditInv' /\ CreditsConserved' BY <1>4, CreditsBeside
  <2>2. DepositInv' BY <1>4, DepositInvStep
  <2>3. ClerksInv' BY <1>4, <2>2, ClerksStep
  <2>4. QED BY <1>2, <1>4, <2>1, <2>2, <2>3
<1>5. ASSUME FeesStep, UNCHANGED <<creditOnly, depositOnly>> PROVE Parts
  <2>1. CreditInv' /\ CreditsConserved' BY <1>5, FeesGrant, CreditsBeside
  <2>2. DepositInv' /\ ClerksInv' BY <1>5, DepositsBeside, ClerksBeside
  <2>3. AccessInv' BY <1>5, AccessInvStep
  <2>4. WeeksInv' BY <1>1, <1>5, WeeksStep
  <2>5. PaidInv' BY <1>1, <1>5, PaidStep
  <2>6. ProfitInv' BY <1>1, <1>5, ProfitStep
  <2>7. ReviewInv' BY <1>1, <1>5, ReviewStep
  <2>8. QED BY <2>1, <2>2, <2>3, <2>4, <2>5, <2>6, <2>7
<1>6. ASSUME UNCHANGED commerceVars PROVE Parts
  <2>1. CreditInv' /\ CreditsConserved'
    BY <1>6, CreditsBeside DEF commerceVars, orderVars
  <2>2. DepositInv' /\ ClerksInv'
    BY <1>6, DepositsBeside, ClerksBeside DEF commerceVars, orderVars
  <2>3. QED BY <1>2, <1>6, <2>1, <2>2 DEF commerceVars, orderVars
<1>7. Parts BY <1>3, <1>4, <1>5, <1>6, WholeStep
<1>8. PartsInv /\ PartsInv' BY <1>1, <1>7 DEF PartsInv, AccessInv, WeeksInv
<1>9. WalletInv' BY <1>8, WalletStep
<1>10. focus' \in Foci BY WholeStep
<1>11. QED BY <1>7, <1>9, <1>10

\* Deposits, orders, fees and AI requests together keep what each part knows of itself and
\* what the wallet says of all of them.
THEOREM CommerceInvariant == CommerceSpec => []CommerceInv
BY CommerceInvInit, CommerceInvStep, PTL DEF CommerceSpec

\* Every variable of the commercial side keeps its type; the wallet is a natural number.
THEOREM CommerceTypes == CommerceSpec => []CommerceTypeOK
<1>1. CommerceInv => CommerceTypeOK
  BY DEF CommerceInv, CommerceTypeOK, CreditInv, DepositInv, AccessInv, WeeksInv, WalletInv,
     PaidInv, EvidenceTyped, IsEvidence
<1>2. QED BY <1>1, CommerceInvariant, PTL

\* The wallet holds what deposits credited less what orders and statements took, after any
\* number of them in any order (postCommercialLedgerTransaction of commercial-ledger-service.ts).
THEOREM WalletAlwaysMatches == CommerceSpec => []WalletMatchesPayments
<1>1. CommerceInv => WalletMatchesPayments BY WalletImplies DEF CommerceInv
<1>2. QED BY <1>1, CommerceInvariant, PTL

\* Whoever credits a deposit, activates an order paid outside or closes a fee is another
\* person than whoever asked, recorded, generated or assessed.
THEOREM AlwaysReviewedByOthers == CommerceSpec => []ReviewedByOthers
<1>1. CommerceInv => ReviewedByOthers
  BY FeeReviewsImply DEF CommerceInv, ReviewedByOthers, ClerksInv, ReviewInv, WeeksInv
<1>2. QED BY <1>1, CommerceInvariant, PTL

\* The parts' own properties hold of the whole: no other part disturbs them.
THEOREM PartsHoldOfTheWhole ==
  CommerceSpec =>
    [](/\ CreditsConserved /\ ReservedIsHeld /\ ChargedIffDelivered /\ OneInference
       /\ OneAddressAtATime /\ CreditMatchesTransfer
       /\ AccessIsPaidFor /\ WeeksInSequence /\ ReferencePaysOnce /\ ProfitChargedOnce)
<1>1. CommerceInv =>
        /\ CreditsConserved /\ ReservedIsHeld /\ ChargedIffDelivered /\ OneInference
        /\ OneAddressAtATime /\ CreditMatchesTransfer
        /\ AccessIsPaidFor /\ WeeksInSequence /\ ReferencePaysOnce /\ ProfitChargedOnce
  BY InvImpliesProperties, PaidImplies, ProfitImplies
  DEF CommerceInv, CreditInv, RowsInv, HandlersInv, AccessInv, WeeksInv
<1>2. QED BY <1>1, CommerceInvariant, PTL

-----------------------------------------------------------------------------
(* The account within the whole *)

\* The other parts reach the account through the grants of activated orders alone.
LEMMA AccountBeside ==
  ASSUME CreditsTypeOK, UNCHANGED creditOnly, AddCredits(Grant) \/ UNCHANGED <<account, granted>>
  PROVE  [Account!Next]_(Account!vars)
<1>1. UNCHANGED <<inference, charged>> BY DEF creditOnly
<1>2. CASE AddCredits(Grant)
  <2>1. Grant \in Int BY CreditConstants DEF CreditConstants
  <2>2. Account!Adjust BY <1>1, <1>2, <2>1, SeesAdjust
  <2>3. QED BY <2>2 DEF Account!Next
<1>3. CASE UNCHANGED <<account, granted>> BY <1>1, <1>3, SeesNothing DEF Reservations
<1>4. QED BY <1>2, <1>3

\* Orders and fees beside the requests leave the abstract account its promise: the whole
\* implements it as well, with the grants that activated orders bring (decideMembershipOrder of
\* commercial-membership-service.ts) among its adjustments.
THEOREM WholeRefinesCreditAccount == CommerceSpec => ImplementsCreditAccount
<1>1. CommerceInit => Account!Init BY AccountInit DEF CommerceInit
<1>2. CommerceInv /\ [CommerceNext]_commerceVars => [Account!Next]_(Account!vars)
  <2> SUFFICES ASSUME CommerceInv, [CommerceNext]_commerceVars PROVE [Account!Next]_(Account!vars)
    OBVIOUS
  <2>1. CreditInv /\ CreditsTypeOK BY DEF CommerceInv, CreditInv
  <2>2. CASE CreditsNext BY <2>1, <2>2, AccountStep
  <2>3. CASE FeesStep /\ UNCHANGED creditOnly BY <2>1, <2>3, FeesGrant, AccountBeside
  <2>4. CASE UNCHANGED <<creditOnly, account, granted>> BY <2>1, <2>4, AccountBeside
  <2>5. UNCHANGED commerceVars => UNCHANGED <<creditOnly, account, granted>>
    BY DEF commerceVars, orderVars
  <2>6. QED BY <2>2, <2>3, <2>4, <2>5, WholeStep
<1>3. QED BY <1>1, <1>2, CommerceInvariant, PTL
      DEF CommerceSpec, ImplementsCreditAccount, Account!Spec

-----------------------------------------------------------------------------
(* The books of the whole *)

\* Accepted evidence stays accepted, for the same subject.
AcceptedGrows == \A x : AcceptedFor(x) \subseteq AcceptedFor(x)'

\* Whatever touches evidence records a new row or decides on one.
LEMMA AcceptedStays ==
  ASSUME FeesTypeOK, PaidInv, [CommerceNext]_commerceVars
  PROVE  AcceptedGrows
<1>1. ASSUME UNCHANGED evidence PROVE AcceptedGrows
  BY <1>1 DEF AcceptedGrows, AcceptedFor, IsEvidence
<1>2. ASSUME NEW ref \in References, NEW subject \in Subjects, NEW s \in Staff,
             NEW matches \in BOOLEAN, RecordEvidence(ref, subject, s, matches)
      PROVE  AcceptedGrows
  BY <1>2, RecordsAcceptNothing DEF PaidInv, AcceptedGrows
<1>3. ASSUME NEW ref \in References, NEW subject, Decidable(ref, subject),
             NEW status \in {"accepted", "rejected"}, MarkEvidence(ref, status)
      PROVE  AcceptedGrows
  <2>1. \A x : AcceptedFor(x)' = IF x = subject /\ status = "accepted"
                                 THEN AcceptedFor(x) \cup {ref} ELSE AcceptedFor(x)
    BY <1>3, MarksAccept DEF PaidInv
  <2>2. QED BY <2>1 DEF AcceptedGrows
<1>4. ASSUME NEW o \in Orders, OrderStep(o) PROVE AcceptedGrows
  <2>1. OrderSubject(o) \in Subjects BY DEF Subjects
  <2>2. ASSUME NEW ref \in References, NEW s \in Staff, NEW matches \in BOOLEAN,
               RecordOrderEvidence(o, ref, s, matches)
        PROVE  AcceptedGrows
    BY <1>2, <2>1, <2>2 DEF RecordOrderEvidence
  <2>3. ASSUME NEW ref \in References, NEW s \in Staff, RejectOrder(o, ref, s)
        PROVE  AcceptedGrows
    BY <1>3, <2>3 DEF RejectOrder, MayDecide
  <2>4. ASSUME NEW ref \in References, NEW s \in Staff, ApproveOrder(o, ref, s)
        PROVE  AcceptedGrows
    BY <1>3, <2>4 DEF ApproveOrder, MayDecide
  <2>5. QED
    BY <1>1, <1>4, <2>2, <2>3, <2>4 DEF OrderStep, CreateOrder, SubmitOrder, PayOrderFromWallet
<1>5. ASSUME NEW i \in DOMAIN statements, StatementStep(i) PROVE AcceptedGrows
  <2>1. StatementSubject(i) \in Subjects
    <3>1. Len(statements) <= MaxStatements /\ MaxStatements \in Nat /\ Len(statements) \in Nat
          /\ i \in 1 .. Len(statements)
      BY <1>5, FeeConstants DEF FeesTypeOK, PaidInv, FeeConstants
    <3>2. i \in 1 .. MaxStatements BY <3>1
    <3>3. QED BY <3>2 DEF Subjects
  <2>2. ASSUME NEW ref \in References, NEW s \in Staff, NEW matches \in BOOLEAN,
               RecordFeeEvidence(i, ref, s, matches)
        PROVE  AcceptedGrows
    BY <1>2, <2>1, <2>2 DEF RecordFeeEvidence
  <2>3. ASSUME NEW ref \in References, NEW s \in Staff, RefusePayment(i, ref, s)
        PROVE  AcceptedGrows
    BY <1>3, <2>3 DEF RefusePayment, MayConfirm
  <2>4. ASSUME NEW ref \in References, NEW s \in Staff, ConfirmPayment(i, ref, s)
        PROVE  AcceptedGrows
    BY <1>3, <2>4 DEF ConfirmPayment, MayConfirm
  <2>5. ASSUME NEW s \in Staff, NEW approve \in BOOLEAN, Assess(i, s, approve)
        PROVE  UNCHANGED evidence
    BY <2>5 DEF Assess, orderVars
  <2>6. CASE PayFeeFromWallet(i) BY <1>1, <2>6 DEF PayFeeFromWallet
  <2>7. QED BY <1>1, <1>5, <2>2, <2>3, <2>4, <2>5, <2>6 DEF StatementStep
<1>6. ASSUME FeesStep PROVE AcceptedGrows
  <2>1. ASSUME ActivateTrial \/ Tick \/ \E row \in Rows : EndPeriod(row) PROVE UNCHANGED evidence
    BY <2>1 DEF ActivateTrial, Tick, EndPeriod
  <2>2. ASSUME NEW s \in Staff, Generate(s) PROVE UNCHANGED evidence
    BY <2>2 DEF Generate, orderVars
  <2>3. ASSUME NEW w \in Weeks, NEW result \in Results, Realise(w, result)
        PROVE  UNCHANGED evidence
    BY <2>3 DEF Realise, orderVars
  <2>4. CASE FeesNext BY <1>1, <1>5, <1>6, <2>2, <2>3, <2>4 DEF FeesNext
  <2>5. CASE OrdersNext BY <1>1, <1>4, <2>1, <2>5 DEF OrdersNext
  <2>6. QED BY <1>6, <2>4, <2>5 DEF FeesStep
<1>7. UNCHANGED commerceVars => UNCHANGED evidence BY DEF commerceVars, orderVars
<1>8. QED BY <1>1, <1>6, <1>7, WholeStep

\* One row of evidence is accepted for one subject.
LEMMA AcceptedApart ==
  \A x, y : x # y => /\ AcceptedFor(x) \cap AcceptedFor(y) = {}
                     /\ AcceptedFor(x)' \cap AcceptedFor(y)' = {}
BY DEF AcceptedFor

\* The same entry, with references that only grow, is the same payment.
LEMMA SamePayment ==
  ASSUME NEW by, NEW by2, NEW entries, NEW accepted, NEW accepted2, NEW key, NEW delta, NEW delta2,
         PaidBy(by, entries, accepted, key, delta), PaidBy(by2, entries, accepted2, key, delta2),
         accepted \subseteq accepted2
  PROVE  by = by2 /\ accepted = accepted2 /\ (by # "none" => delta = delta2)
<1>1. entries = IF by = "none" THEN {} ELSE Entry(key, by, delta) BY DEF PaidBy, Entry
<1>2. entries = IF by2 = "none" THEN {} ELSE Entry(key, by2, delta2) BY DEF PaidBy, Entry
<1>3. by = by2 /\ (by # "none" => delta = delta2) BY <1>1, <1>2, SameEntry
<1>4. accepted = accepted2
  <2>1. CASE by # "evidence" BY <1>3, <2>1 DEF PaidBy
  <2>2. CASE by = "evidence"
    <3>1. PICK r \in References : accepted = {r} BY <2>2 DEF PaidBy
    <3>2. PICK t \in References : accepted2 = {t} BY <1>3, <2>2 DEF PaidBy
    <3>3. QED BY <3>1, <3>2
  <2>3. QED BY <2>1, <2>2
<1>5. QED BY <1>3, <1>4

\* A payment where there was none is the one its new entry names.
LEMMA NewPayment ==
  ASSUME NEW by, NEW by2, NEW accepted, NEW accepted2, NEW key, NEW delta, NEW delta2,
         NEW how, NEW amount,
         PaidBy(by, {}, accepted, key, delta), PaidBy(by2, Entry(key, how, amount), accepted2, key, delta2)
  PROVE  by = "none" /\ accepted = {} /\ by2 = how /\ delta2 = amount
<1>1. by = "none" BY DEF PaidBy
<1>2. by2 # "none" BY SameEntry DEF PaidBy
<1>3. Entry(key, how, amount) = Entry(key, by2, delta2) BY <1>2 DEF PaidBy, Entry
<1>4. QED BY <1>1, <1>3, SameEntry DEF PaidBy

\* The receipt of a payable, in this state and the next.
LEMMA ReceiptOf ==
  /\ \A d \in DepositOrders : /\ Receipts[DepositKey(d)] = DepositReceipt(d)
                              /\ Receipts'[DepositKey(d)] = DepositReceipt(d)'
  /\ \A o \in Orders : /\ Receipts[PurchaseKey(o)] = OrderReceipt(o)
                       /\ Receipts'[PurchaseKey(o)] = OrderReceipt(o)'
  /\ \A i \in 1 .. MaxStatements : /\ Receipts[StatementKey(i)] = StatementReceipt(i)
                                   /\ Receipts'[StatementKey(i)] = StatementReceipt(i)'
<1>1. ASSUME NEW d \in DepositOrders
      PROVE  /\ Receipts[DepositKey(d)] = DepositReceipt(d)
             /\ Receipts'[DepositKey(d)] = DepositReceipt(d)'
  BY DEF Receipts, DepositReceipt, DepositKey, DepositKeys
<1>2. ASSUME NEW o \in Orders
      PROVE  /\ Receipts[PurchaseKey(o)] = OrderReceipt(o)
             /\ Receipts'[PurchaseKey(o)] = OrderReceipt(o)'
  BY DEF Receipts, OrderReceipt, PurchaseKey, DueKeys, OrderDelta, OrderSubject
<1>3. ASSUME NEW i \in 1 .. MaxStatements
      PROVE  /\ Receipts[StatementKey(i)] = StatementReceipt(i)
             /\ Receipts'[StatementKey(i)] = StatementReceipt(i)'
  BY DEF Receipts, StatementReceipt, StatementKey, DueKeys, FeeBy, FeeDelta, StatementSubject
<1>4. QED BY <1>1, <1>2, <1>3

\* A payable whose entry did not change has the receipt it had.
LEMMA DepositReceiptStays ==
  ASSUME DepositInv, DepositInv', NEW d \in DepositOrders,
         EntriesOf(DepositKey(d))' = EntriesOf(DepositKey(d))
  PROVE  DepositReceipt(d)' = DepositReceipt(d)
BY CreditedOne DEF DepositReceipt

\* The same of an order.
LEMMA OrderReceiptStays ==
  ASSUME PaidInv, PaidInv', AcceptedGrows, NEW o \in Orders,
         EntriesOf(PurchaseKey(o))' = EntriesOf(PurchaseKey(o))
  PROVE  OrderReceipt(o)' = OrderReceipt(o)
<1>1. PaidBy(orders[o].route, EntriesOf(PurchaseKey(o)), AcceptedFor(OrderSubject(o)),
             PurchaseKey(o), OrderDelta(o))
  BY DEF PaidInv, OrdersPaid
<1>2. PaidBy(orders'[o].route, EntriesOf(PurchaseKey(o)), AcceptedFor(OrderSubject(o))',
             PurchaseKey(o), OrderDelta(o)')
  BY DEF PaidInv, OrdersPaid, PaidBy, PurchaseKey, OrderSubject
<1>3. AcceptedFor(OrderSubject(o)) \subseteq AcceptedFor(OrderSubject(o))'
  BY DEF AcceptedGrows, OrderSubject
<1>4. /\ orders[o].route = orders'[o].route
      /\ AcceptedFor(OrderSubject(o)) = AcceptedFor(OrderSubject(o))'
      /\ orders[o].route # "none" => OrderDelta(o) = OrderDelta(o)'
  BY <1>1, <1>2, <1>3, SamePayment
<1>5. orders[o].route = "none" => OrderDelta(o) = 0 BY DEF OrderDelta, DeltaOf
<1>6. orders'[o].route = "none" => OrderDelta(o)' = 0 BY DEF OrderDelta, DeltaOf
<1>7. QED BY <1>4, <1>5, <1>6 DEF OrderReceipt

\* And of a statement.
LEMMA StatementReceiptStays ==
  ASSUME PaidInv, PaidInv', AcceptedGrows, NEW i \in Nat,
         EntriesOf(StatementKey(i))' = EntriesOf(StatementKey(i))
  PROVE  StatementReceipt(i)' = StatementReceipt(i)
<1>1. PaidBy(FeeBy(i), EntriesOf(StatementKey(i)), AcceptedFor(StatementSubject(i)),
             StatementKey(i), FeeDelta(i))
  BY DEF PaidInv, StatementsPaid
<1>2. PaidBy(FeeBy(i)', EntriesOf(StatementKey(i)), AcceptedFor(StatementSubject(i))',
             StatementKey(i), FeeDelta(i)')
  BY DEF PaidInv, StatementsPaid, PaidBy, StatementKey, StatementSubject
<1>3. AcceptedFor(StatementSubject(i)) \subseteq AcceptedFor(StatementSubject(i))'
  BY DEF AcceptedGrows, StatementSubject
<1>4. /\ FeeBy(i) = FeeBy(i)'
      /\ AcceptedFor(StatementSubject(i)) = AcceptedFor(StatementSubject(i))'
      /\ FeeBy(i) # "none" => FeeDelta(i) = FeeDelta(i)'
  BY <1>1, <1>2, <1>3, SamePayment
<1>5. FeeBy(i) = "none" => FeeDelta(i) = 0 BY DEF FeeDelta
<1>6. FeeBy(i)' = "none" => FeeDelta(i)' = 0 BY DEF FeeDelta
<1>7. QED BY <1>4, <1>5, <1>6 DEF StatementReceipt

\* What the books know.
Keys == DepositKeys \cup DueKeys

\* Every key is that of a deposit, an order or a statement.
LEMMA KindsOfKeys ==
  ASSUME NEW k \in Keys
  PROVE  \/ \E d \in DepositOrders : k = DepositKey(d)
         \/ \E o \in Orders : k = PurchaseKey(o)
         \/ \E i \in 1 .. MaxStatements : k = StatementKey(i)
BY DEF Keys, DepositKeys, DueKeys

\* A key whose entry did not change has the receipt it had.
LEMMA ReceiptStays ==
  ASSUME PartsInv, PartsInv', AcceptedGrows, NEW k \in Keys, EntriesOf(k)' = EntriesOf(k)
  PROVE  Receipts'[k] = Receipts[k]
<1> USE DEF PartsInv
<1>1. ASSUME NEW d \in DepositOrders, k = DepositKey(d) PROVE Receipts'[k] = Receipts[k]
  <2>1. EntriesOf(DepositKey(d))' = EntriesOf(DepositKey(d)) BY <1>1 DEF DepositKey
  <2>2. DepositReceipt(d)' = DepositReceipt(d) BY <2>1, DepositReceiptStays
  <2>3. QED BY <1>1, <2>2, ReceiptOf
<1>2. ASSUME NEW o \in Orders, k = PurchaseKey(o) PROVE Receipts'[k] = Receipts[k]
  <2>1. EntriesOf(PurchaseKey(o))' = EntriesOf(PurchaseKey(o)) BY <1>2 DEF PurchaseKey
  <2>2. OrderReceipt(o)' = OrderReceipt(o) BY <2>1, OrderReceiptStays
  <2>3. QED BY <1>2, <2>2, ReceiptOf
<1>3. ASSUME NEW i \in 1 .. MaxStatements, k = StatementKey(i) PROVE Receipts'[k] = Receipts[k]
  <2>1. EntriesOf(StatementKey(i))' = EntriesOf(StatementKey(i)) BY <1>3 DEF StatementKey
  <2>2. StatementReceipt(i)' = StatementReceipt(i) BY <2>1, StatementReceiptStays
  <2>3. QED BY <1>3, <2>2, ReceiptOf
<1>4. QED BY <1>1, <1>2, <1>3, KindsOfKeys

\* What a key's references are evidence of; a deposit has none.
SubjectOf(k) ==
  CASE k[1] = "deposit" -> k
    [] k[1] = "membership" -> OrderSubject(k[2])
    [] OTHER -> StatementSubject(k[2])

\* The subjects of the three kinds of keys.
LEMMA SubjectIs ==
  /\ \A d : SubjectOf(DepositKey(d)) = <<"deposit", d>>
  /\ \A o : SubjectOf(PurchaseKey(o)) = OrderSubject(o)
  /\ \A i : SubjectOf(StatementKey(i)) = StatementSubject(i)
BY DEF SubjectOf, DepositKey, PurchaseKey, StatementKey

\* The references of a receipt were accepted for its subject.
LEMMA RefsAreAccepted ==
  ASSUME NEW k \in Keys
  PROVE  /\ Receipts[k].refs \subseteq AcceptedFor(SubjectOf(k))
         /\ Receipts'[k].refs \subseteq AcceptedFor(SubjectOf(k))'
<1>1. ASSUME NEW d \in DepositOrders, k = DepositKey(d)
      PROVE  Receipts[k].refs = {} /\ Receipts'[k].refs = {}
  <2>1. Receipts[k] = DepositReceipt(d) /\ Receipts'[k] = DepositReceipt(d)' BY <1>1, ReceiptOf
  <2>2. DepositReceipt(d).refs = {} /\ DepositReceipt(d)'.refs = {} BY DEF DepositReceipt
  <2>3. QED BY <2>1, <2>2
<1>2. ASSUME NEW o \in Orders, k = PurchaseKey(o)
      PROVE  /\ Receipts[k].refs = AcceptedFor(SubjectOf(k))
             /\ Receipts'[k].refs = AcceptedFor(SubjectOf(k))'
  <2>1. SubjectOf(k) = OrderSubject(o) BY <1>2, SubjectIs
  <2>2. Receipts[k] = OrderReceipt(o) /\ Receipts'[k] = OrderReceipt(o)' BY <1>2, ReceiptOf
  <2>3. OrderReceipt(o).refs = AcceptedFor(OrderSubject(o)) /\ OrderReceipt(o)'.refs = AcceptedFor(OrderSubject(o))'
    BY DEF OrderReceipt
  <2>4. QED BY <2>1, <2>2, <2>3 DEF SubjectOf, OrderSubject, StatementSubject
<1>3. ASSUME NEW i \in 1 .. MaxStatements, k = StatementKey(i)
      PROVE  /\ Receipts[k].refs = AcceptedFor(SubjectOf(k))
             /\ Receipts'[k].refs = AcceptedFor(SubjectOf(k))'
  <2>1. SubjectOf(k) = StatementSubject(i) BY <1>3, SubjectIs
  <2>2. Receipts[k] = StatementReceipt(i) /\ Receipts'[k] = StatementReceipt(i)' BY <1>3, ReceiptOf
  <2>3. StatementReceipt(i).refs = AcceptedFor(StatementSubject(i)) /\ StatementReceipt(i)'.refs = AcceptedFor(StatementSubject(i))'
    BY DEF StatementReceipt
  <2>4. QED BY <2>1, <2>2, <2>3 DEF SubjectOf, OrderSubject, StatementSubject
<1>4. QED BY <1>1, <1>2, <1>3, KindsOfKeys

\* No two receipts name one reference.
LEMMA RefsApart ==
  ASSUME NEW j \in Keys, NEW k \in Keys, j # k
  PROVE  Receipts'[j].refs \cap Receipts'[k].refs = {}
<1>1. SubjectOf(j) # SubjectOf(k)
  <2>1. \A x, y : x # y => /\ OrderSubject(x) # OrderSubject(y)
                           /\ StatementSubject(x) # StatementSubject(y)
    BY KeysDiffer
  <2>2. \A d, x : /\ <<"deposit", d>> # OrderSubject(x) /\ <<"deposit", d>> # StatementSubject(x)
    BY DEF OrderSubject, StatementSubject
  <2>3. \A x, y : OrderSubject(x) # StatementSubject(y) BY KeysDiffer
  <2>4. \A d : DepositKey(d) = <<"deposit", d>> BY DEF DepositKey
  <2>5. QED BY <2>1, <2>2, <2>3, <2>4, SubjectIs, KindsOfKeys
<1>2. PICK x, y : x = SubjectOf(j) /\ y = SubjectOf(k) OBVIOUS
<1>3. Receipts'[j].refs \subseteq AcceptedFor(x)' /\ Receipts'[k].refs \subseteq AcceptedFor(y)'
  BY <1>2, RefsAreAccepted
<1>4. AcceptedFor(x)' \cap AcceptedFor(y)' = {} BY <1>1, <1>2, AcceptedApart
<1>5. QED BY <1>3, <1>4

\* One new receipt, for what the wallet moved by, is a writing of the book.
LEMMA Writes ==
  ASSUME NEW k \in Keys, NEW by, NEW amount \in Int, NEW refs,
         Receipts[k] = Book!NoReceipt,
         Receipts'[k] = [by |-> by, amount |-> amount, refs |-> refs],
         \A j \in Keys \ {k} : Receipts'[j] = Receipts[j],
         wallet \in Nat, wallet' = wallet + amount, wallet' \in Nat
  PROVE  Book!Write(k, by, refs)
<1>1. wallet' - wallet = amount OBVIOUS
<1>2. DOMAIN Receipts = Keys /\ DOMAIN Receipts' = Keys BY DEF Receipts, Keys
<1>3. Receipts = [j \in Keys |-> Receipts[j]] /\ Receipts' = [j \in Keys |-> Receipts'[j]]
  BY DEF Receipts, Keys
<1>4. Receipts' = [Receipts EXCEPT ![k] = [by |-> by, amount |-> amount, refs |-> refs]]
  BY <1>2, <1>3
<1>5. QED BY <1>1, <1>4 DEF Book!Write

\* The credit of a deposit.
LEMMA BookCredits ==
  ASSUME PartsInv, PartsInv', AcceptedGrows, wallet \in Nat,
         NEW q \in Tickets, NEW c \in Clerks, ApproveCredit(q, c), ~UNCHANGED ledgerVars
  PROVE  Book!Next
<1> USE DEF PartsInv
<1>1. PICK d : d = ticket[q].order OBVIOUS
<1>2. /\ deposit[d].status = "MANUAL_REVIEW" /\ deposit[d].amount > 0
      /\ PostTransaction(DepositKey(d), "credit", deposit[d].amount)
      /\ deposit' = [deposit EXCEPT ![d].status = "CREDITED"] /\ CloseTicket(q, c, "approved")
  BY <1>1 DEF ApproveCredit, SetDeposit
<1>3. d \in DepositOrders BY <1>1, <1>2 DEF CloseTicket, DepositInv, TicketsName
<1>4. /\ deposit'[d].status = "CREDITED" /\ deposit'[d].amount = deposit[d].amount
      /\ deposit[d].amount \in Int
  <2>1. DepositsTypeOK BY DEF DepositInv
  <2>2. "CREDITED" \in DepositStatuses BY DEF DepositStatuses
  <2>3. deposit'[d].status = "CREDITED" /\ FundsFieldsSame(d) BY <1>2, <1>3, <2>1, <2>2, StatusChange
  <2>4. QED BY <1>3, <2>1, <2>3, AmountsAreInts DEF FundsFieldsSame
<1>5. PICK amount \in Int : amount = deposit[d].amount BY <1>4
<1>6. wallet' = wallet + amount /\ wallet' \in Nat BY <1>2, <1>5, PostMoves
<1>7. PICK k \in Keys : k = DepositKey(d) /\ k \in DepositKeys BY <1>3 DEF Keys, DepositKeys
<1>8. PostTransaction(k, "credit", amount) BY <1>2, <1>5, <1>7
<1>9. \A j \in Keys \ {k} : Receipts'[j] = Receipts[j] BY <1>8, PostsElsewhere, ReceiptStays
<1>10. DepositReceipt(d) = Book!NoReceipt
  BY <1>2, <1>3 DEF DepositReceipt, Credited, Book!NoReceipt
<1>11. DepositReceipt(d)' = [by |-> "credit", amount |-> amount, refs |-> {}]
  BY <1>3, <1>4, <1>5 DEF DepositReceipt, Credited
<1>12. Receipts[k] = Book!NoReceipt /\ Receipts'[k] = [by |-> "credit", amount |-> amount, refs |-> {}]
  BY <1>3, <1>7, <1>10, <1>11, ReceiptOf
<1>13. Book!Write(k, "credit", {}) BY <1>6, <1>9, <1>12, Writes
<1>14. wallet' > wallet BY <1>2, <1>5, <1>6
<1>15. QED BY <1>7, <1>13, <1>14 DEF Book!Next, Book!Credit

\* A payment of something due: what it says of the row is all the book asks of a payment.
LEMMA BookPays ==
  ASSUME wallet \in Nat, wallet' \in Nat,
         NEW k \in DueKeys, NEW by \in {"wallet", "evidence"}, NEW amount \in Int, NEW refs,
         wallet' = wallet + amount,
         \A j \in Keys \ {k} : Receipts'[j] = Receipts[j],
         Receipts[k] = Book!NoReceipt,
         Receipts'[k] = [by |-> by, amount |-> amount, refs |-> refs],
         by = "wallet" => amount <= 0 /\ refs = {},
         by = "evidence" => amount = 0 /\ \E ref \in References : refs = {ref}
  PROVE  Book!Next
<1>1. k \in Keys BY DEF Keys
<1>2. Book!Write(k, by, refs) BY <1>1, Writes
<1>3. CASE by = "wallet"
  <2>1. wallet' <= wallet /\ refs = {} BY <1>3
  <2>2. QED BY <1>2, <1>3, <2>1 DEF Book!Next, Book!PayFromWallet
<1>4. CASE by = "evidence"
  <2>1. PICK ref \in References : refs = {ref} BY <1>4
  <2>2. UNCHANGED wallet BY <1>4
  <2>3. ref \notin Book!Used
    <3>1. Receipts[k].refs = {} BY DEF Book!NoReceipt
    <3>2. ref \in Receipts'[k].refs BY <2>1
    <3>3. \A j \in Keys \ {k} : ref \notin Receipts[j].refs BY <1>1, <3>2, RefsApart
    <3>4. \A j \in Keys : ref \notin Receipts[j].refs BY <3>1, <3>3
    <3>5. QED BY <3>4 DEF Book!Used, Book!Payables, Keys
  <2>4. QED BY <1>2, <1>4, <2>1, <2>2, <2>3 DEF Book!Next, Book!PayOutside
<1>5. QED BY <1>3, <1>4

\* The payment of an order.
LEMMA BookOrder ==
  ASSUME PartsInv, PartsInv', AcceptedGrows, wallet \in Nat,
         NEW o \in Orders, NEW by \in {"wallet", "evidence"}, NEW delta, NEW k, k = PurchaseKey(o),
         EntriesOf(k) = {}, EntriesOf(k)' = Entry(k, by, delta),
         wallet' = wallet + delta, wallet + delta >= 0,
         \A j : j # k => EntriesOf(j)' = EntriesOf(j)
  PROVE  Book!Next
<1> USE DEF PartsInv
<1>1. k \in DueKeys /\ k \in Keys BY DEF DueKeys, Keys
<1>2. PaidBy(orders[o].route, {}, AcceptedFor(OrderSubject(o)), k, OrderDelta(o))
  BY DEF PaidInv, OrdersPaid
<1>3. PaidBy(orders'[o].route, Entry(k, by, delta), AcceptedFor(OrderSubject(o))', k, OrderDelta(o)')
  <2>1. PaidBy(orders'[o].route, EntriesOf(PurchaseKey(o))', AcceptedFor(OrderSubject(o))',
               PurchaseKey(o), OrderDelta(o)')
    BY DEF PaidInv, OrdersPaid, PaidBy, PurchaseKey, OrderSubject
  <2>2. EntriesOf(PurchaseKey(o))' = EntriesOf(k)' BY DEF PurchaseKey
  <2>3. QED BY <2>1, <2>2
<1>4. /\ orders[o].route = "none" /\ AcceptedFor(OrderSubject(o)) = {}
      /\ orders'[o].route = by /\ OrderDelta(o)' = delta
  BY <1>2, <1>3, NewPayment
<1>5. /\ by = "wallet" => AcceptedFor(OrderSubject(o))' = {}
      /\ by = "evidence" => \E ref \in References : AcceptedFor(OrderSubject(o))' = {ref}
  BY <1>3, <1>4 DEF PaidBy
<1>6. delta \in Int /\ (by = "wallet" => delta <= 0) /\ (by = "evidence" => delta = 0)
  <2>1. delta = IF by = "wallet" THEN -Price[orders'[o].plan] ELSE 0
    BY <1>4 DEF OrderDelta, DeltaOf
  <2>2. \A row \in OrderRow : row.plan \in Plans BY DEF OrderRow
  <2>3. orders'[o] \in OrderRow BY DEF OrdersTypeOK, OrderRow
  <2>4. PICK p \in Plans : p = orders'[o].plan BY <2>2, <2>3
  <2>5. Price[p] \in Nat BY OrderConstants DEF OrderConstants
  <2>6. delta = IF by = "wallet" THEN -Price[p] ELSE 0 BY <2>1, <2>4
  <2>7. QED BY <2>5, <2>6
<1>7. PICK refs : refs = AcceptedFor(OrderSubject(o))' OBVIOUS
<1>8. OrderReceipt(o) = Book!NoReceipt
  <2>1. OrderDelta(o) = 0 BY <1>4 DEF OrderDelta, DeltaOf
  <2>2. QED BY <1>4, <2>1 DEF OrderReceipt, Book!NoReceipt
<1>9. OrderReceipt(o)' = [by |-> by, amount |-> delta, refs |-> refs]
  BY <1>4, <1>7 DEF OrderReceipt
<1>10. Receipts[k] = Book!NoReceipt /\ Receipts'[k] = [by |-> by, amount |-> delta, refs |-> refs]
  BY <1>8, <1>9, ReceiptOf
<1>11. \A j \in Keys \ {k} : Receipts'[j] = Receipts[j] BY ReceiptStays
<1>12. wallet' \in Nat BY <1>6
<1>13. QED BY <1>1, <1>5, <1>6, <1>7, <1>10, <1>11, <1>12, BookPays

\* The payment of a statement.
LEMMA BookStatement ==
  ASSUME PartsInv, PartsInv', AcceptedGrows, wallet \in Nat,
         NEW i \in DOMAIN statements, NEW by \in {"wallet", "evidence"}, NEW delta, NEW k,
         k = StatementKey(i), EntriesOf(k) = {}, EntriesOf(k)' = Entry(k, by, delta),
         wallet' = wallet + delta, wallet + delta >= 0,
         \A j : j # k => EntriesOf(j)' = EntriesOf(j)
  PROVE  Book!Next
<1> USE DEF PartsInv
<1>1. i \in 1 .. MaxStatements /\ i \in Nat
  <2>1. Len(statements) <= MaxStatements /\ MaxStatements \in Nat /\ Len(statements) \in Nat
        /\ i \in 1 .. Len(statements)
    BY FeeConstants DEF FeesTypeOK, PaidInv, FeeConstants
  <2>2. QED BY <2>1
<1>2. k \in DueKeys /\ k \in Keys BY <1>1 DEF DueKeys, Keys
<1>3. PaidBy(FeeBy(i), {}, AcceptedFor(StatementSubject(i)), k, FeeDelta(i))
  BY <1>1 DEF PaidInv, StatementsPaid
<1>4. PaidBy(FeeBy(i)', Entry(k, by, delta), AcceptedFor(StatementSubject(i))', k, FeeDelta(i)')
  <2>1. PaidBy(FeeBy(i)', EntriesOf(StatementKey(i))', AcceptedFor(StatementSubject(i))',
               StatementKey(i), FeeDelta(i)')
    BY <1>1 DEF PaidInv, StatementsPaid, PaidBy, StatementKey, StatementSubject
  <2>2. EntriesOf(StatementKey(i))' = EntriesOf(k)' BY DEF StatementKey
  <2>3. QED BY <2>1, <2>2
<1>5. /\ FeeBy(i) = "none" /\ AcceptedFor(StatementSubject(i)) = {}
      /\ FeeBy(i)' = by /\ FeeDelta(i)' = delta
  BY <1>3, <1>4, NewPayment
<1>6. /\ by = "wallet" => AcceptedFor(StatementSubject(i))' = {}
      /\ by = "evidence" => \E ref \in References : AcceptedFor(StatementSubject(i))' = {ref}
  BY <1>4, <1>5 DEF PaidBy
<1>7. delta \in Int /\ (by = "wallet" => delta <= 0) /\ (by = "evidence" => delta = 0)
  <2>1. delta = IF by = "wallet" THEN -statements'[i].eligible ELSE 0 BY <1>5 DEF FeeDelta
  <2>2. i \in DOMAIN statements' BY <1>5 DEF FeeBy
  <2>3. \A row \in StatementRow : row.eligible \in Nat BY DEF StatementRow
  <2>4. \A j \in DOMAIN statements' : statements'[j] \in StatementRow BY DEF FeesTypeOK
  <2>5. PICK fee \in Nat : fee = statements'[i].eligible BY <2>2, <2>3, <2>4
  <2>6. delta = IF by = "wallet" THEN -fee ELSE 0 BY <2>1, <2>5
  <2>7. QED BY <2>6
<1>8. PICK refs : refs = AcceptedFor(StatementSubject(i))' OBVIOUS
<1>9. StatementReceipt(i) = Book!NoReceipt
  <2>1. FeeDelta(i) = 0 BY <1>5 DEF FeeDelta
  <2>2. QED BY <1>5, <2>1 DEF StatementReceipt, Book!NoReceipt
<1>10. StatementReceipt(i)' = [by |-> by, amount |-> delta, refs |-> refs]
  BY <1>5, <1>8 DEF StatementReceipt
<1>11. Receipts[k] = Book!NoReceipt /\ Receipts'[k] = [by |-> by, amount |-> delta, refs |-> refs]
  BY <1>1, <1>9, <1>10, ReceiptOf
<1>12. \A j \in Keys \ {k} : Receipts'[j] = Receipts[j] BY ReceiptStays
<1>13. wallet' \in Nat BY <1>7
<1>14. QED BY <1>2, <1>6, <1>7, <1>8, <1>11, <1>12, <1>13, BookPays

\* Every step of the whole is one of the book, or none.
LEMMA BookStep ==
  ASSUME PartsInv, PartsInv', WalletInv, [CommerceNext]_commerceVars
  PROVE  [Book!Next]_(Book!vars)
<1>1. AcceptedGrows BY AcceptedStays DEF PartsInv
<1>2. wallet \in Nat BY DEF WalletInv
<1>3. CASE UNCHANGED ledgerVars
  <2>1. \A k \in Keys : EntriesOf(k)' = EntriesOf(k) BY <1>3 DEF ledgerVars, EntriesOf
  <2>2. \A k \in Keys : Receipts'[k] = Receipts[k] BY <1>1, <2>1, ReceiptStays
  <2>3. Receipts = [k \in Keys |-> Receipts[k]] /\ Receipts' = [k \in Keys |-> Receipts'[k]]
    BY DEF Receipts, Keys
  <2>4. Receipts' = Receipts BY <2>2, <2>3
  <2>5. QED BY <1>3, <2>4 DEF ledgerVars, Book!vars
<1>4. ASSUME NEW q \in Tickets, NEW c \in Clerks, ApproveCredit(q, c), ~UNCHANGED ledgerVars
      PROVE  Book!Next
  BY <1>1, <1>2, <1>4, BookCredits
<1>5. ASSUME NEW key, NEW by, NEW delta, PostTransaction(key, by, delta), ~UNCHANGED ledgerVars
      PROVE  /\ EntriesOf(key) = {} /\ EntriesOf(key)' = Entry(key, by, delta)
             /\ wallet' = wallet + delta /\ wallet + delta >= 0
             /\ \A k : k # key => EntriesOf(k)' = EntriesOf(k)
  <2>1. EntriesOf(key) = {} /\ wallet' = wallet + delta /\ wallet + delta >= 0
    BY <1>5 DEF PostTransaction, Covers
  <2>2. EntriesOf(key)' = Entry(key, by, delta) BY <1>5, <2>1, PostsOnce DEF Entry
  <2>3. QED BY <1>5, <2>1, <2>2, PostsElsewhere
<1>6. CASE ~UNCHANGED ledgerVars /\ FeesStep
  <2>1. ASSUME NEW o \in Orders, NEW by \in {"wallet", "evidence"}, NEW delta,
               PostTransaction(PurchaseKey(o), by, delta)
        PROVE  Book!Next
    <3>1. PICK key : key = PurchaseKey(o) OBVIOUS
    <3>2. PostTransaction(key, by, delta) BY <2>1, <3>1
    <3>3. QED BY <1>1, <1>2, <1>5, <1>6, <3>1, <3>2, BookOrder
  <2>2. ASSUME NEW i \in DOMAIN statements, NEW by \in {"wallet", "evidence"}, NEW delta,
               PostTransaction(StatementKey(i), by, delta)
        PROVE  Book!Next
    <3>1. PICK key : key = StatementKey(i) OBVIOUS
    <3>2. PostTransaction(key, by, delta) BY <2>2, <3>1
    <3>3. QED BY <1>1, <1>2, <1>5, <1>6, <3>1, <3>2, BookStatement
  <2>3. QED BY <1>6, <2>1, <2>2, FeesPost
<1>7. QED BY <1>3, <1>4, <1>6, WholeStep, DepositsPost DEF commerceVars, orderVars

\* At first nothing is paid.
LEMMA BookInit == CommerceInit => Book!Init
<1> SUFFICES ASSUME CommerceInit PROVE Book!Init OBVIOUS
<1>1. wallet \in Nat BY CommerceConstants DEF CommerceConstants, CommerceInit, OpeningWallet
<1>2. \A x : AcceptedFor(x) = {} BY DEF CommerceInit, AcceptedFor, IsEvidence
<1>3. ASSUME NEW d \in DepositOrders PROVE DepositReceipt(d) = Book!NoReceipt
  <2>1. d \notin Credited BY DEF CommerceInit, DepositsInit, Credited
  <2>2. QED BY <2>1 DEF DepositReceipt, Book!NoReceipt
<1>4. ASSUME NEW o \in Orders PROVE OrderReceipt(o) = Book!NoReceipt
  <2>1. orders[o].route = "none" BY DEF CommerceInit, OrdersInit, NoOrderYet
  <2>2. OrderDelta(o) = 0 BY <2>1 DEF OrderDelta, DeltaOf
  <2>3. QED BY <1>2, <2>1, <2>2 DEF OrderReceipt, Book!NoReceipt
<1>5. ASSUME NEW i \in 1 .. MaxStatements PROVE StatementReceipt(i) = Book!NoReceipt
  <2>1. FeeBy(i) = "none" BY DEF CommerceInit, FeesInit, FeeBy
  <2>2. FeeDelta(i) = 0 BY <2>1 DEF FeeDelta
  <2>3. QED BY <1>2, <2>1, <2>2 DEF StatementReceipt, Book!NoReceipt
<1>6. \A k \in Keys : Receipts[k] = Book!NoReceipt
  BY <1>3, <1>4, <1>5, ReceiptOf, KindsOfKeys
<1>7. Receipts = [k \in Keys |-> Receipts[k]] BY DEF Receipts, Keys
<1>8. Receipts = [k \in Keys |-> Book!NoReceipt] BY <1>6, <1>7
<1>9. QED BY <1>1, <1>8 DEF Book!Init, Book!Payables, Keys

\* The rows of deposits, orders and statements implement a book of payments, for any number of
\* each and of references: whatever the services commit (postCommercialLedgerTransaction, and the
\* unique fingerprint of the evidence), nothing is paid twice, a row that says it was paid says so
\* for ever, with the same amount, route and reference, and no reference pays for two things.
THEOREM RefinesPaymentBook == CommerceSpec => ImplementsPaymentBook
<1>1. CommerceInv => PartsInv /\ WalletInv
  BY DEF CommerceInv, PartsInv, AccessInv, WeeksInv
<1>2. CommerceInv /\ CommerceInv' /\ [CommerceNext]_commerceVars => [Book!Next]_(Book!vars)
  <2> SUFFICES ASSUME CommerceInv, CommerceInv', [CommerceNext]_commerceVars
               PROVE  [Book!Next]_(Book!vars)
    OBVIOUS
  <2>1. PartsInv' BY DEF CommerceInv, PartsInv, AccessInv, WeeksInv
  <2>2. QED BY <1>1, <2>1, BookStep
<1>3. QED BY <1>2, BookInit, CommerceInvariant, PTL
      DEF CommerceSpec, ImplementsPaymentBook, Book!Spec
=============================================================================
