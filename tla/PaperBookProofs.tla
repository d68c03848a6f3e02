--------------------------- MODULE PaperBookProofs ---------------------------
(* Proofs about PaperBook for every principal, quote, fee, price set, limit   *)
(* and number of candles. BookInv is inductive: types, the accounting         *)
(* identity and the running balance of the ledger.                            *)
EXTENDS PaperBook, Sums, SequenceTheorems

BookInv ==
  /\ BookTypeOK
  /\ BooksBalance
  /\ LedgerRuns
  /\ ledger # <<>>

\* What may change the book, whoever composes it: an admission without the bound on their
\* number, a settlement, and what staff, the membership and the stops do.
AdmitOne(d) ==
  \E c \in Candles, action \in Actions, timing \in Timings : Admit(d, c, action, timing)

CustodyMoves ==
  \/ StopBegins \/ StopRestricts \/ StopEmptiesQueue \/ StopCommits \/ StopLifted
  \/ MembershipLapses \/ Reconcile \/ Activate \/ Freeze \/ Restore

BookMoves ==
  \/ \E d \in Deployments : AdmitOne(d) \/ SettleAny(d)
  \/ CustodyMoves

\* The book on its own makes these moves only.
LEMMA NextMoves == [BookNext]_bookVars => [BookMoves]_bookVars
<1>1. \A d \in Deployments : AdmitAny(d) => AdmitOne(d) BY DEF AdmitAny, AdmitOne
<1>2. QED BY <1>1 DEF BookNext, BookMoves, CustodyMoves

-----------------------------------------------------------------------------
(* Lemmas on the operators *)

\* Whatever the stored status and the restrictions, the access is a legal one.
LEMMA AccessTypes ==
  ASSUME BookTypeOK, NEW allowed \in BOOLEAN, NEW holding \in BOOLEAN
  PROVE  /\ Restricted(holding) \in {"close_only", "read_only"}
         /\ Constrained(allowed, holding) \in Accesses
BY DEF Restricted, Constrained, Accesses

\* Changing the status of one intent keeps the queue a sequence of intents.
LEMMA MarkTypes ==
  ASSUME BookTypeOK, NEW i \in DOMAIN intents, NEW outcome \in {"shadowed", "pending", "filled", "rejected"},
         MarkIntent(i, outcome)
  PROVE  intents' \in Seq(Intents)
<1> DEFINE e == [intents[i] EXCEPT !.status = outcome]
<1>1. intents \in Seq(Intents) /\ i \in 1 .. Len(intents) BY DEF BookTypeOK
<1>2. intents[i] \in Intents BY <1>1, ElementOfSeq
<1>3. e \in Intents BY <1>2 DEF Intents
<1>4. [intents EXCEPT ![i] = e] \in Seq(Intents) BY <1>1, <1>3, ExceptSeq
<1>5. intents' = [intents EXCEPT ![i] = e] BY <1>1 DEF MarkIntent
<1>6. QED BY <1>4, <1>5

\* Emptying the queue changes no intent's place and leaves a sequence of intents.
LEMMA RejectTypes ==
  ASSUME BookTypeOK
  PROVE  RejectPendingBuys \in Seq(Intents) /\ DOMAIN RejectPendingBuys = DOMAIN intents
<1> DEFINE n == Len(intents)
<1>1. intents \in Seq(Intents) /\ n \in Nat /\ DOMAIN intents = 1 .. n BY DEF BookTypeOK
<1>2. \A i \in 1 .. n : intents[i] \in Intents BY <1>1, ElementOfSeq
<1>3. \A i \in 1 .. n : [intents[i] EXCEPT !.status = "rejected"] \in Intents BY <1>2 DEF Intents
<1>4. RejectPendingBuys \in [1 .. n -> Intents] BY <1>1, <1>2, <1>3 DEF RejectPendingBuys
<1>5. RejectPendingBuys \in Seq(Intents) BY <1>1, <1>4, SeqDef
<1>6. QED BY <1>1, <1>4, <1>5

\* The queue emptied by a stop or by a restricted activation is well typed.
LEMMA EmptyQueueTypes ==
  ASSUME BookTypeOK, EmptyQueue
  PROVE  intents' \in Seq(Intents) /\ cleared' \in Nat
<1>1. intents' \in Seq(Intents) BY RejectTypes DEF EmptyQueue
<1>2. Len(intents) \in Nat BY DEF BookTypeOK
<1>3. QED BY <1>1, <1>2 DEF EmptyQueue

\* What is held is worth at least its fee: the notional of a full exit covers the fee.
LEMMA NotionalCoversFee ==
  ASSUME NEW position \in Positions, position.qty > 0, NEW price \in Prices
  PROVE  position.qty * price \in Nat /\ Fee <= position.qty * price
<1>1. position.qty \in Nat /\ position.qty >= 1 BY DEF Positions
<1>2. price \in Nat /\ Fee \in Nat /\ Fee <= price BY BookConstants DEF BookConstants
<1>3. position.qty * price >= price BY <1>1, <1>2
<1>4. position.qty * price \in Nat BY <1>1, <1>2
<1>5. QED BY <1>2, <1>3, <1>4

\* The accounting identity in terms of Total.
LEMMA BalanceIsTotal ==
  /\ BooksBalance <=> cash + Total(Tied, Symbols) = Principal + realized
  /\ BooksBalance' <=> cash' + Total(Tied', Symbols) = Principal + realized'
BY DEF BooksBalance, Total, MapThenSumSet, MapThenFoldSet

\* What each symbol ties up is a number.
LEMMA TiedTypes ==
  ASSUME BookTypeOK
  PROVE  /\ IsFiniteSet(Symbols) /\ Total(Tied, Symbols) \in Int
         /\ \A s \in Symbols : /\ pos[s] \in Positions /\ Tied[s] \in Int
                             /\ Tied[s] = pos[s].cost + pos[s].fees
<1>1. IsFiniteSet(Symbols) BY BookConstants DEF BookConstants
<1>2. \A s \in Symbols : pos[s] \in Positions BY DEF BookTypeOK
<1>3. \A s \in Symbols : Tied[s] \in Int /\ Tied[s] = pos[s].cost + pos[s].fees
  BY <1>2 DEF Tied, Positions
<1>4. Total(Tied, Symbols) \in Int BY <1>1, <1>3, TotalType
<1>5. QED BY <1>1, <1>2, <1>3, <1>4

\* One position that changes moves the cash and the realized result by what it tied up.
LEMMA BalanceMoves ==
  ASSUME BookInv, NEW s \in Symbols, NEW position \in Positions, NEW amount \in Int, NEW gain \in Int,
         pos' = [pos EXCEPT ![s] = position], cash' = cash + amount, realized' = realized + gain,
         amount + (position.cost + position.fees) - (pos[s].cost + pos[s].fees) = gain
  PROVE  BooksBalance'
<1> DEFINE before == pos[s].cost + pos[s].fees
           after == position.cost + position.fees
<1>1. BookTypeOK /\ BooksBalance BY DEF BookInv
<1>2. pos \in [Symbols -> Positions] /\ cash \in Int /\ realized \in Int /\ Principal \in Int
  BY <1>1, BookConstants DEF BookTypeOK, BookConstants
<1>3. IsFiniteSet(Symbols) /\ Total(Tied, Symbols) \in Int /\ \A x \in Symbols : Tied[x] \in Int
  BY <1>1, TiedTypes
<1>4. Tied[s] = before /\ before \in Int BY <1>1, TiedTypes DEF Positions
<1>5. Tied'[s] = after /\ after \in Int BY <1>2 DEF Tied, Positions
<1>6. \A x \in Symbols \ {s} : Tied'[x] = Tied[x] BY <1>2 DEF Tied
<1>7. \A x \in Symbols : Tied[x] \in Int /\ Tied'[x] \in Int BY <1>3, <1>5, <1>6
<1>8. Total(Tied', Symbols) = Total(Tied, Symbols) + (Tied'[s] - Tied[s])
  BY <1>3, <1>6, <1>7, TotalChange
<1>9. cash + Total(Tied, Symbols) = Principal + realized BY <1>1, BalanceIsTotal
<1>10. amount + after - before = gain OBVIOUS
<1> HIDE DEF before, after
<1>11. cash' + Total(Tied', Symbols) = Principal + realized'
  BY <1>2, <1>3, <1>4, <1>5, <1>8, <1>9, <1>10
<1>12. QED BY <1>11, BalanceIsTotal

\* As long as the books stay, so do the identity and the running balance.
LEMMA BooksStay ==
  ASSUME BookInv, UNCHANGED books, BookTypeOK'
  PROVE  BookInv'
<1>1. UNCHANGED <<cash, realized, ledger>> /\ Tied' = Tied BY DEF books, Tied
<1>2. BooksBalance' BY <1>1, BalanceIsTotal DEF BookInv
<1>3. LedgerRuns' BY <1>1 DEF BookInv, LedgerRuns
<1>4. QED BY <1>1, <1>2, <1>3 DEF BookInv

\* A ledger row appended with the new cash runs on from the last one.
LEMMA LedgerRowRuns ==
  ASSUME BookInv, NEW i \in DOMAIN intents, NEW amount \in Int, NEW at \in 0 .. MaxCandle,
         ledger' = LedgerRow(i, amount, at), cash' = cash + amount
  PROVE  ledger' \in Seq(Entries) /\ ledger' # <<>> /\ LedgerRuns'
<1> DEFINE row == [entry |-> i, action |-> intents[i].action, amount |-> amount,
                   balance |-> cash + amount, at |-> at]
           n == Len(ledger)
<1>1. /\ ledger \in Seq(Entries) /\ n \in Nat /\ n >= 1
      /\ intents \in Seq(Intents) /\ i \in 1 .. Len(intents)
      /\ cash \in Int
  BY DEF BookInv, BookTypeOK
<1>2. i \in Nat /\ intents[i].action \in Actions
  <2>1. intents[i] \in Intents BY <1>1, ElementOfSeq
  <2>2. QED BY <1>1, <2>1 DEF Intents
<1>3. row \in Entries BY <1>1, <1>2 DEF Entries, Actions
<1>4. ledger' = Append(ledger, row) BY DEF LedgerRow
<1>5. /\ ledger' \in Seq(Entries) /\ ledger' # <<>> /\ Len(ledger') = n + 1
      /\ \A k \in 1 .. n : ledger'[k] = ledger[k]
      /\ ledger'[n + 1] = row
  BY <1>1, <1>3, <1>4, AppendProperties
<1>6. /\ \A k \in 2 .. n : ledger[k].balance = ledger[k - 1].balance + ledger[k].amount
      /\ ledger[n].balance = cash
  BY DEF BookInv, LedgerRuns
<1>7. ASSUME NEW k \in 2 .. n + 1
      PROVE  ledger'[k].balance = ledger'[k - 1].balance + ledger'[k].amount
  <2>1. CASE k \in 2 .. n
    <3>1. k \in 1 .. n /\ k - 1 \in 1 .. n BY <1>1, <2>1
    <3>2. QED BY <1>5, <1>6, <2>1, <3>1
  <2>2. CASE k = n + 1
    <3>1. k - 1 = n /\ n \in 1 .. n BY <1>1, <2>2
    <3>2. row.balance = ledger[n].balance + row.amount BY <1>6
    <3>3. QED BY <1>5, <2>2, <3>1, <3>2
  <2>3. QED BY <1>1, <2>1, <2>2
<1>8. ledger'[n + 1].balance = cash' BY <1>5
<1>9. QED BY <1>5, <1>7, <1>8 DEF LedgerRuns

-----------------------------------------------------------------------------
(* Initial states *)

\* The principal is the first ledger row, and every status is a legal one.
LEMMA BookInvInit == BookInit => BookInv
<1> SUFFICES ASSUME BookInit PROVE BookInv OBVIOUS
<1> DEFINE first == [entry |-> 0, action |-> "initial_cash", amount |-> Principal,
                     balance |-> Principal, at |-> 0]
<1>1. Principal \in Nat /\ MaxCandle \in Nat BY BookConstants DEF BookConstants
<1>2. first \in Entries /\ first.balance = Principal BY <1>1 DEF Entries
<1>3. ledger = <<first>> BY DEF BookInit
<1>4. ledger \in Seq(Entries) /\ Len(ledger) = 1 /\ ledger # <<>> /\ ledger[1] = first
  <2> HIDE DEF first
  <2>1. QED BY <1>2, <1>3
<1>5. pos \in [Symbols -> Positions] /\ \A s \in Symbols : Tied[s] = 0
  <2>1. NoPosition \in Positions /\ NoPosition.cost = 0 /\ NoPosition.fees = 0
    BY DEF NoPosition, Positions
  <2>2. pos = [s \in Symbols |-> NoPosition] BY DEF BookInit
  <2>3. QED BY <2>1, <2>2 DEF Tied
<1>6. intents \in Seq(Intents) BY EmptySeq DEF BookInit
<1>7. cash = Principal /\ realized = 0 BY DEF BookInit
<1> HIDE DEF first
<1>8. access \in Accesses /\ membership \in Memberships /\ stopping \in StopPhases
  BY DEF BookInit, Accesses, Memberships, StopPhases
<1>9. BookTypeOK
  <2>1. overdue \in BOOLEAN /\ frozen \in BOOLEAN /\ stopped \in BOOLEAN BY DEF BookInit
  <2>2. cleared \in Nat BY DEF BookInit
  <2>3. QED BY <1>1, <1>4, <1>5, <1>6, <1>7, <1>8, <2>1, <2>2 DEF BookTypeOK
<1>10. BooksBalance
  <2>1. IsFiniteSet(Symbols) BY BookConstants DEF BookConstants
  <2>2. Total(Tied, Symbols) = 0 BY <1>5, <2>1, TotalZero
  <2>3. QED BY <1>1, <1>7, <2>2, BalanceIsTotal
<1>11. LedgerRuns BY <1>2, <1>4, <1>7 DEF LedgerRuns
<1>12. QED BY <1>4, <1>9, <1>10, <1>11 DEF BookInv

-----------------------------------------------------------------------------
(* Steps *)

\* An admitted intent is well typed.
LEMMA AdmitStep ==
  ASSUME BookInv, NEW d \in Deployments, AdmitOne(d)
  PROVE  BookInv'
<1> PICK c \in Candles, action \in Actions, timing \in Timings : Admit(d, c, action, timing)
  BY DEF AdmitOne
<1> PICK allowed \in EntriesAllowed :
      /\ intents' = IF IsNewIntent(d, c, action)
                      THEN Append(intents, [dep |-> d, candle |-> c, action |-> action, timing |-> timing,
                                            status |-> AdmittedStatus(d, action, allowed)])
                      ELSE intents
      /\ UNCHANGED <<access, custody, books>>
  BY DEF Admit
<1> DEFINE e == [dep |-> d, candle |-> c, action |-> action, timing |-> timing,
                 status |-> AdmittedStatus(d, action, allowed)]
<1>1. e \in Intents BY BookConstants DEF BookConstants, Intents, AdmittedStatus
<1>2. intents \in Seq(Intents) BY DEF BookInv, BookTypeOK
<1>3. intents' \in Seq(Intents) BY <1>1, <1>2, AppendProperties
<1>4. UNCHANGED books /\ BookTypeOK' BY <1>3 DEF BookInv, BookTypeOK, custody, books
<1>5. QED BY <1>4, BooksStay

\* A fill moves cash, position, realized result and ledger together.
LEMMA FillStep ==
  ASSUME BookInv, NEW i \in DOMAIN intents, NEW price \in Prices, NEW at \in 0 .. MaxCandle,
         NEW allowed \in BOOLEAN, SettleFill(i, price, at, allowed)
  PROVE  BookInv'
<1> DEFINE s == Symbol(i)
<1>1. BookTypeOK /\ cash \in Nat /\ realized \in Int /\ Quote \in Nat /\ Fee \in Nat
  BY BookConstants DEF BookInv, BookTypeOK, BookConstants
<1>2. intents' \in Seq(Intents) BY <1>1, MarkTypes DEF SettleFill
<1>3. access' \in Accesses
  <2>1. Holding' \in BOOLEAN BY DEF Holding
  <2>2. QED BY <2>1 DEF SettleFill, Constrained, Restricted, Accesses
<1>4. s \in Symbols /\ pos \in [Symbols -> Positions] /\ pos[s] \in Positions
  <2>1. intents \in Seq(Intents) /\ i \in 1 .. Len(intents) BY <1>1 DEF BookTypeOK
  <2>2. intents[i] \in Intents BY <2>1, ElementOfSeq
  <2>3. s \in Symbols BY <2>2, BookConstants DEF Symbol, Intents, BookConstants
  <2>4. QED BY <1>1, <2>3 DEF BookTypeOK
<1>5. pos[s].qty \in Nat /\ pos[s].cost \in Nat /\ pos[s].fees \in Nat BY <1>4 DEF Positions
<1>6. CASE intents[i].action = "buy"
  <2> DEFINE position == [qty |-> pos[s].qty + (Quote \div price), cost |-> pos[s].cost + Quote,
                          fees |-> pos[s].fees + Fee]
             amount == -(Quote + Fee)
             gain == 0
  <2>1. FillBuy(i, price, at) /\ BuyFits(i, at) BY <1>6 DEF SettleFill, Fillable
  <2>2. Quote + Fee <= cash BY <2>1 DEF BuyFits
  <2>3. (Quote \div price) \in Nat
    <3>1. price \in Nat /\ price > 0 /\ Quote \in Nat BY BookConstants DEF BookConstants
    <3>2. QED BY <3>1
  <2>4. position \in Positions BY <1>1, <1>5, <2>3 DEF Positions
  <2>5. /\ pos' = [pos EXCEPT ![s] = position]
        /\ cash' = cash + amount /\ realized' = realized
        /\ ledger' = LedgerRow(i, amount, at)
    BY <1>1, <2>1 DEF FillBuy
  <2>6. /\ amount \in Int /\ amount + (position.cost + position.fees) - (pos[s].cost + pos[s].fees) = gain
        /\ cash + amount \in Nat
    BY <1>1, <1>5, <2>2
  <2>7. realized' = realized + gain /\ gain \in Int BY <1>1, <2>5
  <2> HIDE DEF position, amount, gain, s
  <2>8. BooksBalance' BY <1>4, <2>4, <2>5, <2>6, <2>7, BalanceMoves
  <2>9. ledger' \in Seq(Entries) /\ ledger' # <<>> /\ LedgerRuns' BY <2>5, <2>6, LedgerRowRuns
  <2>10. pos' \in [Symbols -> Positions] BY <1>4, <2>4, <2>5
  <2>11. BookTypeOK' BY <1>1, <1>2, <1>3, <2>5, <2>6, <2>9, <2>10 DEF BookTypeOK, SettleFill, custody
  <2>12. QED BY <2>8, <2>9, <2>11 DEF BookInv
<1>7. CASE intents[i].action # "buy"
  <2> DEFINE notional == pos[s].qty * price
             gain == notional - pos[s].cost - pos[s].fees - Fee
  <2>1. FillSell(i, price, at) /\ HoldingOf(s) BY <1>7 DEF SettleFill, Fillable
  <2>2. notional \in Nat /\ Fee <= notional BY <1>4, <2>1, NotionalCoversFee DEF HoldingOf
  <2>3. /\ pos' = [pos EXCEPT ![s] = NoPosition]
        /\ cash' = cash + (notional - Fee) /\ realized' = realized + gain
        /\ ledger' = LedgerRow(i, notional - Fee, at)
    BY <2>1 DEF FillSell, NetResult
  <2>4. NoPosition \in Positions /\ NoPosition.cost = 0 /\ NoPosition.fees = 0
    BY DEF NoPosition, Positions
  <2> HIDE DEF notional, s
  <2>5. /\ notional - Fee \in Int /\ gain \in Int /\ cash' \in Nat /\ realized' \in Int
        /\ (notional - Fee) + (NoPosition.cost + NoPosition.fees) - (pos[s].cost + pos[s].fees) = gain
    BY <1>1, <1>5, <2>2, <2>3, <2>4
  <2> HIDE DEF gain
  <2>6. BooksBalance' BY <1>4, <2>3, <2>4, <2>5, BalanceMoves
  <2>7. ledger' \in Seq(Entries) /\ ledger' # <<>> /\ LedgerRuns' BY <2>3, <2>5, LedgerRowRuns
  <2>8. pos' \in [Symbols -> Positions] BY <1>4, <2>3, <2>4
  <2>9. BookTypeOK' BY <1>1, <1>2, <1>3, <2>5, <2>7, <2>8 DEF BookTypeOK, SettleFill, custody
  <2>10. QED BY <2>6, <2>7, <2>9 DEF BookInv
<1>8. QED BY <1>6, <1>7

\* Settling a pending intent fills it, rejects it or finds none.
LEMMA SettleStep ==
  ASSUME BookInv, NEW d \in Deployments, SettleAny(d)
  PROVE  BookInv'
<1> PICK timing \in Timings, at \in 0 .. MaxCandle : Settle(d, timing, at) BY DEF SettleAny
<1>1. CASE SettleNothing(d, timing)
  <2>1. UNCHANGED books /\ BookTypeOK'
    BY <1>1 DEF SettleNothing, bookVars, custody, books, BookInv, BookTypeOK
  <2>2. QED BY <2>1, BooksStay
<1>2. ASSUME NEW i \in Pending(d, timing), NEW allowed \in EntriesAllowed, NEW price \in Prices,
             SettleFill(i, price, at, allowed)
      PROVE  BookInv'
  <2>1. i \in DOMAIN intents /\ allowed \in BOOLEAN BY DEF Pending, EntriesAllowed
  <2>2. QED BY <1>2, <2>1, FillStep
<1>3. ASSUME NEW i \in Pending(d, timing), NEW allowed \in EntriesAllowed, SettleReject(i, at, allowed)
      PROVE  BookInv'
  <2>1. BookTypeOK /\ i \in DOMAIN intents /\ Holding \in BOOLEAN
    BY DEF BookInv, Pending, Holding
  <2>2. allowed \in BOOLEAN BY DEF EntriesAllowed
  <2>3. access' \in Accesses BY <1>3, <2>1, <2>2, AccessTypes DEF SettleReject
  <2>4. intents' \in Seq(Intents) BY <1>3, <2>1, MarkTypes DEF SettleReject
  <2>5. UNCHANGED books /\ BookTypeOK'
    BY <1>3, <2>1, <2>3, <2>4 DEF SettleReject, custody, books, BookTypeOK
  <2>6. QED BY <2>5, BooksStay
<1>4. QED BY <1>1, <1>2, <1>3 DEF Settle

\* Staff and lifecycle steps write statuses and intents, never the books.
LEMMA CustodyStep ==
  ASSUME BookInv,
         CustodyMoves
  PROVE  BookInv' /\ UNCHANGED books
<1> USE DEF BookTypeOK, Accesses, Memberships, StopPhases, Restricted, books
<1>1. BookTypeOK BY DEF BookInv
<1>2. (BookTypeOK' /\ UNCHANGED books) => BookInv' BY BooksStay
<1>3. CASE StopBegins BY <1>1, <1>2, <1>3 DEF StopBegins
<1>4. CASE StopRestricts
  <2>1. intents' \in Seq(Intents) /\ cleared' \in Nat BY <1>1, <1>4, EmptyQueueTypes DEF StopRestricts
  <2>2. QED BY <1>1, <1>2, <1>4, <2>1 DEF StopRestricts
<1>5. CASE StopEmptiesQueue
  <2>1. intents' \in Seq(Intents) /\ cleared' \in Nat BY <1>1, <1>5, EmptyQueueTypes DEF StopEmptiesQueue
  <2>2. QED BY <1>1, <1>2, <1>5, <2>1 DEF StopEmptiesQueue
<1>6. CASE StopCommits BY <1>1, <1>2, <1>6 DEF StopCommits
<1>7. CASE StopLifted BY <1>1, <1>2, <1>7 DEF StopLifted
<1>8. CASE MembershipLapses BY <1>1, <1>2, <1>8 DEF MembershipLapses
<1>9. CASE Reconcile BY <1>1, <1>2, <1>9 DEF Reconcile
<1>10. CASE Activate
  <2>1. intents' \in Seq(Intents) /\ cleared' \in Nat BY <1>1, <1>10, EmptyQueueTypes DEF Activate
  <2>2. QED BY <1>1, <1>2, <1>10, <2>1 DEF Activate
<1>11. CASE Freeze BY <1>1, <1>2, <1>11 DEF Freeze
<1>12. CASE Restore BY <1>1, <1>2, <1>12 DEF Restore
<1>13. QED BY <1>3, <1>4, <1>5, <1>6, <1>7, <1>8, <1>9, <1>10, <1>11, <1>12 DEF CustodyMoves

\* Every step keeps the book's invariant.
LEMMA BookStep == BookInv /\ [BookMoves]_bookVars => BookInv'
<1> SUFFICES ASSUME BookInv, [BookMoves]_bookVars PROVE BookInv' OBVIOUS
<1>1. ASSUME NEW d \in Deployments, AdmitOne(d) PROVE BookInv' BY <1>1, AdmitStep
<1>2. ASSUME NEW d \in Deployments, SettleAny(d) PROVE BookInv' BY <1>2, SettleStep
<1>3. CASE UNCHANGED bookVars
  <2>1. UNCHANGED books /\ BookTypeOK' BY <1>3 DEF bookVars, custody, books, BookInv, BookTypeOK
  <2>2. QED BY <2>1, BooksStay
<1>4. CASE CustodyMoves
  BY <1>4, CustodyStep
<1>5. QED BY <1>1, <1>2, <1>3, <1>4 DEF BookMoves

\* The inductive invariant of the book.
THEOREM BookInvariant == BookSpec => []BookInv
<1>1. QED BY BookInvInit, BookStep, NextMoves, PTL DEF BookSpec

\* Statuses, intents, position and ledger always have their types; above all the cash of a
\* portfolio never becomes negative, fees included.
THEOREM BookTypeCorrect == BookSpec => []BookTypeOK
<1>1. BookInv => BookTypeOK BY DEF BookInv
<1>2. QED BY <1>1, BookInvariant, PTL

\* No sequence of partial buys, full exits, stops and freezes loses or invents money: the
\* realized net result, which the performance fee is computed from, matches the cash.
THEOREM BooksAlwaysBalance == BookSpec => []BooksBalance
<1>1. BookInv => BooksBalance BY DEF BookInv
<1>2. QED BY <1>1, BookInvariant, PTL

\* The ledger reads as one running account from the principal to the current cash.
THEOREM LedgerAlwaysRuns == BookSpec => []LedgerRuns
<1>1. BookInv => LedgerRuns BY DEF BookInv
<1>2. QED BY <1>1, BookInvariant, PTL

-----------------------------------------------------------------------------
(* What restrictions may and may not do *)

\* Marking one intent leaves every other one alone and keeps its own action.
LEMMA MarkOnlyOne ==
  ASSUME BookTypeOK, NEW i \in DOMAIN intents, NEW outcome, MarkIntent(i, outcome)
  PROVE  /\ DOMAIN intents' = DOMAIN intents
         /\ intents'[i].status = outcome /\ intents'[i].action = intents[i].action
         /\ \A j \in DOMAIN intents : j # i => intents'[j] = intents[j]
<1> DEFINE e == [intents[i] EXCEPT !.status = outcome]
<1>1. intents \in Seq(Intents) /\ i \in 1 .. Len(intents) /\ Len(intents) \in Nat BY DEF BookTypeOK
<1>2. intents[i] \in Intents BY <1>1, ElementOfSeq
<1>3. e.status = outcome /\ e.action = intents[i].action BY <1>2 DEF Intents
<1> HIDE DEF e
<1>4. intents' = [intents EXCEPT ![i] = e] BY DEF MarkIntent, e
<1>5. /\ DOMAIN intents' = DOMAIN intents /\ intents'[i] = e
      /\ \A j \in DOMAIN intents : j # i => intents'[j] = intents[j]
  BY <1>4
<1>6. QED BY <1>3, <1>5

\* A step other than an admission or a settlement leaves every sell alone.
LEMMA CustodyLeavesSells ==
  ASSUME BookTypeOK, NEW i \in DOMAIN intents, intents[i].action = "sell",
         CustodyMoves
  PROVE  intents'[i] = intents[i]
<1>1. EmptyQueue => intents'[i] = intents[i] BY DEF EmptyQueue, RejectPendingBuys
<1>2. EmptyQueue \/ intents' = intents
  BY DEF CustodyMoves, StopBegins, StopRestricts, StopEmptiesQueue, StopCommits, StopLifted,
         MembershipLapses, Reconcile, Activate, Freeze, Restore
<1>3. QED BY <1>1, <1>2

\* One step of ExitNeverRefused.
RefusesNoExit ==
  \A i \in DOMAIN intents :
    intents[i].action = "sell" /\ intents[i].status = "pending" /\ HoldingOf(Symbol(i))
      => intents'[i].status # "rejected"

\* The access that a settlement writes while something is held is never read-only, so a
\* sell is fillable whatever restricts the portfolio.
LEMMA RefusesNoExitStep == BookInv /\ [BookMoves]_bookVars => [RefusesNoExit]_bookVars
<1> SUFFICES ASSUME BookInv, BookMoves, NEW i \in DOMAIN intents,
                    intents[i].action = "sell", intents[i].status = "pending", HoldingOf(Symbol(i))
             PROVE  intents'[i].status # "rejected"
  BY DEF RefusesNoExit
<1>1. BookTypeOK /\ intents \in Seq(Intents) /\ DOMAIN intents = 1 .. Len(intents)
  BY DEF BookInv, BookTypeOK
<1>2. ASSUME NEW d \in Deployments, AdmitOne(d) PROVE intents'[i] = intents[i]
  BY <1>1, <1>2 DEF AdmitOne, Admit
<1>3. ASSUME NEW d \in Deployments, NEW timing \in Timings, NEW at \in 0 .. MaxCandle,
             Settle(d, timing, at)
      PROVE  intents'[i].status # "rejected"
  <2>1. CASE SettleNothing(d, timing) BY <2>1 DEF SettleNothing, bookVars
  <2>2. ASSUME NEW j \in Pending(d, timing), NEW allowed \in EntriesAllowed,
               NEW price \in Prices, SettleFill(j, price, at, allowed)
        PROVE  intents'[i].status # "rejected"
    <3>1. j \in DOMAIN intents /\ MarkIntent(j, "filled") BY <2>2 DEF Pending, SettleFill
    <3>2. QED BY <1>1, <3>1, MarkOnlyOne
  <2>3. ASSUME NEW j \in Pending(d, timing), NEW allowed \in EntriesAllowed,
               SettleReject(j, at, allowed)
        PROVE  intents'[i].status # "rejected"
    <3>1. j \in DOMAIN intents /\ MarkIntent(j, "rejected") BY <2>3 DEF Pending, SettleReject
    <3>2. j # i
      <4>1. Holding
        <5>1. intents[i] \in Intents BY <1>1, ElementOfSeq
        <5>2. Symbol(i) \in Symbols BY <5>1, BookConstants DEF Symbol, Intents, BookConstants
        <5>3. QED BY <5>2 DEF Holding
      <4>2. Constrained(allowed, Holding) # "read_only" BY <4>1 DEF Constrained, Restricted
      <4>3. Fillable(i, Constrained(allowed, Holding), at) BY <4>2 DEF Fillable
      <4>4. QED BY <2>3, <4>3 DEF SettleReject
    <3>3. QED BY <1>1, <3>1, <3>2, MarkOnlyOne
  <2>4. QED BY <1>3, <2>1, <2>2, <2>3 DEF Settle
<1>4. QED BY <1>1, <1>2, <1>3, CustodyLeavesSells DEF BookMoves, SettleAny

\* No stop, freeze or lapsed membership ever makes a settlement refuse an exit from a
\* position the portfolio holds.
THEOREM ExitsAreNeverRefused == BookSpec => ExitNeverRefused
BY BookInvariant, NextMoves, RefusesNoExitStep, PTL DEF BookSpec, ExitNeverRefused, RefusesNoExit

\* One step of NoEntryWhileRestricted.
GrowsOnlyUnrestricted ==
  (stopped \/ membership = "read_only") => \A s \in Symbols : ~(pos'[s].cost > pos[s].cost)

\* Only a buy adds to a position, and a buy is fillable only under the access that neither
\* a stop nor an ended membership leaves.
LEMMA GrowsOnlyUnrestrictedStep == BookInv /\ [BookMoves]_bookVars => [GrowsOnlyUnrestricted]_bookVars
<1> SUFFICES ASSUME BookInv, BookMoves, stopped \/ membership = "read_only", NEW s \in Symbols
             PROVE  ~(pos'[s].cost > pos[s].cost)
  BY DEF GrowsOnlyUnrestricted
<1>1. pos \in [Symbols -> Positions] /\ pos[s].cost \in Nat BY DEF BookInv, BookTypeOK, Positions
<1>2. UNCHANGED books => ~(pos'[s].cost > pos[s].cost) BY <1>1 DEF books
<1>3. ASSUME NEW i \in DOMAIN intents, NEW allowed \in EntriesAllowed, NEW price \in Prices,
             NEW at \in 0 .. MaxCandle, SettleFill(i, price, at, allowed)
      PROVE  ~(pos'[s].cost > pos[s].cost)
  <2>1. CASE intents[i].action = "buy"
    <3>1. Constrained(allowed, Holding) = "active" BY <1>3, <2>1 DEF SettleFill, Fillable
    <3>2. allowed /\ ~stopped BY <3>1 DEF Constrained, Restricted
    <3>3. membership # "read_only" BY <3>2 DEF EntriesAllowed
    <3>4. QED BY <3>2, <3>3
  <2>2. CASE intents[i].action # "buy"
    <3>1. pos' = [pos EXCEPT ![Symbol(i)] = NoPosition] BY <1>3, <2>2 DEF SettleFill, FillSell
    <3>2. pos'[s] = pos[s] \/ pos'[s] = NoPosition BY <1>1, <3>1
    <3>3. NoPosition.cost = 0 BY DEF NoPosition
    <3>4. QED BY <1>1, <3>2, <3>3
  <2>3. QED BY <2>1, <2>2
<1>4. ASSUME NEW d \in Deployments, SettleAny(d) PROVE ~(pos'[s].cost > pos[s].cost)
  BY <1>2, <1>3, <1>4 DEF SettleAny, Settle, SettleNothing, SettleReject, bookVars, Pending
<1>5. ASSUME NEW d \in Deployments, AdmitOne(d) PROVE UNCHANGED books
  BY <1>5 DEF AdmitOne, Admit
<1>6. QED BY <1>2, <1>4, <1>5, CustodyStep DEF BookMoves

\* Whatever the stored status says, no position grows while a stop is active or after
\* the membership ended.
THEOREM NoEntriesWhileRestricted == BookSpec => NoEntryWhileRestricted
BY BookInvariant, NextMoves, GrowsOnlyUnrestrictedStep, PTL DEF BookSpec, NoEntryWhileRestricted, GrowsOnlyUnrestricted

-----------------------------------------------------------------------------
(* The queue: what is filled, and what a stop dropped *)

Decision(x) == <<x.dep, x.candle, x.action>>

\* The unique index: one row per decision.
DecisionsDiffer ==
  \A i, j \in DOMAIN intents : i # j => Decision(intents[i]) # Decision(intents[j])

\* A ledger row after the first names an intent, none twice; an intent is named if filled.
RowsOfFills ==
  /\ ledger[1].entry = 0
  /\ \A r \in 2 .. Len(ledger) : ledger[r].entry \in DOMAIN intents
  /\ \A r, s \in 2 .. Len(ledger) : r # s => ledger[r].entry # ledger[s].entry
  /\ \A i \in DOMAIN intents :
       (intents[i].status = "filled") <=> (\E r \in DOMAIN ledger : ledger[r].entry = i)

IntentInv ==
  /\ BookInv
  /\ cleared <= Len(intents)
  /\ DecisionsDiffer /\ RowsOfFills /\ StopDropsEntries

\* What every invariant of the queue starts from.
LEMMA QueueShape ==
  ASSUME BookTypeOK
  PROVE  /\ intents \in Seq(Intents) /\ Len(intents) \in Nat /\ DOMAIN intents = 1 .. Len(intents)
         /\ ledger \in Seq(Entries) /\ Len(ledger) \in Nat /\ DOMAIN ledger = 1 .. Len(ledger)
         /\ cleared \in Nat
         /\ \A i \in DOMAIN intents : intents[i] \in Intents
<1>1. intents \in Seq(Intents) /\ ledger \in Seq(Entries) /\ cleared \in Nat BY DEF BookTypeOK
<1>2. \A i \in 1 .. Len(intents) : intents[i] \in Intents BY <1>1, ElementOfSeq
<1>3. QED BY <1>1, <1>2

\* Marking an intent changes no decision.
LEMMA MarkKeepsDecisions ==
  ASSUME BookTypeOK, NEW i \in DOMAIN intents, NEW outcome, MarkIntent(i, outcome)
  PROVE  /\ DOMAIN intents' = DOMAIN intents
         /\ \A j \in DOMAIN intents :
              /\ Decision(intents'[j]) = Decision(intents[j])
              /\ intents'[j].action = intents[j].action
              /\ intents'[j].status = IF j = i THEN outcome ELSE intents[j].status
<1>1. /\ DOMAIN intents' = DOMAIN intents
      /\ intents'[i].status = outcome
      /\ \A j \in DOMAIN intents : j # i => intents'[j] = intents[j]
  BY MarkOnlyOne
<1>2. intents'[i] = [intents[i] EXCEPT !.status = outcome] BY DEF MarkIntent
<1>3. intents[i] \in Intents BY QueueShape
<1>4. Decision(intents'[i]) = Decision(intents[i]) /\ intents'[i].action = intents[i].action
  BY <1>2, <1>3 DEF Decision, Intents
<1>5. QED BY <1>1, <1>4

\* Emptying the queue rejects the pending buys and changes nothing else.
LEMMA EmptyKeepsDecisions ==
  ASSUME BookTypeOK, EmptyQueue
  PROVE  /\ DOMAIN intents' = DOMAIN intents
         /\ Len(intents') = Len(intents) /\ cleared' = Len(intents)
         /\ \A j \in DOMAIN intents :
              /\ Decision(intents'[j]) = Decision(intents[j])
              /\ ~(intents'[j].action = "buy" /\ intents'[j].status = "pending")
              /\ (intents'[j].status = "filled") <=> (intents[j].status = "filled")
<1>1. intents' = RejectPendingBuys /\ cleared' = Len(intents) BY DEF EmptyQueue
<1>2. DOMAIN intents' = DOMAIN intents /\ intents' \in Seq(Intents) BY <1>1, RejectTypes
<1>3. Len(intents') = Len(intents) BY <1>2, QueueShape
<1>4. ASSUME NEW j \in DOMAIN intents
      PROVE  /\ Decision(intents'[j]) = Decision(intents[j])
             /\ ~(intents'[j].action = "buy" /\ intents'[j].status = "pending")
             /\ (intents'[j].status = "filled") <=> (intents[j].status = "filled")
  <2>1. intents[j] \in Intents BY QueueShape
  <2>2. CASE intents[j].action = "buy" /\ intents[j].status = "pending"
    <3>1. intents'[j] = [intents[j] EXCEPT !.status = "rejected"]
      BY <1>1, <2>2 DEF RejectPendingBuys
    <3>2. intents'[j].status = "rejected" /\ Decision(intents'[j]) = Decision(intents[j])
      BY <2>1, <3>1 DEF Intents, Decision
    <3>3. QED BY <2>2, <3>2
  <2>3. CASE ~(intents[j].action = "buy" /\ intents[j].status = "pending")
    <3>1. intents'[j] = intents[j] BY <1>1, <2>3 DEF RejectPendingBuys
    <3>2. QED BY <2>3, <3>1
  <2>4. QED BY <2>2, <2>3
<1>5. QED BY <1>1, <1>2, <1>3, <1>4

\* Steps that write no ledger row and neither fill nor unfill an intent keep the rows.
LEMMA RowsStay ==
  ASSUME BookTypeOK, DecisionsDiffer, RowsOfFills, UNCHANGED ledger,
         DOMAIN intents' = DOMAIN intents,
         \A j \in DOMAIN intents :
           /\ Decision(intents'[j]) = Decision(intents[j])
           /\ (intents'[j].status = "filled") <=> (intents[j].status = "filled")
  PROVE  DecisionsDiffer' /\ RowsOfFills'
<1>1. DecisionsDiffer' BY DEF DecisionsDiffer
<1>2. RowsOfFills' BY DEF RowsOfFills
<1>3. QED BY <1>1, <1>2

\* No intent has been executed at the start.
LEMMA IntentInit == BookInit => IntentInv
<1> SUFFICES ASSUME BookInit PROVE IntentInv OBVIOUS
<1>1. BookInv BY BookInvInit
<1>2. intents = <<>> /\ cleared = 0 /\ Len(ledger) = 1 /\ ledger[1].entry = 0 BY DEF BookInit
<1>3. DOMAIN intents = {} /\ Len(intents) = 0 BY <1>2
<1>4. DecisionsDiffer /\ StopDropsEntries
  BY <1>2, <1>3 DEF DecisionsDiffer, StopDropsEntries
<1>5. RowsOfFills BY <1>2, <1>3 DEF RowsOfFills
<1>6. QED BY <1>1, <1>2, <1>3, <1>4, <1>5 DEF IntentInv

\* A new intent is behind every one the stop dropped, differs from all and is not filled.
LEMMA IntentAdmit ==
  ASSUME IntentInv, NEW d \in Deployments, AdmitOne(d)
  PROVE  IntentInv'
<1>1. BookInv' BY AdmitStep DEF IntentInv
<1>2. BookTypeOK BY DEF IntentInv, BookInv
<1> DEFINE n == Len(intents)
<1>3. PICK c \in Candles, action \in Actions, timing \in Timings : Admit(d, c, action, timing)
  BY DEF AdmitOne
<1>4. PICK allowed \in EntriesAllowed :
      /\ intents' = IF IsNewIntent(d, c, action)
                      THEN Append(intents, [dep |-> d, candle |-> c, action |-> action, timing |-> timing,
                                            status |-> AdmittedStatus(d, action, allowed)])
                      ELSE intents
      /\ UNCHANGED <<access, custody, books>>
  BY <1>3 DEF Admit
<1>5. UNCHANGED <<ledger, cleared>> BY <1>4 DEF custody, books
<1>6. CASE intents' = intents
  BY <1>1, <1>5, <1>6 DEF IntentInv, DecisionsDiffer, RowsOfFills, StopDropsEntries
<1>7. CASE IsNewIntent(d, c, action)
  <2> DEFINE e == [dep |-> d, candle |-> c, action |-> action, timing |-> timing,
                   status |-> AdmittedStatus(d, action, allowed)]
  <2>1. e.status # "filled" /\ Decision(e) = <<d, c, action>> BY DEF AdmittedStatus, Decision
  <2>2. e \in Intents BY BookConstants DEF BookConstants, Intents, AdmittedStatus
  <2> HIDE DEF e
  <2>3. intents' = Append(intents, e) BY <1>4, <1>7 DEF e
  <2>4. /\ Len(intents') = n + 1 /\ DOMAIN intents' = 1 .. (n + 1) /\ intents'[n + 1] = e
        /\ \A j \in 1 .. n : intents'[j] = intents[j]
        /\ n \in Nat /\ DOMAIN intents = 1 .. n /\ cleared \in Nat /\ cleared <= n
    BY <1>2, <2>2, <2>3, QueueShape, AppendProperties DEF IntentInv
  <2>5. \A j \in 1 .. n : Decision(intents[j]) # <<d, c, action>>
    BY <1>7, <2>4 DEF IsNewIntent, Decision
  <2>6. DecisionsDiffer'
    BY <2>1, <2>4, <2>5 DEF DecisionsDiffer, IntentInv
  <2>7. RowsOfFills'
    <3>1. RowsOfFills BY DEF IntentInv
    <3>2. \A r \in DOMAIN ledger : ledger[r].entry # n + 1
      <4> SUFFICES ASSUME NEW r \in DOMAIN ledger PROVE ledger[r].entry # n + 1 OBVIOUS
      <4>1. r = 1 \/ r \in 2 .. Len(ledger) BY <1>2, QueueShape
      <4>2. QED BY <2>4, <3>1, <4>1 DEF RowsOfFills
    <3>3. ASSUME NEW j \in DOMAIN intents'
          PROVE  (intents'[j].status = "filled") <=> (\E r \in DOMAIN ledger : ledger[r].entry = j)
      <4>1. j \in 1 .. n \/ j = n + 1 BY <2>4
      <4>2. CASE j \in 1 .. n
        <5>1. intents'[j] = intents[j] /\ j \in DOMAIN intents BY <2>4, <4>2
        <5>2. QED BY <3>1, <5>1 DEF RowsOfFills
      <4>3. CASE j = n + 1 BY <2>1, <2>4, <3>2, <4>3
      <4>4. QED BY <4>1, <4>2, <4>3
    <3>4. \A r \in 2 .. Len(ledger) : ledger[r].entry \in DOMAIN intents'
      BY <2>4, <3>1 DEF RowsOfFills
    <3>5. QED BY <1>5, <3>1, <3>3, <3>4 DEF RowsOfFills
  <2>8. StopDropsEntries'
    <3>1. \A i \in 1 .. cleared : i \in 1 .. n BY <2>4
    <3>2. QED BY <1>5, <2>4, <3>1 DEF StopDropsEntries, IntentInv
  <2>9. QED BY <1>1, <1>5, <2>4, <2>6, <2>7, <2>8 DEF IntentInv
<1>8. QED BY <1>4, <1>6, <1>7

\* A fill turns a pending intent, which has no row, into a filled one with its row.
LEMMA IntentFill ==
  ASSUME IntentInv, NEW i \in DOMAIN intents, intents[i].status = "pending",
         NEW price \in Prices, NEW at \in 0 .. MaxCandle,
         NEW allowed \in BOOLEAN, SettleFill(i, price, at, allowed)
  PROVE  IntentInv'
<1>1. BookInv' BY FillStep DEF IntentInv
<1>2. BookTypeOK /\ ledger # <<>> BY DEF IntentInv, BookInv
<1>3. MarkIntent(i, "filled") /\ UNCHANGED cleared BY DEF SettleFill, custody
<1>4. /\ DOMAIN intents' = DOMAIN intents
      /\ \A j \in DOMAIN intents :
           /\ Decision(intents'[j]) = Decision(intents[j])
           /\ intents'[j].action = intents[j].action
           /\ intents'[j].status = IF j = i THEN "filled" ELSE intents[j].status
  BY <1>2, <1>3, MarkKeepsDecisions
<1> DEFINE n == Len(ledger)
<1>5. /\ n \in Nat /\ n >= 1 /\ Len(ledger') = n + 1
      /\ DOMAIN ledger = 1 .. n /\ DOMAIN ledger' = 1 .. (n + 1)
      /\ ledger'[n + 1].entry = i
      /\ \A r \in 1 .. n : ledger'[r] = ledger[r]
  <2>1. PICK amount : ledger' = LedgerRow(i, amount, at) BY DEF SettleFill, FillBuy, FillSell
  <2> DEFINE row == [entry |-> i, action |-> intents[i].action, amount |-> amount,
                     balance |-> cash + amount, at |-> at]
  <2>2. ledger' = Append(ledger, row) /\ row.entry = i BY <2>1 DEF LedgerRow
  <2> HIDE DEF row
  <2>3. QED BY <1>2, <2>2, QueueShape
<1>6. RowsOfFills BY DEF IntentInv
<1>7. \A r \in 1 .. n : ledger[r].entry # i BY <1>5, <1>6 DEF RowsOfFills
<1>8. DecisionsDiffer' BY <1>4 DEF DecisionsDiffer, IntentInv
<1>9. RowsOfFills'
  <2>1. ledger'[1].entry = 0 BY <1>5, <1>6 DEF RowsOfFills
  <2>2. \A r \in 2 .. n + 1 : (r \in 1 .. n /\ r \in 2 .. n) \/ r = n + 1 BY <1>5
  <2>3. \A r \in 2 .. n + 1 : ledger'[r].entry \in DOMAIN intents'
    BY <1>4, <1>5, <1>6, <2>2 DEF RowsOfFills
  <2>4. \A r, s \in 2 .. n + 1 : r # s => ledger'[r].entry # ledger'[s].entry
    BY <1>5, <1>6, <1>7, <2>2 DEF RowsOfFills
  <2>5. ASSUME NEW j \in DOMAIN intents
        PROVE  (intents'[j].status = "filled") <=> (\E r \in DOMAIN ledger' : ledger'[r].entry = j)
    <3>1. CASE j = i BY <1>4, <1>5, <3>1
    <3>2. CASE j # i
      <4>1. (\E r \in DOMAIN ledger' : ledger'[r].entry = j)
              <=> (\E r \in DOMAIN ledger : ledger[r].entry = j)
        BY <1>5, <3>2
      <4>2. QED BY <1>4, <1>6, <3>2, <4>1 DEF RowsOfFills
    <3>3. QED BY <3>1, <3>2
  <2>6. QED BY <1>4, <1>5, <2>1, <2>3, <2>4, <2>5 DEF RowsOfFills
<1>10. StopDropsEntries' /\ cleared' <= Len(intents')
  <2>1. intents' \in Seq(Intents) BY <1>1 DEF BookInv, BookTypeOK
  <2>2. Len(intents') = Len(intents) /\ cleared <= Len(intents)
    BY <1>2, <1>4, <2>1, QueueShape DEF IntentInv
  <2>3. \A j \in 1 .. cleared : j \in DOMAIN intents BY <1>2, <2>2, QueueShape
  <2>4. QED BY <1>3, <1>4, <2>2, <2>3 DEF StopDropsEntries, IntentInv
<1>11. QED BY <1>1, <1>8, <1>9, <1>10 DEF IntentInv

\* A rejected intent has no row and gets none.
LEMMA IntentReject ==
  ASSUME IntentInv, BookInv', NEW i \in DOMAIN intents, intents[i].status = "pending",
         NEW at, NEW allowed, SettleReject(i, at, allowed)
  PROVE  IntentInv'
<1>1. BookTypeOK BY DEF IntentInv, BookInv
<1>2. MarkIntent(i, "rejected") /\ UNCHANGED <<cleared, ledger>>
  BY DEF SettleReject, custody, books
<1>3. /\ DOMAIN intents' = DOMAIN intents
      /\ \A j \in DOMAIN intents :
           /\ Decision(intents'[j]) = Decision(intents[j])
           /\ intents'[j].action = intents[j].action
           /\ intents'[j].status = IF j = i THEN "rejected" ELSE intents[j].status
  BY <1>1, <1>2, MarkKeepsDecisions
<1>4. DecisionsDiffer' /\ RowsOfFills' BY <1>1, <1>2, <1>3, RowsStay DEF IntentInv
<1>5. StopDropsEntries' /\ cleared' <= Len(intents')
  <2>1. intents' \in Seq(Intents) BY DEF BookInv, BookTypeOK
  <2>2. Len(intents') = Len(intents) /\ cleared <= Len(intents)
    BY <1>1, <1>3, <2>1, QueueShape DEF IntentInv
  <2>3. \A j \in 1 .. cleared : j \in DOMAIN intents BY <1>1, <2>2, QueueShape
  <2>4. QED BY <1>2, <1>3, <2>2, <2>3 DEF StopDropsEntries, IntentInv
<1>6. QED BY <1>4, <1>5 DEF IntentInv

\* Steps outside settlement either leave the queue alone or empty it of entries.
LEMMA IntentCustody ==
  ASSUME IntentInv,
         CustodyMoves
  PROVE  IntentInv'
<1>1. BookTypeOK /\ BookInv' /\ UNCHANGED ledger BY CustodyStep DEF IntentInv, BookInv, books
<1>2. EmptyQueue \/ UNCHANGED <<intents, cleared>>
  BY DEF CustodyMoves, StopBegins, StopRestricts, StopEmptiesQueue, StopCommits, StopLifted,
         MembershipLapses, Reconcile, Activate, Freeze, Restore
<1>3. CASE UNCHANGED <<intents, cleared>>
  BY <1>1, <1>3 DEF IntentInv, DecisionsDiffer, RowsOfFills, StopDropsEntries
<1>4. CASE EmptyQueue
  <2>1. /\ DOMAIN intents' = DOMAIN intents
        /\ Len(intents') = Len(intents) /\ cleared' = Len(intents)
        /\ \A j \in DOMAIN intents :
             /\ Decision(intents'[j]) = Decision(intents[j])
             /\ ~(intents'[j].action = "buy" /\ intents'[j].status = "pending")
             /\ (intents'[j].status = "filled") <=> (intents[j].status = "filled")
    BY <1>1, <1>4, EmptyKeepsDecisions
  <2>2. DecisionsDiffer' /\ RowsOfFills' BY <1>1, <2>1, RowsStay DEF IntentInv
  <2>3. StopDropsEntries' BY <1>1, <2>1, QueueShape DEF StopDropsEntries
  <2>4. cleared' <= Len(intents') BY <1>1, <2>1, QueueShape
  <2>5. QED BY <1>1, <2>2, <2>3, <2>4 DEF IntentInv
<1>5. QED BY <1>2, <1>3, <1>4

\* A settlement executes its own intent once.
LEMMA IntentSettle ==
  ASSUME IntentInv, NEW d \in Deployments, SettleAny(d)
  PROVE  IntentInv'
<1>1. BookInv' BY SettleStep DEF IntentInv
<1>2. PICK timing \in Timings, at \in 0 .. MaxCandle : Settle(d, timing, at) BY DEF SettleAny
<1>3. CASE SettleNothing(d, timing)
  BY <1>1, <1>3 DEF SettleNothing, bookVars, custody, books, IntentInv, DecisionsDiffer, RowsOfFills,
                    StopDropsEntries
<1>4. ASSUME NEW i \in Pending(d, timing), NEW allowed \in EntriesAllowed, NEW price \in Prices,
             SettleFill(i, price, at, allowed)
      PROVE  IntentInv'
  <2>1. i \in DOMAIN intents /\ intents[i].status = "pending" /\ allowed \in BOOLEAN
    BY DEF Pending, EntriesAllowed
  <2>2. QED BY <1>4, <2>1, IntentFill
<1>5. ASSUME NEW i \in Pending(d, timing), NEW allowed \in EntriesAllowed, SettleReject(i, at, allowed)
      PROVE  IntentInv'
  <2>1. i \in DOMAIN intents /\ intents[i].status = "pending" BY DEF Pending
  <2>2. QED BY <1>1, <1>5, <2>1, IntentReject
<1>6. QED BY <1>2, <1>3, <1>4, <1>5 DEF Settle

\* Every step of the book.
LEMMA IntentStep == IntentInv /\ [BookMoves]_bookVars => IntentInv'
<1> SUFFICES ASSUME IntentInv, [BookMoves]_bookVars PROVE IntentInv' OBVIOUS
<1>1. ASSUME NEW d \in Deployments, AdmitOne(d) PROVE IntentInv' BY <1>1, IntentAdmit
<1>2. ASSUME NEW d \in Deployments, SettleAny(d) PROVE IntentInv' BY <1>2, IntentSettle
<1>3. CASE UNCHANGED bookVars
  <2>1. BookInv' BY <1>3, BookStep DEF IntentInv
  <2>2. QED BY <1>3, <2>1 DEF bookVars, custody, books, IntentInv, DecisionsDiffer, RowsOfFills,
                              StopDropsEntries
<1>4. CASE CustodyMoves
  BY <1>4, IntentCustody
<1>5. QED BY <1>1, <1>2, <1>3, <1>4 DEF BookMoves

\* The inductive invariant of the queue.
THEOREM IntentInvariant == BookSpec => []IntentInv
<1>1. QED BY IntentInit, IntentStep, NextMoves, PTL DEF BookSpec

\* One ledger row for an intent that is filled, and none for the others.
LEMMA FilledOnceFollows == IntentInv => FilledOnce
<1> SUFFICES ASSUME IntentInv PROVE FilledOnce OBVIOUS
<1>1. RowsOfFills /\ DecisionsDiffer BY DEF IntentInv
<1>2. ASSUME NEW r \in 2 .. Len(ledger), NEW s \in 2 .. Len(ledger), r # s
      PROVE  Decision(intents[ledger[r].entry]) # Decision(intents[ledger[s].entry])
  BY <1>1, <1>2 DEF RowsOfFills, DecisionsDiffer
<1>3. ASSUME NEW i \in DOMAIN intents
      PROVE  (intents[i].status = "filled") = (\E r \in DOMAIN ledger : ledger[r].entry = i)
  <2> DEFINE Filled == intents[i].status = "filled"
             HasRow == \E r \in DOMAIN ledger : ledger[r].entry = i
  <2>1. Filled <=> HasRow BY <1>1 DEF RowsOfFills
  <2>2. Filled \in BOOLEAN /\ HasRow \in BOOLEAN OBVIOUS
  <2> HIDE DEF Filled, HasRow
  <2>3. Filled = HasRow BY <2>1, <2>2
  <2>4. QED BY <2>3 DEF Filled, HasRow
<1>4. QED BY <1>2, <1>3 DEF FilledOnce, Decision

\* However often a cycle is repeated and whichever orders race, an intent is filled at most
\* once, with one ledger row, and no decision is filled twice.
THEOREM IntentsFillOnce == BookSpec => []FilledOnce
<1>1. QED BY FilledOnceFollows, IntentInvariant, PTL

\* An entry that was queued when an emergency stop emptied the queue never waits again,
\* whoever restored the portfolio in between.
THEOREM StopsDropEntries == BookSpec => []StopDropsEntries
<1>1. IntentInv => StopDropsEntries BY DEF IntentInv
<1>2. QED BY <1>1, IntentInvariant, PTL
=============================================================================
