------------------------------ MODULE PaperBook ------------------------------
(* One official paper portfolio: its access status, its order intents, its    *)
(* positions, its cash and its ledger. A decided cycle admits an intent, a    *)
(* later candle settles the oldest pending one, and staff and lifecycle jobs  *)
(* restrict or restore what may be settled. Each action is one transaction    *)
(* that holds the portfolio row; the emergency stop is two steps, because the *)
(* positions it looks at are read before the row is locked.                   *)
(*                                                                            *)
(* The deployments of a card share the portfolio; each trades one symbol of   *)
(* the card. Money is in whole units, and rounding to eight decimals is left  *)
(* out: a buy spends Quote and gets Quote \div price units.                   *)
EXTENDS OfficialCard, Sequences, FiniteSets, FiniteSetsExt

CONSTANTS
  Modes,           \* Modes[d]: "paper" or "shadow"
  Symbols,         \* the spot symbols of the card
  SymbolOf,        \* SymbolOf[d]: the symbol of the deployed strategy
  Timings,         \* execution timings the deployed strategies ask for
  Principal,       \* principal_usdt
  Quote,           \* quoteAmountUsdt of every buy
  Fee,             \* fee of every fill
  Prices,          \* fill prices
  AssetLimit,      \* maxAssetAllocationPct of the principal
  TotalLimit,      \* maxTotalAllocationPct of the principal
  MaxAssets,       \* maxConcurrentAssets
  MaxEntries,      \* maxNewEntriesPerDay
  CandlesPerDay,   \* candles in a UTC day
  MaxIntents       \* bound: order intents ever admitted

VARIABLES
  access,      \* access_status of the portfolio
  membership,  \* status of the membership
  overdue,     \* its deadline passed and the lifecycle job did not run yet
  frozen,      \* users.status is frozen or closed
  stopped,     \* an emergency stop of the customer's scope is active
  stopping,    \* the stop transaction in flight, see StopPhases
  cleared,     \* history: how many intents there were when a stop last emptied the queue
  intents,     \* official_paper_order_intents in created_at order
  pos,         \* pos[s]: the open position in a symbol; qty 0 when there is none
  cash,        \* cash_usdt
  realized,    \* realized_net_pnl_usdt
  ledger       \* official_paper_ledger_entries with their receipts

custody == <<membership, overdue, frozen, stopped, stopping, cleared>>
books == <<pos, cash, realized, ledger>>
bookVars == <<access, custody, intents, books>>

Accesses == {"active", "close_only", "read_only"}
Memberships == {"active", "grace", "read_only"}
Actions == {"buy", "sell"}

\* None in flight; the access it will write; the row was as it should be ("keep"), and
\* then the queue emptied without holding the row.
StopPhases == {"", "close_only", "read_only", "keep", "emptied"}

Intents == [dep : Deployments, candle : Candles, action : Actions, timing : Timings,
            status : {"shadowed", "pending", "filled", "rejected"}]

\* entry is the intent that the row's receipt names, 0 for initial_cash.
Entries == [entry : Nat, action : Actions \cup {"initial_cash"}, amount : Int,
            balance : Int, at : 0 .. MaxCandle]

ASSUME BookConstants ==
  /\ Modes \in [Deployments -> {"paper", "shadow"}]
  /\ IsFiniteSet(Symbols) /\ SymbolOf \in [Deployments -> Symbols]
  /\ Timings \subseteq {"next_candle_open", "intrabar_threshold"}
  /\ Principal \in Nat
  /\ Quote \in Nat \ {0}
  /\ Fee \in Nat
  /\ Prices \subseteq (1 .. Quote) /\ \A price \in Prices : Fee <= price
  /\ AssetLimit \in Nat /\ TotalLimit \in Nat /\ MaxAssets \in Nat
  /\ MaxEntries \in Nat
  /\ CandlesPerDay \in Nat \ {0}
  /\ MaxCandle \in Nat
  /\ MaxIntents \in Nat

Positions == [qty : Nat, cost : Nat, fees : Nat]
NoPosition == [qty |-> 0, cost |-> 0, fees |-> 0]

BookTypeOK ==
  /\ access \in Accesses
  /\ membership \in Memberships
  /\ overdue \in BOOLEAN
  /\ frozen \in BOOLEAN
  /\ stopped \in BOOLEAN
  /\ stopping \in StopPhases
  /\ cleared \in Nat
  /\ intents \in Seq(Intents)
  /\ pos \in [Symbols -> Positions]
  /\ cash \in Nat
  /\ realized \in Int
  /\ ledger \in Seq(Entries)

BookInit ==
  /\ access = "active"
  /\ membership = "active"
  /\ overdue = FALSE
  /\ frozen = FALSE
  /\ stopped = FALSE
  /\ stopping = ""
  /\ cleared = 0
  /\ intents = <<>>
  /\ pos = [s \in Symbols |-> NoPosition]
  /\ cash = Principal
  /\ realized = 0
  /\ ledger = <<[entry |-> 0, action |-> "initial_cash", amount |-> Principal,
                 balance |-> Principal, at |-> 0]>>

HoldingOf(s) == pos[s].qty > 0
Holding == \E s \in Symbols : HoldingOf(s)
Restricted(holding) == IF holding THEN "close_only" ELSE "read_only"

\* What membershipAccess may answer. A deadline that passed and was not reconciled still
\* allows the candles that opened before it.
EntriesAllowed ==
  IF membership = "read_only" THEN {FALSE} ELSE IF overdue THEN BOOLEAN ELSE {TRUE}

\* Mutant: the stored status alone decides, as it did before runtime checks.
StoredAccess(allowed, holding) == access

\* Mutant: the emergency stop is not consulted.
ConstrainedUnlessStopped(allowed, holding) ==
  IF allowed /\ access = "active" THEN "active" ELSE Restricted(holding)

Constrained(allowed, holding) ==
  IF allowed /\ ~stopped /\ access = "active" THEN "active" ELSE Restricted(holding)

-----------------------------------------------------------------------------
(* Admission: the intent of a committed cycle *)

\* Mutant: every repetition of a decision gets a row.
NeverSeen(d, c, action) == TRUE

\* ON CONFLICT (idempotency_key) DO NOTHING.
IsNewIntent(d, c, action) ==
  ~ \E i \in DOMAIN intents :
      intents[i].dep = d /\ intents[i].candle = c /\ intents[i].action = action

AdmittedStatus(d, action, allowed) ==
  IF Modes[d] = "shadow" THEN "shadowed"
  ELSE IF action = "buy" /\ Constrained(allowed, Holding) # "active" THEN "rejected"
  ELSE "pending"

Admit(d, c, action, timing) ==
  \E allowed \in EntriesAllowed :
    /\ intents' = IF IsNewIntent(d, c, action)
                    THEN Append(intents, [dep |-> d, candle |-> c, action |-> action, timing |-> timing,
                                          status |-> AdmittedStatus(d, action, allowed)])
                    ELSE intents
    /\ UNCHANGED <<access, custody, books>>

-----------------------------------------------------------------------------
(* Settlement *)

Pending(d, timing) ==
  {i \in DOMAIN intents : /\ intents[i].dep = d
                          /\ intents[i].timing = timing
                          /\ intents[i].status = "pending"}

\* ORDER BY created_at LIMIT 1.
IsOldestPending(i, d, timing) ==
  i \in Pending(d, timing) /\ \A j \in Pending(d, timing) : i <= j

SettleNothing(d, timing) == Pending(d, timing) = {} /\ UNCHANGED bookVars

EntriesOn(at) ==
  Cardinality({i \in DOMAIN ledger :
    ledger[i].action = "buy" /\ ledger[i].at \div CandlesPerDay = at \div CandlesPerDay})

\* The symbol of an intent is that of its deployment.
Symbol(i) == SymbolOf[intents[i].dep]

Invested == MapThenSumSet(LAMBDA s : pos[s].cost, Symbols)

\* The limits of the card's contract: per symbol, in total, on the number of symbols and on
\* the entries of a day.
WithinLimits(i, at) ==
  /\ pos[Symbol(i)].cost + Quote <= AssetLimit
  /\ Invested + Quote <= TotalLimit
  /\ HoldingOf(Symbol(i)) \/ Cardinality({s \in Symbols : HoldingOf(s)}) < MaxAssets
  /\ EntriesOn(at) < MaxEntries

\* Mutant: the cash only has to cover the quote, not its fee.
QuoteFits(i, at) == WithinLimits(i, at) /\ Quote <= cash

BuyFits(i, at) == WithinLimits(i, at) /\ Quote + Fee <= cash

\* applyOfficialPaperFill throws: outside the contract's limits, or nothing to sell.
Fillable(i, acc, at) ==
  \/ intents[i].action = "buy" /\ acc = "active" /\ BuyFits(i, at)
  \/ intents[i].action = "sell" /\ acc # "read_only" /\ HoldingOf(Symbol(i))

MarkIntent(i, outcome) == intents' = [intents EXCEPT ![i].status = outcome]

\* Mutant: the row shows the balance before the fill.
BalanceBefore(i, amount, at) ==
  Append(ledger, [entry |-> i, action |-> intents[i].action, amount |-> amount,
                  balance |-> cash, at |-> at])

LedgerRow(i, amount, at) ==
  Append(ledger, [entry |-> i, action |-> intents[i].action, amount |-> amount,
                  balance |-> cash + amount, at |-> at])

\* Mutant: a closing trade's net result forgets the fee paid at entry.
NetWithoutEntryFee(position, notional) == notional - position.cost - Fee

NetResult(position, notional) == notional - position.cost - position.fees - Fee

FillBuy(i, price, at) ==
  /\ pos' = [pos EXCEPT ![Symbol(i)] =
                [qty |-> @.qty + (Quote \div price), cost |-> @.cost + Quote, fees |-> @.fees + Fee]]
  /\ cash' = cash - (Quote + Fee)
  /\ ledger' = LedgerRow(i, -(Quote + Fee), at)
  /\ UNCHANGED realized

\* A sell names no quantity: it closes the whole position in its symbol.
FillSell(i, price, at) ==
  LET sold == pos[Symbol(i)]
      notional == sold.qty * price
  IN /\ pos' = [pos EXCEPT ![Symbol(i)] = NoPosition]
     /\ cash' = cash + (notional - Fee)
     /\ realized' = realized + NetResult(sold, notional)
     /\ ledger' = LedgerRow(i, notional - Fee, at)

SettleFill(i, price, at, allowed) ==
  /\ Fillable(i, Constrained(allowed, Holding), at)
  /\ IF intents[i].action = "buy" THEN FillBuy(i, price, at) ELSE FillSell(i, price, at)
  /\ access' = Constrained(allowed, Holding')
  /\ MarkIntent(i, "filled")
  /\ UNCHANGED custody

SettleReject(i, at, allowed) ==
  /\ ~Fillable(i, Constrained(allowed, Holding), at)
  /\ access' = Constrained(allowed, Holding)
  /\ MarkIntent(i, "rejected")
  /\ UNCHANGED <<custody, books>>

Settle(d, timing, at) ==
  \/ SettleNothing(d, timing)
  \/ \E i \in Pending(d, timing), allowed \in EntriesAllowed :
       /\ IsOldestPending(i, d, timing)
       /\ \/ \E price \in Prices : SettleFill(i, price, at, allowed)
          \/ SettleReject(i, at, allowed)

-----------------------------------------------------------------------------
(* Emergency stop, customer status and membership *)

\* The UPDATE's snapshot: the position it sees decides what it writes, and a row that is
\* as it should be already is not written.
StopBegins ==
  /\ stopping = ""
  /\ stopping' = IF access = Restricted(Holding) THEN "keep" ELSE Restricted(Holding)
  /\ UNCHANGED <<access, membership, overdue, frozen, stopped, cleared, intents, books>>

\* Mutant: the stop leaves the queued buys alone.
KeepPendingBuys == intents

RejectPendingBuys ==
  [i \in DOMAIN intents |->
     IF intents[i].action = "buy" /\ intents[i].status = "pending"
       THEN [intents[i] EXCEPT !.status = "rejected"]
       ELSE intents[i]]

EmptyQueue == intents' = RejectPendingBuys /\ cleared' = Len(intents)

\* It wrote the row and holds it until it commits.
StopRestricts ==
  /\ stopping \in Accesses
  /\ access' = stopping
  /\ EmptyQueue
  /\ stopping' = ""
  /\ stopped' = TRUE
  /\ UNCHANGED <<membership, overdue, frozen, books>>

\* It wrote nothing, so others may change the row before it commits.
StopEmptiesQueue ==
  /\ stopping = "keep"
  /\ EmptyQueue
  /\ stopping' = "emptied"
  /\ UNCHANGED <<access, membership, overdue, frozen, stopped, books>>

StopCommits ==
  /\ stopping = "emptied"
  /\ stopping' = ""
  /\ stopped' = TRUE
  /\ UNCHANGED <<access, membership, overdue, frozen, cleared, intents, books>>

\* Lifting the stop restores no portfolio. The scope's row is locked by a stop in flight.
StopLifted ==
  /\ stopped
  /\ stopping = ""
  /\ stopped' = FALSE
  /\ UNCHANGED <<access, membership, overdue, frozen, stopping, cleared, intents, books>>

MembershipLapses ==
  /\ membership # "read_only"
  /\ ~overdue
  /\ overdue' = TRUE
  /\ UNCHANGED <<access, membership, frozen, stopped, stopping, cleared, intents, books>>

\* The lifecycle job: into grace where some is left, else read only.
Reconcile ==
  /\ overdue
  /\ overdue' = FALSE
  /\ \/ /\ membership = "active"
        /\ membership' = "grace"
        /\ UNCHANGED access
     \/ /\ membership' = "read_only"
        /\ access' = Restricted(Holding)
  /\ UNCHANGED <<frozen, stopped, stopping, cleared, intents, books>>

\* A paid order or a started trial, which is an active membership with a deadline; the
\* advisory lock keeps it out of a stop in flight.
Activate ==
  /\ stopping = ""
  /\ membership' = "active"
  /\ overdue' = FALSE
  /\ IF stopped
       THEN access' = Restricted(Holding) /\ EmptyQueue
       ELSE access' = "active" /\ UNCHANGED <<intents, cleared>>
  /\ UNCHANGED <<frozen, stopped, stopping, books>>

\* A closed position keeps its quantity, so one that was ever opened reads as held.
EverHeld == \E i \in DOMAIN ledger : ledger[i].action = "buy"

Freeze ==
  /\ ~frozen
  /\ frozen' = TRUE
  /\ access' = Restricted(EverHeld)
  /\ UNCHANGED <<membership, overdue, stopped, stopping, cleared, intents, books>>

Restore ==
  /\ frozen
  /\ frozen' = FALSE
  /\ access' = IF membership = "active" /\ ~overdue THEN "active" ELSE access
  /\ UNCHANGED <<membership, overdue, stopped, stopping, cleared, intents, books>>

-----------------------------------------------------------------------------

\* The engine enters at the next open; only an exit can be at a threshold.
AdmitAny(d) ==
  \E c \in Candles, action \in Actions, timing \in Timings :
    /\ Len(intents) < MaxIntents
    /\ action = "buy" => timing = "next_candle_open"
    /\ Admit(d, c, action, timing)

SettleAny(d) == \E timing \in Timings, at \in 0 .. MaxCandle : Settle(d, timing, at)

BookNext ==
  \/ \E d \in Deployments : AdmitAny(d)
  \/ \E d \in Deployments : SettleAny(d)
  \/ StopBegins
  \/ StopRestricts
  \/ StopEmptiesQueue
  \/ StopCommits
  \/ StopLifted
  \/ MembershipLapses
  \/ Reconcile
  \/ Activate
  \/ Freeze
  \/ Restore

BookSpec == BookInit /\ [][BookNext]_bookVars

-----------------------------------------------------------------------------
(* Properties *)

\* What the position in each symbol ties up: its cost and its entry fees.
Tied == [s \in Symbols |-> pos[s].cost + pos[s].fees]

\* Cash, the cost and the entry fees of the open positions account for the principal and
\* the realized net result, the number the performance fee is computed from.
BooksBalance ==
  cash + MapThenSumSet(LAMBDA s : Tied[s], Symbols) = Principal + realized

\* Every ledger row runs on from the row before it and the last one is the cash.
LedgerRuns ==
  /\ \A i \in 2 .. Len(ledger) : ledger[i].balance = ledger[i - 1].balance + ledger[i].amount
  /\ ledger[Len(ledger)].balance = cash

\* An intent has a ledger row if and only if it is filled, never two, and the same
\* decision of a deployment is never filled twice.
FilledOnce ==
  /\ \A i \in DOMAIN intents :
       (intents[i].status = "filled") = (\E r \in DOMAIN ledger : ledger[r].entry = i)
  /\ \A r, s \in 2 .. Len(ledger) : r # s =>
       LET x == intents[ledger[r].entry]
           y == intents[ledger[s].entry]
       IN <<x.dep, x.candle, x.action>> # <<y.dep, y.candle, y.action>>

\* No entry decided before an emergency stop is still waiting once the stop emptied the
\* queue, whatever restored the portfolio meanwhile: lifting the stop releases none.
StopDropsEntries ==
  \A i \in 1 .. cleared : ~(intents[i].action = "buy" /\ intents[i].status = "pending")

\* A buy never fills while a stop is active or after the customer's membership ended.
NoEntryWhileRestricted ==
  [][(stopped \/ membership = "read_only") =>
       \A s \in Symbols : ~(pos'[s].cost > pos[s].cost)]_bookVars

\* The customer can always get out: no restriction, stop, freeze or lapsed membership
\* makes a settlement refuse to sell what the portfolio holds.
ExitNeverRefused ==
  [][\A i \in DOMAIN intents :
       intents[i].action = "sell" /\ intents[i].status = "pending" /\ HoldingOf(Symbol(i))
         => intents'[i].status # "rejected"]_bookVars

\* What the operations runbook and the route's own message say of a stop: lifting it brings
\* no portfolio back by itself, a membership or customer flow has to do so after it.
LiftRestoresNothing == [][stopped /\ ~stopped' => access' # "active"]_bookVars
=============================================================================
