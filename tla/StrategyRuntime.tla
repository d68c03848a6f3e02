--------------------------- MODULE StrategyRuntime ---------------------------
(* The runtime worker's cycle over one customer's official card: the lease of *)
(* RuntimeLease drives the paper book of PaperBook. A cycle settles what the  *)
(* last decision left pending, reads the access and the position, decides,    *)
(* and commits under its fencing token. Everything before the commit runs     *)
(* without the token being checked, and nothing is locked between the steps.  *)
(*                                                                            *)
(* The deployments are those of one card and share one portfolio. Official    *)
(* cards carry no stop or target price, so every intent fills at an open and  *)
(* the threshold settlements of the cycle find nothing.                       *)
EXTENDS RuntimeLease, PaperBook

VARIABLES
  stage,  \* stage[w]: what the worker does next in its cycle
  view    \* view[w]: the access and the position it read in this cycle

vars == <<leaseVars, bookVars, stage, view>>

Stages == {"select", "settle", "access", "position", "commit"}
Unread == [access |-> "read_only", holding |-> FALSE]

\* Following a card inserts one deployment per symbol and mode (the key names both), so no
\* two on paper have the same symbol; entries wait for an open.
ASSUME CardConstants ==
  /\ \A d, e \in Deployments :
       Modes[d] = "paper" /\ Modes[e] = "paper" /\ SymbolOf[d] = SymbolOf[e] => d = e
  /\ "next_candle_open" \in Timings

TypeOK ==
  /\ LeaseTypeOK
  /\ BookTypeOK
  /\ stage \in [Workers -> Stages]
  /\ view \in [Workers -> [access : Accesses, holding : BOOLEAN]]

Init ==
  /\ LeaseInit
  /\ BookInit
  /\ \E d \in Deployments : status = [e \in Deployments |-> IF e = d THEN "active" ELSE "ended"]
  /\ stage = [w \in Workers |-> "select"]
  /\ view = [w \in Workers |-> Unread]

Goto(w, next) == stage' = [stage EXCEPT ![w] = next]

\* The worker's cycle is over, whichever way it ended.
CycleEnds(w) ==
  /\ Goto(w, "select")
  /\ view' = [view EXCEPT ![w] = Unread]

IsPaper(w) == Modes[held[w].dep] = "paper"

\* An open fills what was decided at earlier closes: candle c opens when c - 1 closes.
OpenTime(candle) == candle - 1

-----------------------------------------------------------------------------
(* The worker *)

\* Taking, renewing and losing the lease touch no book.
LeaseKeeping(w) ==
  /\ (\E d \in Deployments : Acquire(w, d)) \/ Renew(w)
  /\ UNCHANGED <<bookVars, stage, view>>

SelectCandle(w) ==
  /\ Select(w)
  /\ Goto(w, IF IsPaper(w) THEN "settle" ELSE "access")
  /\ UNCHANGED <<bookVars, view>>

\* Fills at the open of the selected candle. No token is checked.
SettleAtOpen(w) ==
  /\ Busy(w)
  /\ stage[w] = "settle"
  /\ Settle(held[w].dep, "next_candle_open", OpenTime(held[w].candle))
  /\ Goto(w, "access")
  /\ UNCHANGED <<leaseVars, view>>

ReadAccess(w) ==
  /\ Busy(w)
  /\ stage[w] = "access"
  /\ \E allowed \in EntriesAllowed :
       view' = [view EXCEPT ![w].access = Constrained(allowed, Holding)]
  /\ Goto(w, "position")
  /\ UNCHANGED <<leaseVars, bookVars>>

\* Mutant: the engine runs without the position.
SeesNoPosition(w) == FALSE

\* The position in the deployment's own symbol; a shadow deployment reads none.
SeesPosition(w) == IsPaper(w) /\ HoldingOf(SymbolOf[held[w].dep])

ReadPosition(w) ==
  /\ Busy(w)
  /\ stage[w] = "position"
  /\ view' = [view EXCEPT ![w].holding = SeesPosition(w)]
  /\ Goto(w, "commit")
  /\ UNCHANGED <<leaseVars, bookVars>>

\* No signal: nothing is stored but the candle.
CommitHold(w) == CommitCycle(w, FALSE) /\ UNCHANGED bookVars

\* An entry signal the risk checks or the access stopped.
CommitBlocked(w) ==
  /\ ~view[w].holding
  /\ CommitCycle(w, TRUE)
  /\ UNCHANGED bookVars

CommitEntry(w) ==
  /\ ~view[w].holding
  /\ view[w].access = "active"
  /\ CommitCycle(w, TRUE)
  /\ Admit(held[w].dep, held[w].candle, "buy", "next_candle_open")

CommitExit(w) ==
  /\ view[w].holding
  /\ CommitCycle(w, TRUE)
  /\ Admit(held[w].dep, held[w].candle, "sell", "next_candle_open")

CommitNothing(w) ==
  /\ CommitDuplicate(w) \/ CommitFenced(w)
  /\ UNCHANGED bookVars

Complete(w) ==
  /\ stage[w] = "commit"
  /\ CommitHold(w) \/ CommitBlocked(w) \/ CommitEntry(w) \/ CommitExit(w) \/ CommitNothing(w)
  /\ CycleEnds(w)

\* No due candle, an error anywhere in the cycle, or the process dies.
Abandon(w) ==
  /\ Defer(w) \/ Fail(w) \/ Crash(w)
  /\ CycleEnds(w)
  /\ UNCHANGED bookVars

-----------------------------------------------------------------------------
(* The customer, the market and the staff *)

Others(d) == {e \in Deployments \ {d} : status[e] \in {"active", "paused"}}

MaySwitch(d) == Others(d) = {} \/ ~Holding

\* Following the card in a symbol and a mode ends its deployments of another symbol or mode,
\* unless the portfolio holds any position, and activates this one with its lease cleared.
\* Orders are not looked at: those of an ended deployment stay pending.
Follow(d) ==
  /\ MaySwitch(d)
  /\ status' = [e \in Deployments |->
       IF e = d THEN "active" ELSE IF e \in Others(d) THEN "ended" ELSE status[e]]
  /\ owner' = [e \in Deployments |-> IF e \in Others(d) \cup {d} THEN NoWorker ELSE owner[e]]
  /\ ttl' = [e \in Deployments |-> IF e \in Others(d) \cup {d} THEN 0 ELSE ttl[e]]
  /\ Upset
  /\ UNCHANGED <<token, sequence, lastClose, cycles, decided, closed, held, bookVars, stage, view>>

PauseCard(d) == Pause(d) /\ UNCHANGED <<bookVars, stage, view>>

Time ==
  /\ CandleCloses \/ \E d \in Deployments : Age(d)
  /\ UNCHANGED <<bookVars, stage, view>>

\* A stop, a freeze, a restore or a membership event of the portfolio's customer.
Custody ==
  /\ \/ /\ StopBegins \/ MembershipLapses \/ Activate \/ Freeze \/ Restore
        /\ Upset
     \/ /\ StopRestricts \/ StopEmptiesQueue \/ StopCommits \/ StopLifted
           \/ Reconcile
        /\ UNCHANGED upsets
  /\ UNCHANGED <<status, owner, ttl, token, sequence, lastClose, cycles, closed, held, decided>>
  /\ UNCHANGED <<stage, view>>

WorkerStep(w) ==
  \/ LeaseKeeping(w)
  \/ SelectCandle(w)
  \/ SettleAtOpen(w)
  \/ ReadAccess(w)
  \/ ReadPosition(w)
  \/ Complete(w)
  \/ Abandon(w)

Next ==
  \/ \E w \in Workers : WorkerStep(w)
  \/ \E d \in Deployments : Follow(d)
  \/ \E d \in Deployments : PauseCard(d)
  \/ Time
  \/ Custody

Spec == Init /\ [][Next]_vars

-----------------------------------------------------------------------------
(* Properties *)

\* The queue is settled oldest first, so it has to be in the order of the candles: a worker
\* that lost its lease never queues a decision for an old candle behind, or beside, one
\* for a later candle. Holds leave no cycle row, so only the fencing can see to it.
IntentsInCandleOrder ==
  \A i, j \in DOMAIN intents :
    i < j /\ intents[i].dep = intents[j].dep => intents[i].candle < intents[j].candle

PendingOrders(d) == {i \in DOMAIN intents : intents[i].dep = d /\ intents[i].status = "pending"}

\* The decision that reads the position without a lock still never adds to a position and
\* never sells what is not held, also when the customer switches symbols or modes over pending
\* orders: a deployment has at most one pending order, an exit if the portfolio holds its
\* symbol and an entry if it does not.
OneOpenOrder ==
  \A d \in Deployments :
    /\ Cardinality(PendingOrders(d)) <= 1
    /\ \A i \in PendingOrders(d) : (intents[i].action = "sell") = HoldingOf(SymbolOf[d])

\* What the runtime guide says: a signal is confirmed at the close of a candle and fills
\* at the next open, so nothing fills before the close it was decided at.
NoLookAhead ==
  \A r \in 2 .. Len(ledger) : ledger[r].at >= intents[ledger[r].entry].candle

\* What the mode-switch test says: a switch fails closed while the card has a position, so
\* the deployment that manages an open position has not been ended.
PositionIsManaged ==
  \A d \in Deployments : Modes[d] = "paper" /\ HoldingOf(SymbolOf[d]) => status[d] # "ended"
=============================================================================
