------------------------------ MODULE CandleLog ------------------------------
(* What the strategy runtime promises to a reader of its history: every       *)
(* deployment has an append-only log of the closed candles it decided on, in  *)
(* candle order and without repetition. Leases, workers and tokens are not    *)
(* part of the promise.                                                       *)
EXTENDS Integers, Sequences

CONSTANTS Deployments, MaxCandle

VARIABLES
  market,  \* the latest closed candle
  log      \* log[d]: the candles deployment d decided on

vars == <<market, log>>

LastOf(s) == IF s = <<>> THEN 0 ELSE s[Len(s)]

Init ==
  /\ market = 0
  /\ log = [d \in Deployments |-> <<>>]

CandleCloses ==
  /\ market < MaxCandle
  /\ market' = market + 1
  /\ UNCHANGED log

Decide(d) ==
  \E c \in LastOf(log[d]) + 1 .. market :
    /\ log' = [log EXCEPT ![d] = Append(@, c)]
    /\ UNCHANGED market

Next == CandleCloses \/ \E d \in Deployments : Decide(d)

Spec == Init /\ [][Next]_vars
=============================================================================
