---------------------------- MODULE OfficialCard ----------------------------
(* What the lease of the runtime worker and the paper book share: the         *)
(* deployments of an official card and the closed candles they decide on.     *)
EXTENDS Integers

CONSTANTS
  Deployments,  \* rows of strategy_deployments
  MaxCandle     \* bound: candles the market closes

Candles == 1 .. MaxCandle
=============================================================================
