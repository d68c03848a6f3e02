-------------------------- MODULE MCStrategyRuntime --------------------------
(* One card followed on paper in either of two symbols, or in shadow mode,    *)
(* and two workers.                                                           *)
EXTENDS StrategyRuntime, TLC

CONSTANTS paper, other, shadow, btc, eth

MCModes == [d \in Deployments |-> IF d = shadow THEN "shadow" ELSE "paper"]
MCSymbolOf == [d \in Deployments |-> IF d = other THEN eth ELSE btc]
WorkersAreAlike == Permutations(Workers)
=============================================================================
