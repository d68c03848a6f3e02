----------------------------- MODULE MCPaperBook -----------------------------
(* A paper portfolio with a paper deployment for each of its two symbols, at  *)
(* one price; gains and losses are left to the proofs.                        *)
EXTENDS PaperBook, TLC

CONSTANTS d1, d2, btc, eth

MCModes == [d \in Deployments |-> "paper"]
MCSymbolOf == d1 :> btc @@ d2 :> eth
MCPrices == {10}

\* A symbol is exchanged for the other together with its deployment.
SymbolsAreAlike ==
  {[x \in Deployments \cup Symbols |-> IF x \in Deployments THEN p[x] ELSE
      MCSymbolOf[p[CHOOSE d \in Deployments : MCSymbolOf[d] = x]]] : p \in Permutations(Deployments)}
=============================================================================
