--------------------------- MODULE CommercialLedger ---------------------------
(* The customer's wallet and the platform's journal. A payment or a credit is *)
(* one balanced ledger transaction under an idempotency key; the wallet moves *)
(* in the same commit. Amounts are whole USDT.                                *)
EXTENDS Integers, FiniteSets

VARIABLES
  wallet,   \* wallet_balances.available_amount
  journal   \* posted ledger_transactions: key, payload and wallet delta

ledgerVars == <<wallet, journal>>

EntriesOf(key) == {entry \in journal : entry.key = key}

\* Mutant: the update of the balance has no guard.
Overdraws(delta) == delta \in Int

\* The guarded update of the balance; it rolls the transaction back when it finds no row.
Covers(delta) == wallet + delta >= 0

\* A key seen before is answered from the journal when it names the same transaction; any
\* other use of it is refused.
PostTransaction(key, payload, delta) ==
  IF \E entry \in EntriesOf(key) : entry.payload = payload /\ entry.delta = delta
    THEN UNCHANGED ledgerVars
    ELSE /\ EntriesOf(key) = {}
         /\ Covers(delta)
         /\ wallet' = wallet + delta
         /\ journal' = journal \cup {[key |-> key, payload |-> payload, delta |-> delta]}
=============================================================================
