----------------------------- MODULE PaymentBook -----------------------------
(* What the commercial side promises to whoever keeps its books: everything   *)
(* that can be paid has at most one receipt, a receipt is never changed or    *)
(* taken back, what the wallet pays it has, and a payment made outside proves *)
(* itself by a reference that no other receipt names. Orders, reviews,        *)
(* memberships, statements and retries are not part of the promise.           *)
EXTENDS Integers

CONSTANTS
  Incoming,   \* what may be credited to the wallet
  Due,        \* what may be paid, from the wallet or outside
  References  \* references of payments made outside

VARIABLES
  balance,  \* the wallet
  receipt   \* receipt[k]: how k was paid, and by how much that moved the wallet

vars == <<balance, receipt>>

Payables == Incoming \cup Due

NoReceipt == [by |-> "none", amount |-> 0, refs |-> {}]

Init ==
  /\ balance \in Nat
  /\ receipt = [k \in Payables |-> NoReceipt]

\* The references some receipt names.
Used == UNION {receipt[k].refs : k \in Payables}

\* The only way to a receipt: there was none. Its amount is what the wallet moved by.
Write(k, by, refs) ==
  /\ receipt[k] = NoReceipt
  /\ balance' \in Nat
  /\ receipt' = [receipt EXCEPT ![k] = [by |-> by, amount |-> balance' - balance, refs |-> refs]]

Credit(k) == balance' > balance /\ Write(k, "credit", {})

PayFromWallet(k) == balance' <= balance /\ Write(k, "wallet", {})

PayOutside(k) ==
  /\ UNCHANGED balance
  /\ \E ref \in References \ Used : Write(k, "evidence", {ref})

Next ==
  \/ \E k \in Incoming : Credit(k)
  \/ \E k \in Due : PayFromWallet(k) \/ PayOutside(k)

Spec == Init /\ [][Next]_vars
=============================================================================
