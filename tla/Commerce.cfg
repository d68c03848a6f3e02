CONSTANTS
  Requests = {r1, r2}
  Handlers = {h1, h2}
  Adjustments = {a1}
  Staff = {s1, s2, s3, s4}
  Clerks = {s1, s2, s3, s4}
  Estimate = 2
  Repairs = 1
  Deltas <- MCDeltas
  Grant = 2
  MaxCredits = 4
  NoRequest = none
  Nobody = nobody
  NoClerk = nobody
  DepositOrders = {d1, d2}
  Transfers = {t1, t2}
  Transactions = {x1, x2}
  AmountOf <- MCAmountOf
  Tickets = {q1, q2}
  NoTransfer = none
  NoTx = none
  NoOrder = none
  References = {e1, e2}
  NoEvidence = none
  Orders = {o1, o2}
  Trial = trial
  Customer = customer
  Price <- MCPrice
  Duration = 3
  Never = 99
  MaxClock = 3
  Results <- MCResults
  MaxNet = 1
  MaxStatements = 3
  Opening = 2
SPECIFICATION CommerceSpec
SYMMETRY Symmetry
INVARIANTS
  CommerceTypeOK
  ReservedIsHeld
  ChargedIffDelivered
  CreditsConserved
  OneInference
  CreditMatchesTransfer
  OneAddressAtATime
  AccessIsPaidFor
  ProfitChargedOnce
  WeeksInSequence
  WalletMatchesPayments
  ReferencePaysOnce
  ReviewedByOthers
CHECK_DEADLOCK FALSE
