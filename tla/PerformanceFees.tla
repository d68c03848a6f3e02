---------------------------- MODULE PerformanceFees ----------------------------
(* The weekly performance fee of one customer: a statement per complete week, *)
(* its assessment, and its payment outside the platform or from the wallet.   *)
(* The fee is a share of the profit above the high-water mark; paying a       *)
(* statement moves the mark. A settlement week is one period of the clock.    *)
(*                                                                            *)
(* The paper book is seen through net[w], its cumulative realised result at   *)
(* the end of week w. A trade settled late counts for the week of its candle, *)
(* so it still changes a week that is over.                                   *)
EXTENDS MembershipOrders, Sequences

CONSTANTS
  Results,       \* realised results of a trade
  MaxNet,        \* bound: the result's distance from zero
  MaxStatements  \* bound: statements, the replacements of rejected ones included

StatementSubject(i) == <<"statement", i>>

\* What a payment reference may be bound to.
Subjects ==
  {OrderSubject(o) : o \in Orders} \cup {StatementSubject(i) : i \in 1 .. MaxStatements}

ASSUME FeeConstants ==
  /\ Results \subseteq Int /\ MaxNet \in Nat /\ MaxStatements \in Nat
  /\ Never > MaxNet   \* the absent mark is no result
  /\ NoEvidence \notin EvidenceRow(Subjects, Staff)

VARIABLES
  net,         \* net[w]: cumulative realised result at the end of week w
  statements,  \* performance_fee_statements in the order of their generation
  mark,        \* performance_fee_high_water_marks.high_water_mark
  openingMark  \* history: the mark the first statement started from

feeVars == <<net, statements, mark, openingMark>>

Weeks == 0 .. MaxClock
NoMark == Never
Finished == {"paid", "no_fee"}

StatementRow ==
  [week : Weeks, status : {"pending_review", "rejected", "payment_pending", "paid", "no_fee"},
   cumulative : Int, weekNet : Int, prior : Int, eligible : Nat,
   generator : Staff, assessor : Staff \cup {Nobody}, payer : Staff \cup {Nobody, Customer},
   refusers : SUBSET Staff]

FeesTypeOK ==
  /\ net \in [Weeks -> Int]
  /\ statements \in Seq(StatementRow)
  /\ mark \in Int /\ openingMark \in Int

FeesInit ==
  /\ net = [w \in Weeks |-> 0]
  /\ statements = <<>>
  /\ mark = NoMark /\ openingMark = NoMark

-----------------------------------------------------------------------------
(* The paper book *)

\* A trade closes in this week, or one of an earlier week settles late.
Realise(w, result) ==
  /\ w \in {clock - 1, clock}
  /\ net' = [v \in Weeks |-> IF v >= w THEN net[v] + result ELSE net[v]]
  /\ \A v \in Weeks : net'[v] \in -MaxNet .. MaxNet
  /\ UNCHANGED <<statements, mark, openingMark, orderVars>>

WeekNet(w) == IF w = 0 THEN net[0] ELSE net[w] - net[w - 1]
NetBefore(w) == IF w = 0 THEN 0 ELSE net[w - 1]

-----------------------------------------------------------------------------
(* Statements *)

\* A membership covers a week when it began before the week and ends after it.
CoversWeek(o, w) ==
  /\ orders[o].status = "activated"
  /\ entitlements[o].from < w
  /\ w < entitlements[o].until

\* Mutant: a week may follow one that still waits for its payment.
AnyPredecessor(w) ==
  statements # <<>> =>
    LET last == statements[Len(statements)]
    IN last.week = w - 1 \/ (last.week = w /\ last.status = "rejected")

\* The first statement, the replacement of a rejected one, or the week after a finished one.
Succeeds(w) ==
  statements # <<>> =>
    LET last == statements[Len(statements)]
    IN \/ last.week = w /\ last.status = "rejected"
       \/ last.week = w - 1 /\ last.status \in Finished

ProfitAbove(m, cumulative) == IF cumulative > m THEN cumulative - m ELSE 0

\* The fee is taken of the last complete week; the mark's row is created with the result before
\* the first week that is charged.
Generate(s) ==
  LET w == clock - 1
      m == IF mark = NoMark THEN NetBefore(w) ELSE mark
  IN /\ clock > 0
     /\ Len(statements) < MaxStatements
     /\ Succeeds(w)
     /\ \E o \in Orders : CoversWeek(o, w)
     /\ mark' = m
     /\ openingMark' = IF mark = NoMark THEN m ELSE openingMark
     /\ statements' = Append(statements,
          [week |-> w, status |-> "pending_review", cumulative |-> net[w], weekNet |-> WeekNet(w),
           prior |-> m, eligible |-> ProfitAbove(m, net[w]), generator |-> s,
           assessor |-> Nobody, payer |-> Nobody, refusers |-> {}])
     /\ UNCHANGED <<net, orderVars>>

PriorFinished(i) ==
  \A j \in DOMAIN statements :
    /\ statements[j].week = statements[i].week - 1
    /\ \A k \in DOMAIN statements : k > j => statements[k].week # statements[j].week
    => statements[j].status \in Finished

\* The mark and every figure of the statement are as they were when it was generated.
UpToDate(i) ==
  /\ mark = statements[i].prior
  /\ net[statements[i].week] = statements[i].cumulative
  /\ WeekNet(statements[i].week) = statements[i].weekNet

\* A statement that is out of date can be neither approved nor rejected.
Assess(i, s, approve) ==
  /\ statements[i].status = "pending_review"
  /\ statements[i].generator # s
  /\ PriorFinished(i)
  /\ UpToDate(i)
  /\ statements' = [statements EXCEPT ![i].assessor = s,
       ![i].status = IF ~approve THEN "rejected"
                     ELSE IF statements[i].eligible = 0 THEN "no_fee" ELSE "payment_pending"]
  /\ UNCHANGED <<net, mark, openingMark, orderVars>>

-----------------------------------------------------------------------------
(* Payment *)

StatementKey(i) == <<"performance", i>>
Outsiders(i) == Staff \ {statements[i].generator, statements[i].assessor}

RecordFeeEvidence(i, ref, s, matches) ==
  /\ statements[i].status = "payment_pending"
  /\ s \in Outsiders(i)
  /\ RecordEvidence(ref, StatementSubject(i), s, matches)
  /\ UNCHANGED <<feeVars, clock, orders, memberships, entitlements, ledgerVars, account, granted>>

\* Mutant: the recorder of the evidence may confirm the payment.
AnyOutsider(i, ref, s) ==
  /\ statements[i].status = "payment_pending"
  /\ s \in Outsiders(i)
  /\ Decidable(ref, StatementSubject(i))

\* Neither generator, assessor nor recorder; and a reviewer decides once on a statement.
MayConfirm(i, ref, s) ==
  /\ statements[i].status = "payment_pending"
  /\ s \in Outsiders(i)
  /\ Decidable(ref, StatementSubject(i))
  /\ evidence[ref].recorder # s
  /\ s \notin statements[i].refusers

\* The statement waits for other evidence.
RefusePayment(i, ref, s) ==
  /\ MayConfirm(i, ref, s)
  /\ MarkEvidence(ref, "rejected")
  /\ statements' = [statements EXCEPT ![i].refusers = @ \cup {s}]
  /\ UNCHANGED <<net, mark, openingMark, clock, orders, memberships, entitlements, ledgerVars,
                 account, granted>>

\* Mutant: one of the routes forgets to move the mark.
MarkStays(i) == mark

\* Both routes move the mark to the statement's cumulative result, never down.
MarkAfter(i) == LaterOf(mark, statements[i].cumulative)

Settled(i, payer) ==
  /\ mark' = MarkAfter(i)
  /\ statements' = [statements EXCEPT ![i].status = "paid", ![i].payer = payer]
  /\ UNCHANGED <<net, openingMark, clock, orders, memberships, entitlements, account, granted>>

ConfirmPayment(i, ref, s) ==
  /\ MayConfirm(i, ref, s)
  /\ PostTransaction(StatementKey(i), "evidence", 0)
  /\ MarkEvidence(ref, "accepted")
  /\ Settled(i, s)

PayableStatement(i) == statements[i].status = "payment_pending"

PayFeeFromWallet(i) ==
  /\ PayableStatement(i)
  /\ PostTransaction(StatementKey(i), "wallet", -statements[i].eligible)
  /\ Settled(i, Customer)
  /\ UNCHANGED evidence

StatementStep(i) ==
  \/ \E s \in Staff, approve \in BOOLEAN : Assess(i, s, approve)
  \/ \E ref \in References, s \in Staff :
       \/ \E matches \in BOOLEAN : RecordFeeEvidence(i, ref, s, matches)
       \/ RefusePayment(i, ref, s) \/ ConfirmPayment(i, ref, s)
  \/ PayFeeFromWallet(i)

FeesNext ==
  \/ \E w \in Weeks, result \in Results : Realise(w, result)
  \/ \E s \in Staff : Generate(s)
  \/ \E i \in DOMAIN statements : StatementStep(i)

\* Orders and statements of a customer whose deposits brought what the wallet holds.
FeesSpec ==
  /\ CreditsInit /\ OrdersInit /\ FeesInit
  /\ evidence = [ref \in References |-> NoEvidence]
  /\ wallet \in Nat /\ journal = {}
  /\ [][FeesNext \/ (OrdersNext /\ UNCHANGED feeVars)]_<<feeVars, orderVars>>

-----------------------------------------------------------------------------
(* Properties *)

PaidStatements == {i \in DOMAIN statements : statements[i].status = "paid"}

\* Every unit of profit is charged once: what the paid statements charged adds up to the rise
\* of the high-water mark, by whichever route they were paid, through losses, late trades,
\* rejected and replaced statements; and no settled week ended above the mark, so what is
\* charged next is profit above everything that was settled before.
ProfitChargedOnce ==
  mark # NoMark =>
    /\ MapThenSumSet(LAMBDA i : statements[i].eligible, PaidStatements) = mark - openingMark
    /\ \A i \in DOMAIN statements :
         statements[i].status \in Finished => statements[i].cumulative <= mark

\* The weeks are settled one after the other: at most one statement is open, a week is
\* finished once, and the finished weeks leave no gap.
WeeksInSequence ==
  /\ \A i, j \in DOMAIN statements : i < j =>
       /\ statements[i].status \in Finished \cup {"rejected"}
       /\ statements[i].status \in Finished => statements[i].week < statements[j].week
       /\ statements[j].week - statements[i].week <= j - i

\* A fee confirmed from outside was generated, assessed, recorded and confirmed by four
\* different persons, and one paid from the wallet was assessed by another than its generator.
FeeReviewedByOthers ==
  \A i \in PaidStatements :
    /\ statements[i].assessor \in Staff \ {statements[i].generator}
    /\ statements[i].payer # Customer =>
         \E ref \in AcceptedFor(StatementSubject(i)) :
           Cardinality({statements[i].generator, statements[i].assessor, statements[i].payer,
                        evidence[ref].recorder}) = 4
=============================================================================
