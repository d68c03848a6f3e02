------------------------------ MODULE AiCredits ------------------------------
(* The AI credit account of one customer, the inference requests that reserve *)
(* and settle credits, and the manual adjustments of the account.             *)
(*                                                                            *)
(* A handler is one HTTP request of the customer's browser. Its steps are     *)
(* separate transactions: reconcile what expired, read a replay, begin (which *)
(* reserves), call the model, then complete (which settles) or fail (which    *)
(* releases). A retry with the same Idempotency-Key is another handler of the *)
(* same request. An answer whose strategy does not validate is repaired: the  *)
(* same handler calls the model again, a bounded number of times. Amounts are *)
(* whole credits; every request reserves the same estimate, which covers the  *)
(* repairs too.                                                               *)
EXTENDS Integers, FiniteSets, FiniteSetsExt

CONSTANTS
  Requests,     \* idempotency keys of inference requests
  Handlers,     \* HTTP requests in flight
  Adjustments,  \* manual adjustment requests of the operations staff
  Staff,        \* operations staff
  Estimate,     \* estimatedClientAiCredits: what a request reserves, for all its calls
  Repairs,      \* STRATEGY_REPAIR_ATTEMPTS: further calls to repair an answer
  Deltas,       \* credits a manual adjustment adds or takes
  Grant,        \* ai_credit_grant of a plan, or a trial's
  MaxCredits,   \* bound: available credits
  NoRequest, Nobody

ASSUME CreditConstants ==
  /\ Estimate \in Nat \ {0} /\ Grant \in Nat \ {0} /\ MaxCredits \in Nat /\ Repairs \in Nat
  /\ NoRequest \notin Requests /\ Nobody \notin Staff
  /\ Deltas \subseteq Int /\ IsFiniteSet(Requests)

VARIABLES
  account,     \* ai_credit_accounts: available and reserved credits
  inference,   \* client_ai_inference_requests with their reservation
  handler,     \* where a handler is, for which request and after how many repairs
  adjustment,  \* ai_credit_adjustment_requests
  modelCalls,  \* history: first calls of the model for a request, and repairs
  charged,     \* history: credits a request was charged for
  granted      \* history: credits granted and adjusted, in total

creditVars == <<account, inference, handler, adjustment, modelCalls, charged, granted>>

NoInference == [status |-> "none", reservation |-> "none", expired |-> FALSE]
IdleHandler == [pc |-> "idle", request |-> NoRequest, attempt |-> 0]
NoCalls == [primary |-> 0, repair |-> 0]
NoAdjustment == [status |-> "none", delta |-> 0, requester |-> Nobody, decider |-> Nobody]

InferenceRow ==
  [status : {"none", "processing", "succeeded", "failed"},
   reservation : {"none", "reserved", "settled", "released"}, expired : BOOLEAN]
HandlerPcs == {"idle", "arrived", "reading", "beginning", "calling", "answered", "failing"}
HandlerRow == [pc : HandlerPcs, request : Requests \cup {NoRequest}, attempt : Nat]
AdjustmentRow ==
  [status : {"none", "pending", "approved", "rejected"}, delta : Int,
   requester : Staff \cup {Nobody}, decider : Staff \cup {Nobody}]

CreditsTypeOK ==
  /\ account \in [available : Nat, reserved : Nat]
  /\ inference \in [Requests -> InferenceRow]
  /\ handler \in [Handlers -> HandlerRow]
  /\ adjustment \in [Adjustments -> AdjustmentRow]
  /\ modelCalls \in [Requests -> [primary : Nat, repair : Nat]]
  /\ charged \in [Requests -> Nat]
  /\ granted \in Int

CreditsInit ==
  /\ account = [available |-> 0, reserved |-> 0]
  /\ inference = [r \in Requests |-> NoInference]
  /\ handler = [h \in Handlers |-> IdleHandler]
  /\ adjustment = [a \in Adjustments |-> NoAdjustment]
  /\ modelCalls = [r \in Requests |-> NoCalls]
  /\ charged = [r \in Requests |-> 0]
  /\ granted = 0

-----------------------------------------------------------------------------
(* The account: every mutation is one guarded transaction that locks the row *)

\* A mutation that would make a balance negative throws and rolls its transaction back.
Applies(available, reserved) ==
  /\ account.available + available >= 0
  /\ account.reserved + reserved >= 0

Mutate(available, reserved) ==
  /\ Applies(available, reserved)
  /\ account' = [available |-> account.available + available,
                 reserved |-> account.reserved + reserved]

\* Credits that come from outside the account: a plan's grant or an adjustment.
AddCredits(delta) ==
  /\ Mutate(delta, 0)
  /\ granted' = granted + delta

\* The grant of an activated order or of the operations' test accounts.
GrantCredits ==
  /\ account.available + Grant <= MaxCredits
  /\ AddCredits(Grant)
  /\ UNCHANGED <<inference, handler, adjustment, modelCalls, charged>>

\* One adjustment may be pending for a customer.
SubmitAdjustment(a, s, delta) ==
  /\ adjustment[a].status = "none"
  /\ \A b \in Adjustments : adjustment[b].status # "pending"
  /\ adjustment' = [adjustment EXCEPT ![a] = [status |-> "pending", delta |-> delta,
                                             requester |-> s, decider |-> Nobody]]
  /\ UNCHANGED <<account, inference, handler, modelCalls, charged, granted>>

DecidesAdjustment(a, s, status) ==
  /\ adjustment[a].status = "pending"
  /\ adjustment[a].requester # s
  /\ adjustment' = [adjustment EXCEPT ![a].status = status, ![a].decider = s]
  /\ UNCHANGED <<inference, handler, modelCalls, charged>>

\* The approval applies the delta to the balance of now; one that does not fit is refused
\* and stays pending.
ApproveAdjustment(a, s) ==
  /\ account.available + adjustment[a].delta <= MaxCredits
  /\ DecidesAdjustment(a, s, "approved")
  /\ AddCredits(adjustment[a].delta)

RejectAdjustment(a, s) ==
  /\ DecidesAdjustment(a, s, "rejected")
  /\ UNCHANGED <<account, granted>>

-----------------------------------------------------------------------------
(* Endings of a request: the reservation and the request change in one commit *)

\* Mutant: the release does not look whether the reservation is still held.
ReleasesAnything(r) == inference[r].status # "none"

\* Only a request in progress is ended; a finished one is replayed or refused.
InProgress(r) == inference[r].status = "processing"

\* Mutant: the release leaves the request's status as it was.
ReleasedOnly(r) == [inference[r] EXCEPT !.reservation = "released"]

Failed(r) == [inference[r] EXCEPT !.status = "failed", !.reservation = "released"]

Release(r) ==
  /\ InProgress(r)
  /\ Mutate(Estimate, -Estimate)
  /\ inference' = [inference EXCEPT ![r] = Failed(r)]
  /\ UNCHANGED <<adjustment, modelCalls, charged, granted>>

\* Mutant: what the model cost beyond the estimate is taken from the balance.
AnyCost(cost) == cost \in Nat

\* A cost above the reservation is refused, never debited.
FitsReservation(cost) == cost \in 0 .. Estimate

\* Mutant: what the request did not cost is not given back.
KeepsRest(cost) == 0

Refund(cost) == Estimate - cost

Settle(r, cost) ==
  /\ InProgress(r)
  /\ FitsReservation(cost)
  /\ Mutate(Refund(cost), -Estimate)
  /\ inference' = [inference EXCEPT ![r].status = "succeeded", ![r].reservation = "settled"]
  /\ charged' = [charged EXCEPT ![r] = @ + cost]
  /\ UNCHANGED <<adjustment, modelCalls, granted>>

-----------------------------------------------------------------------------
(* The handlers *)

At(h, pc) == handler[h].pc = pc
Goto(h, pc) == handler' = [handler EXCEPT ![h].pc = pc]
Leave(h) == handler' = [handler EXCEPT ![h] = IdleHandler]
OnlyHandler == UNCHANGED <<account, inference, adjustment, modelCalls, charged, granted>>

Post(h, r) ==
  /\ At(h, "idle")
  /\ handler' = [handler EXCEPT ![h] = [IdleHandler EXCEPT !.pc = "arrived", !.request = r]]
  /\ OnlyHandler

\* Every request first ends what expired, of the same customer, each in its own commit.
ReconcileStale(h, r) ==
  /\ At(h, "arrived")
  /\ inference[r].expired
  /\ Release(r)
  /\ UNCHANGED handler

Reconciled(h) ==
  /\ At(h, "arrived")
  /\ Goto(h, "reading")
  /\ OnlyHandler

\* Replay: a stored result is returned, a failure is thrown, a request in progress is a
\* conflict unless it expired, and then it is ended here.
ReadReplay(h) ==
  LET r == handler[h].request
  IN /\ At(h, "reading")
     /\ \/ /\ inference[r].status = "none"
           /\ Goto(h, "beginning")
           /\ OnlyHandler
        \/ /\ InProgress(r) /\ inference[r].expired
           /\ Release(r)
           /\ Leave(h)
        \/ /\ inference[r].status # "none"
           /\ ~(InProgress(r) /\ inference[r].expired)
           /\ Leave(h)
           /\ OnlyHandler

\* Mutant: the insert of the request row ignores a row with the same key.
Overwrites(r) == inference[r].status # "succeeded"

\* INSERT ... ON CONFLICT DO NOTHING on user, operation and idempotency key.
IsNewKey(r) == inference[r].status = "none"

\* The row and the reservation commit together; without credits neither remains.
Begin(h) ==
  LET r == handler[h].request
  IN /\ At(h, "beginning")
     /\ IF IsNewKey(r) /\ Applies(-Estimate, Estimate)
          THEN /\ Mutate(-Estimate, Estimate)
               /\ inference' = [inference EXCEPT
                    ![r] = [status |-> "processing", reservation |-> "reserved", expired |-> FALSE]]
               /\ Goto(h, "calling")
               /\ UNCHANGED <<adjustment, modelCalls, charged, granted>>
          ELSE Leave(h) /\ OnlyHandler

\* Quota, history and the message come before the model; each may fail without a call.
SetupFails(h) ==
  /\ At(h, "calling")
  /\ Goto(h, "failing")
  /\ OnlyHandler

\* No answer, an abort or an answer without metering fails the request.
CallModel(h) ==
  /\ At(h, "calling")
  /\ modelCalls' = [modelCalls EXCEPT ![handler[h].request].primary = @ + 1]
  /\ \E pc \in {"answered", "failing"} :
       handler' = [handler EXCEPT ![h].pc = pc, ![h].attempt = 0]
  /\ UNCHANGED <<account, inference, adjustment, charged, granted>>

\* An answer whose strategy does not validate goes back to the model, whatever became of the
\* request meanwhile. The last answer is kept, valid or not, when no attempt is left.
RepairReply(h) ==
  /\ At(h, "answered")
  /\ handler[h].attempt < Repairs
  /\ modelCalls' = [modelCalls EXCEPT ![handler[h].request].repair = @ + 1]
  /\ \E pc \in {"answered", "failing"} :
       handler' = [handler EXCEPT ![h].pc = pc, ![h].attempt = @ + 1]
  /\ UNCHANGED <<account, inference, adjustment, charged, granted>>

\* The settlement and the stored result are one commit.
Complete(h, cost) ==
  /\ At(h, "answered")
  /\ Settle(handler[h].request, cost)
  /\ Leave(h)

\* A request ended meanwhile, a cost above the reservation, or a result that cannot be
\* stored: the commit rolls back and the handler turns to fail the request.
CompleteThrows(h) ==
  /\ At(h, "answered")
  /\ Goto(h, "failing")
  /\ OnlyHandler

Fail(h) ==
  LET r == handler[h].request
  IN /\ At(h, "failing")
     /\ Leave(h)
     /\ IF InProgress(r) THEN Release(r) ELSE OnlyHandler

\* The process dies, or the fail itself throws: the request stays in progress.
HandlerDies(h) ==
  /\ ~At(h, "idle")
  /\ Leave(h)
  /\ OnlyHandler

\* The customer cancels from another browser window.
Cancel(r) == Release(r) /\ UNCHANGED handler

\* Ten minutes pass since the reservation.
Expire(r) ==
  /\ InProgress(r)
  /\ ~inference[r].expired
  /\ inference' = [inference EXCEPT ![r].expired = TRUE]
  /\ UNCHANGED <<account, handler, adjustment, modelCalls, charged, granted>>

HandlerStep(h) ==
  \/ \E r \in Requests : Post(h, r) \/ ReconcileStale(h, r)
  \/ Reconciled(h) \/ ReadReplay(h) \/ Begin(h) \/ SetupFails(h) \/ CallModel(h)
  \/ RepairReply(h)
  \/ \E cost \in 0 .. Estimate + 1 : Complete(h, cost)
  \/ CompleteThrows(h) \/ Fail(h) \/ HandlerDies(h)

AdjustmentStep(a) ==
  \/ \E s \in Staff, delta \in Deltas : SubmitAdjustment(a, s, delta)
  \/ \E s \in Staff : ApproveAdjustment(a, s) \/ RejectAdjustment(a, s)

CreditsNext ==
  \/ GrantCredits
  \/ \E h \in Handlers : HandlerStep(h)
  \/ \E r \in Requests : Cancel(r) \/ Expire(r)
  \/ \E a \in Adjustments : AdjustmentStep(a)

CreditsSpec == CreditsInit /\ [][CreditsNext]_creditVars

-----------------------------------------------------------------------------
(* Properties *)

Held == {r \in Requests : inference[r].reservation = "reserved"}

\* The reserved credits of the account are those of the requests in progress, so that no
\* ending, late answer, cancellation or reconciliation frees credits twice or strands them.
ReservedIsHeld == account.reserved = Estimate * Cardinality(Held)

\* A customer is charged for a request exactly when its result is stored, and at most what
\* was reserved: cancelled, expired and failed requests cost nothing, whoever ends them.
ChargedIffDelivered ==
  \A r \in Requests :
    /\ inference[r].reservation = "settled" <=> inference[r].status = "succeeded"
    /\ inference[r].reservation = "released" <=> inference[r].status = "failed"
    /\ charged[r] # 0 => inference[r].status = "succeeded"
    /\ charged[r] <= Estimate

\* No credit appears or disappears: what is available, held and charged together is what was
\* granted and adjusted, however endings of a request race each other.
CreditsConserved ==
  account.available + account.reserved + MapThenSumSet(LAMBDA r : charged[r], Requests) = granted

\* One idempotency key is one inference: it begins a reply with the model at most once, and with
\* the repairs of that reply makes no more calls than its reservation was made for, whatever is
\* retried, cancelled or reconciled meanwhile ("the same request will not call the model again").
OneInference ==
  \A r \in Requests : modelCalls[r].primary <= 1 /\ modelCalls[r].repair <= Repairs

Account == INSTANCE CreditAccount WITH
  available <- account.available,
  reserved <- account.reserved,
  reservation <- [r \in Requests |-> inference[r].reservation],
  charge <- charged,
  given <- granted

\* The credits implement the account that a customer relies on: handlers that retry, die,
\* cancel and expire do to it no more than one reservation and one ending for each key.
ImplementsCreditAccount == Account!Spec
=============================================================================
