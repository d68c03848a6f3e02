--------------------------- MODULE AiCreditsProofs ---------------------------
(* The credits of AI requests for any number of requests, handlers and        *)
(* adjustments and any estimate. CreditInv ties each reservation to the       *)
(* status of its request, and each handler that is about to call the model    *)
(* to the request it began.                                                   *)
EXTENDS AiCredits, Sums

-----------------------------------------------------------------------------
(* The invariant *)

\* A reservation is held exactly as long as its request is in progress.
HeldInProgress ==
  \A r \in Requests :
    /\ inference[r].reservation = "reserved" <=> inference[r].status = "processing"
    /\ inference[r].reservation = "none" <=> inference[r].status = "none"

BusyHasRequest == \A h \in Handlers : handler[h].pc # "idle" => handler[h].request \in Requests

\* A handler at the model, before its first call or with an answer it may repair.
Inferring(h) == handler[h].pc \in {"calling", "answered"}

\* The calls made for a request are those of the handler that began it, which is the only one
\* at the model for it: none before the first, as many repairs as it counts after it.
CallsCounted ==
  \A h \in Handlers :
    /\ handler[h].pc = "calling" => modelCalls[handler[h].request] = NoCalls
    /\ handler[h].pc = "answered" => modelCalls[handler[h].request].repair = handler[h].attempt

\* The handler that began a request is the only one that calls the model for it.
OneCaller ==
  /\ \A r \in Requests : inference[r].status = "none" => modelCalls[r] = NoCalls
  /\ \A h \in Handlers : Inferring(h) => inference[handler[h].request].status # "none"
  /\ \A g, h \in Handlers :
       g # h /\ Inferring(g) /\ Inferring(h) => handler[g].request # handler[h].request

RowsInv == HeldInProgress /\ ReservedIsHeld /\ ChargedIffDelivered
HandlersInv == BusyHasRequest /\ OneCaller /\ CallsCounted /\ OneInference
CreditInv == CreditsTypeOK /\ RowsInv /\ HandlersInv

-----------------------------------------------------------------------------

\* The sets whose sizes are compared are finite.
LEMMA HeldIsFinite ==
  /\ IsFiniteSet(Held) /\ IsFiniteSet(Held')
  /\ Cardinality(Held) \in Nat /\ Cardinality(Held') \in Nat
<1>1. IsFiniteSet(Requests) BY CreditConstants DEF CreditConstants
<1>2. Held \in SUBSET Requests /\ Held' \in SUBSET Requests BY DEF Held
<1>3. IsFiniteSet(Held) /\ IsFiniteSet(Held') BY <1>1, <1>2, FS_Subset
<1>4. QED BY <1>3, FS_CardinalityType

\* One more term of a product.
LEMMA Distributes ==
  ASSUME NEW e \in Nat, NEW n \in Nat
  PROVE  e * (n + 1) = e * n + e
OBVIOUS

\* No request and no debit at the start.
LEMMA CreditInvInit == CreditsInit => CreditInv
<1> SUFFICES ASSUME CreditsInit PROVE CreditInv OBVIOUS
<1> USE CreditConstants DEF CreditConstants, CreditsInit
<1>1. NoInference \in InferenceRow /\ IdleHandler \in HandlerRow
  BY DEF NoInference, IdleHandler, InferenceRow, HandlerRow, HandlerPcs
<1>2. NoAdjustment \in AdjustmentRow BY DEF NoAdjustment, AdjustmentRow
<1>3. CreditsTypeOK BY <1>1, <1>2 DEF CreditsTypeOK, NoCalls
<1>4. \A r \in Requests : inference[r].status = "none" /\ inference[r].reservation = "none"
  BY DEF NoInference
<1>5. Held = {} BY <1>4 DEF Held
<1>6. ReservedIsHeld BY <1>5, FS_EmptySet DEF ReservedIsHeld
<1>7. HeldInProgress BY <1>4 DEF HeldInProgress
<1>8. ChargedIffDelivered BY <1>4 DEF ChargedIffDelivered
<1>9. HandlersInv
  BY DEF HandlersInv, BusyHasRequest, OneCaller, CallsCounted, OneInference, Inferring, IdleHandler, NoCalls
<1>10. QED BY <1>3, <1>6, <1>7, <1>8, <1>9 DEF CreditInv, RowsInv

-----------------------------------------------------------------------------
(* The rows of the database *)

\* A request that changes neither reservation nor status keeps the rows' invariant.
LEMMA RowsStay ==
  ASSUME RowsInv, UNCHANGED <<inference, charged>>, account'.reserved = account.reserved
  PROVE  RowsInv'
BY DEF RowsInv, HeldInProgress, ReservedIsHeld, Held, ChargedIffDelivered

\* Ending a request gives back exactly its part of the reserved credits, once.
LEMMA RowsEnd ==
  ASSUME CreditsTypeOK, RowsInv, NEW r \in Requests, inference[r].status = "processing",
         NEW row \in InferenceRow, inference' = [inference EXCEPT ![r] = row],
         \/ row.status = "failed" /\ row.reservation = "released" /\ UNCHANGED charged
         \/ /\ row.status = "succeeded" /\ row.reservation = "settled"
            /\ charged' \in [Requests -> Nat] /\ charged'[r] <= Estimate
            /\ \A q \in Requests \ {r} : charged'[q] = charged[q],
         account'.reserved = account.reserved - Estimate
  PROVE  RowsInv'
<1> USE DEF RowsInv
<1>1. inference'[r] = row /\ \A q \in Requests \ {r} : inference'[q] = inference[q]
  BY DEF CreditsTypeOK
<1>2. r \in Held BY DEF HeldInProgress, Held
<1>3. Held' = Held \ {r} BY <1>1 DEF Held
<1>4. Cardinality(Held) = Cardinality(Held') + 1
  BY <1>2, <1>3, HeldIsFinite, FS_RemoveElement
<1>5. Estimate * Cardinality(Held) = Estimate * Cardinality(Held') + Estimate
  BY <1>4, HeldIsFinite, Distributes, CreditConstants DEF CreditConstants
<1>6. ReservedIsHeld'
  <2>1. Estimate * Cardinality(Held') \in Int
    BY HeldIsFinite, CreditConstants DEF CreditConstants
  <2>2. QED BY <1>5, <2>1, CreditConstants DEF ReservedIsHeld, CreditConstants
<1>7. HeldInProgress' BY <1>1 DEF HeldInProgress
<1>8. charged[r] = 0 BY DEF ChargedIffDelivered, CreditsTypeOK
<1>9. ChargedIffDelivered'
  <2>1. CASE row.status = "failed" /\ row.reservation = "released" /\ UNCHANGED charged
    BY <1>1, <1>8, <2>1 DEF ChargedIffDelivered
  <2>2. CASE /\ row.status = "succeeded" /\ row.reservation = "settled"
             /\ charged' \in [Requests -> Nat] /\ charged'[r] <= Estimate
             /\ \A q \in Requests \ {r} : charged'[q] = charged[q]
    BY <1>1, <2>2 DEF ChargedIffDelivered
  <2>3. QED BY <2>1, <2>2
<1>10. QED BY <1>6, <1>7, <1>9

\* A request that begins reserves its estimate.
LEMMA RowsBegin ==
  ASSUME CreditsTypeOK, RowsInv, NEW r \in Requests, inference[r].status = "none",
         NEW row \in InferenceRow, row.status = "processing", row.reservation = "reserved",
         inference' = [inference EXCEPT ![r] = row], UNCHANGED charged,
         account'.reserved = account.reserved + Estimate
  PROVE  RowsInv'
<1> USE DEF RowsInv
<1>1. inference'[r] = row /\ \A q \in Requests \ {r} : inference'[q] = inference[q]
  BY DEF CreditsTypeOK
<1>2. r \notin Held BY DEF HeldInProgress, Held
<1>3. Held' = Held \cup {r} BY <1>1 DEF Held
<1>4. Cardinality(Held') = Cardinality(Held) + 1
  BY <1>2, <1>3, HeldIsFinite, FS_AddElement
<1>5. Estimate * Cardinality(Held') = Estimate * Cardinality(Held) + Estimate
  BY <1>4, HeldIsFinite, Distributes, CreditConstants DEF CreditConstants
<1>6. ReservedIsHeld' BY <1>5 DEF ReservedIsHeld
<1>7. HeldInProgress' BY <1>1 DEF HeldInProgress
<1>8. ChargedIffDelivered' BY <1>1 DEF ChargedIffDelivered
<1>9. QED BY <1>6, <1>7, <1>8

-----------------------------------------------------------------------------
(* The handlers *)

\* A handler that moves on without beginning a request or calling the model.
LEMMA HandlersStay ==
  ASSUME CreditsTypeOK, HandlersInv, UNCHANGED modelCalls,
         \A r \in Requests : inference'[r].status = "none" <=> inference[r].status = "none",
         \/ UNCHANGED handler
         \/ \E h \in Handlers, row \in HandlerRow :
              /\ handler' = [handler EXCEPT ![h] = row]
              /\ row.pc \notin {"calling", "answered"} /\ (row.pc # "idle" => row.request \in Requests)
  PROVE  HandlersInv'
<1> USE DEF HandlersInv
<1>1. \A h \in Handlers : \/ handler'[h] = handler[h]
                          \/ /\ handler'[h].pc \notin {"calling", "answered"}
                             /\ handler'[h].pc # "idle" => handler'[h].request \in Requests
  BY DEF CreditsTypeOK
<1>2. BusyHasRequest' BY <1>1 DEF BusyHasRequest
<1>3. \A h \in Handlers : Inferring(h)' =>
        handler'[h] = handler[h] /\ Inferring(h) /\ handler[h].request \in Requests
  BY <1>1 DEF BusyHasRequest, Inferring
<1>4. OneCaller' BY <1>3 DEF OneCaller
<1>5. CallsCounted' BY <1>3 DEF CallsCounted, Inferring
<1>6. OneInference' BY DEF OneInference
<1>7. QED BY <1>2, <1>4, <1>5, <1>6

\* Begin: the request was new, so nobody else is at the model for it.
LEMMA HandlersBegin ==
  ASSUME CreditsTypeOK, HandlersInv, NEW h \in Handlers, NEW r \in Requests,
         NEW row \in HandlerRow, row.pc = "calling", row.request = r,
         handler' = [handler EXCEPT ![h] = row], UNCHANGED modelCalls,
         inference[r].status = "none", inference'[r].status # "none",
         \A q \in Requests \ {r} : inference'[q] = inference[q]
  PROVE  HandlersInv'
<1> USE DEF HandlersInv
<1>1. handler'[h] = row /\ \A g \in Handlers \ {h} : handler'[g] = handler[g]
  BY DEF CreditsTypeOK
<1>2. modelCalls[r] = NoCalls BY DEF OneCaller
<1>3. \A g \in Handlers \ {h} : Inferring(g)' =>
        Inferring(g) /\ handler'[g] = handler[g] /\ handler[g].request \in Requests \ {r}
  BY <1>1 DEF OneCaller, BusyHasRequest, Inferring
<1>4. BusyHasRequest' BY <1>1 DEF BusyHasRequest
<1>5. OneCaller' BY <1>1, <1>2, <1>3 DEF OneCaller
<1>6. CallsCounted' BY <1>1, <1>2, <1>3 DEF CallsCounted, Inferring
<1>7. OneInference' BY DEF OneInference
<1>8. QED BY <1>4, <1>5, <1>6, <1>7

\* A call: only the handler that began the request makes it, and it counts its repairs.
LEMMA HandlersCall ==
  ASSUME CreditsTypeOK, HandlersInv, NEW h \in Handlers, Inferring(h),
         NEW row \in HandlerRow, NEW calls \in [primary : Nat, repair : Nat],
         row.pc \in {"answered", "failing"}, row.request = handler[h].request,
         handler' = [handler EXCEPT ![h] = row], UNCHANGED inference,
         modelCalls' = [modelCalls EXCEPT ![handler[h].request] = calls],
         calls.primary <= 1, calls.repair <= Repairs, calls.repair = row.attempt
  PROVE  HandlersInv'
<1> DEFINE r == handler[h].request
<1> USE DEF HandlersInv
<1>1. handler'[h] = row /\ \A g \in Handlers \ {h} : handler'[g] = handler[g]
  BY DEF CreditsTypeOK
<1>2. r \in Requests /\ inference[r].status # "none"
  BY DEF OneCaller, BusyHasRequest, Inferring
<1>3. modelCalls'[r] = calls /\ \A q \in Requests \ {r} : modelCalls'[q] = modelCalls[q]
  BY <1>2 DEF CreditsTypeOK
<1>4. \A g \in Handlers \ {h} : Inferring(g)' =>
        Inferring(g) /\ handler'[g] = handler[g] /\ handler[g].request \in Requests \ {r}
  BY <1>1 DEF OneCaller, BusyHasRequest, Inferring
<1>5. BusyHasRequest' BY <1>1, <1>2 DEF BusyHasRequest
<1>6. OneCaller' BY <1>1, <1>2, <1>3, <1>4 DEF OneCaller
<1>7. CallsCounted' BY <1>1, <1>2, <1>3, <1>4 DEF CallsCounted, Inferring
<1>8. OneInference' BY <1>3 DEF OneInference
<1>9. QED BY <1>5, <1>6, <1>7, <1>8

-----------------------------------------------------------------------------
(* The actions *)

\* Whatever moves a handler alone.
LEMMA InvOfMove ==
  ASSUME CreditInv, NEW h \in Handlers, NEW row \in HandlerRow, row.pc \notin {"calling", "answered"},
         row.pc # "idle" => row.request \in Requests,
         handler' = [handler EXCEPT ![h] = row], OnlyHandler
  PROVE  CreditInv'
<1> USE DEF CreditInv, OnlyHandler
<1>1. CreditsTypeOK' BY DEF CreditsTypeOK
<1>2. RowsInv' BY RowsStay
<1>3. HandlersInv' BY HandlersStay
<1>4. QED BY <1>1, <1>2, <1>3

\* Release: whoever fails, cancels or reconciles the request.
LEMMA InvOfRelease ==
  ASSUME CreditInv, NEW r \in Requests, Release(r),
         \/ UNCHANGED handler
         \/ \E h \in Handlers : Leave(h)
  PROVE  CreditInv'
<1> USE CreditConstants DEF CreditInv, CreditConstants
<1>1. /\ inference[r].status = "processing" /\ inference[r] \in InferenceRow
      /\ inference' = [inference EXCEPT ![r] = Failed(r)]
      /\ UNCHANGED <<adjustment, modelCalls, charged, granted>>
  BY DEF Release, InProgress, CreditsTypeOK
<1>2. Failed(r) \in InferenceRow /\ Failed(r).status = "failed"
      /\ Failed(r).reservation = "released"
  BY <1>1 DEF Failed, InferenceRow
<1>3. /\ account'.reserved = account.reserved - Estimate
      /\ account' \in [available : Nat, reserved : Nat]
  BY DEF Release, Mutate, Applies, CreditsTypeOK
<1>4. IdleHandler \in HandlerRow /\ IdleHandler.pc = "idle"
  BY DEF IdleHandler, HandlerRow, HandlerPcs
<1>5. \/ UNCHANGED handler
      \/ \E h \in Handlers : handler' = [handler EXCEPT ![h] = IdleHandler]
  BY DEF Leave
<1>6. inference' \in [Requests -> InferenceRow] /\ handler' \in [Handlers -> HandlerRow]
  BY <1>1, <1>2, <1>4, <1>5 DEF CreditsTypeOK
<1>7. CreditsTypeOK'
  BY <1>1, <1>3, <1>6 DEF CreditsTypeOK
<1>8. RowsInv' BY <1>1, <1>2, <1>3, RowsEnd
<1>9. \A q \in Requests : inference'[q].status = "none" <=> inference[q].status = "none"
  BY <1>1, <1>2 DEF CreditsTypeOK
<1>10. HandlersInv' BY <1>1, <1>4, <1>5, <1>9, HandlersStay
<1>11. QED BY <1>7, <1>8, <1>10

\* Complete: the settlement charges the cost and gives the rest back.
LEMMA InvOfComplete ==
  ASSUME CreditInv, NEW h \in Handlers, NEW cost \in 0 .. Estimate + 1, Complete(h, cost)
  PROVE  CreditInv'
<1> DEFINE r == handler[h].request
           row == [inference[r] EXCEPT !.status = "succeeded", !.reservation = "settled"]
<1> USE CreditConstants DEF CreditInv, CreditConstants
<1>1. r \in Requests BY DEF Complete, At, HandlersInv, BusyHasRequest
<1>2. /\ inference[r].status = "processing" /\ inference[r] \in InferenceRow
      /\ cost \in 0 .. Estimate
      /\ inference' = [inference EXCEPT ![r].status = "succeeded", ![r].reservation = "settled"]
      /\ charged' = [charged EXCEPT ![r] = @ + cost]
      /\ handler' = [handler EXCEPT ![h] = IdleHandler]
      /\ UNCHANGED <<adjustment, modelCalls, granted>>
  BY <1>1 DEF Complete, Settle, FitsReservation, InProgress, Leave, CreditsTypeOK
<1>3. row \in InferenceRow /\ row.status = "succeeded" /\ row.reservation = "settled"
  BY <1>2 DEF InferenceRow
<1>4. inference' = [inference EXCEPT ![r] = row] BY <1>1, <1>2 DEF CreditsTypeOK
<1>5. charged[r] = 0 BY <1>1, <1>2 DEF RowsInv, ChargedIffDelivered, CreditsTypeOK
<1>6. /\ charged' \in [Requests -> Nat] /\ charged'[r] <= Estimate
      /\ \A q \in Requests \ {r} : charged'[q] = charged[q]
  BY <1>1, <1>2, <1>5 DEF CreditsTypeOK
<1>7. /\ account'.reserved = account.reserved - Estimate
      /\ account' \in [available : Nat, reserved : Nat]
  BY <1>2 DEF Complete, Settle, Mutate, Applies, Refund, CreditsTypeOK
<1>8. IdleHandler \in HandlerRow /\ IdleHandler.pc = "idle"
  BY DEF IdleHandler, HandlerRow, HandlerPcs
<1> HIDE DEF row, r
<1>9. inference' \in [Requests -> InferenceRow] /\ handler' \in [Handlers -> HandlerRow]
  <2>1. inference' \in [Requests -> InferenceRow] BY <1>1, <1>3, <1>4 DEF CreditsTypeOK
  <2>2. handler' \in [Handlers -> HandlerRow] BY <1>2, <1>8 DEF CreditsTypeOK
  <2>3. QED BY <2>1, <2>2
<1>10. CreditsTypeOK'
  <2>1. adjustment' = adjustment /\ modelCalls' = modelCalls /\ granted' = granted BY <1>2
  <2>2. /\ adjustment \in [Adjustments -> AdjustmentRow] /\ modelCalls \in [Requests -> [primary : Nat, repair : Nat]]
        /\ granted \in Int
    BY DEF CreditsTypeOK
  <2>3. QED BY <1>6, <1>7, <1>9, <2>1, <2>2, Zenon DEF CreditsTypeOK
<1>11. RowsInv'
  <2>1. CreditsTypeOK /\ RowsInv OBVIOUS
  <2> HIDE DEF CreditInv, CreditConstants
  <2>2. QED BY <1>1, <1>2, <1>3, <1>4, <1>6, <1>7, <2>1, RowsEnd
<1>12. \A q \in Requests : inference'[q].status = "none" <=> inference[q].status = "none"
  BY <1>1, <1>2, <1>3, <1>4 DEF CreditsTypeOK
<1>13. HandlersInv' BY <1>2, <1>8, <1>12, HandlersStay
<1>14. QED BY <1>10, <1>11, <1>13

\* Begin: a new key reserves; any other leaves.
LEMMA InvOfBegin ==
  ASSUME CreditInv, NEW h \in Handlers, Begin(h)
  PROVE  CreditInv'
<1> DEFINE r == handler[h].request
           row == [status |-> "processing", reservation |-> "reserved", expired |-> FALSE]
           job == [handler[h] EXCEPT !.pc = "calling"]
<1> USE CreditConstants DEF CreditInv, CreditConstants
<1>1. r \in Requests /\ handler[h] \in HandlerRow
  BY DEF Begin, At, HandlersInv, BusyHasRequest, CreditsTypeOK
<1>2. CASE IsNewKey(r) /\ Applies(-Estimate, Estimate)
  <2>1. /\ inference' = [inference EXCEPT ![r] = row] /\ inference[r].status = "none"
        /\ handler' = [handler EXCEPT ![h] = job]
        /\ UNCHANGED <<adjustment, modelCalls, charged, granted>>
        /\ Mutate(-Estimate, Estimate)
    BY <1>2 DEF Begin, Goto, IsNewKey
  <2>2. row \in InferenceRow /\ row.status = "processing" /\ row.reservation = "reserved"
    BY DEF InferenceRow
  <2>3. job \in HandlerRow /\ job.pc = "calling" /\ job.request = r
    BY <1>1 DEF HandlerRow, HandlerPcs
  <2>4. /\ account'.reserved = account.reserved + Estimate
        /\ account' \in [available : Nat, reserved : Nat]
    BY <2>1 DEF Mutate, Applies, CreditsTypeOK
  <2> HIDE DEF row, job
  <2>5. inference' \in [Requests -> InferenceRow] /\ handler' \in [Handlers -> HandlerRow]
    BY <2>1, <2>2, <2>3 DEF CreditsTypeOK
  <2>6. CreditsTypeOK'
    BY <2>1, <2>4, <2>5 DEF CreditsTypeOK
  <2>7. RowsInv' BY <1>1, <2>1, <2>2, <2>4, RowsBegin
  <2>8. inference'[r].status # "none" /\ \A q \in Requests \ {r} : inference'[q] = inference[q]
    BY <1>1, <2>1, <2>2 DEF CreditsTypeOK
  <2>9. HandlersInv' BY <1>1, <2>1, <2>3, <2>8, HandlersBegin
  <2>10. QED BY <2>6, <2>7, <2>9
<1>3. CASE ~(IsNewKey(r) /\ Applies(-Estimate, Estimate))
  <2>1. handler' = [handler EXCEPT ![h] = IdleHandler] /\ OnlyHandler
    BY <1>3 DEF Begin, Leave
  <2>2. IdleHandler \in HandlerRow /\ IdleHandler.pc = "idle"
    BY DEF IdleHandler, HandlerRow, HandlerPcs
  <2>3. QED BY <2>1, <2>2, InvOfMove
<1>4. QED BY <1>2, <1>3

\* The first call and the repairs.
LEMMA InvOfCall ==
  ASSUME CreditInv, NEW h \in Handlers, CallModel(h) \/ RepairReply(h)
  PROVE  CreditInv'
<1> USE DEF CreditInv
<1>1. handler[h].request \in Requests /\ handler[h] \in HandlerRow /\ Inferring(h)
  BY DEF CallModel, RepairReply, At, HandlersInv, BusyHasRequest, CreditsTypeOK, Inferring
<1>2. PICK r \in Requests : r = handler[h].request BY <1>1
<1>3. modelCalls[r] \in [primary : Nat, repair : Nat] /\ modelCalls[r].primary <= 1
  BY DEF CreditsTypeOK, HandlersInv, OneInference
<1>4. \E row \in HandlerRow, calls \in [primary : Nat, repair : Nat] :
        /\ row.pc \in {"answered", "failing"} /\ row.request = r
        /\ handler' = [handler EXCEPT ![h] = row]
        /\ modelCalls' = [modelCalls EXCEPT ![r] = calls]
        /\ calls.primary <= 1 /\ calls.repair <= Repairs /\ calls.repair = row.attempt
  <2>1. CASE CallModel(h)
    <3>1. modelCalls[r] = NoCalls BY <1>2, <2>1 DEF CallModel, At, HandlersInv, CallsCounted
    <3>2. PICK pc \in {"answered", "failing"} :
            handler' = [handler EXCEPT ![h].pc = pc, ![h].attempt = 0]
      BY <2>1 DEF CallModel
    <3> DEFINE row == [handler[h] EXCEPT !.pc = pc, !.attempt = 0]
    <3> DEFINE calls == [modelCalls[r] EXCEPT !.primary = @ + 1]
    <3>3. row \in HandlerRow /\ row.pc = pc /\ row.request = r /\ row.attempt = 0
      BY <1>1, <1>2 DEF HandlerRow, HandlerPcs
    <3>4. calls \in [primary : Nat, repair : Nat] /\ calls.primary <= 1 /\ calls.repair = 0
      BY <1>3, <3>1 DEF NoCalls
    <3>5. modelCalls' = [modelCalls EXCEPT ![r] = calls] BY <1>2, <2>1 DEF CallModel
    <3>6. handler' = [handler EXCEPT ![h] = row] BY <3>2
    <3>7. calls.repair <= Repairs BY <3>4, CreditConstants DEF CreditConstants
    <3>8. calls.repair = row.attempt /\ row.pc \in {"answered", "failing"} BY <3>3, <3>4
    <3> HIDE DEF row, calls
    <3>9. QED BY <3>3, <3>4, <3>5, <3>6, <3>7, <3>8
  <2>2. CASE RepairReply(h)
    <3>1. modelCalls[r].repair = handler[h].attempt /\ handler[h].attempt < Repairs
      BY <1>2, <2>2 DEF RepairReply, At, HandlersInv, CallsCounted
    <3>2. PICK pc \in {"answered", "failing"} :
            handler' = [handler EXCEPT ![h].pc = pc, ![h].attempt = @ + 1]
      BY <2>2 DEF RepairReply
    <3>3. PICK n \in Nat : n = handler[h].attempt + 1 BY <1>1 DEF HandlerRow
    <3> DEFINE row == [handler[h] EXCEPT !.pc = pc, !.attempt = n]
    <3> DEFINE calls == [modelCalls[r] EXCEPT !.repair = @ + 1]
    <3>4. row \in HandlerRow /\ row.pc = pc /\ row.request = r /\ row.attempt = n
      BY <1>1, <1>2 DEF HandlerRow, HandlerPcs
    <3>5. calls \in [primary : Nat, repair : Nat] /\ calls.primary <= 1 /\ calls.repair = n
      BY <1>3, <3>1, <3>3
    <3>6. n <= Repairs
      BY <1>1, <3>1, <3>3, CreditConstants DEF CreditConstants, HandlerRow
    <3>7. modelCalls' = [modelCalls EXCEPT ![r] = calls] BY <1>2, <2>2 DEF RepairReply
    <3>8. handler' = [handler EXCEPT ![h] = row] BY <3>2, <3>3
    <3> HIDE DEF row, calls
    <3>9. QED BY <3>4, <3>5, <3>6, <3>7, <3>8
  <2>3. QED BY <2>1, <2>2
<1>5. UNCHANGED <<account, inference, adjustment, charged, granted>>
  BY DEF CallModel, RepairReply
<1>6. handler' \in [Handlers -> HandlerRow] BY <1>4 DEF CreditsTypeOK
<1>7. modelCalls' \in [Requests -> [primary : Nat, repair : Nat]] BY <1>4 DEF CreditsTypeOK
<1>8. CreditsTypeOK' BY <1>5, <1>6, <1>7 DEF CreditsTypeOK
<1>9. RowsInv' BY <1>5, RowsStay
<1>10. HandlersInv'
  <2>1. PICK row \in HandlerRow, calls \in [primary : Nat, repair : Nat] :
          /\ row.pc \in {"answered", "failing"} /\ row.request = r
          /\ handler' = [handler EXCEPT ![h] = row]
          /\ modelCalls' = [modelCalls EXCEPT ![r] = calls]
          /\ calls.primary <= 1 /\ calls.repair <= Repairs /\ calls.repair = row.attempt
    BY <1>4
  <2>2. /\ modelCalls' = [modelCalls EXCEPT ![handler[h].request] = calls]
        /\ row.request = handler[h].request
    BY <1>2, <2>1
  <2>3. CreditsTypeOK /\ HandlersInv /\ Inferring(h) /\ UNCHANGED inference BY <1>1, <1>5
  <2>4. row.pc \in {"answered", "failing"} BY <2>1
  <2>5. calls.primary <= 1 /\ calls.repair <= Repairs /\ calls.repair = row.attempt BY <2>1
  <2>6. handler' = [handler EXCEPT ![h] = row] BY <2>1
  <2> HIDE DEF CreditInv
  <2>7. QED BY <2>2, <2>3, <2>4, <2>5, <2>6, HandlersCall
<1>11. QED BY <1>8, <1>9, <1>10

\* Every step of a request's handler.
LEMMA InvOfHandler ==
  ASSUME CreditInv, NEW h \in Handlers, HandlerStep(h)
  PROVE  CreditInv'
<1> USE DEF CreditInv
<1>1. IdleHandler \in HandlerRow /\ IdleHandler.pc = "idle" /\ handler[h] \in HandlerRow
  BY CreditConstants DEF IdleHandler, HandlerRow, HandlerPcs, CreditsTypeOK
<1>2. ASSUME handler[h].pc # "idle", NEW pc \in HandlerPcs \ {"calling", "answered"}, Goto(h, pc), OnlyHandler
      PROVE  CreditInv'
  <2> DEFINE job == [handler[h] EXCEPT !.pc = pc]
  <2>1. job \in HandlerRow /\ job.pc = pc /\ job.request = handler[h].request
    BY <1>1 DEF HandlerRow
  <2>2. handler' = [handler EXCEPT ![h] = job] BY <1>2 DEF Goto
  <2>3. handler[h].request \in Requests BY <1>2 DEF HandlersInv, BusyHasRequest
  <2> HIDE DEF job
  <2>4. QED BY <1>2, <2>1, <2>2, <2>3, InvOfMove
<1>3. ASSUME Leave(h), OnlyHandler PROVE CreditInv' BY <1>1, <1>3, InvOfMove DEF Leave
<1>4. ASSUME NEW r \in Requests, Post(h, r) PROVE CreditInv'
  <2> DEFINE job == [IdleHandler EXCEPT !.pc = "arrived", !.request = r]
  <2>1. job \in HandlerRow /\ job.pc = "arrived" /\ job.request = r BY DEF HandlerRow, HandlerPcs, IdleHandler
  <2>2. handler' = [handler EXCEPT ![h] = job] /\ OnlyHandler BY <1>4 DEF Post
  <2> HIDE DEF job
  <2>3. QED BY <2>1, <2>2, InvOfMove
<1>5. ASSUME NEW r \in Requests, ReconcileStale(h, r) PROVE CreditInv'
  BY <1>5, InvOfRelease DEF ReconcileStale
<1>6. CASE Reconciled(h) BY <1>2, <1>6 DEF Reconciled, At, HandlerPcs
<1>7. CASE ReadReplay(h)
  <2>1. handler[h].request \in Requests
    BY <1>7 DEF ReadReplay, At, HandlersInv, BusyHasRequest
  <2>2. CASE Release(handler[h].request) /\ Leave(h) BY <2>1, <2>2, InvOfRelease
  <2>3. CASE Goto(h, "beginning") /\ OnlyHandler BY <1>2, <1>7, <2>3 DEF ReadReplay, At, HandlerPcs
  <2>4. CASE Leave(h) /\ OnlyHandler BY <1>3, <2>4
  <2>5. QED BY <1>7, <2>2, <2>3, <2>4 DEF ReadReplay
<1>8. CASE Begin(h) BY <1>8, InvOfBegin
<1>9. CASE SetupFails(h) BY <1>2, <1>9 DEF SetupFails, At, HandlerPcs
<1>10. CASE CallModel(h) \/ RepairReply(h) BY <1>10, InvOfCall
<1>11. ASSUME NEW cost \in 0 .. Estimate + 1, Complete(h, cost) PROVE CreditInv'
  BY <1>11, InvOfComplete
<1>12. CASE CompleteThrows(h) BY <1>2, <1>12 DEF CompleteThrows, At, HandlerPcs
<1>13. CASE Fail(h)
  <2>1. handler[h].request \in Requests BY <1>13 DEF Fail, At, HandlersInv, BusyHasRequest
  <2>2. CASE Release(handler[h].request) BY <1>13, <2>1, <2>2, InvOfRelease DEF Fail
  <2>3. CASE OnlyHandler BY <1>3, <1>13, <2>3 DEF Fail
  <2>4. QED BY <1>13, <2>2, <2>3 DEF Fail
<1>14. CASE HandlerDies(h) BY <1>3, <1>14 DEF HandlerDies
<1>15. QED
  BY <1>4, <1>5, <1>6, <1>7, <1>8, <1>9, <1>10, <1>11, <1>12, <1>13, <1>14 DEF HandlerStep

\* Grants and adjustments move available credits only; expiry moves no credits.
LEMMA InvOfOthers ==
  ASSUME CreditInv,
         \/ GrantCredits
         \/ \E a \in Adjustments : AdjustmentStep(a)
         \/ \E r \in Requests : Expire(r)
  PROVE  CreditInv'
<1> USE CreditConstants DEF CreditInv, CreditConstants
<1>1. ASSUME NEW delta \in Int, AddCredits(delta)
      PROVE  /\ account' \in [available : Nat, reserved : Nat] /\ granted' \in Int
             /\ account'.reserved = account.reserved
  BY <1>1 DEF AddCredits, Mutate, Applies, CreditsTypeOK
<1>2. CASE GrantCredits
  <2>1. CreditsTypeOK' /\ account'.reserved = account.reserved
    BY <1>1, <1>2 DEF GrantCredits, CreditsTypeOK
  <2>2. QED BY <1>2, <2>1, RowsStay, HandlersStay DEF GrantCredits
<1>3. ASSUME NEW a \in Adjustments, NEW s \in Staff, NEW delta \in Deltas,
             SubmitAdjustment(a, s, delta)
      PROVE  CreditInv'
  <2>1. CreditsTypeOK' BY <1>3 DEF SubmitAdjustment, CreditsTypeOK, AdjustmentRow
  <2>2. QED BY <1>3, <2>1, RowsStay, HandlersStay DEF SubmitAdjustment
<1>4. ASSUME NEW a \in Adjustments, NEW s \in Staff, NEW status \in {"approved", "rejected"},
             DecidesAdjustment(a, s, status)
      PROVE  /\ adjustment' \in [Adjustments -> AdjustmentRow]
             /\ adjustment[a].delta \in Int
             /\ UNCHANGED <<inference, handler, modelCalls, charged>>
  <2> DEFINE row == [adjustment[a] EXCEPT !.status = status, !.decider = s]
  <2>1. adjustment[a] \in AdjustmentRow BY DEF CreditsTypeOK
  <2>2. row \in AdjustmentRow /\ adjustment[a].delta \in Int BY <2>1 DEF AdjustmentRow
  <2>3. adjustment' = [adjustment EXCEPT ![a] = row]
    BY <1>4 DEF DecidesAdjustment, CreditsTypeOK
  <2> HIDE DEF row
  <2>4. QED BY <1>4, <2>2, <2>3 DEF DecidesAdjustment, CreditsTypeOK
<1>5. ASSUME NEW a \in Adjustments, NEW s \in Staff, ApproveAdjustment(a, s) \/ RejectAdjustment(a, s)
      PROVE  CreditInv'
  <2>1. /\ account' \in [available : Nat, reserved : Nat] /\ granted' \in Int
        /\ account'.reserved = account.reserved
    BY <1>1, <1>4, <1>5 DEF ApproveAdjustment, RejectAdjustment, CreditsTypeOK
  <2>2. CreditsTypeOK' BY <1>4, <1>5, <2>1 DEF ApproveAdjustment, RejectAdjustment, CreditsTypeOK
  <2>3. UNCHANGED <<inference, handler, modelCalls, charged>>
    BY <1>4, <1>5 DEF ApproveAdjustment, RejectAdjustment
  <2>4. QED BY <2>1, <2>2, <2>3, RowsStay, HandlersStay
<1>6. ASSUME NEW r \in Requests, Expire(r) PROVE CreditInv'
  <2>1. /\ inference' = [inference EXCEPT ![r].expired = TRUE]
        /\ UNCHANGED <<account, handler, adjustment, modelCalls, charged, granted>>
    BY <1>6 DEF Expire
  <2>2. \A q \in Requests : /\ inference'[q].status = inference[q].status
                            /\ inference'[q].reservation = inference[q].reservation
    BY <2>1 DEF CreditsTypeOK
  <2>3. CreditsTypeOK' BY <2>1 DEF CreditsTypeOK, InferenceRow
  <2>4. Held' = Held BY <2>2 DEF Held
  <2>5. RowsInv'
    BY <2>1, <2>2, <2>4 DEF RowsInv, HeldInProgress, ReservedIsHeld, ChargedIffDelivered
  <2>6. QED BY <2>1, <2>2, <2>3, <2>5, HandlersStay
<1>7. QED BY <1>2, <1>3, <1>5, <1>6 DEF AdjustmentStep

\* Every step of the credits.
LEMMA CreditInvStep == CreditInv /\ [CreditsNext]_creditVars => CreditInv'
<1> SUFFICES ASSUME CreditInv, [CreditsNext]_creditVars PROVE CreditInv' OBVIOUS
<1>1. ASSUME NEW h \in Handlers, HandlerStep(h) PROVE CreditInv' BY <1>1, InvOfHandler
<1>2. ASSUME NEW r \in Requests, Cancel(r) PROVE CreditInv' BY <1>2, InvOfRelease DEF Cancel
<1>3. CASE UNCHANGED creditVars
  BY <1>3, RowsStay, HandlersStay DEF creditVars, CreditInv, CreditsTypeOK
<1>4. QED BY <1>1, <1>2, <1>3, InvOfOthers DEF CreditsNext

\* The reserved credits are those of the requests in progress, for any number of them and of
\* racing endings (mutateAiCredits, settle and release of ai-credit-service.ts).
THEOREM ReservedAlwaysHeld == CreditsSpec => []ReservedIsHeld
<1>1. CreditInv => ReservedIsHeld BY DEF CreditInv, RowsInv
<1>2. QED BY <1>1, CreditInvInit, CreditInvStep, PTL DEF CreditsSpec

\* A request is charged exactly when its result is stored, and at most its estimate.
THEOREM ChargesOnlyDelivered == CreditsSpec => []ChargedIffDelivered
<1>1. CreditInv => ChargedIffDelivered BY DEF CreditInv, RowsInv
<1>2. QED BY <1>1, CreditInvInit, CreditInvStep, PTL DEF CreditsSpec

\* One idempotency key begins at most one reply, and its reply and repairs make no more calls
\* than the reservation covers, for any number of handlers and of repairs
\* (client-ai-inference-service.ts begin, ai-assistant.ts).
THEOREM OneInferenceAKey == CreditsSpec => []OneInference
<1>1. CreditInv => OneInference BY DEF CreditInv, HandlersInv
<1>2. QED BY <1>1, CreditInvInit, CreditInvStep, PTL DEF CreditsSpec

\* The account never goes below zero, and rows and handlers stay well typed.
THEOREM CreditTypes == CreditsSpec => []CreditsTypeOK
<1>1. CreditInv => CreditsTypeOK BY DEF CreditInv
<1>2. QED BY <1>1, CreditInvInit, CreditInvStep, PTL DEF CreditsSpec

-----------------------------------------------------------------------------
(* What is available, held and charged *)

\* The property in terms of Total.
LEMMA ConservedIsTotal ==
  /\ CreditsConserved <=>
       account.available + account.reserved + Total(charged, Requests) = granted
  /\ CreditsConserved' <=>
       account'.available + account'.reserved + Total(charged', Requests) = granted'
BY DEF CreditsConserved, Total, MapThenSumSet, MapThenFoldSet

\* Steps that charge nothing and move as much within the account as they grant.
LEMMA ConservedByBalance ==
  ASSUME CreditsTypeOK, CreditsConserved, charged' = charged,
         NEW available \in Int, NEW reserved \in Int,
         account' = [available |-> account.available + available,
                     reserved |-> account.reserved + reserved],
         granted' = granted + (available + reserved)
  PROVE  CreditsConserved'
<1>1. IsFiniteSet(Requests) /\ \A r \in Requests : charged[r] \in Int
  BY CreditConstants DEF CreditConstants, CreditsTypeOK
<1>2. Total(charged, Requests) \in Int BY <1>1, TotalType
<1>3. account.available \in Int /\ account.reserved \in Int /\ granted \in Int
  BY DEF CreditsTypeOK
<1>4. QED BY <1>2, <1>3, ConservedIsTotal

\* The settlement charges what it does not give back.
LEMMA ConservedBySettle ==
  ASSUME CreditsTypeOK, CreditsConserved, NEW r \in Requests, NEW cost \in Int, Settle(r, cost)
  PROVE  CreditsConserved'
<1> USE CreditConstants DEF CreditConstants
<1>1. /\ charged' = [charged EXCEPT ![r] = @ + cost] /\ granted' = granted
      /\ account' = [available |-> account.available + (Estimate - cost),
                     reserved |-> account.reserved + -Estimate]
  BY DEF Settle, Mutate, Refund
<1>2. IsFiniteSet(Requests) /\ \A q \in Requests : charged[q] \in Int /\ charged'[q] \in Int
  BY <1>1 DEF CreditsTypeOK
<1>3. charged'[r] = charged[r] + cost /\ \A q \in Requests \ {r} : charged'[q] = charged[q]
  BY <1>1 DEF CreditsTypeOK
<1>4. Total(charged', Requests) = Total(charged, Requests) + (charged'[r] - charged[r])
  BY <1>2, <1>3, TotalChange
<1>5. Total(charged, Requests) \in Int BY <1>2, TotalType
<1>6. account.available \in Int /\ account.reserved \in Int /\ granted \in Int
  BY DEF CreditsTypeOK
<1>7. QED BY <1>1, <1>2, <1>3, <1>4, <1>5, <1>6, ConservedIsTotal

\* Nothing was granted, held or charged yet.
LEMMA ConservedInit == CreditsInit => CreditsConserved
<1> SUFFICES ASSUME CreditsInit PROVE CreditsConserved OBVIOUS
<1>1. IsFiniteSet(Requests) /\ \A r \in Requests : charged[r] = 0
  BY CreditConstants DEF CreditConstants, CreditsInit
<1>2. Total(charged, Requests) = 0 BY <1>1, TotalZero
<1>3. QED BY <1>2, ConservedIsTotal DEF CreditsInit

\* Every action is one of the two kinds.
LEMMA ConservedStep == CreditInv /\ CreditsConserved /\ [CreditsNext]_creditVars => CreditsConserved'
<1> SUFFICES ASSUME CreditInv, CreditsConserved, [CreditsNext]_creditVars PROVE CreditsConserved'
  OBVIOUS
<1> USE CreditConstants DEF CreditConstants, CreditInv
<1>1. ASSUME UNCHANGED <<account, charged, granted>> PROVE CreditsConserved'
  <2>1. account' = [available |-> account.available + 0, reserved |-> account.reserved + 0]
        /\ granted' = granted + (0 + 0)
    BY <1>1 DEF CreditsTypeOK
  <2>2. QED BY <1>1, <2>1, ConservedByBalance
<1>2. ASSUME NEW r \in Requests, Release(r) PROVE CreditsConserved'
  <2>1. /\ account' = [available |-> account.available + Estimate,
                       reserved |-> account.reserved + -Estimate]
        /\ granted' = granted + (Estimate + -Estimate)
        /\ charged' = charged
    BY <1>2 DEF Release, Mutate, CreditsTypeOK
  <2>2. QED BY <2>1, ConservedByBalance
<1>3. ASSUME NEW delta \in Int, AddCredits(delta), charged' = charged PROVE CreditsConserved'
  <2>1. account' = [available |-> account.available + delta, reserved |-> account.reserved + 0]
        /\ granted' = granted + (delta + 0)
    BY <1>3 DEF AddCredits, Mutate
  <2>2. QED BY <1>3, <2>1, ConservedByBalance
<1>4. ASSUME NEW h \in Handlers, HandlerStep(h) PROVE CreditsConserved'
  <2>1. handler[h].pc # "idle" => handler[h].request \in Requests
    BY DEF HandlersInv, BusyHasRequest
  <2>2. CASE OnlyHandler BY <1>1, <2>2 DEF OnlyHandler
  <2>3. CASE \E r \in Requests : Post(h, r) BY <1>1, <2>3 DEF Post, OnlyHandler
  <2>4. CASE \E r \in Requests : ReconcileStale(h, r) BY <1>2, <2>4 DEF ReconcileStale
  <2>5. CASE ReadReplay(h) BY <1>2, <2>1, <2>2, <2>5 DEF ReadReplay, At
  <2>6. CASE Begin(h)
    <3>1. CASE Mutate(-Estimate, Estimate) /\ UNCHANGED <<charged, granted>>
      <4>1. account' = [available |-> account.available + -Estimate,
                        reserved |-> account.reserved + Estimate]
            /\ granted' = granted + (-Estimate + Estimate)
        BY <3>1 DEF Mutate, CreditsTypeOK
      <4>2. QED BY <3>1, <4>1, ConservedByBalance
    <3>2. QED BY <2>2, <2>6, <3>1 DEF Begin
  <2>7. CASE CallModel(h) \/ RepairReply(h) BY <1>1, <2>7 DEF CallModel, RepairReply
  <2>8. CASE \E cost \in 0 .. Estimate + 1 : Complete(h, cost)
    BY <2>1, <2>8, ConservedBySettle DEF Complete, At
  <2>9. CASE Fail(h) BY <1>2, <2>1, <2>2, <2>9 DEF Fail, At
  <2>10. QED
    BY <1>4, <2>2, <2>3, <2>4, <2>5, <2>6, <2>7, <2>8, <2>9
    DEF HandlerStep, Reconciled, SetupFails, CompleteThrows, HandlerDies
<1>5. ASSUME NEW a \in Adjustments, AdjustmentStep(a) PROVE CreditsConserved'
  <2>1. adjustment[a].delta \in Int BY DEF CreditsTypeOK, AdjustmentRow
  <2>2. QED BY <1>1, <1>3, <1>5, <2>1
        DEF AdjustmentStep, SubmitAdjustment, ApproveAdjustment, RejectAdjustment, DecidesAdjustment
<1>6. CASE GrantCredits BY <1>3, <1>6 DEF GrantCredits
<1>7. ASSUME NEW r \in Requests, Cancel(r) PROVE CreditsConserved' BY <1>2, <1>7 DEF Cancel
<1>8. ASSUME NEW r \in Requests, Expire(r) PROVE CreditsConserved' BY <1>1, <1>8 DEF Expire
<1>9. CASE UNCHANGED creditVars BY <1>1, <1>9 DEF creditVars
<1>10. QED BY <1>4, <1>5, <1>6, <1>7, <1>8, <1>9 DEF CreditsNext

\* No credit appears or disappears, for any number of requests, handlers and adjustments: what
\* settle, release, reserve and adjust do to the account adds up (ai-credit-service.ts).
THEOREM NoCreditIsLost == CreditsSpec => []CreditsConserved
<1>1. CreditsInit => CreditInv /\ CreditsConserved BY CreditInvInit, ConservedInit
<1>2. CreditInv /\ CreditsConserved /\ [CreditsNext]_creditVars => (CreditInv /\ CreditsConserved)'
  BY CreditInvStep, ConservedStep
<1>3. QED BY <1>1, <1>2, PTL DEF CreditsSpec

-----------------------------------------------------------------------------
(* The credits implement the abstract account *)

\* What the abstract account sees of the requests.
Reservations == [r \in Requests |-> inference[r].reservation]

\* The row that r gets is all that the account sees of it.
LEMMA SeesRow ==
  ASSUME CreditsTypeOK, NEW r \in Requests, NEW row,
         inference' = [inference EXCEPT ![r] = row]
  PROVE  Reservations' = [Reservations EXCEPT ![r] = row.reservation]
<1>1. \A q \in Requests : inference'[q] = IF q = r THEN row ELSE inference[q]
  BY DEF CreditsTypeOK
<1>2. \A q \in Requests : inference'[q].reservation =
        IF q = r THEN row.reservation ELSE Reservations[q]
  BY <1>1 DEF Reservations
<1>3. Reservations' = [q \in Requests |-> inference'[q].reservation] BY DEF Reservations
<1>4. Reservations \in [Requests -> {Reservations[q] : q \in Requests}] BY DEF Reservations
<1>5. QED BY <1>2, <1>3, <1>4

\* A step that moves neither credits nor rows of requests is none of the account.
LEMMA SeesNothing ==
  UNCHANGED <<account, Reservations, charged, granted>> => UNCHANGED Account!vars
BY DEF Reservations, Account!vars

\* Credits from outside are an adjustment.
LEMMA SeesAdjust ==
  ASSUME CreditsTypeOK, NEW delta \in Int, AddCredits(delta), UNCHANGED <<inference, charged>>
  PROVE  Account!Adjust
<1>1. /\ account' = [available |-> account.available + delta, reserved |-> account.reserved + 0]
      /\ granted' = granted + delta /\ account.available + delta >= 0
  BY DEF AddCredits, Mutate, Applies
<1>2. account.available \in Nat /\ account.reserved \in Nat /\ granted \in Int
  BY DEF CreditsTypeOK
<1>3. account'.available = account.available + delta /\ account'.reserved = account.reserved
  BY <1>1, <1>2
<1>4. account'.available \in Nat BY <1>1, <1>2, <1>3
<1>5. granted' = granted + (account'.available - account.available) BY <1>1, <1>2, <1>3
<1>6. QED BY <1>3, <1>4, <1>5 DEF Account!Adjust

\* Whoever ends a request without a result gives its reservation back.
LEMMA SeesRelease ==
  ASSUME CreditInv, NEW r \in Requests, Release(r)
  PROVE  Account!Release(r)
<1>1. inference[r].status = "processing" /\ inference[r] \in InferenceRow /\ CreditsTypeOK
  BY DEF CreditInv, CreditsTypeOK, Release, InProgress
<1>2. inference[r].reservation = "reserved" BY <1>1 DEF CreditInv, RowsInv, HeldInProgress
<1>3. Reservations[r] = "reserved" BY <1>2 DEF Reservations
<1>4. Failed(r).reservation = "released" BY <1>1 DEF Failed, InferenceRow
<1>5. Reservations' = [Reservations EXCEPT ![r] = "released"]
  BY <1>1, <1>4, SeesRow DEF Release
<1>6. charged[r] = 0 /\ charged' = charged /\ granted' = granted
  BY <1>1 DEF CreditInv, RowsInv, ChargedIffDelivered, Release
<1>7. charged' = [charged EXCEPT ![r] = 0] BY <1>1, <1>6 DEF CreditsTypeOK
<1>8. /\ account'.available = account.available + Estimate
      /\ account'.reserved = account.reserved + -Estimate
  BY DEF Release, Mutate
<1>9. /\ account.available + Estimate = account.available + (Estimate - 0)
      /\ account.reserved + -Estimate = account.reserved - Estimate
  BY <1>1, CreditConstants DEF CreditConstants, CreditsTypeOK
<1>10. QED
  BY <1>3, <1>5, <1>6, <1>7, <1>8, <1>9 DEF Account!Release, Account!End, Reservations

\* The settlement charges once.
LEMMA SeesSettle ==
  ASSUME CreditInv, NEW r \in Requests, NEW cost, Settle(r, cost)
  PROVE  Account!Settle(r)
<1> DEFINE row == [inference[r] EXCEPT !.status = "succeeded", !.reservation = "settled"]
<1>1. inference[r].status = "processing" /\ inference[r] \in InferenceRow /\ CreditsTypeOK
  BY DEF CreditInv, CreditsTypeOK, Settle, InProgress
<1>2. inference[r].reservation = "reserved" BY <1>1 DEF CreditInv, RowsInv, HeldInProgress
<1>3. Reservations[r] = "reserved" BY <1>2 DEF Reservations
<1>4. row.reservation = "settled" BY <1>1 DEF InferenceRow
<1>5. inference' = [inference EXCEPT ![r] = row] BY <1>1 DEF Settle, CreditsTypeOK
<1> HIDE DEF row
<1>6. Reservations' = [Reservations EXCEPT ![r] = "settled"] BY <1>1, <1>4, <1>5, SeesRow
<1>7. cost \in 0 .. Estimate /\ granted' = granted /\ charged' = [charged EXCEPT ![r] = @ + cost]
  BY DEF Settle, FitsReservation
<1>8. charged[r] = 0 BY <1>1 DEF CreditInv, RowsInv, ChargedIffDelivered
<1>9. charged' = [charged EXCEPT ![r] = cost] BY <1>7, <1>8
<1>10. /\ account'.available = account.available + (Estimate - cost)
       /\ account'.reserved = account.reserved + -Estimate
  BY DEF Settle, Mutate, Refund
<1>11. account.reserved + -Estimate = account.reserved - Estimate
  BY <1>1, CreditConstants DEF CreditConstants, CreditsTypeOK
<1>12. QED
  BY <1>3, <1>6, <1>7, <1>9, <1>10, <1>11 DEF Account!Settle, Account!End, Reservations

\* A new key reserves.
LEMMA SeesBegin ==
  ASSUME CreditInv, NEW r \in Requests, NEW row, IsNewKey(r), Mutate(-Estimate, Estimate),
         row.reservation = "reserved", inference' = [inference EXCEPT ![r] = row],
         UNCHANGED <<charged, granted>>
  PROVE  Account!Reserve(r)
<1>1. CreditsTypeOK /\ account.available \in Nat /\ account.reserved \in Nat
  BY DEF CreditInv, CreditsTypeOK
<1>2. Reservations[r] = "none"
  BY DEF IsNewKey, CreditInv, RowsInv, HeldInProgress, Reservations
<1>3. Reservations' = [Reservations EXCEPT ![r] = "reserved"] BY <1>1, SeesRow
<1>4. /\ account'.available = account.available + -Estimate
      /\ account'.reserved = account.reserved + Estimate
      /\ account.available + -Estimate >= 0
  BY DEF Mutate, Applies
<1>5. account.available + -Estimate = account.available - Estimate /\ account.available >= Estimate
  BY <1>1, <1>4, CreditConstants DEF CreditConstants
<1>6. QED BY <1>2, <1>3, <1>4, <1>5 DEF Account!Reserve, Reservations

\* Every step of the credits is one of the account, or none.
LEMMA AccountStep == CreditInv /\ [CreditsNext]_creditVars => [Account!Next]_(Account!vars)
<1> SUFFICES ASSUME CreditInv, [CreditsNext]_creditVars PROVE [Account!Next]_(Account!vars)
  OBVIOUS
<1>0. CreditsTypeOK BY DEF CreditInv
<1>1. ASSUME UNCHANGED <<account, inference, charged, granted>>
      PROVE  UNCHANGED Account!vars
  BY <1>1, SeesNothing DEF Reservations
<1>2. ASSUME NEW r \in Requests, Release(r) PROVE Account!Next
  BY <1>2, SeesRelease DEF Account!Next
<1>3. ASSUME NEW delta \in Int, AddCredits(delta), UNCHANGED <<inference, charged>>
      PROVE  Account!Next
  BY <1>0, <1>3, SeesAdjust DEF Account!Next
<1>4. ASSUME NEW h \in Handlers, HandlerStep(h) PROVE Account!Next \/ UNCHANGED Account!vars
  <2>1. handler[h].pc # "idle" => handler[h].request \in Requests
    BY DEF CreditInv, HandlersInv, BusyHasRequest
  <2>2. CASE OnlyHandler BY <1>1, <2>2 DEF OnlyHandler
  <2>3. CASE \E r \in Requests : Post(h, r) BY <1>1, <2>3 DEF Post, OnlyHandler
  <2>4. CASE \E r \in Requests : ReconcileStale(h, r) BY <1>2, <2>4 DEF ReconcileStale
  <2>5. CASE ReadReplay(h) BY <1>2, <2>1, <2>2, <2>5 DEF ReadReplay, At
  <2>6. CASE Begin(h)
    <3> DEFINE row == [status |-> "processing", reservation |-> "reserved", expired |-> FALSE]
    <3>1. PICK r \in Requests : r = handler[h].request BY <2>1, <2>6 DEF Begin, At
    <3>2. CASE IsNewKey(r) /\ Applies(-Estimate, Estimate)
      <4>1. /\ IsNewKey(r) /\ Mutate(-Estimate, Estimate)
            /\ inference' = [inference EXCEPT ![r] = row] /\ row.reservation = "reserved"
            /\ UNCHANGED <<charged, granted>>
        BY <2>6, <3>1, <3>2 DEF Begin
      <4> HIDE DEF row
      <4>2. Account!Reserve(r) BY <3>1, <4>1, SeesBegin
      <4>3. QED BY <3>1, <4>2 DEF Account!Next
    <3>3. QED BY <2>2, <2>6, <3>1, <3>2 DEF Begin
  <2>7. CASE CallModel(h) \/ RepairReply(h) BY <1>1, <2>7 DEF CallModel, RepairReply
  <2>8. CASE \E cost \in 0 .. Estimate + 1 : Complete(h, cost)
    <3>1. PICK cost \in 0 .. Estimate + 1 : Settle(handler[h].request, cost)
      BY <2>8 DEF Complete
    <3>2. handler[h].request \in Requests BY <2>1, <2>8 DEF Complete, At
    <3>3. QED BY <3>1, <3>2, SeesSettle DEF Account!Next
  <2>9. CASE Fail(h) BY <1>2, <2>1, <2>2, <2>9 DEF Fail, At
  <2>10. QED
    BY <1>4, <2>2, <2>3, <2>4, <2>5, <2>6, <2>7, <2>8, <2>9
    DEF HandlerStep, Reconciled, SetupFails, CompleteThrows, HandlerDies
<1>5. ASSUME NEW a \in Adjustments, AdjustmentStep(a)
      PROVE  Account!Next \/ UNCHANGED Account!vars
  <2>1. adjustment[a].delta \in Int BY <1>0 DEF CreditsTypeOK, AdjustmentRow
  <2>2. QED BY <1>1, <1>3, <1>5, <2>1
        DEF AdjustmentStep, SubmitAdjustment, ApproveAdjustment, RejectAdjustment, DecidesAdjustment
<1>6. CASE GrantCredits BY <1>3, <1>6, CreditConstants DEF GrantCredits, CreditConstants
<1>7. ASSUME NEW r \in Requests, Cancel(r) PROVE Account!Next BY <1>2, <1>7 DEF Cancel
<1>8. ASSUME NEW r \in Requests, Expire(r) PROVE UNCHANGED Account!vars
  <2>1. /\ inference' = [inference EXCEPT ![r].expired = TRUE]
        /\ UNCHANGED <<account, charged, granted>>
    BY <1>8 DEF Expire
  <2>2. \A q \in Requests : inference'[q].reservation = inference[q].reservation
    BY <1>0, <2>1 DEF CreditsTypeOK
  <2>3. QED BY <2>1, <2>2, SeesNothing DEF Reservations
<1>9. CASE UNCHANGED creditVars BY <1>1, <1>9 DEF creditVars
<1>10. QED BY <1>4, <1>5, <1>6, <1>7, <1>8, <1>9 DEF CreditsNext

\* The account starts empty.
LEMMA AccountInit == CreditsInit => Account!Init
<1> SUFFICES ASSUME CreditsInit PROVE Account!Init OBVIOUS
<1>1. \A r \in Requests : inference[r].reservation = "none" BY DEF CreditsInit, NoInference
<1>2. QED BY <1>1 DEF CreditsInit, Account!Init

\* The credits of a customer implement the abstract account, for any number of requests,
\* handlers and adjustments: whatever begins, completes, fails, cancels or reconciles requests
\* (client-ai-inference-service.ts), each key reserves once and ends once.
THEOREM RefinesCreditAccount == CreditsSpec => ImplementsCreditAccount
<1>1. CreditsInit => CreditInv /\ Account!Init BY CreditInvInit, AccountInit
<1>2. QED BY <1>1, CreditInvStep, AccountStep, PTL
      DEF CreditsSpec, ImplementsCreditAccount, Account!Spec
=============================================================================
