--------------------------- MODULE OperationsProofs ---------------------------
(* The platform's own operation, for any number of deliveries, workers,       *)
(* intents, people, keys, versions, requests and releases.                    *)
(*                                                                            *)
(* Notifications: whatever purges a secret takes the delivery from its owner, *)
(* which OutboxInv rests on the owner written by a claim.                     *)
(*                                                                            *)
(* Demo orders: DemoInv does not rest on the fencing token. A worker that was *)
(* told that no order can exist is the only one of its intent that was, and   *)
(* as long as it has not sent the order nobody ends the intent.               *)
(*                                                                            *)
(* Maintenance: a command runs once under its key, for OnceInv says who still *)
(* works for a key: at most one caller, and what it has done so far. What is  *)
(* in force was tested and reviewed: ConfigurationInv adds what a review      *)
(* fixes of a version.                                                        *)
(*                                                                            *)
(* The whole: each component keeps its types beside the others, the releases' *)
(* from ReleaseProofs.                                                        *)
EXTENDS Operations, ReleaseProofs

-----------------------------------------------------------------------------
(* The outbox of notifications *)

\* A worker that is busy has a delivery in hand.
BusyHasDelivery == \A w \in Senders : sender[w].pc # "idle" => sender[w].delivery \in Deliveries

\* A delivery that somebody owns still has its secret.
OwnedIsUnpurged == \A d \in Deliveries : delivery[d].owner # NoSender => secret[d] # "purged"

OutboxInv == OutboxTypeOK /\ BusyHasDelivery /\ OwnedIsUnpurged /\ PurgedIsNeverQueued

-----------------------------------------------------------------------------

\* Nothing is queued at the start.
LEMMA OutboxInvInit == OutboxInit => OutboxInv
<1> SUFFICES ASSUME OutboxInit PROVE OutboxInv OBVIOUS
<1> USE OutboxConstants DEF OutboxConstants, OutboxInit
<1>1. [status |-> "queued", attempts |-> 0, owner |-> NoSender, lease |-> "none", due |-> "now",
       event |-> "none", eventAt |-> 0] \in DeliveryRow
  BY DEF DeliveryRow
<1>2. delivery \in [Deliveries -> DeliveryRow] BY <1>1
<1>3. IdleSender \in [pc : {"idle", "claimed", "sending", "ok", "retry", "refused"},
                      delivery : Deliveries \cup {NoDelivery}, attempts : 0 .. MaxAttempts]
  BY DEF IdleSender
<1>4. OutboxTypeOK BY <1>2, <1>3 DEF OutboxTypeOK
<1>5. BusyHasDelivery BY DEF BusyHasDelivery, IdleSender
<1>6. OwnedIsUnpurged /\ PurgedIsNeverQueued BY DEF OwnedIsUnpurged, PurgedIsNeverQueued
<1>7. QED BY <1>4, <1>5, <1>6 DEF OutboxInv

\* One row changes: the others, and what is said of them, stay.
LEMMA RowChanges ==
  ASSUME OutboxInv, NEW d \in Deliveries, NEW row \in DeliveryRow,
         delivery' = [delivery EXCEPT ![d] = row], UNCHANGED secret,
         row.owner # NoSender => secret[d] # "purged",
         row.status = "queued" => secret[d] # "purged"
  PROVE  /\ delivery' \in [Deliveries -> DeliveryRow]
         /\ OwnedIsUnpurged' /\ PurgedIsNeverQueued'
<1>1. delivery \in [Deliveries -> DeliveryRow] BY DEF OutboxInv, OutboxTypeOK
<1>2. delivery'[d] = row /\ \A c \in Deliveries \ {d} : delivery'[c] = delivery[c] BY <1>1
<1>3. delivery' \in [Deliveries -> DeliveryRow] BY <1>1
<1>4. OwnedIsUnpurged' BY <1>2 DEF OutboxInv, OwnedIsUnpurged
<1>5. PurgedIsNeverQueued' BY <1>2 DEF OutboxInv, PurgedIsNeverQueued
<1>6. QED BY <1>3, <1>4, <1>5

\* What claims, postpones or lets a lease lapse.
LEMMA OutboxRows ==
  ASSUME OutboxInv, NEW d \in Deliveries,
         \/ Postpone(d) \/ LeaseLapses(d) \/ FallsDue(d) \/ SecretExpires(d)
         \/ \E w \in Senders : ClaimDelivery(w, d)
  PROVE  OutboxInv'
<1> DEFINE row == delivery[d]
<1> USE OutboxConstants DEF OutboxConstants
<1>0. row.status = "queued" => secret[d] # "purged"
  BY DEF OutboxInv, OutboxTypeOK, PurgedIsNeverQueued
<1>8. row \in DeliveryRow BY DEF OutboxInv, OutboxTypeOK
<1>9. row.owner # NoSender => secret[d] # "purged" BY DEF OutboxInv, OwnedIsUnpurged
<1>1. CASE Postpone(d)
  <2> DEFINE new == [row EXCEPT !.due = "night", !.owner = NoSender, !.lease = "none"]
  <2>1. new \in DeliveryRow /\ new.owner = NoSender /\ new.status = row.status
    BY <1>8 DEF DeliveryRow
  <2>2. delivery' = [delivery EXCEPT ![d] = new] /\ UNCHANGED <<secret, sender, accepted, reported, suppressed>>
    BY <1>1 DEF Postpone
  <2> HIDE DEF new
  <2>3. delivery' \in [Deliveries -> DeliveryRow] /\ OwnedIsUnpurged' /\ PurgedIsNeverQueued'
    BY <1>0, <1>8, <2>1, <2>2, RowChanges
  <2>4. QED BY <2>2, <2>3 DEF OutboxInv, OutboxTypeOK, BusyHasDelivery
<1>2. CASE LeaseLapses(d)
  <2> DEFINE new == [row EXCEPT !.lease = "lapsed"]
  <2>1. new \in DeliveryRow /\ new.owner = row.owner /\ new.status = row.status
    BY <1>8 DEF DeliveryRow
  <2>2. delivery' = [delivery EXCEPT ![d] = new] /\ UNCHANGED <<secret, sender, accepted, reported, suppressed>>
    BY <1>2 DEF LeaseLapses
  <2> HIDE DEF new
  <2>3. delivery' \in [Deliveries -> DeliveryRow] /\ OwnedIsUnpurged' /\ PurgedIsNeverQueued'
    BY <1>0, <1>8, <1>9, <2>1, <2>2, RowChanges
  <2>4. QED BY <2>2, <2>3 DEF OutboxInv, OutboxTypeOK, BusyHasDelivery
<1>3. CASE FallsDue(d)
  <2> DEFINE new == [row EXCEPT !.due = IF @ = "night" THEN "morning" ELSE "now"]
  <2>1. new \in DeliveryRow /\ new.owner = row.owner /\ new.status = row.status
    BY <1>8 DEF DeliveryRow
  <2>2. delivery' = [delivery EXCEPT ![d] = new] /\ UNCHANGED <<secret, sender, accepted, reported, suppressed>>
    BY <1>3 DEF FallsDue
  <2> HIDE DEF new
  <2>3. delivery' \in [Deliveries -> DeliveryRow] /\ OwnedIsUnpurged' /\ PurgedIsNeverQueued'
    BY <1>0, <1>8, <1>9, <2>1, <2>2, RowChanges
  <2>4. QED BY <2>2, <2>3 DEF OutboxInv, OutboxTypeOK, BusyHasDelivery
<1>4. CASE SecretExpires(d)
  <2>1. /\ secret' = [secret EXCEPT ![d] = "expired"]
        /\ UNCHANGED <<delivery, sender, accepted, reported, suppressed>>
    BY <1>4 DEF SecretExpires
  <2>2. secret' \in [Deliveries -> {"kept", "expired", "purged"}]
        /\ \A c \in Deliveries : secret'[c] = "purged" => secret[c] = "purged"
    BY <2>1 DEF OutboxInv, OutboxTypeOK
  <2>3. QED
    BY <2>1, <2>2 DEF OutboxInv, OutboxTypeOK, BusyHasDelivery, OwnedIsUnpurged, PurgedIsNeverQueued
<1>5. ASSUME NEW w \in Senders, ClaimDelivery(w, d) PROVE OutboxInv'
  <2> DEFINE new == [row EXCEPT !.owner = w, !.lease = "held", !.attempts = @ + 1]
             job == [pc |-> "claimed", delivery |-> d, attempts |-> row.attempts + 1]
  <2>1. row.status = "queued" /\ row.attempts < MaxAttempts BY <1>5 DEF ClaimDelivery, Claimable
  <2>9. row.attempts \in 0 .. MaxAttempts BY <1>8 DEF DeliveryRow
  <2>10. row.attempts + 1 \in 0 .. MaxAttempts BY <2>1, <2>9
  <2>2. new \in DeliveryRow /\ row.attempts + 1 \in 0 .. MaxAttempts
    BY <1>8, <2>10 DEF DeliveryRow
  <2>3. /\ delivery' = [delivery EXCEPT ![d] = new] /\ sender' = [sender EXCEPT ![w] = job]
        /\ UNCHANGED <<secret, accepted, reported, suppressed>>
    BY <1>5 DEF ClaimDelivery
  <2>4. job \in [pc : {"idle", "claimed", "sending", "ok", "retry", "refused"},
                 delivery : Deliveries \cup {NoDelivery}, attempts : 0 .. MaxAttempts]
        /\ job.delivery = d
    BY <2>2
  <2>5. secret[d] # "purged" BY <1>0, <1>8, <2>1
  <2> HIDE DEF new, job
  <2>6. delivery' \in [Deliveries -> DeliveryRow] /\ OwnedIsUnpurged' /\ PurgedIsNeverQueued'
    BY <2>2, <2>3, <2>5, RowChanges
  <2>7. BusyHasDelivery' BY <2>3, <2>4 DEF OutboxInv, OutboxTypeOK, BusyHasDelivery
  <2>8. QED BY <2>3, <2>4, <2>6, <2>7 DEF OutboxInv, OutboxTypeOK
<1>6. QED BY <1>1, <1>2, <1>3, <1>4, <1>5

\* A worker's own state: it goes on with its delivery, or is done.
LEMMA SenderMoves ==
  ASSUME OutboxInv, NEW w \in Senders, sender[w].delivery \in Deliveries,
         Done(w) \/ \E pc \in {"claimed", "sending", "ok", "retry", "refused"} : To(w, pc)
  PROVE  /\ BusyHasDelivery'
         /\ sender' \in [Senders -> [pc : {"idle", "claimed", "sending", "ok", "retry", "refused"},
                             delivery : Deliveries \cup {NoDelivery}, attempts : 0 .. MaxAttempts]]
<1>1. sender \in [Senders -> [pc : {"idle", "claimed", "sending", "ok", "retry", "refused"},
                             delivery : Deliveries \cup {NoDelivery}, attempts : 0 .. MaxAttempts]]
      /\ MaxAttempts \in Nat
  BY OutboxConstants DEF OutboxInv, OutboxTypeOK, OutboxConstants
<1>2. CASE Done(w)
  BY <1>1, <1>2 DEF Done, IdleSender, OutboxInv, BusyHasDelivery
<1>3. ASSUME NEW pc \in {"claimed", "sending", "ok", "retry", "refused"}, To(w, pc)
      PROVE  /\ BusyHasDelivery'
             /\ sender' \in [Senders -> [pc : {"idle", "claimed", "sending", "ok", "retry", "refused"},
                             delivery : Deliveries \cup {NoDelivery}, attempts : 0 .. MaxAttempts]]
  BY <1>1, <1>3 DEF To, OutboxInv, BusyHasDelivery
<1>4. QED BY <1>2, <1>3

\* What a worker does with the delivery it claimed; only its owner writes the outcome.
LEMMA OutboxSenders ==
  ASSUME OutboxInv, NEW w \in Senders, SenderStep(w) \/ SenderCrash(w)
  PROVE  OutboxInv'
<1> DEFINE d == sender[w].delivery
           row == delivery[d]
<1> USE OutboxConstants DEF OutboxConstants
<1>1. d \in Deliveries
  BY DEF SenderStep, SenderCrash, Prepare, Send, MarkSent, MarkFailed, OutboxInv, BusyHasDelivery
<1>2. row \in DeliveryRow BY <1>1 DEF OutboxInv, OutboxTypeOK
<1>3. CASE Prepare(w) \/ Send(w) \/ SenderCrash(w)
  <2>1. UNCHANGED <<delivery, secret, reported, suppressed>> /\ accepted' \subseteq Deliveries
    BY <1>1, <1>3 DEF Prepare, Send, SenderCrash, OutboxInv, OutboxTypeOK
  <2>2. Done(w) \/ \E pc \in {"claimed", "sending", "ok", "retry", "refused"} : To(w, pc)
    BY <1>3 DEF Prepare, Send, SenderCrash
  <2>3. QED
    BY <1>1, <2>1, <2>2, SenderMoves DEF OutboxInv, OutboxTypeOK, OwnedIsUnpurged, PurgedIsNeverQueued
<1>4. CASE MarkSent(w) \/ MarkFailed(w)
  <2>1. Done(w) /\ UNCHANGED <<accepted, reported, suppressed>>
    BY <1>4 DEF MarkSent, MarkFailed
  <2>2. CASE UNCHANGED <<delivery, secret>>
    BY <1>1, <2>1, <2>2, SenderMoves DEF OutboxInv, OutboxTypeOK, OwnedIsUnpurged, PurgedIsNeverQueued
  <2>3. ASSUME NEW new \in DeliveryRow, new.owner = NoSender,
               delivery' = [delivery EXCEPT ![d] = new],
               \/ /\ secret' = [secret EXCEPT ![d] = "purged"] /\ new.status # "queued"
               \/ /\ UNCHANGED secret /\ secret[d] # "purged"
        PROVE  OutboxInv'
    <3>1. delivery' \in [Deliveries -> DeliveryRow] /\ delivery'[d] = new
          /\ \A c \in Deliveries \ {d} : delivery'[c] = delivery[c]
      BY <1>1, <2>3 DEF OutboxInv, OutboxTypeOK
    <3>2. secret' \in [Deliveries -> {"kept", "expired", "purged"}]
          /\ \A c \in Deliveries \ {d} : secret'[c] = secret[c]
      BY <1>1, <2>3 DEF OutboxInv, OutboxTypeOK
    <3>3. OwnedIsUnpurged' BY <2>3, <3>1, <3>2 DEF OutboxInv, OwnedIsUnpurged
    <3>4. PurgedIsNeverQueued' BY <2>3, <3>1, <3>2 DEF OutboxInv, PurgedIsNeverQueued
    <3>5. QED BY <1>1, <2>1, <3>1, <3>2, <3>3, <3>4, SenderMoves DEF OutboxInv, OutboxTypeOK
  <2>4. CASE OwnsDelivery(w) /\ MarkSent(w)
    <3> DEFINE new == [row EXCEPT !.status = IF @ \in {"delivered", "failed"} THEN @ ELSE "sent",
                                  !.owner = NoSender, !.lease = "none"]
    <3>1. new \in DeliveryRow /\ new.owner = NoSender /\ new.status # "queued"
      BY <1>2 DEF DeliveryRow
    <3>2. delivery' = [delivery EXCEPT ![d] = new] /\ secret' = [secret EXCEPT ![d] = "purged"]
      BY <2>4 DEF MarkSent
    <3> HIDE DEF new
    <3>3. QED BY <2>3, <3>1, <3>2
  <2>5. CASE OwnsDelivery(w) /\ MarkFailed(w)
    <3> DEFINE new == [row EXCEPT !.status = IF Retries(w) THEN "queued" ELSE "failed",
                                  !.due = IF Retries(w) THEN "later" ELSE @,
                                  !.owner = NoSender, !.lease = "none"]
    <3>1. new \in DeliveryRow /\ new.owner = NoSender /\ (~Retries(w) => new.status # "queued")
      BY <1>2 DEF DeliveryRow
    <3>2. /\ delivery' = [delivery EXCEPT ![d] = new]
          /\ secret' = IF Retries(w) THEN secret ELSE [secret EXCEPT ![d] = "purged"]
      BY <2>5 DEF MarkFailed
    <3>3. row.owner = w /\ w # NoSender BY <2>5 DEF OwnsDelivery
    <3>4. secret[d] # "purged" BY <1>1, <3>3 DEF OutboxInv, OwnedIsUnpurged
    <3> HIDE DEF new
    <3>5. QED BY <2>3, <3>1, <3>2, <3>4
  <2>6. QED BY <1>4, <2>2, <2>4, <2>5 DEF MarkSent, MarkFailed
<1>5. QED BY <1>3, <1>4 DEF SenderStep

\* The cleanup takes every delivery it purges from its owner and closes it.
LEMMA OutboxPurge == ASSUME OutboxInv, Purge PROVE OutboxInv'
<1> USE OutboxConstants DEF OutboxInv, OutboxConstants
<1>1. /\ delivery' = [d \in Deliveries |-> IF Purgeable(d) THEN Closed(delivery[d]) ELSE delivery[d]]
      /\ secret' = [d \in Deliveries |-> IF Purgeable(d) THEN "purged" ELSE secret[d]]
      /\ UNCHANGED <<sender, accepted, reported, suppressed>>
  BY DEF Purge
<1>2. ASSUME NEW d \in Deliveries
      PROVE  /\ Closed(delivery[d]).status \in {"sent", "delivered", "failed"}
             /\ Closed(delivery[d]).owner = NoSender
  BY DEF Closed, OutboxTypeOK, DeliveryRow
<1>3. OutboxTypeOK'
  <2>1. \A d \in Deliveries : delivery[d] \in DeliveryRow /\ Closed(delivery[d]) \in DeliveryRow
    <3> SUFFICES ASSUME NEW d \in Deliveries
                 PROVE  delivery[d] \in DeliveryRow /\ Closed(delivery[d]) \in DeliveryRow
      OBVIOUS
    <3>1. delivery[d] \in DeliveryRow BY DEF OutboxTypeOK
    <3>2. QED BY <3>1 DEF Closed, DeliveryRow
  <2>2. delivery' \in [Deliveries -> DeliveryRow] BY <1>1, <2>1
  <2>3. QED BY <1>1, <2>2 DEF OutboxTypeOK
<1>4. ASSUME NEW d \in Deliveries
      PROVE  /\ delivery'[d].owner # NoSender => secret'[d] # "purged"
             /\ delivery'[d].status = "queued" => secret'[d] # "purged"
  <2>1. CASE Purgeable(d) BY <1>1, <1>2, <2>1
  <2>2. CASE ~Purgeable(d) BY <1>1, <2>2 DEF OwnedIsUnpurged, PurgedIsNeverQueued
  <2>3. QED BY <2>1, <2>2
<1>5. BusyHasDelivery' BY <1>1 DEF BusyHasDelivery
<1>6. QED BY <1>3, <1>4, <1>5 DEF OwnedIsUnpurged, PurgedIsNeverQueued

\* A webhook never queues anything.
LEMMA OutboxWebhook ==
  ASSUME OutboxInv, NEW d \in Deliveries, NEW event \in Events, NEW at \in EventTimes,
         Webhook(d, event, at)
  PROVE  OutboxInv'
<1> DEFINE row == delivery[d]
           new == [row EXCEPT !.status = StatusAfter[event], !.event = event, !.eventAt = at]
<1> USE OutboxConstants DEF OutboxInv, OutboxConstants
<1>1. /\ reported' = [reported EXCEPT ![d] = @ \cup {event}]
      /\ suppressed' \in BOOLEAN
      /\ UNCHANGED <<secret, sender, accepted>>
      /\ UNCHANGED delivery \/ delivery' = [delivery EXCEPT ![d] = new]
  BY DEF Webhook, OutboxTypeOK
<1>2. StatusAfter[event] \in {"sent", "delivered", "failed"} BY DEF StatusAfter, Events
<1>3. row \in DeliveryRow BY DEF OutboxTypeOK
<1>4. new \in DeliveryRow /\ new.owner = row.owner /\ new.status # "queued"
  BY <1>2, <1>3 DEF DeliveryRow
<1> HIDE DEF new
<1>5. row.owner # NoSender => secret[d] # "purged" BY DEF OwnedIsUnpurged
<1>6. delivery' \in [Deliveries -> DeliveryRow] /\ OwnedIsUnpurged' /\ PurgedIsNeverQueued'
  BY <1>1, <1>4, <1>5, RowChanges DEF OutboxTypeOK, OwnedIsUnpurged, PurgedIsNeverQueued
<1>7. QED BY <1>1, <1>6 DEF OutboxTypeOK, BusyHasDelivery

\* Every step of the outbox.
LEMMA OutboxInvStep == OutboxInv /\ [OutboxNext]_outboxVars => OutboxInv'
<1> SUFFICES ASSUME OutboxInv, [OutboxNext]_outboxVars PROVE OutboxInv' OBVIOUS
<1>1. CASE OutboxNext
  BY <1>1, OutboxRows, OutboxSenders, OutboxPurge, OutboxWebhook DEF OutboxNext
<1>2. CASE UNCHANGED outboxVars
  BY <1>2 DEF outboxVars, OutboxInv, OutboxTypeOK, BusyHasDelivery, OwnedIsUnpurged, PurgedIsNeverQueued
<1>3. QED BY <1>1, <1>2

\* No delivery is queued without its secret, whatever the workers, the cleanup and the webhooks do
\* in whatever order (processClaimedEmail, purgeExpiredNotificationSecrets,
\* applyResendWebhookEvent).
THEOREM PurgedStaysClosed == OutboxSpec => []PurgedIsNeverQueued
<1>1. OutboxInv => PurgedIsNeverQueued BY DEF OutboxInv
<1>2. QED BY <1>1, OutboxInvInit, OutboxInvStep, PTL DEF OutboxSpec

\* The rows and workers of the outbox stay well typed; attempts never exceed the maximum.
THEOREM OutboxTypes == OutboxSpec => []OutboxTypeOK
<1>1. OutboxInv => OutboxTypeOK BY DEF OutboxInv
<1>2. QED BY <1>1, OutboxInvInit, OutboxInvStep, PTL DEF OutboxSpec

-----------------------------------------------------------------------------
(* Orders on the demo accounts *)

Unplaced == {"none", "pending", "retry_wait"}
Attempting == {"running", "unknown", "reconcile_wait", "quarantined"}

\* A worker that was told that no order exists, and one that has not sent it, or not to avail.
Fresh(e) == e.pc # "idle" /\ ~e.mayExist
Unsent(e) ==
  /\ ~e.mayExist
  /\ e.pc \in {"leased", "placing"} \/ (e.pc = "failing" /\ e.error \in {"plain", "safety"})

Shape(e) ==
  /\ e.pc # "idle" => e.intent \in DemoIntents
  /\ e.pc = "placing" => ~e.mayExist
  /\ e.pc = "failing" => e.error # "none" /\ (e.error = "safety" => ~e.mayExist)
  /\ e.pc \in {"found", "reading", "completing"} => e.mayExist

\* What a worker saw at the exchange has not gone away.
SeenStill(e) ==
  e.pc \in {"found", "reading", "completing"} /\ e.intent \notin garbled =>
    /\ exchange[e.intent] # "none"
    /\ e.seen = "filled" => exchange[e.intent] = "filled"
    /\ e.seen = "cancelled" => exchange[e.intent] \in {"cancelled", "cut"}
    /\ e.seen = "rejected" => exchange[e.intent] = "rejected"

WorkersKnow == \A w \in Executors : Shape(executor[w]) /\ SeenStill(executor[w])

OneFresh ==
  \A w, v \in Executors :
    w # v /\ Fresh(executor[w]) /\ Fresh(executor[v]) => executor[w].intent # executor[v].intent

FreshIsLeased ==
  \A w \in Executors : Fresh(executor[w]) => demo[executor[w].intent].status \notin Unplaced

UnsentIsOpen ==
  \A w \in Executors : Unsent(executor[w]) /\ executor[w].intent \notin garbled =>
    /\ exchange[executor[w].intent] = "none"
    /\ demo[executor[w].intent].status \in Attempting

CountIsOrder == \A i \in DemoIntents \ garbled : placed[i] = 0 <=> exchange[i] = "none"

DemoInv ==
  /\ DemoTypeOK /\ WorkersKnow /\ OneFresh /\ FreshIsLeased /\ UnsentIsOpen /\ CountIsOrder
  /\ OneTrackedOrder

\* The part of the property about one intent's row.
Tracks(row, order) ==
  /\ row.status \in Unplaced => order = "none"
  /\ row.status = "failed" => order \in {"none", "rejected"}
  /\ row.status = "cancelled" => order \in {"cancelled", "cut"}
  /\ row.status = "filled" => order = "filled" /\ row.fills

-----------------------------------------------------------------------------

\* No intent is queued and no order placed at the start.
LEMMA DemoInvInit == DemoInit => DemoInv
<1> SUFFICES ASSUME DemoInit PROVE DemoInv OBVIOUS
<1> USE DemoConstants DEF DemoConstants, DemoInit
<1>1. NoDemo \in DemoRow /\ IdleExecutor \in ExecutorRow
  BY DEF NoDemo, IdleExecutor, DemoRow, ExecutorRow
<1>2. DemoTypeOK BY <1>1 DEF DemoTypeOK
<1>3. \A w \in Executors : executor[w].pc = "idle" BY DEF IdleExecutor
<1>4. WorkersKnow /\ OneFresh /\ FreshIsLeased /\ UnsentIsOpen
  BY <1>3 DEF WorkersKnow, Shape, SeenStill, OneFresh, FreshIsLeased, UnsentIsOpen, Fresh, Unsent
<1>5. CountIsOrder BY DEF CountIsOrder
<1>6. \A i \in DemoIntents : demo[i].status = "none" /\ exchange[i] = "none" /\ placed[i] = 0
  BY DEF NoDemo
<1>7. OneTrackedOrder
  <2>1. ASSUME NEW i \in DemoIntents
        PROVE  /\ placed[i] <= 1 /\ exchange[i] = "none"
               /\ demo[i].status \notin {"failed", "cancelled", "filled"}
    BY <1>6
  <2>2. QED BY <2>1, Zenon DEF OneTrackedOrder
<1>8. QED BY <1>2, <1>4, <1>5, <1>7 DEF DemoInv

\* The property, row by row.
LEMMA TrackedRows ==
  OneTrackedOrder <=>
    \A i \in DemoIntents \ garbled : placed[i] <= 1 /\ Tracks(demo[i], exchange[i])
BY DEF OneTrackedOrder, Tracks, Unplaced

\* A worker is where it was, or goes on without becoming fresh or unsent again.
Carried(v) ==
  \/ executor'[v] = executor[v]
  \/ /\ Shape(executor'[v]) /\ SeenStill(executor'[v])
     /\ Fresh(executor'[v]) => Fresh(executor[v]) /\ executor'[v].intent = executor[v].intent
     /\ Unsent(executor'[v]) => Unsent(executor[v]) /\ executor'[v].intent = executor[v].intent

\* A row keeps its status, or takes one that fits the exchange and the workers still at it.
Fits(i) ==
  \/ demo'[i].status = demo[i].status /\ (demo[i].fills => demo'[i].fills)
  \/ /\ \A v \in Executors : Fresh(executor'[v]) /\ executor'[v].intent = i =>
          demo'[i].status \notin Unplaced
     /\ i \notin garbled =>
          /\ \A v \in Executors : Unsent(executor'[v]) /\ executor'[v].intent = i =>
               demo'[i].status \in Attempting
          /\ Tracks(demo'[i], exchange[i])

\* Steps that leave the exchange alone and make nobody fresh.
LEMMA Frame ==
  ASSUME DemoInv, DemoTypeOK', UNCHANGED <<exchange, placed, garbled>>,
         \A v \in Executors : Carried(v),
         \A i \in DemoIntents : Fits(i)
  PROVE  DemoInv'
<1> USE DEF DemoInv
<1>1. WorkersKnow' BY DEF WorkersKnow, Carried, SeenStill, Shape
<1>2. OneFresh' BY DEF OneFresh, Carried
<1>3. \A v \in Executors : Fresh(executor'[v]) => executor'[v].intent \in DemoIntents
  BY <1>1 DEF WorkersKnow, Shape, Fresh
<1>4. FreshIsLeased' BY <1>3 DEF FreshIsLeased, Carried, Fits
<1>5. \A v \in Executors : Unsent(executor'[v]) => Fresh(executor'[v]) BY DEF Unsent, Fresh
<1>6. UnsentIsOpen' BY <1>3, <1>5 DEF UnsentIsOpen, Carried, Fits
<1>7. CountIsOrder' BY DEF CountIsOrder
<1>8. \A i \in DemoIntents \ garbled : placed[i] <= 1 /\ Tracks(demo'[i], exchange[i])
  BY TrackedRows DEF Fits, Tracks
<1>9. OneTrackedOrder' BY <1>8 DEF OneTrackedOrder, Tracks, Unplaced
<1>10. QED BY <1>1, <1>2, <1>4, <1>6, <1>7, <1>9

\* A step of one worker that writes nothing else.
LEMMA Moves ==
  ASSUME DemoInv, NEW w \in Executors, NEW e \in ExecutorRow,
         executor' = [executor EXCEPT ![w] = e], OnlyExecutor,
         Shape(e), SeenStill(e),
         Fresh(e) => Fresh(executor[w]) /\ e.intent = executor[w].intent,
         Unsent(e) => Unsent(executor[w]) /\ e.intent = executor[w].intent
  PROVE  DemoInv'
<1>1. \A v \in Executors : executor'[v] = IF v = w THEN e ELSE executor[v]
  BY DEF DemoInv, DemoTypeOK
<1>2. \A v \in Executors : Carried(v) BY <1>1 DEF Carried
<1>3. \A i \in DemoIntents : Fits(i) BY DEF Fits, OnlyExecutor
<1>4. DemoTypeOK' BY DEF DemoInv, DemoTypeOK, OnlyExecutor
<1>5. QED BY <1>2, <1>3, <1>4, Frame DEF OnlyExecutor

-----------------------------------------------------------------------------
(* Intents, leases and the exchange *)

\* Queueing an intent, or its expiry, concerns nobody who carries it.
LEMMA InvOfRows ==
  ASSUME DemoInv, NEW i \in DemoIntents, Queue(i) \/ IntentLapses(i)
  PROVE  DemoInv'
<1> USE DEF DemoInv
<1>1. UNCHANGED <<executor, exchange, placed, garbled, enabled>> BY DEF Queue, IntentLapses
<1>2. \A v \in Executors : Carried(v) BY <1>1 DEF Carried
<1>3. demo[i] \in DemoRow BY DEF DemoTypeOK
<1>4. CASE Queue(i)
  <2> DEFINE row == [demo[i] EXCEPT !.status = "pending"]
  <2>1. row \in DemoRow /\ row.status = "pending" BY <1>3 DEF DemoRow, Waiting
  <2>2. demo' = [demo EXCEPT ![i] = row] /\ demo[i].status = "none" BY <1>4 DEF Queue
  <2> HIDE DEF row
  <2>3. DemoTypeOK' BY <1>1, <2>1, <2>2 DEF DemoTypeOK
  <2>4. demo'[i] = row /\ \A j \in DemoIntents \ {i} : demo'[j] = demo[j]
    BY <2>2 DEF DemoTypeOK
  <2>5. \A v \in Executors : ~(Fresh(executor[v]) /\ executor[v].intent = i)
    BY <2>2 DEF FreshIsLeased, Unplaced
  <2>6. \A v \in Executors : ~(Unsent(executor[v]) /\ executor[v].intent = i)
    BY <2>5 DEF Unsent, Fresh
  <2>7. i \notin garbled => exchange[i] = "none" BY <2>2 DEF OneTrackedOrder
  <2>8. Fits(i) BY <1>1, <2>1, <2>4, <2>5, <2>6, <2>7 DEF Fits, Tracks
  <2>9. \A j \in DemoIntents : Fits(j) BY <2>4, <2>8 DEF Fits
  <2>10. QED BY <1>1, <1>2, <2>3, <2>9, Frame
<1>5. CASE IntentLapses(i)
  <2> DEFINE row == [demo[i] EXCEPT !.lapsed = TRUE]
  <2>1. row \in DemoRow /\ row.status = demo[i].status /\ row.fills = demo[i].fills
    BY <1>3 DEF DemoRow
  <2>2. demo' = [demo EXCEPT ![i] = row] BY <1>5 DEF IntentLapses
  <2> HIDE DEF row
  <2>3. DemoTypeOK' BY <1>1, <2>1, <2>2 DEF DemoTypeOK
  <2>4. demo'[i] = row /\ \A j \in DemoIntents \ {i} : demo'[j] = demo[j]
    BY <2>2 DEF DemoTypeOK
  <2>5. \A j \in DemoIntents : Fits(j) BY <2>1, <2>4 DEF Fits
  <2>6. QED BY <1>1, <1>2, <2>3, <2>5, Frame
<1>6. QED BY <1>4, <1>5

\* The exchange works only on an order that it took, so nobody is unsent there.
LEMMA InvOfExchange ==
  ASSUME DemoInv, NEW i \in DemoIntents, ExchangeWorks(i)
  PROVE  DemoInv'
<1> USE DEF DemoInv
<1>1. UNCHANGED <<demo, executor, placed, garbled, enabled>> /\ exchange[i] = "open"
  BY DEF ExchangeWorks
<1>2. PICK order \in {"filled", "cut", "cancelled", "rejected"} :
        exchange' = [exchange EXCEPT ![i] = order]
  BY DEF ExchangeWorks
<1>3. exchange'[i] = order /\ \A j \in DemoIntents \ {i} : exchange'[j] = exchange[j]
  BY <1>2 DEF DemoTypeOK
<1>4. DemoTypeOK' BY <1>1, <1>2 DEF DemoTypeOK
<1>5. WorkersKnow' BY <1>1, <1>3 DEF WorkersKnow, Shape, SeenStill
<1>6. OneFresh' /\ FreshIsLeased' BY <1>1 DEF OneFresh, FreshIsLeased
<1>7. UnsentIsOpen'
  <2>1. ASSUME NEW w \in Executors, Unsent(executor[w]), executor[w].intent \notin garbled
        PROVE  /\ exchange'[executor[w].intent] = "none"
               /\ demo[executor[w].intent].status \in Attempting
    <3>1. executor[w].intent \in DemoIntents BY <2>1 DEF WorkersKnow, Shape, Unsent
    <3>2. QED BY <1>1, <1>3, <2>1, <3>1 DEF UnsentIsOpen
  <2>2. QED BY <1>1, <2>1 DEF UnsentIsOpen
<1>8. CountIsOrder' BY <1>1, <1>3 DEF CountIsOrder
<1>9. \A j \in DemoIntents \ garbled : placed[j] <= 1 /\ Tracks(demo[j], exchange'[j])
  BY <1>1, <1>3, TrackedRows DEF Tracks, Unplaced
<1>10. OneTrackedOrder' BY <1>1, <1>9 DEF OneTrackedOrder, Tracks, Unplaced
<1>11. QED BY <1>4, <1>5, <1>6, <1>7, <1>8, <1>10

\* A lease tells its worker that no order exists only if the intent was never sent.
LEMMA InvOfLease ==
  ASSUME DemoInv, NEW w \in Executors, NEW i \in DemoIntents, LeaseIntent(w, i)
  PROVE  DemoInv'
<1> DEFINE row == [demo[i] EXCEPT !.status = "running", !.token = demo[i].token + 1, !.lapsed = FALSE]
           e == [IdleExecutor EXCEPT !.pc = "leased", !.intent = i, !.token = demo[i].token + 1,
                                     !.mayExist = MayExist(i)]
<1> USE DEF DemoInv
<1>1. UNCHANGED <<exchange, placed, garbled, enabled>> BY DEF LeaseIntent
<1>2. demo[i].token + 1 \in 0 .. MaxTokens
  <2>1. demo[i].token \in 0 .. MaxTokens BY DEF DemoTypeOK, DemoRow
  <2>2. QED BY <2>1, DemoConstants DEF LeaseIntent, DemoConstants
<1>3. row \in DemoRow /\ row.status = "running"
  <2>1. demo[i] \in DemoRow BY DEF DemoTypeOK
  <2>2. QED BY <1>2, <2>1 DEF DemoRow
<1>4. e \in ExecutorRow /\ e.pc = "leased" /\ e.intent = i /\ e.mayExist = MayExist(i)
  <2>1. MayExist(i) \in BOOLEAN BY DEF MayExist, DemoTypeOK, DemoRow
  <2>2. QED BY <1>2, <2>1 DEF IdleExecutor, ExecutorRow
<1>5. demo' = [demo EXCEPT ![i] = row] BY DEF LeaseIntent
<1>6. executor' = [executor EXCEPT ![w] = e] BY DEF LeaseIntent
<1> HIDE DEF row, e
<1>7. demo'[i] = row /\ \A j \in DemoIntents \ {i} : demo'[j] = demo[j]
  BY <1>5 DEF DemoTypeOK
<1>8. executor'[w] = e /\ \A v \in Executors \ {w} : executor'[v] = executor[v]
  BY <1>6 DEF DemoTypeOK
<1>9. DemoTypeOK' BY <1>1, <1>3, <1>4, <1>5, <1>6 DEF DemoTypeOK
<1>10. WorkersKnow' BY <1>1, <1>4, <1>8 DEF WorkersKnow, Shape, SeenStill
<1>11. ~e.mayExist => demo[i].status \in Unplaced
  BY <1>4 DEF LeaseIntent, MayExist, Waiting, Unplaced
<1>12. ~e.mayExist => \A v \in Executors : ~(Fresh(executor[v]) /\ executor[v].intent = i)
  BY <1>11 DEF FreshIsLeased
<1>13. OneFresh' BY <1>4, <1>8, <1>12 DEF OneFresh, Fresh
<1>14. \A v \in Executors : Fresh(executor[v]) => executor[v].intent \in DemoIntents
  BY DEF WorkersKnow, Shape, Fresh
<1>15. FreshIsLeased'
  <2>1. demo'[e.intent].status \notin Unplaced BY <1>3, <1>4, <1>7 DEF Unplaced
  <2>2. \A v \in Executors \ {w} : Fresh(executor[v]) => demo'[executor[v].intent].status \notin Unplaced
    BY <1>3, <1>7, <1>14 DEF FreshIsLeased, Unplaced
  <2>3. QED BY <1>8, <2>1, <2>2 DEF FreshIsLeased
<1>16. UnsentIsOpen'
  <2>1. \A v \in Executors : Unsent(executor[v]) => Fresh(executor[v]) BY DEF Unsent, Fresh
  <2>2. \A v \in Executors \ {w} : Unsent(executor[v]) /\ executor[v].intent \notin garbled =>
          exchange[executor[v].intent] = "none" /\ demo'[executor[v].intent].status \in Attempting
    BY <1>3, <1>7, <1>14, <2>1 DEF UnsentIsOpen, Attempting
  <2>3. Unsent(e) /\ i \notin garbled => exchange[i] = "none"
    BY <1>11 DEF Unsent, OneTrackedOrder, Unplaced
  <2>4. demo'[i].status \in Attempting BY <1>3, <1>7 DEF Attempting
  <2>5. QED BY <1>1, <1>4, <1>8, <2>2, <2>3, <2>4 DEF UnsentIsOpen
<1>17. CountIsOrder' BY <1>1 DEF CountIsOrder
<1>18. \A j \in DemoIntents \ garbled : placed[j] <= 1 /\ Tracks(demo'[j], exchange[j])
  BY <1>3, <1>7, TrackedRows DEF Tracks, Unplaced
<1>19. OneTrackedOrder' BY <1>1, <1>18 DEF OneTrackedOrder, Tracks, Unplaced
<1>20. QED BY <1>9, <1>10, <1>13, <1>15, <1>16, <1>17, <1>19

-----------------------------------------------------------------------------
(* The steps of a worker *)

\* Where a worker may go, by the fields of its next row.
GoesTo(w, e) ==
  /\ e.pc # "idle" /\ e.intent = executor[w].intent
  /\ e.pc = "placing" => ~e.mayExist
  /\ e.pc = "failing" => e.error # "none" /\ (e.error = "safety" => ~e.mayExist)
  /\ e.pc \in {"found", "reading", "completing"} => e.mayExist /\ SeenStill(e)
  /\ ~e.mayExist => ~executor[w].mayExist
  /\ Unsent(e) => Unsent(executor[w])

\* A worker that only goes on, sending nothing and ending nothing.
LEMMA GoesOn ==
  ASSUME DemoInv, NEW w \in Executors, executor[w].pc # "idle", OnlyExecutor,
         NEW e \in ExecutorRow, executor' = [executor EXCEPT ![w] = e], GoesTo(w, e)
  PROVE  DemoInv'
<1>1. executor[w].intent \in DemoIntents BY DEF DemoInv, WorkersKnow, Shape
<1>2. Shape(e) BY <1>1 DEF Shape, GoesTo
<1>3. SeenStill(e) BY DEF SeenStill, GoesTo
<1>4. Fresh(e) => Fresh(executor[w]) /\ e.intent = executor[w].intent BY DEF Fresh, GoesTo
<1>5. Unsent(e) => Unsent(executor[w]) /\ e.intent = executor[w].intent BY DEF GoesTo
<1>6. QED BY <1>2, <1>3, <1>4, <1>5, Moves

\* A worker that fails for anything but a plain or a safety error, or that knew better before.
LEMMA FailsAsItIs ==
  ASSUME DemoInv, NEW w \in Executors, executor[w].pc \notin {"idle", "placing"}, OnlyExecutor,
         NEW error \in {"plain", "unknown", "reconcile", "conflict"}, Failing(w, error),
         error = "plain" => executor[w].pc = "leased"
  PROVE  DemoInv'
<1> DEFINE e == [executor[w] EXCEPT !.pc = "failing", !.error = error]
<1>1. executor[w] \in ExecutorRow BY DEF DemoInv, DemoTypeOK
<1>2. /\ e \in ExecutorRow /\ e.pc = "failing" /\ e.error = error
      /\ e.intent = executor[w].intent /\ e.mayExist = executor[w].mayExist
  BY <1>1 DEF ExecutorRow
<1>3. executor' = [executor EXCEPT ![w] = e] BY DEF Failing, DemoInv, DemoTypeOK
<1> HIDE DEF e
<1>4. GoesTo(w, e) BY <1>2 DEF GoesTo, Unsent
<1>5. QED BY <1>2, <1>3, <1>4, GoesOn

\* A worker that continues with what it knows.
LEMMA Continues ==
  ASSUME DemoInv, NEW w \in Executors, executor[w].pc # "idle", OnlyExecutor,
         NEW pc \in {"placing", "querying", "completing"}, Continue(w, pc),
         pc = "placing" => Unsent(executor[w]),
         pc = "completing" => executor[w].pc = "reading"
  PROVE  DemoInv'
<1> DEFINE e == [executor[w] EXCEPT !.pc = pc]
<1>1. executor[w] \in ExecutorRow /\ Shape(executor[w]) /\ SeenStill(executor[w])
  BY DEF DemoInv, DemoTypeOK, WorkersKnow
<1>2. /\ e \in ExecutorRow /\ e.pc = pc /\ e.error = executor[w].error /\ e.seen = executor[w].seen
      /\ e.intent = executor[w].intent /\ e.mayExist = executor[w].mayExist
  BY <1>1 DEF ExecutorRow
<1>3. executor' = [executor EXCEPT ![w] = e] BY DEF Continue, DemoInv, DemoTypeOK
<1> HIDE DEF e
<1>4. pc = "completing" => e.mayExist /\ SeenStill(e) BY <1>1, <1>2 DEF Shape, SeenStill
<1>5. GoesTo(w, e) BY <1>2, <1>4 DEF GoesTo, Unsent
<1>6. QED BY <1>2, <1>3, <1>5, GoesOn

\* Reading the switch, the order and its fills changes the worker alone.
LEMMA InvOfReads ==
  ASSUME DemoInv, NEW w \in Executors, CheckEnabled(w) \/ Query(w) \/ ReadFills(w)
  PROVE  DemoInv'
<1> DEFINE i == executor[w].intent
<1>1. OnlyExecutor /\ executor[w].pc \notin {"idle", "placing"}
  BY DEF CheckEnabled, Query, ReadFills
<1>2. executor[w] \in ExecutorRow /\ i \in DemoIntents /\ Shape(executor[w]) /\ SeenStill(executor[w])
  BY <1>1 DEF DemoInv, DemoTypeOK, WorkersKnow, Shape
<1>3. CASE CheckEnabled(w)
  <2>1. CASE Failing(w, "plain")
    <3>1. executor[w].pc = "leased" BY <1>3 DEF CheckEnabled
    <3>2. QED BY <1>1, <2>1, <3>1, FailsAsItIs
  <2>2. CASE Continue(w, "querying") BY <1>1, <2>2, Continues
  <2>3. CASE Continue(w, "placing") /\ ~executor[w].mayExist
    <3>1. Unsent(executor[w]) BY <1>3, <2>3 DEF CheckEnabled, Unsent
    <3>2. QED BY <1>1, <2>3, <3>1, Continues
  <2>4. executor[w].mayExist \in BOOLEAN BY <1>2 DEF ExecutorRow
  <2>5. QED BY <1>3, <2>1, <2>2, <2>3, <2>4 DEF CheckEnabled
<1>4. CASE Query(w)
  <2>1. CASE Failing(w, "unknown") BY <1>1, <2>1, FailsAsItIs
  <2>2. CASE exchange[i] # "none" /\ Found(w, i)
    <3> DEFINE seen == IF exchange[i] = "cut" THEN "cancelled" ELSE exchange[i]
               e == [executor[w] EXCEPT !.pc = "found", !.mayExist = TRUE, !.seen = seen]
    <3>1. /\ seen \in {"open", "filled", "cancelled", "rejected"}
          /\ seen = "filled" => exchange[i] = "filled"
          /\ seen = "cancelled" => exchange[i] \in {"cancelled", "cut"}
          /\ seen = "rejected" => exchange[i] = "rejected"
      BY <1>2, <2>2 DEF DemoInv, DemoTypeOK
    <3>2. executor' = [executor EXCEPT ![w] = e] BY <2>2 DEF Found, DemoInv, DemoTypeOK
    <3> HIDE DEF seen
    <3>3. e \in ExecutorRow /\ e.pc = "found" /\ e.mayExist = TRUE /\ e.seen = seen /\ e.intent = i
      BY <1>2, <3>1 DEF ExecutorRow
    <3> HIDE DEF e
    <3>4. SeenStill(e) BY <2>2, <3>1, <3>3 DEF SeenStill
    <3>5. GoesTo(w, e) BY <3>3, <3>4 DEF GoesTo, Unsent
    <3>6. QED BY <1>1, <3>2, <3>3, <3>5, GoesOn
  <2>3. QED BY <1>4, <2>1, <2>2 DEF Query
<1>5. CASE ReadFills(w)
  <2>1. executor[w].pc = "reading" /\ executor[w].mayExist BY <1>2, <1>5 DEF ReadFills, Shape
  <2>2. CASE \E error \in {"conflict", "reconcile"} : Failing(w, error)
    BY <1>1, <2>2, FailsAsItIs
  <2>3. CASE Continue(w, "completing") BY <1>1, <2>1, <2>3, Continues
  <2>4. CASE executor' = [executor EXCEPT ![w].pc = "completing",
                 ![w].seen = IF @ = "filled" THEN "filled" ELSE "none"]
    <3> DEFINE seen == IF executor[w].seen = "filled" THEN "filled" ELSE "none"
               e == [executor[w] EXCEPT !.pc = "completing", !.seen = seen]
    <3>1. executor' = [executor EXCEPT ![w] = e] BY <1>2, <2>4 DEF DemoInv, DemoTypeOK
    <3>2. seen \in {"none", "filled"} /\ (seen = "filled" => executor[w].seen = "filled") OBVIOUS
    <3> HIDE DEF seen
    <3>3. /\ e \in ExecutorRow /\ e.pc = "completing" /\ e.mayExist = executor[w].mayExist
          /\ e.seen = seen /\ e.intent = i
      BY <1>2, <3>2 DEF ExecutorRow
    <3> HIDE DEF e
    <3>4. SeenStill(e) BY <1>2, <2>1, <3>2, <3>3 DEF SeenStill
    <3>5. GoesTo(w, e) BY <2>1, <3>3, <3>4 DEF GoesTo, Unsent
    <3>6. QED BY <1>1, <3>1, <3>3, <3>5, GoesOn
  <2>5. QED BY <1>5, <2>2, <2>3, <2>4 DEF ReadFills
<1>6. QED BY <1>3, <1>4, <1>5

\* The exchange takes the order: its worker was the only fresh one of the intent.
LEMMA Takes ==
  ASSUME DemoInv, NEW w \in Executors, executor[w].pc = "placing",
         NEW i, i = executor[w].intent,
         NEW e \in ExecutorRow, executor' = [executor EXCEPT ![w] = e], e.intent = i,
         e.pc \in {"found", "querying", "failing"},
         e.pc = "found" => e.mayExist /\ e.seen = "open",
         e.pc = "failing" => e.error = "plain",
         garbled' = garbled \/ garbled' = garbled \cup {i},
         Unsent(e) => i \in garbled',
         placed' = [placed EXCEPT ![i] = @ + 1], exchange' = [exchange EXCEPT ![i] = "open"],
         UNCHANGED <<demo, enabled>>
  PROVE  DemoInv'
<1> USE DEF DemoInv
<1>1. i \in DemoIntents /\ Unsent(executor[w]) /\ Fresh(executor[w])
  BY DEF WorkersKnow, Shape, Unsent, Fresh
<1>2. /\ executor'[w] = e /\ \A v \in Executors \ {w} : executor'[v] = executor[v]
      /\ exchange'[i] = "open" /\ \A j \in DemoIntents \ {i} : exchange'[j] = exchange[j]
      /\ placed'[i] = placed[i] + 1 /\ \A j \in DemoIntents \ {i} : placed'[j] = placed[j]
  BY <1>1 DEF DemoTypeOK
<1>3. DemoTypeOK' BY <1>1 DEF DemoTypeOK
<1>4. i \notin garbled => exchange[i] = "none" /\ placed[i] = 0 /\ demo[i].status \in Attempting
  BY <1>1 DEF UnsentIsOpen, CountIsOrder
<1>5. WorkersKnow'
  <2>1. Shape(e) /\ (e.pc = "found" /\ i \notin garbled' => exchange'[i] = "open" /\ e.seen = "open")
    BY <1>1, <1>2 DEF Shape
  <2>2. SeenStill(e)' BY <1>2, <2>1 DEF SeenStill
  <2>3. ASSUME NEW v \in Executors \ {w}
        PROVE  Shape(executor[v]) /\ SeenStill(executor[v])'
    <3>1. Shape(executor[v]) /\ SeenStill(executor[v]) BY DEF WorkersKnow
    <3>2. CASE executor[v].intent = i BY <1>2, <1>4, <3>1, <3>2 DEF SeenStill
    <3>3. CASE executor[v].intent # i
      <4>1. executor[v].pc # "idle" => exchange'[executor[v].intent] = exchange[executor[v].intent]
        BY <1>2, <3>1, <3>3 DEF Shape
      <4>2. QED BY <3>1, <4>1 DEF SeenStill
    <3>4. QED BY <3>1, <3>2, <3>3
  <2>4. ASSUME NEW v \in Executors PROVE Shape(executor[v])' /\ SeenStill(executor[v])'
    <3>1. CASE v = w BY <1>2, <2>1, <2>2, <3>1 DEF Shape, SeenStill
    <3>2. CASE v # w
      <4>1. executor'[v] = executor[v] BY <1>2, <3>2
      <4>2. QED BY <2>3, <3>2, <4>1 DEF Shape, SeenStill
    <3>3. QED BY <3>1, <3>2
  <2>5. QED BY <2>4 DEF WorkersKnow
<1>6. \A v \in Executors \ {w} : Fresh(executor[v]) =>
        executor[v].intent # i /\ executor[v].intent \in DemoIntents
  BY <1>1 DEF OneFresh, WorkersKnow, Shape, Fresh
<1>7. OneFresh' BY <1>2, <1>6 DEF OneFresh
<1>8. FreshIsLeased' BY <1>1, <1>2, <1>6 DEF FreshIsLeased
<1>9. UnsentIsOpen'
  <2>1. \A v \in Executors \ {w} : Unsent(executor[v]) => Fresh(executor[v]) BY DEF Unsent, Fresh
  <2>2. QED BY <1>2, <1>6, <2>1 DEF UnsentIsOpen
<1>10. CountIsOrder' BY <1>2, <1>4 DEF CountIsOrder
<1>11. \A j \in DemoIntents \ garbled' : placed'[j] <= 1 /\ Tracks(demo[j], exchange'[j])
  BY <1>2, <1>4, TrackedRows DEF Tracks, Attempting, Unplaced
<1>12. OneTrackedOrder' BY <1>11 DEF OneTrackedOrder, Tracks, Unplaced
<1>13. QED BY <1>3, <1>5, <1>7, <1>8, <1>9, <1>10, <1>12

\* Sending the order: it lands, is refused, or nobody knows.
LEMMA InvOfPlace ==
  ASSUME DemoInv, NEW w \in Executors, Place(w)
  PROVE  DemoInv'
<1> DEFINE i == executor[w].intent
           found == [executor[w] EXCEPT !.pc = "found", !.mayExist = TRUE, !.seen = "open"]
           querying == [executor[w] EXCEPT !.pc = "querying"]
           safety == [executor[w] EXCEPT !.pc = "failing", !.error = "safety"]
           plain == [executor[w] EXCEPT !.pc = "failing", !.error = "plain"]
<1>1. executor[w].pc = "placing" /\ executor[w] \in ExecutorRow /\ ~executor[w].mayExist
      /\ UNCHANGED <<demo, enabled>>
  BY DEF Place, DemoInv, DemoTypeOK, WorkersKnow, Shape
<1>2. /\ found \in ExecutorRow /\ found.pc = "found" /\ found.mayExist = TRUE
      /\ found.seen = "open" /\ found.intent = i
  BY <1>1 DEF ExecutorRow
<1>3. /\ querying \in ExecutorRow /\ querying.pc = "querying" /\ querying.intent = i
      /\ querying.mayExist = executor[w].mayExist
  BY <1>1 DEF ExecutorRow
<1>4. /\ safety \in ExecutorRow /\ safety.pc = "failing" /\ safety.error = "safety"
      /\ safety.intent = i /\ safety.mayExist = executor[w].mayExist
  BY <1>1 DEF ExecutorRow
<1>5. /\ plain \in ExecutorRow /\ plain.pc = "failing" /\ plain.error = "plain"
      /\ plain.intent = i /\ plain.mayExist = executor[w].mayExist
  BY <1>1 DEF ExecutorRow
<1>6. /\ (Continue(w, "querying") => executor' = [executor EXCEPT ![w] = querying])
      /\ (Failing(w, "safety") => executor' = [executor EXCEPT ![w] = safety])
      /\ (Failing(w, "plain") => executor' = [executor EXCEPT ![w] = plain])
      /\ (executor' = [executor EXCEPT ![w].pc = "found", ![w].mayExist = TRUE, ![w].seen = "open"]
            => executor' = [executor EXCEPT ![w] = found])
  BY <1>1 DEF Continue, Failing, DemoInv, DemoTypeOK
<1> HIDE DEF found, querying, safety, plain
<1>7. Unsent(executor[w]) BY <1>1 DEF Unsent
<1>8. ASSUME NEW e \in {querying, safety, plain}, executor' = [executor EXCEPT ![w] = e], OnlyExecutor
      PROVE  DemoInv'
  <2>1. GoesTo(w, e) BY <1>1, <1>3, <1>4, <1>5, <1>7 DEF GoesTo
  <2>2. QED BY <1>1, <1>3, <1>4, <1>5, <1>8, <2>1, GoesOn
<1>9. ASSUME placed' = [placed EXCEPT ![i] = @ + 1], exchange' = [exchange EXCEPT ![i] = "open"],
             \/ /\ UNCHANGED garbled
                /\ \E e \in {found, querying} : executor' = [executor EXCEPT ![w] = e]
             \/ garbled' = garbled \cup {i} /\ executor' = [executor EXCEPT ![w] = plain]
      PROVE  DemoInv'
  <2>1. CASE executor' = [executor EXCEPT ![w] = found] /\ UNCHANGED garbled
    <3>1. ~Unsent(found) BY <1>2 DEF Unsent
    <3>2. QED BY <1>1, <1>2, <1>9, <2>1, <3>1, Takes
  <2>2. CASE executor' = [executor EXCEPT ![w] = querying] /\ UNCHANGED garbled
    <3>1. ~Unsent(querying) BY <1>3 DEF Unsent
    <3>2. QED BY <1>1, <1>3, <1>9, <2>2, <3>1, Takes
  <2>3. CASE executor' = [executor EXCEPT ![w] = plain] /\ garbled' = garbled \cup {i}
    BY <1>1, <1>5, <1>9, <2>3, Takes
  <2>4. QED BY <1>9, <2>1, <2>2, <2>3
<1>10. CASE i \in Sells
  <2>1. Failing(w, "safety") /\ OnlyExecutor BY <1>10 DEF Place, OnlyExecutor
  <2>2. QED BY <1>6, <1>8, <2>1
<1>11. CASE i \notin Sells
  <2>1. \/ OnlyExecutor /\ (Continue(w, "querying") \/ Failing(w, "plain"))
        \/ /\ placed' = [placed EXCEPT ![i] = @ + 1] /\ exchange' = [exchange EXCEPT ![i] = "open"]
           /\ \/ /\ UNCHANGED garbled
                 /\ \/ executor' = [executor EXCEPT ![w].pc = "found", ![w].mayExist = TRUE,
                                                    ![w].seen = "open"]
                    \/ Continue(w, "querying")
              \/ garbled' = garbled \cup {i} /\ Failing(w, "plain")
    BY <1>11 DEF Place, OnlyExecutor
  <2>2. QED BY <1>6, <1>8, <1>9, <2>1
<1>12. QED BY <1>10, <1>11

\* The order id is remembered; status and fills stay.
LEMMA InvOfRemember ==
  ASSUME DemoInv, NEW w \in Executors, Remember(w)
  PROVE  DemoInv'
<1> DEFINE i == executor[w].intent
           row == [demo[i] EXCEPT !.order = TRUE]
           e == [executor[w] EXCEPT !.pc = "reading"]
<1>1. /\ executor[w].pc = "found" /\ i \in DemoIntents /\ executor[w] \in ExecutorRow
      /\ Shape(executor[w]) /\ SeenStill(executor[w]) /\ demo[i] \in DemoRow
      /\ UNCHANGED <<exchange, placed, garbled, enabled>>
  BY DEF Remember, DemoInv, DemoTypeOK, WorkersKnow, Shape
<1>2. CASE Fenced(w)
  <2>1. Failing(w, "conflict") /\ OnlyExecutor BY <1>1, <1>2 DEF Remember, OnlyExecutor
  <2>2. QED BY <1>1, <2>1, FailsAsItIs
<1>3. CASE ~Fenced(w)
  <2>1. demo' = [demo EXCEPT ![i] = row] /\ executor' = [executor EXCEPT ![w] = e]
    BY <1>3 DEF Remember, Continue, DemoInv, DemoTypeOK
  <2>2. row \in DemoRow /\ row.status = demo[i].status /\ row.fills = demo[i].fills
    BY <1>1 DEF DemoRow
  <2>3. /\ e \in ExecutorRow /\ e.pc = "reading" /\ e.intent = i /\ e.seen = executor[w].seen
        /\ e.mayExist = executor[w].mayExist
    BY <1>1 DEF ExecutorRow
  <2> HIDE DEF row, e
  <2>4. DemoTypeOK' BY <1>1, <2>1, <2>2, <2>3 DEF DemoInv, DemoTypeOK
  <2>5. demo'[i] = row /\ \A j \in DemoIntents \ {i} : demo'[j] = demo[j]
    BY <1>1, <2>1 DEF DemoInv, DemoTypeOK
  <2>6. executor'[w] = e /\ \A v \in Executors \ {w} : executor'[v] = executor[v]
    BY <2>1 DEF DemoInv, DemoTypeOK
  <2>7. \A j \in DemoIntents : Fits(j) BY <2>2, <2>5 DEF Fits
  <2>8. e.mayExist /\ Shape(e) /\ SeenStill(e) BY <1>1, <2>3 DEF Shape, SeenStill
  <2>9. \A v \in Executors : Carried(v) BY <2>6, <2>8 DEF Carried, Fresh, Unsent
  <2>10. QED BY <1>1, <2>4, <2>7, <2>9, Frame
<1>4. QED BY <1>2, <1>3

\* A worker that writes the outcome, or finds itself fenced, and is done.
LEMMA InvOfLeaving ==
  ASSUME DemoInv, NEW w \in Executors, executor[w].pc # "idle", Leaves(w),
         UNCHANGED <<exchange, placed, garbled, enabled>>,
         \/ UNCHANGED demo
         \/ \E row \in DemoRow :
              /\ demo' = [demo EXCEPT ![executor[w].intent] = row]
              /\ \/ row.status \in Attempting
                 \/ /\ executor[w].pc = "completing" /\ row.status \notin Unplaced
                    /\ executor[w].intent \notin garbled => Tracks(row, exchange[executor[w].intent])
                 \/ /\ Unsent(executor[w]) /\ row.status \in {"failed", "retry_wait"}
  PROVE  DemoInv'
<1> DEFINE i == executor[w].intent
<1> USE DEF DemoInv
<1>1. i \in DemoIntents BY DEF WorkersKnow, Shape
<1>2. IdleExecutor \in ExecutorRow /\ IdleExecutor.pc = "idle"
  BY DemoConstants DEF IdleExecutor, ExecutorRow, DemoConstants
<1>3. executor'[w].pc = "idle" /\ \A v \in Executors \ {w} : executor'[v] = executor[v]
  BY <1>2 DEF Leaves, DemoTypeOK
<1>4. \A v \in Executors : Carried(v) BY <1>3 DEF Carried, Shape, SeenStill, Fresh, Unsent
<1>5. executor' \in [Executors -> ExecutorRow] BY <1>2 DEF Leaves, DemoTypeOK
<1>6. CASE UNCHANGED demo
  <2>1. DemoTypeOK' BY <1>5, <1>6 DEF DemoTypeOK
  <2>2. \A j \in DemoIntents : Fits(j) BY <1>6 DEF Fits
  <2>3. QED BY <1>4, <2>1, <2>2, Frame
<1>7. ASSUME NEW row \in DemoRow, demo' = [demo EXCEPT ![i] = row],
             \/ row.status \in Attempting
             \/ /\ executor[w].pc = "completing" /\ row.status \notin Unplaced
                /\ i \notin garbled => Tracks(row, exchange[i])
             \/ /\ Unsent(executor[w]) /\ row.status \in {"failed", "retry_wait"}
      PROVE  DemoInv'
  <2>1. demo'[i] = row /\ \A j \in DemoIntents \ {i} : demo'[j] = demo[j]
    BY <1>1, <1>7 DEF DemoTypeOK
  <2>2. DemoTypeOK' BY <1>5, <1>7 DEF DemoTypeOK
  <2>3. \A v \in Executors : Unsent(executor'[v]) =>
          v # w /\ Unsent(executor[v]) /\ Fresh(executor[v]) /\ executor'[v] = executor[v]
    BY <1>3 DEF Unsent, Fresh
  <2>4. ASSUME row.status \in Attempting PROVE Fits(i)
    BY <2>1, <2>4 DEF Fits, Tracks, Attempting, Unplaced
  <2>5. ASSUME executor[w].pc = "completing", row.status \notin Unplaced,
               i \notin garbled => Tracks(row, exchange[i])
        PROVE  Fits(i)
    <3>1. i \notin garbled => exchange[i] # "none" BY <2>5 DEF WorkersKnow, SeenStill
    <3>2. i \notin garbled => \A v \in Executors : ~(Unsent(executor'[v]) /\ executor'[v].intent = i)
      BY <2>3, <3>1 DEF UnsentIsOpen
    <3>3. QED BY <2>1, <2>5, <3>2 DEF Fits
  <2>6. ASSUME Unsent(executor[w]), row.status \in {"failed", "retry_wait"} PROVE Fits(i)
    <3>1. Fresh(executor[w]) BY <2>6 DEF Unsent, Fresh
    <3>2. \A v \in Executors : ~(Fresh(executor'[v]) /\ executor'[v].intent = i)
      BY <1>3, <3>1 DEF OneFresh, Fresh
    <3>3. i \notin garbled => exchange[i] = "none" BY <2>6 DEF UnsentIsOpen
    <3>4. QED BY <2>1, <2>3, <2>6, <3>2, <3>3 DEF Fits, Tracks, Unplaced
  <2>7. \A j \in DemoIntents : Fits(j)
    <3>1. Fits(i) BY <1>7, <2>4, <2>5, <2>6
    <3>2. QED BY <2>1, <3>1 DEF Fits
  <2>8. QED BY <1>4, <2>2, <2>7, Frame
<1>8. QED BY <1>6, <1>7

\* What is written at the end: the order's outcome, or what the error allows.
LEMMA InvOfEndings ==
  ASSUME DemoInv, NEW w \in Executors, CompleteIntent(w) \/ FailIntent(w) \/ ExecutorCrash(w)
  PROVE  DemoInv'
<1> DEFINE i == executor[w].intent
<1>1. /\ executor[w].pc # "idle" /\ Leaves(w) /\ UNCHANGED <<exchange, placed, garbled, enabled>>
  BY DEF CompleteIntent, FailIntent, ExecutorCrash, OnlyExecutor
<1>2. /\ i \in DemoIntents /\ executor[w] \in ExecutorRow /\ demo[i] \in DemoRow
      /\ Shape(executor[w]) /\ SeenStill(executor[w])
  BY <1>1 DEF DemoInv, DemoTypeOK, WorkersKnow, Shape
<1>3. CASE UNCHANGED demo BY <1>1, <1>3, InvOfLeaving
<1>4. CASE CompleteIntent(w) /\ ~Fenced(w)
  <2> DEFINE seen == executor[w].seen
             fills == demo[i].fills \/ seen \in {"filled", "none"}
             row == [demo[i] EXCEPT !.status = StatusOf(seen), !.errors = 0, !.doubts = 0,
                                    !.fills = fills]
  <2>1. StatusOf(seen) \in {"filled", "cancelled", "failed", "reconcile_wait"}
    BY DEF StatusOf
  <2>2. demo[i].fills \in BOOLEAN BY <1>2 DEF DemoRow
  <2>3. row \in DemoRow /\ row.status = StatusOf(seen) /\ row.fills = fills
    BY <1>2, <2>1, <2>2 DEF DemoRow, Waiting, Ended
  <2>4. demo' = [demo EXCEPT ![i] = row] BY <1>2, <1>4 DEF CompleteIntent, DemoInv, DemoTypeOK
  <2>5. executor[w].pc = "completing" BY <1>4 DEF CompleteIntent
  <2> HIDE DEF row
  <2>6. i \notin garbled => Tracks(row, exchange[i])
    BY <1>2, <2>3, <2>5 DEF Tracks, StatusOf, SeenStill, Unplaced
  <2>7. row.status \notin Unplaced BY <2>1, <2>3 DEF Unplaced
  <2>8. QED BY <1>1, <2>3, <2>4, <2>5, <2>6, <2>7, InvOfLeaving
<1>5. CASE FailIntent(w) /\ ~Fenced(w)
  <2> DEFINE status == StatusAfterError(w)
             doubts == IF Counts(executor[w].error) THEN demo[i].doubts + 1 ELSE demo[i].doubts
             row == [demo[i] EXCEPT !.status = status, !.errors = demo[i].errors + 1, !.doubts = doubts]
  <2>1. executor[w].pc = "failing" BY <1>5 DEF FailIntent
  <2>2. executor[w].error \in {"none", "plain", "safety", "unknown", "reconcile", "conflict"}
        /\ executor[w].mayExist \in BOOLEAN
    BY <1>2 DEF ExecutorRow
  <2>3. \/ status \in Attempting
        \/ status \in {"failed", "retry_wait"} /\ Unsent(executor[w])
    <3>1. CASE executor[w].mayExist
      BY <1>2, <2>1, <2>2, <3>1 DEF StatusAfterError, Attempting, Shape
    <3>2. CASE ~executor[w].mayExist
      BY <1>2, <2>1, <2>2, <3>2 DEF StatusAfterError, Attempting, Unsent, Shape
    <3>3. QED BY <2>2, <3>1, <3>2
  <2>4. demo[i].errors + 1 \in Nat /\ doubts \in Nat BY <1>2 DEF DemoRow
  <2>5. status \in {"running"} \cup Waiting \cup Ended BY <2>3 DEF Attempting, Waiting, Ended
  <2>6. demo' = [demo EXCEPT ![i] = row] BY <1>2, <1>5 DEF FailIntent, DemoInv, DemoTypeOK
  <2> HIDE DEF status, doubts
  <2>7. row \in DemoRow /\ row.status = status BY <1>2, <2>4, <2>5 DEF DemoRow
  <2> HIDE DEF row
  <2>8. QED BY <1>1, <2>3, <2>6, <2>7, InvOfLeaving
<1>6. QED BY <1>1, <1>3, <1>4, <1>5 DEF CompleteIntent, FailIntent, ExecutorCrash, OnlyExecutor

\* Every step of the demo execution.
LEMMA DemoInvStep == DemoInv /\ [DemoNext]_demoVars => DemoInv'
<1> SUFFICES ASSUME DemoInv, [DemoNext]_demoVars PROVE DemoInv' OBVIOUS
<1>1. ASSUME NEW i \in DemoIntents, Queue(i) \/ ExchangeWorks(i) \/ IntentLapses(i) PROVE DemoInv'
  BY <1>1, InvOfRows, InvOfExchange
<1>2. CASE Toggle \/ UNCHANGED demoVars
  <2>1. UNCHANGED <<demo, executor, exchange, placed, garbled>> /\ enabled' \in BOOLEAN
    BY <1>2 DEF Toggle, demoVars, DemoInv, DemoTypeOK
  <2>2. DemoTypeOK' BY <2>1 DEF DemoInv, DemoTypeOK
  <2>3. \A v \in Executors : Carried(v) BY <2>1 DEF Carried
  <2>4. \A i \in DemoIntents : Fits(i) BY <2>1 DEF Fits
  <2>5. QED BY <2>1, <2>2, <2>3, <2>4, Frame
<1>3. ASSUME NEW w \in Executors, NEW i \in DemoIntents, LeaseIntent(w, i) PROVE DemoInv'
  BY <1>3, InvOfLease
<1>4. ASSUME NEW w \in Executors, CheckEnabled(w) \/ Query(w) \/ ReadFills(w) PROVE DemoInv'
  BY <1>4, InvOfReads
<1>5. ASSUME NEW w \in Executors, Place(w) PROVE DemoInv' BY <1>5, InvOfPlace
<1>6. ASSUME NEW w \in Executors, Remember(w) PROVE DemoInv' BY <1>6, InvOfRemember
<1>7. ASSUME NEW w \in Executors, CompleteIntent(w) \/ FailIntent(w) \/ ExecutorCrash(w)
      PROVE  DemoInv'
  BY <1>7, InvOfEndings
<1>8. QED BY <1>1, <1>2, <1>3, <1>4, <1>5, <1>6, <1>7 DEF DemoNext

\* An intent is at most one order at the exchange and none is forgotten, for any number of workers
\* that overlap, are lost and retry (processNextPlatformDemoExecution).
THEOREM OrderIsTracked == DemoSpec => []OneTrackedOrder
<1>1. DemoInv => OneTrackedOrder BY DEF DemoInv
<1>2. QED BY <1>1, DemoInvInit, DemoInvStep, PTL DEF DemoSpec

\* The intents and workers of the demo accounts stay well typed.
THEOREM DemoTypes == DemoSpec => []DemoTypeOK
<1>1. DemoInv => DemoTypeOK BY DEF DemoInv
<1>2. QED BY <1>1, DemoInvInit, DemoInvStep, PTL DEF DemoSpec

-----------------------------------------------------------------------------
(* Commands *)

Works(c) == caller[c].pc \in {"running", "called"}

\* The rows of the two tables.
ClaimRow ==
  [status : {"none", "processing", "succeeded", "failed"}, expired : BOOLEAN,
   closedBy : {"none", "command", "reconciliation"}]
CallerRow ==
  [pc : {"idle", "claiming", "running", "called"}, key : CommandKeys \cup {NoKey}]

\* A key nobody claimed has no answer and no effect; one in progress has no answer yet.
OpenKeys ==
  \A k \in CommandKeys :
    /\ claim[k].status = "none" => effect[k] = 0
    /\ claim[k].status \in {"none", "processing"} => answer[k] = {} /\ claim[k].closedBy = "none"

\* A caller that works for a key claimed it, has not closed it, and has caused its effect
\* exactly if its external call was made.
WorkInProgress ==
  \A c \in Callers :
    /\ caller[c].pc # "idle" => caller[c].key \in CommandKeys
    /\ Works(c) => /\ claim[caller[c].key].status # "none"
                   /\ claim[caller[c].key].closedBy # "command"
    /\ caller[c].pc = "running" => effect[caller[c].key] = 0
    /\ caller[c].pc = "called" => caller[c].key \in External /\ effect[caller[c].key] = 1

\* Two callers never work for the same key.
OneWorker ==
  \A c, d \in Callers : c # d /\ Works(c) /\ Works(d) => caller[c].key # caller[d].key

OnceInv == IdempotencyTypeOK /\ OpenKeys /\ WorkInProgress /\ OneWorker /\ CommandRunsOnce

-----------------------------------------------------------------------------

\* Nobody works for a key at the start.
LEMMA OnceInit == IdempotencyInit => OnceInv
<1> SUFFICES ASSUME IdempotencyInit PROVE OnceInv OBVIOUS
<1> USE IdempotencyConstants DEF IdempotencyConstants, IdempotencyInit, NoClaim, IdleCaller
<1>1. IdempotencyTypeOK BY DEF IdempotencyTypeOK
<1>2. OpenKeys BY DEF OpenKeys
<1>3. WorkInProgress /\ OneWorker BY DEF WorkInProgress, OneWorker, Works
<1>4. CommandRunsOnce
  <2>1. \A k \in CommandKeys : effect[k] = 0 /\ answer[k] = {} /\ claim[k].closedBy = "none" OBVIOUS
  <2>2. ASSUME NEW k \in CommandKeys
        PROVE  /\ effect[k] <= 1 /\ effect[k] # 1 /\ answer[k] \subseteq {claim[k].status}
               /\ claim[k].closedBy # "command"
    BY <2>1
  <2>3. QED BY <2>2, Zenon DEF CommandRunsOnce
<1>5. QED BY <1>1, <1>2, <1>3, <1>4 DEF OnceInv

\* A caller that stops working, or never started, leaves the keys as they are.
LEMMA OnceIdle ==
  ASSUME OnceInv, NEW c \in Callers, (\E k \in CommandKeys : Call(c, k)) \/ Breaks(c)
  PROVE  OnceInv'
<1> USE DEF OnceInv
<1>1. CASE Breaks(c)
  <2>1. /\ UNCHANGED <<claim, effect, answer>>
        /\ caller' = [caller EXCEPT ![c] = IdleCaller]
    BY <1>1 DEF Breaks, Returns
  <2>2. caller'[c] = IdleCaller /\ \A d \in Callers \ {c} : caller'[d] = caller[d]
    BY <2>1 DEF IdempotencyTypeOK
  <2>3. IdempotencyTypeOK' BY <2>1 DEF IdempotencyTypeOK, IdleCaller
  <2>4. WorkInProgress' /\ OneWorker'
    BY <2>1, <2>2 DEF WorkInProgress, OneWorker, Works, IdleCaller
  <2>5. QED BY <2>1, <2>3, <2>4 DEF OpenKeys, CommandRunsOnce
<1>2. ASSUME NEW k \in CommandKeys, Call(c, k) PROVE OnceInv'
  <2>1. /\ UNCHANGED <<claim, effect, answer>>
        /\ caller' = [caller EXCEPT ![c] = [pc |-> "claiming", key |-> k]]
    BY <1>2 DEF Call
  <2>2. /\ caller'[c].pc = "claiming" /\ caller'[c].key = k
        /\ \A d \in Callers \ {c} : caller'[d] = caller[d]
    BY <2>1 DEF IdempotencyTypeOK
  <2>3. IdempotencyTypeOK' BY <2>1 DEF IdempotencyTypeOK
  <2>4. WorkInProgress' /\ OneWorker' BY <2>1, <2>2 DEF WorkInProgress, OneWorker, Works
  <2>5. QED BY <2>1, <2>3, <2>4 DEF OpenKeys, CommandRunsOnce
<1>3. QED BY <1>1, <1>2

\* A caller leaves the others to their work: the keys they work for keep their claim and effect.
LEMMA StoppedWorking ==
  ASSUME WorkInProgress, OneWorker, NEW c \in Callers, UNCHANGED effect,
         caller'[c] = IdleCaller, \A d \in Callers \ {c} : caller'[d] = caller[d],
         \A j \in CommandKeys : claim'[j] = claim[j] \/ (claim'[j].status # "none"
                                                       /\ claim'[j].closedBy # "command")
  PROVE  WorkInProgress' /\ OneWorker'
<1>1. caller'[c].pc = "idle" BY DEF IdleCaller
<1>2. ASSUME NEW d \in Callers
      PROVE  /\ caller'[d].pc # "idle" => caller'[d].key \in CommandKeys
             /\ Works(d)' => /\ claim'[caller'[d].key].status # "none"
                             /\ claim'[caller'[d].key].closedBy # "command"
             /\ caller'[d].pc = "running" => effect'[caller'[d].key] = 0
             /\ caller'[d].pc = "called" =>
                  caller'[d].key \in External /\ effect'[caller'[d].key] = 1
  <2>1. CASE d = c BY <1>1, <2>1 DEF Works
  <2>2. CASE d # c
    <3>1. caller'[d] = caller[d] BY <2>2
    <3>2. Works(d) => caller[d].key \in CommandKeys BY DEF WorkInProgress, Works
    <3>3. QED BY <3>1, <3>2 DEF WorkInProgress, Works
  <2>3. QED BY <2>1, <2>2
<1>3. WorkInProgress' BY <1>2 DEF WorkInProgress
<1>4. OneWorker' BY <1>1 DEF OneWorker, Works
<1>5. QED BY <1>3, <1>4

\* Closing a key and answering its caller keeps the types.
LEMMA KeyClosed ==
  ASSUME IdempotencyTypeOK, NEW k \in CommandKeys, NEW c \in Callers,
         NEW s \in {"succeeded", "failed"}, NEW by \in {"command", "reconciliation"},
         claim' = [claim EXCEPT ![k].status = s, ![k].closedBy = by],
         answer' = [answer EXCEPT ![k] = @ \cup {s}],
         caller' = [caller EXCEPT ![c] = IdleCaller],
         effect' \in [CommandKeys -> Nat]
  PROVE  IdempotencyTypeOK'
<1>1. [claim[k] EXCEPT !.status = s, !.closedBy = by] \in ClaimRow
  <2>1. claim[k] \in ClaimRow BY DEF IdempotencyTypeOK, ClaimRow
  <2>2. QED BY <2>1 DEF ClaimRow
<1>2. claim' = [claim EXCEPT ![k] = [claim[k] EXCEPT !.status = s, !.closedBy = by]]
  BY DEF IdempotencyTypeOK
<1>3. claim' \in [CommandKeys -> ClaimRow] BY <1>1, <1>2 DEF IdempotencyTypeOK, ClaimRow
<1>4. caller' \in [Callers -> CallerRow] BY DEF IdempotencyTypeOK, CallerRow, IdleCaller
<1>5. answer' \in [CommandKeys -> SUBSET {"succeeded", "failed"}] BY DEF IdempotencyTypeOK
<1>6. QED BY <1>3, <1>4, <1>5 DEF IdempotencyTypeOK, ClaimRow, CallerRow

\* A new key is claimed, an expired one closed, a closed one replayed.
LEMMA OnceClaims ==
  ASSUME OnceInv, NEW c \in Callers, ClaimKey(c)
  PROVE  OnceInv'
<1> DEFINE k == caller[c].key
<1> USE DEF OnceInv
<1>1. k \in CommandKeys /\ UNCHANGED effect /\ ~Works(c)
  BY DEF ClaimKey, WorkInProgress, Works
<1>2. CASE IsNew(k)
  <2>1. /\ claim' = [claim EXCEPT ![k] = [NoClaim EXCEPT !.status = "processing"]]
        /\ caller' = [caller EXCEPT ![c].pc = "running"]
        /\ UNCHANGED answer
    BY <1>2 DEF ClaimKey, Advance
  <2>2. /\ claim'[k].status = "processing" /\ claim'[k].closedBy = "none"
        /\ \A j \in CommandKeys \ {k} : claim'[j] = claim[j]
        /\ caller'[c].pc = "running" /\ caller'[c].key = k
        /\ \A d \in Callers \ {c} : caller'[d] = caller[d]
    BY <2>1, <1>1 DEF IdempotencyTypeOK, NoClaim
  <2>3. claim[k].status = "none" /\ claim[k].closedBy = "none" /\ effect[k] = 0 /\ answer[k] = {}
    BY <1>1, <1>2 DEF IsNew, OpenKeys
  <2>4. \A d \in Callers : Works(d) => caller[d].key # k BY <2>3 DEF WorkInProgress
  <2>5. IdempotencyTypeOK'
    <3>1. [NoClaim EXCEPT !.status = "processing"] \in ClaimRow BY DEF NoClaim, ClaimRow
    <3>2. claim' \in [CommandKeys -> ClaimRow]
      BY <2>1, <3>1 DEF IdempotencyTypeOK, ClaimRow
    <3>3. [caller[c] EXCEPT !.pc = "running"] \in CallerRow
      BY DEF IdempotencyTypeOK, CallerRow
    <3>4. caller' = [caller EXCEPT ![c] = [caller[c] EXCEPT !.pc = "running"]]
      BY <2>1 DEF IdempotencyTypeOK
    <3>5. caller' \in [Callers -> CallerRow]
      BY <3>3, <3>4 DEF IdempotencyTypeOK, CallerRow
    <3>6. effect' \in [CommandKeys -> Nat]
          /\ answer' \in [CommandKeys -> SUBSET {"succeeded", "failed"}]
      BY <1>1, <2>1 DEF IdempotencyTypeOK
    <3>7. QED BY <3>2, <3>5, <3>6 DEF IdempotencyTypeOK, ClaimRow, CallerRow
  <2>6. OpenKeys' BY <1>1, <2>1, <2>2, <2>3 DEF OpenKeys
  <2>7. WorkInProgress' BY <1>1, <2>2, <2>3, <2>4 DEF WorkInProgress, Works
  <2>8. OneWorker' BY <2>2, <2>4 DEF OneWorker, Works
  <2>9. CommandRunsOnce' BY <1>1, <2>1, <2>2, <2>3 DEF CommandRunsOnce
  <2>10. QED BY <2>5, <2>6, <2>7, <2>8, <2>9
<1>3. CASE ~IsNew(k)
  <2>1. caller' = [caller EXCEPT ![c] = IdleCaller]
    BY <1>3 DEF ClaimKey, Returns, Replies
  <2>2. caller'[c] = IdleCaller /\ \A d \in Callers \ {c} : caller'[d] = caller[d]
    BY <2>1 DEF IdempotencyTypeOK
  <2>3. CASE claim[k].status = "processing" /\ claim[k].expired
    <3>1. /\ claim' = [claim EXCEPT ![k].status = "failed", ![k].closedBy = "reconciliation"]
          /\ answer' = [answer EXCEPT ![k] = @ \cup {"failed"}]
      BY <1>3, <2>3 DEF ClaimKey, Close, Replies
    <3>2. /\ claim'[k].status = "failed" /\ claim'[k].closedBy = "reconciliation"
          /\ answer'[k] = {"failed"}
          /\ \A j \in CommandKeys \ {k} : claim'[j] = claim[j] /\ answer'[j] = answer[j]
      <4>1. answer[k] = {} BY <1>1, <2>3 DEF OpenKeys
      <4>2. QED BY <1>1, <3>1, <4>1 DEF IdempotencyTypeOK
    <3>3. claim[k].closedBy = "none" BY <1>1, <2>3 DEF OpenKeys
    <3>4. IdempotencyTypeOK'
      <4>1. effect' \in [CommandKeys -> Nat] BY <1>1 DEF IdempotencyTypeOK
      <4>2. IdempotencyTypeOK OBVIOUS
      <4> HIDE DEF k, OnceInv
      <4>3. QED BY <1>1, <2>1, <3>1, <4>1, <4>2, KeyClosed
    <3>5. OpenKeys' BY <1>1, <3>2 DEF OpenKeys
    <3>6. WorkInProgress' /\ OneWorker' BY <1>1, <2>2, <3>2, StoppedWorking
    <3>7. CommandRunsOnce' BY <1>1, <3>2, <3>3 DEF CommandRunsOnce
    <3>8. QED BY <3>4, <3>5, <3>6, <3>7
  <2>4. CASE ~(claim[k].status = "processing" /\ claim[k].expired)
    <3>1. /\ UNCHANGED claim
          /\ answer' = answer \/ (/\ claim[k].status \in {"succeeded", "failed"}
                                  /\ answer' = [answer EXCEPT ![k] = @ \cup {claim[k].status}])
      BY <1>1, <1>3, <2>4 DEF ClaimKey, Replies, IsNew, IdempotencyTypeOK
    <3>2. \A j \in CommandKeys : \/ answer'[j] = answer[j]
                                 \/ /\ claim[j].status \in {"succeeded", "failed"}
                                    /\ answer'[j] = answer[j] \cup {claim[j].status}
      BY <1>1, <3>1 DEF IdempotencyTypeOK
    <3>3. IdempotencyTypeOK' BY <1>1, <2>1, <3>1 DEF IdempotencyTypeOK, IdleCaller
    <3>4. OpenKeys' BY <1>1, <3>1, <3>2 DEF OpenKeys
    <3>5. WorkInProgress' /\ OneWorker' BY <1>1, <2>2, <3>1, StoppedWorking
    <3>6. CommandRunsOnce' BY <1>1, <3>1, <3>2 DEF CommandRunsOnce
    <3>7. QED BY <3>3, <3>4, <3>5, <3>6
  <2>5. QED BY <2>3, <2>4
<1>4. QED BY <1>2, <1>3

\* The external call is made once: its caller is the only one that works for the key.
LEMMA OnceCalls ==
  ASSUME OnceInv, NEW c \in Callers, CallOut(c)
  PROVE  OnceInv'
<1> DEFINE k == caller[c].key
<1> USE DEF OnceInv
<1>1. /\ k \in CommandKeys /\ k \in External /\ effect[k] = 0 /\ Works(c)
      /\ claim[k].status # "none" /\ claim[k].closedBy # "command"
  BY DEF CallOut, WorkInProgress, Works
<1>2. /\ UNCHANGED <<claim, answer>>
      /\ effect' = [effect EXCEPT ![k] = @ + 1]
      /\ caller' \in {[caller EXCEPT ![c].pc = "called"], [caller EXCEPT ![c] = IdleCaller]}
  BY DEF CallOut, Advance, Returns
<1>3. /\ effect'[k] = 1 /\ \A j \in CommandKeys \ {k} : effect'[j] = effect[j]
      /\ caller'[c] = IdleCaller \/ (caller'[c].pc = "called" /\ caller'[c].key = k)
      /\ \A d \in Callers \ {c} : caller'[d] = caller[d]
  BY <1>1, <1>2 DEF IdempotencyTypeOK
<1>4. \A d \in Callers \ {c} : Works(d) => caller[d].key # k BY <1>1 DEF OneWorker
<1>5. IdempotencyTypeOK' BY <1>1, <1>2 DEF IdempotencyTypeOK, IdleCaller
<1>6. OpenKeys' BY <1>1, <1>2, <1>3 DEF OpenKeys
<1>7. WorkInProgress'
  <2> SUFFICES ASSUME NEW d \in Callers
      PROVE  /\ caller'[d].pc # "idle" => caller'[d].key \in CommandKeys
             /\ Works(d)' => /\ claim'[caller'[d].key].status # "none"
                             /\ claim'[caller'[d].key].closedBy # "command"
             /\ caller'[d].pc = "running" => effect'[caller'[d].key] = 0
             /\ caller'[d].pc = "called" =>
                  caller'[d].key \in External /\ effect'[caller'[d].key] = 1
    BY DEF WorkInProgress
  <2>1. CASE d = c BY <1>1, <1>2, <1>3, <2>1 DEF Works, IdleCaller
  <2>2. CASE d # c
    <3>1. caller'[d] = caller[d] BY <1>3, <2>2
    <3>2. caller[d].pc # "idle" => caller[d].key \in CommandKeys BY DEF WorkInProgress
    <3>3. Works(d) => effect'[caller[d].key] = effect[caller[d].key]
      BY <1>3, <1>4, <2>2, <3>2 DEF Works
    <3>4. QED BY <1>2, <3>1, <3>3 DEF WorkInProgress, Works
  <2>3. QED BY <2>1, <2>2
<1>8. OneWorker' BY <1>3, <1>4 DEF OneWorker, Works, IdleCaller
<1>9. CommandRunsOnce' BY <1>1, <1>2, <1>3 DEF CommandRunsOnce
<1>10. QED BY <1>5, <1>6, <1>7, <1>8, <1>9

\* Only the caller that works for a key completes it, and only while it is in progress.
LEMMA OnceCompletes ==
  ASSUME OnceInv, NEW c \in Callers, NEW status \in {"succeeded", "failed"},
         CompleteClaim(c, status)
  PROVE  OnceInv'
<1> DEFINE k == caller[c].key
<1> USE DEF OnceInv
<1>1. /\ k \in CommandKeys /\ Works(c)
      /\ caller' = [caller EXCEPT ![c] = IdleCaller]
      /\ k \notin External => effect[k] = 0
      /\ k \in External => effect[k] = 1
  BY DEF CompleteClaim, WorkInProgress, Works, Returns, Replies
<1>2. caller'[c] = IdleCaller /\ \A d \in Callers \ {c} : caller'[d] = caller[d]
  BY <1>1 DEF IdempotencyTypeOK
<1>3. \A d \in Callers \ {c} : Works(d) => caller[d].key # k BY <1>1 DEF OneWorker
<1>4. CASE claim[k].status = "processing"
  <2>1. /\ claim' = [claim EXCEPT ![k].status = status, ![k].closedBy = "command"]
        /\ answer' = [answer EXCEPT ![k] = @ \cup {status}]
        /\ effect' = IF k \in External THEN effect ELSE [effect EXCEPT ![k] = @ + 1]
    BY <1>4 DEF CompleteClaim, Close, Replies
  <2>2. /\ claim'[k].status = status /\ claim'[k].closedBy = "command"
        /\ answer'[k] = {status} /\ effect'[k] = 1
        /\ \A j \in CommandKeys \ {k} :
             claim'[j] = claim[j] /\ answer'[j] = answer[j] /\ effect'[j] = effect[j]
    <3>1. answer[k] = {} BY <1>1, <1>4 DEF OpenKeys
    <3>2. /\ claim'[k].status = status /\ claim'[k].closedBy = "command"
          /\ answer'[k] = {status}
          /\ \A j \in CommandKeys \ {k} : claim'[j] = claim[j] /\ answer'[j] = answer[j]
      BY <1>1, <2>1, <3>1 DEF IdempotencyTypeOK
    <3>3. effect'[k] = 1 /\ \A j \in CommandKeys \ {k} : effect'[j] = effect[j]
      BY <1>1, <2>1 DEF IdempotencyTypeOK
    <3>4. QED BY <3>2, <3>3
  <2>3. IdempotencyTypeOK'
    <3>1. effect[k] \in Nat BY <1>1 DEF IdempotencyTypeOK
    <3>2. effect' \in [CommandKeys -> Nat] BY <1>1, <2>1, <3>1 DEF IdempotencyTypeOK
    <3>3. QED BY <1>1, <2>1, <3>2, KeyClosed
  <2>4. OpenKeys' BY <1>1, <2>2 DEF OpenKeys
  <2>5. WorkInProgress' BY <1>2, <1>3, <2>2 DEF WorkInProgress, Works, IdleCaller
  <2>6. OneWorker' BY <1>2 DEF OneWorker, Works, IdleCaller
  <2>7. CommandRunsOnce' BY <1>1, <2>2 DEF CommandRunsOnce
  <2>8. QED BY <2>3, <2>4, <2>5, <2>6, <2>7
<1>5. CASE claim[k].status # "processing"
  <2>1. UNCHANGED <<claim, effect, answer>> BY <1>5 DEF CompleteClaim
  <2>2. IdempotencyTypeOK' BY <1>1, <2>1 DEF IdempotencyTypeOK, IdleCaller
  <2>3. WorkInProgress' /\ OneWorker'
    BY <1>2, <2>1 DEF WorkInProgress, OneWorker, Works, IdleCaller
  <2>4. QED BY <2>1, <2>2, <2>3 DEF OpenKeys, CommandRunsOnce
<1>6. QED BY <1>4, <1>5

\* Expiry alone changes nothing that the property is about.
LEMMA OnceExpires ==
  ASSUME OnceInv, NEW k \in CommandKeys, ClaimExpires(k)
  PROVE  OnceInv'
<1> USE DEF OnceInv
<1>1. /\ UNCHANGED <<caller, effect, answer>>
      /\ claim' = [claim EXCEPT ![k].expired = TRUE]
  BY DEF ClaimExpires
<1>2. \A j \in CommandKeys : claim'[j].status = claim[j].status
                             /\ claim'[j].closedBy = claim[j].closedBy
  BY <1>1 DEF IdempotencyTypeOK
<1>3. IdempotencyTypeOK'
  <2>1. [claim[k] EXCEPT !.expired = TRUE] \in ClaimRow BY DEF IdempotencyTypeOK, ClaimRow
  <2>2. claim' = [claim EXCEPT ![k] = [claim[k] EXCEPT !.expired = TRUE]]
    BY <1>1 DEF IdempotencyTypeOK
  <2>3. claim' \in [CommandKeys -> ClaimRow] BY <2>1, <2>2 DEF IdempotencyTypeOK, ClaimRow
  <2>4. QED BY <1>1, <2>3 DEF IdempotencyTypeOK, ClaimRow
<1>4. OpenKeys' BY <1>1, <1>2 DEF OpenKeys
<1>5. WorkInProgress' /\ OneWorker' BY <1>1, <1>2 DEF WorkInProgress, OneWorker, Works
<1>6. CommandRunsOnce' BY <1>1, <1>2 DEF CommandRunsOnce
<1>7. QED BY <1>3, <1>4, <1>5, <1>6

\* Every step of the maintenance commands.
LEMMA OnceStep == OnceInv /\ [IdempotencyNext]_idempotencyVars => OnceInv'
<1> SUFFICES ASSUME OnceInv, [IdempotencyNext]_idempotencyVars PROVE OnceInv' OBVIOUS
<1>1. CASE IdempotencyNext
  BY <1>1, OnceIdle, OnceClaims, OnceCalls, OnceCompletes, OnceExpires DEF IdempotencyNext
<1>2. CASE UNCHANGED idempotencyVars
  BY <1>2 DEF idempotencyVars, OnceInv, IdempotencyTypeOK, OpenKeys, WorkInProgress, OneWorker,
              Works, CommandRunsOnce
<1>3. QED BY <1>1, <1>2

\* A maintenance command takes effect at most once under its key and every answer is the recorded
\* one, whoever repeats it or answers late (runMaintenanceIdempotentCommand and ...ExternalCommand).
THEOREM CommandAlwaysRunsOnce == IdempotencySpec => []CommandRunsOnce
<1>1. OnceInv => CommandRunsOnce BY DEF OnceInv
<1>2. QED BY <1>1, OnceInit, OnceStep, PTL DEF IdempotencySpec

\* The rows and requests of maintenance commands stay well typed.
THEOREM IdempotencyTypes == IdempotencySpec => []IdempotencyTypeOK
<1>1. OnceInv => IdempotencyTypeOK BY DEF OnceInv
<1>2. QED BY <1>1, OnceInit, OnceStep, PTL DEF IdempotencySpec

-----------------------------------------------------------------------------
(* Configuration *)

\* A reviewed version exists, passed its test, and was reviewed by another than its author.
ReviewedRows ==
  \A v \in Versions : version[v].decision # "none" =>
    version[v].test = "passed" /\ version[v].creator # NoEditor
    /\ version[v].reviewer \notin {version[v].creator, NoEditor}

ConfigurationInv ==
  ConfigurationTypeOK /\ ReviewedRows /\ OnlyReviewedInForce /\ ActivationsChain

\* What the type says of the list of activations.
LEMMA ConfigurationShape ==
  ASSUME ConfigurationTypeOK
  PROVE  /\ Len(activations) \in Nat /\ DOMAIN activations = 1 .. Len(activations)
         /\ \A n \in DOMAIN activations : activations[n].version \in Versions
         /\ activations = <<>> <=> Len(activations) = 0
<1> DEFINE Row == [version : Versions, previous : Versions \cup {NoVersion},
                   action : {"activate", "rollback"}, actor : Editors \cup {Worker}]
<1>1. activations \in Seq(Row) BY DEF ConfigurationTypeOK
<1>2. ASSUME NEW n \in 1 .. Len(activations) PROVE activations[n].version \in Versions
  <2>1. activations[n] \in Row BY <1>1, ElementOfSeq
  <2>2. QED BY <2>1
<1> HIDE DEF Row
<1>3. QED BY <1>1, <1>2, EmptySeq

\* No version exists and none is in force at the start.
LEMMA ConfigurationInvInit == ConfigurationInit => ConfigurationInv
<1> SUFFICES ASSUME ConfigurationInit PROVE ConfigurationInv OBVIOUS
<1> USE ConfigurationConstants DEF ConfigurationConstants, ConfigurationInit, NewVersion, Unscheduled
<1>1. ConfigurationTypeOK BY DEF ConfigurationTypeOK
<1>2. ReviewedRows BY DEF ReviewedRows
<1>3. DOMAIN activations = {} BY <1>1, ConfigurationShape
<1>4. QED BY <1>1, <1>2, <1>3 DEF ConfigurationInv, OnlyReviewedInForce, ActivationsChain

\* A step on one version that no review covers yet disturbs nothing that is in force.
LEMMA PreparedVersion ==
  ASSUME ConfigurationInv, UNCHANGED <<activations, time, batch>>, NEW v \in Versions,
         NEW row \in [creator : Editors \cup {NoEditor}, test : {"none", "passed", "failed"},
                      decision : {"none", "approve", "reject"},
                      reviewer : Editors \cup {NoEditor}, due : 0 .. Unscheduled],
         version' = [version EXCEPT ![v] = row],
         row.decision # "none" =>
           row.test = "passed" /\ row.creator # NoEditor /\ row.reviewer \notin {row.creator, NoEditor},
         version[v].decision # "none" => row = [version[v] EXCEPT !.due = row.due]
  PROVE  ConfigurationInv'
<1>1. /\ version'[v] = row /\ \A u \in Versions \ {v} : version'[u] = version[u]
      /\ ConfigurationTypeOK'
  BY DEF ConfigurationInv, ConfigurationTypeOK
<1>2. ReviewedRows' BY <1>1 DEF ConfigurationInv, ReviewedRows
<1>3. ActivationsChain' BY DEF ConfigurationInv, ActivationsChain
<1>4. OnlyReviewedInForce'
  <2> SUFFICES ASSUME NEW n \in DOMAIN activations
               PROVE  LET x == version'[activations[n].version]
                      IN x.test = "passed" /\ x.decision = "approve"
                         /\ x.reviewer \notin {x.creator, NoEditor}
    BY DEF OnlyReviewedInForce
  <2>1. activations[n].version \in Versions BY ConfigurationShape DEF ConfigurationInv
  <2>2. LET x == version[activations[n].version]
        IN x.test = "passed" /\ x.decision = "approve" /\ x.reviewer \notin {x.creator, NoEditor}
    BY DEF ConfigurationInv, OnlyReviewedInForce
  <2>3. CASE activations[n].version = v
    <3>1. version[v].decision = "approve" BY <2>2, <2>3
    <3>2. row = [version[v] EXCEPT !.due = row.due] BY <3>1
    <3>3. version[v] \in [creator : Editors \cup {NoEditor}, test : {"none", "passed", "failed"},
                          decision : {"none", "approve", "reject"},
                          reviewer : Editors \cup {NoEditor}, due : 0 .. Unscheduled]
      BY DEF ConfigurationInv, ConfigurationTypeOK
    <3>4. row.test = version[v].test /\ row.decision = version[v].decision
          /\ row.reviewer = version[v].reviewer /\ row.creator = version[v].creator
      BY <3>2, <3>3
    <3>5. QED BY <1>1, <2>2, <2>3, <3>4
  <2>4. CASE activations[n].version # v BY <1>1, <2>1, <2>2, <2>4
  <2>5. QED BY <2>3, <2>4
<1>5. QED BY <1>1, <1>2, <1>3, <1>4 DEF ConfigurationInv

\* An activation that replaces what is in force by something else, by the worker only if it
\* never was, by a rollback only if it was, keeps the chain.
LEMMA Recorded ==
  ASSUME ConfigurationInv, NEW v \in Versions, NEW action \in {"activate", "rollback"},
         NEW actor \in Editors \cup {Worker}, Record(v, action, actor), batch' \subseteq Versions,
         Approved(v), Current # v,
         actor = Worker => ~WasActivated(v), action = "rollback" => WasActivated(v)
  PROVE  ConfigurationInv'
<1> DEFINE n == Len(activations)
           row == [version |-> v, previous |-> Current, action |-> action, actor |-> actor]
<1>1. /\ ConfigurationTypeOK
      /\ n \in Nat /\ DOMAIN activations = 1 .. n
      /\ \A m \in 1 .. n : activations[m].version \in Versions
      /\ activations = <<>> <=> n = 0
  BY ConfigurationShape DEF ConfigurationInv
<1>2. Current = IF n = 0 THEN NoVersion ELSE activations[n].version BY <1>1 DEF Current
<1>3. row \in [version : Versions, previous : Versions \cup {NoVersion},
               action : {"activate", "rollback"}, actor : Editors \cup {Worker}]
  BY <1>1, <1>2
<1>4. /\ row.version = v /\ row.previous = Current /\ row.action = action /\ row.actor = actor
      /\ activations' = Append(activations, row) /\ UNCHANGED <<time, version>>
  BY DEF Record
<1> HIDE DEF row
<1>5. /\ activations' \in Seq([version : Versions, previous : Versions \cup {NoVersion},
                               action : {"activate", "rollback"}, actor : Editors \cup {Worker}])
      /\ DOMAIN activations' = 1 .. (n + 1) /\ activations'[n + 1] = row
      /\ \A m \in 1 .. n : activations'[m] = activations[m]
  BY <1>1, <1>3, <1>4, AppendProperties DEF ConfigurationTypeOK
<1>6. ConfigurationTypeOK' BY <1>1, <1>4, <1>5 DEF ConfigurationTypeOK
<1>7. ReviewedRows' BY <1>4 DEF ConfigurationInv, ReviewedRows
<1>8. OnlyReviewedInForce'
  <2>1. version[v].test = "passed" /\ version[v].decision = "approve"
        /\ version[v].reviewer \notin {version[v].creator, NoEditor}
    BY DEF Approved, ConfigurationInv, ReviewedRows
  <2>2. ASSUME NEW m \in 1 .. n + 1
        PROVE  LET x == version[activations'[m].version]
               IN x.test = "passed" /\ x.decision = "approve"
                  /\ x.reviewer \notin {x.creator, NoEditor}
    <3>1. CASE m = n + 1 BY <1>4, <1>5, <2>1, <3>1
    <3>2. CASE m \in 1 .. n BY <1>1, <1>5, <3>2 DEF ConfigurationInv, OnlyReviewedInForce
    <3>3. n \in Nat BY <1>1
    <3> HIDE DEF n
    <3>4. QED BY <3>1, <3>2, <3>3
  <2>3. QED BY <1>4, <1>5, <2>2 DEF OnlyReviewedInForce
<1>9. ActivationsChain'
  <2>1. \A m \in 1 .. n :
          LET a == activations[m]
          IN /\ a.previous = IF m = 1 THEN NoVersion ELSE activations[m - 1].version
             /\ a.previous # a.version
             /\ a.actor = Worker => \A k \in 1 .. m - 1 : activations[k].version # a.version
             /\ a.action = "rollback" => \E k \in 1 .. m - 1 : activations[k].version = a.version
    BY <1>1 DEF ConfigurationInv, ActivationsChain
  <2>2. ASSUME NEW m \in 1 .. n + 1
        PROVE  LET a == activations'[m]
               IN /\ a.previous = IF m = 1 THEN NoVersion ELSE activations'[m - 1].version
                  /\ a.previous # a.version
                  /\ a.actor = Worker => \A k \in 1 .. m - 1 : activations'[k].version # a.version
                  /\ a.action = "rollback" => \E k \in 1 .. m - 1 : activations'[k].version = a.version
    <3>1. CASE m \in 1 .. n
      <4>1. \A k \in 1 .. m - 1 : k \in 1 .. n BY <1>1, <3>1
      <4>2. m # 1 => m - 1 \in 1 .. n BY <1>1, <3>1
      <4>3. /\ activations'[m] = activations[m]
            /\ \A k \in 1 .. m - 1 : activations'[k] = activations[k]
            /\ m # 1 => activations'[m - 1] = activations[m - 1]
        BY <1>5, <3>1, <4>1, <4>2
      <4>4. LET a == activations[m]
            IN /\ a.previous = IF m = 1 THEN NoVersion ELSE activations[m - 1].version
               /\ a.previous # a.version
               /\ a.actor = Worker => \A k \in 1 .. m - 1 : activations[k].version # a.version
               /\ a.action = "rollback" => \E k \in 1 .. m - 1 : activations[k].version = a.version
        BY <2>1, <3>1
      <4>5. QED BY <4>3, <4>4
    <3>2. CASE m = n + 1
      <4>1. activations'[m] = row /\ m - 1 = n BY <1>1, <1>5, <3>2
      <4>2. Current = IF m = 1 THEN NoVersion ELSE activations'[m - 1].version
        BY <1>1, <1>2, <1>5, <3>2
      <4>3. WasActivated(v) <=> \E k \in 1 .. n : activations'[k].version = v
        BY <1>1, <1>5 DEF WasActivated
      <4>4. QED BY <1>4, <4>1, <4>2, <4>3
    <3>3. QED BY <1>1, <3>1, <3>2
  <2>3. QED BY <1>5, <2>2 DEF ActivationsChain
<1>10. QED BY <1>6, <1>7, <1>8, <1>9 DEF ConfigurationInv

\* What was never activated is not in force.
LEMMA NeverInForce ==
  ASSUME ConfigurationTypeOK, NEW v \in Versions, ~WasActivated(v)
  PROVE  Current # v
<1>1. CASE activations = <<>> BY <1>1, ConfigurationConstants DEF ConfigurationConstants, Current
<1>2. CASE activations # <<>>
  <2>1. Len(activations) \in DOMAIN activations BY <1>2, ConfigurationShape
  <2>2. QED BY <1>2, <2>1 DEF Current, WasActivated
<1>3. QED BY <1>1, <1>2

\* Before its review a version may be tested as often as one likes, but not after.
LEMMA PreparationStep ==
  ASSUME ConfigurationInv, NEW v \in Versions,
         \/ \E e \in Editors :
              CreateVersion(v, e) \/ \E decision \in {"approve", "reject"} : Review(v, e, decision)
         \/ \E result \in {"passed", "failed"} : Test(v, result)
         \/ \E due \in 0 .. MaxTime : Schedule(v, due)
  PROVE  ConfigurationInv'
<1> USE ConfigurationConstants DEF ConfigurationConstants, OnlyVersion, Exists
<1>1. /\ version[v] \in [creator : Editors \cup {NoEditor}, test : {"none", "passed", "failed"},
                         decision : {"none", "approve", "reject"},
                         reviewer : Editors \cup {NoEditor}, due : 0 .. Unscheduled]
      /\ version[v].decision # "none" =>
           version[v].test = "passed" /\ version[v].creator # NoEditor
           /\ version[v].reviewer \notin {version[v].creator, NoEditor}
      /\ version \in [Versions -> [creator : Editors \cup {NoEditor}, test : {"none", "passed", "failed"},
                         decision : {"none", "approve", "reject"},
                         reviewer : Editors \cup {NoEditor}, due : 0 .. Unscheduled]]
  BY DEF ConfigurationInv, ConfigurationTypeOK, ReviewedRows
<1>2. ASSUME NEW e \in Editors, CreateVersion(v, e) PROVE ConfigurationInv'
  <2> DEFINE row == [version[v] EXCEPT !.creator = e]
  <2>1. version' = [version EXCEPT ![v] = row] BY <1>1, <1>2 DEF CreateVersion
  <2>2. row.decision = "none" BY <1>1, <1>2 DEF CreateVersion
  <2>3. row \in [creator : Editors \cup {NoEditor}, test : {"none", "passed", "failed"},
                 decision : {"none", "approve", "reject"},
                 reviewer : Editors \cup {NoEditor}, due : 0 .. Unscheduled]
    BY <1>1
  <2>4. version[v].decision = "none" BY <1>1, <1>2 DEF CreateVersion
  <2>5. UNCHANGED <<activations, time, batch>> BY <1>2 DEF CreateVersion
  <2> HIDE DEF row
  <2>6. QED BY <2>1, <2>2, <2>3, <2>4, <2>5, PreparedVersion
<1>3. ASSUME NEW e \in Editors, NEW decision \in {"approve", "reject"}, Review(v, e, decision)
      PROVE  ConfigurationInv'
  <2> DEFINE row == [version[v] EXCEPT !.decision = decision, !.reviewer = e]
  <2>1. version' = [version EXCEPT ![v] = row] BY <1>1, <1>3 DEF Review
  <2>2. row.test = "passed" /\ row.creator # NoEditor /\ row.reviewer \notin {row.creator, NoEditor}
    BY <1>1, <1>3 DEF Review
  <2>3. row \in [creator : Editors \cup {NoEditor}, test : {"none", "passed", "failed"},
                 decision : {"none", "approve", "reject"},
                 reviewer : Editors \cup {NoEditor}, due : 0 .. Unscheduled]
    BY <1>1
  <2>4. version[v].decision = "none" BY <1>3 DEF Review
  <2>5. UNCHANGED <<activations, time, batch>> BY <1>3 DEF Review
  <2> HIDE DEF row
  <2>6. QED BY <2>1, <2>2, <2>3, <2>4, <2>5, PreparedVersion
<1>4. ASSUME NEW result \in {"passed", "failed"}, Test(v, result) PROVE ConfigurationInv'
  <2> DEFINE row == [version[v] EXCEPT !.test = result]
  <2>1. version' = [version EXCEPT ![v] = row] BY <1>1, <1>4 DEF Test
  <2>2. row.decision = "none" /\ version[v].decision = "none" BY <1>1, <1>4 DEF Test, Testable
  <2>3. row \in [creator : Editors \cup {NoEditor}, test : {"none", "passed", "failed"},
                 decision : {"none", "approve", "reject"},
                 reviewer : Editors \cup {NoEditor}, due : 0 .. Unscheduled]
    BY <1>1
  <2>4. UNCHANGED <<activations, time, batch>> BY <1>4 DEF Test
  <2> HIDE DEF row
  <2>5. QED BY <2>1, <2>2, <2>3, <2>4, PreparedVersion
<1>5. ASSUME NEW due \in 0 .. MaxTime, Schedule(v, due) PROVE ConfigurationInv'
  <2> DEFINE row == [version[v] EXCEPT !.due = due]
  <2>1. version' = [version EXCEPT ![v] = row] BY <1>1, <1>5 DEF Schedule
  <2>2. due \in 0 .. Unscheduled BY DEF Unscheduled
  <2>3. row \in [creator : Editors \cup {NoEditor}, test : {"none", "passed", "failed"},
                 decision : {"none", "approve", "reject"},
                 reviewer : Editors \cup {NoEditor}, due : 0 .. Unscheduled]
    BY <1>1, <2>2
  <2>4. /\ row = [version[v] EXCEPT !.due = row.due]
        /\ row.decision = version[v].decision /\ row.test = version[v].test
        /\ row.creator = version[v].creator /\ row.reviewer = version[v].reviewer
    BY <1>1
  <2>5. UNCHANGED <<activations, time, batch>> BY <1>5 DEF Schedule
  <2> HIDE DEF row
  <2>6. QED BY <1>1, <2>1, <2>3, <2>4, <2>5, PreparedVersion
<1>6. QED BY <1>2, <1>3, <1>4, <1>5

\* Whatever puts a version in force.
LEMMA ActivationStep ==
  ASSUME ConfigurationInv, NEW v \in Versions,
         ProcessDue(v) \/ \E e \in Editors : ActivateByHand(v, e) \/ Rollback(v, e)
  PROVE  ConfigurationInv'
<1>1. ConfigurationTypeOK /\ batch \subseteq Versions
  BY DEF ConfigurationInv, ConfigurationTypeOK
<1>2. ASSUME NEW e \in Editors, ActivateByHand(v, e) PROVE ConfigurationInv'
  <2>1. e # Worker BY ConfigurationConstants DEF ConfigurationConstants
  <2>2. QED BY <1>1, <1>2, <2>1, Recorded DEF ActivateByHand
<1>3. ASSUME NEW e \in Editors, Rollback(v, e) PROVE ConfigurationInv'
  <2>1. e # Worker BY ConfigurationConstants DEF ConfigurationConstants
  <2>2. QED BY <1>1, <1>3, <2>1, Recorded DEF Rollback
<1>4. CASE ProcessDue(v)
  <2>1. batch' \subseteq Versions BY <1>1, <1>4 DEF ProcessDue
  <2>2. CASE WorkerMayActivate(v) /\ Record(v, "activate", Worker)
    <3>1. Approved(v) /\ ~WasActivated(v) BY <2>2 DEF WorkerMayActivate
    <3>2. Current # v BY <1>1, <3>1, NeverInForce
    <3>3. QED BY <2>1, <2>2, <3>1, <3>2, Recorded
  <2>3. CASE UNCHANGED <<time, version, activations>>
    BY <2>1, <2>3 DEF ConfigurationInv, ConfigurationTypeOK, ReviewedRows, OnlyReviewedInForce,
                      ActivationsChain
  <2>4. QED BY <1>4, <2>2, <2>3 DEF ProcessDue
<1>5. QED BY <1>2, <1>3, <1>4

\* Every step of the configuration.
LEMMA ConfigurationInvStep ==
  ConfigurationInv /\ [ConfigurationNext]_configurationVars => ConfigurationInv'
<1> SUFFICES ASSUME ConfigurationInv, [ConfigurationNext]_configurationVars PROVE ConfigurationInv'
  OBVIOUS
<1>1. CASE UNCHANGED <<version, activations>> /\ ConfigurationTypeOK'
  BY <1>1 DEF ConfigurationInv, ReviewedRows, OnlyReviewedInForce, ActivationsChain
<1>2. CASE Scan \/ WorkerDies \/ TimePasses
  <2>1. ConfigurationTypeOK'
    BY <1>2, ConfigurationConstants
    DEF ConfigurationConstants, ConfigurationInv, ConfigurationTypeOK, Scan, WorkerDies, TimePasses
  <2>2. QED BY <1>1, <1>2, <2>1 DEF Scan, WorkerDies, TimePasses
<1>3. CASE UNCHANGED configurationVars
  <2>1. ConfigurationTypeOK' BY <1>3 DEF configurationVars, ConfigurationInv, ConfigurationTypeOK
  <2>2. QED BY <1>1, <1>3, <2>1 DEF configurationVars
<1>4. ASSUME NEW v \in Versions, NEW e \in Editors,
             CreateVersion(v, e) \/ \E decision \in {"approve", "reject"} : Review(v, e, decision)
      PROVE  ConfigurationInv'
  BY <1>4, PreparationStep
<1>5. ASSUME NEW v \in Versions,
             \/ \E result \in {"passed", "failed"} : Test(v, result)
             \/ \E due \in 0 .. MaxTime : Schedule(v, due)
      PROVE  ConfigurationInv'
  BY <1>5, PreparationStep
<1>6. ASSUME NEW v \in Versions, NEW e \in Editors, ActivateByHand(v, e) \/ Rollback(v, e)
      PROVE  ConfigurationInv'
  BY <1>6, ActivationStep
<1>7. ASSUME NEW v \in Versions, ProcessDue(v) PROVE ConfigurationInv' BY <1>7, ActivationStep
<1>8. QED BY <1>2, <1>3, <1>4, <1>5, <1>6, <1>7 DEF ConfigurationNext

\* Whatever is or was in force was tested and reviewed by another person, and each activation,
\* by hand, by rollback or by the worker, follows the one before it (activateConfigurationVersion
\* and the activation worker's batch).
THEOREM ConfigurationAlwaysInForce == ConfigurationSpec => []ConfigurationInForce
<1>1. ConfigurationInv => ConfigurationInForce BY DEF ConfigurationInv, ConfigurationInForce
<1>2. QED BY <1>1, ConfigurationInvInit, ConfigurationInvStep, PTL DEF ConfigurationSpec

\* Versions, activations and the worker's batch stay well typed.
THEOREM ConfigurationTypes == ConfigurationSpec => []ConfigurationTypeOK
<1>1. ConfigurationInv => ConfigurationTypeOK BY DEF ConfigurationInv
<1>2. QED BY <1>1, ConfigurationInvInit, ConfigurationInvStep, PTL DEF ConfigurationSpec

-----------------------------------------------------------------------------
(* The whole *)

\* A step of the whole is a step of each component, or leaves it alone.
LEMMA EachTakesItsSteps ==
  ASSUME [OperationsNext]_operationsVars
  PROVE  /\ focus' = focus
         /\ [OutboxNext]_outboxVars /\ [DemoNext]_demoVars
         /\ [ConfigurationNext]_configurationVars /\ [IdempotencyNext]_idempotencyVars
         /\ [TargetNext]_targetVars /\ [QueueNext]_queueVars
BY DEF OperationsNext, operationsVars, ButOutbox, NoOutbox, NoDemoStep, NoConfiguration, NoCommand,
       NoRelease, NoQueue

\* Beside the others each component behaves as its own specification says, so whatever is proved
\* of one holds of the whole; the outbox alone has fairness, and only where it runs.
THEOREM EachPartIsItsOwn ==
  OperationsSpec =>
    /\ OutboxInit /\ [][OutboxNext]_outboxVars
    /\ DemoSpec /\ ConfigurationSpec /\ IdempotencySpec /\ TargetSpec /\ QueueSpec
<1>1. OperationsInit => /\ OutboxInit /\ DemoInit /\ ConfigurationInit /\ IdempotencyInit
                        /\ TargetInit /\ QueueInit
  BY DEF OperationsInit
<1>2. [OperationsNext]_operationsVars =>
        /\ [OutboxNext]_outboxVars /\ [DemoNext]_demoVars
        /\ [ConfigurationNext]_configurationVars /\ [IdempotencyNext]_idempotencyVars
        /\ [TargetNext]_targetVars /\ [QueueNext]_queueVars
  BY EachTakesItsSteps
<1>3. QED
  BY <1>1, <1>2, PTL
  DEF OperationsSpec, DemoSpec, ConfigurationSpec, IdempotencySpec, TargetSpec, QueueSpec

\* All six components keep their types together.
THEOREM OperationsTypes == OperationsSpec => []OperationsTypeOK
<1>1. OperationsSpec => [](focus \in Foci)
  <2>1. OperationsInit => focus \in Foci BY DEF OperationsInit
  <2>2. focus \in Foci /\ [OperationsNext]_operationsVars => (focus \in Foci)'
    BY EachTakesItsSteps
  <2>3. QED BY <2>1, <2>2, PTL DEF OperationsSpec
<1>2. OperationsSpec => []OutboxTypeOK
  <2>1. OutboxInv => OutboxTypeOK BY DEF OutboxInv
  <2>2. QED BY <2>1, EachPartIsItsOwn, OutboxInvInit, OutboxInvStep, PTL
<1>3. focus \in Foci /\ OutboxTypeOK /\ DemoTypeOK /\ ConfigurationTypeOK /\ IdempotencyTypeOK
      /\ TargetTypeOK /\ QueueTypeOK => OperationsTypeOK
  BY DEF OperationsTypeOK
<1>4. QED
  BY <1>1, <1>2, <1>3, EachPartIsItsOwn, DemoTypes, ConfigurationTypes, IdempotencyTypes,
     TargetTypes, QueueTypeCorrect, PTL

\* Each component's own invariant, and the queue's with the exemption of a cutover that a stop's
\* receipt hid (ReleaseCommands), hold of the whole.
THEOREM EachPartsPromise ==
  OperationsSpec =>
    [](/\ PurgedIsNeverQueued /\ OneTrackedOrder /\ ConfigurationInForce /\ CommandRunsOnce
       /\ StopFencesCutover /\ ReleasesInTurn /\ StatusTellsTheOutcome)
<1>1. OperationsSpec => []PurgedIsNeverQueued
  <2>1. OutboxInv => PurgedIsNeverQueued BY DEF OutboxInv
  <2>2. QED BY <2>1, EachPartIsItsOwn, OutboxInvInit, OutboxInvStep, PTL
<1>2. QED
  BY <1>1, EachPartIsItsOwn, OrderIsTracked, ConfigurationAlwaysInForce, CommandAlwaysRunsOnce,
     StopAlwaysFences, ReleasesAlwaysInTurn, StatusAlwaysTells, PTL
=============================================================================
