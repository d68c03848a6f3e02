-------------------------- MODULE NotificationOutbox --------------------------
(* The outbox of e-mail deliveries: workers claim a queued delivery under a   *)
(* lease, render it, ask the provider to send it and write the outcome; the   *)
(* provider's webhooks report what became of the message; a cleanup removes   *)
(* the secret (a code or a link) of what is finished or expired.              *)
(*                                                                            *)
(* Every delivery goes to the same recipient and carries a secret. The        *)
(* provider is external: it accepts a message once per delivery (its          *)
(* idempotency key), loses answers, and reports events in any order.          *)
EXTENDS Integers

CONSTANTS
  Deliveries,   \* rows of notification_deliveries
  Senders,      \* notification workers
  MaxAttempts,  \* NOTIFICATION_MAX_ATTEMPTS
  EventTimes,   \* bound: instants the provider's events carry
  NoSender, NoDelivery

ASSUME OutboxConstants ==
  /\ MaxAttempts \in Nat \ {0} /\ EventTimes \subseteq Nat
  /\ NoSender \notin Senders /\ NoDelivery \notin Deliveries

VARIABLES
  delivery,    \* the row: status, attempts, lease, when it is due, last event applied
  secret,      \* secret[d]: "kept", "expired" or "purged"
  sender,      \* where a worker is with the delivery it claimed
  accepted,    \* the provider accepted the message of a delivery
  reported,    \* reported[d]: events whose webhook was processed
  suppressed   \* the recipient is on the suppression list

outboxVars == <<delivery, secret, sender, accepted, reported, suppressed>>

Events == {"sent", "delivered", "bounced"}
Rank == [none |-> 0, sent |-> 1, delivered |-> 2, bounced |-> 3]
StatusAfter == [sent |-> "sent", delivered |-> "delivered", bounced |-> "failed"]
IdleSender == [pc |-> "idle", delivery |-> NoDelivery, attempts |-> 0]

DeliveryRow ==
  [status : {"queued", "sent", "delivered", "failed"}, attempts : 0 .. MaxAttempts,
   owner : Senders \cup {NoSender}, lease : {"none", "held", "lapsed"},
   due : {"now", "later", "night", "morning"}, event : Events \cup {"none"},
   eventAt : Nat]

OutboxTypeOK ==
  /\ delivery \in [Deliveries -> DeliveryRow]
  /\ secret \in [Deliveries -> {"kept", "expired", "purged"}]
  /\ sender \in [Senders -> [pc : {"idle", "claimed", "sending", "ok", "retry", "refused"},
                             delivery : Deliveries \cup {NoDelivery}, attempts : 0 .. MaxAttempts]]
  /\ accepted \subseteq Deliveries
  /\ reported \in [Deliveries -> SUBSET Events]
  /\ suppressed \in BOOLEAN

OutboxInit ==
  /\ delivery = [d \in Deliveries |-> [status |-> "queued", attempts |-> 0, owner |-> NoSender,
                                       lease |-> "none", due |-> "now", event |-> "none",
                                       eventAt |-> 0]]
  /\ secret = [d \in Deliveries |-> "kept"]
  /\ sender = [w \in Senders |-> IdleSender]
  /\ accepted = {}
  /\ reported = [d \in Deliveries |-> {}]
  /\ suppressed = FALSE

-----------------------------------------------------------------------------
(* Claiming *)

\* Mutant: a delivery whose worker died keeps its lease.
Unleased(d) == delivery[d].lease = "none"

Free(d) == delivery[d].lease # "held"

\* Mutant: the attempts are counted and never compared.
ClaimableForever(d) ==
  delivery[d].status = "queued" /\ delivery[d].due \in {"now", "morning"} /\ Free(d)

Claimable(d) ==
  /\ delivery[d].status = "queued"
  /\ delivery[d].attempts < MaxAttempts
  /\ delivery[d].due \in {"now", "morning"}
  /\ Free(d)

\* In the recipient's quiet hours the claim only moves the delivery to their end.
Postpone(d) ==
  /\ Claimable(d)
  /\ delivery[d].due = "now"
  /\ delivery' = [delivery EXCEPT ![d] = [delivery[d] EXCEPT !.due = "night", !.owner = NoSender,
                                                 !.lease = "none"]]
  /\ UNCHANGED <<secret, sender, accepted, reported, suppressed>>

ClaimDelivery(w, d) ==
  /\ sender[w].pc = "idle"
  /\ Claimable(d)
  /\ delivery' = [delivery EXCEPT ![d] = [delivery[d] EXCEPT !.owner = w, !.lease = "held",
                                                 !.attempts = @ + 1]]
  /\ sender' = [sender EXCEPT ![w] = [pc |-> "claimed", delivery |-> d,
                                      attempts |-> delivery[d].attempts + 1]]
  /\ UNCHANGED <<secret, accepted, reported, suppressed>>

-----------------------------------------------------------------------------
(* Processing a claimed delivery *)

To(w, pc) == sender' = [sender EXCEPT ![w].pc = pc]
Done(w) == sender' = [sender EXCEPT ![w] = IdleSender]

\* Expired secrets, suppressed recipients and whatever else cannot be rendered are refused;
\* the secret was read with the claim.
Prepare(w) ==
  /\ sender[w].pc = "claimed"
  /\ \/ To(w, "refused")
     \/ secret[sender[w].delivery] # "expired" /\ ~suppressed /\ To(w, "sending")
  /\ UNCHANGED <<delivery, secret, accepted, reported, suppressed>>

\* The provider takes the message and answers, or the answer is lost; or it does not take it,
\* for the time being or for good. A message taken before is taken again as the same one.
Send(w) ==
  LET d == sender[w].delivery
  IN /\ sender[w].pc = "sending"
     /\ \/ accepted' = accepted \cup {d} /\ (To(w, "ok") \/ To(w, "retry"))
        \/ UNCHANGED accepted /\ (To(w, "retry") \/ To(w, "refused"))
     /\ UNCHANGED <<delivery, secret, reported, suppressed>>

OwnsDelivery(w) == delivery[sender[w].delivery].owner = w

\* What the provider reported meanwhile is kept.
MarkSent(w) ==
  LET d == sender[w].delivery
  IN /\ sender[w].pc = "ok"
     /\ Done(w)
     /\ IF OwnsDelivery(w)
          THEN /\ delivery' = [delivery EXCEPT ![d] = [delivery[d] EXCEPT
                    !.status = IF @ \in {"delivered", "failed"} THEN @ ELSE "sent",
                    !.owner = NoSender, !.lease = "none"]]
               /\ secret' = [secret EXCEPT ![d] = "purged"]
          ELSE UNCHANGED <<delivery, secret>>
     /\ UNCHANGED <<accepted, reported, suppressed>>

Retries(w) == sender[w].pc = "retry" /\ sender[w].attempts < MaxAttempts

\* The failure is written over any status, also one that a webhook set meanwhile.
MarkFailed(w) ==
  LET d == sender[w].delivery
  IN /\ sender[w].pc \in {"retry", "refused"}
     /\ Done(w)
     /\ IF ~OwnsDelivery(w)
          THEN UNCHANGED <<delivery, secret>>
          ELSE /\ delivery' = [delivery EXCEPT ![d] = [delivery[d] EXCEPT
                    !.status = IF Retries(w) THEN "queued" ELSE "failed",
                    !.due = IF Retries(w) THEN "later" ELSE @,
                    !.owner = NoSender, !.lease = "none"]]
               /\ secret' = IF Retries(w) THEN secret ELSE [secret EXCEPT ![d] = "purged"]
     /\ UNCHANGED <<accepted, reported, suppressed>>

SenderStep(w) == Prepare(w) \/ Send(w) \/ MarkSent(w) \/ MarkFailed(w)

SenderCrash(w) ==
  /\ sender[w].pc # "idle"
  /\ Done(w)
  /\ UNCHANGED <<delivery, secret, accepted, reported, suppressed>>

-----------------------------------------------------------------------------
(* Time, cleanup and webhooks *)

LeaseLapses(d) ==
  /\ delivery[d].lease = "held"
  /\ delivery' = [delivery EXCEPT ![d].lease = "lapsed"]
  /\ UNCHANGED <<secret, sender, accepted, reported, suppressed>>

FallsDue(d) ==
  /\ delivery[d].due \in {"later", "night"}
  /\ delivery' = [delivery EXCEPT ![d].due = IF @ = "night" THEN "morning" ELSE "now"]
  /\ UNCHANGED <<secret, sender, accepted, reported, suppressed>>

SecretExpires(d) ==
  /\ secret[d] = "kept"
  /\ secret' = [secret EXCEPT ![d] = "expired"]
  /\ UNCHANGED <<delivery, sender, accepted, reported, suppressed>>

Purgeable(d) ==
  secret[d] # "purged" /\ (secret[d] = "expired" \/ delivery[d].status # "queued")

\* Mutant: the cleanup leaves the lease to the worker that holds it.
ClosedButLeased(row) ==
  [row EXCEPT !.status = IF @ = "queued" THEN "failed" ELSE @]

Closed(row) ==
  [row EXCEPT !.status = IF @ = "queued" THEN "failed" ELSE @,
              !.owner = NoSender, !.lease = "none"]

\* One statement over all rows.
Purge ==
  /\ \E d \in Deliveries : Purgeable(d)
  /\ delivery' = [d \in Deliveries |-> IF Purgeable(d) THEN Closed(delivery[d]) ELSE delivery[d]]
  /\ secret' = [d \in Deliveries |-> IF Purgeable(d) THEN "purged" ELSE secret[d]]
  /\ UNCHANGED <<sender, accepted, reported, suppressed>>

StatusAllows(status, event) ==
  /\ status = "failed" => StatusAfter[event] = "failed"
  /\ status = "delivered" => StatusAfter[event] # "sent"

\* The time the provider gives an event decides, the event's rank when the times are equal.
Supersedes(row, event, at) ==
  \/ row.event = "none"
  \/ at > row.eventAt
  \/ at = row.eventAt /\ Rank[event] > Rank[row.event]

\* An event is processed once and applied only if it supersedes the last one applied; a bounce
\* suppresses the recipient in any case.
Webhook(d, event, at) ==
  /\ d \in accepted
  /\ event \notin reported[d]
  /\ reported' = [reported EXCEPT ![d] = @ \cup {event}]
  /\ suppressed' = (suppressed \/ event = "bounced")
  /\ delivery' =
       IF StatusAllows(delivery[d].status, event) /\ Supersedes(delivery[d], event, at)
         THEN [delivery EXCEPT ![d] = [delivery[d] EXCEPT !.status = StatusAfter[event],
                                                        !.event = event, !.eventAt = at]]
         ELSE delivery
  /\ UNCHANGED <<secret, sender, accepted>>

OutboxNext ==
  \/ \E w \in Senders : SenderStep(w) \/ SenderCrash(w) \/ \E d \in Deliveries : ClaimDelivery(w, d)
  \/ \E d \in Deliveries :
       \/ Postpone(d) \/ LeaseLapses(d) \/ FallsDue(d) \/ SecretExpires(d)
       \/ \E event \in Events, at \in EventTimes : Webhook(d, event, at)
  \/ Purge

\* Workers poll and every call they make times out; leases and delays run out with time.
ClaimSomehow(d) == \E w \in Senders : ClaimDelivery(w, d)

OutboxFairness ==
  /\ \A w \in Senders : WF_outboxVars(SenderStep(w))
  /\ \A d \in Deliveries :
       WF_outboxVars(ClaimSomehow(d)) /\ WF_outboxVars(LeaseLapses(d)) /\ WF_outboxVars(FallsDue(d))

OutboxSpec == OutboxInit /\ [][OutboxNext]_outboxVars /\ OutboxFairness

-----------------------------------------------------------------------------
(* Properties *)

\* A delivery whose secret was purged is never queued again: a worker that held it through the
\* cleanup, a webhook or a lapsed lease cannot send anybody an e-mail without its code.
PurgedIsNeverQueued == \A d \in Deliveries : delivery[d].status = "queued" => secret[d] # "purged"

\* Every queued delivery is tried until it is sent or refused, or its attempts are used up,
\* through crashes of the workers, lost answers, delays and quiet hours.
EveryDeliveryTried ==
  \A d \in Deliveries :
    (delivery[d].status = "queued" /\ delivery[d].attempts < MaxAttempts)
      ~> (delivery[d].status # "queued" \/ delivery[d].attempts = MaxAttempts)
=============================================================================
