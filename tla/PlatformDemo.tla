----------------------------- MODULE PlatformDemo -----------------------------
(* Orders on the demo accounts of the exchanges: an intent per account, card  *)
(* and decision round, executed by workers under a lease with a fencing token.*)
(* After a doubtful placement the order is looked up by its client order id,  *)
(* never placed again.                                                        *)
(*                                                                            *)
(* The exchange is external: it takes an order, works on it, and may fail to  *)
(* answer any call. It is not assumed to refuse a second order with the same  *)
(* client order id.                                                           *)
EXTENDS Integers

CONSTANTS
  DemoIntents,  \* platform_demo_order_intents, by account, card and round
  Sells,        \* those that sell
  Executors,    \* platform demo workers
  MaxErrors,    \* errors in a row, or doubtful outcomes, that end an intent
  MaxTokens,    \* bound: leases of an intent
  NoIntent

ASSUME DemoConstants ==
  /\ Sells \subseteq DemoIntents /\ NoIntent \notin DemoIntents
  /\ MaxErrors \in Nat \ {0} /\ MaxTokens \in Nat

VARIABLES
  demo,      \* the intent row
  executor,  \* where a worker is with the intent it leased
  exchange,  \* the order at the exchange
  placed,    \* history: orders the exchange took for an intent
  garbled,   \* history: the exchange took an order and its answer could not be read
  enabled    \* account verified and neither it nor the card stopped

demoVars == <<demo, executor, exchange, placed, garbled, enabled>>

Waiting == {"pending", "retry_wait", "unknown", "reconcile_wait"}
Ended == {"filled", "cancelled", "failed", "quarantined"}
NoDemo == [status |-> "none", token |-> 0, lapsed |-> FALSE, order |-> FALSE,
           errors |-> 0, doubts |-> 0, fills |-> FALSE]
IdleExecutor == [pc |-> "idle", intent |-> NoIntent, token |-> 0, mayExist |-> FALSE,
                 seen |-> "none", error |-> "none"]

DemoRow ==
  [status : {"none", "running"} \cup Waiting \cup Ended, token : 0 .. MaxTokens, lapsed : BOOLEAN,
   order : BOOLEAN, errors : Nat, doubts : Nat, fills : BOOLEAN]
ExecutorRow ==
  [pc : {"idle", "leased", "placing", "querying", "found", "reading", "completing", "failing"},
   intent : DemoIntents \cup {NoIntent}, token : 0 .. MaxTokens, mayExist : BOOLEAN,
   seen : {"none", "open", "filled", "cancelled", "rejected"},
   error : {"none", "plain", "safety", "unknown", "reconcile", "conflict"}]

DemoTypeOK ==
  /\ demo \in [DemoIntents -> DemoRow]
  /\ executor \in [Executors -> ExecutorRow]
  /\ exchange \in [DemoIntents -> {"none", "open", "filled", "cut", "cancelled", "rejected"}]
  /\ placed \in [DemoIntents -> Nat]
  /\ garbled \subseteq DemoIntents
  /\ enabled \in BOOLEAN

DemoInit ==
  /\ demo = [i \in DemoIntents |-> NoDemo]
  /\ executor = [w \in Executors |-> IdleExecutor]
  /\ exchange = [i \in DemoIntents |-> "none"]
  /\ placed = [i \in DemoIntents |-> 0]
  /\ garbled = {}
  /\ enabled = TRUE

-----------------------------------------------------------------------------
(* Intents, stops and the exchange *)

\* The round's intents are queued after its cycle committed; the same round again changes nothing.
Queue(i) ==
  /\ enabled
  /\ demo[i].status = "none"
  /\ demo' = [demo EXCEPT ![i].status = "pending"]
  /\ UNCHANGED <<executor, exchange, placed, garbled, enabled>>

\* Kill switches, the account's switch, and verifications that pass, fail or grow old.
Toggle == enabled' = ~enabled /\ UNCHANGED <<demo, executor, exchange, placed, garbled>>

\* A cut order was cancelled with a part of it filled.
ExchangeWorks(i) ==
  /\ exchange[i] = "open"
  /\ \E status \in {"filled", "cut", "cancelled", "rejected"} :
       exchange' = [exchange EXCEPT ![i] = status]
  /\ UNCHANGED <<demo, executor, placed, garbled, enabled>>

-----------------------------------------------------------------------------
(* Leasing *)

\* Mutant: an intent whose worker was lost is taken over as if nothing had been sent.
MayExistIfWaited(i) == demo[i].order \/ demo[i].status \in {"unknown", "reconcile_wait"}

\* An order may exist at the exchange: it was seen, or the last worker left it in doubt.
MayExist(i) == demo[i].order \/ demo[i].status \in {"unknown", "reconcile_wait", "running"}

LeaseIntent(w, i) ==
  /\ executor[w].pc = "idle"
  /\ enabled
  /\ demo[i].status \in Waiting \/ (demo[i].status = "running" /\ demo[i].lapsed)
  /\ demo[i].token < MaxTokens
  /\ demo' = [demo EXCEPT ![i].status = "running", ![i].token = @ + 1, ![i].lapsed = FALSE]
  /\ executor' = [executor EXCEPT ![w] = [IdleExecutor EXCEPT
       !.pc = "leased", !.intent = i, !.token = demo[i].token + 1, !.mayExist = MayExist(i)]]
  /\ UNCHANGED <<exchange, placed, garbled, enabled>>

\* The heartbeat did not renew in time.
IntentLapses(i) ==
  /\ demo[i].status = "running"
  /\ ~demo[i].lapsed
  /\ demo' = [demo EXCEPT ![i].lapsed = TRUE]
  /\ UNCHANGED <<executor, exchange, placed, garbled, enabled>>

-----------------------------------------------------------------------------
(* Executing a leased intent *)

Continue(w, pc) == executor' = [executor EXCEPT ![w].pc = pc]
Failing(w, error) == executor' = [executor EXCEPT ![w].pc = "failing", ![w].error = error]
Found(w, i) ==
  executor' = [executor EXCEPT ![w].pc = "found", ![w].mayExist = TRUE,
                               ![w].seen = IF exchange[i] = "cut" THEN "cancelled" ELSE exchange[i]]
OnlyExecutor == UNCHANGED <<demo, exchange, placed, garbled, enabled>>

\* Stops are looked at once more, and the credentials are decrypted.
CheckEnabled(w) ==
  /\ executor[w].pc = "leased"
  /\ \/ enabled /\ Continue(w, IF executor[w].mayExist THEN "querying" ELSE "placing")
     \/ Failing(w, "plain")
  /\ OnlyExecutor

\* An order of the exchange that is placed and answered, or doubtful, or answered in a way that
\* cannot be read, which counts as not placed. A sell is never sent.
Place(w) ==
  LET i == executor[w].intent
      taken == /\ placed' = [placed EXCEPT ![i] = @ + 1]
               /\ exchange' = [exchange EXCEPT ![i] = "open"]
      notTaken == UNCHANGED <<placed, exchange>>
  IN /\ executor[w].pc = "placing"
     /\ UNCHANGED <<demo, enabled>>
     /\ IF i \in Sells
          THEN Failing(w, "safety") /\ notTaken /\ UNCHANGED garbled
          ELSE \/ /\ taken /\ UNCHANGED garbled
                  /\ \/ executor' = [executor EXCEPT ![w].pc = "found", ![w].mayExist = TRUE,
                                                     ![w].seen = "open"]
                     \/ Continue(w, "querying")
               \/ notTaken /\ UNCHANGED garbled /\ (Continue(w, "querying") \/ Failing(w, "plain"))
               \/ taken /\ garbled' = garbled \cup {i} /\ Failing(w, "plain")

\* The look-up finds the order, or does not, or gets no answer.
Query(w) ==
  LET i == executor[w].intent
  IN /\ executor[w].pc = "querying"
     /\ \/ exchange[i] # "none" /\ Found(w, i)
        \/ Failing(w, "unknown")
     /\ OnlyExecutor

Fenced(w) ==
  LET row == demo[executor[w].intent] IN row.status # "running" \/ row.token # executor[w].token

\* The row takes the exchange's order id, which is the same at every look-up.
Remember(w) ==
  /\ executor[w].pc = "found"
  /\ IF Fenced(w)
       THEN Failing(w, "conflict") /\ UNCHANGED demo
       ELSE Continue(w, "reading") /\ demo' = [demo EXCEPT ![executor[w].intent].order = TRUE]
  /\ UNCHANGED <<exchange, placed, garbled, enabled>>

\* The list of fills may lag behind the order.
ReadFills(w) ==
  LET i == executor[w].intent
      empty == IF executor[w].seen = "filled" THEN Failing(w, "conflict") ELSE Continue(w, "completing")
      some == /\ exchange[i] \in {"filled", "cut"}
              /\ executor' = [executor EXCEPT ![w].pc = "completing",
                   ![w].seen = IF @ = "filled" THEN "filled" ELSE "none"]
  IN /\ executor[w].pc = "reading"
     /\ (some \/ empty \/ Failing(w, "reconcile"))
     /\ OnlyExecutor

Leaves(w) == executor' = [executor EXCEPT ![w] = IdleExecutor]

\* seen = "none": partly filled, to be looked at again.
StatusOf(seen) ==
  CASE seen = "filled" -> "filled"
    [] seen = "cancelled" -> "cancelled"
    [] seen = "rejected" -> "failed"
    [] OTHER -> "reconcile_wait"

\* Status, receipt and fills are one commit.
CompleteIntent(w) ==
  LET i == executor[w].intent
  IN /\ executor[w].pc = "completing"
     /\ IF Fenced(w)
          THEN UNCHANGED demo
          ELSE demo' = [demo EXCEPT ![i].status = StatusOf(executor[w].seen),
                                    ![i].errors = 0, ![i].doubts = 0,
                                    ![i].fills = @ \/ executor[w].seen \in {"filled", "none"}]
     /\ Leaves(w)
     /\ UNCHANGED <<exchange, placed, garbled, enabled>>

Counts(error) == error \in {"unknown", "conflict"}

\* Doubts quarantine; a plain error is retried unless an order may exist; then it is looked up.
StatusAfterError(w) ==
  LET row == demo[executor[w].intent]
      error == executor[w].error
      reconciles == executor[w].mayExist \/ error \in {"reconcile", "conflict"}
  IN CASE Counts(error) /\ row.doubts + 1 >= MaxErrors -> "quarantined"
       [] error = "safety" -> "failed"
       [] ~reconciles /\ error = "plain" /\ row.errors + 1 >= MaxErrors -> "failed"
       [] error \in {"reconcile", "conflict"} -> "reconcile_wait"
       [] error = "unknown" -> "unknown"
       [] reconciles -> "reconcile_wait"
       [] OTHER -> "retry_wait"

FailIntent(w) ==
  LET i == executor[w].intent
  IN /\ executor[w].pc = "failing"
     /\ IF Fenced(w)
          THEN UNCHANGED demo
          ELSE demo' = [demo EXCEPT ![i].status = StatusAfterError(w),
                 ![i].errors = @ + 1,
                 ![i].doubts = IF Counts(executor[w].error) THEN @ + 1 ELSE @]
     /\ Leaves(w)
     /\ UNCHANGED <<exchange, placed, garbled, enabled>>

ExecutorCrash(w) == executor[w].pc # "idle" /\ Leaves(w) /\ OnlyExecutor

DemoNext ==
  \/ \E i \in DemoIntents : Queue(i) \/ ExchangeWorks(i) \/ IntentLapses(i)
  \/ Toggle
  \/ \E w \in Executors :
       \/ \E i \in DemoIntents : LeaseIntent(w, i)
       \/ CheckEnabled(w) \/ Place(w) \/ Query(w) \/ Remember(w) \/ ReadFills(w)
       \/ CompleteIntent(w) \/ FailIntent(w) \/ ExecutorCrash(w)

DemoSpec == DemoInit /\ [][DemoNext]_demoVars

-----------------------------------------------------------------------------
(* Properties *)

\* One intent is at most one order at the exchange, although workers are lost between placing and
\* recording, overlap, and retry; and no order is forgotten: an intent that is retried, cancelled
\* or failed has no order there that is open or filled, and a filled one has its fills recorded.
\* ("the state of the order is unknown, placing it again is forbidden")
OneTrackedOrder ==
  \A i \in DemoIntents \ garbled :
    /\ placed[i] <= 1
    /\ demo[i].status \in {"none", "pending", "retry_wait"} => exchange[i] = "none"
    /\ demo[i].status = "failed" => exchange[i] \in {"none", "rejected"}
    /\ demo[i].status = "cancelled" => exchange[i] \in {"cancelled", "cut"}
    /\ demo[i].status = "filled" => exchange[i] = "filled" /\ demo[i].fills
=============================================================================
