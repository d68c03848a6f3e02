------------------------------ MODULE Operations ------------------------------
(* The platform's own operation: the outbox of notifications, orders on the   *)
(* demo accounts, versioned configuration, maintenance commands, the queue of *)
(* releases and the release target. They share no state here: focus, fixed    *)
(* initially, lets one of them run in a behaviour, so that one instance       *)
(* checks each in full.                                                       *)
EXTENDS NotificationOutbox, PlatformDemo, VersionedConfiguration, MaintenanceIdempotency,
        ReleaseTarget, ReleaseCommands

VARIABLE focus

operationsVars == <<focus, outboxVars, demoVars, configurationVars, idempotencyVars, targetVars,
                     queueVars>>

Foci == {"outbox", "demo", "configuration", "commands", "release", "queue"}

OperationsInit ==
  /\ focus \in Foci
  /\ OutboxInit /\ DemoInit /\ ConfigurationInit /\ IdempotencyInit /\ TargetInit
  /\ QueueInit

NoOutbox == UNCHANGED outboxVars
NoDemoStep == UNCHANGED demoVars
NoConfiguration == UNCHANGED configurationVars
NoCommand == UNCHANGED idempotencyVars
NoRelease == UNCHANGED targetVars
NoQueue == UNCHANGED queueVars

ButOutbox == NoDemoStep /\ NoConfiguration /\ NoCommand /\ NoRelease /\ NoQueue

\* One intent is queued in a behaviour: intents share only the account's switch.
OneIntent ==
  \A i, j \in DemoIntents : demo'[i].status # "none" /\ demo'[j].status # "none" => i = j

OperationsNext ==
  /\ UNCHANGED focus
  /\ \/ focus = "outbox" /\ OutboxNext /\ ButOutbox
     \/ /\ focus = "demo" /\ DemoNext /\ OneIntent
        /\ NoOutbox /\ NoConfiguration /\ NoCommand /\ NoRelease /\ NoQueue
     \/ /\ focus = "configuration" /\ ConfigurationNext
        /\ NoOutbox /\ NoDemoStep /\ NoCommand /\ NoRelease /\ NoQueue
     \/ /\ focus = "commands" /\ IdempotencyNext
        /\ NoOutbox /\ NoDemoStep /\ NoConfiguration /\ NoRelease /\ NoQueue
     \/ /\ focus = "release" /\ TargetNext
        /\ NoOutbox /\ NoDemoStep /\ NoConfiguration /\ NoCommand /\ NoQueue
     \/ /\ focus = "queue" /\ QueueNext
        /\ NoOutbox /\ NoDemoStep /\ NoConfiguration /\ NoCommand /\ NoRelease

\* The fairness of NotificationOutbox, in the behaviours where it runs.
Ran(action) == focus = "outbox" /\ action /\ ButOutbox /\ UNCHANGED focus

OperationsFairness ==
  /\ \A w \in Senders : WF_operationsVars(Ran(SenderStep(w)))
  /\ \A d \in Deliveries :
       /\ WF_operationsVars(Ran(ClaimSomehow(d)))
       /\ WF_operationsVars(Ran(LeaseLapses(d)))
       /\ WF_operationsVars(Ran(FallsDue(d)))

OperationsSpec == OperationsInit /\ [][OperationsNext]_operationsVars /\ OperationsFairness

-----------------------------------------------------------------------------
(* Properties of the whole *)

\* One type invariant for the six components, each with its own.
OperationsTypeOK ==
  /\ focus \in Foci
  /\ OutboxTypeOK /\ DemoTypeOK /\ ConfigurationTypeOK /\ IdempotencyTypeOK /\ TargetTypeOK
  /\ QueueTypeOK

\* Where the outbox runs, every queued delivery is tried (lib/notification-email-worker.ts).
OutboxKeepsTrying == focus = "outbox" => EveryDeliveryTried
=============================================================================
