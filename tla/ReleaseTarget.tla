---------------------------- MODULE ReleaseTarget ----------------------------
(* The restricted release target: one operation that moves an environment to  *)
(* a new release, its durable journal, the emergency stop that competes with  *)
(* it for the environment mutex, and the recovery of both after a crash.      *)
(* Locks, journal and the pending stop are files and outlive the process.     *)
EXTENDS Naturals, Sequences

CONSTANT MaxCrashes

ASSUME TargetConstants == MaxCrashes \in Nat

VARIABLES
  journal,    \* phases of the operation's checkpoints, oldest first
  receipts,   \* phases whose signed receipts the platform accepted, oldest first
  authority,  \* the platform still backs the operation: unexpired, same generation, no stop
  running,    \* what the containers run: the old release, the new one, or some of each
  marker,     \* the active-release marker names the operation
  migrated,   \* the migration registry holds the release's migrations
  opLock,     \* the operation's lock directory
  envLock,    \* the environment mutex
  step,       \* where the operation's handler is
  backup,     \* the handler holds a backup
  pending,    \* a stop request is on file
  stop,       \* the target-local stop
  platform,   \* the platform's record of that stop
  stopStep,   \* where the stop's handler is
  crashes

requestVars == <<pending, stop, platform, stopStep>>
handlerVars == <<journal, receipts, running, marker, migrated, opLock, step, backup>>
targetVars == <<journal, receipts, authority, running, marker, migrated, opLock, envLock, step,
                backup, pending, stop, platform, stopStep, crashes>>

Terminal == {"failed_before_cutover", "uncertain_before_cutover", "health_verified",
             "health_failed_after_cutover", "uncertain_after_cutover", "stop_committed"}
Phases == Terminal \cup {"prepared", "applying", "cutover_intent_durable", "cutover_committed"}

\* A process that dies leaves its lock behind, with or without the file that names the owner.
Locks == {"free", "operation", "stop", "stale", "ownerless"}

UnderMutex == {"fence", "probe", "validate", "cutover", "marked", "publish_cutover"}
Steps == UnderMutex \cup {"idle", "load", "authority", "prepare", "migrate", "mutex",
                          "republish", "health", "publish"}

TargetTypeOK ==
  /\ journal \in Seq(Phases) /\ Len(journal) <= 5
  /\ receipts \in Seq(Phases) /\ Len(receipts) <= 2
  /\ authority \in BOOLEAN /\ migrated \in BOOLEAN /\ marker \in BOOLEAN /\ backup \in BOOLEAN
  /\ running \in {"old", "mixed", "new"}
  /\ opLock \in Locks \ {"stop"} /\ envLock \in Locks
  /\ step \in Steps
  /\ pending \in BOOLEAN
  /\ stop \in {"none", "active", "cleared"}
  /\ platform \in {"none", "requested", "confirmed", "acknowledged", "cleared"}
  /\ stopStep \in {"idle", "append", "remove", "request", "receipt"}
  /\ crashes \in 0..MaxCrashes

TargetInit ==
  /\ journal = <<>> /\ receipts = <<>>
  /\ authority = TRUE
  /\ running = "old" /\ marker = FALSE /\ migrated = FALSE /\ backup = FALSE
  /\ opLock = "free" /\ envLock = "free" /\ step = "idle"
  /\ pending = FALSE /\ stop = "none" /\ platform = "none" /\ stopStep = "idle"
  /\ crashes = 0

-----------------------------------------------------------------------------
(* The journal and the receipts *)

Journalled(phase) == \E i \in DOMAIN journal : journal[i] = phase
Last == IF journal = <<>> THEN "none" ELSE journal[Len(journal)]

\* A phase already on file is not written again.
Checkpoint(phase) == journal' = IF Journalled(phase) THEN journal ELSE Append(journal, phase)

\* The platform takes one outcome, or the cutover and then its health.
Accepted(phase) ==
  \/ receipts = <<>> /\ phase \in Terminal \cup {"cutover_committed"}
                     /\ phase \notin {"health_verified", "health_failed_after_cutover"}
  \/ receipts = <<"cutover_committed">>
     /\ phase \in {"health_verified", "health_failed_after_cutover", "uncertain_after_cutover"}

Received(phase) == \E i \in DOMAIN receipts : receipts[i] = phase
Concluded == \E phase \in Terminal : Received(phase)

Receive(phase) ==
  \/ Received(phase) /\ UNCHANGED receipts
  \/ Accepted(phase) /\ receipts' = Append(receipts, phase)

\* Leaving the handler releases what it holds; its backup is remembered by nobody.
HandlerLeaves ==
  /\ step' = "idle" /\ opLock' = "free" /\ backup' = FALSE
  /\ envLock' = IF envLock = "operation" THEN "free" ELSE envLock

-----------------------------------------------------------------------------
(* executeRestrictedCicdTargetOperation, for a request or for the recovery loop *)

Begin ==
  /\ step = "idle" /\ opLock = "free" /\ ~Concluded
  /\ opLock' = "operation" /\ step' = "load"
  /\ UNCHANGED <<journal, receipts, authority, running, marker, migrated, envLock, backup,
                 requestVars, crashes>>

\* An unfinished checkpoint or a platform that does not answer: the handler throws.
Throws ==
  /\ step \in {"load", "mutex", "probe", "publish_cutover", "republish", "publish"}
  /\ HandlerLeaves
  /\ UNCHANGED <<journal, receipts, authority, running, marker, migrated, requestVars, crashes>>

Ends(phase) == Checkpoint(phase) /\ step' = "publish"

Load ==
  /\ step = "load"
  /\ \/ /\ Last \in Terminal
        /\ step' = IF Journalled("cutover_committed") THEN "republish" ELSE "publish"
        /\ UNCHANGED journal
     \/ Last \notin Terminal /\ stop = "active" /\ Ends("stop_committed")
     \/ /\ Last \notin Terminal /\ stop # "active"
        /\ Checkpoint("prepared")
        /\ step' = IF Journalled("cutover_intent_durable") THEN "mutex" ELSE "authority"
  /\ UNCHANGED <<receipts, authority, running, marker, migrated, opLock, envLock, backup,
                 requestVars, crashes>>

\* validateAuthority; an unreachable platform counts as a refusal.
ValidateAuthority ==
  /\ step = "authority"
  /\ \/ authority /\ step' = "prepare" /\ UNCHANGED journal
     \/ Ends(IF Journalled("applying") THEN "uncertain_before_cutover" ELSE "failed_before_cutover")
  /\ UNCHANGED <<receipts, authority, running, marker, migrated, opLock, envLock, backup,
                 requestVars, crashes>>

PrepareAndBackUp ==
  /\ step = "prepare"
  /\ \/ Checkpoint("applying") /\ backup' = TRUE /\ step' = "migrate"
     \/ Ends("failed_before_cutover") /\ UNCHANGED backup
  /\ UNCHANGED <<receipts, authority, running, marker, migrated, opLock, envLock,
                 requestVars, crashes>>

Migrate ==
  /\ step = "migrate"
  /\ \/ /\ migrated \/ authority
        /\ migrated' = TRUE /\ step' = "mutex"
        /\ UNCHANGED journal
     \/ /\ migrated' \in IF authority THEN {migrated, TRUE} ELSE {migrated}
        /\ Ends("uncertain_before_cutover")
  /\ UNCHANGED <<receipts, authority, running, marker, opLock, envLock, backup,
                 requestVars, crashes>>

\* A committed cutover needs no mutex; a busy mutex makes the handler throw.
EnterMutex ==
  /\ step = "mutex"
  /\ \/ /\ Journalled("cutover_committed") /\ Receive("cutover_committed")
        /\ step' = "health" /\ UNCHANGED envLock
     \/ /\ ~Journalled("cutover_committed") /\ envLock = "free"
        /\ envLock' = "operation" /\ step' = "fence" /\ UNCHANGED receipts
  /\ UNCHANGED <<journal, authority, running, marker, migrated, opLock, backup,
                 requestVars, crashes>>

\* Mutant: a stop the platform has not recorded yet is overlooked.
OnlyPlatformStops == stop = "active" /\ platform # "none"

\* The local stop, read again under the mutex.
StopWins == stop = "active"

Fence ==
  /\ step = "fence"
  /\ \/ StopWins /\ Ends("stop_committed")
     \/ ~StopWins /\ Checkpoint("cutover_intent_durable") /\ step' = "probe"
  /\ UNCHANGED <<receipts, authority, running, marker, migrated, opLock, envLock, backup,
                 requestVars, crashes>>

\* A cutover that an earlier process made is recognised, its marker written if it is missing.
Probe ==
  /\ step = "probe"
  /\ \/ /\ running = "new"
        /\ marker' = TRUE
        /\ Checkpoint("cutover_committed") /\ step' = "publish_cutover"
        /\ UNCHANGED backup
     \/ running # "new" /\ backup /\ step' = "validate" /\ UNCHANGED <<journal, marker, backup>>
     \/ /\ running # "new" /\ ~backup /\ UNCHANGED marker
        /\ \/ authority /\ backup' = TRUE /\ step' = "validate" /\ UNCHANGED journal
           \/ Ends("uncertain_before_cutover") /\ UNCHANGED backup
  /\ UNCHANGED <<receipts, authority, running, migrated, opLock, envLock, requestVars, crashes>>

ValidateCutover ==
  /\ step = "validate"
  /\ \/ authority /\ step' = "cutover" /\ UNCHANGED journal
     \/ Ends("uncertain_before_cutover")
  /\ UNCHANGED <<receipts, authority, running, marker, migrated, opLock, envLock, backup,
                 requestVars, crashes>>

\* docker compose up replaces the services one after another, and may fail half way.
ComposeUp ==
  /\ step = "cutover" /\ running # "new"
  /\ running' \in {"mixed", "new"}
  /\ UNCHANGED <<journal, receipts, authority, marker, migrated, opLock, envLock, step, backup,
                 requestVars, crashes>>

WriteMarker ==
  /\ step = "cutover" /\ running = "new"
  /\ marker' = TRUE /\ step' = "marked"
  /\ UNCHANGED <<journal, receipts, authority, running, migrated, opLock, envLock, backup,
                 requestVars, crashes>>

\* Mutant: after an error the outcome is taken from the command, not from the containers.
Assumed == running # "old"

\* What the containers show decides, after an error as well.
Confirmed == running = "new"

CutoverReturns ==
  /\ \/ step = "marked" /\ Confirmed
        /\ Checkpoint("cutover_committed") /\ step' = "publish_cutover" /\ UNCHANGED marker
     \/ step = "cutover" /\ Confirmed /\ marker' = TRUE
        /\ Checkpoint("cutover_committed") /\ step' = "publish_cutover"
     \/ step = "cutover" /\ Ends("uncertain_after_cutover") /\ UNCHANGED marker
  /\ UNCHANGED <<receipts, authority, running, migrated, opLock, envLock, backup,
                 requestVars, crashes>>

PublishCutover ==
  /\ step \in {"publish_cutover", "republish"}
  /\ Receive("cutover_committed")
  /\ step' = IF step = "republish" THEN "publish" ELSE "health"
  /\ envLock' = IF step = "republish" THEN envLock ELSE "free"
  /\ UNCHANGED <<journal, authority, running, marker, migrated, opLock, backup,
                 requestVars, crashes>>

HealthCheck ==
  /\ step = "health"
  /\ \E phase \in {"health_verified", "health_failed_after_cutover"} : Ends(phase)
  /\ UNCHANGED <<receipts, authority, running, marker, migrated, opLock, envLock, backup,
                 requestVars, crashes>>

Publish ==
  /\ step = "publish"
  /\ Receive(Last)
  /\ HandlerLeaves
  /\ UNCHANGED <<journal, authority, running, marker, migrated, requestVars, crashes>>

-----------------------------------------------------------------------------
(* executeRestrictedCicdTargetStop and the clearing of a stop *)

\* The request is put on file before the mutex is asked for; the recovery loop finds it there.
EnqueueStop ==
  /\ stop = "none" /\ ~pending
  /\ pending' = TRUE
  /\ UNCHANGED <<handlerVars, authority, envLock, stop, platform, stopStep, crashes>>

\* For a pending request, or one the platform has not confirmed.
BeginStop ==
  /\ stopStep = "idle" /\ envLock = "free"
  /\ pending \/ (stop = "active" /\ platform \in {"none", "requested"})
  /\ envLock' = "stop" /\ stopStep' = "append"
  /\ UNCHANGED <<handlerVars, authority, pending, stop, platform, crashes>>

\* A stop already on file is replayed: it does not become active again.
AppendStop ==
  /\ stopStep = "append"
  /\ stop' = IF stop = "none" THEN "active" ELSE stop
  /\ stopStep' = "remove"
  /\ UNCHANGED <<handlerVars, authority, envLock, pending, platform, crashes>>

RemovePending ==
  /\ stopStep = "remove"
  /\ pending' = FALSE /\ stopStep' = "request"
  /\ UNCHANGED <<handlerVars, authority, envLock, stop, platform, crashes>>

StopHandlerLeaves == stopStep' = "idle" /\ envLock' = "free"

\* requestStop raises the environment's generation: no authority granted before survives it.
RequestPlatformStop ==
  /\ stopStep = "request"
  /\ stopStep' = "receipt" /\ UNCHANGED envLock
  /\ platform' = IF platform = "none" THEN "requested" ELSE platform
  /\ authority' = FALSE
  /\ UNCHANGED <<handlerVars, pending, stop, crashes>>

ReceiptOfStop ==
  /\ stopStep = "receipt"
  /\ platform' = IF platform = "requested" THEN "confirmed" ELSE platform
  /\ StopHandlerLeaves
  /\ UNCHANGED <<handlerVars, authority, pending, stop, crashes>>

\* The platform does not answer: the stop stays committed here and is filled in later.
PlatformUnreachable ==
  /\ stopStep \in {"request", "receipt"}
  /\ StopHandlerLeaves
  /\ UNCHANGED <<handlerVars, authority, pending, stop, platform, crashes>>

\* Both take the mutex and give it back in one call; a crash inside leaves what Crash leaves.
AcknowledgeClear ==
  /\ stop = "active" /\ platform = "confirmed" /\ envLock = "free"
  /\ platform' = "acknowledged"
  /\ UNCHANGED <<handlerVars, authority, envLock, pending, stop, stopStep, crashes>>

PlatformClears ==
  /\ platform = "acknowledged" /\ Concluded
  /\ platform' = "cleared"
  /\ UNCHANGED <<handlerVars, authority, envLock, pending, stop, stopStep, crashes>>

CommitClear ==
  /\ stop = "active" /\ platform = "cleared" /\ envLock = "free"
  /\ stop' = "cleared"
  /\ UNCHANGED <<handlerVars, authority, envLock, pending, platform, stopStep, crashes>>

-----------------------------------------------------------------------------
(* The environment: expiry, a stop on the platform's side, crashes and the recovery loop *)

AuthorityLapses ==
  /\ authority /\ authority' = FALSE
  /\ UNCHANGED <<handlerVars, envLock, requestVars, crashes>>

Orphaned(lock) == IF lock \in {"operation", "stop"} THEN {"stale", "ownerless"} ELSE {lock}

Crash ==
  /\ crashes < MaxCrashes
  /\ step # "idle" \/ stopStep # "idle"
  /\ crashes' = crashes + 1
  /\ step' = "idle" /\ stopStep' = "idle" /\ backup' = FALSE
  /\ opLock' \in Orphaned(opLock) /\ envLock' \in Orphaned(envLock)
  /\ UNCHANGED <<journal, receipts, authority, running, marker, migrated, pending, stop, platform>>

\* The next process removes the locks of a dead one of the same owner, if they name it.
RecoverMutex ==
  /\ envLock = "stale" /\ envLock' = "free"
  /\ UNCHANGED <<handlerVars, authority, requestVars, crashes>>

RecoverOperationLock ==
  /\ opLock = "stale" /\ opLock' = "free"
  /\ UNCHANGED <<journal, receipts, authority, running, marker, migrated, envLock, step, backup,
                 requestVars, crashes>>

OperationStep ==
  \/ Begin \/ Throws \/ Load \/ ValidateAuthority \/ PrepareAndBackUp \/ Migrate
  \/ EnterMutex \/ Fence \/ Probe \/ ValidateCutover \/ ComposeUp \/ WriteMarker
  \/ CutoverReturns \/ PublishCutover \/ HealthCheck \/ Publish

StopRequestStep ==
  \/ EnqueueStop \/ BeginStop \/ AppendStop \/ RemovePending \/ RequestPlatformStop
  \/ ReceiptOfStop \/ PlatformUnreachable \/ AcknowledgeClear \/ PlatformClears \/ CommitClear

TargetNext ==
  OperationStep \/ StopRequestStep
  \/ AuthorityLapses \/ Crash \/ RecoverMutex \/ RecoverOperationLock

TargetSpec == TargetInit /\ [][TargetNext]_targetVars

-----------------------------------------------------------------------------
(* Properties *)

\* Once a stop is committed on the target the old operation never changes a container again,
\* not after the stop was cleared either; and the journal says the cutover is committed only
\* when the new release runs. The mutex, the journal, the platform's generation and the
\* recovery after a crash each carry a part of it.
StopFencesCutover ==
  /\ step = "cutover" => stop = "none"
  /\ Journalled("cutover_committed") => running = "new"
=============================================================================
