------------------------ MODULE VersionedConfiguration ------------------------
(* One configuration stream: versions that are tested, reviewed by another    *)
(* person, scheduled, activated by hand or by a worker when they are due, and *)
(* rolled back. Versions, tests, approvals, schedules and activations are     *)
(* rows that are only ever inserted; the current version is that of the last  *)
(* activation. Each handler is one transaction under the stream's or the      *)
(* version's lock; the worker's batch is not.                                 *)
EXTENDS Integers, Sequences

CONSTANTS
  Versions,        \* configuration_versions of the stream
  Editors,         \* maintenance staff
  Worker,          \* the activation worker as the actor of an activation
  MaxTime,         \* bound: points in time, of the clock and of schedules
  MaxActivations,  \* bound: activations
  NoVersion, NoEditor

ASSUME ConfigurationConstants ==
  /\ Worker \notin Editors /\ NoEditor \notin Editors /\ NoVersion \notin Versions
  /\ MaxTime \in Nat /\ MaxActivations \in Nat

VARIABLES
  time,         \* the database's clock
  version,      \* a version with its latest test, approval and schedule
  activations,  \* configuration_activations in sequence
  batch         \* versions the worker found due and has not processed

configurationVars == <<time, version, activations, batch>>

Unscheduled == MaxTime + 1
NewVersion == [creator |-> NoEditor, test |-> "none", decision |-> "none",
               reviewer |-> NoEditor, due |-> Unscheduled]

ConfigurationTypeOK ==
  /\ time \in 0 .. MaxTime
  /\ version \in [Versions -> [creator : Editors \cup {NoEditor}, test : {"none", "passed", "failed"},
                               decision : {"none", "approve", "reject"},
                               reviewer : Editors \cup {NoEditor}, due : 0 .. Unscheduled]]
  /\ activations \in Seq([version : Versions, previous : Versions \cup {NoVersion},
                          action : {"activate", "rollback"}, actor : Editors \cup {Worker}])
  /\ batch \subseteq Versions

ConfigurationInit ==
  /\ time = 0
  /\ version = [v \in Versions |-> NewVersion]
  /\ activations = <<>>
  /\ batch = {}

-----------------------------------------------------------------------------
(* Preparing a version *)

Exists(v) == version[v].creator # NoEditor
OnlyVersion == UNCHANGED <<time, activations, batch>>

CreateVersion(v, e) ==
  /\ ~Exists(v)
  /\ version' = [version EXCEPT ![v].creator = e]
  /\ OnlyVersion

\* Mutant: a test may be added after the review.
AnyTime(v) == Exists(v)

\* Tests may be repeated until the version is reviewed; the last one counts.
Testable(v) == Exists(v) /\ version[v].decision = "none"

Test(v, result) ==
  /\ Testable(v)
  /\ version' = [version EXCEPT ![v].test = result]
  /\ OnlyVersion

Review(v, e, decision) ==
  /\ Exists(v)
  /\ version[v].creator # e
  /\ version[v].decision = "none"
  /\ version[v].test = "passed"
  /\ version' = [version EXCEPT ![v].decision = decision, ![v].reviewer = e]
  /\ OnlyVersion

Schedule(v, due) ==
  /\ version[v].decision = "approve"
  /\ version[v].due = Unscheduled
  /\ due >= time
  /\ version' = [version EXCEPT ![v].due = due]
  /\ OnlyVersion

-----------------------------------------------------------------------------
(* Activation *)

Current == IF activations = <<>> THEN NoVersion ELSE activations[Len(activations)].version
WasActivated(v) == \E n \in DOMAIN activations : activations[n].version = v
Approved(v) == version[v].test = "passed" /\ version[v].decision = "approve"
IsDue(v) == version[v].due <= time

Record(v, action, actor) ==
  /\ Len(activations) < MaxActivations
  /\ activations' = Append(activations,
       [version |-> v, previous |-> Current, action |-> action, actor |-> actor])
  /\ UNCHANGED <<time, version>>

ActivateByHand(v, e) ==
  /\ Approved(v)
  /\ Current # v
  /\ IsDue(v)
  /\ Record(v, "activate", e)
  /\ UNCHANGED batch

Rollback(v, e) ==
  /\ Approved(v)
  /\ Current \notin {v, NoVersion}
  /\ WasActivated(v)
  /\ Record(v, "rollback", e)
  /\ UNCHANGED batch

\* Mutant: under the lock the worker does not look again whether the version was activated.
StillDue(v) == Approved(v) /\ IsDue(v)

WorkerMayActivate(v) == Approved(v) /\ IsDue(v) /\ ~WasActivated(v)

\* The worker, one at a time, finds what is due.
Scan ==
  /\ batch = {}
  /\ batch' = {v \in Versions : WorkerMayActivate(v)}
  /\ batch' # {}
  /\ UNCHANGED <<time, version, activations>>

\* In the order of the schedules, each in a transaction that looks again under the stream's lock;
\* one that fails does not stop the batch.
ProcessDue(v) ==
  /\ v \in batch
  /\ \A u \in batch : version[v].due <= version[u].due
  /\ batch' = batch \ {v}
  /\ \/ WorkerMayActivate(v) /\ Record(v, "activate", Worker)
     \/ UNCHANGED <<time, version, activations>>

WorkerDies == batch # {} /\ batch' = {} /\ UNCHANGED <<time, version, activations>>

TimePasses == time < MaxTime /\ time' = time + 1 /\ UNCHANGED <<version, activations, batch>>

ConfigurationNext ==
  \/ \E v \in Versions :
       \/ \E e \in Editors :
            \/ CreateVersion(v, e) \/ ActivateByHand(v, e) \/ Rollback(v, e)
            \/ \E decision \in {"approve", "reject"} : Review(v, e, decision)
       \/ \E result \in {"passed", "failed"} : Test(v, result)
       \/ \E due \in 0 .. MaxTime : Schedule(v, due)
       \/ ProcessDue(v)
  \/ Scan \/ WorkerDies \/ TimePasses

ConfigurationSpec == ConfigurationInit /\ [][ConfigurationNext]_configurationVars

-----------------------------------------------------------------------------
(* Properties *)

\* Whatever is or was in force was tested, approved by another person than its author, and is
\* still what was approved: a test cannot be added behind the review.
OnlyReviewedInForce ==
  \A n \in DOMAIN activations :
    LET v == version[activations[n].version]
    IN v.test = "passed" /\ v.decision = "approve" /\ v.reviewer \notin {v.creator, NoEditor}

\* The activations are one chain: each names the version that was in force before it, so that a
\* rollback by hand and the worker's batch never overwrite each other unseen; the worker brings
\* each version into force at most once and never back after somebody replaced it.
ActivationsChain ==
  \A n \in DOMAIN activations :
    LET a == activations[n]
    IN /\ a.previous = IF n = 1 THEN NoVersion ELSE activations[n - 1].version
       /\ a.previous # a.version
       /\ a.actor = Worker => \A m \in 1 .. n - 1 : activations[m].version # a.version
       /\ a.action = "rollback" => \E m \in 1 .. n - 1 : activations[m].version = a.version

ConfigurationInForce == OnlyReviewedInForce /\ ActivationsChain
=============================================================================
