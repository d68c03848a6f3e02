--------------------------- MODULE ReleaseCommands ---------------------------
(* The platform's side of a release: requests for one environment, approved   *)
(* against what it runs, leased by dispatchers, handed to the provider as a   *)
(* workflow run, authorised on the target and settled from the run's          *)
(* conclusion and the target's receipts. A request is attempted once.         *)
(* Of the target's handler, which ReleaseTarget has in full, only the progress *)
(* of its operation is kept. The provider is external; so are clocks, digests. *)
EXTENDS Naturals

CONSTANTS
  MaxRequests,    \* bound on the commands of one environment
  Candidates,     \* release versions they may name
  NoCandidate,
  MaxGeneration   \* bound on the environment's generation

ASSUME QueueConstants ==
  /\ NoCandidate \notin Candidates
  /\ MaxRequests \in Nat /\ MaxGeneration \in Nat \ {0}

VARIABLES
  request,      \* the command, its approval, its attempt and the facts recorded of it
  environment,  \* release_workflow_environment_states
  dispatcher,   \* where the worker that claimed a request is with it; one claims at most once
  target,       \* how far the target's operation is
  deployed,     \* the releases the target's services run: one, or several half way
  activeMarker  \* the release the target's active-release marker names

queueVars == <<request, environment, dispatcher, target, deployed, activeMarker>>

\* Commands in the order of their creation.
Requests == 1..MaxRequests
NoRequest == 0

Conclusions == {"success", "failure", "cancelled"}
Outcomes == {"none", "failed_before_cutover", "uncertain_before_cutover", "stop_committed",
             "uncertain_after_cutover", "cutover_committed", "health_verified",
             "health_failed_after_cutover"}
OpenStatus == {"requested", "approved", "leased", "dispatching", "dispatch_accepted", "running",
               "settling"}
ClosedStatus == {"rejected", "succeeded", "failed", "cancelled", "manual_intervention",
                 "deployed_reconciliation_required"}

\* attempt is its last fact; outcome the last receipt accepted, a cutover_committed precedes
\* the two of its health.
RequestRow ==
  [status : {"none"} \cup OpenStatus \cup ClosedStatus, release : Candidates \cup {NoCandidate},
   generation : 1..MaxGeneration, expected : Candidates \cup {NoCandidate},
   attempt : {"none", "leased", "dispatching", "bound", "unknown"},
   lease : {"none", "held", "lapsed"}, operation : BOOLEAN,
   conclusion : {"none"} \cup Conclusions, outcome : Outcomes]

EnvironmentRow ==
  [generation : 1..MaxGeneration, expected : Candidates \cup {NoCandidate}, blocked : BOOLEAN,
   stop : {"none", "requested", "committed"}, stoppedAt : Candidates \cup {NoCandidate},
   attempt : Requests \cup {NoRequest}, operation : Requests \cup {NoRequest}]

\* Nothing done; the release's migrations applied; its cutover validated; some of the services
\* replaced; all of them; the marker written too.
Progress == {"none", "migrated", "validated", "partial", "cut", "marked"}

QueueTypeOK ==
  /\ request \in [Requests -> RequestRow]
  /\ environment \in EnvironmentRow
  /\ dispatcher \in [Requests -> {"away", "claimed", "begun", "posted", "failed"}]
  /\ target \in [Requests -> Progress]
  /\ deployed \subseteq Candidates \cup {NoCandidate}
  /\ activeMarker \in Candidates \cup {NoCandidate}

Unwritten == [status |-> "none", release |-> NoCandidate, generation |-> 1,
              expected |-> NoCandidate, attempt |-> "none", lease |-> "none",
              operation |-> FALSE, conclusion |-> "none", outcome |-> "none"]

QueueInit ==
  /\ request = [c \in Requests |-> Unwritten]
  /\ environment = [generation |-> 1, expected |-> NoCandidate, blocked |-> FALSE,
                    stop |-> "none", stoppedAt |-> NoCandidate,
                    attempt |-> NoRequest, operation |-> NoRequest]
  /\ dispatcher = [c \in Requests |-> "away"]
  /\ target = [c \in Requests |-> "none"]
  /\ deployed = {NoCandidate} /\ activeMarker = NoCandidate

Outside == UNCHANGED <<target, deployed, activeMarker>>

-----------------------------------------------------------------------------
(* Request and review *)

Stopped == environment.stop # "none"
Serving == ~Stopped /\ ~environment.blocked

RequestRelease(c, r) ==
  /\ request[c].status = "none" /\ \A d \in 1..(c - 1) : request[d].status # "none"
  /\ Serving
  /\ request' = [request EXCEPT ![c].status = "requested", ![c].release = r,
       ![c].generation = environment.generation, ![c].expected = environment.expected]
  /\ UNCHANGED <<environment, dispatcher>> /\ Outside

ReviewRelease(c) ==
  /\ request[c].status = "requested"
  /\ \E decision \in {"approved", "rejected"} : request' = [request EXCEPT ![c].status = decision]
  /\ UNCHANGED <<environment, dispatcher>> /\ Outside

-----------------------------------------------------------------------------
(* A dispatcher's iteration: claim, begin, POST, bind, and what it does when one fails *)

\* The generation alone, as begin and bind compare it; a mutant of the next.
SameGeneration(c) == environment.generation = request[c].generation

\* The environment is as the request's approvers saw it.
SnapshotHolds(c) ==
  environment.generation = request[c].generation /\ environment.expected = request[c].expected

\* Its dispatch was begun, its lease lapsed, and nobody knows whether there is a run.
Undecided(c) ==
  request[c].status = "dispatching" /\ request[c].attempt = "dispatching"
  /\ request[c].lease = "lapsed"

LeaseIsFree == environment.attempt # NoRequest => request[environment.attempt].lease = "lapsed"

\* claimNext: the recovery of undecided dispatches has to come first.
ClaimRelease(c) ==
  /\ ~\E d \in Requests : Undecided(d)
  /\ request[c].status = "approved"
  /\ SnapshotHolds(c) /\ Serving /\ environment.operation = NoRequest /\ LeaseIsFree
  /\ request' = [request EXCEPT ![c].status = "leased", ![c].attempt = "leased",
                                ![c].lease = "held"]
  /\ environment' = [environment EXCEPT !.attempt = c]
  /\ dispatcher' = [dispatcher EXCEPT ![c] = "claimed"]
  /\ Outside

\* The fence of begin and of bind; the expected release is not compared again.
HoldsAttempt(c, status) ==
  /\ request[c].status = status /\ request[c].lease = "held"
  /\ environment.attempt = c /\ SameGeneration(c) /\ Serving

BeginDispatch(c) ==
  /\ dispatcher[c] = "claimed"
  /\ \/ /\ HoldsAttempt(c, "leased")
        /\ request' = [request EXCEPT ![c].status = "dispatching", ![c].attempt = "dispatching"]
        /\ dispatcher' = [dispatcher EXCEPT ![c] = "begun"]
     \/ /\ ~HoldsAttempt(c, "leased")
        /\ dispatcher' = [dispatcher EXCEPT ![c] = "away"]
        /\ UNCHANGED request
  /\ UNCHANGED environment /\ Outside

\* One POST: answered, or not; then there is a run of which nobody knows, or none.
PostDispatch(c) ==
  /\ dispatcher[c] = "begun"
  /\ \E at \in {"posted", "failed"} : dispatcher' = [dispatcher EXCEPT ![c] = at]
  /\ UNCHANGED <<request, environment>> /\ Outside

\* Two tries: a lost answer shows as a failure although the run is bound.
BindRun(c) ==
  /\ dispatcher[c] = "posted"
  /\ \/ /\ HoldsAttempt(c, "dispatching")
        /\ request' = [request EXCEPT ![c].status = "dispatch_accepted", ![c].attempt = "bound"]
        /\ \E at \in {"away", "failed"} : dispatcher' = [dispatcher EXCEPT ![c] = at]
     \/ dispatcher' = [dispatcher EXCEPT ![c] = "failed"] /\ UNCHANGED request
  /\ UNCHANGED environment /\ Outside

MayRecordUnknown(c) == environment.attempt = c /\ request[c].status = "dispatching"

OutcomeUnknown(c) ==
  /\ request' = [request EXCEPT ![c].status = "manual_intervention", ![c].attempt = "unknown"]
  /\ environment' = [environment EXCEPT !.blocked = TRUE]

\* A bound run is found instead; a dispatch that is no longer the environment's is left as it is.
RecordUnknown(c) ==
  /\ dispatcher[c] = "failed"
  /\ dispatcher' = [dispatcher EXCEPT ![c] = "away"]
  /\ \/ MayRecordUnknown(c) /\ OutcomeUnknown(c)
     \/ ~MayRecordUnknown(c) /\ UNCHANGED <<request, environment>>
  /\ Outside

DispatcherDies(c) ==
  /\ dispatcher[c] # "away"
  /\ dispatcher' = [dispatcher EXCEPT ![c] = "away"]
  /\ UNCHANGED <<request, environment>> /\ Outside

\* Every iteration starts with it.
RecoverDispatch(c) ==
  /\ Undecided(c) /\ environment.attempt = c
  /\ OutcomeUnknown(c)
  /\ UNCHANGED dispatcher /\ Outside

LeaseRunsOut(c) ==
  /\ request[c].lease = "held"
  /\ request' = [request EXCEPT ![c].lease = "lapsed"]
  /\ UNCHANGED <<environment, dispatcher>> /\ Outside

-----------------------------------------------------------------------------
(* The projection of the facts on status and environment *)

Physical(q) == q.outcome \in {"cutover_committed", "health_verified", "health_failed_after_cutover"}
Uncertain(q) == q.outcome \in {"uncertain_before_cutover", "uncertain_after_cutover"}
NeverCut(q) == q.outcome \in {"failed_before_cutover", "stop_committed"}
NeedsReconciliation(q) ==
  \/ Physical(q) /\ q.conclusion \in {"failure", "cancelled"}
  \/ q.outcome \in {"health_failed_after_cutover", "uncertain_after_cutover"}

ByRun(q) ==
  CASE q.conclusion = "cancelled" -> "cancelled"
    [] q.conclusion = "failure" -> "failed"
    [] q.conclusion = "success" -> "settling"
    [] OTHER -> q.status

ByTarget(q) ==
  CASE q.outcome = "uncertain_before_cutover" -> "manual_intervention"
    [] q.outcome = "health_verified" /\ q.conclusion = "success" -> "succeeded"
    [] q.outcome = "failed_before_cutover" -> "failed"
    [] q.outcome = "stop_committed" -> "cancelled"
    [] OTHER -> "settling"

\* Mutant: a failed run settles the request before its operation is looked at.
RunFirst(q) ==
  IF NeedsReconciliation(q) THEN "deployed_reconciliation_required"
  ELSE IF q.operation /\ q.conclusion \notin {"failure", "cancelled"} THEN ByTarget(q) ELSE ByRun(q)

StatusFrom(q) ==
  IF NeedsReconciliation(q) THEN "deployed_reconciliation_required"
  ELSE IF q.operation THEN ByTarget(q) ELSE ByRun(q)

Freed == [environment EXCEPT !.attempt = NoRequest, !.operation = NoRequest]

\* The environment after a fact of c; only the active operation moves what it expects.
ByReceipt(q) ==
  LET base == IF NeverCut(q) \/ StatusFrom(q) = "succeeded" THEN Freed ELSE environment IN
  [base EXCEPT
    !.expected = IF Physical(q) THEN q.release
                 ELSE IF q.outcome = "uncertain_after_cutover" THEN NoCandidate ELSE @,
    !.blocked = @ \/ NeedsReconciliation(q) \/ Uncertain(q)]

EnvironmentFrom(c, q) ==
  IF q.operation
  THEN IF environment.operation = c THEN ByReceipt(q) ELSE environment
  ELSE IF StatusFrom(q) \in {"failed", "cancelled"} /\ environment.attempt = c
       THEN [environment EXCEPT !.attempt = NoRequest] ELSE environment

Project(c, q) ==
  /\ request' = [request EXCEPT ![c] = [q EXCEPT !.status = StatusFrom(q)]]
  /\ environment' = EnvironmentFrom(c, q)
  /\ UNCHANGED dispatcher /\ Outside

\* A reconciler that chose the request while it was open appends as late as it likes, that
\* the run goes on or how it ended: a run has one conclusion.
RunReported(c) ==
  /\ request[c].attempt = "bound" /\ request[c].conclusion = "none"
  /\ \E conclusion \in Conclusions \cup {"none"} :
       Project(c, [request[c] EXCEPT !.conclusion = conclusion])

\* The run is not the one asked for, or nobody can tell: by a dispatcher or a reconciler.
RejectRun(c) ==
  /\ request[c].attempt = "bound" /\ ~request[c].operation
  /\ request[c].status = "dispatch_accepted" /\ environment.attempt = c
  /\ request' = [request EXCEPT ![c].status = "manual_intervention"]
  /\ environment' = [environment EXCEPT !.blocked = TRUE]
  /\ UNCHANGED dispatcher /\ Outside

-----------------------------------------------------------------------------
(* The target *)

\* The bound run asks the target, the target the platform.
ReserveOperation(c) ==
  /\ HoldsAttempt(c, "dispatch_accepted") /\ SnapshotHolds(c) /\ environment.operation = NoRequest
  /\ request' = [request EXCEPT ![c].status = "running", ![c].operation = TRUE]
  /\ environment' = [environment EXCEPT !.operation = c]
  /\ UNCHANGED dispatcher /\ Outside

Reporting(c) == environment.operation = c /\ request[c].outcome = "none"

\* The fence of the target's authority and of its cutover.
Authorised(c) == Reporting(c) /\ SnapshotHolds(c) /\ Serving

MigrationsApplied(c) ==
  /\ Authorised(c) /\ target[c] = "none"
  /\ target' = [target EXCEPT ![c] = "migrated"]
  /\ UNCHANGED <<request, environment, dispatcher, deployed, activeMarker>>

CutoverValidated(c) ==
  /\ Authorised(c) /\ target[c] = "migrated" /\ deployed # {request[c].release}
  /\ target' = [target EXCEPT ![c] = "validated"]
  /\ UNCHANGED <<request, environment, dispatcher, deployed, activeMarker>>

\* Otherwise the target finds that its active release changed, and ends uncertain.
MarkerAgrees(c) == activeMarker = request[c].expected

\* compose up replaces the services one after another, and may stop half way; the process that
\* finds it half done goes on.
ServicesReplaced(c) ==
  /\ request[c].outcome = "none" /\ target[c] \in {"validated", "partial"} /\ MarkerAgrees(c)
  /\ \E kept \in SUBSET (deployed \ {request[c].release}) :
       /\ deployed' = kept \cup {request[c].release}
       /\ target' = [target EXCEPT ![c] = IF kept = {} THEN "cut" ELSE "partial"]
  /\ UNCHANGED <<request, environment, dispatcher, activeMarker>>

\* After compose up, or when a later process finds that the release runs.
MarkerCommitted(c) ==
  /\ request[c].outcome = "none" /\ target[c] \in {"migrated", "cut"}
  /\ deployed = {request[c].release}
  /\ target' = [target EXCEPT ![c] = "marked"] /\ activeMarker' = request[c].release
  /\ UNCHANGED <<request, environment, dispatcher, deployed>>

\* What the target may report: a local stop ends its operation wherever it is, with the old
\* release as the current one; a committed cutover needs the marker.
Truthful(c) ==
  CASE request[c].outcome = "cutover_committed" ->
         {"health_verified", "health_failed_after_cutover"}
    [] request[c].outcome = "none" /\ target[c] \in {"none", "migrated"} ->
         {"failed_before_cutover", "uncertain_before_cutover", "stop_committed"}
    [] request[c].outcome = "none" /\ target[c] \in {"validated", "partial"} ->
         {"uncertain_before_cutover", "uncertain_after_cutover", "stop_committed"}
    [] request[c].outcome = "none" /\ target[c] = "cut" ->
         {"uncertain_after_cutover", "stop_committed"}
    [] request[c].outcome = "none" /\ target[c] = "marked" ->
         {"cutover_committed", "uncertain_after_cutover", "stop_committed"}
    [] OTHER -> {}

ReceiptAppended(c) ==
  /\ environment.operation = c
  /\ \E phase \in Truthful(c) : Project(c, [request[c] EXCEPT !.outcome = phase])

-----------------------------------------------------------------------------
(* The emergency stop *)

\* By an operator or by the target; what is authorised for the old generation goes stale.
StopEnvironment ==
  /\ ~Stopped /\ environment.generation + 1 < MaxGeneration
  /\ environment' = [environment EXCEPT !.stop = "requested", !.generation = @ + 1]
  /\ UNCHANGED <<request, dispatcher>> /\ Outside

\* One receipt for a stop, with what the environment expects at that time.
StopConfirmed ==
  /\ environment.stop = "requested"
  /\ environment' = [environment EXCEPT !.stop = "committed", !.stoppedAt = environment.expected]
  /\ UNCHANGED <<request, dispatcher>> /\ Outside

\* With the target's acknowledgement and a fresh activation.
ClearEnvironment ==
  /\ environment.stop = "committed" /\ environment.stoppedAt = environment.expected
  /\ environment.operation = NoRequest
  /\ environment.attempt # NoRequest =>
       request[environment.attempt].generation < environment.generation
  /\ environment' = [environment EXCEPT !.stop = "none", !.generation = @ + 1,
                                        !.attempt = NoRequest]
  /\ UNCHANGED <<request, dispatcher>> /\ Outside

-----------------------------------------------------------------------------

DispatcherStep(c) ==
  \/ ClaimRelease(c) \/ BeginDispatch(c) \/ PostDispatch(c) \/ BindRun(c) \/ RecordUnknown(c)
  \/ DispatcherDies(c)

RequestStep(c) ==
  \/ \E r \in Candidates : RequestRelease(c, r)
  \/ ReviewRelease(c) \/ RecoverDispatch(c) \/ LeaseRunsOut(c)
  \/ RunReported(c) \/ RejectRun(c)
  \/ ReserveOperation(c) \/ MigrationsApplied(c) \/ CutoverValidated(c)
  \/ ServicesReplaced(c) \/ MarkerCommitted(c) \/ ReceiptAppended(c)

QueueNext ==
  \/ \E c \in Requests : DispatcherStep(c) \/ RequestStep(c)
  \/ StopEnvironment \/ StopConfirmed \/ ClearEnvironment

QueueSpec == QueueInit /\ [][QueueNext]_queueVars

-----------------------------------------------------------------------------
(* Properties *)

\* Services of the request's release run, or ran: its migrations alone replace none.
Replaced(c) == target[c] \in {"partial", "cut", "marked"}

\* The exemption of both properties. A stop ends an operation whose services are replaced, in
\* part or all, as if its cutover had not begun (restricted-cicd-target-engine.ts:255 and 339),
\* and frees the environment; without the marker the target cannot tell either.
Hidden(c) == request[c].outcome = "stop_committed" /\ Replaced(c)
HiddenWithoutMarker(c) == Hidden(c) /\ target[c] # "marked"

\* What a cutover is validated for is what it replaces: one release runs at that moment, the
\* one its approvers saw, whatever was deployed, half deployed, lost or blocked meanwhile,
\* unless an earlier stop hid a cutover. If that one had left its marker, this cutover does not
\* begin.
ReplacesWhatWasApproved ==
  \A c \in Requests :
    request[c].outcome = "none" /\ target[c] = "validated" =>
      /\ deployed = {request[c].expected} \/ \E d \in Requests : Hidden(d)
      /\ \/ ~MarkerAgrees(c)
         \/ deployed = {request[c].expected}
         \/ \E d \in Requests : HiddenWithoutMarker(d)

\* No two attempts could be dispatched or authorised at once: one that could is the
\* environment's, with several dispatchers, lapsed leases and late reports.
CouldProceed(c) ==
  /\ request[c].status \in {"leased", "dispatching", "dispatch_accepted"}
  /\ request[c].lease = "held" /\ SameGeneration(c)

AttemptsInTurn == \A c \in Requests : CouldProceed(c) => environment.attempt = c

\* Releases follow one another: one attempt at a time, each over the release it was approved
\* against (0077 lease, reserve and projection, 0081 validate, the marker the adapter compares),
\* unless a stop's receipt hid an earlier cutover.
ReleasesInTurn == AttemptsInTurn /\ ReplacesWhatWasApproved

\* A closed status tells what became of the services, whichever of the run's conclusion and the
\* receipts came first. A rejected request did nothing on the target, a failed one replaced no
\* service and had no cutover validated, though its migrations may be applied; a cancelled one
\* replaced none unless it was a stop's receipt that ended it; one that succeeded is marked as
\* the active release; one that needs reconciliation keeps the environment blocked.
StatusTellsTheOutcome ==
  \A c \in Requests :
    /\ request[c].status = "rejected" => target[c] = "none"
    /\ request[c].status = "failed" => target[c] \in {"none", "migrated"}
    /\ request[c].status = "cancelled" => ~Replaced(c) \/ Hidden(c)
    /\ request[c].status = "succeeded" =>
         target[c] = "marked" /\ request[c].conclusion = "success"
    /\ request[c].status = "deployed_reconciliation_required" => environment.blocked
=============================================================================
