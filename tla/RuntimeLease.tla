---------------------------- MODULE RuntimeLease ----------------------------
(* The lease, the fencing token and the cycle commit of strategy_deployments. *)
(* Runtime workers take a deployment under a time-limited lease, read its last*)
(* decided candle, choose the next closed candle and commit one cycle. A      *)
(* worker may crash, fail, or outlive its lease while another worker already  *)
(* holds the deployment.                                                      *)
(*                                                                            *)
(* Time is abstracted to ttl[d]: the ticks left before lease_expires_at.      *)
(* next_cycle_at is abstracted away: a deployment is due whenever a worker    *)
(* asks, which over-approximates every polling schedule.                      *)
EXTENDS OfficialCard, Sequences

CONSTANTS
  Workers,      \* runtime worker processes
  NoWorker,     \* lease_owner IS NULL
  NoLease,      \* a worker that is between two deployments
  LeaseTicks,   \* lease length in ticks
  MaxUpsets     \* bound: crashes, errors, late heartbeats, customer actions, idle polls

VARIABLES
  status,     \* status[d]: active, paused or ended
  owner,      \* owner[d]: lease_owner
  ttl,        \* ttl[d]: ticks before lease_expires_at, 0 when lapsed or NULL
  token,      \* token[d]: fencing_token
  sequence,   \* sequence[d]: last_cycle_sequence
  lastClose,  \* lastClose[d]: last_candle_close_at, 0 for NULL
  cycles,     \* rows of strategy_runtime_cycles
  closed,     \* the latest closed candle of the market
  held,       \* held[w]: the lease a worker process remembers
  decided,    \* history: decided[d] is the candles committed for d, in commit order
  upsets      \* bound counter

rows == <<status, owner, ttl, token, sequence, lastClose, cycles, decided>>
leaseVars == <<rows, closed, held, upsets>>

Statuses == {"active", "paused", "ended"}

\* A lease as the worker remembers it; candle is 0 until it selected one.
Leases == [dep : Deployments, token : Nat, last : 0 .. MaxCandle, candle : 0 .. MaxCandle]

ASSUME LeaseConstants ==
  /\ NoWorker \notin Workers
  /\ NoLease \notin Leases
  /\ MaxCandle \in Nat
  /\ LeaseTicks \in Nat \ {0}
  /\ MaxUpsets \in Nat

LeaseTypeOK ==
  /\ status \in [Deployments -> Statuses]
  /\ owner \in [Deployments -> Workers \cup {NoWorker}]
  /\ ttl \in [Deployments -> 0 .. LeaseTicks]
  /\ token \in [Deployments -> Nat]
  /\ sequence \in [Deployments -> Nat]
  /\ lastClose \in [Deployments -> 0 .. MaxCandle]
  /\ cycles \subseteq (Deployments \X Candles)
  /\ closed \in 0 .. MaxCandle
  /\ held \in [Workers -> Leases \cup {NoLease}]
  /\ decided \in [Deployments -> Seq(Candles)]
  /\ upsets \in 0 .. MaxUpsets

\* A card not followed yet, or not any more, has an ended deployment.
LeaseInit ==
  /\ status \in [Deployments -> {"active", "ended"}]
  /\ owner = [d \in Deployments |-> NoWorker]
  /\ ttl = [d \in Deployments |-> 0]
  /\ token = [d \in Deployments |-> 0]
  /\ sequence = [d \in Deployments |-> 0]
  /\ lastClose = [d \in Deployments |-> 0]
  /\ cycles = {}
  /\ closed = 0
  /\ held = [w \in Workers |-> NoLease]
  /\ decided = [d \in Deployments |-> <<>>]
  /\ upsets = 0

Busy(w) == held[w] # NoLease

\* The row still carries the lease the worker remembers.
Owns(w) == owner[held[w].dep] = w /\ token[held[w].dep] = held[w].token

Upset ==
  /\ upsets < MaxUpsets
  /\ upsets' = upsets + 1

ClearLease(d) ==
  /\ owner' = [owner EXCEPT ![d] = NoWorker]
  /\ ttl' = [ttl EXCEPT ![d] = 0]

\* Mutant: the release forgets its WHERE lease_owner AND fencing_token.
ReleaseAnyLease(w) == ClearLease(held[w].dep)

\* UPDATE ... WHERE lease_owner = w AND fencing_token = t, matching one row or none.
ReleaseIfOwned(w) ==
  IF Owns(w) THEN ClearLease(held[w].dep) ELSE UNCHANGED <<owner, ttl>>

ForgetLease(w) == held' = [held EXCEPT ![w] = NoLease]

-----------------------------------------------------------------------------
(* The market and the clock *)

CandleCloses ==
  /\ closed < MaxCandle
  /\ closed' = closed + 1
  /\ UNCHANGED <<rows, held, upsets>>

\* A lease whose holder still runs lapses only by an upset: its heartbeat was late.
Age(d) ==
  /\ ttl[d] > 0
  /\ ttl' = [ttl EXCEPT ![d] = @ - 1]
  /\ IF ttl[d] = 1 /\ \E w \in Workers : Busy(w) /\ held[w].dep = d /\ Owns(w)
       THEN Upset
       ELSE UNCHANGED upsets
  /\ UNCHANGED <<status, owner, token, sequence, lastClose, cycles, decided, closed, held>>

-----------------------------------------------------------------------------
(* Workers *)

\* Mutant: only a released lease is taken, never a lapsed one.
Unowned(d) == status[d] = "active" /\ owner[d] = NoWorker

Leasable(d) == status[d] = "active" /\ ttl[d] = 0

\* Mutant: taking the lease over keeps the token of the worker that lost it.
SameToken(d) == token[d]

NextToken(d) == token[d] + 1

\* FOR UPDATE SKIP LOCKED serialises the workers that ask at the same time.
Acquire(w, d) ==
  /\ ~Busy(w)
  /\ Leasable(d)
  /\ owner' = [owner EXCEPT ![d] = w]
  /\ ttl' = [ttl EXCEPT ![d] = LeaseTicks]
  /\ token' = [token EXCEPT ![d] = NextToken(d)]
  /\ held' = [held EXCEPT ![w] =
       [dep |-> d, token |-> NextToken(d), last |-> lastClose[d], candle |-> 0]]
  /\ IF lastClose[d] = closed THEN Upset ELSE UNCHANGED upsets
  /\ UNCHANGED <<status, sequence, lastClose, cycles, decided, closed>>

\* The heartbeat: it cannot revive a lease that already lapsed.
Renew(w) ==
  /\ Busy(w)
  /\ Owns(w)
  /\ status[held[w].dep] = "active"
  /\ ttl[held[w].dep] > 0
  /\ ttl' = [ttl EXCEPT ![held[w].dep] = LeaseTicks]
  /\ UNCHANGED <<status, owner, token, sequence, lastClose, cycles, decided, closed, held, upsets>>

\* The newest candle for a deployment that never decided, else the first later one.
NextCandle(last) == IF last = 0 THEN closed ELSE last + 1

\* Mutant: the candle still forming counts as closed.
FormingCandleIsDue(w) == closed >= held[w].last

HasDueCandle(w) == closed > held[w].last

Select(w) ==
  /\ Busy(w)
  /\ held[w].candle = 0
  /\ HasDueCandle(w)
  /\ held' = [held EXCEPT ![w].candle = NextCandle(held[w].last)]
  /\ UNCHANGED <<rows, closed, upsets>>

\* No new candle: give the lease back. A lost lease makes the call throw instead.
Defer(w) ==
  /\ Busy(w)
  /\ held[w].candle = 0
  /\ ~HasDueCandle(w)
  /\ ReleaseIfOwned(w)
  /\ ForgetLease(w)
  /\ UNCHANGED <<status, token, sequence, lastClose, cycles, decided, closed, upsets>>

HasCycle(w) == <<held[w].dep, held[w].candle>> \in cycles

\* Mutant: the commit checks that the deployment runs, not who holds it.
MayCommitUnfenced(w) == status[held[w].dep] = "active"

\* The guarded UPDATE of the commit: owner, token and status, not the lease's expiry.
MayCommit(w) == Owns(w) /\ status[held[w].dep] = "active"

CommitCycle(w, persisted) ==
  LET d == held[w].dep
      c == held[w].candle
  IN /\ Busy(w)
     /\ c # 0
     /\ ~HasCycle(w)
     /\ MayCommit(w)
     /\ sequence' = [sequence EXCEPT ![d] = @ + 1]
     /\ lastClose' = [lastClose EXCEPT ![d] = c]
     /\ ClearLease(d)
     /\ cycles' = IF persisted THEN cycles \cup {<<d, c>>} ELSE cycles
     /\ decided' = [decided EXCEPT ![d] = Append(@, c)]
     /\ ForgetLease(w)
     /\ UNCHANGED <<status, token, closed, upsets>>

\* The row exists already: the lease is cleared where the token matches, whoever owns it.
CommitDuplicate(w) ==
  /\ Busy(w)
  /\ held[w].candle # 0
  /\ HasCycle(w)
  /\ IF token[held[w].dep] = held[w].token
       THEN ClearLease(held[w].dep)
       ELSE UNCHANGED <<owner, ttl>>
  /\ ForgetLease(w)
  /\ UNCHANGED <<status, token, sequence, lastClose, cycles, decided, closed, upsets>>

\* The guarded UPDATE matched no row: rollback, then the worker's catch block.
CommitFenced(w) ==
  /\ Busy(w)
  /\ held[w].candle # 0
  /\ ~HasCycle(w)
  /\ ~MayCommit(w)
  /\ ReleaseIfOwned(w)
  /\ ForgetLease(w)
  /\ UNCHANGED <<status, token, sequence, lastClose, cycles, decided, closed, upsets>>

\* Any error of the cycle: market data, evaluation, database.
Fail(w) ==
  /\ Busy(w)
  /\ ReleaseIfOwned(w)
  /\ ForgetLease(w)
  /\ Upset
  /\ UNCHANGED <<status, token, sequence, lastClose, cycles, decided, closed>>

\* The process dies: the row keeps its lease until it lapses.
Crash(w) ==
  /\ Busy(w)
  /\ ForgetLease(w)
  /\ Upset
  /\ UNCHANGED <<rows, closed>>

-----------------------------------------------------------------------------
(* The customer *)

Pause(d) ==
  /\ status[d] = "active"
  /\ status' = [status EXCEPT ![d] = "paused"]
  /\ ClearLease(d)
  /\ Upset
  /\ UNCHANGED <<token, sequence, lastClose, cycles, decided, closed, held>>

\* A mode or symbol switch ends the deployment it replaces.
End(d) ==
  /\ status[d] \in {"active", "paused"}
  /\ status' = [status EXCEPT ![d] = "ended"]
  /\ ClearLease(d)
  /\ Upset
  /\ UNCHANGED <<token, sequence, lastClose, cycles, decided, closed, held>>

\* Following the card again reactivates the row, whatever its status, lease cleared.
Reactivate(d) ==
  /\ status' = [status EXCEPT ![d] = "active"]
  /\ ClearLease(d)
  /\ Upset
  /\ UNCHANGED <<token, sequence, lastClose, cycles, decided, closed, held>>

-----------------------------------------------------------------------------

LeaseStep(w) ==
  \/ \E d \in Deployments : Acquire(w, d)
  \/ Renew(w)
  \/ Select(w)
  \/ Defer(w)
  \/ \E persisted \in BOOLEAN : CommitCycle(w, persisted)
  \/ CommitDuplicate(w)
  \/ CommitFenced(w)
  \/ Fail(w)
  \/ Crash(w)

DeploymentStep(d) ==
  \/ Age(d)
  \/ Pause(d)
  \/ End(d)
  \/ Reactivate(d)

LeaseNext ==
  \/ CandleCloses
  \/ \E w \in Workers : LeaseStep(w)
  \/ \E d \in Deployments : DeploymentStep(d)

LeaseSpec == LeaseInit /\ [][LeaseNext]_leaseVars

\* An assumption the code does not give: the commit of a selected candle succeeds when it is
\* kept trying. A hold that meets a due market summary inserts an explanation job for a cycle row
\* it does not write; the foreign key fails every retry (strategy-runtime-repository.ts:930,
\* 0013_runtime_explanations.sql:48), and the candle waits while its decision is a hold. What is
\* assumed is that this does not last for ever; ExplanationJobs has the failure. Other errors are
\* Fail and Crash, which MaxUpsets bounds.
CommitsSucceed ==
  \A w \in Workers : WF_leaseVars(Defer(w) \/ CommitDuplicate(w) \/ CommitFenced(w)
                                  \/ \E persisted \in BOOLEAN : CommitCycle(w, persisted))

\* A worker keeps running its cycle; time passes; ORDER BY next_cycle_at serves the
\* deployment that waits longest, so no due deployment is passed over for ever.
Fairness ==
  /\ \A d \in Deployments : SF_leaseVars(\E w \in Workers : Acquire(w, d))
  /\ \A d \in Deployments : WF_leaseVars(Age(d))
  /\ \A w \in Workers : WF_leaseVars(Select(w))
  /\ CommitsSucceed

FairSpec == LeaseSpec /\ Fairness

-----------------------------------------------------------------------------
(* Properties *)

\* The candles a deployment decided on are strictly increasing: no candle is decided
\* twice by workers that overlap, and last_cycle_sequence and last_candle_close_at
\* count and name exactly those decisions. A hold leaves no cycle row, so the unique
\* key of strategy_runtime_cycles does not give this; the fencing guard does.
DecidedOnce ==
  \A d \in Deployments :
    /\ \A i, j \in DOMAIN decided[d] : i < j => decided[d][i] < decided[d][j]
    /\ sequence[d] = Len(decided[d])
    /\ lastClose[d] = IF decided[d] = <<>> THEN 0 ELSE decided[d][Len(decided[d])]

\* A worker whose token is current computes from the deployment's current last candle,
\* although it read it when it took the lease and the row lock is long gone.
HolderViewIsFresh ==
  \A w \in Workers :
    Busy(w) /\ token[held[w].dep] = held[w].token
      => held[w].last = lastClose[held[w].dep]

\* A worker's step (it gives up what it holds; a customer's does not) clears a lease only
\* if it is its own, on a commit, a deferral or an error alike: in particular the
\* duplicate branch of the commit, which does not check lease_owner, never releases
\* the deployment under another worker.
ReleaseOnlyOwnLease ==
  [][\A d \in Deployments :
       owner[d] # NoWorker /\ owner'[d] = NoWorker /\ held' # held
         => /\ Busy(owner[d])
            /\ held[owner[d]].dep = d
            /\ held[owner[d]].token = token[d]
            /\ held'[owner[d]] = NoLease]_leaseVars

Log == INSTANCE CandleLog WITH market <- closed, log <- decided

\* The runtime implements the append-only candle log that readers rely on.
ImplementsCandleLog == Log!Spec

\* Crashes, errors and late heartbeats delay a deployment but do not strand it: a
\* closed candle is decided as long as the deployment stays active, provided that its commit
\* can succeed (CommitsSucceed: no hold is retried for ever over a due market summary).
EveryCandleDecided ==
  \A d \in Deployments, c \in Candles :
    (closed >= c /\ status[d] = "active") ~> (lastClose[d] >= c \/ status[d] # "active")
=============================================================================
