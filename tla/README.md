# AgentNovas platform: a verification development

TLA+ models of the concurrent core of the AgentNovas platform (the strategy
runtime, the customer's money, and the machinery that operates the platform), the TLC
configurations that check them on small instances, and TLAPS proofs of the
theorems that matter most. Every definition is translated from the TypeScript
source (`src/`); `PROJECT.json` names the lines each one stands for.

Contents

1. Inventory: the system, its parts, what is hard about them
2. The modules, and how they correspond to the code
3. What each run checks, its bounds, and what it shows
4. Fairness
5. Proofs
6. Divergences found
7. What is abstracted, and what is not modelled
8. What is left

## 1. Inventory

The platform runs trading strategies ("cards") for customers. A customer
follows an official card in *paper* or *shadow* mode, which gives a deployment;
a runtime worker (`scripts/strategy-runtime-worker.mjs`) runs one *cycle* of a
deployment for each closed candle. All state is in PostgreSQL and all
concurrency is between processes: several runtime workers, the Next.js request
handlers of the customer, operations and maintenance applications, and
maintenance jobs called by a scheduler. Coordination is by row locks, guarded
`UPDATE`s, unique keys, leases with fencing tokens, and advisory locks. Live
trading exists in the source but is closed by a named gate.

| Component | Where | State | Operations | Why it is hard |
|---|---|---|---|---|
| Strategy runtime lease and cycle commit | `lib/strategy-runtime-repository.ts`, `lib/strategy-runtime-worker.ts` | `strategy_deployments` (status, lease_owner, lease_expires_at, fencing_token, last_cycle_sequence, last_candle_close_at), `strategy_runtime_cycles` | lease, heartbeat, choose candle, commit, defer, fail, pause, end, follow | several workers, leases that lapse during a cycle, a commit guarded by a token and an older branch that is not |
| Official paper book | `lib/official-paper-repository.ts`, `packages/domain/src/official-paper-portfolio.ts` | `official_paper_portfolios`, positions, order intents, receipts, ledger | admit, settle at an open or a threshold, mark | one queue per portfolio, money that must add up, access that is computed at run time and stored as well |
| Emergency stop, customer status, membership | `app/api/maintenance/trading/emergency-stop/`, `lib/operations-customer-service.ts`, `lib/membership-lifecycle.ts` | stop rows, `users.status`, `memberships` | stop, lift, freeze, restore, activate, reconcile | four independent parties write `access_status`, one of them in several statements |
| Card cycle over lease and book | `lib/strategy-runtime-worker.ts`, `strategy-runtime-engine.ts` | what a worker remembers between its steps | settle, read access, read position, evaluate, commit | nothing is locked between the steps; only the commit checks the token |
| Shared rounds and explanation jobs | `lib/strategy-runtime-repository.ts`, `lib/strategy-runtime-worker.ts` | rounds, runtime events, `strategy_explanation_jobs` | create or join a round, enqueue, claim, complete, fail, retry | deployments of different customers share a round; two tables show one status |
| Notification outbox | `lib/notification-email-worker.ts`, `lib/resend-webhook.ts` | deliveries, attempts, suppressions | claim, send, confirm, retry, suppress, webhook, purge | external effect before the record of it; webhooks out of order; secrets removed while a worker still holds the row |
| AI credits and client inference | `lib/ai-credit-service.ts`, `packages/domain/src/credits/credit-ledger.ts`, `lib/client-ai-inference-service.ts`, `lib/credit-adjustment-service.ts` | accounts, reservations, inference requests, adjustments | reserve, settle, release, expire, adjust | reservation against late settlement, expiry in between, retries under one key |
| Wallet, deposits and payments | `lib/commercial-ledger-service.ts`, `lib/udun-payment.ts`, `lib/deposits.ts`, the deposit routes of the three applications | wallet, ledger, deposit orders, provider events, action requests | create an order, ask for an address, callback, request and approve a credit | the address is asked outside a transaction; callbacks are duplicated and reordered; two persons |
| Membership orders and performance fees | `lib/commercial-membership-service.ts`, `lib/membership-wallet-payment.ts`, `lib/performance-fee-service.ts`, `lib/performance-fee-wallet-payment.ts` | orders, memberships, entitlements, evidence, statements, high-water marks | create, record evidence, submit, decide, pay from the wallet; generate, assess, confirm | two routes pay one order; one reference, two tables; trades settled into a week that is over |
| Versioned configuration | `lib/versioned-configuration-service.ts`, `lib/configuration-activation-worker.ts` | versions, tests, approvals, schedules, activations | create, test, review, schedule, activate, roll back | scheduled activation races activation by hand and rollback; four-eyes approval |
| Restricted CI/CD target | `lib/restricted-cicd-target-journal.ts`, `-engine.ts`, `-adapter.ts`, `scripts/release-target-gateway.mjs`, migrations `0082`, `0083` | a file journal, lock directories, containers, a pending stop | journal, cut over, verify, publish, stop, clear, recover | crash between an effect and its journal line; a stop that competes for the mutex |
| Restricted CI/CD commands | migrations `0077`, `0081`, `0083`, `0087`, `lib/restricted-cicd-worker.ts` | `release_workflow_commands`, `_command_states`, attempts, run facts, target receipts, stops, `release_workflow_environment_states` | request, review, claim, begin, bind, record unknown, recover, reconcile, reserve, validate, accept a receipt, stop, clear | dispatchers that lose their lease between two calls; a run's conclusion and the target's receipts in either order; a stop in between |
| Platform demo execution | `lib/platform-demo-execution.ts`, `lib/platform-demo-adapters.ts` | leased demo orders | claim, place, query, adopt, reconcile | crash between the provider call and the record |
| Maintenance idempotency | `lib/maintenance-idempotency.ts` | command claims and stored answers | claim, execute, replay, close as unknown | a claimant that dies, or is late, between claim and answer |
| Live execution | `lib/execution/`, `lib/live-book-posting.ts` | orders, books, kill switches | route, post, kill, reconcile | closed by `isLiveExecutionReady` |
| Attribution and access changes; AI control plane, gateway, secret brokers; sessions, MFA, invitations; release versions, audit anchor; research pipeline and backtests; legacy perpetual runtime; market data adapters | see `PROJECT.json` | | | mostly I/O, numeric evaluation, or short flows of one transaction |

How the modelled parts interact:

```
 market ──closed candle──▶ RuntimeLease ──leased cycle──▶ paper book (settle, admit)
                              │                               ▲
                              │ commit                        │ access_status, queue
                              ▼                               │
                 rounds, events, explanation jobs     stop / freeze / restore /
                              ▲                       membership lifecycle
                              │ claim, answer
                       explanation workers

 provider ──callbacks──▶ Deposits ──credit──▶ wallet ──▶ MembershipOrders ──access, credits──▶ AiCredits
                                               │               │ entitled weeks
                                               ▼               ▼
 paper book ──realised result──────────▶ PerformanceFees ◀──evidence (shared references)──▶ MembershipOrders

 ReleaseCommands ◀──receipts, stop──▶ ReleaseTarget
 outbox, demo orders, configuration, maintenance commands: on their own
```

What makes each modelled part correct:

* *Lease and commit*: each closed candle is decided at most once, in order,
  whichever workers overlap; only the holder of a lease gives it up; no candle
  of an active deployment is stranded.
* *Paper book*: the accounting identity; a ledger that is one running account;
  an intent is filled at most once; a restriction never lets an entry through
  and never keeps the customer from getting out.
* *Stops and statuses*: a stop drops the entries it found, whoever restores the
  portfolio meanwhile; lifting a stop brings nothing back by itself.
* *Cycle*: decisions made from unlocked reads never leave two orders open, nor
  intents out of candle order, whatever symbol or mode the customer switches to;
  a fill never precedes the decision; an open
  position always has a deployment that manages it.
* *Explanations*: the status shown beside an event is that of its job; finished
  explanations stay finished; each job ends; no explanation blocks a cycle.
* *Credits*: what is reserved is exactly what is in progress; charged exactly
  if delivered; one key is one inference, repairs included; credits neither appear nor vanish.
* *Money*: the wallet is what deposits brought less what was paid from it; one
  transfer credits one order; one payment reference pays for one thing; nobody
  completes a movement of money alone.
* *Memberships and fees*: a period of access was paid for; a week's profit is
  charged once and above the mark; weeks follow each other.
* *Outbox*: every delivery is tried until it ends; what lost its secret is not
  queued again.
* *Demo orders*: at most one order per intent, and no order that nobody looks
  after.
* *Configuration*: what is in force was tested and reviewed by another person,
  and each activation follows the one before it.
* *Commands*: a key takes effect once and gives one answer.
* *Release commands*: no two attempts can proceed at once; a release replaces
  what its approvers saw; a closed status is true of what became of the services.
* *Release target*: a stop acknowledged before the cutover keeps the cutover
  from happening, whatever crashes.

`PROJECT.json` lists every component with its status, and under `hazards` each
line where one of the difficulties above bites, with the properties that cover
it or the reason that none does yet.

## 2. The modules

| Module | Role | Models |
|---|---|---|
| `CandleLog` | abstract specification | the promise to a reader of the history: an append-only log of decided candles per deployment |
| `OfficialCard` | shared declarations | the deployments and the closed candles that lease and book speak of |
| `RuntimeLease` | component | lease, heartbeat, fencing, candle choice, commit with its branches, failure, crash, pause, end, follow |
| `PaperBook` | component | intents, position, cash, ledger, access, and the stop, freeze, restore and membership transactions |
| `PaperBookProofs` | proofs | the book invariant, balance, running ledger, exits, entries; the queue's invariant, single fills, dropped entries |
| `StrategyRuntime` | composition | `RuntimeLease` and `PaperBook` joined by the steps of a worker's cycle |
| `StrategyRuntimeProofs` | proofs | the lease invariant, the theorems drawn from it, refinement of `CandleLog`; the invariants of lease and book in the composition, order of the intents, one open order |
| `ExplanationJobs` | component | shared rounds, events, explanation jobs |
| `ExplanationJobsProofs` | proofs | the queue's invariant, the two columns that agree, finished explanations |
| `AiCredits` | component | the credit account, inference requests and their handlers, adjustments |
| `CreditAccount` | abstract specification | the promise to a customer: one reservation and one ending for each use, and no charge above the estimate |
| `CommercialLedger` | helper component | the wallet and the posting of a transaction under its key |
| `PaymentEvidence` | helper component | evidence of outside payments, unique by fingerprint |
| `Deposits` | component | deposit orders, addresses, provider callbacks, crediting by two persons |
| `MembershipOrders` | component | orders, the two ways to pay them, memberships, grace and lapse |
| `PerformanceFees` | component | weekly statements, assessment, payment, high-water mark |
| `PaymentBook` | abstract specification | the promise to a bookkeeper: one receipt for each thing payable, never changed, covered by the wallet or by a reference of its own |
| `Commerce` | composition | the five above over one wallet, one table of references, one credit account |
| `NotificationOutbox` | component | claim, send, outcome, lapse, retry, webhook, suppression, purge |
| `PlatformDemo` | component | lease, place, query, remember, complete and fail of a demo order |
| `VersionedConfiguration` | component | one configuration stream and its activation worker |
| `MaintenanceIdempotency` | component | claim, run, close, expire, replay |
| `ReleaseTarget` | component | journal, mutex, cutover, health, receipts, stop, crash and recovery |
| `ReleaseCommands` | component | the queue of releases of one environment: requests, dispatch, run, receipts, stop |
| `Operations` | composition | the six above, one of them in a behaviour |
| `Sums` | proofs | sums over finite sets |
| `AiCreditsProofs` | proofs | the account and its requests |
| `CommerceProofs` | proofs | deposits, memberships, evidence and fees, and their composition over one wallet |
| `ReleaseProofs` | proofs | the release target and the queue of releases |
| `OperationsProofs` | proofs | outbox, demo orders, commands, configuration, and the composition of the six |
| `MCPaperBook`, `MCStrategyRuntime`, `MCCommerce` | model checking | values of constants, symmetry |

### RuntimeLease

One row of `strategy_deployments` per element of `Deployments`. `status`,
`owner`, `token`, `sequence` and `lastClose` are its columns; `ttl` is the time
left to `lease_expires_at`. `cycles` is the unique key of
`strategy_runtime_cycles`; `held[w]` is the lease object a worker process keeps
in memory (`dep`, `token`, the `last` candle it was given with the lease, and
the `candle` it selected). `decided` and `upsets` are not in the code: a
history of the commits, and a counter that bounds what goes wrong.

| Action | Code |
|---|---|
| `Acquire` | the lease query with `FOR UPDATE SKIP LOCKED` that sets the owner and adds one to the token |
| `Renew` | the heartbeat: owner, token, status and an expiry that has not passed |
| `Select`, `Defer` | the worker's choice of candle, or the release when none is due |
| `CommitCycle` | the guarded `UPDATE` (owner, token, status) with the cycle row, which a hold does not write |
| `CommitDuplicate` | the branch for an existing cycle row, which clears a lease by token alone |
| `CommitFenced` | the guarded `UPDATE` that matches no row, and the worker's `catch` |
| `Fail`, `Crash` | an error inside the cycle; a process that dies with its lease |
| `Pause`, `End`, `Reactivate` | the customer's actions, each of which clears the lease |
| `Age`, `CandleCloses` | time, the market |

### PaperBook

One portfolio, shared by the deployments of a card. `SymbolOf[d]` is the symbol a
deployment trades, `pos[s]` the position in a symbol; an intent has the symbol of
its deployment, and a sell closes the whole position in it. `WithinLimits` is the
card's contract: per symbol, in total, on the number of symbols and on the entries
of a day. `access` is `access_status`; `membership`, `overdue` (the
deadline passed and the lifecycle job did not run), `frozen` and `stopped` are
what it is derived from; `intents` is the queue in `created_at` order; `pos`,
`cash`, `realized` and `ledger` are the books. `Constrained` is
`constrainedOfficialPaperAccess`: what the code computes at run time from the
stored status, membership and stop. `EntriesAllowed` has two members while a
deadline has passed without reconciliation, because the code compares the
deadline with the candle's time, not with the clock.

Every action is one transaction that holds the portfolio row, except the
emergency stop. The stop's `UPDATE` decides by the position its snapshot sees,
and writes only rows that are not as they should be; a row it does not write it
does not lock. So the stop is `StopBegins` (snapshot), then either
`StopRestricts` (it wrote the row and holds it to the end), or
`StopEmptiesQueue` and `StopCommits`, between which a fill, a freeze or a
restore may change the row. `Activate` in a stop takes the same shape inside
one transaction under the advisory lock, and is one step.

### StrategyRuntime

Extends both components, over the union of their variables, with `stage[w]`
(the step the worker does next) and `view[w]` (the access and the position it
read). A card has two or three symbols, and the key of a deployment
(`platform-follow:code:symbol:mode`, unique per customer) has both, so a
portfolio has several deployments, of which no two on paper have the same symbol
(`CardConstants`). A cycle is `SelectCandle`, `SettleAtOpen` (paper only),
`ReadAccess`, `ReadPosition`, `Complete`; `LeaseKeeping`, `Abandon`, `Time`,
`Custody`, `PauseCard` and `Follow` interleave with every step. The strategy's
signal is a free choice: `CommitHold`, `CommitBlocked`, `CommitEntry` or
`CommitExit`, restricted to what the engine may answer for the position and
access it was shown. `Follow` is the switch of symbol or mode:
it ends the card's other deployments unless the portfolio holds a position, in
whatever symbol. It does not look at orders, so the pending ones of a deployment
it ends stay, and may fill when the customer switches back.

### ExplanationJobs

The deployments of one card and symbol share a round per candle.
`eventCycle[c]` is the cycle the events of round `c` name: that of the
deployment that created the round, `NoCycle` if it held (a hold has no cycle
row), `NoRound` before. `explained[k]` is the status on the event and `job[k]`
the job row. `queue` orders the due jobs by `next_attempt_at`; a job in
`retry_wait` re-enters at its end (`RetryDue`). `Claim` picks as
`FOR UPDATE SKIP LOCKED LIMIT 1` does, before the join with the event, which is
where a job without its event gets stuck.

### AiCredits

`account` is the row of `ai_credit_accounts`; `inference[r]` joins a
`client_ai_inference_requests` row with its reservation; `handler[h]` is an
HTTP request in flight. The handler's transactions are its steps:
`ReconcileStale` (release what expired, for this key), `ReadReplay`, `Begin`
(insert and reserve), `CallModel`, `RepairReply`, `Complete` (store and settle) or
`Fail` (release). Two routes run them. The assistant's reserves for
`1 + STRATEGY_REPAIR_ATTEMPTS` calls, and a reply whose strategy does not validate
goes back to the model under the same key (`RepairReply`, at most `Repairs` times,
`lib/ai-assistant.ts:113-141`); the strategy studio's has no repairs, the case
`Repairs = 0` or a reply that validates. `HandlerDies` may come between any two of them; `Cancel` and
`Expire` are the customer's cancel and the clock. `SubmitAdjustment`,
`ApproveAdjustment` and `RejectAdjustment` are the operations staff. Every
change of the account goes through `Mutate`, which is the service's guarded
write. `modelCalls`, `charged` and `granted` are histories. Seen as an account,
the credits implement `CreditAccount` (`ImplementsCreditAccount`): a reservation's
state is that of its row, and handlers, keys, expiry and staff are not seen.

### CommercialLedger, PaymentEvidence

`PostTransaction` is the posting under an idempotency key: the same content
again changes nothing, other content is refused, a wallet that does not cover
it rolls the caller back. `RecordEvidence` inserts under the fingerprint that
membership orders and performance fees share; `Decidable` and `MarkEvidence`
are the reviewer's part. A caller conjoins them to its own changes, as the code
runs them in its transaction.

### Deposits

`creator[d]` is the request that creates an order: it checks for an open order
(`CheckDeposit`), reserves one (`ReserveDeposit`), asks the provider for an
address outside any transaction (`AskAddress`), stores or gives up
(`StoreAddress`), or dies. `Send` is the chain. `Callback` is the whole
handler: dedupe by `tradeId`, find the order by address, then a confirmation,
an unconfirmed transfer, a refusal or a mapping to another order. `AskAction`,
`ApproveCredit` and `CloseWithoutFunds` are the tickets of the operations
staff; crediting posts to the ledger.

### MembershipOrders, PerformanceFees

The clock counts billing periods; a settlement week is one of them. An order
goes `CreateOrder`, `RecordOrderEvidence`, `SubmitOrder`, `ApproveOrder` or
`RejectOrder`, or `PayOrderFromWallet` at once. `Expiry`, `Renewed` and
`SetMembership` are the date arithmetic of both routes; `EndPeriod` is the
lifecycle job (grace, read-only). `net[w]` is the paper book as the fee service
sees it; `Realise` may still change a week that is over, because a trade counts
for its candle's week. `Generate`, `Assess`, `RecordFeeEvidence`,
`RefusePayment`, `ConfirmPayment` and `PayFeeFromWallet` are the service's
handlers; `MarkAfter` is the high-water mark.

### NotificationOutbox

`delivery[d]` is the row, `secret[d]` what is left of its payload. A worker
does `ClaimDelivery` (`FOR UPDATE SKIP LOCKED`, owner and lease), `Prepare`
(suppression, quiet hours, rendering), `Send`, then `MarkSent` or
`MarkFailed`; the latter two are guarded by the owner. `LeaseLapses` and
`FallsDue` are time. `Webhook` applies an event by rank and time; `Purge` is
the cleanup of secrets. The provider accepts a message once per delivery.

### PlatformDemo

`demo[i]` is the intent with its fencing token, `executor[w]` a worker with the
token it was given. `LeaseIntent` tells the worker whether an order may exist;
`CheckEnabled`, `Place`, `Query`, `Remember`, `ReadFills`, `CompleteIntent` and
`FailIntent` are its steps, `ExecutorCrash` may follow each. `exchange[i]` is
the order itself; any call to it may go unanswered. `Fenced` is the comparison
of the token.

### VersionedConfiguration

Versions, tests, reviews, schedules and activations are rows that are only
inserted; the current version is that of the last activation. `ActivateByHand`
and `Rollback` compare the version they replace; `Scan` is the worker's query
and `ProcessDue` one version of its batch, in a transaction of its own, so
hands and clocks move in between.

### MaintenanceIdempotency

`claim[k]` is the record of a key, `caller[c]` a request. `ClaimKey` answers
from the record, closes an expired claim as unknown, or claims. An internal
command takes effect and is recorded in one transaction; an external one is
`CallOut` and then `CompleteClaim`, between which the claim may expire.

### ReleaseTarget

One operation of one environment. `journal` is the list of checkpoints,
`receipts` what the platform accepted of it, `running` what the containers run,
`opLock` and `envLock` the lock directories with the way a dead process leaves
them. `step` walks the handler of the operation: `Load` (which decides from the
journal how to resume), `ValidateAuthority`, `PrepareAndBackUp`, `Migrate`,
`EnterMutex`, `Fence`, `Probe`, `ValidateCutover`, `ComposeUp`, `WriteMarker`,
`CutoverReturns`, `PublishCutover`, `HealthCheck`, `Publish`. The stop's handler
is `BeginStop`, `AppendStop`, `RemovePending`; the platform's part is
`RequestPlatformStop`, `ReceiptOfStop`, and the clear. `Crash` ends both
handlers at any point; `RecoverMutex` and `RecoverOperationLock` take over a
lock whose owner is dead and named.

### ReleaseCommands

`request[c]` joins the command with its approval, its one attempt, and the last
fact recorded of attempt, run and operation (the tables of facts are
append-only; the columns of the command are their projection). `environment` is
the row of `release_workflow_environment_states`, `dispatcher[c]` the place in
the worker's iteration. `target[c]` (how far the target's operation is), `deployed`
(the set of releases its services run, one except half way) and `activeMarker`
(the release its marker file names) are what really happened, which the platform
learns from receipts only.

| Action | Code |
|---|---|
| `RequestRelease`, `ReviewRelease` | the command with the generation and the expected release its approvers see; the approval |
| `ClaimRelease`, `BeginDispatch`, `PostDispatch`, `BindRun`, `RecordUnknown`, `DispatcherDies` | one iteration of the worker, each database call a transaction of its own, the POST to the provider between two of them |
| `RecoverDispatch`, `LeaseRunsOut` | the recovery each iteration starts with; the clock |
| `RunReported`, `RejectRun` | the reconciler's fact about the run, as late as it likes; a run that is not the one asked for |
| `ReserveOperation`, `ReceiptAppended` | the target's calls |
| `MigrationsApplied`, `CutoverValidated` | the target after it asked for authority: the migrations, which no later failure takes back, and the cutover fence |
| `ServicesReplaced`, `MarkerCommitted` | `compose up`, which replaces the services one after another and may be left half way; the marker, written after it or by a later process that finds the release running |
| `StopEnvironment`, `StopConfirmed`, `ClearEnvironment` | the emergency stop, its one receipt, its end |

`StatusFrom` and `EnvironmentFrom` are the projection function that the insert of
every fact runs: status and environment are computed anew from the last facts,
so they must not depend on which of them came first. `SnapshotHolds` compares
the environment with what was approved; `MarkerAgrees` is the target's own
comparison, of its marker; `Truthful` says which receipts the target may write
from where it is, among them a stop's receipt from anywhere; `HoldsAttempt` is the fence of begin and
bind.

### Commerce, Operations

Both conjoin components that would multiply each other's states. `focus`, fixed
initially, says which of them move in a behaviour. `Operations` has no shared
state, so nothing is lost by that. In `Commerce` the parts meet in the wallet,
the references, the credit account and the entitlements: orders run in full on
their own, and one order paid from the wallet joins deposits and both ways to
run fees. At its end, `Commerce` reads off the rows what was paid: `Receipts` gives
each deposit, order and statement how it was paid, what that did to the wallet and
the accepted references; with it the whole implements `PaymentBook`
(`ImplementsPaymentBook`).

## 3. Runs

| Run | Instance | Distinct states | Expect | Properties |
|---|---|---|---|---|
| `RuntimeLease` | 1 deployment, 2 workers, 3 candles, leases of 2 ticks, 3 upsets | 30,162 | pass | `LeaseTypeOK`, `DecidedOnce`, `HolderViewIsFresh`, `ReleaseOnlyOwnLease`, `ImplementsCandleLog`, `EveryCandleDecided` |
| `PaperBook` | 2 symbols, a paper deployment of each (symmetric), 2 candles, 3 intents, 1 price | 4,004,776 | pass | `BookTypeOK`, `BooksBalance`, `LedgerRuns`, `FilledOnce`, `StopDropsEntries`, `NoEntryWhileRestricted`, `ExitNeverRefused` |
| `StrategyRuntime` | 2 symbols; paper deployments of both and a shadow one, 2 workers (symmetric), 3 candles, 3 intents, 2 upsets | 1,751,293 | pass | `IntentsInCandleOrder`, `OneOpenOrder` |
| `ExplanationJobs` | 2 deployments, 2 workers, 2 candles, 2 roles with a model, 1 upset | 1,431,213 | pass | `EventShowsItsJob`, `FinishedStaysFinished` |
| `ExplanationJobsLive` | 1 deployment, 1 worker, 2 attempts, 2 candles, 2 roles, 1 upset | 52,009 | pass | `EveryJobFinishes` |
| `Commerce` | 4 staff (symmetric); 2 requests, 2 handlers, 1 repair, 1 adjustment; 2 deposit orders, transfers, transactions and tickets; 2 orders, 2 references, 3 periods; 3 statements | 1,728,743 | pass | `CommerceTypeOK`, `ReservedIsHeld`, `ChargedIffDelivered`, `CreditsConserved`, `OneInference`, `CreditMatchesTransfer`, `OneAddressAtATime`, `AccessIsPaidFor`, `ProfitChargedOnce`, `WeeksInSequence`, `WalletMatchesPayments`, `ReferencePaysOnce`, `ReviewedByOthers` |
| `Operations` | 1 delivery, 2 senders, 3 attempts; 2 demo intents, 2 executors, 4 leases; 2 versions, 2 editors, 3 activations; 2 keys, 2 callers; 3 crashes of the release target; 2 releases requested of 2 candidates, 3 generations | 2,988,130 | pass | `OperationsTypeOK`, `PurgedIsNeverQueued`, `OneTrackedOrder`, `ConfigurationInForce`, `CommandRunsOnce`, `StopFencesCutover`, `ReleasesInTurn`, `StatusTellsTheOutcome`, `OutboxKeepsTrying` |
| `StrategyRuntimeLookAhead` | as `StrategyRuntime`, 2 candles | | violation | `NoLookAhead` |
| `StrategyRuntimeSwitch` | as `StrategyRuntime`, 2 candles | | violation | `PositionIsManaged` |
| `PaperBookStop` | as `PaperBook` | | violation | `LiftRestoresNothing` |
| `ExplanationJobsHold` | 1 deployment, 1 worker, 1 candle | | violation | `ExplanationsNeverBlock` |
| `ExplanationJobsShared` | 2 deployments, 1 worker, 1 candle, 1 role | | violation | `EveryJobFinishes` |

What they show.

* `RuntimeLease`: two workers on one deployment overlap, crash, fail, renew
  late and lose their leases at every step, while the customer pauses, ends and
  follows again. Each candle is decided once and in order; a worker whose token
  is current works from the current last candle although it read it long ago;
  the duplicate branch, which checks no owner, never releases someone else's
  lease; the whole implements `CandleLog`; and no closed candle of an active
  deployment waits for ever, provided its commit can succeed: the run assumes
  `CommitsSucceed`, which the code breaks in one case (section 4).
* `PaperBook`: each order of admissions, fills, stops, freezes, restores and
  lifecycle jobs of one portfolio. A stop that emptied its queue stays
  effective for those entries even if a restore makes the portfolio active in
  the stop's own window. Positions in both symbols and two entries into one share
  the cash, the limits and the ledger.
* `StrategyRuntime`: a cycle reads access and position without a lock and
  commits later, while the customer switches between two symbols and the shadow
  mode. Two deployments of a portfolio may both have a buy pending, since the
  switch does not look at orders; but each deployment has one order at most, which
  neither adds to a position nor sells what is not held. Commits are fenced, a
  deployment's order is settled before its next decision, and only its own orders
  move the position in its symbol.
* `ExplanationJobs`, `ExplanationJobsLive`: the event and the job, written by
  different statements with different keys, agree; a late answer changes
  nothing; a card with one deployment has each of its explanations answered or
  given up.
* `Commerce`: handlers of one key race with cancellation, expiry and each
  other, yet one handler asks the model for a reply, repairs it no more often
  than was reserved for, and the customer pays for what was delivered; callbacks arrive twice, in any order, or for two transfers of
  one transaction, and each credit is one reported transfer approved by a second person;
  orders are paid outside or from the wallet, fees after a rejected or late
  statement, and the wallet, the references and the mark agree with the orders
  and statements that took from them.
* `Operations`: e-mail with crashes between the provider and the row; demo
  orders whose placement is in doubt; a scheduled activation that races one by
  hand; a command whose claim expires while it runs; a release whose process
  dies three times, at any step, while a stop competes for the environment.
  In the queue two releases are requested, approved and dispatched while
  dispatchers die, leases lapse, POSTs go unanswered, the run's conclusion comes
  before or after the receipts, and an operator stops and clears the
  environment; migrations are applied, services replaced some at a time, and the
  operation ends at any of these points. `ReleasesInTurn`: no two attempts can go on
  at once, and a cutover is validated over one release, the one its approvers saw.
  `StatusTellsTheOutcome`: a rejected request did nothing on the target; a failed one
  replaced no service and had no cutover validated, though its migrations may be
  applied; a cancelled one replaced none; one that succeeded was marked as the active release;
  and one that needs reconciliation keeps the environment blocked.
  Both exempt one history, `Hidden`: a stop's receipt ended an operation that had
  replaced services, in part or all. Then a cancelled request has replaced some, and
  a later cutover may be validated over them. If the hidden cutover had left its
  marker, that later one still does not begin, for the target compares the marker
  (`MarkerAgrees`); if it had not, nothing tells (section 6).
* The five violation runs are the divergences of section 6.

Bounds, and why they suffice.

* Two workers: the protocol's hazards are between a holder and one that lost
  its lease; a third behaves as the second, and each worker's steps name no
  other worker. The proofs hold for any number.
* `MaxCandle`: three candles give a first decision, a next one and one decided
  after a takeover; two are enough where a candle is only a key.
* `LeaseTicks`: two in `RuntimeLease`, so that a renewal differs from a fresh
  lease; one elsewhere.
* `MaxUpsets`: how many crashes, errors, late heartbeats, customer actions and
  idle polls happen. Three allow a crash, a takeover by a late heartbeat and a
  customer's action in one behaviour.
* `Commerce`: two of each request let them compete for an account, an address,
  a reference or a membership row; a third behaves as the second. Four staff
  are the most that one movement separates (who generates, assesses, records
  and confirms). `Grant = Estimate = 2` and `MaxCredits = 4` let an account run
  dry and hold two reservations. `Opening = 2` pays a lifetime plan or two
  monthly ones. `MaxClock = 3` is a plan, its grace and its lapse;
  `MaxStatements = 3` a rejected statement, its replacement and a successor,
  and `MaxNet = 1` a profit, its loss and its return below the mark.
* `Operations`: deliveries meet only in the suppression list, so one is enough;
  `MaxAttempts = 3` has a first, a middle and a last attempt. A demo intent is
  on its own but for the account's switch; four leases let two workers take
  turns over one doubtful placement. `MaxTime = 2` puts a schedule in the
  past, now, and in the future. `MaxCrashes = 3`: an operation, its recovery
  and the stop each die once. Two requests are all that two facts can confuse:
  the environment names one attempt and one operation, and the second may be
  approved before the first is cut over or be claimed when its lease lapsed;
  `MaxGeneration = 3` is a release before a stop and one after it was cleared,
  each step of the stop between. The proofs drop each of these bounds.
* Money: `Principal = 92`, `Quote = 30`, `Fee = 1`. The third buy cannot pay its fee
  (cash 30, due 31), and three buys of a day pass `MaxEntries`, so both the cash and
  the daily limit refuse entries. `AssetLimit = 60` leaves room for two buys of one
  symbol, whose entry fees add up. That limit, the total one and the number of
  symbols are not reached with three intents: they stand in the same guard
  (`WithinLimits`). One price makes each round trip lose its fees. The proofs are
  for all limits and all prices.
* `MaxIntents = 3`: an entry, an exit and one more of either, of one symbol or two.
* Two symbols: a card has two or three, and a third relates to each as the second does.
* `MaxEntries = 2`, `CandlesPerDay = 2`: the daily entry limit can be reached
  and a second day can begin.

Deadlock checking is off in all runs but that of the book: the bounded counts
of candles, requests, leases or crashes let a finished system stop. Each property of
each passing run has a mutant in `PROJECT.json`: the definition of a plausible
bug (a guard dropped, a token not raised, a release without its owner), under
which TLC finds that property violated.

## 4. Fairness

`RuntimeLease`. The worker script polls in an endless loop, and each step of a
cycle ends or fails: weak fairness on `Select` and on the finishing steps. Time
passes: weak fairness on `Age`. Taking a deployment gets strong fairness,
because a deployment is due again and again rather than continuously (another
worker may hold it in between), and `ORDER BY next_cycle_at` serves the one
that waited longest. Nothing is assumed of `Renew`, of candles closing, or of
the customer. Errors are bounded: with endless errors no candle is decided, in
the code either.

One part of this is an assumption the code does not justify, and has a name:
`CommitsSucceed`, that the commit of a selected candle succeeds when it is kept
trying. A hold for which a market summary is due inserts an explanation job that
refers to a cycle row a hold does not write; the foreign key rolls the commit back
at every retry (`strategy-runtime-repository.ts:930`, `0013:48`, the third
divergence of section 6), and the candle stays undecided as long as its decision is
a hold. `EveryCandleDecided` therefore says that the lease protocol strands no
candle; that an explanation may is what `ExplanationJobsHold` shows.

`ExplanationJobs`. The same loop polls for a job each round and each call ends
by its timeout: weak fairness on `Claim` and on `Complete \/ FailJob \/
Fenced`. `RetryDue` and `Lapse` are time.

`NotificationOutbox`. `scripts/notification-worker.mjs` polls in an endless
loop, and rendering and sending end by a timeout: weak fairness on each
sender's steps and on somebody's claim of a delivery that can be claimed.
Leases and back-offs end by the clock: weak fairness on `LeaseLapses` and
`FallsDue`. Nothing is assumed of crashes, the provider, its webhooks or the
cleanup. `EveryDeliveryTried` says what this justifies: a queued delivery with
attempts left is not queued for ever at that attempt.

The others are checked for safety only.

## 5. Proofs

All of them hold for every value of the constants that satisfies the
assumption named in the component's module (`LeaseConstants`, `BookConstants`,
`CreditConstants`, `DepositConstants`, `OutboxConstants`, `DemoConstants`,
`OrderConstants`, `FeeConstants`, `IdempotencyConstants`,
`ConfigurationConstants`, `TargetConstants`, `QueueConstants`, `JobConstants`,
`CardConstants`, `CommerceConstants`), and are checked to the last leaf. Two of
these say something of the model rather than of the code: `Opening \in Nat` (a
wallet that starts with a balance) and `Never > MaxNet` in `FeeConstants` (the
value that stands for the absent mark of a customer without statements is not a
result anybody reaches).

`StrategyRuntimeProofs`, the lease. `DecidedOnce` is not inductive: that a commit appends a
later candle depends on what the committing worker remembers. `LeaseInv` adds

* `HolderViewIsFresh`: a remembered lease with the row's current token has the
  row's last candle;
* `HeldIsPast`: neither a remembered token nor a remembered last candle is
  ahead of the row's, and the candle a worker chose is closed and comes after
  the last one it saw;
* `TokensDiffer`: two workers never remember the same token of a deployment;
* `CyclesArePast`: every cycle row is of a candle up to the last decided one,
  so the duplicate branch is never reached with a current token.

From it follow `TypeCorrect`, `CandlesDecidedOnce`, `HolderViewStaysFresh`,
`ReleasesOnlyOwnLease` and the refinement `RefinesCandleLog`: each commit maps
to `CandleLog!Decide`, each candle to `CandleLog!CandleCloses`, everything else
to a stutter.

`PaperBookProofs`. `BookInv` is `BookTypeOK`, `BooksBalance` and `LedgerRuns` with a
non-empty ledger. What the positions tie up is a sum over the symbols (`Tied`), of
which a fill changes one summand (`Sums`). Cash stays a natural number because `BuyFits` asks for quote
and fee, and because a sell's proceeds cover its fee (`Fee <= price` in
`BookConstants`). Two action properties follow: `ExitsAreNeverRefused` (from
`Restricted`, which answers `close_only` while a position is held) and
`NoEntriesWhileRestricted` (from `Constrained`, by cases on what fills). The
steps are stated over `BookMoves`, an admission, a settlement or a move of
custody with whatever candle it likes, so that the composition, which gives them
their candle, may cite them.

`IntentInv`, of the same module, is about the queue. That a decision is filled
once depends on the queue's history: two rows never carry the same decision
(`DecisionsDiffer`), every ledger row past the first names an intent, no two the
same, and an intent is named exactly if it is filled (`RowsOfFills`); what a stop
found in the queue is the prefix it marks (`cleared`), which nothing appends to. `IntentsFillOnce` and `StopsDropEntries` follow.

`StrategyRuntimeProofs`, the cycle. Seen from the lease, a step of the composition is one of
the lease's own or moves nothing the lease protects (`LeaseSide`); seen from the
book it is one of `BookMoves` (`BookSide`). So `LeaseInv` and `IntentInv` hold of
the whole, settlements without a token and switches of symbol and mode included
(`PartsHoldOfTheCycle`, `LeasesAreTheirOwn`, `CustodyHoldsOfTheCycle`,
`CycleRefinesCandleLog`).
`IntentsInCandleOrder` and `OneOpenOrder` are not inductive, for a commit appends
what a worker decided from an old read. `CardInv` adds

* `IntentsArePast`: no intent is for a candle its deployment has yet to decide,
  so a commit, which passes the last decided candle, appends a later one;
* `PendingOnPaper`: only orders of paper deployments wait, and for an open, so
  the settlement of a cycle leaves none of its deployment;
* `HolderSawTheBook`: from its settlement to its commit, the worker whose token
  is a paper deployment's current one finds no order of it pending, and the position
  it read is still the position in its symbol. Any other worker may settle meanwhile,
  but finds nothing of this deployment either, and cannot commit for it; orders of
  the card's other deployments move other symbols. This is the reason why reading
  without a lock is sound: `TokensDiffer` makes the holder the only one that adds to
  the deployment's queue, and `CardConstants` that deployment the only one whose orders
  move the position. Nothing of it asks what a switch left pending.

`HolderFillsInTime` bounds the first divergence of section 6: under the current token
a settlement fills nothing at an open before the close that decided it, so a look-ahead
needs a worker that lost its lease, and a token checked by the settlement would end it.
`OrphansAreOfLosers` does the same for the second: only an active deployment is leased
(`LeasesAreOfActive`, because pausing and switching clear the lease with the status), so
whoever fills an order of an ended deployment has lost its lease, and no other step,
`Follow` included, leaves an open position without a deployment. One check would
close both.

`ExplanationJobsProofs`. `EventShowsItsJob` compares two columns that different
statements write, so it rests on who may write. `JobInv` says that the queue names
each waiting or running job once and no job that does not exist or is finished
(`QueueOfOpenJobs`), that a worker remembers an existing job (`HeldExists`), and
counts the attempts: only a worker that was lost brings a job past `max_attempts`
(`AttemptsCounted`). `FinishedAlwaysStays` follows, because a request that comes
again enqueues only roles without a job.

`AiCreditsProofs`. `ReservedIsHeld` counts the held reservations, so a step
that adds or ends one needs the cardinality of the set before and after;
`HeldInProgress` says that a reservation is held exactly while its request is
in progress, and `OneCaller` that a handler about to call the model began the
request, alone; `CallsCounted` says that it has not called yet, or once and then as
often as it counted for repairs. `CreditInv` is these with the types.

`CreditsConserved` is a sum over the requests. `NatInduct` is induction over the
naturals for a set of numbers (a predicate cannot be passed to a theorem here),
and by it the lemmas on `Total` (both in `Sums`) say what a sum does when an element is added,
removed or changed. A step either charges nothing and moves within the account as
much as it grants (`ConservedByBalance`), or settles (`ConservedBySettle`). The
sums of `CommerceProofs` use the same lemmas.

`RefinesCreditAccount` maps a grant and an approved adjustment to
`CreditAccount!Adjust`, `Begin` to `Reserve`, `Complete` to `Settle`, and failing,
cancelling and expiring to `Release`; every other step stutters. What makes each a
step of the account, and not merely a change of its numbers, is the invariant:
`HeldInProgress` says that an ending finds the reservation still held, so no use
ends twice, and `ChargedIffDelivered` that a request in progress was charged
nothing yet, so what `Settle` adds is its whole charge.

`CommerceProofs`, deposits. `DepositInv` joins an address part (`OneOpen`: one open order;
`AsksOnce`: who is about to ask holds an order that never asked) and a funds
part (`ReviewKnows`: an order in review names a reported transfer to its own
address, with its amount; `SentHasTx`; `OneOrderPerTx`; `EntryIffCredited`: a
journal entry exactly for what is credited).

`CommerceProofs`, memberships and fees. These start from `FeesSpec`: all steps of
`MembershipOrders` and `PerformanceFees`, with any wallet at first, any number of
orders and statements, and none of the restrictions `focus` puts on the run. The
deposits that fill the wallet meanwhile are not in it; they post under keys of
their own.

* `AccessInv` is the types, `AccessIsPaidFor` and `UnpaidRows` (a row that was
  never current is a trial). The second is needed because accepting the
  disclosures overwrites the expiry of a pending row: only a row without a
  purchase may be pending.
* `WeeksInv` is the types and `WeeksInSequence`. A statement that waits for its
  assessment or payment can only be the last one, so one that moves has no
  successor whose order it could disturb.
* `PaidInv` says of every order and every statement, those that do not exist yet
  included, how it was paid, and which ledger entry and accepted references that
  leaves (`PaidBy`): none before, one entry afterwards, one reference if it was
  paid outside. `KeysDiffer` is why a payment of one disturbs no other.
* `ProfitInv`: the mark rose since the first statement by what the paid
  statements charged (`MarkRose`), which waits for the assessment of one at a
  time: a statement that is to be paid still starts from the mark (`Figures`).

`CommerceProofs`, the whole. These are about `CommerceSpec`, all five components
over one wallet, one table of references and one credit account, and so drop the
restriction of `FeesSpec`. `CommerceInv` takes the parts' invariants together and adds

* `WalletInv`: the wallet is the opening balance plus the sum of the credited
  deposits less the prices of the orders and the bases of the statements that were
  paid from it. A posting under a new key moves the wallet and exactly one of
  the sums (`PaidInv` and `EntryIffCredited` say the key is new);
* `ClerksInv`: who asked for the credit of a deposit did not approve it;
* `ReviewInv`: who assessed a statement did not generate it, evidence for a
  statement comes after its assessment and from a third person, and nobody
  accepts evidence he recorded. That evidence is undecided when an order or a
  statement moves on is what keeps the persons apart.

The proof of a step says of each component that it keeps its own invariant, and
of the others that they do not touch its variables. `WalletAlwaysMatches`,
`AlwaysReviewedByOthers`, `CommerceTypes` and `PartsHoldOfTheWhole` follow, and so
does `WholeRefinesCreditAccount`, for the other four leave the account alone
(`AccountBeside`).

`RefinesPaymentBook` is the strongest statement about the money. The receipts are
not variables but are read off the rows of three tables and the evidence, so the
theorem says of every step that at most one receipt appears, that the others stay
as they are in each of their columns, and that the wallet moved by its amount. An
approved credit is `PaymentBook!Credit`, an order or a statement paid from the
wallet is `PayFromWallet`, one paid by accepted evidence `PayOutside`; all else
stutters. It rests on `PaidInv` and `EntryIffCredited` (a row without a receipt has
no journal entry, so its posting is not taken for a repeated one),
`AcceptedGrows` (evidence once accepted stays accepted, for the same subject) and
`RefsApart` (the accepted references of two subjects are disjoint, because a
reference is recorded once), and one lemma per kind of row says that a step which
does not pay it leaves its receipt.

`OperationsProofs`, the outbox. The argument rests on the owner a claim writes: what
somebody owns still has its secret (`OwnedIsUnpurged`), since the cleanup and
the webhook take the row from its owner.

`OperationsProofs`, demo orders. The argument does not rest on the fencing token. `DemoInv`
says that of the workers of an intent at most one was told that no order can
exist, and that nobody ends the intent as long as that one has not sent it; each
later worker only looks the order up. The token merely keeps old news out.

`OperationsProofs`, commands. `OnceInv`: one caller works for a key, it claimed
it, and its effect has happened exactly if its external call was made.

`OperationsProofs`, configuration. `ConfigurationInv` is the types, the two parts
of `ConfigurationInForce`, and `ReviewedRows`: a decision is there only on a
version that passed its test and has another reviewer than its author. It is what
carries the review over the time a version waits for its schedule, and over a
rollback to an older one.

`ReleaseProofs`, the target. `FenceInv`: each side holds the mutex while it acts
(`MutexHeld`), past the fence there is no active stop (`PastFence`), and a stop
the platform knows has raised the generation, so that the operation has no
authority left (`GenerationRaised`). `TargetTypes` bounds the journal: no phase is
written twice and none after a terminal one, since a handler goes on only while its
operation is open (`StillOpen`), so five lines are the most (`ShortJournal`).

`ReleaseProofs`, the queue. Neither property is inductive: both compare an old
snapshot with what later facts made of the environment. `QueueInv` adds

* `Facts`: how far the columns of one request agree: no step of the target and
  no outcome without an operation, an operation without an outcome is the
  environment's, a reported cutover was marked;
* `Active`: the environment's operation belongs to its attempt and may still
  report, and if it is marked, its release is all that runs;
* `MarkerTells`: the marker names the one release that runs, except where some
  operation replaced services without writing it;
* `Left`: an operation the environment let go of replaced nothing by its
  receipts, or succeeded, so a late conclusion of its run cannot make it fail;
* `Expected`: what the environment expects is what runs, except while it is
  blocked, while its operation replaces the services or has not said so
  (`Unreported`), or where a stop's receipt hid a cutover;
* `StopLeavesRoom`: the clear that ends a stop stays within `MaxGeneration`.

A fact of a run and a receipt go through the same lemmas (`StatusProjected`,
`RowProjected`), which is where the independence of their order is shown.

`OperationsProofs`, the whole. `EachPartIsItsOwn`: a behaviour of the composition
is one of each component's own specification (of the outbox without its
fairness). The components' theorems then hold of it (`OperationsTypes`,
`EachPartsPromise`).

Every safety invariant and every action property that a run checks is thus stated
by a theorem, for every value of the constants. The two abstract specifications of
the commercial side, `CreditAccount` and `PaymentBook`, are proved to be implemented
and are no property of a run. Only model-checked:

* liveness (`EveryCandleDecided`, `EveryJobFinishes`, `OutboxKeepsTrying`), which
  is out of the prover's reach;
* what the violation runs refute (section 6), which no theorem can state.

What a proof could not see through was written otherwise in the model, with the
same meaning: a finished job leaves `queue` by `RemoveAt` rather than by filtering
it (`SelectSeq` is a recursive operator of the standard modules, closed to the
provers), the roles of a commit join the queue one after the other (`InTurn`) as
the loop of `enqueueRuntimeExplanationJobs` inserts them, and `StrategyRuntime`
extends its components, for theorems of a named instance cannot be cited.

## 6. Divergences found

Each is a run that ends in a counterexample; `findings` in `PROJECT.json` has
the quotations.

1. *A fill at the open of the very candle whose close decided it*
   (`StrategyRuntimeLookAhead`). Settlement checks no token. A worker that chose
   candle `c` and lost its lease fills, at the open of `c`, the intent that the
   new holder decided at the close of `c`.
2. *A position without a deployment* (`StrategyRuntimeSwitch`). The mode switch
   reads that no position is open, without locking the portfolio, and ends the
   paper deployment whose worker is about to fill the pending entry.
3. *A hold rolled back by an explanation* (`ExplanationJobsHold`). A hold has
   no cycle row; a due market summary inserts a job whose foreign key needs
   one, and the commit fails with the candle undecided.
4. *A job that nobody can claim* (`ExplanationJobsShared`). The claim joins on
   the job's own cycle, the events name the cycle that created the round. A job
   enqueued by another deployment never joins and is picked first for ever.
5. *Active at the moment a stop is lifted* (`PaperBookStop`). Restoring a
   customer during a stop stores an active status, which lifting the stop makes
   effective without any later flow.

The passing runs are independent of these, and their properties hold with the code
as it is, in the same models, with two exceptions that the properties state:
`EveryCandleDecided` assumes that 3 does not go on for ever, and `ReleasesInTurn` and
`StatusTellsTheOutcome` exempt the first of the following.

Met while modelling, and in the models as the code has them, without a run of
their own:

* Release target. (a) A cutover that was committed but whose receipt was lost,
  with a stop pending: recovery journals `stop_committed` and reports the old
  release as the current one while the new one runs
  (`restricted-cicd-target-engine.ts:255`, `:339`). The same happens to a
  `compose up` that stopped half way, which replaces eight services one after
  another (`restricted-cicd-target-adapter.ts:591-596`): the receipt names the old
  release over services of both. The receipt frees the environment, a clear ends the
  stop, and the next release, approved against the old one, passes the platform's
  checks and, as no new marker was written, the target's (`:585-588`): it is cut over
  from a state nobody approved. The specification excludes it: a stop's receipt
  means that the cutover never begins, and a cutover that had the lock records
  its outcome first (`docs/specs/RESTRICTED_CICD_DELEGATION_SPEC.md:278-279`,
  `:499-501`). `ReleaseCommands` and `ReleaseTarget` have these histories;
  `ReleasesInTurn` and `StatusTellsTheOutcome` exempt them by name (`Hidden`,
  `HiddenWithoutMarker`) and hold of all others. (b) A `cutover_committed`
  receipt, then a crash before the health check, then a stop: the journal ends
  with `stop_committed`, which the platform refuses (`0082:79`), so the
  operation is recovered again and again and the stop cannot be cleared. (c) A
  crash half way through `compose up` with the authority gone ends as
  `uncertain_before_cutover` with containers of both releases. (d) A crash
  between making a lock directory and writing its owner leaves
  `TARGET_MUTEX_BUSY` for ever (`restricted-cicd-target-journal.ts:581-599`).
* Release commands. (a) A command left `dispatching` when a stop is requested,
  confirmed and cleared before its lapsed lease was recovered blocks the queue
  for ever: the clear empties `active_attempt_key` (`0077`, `clear_stop`), so the
  recovery never finds it (`0087:83`), while every claim answers `expired
  dispatch recovery required` (`0087:155`) and the worker that comes back may not
  record it as unknown either. `tests/restricted-cicd-worker-postgres.test.mjs:372-375`
  tests the recovery without the stop. (b) A worker that dies between claim and
  begin leaves its command `leased` for ever, and no function sets
  `blocked` back. An approved command whose snapshot is stale makes every claim
  raise `environment snapshot stale` until its approval expires, since the
  oldest approved command is the candidate. (c) A stop has one receipt
  (`0077:261`) with the release expected at that time; a late receipt of a
  cutover changes what is expected, and the stop can then not be cleared. (d) A
  reconciler that chose a run before it was quarantined may still append its
  conclusion, which turns `manual_intervention` into `failed` or `settling`; the
  environment stays blocked, so nothing is authorised by it. (e) The
  specification expects a cutover reported after a stop to end as
  `deployed_reconciliation_required`; `0082:79` refuses a receipt after a
  concluding one.
* Memberships. An order for which evidence was recorded can still be paid from
  the wallet. The wallet path compares the plan code with `lifetime_v1` where
  `membership_lifetime_v1` is stored, so the check against a downgrade never
  applies, and a renewal from the wallet starts now instead of at the end of
  the running period. A pending trial of the registration and a bought
  membership are two current rows, which later orders refuse as
  `MEMBERSHIP_INTEGRITY_CONFLICT`.
* Fees. A statement in review whose week changed can neither be approved,
  rejected nor generated again; a week nobody generated in time blocks the next
  ones as `STATEMENT_SEQUENCE_GAP`.
* Deposits. Callbacks are told apart by `tradeId` alone, so a confirmation after
  an earlier status of the same trade is dropped; a second transfer overwrites
  amount and transaction before the credit; a request that dies after it
  reserved an order leaves `ADDRESS_PROVISIONING`, which blocks the network;
  refused credits leave `MANUAL_REVIEW`.
* Outbox. A crash on the last attempt leaves the row `queued` for ever; a lost
  answer whose webhook already came sends the delivery back to the queue.
* Demo orders. An unreadable answer about an order that was taken counts as a
  plain error, so the intent may end `failed` with a live order (`garbled`); a
  cancelled order with late fills loses them; the account can be stopped between
  the check and the placement.
* Configuration. A schedule cannot be withdrawn: an older version that falls due
  replaces a newer one that was activated by hand.
* Commands. An external command whose claim expired while it ran is recorded as
  unknown although it succeeded.

## 7. Abstractions, and what is left out

* All buys of a card spend one `Quote`. Fees are a flat `Fee`; rounding to
  eight decimals is left out, a buy gets `Quote \div price` units.
* Marking to market and the risk figures (daily baseline, drawdown) only feed
  refusals of the engine, which `CommitBlocked` chooses freely.
* Official cards carry no stop or target price, so in `StrategyRuntime` every
  intent is of timing `next_candle_open`; `PaperBook` is stated for both
  timings, as the settlement is.
* One emergency stop scope; notifications and audit rows are left out.
* Lease time is ticks; `next_cycle_at` is left out, so a deployment is due
  whenever a worker asks, which includes each polling schedule. The candle
  window of 500 is never exceeded; retention of cycle rows is left out.
* `StrategyRuntime` and `ExplanationJobs` state a type invariant for the reader;
  their runs check the properties that relate the columns instead.
* In `ExplanationJobs` a deployment's own cycle is one step, since
  `RuntimeLease` has its interleavings; texts are left out.
* Credits are whole numbers with one estimate per request; the account is one
  balance, as in the code. Prices and amounts are small naturals; the profit
  share is the whole profit, since only its sign and its base matter here.
* One customer, network, plan version, configuration stream and environment.
  What several of them share (the platform's side of the ledger, the queue of
  provider events) is written by guarded inserts under unique keys.
* Texts, templates, preferences, in-app notifications and audit rows are left
  out, and so are the forms of hashes, signatures and credentials: a signature
  is valid, an answer is readable or not.
* A request for a release is attempted once, as its approval allows. The
  provider is seen through the run that was bound and through the facts the
  reconciler appends; a run of a POST nobody heard of is refused by the
  reservation, because no attempt is bound to it. A run attempt has one
  conclusion, so the conflict of two is left out. The expiry of an approval or an
  activation is that nothing more happens with it, and the candidate of a claim
  may be any approved request. Receipts are what the target did, but for a stop's
  receipt over a cutover that was not reported. The environment's services are told
  apart by their release only, so the eight of them are a set of releases; migrations
  are a step of an operation and no state of the services. Left out are the takeover of the
  environment's owner epoch, the digests of attestations, the wrappers that
  authorise a person, the replay of a begin and the auditor of the runs.
* Of the release target, the take-over of a lock by a supervisor is left out,
  since no script calls it, and a `docker` child that outlives its parent.
* Not modelled, with reasons per component in `PROJECT.json`: the backtest
  engine and the strategy DSL (floating-point evaluation), the closed research
  pipeline and the legacy perpetual runtime (unreachable), live execution
  (behind a closed gate), adapters and brokers (I/O), sessions and invitations,
  attribution and access changes (one guarded transaction each), and the
  platform's interface, which is most of the repository's lines and holds no
  state of its own.

## 8. What is left

1. What is left of restricted CI/CD: attestations and activations, the owner's
   takeover, the auditor; and `ReleaseCommands` and `ReleaseTarget` in one
   behaviour, with the target's journal as the source of the receipts, instead
   of `Truthful`.
2. `SettlementLocks`: the lock orders of settlement (portfolio, then deployment)
   and of the commit (deployment, then portfolio), with PostgreSQL's deadlock
   victim. `RiskState`: the daily baseline and drawdown with late marks.
3. For the modules that exist: liveness of exits in `StrategyRuntime`, `EveryCandleDecided`
   with a commit that may fail for ever, several streams and customers in `Commerce`.
4. The two abstract specifications of the commercial side as properties of a run, on
   an instance small enough for it, and theorems about two parts in one behaviour
   once 1 joins them.
