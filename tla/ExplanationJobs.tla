--------------------------- MODULE ExplanationJobs ---------------------------
(* Shared decision rounds and the explanation jobs that hang on them. The     *)
(* deployments are those of one card and symbol: the first to commit a candle *)
(* creates the candle's round with its events, and each role of a round is    *)
(* explained by one job, which explanation workers take under a lease.        *)
(*                                                                            *)
(* A deployment's own cycle is one step here (RuntimeLease has its lease).    *)
(* Time is abstracted as in RuntimeLease; queue is the order of               *)
(* next_attempt_at, so a job that waits for its retry is not in it yet.       *)
EXTENDS Integers, SequencesExt

CONSTANTS
  Deployments,  \* deployments of one official card and symbol
  Workers,      \* runtime worker processes
  Bound,        \* event roles whose explanation model is configured and enabled
  NoJob, NoRound, NoCycle, NoWorker,
  MaxAttempts,  \* max_attempts
  MaxCandle,    \* bound: candles the market closes
  MaxUpsets     \* bound: lost workers and calls that outlive their lease

VARIABLES
  closed,      \* the latest closed candle
  last,        \* last[d]: the last candle deployment d decided
  cycleRows,   \* decisions with a row in strategy_runtime_cycles
  eventCycle,  \* eventCycle[c]: whose cycle the events of round c name
  explained,   \* explained[k]: explanation_status of the event of candle and role k
  job,         \* job[k]: the job of candle and role k
  queue,       \* jobs with a due next_attempt_at, in its order
  held,        \* held[w]: the job and token the worker remembers
  rolledBack,  \* history: decisions whose commit an explanation job made fail
  upsets       \* bound counter

rounds == <<last, cycleRows, eventCycle, rolledBack>>
work == <<explained, job, queue>>
vars == <<closed, rounds, work, held, upsets>>

Candles == 1 .. MaxCandle
Roles == {"market_data", "adversarial_review", "risk"}
Keys == Candles \X Roles
Idle == [key |-> <<0, "">>, token |-> 0]

\* Failures stop at max_attempts; every worker that is lost with a job costs one more.
Jobs == [dep : Deployments, status : {"pending", "running", "retry_wait", "completed", "failed"},
         owner : Workers \cup {NoWorker}, token : Nat, attempts : 0 .. MaxAttempts + MaxUpsets,
         lapsed : BOOLEAN]

ASSUME JobConstants ==
  /\ Bound \subseteq Roles
  /\ NoJob \notin Jobs
  /\ NoRound # NoCycle /\ {NoRound, NoCycle} \cap Deployments = {}
  /\ NoWorker \notin Workers
  /\ MaxAttempts \in Nat \ {0} /\ MaxCandle \in Nat /\ MaxUpsets \in Nat

TypeOK ==
  /\ closed \in 0 .. MaxCandle
  /\ last \in [Deployments -> 0 .. MaxCandle]
  /\ cycleRows \subseteq (Deployments \X Candles)
  /\ eventCycle \in [Candles -> Deployments \cup {NoRound, NoCycle}]
  /\ explained \in [Keys -> {"none", "pending", "running", "retry_wait", "completed", "failed"}]
  /\ job \in [Keys -> Jobs \cup {NoJob}]
  /\ queue \in Seq(Keys)
  /\ held \in [Workers -> [key : Keys, token : Nat] \cup {Idle}]
  /\ rolledBack \subseteq (Deployments \X Candles)
  /\ upsets \in 0 .. MaxUpsets

Init ==
  /\ closed = 0
  /\ last = [d \in Deployments |-> 0]
  /\ cycleRows = {}
  /\ eventCycle = [c \in Candles |-> NoRound]
  /\ explained = [k \in Keys |-> "none"]
  /\ job = [k \in Keys |-> NoJob]
  /\ queue = <<>>
  /\ held = [w \in Workers |-> Idle]
  /\ rolledBack = {}
  /\ upsets = 0

Upset == upsets < MaxUpsets /\ upsets' = upsets + 1

CandleCloses ==
  /\ closed < MaxCandle
  /\ closed' = closed + 1
  /\ UNCHANGED <<rounds, work, held, upsets>>

-----------------------------------------------------------------------------
(* A cycle commits, and enqueues the explanations it is the first to need *)

\* A summary is due if the deployment never had one on its own events, else if the market
\* changed or four hours passed.
SummaryDue(d) ==
  IF \E c \in Candles : /\ eventCycle[c] = d
                        /\ job[<<c, "market_data">>] # NoJob
                        /\ job[<<c, "market_data">>].dep = d
    THEN BOOLEAN
    ELSE {TRUE}

\* acts: the decision has something of this customer's own, an order or a refusal.
Requested(acts, due) ==
  Bound \cap ((IF due THEN {"market_data"} ELSE {})
              \cup (IF acts THEN {"adversarial_review", "risk"} ELSE {}))

\* Mutant: without the unique index of round and role.
EveryRequest(c, roles) == roles

\* ON CONFLICT DO NOTHING on the unique index of round and role.
NewRoles(c, roles) == {r \in roles : job[<<c, r>>] = NoJob}

\* Mutant: the pending mark goes to the deployment's own events only.
MarkedByCycle(d, c) == IF eventCycle[c] \in {d, NoRound} THEN Roles ELSE {}

\* The pending mark goes to the round's events, whoever wrote them.
Marked(d, c) == Roles

\* The roles' own order, as far as they are enqueued.
InTurn(c, r, roles) == IF r \in roles THEN << <<c, r>> >> ELSE <<>>

Enqueue(d, c, roles) ==
  LET keys == {<<c, r>> : r \in roles}
  IN /\ job' = [k \in Keys |-> IF k \in keys
                  THEN [dep |-> d, status |-> "pending", owner |-> NoWorker, token |-> 0,
                        attempts |-> 0, lapsed |-> FALSE]
                  ELSE job[k]]
     /\ explained' = [k \in Keys |->
          IF k \in keys /\ k[2] \in Marked(d, c) THEN "pending" ELSE explained[k]]
     /\ queue' = queue \o InTurn(c, "market_data", roles)
                      \o InTurn(c, "adversarial_review", roles) \o InTurn(c, "risk", roles)

\* The job names the cycle, so without a cycle row the foreign key fails the transaction.
ForeignKeyHolds(acts, roles) == acts \/ roles = {}

Decide(d, acts, due) ==
  LET c == IF last[d] = 0 THEN closed ELSE last[d] + 1
      roles == NewRoles(c, Requested(acts, due))
  IN /\ last[d] < closed
     /\ IF ForeignKeyHolds(acts, roles)
          THEN /\ last' = [last EXCEPT ![d] = c]
               /\ cycleRows' = IF acts THEN cycleRows \cup {<<d, c>>} ELSE cycleRows
               /\ eventCycle' = [eventCycle EXCEPT ![c] =
                    IF @ # NoRound THEN @ ELSE IF acts THEN d ELSE NoCycle]
               /\ Enqueue(d, c, roles)
               /\ UNCHANGED rolledBack
          ELSE /\ rolledBack' = rolledBack \cup {<<d, c>>}
               /\ UNCHANGED <<last, cycleRows, eventCycle, work>>
     /\ UNCHANGED <<closed, held, upsets>>

-----------------------------------------------------------------------------
(* Explanation workers *)

\* Mutant: a job whose worker was lost is never taken over.
WaitsForAWorker(i) == job[queue[i]].status \in {"pending", "retry_wait"}

Eligible(i) ==
  \/ job[queue[i]].status \in {"pending", "retry_wait"}
  \/ job[queue[i]].status = "running" /\ job[queue[i]].lapsed

\* ORDER BY next_attempt_at FOR UPDATE SKIP LOCKED LIMIT 1: a worker sees past as many
\* rows as other workers can have locked.
Picked(i) ==
  /\ Eligible(i)
  /\ Cardinality({j \in 1 .. i - 1 : Eligible(j)}) < Cardinality({w \in Workers : held[w] = Idle})

\* The join of the claim: the event must name the cycle that the job names.
HasItsEvent(k) == eventCycle[k[1]] = job[k].dep

\* A picked job that does not join is not updated and stays where it is.
Claim(w) ==
  \E i \in DOMAIN queue :
    LET k == queue[i]
    IN /\ held[w] = Idle
       /\ Picked(i)
       /\ HasItsEvent(k)
       /\ job' = [job EXCEPT ![k].status = "running", ![k].owner = w, ![k].token = @ + 1,
                             ![k].attempts = @ + 1, ![k].lapsed = FALSE]
       /\ explained' = [explained EXCEPT ![k] = "running"]
       /\ held' = [held EXCEPT ![w] = [key |-> k, token |-> job[k].token + 1]]
       /\ UNCHANGED <<closed, rounds, queue, upsets>>

\* Mutant: an answer counts if its worker ever had the job.
OwnedOnce(w) == job[held[w].key].token >= held[w].token

OwnsJob(w) ==
  LET j == job[held[w].key]
  IN j.owner = w /\ j.token = held[w].token /\ j.status = "running"

Leave(w) == held' = [held EXCEPT ![w] = Idle]

\* next_attempt_at no longer counts; a job that runs is still in the queue.
Unqueue(k) == \E i \in DOMAIN queue : queue[i] = k /\ queue' = RemoveAt(queue, i)

\* The answer, or the failure, writes the job and the event in one transaction.
Conclude(k, status) ==
  /\ job' = [job EXCEPT ![k].status = status, ![k].owner = NoWorker, ![k].lapsed = FALSE]
  /\ explained' = [explained EXCEPT ![k] = status]
  /\ Unqueue(k)

Complete(w) ==
  /\ held[w] # Idle
  /\ OwnsJob(w)
  /\ Conclude(held[w].key, "completed")
  /\ Leave(w)
  /\ UNCHANGED <<closed, rounds, upsets>>

AfterFailure(k) == IF job[k].attempts >= MaxAttempts THEN "failed" ELSE "retry_wait"

FailJob(w) ==
  /\ held[w] # Idle
  /\ OwnsJob(w)
  /\ Conclude(held[w].key, AfterFailure(held[w].key))
  /\ Leave(w)
  /\ UNCHANGED <<closed, rounds, upsets>>

\* The lease was lost: neither the answer nor the failure matches a row.
Fenced(w) ==
  /\ held[w] # Idle
  /\ ~OwnsJob(w)
  /\ Leave(w)
  /\ UNCHANGED <<closed, rounds, work, upsets>>

Crash(w) ==
  /\ held[w] # Idle
  /\ Leave(w)
  /\ Upset
  /\ UNCHANGED <<closed, rounds, work>>

\* next_attempt_at comes: later than that of every job made due before.
RetryDue(k) ==
  /\ job[k] # NoJob
  /\ job[k].status = "retry_wait"
  /\ \A i \in DOMAIN queue : queue[i] # k
  /\ queue' = Append(queue, k)
  /\ UNCHANGED <<closed, rounds, explained, job, held, upsets>>

\* A call that outlives its lease is an upset; a dead worker's lease just lapses.
Lapse(k) ==
  /\ job[k] # NoJob
  /\ job[k].status = "running" /\ ~job[k].lapsed
  /\ job' = [job EXCEPT ![k].lapsed = TRUE]
  /\ IF \E w \in Workers : held[w].key = k /\ OwnsJob(w) THEN Upset ELSE UNCHANGED upsets
  /\ UNCHANGED <<closed, rounds, explained, queue, held>>

-----------------------------------------------------------------------------

Cycle(d) == \E acts \in BOOLEAN : \E due \in SummaryDue(d) : Decide(d, acts, due)
Finish(w) == Complete(w) \/ FailJob(w) \/ Fenced(w)

Next ==
  \/ CandleCloses
  \/ \E d \in Deployments : Cycle(d)
  \/ \E w \in Workers : Claim(w) \/ Finish(w) \/ Crash(w)
  \/ \E k \in Keys : RetryDue(k) \/ Lapse(k)

Spec == Init /\ [][Next]_vars

\* The worker loop polls for a job every round and ends every call by its timeout; time
\* passes.
Fairness ==
  /\ \A w \in Workers : WF_vars(Claim(w)) /\ WF_vars(Finish(w))
  /\ \A k \in Keys : WF_vars(RetryDue(k)) /\ WF_vars(Lapse(k))

FairSpec == Spec /\ Fairness

-----------------------------------------------------------------------------
(* Properties *)

\* The status a customer sees beside an event is that of its job: the two are written by
\* different statements, one by job id and one by round and role.
EventShowsItsJob ==
  \A k \in Keys : explained[k] = IF job[k] = NoJob THEN "none" ELSE job[k].status

\* A finished explanation stays as it is: no late answer or late failure of a worker that
\* lost its lease reopens or rewrites it, and no other deployment's cycle enqueues it anew.
FinishedStaysFinished ==
  [][\A k \in Keys : explained[k] \in {"completed", "failed"} => explained'[k] = explained[k]]_vars

\* Every explanation job is answered or given up, across crashes, late calls and retries.
\* The decision record says so for rounds that several deployments share.
EveryJobFinishes ==
  \A k \in Keys : explained[k] = "pending" ~> explained[k] \in {"completed", "failed"}

\* What the runtime guide says: explanations never block the deterministic run.
ExplanationsNeverBlock == rolledBack = {}
=============================================================================
