------------------------ MODULE ExplanationJobsProofs ------------------------
(* The explanation jobs for any number of deployments, workers, candles,      *)
(* attempts and upsets. The two columns that show a job's status agree only   *)
(* because every claim takes a job that exists and every conclusion is the    *)
(* owner's: JobInv says so of the queue and of what the workers remember, and *)
(* counts the attempts that a lost worker may cost.                           *)
EXTENDS ExplanationJobs, FiniteSetTheorems, SequenceTheorems, TLAPS

\* Each queued job exists, is open and is queued once; a job that waits or runs is queued.
Open == {"pending", "running", "retry_wait"}
QueueOfOpenJobs ==
  /\ \A k \in Range(queue) : job[k] # NoJob /\ job[k].status \in Open
  /\ IsInjective(queue)
  /\ \A k \in Keys :
       job[k] # NoJob /\ job[k].status \in {"pending", "running"} => k \in Range(queue)

\* A worker remembers a job that exists.
HeldExists == \A w \in Workers : held[w] # Idle => job[held[w].key] # NoJob

\* Some worker still works on the job that runs.
WorksOn(w, k) == held[w].key = k /\ job[k].owner = w /\ held[w].token = job[k].token
Working(k) == \E w \in Workers : WorksOn(w, k)

\* Only a worker that was lost, or outlived its lease, brings a job past max_attempts.
AttemptsOf(k) ==
  /\ job[k].status = "pending" => job[k].attempts = 0
  /\ job[k].status = "retry_wait" => job[k].attempts < MaxAttempts
  /\ job[k].status = "running" /\ (job[k].lapsed \/ ~Working(k)) =>
       job[k].attempts < MaxAttempts + upsets
  /\ job[k].attempts <= MaxAttempts + upsets

AttemptsCounted == \A k \in Keys : job[k] # NoJob => AttemptsOf(k)

JobInv == TypeOK /\ EventShowsItsJob /\ QueueOfOpenJobs /\ HeldExists /\ AttemptsCounted

-----------------------------------------------------------------------------
(* The queue as a sequence *)

\* One more job at the end.
LEMMA Appends ==
  ASSUME NEW s \in Seq(Keys), NEW k \in Keys
  PROVE  /\ Append(s, k) \in Seq(Keys)
         /\ Range(Append(s, k)) = Range(s) \cup {k}
         /\ IsInjective(s) /\ k \notin Range(s) => IsInjective(Append(s, k))
<1> DEFINE n == Len(s)
           t == Append(s, k)
<1>1. /\ t \in Seq(Keys) /\ Len(t) = n + 1 /\ t[n + 1] = k /\ n \in Nat
      /\ \A i \in 1 .. n : t[i] = s[i]
  OBVIOUS
<1>2. DOMAIN t = 1 .. n + 1 /\ DOMAIN s = 1 .. n BY <1>1
<1> HIDE DEF n, t
<1>3. Range(t) = Range(s) \cup {k}
  <2>1. ASSUME NEW x \in Range(t) PROVE x \in Range(s) \cup {k}
    <3>1. PICK i \in 1 .. n + 1 : x = t[i] BY <1>2, <2>1 DEF Range
    <3>2. i \in 1 .. n \/ i = n + 1 BY <1>1
    <3>3. QED BY <1>1, <1>2, <3>1, <3>2 DEF Range
  <2>2. ASSUME NEW x \in Range(s) PROVE x \in Range(t)
    <3>1. PICK i \in 1 .. n : x = s[i] BY <1>2, <2>2 DEF Range
    <3>2. i \in 1 .. n + 1 BY <1>1
    <3>3. QED BY <1>1, <1>2, <3>1, <3>2 DEF Range
  <2>3. k \in Range(t)
    <3>1. n + 1 \in 1 .. n + 1 BY <1>1
    <3>2. QED BY <1>1, <1>2, <3>1 DEF Range
  <2>4. QED BY <2>1, <2>2, <2>3
<1>4. ASSUME IsInjective(s), k \notin Range(s) PROVE IsInjective(t)
  <2> SUFFICES ASSUME NEW i \in 1 .. n + 1, NEW j \in 1 .. n + 1, t[i] = t[j] PROVE i = j
    BY <1>2 DEF IsInjective
  <2>1. CASE i \in 1 .. n /\ j \in 1 .. n BY <1>1, <1>2, <1>4, <2>1 DEF IsInjective
  <2>2. CASE i = n + 1 /\ j \in 1 .. n BY <1>1, <1>2, <1>4, <2>2 DEF Range
  <2>3. CASE j = n + 1 /\ i \in 1 .. n BY <1>1, <1>2, <1>4, <2>3 DEF Range
  <2>4. QED BY <1>1, <2>1, <2>2, <2>3
<1>5. QED BY <1>1, <1>3, <1>4 DEF t

\* What a role adds to the queue.
Adds(c, r, roles) == IF r \in roles THEN {<<c, r>>} ELSE {}
Joined(t, s, c, r, roles) == Range(t) = Range(s) \cup Adds(c, r, roles)

\* One more job at the end, if its role is enqueued.
LEMMA Joins ==
  ASSUME NEW s \in Seq(Keys), IsInjective(s), NEW c \in Candles, NEW r \in Roles, NEW roles,
         Range(s) \cap Adds(c, r, roles) = {},
         NEW t, t = s \o InTurn(c, r, roles)
  PROVE  t \in Seq(Keys) /\ IsInjective(t) /\ Joined(t, s, c, r, roles)
<1>1. CASE r \notin roles
  <2>1. t = s BY <1>1 DEF InTurn
  <2>2. QED BY <1>1, <2>1 DEF Adds, Joined
<1>2. CASE r \in roles
  <2>1. PICK k \in Keys : k = <<c, r>> BY DEF Keys
  <2>2. t = s \o <<k>> BY <1>2, <2>1 DEF InTurn
  <2>3. t = Append(s, k) BY <2>1, <2>2
  <2>4. Adds(c, r, roles) = {k} BY <1>2, <2>1 DEF Adds
  <2>5. /\ t \in Seq(Keys) /\ Range(t) = Range(s) \cup {k}
        /\ IsInjective(s) /\ k \notin Range(s) => IsInjective(t)
    BY <2>3, Appends
  <2>6. QED BY <2>4, <2>5 DEF Joined
<1>3. QED BY <1>1, <1>2

\* The i-th job leaves.
LEMMA Leaves ==
  ASSUME NEW S, NEW s \in Seq(S), IsInjective(s), NEW i \in DOMAIN s, NEW t, t = RemoveAt(s, i)
  PROVE  /\ t \in Seq(S) /\ IsInjective(t)
         /\ Range(t) = Range(s) \ {s[i]}
<1> DEFINE n == Len(s)
           a == SubSeq(s, 1, i - 1)
           b == SubSeq(s, i + 1, n)
<1>1. n \in Nat /\ DOMAIN s = 1 .. n /\ i \in 1 .. n OBVIOUS
<1>2. /\ a \in Seq(S) /\ Len(a) = i - 1 /\ \A j \in 1 .. i - 1 : a[j] = s[j]
  <2>1. 1 \in 1 .. n + 1 /\ i - 1 \in 0 .. n BY <1>1
  <2>2. QED BY <1>1, <2>1, SubSeqProperties
<1>3. /\ b \in Seq(S) /\ Len(b) = n - i /\ \A j \in 1 .. n - i : b[j] = s[i + j]
  <2>1. QED BY <1>1, SubSeqProperties
<1>4. t = a \o b BY DEF RemoveAt
<1> HIDE DEF a, b, n
<1>5. /\ t \in Seq(S) /\ Len(t) = n - 1
      /\ \A j \in 1 .. n - 1 : t[j] = IF j < i THEN s[j] ELSE s[j + 1]
  <2>1. t \in Seq(S) /\ Len(t) = Len(a) + Len(b) BY <1>2, <1>3, <1>4, ConcatProperties
  <2>2. Len(t) = n - 1 BY <1>1, <1>2, <1>3, <2>1
  <2>3. ASSUME NEW j \in 1 .. n - 1 PROVE t[j] = IF j < i THEN s[j] ELSE s[j + 1]
    <3>1. t[j] = IF j <= Len(a) THEN a[j] ELSE b[j - Len(a)]
      <4>1. j \in 1 .. Len(a) + Len(b) BY <1>1, <1>2, <1>3, <2>1, <2>2
      <4>2. (a \o b)[j] = IF j <= Len(a) THEN a[j] ELSE b[j - Len(a)]
        BY <1>2, <1>3, <4>1, ConcatProperties
      <4>3. QED BY <1>4, <4>2
    <3>2. CASE j < i
      <4>1. j \in 1 .. i - 1 BY <1>1, <3>2
      <4>2. QED BY <1>2, <3>1, <3>2, <4>1
    <3>3. CASE ~(j < i)
      <4>1. j - (i - 1) \in 1 .. n - i /\ i + (j - (i - 1)) = j + 1 BY <1>1, <3>3
      <4>2. ~(j <= Len(a)) BY <1>1, <1>2, <3>3
      <4>3. QED BY <1>2, <1>3, <3>1, <3>3, <4>1, <4>2
    <3>4. QED BY <3>2, <3>3
  <2>4. QED BY <2>1, <2>2, <2>3
<1>6. DOMAIN t = 1 .. n - 1 BY <1>1, <1>5
<1> DEFINE From(j) == IF j < i THEN j ELSE j + 1
<1>7. \A j \in 1 .. n - 1 : From(j) \in 1 .. n /\ From(j) # i /\ t[j] = s[From(j)]
  BY <1>1, <1>5
<1>8. IsInjective(t)
  <2> SUFFICES ASSUME NEW j \in 1 .. n - 1, NEW m \in 1 .. n - 1, t[j] = t[m] PROVE j = m
    BY <1>6 DEF IsInjective
  <2>1. From(j) = From(m) BY <1>1, <1>7 DEF IsInjective
  <2>2. QED BY <1>1, <2>1
<1>9. Range(t) = Range(s) \ {s[i]}
  <2>1. ASSUME NEW x \in Range(t) PROVE x \in Range(s) \ {s[i]}
    <3>1. PICK j \in 1 .. n - 1 : x = t[j] BY <1>6, <2>1 DEF Range
    <3>2. x = s[From(j)] /\ From(j) \in 1 .. n /\ From(j) # i BY <1>7, <3>1
    <3> HIDE DEF From
    <3>3. QED BY <1>1, <3>2 DEF Range, IsInjective
  <2>2. ASSUME NEW x \in Range(s) \ {s[i]} PROVE x \in Range(t)
    <3>1. PICK j \in 1 .. n : x = s[j] BY <1>1, <2>2 DEF Range
    <3>2. j # i BY <2>2, <3>1
    <3> DEFINE m == IF j < i THEN j ELSE j - 1
    <3>3. m \in 1 .. n - 1 /\ From(m) = j BY <1>1, <3>2
    <3>4. t[m] = s[j] BY <1>7, <3>3
    <3> HIDE DEF m
    <3>5. QED BY <1>6, <3>1, <3>3, <3>4 DEF Range
  <2>3. QED BY <2>1, <2>2
<1>10. QED BY <1>5, <1>8, <1>9

-----------------------------------------------------------------------------
(* Jobs and workers *)

Statuses == {"pending", "running", "retry_wait", "completed", "failed"}

\* What the type says of a job and of what is queued.
LEMMA JobShape ==
  ASSUME TypeOK
  PROVE  /\ \A k \in Keys : job[k] # NoJob =>
              /\ job[k] \in Jobs /\ job[k].status \in Statuses /\ job[k].dep \in Deployments
              /\ job[k].owner \in Workers \cup {NoWorker} /\ job[k].token \in Nat
              /\ job[k].attempts \in Nat /\ job[k].lapsed \in BOOLEAN
         /\ Range(queue) \subseteq Keys
         /\ \A w \in Workers : held[w] # Idle => held[w].key \in Keys /\ held[w].token \in Nat
         /\ \A w \in Workers : held[w].key \in Keys => held[w] # Idle
         /\ upsets \in Nat /\ upsets <= MaxUpsets
<1>1. ASSUME NEW k \in Keys, job[k] # NoJob
      PROVE  /\ job[k] \in Jobs /\ job[k].status \in Statuses /\ job[k].dep \in Deployments
             /\ job[k].owner \in Workers \cup {NoWorker} /\ job[k].token \in Nat
             /\ job[k].attempts \in Nat /\ job[k].lapsed \in BOOLEAN
  <2>1. job[k] \in Jobs BY <1>1 DEF TypeOK
  <2>2. QED BY <2>1, JobConstants DEF Jobs, Statuses
<1>2. Range(queue) \subseteq Keys
  <2>1. queue \in Seq(Keys) BY DEF TypeOK
  <2>2. QED BY <2>1 DEF Range
<1>3. \A w \in Workers : held[w] # Idle => held[w].key \in Keys /\ held[w].token \in Nat
  BY DEF TypeOK
<1>4. Idle.key \notin Keys
  <2>1. Idle.key = <<0, "">> BY DEF Idle
  <2>2. \A k \in Keys : k[1] \in 1 .. MaxCandle BY DEF Keys, Candles
  <2>3. <<0, "">>[1] \notin 1 .. MaxCandle BY JobConstants
  <2>4. QED BY <2>1, <2>2, <2>3
<1>5. upsets \in Nat /\ upsets <= MaxUpsets BY JobConstants DEF TypeOK
<1>6. QED BY <1>1, <1>2, <1>3, <1>4, <1>5

\* One job's row is written, and its event with it.
LEMMA JobMoves ==
  ASSUME TypeOK, EventShowsItsJob, NEW k \in Keys, job[k] # NoJob, NEW row \in Jobs,
         job' = [job EXCEPT ![k] = row], explained' = [explained EXCEPT ![k] = row.status]
  PROVE  /\ job' \in [Keys -> Jobs \cup {NoJob}] /\ explained' \in [Keys -> Statuses \cup {"none"}]
         /\ EventShowsItsJob'
         /\ job'[k] = row /\ row # NoJob /\ \A x \in Keys \ {k} : job'[x] = job[x]
<1>1. row # NoJob /\ row.status \in Statuses BY JobConstants DEF Jobs, Statuses
<1>2. job \in [Keys -> Jobs \cup {NoJob}] /\ explained \in [Keys -> Statuses \cup {"none"}]
  BY DEF TypeOK, Statuses
<1>3. job'[k] = row /\ explained'[k] = row.status BY <1>2
<1>4. \A x \in Keys \ {k} : job'[x] = job[x] /\ explained'[x] = explained[x] BY <1>2
<1>5. EventShowsItsJob' BY <1>1, <1>3, <1>4 DEF EventShowsItsJob
<1>6. QED BY <1>1, <1>2, <1>3, <1>4, <1>5

\* A job that nothing touches keeps its count, as long as whoever works on it goes on or an
\* upset is counted.
LEMMA CountStays ==
  ASSUME TypeOK, TypeOK', NEW x \in Keys, job[x] # NoJob, AttemptsOf(x), job'[x] = job[x],
         \/ upsets' = upsets /\ (job[x].status = "running" /\ Working(x) => Working(x)')
         \/ upsets' = upsets + 1
  PROVE  AttemptsOf(x)'
<1>1. /\ job[x].attempts \in Nat /\ upsets \in Nat /\ upsets' \in Nat /\ MaxAttempts \in Nat
  <2>1. upsets' \in 0 .. MaxUpsets BY DEF TypeOK
  <2>2. QED BY <2>1, JobShape, JobConstants
<1>2. CASE upsets' = upsets /\ (job[x].status = "running" /\ Working(x) => Working(x)')
  BY <1>1, <1>2 DEF AttemptsOf
<1>3. CASE upsets' = upsets + 1
  <2>1. job'[x].attempts <= MaxAttempts + upsets BY DEF AttemptsOf
  <2>2. job'[x].attempts < MaxAttempts + upsets' BY <1>1, <1>3, <2>1
  <2>3. QED BY <1>1, <2>2 DEF AttemptsOf
<1>4. QED BY <1>2, <1>3

\* No row is written and no job queued or dropped.
LEMMA WorkStays ==
  ASSUME JobInv, TypeOK', HeldExists', UNCHANGED work,
         \/ upsets' = upsets
            /\ \A k \in Keys : job[k] # NoJob /\ job[k].status = "running" /\ Working(k) =>
                 Working(k)'
         \/ upsets' = upsets + 1
  PROVE  JobInv'
<1>1. EventShowsItsJob' /\ QueueOfOpenJobs'
  BY DEF work, JobInv, EventShowsItsJob, QueueOfOpenJobs, Range, IsInjective
<1>2. AttemptsCounted'
  <2> SUFFICES ASSUME NEW k \in Keys, job'[k] # NoJob PROVE AttemptsOf(k)'
    BY DEF AttemptsCounted
  <2>1. job'[k] = job[k] BY DEF work
  <2>2. job[k] # NoJob /\ AttemptsOf(k) BY <2>1 DEF JobInv, AttemptsCounted
  <2>3. QED BY <2>1, <2>2, CountStays DEF JobInv
<1>3. QED BY <1>1, <1>2 DEF JobInv

-----------------------------------------------------------------------------

\* No job exists at the start.
LEMMA JobInvInit == Init => JobInv
<1> SUFFICES ASSUME Init PROVE JobInv OBVIOUS
<1>1. TypeOK
  <2>1. <<>> \in Seq(Keys) OBVIOUS
  <2>2. 0 \in 0 .. MaxCandle /\ 0 \in 0 .. MaxUpsets BY JobConstants
  <2>3. QED BY <2>1, <2>2 DEF Init, TypeOK
<1>2. EventShowsItsJob BY DEF Init, EventShowsItsJob
<1>3. QueueOfOpenJobs
  <2>1. DOMAIN queue = {} BY DEF Init
  <2>2. QED BY <2>1 DEF Init, QueueOfOpenJobs, Range, IsInjective
<1>4. HeldExists BY DEF Init, HeldExists
<1>5. AttemptsCounted BY DEF Init, AttemptsCounted
<1>6. QED BY <1>1, <1>2, <1>3, <1>4, <1>5 DEF JobInv

\* The market goes on, and workers that lose the job they had.
LEMMA InvOfOthers ==
  ASSUME JobInv, CandleCloses \/ \E w \in Workers : Fenced(w) \/ Crash(w)
  PROVE  JobInv'
<1>1. CASE CandleCloses
  <2>1. TypeOK' BY <1>1, JobConstants DEF CandleCloses, JobInv, TypeOK, rounds, work
  <2>2. UNCHANGED <<work, held, upsets>> BY <1>1 DEF CandleCloses
  <2>3. HeldExists' BY <2>2 DEF JobInv, HeldExists, work
  <2>4. \A k \in Keys : Working(k) => Working(k)' BY <2>2 DEF Working, WorksOn, work
  <2>5. QED BY <2>1, <2>2, <2>3, <2>4, WorkStays
<1>2. ASSUME NEW w \in Workers, Fenced(w) \/ Crash(w) PROVE JobInv'
  <2>1. /\ UNCHANGED <<closed, rounds, work>> /\ held' = [held EXCEPT ![w] = Idle]
        /\ \/ upsets' = upsets /\ ~OwnsJob(w)
           \/ upsets < MaxUpsets /\ upsets' = upsets + 1
    <3>1. CASE Fenced(w) BY <3>1 DEF Fenced, Leave
    <3>2. CASE Crash(w) BY <3>2 DEF Crash, Leave, Upset
    <3>3. QED BY <1>2, <3>1, <3>2
  <2>2. TypeOK'
    <3>1. upsets' \in 0 .. MaxUpsets BY <2>1, JobConstants DEF JobInv, TypeOK
    <3>2. held' \in [Workers -> [key : Keys, token : Nat] \cup {Idle}]
      BY <2>1 DEF JobInv, TypeOK
    <3>3. QED BY <2>1, <3>1, <3>2 DEF JobInv, TypeOK, rounds, work
  <2>3. /\ held'[w] = Idle /\ \A v \in Workers \ {w} : held'[v] = held[v] BY <2>1 DEF JobInv, TypeOK
  <2>4. HeldExists' BY <2>1, <2>3 DEF JobInv, HeldExists, work
  <2>5. ASSUME upsets' = upsets, NEW k \in Keys, job[k].status = "running", Working(k)
        PROVE  Working(k)'
    <3>1. PICK v \in Workers : WorksOn(v, k) BY <2>5 DEF Working
    <3>2. ~OwnsJob(w)
      <4>1. upsets \in Nat BY JobShape DEF JobInv
      <4>2. QED BY <2>1, <2>5, <4>1
    <3>3. v # w BY <2>5, <3>1, <3>2 DEF WorksOn, OwnsJob
    <3>4. WorksOn(v, k)' BY <2>1, <2>3, <3>1, <3>3 DEF WorksOn, work
    <3>5. QED BY <3>4 DEF Working
  <2>6. QED BY <2>1, <2>2, <2>4, <2>5, WorkStays
<1>3. QED BY <1>1, <1>2

\* A step that writes one job's row, and may queue or drop that job.
LEMMA InvOfRow ==
  ASSUME JobInv, NEW k \in Keys, job[k] # NoJob, NEW row \in Jobs,
         job' = [job EXCEPT ![k] = row], explained' = [explained EXCEPT ![k] = row.status],
         UNCHANGED <<closed, rounds>>,
         queue' \in Seq(Keys), IsInjective(queue'), Range(queue') \ {k} = Range(queue) \ {k},
         k \in Range(queue') => row.status \in Open,
         row.status \in {"pending", "running"} => k \in Range(queue'),
         held' \in [Workers -> [key : Keys, token : Nat] \cup {Idle}],
         \A v \in Workers : held'[v] # Idle => held'[v] = held[v] \/ held'[v].key = k,
         upsets' \in 0 .. MaxUpsets,
         \/ /\ upsets' = upsets
            /\ \A x \in Keys \ {k} :
                 job[x] # NoJob /\ job[x].status = "running" /\ Working(x) => Working(x)'
         \/ upsets' = upsets + 1,
         AttemptsOf(k)'
  PROVE  JobInv'
<1>1. /\ job' \in [Keys -> Jobs \cup {NoJob}] /\ explained' \in [Keys -> Statuses \cup {"none"}]
      /\ EventShowsItsJob'
      /\ job'[k] = row /\ row # NoJob /\ \A x \in Keys \ {k} : job'[x] = job[x]
  BY JobMoves DEF JobInv
<1>2. TypeOK' BY <1>1 DEF JobInv, TypeOK, rounds, Statuses
<1>3. QueueOfOpenJobs'
  <2>1. Range(queue') \subseteq Keys BY <1>2, JobShape DEF TypeOK, Range
  <2>2. ASSUME NEW x \in Range(queue') PROVE job'[x] # NoJob /\ job'[x].status \in Open
    <3>1. CASE x = k BY <1>1, <2>2, <3>1
    <3>2. CASE x # k BY <1>1, <2>1, <2>2, <3>2 DEF JobInv, QueueOfOpenJobs
    <3>3. QED BY <3>1, <3>2
  <2>3. ASSUME NEW x \in Keys, job'[x] # NoJob, job'[x].status \in {"pending", "running"}
        PROVE  x \in Range(queue')
    <3>1. CASE x = k BY <1>1, <2>3, <3>1
    <3>2. CASE x # k
      <4>1. x \in Range(queue) BY <1>1, <2>3, <3>2 DEF JobInv, QueueOfOpenJobs
      <4>2. QED BY <3>2, <4>1
    <3>3. QED BY <3>1, <3>2
  <2>4. QED BY <2>2, <2>3 DEF QueueOfOpenJobs
<1>4. HeldExists'
  <2> SUFFICES ASSUME NEW v \in Workers, held'[v] # Idle PROVE job'[held'[v].key] # NoJob
    BY DEF HeldExists
  <2>1. CASE held'[v].key = k BY <1>1, <2>1
  <2>2. CASE held'[v].key # k
    <3>1. held'[v] = held[v] /\ held[v] # Idle BY <2>2
    <3>2. job[held[v].key] # NoJob /\ held[v].key \in Keys
      BY <3>1, JobShape DEF JobInv, HeldExists
    <3>3. QED BY <1>1, <2>2, <3>1, <3>2
  <2>3. QED BY <2>1, <2>2
<1>5. AttemptsCounted'
  <2> SUFFICES ASSUME NEW x \in Keys, job'[x] # NoJob PROVE AttemptsOf(x)' BY DEF AttemptsCounted
  <2>1. CASE x = k BY <2>1
  <2>2. CASE x # k
    <3>1. job'[x] = job[x] BY <1>1, <2>2
    <3>2. job[x] # NoJob /\ AttemptsOf(x) /\ TypeOK BY <3>1 DEF JobInv, AttemptsCounted
    <3>3. \/ upsets' = upsets /\ (job[x].status = "running" /\ Working(x) => Working(x)')
          \/ upsets' = upsets + 1
      BY <2>2, <3>2
    <3>4. QED BY <1>2, <3>1, <3>2, <3>3, CountStays
  <2>3. QED BY <2>1, <2>2
<1>6. QED BY <1>1, <1>2, <1>3, <1>4, <1>5 DEF JobInv

\* A job's retry falls due: it is queued again.
LEMMA InvOfRetry ==
  ASSUME JobInv, NEW k \in Keys, RetryDue(k)
  PROVE  JobInv'
<1> USE DEF RetryDue
<1>1. /\ job[k] \in Jobs /\ job[k].status = "retry_wait"
      /\ UNCHANGED <<closed, rounds, explained, job, held, upsets>>
  BY JobShape DEF JobInv
<1>2. queue \in Seq(Keys) /\ IsInjective(queue) BY DEF JobInv, TypeOK, QueueOfOpenJobs
<1>3. k \notin Range(queue) BY DEF Range
<1>4. queue' = Append(queue, k) OBVIOUS
<1>5. /\ queue' \in Seq(Keys) /\ Range(queue') = Range(queue) \cup {k} /\ IsInjective(queue')
  BY <1>2, <1>3, <1>4, Appends
<1>6. /\ job' = [job EXCEPT ![k] = job[k]] /\ explained' = [explained EXCEPT ![k] = job[k].status]
      /\ held' \in [Workers -> [key : Keys, token : Nat] \cup {Idle}] /\ upsets' \in 0 .. MaxUpsets
  BY <1>1 DEF JobInv, TypeOK, EventShowsItsJob
<1>7. AttemptsOf(k)'
  BY <1>1 DEF JobInv, AttemptsCounted, AttemptsOf, Working, WorksOn
<1>8. \A x \in Keys \ {k} : Working(x) => Working(x)' BY <1>1 DEF Working, WorksOn
<1>9. UNCHANGED <<closed, rounds>> /\ held' = held /\ upsets' = upsets BY <1>1
<1>10. Range(queue') \ {k} = Range(queue) \ {k} /\ job[k].status \in Open BY <1>1, <1>5 DEF Open
<1>11. job[k] # NoJob /\ job[k].status \notin {"pending", "running"} BY <1>1
<1> HIDE DEF RetryDue
<1>12. QED BY <1>1, <1>5, <1>6, <1>7, <1>8, <1>9, <1>10, <1>11, InvOfRow

\* A lease lapses: an upset, if the worker that has the job still lives.
LEMMA InvOfLapse ==
  ASSUME JobInv, NEW k \in Keys, Lapse(k)
  PROVE  JobInv'
<1> DEFINE row == [job[k] EXCEPT !.lapsed = TRUE]
<1>1. /\ job[k] \in Jobs /\ job[k] # NoJob /\ job[k].status = "running" /\ ~job[k].lapsed
      /\ UNCHANGED <<closed, rounds, explained, queue, held>>
      /\ job' = [job EXCEPT ![k].lapsed = TRUE]
  BY JobShape DEF JobInv, Lapse
<1>2. /\ row \in Jobs /\ row.status = "running" /\ row.attempts = job[k].attempts
      /\ job' = [job EXCEPT ![k] = row]
  BY <1>1 DEF Jobs
<1>3. \/ upsets' = upsets /\ ~Working(k)
      \/ upsets' = upsets + 1 /\ upsets < MaxUpsets
  <2>1. CASE Working(k)
    <3>1. \E w \in Workers : held[w].key = k /\ OwnsJob(w)
      BY <1>1, <2>1 DEF Working, WorksOn, OwnsJob
    <3>2. QED BY <3>1 DEF Lapse, Upset
  <2>2. CASE ~Working(k)
    <3>1. ~\E w \in Workers : held[w].key = k /\ OwnsJob(w) BY <2>2 DEF Working, WorksOn, OwnsJob
    <3>2. QED BY <2>2, <3>1 DEF Lapse
  <2>3. QED BY <2>1, <2>2
<1>4. /\ job[k].attempts \in Nat /\ upsets \in Nat /\ upsets <= MaxUpsets /\ MaxAttempts \in Nat
      /\ MaxUpsets \in Nat
  BY <1>1, JobShape, JobConstants DEF JobInv
<1>5. upsets' \in 0 .. MaxUpsets BY <1>3, <1>4
<1>6. job'[k] = row BY <1>2 DEF JobInv, TypeOK
<1> HIDE DEF row
<1>7. AttemptsOf(k) BY <1>1 DEF JobInv, AttemptsCounted
<1>8. job[k].attempts < MaxAttempts + upsets'
  <2>1. CASE upsets' = upsets /\ ~Working(k) BY <1>1, <1>7, <2>1 DEF AttemptsOf
  <2>2. CASE upsets' = upsets + 1
    <3>1. job[k].attempts <= MaxAttempts + upsets BY <1>7 DEF AttemptsOf
    <3>2. QED BY <1>4, <2>2, <3>1
  <2>3. QED BY <1>3, <2>1, <2>2
<1>9. AttemptsOf(k)' BY <1>2, <1>4, <1>5, <1>6, <1>8 DEF AttemptsOf
<1>10. /\ explained' = [explained EXCEPT ![k] = row.status]
       /\ held' \in [Workers -> [key : Keys, token : Nat] \cup {Idle}]
  BY <1>1, <1>2 DEF JobInv, TypeOK, EventShowsItsJob
<1>11. /\ queue' = queue /\ queue' \in Seq(Keys) /\ IsInjective(queue')
       /\ k \in Range(queue)
  BY <1>1 DEF JobInv, TypeOK, QueueOfOpenJobs
<1>12. ASSUME NEW x \in Keys \ {k}, Working(x) PROVE Working(x)'
  <2>1. job'[x] = job[x] BY <1>2 DEF JobInv, TypeOK
  <2>2. QED BY <1>1, <1>12, <2>1 DEF Working, WorksOn
<1>13. row.status \in Open /\ UNCHANGED <<closed, rounds>> /\ held' = held
  BY <1>1, <1>2 DEF Open
<1>14. \/ upsets' = upsets \/ upsets' = upsets + 1 BY <1>3
<1>15. QED BY <1>1, <1>2, <1>5, <1>9, <1>10, <1>11, <1>12, <1>13, <1>14, InvOfRow

\* A worker takes a job that waits, or one whose worker was lost.
LEMMA InvOfClaim ==
  ASSUME JobInv, NEW w \in Workers, Claim(w)
  PROVE  JobInv'
<1>1. PICK i \in DOMAIN queue :
        LET k == queue[i]
        IN /\ held[w] = Idle
           /\ Picked(i)
           /\ HasItsEvent(k)
           /\ job' = [job EXCEPT ![k].status = "running", ![k].owner = w, ![k].token = @ + 1,
                                 ![k].attempts = @ + 1, ![k].lapsed = FALSE]
           /\ explained' = [explained EXCEPT ![k] = "running"]
           /\ held' = [held EXCEPT ![w] = [key |-> k, token |-> job[k].token + 1]]
           /\ UNCHANGED <<closed, rounds, queue, upsets>>
  BY DEF Claim
<1>0. PICK k \in Keys : k = queue[i]
  BY DEF JobInv, TypeOK
<1> DEFINE row == [job[k] EXCEPT !.status = "running", !.owner = w, !.token = @ + 1,
                                 !.attempts = @ + 1, !.lapsed = FALSE]
           hand == [key |-> k, token |-> job[k].token + 1]
<1>2. /\ held[w] = Idle /\ job' = [job EXCEPT ![k] = row]
      /\ explained' = [explained EXCEPT ![k] = "running"]
      /\ held' = [held EXCEPT ![w] = hand]
      /\ UNCHANGED <<closed, rounds, queue, upsets>>
  BY <1>0, <1>1
<1>3. \/ job[k].status \in {"pending", "retry_wait"}
      \/ job[k].status = "running" /\ job[k].lapsed
  BY <1>0, <1>1 DEF Picked, Eligible
<1>4. k \in Range(queue) BY <1>0 DEF Range
<1>5. k \in Keys /\ job[k] # NoJob BY <1>4, JobShape DEF JobInv, QueueOfOpenJobs
<1>6. /\ job[k] \in Jobs /\ job[k].token \in Nat /\ job[k].attempts \in Nat
      /\ upsets \in Nat /\ upsets <= MaxUpsets /\ MaxAttempts \in Nat \ {0} /\ MaxUpsets \in Nat
  BY <1>5, JobShape, JobConstants DEF JobInv
<1>7. job[k].attempts + 1 <= MaxAttempts + upsets
  <2>1. AttemptsOf(k) BY <1>5 DEF JobInv, AttemptsCounted
  <2>2. CASE job[k].status = "pending" BY <1>6, <2>1, <2>2 DEF AttemptsOf
  <2>3. CASE job[k].status = "retry_wait" BY <1>6, <2>1, <2>3 DEF AttemptsOf
  <2>4. CASE job[k].status = "running" /\ job[k].lapsed BY <1>6, <2>1, <2>4 DEF AttemptsOf
  <2>5. QED BY <1>3, <2>2, <2>3, <2>4
<1>8. /\ row \in Jobs /\ row.status = "running" /\ row.owner = w /\ row.token = job[k].token + 1
      /\ row.attempts = job[k].attempts + 1 /\ row.lapsed = FALSE
  <2>1. job[k].attempts + 1 \in 0 .. MaxAttempts + MaxUpsets /\ job[k].token + 1 \in Nat
    BY <1>6, <1>7
  <2>2. QED BY <1>6, <2>1 DEF Jobs
<1>9. hand \in [key : Keys, token : Nat] /\ hand.key = k /\ hand.token = job[k].token + 1
  BY <1>5, <1>6
<1> HIDE DEF row, hand
<1>10. /\ held' \in [Workers -> [key : Keys, token : Nat] \cup {Idle}]
       /\ held'[w] = hand /\ \A v \in Workers \ {w} : held'[v] = held[v]
  BY <1>2, <1>9 DEF JobInv, TypeOK
<1>11. /\ job'[k] = row /\ \A x \in Keys \ {k} : job'[x] = job[x]
  BY <1>2, <1>5 DEF JobInv, TypeOK
<1>12. AttemptsOf(k)'
  <2>1. WorksOn(w, k)' BY <1>8, <1>9, <1>10, <1>11 DEF WorksOn
  <2>2. Working(k)' BY <2>1 DEF Working
  <2>3. upsets' = upsets BY <1>2
  <2>4. QED BY <1>7, <1>8, <1>11, <2>2, <2>3 DEF AttemptsOf
<1>13. ASSUME NEW x \in Keys \ {k}, Working(x) PROVE Working(x)'
  <2>1. PICK v \in Workers : WorksOn(v, x) BY <1>13 DEF Working
  <2>2. v # w
    <3>1. held[v] # Idle BY <2>1, JobShape DEF JobInv, WorksOn
    <3>2. QED BY <1>2, <3>1
  <2>3. WorksOn(v, x)' BY <1>10, <1>11, <2>1, <2>2 DEF WorksOn
  <2>4. QED BY <2>3 DEF Working
<1>14. /\ queue' = queue /\ queue' \in Seq(Keys) /\ IsInjective(queue') /\ upsets' = upsets
       /\ upsets' \in 0 .. MaxUpsets
  BY <1>2, <1>6 DEF JobInv, TypeOK, QueueOfOpenJobs
<1>15. \A v \in Workers : held'[v] # Idle => held'[v] = held[v] \/ held'[v].key = k
  BY <1>9, <1>10
<1>16. row.status \in Open /\ explained' = [explained EXCEPT ![k] = row.status]
       /\ job' = [job EXCEPT ![k] = row] /\ UNCHANGED <<closed, rounds>>
  BY <1>2, <1>8 DEF Open
<1>17. QED BY <1>4, <1>5, <1>8, <1>10, <1>12, <1>13, <1>14, <1>15, <1>16, InvOfRow

\* The owner's answer, or its failure.
LEMMA InvOfAnswer ==
  ASSUME JobInv, NEW w \in Workers, Complete(w) \/ FailJob(w)
  PROVE  JobInv'
<1>0. PICK k \in Keys : k = held[w].key
  <2>1. held[w] # Idle BY DEF Complete, FailJob
  <2>2. QED BY <2>1, JobShape DEF JobInv
<1>1. PICK status \in {"completed", "failed", "retry_wait"} :
        /\ held[w] # Idle /\ OwnsJob(w) /\ Conclude(k, status) /\ Leave(w)
        /\ UNCHANGED <<closed, rounds, upsets>>
        /\ status = "retry_wait" => ~(job[k].attempts >= MaxAttempts)
  <2>1. CASE Complete(w) BY <1>0, <2>1 DEF Complete
  <2>2. CASE FailJob(w)
    <3>1. /\ AfterFailure(k) \in {"completed", "failed", "retry_wait"}
          /\ AfterFailure(k) = "retry_wait" => ~(job[k].attempts >= MaxAttempts)
      BY DEF AfterFailure
    <3>2. QED BY <1>0, <2>2, <3>1 DEF FailJob
  <2>3. QED BY <2>1, <2>2
<1> DEFINE row == [job[k] EXCEPT !.status = status, !.owner = NoWorker, !.lapsed = FALSE]
<1>2. /\ job' = [job EXCEPT ![k] = row] /\ explained' = [explained EXCEPT ![k] = status]
      /\ held' = [held EXCEPT ![w] = Idle]
  BY <1>1 DEF Conclude, Leave
<1>3. PICK i \in DOMAIN queue : queue[i] = k /\ queue' = RemoveAt(queue, i)
  BY <1>1 DEF Conclude, Unqueue
<1>4. job[k].status = "running" /\ job[k].owner = w BY <1>0, <1>1 DEF OwnsJob
<1>5. k \in Keys /\ job[k] # NoJob BY <1>0, <1>1, JobShape DEF JobInv, HeldExists
<1>6. job[k] \in Jobs /\ job[k].attempts \in Nat /\ upsets \in Nat /\ MaxAttempts \in Nat
  BY <1>5, JobShape, JobConstants DEF JobInv
<1>7. row \in Jobs /\ row.status = status /\ row.attempts = job[k].attempts BY <1>6 DEF Jobs
<1> HIDE DEF row
<1>8. /\ queue' \in Seq(Keys) /\ IsInjective(queue') /\ Range(queue') = Range(queue) \ {k}
  BY <1>3, Leaves DEF JobInv, TypeOK, QueueOfOpenJobs
<1>9. /\ held' \in [Workers -> [key : Keys, token : Nat] \cup {Idle}]
      /\ held'[w] = Idle /\ \A v \in Workers \ {w} : held'[v] = held[v]
  BY <1>2 DEF JobInv, TypeOK
<1>10. /\ job'[k] = row /\ \A x \in Keys \ {k} : job'[x] = job[x]
  BY <1>2, <1>5 DEF JobInv, TypeOK
<1>11. upsets' = upsets /\ upsets' \in 0 .. MaxUpsets BY <1>1 DEF JobInv, TypeOK
<1>12. AttemptsOf(k)'
  <2>1. AttemptsOf(k) BY <1>5 DEF JobInv, AttemptsCounted
  <2>2. job[k].attempts <= MaxAttempts + upsets BY <2>1 DEF AttemptsOf
  <2>3. status = "retry_wait" => job[k].attempts < MaxAttempts BY <1>1, <1>6
  <2>4. QED BY <1>7, <1>10, <1>11, <2>2, <2>3 DEF AttemptsOf
<1>13. ASSUME NEW x \in Keys \ {k}, Working(x) PROVE Working(x)'
  <2>1. PICK v \in Workers : WorksOn(v, x) BY <1>13 DEF Working
  <2>2. v # w BY <1>0, <2>1 DEF WorksOn
  <2>3. WorksOn(v, x)' BY <1>9, <1>10, <2>1, <2>2 DEF WorksOn
  <2>4. QED BY <2>3 DEF Working
<1>14. /\ explained' = [explained EXCEPT ![k] = row.status] /\ UNCHANGED <<closed, rounds>>
       /\ row.status \notin {"pending", "running"} /\ job' = [job EXCEPT ![k] = row]
  BY <1>1, <1>2, <1>7
<1>15. \A v \in Workers : held'[v] # Idle => held'[v] = held[v] BY <1>9
<1>16. Range(queue') \ {k} = Range(queue) \ {k} /\ k \notin Range(queue') BY <1>8
<1>17. QED BY <1>5, <1>7, <1>8, <1>9, <1>11, <1>12, <1>13, <1>14, <1>15, <1>16, InvOfRow

\* A deployment decides a candle, and enqueues what the round has no job for yet.
LEMMA InvOfCycle ==
  ASSUME JobInv, NEW d \in Deployments, NEW acts \in BOOLEAN, NEW due \in BOOLEAN,
         Decide(d, acts, due)
  PROVE  JobInv'
<1>1. PICK c \in Candles : c = IF last[d] = 0 THEN closed ELSE last[d] + 1
  BY JobConstants DEF Decide, JobInv, TypeOK, Candles
<1>2. PICK roles \in SUBSET Roles : roles = NewRoles(c, Requested(acts, due))
  BY JobConstants DEF NewRoles, Requested
<1>3. UNCHANGED <<closed, held, upsets>> BY DEF Decide
<1>4. CASE ~ForeignKeyHolds(acts, roles)
  <2>1. /\ rolledBack' = rolledBack \cup {<<d, c>>}
        /\ UNCHANGED <<last, cycleRows, eventCycle, work>>
    BY <1>1, <1>2, <1>4 DEF Decide
  <2>2. TypeOK' BY <1>3, <2>1 DEF JobInv, TypeOK, work
  <2>3. HeldExists' BY <1>3, <2>1 DEF JobInv, HeldExists, work
  <2>4. \A k \in Keys : Working(k) => Working(k)' BY <1>3, <2>1 DEF Working, WorksOn, work
  <2>5. QED BY <1>3, <2>1, <2>2, <2>3, <2>4, WorkStays
<1>5. CASE ForeignKeyHolds(acts, roles)
  <2> DEFINE keys == {<<c, r>> : r \in roles}
             new == [dep |-> d, status |-> "pending", owner |-> NoWorker, token |-> 0,
                     attempts |-> 0, lapsed |-> FALSE]
  <2>1. /\ last' = [last EXCEPT ![d] = c]
        /\ cycleRows' = IF acts THEN cycleRows \cup {<<d, c>>} ELSE cycleRows
        /\ eventCycle' = [eventCycle EXCEPT ![c] =
             IF @ # NoRound THEN @ ELSE IF acts THEN d ELSE NoCycle]
        /\ Enqueue(d, c, roles)
        /\ UNCHANGED rolledBack
    BY <1>1, <1>2, <1>5 DEF Decide
  <2>2. keys \subseteq Keys /\ \A k \in keys : k[2] \in Roles /\ job[k] = NoJob
    <3>1. ASSUME NEW r \in roles
          PROVE  <<c, r>> \in Keys /\ <<c, r>>[2] = r /\ job[<<c, r>>] = NoJob
      BY <1>2 DEF Keys, NewRoles
    <3>2. QED BY <1>2, <3>1
  <2>3. new \in Jobs /\ new.status = "pending" /\ new.attempts = 0 /\ new # NoJob
    <3>1. 0 \in 0 .. MaxAttempts + MaxUpsets /\ 0 \in Nat BY JobConstants
    <3>2. new \in Jobs BY <3>1 DEF Jobs
    <3> HIDE DEF new
    <3>3. new # NoJob BY <3>2, JobConstants
    <3>4. QED BY <3>2, <3>3 DEF new
  <2>4. /\ job' = [k \in Keys |-> IF k \in keys THEN new ELSE job[k]]
        /\ explained' = [k \in Keys |->
             IF k \in keys /\ k[2] \in Marked(d, c) THEN "pending" ELSE explained[k]]
        /\ queue' = queue \o InTurn(c, "market_data", roles)
                          \o InTurn(c, "adversarial_review", roles) \o InTurn(c, "risk", roles)
    BY <2>1 DEF Enqueue
  <2>5. \A k \in Keys : k \in keys => job'[k] = new /\ explained'[k] = "pending"
    BY <2>2, <2>4 DEF Marked
  <2>6. \A k \in Keys : k \notin keys => job'[k] = job[k] /\ explained'[k] = explained[k]
    BY <2>4
  <2>7. job' \in [Keys -> Jobs \cup {NoJob}] /\ explained' \in [Keys -> Statuses \cup {"none"}]
    BY <2>3, <2>4 DEF JobInv, TypeOK, Statuses
  <2>8. queue' \in Seq(Keys) /\ IsInjective(queue') /\ Range(queue') = Range(queue) \cup keys
    <3> DEFINE one == queue \o InTurn(c, "market_data", roles)
               two == one \o InTurn(c, "adversarial_review", roles)
               three == two \o InTurn(c, "risk", roles)
               add1 == Adds(c, "market_data", roles)
               add2 == Adds(c, "adversarial_review", roles)
               add3 == Adds(c, "risk", roles)
    <3>1. queue \in Seq(Keys) /\ IsInjective(queue) BY DEF JobInv, TypeOK, QueueOfOpenJobs
    <3>2. \A r \in roles : <<c, r>> \notin Range(queue)
      BY <2>2 DEF JobInv, QueueOfOpenJobs
    <3>3. /\ add1 \cap Range(queue) = {} /\ add2 \cap Range(queue) = {}
          /\ add3 \cap Range(queue) = {}
          /\ add1 \cap add2 = {} /\ add1 \cap add3 = {} /\ add2 \cap add3 = {}
      BY <3>2 DEF Adds
    <3>8. keys = add1 \cup add2 \cup add3 BY <1>2 DEF Roles, Adds
    <3>9. "market_data" \in Roles /\ "adversarial_review" \in Roles /\ "risk" \in Roles BY DEF Roles
    <3>4. one \in Seq(Keys) /\ IsInjective(one) /\ Range(one) = Range(queue) \cup add1
      <4>1. Range(queue) \cap Adds(c, "market_data", roles) = {} BY <3>3
      <4>2. /\ one \in Seq(Keys) /\ IsInjective(one)
            /\ Joined(one, queue, c, "market_data", roles)
        BY <3>1, <3>9, <4>1, Joins
      <4> HIDE DEF one
      <4>3. QED BY <4>2 DEF Joined
    <3>5. two \in Seq(Keys) /\ IsInjective(two) /\ Range(two) = Range(one) \cup add2
      <4> HIDE DEF one
      <4>1. Range(one) \cap Adds(c, "adversarial_review", roles) = {} BY <3>3, <3>4
      <4>2. /\ two \in Seq(Keys) /\ IsInjective(two)
            /\ Joined(two, one, c, "adversarial_review", roles)
        BY <3>4, <3>9, <4>1, Joins
      <4> HIDE DEF two
      <4>3. QED BY <4>2 DEF Joined
    <3>6. three \in Seq(Keys) /\ IsInjective(three) /\ Range(three) = Range(two) \cup add3
      <4> HIDE DEF one, two
      <4>1. Range(two) \cap Adds(c, "risk", roles) = {} BY <3>3, <3>4, <3>5
      <4>2. /\ three \in Seq(Keys) /\ IsInjective(three)
            /\ Joined(three, two, c, "risk", roles)
        BY <3>5, <3>9, <4>1, Joins
      <4> HIDE DEF three
      <4>3. QED BY <4>2 DEF Joined
    <3>7. queue' = three BY <2>4
    <3> HIDE DEF keys, add1, add2, add3, one, two, three
    <3>10. QED BY <3>4, <3>5, <3>6, <3>7, <3>8
  <2> HIDE DEF keys, new
  <2>9. TypeOK'
    <3>1. last' \in [Deployments -> 0 .. MaxCandle] /\ cycleRows' \subseteq Deployments \X Candles
      BY <2>1, JobConstants DEF JobInv, TypeOK, Candles
    <3>2. eventCycle' \in [Candles -> Deployments \cup {NoRound, NoCycle}]
      BY <2>1 DEF JobInv, TypeOK
    <3>3. QED BY <1>3, <2>1, <2>7, <2>8, <3>1, <3>2 DEF JobInv, TypeOK, Statuses
  <2>10. EventShowsItsJob' BY <2>3, <2>5, <2>6 DEF JobInv, EventShowsItsJob
  <2>11. QueueOfOpenJobs'
    <3>1. Range(queue) \subseteq Keys BY JobShape DEF JobInv
    <3>2. ASSUME NEW k \in Range(queue') PROVE job'[k] # NoJob /\ job'[k].status \in Open
      <4>1. CASE k \in keys BY <2>2, <2>3, <2>5, <4>1 DEF Open
      <4>2. CASE k \notin keys BY <2>6, <2>8, <3>1, <3>2, <4>2 DEF JobInv, QueueOfOpenJobs
      <4>3. QED BY <4>1, <4>2
    <3>3. ASSUME NEW k \in Keys, job'[k] # NoJob, job'[k].status \in {"pending", "running"}
          PROVE  k \in Range(queue')
      <4>1. CASE k \in keys BY <2>8, <4>1
      <4>2. CASE k \notin keys BY <2>6, <2>8, <3>3, <4>2 DEF JobInv, QueueOfOpenJobs
      <4>3. QED BY <4>1, <4>2
    <3>4. QED BY <2>8, <3>2, <3>3 DEF QueueOfOpenJobs
  <2>12. HeldExists'
    <3> SUFFICES ASSUME NEW w \in Workers, held[w] # Idle PROVE job'[held[w].key] # NoJob
      BY <1>3 DEF HeldExists
    <3>1. held[w].key \in Keys /\ job[held[w].key] # NoJob BY JobShape DEF JobInv, HeldExists
    <3>2. QED BY <2>2, <2>6, <3>1
  <2>13. AttemptsCounted'
    <3> SUFFICES ASSUME NEW k \in Keys, job'[k] # NoJob PROVE AttemptsOf(k)' BY DEF AttemptsCounted
    <3>1. CASE k \in keys
      <4>1. upsets' = upsets /\ upsets \in Nat /\ MaxAttempts \in Nat /\ MaxAttempts # 0
        BY <1>3, JobShape, JobConstants DEF JobInv
      <4>2. job'[k].status = "pending" /\ job'[k].attempts = 0 BY <2>3, <2>5, <3>1
      <4>3. 0 < MaxAttempts + upsets /\ 0 <= MaxAttempts + upsets BY <4>1
      <4>4. QED BY <4>1, <4>2, <4>3 DEF AttemptsOf
    <3>2. CASE k \notin keys
      <4>1. job'[k] = job[k] /\ job[k] # NoJob BY <2>6, <3>2
      <4>2. AttemptsOf(k) BY <4>1 DEF JobInv, AttemptsCounted
      <4>3. Working(k) => Working(k)' BY <1>3, <4>1 DEF Working, WorksOn
      <4>4. upsets' = upsets BY <1>3
      <4>5. QED BY <2>9, <4>1, <4>2, <4>3, <4>4, CountStays DEF JobInv
    <3>3. QED BY <3>1, <3>2
  <2>14. QED BY <2>9, <2>10, <2>11, <2>12, <2>13 DEF JobInv
<1>6. QED BY <1>4, <1>5

\* Every step of the rounds and their jobs.
LEMMA JobInvStep == JobInv /\ [Next]_vars => JobInv'
<1> SUFFICES ASSUME JobInv, [Next]_vars PROVE JobInv' OBVIOUS
<1>1. ASSUME NEW d \in Deployments, Cycle(d) PROVE JobInv'
  <2>1. \A due \in SummaryDue(d) : due \in BOOLEAN BY DEF SummaryDue
  <2>2. QED BY <1>1, <2>1, InvOfCycle DEF Cycle
<1>2. ASSUME NEW w \in Workers, Claim(w) \/ Finish(w) \/ Crash(w) PROVE JobInv'
  BY <1>2, InvOfClaim, InvOfAnswer, InvOfOthers DEF Finish
<1>3. ASSUME NEW k \in Keys, RetryDue(k) \/ Lapse(k) PROVE JobInv'
  BY <1>3, InvOfRetry, InvOfLapse
<1>4. CASE UNCHANGED vars
  <2>1. UNCHANGED <<work, held, upsets>> /\ TypeOK' BY <1>4 DEF vars, work, rounds, JobInv, TypeOK
  <2>2. HeldExists' BY <2>1 DEF JobInv, HeldExists, work
  <2>3. \A k \in Keys : Working(k) => Working(k)' BY <2>1 DEF Working, WorksOn, work
  <2>4. QED BY <2>1, <2>2, <2>3, WorkStays
<1>5. QED BY <1>1, <1>2, <1>3, <1>4, InvOfOthers DEF Next

-----------------------------------------------------------------------------
(* The results *)

\* The status shown beside an event is always its job's, for any number of deployments that
\* share the round and of workers that take and lose the job (enqueueRuntimeExplanationJobs,
\* leaseNextRuntimeExplanationJob, completeRuntimeExplanationJob, failRuntimeExplanationJob).
THEOREM EventAlwaysShowsItsJob == Spec => []EventShowsItsJob
<1>1. JobInv => EventShowsItsJob BY DEF JobInv
<1>2. QED BY <1>1, JobInvInit, JobInvStep, PTL DEF Spec

\* Rounds, jobs and workers keep their types; of a job's attempts no more than max_attempts are
\* its own, every further one was paid by a lost worker or a call that outlived its lease.
THEOREM JobTypes == Spec => []TypeOK
<1>1. JobInv => TypeOK BY DEF JobInv
<1>2. QED BY <1>1, JobInvInit, JobInvStep, PTL DEF Spec

\* No late answer, late failure or later cycle changes a finished explanation.
THEOREM FinishedAlwaysStays == Spec => FinishedStaysFinished
<1> DEFINE Kept == \A k \in Keys : explained[k] \in {"completed", "failed"} =>
                     explained'[k] = explained[k]
<1>1. JobInv /\ [Next]_vars => [Kept]_vars
  <2> SUFFICES ASSUME JobInv, [Next]_vars, NEW k \in Keys, explained[k] \in {"completed", "failed"}
               PROVE  explained'[k] = explained[k]
    OBVIOUS
  <2>1. job[k] # NoJob /\ job[k].status = explained[k] /\ explained \in [Keys -> Statuses \cup {"none"}]
    BY DEF JobInv, EventShowsItsJob, TypeOK, Statuses
  <2>2. CASE UNCHANGED explained BY <2>2
  <2>3. ASSUME NEW d \in Deployments, Cycle(d), ~UNCHANGED explained
        PROVE  explained'[k] = explained[k]
    <3>1. PICK acts \in BOOLEAN, due \in SummaryDue(d) : Decide(d, acts, due)
      BY <2>3 DEF Cycle
    <3>2. PICK c, roles : roles = NewRoles(c, Requested(acts, due)) /\ Enqueue(d, c, roles)
      BY <2>3, <3>1 DEF Decide, work
    <3>3. k \notin {<<c, r>> : r \in roles} BY <2>1, <3>2 DEF NewRoles
    <3>4. QED BY <3>2, <3>3 DEF Enqueue
  <2>4. ASSUME NEW w \in Workers, Claim(w) PROVE explained'[k] = explained[k]
    <3>1. PICK i \in DOMAIN queue : Picked(i) /\ explained' = [explained EXCEPT ![queue[i]] = "running"]
      BY <2>4 DEF Claim
    <3>2. queue[i] # k BY <2>1, <3>1 DEF Picked, Eligible
    <3>3. QED BY <2>1, <3>1, <3>2
  <2>5. ASSUME NEW w \in Workers, Complete(w) \/ FailJob(w) PROVE explained'[k] = explained[k]
    <3>1. OwnsJob(w) /\ \E status : explained' = [explained EXCEPT ![held[w].key] = status]
      BY <2>5 DEF Complete, FailJob, Conclude
    <3>2. held[w].key # k BY <2>1, <3>1 DEF OwnsJob
    <3>3. QED BY <2>1, <3>1, <3>2
  <2>6. ASSUME NEW w \in Workers, Fenced(w) \/ Crash(w) PROVE UNCHANGED explained
    BY <2>6 DEF Fenced, Crash, work
  <2>7. ASSUME NEW x \in Keys, RetryDue(x) \/ Lapse(x) PROVE UNCHANGED explained
    BY <2>7 DEF RetryDue, Lapse
  <2>8. CASE CandleCloses \/ UNCHANGED vars BY <2>8 DEF CandleCloses, vars, work
  <2>9. QED BY <2>2, <2>3, <2>4, <2>5, <2>6, <2>7, <2>8 DEF Next, Finish
<1>2. QED BY <1>1, JobInvInit, JobInvStep, PTL DEF Spec, FinishedStaysFinished
=============================================================================
