------------------------ MODULE StrategyRuntimeProofs ------------------------
(* Proofs about the runtime of a card for every number of deployments,        *)
(* workers, candles, symbols and upsets. First the lease on its own: LeaseInv *)
(* says that what a worker remembers is never ahead of the row and, as long   *)
(* as its token is current, is exactly the row. Then the cycle: the lease's   *)
(* and the book's invariants survive the composition, and CardInv ties them   *)
(* together. Only the holder of a deployment's current token can add to its   *)
(* orders, and nobody else trades its symbol between its settlement and its   *)
(* commit: what it read of the position is still so when it decides.          *)
EXTENDS StrategyRuntime, PaperBookProofs

(* The lease *)

\* What a busy worker remembers of the row it leased is at most what the row holds, and
\* the candle it chose comes after the last one it saw and is closed.
HeldIsPast ==
  \A w \in Workers : Busy(w) =>
    /\ held[w].token <= token[held[w].dep]
    /\ held[w].last <= lastClose[held[w].dep]
    /\ held[w].candle # 0 => held[w].last < held[w].candle /\ held[w].candle <= closed

\* Two workers that remember the same deployment remember different tokens.
TokensDiffer ==
  \A w, v \in Workers :
    w # v /\ Busy(w) /\ Busy(v) /\ held[w].dep = held[v].dep => held[w].token # held[v].token

\* A persisted cycle is for a candle the deployment decided already.
CyclesArePast == \A d \in Deployments : \A c \in Candles : <<d, c>> \in cycles => c <= lastClose[d]

LeaseInv ==
  /\ LeaseTypeOK
  /\ DecidedOnce
  /\ HolderViewIsFresh
  /\ HeldIsPast
  /\ TokensDiffer
  /\ CyclesArePast

-----------------------------------------------------------------------------

\* What a busy worker remembers is a lease record.
LEMMA BusyHoldsLease ==
  ASSUME LeaseTypeOK, NEW w \in Workers, Busy(w)
  PROVE  /\ held[w] \in Leases
         /\ held[w].dep \in Deployments
         /\ held[w].token \in Nat
         /\ held[w].last \in 0 .. MaxCandle
         /\ held[w].candle \in 0 .. MaxCandle
BY DEF LeaseTypeOK, Busy, Leases

\* No lease is no lease record, so a worker that just took one is busy.
LEMMA LeaseIsNotNoLease == NoLease \notin Leases /\ NoWorker \notin Workers
BY LeaseConstants DEF LeaseConstants

\* The rows of a fresh start are well typed.
LEMMA TypeInit == LeaseInit => LeaseTypeOK
<1> SUFFICES ASSUME LeaseInit PROVE LeaseTypeOK OBVIOUS
<1>1. decided \in [Deployments -> Seq(Candles)] BY DEF LeaseInit
<1>2. QED BY <1>1, LeaseConstants DEF LeaseInit, LeaseTypeOK, LeaseConstants, Statuses

\* Appending a candle later than the last one keeps a log of candles increasing.
LEMMA AppendKeepsOrder ==
  ASSUME NEW s \in Seq(Candles), NEW c \in Candles,
         \A i, j \in DOMAIN s : i < j => s[i] < s[j],
         s # <<>> => s[Len(s)] < c
  PROVE  LET t == Append(s, c) IN
         /\ t \in Seq(Candles)
         /\ t # <<>>
         /\ Len(t) = Len(s) + 1
         /\ t[Len(t)] = c
         /\ \A i, j \in DOMAIN t : i < j => t[i] < t[j]
<1> DEFINE t == Append(s, c)
<1>1. Len(s) \in Nat /\ DOMAIN s = 1 .. Len(s) /\ \A i \in DOMAIN s : s[i] \in Int
  BY LeaseConstants DEF Candles, LeaseConstants
<1>2. /\ t \in Seq(Candles)
      /\ t # <<>>
      /\ Len(t) = Len(s) + 1
      /\ DOMAIN t = 1 .. Len(s) + 1
      /\ t[Len(s) + 1] = c
      /\ \A i \in 1 .. Len(s) : t[i] = s[i]
  <2>1. /\ t \in Seq(Candles)
        /\ t # <<>>
        /\ Len(t) = Len(s) + 1
        /\ t[Len(s) + 1] = c
        /\ \A i \in 1 .. Len(s) : t[i] = s[i]
    BY AppendProperties
  <2>2. DOMAIN t = 1 .. Len(t) BY <2>1
  <2>3. QED BY <2>1, <2>2
<1>3. ASSUME NEW i \in DOMAIN t, NEW j \in DOMAIN t, i < j
      PROVE  t[i] < t[j]
  <2>1. i \in 1 .. Len(s) BY <1>1, <1>2, <1>3
  <2>2. CASE j \in 1 .. Len(s) BY <1>1, <1>2, <1>3, <2>1, <2>2
  <2>3. CASE j = Len(s) + 1
    <3>1. s # <<>> /\ Len(s) \in DOMAIN s BY <1>1, <2>1
    <3>2. s[i] <= s[Len(s)] BY <1>1, <2>1, <3>1
    <3>3. QED BY <1>1, <1>2, <2>1, <2>3, <3>1, <3>2 DEF Candles
  <2>4. QED BY <1>1, <1>2, <2>2, <2>3
<1>4. QED BY <1>2, <1>3
-----------------------------------------------------------------------------
(* Type correctness *)

\* Every action assigns values of the right types.
LEMMA TypeStep == LeaseTypeOK /\ [LeaseNext]_leaseVars => LeaseTypeOK'
<1> SUFFICES ASSUME LeaseTypeOK, [LeaseNext]_leaseVars PROVE LeaseTypeOK' OBVIOUS
<1> USE LeaseConstants DEF LeaseConstants
<1>1. CASE CandleCloses
  BY <1>1 DEF CandleCloses, LeaseTypeOK, rows
<1>2. ASSUME NEW d \in Deployments, DeploymentStep(d) PROVE LeaseTypeOK'
  <2> DEFINE Cleared == /\ owner' \in [Deployments -> Workers \cup {NoWorker}]
                        /\ ttl' \in [Deployments -> 0 .. LeaseTicks]
  <2>0. ClearLease(d) => Cleared
    <3>1. 0 \in 0 .. LeaseTicks OBVIOUS
    <3>2. ClearLease(d) => owner' \in [Deployments -> Workers \cup {NoWorker}]
      BY DEF ClearLease, LeaseTypeOK
    <3>3. ClearLease(d) => ttl' \in [Deployments -> 0 .. LeaseTicks]
      BY <3>1 DEF ClearLease, LeaseTypeOK
    <3>4. QED BY <3>2, <3>3
  <2>1. CASE Age(d)
    <3>1. ttl' \in [Deployments -> 0 .. LeaseTicks] BY <2>1 DEF Age, LeaseTypeOK
    <3>2. upsets' \in 0 .. MaxUpsets BY <2>1 DEF Age, LeaseTypeOK, Upset
    <3>3. QED BY <2>1, <3>1, <3>2 DEF Age, LeaseTypeOK
  <2>2. CASE Pause(d)
    <3>1. status' \in [Deployments -> Statuses] BY <2>2 DEF Pause, LeaseTypeOK, Statuses
    <3>2. upsets' \in 0 .. MaxUpsets BY <2>2 DEF Pause, LeaseTypeOK, Upset
    <3>3. Cleared BY <2>0, <2>2 DEF Pause
    <3>4. QED BY <2>2, <3>1, <3>2, <3>3 DEF Pause, LeaseTypeOK
  <2>3. CASE End(d)
    <3>1. status' \in [Deployments -> Statuses] BY <2>3 DEF End, LeaseTypeOK, Statuses
    <3>2. upsets' \in 0 .. MaxUpsets BY <2>3 DEF End, LeaseTypeOK, Upset
    <3>3. Cleared BY <2>0, <2>3 DEF End
    <3>4. QED BY <2>3, <3>1, <3>2, <3>3 DEF End, LeaseTypeOK
  <2>4. CASE Reactivate(d)
    <3>1. status' \in [Deployments -> Statuses] BY <2>4 DEF Reactivate, LeaseTypeOK, Statuses
    <3>2. upsets' \in 0 .. MaxUpsets BY <2>4 DEF Reactivate, LeaseTypeOK, Upset
    <3>3. Cleared BY <2>0, <2>4 DEF Reactivate
    <3>4. QED BY <2>4, <3>1, <3>2, <3>3 DEF Reactivate, LeaseTypeOK
  <2>5. QED BY <1>2, <2>1, <2>2, <2>3, <2>4 DEF DeploymentStep
<1>3. ASSUME NEW w \in Workers, LeaseStep(w) PROVE LeaseTypeOK'
  <2>1. ASSUME NEW d \in Deployments, Acquire(w, d) PROVE LeaseTypeOK'
    <3>1. [dep |-> d, token |-> NextToken(d), last |-> lastClose[d], candle |-> 0] \in Leases
      BY DEF LeaseTypeOK, Leases, NextToken
    <3>2. held' \in [Workers -> Leases \cup {NoLease}] BY <2>1, <3>1 DEF Acquire, LeaseTypeOK
    <3>3. upsets' \in 0 .. MaxUpsets BY <2>1 DEF Acquire, LeaseTypeOK, Upset
    <3>4. owner' \in [Deployments -> Workers \cup {NoWorker}] BY <2>1 DEF Acquire, LeaseTypeOK
    <3>5. ttl' \in [Deployments -> 0 .. LeaseTicks] BY <2>1 DEF Acquire, LeaseTypeOK
    <3>6. token' \in [Deployments -> Nat] BY <2>1 DEF Acquire, LeaseTypeOK, NextToken
    <3>7. QED BY <2>1, <3>2, <3>3, <3>4, <3>5, <3>6 DEF Acquire, LeaseTypeOK
  <2>2. CASE Renew(w)
    <3>1. held[w].dep \in Deployments BY <2>2, BusyHoldsLease DEF Renew
    <3>2. ttl' \in [Deployments -> 0 .. LeaseTicks] BY <2>2, <3>1 DEF Renew, LeaseTypeOK
    <3>3. QED BY <2>2, <3>2 DEF Renew, LeaseTypeOK
  <2>3. CASE Select(w)
    <3>1. held[w] \in Leases BY <2>3, BusyHoldsLease DEF Select
    <3>2. NextCandle(held[w].last) \in 0 .. MaxCandle
      BY <2>3, <3>1 DEF Select, HasDueCandle, NextCandle, LeaseTypeOK, Leases
    <3>3. held' \in [Workers -> Leases \cup {NoLease}]
      BY <2>3, <3>1, <3>2 DEF Select, LeaseTypeOK, Leases
    <3>4. QED BY <2>3, <3>3 DEF Select, LeaseTypeOK, rows
  <2>4. CASE Defer(w) \/ CommitFenced(w) \/ Fail(w) \/ CommitDuplicate(w)
    <3>1. /\ UNCHANGED <<status, token, sequence, lastClose, cycles, decided, closed>>
          /\ UNCHANGED upsets \/ Upset
          /\ held' = [held EXCEPT ![w] = NoLease]
          /\ UNCHANGED <<owner, ttl>> \/ ClearLease(held[w].dep)
      BY <2>4 DEF Defer, CommitFenced, Fail, CommitDuplicate, ReleaseIfOwned, ForgetLease
    <3>2. held' \in [Workers -> Leases \cup {NoLease}] BY <3>1 DEF LeaseTypeOK
    <3>3. upsets' \in 0 .. MaxUpsets BY <3>1 DEF LeaseTypeOK, Upset
    <3>4. /\ owner' \in [Deployments -> Workers \cup {NoWorker}]
          /\ ttl' \in [Deployments -> 0 .. LeaseTicks]
      <4> DEFINE e == held[w].dep
      <4>1. \/ UNCHANGED <<owner, ttl>>
            \/ owner' = [owner EXCEPT ![e] = NoWorker] /\ ttl' = [ttl EXCEPT ![e] = 0]
        BY <3>1 DEF ClearLease
      <4>2. 0 \in 0 .. LeaseTicks OBVIOUS
      <4> HIDE DEF e
      <4>3. owner' \in [Deployments -> Workers \cup {NoWorker}] BY <4>1 DEF LeaseTypeOK
      <4>4. ttl' \in [Deployments -> 0 .. LeaseTicks] BY <4>1, <4>2 DEF LeaseTypeOK
      <4>5. QED BY <4>3, <4>4
    <3>5. QED BY <3>1, <3>2, <3>3, <3>4 DEF LeaseTypeOK
  <2>5. ASSUME NEW persisted \in BOOLEAN, CommitCycle(w, persisted) PROVE LeaseTypeOK'
    <3> DEFINE d == held[w].dep
               c == held[w].candle
    <3>1. d \in Deployments /\ c \in Candles
      BY <2>5, BusyHoldsLease DEF CommitCycle, Candles
    <3>2. /\ held' \in [Workers -> Leases \cup {NoLease}]
          /\ owner' \in [Deployments -> Workers \cup {NoWorker}]
          /\ ttl' \in [Deployments -> 0 .. LeaseTicks]
          /\ sequence' \in [Deployments -> Nat]
          /\ lastClose' \in [Deployments -> 0 .. MaxCandle]
      <4>1. /\ held' = [held EXCEPT ![w] = NoLease]
            /\ owner' = [owner EXCEPT ![d] = NoWorker] /\ ttl' = [ttl EXCEPT ![d] = 0]
            /\ sequence' = [sequence EXCEPT ![d] = @ + 1]
            /\ lastClose' = [lastClose EXCEPT ![d] = c]
        BY <2>5 DEF CommitCycle, ForgetLease, ClearLease
      <4>2. 0 \in 0 .. LeaseTicks /\ c \in 0 .. MaxCandle BY <3>1 DEF Candles
      <4> HIDE DEF d, c
      <4>3. held' \in [Workers -> Leases \cup {NoLease}] BY <4>1 DEF LeaseTypeOK
      <4>4. owner' \in [Deployments -> Workers \cup {NoWorker}] BY <4>1 DEF LeaseTypeOK
      <4>5. ttl' \in [Deployments -> 0 .. LeaseTicks] BY <4>1, <4>2 DEF LeaseTypeOK
      <4>6. sequence' \in [Deployments -> Nat] BY <3>1, <4>1 DEF LeaseTypeOK
      <4>7. lastClose' \in [Deployments -> 0 .. MaxCandle] BY <4>1, <4>2 DEF LeaseTypeOK
      <4>8. QED BY <4>3, <4>4, <4>5, <4>6, <4>7
    <3>3. cycles' \subseteq (Deployments \X Candles)
      BY <2>5, <3>1 DEF CommitCycle, LeaseTypeOK
    <3>4. decided' \in [Deployments -> Seq(Candles)]
      <4>1. decided[d] \in Seq(Candles) BY <3>1 DEF LeaseTypeOK
      <4>2. Append(decided[d], c) \in Seq(Candles) BY <3>1, <4>1, AppendProperties
      <4>3. QED BY <2>5, <3>1, <4>2 DEF CommitCycle, LeaseTypeOK
    <3>5. QED BY <2>5, <3>2, <3>3, <3>4 DEF CommitCycle, LeaseTypeOK
  <2>6. CASE Crash(w)
    BY <2>6 DEF Crash, LeaseTypeOK, ForgetLease, Upset, rows
  <2>7. QED BY <1>3, <2>1, <2>2, <2>3, <2>4, <2>5, <2>6 DEF LeaseStep
<1>4. CASE UNCHANGED leaseVars
  BY <1>4 DEF LeaseTypeOK, leaseVars, rows
<1>5. QED BY <1>1, <1>2, <1>3, <1>4 DEF LeaseNext

\* Every variable keeps its type, whatever the number of workers and deployments.
THEOREM TypeCorrect == LeaseSpec => []LeaseTypeOK
<1>1. QED BY TypeInit, TypeStep, PTL DEF LeaseSpec
-----------------------------------------------------------------------------
(* The inductive invariant *)

\* Nothing is held, leased or decided at the start.
LEMMA InvInit == LeaseInit => LeaseInv
<1> SUFFICES ASSUME LeaseInit PROVE LeaseInv OBVIOUS
<1>1. LeaseTypeOK BY TypeInit
<1>2. \A w \in Workers : ~Busy(w) BY DEF LeaseInit, Busy
<1>3. DecidedOnce
  <2> SUFFICES ASSUME NEW d \in Deployments
      PROVE  /\ \A i, j \in DOMAIN decided[d] : i < j => decided[d][i] < decided[d][j]
             /\ sequence[d] = Len(decided[d])
             /\ lastClose[d] = IF decided[d] = <<>> THEN 0 ELSE decided[d][Len(decided[d])]
    BY DEF DecidedOnce
  <2>1. decided[d] = <<>> /\ sequence[d] = 0 /\ lastClose[d] = 0 BY DEF LeaseInit
  <2>2. Len(<<>>) = 0 /\ DOMAIN <<>> = {} OBVIOUS
  <2>3. QED BY <2>1, <2>2
<1>4. CyclesArePast BY DEF LeaseInit, CyclesArePast
<1>5. QED BY <1>1, <1>2, <1>3, <1>4 DEF LeaseInv, HolderViewIsFresh, HeldIsPast, TokensDiffer

\* A step in which workers at most forget their lease, and neither a token nor anything
\* decided changes, keeps the invariant.
LEMMA ForgettingStep ==
  ASSUME LeaseInv, LeaseTypeOK',
         UNCHANGED <<token, sequence, lastClose, cycles, decided>>,
         closed' >= closed,
         \A w \in Workers : held'[w] \in {held[w], NoLease}
  PROVE  LeaseInv'
<1>1. \A w \in Workers : Busy(w)' => Busy(w) /\ held'[w] = held[w] BY DEF Busy
<1>2. DecidedOnce' BY DEF LeaseInv, DecidedOnce
<1>3. HolderViewIsFresh' BY <1>1 DEF LeaseInv, HolderViewIsFresh
<1>4. HeldIsPast'
  <2> SUFFICES ASSUME NEW w \in Workers, Busy(w)'
      PROVE  (/\ held[w].token <= token[held[w].dep]
              /\ held[w].last <= lastClose[held[w].dep]
              /\ held[w].candle # 0 => held[w].last < held[w].candle /\ held[w].candle <= closed)'
    BY DEF HeldIsPast
  <2>1. held[w] \in Leases /\ closed \in Int /\ closed' \in Int
    BY <1>1, BusyHoldsLease DEF LeaseInv, LeaseTypeOK
  <2>2. QED BY <1>1, <2>1 DEF LeaseInv, HeldIsPast, Leases
<1>5. TokensDiffer' BY <1>1 DEF LeaseInv, TokensDiffer
<1>6. CyclesArePast' BY DEF LeaseInv, CyclesArePast
<1>7. QED BY <1>2, <1>3, <1>4, <1>5, <1>6 DEF LeaseInv

\* Taking a lease makes every token remembered for the deployment stale.
LEMMA AcquireStep ==
  ASSUME LeaseInv, LeaseTypeOK', NEW w \in Workers, NEW d \in Deployments, Acquire(w, d)
  PROVE  LeaseInv'
<1> DEFINE new == [dep |-> d, token |-> NextToken(d), last |-> lastClose[d], candle |-> 0]
<1>1. /\ held' = [held EXCEPT ![w] = new]
      /\ token' = [token EXCEPT ![d] = token[d] + 1]
      /\ UNCHANGED <<sequence, lastClose, cycles, decided, closed>>
      /\ new.dep = d /\ new.token = token[d] + 1 /\ new.last = lastClose[d] /\ new.candle = 0
  BY DEF Acquire, NextToken
<1>2. LeaseTypeOK BY DEF LeaseInv
<1>3. held'[w] = new /\ \A v \in Workers \ {w} : held'[v] = held[v]
  BY <1>1, <1>2 DEF LeaseTypeOK
<1>4. token'[d] = token[d] + 1 /\ \A e \in Deployments \ {d} : token'[e] = token[e]
  BY <1>1, <1>2 DEF LeaseTypeOK
<1>5. ASSUME NEW v \in Workers \ {w}, Busy(v)'
      PROVE  /\ Busy(v)
             /\ held[v] \in Leases
             /\ held[v].dep = d => held[v].token < token'[d]
             /\ held[v].token <= token'[held[v].dep]
  <2>1. Busy(v) BY <1>3, <1>5 DEF Busy
  <2>2. held[v] \in Leases BY <1>2, <2>1, BusyHoldsLease
  <2>3. held[v].token <= token[held[v].dep] BY <2>1 DEF LeaseInv, HeldIsPast
  <2>4. token \in [Deployments -> Nat] BY <1>2 DEF LeaseTypeOK
  <2>5. QED BY <1>4, <2>1, <2>2, <2>3, <2>4 DEF Leases
<1>6. DecidedOnce' BY <1>1 DEF LeaseInv, DecidedOnce
<1>7. HolderViewIsFresh'
  <2> SUFFICES ASSUME NEW v \in Workers, Busy(v)', held'[v].token = token'[held'[v].dep]
      PROVE  held'[v].last = lastClose'[held'[v].dep]
    BY DEF HolderViewIsFresh
  <2>1. CASE v = w BY <1>1, <1>3, <2>1
  <2>2. CASE v # w
    <3>1. Busy(v) /\ held'[v] = held[v] /\ held[v] \in Leases BY <1>3, <1>5, <2>2
    <3>2. held[v].dep # d
      <4> SUFFICES ASSUME held[v].dep = d PROVE FALSE OBVIOUS
      <4>1. held[v].token = token'[d] /\ held[v].token < token'[d] BY <1>5, <2>2, <3>1
      <4>2. held[v].token \in Nat BY <3>1 DEF Leases
      <4>3. QED BY <4>1, <4>2
    <3>3. held[v].token = token[held[v].dep] BY <1>4, <3>1, <3>2 DEF Leases
    <3>4. QED BY <1>1, <3>1, <3>3 DEF LeaseInv, HolderViewIsFresh
  <2>3. QED BY <2>1, <2>2
<1>8. HeldIsPast'
  <2> SUFFICES ASSUME NEW v \in Workers, Busy(v)'
      PROVE  /\ held'[v].token <= token'[held'[v].dep]
             /\ held'[v].last <= lastClose'[held'[v].dep]
             /\ held'[v].candle # 0 => held'[v].last < held'[v].candle /\ held'[v].candle <= closed'
    BY DEF HeldIsPast
  <2>1. CASE v = w BY <1>1, <1>2, <1>3, <1>4, <2>1 DEF LeaseTypeOK
  <2>2. CASE v # w BY <1>1, <1>3, <1>5, <2>2 DEF LeaseInv, HeldIsPast
  <2>3. QED BY <2>1, <2>2
<1>9. TokensDiffer'
  <2> SUFFICES ASSUME NEW v \in Workers, NEW u \in Workers, v # u, Busy(v)', Busy(u)',
                      held'[v].dep = held'[u].dep
      PROVE  held'[v].token # held'[u].token
    BY DEF TokensDiffer
  <2>1. CASE v # w /\ u # w BY <1>3, <1>5, <2>1 DEF LeaseInv, TokensDiffer
  <2>2. CASE v = w BY <1>1, <1>2, <1>3, <1>4, <1>5, <2>2 DEF Leases, LeaseTypeOK
  <2>3. CASE u = w BY <1>1, <1>2, <1>3, <1>4, <1>5, <2>3 DEF Leases, LeaseTypeOK
  <2>4. QED BY <2>1, <2>2, <2>3
<1>10. CyclesArePast' BY <1>1 DEF LeaseInv, CyclesArePast
<1>11. QED BY <1>6, <1>7, <1>8, <1>9, <1>10 DEF LeaseInv

\* Choosing the next closed candle.
LEMMA SelectStep ==
  ASSUME LeaseInv, LeaseTypeOK', NEW w \in Workers, Select(w)
  PROVE  LeaseInv'
<1> DEFINE c == NextCandle(held[w].last)
<1>1. /\ Busy(w)
      /\ closed > held[w].last
      /\ held' = [held EXCEPT ![w].candle = c]
      /\ UNCHANGED <<token, sequence, lastClose, cycles, decided, closed>>
  BY DEF Select, HasDueCandle, rows
<1>2. LeaseTypeOK BY DEF LeaseInv
<1>3. held[w] \in Leases BY <1>1, <1>2, BusyHoldsLease
<1>4. held[w].last < c /\ c <= closed
  <2>1. held[w].last \in 0 .. MaxCandle /\ closed \in 0 .. MaxCandle
    BY <1>2, <1>3 DEF LeaseTypeOK, Leases
  <2>2. QED BY <1>1, <2>1, LeaseConstants DEF LeaseConstants, NextCandle
<1>5. /\ held'[w].dep = held[w].dep
      /\ held'[w].token = held[w].token
      /\ held'[w].last = held[w].last
      /\ held'[w].candle = c
      /\ \A v \in Workers \ {w} : held'[v] = held[v]
  BY <1>1, <1>2, <1>3 DEF LeaseTypeOK, Leases
<1>6. \A v \in Workers : Busy(v)' => Busy(v)
  BY <1>1, <1>5 DEF Busy
<1>7. DecidedOnce' BY <1>1 DEF LeaseInv, DecidedOnce
<1>8. HolderViewIsFresh' BY <1>1, <1>5, <1>6 DEF LeaseInv, HolderViewIsFresh
<1>9. HeldIsPast'
  <2> SUFFICES ASSUME NEW v \in Workers, Busy(v)'
      PROVE  /\ held'[v].token <= token'[held'[v].dep]
             /\ held'[v].last <= lastClose'[held'[v].dep]
             /\ held'[v].candle # 0 => held'[v].last < held'[v].candle /\ held'[v].candle <= closed'
    BY DEF HeldIsPast
  <2>1. CASE v = w BY <1>1, <1>4, <1>5, <2>1 DEF LeaseInv, HeldIsPast
  <2>2. CASE v # w BY <1>1, <1>5, <1>6, <2>2 DEF LeaseInv, HeldIsPast
  <2>3. QED BY <2>1, <2>2
<1>10. TokensDiffer' BY <1>1, <1>5, <1>6 DEF LeaseInv, TokensDiffer
<1>11. CyclesArePast' BY <1>1 DEF LeaseInv, CyclesArePast
<1>12. QED BY <1>7, <1>8, <1>9, <1>10, <1>11 DEF LeaseInv

\* The commit: its token is current, so what the worker chose its candle from is the row.
LEMMA CommitStep ==
  ASSUME LeaseInv, LeaseTypeOK', NEW w \in Workers, NEW persisted \in BOOLEAN,
         CommitCycle(w, persisted)
  PROVE  LeaseInv'
<1> DEFINE d == held[w].dep
           c == held[w].candle
<1>1. /\ Busy(w) /\ c # 0 /\ token[d] = held[w].token
      /\ sequence' = [sequence EXCEPT ![d] = @ + 1]
      /\ lastClose' = [lastClose EXCEPT ![d] = c]
      /\ decided' = [decided EXCEPT ![d] = Append(@, c)]
      /\ cycles' \in {cycles, cycles \cup {<<d, c>>}}
      /\ held' = [held EXCEPT ![w] = NoLease]
      /\ UNCHANGED <<token, closed>>
  BY DEF CommitCycle, MayCommit, Owns, ForgetLease
<1>2. LeaseTypeOK BY DEF LeaseInv
<1>3. d \in Deployments /\ c \in Candles /\ held[w] \in Leases
  BY <1>1, <1>2, BusyHoldsLease DEF Candles
<1>4. held[w].last = lastClose[d] BY <1>1 DEF LeaseInv, HolderViewIsFresh
<1>5. lastClose[d] < c /\ c <= closed BY <1>1, <1>4 DEF LeaseInv, HeldIsPast
<1>6. /\ lastClose'[d] = c /\ sequence'[d] = sequence[d] + 1
      /\ decided'[d] = Append(decided[d], c)
      /\ \A e \in Deployments \ {d} : /\ lastClose'[e] = lastClose[e]
                                      /\ sequence'[e] = sequence[e]
                                      /\ decided'[e] = decided[e]
  BY <1>1, <1>2, <1>3 DEF LeaseTypeOK
<1>7. \A v \in Workers : Busy(v)' => /\ Busy(v) /\ v # w /\ held'[v] = held[v]
                                    /\ (held[v].dep = d => held[v].token # token[d])
  <2>1. held'[w] = NoLease /\ \A v \in Workers \ {w} : held'[v] = held[v]
    BY <1>1, <1>2 DEF LeaseTypeOK
  <2>2. QED BY <1>1, <2>1 DEF Busy, LeaseInv, TokensDiffer
<1>8. DecidedOnce'
  <2> SUFFICES ASSUME NEW e \in Deployments
      PROVE  /\ \A i, j \in DOMAIN decided'[e] : i < j => decided'[e][i] < decided'[e][j]
             /\ sequence'[e] = Len(decided'[e])
             /\ lastClose'[e] = IF decided'[e] = <<>> THEN 0 ELSE decided'[e][Len(decided'[e])]
    BY DEF DecidedOnce
  <2>1. /\ \A i, j \in DOMAIN decided[e] : i < j => decided[e][i] < decided[e][j]
        /\ sequence[e] = Len(decided[e])
        /\ lastClose[e] = IF decided[e] = <<>> THEN 0 ELSE decided[e][Len(decided[e])]
    BY DEF LeaseInv, DecidedOnce
  <2>2. CASE e # d BY <1>6, <2>1, <2>2
  <2>3. CASE e = d
    <3>1. decided[d] \in Seq(Candles) BY <1>2, <1>3 DEF LeaseTypeOK
    <3>2. decided[d] # <<>> => decided[d][Len(decided[d])] < c BY <1>5, <2>1, <2>3
    <3>3. LET t == Append(decided[d], c) IN
          /\ t # <<>>
          /\ Len(t) = Len(decided[d]) + 1
          /\ t[Len(t)] = c
          /\ \A i, j \in DOMAIN t : i < j => t[i] < t[j]
      <4> HIDE DEF d, c
      <4>1. QED BY <1>3, <2>1, <2>3, <3>1, <3>2, AppendKeepsOrder
    <3>4. QED
      <4> HIDE DEF d, c
      <4>1. QED BY <1>6, <2>1, <2>3, <3>3
  <2>4. QED BY <2>2, <2>3
<1>9. HolderViewIsFresh'
  <2> SUFFICES ASSUME NEW v \in Workers, Busy(v)', held'[v].token = token'[held'[v].dep]
      PROVE  held'[v].last = lastClose'[held'[v].dep]
    BY DEF HolderViewIsFresh
  <2>1. Busy(v) /\ held'[v] = held[v] /\ held[v].token = token[held[v].dep] BY <1>1, <1>7
  <2>2. held[v].dep \in Deployments \ {d} BY <1>2, <1>7, <2>1, BusyHoldsLease
  <2>3. lastClose'[held[v].dep] = lastClose[held[v].dep] BY <1>6, <2>2
  <2>4. QED BY <2>1, <2>3 DEF LeaseInv, HolderViewIsFresh
<1>10. HeldIsPast'
  <2> SUFFICES ASSUME NEW v \in Workers, Busy(v)'
      PROVE  /\ held'[v].token <= token'[held'[v].dep]
             /\ held'[v].last <= lastClose'[held'[v].dep]
             /\ held'[v].candle # 0 => held'[v].last < held'[v].candle /\ held'[v].candle <= closed'
    BY DEF HeldIsPast
  <2>1. Busy(v) /\ held'[v] = held[v] BY <1>7
  <2>2. held[v] \in Leases BY <1>2, <2>1, BusyHoldsLease
  <2>3. lastClose \in [Deployments -> 0 .. MaxCandle] /\ lastClose' \in [Deployments -> 0 .. MaxCandle]
    BY <1>2 DEF LeaseTypeOK
  <2>4. lastClose[held[v].dep] <= lastClose'[held[v].dep]
    <3>1. CASE held[v].dep = d
      <4>1. lastClose[d] \in Int /\ c \in Int BY <1>3, <2>3 DEF Candles
      <4>2. lastClose[d] < c /\ lastClose'[d] = c BY <1>5, <1>6
      <4> HIDE DEF d, c
      <4>3. lastClose[d] <= lastClose'[d] BY <4>1, <4>2
      <4>4. QED BY <3>1, <4>3
    <3>2. CASE held[v].dep # d
      <4>1. held[v].dep \in Deployments \ {d} BY <2>2, <3>2 DEF Leases
      <4>2. lastClose[held[v].dep] \in Int BY <1>2, <4>1 DEF LeaseTypeOK
      <4>3. QED BY <1>6, <4>1, <4>2
    <3>3. QED BY <3>1, <3>2
  <2>5. /\ held[v].token <= token[held[v].dep]
        /\ held[v].last <= lastClose[held[v].dep]
        /\ (held[v].candle # 0 => held[v].last < held[v].candle /\ held[v].candle <= closed)
    BY <2>1 DEF LeaseInv, HeldIsPast
  <2>6. held[v].last <= lastClose'[held[v].dep]
    <3>1. /\ held[v].last \in Int /\ lastClose[held[v].dep] \in Int
          /\ lastClose'[held[v].dep] \in Int
      BY <2>2, <2>3 DEF Leases
    <3>2. QED BY <2>4, <2>5, <3>1
  <2>7. QED BY <1>1, <2>1, <2>5, <2>6
<1>11. TokensDiffer' BY <1>1, <1>7 DEF LeaseInv, TokensDiffer
<1>12. CyclesArePast'
  <2> SUFFICES ASSUME NEW e \in Deployments, NEW x \in Candles, <<e, x>> \in cycles'
      PROVE  x <= lastClose'[e]
    BY DEF CyclesArePast
  <2>1. CASE <<e, x>> \in cycles
    <3>1. x <= lastClose[e] BY <2>1 DEF LeaseInv, CyclesArePast
    <3>2. x \in Int /\ lastClose[e] \in Int /\ c \in Int
      <4>1. x \in Int /\ c \in Int BY <1>3 DEF Candles
      <4>2. lastClose[e] \in Int BY <1>2 DEF LeaseTypeOK
      <4>3. QED BY <4>1, <4>2
    <3>3. CASE e = d
      <4>1. lastClose[e] < c /\ lastClose'[e] = c BY <1>5, <1>6, <3>3
      <4>2. QED BY <3>1, <3>2, <4>1
    <3>4. CASE e # d BY <1>6, <3>1, <3>4
    <3>5. QED BY <3>3, <3>4
  <2>2. CASE <<e, x>> = <<d, c>>
    <3>1. e = d /\ x = c BY <2>2
    <3>2. lastClose'[e] = x BY <1>6, <3>1
    <3>3. x \in Int BY DEF Candles
    <3>4. QED BY <3>2, <3>3
  <2>3. QED BY <1>1, <2>1, <2>2
<1>13. QED BY <1>8, <1>9, <1>10, <1>11, <1>12 DEF LeaseInv

\* Every step keeps the invariant: three actions change what is remembered or decided, the
\* others at most forget a lease.
LEMMA InvStep == LeaseInv /\ [LeaseNext]_leaseVars => LeaseInv'
<1> SUFFICES ASSUME LeaseInv, [LeaseNext]_leaseVars PROVE LeaseInv' OBVIOUS
<1>1. LeaseTypeOK /\ LeaseTypeOK' BY TypeStep DEF LeaseInv
<1>2. closed \in Int BY <1>1 DEF LeaseTypeOK
<1>3. CASE CandleCloses
  BY <1>1, <1>2, <1>3, ForgettingStep DEF CandleCloses, rows
<1>4. ASSUME NEW d \in Deployments, DeploymentStep(d) PROVE LeaseInv'
  BY <1>1, <1>2, <1>4, ForgettingStep DEF DeploymentStep, Age, Pause, End, Reactivate
<1>5. ASSUME NEW w \in Workers, LeaseStep(w) PROVE LeaseInv'
  <2>1. ASSUME NEW d \in Deployments, Acquire(w, d) PROVE LeaseInv'
    BY <1>1, <2>1, AcquireStep
  <2>2. CASE Select(w) BY <1>1, <2>2, SelectStep
  <2>3. ASSUME NEW persisted \in BOOLEAN, CommitCycle(w, persisted) PROVE LeaseInv'
    BY <1>1, <2>3, CommitStep
  <2>4. CASE Renew(w) BY <1>1, <1>2, <2>4, ForgettingStep DEF Renew
  <2>5. CASE Defer(w) \/ CommitDuplicate(w) \/ CommitFenced(w) \/ Fail(w) \/ Crash(w)
    <3>1. /\ UNCHANGED <<token, sequence, lastClose, cycles, decided, closed>>
          /\ held' = [held EXCEPT ![w] = NoLease]
      BY <2>5 DEF Defer, CommitDuplicate, CommitFenced, Fail, Crash, ForgetLease, rows
    <3>2. \A v \in Workers : held'[v] \in {held[v], NoLease} BY <1>1, <3>1 DEF LeaseTypeOK
    <3>3. QED BY <1>1, <1>2, <3>1, <3>2, ForgettingStep
  <2>6. QED BY <1>5, <2>1, <2>2, <2>3, <2>4, <2>5 DEF LeaseStep
<1>6. CASE UNCHANGED leaseVars
  BY <1>1, <1>2, <1>6, ForgettingStep DEF leaseVars, rows
<1>7. QED BY <1>3, <1>4, <1>5, <1>6 DEF LeaseNext

\* The inductive invariant holds in every reachable state: what a worker remembers of a
\* strategy_deployments row is the row's past, and the row itself while its token is current.
THEOREM Invariant == LeaseSpec => []LeaseInv
<1>1. QED BY InvInit, InvStep, PTL DEF LeaseSpec

\* No closed candle is decided twice or out of order for a deployment, however workers
\* overlap: the fencing guard of completeStrategyRuntimeCycle.
THEOREM CandlesDecidedOnce == LeaseSpec => []DecidedOnce
<1>1. LeaseInv => DecidedOnce BY DEF LeaseInv
<1>2. QED BY Invariant, <1>1, PTL

\* The last candle that leaseNextStrategyDeployment returned is still the row's as long
\* as the worker's token is the row's.
THEOREM HolderViewStaysFresh == LeaseSpec => []HolderViewIsFresh
<1>1. LeaseInv => HolderViewIsFresh BY DEF LeaseInv
<1>2. QED BY Invariant, <1>1, PTL

-----------------------------------------------------------------------------
(* What a step may do *)

\* The duplicate branch never finds its own token on the row: the candle it chose is
\* already decided, so another worker took the lease in between.
LEMMA DuplicateIsStale ==
  ASSUME LeaseInv, NEW w \in Workers, Busy(w), held[w].candle # 0, HasCycle(w)
  PROVE  token[held[w].dep] # held[w].token
<1> DEFINE d == held[w].dep
           c == held[w].candle
<1>1. LeaseTypeOK BY DEF LeaseInv
<1>2. d \in Deployments /\ c \in Candles BY <1>1, BusyHoldsLease DEF Candles
<1>3. c <= lastClose[d] BY <1>2 DEF LeaseInv, CyclesArePast, HasCycle
<1>4. held[w].last < c BY DEF LeaseInv, HeldIsPast
<1>5. lastClose[d] \in Int /\ held[w].last \in Int /\ c \in Int
  BY <1>1, <1>2, BusyHoldsLease DEF LeaseTypeOK, Candles
<1>6. held[w].last # lastClose[d] BY <1>3, <1>4, <1>5
<1>7. QED BY <1>6 DEF LeaseInv, HolderViewIsFresh

\* One step of ReleaseOnlyOwnLease.
LEMMA ReleaseStep ==
  ASSUME LeaseInv, [LeaseNext]_leaseVars, NEW d \in Deployments,
         owner[d] # NoWorker, owner'[d] = NoWorker, held' # held
  PROVE  /\ Busy(owner[d])
         /\ held[owner[d]].dep = d
         /\ held[owner[d]].token = token[d]
         /\ held'[owner[d]] = NoLease
<1> DEFINE Goal == /\ Busy(owner[d])
                   /\ held[owner[d]].dep = d
                   /\ held[owner[d]].token = token[d]
                   /\ held'[owner[d]] = NoLease
<1>1. LeaseTypeOK BY DEF LeaseInv
<1>2. held' # held OBVIOUS
<1>3. owner' # owner OBVIOUS
<1>4. CASE CandleCloses BY <1>3, <1>4 DEF CandleCloses, rows
<1>5. ASSUME NEW e \in Deployments, DeploymentStep(e) PROVE Goal
  BY <1>2, <1>3, <1>5 DEF DeploymentStep, Age, Pause, End, Reactivate
<1>6. ASSUME NEW w \in Workers, LeaseStep(w) PROVE Goal
  <2>1. ASSUME NEW e \in Deployments, Acquire(w, e) PROVE Goal
    <3>1. w # NoWorker BY LeaseIsNotNoLease
    <3>2. owner' = [owner EXCEPT ![e] = w] BY <2>1 DEF Acquire
    <3>3. QED BY <1>1, <3>1, <3>2 DEF LeaseTypeOK
  <2>2. CASE Renew(w) \/ Select(w) \/ Crash(w) \/ CommitDuplicate(w)
    <3>1. CASE CommitDuplicate(w)
      BY <1>3, <3>1, DuplicateIsStale DEF CommitDuplicate
    <3>2. QED BY <1>3, <2>2, <3>1 DEF Renew, Select, Crash, rows
  <2>3. CASE Defer(w) \/ CommitFenced(w) \/ Fail(w) \/ \E p \in BOOLEAN : CommitCycle(w, p)
    <3>1. /\ Busy(w) /\ Owns(w)
          /\ owner' = [owner EXCEPT ![held[w].dep] = NoWorker]
          /\ held' = [held EXCEPT ![w] = NoLease]
      BY <1>3, <2>3 DEF Defer, CommitFenced, Fail, CommitCycle, MayCommit, ReleaseIfOwned,
                        ClearLease, ForgetLease
    <3>2. held[w].dep = d BY <1>1, <3>1 DEF LeaseTypeOK
    <3>3. QED BY <1>1, <3>1, <3>2 DEF Owns, LeaseTypeOK
  <2>4. QED BY <1>6, <2>1, <2>2, <2>3 DEF LeaseStep
<1>7. CASE UNCHANGED leaseVars BY <1>3, <1>7 DEF leaseVars, rows
<1>8. QED BY <1>4, <1>5, <1>6, <1>7 DEF LeaseNext

\* A worker clears a live lease only if the lease is its own, although the duplicate
\* branch of completeStrategyRuntimeCycle does not name the owner.
THEOREM ReleasesOnlyOwnLease == LeaseSpec => ReleaseOnlyOwnLease
<1>1. LeaseInv /\ [LeaseNext]_leaseVars =>
        [\A d \in Deployments :
           owner[d] # NoWorker /\ owner'[d] = NoWorker /\ held' # held
             => /\ Busy(owner[d])
                /\ held[owner[d]].dep = d
                /\ held[owner[d]].token = token[d]
                /\ held'[owner[d]] = NoLease]_leaseVars
  BY ReleaseStep
<1>2. QED BY Invariant, <1>1, PTL DEF LeaseSpec, ReleaseOnlyOwnLease

-----------------------------------------------------------------------------
(* Refinement *)

\* A commit appends a later closed candle to the log; every other step but the market's
\* leaves the log as it is.
LEMMA LogStep == LeaseInv /\ [LeaseNext]_leaseVars => [Log!Next]_(Log!vars)
<1> SUFFICES ASSUME LeaseInv, [LeaseNext]_leaseVars PROVE [Log!Next]_(Log!vars) OBVIOUS
<1>1. LeaseTypeOK BY DEF LeaseInv
<1>2. CASE CandleCloses
  BY <1>2 DEF CandleCloses, rows, Log!Next, Log!CandleCloses
<1>3. ASSUME NEW w \in Workers, NEW p \in BOOLEAN, CommitCycle(w, p) PROVE Log!Next
  <2> DEFINE d == held[w].dep
             c == held[w].candle
  <2>1. /\ Busy(w) /\ c # 0 /\ token[d] = held[w].token
        /\ decided' = [decided EXCEPT ![d] = Append(@, c)]
        /\ closed' = closed
    BY <1>3 DEF CommitCycle, MayCommit, Owns
  <2>2. d \in Deployments /\ c \in Candles BY <1>1, <2>1, BusyHoldsLease DEF Candles
  <2>3. held[w].last = lastClose[d] BY <2>1 DEF LeaseInv, HolderViewIsFresh
  <2>4. lastClose[d] < c /\ c <= closed BY <2>1, <2>3 DEF LeaseInv, HeldIsPast
  <2>5. lastClose[d] = Log!LastOf(decided[d]) BY <2>2 DEF LeaseInv, DecidedOnce, Log!LastOf
  <2>6. lastClose[d] \in Int /\ c \in Int /\ closed \in Int BY <1>1, <2>2 DEF LeaseTypeOK, Candles
  <2>7. c \in Log!LastOf(decided[d]) + 1 .. closed
    <3> HIDE DEF c, d
    <3>1. QED BY <2>4, <2>5, <2>6
  <2>8. Log!Decide(d) BY <2>1, <2>7 DEF Log!Decide
  <2>9. QED BY <2>2, <2>8 DEF Log!Next
<1>4. CASE UNCHANGED <<closed, decided>> BY <1>4 DEF Log!vars
<1>5. ASSUME NEW d \in Deployments, DeploymentStep(d) PROVE UNCHANGED <<closed, decided>>
  BY <1>5 DEF DeploymentStep, Age, Pause, End, Reactivate
<1>6. ASSUME NEW w \in Workers, LeaseStep(w), \A p \in BOOLEAN : ~CommitCycle(w, p)
      PROVE  UNCHANGED <<closed, decided>>
  BY <1>6 DEF LeaseStep, Acquire, Renew, Select, Defer, CommitDuplicate, CommitFenced,
              Fail, Crash, rows
<1>7. CASE UNCHANGED leaseVars BY <1>4, <1>7 DEF leaseVars, rows
<1>8. QED BY <1>2, <1>3, <1>4, <1>5, <1>6, <1>7 DEF LeaseNext

\* The leased, fenced runtime implements the append-only log of decided candles.
THEOREM RefinesCandleLog == LeaseSpec => ImplementsCandleLog
<1>1. LeaseInit => Log!Init BY DEF LeaseInit, Log!Init
<1>2. QED BY Invariant, <1>1, LogStep, PTL DEF LeaseSpec, ImplementsCandleLog, Log!Spec

-----------------------------------------------------------------------------
(* The cycle of a card *)

\* The token the worker remembers is the row's.
TokenIsCurrent(w) == Busy(w) /\ token[held[w].dep] = held[w].token

\* A worker is inside a cycle only with a candle it selected.
StagesInv ==
  /\ stage \in [Workers -> Stages]
  /\ view \in [Workers -> [access : Accesses, holding : BOOLEAN]]
  /\ \A w \in Workers : stage[w] # "select" => Busy(w) /\ held[w].candle # 0

\* No intent is for a candle its deployment has yet to decide.
IntentsArePast ==
  \A i \in DOMAIN intents : intents[i].candle <= lastClose[intents[i].dep]

\* Only paper deployments have pending orders, and they wait for an open.
PendingOnPaper ==
  \A d \in Deployments : \A i \in PendingOrders(d) :
    Modes[d] = "paper" /\ intents[i].timing = "next_candle_open"

\* The portfolio holds the symbol that the deployment trades.
HoldsFor(d) == HoldingOf(SymbolOf[d])

\* After its settlement the holder of a paper deployment's current token finds none of its
\* orders pending until it commits, and what it read of its symbol's position stays so.
SawTheBook(w) ==
  TokenIsCurrent(w) /\ IsPaper(w) =>
    /\ stage[w] \in {"access", "position", "commit"} => PendingOrders(held[w].dep) = {}
    /\ stage[w] = "commit" => view[w].holding = HoldsFor(held[w].dep)

HolderSawTheBook == \A w \in Workers : SawTheBook(w)

CardInv ==
  /\ LeaseInv
  /\ IntentInv
  /\ StagesInv
  /\ IntentsArePast
  /\ IntentsInCandleOrder
  /\ PendingOnPaper
  /\ HolderSawTheBook
  /\ OneOpenOrder

-----------------------------------------------------------------------------
(* What the parts allow *)

\* What happens around the lease without moving it: a switch of modes clears leases but
\* leaves every token and every worker's memory; custody does not touch them.
LeaseAside == UNCHANGED <<token, sequence, lastClose, cycles, decided, closed, held>>

\* Seen from the lease, every step is one of the lease's own or moves nothing it protects.
LEMMA LeaseSide == [Next]_vars => [LeaseNext]_leaseVars \/ LeaseAside
<1> SUFFICES ASSUME [Next]_vars PROVE [LeaseNext]_leaseVars \/ LeaseAside OBVIOUS
<1>1. ASSUME NEW w \in Workers, WorkerStep(w) PROVE [LeaseNext]_leaseVars \/ LeaseAside
  <2>1. CASE LeaseKeeping(w) BY <2>1 DEF LeaseKeeping, LeaseNext, LeaseStep
  <2>2. CASE SelectCandle(w) BY <2>2 DEF SelectCandle, LeaseNext, LeaseStep
  <2>3. CASE SettleAtOpen(w) \/ ReadAccess(w) \/ ReadPosition(w)
    BY <2>3 DEF SettleAtOpen, ReadAccess, ReadPosition
  <2>4. CASE Complete(w)
    <3>1. \/ \E persisted \in BOOLEAN : CommitCycle(w, persisted)
          \/ CommitDuplicate(w) \/ CommitFenced(w)
      BY <2>4 DEF Complete, CommitHold, CommitBlocked, CommitEntry, CommitExit, CommitNothing
    <3>2. QED BY <3>1 DEF LeaseNext, LeaseStep
  <2>5. CASE Abandon(w) BY <2>5 DEF Abandon, LeaseNext, LeaseStep
  <2>6. QED BY <1>1, <2>1, <2>2, <2>3, <2>4, <2>5 DEF WorkerStep
<1>2. ASSUME NEW d \in Deployments, Follow(d) \/ PauseCard(d)
      PROVE  [LeaseNext]_leaseVars \/ LeaseAside
  BY <1>2 DEF Follow, PauseCard, LeaseNext, DeploymentStep, LeaseAside
<1>3. CASE Time BY <1>3 DEF Time, LeaseNext, DeploymentStep
<1>4. CASE Custody BY <1>4 DEF Custody, LeaseAside
<1>5. CASE UNCHANGED vars BY <1>5 DEF vars
<1>6. QED BY <1>1, <1>2, <1>3, <1>4, <1>5 DEF Next

\* The lease keeps its types and its invariant whatever the book does.
LEMMA LeaseKept == LeaseInv /\ [Next]_vars => LeaseInv'
<1> SUFFICES ASSUME LeaseInv, [Next]_vars PROVE LeaseInv' OBVIOUS
<1>1. CASE [LeaseNext]_leaseVars BY <1>1, InvStep
<1>2. CASE ~[LeaseNext]_leaseVars
  <2>1. LeaseAside BY <1>2, LeaseSide
  <2>2. LeaseTypeOK BY DEF LeaseInv
  <2>3. (\E d \in Deployments : Follow(d)) \/ Custody
        \/ UNCHANGED leaseVars
    BY <1>2 DEF Next, WorkerStep, LeaseKeeping, SelectCandle, SettleAtOpen, ReadAccess, ReadPosition,
       Complete, CommitHold, CommitBlocked, CommitEntry, CommitExit, CommitNothing, Abandon,
       PauseCard, Time, vars, LeaseNext, LeaseStep, DeploymentStep
  <2>4. ASSUME NEW d \in Deployments, Follow(d) PROVE LeaseTypeOK'
    <3>1. status' \in [Deployments -> Statuses] BY <2>2, <2>4 DEF Follow, LeaseTypeOK, Statuses
    <3>2. owner' \in [Deployments -> Workers \cup {NoWorker}] BY <2>2, <2>4 DEF Follow, LeaseTypeOK
    <3>3. ttl' \in [Deployments -> 0 .. LeaseTicks]
      BY <2>2, <2>4, LeaseConstants DEF Follow, LeaseTypeOK, LeaseConstants
    <3>4. upsets' \in 0 .. MaxUpsets
      BY <2>2, <2>4, LeaseConstants DEF Follow, Upset, LeaseTypeOK, LeaseConstants
    <3>5. QED BY <2>1, <2>2, <3>1, <3>2, <3>3, <3>4 DEF LeaseTypeOK, LeaseAside
  <2>5. ASSUME Custody PROVE LeaseTypeOK'
    <3>1. upsets' \in 0 .. MaxUpsets
      BY <2>2, <2>5, LeaseConstants DEF Custody, Upset, LeaseTypeOK, LeaseConstants
    <3>2. QED BY <2>2, <2>5, <3>1 DEF Custody, LeaseTypeOK
  <2>6. ~UNCHANGED leaseVars BY <1>2
  <2>7. LeaseTypeOK' BY <2>3, <2>4, <2>5, <2>6
  <2>8. closed' >= closed BY <2>1, <2>2 DEF LeaseAside, LeaseTypeOK
  <2>9. QED BY <2>1, <2>7, <2>8, ForgettingStep DEF LeaseAside
<1>3. QED BY <1>1, <1>2

\* Seen from the book, every step is an admission, a settlement, a move of custody or nothing.
LEMMA BookSide ==
  ASSUME LeaseTypeOK, StagesInv, [Next]_vars
  PROVE  [BookMoves]_bookVars
<1>1. ASSUME NEW w \in Workers, SettleAtOpen(w) PROVE BookMoves
  <2>1. held[w].dep \in Deployments /\ held[w].candle \in Candles
    BY <1>1, BusyHoldsLease DEF SettleAtOpen, StagesInv, Candles
  <2>2. OpenTime(held[w].candle) \in 0 .. MaxCandle
    BY <2>1, LeaseConstants DEF OpenTime, Candles, LeaseConstants
  <2>3. SettleAny(held[w].dep) BY <1>1, <2>2, CardConstants DEF SettleAtOpen, SettleAny, CardConstants
  <2>4. QED BY <2>1, <2>3 DEF BookMoves
<1>2. ASSUME NEW w \in Workers, CommitEntry(w) \/ CommitExit(w) PROVE BookMoves
  <2>1. held[w].dep \in Deployments /\ held[w].candle \in Candles
    <3>1. CommitCycle(w, TRUE) BY <1>2 DEF CommitEntry, CommitExit
    <3>2. QED BY <3>1, BusyHoldsLease DEF CommitCycle, Candles
  <2>2. AdmitOne(held[w].dep)
    BY <1>2, <2>1, CardConstants DEF CommitEntry, CommitExit, AdmitOne, Actions, CardConstants
  <2>3. QED BY <2>1, <2>2 DEF BookMoves
<1>3. ASSUME NEW w \in Workers, WorkerStep(w) PROVE [BookMoves]_bookVars
  BY <1>1, <1>2, <1>3 DEF WorkerStep, LeaseKeeping, SelectCandle, ReadAccess, ReadPosition, Complete,
     CommitHold, CommitBlocked, CommitNothing, Abandon
<1>4. ASSUME NEW d \in Deployments, Follow(d) \/ PauseCard(d) PROVE UNCHANGED bookVars
  BY <1>4 DEF Follow, PauseCard
<1>5. CASE Custody BY <1>5 DEF Custody, BookMoves, CustodyMoves
<1>6. QED BY <1>3, <1>4, <1>5 DEF Next, Time, vars

-----------------------------------------------------------------------------
(* One open order *)

\* Two pending orders of a deployment are the same one.
AtMostOne(d) == \A i, j \in PendingOrders(d) : i = j

\* The orders that wait are finitely many.
LEMMA PendingAreFinite ==
  ASSUME BookTypeOK, NEW d \in Deployments
  PROVE  IsFiniteSet(PendingOrders(d))
<1>1. DOMAIN intents = 1 .. Len(intents) /\ Len(intents) \in Nat BY QueueShape
<1>2. IsFiniteSet(1 .. Len(intents)) BY <1>1, FS_Interval
<1>3. PendingOrders(d) \subseteq 1 .. Len(intents) BY <1>1 DEF PendingOrders
<1>4. QED BY <1>2, <1>3, FS_Subset

\* The count of OneOpenOrder, as a proof uses it.
LEMMA OneMeansOne ==
  ASSUME BookTypeOK, NEW d \in Deployments
  PROVE  Cardinality(PendingOrders(d)) <= 1 <=> AtMostOne(d)
<1> DEFINE P == PendingOrders(d)
<1>1. IsFiniteSet(P) BY PendingAreFinite
<1>2. AtMostOne(d) <=> \A i, j \in P : i = j BY DEF AtMostOne
<1> HIDE DEF P
<1>3. Cardinality(P) \in Nat BY <1>1, FS_CardinalityType
<1>4. CASE P = {}
  <2>1. Cardinality(P) = 0 BY <1>4, FS_EmptySet
  <2>2. QED BY <1>2, <1>4, <2>1 DEF P
<1>5. CASE P # {}
  <2>1. Cardinality(P) # 0 BY <1>1, <1>5, FS_EmptySet
  <2>2. Cardinality(P) <= 1 <=> Cardinality(P) = 1
    <3> DEFINE n == Cardinality(P)
    <3>1. n \in Nat /\ n # 0 BY <1>3, <2>1
    <3> HIDE DEF n
    <3>2. n <= 1 <=> n = 1 BY <3>1
    <3>3. QED BY <3>2 DEF n
  <2>3. Cardinality(P) = 1 <=> \E x : P = {x} BY <1>1, FS_Singleton
  <2>4. (\E x : P = {x}) <=> \A i, j \in P : i = j BY <1>5
  <2>5. QED BY <1>2, <2>2, <2>3, <2>4 DEF P
<1>6. QED BY <1>4, <1>5

\* A settlement that marks a deployment's pending order leaves it none, and every other
\* deployment the orders it had.
LEMMA MarkingClears ==
  ASSUME BookTypeOK, NEW d \in Deployments, AtMostOne(d), NEW i \in PendingOrders(d),
         NEW outcome \in {"filled", "rejected"}, MarkIntent(i, outcome)
  PROVE  /\ PendingOrders(d)' = {}
         /\ \A e \in Deployments \ {d} :
              /\ PendingOrders(e)' = PendingOrders(e)
              /\ \A j \in PendingOrders(e) : intents'[j] = intents[j]
<1>1. i \in DOMAIN intents /\ intents[i].dep = d BY DEF PendingOrders
<1>2. /\ DOMAIN intents' = DOMAIN intents
      /\ \A j \in DOMAIN intents : /\ intents'[j].status = IF j = i THEN outcome ELSE intents[j].status
                                  /\ intents'[j].dep = intents[j].dep
  BY <1>1, MarkKeepsDecisions DEF Decision
<1>3. \A j \in DOMAIN intents : j # i => intents'[j] = intents[j] BY <1>1, MarkOnlyOne
<1>4. \A j \in DOMAIN intents' : ~(intents'[j].dep = d /\ intents'[j].status = "pending")
  BY <1>1, <1>2 DEF AtMostOne, PendingOrders
<1>5. PendingOrders(d)' = {} BY <1>4 DEF PendingOrders
<1>6. ASSUME NEW e \in Deployments \ {d}
      PROVE  /\ PendingOrders(e)' = PendingOrders(e)
             /\ \A j \in PendingOrders(e) : intents'[j] = intents[j]
  <2>1. \A j \in DOMAIN intents : intents[j].dep = e => j # i BY <1>1
  <2>2. \A j \in PendingOrders(e) : intents'[j] = intents[j] BY <1>3, <2>1 DEF PendingOrders
  <2>3. \A j : j \in PendingOrders(e)' <=> j \in PendingOrders(e)
    BY <1>1, <1>2, <1>3, <2>1 DEF PendingOrders
  <2>4. QED BY <2>2, <2>3
<1>7. QED BY <1>5, <1>6

\* With no order pending, the rest of OneOpenOrder and where orders wait hold at once.
LEMMA NonePending ==
  ASSUME BookTypeOK, \A d \in Deployments : PendingOrders(d) = {}
  PROVE  OneOpenOrder /\ PendingOnPaper
<1>1. \A d \in Deployments : AtMostOne(d) BY DEF AtMostOne
<1>2. QED BY <1>1, OneMeansOne DEF OneOpenOrder, PendingOnPaper

\* Orders that stay as they are, or go, on the same side of the same position.
LEMMA OrdersStay ==
  ASSUME BookTypeOK, OneOpenOrder, PendingOnPaper, NEW d \in Deployments,
         PendingOrders(d)' \subseteq PendingOrders(d),
         \A i \in PendingOrders(d)' : intents'[i] = intents[i] /\ HoldsFor(d)' = HoldsFor(d)
  PROVE  /\ Cardinality(PendingOrders(d)') <= 1
         /\ \A i \in PendingOrders(d)' :
              /\ (intents'[i].action = "sell") = HoldsFor(d)'
              /\ Modes[d] = "paper" /\ intents'[i].timing = "next_candle_open"
<1>1. IsFiniteSet(PendingOrders(d)) BY PendingAreFinite
<1>2. Cardinality(PendingOrders(d)') <= 1
  <2> DEFINE n == Cardinality(PendingOrders(d))
             m == Cardinality(PendingOrders(d)')
  <2>1. n \in Nat /\ m \in Nat /\ m <= n BY <1>1, FS_Subset, FS_CardinalityType
  <2>2. n <= 1 BY DEF OneOpenOrder
  <2> HIDE DEF n, m
  <2>3. m <= 1 BY <2>1, <2>2
  <2>4. QED BY <2>3 DEF m
<1>3. ASSUME NEW i \in PendingOrders(d)'
      PROVE  /\ (intents'[i].action = "sell") = HoldsFor(d)'
             /\ Modes[d] = "paper" /\ intents'[i].timing = "next_candle_open"
  <2>1. i \in PendingOrders(d) /\ intents'[i] = intents[i] /\ HoldsFor(d)' = HoldsFor(d) OBVIOUS
  <2>2. (intents[i].action = "sell") = HoldsFor(d) BY <2>1 DEF OneOpenOrder, HoldsFor
  <2>3. QED BY <2>1, <2>2 DEF PendingOnPaper
<1>4. QED BY <1>2, <1>3

-----------------------------------------------------------------------------
(* Steps *)

\* What is left to show of a step, once the parts' invariants are kept.
CycleInv ==
  /\ StagesInv
  /\ IntentsArePast
  /\ IntentsInCandleOrder
  /\ PendingOnPaper
  /\ HolderSawTheBook
  /\ OneOpenOrder

\* A step that touches neither the book nor what was decided.
LEMMA QuietStep ==
  ASSUME CardInv, UNCHANGED <<bookVars, lastClose>>, StagesInv', HolderSawTheBook'
  PROVE  CycleInv'
<1>1. UNCHANGED <<intents, pos>> BY DEF bookVars, books
<1>2. IntentsArePast' /\ IntentsInCandleOrder' /\ PendingOnPaper' /\ OneOpenOrder'
  BY <1>1 DEF CardInv, IntentsArePast, IntentsInCandleOrder, PendingOnPaper, OneOpenOrder,
     PendingOrders, HoldingOf
<1>3. QED BY <1>2 DEF CycleInv

\* A worker that is not stepping saw the book as long as its token, if it is current, was so
\* before, and what it saw is the same.
LEMMA StillSaw ==
  ASSUME NEW v \in Workers, SawTheBook(v),
         held'[v] = held[v], stage'[v] = stage[v], view'[v] = view[v],
         TokenIsCurrent(v)' => TokenIsCurrent(v),
         TokenIsCurrent(v) /\ IsPaper(v) /\ PendingOrders(held[v].dep) = {} =>
           PendingOrders(held[v].dep)' = {} /\ HoldsFor(held[v].dep)' = HoldsFor(held[v].dep)
  PROVE  SawTheBook(v)'
<1>1. PICK d : held[v].dep = d OBVIOUS
<1> SUFFICES ASSUME TokenIsCurrent(v)', IsPaper(v)', stage[v] \in {"access", "position", "commit"}
             PROVE  /\ PendingOrders(d)' = {}
                    /\ stage[v] = "commit" => view[v].holding = HoldsFor(d)'
  BY <1>1 DEF SawTheBook
<1>2. TokenIsCurrent(v) /\ IsPaper(v) BY <1>1 DEF IsPaper
<1>3. PendingOrders(d) = {} /\ (stage[v] = "commit" => view[v].holding = HoldsFor(d))
  BY <1>1, <1>2 DEF SawTheBook
<1>4. PendingOrders(d)' = {} /\ HoldsFor(d)' = HoldsFor(d) BY <1>1, <1>2, <1>3
<1>5. QED BY <1>3, <1>4

\* With the book untouched, what it saw is the same.
LEMMA StillSawIt ==
  ASSUME NEW v \in Workers, SawTheBook(v), UNCHANGED <<intents, pos>>,
         held'[v] = held[v], stage'[v] = stage[v], view'[v] = view[v],
         TokenIsCurrent(v)' => TokenIsCurrent(v)
  PROVE  SawTheBook(v)'
<1>1. /\ PendingOrders(held[v].dep)' = PendingOrders(held[v].dep)
      /\ HoldsFor(held[v].dep)' = HoldsFor(held[v].dep)
  BY DEF PendingOrders, HoldsFor, HoldingOf
<1>2. QED BY <1>1, StillSaw

\* A step in which workers at most forget their lease keeps the stages.
LEMMA KeepsSight ==
  ASSUME CardInv, UNCHANGED <<bookVars, lastClose, token, held, stage, view>>
  PROVE  CycleInv'
<1>1. StagesInv' BY DEF CardInv, StagesInv, Busy
<1>2. ASSUME NEW v \in Workers PROVE SawTheBook(v)'
  <2>1. SawTheBook(v) BY DEF CardInv, HolderSawTheBook
  <2>2. QED BY <2>1, StillSawIt DEF bookVars, books, TokenIsCurrent, Busy
<1>3. QED BY <1>1, <1>2, QuietStep DEF HolderSawTheBook

\* Taking the lease: the token that was current is so no longer, and the new holder is at
\* the beginning of its cycle.
LEMMA AcquireSight ==
  ASSUME CardInv, NEW w \in Workers, NEW d \in Deployments, Acquire(w, d),
         UNCHANGED <<bookVars, stage, view>>
  PROVE  CycleInv'
<1>1. LeaseTypeOK /\ LeaseInv /\ StagesInv BY DEF CardInv, LeaseInv
<1>2. /\ ~Busy(w)
      /\ token' = [token EXCEPT ![d] = token[d] + 1]
      /\ \A v \in Workers \ {w} : held'[v] = held[v]
      /\ UNCHANGED lastClose
  BY <1>1 DEF Acquire, NextToken, LeaseTypeOK
<1>3. stage[w] = "select" BY <1>1, <1>2 DEF StagesInv
<1>4. StagesInv' BY <1>1, <1>2, <1>3 DEF StagesInv, Busy
<1>5. ASSUME NEW v \in Workers PROVE SawTheBook(v)'
  <2>1. CASE v = w BY <1>3, <2>1 DEF SawTheBook
  <2>2. CASE v # w
    <3>1. SawTheBook(v) /\ held'[v] = held[v] BY <1>2, <2>2 DEF CardInv, HolderSawTheBook
    <3>2. ASSUME TokenIsCurrent(v)' PROVE TokenIsCurrent(v)
      <4>1. Busy(v) /\ held[v].token = token'[held[v].dep] BY <3>1, <3>2 DEF TokenIsCurrent, Busy
      <4>2. held[v].dep \in Deployments /\ held[v].token \in Nat BY <1>1, <4>1, BusyHoldsLease
      <4>3. held[v].token <= token[held[v].dep] BY <1>1, <4>1 DEF LeaseInv, HeldIsPast
      <4>4. token \in [Deployments -> Nat] BY <1>1 DEF LeaseTypeOK
      <4>5. held[v].dep # d BY <1>2, <4>1, <4>2, <4>3, <4>4
      <4>6. QED BY <1>2, <4>1, <4>2, <4>4, <4>5 DEF TokenIsCurrent
    <3>3. QED BY <2>2, <3>1, <3>2, StillSawIt DEF bookVars, books
  <2>3. QED BY <2>1, <2>2
<1>6. QED BY <1>2, <1>4, <1>5, QuietStep DEF HolderSawTheBook

\* A worker that steps alone in its cycle without touching the book or the rows.
LEMMA OwnCycleStep ==
  ASSUME CardInv, NEW w \in Workers, UNCHANGED <<bookVars, lastClose, token>>,
         \A v \in Workers \ {w} : held'[v] = held[v] /\ stage'[v] = stage[v] /\ view'[v] = view[v],
         StagesInv', SawTheBook(w)'
  PROVE  CycleInv'
<1>1. ASSUME NEW v \in Workers, v # w PROVE SawTheBook(v)'
  <2>1. SawTheBook(v) BY DEF CardInv, HolderSawTheBook
  <2>2. held'[v] = held[v] /\ stage'[v] = stage[v] /\ view'[v] = view[v] BY <1>1
  <2>3. QED BY <2>1, <2>2, StillSawIt DEF bookVars, books, TokenIsCurrent, Busy
<1>2. QED BY <1>1, QuietStep DEF HolderSawTheBook

\* Choosing a candle begins the cycle: a paper deployment settles first.
LEMMA SelectSight ==
  ASSUME CardInv, NEW w \in Workers, SelectCandle(w)
  PROVE  CycleInv'
<1>1. LeaseTypeOK /\ StagesInv BY DEF CardInv, LeaseInv
<1>2. /\ Busy(w) /\ closed > held[w].last
      /\ held' = [held EXCEPT ![w].candle = NextCandle(held[w].last)]
      /\ stage' = [stage EXCEPT ![w] = IF IsPaper(w) THEN "settle" ELSE "access"]
      /\ UNCHANGED <<bookVars, view, lastClose, token>>
  BY DEF SelectCandle, Select, HasDueCandle, Goto, rows
<1>3. held[w] \in Leases BY <1>1, <1>2, BusyHoldsLease
<1> DEFINE c == NextCandle(held[w].last)
<1>4. c # 0 /\ c \in 0 .. MaxCandle
  <2>1. held[w].last \in 0 .. MaxCandle /\ closed \in 0 .. MaxCandle /\ MaxCandle \in Nat
    BY <1>1, <1>3, LeaseConstants DEF Leases, LeaseTypeOK, LeaseConstants
  <2>2. QED BY <1>2, <2>1 DEF NextCandle
<1> HIDE DEF c
<1>5. /\ held'[w].dep = held[w].dep /\ held'[w].candle # 0 /\ held'[w] \in Leases
      /\ \A v \in Workers \ {w} : held'[v] = held[v] /\ stage'[v] = stage[v] /\ view'[v] = view[v]
      /\ stage'[w] = IF IsPaper(w) THEN "settle" ELSE "access"
  <2>1. held'[w] = [held[w] EXCEPT !.candle = c] BY <1>1, <1>2 DEF LeaseTypeOK, c
  <2>2. held'[w].dep = held[w].dep /\ held'[w].candle # 0 /\ held'[w] \in Leases
    BY <1>3, <1>4, <2>1 DEF Leases
  <2>3. QED BY <1>1, <1>2, <2>2 DEF LeaseTypeOK, StagesInv
<1>6. StagesInv'
  <2>1. stage' \in [Workers -> Stages] BY <1>1, <1>2 DEF StagesInv, Stages
  <2>2. Busy(w)' BY <1>5, LeaseIsNotNoLease DEF Busy
  <2>3. QED BY <1>1, <1>2, <1>5, <2>1, <2>2 DEF StagesInv, Busy
<1>7. SawTheBook(w)'
  <2>1. IsPaper(w)' = IsPaper(w) BY <1>5 DEF IsPaper
  <2>2. QED BY <1>5, <2>1 DEF SawTheBook
<1>8. QED BY <1>2, <1>5, <1>6, <1>7, OwnCycleStep

\* As long as every intent keeps its decision, the queue keeps its order.
LEMMA SameDecisions ==
  ASSUME CardInv, UNCHANGED lastClose, DOMAIN intents' = DOMAIN intents,
         \A j \in DOMAIN intents : Decision(intents'[j]) = Decision(intents[j])
  PROVE  IntentsArePast' /\ IntentsInCandleOrder'
<1>1. \A j \in DOMAIN intents :
        intents'[j].dep = intents[j].dep /\ intents'[j].candle = intents[j].candle
  BY DEF Decision
<1>2. IntentsArePast' BY <1>1 DEF CardInv, IntentsArePast
<1>3. IntentsInCandleOrder' BY <1>1 DEF CardInv, IntentsInCandleOrder
<1>4. QED BY <1>2, <1>3

\* Two paper deployments of a card trade different symbols, so what settles for one moves
\* nothing that another one looks at.
Elsewhere(d) ==
  \A e \in Deployments \ {d} :
    /\ PendingOrders(e)' = PendingOrders(e)
    /\ \A j \in PendingOrders(e) : intents'[j] = intents[j]
    /\ Modes[e] = "paper" => HoldsFor(e)' = HoldsFor(e)

\* A fill moves the position in its own symbol only.
LEMMA FillMoves ==
  ASSUME BookTypeOK, NEW i \in DOMAIN intents, NEW price, NEW at, NEW allowed,
         SettleFill(i, price, at, allowed), NEW s \in Symbols, s # Symbol(i)
  PROVE  pos'[s] = pos[s]
<1>1. \E position : pos' = [pos EXCEPT ![Symbol(i)] = position]
  BY DEF SettleFill, FillBuy, FillSell
<1>2. QED BY <1>1 DEF BookTypeOK

\* What a settlement leaves pending of its deployment: nothing; and it leaves the other ones
\* alone.
LEMMA SettlementClears ==
  ASSUME CardInv, NEW d \in Deployments, NEW at, Settle(d, "next_candle_open", at)
  PROVE  \/ UNCHANGED bookVars /\ PendingOrders(d) = {}
         \/ /\ Modes[d] = "paper" /\ PendingOrders(d) # {} /\ PendingOrders(d)' = {}
            /\ Elsewhere(d)
            /\ DOMAIN intents' = DOMAIN intents
            /\ \A j \in DOMAIN intents : Decision(intents'[j]) = Decision(intents[j])
<1>1. BookTypeOK /\ AtMostOne(d) BY OneMeansOne DEF CardInv, IntentInv, BookInv, OneOpenOrder
<1>2. CASE SettleNothing(d, "next_candle_open")
  <2>1. ASSUME NEW i \in PendingOrders(d) PROVE FALSE
    <3>1. /\ i \in DOMAIN intents /\ intents[i].status = "pending" /\ intents[i].dep = d
          /\ intents[i].timing = "next_candle_open"
      BY DEF PendingOrders, CardInv, PendingOnPaper
    <3>2. QED BY <1>2, <3>1 DEF SettleNothing, Pending
  <2>2. QED BY <1>2, <2>1 DEF SettleNothing
<1>3. ASSUME NEW i \in Pending(d, "next_candle_open"), NEW outcome \in {"filled", "rejected"},
             MarkIntent(i, outcome),
             \A s \in Symbols \ {SymbolOf[d]} : pos'[s] = pos[s]
      PROVE  /\ Modes[d] = "paper" /\ PendingOrders(d) # {} /\ PendingOrders(d)' = {}
             /\ Elsewhere(d)
             /\ DOMAIN intents' = DOMAIN intents
             /\ \A j \in DOMAIN intents : Decision(intents'[j]) = Decision(intents[j])
  <2>1. i \in PendingOrders(d) /\ i \in DOMAIN intents BY DEF Pending, PendingOrders
  <2>2. Modes[d] = "paper" BY <2>1 DEF CardInv, PendingOnPaper
  <2>3. /\ PendingOrders(d)' = {}
        /\ \A e \in Deployments \ {d} : /\ PendingOrders(e)' = PendingOrders(e)
                                       /\ \A j \in PendingOrders(e) : intents'[j] = intents[j]
    BY <1>1, <1>3, <2>1, MarkingClears
  <2>4. ASSUME NEW e \in Deployments \ {d}, Modes[e] = "paper" PROVE HoldsFor(e)' = HoldsFor(e)
    <3>1. SymbolOf[e] \in Symbols \ {SymbolOf[d]}
      BY <2>2, <2>4, CardConstants, BookConstants DEF CardConstants, BookConstants
    <3>2. pos'[SymbolOf[e]] = pos[SymbolOf[e]] BY <1>3, <3>1
    <3>3. QED BY <3>2 DEF HoldsFor, HoldingOf
  <2>5. Elsewhere(d) BY <2>3, <2>4 DEF Elsewhere
  <2>6. QED BY <1>1, <1>3, <2>1, <2>2, <2>3, <2>5, MarkKeepsDecisions
<1>4. CASE ~SettleNothing(d, "next_candle_open")
  <2>1. PICK i \in Pending(d, "next_candle_open"), allowed \in EntriesAllowed :
          \/ \E price \in Prices : SettleFill(i, price, at, allowed)
          \/ SettleReject(i, at, allowed)
    BY <1>4 DEF Settle
  <2>2. i \in DOMAIN intents /\ Symbol(i) = SymbolOf[d] BY DEF Pending, Symbol
  <2>3. \A s \in Symbols \ {SymbolOf[d]} : pos'[s] = pos[s]
    <3>1. CASE SettleReject(i, at, allowed) BY <3>1 DEF SettleReject, books
    <3>2. ASSUME NEW price \in Prices, SettleFill(i, price, at, allowed)
          PROVE  \A s \in Symbols \ {SymbolOf[d]} : pos'[s] = pos[s]
      BY <1>1, <2>2, <3>2, FillMoves
    <3>3. QED BY <2>1, <3>1, <3>2
  <2>4. MarkIntent(i, "filled") \/ MarkIntent(i, "rejected") BY <2>1 DEF SettleFill, SettleReject
  <2>5. QED BY <1>3, <2>3, <2>4
<1>5. QED BY <1>2, <1>4

\* The settlement checks no token. It either finds nothing, or takes the one order of its
\* deployment that was pending; then no holder can have been past its own settlement.
LEMMA SettleSight ==
  ASSUME CardInv, NEW w \in Workers, SettleAtOpen(w), BookTypeOK'
  PROVE  CycleInv'
<1> DEFINE d == held[w].dep
<1>1. LeaseTypeOK /\ StagesInv /\ BookTypeOK /\ OneOpenOrder /\ PendingOnPaper
  BY DEF CardInv, LeaseInv, IntentInv, BookInv
<1>2. /\ Busy(w) /\ stage[w] = "settle" /\ held[w].candle # 0
      /\ stage' = [stage EXCEPT ![w] = "access"]
      /\ UNCHANGED <<token, held, lastClose, view>>
  BY <1>1 DEF SettleAtOpen, Goto, StagesInv, leaseVars, rows
<1>3. d \in Deployments BY <1>1, <1>2, BusyHoldsLease
<1>4. stage'[w] = "access" /\ \A v \in Workers \ {w} : stage'[v] = stage[v]
  BY <1>1, <1>2 DEF StagesInv
<1>5. StagesInv' BY <1>1, <1>2, <1>4 DEF StagesInv, Stages, Busy
<1>6. Settle(d, "next_candle_open", OpenTime(held[w].candle)) BY DEF SettleAtOpen
<1>7. PICK e \in Deployments : e = d BY <1>3
<1>8. held'[w].dep = e BY <1>2, <1>7
<1>9. PendingOrders(e)' = {} => SawTheBook(w)'
  <2>1. SawTheBook(w)' <=>
          (TokenIsCurrent(w)' /\ IsPaper(w)' =>
             /\ stage'[w] \in {"access", "position", "commit"} => PendingOrders(e)' = {}
             /\ stage'[w] = "commit" => view'[w].holding = HoldsFor(e)')
    BY <1>8 DEF SawTheBook
  <2>2. QED BY <1>4, <2>1
<1> HIDE DEF d
<1>10. CASE UNCHANGED bookVars /\ PendingOrders(e) = {}
  <2>1. PendingOrders(e)' = PendingOrders(e) BY <1>10 DEF bookVars, PendingOrders
  <2>2. SawTheBook(w)' BY <1>9, <1>10, <2>1
  <2>3. QED BY <1>2, <1>4, <1>5, <1>10, <2>2, OwnCycleStep
<1>11. CASE /\ Modes[e] = "paper" /\ PendingOrders(e) # {} /\ PendingOrders(e)' = {}
            /\ Elsewhere(e)
            /\ DOMAIN intents' = DOMAIN intents
            /\ \A j \in DOMAIN intents : Decision(intents'[j]) = Decision(intents[j])
  <2>1. IntentsArePast' /\ IntentsInCandleOrder' BY <1>2, <1>11, SameDecisions
  <2>2. ASSUME NEW x \in Deployments
        PROVE  /\ Cardinality(PendingOrders(x)') <= 1
               /\ \A i \in PendingOrders(x)' :
                    /\ (intents'[i].action = "sell") = HoldsFor(x)'
                    /\ Modes[x] = "paper" /\ intents'[i].timing = "next_candle_open"
    <3>1. PendingOrders(x)' \subseteq PendingOrders(x)
      BY <1>11 DEF Elsewhere
    <3>2. ASSUME NEW i \in PendingOrders(x)'
          PROVE  intents'[i] = intents[i] /\ HoldsFor(x)' = HoldsFor(x)
      <4>1. x \in Deployments \ {e} BY <1>11
      <4>2. i \in PendingOrders(x) BY <3>1
      <4>3. Modes[x] = "paper" BY <1>1, <4>2 DEF PendingOnPaper
      <4>4. QED BY <1>11, <4>1, <4>2, <4>3 DEF Elsewhere
    <3>3. QED BY <1>1, <3>1, <3>2, OrdersStay
  <2>3. OneOpenOrder' /\ PendingOnPaper' BY <2>2 DEF OneOpenOrder, PendingOnPaper, HoldsFor
  <2>4. ASSUME NEW v \in Workers PROVE SawTheBook(v)'
    <3>1. CASE v = w BY <1>9, <1>11, <3>1
    <3>2. CASE v # w
      <4>1. SawTheBook(v) BY DEF CardInv, HolderSawTheBook
      <4>2. /\ held'[v] = held[v] /\ stage'[v] = stage[v] /\ view'[v] = view[v]
            /\ TokenIsCurrent(v)' => TokenIsCurrent(v)
        BY <1>2, <1>4, <3>2 DEF TokenIsCurrent, Busy
      <4>3. ASSUME TokenIsCurrent(v), IsPaper(v), PendingOrders(held[v].dep) = {}
            PROVE  PendingOrders(held[v].dep)' = {} /\ HoldsFor(held[v].dep)' = HoldsFor(held[v].dep)
        <5>1. held[v].dep \in Deployments \ {e}
          BY <1>1, <1>11, <4>3, BusyHoldsLease DEF TokenIsCurrent
        <5>2. PICK x \in Deployments \ {e} : x = held[v].dep BY <5>1
        <5>3. Modes[x] = "paper" /\ PendingOrders(x) = {} BY <4>3, <5>2 DEF IsPaper
        <5>4. PendingOrders(x)' = {} /\ HoldsFor(x)' = HoldsFor(x) BY <1>11, <5>3 DEF Elsewhere
        <5>5. QED BY <4>2, <5>2, <5>4
      <4>4. QED BY <4>1, <4>2, <4>3, StillSaw
    <3>3. QED BY <3>1, <3>2
  <2>5. QED BY <1>5, <2>1, <2>3, <2>4 DEF CycleInv, HolderSawTheBook
<1>12. QED BY <1>6, <1>7, <1>10, <1>11, SettlementClears

\* Reading the access, then the position.
LEMMA ReadSight ==
  ASSUME CardInv, NEW w \in Workers, ReadAccess(w) \/ ReadPosition(w)
  PROVE  CycleInv'
<1>1. LeaseTypeOK /\ StagesInv /\ BookTypeOK /\ SawTheBook(w)
  BY DEF CardInv, LeaseInv, IntentInv, BookInv, HolderSawTheBook
<1>2. view[w] \in [access : Accesses, holding : BOOLEAN] BY <1>1 DEF StagesInv
<1>3. /\ Busy(w) /\ stage[w] \in {"access", "position"} /\ held[w].candle # 0
      /\ UNCHANGED <<bookVars, lastClose, token, held>>
  BY <1>1 DEF ReadAccess, ReadPosition, StagesInv, leaseVars, rows
<1>4. UNCHANGED <<intents, pos>> BY <1>3 DEF bookVars, books
<1>5. CASE ReadAccess(w)
  <2>1. PICK allowed \in EntriesAllowed :
          view' = [view EXCEPT ![w].access = Constrained(allowed, Holding)]
    BY <1>5 DEF ReadAccess
  <2>2. Constrained(allowed, Holding) \in Accesses
    <3>1. allowed \in BOOLEAN BY DEF EntriesAllowed
    <3>2. Holding \in BOOLEAN BY DEF Holding
    <3>3. QED BY <1>1, <3>1, <3>2, AccessTypes
  <2>3. stage' = [stage EXCEPT ![w] = "position"] BY <1>5 DEF ReadAccess, Goto
  <2>4. StagesInv' BY <1>1, <1>2, <1>3, <2>1, <2>2, <2>3 DEF StagesInv, Stages, Busy
  <2>5. SawTheBook(w)'
    BY <1>1, <1>3, <1>4, <1>5, <2>3
       DEF ReadAccess, SawTheBook, StagesInv, TokenIsCurrent, Busy, IsPaper, PendingOrders
  <2>6. QED BY <1>1, <1>3, <2>1, <2>3, <2>4, <2>5, OwnCycleStep DEF StagesInv
<1>6. CASE ReadPosition(w)
  <2>1. view' = [view EXCEPT ![w].holding = SeesPosition(w)] /\ stage' = [stage EXCEPT ![w] = "commit"]
    BY <1>6 DEF ReadPosition, Goto
  <2>2. SeesPosition(w) \in BOOLEAN BY DEF SeesPosition, IsPaper, HoldingOf
  <2>3. StagesInv' BY <1>1, <1>2, <1>3, <2>1, <2>2 DEF StagesInv, Stages, Busy
  <2>4. view'[w].holding = SeesPosition(w) BY <1>1, <1>2, <2>1 DEF StagesInv
  <2>5. SawTheBook(w)'
    <3>1. IsPaper(w) => view'[w].holding = HoldsFor(held[w].dep)
      BY <2>4 DEF SeesPosition, HoldsFor, HoldingOf
    <3>2. /\ PendingOrders(held[w].dep)' = PendingOrders(held[w].dep)
          /\ HoldsFor(held[w].dep)' = HoldsFor(held[w].dep)
          /\ TokenIsCurrent(w)' = TokenIsCurrent(w) /\ IsPaper(w)' = IsPaper(w)
      BY <1>3, <1>4 DEF PendingOrders, HoldsFor, HoldingOf, TokenIsCurrent, Busy, IsPaper
    <3>3. stage[w] = "position" BY <1>6 DEF ReadPosition
    <3>4. QED BY <1>1, <3>1, <3>2, <3>3 DEF SawTheBook
  <2>6. QED BY <1>1, <1>3, <2>1, <2>3, <2>5, OwnCycleStep DEF StagesInv
<1>7. QED BY <1>5, <1>6

\* A worker whose cycle ends forgets what it saw.
LEMMA EndingStages ==
  ASSUME CardInv, NEW w \in Workers, CycleEnds(w), ForgetLease(w)
  PROVE  /\ StagesInv' /\ SawTheBook(w)'
         /\ \A v \in Workers \ {w} : held'[v] = held[v] /\ stage'[v] = stage[v] /\ view'[v] = view[v]
<1>1. LeaseTypeOK /\ StagesInv BY DEF CardInv, LeaseInv
<1>2. /\ held' = [held EXCEPT ![w] = NoLease]
      /\ stage' = [stage EXCEPT ![w] = "select"]
      /\ view' = [view EXCEPT ![w] = Unread]
  BY DEF CycleEnds, Goto, ForgetLease
<1>3. /\ stage'[w] = "select"
      /\ \A v \in Workers \ {w} : held'[v] = held[v] /\ stage'[v] = stage[v] /\ view'[v] = view[v]
  BY <1>1, <1>2 DEF LeaseTypeOK, StagesInv
<1>4. Unread \in [access : Accesses, holding : BOOLEAN] BY DEF Unread, Accesses
<1>5. StagesInv' BY <1>1, <1>2, <1>3, <1>4 DEF StagesInv, Stages, Busy
<1>6. SawTheBook(w)' BY <1>3 DEF SawTheBook
<1>7. QED BY <1>3, <1>5, <1>6

\* What a commit moves: the deployment's last candle, to a later one.
LEMMA CommitMoves ==
  ASSUME CardInv, NEW w \in Workers, NEW persisted \in BOOLEAN, CommitCycle(w, persisted)
  PROVE  /\ held[w].dep \in Deployments /\ held[w].candle \in Candles
         /\ TokenIsCurrent(w) /\ UNCHANGED token
         /\ lastClose[held[w].dep] < held[w].candle
         /\ lastClose'[held[w].dep] = held[w].candle
         /\ \A e \in Deployments \ {held[w].dep} : lastClose'[e] = lastClose[e]
<1>1. LeaseTypeOK BY DEF CardInv, LeaseInv
<1>2. /\ Busy(w) /\ held[w].candle # 0 /\ token[held[w].dep] = held[w].token
      /\ lastClose' = [lastClose EXCEPT ![held[w].dep] = held[w].candle]
      /\ UNCHANGED token
  BY DEF CommitCycle, MayCommit, Owns
<1>3. held[w].dep \in Deployments /\ held[w].candle \in Candles
  BY <1>1, <1>2, BusyHoldsLease DEF Candles
<1>4. held[w].last = lastClose[held[w].dep] /\ held[w].last < held[w].candle
  BY <1>2 DEF CardInv, LeaseInv, HolderViewIsFresh, HeldIsPast
<1>5. QED BY <1>1, <1>2, <1>3, <1>4 DEF LeaseTypeOK, TokenIsCurrent

\* A commit that leaves the book alone.
LEMMA CommitAlone ==
  ASSUME CardInv, NEW w \in Workers, NEW persisted \in BOOLEAN, CommitCycle(w, persisted),
         CycleEnds(w), UNCHANGED bookVars
  PROVE  CycleInv'
<1>1. LeaseTypeOK /\ BookTypeOK BY DEF CardInv, LeaseInv, IntentInv, BookInv
<1>2. UNCHANGED <<intents, pos>> /\ ForgetLease(w) BY DEF bookVars, books, CommitCycle
<1>3. StagesInv' /\ SawTheBook(w)'
      /\ \A v \in Workers \ {w} : held'[v] = held[v] /\ stage'[v] = stage[v] /\ view'[v] = view[v]
  BY <1>2, EndingStages
<1>4. IntentsArePast'
  <2> SUFFICES ASSUME NEW i \in DOMAIN intents PROVE intents[i].candle <= lastClose'[intents[i].dep]
    BY <1>2 DEF IntentsArePast
  <2>1. intents[i].dep \in Deployments /\ intents[i].candle \in Candles
    BY <1>1, QueueShape DEF Intents
  <2>2. intents[i].candle <= lastClose[intents[i].dep] BY DEF CardInv, IntentsArePast
  <2>3. lastClose[intents[i].dep] \in Int BY <1>1, <2>1 DEF LeaseTypeOK
  <2>4. CASE intents[i].dep = held[w].dep
    <3>1. /\ lastClose'[intents[i].dep] = held[w].candle /\ held[w].candle \in Int
          /\ lastClose[intents[i].dep] < held[w].candle
      BY <2>4, CommitMoves DEF Candles
    <3>2. QED BY <2>1, <2>2, <2>3, <3>1 DEF Candles
  <2>5. CASE intents[i].dep # held[w].dep BY <2>1, <2>2, <2>5, CommitMoves
  <2>6. QED BY <2>4, <2>5
<1>5. ASSUME NEW v \in Workers PROVE SawTheBook(v)'
  <2>1. CASE v = w BY <1>3, <2>1
  <2>2. CASE v # w
    <3>1. SawTheBook(v) /\ UNCHANGED token BY CommitMoves DEF CardInv, HolderSawTheBook
    <3>2. QED BY <1>2, <1>3, <2>2, <3>1, StillSawIt DEF TokenIsCurrent, Busy
  <2>3. QED BY <2>1, <2>2
<1>6. IntentsInCandleOrder' /\ PendingOnPaper' /\ OneOpenOrder'
  BY <1>2 DEF CardInv, IntentsInCandleOrder, PendingOnPaper, OneOpenOrder, PendingOrders, HoldingOf
<1>7. QED BY <1>3, <1>4, <1>5, <1>6 DEF CycleInv, HolderSawTheBook

\* A commit with an order. The holder of a paper deployment saw its symbol's position as it is
\* and no order of its own pending, and no other worker has its token: one order becomes
\* pending, on the right side, behind all earlier ones.
LEMMA CommitOrder ==
  ASSUME CardInv, NEW w \in Workers, CommitCycle(w, TRUE), CycleEnds(w), stage[w] = "commit",
         NEW action \in Actions, (action = "sell") = view[w].holding,
         Admit(held[w].dep, held[w].candle, action, "next_candle_open")
  PROVE  CycleInv'
<1> DEFINE d == held[w].dep
           c == held[w].candle
           n == Len(intents)
<1>1. LeaseTypeOK /\ BookTypeOK BY DEF CardInv, LeaseInv, IntentInv, BookInv
<1>2. /\ d \in Deployments /\ c \in Candles /\ TokenIsCurrent(w) /\ UNCHANGED token
      /\ lastClose[d] < c /\ lastClose'[d] = c
      /\ \A e \in Deployments \ {d} : lastClose'[e] = lastClose[e]
  BY CommitMoves
<1>3. PICK allowed \in EntriesAllowed :
      /\ intents' = IF IsNewIntent(d, c, action)
                      THEN Append(intents, [dep |-> d, candle |-> c, action |-> action,
                                            timing |-> "next_candle_open",
                                            status |-> AdmittedStatus(d, action, allowed)])
                      ELSE intents
      /\ UNCHANGED <<access, custody, books>>
  BY DEF Admit
<1>4. CASE intents' = intents
  <2>1. UNCHANGED bookVars BY <1>3, <1>4 DEF bookVars
  <2>2. QED BY <2>1, CommitAlone
<1>5. CASE IsNewIntent(d, c, action)
  <2> DEFINE e == [dep |-> d, candle |-> c, action |-> action, timing |-> "next_candle_open",
                   status |-> AdmittedStatus(d, action, allowed)]
  <2>1. e \in Intents
    BY <1>2, CardConstants, BookConstants
       DEF BookConstants, CardConstants, Intents, AdmittedStatus, Actions
  <2>2. /\ e.dep = d /\ e.candle = c /\ e.action = action /\ e.timing = "next_candle_open"
        /\ e.status = "pending" => Modes[d] = "paper"
    BY <1>2, BookConstants DEF BookConstants, AdmittedStatus
  <2>3. intents' = Append(intents, e) BY <1>3, <1>5
  <2> HIDE DEF e, d, c
  <2>4. /\ Len(intents') = n + 1 /\ DOMAIN intents' = 1 .. (n + 1) /\ intents'[n + 1] = e
        /\ \A j \in 1 .. n : intents'[j] = intents[j]
        /\ n \in Nat /\ DOMAIN intents = 1 .. n
    BY <1>1, <2>1, <2>3, QueueShape, AppendProperties
  <2>5. UNCHANGED pos BY <1>3 DEF books
  <2>6. \A i \in 1 .. n : intents[i].dep \in Deployments /\ intents[i].candle \in Candles
    BY <1>1, <2>4, QueueShape DEF Intents
  <2>7. \A i \in 1 .. n : intents[i].dep = d => intents[i].candle < c
    <3> SUFFICES ASSUME NEW i \in 1 .. n, intents[i].dep = d PROVE intents[i].candle < c OBVIOUS
    <3>1. intents[i].candle <= lastClose[d] BY <2>4 DEF CardInv, IntentsArePast
    <3>2. lastClose[d] \in Int /\ intents[i].candle \in Int /\ c \in Int
      BY <1>1, <1>2, <2>6 DEF LeaseTypeOK, Candles
    <3>3. QED BY <1>2, <3>1, <3>2
  <2>8. IntentsArePast'
    <3> SUFFICES ASSUME NEW i \in 1 .. (n + 1)
                 PROVE  intents'[i].candle <= lastClose'[intents'[i].dep]
      BY <2>4 DEF IntentsArePast
    <3>1. CASE i = n + 1 BY <1>2, <2>2, <2>4, <3>1 DEF Candles
    <3>2. CASE i \in 1 .. n
      <4>1. intents'[i] = intents[i] /\ intents[i].candle <= lastClose[intents[i].dep]
        BY <2>4, <3>2 DEF CardInv, IntentsArePast
      <4>2. CASE intents[i].dep = d
        <5>1. intents[i].candle < c /\ intents[i].candle \in Int /\ c \in Int
          BY <1>2, <2>6, <2>7, <3>2, <4>2 DEF Candles
        <5>2. QED BY <1>2, <4>1, <4>2, <5>1
      <4>3. CASE intents[i].dep # d BY <1>2, <2>6, <3>2, <4>1, <4>3
      <4>4. QED BY <4>2, <4>3
    <3>3. QED BY <2>4, <3>1, <3>2
  <2>9. IntentsInCandleOrder'
    <3> SUFFICES ASSUME NEW i \in 1 .. (n + 1), NEW j \in 1 .. (n + 1), i < j,
                        intents'[i].dep = intents'[j].dep
                 PROVE  intents'[i].candle < intents'[j].candle
      BY <2>4 DEF IntentsInCandleOrder
    <3>1. i \in 1 .. n /\ (j \in 1 .. n \/ j = n + 1) BY <2>4
    <3>2. CASE j \in 1 .. n BY <2>4, <3>1, <3>2 DEF CardInv, IntentsInCandleOrder
    <3>3. CASE j = n + 1 BY <2>2, <2>4, <2>7, <3>1, <3>3
    <3>4. QED BY <3>1, <3>2, <3>3
  <2>10. /\ StagesInv' /\ SawTheBook(w)'
         /\ \A v \in Workers \ {w} : held'[v] = held[v] /\ stage'[v] = stage[v] /\ view'[v] = view[v]
    BY EndingStages DEF CommitCycle
  <2>11. \A x \in Deployments : HoldsFor(x)' = HoldsFor(x) BY <2>5 DEF HoldsFor, HoldingOf
  <2>12. ASSUME NEW x \in Deployments, x # d \/ e.status # "pending"
         PROVE  /\ PendingOrders(x)' = PendingOrders(x)
                /\ \A i \in PendingOrders(x) : intents'[i] = intents[i]
    <3>1. \A i : i \in PendingOrders(x)' <=> i \in PendingOrders(x)
      BY <2>2, <2>4, <2>12 DEF PendingOrders
    <3>2. \A i \in PendingOrders(x) : intents'[i] = intents[i] BY <2>4 DEF PendingOrders
    <3>3. QED BY <3>1, <3>2
  <2>13. ASSUME NEW x \in Deployments, x # d \/ e.status # "pending"
         PROVE  /\ Cardinality(PendingOrders(x)') <= 1
                /\ \A i \in PendingOrders(x)' :
                     /\ (intents'[i].action = "sell") = HoldsFor(x)'
                     /\ Modes[x] = "paper" /\ intents'[i].timing = "next_candle_open"
    <3>1. PendingOrders(x)' \subseteq PendingOrders(x) BY <2>12, <2>13
    <3>2. \A i \in PendingOrders(x)' : intents'[i] = intents[i] /\ HoldsFor(x)' = HoldsFor(x)
      BY <2>11, <2>12, <2>13
    <3>3. BookTypeOK /\ OneOpenOrder /\ PendingOnPaper BY <1>1 DEF CardInv
    <3>4. QED BY <3>1, <3>2, <3>3, OrdersStay
  <2>14. ASSUME NEW v \in Workers \ {w}, TokenIsCurrent(v),
                held[v].dep # d \/ e.status # "pending"
         PROVE  SawTheBook(v)'
    <3>1. SawTheBook(v) BY DEF CardInv, HolderSawTheBook
    <3>2. held[v].dep \in Deployments BY <1>1, <2>14, BusyHoldsLease DEF TokenIsCurrent
    <3>3. PICK x \in Deployments : x = held[v].dep BY <3>2
    <3>4. PendingOrders(x)' = PendingOrders(x) /\ HoldsFor(x)' = HoldsFor(x)
      BY <2>11, <2>12, <2>14, <3>3
    <3>5. held'[v] = held[v] /\ stage'[v] = stage[v] /\ view'[v] = view[v] BY <2>10
    <3>6. PendingOrders(held[v].dep)' = PendingOrders(held[v].dep)
          /\ HoldsFor(held[v].dep)' = HoldsFor(held[v].dep)
      BY <3>3, <3>4, <3>5
    <3>7. QED BY <2>14, <3>1, <3>5, <3>6, StillSaw
  <2>15. ASSUME NEW v \in Workers \ {w}, ~TokenIsCurrent(v) PROVE SawTheBook(v)'
    <3>1. ~TokenIsCurrent(v)' BY <1>2, <2>10, <2>15 DEF TokenIsCurrent, Busy
    <3>2. QED BY <3>1 DEF SawTheBook
  <2>16. CASE e.status # "pending"
    <3>1. OneOpenOrder' /\ PendingOnPaper'
      BY <2>13, <2>16 DEF OneOpenOrder, PendingOnPaper, HoldsFor
    <3>2. \A v \in Workers : SawTheBook(v)' BY <2>10, <2>14, <2>15, <2>16
    <3>3. QED BY <2>8, <2>9, <2>10, <3>1, <3>2 DEF CycleInv, HolderSawTheBook
  <2>17. CASE e.status = "pending"
    <3>1. Modes[d] = "paper" /\ IsPaper(w) BY <2>2, <2>17 DEF IsPaper, d
    <3>2. PendingOrders(d) = {} /\ view[w].holding = HoldsFor(d)
      BY <1>2, <3>1 DEF CardInv, HolderSawTheBook, SawTheBook, d
    <3>3. PICK x \in Deployments : x = d BY <1>2
    <3>4. PendingOrders(x)' = {n + 1}
      <4>1. \A i \in 1 .. n : ~(intents[i].dep = x /\ intents[i].status = "pending")
        BY <2>4, <3>2, <3>3 DEF PendingOrders
      <4>2. \A i : i \in PendingOrders(x)' <=> i = n + 1
        BY <2>2, <2>4, <2>17, <3>3, <4>1 DEF PendingOrders
      <4>3. QED BY <4>2
    <3>5. /\ Cardinality(PendingOrders(x)') <= 1
          /\ \A i \in PendingOrders(x)' :
               /\ (intents'[i].action = "sell") = HoldsFor(x)'
               /\ Modes[x] = "paper" /\ intents'[i].timing = "next_candle_open"
      <4>1. Cardinality({n + 1}) = 1 BY FS_Singleton
      <4>2. HoldsFor(x)' = HoldsFor(d) BY <2>11, <3>3
      <4>3. (intents'[n + 1].action = "sell") = HoldsFor(x)' BY <2>2, <2>4, <3>2, <4>2
      <4>4. intents'[n + 1].timing = "next_candle_open" BY <2>2, <2>4
      <4>5. QED BY <3>1, <3>3, <3>4, <4>1, <4>3, <4>4
    <3>6. OneOpenOrder' /\ PendingOnPaper'
      BY <2>13, <3>3, <3>5 DEF OneOpenOrder, PendingOnPaper, HoldsFor
    <3>7. ASSUME NEW v \in Workers \ {w}, TokenIsCurrent(v) PROVE held[v].dep # d
      <4> SUFFICES ASSUME held[v].dep = d PROVE FALSE OBVIOUS
      <4>1. Busy(v) /\ token[d] = held[v].token BY <3>7 DEF TokenIsCurrent
      <4>2. Busy(w) /\ token[d] = held[w].token /\ held[w].dep = d BY <1>2 DEF TokenIsCurrent, d
      <4>3. held[w].token # held[v].token BY <4>1, <4>2 DEF CardInv, LeaseInv, TokensDiffer
      <4>4. QED BY <4>1, <4>2, <4>3
    <3>8. \A v \in Workers : SawTheBook(v)' BY <2>10, <2>14, <2>15, <3>7
    <3>9. QED BY <2>8, <2>9, <2>10, <3>6, <3>8 DEF CycleInv, HolderSawTheBook
  <2>18. QED BY <2>16, <2>17
<1>6. QED BY <1>3, <1>4, <1>5

\* A cycle that ends without a commit: nothing but the worker's own memory moves.
LEMMA EndingSight ==
  ASSUME CardInv, NEW w \in Workers, CycleEnds(w), ForgetLease(w),
         UNCHANGED <<bookVars, lastClose, token>>
  PROVE  CycleInv'
BY EndingStages, OwnCycleStep

\* The end of a cycle, whichever way it ends.
LEMMA CompleteSight ==
  ASSUME CardInv, NEW w \in Workers, Complete(w) \/ Abandon(w)
  PROVE  CycleInv'
<1>1. CycleEnds(w) BY DEF Complete, Abandon
<1>2. CASE Abandon(w) \/ (Complete(w) /\ CommitNothing(w))
  BY <1>1, <1>2, EndingSight DEF Abandon, CommitNothing, Defer, Fail, Crash, CommitDuplicate,
     CommitFenced, rows
<1>3. CASE CommitHold(w) \/ CommitBlocked(w)
  BY <1>1, <1>3, CommitAlone DEF CommitHold, CommitBlocked
<1>4. CASE Complete(w) /\ CommitEntry(w)
  <2>1. view[w].holding = FALSE
    <3>1. view[w].holding \in BOOLEAN BY DEF CardInv, StagesInv
    <3>2. QED BY <1>4, <3>1 DEF CommitEntry
  <2>2. QED BY <1>1, <1>4, <2>1, CommitOrder DEF CommitEntry, Complete, Actions
<1>5. CASE Complete(w) /\ CommitExit(w)
  <2>1. view[w].holding = TRUE
    <3>1. view[w].holding \in BOOLEAN BY DEF CardInv, StagesInv
    <3>2. QED BY <1>5, <3>1 DEF CommitExit
  <2>2. QED BY <1>1, <1>5, <2>1, CommitOrder DEF CommitExit, Complete, Actions
<1>6. QED BY <1>2, <1>3, <1>4, <1>5 DEF Complete

\* Custody drops entries and restricts, but neither fills nor adds an order.
LEMMA CustodySight ==
  ASSUME CardInv, Custody, BookTypeOK'
  PROVE  CycleInv'
<1>1. BookInv /\ BookTypeOK BY DEF CardInv, IntentInv, BookInv
<1>2. CustodyMoves /\ UNCHANGED <<token, held, lastClose, stage, view>>
  BY DEF Custody, CustodyMoves
<1>3. UNCHANGED books BY <1>1, <1>2, CustodyStep
<1>4. EmptyQueue \/ UNCHANGED intents
  BY <1>2 DEF CustodyMoves, StopBegins, StopRestricts, StopEmptiesQueue, StopCommits, StopLifted,
     MembershipLapses, Reconcile, Activate, Freeze, Restore
<1>5. /\ DOMAIN intents' = DOMAIN intents
      /\ \A j \in DOMAIN intents : Decision(intents'[j]) = Decision(intents[j])
      /\ \A j \in DOMAIN intents : intents'[j].status = "pending" => intents'[j] = intents[j]
  <2>1. CASE EmptyQueue
    <3>1. \A j \in DOMAIN intents : intents[j] \in Intents BY <1>1, QueueShape
    <3>2. \A j \in DOMAIN intents : intents'[j].status = "pending" => intents'[j] = intents[j]
      BY <2>1, <3>1 DEF EmptyQueue, RejectPendingBuys, Intents
    <3>3. QED BY <1>1, <2>1, <3>2, EmptyKeepsDecisions
  <2>2. QED BY <1>4, <2>1
<1>6. \A x \in Deployments : HoldsFor(x)' = HoldsFor(x) BY <1>3 DEF books, HoldsFor, HoldingOf
<1>7. ASSUME NEW x \in Deployments
      PROVE  /\ PendingOrders(x)' \subseteq PendingOrders(x)
             /\ \A i \in PendingOrders(x)' : intents'[i] = intents[i]
  BY <1>5 DEF PendingOrders
<1>8. IntentsArePast' /\ IntentsInCandleOrder' BY <1>2, <1>5, SameDecisions
<1>9. OneOpenOrder' /\ PendingOnPaper'
  <2>1. ASSUME NEW x \in Deployments
        PROVE  /\ Cardinality(PendingOrders(x)') <= 1
               /\ \A i \in PendingOrders(x)' :
                    /\ (intents'[i].action = "sell") = HoldsFor(x)'
                    /\ Modes[x] = "paper" /\ intents'[i].timing = "next_candle_open"
    <3>1. BookTypeOK /\ OneOpenOrder /\ PendingOnPaper BY <1>1 DEF CardInv
    <3>2. /\ PendingOrders(x)' \subseteq PendingOrders(x)
          /\ \A i \in PendingOrders(x)' : intents'[i] = intents[i] /\ HoldsFor(x)' = HoldsFor(x)
      BY <1>6, <1>7
    <3>3. QED BY <3>1, <3>2, OrdersStay
  <2>2. QED BY <2>1 DEF OneOpenOrder, PendingOnPaper, HoldsFor
<1>10. StagesInv' BY <1>2 DEF CardInv, StagesInv, Busy
<1>11. ASSUME NEW v \in Workers PROVE SawTheBook(v)'
  <2>1. SawTheBook(v) BY DEF CardInv, HolderSawTheBook
  <2>2. held'[v] = held[v] /\ stage'[v] = stage[v] /\ view'[v] = view[v]
        /\ (TokenIsCurrent(v)' => TokenIsCurrent(v))
    BY <1>2 DEF TokenIsCurrent, Busy
  <2>3. ASSUME TokenIsCurrent(v), PendingOrders(held[v].dep) = {}
        PROVE  PendingOrders(held[v].dep)' = {} /\ HoldsFor(held[v].dep)' = HoldsFor(held[v].dep)
    <3>1. held[v].dep \in Deployments BY <2>3, BusyHoldsLease DEF TokenIsCurrent, CardInv, LeaseInv
    <3>2. PICK x \in Deployments : x = held[v].dep BY <3>1
    <3>3. PendingOrders(x)' = {} /\ HoldsFor(x)' = HoldsFor(x) BY <1>6, <1>7, <2>3, <3>2
    <3>4. QED BY <2>2, <3>2, <3>3
  <2>4. QED BY <2>1, <2>2, <2>3, StillSaw
<1>12. QED BY <1>8, <1>9, <1>10, <1>11 DEF CycleInv, HolderSawTheBook

\* Every step keeps what ties the lease and the book together.
LEMMA CycleStep ==
  ASSUME CardInv, [Next]_vars, BookTypeOK'
  PROVE  CycleInv'
<1>1. ASSUME NEW w \in Workers, WorkerStep(w) PROVE CycleInv'
  <2>1. ASSUME NEW d \in Deployments, Acquire(w, d), UNCHANGED <<bookVars, stage, view>>
        PROVE  CycleInv'
    BY <2>1, AcquireSight
  <2>2. CASE Renew(w) /\ UNCHANGED <<bookVars, stage, view>> BY <2>2, KeepsSight DEF Renew
  <2>3. CASE SelectCandle(w) BY <2>3, SelectSight
  <2>4. CASE SettleAtOpen(w) BY <2>4, SettleSight
  <2>5. CASE ReadAccess(w) \/ ReadPosition(w) BY <2>5, ReadSight
  <2>6. CASE Complete(w) \/ Abandon(w) BY <2>6, CompleteSight
  <2>7. QED BY <1>1, <2>1, <2>2, <2>3, <2>4, <2>5, <2>6 DEF WorkerStep, LeaseKeeping
<1>2. ASSUME NEW d \in Deployments, Follow(d) \/ PauseCard(d) PROVE CycleInv'
  BY <1>2, KeepsSight DEF Follow, PauseCard, Pause
<1>3. CASE Time BY <1>3, KeepsSight DEF Time, CandleCloses, Age, rows
<1>4. CASE Custody BY <1>4, CustodySight
<1>5. CASE UNCHANGED vars BY <1>5, KeepsSight DEF vars, leaseVars, rows
<1>6. QED BY <1>1, <1>2, <1>3, <1>4, <1>5 DEF Next

-----------------------------------------------------------------------------
(* What the holder fills *)

\* A settlement under the row's current token fills nothing at an open before the close at
\* which it was decided. NoLookAhead fails only through a worker that lost its lease.
HolderLooksBack ==
  \A w \in Workers : SettleAtOpen(w) /\ TokenIsCurrent(w) =>
    \A r \in DOMAIN ledger' \ DOMAIN ledger :
      ledger'[r].at >= intents[ledger'[r].entry].candle

\* The holder's candle comes after every candle its deployment decided.
LEMMA HolderIsAhead ==
  ASSUME CardInv, NEW w \in Workers, SettleAtOpen(w), TokenIsCurrent(w),
         NEW i \in DOMAIN intents, intents[i].dep = held[w].dep
  PROVE  intents[i].candle <= OpenTime(held[w].candle)
<1>1. held[w].candle # 0 BY DEF CardInv, StagesInv, SettleAtOpen
<1>2. LeaseTypeOK /\ BookTypeOK BY DEF CardInv, LeaseInv, IntentInv, BookInv
<1>3. held[w].last \in Int /\ held[w].candle \in Int
  BY <1>2, BusyHoldsLease DEF TokenIsCurrent
<1>4. intents[i].candle \in Int BY <1>2, QueueShape DEF Intents, Candles
<1>5. held[w].last = lastClose[held[w].dep] /\ held[w].last < held[w].candle
  BY <1>1 DEF CardInv, LeaseInv, HolderViewIsFresh, HeldIsPast, TokenIsCurrent
<1>6. intents[i].candle <= lastClose[held[w].dep] BY DEF CardInv, IntentsArePast
<1>7. QED BY <1>3, <1>4, <1>5, <1>6 DEF OpenTime

\* Only a fill adds a row, and the row has the time of the settlement.
LEMMA RowsOfSettlement ==
  ASSUME BookTypeOK, NEW d \in Deployments, NEW timing, NEW at, Settle(d, timing, at),
         NEW r \in DOMAIN ledger' \ DOMAIN ledger
  PROVE  \E i \in DOMAIN intents :
           intents[i].dep = d /\ ledger'[r].entry = i /\ ledger'[r].at = at
<1>1. ledger' # ledger OBVIOUS
<1>2. PICK i \in Pending(d, timing), allowed \in EntriesAllowed, price \in Prices :
        SettleFill(i, price, at, allowed)
  BY <1>1 DEF Settle, SettleNothing, SettleReject, bookVars, books
<1>3. i \in DOMAIN intents /\ intents[i].dep = d BY DEF Pending
<1>4. PICK amount : ledger' = LedgerRow(i, amount, at) BY <1>2 DEF SettleFill, FillBuy, FillSell
<1>5. PICK row : ledger' = Append(ledger, row) /\ row.entry = i /\ row.at = at
  BY <1>4 DEF LedgerRow
<1>6. DOMAIN ledger = 1 .. Len(ledger) /\ Len(ledger) \in Nat BY QueueShape
<1>7. DOMAIN ledger' = 1 .. Len(ledger) + 1 /\ ledger'[Len(ledger) + 1] = row
  BY <1>5, QueueShape
<1>8. r = Len(ledger) + 1 BY <1>6, <1>7
<1>9. QED BY <1>3, <1>5, <1>7, <1>8

-----------------------------------------------------------------------------
(* Who leaves a position unmanaged *)

\* Only an active deployment is leased: pausing and switching modes clear the lease.
LeasesAreOfActive == \A d \in Deployments : owner[d] # NoWorker => status[d] = "active"

\* A step after which nobody manages the position is a settlement by a worker that lost its
\* lease. PositionIsManaged fails only that way.
OnlyLosersOrphan ==
  PositionIsManaged /\ ~PositionIsManaged' => \E w \in Workers : SettleAtOpen(w) /\ ~Owns(w)

\* A worker's step leaves the statuses and leases at most an active deployment.
LEMMA WorkersLeaseActive ==
  ASSUME LeaseTypeOK, LeasesAreOfActive, NEW w \in Workers, WorkerStep(w)
  PROVE  status' = status /\ LeasesAreOfActive'
<1>1. ASSUME status' = status,
             \A d \in Deployments : owner'[d] \in {owner[d], NoWorker} \/ status[d] = "active"
      PROVE  status' = status /\ LeasesAreOfActive'
  BY <1>1 DEF LeasesAreOfActive
<1>2. ASSUME NEW d \in Deployments, ClearLease(d)
      PROVE  \A e \in Deployments : owner'[e] \in {owner[e], NoWorker}
  BY <1>2 DEF ClearLease, LeaseTypeOK
<1>3. Busy(w) => held[w].dep \in Deployments BY BusyHoldsLease
<1>4. CASE LeaseKeeping(w)
  BY <1>1, <1>4 DEF LeaseKeeping, Acquire, Renew, Leasable, LeaseTypeOK
<1>5. CASE SelectCandle(w) BY <1>1, <1>5 DEF SelectCandle, Select, rows
<1>6. CASE SettleAtOpen(w) \/ ReadAccess(w) \/ ReadPosition(w)
  BY <1>1, <1>6 DEF SettleAtOpen, ReadAccess, ReadPosition, leaseVars, rows
<1>7. CASE Complete(w)
  <2>1. \/ \E persisted \in BOOLEAN : CommitCycle(w, persisted)
        \/ CommitDuplicate(w) \/ CommitFenced(w)
    BY <1>7 DEF Complete, CommitHold, CommitBlocked, CommitEntry, CommitExit, CommitNothing
  <2>2. /\ Busy(w) /\ status' = status
        /\ ClearLease(held[w].dep) \/ UNCHANGED owner
    BY <2>1 DEF CommitCycle, CommitDuplicate, CommitFenced, ReleaseIfOwned
  <2>3. QED BY <1>1, <1>2, <1>3, <2>2
<1>8. CASE Abandon(w)
  <2>1. /\ Busy(w) /\ status' = status
        /\ ClearLease(held[w].dep) \/ UNCHANGED owner
    BY <1>8 DEF Abandon, Defer, Fail, Crash, ReleaseIfOwned, rows
  <2>2. QED BY <1>1, <1>2, <1>3, <2>1
<1>9. QED BY <1>4, <1>5, <1>6, <1>7, <1>8 DEF WorkerStep

\* Whoever takes a deployment out of activity clears its lease.
LEMMA ActiveStep == LeaseTypeOK /\ LeasesAreOfActive /\ [Next]_vars => LeasesAreOfActive'
<1> SUFFICES ASSUME LeaseTypeOK, LeasesAreOfActive, [Next]_vars PROVE LeasesAreOfActive'
  OBVIOUS
<1>1. ASSUME NEW w \in Workers, WorkerStep(w) PROVE LeasesAreOfActive'
  BY <1>1, WorkersLeaseActive
<1>2. ASSUME NEW d \in Deployments, Follow(d) PROVE LeasesAreOfActive'
  <2> SUFFICES ASSUME NEW e \in Deployments, owner'[e] # NoWorker PROVE status'[e] = "active"
    BY DEF LeasesAreOfActive
  <2>1. e \notin Others(d) \cup {d} /\ owner'[e] = owner[e] BY <1>2 DEF Follow
  <2>2. status'[e] = status[e] BY <1>2, <2>1 DEF Follow
  <2>3. QED BY <2>1, <2>2 DEF LeasesAreOfActive
<1>3. ASSUME NEW d \in Deployments, PauseCard(d) PROVE LeasesAreOfActive'
  BY <1>3 DEF PauseCard, Pause, ClearLease, LeasesAreOfActive, LeaseTypeOK
<1>4. CASE Time \/ Custody \/ UNCHANGED vars
  BY <1>4 DEF Time, CandleCloses, Age, Custody, LeasesAreOfActive, vars, leaseVars, rows
<1>5. QED BY <1>1, <1>2, <1>3, <1>4 DEF Next

-----------------------------------------------------------------------------
(* Theorems *)

\* Nothing is leased, queued or read at the start.
LEMMA CardInit == Init => CardInv
<1> SUFFICES ASSUME Init PROVE CardInv OBVIOUS
<1>1. LeaseInv /\ IntentInv BY InvInit, IntentInit DEF Init
<1>2. intents = <<>> BY DEF Init, BookInit
<1>3. DOMAIN intents = {} BY <1>2
<1>4. \A d \in Deployments : PendingOrders(d) = {} BY <1>3 DEF PendingOrders
<1>5. BookTypeOK BY <1>1 DEF IntentInv, BookInv
<1>6. OneOpenOrder /\ PendingOnPaper BY <1>4, <1>5, NonePending
<1>7. IntentsArePast /\ IntentsInCandleOrder BY <1>3 DEF IntentsArePast, IntentsInCandleOrder
<1>8. StagesInv BY DEF Init, StagesInv, Stages, Unread, Accesses
<1>9. HolderSawTheBook BY DEF Init, HolderSawTheBook, SawTheBook
<1>10. QED BY <1>1, <1>6, <1>7, <1>8, <1>9 DEF CardInv

\* The invariant of the composition is inductive.
LEMMA CardStep == CardInv /\ [Next]_vars => CardInv'
<1> SUFFICES ASSUME CardInv, [Next]_vars PROVE CardInv' OBVIOUS
<1>1. LeaseInv' BY LeaseKept DEF CardInv
<1>2. IntentInv' BY BookSide, IntentStep DEF CardInv, LeaseInv
<1>3. CycleInv' BY <1>2, CycleStep DEF IntentInv, BookInv
<1>4. QED BY <1>1, <1>2, <1>3 DEF CardInv, CycleInv

\* Whatever two, or any number of workers of a card do to one another.
THEOREM CardInvariant == Spec => []CardInv
BY CardInit, CardStep, PTL DEF Spec

\* Types of the lease, of the book and of the cycle between them.
THEOREM RuntimeTypes == Spec => []TypeOK
<1>1. CardInv => TypeOK BY DEF CardInv, LeaseInv, IntentInv, BookInv, StagesInv, TypeOK
<1>2. QED BY <1>1, CardInvariant, PTL

\* A worker that lost its lease never queues a decision behind one for a later candle.
THEOREM IntentsStayInOrder == Spec => []IntentsInCandleOrder
<1>1. CardInv => IntentsInCandleOrder BY DEF CardInv
<1>2. QED BY <1>1, CardInvariant, PTL

\* The decision made from an unlocked read never doubles an order, adds to a position or
\* sells what is not held.
THEOREM OneOrderIsOpen == Spec => []OneOpenOrder
<1>1. CardInv => OneOpenOrder BY DEF CardInv
<1>2. QED BY <1>1, CardInvariant, PTL

\* The promises of the lease and of the book hold of their composition, settlements without
\* a token and switches of modes included.
THEOREM PartsHoldOfTheCycle ==
  Spec =>
    [](/\ DecidedOnce /\ HolderViewIsFresh
       /\ BooksBalance /\ LedgerRuns /\ FilledOnce /\ StopDropsEntries)
<1>1. CardInv => /\ DecidedOnce /\ HolderViewIsFresh
                 /\ BooksBalance /\ LedgerRuns /\ FilledOnce /\ StopDropsEntries
  BY FilledOnceFollows DEF CardInv, LeaseInv, IntentInv, BookInv
<1>2. QED BY <1>1, CardInvariant, PTL

\* No cycle of any worker buys under a stop or after the membership, or is refused an exit.
THEOREM CustodyHoldsOfTheCycle == Spec => NoEntryWhileRestricted /\ ExitNeverRefused
<1>1. CardInv /\ [Next]_vars => [RefusesNoExit]_bookVars /\ [GrowsOnlyUnrestricted]_bookVars
  BY BookSide, RefusesNoExitStep, GrowsOnlyUnrestrictedStep DEF CardInv, LeaseInv, IntentInv
<1>2. QED BY <1>1, CardInvariant, PTL
      DEF Spec, NoEntryWhileRestricted, ExitNeverRefused, RefusesNoExit, GrowsOnlyUnrestricted

\* No worker's step in a cycle gives up a lease that is not its own; a switch of modes, which
\* clears leases, is the customer's.
THEOREM LeasesAreTheirOwn == Spec => ReleaseOnlyOwnLease
<1>1. CardInv /\ [Next]_vars =>
        [\A d \in Deployments :
           owner[d] # NoWorker /\ owner'[d] = NoWorker /\ held' # held
             => /\ Busy(owner[d])
                /\ held[owner[d]].dep = d
                /\ held[owner[d]].token = token[d]
                /\ held'[owner[d]] = NoLease]_leaseVars
  BY LeaseSide, ReleaseStep DEF CardInv, LeaseAside
<1>2. QED BY CardInvariant, <1>1, PTL DEF Spec, ReleaseOnlyOwnLease

\* The composed runtime implements the append-only candle log too.
THEOREM CycleRefinesCandleLog == Spec => ImplementsCandleLog
<1>1. CardInv /\ [Next]_vars => [Log!Next]_(Log!vars)
  <2>1. LeaseAside => UNCHANGED Log!vars BY DEF LeaseAside, Log!vars
  <2>2. QED BY <2>1, LeaseSide, LogStep DEF CardInv
<1>2. Init => Log!Init BY DEF Init, LeaseInit, Log!Init
<1>3. QED BY <1>1, <1>2, CardInvariant, PTL DEF Spec, ImplementsCandleLog, Log!Spec

\* A fill at the open of the very candle that decided it needs a worker that lost its lease:
\* under the current token a signal confirmed at a close fills at the open that follows it,
\* or at a later one.
THEOREM HolderFillsInTime == Spec => [][HolderLooksBack]_vars
<1>1. CardInv /\ [Next]_vars => [HolderLooksBack]_vars
  <2> SUFFICES ASSUME CardInv, NEW w \in Workers, SettleAtOpen(w), TokenIsCurrent(w),
                      NEW r \in DOMAIN ledger' \ DOMAIN ledger
               PROVE  ledger'[r].at >= intents[ledger'[r].entry].candle
    BY DEF HolderLooksBack
  <2>1. LeaseTypeOK /\ BookTypeOK BY DEF CardInv, LeaseInv, IntentInv, BookInv
  <2>2. held[w].dep \in Deployments /\ held[w].candle \in Int
    BY <2>1, BusyHoldsLease DEF TokenIsCurrent
  <2>3. PICK i \in DOMAIN intents : /\ intents[i].dep = held[w].dep
                                   /\ ledger'[r].entry = i
                                   /\ ledger'[r].at = OpenTime(held[w].candle)
    BY <2>1, <2>2, RowsOfSettlement DEF SettleAtOpen
  <2>4. intents[i].candle <= OpenTime(held[w].candle) BY <2>3, HolderIsAhead
  <2>5. intents[i].candle \in Int BY <2>1, QueueShape DEF Intents, Candles
  <2>6. QED BY <2>2, <2>3, <2>4, <2>5 DEF OpenTime
<1>2. QED BY <1>1, CardInvariant, PTL DEF Spec

\* No deployment is leased at the start, and only active ones are later.
LEMMA ActiveIsLeased == Spec => []LeasesAreOfActive
<1>1. Init => LeasesAreOfActive BY DEF Init, LeaseInit, LeasesAreOfActive
<1>2. CardInv => LeaseTypeOK BY DEF CardInv, LeaseInv
<1>3. QED BY <1>1, <1>2, ActiveStep, CardInvariant, PTL DEF Spec

\* A position without a deployment needs a worker that lost its lease: a switch of symbol or
\* mode that read no position ended the deployment under it, and it filled all the same.
THEOREM OrphansAreOfLosers == Spec => [][OnlyLosersOrphan]_vars
<1>1. CardInv /\ LeasesAreOfActive /\ [Next]_vars => [OnlyLosersOrphan]_vars
  <2> SUFFICES ASSUME CardInv, LeasesAreOfActive, [Next]_vars,
                      PositionIsManaged, ~PositionIsManaged'
               PROVE  \E w \in Workers : SettleAtOpen(w) /\ ~Owns(w)
    BY DEF OnlyLosersOrphan
  <2>1. LeaseTypeOK BY DEF CardInv, LeaseInv
  <2>2. PICK d \in Deployments : Modes[d] = "paper" /\ HoldsFor(d)' /\ status'[d] = "ended"
    BY DEF PositionIsManaged, HoldsFor
  <2>3. HoldsFor(d) => status[d] # "ended" BY <2>2 DEF PositionIsManaged, HoldsFor
  <2>4. ASSUME pos' = pos PROVE HoldsFor(d)' = HoldsFor(d) /\ (HoldsFor(d) => Holding)
    <3>1. SymbolOf[d] \in Symbols BY BookConstants DEF BookConstants
    <3>2. QED BY <2>4, <3>1 DEF HoldsFor, HoldingOf, Holding
  <2>5. ASSUME pos' = pos, status' = status PROVE FALSE
    BY <2>2, <2>3, <2>4, <2>5
  <2>6. ASSUME NEW e \in Deployments, Follow(e) PROVE FALSE
    <3>1. pos' = pos BY <2>6 DEF Follow, bookVars, books
    <3>2. HoldsFor(d) /\ Holding BY <2>2, <2>4, <3>1
    <3>3. Others(e) = {} BY <2>6, <3>2 DEF Follow, MaySwitch
    <3>4. status' = [x \in Deployments |-> IF x = e THEN "active" ELSE status[x]]
      BY <2>6, <3>3 DEF Follow
    <3>5. QED BY <2>2, <2>3, <3>2, <3>4
  <2>7. ASSUME NEW e \in Deployments, PauseCard(e) PROVE FALSE
    <3>1. pos' = pos BY <2>7 DEF PauseCard, bookVars, books
    <3>2. status[d] # "ended" BY <2>2, <2>3, <2>4, <3>1
    <3>3. status'[d] # "ended" BY <2>1, <2>7, <3>2 DEF PauseCard, Pause, LeaseTypeOK
    <3>4. QED BY <2>2, <3>3
  <2>8. ASSUME NEW w \in Workers, WorkerStep(w), ~SettleAtOpen(w) PROVE FALSE
    <3>1. status' = status BY <2>1, <2>8, WorkersLeaseActive
    <3>2. pos' = pos
      BY <2>8 DEF WorkerStep, LeaseKeeping, SelectCandle, ReadAccess, ReadPosition, Complete,
         CommitHold, CommitBlocked, CommitEntry, CommitExit, CommitNothing, Abandon, Admit,
         bookVars, books
    <3>3. QED BY <2>5, <3>1, <3>2
  <2>9. ASSUME Time \/ UNCHANGED vars PROVE FALSE
    BY <2>5, <2>9 DEF Time, CandleCloses, Age, vars, leaseVars, rows, bookVars, books
  <2>10. ASSUME Custody PROVE FALSE
    <3>1. status' = status BY <2>10 DEF Custody
    <3>2. CustodyMoves BY <2>10 DEF Custody, CustodyMoves
    <3>3. UNCHANGED books BY <3>2, CustodyStep DEF CardInv, IntentInv
    <3>4. QED BY <2>5, <3>1, <3>3 DEF books
  <2>11. PICK w \in Workers : SettleAtOpen(w) BY <2>6, <2>7, <2>8, <2>9, <2>10 DEF Next
  <2>12. status' = status BY <2>11 DEF SettleAtOpen, leaseVars, rows
  <2>13. ~HoldsFor(d) /\ HoldsFor(d)' /\ status[d] = "ended" BY <2>2, <2>3, <2>12
  <2>14. held[w].dep \in Deployments
    BY <2>1, <2>11, BusyHoldsLease DEF SettleAtOpen
  <2>15. held[w].dep = d
    <3> SUFFICES ASSUME held[w].dep # d PROVE FALSE OBVIOUS
    <3>1. PICK e \in Deployments : e = held[w].dep BY <2>14
    <3>2. Settle(e, "next_candle_open", OpenTime(held[w].candle)) BY <2>11, <3>1 DEF SettleAtOpen
    <3>3. UNCHANGED bookVars \/ Elsewhere(e) BY <3>2, SettlementClears
    <3>4. HoldsFor(d)' = HoldsFor(d)
      <4>1. CASE UNCHANGED bookVars BY <2>4, <4>1 DEF bookVars, books
      <4>2. CASE Elsewhere(e) BY <2>2, <3>1, <4>2 DEF Elsewhere
      <4>3. QED BY <3>3, <4>1, <4>2
    <3>5. QED BY <2>13, <3>4
  <2>16. owner[held[w].dep] = NoWorker BY <2>13, <2>15 DEF LeasesAreOfActive
  <2>17. ~Owns(w) BY <2>16, LeaseIsNotNoLease DEF Owns
  <2>18. QED BY <2>11, <2>17
<1>2. QED BY <1>1, CardInvariant, ActiveIsLeased, PTL DEF Spec
=============================================================================
