---------------------------- MODULE ReleaseProofs ----------------------------
(* The release target's mutex argument, for every number of crashes. FenceInv *)
(* is the inductive invariant: who holds the environment mutex, what the      *)
(* platform's generation withholds, and what is on file. TargetInv gives the  *)
(* types, of which the length of the journal is the one that needs a reason.  *)
(* And the queue's: QueueInv relates each request's facts to the environment  *)
(* and to what runs, for every number of requests, releases and generations.  *)
EXTENDS ReleaseTarget, ReleaseCommands, SequenceTheorems, FiniteSetTheorems, TLAPS

\* The part of the type the argument needs.
JournalShape == journal \in Seq(Phases) /\ stop \in {"none", "active", "cleared"}

\* Each side acts on the containers, or on the stop, only while it holds the mutex.
MutexHeld ==
  /\ step \in UnderMutex => envLock = "operation"
  /\ stopStep # "idle" => envLock = "stop"

\* Past the fence there is no active stop; a stop the platform knows leaves no authority, and
\* a cleared one is known to the platform.
PastFence == step \in {"probe", "validate", "cutover", "marked"} => stop # "active"
GenerationRaised ==
  /\ stop = "cleared" => platform = "cleared"
  /\ platform # "none" => ~authority

FenceInv == JournalShape /\ MutexHeld /\ PastFence /\ GenerationRaised /\ StopFencesCutover

-----------------------------------------------------------------------------

\* A checkpoint adds its phase to what is journalled and nothing else.
LEMMA CheckpointAdds ==
  ASSUME journal \in Seq(Phases), NEW p \in Phases, Checkpoint(p)
  PROVE  /\ journal' \in Seq(Phases)
         /\ Journalled("cutover_committed")' =>
              Journalled("cutover_committed") \/ p = "cutover_committed"
<1>1. CASE Journalled(p) BY <1>1 DEF Checkpoint, Journalled
<1>2. CASE ~Journalled(p)
  <2>1. journal' = Append(journal, p) BY <1>2 DEF Checkpoint
  <2>2. /\ journal' \in Seq(Phases) /\ Len(journal') = Len(journal) + 1
        /\ journal'[Len(journal) + 1] = p
        /\ \A i \in 1 .. Len(journal) : journal'[i] = journal[i]
    BY <2>1, AppendProperties
  <2>3. DOMAIN journal' = 1 .. Len(journal) + 1 /\ DOMAIN journal = 1 .. Len(journal)
    BY <2>2, LenProperties
  <2>4. ASSUME NEW i \in DOMAIN journal', journal'[i] = "cutover_committed"
        PROVE  Journalled("cutover_committed") \/ p = "cutover_committed"
    <3>1. CASE i \in 1 .. Len(journal) BY <3>1, <2>2, <2>3, <2>4 DEF Journalled
    <3>2. CASE i = Len(journal) + 1 BY <3>2, <2>2, <2>4
    <3>3. QED BY <3>1, <3>2, <2>3, <2>4, LenProperties
  <2>5. QED BY <2>2, <2>4 DEF Journalled
<1>3. QED BY <1>1, <1>2

\* No checkpoint, no change of what is journalled.
LEMMA SameJournal ==
  ASSUME journal \in Seq(Phases), UNCHANGED journal
  PROVE  /\ journal' \in Seq(Phases)
         /\ Journalled("cutover_committed")' => Journalled("cutover_committed")
BY DEF Journalled

\* Ending the operation's own part writes a terminal phase, which is not the committed cutover.
LEMMA EndsAdds ==
  ASSUME journal \in Seq(Phases), NEW p \in Terminal, Ends(p)
  PROVE  /\ journal' \in Seq(Phases) /\ step' = "publish"
         /\ Journalled("cutover_committed")' => Journalled("cutover_committed")
<1>1. p \in Phases /\ p # "cutover_committed" BY DEF Phases, Terminal
<1>2. QED BY <1>1, CheckpointAdds DEF Ends

\* Nobody holds the mutex at the start.
LEMMA FenceInit == TargetInit => FenceInv
BY DEF TargetInit, FenceInv, JournalShape, MutexHeld, PastFence, GenerationRaised,
       StopFencesCutover, Journalled, UnderMutex

\* The operation's handler, one action at a time.
LEMMA FenceOperation ==
  ASSUME FenceInv, OperationStep
  PROVE  FenceInv'
<1> USE DEF FenceInv, JournalShape, MutexHeld, PastFence, GenerationRaised, StopFencesCutover,
            UnderMutex, requestVars
<1>1. CASE Begin BY <1>1, SameJournal DEF Begin
<1>2. CASE Throws BY <1>2, SameJournal DEF Throws, HandlerLeaves
<1>3. CASE Load
  <2>1. CASE Last \in Terminal /\ UNCHANGED journal BY <1>3, <2>1, SameJournal DEF Load
  <2>2. CASE Ends("stop_committed") BY <1>3, <2>2, EndsAdds DEF Load, Terminal
  <2>3. CASE Checkpoint("prepared") BY <1>3, <2>3, CheckpointAdds DEF Load, Phases, Ends
  <2>4. QED BY <1>3, <2>1, <2>2, <2>3 DEF Load
<1>4. CASE ValidateAuthority
  <2>1. CASE UNCHANGED journal BY <1>4, <2>1, SameJournal DEF ValidateAuthority, Ends
  <2>2. CASE \E p \in Terminal : Ends(p) BY <1>4, <2>2, EndsAdds DEF ValidateAuthority
  <2>3. QED BY <1>4, <2>1, <2>2 DEF ValidateAuthority, Terminal
<1>5. CASE PrepareAndBackUp
  <2>1. CASE Checkpoint("applying") BY <1>5, <2>1, CheckpointAdds DEF PrepareAndBackUp, Phases, Ends
  <2>2. CASE Ends("failed_before_cutover") BY <1>5, <2>2, EndsAdds DEF PrepareAndBackUp, Terminal
  <2>3. QED BY <1>5, <2>1, <2>2 DEF PrepareAndBackUp
<1>6. CASE Migrate
  <2>1. CASE UNCHANGED journal BY <1>6, <2>1, SameJournal DEF Migrate, Ends
  <2>2. CASE Ends("uncertain_before_cutover") BY <1>6, <2>2, EndsAdds DEF Migrate, Terminal
  <2>3. QED BY <1>6, <2>1, <2>2 DEF Migrate
<1>7. CASE EnterMutex BY <1>7, SameJournal DEF EnterMutex
<1>8. CASE Fence
  <2>1. CASE Ends("stop_committed") BY <1>8, <2>1, EndsAdds DEF Fence, Terminal
  <2>2. CASE ~StopWins /\ Checkpoint("cutover_intent_durable") /\ step' = "probe"
    BY <1>8, <2>2, CheckpointAdds DEF Fence, StopWins, Phases
  <2>3. QED BY <1>8, <2>1, <2>2 DEF Fence
<1>9. CASE Probe
  <2>1. CASE running = "new" /\ Checkpoint("cutover_committed") /\ step' = "publish_cutover"
    BY <1>9, <2>1, CheckpointAdds DEF Probe, Phases
  <2>2. CASE UNCHANGED journal /\ step' = "validate" BY <1>9, <2>2, SameJournal DEF Probe
  <2>3. CASE Ends("uncertain_before_cutover") BY <1>9, <2>3, EndsAdds DEF Probe, Terminal
  <2>4. QED BY <1>9, <2>1, <2>2, <2>3 DEF Probe
<1>10. CASE ValidateCutover
  <2>1. CASE authority /\ step' = "cutover" /\ UNCHANGED journal
    <3>1. stop # "cleared" /\ stop # "active" BY <1>10, <2>1 DEF ValidateCutover
    <3>2. QED BY <1>10, <2>1, <3>1, SameJournal DEF ValidateCutover
  <2>2. CASE Ends("uncertain_before_cutover") BY <1>10, <2>2, EndsAdds DEF ValidateCutover, Terminal
  <2>3. QED BY <1>10, <2>1, <2>2 DEF ValidateCutover
<1>11. CASE ComposeUp BY <1>11, SameJournal DEF ComposeUp
<1>12. CASE WriteMarker BY <1>12, SameJournal DEF WriteMarker
<1>13. CASE CutoverReturns
  <2>1. CASE Confirmed /\ Checkpoint("cutover_committed") /\ step' = "publish_cutover"
    BY <1>13, <2>1, CheckpointAdds DEF CutoverReturns, Confirmed, Phases
  <2>2. CASE Ends("uncertain_after_cutover") BY <1>13, <2>2, EndsAdds DEF CutoverReturns, Terminal
  <2>3. QED BY <1>13, <2>1, <2>2 DEF CutoverReturns
<1>14. CASE PublishCutover BY <1>14, SameJournal DEF PublishCutover
<1>15. CASE HealthCheck BY <1>15, EndsAdds DEF HealthCheck, Terminal
<1>16. CASE Publish BY <1>16, SameJournal DEF Publish, HandlerLeaves
<1>17. QED BY <1>1, <1>2, <1>3, <1>4, <1>5, <1>6, <1>7, <1>8, <1>9, <1>10, <1>11, <1>12, <1>13,
              <1>14, <1>15, <1>16 DEF OperationStep

\* The stop's handler, the clearing of a stop and the environment.
LEMMA FenceOthers ==
  ASSUME FenceInv,
         StopRequestStep \/ AuthorityLapses \/ Crash \/ RecoverMutex \/ RecoverOperationLock
  PROVE  FenceInv'
<1> USE DEF FenceInv, JournalShape, MutexHeld, PastFence, GenerationRaised, StopFencesCutover,
            UnderMutex, handlerVars, requestVars
<1>1. UNCHANGED <<journal, running>>
  BY DEF StopRequestStep, EnqueueStop, BeginStop, AppendStop, RemovePending, RequestPlatformStop,
         ReceiptOfStop, PlatformUnreachable, AcknowledgeClear, PlatformClears, CommitClear,
         AuthorityLapses, Crash, RecoverMutex, RecoverOperationLock
<1>2. journal' \in Seq(Phases) /\ (Journalled("cutover_committed") => running = "new")'
  BY <1>1, SameJournal
<1>3. CASE EnqueueStop BY <1>2, <1>3 DEF EnqueueStop
<1>4. CASE BeginStop BY <1>2, <1>4 DEF BeginStop
<1>5. CASE AppendStop BY <1>2, <1>5 DEF AppendStop
<1>6. CASE RemovePending BY <1>2, <1>6 DEF RemovePending
<1>7. CASE RequestPlatformStop BY <1>2, <1>7 DEF RequestPlatformStop
<1>8. CASE ReceiptOfStop BY <1>2, <1>8 DEF ReceiptOfStop, StopHandlerLeaves
<1>9. CASE PlatformUnreachable BY <1>2, <1>9 DEF PlatformUnreachable, StopHandlerLeaves
<1>10. CASE AcknowledgeClear BY <1>2, <1>10 DEF AcknowledgeClear
<1>11. CASE PlatformClears BY <1>2, <1>11 DEF PlatformClears
<1>12. CASE CommitClear BY <1>2, <1>12 DEF CommitClear
<1>13. CASE AuthorityLapses BY <1>2, <1>13 DEF AuthorityLapses
<1>14. CASE Crash BY <1>2, <1>14 DEF Crash
<1>15. CASE RecoverMutex BY <1>2, <1>15 DEF RecoverMutex
<1>16. CASE RecoverOperationLock BY <1>2, <1>16 DEF RecoverOperationLock
<1>17. QED BY <1>3, <1>4, <1>5, <1>6, <1>7, <1>8, <1>9, <1>10, <1>11, <1>12, <1>13, <1>14, <1>15,
              <1>16 DEF StopRequestStep

\* Every step of the target.
LEMMA FenceStep == FenceInv /\ [TargetNext]_targetVars => FenceInv'
<1> SUFFICES ASSUME FenceInv, [TargetNext]_targetVars PROVE FenceInv' OBVIOUS
<1>1. CASE OperationStep BY <1>1, FenceOperation
<1>2. CASE StopRequestStep \/ AuthorityLapses \/ Crash \/ RecoverMutex \/ RecoverOperationLock
  BY <1>2, FenceOthers
<1>3. CASE UNCHANGED targetVars
  BY <1>3, SameJournal DEF targetVars, FenceInv, JournalShape, MutexHeld, PastFence,
     GenerationRaised, StopFencesCutover, UnderMutex
<1>4. QED BY <1>1, <1>2, <1>3 DEF TargetNext

\* A committed stop fences the containers, and a committed cutover runs the new release, however
\* often the processes crash (executeRestrictedCicdTargetOperation and ...Stop).
THEOREM StopAlwaysFences == TargetSpec => []StopFencesCutover
<1>1. TargetInit => FenceInv BY FenceInit
<1>2. FenceInv /\ [TargetNext]_targetVars => FenceInv' BY FenceStep
<1>3. FenceInv => StopFencesCutover BY DEF FenceInv
<1>4. QED BY <1>1, <1>2, <1>3, PTL DEF TargetSpec

-----------------------------------------------------------------------------
(* The target's types: the journal is short *)

\* No phase is journalled twice, and a terminal phase is the last one.
InOrder(s) ==
  /\ \A i, j \in 1 .. Len(s) : s[i] = s[j] => i = j
  /\ \A i \in 1 .. Len(s) : s[i] \in Terminal => i = Len(s)

OpenPhases == {"prepared", "applying", "cutover_intent_durable", "cutover_committed"}

\* The handler has work to do: the operation has not ended.
Going == {"authority", "prepare", "migrate", "mutex", "health"} \cup UnderMutex
StillOpen == step \in Going => Last \notin Terminal

TargetInv == TargetTypeOK /\ InOrder(journal) /\ StillOpen

\* At most four phases before the terminal one.
LEMMA ShortJournal ==
  ASSUME NEW s \in Seq(Phases), InOrder(s)
  PROVE  Len(s) <= 5
<1>1. Cardinality(OpenPhases) = 4 /\ IsFiniteSet(OpenPhases)
  <2> DEFINE one == {"prepared"}
             two == one \cup {"applying"}
             three == two \cup {"cutover_intent_durable"}
  <2>1. /\ OpenPhases = three \cup {"cutover_committed"} /\ "applying" \notin one
        /\ "cutover_intent_durable" \notin two /\ "cutover_committed" \notin three
    BY DEF OpenPhases
  <2>2. Cardinality(one) = 1 /\ IsFiniteSet(one) BY FS_Singleton
  <2> HIDE DEF one
  <2>3. Cardinality(two) = 2 /\ IsFiniteSet(two) BY <2>1, <2>2, FS_AddElement
  <2> HIDE DEF two
  <2>4. Cardinality(three) = 3 /\ IsFiniteSet(three) BY <2>1, <2>3, FS_AddElement
  <2> HIDE DEF three
  <2>5. QED BY <2>1, <2>4, FS_AddElement
<1> SUFFICES ASSUME Len(s) > 5 PROVE FALSE
  <2>1. Len(s) \in Nat OBVIOUS
  <2>2. QED BY <2>1
<1>2. Len(s) \in Nat /\ \A i \in 1 .. Len(s) : s[i] \in Phases OBVIOUS
<1> DEFINE f == [i \in 1 .. 5 |-> s[i]]
<1>3. f \in [1 .. 5 -> OpenPhases]
  <2> SUFFICES ASSUME NEW i \in 1 .. 5 PROVE s[i] \in OpenPhases OBVIOUS
  <2>1. i \in 1 .. Len(s) /\ i # Len(s) BY <1>2
  <2>2. s[i] \in Phases /\ s[i] \notin Terminal BY <1>2, <2>1 DEF InOrder
  <2>3. QED BY <2>2 DEF Phases, OpenPhases
<1>4. Cardinality(1 .. 5) = 5 /\ IsFiniteSet(1 .. 5)
  <2>1. 1 \in Int /\ 5 \in Int OBVIOUS
  <2>2. /\ IsFiniteSet(1 .. 5)
        /\ Cardinality(1 .. 5) = IF 1 > 5 THEN 0 ELSE 5 - 1 + 1
    BY <2>1, FS_Interval
  <2>3. QED BY <2>2
<1>5. \E i, j \in 1 .. 5 : i # j /\ f[i] = f[j]
  <2> HIDE DEF f
  <2>1. QED BY <1>1, <1>3, <1>4, FS_PigeonHole
<1>6. PICK i, j \in 1 .. 5 : i # j /\ s[i] = s[j] BY <1>5
<1>7. i \in 1 .. Len(s) /\ j \in 1 .. Len(s) BY <1>2
<1>8. QED BY <1>6, <1>7 DEF InOrder

\* A checkpoint of an operation that has not ended.
LEMMA CheckpointInOrder ==
  ASSUME journal \in Seq(Phases), InOrder(journal), Last \notin Terminal, NEW p \in Phases,
         Checkpoint(p)
  PROVE  /\ journal' \in Seq(Phases) /\ InOrder(journal') /\ Len(journal') <= 5
         /\ p \notin Terminal => Last' \notin Terminal
<1>1. CASE Journalled(p)
  <2>1. journal' = journal BY <1>1 DEF Checkpoint
  <2>2. QED BY <2>1, ShortJournal DEF Last
<1>2. CASE ~Journalled(p)
  <2> DEFINE n == Len(journal)
  <2>1. journal' = Append(journal, p) BY <1>2 DEF Checkpoint
  <2>2. /\ journal' \in Seq(Phases) /\ Len(journal') = n + 1 /\ journal'[n + 1] = p /\ n \in Nat
        /\ \A i \in 1 .. n : journal'[i] = journal[i]
    BY <2>1, AppendProperties
  <2>3. \A i \in 1 .. n : journal[i] # p
    <3>1. DOMAIN journal = 1 .. n OBVIOUS
    <3>2. QED BY <1>2, <3>1 DEF Journalled
  <2>4. \A i \in 1 .. n : journal[i] \notin Terminal
    <3> SUFFICES ASSUME NEW i \in 1 .. n, journal[i] \in Terminal PROVE FALSE OBVIOUS
    <3>1. i = n BY DEF InOrder
    <3>2. Last = journal[n] BY <2>2 DEF Last
    <3>3. QED BY <3>1, <3>2
  <2>5. InOrder(journal')
    <3>1. ASSUME NEW i \in 1 .. n + 1, NEW j \in 1 .. n + 1, journal'[i] = journal'[j], i # j
          PROVE  FALSE
      <4>1. CASE i \in 1 .. n /\ j \in 1 .. n BY <2>2, <3>1, <4>1 DEF InOrder
      <4>2. CASE i = n + 1 /\ j \in 1 .. n BY <2>2, <2>3, <3>1, <4>2
      <4>3. CASE j = n + 1 /\ i \in 1 .. n BY <2>2, <2>3, <3>1, <4>3
      <4>4. QED BY <2>2, <3>1, <4>1, <4>2, <4>3
    <3>2. ASSUME NEW i \in 1 .. n + 1, journal'[i] \in Terminal PROVE i = n + 1
      <4>1. CASE i \in 1 .. n BY <2>2, <2>4, <3>2, <4>1
      <4>2. QED BY <2>2, <4>1
    <3>3. QED BY <2>2, <3>1, <3>2 DEF InOrder
  <2>6. Last' = p
    <3>1. journal' # <<>> BY <2>1
    <3>2. QED BY <2>2, <3>1 DEF Last
  <2>7. QED BY <2>2, <2>5, <2>6, ShortJournal
<1>3. QED BY <1>1, <1>2

\* What the platform receives keeps its type.
LEMMA ReceivesTyped ==
  ASSUME receipts \in Seq(Phases), Len(receipts) <= 2, NEW phase, Receive(phase)
  PROVE  receipts' \in Seq(Phases) /\ Len(receipts') <= 2
<1>1. CASE UNCHANGED receipts BY <1>1
<1>2. CASE Accepted(phase) /\ receipts' = Append(receipts, phase)
  <2>1. phase \in Phases BY <1>2 DEF Accepted, Phases, Terminal
  <2>2. receipts = <<>> \/ receipts = <<"cutover_committed">> BY <1>2 DEF Accepted
  <2>3. Len(receipts) <= 1
    <3>1. CASE receipts = <<>> BY <3>1, EmptySeq
    <3>2. CASE receipts = <<"cutover_committed">>
      <4>1. Len(<<"cutover_committed">>) = 1 OBVIOUS
      <4>2. QED BY <3>2, <4>1
    <3>3. QED BY <2>2, <3>1, <3>2
  <2>4. QED BY <1>2, <2>1, <2>3
<1>3. QED BY <1>1, <1>2 DEF Receive

\* Ending the operation's own part writes the terminal phase.
LEMMA EndsTyped ==
  ASSUME journal \in Seq(Phases), InOrder(journal), Last \notin Terminal, NEW p \in Terminal,
         Ends(p)
  PROVE  /\ journal' \in Seq(Phases) /\ InOrder(journal') /\ Len(journal') <= 5
         /\ step' = "publish"
<1>1. p \in Phases BY DEF Phases
<1>2. QED BY <1>1, CheckpointInOrder DEF Ends

\* Nothing is journalled at the start.
LEMMA TargetInvInit == TargetInit => TargetInv
<1> SUFFICES ASSUME TargetInit PROVE TargetInv OBVIOUS
<1>1. Len(<<>>) = 0 /\ <<>> \in Seq(Phases) OBVIOUS
<1>2. QED
  <2>1. journal = <<>> /\ receipts = <<>> BY DEF TargetInit
  <2>2. InOrder(journal) BY <1>1, <2>1 DEF InOrder
  <2>3. /\ authority \in BOOLEAN /\ migrated \in BOOLEAN /\ marker \in BOOLEAN
        /\ backup \in BOOLEAN /\ pending \in BOOLEAN
    BY DEF TargetInit
  <2>4. crashes \in 0 .. MaxCrashes BY TargetConstants DEF TargetInit
  <2>5. TargetTypeOK
    BY <1>1, <2>1, <2>3, <2>4 DEF TargetInit, TargetTypeOK, Steps, Locks
  <2>6. StillOpen BY DEF TargetInit, StillOpen, Going, UnderMutex
  <2>7. QED BY <2>2, <2>5, <2>6 DEF TargetInv

\* The operation's handler, one action at a time.
LEMMA TypesOperation ==
  ASSUME TargetInv, OperationStep
  PROVE  TargetInv'
<1> USE DEF TargetInv, TargetTypeOK, StillOpen, Going, UnderMutex, Steps, Locks, requestVars
<1> DEFINE Kept == UNCHANGED journal
              Flags == /\ authority \in BOOLEAN /\ migrated \in BOOLEAN /\ marker \in BOOLEAN
                       /\ backup \in BOOLEAN /\ pending \in BOOLEAN
<1>0. /\ Kept => (InOrder(journal))' /\ Last' = Last
      /\ \A p \in {"prepared", "applying", "cutover_intent_durable", "cutover_committed"} :
           p \in Phases /\ p \notin Terminal
  BY DEF Last, InOrder, Phases, Terminal
<1>1. CASE Begin BY <1>0, <1>1 DEF Begin
<1>2. CASE Throws
  <2>1. Flags' BY <1>2 DEF Throws, HandlerLeaves
  <2>2. QED BY <1>0, <1>2, <2>1 DEF Throws, HandlerLeaves
<1>3. CASE Load
  <2>1. CASE Last \in Terminal /\ UNCHANGED journal BY <1>0, <1>3, <2>1 DEF Load
  <2>2. CASE Last \notin Terminal /\ Ends("stop_committed")
    BY <1>3, <2>2, EndsTyped DEF Load, Terminal
  <2>3. CASE Last \notin Terminal /\ Checkpoint("prepared")
    <3>1. step' \in {"mutex", "authority", "publish"}
      BY <1>3, <2>3 DEF Load, Ends
    <3>2. QED BY <1>0, <1>3, <2>3, <3>1, CheckpointInOrder DEF Load
  <2>4. QED BY <1>3, <2>1, <2>2, <2>3 DEF Load
<1>4. CASE ValidateAuthority
  <2>1. CASE step' = "prepare" /\ UNCHANGED journal BY <1>0, <1>4, <2>1 DEF ValidateAuthority
  <2>2. CASE \E p \in Terminal : Ends(p) BY <1>4, <2>2, EndsTyped DEF ValidateAuthority
  <2>3. QED BY <1>4, <2>1, <2>2 DEF ValidateAuthority, Terminal
<1>5. CASE PrepareAndBackUp
  <2>1. CASE Checkpoint("applying") /\ backup' = TRUE /\ step' = "migrate"
    BY <1>0, <1>5, <2>1, CheckpointInOrder DEF PrepareAndBackUp
  <2>2. CASE Ends("failed_before_cutover") /\ UNCHANGED backup
    BY <1>5, <2>2, EndsTyped DEF PrepareAndBackUp, Terminal
  <2>3. QED BY <1>5, <2>1, <2>2 DEF PrepareAndBackUp
<1>6. CASE Migrate
  <2>1. CASE migrated' = TRUE /\ step' = "mutex" /\ UNCHANGED journal
    BY <1>0, <1>6, <2>1 DEF Migrate
  <2>2. CASE migrated' \in {migrated, TRUE} /\ Ends("uncertain_before_cutover")
    <3>1. Flags' BY <1>6, <2>2 DEF Migrate
    <3>2. QED BY <1>6, <2>2, <3>1, EndsTyped DEF Migrate, Terminal
  <2>3. QED BY <1>6, <2>1, <2>2 DEF Migrate
<1>7. CASE EnterMutex
  <2>1. CASE Receive("cutover_committed") /\ step' = "health" /\ UNCHANGED envLock
    BY <1>0, <1>7, <2>1, ReceivesTyped DEF EnterMutex
  <2>2. CASE envLock' = "operation" /\ step' = "fence" /\ UNCHANGED receipts
    BY <1>0, <1>7, <2>2 DEF EnterMutex
  <2>3. QED BY <1>7, <2>1, <2>2 DEF EnterMutex
<1>8. CASE Fence
  <2>1. CASE Ends("stop_committed") BY <1>8, <2>1, EndsTyped DEF Fence, Terminal
  <2>2. CASE Checkpoint("cutover_intent_durable") /\ step' = "probe"
    BY <1>0, <1>8, <2>2, CheckpointInOrder DEF Fence
  <2>3. QED BY <1>8, <2>1, <2>2 DEF Fence
<1>9. CASE Probe
  <2>1. CASE marker' = TRUE /\ Checkpoint("cutover_committed") /\ step' = "publish_cutover"
             /\ UNCHANGED backup
    BY <1>0, <1>9, <2>1, CheckpointInOrder DEF Probe
  <2>2. CASE /\ UNCHANGED <<journal, marker>> /\ step' = "validate"
             /\ backup' \in {TRUE, backup}
    <3>1. Flags' BY <1>9, <2>2 DEF Probe
    <3>2. QED BY <1>0, <1>9, <2>2, <3>1 DEF Probe
  <2>3. CASE Ends("uncertain_before_cutover") /\ UNCHANGED <<marker, backup>>
    BY <1>9, <2>3, EndsTyped DEF Probe, Terminal
  <2>4. QED BY <1>9, <2>1, <2>2, <2>3 DEF Probe
<1>10. CASE ValidateCutover
  <2>1. CASE step' = "cutover" /\ UNCHANGED journal BY <1>0, <1>10, <2>1 DEF ValidateCutover
  <2>2. CASE Ends("uncertain_before_cutover")
    BY <1>10, <2>2, EndsTyped DEF ValidateCutover, Terminal
  <2>3. QED BY <1>10, <2>1, <2>2 DEF ValidateCutover
<1>11. CASE ComposeUp BY <1>0, <1>11 DEF ComposeUp
<1>12. CASE WriteMarker BY <1>0, <1>12 DEF WriteMarker
<1>13. CASE CutoverReturns
  <2>1. CASE /\ Checkpoint("cutover_committed") /\ step' = "publish_cutover"
             /\ marker' \in {marker, TRUE} /\ step \in {"cutover", "marked"}
    <3>1. Flags' BY <1>13, <2>1 DEF CutoverReturns
    <3>2. QED BY <1>0, <1>13, <2>1, <3>1, CheckpointInOrder DEF CutoverReturns
  <2>2. CASE step = "cutover" /\ Ends("uncertain_after_cutover") /\ UNCHANGED marker
    BY <1>13, <2>2, EndsTyped DEF CutoverReturns, Terminal
  <2>3. QED BY <1>13, <2>1, <2>2 DEF CutoverReturns
<1>14. CASE PublishCutover
  <2>1. step' \in {"publish", "health"} /\ envLock' \in {envLock, "free"}
        /\ (step' = "health" => step = "publish_cutover")
    BY <1>14 DEF PublishCutover
  <2>2. QED BY <1>0, <1>14, <2>1, ReceivesTyped DEF PublishCutover
<1>15. CASE HealthCheck BY <1>15, EndsTyped DEF HealthCheck, Terminal
<1>16. CASE Publish
  <2>1. Flags' BY <1>16 DEF Publish, HandlerLeaves
  <2>2. QED BY <1>0, <1>16, <2>1, ReceivesTyped DEF Publish, HandlerLeaves
<1>17. QED BY <1>1, <1>2, <1>3, <1>4, <1>5, <1>6, <1>7, <1>8, <1>9, <1>10, <1>11, <1>12, <1>13,
              <1>14, <1>15, <1>16 DEF OperationStep

\* The stop's handler, the clearing of a stop and the environment.
LEMMA TypesOthers ==
  ASSUME TargetInv,
         StopRequestStep \/ AuthorityLapses \/ Crash \/ RecoverMutex \/ RecoverOperationLock
  PROVE  TargetInv'
<1> USE DEF TargetInv, TargetTypeOK, StillOpen, Going, UnderMutex, Steps, Locks, handlerVars,
            requestVars
<1> DEFINE Flags == /\ authority \in BOOLEAN /\ migrated \in BOOLEAN /\ marker \in BOOLEAN
                    /\ backup \in BOOLEAN /\ pending \in BOOLEAN
<1>1. UNCHANGED <<journal, receipts, running, marker, migrated>>
  BY DEF StopRequestStep, EnqueueStop, BeginStop, AppendStop, RemovePending, RequestPlatformStop,
         ReceiptOfStop, PlatformUnreachable, AcknowledgeClear, PlatformClears, CommitClear,
         AuthorityLapses, Crash, RecoverMutex, RecoverOperationLock
<1>2. InOrder(journal') /\ Last' = Last BY <1>1 DEF InOrder, Last
<1>3. CASE EnqueueStop BY <1>1, <1>2, <1>3 DEF EnqueueStop
<1>4. CASE BeginStop BY <1>1, <1>2, <1>4 DEF BeginStop
<1>5. CASE AppendStop BY <1>1, <1>2, <1>5 DEF AppendStop
<1>6. CASE RemovePending
  <2>1. Flags' BY <1>1, <1>6 DEF RemovePending
  <2>2. QED BY <1>1, <1>2, <1>6, <2>1 DEF RemovePending
<1>7. CASE RequestPlatformStop
  <2>1. Flags' BY <1>1, <1>7 DEF RequestPlatformStop
  <2>2. QED BY <1>1, <1>2, <1>7, <2>1 DEF RequestPlatformStop
<1>8. CASE ReceiptOfStop BY <1>1, <1>2, <1>8 DEF ReceiptOfStop, StopHandlerLeaves
<1>9. CASE PlatformUnreachable BY <1>1, <1>2, <1>9 DEF PlatformUnreachable, StopHandlerLeaves
<1>10. CASE AcknowledgeClear BY <1>1, <1>2, <1>10 DEF AcknowledgeClear
<1>11. CASE PlatformClears BY <1>1, <1>2, <1>11 DEF PlatformClears
<1>12. CASE CommitClear BY <1>1, <1>2, <1>12 DEF CommitClear
<1>13. CASE AuthorityLapses
  <2>1. Flags' BY <1>1, <1>13 DEF AuthorityLapses
  <2>2. QED BY <1>1, <1>2, <1>13, <2>1 DEF AuthorityLapses
<1>14. CASE Crash
  <2>1. crashes' \in 0 .. MaxCrashes BY <1>14, TargetConstants DEF Crash
  <2>2. opLock' \in Locks \ {"stop"} /\ envLock' \in Locks BY <1>14 DEF Crash, Orphaned
  <2>3. QED BY <1>1, <1>2, <1>14, <2>1, <2>2 DEF Crash
<1>15. CASE RecoverMutex BY <1>1, <1>2, <1>15 DEF RecoverMutex
<1>16. CASE RecoverOperationLock BY <1>1, <1>2, <1>16 DEF RecoverOperationLock
<1>17. QED BY <1>3, <1>4, <1>5, <1>6, <1>7, <1>8, <1>9, <1>10, <1>11, <1>12, <1>13, <1>14, <1>15,
              <1>16 DEF StopRequestStep

\* Every step of the target, for the types.
LEMMA TargetInvStep == TargetInv /\ [TargetNext]_targetVars => TargetInv'
<1> SUFFICES ASSUME TargetInv, [TargetNext]_targetVars PROVE TargetInv' OBVIOUS
<1>1. CASE OperationStep BY <1>1, TypesOperation
<1>2. CASE StopRequestStep \/ AuthorityLapses \/ Crash \/ RecoverMutex \/ RecoverOperationLock
  BY <1>2, TypesOthers
<1>3. CASE UNCHANGED targetVars
  BY <1>3 DEF targetVars, TargetInv, TargetTypeOK, InOrder, StillOpen, Last
<1>4. QED BY <1>1, <1>2, <1>3 DEF TargetNext

\* The target's variables keep their types: in particular the journal never holds a phase twice
\* or one after a terminal phase, so it has at most five checkpoints, and the platform accepts at
\* most two receipts, however often the processes crash.
THEOREM TargetTypes == TargetSpec => []TargetTypeOK
<1>1. TargetInit => TargetInv BY TargetInvInit
<1>2. TargetInv /\ [TargetNext]_targetVars => TargetInv' BY TargetInvStep
<1>3. TargetInv => TargetTypeOK BY DEF TargetInv
<1>4. QED BY <1>1, <1>2, <1>3, PTL DEF TargetSpec

-----------------------------------------------------------------------------
(* The command queue *)

\* What is known of a request by how far it is: its operation exists from the reservation on, is
\* the environment's while it has no outcome, and its receipts tell of the cutover.
Facts ==
  \A c \in Requests :
    /\ request[c].generation <= environment.generation
    /\ target[c] # "none" \/ request[c].outcome # "none" => request[c].operation
    /\ request[c].operation =>
         request[c].status \notin {"none", "requested", "approved", "leased", "dispatching",
                                   "dispatch_accepted", "rejected"}
    /\ request[c].operation /\ request[c].outcome = "none" =>
         environment.operation = c /\ request[c].status \in {"running", "settling"}
    /\ Physical(request[c]) => target[c] = "marked"
    /\ request[c].outcome = "failed_before_cutover" => target[c] \in {"none", "migrated"}
    /\ Uncertain(request[c]) => environment.blocked

\* The environment's operation belongs to its attempt and may still report.
Active ==
  environment.operation # NoRequest =>
    /\ environment.attempt = environment.operation
    /\ request[environment.operation].operation /\ ~NeverCut(request[environment.operation])
    /\ target[environment.operation] = "marked" =>
         deployed = {request[environment.operation].release}

\* An operation leaves the environment when it says nothing was cut over, or all went well.
Left ==
  \A c \in Requests :
    request[c].operation /\ environment.operation # c =>
      \/ NeverCut(request[c])
      \/ request[c].outcome = "health_verified" /\ request[c].conclusion = "success"

\* What the environment expects is what runs, but for a cutover not reported yet.
Unreported ==
  /\ environment.operation # NoRequest
  /\ Replaced(environment.operation) /\ request[environment.operation].outcome = "none"

Expected ==
  \/ \E d \in Requests : Hidden(d)
  \/ environment.blocked \/ deployed = {environment.expected} \/ Unreported

\* The marker names what runs, but for services replaced without it.
MarkerTells ==
  deployed = {activeMarker} \/ \E d \in Requests : target[d] \in {"partial", "cut"}

StopLeavesRoom == Stopped => environment.generation < MaxGeneration

QueueInv ==
  /\ QueueTypeOK /\ StopLeavesRoom /\ Facts /\ Active /\ Left /\ Expected /\ MarkerTells
  /\ ReleasesInTurn /\ StatusTellsTheOutcome

-----------------------------------------------------------------------------

\* No release is requested at the start.
LEMMA QueueInvInit == QueueInit => QueueInv
<1> SUFFICES ASSUME QueueInit PROVE QueueInv OBVIOUS
<1> USE QueueConstants DEF QueueInit, Requests, NoRequest, Unwritten
<1>1. QueueTypeOK BY DEF QueueTypeOK, RequestRow, EnvironmentRow, Outcomes, Progress
<1>2. StopLeavesRoom /\ Active /\ Expected /\ MarkerTells
  BY DEF StopLeavesRoom, Stopped, Active, Expected, MarkerTells
<1>3. Facts /\ Left BY DEF Facts, Left, Physical, Uncertain
<1>4. ReleasesInTurn /\ StatusTellsTheOutcome
  BY
      DEF ReleasesInTurn, AttemptsInTurn, CouldProceed, ReplacesWhatWasApproved,
      StatusTellsTheOutcome
<1>5. QED BY <1>1, <1>2, <1>3, <1>4 DEF QueueInv


\* One row written, the rest typed.
LEMMA RowWritten ==
  ASSUME QueueTypeOK, NEW c \in Requests, NEW q \in RequestRow,
         request' = [request EXCEPT ![c] = q]
  PROVE  /\ request' \in [Requests -> RequestRow] /\ request'[c] = q
         /\ \A d \in Requests : d # c => request'[d] = request[d]
BY DEF QueueTypeOK

\* A step that neither touches an operation nor what a request has to show.
Keeps(c, q) ==
  /\ q.operation = request[c].operation /\ q.outcome = request[c].outcome
  /\ q.generation <= environment.generation
  /\ q.operation =>
       /\ q.conclusion = request[c].conclusion /\ q.status = request[c].status
       /\ q.release = request[c].release /\ q.expected = request[c].expected
  /\ ~q.operation =>
       \/ q.status = request[c].status
       \/ q.status \notin {"succeeded", "deployed_reconciliation_required"}

\* Such a step of a request, its dispatcher and the environment's attempt keeps the invariant.
LEMMA QuietStep ==
  ASSUME QueueInv, NEW c \in Requests, NEW q \in RequestRow, Keeps(c, q),
         request' = [request EXCEPT ![c] = q],
         environment' \in EnvironmentRow,
         dispatcher' \in [Requests -> {"away", "claimed", "begun", "posted", "failed"}],
         UNCHANGED <<target, deployed, activeMarker>>,
         environment'.operation = environment.operation,
         environment'.generation = environment.generation,
         environment'.expected = environment.expected,
         environment'.stop = environment.stop,
         environment.blocked => environment'.blocked,
         environment.operation # NoRequest => environment'.attempt = environment.attempt,
         AttemptsInTurn'
  PROVE  QueueInv'
<1> USE DEF QueueInv, Keeps
<1>1. /\ request' \in [Requests -> RequestRow] /\ request'[c] = q
      /\ \A d \in Requests : d # c => request'[d] = request[d]
  BY RowWritten
<1>2. QueueTypeOK' BY <1>1 DEF QueueTypeOK
<1>3. StopLeavesRoom' BY DEF StopLeavesRoom, Stopped
<1>4. Facts' BY <1>1 DEF Facts, Physical, Uncertain
<1>5. Active' BY <1>1 DEF Active, NeverCut, QueueTypeOK, EnvironmentRow
<1>6. Left' BY <1>1 DEF Left, NeverCut
<1>7. Expected' /\ MarkerTells'
  BY <1>1 DEF Expected, Hidden, Replaced, Unreported, MarkerTells, QueueTypeOK, EnvironmentRow
<1>8. ReplacesWhatWasApproved'
  BY <1>1 DEF ReleasesInTurn, ReplacesWhatWasApproved, MarkerAgrees, Hidden, HiddenWithoutMarker,
     Replaced, Facts
<1>9. StatusTellsTheOutcome' BY <1>1 DEF StatusTellsTheOutcome, Hidden, Replaced, Facts
<1>10. QED BY <1>2, <1>3, <1>4, <1>5, <1>6, <1>7, <1>8, <1>9 DEF ReleasesInTurn

\* A step of a dispatcher alone.
LEMMA OnlyDispatcher ==
  ASSUME QueueInv, UNCHANGED <<request, environment, target, deployed, activeMarker>>,
         dispatcher' \in [Requests -> {"away", "claimed", "begun", "posted", "failed"}]
  PROVE  QueueInv'
<1> USE DEF QueueInv
<1>1. QueueTypeOK' /\ StopLeavesRoom' BY DEF QueueTypeOK, StopLeavesRoom, Stopped
<1>2. Facts' /\ Active' /\ Left' BY DEF Facts, Physical, Uncertain, Active, NeverCut, Left
<1>3. Expected' /\ MarkerTells' BY DEF Expected, Hidden, Replaced, Unreported, MarkerTells
<1>4. AttemptsInTurn' BY DEF ReleasesInTurn, AttemptsInTurn, CouldProceed, SameGeneration
<1>5. ReplacesWhatWasApproved' /\ StatusTellsTheOutcome'
  BY DEF ReleasesInTurn, ReplacesWhatWasApproved, MarkerAgrees, StatusTellsTheOutcome, Hidden,
     HiddenWithoutMarker, Replaced
<1>6. QED BY <1>1, <1>2, <1>3, <1>4, <1>5 DEF ReleasesInTurn

\* What the type says of a request and of the environment.
LEMMA QueueShape ==
  ASSUME QueueInv, NEW c \in Requests
  PROVE  /\ request[c] \in RequestRow /\ environment \in EnvironmentRow
         /\ request \in [Requests -> RequestRow]
         /\ environment.generation \in 1..MaxGeneration
         /\ environment.expected \in Candidates \cup {NoCandidate}
         /\ request[c].generation <= environment.generation
         /\ environment.attempt = c => environment.attempt # NoRequest
BY DEF QueueInv, QueueTypeOK, EnvironmentRow, Facts, Requests, NoRequest

\* A request with another status or last fact of its attempt is a request.
LEMMA RowMoved ==
  ASSUME NEW p \in RequestRow, NEW s \in OpenStatus \cup ClosedStatus,
         NEW a \in {"none", "leased", "dispatching", "bound", "unknown"}
  PROVE  /\ [p EXCEPT !.status = s] \in RequestRow
         /\ [p EXCEPT !.status = s, !.attempt = a] \in RequestRow
<1>1. [p EXCEPT !.status = s] \in RequestRow BY DEF RequestRow
<1>2. [p EXCEPT !.status = s, !.attempt = a] \in RequestRow BY DEF RequestRow
<1>3. QED BY <1>1, <1>2

\* A new request, for what is expected now.
LEMMA StepRequestRelease ==
  ASSUME QueueInv, NEW c \in Requests, NEW r \in Candidates, RequestRelease(c, r)
  PROVE  QueueInv'
<1> DEFINE q == [request[c] EXCEPT !.status = "requested", !.release = r,
                   !.generation = environment.generation, !.expected = environment.expected]
<1> USE DEF RequestRelease, Outside
<1>1. q \in RequestRow /\ request' = [request EXCEPT ![c] = q]
  <2>1. /\ request[c] \in RequestRow /\ environment.generation \in 1..MaxGeneration
        /\ environment.expected \in Candidates \cup {NoCandidate}
    BY QueueShape
  <2>2. [request[c] EXCEPT !.status = "requested"] \in RequestRow
    BY <2>1, RowMoved DEF OpenStatus
  <2>3. q = [[request[c] EXCEPT !.status = "requested"] EXCEPT !.release = r,
               !.generation = environment.generation, !.expected = environment.expected]
    BY <2>1 DEF RequestRow
  <2>4. q \in RequestRow BY <2>1, <2>2, <2>3 DEF RequestRow
  <2>5. QED BY <2>4, QueueShape
<1>2. ~request[c].operation BY DEF QueueInv, Facts
<1>3. Keeps(c, q) BY <1>2, QueueShape DEF Keeps, RequestRow, EnvironmentRow
<1>4. q.status = "requested" BY QueueShape DEF RequestRow
<1>5. AttemptsInTurn'
  <2> HIDE DEF q
  <2>1. QED BY <1>1, <1>4, RowWritten
      DEF QueueInv, ReleasesInTurn, AttemptsInTurn, CouldProceed, SameGeneration
<1> HIDE DEF q
<1>6. QED BY <1>1, <1>3, <1>5, QuietStep, QueueShape DEF QueueInv, QueueTypeOK

\* The steps of a request before its operation.
LEMMA StepReview ==
  ASSUME QueueInv, NEW c \in Requests, ReviewRelease(c)
  PROVE  QueueInv'
<1> USE DEF ReviewRelease, Outside
<1>1. PICK decision \in {"approved", "rejected"} :
        request' = [request EXCEPT ![c] = [request[c] EXCEPT !.status = decision]]
  OBVIOUS
<1> DEFINE q == [request[c] EXCEPT !.status = decision]
<1>2. q \in RequestRow BY <1>1, QueueShape, RowMoved DEF OpenStatus, ClosedStatus
<1>3. ~request[c].operation BY DEF QueueInv, Facts
<1>4. Keeps(c, q) BY <1>3, QueueShape DEF Keeps, RequestRow, EnvironmentRow
<1>5. q.status = decision BY QueueShape DEF RequestRow
<1> HIDE DEF q
<1>6. AttemptsInTurn'
  BY <1>1, <1>2, <1>5, RowWritten
     DEF QueueInv, ReleasesInTurn, AttemptsInTurn, CouldProceed, SameGeneration, q
<1>7. QED BY <1>1, <1>2, <1>4, <1>6, QuietStep, QueueShape DEF QueueInv, QueueTypeOK, q

\* A lease that runs out names the request and nobody else.
LEMMA StepLeaseRunsOut ==
  ASSUME QueueInv, NEW c \in Requests, LeaseRunsOut(c)
  PROVE  QueueInv'
<1> DEFINE q == [request[c] EXCEPT !.lease = "lapsed"]
<1> USE DEF LeaseRunsOut, Outside
<1>1. q \in RequestRow /\ request' = [request EXCEPT ![c] = q] BY QueueShape DEF RequestRow
<1>2. Keeps(c, q) BY QueueShape DEF Keeps, RequestRow, EnvironmentRow
<1>3. AttemptsInTurn'
  BY <1>1, RowWritten, QueueShape
      DEF QueueInv, ReleasesInTurn, AttemptsInTurn, CouldProceed, SameGeneration, RequestRow
<1> HIDE DEF q
<1>4. QED BY <1>1, <1>2, <1>3, QuietStep, QueueShape DEF QueueInv, QueueTypeOK

\* The claim takes the environment over from an attempt whose lease lapsed.
LEMMA StepClaim ==
  ASSUME QueueInv, NEW c \in Requests, ClaimRelease(c)
  PROVE  QueueInv'
<1> DEFINE q == [request[c] EXCEPT !.status = "leased", !.attempt = "leased", !.lease = "held"]
<1> USE DEF ClaimRelease, Outside
<1>1. q \in RequestRow /\ request' = [request EXCEPT ![c] = q]
  <2>1. request[c] \in RequestRow BY QueueShape
  <2>2. [request[c] EXCEPT !.status = "leased", !.attempt = "leased"] \in RequestRow
    BY <2>1, RowMoved DEF OpenStatus
  <2>3. [[request[c] EXCEPT !.status = "leased", !.attempt = "leased"]
            EXCEPT !.lease = "held"] \in RequestRow
    BY <2>2 DEF RequestRow
  <2>4. q \in RequestRow BY <2>1, <2>3 DEF RequestRow
  <2>5. QED BY <2>4, QueueShape
<1>2. ~request[c].operation BY DEF QueueInv, Facts
<1>3. Keeps(c, q) /\ q.status = "leased" BY <1>2, QueueShape DEF Keeps, RequestRow
<1>4. /\ environment' \in EnvironmentRow /\ environment'.attempt = c
      /\ environment'.generation = environment.generation
      /\ environment'.operation = environment.operation
      /\ environment'.expected = environment.expected
      /\ environment'.stop = environment.stop /\ environment'.blocked = environment.blocked
  BY QueueShape DEF EnvironmentRow
<1>5. dispatcher' \in [Requests -> {"away", "claimed", "begun", "posted", "failed"}]
  BY DEF QueueInv, QueueTypeOK
<1> HIDE DEF q
<1>6. AttemptsInTurn'
  <2>1. ASSUME NEW d \in Requests, d # c, CouldProceed(d)' PROVE FALSE
    <3>1. CouldProceed(d) BY <1>1, <1>4, <2>1, RowWritten DEF QueueInv, CouldProceed, SameGeneration
    <3>2. environment.attempt = d BY <3>1 DEF QueueInv, ReleasesInTurn, AttemptsInTurn
    <3>3. QED BY <3>1, <3>2, QueueShape DEF LeaseIsFree, CouldProceed
  <2>2. QED BY <1>4, <2>1 DEF AttemptsInTurn
<1>7. QED BY <1>1, <1>3, <1>4, <1>5, <1>6, QuietStep

\* Begin and bind move on only with the attempt that is the environment's.
LEMMA StepBegin ==
  ASSUME QueueInv, NEW c \in Requests, BeginDispatch(c)
  PROVE  QueueInv'
<1> USE DEF BeginDispatch, Outside
<1>1. dispatcher' \in [Requests -> {"away", "claimed", "begun", "posted", "failed"}]
  BY DEF QueueInv, QueueTypeOK
<1>2. CASE UNCHANGED request BY <1>1, <1>2, OnlyDispatcher
<1>3. CASE HoldsAttempt(c, "leased") /\ request' # request
  <2> DEFINE q == [request[c] EXCEPT !.status = "dispatching", !.attempt = "dispatching"]
  <2>1. q \in RequestRow BY QueueShape, RowMoved DEF OpenStatus
  <2>2. request' = [request EXCEPT ![c] = q] BY <1>3, QueueShape
  <2>3. ~request[c].operation BY <1>3 DEF QueueInv, Facts, HoldsAttempt
  <2>4. Keeps(c, q) BY <2>3, QueueShape DEF Keeps, RequestRow
  <2> HIDE DEF q
  <2>5. AttemptsInTurn'
    BY <1>3, <2>1, <2>2, RowWritten
       DEF QueueInv, ReleasesInTurn, AttemptsInTurn, CouldProceed, SameGeneration, HoldsAttempt
  <2>6. QED BY <1>1, <2>1, <2>2, <2>4, <2>5, QuietStep, QueueShape
<1>4. QED BY <1>2, <1>3

\* The run is found and bound to its request.
LEMMA StepBind ==
  ASSUME QueueInv, NEW c \in Requests, BindRun(c)
  PROVE  QueueInv'
<1> USE DEF BindRun, Outside
<1>1. dispatcher' \in [Requests -> {"away", "claimed", "begun", "posted", "failed"}]
  BY DEF QueueInv, QueueTypeOK
<1>2. CASE UNCHANGED request BY <1>1, <1>2, OnlyDispatcher
<1>3. CASE HoldsAttempt(c, "dispatching") /\ request' # request
  <2> DEFINE q == [request[c] EXCEPT !.status = "dispatch_accepted", !.attempt = "bound"]
  <2>1. q \in RequestRow BY QueueShape, RowMoved DEF OpenStatus
  <2>2. request' = [request EXCEPT ![c] = q] BY <1>3, QueueShape
  <2>3. ~request[c].operation BY <1>3 DEF QueueInv, Facts, HoldsAttempt
  <2>4. Keeps(c, q) BY <2>3, QueueShape DEF Keeps, RequestRow
  <2> HIDE DEF q
  <2>5. AttemptsInTurn'
    BY <1>3, <2>1, <2>2, RowWritten
       DEF QueueInv, ReleasesInTurn, AttemptsInTurn, CouldProceed, SameGeneration, HoldsAttempt
  <2>6. QED BY <1>1, <2>1, <2>2, <2>4, <2>5, QuietStep, QueueShape
<1>4. QED BY <1>2, <1>3

\* A request given up to manual intervention blocks the environment and had no operation.
LEMMA GivenUp ==
  ASSUME QueueInv, NEW c \in Requests, ~request[c].operation,
         NEW q \in RequestRow, request' = [request EXCEPT ![c] = q],
         q.operation = request[c].operation, q.outcome = request[c].outcome,
         q.conclusion = request[c].conclusion, q.generation = request[c].generation,
         q.status = "manual_intervention",
         environment' = [environment EXCEPT !.blocked = TRUE],
         dispatcher' \in [Requests -> {"away", "claimed", "begun", "posted", "failed"}],
         Outside
  PROVE  QueueInv'
<1> USE DEF Outside
<1>1. Keeps(c, q) BY QueueShape DEF Keeps, RequestRow, EnvironmentRow
<1>2. /\ environment' \in EnvironmentRow /\ environment'.attempt = environment.attempt
      /\ environment'.generation = environment.generation
      /\ environment'.operation = environment.operation
      /\ environment'.expected = environment.expected
      /\ environment'.stop = environment.stop /\ environment'.blocked
  BY QueueShape DEF EnvironmentRow
<1>3. AttemptsInTurn'
  BY <1>2, RowWritten DEF QueueInv, ReleasesInTurn, AttemptsInTurn, CouldProceed, SameGeneration
<1>4. QED BY <1>1, <1>2, <1>3, QuietStep

\* A dispatch nobody heard of again, and a run that is refused.
LEMMA StepUnknown ==
  ASSUME QueueInv, NEW c \in Requests, RecordUnknown(c) \/ RecoverDispatch(c) \/ RejectRun(c)
  PROVE  QueueInv'
<1> USE DEF RecordUnknown, RecoverDispatch, RejectRun, OutcomeUnknown, Outside
<1>1. dispatcher' \in [Requests -> {"away", "claimed", "begun", "posted", "failed"}]
  BY DEF QueueInv, QueueTypeOK
<1>2. CASE UNCHANGED <<request, environment>> BY <1>1, <1>2, OnlyDispatcher
<1>3. CASE OutcomeUnknown(c) /\ request[c].status = "dispatching"
  <2> DEFINE q == [request[c] EXCEPT !.status = "manual_intervention", !.attempt = "unknown"]
  <2>1. q \in RequestRow /\ request' = [request EXCEPT ![c] = q]
    <3>1. q \in RequestRow BY QueueShape, RowMoved DEF ClosedStatus
    <3>2. request' = [request EXCEPT ![c] = q] BY <1>3, QueueShape
    <3>3. QED BY <3>1, <3>2
  <2>2. ~request[c].operation BY <1>3 DEF QueueInv, Facts
  <2>3. /\ q.operation = request[c].operation /\ q.outcome = request[c].outcome
        /\ q.conclusion = request[c].conclusion /\ q.generation = request[c].generation
        /\ q.status = "manual_intervention"
    BY QueueShape DEF RequestRow
  <2> HIDE DEF q
  <2>4. QED BY <1>1, <1>3, <2>1, <2>2, <2>3, GivenUp
<1>4. CASE RejectRun(c)
  <2> DEFINE q == [request[c] EXCEPT !.status = "manual_intervention"]
  <2>1. q \in RequestRow /\ request' = [request EXCEPT ![c] = q]
    <3>1. q \in RequestRow BY QueueShape, RowMoved DEF ClosedStatus
    <3>2. request' = [request EXCEPT ![c] = q] BY <1>4, QueueShape
    <3>3. QED BY <3>1, <3>2
  <2>2. /\ q.operation = request[c].operation /\ q.outcome = request[c].outcome
        /\ q.conclusion = request[c].conclusion /\ q.generation = request[c].generation
        /\ q.status = "manual_intervention"
    BY QueueShape DEF RequestRow
  <2> HIDE DEF q
  <2>3. QED BY <1>1, <1>4, <2>1, <2>2, GivenUp
<1>5. QED BY <1>2, <1>3, <1>4 DEF MayRecordUnknown, Undecided

\* The reservation makes the operation the environment's.
LEMMA StepReserve ==
  ASSUME QueueInv, NEW c \in Requests, ReserveOperation(c)
  PROVE  QueueInv'
<1> DEFINE q == [request[c] EXCEPT !.status = "running", !.operation = TRUE]
<1> USE DEF ReserveOperation, Outside, QueueInv
<1>1. q \in RequestRow /\ request' = [request EXCEPT ![c] = q]
  <2>1. request[c] \in RequestRow BY QueueShape
  <2>2. [request[c] EXCEPT !.status = "running"] \in RequestRow
    BY <2>1, RowMoved DEF OpenStatus
  <2>3. [[request[c] EXCEPT !.status = "running"] EXCEPT !.operation = TRUE] \in RequestRow
    BY <2>2 DEF RequestRow
  <2>4. q \in RequestRow BY <2>1, <2>3 DEF RequestRow
  <2>5. QED BY <2>4, QueueShape
<1>2. /\ q.status = "running" /\ q.operation /\ q.outcome = request[c].outcome
      /\ q.generation = request[c].generation /\ q.expected = request[c].expected
  BY QueueShape DEF RequestRow
<1> HIDE DEF q
<1>3. request[c].outcome = "none" /\ target[c] = "none" /\ environment.attempt = c
  BY DEF Facts, HoldsAttempt
<1>4. /\ environment' \in EnvironmentRow /\ environment'.operation = c
      /\ environment'.attempt = c /\ environment'.generation = environment.generation
      /\ environment'.expected = environment.expected
      /\ environment'.stop = environment.stop /\ environment'.blocked = environment.blocked
  BY <1>3, QueueShape DEF EnvironmentRow
<1>5. /\ request' \in [Requests -> RequestRow] /\ request'[c] = q
      /\ \A d \in Requests : d # c => request'[d] = request[d]
  BY <1>1, RowWritten
<1>6. QueueTypeOK' BY <1>4, <1>5 DEF QueueTypeOK
<1>7. StopLeavesRoom' BY <1>4 DEF StopLeavesRoom, Stopped
<1>8. Facts' BY <1>2, <1>3, <1>4, <1>5 DEF Facts, Physical, Uncertain, Requests, NoRequest
<1>9. Active' BY <1>2, <1>3, <1>4, <1>5 DEF Active, NeverCut
<1>10. Left' BY <1>3, <1>4, <1>5 DEF Left, NeverCut, Facts, Requests, NoRequest
<1>11. Expected' /\ MarkerTells'
  BY <1>2, <1>3, <1>4, <1>5 DEF Expected, Hidden, Replaced, Unreported, MarkerTells
<1>12. AttemptsInTurn' BY <1>2, <1>4, <1>5
    DEF ReleasesInTurn, AttemptsInTurn, CouldProceed, SameGeneration
<1>13. ReplacesWhatWasApproved' BY <1>2, <1>3, <1>5
    DEF ReleasesInTurn, ReplacesWhatWasApproved, MarkerAgrees, Hidden, HiddenWithoutMarker, Replaced
<1>14. StatusTellsTheOutcome'
  BY <1>2, <1>3, <1>4, <1>5 DEF StatusTellsTheOutcome, Hidden, Replaced
<1>15. QED BY <1>6, <1>7, <1>8, <1>9, <1>10, <1>11, <1>12, <1>13, <1>14 DEF ReleasesInTurn

\* The target's operation is the environment's while it goes on.
LEMMA AtWork ==
  ASSUME QueueInv, NEW c \in Requests, request[c].outcome = "none", target[c] # "none"
  PROVE  /\ request[c].operation /\ environment.operation = c /\ c # NoRequest
         /\ request[c].status \in {"running", "settling"}
BY DEF QueueInv, Facts, Requests, NoRequest

\* The steps of the target write its progress and nothing of the requests.
LEMMA ProgressWritten ==
  ASSUME QueueTypeOK, NEW c \in Requests, NEW at \in Progress,
         target' = [target EXCEPT ![c] = at]
  PROVE  /\ target' \in [Requests -> Progress] /\ target'[c] = at
         /\ \A d \in Requests : d # c => target'[d] = target[d]
BY DEF QueueTypeOK

\* Before a service is replaced: the migrations, and the validation, where the release that runs
\* is the one expected.
LEMMA StepBefore ==
  ASSUME QueueInv, NEW c \in Requests, MigrationsApplied(c) \/ CutoverValidated(c)
  PROVE  QueueInv'
<1> USE DEF QueueInv, Authorised, Reporting
<1> DEFINE at == IF target[c] = "none" THEN "migrated" ELSE "validated"
<1>1. /\ environment.operation = c /\ c # NoRequest /\ request[c].outcome = "none"
      /\ target[c] \in {"none", "migrated"} /\ at \in {"migrated", "validated"}
      /\ target' = [target EXCEPT ![c] = at] /\ SnapshotHolds(c) /\ Serving
      /\ UNCHANGED <<request, environment, dispatcher, deployed, activeMarker>>
  BY DEF MigrationsApplied, CutoverValidated, Requests, NoRequest
<1>2. request[c].operation /\ ~Physical(request[c]) BY <1>1 DEF Active, Physical
<1> HIDE DEF at
<1>0. request[c].status \in {"running", "settling"} BY <1>1, <1>2 DEF Facts
<1>3. /\ target' \in [Requests -> Progress] /\ target'[c] = at
      /\ \A d \in Requests : d # c => target'[d] = target[d]
  BY <1>1, ProgressWritten DEF Progress
<1>4. QueueTypeOK' /\ StopLeavesRoom'
  BY <1>1, <1>3 DEF QueueTypeOK, StopLeavesRoom, Stopped
<1>5. Facts' BY <1>1, <1>2, <1>3 DEF Facts, Physical, Uncertain
<1>6. Active' /\ Left' BY <1>1, <1>3 DEF Active, Left, NeverCut
<1>7. Expected' /\ MarkerTells'
  BY <1>1, <1>3 DEF Expected, MarkerTells, Hidden, Unreported, Replaced
<1>8. AttemptsInTurn' BY <1>1 DEF ReleasesInTurn, AttemptsInTurn, CouldProceed, SameGeneration
<1>9. deployed = {request[c].expected} \/ \E d \in Requests : Hidden(d)
  BY <1>1 DEF Expected, Unreported, Replaced, SnapshotHolds, Serving
<1>10. \/ ~MarkerAgrees(c) \/ deployed = {request[c].expected}
       \/ \E d \in Requests : HiddenWithoutMarker(d)
  <2>1. SUFFICES ASSUME NEW d \in Requests, target[d] \in {"partial", "cut"}
                 PROVE  HiddenWithoutMarker(d)
    BY DEF MarkerTells, MarkerAgrees
  <2>2. request[d].outcome # "none" BY <1>1, <2>1, AtWork
  <2>3. ~Physical(request[d]) /\ request[d].outcome # "failed_before_cutover"
    BY <2>1 DEF Facts
  <2>4. ~Uncertain(request[d]) BY <1>1 DEF Facts, Serving
  <2>5. request[d].outcome \in Outcomes BY QueueShape DEF RequestRow
  <2>6. request[d].outcome = "stop_committed"
    BY <2>2, <2>3, <2>4, <2>5 DEF Outcomes, Physical, Uncertain
  <2>7. QED BY <2>1, <2>6 DEF HiddenWithoutMarker, Hidden, Replaced
<1>11. \A d \in Requests :
         /\ Hidden(d) => Hidden(d)'
         /\ HiddenWithoutMarker(d) => HiddenWithoutMarker(d)'
         /\ MarkerAgrees(d)' = MarkerAgrees(d)
  BY <1>1, <1>3 DEF Hidden, HiddenWithoutMarker, Replaced, MarkerAgrees
<1>12. ReplacesWhatWasApproved'
  <2>1. ASSUME NEW d \in Requests, request'[d].outcome = "none", target'[d] = "validated"
        PROVE  d = c
    <3> SUFFICES ASSUME d # c PROVE FALSE OBVIOUS
    <3>1. request[d].outcome = "none" /\ target[d] # "none" BY <1>1, <1>3, <2>1
    <3>2. environment.operation = d BY <3>1, AtWork
    <3>3. QED BY <1>1, <3>2
  <2>2. /\ deployed' = {request'[c].expected} \/ \E d \in Requests : Hidden(d)'
        /\ \/ ~MarkerAgrees(c)' \/ deployed' = {request'[c].expected}
           \/ \E d \in Requests : HiddenWithoutMarker(d)'
    <3> HIDE DEF QueueInv
    <3>1. QED BY <1>1, <1>9, <1>10, <1>11
  <2>3. QED BY <2>1, <2>2 DEF ReplacesWhatWasApproved
<1>13. StatusTellsTheOutcome'
  <2>1. ASSUME NEW d \in Requests, d # c
        PROVE  request'[d] = request[d] /\ Replaced(d)' = Replaced(d) /\ Hidden(d)' = Hidden(d)
    BY <1>1, <1>3, <2>1 DEF Hidden, Replaced
  <2>2. request'[c].status \in {"running", "settling"} BY <1>0, <1>1
  <2>3. QED BY <1>1, <1>3, <2>1, <2>2 DEF StatusTellsTheOutcome
<1>14. QED BY <1>4, <1>5, <1>6, <1>7, <1>8, <1>12, <1>13 DEF ReleasesInTurn

\* Services are replaced, all or some, and the marker is written when all are.
LEMMA StepCutover ==
  ASSUME QueueInv, NEW c \in Requests, ServicesReplaced(c) \/ MarkerCommitted(c)
  PROVE  QueueInv'
<1> USE DEF QueueInv
<1>1. /\ request[c].outcome = "none" /\ target[c] # "none"
      /\ UNCHANGED <<request, environment, dispatcher>>
  BY DEF ServicesReplaced, MarkerCommitted
<1>2. /\ request[c].operation /\ environment.operation = c /\ c # NoRequest
      /\ request[c].status \in {"running", "settling"}
  BY <1>1, AtWork
<1>3. request[c].release \in Candidates \cup {NoCandidate} /\ ~Physical(request[c])
  BY <1>1, QueueShape DEF RequestRow, Physical
<1>4. PICK at \in {"partial", "cut", "marked"} :
        /\ target' = [target EXCEPT ![c] = at]
        /\ at # "marked" => UNCHANGED activeMarker
        /\ at = "marked" => deployed' = {request[c].release} /\ activeMarker' = request[c].release
  BY DEF ServicesReplaced, MarkerCommitted
<1>5. /\ deployed' \subseteq Candidates \cup {NoCandidate}
      /\ activeMarker' \in Candidates \cup {NoCandidate}
  BY <1>3 DEF ServicesReplaced, MarkerCommitted, QueueTypeOK
<1>6. /\ target' \in [Requests -> Progress] /\ target'[c] = at
      /\ \A d \in Requests : d # c => target'[d] = target[d]
  BY <1>4, ProgressWritten DEF Progress
<1>7. QueueTypeOK' /\ StopLeavesRoom'
  BY <1>1, <1>5, <1>6 DEF QueueTypeOK, StopLeavesRoom, Stopped
<1>8. Facts' BY <1>1, <1>2, <1>3, <1>6 DEF Facts, Physical, Uncertain
<1>9. Active' /\ Left' BY <1>1, <1>2, <1>4, <1>6 DEF Active, Left, NeverCut
<1>10. Expected' BY <1>1, <1>2, <1>6 DEF Expected, Unreported, Replaced
<1>11. MarkerTells' BY <1>4, <1>6 DEF MarkerTells
<1>12. AttemptsInTurn' BY <1>1 DEF ReleasesInTurn, AttemptsInTurn, CouldProceed, SameGeneration
<1>13. ReplacesWhatWasApproved'
  <2>1. SUFFICES ASSUME NEW d \in Requests, request'[d].outcome = "none", target'[d] = "validated"
                 PROVE  FALSE
    BY DEF ReplacesWhatWasApproved
  <2>2. d # c BY <1>6, <2>1
  <2>3. request[d].outcome = "none" /\ target[d] # "none" BY <1>1, <1>6, <2>1, <2>2
  <2>4. environment.operation = d BY <2>3, AtWork
  <2>5. QED BY <1>2, <2>2, <2>4
<1>14. StatusTellsTheOutcome'
  BY <1>1, <1>2, <1>6 DEF StatusTellsTheOutcome, Hidden, Replaced
<1>15. QED BY <1>7, <1>8, <1>9, <1>10, <1>11, <1>12, <1>13, <1>14 DEF ReleasesInTurn

\* A stop raises the generation: nothing that was authorised could proceed after it.
LEMMA StepStop ==
  ASSUME QueueInv, StopEnvironment \/ StopConfirmed \/ ClearEnvironment
  PROVE  QueueInv'
<1> USE DEF QueueInv, StopEnvironment, StopConfirmed, ClearEnvironment, Outside
<1>1. UNCHANGED <<request, dispatcher, target, deployed, activeMarker>> OBVIOUS
<1>2. environment \in EnvironmentRow BY DEF QueueTypeOK
<1>3. /\ environment' \in EnvironmentRow
      /\ environment'.operation = environment.operation
      /\ environment'.expected = environment.expected /\ environment'.blocked = environment.blocked
      /\ \/ environment'.generation = environment.generation + 1
         \/ /\ environment'.generation = environment.generation
            /\ environment'.attempt = environment.attempt
      /\ environment.operation # NoRequest => environment'.attempt = environment.attempt
      /\ environment'.stop # "none" => environment'.generation < MaxGeneration
  <2> environment.generation \in 1 .. MaxGeneration /\ MaxGeneration \in Nat
    BY <1>2, QueueConstants DEF EnvironmentRow
  <2>1. CASE StopEnvironment
    <3>1. environment.generation + 1 \in 1 .. MaxGeneration BY <2>1
    <3>2. environment' = [environment EXCEPT !.stop = "requested",
                                            !.generation = environment.generation + 1]
      BY <2>1
    <3>3. environment' \in EnvironmentRow BY <1>2, <3>1, <3>2 DEF EnvironmentRow
    <3>4. QED BY <1>2, <2>1, <3>2, <3>3 DEF EnvironmentRow
  <2>2. CASE StopConfirmed BY <1>2, <2>2 DEF EnvironmentRow, StopLeavesRoom, Stopped
  <2>3. CASE ClearEnvironment
    <3>1. environment.generation + 1 \in 1 .. MaxGeneration
      BY <2>3 DEF StopLeavesRoom, Stopped
    <3>2. environment' = [environment EXCEPT !.stop = "none",
              !.generation = environment.generation + 1, !.attempt = NoRequest]
      BY <2>3
    <3>3. environment' \in EnvironmentRow BY <1>2, <3>1, <3>2 DEF EnvironmentRow
    <3>4. QED BY <1>2, <2>3, <3>2, <3>3 DEF EnvironmentRow
  <2>4. QED BY <2>1, <2>2, <2>3
<1>4. environment.generation \in Nat /\ environment'.generation \in Nat
      /\ environment'.generation >= environment.generation
  BY <1>2, <1>3, QueueConstants DEF EnvironmentRow
<1>5. QueueTypeOK' BY <1>1, <1>3 DEF QueueTypeOK
<1>6. StopLeavesRoom' BY <1>3 DEF StopLeavesRoom, Stopped
<1>7. \A c \in Requests : request[c].generation \in Nat
  BY QueueConstants DEF QueueTypeOK, RequestRow
<1>8. Facts' BY <1>1, <1>3, <1>4, <1>7 DEF Facts, Physical, Uncertain
<1>9. Active' /\ Left' /\ Expected' /\ MarkerTells'
  BY <1>1, <1>3 DEF Active, Left, NeverCut, Expected, MarkerTells, Hidden, Replaced, Unreported
<1>10. AttemptsInTurn'
  BY <1>1, <1>3, <1>4, <1>7 DEF ReleasesInTurn, AttemptsInTurn, CouldProceed, SameGeneration, Facts
<1>11. ReplacesWhatWasApproved' /\ StatusTellsTheOutcome'
  BY <1>1, <1>3 DEF ReleasesInTurn, ReplacesWhatWasApproved, MarkerAgrees, StatusTellsTheOutcome,
     Hidden, HiddenWithoutMarker, Replaced
<1>12. QED BY <1>5, <1>6, <1>8, <1>9, <1>10, <1>11 DEF ReleasesInTurn

\* What a projection can make of a request's facts.
LEMMA StatusProjected ==
  ASSUME NEW q \in RequestRow
  PROVE  /\ StatusFrom(q) \in {"none"} \cup OpenStatus \cup ClosedStatus
         /\ ~q.operation /\ q.outcome = "none" =>
              \/ StatusFrom(q) = q.status
              \/ StatusFrom(q) \in {"failed", "cancelled", "settling"}
         /\ q.operation =>
              /\ StatusFrom(q) \in {"manual_intervention", "succeeded", "failed", "cancelled",
                                    "settling", "deployed_reconciliation_required"}
              /\ q.outcome = "none" => StatusFrom(q) = "settling"
              /\ StatusFrom(q) = "succeeded" =>
                   q.outcome = "health_verified" /\ q.conclusion = "success"
              /\ StatusFrom(q) = "failed" => q.outcome = "failed_before_cutover"
              /\ StatusFrom(q) = "cancelled" => q.outcome = "stop_committed"
              /\ StatusFrom(q) = "deployed_reconciliation_required" => NeedsReconciliation(q)
<1>1. /\ q.status \in {"none"} \cup OpenStatus \cup ClosedStatus
      /\ q.conclusion \in {"none"} \cup Conclusions
  BY DEF RequestRow
<1>2. /\ ByRun(q) = q.status \/ ByRun(q) \in {"failed", "cancelled", "settling"}
  BY <1>1 DEF ByRun, Conclusions
<1>3. /\ ByTarget(q) \in {"manual_intervention", "succeeded", "failed", "cancelled", "settling"}
      /\ q.outcome = "none" => ByTarget(q) = "settling"
      /\ ByTarget(q) = "succeeded" => q.outcome = "health_verified" /\ q.conclusion = "success"
      /\ ByTarget(q) = "failed" => q.outcome = "failed_before_cutover"
      /\ ByTarget(q) = "cancelled" => q.outcome = "stop_committed"
  BY DEF ByTarget
<1>4. q.outcome = "none" => ~NeedsReconciliation(q) BY DEF NeedsReconciliation, Physical
<1>5. QED BY <1>1, <1>2, <1>3, <1>4 DEF StatusFrom, OpenStatus, ClosedStatus

\* A run's report on a request that never had an operation.
LEMMA StepReportWithout ==
  ASSUME QueueInv, NEW c \in Requests, RunReported(c), ~request[c].operation
  PROVE  QueueInv'
<1>1. PICK k \in Conclusions \cup {"none"} : Project(c, [request[c] EXCEPT !.conclusion = k])
  BY DEF RunReported
<1> DEFINE p == [request[c] EXCEPT !.conclusion = k]
           q == [p EXCEPT !.status = StatusFrom(p)]
<1>2. /\ p \in RequestRow /\ ~p.operation /\ p.operation = request[c].operation
      /\ p.status = request[c].status /\ p.outcome = request[c].outcome
      /\ p.generation = request[c].generation /\ p.lease = request[c].lease
  BY QueueShape DEF RequestRow
<1>3. request[c].outcome = "none" BY DEF QueueInv, Facts
<1>4. StatusFrom(p) = request[c].status \/ StatusFrom(p) \in {"failed", "cancelled", "settling"}
  BY <1>2, <1>3, StatusProjected
<1>5. StatusFrom(p) \in {"none"} \cup OpenStatus \cup ClosedStatus BY <1>2, StatusProjected
<1>6. Project(c, p) BY <1>1
<1> HIDE DEF p
<1>7. /\ q \in RequestRow /\ q.status = StatusFrom(p) /\ q.operation = p.operation
      /\ q.outcome = p.outcome /\ q.generation = p.generation /\ q.lease = p.lease
  BY <1>2, <1>5 DEF RequestRow
<1>8. request' = [request EXCEPT ![c] = q] BY <1>6 DEF Project
<1> HIDE DEF q
<1>9. Keeps(c, q) BY <1>2, <1>4, <1>7, QueueShape DEF Keeps
<1>10. \/ environment' = environment
       \/ /\ environment' = [environment EXCEPT !.attempt = NoRequest] /\ environment.attempt = c
          /\ q.status \in {"failed", "cancelled"}
  BY <1>2, <1>6, <1>7 DEF Project, EnvironmentFrom
<1>11. /\ environment' \in EnvironmentRow
       /\ environment'.generation = environment.generation
       /\ environment'.operation = environment.operation
       /\ environment'.expected = environment.expected
       /\ environment'.stop = environment.stop /\ environment'.blocked = environment.blocked
       /\ \/ environment'.attempt = environment.attempt
          \/ environment.attempt = c /\ q.status \in {"failed", "cancelled"}
  BY <1>10, QueueShape DEF EnvironmentRow
<1>12. environment.operation # NoRequest => environment.attempt # c
  BY <1>2 DEF QueueInv, Active
<1>13. AttemptsInTurn'
  <2>1. /\ request'[c] = q /\ request[c].generation = q.generation
        /\ \A d \in Requests : d # c => request'[d] = request[d]
    BY <1>2, <1>7, <1>8, RowWritten DEF QueueInv
  <2>2. ASSUME NEW d \in Requests, CouldProceed(d)' PROVE environment'.attempt = d
    <3>1. CouldProceed(d)
      BY <1>2, <1>4, <1>7, <1>11, <2>1, <2>2 DEF CouldProceed, SameGeneration
    <3>2. environment.attempt = d BY <3>1 DEF QueueInv, ReleasesInTurn, AttemptsInTurn
    <3>3. QED BY <1>11, <2>1, <2>2, <3>2 DEF CouldProceed
  <2>3. QED BY <2>2 DEF AttemptsInTurn
<1>14. QED BY <1>6, <1>7, <1>8, <1>9, <1>11, <1>12, <1>13, QuietStep
    DEF QueueInv, QueueTypeOK, Project, Outside

\* The row a projection writes.
LEMMA RowProjected ==
  ASSUME QueueInv, NEW c \in Requests, NEW p \in RequestRow, Project(c, p)
  PROVE  /\ request' \in [Requests -> RequestRow]
         /\ \A d \in Requests : d # c => request'[d] = request[d]
         /\ request'[c].status = StatusFrom(p)
         /\ request'[c].operation = p.operation /\ request'[c].outcome = p.outcome
         /\ request'[c].conclusion = p.conclusion /\ request'[c].generation = p.generation
         /\ request'[c].release = p.release /\ request'[c].expected = p.expected
         /\ request'[c].lease = p.lease
         /\ UNCHANGED <<dispatcher, target, deployed, activeMarker>>
<1> DEFINE q == [p EXCEPT !.status = StatusFrom(p)]
<1>1. q \in RequestRow BY StatusProjected DEF RequestRow
<1>2. /\ q.status = StatusFrom(p) /\ q.operation = p.operation /\ q.outcome = p.outcome
      /\ q.conclusion = p.conclusion /\ q.generation = p.generation
      /\ q.release = p.release /\ q.expected = p.expected /\ q.lease = p.lease
  BY DEF RequestRow
<1>3. request' = [request EXCEPT ![c] = q] BY DEF Project
<1> HIDE DEF q
<1>4. QED BY <1>1, <1>2, <1>3, RowWritten DEF QueueInv, Project, Outside

\* A late report on an operation that has left changes none of its facts.
LEMMA StepReportLate ==
  ASSUME QueueInv, NEW c \in Requests, RunReported(c),
         request[c].operation, environment.operation # c
  PROVE  QueueInv'
<1> USE DEF QueueInv
<1>1. PICK k \in Conclusions \cup {"none"} : Project(c, [request[c] EXCEPT !.conclusion = k])
  BY DEF RunReported
<1> DEFINE p == [request[c] EXCEPT !.conclusion = k]
<1>2. /\ p \in RequestRow /\ p.operation /\ p.operation = request[c].operation
      /\ p.outcome = request[c].outcome /\ p.generation = request[c].generation
      /\ p.release = request[c].release /\ p.expected = request[c].expected
      /\ p.lease = request[c].lease
  BY QueueShape DEF RequestRow
<1>3. Project(c, p) BY <1>1
<1> HIDE DEF p
<1>4. NeverCut(request[c]) BY DEF Left, RunReported
<1>5. NeverCut(p) /\ ~NeedsReconciliation(p) BY <1>2, <1>4
    DEF NeverCut, NeedsReconciliation, Physical
<1>6. environment' = environment BY <1>2, <1>3 DEF Project, EnvironmentFrom
<1>7. StatusFrom(p) \in {"failed", "cancelled"}
  BY <1>2, <1>5 DEF StatusFrom, ByTarget, NeverCut
<1>8. StatusFrom(p) = "failed" => p.outcome = "failed_before_cutover" BY <1>2, StatusProjected
<1>9. StatusFrom(p) = "cancelled" => p.outcome = "stop_committed" BY <1>2, StatusProjected
<1>10. /\ request' \in [Requests -> RequestRow]
       /\ \A d \in Requests : d # c => request'[d] = request[d]
       /\ request'[c].status = StatusFrom(p)
       /\ request'[c].operation = request[c].operation /\ request'[c].outcome = request[c].outcome
       /\ request'[c].generation = request[c].generation
       /\ request'[c].release = request[c].release /\ request'[c].expected = request[c].expected
       /\ UNCHANGED <<dispatcher, target, deployed, activeMarker>>
  BY <1>2, <1>3, RowProjected
<1>11. QueueTypeOK' /\ StopLeavesRoom'
  BY <1>6, <1>10 DEF QueueTypeOK, StopLeavesRoom, Stopped
<1>12. Facts'
  <2>1. request[c].outcome \in {"failed_before_cutover", "stop_committed"} BY <1>4 DEF NeverCut
  <2>2. request'[c].status \in {"failed", "cancelled"} BY <1>7, <1>10
  <2>3. /\ request'[c].generation <= environment'.generation
        /\ ~Physical(request'[c])
        /\ request'[c].outcome = "failed_before_cutover" => target'[c] \in {"none", "migrated"}
        /\ ~Uncertain(request'[c])
    BY <1>6, <1>10, <2>1 DEF Facts, Physical, Uncertain
  <2>4. request'[c].operation /\ request'[c].outcome # "none" BY <1>10, <2>1
  <2>5. ASSUME NEW d \in Requests, d # c
        PROVE  request'[d] = request[d] /\ target'[d] = target[d]
    BY <1>10, <2>5
  <2>6. QED BY <1>6, <2>2, <2>3, <2>4, <2>5 DEF Facts, Physical, Uncertain
<1>13. Active' /\ Left'
  <2>1. environment.operation \in Requests \cup {NoRequest} BY DEF QueueTypeOK, EnvironmentRow
  <2>2. Active' BY <1>6, <1>10, <2>1 DEF Active, NeverCut
  <2>3. Left' BY <1>4, <1>6, <1>10 DEF Left, NeverCut
  <2>4. QED BY <2>2, <2>3
<1>14. Expected' /\ MarkerTells'
  BY <1>6, <1>10 DEF Expected, MarkerTells, Hidden, Replaced, Unreported, QueueTypeOK,
     EnvironmentRow
<1>15. AttemptsInTurn'
  BY <1>6, <1>7, <1>10 DEF ReleasesInTurn, AttemptsInTurn, CouldProceed, SameGeneration
<1>16. ReplacesWhatWasApproved'
  BY <1>10 DEF ReleasesInTurn, ReplacesWhatWasApproved, MarkerAgrees, Hidden, HiddenWithoutMarker,
     Replaced
<1>17. StatusTellsTheOutcome'
  BY <1>2, <1>6, <1>7, <1>8, <1>9, <1>10 DEF StatusTellsTheOutcome, Hidden, Replaced, Facts
<1>18. QED BY <1>11, <1>12, <1>13, <1>14, <1>15, <1>16, <1>17 DEF ReleasesInTurn

\* A fact of the environment's operation: a report of its run or a receipt of its target.
LEMMA StepFact ==
  ASSUME QueueInv, NEW c \in Requests, environment.operation = c,
         NEW p \in RequestRow, Project(c, p),
         p.operation = request[c].operation, p.generation = request[c].generation,
         p.release = request[c].release, p.expected = request[c].expected,
         p.outcome = request[c].outcome \/ p.outcome \in Truthful(c)
  PROVE  QueueInv'
<1> USE DEF QueueInv
<1>1. /\ c # NoRequest /\ environment.attempt = c /\ request[c].operation /\ p.operation
      /\ ~NeverCut(request[c]) /\ (target[c] = "marked" => deployed = {request[c].release})
  BY DEF Active, Requests, NoRequest
<1>2. /\ Physical(p) => target[c] = "marked"
      /\ p.outcome = "failed_before_cutover" => target[c] \in {"none", "migrated"}
      /\ p.outcome = "none" => request[c].outcome = "none"
  <2>1. CASE p.outcome = request[c].outcome BY <2>1 DEF Facts, Physical
  <2>2. CASE p.outcome \in Truthful(c)
    BY <2>2 DEF Truthful, Physical, Facts, QueueTypeOK
  <2>3. QED BY <2>1, <2>2
<1>3. /\ request' \in [Requests -> RequestRow]
      /\ \A d \in Requests : d # c => request'[d] = request[d]
      /\ request'[c].status = StatusFrom(p)
      /\ request'[c].operation /\ request'[c].outcome = p.outcome
      /\ request'[c].conclusion = p.conclusion /\ request'[c].generation = request[c].generation
      /\ request'[c].release = request[c].release /\ request'[c].expected = request[c].expected
      /\ UNCHANGED <<dispatcher, target, deployed, activeMarker>>
  BY <1>1, RowProjected
<1>4. /\ StatusFrom(p) \in {"manual_intervention", "succeeded", "failed", "cancelled",
                            "settling", "deployed_reconciliation_required"}
      /\ p.outcome = "none" => StatusFrom(p) = "settling"
      /\ StatusFrom(p) = "succeeded" =>
           p.outcome = "health_verified" /\ p.conclusion = "success"
      /\ StatusFrom(p) = "failed" => p.outcome = "failed_before_cutover"
      /\ StatusFrom(p) = "cancelled" => p.outcome = "stop_committed"
      /\ StatusFrom(p) = "deployed_reconciliation_required" => NeedsReconciliation(p)
  BY <1>1, StatusProjected
<1>5. environment' = ByReceipt(p) BY <1>1 DEF Project, EnvironmentFrom
<1> DEFINE free == NeverCut(p) \/ StatusFrom(p) = "succeeded"
<1>6. /\ environment' \in EnvironmentRow
      /\ environment'.generation = environment.generation /\ environment'.stop = environment.stop
      /\ environment'.operation = IF free THEN NoRequest ELSE c
      /\ environment'.attempt = IF free THEN NoRequest ELSE c
      /\ environment'.blocked = (environment.blocked \/ NeedsReconciliation(p) \/ Uncertain(p))
      /\ environment'.expected = IF Physical(p) THEN p.release
           ELSE IF p.outcome = "uncertain_after_cutover" THEN NoCandidate ELSE environment.expected
  <2> DEFINE base == IF free THEN Freed ELSE environment
             expected == IF Physical(p) THEN p.release
                         ELSE IF p.outcome = "uncertain_after_cutover" THEN NoCandidate
                         ELSE environment.expected
             blocked == environment.blocked \/ NeedsReconciliation(p) \/ Uncertain(p)
  <2>1. environment \in EnvironmentRow BY QueueShape
  <2>2. /\ base \in EnvironmentRow
        /\ base.generation = environment.generation /\ base.stop = environment.stop
        /\ base.expected = environment.expected /\ base.blocked = environment.blocked
        /\ base.operation = (IF free THEN NoRequest ELSE c)
        /\ base.attempt = (IF free THEN NoRequest ELSE c)
    <3>1. CASE free
      <4>1. base = [environment EXCEPT !.attempt = NoRequest, !.operation = NoRequest]
        BY <3>1 DEF Freed
      <4> HIDE DEF free, base
      <4>2. QED BY <2>1, <3>1, <4>1 DEF EnvironmentRow
    <3>2. CASE ~free
      <4>1. base = environment BY <3>2
      <4> HIDE DEF free, base
      <4>2. QED BY <1>1, <2>1, <3>2, <4>1
    <3>3. QED BY <3>1, <3>2
  <2>3. environment' = [base EXCEPT !.expected = expected, !.blocked = blocked]
    <3>1. environment' =
            [base EXCEPT !.expected = IF Physical(p) THEN p.release
                           ELSE IF p.outcome = "uncertain_after_cutover" THEN NoCandidate ELSE @,
                         !.blocked = @ \/ NeedsReconciliation(p) \/ Uncertain(p)]
      BY <1>5 DEF ByReceipt
    <3> HIDE DEF free, base
    <3>2. QED BY <2>2, <3>1
  <2>4. expected \in Candidates \cup {NoCandidate} BY <2>1 DEF RequestRow, EnvironmentRow
  <2>5. blocked \in BOOLEAN BY <2>1 DEF EnvironmentRow, NeedsReconciliation, Uncertain
  <2> HIDE DEF free, base, expected, blocked
  <2>6. /\ environment' \in EnvironmentRow
        /\ environment'.generation = base.generation /\ environment'.stop = base.stop
        /\ environment'.operation = base.operation /\ environment'.attempt = base.attempt
        /\ environment'.blocked = blocked /\ environment'.expected = expected
    BY <2>2, <2>3, <2>4, <2>5 DEF EnvironmentRow
  <2>7. QED BY <2>2, <2>6 DEF expected, blocked
<1> HIDE DEF free
<1>20. /\ environment.blocked => environment'.blocked
       /\ Uncertain(p) => environment'.blocked
       /\ NeedsReconciliation(p) => environment'.blocked
  BY <1>6
<1>7. QueueTypeOK' /\ StopLeavesRoom'
  BY <1>3, <1>6 DEF QueueTypeOK, StopLeavesRoom, Stopped
<1>8. p.outcome = "none" => ~free BY <1>4 DEF free, NeverCut
<1>9. Facts'
  <2>1. ASSUME NEW d \in Requests, d # c
        PROVE  /\ request'[d] = request[d] /\ target'[d] = target[d]
               /\ environment.operation # d
    BY <1>3, <2>1
  <2>2. /\ request'[c].generation <= environment'.generation
        /\ Physical(request'[c]) => target'[c] = "marked"
        /\ request'[c].outcome = "failed_before_cutover" => target'[c] \in {"none", "migrated"}
        /\ Uncertain(request'[c]) => environment'.blocked
    BY <1>2, <1>3, <1>6, <1>20 DEF Facts, Physical, Uncertain
  <2>3. /\ request'[c].operation
        /\ request'[c].status \notin {"none", "requested", "approved", "leased", "dispatching",
                                       "dispatch_accepted", "rejected"}
        /\ request'[c].outcome = "none" =>
             environment'.operation = c /\ request'[c].status \in {"running", "settling"}
    BY <1>3, <1>4, <1>6, <1>8
  <2>4. QED BY <1>6, <1>20, <2>1, <2>2, <2>3 DEF Facts
<1>10. Active' BY <1>1, <1>3, <1>6 DEF Active, NeverCut, free
<1>11. Left' BY <1>1, <1>3, <1>4, <1>6 DEF Left, NeverCut, free
<1>12. \A d \in Requests :
         /\ Hidden(d) => Hidden(d)'
         /\ HiddenWithoutMarker(d) => HiddenWithoutMarker(d)'
         /\ (request[d].expected = request'[d].expected => MarkerAgrees(d)' = MarkerAgrees(d))
  BY <1>1, <1>3 DEF Hidden, HiddenWithoutMarker, Replaced, NeverCut, MarkerAgrees
<1>13. Expected' /\ MarkerTells'
  <2> SUFFICES Expected' BY <1>3 DEF MarkerTells
  <2>1. CASE Physical(p) BY <1>1, <1>2, <1>3, <1>6, <2>1 DEF Expected
  <2>2. CASE Uncertain(p) BY <1>6, <2>2 DEF Expected
  <2>3. CASE NeverCut(p) /\ Replaced(c)
    BY <1>2, <1>3, <2>3 DEF Expected, Hidden, Replaced, NeverCut
  <2>4. CASE NeverCut(p) /\ ~Replaced(c)
    <3>1. ~Unreported BY <2>4 DEF Unreported
    <3>2. environment'.expected = environment.expected
      BY <1>6, <2>4 DEF NeverCut, Physical
    <3>3. QED BY <1>3, <1>12, <1>20, <3>1, <3>2 DEF Expected
  <2>5. CASE p.outcome = "none"
    <3>1. environment'.operation = c /\ environment'.expected = environment.expected
      BY <1>6, <1>8, <2>5 DEF Physical
    <3>2. Replaced(c)' = Replaced(c) BY <1>3 DEF Replaced
    <3>3. Unreported => Unreported'
      BY <1>1, <1>3, <2>5, <3>1, <3>2 DEF Unreported
    <3>4. QED BY <1>3, <1>12, <1>20, <3>1, <3>3 DEF Expected
  <2>6. QED BY <2>1, <2>2, <2>3, <2>4, <2>5 DEF Physical, Uncertain, NeverCut, RequestRow, Outcomes
<1>14. AttemptsInTurn'
  BY <1>1, <1>3, <1>4, <1>6 DEF ReleasesInTurn, AttemptsInTurn, CouldProceed, SameGeneration
<1>15. ReplacesWhatWasApproved'
  <2>1. SUFFICES ASSUME NEW d \in Requests, request'[d].outcome = "none",
                        target'[d] = "validated"
        PROVE  /\ deployed' = {request'[d].expected} \/ \E e \in Requests : Hidden(e)'
               /\ \/ ~MarkerAgrees(d)' \/ deployed' = {request'[d].expected}
                  \/ \E e \in Requests : HiddenWithoutMarker(e)'
    BY DEF ReplacesWhatWasApproved
  <2>2. /\ request[d].outcome = "none" /\ target[d] = "validated"
        /\ request[d].expected = request'[d].expected
    BY <1>2, <1>3, <2>1
  <2>3. /\ deployed = {request[d].expected} \/ \E e \in Requests : Hidden(e)
        /\ \/ ~MarkerAgrees(d) \/ deployed = {request[d].expected}
           \/ \E e \in Requests : HiddenWithoutMarker(e)
    BY <2>2 DEF ReleasesInTurn, ReplacesWhatWasApproved
  <2> HIDE DEF QueueInv
  <2>4. QED BY <1>3, <1>12, <2>2, <2>3
<1>16. StatusTellsTheOutcome'
  <2>1. ASSUME NEW d \in Requests, d # c
        PROVE  /\ request'[d].status = "rejected" => target'[d] = "none"
               /\ request'[d].status = "failed" => target'[d] \in {"none", "migrated"}
               /\ request'[d].status = "cancelled" => ~Replaced(d)' \/ Hidden(d)'
               /\ request'[d].status = "succeeded" => target'[d] = "marked" /\ request'[d].conclusion = "success"
               /\ request'[d].status = "deployed_reconciliation_required" => environment'.blocked
    <3>1. /\ request'[d] = request[d] /\ target'[d] = target[d]
          /\ Replaced(d)' = Replaced(d)
          /\ (Hidden(d) => Hidden(d)') /\ (environment.blocked => environment'.blocked)
      BY <1>3, <1>12, <1>20, <2>1 DEF Replaced
    <3>2. /\ request[d].status = "rejected" => target[d] = "none"
          /\ request[d].status = "failed" => target[d] \in {"none", "migrated"}
          /\ request[d].status = "cancelled" => ~Replaced(d) \/ Hidden(d)
          /\ request[d].status = "succeeded" => target[d] = "marked" /\ request[d].conclusion = "success"
          /\ request[d].status = "deployed_reconciliation_required" => environment.blocked
      BY DEF StatusTellsTheOutcome
    <3>3. QED BY <3>1, <3>2
  <2>2. /\ StatusFrom(p) = "rejected" => target'[c] = "none"
        /\ StatusFrom(p) = "failed" => target'[c] \in {"none", "migrated"}
        /\ StatusFrom(p) = "cancelled" => ~Replaced(c)' \/ Hidden(c)'
        /\ StatusFrom(p) = "succeeded" => target'[c] = "marked" /\ request'[c].conclusion = "success"
        /\ StatusFrom(p) = "deployed_reconciliation_required" => environment'.blocked
    BY <1>2, <1>3, <1>4, <1>6 DEF Hidden, Physical
  <2>3. QED BY <1>3, <2>1, <2>2 DEF StatusTellsTheOutcome
<1>17. QED BY <1>7, <1>9, <1>10, <1>11, <1>13, <1>14, <1>15, <1>16 DEF ReleasesInTurn

\* The run's conclusion and the target's receipts, in either order.
LEMMA StepReported ==
  ASSUME QueueInv, NEW c \in Requests, RunReported(c) \/ ReceiptAppended(c)
  PROVE  QueueInv'
<1>1. CASE RunReported(c)
  <2>1. CASE ~request[c].operation BY <1>1, <2>1, StepReportWithout
  <2>2. CASE request[c].operation /\ environment.operation # c BY <1>1, <2>2, StepReportLate
  <2>3. CASE environment.operation = c
    <3>1. PICK k \in Conclusions \cup {"none"} : Project(c, [request[c] EXCEPT !.conclusion = k])
      BY <1>1 DEF RunReported
    <3> DEFINE p == [request[c] EXCEPT !.conclusion = k]
    <3>2. /\ p \in RequestRow /\ p.operation = request[c].operation
          /\ p.generation = request[c].generation /\ p.release = request[c].release
          /\ p.expected = request[c].expected /\ p.outcome = request[c].outcome
      BY QueueShape DEF RequestRow
    <3>3. Project(c, p) BY <3>1
    <3> HIDE DEF p
    <3>4. QED BY <2>3, <3>2, <3>3, StepFact
  <2>4. QED BY <2>1, <2>2, <2>3
<1>2. CASE ReceiptAppended(c)
  <2>1. PICK phase \in Truthful(c) : Project(c, [request[c] EXCEPT !.outcome = phase])
    BY <1>2 DEF ReceiptAppended
  <2> DEFINE p == [request[c] EXCEPT !.outcome = phase]
  <2>2. phase \in Outcomes BY DEF Truthful, Outcomes
  <2>3. /\ p \in RequestRow /\ p.operation = request[c].operation
        /\ p.generation = request[c].generation /\ p.release = request[c].release
        /\ p.expected = request[c].expected /\ p.outcome = phase
    BY <2>2, QueueShape DEF RequestRow
  <2>4. Project(c, p) BY <2>1
  <2> HIDE DEF p
  <2>5. QED BY <1>2, <2>3, <2>4, StepFact DEF ReceiptAppended
<1>3. QED BY <1>1, <1>2

\* Every step of the queue.
LEMMA QueueInvStep == QueueInv /\ [QueueNext]_queueVars => QueueInv'
<1> SUFFICES ASSUME QueueInv, [QueueNext]_queueVars PROVE QueueInv' OBVIOUS
<1>1. ASSUME NEW c \in Requests, DispatcherStep(c) PROVE QueueInv'
  <2>1. CASE PostDispatch(c) \/ DispatcherDies(c)
    <3>1. dispatcher' \in [Requests -> {"away", "claimed", "begun", "posted", "failed"}]
      BY <2>1 DEF PostDispatch, DispatcherDies, QueueInv, QueueTypeOK
    <3>2. QED BY <2>1, <3>1, OnlyDispatcher DEF PostDispatch, DispatcherDies, Outside
  <2>2. QED BY <1>1, <2>1, StepClaim, StepBegin, StepBind, StepUnknown DEF DispatcherStep
<1>2. ASSUME NEW c \in Requests, RequestStep(c) PROVE QueueInv'
  BY <1>2, StepRequestRelease, StepReview, StepUnknown, StepLeaseRunsOut, StepReported,
     StepReserve, StepBefore, StepCutover DEF RequestStep
<1>3. CASE StopEnvironment \/ StopConfirmed \/ ClearEnvironment BY <1>3, StepStop
<1>4. CASE UNCHANGED queueVars BY <1>4, OnlyDispatcher DEF queueVars, QueueInv, QueueTypeOK
<1>5. QED BY <1>1, <1>2, <1>3, <1>4 DEF QueueNext

\* The queue's invariant, for every number of commands, candidates and generations.
THEOREM QueueInvariant == QueueSpec => []QueueInv
BY QueueInvInit, QueueInvStep, PTL DEF QueueSpec

\* Commands, environment, dispatchers and target keep their types; the generation its bound.
THEOREM QueueTypeCorrect == QueueSpec => []QueueTypeOK
<1>1. QueueInv => QueueTypeOK BY DEF QueueInv
<1>2. QED BY <1>1, QueueInvariant, PTL

\* One attempt at a time, and each cutover replaces the release its approvers saw, unless a stop's
\* receipt hid an earlier one, half done or done (0077 lease, reserve and projection, 0081
\* validate, the adapter's marker).
THEOREM ReleasesAlwaysInTurn == QueueSpec => []ReleasesInTurn
<1>1. QueueInv => ReleasesInTurn BY DEF QueueInv
<1>2. QED BY <1>1, QueueInvariant, PTL

\* A closed status tells what became of the target's services, in whatever order the run's
\* conclusion and the receipts came (0077 recompute_command_projection); only a stop's receipt
\* may hide replaced services, and applied migrations stay.
THEOREM StatusAlwaysTells == QueueSpec => []StatusTellsTheOutcome
<1>1. QueueInv => StatusTellsTheOutcome BY DEF QueueInv
<1>2. QED BY <1>1, QueueInvariant, PTL
=============================================================================
