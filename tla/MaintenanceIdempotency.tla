------------------------ MODULE MaintenanceIdempotency ------------------------
(* Maintenance commands under an idempotency key. The key is claimed in one   *)
(* commit; then the command runs, either in the transaction that records its  *)
(* answer or, when it calls another system, before it. A claim that expires   *)
(* is closed as unknown and never repeated.                                   *)
EXTENDS Integers

CONSTANTS
  CommandKeys,  \* idempotency keys, each with one command and payload
  External,     \* those whose command calls another system
  Callers,      \* HTTP requests in flight
  NoKey

ASSUME IdempotencyConstants == External \subseteq CommandKeys /\ NoKey \notin CommandKeys

VARIABLES
  claim,   \* maintenance_idempotency_records
  caller,  \* where a request is
  effect,  \* history: how often the command of a key took effect
  answer   \* history: answers given for a key

idempotencyVars == <<claim, caller, effect, answer>>

NoClaim == [status |-> "none", expired |-> FALSE, closedBy |-> "none"]
IdleCaller == [pc |-> "idle", key |-> NoKey]

IdempotencyTypeOK ==
  /\ claim \in [CommandKeys -> [status : {"none", "processing", "succeeded", "failed"},
                                expired : BOOLEAN, closedBy : {"none", "command", "reconciliation"}]]
  /\ caller \in [Callers -> [pc : {"idle", "claiming", "running", "called"},
                             key : CommandKeys \cup {NoKey}]]
  /\ effect \in [CommandKeys -> Nat]
  /\ answer \in [CommandKeys -> SUBSET {"succeeded", "failed"}]

IdempotencyInit ==
  /\ claim = [k \in CommandKeys |-> NoClaim]
  /\ caller = [c \in Callers |-> IdleCaller]
  /\ effect = [k \in CommandKeys |-> 0]
  /\ answer = [k \in CommandKeys |-> {}]

-----------------------------------------------------------------------------
Advance(c, pc) == caller' = [caller EXCEPT ![c].pc = pc]
Returns(c) == caller' = [caller EXCEPT ![c] = IdleCaller]
Replies(c, k, status) == Returns(c) /\ answer' = [answer EXCEPT ![k] = @ \cup {status}]

Call(c, k) ==
  /\ caller[c].pc = "idle"
  /\ caller' = [caller EXCEPT ![c] = [pc |-> "claiming", key |-> k]]
  /\ UNCHANGED <<claim, effect, answer>>

\* Mutant: an expired claim is taken over and its command run again.
NewOrExpired(k) == claim[k].status = "none" \/ (claim[k].status = "processing" /\ claim[k].expired)

\* INSERT ... ON CONFLICT DO NOTHING on operation, actor and key.
IsNew(k) == claim[k].status = "none"

Close(k, status, by) ==
  claim' = [claim EXCEPT ![k].status = status, ![k].closedBy = by]

\* Claimed; or closed as unknown because it expired; or refused while in progress; or replayed.
ClaimKey(c) ==
  LET k == caller[c].key
  IN /\ caller[c].pc = "claiming"
     /\ UNCHANGED effect
     /\ IF IsNew(k)
          THEN /\ claim' = [claim EXCEPT ![k] = [NoClaim EXCEPT !.status = "processing"]]
               /\ Advance(c, "running")
               /\ UNCHANGED answer
          ELSE IF claim[k].status = "processing" /\ claim[k].expired
            THEN Close(k, "failed", "reconciliation") /\ Replies(c, k, "failed")
          ELSE IF claim[k].status = "processing"
            THEN Returns(c) /\ UNCHANGED <<claim, answer>>
            ELSE Replies(c, k, claim[k].status) /\ UNCHANGED claim

\* The other system does what it is asked, whether or not its answer arrives.
CallOut(c) ==
  LET k == caller[c].key
  IN /\ caller[c].pc = "running" /\ k \in External
     /\ Advance(c, "called") \/ Returns(c)
     /\ effect' = [effect EXCEPT ![k] = @ + 1]
     /\ UNCHANGED <<claim, answer>>

\* Only a claim in progress is completed; otherwise the transaction rolls back, and with it what
\* an internal command did.
CompleteClaim(c, status) ==
  LET k == caller[c].key
  IN /\ \/ caller[c].pc = "called"
        \/ caller[c].pc = "running" /\ k \notin External
     /\ IF claim[k].status = "processing"
          THEN /\ Close(k, status, "command")
               /\ Replies(c, k, status)
               /\ effect' = IF k \in External THEN effect ELSE [effect EXCEPT ![k] = @ + 1]
          ELSE Returns(c) /\ UNCHANGED <<claim, effect, answer>>

\* The command throws, its transaction rolls back, or the process dies: the claim stays.
Breaks(c) ==
  /\ caller[c].pc # "idle"
  /\ Returns(c)
  /\ UNCHANGED <<claim, effect, answer>>

ClaimExpires(k) ==
  /\ claim[k].status = "processing"
  /\ ~claim[k].expired
  /\ claim' = [claim EXCEPT ![k].expired = TRUE]
  /\ UNCHANGED <<caller, effect, answer>>

IdempotencyNext ==
  \/ \E c \in Callers :
       \/ \E k \in CommandKeys : Call(c, k)
       \/ ClaimKey(c) \/ CallOut(c) \/ Breaks(c)
       \/ \E status \in {"succeeded", "failed"} : CompleteClaim(c, status)
  \/ \E k \in CommandKeys : ClaimExpires(k)

IdempotencySpec == IdempotencyInit /\ [][IdempotencyNext]_idempotencyVars

-----------------------------------------------------------------------------
(* Properties *)

\* A command takes effect at most once under its key, whoever repeats it, dies, or answers after
\* the claim expired; every answer given for a key is the recorded one; a command that wrote only
\* to the database has taken effect exactly when it closed the claim itself, so one that was
\* closed as unknown changed nothing; and a recorded success of an external command has happened.
CommandRunsOnce ==
  \A k \in CommandKeys :
    /\ effect[k] <= 1
    /\ answer[k] \subseteq {claim[k].status}
    /\ k \notin External => (effect[k] = 1 <=> claim[k].closedBy = "command")
    /\ k \in External /\ claim[k].closedBy = "command" => effect[k] = 1
=============================================================================
