--------------------------- MODULE PaymentEvidence ---------------------------
(* Evidence of payments made outside the platform. A payment reference is     *)
(* bound to one membership order or one performance statement for ever: its   *)
(* fingerprint is unique in one table that both use.                          *)
CONSTANTS
  References,  \* payment references of the outside world
  NoEvidence

VARIABLE evidence  \* evidence[ref]: the row of commercial_payment_evidence

EvidenceRow(Subjects, Persons) ==
  [subject : Subjects, recorder : Persons, matches : BOOLEAN,
   status : {"recorded", "accepted", "rejected"}]

IsEvidence(ref) == evidence[ref] # NoEvidence

\* Mutant: the conflict on the fingerprint is answered by moving the row.
TakesReference(ref) == IsEvidence(ref) => evidence[ref].status = "accepted"

\* INSERT ... ON CONFLICT DO NOTHING on the fingerprint.
IsFresh(ref) == ~IsEvidence(ref)

\* matches tells whether amount and currency are those of the order or the receivable. The
\* same content again returns the row there is, other content is a collision.
RecordEvidence(ref, subject, recorder, matches) ==
  /\ IsFresh(ref)
  /\ evidence' = [evidence EXCEPT ![ref] =
       [subject |-> subject, recorder |-> recorder, matches |-> matches, status |-> "recorded"]]

\* The row a reviewer may decide on.
Decidable(ref, subject) ==
  /\ IsEvidence(ref)
  /\ evidence[ref].subject = subject
  /\ evidence[ref].matches
  /\ evidence[ref].status = "recorded"

MarkEvidence(ref, status) == evidence' = [evidence EXCEPT ![ref].status = status]
=============================================================================
