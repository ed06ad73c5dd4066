-------------------------- MODULE SubmissionIntents --------------------------
(***************************************************************************)
(* What a submission intent says and permits, wherever it lies: in the run *)
(* directory of the site, where `grid submit` writes it, in a copy of that *)
(* directory, or in the run directory that owns the shard.  An intent has  *)
(* the fields outcome, job, terminal, acknowledged and complete.           *)
(***************************************************************************)
EXTENDS Naturals

Outcomes == {"none", "submitted", "rejected", "ambiguous"}

\* _validate_intent_consistency, on every read and on no write.
Readable(i) ==
    /\ i.terminal => i.job # 0
    /\ i.acknowledged => i.terminal
    /\ i.complete => i.acknowledged
    /\ i.outcome = "rejected" => i.job = 0

\* is_active_or_ambiguous: the attempt reserves the run for one job.
Active(i) == ~i.terminal /\ i.outcome # "rejected"

\* Mutant: what is complete may be submitted again.
MayRetry_Complete(i) == i.outcome = "rejected" \/ (~Active(i) /\ i.acknowledged)

\* _intent_retry_block
MayRetry(i) ==
    \/ i.outcome = "rejected"
    \/ ~Active(i) /\ i.acknowledged /\ ~i.complete

\* What _record_outcome and _acknowledge_intent make of an intent.
Recorded(i, outcome, id) == [i EXCEPT !.outcome = outcome, !.job = id]
Acknowledged(i, complete) == [i EXCEPT !.acknowledged = TRUE, !.complete = complete]

\* Mutant: results are acknowledged before the job is known to be over.
AcknowledgeAllowed_Anytime(i, complete) == i.complete => complete

\* _validate_ack_terminal and the last check of _validate_acknowledgment.
AcknowledgeAllowed(i, complete) == i.terminal /\ (i.complete => complete)
=============================================================================
