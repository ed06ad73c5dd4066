--------------------------- MODULE GridSubmission ---------------------------
(***************************************************************************)
(* The operator of Grid'5000 jobs: `language grid submit`, `status` and    *)
(* `collect` for the shards of one run directory, started as often as one  *)
(* likes and several at a time, against a scheduler that may answer late,  *)
(* incompletely or never.                                                  *)
(*                                                                         *)
(* Abstractions.  The job of an attempt is the number of the attempt,      *)
(* because oarsub runs once per attempt; all jobs of a shard have the same *)
(* name.  Collected state is the number of batches it lists; how it gets   *)
(* from a job into the run directory is the subject of GridDriver, here    *)
(* a retrieval finds what some job of the shard once committed.  Each      *)
(* shard has been prepared: it has a first checkpoint.                     *)
(***************************************************************************)
EXTENDS SubmissionIntents

CONSTANTS
    Shards,      \* the shards of the run
    Processes,   \* operator commands that run at the same time
    Batches,     \* batches of a shard
    MaxAttempts, \* bound: submissions of one shard
    None         \* no intent, no shard, nobody

Attempts == 1..MaxAttempts
JobIds == {0} \cup Attempts   \* 0: not known
Intent == [attempt : Attempts, job : JobIds, outcome : Outcomes,
           terminal : BOOLEAN, acknowledged : BOOLEAN, complete : BOOLEAN]

\* "pending": oarsub gave up waiting, the scheduler may still register it.
JobStates == {"none", "pending", "live", "over"}

ASSUME BatchesAssumption == Batches \in Nat \ {0}
ASSUME AttemptsAssumption == MaxAttempts \in Nat
ASSUME NoneAssumption == None \notin Shards /\ None \notin Processes /\ None \notin Intent

VARIABLES
    intent,     \* submission-intent.json of a shard
    local,      \* the checkpoint of a shard in the run directory
    job,        \* scheduler: the jobs of a shard
    committed,  \* batches that jobs of a shard have committed
    lock,       \* who holds the run-wide submission lock
    proc,       \* the commands: where they are and what they remember
    misbound    \* history: the attempts <<s, a>> whose intent was given, by its
                \* name, the job of another attempt

vars == <<intent, local, job, committed, lock, proc, misbound>>

Points == {"idle", "captured", "oarsub", "record", "state", "import", "acknowledge"}
Command == [at : Points, shard : Shards \cup {None}, outcome : Outcomes,
            job : JobIds, upto : 0..Batches]
Busy(point, s, n) ==
    [at |-> point, shard |-> s, outcome |-> "none", job |-> 0, upto |-> n]
Idle == Busy("idle", None, 0)

-----------------------------------------------------------------------------
(* Intents *)

\* Mutant: only the shard's own intent is asked.
RunIsFree_Shard(s) == TRUE

\* _run_wide_intent_block over the intents of all shards.
RunIsFree(s) ==
    \A t \in Shards : intent[t] # None =>
        Readable(intent[t]) /\ (t # s => ~Active(intent[t]))

NextAttempt(s) == IF intent[s] = None THEN 1 ELSE intent[s].attempt + 1

\* Mutant: the limit of attempts is off by one.
MaySubmit_OneMore(s) ==
    /\ RunIsFree(s)
    /\ intent[s] # None => MayRetry(intent[s])
    /\ intent[s] # None => intent[s].attempt <= MaxAttempts

\* plan_submission, except for the policy.
MaySubmit(s) ==
    /\ RunIsFree(s)
    /\ intent[s] # None => MayRetry(intent[s])
    /\ NextAttempt(s) \in Attempts

\* Mutant: what was learnt of the attempt before is kept.
NewIntent_Inherits(s) ==
    IF intent[s] = None
    THEN [attempt |-> 1, job |-> 0, outcome |-> "none", terminal |-> FALSE,
          acknowledged |-> FALSE, complete |-> FALSE]
    ELSE [intent[s] EXCEPT !.attempt = @ + 1, !.outcome = "none", !.job = 0]

NewIntent(s) == [attempt |-> NextAttempt(s), job |-> 0, outcome |-> "none",
                 terminal |-> FALSE, acknowledged |-> FALSE, complete |-> FALSE]

-----------------------------------------------------------------------------
(* The scheduler *)

JobsIn(s, states) == {a \in Attempts : job[s][a] \in states}

\* oarstat -u -J: the account's listing may show the jobs of a shard that live
\* and any that are over, because the site decides how long it retains them.
Listings(s) == {JobsIn(s, {"live"}) \cup over : over \in SUBSET JobsIn(s, {"over"})}

\* resolve_account_job_name: the only job of that name, whatever its state.
Resolved(s) == {a \in Attempts : {a} \in Listings(s)}

\* What oarsub may answer, and the job there is then.
Answer(outcome, id, registered) ==
    [outcome |-> outcome, job |-> id, registered |-> registered]

\* Mutant: a call that timed out counts as refused.
Answers_TimeoutRejects(a) ==
    {Answer("submitted", a, "live"), Answer("rejected", 0, "none"),
     Answer("rejected", 0, "pending")}

\* submit and _failed_submission: an exit status with and without an
\* identifier, a timeout.
Answers(a) ==
    {Answer("submitted", a, "live"), Answer("rejected", 0, "none")}
        \cup {Answer("ambiguous", a, r) : r \in {"live", "none"}}
        \cup {Answer("ambiguous", 0, r) : r \in {"live", "pending", "none"}}

-----------------------------------------------------------------------------
Init ==
    /\ intent = [s \in Shards |-> None]
    /\ local = [s \in Shards |-> 0]
    /\ job = [s \in Shards |-> [a \in Attempts |-> "none"]]
    /\ committed = [s \in Shards |-> 0]
    /\ lock = None
    /\ proc = [p \in Processes |-> Idle]
    /\ misbound = {}

At(p, point) == proc[p].at = point
Begin(p, s, point) ==
    /\ At(p, "idle")
    /\ proc' = [proc EXCEPT ![p] = Busy(point, s, 0)]
End(p) == proc' = [proc EXCEPT ![p] = Idle]

\* submission_lock does not wait: whoever finds it held gives up (Stop).
Acquire(p) == lock = None /\ lock' = p
Release == lock' = None

\* A handler that holds the lock for one step only.
Atomic == lock = None /\ UNCHANGED lock

-----------------------------------------------------------------------------
(* submit *)

\* capture_policy, before the lock: no job of the account is active.
Capture(p, s) ==
    /\ \A t \in Shards, a \in Attempts : job[t][a] # "live"
    /\ Begin(p, s, "captured")
    /\ UNCHANGED <<intent, local, job, committed, lock, misbound>>

\* submit_job up to oarsub.
WriteIntent(p) ==
    /\ At(p, "captured")
    /\ MaySubmit(proc[p].shard)
    /\ Acquire(p)
    /\ intent' = [intent EXCEPT ![proc[p].shard] = NewIntent(proc[p].shard)]
    /\ proc' = [proc EXCEPT ![p].at = "oarsub"]
    /\ UNCHANGED <<local, job, committed, misbound>>

Oarsub(p) ==
    /\ At(p, "oarsub")
    /\ LET s == proc[p].shard
           a == intent[s].attempt
       IN  \E answer \in Answers(a) :
            /\ job' = [job EXCEPT ![s][a] = answer.registered]
            /\ proc' = [proc EXCEPT ![p] = [at |-> "record", shard |-> s, upto |-> 0,
                                            outcome |-> answer.outcome,
                                            job |-> answer.job]]
    /\ UNCHANGED <<intent, local, committed, lock, misbound>>

\* _record_outcome
Record(p) ==
    /\ At(p, "record")
    /\ intent' = [intent EXCEPT ![proc[p].shard] = Recorded(@, proc[p].outcome, proc[p].job)]
    /\ Release
    /\ End(p)
    /\ UNCHANGED <<local, job, committed, misbound>>

-----------------------------------------------------------------------------
(* status *)

\* _live_reconciliation of an intent that names its job.
Reconcile(p, s) ==
    /\ intent[s] # None /\ Readable(intent[s])
    /\ intent[s].job # 0
    /\ Acquire(p)
    /\ Begin(p, s, "state")
    /\ UNCHANGED <<intent, local, job, committed, misbound>>

\* _resolved_by_name: without a unique match nothing changes.
Resolve(p, s) ==
    /\ intent[s] # None /\ Readable(intent[s])
    /\ intent[s].job = 0
    /\ \E a \in Resolved(s) :
        /\ intent' = [intent EXCEPT ![s].job = a]
        /\ misbound' = IF a = intent[s].attempt THEN misbound
                       ELSE misbound \cup {<<s, intent[s].attempt>>}
    /\ Acquire(p)
    /\ Begin(p, s, "state")
    /\ UNCHANGED <<local, job, committed>>

\* job_state and _record_terminal_reconciliation.
RecordTerminal(p) ==
    /\ At(p, "state")
    /\ LET s == proc[p].shard
       IN  /\ job[s][intent[s].job] = "over"
           /\ intent' = [intent EXCEPT ![s].terminal = TRUE]
    /\ Release
    /\ End(p)
    /\ UNCHANGED <<local, job, committed, misbound>>

-----------------------------------------------------------------------------
(* collect *)

\* The retrieved copy may be of any age.
Retrieve(p, s) ==
    /\ At(p, "idle")
    /\ \E n \in 0..committed[s] :
        proc' = [proc EXCEPT ![p] = Busy("import", s, n)]
    /\ UNCHANGED <<intent, local, job, committed, lock, misbound>>

\* Mutant: any state will do.
ForwardProgress_Any(s, cursor) == TRUE

\* _require_forward_progress
ForwardProgress(s, cursor) == cursor >= local[s]

\* import_retrieved_results; the report speaks of this moment.
Import(p) ==
    /\ At(p, "import")
    /\ Atomic
    /\ ForwardProgress(proc[p].shard, proc[p].upto)
    /\ local' = [local EXCEPT ![proc[p].shard] = proc[p].upto]
    /\ proc' = [proc EXCEPT ![p].at = "acknowledge"]
    /\ UNCHANGED <<intent, job, committed, misbound>>

\* acknowledge_collected_results
Acknowledge(p) ==
    /\ At(p, "acknowledge")
    /\ Atomic
    /\ LET s == proc[p].shard
           complete == proc[p].upto = Batches
       IN  /\ intent[s] # None /\ Readable(intent[s])
           /\ AcknowledgeAllowed(intent[s], complete)
           /\ intent' = [intent EXCEPT ![s] = Acknowledged(@, complete)]
    /\ End(p)
    /\ UNCHANGED <<local, job, committed, misbound>>

-----------------------------------------------------------------------------
\* A command raises, is refused, is killed or has nothing more to do.
Stop(p) ==
    /\ ~At(p, "idle")
    /\ lock' = IF lock = p THEN None ELSE lock
    /\ End(p)
    /\ UNCHANGED <<intent, local, job, committed, misbound>>

\* The command is killed while oarsub runs, which the scheduler may outlive.
StopInOarsub(p) ==
    /\ At(p, "oarsub")
    /\ job' = [job EXCEPT ![proc[p].shard][intent[proc[p].shard].attempt] = "pending"]
    /\ Release
    /\ End(p)
    /\ UNCHANGED <<intent, local, committed, misbound>>

\* The scheduler registers a job late.
Register(s, a) ==
    /\ job[s][a] = "pending"
    /\ job' = [job EXCEPT ![s][a] = "live"]
    /\ UNCHANGED <<intent, local, committed, lock, proc, misbound>>

JobCommits(s, a) ==
    /\ job[s][a] = "live"
    /\ committed[s] < Batches
    /\ committed' = [committed EXCEPT ![s] = @ + 1]
    /\ UNCHANGED <<intent, local, job, lock, proc, misbound>>

\* It has ended or failed, or was deleted before it began.
JobEnds(s, a) ==
    /\ job[s][a] = "live"
    /\ job' = [job EXCEPT ![s][a] = "over"]
    /\ UNCHANGED <<intent, local, committed, lock, proc, misbound>>

-----------------------------------------------------------------------------
Submit(p) ==
    \/ \E s \in Shards : Capture(p, s)
    \/ WriteIntent(p)
    \/ Oarsub(p)
    \/ Record(p)
    \/ StopInOarsub(p)

Status(p) ==
    \/ \E s \in Shards : Reconcile(p, s) \/ Resolve(p, s)
    \/ RecordTerminal(p)

Collect(p) ==
    \/ \E s \in Shards : Retrieve(p, s)
    \/ Import(p)
    \/ Acknowledge(p)

JobStep(s, a) == Register(s, a) \/ JobCommits(s, a) \/ JobEnds(s, a)

Next ==
    \/ \E p \in Processes : Submit(p) \/ Status(p) \/ Collect(p) \/ Stop(p)
    \/ \E s \in Shards, a \in Attempts : JobStep(s, a)

Spec == Init /\ [][Next]_vars

-----------------------------------------------------------------------------
(* Properties *)

\* The job that attempt a of s asked for was confused with an older one: its
\* intent speaks of the wrong job.
Misbound(s, a) == <<s, a>> \in misbound

IsReserved(s, a) ==
    intent[s] # None /\ intent[s].attempt = a /\ Active(intent[s])

\* Type invariant of the files, the scheduler and the commands.
TypeOK ==
    /\ intent \in [Shards -> Intent \cup {None}]
    /\ local \in [Shards -> 0..Batches]
    /\ job \in [Shards -> [Attempts -> JobStates]]
    /\ committed \in [Shards -> 0..Batches]
    /\ lock \in Processes \cup {None}
    /\ proc \in [Processes -> Command]
    /\ misbound \subseteq Shards \X Attempts

\* Whatever oarsub answered, or did not, and whoever was killed: the scheduler
\* never runs two jobs (_run_wide_intent_block, submit), as grid_policy.py:306
\* has it, "concurrency is limited to 1", except beside one whose intent was
\* bound to an older job of the same name.
AtMostOneLiveJob ==
    \A s, t \in Shards : \A a, b \in Attempts :
        job[s][a] = "live" /\ job[t][b] = "live" =>
            Misbound(s, a) \/ Misbound(t, b) \/ (s = t /\ a = b)

\* A job that lives, or may yet appear, is reserved by the intent on disk, so
\* that nobody forgets it (submit_job writes the intent before oarsub).  Only
\* the resolution of its name to an older job that the account listing still
\* shows can give the reservation away (_resolved_by_name).
LiveJobIsReserved ==
    \A s \in Shards, a \in Attempts :
        job[s][a] \in {"live", "pending"} => Misbound(s, a) \/ IsReserved(s, a)

\* No sequence of commands writes an intent that the next command refuses to
\* read, which would close the whole run to submissions (read_intent), except
\* that a refused attempt may be given the job of an older one.
IntentsReadable ==
    \A s \in Shards : intent[s] # None =>
        \/ Readable(intent[s])
        \/ intent[s].outcome = "rejected" /\ Misbound(s, intent[s].attempt)

\* Results acknowledged as complete are in the run directory, all of them, and
\* no job runs for them any more (acknowledge_collected_results), except one
\* that was confused with a job that is over.
CompleteIsFinal ==
    \A s \in Shards : intent[s] # None /\ intent[s].complete =>
        /\ local[s] = Batches
        /\ \A a \in Attempts : job[s][a] \in {"live", "pending"} => Misbound(s, a)

\* A shard acknowledged as complete keeps its intent, so that it is never
\* submitted again (_intent_retry_block, _validate_acknowledgment).
CompleteStaysComplete ==
    [][\A s \in Shards : intent[s] # None /\ intent[s].complete =>
            intent'[s] # None /\ intent'[s].complete]_intent
=============================================================================
