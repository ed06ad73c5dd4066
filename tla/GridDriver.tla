------------------------------ MODULE GridDriver ------------------------------
(***************************************************************************)
(* `language grid run`: one driver takes the shards of its share through   *)
(* stage, transfer, submission, job, retrieval and import, one at a time,  *)
(* and stops at whatever it does not understand; it is started again and   *)
(* again and may be killed anywhere.  The state of a shard lies in three   *)
(* places: the run directory that owns it, the copy at the site that jobs  *)
(* work on, and the copy that was retrieved from there.                    *)
(*                                                                         *)
(* Abstractions.  A batch is its number; its part and its receipt are one  *)
(* file, as both are written before the checkpoint and listed by it.  A    *)
(* checkpoint is the number of batches it lists: LanguageWorker shows that *)
(* they are the first ones.  Payload, snapshot and prepared job never      *)
(* differ between the places.  Retrieval is one step: nothing writes at    *)
(* the site once the scheduler reports the job as over, and a half         *)
(* retrieved copy is never read.                                           *)
(***************************************************************************)
EXTENDS SubmissionIntents, Sequences, FiniteSetsExt

CONSTANTS
    Share,          \* the shards of this driver, in snapshot order
    Size,           \* batches of a shard
    MaxShards,      \* --max-shards, 0 for no limit
    OneJobSuffices, \* whether a job that is let run reaches the end of its shard
    MaxFaults,      \* bound: kills, lost connections, jobs killed
    None            \* no checkpoint, no intent

Shards == {Share[i] : i \in 1..Len(Share)}
Batches(s) == 1..Size[s]
Places == {"local", "site", "fetched"}
Cursors == {0} \cup UNION {0..Size[s] : s \in Shards}
Intent == [job : {0, 1}, outcome : Outcomes, terminal : BOOLEAN,
           acknowledged : BOOLEAN, complete : BOOLEAN]
Live == {"queued", "running", "wrote"}
JobStates == {"none", "pending", "over"} \cup Live

ASSUME ShareAssumption ==
    /\ Share \in Seq(Shards)
    /\ \A i, j \in 1..Len(Share) : i # j => Share[i] # Share[j]
ASSUME SizeAssumption == Size \in [Shards -> Nat]
ASSUME BoundsAssumption == MaxShards \in Nat /\ MaxFaults \in Nat
ASSUME FlagAssumption == OneJobSuffices \in BOOLEAN
ASSUME NoneAssumption == None \notin Nat /\ None \notin Intent

VARIABLES
    checkpoint, \* per place and shard: batches that checkpoint.json lists
    files,      \* per place and shard: batches whose files are in parts/
    aside,      \* per shard: batches in the local quarantine/
    intent,     \* per place and shard: submission-intent.json
    job,        \* per shard: the state of its job and the cursor it holds
    frontend,   \* per shard: `grid submit` at the site
    driver,     \* where the driver is and what it remembers; its field blind is
                \* history: it stages without knowing of a submission
    faults

places == <<checkpoint, files, aside, intent>>
vars == <<places, job, frontend, driver, faults>>

Points == {"idle", "next", "stage", "send", "submit", "reply", "wait",
           "retrieve", "import", "commit", "validate", "adopt", "acknowledge"}
Commands == {"idle", "captured", "oarsub", "record", "answered"}

-----------------------------------------------------------------------------
(* Shards *)

\* What a checkpoint lists.
Listed(place, s) ==
    IF checkpoint[place][s] = None THEN {} ELSE 1..checkpoint[place][s]

\* validate_run of a shard has no issue: what is listed is there, and no more.
Clean(place, s) == checkpoint[place][s] # None /\ files[place][s] = Listed(place, s)

\* `language validate` calls the shard complete.
Complete(s) == Clean("local", s) /\ checkpoint["local"][s] = Size[s]

\* Mutant: the driver never looks for results that wait at the site.
AwaitingCollection_Never(s) == FALSE

\* awaiting_collection: the one intent at the site was submitted and nobody
\* acknowledged it there.
AwaitingCollection(s) ==
    /\ intent["site"][s] # None
    /\ intent["site"][s].outcome = "submitted"
    /\ ~intent["site"][s].acknowledged

Put(f, place, s, value) == [f EXCEPT ![place][s] = value]

-----------------------------------------------------------------------------
\* A driver that does not run.
Resting == [at |-> "idle", position |-> 1, done |-> 0, upto |-> 0, todo |-> {},
            blind |-> FALSE]

\* What was there before the first run: the operator may have begun a shard.
Init ==
    /\ \E begun \in [Shards -> {None} \cup Cursors] :
        /\ \A s \in Shards : begun[s] # None => begun[s] <= Size[s]
        /\ checkpoint = [place \in Places |->
                            IF place = "local" THEN begun ELSE [s \in Shards |-> None]]
        /\ files = [place \in Places |-> [s \in Shards |->
                        IF place = "local" /\ begun[s] # None THEN 1..begun[s] ELSE {}]]
    /\ aside = [s \in Shards |-> {}]
    /\ intent = [place \in Places |-> [s \in Shards |-> None]]
    /\ job = [s \in Shards |-> [state |-> "none", upto |-> 0]]
    /\ frontend = [s \in Shards |-> [at |-> "idle", outcome |-> "none"]]
    /\ driver = Resting
    /\ faults = 0

Shard == Share[driver.position]
At(point) == driver.at = point
Goto(point) == driver' = [driver EXCEPT !.at = point]

\* Mutant: the run goes on with the next shard.
Halted_GoesOn == [Resting EXCEPT !.at = "next", !.position = driver.position + 1]

\* A DriverError ends the run.
Halted == Resting

Halt == driver' = Halted

-----------------------------------------------------------------------------
(* The loop *)

\* Mutant: the last shard is left out.
Finished_Early == driver.position >= Len(Share)

\* The shards are used up, or the budget is.
Finished ==
    \/ driver.position > Len(Share)
    \/ MaxShards > 0 /\ driver.done >= MaxShards

RunStarts ==
    /\ At("idle")
    /\ driver' = [Resting EXCEPT !.at = "next"]
    /\ UNCHANGED <<places, job, frontend, faults>>

RunEnds ==
    /\ At("next")
    /\ Finished
    /\ driver' = Resting
    /\ UNCHANGED <<places, job, frontend, faults>>

\* `grid submit` at the site has not recorded yet what became of it.
Submitting(s) == frontend[s].at \in {"captured", "oarsub", "record"}

\* Who is not complete is processed: resumed from the site or staged.
Visit ==
    /\ At("next")
    /\ ~Finished
    /\ driver' =
        IF Complete(Shard) THEN [driver EXCEPT !.position = @ + 1]
        ELSE IF AwaitingCollection(Shard) THEN [driver EXCEPT !.at = "wait"]
        ELSE [driver EXCEPT !.at = "stage", !.blind = Submitting(Shard)]
    /\ UNCHANGED <<places, job, frontend, faults>>

\* awaiting_collection does not check its ssh: no connection, no intent.
VisitUnanswered ==
    /\ At("next")
    /\ ~Finished
    /\ ~Complete(Shard)
    /\ faults < MaxFaults
    /\ faults' = faults + 1
    /\ driver' = [driver EXCEPT !.at = "stage", !.blind = TRUE]
    /\ UNCHANGED <<places, job, frontend>>

-----------------------------------------------------------------------------
(* stage *)

\* Mutant: the checkpoint of a prepared job is always a new one.
Prepared_Anew(s) == 0

\* initialize_shard_checkpoint: an existing one is never rewritten.
Prepared(s) == IF checkpoint["local"][s] = None THEN 0 ELSE checkpoint["local"][s]

Orphans(s) == files["local"][s] \ Listed("local", s)

\* quarantine_orphan_artifacts, then prepare_portable_job, which takes only
\* what validates.
MayStage(s) ==
    /\ checkpoint["local"][s] = None => files["local"][s] = {}
    /\ Orphans(s) \cap aside[s] = {}
    /\ Listed("local", s) \subseteq files["local"][s]

Stage ==
    /\ At("stage")
    /\ MayStage(Shard)
    /\ aside' = [aside EXCEPT ![Shard] = @ \cup Orphans(Shard)]
    /\ files' = Put(files, "local", Shard, files["local"][Shard] \ Orphans(Shard))
    /\ checkpoint' = Put(checkpoint, "local", Shard, Prepared(Shard))
    /\ driver' = [driver EXCEPT !.at = "send", !.upto = Prepared(Shard),
                                !.todo = 0..Prepared(Shard)]
    /\ UNCHANGED <<intent, job, frontend, faults>>

StageRefused ==
    /\ At("stage")
    /\ ~MayStage(Shard)
    /\ Halt
    /\ UNCHANGED <<places, job, frontend, faults>>

\* rsync to the site, file by file: 0 is the checkpoint.  Resting is deleted.
Send(item) ==
    /\ At("send")
    /\ item \in driver.todo
    /\ IF item = 0
       THEN checkpoint' = Put(checkpoint, "site", Shard, driver.upto) /\ UNCHANGED files
       ELSE /\ files' = Put(files, "site", Shard, files["site"][Shard] \cup {item})
            /\ UNCHANGED checkpoint
    /\ driver' = [driver EXCEPT !.todo = @ \ {item}]
    /\ UNCHANGED <<aside, intent, job, frontend, faults>>

Sent ==
    /\ At("send")
    /\ driver.todo = {}
    /\ Goto("submit")
    /\ UNCHANGED <<places, job, frontend, faults>>

-----------------------------------------------------------------------------
(* submit: a command at the site, and the driver that waits for its answer *)

\* submission_lock of the site's run directory does not wait.
Submit ==
    /\ At("submit")
    /\ IF frontend[Shard].at = "idle"
       THEN /\ frontend' = [frontend EXCEPT ![Shard].at = "captured"]
            /\ Goto("reply")
       ELSE Halt /\ UNCHANGED frontend
    /\ UNCHANGED <<places, job, faults>>

\* Mutant: a refusal is an outcome of its own.
Answer_Refused(s, outcome) ==
    frontend' = [frontend EXCEPT ![s] =
        [at |-> "answered", outcome |-> IF outcome = "none" THEN "refused" ELSE outcome]]

\* What the command tells when nothing was submitted, or what became of it.
Answer(s, outcome) == frontend' = [frontend EXCEPT ![s] = [at |-> "answered", outcome |-> outcome]]

NewIntent == [job |-> 0, outcome |-> "none", terminal |-> FALSE,
              acknowledged |-> FALSE, complete |-> FALSE]

\* capture_policy and evaluate_policy: no job of the account is active.
AccountIsFree == \A s \in Shards : job[s].state \notin Live

\* submit_job up to oarsub.
WriteIntent(s) ==
    /\ frontend[s].at = "captured"
    /\ IF AccountIsFree /\ (intent["site"][s] # None => MayRetry(intent["site"][s]))
       THEN /\ intent' = Put(intent, "site", s, NewIntent)
            /\ frontend' = [frontend EXCEPT ![s].at = "oarsub"]
       ELSE Answer(s, "none") /\ UNCHANGED intent
    /\ UNCHANGED <<checkpoint, files, aside, job, driver, faults>>

Becomes(s, state) == job' = [job EXCEPT ![s] = [state |-> state, upto |-> 0]]

\* An answer that is not clear is a fault.
Oarsub(s) ==
    /\ frontend[s].at = "oarsub"
    /\ \E outcome \in Outcomes \ {"none"} :
        /\ frontend' = [frontend EXCEPT ![s] = [at |-> "record", outcome |-> outcome]]
        /\ CASE outcome = "submitted" -> Becomes(s, "queued") /\ UNCHANGED faults
             [] outcome = "rejected" ->
                    /\ faults < MaxFaults /\ faults' = faults + 1
                    /\ Becomes(s, "none")
             [] outcome = "ambiguous" ->
                    /\ faults < MaxFaults /\ faults' = faults + 1
                    /\ \E state \in {"none", "pending", "queued"} : Becomes(s, state)
    /\ UNCHANGED <<places, driver>>

\* _record_outcome
Record(s) ==
    /\ frontend[s].at = "record"
    /\ LET id == IF frontend[s].outcome = "submitted" THEN 1 ELSE 0
       IN  intent' = Put(intent, "site", s,
                         Recorded(intent["site"][s], frontend[s].outcome, id))
    /\ Answer(s, frontend[s].outcome)
    /\ UNCHANGED <<checkpoint, files, aside, job, driver, faults>>

\* _submitted_job: anything but "submitted" stops the run.
Reply ==
    /\ At("reply")
    /\ frontend[Shard].at = "answered"
    /\ IF frontend[Shard].outcome = "submitted" THEN Goto("wait") ELSE Halt
    /\ frontend' = [frontend EXCEPT ![Shard] = [at |-> "idle", outcome |-> "none"]]
    /\ UNCHANGED <<places, job, faults>>

\* The command has outlived its driver and answers nobody.
AnswersNobody(s) ==
    /\ frontend[s].at = "answered"
    /\ ~(At("reply") /\ Shard = s)
    /\ frontend' = [frontend EXCEPT ![s] = [at |-> "idle", outcome |-> "none"]]
    /\ UNCHANGED <<places, job, driver, faults>>

-----------------------------------------------------------------------------
(* await_terminal and collect *)

\* `grid status --apply` at the site finds the job over and records it.
Poll ==
    /\ At("wait")
    /\ job[Shard].state = "over"
    /\ intent' = [intent EXCEPT !["site"][Shard].terminal = TRUE]
    /\ Goto("retrieve")
    /\ UNCHANGED <<checkpoint, files, aside, job, frontend, faults>>

\* job_timeout_seconds have passed.
TimesOut ==
    /\ At("wait")
    /\ job[Shard].state # "over"
    /\ Halt
    /\ UNCHANGED <<places, job, frontend, faults>>

\* rsync of the site's run directory.
Retrieve ==
    /\ At("retrieve")
    /\ checkpoint' = Put(checkpoint, "fetched", Shard, checkpoint["site"][Shard])
    /\ files' = Put(files, "fetched", Shard, files["fetched"][Shard] \cup files["site"][Shard])
    /\ intent' = Put(intent, "fetched", Shard, intent["site"][Shard])
    /\ Goto("import")
    /\ UNCHANGED <<aside, job, frontend, faults>>

\* _require_forward_progress, which compares what both list as well.
ForwardProgress(s) ==
    checkpoint["local"][s] # None =>
        /\ checkpoint["local"][s] <= checkpoint["fetched"][s]
        /\ Listed("local", s) \subseteq files["local"][s]

\* Mutants: one part too few; the checkpoint is committed first.
NewParts_TooFew(s) ==
    {b \in Listed("fetched", s) : b \notin Listed("local", s) /\ b # Size[s]}
NextPart_CheckpointFirst(todo) == IF 0 \in todo THEN 0 ELSE Min(todo)

\* What _commit_retrieved_state moves after first_new_part.
NewParts(s) == Listed("fetched", s) \ Listed("local", s)

\* The order in which it does: 0, the checkpoint, comes last.
NextPart(todo) == IF todo = {0} THEN 0 ELSE Min(todo \ {0})

Import ==
    /\ At("import")
    /\ IF Clean("fetched", Shard) /\ ForwardProgress(Shard)
       THEN driver' = [driver EXCEPT !.at = "commit",
                                     !.upto = checkpoint["fetched"][Shard],
                                     !.todo = NewParts(Shard) \cup {0}]
       ELSE Halt
    /\ UNCHANGED <<places, job, frontend, faults>>

\* _commit_staged_artifact, and atomic_write_bytes of the checkpoint.
CommitPart ==
    /\ At("commit")
    /\ driver.todo # {}
    /\ LET item == NextPart(driver.todo)
       IN  /\ IF item = 0
              THEN checkpoint' = Put(checkpoint, "local", Shard, driver.upto) /\ UNCHANGED files
              ELSE /\ files' = Put(files, "local", Shard, files["local"][Shard] \cup {item})
                   /\ UNCHANGED checkpoint
           /\ driver' = [driver EXCEPT !.todo = @ \ {item},
                                       !.at = IF driver.todo = {item} THEN "validate" ELSE "commit"]
    /\ UNCHANGED <<aside, intent, job, frontend, faults>>

\* _require_clean_import_report
Validate ==
    /\ At("validate")
    /\ IF Clean("local", Shard) THEN Goto("adopt") ELSE Halt
    /\ UNCHANGED <<places, job, frontend, faults>>

\* adopt_retrieved_intent: an intent that is already here wins.
Adopt ==
    /\ At("adopt")
    /\ intent' = IF intent["local"][Shard] # None THEN intent
                 ELSE Put(intent, "local", Shard, intent["fetched"][Shard])
    /\ Goto("acknowledge")
    /\ UNCHANGED <<checkpoint, files, aside, job, frontend, faults>>

\* acknowledge_collected_results writes here, never at the site.
Acknowledge ==
    /\ At("acknowledge")
    /\ LET complete == driver.upto = Size[Shard]
           mine == intent["local"][Shard]
       IN  IF AcknowledgeAllowed(mine, complete)
           THEN /\ intent' = Put(intent, "local", Shard, Acknowledged(mine, complete))
                /\ driver' = [Resting EXCEPT !.at = "next", !.position = driver.position + 1,
                                             !.done = driver.done + 1]
           ELSE Halt /\ UNCHANGED intent
    /\ UNCHANGED <<checkpoint, files, aside, job, frontend, faults>>

-----------------------------------------------------------------------------
(* Jobs: `language run` at the site, as LanguageWorker has it *)

\* The scheduler registers a job late.
Register(s) ==
    /\ job[s].state = "pending"
    /\ Becomes(s, "queued")
    /\ UNCHANGED <<places, frontend, driver, faults>>

\* The worker resumes from a checkpoint it trusts.
JobBegins(s) ==
    /\ job[s].state = "queued"
    /\ job' = [job EXCEPT ![s] =
                IF Listed("site", s) \subseteq files["site"][s]
                THEN [state |-> "running", upto |-> checkpoint["site"][s]]
                ELSE [state |-> "over", upto |-> 0]]
    /\ UNCHANGED <<places, frontend, driver, faults>>

JobWritesPart(s) ==
    /\ job[s].state = "running"
    /\ job[s].upto < Size[s]
    /\ files' = Put(files, "site", s, files["site"][s] \cup {job[s].upto + 1})
    /\ job' = [job EXCEPT ![s].state = "wrote"]
    /\ UNCHANGED <<checkpoint, aside, intent, frontend, driver, faults>>

JobWritesCheckpoint(s) ==
    /\ job[s].state = "wrote"
    /\ checkpoint' = Put(checkpoint, "site", s, job[s].upto + 1)
    /\ job' = [job EXCEPT ![s] = [state |-> "running", upto |-> @.upto + 1]]
    /\ UNCHANGED <<files, aside, intent, frontend, driver, faults>>

\* The shard is done, or the processing budget is spent, though not in vain:
\* the last checkpoint.
JobStops(s) ==
    /\ job[s].state = "running"
    /\ \/ job[s].upto = Size[s]
       \/ ~OneJobSuffices /\ job[s].upto > checkpoint["local"][s]
    /\ checkpoint' = Put(checkpoint, "site", s, job[s].upto)
    /\ Becomes(s, "over")
    /\ UNCHANGED <<files, aside, intent, frontend, driver, faults>>

\* Walltime, a failed node, oardel.
JobKilled(s) ==
    /\ job[s].state \in Live
    /\ faults < MaxFaults
    /\ faults' = faults + 1
    /\ Becomes(s, "over")
    /\ UNCHANGED <<places, frontend, driver>>

-----------------------------------------------------------------------------
(* What else happens *)

\* The worker lock of the run directory is held from the import's first check
\* to its report, and while stage prepares.
LocalLocked(s) == driver.at \in {"commit", "validate"}

\* `language run` on the operator's own machine: a batch and its checkpoint,
\* or a batch only, when it is killed.
LocalWorks(s) ==
    /\ ~LocalLocked(s)
    /\ faults < MaxFaults
    /\ faults' = faults + 1
    /\ checkpoint["local"][s] # None
    /\ Listed("local", s) \subseteq files["local"][s]
    /\ checkpoint["local"][s] < Size[s]
    /\ LET b == checkpoint["local"][s] + 1
       IN  /\ files' = Put(files, "local", s, files["local"][s] \cup {b})
           /\ \/ UNCHANGED checkpoint
              \/ checkpoint' = Put(checkpoint, "local", s, b)
    /\ UNCHANGED <<aside, intent, job, frontend, driver>>

\* The driver is killed, or a command of its fails: ssh, rsync, a handler.  The
\* command at the site may go on without it.
DriverKilled ==
    /\ ~At("idle")
    /\ faults < MaxFaults
    /\ faults' = faults + 1
    /\ driver' = Resting
    /\ UNCHANGED <<places, job>>
    /\ \/ UNCHANGED frontend
       \/ /\ At("reply")
          /\ frontend' = [frontend EXCEPT ![Shard] = [at |-> "idle", outcome |-> "none"]]

\* The command at the site dies with its driver while oarsub runs, which the
\* scheduler may outlive.
KilledInOarsub ==
    /\ At("reply") /\ frontend[Shard].at = "oarsub"
    /\ faults < MaxFaults
    /\ faults' = faults + 1
    /\ driver' = Resting
    /\ Becomes(Shard, "pending")
    /\ frontend' = [frontend EXCEPT ![Shard] = [at |-> "idle", outcome |-> "none"]]
    /\ UNCHANGED places

-----------------------------------------------------------------------------
DriverStep ==
    \/ RunStarts \/ RunEnds \/ Visit
    \/ Stage \/ StageRefused \/ Sent \/ Submit \/ Reply
    \/ \E item \in {0} \cup Cursors : Send(item)
    \/ Poll \/ TimesOut \/ Retrieve
    \/ Import \/ CommitPart \/ Validate \/ Adopt \/ Acknowledge

SiteStep(s) == WriteIntent(s) \/ Oarsub(s) \/ Record(s) \/ AnswersNobody(s)

JobStep(s) == JobBegins(s) \/ JobWritesPart(s) \/ JobWritesCheckpoint(s) \/ JobStops(s)

Fault ==
    \/ VisitUnanswered \/ DriverKilled \/ KilledInOarsub
    \/ \E s \in Shards : JobKilled(s) \/ LocalWorks(s) \/ Register(s)

Next ==
    \/ DriverStep
    \/ \E s \in Shards : SiteStep(s) \/ JobStep(s)
    \/ Fault

Spec == Init /\ [][Next]_vars

\* The driver is started again whenever it has ended; commands and jobs go on
\* until they end.  No fault has to happen.
Fairness ==
    /\ WF_vars(DriverStep)
    /\ \A s \in Shards : WF_vars(SiteStep(s)) /\ WF_vars(JobStep(s))

FairSpec == Spec /\ Fairness

-----------------------------------------------------------------------------
(* Properties *)

\* Type invariant of the three places, the site and the driver.
TypeOK ==
    /\ checkpoint \in [Places -> [Shards -> Cursors \cup {None}]]
    /\ files \in [Places -> [Shards -> SUBSET Cursors]]
    /\ aside \in [Shards -> SUBSET Cursors]
    /\ intent \in [Places -> [Shards -> Intent \cup {None}]]
    /\ job \in [Shards -> [state : JobStates, upto : Cursors]]
    /\ frontend \in [Shards -> [at : Commands, outcome : Outcomes]]
    /\ driver \in [at : Points, position : 1..Len(Share) + 1, done : 0..Len(Share),
                   upto : Cursors, todo : SUBSET Cursors, blind : BOOLEAN]
    /\ faults \in 0..MaxFaults

\* Whatever is killed in whatever step, the checkpoint of the run directory
\* lists only batches whose files are there (_commit_retrieved_state).
CollectedIsWhole == \A s \in Shards : Listed("local", s) \subseteq files["local"][s]

\* No stage, retrieval, import or worker takes back a batch that the run
\* directory has listed (_initialized_checkpoint, _require_forward_progress).
CollectedOnlyExtends ==
    [][\A s \in Shards : checkpoint["local"][s] # None =>
        /\ checkpoint'["local"][s] # None
        /\ checkpoint'["local"][s] >= checkpoint["local"][s]]_vars

\* One shard is in flight at a time, as grid_driver.py:20 has it, even when the
\* driver was killed, lost its connection or gave up waiting (_drive, submit_job).
\* A shard finished here while its job was still to be registered is let go.
OneJobInFlight ==
    \A s, t \in Shards :
        job[s].state \in Live /\ job[t].state \in Live /\ ~Complete(s) /\ ~Complete(t)
            => s = t

\* Once a job is known to be submitted nothing takes back what it commits at
\* the site before it is collected (awaiting_collection): the checkpoint there
\* never falls below what the job has committed, except by the transfer of a
\* driver that knew nothing of it, because the site did not answer its question
\* or because a submission that had outlived its driver was still under way.
SubmittedWorkSurvives ==
    [][\A s \in Shards :
        intent["site"][s] # None /\ intent["site"][s].outcome = "submitted" =>
            \/ checkpoint'["site"][s] >= checkpoint["site"][s]
            \/ job[s].state \in {"running", "wrote"} /\ checkpoint'["site"][s] >= job[s].upto
            \/ At("send") /\ s = Shard /\ driver.blind]_vars

\* Where an operator has to look: an attempt of unknown outcome, a file at the
\* site or here that no checkpoint lists, a job that ended before its shard did,
\* a quarantine that is taken, work done here meanwhile.
Stranded(s) ==
    \/ /\ intent["site"][s] # None
       /\ Active(intent["site"][s]) /\ intent["site"][s].outcome # "submitted"
    \/ Orphans(s) # {}
    \/ /\ job[s].state = "over"
       /\ \/ files["site"][s] # Listed("site", s)
          \/ checkpoint["site"][s] < Size[s]

\* A driver that is started again and again brings its whole share home, unless
\* one of these cases stops it for good (_drive, process, await_terminal).
ShareCompletesOrStrands ==
    <>[](\A s \in Shards : Complete(s)) \/ <>[](\E s \in Shards : Stranded(s))

\* "You can resume the driver.  It skips a shard when its checkpoint already
\* validates as complete.  Thus a new run continues.  It does not repeat work."
\* (docs/language-detection.md:438): with no fault at all, every shard is done
\* in the end, however many jobs it takes.
NewRunContinues == <>(\A s \in Shards : Complete(s))
=============================================================================
