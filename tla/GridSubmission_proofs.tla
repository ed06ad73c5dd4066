----------------------- MODULE GridSubmission_proofs ------------------------
(* Theorems about GridSubmission, for any shards, commands and attempts.     *)
EXTENDS GridSubmission, TLAPS

-----------------------------------------------------------------------------
(* The inductive invariant *)

Holding == {"oarsub", "record", "state"}

\* An attempt of which nothing is known yet.
Fresh(i) ==
    /\ i.job = 0
    /\ i.outcome = "none"
    /\ ~i.terminal
    /\ ~i.acknowledged
    /\ ~i.complete

\* The attempts of s that the history m calls misbound.
Wrong(m, s) == {a \in Attempts : <<s, a>> \in m}

\* What every intent keeps, also one that the next command cannot read.
Ordered(i) ==
    /\ i.terminal => i.job # 0
    /\ i.acknowledged => i.terminal /\ i.outcome # "rejected"
    /\ i.complete => i.acknowledged

\* What an intent says is true of the jobs j of its shard: none is alive but,
\* perhaps, that of the attempt it records and those of the attempts in w.
Truthful(i, j, w) ==
    /\ Ordered(i)
    /\ i.attempt \in w => i.job # 0
    /\ i.attempt \notin w =>
        /\ i.job \in {0, i.attempt}
        /\ i.outcome = "rejected" => i.job = 0
        /\ i.terminal => j[i.attempt] = "over"
    /\ i.outcome = "rejected" => j[i.attempt] = "none"
    /\ \A a \in Attempts : a # i.attempt => a \in w \/ j[a] \in {"none", "over"}
    /\ \A a \in Attempts : a > i.attempt => a \notin w /\ j[a] = "none"

ShardInv(s) ==
    IF intent[s] = None
    THEN \A a \in Attempts : a \notin Wrong(misbound, s) /\ job[s][a] = "none"
    ELSE /\ Truthful(intent[s], job[s], Wrong(misbound, s))
         /\ intent[s].complete => local[s] = Batches

\* One intent at most reserves the run.
OneActive ==
    \A s, t \in Shards :
        intent[s] # None /\ intent[t] # None /\ Active(intent[s]) /\ Active(intent[t])
            => s = t

\* A command that waits for oarsub, or for its answer to be recorded.
Submitting(c) ==
    c.at \in {"oarsub", "record"} =>
        /\ intent[c.shard] # None
        /\ Fresh(intent[c.shard])
        /\ c.at = "oarsub" => job[c.shard][intent[c.shard].attempt] = "none"
        /\ c.at = "record" => c.job \in {0, intent[c.shard].attempt}
        /\ c.at = "record" /\ c.outcome = "rejected" =>
            c.job = 0 /\ job[c.shard][intent[c.shard].attempt] = "none"

CommandInv(p) ==
    /\ proc[p].at # "idle" => proc[p].shard \in Shards
    /\ proc[p].at \in Holding <=> lock = p
    /\ Submitting(proc[p])
    /\ proc[p].at = "state" =>
        intent[proc[p].shard] # None /\ intent[proc[p].shard].job # 0
    /\ proc[p].at = "acknowledge" => local[proc[p].shard] >= proc[p].upto

IInv ==
    /\ TypeOK
    /\ \A s \in Shards : ShardInv(s)
    /\ OneActive
    /\ \A p \in Processes : CommandInv(p)

USE DEF Points, Holding
-----------------------------------------------------------------------------
(* Records *)

LEMMA JobNumbers == 0 \in JobIds /\ \A a \in Attempts : a \in JobIds
  BY DEF JobIds

LEMMA IntentFields ==
  ASSUME NEW i \in Intent
  PROVE  /\ i # None
         /\ i.attempt \in Attempts /\ i.job \in JobIds
         /\ i.outcome \in Outcomes
         /\ i.terminal \in BOOLEAN /\ i.acknowledged \in BOOLEAN
         /\ i.complete \in BOOLEAN
  BY NoneAssumption DEF Intent

LEMMA CommandFields ==
  ASSUME NEW c \in Command
  PROVE  /\ c.at \in Points /\ c.shard \in Shards \cup {None}
         /\ c.outcome \in Outcomes /\ c.job \in JobIds
         /\ c.upto \in 0..Batches
  BY DEF Command

LEMMA IdleCommand == Idle \in Command /\ Idle.at = "idle"
  BY BatchesAssumption, JobNumbers DEF Idle, Busy, Command, Outcomes

LEMMA AttemptNumbers == \A a \in Attempts : a \in Nat /\ a # 0
  BY AttemptsAssumption DEF Attempts

\* What Begin and Retrieve make of a command.
LEMMA BusyCommand ==
  ASSUME NEW point \in Points, NEW s \in Shards, NEW n \in 0..Batches
  PROVE  LET c == Busy(point, s, n)
         IN  c \in Command /\ c.at = point /\ c.shard = s /\ c.upto = n
  BY JobNumbers DEF Busy, Command, Outcomes

\* What the answer of oarsub and an acknowledgement make of an intent.
LEMMA RecordedIntent ==
  ASSUME NEW i \in Intent, NEW o \in Outcomes, NEW n \in JobIds
  PROVE  /\ Recorded(i, o, n) \in Intent
         /\ Recorded(i, o, n).outcome = o
         /\ Recorded(i, o, n).job = n
         /\ Recorded(i, o, n).attempt = i.attempt
         /\ Recorded(i, o, n).terminal <=> i.terminal
         /\ Recorded(i, o, n).acknowledged <=> i.acknowledged
         /\ Recorded(i, o, n).complete <=> i.complete
<1> DEFINE h == [i EXCEPT !.outcome = o]
<1>1. Recorded(i, o, n) = [h EXCEPT !.job = n]
  BY DEF Recorded
<1>2. /\ h \in Intent /\ h.outcome = o /\ h.attempt = i.attempt
      /\ h.terminal = i.terminal /\ h.acknowledged = i.acknowledged
      /\ h.complete = i.complete
  BY DEF Intent
<1> HIDE DEF h
<1> QED
  BY <1>1, <1>2 DEF Intent

LEMMA AcknowledgedIntent ==
  ASSUME NEW i \in Intent, NEW b \in BOOLEAN
  PROVE  /\ Acknowledged(i, b) \in Intent
         /\ Acknowledged(i, b).outcome = i.outcome
         /\ Acknowledged(i, b).job = i.job
         /\ Acknowledged(i, b).attempt = i.attempt
         /\ Acknowledged(i, b).terminal <=> i.terminal
         /\ Acknowledged(i, b).acknowledged
         /\ Acknowledged(i, b).complete <=> b
<1> DEFINE h == [i EXCEPT !.acknowledged = TRUE]
<1>1. Acknowledged(i, b) = [h EXCEPT !.complete = b]
  BY DEF Acknowledged
<1>2. /\ h \in Intent /\ h.outcome = i.outcome /\ h.job = i.job
      /\ h.attempt = i.attempt /\ h.terminal = i.terminal
      /\ h.acknowledged = TRUE
  BY DEF Intent
<1> HIDE DEF h
<1> QED
  BY <1>1, <1>2 DEF Intent

\* The intent that submit writes.
LEMMA FreshIntent ==
  ASSUME NEW s \in Shards, NextAttempt(s) \in Attempts
  PROVE  /\ NewIntent(s) \in Intent
         /\ Fresh(NewIntent(s)) /\ Readable(NewIntent(s))
         /\ NewIntent(s).attempt = NextAttempt(s)
         /\ Active(NewIntent(s))
  BY JobNumbers DEF NewIntent, Intent, Outcomes, Fresh, Readable, Active

-----------------------------------------------------------------------------
(* Commands that a step leaves alone *)

\* Who does not hold the lock does not look at intents and jobs.
LEMMA OtherCommands ==
  ASSUME TypeOK, NEW p \in Processes, NEW q \in Processes, q # p,
         CommandInv(q), proc'[q] = proc[q],
         lock \in {None, p}, lock' \in {None, p},
         \A s \in Shards : local[s] \in Nat /\ local'[s] \in Nat /\ local'[s] >= local[s]
  PROVE  CommandInv(q)'
<1>1. proc[q] \in Command /\ q # None
  BY NoneAssumption DEF TypeOK
<1>2. proc[q].at \in Points /\ proc[q].upto \in Nat
  BY <1>1, CommandFields, BatchesAssumption
<1>3. proc[q].at \notin Holding
  BY <1>1 DEF CommandInv
<1>4. ~(lock' = q)
  BY <1>1
<1>5. proc[q].at = "acknowledge" => local'[proc[q].shard] >= proc[q].upto
  BY <1>2 DEF CommandInv
<1> QED
  BY <1>2, <1>3, <1>4, <1>5 DEF CommandInv, Submitting

\* A step that changes no file and no job.
LEMMA QuietCommands ==
  ASSUME NEW q \in Processes, CommandInv(q), proc'[q] = proc[q],
         lock' = q <=> lock = q, UNCHANGED <<intent, job, local>>
  PROVE  CommandInv(q)'
  BY DEF CommandInv, Submitting

LEMMA QuietShards ==
  ASSUME IInv, UNCHANGED <<intent, job, misbound>>,
         \A s \in Shards : local'[s] = local[s] \/ (local[s] # Batches)
  PROVE  (\A s \in Shards : ShardInv(s)') /\ OneActive'
  BY DEF IInv, ShardInv, OneActive

-----------------------------------------------------------------------------
(* Steps that change neither an intent nor a job *)

\* What the invariant says of the command that takes a step.
LEMMA Actor ==
  ASSUME IInv, NEW p \in Processes
  PROVE  /\ CommandInv(p)
         /\ proc[p] \in Command /\ p # None
         /\ proc[p].at \in Points /\ proc[p].upto \in 0..Batches
         /\ proc[p].job \in JobIds /\ proc[p].outcome \in Outcomes
         /\ proc[p].at # "idle" => proc[p].shard \in Shards
         /\ \A c : proc' = [proc EXCEPT ![p] = c] =>
                proc'[p] = c /\ \A q \in Processes : q # p => proc'[q] = proc[q]
<1>1. CommandInv(p) /\ proc[p] \in Command /\ p # None
  BY NoneAssumption DEF IInv, TypeOK
<1>2. \A c : proc' = [proc EXCEPT ![p] = c] =>
         proc'[p] = c /\ \A q \in Processes : q # p => proc'[q] = proc[q]
  BY DEF IInv, TypeOK
<1> QED
  BY <1>1, <1>2, CommandFields DEF CommandInv

LEMMA LocalNumbers ==
  ASSUME IInv
  PROVE  \A s \in Shards : local[s] \in 0..Batches /\ local[s] \in Nat
<1>1. \A s \in Shards : local[s] \in 0..Batches
  BY DEF IInv, TypeOK
<1>2. \A n \in 0..Batches : n \in Nat
  BY BatchesAssumption
<1> QED
  BY <1>1, <1>2

LEMMA StepCapture ==
  ASSUME IInv, NEW p \in Processes, NEW s \in Shards, Capture(p, s)
  PROVE  IInv'
<1> DEFINE c == Busy("captured", s, 0)
<1>1. proc' = [proc EXCEPT ![p] = c] /\ proc[p].at = "idle"
  BY DEF Capture, Begin, At
<1>2. UNCHANGED <<intent, local, job, committed, lock, misbound>>
  BY DEF Capture
<1>3. c \in Command /\ c.at = "captured" /\ c.shard = s
  BY BusyCommand, BatchesAssumption
<1> HIDE DEF c
<1>4. TypeOK'
  BY <1>1, <1>2, <1>3 DEF IInv, TypeOK
<1>5. (\A t \in Shards : ShardInv(t)') /\ OneActive'
  BY <1>2, QuietShards, LocalNumbers
<1>6. ASSUME NEW q \in Processes PROVE CommandInv(q)'
  <2>1. CASE q = p
    BY <1>1, <1>2, <1>3, <2>1, Actor DEF CommandInv, Submitting
  <2>2. CASE q # p
    BY <1>1, <1>2, <2>2, Actor, QuietCommands DEF IInv
  <2> QED
    BY <2>1, <2>2
<1> QED
  BY <1>4, <1>5, <1>6 DEF IInv

LEMMA StepRetrieve ==
  ASSUME IInv, NEW p \in Processes, NEW s \in Shards, Retrieve(p, s)
  PROVE  IInv'
<1>0. PICK n \in 0..committed[s] :
        proc' = [proc EXCEPT ![p] = Busy("import", s, n)]
  BY DEF Retrieve
<1> DEFINE c == Busy("import", s, n)
<1>1. proc' = [proc EXCEPT ![p] = c] /\ proc[p].at = "idle"
  BY <1>0 DEF Retrieve, At
<1>2. UNCHANGED <<intent, local, job, committed, lock, misbound>>
  BY DEF Retrieve
<1>3. c \in Command /\ c.at = "import" /\ c.shard = s
  <2>1. committed[s] \in 0..Batches
    BY DEF IInv, TypeOK
  <2>2. n \in 0..Batches
    BY <2>1, BatchesAssumption
  <2> QED
    BY <2>2, BusyCommand
<1> HIDE DEF c
<1>4. TypeOK'
  BY <1>1, <1>2, <1>3 DEF IInv, TypeOK
<1>5. (\A t \in Shards : ShardInv(t)') /\ OneActive'
  BY <1>2, QuietShards, LocalNumbers
<1>6. ASSUME NEW q \in Processes PROVE CommandInv(q)'
  <2>1. CASE q = p
    BY <1>1, <1>2, <1>3, <2>1, Actor DEF CommandInv, Submitting
  <2>2. CASE q # p
    BY <1>1, <1>2, <2>2, Actor, QuietCommands DEF IInv
  <2> QED
    BY <2>1, <2>2
<1> QED
  BY <1>4, <1>5, <1>6 DEF IInv

LEMMA StepStop ==
  ASSUME IInv, NEW p \in Processes, Stop(p)
  PROVE  IInv'
<1>1. /\ proc' = [proc EXCEPT ![p] = Idle]
      /\ lock' = IF lock = p THEN None ELSE lock
      /\ UNCHANGED <<intent, local, job, committed, misbound>>
  BY DEF Stop, End
<1>2. lock' # p /\ \A q \in Processes : q # p => (lock' = q <=> lock = q)
  BY <1>1, NoneAssumption
<1>3. TypeOK'
  BY <1>1, IdleCommand DEF IInv, TypeOK
<1>4. (\A t \in Shards : ShardInv(t)') /\ OneActive'
  BY <1>1, QuietShards, LocalNumbers
<1>5. ASSUME NEW q \in Processes PROVE CommandInv(q)'
  <2>1. CASE q = p
    BY ZenonT(30), <1>1, <1>2, <2>1, Actor, IdleCommand DEF CommandInv, Submitting
  <2>2. CASE q # p
    BY <1>1, <1>2, <2>2, Actor, QuietCommands DEF IInv
  <2> QED
    BY <2>1, <2>2
<1> QED
  BY <1>3, <1>4, <1>5 DEF IInv

LEMMA StepReconcile ==
  ASSUME IInv, NEW p \in Processes, NEW s \in Shards, Reconcile(p, s)
  PROVE  IInv'
<1> DEFINE c == Busy("state", s, 0)
<1>1. /\ proc' = [proc EXCEPT ![p] = c] /\ proc[p].at = "idle"
      /\ lock = None /\ lock' = p
      /\ intent[s] # None /\ intent[s].job # 0
      /\ UNCHANGED <<intent, local, job, committed, misbound>>
  BY DEF Reconcile, Begin, At, Acquire
<1>2. c \in Command /\ c.at = "state" /\ c.shard = s
  BY BusyCommand, BatchesAssumption
<1> HIDE DEF c
<1>3. TypeOK'
  BY <1>1, <1>2 DEF IInv, TypeOK
<1>4. (\A t \in Shards : ShardInv(t)') /\ OneActive'
  BY <1>1, QuietShards, LocalNumbers
<1>5. ASSUME NEW q \in Processes PROVE CommandInv(q)'
  <2>1. CASE q = p
    BY <1>1, <1>2, <2>1, Actor DEF CommandInv, Submitting
  <2>2. CASE q # p
    BY <1>1, <2>2, Actor, QuietCommands DEF IInv
  <2> QED
    BY <2>1, <2>2
<1> QED
  BY <1>3, <1>4, <1>5 DEF IInv

LEMMA StepImport ==
  ASSUME IInv, NEW p \in Processes, Import(p)
  PROVE  IInv'
<1> DEFINE s == proc[p].shard
           c == [proc[p] EXCEPT !.at = "acknowledge"]
<1>1. /\ proc[p].at = "import" /\ lock = None /\ lock' = None
      /\ proc[p].upto >= local[s]
      /\ local' = [local EXCEPT ![s] = proc[p].upto]
      /\ proc' = [proc EXCEPT ![p] = c]
      /\ UNCHANGED <<intent, job, committed, misbound>>
  BY DEF Import, At, Atomic, ForwardProgress
<1>2. s \in Shards /\ proc[p].upto \in 0..Batches
  BY <1>1, Actor
<1>3. c \in Command /\ c.at = "acknowledge" /\ c.shard = s /\ c.upto = proc[p].upto
  BY Actor DEF Command
<1> HIDE DEF c, s
<1>4. TypeOK'
  BY <1>1, <1>2, <1>3 DEF IInv, TypeOK
<1>5. \A t \in Shards : local'[t] \in 0..Batches /\ local'[t] >= local[t]
  BY <1>1, <1>2, LocalNumbers, BatchesAssumption DEF IInv, TypeOK
<1>6. (\A t \in Shards : ShardInv(t)') /\ OneActive'
  <2>1. \A t \in Shards : local'[t] = local[t] \/ local[t] # Batches
    BY <1>5, LocalNumbers, BatchesAssumption
  <2> QED
    BY <1>1, <2>1, QuietShards
<1>7. ASSUME NEW q \in Processes PROVE CommandInv(q)'
  <2>1. CASE q = p
    <3>1. local'[s] >= c.upto
      BY <1>1, <1>2, <1>3, BatchesAssumption DEF IInv, TypeOK
    <3> QED
      BY <1>1, <1>2, <1>3, <2>1, <3>1, Actor DEF CommandInv, Submitting
  <2>2. CASE q # p
    <3>1. \A t \in Shards : local[t] \in Nat /\ local'[t] \in Nat /\ local'[t] >= local[t]
      BY <1>5, LocalNumbers, BatchesAssumption
    <3> QED
      BY <1>1, <2>2, <3>1, Actor, OtherCommands DEF IInv
  <2> QED
    BY <2>1, <2>2
<1> QED
  BY <1>4, <1>6, <1>7 DEF IInv

-----------------------------------------------------------------------------
(* Steps that change an intent *)

\* What the invariant says of a shard that has an intent.
LEMMA ShardFacts ==
  ASSUME IInv, NEW s \in Shards
  PROVE  /\ intent[s] # None => intent[s] \in Intent
         /\ job[s] \in [Attempts -> JobStates]
         /\ intent[s] # None => Truthful(intent[s], job[s], Wrong(misbound, s))
         /\ intent[s] # None /\ intent[s].complete => local[s] = Batches
         /\ intent[s] = None =>
                \A a \in Attempts : a \notin Wrong(misbound, s) /\ job[s][a] = "none"
  BY DEF IInv, TypeOK, ShardInv

\* A step that writes one intent, and may call its attempt misbound.
LEMMA OneIntentChanges ==
  ASSUME IInv, NEW s \in Shards, NEW i \in Intent,
         intent' = [intent EXCEPT ![s] = i], UNCHANGED <<job, local>>,
         \A t \in Shards : t # s => Wrong(misbound', t) = Wrong(misbound, t),
         Truthful(i, job[s], Wrong(misbound', s)),
         i.complete => local[s] = Batches,
         Active(i) => \A t \in Shards : t # s /\ intent[t] # None => ~Active(intent[t])
  PROVE  /\ intent' \in [Shards -> Intent \cup {None}]
         /\ \A t \in Shards : ShardInv(t)'
         /\ OneActive'
<1>1. intent \in [Shards -> Intent \cup {None}] /\ i # None
  BY NoneAssumption DEF IInv, TypeOK
<1>2. intent'[s] = i /\ \A t \in Shards : t # s => intent'[t] = intent[t]
  BY <1>1
<1>3. \A t \in Shards : ShardInv(t)'
  BY <1>1, <1>2 DEF IInv, ShardInv
<1>4. OneActive'
  BY <1>1, <1>2 DEF IInv, OneActive
<1> QED
  BY <1>1, <1>3, <1>4

LEMMA StepWriteIntent ==
  ASSUME IInv, NEW p \in Processes, WriteIntent(p)
  PROVE  IInv'
<1> DEFINE s == proc[p].shard
           i == NewIntent(s)
           c == [proc[p] EXCEPT !.at = "oarsub"]
<1>1. /\ proc[p].at = "captured" /\ MaySubmit(s)
      /\ lock = None /\ lock' = p
      /\ intent' = [intent EXCEPT ![s] = i]
      /\ proc' = [proc EXCEPT ![p] = c]
      /\ UNCHANGED <<local, job, committed, misbound>>
  BY DEF WriteIntent, At, Acquire
<1>2. s \in Shards
  BY <1>1, Actor
<1>3. NextAttempt(s) \in Attempts
  BY <1>1 DEF MaySubmit
<1>4. i \in Intent /\ Fresh(i) /\ Readable(i) /\ i.attempt = NextAttempt(s)
  BY <1>2, <1>3, FreshIntent
<1>5. c \in Command /\ c.at = "oarsub" /\ c.shard = s
  BY Actor DEF Command
<1>6. intent[s] # None =>
        /\ ~Active(intent[s])
        /\ \/ intent[s].attempt \in Wrong(misbound, s)
           \/ job[s][intent[s].attempt] \in {"none", "over"}
        /\ i.attempt = intent[s].attempt + 1
  <2>1. ASSUME intent[s] # None
        PROVE  intent[s].outcome = "rejected" \/ intent[s].terminal
    BY <1>1, <2>1 DEF MaySubmit, MayRetry, Active
  <2> QED
    BY <1>2, <1>4, <2>1, ShardFacts DEF NextAttempt, Truthful, Active
<1>7. intent[s] = None => i.attempt = 1
  BY <1>4 DEF NextAttempt
<1>8. /\ Truthful(i, job[s], Wrong(misbound, s))
      /\ job[s][i.attempt] = "none"
  <2>1. CASE intent[s] = None
    BY <1>2, <1>3, <1>4, <1>7, <2>1, ShardFacts, AttemptNumbers DEF Truthful, Fresh, Ordered
  <2>2. CASE intent[s] # None
    <3>1. intent[s].attempt \in Attempts
      BY <1>2, <2>2, ShardFacts, IntentFields
    <3>2. \A a \in Attempts : a # intent[s].attempt =>
            a \in Wrong(misbound, s) \/ job[s][a] \in {"none", "over"}
      BY <1>2, <2>2, ShardFacts DEF Truthful
    <3>3. \A a \in Attempts : a > intent[s].attempt =>
            a \notin Wrong(misbound, s) /\ job[s][a] = "none"
      BY <1>2, <2>2, ShardFacts DEF Truthful
    <3>4. \A a \in Attempts : a \in Wrong(misbound, s) \/ job[s][a] \in {"none", "over"}
      BY <1>6, <2>2, <3>1, <3>2
    <3>5. \A a \in Attempts : a >= i.attempt =>
            a \notin Wrong(misbound, s) /\ job[s][a] = "none"
      BY <1>6, <2>2, <3>1, <3>3, AttemptNumbers
    <3> QED
      BY <1>3, <1>4, <3>4, <3>5, AttemptNumbers DEF Truthful, Fresh, Ordered
  <2> QED
    BY <2>1, <2>2
<1>9. \A t \in Shards : t # s /\ intent[t] # None => ~Active(intent[t])
  BY <1>1 DEF MaySubmit, RunIsFree
<1> HIDE DEF c, i, s
<1>10. /\ intent' \in [Shards -> Intent \cup {None}]
       /\ \A t \in Shards : ShardInv(t)'
       /\ OneActive'
  BY <1>1, <1>2, <1>4, <1>8, <1>9, OneIntentChanges DEF Fresh
<1>11. TypeOK'
  BY <1>1, <1>5, <1>10 DEF IInv, TypeOK
<1>12. ASSUME NEW q \in Processes PROVE CommandInv(q)'
  <2>1. CASE q = p
    <3>1. intent'[s] = i /\ i # None
      BY <1>1, <1>2, <1>4, IntentFields DEF IInv, TypeOK
    <3>2. proc'[q] = c /\ lock' = q
      BY <1>1, <2>1, Actor
    <3>3. Submitting(proc[q])'
      BY <1>1, <1>4, <1>5, <1>8, <3>1, <3>2 DEF Submitting, Fresh
    <3> QED
      BY <1>2, <1>5, <3>2, <3>3 DEF CommandInv, Submitting
  <2>2. CASE q # p
    BY <1>1, <2>2, Actor, OtherCommands, LocalNumbers DEF IInv
  <2> QED
    BY <2>1, <2>2
<1> QED
  BY <1>10, <1>11, <1>12 DEF IInv

LEMMA StepRecord ==
  ASSUME IInv, NEW p \in Processes, Record(p)
  PROVE  IInv'
<1> DEFINE s == proc[p].shard
           o == proc[p].outcome
           n == proc[p].job
           i == Recorded(intent[s], o, n)
<1>1. /\ proc[p].at = "record"
      /\ intent' = [intent EXCEPT ![s] = i]
      /\ lock' = None
      /\ proc' = [proc EXCEPT ![p] = Idle]
      /\ UNCHANGED <<local, job, committed, misbound>>
  BY DEF Record, At, Release, End
<1>2. s \in Shards /\ lock = p
  BY <1>1, Actor DEF CommandInv
<1>3. /\ intent[s] \in Intent /\ intent[s] # None /\ Fresh(intent[s])
      /\ Truthful(intent[s], job[s], Wrong(misbound, s))
      /\ proc[p].job \in {0, intent[s].attempt}
      /\ proc[p].outcome = "rejected" =>
            proc[p].job = 0 /\ job[s][intent[s].attempt] = "none"
  BY <1>1, <1>2, Actor, ShardFacts DEF CommandInv, Submitting
<1>4. /\ i \in Intent /\ i.attempt = intent[s].attempt
      /\ i.outcome = proc[p].outcome /\ i.job = proc[p].job
      /\ ~i.terminal /\ ~i.acknowledged /\ ~i.complete
  <2>1. proc[p].outcome \in Outcomes /\ proc[p].job \in JobIds
    BY Actor
  <2>2. /\ i \in Intent /\ i.attempt = intent[s].attempt
        /\ i.outcome = proc[p].outcome /\ i.job = proc[p].job
        /\ i.terminal <=> intent[s].terminal
        /\ i.acknowledged <=> intent[s].acknowledged
        /\ i.complete <=> intent[s].complete
    <3>1. intent[s] \in Intent /\ o \in Outcomes /\ n \in JobIds
      BY <1>3, <2>1
    <3> QED
      BY <3>1, RecordedIntent
  <2> QED
    BY <1>3, <2>2 DEF Fresh
<1>5. Truthful(i, job[s], Wrong(misbound, s))
  BY <1>3, <1>4 DEF Truthful, Ordered, Fresh
<1>6. \A t \in Shards : t # s /\ intent[t] # None => ~Active(intent[t])
  BY <1>2, <1>3 DEF IInv, OneActive, Fresh, Active
<1> HIDE DEF i, s
<1>7. /\ intent' \in [Shards -> Intent \cup {None}]
      /\ \A t \in Shards : ShardInv(t)'
      /\ OneActive'
  BY <1>1, <1>2, <1>4, <1>5, <1>6, OneIntentChanges
<1>8. TypeOK'
  BY <1>1, <1>7, IdleCommand DEF IInv, TypeOK
<1>9. ASSUME NEW q \in Processes PROVE CommandInv(q)'
  <2>1. CASE q = p
    <3>1. proc'[q].at = "idle" /\ lock' # q
      BY <1>1, <2>1, Actor, IdleCommand
    <3> QED
      BY <3>1 DEF CommandInv, Submitting
  <2>2. CASE q # p
    BY <1>1, <1>2, <2>2, Actor, OtherCommands, LocalNumbers DEF IInv
  <2> QED
    BY <2>1, <2>2
<1> QED
  BY <1>7, <1>8, <1>9 DEF IInv

\* A unique match is a job that lives or is over.
LEMMA ResolvedJob ==
  ASSUME NEW s \in Shards, NEW a \in Resolved(s)
  PROVE  a \in Attempts /\ job[s][a] \in {"live", "over"}
<1>1. PICK over \in SUBSET JobsIn(s, {"over"}) :
        {a} = JobsIn(s, {"live"}) \cup over
  BY DEF Resolved, Listings
<1>2. a \in JobsIn(s, {"live"}) \cup JobsIn(s, {"over"})
  BY <1>1
<1> QED
  BY <1>2 DEF JobsIn

LEMMA StepResolve ==
  ASSUME IInv, NEW p \in Processes, NEW s \in Shards, Resolve(p, s)
  PROVE  IInv'
<1>0. PICK a \in Resolved(s) :
        /\ intent' = [intent EXCEPT ![s].job = a]
        /\ misbound' = IF a = intent[s].attempt THEN misbound
                       ELSE misbound \cup {<<s, intent[s].attempt>>}
  BY DEF Resolve
<1> DEFINE i == [intent[s] EXCEPT !.job = a]
           c == Busy("state", s, 0)
<1>1. /\ proc[p].at = "idle" /\ proc' = [proc EXCEPT ![p] = c]
      /\ lock = None /\ lock' = p
      /\ intent[s] # None /\ Readable(intent[s])
      /\ intent[s].job = 0
      /\ UNCHANGED <<local, job, committed>>
  BY DEF Resolve, Begin, At, Acquire
<1>2. intent' = [intent EXCEPT ![s] = i]
  BY <1>0
<1>3. a \in Attempts /\ job[s][a] \in {"live", "over"} /\ a # 0
  BY ResolvedJob, AttemptNumbers
<1>4. intent[s] \in Intent /\ Truthful(intent[s], job[s], Wrong(misbound, s))
  BY <1>1, ShardFacts
<1>5. /\ i \in Intent /\ i.job = a /\ i.attempt = intent[s].attempt
      /\ i.outcome = intent[s].outcome
      /\ i.terminal <=> intent[s].terminal
      /\ i.acknowledged <=> intent[s].acknowledged
      /\ i.complete <=> intent[s].complete
  <2>1. ASSUME NEW x \in Intent
        PROVE  LET y == [x EXCEPT !.job = a]
               IN  /\ y \in Intent /\ y.job = a /\ y.attempt = x.attempt
                   /\ y.outcome = x.outcome
                   /\ y.terminal <=> x.terminal
                   /\ y.acknowledged <=> x.acknowledged
                   /\ y.complete <=> x.complete
    BY <1>3, JobNumbers DEF Intent
  <2> QED
    BY <1>3, <1>4, <2>1
<1>6. c \in Command /\ c.at = "state" /\ c.shard = s
  BY BusyCommand, BatchesAssumption
<1> HIDE DEF i, c
<1>7. /\ intent[s].attempt \in Attempts /\ ~intent[s].terminal
      /\ ~intent[s].acknowledged /\ ~intent[s].complete
  BY <1>1, <1>4, IntentFields DEF Truthful, Ordered
<1>8. /\ misbound' \subseteq Shards \X Attempts
      /\ \A t \in Shards : t # s => Wrong(misbound', t) = Wrong(misbound, t)
      /\ Wrong(misbound', s) = IF a = intent[s].attempt THEN Wrong(misbound, s)
                               ELSE Wrong(misbound, s) \cup {intent[s].attempt}
  BY <1>0, <1>7 DEF Wrong, IInv, TypeOK
<1>9. Truthful(i, job[s], Wrong(misbound', s))
  <2>1. CASE a = intent[s].attempt
    BY <1>1, <1>3, <1>4, <1>5, <1>7, <1>8, <2>1 DEF Truthful, Ordered
  <2>2. CASE a # intent[s].attempt
    BY <1>1, <1>3, <1>4, <1>5, <1>7, <1>8, <2>2, AttemptNumbers DEF Truthful, Ordered
  <2> QED
    BY <2>1, <2>2
<1>10. /\ intent' \in [Shards -> Intent \cup {None}]
       /\ \A t \in Shards : ShardInv(t)'
       /\ OneActive'
  <2>1. ~i.complete
    BY <1>5, <1>7
  <2>2. Active(i) => \A t \in Shards : t # s /\ intent[t] # None => ~Active(intent[t])
    BY <1>1, <1>5 DEF IInv, OneActive, Active
  <2> QED
    BY <1>1, <1>2, <1>5, <1>8, <1>9, <2>1, <2>2, OneIntentChanges
<1>11. TypeOK'
  BY <1>1, <1>6, <1>8, <1>10 DEF IInv, TypeOK
<1>12. ASSUME NEW q \in Processes PROVE CommandInv(q)'
  <2>1. CASE q = p
    <3>1. intent'[s] = i /\ i # None
      BY <1>2, <1>5, IntentFields DEF IInv, TypeOK
    <3>2. proc'[q] = c /\ lock' = q
      BY <1>1, <2>1, Actor
    <3> QED
      BY <1>3, <1>5, <1>6, <3>1, <3>2 DEF CommandInv, Submitting
  <2>2. CASE q # p
    BY <1>1, <2>2, Actor, OtherCommands, LocalNumbers DEF IInv
  <2> QED
    BY <2>1, <2>2
<1> QED
  BY <1>10, <1>11, <1>12 DEF IInv

LEMMA StepRecordTerminal ==
  ASSUME IInv, NEW p \in Processes, RecordTerminal(p)
  PROVE  IInv'
<1> DEFINE s == proc[p].shard
           i == [intent[s] EXCEPT !.terminal = TRUE]
<1>1. /\ proc[p].at = "state"
      /\ job[s][intent[s].job] = "over"
      /\ intent' = [intent EXCEPT ![s] = i]
      /\ lock' = None
      /\ proc' = [proc EXCEPT ![p] = Idle]
      /\ UNCHANGED <<local, job, committed, misbound>>
  BY DEF RecordTerminal, At, Release, End
<1>2. /\ s \in Shards /\ lock = p
      /\ intent[s] # None /\ intent[s].job # 0
  BY <1>1, Actor DEF CommandInv
<1>3. intent[s] \in Intent /\ Truthful(intent[s], job[s], Wrong(misbound, s))
  BY <1>2, ShardFacts
<1>4. /\ i \in Intent /\ i.job = intent[s].job /\ i.attempt = intent[s].attempt
      /\ i.outcome = intent[s].outcome
      /\ i.terminal
      /\ i.acknowledged <=> intent[s].acknowledged
      /\ i.complete <=> intent[s].complete
  <2>1. ASSUME NEW x \in Intent
        PROVE  LET y == [x EXCEPT !.terminal = TRUE]
               IN  /\ y \in Intent /\ y.job = x.job /\ y.attempt = x.attempt
                   /\ y.outcome = x.outcome
                   /\ y.terminal
                   /\ y.acknowledged <=> x.acknowledged
                   /\ y.complete <=> x.complete
    BY DEF Intent
  <2> QED
    BY <1>3, <2>1
<1> HIDE DEF i, s
<1>5. Truthful(i, job[s], Wrong(misbound, s))
  BY <1>1, <1>2, <1>3, <1>4 DEF Truthful, Ordered, Readable
<1>6. /\ intent' \in [Shards -> Intent \cup {None}]
      /\ \A t \in Shards : ShardInv(t)'
      /\ OneActive'
  <2>1. i.complete => local[s] = Batches
    BY <1>2, <1>4, ShardFacts
  <2>2. ~Active(i)
    BY <1>4 DEF Active
  <2> QED
    BY <1>1, <1>2, <1>4, <1>5, <2>1, <2>2, OneIntentChanges
<1>7. TypeOK'
  BY <1>1, <1>6, IdleCommand DEF IInv, TypeOK
<1>8. ASSUME NEW q \in Processes PROVE CommandInv(q)'
  <2>1. CASE q = p
    <3>1. proc'[q].at = "idle" /\ lock' # q
      BY <1>1, <2>1, Actor, IdleCommand
    <3> QED
      BY <3>1 DEF CommandInv, Submitting
  <2>2. CASE q # p
    BY <1>1, <1>2, <2>2, Actor, OtherCommands, LocalNumbers DEF IInv
  <2> QED
    BY <2>1, <2>2
<1> QED
  BY <1>6, <1>7, <1>8 DEF IInv

LEMMA StepAcknowledge ==
  ASSUME IInv, NEW p \in Processes, Acknowledge(p)
  PROVE  IInv'
<1> DEFINE s == proc[p].shard
           b == proc[p].upto = Batches
           i == Acknowledged(intent[s], b)
<1>1. /\ proc[p].at = "acknowledge"
      /\ intent[s] # None /\ Readable(intent[s])
      /\ AcknowledgeAllowed(intent[s], b)
      /\ intent' = [intent EXCEPT ![s] = i]
      /\ lock = None /\ lock' = None
      /\ proc' = [proc EXCEPT ![p] = Idle]
      /\ UNCHANGED <<local, job, committed, misbound>>
  BY DEF Acknowledge, At, Atomic, End
<1>2. s \in Shards /\ local[s] >= proc[p].upto
  BY <1>1, Actor DEF CommandInv
<1>3. intent[s] \in Intent /\ Truthful(intent[s], job[s], Wrong(misbound, s))
  BY <1>1, <1>2, ShardFacts
<1>4. /\ i \in Intent /\ i.job = intent[s].job /\ i.attempt = intent[s].attempt
      /\ i.outcome = intent[s].outcome
      /\ i.terminal <=> intent[s].terminal
      /\ i.acknowledged
      /\ i.complete <=> b
  BY <1>3, AcknowledgedIntent
<1>5. b => local[s] = Batches
  BY <1>2, LocalNumbers, BatchesAssumption
<1> HIDE DEF i, b, s
<1>6. intent[s].terminal /\ intent[s].outcome # "rejected"
  BY <1>1, <1>3 DEF AcknowledgeAllowed, Readable, Truthful, Ordered
<1>7. Truthful(i, job[s], Wrong(misbound, s))
  BY <1>3, <1>4, <1>6 DEF Truthful, Ordered
<1>8. /\ intent' \in [Shards -> Intent \cup {None}]
      /\ \A t \in Shards : ShardInv(t)'
      /\ OneActive'
  <2>1. ~Active(i)
    BY <1>4, <1>6 DEF Active
  <2> QED
    BY <1>1, <1>2, <1>4, <1>5, <1>7, <2>1, OneIntentChanges
<1>9. TypeOK'
  BY <1>1, <1>8, IdleCommand DEF IInv, TypeOK
<1>10. ASSUME NEW q \in Processes PROVE CommandInv(q)'
  <2>1. CASE q = p
    <3>1. proc'[q].at = "idle" /\ lock' # q
      BY <1>1, <2>1, Actor, IdleCommand
    <3> QED
      BY <3>1 DEF CommandInv, Submitting
  <2>2. CASE q # p
    BY <1>1, <2>2, Actor, OtherCommands, LocalNumbers DEF IInv
  <2> QED
    BY <2>1, <2>2
<1> QED
  BY <1>8, <1>9, <1>10 DEF IInv

-----------------------------------------------------------------------------
(* Steps that change a job *)

LEMMA OneJobChanges ==
  ASSUME IInv, NEW s \in Shards, NEW a \in Attempts, NEW state \in JobStates,
         job' = [job EXCEPT ![s][a] = state], UNCHANGED <<intent, local, misbound>>,
         intent[s] # None,
         intent[s].attempt = a \/ a \in Wrong(misbound, s),
         a = intent[s].attempt =>
            /\ intent[s].terminal => a \in Wrong(misbound, s) \/ state = "over"
            /\ intent[s].outcome = "rejected" => state = "none"
  PROVE  /\ job' \in [Shards -> [Attempts -> JobStates]]
         /\ job'[s][a] = state
         /\ \A t \in Shards, b \in Attempts :
                t # s \/ b # a => job'[t][b] = job[t][b]
         /\ \A t \in Shards : ShardInv(t)'
         /\ OneActive'
<1>1. job \in [Shards -> [Attempts -> JobStates]]
  BY DEF IInv, TypeOK
<1>2. job' \in [Shards -> [Attempts -> JobStates]] /\ job'[s][a] = state
  BY <1>1
<1>3. \A t \in Shards, b \in Attempts : t # s \/ b # a => job'[t][b] = job[t][b]
  BY <1>1
<1>4. ASSUME NEW t \in Shards PROVE ShardInv(t)'
  <2>1. CASE t # s
    <3>1. job'[t] = job[t]
      BY <1>1, <2>1
    <3> QED
      BY <2>1, <3>1 DEF IInv, ShardInv
  <2>2. CASE t = s
    <3>1. Truthful(intent[s], job[s], Wrong(misbound, s))
      BY ShardFacts
    <3>2. Truthful(intent[s], job'[s], Wrong(misbound, s))
      BY <1>2, <1>3, <3>1, AttemptNumbers DEF Truthful
    <3> QED
      BY <2>2, <3>2 DEF IInv, ShardInv
  <2> QED
    BY <2>1, <2>2
<1>5. OneActive'
  BY DEF IInv, OneActive
<1> QED
  BY <1>2, <1>3, <1>4, <1>5

\* The job that oarsub is asked for.
LEMMA SubmittedJob ==
  ASSUME IInv, NEW p \in Processes, proc[p].at = "oarsub"
  PROVE  LET s == proc[p].shard
             a == intent[s].attempt
         IN  /\ s \in Shards /\ lock = p /\ p # None
             /\ intent[s] # None /\ Fresh(intent[s])
             /\ a \in Attempts /\ job[s][a] = "none"
BY Actor, ShardFacts, IntentFields DEF CommandInv, Submitting

LEMMA StepOarsub ==
  ASSUME IInv, NEW p \in Processes, Oarsub(p)
  PROVE  IInv'
<1> DEFINE s == proc[p].shard
           a == intent[s].attempt
<1>0. proc[p].at = "oarsub"
  BY DEF Oarsub, At
<1>1. PICK answer \in Answers(a) :
        /\ job' = [job EXCEPT ![s][a] = answer.registered]
        /\ proc' = [proc EXCEPT ![p] = [at |-> "record", shard |-> s, upto |-> 0,
                                        outcome |-> answer.outcome,
                                        job |-> answer.job]]
        /\ UNCHANGED <<intent, local, committed, lock, misbound>>
  BY DEF Oarsub
<1>2. /\ s \in Shards /\ lock = p /\ p # None
      /\ intent[s] # None /\ Fresh(intent[s])
      /\ a \in Attempts /\ job[s][a] = "none"
  BY <1>0, SubmittedJob
<1> DEFINE c == [at |-> "record", shard |-> s, upto |-> 0,
                 outcome |-> answer.outcome, job |-> answer.job]
<1>3. /\ answer.outcome \in Outcomes
      /\ answer.job \in {0, a} /\ answer.job \in JobIds
      /\ answer.registered \in JobStates
      /\ answer.outcome = "rejected" => answer.job = 0 /\ answer.registered = "none"
  BY <1>1, <1>2, JobNumbers DEF Answers, Answer, Outcomes, JobStates
<1>4. /\ c \in Command /\ c.at = "record" /\ c.shard = s
      /\ c.outcome = answer.outcome /\ c.job = answer.job
  BY <1>2, <1>3, BatchesAssumption DEF Command
<1>5. proc' = [proc EXCEPT ![p] = c]
  BY <1>1
<1> HIDE DEF c, s, a
<1>6. /\ job' \in [Shards -> [Attempts -> JobStates]]
      /\ job'[s][a] = answer.registered
      /\ \A t \in Shards : ShardInv(t)'
      /\ OneActive'
  BY ZenonT(30), <1>1, <1>2, <1>3, OneJobChanges DEF Fresh, a
<1>7. TypeOK'
  BY <1>1, <1>4, <1>5, <1>6 DEF IInv, TypeOK
<1>8. ASSUME NEW q \in Processes PROVE CommandInv(q)'
  <2>1. CASE q = p
    <3>1. proc'[q] = c /\ lock' = q /\ intent' = intent
      BY <1>1, <1>2, <1>5, <2>1, Actor
    <3> QED
      BY <1>2, <1>3, <1>4, <1>6, <3>1 DEF CommandInv, Submitting, a
  <2>2. CASE q # p
    BY <1>1, <1>2, <1>5, <2>2, Actor, OtherCommands, LocalNumbers DEF IInv
  <2> QED
    BY <2>1, <2>2
<1> QED
  BY <1>6, <1>7, <1>8 DEF IInv

LEMMA StepStopInOarsub ==
  ASSUME IInv, NEW p \in Processes, StopInOarsub(p)
  PROVE  IInv'
<1> DEFINE s == proc[p].shard
           a == intent[s].attempt
<1>1. /\ proc[p].at = "oarsub"
      /\ job' = [job EXCEPT ![s][a] = "pending"]
      /\ lock' = None
      /\ proc' = [proc EXCEPT ![p] = Idle]
      /\ UNCHANGED <<intent, local, committed, misbound>>
  BY DEF StopInOarsub, At, Release, End
<1>2. /\ s \in Shards /\ lock = p /\ p # None
      /\ intent[s] # None /\ Fresh(intent[s])
      /\ a \in Attempts /\ job[s][a] = "none"
  BY <1>1, SubmittedJob
<1> HIDE DEF s, a
<1>3. /\ job' \in [Shards -> [Attempts -> JobStates]]
      /\ \A t \in Shards : ShardInv(t)'
      /\ OneActive'
  BY <1>1, <1>2, OneJobChanges DEF Fresh, JobStates, a
<1>4. TypeOK'
  BY <1>1, <1>3, IdleCommand DEF IInv, TypeOK
<1>5. ASSUME NEW q \in Processes PROVE CommandInv(q)'
  <2>1. CASE q = p
    <3>1. proc'[q].at = "idle" /\ lock' # q
      BY <1>1, <1>2, <2>1, Actor, IdleCommand
    <3> QED
      BY <3>1 DEF CommandInv, Submitting
  <2>2. CASE q # p
    BY <1>1, <1>2, <2>2, Actor, OtherCommands, LocalNumbers DEF IInv
  <2> QED
    BY <2>1, <2>2
<1> QED
  BY <1>3, <1>4, <1>5 DEF IInv

\* A job that lives or may yet appear is that of an unsettled last attempt, or
\* that of an attempt that was bound to another job.
LEMMA LiveJob ==
  ASSUME IInv, NEW s \in Shards, NEW a \in Attempts, job[s][a] \in {"live", "pending"}
  PROVE  /\ intent[s] # None
         /\ intent[s].attempt = a \/ a \in Wrong(misbound, s)
         /\ intent[s].attempt = a =>
                /\ intent[s].terminal => a \in Wrong(misbound, s)
                /\ intent[s].outcome # "rejected"
<1>1. intent[s] # None /\ Truthful(intent[s], job[s], Wrong(misbound, s))
  BY ShardFacts
<1> QED
  BY <1>1 DEF Truthful

\* A job that is registered or ends disturbs no command.
LEMMA StepRegisterOrEnd ==
  ASSUME IInv, NEW s \in Shards, NEW a \in Attempts, Register(s, a) \/ JobEnds(s, a)
  PROVE  IInv'
<1>0. PICK state \in {"live", "over"} : job' = [job EXCEPT ![s][a] = state]
  BY DEF Register, JobEnds
<1>1. /\ job[s][a] \in {"live", "pending"}
      /\ UNCHANGED <<intent, local, committed, lock, proc, misbound>>
  BY DEF Register, JobEnds
<1>2. /\ intent[s] # None
      /\ intent[s].attempt = a \/ a \in Wrong(misbound, s)
      /\ intent[s].attempt = a =>
            /\ intent[s].terminal => a \in Wrong(misbound, s)
            /\ intent[s].outcome # "rejected"
  BY <1>1, LiveJob
<1>3. /\ job' \in [Shards -> [Attempts -> JobStates]]
      /\ \A t \in Shards, b \in Attempts : t # s \/ b # a => job'[t][b] = job[t][b]
      /\ \A t \in Shards : ShardInv(t)'
      /\ OneActive'
  <2>1. state \in JobStates
    BY DEF JobStates
  <2>2. /\ job' = [job EXCEPT ![s][a] = state]
        /\ intent' = intent /\ local' = local /\ misbound' = misbound
    BY <1>0, <1>1
  <2>3. job' \in [Shards -> [Attempts -> JobStates]]
    BY <1>2, <2>1, <2>2, OneJobChanges
  <2>4. \A t \in Shards, b \in Attempts : t # s \/ b # a => job'[t][b] = job[t][b]
    BY <2>1, <2>2 DEF IInv, TypeOK
  <2>5. (\A t \in Shards : ShardInv(t)') /\ OneActive'
    BY <1>2, <2>1, <2>2, OneJobChanges
  <2> QED
    BY <2>3, <2>4, <2>5
<1>4. TypeOK'
  BY <1>1, <1>3 DEF IInv, TypeOK
<1>5. ASSUME NEW q \in Processes PROVE CommandInv(q)'
  <2>1. CommandInv(q)
    BY DEF IInv
  <2>2. ASSUME NEW t \in Shards, intent[t] # None, job[t][intent[t].attempt] = "none"
        PROVE  job'[t][intent[t].attempt] = "none"
    BY <1>1, <1>3, <2>2, ShardFacts, IntentFields
  <2> QED
    BY <1>1, <2>1, <2>2 DEF CommandInv, Submitting
<1> QED
  BY <1>3, <1>4, <1>5 DEF IInv

LEMMA StepJobCommits ==
  ASSUME IInv, NEW s \in Shards, NEW a \in Attempts, JobCommits(s, a)
  PROVE  IInv'
<1>1. /\ committed[s] < Batches
      /\ committed' = [committed EXCEPT ![s] = @ + 1]
      /\ UNCHANGED <<intent, local, job, lock, proc, misbound>>
  BY DEF JobCommits
<1>2. TypeOK'
  BY <1>1, BatchesAssumption DEF IInv, TypeOK
<1>3. (\A t \in Shards : ShardInv(t)') /\ OneActive'
  BY <1>1, QuietShards
<1>4. \A q \in Processes : CommandInv(q)'
  BY <1>1, QuietCommands DEF IInv
<1> QED
  BY <1>2, <1>3, <1>4 DEF IInv

-----------------------------------------------------------------------------
(* Theorems *)

LEMMA Initial == Init => IInv
<1> SUFFICES ASSUME Init PROVE IInv
  OBVIOUS
<1>1. TypeOK
  BY IdleCommand, BatchesAssumption DEF Init, TypeOK, JobStates
<1>2. \A s \in Shards : ShardInv(s)
  BY DEF Init, ShardInv, Wrong
<1>3. OneActive
  BY DEF Init, OneActive
<1>4. \A p \in Processes : CommandInv(p)
  BY IdleCommand, NoneAssumption DEF Init, CommandInv, Submitting
<1> QED
  BY <1>1, <1>2, <1>3, <1>4 DEF IInv

LEMMA Stuttering == IInv /\ UNCHANGED vars => IInv'
<1> SUFFICES ASSUME IInv, UNCHANGED vars PROVE IInv'
  OBVIOUS
<1>1. UNCHANGED <<intent, local, job, committed, lock, proc, misbound>>
  BY DEF vars
<1>2. TypeOK'
  BY <1>1 DEF IInv, TypeOK
<1>3. (\A s \in Shards : ShardInv(s)') /\ OneActive'
  BY <1>1, QuietShards
<1>4. \A p \in Processes : CommandInv(p)'
  BY <1>1, QuietCommands DEF IInv
<1> QED
  BY <1>2, <1>3, <1>4 DEF IInv

LEMMA Step == IInv /\ [Next]_vars => IInv'
<1> SUFFICES ASSUME IInv, [Next]_vars PROVE IInv'
  OBVIOUS
<1>1. ASSUME NEW p \in Processes, Submit(p) PROVE IInv'
  BY <1>1, StepCapture, StepWriteIntent, StepOarsub, StepRecord,
     StepStopInOarsub DEF Submit
<1>2. ASSUME NEW p \in Processes, Status(p) PROVE IInv'
  BY <1>2, StepReconcile, StepResolve, StepRecordTerminal DEF Status
<1>3. ASSUME NEW p \in Processes, Collect(p) PROVE IInv'
  BY <1>3, StepRetrieve, StepImport, StepAcknowledge DEF Collect
<1>4. ASSUME NEW p \in Processes, Stop(p) PROVE IInv'
  BY <1>4, StepStop
<1>5. ASSUME NEW s \in Shards, NEW a \in Attempts, JobStep(s, a) PROVE IInv'
  BY <1>5, StepRegisterOrEnd, StepJobCommits DEF JobStep
<1>6. CASE UNCHANGED vars
  BY <1>6, Stuttering
<1> QED
  BY <1>1, <1>2, <1>3, <1>4, <1>5, <1>6 DEF Next

LEMMA Invariance == Spec => []IInv
<1>1. IInv /\ [Next]_vars => IInv'
  BY Step
<1> QED
  BY <1>1, Initial, PTL DEF Spec

\* Every file, every job and every command keeps its type.
THEOREM TypeCorrect == Spec => []TypeOK
<1>1. IInv => TypeOK
  BY DEF IInv
<1> QED
  BY <1>1, Invariance, PTL

\* A job that lives, or may yet appear, is reserved by an intent on disk,
\* whatever oarsub answered and wherever a command was killed, unless its
\* intent was bound to another job of its name (submit_job).
LEMMA Reserving == IInv => LiveJobIsReserved
<1> SUFFICES ASSUME IInv, NEW s \in Shards, NEW a \in Attempts,
                    job[s][a] \in {"live", "pending"}, ~Misbound(s, a)
             PROVE  intent[s] # None /\ intent[s].attempt = a /\ Active(intent[s])
  BY DEF LiveJobIsReserved, IsReserved
<1>1. a \notin Wrong(misbound, s)
  BY DEF Wrong, Misbound
<1> QED
  BY <1>1, LiveJob DEF Active

THEOREM Reserved == Spec => []LiveJobIsReserved
  BY Reserving, Invariance, PTL

\* The scheduler never runs two jobs of the run, however many commands submit
\* at the same time (_run_wide_intent_block under submission_lock).
THEOREM OneJob == Spec => []AtMostOneLiveJob
<1>1. IInv => AtMostOneLiveJob
  <2> SUFFICES ASSUME IInv, NEW s \in Shards, NEW t \in Shards,
                      NEW a \in Attempts, NEW b \in Attempts,
                      job[s][a] = "live", job[t][b] = "live",
                      ~Misbound(s, a), ~Misbound(t, b)
               PROVE  s = t /\ a = b
    BY DEF AtMostOneLiveJob
  <2>1. /\ intent[s] # None /\ intent[s].attempt = a /\ Active(intent[s])
        /\ intent[t] # None /\ intent[t].attempt = b /\ Active(intent[t])
    BY Reserving DEF LiveJobIsReserved, IsReserved
  <2> QED
    BY <2>1 DEF IInv, OneActive
<1> QED
  BY <1>1, Invariance, PTL

\* No command leaves an intent that the next one refuses to read.
THEOREM Readability == Spec => []IntentsReadable
<1>1. IInv => IntentsReadable
  <2> SUFFICES ASSUME IInv, NEW s \in Shards, intent[s] # None, ~Readable(intent[s])
               PROVE  intent[s].outcome = "rejected" /\ Misbound(s, intent[s].attempt)
    BY DEF IntentsReadable
  <2> QED
    BY ShardFacts DEF Truthful, Ordered, Readable, Wrong, Misbound
<1> QED
  BY <1>1, Invariance, PTL

\* What is acknowledged as complete is in the run directory, and no job runs
\* for it any more.
THEOREM Completeness == Spec => []CompleteIsFinal
<1>1. IInv => CompleteIsFinal
  <2> SUFFICES ASSUME IInv, NEW s \in Shards, intent[s] # None, intent[s].complete
               PROVE  /\ local[s] = Batches
                      /\ \A a \in Attempts :
                            job[s][a] \in {"live", "pending"} => Misbound(s, a)
    BY DEF CompleteIsFinal
  <2>1. intent[s].terminal
    BY ShardFacts DEF Truthful, Ordered
  <2>2. \A a \in Attempts : job[s][a] \in {"live", "pending"} => Misbound(s, a)
    BY <2>1, LiveJob DEF Wrong, Misbound
  <2> QED
    BY <2>2, ShardFacts
<1> QED
  BY <1>1, Invariance, PTL

\* The steps that write an intent.
LEMMA IntentSteps ==
  ASSUME [Next]_vars
  PROVE  \/ UNCHANGED intent
         \/ \E p \in Processes : \/ WriteIntent(p) \/ Record(p)
                                 \/ RecordTerminal(p) \/ Acknowledge(p)
                                 \/ \E s \in Shards : Resolve(p, s)
  BY DEF Next, vars, Submit, Status, Collect, JobStep, Capture, Oarsub,
         StopInOarsub, Reconcile, Retrieve, Import, Stop, Register, JobCommits,
         JobEnds

\* A shard acknowledged as complete keeps that acknowledgement: no retry, no
\* older collection and no other command takes it back.
LEMMA CompletionStep ==
  ASSUME IInv, IInv', [Next]_vars, NEW s \in Shards,
         intent[s] # None, intent[s].complete
  PROVE  intent'[s] # None /\ intent'[s].complete
<1>0. /\ intent \in [Shards -> Intent \cup {None}] /\ intent[s] \in Intent
      /\ intent'[s] \in Intent \cup {None}
      /\ intent[s].job # 0 /\ intent[s].terminal /\ intent[s].acknowledged
  BY ShardFacts DEF IInv, TypeOK, Truthful, Ordered
<1>1. intent[s].outcome # "rejected"
  BY <1>0, ShardFacts DEF Truthful, Ordered
<1>2. ASSUME NEW p \in Processes, WriteIntent(p) PROVE intent'[s] = intent[s]
  <2>1. proc[p].shard # s
    BY <1>1, <1>2 DEF WriteIntent, MaySubmit, MayRetry
  <2> QED
    BY <1>0, <1>2, <2>1 DEF WriteIntent
<1>3. ASSUME NEW p \in Processes, Record(p) PROVE intent'[s] = intent[s]
  <2>1. proc[p].shard # s
    BY <1>3, Actor DEF Record, At, CommandInv, Submitting, Fresh
  <2> QED
    BY <1>0, <1>3, <2>1 DEF Record
<1>4. ASSUME NEW p \in Processes, NEW t \in Shards, Resolve(p, t)
      PROVE  intent'[s] = intent[s]
  <2>1. t # s
    BY <1>0, <1>4 DEF Resolve
  <2> QED
    BY <1>0, <1>4, <2>1 DEF Resolve
<1>5. ASSUME NEW p \in Processes, RecordTerminal(p)
      PROVE  intent'[s] # None /\ intent'[s].complete
  <2>1. intent' = [intent EXCEPT ![proc[p].shard] = [@ EXCEPT !.terminal = TRUE]]
    BY <1>5 DEF RecordTerminal
  <2>2. CASE proc[p].shard # s
    BY <1>0, <2>1, <2>2
  <2>3. CASE proc[p].shard = s
    <3>1. ASSUME NEW x \in Intent
          PROVE  LET y == [x EXCEPT !.terminal = TRUE]
                 IN  y \in Intent /\ (y.complete <=> x.complete)
      BY DEF Intent
    <3>2. intent'[s] = [intent[s] EXCEPT !.terminal = TRUE]
      BY <1>0, <2>1, <2>3
    <3> QED
      BY <1>0, <3>1, <3>2, IntentFields
  <2> QED
    BY <2>2, <2>3
<1>6. ASSUME NEW p \in Processes, Acknowledge(p)
      PROVE  intent'[s] # None /\ intent'[s].complete
  <2> DEFINE t == proc[p].shard
             b == proc[p].upto = Batches
  <2>1. /\ intent' = [intent EXCEPT ![t] = Acknowledged(intent[t], b)]
        /\ intent[t].complete => b
    BY <1>6 DEF Acknowledge, AcknowledgeAllowed
  <2>2. CASE t # s
    BY <1>0, <2>1, <2>2
  <2>3. CASE t = s
    <3>1. intent'[s] = Acknowledged(intent[s], b) /\ b
      BY <1>0, <2>1, <2>3
    <3>2. Acknowledged(intent[s], b) \in Intent /\ (Acknowledged(intent[s], b).complete <=> b)
      BY <1>0, AcknowledgedIntent
    <3> HIDE DEF b
    <3> QED
      BY <3>1, <3>2, IntentFields
  <2> QED
    BY <2>2, <2>3
<1> QED
  BY <1>2, <1>3, <1>4, <1>5, <1>6, IntentSteps

THEOREM CompletionKept == Spec => CompleteStaysComplete
<1>1. IInv /\ IInv' /\ [Next]_vars =>
        [\A s \in Shards : intent[s] # None /\ intent[s].complete =>
            intent'[s] # None /\ intent'[s].complete]_intent
  BY CompletionStep
<1>2. Spec => []IInv
  BY Invariance
<1> QED
  BY <1>1, <1>2, PTL DEF Spec, CompleteStaysComplete
=============================================================================
