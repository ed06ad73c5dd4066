-------------------------- MODULE GridDriver_proofs --------------------------
(* Theorems about GridDriver and LanguageRun: types, what the run          *)
(* directory holds while a driver that may be killed anywhere imports into *)
(* it, and what an export of it publishes.                                 *)
EXTENDS LanguageRun, WellFoundedInduction, TLAPS

\* Checkpoints and jobs stay within their shards.
Sized ==
    \A s \in Shards :
        /\ \A place \in Places :
            checkpoint[place][s] # None => checkpoint[place][s] <= Size[s]
        /\ job[s].upto <= Size[s]
        /\ job[s].state = "wrote" => job[s].upto < Size[s]

\* Nothing happens at the site before its checkpoint is there, and an answer
\* is recorded in an intent that exists.
SiteKnows ==
    \A s \in Shards :
        /\ frontend[s].at # "idle" \/ job[s].state # "none" \/ intent["site"][s] # None =>
                checkpoint["site"][s] # None
        /\ frontend[s].at \in {"oarsub", "record"} => intent["site"][s] # None
        /\ frontend[s].at = "answered" /\ frontend[s].outcome = "submitted" =>
                intent["site"][s] # None

\* What the driver may rely on at each point of its loop; while it commits,
\* what is not yet here is still to be moved.
DriverKnows ==
    /\ driver.done < driver.position
    /\ driver.at \notin {"idle", "next"} => driver.position <= Len(Share)
    /\ At("send") =>
        /\ driver.upto <= Size[Shard]
        /\ 0 \notin driver.todo => checkpoint["site"][Shard] # None
    /\ driver.at \in {"submit", "reply", "wait", "retrieve"} => checkpoint["site"][Shard] # None
    /\ driver.at \in {"wait", "retrieve"} => intent["site"][Shard] # None
    /\ driver.at \in {"import", "commit", "validate", "adopt"} => intent["fetched"][Shard] # None
    /\ At("acknowledge") => intent["local"][Shard] # None
    /\ At("commit") =>
        /\ driver.upto <= Size[Shard]
        /\ checkpoint["local"][Shard] # None => checkpoint["local"][Shard] <= driver.upto
        /\ 1..driver.upto \subseteq files["local"][Shard] \cup driver.todo
        /\ 0 \in driver.todo

\* What a driver remembers; TypeOK has it, too.
Driver == [at : Points, position : 1..Len(Share) + 1, done : 0..Len(Share),
           upto : Cursors, todo : SUBSET Cursors, blind : BOOLEAN]

\* The inductive invariant.
Orderly ==
    /\ TypeOK
    /\ Sized
    /\ SiteKnows
    /\ DriverKnows
    /\ CollectedIsWhole

-----------------------------------------------------------------------------
(* Lemmas *)

LEMMA CursorsHold ==
    /\ Cursors \subseteq Nat
    /\ 0 \in Cursors
    /\ \A s \in Shards : Size[s] \in Nat /\ 0..Size[s] \subseteq Cursors
  BY SizeAssumption DEF Cursors

LEMMA ShareHolds ==
    /\ Len(Share) \in Nat
    /\ \A i \in 1..Len(Share) : Share[i] \in Shards
  BY ShareAssumption DEF Shards

\* A value that is put at one place of a function of places.
LEMMA CheckpointPut ==
    ASSUME TypeOK, NEW place \in Places, NEW s \in Shards, NEW value \in Cursors \cup {None},
           checkpoint' = Put(checkpoint, place, s, value)
    PROVE  /\ checkpoint' \in [Places -> [Shards -> Cursors \cup {None}]]
           /\ \A p \in Places, t \in Shards : checkpoint'[p][t] =
                IF p = place /\ t = s THEN value ELSE checkpoint[p][t]
  BY DEF Put, TypeOK

LEMMA FilesPut ==
    ASSUME TypeOK, NEW place \in Places, NEW s \in Shards, NEW value \in SUBSET Cursors,
           files' = Put(files, place, s, value)
    PROVE  /\ files' \in [Places -> [Shards -> SUBSET Cursors]]
           /\ \A p \in Places, t \in Shards : files'[p][t] =
                IF p = place /\ t = s THEN value ELSE files[p][t]
  BY DEF Put, TypeOK

LEMMA IntentPut ==
    ASSUME TypeOK, NEW place \in Places, NEW s \in Shards, NEW value \in Intent \cup {None},
           intent' = Put(intent, place, s, value)
    PROVE  /\ intent' \in [Places -> [Shards -> Intent \cup {None}]]
           /\ \A p \in Places, t \in Shards : intent'[p][t] =
                IF p = place /\ t = s THEN value ELSE intent[p][t]
  BY DEF Put, TypeOK

\* A driver between two shards of its loop has one at hand.
LEMMA ShardHolds ==
    ASSUME Orderly, driver.at \notin {"idle", "next"}
    PROVE  Shard \in Shards /\ Size[Shard] \in Nat
  BY CursorsHold, ShareHolds DEF Orderly, TypeOK, DriverKnows, Shard

\* Goto changes the point and nothing else.
LEMMA Going ==
    ASSUME TypeOK, NEW point \in Points, Goto(point)
    PROVE  /\ driver' \in Driver
           /\ driver'.at = point
           /\ driver'.position = driver.position /\ driver'.done = driver.done
           /\ driver'.upto = driver.upto /\ driver'.todo = driver.todo
           /\ driver'.blind = driver.blind
  <1>1. driver \in Driver
    BY DEF TypeOK, Driver
  <1> QED BY <1>1 DEF Goto, Driver

\* A driver that stops knows nothing.
LEMMA Idle ==
    ASSUME driver'.at \in {"idle", "next"}, driver'.done < driver'.position
    PROVE  DriverKnows'
  BY DEF DriverKnows, At

LEMMA Halting ==
    ASSUME Halt
    PROVE  driver' \in Driver /\ DriverKnows'
  <1>1. driver' = [at |-> "idle", position |-> 1, done |-> 0, upto |-> 0, todo |-> {}, blind |-> FALSE]
    BY DEF Halt, Halted, Resting
  <1>2. driver' \in Driver
    BY <1>1, CursorsHold, ShareHolds DEF Driver, Points
  <1> QED BY <1>1, <1>2, Idle

\* Steps in which only the driver moves.
LEMMA DriverOnly ==
    ASSUME Orderly, UNCHANGED <<places, job, frontend, faults>>, driver' \in Driver, DriverKnows'
    PROVE  Orderly'
  <1>1. TypeOK'
    BY DEF Orderly, TypeOK, Driver, places
  <1>2. Sized' /\ SiteKnows'
    BY DEF Orderly, Sized, SiteKnows, places
  <1>3. CollectedIsWhole'
    BY DEF Orderly, CollectedIsWhole, Listed, places
  <1> QED BY <1>1, <1>2, <1>3 DEF Orderly

\* Steps in which it does not: what it relies on must not be taken away.
LEMMA DriverStays ==
    ASSUME Orderly, driver' = driver,
           \A s \in Shards :
                /\ checkpoint["site"][s] # None => checkpoint'["site"][s] # None
                /\ \A place \in Places : intent[place][s] # None => intent'[place][s] # None
                /\ ~LocalLocked(s) \/ (checkpoint'["local"][s] = checkpoint["local"][s]
                                       /\ files["local"][s] \subseteq files'["local"][s])
    PROVE  DriverKnows'
  <1>1. CASE driver.at \in {"idle", "next"}
    BY <1>1, Idle DEF Orderly, DriverKnows
  <1>2. CASE driver.at \notin {"idle", "next"}
    <2>1. Shard \in Shards
      BY <1>2, ShardHolds
    <2>2. At("commit") => checkpoint'["local"][Shard] = checkpoint["local"][Shard]
                           /\ files["local"][Shard] \subseteq files'["local"][Shard]
      BY <2>1 DEF LocalLocked, At
    <2> QED BY <1>2, <2>1, <2>2 DEF Orderly, DriverKnows, At, Shard, Places
  <1> QED BY <1>1, <1>2

\* The run directory stays whole while its checkpoint stays and files only come.
LEMMA WholeStays ==
    ASSUME CollectedIsWhole,
           \A s \in Shards : checkpoint'["local"][s] = checkpoint["local"][s]
                             /\ files["local"][s] \subseteq files'["local"][s]
    PROVE  CollectedIsWhole'
  BY DEF CollectedIsWhole, Listed

-----------------------------------------------------------------------------
(* The loop *)

LEMMA RunStartsKeeps ==
    ASSUME Orderly, RunStarts
    PROVE  Orderly'
  <1>1. driver' = [at |-> "next", position |-> 1, done |-> 0, upto |-> 0, todo |-> {}, blind |-> FALSE]
    BY DEF RunStarts, Resting
  <1>2. driver' \in Driver
    BY <1>1, CursorsHold, ShareHolds DEF Driver, Points
  <1> QED BY <1>1, <1>2, Idle, DriverOnly DEF RunStarts

LEMMA RunEndsKeeps ==
    ASSUME Orderly, RunEnds
    PROVE  Orderly'
  BY Halting, DriverOnly DEF RunEnds, Halt, Halted

\* The next shard is known to be one, and to have an intent if it is resumed.
LEMMA VisitKeeps ==
    ASSUME Orderly, Visit
    PROVE  Orderly'
  <1>1. driver \in Driver /\ driver.position \in 1..Len(Share) /\ Len(Share) \in Nat
    BY ShareHolds DEF Orderly, TypeOK, Driver, Visit, Finished
  <1>2. Shard \in Shards
    BY <1>1, ShareHolds DEF Shard
  <1>3. CASE Complete(Shard)
    <2>1. driver' = [driver EXCEPT !.position = @ + 1]
      BY <1>3 DEF Visit
    <2>2. driver' \in Driver /\ driver'.at = "next" /\ driver'.done < driver'.position
      <3>1. driver.at = "next" /\ driver.done < driver.position /\ driver.done \in Nat
        BY <1>1 DEF Orderly, DriverKnows, Driver, Visit, At
      <3> QED BY <1>1, <2>1, <3>1 DEF Driver
    <2> QED BY <2>2, Idle, DriverOnly DEF Visit
  <1>4. CASE ~Complete(Shard) /\ AwaitingCollection(Shard)
    <2>1. Goto("wait")
      BY <1>4 DEF Visit, Goto
    <2>2. driver' \in Driver /\ driver'.at = "wait" /\ driver'.position = driver.position
          /\ driver'.done = driver.done
      BY <2>1, Going DEF Orderly, Points
    <2>3. intent["site"][Shard] # None /\ checkpoint["site"][Shard] # None
      BY <1>2, <1>4 DEF AwaitingCollection, Orderly, SiteKnows
    <2>4. DriverKnows'
      BY <1>1, <2>2, <2>3 DEF Orderly, DriverKnows, At, Shard, Visit, places
    <2> QED BY <2>2, <2>4, DriverOnly DEF Visit
  <1>5. CASE ~Complete(Shard) /\ ~AwaitingCollection(Shard)
    <2>1. driver' = [driver EXCEPT !.at = "stage", !.blind = Submitting(Shard)]
      BY <1>5 DEF Visit
    <2>2. driver' \in Driver /\ driver'.at = "stage" /\ driver'.position = driver.position
          /\ driver'.done = driver.done
      <3>1. \A b \in BOOLEAN : LET d == [driver EXCEPT !.at = "stage", !.blind = b]
                               IN  /\ d \in Driver /\ d.at = "stage"
                                   /\ d.position = driver.position /\ d.done = driver.done
        BY <1>1 DEF Driver, Points
      <3>2. Submitting(Shard) \in BOOLEAN
        BY DEF Submitting
      <3> QED BY <2>1, <3>1, <3>2
    <2>3. DriverKnows'
      BY <1>1, <2>2 DEF Orderly, DriverKnows, At
    <2> QED BY <2>2, <2>3, DriverOnly DEF Visit
  <1> QED BY <1>3, <1>4, <1>5

LEMMA VisitUnansweredKeeps ==
    ASSUME Orderly, VisitUnanswered
    PROVE  Orderly'
  <1>1. driver \in Driver /\ driver.position \in 1..Len(Share) /\ Len(Share) \in Nat
    BY ShareHolds DEF Orderly, TypeOK, Driver, VisitUnanswered, Finished
  <1>2. driver' \in Driver /\ driver'.at = "stage" /\ driver'.position = driver.position
        /\ driver'.done = driver.done
    BY <1>1 DEF VisitUnanswered, Driver, Points
  <1>3. DriverKnows'
    BY <1>1, <1>2 DEF Orderly, DriverKnows, At
  <1>4. faults' \in 0..MaxFaults
    BY BoundsAssumption DEF VisitUnanswered, Orderly, TypeOK
  <1>5. TypeOK'
    BY <1>2, <1>4 DEF VisitUnanswered, Orderly, TypeOK, Driver, places
  <1>6. Sized' /\ SiteKnows' /\ CollectedIsWhole'
    BY DEF VisitUnanswered, Orderly, Sized, SiteKnows, CollectedIsWhole, Listed, places
  <1> QED BY <1>3, <1>5, <1>6 DEF Orderly

-----------------------------------------------------------------------------
(* stage, transfer, submit *)

\* Stage lists what the run directory listed, and drops what it did not.
LEMMA StageKeeps ==
    ASSUME Orderly, Stage
    PROVE  Orderly'
  <1> DEFINE local == checkpoint["local"][Shard]
             kept == files["local"][Shard] \ Orphans(Shard)
  <1>1. Shard \in Shards /\ Size[Shard] \in Nat /\ "local" \in Places
    BY ShardHolds DEF Stage, At, Places
  <1>2. /\ checkpoint \in [Places -> [Shards -> Cursors \cup {None}]]
        /\ files \in [Places -> [Shards -> SUBSET Cursors]]
        /\ driver \in Driver
    BY DEF Orderly, TypeOK, Driver
  <1>3. /\ Prepared(Shard) \in 0..Size[Shard]
        /\ Prepared(Shard) \in Cursors
        /\ local # None => Prepared(Shard) = local
    <2>1. local \in Cursors \cup {None} /\ 0 \in Cursors /\ Cursors \subseteq Nat
      BY <1>1, <1>2, CursorsHold
    <2>2. local # None => local <= Size[Shard]
      BY <1>1 DEF Orderly, Sized
    <2>3. CASE local = None
      BY <1>1, <2>1, <2>3 DEF Prepared
    <2>4. CASE local # None
      <3>1. local \in Cursors /\ local \in Nat /\ local <= Size[Shard]
        BY <2>1, <2>2, <2>4
      <3>2. Prepared(Shard) = local
        BY <2>4 DEF Prepared
      <3> QED BY <1>1, <3>1, <3>2
    <2> QED BY <2>3, <2>4
  <1>4. kept \in SUBSET Cursors /\ Listed("local", Shard) \subseteq kept
    BY <1>1, <1>2 DEF Stage, MayStage, Orphans
  <1>5. 1..Prepared(Shard) \subseteq kept
    BY <1>1, <1>3, <1>4 DEF Listed, Prepared
  <1>6. /\ checkpoint' \in [Places -> [Shards -> Cursors \cup {None}]]
        /\ \A p \in Places, t \in Shards : checkpoint'[p][t] =
                IF p = "local" /\ t = Shard THEN Prepared(Shard) ELSE checkpoint[p][t]
    BY <1>1, <1>3, CheckpointPut DEF Orderly, Stage
  <1>7. /\ files' \in [Places -> [Shards -> SUBSET Cursors]]
        /\ \A p \in Places, t \in Shards : files'[p][t] =
                IF p = "local" /\ t = Shard THEN kept ELSE files[p][t]
    <2>1. files' = Put(files, "local", Shard, kept)
      BY DEF Stage
    <2> QED BY <1>1, <1>4, <2>1 DEF Orderly, TypeOK, Put
  <1>8. /\ driver' \in Driver
        /\ driver'.at = "send" /\ driver'.upto = Prepared(Shard) /\ 0 \in driver'.todo
        /\ driver'.position = driver.position /\ driver'.done = driver.done
    <2>1. 0..Prepared(Shard) \subseteq Cursors /\ 0 \in 0..Prepared(Shard)
      BY <1>1, <1>3, CursorsHold
    <2>2. driver' = [driver EXCEPT !.at = "send", !.upto = Prepared(Shard), !.todo = 0..Prepared(Shard)]
      BY DEF Stage
    <2> QED BY <1>2, <1>3, <2>1, <2>2 DEF Driver, Points
  <1>9. TypeOK'
    <2>1. aside' \in [Shards -> SUBSET Cursors]
      BY <1>1, <1>2 DEF Orderly, TypeOK, Stage, Orphans, Places
    <2> QED BY <1>6, <1>7, <1>8, <2>1 DEF Orderly, TypeOK, Stage, Driver
  <1>10. Sized'
    BY <1>1, <1>3, <1>6 DEF Orderly, Sized, Stage
  <1>11. SiteKnows'
    BY <1>6 DEF Orderly, SiteKnows, Stage, Places
  <1>12. DriverKnows'
    BY <1>3, <1>8 DEF Orderly, DriverKnows, At, Shard, Stage
  <1>13. CollectedIsWhole'
    BY <1>1, <1>3, <1>5, <1>6, <1>7 DEF Orderly, CollectedIsWhole, Listed
  <1> QED BY <1>9, <1>10, <1>11, <1>12, <1>13 DEF Orderly

LEMMA StageRefusedKeeps ==
    ASSUME Orderly, StageRefused
    PROVE  Orderly'
  BY Halting, DriverOnly DEF StageRefused

\* The checkpoint has been sent once it is no longer to do.
LEMMA SendKeeps ==
    ASSUME Orderly, NEW item \in {0} \cup Cursors, Send(item)
    PROVE  Orderly'
  <1>1. Shard \in Shards /\ Size[Shard] \in Nat /\ Places = {"local", "site", "fetched"}
    BY ShardHolds DEF Send, At, Places
  <1>2. /\ checkpoint \in [Places -> [Shards -> Cursors \cup {None}]]
        /\ files \in [Places -> [Shards -> SUBSET Cursors]]
        /\ driver \in Driver
        /\ driver.upto \in Cursors /\ driver.upto \in Nat /\ driver.upto # None
        /\ driver.upto <= Size[Shard]
    BY CursorsHold, NoneAssumption DEF Orderly, TypeOK, Driver, DriverKnows, Send
  <1>3. /\ driver' \in Driver
        /\ driver'.at = "send" /\ driver'.upto = driver.upto
        /\ driver'.todo = driver.todo \ {item}
        /\ driver'.position = driver.position /\ driver'.done = driver.done
    BY <1>2 DEF Send, At, Driver
  <1>4. CASE item = 0
    <2>1. /\ checkpoint' \in [Places -> [Shards -> Cursors \cup {None}]]
          /\ \A p \in Places, t \in Shards : checkpoint'[p][t] =
                IF p = "site" /\ t = Shard THEN driver.upto ELSE checkpoint[p][t]
      BY <1>1, <1>2, <1>4, CheckpointPut DEF Orderly, Send
    <2>2. TypeOK' /\ UNCHANGED files
      BY <1>3, <1>4, <2>1 DEF Orderly, TypeOK, Send, Driver
    <2>3. Sized' /\ SiteKnows'
      BY <1>1, <1>2, <2>1 DEF Orderly, Sized, SiteKnows, Send
    <2>4. DriverKnows'
      BY <1>1, <1>2, <1>3, <2>1 DEF Orderly, DriverKnows, At, Shard, Send
    <2>5. CollectedIsWhole'
      BY <1>1, <2>1, <2>2, WholeStays DEF Orderly
    <2> QED BY <2>2, <2>3, <2>4, <2>5 DEF Orderly
  <1>5. CASE item # 0
    <2>1. /\ files' \in [Places -> [Shards -> SUBSET Cursors]]
          /\ \A p \in Places, t \in Shards : files[p][t] \subseteq files'[p][t]
          /\ UNCHANGED checkpoint
      <3>1. files["site"][Shard] \cup {item} \in SUBSET Cursors
        BY <1>1, <1>2, <1>5
      <3>2. files' = Put(files, "site", Shard, files["site"][Shard] \cup {item})
        BY <1>5 DEF Send
      <3>3. /\ files' \in [Places -> [Shards -> SUBSET Cursors]]
            /\ \A p \in Places, t \in Shards : files'[p][t] =
                IF p = "site" /\ t = Shard THEN files["site"][Shard] \cup {item} ELSE files[p][t]
        BY <1>1, <3>1, <3>2 DEF Orderly, TypeOK, Put
      <3> QED BY <1>5, <3>3 DEF Send
    <2>2. TypeOK'
      BY <1>3, <1>5, <2>1 DEF Orderly, TypeOK, Send, Driver
    <2>3. Sized' /\ SiteKnows'
      BY <2>1 DEF Orderly, Sized, SiteKnows, Send
    <2>4. DriverKnows'
      BY <1>2, <1>3, <1>5, <2>1 DEF Orderly, DriverKnows, At, Shard, Send
    <2>5. CollectedIsWhole'
      BY <1>1, <2>1, WholeStays DEF Orderly
    <2> QED BY <2>2, <2>3, <2>4, <2>5 DEF Orderly
  <1> QED BY <1>4, <1>5

LEMMA SentKeeps ==
    ASSUME Orderly, Sent
    PROVE  Orderly'
  <1>1. /\ driver' \in Driver /\ driver'.at = "submit"
        /\ driver'.position = driver.position /\ driver'.done = driver.done
    BY Going DEF Orderly, Sent, Points
  <1>2. DriverKnows'
    BY <1>1 DEF Orderly, DriverKnows, At, Shard, Sent, places
  <1> QED BY <1>1, <1>2, DriverOnly DEF Sent

\* The command at the site starts where a checkpoint has been sent.
LEMMA SubmitKeeps ==
    ASSUME Orderly, Submit
    PROVE  Orderly'
  <1>1. CASE frontend[Shard].at = "idle"
    <2>1. Shard \in Shards /\ checkpoint["site"][Shard] # None
      BY ShardHolds DEF Submit, At, Orderly, DriverKnows
    <2>2. /\ driver' \in Driver /\ driver'.at = "reply"
          /\ driver'.position = driver.position /\ driver'.done = driver.done
      BY <1>1, Going DEF Orderly, Submit, Points
    <2>3. frontend \in [Shards -> [at : Commands, outcome : Outcomes]]
      BY DEF Orderly, TypeOK
    <2>4. /\ frontend' \in [Shards -> [at : Commands, outcome : Outcomes]]
          /\ frontend'[Shard].at = "captured"
          /\ \A t \in Shards \ {Shard} : frontend'[t] = frontend[t]
      BY <1>1, <2>1, <2>3 DEF Submit, Commands
    <2>5. TypeOK'
      BY <2>2, <2>4 DEF Orderly, TypeOK, Submit, Driver, places
    <2>6. Sized' /\ CollectedIsWhole'
      BY DEF Orderly, Sized, CollectedIsWhole, Listed, Submit, places
    <2>7. SiteKnows'
      BY <2>1, <2>4 DEF Orderly, SiteKnows, Submit, places
    <2>8. DriverKnows'
      BY <2>1, <2>2 DEF Orderly, DriverKnows, At, Shard, Submit, places
    <2> QED BY <2>5, <2>6, <2>7, <2>8 DEF Orderly
  <1>2. CASE frontend[Shard].at # "idle"
    BY <1>2, Halting, DriverOnly DEF Submit
  <1> QED BY <1>1, <1>2

\* Only a recorded submission sends the driver to wait.
LEMMA ReplyKeeps ==
    ASSUME Orderly, Reply
    PROVE  Orderly'
  <1>1. Shard \in Shards
    BY ShardHolds DEF Reply, At
  <1>2. frontend \in [Shards -> [at : Commands, outcome : Outcomes]]
    BY DEF Orderly, TypeOK
  <1>3. /\ frontend' \in [Shards -> [at : Commands, outcome : Outcomes]]
        /\ frontend'[Shard].at = "idle"
        /\ \A t \in Shards \ {Shard} : frontend'[t] = frontend[t]
    <2>1. [at |-> "idle", outcome |-> "none"] \in [at : Commands, outcome : Outcomes]
      BY DEF Commands, Outcomes
    <2> QED BY <1>1, <1>2, <2>1 DEF Reply
  <1>4. driver' \in Driver /\ DriverKnows'
    <2>1. CASE frontend[Shard].outcome = "submitted"
      <3>1. /\ driver' \in Driver /\ driver'.at = "wait"
            /\ driver'.position = driver.position /\ driver'.done = driver.done
        BY <2>1, Going DEF Orderly, Reply, Points
      <3>2. intent["site"][Shard] # None /\ checkpoint["site"][Shard] # None
        BY <1>1, <2>1 DEF Orderly, SiteKnows, Reply
      <3> QED BY <3>1, <3>2 DEF Orderly, DriverKnows, At, Shard, Reply, places
    <2>2. CASE frontend[Shard].outcome # "submitted"
      BY <2>2, Halting DEF Reply
    <2> QED BY <2>1, <2>2
  <1>5. TypeOK'
    BY <1>3, <1>4 DEF Orderly, TypeOK, Reply, Driver, places
  <1>6. Sized' /\ CollectedIsWhole'
    BY DEF Orderly, Sized, CollectedIsWhole, Listed, Reply, places
  <1>7. SiteKnows'
    BY <1>1, <1>3 DEF Orderly, SiteKnows, Reply, places
  <1> QED BY <1>4, <1>5, <1>6, <1>7 DEF Orderly

-----------------------------------------------------------------------------
(* await_terminal and collect *)

LEMMA TimesOutKeeps ==
    ASSUME Orderly, TimesOut
    PROVE  Orderly'
  BY Halting, DriverOnly DEF TimesOut

LEMMA PollKeeps ==
    ASSUME Orderly, Poll
    PROVE  Orderly'
  <1> DEFINE known == intent["site"][Shard]
  <1>1. Shard \in Shards /\ "site" \in Places
    BY ShardHolds DEF Poll, At, Places
  <1>2. intent \in [Places -> [Shards -> Intent \cup {None}]] /\ known \in Intent
    BY <1>1 DEF Orderly, TypeOK, DriverKnows, Poll, At
  <1>3. [known EXCEPT !.terminal = TRUE] \in Intent
    BY <1>2 DEF Intent
  <1>4. intent' = [intent EXCEPT !["site"] = [@ EXCEPT ![Shard] = [known EXCEPT !.terminal = TRUE]]]
    BY <1>1, <1>2 DEF Poll
  <1>5. /\ intent' \in [Places -> [Shards -> Intent \cup {None}]]
        /\ \A p \in Places, t \in Shards : intent[p][t] # None => intent'[p][t] # None
    BY <1>1, <1>2, <1>3, <1>4, NoneAssumption
  <1>6. /\ \A t \in Shards \ {Shard} : intent'["site"][t] = intent["site"][t]
        /\ intent'["site"][Shard] # None
    BY <1>1, <1>2, <1>3, <1>4, NoneAssumption
  <1>7. /\ driver' \in Driver /\ driver'.at = "retrieve"
        /\ driver'.position = driver.position /\ driver'.done = driver.done
    BY Going DEF Orderly, Poll, Points
  <1>8. TypeOK'
    BY <1>5, <1>7 DEF Orderly, TypeOK, Poll, Driver
  <1>9. Sized' /\ CollectedIsWhole'
    BY DEF Orderly, Sized, CollectedIsWhole, Listed, Poll
  <1>10. SiteKnows'
    BY <1>1, <1>6 DEF Orderly, SiteKnows, DriverKnows, Poll, At
  <1>11. DriverKnows'
    BY <1>6, <1>7 DEF Orderly, DriverKnows, Poll, At, Shard
  <1> QED BY <1>8, <1>9, <1>10, <1>11 DEF Orderly

\* The fetched copy is that of the site, and the intent comes with it.
LEMMA RetrieveKeeps ==
    ASSUME Orderly, Retrieve
    PROVE  Orderly'
  <1>1. Shard \in Shards /\ Places = {"local", "site", "fetched"}
    BY ShardHolds DEF Retrieve, At, Places
  <1>2. /\ checkpoint["site"][Shard] \in Cursors \cup {None}
        /\ checkpoint["site"][Shard] # None
        /\ intent["site"][Shard] \in Intent \cup {None}
        /\ intent["site"][Shard] # None
        /\ files["fetched"][Shard] \cup files["site"][Shard] \in SUBSET Cursors
    BY <1>1 DEF Orderly, TypeOK, DriverKnows, Retrieve, At
  <1>3. /\ checkpoint' \in [Places -> [Shards -> Cursors \cup {None}]]
        /\ \A p \in Places, t \in Shards : checkpoint'[p][t] =
                IF p = "fetched" /\ t = Shard THEN checkpoint["site"][Shard] ELSE checkpoint[p][t]
    BY <1>1, <1>2 DEF Orderly, TypeOK, Retrieve, Put
  <1>4. /\ files' \in [Places -> [Shards -> SUBSET Cursors]]
        /\ \A p \in Places, t \in Shards : files[p][t] \subseteq files'[p][t]
    BY <1>1, <1>2 DEF Orderly, TypeOK, Retrieve, Put
  <1>5. /\ intent' \in [Places -> [Shards -> Intent \cup {None}]]
        /\ \A p \in Places, t \in Shards : intent'[p][t] =
                IF p = "fetched" /\ t = Shard THEN intent["site"][Shard] ELSE intent[p][t]
    BY <1>1, <1>2 DEF Orderly, TypeOK, Retrieve, Put
  <1>6. /\ driver' \in Driver /\ driver'.at = "import"
        /\ driver'.position = driver.position /\ driver'.done = driver.done
    BY Going DEF Orderly, Retrieve, Points
  <1>7. TypeOK'
    BY <1>3, <1>4, <1>5, <1>6 DEF Orderly, TypeOK, Retrieve, Driver
  <1>8. Sized' /\ SiteKnows'
    BY <1>1, <1>3, <1>5 DEF Orderly, Sized, SiteKnows, Retrieve
  <1>9. DriverKnows'
    BY <1>1, <1>2, <1>5, <1>6 DEF Orderly, DriverKnows, Retrieve, At, Shard
  <1>10. CollectedIsWhole'
    BY <1>1, <1>3, <1>4, WholeStays DEF Orderly
  <1> QED BY <1>7, <1>8, <1>9, <1>10 DEF Orderly

\* What is to be committed extends what is here, and all of it is to do.
LEMMA ImportKeeps ==
    ASSUME Orderly, Import
    PROVE  Orderly'
  <1> DEFINE upto == checkpoint["fetched"][Shard]
             todo == NewParts(Shard) \cup {0}
  <1>1. CASE Clean("fetched", Shard) /\ ForwardProgress(Shard)
    <2>1. Shard \in Shards /\ Size[Shard] \in Nat /\ Places = {"local", "site", "fetched"}
      BY ShardHolds DEF Import, At, Places
    <2>2. driver \in Driver /\ driver' = [driver EXCEPT !.at = "commit", !.upto = upto, !.todo = todo]
      BY <1>1 DEF Orderly, TypeOK, Driver, Import
    <2>3. upto \in Cursors /\ upto \in Nat /\ upto # None /\ upto <= Size[Shard]
      BY <1>1, <2>1, CursorsHold DEF Clean, Orderly, TypeOK, Sized
    <2>4. todo \in SUBSET Cursors /\ 0 \in todo
      <3>1. 1..upto \subseteq 0..Size[Shard]
        BY <2>1, <2>3
      <3>2. 0..Size[Shard] \subseteq Cursors /\ 0 \in Cursors
        BY <2>1, CursorsHold
      <3> QED BY <2>3, <3>1, <3>2 DEF NewParts, Listed
    <2>5. /\ driver' \in Driver /\ driver'.at = "commit" /\ driver'.upto = upto /\ driver'.todo = todo
          /\ driver'.position = driver.position /\ driver'.done = driver.done
      BY <2>2, <2>3, <2>4 DEF Driver, Points
    <2>6. 1..upto \subseteq files["local"][Shard] \cup todo
      <3>1. Listed("local", Shard) \subseteq files["local"][Shard]
        BY <2>1 DEF Orderly, CollectedIsWhole
      <3>2. Listed("fetched", Shard) = 1..upto
        BY <2>3 DEF Listed
      <3> QED BY <3>1, <3>2 DEF NewParts
    <2>7. checkpoint["local"][Shard] # None => checkpoint["local"][Shard] <= upto
      BY <1>1 DEF ForwardProgress
    <2>8. DriverKnows'
      BY <2>3, <2>4, <2>5, <2>6, <2>7 DEF Orderly, DriverKnows, Import, At, Shard, places
    <2> QED BY <2>5, <2>8, DriverOnly DEF Import
  <1>2. CASE ~(Clean("fetched", Shard) /\ ForwardProgress(Shard))
    BY <1>2, Halting, DriverOnly DEF Import
  <1> QED BY <1>1, <1>2

\* A set of numbers has a least member.
Below == {p \in Nat \X Nat : p[1] < p[2]}

LEMMA Least ==
    ASSUME NEW S \in SUBSET Nat, S # {}
    PROVE  Min(S) \in S
  <1>1. IsWellFoundedOn(Below, Nat)
    BY NatLessThanWellFounded DEF OpToRel, Below, IsWellFoundedOn
  <1>2. PICK n \in S : \A m \in S : <<m, n>> \notin Below
    BY <1>1, WFMin
  <1>3. ASSUME NEW m \in S PROVE n <= m
    <2>1. m \in Nat /\ n \in Nat /\ <<m, n>> \notin Below
      BY <1>2
    <2>2. ~(m < n)
      BY <2>1 DEF Below
    <2> QED BY <2>1, <2>2
  <1>4. \E x \in S : \A y \in S : x <= y
    BY <1>3
  <1> QED BY <1>4 DEF Min

\* The checkpoint is committed when there is nothing else left.
LEMMA CommitPartKeeps ==
    ASSUME Orderly, CommitPart
    PROVE  /\ Orderly'
           /\ \A s \in Shards : checkpoint["local"][s] # None =>
                /\ checkpoint'["local"][s] # None
                /\ checkpoint'["local"][s] >= checkpoint["local"][s]
  <1> DEFINE item == NextPart(driver.todo)
  <1>1. Shard \in Shards /\ Size[Shard] \in Nat /\ Places = {"local", "site", "fetched"}
    BY ShardHolds DEF CommitPart, At, Places
  <1>2. /\ driver \in Driver /\ 0 \in driver.todo /\ driver.todo \in SUBSET Cursors
        /\ driver.upto \in Cursors /\ driver.upto \in Nat /\ driver.upto # None
        /\ driver.upto <= Size[Shard]
        /\ checkpoint["local"][Shard] # None => checkpoint["local"][Shard] <= driver.upto
        /\ 1..driver.upto \subseteq files["local"][Shard] \cup driver.todo
    BY CursorsHold, NoneAssumption DEF Orderly, TypeOK, Driver, DriverKnows, CommitPart
  <1>3. driver' = [driver EXCEPT !.todo = @ \ {item},
                                 !.at = IF driver.todo = {item} THEN "validate" ELSE "commit"]
    BY DEF CommitPart
  <1>4. /\ driver' \in Driver
        /\ driver'.at = IF driver.todo = {item} THEN "validate" ELSE "commit"
        /\ driver'.upto = driver.upto /\ driver'.todo = driver.todo \ {item}
        /\ driver'.position = driver.position /\ driver'.done = driver.done
    <2>1. driver.todo \ {item} \in SUBSET Cursors
      BY <1>2
    <2> QED BY <1>2, <1>3, <2>1 DEF Driver, Points
  <1>5. CASE driver.todo = {0}
    <2>1. item = 0 /\ driver'.at = "validate"
      BY <1>4, <1>5 DEF NextPart
    <2>2. checkpoint' = Put(checkpoint, "local", Shard, driver.upto) /\ UNCHANGED files
      BY <2>1 DEF CommitPart
    <2>3. /\ checkpoint' \in [Places -> [Shards -> Cursors \cup {None}]]
          /\ \A p \in Places, t \in Shards : checkpoint'[p][t] =
                IF p = "local" /\ t = Shard THEN driver.upto ELSE checkpoint[p][t]
      BY <1>1, <1>2, <2>2 DEF Orderly, TypeOK, Put
    <2>4. TypeOK'
      BY <1>4, <2>2, <2>3 DEF Orderly, TypeOK, CommitPart, Driver
    <2>5. Sized' /\ SiteKnows'
      BY <1>1, <1>2, <2>3 DEF Orderly, Sized, SiteKnows, CommitPart
    <2>6. DriverKnows'
      BY <1>1, <1>4, <2>1 DEF Orderly, DriverKnows, CommitPart, At, Shard
    <2>7. 1..driver.upto \subseteq files["local"][Shard]
      BY <1>2, <1>5
    <2>8. CollectedIsWhole'
      BY <1>1, <1>2, <2>2, <2>3, <2>7 DEF Orderly, CollectedIsWhole, Listed
    <2>9. ASSUME NEW s \in Shards, checkpoint["local"][s] # None
          PROVE  checkpoint'["local"][s] # None /\ checkpoint'["local"][s] >= checkpoint["local"][s]
      <3>1. checkpoint["local"][s] \in Nat
        BY <1>1, <2>9, CursorsHold DEF Orderly, TypeOK
      <3> QED BY <1>1, <1>2, <2>3, <2>9, <3>1
    <2> QED BY <2>4, <2>5, <2>6, <2>8, <2>9 DEF Orderly
  <1>6. CASE driver.todo # {0}
    <2>1. item \in driver.todo /\ item # 0
      <3>1. driver.todo \ {0} \in SUBSET Nat /\ driver.todo \ {0} # {}
        BY <1>2, <1>6, CursorsHold
      <3>2. item = Min(driver.todo \ {0})
        BY <1>6 DEF NextPart
      <3> QED BY <3>1, <3>2, Least
    <2>2. driver'.at = "commit"
      BY <1>2, <1>4, <2>1
    <2>3. files["local"][Shard] \cup {item} \in SUBSET Cursors
      BY <1>1, <1>2, <2>1 DEF Orderly, TypeOK
    <2>4. files' = Put(files, "local", Shard, files["local"][Shard] \cup {item})
          /\ UNCHANGED checkpoint
      BY <2>1 DEF CommitPart
    <2>5. /\ files' \in [Places -> [Shards -> SUBSET Cursors]]
          /\ \A p \in Places, t \in Shards : files[p][t] \subseteq files'[p][t]
          /\ item \in files'["local"][Shard]
      BY <1>1, <2>3, <2>4 DEF Orderly, TypeOK, Put
    <2>6. TypeOK'
      BY <1>4, <2>4, <2>5 DEF Orderly, TypeOK, CommitPart, Driver
    <2>7. Sized' /\ SiteKnows'
      BY <2>4 DEF Orderly, Sized, SiteKnows, CommitPart
    <2>8. 1..driver.upto \subseteq files'["local"][Shard] \cup driver'.todo
      BY <1>1, <1>2, <1>4, <2>5
    <2>9. DriverKnows'
      BY <1>2, <1>4, <2>1, <2>2, <2>4, <2>8 DEF Orderly, DriverKnows, CommitPart, At, Shard
    <2>10. CollectedIsWhole'
      BY <1>1, <2>4, <2>5, WholeStays DEF Orderly
    <2>11. ASSUME NEW s \in Shards, checkpoint["local"][s] # None
           PROVE  checkpoint'["local"][s] # None /\ checkpoint'["local"][s] >= checkpoint["local"][s]
      <3>1. checkpoint["local"][s] \in Nat
        BY <1>1, <2>11, CursorsHold DEF Orderly, TypeOK
      <3> QED BY <2>4, <2>11, <3>1
    <2> QED BY <2>6, <2>7, <2>9, <2>10, <2>11 DEF Orderly
  <1> QED BY <1>5, <1>6

LEMMA ValidateKeeps ==
    ASSUME Orderly, Validate
    PROVE  Orderly'
  <1>1. CASE Clean("local", Shard)
    <2>1. /\ driver' \in Driver /\ driver'.at = "adopt"
          /\ driver'.position = driver.position /\ driver'.done = driver.done
      BY <1>1, Going DEF Orderly, Validate, Points
    <2>2. DriverKnows'
      BY <2>1 DEF Orderly, DriverKnows, At, Shard, Validate, places
    <2> QED BY <2>1, <2>2, DriverOnly DEF Validate
  <1>2. CASE ~Clean("local", Shard)
    BY <1>2, Halting, DriverOnly DEF Validate
  <1> QED BY <1>1, <1>2

\* After adoption there is an intent to acknowledge.
LEMMA AdoptKeeps ==
    ASSUME Orderly, Adopt
    PROVE  Orderly'
  <1>1. Shard \in Shards /\ Places = {"local", "site", "fetched"}
    BY ShardHolds DEF Adopt, At, Places
  <1>2. intent["fetched"][Shard] \in Intent \cup {None} /\ intent["fetched"][Shard] # None
    BY <1>1 DEF Orderly, TypeOK, DriverKnows, Adopt, At
  <1>3. /\ intent' \in [Places -> [Shards -> Intent \cup {None}]]
        /\ intent'["local"][Shard] # None
        /\ \A t \in Shards : intent'["site"][t] = intent["site"][t]
    <2>1. CASE intent["local"][Shard] # None
      BY <2>1 DEF Orderly, TypeOK, Adopt
    <2>2. CASE intent["local"][Shard] = None
      <3>1. intent' = Put(intent, "local", Shard, intent["fetched"][Shard])
        BY <2>2 DEF Adopt
      <3> QED BY <1>1, <1>2, <3>1 DEF Orderly, TypeOK, Put
    <2> QED BY <2>1, <2>2
  <1>4. /\ driver' \in Driver /\ driver'.at = "acknowledge"
        /\ driver'.position = driver.position /\ driver'.done = driver.done
    BY Going DEF Orderly, Adopt, Points
  <1>5. TypeOK'
    BY <1>3, <1>4 DEF Orderly, TypeOK, Adopt, Driver
  <1>6. Sized' /\ CollectedIsWhole'
    BY DEF Orderly, Sized, CollectedIsWhole, Listed, Adopt
  <1>7. SiteKnows'
    BY <1>3 DEF Orderly, SiteKnows, Adopt
  <1>8. DriverKnows'
    BY <1>3, <1>4 DEF Orderly, DriverKnows, At, Shard, Adopt
  <1> QED BY <1>5, <1>6, <1>7, <1>8 DEF Orderly

LEMMA AcknowledgeKeeps ==
    ASSUME Orderly, Acknowledge
    PROVE  Orderly'
  <1> DEFINE complete == driver.upto = Size[Shard]
             mine == intent["local"][Shard]
  <1>1. Shard \in Shards /\ Places = {"local", "site", "fetched"}
    BY ShardHolds DEF Acknowledge, At, Places
  <1>2. CASE AcknowledgeAllowed(mine, complete)
    <2>1. mine \in Intent
      BY <1>1 DEF Orderly, TypeOK, DriverKnows, Acknowledge, At
    <2>2. Acknowledged(mine, complete) \in Intent \cup {None}
      <3>1. complete \in BOOLEAN
        OBVIOUS
      <3> HIDE DEF complete, mine
      <3> QED BY <2>1, <3>1 DEF Acknowledged, Intent
    <2>3. /\ intent' \in [Places -> [Shards -> Intent \cup {None}]]
          /\ \A t \in Shards : intent'["site"][t] = intent["site"][t]
      <3>1. intent' = Put(intent, "local", Shard, Acknowledged(mine, complete))
        BY <1>2 DEF Acknowledge
      <3> QED BY <1>1, <2>2, <3>1 DEF Orderly, TypeOK, Put
    <2>4. driver' = [at |-> "next", position |-> driver.position + 1, done |-> driver.done + 1,
                     upto |-> 0, todo |-> {}, blind |-> FALSE]
      BY <1>2 DEF Acknowledge, Resting
    <2>5. driver' \in Driver /\ driver'.at = "next" /\ driver'.done < driver'.position
      <3>1. /\ driver.position \in 1..Len(Share) /\ driver.done \in Nat /\ Len(Share) \in Nat
            /\ driver.done < driver.position
        BY ShareHolds DEF Orderly, TypeOK, DriverKnows, Acknowledge, At
      <3> QED BY <2>4, <3>1, CursorsHold DEF Driver, Points
    <2>6. TypeOK'
      BY <2>3, <2>5 DEF Orderly, TypeOK, Acknowledge, Driver
    <2>7. Sized' /\ CollectedIsWhole'
      BY DEF Orderly, Sized, CollectedIsWhole, Listed, Acknowledge
    <2>8. SiteKnows'
      BY <2>3 DEF Orderly, SiteKnows, Acknowledge
    <2> QED BY <2>5, <2>6, <2>7, <2>8, Idle DEF Orderly
  <1>3. CASE ~AcknowledgeAllowed(mine, complete)
    <2>1. Halt /\ UNCHANGED <<places, job, frontend, faults>>
      BY <1>3 DEF Acknowledge, places
    <2> QED BY <2>1, Halting, DriverOnly
  <1> QED BY <1>2, <1>3

-----------------------------------------------------------------------------
(* The command at the site and the jobs *)

\* Steps at the site leave the driver and the other places alone.
LEMMA SiteOnly ==
    ASSUME Orderly, UNCHANGED <<checkpoint, files, aside, driver>>,
           intent' \in [Places -> [Shards -> Intent \cup {None}]],
           \A p \in Places, t \in Shards : intent[p][t] # None => intent'[p][t] # None,
           frontend' \in [Shards -> [at : Commands, outcome : Outcomes]],
           job' \in [Shards -> [state : JobStates, upto : Cursors]],
           faults' \in 0..MaxFaults,
           Sized', SiteKnows'
    PROVE  Orderly'
  <1>1. TypeOK'
    BY DEF Orderly, TypeOK
  <1>2. DriverKnows'
    BY DriverStays DEF Orderly
  <1>3. CollectedIsWhole'
    BY DEF Orderly, CollectedIsWhole, Listed
  <1> QED BY <1>1, <1>2, <1>3 DEF Orderly

LEMMA WriteIntentKeeps ==
    ASSUME Orderly, NEW s \in Shards, WriteIntent(s)
    PROVE  Orderly'
  <1>1. /\ intent \in [Places -> [Shards -> Intent \cup {None}]]
        /\ frontend \in [Shards -> [at : Commands, outcome : Outcomes]]
        /\ Places = {"local", "site", "fetched"}
    BY DEF Orderly, TypeOK, Places
  <1>2. checkpoint["site"][s] # None
    BY DEF Orderly, SiteKnows, WriteIntent
  <1>3. CASE frontend' = [frontend EXCEPT ![s].at = "oarsub"] /\ intent' = Put(intent, "site", s, NewIntent)
    <2>1. NewIntent \in Intent /\ NewIntent # None
      <3>1. NewIntent \in Intent
        BY DEF NewIntent, Intent, Outcomes
      <3> QED BY <3>1, NoneAssumption
    <2>2. /\ intent' \in [Places -> [Shards -> Intent \cup {None}]]
          /\ \A p \in Places, t \in Shards : intent'[p][t] =
                IF p = "site" /\ t = s THEN NewIntent ELSE intent[p][t]
      BY <1>1, <1>3, <2>1 DEF Put
    <2>3. /\ frontend' \in [Shards -> [at : Commands, outcome : Outcomes]]
          /\ frontend'[s].at = "oarsub"
          /\ \A t \in Shards \ {s} : frontend'[t] = frontend[t]
      BY <1>1, <1>3 DEF Commands
    <2>4. Sized' /\ SiteKnows'
      BY <1>1, <1>2, <2>1, <2>2, <2>3 DEF Orderly, Sized, SiteKnows, WriteIntent
    <2> QED BY <2>1, <2>2, <2>3, <2>4, SiteOnly DEF WriteIntent, Orderly, TypeOK
  <1>4. CASE Answer(s, "none") /\ UNCHANGED intent
    <2>1. [at |-> "answered", outcome |-> "none"] \in [at : Commands, outcome : Outcomes]
      BY DEF Commands, Outcomes
    <2>2. /\ frontend' \in [Shards -> [at : Commands, outcome : Outcomes]]
          /\ frontend'[s] = [at |-> "answered", outcome |-> "none"]
          /\ \A t \in Shards \ {s} : frontend'[t] = frontend[t]
      BY <1>1, <1>4, <2>1 DEF Answer
    <2>3. Sized' /\ SiteKnows'
      BY <1>2, <1>4, <2>2 DEF Orderly, Sized, SiteKnows, WriteIntent
    <2> QED BY <1>1, <1>4, <2>2, <2>3, SiteOnly DEF WriteIntent, Orderly, TypeOK
  <1> QED BY <1>3, <1>4 DEF WriteIntent

\* What Becomes makes of a job.
LEMMA Becoming ==
    ASSUME Orderly, NEW s \in Shards, NEW state \in JobStates, Becomes(s, state)
    PROVE  /\ job' \in [Shards -> [state : JobStates, upto : Cursors]]
           /\ job'[s].state = state /\ job'[s].upto = 0
           /\ \A t \in Shards \ {s} : job'[t] = job[t]
  <1>1. [state |-> state, upto |-> 0] \in [state : JobStates, upto : Cursors]
    BY CursorsHold
  <1> QED BY <1>1 DEF Orderly, TypeOK, Becomes

LEMMA OarsubKeeps ==
    ASSUME Orderly, NEW s \in Shards, Oarsub(s)
    PROVE  Orderly'
  <1>1. PICK outcome \in Outcomes \ {"none"} :
            /\ frontend' = [frontend EXCEPT ![s] = [at |-> "record", outcome |-> outcome]]
            /\ \E state \in {"none", "pending", "queued"} : Becomes(s, state)
            /\ faults' = faults \/ (faults < MaxFaults /\ faults' = faults + 1)
    BY DEF Oarsub, Outcomes
  <1>2. PICK state \in {"none", "pending", "queued"} : Becomes(s, state)
    BY <1>1
  <1>3. /\ job' \in [Shards -> [state : JobStates, upto : Cursors]]
        /\ job'[s].state = state /\ job'[s].upto = 0
        /\ \A t \in Shards \ {s} : job'[t] = job[t]
    BY <1>2, Becoming DEF JobStates, Live
  <1>4. /\ frontend' \in [Shards -> [at : Commands, outcome : Outcomes]]
        /\ frontend'[s] = [at |-> "record", outcome |-> outcome]
        /\ \A t \in Shards \ {s} : frontend'[t] = frontend[t]
    <2>1. [at |-> "record", outcome |-> outcome] \in [at : Commands, outcome : Outcomes]
      BY DEF Commands
    <2> QED BY <1>1, <2>1 DEF Orderly, TypeOK
  <1>5. intent["site"][s] # None /\ checkpoint["site"][s] # None
    BY DEF Orderly, SiteKnows, Oarsub
  <1>6. faults' \in 0..MaxFaults
    BY <1>1, BoundsAssumption DEF Orderly, TypeOK
  <1>7. Sized' /\ SiteKnows'
    BY <1>2, <1>3, <1>4, <1>5, CursorsHold DEF Orderly, Sized, SiteKnows, Oarsub, places
  <1> QED BY <1>3, <1>4, <1>6, <1>7, SiteOnly DEF Oarsub, places, Orderly, TypeOK

LEMMA RecordKeeps ==
    ASSUME Orderly, NEW s \in Shards, Record(s)
    PROVE  Orderly'
  <1> DEFINE outcome == frontend[s].outcome
             id == IF outcome = "submitted" THEN 1 ELSE 0
             before == intent["site"][s]
  <1>1. /\ intent \in [Places -> [Shards -> Intent \cup {None}]]
        /\ frontend \in [Shards -> [at : Commands, outcome : Outcomes]]
        /\ Places = {"local", "site", "fetched"}
    BY DEF Orderly, TypeOK, Places
  <1>2. before \in Intent /\ checkpoint["site"][s] # None
    BY <1>1 DEF Orderly, SiteKnows, Record
  <1>3. Recorded(before, outcome, id) \in Intent
    <2>1. outcome \in Outcomes /\ id \in {0, 1}
      BY <1>1
    <2> HIDE DEF outcome, id, before
    <2> QED BY <1>2, <2>1 DEF Recorded, Intent
  <1>4. intent' = Put(intent, "site", s, Recorded(before, outcome, id))
    BY DEF Record
  <1> HIDE DEF id, before
  <1>5. /\ intent' \in [Places -> [Shards -> Intent \cup {None}]]
        /\ \A p \in Places, t \in Shards : intent'[p][t] =
                IF p = "site" /\ t = s THEN Recorded(before, outcome, id) ELSE intent[p][t]
        /\ Recorded(before, outcome, id) # None
    BY <1>1, <1>3, <1>4, NoneAssumption DEF Put
  <1>6. /\ frontend' \in [Shards -> [at : Commands, outcome : Outcomes]]
        /\ frontend'[s].at = "answered"
        /\ \A t \in Shards \ {s} : frontend'[t] = frontend[t]
    <2>1. [at |-> "answered", outcome |-> outcome] \in [at : Commands, outcome : Outcomes]
      BY <1>1 DEF Commands
    <2> QED BY <1>1, <2>1 DEF Record, Answer
  <1>7. Sized' /\ SiteKnows'
    BY <1>1, <1>2, <1>5, <1>6 DEF Orderly, Sized, SiteKnows, Record
  <1> QED BY SMTT(30), <1>1, <1>5, <1>6, <1>7, SiteOnly DEF Record, Orderly, TypeOK

LEMMA AnswersNobodyKeeps ==
    ASSUME Orderly, NEW s \in Shards, AnswersNobody(s)
    PROVE  Orderly'
  <1>1. /\ frontend' \in [Shards -> [at : Commands, outcome : Outcomes]]
        /\ frontend'[s].at = "idle"
        /\ \A t \in Shards \ {s} : frontend'[t] = frontend[t]
    <2>1. [at |-> "idle", outcome |-> "none"] \in [at : Commands, outcome : Outcomes]
      BY DEF Commands, Outcomes
    <2> QED BY <2>1 DEF Orderly, TypeOK, AnswersNobody
  <1>2. Sized' /\ SiteKnows'
    BY <1>1 DEF Orderly, Sized, SiteKnows, AnswersNobody, places
  <1> QED BY <1>1, <1>2, SiteOnly DEF AnswersNobody, places, Orderly, TypeOK

LEMMA RegisterKeeps ==
    ASSUME Orderly, NEW s \in Shards, Register(s)
    PROVE  Orderly'
  <1>1. /\ job' \in [Shards -> [state : JobStates, upto : Cursors]]
        /\ job'[s].state = "queued" /\ job'[s].upto = 0
        /\ \A t \in Shards \ {s} : job'[t] = job[t]
    BY Becoming DEF Register, JobStates, Live
  <1>2. Sized' /\ SiteKnows'
    BY <1>1, CursorsHold DEF Orderly, Sized, SiteKnows, Register, places
  <1> QED BY <1>1, <1>2, SiteOnly DEF Register, places, Orderly, TypeOK

LEMMA JobKilledKeeps ==
    ASSUME Orderly, NEW s \in Shards, JobKilled(s)
    PROVE  Orderly'
  <1>1. /\ job' \in [Shards -> [state : JobStates, upto : Cursors]]
        /\ job'[s].state = "over" /\ job'[s].upto = 0
        /\ \A t \in Shards \ {s} : job'[t] = job[t]
    BY Becoming DEF JobKilled, JobStates
  <1>2. job[s].state # "none"
    BY DEF JobKilled, Live
  <1>3. Sized' /\ SiteKnows'
    BY <1>1, <1>2, CursorsHold DEF Orderly, Sized, SiteKnows, JobKilled, places
  <1>4. faults' \in 0..MaxFaults
    BY BoundsAssumption DEF Orderly, TypeOK, JobKilled
  <1> QED BY <1>1, <1>3, <1>4, SiteOnly DEF JobKilled, places, Orderly, TypeOK

\* A job that begins takes the checkpoint it finds.
LEMMA JobBeginsKeeps ==
    ASSUME Orderly, NEW s \in Shards, JobBegins(s)
    PROVE  Orderly'
  <1>1. /\ checkpoint["site"][s] \in Cursors /\ checkpoint["site"][s] # None
        /\ checkpoint["site"][s] <= Size[s]
        /\ Places = {"local", "site", "fetched"}
    BY DEF Orderly, TypeOK, Sized, SiteKnows, JobBegins, Places
  <1>2. PICK new \in [state : {"running", "over"}, upto : Cursors] :
            job' = [job EXCEPT ![s] = new] /\ new.upto <= Size[s]
    <2>1. CASE Listed("site", s) \subseteq files["site"][s]
      <3> DEFINE begun == [state |-> "running", upto |-> checkpoint["site"][s]]
      <3>1. begun \in [state : {"running", "over"}, upto : Cursors] /\ begun.upto <= Size[s]
        BY <1>1
      <3>2. job' = [job EXCEPT ![s] = begun]
        BY <2>1 DEF JobBegins
      <3> QED BY <3>1, <3>2
    <2>2. CASE ~(Listed("site", s) \subseteq files["site"][s])
      <3> DEFINE ended == [state |-> "over", upto |-> 0]
      <3>1. ended \in [state : {"running", "over"}, upto : Cursors] /\ ended.upto <= Size[s]
        BY CursorsHold
      <3>2. job' = [job EXCEPT ![s] = ended]
        BY <2>2 DEF JobBegins
      <3> QED BY <3>1, <3>2
    <2> QED BY <2>1, <2>2
  <1>3. /\ job' \in [Shards -> [state : JobStates, upto : Cursors]]
        /\ job'[s] = new
        /\ \A t \in Shards \ {s} : job'[t] = job[t]
    <2>1. new \in [state : JobStates, upto : Cursors]
      BY <1>2 DEF JobStates, Live
    <2> QED BY <1>2, <2>1 DEF Orderly, TypeOK
  <1>4. Sized' /\ SiteKnows'
    BY <1>2, <1>3 DEF Orderly, Sized, SiteKnows, JobBegins, places
  <1> QED BY <1>3, <1>4, SiteOnly DEF JobBegins, places, Orderly, TypeOK

LEMMA JobWritesPartKeeps ==
    ASSUME Orderly, NEW s \in Shards, JobWritesPart(s)
    PROVE  Orderly'
  <1>1. /\ job \in [Shards -> [state : JobStates, upto : Cursors]]
        /\ files \in [Places -> [Shards -> SUBSET Cursors]]
        /\ Places = {"local", "site", "fetched"}
    BY DEF Orderly, TypeOK, Places
  <1>2. job[s].upto \in Nat /\ Size[s] \in Nat /\ job[s].upto < Size[s]
    BY <1>1, CursorsHold DEF JobWritesPart
  <1>3. job[s].upto + 1 \in Cursors
    <2>1. job[s].upto + 1 \in 0..Size[s]
      BY <1>2
    <2> QED BY <2>1, CursorsHold
  <1>4. /\ job' \in [Shards -> [state : JobStates, upto : Cursors]]
        /\ job'[s].state = "wrote" /\ job'[s].upto = job[s].upto
        /\ \A t \in Shards \ {s} : job'[t] = job[t]
    BY <1>1 DEF JobWritesPart, JobStates, Live
  <1>5. files["site"][s] \cup {job[s].upto + 1} \in SUBSET Cursors
    BY <1>1, <1>3
  <1>6. /\ files' \in [Places -> [Shards -> SUBSET Cursors]]
        /\ \A t \in Shards : files'["local"][t] = files["local"][t]
    BY <1>1, <1>5 DEF JobWritesPart, Put
  <1>7. TypeOK'
    BY <1>4, <1>6 DEF Orderly, TypeOK, JobWritesPart
  <1>8. Sized' /\ SiteKnows'
    BY <1>2, <1>4 DEF Orderly, Sized, SiteKnows, JobWritesPart
  <1>9. DriverKnows'
    BY <1>6, DriverStays DEF JobWritesPart
  <1>10. CollectedIsWhole'
    BY <1>6, WholeStays DEF Orderly, JobWritesPart
  <1> QED BY <1>7, <1>8, <1>9, <1>10 DEF Orderly

LEMMA JobWritesCheckpointKeeps ==
    ASSUME Orderly, NEW s \in Shards, JobWritesCheckpoint(s)
    PROVE  Orderly'
  <1> DEFINE next == job[s].upto + 1
  <1>1. /\ job \in [Shards -> [state : JobStates, upto : Cursors]]
        /\ checkpoint \in [Places -> [Shards -> Cursors \cup {None}]]
        /\ Places = {"local", "site", "fetched"}
    BY DEF Orderly, TypeOK, Places
  <1>2. job[s].upto \in Nat /\ Size[s] \in Nat /\ job[s].upto < Size[s]
    BY <1>1, CursorsHold DEF Orderly, Sized, JobWritesCheckpoint
  <1>3. next \in Cursors /\ next \in Nat /\ next # None /\ next <= Size[s]
    <2>1. next \in 0..Size[s]
      BY <1>2
    <2> QED BY <2>1, CursorsHold, NoneAssumption
  <1>4. /\ job' \in [Shards -> [state : JobStates, upto : Cursors]]
        /\ job'[s].state = "running" /\ job'[s].upto = next
        /\ \A t \in Shards \ {s} : job'[t] = job[t]
    <2>1. [state |-> "running", upto |-> next] \in [state : JobStates, upto : Cursors]
      BY <1>3 DEF JobStates, Live
    <2>2. job' = [job EXCEPT ![s] = [state |-> "running", upto |-> next]]
      BY <1>1 DEF JobWritesCheckpoint
    <2> QED BY <1>1, <2>1, <2>2
  <1>5. checkpoint' = Put(checkpoint, "site", s, next)
    BY DEF JobWritesCheckpoint
  <1> HIDE DEF next
  <1>6. /\ checkpoint' \in [Places -> [Shards -> Cursors \cup {None}]]
        /\ \A p \in Places, t \in Shards : checkpoint'[p][t] =
                IF p = "site" /\ t = s THEN next ELSE checkpoint[p][t]
    BY <1>1, <1>3, <1>5 DEF Put
  <1>7. TypeOK'
    BY <1>4, <1>6 DEF Orderly, TypeOK, JobWritesCheckpoint
  <1>8. Sized' /\ SiteKnows'
    BY <1>1, <1>3, <1>4, <1>6 DEF Orderly, Sized, SiteKnows, JobWritesCheckpoint
  <1>9. DriverKnows'
    BY <1>1, <1>3, <1>6, DriverStays DEF JobWritesCheckpoint
  <1>10. CollectedIsWhole'
    BY <1>1, <1>6, WholeStays DEF Orderly, JobWritesCheckpoint
  <1> QED BY <1>7, <1>8, <1>9, <1>10 DEF Orderly

LEMMA JobStopsKeeps ==
    ASSUME Orderly, NEW s \in Shards, JobStops(s)
    PROVE  Orderly'
  <1>1. /\ job \in [Shards -> [state : JobStates, upto : Cursors]]
        /\ checkpoint \in [Places -> [Shards -> Cursors \cup {None}]]
        /\ Places = {"local", "site", "fetched"}
    BY DEF Orderly, TypeOK, Places
  <1>2. /\ job[s].upto \in Cursors /\ job[s].upto \in Nat /\ job[s].upto # None
        /\ job[s].upto <= Size[s]
    BY <1>1, CursorsHold, NoneAssumption DEF Orderly, Sized
  <1>3. /\ job' \in [Shards -> [state : JobStates, upto : Cursors]]
        /\ job'[s].state = "over" /\ job'[s].upto = 0
        /\ \A t \in Shards \ {s} : job'[t] = job[t]
    BY Becoming DEF JobStops, JobStates
  <1>4. /\ checkpoint' \in [Places -> [Shards -> Cursors \cup {None}]]
        /\ \A p \in Places, t \in Shards : checkpoint'[p][t] =
                IF p = "site" /\ t = s THEN job[s].upto ELSE checkpoint[p][t]
    BY <1>1, <1>2 DEF JobStops, Put
  <1>5. TypeOK'
    BY <1>3, <1>4 DEF Orderly, TypeOK, JobStops
  <1>6. Sized' /\ SiteKnows'
    BY <1>1, <1>2, <1>3, <1>4, CursorsHold DEF Orderly, Sized, SiteKnows, JobStops
  <1>7. DriverKnows'
    BY <1>1, <1>2, <1>4, DriverStays DEF JobStops
  <1>8. CollectedIsWhole'
    BY <1>1, <1>4, WholeStays DEF Orderly, JobStops
  <1> QED BY <1>5, <1>6, <1>7, <1>8 DEF Orderly

-----------------------------------------------------------------------------
(* What else happens *)

\* A worker at home keeps out of an import, and lists what it has written.
LEMMA LocalWorksKeeps ==
    ASSUME Orderly, NEW s \in Shards, LocalWorks(s)
    PROVE  /\ Orderly'
           /\ \A t \in Shards : checkpoint["local"][t] # None =>
                /\ checkpoint'["local"][t] # None
                /\ checkpoint'["local"][t] >= checkpoint["local"][t]
  <1> DEFINE old == checkpoint["local"][s]
             b == old + 1
  <1>1. /\ checkpoint \in [Places -> [Shards -> Cursors \cup {None}]]
        /\ files \in [Places -> [Shards -> SUBSET Cursors]]
        /\ Places = {"local", "site", "fetched"}
    BY DEF Orderly, TypeOK, Places
  <1>2. old \in Nat /\ Size[s] \in Nat /\ old < Size[s]
    BY <1>1, CursorsHold DEF LocalWorks
  <1>3. b \in Cursors /\ b \in Nat /\ b # None /\ b <= Size[s]
    <2>1. b \in 0..Size[s]
      BY <1>2
    <2> QED BY <2>1, CursorsHold, NoneAssumption
  <1>4. files["local"][s] \cup {b} \in SUBSET Cursors
    BY <1>1, <1>3
  <1>5. /\ files' = Put(files, "local", s, files["local"][s] \cup {b})
        /\ checkpoint' = checkpoint \/ checkpoint' = Put(checkpoint, "local", s, b)
    BY DEF LocalWorks
  <1>6. 1..b \subseteq files["local"][s] \cup {b}
    <2>1. 1..old \subseteq files["local"][s]
      BY <1>1 DEF LocalWorks, Listed
    <2>2. 1..b = (1..old) \cup {b}
      BY <1>2
    <2> QED BY <2>1, <2>2
  <1>7. b > old
    BY <1>2
  <1> HIDE DEF b
  <1>8. /\ files' \in [Places -> [Shards -> SUBSET Cursors]]
        /\ files'["local"][s] = files["local"][s] \cup {b}
        /\ \A p \in Places, t \in Shards : files[p][t] \subseteq files'[p][t]
    BY <1>1, <1>4, <1>5 DEF Put
  <1>9. /\ checkpoint' \in [Places -> [Shards -> Cursors \cup {None}]]
        /\ checkpoint'["local"][s] \in {old, b}
        /\ \A p \in Places, t \in Shards : p # "local" \/ t # s => checkpoint'[p][t] = checkpoint[p][t]
    <2>1. CASE checkpoint' = checkpoint
      BY <1>1, <2>1
    <2>2. CASE checkpoint' = Put(checkpoint, "local", s, b)
      BY <1>1, <1>3, <2>2 DEF Put
    <2> QED BY <1>5, <2>1, <2>2
  <1>10. faults' \in 0..MaxFaults
    BY BoundsAssumption DEF Orderly, TypeOK, LocalWorks
  <1>11. TypeOK'
    BY <1>8, <1>9, <1>10 DEF Orderly, TypeOK, LocalWorks
  <1>12. Sized' /\ SiteKnows'
    BY <1>1, <1>2, <1>3, <1>9 DEF Orderly, Sized, SiteKnows, LocalWorks
  <1>13. DriverKnows'
    <2>1. CASE At("commit")
      BY <2>1 DEF LocalWorks, LocalLocked, At
    <2>2. CASE ~At("commit")
      BY <1>1, <1>9, <2>2 DEF Orderly, DriverKnows, At, Shard, LocalWorks
    <2> QED BY <2>1, <2>2
  <1>14. CollectedIsWhole'
    <2> SUFFICES ASSUME NEW t \in Shards PROVE (Listed("local", t) \subseteq files["local"][t])'
      BY DEF CollectedIsWhole
    <2>1. Listed("local", t) \subseteq files["local"][t]
      BY DEF Orderly, CollectedIsWhole
    <2>2. CASE checkpoint'["local"][t] = checkpoint["local"][t]
      BY <1>1, <1>8, <2>1, <2>2 DEF Listed
    <2>3. CASE t = s /\ checkpoint'["local"][t] = b
      BY <1>3, <1>6, <1>8, <2>3 DEF Listed
    <2> QED BY <1>1, <1>9, <2>2, <2>3
  <1>15. ASSUME NEW t \in Shards, checkpoint["local"][t] # None
         PROVE  checkpoint'["local"][t] # None /\ checkpoint'["local"][t] >= checkpoint["local"][t]
    <2>1. checkpoint["local"][t] \in Nat
      BY <1>1, <1>15, CursorsHold
    <2>2. CASE t = s
      BY <1>2, <1>3, <1>7, <1>9, <1>15, <2>2
    <2>3. CASE t # s
      BY <1>1, <1>9, <1>15, <2>1, <2>3
    <2> QED BY <2>2, <2>3
  <1> QED BY <1>11, <1>12, <1>13, <1>14, <1>15 DEF Orderly

\* A driver that is killed forgets everything.
LEMMA DriverKilledKeeps ==
    ASSUME Orderly, DriverKilled
    PROVE  Orderly'
  <1>1. driver' \in Driver /\ DriverKnows'
    BY Halting DEF DriverKilled, Halt, Halted
  <1>2. /\ frontend' \in [Shards -> [at : Commands, outcome : Outcomes]]
        /\ \A t \in Shards : frontend'[t] = frontend[t] \/ frontend'[t].at = "idle"
    <2>1. [at |-> "idle", outcome |-> "none"] \in [at : Commands, outcome : Outcomes]
      BY DEF Commands, Outcomes
    <2>2. CASE frontend' = [frontend EXCEPT ![Shard] = [at |-> "idle", outcome |-> "none"]]
      BY <2>1, <2>2 DEF Orderly, TypeOK
    <2>3. CASE UNCHANGED frontend
      BY <2>3 DEF Orderly, TypeOK
    <2> QED BY <2>2, <2>3 DEF DriverKilled
  <1>3. faults' \in 0..MaxFaults
    BY BoundsAssumption DEF Orderly, TypeOK, DriverKilled
  <1>4. TypeOK'
    BY <1>1, <1>2, <1>3 DEF Orderly, TypeOK, DriverKilled, Driver, places
  <1>5. Sized' /\ CollectedIsWhole'
    BY DEF Orderly, Sized, CollectedIsWhole, Listed, DriverKilled, places
  <1>6. SiteKnows'
    BY <1>2 DEF Orderly, SiteKnows, DriverKilled, places
  <1> QED BY <1>1, <1>4, <1>5, <1>6 DEF Orderly

LEMMA KilledInOarsubKeeps ==
    ASSUME Orderly, KilledInOarsub
    PROVE  Orderly'
  <1>1. Shard \in Shards /\ checkpoint["site"][Shard] # None
    BY ShardHolds DEF KilledInOarsub, At, Orderly, DriverKnows
  <1>2. driver' \in Driver /\ DriverKnows'
    BY Halting DEF KilledInOarsub, Halt, Halted
  <1>3. /\ job' \in [Shards -> [state : JobStates, upto : Cursors]]
        /\ job'[Shard].state = "pending" /\ job'[Shard].upto = 0
        /\ \A t \in Shards \ {Shard} : job'[t] = job[t]
    BY <1>1, Becoming DEF KilledInOarsub, JobStates
  <1>4. /\ frontend' \in [Shards -> [at : Commands, outcome : Outcomes]]
        /\ frontend'[Shard].at = "idle"
        /\ \A t \in Shards \ {Shard} : frontend'[t] = frontend[t]
    <2>1. [at |-> "idle", outcome |-> "none"] \in [at : Commands, outcome : Outcomes]
      BY DEF Commands, Outcomes
    <2> QED BY <1>1, <2>1 DEF Orderly, TypeOK, KilledInOarsub
  <1>5. faults' \in 0..MaxFaults
    BY BoundsAssumption DEF Orderly, TypeOK, KilledInOarsub
  <1>6. TypeOK'
    BY <1>2, <1>3, <1>4, <1>5 DEF Orderly, TypeOK, KilledInOarsub, Driver, places
  <1>7. Sized' /\ SiteKnows'
    BY <1>1, <1>3, <1>4, CursorsHold DEF Orderly, Sized, SiteKnows, KilledInOarsub, places
  <1>8. CollectedIsWhole'
    BY DEF Orderly, CollectedIsWhole, Listed, KilledInOarsub, places
  <1> QED BY <1>2, <1>6, <1>7, <1>8 DEF Orderly


-----------------------------------------------------------------------------
(* Every step *)

LEMMA InitOrderly ==
    ASSUME Init
    PROVE  Orderly
  <1>1. PICK begun \in [Shards -> {None} \cup Cursors] :
            /\ \A s \in Shards : begun[s] # None => begun[s] <= Size[s]
            /\ checkpoint = [place \in Places |->
                                IF place = "local" THEN begun ELSE [s \in Shards |-> None]]
            /\ files = [place \in Places |-> [s \in Shards |->
                            IF place = "local" /\ begun[s] # None THEN 1..begun[s] ELSE {}]]
    BY DEF Init
  <1>2. \A s \in Shards : begun[s] # None => 1..begun[s] \subseteq Cursors
    <2> SUFFICES ASSUME NEW s \in Shards, begun[s] # None PROVE 1..begun[s] \subseteq Cursors
      OBVIOUS
    <2>1. begun[s] \in Nat /\ Size[s] \in Nat /\ begun[s] <= Size[s]
      BY <1>1, CursorsHold
    <2>2. 1..begun[s] \subseteq 0..Size[s]
      BY <2>1
    <2> QED BY <2>2, CursorsHold
  <1>3. Places = {"local", "site", "fetched"}
    BY DEF Places
  <1>4. /\ checkpoint \in [Places -> [Shards -> Cursors \cup {None}]]
        /\ \A s \in Shards : /\ checkpoint["local"][s] = begun[s]
                             /\ checkpoint["site"][s] = None /\ checkpoint["fetched"][s] = None
    BY <1>1, <1>3
  <1>5. /\ files \in [Places -> [Shards -> SUBSET Cursors]]
        /\ \A s \in Shards : begun[s] # None => files["local"][s] = 1..begun[s]
    BY <1>1, <1>2, <1>3
  <1>6. /\ aside \in [Shards -> SUBSET Cursors]
        /\ intent \in [Places -> [Shards -> Intent \cup {None}]]
        /\ faults \in 0..MaxFaults
    BY BoundsAssumption DEF Init
  <1>7. /\ job \in [Shards -> [state : JobStates, upto : Cursors]]
        /\ \A s \in Shards : job[s].state = "none" /\ job[s].upto = 0
    BY CursorsHold DEF Init, JobStates
  <1>8. /\ frontend \in [Shards -> [at : Commands, outcome : Outcomes]]
        /\ \A s \in Shards : frontend[s].at = "idle"
    BY DEF Init, Commands, Outcomes
  <1>9. driver \in Driver /\ driver.at = "idle" /\ driver.done < driver.position
    <2>1. driver = [at |-> "idle", position |-> 1, done |-> 0, upto |-> 0, todo |-> {}, blind |-> FALSE]
      BY DEF Init, Resting
    <2> QED BY <2>1, CursorsHold, ShareHolds DEF Driver, Points
  <1>10. TypeOK
    BY <1>4, <1>5, <1>6, <1>7, <1>8, <1>9 DEF TypeOK, Driver
  <1>11. Sized
    BY <1>1, <1>3, <1>4, <1>7, CursorsHold DEF Sized
  <1>12. SiteKnows
    BY <1>7, <1>8 DEF Init, SiteKnows, Places
  <1>13. DriverKnows
    BY <1>9 DEF DriverKnows, At
  <1>14. CollectedIsWhole
    BY <1>4, <1>5 DEF CollectedIsWhole, Listed
  <1> QED BY <1>10, <1>11, <1>12, <1>13, <1>14 DEF Orderly

LEMMA DriverStepKeeps ==
    ASSUME Orderly, DriverStep
    PROVE  Orderly'
  <1>1. ASSUME NEW item \in {0} \cup Cursors, Send(item)
        PROVE  Orderly'
    BY <1>1, CursorsHold, SendKeeps
  <1> QED
    BY <1>1, RunStartsKeeps, RunEndsKeeps, VisitKeeps, StageKeeps, StageRefusedKeeps, SentKeeps,
       SubmitKeeps, ReplyKeeps, PollKeeps, TimesOutKeeps, RetrieveKeeps, ImportKeeps,
       CommitPartKeeps, ValidateKeeps, AdoptKeeps, AcknowledgeKeeps DEF DriverStep

LEMMA NextKeepsOrderly ==
    ASSUME Orderly, [Next]_vars
    PROVE  Orderly'
  <1>1. CASE DriverStep
    BY <1>1, DriverStepKeeps
  <1>2. CASE \E s \in Shards : SiteStep(s) \/ JobStep(s)
    BY <1>2, WriteIntentKeeps, OarsubKeeps, RecordKeeps, AnswersNobodyKeeps,
       JobBeginsKeeps, JobWritesPartKeeps, JobWritesCheckpointKeeps, JobStopsKeeps
       DEF SiteStep, JobStep
  <1>3. CASE Fault
    BY <1>3, VisitUnansweredKeeps, DriverKilledKeeps, KilledInOarsubKeeps, JobKilledKeeps, LocalWorksKeeps,
       RegisterKeeps DEF Fault
  <1>4. CASE UNCHANGED vars
    <2>1. UNCHANGED <<places, job, frontend, faults>> /\ driver' = driver
      BY <1>4 DEF vars
    <2>2. driver' \in Driver /\ DriverKnows'
      BY <2>1 DEF Orderly, TypeOK, Driver, DriverKnows, At, Shard, places
    <2> QED BY <2>1, <2>2, DriverOnly
  <1> QED BY <1>1, <1>2, <1>3, <1>4 DEF Next

-----------------------------------------------------------------------------
(* What is collected only extends *)

Extended ==
    \A s \in Shards : checkpoint["local"][s] # None =>
        /\ checkpoint'["local"][s] # None
        /\ checkpoint'["local"][s] >= checkpoint["local"][s]

\* Steps that write no checkpoint here.
LEMMA SameExtends ==
    ASSUME TypeOK, \A s \in Shards : checkpoint'["local"][s] = checkpoint["local"][s]
    PROVE  Extended
  <1> SUFFICES ASSUME NEW s \in Shards, checkpoint["local"][s] # None
               PROVE  checkpoint["local"][s] >= checkpoint["local"][s]
    BY DEF Extended
  <1>1. checkpoint["local"][s] \in Cursors \cup {None}
    BY DEF TypeOK, Places
  <1>2. checkpoint["local"][s] \in Nat
    BY <1>1, CursorsHold
  <1> QED BY <1>2

\* A checkpoint that is put elsewhere.
LEMMA ElsewhereExtends ==
    ASSUME TypeOK, NEW place \in Places \ {"local"}, NEW s \in Shards, NEW value,
           checkpoint' = Put(checkpoint, place, s, value)
    PROVE  Extended
  <1>1. \A t \in Shards : checkpoint'["local"][t] = checkpoint["local"][t]
    BY DEF TypeOK, Put, Places
  <1> QED BY <1>1, SameExtends

LEMMA DriverStepExtends ==
    ASSUME Orderly, DriverStep
    PROVE  Extended
  <1>1. TypeOK /\ "site" \in Places \ {"local"} /\ "fetched" \in Places \ {"local"}
    BY DEF Orderly, Places
  <1>2. CASE UNCHANGED checkpoint
    BY <1>1, <1>2, SameExtends
  <1>3. CASE Stage
    <2>1. Shard \in Shards
      BY <1>3, ShardHolds DEF Stage, At
    <2>2. \A t \in Shards : checkpoint["local"][t] # None =>
            checkpoint'["local"][t] = checkpoint["local"][t]
      BY <1>1, <1>3, <2>1 DEF TypeOK, Places, Stage, Put, Prepared
    <2>3. \A t \in Shards : checkpoint["local"][t] # None => checkpoint["local"][t] \in Nat
      <3>1. checkpoint["local"] \in [Shards -> Cursors \cup {None}]
        BY <1>1 DEF TypeOK, Places
      <3> QED BY <3>1, CursorsHold
    <2> QED BY <2>2, <2>3 DEF Extended
  <1>4. ASSUME NEW item \in {0} \cup Cursors, Send(item)
        PROVE  Extended
    <2>1. Shard \in Shards
      BY <1>4, ShardHolds DEF Send, At
    <2> QED BY <1>1, <1>2, <1>4, <2>1, ElsewhereExtends DEF Send
  <1>5. CASE Retrieve
    <2>1. Shard \in Shards
      BY <1>5, ShardHolds DEF Retrieve, At
    <2> QED BY <1>1, <1>5, <2>1, ElsewhereExtends DEF Retrieve
  <1>6. CASE CommitPart
    BY <1>6, CommitPartKeeps DEF Extended
  <1>7. DriverStep => UNCHANGED checkpoint \/ Stage \/ Retrieve \/ CommitPart
                        \/ \E item \in {0} \cup Cursors : Send(item)
    BY DEF DriverStep, places, RunStarts, RunEnds, Visit, StageRefused, Sent, Submit, Reply,
           Poll, TimesOut, Import, Validate, Adopt, Acknowledge
  <1> QED BY <1>2, <1>3, <1>4, <1>5, <1>6, <1>7

LEMMA NextExtends ==
    ASSUME Orderly, [Next]_vars
    PROVE  Extended
  <1>1. TypeOK /\ "site" \in Places \ {"local"}
    BY DEF Orderly, Places
  <1>2. CASE UNCHANGED checkpoint
    BY <1>1, <1>2, SameExtends
  <1>3. ASSUME NEW s \in Shards, JobWritesCheckpoint(s) \/ JobStops(s)
        PROVE  Extended
    BY <1>1, <1>3, ElsewhereExtends DEF JobWritesCheckpoint, JobStops
  <1>4. ASSUME NEW s \in Shards, LocalWorks(s)
        PROVE  Extended
    BY <1>4, LocalWorksKeeps DEF Extended
  <1>5. CASE DriverStep
    BY <1>5, DriverStepExtends
  <1>6. ASSUME NEW s \in Shards, SiteStep(s) \/ JobBegins(s) \/ JobWritesPart(s)
        PROVE  UNCHANGED checkpoint
    BY <1>6 DEF SiteStep, WriteIntent, Oarsub, Record, AnswersNobody, JobBegins, JobWritesPart, places
  <1>7. CASE \E s \in Shards : SiteStep(s) \/ JobStep(s)
    BY <1>2, <1>3, <1>6, <1>7 DEF JobStep
  <1>8. CASE Fault
    <2>1. \/ UNCHANGED checkpoint
          \/ \E s \in Shards : LocalWorks(s)
      BY <1>8 DEF Fault, VisitUnanswered, DriverKilled, KilledInOarsub, JobKilled, Register, places
    <2> QED BY <1>2, <1>4, <2>1
  <1>9. CASE UNCHANGED vars
    BY <1>2, <1>9 DEF vars, places
  <1> QED BY <1>5, <1>7, <1>8, <1>9 DEF Next

-----------------------------------------------------------------------------
(* One job in flight.  The driver leaves a shard behind only when it is     *)
(* complete here or its job is over; nothing begins at a later shard before *)
(* that, and a shard that was left behind never gets a second job.          *)

Submitted(s) == intent["site"][s] # None /\ intent["site"][s].outcome = "submitted"
Settled(s) == Complete(s) \/ (Submitted(s) /\ job[s].state = "over")
Begun(s) == frontend[s].at # "idle" \/ intent["site"][s] # None

\* What an intent at the site says of the command and of the job.
Told ==
    \A s \in Shards :
        /\ frontend[s].at \in {"oarsub", "record"} => ~Submitted(s)
        /\ frontend[s].at = "answered" /\ frontend[s].outcome = "submitted" => Submitted(s)
        /\ intent["site"][s] # None => intent["site"][s].acknowledged = FALSE
        /\ job[s].state # "none" => intent["site"][s] # None

\* What the driver waits for, and what is over once it collects.
Awaited ==
    /\ At("wait") => Submitted(Shard)
    /\ driver.at \in {"retrieve", "import", "commit", "validate", "adopt", "acknowledge"} =>
            Submitted(Shard) /\ job[Shard].state = "over"
    /\ At("commit") => driver.todo \subseteq 0..driver.upto

Ordered ==
    \A i, j \in 1..Len(Share) :
        /\ i < j /\ Begun(Share[j]) => Settled(Share[i])
        /\ i < driver.position => Settled(Share[i])

InTurn == Told /\ Awaited /\ Ordered

\* Who moves what.
LEMMA IntentMoves ==
    ASSUME Orderly, [Next]_vars
    PROVE  \/ \A t \in Shards : intent'["site"][t] = intent["site"][t]
           \/ Poll
           \/ \E s \in Shards : WriteIntent(s) \/ Record(s)
  <1>1. CASE UNCHANGED intent
    BY <1>1
  <1>2. ASSUME NEW place \in {"local", "fetched"}, NEW value, intent' = Put(intent, place, Shard, value)
        PROVE  \A t \in Shards : intent'["site"][t] = intent["site"][t]
    BY <1>2 DEF Orderly, TypeOK, Put, Places
  <1>3. CASE Retrieve \/ Adopt \/ Acknowledge
    BY <1>1, <1>2, <1>3 DEF Retrieve, Adopt, Acknowledge
  <1>4. CASE DriverStep
    BY <1>1, <1>3, <1>4 DEF DriverStep, places, RunStarts, RunEnds, Visit, Stage, StageRefused, Send,
       Sent, Submit, Reply, TimesOut, Import, CommitPart, Validate
  <1>5. CASE \E s \in Shards : SiteStep(s) \/ JobStep(s)
    BY <1>1, <1>5 DEF SiteStep, JobStep, Oarsub, AnswersNobody, JobBegins, JobWritesPart,
       JobWritesCheckpoint, JobStops, places
  <1>6. CASE Fault
    BY <1>1, <1>6 DEF Fault, VisitUnanswered, DriverKilled, KilledInOarsub, JobKilled, LocalWorks,
       Register, places
  <1>7. CASE UNCHANGED vars
    BY <1>1, <1>7 DEF vars, places
  <1> QED BY <1>4, <1>5, <1>6, <1>7 DEF Next

LEMMA FrontendMoves ==
    ASSUME [Next]_vars
    PROVE  \/ UNCHANGED frontend
           \/ Submit \/ Reply \/ DriverKilled \/ KilledInOarsub
           \/ \E s \in Shards : SiteStep(s)
  <1>1. CASE DriverStep
    BY <1>1 DEF DriverStep, RunStarts, RunEnds, Visit, Stage, StageRefused, Send, Sent, Poll,
       TimesOut, Retrieve, Import, CommitPart, Validate, Adopt, Acknowledge
  <1>2. ASSUME NEW s \in Shards, JobStep(s)
        PROVE  UNCHANGED frontend
    BY <1>2 DEF JobStep, JobBegins, JobWritesPart, JobWritesCheckpoint, JobStops
  <1>3. CASE Fault
    BY <1>3 DEF Fault, VisitUnanswered, JobKilled, LocalWorks, Register
  <1>4. CASE UNCHANGED vars
    BY <1>4 DEF vars
  <1> QED BY <1>1, <1>2, <1>3, <1>4 DEF Next

LEMMA JobMoves ==
    ASSUME [Next]_vars
    PROVE  \/ UNCHANGED job
           \/ KilledInOarsub
           \/ \E s \in Shards : Oarsub(s) \/ JobStep(s) \/ JobKilled(s) \/ Register(s)
  <1>1. CASE DriverStep
    BY <1>1 DEF DriverStep, RunStarts, RunEnds, Visit, Stage, StageRefused, Send, Sent, Submit,
       Reply, Poll, TimesOut, Retrieve, Import, CommitPart, Validate, Adopt, Acknowledge
  <1>2. ASSUME NEW s \in Shards, SiteStep(s)
        PROVE  UNCHANGED job \/ Oarsub(s)
    BY <1>2 DEF SiteStep, WriteIntent, Record, AnswersNobody
  <1>3. CASE Fault
    BY <1>3 DEF Fault, VisitUnanswered, DriverKilled, LocalWorks
  <1>4. CASE UNCHANGED vars
    BY <1>4 DEF vars
  <1> QED BY <1>1, <1>2, <1>3, <1>4 DEF Next

LEMMA HereMoves ==
    ASSUME Orderly, [Next]_vars
    PROVE  \/ \A t \in Shards : /\ checkpoint'["local"][t] = checkpoint["local"][t]
                                /\ files'["local"][t] = files["local"][t]
           \/ Stage \/ CommitPart
           \/ \E s \in Shards : LocalWorks(s)
  <1>1. CASE UNCHANGED <<checkpoint, files>>
    BY <1>1
  <1>2. ASSUME NEW place \in {"site", "fetched"}, NEW s \in Shards, NEW value,
               checkpoint' = Put(checkpoint, place, s, value) \/ UNCHANGED checkpoint,
               NEW more, files' = Put(files, place, s, more) \/ UNCHANGED files
        PROVE  \A t \in Shards : /\ checkpoint'["local"][t] = checkpoint["local"][t]
                                 /\ files'["local"][t] = files["local"][t]
    BY <1>2 DEF Orderly, TypeOK, Put, Places
  <1>3. ASSUME driver.at \notin {"idle", "next"}
        PROVE  Shard \in Shards
    BY <1>3, ShardHolds
  <1>4. ASSUME NEW item \in {0} \cup Cursors, Send(item)
        PROVE  \A t \in Shards : /\ checkpoint'["local"][t] = checkpoint["local"][t]
                                 /\ files'["local"][t] = files["local"][t]
    BY <1>2, <1>3, <1>4 DEF Send, At
  <1>5. CASE Retrieve
    BY <1>2, <1>3, <1>5 DEF Retrieve, At
  <1>6. CASE DriverStep
    BY <1>1, <1>4, <1>5, <1>6 DEF DriverStep, places, RunStarts, RunEnds, Visit, StageRefused, Sent,
       Submit, Reply, Poll, TimesOut, Import, Validate, Adopt, Acknowledge
  <1>7. ASSUME NEW s \in Shards, JobStep(s)
        PROVE  \A t \in Shards : /\ checkpoint'["local"][t] = checkpoint["local"][t]
                                 /\ files'["local"][t] = files["local"][t]
    BY <1>1, <1>2, <1>7 DEF JobStep, JobBegins, JobWritesPart, JobWritesCheckpoint, JobStops, places
  <1>8. ASSUME NEW s \in Shards, SiteStep(s)
        PROVE  UNCHANGED <<checkpoint, files>>
    BY <1>8 DEF SiteStep, WriteIntent, Oarsub, Record, AnswersNobody, places
  <1>9. CASE Fault
    BY <1>1, <1>9 DEF Fault, VisitUnanswered, DriverKilled, KilledInOarsub, JobKilled, Register, places
  <1>10. CASE UNCHANGED vars
    BY <1>1, <1>10 DEF vars, places
  <1> QED BY <1>1, <1>6, <1>7, <1>8, <1>9, <1>10 DEF Next

\* A shard that is complete here stays so.
LEMMA CompleteStays ==
    ASSUME Orderly, Awaited, [Next]_vars, NEW s \in Shards, Complete(s)
    PROVE  Complete(s)'
  <1>1. /\ Places = {"local", "site", "fetched"}
        /\ checkpoint \in [Places -> [Shards -> Cursors \cup {None}]]
        /\ files \in [Places -> [Shards -> SUBSET Cursors]]
    BY DEF Orderly, TypeOK, Places
  <1>2. /\ Size[s] \in Nat /\ Size[s] # None
        /\ checkpoint["local"][s] = Size[s] /\ files["local"][s] = 1..Size[s]
    BY CursorsHold, NoneAssumption DEF Complete, Clean, Listed
  <1>3. SUFFICES checkpoint'["local"][s] = Size[s] /\ files'["local"][s] = 1..Size[s]
    BY <1>2 DEF Complete, Clean, Listed
  <1>4. CASE \A t \in Shards : /\ checkpoint'["local"][t] = checkpoint["local"][t]
                               /\ files'["local"][t] = files["local"][t]
    BY <1>2, <1>4
  <1>5. CASE Stage
    <2>1. Shard \in Shards
      BY <1>5, ShardHolds DEF Stage, At
    <2>2. CASE s = Shard
      <3>1. Orphans(Shard) = {} /\ Prepared(Shard) = Size[s]
        BY <1>2, <2>2 DEF Orphans, Listed, Prepared
      <3>2. /\ files' = Put(files, "local", Shard, files["local"][Shard] \ Orphans(Shard))
            /\ checkpoint' = Put(checkpoint, "local", Shard, Prepared(Shard))
        BY <1>5 DEF Stage
      <3> QED BY <1>1, <1>2, <2>1, <2>2, <3>1, <3>2 DEF Put
    <2>3. CASE s # Shard
      BY <1>1, <1>2, <1>5, <2>3 DEF Stage, Put
    <2> QED BY <2>2, <2>3
  <1>6. CASE CommitPart
    <2>1. Shard \in Shards
      BY <1>6, ShardHolds DEF CommitPart, At
    <2>2. /\ driver.todo \subseteq 0..driver.upto /\ 0 \in driver.todo
          /\ driver.upto \in Nat /\ driver.upto <= Size[Shard]
          /\ checkpoint["local"][Shard] # None => checkpoint["local"][Shard] <= driver.upto
      BY <1>6, CursorsHold DEF CommitPart, Awaited, Orderly, TypeOK, DriverKnows, At
    <2> DEFINE item == NextPart(driver.todo)
    <2>3. item \in driver.todo
      <3>1. CASE driver.todo = {0}
        BY <3>1 DEF NextPart
      <3>2. CASE driver.todo # {0}
        <4>1. driver.todo \ {0} \in SUBSET Nat /\ driver.todo \ {0} # {}
          BY <2>2, <3>2
        <4> QED BY <3>2, <4>1, Least DEF NextPart
      <3> QED BY <3>1, <3>2
    <2>4. IF item = 0
          THEN checkpoint' = Put(checkpoint, "local", Shard, driver.upto) /\ UNCHANGED files
          ELSE /\ files' = Put(files, "local", Shard, files["local"][Shard] \cup {item})
               /\ UNCHANGED checkpoint
      BY <1>6 DEF CommitPart
    <2> HIDE DEF item
    <2>5. CASE s = Shard /\ item = 0
      <3>1. driver.upto = Size[s]
        BY <1>2, <2>2, <2>5
      <3> QED BY <1>1, <1>2, <2>1, <2>4, <2>5, <3>1 DEF Put
    <2>6. CASE s = Shard /\ item # 0
      <3>1. item \in 1..Size[s]
        BY <1>2, <2>2, <2>3, <2>6
      <3>2. files'["local"][s] = files["local"][s] \cup {item}
        BY <1>1, <2>1, <2>4, <2>6 DEF Put
      <3> QED BY <1>2, <2>4, <2>6, <3>1, <3>2
    <2>7. CASE s # Shard
      BY <1>1, <1>2, <2>4, <2>7 DEF Put
    <2> QED BY <2>5, <2>6, <2>7
  <1>7. ASSUME NEW t \in Shards, LocalWorks(t)
        PROVE  checkpoint'["local"][s] = Size[s] /\ files'["local"][s] = 1..Size[s]
    <2>1. t # s
      BY <1>2, <1>7 DEF LocalWorks
    <2> QED BY <1>1, <1>2, <1>7, <2>1 DEF LocalWorks, Put
  <1> QED BY <1>4, <1>5, <1>6, <1>7, HereMoves

\* A known submission is neither overwritten nor repeated.
LEMMA SubmittedStays ==
    ASSUME Orderly, Told, [Next]_vars, NEW s \in Shards, Submitted(s)
    PROVE  Submitted(s)' /\ (job[s].state = "over" => job'[s].state = "over")
  <1>1. /\ intent \in [Places -> [Shards -> Intent \cup {None}]]
        /\ job \in [Shards -> [state : JobStates, upto : Cursors]]
        /\ Places = {"local", "site", "fetched"}
    BY DEF Orderly, TypeOK, Places
  <1>2. /\ intent["site"][s] \in Intent /\ intent["site"][s] # None
        /\ intent["site"][s].outcome = "submitted" /\ intent["site"][s].acknowledged = FALSE
        /\ frontend[s].at \notin {"oarsub", "record"}
    BY <1>1 DEF Submitted, Told
  <1>3. Submitted(s)'
    <2>1. CASE \A t \in Shards : intent'["site"][t] = intent["site"][t]
      BY <1>2, <2>1 DEF Submitted
    <2>2. CASE Poll
      <3>1. Shard \in Shards
        BY <2>2, ShardHolds DEF Poll, At
      <3>2. CASE s = Shard
        <4>1. intent' = [intent EXCEPT !["site"] =
                            [@ EXCEPT ![s] = [intent["site"][s] EXCEPT !.terminal = TRUE]]]
          BY <1>1, <2>2, <3>1, <3>2 DEF Poll
        <4>2. /\ [intent["site"][s] EXCEPT !.terminal = TRUE] \in Intent
              /\ [intent["site"][s] EXCEPT !.terminal = TRUE].outcome = "submitted"
          BY <1>2 DEF Intent
        <4> QED BY <1>1, <4>1, <4>2, NoneAssumption DEF Submitted
      <3>3. CASE s # Shard
        BY <1>1, <1>2, <2>2, <3>3 DEF Poll, Submitted
      <3> QED BY <3>2, <3>3
    <2>3. ASSUME NEW t \in Shards, WriteIntent(t)
          PROVE  Submitted(s)'
      <3>1. ~MayRetry(intent["site"][s])
        BY <1>2 DEF MayRetry
      <3>2. CASE t = s
        <4>1. UNCHANGED intent
          BY <1>2, <2>3, <3>1, <3>2 DEF WriteIntent
        <4> QED BY <1>2, <4>1 DEF Submitted
      <3>3. CASE t # s
        BY <1>1, <1>2, <2>3, <3>3 DEF WriteIntent, Put, Submitted
      <3> QED BY <3>2, <3>3
    <2>4. ASSUME NEW t \in Shards, Record(t)
          PROVE  Submitted(s)'
      <3>1. t # s
        BY <1>2, <2>4 DEF Record
      <3> QED BY <1>1, <1>2, <2>4, <3>1 DEF Record, Put, Submitted
    <2> QED BY <2>1, <2>2, <2>3, <2>4, IntentMoves
  <1>4. ASSUME job[s].state = "over"
        PROVE  job'[s].state = "over"
    <2>1. CASE UNCHANGED job
      BY <1>4, <2>1
    <2>2. CASE KilledInOarsub
      <3>1. Shard # s
        BY <1>2, <2>2 DEF KilledInOarsub
      <3> QED BY <1>1, <1>4, <2>2, <3>1 DEF KilledInOarsub, Becomes
    <2>3. ASSUME NEW t \in Shards, Oarsub(t)
          PROVE  job'[s].state = "over"
      <3>1. t # s
        BY <1>2, <2>3 DEF Oarsub
      <3>2. \E state \in JobStates : Becomes(t, state)
        BY <2>3 DEF Oarsub, JobStates, Live, Outcomes
      <3> QED BY <1>1, <1>4, <3>1, <3>2 DEF Becomes
    <2>4. ASSUME NEW t \in Shards, JobStep(t) \/ JobKilled(t) \/ Register(t)
          PROVE  job'[s].state = "over"
      <3>1. CASE t = s
        BY <1>1, <1>4, <2>4, <3>1 DEF JobStep, JobBegins, JobWritesPart, JobWritesCheckpoint,
           JobStops, JobKilled, Register, Becomes, Live
      <3>2. CASE t # s
        BY <1>1, <1>4, <2>4, <3>2 DEF JobStep, JobBegins, JobWritesPart, JobWritesCheckpoint,
           JobStops, JobKilled, Register, Becomes
      <3> QED BY <3>1, <3>2
    <2> QED BY <2>1, <2>2, <2>3, <2>4, JobMoves
  <1> QED BY <1>3, <1>4

LEMMA SettledStays ==
    ASSUME Orderly, InTurn, [Next]_vars, NEW s \in Shards, Settled(s)
    PROVE  Settled(s)'
  BY CompleteStays, SubmittedStays DEF Settled, InTurn

\* A new submission's intent, command and job agree.
LEMMA ToldStays ==
    ASSUME Orderly, InTurn, [Next]_vars
    PROVE  Told'
  <1>1. /\ intent \in [Places -> [Shards -> Intent \cup {None}]]
        /\ frontend \in [Shards -> [at : Commands, outcome : Outcomes]]
        /\ job \in [Shards -> [state : JobStates, upto : Cursors]]
        /\ Places = {"local", "site", "fetched"}
    BY DEF Orderly, TypeOK, Places
  <1>2. Told
    BY DEF InTurn
  <1>3. CASE UNCHANGED <<frontend, job>> /\ \A t \in Shards : intent'["site"][t] = intent["site"][t]
    BY <1>2, <1>3 DEF Told, Submitted
  <1>4. ASSUME NEW s \in Shards, UNCHANGED <<intent, job>>,
               NEW new \in {[at |-> "captured", outcome |-> frontend[s].outcome],
                            [at |-> "answered", outcome |-> "none"],
                            [at |-> "idle", outcome |-> "none"]},
               frontend' = [frontend EXCEPT ![s] = new]
        PROVE  Told'
    <2>1. /\ frontend'[s] = new
          /\ \A t \in Shards \ {s} : frontend'[t] = frontend[t]
      BY <1>1, <1>4
    <2>2. new.at \notin {"oarsub", "record"} /\ (new.at = "answered" => new.outcome = "none")
      BY <1>4
    <2> QED BY <1>2, <1>4, <2>1, <2>2 DEF Told, Submitted
  <1>5. ASSUME NEW s \in Shards, WriteIntent(s)
        PROVE  Told'
    <2>1. CASE frontend' = [frontend EXCEPT ![s].at = "oarsub"] /\ intent' = Put(intent, "site", s, NewIntent)
      <3>1. /\ NewIntent.outcome = "none" /\ NewIntent.acknowledged = FALSE /\ NewIntent \in Intent
            /\ NewIntent # None
        <4>1. NewIntent \in Intent
          BY DEF NewIntent, Intent, Outcomes
        <4>2. NewIntent # None
          BY <4>1, NoneAssumption
        <4> QED BY <4>1, <4>2 DEF NewIntent
      <3>2. \A t \in Shards : intent'["site"][t] = IF t = s THEN NewIntent ELSE intent["site"][t]
        BY <1>1, <2>1, <3>1 DEF Put
      <3>3. /\ frontend'[s].at = "oarsub"
            /\ \A t \in Shards \ {s} : frontend'[t] = frontend[t]
        BY <1>1, <2>1
      <3>4. UNCHANGED job
        BY <1>5 DEF WriteIntent
      <3> HIDE DEF NewIntent
      <3> QED BY <1>2, <3>1, <3>2, <3>3, <3>4 DEF Told, Submitted
    <2>2. CASE Answer(s, "none") /\ UNCHANGED intent
      BY <1>4, <1>5, <2>2 DEF Answer, WriteIntent
    <2> QED BY <1>5, <2>1, <2>2 DEF WriteIntent
  <1>6. ASSUME NEW s \in Shards, Oarsub(s)
        PROVE  Told'
    <2>1. PICK outcome \in Outcomes : frontend' = [frontend EXCEPT ![s] = [at |-> "record", outcome |-> outcome]]
      BY <1>6 DEF Oarsub
    <2>2. /\ frontend'[s].at = "record"
          /\ \A t \in Shards \ {s} : frontend'[t] = frontend[t]
      BY <1>1, <2>1
    <2>3. PICK state \in JobStates : Becomes(s, state)
      BY <1>6 DEF Oarsub, JobStates, Live, Outcomes
    <2>4. \A t \in Shards \ {s} : job'[t] = job[t]
      BY <1>1, <2>3 DEF Becomes
    <2>5. intent["site"][s] # None /\ UNCHANGED intent /\ frontend[s].at = "oarsub"
      BY <1>6 DEF Oarsub, Orderly, SiteKnows, places
    <2> QED BY <1>2, <2>2, <2>4, <2>5 DEF Told, Submitted
  <1>7. ASSUME NEW s \in Shards, Record(s)
        PROVE  Told'
    <2> DEFINE outcome == frontend[s].outcome
               id == IF outcome = "submitted" THEN 1 ELSE 0
               before == intent["site"][s]
    <2>1. before \in Intent /\ before # None /\ before.acknowledged = FALSE
      BY <1>1, <1>2, <1>7 DEF Orderly, SiteKnows, Record, Told
    <2>2. outcome \in Outcomes /\ id \in {0, 1}
      BY <1>1
    <2>3. intent' = Put(intent, "site", s, Recorded(before, outcome, id))
      BY <1>7 DEF Record
    <2>4. /\ frontend'[s] = [at |-> "answered", outcome |-> outcome]
          /\ \A t \in Shards \ {s} : frontend'[t] = frontend[t]
          /\ UNCHANGED job
      BY <1>1, <1>7 DEF Record, Answer
    <2> HIDE DEF outcome, id, before
    <2>5. /\ Recorded(before, outcome, id) \in Intent
          /\ Recorded(before, outcome, id).outcome = outcome
          /\ Recorded(before, outcome, id).acknowledged = before.acknowledged
      BY <2>1, <2>2 DEF Recorded, Intent
    <2>6. /\ intent'["site"][s] = Recorded(before, outcome, id)
          /\ intent'["site"][s] # None
          /\ \A t \in Shards \ {s} : intent'["site"][t] = intent["site"][t]
      BY <1>1, <2>3, <2>5, NoneAssumption DEF Put
    <2> QED BY <1>2, <2>1, <2>4, <2>5, <2>6 DEF Told, Submitted
  <1>8. CASE Poll
    <2>1. Shard \in Shards /\ UNCHANGED <<frontend, job>>
      BY <1>8, ShardHolds DEF Poll, At
    <2>2. intent["site"][Shard] \in Intent /\ intent["site"][Shard] # None
      BY <1>1, <1>8, <2>1 DEF Poll, At, Orderly, DriverKnows
    <2> DEFINE new == [intent["site"][Shard] EXCEPT !.terminal = TRUE]
    <2>3. /\ new \in Intent /\ new.outcome = intent["site"][Shard].outcome
          /\ new.acknowledged = intent["site"][Shard].acknowledged
      BY <2>2 DEF Intent
    <2>4. intent' = [intent EXCEPT !["site"] = [@ EXCEPT ![Shard] = new]]
      BY <1>1, <1>8, <2>1 DEF Poll
    <2> HIDE DEF new
    <2>5. /\ intent'["site"][Shard] = new /\ new # None
          /\ \A t \in Shards \ {Shard} : intent'["site"][t] = intent["site"][t]
      BY <1>1, <2>1, <2>3, <2>4, NoneAssumption
    <2> QED BY <1>2, <2>1, <2>2, <2>3, <2>5 DEF Told, Submitted
  <1>9. CASE KilledInOarsub
    <2>1. Shard \in Shards /\ intent["site"][Shard] # None /\ UNCHANGED intent
      BY <1>9, ShardHolds DEF KilledInOarsub, At, Orderly, SiteKnows, places
    <2>2. /\ frontend'[Shard].at = "idle"
          /\ \A t \in Shards \ {Shard} : frontend'[t] = frontend[t] /\ job'[t] = job[t]
      BY <1>1, <1>9, <2>1 DEF KilledInOarsub, Becomes
    <2> QED BY <1>2, <2>1, <2>2 DEF Told, Submitted
  <1>10. ASSUME NEW s \in Shards, JobStep(s) \/ JobKilled(s) \/ Register(s)
         PROVE  Told'
    <2>1. job[s].state # "none" /\ UNCHANGED <<frontend, intent>>
      BY <1>10 DEF JobStep, JobBegins, JobWritesPart, JobWritesCheckpoint, JobStops, JobKilled,
         Register, Live, places
    <2>2. \A t \in Shards \ {s} : job'[t] = job[t]
      BY <1>1, <1>10 DEF JobStep, JobBegins, JobWritesPart, JobWritesCheckpoint, JobStops, JobKilled,
         Register, Becomes
    <2> QED BY <1>2, <2>1, <2>2 DEF Told, Submitted
  <1>11. ASSUME NEW s \in Shards, SiteStep(s)
         PROVE  Told'
    <2>1. CASE AnswersNobody(s)
      BY <1>4, <1>11, <2>1 DEF AnswersNobody, places
    <2> QED BY <1>5, <1>6, <1>7, <1>11, <2>1 DEF SiteStep
  <1>12. CASE Submit
    <2>1. Shard \in Shards /\ UNCHANGED <<intent, job>>
      BY <1>12, ShardHolds DEF Submit, At, places
    <2>2. CASE frontend[Shard].at = "idle"
      <3>1. frontend' = [frontend EXCEPT ![Shard] = [at |-> "captured", outcome |-> frontend[Shard].outcome]]
        BY <1>1, <1>12, <2>1, <2>2 DEF Submit
      <3> QED BY <1>4, <2>1, <3>1
    <2>3. CASE frontend[Shard].at # "idle"
      BY <1>3, <1>12, <2>1, <2>3 DEF Submit
    <2> QED BY <2>2, <2>3
  <1>13. CASE Reply
    <2>1. Shard \in Shards /\ UNCHANGED <<intent, job>>
      BY <1>13, ShardHolds DEF Reply, At, places
    <2> QED BY <1>4, <1>13, <2>1 DEF Reply
  <1>14. CASE DriverKilled
    <2>1. UNCHANGED <<intent, job>>
      BY <1>14 DEF DriverKilled, places
    <2>2. CASE ~UNCHANGED frontend
      <3>1. Shard \in Shards
        BY <1>14, <2>2, ShardHolds DEF At, DriverKilled
      <3> QED BY <1>4, <1>14, <2>1, <2>2, <3>1 DEF DriverKilled
    <2>3. CASE UNCHANGED frontend
      BY <1>3, <2>1, <2>3
    <2> QED BY <2>2, <2>3
  <1> QED BY <1>3, <1>5, <1>6, <1>7, <1>8, <1>9, <1>10, <1>11, <1>12, <1>13, <1>14,
             IntentMoves, FrontendMoves, JobMoves

LEMMA DriverMoves ==
    ASSUME Orderly, [Next]_vars
    PROVE  \/ driver' = driver
           \/ driver'.at \in {"idle", "stage", "send", "submit", "reply"}
           \/ RunStarts \/ Visit \/ Reply \/ Poll \/ Retrieve \/ Import \/ CommitPart \/ Validate
           \/ Adopt \/ Acknowledge
  <1>1. driver \in Driver
    BY DEF Orderly, TypeOK, Driver
  <1>2. ASSUME driver' = Resting
        PROVE  driver'.at = "idle"
    BY <1>2 DEF Resting
  <1>3. CASE RunEnds \/ StageRefused \/ TimesOut \/ DriverKilled \/ KilledInOarsub
    BY <1>2, <1>3 DEF RunEnds, StageRefused, TimesOut, Halt, Halted, DriverKilled, KilledInOarsub
  <1>4. CASE Stage \/ Sent \/ \E item \in {0} \cup Cursors : Send(item)
    BY <1>1, <1>4 DEF Stage, Sent, Send, Goto, At, Driver
  <1>5. CASE Submit
    BY <1>1, <1>2, <1>5 DEF Submit, Goto, Halt, Halted, Driver
  <1>6. CASE DriverStep
    BY <1>3, <1>4, <1>5, <1>6 DEF DriverStep
  <1>7. ASSUME NEW s \in Shards, SiteStep(s) \/ JobStep(s)
        PROVE  driver' = driver
    BY <1>7 DEF SiteStep, WriteIntent, Oarsub, Record, AnswersNobody, JobStep, JobBegins,
       JobWritesPart, JobWritesCheckpoint, JobStops
  <1>8. CASE Fault
    <2>1. CASE VisitUnanswered
      BY <1>1, <2>1 DEF VisitUnanswered, Driver
    <2> QED BY <1>3, <1>8, <2>1 DEF Fault, JobKilled, LocalWorks, Register
  <1>9. CASE UNCHANGED vars
    BY <1>9 DEF vars
  <1> QED BY <1>6, <1>7, <1>8, <1>9 DEF Next

\* The driver moves on from a shard that is complete or collected.
LEMMA PositionMoves ==
    ASSUME Orderly, [Next]_vars
    PROVE  \/ driver'.position \in {1, driver.position}
           \/ /\ driver'.position = driver.position + 1
              /\ (Visit /\ Complete(Shard)) \/ Acknowledge
  <1>1. driver \in Driver
    BY DEF Orderly, TypeOK, Driver
  <1>2. CASE driver' = driver
    BY <1>2
  <1>3. CASE driver' = Resting \/ Halt \/ RunStarts
    BY <1>3 DEF Halt, Halted, RunStarts, Resting
  <1>4. ASSUME NEW point, Goto(point)
        PROVE  driver'.position = driver.position
    BY <1>1, <1>4 DEF Goto, Driver
  <1>5. CASE Visit
    BY <1>1, <1>5 DEF Visit, Driver
  <1>6. CASE Stage \/ Import \/ CommitPart \/ \E item \in {0} \cup Cursors : Send(item)
    BY <1>1, <1>3, <1>6 DEF Stage, Import, CommitPart, Send, Driver
  <1>7. CASE Acknowledge
    BY <1>3, <1>7 DEF Acknowledge, Resting
  <1>8. CASE DriverStep
    BY <1>3, <1>4, <1>5, <1>6, <1>7, <1>8 DEF DriverStep, RunEnds, StageRefused, Sent, Submit,
       Reply, Poll, TimesOut, Retrieve, Validate, Adopt
  <1>9. ASSUME NEW s \in Shards, SiteStep(s) \/ JobStep(s)
        PROVE  driver' = driver
    BY <1>9 DEF SiteStep, WriteIntent, Oarsub, Record, AnswersNobody, JobStep, JobBegins,
       JobWritesPart, JobWritesCheckpoint, JobStops
  <1>10. CASE Fault
    <2>1. CASE VisitUnanswered
      BY <1>1, <2>1 DEF VisitUnanswered, Driver
    <2> QED BY <1>2, <1>3, <1>10, <2>1 DEF Fault, DriverKilled, KilledInOarsub, JobKilled,
         LocalWorks, Register
  <1>11. CASE UNCHANGED vars
    BY <1>2, <1>11 DEF vars
  <1> QED BY <1>8, <1>9, <1>2, <1>10, <1>11 DEF Next

LEMMA AwaitedStays ==
    ASSUME Orderly, InTurn, [Next]_vars
    PROVE  Awaited'
  <1>1. /\ driver \in Driver /\ Told /\ Awaited
        /\ frontend \in [Shards -> [at : Commands, outcome : Outcomes]]
    BY DEF Orderly, TypeOK, Driver, InTurn
  <1> DEFINE Over == {"retrieve", "import", "commit", "validate", "adopt", "acknowledge"}
  <1>2. CASE driver'.at \in {"idle", "next", "stage", "send", "submit", "reply"}
    BY <1>2 DEF Awaited, At
  <1>3. ASSUME driver.at \notin {"idle", "next"}, Submitted(Shard), Shard' = Shard
        PROVE  Submitted(Shard)' /\ (job[Shard].state = "over" => job[Shard].state' = "over")
    <2>1. Shard \in Shards
      BY <1>3, ShardHolds
    <2>2. Submitted(Shard)
      BY <1>3
    <2> DEFINE s == Shard
    <2>3. s \in Shards /\ Submitted(s) /\ s' = s
      BY <1>3, <2>1, <2>2
    <2> HIDE DEF s
    <2>4. \A t \in Shards : Submitted(t) =>
            /\ intent'["site"][t] # None /\ intent'["site"][t].outcome = "submitted"
            /\ job[t].state = "over" => job'[t].state = "over"
      BY <1>1, SubmittedStays DEF Submitted
    <2> QED BY <1>3, <2>1, <2>4 DEF Submitted
  <1>4. CASE driver' = driver
    <2>1. Shard' = Shard
      BY <1>4 DEF Shard
    <2> QED BY <1>1, <1>3, <1>4, <2>1 DEF Awaited, At
  <1>5. CASE RunStarts
    BY <1>2, <1>5 DEF RunStarts, Resting
  <1>6. CASE Visit
    <2>1. CASE driver'.at = "wait"
      <3>1. AwaitingCollection(Shard) /\ driver'.position = driver.position /\ UNCHANGED intent
        BY <1>1, <1>6, <2>1 DEF Visit, At, Driver, places
      <3> QED BY <2>1, <3>1 DEF Awaited, At, AwaitingCollection, Submitted, Shard
    <2>2. CASE driver'.at # "wait"
      <3>1. driver'.at \in {"next", "stage"}
        BY <1>1, <1>6, <2>2 DEF Visit, At, Driver
      <3> QED BY <1>2, <3>1
    <2> QED BY <2>1, <2>2
  <1>7. CASE Reply
    <2>1. CASE frontend[Shard].outcome = "submitted"
      <3>1. Shard \in Shards
        BY <1>7, ShardHolds DEF Reply, At
      <3>2. Submitted(Shard) /\ UNCHANGED intent
        BY <1>1, <1>7, <2>1, <3>1 DEF Reply, Told, places
      <3>3. driver'.at = "wait" /\ driver'.position = driver.position
        BY <1>1, <1>7, <2>1 DEF Reply, Goto, Driver
      <3> QED BY <3>2, <3>3 DEF Awaited, At, Submitted, Shard
    <2>2. CASE frontend[Shard].outcome # "submitted"
      BY <1>2, <1>7, <2>2 DEF Reply, Halt, Halted, Resting
    <2> QED BY <2>1, <2>2
  <1>8. ASSUME driver.at \in {"wait"} \cup Over, driver'.at \in Over,
               driver'.position = driver.position, job[Shard].state = "over",
               driver'.at = "commit" => (driver.todo \subseteq 0..driver.upto)'
        PROVE  Awaited'
    <2>1. Shard' = Shard /\ Submitted(Shard)
      BY <1>1, <1>8 DEF Shard, Awaited, At
    <2>2. driver.at \notin {"idle", "next"}
      BY <1>8
    <2>3. Submitted(Shard)' /\ (job[Shard].state' = "over")
      BY <1>3, <1>8, <2>1, <2>2
    <2> QED BY <1>8, <2>1, <2>3 DEF Awaited, At
  <1>9. ASSUME driver.at \in Over
        PROVE  job[Shard].state = "over"
    BY <1>1, <1>9 DEF Awaited
  <1>10. CASE Poll
    BY <1>1, <1>8, <1>10 DEF Poll, At, Goto, Driver
  <1>11. CASE Retrieve \/ Adopt
    BY <1>1, <1>8, <1>9, <1>11 DEF Retrieve, Adopt, At, Goto, Driver
  <1>12. CASE Validate
    BY <1>1, <1>2, <1>8, <1>9, <1>12 DEF Validate, At, Goto, Driver, Halt, Halted, Resting
  <1>13. CASE Import
    <2>1. CASE Clean("fetched", Shard) /\ ForwardProgress(Shard)
      <3> DEFINE upto == checkpoint["fetched"][Shard]
                 todo == NewParts(Shard) \cup {0}
      <3>1. driver' = [driver EXCEPT !.at = "commit", !.upto = upto, !.todo = todo]
        BY <1>13, <2>1 DEF Import
      <3>2. Shard \in Shards /\ upto \in Nat
        <4>1. Shard \in Shards
          BY <1>13, ShardHolds DEF Import, At
        <4> QED BY <2>1, <4>1, CursorsHold DEF Clean, Orderly, TypeOK, Places
      <3>3. todo \subseteq 0..upto
        BY <3>2 DEF NewParts, Listed
      <3>4. driver'.at = "commit" /\ driver'.upto = upto /\ driver'.todo = todo
            /\ driver'.position = driver.position
        BY <1>1, <3>1 DEF Driver
      <3> HIDE DEF upto, todo
      <3> QED BY <1>8, <1>9, <1>13, <3>3, <3>4 DEF Import, At
    <2>2. CASE ~(Clean("fetched", Shard) /\ ForwardProgress(Shard))
      BY <1>2, <1>13, <2>2 DEF Import, Halt, Halted, Resting
    <2> QED BY <2>1, <2>2
  <1>14. CASE CommitPart
    <2>1. /\ driver'.at \in {"validate", "commit"} /\ driver'.upto = driver.upto
          /\ driver'.todo \subseteq driver.todo /\ driver'.position = driver.position
      BY <1>1, <1>14 DEF CommitPart, Driver
    <2>2. driver.todo \subseteq 0..driver.upto
      BY <1>1, <1>14 DEF Awaited, CommitPart
    <2> QED BY <1>8, <1>9, <1>14, <2>1, <2>2 DEF CommitPart, At
  <1>15. CASE Acknowledge
    <2>1. \/ driver' = [at |-> "next", position |-> driver.position + 1, done |-> driver.done + 1,
                        upto |-> 0, todo |-> {}, blind |-> FALSE]
          \/ driver' = Resting
      BY <1>15 DEF Acknowledge, Halt, Halted, Resting
    <2>2. driver'.at \in {"next", "idle"}
      BY <2>1 DEF Resting
    <2> QED BY <1>2, <2>2
  <1> QED BY <1>2, <1>4, <1>5, <1>6, <1>7, <1>10, <1>11, <1>12, <1>13, <1>14, <1>15, DriverMoves

\* Nothing begins but where the driver is.
LEMMA BegunWhere ==
    ASSUME Orderly, [Next]_vars, NEW s \in Shards, Begun(s)'
    PROVE  Begun(s) \/ (Submit /\ s = Shard)
  <1>1. /\ intent \in [Places -> [Shards -> Intent \cup {None}]]
        /\ frontend \in [Shards -> [at : Commands, outcome : Outcomes]]
        /\ Places = {"local", "site", "fetched"}
    BY DEF Orderly, TypeOK, Places
  <1>2. SUFFICES ASSUME ~Begun(s), ~(Submit /\ s = Shard)
                 PROVE  frontend'[s].at = "idle" /\ intent'["site"][s] = None
    BY DEF Begun
  <1>3. frontend[s].at = "idle" /\ intent["site"][s] = None
    BY <1>2 DEF Begun
  <1>4. intent'["site"][s] = None
    <2>1. CASE Poll
      <3>1. Shard \in Shards /\ Shard # s
        BY <1>3, <2>1, ShardHolds DEF Poll, At, Orderly, DriverKnows
      <3> QED BY <1>1, <1>3, <2>1, <3>1 DEF Poll
    <2>2. ASSUME NEW t \in Shards, WriteIntent(t) \/ Record(t)
          PROVE  intent'["site"][s] = None
      <3>1. t # s
        BY <1>3, <2>2 DEF WriteIntent, Record
      <3> QED BY <1>1, <1>3, <2>2, <3>1 DEF WriteIntent, Record, Put
    <2> QED BY <1>3, <2>1, <2>2, IntentMoves
  <1>5. frontend'[s].at = "idle"
    <2>1. CASE UNCHANGED frontend
      BY <1>3, <2>1
    <2>2. CASE Submit
      BY <1>1, <1>2, <1>3, <2>2 DEF Submit
    <2>3. CASE Reply \/ DriverKilled \/ KilledInOarsub
      BY <1>1, <1>3, <2>3 DEF Reply, DriverKilled, KilledInOarsub
    <2>4. ASSUME NEW t \in Shards, SiteStep(t)
          PROVE  frontend'[s].at = "idle"
      <3>1. t # s
        BY <1>3, <2>4 DEF SiteStep, WriteIntent, Oarsub, Record, AnswersNobody
      <3> QED BY <1>1, <1>3, <2>4, <3>1 DEF SiteStep, WriteIntent, Oarsub, Record, AnswersNobody, Answer
    <2> QED BY <2>1, <2>2, <2>3, <2>4, FrontendMoves
  <1> QED BY <1>4, <1>5

LEMMA OrderedStays ==
    ASSUME Orderly, InTurn, [Next]_vars
    PROVE  Ordered'
  <1>1. /\ Len(Share) \in Nat /\ \A i \in 1..Len(Share) : Share[i] \in Shards
        /\ \A i, j \in 1..Len(Share) : i # j => Share[i] # Share[j]
    BY ShareHolds, ShareAssumption
  <1>2. driver.position \in Nat /\ Ordered /\ Awaited
    BY <1>1 DEF Orderly, TypeOK, InTurn
  <1>3. \A i \in 1..Len(Share) : Settled(Share[i]) => Settled(Share[i])'
    BY <1>1, SettledStays
  <1>4. ASSUME NEW i \in 1..Len(Share), NEW j \in 1..Len(Share), i < j, Begun(Share[j])'
        PROVE  Settled(Share[i])
    <2>1. CASE Begun(Share[j])
      BY <1>2, <1>4, <2>1 DEF Ordered
    <2>2. CASE Submit /\ Share[j] = Shard
      <3>1. driver.position \in 1..Len(Share)
        BY <1>1, <1>2, <2>2 DEF Submit, At, Orderly, TypeOK, DriverKnows
      <3>2. j = driver.position
        BY <1>1, <2>2, <3>1 DEF Shard
      <3> QED BY <1>2, <1>4, <3>2 DEF Ordered
    <2> QED BY <1>1, <1>4, <2>1, <2>2, BegunWhere
  <1>5. ASSUME NEW i \in 1..Len(Share), i < driver'.position
        PROVE  Settled(Share[i])
    <2>1. CASE driver'.position \in {1, driver.position}
      BY <1>1, <1>2, <1>5, <2>1 DEF Ordered
    <2>2. CASE driver'.position = driver.position + 1 /\ ((Visit /\ Complete(Shard)) \/ Acknowledge)
      <3>1. Settled(Shard)
        BY <1>2, <2>2 DEF Settled, Awaited, Acknowledge, At
      <3>2. i < driver.position \/ i = driver.position
        BY <1>1, <1>2, <1>5, <2>2
      <3> QED BY <1>1, <1>2, <3>1, <3>2 DEF Ordered, Shard
    <2> QED BY <2>1, <2>2, PositionMoves
  <1> QED BY <1>3, <1>4, <1>5 DEF Ordered

LEMMA NextKeepsInTurn ==
    ASSUME Orderly, InTurn, [Next]_vars
    PROVE  InTurn'
  BY ToldStays, AwaitedStays, OrderedStays DEF InTurn

LEMMA InitInTurn ==
    ASSUME Init
    PROVE  InTurn
  <1>1. \A s \in Shards : frontend[s].at = "idle" /\ intent["site"][s] = None /\ job[s].state = "none"
    BY DEF Init, Places
  <1>2. driver.at = "idle" /\ driver.position = 1
    BY DEF Init, Resting
  <1>3. Told /\ Awaited
    BY <1>1, <1>2 DEF Told, Awaited, At
  <1>4. Ordered
    BY <1>1, <1>2, ShareHolds DEF Ordered, Begun
  <1> QED BY <1>3, <1>4 DEF InTurn

\* Of two live jobs the one of the earlier shard is over, or its shard complete.
LEMMA InTurnSuffices ==
    ASSUME InTurn
    PROVE  OneJobInFlight
  <1>1. ASSUME NEW i \in 1..Len(Share), NEW j \in 1..Len(Share), i < j,
               job[Share[i]].state \in Live, job[Share[j]].state \in Live, ~Complete(Share[i])
        PROVE  FALSE
    <2>1. Begun(Share[j])
      BY <1>1, ShareHolds DEF InTurn, Told, Begun, Live
    <2>2. Settled(Share[i])
      BY <1>1, <2>1 DEF InTurn, Ordered
    <2> QED BY <1>1, <2>2 DEF Settled, Live
  <1> SUFFICES ASSUME NEW s \in Shards, NEW t \in Shards, s # t,
                      job[s].state \in Live, job[t].state \in Live, ~Complete(s), ~Complete(t)
               PROVE  FALSE
    BY DEF OneJobInFlight
  <1>2. PICK i, j \in 1..Len(Share) : s = Share[i] /\ t = Share[j]
    BY DEF Shards
  <1>3. i < j \/ j < i
    BY <1>2, ShareHolds
  <1> QED BY <1>1, <1>2, <1>3

-----------------------------------------------------------------------------
(* Submitted work survives: a driver that stages with the knowledge of the   *)
(* site never meets a submission, known or under way, so that it sends       *)
(* nothing over the checkpoint of its job.                                   *)

Kept ==
    driver.at \in {"stage", "send", "submit"} /\ ~driver.blind =>
        ~Submitted(Shard) /\ ~Submitting(Shard)

\* Who moves the checkpoint at the site.
LEMMA SiteCheckpointMoves ==
    ASSUME Orderly, [Next]_vars
    PROVE  \/ \A t \in Shards : checkpoint'["site"][t] = checkpoint["site"][t]
           \/ Send(0)
           \/ \E s \in Shards : JobWritesCheckpoint(s) \/ JobStops(s)
  <1>1. CASE UNCHANGED checkpoint
    BY <1>1
  <1>2. ASSUME NEW place \in {"local", "fetched"}, NEW s \in Shards, NEW value,
               checkpoint' = Put(checkpoint, place, s, value)
        PROVE  \A t \in Shards : checkpoint'["site"][t] = checkpoint["site"][t]
    BY <1>2 DEF Orderly, TypeOK, Put, Places
  <1>3. ASSUME driver.at \notin {"idle", "next"}
        PROVE  Shard \in Shards
    BY <1>3, ShardHolds
  <1>4. CASE Stage \/ Retrieve \/ CommitPart
    BY <1>1, <1>2, <1>3, <1>4 DEF Stage, Retrieve, CommitPart, At
  <1>5. ASSUME NEW item \in {0} \cup Cursors, Send(item)
        PROVE  UNCHANGED checkpoint \/ Send(0)
    BY <1>5 DEF Send
  <1>6. CASE DriverStep
    BY <1>1, <1>4, <1>5, <1>6 DEF DriverStep, places, RunStarts, RunEnds, Visit, StageRefused, Sent,
       Submit, Reply, Poll, TimesOut, Import, Validate, Adopt, Acknowledge
  <1>7. ASSUME NEW s \in Shards, SiteStep(s) \/ JobBegins(s) \/ JobWritesPart(s)
        PROVE  UNCHANGED checkpoint
    BY <1>7 DEF SiteStep, WriteIntent, Oarsub, Record, AnswersNobody, JobBegins, JobWritesPart, places
  <1>8. ASSUME NEW s \in Shards, LocalWorks(s)
        PROVE  \A t \in Shards : checkpoint'["site"][t] = checkpoint["site"][t]
    BY <1>1, <1>2, <1>8 DEF LocalWorks
  <1>9. CASE Fault
    BY <1>1, <1>8, <1>9 DEF Fault, VisitUnanswered, DriverKilled, KilledInOarsub, JobKilled, Register, places
  <1>10. CASE UNCHANGED vars
    BY <1>1, <1>10 DEF vars, places
  <1> QED BY <1>1, <1>6, <1>7, <1>9, <1>10 DEF Next, JobStep

\* A submission becomes known when its outcome is recorded.
LEMMA SubmittedWhen ==
    ASSUME Orderly, [Next]_vars, NEW s \in Shards, Submitted(s)'
    PROVE  Submitted(s) \/ Record(s)
  <1>1. /\ intent \in [Places -> [Shards -> Intent \cup {None}]]
        /\ Places = {"local", "site", "fetched"}
    BY DEF Orderly, TypeOK, Places
  <1>2. CASE \A t \in Shards : intent'["site"][t] = intent["site"][t]
    BY <1>2 DEF Submitted
  <1>3. CASE Poll
    <2>1. Shard \in Shards
      BY <1>3, ShardHolds DEF Poll, At
    <2>2. CASE s = Shard
      <3>1. intent["site"][s] \in Intent /\ intent["site"][s] # None
        BY <1>1, <1>3, <2>1, <2>2 DEF Poll, At, Orderly, DriverKnows
      <3>2. intent' = [intent EXCEPT !["site"] =
                          [@ EXCEPT ![s] = [intent["site"][s] EXCEPT !.terminal = TRUE]]]
        BY <1>1, <1>3, <2>1, <2>2 DEF Poll
      <3>3. intent'["site"][s].outcome = intent["site"][s].outcome
        BY <1>1, <3>1, <3>2 DEF Intent
      <3> QED BY <3>1, <3>3 DEF Submitted
    <2>3. CASE s # Shard
      BY <1>1, <1>3, <2>3 DEF Poll, Submitted
    <2> QED BY <2>2, <2>3
  <1>4. ASSUME NEW t \in Shards, WriteIntent(t)
        PROVE  Submitted(s)
    <2>1. CASE intent' = Put(intent, "site", t, NewIntent)
      <3>1. NewIntent.outcome = "none"
        BY DEF NewIntent
      <3>2. t # s
        BY <1>1, <2>1, <3>1 DEF Put, Submitted
      <3> QED BY <1>1, <2>1, <3>2 DEF Put, Submitted
    <2>2. CASE UNCHANGED intent
      BY <2>2 DEF Submitted
    <2> QED BY <1>4, <2>1, <2>2 DEF WriteIntent
  <1>5. ASSUME NEW t \in Shards, Record(t), t # s
        PROVE  Submitted(s)
    BY <1>1, <1>5 DEF Record, Put, Submitted
  <1> QED BY <1>2, <1>3, <1>4, <1>5, IntentMoves

LEMMA KeptStays ==
    ASSUME Orderly, InTurn, Kept, [Next]_vars
    PROVE  Kept'
  <1> SUFFICES ASSUME driver'.at \in {"stage", "send", "submit"}, ~driver'.blind
               PROVE  ~Submitted(Shard)' /\ ~Submitting(Shard)'
    BY DEF Kept
  <1>1. /\ frontend \in [Shards -> [at : Commands, outcome : Outcomes]]
        /\ driver \in Driver
    BY DEF Orderly, TypeOK, Driver
  <1>2. /\ driver'.position = driver.position
        /\ \/ driver.at \in {"stage", "send", "submit"} /\ ~driver.blind
           \/ Visit /\ ~AwaitingCollection(Shard) /\ ~Submitting(Shard)
    <2>1. CASE driver' = driver
      BY <2>1
    <2>2. CASE driver' = Resting \/ Halt \/ RunStarts
      BY <2>2 DEF Halt, Halted, RunStarts, Resting
    <2>3. CASE Visit
      BY <1>1, <2>3 DEF Visit, At, Driver, Submitting
    <2>4. CASE Stage \/ Sent \/ \E item \in {0} \cup Cursors : Send(item)
      BY <1>1, <2>4 DEF Stage, Sent, Send, Goto, At, Driver
    <2>5. ASSUME NEW point \in {"reply", "wait", "retrieve", "import", "adopt", "acknowledge"}, Goto(point)
          PROVE  FALSE
      BY <1>1, <2>5 DEF Goto, Driver
    <2>6. CASE Import \/ CommitPart
      BY <1>1, <2>2, <2>6 DEF Import, CommitPart, Driver
    <2>7. CASE Acknowledge
      <3>1. \/ driver' = [at |-> "next", position |-> driver.position + 1, done |-> driver.done + 1,
                          upto |-> 0, todo |-> {}, blind |-> FALSE]
            \/ Halt
        BY <2>7 DEF Acknowledge, Resting
      <3> QED BY <2>2, <3>1
    <2>8. CASE DriverStep
      BY <2>2, <2>3, <2>4, <2>5, <2>6, <2>7, <2>8 DEF DriverStep, RunEnds, StageRefused, Submit,
         Reply, Poll, TimesOut, Retrieve, Validate, Adopt
    <2>9. ASSUME NEW s \in Shards, SiteStep(s) \/ JobStep(s)
          PROVE  driver' = driver
      BY <2>9 DEF SiteStep, WriteIntent, Oarsub, Record, AnswersNobody, JobStep, JobBegins,
         JobWritesPart, JobWritesCheckpoint, JobStops
    <2>10. CASE VisitUnanswered
      BY <1>1, <2>10 DEF VisitUnanswered, Driver
    <2>11. CASE Fault
      BY <2>1, <2>2, <2>10, <2>11 DEF Fault, DriverKilled, KilledInOarsub, JobKilled, LocalWorks,
         Register
    <2>12. CASE UNCHANGED vars
      BY <2>1, <2>12 DEF vars
    <2> QED BY <2>1, <2>8, <2>9, <2>11, <2>12 DEF Next
  <1>3. Shard \in Shards /\ Shard' = Shard
    <2>1. CASE driver.at \in {"stage", "send", "submit"}
      BY <1>2, <2>1, ShardHolds DEF Shard
    <2>2. CASE Visit
      <3>1. driver.position \in 1..Len(Share)
        BY <1>1, <2>2, ShareHolds DEF Visit, Finished, Driver
      <3> QED BY <1>2, <3>1, ShareHolds DEF Shard
    <2> QED BY <1>2, <2>1, <2>2
  <1>4. ~Submitted(Shard) /\ ~Submitting(Shard)
    <2>1. CASE driver.at \in {"stage", "send", "submit"} /\ ~driver.blind
      BY <2>1 DEF Kept
    <2>2. CASE ~AwaitingCollection(Shard) /\ ~Submitting(Shard)
      BY <1>3, <2>2 DEF InTurn, Told, AwaitingCollection, Submitted
    <2> QED BY <1>2, <2>1, <2>2
  <1>5. PICK s \in Shards : s = Shard
    BY <1>3
  <1>6. ~(intent'["site"][s] # None /\ intent'["site"][s].outcome = "submitted")
    <2>1. ~Record(s)
      BY <1>4, <1>5 DEF Record, Submitting
    <2> QED BY <1>4, <1>5, <2>1, SubmittedWhen DEF Submitted
  <1>7. frontend'[s].at \notin {"captured", "oarsub", "record"}
    <2>1. frontend[s].at \notin {"captured", "oarsub", "record"}
      BY <1>4, <1>5 DEF Submitting
    <2>2. CASE Submit
      BY <1>1, <2>1, <2>2 DEF Submit, Goto, Halt, Halted, Resting, Driver
    <2>3. CASE Reply \/ DriverKilled \/ KilledInOarsub
      BY <1>1, <2>1, <2>3 DEF Reply, DriverKilled, KilledInOarsub
    <2>4. ASSUME NEW t \in Shards, SiteStep(t)
          PROVE  frontend'[s].at \notin {"captured", "oarsub", "record"}
      <3>1. CASE t = s
        <4>1. AnswersNobody(s)
          BY <2>1, <2>4, <3>1 DEF SiteStep, WriteIntent, Oarsub, Record
        <4> QED BY <1>1, <4>1 DEF AnswersNobody
      <3>2. CASE t # s
        BY <1>1, <2>1, <2>4, <3>2 DEF SiteStep, WriteIntent, Oarsub, Record, AnswersNobody, Answer
      <3> QED BY <3>1, <3>2
    <2>5. CASE UNCHANGED frontend
      BY <2>1, <2>5
    <2> QED BY <2>2, <2>3, <2>4, <2>5, FrontendMoves
  <1> QED BY <1>3, <1>5, <1>6, <1>7 DEF Submitted, Submitting

LEMMA KeptSurvives ==
    ASSUME Orderly, Kept, [Next]_vars, NEW s \in Shards, Submitted(s)
    PROVE  \/ checkpoint'["site"][s] >= checkpoint["site"][s]
           \/ job[s].state \in {"running", "wrote"} /\ checkpoint'["site"][s] >= job[s].upto
           \/ At("send") /\ s = Shard /\ driver.blind
  <1>1. /\ Places = {"local", "site", "fetched"}
        /\ checkpoint \in [Places -> [Shards -> Cursors \cup {None}]]
        /\ job \in [Shards -> [state : JobStates, upto : Cursors]]
    BY DEF Orderly, TypeOK, Places
  <1>2. job[s].upto \in Nat /\ checkpoint["site"][s] \in Nat \cup {None}
    BY <1>1, CursorsHold
  <1>3. checkpoint["site"][s] # None
    BY DEF Orderly, SiteKnows, Submitted
  <1>4. CASE Send(0)
    <2>1. CASE s = Shard
      BY <1>4, <2>1 DEF Send, Kept, At
    <2>2. CASE s # Shard
      <3>1. checkpoint'["site"][s] = checkpoint["site"][s]
        BY <1>1, <1>4, <2>2 DEF Send, Put
      <3> QED BY <1>2, <1>3, <3>1
    <2> QED BY <2>1, <2>2
  <1>5. ASSUME NEW t \in Shards, JobWritesCheckpoint(t) \/ JobStops(t)
        PROVE  \/ checkpoint'["site"][s] >= checkpoint["site"][s]
               \/ /\ job[s].state \in {"running", "wrote"}
                  /\ checkpoint'["site"][s] >= job[s].upto
    <2>1. CASE t = s
      <3>1. checkpoint'["site"][s] \in {job[s].upto, job[s].upto + 1}
        BY <1>1, <1>5, <2>1 DEF JobWritesCheckpoint, JobStops, Put
      <3>2. job[s].state \in {"running", "wrote"}
        BY <1>5, <2>1 DEF JobWritesCheckpoint, JobStops
      <3> QED BY <1>2, <3>1, <3>2
    <2>2. CASE t # s
      <3>1. checkpoint'["site"][s] = checkpoint["site"][s]
        BY <1>1, <1>5, <2>2 DEF JobWritesCheckpoint, JobStops, Put
      <3> QED BY <1>2, <1>3, <3>1
    <2> QED BY <2>1, <2>2
  <1> QED BY <1>2, <1>3, <1>4, <1>5, SiteCheckpointMoves

-----------------------------------------------------------------------------
(* Theorems *)

\* The inductive invariant holds in every state of a run directory, a site and
\* a driver that may be killed anywhere.
THEOREM StaysOrderly == Spec => []Orderly
  <1>1. Init => Orderly
    BY InitOrderly
  <1>2. Orderly /\ [Next]_vars => Orderly'
    BY NextKeepsOrderly
  <1> QED BY <1>1, <1>2, PTL DEF Spec

\* The three places, the site and the driver stay within their types, whatever
\* the share, the sizes of its shards, the budget and the number of faults.
THEOREM TypeCorrect == Spec => []TypeOK
  <1>1. Orderly => TypeOK
    BY DEF Orderly
  <1> QED BY <1>1, StaysOrderly, PTL

\* Wherever an import, a stage or a worker is killed, the checkpoint of the run
\* directory lists only batches whose files are there: _commit_retrieved_state
\* moves the checkpoint last.
THEOREM Whole == Spec => []CollectedIsWhole
  <1>1. Orderly => CollectedIsWhole
    BY DEF Orderly
  <1> QED BY <1>1, StaysOrderly, PTL

\* No step of the driver, of a job or of a worker at home takes back a batch
\* that the run directory lists.
THEOREM Extends == Spec => CollectedOnlyExtends
  <1>1. Orderly /\ [Next]_vars =>
            [\A s \in Shards : checkpoint["local"][s] # None =>
                /\ checkpoint'["local"][s] # None
                /\ checkpoint'["local"][s] >= checkpoint["local"][s]]_vars
    BY NextExtends DEF Extended
  <1> QED BY <1>1, StaysOrderly, PTL DEF Spec, CollectedOnlyExtends

LEMMA StaysInTurn == Spec => []InTurn
  <1>1. Init => InTurn
    BY InitInTurn
  <1>2. Orderly /\ InTurn /\ [Next]_vars => InTurn'
    BY NextKeepsInTurn
  <1> QED BY <1>1, <1>2, StaysOrderly, PTL DEF Spec

\* Whatever is killed, times out or registers late, no two shards that are not
\* complete here have a live job: _drive takes the shards one by one and resumes
\* a submission before it makes another.
THEOREM OneJob == Spec => []OneJobInFlight
  <1>1. InTurn => OneJobInFlight
    BY InTurnSuffices
  <1> QED BY <1>1, StaysInTurn, PTL

\* The checkpoint at the site never falls below what a job has committed there
\* once its submission is known, unless the site did not answer the driver that
\* stages, or a submission that outlived another driver was under way when it
\* asked: in every other case awaiting_collection leads to the results.
THEOREM Survives == Spec => SubmittedWorkSurvives
  <1>1. Init => Kept
    BY DEF Init, Resting, Kept
  <1>2. Orderly /\ InTurn /\ Kept /\ [Next]_vars => Kept'
    BY KeptStays
  <1>3. Orderly /\ InTurn /\ Kept /\ [Next]_vars =>
            [\A s \in Shards :
                intent["site"][s] # None /\ intent["site"][s].outcome = "submitted" =>
                    \/ checkpoint'["site"][s] >= checkpoint["site"][s]
                    \/ job[s].state \in {"running", "wrote"} /\ checkpoint'["site"][s] >= job[s].upto
                    \/ At("send") /\ s = Shard /\ driver.blind]_vars
    BY KeptSurvives DEF Submitted
  <1> QED BY <1>1, <1>2, <1>3, StaysOrderly, StaysInTurn, PTL DEF Spec, SubmittedWorkSurvives

-----------------------------------------------------------------------------
(* The driver beside the export and its publication (LanguageRun): what     *)
(* reaches the Hub while a run is filled, exported, exported again and       *)
(* published at the same time.                                               *)

\* The shards of the two runs.
LEMMA RunsAre ==
    /\ Export!Runs = {"earlier", "current"}
    /\ Export!ShardsOf("current") = Shards
    /\ \A r \in Export!Runs : Export!ShardsOf(r) \subseteq Export!Names
  BY DEF Export!Runs, Export!ShardsOf, Export!Names, Shards

\* Files of one run, to the last row, as a function of shards.
OneRun(f) ==
    \E r \in Export!Runs :
        /\ DOMAIN f = Export!ShardsOf(r)
        /\ \A n \in Export!ShardsOf(r) : f[n].run = r /\ f[n].upto = Size[n]

\* An export and its statistics agree.
OneExport(items) == items.data = items.stats /\ OneRun(items.stats)

\* The lock is held by who works under it; nobody seals meanwhile.
Guarded ==
    /\ exporter \in [at : {"idle", "write", "seal"}, run : {Nothing, "current"}, next : Nat \ {0}]
    /\ exporter.at # "idle" => lock = "exporter"
    /\ publisher = "commit" => lock = "publisher"
    /\ exporter.at # "idle" =>
        exporter.run = "current" /\ RunIsComplete /\ manifest.sealed = FALSE

\* What the exporter has written so far.
Written ==
    /\ DOMAIN data = Export!Names
    /\ exporter.at = "write" =>
        \A i \in 1..Len(Share) : i < exporter.next =>
            data[Share[i]].run = "current" /\ data[Share[i]].upto = Size[Share[i]]
    /\ exporter.at = "seal" => OneExport(Export!Current)

\* What is sealed is one export, and what is committed is what was sealed.
Sealed ==
    /\ manifest.sealed => OneExport(manifest.items)
    /\ publisher = "commit" => Export!ValidSeal /\ plan = Export!Current

Published == hub.stats # Nothing =>
    /\ OneRun(hub.stats)
    /\ Export!Restrict(hub.data, DOMAIN hub.stats) = hub.stats

Exporting == Guarded /\ Written /\ Sealed /\ Published

-----------------------------------------------------------------------------
LEMMA InitExporting ==
    ASSUME RunInit
    PROVE  Exporting
  <1> DEFINE old == Export!ShardsOf("earlier")
  <1>1. /\ data = [n \in Export!Names |-> IF n \in old
                        THEN [run |-> "earlier", upto |-> Size[n]] ELSE Nothing]
        /\ stats = Export!Restrict(data, old)
        /\ manifest = [sealed |-> TRUE, items |-> Export!Current]
        /\ exporter = [at |-> "idle", run |-> Nothing, next |-> 1]
        /\ publisher = "idle" /\ hub.stats = Nothing
    BY DEF RunInit, Export!Init, Export!Seal, Collected
  <1>2. "earlier" \in Export!Runs /\ old \subseteq Export!Names
    BY RunsAre
  <1>3. stats = [n \in old |-> data[n]]
    BY <1>1 DEF Export!Restrict
  <1>4. DOMAIN stats = old /\ \A n \in old : stats[n] = [run |-> "earlier", upto |-> Size[n]]
    BY <1>1, <1>2, <1>3
  <1>5. OneRun(stats)
    BY <1>2, <1>4 DEF OneRun
  <1>6. Export!Current = [data |-> stats, stats |-> stats]
    BY <1>3, <1>4 DEF Export!Current, Export!Restrict
  <1>7. OneExport(manifest.items)
    BY <1>1, <1>5, <1>6 DEF OneExport
  <1> QED BY <1>1, <1>7 DEF Exporting, Guarded, Written, Sealed, Published

\* While the driver works the export root stays as it is, and a run that is
\* complete stays complete.
LEMMA DriverLeavesExport ==
    ASSUME Orderly, InTurn, Exporting, [Next]_vars, UNCHANGED exported
    PROVE  Exporting'
  <1>1. RunIsComplete => RunIsComplete'
    BY CompleteStays DEF RunIsComplete, InTurn
  <1> QED BY <1>1 DEF Exporting, Guarded, Written, Sealed, Published, exported, OneExport, OneRun,
             Export!Current, Export!ValidSeal

-----------------------------------------------------------------------------
(* export *)

LEMMA ExportBeginsKeeps ==
    ASSUME Exporting, UNCHANGED vars, Export!ExportBegins("current", RunIsComplete)
    PROVE  Exporting'
  <1>1. /\ RunIsComplete' /\ manifest'.sealed = FALSE
        /\ exporter' = [at |-> "write", run |-> "current", next |-> 1]
        /\ lock = Nothing /\ lock' = "exporter"
        /\ UNCHANGED <<data, stats, plan, publisher, hub>>
    BY DEF Export!ExportBegins, Export!Acquire, Export!InProgress, vars, places, RunIsComplete,
       Complete, Clean, Listed
  <1>2. publisher # "commit"
    BY <1>1, NothingAssumption DEF Exporting, Guarded
  <1> QED BY <1>1, <1>2 DEF Exporting, Guarded, Written, Sealed, Published, OneRun

LEMMA ExportShardKeeps ==
    ASSUME Exporting, UNCHANGED vars, Export!ExportShard
    PROVE  Exporting'
  <1> DEFINE s == Share[exporter.next]
  <1>1. /\ exporter.at = "write" /\ exporter.run = "current" /\ lock = "exporter"
        /\ exporter.next \in Nat \ {0} /\ exporter.next <= Len(Share) /\ RunIsComplete
    BY DEF Export!ExportShard, Exporting, Guarded, Written
  <1>2. /\ data' = [data EXCEPT ![s] = [run |-> "current", upto |-> checkpoint["local"][s]]]
        /\ exporter' = [exporter EXCEPT !.next = @ + 1]
        /\ UNCHANGED <<stats, manifest, lock, plan, publisher, hub>>
    BY <1>1 DEF Export!ExportShard, Collected
  <1>3. /\ exporter' \in [at : {"idle", "write", "seal"}, run : {Nothing, "current"}, next : Nat \ {0}]
        /\ exporter'.at = "write" /\ exporter'.run = "current" /\ exporter'.next = exporter.next + 1
    BY <1>1, <1>2 DEF Exporting, Guarded
  <1>4. s \in Shards /\ s \in Export!Names /\ DOMAIN data = Export!Names
    BY <1>1, RunsAre DEF Shards, Exporting, Written, Export!Names, Export!Runs, Export!ShardsOf
  <1>5. checkpoint["local"][s] = Size[s]
    BY <1>1, <1>4 DEF RunIsComplete, Complete
  <1>6. /\ data'[s].run = "current" /\ data'[s].upto = Size[s]
        /\ \A n \in Export!Names : n # s => data'[n] = data[n]
        /\ DOMAIN data' = Export!Names
    BY <1>2, <1>4, <1>5
  <1>7. ASSUME NEW i \in 1..Len(Share), i < exporter'.next
        PROVE  data'[Share[i]].run = "current" /\ data'[Share[i]].upto = Size[Share[i]]
    <2>1. CASE Share[i] = s
      BY <1>6, <2>1
    <2>2. CASE Share[i] # s
      <3>1. i < exporter.next
        BY <1>1, <1>3, <1>7, <2>2
      <3>2. data'[Share[i]] = data[Share[i]]
        BY <1>6, <2>2, RunsAre DEF Shards
      <3> QED BY <1>1, <3>1, <3>2 DEF Exporting, Written
    <2> QED BY <2>1, <2>2
  <1>8. Guarded'
    BY <1>1, <1>2, <1>3 DEF Exporting, Guarded, RunIsComplete, Complete, Clean, Listed, vars, places
  <1>9. Written'
    BY <1>3, <1>6, <1>7 DEF Written
  <1>10. publisher # "commit" /\ manifest.sealed = FALSE
    BY <1>1 DEF Exporting, Guarded
  <1>11. Sealed' /\ Published'
    BY <1>2, <1>10 DEF Exporting, Sealed, Published, OneRun
  <1> QED BY <1>8, <1>9, <1>11 DEF Exporting

LEMMA ExportStatsKeeps ==
    ASSUME Exporting, UNCHANGED vars, Export!ExportStats
    PROVE  Exporting'
  <1>1. /\ exporter.at = "write" /\ exporter.run = "current" /\ lock = "exporter"
        /\ exporter.next \in Nat /\ exporter.next > Len(Share) /\ RunIsComplete
    BY DEF Export!ExportStats, Exporting, Guarded, Written
  <1>2. /\ stats' = Export!Restrict(data, Shards)
        /\ exporter' = [exporter EXCEPT !.at = "seal"]
        /\ UNCHANGED <<data, manifest, lock, plan, publisher, hub>>
    BY <1>1, RunsAre DEF Export!ExportStats
  <1>3. /\ exporter' \in [at : {"idle", "write", "seal"}, run : {Nothing, "current"}, next : Nat \ {0}]
        /\ exporter'.at = "seal" /\ exporter'.run = "current"
    BY <1>1, <1>2 DEF Exporting, Guarded
  <1>4. \A n \in Shards : data[n].run = "current" /\ data[n].upto = Size[n]
    BY <1>1, ShareHolds DEF Shards, Exporting, Written
  <1>5. stats' = [n \in Shards |-> data[n]] /\ DOMAIN stats' = Shards
    BY <1>2 DEF Export!Restrict
  <1>6. OneRun(stats')
    BY <1>4, <1>5, RunsAre DEF OneRun
  <1>7. Export!Current' = [data |-> stats', stats |-> stats']
    BY <1>2, <1>5 DEF Export!Current, Export!Restrict
  <1>8. Guarded'
    BY <1>1, <1>2, <1>3 DEF Exporting, Guarded, RunIsComplete, Complete, Clean, Listed, vars, places
  <1>9. Written'
    BY <1>2, <1>3, <1>6, <1>7 DEF Exporting, Written, OneExport
  <1>10. publisher # "commit" /\ manifest.sealed = FALSE
    BY <1>1 DEF Exporting, Guarded
  <1>11. Sealed' /\ Published'
    BY <1>2, <1>10 DEF Exporting, Sealed, Published, OneRun
  <1> QED BY <1>8, <1>9, <1>11 DEF Exporting

\* An exporter that ends has sealed, or leaves an unsealed manifest behind.
LEMMA ExportEndsKeeps ==
    ASSUME Exporting, UNCHANGED vars, Export!ExportSeals \/ Export!ExportKilled
    PROVE  Exporting'
  <1>1. /\ exporter.at # "idle" /\ exporter' = [at |-> "idle", run |-> Nothing, next |-> 1]
        /\ UNCHANGED <<data, stats, plan, publisher, hub>>
        /\ manifest' = manifest
            \/ (exporter.at = "seal" /\ manifest' = [sealed |-> TRUE, items |-> Export!Current])
    BY DEF Export!ExportSeals, Export!ExportKilled, Export!Seal, Export!disk
  <1>2. publisher # "commit"
    BY <1>1 DEF Exporting, Guarded
  <1>3. Guarded'
    BY <1>1, <1>2 DEF Guarded
  <1>4. Written' /\ Published'
    BY <1>1 DEF Exporting, Written, Published, OneRun
  <1>5. Sealed'
    BY <1>1, <1>2 DEF Exporting, Written, Sealed, OneExport, OneRun
  <1> QED BY <1>3, <1>4, <1>5 DEF Exporting

-----------------------------------------------------------------------------
(* publish *)

\* Before it has the lock a publication changes nothing that matters, and when
\* it gets it the plan is checked once more.
LEMMA PublishBeginsKeeps ==
    ASSUME Exporting, UNCHANGED vars, Export!PublishBegins
    PROVE  Exporting'
  <1>1. /\ lock = Nothing /\ lock' = "publisher" /\ publisher' = "commit"
        /\ Export!ValidSeal /\ plan = Export!Current
        /\ UNCHANGED <<data, stats, manifest, exporter, plan, hub>>
    BY DEF Export!PublishBegins, Export!Acquire, Export!PlanIsCurrent, Export!disk
  <1>2. exporter.at = "idle"
    BY <1>1, NothingAssumption DEF Exporting, Guarded
  <1>3. Guarded' /\ Written' /\ Published'
    BY <1>1, <1>2 DEF Exporting, Guarded, Written, Published, OneRun
  <1>4. Sealed'
    BY <1>1 DEF Exporting, Sealed, OneExport, OneRun, Export!ValidSeal, Export!Current
  <1> QED BY <1>3, <1>4 DEF Exporting

LEMMA PublishCommitsKeeps ==
    ASSUME Exporting, UNCHANGED vars, Export!PublishCommits
    PROVE  Exporting'
  <1>1. /\ publisher = "commit" /\ publisher' = "idle" /\ lock = "publisher"
        /\ hub' = [data |-> [n \in Export!Names |->
                                IF n \in DOMAIN plan.stats THEN data[n] ELSE hub.data[n]],
                   stats |-> stats]
        /\ UNCHANGED <<data, stats, manifest, exporter>>
    BY DEF Export!PublishCommits, Export!Idle, Export!disk, Exporting, Guarded
  <1>2. exporter.at = "idle"
    BY <1>1 DEF Exporting, Guarded
  <1>3. Export!ValidSeal /\ plan.stats = stats
    BY <1>1 DEF Exporting, Sealed, Export!Current
  <1>4. OneRun(stats) /\ Export!Restrict(data, DOMAIN stats) = stats
    BY <1>3 DEF Export!ValidSeal, Export!Current, Exporting, Sealed, OneExport
  <1>5. DOMAIN stats \subseteq Export!Names
    BY <1>4, RunsAre DEF OneRun
  <1>6. \A n \in DOMAIN stats : hub'.data[n] = data[n]
    BY <1>1, <1>3, <1>5
  <1>7. Export!Restrict(hub'.data, DOMAIN stats) = Export!Restrict(data, DOMAIN stats)
    BY <1>6 DEF Export!Restrict
  <1>8. Published'
    BY <1>1, <1>4, <1>7 DEF Published, OneRun
  <1>9. Guarded' /\ Written' /\ Sealed'
    BY <1>1, <1>2 DEF Exporting, Guarded, Written, Sealed, OneExport, OneRun
  <1> QED BY <1>8, <1>9 DEF Exporting

LEMMA PublisherKeeps ==
    ASSUME Exporting, UNCHANGED vars,
           \/ Export!PlanBegins \/ Export!PlanEnds \/ Export!PublishRefused \/ Export!PublishKilled
           \/ \E n \in Export!Names : Export!PlanHashes(n)
    PROVE  Exporting'
  <1>1. /\ UNCHANGED <<data, stats, manifest, exporter, hub>>
        /\ publisher' # "commit"
        /\ lock' = lock \/ (publisher = "commit" /\ exporter.at = "idle")
    BY DEF Export!PlanBegins, Export!PlanEnds, Export!PublishRefused, Export!PublishKilled,
       Export!PlanHashes, Export!Idle, Export!disk, Exporting, Guarded
  <1>2. Guarded'
    BY <1>1 DEF Exporting, Guarded, RunIsComplete, Complete, Clean, Listed, vars, places
  <1>3. Written' /\ Published'
    BY <1>1 DEF Exporting, Written, Published, OneExport, OneRun, Export!Current
  <1>4. Sealed'
    BY <1>1 DEF Exporting, Sealed, OneExport, OneRun
  <1> QED BY <1>2, <1>3, <1>4 DEF Exporting

-----------------------------------------------------------------------------
(* Every step *)

LEMMA RunNextKeepsExporting ==
    ASSUME Orderly, InTurn, Exporting, [RunNext]_runVars
    PROVE  Exporting'
  <1>1. CASE Next /\ UNCHANGED exported
    BY <1>1, DriverLeavesExport
  <1>2. CASE ExportStep /\ UNCHANGED vars
    BY <1>2, ExportBeginsKeeps, ExportShardKeeps, ExportStatsKeeps, ExportEndsKeeps,
       PublishBeginsKeeps, PublishCommitsKeeps, PublisherKeeps DEF ExportStep, Export!Publish
  <1>3. CASE UNCHANGED runVars
    BY <1>3, DriverLeavesExport DEF runVars
  <1> QED BY <1>1, <1>2, <1>3 DEF RunNext

\* The driver of a run that is exported meanwhile is the driver of GridDriver.
LEMMA DriverStaysInTurn == RunSpec => [](Orderly /\ InTurn)
  <1>1. RunInit => Orderly /\ InTurn
    BY InitOrderly, InitInTurn DEF RunInit
  <1>2. Orderly /\ InTurn /\ [RunNext]_runVars => (Orderly /\ InTurn)'
    <2>1. [RunNext]_runVars => [Next]_vars
      BY DEF RunNext, runVars
    <2> QED BY <2>1, NextKeepsOrderly, NextKeepsInTurn
  <1> QED BY <1>1, <1>2, PTL DEF RunSpec

LEMMA StaysExporting == RunSpec => []Exporting
  <1>1. RunInit => Exporting
    BY InitExporting
  <1>2. Orderly /\ InTurn /\ Exporting /\ [RunNext]_runVars => Exporting'
    BY RunNextKeepsExporting
  <1> QED BY <1>1, <1>2, DriverStaysInTurn, PTL DEF RunSpec

\* The export root, the lock and the publisher are what their types say.
THEOREM ExportTypes == RunSpec => []Export!TypeOK
  <1>1. RunInit => Export!TypeOK
    <2> SUFFICES ASSUME RunInit PROVE Export!TypeOK
      OBVIOUS
    <2>1. Export!ShardsOf("earlier") \subseteq Export!Names
      BY RunsAre
    <2>2. stats = Export!Restrict(data, Export!ShardsOf("earlier")) /\ DOMAIN data = Export!Names
      BY DEF RunInit, Export!Init
    <2>3. DOMAIN stats \subseteq Export!Names
      BY <2>1, <2>2 DEF Export!Restrict
    <2> QED BY <2>2, <2>3, KillsAssumption DEF RunInit, Export!Init, Export!TypeOK
  <1>2. Exporting /\ Exporting' /\ Export!TypeOK /\ [RunNext]_runVars => Export!TypeOK'
    <2> SUFFICES ASSUME Exporting, Exporting', Export!TypeOK, [RunNext]_runVars
                 PROVE  Export!TypeOK'
      OBVIOUS
    <2>1. (DOMAIN data = Export!Names)' /\ exporter'.at \in {"idle", "write", "seal"}
      BY DEF Exporting, Guarded, Written
    <2>2. (stats # Nothing => DOMAIN stats \subseteq Export!Names)'
      <3>1. CASE stats' = stats
        BY <3>1 DEF Export!TypeOK, Export!Names, Export!Runs, Export!ShardsOf
      <3>2. CASE Export!ExportStats
        <4>1. exporter.run = "current"
          BY <3>2 DEF Export!ExportStats, Exporting, Guarded
        <4>2. stats' = Export!Restrict(data, Export!ShardsOf("current"))
          BY <3>2, <4>1 DEF Export!ExportStats
        <4>3. DOMAIN stats' \subseteq Export!Names
          BY <4>2, RunsAre DEF Export!Restrict
        <4> QED BY <4>3
      <3> QED BY <3>1, <3>2 DEF RunNext, runVars, exported, ExportStep, Export!disk,
              Export!ExportBegins, Export!ExportShard, Export!ExportSeals, Export!ExportKilled,
              Export!Publish, Export!PlanBegins, Export!PlanHashes, Export!PlanEnds,
              Export!PublishBegins, Export!PublishRefused, Export!PublishCommits,
              Export!PublishKilled
    <2>3. /\ lock' \in {Nothing, "exporter", "publisher"}
          /\ publisher' \in {"idle", "hash", "planned", "commit"}
      BY DEF Export!TypeOK, RunNext, runVars, exported, ExportStep, Export!disk,
         Export!Acquire, Export!Idle,
         Export!ExportBegins, Export!ExportShard, Export!ExportStats, Export!ExportSeals,
         Export!ExportKilled, Export!Publish, Export!PlanBegins, Export!PlanHashes,
         Export!PlanEnds, Export!PublishBegins, Export!PublishRefused,
         Export!PublishCommits, Export!PublishKilled
    <2>4. kills' \in 0..MaxKills
      <3>1. kills' = kills \/ (kills < MaxKills /\ kills' = kills + 1)
        BY DEF RunNext, runVars, exported, ExportStep,
           Export!ExportBegins, Export!ExportShard, Export!ExportStats, Export!ExportSeals,
           Export!ExportKilled, Export!Publish, Export!PlanBegins, Export!PlanHashes,
           Export!PlanEnds, Export!PublishBegins, Export!PublishRefused,
           Export!PublishCommits, Export!PublishKilled
      <3> QED BY <3>1, KillsAssumption DEF Export!TypeOK
    <2> QED BY <2>1, <2>2, <2>3, <2>4 DEF Export!TypeOK
  <1> QED BY <1>1, <1>2, StaysExporting, PTL DEF RunSpec

\* The files on the Hub that the published statistics count are the files that
\* were counted, all of one run, however exports and publications are killed and
\* interleaved: the seal is checked again under the lock that exporters need.
THEOREM OnePublished == RunSpec => []PublishedIsOneExport
  <1>1. Exporting => PublishedIsOneExport
    BY DEF Exporting, Published, OneRun, PublishedIsOneExport, Export!PublishedIsOneExport
  <1> QED BY <1>1, StaysExporting, PTL

\* Every published shard is there to its last row: an export begins with a run
\* that is complete, and no driver, job or worker makes it incomplete again.
THEOREM CompletePublished == RunSpec => []PublishedIsComplete
  <1>1. Exporting => PublishedIsComplete
    BY DEF Exporting, Published, OneRun, PublishedIsComplete
  <1> QED BY <1>1, StaysExporting, PTL
=============================================================================
