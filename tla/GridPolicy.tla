------------------------------- MODULE GridPolicy -------------------------------
(***************************************************************************)
(* Whether one job may be submitted on the evidence the frontend reported: *)
(* the usage policy, the home quota and the account's active jobs.         *)
(* Blocked before unknown before allowed.  Instants are ticks of local     *)
(* time, one tick standing for the microsecond that separates the last     *)
(* instant of a walltime from its end.                                     *)
(***************************************************************************)
EXTENDS Integers, FiniteSets, FiniteSetsExt

CONSTANTS
    DayLength, DayStart, DayEnd,    \* ticks of a day; DAYTIME_START, DAYTIME_END
    MaxWalltime,                    \* MAX_WALLTIME_SECONDS
    MaxEvidenceAge,                 \* MAX_EVIDENCE_AGE_SECONDS
    Absent                          \* evidence that could not be captured

\* Days from 09:00 to 19:00, jobs of half an hour: a job is shorter than
\* daytime and than the rest of a day.
ASSUME PolicyAssumption ==
    /\ {DayLength, DayStart, DayEnd, MaxWalltime, MaxEvidenceAge} \subseteq Nat
    /\ DayStart < DayEnd /\ DayEnd <= DayLength
    /\ MaxWalltime <= DayEnd - DayStart
    /\ MaxWalltime <= DayLength - (DayEnd - DayStart)
    /\ Absent \notin Nat

IsWeekdayDaytime(moment) ==
    /\ (moment \div DayLength) % 7 < 5
    /\ moment % DayLength \in DayStart..(DayEnd - 1)

PolicyEvidenceIsFresh(moment, captured) == moment - captured \in 0..MaxEvidenceAge

\* The two known shapes of usagepolicycheck; the older one lists its jobs.
UsageIsParsed(usage) ==
    \/ usage.shape = "current"
    \/ usage.shape = "legacy" /\ usage.total = usage.jobs

\* 2: hard limit reached, 1: soft limit reached; a limit of 0 is none.
LimitState(usage) ==
    IF usage.hard # 0 /\ usage.used >= usage.hard THEN 2
    ELSE IF usage.soft # 0 /\ usage.used >= usage.soft THEN 1 ELSE 0

\* Of the home file systems; any line of theirs that does not parse, or none
\* at all, leaves the quota unknown.
HomeQuota(lines) ==
    LET home == {l \in lines : l.home}
        state(l) == Max({LimitState(l.blocks), LimitState(l.files)})
    IN  IF home = {} \/ \E l \in home : ~l.parsed THEN "unknown"
        ELSE IF Max({state(l) : l \in home}) > 0 THEN "exceeded" ELSE "clear"

\* Mutant: the last instant is read as one tick earlier.
WalltimeBlocks_Early(walltime, moment) ==
    \/ walltime \notin 1..MaxWalltime
    \/ IsWeekdayDaytime(moment) # IsWeekdayDaytime(moment + walltime - 2)

\* The two ends of the window lie on different sides of a day boundary.
WalltimeBlocks(walltime, moment) ==
    \/ walltime \notin 1..MaxWalltime
    \/ IsWeekdayDaytime(moment) # IsWeekdayDaytime(moment + walltime - 1)

Blocks(r) ==
    \/ IsWeekdayDaytime(r.moment) /\ ~r.allowDaytime
    \/ WalltimeBlocks(r.walltime, r.moment)
    \/ r.jobs # Absent /\ r.jobs >= 1
    \/ r.quota # Absent /\ HomeQuota(r.quota) = "exceeded"

Unknown(r) ==
    \/ r.captured = Absent \/ ~PolicyEvidenceIsFresh(r.moment, r.captured)
    \/ r.usage = Absent \/ ~UsageIsParsed(r.usage)
    \/ r.jobs = Absent
    \/ r.quota = Absent \/ HomeQuota(r.quota) = "unknown"

\* evaluate_policy of grid submit --apply, which asks for one core.
EvaluatePolicy(r) ==
    IF Blocks(r) THEN "blocked" ELSE IF Unknown(r) THEN "unknown" ELSE "allowed"
=============================================================================
