----------------------------- MODULE CseSnapshots -----------------------------
(***************************************************************************)
(* The weekly customer-activity snapshots: the in-memory jobs of POST      *)
(* /api/cse-activity/snapshot, the generations they start in the same      *)
(* process, and the directory of each Friday that a generation, and the    *)
(* two routes that make its reports again, write file by file.  Time is    *)
(* counted in hours of Denver's standard time, from a Sunday's midnight;   *)
(* its clocks are an hour ahead between two of them.                       *)
(***************************************************************************)
EXTENDS Naturals, Sequences, FiniteSets

CONSTANTS
  MaxSnapshotJobs,        \* bound: jobs ever made
  MaxStoredSnapshotJobs,  \* CSE_SNAPSHOT_JOB_MAX_STORED, 50
  Moments,                \* bound: the hours at which anything happens
  Forward, Back,          \* the hours at which the clocks go forward and back
  EodHour,                \* fridayEodTime, 17:00
  MaxData,                \* bound: versions of the portfolio's data
  MaxSnapshotFaults       \* bound: broken writes and restarts

ASSUME SnapshotAssumption ==
  /\ MaxSnapshotJobs \in Nat /\ MaxStoredSnapshotJobs \in Nat
  /\ Moments \subseteq Nat /\ Moments # {} /\ \A m \in Moments : m >= 192
  /\ Forward \in Nat /\ Back \in Nat /\ EodHour \in 0..23
  /\ MaxData \in Nat \ {0} /\ MaxSnapshotFaults \in Nat

-----------------------------------------------------------------------------
(* resolveReportingWindow: the days back to a Friday whose end of day has  *)
(* passed, by the weekday and the hour that the clocks show; midnight's    *)
(* hour is read as 24 (hour12: false).  The window ends as many times 24   *)
(* hours ago, and its date is what the clocks showed then.  Mutant:        *)
(* today's Friday counts from midnight on.                                 *)
Local(m) == IF Forward <= m /\ m < Back THEN m + 1 ELSE m
Day(m) == Local(m) \div 24
Weekday(m) == Day(m) % 7                \* 5: a Friday
HourRead(m) == IF Local(m) % 24 = 0 THEN 24 ELSE Local(m) % 24
DaysBackFromMidnight(m) == (Weekday(m) + 2) % 7
DaysBack(m) ==
  LET d == (Weekday(m) + 2) % 7 IN IF d = 0 /\ HourRead(m) < EodHour THEN 7 ELSE d
WindowEnd(m) == m - 24 * DaysBack(m)
SnapshotDate(m) == Day(WindowEnd(m))

-----------------------------------------------------------------------------
VARIABLES
  now,
  data,         \* version of the data that the refreshes have published
  job,          \* the job objects, which their generations keep after eviction
  known,        \* the ids in the map, in the order of their insertion
  earlier,      \* finished: the finished jobs of the map with an earlier finishedAt
  late,         \* over the running limit, or over five minutes finished
  week,         \* date -> the files in its directory
  outrun,       \* history: jobs declared stale
  torn,         \* history: dates whose last full write was cut short
  snapshotFaults

snapshotVars == <<now, data, job, known, earlier, late, week, outrun, torn, snapshotFaults>>

SnapshotJobs == 1..MaxSnapshotJobs
Dates == {SnapshotDate(m) : m \in Moments}
NoDate == 0
NoFiles == [metadata |-> 0, activity |-> 0, dashboard |-> 0, reports |-> 0, until |-> 0]
Pieces == <<"metadata", "activity", "dashboard", "reports">>   \* in the order of writing
NoSnapshotJob == [status |-> "none", at |-> "none", read |-> 0, date |-> NoDate]

SnapshotTypeOK ==
  /\ now \in Moments /\ data \in 1..MaxData
  /\ job \in [SnapshotJobs -> [status : {"none", "running", "done", "error"},
                               at : {"none", "load", "build", "over"},
                               read : 0..MaxData, date : Dates \cup {NoDate}]]
  /\ known \subseteq SnapshotJobs /\ late \subseteq known
  /\ earlier \in [SnapshotJobs -> SUBSET {j \in known : job[j].status # "running"}]
  /\ week \in [Dates -> [metadata : 0..MaxData, activity : 0..MaxData, dashboard : 0..MaxData,
                         reports : 0..MaxData, until : Nat]]
  /\ outrun \subseteq SnapshotJobs /\ torn \subseteq Dates
  /\ snapshotFaults \in 0..MaxSnapshotFaults

SnapshotInit ==
  /\ now \in Moments /\ (\A m \in Moments : now <= m) /\ data = 1
  /\ job = [j \in SnapshotJobs |-> NoSnapshotJob]
  /\ known = {} /\ earlier = [j \in SnapshotJobs |-> {}] /\ late = {}
  /\ week = [d \in Dates |-> NoFiles]
  /\ outrun = {} /\ torn = {} /\ snapshotFaults = 0

SnapshotFault == snapshotFaults < MaxSnapshotFaults /\ snapshotFaults' = snapshotFaults + 1

-----------------------------------------------------------------------------
(* The map: expired jobs go, then the oldest finished above the size cap;  *)
(* a running job that is late is declared failed.  Mutant: a dropped job   *)
(* stays among the finished.                                               *)
ActiveSnapshots(m) == {j \in m.known : m.job[j].status = "running"}
FinishedSnapshots(m) == m.known \ ActiveSnapshots(m)
NoLonger(order, gone) == [j \in SnapshotJobs |-> IF j \in gone THEN {} ELSE order[j] \ gone]
DropRow(m, gone) == [m EXCEPT !.known = @ \ gone, !.late = @ \ gone]
Drop(m, gone) == [m EXCEPT !.known = @ \ gone, !.late = @ \ gone, !.earlier = NoLonger(@, gone)]
OverTheCap(m) ==
  {j \in FinishedSnapshots(m) : Cardinality(m.earlier[j]) + MaxStoredSnapshotJobs < Cardinality(m.known)}
PrunedJobs(m) ==
  LET fresh == Drop(m, m.late \cap FinishedSnapshots(m)) IN Drop(fresh, OverTheCap(fresh))

Declare(m, jobs) ==
  LET stale == ActiveSnapshots(m) \cap m.late \cap jobs IN
  [m EXCEPT !.job = [j \in SnapshotJobs |-> IF j \in stale THEN [@[j] EXCEPT !.status = "error"] ELSE @[j]],
            !.earlier = [j \in SnapshotJobs |->
              IF j \in stale THEN FinishedSnapshots(m) \cup {i \in stale : i < j} ELSE @[j]],
            !.late = @ \ stale, !.outrun = @ \cup stale]

Map == [job |-> job, known |-> known, earlier |-> earlier, late |-> late, outrun |-> outrun]
MapBecomes(m) ==
  job' = m.job /\ known' = m.known /\ earlier' = m.earlier /\ late' = m.late /\ outrun' = m.outrun

(* startCseSnapshotJob; runCseSnapshotJob runs up to the first await.      *)
(* Mutant: the limit is not looked at.                                     *)
AlwaysRoom(m) == TRUE
NothingRuns(m) == ActiveSnapshots(m) = {}
PostSnapshot(j) ==
  /\ job[j].status = "none" /\ \A i \in SnapshotJobs : i < j => job[i].status # "none"
  /\ LET counted == Declare(PrunedJobs(Map), SnapshotJobs) IN
     IF NothingRuns(counted)
     THEN LET m == PrunedJobs(counted) IN
          MapBecomes([m EXCEPT !.job[j] = [NoSnapshotJob EXCEPT !.status = "running", !.at = "load"],
                               !.known = @ \cup {j}])
     ELSE MapBecomes(counted)
  /\ UNCHANGED <<now, data, week, torn, snapshotFaults>>

GetSnapshotJob(j) ==
  /\ j \in known
  /\ MapBecomes(Declare(PrunedJobs(Map), {j}))
  /\ UNCHANGED <<now, data, week, torn, snapshotFaults>>

(* Newest first, up to one that is not late; those before it are older.    *)
GetActiveSnapshot ==
  /\ MapBecomes(Declare(PrunedJobs(Map), SnapshotJobs))
  /\ UNCHANGED <<now, data, week, torn, snapshotFaults>>

-----------------------------------------------------------------------------
(* The generation: it awaits the portfolio, and then builds and writes     *)
(* without another await.                                                  *)
Load(j) ==
  /\ job[j].at = "load"
  /\ job' = [job EXCEPT ![j].at = "build", ![j].read = data]
  /\ UNCHANGED <<now, data, known, earlier, late, week, outrun, torn, snapshotFaults>>

JobOver(j, outcome, d) ==
  /\ job' = [job EXCEPT ![j].status = outcome, ![j].at = "over", ![j].date = d]
  /\ earlier' = [NoLonger(earlier, {j}) EXCEPT ![j] = IF j \in known THEN FinishedSnapshots(Map) \ {j} ELSE {}]
  /\ late' = late \ {j}
  /\ UNCHANGED <<known, outrun>>

(* Mutant: it goes on without the portfolio.                               *)
LoadFailsAndGoesOn(j) ==
  /\ job[j].at = "load" /\ SnapshotFault
  /\ job' = [job EXCEPT ![j].status = "error", ![j].at = "build"]
  /\ earlier' = [earlier EXCEPT ![j] = IF j \in known THEN FinishedSnapshots(Map) \ {j} ELSE {}]
  /\ UNCHANGED <<known, outrun, late, now, data, week, torn>>
LoadFails(j) ==
  /\ job[j].at = "load" /\ SnapshotFault /\ JobOver(j, "error", NoDate)
  /\ UNCHANGED <<now, data, week, torn>>

(* The first n pieces of a package that was built from version v.  Mutant: *)
(* its window ends at the anchor.                                          *)
WrittenUntilNow(files, n, v) ==
  [x \in DOMAIN files |->
     IF x = "until" THEN IF n > 0 THEN now ELSE files.until
     ELSE IF \E k \in 1..n : Pieces[k] = x THEN v ELSE files[x]]
WrittenUpTo(files, n, v) ==
  [x \in DOMAIN files |->
     IF x = "until" THEN IF n > 0 THEN WindowEnd(now) ELSE files.until
     ELSE IF \E k \in 1..n : Pieces[k] = x THEN v ELSE files[x]]

Build(j) ==
  LET d == SnapshotDate(now) IN
  /\ job[j].at = "build" /\ JobOver(j, "done", d)
  /\ week' = [week EXCEPT ![d] = WrittenUpTo(@, Len(Pieces), job[j].read)]
  /\ torn' = torn \ {d}
  /\ UNCHANGED <<now, data, snapshotFaults>>

(* A write fails after n pieces.  Mutant: the failure is not reported.     *)
OutcomeDone(n) == "done"
OutcomeOfTorn(n) == "error"
BuildFails(j, n) ==
  LET d == SnapshotDate(now) IN
  /\ job[j].at = "build" /\ SnapshotFault /\ JobOver(j, OutcomeOfTorn(n), d)
  /\ week' = [week EXCEPT ![d] = WrittenUpTo(@, n, job[j].read)]
  /\ torn' = IF n > 0 THEN torn \cup {d} ELSE torn
  /\ UNCHANGED <<now, data>>

-----------------------------------------------------------------------------
(* The routes that make the reports of a date again, from the files that   *)
(* readSnapshot finds: one without activity files throws.                  *)
Readable(d) == week[d].metadata # 0 /\ week[d].activity # 0

RegenerateDashboard(d) ==
  /\ Readable(d)
  /\ week' = [week EXCEPT ![d].dashboard = week[d].metadata]
  /\ UNCHANGED <<now, data, job, known, earlier, late, outrun, torn, snapshotFaults>>

(* Mutant: the reports come from the portfolio of now.                     *)
ReportsOfNow(d) == data
ReportsOf(d) == week[d].metadata
RegenerateReports(d) ==
  /\ Readable(d)
  /\ week' = [week EXCEPT ![d].reports = ReportsOf(d)]
  /\ UNCHANGED <<now, data, job, known, earlier, late, outrun, torn, snapshotFaults>>

-----------------------------------------------------------------------------
RefreshPublishes ==
  /\ data < MaxData /\ data' = data + 1
  /\ UNCHANGED <<now, job, known, earlier, late, week, outrun, torn, snapshotFaults>>

(* Hours or days pass for the weeks, ten minutes for a job.                *)
HoursPass ==
  /\ now' \in Moments /\ now < now'
  /\ late' = known
  /\ UNCHANGED <<data, job, known, earlier, week, outrun, torn, snapshotFaults>>

BecomesLate(j) ==
  /\ j \in known \ late
  /\ \A i \in ActiveSnapshots(Map) \ late : j \notin ActiveSnapshots(Map) \/ j <= i
  /\ late' = late \cup {j}
  /\ UNCHANGED <<now, data, job, known, earlier, week, outrun, torn, snapshotFaults>>

ServerRestarts ==
  /\ SnapshotFault /\ known # {}
  /\ job' = [j \in SnapshotJobs |-> IF job[j].at \in {"load", "build"}
                                   THEN [job[j] EXCEPT !.at = "over", !.status = "error"] ELSE job[j]]
  /\ known' = {} /\ earlier' = [j \in SnapshotJobs |-> {}] /\ late' = {}
  /\ UNCHANGED <<now, data, week, outrun, torn>>

SnapshotNext ==
  \/ \E j \in SnapshotJobs :
       \/ PostSnapshot(j) \/ GetSnapshotJob(j) \/ Load(j) \/ LoadFails(j) \/ Build(j)
       \/ \E n \in 0..(Len(Pieces) - 1) : BuildFails(j, n)
       \/ BecomesLate(j)
  \/ \E d \in Dates : RegenerateDashboard(d) \/ RegenerateReports(d)
  \/ GetActiveSnapshot \/ RefreshPublishes \/ HoursPass \/ ServerRestarts

SnapshotSpec == SnapshotInit /\ [][SnapshotNext]_snapshotVars

-----------------------------------------------------------------------------
(* Properties.                                                             *)

(* At most one job is shown as running, though a generation whose job was  *)
(* declared stale goes on (CSE_SNAPSHOT_JOB_MAX_CONCURRENT).               *)
OneSnapshotRuns == Cardinality(ActiveSnapshots(Map)) <= 1

(* A job that has reported its end reports another one only if it had been *)
(* declared stale while its generation went on.                            *)
ReportsOnce ==
  [][\A j \in SnapshotJobs : job[j].status \in {"done", "error"} /\ job'[j].status # job[j].status
       => j \in outrun]_snapshotVars

(* What a finished job promises is on disk: its date's files are whole,    *)
(* unless a later write of them was cut short, and at least as new as what *)
(* it read, unless the job that overtook it, or itself, had been declared  *)
(* stale and went on.                                                      *)
DoneIsOnDisk ==
  \A j \in SnapshotJobs : job[j].status = "done" /\ job[j].date \notin torn =>
    LET files == week[job[j].date] IN
    /\ \A x \in {"activity", "dashboard", "reports"} : files[x] = files.metadata
    /\ \/ files.metadata >= job[j].read
       \/ \E i \in SnapshotJobs : /\ job[i].status = "done" /\ job[i].date = job[j].date
                                 /\ job[i].read = files.metadata /\ {i, j} \cap outrun # {}

(* A snapshot is of a Friday whose end of day has come, but for the hour   *)
(* around a midnight: made in a Friday's first hour it is of the Friday    *)
(* that has just begun, and where the clocks have changed since its        *)
(* window's end it can have the date of the Thursday or of the Saturday.   *)
WeekIsOver ==
  \A d \in {x \in Dates : week[x].until # 0} :
    LET u == week[d].until IN
    /\ u <= now
    /\ \/ d % 7 = 5 /\ (24 * d + EodHour <= Local(now) \/ Local(u) % 24 = 0)
       \/ d % 7 = 4 /\ Local(u) % 24 = 23 /\ Forward \in (u + 1)..(u + 168)
       \/ d % 7 = 6 /\ Local(u) % 24 = 0 /\ Back \in (u + 1)..(u + 168)

(* The windows of two weeks in a row overlap, or leave a gap, by a day at  *)
(* most (they do not meet exactly: a window ends at the time of day of its *)
(* making, not at fridayEodTime).                                          *)
WeeksMeet ==
  \A d, e \in {x \in Dates : week[x].until # 0} :
    e = d + 7 => /\ week[e].until <= week[d].until + 168 + 24
                 /\ week[d].until + 168 <= week[e].until + 24

(* The invariant of the weekly snapshots.                                  *)
WeeklyInv == SnapshotTypeOK /\ OneSnapshotRuns /\ DoneIsOnDisk /\ WeekIsOver /\ WeeksMeet
=============================================================================
