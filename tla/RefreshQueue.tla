----------------------------- MODULE RefreshQueue -----------------------------
(***************************************************************************)
(* The refresh queue: the web handlers that enqueue refresh jobs, the      *)
(* refresh_jobs and refresh_runs tables, the LISTEN/NOTIFY channel, the    *)
(* worker process that drains the queue, and the command line tool that    *)
(* refreshes without a job.  Every await of the code is a point where the  *)
(* other processes may move, so each action is what one process does       *)
(* between two awaits.                                                     *)
(***************************************************************************)
EXTENDS Naturals, FiniteSets

CONSTANTS
  Workers,            \* worker processes (apps/worker/src/main.ts)
  Tools,              \* runs of apps/worker/src/refresh-once.ts
  Clients,            \* POST /api/refresh handlers in flight
  MaxJobs,            \* bound: rows ever inserted into refresh_jobs
  MaxRuns,            \* bound: rows ever inserted into refresh_runs
  Retain,             \* how many runs pruneOldRuns keeps (12 in the code)
  MaxCrashes,         \* bound: crashes of workers, tools and web handlers
  LongRuns            \* may a live refresh outlive the one hour cutoff?

Procs == Workers \cup Tools

ASSUME QueueAssumption ==
  /\ Workers \cap Tools = {} /\ IsFiniteSet(Clients)
  /\ MaxJobs \in Nat /\ MaxRuns \in Nat /\ MaxCrashes \in Nat
  /\ Retain \in Nat \ {0}
  /\ LongRuns \in BOOLEAN

Jobs == 1..MaxJobs
Runs == 1..MaxRuns
Null == 0                   \* SQL NULL, or no job, or no run
NilUuid == MaxRuns + 1      \* '00000000-...': the id of no refresh_runs row

VARIABLES
  jobStatus,   \* refresh_jobs.status, "none" before the row exists
  jobRun,      \* refresh_jobs.refresh_run_id
  stale,       \* refresh_jobs.started_at is more than an hour ago
  runStatus,   \* refresh_runs.status, "none" before and "pruned" after
  pc,          \* where each worker or tool is
  job,         \* the job a process is working on
  run,         \* the refresh run it is writing
  listening,   \* has the worker's LISTEN handler been installed?
  inbox,       \* notifications delivered to the worker, not yet handled
  post,        \* where each POST handler is
  crashes

tables == <<jobStatus, jobRun, stale, runStatus>>
workers == <<pc, job, run, listening, inbox>>
vars == <<jobStatus, jobRun, stale, runStatus, pc, job, run, listening,
          inbox, post, crashes>>

JobStatuses == {"none", "queued", "running", "success", "failed"}
Finished == {"success", "partial", "failed"}      \* completeRefreshRun's
RunStatuses == {"none", "running", "pruned"} \cup Finished

(* The states in which runRefresh is executing, and those in which the     *)
(* module flag `draining' is set.                                          *)
Refreshing == {"startRun", "attach", "pipeline", "prune", "delete"}
Draining == Refreshing \cup
            {"claim", "drained", "complete", "auditFailed", "markFailed"}

TypeOK ==
  /\ jobStatus \in [Jobs -> JobStatuses]
  /\ jobRun \in [Jobs -> Runs \cup {Null}]
  /\ stale \in [Jobs -> BOOLEAN]
  /\ runStatus \in [Runs -> RunStatuses]
  /\ pc \in [Procs -> Draining \cup {"down", "reap", "listen", "idle"}]
  /\ job \in [Procs -> Jobs \cup {Null}]
  /\ run \in [Procs -> Runs \cup {Null}]
  /\ listening \in [Workers -> BOOLEAN]
  /\ inbox \in [Workers -> Nat]
  /\ post \in [Clients -> {"idle", "insert", "notify"}]
  /\ crashes \in 0..MaxCrashes

Init ==
  /\ jobStatus = [j \in Jobs |-> "none"]
  /\ jobRun = [j \in Jobs |-> Null]
  /\ stale = [j \in Jobs |-> FALSE]
  /\ runStatus = [r \in Runs |-> "none"]
  /\ pc = [p \in Procs |-> "down"]
  /\ job = [p \in Procs |-> Null]
  /\ run = [p \in Procs |-> Null]
  /\ listening = [w \in Workers |-> FALSE]
  /\ inbox = [w \in Workers |-> 0]
  /\ post = [c \in Clients |-> "idle"]
  /\ crashes = 0

-----------------------------------------------------------------------------
(* The tables.                                                             *)

(* Which runs have a row.  Mutant: no foreign key on refresh_run_id.       *)
AnyUuid(r) == TRUE
RunExists(r) == r \in Runs /\ runStatus[r] \notin {"none", "pruned"}
Newer(r) == {s \in Runs : s > r /\ RunExists(s)}
Beyond(n) == {r \in Runs : RunExists(r) /\ Cardinality(Newer(r)) >= n}

(* The runs that pruneOldRuns unlinks from their jobs, and those that it   *)
(* deletes.  Mutant: an OFFSET one larger in the first query.              *)
UnlinkedTooFew == Beyond(Retain + 1)
Unlinked == Beyond(Retain)
Prunable == Beyond(Retain)

(* The jobs a POST may join: queued, or running and started this hour.     *)
Active == {j \in Jobs : \/ jobStatus[j] = "queued"
                        \/ jobStatus[j] = "running" /\ ~stale[j]}

(* completeJob writes the run id with the status, so the foreign key on    *)
(* refresh_run_id refuses the whole UPDATE when the run has no row.        *)
(* Mutant: the UPDATE without its WHERE id.                                *)
EveryRunningRow(j, r) ==
  IF RunExists(r) THEN {k \in Jobs : k = j \/ jobStatus[k] = "running"} ELSE {}
UpdatedRows(j, r) == IF RunExists(r) THEN {j} ELSE {}

CompleteJob(j, r, s) ==
  /\ jobStatus' = [k \in Jobs |-> IF k \in UpdatedRows(j, r) THEN s
                                                            ELSE jobStatus[k]]
  /\ jobRun' = [k \in Jobs |-> IF k \in UpdatedRows(j, r) THEN r
                                                         ELSE jobRun[k]]

-----------------------------------------------------------------------------
(* POST /api/refresh: the lookup, the INSERT and the pg_notify are three   *)
(* queries.  A POST that finds an active job answers with its id and       *)
(* changes nothing here; only one that finds none goes on.                 *)

(* Mutant of PostFindsNone: only running jobs are looked up.               *)
PostOverlooksQueued(c) ==
  /\ post[c] = "idle"
  /\ \A j \in Active : jobStatus[j] # "running"
  /\ post' = [post EXCEPT ![c] = "insert"]
  /\ UNCHANGED <<tables, workers, crashes>>

PostFindsNone(c) ==
  /\ post[c] = "idle"
  /\ Active = {}
  /\ post' = [post EXCEPT ![c] = "insert"]
  /\ UNCHANGED <<tables, workers, crashes>>

PostInsert(c) ==
  /\ post[c] = "insert"
  /\ \E j \in Jobs :
       /\ jobStatus[j] = "none"
       /\ \A k \in Jobs : k < j => jobStatus[k] # "none"
       /\ jobStatus' = [jobStatus EXCEPT ![j] = "queued"]
  /\ post' = [post EXCEPT ![c] = "notify"]
  /\ UNCHANGED <<jobRun, stale, runStatus, workers, crashes>>

PostNotify(c) ==
  /\ post[c] = "notify"
  /\ inbox' = [w \in Workers |-> IF listening[w] THEN inbox[w] + 1
                                                 ELSE inbox[w]]
  /\ post' = [post EXCEPT ![c] = "idle"]
  /\ UNCHANGED <<tables, pc, job, run, listening, crashes>>

(* The handler dies between two of its queries, or the next one fails.     *)
PostDies(c) ==
  /\ post[c] # "idle"
  /\ crashes < MaxCrashes
  /\ post' = [post EXCEPT ![c] = "idle"]
  /\ crashes' = crashes + 1
  /\ UNCHANGED <<tables, workers>>

-----------------------------------------------------------------------------
(* The worker: boot, reap, drain, LISTEN, and a drain per notification.    *)

Goto(p, there) == pc' = [pc EXCEPT ![p] = there]

Boot(w) ==
  /\ pc[w] = "down"
  /\ Goto(w, "reap")
  /\ UNCHANGED <<tables, job, run, listening, inbox, post, crashes>>

(* reapStaleJobs closes every stale running row.  Mutant: "any such row    *)
(* that exists at our boot is provably abandoned", whatever its age.       *)
RunningAtBoot(j) == jobStatus[j] = "running"
Reapable(j) == jobStatus[j] = "running" /\ stale[j]

Reap(w) ==
  /\ pc[w] = "reap"
  /\ jobStatus' = [j \in Jobs |-> IF Reapable(j) THEN "failed"
                                                 ELSE jobStatus[j]]
  /\ Goto(w, "claim")
  /\ UNCHANGED <<jobRun, stale, runStatus, job, run, listening, inbox, post,
                 crashes>>

(* A failing reap is logged and the boot goes on.  Mutant: the failure     *)
(* skips the first drain as well.                                          *)
ReapFailsNoDrain(w) ==
  /\ pc[w] = "reap"
  /\ Goto(w, "listen")
  /\ UNCHANGED <<tables, job, run, listening, inbox, post, crashes>>
ReapFails(w) ==
  /\ pc[w] = "reap"
  /\ Goto(w, "claim")
  /\ UNCHANGED <<tables, job, run, listening, inbox, post, crashes>>

(* claimNextJob takes the oldest queued row, atomically (SKIP LOCKED).     *)
(* Mutants: the newest one; a stale running one as well.                   *)
NewestQueued(j) == /\ jobStatus[j] = "queued"
                   /\ \A k \in Jobs : k > j => jobStatus[k] # "queued"
QueuedOrStale(j) == \/ jobStatus[j] = "queued"
                    \/ jobStatus[j] = "running" /\ stale[j]
OldestQueued(j) == /\ jobStatus[j] = "queued"
                   /\ \A k \in Jobs : k < j => jobStatus[k] # "queued"

Claim(w) ==
  /\ pc[w] = "claim"
  /\ \E j \in Jobs :
       /\ OldestQueued(j)
       /\ jobStatus' = [jobStatus EXCEPT ![j] = "running"]
       /\ stale' = [stale EXCEPT ![j] = FALSE]
       /\ job' = [job EXCEPT ![w] = j]
  /\ Goto(w, "startRun")
  /\ UNCHANGED <<jobRun, runStatus, run, listening, inbox, post, crashes>>

(* The claim found no queued row; the worker does not know it yet.         *)
ClaimNone(w) ==
  /\ pc[w] = "claim"
  /\ \A j \in Jobs : jobStatus[j] # "queued"
  /\ Goto(w, "drained")
  /\ UNCHANGED <<tables, job, run, listening, inbox, post, crashes>>

(* The empty claim reaches the worker: the loop breaks, draining = false,  *)
(* and a booting worker goes on to its LISTEN.                             *)
DrainEnds(w) ==
  /\ pc[w] = "drained"
  /\ Goto(w, IF listening[w] THEN "idle" ELSE "listen")
  /\ UNCHANGED <<tables, job, run, listening, inbox, post, crashes>>

Listen(w) ==
  /\ pc[w] = "listen"
  /\ listening' = [listening EXCEPT ![w] = TRUE]
  /\ Goto(w, "idle")
  /\ UNCHANGED <<tables, job, run, inbox, post, crashes>>

(* The notification handler calls drain(), which returns when one is       *)
(* already under way.                                                      *)
Notified(w) ==
  /\ inbox[w] > 0
  /\ inbox' = [inbox EXCEPT ![w] = @ - 1]
  /\ Goto(w, IF pc[w] = "idle" THEN "claim" ELSE pc[w])
  /\ UNCHANGED <<tables, job, run, listening, post, crashes>>

(* After runRefresh returned: completeJob(id, refreshId, 'success').       *)
Complete(w) ==
  /\ pc[w] = "complete"
  /\ CompleteJob(job[w], run[w], "success")
  /\ IF RunExists(run[w])
     THEN /\ Goto(w, "claim")
          /\ job' = [job EXCEPT ![w] = Null]
          /\ run' = [run EXCEPT ![w] = Null]
     ELSE /\ Goto(w, "auditFailed")
          /\ UNCHANGED <<job, run>>
  /\ UNCHANGED <<stale, runStatus, listening, inbox, post, crashes>>

(* The catch block: the audit row, then completeJob with the nil uuid.     *)
AuditFailed(w) ==
  /\ pc[w] = "auditFailed"
  /\ Goto(w, "markFailed")
  /\ UNCHANGED <<tables, job, run, listening, inbox, post, crashes>>

MarkFailed(w) ==
  /\ pc[w] = "markFailed"
  /\ CompleteJob(job[w], NilUuid, "failed")
  /\ Goto(w, "claim")
  /\ job' = [job EXCEPT ![w] = Null]
  /\ run' = [run EXCEPT ![w] = Null]
  /\ UNCHANGED <<stale, runStatus, listening, inbox, post, crashes>>

-----------------------------------------------------------------------------
(* runRefresh, as far as the queue sees it.  A tool has no job.            *)

StartTool(t) ==
  /\ pc[t] = "down"
  /\ Goto(t, "startRun")
  /\ UNCHANGED <<tables, job, run, listening, inbox, post, crashes>>

StartRun(p) ==
  /\ pc[p] = "startRun"
  /\ \E r \in Runs :
       /\ runStatus[r] = "none"
       /\ \A s \in Runs : s < r => runStatus[s] # "none"
       /\ runStatus' = [runStatus EXCEPT ![r] = "running"]
       /\ run' = [run EXCEPT ![p] = r]
  /\ Goto(p, IF job[p] = Null THEN "pipeline" ELSE "attach")
  /\ UNCHANGED <<jobStatus, jobRun, stale, job, listening, inbox, post,
                 crashes>>

(* Mutant of Attach: it also sets status = 'running'.                      *)
AttachSetsRunning(p) ==
  /\ pc[p] = "attach"
  /\ jobRun' = [jobRun EXCEPT ![job[p]] = run[p]]
  /\ jobStatus' = [jobStatus EXCEPT ![job[p]] = "running"]
  /\ Goto(p, "pipeline")
  /\ UNCHANGED <<stale, runStatus, job, run, listening, inbox, post, crashes>>

(* attachRefreshRunToJob; a failure of it is logged and the run goes on.   *)
Attach(p) ==
  /\ pc[p] = "attach"
  /\ jobRun' = IF RunExists(run[p]) THEN [jobRun EXCEPT ![job[p]] = run[p]]
                                    ELSE jobRun
  /\ Goto(p, "pipeline")
  /\ UNCHANGED <<jobStatus, stale, runStatus, job, run, listening, inbox,
                 post, crashes>>

AttachFails(p) ==
  /\ pc[p] = "attach"
  /\ Goto(p, "pipeline")
  /\ UNCHANGED <<tables, job, run, listening, inbox, post, crashes>>

(* Mutant of Publish: no completeRefreshRun.                               *)
PublishOnly(p) ==
  /\ pc[p] = "pipeline"
  /\ Goto(p, "prune")
  /\ UNCHANGED <<tables, job, run, listening, inbox, post, crashes>>

(* Fetch, merge, persist, score, publish, then completeRefreshRun, whose   *)
(* UPDATE touches no row when the run has been pruned meanwhile.           *)
Publish(p) ==
  /\ pc[p] = "pipeline"
  /\ \E s \in Finished :
       runStatus' = IF RunExists(run[p])
                    THEN [runStatus EXCEPT ![run[p]] = s] ELSE runStatus
  /\ Goto(p, "prune")
  /\ UNCHANGED <<jobStatus, jobRun, stale, job, run, listening, inbox, post,
                 crashes>>

(* pruneOldRuns, first query: unlink the jobs of the runs to be deleted.   *)
PruneUnlink(p) ==
  /\ pc[p] = "prune"
  /\ jobRun' = [j \in Jobs |-> IF jobRun[j] \in Unlinked THEN Null
                                                         ELSE jobRun[j]]
  /\ Goto(p, "delete")
  /\ UNCHANGED <<jobStatus, stale, runStatus, job, run, listening, inbox,
                 post, crashes>>

(* What runRefresh returns to: the drain loop, or the end of the tool.     *)
Return(p) ==
  /\ Goto(p, IF p \in Workers THEN "complete" ELSE "down")
  /\ run' = IF p \in Workers THEN run ELSE [run EXCEPT ![p] = Null]

Fail(p) ==
  /\ Goto(p, IF p \in Workers THEN "auditFailed" ELSE "down")
  /\ run' = IF p \in Workers THEN run ELSE [run EXCEPT ![p] = Null]

(* Second query: delete them; a link made since makes the key refuse.      *)
PruneBlocked == \E j \in Jobs : jobRun[j] \in Prunable

PruneDelete(p) ==
  /\ pc[p] = "delete"
  /\ ~PruneBlocked
  /\ runStatus' = [r \in Runs |-> IF r \in Prunable THEN "pruned"
                                                    ELSE runStatus[r]]
  /\ Return(p)
  /\ UNCHANGED <<jobStatus, jobRun, stale, job, listening, inbox, post,
                 crashes>>

PruneRefused(p) ==
  /\ pc[p] = "delete"
  /\ PruneBlocked
  /\ Fail(p)
  /\ UNCHANGED <<tables, job, listening, inbox, post, crashes>>

(* Any other query of runRefresh, or completeJob, may throw.  The run row  *)
(* keeps the status it has.                                                *)
Throw(p) ==
  /\ pc[p] \in {"startRun", "pipeline", "prune", "delete", "complete"}
  /\ Fail(p)
  /\ UNCHANGED <<tables, job, listening, inbox, post, crashes>>

-----------------------------------------------------------------------------
(* Time and crashes.                                                       *)

Owned(j) == \E p \in Procs : job[p] = j

(* An hour passes since the job was started.                               *)
HourPasses(j) ==
  /\ jobStatus[j] = "running"
  /\ ~stale[j]
  /\ LongRuns \/ ~Owned(j)
  /\ stale' = [stale EXCEPT ![j] = TRUE]
  /\ UNCHANGED <<jobStatus, jobRun, runStatus, workers, post, crashes>>

(* A process dies with its LISTEN connection and everything in memory.     *)
Crash(p) ==
  /\ pc[p] # "down"
  /\ crashes < MaxCrashes
  /\ crashes' = crashes + 1
  /\ Goto(p, "down")
  /\ job' = [job EXCEPT ![p] = Null]
  /\ run' = [run EXCEPT ![p] = Null]
  /\ listening' = [w \in Workers |-> listening[w] /\ w # p]
  /\ inbox' = [w \in Workers |-> IF w = p THEN 0 ELSE inbox[w]]
  /\ UNCHANGED <<tables, post>>

-----------------------------------------------------------------------------
PostStep(c) == PostFindsNone(c) \/ PostInsert(c)
                 \/ PostNotify(c) \/ PostDies(c)

RunStep(p) == StartRun(p) \/ Attach(p) \/ AttachFails(p) \/ Publish(p)
                \/ PruneUnlink(p) \/ PruneDelete(p) \/ PruneRefused(p)
                \/ Throw(p)

WorkerStep(w) == Reap(w) \/ ReapFails(w) \/ Claim(w) \/ ClaimNone(w)
                   \/ DrainEnds(w) \/ Listen(w) \/ Complete(w)
                   \/ AuditFailed(w) \/ MarkFailed(w)

Next ==
  \/ \E c \in Clients : PostStep(c)
  \/ \E w \in Workers : Boot(w) \/ WorkerStep(w) \/ Notified(w)
  \/ \E t \in Tools : StartTool(t)
  \/ \E p \in Procs : RunStep(p) \/ Crash(p)
  \/ \E j \in Jobs : HourPasses(j)

Spec == Init /\ [][Next]_vars

(* A process that is up goes on: its queries return and its event loop     *)
(* handles what was delivered.  Nothing makes a process boot or a user     *)
(* click, and a query that may fail need not.                              *)
Fairness ==
  /\ \A w \in Workers : WF_vars(WorkerStep(w)) /\ WF_vars(Notified(w))
  /\ \A p \in Procs : WF_vars(RunStep(p))
  /\ \A c \in Clients : WF_vars(PostInsert(c) \/ PostNotify(c))

FairSpec == Spec /\ Fairness

-----------------------------------------------------------------------------
(* Safety.                                                                 *)

(* Two workers never work on the same job, whatever crashes, reaps and     *)
(* late completions happen in between (claimNextJob, reapStaleJobs).       *)
OneRunnerPerJob ==
  \A p, q \in Workers : job[p] = job[q] /\ job[p] # Null => p = q

(* Jobs leave the queue in the order in which they were enqueued, also     *)
(* when several workers drain it (ORDER BY enqueued_at in claimNextJob).   *)
ClaimedInOrder ==
  \A j, k \in Jobs :
    k < j /\ jobStatus[j] \notin {"none", "queued"}
      => jobStatus[k] \notin {"none", "queued"}

(* A job reported as success shows the outcome of a run that was really    *)
(* completed, until retention unlinks it: pruning, late completions and    *)
(* other workers never leave it on an unfinished or deleted run.           *)
SuccessIsPublished ==
  \A j \in Jobs : jobStatus[j] = "success" /\ jobRun[j] # Null
                    => runStatus[jobRun[j]] \in Finished

(* The status endpoint joins a job to its own run: no two jobs share one,  *)
(* so no tab watches the progress of another tab's refresh.                *)
OneJobPerRun ==
  \A j, k \in Jobs : jobRun[j] = jobRun[k] /\ jobRun[j] # Null => j = k

(* While a worker is at work on a job its row says running, unless the     *)
(* refresh outlived the cutoff and another worker's boot reaped it: the    *)
(* reaper cannot race a refresh that keeps below the hour.                 *)
LiveJobShowsRunning ==
  \A w \in Workers :
    job[w] # Null => \/ jobStatus[job[w]] = "running"
                     \/ LongRuns /\ stale[job[w]]

(* POSTs that overlap may each find no active job and each insert one, but *)
(* no more than that: as many jobs are active as there are handlers in     *)
(* flight at a time, and one if POSTs do not overlap, however often they   *)
(* come and whatever dies between the look-up and the INSERT.              *)
OverlapBoundsActive == Cardinality(Active) <= Cardinality(Clients)

(* The DELETE of pruneOldRuns is never refused by the foreign key.  It     *)
(* holds when one process refreshes at a time.                             *)
PruneNotRefused == \A p \in Procs : pc[p] = "delete" => ~PruneBlocked

(* A running row with nobody at work on it.  The comment before the nil    *)
(* completeJob in the worker promises this never comes from an error.      *)
RunningIsOwned == \A j \in Jobs : jobStatus[j] = "running" => Owned(j)

-----------------------------------------------------------------------------
(* Action properties and refinement.                                       *)

(* A finished job is never queued or running again; the only change left   *)
(* to it is the late success of a job that was reaped while running.       *)
FinishedStaysFinished ==
  [][\A j \in Jobs : jobStatus[j] \in {"success", "failed"}
       => jobStatus'[j] \in {jobStatus[j], "success"}]_vars

(* The queue keeps the promise of WorkQueue: in order, at most once, and   *)
(* closed for good.                                                        *)
PhaseOf(status) == IF status = "none" THEN "new"
                   ELSE IF status = "queued" THEN "waiting"
                   ELSE IF status = "running" THEN "handedOut" ELSE "closed"

Promise == INSTANCE WorkQueue
             WITH phase <- [j \in Jobs |-> PhaseOf(jobStatus[j])]

ImplementsWorkQueue == Promise!WQSpec

-----------------------------------------------------------------------------
(* Liveness.                                                               *)

(* A worker that is booting, that has not yet been told that the queue is  *)
(* empty, or that is idle with a notification to handle.                   *)
Waking(w) == \/ pc[w] = "reap"
             \/ pc[w] \in Draining \ {"drained"}
             \/ pc[w] = "idle" /\ inbox[w] > 0

(* A job that is queued while a worker is waking is claimed, or that       *)
(* worker crashes: neither a failing job nor a burst of notifications      *)
(* stops the drain (main.ts drain).                                        *)
WakingWorkerClaims ==
  \A w \in Workers, j \in Jobs :
    jobStatus[j] = "queued" /\ Waking(w)
      ~> jobStatus[j] # "queued" \/ pc[w] = "down"

(* A job enqueued while a worker listens is claimed.  This is what the     *)
(* description of the worker says of POST /api/refresh.                    *)
ListeningWorkerClaims ==
  \A w \in Workers, j \in Jobs :
    jobStatus[j] = "queued" /\ listening[w]
      ~> jobStatus[j] # "queued" \/ pc[w] = "down"
=============================================================================
