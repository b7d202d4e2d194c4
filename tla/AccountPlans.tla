----------------------------- MODULE AccountPlans -----------------------------
(***************************************************************************)
(* Account plans in the web server: manual refreshes of one account, kept  *)
(* apart by the inFlight set and a 'refreshing' row in account_plans, and  *)
(* bulk jobs over all accounts, which one drain works off in batches and   *)
(* chunks without looking at either.  Handlers, the drain and its          *)
(* generations interleave at every await; any query may throw, before or   *)
(* after it took effect, and the server may be restarted.                  *)
(***************************************************************************)
EXTENDS Naturals, Sequences, FiniteSets

CONSTANTS
  Accounts,        \* the dashboard's accounts, as numbers in their order
  Wanted,          \* the one that the manual refreshes are for
  Posts,           \* POST bulk-refresh handlers in flight
  Refreshers,      \* POST account-plan/refresh handlers in flight
  Batch, Width,    \* BATCH_SIZE and CONCURRENCY (5 and 2 in the code)
  MaxBulkJobs,         \* bound: bulk jobs ever inserted
  MaxFaults,       \* bound: failing queries and restarts
  SerialChecks     \* do the manual refreshes take turns until they have locked?

BulkJobs == 1..MaxBulkJobs

ASSUME PlansAssumption ==
  /\ IsFiniteSet(Accounts) /\ Accounts \subseteq Nat /\ Wanted \in Accounts
  /\ Batch \in Nat \ {0} /\ Width \in Nat \ {0}
  /\ MaxBulkJobs \in Nat /\ MaxFaults \in Nat /\ SerialChecks \in BOOLEAN
  /\ Refreshers \cap (BulkJobs \X Accounts) = {}

(* A generation is a manual refresh or the work on one item of a bulk job. *)
Items == BulkJobs \X Accounts
Gens == Refreshers \cup Items
AccountOf(g) == IF g \in Refreshers THEN Wanted ELSE g[2]

VARIABLES
  jobs,       \* account_plan_bulk_jobs with their items
  drain,      \* the running drainBulkJob (drainRunning when not "off")
  post,       \* where each bulk POST is, and the job it inserted
  gens,       \* where each generation is
  inFlight,   \* the module's set of accounts
  locks,      \* generations with a 'refreshing' row of the last 30 minutes
  faults

plansVars == <<jobs, drain, post, gens, inFlight, locks, faults>>

Finished == {"success", "partial", "failed"}
Collecting == {"work", "unlock"}
AtWork == Collecting \cup {"lock", "undo"}

Off == [at |-> "off", job |-> 0, batch |-> {}, chunk |-> {}, final |-> "none"]

PlansTypeOK ==
  /\ Len(jobs) <= MaxBulkJobs
  /\ \A j \in 1..Len(jobs) :
       /\ jobs[j].status \in {"queued", "running"} \cup Finished
       /\ jobs[j].started \in {"never", "recent", "old"}
       /\ jobs[j].items \in UNION {[S -> {"pending", "success", "failed"}] :
                                     S \in {{}, Accounts}}
  /\ drain.at \in {"off", "start", "list", "run", "count", "complete", "leave"}
  /\ drain.job \in 0..Len(jobs)
  /\ drain.batch \subseteq Accounts /\ drain.chunk \subseteq Accounts
  /\ Cardinality(drain.chunk) <= Width
  /\ drain.final \in Finished \cup {"none"}
  /\ post \in [Posts -> [at : {"idle", "insert", "items"}, job : 0..MaxBulkJobs]]
  /\ gens \in [Gens -> AtWork \cup
                 {"idle", "asked", "begin", "succeeded", "failed"}]
  /\ inFlight \subseteq Accounts /\ locks \subseteq Gens
  /\ faults \in 0..MaxFaults

PlansInit ==
  /\ jobs = <<>>
  /\ drain = Off
  /\ post = [p \in Posts |-> [at |-> "idle", job |-> 0]]
  /\ gens = [g \in Gens |-> "idle"]
  /\ inFlight = {} /\ locks = {} /\ faults = 0

Fault == faults < MaxFaults /\ faults' = faults + 1

-----------------------------------------------------------------------------
(* enqueueExpand3BulkRefresh.                                              *)

NewJob == [status |-> "queued", started |-> "never", items |-> [a \in {} |-> a]]
WithItems(j) == [jobs EXCEPT ![j].items = [a \in Accounts |-> "pending"]]

(* findActiveAccountPlanBulkJob.                                           *)
Active == {j \in 1..Len(jobs) : /\ jobs[j].status \in {"queued", "running"}
                                /\ jobs[j].started # "old"}

Goto(p, at, job) == post' = [post EXCEPT ![p] = [at |-> at, job |-> job]]

(* It finds none and lists the accounts; had it found one, it would have   *)
(* returned that one's id.                                                 *)
PostFindsNone(p) ==
  /\ post[p].at = "idle" /\ Active = {}
  /\ Goto(p, "insert", 0)
  /\ UNCHANGED <<jobs, drain, gens, inFlight, locks, faults>>

PostInsertsJob(p) ==
  /\ post[p].at = "insert" /\ Len(jobs) < MaxBulkJobs
  /\ jobs' = Append(jobs, NewJob)
  /\ Goto(p, "items", Len(jobs) + 1)
  /\ UNCHANGED <<drain, gens, inFlight, locks, faults>>

(* With its items in, the job is drained, unless another one is.           *)
PostInsertsItems(p) ==
  /\ post[p].at = "items"
  /\ jobs' = WithItems(post[p].job)
  /\ drain' = IF drain.at # "off" THEN drain
              ELSE [Off EXCEPT !.at = "start", !.job = post[p].job]
  /\ Goto(p, "idle", 0)
  /\ UNCHANGED <<gens, inFlight, locks, faults>>

PostFails(p) ==
  /\ Fault
  /\ \/ post[p].at = "insert" /\ Len(jobs) < MaxBulkJobs
        /\ jobs' \in {jobs, Append(jobs, NewJob)}
     \/ post[p].at = "items" /\ jobs' \in {jobs, WithItems(post[p].job)}
  /\ Goto(p, "idle", 0)
  /\ UNCHANGED <<drain, gens, inFlight, locks>>

-----------------------------------------------------------------------------
(* drainBulkJob.                                                           *)

Started(j) == [jobs EXCEPT ![j].status = "running", ![j].started = "recent"]
Completed(j, status) == [jobs EXCEPT ![j].status = status]

(* The first n of S in their order.  Mutant: one too many.                 *)
FirstAndOne(n, S) == {a \in S : Cardinality({b \in S : b < a}) <= n}
First(n, S) == {a \in S : Cardinality({b \in S : b < a}) < n}

WithStatus(j, status) ==
  {a \in DOMAIN jobs[j].items : jobs[j].items[a] = status}

FinalStatus(j) ==
  IF WithStatus(j, "failed") = {} THEN "success"
  ELSE IF WithStatus(j, "success") = {} THEN "failed" ELSE "partial"

DrainStarts ==
  /\ drain.at = "start"
  /\ jobs' = Started(drain.job)
  /\ drain' = [drain EXCEPT !.at = "list"]
  /\ UNCHANGED <<post, gens, inFlight, locks, faults>>

(* Promise.all over the next chunk of the batch.                           *)
RunChunk(batch) ==
  LET chunk == First(Width, batch)
  IN  /\ drain' = [drain EXCEPT !.at = "run", !.chunk = chunk,
                                !.batch = batch \ chunk]
      /\ gens' = [g \in Gens |-> IF g \in {drain.job} \X chunk THEN "begin"
                                 ELSE gens[g]]

(* listPendingBulkJobItems.                                                *)
DrainLists ==
  /\ drain.at = "list"
  /\ LET pending == First(Batch, WithStatus(drain.job, "pending"))
     IN  IF pending = {}
         THEN drain' = [drain EXCEPT !.at = "count"] /\ UNCHANGED gens
         ELSE RunChunk(pending)
  /\ UNCHANGED <<jobs, post, inFlight, locks, faults>>

ChunkDone ==
  drain.at = "run" /\ \A a \in drain.chunk : gens[<<drain.job, a>>] = "idle"

(* Mutant of DrainGoesOn: the list is not read again.                      *)
DrainEndsBatch ==
  /\ ChunkDone
  /\ IF drain.batch # {} THEN RunChunk(drain.batch)
     ELSE drain' = [drain EXCEPT !.at = "count", !.chunk = {}] /\ UNCHANGED gens
  /\ UNCHANGED <<jobs, post, inFlight, locks, faults>>
DrainGoesOn ==
  /\ ChunkDone
  /\ IF drain.batch # {} THEN RunChunk(drain.batch)
     ELSE drain' = [drain EXCEPT !.at = "list", !.chunk = {}] /\ UNCHANGED gens
  /\ UNCHANGED <<jobs, post, inFlight, locks, faults>>

DrainCounts ==
  /\ drain.at = "count"
  /\ drain' = [drain EXCEPT !.at = "complete", !.final = FinalStatus(drain.job)]
  /\ UNCHANGED <<jobs, post, gens, inFlight, locks, faults>>

DrainCompletes ==
  /\ drain.at = "complete"
  /\ jobs' = Completed(drain.job, drain.final)
  /\ drain' = [drain EXCEPT !.at = "leave"]
  /\ UNCHANGED <<post, gens, inFlight, locks, faults>>

DrainLeaves ==
  /\ drain.at = "leave"
  /\ drain' = Off
  /\ UNCHANGED <<jobs, post, gens, inFlight, locks, faults>>

(* A query of the drain throws; the job stays as it is.                    *)
DrainFails ==
  /\ Fault
  /\ \/ drain.at = "start" /\ jobs' \in {jobs, Started(drain.job)}
     \/ drain.at \in {"list", "count"} /\ jobs' = jobs
     \/ drain.at = "complete" /\ jobs' \in {jobs, Completed(drain.job, drain.final)}
  /\ drain' = Off
  /\ UNCHANGED <<post, gens, inFlight, locks>>

DrainStep ==
  \/ DrainStarts \/ DrainLists \/ DrainGoesOn \/ DrainCounts \/ DrainCompletes
  \/ DrainLeaves

-----------------------------------------------------------------------------
(* generatePersistedAccountPlan.                                           *)

At(g, at) == gens' = [gens EXCEPT ![g] = at]

(* The finally block.  Mutant: only a generation that succeeded releases.  *)
ReleasedOnSuccess(g, outcome) ==
  IF outcome = "failed" THEN inFlight ELSE inFlight \ {AccountOf(g)}
Released(g, outcome) == inFlight \ {AccountOf(g)}

Leave(g, outcome) ==
  /\ inFlight' = Released(g, outcome)
  /\ At(g, IF g \in Refreshers THEN "idle" ELSE outcome)

(* deleteAccountPlanById.  Mutant: the DELETE goes by the account.         *)
AccountUnlocked(g) == {h \in locks : AccountOf(h) # AccountOf(g)}
Unlocked(g) == locks \ {g}

(* A manual refresh of an eligible account looks at inFlight, ...          *)
RefreshAsks(g) ==
  /\ g \in Refreshers /\ gens[g] = "idle" /\ Wanted \notin inFlight
  /\ SerialChecks => \A h \in Refreshers : gens[h] \notin {"asked", "lock"}
  /\ At(g, "asked")
  /\ UNCHANGED <<jobs, drain, post, inFlight, locks, faults>>

(* ... then at the rows (hasActiveAccountPlanRefresh).                     *)
RefreshChecks(g) ==
  /\ gens[g] = "asked"
  /\ IF \E h \in locks : AccountOf(h) = Wanted
     THEN At(g, "idle") /\ UNCHANGED inFlight
     ELSE At(g, "lock") /\ inFlight' = inFlight \cup {Wanted}
  /\ UNCHANGED <<jobs, drain, post, locks, faults>>

(* The work on an item skips both looks.  An account that is not eligible  *)
(* counts as failed: no reason that checkExpand3Eligibility gives has one  *)
(* of the two texts by which the drain would tell that it was skipped.     *)
ItemBegins(g) ==
  /\ gens[g] = "begin"
  /\ \/ At(g, "lock") /\ inFlight' = inFlight \cup {AccountOf(g)}
     \/ At(g, "failed") /\ UNCHANGED inFlight
  /\ UNCHANGED <<jobs, drain, post, locks, faults>>

(* setAccountPlanRefreshingLock.                                           *)
Lock(g) ==
  /\ gens[g] = "lock"
  /\ locks' = locks \cup {g}
  /\ At(g, "work")
  /\ UNCHANGED <<jobs, drain, post, inFlight, faults>>

(* It has no id of the row to delete.                                      *)
LockFails(g) ==
  /\ gens[g] = "lock" /\ Fault
  /\ locks' \in {locks, locks \cup {g}}
  /\ Leave(g, "failed")
  /\ UNCHANGED <<jobs, drain, post>>

(* It collects, assembles and inserts the plan, or something throws.       *)
Work(g) ==
  /\ gens[g] = "work"
  /\ At(g, "unlock") \/ At(g, "undo")
  /\ UNCHANGED <<jobs, drain, post, inFlight, locks, faults>>

(* It deletes its row and reads the plan back.                             *)
Unlock(g) ==
  /\ gens[g] = "unlock"
  /\ locks' = Unlocked(g)
  /\ Leave(g, "succeeded")
  /\ UNCHANGED <<jobs, drain, post, faults>>

UnlockFails(g) ==
  /\ gens[g] = "unlock" /\ Fault
  /\ locks' \in {locks, Unlocked(g)}
  /\ At(g, "undo")
  /\ UNCHANGED <<jobs, drain, post, inFlight>>

(* The catch block; its DELETE may fail unnoticed.                         *)
Undo(g) ==
  /\ gens[g] = "undo"
  /\ \/ locks' = Unlocked(g) /\ UNCHANGED faults
     \/ Fault /\ UNCHANGED locks
  /\ Leave(g, "failed")
  /\ UNCHANGED <<jobs, drain, post>>

-----------------------------------------------------------------------------
(* The rest of the drain's work on one item.                               *)

(* updateBulkJobItem.  Mutant: an item that failed stays pending.          *)
MarkedIfDone(g) ==
  IF gens[g] = "failed" THEN jobs
  ELSE [jobs EXCEPT ![g[1]].items[g[2]] = "success"]
Marked(g) ==
  [jobs EXCEPT ![g[1]].items[g[2]] =
     IF gens[g] = "succeeded" THEN "success" ELSE "failed"]

(* The item's promise rejects, Promise.all with it: the drain ends, while  *)
(* its siblings go on.  Mutant: the drain also fails the job.              *)
RejectAndFail(g, js) ==
  /\ jobs' = IF drain.job = g[1] THEN [js EXCEPT ![g[1]].status = "failed"] ELSE js
  /\ At(g, "idle")
  /\ drain' = IF drain.job = g[1] THEN Off ELSE drain
Reject(g, js) ==
  /\ jobs' = js
  /\ At(g, "idle")
  /\ drain' = IF drain.job = g[1] THEN Off ELSE drain

(* With updateAccountPlanBulkJobProgress.                                  *)
Mark(g) ==
  /\ gens[g] \in {"succeeded", "failed"}
  /\ jobs' = Marked(g)
  /\ At(g, "idle")
  /\ UNCHANGED <<drain, post, inFlight, locks, faults>>

(* Inside the try block of the item the failure is marked instead.         *)
MarkFails(g) ==
  /\ gens[g] \in {"succeeded", "failed"} /\ Fault
  /\ \/ gens[g] = "succeeded" /\ jobs' \in {jobs, Marked(g)}
        /\ At(g, "failed") /\ UNCHANGED drain
     \/ gens[g] = "failed" /\ Reject(g, jobs)
     \/ Reject(g, Marked(g))
  /\ UNCHANGED <<post, inFlight, locks>>

GenStep(g) ==
  \/ RefreshChecks(g) \/ ItemBegins(g) \/ Lock(g) \/ Work(g) \/ Unlock(g)
  \/ Undo(g) \/ Mark(g)

-----------------------------------------------------------------------------
(* The server is restarted; nothing resumes a job.                         *)
Restart ==
  /\ Fault
  /\ drain' = Off
  /\ post' = [p \in Posts |-> [at |-> "idle", job |-> 0]]
  /\ gens' = [g \in Gens |-> "idle"]
  /\ inFlight' = {}
  /\ UNCHANGED <<jobs, locks>>

(* Two hours pass.  A generation takes less than half an hour, so the rows *)
(* that expire have been left behind.                                      *)
LocksExpire ==
  /\ jobs' = [j \in 1..Len(jobs) |->
                IF jobs[j].started = "recent" THEN [jobs[j] EXCEPT !.started = "old"]
                ELSE jobs[j]]
  /\ locks' = {g \in locks : gens[g] \in AtWork}
  /\ UNCHANGED <<drain, post, gens, inFlight, faults>>

PlansNext ==
  \/ \E p \in Posts : PostFindsNone(p) \/ PostInsertsJob(p) \/ PostInsertsItems(p)
                      \/ PostFails(p)
  \/ DrainStep \/ DrainFails \/ Restart \/ LocksExpire
  \/ \E g \in Gens : RefreshAsks(g) \/ GenStep(g) \/ LockFails(g)
                     \/ UnlockFails(g) \/ MarkFails(g)

PlansSpec == PlansInit /\ [][PlansNext]_plansVars

(* The event loop runs what is ready, queries are answered, and the HTTP   *)
(* clients of the collectors time out.                                     *)
PlansFairness ==
  WF_plansVars(DrainStep) /\ WF_plansVars(\E g \in Items : GenStep(g))

PlansLiveSpec == PlansSpec /\ PlansFairness

-----------------------------------------------------------------------------
(* Properties.                                                             *)

(* A finished bulk job has dealt with all its accounts, and its status is  *)
(* what became of them (the loop over batches and Promise.all).            *)
FinishedIsWhole ==
  \A j \in 1..Len(jobs) : jobs[j].status \in Finished =>
    /\ DOMAIN jobs[j].items = Accounts
    /\ WithStatus(j, "pending") = {}
    /\ jobs[j].status = "success" <=> WithStatus(j, "failed") = {}
    /\ jobs[j].status = "partial" => WithStatus(j, "success") # {}

(* What a finished job reports never changes: no sibling of an item that   *)
(* made a drain end reports into it later.                                 *)
FinishedIsFinal ==
  [][\A j \in 1..Len(jobs) : jobs[j].status \in Finished =>
       jobs'[j].status = jobs[j].status /\ jobs'[j].items = jobs[j].items]_plansVars

(* Two manual refreshes of an account never collect at the same time when  *)
(* their checks do not overlap, although a bulk job's generation takes the *)
(* account out of inFlight under the first (the row still holds).          *)
OneManualRefresh ==
  SerialChecks => Cardinality({g \in Refreshers : gens[g] \in Collecting}) <= 1

(* An account is refused for a reason: it is in inFlight only while a      *)
(* generation is at work on it, and so is its row unless a query failed or *)
(* the server was restarted.                                               *)
RefusedForCause ==
  \A a \in Accounts :
    (a \in inFlight \/ (faults = 0 /\ \E h \in locks : AccountOf(h) = a)) =>
      \E g \in Gens : AccountOf(g) = a /\ gens[g] \in AtWork

(* A bulk job that has been started ends unless a query fails or the       *)
(* server is restarted, however many of its generations fail.              *)
RunningJobs == {j \in 1..Len(jobs) : jobs[j].status = "running"}
StartedJobEnds == RunningJobs # {} ~> RunningJobs = {} \/ faults > 0

(* The invariant of the account plans.                                     *)
PlansInv == PlansTypeOK /\ FinishedIsWhole /\ OneManualRefresh /\ RefusedForCause
=============================================================================
