------------------------------- MODULE CtaJobs -------------------------------
(***************************************************************************)
(* The in-memory jobs of POST /api/ctas/generate and the child processes   *)
(* they stand for.  The handlers have no await, so each is one action; the *)
(* children, their close and error events, and time are the concurrency.   *)
(***************************************************************************)
EXTENDS Naturals, FiniteSets

CONSTANTS
  MaxJobs,        \* bound: jobs ever made
  MaxConcurrent,  \* CTA_JOB_MAX_CONCURRENT, 2
  MaxStored       \* CTA_JOB_MAX_STORED, 100

ASSUME CtaAssumption ==
  /\ MaxJobs \in Nat /\ MaxConcurrent \in Nat \ {0}
  /\ MaxStored \in Nat /\ MaxStored >= MaxConcurrent

Jobs == 1..MaxJobs      \* in the order of startedAt

VARIABLES
  status,     \* of the job object, which its listeners keep after eviction
  stored,     \* the ids in the map
  aged,       \* running: for over an hour; finished: for over two minutes
  before,     \* finished: the finished jobs in the map with an earlier finishedAt
  child,      \* its process, and how it ended
  held,       \* ids in childByJobId: stdout and stderr listeners attached
  killed      \* has it been sent SIGTERM?

vars == <<status, stored, aged, before, child, held, killed>>

JobStatuses == {"none", "running", "done", "error"}
Ends == {"exit0", "exit1", "spawnError"}

TypeOK ==
  /\ status \in [Jobs -> JobStatuses]
  /\ stored \subseteq {j \in Jobs : status[j] # "none"}
  /\ aged \in [Jobs -> BOOLEAN]
  /\ before \in [Jobs -> SUBSET stored]
  /\ child \in [Jobs -> {"none", "alive", "closed"} \cup Ends]
  /\ held \subseteq stored
  /\ killed \subseteq Jobs

Init ==
  /\ status = [j \in Jobs |-> "none"]
  /\ stored = {}
  /\ aged = [j \in Jobs |-> FALSE]
  /\ before = [j \in Jobs |-> {}]
  /\ child = [j \in Jobs |-> "none"]
  /\ held = {}
  /\ killed = {}

-----------------------------------------------------------------------------
(* pruneCtaJobs and reconcileStaleRunningJob, as functions of the store.   *)

Store == [status |-> status, stored |-> stored, aged |-> aged,
          before |-> before, held |-> held, killed |-> killed]

Becomes(m) ==
  /\ status' = m.status /\ stored' = m.stored /\ aged' = m.aged
  /\ before' = m.before /\ held' = m.held /\ killed' = m.killed

(* Some jobs leave the order of finishedAt.                                *)
Without(order, jobs) ==
  [j \in Jobs |-> IF j \in jobs THEN {} ELSE order[j] \ jobs]

(* Evict a set: their children are detached, and killed while they run.    *)
(* Mutants: detached only; the row alone.                                  *)
EvictRow(m, gone) ==
  [m EXCEPT !.stored = @ \ gone, !.before = Without(@, gone)]
EvictAndDetach(m, gone) ==
  [m EXCEPT !.stored = @ \ gone, !.held = @ \ gone,
            !.before = Without(@, gone)]
Evict(m, gone) ==
  [m EXCEPT !.stored = @ \ gone, !.held = @ \ gone,
            !.before = Without(@, gone),
            !.killed = @ \cup {j \in gone \cap m.held : child[j] = "alive"}]

Expired(m) == {j \in m.stored : m.status[j] # "running" /\ m.aged[j]}

(* The finished jobs that the size cap evicts, oldest first.  Mutant: the  *)
(* oldest of all jobs.                                                     *)
SurplusAny(m) ==
  {j \in m.stored : Cardinality({i \in m.stored : i > j}) >= MaxStored}
Surplus(m) ==
  {j \in m.stored :
     /\ m.status[j] # "running"
     /\ Cardinality(m.before[j]) + MaxStored < Cardinality(m.stored)}

Pruned(m) ==
  LET kept == Evict(m, Expired(m))
  IN  Evict(kept, Surplus(kept))

(* A job running for over an hour is marked failed; its child is left.     *)
Running(m) == {j \in m.stored : m.status[j] = "running"}
Over(m) == m.stored \ Running(m)
Stale(m) == {j \in Running(m) : m.aged[j]}

Reconciled(m, jobs) ==
  LET late == Stale(m) \cap jobs
  IN  [m EXCEPT !.status = [j \in Jobs |-> IF j \in late THEN "error" ELSE @[j]],
                !.aged = [j \in Jobs |-> IF j \in late THEN FALSE ELSE @[j]],
                !.before = [j \in Jobs |->
                  IF j \in late THEN Over(m) \cup {i \in late : i < j} ELSE @[j]]]

Counted == LET m == Pruned(Store) IN Reconciled(m, m.stored)

-----------------------------------------------------------------------------
(* POST.  Mutant: the count is of the jobs before this one and may equal   *)
(* the limit.                                                              *)
HasRoomForOne(m) == Cardinality(Running(m)) <= MaxConcurrent
HasRoom(m) == Cardinality(Running(m)) < MaxConcurrent

Post(j) ==
  /\ status[j] = "none"
  /\ \A i \in Jobs : i < j => status[i] # "none"
  /\ LET m == Counted
         p == Pruned(m)
     IN  IF HasRoom(m)
         THEN /\ Becomes([p EXCEPT !.status[j] = "running",
                                   !.stored = @ \cup {j}, !.held = @ \cup {j}])
              /\ child' = [child EXCEPT ![j] = "alive"]
         ELSE Becomes(m) /\ UNCHANGED child

(* GET with and without a job id: both prune; one reconciles the job it    *)
(* returns, the other the running jobs, newest first, up to the first that *)
(* is not stale, and those before that one are no older.                   *)
GetOne(j) ==
  /\ j \in stored
  /\ Becomes(Reconciled(Pruned(Store), {j}))
  /\ UNCHANGED child

GetActive ==
  /\ LET m == Pruned(Store)
     IN  Becomes(IF Running(m) = Stale(m) THEN Reconciled(m, Jobs) ELSE m)
  /\ UNCHANGED child

-----------------------------------------------------------------------------
(* The child process exits, or was never spawned; later its close or error *)
(* event writes the job, whatever the job's status has become.             *)
ChildEnds(j) ==
  /\ child[j] = "alive"
  /\ \E e \in Ends : child' = [child EXCEPT ![j] = e]
  /\ UNCHANGED <<status, stored, aged, before, held, killed>>

(* Mutant: the exit code is not looked at.                                 *)
AlwaysDone(e) == "done"
Outcome(e) == IF e = "exit0" THEN "done" ELSE "error"

ChildReported(j) ==
  /\ child[j] \in Ends
  /\ child' = [child EXCEPT ![j] = "closed"]
  /\ status' = [status EXCEPT ![j] = Outcome(child[j])]
  /\ aged' = [aged EXCEPT ![j] = FALSE]
  /\ before' = IF j \in stored
               THEN [Without(before, {j}) EXCEPT ![j] = Over(Store) \ {j}]
               ELSE before
  /\ held' = held \ {j}
  /\ UNCHANGED <<stored, killed>>

(* Time passes first for the jobs that have waited longest.                *)
LongestFirst(j) ==
  IF status[j] = "running" THEN \A i \in Running(Store) : i < j => aged[i]
  ELSE \A i \in before[j] : aged[i]

(* Mutant: only finished jobs grow old.                                    *)
FinishedAges(j) ==
  /\ j \in stored /\ ~aged[j] /\ LongestFirst(j) /\ status[j] # "running"
  /\ aged' = [aged EXCEPT ![j] = TRUE]
  /\ UNCHANGED <<status, stored, before, child, held, killed>>
TimePasses(j) ==
  /\ j \in stored /\ ~aged[j] /\ LongestFirst(j)
  /\ aged' = [aged EXCEPT ![j] = TRUE]
  /\ UNCHANGED <<status, stored, before, child, held, killed>>

Next ==
  \/ GetActive
  \/ \E j \in Jobs : \/ Post(j) \/ GetOne(j) \/ ChildEnds(j)
                     \/ ChildReported(j) \/ TimePasses(j)

Spec == Init /\ [][Next]_vars

(* The close and error events of processes that ended are delivered, and   *)
(* time passes.  Nobody is assumed to ask: a page polls a job for 40       *)
(* minutes at most (cta-generation-job-watch.ts), and a process may hang.  *)
Fairness == \A j \in Jobs : WF_vars(ChildReported(j)) /\ WF_vars(TimePasses(j))
FairSpec == Spec /\ Fairness

-----------------------------------------------------------------------------
(* Properties.                                                             *)

Alive == {j \in Jobs : child[j] = "alive"}

(* At most MaxConcurrent jobs are shown as running, through reconciliation,*)
(* eviction and late events.                                               *)
RunningBounded == Cardinality(Running(Store)) <= MaxConcurrent

(* A process that is alive can still be found through its job's row or has *)
(* been told to stop: eviction never loses one (disposeCtaJobChild).       *)
AliveIsTracked == Alive \subseteq held \cup killed

(* A job that shows "done" has a process that exited with code 0; an error *)
(* may still turn into that, but nothing turns back to running.            *)
DoneIsTrue ==
  [][\A j \in Jobs : /\ status'[j] = "done" /\ status[j] # "done" => child[j] = "exit0"
                     /\ status[j] \in {"done", "error"} => status'[j] # "running"]_vars

(* No running job is evicted.                                              *)
RunningIsKept ==
  [][\A j \in stored : status[j] = "running" /\ ~aged[j] => j \in stored']_vars

(* A job whose process has ended is not left running, whatever became of  *)
(* its row meanwhile.                                                      *)
ReportedJobEnds == \A j \in Jobs : status[j] = "running" /\ child[j] \in Ends ~> status[j] # "running"

(* Processes that hang do not keep generation from starting for ever: by   *)
(* and by a POST would find room, though nobody has asked for their jobs   *)
(* since, and those may go on showing as running until then.               *)
RoomReturns == []<>HasRoom(Counted)

(* The invariant of the CTA jobs.                                          *)
CtaJobsInv == TypeOK /\ RunningBounded /\ AliveIsTracked
=============================================================================
