-------------------------- MODULE RefreshQueueProofs --------------------------
(***************************************************************************)
(* Proofs about the refresh queue for any numbers of workers, tools, POST  *)
(* handlers, jobs, runs and crashes, and any retention.                    *)
(***************************************************************************)
EXTENDS RefreshQueue, FiniteSetTheorems, TLAPS

-----------------------------------------------------------------------------
(* Type correctness.                                                       *)

(* No run has the nil uuid: completeJob refuses to write it into a job.    *)
LEMMA NilUuidIsNoRun == ~RunExists(NilUuid)
  BY QueueAssumption DEF RunExists, NilUuid, Runs

(* The empty tables and the stopped processes are well typed.              *)
LEMMA InitType == Init => TypeOK
  BY QueueAssumption DEF Init, TypeOK, JobStatuses, RunStatuses, Null

(* The POST handler keeps the types.                                       *)
LEMMA PostType ==
  ASSUME TypeOK, NEW c \in Clients, PostStep(c) PROVE TypeOK'
  <1> USE QueueAssumption DEF TypeOK, JobStatuses, tables, workers
  <1>2. CASE PostFindsNone(c)
    BY <1>2 DEF PostFindsNone
  <1>3. CASE PostInsert(c)
    BY <1>3 DEF PostInsert
  <1>4. CASE PostNotify(c)
    BY <1>4 DEF PostNotify
  <1>5. CASE PostDies(c)
    BY <1>5 DEF PostDies
  <1>6. QED
    BY <1>2, <1>3, <1>4, <1>5 DEF PostStep

(* completeJob writes only existing runs and known statuses.               *)
LEMMA CompleteJobType ==
  ASSUME TypeOK, NEW j, NEW r, NEW s \in JobStatuses, CompleteJob(j, r, s)
  PROVE  /\ jobStatus' \in [Jobs -> JobStatuses]
         /\ jobRun' \in [Jobs -> Runs \cup {Null}]
  <1>1. \A k \in Jobs : k \in UpdatedRows(j, r) => r \in Runs
    BY DEF UpdatedRows, RunExists
  <1>2. QED
    BY <1>1 DEF TypeOK, CompleteJob

(* The steps of a worker outside runRefresh keep the types.                *)
LEMMA WorkerType ==
  ASSUME TypeOK, NEW w \in Workers, Boot(w) \/ WorkerStep(w) \/ Notified(w)
  PROVE  TypeOK'
  <1>0. w \in Procs
    BY DEF Procs
  <1> USE <1>0, QueueAssumption
      DEF TypeOK, tables, workers, Goto, Draining, Refreshing
  <1>1. CASE Boot(w)
    BY <1>1 DEF Boot
  <1>2. CASE Reap(w)
    BY <1>2 DEF Reap, JobStatuses
  <1>3. CASE ReapFails(w)
    BY <1>3 DEF ReapFails
  <1>4. CASE Claim(w)
    BY <1>4 DEF Claim, JobStatuses
  <1>5. CASE ClaimNone(w)
    BY <1>5 DEF ClaimNone
  <1>6. CASE DrainEnds(w)
    BY <1>6 DEF DrainEnds
  <1>7. CASE Listen(w)
    BY <1>7 DEF Listen
  <1>8. CASE Complete(w)
    <2>1. /\ jobStatus' \in [Jobs -> JobStatuses]
          /\ jobRun' \in [Jobs -> Runs \cup {Null}]
      BY <1>8, CompleteJobType DEF Complete, JobStatuses
    <2>2. QED
      BY <1>8, <2>1 DEF Complete
  <1>9. CASE AuditFailed(w)
    BY <1>9 DEF AuditFailed
  <1>10. CASE MarkFailed(w)
    <2>1. /\ jobStatus' \in [Jobs -> JobStatuses]
          /\ jobRun' \in [Jobs -> Runs \cup {Null}]
      BY <1>10, CompleteJobType DEF MarkFailed, JobStatuses
    <2>2. QED
      BY <1>10, <2>1 DEF MarkFailed
  <1>11. CASE Notified(w)
    BY <1>11 DEF Notified
  <1>12. QED
    BY <1>1, <1>2, <1>3, <1>4, <1>5, <1>6, <1>7, <1>8, <1>9, <1>10, <1>11
       DEF WorkerStep

(* The steps of runRefresh keep the types.                                 *)
LEMMA RunType ==
  ASSUME TypeOK, NEW p \in Procs, RunStep(p) \/ Crash(p) PROVE TypeOK'
  <1> USE QueueAssumption DEF TypeOK, tables, workers, Goto, Draining,
          Refreshing
  <1>1. CASE StartRun(p)
    BY <1>1 DEF StartRun, RunStatuses
  <1>2. CASE Attach(p)
    BY <1>2 DEF Attach, RunExists
  <1>3. CASE AttachFails(p)
    BY <1>3 DEF AttachFails
  <1>4. CASE Publish(p)
    BY <1>4 DEF Publish, RunStatuses
  <1>5. CASE PruneUnlink(p)
    BY <1>5 DEF PruneUnlink
  <1>6. CASE PruneDelete(p)
    BY <1>6 DEF PruneDelete, Return, RunStatuses
  <1>7. CASE PruneRefused(p)
    BY <1>7 DEF PruneRefused, Fail
  <1>8. CASE Throw(p)
    BY <1>8 DEF Throw, Fail
  <1>9. CASE Crash(p)
    BY <1>9 DEF Crash
  <1>10. QED
    BY <1>1, <1>2, <1>3, <1>4, <1>5, <1>6, <1>7, <1>8, <1>9 DEF RunStep

(* TypeOK is inductive by itself.                                          *)
LEMMA NextType == ASSUME TypeOK, [Next]_vars PROVE TypeOK'
  <1>1. CASE \E c \in Clients : PostStep(c)
    BY <1>1, PostType
  <1>2. CASE \E w \in Workers : Boot(w) \/ WorkerStep(w) \/ Notified(w)
    BY <1>2, WorkerType
  <1>3. CASE \E t \in Tools : StartTool(t)
    BY <1>3 DEF StartTool, TypeOK, tables, Goto, Draining, Refreshing,
                Procs
  <1>4. CASE \E p \in Procs : RunStep(p) \/ Crash(p)
    BY <1>4, RunType
  <1>5. CASE \E j \in Jobs : HourPasses(j)
    BY <1>5 DEF HourPasses, TypeOK, workers
  <1>6. CASE UNCHANGED vars
    BY <1>6 DEF vars, TypeOK
  <1>7. QED
    BY <1>1, <1>2, <1>3, <1>4, <1>5, <1>6 DEF Next

(* Every variable of the queue keeps its type: job and run ids stay within *)
(* the rows that were inserted, and a completion never writes the nil run. *)
THEOREM TypeCorrect == Spec => []TypeOK
  BY InitType, NextType, PTL DEF Spec

-----------------------------------------------------------------------------
(* The steps seen from the jobs: what can happen to a row of refresh_jobs  *)
(* and to the jobs that the processes hold.                                *)

Unmoved ==
  /\ jobStatus' = jobStatus /\ stale' = stale
  /\ \A p \in Procs : job'[p] \in {job[p], Null}

Ages(j) ==
  /\ LongRuns \/ ~Owned(j)
  /\ stale' = [stale EXCEPT ![j] = TRUE]
  /\ jobStatus' = jobStatus /\ job' = job

Enqueues(j) ==
  /\ jobStatus[j] = "none"
  /\ \A k \in Jobs : k < j => jobStatus[k] # "none"
  /\ jobStatus' = [jobStatus EXCEPT ![j] = "queued"]
  /\ job' = job /\ stale' = stale

Claims(w, j) ==
  /\ OldestQueued(j)
  /\ jobStatus' = [jobStatus EXCEPT ![j] = "running"]
  /\ stale' = [stale EXCEPT ![j] = FALSE]
  /\ job' = [job EXCEPT ![w] = j]

Reaps ==
  /\ jobStatus' = [j \in Jobs |-> IF Reapable(j) THEN "failed"
                                                 ELSE jobStatus[j]]
  /\ job' = job /\ stale' = stale

Succeeds(w) ==
  /\ job[w] # Null
  /\ jobStatus' = [jobStatus EXCEPT ![job[w]] = "success"]
  /\ job' = [job EXCEPT ![w] = Null]
  /\ stale' = stale

(* A worker's steps are of these kinds; a failed job never moves, because  *)
(* the foreign key refuses the nil run.                                    *)
LEMMA WorkerKind ==
  ASSUME TypeOK, NEW w \in Workers, Boot(w) \/ WorkerStep(w) \/ Notified(w)
  PROVE  \/ Unmoved
         \/ Reaps
         \/ \E j \in Jobs : Claims(w, j)
         \/ Succeeds(w)
  <1>0. w \in Procs
    BY DEF Procs
  <1> USE <1>0 DEF TypeOK, tables
  <1>1. CASE Reap(w)
    BY <1>1 DEF Reap, Reaps
  <1>2. CASE Claim(w)
    BY <1>2 DEF Claim, Claims
  <1>3. CASE Complete(w)
    <2>1. CASE RunExists(run[w]) /\ job[w] # Null
      <3>1. jobStatus' = [jobStatus EXCEPT ![job[w]] = "success"]
        BY <1>3, <2>1 DEF Complete, CompleteJob, UpdatedRows
      <3>2. QED
        BY <1>3, <2>1, <3>1 DEF Complete, Succeeds
    <2>2. CASE ~(RunExists(run[w]) /\ job[w] # Null)
      <3>1. \A k \in Jobs : k \notin UpdatedRows(job[w], run[w])
        BY <2>2 DEF UpdatedRows, Null, Jobs
      <3>2. jobStatus' = jobStatus
        BY <1>3, <3>1 DEF Complete, CompleteJob
      <3>3. QED
        BY <1>3, <3>2 DEF Complete, Unmoved
    <2>3. QED
      BY <2>1, <2>2
  <1>4. CASE MarkFailed(w)
    <2>1. jobStatus' = jobStatus
      BY <1>4, NilUuidIsNoRun DEF MarkFailed, CompleteJob, UpdatedRows
    <2>2. QED
      BY <1>4, <2>1 DEF MarkFailed, Unmoved
  <1>5. CASE Boot(w) \/ ReapFails(w) \/ ClaimNone(w) \/ DrainEnds(w)
               \/ Listen(w) \/ AuditFailed(w) \/ Notified(w)
    BY <1>5 DEF Boot, ReapFails, ClaimNone, DrainEnds, Listen, AuditFailed,
                Notified, Unmoved
  <1>6. QED
    BY <1>1, <1>2, <1>3, <1>4, <1>5 DEF WorkerStep

(* A POST enqueues a job or leaves them alone.                             *)
LEMMA PostKind ==
  ASSUME TypeOK, NEW c \in Clients, PostStep(c)
  PROVE  Unmoved \/ \E j \in Jobs : Enqueues(j)
  BY DEF PostStep, PostFindsNone, PostInsert, PostNotify, PostDies,
         Unmoved, Enqueues, tables, workers

(* runRefresh never changes the status of a job.                           *)
LEMMA RunKind ==
  ASSUME TypeOK, NEW p \in Procs, RunStep(p) \/ Crash(p) PROVE Unmoved
  <1> USE DEF TypeOK, tables, Unmoved
  <1>1. CASE StartRun(p) \/ Attach(p) \/ AttachFails(p) \/ Publish(p)
    BY <1>1 DEF StartRun, Attach, AttachFails, Publish
  <1>2. CASE PruneUnlink(p) \/ PruneDelete(p) \/ PruneRefused(p) \/ Throw(p)
    BY <1>2 DEF PruneUnlink, PruneDelete, PruneRefused, Throw
  <1>3. CASE Crash(p)
    BY <1>3 DEF Crash
  <1>4. QED
    BY <1>1, <1>2, <1>3 DEF RunStep

(* Every step of the queue is of one of the six kinds.                     *)
LEMMA StepKind ==
  ASSUME TypeOK, [Next]_vars
  PROVE  \/ Unmoved
         \/ \E j \in Jobs : Ages(j)
         \/ \E j \in Jobs : Enqueues(j)
         \/ \E w \in Workers, j \in Jobs : Claims(w, j)
         \/ Reaps
         \/ \E w \in Workers : Succeeds(w)
  <1>1. CASE \E c \in Clients : PostStep(c)
    BY <1>1, PostKind
  <1>2. CASE \E w \in Workers : Boot(w) \/ WorkerStep(w) \/ Notified(w)
    BY <1>2, WorkerKind
  <1>3. CASE \E p \in Procs : RunStep(p) \/ Crash(p)
    BY <1>3, RunKind
  <1>4. CASE (\E t \in Tools : StartTool(t)) \/ UNCHANGED vars
    BY <1>4 DEF StartTool, vars, tables, Unmoved
  <1>5. CASE \E j \in Jobs : HourPasses(j)
    BY <1>5 DEF HourPasses, workers, Ages
  <1>6. QED
    BY <1>1, <1>2, <1>3, <1>4, <1>5 DEF Next

-----------------------------------------------------------------------------
(* Every job is handed out at most once, to one worker, in order.          *)

(* What a process holds has left the queue.                                *)
HeldLeftQueue ==
  \A p \in Procs :
    job[p] # Null => jobStatus[job[p]] \notin {"none", "queued"}

(* The rows not yet inserted are the last ones.                            *)
InsertedInOrder ==
  \A j, k \in Jobs : k < j /\ jobStatus[j] # "none" => jobStatus[k] # "none"

(* Only workers hold jobs, and no two of them the same one.                *)
OneHolder ==
  \A p, q \in Procs : job[p] = job[q] /\ job[p] # Null => p = q

HandOutInv == HeldLeftQueue /\ InsertedInOrder /\ OneHolder /\ ClaimedInOrder

LEMMA HandOutStep ==
  ASSUME TypeOK, TypeOK', HandOutInv, [Next]_vars PROVE HandOutInv'
  <1> USE DEF TypeOK, HandOutInv, HeldLeftQueue, InsertedInOrder, OneHolder,
              ClaimedInOrder
  <1>1. CASE Unmoved \/ \E j \in Jobs : Ages(j)
    BY <1>1 DEF Unmoved, Ages
  <1>2. ASSUME NEW j \in Jobs, Enqueues(j) PROVE HandOutInv'
    BY <1>2 DEF Enqueues, Jobs
  <1>3. ASSUME NEW w \in Workers, NEW j \in Jobs, Claims(w, j)
        PROVE  HandOutInv'
    <2>1. HeldLeftQueue' /\ InsertedInOrder' /\ ClaimedInOrder'
      BY <1>3 DEF Claims, OldestQueued, Jobs, Procs
    <2>2. \A p \in Procs : job[p] # j
      <3>1. j # Null /\ jobStatus[j] = "queued"
        BY <1>3 DEF Claims, OldestQueued, Null, Jobs
      <3>2. QED
        BY <3>1
    <2>3. OneHolder'
      BY <1>3, <2>2 DEF Claims, Procs
    <2>4. QED
      BY <2>1, <2>3
  <1>4. CASE Reaps
    BY <1>4 DEF Reaps, Reapable
  <1>5. ASSUME NEW w \in Workers, Succeeds(w) PROVE HandOutInv'
    BY <1>5 DEF Succeeds, Procs
  <1>6. QED
    BY <1>1, <1>2, <1>3, <1>4, <1>5, StepKind

LEMMA HandOutAlways == Spec => [](TypeOK /\ HandOutInv)
  <1>1. Init => HandOutInv
    BY DEF Init, HandOutInv, HeldLeftQueue, InsertedInOrder, OneHolder,
           ClaimedInOrder
  <1>2. TypeOK /\ HandOutInv /\ [Next]_vars => TypeOK' /\ HandOutInv'
    BY NextType, HandOutStep
  <1>3. QED
    BY InitType, <1>1, <1>2, PTL DEF Spec

(* No job is ever worked on by two workers, whatever crashes, reboots,     *)
(* reaps and late completions happen in between.                           *)
THEOREM OneRunner == Spec => []OneRunnerPerJob
  <1>1. OneHolder => OneRunnerPerJob
    BY DEF OneHolder, OneRunnerPerJob, Procs
  <1>2. QED
    BY <1>1, HandOutAlways, PTL DEF HandOutInv

(* Jobs are claimed in the order in which they were enqueued.              *)
THEOREM InOrder == Spec => []ClaimedInOrder
  BY HandOutAlways, PTL DEF HandOutInv

-----------------------------------------------------------------------------
(* What a finished job and a live one report.                              *)

(* A finished job is never queued or running again, for any interleaving   *)
(* of claims, late completions and reaps.                                  *)
THEOREM FinishedIsFinal == Spec => FinishedStaysFinished
  <1>1. ASSUME TypeOK, [Next]_vars,
               NEW j \in Jobs, jobStatus[j] \in {"success", "failed"}
        PROVE  jobStatus'[j] \in {jobStatus[j], "success"}
    <2> USE <1>1 DEF TypeOK
    <2>1. CASE Unmoved \/ \E k \in Jobs : Ages(k)
      BY <2>1 DEF Unmoved, Ages
    <2>2. CASE \E k \in Jobs : Enqueues(k)
      BY <2>2 DEF Enqueues
    <2>3. CASE \E w \in Workers, k \in Jobs : Claims(w, k)
      BY <2>3 DEF Claims, OldestQueued
    <2>4. CASE Reaps
      BY <2>4 DEF Reaps, Reapable
    <2>5. CASE \E w \in Workers : Succeeds(w)
      BY <2>5 DEF Succeeds
    <2>6. QED
      BY <2>1, <2>2, <2>3, <2>4, <2>5, StepKind
  <1>2. TypeOK /\ [Next]_vars
          => [\A j \in Jobs : jobStatus[j] \in {"success", "failed"}
                => jobStatus'[j] \in {jobStatus[j], "success"}]_vars
    BY <1>1
  <1>3. QED
    BY <1>2, TypeCorrect, PTL DEF Spec, FinishedStaysFinished

(* What a process works on is running, or was reaped as stale; it is stale *)
(* only if refreshes may take so long.                                     *)
HeldIsLive ==
  \A p \in Procs : job[p] # Null =>
    /\ jobStatus[job[p]] = "running" \/ stale[job[p]]
    /\ stale[job[p]] => LongRuns

LEMMA HeldIsLiveStep ==
  ASSUME TypeOK, TypeOK', HandOutInv, HeldIsLive, [Next]_vars
  PROVE  HeldIsLive'
  <1> SUFFICES ASSUME NEW p \in Procs, job'[p] # Null
               PROVE  /\ jobStatus'[job'[p]] = "running" \/ stale'[job'[p]]
                      /\ stale'[job'[p]] => LongRuns
    BY DEF HeldIsLive
  <1> USE DEF TypeOK, HeldIsLive, HandOutInv, HeldLeftQueue, OneHolder
  <1>0. job'[p] \in Jobs
    OBVIOUS
  <1>1. CASE Unmoved
    BY <1>0, <1>1 DEF Unmoved
  <1>2. CASE \E j \in Jobs : Ages(j)
    BY <1>0, <1>2 DEF Ages, Owned
  <1>3. CASE \E j \in Jobs : Enqueues(j)
    BY <1>0, <1>3 DEF Enqueues
  <1>4. CASE \E w \in Workers, j \in Jobs : Claims(w, j)
    BY <1>0, <1>4 DEF Claims, Procs
  <1>5. CASE Reaps
    BY <1>0, <1>5 DEF Reaps, Reapable
  <1>6. CASE \E w \in Workers : Succeeds(w)
    BY <1>0, <1>6 DEF Succeeds, Procs
  <1>7. QED
    BY <1>1, <1>2, <1>3, <1>4, <1>5, <1>6, StepKind

(* The row of a live job says running, for any number of workers that boot *)
(* and reap, unless its refresh outlived the cutoff.                       *)
THEOREM LiveJobsShow == Spec => []LiveJobShowsRunning
  <1>1. Init => HeldIsLive
    BY DEF Init, HeldIsLive
  <1>2. TypeOK /\ TypeOK' /\ HandOutInv /\ HeldIsLive /\ [Next]_vars
          => HeldIsLive'
    BY HeldIsLiveStep
  <1>3. HeldIsLive => LiveJobShowsRunning
    BY DEF HeldIsLive, LiveJobShowsRunning, Procs
  <1>4. QED
    BY <1>1, <1>2, <1>3, TypeCorrect, HandOutAlways, PTL DEF Spec

-----------------------------------------------------------------------------
(* The queue implements WorkQueue.                                         *)

THEOREM QueueImplementsWorkQueue == Spec => ImplementsWorkQueue
  <1>1. Init => Promise!WQInit
    BY DEF Init, Promise!WQInit, Promise!Jobs, Jobs, PhaseOf
  <1>2. ASSUME TypeOK, TypeOK', HandOutInv, [Next]_vars
        PROVE  [Promise!WQNext]_([j \in Jobs |-> PhaseOf(jobStatus[j])])
    <2>0. Promise!Jobs = Jobs
      BY DEF Promise!Jobs, Jobs
    <2>1. CASE Unmoved \/ \E j \in Jobs : Ages(j)
      BY <2>1 DEF Unmoved, Ages
    <2>2. ASSUME NEW j \in Jobs, Enqueues(j)
          PROVE  Promise!Submit(j)
      BY <1>2, <2>0, <2>2
         DEF Enqueues, Promise!Submit, TypeOK, PhaseOf, JobStatuses
    <2>3. ASSUME NEW w \in Workers, NEW j \in Jobs, Claims(w, j)
          PROVE  Promise!HandOut(j)
      BY <1>2, <2>0, <2>3 DEF Claims, OldestQueued, Promise!HandOut, TypeOK,
                              PhaseOf, JobStatuses
    <2>4. ASSUME Reaps PROVE \E S \in SUBSET Promise!Jobs : Promise!Close(S)
      <3> DEFINE S == {j \in Jobs : Reapable(j)}
      <3>1. Promise!Close(S)
        BY <1>2, <2>0, <2>4 DEF Reaps, Reapable, Promise!Close, TypeOK,
                                PhaseOf, JobStatuses
      <3>2. S \in SUBSET Promise!Jobs
        BY <2>0
      <3>3. QED
        BY <3>1, <3>2
    <2>5. ASSUME NEW w \in Workers, Succeeds(w),
                 jobStatus[job[w]] = "running"
          PROVE  \E S \in SUBSET Promise!Jobs : Promise!Close(S)
      <3>1. job[w] \in Jobs
        BY <1>2, <2>5 DEF Succeeds, TypeOK, Procs
      <3>2. Promise!Close({job[w]})
        BY <1>2, <2>0, <2>5, <3>1 DEF Succeeds, Promise!Close, TypeOK,
                                      PhaseOf, JobStatuses
      <3>3. QED
        BY <2>0, <3>1, <3>2
    <2>6. ASSUME NEW w \in Workers, Succeeds(w),
                 jobStatus[job[w]] # "running"
          PROVE  \A j \in Jobs : PhaseOf(jobStatus'[j]) = PhaseOf(jobStatus[j])
      <3>1. job[w] \in Jobs /\ jobStatus[job[w]] \in {"success", "failed"}
        BY <1>2, <2>6 DEF Succeeds, HandOutInv, HeldLeftQueue, Procs, TypeOK,
                          JobStatuses
      <3>2. QED
        BY <1>2, <2>6, <3>1 DEF Succeeds, TypeOK, PhaseOf
    <2>7. Promise!WQNext
            \/ \A j \in Jobs : PhaseOf(jobStatus'[j]) = PhaseOf(jobStatus[j])
      <3>1. CASE \/ \E j \in Jobs : Enqueues(j)
                 \/ \E w \in Workers, j \in Jobs : Claims(w, j)
        BY <2>0, <2>2, <2>3, <3>1, Zenon DEF Promise!WQNext
      <3>2. CASE Reaps
        BY <2>4, <3>2, Zenon DEF Promise!WQNext
      <3>3. CASE \E w \in Workers : Succeeds(w)
        BY <2>5, <2>6, <3>3, Zenon DEF Promise!WQNext
      <3>4. CASE Unmoved \/ \E j \in Jobs : Ages(j)
        BY <3>4 DEF Unmoved, Ages
      <3>5. QED
        BY <1>2, <3>1, <3>2, <3>3, <3>4, StepKind
    <2>8. QED
      BY <2>7
  <1>3. QED
    BY <1>1, <1>2, HandOutAlways, TypeCorrect, PTL
       DEF Spec, ImplementsWorkQueue, Promise!WQSpec
-----------------------------------------------------------------------------
(* Coalescing, for POSTs that overlap.                                     *)

(* Only an INSERT makes a job active: a claim keeps it active, every other *)
(* change of status or age takes it away.                                  *)
LEMMA ActiveShrinks ==
  ASSUME TypeOK, [Next]_vars
  PROVE  \/ Active' \subseteq Active /\ post' = post
         \/ \E c \in Clients : \/ PostInsert(c)
                               \/ PostFindsNone(c)
                               \/ Active' = Active /\ post' = [post EXCEPT ![c] = "idle"]
  <1> USE DEF TypeOK, Active, tables
  <1>1. ASSUME NEW c \in Clients, PostStep(c)
        PROVE  \/ Active' \subseteq Active /\ post' = post
               \/ PostInsert(c)
               \/ PostFindsNone(c)
               \/ Active' = Active /\ post' = [post EXCEPT ![c] = "idle"]
    BY <1>1 DEF PostStep, PostNotify, PostDies
  <1>2. ASSUME NEW w \in Workers, Boot(w) \/ WorkerStep(w) \/ Notified(w)
        PROVE  Active' \subseteq Active /\ post' = post
    <2>1. CASE Claim(w)
      BY <2>1 DEF Claim, OldestQueued
    <2>2. CASE Reap(w)
      BY <2>2 DEF Reap
    <2>3. CASE Complete(w)
      BY <2>3 DEF Complete, CompleteJob
    <2>4. CASE MarkFailed(w)
      BY <2>4 DEF MarkFailed, CompleteJob
    <2>5. CASE Boot(w) \/ ReapFails(w) \/ ClaimNone(w) \/ DrainEnds(w)
                 \/ Listen(w) \/ AuditFailed(w) \/ Notified(w)
      BY <2>5 DEF Boot, ReapFails, ClaimNone, DrainEnds, Listen, AuditFailed,
                  Notified
    <2>6. QED
      BY <1>2, <2>1, <2>2, <2>3, <2>4, <2>5 DEF WorkerStep
  <1>3. ASSUME NEW p \in Procs, RunStep(p) \/ Crash(p)
        PROVE  Active' = Active /\ post' = post
    BY <1>3 DEF RunStep, StartRun, Attach, AttachFails, Publish, PruneUnlink,
                PruneDelete, PruneRefused, Throw, Crash
  <1>4. CASE \/ \E t \in Tools : StartTool(t)
             \/ \E j \in Jobs : HourPasses(j)
             \/ UNCHANGED vars
    BY <1>4 DEF StartTool, HourPasses, vars
  <1>5. QED
    BY <1>1, <1>2, <1>3, <1>4 DEF Next

(* The handlers that have found no active job and will insert one.         *)
Inserting == {c \in Clients : post[c] = "insert"}

(* Each of them may still add one to the jobs that are active.             *)
RoomForInserts ==
  Cardinality(Active) + Cardinality(Inserting) <= Cardinality(Clients)

(* What the two sets become when they only shrink, and when one client     *)
(* moves from the one to the other.                                        *)
LEMMA SetsAreFinite ==
  /\ IsFiniteSet(Active) /\ Cardinality(Active) \in Nat
  /\ IsFiniteSet(Inserting) /\ Cardinality(Inserting) \in Nat
  /\ Cardinality(Active') \in Nat
  /\ Cardinality(Inserting') \in Nat /\ Cardinality(Inserting') <= Cardinality(Clients)
  /\ Cardinality(Clients) \in Nat
  <1>1. IsFiniteSet(Jobs)
    BY QueueAssumption, FS_Interval, 1 \in Int, MaxJobs \in Int DEF Jobs
  <1>2. /\ Active \subseteq Jobs /\ Active' \subseteq Jobs
        /\ Inserting \subseteq Clients /\ Inserting' \subseteq Clients
    BY DEF Active, Inserting
  <1>3. QED
    BY <1>1, <1>2, QueueAssumption, FS_Subset, FS_CardinalityType

LEMMA NoMoreThan ==
  ASSUME NEW A, NEW B, IsFiniteSet(A), B \subseteq A
  PROVE  IsFiniteSet(B) /\ Cardinality(B) <= Cardinality(A)
  BY FS_Subset

LEMMA OneFewer ==
  ASSUME NEW A, IsFiniteSet(A), NEW x \in A
  PROVE  Cardinality(A \ {x}) = Cardinality(A) - 1
  BY FS_RemoveElement

LEMMA OneMore ==
  ASSUME NEW A, IsFiniteSet(A), NEW x
  PROVE  IsFiniteSet(A \cup {x}) /\ Cardinality(A \cup {x}) <= Cardinality(A) + 1
  <1>1. Cardinality(A) \in Nat
    BY FS_CardinalityType
  <1>2. QED
    BY <1>1, FS_AddElement

(* A POST goes on to its INSERT only when no job is active, and every      *)
(* INSERT uses up one handler's look-up; so the active jobs never exceed   *)
(* the handlers that were in flight together.                              *)
THEOREM OverlappingPostsCoalesce == Spec => []OverlapBoundsActive
  <1>1. Init => RoomForInserts
    <2>1. SUFFICES ASSUME Init PROVE RoomForInserts
      OBVIOUS
    <2>2. Active = {} /\ Inserting = {}
      BY <2>1 DEF Init, Active, Inserting
    <2>3. Cardinality(Active) = 0 /\ Cardinality(Inserting) = 0
      BY <2>2, FS_EmptySet, Zenon
    <2>4. QED
      BY <2>3, SetsAreFinite DEF RoomForInserts
  <1>2. ASSUME TypeOK, RoomForInserts, [Next]_vars PROVE RoomForInserts'
    <2>0. /\ IsFiniteSet(Active) /\ Cardinality(Active) \in Nat
          /\ IsFiniteSet(Inserting) /\ Cardinality(Inserting) \in Nat
          /\ Cardinality(Active') \in Nat /\ Cardinality(Inserting') \in Nat
          /\ Cardinality(Clients) \in Nat
      BY SetsAreFinite
    <2>1. CASE Active' \subseteq Active /\ Inserting' \subseteq Inserting
      <3>1. /\ Cardinality(Active') <= Cardinality(Active)
            /\ Cardinality(Inserting') <= Cardinality(Inserting)
        BY <2>0, <2>1, NoMoreThan
      <3>2. QED
        BY <1>2, <2>0, <3>1 DEF RoomForInserts
    <2>2. ASSUME NEW c \in Clients, PostInsert(c) PROVE RoomForInserts'
      <3>1. PICK j \in Jobs : jobStatus' = [jobStatus EXCEPT ![j] = "queued"]
        BY <2>2 DEF PostInsert
      <3>2. Active' \subseteq Active \cup {j}
        BY <1>2, <2>2, <3>1 DEF PostInsert, Active, TypeOK
      <3>3. c \in Inserting /\ Inserting' = Inserting \ {c}
        BY <1>2, <2>2 DEF PostInsert, Inserting, TypeOK
      <3>4. Cardinality(Active') <= Cardinality(Active) + 1
        <4>1. /\ IsFiniteSet(Active \cup {j})
              /\ Cardinality(Active \cup {j}) <= Cardinality(Active) + 1
          BY <2>0, OneMore
        <4>2. Cardinality(Active') <= Cardinality(Active \cup {j})
              /\ Cardinality(Active \cup {j}) \in Nat
          BY <3>2, <4>1, NoMoreThan, FS_CardinalityType
        <4>3. QED
          BY <2>0, <4>1, <4>2
      <3>5. Cardinality(Inserting') = Cardinality(Inserting) - 1
        <4>1. Cardinality(Inserting \ {c}) = Cardinality(Inserting) - 1
          BY <2>0, <3>3, OneFewer
        <4>2. QED
          BY <3>3, <4>1, Zenon
      <3>6. QED
        BY <1>2, <2>0, <3>4, <3>5 DEF RoomForInserts
    <2>3. ASSUME NEW c \in Clients, PostFindsNone(c) PROVE RoomForInserts'
      <3>1. Active' = {}
        BY <2>3 DEF PostFindsNone, tables, Active
      <3>2. Cardinality(Active') = 0
        BY <3>1, FS_EmptySet, Zenon
      <3>3. Cardinality(Inserting') <= Cardinality(Clients)
        BY SetsAreFinite
      <3>4. QED
        BY <2>0, <3>2, <3>3 DEF RoomForInserts
    <2>4. ASSUME NEW c \in Clients, Active' = Active,
                 post' = [post EXCEPT ![c] = "idle"]
          PROVE  RoomForInserts'
      BY <1>2, <2>1, <2>4 DEF TypeOK, Inserting
    <2>5. CASE Active' \subseteq Active /\ post' = post
      BY <2>1, <2>5 DEF Inserting
    <2>6. QED
      BY <1>2, <2>2, <2>3, <2>4, <2>5, ActiveShrinks
  <1>3. RoomForInserts => OverlapBoundsActive
    BY SetsAreFinite DEF RoomForInserts, OverlapBoundsActive
  <1>4. QED
    BY <1>1, <1>2, <1>3, TypeCorrect, PTL DEF Spec

-----------------------------------------------------------------------------
(* Pruning is never refused when one process refreshes at a time.          *)

LEMMA PrunableOfRunStatus ==
  ASSUME runStatus' = runStatus PROVE Prunable' = Prunable
  BY DEF Prunable, Beyond, Newer, RunExists

(* A single process between the two queries of pruneOldRuns: it has just   *)
(* executed the first, or nobody touched the rows since.                   *)
LEMMA BetweenPruneQueries ==
  ASSUME TypeOK, [Next]_vars, \A p, q \in Procs : p = q,
         NEW p \in Procs, pc'[p] = "delete"
  PROVE  \/ PruneUnlink(p)
         \/ pc[p] = "delete" /\ UNCHANGED <<jobRun, runStatus>>
  <1> USE DEF TypeOK, tables, workers, Goto
  <1>1. CASE \E c \in Clients : PostStep(c)
    BY <1>1 DEF PostStep, PostFindsNone, PostInsert, PostNotify,
                PostDies
  <1>2. ASSUME NEW w \in Workers, Boot(w) \/ WorkerStep(w) \/ Notified(w)
        PROVE  pc[p] = "delete" /\ UNCHANGED <<jobRun, runStatus>>
    <2>1. w = p
      BY DEF Procs
    <2>2. Notified(w)
      BY <1>2, <2>1 DEF WorkerStep, Boot, Reap, ReapFails, Claim, ClaimNone,
            DrainEnds, Listen, Complete, AuditFailed, MarkFailed
    <2>3. QED
      BY <2>1, <2>2 DEF Notified
  <1>3. ASSUME NEW q \in Procs, RunStep(q) \/ Crash(q)
        PROVE  PruneUnlink(p)
    <2>1. q = p
      OBVIOUS
    <2>2. QED
      BY <1>3, <2>1 DEF RunStep, StartRun, Attach, AttachFails, Publish,
            PruneDelete, PruneRefused, Throw, Crash, Return, Fail
  <1>4. ASSUME NEW t \in Tools, StartTool(t) PROVE FALSE
    BY <1>4 DEF StartTool, Procs
  <1>5. CASE (\E j \in Jobs : HourPasses(j)) \/ UNCHANGED vars
    BY <1>5 DEF HourPasses, vars
  <1>6. QED
    BY <1>1, <1>2, <1>3, <1>4, <1>5 DEF Next

(* With one worker and no tool the DELETE of pruneOldRuns is never refused *)
(* by the foreign key, for any retention and any number of crashes.        *)
THEOREM LoneRefresherPrunes ==
  ASSUME \A p, q \in Procs : p = q
  PROVE  Spec => []PruneNotRefused
  <1>1. Init => PruneNotRefused
    BY DEF Init, PruneNotRefused
  <1>2. ASSUME TypeOK, PruneNotRefused, [Next]_vars PROVE PruneNotRefused'
    <2>1. SUFFICES ASSUME NEW p \in Procs, pc'[p] = "delete"
                   PROVE  ~PruneBlocked'
      BY DEF PruneNotRefused
    <2>2. CASE PruneUnlink(p)
      <3>1. Prunable' = Prunable
        BY <2>2, PrunableOfRunStatus DEF PruneUnlink
      <3>2. Null \notin Prunable
        BY DEF Prunable, Beyond, Null, Runs
      <3>3. \A j \in Jobs : jobRun'[j] \notin Prunable
        BY <2>2, <3>2 DEF PruneUnlink, Unlinked, Prunable
      <3>4. QED
        BY <3>1, <3>3 DEF PruneBlocked
    <2>3. CASE pc[p] = "delete" /\ UNCHANGED <<jobRun, runStatus>>
      BY <1>2, <2>3, PrunableOfRunStatus DEF PruneNotRefused, PruneBlocked
    <2>4. QED
      BY <1>2, <2>1, <2>2, <2>3, BetweenPruneQueries
  <1>3. QED
    BY <1>1, <1>2, TypeCorrect, PTL DEF Spec

-----------------------------------------------------------------------------
(* The links between refresh jobs and refresh runs, for any number of      *)
(* workers and tools that refresh and prune at the same time: the          *)
(* inductive invariant.                                                    *)

Started == {"attach", "pipeline", "prune", "delete", "complete"}
AtWork == Started \cup {"startRun", "auditFailed", "markFailed"}

(* A process holds a job or a run only while it works, a run from          *)
(* startRefreshRun on, and a tool never holds a job.                       *)
HoldsWhenAtWork ==
  \A p \in Procs :
    /\ p \notin Workers => job[p] = Null
    /\ pc[p] \notin AtWork => job[p] = Null /\ run[p] = Null
    /\ pc[p] \in Started => run[p] # Null
    /\ pc[p] = "attach" => job[p] # Null

(* Every run that a process or a job knows of has been inserted.           *)
KnownRunsOpened ==
  /\ \A p \in Procs : run[p] # Null => runStatus[run[p]] # "none"
  /\ \A j \in Jobs : jobRun[j] # Null => runStatus[jobRun[j]] # "none"

(* A run is written by one process, and linked only to that one's job.     *)
OneWriter == \A p, q \in Procs : run[p] = run[q] /\ run[p] # Null => p = q
LinkedByHolder ==
  \A p \in Procs, j \in Jobs :
    jobRun[j] = run[p] /\ run[p] # Null => job[p] = j

LinkInv == HoldsWhenAtWork /\ KnownRunsOpened /\ OneWriter /\ LinkedByHolder
             /\ OneJobPerRun

(* The steps after completeRefreshRun find the run completed, or pruned by *)
(* another process; and a job that is still held has not succeeded.        *)
WrittenRuns ==
  \A p \in Procs :
    pc[p] \in {"prune", "delete", "complete"}
      => runStatus[run[p]] \in Finished \cup {"pruned"}
HeldNotSuccess ==
  \A p \in Procs : job[p] # Null => jobStatus[job[p]] # "success"

PublishInv == WrittenRuns /\ HeldNotSuccess /\ SuccessIsPublished

-----------------------------------------------------------------------------
(* No two jobs share a run.                                                *)

LEMMA LinkWorker ==
  ASSUME TypeOK, LinkInv, NEW w \in Workers,
         Boot(w) \/ WorkerStep(w) \/ Notified(w)
  PROVE  LinkInv'
  <1>0. w \in Procs
    BY DEF Procs
  <1> USE <1>0 DEF TypeOK, LinkInv, HoldsWhenAtWork, KnownRunsOpened, OneWriter,
          LinkedByHolder, OneJobPerRun, Started, AtWork, tables, Goto
  <1>1. CASE Boot(w) \/ Reap(w) \/ ReapFails(w) \/ ClaimNone(w)
               \/ DrainEnds(w) \/ Listen(w) \/ AuditFailed(w) \/ Notified(w)
    BY <1>1 DEF Boot, Reap, ReapFails, ClaimNone, DrainEnds, Listen,
                AuditFailed, Notified
  <1>2. CASE Claim(w)
    BY <1>2 DEF Claim
  <1>3. CASE Complete(w)
    <2>1. CASE RunExists(run[w])
      <3>1. \A j \in Jobs :
              jobRun'[j] = IF j = job[w] THEN run[w] ELSE jobRun[j]
        BY <1>3, <2>1 DEF Complete, CompleteJob, UpdatedRows
      <3>2. run[w] # Null /\ run[w] \in Runs
        BY <2>1 DEF RunExists, Runs, Null
      <3>3. QED
        BY <1>3, <2>1, <3>1, <3>2 DEF Complete
    <2>2. CASE ~RunExists(run[w])
      <3>1. jobRun' = jobRun
        BY <1>3, <2>2 DEF Complete, CompleteJob, UpdatedRows
      <3>2. QED
        BY <1>3, <2>2, <3>1 DEF Complete
    <2>3. QED
      BY <2>1, <2>2
  <1>4. CASE MarkFailed(w)
    <2>1. jobRun' = jobRun
      BY <1>4, NilUuidIsNoRun DEF MarkFailed, CompleteJob, UpdatedRows
    <2>2. QED
      BY <1>4, <2>1 DEF MarkFailed
  <1>5. QED
    BY <1>1, <1>2, <1>3, <1>4 DEF WorkerStep

LEMMA LinkRun ==
  ASSUME TypeOK, LinkInv, NEW p \in Procs, RunStep(p) \/ Crash(p)
  PROVE  LinkInv'
  <1> USE DEF TypeOK, LinkInv, HoldsWhenAtWork, KnownRunsOpened, OneWriter,
          LinkedByHolder, OneJobPerRun, Started, AtWork, tables, Goto
  <1>1. CASE StartRun(p)
    <2>1. PICK r \in Runs : /\ runStatus[r] = "none"
                            /\ runStatus' = [runStatus EXCEPT ![r] = "running"]
                            /\ run' = [run EXCEPT ![p] = r]
      BY <1>1 DEF StartRun
    <2>2. r # Null
      BY DEF Runs, Null
    <2>3. /\ \A q \in Procs : run[q] # r
          /\ \A j \in Jobs : jobRun[j] # r
      BY <2>1, <2>2
    <2>4. UNCHANGED <<job, jobRun>> /\ pc[p] = "startRun"
          /\ pc' = [pc EXCEPT ![p] = IF job[p] = Null THEN "pipeline"
                                                      ELSE "attach"]
      BY <1>1 DEF StartRun
    <2>5. HoldsWhenAtWork' /\ KnownRunsOpened'
      BY <2>1, <2>2, <2>4
    <2>6. OneWriter' /\ LinkedByHolder' /\ OneJobPerRun'
      BY <2>1, <2>2, <2>3, <2>4
    <2>7. QED
      BY <2>5, <2>6
  <1>2. CASE Attach(p)
    BY <1>2 DEF Attach
  <1>3. CASE AttachFails(p)
    BY <1>3 DEF AttachFails
  <1>4. CASE Publish(p)
    <2>1. \A r \in Runs : runStatus[r] # "none" => runStatus'[r] # "none"
      BY <1>4 DEF Publish, Finished
    <2>2. QED
      BY <1>4, <2>1 DEF Publish
  <1>5. CASE PruneUnlink(p)
    <2>1. \A j \in Jobs : jobRun'[j] \in {jobRun[j], Null}
      BY <1>5 DEF PruneUnlink
    <2>2. QED
      BY <1>5, <2>1 DEF PruneUnlink
  <1>6. CASE PruneDelete(p)
    <2>1. \A r \in Runs : runStatus[r] # "none" => runStatus'[r] # "none"
      BY <1>6 DEF PruneDelete
    <2>2. QED
      BY <1>6, <2>1 DEF PruneDelete, Return
  <1>7. CASE PruneRefused(p)
    BY <1>7 DEF PruneRefused, Fail
  <1>8. CASE Throw(p)
    BY <1>8 DEF Throw, Fail
  <1>9. CASE Crash(p)
    BY <1>9 DEF Crash
  <1>10. QED
    BY <1>1, <1>2, <1>3, <1>4, <1>5, <1>6, <1>7, <1>8, <1>9 DEF RunStep

LEMMA LinkStep ==
  ASSUME TypeOK, LinkInv, [Next]_vars PROVE LinkInv'
  <1>1. CASE \E w \in Workers : Boot(w) \/ WorkerStep(w) \/ Notified(w)
    BY <1>1, LinkWorker
  <1>2. CASE \E p \in Procs : RunStep(p) \/ Crash(p)
    BY <1>2, LinkRun
  <1> USE DEF TypeOK, LinkInv, HoldsWhenAtWork, KnownRunsOpened, OneWriter,
          LinkedByHolder, OneJobPerRun, Started, AtWork, tables, workers
  <1>3. CASE \E c \in Clients : PostStep(c)
    BY <1>3 DEF PostStep, PostFindsNone, PostInsert, PostNotify, PostDies
  <1>4. CASE \E t \in Tools : StartTool(t)
    BY <1>4 DEF StartTool, Goto, Procs
  <1>5. CASE (\E j \in Jobs : HourPasses(j)) \/ UNCHANGED vars
    BY <1>5 DEF HourPasses, vars
  <1>6. QED
    BY <1>1, <1>2, <1>3, <1>4, <1>5 DEF Next

LEMMA LinkAlways == Spec => []LinkInv
  <1>1. Init => LinkInv
    BY DEF Init, LinkInv, HoldsWhenAtWork, KnownRunsOpened, OneWriter,
           LinkedByHolder, OneJobPerRun, Started, AtWork
  <1>2. TypeOK /\ LinkInv /\ [Next]_vars => LinkInv'
    BY LinkStep
  <1>3. QED
    BY <1>1, <1>2, TypeCorrect, PTL DEF Spec

(* No two jobs are ever joined to the same run, whichever processes        *)
(* refresh, attach, complete, prune and crash at the same time.            *)
THEOREM JobsHaveTheirOwnRuns == Spec => []OneJobPerRun
  BY LinkAlways, PTL DEF LinkInv

-----------------------------------------------------------------------------
(* A job reported as success shows a completed run.                        *)

LEMMA PublishWorker ==
  ASSUME TypeOK, HandOutInv, LinkInv, PublishInv, NEW w \in Workers,
         Boot(w) \/ WorkerStep(w) \/ Notified(w)
  PROVE  PublishInv'
  <1>0. w \in Procs
    BY DEF Procs
  <1> USE <1>0 DEF TypeOK, LinkInv, HoldsWhenAtWork, PublishInv, WrittenRuns,
          HeldNotSuccess, SuccessIsPublished, Started, tables, Goto
  <1>1. CASE Boot(w) \/ ReapFails(w) \/ ClaimNone(w) \/ DrainEnds(w)
               \/ Listen(w) \/ AuditFailed(w) \/ Notified(w)
    BY <1>1 DEF Boot, ReapFails, ClaimNone, DrainEnds, Listen, AuditFailed,
                Notified
  <1>2. CASE Reap(w)
    BY <1>2 DEF Reap
  <1>3. CASE Claim(w)
    BY <1>3 DEF Claim
  <1>4. CASE Complete(w)
    <2>1. CASE RunExists(run[w])
      <3>1. \A j \in Jobs :
              /\ jobRun'[j] = IF j = job[w] THEN run[w] ELSE jobRun[j]
              /\ jobStatus'[j] = IF j = job[w] THEN "success"
                                               ELSE jobStatus[j]
        BY <1>4, <2>1 DEF Complete, CompleteJob, UpdatedRows
      <3>2. runStatus[run[w]] \in Finished
        BY <1>4, <2>1 DEF Complete, RunExists
      <3>3. WrittenRuns'
        BY <1>4, <2>1 DEF Complete
      <3>4. HeldNotSuccess'
        BY <1>4, <2>1, <3>1 DEF Complete, HandOutInv, OneHolder
      <3>5. SuccessIsPublished'
        BY <1>4, <3>1, <3>2 DEF Complete
      <3>6. QED
        BY <3>3, <3>4, <3>5
    <2>2. CASE ~RunExists(run[w])
      <3>1. jobRun' = jobRun /\ jobStatus' = jobStatus
        BY <1>4, <2>2 DEF Complete, CompleteJob, UpdatedRows
      <3>2. QED
        BY <1>4, <2>2, <3>1 DEF Complete
    <2>3. QED
      BY <2>1, <2>2
  <1>5. CASE MarkFailed(w)
    <2>1. jobRun' = jobRun /\ jobStatus' = jobStatus
      BY <1>5, NilUuidIsNoRun DEF MarkFailed, CompleteJob, UpdatedRows
    <2>2. QED
      BY <1>5, <2>1 DEF MarkFailed
  <1>6. QED
    BY <1>1, <1>2, <1>3, <1>4, <1>5 DEF WorkerStep

LEMMA PublishRun ==
  ASSUME TypeOK, LinkInv, PublishInv, NEW p \in Procs, RunStep(p) \/ Crash(p)
  PROVE  PublishInv'
  <1> USE DEF TypeOK, LinkInv, HoldsWhenAtWork, PublishInv, WrittenRuns,
          HeldNotSuccess, SuccessIsPublished, Started, tables, Goto
  <1>1. CASE StartRun(p)
    <2>1. PICK r \in Runs : /\ runStatus[r] = "none"
                            /\ runStatus' = [runStatus EXCEPT ![r] = "running"]
                            /\ run' = [run EXCEPT ![p] = r]
      BY <1>1 DEF StartRun
    <2>2. \A j \in Jobs : jobRun[j] # r \/ jobRun[j] = Null
      BY <2>1 DEF KnownRunsOpened
    <2>3. \A q \in Procs : pc'[q] \in {"prune", "delete", "complete"}
                             => q # p /\ pc'[q] = pc[q] /\ run[q] # r
      BY <1>1, <2>1 DEF StartRun, Finished
    <2>4. UNCHANGED <<jobStatus, jobRun, job>>
      BY <1>1 DEF StartRun
    <2>5. WrittenRuns'
      BY <2>1, <2>3
    <2>6. HeldNotSuccess' /\ SuccessIsPublished'
      BY <2>1, <2>2, <2>4
    <2>7. QED
      BY <2>5, <2>6
  <1>2. CASE Attach(p)
    BY <1>2 DEF Attach
  <1>3. CASE AttachFails(p)
    BY <1>3 DEF AttachFails
  <1>4. CASE Publish(p)
    <2>1. \A r \in Runs : runStatus'[r] # runStatus[r]
                            => r = run[p] /\ runStatus'[r] \in Finished
      BY <1>4 DEF Publish
    <2>2. runStatus'[run[p]] \in Finished \cup {"pruned"}
      BY <1>4 DEF Publish, RunExists, KnownRunsOpened
    <2>3. QED
      BY <1>4, <2>1, <2>2 DEF Publish
  <1>5. CASE PruneUnlink(p)
    <2>1. \A j \in Jobs : jobRun'[j] \in {jobRun[j], Null}
      BY <1>5 DEF PruneUnlink
    <2>2. QED
      BY <1>5, <2>1 DEF PruneUnlink
  <1>6. CASE PruneDelete(p)
    <2>1. \A r \in Runs : runStatus'[r] # runStatus[r]
                            => r \in Prunable /\ runStatus'[r] = "pruned"
      BY <1>6 DEF PruneDelete
    <2>2. \A j \in Jobs : jobRun[j] \notin Prunable
      BY <1>6 DEF PruneDelete, PruneBlocked
    <2>3. QED
      BY <1>6, <2>1, <2>2 DEF PruneDelete, Return
  <1>7. CASE PruneRefused(p)
    BY <1>7 DEF PruneRefused, Fail
  <1>8. CASE Throw(p)
    BY <1>8 DEF Throw, Fail
  <1>9. CASE Crash(p)
    BY <1>9 DEF Crash
  <1>10. QED
    BY <1>1, <1>2, <1>3, <1>4, <1>5, <1>6, <1>7, <1>8, <1>9 DEF RunStep

LEMMA PublishInvStep ==
  ASSUME TypeOK, HandOutInv, LinkInv, PublishInv, [Next]_vars
  PROVE  PublishInv'
  <1>1. CASE \E w \in Workers : Boot(w) \/ WorkerStep(w) \/ Notified(w)
    BY <1>1, PublishWorker
  <1>2. CASE \E p \in Procs : RunStep(p) \/ Crash(p)
    BY <1>2, PublishRun
  <1> USE DEF TypeOK, PublishInv, WrittenRuns, HeldNotSuccess,
          SuccessIsPublished, tables, workers
  <1>3. CASE \E c \in Clients : PostStep(c)
    BY <1>3 DEF PostStep, PostFindsNone, PostInsert, PostNotify, PostDies
  <1>4. CASE \E t \in Tools : StartTool(t)
    BY <1>4 DEF StartTool, Goto
  <1>5. CASE (\E j \in Jobs : HourPasses(j)) \/ UNCHANGED vars
    BY <1>5 DEF HourPasses, vars
  <1>6. QED
    BY <1>1, <1>2, <1>3, <1>4, <1>5 DEF Next

(* A successful job is linked to a completed run until retention unlinks   *)
(* it, whichever processes refresh and prune at the same time.             *)
THEOREM SuccessShowsPublishedRun == Spec => []SuccessIsPublished
  <1>1. Init => PublishInv
    BY DEF Init, PublishInv, WrittenRuns, HeldNotSuccess, SuccessIsPublished
  <1>2. TypeOK /\ HandOutInv /\ LinkInv /\ PublishInv /\ [Next]_vars
          => PublishInv'
    BY PublishInvStep
  <1>3. QED
    BY <1>1, <1>2, HandOutAlways, LinkAlways, PTL DEF Spec, PublishInv
=============================================================================
