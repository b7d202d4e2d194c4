--------------------------- MODULE ServerJobsProofs ---------------------------
(***************************************************************************)
(* What the jobs in the web server's process promise, for any number of    *)
(* jobs, accounts, handlers, faults and restarts, and any limits.  CTA     *)
(* generations: a running job is neither forgotten nor evicted.  Account   *)
(* plans: a finished bulk job has dealt with all its accounts and never    *)
(* changes again, manual refreshes that take turns never collect together, *)
(* and an account is refused only while something is at work on it.        *)
(* Weekly snapshots: what a finished job promises is on disk, and the      *)
(* weeks are over and meet.  Forecasts: the script on the page and the     *)
(* plan that is kept belong to their quarter, a pool answers for all its   *)
(* accounts, and the trajectory ends at the script's own figures.          *)
(***************************************************************************)
EXTENDS CtaJobs, AccountPlans, CseSnapshots, ForecastRun, FiniteSetTheorems, TLAPS

-----------------------------------------------------------------------------
(* CTA generations.  The handlers work on the whole job table, pruned and  *)
(* reconciled one after the other, so what they keep is stated of a table  *)
(* m, a value, and the lemmas follow a table through Evict, Pruned,        *)
(* Reconciled and Counted; the actions then only put the pieces together.  *)

(* A table that TypeOK would accept, with every process still to be found. *)
Table == [status : [Jobs -> JobStatuses], stored : SUBSET Jobs,
          aged : [Jobs -> BOOLEAN], before : [Jobs -> SUBSET Jobs],
          held : SUBSET Jobs, killed : SUBSET Jobs]

Sound(m) ==
  /\ m \in Table
  /\ \A j \in m.stored : m.status[j] # "none"
  /\ \A j \in Jobs : m.before[j] \subseteq m.stored
  /\ m.held \subseteq m.stored
  /\ Alive \subseteq m.held \cup m.killed

(* What a table n may have become of a table m: no job starts or succeeds, *)
(* and a job that is running and not late is kept, running.                *)
ComesFrom(n, m) ==
  /\ Running(n) \subseteq Running(m)
  /\ \A j \in Jobs : /\ n.status[j] = "done" => m.status[j] = "done"
                     /\ n.status[j] = "none" <=> m.status[j] = "none"
                     /\ m.status[j] # "running" => n.status[j] # "running"
  /\ \A j \in m.stored :
       m.status[j] = "running" /\ ~m.aged[j] =>
         j \in n.stored /\ n.status[j] = "running" /\ ~n.aged[j]

-----------------------------------------------------------------------------
(* Evicting jobs that are not running leaves a sound table: the processes  *)
(* of the evicted jobs are sent SIGTERM before their listeners go.         *)
LEMMA EvictSound ==
  ASSUME NEW m, Sound(m), NEW gone, gone \subseteq Jobs,
         \A j \in gone \cap m.stored : m.status[j] # "running"
  PROVE  Sound(Evict(m, gone)) /\ ComesFrom(Evict(m, gone), m)
<1> DEFINE n == Evict(m, gone)
<1>1. m \in Table
  BY DEF Sound
<1>2. /\ n.status = m.status /\ n.aged = m.aged
      /\ n.stored = m.stored \ gone /\ n.held = m.held \ gone
      /\ n.before = Without(m.before, gone)
      /\ n.killed = m.killed \cup {j \in gone \cap m.held : child[j] = "alive"}
  BY <1>1 DEF Evict, Table
<1>3. n \in Table
  BY <1>1 DEF Evict, Table, Without
<1>4. \A j \in Jobs : n.before[j] \subseteq n.stored
  BY <1>2, <1>1 DEF Sound, Without, Table
<1>5. Alive \subseteq n.held \cup n.killed
  BY <1>2 DEF Sound, Alive
<1>6. Sound(n)
  BY <1>2, <1>3, <1>4, <1>5 DEF Sound
<1>7. ComesFrom(n, m)
  BY <1>2 DEF ComesFrom, Running
<1> QED
  BY <1>6, <1>7

(* ComesFrom goes through several steps, each on a table of its own.       *)
LEMMA ComesFromSelf ==
  ASSUME NEW m PROVE ComesFrom(m, m)
BY DEF ComesFrom

(* Pruning evicts expired and surplus jobs, never one that is running.     *)
LEMMA PrunedSound ==
  ASSUME NEW m, Sound(m)
  PROVE  Sound(Pruned(m)) /\ ComesFrom(Pruned(m), m) /\ Pruned(m).stored \subseteq m.stored
         /\ Pruned(m).status = m.status /\ Pruned(m).aged = m.aged
<1> DEFINE young == Evict(m, Expired(m))
           n == Evict(young, Surplus(young))
<1>1. m \in Table
  BY DEF Sound
<1>2. Sound(young) /\ ComesFrom(young, m)
  <2>1. Expired(m) \subseteq Jobs /\ \A j \in Expired(m) \cap m.stored : m.status[j] # "running"
    BY <1>1 DEF Expired, Table
  <2> QED
    BY <2>1, EvictSound
<1>3. young.status = m.status /\ young.aged = m.aged /\ young.stored \subseteq m.stored
  BY <1>1 DEF Evict, Table
<1>4. young \in Table
  BY <1>2 DEF Sound
<1> HIDE DEF young
<1>5. Sound(n) /\ ComesFrom(n, young)
  <2>1. Surplus(young) \subseteq Jobs /\ \A j \in Surplus(young) \cap young.stored : young.status[j] # "running"
    BY <1>4 DEF Surplus, Table
  <2> QED
    BY <2>1, <1>2, EvictSound
<1>6. n.status = young.status /\ n.aged = young.aged /\ n.stored \subseteq young.stored
  BY <1>4 DEF Evict, Table
<1>7. Pruned(m) = n
  BY DEF Pruned, young
<1> HIDE DEF n
<1>8. ComesFrom(n, m)
  BY <1>2, <1>3, <1>5, <1>6 DEF ComesFrom
<1> QED
  BY <1>3, <1>5, <1>6, <1>7, <1>8

(* Reconciling marks late jobs failed: fewer run, and none succeeds.       *)
LEMMA ReconciledSound ==
  ASSUME NEW m, Sound(m), NEW seen
  PROVE  Sound(Reconciled(m, seen)) /\ ComesFrom(Reconciled(m, seen), m)
         /\ Reconciled(m, seen).stored = m.stored
<1> DEFINE overdue == Stale(m) \cap seen
           n == Reconciled(m, seen)
<1>1. m \in Table
  BY DEF Sound
<1>2. overdue \subseteq m.stored /\ \A j \in overdue : m.status[j] = "running" /\ m.aged[j]
  BY DEF Stale, Running
<1>3. /\ n.stored = m.stored /\ n.held = m.held /\ n.killed = m.killed
      /\ n.status = [j \in Jobs |-> IF j \in overdue THEN "error" ELSE m.status[j]]
      /\ n.aged = [j \in Jobs |-> IF j \in overdue THEN FALSE ELSE m.aged[j]]
      /\ n.before = [j \in Jobs |->
           IF j \in overdue THEN Over(m) \cup {i \in overdue : i < j} ELSE m.before[j]]
  BY <1>1 DEF Reconciled, Table
<1>4. n \in Table
  <2>1. Over(m) \subseteq m.stored /\ m.stored \subseteq Jobs
    BY <1>1 DEF Over, Table
  <2>2. [j \in Jobs |-> IF j \in overdue THEN "error" ELSE m.status[j]] \in [Jobs -> JobStatuses]
    BY <1>1 DEF Table, JobStatuses
  <2>3. [j \in Jobs |-> IF j \in overdue THEN FALSE ELSE m.aged[j]] \in [Jobs -> BOOLEAN]
    BY <1>1 DEF Table
  <2>4. [j \in Jobs |-> IF j \in overdue THEN Over(m) \cup {i \in overdue : i < j} ELSE m.before[j]]
          \in [Jobs -> SUBSET Jobs]
    BY <1>1, <1>2, <2>1 DEF Table
  <2> QED
    BY <1>1, <2>2, <2>3, <2>4 DEF Reconciled, Table
<1>5. \A j \in Jobs : n.before[j] \subseteq n.stored
  BY <1>2, <1>3 DEF Sound, Over
<1> HIDE DEF overdue, n
<1>6. Sound(n)
  BY <1>2, <1>3, <1>4, <1>5 DEF Sound, Table
<1>7. ComesFrom(n, m)
  <2>1. \A j \in Jobs : n.status[j] = IF j \in overdue THEN "error" ELSE m.status[j]
    BY <1>3
  <2>2. \A j \in Jobs : n.aged[j] = IF j \in overdue THEN FALSE ELSE m.aged[j]
    BY <1>3
  <2>3. m.stored \subseteq Jobs
    BY <1>1 DEF Table
  <2>4. Running(n) \subseteq Running(m)
    BY <1>3, <2>1, <2>3 DEF Running
  <2>5. \A j \in m.stored :
          m.status[j] = "running" /\ ~m.aged[j] =>
            j \in n.stored /\ n.status[j] = "running" /\ ~n.aged[j]
    BY <1>2, <1>3, <2>1, <2>2, <2>3
  <2> QED
    BY <1>2, <2>1, <2>4, <2>5 DEF ComesFrom
<1> QED
  BY <1>3, <1>6, <1>7 DEF n

(* The table as the variables hold it, and as an action leaves it.         *)
LEMMA StoreSound ==
  ASSUME TypeOK, AliveIsTracked PROVE Sound(Store)
BY DEF TypeOK, AliveIsTracked, Sound, Table, Store

(* POST's count is of the pruned and reconciled table.                     *)
LEMMA CountedSound ==
  ASSUME TypeOK, AliveIsTracked
  PROVE  Sound(Counted) /\ ComesFrom(Counted, Store)
<1> DEFINE m == Pruned(Store)
           n == Reconciled(m, m.stored)
<1>1. Sound(m) /\ ComesFrom(m, Store) /\ m.stored \subseteq Store.stored
      /\ m.status = Store.status /\ m.aged = Store.aged
  BY StoreSound, PrunedSound
<1> HIDE DEF m
<1>2. Sound(n) /\ ComesFrom(n, m) /\ n.stored = m.stored
  BY <1>1, ReconciledSound
<1>3. Counted = n
  BY DEF Counted, m
<1> HIDE DEF n
<1>4. ComesFrom(n, Store)
  BY <1>1, <1>2 DEF ComesFrom
<1> QED
  BY <1>2, <1>3, <1>4

(* A table that an action leaves behind, the processes being as they were. *)
LEMMA BecomesSound ==
  ASSUME TypeOK, NEW m, Sound(m), ComesFrom(m, Store), Becomes(m), UNCHANGED child
  PROVE  TypeOK' /\ AliveIsTracked' /\ ComesFrom(Store', Store)
<1>1. m \in Table
  BY DEF Sound
<1>2. Alive' = Alive
  BY DEF Alive
<1>3. TypeOK'
  BY <1>1 DEF Becomes, Sound, TypeOK, Table
<1>4. AliveIsTracked'
  BY <1>2 DEF Becomes, Sound, AliveIsTracked
<1>5. ComesFrom(Store', Store)
  BY DEF Becomes, ComesFrom, Store, Running
<1> QED
  BY <1>3, <1>4, <1>5

-----------------------------------------------------------------------------
(* How many are running.                                                   *)

LEMMA JobsFinite == IsFiniteSet(Jobs)
BY CtaAssumption, FS_Interval DEF Jobs

(* A table that comes from one with few running jobs has as few.           *)
LEMMA FewerRun ==
  ASSUME NEW S, NEW T, T \subseteq Jobs, S \subseteq T
  PROVE  /\ IsFiniteSet(S) /\ Cardinality(S) \in Nat /\ Cardinality(T) \in Nat
         /\ Cardinality(S) <= Cardinality(T)
<1>1. IsFiniteSet(T)
  BY JobsFinite, FS_Subset
<1>2. IsFiniteSet(S) /\ Cardinality(S) <= Cardinality(T)
  BY <1>1, FS_Subset
<1> QED
  BY <1>1, <1>2, FS_CardinalityType

(* One more job at most is one more running at most.                       *)
LEMMA OneMoreRuns ==
  ASSUME NEW S, NEW T, NEW j, T \subseteq Jobs, S \subseteq T \cup {j},
         Cardinality(T) < MaxConcurrent
  PROVE  Cardinality(S) <= MaxConcurrent
<1>1. IsFiniteSet(T) /\ Cardinality(T) \in Nat
  BY JobsFinite, FS_Subset, FS_CardinalityType
<1>2. IsFiniteSet(T \cup {j}) /\ Cardinality(T \cup {j}) <= Cardinality(T) + 1
      /\ Cardinality(T \cup {j}) \in Nat
  <2>1. IsFiniteSet(T \cup {j})
        /\ Cardinality(T \cup {j}) = IF j \in T THEN Cardinality(T) ELSE Cardinality(T) + 1
    BY <1>1, FS_AddElement
  <2> QED
    BY <1>1, <2>1
<1>3. IsFiniteSet(S) /\ Cardinality(S) <= Cardinality(T \cup {j}) /\ Cardinality(S) \in Nat
  BY <1>2, FS_Subset, FS_CardinalityType
<1> QED
  BY <1>1, <1>2, <1>3, CtaAssumption

(* What a step that starts no job keeps.                                   *)
LEMMA NoNewRunner ==
  ASSUME TypeOK, RunningBounded, ComesFrom(Store', Store)
  PROVE  RunningBounded'
<1>1. Running(Store)' \subseteq Running(Store)
  BY DEF ComesFrom
<1>2. Running(Store) \subseteq Jobs
  BY DEF Running, Store, TypeOK
<1> QED
  BY <1>1, <1>2, FewerRun, CtaAssumption DEF RunningBounded

-----------------------------------------------------------------------------
(* The actions.                                                            *)

LEMMA CtaJobsInit == Init => TypeOK /\ AliveIsTracked /\ RunningBounded
<1> SUFFICES ASSUME Init PROVE TypeOK /\ AliveIsTracked /\ RunningBounded
  OBVIOUS
<1>1. TypeOK /\ AliveIsTracked
  BY DEF Init, TypeOK, AliveIsTracked, Alive, JobStatuses
<1>2. Running(Store) = {}
  BY DEF Init, Running, Store
<1> QED
  BY <1>1, <1>2, FS_EmptySet, CtaAssumption DEF RunningBounded

(* What every step keeps, and what it may do to a job.                     *)
Kept ==
  /\ TypeOK' /\ AliveIsTracked' /\ RunningBounded'
  /\ \A j \in Jobs :
       /\ status'[j] = "done" /\ status[j] # "done" => child[j] = "exit0"
       /\ status[j] \in {"done", "error"} => status'[j] # "running"
       /\ j \in stored /\ status[j] = "running" /\ ~aged[j] => j \in stored'

LEMMA TableStep ==
  ASSUME TypeOK, AliveIsTracked, RunningBounded,
         NEW m, Sound(m), ComesFrom(m, Store), Becomes(m), UNCHANGED child
  PROVE  Kept
<1>1. TypeOK' /\ AliveIsTracked' /\ ComesFrom(Store', Store)
  BY BecomesSound
<1>2. RunningBounded'
  BY <1>1, NoNewRunner
<1> QED
  BY <1>1, <1>2 DEF Kept, ComesFrom, Store

(* The answers to GET.                                                     *)
LEMMA GetKeeps ==
  ASSUME TypeOK, AliveIsTracked, RunningBounded,
         GetActive \/ \E j \in Jobs : GetOne(j)
  PROVE  Kept
<1>1. Sound(Pruned(Store)) /\ ComesFrom(Pruned(Store), Store)
      /\ Pruned(Store).stored \subseteq Store.stored
      /\ Pruned(Store).status = Store.status /\ Pruned(Store).aged = Store.aged
  BY StoreSound, PrunedSound
<1>2. ASSUME NEW seen
      PROVE  Sound(Reconciled(Pruned(Store), seen))
             /\ ComesFrom(Reconciled(Pruned(Store), seen), Store)
  <2>1. Sound(Reconciled(Pruned(Store), seen))
        /\ ComesFrom(Reconciled(Pruned(Store), seen), Pruned(Store))
        /\ Reconciled(Pruned(Store), seen).stored = Pruned(Store).stored
    BY <1>1, ReconciledSound
  <2> QED
    BY <1>1, <2>1 DEF ComesFrom
<1>3. CASE GetActive
  BY <1>1, <1>2, <1>3, TableStep DEF GetActive
<1>4. ASSUME NEW j \in Jobs, GetOne(j) PROVE Kept
  BY <1>2, <1>4, TableStep DEF GetOne
<1> QED
  BY <1>3, <1>4

(* POST: refused, it leaves the counted table; else a job is added to the  *)
(* table pruned once more.                                                 *)
LEMMA PostKeeps ==
  ASSUME TypeOK, AliveIsTracked, RunningBounded, NEW j \in Jobs, Post(j)
  PROVE  Kept
<1> DEFINE m == Counted
           p == Pruned(m)
           n == [p EXCEPT !.status[j] = "running",
                          !.stored = @ \cup {j}, !.held = @ \cup {j}]
<1>1. Sound(m) /\ ComesFrom(m, Store)
  BY CountedSound
<1>2. status[j] = "none"
  BY DEF Post
<1>3. CASE ~HasRoom(m)
  <2>1. Becomes(m) /\ UNCHANGED child
    BY <1>3 DEF Post
  <2> QED
    BY <1>1, <2>1, TableStep
<1>4. CASE HasRoom(m)
  <2>1. Becomes(n) /\ child' = [child EXCEPT ![j] = "alive"]
    BY <1>4 DEF Post
  <2> HIDE DEF m
  <2>2. Sound(p) /\ ComesFrom(p, m) /\ p.status = m.status /\ p.aged = m.aged
        /\ p.stored \subseteq m.stored
    BY <1>1, PrunedSound
  <2>3. p \in Table
    BY <2>2 DEF Sound
  <2> HIDE DEF p
  <2>4. /\ status' = [p.status EXCEPT ![j] = "running"]
        /\ stored' = p.stored \cup {j} /\ held' = p.held \cup {j}
        /\ aged' = p.aged /\ before' = p.before /\ killed' = p.killed
    BY <2>1, <2>3 DEF Becomes, Table
  <2>5. TypeOK'
    <3>1. child' \in [Jobs -> {"none", "alive", "closed"} \cup Ends]
      BY <2>1 DEF TypeOK
    <3>2. status' \in [Jobs -> JobStatuses] /\ status'[j] = "running"
          /\ \A i \in Jobs \ {j} : status'[i] = p.status[i]
      BY <2>3, <2>4 DEF Table, JobStatuses
    <3>3. stored' \subseteq {i \in Jobs : status'[i] # "none"}
      BY <2>2, <2>3, <2>4, <3>2 DEF Sound, Table
    <3>4. before' \in [Jobs -> SUBSET stored']
      BY <2>2, <2>3, <2>4 DEF Sound, Table
    <3> QED
      BY <2>2, <2>3, <2>4, <3>1, <3>2, <3>3, <3>4 DEF TypeOK, Sound, Table
  <2>6. AliveIsTracked'
    BY <2>1, <2>2, <2>4 DEF AliveIsTracked, Alive, Sound, TypeOK
  <2>7. Running(Store)' \subseteq Running(m) \cup {j}
    BY <2>2, <2>3, <2>4 DEF Running, Store, ComesFrom, Table
  <2>8. RunningBounded'
    <3>1. Running(m) \subseteq Jobs
      BY <1>1 DEF Running, Sound, Table
    <3> QED
      BY <1>4, <2>7, <3>1, OneMoreRuns DEF HasRoom, RunningBounded
  <2>9. ComesFrom(p, Store)
    BY <1>1, <2>2 DEF ComesFrom
  <2> QED
    BY <1>2, <2>3, <2>4, <2>5, <2>6, <2>8, <2>9 DEF Kept, ComesFrom, Store, Table
<1> QED
  BY <1>3, <1>4

(* A process ends, its event is delivered, time passes.                    *)
LEMMA ProcessKeeps ==
  ASSUME TypeOK, AliveIsTracked, RunningBounded, NEW j \in Jobs,
         ChildEnds(j) \/ ChildReported(j) \/ TimePasses(j)
  PROVE  Kept
<1>1. CASE ChildEnds(j)
  <2>1. TypeOK' /\ AliveIsTracked'
    BY <1>1 DEF ChildEnds, TypeOK, AliveIsTracked, Alive, Ends
  <2>2. Running(Store)' = Running(Store)
    BY <1>1 DEF ChildEnds, Running, Store
  <2> QED
    BY <1>1, <2>1, <2>2 DEF Kept, ChildEnds, RunningBounded
<1>2. CASE ChildReported(j)
  <2>1. status' \in [Jobs -> JobStatuses] /\ status'[j] = Outcome(child[j])
        /\ \A i \in Jobs \ {j} : status'[i] = status[i]
    BY <1>2 DEF ChildReported, TypeOK, Outcome, JobStatuses
  <2>2. before' \in [Jobs -> SUBSET stored]
    BY <1>2 DEF ChildReported, TypeOK, Without, Over, Store
  <2>3. TypeOK'
    BY <1>2, <2>1, <2>2 DEF ChildReported, TypeOK, Outcome
  <2>4. AliveIsTracked'
    BY <1>2 DEF ChildReported, TypeOK, AliveIsTracked, Alive, Ends
  <2>5. Running(Store)' \subseteq Running(Store)
    BY <1>2, <2>1 DEF ChildReported, Running, Store, TypeOK, Outcome
  <2>6. RunningBounded'
    <3>1. Running(Store) \subseteq Jobs
      BY DEF Running, Store, TypeOK
    <3> QED
      BY <2>5, <3>1, FewerRun, CtaAssumption DEF RunningBounded
  <2> QED
    BY <1>2, <2>1, <2>3, <2>4, <2>6 DEF Kept, ChildReported, Outcome
<1>3. CASE TimePasses(j)
  <2>1. TypeOK' /\ AliveIsTracked'
    BY <1>3 DEF TimePasses, TypeOK, AliveIsTracked, Alive
  <2>2. Running(Store)' = Running(Store)
    BY <1>3 DEF TimePasses, Running, Store
  <2> QED
    BY <1>3, <2>1, <2>2 DEF Kept, TimePasses, RunningBounded
<1> QED
  BY <1>1, <1>2, <1>3

LEMMA CtaJobsStep ==
  ASSUME TypeOK, AliveIsTracked, RunningBounded, [Next]_vars
  PROVE  Kept
<1>1. CASE UNCHANGED vars
  BY <1>1 DEF vars, Kept, TypeOK, AliveIsTracked, Alive, RunningBounded, Running, Store
<1>2. CASE Next
  BY <1>2, GetKeeps, PostKeeps, ProcessKeeps DEF Next
<1> QED
  BY <1>1, <1>2

-----------------------------------------------------------------------------
(* The theorems.                                                           *)

(* At most MaxConcurrent jobs are shown as running, and every process that *)
(* is alive is found through its job's row or has been sent SIGTERM,       *)
(* through pruning, reconciliation and late events (pruneCtaJobs,          *)
(* reconcileStaleRunningJob, disposeCtaJobChild).                          *)
THEOREM CtaJobsSound == Spec => []CtaJobsInv
<1>1. Init => CtaJobsInv
  BY CtaJobsInit DEF CtaJobsInv
<1>2. CtaJobsInv /\ [Next]_vars => CtaJobsInv'
  BY CtaJobsStep DEF CtaJobsInv, Kept
<1> QED
  BY <1>1, <1>2, PTL DEF Spec

(* A job becomes "done" only when its process exited with code 0, and none *)
(* that has ended runs again.                                              *)
THEOREM CtaJobsDoneIsTrue == Spec => DoneIsTrue
<1>1. CtaJobsInv /\ [Next]_vars
        => [\A j \in Jobs :
              /\ status'[j] = "done" /\ status[j] # "done" => child[j] = "exit0"
              /\ status[j] \in {"done", "error"} => status'[j] # "running"]_vars
  BY CtaJobsStep DEF CtaJobsInv, Kept
<1> QED
  BY <1>1, CtaJobsSound, PTL DEF Spec, DoneIsTrue

(* Neither the size cap nor the time limits evict a running job before it  *)
(* was given up.                                                           *)
THEOREM CtaJobsRunningIsKept == Spec => RunningIsKept
<1>1. CtaJobsInv /\ [Next]_vars
        => [\A j \in stored : status[j] = "running" /\ ~aged[j] => j \in stored']_vars
  BY CtaJobsStep DEF CtaJobsInv, Kept, TypeOK
<1> QED
  BY <1>1, CtaJobsSound, PTL DEF Spec, RunningIsKept

-----------------------------------------------------------------------------
(* Account plans.  First, the first n of a set of numbers.                 *)

Below(S, a) == {b \in S : b < a}

(* A proper part of a finite set is smaller.                               *)
LEMMA PartIsSmaller ==
  ASSUME NEW T, IsFiniteSet(T), NEW U \in SUBSET T, NEW x \in T, x \notin U
  PROVE  IsFiniteSet(U) /\ Cardinality(U) \in Nat /\ Cardinality(U) < Cardinality(T)
<1>1. IsFiniteSet(U) /\ Cardinality(U) <= Cardinality(T)
      /\ (Cardinality(T) = Cardinality(U) => T = U)
  BY FS_Subset
<1>2. Cardinality(U) \in Nat /\ Cardinality(T) \in Nat
  BY <1>1, FS_CardinalityType
<1> QED BY <1>1, <1>2

(* The rank of an element is less than the set's size and than the rank of *)
(* a greater element.                                                      *)
LEMMA BelowIsSmaller ==
  ASSUME NEW S, S \subseteq Nat, IsFiniteSet(S), NEW a \in S
  PROVE  /\ IsFiniteSet(Below(S, a)) /\ Cardinality(Below(S, a)) \in Nat
         /\ Cardinality(Below(S, a)) < Cardinality(S)
         /\ \A b \in S : a < b => Cardinality(Below(S, a)) < Cardinality(Below(S, b))
<1>1. Below(S, a) \in SUBSET S /\ a \notin Below(S, a)
  <2>1. a \in Nat
    OBVIOUS
  <2> QED BY <2>1 DEF Below
<1>2. /\ IsFiniteSet(Below(S, a)) /\ Cardinality(Below(S, a)) \in Nat
      /\ Cardinality(Below(S, a)) < Cardinality(S)
  BY <1>1, PartIsSmaller
<1>3. ASSUME NEW b \in S, a < b
      PROVE  Cardinality(Below(S, a)) < Cardinality(Below(S, b))
  <2>1. a \in Nat /\ b \in Nat
    OBVIOUS
  <2>2. \A x \in S : x < a => x < b
    <3> TAKE x \in S
    <3>1. x \in Nat
      OBVIOUS
    <3> QED BY <1>3, <2>1, <3>1
  <2>3. Below(S, a) \in SUBSET Below(S, b) /\ a \in Below(S, b)
    BY <1>3, <2>2 DEF Below
  <2>4. Below(S, b) \in SUBSET S
    BY DEF Below
  <2>5. IsFiniteSet(Below(S, b))
    BY <2>4, FS_Subset
  <2> QED BY <1>1, <2>3, <2>5, PartIsSmaller
<1> QED BY <1>2, <1>3

(* A set of which no two elements have one rank among 0..n-1 has n at most.*)
LEMMA RanksCount ==
  ASSUME NEW S, S \subseteq Nat, IsFiniteSet(S), NEW n \in Nat, NEW T \in SUBSET S,
         \A a \in T : Cardinality(Below(S, a)) < n
  PROVE  /\ IsFiniteSet(T) /\ Cardinality(T) <= n
         /\ Cardinality(T) = n => \A m \in 0..(n - 1) : \E a \in T : Cardinality(Below(S, a)) = m
<1> DEFINE f == [a \in T |-> Cardinality(Below(S, a))]
<1>1. f \in [T -> 0..(n - 1)]
  <2>1. \A a \in T : Cardinality(Below(S, a)) \in 0..(n - 1)
    <3> TAKE a \in T
    <3>1. Cardinality(Below(S, a)) \in Nat
      BY BelowIsSmaller
    <3> QED BY <3>1
  <2> QED BY <2>1
<1>2. \A a, b \in T : f[a] = f[b] => a = b
  <2> SUFFICES ASSUME NEW a \in T, NEW b \in T, a # b PROVE f[a] # f[b]
    OBVIOUS
  <2>1. a \in Nat /\ b \in Nat
    OBVIOUS
  <2>2. Cardinality(Below(S, a)) \in Nat /\ Cardinality(Below(S, b)) \in Nat
    BY BelowIsSmaller
  <2>3. a < b \/ b < a
    BY <2>1
  <2>4. CASE a < b
    <3>1. Cardinality(Below(S, a)) < Cardinality(Below(S, b))
      BY <2>4, BelowIsSmaller
    <3> QED BY <2>2, <3>1
  <2>5. CASE b < a
    <3>1. Cardinality(Below(S, b)) < Cardinality(Below(S, a))
      BY <2>5, BelowIsSmaller
    <3> QED BY <2>2, <3>1
  <2> QED BY <2>3, <2>4, <2>5
<1>3. f \in Injection(T, 0..(n - 1))
  BY <1>1, <1>2 DEF Injection, IsInjective
<1>4. IsFiniteSet(0..(n - 1)) /\ Cardinality(0..(n - 1)) = n
  <2>1. 0 \in Int /\ n - 1 \in Int
    OBVIOUS
  <2>2. IsFiniteSet(0..(n - 1))
        /\ Cardinality(0..(n - 1)) = IF 0 > n - 1 THEN 0 ELSE n - 1 - 0 + 1
    BY <2>1, FS_Interval
  <2> QED BY <2>2
<1> HIDE DEF f
<1>5. /\ IsFiniteSet(T) /\ Cardinality(T) <= Cardinality(0..(n - 1))
      /\ Cardinality(T) = Cardinality(0..(n - 1)) => f \in Surjection(T, 0..(n - 1))
  BY <1>3, <1>4, FS_Injection
<1>6. ASSUME Cardinality(T) = n, NEW m \in 0..(n - 1)
      PROVE  \E a \in T : Cardinality(Below(S, a)) = m
  <2>1. f \in Surjection(T, 0..(n - 1))
    BY <1>4, <1>5, <1>6
  <2>2. \E a \in T : f[a] = m
    BY <2>1 DEF Surjection
  <2> QED BY <2>2 DEF f
<1> QED BY <1>4, <1>5, <1>6

(* What a chunk or a batch takes: elements of the set, n at most, and none *)
(* only from an empty set.                                                 *)
LEMMA FirstIs ==
  ASSUME NEW S, S \subseteq Nat, IsFiniteSet(S), NEW n \in Nat \ {0}
  PROVE  /\ First(n, S) \subseteq S /\ Cardinality(First(n, S)) <= n
         /\ First(n, S) = {} => S = {}
<1>1. First(n, S) \in SUBSET S /\ \A a \in First(n, S) : Cardinality(Below(S, a)) < n
  BY DEF First, Below
<1>2. Cardinality(First(n, S)) <= n
  BY <1>1, RanksCount
<1>3. ASSUME S # {}
      PROVE  First(n, S) # {}
  <2>1. Cardinality(S) \in Nat /\ Cardinality(S) # 0
    BY <1>3, FS_CardinalityType, FS_EmptySet
  <2>2. \A a \in S : Cardinality(Below(S, a)) < Cardinality(S)
    BY BelowIsSmaller
  <2>3. \A m \in 0..(Cardinality(S) - 1) : \E a \in S : Cardinality(Below(S, a)) = m
    BY <2>1, <2>2, RanksCount
  <2>4. 0 \in 0..(Cardinality(S) - 1)
    BY <2>1
  <2>5. PICK a \in S : Cardinality(Below(S, a)) = 0
    BY <2>3, <2>4
  <2>6. a \in First(n, S)
    BY <2>5 DEF First, Below
  <2> QED BY <2>6
<1> QED BY <1>1, <1>2, <1>3

-----------------------------------------------------------------------------
(* The inductive invariant.                                                *)

ItemStates == {"pending", "success", "failed"}
ItemMaps == [{} -> ItemStates] \cup [Accounts -> ItemStates]
JobSet == [status : {"queued", "running"} \cup Finished,
           started : {"never", "recent", "old"}, items : ItemMaps]
DrainSet == [at : {"off", "start", "list", "run", "count", "complete", "leave"},
             job : Nat, batch : SUBSET Accounts, chunk : SUBSET Accounts,
             final : Finished \cup {"none"}]
PostSet == [at : {"idle", "insert", "items"}, job : 0..MaxBulkJobs]

PlansTypes ==
  /\ jobs \in Seq(JobSet) /\ Len(jobs) <= MaxBulkJobs
  /\ drain \in DrainSet /\ drain.job \in 0..Len(jobs) /\ Cardinality(drain.chunk) <= Width
  /\ post \in [Posts -> PostSet]
  /\ gens \in [Gens -> AtWork \cup {"idle", "asked", "begin", "succeeded", "failed"}]
  /\ \A g \in Gens : /\ gens[g] = "asked" => g \in Refreshers
                     /\ gens[g] \in {"begin", "succeeded", "failed"} => g \in Items
  /\ inFlight \subseteq Accounts /\ locks \subseteq Gens /\ faults \in 0..MaxFaults

(* Every account of the job rests: nothing is at work on its item.         *)
RestsIn(j) == \A a \in Accounts : gens[<<j, a>>] = "idle"

(* A handler about to put the items in has a queued job to itself.         *)
PostsOwn ==
  \A p \in Posts : post[p].at = "items" =>
    /\ post[p].job \in 1..Len(jobs) /\ jobs[post[p].job].status = "queued"
    /\ RestsIn(post[p].job)
    /\ drain.at # "off" => drain.job # post[p].job
    /\ \A q \in Posts \ {p} : post[q].at = "items" => post[q].job # post[p].job

(* The drain has a job with all its items, of which only those of its      *)
(* chunk are worked on while it awaits them; once it has found no pending  *)
(* item left none comes back, and what it has counted stays true.          *)
DrainOwns ==
  drain.at # "off" =>
    /\ drain.job \in 1..Len(jobs) /\ DOMAIN jobs[drain.job].items = Accounts
    /\ drain.at = "start" => jobs[drain.job].status = "queued"
    /\ drain.at \in {"list", "run", "count", "complete"} =>
         jobs[drain.job].status = "running"
    /\ drain.at # "run" => RestsIn(drain.job)
    /\ \A a \in Accounts \ drain.chunk : gens[<<drain.job, a>>] = "idle"
    /\ drain.at \in {"count", "complete"} => WithStatus(drain.job, "pending") = {}
    /\ drain.at = "complete" => drain.final = FinalStatus(drain.job)

(* An item is worked on only in a job that is running, drained or not.     *)
WorkIsRunning ==
  \A j \in BulkJobs, a \in Accounts : gens[<<j, a>>] # "idle" =>
    /\ j \in 1..Len(jobs) /\ jobs[j].status = "running"
    /\ DOMAIN jobs[j].items = Accounts

(* Refreshes that take turns: one at most has looked and not locked, none  *)
(* has looked and found nothing while another collects.                    *)
RefreshesTakeTurns ==
  SerialChecks => \A g, h \in Refreshers : g # h =>
    /\ gens[g] \in {"asked", "lock"} => gens[h] \notin {"asked", "lock"}
    /\ gens[g] \in Collecting => gens[h] \notin Collecting \cup {"lock"}

(* A refresh that collects has its row.                                    *)
CollectorsHold == \A g \in Refreshers : gens[g] \in Collecting => g \in locks

InFlightForCause ==
  \A a \in inFlight : \E g \in Gens : AccountOf(g) = a /\ gens[g] \in AtWork

RowsForCause == faults = 0 => \A h \in locks : gens[h] \in AtWork

JobsInv == PlansTypes /\ PostsOwn /\ DrainOwns /\ WorkIsRunning /\ FinishedIsWhole
TurnsInv == RefreshesTakeTurns /\ CollectorsHold
CauseInv == InFlightForCause /\ RowsForCause

PlansIInv == JobsInv /\ TurnsInv /\ CauseInv

(* The invariant of the account plans follows.                             *)
LEMMA PlansImplies == PlansIInv => PlansInv
<1> SUFFICES ASSUME PlansIInv PROVE PlansInv
  OBVIOUS
<1>0. PlansTypes
  BY DEF PlansIInv, JobsInv
<1>1. PlansTypeOK
  <2>1. Len(jobs) \in Nat /\ \A j \in 1..Len(jobs) : jobs[j] \in JobSet
    BY <1>0 DEF PlansTypes
  <2>2. \A j \in 1..Len(jobs) :
          jobs[j].items \in UNION {[S -> ItemStates] : S \in {{}, Accounts}}
    <3> TAKE j \in 1..Len(jobs)
    <3>1. jobs[j].items \in ItemMaps
      BY <2>1 DEF JobSet
    <3> QED BY <3>1 DEF ItemMaps
  <2>3. \A j \in 1..Len(jobs) :
          /\ jobs[j].status \in {"queued", "running"} \cup Finished
          /\ jobs[j].started \in {"never", "recent", "old"}
    BY <2>1 DEF JobSet
  <2>4. /\ drain.at \in {"off", "start", "list", "run", "count", "complete", "leave"}
        /\ drain.batch \subseteq Accounts /\ drain.chunk \subseteq Accounts
        /\ drain.final \in Finished \cup {"none"}
    BY <1>0 DEF PlansTypes, DrainSet
  <2> QED BY <1>0, <2>2, <2>3, <2>4 DEF PlansTypes, PlansTypeOK, ItemStates, PostSet
<1>2. FinishedIsWhole
  BY DEF PlansIInv, JobsInv
<1>3. OneManualRefresh
  <2> SUFFICES ASSUME SerialChecks
               PROVE  Cardinality({g \in Refreshers : gens[g] \in Collecting}) <= 1
    BY DEF OneManualRefresh
  <2> DEFINE C == {g \in Refreshers : gens[g] \in Collecting}
  <2>1. \A g, h \in C : g = h
    BY DEF PlansIInv, TurnsInv, RefreshesTakeTurns
  <2> HIDE DEF C
  <2>2. CASE C = {}
    <3>1. Cardinality(C) = 0
      BY <2>2, FS_EmptySet
    <3> QED BY <3>1 DEF C
  <2>3. CASE C # {}
    <3>1. PICK g \in C : TRUE
      BY <2>3
    <3>2. C = {g}
      BY <2>1, <3>1
    <3>3. Cardinality(C) = 1
      BY <3>2, FS_Singleton
    <3> QED BY <3>3 DEF C
  <2> QED BY <2>2, <2>3
<1>4. RefusedForCause
  <2> SUFFICES ASSUME NEW a \in Accounts,
                      a \in inFlight \/ (faults = 0 /\ \E h \in locks : AccountOf(h) = a)
               PROVE  \E g \in Gens : AccountOf(g) = a /\ gens[g] \in AtWork
    BY DEF RefusedForCause
  <2>1. locks \subseteq Gens
    BY <1>0 DEF PlansTypes
  <2> QED BY <2>1 DEF PlansIInv, CauseInv, InFlightForCause, RowsForCause
<1> QED BY <1>1, <1>2, <1>3, <1>4 DEF PlansInv

-----------------------------------------------------------------------------
(* The jobs.                                                               *)

Whole(j) ==
  /\ DOMAIN jobs[j].items = Accounts
  /\ WithStatus(j, "pending") = {}
  /\ jobs[j].status = "success" <=> WithStatus(j, "failed") = {}
  /\ jobs[j].status = "partial" => WithStatus(j, "success") # {}

(* One job is written, the others stay.                                    *)
LEMMA JobEdit ==
  ASSUME NEW js \in Seq(JobSet), NEW j \in 1..Len(js), NEW r \in JobSet
  PROVE  /\ [js EXCEPT ![j] = r] \in Seq(JobSet) /\ Len([js EXCEPT ![j] = r]) = Len(js)
         /\ [js EXCEPT ![j] = r][j] = r
         /\ \A i \in 1..Len(js) : i # j => [js EXCEPT ![j] = r][i] = js[i]
  OBVIOUS

(* What is told of a job's items depends on the items alone.               *)
LEMMA SameItems ==
  ASSUME NEW j, jobs'[j].items = jobs[j].items
  PROVE  /\ \A st : WithStatus(j, st)' = WithStatus(j, st)
         /\ FinalStatus(j)' = FinalStatus(j)
         /\ jobs'[j].status = jobs[j].status => (Whole(j)' <=> Whole(j))
<1>1. \A st : WithStatus(j, st)' = WithStatus(j, st)
  BY DEF WithStatus
<1>2. FinalStatus(j)' = FinalStatus(j)
  BY <1>1 DEF FinalStatus
<1>3. jobs'[j].status = jobs[j].status => (Whole(j)' <=> Whole(j))
  BY <1>1 DEF Whole
<1> QED BY <1>1, <1>2, <1>3

(* The number of a job that is there names items.                          *)
LEMMA ItemsAreGens ==
  ASSUME PlansTypes
  PROVE  /\ Len(jobs) \in Nat /\ 1..Len(jobs) \subseteq BulkJobs
         /\ \A j \in BulkJobs, a \in Accounts : <<j, a>> \in Items /\ <<j, a>> \in Gens
         /\ \A j \in 1..Len(jobs) : jobs[j] \in JobSet
<1>1. Len(jobs) \in Nat /\ Len(jobs) <= MaxBulkJobs /\ \A j \in 1..Len(jobs) : jobs[j] \in JobSet
  BY DEF PlansTypes
<1>2. MaxBulkJobs \in Nat
  BY PlansAssumption
<1>3. 1..Len(jobs) \subseteq BulkJobs
  BY <1>1, <1>2 DEF BulkJobs
<1> QED BY <1>1, <1>3 DEF Items, Gens

(* The first state.                                                        *)
LEMMA PlansStart == PlansInit => PlansIInv
<1> SUFFICES ASSUME PlansInit PROVE PlansIInv
  OBVIOUS
<1>1. /\ jobs = <<>> /\ Len(jobs) = 0 /\ drain = Off /\ drain.at = "off"
      /\ post = [p \in Posts |-> [at |-> "idle", job |-> 0]]
      /\ gens = [g \in Gens |-> "idle"] /\ inFlight = {} /\ locks = {} /\ faults = 0
  BY DEF PlansInit, Off
<1>2. Cardinality(drain.chunk) <= Width
  <2>1. drain.chunk = {} /\ Width \in Nat
    BY <1>1, PlansAssumption DEF Off
  <2>2. Cardinality({}) = 0
    BY FS_EmptySet
  <2> QED BY <2>1, <2>2
<1>3. PlansTypes
  <2>1. drain \in DrainSet /\ drain.job \in 0..Len(jobs)
    BY <1>1 DEF Off, DrainSet
  <2>2. MaxBulkJobs \in Nat /\ MaxFaults \in Nat
    BY PlansAssumption
  <2>3. post \in [Posts -> PostSet]
    BY <1>1, <2>2 DEF PostSet
  <2>4. jobs \in Seq(JobSet) /\ Len(jobs) <= MaxBulkJobs /\ faults \in 0..MaxFaults
    BY <1>1, <2>2
  <2> QED BY <1>1, <1>2, <2>1, <2>3, <2>4 DEF PlansTypes
<1>4. PostsOwn /\ DrainOwns
  BY <1>1 DEF PostsOwn, DrainOwns
<1>5. WorkIsRunning
  BY <1>1, <1>3, ItemsAreGens DEF WorkIsRunning
<1>6. FinishedIsWhole
  BY <1>1 DEF FinishedIsWhole
<1>7. RefreshesTakeTurns /\ CollectorsHold
  <2>1. \A g \in Refreshers : gens[g] = "idle"
    BY <1>1 DEF Gens
  <2> QED BY <2>1 DEF RefreshesTakeTurns, CollectorsHold, Collecting
<1>8. InFlightForCause /\ RowsForCause
  BY <1>1 DEF InFlightForCause, RowsForCause
<1> QED BY <1>3, <1>4, <1>5, <1>6, <1>7, <1>8 DEF PlansIInv, JobsInv, TurnsInv, CauseInv

GenStates == AtWork \cup {"idle", "asked", "begin", "succeeded", "failed"}

(* A generation that is under way, or a refresh, moves on.                 *)
LEMMA GenMoves ==
  ASSUME JobsInv, NEW g \in Gens, NEW at \in GenStates, gens' = [gens EXCEPT ![g] = at],
         at = "asked" => g \in Refreshers,
         at \in {"begin", "succeeded", "failed"} => g \in Items,
         g \in Items => gens[g] # "idle",
         UNCHANGED <<jobs, drain, post>>,
         inFlight' \subseteq Accounts, locks' \subseteq Gens, faults' \in 0..MaxFaults
  PROVE  JobsInv'
<1>1. PlansTypes
  BY DEF JobsInv
<1>2. PlansTypes'
  <2>1. gens' \in [Gens -> GenStates]
    BY <1>1 DEF PlansTypes, GenStates
  <2>2. \A h \in Gens : /\ gens'[h] = "asked" => h \in Refreshers
                        /\ gens'[h] \in {"begin", "succeeded", "failed"} => h \in Items
    BY <1>1 DEF PlansTypes
  <2> QED BY <1>1, <2>1, <2>2 DEF PlansTypes, GenStates
<1>3. \A j \in BulkJobs, a \in Accounts :
         gens'[<<j, a>>] = "idle" \/ (gens[<<j, a>>] # "idle" /\ <<j, a>> \in Gens)
  BY <1>1, ItemsAreGens DEF PlansTypes
<1>4. \A j \in BulkJobs : RestsIn(j) => RestsIn(j)'
  BY <1>3 DEF RestsIn
<1>5. PostsOwn'
  BY <1>1, <1>4, ItemsAreGens DEF JobsInv, PostsOwn
<1>6. DrainOwns'
  <2> SUFFICES ASSUME drain.at # "off" PROVE DrainOwns'
    BY DEF DrainOwns
  <2>1. drain.job \in BulkJobs
    BY <1>1, ItemsAreGens DEF JobsInv, DrainOwns
  <2>2. \A a \in Accounts \ drain.chunk : gens'[<<drain.job, a>>] = "idle"
    BY <1>3, <2>1 DEF JobsInv, DrainOwns
  <2>3. drain.at # "run" => RestsIn(drain.job)'
    BY <1>4, <2>1 DEF JobsInv, DrainOwns
  <2>4. /\ WithStatus(drain.job, "pending")' = WithStatus(drain.job, "pending")
        /\ FinalStatus(drain.job)' = FinalStatus(drain.job)
    BY DEF WithStatus, FinalStatus
  <2> QED BY <2>2, <2>3, <2>4 DEF JobsInv, DrainOwns, RestsIn
<1>7. WorkIsRunning'
  BY <1>3 DEF JobsInv, WorkIsRunning
<1>8. FinishedIsWhole'
  BY DEF JobsInv, FinishedIsWhole, WithStatus
<1> QED BY <1>2, <1>5, <1>6, <1>7, <1>8 DEF JobsInv

(* An item's outcome is written, or not, and its generation rests or fails *)
(* once more; the drain goes on or ends.                                   *)
LEMMA MarkKeeps ==
  ASSUME JobsInv, NEW g \in Gens, gens[g] \in {"succeeded", "failed"},
         jobs' \in {jobs, Marked(g)}, NEW at \in {"idle", "failed"},
         gens' = [gens EXCEPT ![g] = at], drain' \in {drain, Off},
         UNCHANGED <<post, inFlight, locks>>, faults' \in 0..MaxFaults
  PROVE  JobsInv'
<1>1. PlansTypes
  BY DEF JobsInv
<1>2. g \in Items /\ g[1] \in BulkJobs /\ g[2] \in Accounts /\ g = <<g[1], g[2]>>
  BY <1>1 DEF PlansTypes, Items
<1> DEFINE j == g[1]
<1>3. /\ j \in 1..Len(jobs) /\ jobs[j].status = "running" /\ DOMAIN jobs[j].items = Accounts
      /\ jobs[j] \in JobSet
  BY <1>1, <1>2, ItemsAreGens DEF JobsInv, WorkIsRunning
<1> DEFINE outcome == IF gens[g] = "succeeded" THEN "success" ELSE "failed"
           items == [jobs[j].items EXCEPT ![g[2]] = outcome]
           r == [jobs[j] EXCEPT !.items = items]
<1>4. items \in [Accounts -> ItemStates]
  <2>1. jobs[j].items \in ItemMaps
    BY <1>3 DEF JobSet
  <2>2. jobs[j].items \in [Accounts -> ItemStates]
    BY <1>3, <2>1 DEF ItemMaps
  <2>3. outcome \in ItemStates
    BY DEF ItemStates
  <2> QED BY <2>2, <2>3
<1>5. r \in JobSet /\ r.status = "running" /\ r.items = items
  BY <1>3, <1>4 DEF JobSet, ItemMaps
<1>6. Marked(g) = [jobs EXCEPT ![j] = r]
  BY DEF Marked
<1> HIDE DEF j, items, outcome, r
<1>7. /\ jobs' \in Seq(JobSet) /\ Len(jobs') = Len(jobs)
      /\ \A i \in 1..Len(jobs) : i # j => jobs'[i] = jobs[i]
      /\ jobs'[j].status = "running" /\ DOMAIN jobs'[j].items = Accounts
  <2>1. CASE jobs' = jobs
    BY <1>1, <1>3, <2>1 DEF PlansTypes
  <2>2. CASE jobs' = Marked(g)
    <3>1. jobs \in Seq(JobSet)
      BY <1>1 DEF PlansTypes
    <3>2. DOMAIN items = Accounts
      BY <1>4
    <3> QED BY <1>3, <1>5, <1>6, <2>2, <3>1, <3>2, JobEdit
  <2> QED BY <2>1, <2>2
<1>8. PlansTypes'
  <2>1. gens' \in [Gens -> GenStates]
    BY <1>1 DEF PlansTypes, GenStates
  <2>2. \A h \in Gens : /\ gens'[h] = "asked" => h \in Refreshers
                        /\ gens'[h] \in {"begin", "succeeded", "failed"} => h \in Items
    BY <1>1, <1>2 DEF PlansTypes
  <2>3. /\ drain' \in DrainSet /\ drain'.job \in 0..Len(jobs)
        /\ Cardinality(drain'.chunk) <= Width
    <3>1. CASE drain' = drain
      BY <1>1, <3>1 DEF PlansTypes
    <3>2. CASE drain' = Off
      <4>1. Cardinality({}) = 0 /\ Width \in Nat
        BY FS_EmptySet, PlansAssumption
      <4>2. Len(jobs) \in Nat
        BY <1>1 DEF PlansTypes
      <4> QED BY <3>2, <4>1, <4>2 DEF Off, DrainSet
    <3> QED BY <3>1, <3>2
  <2> QED BY <1>1, <1>7, <2>1, <2>2, <2>3 DEF PlansTypes, GenStates
<1>9. \A i \in BulkJobs, a \in Accounts :
         gens'[<<i, a>>] = "idle" \/ (gens[<<i, a>>] # "idle" /\ <<i, a>> \in Gens)
  BY <1>1, ItemsAreGens DEF PlansTypes
<1>10. \A i \in BulkJobs : RestsIn(i) => RestsIn(i)'
  BY <1>9 DEF RestsIn
<1>11. ~RestsIn(j)
  BY <1>2 DEF RestsIn, j
<1>12. PostsOwn'
  <2> SUFFICES ASSUME NEW p \in Posts, post[p].at = "items"
               PROVE  /\ post[p].job \in 1..Len(jobs') /\ jobs'[post[p].job].status = "queued"
                      /\ RestsIn(post[p].job)'
                      /\ drain'.at # "off" => drain'.job # post[p].job
                      /\ \A q \in Posts \ {p} :
                            post[q].at = "items" => post[q].job # post[p].job
    BY DEF PostsOwn
  <2>1. /\ post[p].job \in 1..Len(jobs) /\ jobs[post[p].job].status = "queued"
        /\ RestsIn(post[p].job) /\ (drain.at # "off" => drain.job # post[p].job)
        /\ \A q \in Posts \ {p} : post[q].at = "items" => post[q].job # post[p].job
    BY DEF JobsInv, PostsOwn
  <2>2. post[p].job # j /\ post[p].job \in BulkJobs
    BY <1>1, <1>11, <2>1, ItemsAreGens
  <2>3. drain'.at # "off" => drain' = drain
    BY DEF Off
  <2> QED BY <1>7, <1>10, <2>1, <2>2, <2>3
<1>13. DrainOwns'
  <2> SUFFICES ASSUME drain'.at # "off" PROVE DrainOwns'
    BY DEF DrainOwns
  <2>1. drain' = drain /\ drain.at # "off"
    BY DEF Off
  <2>2. drain.job \in 1..Len(jobs) /\ drain.job \in BulkJobs
    BY <1>1, <2>1, ItemsAreGens DEF JobsInv, DrainOwns
  <2>3. /\ \A a \in Accounts \ drain.chunk : gens'[<<drain.job, a>>] = "idle"
        /\ drain.at # "run" => RestsIn(drain.job)'
    BY <1>9, <1>10, <2>1, <2>2 DEF JobsInv, DrainOwns
  <2>4. CASE drain.job = j
    <3>1. drain.at = "run"
      BY <1>11, <2>1, <2>4 DEF JobsInv, DrainOwns
    <3> QED BY <1>7, <2>1, <2>2, <2>3, <2>4, <3>1 DEF JobsInv, DrainOwns
  <2>5. CASE drain.job # j
    <3>1. jobs'[drain.job] = jobs[drain.job]
      BY <1>7, <2>2, <2>5
    <3>2. /\ WithStatus(drain.job, "pending")' = WithStatus(drain.job, "pending")
          /\ FinalStatus(drain.job)' = FinalStatus(drain.job)
      BY <2>1, <3>1 DEF WithStatus, FinalStatus
    <3> QED BY <1>7, <2>1, <2>2, <2>3, <3>1, <3>2 DEF JobsInv, DrainOwns
  <2> QED BY <2>4, <2>5
<1>14. WorkIsRunning'
  <2> SUFFICES ASSUME NEW i \in BulkJobs, NEW a \in Accounts, gens'[<<i, a>>] # "idle"
               PROVE  /\ i \in 1..Len(jobs') /\ jobs'[i].status = "running"
                      /\ DOMAIN jobs'[i].items = Accounts
    BY DEF WorkIsRunning
  <2>1. /\ i \in 1..Len(jobs) /\ jobs[i].status = "running"
        /\ DOMAIN jobs[i].items = Accounts
    BY <1>9 DEF JobsInv, WorkIsRunning
  <2> QED BY <1>7, <2>1
<1>15. FinishedIsWhole'
  <2> SUFFICES ASSUME NEW i \in 1..Len(jobs'), jobs'[i].status \in Finished
               PROVE  Whole(i)'
    BY DEF FinishedIsWhole, Whole
  <2>1. i \in 1..Len(jobs) /\ i # j
    BY <1>7 DEF Finished
  <2>2. jobs'[i] = jobs[i]
    BY <1>7, <2>1
  <2>3. Whole(i)
    BY <2>1, <2>2 DEF JobsInv, FinishedIsWhole, Whole
  <2> QED BY <2>2, <2>3, SameItems
<1> QED BY <1>8, <1>12, <1>13, <1>14, <1>15 DEF JobsInv

(* The drain, awaiting no item, writes its job's status or not: everything *)
(* but what it owns itself.                                                *)
LEMMA DrainWrites ==
  ASSUME JobsInv, drain.at # "off", NEW k, k = drain.job, RestsIn(k),
         NEW r \in JobSet, r.items = jobs[k].items,
         jobs' \in {jobs, [jobs EXCEPT ![k] = r]},
         UNCHANGED <<post, gens, inFlight, locks>>, faults' \in 0..MaxFaults,
         drain' \in DrainSet, drain'.job \in {0, k},
         drain'.at # "off" => drain'.job = k,
         Cardinality(drain'.chunk) <= Width,
         jobs' # jobs /\ r.status \in Finished => Whole(k)'
  PROVE  /\ PlansTypes' /\ PostsOwn' /\ WorkIsRunning' /\ FinishedIsWhole' /\ RestsIn(k)'
         /\ k \in 1..Len(jobs) /\ Len(jobs') = Len(jobs)
         /\ jobs'[k].items = jobs[k].items /\ DOMAIN jobs[k].items = Accounts
         /\ jobs' # jobs => jobs'[k] = r
<1>1. PlansTypes
  BY DEF JobsInv
<1>2. /\ k \in 1..Len(jobs) /\ k \in BulkJobs /\ jobs[k] \in JobSet
      /\ DOMAIN jobs[k].items = Accounts
  BY <1>1, ItemsAreGens DEF JobsInv, DrainOwns
<1>3. /\ jobs' \in Seq(JobSet) /\ Len(jobs') = Len(jobs)
      /\ \A i \in 1..Len(jobs) : i # k => jobs'[i] = jobs[i]
      /\ jobs'[k].items = jobs[k].items
      /\ jobs' # jobs => jobs'[k] = r
  <2>1. jobs \in Seq(JobSet)
    BY <1>1 DEF PlansTypes
  <2>2. CASE jobs' = jobs
    BY <2>1, <2>2
  <2>3. CASE jobs' = [jobs EXCEPT ![k] = r]
    BY <1>2, <2>1, <2>3, JobEdit
  <2> QED BY <2>2, <2>3
<1>4. PlansTypes'
  <2>1. drain'.job \in 0..Len(jobs)
    BY <1>1, <1>2 DEF PlansTypes
  <2> QED BY <1>1, <1>3, <2>1 DEF PlansTypes
<1>5. \A i : RestsIn(i)' <=> RestsIn(i)
  BY DEF RestsIn
<1>6. PostsOwn'
  <2> SUFFICES ASSUME NEW p \in Posts, post[p].at = "items"
               PROVE  /\ post[p].job \in 1..Len(jobs') /\ jobs'[post[p].job].status = "queued"
                      /\ RestsIn(post[p].job)'
                      /\ drain'.at # "off" => drain'.job # post[p].job
                      /\ \A q \in Posts \ {p} :
                            post[q].at = "items" => post[q].job # post[p].job
    BY DEF PostsOwn
  <2>1. /\ post[p].job \in 1..Len(jobs) /\ jobs[post[p].job].status = "queued"
        /\ RestsIn(post[p].job) /\ k # post[p].job
        /\ \A q \in Posts \ {p} : post[q].at = "items" => post[q].job # post[p].job
    BY DEF JobsInv, PostsOwn
  <2> QED BY <1>3, <1>5, <2>1
<1>7. WorkIsRunning'
  <2> SUFFICES ASSUME NEW i \in BulkJobs, NEW a \in Accounts, gens[<<i, a>>] # "idle"
               PROVE  /\ i \in 1..Len(jobs') /\ jobs'[i].status = "running"
                      /\ DOMAIN jobs'[i].items = Accounts
    BY DEF WorkIsRunning
  <2>1. /\ i \in 1..Len(jobs) /\ jobs[i].status = "running"
        /\ DOMAIN jobs[i].items = Accounts
    BY DEF JobsInv, WorkIsRunning
  <2>2. i # k
    BY DEF RestsIn
  <2> QED BY <1>3, <2>1, <2>2
<1>8. FinishedIsWhole'
  <2> SUFFICES ASSUME NEW i \in 1..Len(jobs'), jobs'[i].status \in Finished
               PROVE  Whole(i)'
    BY DEF FinishedIsWhole, Whole
  <2>1. i \in 1..Len(jobs)
    BY <1>3
  <2>2. CASE jobs'[i] = jobs[i]
    <3>1. Whole(i)
      BY <2>1, <2>2 DEF JobsInv, FinishedIsWhole, Whole
    <3> QED BY <2>2, <3>1, SameItems
  <2>3. CASE jobs'[i] # jobs[i]
    <3>1. i = k /\ jobs' # jobs
      BY <1>3, <2>1, <2>3
    <3>2. Whole(k)'
      BY <1>3, <3>1
    <3> QED BY <3>1, <3>2
  <2> QED BY <2>2, <2>3
<1> QED BY <1>2, <1>3, <1>4, <1>5, <1>6, <1>7, <1>8

(* The drain takes a chunk of accounts and starts their generations.       *)
LEMMA RunChunkKeeps ==
  ASSUME JobsInv, drain.at \in {"list", "run"}, RestsIn(drain.job),
         NEW batch \in SUBSET Accounts, RunChunk(batch),
         UNCHANGED <<jobs, post, inFlight, locks, faults>>
  PROVE  JobsInv'
<1> DEFINE chunk == First(Width, batch)
<1>1. /\ drain' = [drain EXCEPT !.at = "run", !.chunk = chunk, !.batch = batch \ chunk]
      /\ gens' = [g \in Gens |-> IF g \in {drain.job} \X chunk THEN "begin" ELSE gens[g]]
  BY DEF RunChunk
<1>2. PlansTypes
  BY DEF JobsInv
<1>3. chunk \subseteq batch /\ chunk \subseteq Accounts /\ Cardinality(chunk) <= Width
  <2>1. batch \subseteq Nat /\ IsFiniteSet(batch) /\ Width \in Nat \ {0}
    BY PlansAssumption, FS_Subset
  <2> QED BY <2>1, FirstIs
<1> HIDE DEF chunk
<1>4. /\ drain.job \in 1..Len(jobs) /\ drain.job \in BulkJobs
      /\ jobs[drain.job].status = "running" /\ DOMAIN jobs[drain.job].items = Accounts
  BY <1>2, ItemsAreGens DEF JobsInv, DrainOwns
<1>5. /\ drain' \in DrainSet /\ drain'.at = "run" /\ drain'.job = drain.job
      /\ drain'.chunk = chunk
  BY <1>1, <1>2, <1>3 DEF PlansTypes, DrainSet
<1>6. \A a \in chunk : <<drain.job, a>> \in Items
  BY <1>2, <1>3, <1>4, ItemsAreGens
<1>7. PlansTypes'
  <2>1. \A g \in Gens : g \in {drain.job} \X chunk => g \in Items
    BY <1>6
  <2>2. gens' \in [Gens -> GenStates]
    BY <1>1, <1>2 DEF PlansTypes, GenStates
  <2>3. \A h \in Gens : /\ gens'[h] = "asked" => h \in Refreshers
                        /\ gens'[h] \in {"begin", "succeeded", "failed"} => h \in Items
    BY <1>1, <1>2, <2>1 DEF PlansTypes
  <2> QED BY <1>2, <1>3, <1>5, <2>2, <2>3 DEF PlansTypes, GenStates
<1>8. \A i \in BulkJobs, a \in Accounts :
         /\ i # drain.job => gens'[<<i, a>>] = gens[<<i, a>>]
         /\ a \notin chunk => gens'[<<drain.job, a>>] = "idle"
  BY <1>1, <1>2, <1>4, ItemsAreGens DEF RestsIn
<1>9. PostsOwn'
  <2> SUFFICES ASSUME NEW p \in Posts, post[p].at = "items"
               PROVE  /\ post[p].job \in 1..Len(jobs) /\ jobs[post[p].job].status = "queued"
                      /\ RestsIn(post[p].job)' /\ drain'.job # post[p].job
                      /\ \A q \in Posts \ {p} :
                            post[q].at = "items" => post[q].job # post[p].job
    BY DEF PostsOwn
  <2>1. /\ post[p].job \in 1..Len(jobs) /\ jobs[post[p].job].status = "queued"
        /\ RestsIn(post[p].job) /\ drain.job # post[p].job
        /\ \A q \in Posts \ {p} : post[q].at = "items" => post[q].job # post[p].job
    BY DEF JobsInv, PostsOwn
  <2>2. post[p].job \in BulkJobs
    BY <1>2, <2>1, ItemsAreGens
  <2>3. RestsIn(post[p].job)'
    BY <1>8, <2>1, <2>2 DEF RestsIn
  <2> QED BY <1>5, <2>1, <2>3
<1>10. DrainOwns'
  <2>1. \A a \in Accounts \ drain'.chunk : gens'[<<drain'.job, a>>] = "idle"
    BY <1>4, <1>5, <1>8
  <2> QED BY <1>4, <1>5, <2>1 DEF DrainOwns
<1>11. WorkIsRunning'
  <2> SUFFICES ASSUME NEW i \in BulkJobs, NEW a \in Accounts, gens'[<<i, a>>] # "idle"
               PROVE  /\ i \in 1..Len(jobs) /\ jobs[i].status = "running"
                      /\ DOMAIN jobs[i].items = Accounts
    BY DEF WorkIsRunning
  <2>1. CASE i = drain.job
    BY <1>4, <2>1
  <2>2. CASE i # drain.job
    BY <1>8, <2>2 DEF JobsInv, WorkIsRunning
  <2> QED BY <2>1, <2>2
<1>12. FinishedIsWhole'
  BY DEF JobsInv, FinishedIsWhole, WithStatus
<1> QED BY <1>7, <1>9, <1>10, <1>11, <1>12 DEF JobsInv

(* The drain that has ended owns nothing.                                  *)
LEMMA OffIs ==
  /\ Off \in DrainSet /\ Off.at = "off" /\ Off.job = 0 /\ Off.chunk = {}
  /\ Cardinality(Off.chunk) <= Width
<1>1. Cardinality({}) = 0 /\ Width \in Nat
  BY FS_EmptySet, PlansAssumption
<1> QED BY <1>1 DEF Off, DrainSet

(* The status that is written is what became of the items.                 *)
LEMMA CompletedIs ==
  ASSUME JobsInv, drain.at = "complete", NEW k, k = drain.job,
         jobs' = Completed(k, drain.final)
  PROVE  /\ RestsIn(k) /\ jobs'[k].status \in Finished /\ Whole(k)'
         /\ [jobs[k] EXCEPT !.status = drain.final] \in JobSet
         /\ [jobs[k] EXCEPT !.status = drain.final].items = jobs[k].items
         /\ jobs' = [jobs EXCEPT ![k] = [jobs[k] EXCEPT !.status = drain.final]]
<1> DEFINE r == [jobs[k] EXCEPT !.status = drain.final]
<1>1. PlansTypes /\ DrainOwns
  BY DEF JobsInv
<1>2. /\ k \in 1..Len(jobs) /\ jobs[k] \in JobSet /\ DOMAIN jobs[k].items = Accounts
      /\ drain.final = FinalStatus(k) /\ WithStatus(k, "pending") = {} /\ RestsIn(k)
  BY <1>1, ItemsAreGens DEF DrainOwns
<1>3. jobs' = [jobs EXCEPT ![k] = r] /\ jobs \in Seq(JobSet)
  BY <1>1 DEF Completed, PlansTypes
<1>4. FinalStatus(k) \in Finished
  BY DEF FinalStatus, Finished
<1>5. r \in JobSet /\ r.items = jobs[k].items /\ r.status = FinalStatus(k)
  BY <1>2, <1>4 DEF JobSet
<1>6. jobs'[k] = r
  <2> HIDE DEF r
  <2> QED BY <1>2, <1>3, <1>5, JobEdit
<1>7. \A st : WithStatus(k, st)' = WithStatus(k, st)
  BY <1>5, <1>6 DEF WithStatus
<1>8. DOMAIN jobs'[k].items = Accounts /\ jobs'[k].status = FinalStatus(k)
  BY <1>2, <1>5, <1>6
<1>9. Whole(k)'
  BY <1>2, <1>7, <1>8 DEF Whole, FinalStatus
<1> QED BY <1>2, <1>3, <1>4, <1>5, <1>8, <1>9

(* The steps of the drain.                                                 *)
LEMMA DrainStepKeeps ==
  ASSUME JobsInv, DrainStep
  PROVE  JobsInv'
<1>0. PlansTypes /\ DrainOwns
  BY DEF JobsInv
<1>1. ASSUME drain.at # "off"
      PROVE  /\ drain.job \in 1..Len(jobs) /\ jobs[drain.job] \in JobSet
             /\ DOMAIN jobs[drain.job].items = Accounts
             /\ drain.at # "run" => RestsIn(drain.job)
             /\ \A st : WithStatus(drain.job, st) \subseteq Accounts
  BY <1>0, <1>1, ItemsAreGens DEF DrainOwns, WithStatus
<1>2. drain \in DrainSet /\ Cardinality(drain.chunk) <= Width /\ faults \in 0..MaxFaults
  BY <1>0 DEF PlansTypes
<1>3. CASE DrainStarts
  <2> SUFFICES ASSUME NEW k, k = drain.job PROVE JobsInv'
    OBVIOUS
  <2> DEFINE r == [jobs[k] EXCEPT !.status = "running", !.started = "recent"]
  <2>1. /\ drain.at = "start" /\ jobs' = [jobs EXCEPT ![k] = r]
        /\ drain' = [drain EXCEPT !.at = "list"] /\ UNCHANGED <<post, gens, inFlight, locks, faults>>
    BY <1>3 DEF DrainStarts, Started
  <2>2. r \in JobSet /\ r.items = jobs[k].items /\ r.status = "running"
    BY <1>1, <2>1 DEF JobSet
  <2>3. /\ drain' \in DrainSet /\ drain'.at = "list" /\ drain'.job = k
        /\ drain'.chunk = drain.chunk
    BY <1>2, <2>1 DEF DrainSet
  <2>4. RestsIn(k) /\ drain.at # "off"
    BY <1>1, <2>1
  <2>5. k \in 1..Len(jobs) /\ jobs \in Seq(JobSet)
    BY <1>0, <1>1, <2>1 DEF PlansTypes
  <2> HIDE DEF r
  <2>6. jobs'[k] = r
    BY <2>1, <2>2, <2>5, JobEdit
  <2>7. r.status \notin Finished
    BY <2>2 DEF Finished
  <2>8. /\ PlansTypes' /\ PostsOwn' /\ WorkIsRunning' /\ FinishedIsWhole' /\ RestsIn(k)'
        /\ Len(jobs') = Len(jobs)
        /\ jobs'[k].items = jobs[k].items /\ DOMAIN jobs[k].items = Accounts
    BY <1>2, <2>1, <2>2, <2>3, <2>4, <2>7, DrainWrites
  <2>9. DrainOwns'
    <3>1. jobs'[k].status = "running" /\ k \in 1..Len(jobs') /\ DOMAIN jobs'[k].items = Accounts
      BY <2>2, <2>5, <2>6, <2>8
    <3>2. \A a \in Accounts : gens'[<<k, a>>] = "idle"
      BY <2>8 DEF RestsIn
    <3> QED BY <2>3, <3>1, <3>2 DEF DrainOwns, RestsIn
  <2> QED BY <2>8, <2>9 DEF JobsInv
<1>4. CASE DrainLists
  <2> DEFINE S == WithStatus(drain.job, "pending")
  <2>1. drain.at = "list" /\ UNCHANGED <<jobs, post, inFlight, locks, faults>>
    BY <1>4 DEF DrainLists
  <2>2. S \subseteq Accounts /\ RestsIn(drain.job)
    BY <1>1, <2>1
  <2>3. First(Batch, S) \subseteq S /\ (First(Batch, S) = {} => S = {})
    <3>1. S \subseteq Nat /\ IsFiniteSet(S) /\ Batch \in Nat \ {0}
      BY <2>2, PlansAssumption, FS_Subset
    <3> HIDE DEF S
    <3> QED BY <3>1, FirstIs
  <2>4. CASE First(Batch, S) = {}
    <3>1. drain' = [drain EXCEPT !.at = "count"] /\ gens' = gens
      BY <1>4, <2>4 DEF DrainLists
    <3>2. /\ drain' \in DrainSet /\ drain'.at = "count" /\ drain'.job = drain.job
          /\ drain'.chunk = drain.chunk
      BY <1>2, <3>1 DEF DrainSet
    <3>3. S = {} /\ jobs[drain.job].status = "running" /\ DOMAIN jobs[drain.job].items = Accounts
      BY <1>0, <1>1, <2>1, <2>3, <2>4 DEF DrainOwns
    <3>4. PlansTypes' /\ PostsOwn' /\ WorkIsRunning' /\ FinishedIsWhole'
      BY <1>1, <1>2, <2>1, <2>2, <3>1, <3>2, DrainWrites
    <3>5. DrainOwns'
      BY <1>1, <2>1, <2>2, <3>1, <3>2, <3>3 DEF DrainOwns, RestsIn, WithStatus
    <3> QED BY <3>4, <3>5 DEF JobsInv
  <2>5. CASE First(Batch, S) # {}
    <3>1. RunChunk(First(Batch, S))
      BY <1>4, <2>5 DEF DrainLists
    <3>2. First(Batch, S) \in SUBSET Accounts
      BY <2>2, <2>3
    <3> QED BY <2>1, <2>2, <3>1, <3>2, RunChunkKeeps
  <2> QED BY <2>4, <2>5
<1>5. CASE DrainGoesOn
  <2>1. /\ drain.at = "run" /\ UNCHANGED <<jobs, post, inFlight, locks, faults>>
        /\ \A a \in drain.chunk : gens[<<drain.job, a>>] = "idle"
    BY <1>5 DEF DrainGoesOn, ChunkDone
  <2>2. RestsIn(drain.job) /\ jobs[drain.job].status = "running" /\ drain.at # "off"
    BY <1>0, <2>1 DEF DrainOwns, RestsIn
  <2>3. CASE drain.batch # {}
    <3>1. RunChunk(drain.batch) /\ drain.batch \in SUBSET Accounts
      BY <1>2, <1>5, <2>3 DEF DrainGoesOn, DrainSet
    <3> QED BY <2>1, <2>2, <3>1, RunChunkKeeps
  <2>4. CASE drain.batch = {}
    <3>1. drain' = [drain EXCEPT !.at = "list", !.chunk = {}] /\ gens' = gens
      BY <1>5, <2>4 DEF DrainGoesOn
    <3>2. /\ drain' \in DrainSet /\ drain'.at = "list" /\ drain'.job = drain.job
          /\ drain'.chunk = {}
      BY <1>2, <3>1 DEF DrainSet
    <3>3. Cardinality(drain'.chunk) <= Width
      BY <3>2, OffIs
    <3>4. /\ PlansTypes' /\ PostsOwn' /\ WorkIsRunning' /\ FinishedIsWhole'
      BY <1>1, <1>2, <2>1, <2>2, <3>1, <3>2, <3>3, DrainWrites
    <3>5. DrainOwns'
      BY <1>1, <2>1, <2>2, <3>1, <3>2 DEF DrainOwns, RestsIn
    <3> QED BY <3>4, <3>5 DEF JobsInv
  <2> QED BY <2>3, <2>4
<1>6. CASE DrainCounts
  <2>1. /\ drain.at = "count" /\ UNCHANGED <<jobs, post, gens, inFlight, locks, faults>>
        /\ drain' = [drain EXCEPT !.at = "complete", !.final = FinalStatus(drain.job)]
    BY <1>6 DEF DrainCounts
  <2>2. FinalStatus(drain.job) \in Finished
    BY DEF FinalStatus, Finished
  <2>3. /\ drain' \in DrainSet /\ drain'.at = "complete" /\ drain'.job = drain.job
        /\ drain'.chunk = drain.chunk /\ drain'.final = FinalStatus(drain.job)
    BY <1>2, <2>1, <2>2 DEF DrainSet
  <2>4. RestsIn(drain.job) /\ jobs[drain.job].status = "running"
        /\ WithStatus(drain.job, "pending") = {}
    BY <1>0, <2>1 DEF DrainOwns
  <2>5. PlansTypes' /\ PostsOwn' /\ WorkIsRunning' /\ FinishedIsWhole'
    BY <1>1, <1>2, <2>1, <2>3, <2>4, DrainWrites
  <2>6. DrainOwns'
    BY <1>1, <2>1, <2>3, <2>4 DEF DrainOwns, RestsIn, WithStatus, FinalStatus
  <2> QED BY <2>5, <2>6 DEF JobsInv
<1>7. CASE DrainCompletes
  <2> SUFFICES ASSUME NEW k, k = drain.job PROVE JobsInv'
    OBVIOUS
  <2> DEFINE r == [jobs[k] EXCEPT !.status = drain.final]
  <2>1. /\ drain.at = "complete" /\ jobs' = Completed(k, drain.final)
        /\ drain' = [drain EXCEPT !.at = "leave"] /\ UNCHANGED <<post, gens, inFlight, locks, faults>>
    BY <1>7 DEF DrainCompletes
  <2>2. /\ r \in JobSet /\ r.items = jobs[k].items /\ jobs' = [jobs EXCEPT ![k] = r]
        /\ RestsIn(k) /\ jobs'[k].status \in Finished /\ Whole(k)'
    BY <2>1, CompletedIs
  <2>3. /\ drain' \in DrainSet /\ drain'.at = "leave" /\ drain'.job = k
        /\ drain'.chunk = drain.chunk
    BY <1>2, <2>1 DEF DrainSet
  <2> HIDE DEF r
  <2>4. /\ PlansTypes' /\ PostsOwn' /\ WorkIsRunning' /\ FinishedIsWhole' /\ RestsIn(k)'
        /\ Len(jobs') = Len(jobs) /\ k \in 1..Len(jobs)
    BY <1>2, <2>1, <2>2, <2>3, DrainWrites
  <2>5. DrainOwns'
    <3>1. \A a \in Accounts : gens'[<<k, a>>] = "idle"
      BY <2>4 DEF RestsIn
    <3>2. DOMAIN jobs'[k].items = Accounts
      BY <2>2 DEF Whole
    <3> QED BY <2>3, <2>4, <3>1, <3>2 DEF DrainOwns, RestsIn
  <2> QED BY <2>4, <2>5 DEF JobsInv
<1>8. CASE DrainLeaves
  <2>1. drain.at = "leave" /\ drain' = Off /\ UNCHANGED <<jobs, post, gens, inFlight, locks, faults>>
    BY <1>8 DEF DrainLeaves
  <2>2. PlansTypes' /\ PostsOwn' /\ WorkIsRunning' /\ FinishedIsWhole'
    BY <1>1, <1>2, <2>1, OffIs, DrainWrites
  <2>3. DrainOwns'
    BY <2>1, OffIs DEF DrainOwns
  <2> QED BY <2>2, <2>3 DEF JobsInv
<1> QED BY <1>3, <1>4, <1>5, <1>6, <1>7, <1>8 DEF DrainStep

(* A query of the drain fails.                                             *)
LEMMA DrainFailsKeeps ==
  ASSUME JobsInv, DrainFails
  PROVE  JobsInv'
<1> SUFFICES ASSUME NEW k, k = drain.job PROVE JobsInv'
  OBVIOUS
<1>1. /\ drain.at \in {"start", "list", "count", "complete"} /\ drain' = Off
      /\ UNCHANGED <<post, gens, inFlight, locks>>
      /\ faults < MaxFaults /\ faults' = faults + 1
  BY DEF DrainFails, Fault
<1>2. PlansTypes /\ DrainOwns
  BY DEF JobsInv
<1>3. /\ k \in 1..Len(jobs) /\ jobs[k] \in JobSet /\ RestsIn(k) /\ drain.at # "off"
      /\ faults' \in 0..MaxFaults
  <2>1. faults \in 0..MaxFaults /\ MaxFaults \in Nat
    BY <1>2, PlansAssumption DEF PlansTypes
  <2> QED BY <1>1, <1>2, <2>1, ItemsAreGens DEF DrainOwns
<1>4. DrainOwns'
  BY <1>1, OffIs DEF DrainOwns
<1>5. CASE jobs' = jobs
  BY <1>1, <1>3, <1>4, <1>5, OffIs, DrainWrites DEF JobsInv
<1>6. CASE jobs' = Started(k)
  <2> DEFINE r == [jobs[k] EXCEPT !.status = "running", !.started = "recent"]
  <2>1. r \in JobSet /\ r.items = jobs[k].items /\ r.status \notin Finished
    BY <1>3 DEF JobSet, Finished
  <2>2. jobs' = [jobs EXCEPT ![k] = r]
    BY <1>6 DEF Started
  <2> HIDE DEF r
  <2> QED BY <1>1, <1>3, <1>4, <2>1, <2>2, OffIs, DrainWrites DEF JobsInv
<1>7. CASE drain.at = "complete" /\ jobs' = Completed(k, drain.final)
  <2> DEFINE r == [jobs[k] EXCEPT !.status = drain.final]
  <2>1. /\ r \in JobSet /\ r.items = jobs[k].items /\ jobs' = [jobs EXCEPT ![k] = r]
        /\ Whole(k)'
    BY <1>7, CompletedIs
  <2> HIDE DEF r
  <2> QED BY <1>1, <1>3, <1>4, <2>1, OffIs, DrainWrites DEF JobsInv
<1> QED BY <1>5, <1>6, <1>7 DEF DrainFails

(* A restart leaves only what is written.                                  *)
LEMMA RestartKeeps ==
  ASSUME JobsInv, Restart
  PROVE  JobsInv'
<1>1. /\ drain' = Off /\ post' = [p \in Posts |-> [at |-> "idle", job |-> 0]]
      /\ gens' = [g \in Gens |-> "idle"] /\ inFlight' = {} /\ jobs' = jobs /\ locks' = locks
      /\ faults < MaxFaults /\ faults' = faults + 1
  BY DEF Restart, Fault
<1>2. PlansTypes
  BY DEF JobsInv
<1>3. PlansTypes'
  <2>1. faults' \in 0..MaxFaults /\ MaxBulkJobs \in Nat /\ Len(jobs) \in Nat
    BY <1>1, <1>2, PlansAssumption DEF PlansTypes
  <2>2. post' \in [Posts -> PostSet]
    BY <1>1, <2>1 DEF PostSet
  <2> QED BY <1>1, <1>2, <2>1, <2>2, OffIs DEF PlansTypes
<1>4. PostsOwn' /\ DrainOwns'
  BY <1>1, OffIs DEF PostsOwn, DrainOwns
<1>5. WorkIsRunning'
  BY <1>1, <1>2, ItemsAreGens DEF WorkIsRunning
<1>6. FinishedIsWhole'
  BY <1>1 DEF JobsInv, FinishedIsWhole, WithStatus
<1> QED BY <1>3, <1>4, <1>5, <1>6 DEF JobsInv

(* Time passes: jobs only get older.                                       *)
LEMMA ExpireKeeps ==
  ASSUME JobsInv, LocksExpire
  PROVE  JobsInv'
<1>1. /\ jobs' = [j \in 1..Len(jobs) |->
                    IF jobs[j].started = "recent" THEN [jobs[j] EXCEPT !.started = "old"]
                    ELSE jobs[j]]
      /\ locks' \subseteq locks /\ UNCHANGED <<drain, post, gens, inFlight, faults>>
  BY DEF LocksExpire
<1>2. PlansTypes /\ Len(jobs) \in Nat /\ \A j \in 1..Len(jobs) : jobs[j] \in JobSet
  BY ItemsAreGens DEF JobsInv
<1>3. \A j \in 1..Len(jobs) : /\ jobs'[j] \in JobSet /\ jobs'[j].status = jobs[j].status
                              /\ jobs'[j].items = jobs[j].items
  BY <1>1, <1>2 DEF JobSet
<1>4. jobs' \in Seq(JobSet) /\ Len(jobs') = Len(jobs)
  BY <1>1, <1>2, <1>3
<1>5. PlansTypes'
  BY <1>1, <1>2, <1>4 DEF PlansTypes
<1>6. \A j : RestsIn(j)' <=> RestsIn(j)
  BY <1>1 DEF RestsIn
<1>7. PostsOwn'
  BY <1>1, <1>3, <1>4, <1>6 DEF JobsInv, PostsOwn
<1>8. DrainOwns'
  <2> SUFFICES ASSUME drain.at # "off" PROVE DrainOwns'
    BY <1>1 DEF DrainOwns
  <2>1. drain' = drain /\ drain.job \in 1..Len(jobs)
    BY <1>1 DEF JobsInv, DrainOwns
  <2>2. /\ jobs'[drain.job].status = jobs[drain.job].status
        /\ jobs'[drain.job].items = jobs[drain.job].items
    BY <1>3, <2>1
  <2>3. /\ WithStatus(drain.job, "pending")' = WithStatus(drain.job, "pending")
        /\ FinalStatus(drain.job)' = FinalStatus(drain.job)
    BY <2>1, <2>2 DEF WithStatus, FinalStatus
  <2>4. RestsIn(drain.job)' <=> RestsIn(drain.job)
    BY <1>1 DEF RestsIn
  <2>5. gens' = gens
    BY <1>1
  <2> QED BY <1>4, <2>1, <2>2, <2>3, <2>4, <2>5 DEF JobsInv, DrainOwns
<1>9. WorkIsRunning'
  BY <1>1, <1>3, <1>4 DEF JobsInv, WorkIsRunning
<1>10. FinishedIsWhole'
  <2> SUFFICES ASSUME NEW i \in 1..Len(jobs'), jobs'[i].status \in Finished
               PROVE  Whole(i)'
    BY DEF FinishedIsWhole, Whole
  <2>1. /\ i \in 1..Len(jobs) /\ jobs'[i].status = jobs[i].status
        /\ jobs'[i].items = jobs[i].items
    BY <1>3, <1>4
  <2>2. Whole(i)
    BY <2>1 DEF JobsInv, FinishedIsWhole, Whole
  <2> QED BY <2>1, <2>2, SameItems
<1> QED BY <1>5, <1>7, <1>8, <1>9, <1>10 DEF JobsInv

(* A job is inserted, without items, or not; the handler goes on with it   *)
(* or fails.                                                               *)
LEMMA InsertsJobKeeps ==
  ASSUME JobsInv, NEW p \in Posts, Len(jobs) < MaxBulkJobs \/ jobs' = jobs,
         jobs' \in {jobs, Append(jobs, NewJob)},
         NEW q \in PostSet, post' = [post EXCEPT ![p] = q],
         q.at = "items" => jobs' = Append(jobs, NewJob) /\ q.job = Len(jobs) + 1,
         UNCHANGED <<drain, gens, inFlight, locks>>, faults' \in 0..MaxFaults
  PROVE  JobsInv'
<1>1. /\ PlansTypes /\ Len(jobs) \in Nat /\ 1..Len(jobs) \subseteq BulkJobs
      /\ \A j \in BulkJobs, a \in Accounts : <<j, a>> \in Gens
  BY ItemsAreGens DEF JobsInv
<1>2. NewJob \in JobSet /\ NewJob.status = "queued"
  <2>1. [a \in {} |-> a] \in [{} -> ItemStates]
    OBVIOUS
  <2> QED BY <2>1 DEF NewJob, JobSet, ItemMaps
<1>3. /\ jobs' \in Seq(JobSet) /\ Len(jobs') \in Nat /\ Len(jobs') >= Len(jobs)
      /\ Len(jobs') <= Len(jobs) + 1 /\ Len(jobs') <= MaxBulkJobs
      /\ \A j \in 1..Len(jobs) : jobs'[j] = jobs[j]
      /\ \A j \in 1..Len(jobs') : j \in 1..Len(jobs) \/ (j = Len(jobs) + 1 /\ jobs'[j] = NewJob)
  <2>1. jobs \in Seq(JobSet) /\ Len(jobs) <= MaxBulkJobs /\ MaxBulkJobs \in Nat
    BY <1>1, PlansAssumption DEF PlansTypes
  <2>2. CASE jobs' = jobs
    BY <1>1, <2>1, <2>2
  <2>3. CASE jobs' = Append(jobs, NewJob) /\ Len(jobs) < MaxBulkJobs
    <3> DEFINE n == NewJob
    <3>1. n \in JobSet /\ jobs' = Append(jobs, n)
      BY <1>2, <2>3
    <3> HIDE DEF n
    <3>2. jobs' \in Seq(JobSet) /\ Len(jobs') = Len(jobs) + 1 /\ jobs'[Len(jobs) + 1] = n
          /\ \A j \in 1..Len(jobs) : jobs'[j] = jobs[j]
      BY <2>1, <3>1
    <3>3. \A j \in 1..Len(jobs') : j \in 1..Len(jobs) \/ (j = Len(jobs) + 1 /\ jobs'[j] = n)
      BY <1>1, <3>2
    <3> QED BY <1>1, <2>1, <2>3, <3>2, <3>3 DEF n
  <2> QED BY <2>2, <2>3
<1>4. PlansTypes'
  <2>1. drain.job \in 0..Len(jobs')
    BY <1>1, <1>3 DEF PlansTypes
  <2>2. post' \in [Posts -> PostSet]
    BY <1>1 DEF PlansTypes
  <2> QED BY <1>1, <1>3, <2>1, <2>2 DEF PlansTypes
<1>5. \A j \in 1..Len(jobs) : \A st : WithStatus(j, st)' = WithStatus(j, st)
  BY <1>3 DEF WithStatus
<1>6. ASSUME Len(jobs') = Len(jobs) + 1
      PROVE  RestsIn(Len(jobs) + 1)
  <2>1. Len(jobs) + 1 \in BulkJobs /\ Len(jobs) + 1 \notin 1..Len(jobs)
    BY <1>1, <1>3, <1>6, PlansAssumption DEF BulkJobs
  <2> QED BY <2>1 DEF JobsInv, WorkIsRunning, RestsIn
<1>7. PostsOwn'
  <2> SUFFICES ASSUME NEW o \in Posts, post'[o].at = "items"
               PROVE  /\ post'[o].job \in 1..Len(jobs') /\ jobs'[post'[o].job].status = "queued"
                      /\ \A a \in Accounts : gens[<<post'[o].job, a>>] = "idle"
                      /\ drain.at # "off" => drain.job # post'[o].job
                      /\ \A u \in Posts \ {o} :
                            post'[u].at = "items" => post'[u].job # post'[o].job
    BY DEF PostsOwn, RestsIn
  <2>1. \A u \in Posts \ {p} : post'[u] = post[u]
    BY <1>1 DEF PlansTypes
  <2>2. post'[p] = q
    BY <1>1 DEF PlansTypes
  <2>3. \A u \in Posts : post[u].at = "items" =>
          /\ post[u].job \in 1..Len(jobs) /\ jobs[post[u].job].status = "queued"
          /\ RestsIn(post[u].job) /\ (drain.at # "off" => drain.job # post[u].job)
          /\ \A w \in Posts \ {u} : post[w].at = "items" => post[w].job # post[u].job
    BY DEF JobsInv, PostsOwn
  <2>4. q.at = "items" => /\ q.job = Len(jobs) + 1 /\ q.job = Len(jobs') /\ q.job \notin 1..Len(jobs)
                          /\ q.job \in 1..Len(jobs') /\ jobs'[q.job] = NewJob /\ RestsIn(q.job)
    <3> SUFFICES ASSUME q.at = "items"
                 PROVE  /\ q.job = Len(jobs) + 1 /\ q.job = Len(jobs') /\ q.job \notin 1..Len(jobs)
                        /\ q.job \in 1..Len(jobs') /\ jobs'[q.job] = NewJob /\ RestsIn(q.job)
      OBVIOUS
    <3>1. Len(jobs') = Len(jobs) + 1 /\ q.job = Len(jobs) + 1
      BY <1>1 DEF PlansTypes
    <3> QED BY <1>1, <1>3, <1>6, <3>1
  <2>5. drain.at # "off" => drain.job \in 1..Len(jobs)
    BY DEF JobsInv, DrainOwns
  <2>6. CASE o = p
    BY <1>2, <2>1, <2>2, <2>3, <2>4, <2>5, <2>6 DEF RestsIn
  <2>7. CASE o # p
    <3>1. post'[o] = post[o] /\ post[o].at = "items"
      BY <2>1, <2>7
    <3>2. /\ post[o].job \in 1..Len(jobs) /\ jobs[post[o].job].status = "queued"
          /\ RestsIn(post[o].job) /\ (drain.at # "off" => drain.job # post[o].job)
      BY <2>3, <3>1
    <3>3. \A u \in Posts \ {o} : post'[u].at = "items" => post'[u].job # post[o].job
      BY <2>1, <2>2, <2>3, <2>4, <3>1, <3>2
    <3> QED BY <1>1, <1>3, <3>1, <3>2, <3>3 DEF RestsIn
  <2> QED BY <2>6, <2>7
<1>8. DrainOwns'
  <2> SUFFICES ASSUME drain.at # "off" PROVE DrainOwns'
    BY DEF DrainOwns
  <2>1. drain.job \in 1..Len(jobs) /\ drain.job \in 1..Len(jobs')
    BY <1>1, <1>3 DEF JobsInv, DrainOwns
  <2>2. jobs'[drain.job] = jobs[drain.job]
    BY <1>3, <2>1
  <2>3. /\ WithStatus(drain.job, "pending")' = WithStatus(drain.job, "pending")
        /\ FinalStatus(drain.job)' = FinalStatus(drain.job)
    BY <2>2 DEF WithStatus, FinalStatus
  <2>4. RestsIn(drain.job)' <=> RestsIn(drain.job)
    BY DEF RestsIn
  <2> QED BY <2>1, <2>2, <2>3, <2>4 DEF JobsInv, DrainOwns
<1>9. WorkIsRunning'
  <2> SUFFICES ASSUME NEW i \in BulkJobs, NEW a \in Accounts, gens[<<i, a>>] # "idle"
               PROVE  /\ i \in 1..Len(jobs') /\ jobs'[i].status = "running"
                      /\ DOMAIN jobs'[i].items = Accounts
    BY DEF WorkIsRunning
  <2>1. /\ i \in 1..Len(jobs) /\ jobs[i].status = "running" /\ DOMAIN jobs[i].items = Accounts
    BY DEF JobsInv, WorkIsRunning
  <2> QED BY <1>1, <1>3, <2>1
<1>10. FinishedIsWhole'
  <2> SUFFICES ASSUME NEW i \in 1..Len(jobs'), jobs'[i].status \in Finished
               PROVE  Whole(i)'
    BY DEF FinishedIsWhole, Whole
  <2>1. i \in 1..Len(jobs)
    BY <1>2, <1>3 DEF Finished
  <2>2. jobs'[i] = jobs[i]
    BY <1>3, <2>1
  <2>3. Whole(i)
    BY <2>1, <2>2 DEF JobsInv, FinishedIsWhole, Whole
  <2> QED BY <2>2, <2>3, SameItems
<1> QED BY <1>4, <1>7, <1>8, <1>9, <1>10 DEF JobsInv

(* The items of a handler's job are inserted, or not; the job is drained   *)
(* if no other one is.                                                     *)
LEMMA InsertsItemsKeeps ==
  ASSUME JobsInv, NEW p \in Posts, post[p].at = "items",
         jobs' \in {jobs, WithItems(post[p].job)},
         Goto(p, "idle", 0),
         \/ drain' = drain
         \/ /\ drain.at = "off" /\ jobs' = WithItems(post[p].job)
            /\ drain' = [Off EXCEPT !.at = "start", !.job = post[p].job],
         UNCHANGED <<gens, inFlight, locks>>, faults' \in 0..MaxFaults
  PROVE  JobsInv'
<1> SUFFICES ASSUME NEW k, k = post[p].job PROVE JobsInv'
  OBVIOUS
<1>1. /\ PlansTypes /\ Len(jobs) \in Nat /\ 1..Len(jobs) \subseteq BulkJobs
      /\ \A j \in 1..Len(jobs) : jobs[j] \in JobSet
  BY ItemsAreGens DEF JobsInv
<1>2. /\ k \in 1..Len(jobs) /\ jobs[k].status = "queued" /\ RestsIn(k)
      /\ drain.at # "off" => drain.job # k
      /\ \A u \in Posts \ {p} : post[u].at = "items" => post[u].job # k
  BY DEF JobsInv, PostsOwn
<1> DEFINE items == [a \in Accounts |-> "pending"]
           r == [jobs[k] EXCEPT !.items = items]
<1>3. r \in JobSet /\ r.status = "queued" /\ r.items = items /\ DOMAIN r.items = Accounts
  <2>1. items \in [Accounts -> ItemStates]
    BY DEF ItemStates
  <2>2. DOMAIN items = Accounts
    OBVIOUS
  <2> HIDE DEF items
  <2> QED BY <1>1, <1>2, <2>1, <2>2 DEF JobSet, ItemMaps
<1>4. WithItems(k) = [jobs EXCEPT ![k] = r]
  BY DEF WithItems
<1> HIDE DEF r, items
<1>5. /\ jobs' \in Seq(JobSet) /\ Len(jobs') = Len(jobs) /\ jobs'[k].status = "queued"
      /\ \A j \in 1..Len(jobs) : j # k => jobs'[j] = jobs[j]
      /\ jobs' = WithItems(k) => DOMAIN jobs'[k].items = Accounts
  <2>1. jobs \in Seq(JobSet)
    BY <1>1 DEF PlansTypes
  <2>2. ASSUME jobs' = WithItems(k)
        PROVE  /\ jobs' \in Seq(JobSet) /\ Len(jobs') = Len(jobs) /\ jobs'[k] = r
               /\ \A j \in 1..Len(jobs) : j # k => jobs'[j] = jobs[j]
    BY <1>2, <1>3, <1>4, <2>1, <2>2, JobEdit
  <2> QED BY <1>2, <1>3, <2>1, <2>2
<1>6. post' = [post EXCEPT ![p] = [at |-> "idle", job |-> 0]]
  BY DEF Goto
<1>7. /\ \A u \in Posts : post'[u].at = "items" => u # p /\ post'[u] = post[u]
      /\ post' \in [Posts -> PostSet]
  <2>1. [at |-> "idle", job |-> 0] \in PostSet
    BY PlansAssumption DEF PostSet
  <2> QED BY <1>1, <1>6, <2>1 DEF PlansTypes
<1>8. /\ drain' \in DrainSet /\ drain'.job \in 0..Len(jobs) /\ Cardinality(drain'.chunk) <= Width
      /\ drain' # drain => /\ drain.at = "off" /\ drain'.at = "start" /\ drain'.job = k
                           /\ drain'.chunk = {} /\ jobs' = WithItems(k)
  <2>1. CASE drain' = drain
    BY <1>1, <2>1 DEF PlansTypes
  <2>2. CASE drain' = [Off EXCEPT !.at = "start", !.job = k] /\ drain.at = "off"
             /\ jobs' = WithItems(k)
    <3>1. drain' = [at |-> "start", job |-> k, batch |-> {}, chunk |-> {}, final |-> "none"]
      BY <2>2 DEF Off
    <3>2. k \in Nat /\ k \in 0..Len(jobs)
      BY <1>1, <1>2
    <3>3. drain'.at = "start" /\ drain'.job = k /\ drain'.chunk = {} /\ drain' \in DrainSet
      BY <3>1, <3>2 DEF DrainSet
    <3>4. Cardinality(drain'.chunk) <= Width
      BY <3>3, OffIs
    <3> QED BY <2>2, <3>2, <3>3, <3>4
  <2> QED BY <2>1, <2>2
<1>9. PlansTypes'
  BY <1>1, <1>5, <1>7, <1>8 DEF PlansTypes
<1>10. \A j : RestsIn(j)' <=> RestsIn(j)
  BY DEF RestsIn
<1>11. PostsOwn'
  <2> SUFFICES ASSUME NEW o \in Posts, post'[o].at = "items"
               PROVE  /\ post'[o].job \in 1..Len(jobs') /\ jobs'[post'[o].job].status = "queued"
                      /\ RestsIn(post[o].job)' /\ post'[o] = post[o]
                      /\ drain'.at # "off" => drain'.job # post'[o].job
                      /\ \A u \in Posts \ {o} :
                            post'[u].at = "items" => post'[u].job # post'[o].job
    BY DEF PostsOwn, RestsIn
  <2>1. o # p /\ post'[o] = post[o] /\ post[o].at = "items"
    BY <1>7
  <2>2. /\ post[o].job \in 1..Len(jobs) /\ jobs[post[o].job].status = "queued"
        /\ RestsIn(post[o].job) /\ (drain.at # "off" => drain.job # post[o].job)
        /\ \A u \in Posts \ {o} : post[u].at = "items" => post[u].job # post[o].job
    BY <2>1 DEF JobsInv, PostsOwn
  <2>3. post[o].job # k
    BY <1>2, <2>1
  <2>4. RestsIn(post[o].job)'
    BY <2>1, <2>2 DEF RestsIn
  <2> QED BY <1>5, <1>7, <1>8, <2>1, <2>2, <2>3, <2>4
<1>12. DrainOwns'
  <2> SUFFICES ASSUME drain'.at # "off" PROVE DrainOwns'
    BY DEF DrainOwns
  <2>1. CASE drain' = drain
    <3>1. drain.job \in 1..Len(jobs) /\ jobs'[drain.job] = jobs[drain.job]
      BY <1>2, <1>5, <2>1 DEF JobsInv, DrainOwns
    <3>2. /\ WithStatus(drain.job, "pending")' = WithStatus(drain.job, "pending")
          /\ FinalStatus(drain.job)' = FinalStatus(drain.job)
          /\ RestsIn(drain.job)' <=> RestsIn(drain.job)
      BY <2>1, <3>1 DEF WithStatus, FinalStatus, RestsIn
    <3> QED BY <1>5, <2>1, <3>1, <3>2 DEF JobsInv, DrainOwns
  <2>2. CASE drain' # drain
    <3>1. \A a \in Accounts : gens'[<<k, a>>] = "idle"
      BY <1>2 DEF RestsIn
    <3> QED BY <1>2, <1>5, <1>8, <2>2, <3>1 DEF DrainOwns, RestsIn
  <2> QED BY <2>1, <2>2
<1>13. WorkIsRunning'
  <2> SUFFICES ASSUME NEW i \in BulkJobs, NEW a \in Accounts, gens[<<i, a>>] # "idle"
               PROVE  /\ i \in 1..Len(jobs') /\ jobs'[i].status = "running"
                      /\ DOMAIN jobs'[i].items = Accounts
    BY DEF WorkIsRunning
  <2>1. /\ i \in 1..Len(jobs) /\ jobs[i].status = "running" /\ DOMAIN jobs[i].items = Accounts
    BY DEF JobsInv, WorkIsRunning
  <2>2. i # k
    BY <1>2, <2>1
  <2> QED BY <1>5, <2>1, <2>2
<1>14. FinishedIsWhole'
  <2> SUFFICES ASSUME NEW i \in 1..Len(jobs'), jobs'[i].status \in Finished
               PROVE  Whole(i)'
    BY DEF FinishedIsWhole, Whole
  <2>1. i \in 1..Len(jobs) /\ i # k
    BY <1>5 DEF Finished
  <2>2. jobs'[i] = jobs[i]
    BY <1>5, <2>1
  <2>3. Whole(i)
    BY <2>1, <2>2 DEF JobsInv, FinishedIsWhole, Whole
  <2> QED BY <2>2, <2>3, SameItems
<1> QED BY <1>9, <1>11, <1>12, <1>13, <1>14 DEF JobsInv

-----------------------------------------------------------------------------
(* Turns and causes.                                                       *)

(* Steps that leave the refreshes alone, and their rows.                   *)
LEMMA TurnsRest ==
  ASSUME TurnsInv, \A g \in Refreshers : gens'[g] = gens[g],
         \A g \in locks : gens[g] \in Collecting => g \in locks'
  PROVE  TurnsInv'
<1>1. RefreshesTakeTurns'
  BY DEF TurnsInv, RefreshesTakeTurns
<1>2. CollectorsHold'
  BY DEF TurnsInv, CollectorsHold
<1> QED BY <1>1, <1>2 DEF TurnsInv

(* Steps that end no work.                                                 *)
LEMMA CausesRest ==
  ASSUME CauseInv, inFlight' = inFlight, locks' \subseteq locks, locks \subseteq Gens,
         faults' = 0 => faults = 0,
         \A g \in Gens : gens[g] \in AtWork => gens'[g] \in AtWork
  PROVE  CauseInv'
<1>1. InFlightForCause'
  BY DEF CauseInv, InFlightForCause
<1>2. RowsForCause'
  BY DEF CauseInv, RowsForCause
<1> QED BY <1>1, <1>2 DEF CauseInv

(* Everything but a generation's own steps.                                *)
LEMMA OthersKeepTurns ==
  ASSUME PlansIInv,
         \/ \E p \in Posts : PostFindsNone(p) \/ PostInsertsJob(p) \/ PostInsertsItems(p)
                             \/ PostFails(p)
         \/ DrainStep \/ DrainFails \/ Restart \/ LocksExpire
         \/ \E g \in Gens : Mark(g) \/ MarkFails(g)
  PROVE  TurnsInv' /\ CauseInv'
<1>1. PlansTypes /\ TurnsInv /\ CauseInv /\ DrainOwns
  BY DEF PlansIInv, JobsInv
<1>2. locks \subseteq Gens /\ faults \in Nat /\ DOMAIN gens = Gens /\ Refreshers \subseteq Gens
  BY <1>1, PlansAssumption DEF PlansTypes, Gens
<1>3. ASSUME UNCHANGED <<gens, inFlight, locks>>, faults' = 0 => faults = 0
      PROVE  TurnsInv' /\ CauseInv'
  <2>1. gens' = gens /\ inFlight' = inFlight /\ locks' = locks
    BY <1>3
  <2>2. TurnsInv'
    BY <1>1, <2>1, TurnsRest
  <2>3. CauseInv'
    BY <1>1, <1>2, <1>3, <2>1, CausesRest
  <2> QED BY <2>2, <2>3
<1>4. ASSUME NEW p \in Posts,
             PostFindsNone(p) \/ PostInsertsJob(p) \/ PostInsertsItems(p) \/ PostFails(p)
      PROVE  TurnsInv' /\ CauseInv'
  <2>1. UNCHANGED <<gens, inFlight, locks>>
    BY <1>4 DEF PostFindsNone, PostInsertsJob, PostInsertsItems, PostFails
  <2>2. faults' = faults \/ faults' = faults + 1
    BY <1>4 DEF PostFindsNone, PostInsertsJob, PostInsertsItems, PostFails, Fault
  <2> QED BY <1>2, <1>3, <2>1, <2>2
<1>5. ASSUME NEW batch, drain.at \in {"list", "run"}, RestsIn(drain.job), RunChunk(batch),
             batch \subseteq Accounts, UNCHANGED <<inFlight, locks, faults>>
      PROVE  TurnsInv' /\ CauseInv'
  <2> DEFINE chunk == First(Width, batch)
  <2>1. gens' = [g \in Gens |-> IF g \in {drain.job} \X chunk THEN "begin" ELSE gens[g]]
    BY <1>5 DEF RunChunk
  <2>2. chunk \subseteq Accounts
    BY <1>5 DEF First
  <2>3. drain.job \in BulkJobs
    BY <1>1, <1>5, ItemsAreGens DEF DrainOwns
  <2> HIDE DEF chunk
  <2>4. \A g \in {drain.job} \X chunk : g \in Items /\ gens[g] = "idle"
    BY <1>5, <2>2, <2>3 DEF Items, RestsIn
  <2>5. \A g \in Refreshers : gens'[g] = gens[g]
    BY <1>2, <2>1, <2>4, PlansAssumption DEF Items
  <2>6. \A g \in Gens : gens[g] \in AtWork => gens'[g] \in AtWork
    BY <2>1, <2>4 DEF AtWork, Collecting
  <2> QED BY <1>1, <1>2, <1>5, <2>5, <2>6, TurnsRest, CausesRest
<1>6. ASSUME DrainStep
      PROVE  TurnsInv' /\ CauseInv'
  <2>1. CASE DrainStarts \/ DrainCounts \/ DrainCompletes \/ DrainLeaves
    BY <1>3, <2>1 DEF DrainStarts, DrainCounts, DrainCompletes, DrainLeaves
  <2>2. CASE DrainLists
    <3> DEFINE S == First(Batch, WithStatus(drain.job, "pending"))
    <3>1. /\ drain.at = "list" /\ UNCHANGED <<inFlight, locks, faults>>
          /\ UNCHANGED gens \/ RunChunk(S)
      BY <2>2 DEF DrainLists
    <3>2. RestsIn(drain.job) /\ S \subseteq Accounts
      BY <1>1, <3>1 DEF DrainOwns, First, WithStatus
    <3> HIDE DEF S
    <3> QED BY <1>3, <1>5, <3>1, <3>2
  <2>3. CASE DrainGoesOn
    <3>1. /\ drain.at = "run" /\ UNCHANGED <<inFlight, locks, faults>>
          /\ \A a \in drain.chunk : gens[<<drain.job, a>>] = "idle"
          /\ UNCHANGED gens \/ RunChunk(drain.batch)
      BY <2>3 DEF DrainGoesOn, ChunkDone
    <3>2. RestsIn(drain.job) /\ drain.batch \subseteq Accounts
      BY <1>1, <3>1 DEF DrainOwns, RestsIn, PlansTypes, DrainSet
    <3> QED BY <1>3, <1>5, <3>1, <3>2
  <2> QED BY <1>6, <2>1, <2>2, <2>3 DEF DrainStep
<1>7. ASSUME DrainFails
      PROVE  TurnsInv' /\ CauseInv'
  BY <1>2, <1>3, <1>7 DEF DrainFails, Fault
<1>8. ASSUME Restart
      PROVE  TurnsInv' /\ CauseInv'
  <2>1. gens' = [g \in Gens |-> "idle"] /\ inFlight' = {} /\ faults' = faults + 1
    BY <1>8 DEF Restart, Fault
  <2>2. \A g \in Refreshers : gens'[g] = "idle"
    BY <1>2, <2>1
  <2>3. TurnsInv'
    BY <2>2 DEF TurnsInv, RefreshesTakeTurns, CollectorsHold, Collecting
  <2>4. CauseInv'
    BY <1>2, <2>1 DEF CauseInv, InFlightForCause, RowsForCause
  <2> QED BY <2>3, <2>4
<1>9. ASSUME LocksExpire
      PROVE  TurnsInv' /\ CauseInv'
  <2>1. locks' = {g \in locks : gens[g] \in AtWork} /\ UNCHANGED <<gens, inFlight, faults>>
    BY <1>9 DEF LocksExpire
  <2>2. \A g \in locks : gens[g] \in Collecting => g \in locks'
    BY <2>1 DEF AtWork
  <2>3. locks' \subseteq locks
    BY <2>1
  <2> QED BY <1>1, <1>2, <2>1, <2>2, <2>3, TurnsRest, CausesRest
<1>10. ASSUME NEW g \in Gens, Mark(g) \/ MarkFails(g)
       PROVE  TurnsInv' /\ CauseInv'
  <2>1. /\ gens[g] \in {"succeeded", "failed"} /\ UNCHANGED <<inFlight, locks>>
        /\ \E at : gens' = [gens EXCEPT ![g] = at]
        /\ faults' = faults \/ faults' = faults + 1
    BY <1>10 DEF Mark, MarkFails, Fault, Reject, At
  <2>2. g \in Items /\ g \notin Refreshers
    BY <1>1, <2>1, PlansAssumption DEF PlansTypes, Items
  <2>3. \A h \in Refreshers : gens'[h] = gens[h]
    BY <1>2, <2>1, <2>2
  <2>4. \A h \in Gens : gens[h] \in AtWork => gens'[h] \in AtWork
    BY <2>1 DEF AtWork, Collecting
  <2> QED BY <1>1, <1>2, <2>1, <2>3, <2>4, TurnsRest, CausesRest
<1> QED BY <1>4, <1>6, <1>7, <1>8, <1>9, <1>10

(* A generation moves among its states; the refreshes other than it and    *)
(* the rows other than its own stay.                                       *)
LEMMA GenKeepsTurns ==
  ASSUME PlansIInv, NEW g \in Gens, NEW at, gens' = [gens EXCEPT ![g] = at],
         \A h \in locks : h # g => h \in locks',
         g \in Refreshers => /\ at \in {"asked", "lock"} => at = "asked" \/ gens[g] = "asked"
                             /\ at \in Collecting => g \in locks',
         g \in Refreshers /\ at \in Collecting => gens[g] \in Collecting \cup {"lock"},
         g \in Refreshers /\ at = "asked" /\ SerialChecks =>
           \A h \in Refreshers : gens[h] \notin {"asked", "lock"},
         g \in Refreshers /\ at = "lock" =>
           \A h \in Refreshers : gens[h] \notin Collecting
  PROVE  TurnsInv'
<1>1. PlansTypes /\ TurnsInv /\ DOMAIN gens = Gens /\ Refreshers \subseteq Gens
  BY DEF PlansIInv, JobsInv, PlansTypes, Gens
<1>2. \A h \in Refreshers : h # g => gens'[h] = gens[h]
  BY <1>1
<1>3. gens'[g] = at
  BY <1>1
<1>4. CollectorsHold'
  BY <1>1, <1>2, <1>3 DEF TurnsInv, CollectorsHold
<1>5. ASSUME SerialChecks, g \in Refreshers, NEW h \in Refreshers, h # g
      PROVE  /\ gens'[g] \in {"asked", "lock"} => gens'[h] \notin {"asked", "lock"}
             /\ gens'[g] \in Collecting => gens'[h] \notin Collecting \cup {"lock"}
             /\ gens'[h] \in Collecting => gens'[g] \notin Collecting \cup {"lock"}
  <2>1. gens'[h] = gens[h]
    BY <1>2, <1>5
  <2>2. /\ gens[g] \in {"asked", "lock"} => gens[h] \notin {"asked", "lock"}
        /\ gens[g] \in Collecting => gens[h] \notin Collecting \cup {"lock"}
        /\ gens[h] \in Collecting => gens[g] \notin Collecting \cup {"lock"}
    BY <1>1, <1>5 DEF TurnsInv, RefreshesTakeTurns
  <2>3. CASE at = "asked"
    BY <1>3, <1>5, <2>1, <2>3 DEF Collecting
  <2>4. CASE at = "lock"
    BY <1>3, <1>5, <2>1, <2>2, <2>4 DEF Collecting
  <2>5. CASE at \in Collecting
    BY <1>3, <1>5, <2>1, <2>2, <2>5 DEF Collecting
  <2>6. CASE at \notin Collecting \cup {"asked", "lock"}
    BY <1>3, <2>6
  <2> QED BY <2>3, <2>4, <2>5, <2>6
<1>6. RefreshesTakeTurns'
  BY <1>1, <1>2, <1>5 DEF TurnsInv, RefreshesTakeTurns
<1> QED BY <1>4, <1>6 DEF TurnsInv

(* A generation that goes on with its work, or begins it.                  *)
LEMMA GenKeepsCauses ==
  ASSUME PlansIInv, NEW g \in Gens, NEW at \in AtWork, gens' = [gens EXCEPT ![g] = at],
         inFlight' \subseteq inFlight \cup {AccountOf(g)},
         locks' \subseteq locks \cup {g}, faults' = 0 => faults = 0
  PROVE  CauseInv'
<1>1. PlansTypes /\ CauseInv /\ DOMAIN gens = Gens /\ locks \subseteq Gens
  BY DEF PlansIInv, JobsInv, PlansTypes
<1>2. \A h \in Gens : gens'[h] = gens[h] \/ h = g
  BY <1>1
<1>3. gens'[g] = at
  BY <1>1
<1>4. InFlightForCause'
  <2> SUFFICES ASSUME NEW a \in inFlight'
               PROVE  \E h \in Gens : AccountOf(h) = a /\ gens'[h] \in AtWork
    BY DEF InFlightForCause
  <2>1. CASE a = AccountOf(g)
    BY <1>3, <2>1
  <2>2. CASE a \in inFlight
    <3>1. PICK h \in Gens : AccountOf(h) = a /\ gens[h] \in AtWork
      BY <1>1, <2>2 DEF CauseInv, InFlightForCause
    <3> QED BY <1>2, <1>3, <3>1
  <2> QED BY <2>1, <2>2
<1>5. RowsForCause'
  BY <1>1, <1>2, <1>3 DEF CauseInv, RowsForCause
<1> QED BY <1>4, <1>5 DEF CauseInv

(* A generation that leaves takes its account and its row along, or a      *)
(* query has failed.                                                       *)
LEMMA LeavingKeepsCauses ==
  ASSUME PlansIInv, NEW g \in Gens, NEW at, gens' = [gens EXCEPT ![g] = at],
         inFlight' = inFlight \ {AccountOf(g)},
         faults' = 0 => faults = 0 /\ locks' \subseteq locks \ {g}
  PROVE  CauseInv'
<1>1. PlansTypes /\ CauseInv /\ DOMAIN gens = Gens /\ locks \subseteq Gens
  BY DEF PlansIInv, JobsInv, PlansTypes
<1>2. \A h \in Gens : h # g => gens'[h] = gens[h]
  BY <1>1
<1>3. InFlightForCause'
  <2> SUFFICES ASSUME NEW a \in inFlight'
               PROVE  \E h \in Gens : AccountOf(h) = a /\ gens'[h] \in AtWork
    BY DEF InFlightForCause
  <2>1. PICK h \in Gens : AccountOf(h) = a /\ gens[h] \in AtWork
    BY <1>1 DEF CauseInv, InFlightForCause
  <2> QED BY <1>2, <2>1
<1>4. RowsForCause'
  BY <1>1, <1>2 DEF CauseInv, RowsForCause
<1> QED BY <1>3, <1>4 DEF CauseInv

(* The steps of a generation.                                              *)
LEMMA GenStepKeeps ==
  ASSUME PlansIInv, NEW g \in Gens,
         \/ RefreshAsks(g) \/ RefreshChecks(g) \/ ItemBegins(g) \/ Lock(g) \/ LockFails(g)
         \/ Work(g) \/ Unlock(g) \/ UnlockFails(g) \/ Undo(g)
  PROVE  PlansIInv'
<1>1. /\ PlansTypes /\ JobsInv /\ TurnsInv /\ CauseInv /\ DOMAIN gens = Gens
      /\ Refreshers \subseteq Gens /\ locks \subseteq Gens /\ inFlight \subseteq Accounts
      /\ faults \in 0..MaxFaults /\ MaxFaults \in Nat
  BY PlansAssumption DEF PlansIInv, JobsInv, PlansTypes, Gens
<1>2. AccountOf(g) \in Accounts /\ (g \in Refreshers => AccountOf(g) = Wanted)
  BY PlansAssumption DEF AccountOf, Gens, Items
<1>3. /\ gens[g] = "asked" => g \in Refreshers
      /\ gens[g] \in {"begin", "succeeded", "failed"} => g \in Items
  BY <1>1 DEF PlansTypes
<1>4. ~(g \in Refreshers /\ g \in Items) /\ (g \in Refreshers \/ g \in Items)
  BY PlansAssumption DEF Gens, Items
<1>5. CASE RefreshAsks(g)
  <2>1. /\ g \in Refreshers /\ gens[g] = "idle" /\ gens' = [gens EXCEPT ![g] = "asked"]
        /\ SerialChecks => \A h \in Refreshers : gens[h] \notin {"asked", "lock"}
        /\ UNCHANGED <<jobs, drain, post, inFlight, locks, faults>>
    BY <1>5 DEF RefreshAsks, At
  <2>2. JobsInv'
    BY <1>1, <1>4, <2>1, GenMoves DEF GenStates
  <2>3. TurnsInv'
    BY <2>1, GenKeepsTurns DEF Collecting
  <2>4. CauseInv'
    BY <1>1, <2>1, CausesRest DEF AtWork, Collecting
  <2> QED BY <2>2, <2>3, <2>4 DEF PlansIInv
<1>6. CASE RefreshChecks(g)
  <2>1. /\ gens[g] = "asked" /\ g \in Refreshers
        /\ UNCHANGED <<jobs, drain, post, locks, faults>>
    BY <1>3, <1>6 DEF RefreshChecks
  <2>2. CASE \E h \in locks : AccountOf(h) = Wanted
    <3>1. gens' = [gens EXCEPT ![g] = "idle"] /\ inFlight' = inFlight
      BY <1>6, <2>2 DEF RefreshChecks, At
    <3>2. JobsInv'
      BY <1>1, <1>4, <2>1, <3>1, GenMoves DEF GenStates
    <3>3. TurnsInv'
      BY <2>1, <3>1, GenKeepsTurns DEF Collecting
    <3>4. CauseInv'
      BY <1>1, <2>1, <3>1, CausesRest DEF AtWork, Collecting
    <3> QED BY <3>2, <3>3, <3>4 DEF PlansIInv
  <2>3. CASE ~\E h \in locks : AccountOf(h) = Wanted
    <3>1. gens' = [gens EXCEPT ![g] = "lock"] /\ inFlight' = inFlight \cup {Wanted}
      BY <1>6, <2>3 DEF RefreshChecks, At
    <3>2. "lock" \in GenStates /\ "lock" \in AtWork
      BY DEF GenStates, AtWork
    <3>3. JobsInv'
      BY <1>1, <1>2, <1>4, <2>1, <3>1, <3>2, GenMoves
    <3>4. \A h \in Refreshers : gens[h] \notin Collecting
      <4> SUFFICES ASSUME NEW h \in Refreshers, gens[h] \in Collecting PROVE FALSE
        OBVIOUS
      <4>1. h \in locks
        BY <1>1 DEF TurnsInv, CollectorsHold
      <4>2. AccountOf(h) = Wanted
        BY DEF AccountOf
      <4> QED BY <2>3, <4>1, <4>2
    <3>5. TurnsInv'
      BY <2>1, <3>1, <3>4, GenKeepsTurns DEF Collecting
    <3>6. CauseInv'
      BY <1>2, <2>1, <3>1, <3>2, GenKeepsCauses
    <3> QED BY <3>3, <3>5, <3>6 DEF PlansIInv
  <2> QED BY <2>2, <2>3
<1>7. CASE ItemBegins(g)
  <2>1. gens[g] = "begin" /\ g \in Items /\ g \notin Refreshers
        /\ UNCHANGED <<jobs, drain, post, locks, faults>>
    BY <1>3, <1>4, <1>7 DEF ItemBegins
  <2>2. CASE gens' = [gens EXCEPT ![g] = "lock"] /\ inFlight' = inFlight \cup {AccountOf(g)}
    <3>1. "lock" \in GenStates /\ "lock" \in AtWork
      BY DEF GenStates, AtWork
    <3>2. JobsInv'
      BY <1>1, <1>2, <2>1, <2>2, <3>1, GenMoves
    <3>3. TurnsInv'
      BY <2>1, <2>2, GenKeepsTurns
    <3>4. CauseInv'
      BY <2>1, <2>2, <3>1, GenKeepsCauses
    <3> QED BY <3>2, <3>3, <3>4 DEF PlansIInv
  <2>3. CASE gens' = [gens EXCEPT ![g] = "failed"] /\ inFlight' = inFlight
    <3>1. JobsInv'
      BY <1>1, <2>1, <2>3, GenMoves DEF GenStates
    <3>2. TurnsInv'
      BY <2>1, <2>3, GenKeepsTurns
    <3>3. CauseInv'
      BY <1>1, <2>1, <2>3, CausesRest DEF AtWork, Collecting
    <3> QED BY <3>1, <3>2, <3>3 DEF PlansIInv
  <2> QED BY <1>7, <2>2, <2>3 DEF ItemBegins, At
<1>8. CASE Lock(g)
  <2>1. /\ gens[g] = "lock" /\ locks' = locks \cup {g} /\ gens' = [gens EXCEPT ![g] = "work"]
        /\ UNCHANGED <<jobs, drain, post, inFlight, faults>>
    BY <1>8 DEF Lock, At
  <2>2. "work" \in GenStates /\ "work" \in AtWork
    BY DEF GenStates, AtWork, Collecting
  <2>3. JobsInv'
    BY <1>1, <2>1, <2>2, GenMoves
  <2>4. TurnsInv'
    BY <2>1, GenKeepsTurns DEF Collecting
  <2>5. CauseInv'
    BY <2>1, <2>2, GenKeepsCauses
  <2> QED BY <2>3, <2>4, <2>5 DEF PlansIInv
<1>9. CASE Work(g)
  <2>1. PICK at \in {"unlock", "undo"} : gens' = [gens EXCEPT ![g] = at]
    BY <1>9 DEF Work, At
  <2>2. gens[g] = "work" /\ UNCHANGED <<jobs, drain, post, inFlight, locks, faults>>
    BY <1>9 DEF Work
  <2>3. at \in GenStates /\ at \in AtWork
    BY DEF GenStates, AtWork, Collecting
  <2>4. JobsInv'
    BY <1>1, <2>1, <2>2, <2>3, GenMoves
  <2>5. g \in Refreshers => g \in locks
    BY <1>1, <2>2 DEF TurnsInv, CollectorsHold, Collecting
  <2>6. TurnsInv'
    BY <2>1, <2>2, <2>5, GenKeepsTurns DEF Collecting
  <2>7. CauseInv'
    BY <2>1, <2>2, <2>3, GenKeepsCauses
  <2> QED BY <2>4, <2>6, <2>7 DEF PlansIInv
<1>10. CASE UnlockFails(g)
  <2>1. /\ gens[g] = "unlock" /\ gens' = [gens EXCEPT ![g] = "undo"]
        /\ faults < MaxFaults /\ faults' = faults + 1
        /\ locks' \in {locks, locks \ {g}} /\ UNCHANGED <<jobs, drain, post, inFlight>>
    BY <1>10 DEF UnlockFails, At, Fault, Unlocked
  <2>2. "undo" \in GenStates /\ "undo" \in AtWork /\ faults' \in 0..MaxFaults /\ faults' # 0
    BY <1>1, <2>1 DEF GenStates, AtWork, Collecting
  <2>3. JobsInv'
    BY <1>1, <2>1, <2>2, GenMoves
  <2>4. TurnsInv'
    BY <2>1, GenKeepsTurns DEF Collecting
  <2>5. CauseInv'
    BY <2>1, <2>2, GenKeepsCauses
  <2> QED BY <2>3, <2>4, <2>5 DEF PlansIInv
<1>11. ASSUME NEW at \in {"idle", "succeeded", "failed"}, gens' = [gens EXCEPT ![g] = at],
              g \in Refreshers => at = "idle", gens[g] # "idle",
              inFlight' = inFlight \ {AccountOf(g)},
              locks' \subseteq locks \cup {g}, \A h \in locks : h # g => h \in locks',
              \/ faults' = faults /\ locks' \subseteq locks \ {g}
              \/ faults < MaxFaults /\ faults' = faults + 1,
              UNCHANGED <<jobs, drain, post>>
       PROVE  PlansIInv'
  <2>1. faults' \in 0..MaxFaults /\ (faults' = 0 => faults = 0 /\ locks' \subseteq locks \ {g})
    BY <1>1, <1>11
  <2>2. at \in GenStates /\ locks' \subseteq Gens /\ inFlight' \subseteq Accounts
    BY <1>1, <1>11 DEF GenStates
  <2>3. JobsInv'
    BY <1>1, <1>4, <1>11, <2>1, <2>2, GenMoves
  <2>4. TurnsInv'
    BY <1>11, GenKeepsTurns DEF Collecting
  <2>5. CauseInv'
    BY <1>11, <2>1, LeavingKeepsCauses
  <2> QED BY <2>3, <2>4, <2>5 DEF PlansIInv
<1>12. CASE LockFails(g)
  BY <1>11, <1>12 DEF LockFails, Leave, Released, At, Fault
<1>13. CASE Unlock(g)
  BY <1>11, <1>13 DEF Unlock, Unlocked, Leave, Released, At
<1>14. CASE Undo(g)
  BY <1>11, <1>14 DEF Undo, Unlocked, Leave, Released, At, Fault
<1> QED BY <1>5, <1>6, <1>7, <1>8, <1>9, <1>10, <1>12, <1>13, <1>14

-----------------------------------------------------------------------------
(* Every step.                                                             *)

(* The handlers' steps leave the jobs as the invariant wants them.         *)
LEMMA PlansPostKeeps ==
  ASSUME JobsInv, NEW p \in Posts,
         PostFindsNone(p) \/ PostInsertsJob(p) \/ PostInsertsItems(p) \/ PostFails(p)
  PROVE  JobsInv'
<1>1. PlansTypes /\ Len(jobs) \in Nat /\ MaxBulkJobs \in Nat /\ MaxFaults \in Nat
      /\ faults \in 0..MaxFaults
  BY PlansAssumption, ItemsAreGens DEF JobsInv, PlansTypes
<1>2. \A at \in {"idle", "insert"} : [at |-> at, job |-> 0] \in PostSet
  BY <1>1 DEF PostSet
<1>3. CASE PostFindsNone(p)
  <2> DEFINE q == [at |-> "insert", job |-> 0]
  <2>1. /\ q \in PostSet /\ q.at # "items" /\ post' = [post EXCEPT ![p] = q]
        /\ jobs' = jobs /\ faults' = faults /\ UNCHANGED <<drain, gens, inFlight, locks>>
    BY <1>2, <1>3 DEF PostFindsNone, Goto
  <2> HIDE DEF q
  <2> QED BY <1>1, <2>1, InsertsJobKeeps
<1>4. CASE PostInsertsJob(p)
  <2> DEFINE q == [at |-> "items", job |-> Len(jobs) + 1]
  <2>1. Len(jobs) < MaxBulkJobs
    BY <1>4 DEF PostInsertsJob
  <2>2. Len(jobs) + 1 \in 0..MaxBulkJobs
    BY <1>1, <2>1
  <2>3. /\ q \in PostSet /\ q.job = Len(jobs) + 1 /\ post' = [post EXCEPT ![p] = q]
        /\ jobs' = Append(jobs, NewJob) /\ faults' = faults
        /\ UNCHANGED <<drain, gens, inFlight, locks>>
    BY <1>4, <2>2 DEF PostInsertsJob, Goto, PostSet
  <2> HIDE DEF q
  <2> QED BY <1>1, <2>1, <2>3, InsertsJobKeeps
<1>5. CASE PostInsertsItems(p)
  <2>1. /\ post[p].at = "items" /\ jobs' = WithItems(post[p].job) /\ Goto(p, "idle", 0)
        /\ faults' = faults /\ UNCHANGED <<gens, inFlight, locks>>
    BY <1>5 DEF PostInsertsItems
  <2>2. \/ drain' = drain
        \/ /\ drain.at = "off"
           /\ drain' = [Off EXCEPT !.at = "start", !.job = post[p].job]
    BY <1>5 DEF PostInsertsItems
  <2> QED BY <1>1, <2>1, <2>2, InsertsItemsKeeps
<1>6. CASE PostFails(p)
  <2>1. /\ faults < MaxFaults /\ faults' = faults + 1 /\ Goto(p, "idle", 0)
        /\ UNCHANGED <<drain, gens, inFlight, locks>>
    BY <1>6 DEF PostFails, Fault
  <2>2. faults' \in 0..MaxFaults
    BY <1>1, <2>1
  <2>3. CASE post[p].at = "items" /\ jobs' \in {jobs, WithItems(post[p].job)}
    BY <2>1, <2>2, <2>3, InsertsItemsKeeps
  <2>4. CASE Len(jobs) < MaxBulkJobs /\ jobs' \in {jobs, Append(jobs, NewJob)}
    <3> DEFINE q == [at |-> "idle", job |-> 0]
    <3>1. q \in PostSet /\ q.at # "items" /\ post' = [post EXCEPT ![p] = q]
      BY <1>2, <2>1 DEF Goto
    <3> HIDE DEF q
    <3> QED BY <2>1, <2>2, <2>4, <3>1, InsertsJobKeeps
  <2> QED BY <1>6, <2>3, <2>4 DEF PostFails
<1> QED BY <1>3, <1>4, <1>5, <1>6

(* So do the steps that write an item's outcome.                           *)
LEMMA MarksKeep ==
  ASSUME JobsInv, NEW g \in Gens, Mark(g) \/ MarkFails(g)
  PROVE  JobsInv'
<1>1. MaxFaults \in Nat /\ faults \in 0..MaxFaults
  BY PlansAssumption DEF JobsInv, PlansTypes
<1>2. gens[g] \in {"succeeded", "failed"} /\ UNCHANGED <<post, inFlight, locks>>
  BY DEF Mark, MarkFails
<1>3. jobs' \in {jobs, Marked(g)} /\ drain' \in {drain, Off}
  BY DEF Mark, MarkFails, Reject
<1>4. PICK at \in {"idle", "failed"} : gens' = [gens EXCEPT ![g] = at]
  BY DEF Mark, MarkFails, Reject, At
<1>5. faults' \in 0..MaxFaults
  <2>1. faults' = faults \/ (faults < MaxFaults /\ faults' = faults + 1)
    BY DEF Mark, MarkFails, Fault
  <2> QED BY <1>1, <2>1
<1> QED BY <1>2, <1>3, <1>4, <1>5, MarkKeeps

(* Every step keeps the invariant.                                         *)
LEMMA PlansNextKeeps == PlansIInv /\ [PlansNext]_plansVars => PlansIInv'
<1> SUFFICES ASSUME PlansIInv, [PlansNext]_plansVars PROVE PlansIInv'
  OBVIOUS
<1>1. JobsInv
  BY DEF PlansIInv
<1>2. CASE \E p \in Posts : PostFindsNone(p) \/ PostInsertsJob(p) \/ PostInsertsItems(p)
                             \/ PostFails(p)
  <2>1. JobsInv'
    BY <1>1, <1>2, PlansPostKeeps
  <2> QED BY <1>2, <2>1, OthersKeepTurns DEF PlansIInv
<1>3. CASE DrainStep
  BY <1>1, <1>3, DrainStepKeeps, OthersKeepTurns DEF PlansIInv
<1>4. CASE DrainFails
  BY <1>1, <1>4, DrainFailsKeeps, OthersKeepTurns DEF PlansIInv
<1>5. CASE Restart
  BY <1>1, <1>5, RestartKeeps, OthersKeepTurns DEF PlansIInv
<1>6. CASE LocksExpire
  BY <1>1, <1>6, ExpireKeeps, OthersKeepTurns DEF PlansIInv
<1>7. ASSUME NEW g \in Gens, Mark(g) \/ MarkFails(g)
      PROVE  PlansIInv'
  <2>1. JobsInv'
    BY <1>1, <1>7, MarksKeep
  <2> QED BY <1>7, <2>1, OthersKeepTurns DEF PlansIInv
<1>8. ASSUME NEW g \in Gens,
             RefreshAsks(g) \/ GenStep(g) \/ LockFails(g) \/ UnlockFails(g) \/ MarkFails(g)
      PROVE  PlansIInv'
  BY <1>7, <1>8, GenStepKeeps DEF GenStep
<1>9. CASE UNCHANGED plansVars
  BY <1>9 DEF plansVars, PlansIInv, JobsInv, TurnsInv, CauseInv, PlansTypes, PostsOwn,
    DrainOwns, WorkIsRunning, FinishedIsWhole, RefreshesTakeTurns, CollectorsHold,
    InFlightForCause, RowsForCause, RestsIn, WithStatus, FinalStatus
<1> QED BY <1>2, <1>3, <1>4, <1>5, <1>6, <1>8, <1>9 DEF PlansNext

(* Handlers, the drain and its generations never spoil the account plans:  *)
(* finished bulk jobs are whole, refreshes that take turns never collect   *)
(* together, and accounts are refused for a reason only.                   *)
THEOREM PlansAreSound == PlansSpec => []PlansInv
<1> QED BY PlansStart, PlansNextKeeps, PlansImplies, PTL DEF PlansSpec

-----------------------------------------------------------------------------
(* Finished jobs.                                                          *)

(* A job changes its status or its items only while it is not finished.    *)
LEMMA FinishedRests ==
  ASSUME JobsInv, [PlansNext]_plansVars, NEW j \in 1..Len(jobs), jobs[j].status \in Finished
  PROVE  jobs'[j].status = jobs[j].status /\ jobs'[j].items = jobs[j].items
<1>1. /\ PlansTypes /\ jobs \in Seq(JobSet) /\ Len(jobs) \in Nat
      /\ 1..Len(jobs) \subseteq BulkJobs /\ jobs[j] \in JobSet
  BY ItemsAreGens DEF JobsInv, PlansTypes
<1>2. jobs[j].status \notin {"queued", "running"}
  BY DEF Finished
<1>3. CASE jobs' = jobs
  BY <1>3
<1>4. ASSUME NEW k \in 1..Len(jobs), jobs[k].status \in {"queued", "running"}, NEW r,
             jobs' = [jobs EXCEPT ![k] = r]
      PROVE  jobs'[j] = jobs[j]
  BY <1>1, <1>2, <1>4
<1>5. CASE jobs' = Append(jobs, NewJob)
  BY <1>1, <1>5
<1>6. ASSUME NEW p \in Posts, post[p].at = "items", jobs' = WithItems(post[p].job)
      PROVE  jobs'[j] = jobs[j]
  <2>1. post[p].job \in 1..Len(jobs) /\ jobs[post[p].job].status = "queued"
    BY <1>6 DEF JobsInv, PostsOwn
  <2>2. \E r : jobs' = [jobs EXCEPT ![post[p].job] = r]
    BY <1>6 DEF WithItems
  <2> QED BY <1>4, <2>1, <2>2
<1>7. ASSUME drain.at \in {"start", "complete"},
             jobs' = Started(drain.job) \/ jobs' = Completed(drain.job, drain.final)
      PROVE  jobs'[j] = jobs[j]
  <2>1. drain.job \in 1..Len(jobs) /\ jobs[drain.job].status \in {"queued", "running"}
    BY <1>7 DEF JobsInv, DrainOwns
  <2>2. \E r : jobs' = [jobs EXCEPT ![drain.job] = r]
    BY <1>7 DEF Started, Completed
  <2> QED BY <1>4, <2>1, <2>2
<1>8. ASSUME NEW g \in Gens, gens[g] \in {"succeeded", "failed"}, jobs' = Marked(g)
      PROVE  jobs'[j] = jobs[j]
  <2>1. g \in Items /\ g[1] \in BulkJobs /\ g[2] \in Accounts /\ g = <<g[1], g[2]>>
    BY <1>1, <1>8 DEF PlansTypes, Items
  <2>2. g[1] \in 1..Len(jobs) /\ jobs[g[1]].status = "running"
    BY <1>8, <2>1 DEF JobsInv, WorkIsRunning
  <2>3. \E r : jobs' = [jobs EXCEPT ![g[1]] = r]
    BY <1>8 DEF Marked
  <2> QED BY <1>4, <2>2, <2>3
<1>9. CASE LocksExpire
  BY <1>1, <1>9 DEF LocksExpire, JobSet
<1>10. CASE \E p \in Posts : PostFindsNone(p) \/ PostInsertsJob(p) \/ PostInsertsItems(p)
                              \/ PostFails(p)
  BY <1>3, <1>5, <1>6, <1>10 DEF PostFindsNone, PostInsertsJob, PostInsertsItems, PostFails
<1>11. CASE DrainStep \/ DrainFails
  BY <1>3, <1>7, <1>11 DEF DrainStep, DrainStarts, DrainLists, DrainGoesOn, DrainCounts,
    DrainCompletes, DrainLeaves, DrainFails
<1>12. CASE \E g \in Gens : Mark(g) \/ MarkFails(g)
  BY <1>3, <1>8, <1>12 DEF Mark, MarkFails, Reject
<1>13. CASE \E g \in Gens : \/ RefreshAsks(g) \/ RefreshChecks(g) \/ ItemBegins(g)
                            \/ Lock(g) \/ LockFails(g) \/ Work(g) \/ Unlock(g)
                            \/ UnlockFails(g) \/ Undo(g)
  BY <1>3, <1>13 DEF RefreshAsks, RefreshChecks, ItemBegins, Lock, LockFails, Work, Unlock,
    UnlockFails, Undo
<1>14. CASE Restart
  BY <1>3, <1>14 DEF Restart
<1>15. CASE UNCHANGED plansVars
  BY <1>3, <1>15 DEF plansVars
<1> QED BY <1>9, <1>10, <1>11, <1>12, <1>13, <1>14, <1>15 DEF PlansNext, GenStep

(* What a finished bulk job reports never changes: no sibling of an item   *)
(* that made a drain end reports into it later.                            *)
THEOREM PlansEndsAreFinal == PlansSpec => FinishedIsFinal
<1>1. PlansIInv /\ [PlansNext]_plansVars =>
        [\A j \in 1..Len(jobs) : jobs[j].status \in Finished =>
           jobs'[j].status = jobs[j].status /\ jobs'[j].items = jobs[j].items]_plansVars
  BY FinishedRests DEF PlansIInv
<1> QED BY <1>1, PlansStart, PlansNextKeeps, PTL DEF PlansSpec, FinishedIsFinal

-----------------------------------------------------------------------------
(* The weekly snapshots: the inductive invariant.                          *)

Generating(j) == job[j].at \in {"load", "build"}

(* A generation at work is of the running job, unless it was given up.     *)
WorkIsShown ==
  \A j \in SnapshotJobs :
    /\ Generating(j) => (j \in known /\ job[j].status = "running") \/ j \in outrun
    /\ job[j].status = "none" => job[j].at = "none" /\ j \notin known
    /\ job[j].status = "done" => job[j].at = "over" /\ job[j].date \in Dates

(* What a generation has read is as new as whatever is finished, since     *)
(* nothing finishes between its read and its writes, unless one of the two *)
(* was given up.                                                           *)
ReadsAreCurrent ==
  /\ \A j \in SnapshotJobs : job[j].read <= data
  /\ \A i, j \in SnapshotJobs \ outrun :
       job[i].at = "build" /\ job[j].status = "done" => job[j].read <= job[i].read

(* A window ends on the day whose date the directory has.                  *)
WindowsEndInside == \A d \in Dates : week[d].until # 0 => Day(week[d].until) = d

WeeklyIInv == WeeklyInv /\ WorkIsShown /\ ReadsAreCurrent /\ WindowsEndInside

SnapshotRow == [status : {"none", "running", "done", "error"},
                at : {"none", "load", "build", "over"},
                read : 0..MaxData, date : Dates \cup {NoDate}]
Files == [metadata : 0..MaxData, activity : 0..MaxData, dashboard : 0..MaxData,
          reports : 0..MaxData, until : Nat]

-----------------------------------------------------------------------------
(* The calendar: what a window's end u and its date d are at the hour n.   *)

IsOver(d, u, n) ==
  /\ u <= n
  /\ \/ d % 7 = 5 /\ (24 * d + EodHour <= Local(n) \/ Local(u) % 24 = 0)
     \/ d % 7 = 4 /\ Local(u) % 24 = 23 /\ Forward \in (u + 1)..(u + 168)
     \/ d % 7 = 6 /\ Local(u) % 24 = 0 /\ Back \in (u + 1)..(u + 168)

(* The clocks' hour: one ahead or not, and never less than it was.         *)
LEMMA LocalIs ==
  ASSUME NEW m \in Nat, NEW n \in Nat, m <= n
  PROVE  /\ Local(m) \in {m, m + 1} /\ Local(m) \in Nat /\ Local(m) <= Local(n)
         /\ Local(m) = m + 1 <=> Forward <= m /\ m < Back
BY SnapshotAssumption DEF Local

LEMMA DayIs ==
  ASSUME NEW m \in Nat, NEW d \in Int, NEW h \in 0..23, Local(m) = 24 * d + h
  PROVE  Day(m) = d /\ Local(m) % 24 = h
<1>1. Local(m) \in Nat
  BY LocalIs
<1>2. Local(m) \div 24 = d /\ Local(m) % 24 = h
  BY <1>1
<1> QED
  BY <1>2 DEF Day

(* How far back the Friday is.                                             *)
LEMMA BackIs ==
  ASSUME NEW m \in Nat
  PROVE  /\ DaysBack(m) \in 0..7 /\ Day(m) \in Nat
         /\ (Day(m) - DaysBack(m)) % 7 = 5
         /\ DaysBack(m) = 0 => HourRead(m) >= EodHour
<1> DEFINE D == Day(m)
           w == D % 7
           k == D \div 7
           back == DaysBack(m)
<1>1. D \in Nat
  BY LocalIs DEF Day
<1>2. HourRead(m) \in Nat /\ EodHour \in Nat
  BY LocalIs, SnapshotAssumption DEF HourRead
<1>3. back = IF (w + 2) % 7 = 0 /\ HourRead(m) < EodHour THEN 7 ELSE (w + 2) % 7
  BY DEF DaysBack, Weekday
<1> HIDE DEF back, D
<1>4. k \in Nat /\ w \in 0..6 /\ D = 7 * k + w
  BY <1>1
<1> HIDE DEF w, k
<1>5. /\ w = 0 => back = 2
      /\ w = 1 => back = 3
      /\ w = 2 => back = 4
      /\ w = 3 => back = 5
      /\ w = 4 => back = 6
      /\ w = 5 => back = IF HourRead(m) < EodHour THEN 7 ELSE 0
      /\ w = 6 => back = 1
  BY <1>3, <1>4
<1>6. back \in 0..7 /\ (back = 0 => HourRead(m) >= EodHour)
  BY <1>2, <1>4, <1>5
<1>7. D - back = 7 * (k - 1) + 5 \/ D - back = 7 * k + 5
  BY <1>4, <1>5
<1>8. (D - back) % 7 = 5
  BY <1>4, <1>7
<1> QED
  BY <1>1, <1>6, <1>8 DEF D, back

LEMMA WindowIs ==
  ASSUME NEW m \in Moments
  PROVE  /\ SnapshotDate(m) \in Dates /\ SnapshotDate(m) \in Nat
         /\ WindowEnd(m) \in Nat /\ WindowEnd(m) # 0
         /\ Day(WindowEnd(m)) = SnapshotDate(m)
         /\ IsOver(SnapshotDate(m), WindowEnd(m), m)
<1> DEFINE D == Day(m)
           h == Local(m) % 24
           back == DaysBack(m)
           u == WindowEnd(m)
           F == D - back
<1>1. m \in Nat /\ m >= 192 /\ EodHour \in 0..23 /\ Forward \in Nat /\ Back \in Nat
  BY SnapshotAssumption
<1>2. /\ D \in Nat /\ back \in 0..7 /\ F % 7 = 5 /\ F \in Int
      /\ back = 0 => h = 0 \/ h >= EodHour
  BY <1>1, BackIs DEF HourRead
<1>3. u = m - 24 * back
  BY DEF WindowEnd
<1>4. Local(m) = 24 * D + h /\ h \in 0..23
  BY <1>1, LocalIs DEF Day
<1> HIDE DEF D, h, back, u
<1>5. u \in Nat /\ u >= 24 /\ u <= m /\ m <= u + 168 /\ (back = 0 => u = m)
  BY <1>1, <1>2, <1>3
<1>6. /\ Local(m) \in {m, m + 1} /\ Local(u) \in {u, u + 1}
      /\ Local(m) = m + 1 <=> Forward <= m /\ m < Back
      /\ Local(u) = u + 1 <=> Forward <= u /\ u < Back
  BY <1>1, <1>5, LocalIs
<1>7. 24 * D >= 24 * F /\ (back # 0 => 24 * D >= 24 * F + 24)
  BY <1>2
<1>8. Day(u) \in Int /\ IsOver(Day(u), u, m)
  <2>1. CASE Local(u) - u = Local(m) - m
    <3>1. Local(u) = 24 * F + h
      BY <1>1, <1>2, <1>3, <1>4, <1>5, <1>6, <2>1
    <3>2. Day(u) = F /\ Local(u) % 24 = h
      BY <1>2, <1>4, <1>5, <3>1, DayIs
    <3>3. 24 * F + EodHour <= Local(m) \/ h = 0
      BY <1>1, <1>2, <1>4, <1>7
    <3> QED
      BY <1>2, <1>5, <3>2, <3>3 DEF IsOver
  <2>2. CASE Local(u) = u /\ Local(m) = m + 1
    <3>1. Local(u) = 24 * F + h - 1 /\ back # 0
      BY <1>1, <1>2, <1>3, <1>4, <1>5, <2>2
    <3>2. CASE h # 0
      <4>1. h - 1 \in 0..23 /\ Local(u) = 24 * F + (h - 1)
        BY <1>2, <1>4, <3>1, <3>2
      <4>2. Day(u) = F
        BY <1>2, <1>5, <4>1, DayIs
      <4>3. 24 * F + EodHour <= Local(m)
        BY <1>1, <1>2, <1>4, <1>7, <3>1
      <4> QED
        BY <1>2, <1>5, <4>2, <4>3 DEF IsOver
    <3>3. CASE h = 0
      <4>1. F - 1 \in Int /\ 23 \in 0..23 /\ Local(u) = 24 * (F - 1) + 23
        BY <1>2, <3>1, <3>3
      <4>2. Day(u) = F - 1 /\ Local(u) % 24 = 23
        BY <1>5, <4>1, DayIs
      <4>3. (F - 1) % 7 = 4
        BY <1>2
      <4>4. Forward \in (u + 1)..(u + 168)
        BY <1>1, <1>5, <1>6, <2>2
      <4> QED
        BY <1>5, <4>1, <4>2, <4>3, <4>4 DEF IsOver
    <3> QED BY <3>2, <3>3
  <2>3. CASE Local(u) = u + 1 /\ Local(m) = m
    <3>1. Local(u) = 24 * F + h + 1 /\ back # 0
      BY <1>1, <1>2, <1>3, <1>4, <1>5, <2>3
    <3>2. CASE h # 23
      <4>1. h + 1 \in 0..23 /\ Local(u) = 24 * F + (h + 1)
        BY <1>2, <1>4, <3>1, <3>2
      <4>2. Day(u) = F
        BY <1>2, <1>5, <4>1, DayIs
      <4>3. 24 * F + EodHour <= Local(m)
        BY <1>1, <1>2, <1>4, <1>7, <3>1
      <4> QED
        BY <1>2, <1>5, <4>2, <4>3 DEF IsOver
    <3>3. CASE h = 23
      <4>1. F + 1 \in Int /\ 0 \in 0..23 /\ Local(u) = 24 * (F + 1) + 0
        BY <1>2, <3>1, <3>3
      <4>2. Day(u) = F + 1 /\ Local(u) % 24 = 0
        BY <1>5, <4>1, DayIs
      <4>3. (F + 1) % 7 = 6
        BY <1>2
      <4>4. Back \in (u + 1)..(u + 168)
        BY <1>1, <1>5, <1>6, <2>3
      <4> QED
        BY <1>5, <4>1, <4>2, <4>3, <4>4 DEF IsOver
    <3> QED BY <3>2, <3>3
  <2> QED
    BY <1>1, <1>5, <1>6, <2>1, <2>2, <2>3
<1>9. SnapshotDate(m) = Day(u)
  BY DEF SnapshotDate, u
<1>10. Day(u) \in Nat
  BY <1>5, LocalIs DEF Day
<1> QED
  BY <1>5, <1>8, <1>9, <1>10 DEF Dates, u

(* Once over, a week stays over.                                           *)
LEMMA StaysOver ==
  ASSUME NEW d \in Nat, NEW u \in Nat, NEW m \in Nat, NEW n \in Nat, m <= n, IsOver(d, u, m)
  PROVE  IsOver(d, u, n)
<1>1. Local(m) <= Local(n) /\ Local(m) \in Nat /\ Local(n) \in Nat
  BY LocalIs
<1>2. EodHour \in Nat
  BY SnapshotAssumption
<1> QED
  BY <1>1, <1>2 DEF IsOver

LEMMA DatesAre == Dates \subseteq Nat
BY WindowIs DEF Dates

-----------------------------------------------------------------------------
(* The map of jobs, pruned and declared stale as a value.                  *)

SnapshotMap == [job : [SnapshotJobs -> SnapshotRow], known : SUBSET SnapshotJobs,
                earlier : [SnapshotJobs -> SUBSET SnapshotJobs],
                late : SUBSET SnapshotJobs, outrun : SUBSET SnapshotJobs]

SoundMap(m) ==
  /\ m \in SnapshotMap /\ m.late \subseteq m.known
  /\ \A j \in SnapshotJobs : m.earlier[j] \subseteq FinishedSnapshots(m)

(* What becomes of a map m: a job that runs is neither dropped nor changed *)
(* unless it is declared stale.                                            *)
MapComesFrom(n, m) ==
  /\ n.known \subseteq m.known /\ m.outrun \subseteq n.outrun
  /\ \A j \in SnapshotJobs :
       \/ n.job[j] = m.job[j]
       \/ /\ m.job[j].status = "running" /\ j \in n.outrun
          /\ n.job[j] = [m.job[j] EXCEPT !.status = "error"]
  /\ \A j \in m.known : m.job[j].status = "running" => j \in n.known \/ j \in n.outrun

(* ComesFrom goes through two steps.                                       *)
LEMMA MapComesFar ==
  ASSUME NEW l, NEW m, NEW n, SoundMap(l), SoundMap(m), MapComesFrom(n, m), MapComesFrom(m, l)
  PROVE  MapComesFrom(n, l)
<1>1. \A j \in SnapshotJobs : m.job[j] \in SnapshotRow /\ l.job[j] \in SnapshotRow
  BY DEF SoundMap, SnapshotMap
<1>2. ASSUME NEW j \in SnapshotJobs
      PROVE  \/ n.job[j] = l.job[j]
             \/ /\ l.job[j].status = "running" /\ j \in n.outrun
                /\ n.job[j] = [l.job[j] EXCEPT !.status = "error"]
  <2>1. CASE m.job[j] = l.job[j]
    BY <2>1 DEF MapComesFrom
  <2>2. CASE m.job[j] # l.job[j]
    <3>1. /\ l.job[j].status = "running" /\ j \in m.outrun
          /\ m.job[j] = [l.job[j] EXCEPT !.status = "error"]
      BY <2>2 DEF MapComesFrom
    <3>2. m.job[j].status = "error"
      BY <1>1, <3>1 DEF SnapshotRow
    <3>3. n.job[j] = m.job[j] /\ j \in n.outrun
      BY <3>1, <3>2 DEF MapComesFrom
    <3> QED
      BY <3>1, <3>3
  <2> QED BY <2>1, <2>2
<1>3. ASSUME NEW j \in l.known, l.job[j].status = "running"
      PROVE  j \in n.known \/ j \in n.outrun
  <2>1. j \in SnapshotJobs
    BY DEF SoundMap, SnapshotMap
  <2>2. j \in m.known \/ j \in m.outrun
    BY <1>3 DEF MapComesFrom
  <2>3. m.job[j] = l.job[j] \/ j \in m.outrun
    BY <2>1 DEF MapComesFrom
  <2> QED
    BY <1>3, <2>2, <2>3 DEF MapComesFrom
<1> QED
  BY <1>2, <1>3 DEF MapComesFrom

(* Dropping finished jobs.                                                 *)
LEMMA DropSound ==
  ASSUME NEW m, SoundMap(m), NEW gone, gone \subseteq FinishedSnapshots(m)
  PROVE  /\ SoundMap(Drop(m, gone)) /\ MapComesFrom(Drop(m, gone), m)
         /\ Drop(m, gone).job = m.job /\ Drop(m, gone).outrun = m.outrun
<1> DEFINE n == Drop(m, gone)
<1>1. m \in SnapshotMap /\ gone \subseteq SnapshotJobs
  BY DEF SoundMap, SnapshotMap, FinishedSnapshots
<1>2. /\ n.job = m.job /\ n.outrun = m.outrun /\ n.known = m.known \ gone
      /\ n.late = m.late \ gone /\ n.earlier = NoLonger(m.earlier, gone)
  BY <1>1 DEF Drop, SnapshotMap
<1>3. NoLonger(m.earlier, gone) \in [SnapshotJobs -> SUBSET SnapshotJobs]
  BY <1>1 DEF NoLonger, SnapshotMap
<1>4. n \in SnapshotMap
  BY <1>1, <1>3 DEF Drop, SnapshotMap
<1>5. \A j \in SnapshotJobs : n.earlier[j] \subseteq m.earlier[j] \ gone
  BY <1>2 DEF NoLonger
<1> HIDE DEF n
<1>6. FinishedSnapshots(n) = FinishedSnapshots(m) \ gone
  BY <1>2 DEF FinishedSnapshots, ActiveSnapshots
<1>7. SoundMap(n)
  BY <1>2, <1>4, <1>5, <1>6 DEF SoundMap
<1>8. MapComesFrom(n, m)
  BY <1>2 DEF MapComesFrom, FinishedSnapshots, ActiveSnapshots
<1> QED
  BY <1>2, <1>7, <1>8 DEF n

LEMMA PrunedJobsSound ==
  ASSUME NEW m, SoundMap(m)
  PROVE  SoundMap(PrunedJobs(m)) /\ MapComesFrom(PrunedJobs(m), m)
<1> DEFINE fresh == Drop(m, m.late \cap FinishedSnapshots(m))
           n == Drop(fresh, OverTheCap(fresh))
<1>1. SoundMap(fresh) /\ MapComesFrom(fresh, m)
  BY DropSound
<1> HIDE DEF fresh
<1>2. SoundMap(n) /\ MapComesFrom(n, fresh)
  BY <1>1, DropSound DEF OverTheCap
<1>3. PrunedJobs(m) = n
  BY DEF PrunedJobs, fresh
<1> HIDE DEF n
<1> QED
  BY <1>1, <1>2, <1>3, MapComesFar

(* Declaring late jobs failed.                                             *)
LEMMA DeclareSound ==
  ASSUME NEW m, SoundMap(m), NEW named
  PROVE  SoundMap(Declare(m, named)) /\ MapComesFrom(Declare(m, named), m)
<1> DEFINE stale == ActiveSnapshots(m) \cap m.late \cap named
           n == Declare(m, named)
<1>1. m \in SnapshotMap
  BY DEF SoundMap
<1>2. stale \subseteq m.known /\ stale \subseteq SnapshotJobs /\ m.known \subseteq SnapshotJobs
  BY <1>1 DEF ActiveSnapshots, SnapshotMap
<1>3. \A j \in stale : m.job[j].status = "running"
  BY DEF ActiveSnapshots
<1>4. /\ n.job = [j \in SnapshotJobs |-> IF j \in stale THEN [m.job[j] EXCEPT !.status = "error"] ELSE m.job[j]]
      /\ n.earlier = [j \in SnapshotJobs |->
            IF j \in stale THEN FinishedSnapshots(m) \cup {i \in stale : i < j} ELSE m.earlier[j]]
      /\ n.late = m.late \ stale /\ n.outrun = m.outrun \cup stale /\ n.known = m.known
  BY <1>1 DEF Declare, SnapshotMap
<1>5. n \in SnapshotMap
  <2>1. [j \in SnapshotJobs |-> IF j \in stale THEN [m.job[j] EXCEPT !.status = "error"] ELSE m.job[j]]
          \in [SnapshotJobs -> SnapshotRow]
    <3>1. \A j \in SnapshotJobs : m.job[j] \in SnapshotRow
      BY <1>1 DEF SnapshotMap
    <3>2. \A j \in SnapshotJobs : [m.job[j] EXCEPT !.status = "error"] \in SnapshotRow
      BY <3>1 DEF SnapshotRow
    <3> HIDE DEF stale
    <3> QED
      BY <3>1, <3>2
  <2>2. [j \in SnapshotJobs |->
            IF j \in stale THEN FinishedSnapshots(m) \cup {i \in stale : i < j} ELSE m.earlier[j]]
          \in [SnapshotJobs -> SUBSET SnapshotJobs]
    <3>1. FinishedSnapshots(m) \subseteq SnapshotJobs
      BY <1>2 DEF FinishedSnapshots
    <3> HIDE DEF stale
    <3> QED
      BY <1>1, <1>2, <3>1 DEF SnapshotMap
  <2>3. n = [m EXCEPT !.job = n.job, !.earlier = n.earlier, !.late = n.late, !.outrun = n.outrun]
    BY <1>1, <1>4 DEF Declare, SnapshotMap
  <2> QED
    BY <1>1, <1>2, <1>4, <2>1, <2>2, <2>3 DEF SnapshotMap
<1> HIDE DEF n, stale
<1>6. \A j \in SnapshotJobs :
        /\ j \notin stale => n.job[j] = m.job[j]
        /\ j \in stale => n.job[j] = [m.job[j] EXCEPT !.status = "error"] /\ n.job[j].status = "error"
  <2>1. \A j \in SnapshotJobs : m.job[j] \in SnapshotRow
    BY <1>1 DEF SnapshotMap
  <2>2. \A j \in SnapshotJobs : [m.job[j] EXCEPT !.status = "error"].status = "error"
    BY <2>1 DEF SnapshotRow
  <2> QED
    BY <1>4, <2>2
<1>7. FinishedSnapshots(n) = FinishedSnapshots(m) \cup stale
  BY <1>2, <1>4, <1>6 DEF FinishedSnapshots, ActiveSnapshots
<1>8. \A j \in SnapshotJobs : n.earlier[j] \subseteq FinishedSnapshots(n)
  BY <1>4, <1>7 DEF SoundMap
<1>9. SoundMap(n)
  BY <1>4, <1>5, <1>8 DEF SoundMap
<1>10. MapComesFrom(n, m)
  BY <1>3, <1>4, <1>6 DEF MapComesFrom
<1> QED
  BY <1>9, <1>10 DEF n

-----------------------------------------------------------------------------
(* The steps.                                                              *)

LEMMA WeeklyTypes ==
  ASSUME SnapshotTypeOK
  PROVE  /\ job \in [SnapshotJobs -> SnapshotRow] /\ known \subseteq SnapshotJobs
         /\ week \in [Dates -> Files]
         /\ SoundMap(Map)
<1>1. job \in [SnapshotJobs -> SnapshotRow]
  BY DEF SnapshotTypeOK, SnapshotRow
<1>2. week \in [Dates -> Files]
  BY DEF SnapshotTypeOK, Files
<1>3. /\ known \subseteq SnapshotJobs /\ late \subseteq known /\ outrun \subseteq SnapshotJobs
      /\ earlier \in [SnapshotJobs -> SUBSET {j \in known : job[j].status # "running"}]
  BY DEF SnapshotTypeOK
<1>4. /\ Map.job = job /\ Map.known = known /\ Map.earlier = earlier
      /\ Map.late = late /\ Map.outrun = outrun
  BY DEF Map
<1>5. earlier \in [SnapshotJobs -> SUBSET SnapshotJobs]
  BY <1>3
<1>6. Map \in SnapshotMap
  BY <1>1, <1>3, <1>5 DEF Map, SnapshotMap
<1>7. FinishedSnapshots(Map) = {j \in known : job[j].status # "running"}
  BY <1>4 DEF FinishedSnapshots, ActiveSnapshots
<1> QED
  BY <1>1, <1>2, <1>3, <1>4, <1>6, <1>7 DEF SoundMap

(* How many run, of a set of jobs.                                         *)
LEMMA FewerSnapshotsRun ==
  ASSUME NEW S, NEW T, T \subseteq S, S \subseteq SnapshotJobs, Cardinality(S) <= 1
  PROVE  Cardinality(T) <= 1
<1>1. IsFiniteSet(SnapshotJobs)
  <2>1. 1 \in Int /\ MaxSnapshotJobs \in Int
    BY SnapshotAssumption
  <2> QED
    BY <2>1, FS_Interval DEF SnapshotJobs
<1>2. IsFiniteSet(S)
  BY <1>1, FS_Subset
<1>3. /\ IsFiniteSet(T) /\ Cardinality(T) <= Cardinality(S)
      /\ Cardinality(T) \in Nat /\ Cardinality(S) \in Nat
  BY <1>2, FS_Subset, FS_CardinalityType
<1> QED
  BY <1>3

LEMMA NoTwoRun ==
  ASSUME SnapshotTypeOK, OneSnapshotRuns,
         NEW i \in ActiveSnapshots(Map), NEW j \in ActiveSnapshots(Map)
  PROVE  i = j
<1> DEFINE S == ActiveSnapshots(Map)
<1>1. IsFiniteSet(SnapshotJobs)
  <2>1. 1 \in Int /\ MaxSnapshotJobs \in Int
    BY SnapshotAssumption
  <2> QED
    BY <2>1, FS_Interval DEF SnapshotJobs
<1>2. IsFiniteSet(S)
  <2>1. S \subseteq SnapshotJobs
    BY DEF SnapshotTypeOK, ActiveSnapshots, Map
  <2> HIDE DEF S
  <2> QED
    BY <1>1, <2>1, FS_Subset
<1>3. Cardinality(S) <= 1 /\ i \in S /\ j \in S
  BY DEF OneSnapshotRuns
<1> HIDE DEF S
<1>4. SUFFICES ASSUME i # j PROVE FALSE
  OBVIOUS
<1>5. {i, j} \subseteq S
  BY <1>3
<1>6. Cardinality({i, j}) = 2
  <2>1. IsFiniteSet({j}) /\ Cardinality({j}) = 1
    BY FS_Singleton
  <2>2. Cardinality({j} \cup {i}) = Cardinality({j}) + 1
    BY <1>4, <2>1, FS_AddElement
  <2>3. {i, j} = {j} \cup {i}
    OBVIOUS
  <2> QED
    BY <2>1, <2>2, <2>3
<1>7. Cardinality({i, j}) <= Cardinality(S)
  BY <1>2, <1>5, FS_Subset
<1>8. Cardinality(S) \in Nat
  BY <1>2, FS_CardinalityType
<1> QED
  BY <1>3, <1>6, <1>7, <1>8

(* Of the jobs that were not given up, one generates.                      *)
LEMMA OneWorks ==
  ASSUME WeeklyIInv, NEW i \in SnapshotJobs \ outrun, NEW j \in SnapshotJobs \ outrun, Generating(i), Generating(j)
  PROVE  i = j
<1>1. i \in ActiveSnapshots(Map) /\ j \in ActiveSnapshots(Map)
  BY DEF WeeklyIInv, WorkIsShown, ActiveSnapshots, Map
<1> QED
  BY <1>1, NoTwoRun DEF WeeklyIInv, WeeklyInv

LEMMA ReadIsNat ==
  ASSUME WeeklyIInv, NEW j \in SnapshotJobs
  PROVE  job[j].read \in Nat
<1>1. job[j] \in SnapshotRow
  BY WeeklyTypes DEF WeeklyIInv, WeeklyInv
<1>2. 0..MaxData \subseteq Nat
  BY SnapshotAssumption
<1> QED
  BY <1>1, <1>2 DEF SnapshotRow

(* What a finished job j promises, and what keeps the promise.             *)
OnDisk(j) ==
  LET files == week[job[j].date] IN
  /\ \A x \in {"activity", "dashboard", "reports"} : files[x] = files.metadata
  /\ \/ files.metadata >= job[j].read
     \/ \E i \in SnapshotJobs : /\ job[i].status = "done" /\ job[i].date = job[j].date
                               /\ job[i].read = files.metadata /\ {i, j} \cap outrun # {}

LEMMA OnDiskIs ==
  /\ DoneIsOnDisk <=>
       \A j \in SnapshotJobs : job[j].status = "done" /\ job[j].date \notin torn => OnDisk(j)
  /\ DoneIsOnDisk' <=>
       \A j \in SnapshotJobs : job'[j].status = "done" /\ job'[j].date \notin torn' => OnDisk(j)'
BY DEF DoneIsOnDisk, OnDisk

LEMMA DiskRests ==
  ASSUME NEW j \in SnapshotJobs, OnDisk(j), job'[j] = job[j], outrun \subseteq outrun',
         \A i \in SnapshotJobs : job[i].status = "done" => job'[i] = job[i],
         \A x \in {"metadata", "activity", "dashboard", "reports"} :
           week'[job[j].date][x] = week[job[j].date][x]
  PROVE  OnDisk(j)'
<1> DEFINE old == week[job[j].date]
           new == week'[job[j].date]
<1>1. \A x \in {"activity", "dashboard", "reports"} : new[x] = new.metadata
  BY DEF OnDisk
<1>2. new.metadata = old.metadata
  OBVIOUS
<1>3. CASE old.metadata >= job[j].read
  BY <1>1, <1>2, <1>3 DEF OnDisk
<1>4. ASSUME NEW i \in SnapshotJobs, job[i].status = "done", job[i].date = job[j].date,
             job[i].read = old.metadata, {i, j} \cap outrun # {}
      PROVE  OnDisk(j)'
  <2>1. job'[i] = job[i] /\ {i, j} \cap outrun' # {}
    BY <1>4
  <2> QED
    BY <1>1, <1>2, <1>4, <2>1 DEF OnDisk
<1> QED
  BY <1>3, <1>4 DEF OnDisk

(* The files of every date stay, and no job is done that was not before.   *)
LEMMA FilesRest ==
  ASSUME WeeklyIInv, SnapshotTypeOK', OneSnapshotRuns', WorkIsShown',
         UNCHANGED week, now <= now', data <= data', outrun \subseteq outrun', torn \subseteq torn',
         \A j \in SnapshotJobs : "done" \in {job[j].status, job'[j].status} => job'[j] = job[j],
         \A j \in SnapshotJobs :
           \/ job'[j].read = job[j].read /\ (job'[j].at = "build" => job[j].at = "build")
           \/ job'[j].read = data
           \/ job'[j].read = 0 /\ job'[j].at # "build"
  PROVE  WeeklyIInv'
<1> USE DEF WeeklyIInv, WeeklyInv
<1>1. /\ job \in [SnapshotJobs -> SnapshotRow] /\ data \in Nat /\ data' \in Nat
      /\ now \in Nat /\ now' \in Nat /\ week \in [Dates -> Files]
  <2>1. /\ now \in Moments /\ now' \in Moments
        /\ data \in 1..MaxData /\ data' \in 1..MaxData
    BY DEF SnapshotTypeOK
  <2>2. Moments \subseteq Nat /\ MaxData \in Nat
    BY SnapshotAssumption
  <2>3. job \in [SnapshotJobs -> SnapshotRow] /\ week \in [Dates -> Files]
    BY WeeklyTypes
  <2> QED
    BY <2>1, <2>2, <2>3
<1>2. \A j \in SnapshotJobs : job[j].read \in Nat /\ job[j].read <= data
  <2>1. \A j \in SnapshotJobs : job[j] \in SnapshotRow
    BY <1>1
  <2>2. 0..MaxData \subseteq Nat
    BY SnapshotAssumption
  <2> QED
    BY <2>1, <2>2 DEF SnapshotRow, ReadsAreCurrent
<1>3. DoneIsOnDisk'
  <2>1. ASSUME NEW j \in SnapshotJobs, job'[j].status = "done", job'[j].date \notin torn'
        PROVE  OnDisk(j)'
    <3>1. job'[j] = job[j] /\ job[j].status = "done" /\ job[j].date \notin torn
      BY <2>1
    <3>2. OnDisk(j)
      BY <3>1, OnDiskIs
    <3> QED
      BY <3>1, <3>2, DiskRests
  <2> QED
    BY <2>1, OnDiskIs
<1>4. WeekIsOver'
  <2>1. ASSUME NEW d \in Dates, week[d].until # 0
        PROVE  IsOver(d, week[d].until, now')
    <3>1. IsOver(d, week[d].until, now)
      BY <2>1 DEF WeekIsOver, IsOver
    <3>2. d \in Nat /\ week[d].until \in Nat
      BY <1>1, DatesAre DEF Files
    <3> QED
      BY <1>1, <3>1, <3>2, StaysOver
  <2> QED
    BY <2>1 DEF WeekIsOver, IsOver
<1>5. WeeksMeet' /\ WindowsEndInside'
  BY DEF WeeksMeet, WindowsEndInside
<1>6. ReadsAreCurrent'
  <2>1. \A j \in SnapshotJobs : job'[j].read <= data'
    <3>1. SUFFICES ASSUME NEW j \in SnapshotJobs PROVE job'[j].read <= data'
      OBVIOUS
    <3>2. job[j].read \in Nat /\ job[j].read <= data
      BY <1>2
    <3>3. job'[j].read \in {job[j].read, data, 0}
      OBVIOUS
    <3> QED
      BY <1>1, <3>2, <3>3
  <2>2. ASSUME NEW i \in SnapshotJobs \ outrun', NEW j \in SnapshotJobs \ outrun',
               job'[i].at = "build", job'[j].status = "done"
        PROVE  job'[j].read <= job'[i].read
    <3>1. i \notin outrun /\ j \notin outrun /\ job'[j] = job[j] /\ job[j].status = "done"
      BY <2>2
    <3>2. CASE job'[i].read = job[i].read /\ job[i].at = "build"
      BY <3>1, <3>2 DEF ReadsAreCurrent
    <3>3. CASE job'[i].read = data
      BY <1>2, <3>1, <3>3
    <3> QED
      BY <2>2, <3>2, <3>3
  <2> QED
    BY <2>1, <2>2 DEF ReadsAreCurrent
<1> QED
  BY <1>3, <1>4, <1>5, <1>6

(* A pass over the map, job by job.                                        *)
LEMMA MapSays ==
  ASSUME WeeklyIInv, NEW m, SoundMap(m), MapComesFrom(m, Map), NEW j \in SnapshotJobs
  PROVE  /\ m.job[j].at = job[j].at /\ m.job[j].read = job[j].read
         /\ \/ m.job[j] = job[j]
            \/ job[j].status = "running" /\ j \in m.outrun /\ m.job[j].status = "error"
         /\ m.job[j].at \in {"load", "build"} =>
              (j \in m.known /\ m.job[j].status = "running") \/ j \in m.outrun
         /\ m.job[j].status = "none" => m.job[j].at = "none" /\ j \notin m.known
         /\ m.job[j].status = "done" => m.job[j].at = "over" /\ m.job[j].date \in Dates
<1> USE DEF WeeklyIInv, WeeklyInv
<1>1. job[j] \in SnapshotRow
  BY WeeklyTypes
<1>2. LET row == [job[j] EXCEPT !.status = "error"] IN
        row.at = job[j].at /\ row.read = job[j].read /\ row.date = job[j].date /\ row.status = "error"
  BY <1>1 DEF SnapshotRow
<1>3. /\ outrun \subseteq m.outrun /\ m.known \subseteq known
      /\ \/ m.job[j] = job[j]
         \/ /\ job[j].status = "running" /\ j \in m.outrun
            /\ m.job[j] = [job[j] EXCEPT !.status = "error"]
      /\ j \in known /\ job[j].status = "running" => j \in m.known \/ j \in m.outrun
  BY DEF MapComesFrom, Map
<1>4. /\ m.job[j].at = job[j].at /\ m.job[j].read = job[j].read
      /\ \/ m.job[j] = job[j]
         \/ job[j].status = "running" /\ j \in m.outrun /\ m.job[j].status = "error"
  BY <1>2, <1>3
<1>5. /\ Generating(j) => (j \in known /\ job[j].status = "running") \/ j \in outrun
      /\ job[j].status = "none" => job[j].at = "none" /\ j \notin known
      /\ job[j].status = "done" => job[j].at = "over" /\ job[j].date \in Dates
  BY DEF WorkIsShown
<1> QED
  BY <1>3, <1>4, <1>5 DEF Generating

LEMMA MapKeeps ==
  ASSUME WeeklyIInv, NEW m, SoundMap(m), MapComesFrom(m, Map), MapBecomes(m),
         UNCHANGED <<now, data, week, torn, snapshotFaults>>
  PROVE  WeeklyIInv'
<1> USE DEF WeeklyIInv, WeeklyInv
<1>1. /\ job' \in [SnapshotJobs -> SnapshotRow] /\ known \subseteq SnapshotJobs
      /\ job' = m.job /\ known' = m.known /\ late' = m.late /\ earlier' = m.earlier
      /\ outrun' = m.outrun
  BY WeeklyTypes DEF MapBecomes, SoundMap, SnapshotMap
<1>2. outrun \subseteq outrun' /\ known' \subseteq known
  BY <1>1 DEF MapComesFrom, Map
<1>3. SnapshotTypeOK'
  <2>1. FinishedSnapshots(m) = {j \in known' : job'[j].status # "running"}
    BY <1>1 DEF FinishedSnapshots, ActiveSnapshots
  <2>2. earlier' \in [SnapshotJobs -> SUBSET {j \in known' : job'[j].status # "running"}]
    BY <1>1, <2>1 DEF SoundMap, SnapshotMap
  <2>3. late' \subseteq known' /\ known' \subseteq SnapshotJobs /\ outrun' \subseteq SnapshotJobs
    BY <1>1 DEF SoundMap, SnapshotMap
  <2>4. /\ now' \in Moments /\ data' \in 1..MaxData
        /\ week' \in [Dates -> Files] /\ torn' \subseteq Dates /\ snapshotFaults' \in 0..MaxSnapshotFaults
    BY WeeklyTypes DEF SnapshotTypeOK
  <2> QED
    BY <1>1, <2>2, <2>3, <2>4 DEF SnapshotTypeOK, SnapshotRow, Files
<1>4. OneSnapshotRuns'
  <2>1. \A j \in SnapshotJobs : job'[j].status = "running" => job'[j] = job[j]
    BY <1>1, MapSays
  <2>2. ActiveSnapshots(Map)' \subseteq ActiveSnapshots(Map)
    BY <1>1, <1>2, <2>1 DEF ActiveSnapshots, Map
  <2>3. ActiveSnapshots(Map) \subseteq SnapshotJobs
    BY <1>1 DEF ActiveSnapshots, Map
  <2> QED
    BY <2>2, <2>3, FewerSnapshotsRun DEF OneSnapshotRuns
<1>5. WorkIsShown'
  BY <1>1, MapSays DEF WorkIsShown, Generating
<1>6. /\ \A j \in SnapshotJobs : "done" \in {job[j].status, job'[j].status} => job'[j] = job[j]
      /\ \A j \in SnapshotJobs : job'[j].read = job[j].read /\ (job'[j].at = "build" => job[j].at = "build")
  BY <1>1, MapSays
<1>7. now <= now' /\ data <= data'
  BY SnapshotAssumption DEF SnapshotTypeOK
<1> QED
  BY <1>2, <1>3, <1>4, <1>5, <1>6, <1>7, FilesRest

(* A POST, a GET of one job and a GET of the active one.                   *)
LEMMA CountedMap ==
  ASSUME WeeklyIInv, NEW named
  PROVE  LET m == Declare(PrunedJobs(Map), named) IN SoundMap(m) /\ MapComesFrom(m, Map)
<1> DEFINE pruned == PrunedJobs(Map)
           m == Declare(pruned, named)
<1>1. SoundMap(Map)
  BY WeeklyTypes DEF WeeklyIInv, WeeklyInv
<1>2. SoundMap(pruned) /\ MapComesFrom(pruned, Map)
  BY <1>1, PrunedJobsSound
<1> HIDE DEF pruned
<1>3. SoundMap(m) /\ MapComesFrom(m, pruned)
  BY <1>2, DeclareSound
<1> HIDE DEF m
<1>4. SoundMap(m) /\ MapComesFrom(m, Map)
  BY <1>1, <1>2, <1>3, MapComesFar
<1> QED
  BY <1>4 DEF m, pruned

LEMMA GetKeepsWeeks ==
  ASSUME WeeklyIInv, GetActiveSnapshot \/ \E j \in SnapshotJobs : GetSnapshotJob(j)
  PROVE  WeeklyIInv'
<1>1. PICK named \in SUBSET SnapshotJobs :
        /\ MapBecomes(Declare(PrunedJobs(Map), named))
        /\ UNCHANGED <<now, data, week, torn, snapshotFaults>>
  BY DEF GetActiveSnapshot, GetSnapshotJob
<1> DEFINE m == Declare(PrunedJobs(Map), named)
<1>2. SoundMap(m) /\ MapComesFrom(m, Map) /\ MapBecomes(m)
  BY <1>1, CountedMap
<1> HIDE DEF m
<1> QED
  BY <1>1, <1>2, MapKeeps

LEMMA PostKeepsWeeks ==
  ASSUME WeeklyIInv, NEW j \in SnapshotJobs, PostSnapshot(j)
  PROVE  WeeklyIInv'
<1> USE DEF WeeklyIInv, WeeklyInv
<1> DEFINE counted == Declare(PrunedJobs(Map), SnapshotJobs)
           m == PrunedJobs(counted)
           row == [NoSnapshotJob EXCEPT !.status = "running", !.at = "load"]
           n == [m EXCEPT !.job[j] = row, !.known = @ \cup {j}]
<1>1. /\ job[j].status = "none"
      /\ UNCHANGED <<now, data, week, torn, snapshotFaults>>
      /\ IF NothingRuns(counted) THEN MapBecomes(n) ELSE MapBecomes(counted)
  BY DEF PostSnapshot
<1>2. SoundMap(counted) /\ MapComesFrom(counted, Map)
  BY CountedMap
<1> HIDE DEF counted
<1>3. CASE ~NothingRuns(counted)
  BY <1>1, <1>2, <1>3, MapKeeps
<1>4. CASE NothingRuns(counted)
  <2>1. SoundMap(m) /\ MapComesFrom(m, counted)
    BY <1>2, PrunedJobsSound
  <2>2. SoundMap(Map)
    BY WeeklyTypes
  <2> HIDE DEF m
  <2>3. MapComesFrom(m, Map)
    BY <1>2, <2>1, <2>2, MapComesFar
  <2>4. m \in SnapshotMap /\ counted \in SnapshotMap
    BY <1>2, <2>1 DEF SoundMap
  <2>5. row \in SnapshotRow /\ row.status = "running" /\ row.at = "load" /\ row.read = 0
    <3>1. NoSnapshotJob \in SnapshotRow /\ NoSnapshotJob.read = 0
      BY SnapshotAssumption DEF NoSnapshotJob, SnapshotRow
    <3> QED
      BY <3>1 DEF SnapshotRow
  <2> HIDE DEF row
  <2>6. /\ job' = [m.job EXCEPT ![j] = row] /\ known' = m.known \cup {j}
        /\ earlier' = m.earlier /\ late' = m.late /\ outrun' = m.outrun
    BY <1>1, <1>4, <2>4 DEF MapBecomes, SnapshotMap
  <2>7. /\ job'[j] = row /\ \A i \in SnapshotJobs : i # j => job'[i] = m.job[i]
        /\ j \in known' /\ m.known \subseteq SnapshotJobs
    BY <2>4, <2>6 DEF SnapshotMap
  <2>8. m.job[j] = job[j] /\ j \notin m.known
    BY <1>1, <2>1, <2>3, MapSays
  <2>9. \A i \in m.known : m.job[i].status # "running"
    <3>1. SUFFICES ASSUME NEW i \in m.known, m.job[i].status = "running" PROVE FALSE
      OBVIOUS
    <3>2. i \in SnapshotJobs /\ i \in counted.known
      BY <2>1, <2>4 DEF MapComesFrom, SnapshotMap
    <3>3. counted.job[i].status = "running"
      <4>1. counted.job[i] \in SnapshotRow
        BY <2>4, <3>2 DEF SnapshotMap
      <4>2. [counted.job[i] EXCEPT !.status = "error"].status = "error"
        BY <4>1 DEF SnapshotRow
      <4> QED
        BY <2>1, <3>1, <3>2, <4>2 DEF MapComesFrom
    <3> QED
      BY <1>4, <3>2, <3>3 DEF NothingRuns, ActiveSnapshots
  <2>10. SnapshotTypeOK'
    <3>2. job' \in [SnapshotJobs -> SnapshotRow]
      BY <2>4, <2>5, <2>6 DEF SnapshotMap
    <3>3. FinishedSnapshots(m) \subseteq {i \in known' : job'[i].status # "running"}
      <4>1. \A i \in FinishedSnapshots(m) : i \in m.known /\ i # j /\ i \in SnapshotJobs
        BY <2>7, <2>8 DEF FinishedSnapshots
      <4> QED
        BY <2>6, <2>7, <2>9, <4>1
    <3>4. earlier' \in [SnapshotJobs -> SUBSET {i \in known' : job'[i].status # "running"}]
      <4>1. earlier' \in [SnapshotJobs -> SUBSET SnapshotJobs]
        BY <2>4, <2>6 DEF SnapshotMap
      <4>2. \A i \in SnapshotJobs : earlier'[i] \subseteq FinishedSnapshots(m)
        BY <2>1, <2>6 DEF SoundMap
      <4> QED
        BY <3>3, <4>1, <4>2
    <3>5. late' \subseteq known' /\ known' \subseteq SnapshotJobs /\ outrun' \subseteq SnapshotJobs
      BY <2>1, <2>4, <2>6 DEF SoundMap, SnapshotMap
    <3>6. /\ now' \in Moments /\ data' \in 1..MaxData
          /\ week' \in [Dates -> Files] /\ torn' \subseteq Dates /\ snapshotFaults' \in 0..MaxSnapshotFaults
      BY <1>1, WeeklyTypes DEF SnapshotTypeOK
    <3> QED
      BY <3>2, <3>4, <3>5, <3>6 DEF SnapshotTypeOK, SnapshotRow, Files
  <2>11. OneSnapshotRuns'
    <3>1. ActiveSnapshots(Map)' = {j}
      <4>1. ActiveSnapshots(Map)' = {i \in known' : job'[i].status = "running"}
        BY DEF ActiveSnapshots, Map
      <4>2. \A i \in known' : i # j => job'[i].status # "running"
        BY <2>6, <2>7, <2>9
      <4>3. job'[j].status = "running"
        BY <2>5, <2>7
      <4> QED
        BY <2>7, <4>1, <4>2, <4>3
    <3>2. Cardinality({j}) = 1
      BY FS_Singleton
    <3>3. Cardinality(ActiveSnapshots(Map)') <= 1
      BY <3>1, <3>2
    <3> QED
      BY <3>3 DEF OneSnapshotRuns
  <2>12. WorkIsShown'
    <3>1. SUFFICES ASSUME NEW i \in SnapshotJobs
                   PROVE  /\ Generating(i)' => (i \in known' /\ job'[i].status = "running") \/ i \in outrun'
                          /\ job'[i].status = "none" => job'[i].at = "none" /\ i \notin known'
                          /\ job'[i].status = "done" => job'[i].at = "over" /\ job'[i].date \in Dates
      BY DEF WorkIsShown
    <3>2. CASE i = j
      BY <2>5, <2>7, <3>2
    <3>3. CASE i # j
      <4>1. /\ m.job[i].at \in {"load", "build"} =>
                  (i \in m.known /\ m.job[i].status = "running") \/ i \in m.outrun
            /\ m.job[i].status = "none" => m.job[i].at = "none" /\ i \notin m.known
            /\ m.job[i].status = "done" => m.job[i].at = "over" /\ m.job[i].date \in Dates
        BY <2>1, <2>3, MapSays
      <4> QED
        BY <2>6, <2>7, <3>3, <4>1 DEF Generating
    <3> QED BY <3>2, <3>3
  <2>13. ASSUME NEW i \in SnapshotJobs
         PROVE  /\ "done" \in {job[i].status, job'[i].status} => job'[i] = job[i]
                /\ \/ job'[i].read = job[i].read /\ (job'[i].at = "build" => job[i].at = "build")
                   \/ job'[i].read = 0 /\ job'[i].at # "build"
    <3>1. CASE i = j
      BY <1>1, <2>5, <2>7, <3>1
    <3>2. CASE i # j
      BY <2>1, <2>3, <2>7, <3>2, MapSays
    <3> QED BY <3>1, <3>2
  <2>14. outrun \subseteq outrun'
    BY <2>3, <2>6 DEF MapComesFrom, Map
  <2>15. now <= now' /\ data <= data'
    BY <1>1, SnapshotAssumption DEF SnapshotTypeOK
  <2> QED
    BY <1>1, <2>10, <2>11, <2>12, <2>13, <2>14, <2>15, FilesRest
<1> QED BY <1>3, <1>4

-----------------------------------------------------------------------------
(* The generation.                                                         *)

LEMMA LoadKeeps ==
  ASSUME WeeklyIInv, NEW j \in SnapshotJobs, Load(j)
  PROVE  WeeklyIInv'
<1> USE DEF WeeklyIInv, WeeklyInv
<1>1. /\ job[j].at = "load" /\ job' = [job EXCEPT ![j] = [job[j] EXCEPT !.at = "build", !.read = data]]
      /\ UNCHANGED <<now, data, known, earlier, late, week, outrun, torn, snapshotFaults>>
  BY DEF Load
<1>2. job \in [SnapshotJobs -> SnapshotRow] /\ data \in 0..MaxData
  BY WeeklyTypes DEF SnapshotTypeOK
<1> DEFINE row == [job[j] EXCEPT !.at = "build", !.read = data]
<1>3. /\ row \in SnapshotRow /\ row.at = "build" /\ row.read = data /\ row.status = job[j].status
      /\ row.date = job[j].date
  <2>1. job[j] \in SnapshotRow
    BY <1>2
  <2> QED
    BY <1>2, <2>1 DEF SnapshotRow
<1> HIDE DEF row
<1>4. job' = [job EXCEPT ![j] = row]
  BY <1>1 DEF row
<1>5. /\ job'[j] = row /\ \A i \in SnapshotJobs : i # j => job'[i] = job[i]
      /\ \A i \in SnapshotJobs : job'[i].status = job[i].status
  BY <1>2, <1>3, <1>4
<1>6. known \subseteq SnapshotJobs
  BY WeeklyTypes
<1>7. SnapshotTypeOK'
  <2>1. job' \in [SnapshotJobs -> SnapshotRow]
    BY <1>2, <1>3, <1>4
  <2>2. {i \in known' : job'[i].status # "running"} = {i \in known : job[i].status # "running"}
    BY <1>1, <1>5, <1>6
  <2> QED
    BY <1>1, <2>1, <2>2 DEF SnapshotTypeOK, SnapshotRow
<1>8. OneSnapshotRuns'
  <2>1. ActiveSnapshots(Map)' = ActiveSnapshots(Map)
    BY <1>1, <1>5, <1>6 DEF ActiveSnapshots, Map
  <2> QED
    BY <2>1 DEF OneSnapshotRuns
<1>9. Generating(j) /\ job[j].status # "done" /\ job[j].status # "none"
  BY <1>1 DEF WorkIsShown, Generating
<1>10. WorkIsShown'
  <2>1. SUFFICES ASSUME NEW i \in SnapshotJobs
                 PROVE  /\ Generating(i)' => (i \in known' /\ job'[i].status = "running") \/ i \in outrun'
                        /\ job'[i].status = "none" => job'[i].at = "none" /\ i \notin known'
                        /\ job'[i].status = "done" => job'[i].at = "over" /\ job'[i].date \in Dates
    BY DEF WorkIsShown
  <2>2. /\ Generating(i) => (i \in known /\ job[i].status = "running") \/ i \in outrun
        /\ job[i].status = "none" => job[i].at = "none" /\ i \notin known
        /\ job[i].status = "done" => job[i].at = "over" /\ job[i].date \in Dates
    BY DEF WorkIsShown
  <2>3. CASE i = j
    BY <1>1, <1>3, <1>5, <1>9, <2>2, <2>3
  <2>4. CASE i # j
    BY <1>1, <1>5, <2>2, <2>4 DEF Generating
  <2> QED BY <2>3, <2>4
<1>11. ASSUME NEW i \in SnapshotJobs
       PROVE  /\ "done" \in {job[i].status, job'[i].status} => job'[i] = job[i]
              /\ \/ job'[i].read = job[i].read /\ (job'[i].at = "build" => job[i].at = "build")
                 \/ job'[i].read = data
  BY <1>3, <1>5, <1>9
<1>12. now <= now' /\ data <= data'
  BY <1>1, SnapshotAssumption DEF SnapshotTypeOK
<1> QED
  BY <1>1, <1>7, <1>8, <1>10, <1>11, <1>12, FilesRest

(* The end of a generation, whatever it has written.                       *)
LEMMA EndOfWork ==
  ASSUME WeeklyIInv, NEW j \in SnapshotJobs, Generating(j),
         NEW outcome \in {"done", "error"}, NEW d \in Dates \cup {NoDate},
         outcome = "done" => d \in Dates, JobOver(j, outcome, d), UNCHANGED <<now, data>>,
         week' \in [Dates -> Files], torn' \subseteq Dates, snapshotFaults' \in 0..MaxSnapshotFaults
  PROVE  /\ SnapshotTypeOK' /\ OneSnapshotRuns' /\ WorkIsShown'
         /\ job'[j].status = outcome /\ job'[j].at = "over" /\ job'[j].date = d /\ job'[j].read = job[j].read
         /\ job[j].status # "done"
         /\ \A i \in SnapshotJobs : i # j => job'[i] = job[i]
         /\ UNCHANGED outrun
<1> USE DEF WeeklyIInv, WeeklyInv
<1> DEFINE row == [job[j] EXCEPT !.status = outcome, !.at = "over", !.date = d]
<1>1. /\ job' = [job EXCEPT ![j] = row]
      /\ earlier' = [NoLonger(earlier, {j}) EXCEPT
                       ![j] = IF j \in known THEN FinishedSnapshots(Map) \ {j} ELSE {}]
      /\ late' = late \ {j} /\ UNCHANGED <<known, outrun>>
  BY DEF JobOver
<1>2. job \in [SnapshotJobs -> SnapshotRow] /\ known \subseteq SnapshotJobs
  BY WeeklyTypes
<1>3. /\ row \in SnapshotRow /\ row.at = "over" /\ row.read = job[j].read /\ row.status = outcome
      /\ row.date = d
  <2>1. job[j] \in SnapshotRow
    BY <1>2
  <2> QED
    BY <2>1 DEF SnapshotRow
<1> HIDE DEF row
<1>4. /\ job'[j] = row /\ \A i \in SnapshotJobs : i # j => job'[i] = job[i]
  BY <1>1, <1>2
<1>5. job[j].status # "none" /\ job[j].status # "done" /\ outcome # "running" /\ outcome # "none"
  BY DEF WorkIsShown, Generating
<1> DEFINE over == {i \in known : job[i].status # "running"}
           overNow == {i \in known' : job'[i].status # "running"}
<1>6. over \subseteq overNow /\ (j \in known => j \in overNow)
  BY <1>1, <1>2, <1>3, <1>4, <1>5
<1>7. FinishedSnapshots(Map) = over
  BY DEF FinishedSnapshots, ActiveSnapshots, Map
<1>8. earlier \in [SnapshotJobs -> SUBSET over]
  BY DEF SnapshotTypeOK
<1> HIDE DEF over, overNow
<1>9. earlier' \in [SnapshotJobs -> SUBSET overNow]
  <2> DEFINE shorter == NoLonger(earlier, {j})
             new == IF j \in known THEN FinishedSnapshots(Map) \ {j} ELSE {}
  <2>1. shorter \in [SnapshotJobs -> SUBSET overNow]
    <3>1. \A i \in SnapshotJobs : earlier[i] \subseteq overNow
      BY <1>6, <1>8
    <3> QED
      BY <3>1 DEF NoLonger
  <2>2. new \in SUBSET overNow
    BY <1>6, <1>7
  <2>3. earlier' = [shorter EXCEPT ![j] = new]
    BY <1>1
  <2> HIDE DEF shorter, new
  <2> QED
    BY <2>1, <2>2, <2>3
<1>10. SnapshotTypeOK'
  <2>1. job' \in [SnapshotJobs -> SnapshotRow]
    BY <1>1, <1>2, <1>3
  <2>2. late' \subseteq known' /\ known' \subseteq SnapshotJobs /\ outrun' \subseteq SnapshotJobs
    BY <1>1 DEF SnapshotTypeOK
  <2>3. now' \in Moments /\ data' \in 1..MaxData
    BY DEF SnapshotTypeOK
  <2> QED
    BY <1>9, <2>1, <2>2, <2>3 DEF SnapshotTypeOK, SnapshotRow, Files, overNow
<1>11. OneSnapshotRuns'
  <2>1. ActiveSnapshots(Map)' \subseteq ActiveSnapshots(Map)
    <3>1. \A i \in known' : job'[i].status = "running" => i \in known /\ job[i].status = "running"
      BY <1>1, <1>2, <1>3, <1>4, <1>5
    <3> QED
      BY <3>1 DEF ActiveSnapshots, Map
  <2>2. ActiveSnapshots(Map) \subseteq SnapshotJobs
    BY <1>2 DEF ActiveSnapshots, Map
  <2> QED
    BY <2>1, <2>2, FewerSnapshotsRun DEF OneSnapshotRuns
<1>12. WorkIsShown'
  <2>1. SUFFICES ASSUME NEW i \in SnapshotJobs
                 PROVE  /\ Generating(i)' => (i \in known' /\ job'[i].status = "running") \/ i \in outrun'
                        /\ job'[i].status = "none" => job'[i].at = "none" /\ i \notin known'
                        /\ job'[i].status = "done" => job'[i].at = "over" /\ job'[i].date \in Dates
    BY DEF WorkIsShown
  <2>2. /\ Generating(i) => (i \in known /\ job[i].status = "running") \/ i \in outrun
        /\ job[i].status = "none" => job[i].at = "none" /\ i \notin known
        /\ job[i].status = "done" => job[i].at = "over" /\ job[i].date \in Dates
    BY DEF WorkIsShown
  <2>3. CASE i = j
    BY <1>3, <1>4, <1>5, <2>3 DEF Generating
  <2>4. CASE i # j
    BY <1>1, <1>4, <2>2, <2>4 DEF Generating
  <2> QED BY <2>3, <2>4
<1> QED
  BY <1>1, <1>3, <1>4, <1>5, <1>10, <1>11, <1>12

LEMMA LoadFailsKeeps ==
  ASSUME WeeklyIInv, NEW j \in SnapshotJobs, LoadFails(j)
  PROVE  WeeklyIInv'
<1> USE DEF WeeklyIInv, WeeklyInv
<1>1. /\ Generating(j) /\ JobOver(j, "error", NoDate) /\ UNCHANGED <<now, data, week, torn>>
      /\ snapshotFaults < MaxSnapshotFaults /\ snapshotFaults' = snapshotFaults + 1
  BY DEF LoadFails, Generating, SnapshotFault
<1>2. week' \in [Dates -> Files] /\ torn' \subseteq Dates /\ snapshotFaults' \in 0..MaxSnapshotFaults
  BY <1>1, WeeklyTypes, SnapshotAssumption DEF SnapshotTypeOK
<1>3. /\ SnapshotTypeOK' /\ OneSnapshotRuns' /\ WorkIsShown'
      /\ job'[j].status = "error" /\ job'[j].at = "over" /\ job'[j].read = job[j].read
      /\ job[j].status # "done"
      /\ \A i \in SnapshotJobs : i # j => job'[i] = job[i]
      /\ UNCHANGED outrun
  <2>1. NoDate \in Dates \cup {NoDate} /\ "error" \in {"done", "error"} /\ "error" # "done"
    OBVIOUS
  <2> QED
    BY <1>1, <1>2, <2>1, EndOfWork
<1>4. \A i \in SnapshotJobs : "done" \in {job[i].status, job'[i].status} => job'[i] = job[i]
  BY <1>3
<1>5. \A i \in SnapshotJobs : job'[i].read = job[i].read /\ (job'[i].at = "build" => job[i].at = "build")
  BY <1>3
<1>6. now <= now' /\ data <= data'
  BY <1>1, SnapshotAssumption DEF SnapshotTypeOK
<1> QED
  BY <1>1, <1>3, <1>4, <1>5, <1>6, FilesRest

-----------------------------------------------------------------------------
(* The files.                                                              *)

LEMMA WrittenIs ==
  ASSUME NEW files \in Files, NEW n \in 0..4, NEW v \in 0..MaxData,
         WindowEnd(now) \in Nat
  PROVE  LET w == WrittenUpTo(files, n, v) IN
         /\ w \in Files
         /\ w.until = IF n > 0 THEN WindowEnd(now) ELSE files.until
         /\ n = 0 => w.metadata = files.metadata /\ w.activity = files.activity
                      /\ w.dashboard = files.dashboard /\ w.reports = files.reports
         /\ n = 4 => w.metadata = v /\ w.activity = v /\ w.dashboard = v /\ w.reports = v
<1> DEFINE w == WrittenUpTo(files, n, v)
<1>1. DOMAIN files = {"metadata", "activity", "dashboard", "reports", "until"}
  BY DEF Files
<1>2. /\ DOMAIN w = {"metadata", "activity", "dashboard", "reports", "until"}
      /\ w.until = IF n > 0 THEN WindowEnd(now) ELSE files.until
      /\ \A x \in {"metadata", "activity", "dashboard", "reports"} :
            w[x] = IF \E k \in 1..n : Pieces[k] = x THEN v ELSE files[x]
  BY <1>1 DEF WrittenUpTo
<1>3. w = [x \in DOMAIN w |-> w[x]]
  BY DEF WrittenUpTo
<1> HIDE DEF w
<1>4. n = 0 => \A x : ~\E k \in 1..n : Pieces[k] = x
  OBVIOUS
<1>5. n = 4 => \A x \in {"metadata", "activity", "dashboard", "reports"} : \E k \in 1..n : Pieces[k] = x
  <2>1. Pieces[1] = "metadata" /\ Pieces[2] = "activity" /\ Pieces[3] = "dashboard" /\ Pieces[4] = "reports"
    BY DEF Pieces
  <2>2. n = 4 => 1 \in 1..n /\ 2 \in 1..n /\ 3 \in 1..n /\ 4 \in 1..n
    OBVIOUS
  <2> QED
    BY <2>1, <2>2
<1>6. /\ w.metadata \in 0..MaxData /\ w.activity \in 0..MaxData /\ w.dashboard \in 0..MaxData
      /\ w.reports \in 0..MaxData /\ w.until \in Nat
  BY <1>2 DEF Files
<1>7. w \in Files
  BY <1>2, <1>3, <1>6 DEF Files
<1> QED
  BY <1>2, <1>4, <1>5, <1>7 DEF w

(* Two windows that end on days a week apart.                              *)
LEMMA WindowsMeet ==
  ASSUME NEW d \in Nat, NEW u \in Nat, NEW v \in Nat, Day(u) = d, Day(v) = d + 7
  PROVE  v <= u + 168 + 24 /\ u + 168 <= v + 24
<1>1. /\ Local(u) \in Nat /\ Local(u) \in {u, u + 1}
      /\ Local(v) \in Nat /\ Local(v) \in {v, v + 1}
  BY LocalIs
<1>2. Local(u) \div 24 = d /\ Local(v) \div 24 = d + 7
  BY DEF Day
<1>3. Local(u) \in (24 * d)..(24 * d + 23) /\ Local(v) \in (24 * d + 168)..(24 * d + 191)
  BY <1>1, <1>2
<1> QED
  BY <1>1, <1>3

(* The windows, when one date's files change.                              *)
LEMMA WindowsRest ==
  ASSUME WeeklyIInv, week' \in [Dates -> Files], now' = now,
         \A d \in Dates : \/ week'[d].until = week[d].until
                          \/ d = SnapshotDate(now) /\ week'[d].until = WindowEnd(now)
  PROVE  WeekIsOver' /\ WindowsEndInside' /\ WeeksMeet'
<1> USE DEF WeeklyIInv, WeeklyInv
<1>1. now \in Moments
  BY DEF SnapshotTypeOK
<1> DEFINE D == SnapshotDate(now)
           u == WindowEnd(now)
<1>2. IsOver(D, u, now) /\ Day(u) = D
  BY <1>1, WindowIs
<1> HIDE DEF D, u
<1>3. \A d \in Dates : week'[d].until = week[d].until \/ (d = D /\ week'[d].until = u)
  BY DEF D, u
<1>4. WeekIsOver'
  <2>1. ASSUME NEW d \in Dates, week'[d].until # 0
        PROVE  IsOver(d, week'[d].until, now')
    <3>1. CASE week'[d].until = week[d].until
      BY <2>1, <3>1 DEF WeekIsOver, IsOver
    <3>2. CASE d = D /\ week'[d].until = u
      BY <1>2, <3>2
    <3> QED BY <1>3, <3>1, <3>2
  <2> QED BY <2>1 DEF WeekIsOver, IsOver
<1>5. WindowsEndInside'
  <2>1. ASSUME NEW d \in Dates, week'[d].until # 0
        PROVE  Day(week'[d].until) = d
    <3>1. CASE week'[d].until = week[d].until
      BY <2>1, <3>1 DEF WindowsEndInside
    <3>2. CASE d = D /\ week'[d].until = u
      BY <1>2, <3>2
    <3> QED BY <1>3, <3>1, <3>2
  <2> QED BY <2>1 DEF WindowsEndInside
<1>6. WeeksMeet'
  <2>1. ASSUME NEW d \in Dates, NEW e \in Dates, week'[d].until # 0, week'[e].until # 0, e = d + 7
        PROVE  /\ week'[e].until <= week'[d].until + 168 + 24
               /\ week'[d].until + 168 <= week'[e].until + 24
    <3>1. d \in Nat
      BY DatesAre
    <3>2. week'[d].until \in Nat /\ week'[e].until \in Nat
      <4>1. week'[d] \in Files /\ week'[e] \in Files
        OBVIOUS
      <4> QED
        BY <4>1 DEF Files
    <3>3. Day(week'[d].until) = d /\ Day(week'[e].until) = d + 7
      BY <1>5, <2>1 DEF WindowsEndInside
    <3> QED
      BY <3>1, <3>2, <3>3, WindowsMeet
  <2> QED BY <2>1 DEF WeeksMeet
<1> QED BY <1>4, <1>5, <1>6

(* The end of a build, whatever it has written: what is left to read.      *)
LEMMA BuildEnds ==
  ASSUME WeeklyIInv, NEW j \in SnapshotJobs, job[j].at = "build",
         NEW outcome \in {"done", "error"}, NEW n \in 0..4,
         JobOver(j, outcome, SnapshotDate(now)), UNCHANGED <<now, data>>,
         week' = [week EXCEPT ![SnapshotDate(now)] = WrittenUpTo(@, n, job[j].read)],
         torn' \subseteq Dates, snapshotFaults' \in 0..MaxSnapshotFaults
  PROVE  /\ SnapshotTypeOK' /\ OneSnapshotRuns' /\ WorkIsShown' /\ ReadsAreCurrent'
         /\ WeekIsOver' /\ WindowsEndInside' /\ WeeksMeet'
         /\ job'[j].status = outcome /\ job'[j].date = SnapshotDate(now) /\ job'[j].read = job[j].read
         /\ job[j].status # "done"
         /\ \A i \in SnapshotJobs : i # j => job'[i] = job[i]
         /\ UNCHANGED outrun
         /\ SnapshotDate(now) \in Dates
         /\ \A d \in Dates : d # SnapshotDate(now) => week'[d] = week[d]
         /\ LET f == week[SnapshotDate(now)]
                w == week'[SnapshotDate(now)]
                v == job[j].read IN
            /\ n = 0 => w.metadata = f.metadata /\ w.activity = f.activity
                         /\ w.dashboard = f.dashboard /\ w.reports = f.reports
            /\ n = 4 => w.metadata = v /\ w.activity = v /\ w.dashboard = v /\ w.reports = v
<1> USE DEF WeeklyIInv, WeeklyInv
<1> DEFINE D == SnapshotDate(now)
           w == WrittenUpTo(week[D], n, job[j].read)
<1>1. /\ job \in [SnapshotJobs -> SnapshotRow] /\ week \in [Dates -> Files]
      /\ now \in Moments /\ data \in 1..MaxData
  BY WeeklyTypes DEF SnapshotTypeOK
<1>2. D \in Dates /\ WindowEnd(now) \in Nat
  BY <1>1, WindowIs
<1>3. job[j].read \in 0..MaxData /\ week[D] \in Files
  <2>1. job[j] \in SnapshotRow
    BY <1>1
  <2> QED
    BY <1>1, <1>2, <2>1 DEF SnapshotRow
<1>4. /\ w \in Files
      /\ w.until = IF n > 0 THEN WindowEnd(now) ELSE week[D].until
      /\ n = 0 => w.metadata = week[D].metadata /\ w.activity = week[D].activity
                   /\ w.dashboard = week[D].dashboard /\ w.reports = week[D].reports
      /\ n = 4 => w.metadata = job[j].read /\ w.activity = job[j].read
                   /\ w.dashboard = job[j].read /\ w.reports = job[j].read
  BY <1>2, <1>3, WrittenIs
<1>5. week' = [week EXCEPT ![D] = w]
  OBVIOUS
<1> HIDE DEF w, D
<1>6. /\ week' \in [Dates -> Files] /\ week'[D] = w
      /\ \A d \in Dates : d # D => week'[d] = week[d]
  BY <1>1, <1>2, <1>4, <1>5
<1>7. WeekIsOver' /\ WindowsEndInside' /\ WeeksMeet'
  <2>1. \A d \in Dates : week'[d].until = week[d].until \/ (d = D /\ week'[d].until = WindowEnd(now))
    BY <1>4, <1>6
  <2> QED
    BY <1>6, <2>1, WindowsRest DEF D
<1>8. /\ SnapshotTypeOK' /\ OneSnapshotRuns' /\ WorkIsShown'
      /\ job'[j].status = outcome /\ job'[j].at = "over" /\ job'[j].date = D
      /\ job'[j].read = job[j].read /\ job[j].status # "done"
      /\ \A i \in SnapshotJobs : i # j => job'[i] = job[i]
      /\ UNCHANGED outrun
  <2>1. Generating(j) /\ JobOver(j, outcome, D) /\ D \in Dates \cup {NoDate}
    BY <1>2 DEF Generating, D
  <2> QED
    BY <1>2, <1>6, <2>1, EndOfWork
<1>9. ReadsAreCurrent'
  <2>1. \A i \in SnapshotJobs : job'[i].read = job[i].read
    BY <1>8
  <2>2. ASSUME NEW i \in SnapshotJobs \ outrun', NEW k \in SnapshotJobs \ outrun',
               job'[i].at = "build", job'[k].status = "done"
        PROVE  job'[k].read <= job'[i].read
    <3>1. i # j /\ job'[i] = job[i] /\ i \notin outrun /\ k \notin outrun
      BY <1>8, <2>2
    <3>2. CASE k = j
      <4>1. Generating(i) /\ Generating(j)
        BY <2>2, <3>1 DEF Generating
      <4> QED
        BY <3>1, <3>2, <4>1, OneWorks
    <3>3. CASE k # j
      BY <1>8, <2>1, <2>2, <3>1, <3>3 DEF ReadsAreCurrent
    <3> QED BY <3>2, <3>3
  <2> QED
    BY <1>8, <2>1, <2>2 DEF ReadsAreCurrent
<1> QED
  BY <1>2, <1>4, <1>6, <1>7, <1>8, <1>9 DEF D

LEMMA BuildKeeps ==
  ASSUME WeeklyIInv, NEW j \in SnapshotJobs, Build(j)
  PROVE  WeeklyIInv'
<1> USE DEF WeeklyIInv, WeeklyInv
<1> DEFINE D == SnapshotDate(now)
<1>1. /\ job[j].at = "build" /\ JobOver(j, "done", D) /\ UNCHANGED <<now, data>>
      /\ week' = [week EXCEPT ![D] = WrittenUpTo(@, 4, job[j].read)]
      /\ torn' = torn \ {D} /\ torn' \subseteq Dates /\ snapshotFaults' \in 0..MaxSnapshotFaults
  <2>1. Len(Pieces) = 4
    BY DEF Pieces
  <2> QED
    BY <2>1 DEF Build, SnapshotTypeOK
<1>2. /\ SnapshotTypeOK' /\ OneSnapshotRuns' /\ WorkIsShown' /\ ReadsAreCurrent'
      /\ WeekIsOver' /\ WindowsEndInside' /\ WeeksMeet'
      /\ job'[j].status = "done" /\ job'[j].date = D /\ job'[j].read = job[j].read
      /\ job[j].status # "done"
      /\ \A i \in SnapshotJobs : i # j => job'[i] = job[i]
      /\ UNCHANGED outrun /\ D \in Dates
      /\ \A d \in Dates : d # D => week'[d] = week[d]
      /\ week'[D].metadata = job[j].read /\ week'[D].activity = job[j].read
      /\ week'[D].dashboard = job[j].read /\ week'[D].reports = job[j].read
  <2>1. "done" \in {"done", "error"} /\ 4 \in 0..4
    OBVIOUS
  <2> QED
    BY <1>1, <2>1, BuildEnds
<1> HIDE DEF D
<1>3. \A i \in SnapshotJobs : job[i].status = "done" => job'[i] = job[i]
  BY <1>2
<1>4. ASSUME NEW i \in SnapshotJobs, job'[i].status = "done", job'[i].date \notin torn'
      PROVE  OnDisk(i)'
  <2>1. job[j].read \in Nat
    BY ReadIsNat
  <2>2. CASE i = j
    BY <1>2, <2>1, <2>2 DEF OnDisk
  <2>3. CASE i # j /\ job[i].date = D
    <3>1. job'[i] = job[i] /\ job[i].status = "done" /\ job'[i].date = D
      BY <1>2, <1>4, <2>3
    <3>2. CASE i \notin outrun /\ j \notin outrun
      <4>1. job[i].read <= job[j].read
        BY <1>1, <3>1, <3>2 DEF ReadsAreCurrent
      <4>2. job'[i].read <= week'[D].metadata
        BY <1>2, <3>1, <4>1
      <4>3. week'[D].metadata >= job'[i].read
        <5>1. job'[i].read \in Nat
          BY <3>1, ReadIsNat
        <5> QED
          BY <1>2, <2>1, <4>2, <5>1
      <4> QED
        BY <1>2, <3>1, <4>3 DEF OnDisk
    <3>3. CASE i \in outrun \/ j \in outrun
      <4>1. {j, i} \cap outrun' # {}
        BY <1>2, <3>3
      <4> QED
        BY <1>2, <3>1, <4>1 DEF OnDisk
    <3> QED BY <3>2, <3>3
  <2>4. CASE i # j /\ job[i].date # D
    <3>1. job'[i] = job[i] /\ job[i].status = "done"
      BY <1>2, <1>4, <2>4
    <3>2. job[i].date \in Dates /\ job[i].date \notin torn
      BY <1>1, <1>4, <2>4, <3>1 DEF WorkIsShown
    <3>3. week'[job[i].date] = week[job[i].date]
      BY <1>2, <2>4, <3>2
    <3>4. OnDisk(i)
      BY <3>1, <3>2, OnDiskIs
    <3> QED
      BY <1>2, <1>3, <3>1, <3>3, <3>4, DiskRests
  <2> QED BY <2>2, <2>3, <2>4
<1>5. DoneIsOnDisk'
  BY <1>4, OnDiskIs
<1> QED
  BY <1>2, <1>5

LEMMA BuildFailsKeeps ==
  ASSUME WeeklyIInv, NEW j \in SnapshotJobs, NEW n \in 0..3, BuildFails(j, n)
  PROVE  WeeklyIInv'
<1> USE DEF WeeklyIInv, WeeklyInv
<1> DEFINE D == SnapshotDate(now)
<1>1. /\ job[j].at = "build" /\ JobOver(j, "error", D) /\ UNCHANGED <<now, data>>
      /\ week' = [week EXCEPT ![D] = WrittenUpTo(@, n, job[j].read)]
      /\ torn' = IF n > 0 THEN torn \cup {D} ELSE torn
  BY DEF BuildFails, OutcomeOfTorn
<1>2. snapshotFaults' \in 0..MaxSnapshotFaults
  BY SnapshotAssumption DEF BuildFails, SnapshotFault, SnapshotTypeOK
<1>3. torn' \subseteq Dates
  <2>1. now \in Moments /\ torn \subseteq Dates
    BY DEF SnapshotTypeOK
  <2>2. D \in Dates
    BY <2>1, WindowIs
  <2> QED
    BY <1>1, <2>1, <2>2
<1>4. /\ SnapshotTypeOK' /\ OneSnapshotRuns' /\ WorkIsShown' /\ ReadsAreCurrent'
      /\ WeekIsOver' /\ WindowsEndInside' /\ WeeksMeet'
      /\ job'[j].status = "error" /\ job[j].status # "done"
      /\ \A i \in SnapshotJobs : i # j => job'[i] = job[i]
      /\ UNCHANGED outrun /\ D \in Dates
      /\ \A d \in Dates : d # D => week'[d] = week[d]
      /\ n = 0 => /\ week'[D].metadata = week[D].metadata /\ week'[D].activity = week[D].activity
                  /\ week'[D].dashboard = week[D].dashboard /\ week'[D].reports = week[D].reports
  <2>1. "error" \in {"done", "error"} /\ n \in 0..4
    OBVIOUS
  <2> QED
    BY <1>1, <1>2, <1>3, <2>1, BuildEnds
<1> HIDE DEF D
<1>5. \A i \in SnapshotJobs : job[i].status = "done" => job'[i] = job[i]
  BY <1>4
<1>6. ASSUME NEW i \in SnapshotJobs, job'[i].status = "done", job'[i].date \notin torn'
      PROVE  OnDisk(i)'
  <2>1. i # j /\ job'[i] = job[i] /\ job[i].status = "done" /\ job[i].date \in Dates
    BY <1>4, <1>6 DEF WorkIsShown
  <2>2. job[i].date \notin torn
    BY <1>1, <1>6, <2>1
  <2>3. OnDisk(i)
    BY <2>1, <2>2, OnDiskIs
  <2>4. CASE job[i].date # D
    BY <1>4, <1>5, <2>1, <2>3, <2>4, DiskRests
  <2>5. CASE job[i].date = D
    <3>1. n = 0
      BY <1>1, <1>6, <2>1, <2>5
    <3>2. \A x \in {"metadata", "activity", "dashboard", "reports"} : week'[D][x] = week[D][x]
      BY <1>4, <3>1
    <3> QED
      BY <1>4, <1>5, <2>1, <2>3, <2>5, <3>2, DiskRests
  <2> QED BY <2>4, <2>5
<1>7. DoneIsOnDisk'
  BY <1>6, OnDiskIs
<1> QED
  BY <1>4, <1>7

(* A date's reports are made again from the files of the date.             *)
LEMMA RegenerateKeeps ==
  ASSUME WeeklyIInv, NEW d \in Dates, RegenerateDashboard(d) \/ RegenerateReports(d)
  PROVE  WeeklyIInv'
<1> USE DEF WeeklyIInv, WeeklyInv
<1> DEFINE old == week[d]
           new == IF RegenerateDashboard(d) THEN [old EXCEPT !.dashboard = old.metadata]
                                            ELSE [old EXCEPT !.reports = old.metadata]
<1>1. /\ week' = [week EXCEPT ![d] = new]
      /\ UNCHANGED <<now, data, job, known, earlier, late, outrun, torn, snapshotFaults>>
  BY DEF RegenerateDashboard, RegenerateReports, ReportsOf
<1>2. week \in [Dates -> Files] /\ old \in Files
  BY WeeklyTypes
<1>3. /\ new \in Files /\ new.until = old.until
      /\ new.metadata = old.metadata /\ new.activity = old.activity
      /\ new.dashboard \in {old.dashboard, old.metadata}
      /\ new.reports \in {old.reports, old.metadata}
  <2>1. old \in Files
    BY <1>2
  <2> HIDE DEF old
  <2> QED
    BY <2>1 DEF Files
<1> HIDE DEF new
<1>4. /\ week' \in [Dates -> Files] /\ week'[d] = new
      /\ \A e \in Dates : e # d => week'[e] = week[e]
  BY <1>1, <1>2, <1>3
<1>5. SnapshotTypeOK'
  BY <1>1, <1>4 DEF SnapshotTypeOK, Files
<1>6. OneSnapshotRuns' /\ WorkIsShown' /\ ReadsAreCurrent'
  <2>1. Map' = Map
    BY <1>1 DEF Map
  <2>2. OneSnapshotRuns'
    BY <2>1 DEF OneSnapshotRuns, ActiveSnapshots
  <2>3. WorkIsShown'
    BY <1>1 DEF WorkIsShown, Generating
  <2>4. ReadsAreCurrent'
    BY <1>1 DEF ReadsAreCurrent
  <2> QED BY <2>2, <2>3, <2>4
<1>7. WeekIsOver' /\ WindowsEndInside' /\ WeeksMeet'
  <2>1. \A e \in Dates : week'[e].until = week[e].until
    BY <1>3, <1>4
  <2> QED
    BY <1>1, <1>4, <2>1, WindowsRest
<1>8. ASSUME NEW i \in SnapshotJobs, job'[i].status = "done", job'[i].date \notin torn'
      PROVE  OnDisk(i)'
  <2>1. /\ job' = job /\ outrun' = outrun /\ job[i].status = "done" /\ job[i].date \in Dates
        /\ job[i].date \notin torn
    BY <1>1, <1>8 DEF WorkIsShown
  <2>2. OnDisk(i)
    BY <2>1, OnDiskIs
  <2>3. CASE job[i].date # d
    BY <1>4, <2>1, <2>2, <2>3, DiskRests
  <2>4. CASE job[i].date = d
    <3>1. old.activity = old.metadata /\ old.dashboard = old.metadata /\ old.reports = old.metadata
      BY <2>2, <2>4 DEF OnDisk
    <3>2. \A x \in {"metadata", "activity", "dashboard", "reports"} : week'[d][x] = week[d][x]
      BY <1>3, <1>4, <3>1
    <3> QED
      BY <2>1, <2>2, <2>4, <3>2, DiskRests
  <2> QED BY <2>3, <2>4
<1>9. DoneIsOnDisk'
  BY <1>8, OnDiskIs
<1> QED
  BY <1>5, <1>6, <1>7, <1>9

(* A refresh publishes, hours pass, or a job is late.                      *)
LEMMA TimeKeepsWeeks ==
  ASSUME WeeklyIInv, RefreshPublishes \/ HoursPass \/ \E j \in SnapshotJobs : BecomesLate(j)
  PROVE  WeeklyIInv'
<1> USE DEF WeeklyIInv, WeeklyInv
<1>1. UNCHANGED <<job, known, earlier, week, outrun, torn, snapshotFaults>>
  BY DEF RefreshPublishes, HoursPass, BecomesLate
<1>2. /\ now \in Moments /\ data \in 1..MaxData /\ late \subseteq known
      /\ MaxData \in Nat /\ Moments \subseteq Nat
  BY SnapshotAssumption DEF SnapshotTypeOK
<1>3. /\ now' \in Moments /\ now <= now'
      /\ data' \in 1..MaxData /\ data <= data'
      /\ late' \subseteq known
  <2>1. CASE RefreshPublishes
    BY <1>2, <2>1 DEF RefreshPublishes
  <2>2. CASE HoursPass
    BY <1>2, <2>2 DEF HoursPass
  <2>3. CASE \E j \in SnapshotJobs : BecomesLate(j)
    BY <1>2, <2>3 DEF BecomesLate
  <2> QED BY <2>1, <2>2, <2>3
<1>4. SnapshotTypeOK'
  BY <1>1, <1>3 DEF SnapshotTypeOK
<1>5. OneSnapshotRuns' /\ WorkIsShown'
  <2>1. ActiveSnapshots(Map)' = ActiveSnapshots(Map)
    BY <1>1 DEF ActiveSnapshots, Map
  <2>2. OneSnapshotRuns'
    BY <2>1 DEF OneSnapshotRuns
  <2>3. WorkIsShown'
    BY <1>1 DEF WorkIsShown, Generating
  <2> QED BY <2>2, <2>3
<1> QED
  BY <1>1, <1>3, <1>4, <1>5, FilesRest

(* The process ends: the map is gone, and so are the generations.          *)
LEMMA RestartKeepsWeeks ==
  ASSUME WeeklyIInv, ServerRestarts
  PROVE  WeeklyIInv'
<1> USE DEF WeeklyIInv, WeeklyInv
<1>1. /\ job' = [j \in SnapshotJobs |-> IF job[j].at \in {"load", "build"}
                   THEN [job[j] EXCEPT !.at = "over", !.status = "error"] ELSE job[j]]
      /\ known' = {} /\ earlier' = [j \in SnapshotJobs |-> {}] /\ late' = {}
      /\ snapshotFaults < MaxSnapshotFaults /\ snapshotFaults' = snapshotFaults + 1
      /\ UNCHANGED <<now, data, week, outrun, torn>>
  BY DEF ServerRestarts, SnapshotFault
<1>2. job \in [SnapshotJobs -> SnapshotRow]
  BY WeeklyTypes
<1>3. ASSUME NEW j \in SnapshotJobs
      PROVE  /\ job'[j] \in SnapshotRow /\ job'[j].read = job[j].read
             /\ job'[j].at \notin {"load", "build"}
             /\ \/ job'[j] = job[j]
                \/ Generating(j) /\ job'[j].at = "over" /\ job'[j].status = "error"
  <2>1. job[j] \in SnapshotRow
    BY <1>2
  <2> DEFINE row == [job[j] EXCEPT !.at = "over", !.status = "error"]
  <2>2. row \in SnapshotRow /\ row.read = job[j].read /\ row.at = "over" /\ row.status = "error"
    BY <2>1 DEF SnapshotRow
  <2>3. job'[j] = IF Generating(j) THEN row ELSE job[j]
    BY <1>1 DEF Generating
  <2> HIDE DEF row
  <2> QED
    BY <2>1, <2>2, <2>3 DEF Generating
<1>4. SnapshotTypeOK'
  <2>1. job' \in [SnapshotJobs -> SnapshotRow]
    BY <1>1, <1>3
  <2>2. snapshotFaults' \in 0..MaxSnapshotFaults
    <3>1. snapshotFaults \in 0..MaxSnapshotFaults /\ MaxSnapshotFaults \in Nat
      BY SnapshotAssumption DEF SnapshotTypeOK
    <3>2. snapshotFaults < MaxSnapshotFaults /\ snapshotFaults' = snapshotFaults + 1
      BY <1>1
    <3> QED
      BY <3>1, <3>2
  <2>3. earlier' \in [SnapshotJobs -> SUBSET {j \in known' : job'[j].status # "running"}]
    BY <1>1
  <2>4. known' \subseteq SnapshotJobs /\ late' \subseteq known'
    BY <1>1
  <2> QED
    BY <1>1, <2>1, <2>2, <2>3, <2>4 DEF SnapshotTypeOK, SnapshotRow
<1>5. OneSnapshotRuns'
  <2>1. ActiveSnapshots(Map)' = {}
    BY <1>1 DEF ActiveSnapshots, Map
  <2>2. Cardinality({}) <= 1
    BY FS_EmptySet
  <2>3. Cardinality(ActiveSnapshots(Map)') <= 1
    BY <2>1, <2>2
  <2> QED
    BY <2>3 DEF OneSnapshotRuns
<1>6. WorkIsShown'
  <2>1. SUFFICES ASSUME NEW i \in SnapshotJobs
                 PROVE  /\ Generating(i)' => (i \in known' /\ job'[i].status = "running") \/ i \in outrun'
                        /\ job'[i].status = "none" => job'[i].at = "none" /\ i \notin known'
                        /\ job'[i].status = "done" => job'[i].at = "over" /\ job'[i].date \in Dates
    BY DEF WorkIsShown
  <2>2. /\ job[i].status = "none" => job[i].at = "none"
        /\ job[i].status = "done" => job[i].at = "over" /\ job[i].date \in Dates
    BY DEF WorkIsShown
  <2> QED
    BY <1>1, <1>3, <2>2 DEF Generating
<1>7. /\ \A j \in SnapshotJobs : "done" \in {job[j].status, job'[j].status} => job'[j] = job[j]
      /\ \A j \in SnapshotJobs : job'[j].read = job[j].read /\ (job'[j].at = "build" => job[j].at = "build")
  BY <1>3 DEF WorkIsShown, Generating
<1>8. now <= now' /\ data <= data'
  <2>1. now \in Nat /\ data \in Nat
    BY SnapshotAssumption DEF SnapshotTypeOK
  <2>2. now' = now /\ data' = data
    BY <1>1
  <2> QED
    BY <2>1, <2>2
<1> QED
  BY <1>1, <1>4, <1>5, <1>6, <1>7, <1>8, FilesRest

-----------------------------------------------------------------------------
LEMMA WeeksBegin == SnapshotInit => WeeklyIInv
<1> SUFFICES ASSUME SnapshotInit PROVE WeeklyIInv
  OBVIOUS
<1> USE DEF SnapshotInit
<1>1. Moments \subseteq Nat /\ MaxData \in Nat \ {0} /\ MaxSnapshotFaults \in Nat
  BY SnapshotAssumption
<1>2. NoSnapshotJob \in SnapshotRow /\ NoFiles \in Files
  BY <1>1 DEF NoSnapshotJob, NoFiles, SnapshotRow, Files
<1>3. \A j \in SnapshotJobs : /\ job[j] = NoSnapshotJob /\ job[j].status = "none" /\ job[j].at = "none"
                              /\ job[j].read = 0
  BY DEF NoSnapshotJob
<1>4. \A d \in Dates : week[d].until = 0
  BY DEF NoFiles
<1>5. SnapshotTypeOK
  <2>1. job \in [SnapshotJobs -> SnapshotRow] /\ week \in [Dates -> Files]
    BY <1>2
  <2>2. now \in Moments /\ data \in 1..MaxData /\ snapshotFaults \in 0..MaxSnapshotFaults
    BY <1>1
  <2>3. /\ known \subseteq SnapshotJobs /\ late \subseteq known /\ outrun \subseteq SnapshotJobs
        /\ torn \subseteq Dates
        /\ earlier \in [SnapshotJobs -> SUBSET {j \in known : job[j].status # "running"}]
    OBVIOUS
  <2> QED
    BY <2>1, <2>2, <2>3 DEF SnapshotTypeOK, SnapshotRow, Files
<1>6. OneSnapshotRuns
  <2>1. ActiveSnapshots(Map) = {}
    BY DEF ActiveSnapshots, Map
  <2>2. Cardinality({}) <= 1
    BY FS_EmptySet
  <2> QED
    BY <2>1, <2>2 DEF OneSnapshotRuns
<1>7. DoneIsOnDisk /\ WorkIsShown
  BY <1>3 DEF DoneIsOnDisk, WorkIsShown, Generating
<1>8. ReadsAreCurrent
  BY <1>1, <1>3 DEF ReadsAreCurrent
<1>9. WeekIsOver /\ WeeksMeet /\ WindowsEndInside
  BY <1>4 DEF WeekIsOver, WeeksMeet, WindowsEndInside
<1> QED
  BY <1>5, <1>6, <1>7, <1>8, <1>9 DEF WeeklyIInv, WeeklyInv

LEMMA WeeksStep == WeeklyIInv /\ [SnapshotNext]_snapshotVars => WeeklyIInv'
<1> SUFFICES ASSUME WeeklyIInv, [SnapshotNext]_snapshotVars PROVE WeeklyIInv'
  OBVIOUS
<1>1. CASE UNCHANGED snapshotVars
  <2>1. Map' = Map
    BY <1>1 DEF snapshotVars, Map
  <2>2. SnapshotTypeOK' /\ OneSnapshotRuns'
    BY <1>1, <2>1 DEF WeeklyIInv, WeeklyInv, SnapshotTypeOK, OneSnapshotRuns, ActiveSnapshots, snapshotVars
  <2>3. WorkIsShown' /\ ReadsAreCurrent'
    BY <1>1 DEF WeeklyIInv, WorkIsShown, ReadsAreCurrent, Generating, snapshotVars
  <2>4. DoneIsOnDisk' /\ WeekIsOver' /\ WeeksMeet' /\ WindowsEndInside'
    BY <1>1 DEF WeeklyIInv, WeeklyInv, DoneIsOnDisk, WeekIsOver, WeeksMeet, WindowsEndInside, snapshotVars
  <2> QED
    BY <2>2, <2>3, <2>4 DEF WeeklyIInv, WeeklyInv
<1>2. CASE SnapshotNext
  <2>1. 0..(Len(Pieces) - 1) = 0..3
    BY DEF Pieces
  <2>2. CASE \E j \in SnapshotJobs : PostSnapshot(j)
    BY <2>2, PostKeepsWeeks
  <2>3. CASE GetActiveSnapshot \/ \E j \in SnapshotJobs : GetSnapshotJob(j)
    BY <2>3, GetKeepsWeeks
  <2>4. CASE \E j \in SnapshotJobs : Load(j)
    BY <2>4, LoadKeeps
  <2>5. CASE \E j \in SnapshotJobs : LoadFails(j)
    BY <2>5, LoadFailsKeeps
  <2>6. CASE \E j \in SnapshotJobs : Build(j)
    BY <2>6, BuildKeeps
  <2>7. CASE \E j \in SnapshotJobs : \E n \in 0..3 : BuildFails(j, n)
    BY <2>7, BuildFailsKeeps
  <2>8. CASE \E d \in Dates : RegenerateDashboard(d) \/ RegenerateReports(d)
    BY <2>8, RegenerateKeeps
  <2>9. CASE RefreshPublishes \/ HoursPass \/ \E j \in SnapshotJobs : BecomesLate(j)
    BY <2>9, TimeKeepsWeeks
  <2>10. CASE ServerRestarts
    BY <2>10, RestartKeepsWeeks
  <2> QED
    BY <1>2, <2>1, <2>2, <2>3, <2>4, <2>5, <2>6, <2>7, <2>8, <2>9, <2>10 DEF SnapshotNext
<1> QED BY <1>1, <1>2

(* WeeklyInv holds of the weekly snapshots: one job is shown at a time,    *)
(* what a finished one promises is on disk, and a week's window ends on a  *)
(* Friday that is over and meets the windows of its neighbours             *)
(* (runCseSnapshotJob, writeSnapshotPackage, resolveReportingWindow).      *)
THEOREM WeeklyIsSound == SnapshotSpec => []WeeklyInv
<1>1. WeeklyIInv => WeeklyInv
  BY DEF WeeklyIInv
<1> QED
  BY <1>1, WeeksBegin, WeeksStep, PTL DEF SnapshotSpec

(* A snapshot job's reported end is final, unless the job had been         *)
(* declared stale while its generation went on (runCseSnapshotJob sets     *)
(* status whatever failStaleCseSnapshotJobs has made of it).               *)
THEOREM EndIsReportedOnce == SnapshotSpec => ReportsOnce
<1>1. ASSUME WeeklyIInv, [SnapshotNext]_snapshotVars, NEW j \in SnapshotJobs
      PROVE  job[j].status \in {"done", "error"} /\ job'[j].status # job[j].status => j \in outrun
  <2> USE DEF WeeklyIInv, WeeklyInv
  <2>1. SUFFICES ASSUME job[j].status \in {"done", "error"}, j \notin outrun
                 PROVE  job'[j].status = job[j].status
    OBVIOUS
  <2>2. ~Generating(j)
    BY <1>1, <2>1 DEF WorkIsShown
  <2>3. job \in [SnapshotJobs -> SnapshotRow]
    BY <1>1, WeeklyTypes
  <2>4. ASSUME NEW m, SoundMap(m), MapComesFrom(m, Map)
        PROVE  m.job[j] = job[j]
    <3>1. m.job[j] = job[j] \/ job[j].status = "running"
      BY <2>4 DEF MapComesFrom, Map
    <3> QED
      BY <2>1, <3>1
  <2>5. ASSUME NEW i \in SnapshotJobs, PostSnapshot(i)
        PROVE  job'[j] = job[j]
    <3> DEFINE counted == Declare(PrunedJobs(Map), SnapshotJobs)
               m == PrunedJobs(counted)
    <3>1. SoundMap(counted) /\ MapComesFrom(counted, Map)
      BY <1>1, CountedMap
    <3> DEFINE row == [NoSnapshotJob EXCEPT !.status = "running", !.at = "load"]
    <3>2. /\ i # j
          /\ job' = counted.job \/ job' = [m EXCEPT !.job[i] = row, !.known = @ \cup {i}].job
      <4>1. i # j
        BY <2>1, <2>5 DEF PostSnapshot
      <4>2. IF NothingRuns(counted) THEN MapBecomes([m EXCEPT !.job[i] = row, !.known = @ \cup {i}])
                                    ELSE MapBecomes(counted)
        BY <2>5 DEF PostSnapshot
      <4> HIDE DEF counted, m, row
      <4> QED
        BY <4>1, <4>2 DEF MapBecomes
    <3> HIDE DEF row
    <3> HIDE DEF counted
    <3>3. SoundMap(m) /\ MapComesFrom(m, counted)
      BY <3>1, PrunedJobsSound
    <3>4. SoundMap(Map)
      BY <1>1, WeeklyTypes
    <3> HIDE DEF m
    <3>5. MapComesFrom(m, Map)
      BY <3>1, <3>3, <3>4, MapComesFar
    <3>6. m.job[j] = job[j] /\ counted.job[j] = job[j]
      BY <2>4, <3>1, <3>3, <3>5
    <3>7. [m EXCEPT !.job[i] = row, !.known = @ \cup {i}].job[j] = m.job[j]
      BY <3>2, <3>3 DEF SoundMap, SnapshotMap
    <3> QED
      BY <3>2, <3>6, <3>7
  <2>6. ASSUME GetActiveSnapshot \/ \E i \in SnapshotJobs : GetSnapshotJob(i)
        PROVE  job'[j] = job[j]
    <3>1. PICK named \in SUBSET SnapshotJobs : MapBecomes(Declare(PrunedJobs(Map), named))
      BY <2>6 DEF GetActiveSnapshot, GetSnapshotJob
    <3>2. LET m == Declare(PrunedJobs(Map), named) IN SoundMap(m) /\ MapComesFrom(m, Map)
      BY <1>1, CountedMap
    <3> QED
      BY <2>4, <3>1, <3>2 DEF MapBecomes
  <2>7. ASSUME NEW i \in SnapshotJobs,
               Load(i) \/ LoadFails(i) \/ Build(i) \/ \E n \in 0..(Len(Pieces) - 1) : BuildFails(i, n)
        PROVE  job'[j] = job[j]
    <3>1. Generating(i) /\ i # j
      BY <2>2, <2>7 DEF Load, LoadFails, Build, BuildFails, Generating
    <3>2. \E row : job' = [job EXCEPT ![i] = row]
      BY <2>7 DEF Load, LoadFails, Build, BuildFails, JobOver
    <3> QED
      BY <2>3, <3>1, <3>2
  <2>8. CASE ServerRestarts
    BY <2>2, <2>8 DEF ServerRestarts, Generating
  <2>9. CASE UNCHANGED job
    BY <2>9
  <2>10. UNCHANGED snapshotVars => UNCHANGED job
    BY DEF snapshotVars
  <2>11. (\E d \in Dates : RegenerateDashboard(d) \/ RegenerateReports(d)) \/ RefreshPublishes
         \/ HoursPass \/ (\E i \in SnapshotJobs : BecomesLate(i)) => UNCHANGED job
    BY DEF RegenerateDashboard, RegenerateReports, RefreshPublishes, HoursPass, BecomesLate
  <2> QED
    BY <1>1, <2>5, <2>6, <2>7, <2>8, <2>9, <2>10, <2>11 DEF SnapshotNext
<1>2. WeeklyIInv /\ [SnapshotNext]_snapshotVars =>
        [\A j \in SnapshotJobs : job[j].status \in {"done", "error"} /\ job'[j].status # job[j].status
           => j \in outrun]_snapshotVars
  BY <1>1
<1> QED
  BY <1>2, WeeksBegin, WeeksStep, PTL DEF SnapshotSpec, ReportsOnce
-----------------------------------------------------------------------------
(* The forecast page and its generation: the inductive invariant.          *)

(* A plan, or no plan, that was typed for the quarter q.                   *)
PlanFor(q, v) == v \in Nat /\ (v # 0 => v \div 10 = q)

(* What is in the field, kept and asked for was typed for its quarter.     *)
PlansAreTyped ==
  /\ selected \in Quarters /\ PlanFor(selected, plan)
  /\ kept \in [Quarters -> Nat] /\ \A q \in Quarters : PlanFor(q, kept[q])
  /\ Busy => \E q \in Quarters, v \in Nat : request = <<q, v>> /\ PlanFor(q, v)

(* While accounts are in the queue somebody is asking.                     *)
PoolMoves ==
  /\ asked \in 0..MaxAsked /\ next \in 1..asked + 1 /\ asking \subseteq 1..next - 1
  /\ next <= asked => asking # {}

(* The refreshes end in the order of their days, and a generation that has *)
(* loaded its data has read one of them.                                   *)
RefreshesAscend ==
  /\ refreshes \in Seq(Nat) /\ Len(refreshes) >= 1
  /\ \A r, s \in 1..Len(refreshes) : r <= s => refreshes[r] <= refreshes[s]
  /\ views \in 0..Len(refreshes) /\ listed \in 0..Len(refreshes)
  /\ phase > Data => views >= 1
  /\ phase = Health => final = <<>>

ServerTypes ==
  /\ of \in Quarters /\ phase \in 0..Render
  /\ stream \in {"open", "done", "error", "cut"} /\ shared \in BOOLEAN

ForecastIInv ==
  PlansAreTyped /\ PoolMoves /\ PoolAnswersAll /\ RefreshesAscend /\ ServerTypes /\ TrajectoryEndsAtScript

LEMMA ForecastImplied == ForecastIInv => ForecastRunInv
<1> SUFFICES ASSUME ForecastIInv PROVE ForecastRunInv
  OBVIOUS
<1> USE DEF ForecastIInv
<1>1. MaxAsked \in Nat
  BY ForecastAssumption
<1>2. /\ next \in 1..MaxAsked + 1 /\ asking \subseteq 1..asked /\ out \subseteq 1..asked
      /\ asked \in 0..MaxAsked
  BY <1>1 DEF PoolMoves, PoolAnswersAll
<1>3. ForecastRunTypeOK
  BY <1>2 DEF ForecastRunTypeOK, PlansAreTyped, RefreshesAscend, ServerTypes
<1>4. PlansKeepTheirQuarter
  BY DEF PlansKeepTheirQuarter, PlansAreTyped, PlanFor
<1> QED
  BY <1>3, <1>4 DEF ForecastRunInv

LEMMA ForecastBegins == ForecastInit => ForecastIInv
<1> SUFFICES ASSUME ForecastInit PROVE ForecastIInv
  OBVIOUS
<1> USE DEF ForecastInit
<1>1. PlansAreTyped
  BY ForecastAssumption DEF PlansAreTyped, PlanFor, Busy
<1>2. PoolMoves /\ PoolAnswersAll
  <2>1. Cardinality({}) <= ChatWidth
    BY FS_EmptySet, ForecastAssumption
  <2>2. MaxAsked \in Nat
    BY ForecastAssumption
  <2> QED
    BY <2>1, <2>2 DEF PoolMoves, PoolAnswersAll
<1>3. RefreshesAscend
  BY ForecastAssumption DEF RefreshesAscend, Data, Health
<1>4. ServerTypes
  <2>1. of \in Quarters /\ shared \in BOOLEAN /\ stream = "done"
    BY ForecastAssumption
  <2>2. phase = 0 /\ 0 \in 0..Render
    BY DEF Render
  <2> QED
    BY <2>1, <2>2 DEF ServerTypes
<1>5. TrajectoryEndsAtScript
  <2>1. ~(phase > Health)
    BY DEF Health
  <2> QED
    BY <2>1 DEF TrajectoryEndsAtScript
<1> QED
  BY <1>1, <1>2, <1>3, <1>4, <1>5 DEF ForecastIInv

-----------------------------------------------------------------------------
(* The page.                                                               *)

(* A click that leaves the server alone, but for its stream.               *)
LEMMA PageKeeps ==
  ASSUME ForecastIInv,
         (\E q \in Quarters : PickQuarter(q)) \/ (\E i \in 1..Amounts : EditPlan(10 * selected + i))
           \/ Generate \/ Disconnect \/ Receive
  PROVE  ForecastIInv'
<1> USE DEF ForecastIInv
<1>1. PlansAreTyped'
  <2> USE DEF PlansAreTyped
  <2>1. ASSUME NEW q \in Quarters, PickQuarter(q)
        PROVE  PlansAreTyped'
    BY <2>1 DEF PickQuarter, Busy
  <2>2. ASSUME NEW i \in 1..Amounts, EditPlan(10 * selected + i)
        PROVE  PlansAreTyped'
    <3> DEFINE v == 10 * selected + i
    <3>1. selected \in Nat /\ i \in 1..9
      BY ForecastAssumption
    <3>2. v \in Nat /\ v \div 10 = selected
      BY <3>1
    <3>3. PlanFor(selected, v)
      BY <3>2 DEF PlanFor
    <3>4. plan' = v /\ kept' = [kept EXCEPT ![selected] = v] /\ UNCHANGED <<selected, request>>
      BY <2>2 DEF EditPlan
    <3> HIDE DEF v
    <3> QED
      BY <3>2, <3>3, <3>4 DEF Busy
  <2>3. CASE Generate
    <3>1. plan \in Nat /\ PlanFor(selected, plan)
      BY DEF PlanFor
    <3> QED
      BY <2>3, <3>1 DEF Generate
  <2>4. CASE Disconnect
    <3>1. request' = <<>> /\ UNCHANGED kept
          /\ (UNCHANGED <<selected, plan>> \/ (selected' = Today /\ plan' = kept[Today]))
      BY <2>4 DEF Disconnect
    <3> QED
      BY <3>1, ForecastAssumption DEF Busy
  <2>5. CASE Receive
    <3>1. PICK q \in Quarters, v \in Nat : request = <<q, v>> /\ PlanFor(q, v)
      BY <2>5 DEF Receive
    <3>2. request' = <<>> /\ UNCHANGED <<selected, plan>>
          /\ kept' \in {kept, [kept EXCEPT ![q] = v]}
      BY <2>5, <3>1 DEF Receive
    <3> QED
      BY <3>1, <3>2 DEF Busy
  <2> QED
    BY <2>1, <2>2, <2>3, <2>4, <2>5
<1>2. /\ UNCHANGED <<shared, poolState, refreshes, readState>>
      /\ UNCHANGED <<phase, of>> \/ (phase = 0 /\ phase' = Data /\ of' = selected)
      /\ stream' \in {stream, "open", "cut"}
  BY DEF PickQuarter, EditPlan, Generate, Disconnect, Receive
<1>3. PoolMoves' /\ PoolAnswersAll'
  BY <1>2 DEF PoolMoves, PoolAnswersAll, poolState, Pools, Data
<1>4. RefreshesAscend' /\ TrajectoryEndsAtScript'
  BY <1>2 DEF RefreshesAscend, TrajectoryEndsAtScript, readState, Data, Health
<1>5. ServerTypes'
  BY <1>2 DEF ServerTypes, PlansAreTyped, Data, Render
<1> QED
  BY <1>1, <1>3, <1>4, <1>5

-----------------------------------------------------------------------------
(* The server.                                                             *)

LEMMA FirstChats ==
  ASSUME NEW n \in Nat
  PROVE  LET k == Cardinality(Starts(n)) IN
         /\ k \in 0..n /\ k <= ChatWidth /\ Starts(n) = 1..k
         /\ k < n => k # 0
<1> DEFINE half == (n + 1) \div 2
           least == Min({ChatWidth, half})
<1>1. ChatWidth \in Nat \ {0} /\ half \in Nat /\ half <= n /\ (n # 0 => half # 0)
  BY ForecastAssumption
<1>3. Starts(n) = 1..least
  BY DEF Starts
<1> HIDE DEF half
<1>2. least \in {ChatWidth, half} /\ \A y \in {ChatWidth, half} : least <= y
  <2>1. \E x \in {ChatWidth, half} : \A y \in {ChatWidth, half} : x <= y
    BY <1>1
  <2> QED
    BY <2>1 DEF Min
<1> HIDE DEF least
<1>4. least \in Nat
  BY <1>1, <1>2
<1>5. Cardinality(1..least) = least
  <2>1. 1 \in Int /\ least \in Int
    BY <1>4
  <2>2. Cardinality(1..least) = IF 1 > least THEN 0 ELSE least - 1 + 1
    BY <2>1, FS_Interval
  <2> QED
    BY <1>4, <2>2
<1> QED
  BY <1>1, <1>2, <1>3, <1>4, <1>5

(* The next phase begins, or nobody is there to begin it for.              *)
LEMMA GoToKeeps ==
  ASSUME ForecastIInv, NEW p \in 1..Render, phase \in Pools => asking = {}, GoTo(p)
  PROVE  /\ PoolMoves' /\ PoolAnswersAll'
         /\ phase' \in {0, p} /\ stream' = stream
<1> USE DEF ForecastIInv
<1>1. MaxAsked \in Nat /\ asked \in Nat /\ next \in Nat
  BY ForecastAssumption DEF PoolMoves
<1>2. out = 1..asked
  <2>1. CASE phase \in Pools
    <3>1. asking = {}
      BY <2>1
    <3>2. next \in 1..asked + 1 /\ ~(next <= asked)
      BY <3>1 DEF PoolMoves
    <3>3. next = asked + 1
      BY <1>1, <3>2
    <3>4. out = (1..next - 1) \ {}
      BY <3>1 DEF PoolAnswersAll
    <3> QED
      BY <1>1, <3>3, <3>4
  <2> QED
    BY <2>1 DEF PoolAnswersAll
<1>3. CASE UNCHANGED poolState /\ phase' \in {0, p} /\ stream' = stream
  BY <1>2, <1>3 DEF poolState, PoolMoves, PoolAnswersAll
<1>4. CASE stream # "cut" /\ p \in Pools
  <2>1. PICK n \in 0..MaxAsked, client \in {shared, TRUE} :
          /\ asked' = n
          /\ asking' = IF client THEN Starts(n) ELSE {}
          /\ next' = IF client THEN Cardinality(Starts(n)) + 1 ELSE n + 1
          /\ out' = IF client THEN {} ELSE 1..n
    BY <1>4 DEF GoTo, Begin
  <2>2. phase' = p /\ stream' = stream
    BY <1>4 DEF GoTo, Begin
  <2> DEFINE k == Cardinality(Starts(n))
  <2>3. n \in Nat /\ k \in 0..n /\ k <= ChatWidth /\ Starts(n) = 1..k /\ (k < n => k # 0)
    BY <1>1, FirstChats
  <2>4. Cardinality({}) = 0 /\ ChatWidth \in Nat
    BY FS_EmptySet, ForecastAssumption
  <2>5. CASE client
    <3>1. asking' = 1..k /\ next' = k + 1 /\ out' = {}
      BY <2>1, <2>3, <2>5
    <3>2. Cardinality(asking') = k
      BY <2>3, <3>1
    <3> HIDE DEF k
    <3>3. PoolMoves'
      <4>1. next' - 1 = k /\ next' \in 1..n + 1
        BY <2>3, <3>1
      <4>2. next' <= n => k \in 1..k
        BY <2>3, <3>1
      <4> QED
        BY <2>1, <3>1, <4>1, <4>2 DEF PoolMoves
    <3>4. out' = (1..next' - 1) \ asking'
      BY <2>3, <3>1
    <3> QED
      BY <1>4, <2>2, <2>3, <3>2, <3>3, <3>4 DEF PoolAnswersAll
  <2>6. CASE ~client
    <3>1. asking' = {} /\ next' = n + 1 /\ out' = 1..n
      BY <2>1, <2>6
    <3> QED
      BY <1>4, <2>1, <2>2, <2>3, <2>4, <3>1 DEF PoolMoves, PoolAnswersAll
  <2> QED BY <2>5, <2>6
<1>5. stream = "cut" \/ p \notin Pools => UNCHANGED poolState /\ phase' \in {0, p} /\ stream' = stream
  BY DEF GoTo, Begin
<1> QED
  BY <1>3, <1>4, <1>5

(* A chat ends.                                                            *)
LEMMA ReplyKeeps ==
  ASSUME ForecastIInv, NEW a \in 1..MaxAsked, Reply(a)
  PROVE  ForecastIInv'
<1> USE DEF ForecastIInv
<1>1. /\ phase \in Pools /\ a \in asking /\ out' = out \cup {a}
      /\ IF next <= asked THEN asking' = (asking \ {a}) \cup {next} /\ next' = next + 1
                          ELSE asking' = asking \ {a} /\ next' = next
      /\ UNCHANGED <<pageState, phase, of, stream, shared, asked, refreshes, readState>>
  BY DEF Reply
<1>2. /\ MaxAsked \in Nat /\ asked \in Nat /\ next \in Nat /\ next >= 1 /\ next <= asked + 1
      /\ asking \subseteq 1..next - 1 /\ ChatWidth \in Nat
  BY ForecastAssumption DEF PoolMoves
<1>3. Cardinality(asking') <= ChatWidth
  <2>1. IsFiniteSet(1..next - 1)
    <3>1. 1 \in Int /\ next - 1 \in Int
      BY <1>2
    <3> QED
      BY <3>1, FS_Interval
  <2>2. IsFiniteSet(asking)
    BY <1>2, <2>1, FS_Subset
  <2>3. /\ IsFiniteSet(asking \ {a}) /\ Cardinality(asking \ {a}) = Cardinality(asking) - 1
        /\ Cardinality(asking) \in Nat
    BY <1>1, <2>2, FS_RemoveElement, FS_CardinalityType
  <2>4. next \notin asking \ {a}
    BY <1>2
  <2>5. Cardinality((asking \ {a}) \cup {next}) = Cardinality(asking \ {a}) + 1
    BY <2>3, <2>4, FS_AddElement
  <2>6. Cardinality(asking) <= ChatWidth
    BY DEF PoolAnswersAll
  <2>7. CASE next <= asked
    <3>1. Cardinality(asking') = Cardinality(asking \ {a}) + 1
      BY <1>1, <2>5, <2>7
    <3>2. Cardinality(asking') = Cardinality(asking)
      BY <2>3, <3>1
    <3> QED
      BY <2>6, <3>2
  <2>8. CASE ~(next <= asked)
    <3>1. Cardinality(asking') = Cardinality(asking) - 1
      BY <1>1, <2>3, <2>8
    <3> QED
      BY <1>2, <2>3, <2>6, <3>1
  <2> QED BY <2>7, <2>8
<1>4. PoolMoves'
  <2>1. CASE next <= asked
    <3>1. /\ next' = next + 1 /\ next \in asking' /\ asked' = asked
          /\ asking' \subseteq (1..next - 1) \cup {next}
      BY <1>1, <1>2, <2>1
    <3>2. next' \in 1..asked' + 1 /\ (1..next - 1) \cup {next} \subseteq 1..next' - 1
      BY <1>2, <2>1, <3>1
    <3> QED
      BY <3>1, <3>2 DEF PoolMoves
  <2>2. CASE ~(next <= asked)
    BY <1>1, <1>2, <2>2 DEF PoolMoves
  <2> QED BY <2>1, <2>2
<1>5. out' = (1..next' - 1) \ asking'
  <2>1. out = (1..next - 1) \ asking
    BY DEF PoolAnswersAll
  <2>2. CASE next <= asked
    BY <1>1, <1>2, <2>1, <2>2
  <2>3. CASE ~(next <= asked)
    BY <1>1, <1>2, <2>1, <2>3
  <2> QED BY <2>2, <2>3
<1>6. PoolAnswersAll'
  BY <1>1, <1>3, <1>5 DEF PoolAnswersAll
<1>7. PlansAreTyped' /\ RefreshesAscend' /\ ServerTypes' /\ TrajectoryEndsAtScript'
  BY <1>1 DEF PlansAreTyped, RefreshesAscend, ServerTypes, TrajectoryEndsAtScript, pageState, readState, Busy
<1> QED
  BY <1>4, <1>6, <1>7

(* The trajectory that is laid over the views ends with them.              *)
LEMMA TrajectoryTold ==
  ASSUME ForecastIInv, phase = Health, NEW skipped \in SUBSET (DaysSince \ {Max(DaysSince \union {0})})
  PROVE  \/ \A p \in Overlaid(Series(skipped)) : p[1] < refreshes[views]
         \/ \E r \in views + 1..Len(refreshes) : refreshes[r] > refreshes[views]
<1> USE DEF ForecastIInv
<1> DEFINE n == Len(refreshes)
           newest == Max(DaysSince)
<1>1. /\ n \in Nat /\ n >= 1 /\ views \in 1..n /\ \A r \in 1..n : refreshes[r] \in Nat
      /\ \A r, s \in 1..n : r <= s => refreshes[r] <= refreshes[s]
  BY DEF RefreshesAscend, Data, Health
<1>2. StartOf(of) \in Nat
  BY ForecastAssumption DEF ServerTypes
<1>3. Since = {r \in 1..n : refreshes[r] >= StartOf(of)}
  BY DEF Since, RefreshesAscend
<1>4. CASE DaysSince = {}
  BY <1>4 DEF Series, Overlaid
<1>5. CASE DaysSince # {}
  <2>1. PICK s \in Since : TRUE
    BY <1>5 DEF DaysSince
  <2>2. n \in Since /\ n \in 1..n
    <3>1. s \in 1..n /\ refreshes[s] >= StartOf(of) /\ refreshes[s] <= refreshes[n]
      BY <1>1, <1>3
    <3> QED
      BY <1>1, <1>2, <1>3, <3>1
  <2>3. refreshes[n] \in DaysSince /\ \A d \in DaysSince : d \in Nat /\ d <= refreshes[n]
    BY <1>1, <1>3, <2>2 DEF DaysSince
  <2>4. newest = refreshes[n]
    <3>1. \E x \in DaysSince : \A y \in DaysSince : x >= y
      BY <1>1, <2>2, <2>3
    <3>2. newest \in DaysSince /\ \A y \in DaysSince : newest >= y
      BY <3>1 DEF Max
    <3> HIDE DEF newest
    <3> QED
      BY <1>1, <2>2, <2>3, <3>2
  <2>5. Max(DaysSince \union {0}) = refreshes[n]
    <3> DEFINE top == Max(DaysSince \union {0})
    <3>1. \E x \in DaysSince \union {0} : \A y \in DaysSince \union {0} : x >= y
      BY <1>1, <2>2, <2>3
    <3>2. top \in DaysSince \union {0} /\ \A y \in DaysSince \union {0} : top >= y
      BY <3>1 DEF Max
    <3> HIDE DEF top
    <3>3. top = refreshes[n]
      BY <1>1, <2>2, <2>3, <3>2
    <3> QED
      BY <3>3 DEF top
  <2>6. refreshes[n] \in DaysSince \ skipped
    BY <2>3, <2>5
  <2>7. \A p \in Series(skipped) : p[1] \in DaysSince
    BY DEF Series
  <2>8. CASE refreshes[views] = refreshes[n]
    <3>1. ASSUME NEW p \in Overlaid(Series(skipped))
          PROVE  p[1] < refreshes[views]
      <4>1. p \in Series(skipped)
            /\ (p[1] = refreshes[views] => \E q \in Series(skipped) : q[1] > p[1])
        BY <3>1 DEF Overlaid
      <4>2. p[1] # refreshes[views]
        BY <1>1, <2>2, <2>3, <2>7, <2>8, <4>1
      <4> QED
        BY <1>1, <2>2, <2>3, <2>7, <2>8, <4>1, <4>2
    <3> QED BY <3>1
  <2>9. CASE refreshes[views] # refreshes[n]
    <3>1. n \in views + 1..n /\ refreshes[n] > refreshes[views]
      BY <1>1, <2>9
    <3> QED
      BY <3>1
  <2> QED BY <2>8, <2>9
<1> QED BY <1>4, <1>5

(* The phases.                                                             *)
LEMMA PhasesKeep ==
  ASSUME ForecastIInv, LoadData \/ TellHealth \/ EndPool \/ FlagRisks \/ RenderScript
  PROVE  ForecastIInv'
<1> USE DEF ForecastIInv
<1> USE DEF Data, Health, Risks, Render, Pools
<1>0. UNCHANGED <<pageState, of, refreshes>> /\ PlansAreTyped'
  <2>1. UNCHANGED <<pageState, of, refreshes>>
    BY DEF LoadData, TellHealth, EndPool, FlagRisks, RenderScript
  <2> QED
    BY <2>1 DEF PlansAreTyped, pageState, Busy
<1>1. CASE LoadData
  <2>1. CASE /\ shared' \in BOOLEAN /\ GoTo(Health)
             /\ views' = Len(refreshes) /\ points' = {} /\ final' = <<>> /\ listed' = 0
    <3>1. PoolMoves' /\ PoolAnswersAll' /\ phase' \in {0, Health} /\ stream' = stream
      BY <1>1, <2>1, GoToKeeps DEF LoadData
    <3>2. RefreshesAscend'
      BY <1>0, <2>1, <3>1 DEF RefreshesAscend
    <3>3. ServerTypes' /\ TrajectoryEndsAtScript'
      BY <1>0, <2>1, <3>1 DEF ServerTypes, TrajectoryEndsAtScript
    <3> QED
      BY <1>0, <3>1, <3>2, <3>3
  <2>2. CASE /\ phase' = 0 /\ stream' = IF stream = "cut" THEN "cut" ELSE "error"
             /\ UNCHANGED <<shared, poolState, readState>>
    <3>1. PoolMoves' /\ PoolAnswersAll'
      BY <1>1, <2>2 DEF LoadData, PoolMoves, PoolAnswersAll, poolState
    <3>2. RefreshesAscend' /\ ServerTypes' /\ TrajectoryEndsAtScript'
      BY <1>0, <2>2 DEF RefreshesAscend, ServerTypes, TrajectoryEndsAtScript, readState
    <3> QED
      BY <1>0, <3>1, <3>2
  <2> QED
    BY <1>1, <2>1, <2>2 DEF LoadData
<1>2. CASE TellHealth
  <2>1. PoolMoves' /\ PoolAnswersAll' /\ phase' \in {0, 3} /\ stream' = stream
    BY <1>2, GoToKeeps DEF TellHealth
  <2>2. phase = 2 /\ UNCHANGED <<shared, views>> /\ final = <<>>
    BY <1>2 DEF TellHealth, RefreshesAscend
  <2>3. CASE UNCHANGED <<points, final, listed>>
    <3>1. RefreshesAscend' /\ ServerTypes' /\ TrajectoryEndsAtScript'
      BY <1>0, <2>1, <2>2, <2>3 DEF RefreshesAscend, ServerTypes, TrajectoryEndsAtScript
    <3> QED
      BY <1>0, <2>1, <3>1
  <2>4. CASE \E skipped \in SUBSET (DaysSince \ {Max(DaysSince \union {0})}) :
               /\ points' = Overlaid(Series(skipped)) /\ final' = <<refreshes[views], views>>
               /\ listed' = Len(refreshes)
    <3>1. PICK skipped \in SUBSET (DaysSince \ {Max(DaysSince \union {0})}) :
               /\ points' = Overlaid(Series(skipped)) /\ final' = <<refreshes[views], views>>
               /\ listed' = Len(refreshes)
      BY <2>4
    <3>2. \/ \A p \in points' : p[1] < refreshes[views]
          \/ \E r \in views + 1..Len(refreshes) : refreshes[r] > refreshes[views]
      BY <2>2, <3>1, TrajectoryTold
    <3>3. TrajectoryEndsAtScript'
      BY <1>0, <2>2, <3>1, <3>2 DEF TrajectoryEndsAtScript
    <3>4. RefreshesAscend' /\ ServerTypes'
      BY <1>0, <2>1, <2>2, <3>1 DEF RefreshesAscend, ServerTypes
    <3> QED
      BY <1>0, <2>1, <3>3, <3>4
  <2> QED
    BY <1>2, <2>3, <2>4 DEF TellHealth
<1>3. CASE EndPool \/ FlagRisks
  <2>1. PICK p \in 4..Render : GoTo(p)
    BY <1>3 DEF EndPool, FlagRisks
  <2>2. UNCHANGED <<shared, readState>> /\ phase > 2 /\ (phase \in Pools => asking = {})
    BY <1>3 DEF EndPool, FlagRisks
  <2>3. PoolMoves' /\ PoolAnswersAll' /\ phase' \in {0, p} /\ stream' = stream
    <3>1. p \in 1..Render
      OBVIOUS
    <3> QED
      BY <2>1, <2>2, <3>1, GoToKeeps
  <2>4. RefreshesAscend' /\ ServerTypes' /\ TrajectoryEndsAtScript'
    BY <1>0, <2>2, <2>3 DEF RefreshesAscend, ServerTypes, TrajectoryEndsAtScript, readState
  <2> QED
    BY <1>0, <2>3, <2>4
<1>4. CASE RenderScript
  <2>1. /\ phase = 7 /\ phase' = 0 /\ stream' \in {"cut", "done"}
        /\ UNCHANGED <<of, shared, poolState, readState>>
    BY <1>4 DEF RenderScript
  <2>2. PoolMoves' /\ PoolAnswersAll'
    BY <2>1 DEF PoolMoves, PoolAnswersAll, poolState
  <2>3. RefreshesAscend' /\ ServerTypes' /\ TrajectoryEndsAtScript'
    BY <1>0, <2>1 DEF RefreshesAscend, ServerTypes, TrajectoryEndsAtScript, readState
  <2> QED
    BY <1>0, <2>2, <2>3
<1> QED
  BY <1>1, <1>2, <1>3, <1>4

(* A refresh of the book ends.                                             *)
LEMMA RefreshEndKeeps ==
  ASSUME ForecastIInv, RefreshEnds
  PROVE  ForecastIInv'
<1> USE DEF ForecastIInv
<1>1. /\ phase <= Health
      /\ UNCHANGED <<pageState, phase, of, stream, shared, poolState, readState>>
  BY DEF RefreshEnds
<1>2. PICK later \in {0, 1} : refreshes' = Append(refreshes, refreshes[Len(refreshes)] + later)
  BY DEF RefreshEnds
<1> DEFINE n == Len(refreshes)
           last == refreshes[n] + later
<1>3. /\ refreshes \in Seq(Nat) /\ n \in Nat /\ n >= 1 /\ refreshes[n] \in Nat
      /\ \A r, s \in 1..n : r <= s => refreshes[r] <= refreshes[s]
  BY DEF RefreshesAscend
<1>4. last \in Nat /\ last >= refreshes[n]
  BY <1>3
<1>5. refreshes' = Append(refreshes, last)
  BY <1>2
<1> HIDE DEF last
<1>6. /\ refreshes' \in Seq(Nat) /\ Len(refreshes') = n + 1 /\ refreshes'[n + 1] = last
      /\ \A r \in 1..n : refreshes'[r] = refreshes[r]
  BY <1>3, <1>4, <1>5
<1>7. \A r, s \in 1..Len(refreshes') : r <= s => refreshes'[r] <= refreshes'[s]
  <2>1. SUFFICES ASSUME NEW r \in 1..n + 1, NEW s \in 1..n + 1, r <= s
                 PROVE  refreshes'[r] <= refreshes'[s]
    BY <1>6
  <2>2. CASE s \in 1..n
    <3>1. r \in 1..n
      BY <1>3, <2>1, <2>2
    <3>2. refreshes[r] <= refreshes[s]
      BY <1>3, <2>1, <2>2, <3>1
    <3> QED
      BY <1>6, <2>2, <3>1, <3>2
  <2>3. CASE s = n + 1 /\ r \in 1..n
    <3>1. refreshes[r] <= refreshes[n] /\ refreshes[r] \in Nat
      BY <1>3, <2>3
    <3> QED
      BY <1>3, <1>4, <1>6, <2>3, <3>1
  <2>4. CASE s = n + 1 /\ r = n + 1
    BY <1>4, <1>6, <2>4
  <2> QED
    BY <1>3, <2>1, <2>2, <2>3, <2>4
<1>8. RefreshesAscend'
  BY <1>1, <1>3, <1>6, <1>7 DEF RefreshesAscend, readState
<1>9. PlansAreTyped' /\ PoolMoves' /\ PoolAnswersAll' /\ ServerTypes'
  BY <1>1 DEF PlansAreTyped, PoolMoves, PoolAnswersAll, ServerTypes, pageState, poolState, Busy
<1>10. TrajectoryEndsAtScript'
  BY <1>1 DEF TrajectoryEndsAtScript, ServerTypes, Health
<1> QED
  BY <1>8, <1>9, <1>10

LEMMA ForecastStep == ForecastIInv /\ [ForecastNext]_forecastVars => ForecastIInv'
<1> SUFFICES ASSUME ForecastIInv, [ForecastNext]_forecastVars PROVE ForecastIInv'
  OBVIOUS
<1>1. CASE UNCHANGED forecastVars
  BY <1>1 DEF ForecastIInv, PlansAreTyped, PoolMoves, PoolAnswersAll, RefreshesAscend, ServerTypes,
       TrajectoryEndsAtScript, forecastVars, pageState, poolState, readState, Busy
<1>2. CASE ForecastNext
  BY <1>2, PageKeeps, ReplyKeeps, PhasesKeep, RefreshEndKeeps DEF ForecastNext, ServerStep
<1> QED BY <1>1, <1>2

(* ForecastRunInv holds of every forecast: a pool of chats ends with an    *)
(* entry for each of its accounts, a plan is kept for the quarter that it  *)
(* was typed for, and the trajectory ends with the views that the script   *)
(* is rendered from (ForecastClient, generateForecastScript).              *)
THEOREM ForecastIsSound == ForecastSpec => []ForecastRunInv
<1> QED
  BY ForecastImplied, ForecastBegins, ForecastStep, PTL DEF ForecastSpec

(* No phase is begun for a stream that is cut: the first progress event    *)
(* after the abort throws (the route's send, and every phase's progress).  *)
THEOREM CutEndsGeneration == ForecastSpec => CutStops
<1>1. ASSUME [ForecastNext]_forecastVars, stream = "cut", phase # 0
      PROVE  phase' \in {phase, 0}
  <2>1. \A p : GoTo(p) => phase' = 0
    BY <1>1 DEF GoTo
  <2> QED
    BY <1>1, <2>1 DEF ForecastNext, ServerStep, PickQuarter, EditPlan, Generate, Disconnect, Receive, LoadData,
       TellHealth, EndPool, FlagRisks, RenderScript, Reply, RefreshEnds, forecastVars
<1>2. [ForecastNext]_forecastVars => [stream = "cut" /\ phase # 0 => phase' \in {phase, 0}]_forecastVars
  BY <1>1
<1> QED
  BY <1>2, PTL DEF ForecastSpec, CutStops
=============================================================================
