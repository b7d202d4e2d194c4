------------------------------ MODULE PageLoads ------------------------------
(* What a page reads of the database while refreshes publish and prune     *)
(* their runs (read-model.ts): the views of the latest run and, along a    *)
(* chain of queries of its own, the changes since a baseline.  The start   *)
(* and the changes page walk that chain twice.  A run holds one thing, an  *)
(* account or an opportunity, which has a value or, with 0, is not there.  *)
EXTENDS Integers, FiniteSets, FiniteSetsExt, SequencesExt

CONSTANTS
  Window,           \* days between a run and its baseline: 7, 14 or 30
  KeptRuns,         \* runs that pruneOldRuns leaves: 12
  MaxValue,         \* values of the thing
  MaxDay, MaxStarts \* days and refreshes of one behaviour

ASSUME LoadAssumption ==
  /\ Window \in Nat \ {0}
  /\ {KeptRuns, MaxValue, MaxDay, MaxStarts} \subseteq Nat

VARIABLES
  day,
  started,          \* every run that was started, in order
  kept,             \* those that have not been pruned
  loading,          \* the chains of the load, {} before it begins
  ofViews, views,   \* the run whose views it reads, and what it finds there
  at,               \* where each chain is
  curr, prev,       \* its two runs, 0 for none
  seen,             \* what its two reads found
  quiet             \* history: no run was published or pruned since the load began

refreshState == <<day, started, kept>>
chainState == <<at, curr, prev, seen>>
loadVars == <<refreshState, loading, ofViews, views, chainState, quiet>>

Unread == -1
Chains == {"dashboard", "page"}
Reads == {"now", "then"}

ServedNow == {i \in kept : started[i].status = "served"}
Newest(runs) == IF runs = {} THEN 0 ELSE Max(runs)

-----------------------------------------------------------------------------
(* Refreshes: one at a time, served in the order in which they start.      *)

DayPasses ==
  /\ day < MaxDay
  /\ day' = day + 1
  /\ UNCHANGED <<started, kept, loading, ofViews, views, chainState, quiet>>

NothingRuns == \A i \in DOMAIN started : started[i].status # "running"

RunStarts ==
  /\ NothingRuns
  /\ Len(started) < MaxStarts
  /\ started' = Append(started, [day |-> day, status |-> "running", value |-> 0])
  /\ kept' = kept \cup {Len(started) + 1}
  /\ UNCHANGED <<day, loading, ofViews, views, chainState, quiet>>

RunFails ==
  /\ ~NothingRuns
  /\ started' = [started EXCEPT ![Len(started)].status = "failed"]
  /\ UNCHANGED <<day, kept, loading, ofViews, views, chainState, quiet>>

RunIsServed ==
  /\ ~NothingRuns
  /\ \E v \in 0..MaxValue : started' = [started EXCEPT ![Len(started)] = [@ EXCEPT !.status = "served", !.value = v]]
  /\ quiet' = FALSE
  /\ UNCHANGED <<day, kept, loading, ofViews, views, chainState>>

(* The end of a successful refresh: what is not among the newest goes,     *)
(* with all its rows.                                                      *)
PruneRuns ==
  /\ started # <<>>
  /\ Last(started).status = "served"
  /\ Cardinality(kept) > KeptRuns
  /\ kept' = {i \in kept : Cardinality({j \in kept : j > i}) < KeptRuns}
  /\ quiet' = FALSE
  /\ UNCHANGED <<day, started, loading, ofViews, views, chainState>>

-----------------------------------------------------------------------------
(* Mutant: takes the newest of the other runs when none is old enough.   *)
FallbackNewest(i) == Newest(ServedNow \ {i})

(* baselineRunForWindow: the newest run that is old enough, or else, in a  *)
(* query of its own, the earliest of the others, be it older or newer.     *)
OldEnough(i) == Newest({j \in ServedNow \ {i} : i \in kept /\ started[j].day <= started[i].day - Window})
Fallback(i) == IF ServedNow \ {i} = {} THEN 0 ELSE Min(ServedNow \ {i})

Found(i) == IF i \in kept THEN started[i].value ELSE 0

(* Mutant: what the baseline has not is a change.                        *)
MovedFromNothing(then, now) == now # 0 /\ then # now

(* diffAll: what one of the two has not is no change.                      *)
Moved(then, now) == then # 0 /\ now # 0 /\ then # now

(* A chain that stops early shows no change.                               *)
Changed(c) == Unread \notin {seen[c][r] : r \in Reads} /\ Moved(seen[c]["then"], seen[c]["now"])

-----------------------------------------------------------------------------
(* The load.                                                               *)

Chain(c, where) == at' = [at EXCEPT ![c] = where]

(* Both chains of a page start at once; the dashboard's begins with its    *)
(* own look for the latest run.                                            *)
LoadBegins(chains) ==
  /\ loading = {}
  /\ loading' = chains
  /\ at' = [c \in Chains |-> IF c = "page" /\ c \in chains THEN "latest" ELSE "off"]
  /\ quiet' = TRUE
  /\ UNCHANGED <<refreshState, ofViews, views, curr, prev, seen>>

(* Mutant: the dashboard's views are those of the run before.            *)
LatestForViewsOld == Newest(ServedNow \ {Newest(ServedNow)})

LatestForViews == Newest(ServedNow)

FindViews ==
  /\ loading # {}
  /\ ofViews = Unread
  /\ ofViews' = LatestForViews
  /\ IF LatestForViews = 0
     THEN views' = 0 /\ Chain("dashboard", "over")
     ELSE views' = views /\ Chain("dashboard", "latest")
  /\ UNCHANGED <<refreshState, loading, curr, prev, seen, quiet>>

ReadViews ==
  /\ ofViews > 0
  /\ views = Unread
  /\ views' = Found(ofViews)
  /\ UNCHANGED <<refreshState, loading, ofViews, chainState, quiet>>

FindLatest(c) ==
  /\ at[c] = "latest"
  /\ curr' = [curr EXCEPT ![c] = Newest(ServedNow)]
  /\ Chain(c, IF ServedNow = {} THEN "over" ELSE "old enough")
  /\ UNCHANGED <<refreshState, loading, ofViews, views, prev, seen, quiet>>

FindOldEnough(c) ==
  /\ at[c] = "old enough"
  /\ prev' = [prev EXCEPT ![c] = OldEnough(curr[c])]
  /\ Chain(c, IF OldEnough(curr[c]) = 0 THEN "fallback" ELSE "read")
  /\ UNCHANGED <<refreshState, loading, ofViews, views, curr, seen, quiet>>

FindFallback(c) ==
  /\ at[c] = "fallback"
  /\ prev' = [prev EXCEPT ![c] = Fallback(curr[c])]
  /\ Chain(c, IF Fallback(curr[c]) = 0 THEN "over" ELSE "read")
  /\ UNCHANGED <<refreshState, loading, ofViews, views, curr, seen, quiet>>

(* The reads go out together and are answered in any order.           *)
ReadOne(c, read) ==
  LET found == [seen[c] EXCEPT ![read] = Found(IF read = "now" THEN curr[c] ELSE prev[c])] IN
  /\ at[c] = "read"
  /\ seen[c][read] = Unread
  /\ seen' = [seen EXCEPT ![c] = found]
  /\ Chain(c, IF \E r \in Reads : found[r] = Unread THEN "read" ELSE "over")
  /\ UNCHANGED <<refreshState, loading, ofViews, views, curr, prev, quiet>>

-----------------------------------------------------------------------------
LoadInit ==
  /\ day = 1
  /\ started = <<>>
  /\ kept = {}
  /\ loading = {}
  /\ ofViews = Unread
  /\ views = Unread
  /\ at = [c \in Chains |-> "off"]
  /\ curr = [c \in Chains |-> 0]
  /\ prev = [c \in Chains |-> 0]
  /\ seen = [c \in Chains |-> [r \in Reads |-> Unread]]
  /\ quiet = FALSE

LoadNext ==
  \/ DayPasses \/ RunStarts \/ RunFails \/ RunIsServed \/ PruneRuns
  \/ LoadBegins({"dashboard"}) \/ LoadBegins(Chains)
  \/ FindViews \/ ReadViews
  \/ \E c \in Chains :
       \/ FindLatest(c) \/ FindOldEnough(c) \/ FindFallback(c)
       \/ \E read \in Reads : ReadOne(c, read)

LoadSpec == LoadInit /\ [][LoadNext]_loadVars

-----------------------------------------------------------------------------
Loaded == loading # {} /\ views # Unread /\ \A c \in loading : at[c] = "over"

StartedAfter(i) == Len(started) - i

(* The thing is in both runs and has changed from the one to the other.    *)
Differ(i, j) ==
  0 \notin {started[i].value, started[j].value} /\ started[i].value # started[j].value

(* Whatever is pruned or published under it, a load shows no change that   *)
(* is not one between two runs that were served.                           *)
EventsAreTrue == \A c \in loading : Changed(c) => Differ(prev[c], curr[c])

(* The changes are never of an older run than the views, and a view is     *)
(* missing only when as many newer runs as are kept have been started.     *)
ViewsAreNotNewer ==
  ofViews > 0 =>
    /\ curr["dashboard"] = 0 /\ at["dashboard"] = "over" => StartedAfter(ofViews) >= KeptRuns
    /\ curr["dashboard"] # 0 => curr["dashboard"] >= ofViews
    /\ views = 0 /\ started[ofViews].value # 0 => StartedAfter(ofViews) >= KeptRuns

(* The changes lead to the newer of the two runs, unless the run was the   *)
(* only one to be served when it was chosen: every run that was served is  *)
(* gone or came later.                                                     *)
ChangesLeadForward ==
  \A c \in loading : prev[c] > curr[c] =>
    \A i \in 1..(curr[c] - 1) : i \notin kept \/ started[i].status # "served"

(* A load that nothing disturbs shows one run, everything that changed     *)
(* since the baseline and, on both chains, the same.                       *)
QuietLoad ==
  (quiet /\ Loaded /\ ServedNow # {}) =>
    LET now == Max(ServedNow)
        old == {j \in ServedNow : started[j].day + Window <= started[now].day /\ j # now}
        base == IF old # {} THEN Max(old) ELSE Min(ServedNow) IN
    /\ ofViews = now
    /\ views = started[now].value
    /\ \A c \in loading : Changed(c) <=> Differ(base, now)

LoadInv == EventsAreTrue /\ ViewsAreNotNewer /\ ChangesLeadForward /\ QuietLoad
=============================================================================
