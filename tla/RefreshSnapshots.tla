--------------------------- MODULE RefreshSnapshots ---------------------------
(***************************************************************************)
(* What a refresh does to the data: runRefresh fetches from the active     *)
(* adapters, merges their payloads, writes the snapshot and the account    *)
(* views of a new run, completes the run and prunes old ones.  The web     *)
(* application serves the latest successful or partial run.  One process   *)
(* refreshes, one run after the other; it may throw or die at any point.   *)
(* Of an account the model keeps the franchise and the exit flag, which    *)
(* only Salesforce supplies, and lastFetchedFromSource; of its opportunity,*)
(* whether it is an in-quarter churn or downsell.                          *)
(***************************************************************************)
EXTENDS Naturals, FiniteSets, Sequences

CONSTANTS
  Accounts,
  Adapters,      \* those that the environment activates
  Enrichable,    \* the accounts of which Cerebro and Glean know anything
  MaxRuns,       \* bound: runs ever started
  Retain         \* how many runs pruneOldRuns keeps (12 in the code)

ExecOrder == <<"local-snapshots", "cerebro-rest", "cerebro-glean", "glean-mcp",
               "salesforce">>
Sources == {"cerebro", "glean-mcp", "salesforce"}

ASSUME SnapshotAssumption ==
  /\ "local-snapshots" \in Adapters
  /\ Adapters \subseteq {ExecOrder[i] : i \in 1..Len(ExecOrder)}
  /\ Enrichable \subseteq Accounts
  /\ MaxRuns \in Nat /\ Retain \in Nat \ {0}

VARIABLES
  runs,      \* refresh_runs with their snapshots, by started_at
  phase,     \* where runRefresh is
  prior,     \* ctx.priorRun: the accounts of the snapshot prefetched
  outcome,   \* what has become of each adapter's fetch
  payload    \* what it returned

fetches == <<prior, outcome, payload>>
vars == <<runs, phase, prior, outcome, payload>>

(* Partial data is a function on the ids, or the fields, that are there.   *)
Nothing == [a \in {} |-> a]
NoData == [accounts |-> Nothing, opportunities |-> Nothing]

Tables == {"accounts", "opportunities", "views"}
Served == {"success", "partial"}

PartialOf(S, T) == UNION {[U -> T] : U \in SUBSET S}
Account == {[stamp |-> s] : s \in PartialOf(Sources, 1..MaxRuns)} \cup
           [franchise : {TRUE}, exited : BOOLEAN,
            stamp : PartialOf(Sources, 1..MaxRuns)]

IsData(d) ==
  /\ DOMAIN d.accounts \subseteq Accounts
  /\ \A a \in DOMAIN d.accounts : d.accounts[a] \in Account
  /\ DOMAIN d.opportunities \subseteq Accounts
  /\ \A a \in DOMAIN d.opportunities : d.opportunities[a] \in {"open", "churn"}

TypeOK ==
  /\ Len(runs) <= MaxRuns
  /\ \A r \in 1..Len(runs) :
       /\ runs[r].status \in Served \cup {"running", "failed", "pruned"}
       /\ runs[r].written \subseteq Tables
       /\ IsData(runs[r].data)
       /\ \A a \in DOMAIN runs[r].data.accounts :
            "franchise" \in DOMAIN runs[r].data.accounts[a]
  /\ phase \in {"idle", "prefetch", "fetch", "persist", "publish", "complete",
                "prune"}
  /\ DOMAIN prior \subseteq Accounts
  /\ outcome \in [Adapters -> {"pending", "ok", "failed"}]
  /\ \A a \in Adapters : IsData(payload[a])

Init ==
  /\ runs = <<>>
  /\ phase = "idle"
  /\ prior = Nothing
  /\ outcome = [a \in Adapters |-> "pending"]
  /\ payload = [a \in Adapters |-> NoData]

-----------------------------------------------------------------------------
(* The runs.                                                               *)

Current == Len(runs)

(* latestSuccessfulRun, and baselineRunForWindow for a window of 0 days.   *)
ServedRuns == {r \in 1..Len(runs) : runs[r].status \in Served}
LatestSuccessful ==
  IF ServedRuns = {} THEN 0
  ELSE CHOOSE r \in ServedRuns : \A s \in ServedRuns : s <= r

(* What the snapshot tables hold of a run.                                 *)
SnapshotOf(r) ==
  IF r = 0 THEN NoData
  ELSE [accounts |-> IF "accounts" \in runs[r].written
                     THEN runs[r].data.accounts ELSE Nothing,
        opportunities |-> IF "opportunities" \in runs[r].written
                          THEN runs[r].data.opportunities ELSE Nothing]

ServedData == SnapshotOf(LatestSuccessful)

Kept == {r \in 1..Len(runs) : runs[r].status # "pruned"}
(* Mutant: one run too many goes.                                          *)
PrunableTooMany ==
  {r \in Kept : Cardinality({s \in Kept : s > r}) + 1 >= Retain}
Prunable == {r \in Kept : Cardinality({s \in Kept : s > r}) >= Retain}

-----------------------------------------------------------------------------
(* Merging.                                                                *)

(* The spread { ...existing, ...next }.                                    *)
Spread(existing, next) ==
  [x \in DOMAIN existing \cup DOMAIN next |->
     IF x \in DOMAIN next THEN next[x] ELSE existing[x]]

Stamped(source) == [s \in {source} |-> Current]
Fetched(source) == [stamp |-> Stamped(source)]

(* mergeAccount spreads, with lastFetchedFromSource spread on its own.     *)
(* Mutant: the plain spread.                                               *)
MergeAccountShallow(existing, next) == Spread(existing, next)
MergeAccount(existing, next) ==
  [Spread(existing, next) EXCEPT !.stamp = Spread(existing.stamp, next.stamp)]

MergeTwo(d, e) ==
  [accounts |->
     [a \in DOMAIN d.accounts \cup DOMAIN e.accounts |->
        IF a \notin DOMAIN e.accounts THEN d.accounts[a]
        ELSE IF a \notin DOMAIN d.accounts THEN e.accounts[a]
        ELSE MergeAccount(d.accounts[a], e.accounts[a])],
   opportunities |-> Spread(d.opportunities, e.opportunities)]

(* mergeAdapterResults over the adapters' payloads, in execution order; a  *)
(* failed adapter contributes nothing.                                     *)
MergeIn(d, a) == IF a \in Adapters THEN MergeTwo(d, payload[a]) ELSE d
Merged ==
  MergeIn(MergeIn(MergeIn(MergeIn(MergeIn(NoData,
    "local-snapshots"), "cerebro-rest"), "cerebro-glean"), "glean-mcp"), "salesforce")

(* Prior churn opportunities that Salesforce has not returned.  Mutant:    *)
(* none is carried forward.                                                *)
NoneRetained(m, sf) == Nothing
Retained(m, sf) ==
  [a \in {b \in DOMAIN m.opportunities \ DOMAIN sf.opportunities :
            m.opportunities[b] = "churn"} |-> "churn"]

Restricted(f, S) == [a \in DOMAIN f \cap S |-> f[a]]

(* applySalesforceAuthoritativeSnapshot.                                   *)
Authoritative(m, sf) ==
  IF DOMAIN sf.accounts = {} /\ DOMAIN sf.opportunities = {} THEN m
  ELSE LET opps == IF DOMAIN sf.opportunities = {} THEN m.opportunities
                   ELSE Spread(Retained(m, sf), sf.opportunities)
       IN  [accounts |-> Restricted(m.accounts,
                                    DOMAIN sf.accounts \cup DOMAIN opps),
            opportunities |-> opps]

(* isActiveExpand3Account and filterExpand3Snapshot.                       *)
IsActive(d, a) ==
  /\ "franchise" \in DOMAIN d.accounts[a]
  /\ \/ a \in DOMAIN d.opportunities /\ d.opportunities[a] = "churn"
     \/ ~d.accounts[a].exited

(* Mutant: the merged snapshot as it is.                                   *)
FilterNothing(d) == d
FilterExpand3(d) ==
  LET book == {a \in DOMAIN d.accounts : IsActive(d, a)}
  IN  [accounts |-> Restricted(d.accounts, book),
       opportunities |-> Restricted(d.opportunities, book)]

(* Mutant: authoritative whether or not the fetch succeeded and returned.  *)
SnapshotAlways ==
  FilterExpand3([Authoritative(Merged, payload["salesforce"]) EXCEPT
    !.accounts = Restricted(@, DOMAIN payload["salesforce"].accounts)])
NewSnapshot ==
  FilterExpand3(IF "salesforce" \in Adapters /\ outcome["salesforce"] = "ok"
                THEN Authoritative(Merged, payload["salesforce"]) ELSE Merged)

-----------------------------------------------------------------------------
(* What an adapter may return.                                             *)

Enrichment(source, S) ==
  [accounts |-> [a \in S |-> Fetched(source)], opportunities |-> Nothing]

Covered ==
  IF "cerebro-rest" \in Adapters THEN DOMAIN payload["cerebro-rest"].accounts
                                 ELSE {}

(* REST and glean-mcp enrich accounts of the prior snapshot that are not   *)
(* fresh; cerebro-glean searches for those that REST has not covered, and  *)
(* may find documents of others.                                           *)
BookOf(book, opps) ==
  [accounts |-> [a \in {b \in Accounts : book[b] # "absent"} |->
                   [franchise |-> TRUE, exited |-> book[a] = "exited",
                    stamp |-> Stamped("salesforce")]],
   opportunities |-> Restricted(opps, {b \in Accounts : opps[b] # "none"})]
FromSalesforce ==
  {BookOf(book, opps) : book \in [Accounts -> {"absent", "active", "exited"}],
                        opps \in [Accounts -> {"none", "open", "churn"}]}

Payloads(a) ==
  CASE a = "local-snapshots" -> {ServedData}
    [] a = "cerebro-rest" ->
         {Enrichment("cerebro", S) : S \in SUBSET (DOMAIN prior \cap Enrichable)}
    [] a = "cerebro-glean" ->
         {Enrichment("cerebro", S) :
            S \in IF DOMAIN prior \subseteq Covered THEN {{}}
                  ELSE SUBSET Enrichable}
    [] a = "glean-mcp" ->
         {Enrichment("glean-mcp", S) : S \in SUBSET (DOMAIN prior \cap Enrichable)}
    [] a = "salesforce" -> FromSalesforce

-----------------------------------------------------------------------------
(* runRefresh.                                                             *)

Start ==
  /\ phase = "idle" /\ Len(runs) < MaxRuns
  /\ runs' = Append(runs, [status |-> "running", written |-> {}, data |-> NoData])
  /\ phase' = "prefetch"
  /\ UNCHANGED <<prior, outcome, payload>>

(* When the prefetch finds no run, or cannot look, the adapters look up    *)
(* the same snapshot on their own; when its read of the accounts fails,    *)
(* they are left with none.                                                *)
Prefetch ==
  /\ phase = "prefetch"
  /\ prior' \in {ServedData.accounts, Nothing}
  /\ phase' = "fetch"
  /\ UNCHANGED <<runs, outcome, payload>>

Deferred ==
  {"glean-mcp"} \cup (IF "cerebro-rest" \in Adapters THEN {"cerebro-glean"} ELSE {})
Immediate == Adapters \ Deferred
Pair == {"cerebro-glean", "glean-mcp"}

Settled(S) == \A a \in S : outcome[a] # "pending"
Before(a) ==
  {ExecOrder[i] : i \in {k \in 1..Len(ExecOrder) :
                           \E l \in (k + 1)..Len(ExecOrder) : ExecOrder[l] = a}}

(* partitionAdaptersForFetch: the immediate adapters race each other, then *)
(* cerebro-glean, then glean-mcp, unless these two share one loop.  Nobody *)
(* looks at a result before all the immediate ones are there, so they may  *)
(* as well settle in execution order.                                      *)
Ready(a) ==
  /\ phase = "fetch" /\ outcome[a] = "pending"
  /\ Settled(Before(a) \cap Immediate)
  /\ a \in Deferred => Settled(Immediate)
  /\ a = "glean-mcp" => Settled(Adapters \cap {"cerebro-glean"})

FetchReturns(a) ==
  /\ Ready(a)
  /\ \E p \in Payloads(a) : payload' = [payload EXCEPT ![a] = p]
  /\ outcome' = [outcome EXCEPT ![a] = "ok"]
  /\ UNCHANGED <<runs, phase, prior>>

(* It throws, or loses the race against its timeout; what it returns later *)
(* is dropped.                                                             *)
FetchFails(a) ==
  /\ Ready(a)
  /\ outcome' = [outcome EXCEPT ![a] = "failed"]
  /\ UNCHANGED <<runs, phase, prior, payload>>

(* The coordinated loop, when GLEAN_COORDINATED_LOOP is on, there is a      *)
(* client and both are deferred.                                           *)
PairReady ==
  /\ phase = "fetch" /\ Pair \subseteq Adapters \cap Deferred
  /\ Settled(Immediate) /\ \A a \in Pair : outcome[a] = "pending"

PairReturns ==
  /\ PairReady
  /\ \E p \in Payloads("cerebro-glean"), q \in Payloads("glean-mcp") :
       payload' = [payload EXCEPT !["cerebro-glean"] = p, !["glean-mcp"] = q]
  /\ outcome' = [outcome EXCEPT !["cerebro-glean"] = "ok", !["glean-mcp"] = "ok"]
  /\ UNCHANGED <<runs, phase, prior>>

PairFails ==
  /\ PairReady
  /\ outcome' = [outcome EXCEPT !["cerebro-glean"] = "failed",
                                !["glean-mcp"] = "failed"]
  /\ UNCHANGED <<runs, phase, prior, payload>>

(* Everything has settled: merge, and hand the snapshot to the writers.    *)
Merge ==
  /\ phase = "fetch" /\ Settled(Adapters)
  /\ runs' = [runs EXCEPT ![Current].data = NewSnapshot]
  /\ phase' = "persist"
  /\ prior' = Nothing
  /\ payload' = [a \in Adapters |-> NoData]
  /\ UNCHANGED outcome

Write(table) ==
  runs' = [runs EXCEPT ![Current].written = @ \cup {table}]

(* The two snapshot tables are written together, and both before the views.*)
Persist ==
  /\ phase = "persist"
  /\ \E t \in {"accounts", "opportunities"} \ runs[Current].written :
       /\ Write(t)
       /\ phase' = IF runs[Current].written \cup {t} = {"accounts", "opportunities"}
                   THEN "publish" ELSE "persist"
  /\ UNCHANGED fetches

(* Mutant of Publish: the views are left for later.                        *)
PublishLater ==
  /\ phase = "publish"
  /\ phase' = "complete"
  /\ UNCHANGED <<runs, fetches>>
Publish ==
  /\ phase = "publish"
  /\ Write("views")
  /\ phase' = "complete"
  /\ UNCHANGED fetches

Succeeded == {a \in Adapters : outcome[a] = "ok"}
RunStatus ==
  IF Succeeded = {} THEN "failed"
  ELSE IF Succeeded = Adapters THEN "success" ELSE "partial"

Complete ==
  /\ phase = "complete"
  /\ runs' = [runs EXCEPT ![Current].status = RunStatus]
  /\ phase' = "prune"
  /\ outcome' = [a \in Adapters |-> "pending"]
  /\ UNCHANGED <<prior, payload>>

Pruned == [status |-> "pruned", written |-> {}, data |-> NoData]

Prune ==
  /\ phase = "prune"
  /\ runs' = [r \in 1..Len(runs) |-> IF r \in Prunable THEN Pruned ELSE runs[r]]
  /\ phase' = "idle"
  /\ UNCHANGED fetches

(* A query throws or the process dies: the run keeps its status.  Nothing  *)
(* reads the rows of a run that was not completed; they are forgotten.     *)
Abort ==
  /\ phase # "idle"
  /\ runs' = IF phase = "prune" THEN runs ELSE [runs EXCEPT ![Current].data = NoData]
  /\ phase' = "idle"
  /\ prior' = Nothing
  /\ outcome' = [a \in Adapters |-> "pending"]
  /\ payload' = [a \in Adapters |-> NoData]

Next ==
  \/ Start \/ Prefetch \/ PairReturns \/ PairFails \/ Merge \/ Persist
  \/ Publish \/ Complete \/ Prune \/ Abort
  \/ \E a \in Adapters : FetchReturns(a) \/ FetchFails(a)

Spec == Init /\ [][Next]_vars

-----------------------------------------------------------------------------
(* Properties.                                                             *)

(* The run that the application serves has its whole snapshot and all its  *)
(* views, wherever later refreshes threw (completeRefreshRun comes last).  *)
ServedIsWhole ==
  LatestSuccessful # 0 => runs[LatestSuccessful].written = Tables

(* A new run is completed and served in the place of another.              *)
Replaces == LatestSuccessful # 0 /\ LatestSuccessful' > LatestSuccessful
HasBaseline == "local-snapshots" \in Succeeded
HasSalesforce == "salesforce" \in Succeeded

(* No refresh that has read its baseline sets a source's freshness back or *)
(* forgets it, whichever adapters failed or skipped the account (the deep  *)
(* merge of lastFetchedFromSource in mergeAccount).                        *)
AsFresh(new, old) == \A s \in DOMAIN old : s \in DOMAIN new /\ new[s] >= old[s]
StaysFresh ==
  Replaces /\ HasBaseline =>
    \A a \in DOMAIN ServedData.accounts \cap DOMAIN ServedData.accounts' :
      AsFresh(ServedData.accounts'[a].stamp, ServedData.accounts[a].stamp)
FreshnessAdvances == [][StaysFresh]_vars

(* An account leaves the book only by a refresh in which Salesforce        *)
(* answered; an outage of any real source keeps it.                        *)
NoneLeaves ==
  Replaces /\ HasBaseline /\ ~HasSalesforce =>
    DOMAIN ServedData.accounts \subseteq DOMAIN ServedData.accounts'
OnlySalesforceRemoves == [][NoneLeaves]_vars

(* An in-quarter churn opportunity of the baseline that Salesforce omits   *)
(* is carried into the new snapshot with its account, through the          *)
(* authoritative drop and the filter of exited accounts.                   *)
ChurnCarried ==
  phase = "fetch" /\ phase' = "persist" =>
    \A a \in DOMAIN payload["local-snapshots"].opportunities :
      /\ payload["local-snapshots"].opportunities[a] = "churn"
      /\ a \notin DOMAIN payload["salesforce"].opportunities
      => /\ a \in DOMAIN runs'[Current].data.opportunities
         /\ a \in DOMAIN runs'[Current].data.accounts
ChurnCarriedForward == [][ChurnCarried]_vars

(* The application is left without a run to serve only when the last       *)
(* Retain runs have all been unsuccessful: failed and abandoned runs count *)
(* for pruneOldRuns, but a single one never evicts the served run.         *)
EvictedByMany ==
  LatestSuccessful # 0 /\ LatestSuccessful' = 0 =>
    Cardinality({r \in Kept' : runs'[r].status \notin Served}) >= Retain
ServedSurvives == [][EvictedByMany]_vars

(* "localSnapshots is ALWAYS first as the baseline so unattended refreshes *)
(* don't wipe state when no real source produces a record."  Fails when    *)
(* the baseline's own fetch fails or times out.                            *)
UnattendedKeepsState ==
  [][Replaces /\ ~HasSalesforce =>
       DOMAIN ServedData.accounts \subseteq DOMAIN ServedData.accounts']_vars

(* The invariant of the runs.                                              *)
RunsInv == TypeOK /\ ServedIsWhole

(* What leaves the book between two served runs left it for a cause.       *)
BookIsKept == OnlySalesforceRemoves /\ ChurnCarriedForward
=============================================================================
