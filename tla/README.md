# Verification of mdas

mdas is a dashboard for a customer-success manager. A worker pulls accounts and
opportunities from several sources into Postgres snapshots; a Next.js
application shows them and starts long jobs (refreshes, CTA generation,
customer-activity snapshots, account plans); one carefully gated path writes to
Slack. This directory holds TLA+ models of its concurrent core, TLC
configurations that check them, and proofs for the TLA+ proof system.

Paths below are relative to the repository's root; `main.ts` without a path is
`apps/worker/src/main.ts`, `db` is `packages/db/src/index.ts`.

## 1. Inventory

| component | state | operations | what must be right |
|---|---|---|---|
| **Refresh queue**: `apps/web/src/app/api/refresh/route.ts`, `db` (jobs and runs), `main.ts`, `refresh-once.ts` | tables `refresh_jobs`, `refresh_runs`; the `refresh` channel; the worker's `draining` flag | POST (look up, insert, notify), reap, claim, complete, LISTEN, drain, attach, prune | a job is run once, in order, reported truthfully, never forgotten |
| **Refresh run**: `apps/worker/src/orchestrate.ts`, `salesforce-authoritative.ts`, `glean-coordinator.ts`, `packages/canonical/src/expand3.ts` | adapter outcomes, the merged snapshot, snapshot and view rows, the run's status | prefetch, fetch with timeouts, defer, merge, filter, persist, score, publish, complete, prune | what is served is whole; an outage never removes or ages data; churn is carried forward |
| **Refresh progress**: `progress-tracker.ts` | per-adapter states, one JSON column | report, flush | a late report changes nothing |
| **Job watchers**: `apps/web/src/lib/{refresh,cta-generation}-job-watch.ts`, the CSE copy, `RefreshButton.tsx`, `CTABoard.tsx` | one module-global `session` with subscribers | subscribe, unsubscribe, poll, deadline, give up | each subscriber hears the end of its own job, once |
| **CTA jobs**: `cta-generation-jobs.ts`, `api/ctas/generate/route.ts` | in-memory job map, child processes | start, output, close, error, reconcile, prune | bounded jobs, no live process forgotten, a final status is true |
| **Customer-activity snapshot jobs**: `lib/cse-activity/snapshot-*.ts` | in-memory job map | start, run, reconcile | one at a time, a final status is final |
| **Account plans**: `lib/account-plan/{generate,bulk-refresh}.ts`, `db` | `account_plans` with lock rows, `inFlight`, bulk jobs and items, `drainRunning` | refresh, lock, collect, insert, unlock; bulk enqueue, drain | one manual generation per account; a bulk job ends, whole and for good |
| **Slack send**: `lib/slack-send-service.ts`, `packages/slack-send/src/{gate,client}.ts` | `slack_message_audit`, the environment, Slack itself | preview, confirm, cancel | at most one message per preview, only behind the gate, as previewed, and a log that tells the truth |
| **Slack mapping**: `lib/slack-mapping.ts`, `packages/slack-send/src/status.ts` | `account_slack_mappings` | refresh, override, clear, promote, import | overrides win and survive refreshes |
| **CTA log**: `lib/cta-log.ts`, `scripts/generate-ctas.ts` | one JSON-lines file | read, patch, append | no update is lost |
| **CTA board**: `apps/web/src/components/CTABoard.tsx` | the cards, one draft per field, the generation it follows | edit, update, follow a generation, reload | a card shows what the log says; nobody's text is lost |
| **Forecast page**: `app/forecast/ForecastClient.tsx`, `api/forecast/route.ts`, `lib/forecast-{generate,trajectory}.ts` | the quarter, the plan, one streamed request | choose, generate, abandon, follow the stream | a narrative is about one quarter, one plan and one book |
| **Slack pages**: `app/admin/slack/SlackMappingsClient.tsx`, `import-channels/*` | controls, rows, requests under way, suggestions | filter, page, operate, compose, upload, sweep, accept | what is shown is what was asked for last |
| **Glean tokens**: `scripts/glean-{login,refresh}.mjs`, `refresh-glean-token.mjs`, `lib/glean-oauth.mjs` | a state file with one grant per tenant, `.env` | log in, refresh, look a token up | no script cuts another off from Glean |
| **Engines**: `packages/{scoring,cta-engine,account-plan-engine,forecast-generator,renewal-metrics,cse-activity}` | none | functions of the book | totals, lists, colours and rules that agree with each other |
| **Calendar and filters**: `lib/fiscal.ts`, `FiscalQuarterFilter.tsx`, the workbench, the list pages | URL, local storage, React state | click, load, repair | a page shows the quarters and rows that were chosen |
| **Adapters**: `packages/adapters/read/*` | HTTP clients, the shared Glean slots | fetch | one slow source does not hold up or spoil a refresh |
| **Read model**: `lib/read-model.ts`, `db` | none of its own | load views, baseline, events | one page is of one run and its right predecessor |
| **Other pages, scripts and support** | none that two steps share | render, migrate, parse | not modelled |

How they interact. A click posts to `/api/refresh`, which inserts a job and
notifies the worker over Postgres; the worker claims it, runs the refresh, and
closes the job. The browser polls the job through a watcher. `refresh-once.ts`
runs a refresh without a job, next to the worker. The web application reads the
latest run whose status is `success` or `partial`. CTA, snapshot and plan jobs
live inside the web server, the CTA ones as child processes whose end the server
hears about; their browsers use copies of the same watcher. Slack sends go from
the web server to Slack, behind a gate read from the environment, with an
append-only audit table; the target channel comes from the mapping.

What is hard: handlers that look, await and then act; a worker that may be
notified at any point of a drain; a reaper that guesses from a clock; adapters
that answer late or not at all; processes that crash, hang or are declared dead
while alive; database writes that fail between two steps that belong together.
`PROJECT.json` lists each such hazard at its line.

## 2. Modules

The last column names the module with the theorems, where there are any.

| module | models | proofs |
|---|---|---|
| `WorkQueue` | what the refresh queue promises: jobs enter in order, are handed out oldest first and at most once, and stay closed | (abstract) |
| `RefreshQueue` | POST, claim, drain, LISTEN/NOTIFY, reaper, completion and retention, workers, tool, crashes | `RefreshQueueProofs` |
| `RefreshSnapshots` | what a refresh does to the data: fetch, merge, filter, persist, publish, prune | `RefreshSnapshotsProofs` |
| `SlackSend` | preview, confirm, cancel over the audit table | `SlackProofs` |
| `CtaJobs` | jobs and child processes of CTA generation | `ServerJobsProofs` |
| `AccountPlans` | manual and bulk generation of account plans | `ServerJobsProofs` |
| `JobWatch` | the browser's watcher and the components that use it | `PagesProofs` |
| `MappingPage`, `ComposePanel` | the table of Slack mappings and the panel that sends | `PagesProofs` |
| `CtaBoard` | the board as a reader and writer of the CTA log | `PagesProofs` |
| `GleanToken` | logins and refreshes of Glean grants | `AdapterProofs` |
| `RefreshFetch` | the fetch phase: order, Glean slots, retries, time-outs, the coordinated pair, progress rows | `AdapterProofs` |
| `PageLoads` | which runs a page's queries read while refreshes publish and prune | `RefreshSnapshotsProofs` |
| `SlackMapping` | refreshes, sweeps, overrides, clears and imports over `account_slack_mappings` | `SlackProofs` |
| `CseSnapshots` | weekly customer-activity jobs and the directory they write | `ServerJobsProofs` |
| `ForecastRun` | the forecast page with its stream and the seven phases of a generation | `ServerJobsProofs` |
| `CtaLog` | scans, the day's documents, the log, its archive and updates from the board | `PagesProofs` |
| `CtaEditor` | the cards of the board: drafts, blurs, filters, the message for Slack | `EditorProofs` |
| `RiskScores` -> `CtaRules` -> `PlanEngine` | scores of an account whose facts change; the CTA rules over them; the account plan over both | `FiguresProofs` |
| `ForecastTotals` -> `RenewalMetrics` -> `Workbench` | the weekly script's totals and lists; the renewal metrics; the workbench that filters and sorts them | `FiguresProofs` (the first) |
| `FiscalCalendar` -> `QuarterFilter` | the copies of the fiscal calendar; the quarter filter's URL, storage, effects and clicks | |
| `ListPages` | home, movements, accounts, opportunities and hygiene: scopes, filters, cards, keyboard | |
| `ImportChannels` | uploads, sweeps, promotions and suggestions of Slack channels | |
| `ActivityReport` | the customer-activity report of one week | |

An arrow is EXTENDS: the later module is over the earlier one's accounts and
cites its functions, as the code does.

Every `MC*` module instantiates components for TLC: model values, symmetry, and
the constants a configuration cannot write down. Components that share no state
and are small are put into one run as a sum: a variable `part` says which of them
this behaviour is about, and the others rest. The states of a sum are those of
its parts added, so nothing is lost and nothing interleaves that does not in
the code.

`map` in `PROJECT.json` gives, for every definition that models code, the lines it
translates. Beside many definitions stands a second one whose comment starts with
"Mutant": a plausible mistake in that code, used by no action. Putting it in the
place of its neighbour makes a property fail. `PROJECT.json` names one such pair
for each property of each run; the other pairs break other conjuncts.

The grain. JavaScript runs to the next `await` without interruption and a single
SQL statement is atomic, so an action is what one process does between two
awaits. Steps that touch nothing another process can see are merged into their
neighbours (logging, reading back a row just written, progress columns).

### RefreshQueue

| variable | code |
|---|---|
| `jobStatus`, `jobRun`, `stale` | `refresh_jobs.status`, `.refresh_run_id`, and `started_at` older than an hour |
| `runStatus` | `refresh_runs.status`, `"none"` before the INSERT, `"pruned"` after the DELETE |
| `pc`, `job`, `run` | where each worker or tool is in `main`, `drain` and `runRefresh`, with its local `job` and `refreshId` |
| `listening`, `inbox` | the LISTEN connection and the notifications node-postgres has yet to hand over |
| `post` | where each POST handler is between its three queries |

`PostFindsNone`, `PostInsert`, `PostNotify`, `PostDies` are POST; `Boot`,
`Reap`, `ReapFails`, `Listen` the boot sequence; `Claim`, `ClaimNone`,
`DrainEnds`, `Complete`, `AuditFailed`, `MarkFailed` the drain; `Notified` the
notification handler; `StartRun`, `Attach`, `AttachFails`, `Publish`,
`PruneUnlink`, `PruneDelete`, `PruneRefused`, `Throw` what `runRefresh` does to
the tables; `HourPasses` and `Crash` the environment. `ClaimNone` and
`DrainEnds` are apart because the empty claim is decided in the database before
the worker knows of it, which is where a notification gets lost. The foreign key
of `refresh_jobs.refresh_run_id` decides what `CompleteJob` and `PruneDelete`
may do. Job ids are in the order of `enqueued_at`, run ids in the order of
`started_at`.

### RefreshSnapshots

`runs` is `refresh_runs` with its snapshots, `phase` where `runRefresh` is,
`outcome` and `payload` what became of each adapter's fetch, `prior` the
prefetched accounts. `FetchReturns` and `FetchFails` settle one adapter, in the
order `partitionAdaptersForFetch` imposes (immediate ones, then
`cerebro-glean`, then `glean-mcp`, the last two also as one coordinated loop:
`PairReturns`, `PairFails`). `Merge` applies `mergeTwo` in execution order, then
the Salesforce-authoritative drop with the churn exception, then the Expand 3
filter; `Persist`, `Publish`, `Complete`, `Prune` are the writes in their order,
and `Abort` is a throw or a death anywhere. Of an account the model keeps what
these steps look at: franchise, exit flag, and `lastFetchedFromSource`, with run
numbers for times; of its opportunities whether there is one and whether it is
an in-quarter churn or downsell.

### JobWatch

`session` and `sessions` are the module-global session and every session ever
made, each with its poll loop (`fetch`, `sleep`, `ended`), its `AbortController`
and its subscribers; `unsub` is `unsubscribeRef.current`, the closure of the last
subscription. The button is `Mount` (resume request), `Click`, `Attach` (an
answer arrives), `AskFails`, `Unmount`; the loop is `PollRunning`, `PollDone`,
`PollFails`, `PollGivesUp`, `PollAborted`, `Wake`, `Expire`. The CTA and CSE
copies differ by two constants: after how many failed polls they give up, and
what they answer for a job the server has forgotten.

### CtaJobs

`status`, `stored`, `aged`, `finished` are the job objects and the map; `held`
and `killed` are `childByJobId` and the SIGTERM sent on eviction; `child` is the
process. `Post`, `GetOne`, `GetActive` are the handlers, each of which prunes
and reconciles first, so that a GET is a writing step. `ChildEnds` is a process
ending, `ChildReported` its `close` or `error` event, `TimePasses` an hour for a
running job or two minutes for a finished one. No poll is owed to a job: the
browser's ends after 40 minutes (`cta-generation-job-watch.ts:111`), twenty before
a job is overdue.

### AccountPlans

`jobs` are the bulk jobs with their items, `drain` the running `drainBulkJob`,
`post` the enqueueing handlers, `gens` each generation (a manual refresh or the
work on one item), `inFlight` the module's set, `locks` the generations with a
live `refreshing` row. Each query of the code is an action, and each of these has
a failing twin, where the write may or may not have taken effect. The drain takes
`Batch` pending items, in chunks of `Width` under `Promise.all`; one rejection
ends the drain while the siblings of the chunk go on (`Reject`).

### SlackSend

`rows` is `slack_message_audit`, `messages` what Slack has delivered, `mapping`
and `gate` the account's usable channel and the environment; `pc`, `kind`,
`seen`, `of` each handler's place and locals. `Preview*`, `Confirm*`, `Post*`,
`Record*`, `AuditSent`, `Cancel*` are the handlers' steps; `Remap` and `Restart`
the world. `disturbed` is a history variable: the previews two handlers acted on
at once, or whose handler was cut short; the properties that hold for all
others say so.

### RefreshFetch

`outcome`, `overdue`, `todo` and `call` are where each adapter's fetch and its loop
over accounts are; `inFlight` and `waitQueue` the shared `RateLimiter`, `mcpInit`
and `refused` the memoized handshake; `shown`, `dirty`, `writes`, `stored` the
`ProgressTracker` and its flushes. A fetch that lost the race against its
time-out is not stopped: its loop goes on, takes slots and reports. What is ready
to run without waiting for the outside runs before anything from outside does
(`Ready`), since microtasks do.

### GleanToken

`saved` is `.glean-oauth.json`; `step`, `script`, `tenant`, `entry`, `file` and
`token` are the locals of each run of one of the three scripts, which read the
file, ask the tenant, and write `.env` and the file in their order. `live` is the
tenant's side: which grants it accepts. A grant is a client, a consent and how
often it was used, so that rotation is a successor. `lost` names the tenants
whose saved grant was spent, replaced or cut off by an accident.

### SlackMapping, MappingPage, ComposePanel, ImportChannels

`rowOf` is the table, `work` each refresh or sweep under way with the copies that it
read minutes ago, `salesforce`, `sheet`, `slack` what it resolves from. The
history variables say what the operator last wanted (`operator`) and which rows
were written under a request that held an older copy (`overtaken`). The pages
hold a set of requests under way; an event handler and the effects of its render
are one step, answers arrive later, and `AbortController` decides which of them
still counts.

### CtaLog, CtaBoard, CtaEditor

The log is a set of lines in order, `scans` the documents of each day, `scanner` what
each generating process is doing, `rewriting` the web server's copy between its
read and its write of the whole file. Four history variables: `known` remembers
the status that the operator last gave, `mixed` the overlaps and crashes after
which it may be lost until a full scan has run alone, `older` the keys of which
the operator changed a line that is not the newest, `regenerated` that no scan has
started since a full one that ran alone. `CtaBoard` is about statuses that cross between board and log,
`CtaEditor` about texts: drafts are made when a card is mounted and sent when
its field is left.

### CseSnapshots, ActivityReport, ForecastRun

`job`, `known`, `late` are the job objects and the map, `earlier` the order in which
finished jobs ended, `week` the directory of each date, file by file. Time is counted
in hours of Denver's standard time; what its clocks show (`Local`) is an hour ahead between
`Forward` and `Back`. `DaysBack`, `WindowEnd` and `SnapshotDate` are `resolveReportingWindow`:
days are counted by what the clocks show, taken back as multiples of 24 hours, and
midnight's hour is read as 24. `ActivityReport` is what one week's report then says.
`ForecastRun` has the page (`selected`, `plan`, `request`, `shown`), the stream and
the server's seven phases, three of them pools of chats.

### Scores, rules, plans, totals, lists

These are functions of the book in the code and operators here. Their modules hold
a few accounts or opportunities whose facts change one at a time, so that a
property can compare two books that differ in one fact (`SignalsFollow`,
`OverrideDecides`) as well as two functions on one book. `Workbench`,
`QuarterFilter` and `ListPages` add the URL, the stored choice and the React state
around them.

## 3. What the runs check

Distinct states in parentheses. A property that ends in `Inv` is a conjunction; its
conjuncts are named in brackets.

**`queue_workers`** (1.8 million): two workers that may boot at any time, two
overlapping POSTs, two jobs and two runs, retention 1, refreshes that may outlive
the reaper's hour; symmetric in workers and POSTs. `OneRunnerPerJob`,
`ClaimedInOrder`, `FinishedStaysFinished`, `LiveJobShowsRunning` and
`ImplementsWorkQueue`: the claim hands each job to one worker, in order, although
any of them boots and reaps meanwhile. Two of everything is the smallest instance
in which a job can be taken from somebody or overtake another; more is left to
the proofs, which bound nothing.

**`queue_tool`** (1.5 million): a worker and the tool refresh and prune each
other's runs with retention 1, through one crash: `SuccessIsPublished`,
`OneJobPerRun`. Three runs with retention 1 let a run be pruned between any two
steps of its own refresh.

**`queue_one_worker`** (648 thousand): one worker, no tool, two POSTs that may
overlap, three jobs, one crash. `OverlapBoundsActive`: of the look-up and the INSERT
of a POST only this remains, that there are never more active jobs than POSTs that
overlap; two may both find none. `PruneNotRefused` needs a single refreshing process
(it fails with two). `WakingWorkerClaims` is liveness: a job queued while a worker boots,
drains or has a notification waiting is claimed.

**`queue_nil_uuid`**, **`queue_lost_wakeup`** and **`slack_twice`** violate
`RunningIsOwned`, `ListeningWorkerClaims` and `SentOnce`; see section 6.

**`slack`** (872 thousand), a sum. Sends: two handlers, one customer channel and one
test recipient, a restart into or out of the read-only environment or one failing
write, three audit rows, the last of which is an outcome: two previews are
enough for handlers to meet on one of them and for a row to outlive another's
preview. `SendInv` [`SentIsDelivered`, `DeliveredAsPreviewed`, `NoneBehindClosedGate`,
`ActedOnOnce`: of a preview there is one message and one outcome at most, unless two handlers
were past their check of it together, or a restart or failed write cut one short],
`SettledStaysSettled`.
Mappings: two accounts, two channels, two requests, one validation per refresh,
two changes from outside. `MappingInv` [`OverrideKept`, `ClearedIsGone`,
`BudgetRotates`], `RowsStaySettled` [`DeadStaysDead`, `NoFlipFlop`]. A budget of one
for two accounts is what makes it rotate.

**`refresh_snapshots`** (3.3 million), a sum. Refreshes: two accounts, of which the
enrichers know one, all five adapters with any outcome, two refreshes, retention
1, a throw or a death anywhere. `RunsInv` [tables well formed, `ServedIsWhole`, every
account kept has its franchise], `FreshnessAdvances`, `BookIsKept` [`NoneLeaves`,
`ChurnCarried`], `ServedSurvives`. Two refreshes are what the properties relate: a
served snapshot and its successor. Tokens: two runs of the scripts, two tenants
of which one rotates its grants, two clients, two consents, one use, one accident:
`TokenInv` [`GrantIsKept`, `TokenIsAsked`]; a run that looks a token up goes through its
sources with or without one that `GLEAN_TOKEN_SOURCE` forces. Loads: three refreshes over
three days, two of them kept, a baseline one day back, values 0 to 2 of which 0 is unset, so that
a value can change into another (`Differ`): `LoadInv` [`EventsAreTrue`,
`ViewsAreNotNewer`, `ChangesLeadForward`, `QuietLoad`].

**`refresh_fetch`** (182 thousand): one adapter that sweeps, one without Glean, the
deferred pair, coordinated or not, one slot, two tries, one account each.
`FetchInv` [`SlotsAccounted`, `OnlyAbandonedReportLate`, `NothingForgotten`],
`NobodyWaitsForever` [`FetchPhaseEnds`, `WaitersServed`]. One slot makes every
waiter wait for a named holder; more slots make less happen.

**`server_jobs`** (257 thousand), a sum. Three CTA generations with room for two
and a map of two: `CtaJobsInv` [`RunningBounded`, `AliveIsTracked`]. A bulk job over three
accounts in batches and chunks of two (a full chunk, a rest, a second batch), two
manual refreshes of the first account, two failures or restarts: `PlansInv`
[`FinishedIsWhole`, `OneManualRefresh`, `RefusedForCause`]. Two snapshot jobs at five
hours: a Friday before and at its end of day, the Monday after the clocks go forward
in its first hour, a Friday's first hour, and the last hour of
the Monday after they go back: `WeeklyInv` [`OneSnapshotRuns`, `DoneIsOnDisk`,
`WeekIsOver`, `WeeksMeet`]. A forecast generation for two quarters with pools of
three and two chats at a time (a pool starts no more workers than half of its
accounts, rounded up), and two refreshes: `ForecastRunInv`
[`PoolAnswersAll`, `PlansKeepTheirQuarter`, `TrajectoryEndsAtScript`]. All of them:
`EndsAreFinal` [`DoneIsTrue`, `RunningIsKept`, `FinishedIsFinal`, `ReportsOnce`, `CutStops`]
and `JobsEnd` [`ReportedJobEnds`, `RoomReturns`, `StartedJobEnds`, `GenerationEnds`]: a CTA
job whose process has ended does not go on running, and the room that hanging processes
take is there again for the next POST.

**`pages`** (406 thousand), a sum. Two views of two pages and four operations:
`PageInv` [`ShownIsAsked`, `OwnWritesShown`, `LoadingIsTrue`]. Two customers and
seven acts in the panel: `ComposeInv` [`OneActAtATime`]. Two cards with two statuses
and four changes: `BoardInv` [`BoardShowsTheLog`, `CrossedByAnother`]. Two
components, two jobs, two requests, a poll that may fail and a server that may
forget: `WatchInv` [`OneLoop`, `SubscribersWatchTheJob`], `ToldOnce`,
`SubscriberHears`. A second job is needed for a subscription to replace a session,
a second component to outlive it.

**`figures`** (1.2 million), a sum of the modules about data and the CTA log.

* `LogInv` [`ProgressKept`, `CardsAreTracked`, `OneCardPerKey`, `DocumentShowsNewest`,
  `OneGeneration`]: one subject, three days with a deduplication window of one, three
  writes and three updates, and a scanner that overlaps the board's rewrites of the
  file. Three days let a line leave the window while a younger one stays in it. Two
  scans that overlap, and two subjects of which a filtered scan takes one, are left
  to the theorem, which bounds neither.
* `FiguresInv`. Rules [`OneRenewal`, `DeadlineFits`, `LostIsLeftAlone`, `GateIsMild`,
  `PassedOverForCause`]; plans [`ActionsCite`, `BlockersActedOn`, `AtRiskActedOn`,
  `PositiveIsClean`]; totals [`RowsLose`, `ListsApart`, `NotAskedTwice`,
  `GapsExplained`, `OneColour`, `WeekIsTold`]; metrics [`NothingCountedTwice`,
  `BridgeCloses`, `TrendAddsUp`, `PushedStays`, `LossIsShown`, `ThreatIsListed`,
  `BucketsMeet`, `AgreesWithScript`]; calendar [`CopiesAgree`, `BucketsPartition`],
  through 2038; the week's report [`ListedByValue`, `GleanIsTold`, `MembersAgree`,
  `NobodysWork`, `VerdictsAgree`, `CoverageIs`, `MotionHelps`].
* `ScreensInv`. Quarter filter [`LinksAreRepaired`, `BoxesTellTheRows`, `LastClickWins`,
  `NeverMixed`]; workbench [`ModeOfTheUrl`, `TileIsOnScreen`, `CountsTellTheTable`,
  `StatusesPartition`, `ViewTellsTheSort`, `ColumnsStay`]; lists [`TilesAddUp`, `QueueIsFair`,
  `ChangesAreCounted`, `QualityOnlyAges`, `BoxesTellTheWorklist`,
  `CardsCountTheAccounts`, `LinkedRenewalIsListed`, `StagesLeadToRows`,
  `SectionsHoldTheAccounts`]; imports [`ResultOfFile`, `LinkedForCause`, `AcceptedWasSet`,
  `AnswersAddUp`, `DiagnosisTells`, `ListsShowLive`]; editor [`TextsAreKept`,
  `TaggedIsMentioned`, `SpeaksToTheRightOne`].
* `SignalsFollow` [`TroubleShows`, `TimeDarkens`, `PlanFollows`]: an account that gets
  worse in one respect never gets a lower risk score or level, or a better plan,
  and days that merely pass put out no dark signal and add no confidence.
* `OverrideDecides`: while a manager's override is set, the representative's
  most likely amount and the change of contract value move neither a total of the quarter,
  nor the header, nor the lists that save and hedge. An edit of the forecast category
  may: it decides which rows count.

Where a property holds only outside some circumstance that the code lets happen
(two requests that cross, an answer that is lost), a history variable records the
circumstance and the property excludes exactly it; section 6 tells what
happens inside.

Deadlock is not checked: every model may stop, for nobody is bound to click, and
the bounds stop it at the latest.

## 4. Fairness

* `RefreshQueue`: weak fairness of a worker's next step, of handling a delivered
  notification, of a refresh's next step and of the two remaining queries of a POST
  that has begun: processes that are up run on. Nothing makes a process boot, a
  user click or an hour pass. Where a query may fail or succeed, one of the two
  happens.
* `RefreshFetch`: weak fairness of what is ready, of timers and of Glean requests:
  Node's fetch gives up a silent server after five minutes. Nothing bounds the
  coordinated pair but its loops' own ends: it is not raced against
  `ADAPTER_TIMEOUT_MS`.
* `JobWatch`: weak fairness of the poll loop (its timer fires, its request is
  answered or fails) and strong fairness of the deadline, which is a comparison
  with the clock at every round and so cannot be passed over for ever.
* `CtaJobs`: a process that has ended is reported, and time passes. Nobody is
  assumed to ask for a job: the only poller gives up at 40 minutes, and a job is
  overdue at 60 (`cta-generation-jobs.ts:54`). So a job whose process hangs may show
  as running for ever, and what is checked is that it does not keep others out.
* `AccountPlans`: weak fairness of the drain and of the generations of its items:
  the collectors' HTTP clients have timeouts, so every generation comes to an end.
* `ForecastRun`: weak fairness of the server's next step and of what arrives at a
  page that still listens; chats and queries end, well or badly.
* All other modules are checked for safety only.

In the runs with liveness, a bound must not stop what fairness promises: in
`queue_one_worker` the runs give out only when the last job has been claimed, and failing
steps of `AccountPlans` are never fair.

## 5. What is proved

All theorems hold for every value of the constants, restricted only by the named
assumption of the module (`QueueAssumption`, `SlackAssumption`, `CtaAssumption`,
`PlansAssumption`, `MappingAssumption`, `SnapshotAssumption`, `WatchAssumption`, `ComposeAssumption`,
`BoardAssumption`, `PageAssumption`, `GleanTokenAssumption`, `FetchAssumption`,
`LoadAssumption`, `ForecastAssumption`, `LogAssumption`, `EditorAssumption`,
`TeamsAssumption`, `TotalsAssumption`, `RiskAssumption`). These say that bounds
are natural numbers, that different kinds of processes are different, and the like:
no number of workers, rows, accounts, clicks, opportunities or failures is bounded
in them, except that the opportunities are finitely many. `TeamsAssumption`
says of the data that whoever is named has a name and that nobody is the AE and the CSE of one
account; `RiskAssumption` that accounts have the fields and types of
`CanonicalAccount` and `CanonicalOpportunity`, and that no date lies so far back that
the days of a behaviour make it "never" (`InTime`). TLC evaluates each assumption in
the runs.

| theorem | property | argument |
|---|---|---|
| `RefreshQueueProofs!TypeCorrect` | `TypeOK` | inductive as it stands |
| `OneRunner`, `InOrder` | `OneRunnerPerJob`, `ClaimedInOrder` | `HandOutInv` |
| `FinishedIsFinal` | `FinishedStaysFinished` | by the kinds of steps |
| `LiveJobsShow` | `LiveJobShowsRunning` | `HeldIsLive`, with `HandOutInv` |
| `QueueImplementsWorkQueue` | `ImplementsWorkQueue` | step simulation, with `HandOutInv` |
| `OverlappingPostsCoalesce` | `OverlapBoundsActive` | every INSERT uses up one look-up that found none |
| `LoneRefresherPrunes` | `PruneNotRefused`, if one process refreshes | nothing is linked between the two queries |
| `JobsHaveTheirOwnRuns` | `OneJobPerRun` | `LinkInv` |
| `SuccessShowsPublishedRun` | `SuccessIsPublished` | `PublishInv`, with `LinkInv` and `HandOutInv` |
| `RunsSound` | `RunsInv` | `RefreshIInv` |
| `FreshnessSound`, `BookSound`, `ServedRunSurvives` | `FreshnessAdvances`, `BookIsKept`, `ServedSurvives` | `RefreshIInv`; only `Complete` and `Prune` change which run is served |
| `FetchIsSound` | `FetchInv` | `FetchIInv` |
| `LoadsAreConsistent` | `LoadInv` | `LoadIInv` |
| `SlackProofs!TypeCorrect`, `SendIsSound` | `TypeOK`, `SendInv` | `IInv == Pointers /\ Truth /\ Once`, and `GateStep` |
| `SettledIsFinal` | `SettledStaysSettled` | nobody writes a row that has its outcome |
| `MappingsAreSound` | `MappingInv` | `MappingIInv` |
| `RowsAreSettled` | `RowsStaySettled` | `MappingIInv`, for a row that a refresh finds where it was |
| `CtaJobsSound` | `CtaJobsInv` | the table as a value, `Sound` and `ComesFrom` |
| `CtaJobsDoneIsTrue`, `CtaJobsRunningIsKept` | conjuncts of `EndsAreFinal` | the same |
| `PlansAreSound` | `PlansInv` | `PlansIInv == JobsInv /\ TurnsInv /\ CauseInv` |
| `PlansEndsAreFinal` | a conjunct of `EndsAreFinal` | `JobsInv` |
| `WeeklyIsSound` | `WeeklyInv` | `WeeklyIInv`, with the map as a value |
| `EndIsReportedOnce` | a conjunct of `EndsAreFinal` | `WeeklyIInv` |
| `ForecastIsSound` | `ForecastRunInv` | `ForecastIInv` |
| `CutEndsGeneration` | a conjunct of `EndsAreFinal` | by the kinds of steps |
| `WatchSound`, `WatchToldOnce` | `WatchInv`, `ToldOnce` | `WatchIInv` |
| `ComposeIsSound` | `ComposeInv` | `ComposeIInv` |
| `BoardIsSound` | `BoardInv` | `BoardIInv` |
| `TableIsSound` | `PageInv` | `TableIInv` |
| `LogIsSound` | `LogInv` | `LogIInv` |
| `TokenIsSound` | `TokenInv` | `TokenIInv` |
| `OverrideRules` | `OverrideDecides` | row by row: under an override no edit of the two fields changes what a row counts for |
| `TotalsHold` | `TotalInv` (in `FiguresInv`) | sums over finite sets, smallest wrong set |
| `SignalsHold` | `SignalsFollow` | `AccountsAreTyped`; part by part, for each way of getting worse |
| `EditorSound` | `EditorInv` (in `ScreensInv`) | `EditorIInv` |

### The queue

`OneRunnerPerJob` is not inductive: that the claim takes a queued job tells
nothing about who else might hold it. `HandOutInv` adds what makes it so. What a
process holds has left the queue (`HeldLeftQueue`), so a queued job is held by
nobody; ids are inserted in order (`InsertedInOrder`), so the oldest queued job
has no unclaimed predecessor. `StepKind` sorts the steps of the whole
specification into six kinds as seen from the jobs (enqueue, claim, reap,
succeed, age, and those that leave them alone), so that these proofs and the
refinement speak of six cases instead of some twenty-five actions. The
foreign key is visible in it: there is no kind for a job marked failed by its
worker (`NilUuidIsNoRun`), which is the finding of section 6.

In the refinement a reaped job that its worker completes later is a stutter: it
was closed and stays closed.

`OneJobPerRun` needs more than two jobs' links: a run is written by one process
(`OneWriter`), a link to a run that is still being written is that of its
writer's job (`LinkedByHolder`), a new run was known to nobody
(`KnownRunsOpened`), and an idle process holds nothing (`HoldsWhenAtWork`).
`PublishInv` adds that the steps after `completeRefreshRun` find the run completed or
pruned, and that a held job has not succeeded yet, so no link of a successful job
is ever moved to an unfinished run.

### The refresh

`latestSuccessfulRun` and the retention speak of the newest runs of a set. That
such a run exists, and how many are newer, would be an induction over the set; here
it follows from the ranks: each element has a rank, different elements have
different ones, so every rank up to the size is taken (`EveryRankIsTaken`,
`GreatestExists`, `GreatestMany`).

What `Merge` does is proved as lemmas about its operators, for any payloads: what
`mergeTwo` keeps of an account (`MergeAccountIs`), that it never makes data older
(`MergeFresher`), what the enrichments of several adapters leave
(`EnrichmentsMergedIs`), what Salesforce's authority removes and spares
(`AuthoritativeIs`), and so what is in a new snapshot (`NewSnapshotIs`).

`RefreshIInv` has six parts: `Types`; `RunsBooked`, that every run kept has booked
accounts only; `ServedWhole`; `RunProceeds`, that tables are written in the order of
the phases; `AdaptersAnswer`, that what an adapter has answered was derived from what
is served now (the served run cannot change while a refresh goes on, for one process
refreshes); and `NewKeepsUp`, which carries freshness and membership from the merge,
where they are decided, to `Complete`, several steps later, where they come into
force. Without the last two the action properties do not follow from a step alone.

### The fetch phase and the page loads

The limiter's count is the number of calls that hold a slot: `AcquireKeeps` and
`ReleaseKeeps` count the loops that a step moves into or out of the slots, for which
the queue must name each waiter once (`WaitersQueue`) and the coordinated pair must be
two loops (`FetchAssumption`). `FetchIInv` adds that a loop whose adapter returned
is at rest (`LoopsRest`), so that nothing but a loop given up at its time-out can
report late, and that the newest UPDATE under way has all that was marked
(`NothingLost`), which becomes `NothingForgotten` when the last one lands.

A page's chain of queries asks at different times of tables that are published and
pruned meanwhile. `LoadIInv` says of the runs that they are kept newest first and that
one is gone only when `KeptRuns` newer ones were started (`RunsInOrder`); of a chain,
which of its two runs it has at each query, that both were served, and that a read
found the run's value or nothing (`ChainsProceed`); and, while nothing is
published or pruned, that whatever it has found it would find again (`QuietSoFar`).
The refreshes change none of this (`RunsGoOn`), and a step of one chain leaves the other
alone (`ChainStep`).

### Slack sends

`TypeOK` is not inductive: that a handler's row exists depends on who appended what.
`Pointers` says who points where: handlers at rows (`HandlersPointAtRows`), rows at
earlier rows (`RowsPointBack`), messages at previews (`MessagesPointBack`). `HandlerEffect` sorts the handlers' steps by what they do to the three
tables, as `StepKind` does for the queue. `Truth` is that a handler about to record a success has had one
(`SuccessIsTrue`), so that a "sent" row has its message, in the channel that its
preview showed. `Once` is that an undisturbed preview has one handler past its check
(`OneAtATime`), that what the check found still holds (`FreshUntilRecorded`), and that
a message is recorded or about to be (`SendsAreAccountedFor`). Where two handlers act on one
preview nothing is claimed; that is where `SentOnce` is violated. That nobody is at
the call of Slack behind a closed gate is kept because only a restart changes the
environment, and a restart ends every handler (`GateStep`).

### Slack channel mapping

A refresh or sweep reads rows and sources first and writes each row much later, so an
override or a clear set meanwhile may be lost: the accounts where that can happen
are `overtaken`, and nothing is claimed of them. For the others `MappingIInv` says
what a request under way holds: copies of the rows as they are (`CopiesCurrent`) and,
as long as a cleared URL has not been offered again or the row is calm, of what the
sources say (`SourcesCurrent`). A calm row is the one that its sources would give
again (`CalmIsSettled`). `RowsStaySettled` follows for one step at a time.

`BudgetRotates` is a count. A clean refresh runs alone (`CleanAlone`), it passes over
an account only when its budget is spent, and what it spent it took out of the
accounts not heard of (`CleanCounts`), so each round takes `Budget` of them out until
none is left (`RoundsCount`). `CopiesFollow` carries this over the requests that are not
clean. Accounts must be finitely many for this; no other bound is used.

### CTA jobs and account plans

A GET of a CTA job prunes and reconciles the table before it looks, in several
passes. Each pass is a function from tables to tables; `Sound` says what a table
never is, `ComesFrom` what may have happened to a job between two tables, and both
pass through the composition. Eviction goes by age, for which the proof uses the
relation `before` and not a sequence.

For the account plans, `DrainOwns` ties the running drain to its job: what it has
counted as done or failed stays true because finished items rest, and the items it
has not counted are pending or at work in the drain's own chunk. `WorkIsRunning`
says that the job of a drain, or of a generation that a rejected chunk left behind,
is not finished unless its items are; hence a finished job is whole, and final.
`TurnsInv` is the argument for one manual refresh at a time: the look at the lock
and its INSERT are two queries, so it needs the premise `SerialChecks` that two
refreshes do not do both in between each other; `CauseInv` is that an entry of
`inFlight` and, if no query failed, a live lock each have a generation at work
behind them, which is why a refusal has a cause.

`WeeklyIInv`: a generation at work is that of the running job or of one that was
given up (`WorkIsShown`), so without one given up a single generation is at work,
and nothing finishes between its read and its writes (`ReadsAreCurrent`): it cannot
put older files over those of a finished job; its files stay whole in any case, since
one generation writes all four without an await. `WindowIs` is the arithmetic of
`resolveReportingWindow` for any hour and any two changes of the clocks: a window's date
is a Friday, except that it is the Thursday or Saturday beside one where the clocks changed
between the window's end and its making, around midnight. With
`WindowsEndInside` the windows of two dates a week apart meet within a day.

### The forecast page and its generation

`ForecastIInv` ties the page to the quarter a plan was typed for, at each of the places
where a plan may be: the field, the storage and the request under way
(`PlansAreTyped`). A pool of chats has somebody asking while accounts are queued
(`PoolMoves`), and `PoolAnswersAll` is then inductive. For the trajectory, the
refreshes that exist are in the order of their days and the generation has read a
prefix of them (`RefreshesAscend`); that the script's own totals are the trajectory's
end needs that nothing overlays them but the prefix's last refresh.

### The CTA log

`LogInv` speaks of moments when nobody writes. `LogIInv` says in six parts what
holds in between. `LogTypes` and `WriterTypes`: each file and each copy of it has
different moments for different lines of a key, and a scan's cards have one for each
key. `OneWriter`: a scan that is alone is the only writer, and while nothing got
mixed up every writer is. `SoleScans`: what such a scan has written is still there when it
goes on. `Regenerated`: nothing started since. `Clean`: while nothing got mixed up, a
copy is the log, and the log, or the copy that a full scan has while it is
removed, is `Sound`: later lines of a key are of later days (`Ascending`), the
newest has what the operator said (`Remembered`), and an older one is done or out of
the window (`OlderRest`).

The last of these is what makes the decision of a filtered scan right, which looks at
the newest *open* line of a key and not at the newest: an open line after an older
open one is of a later day, so the line it updates is the newest of all, unless the
operator has reopened an older one (`older`). `CardForFits` is that argument, and
`AppendIsSound`, `PatchIsSound` and `ReplaceIsSound` follow a file through the three ways of
writing it. That a key has a newest line at all is not an induction over the file:
moments are bounded numbers, and a set of these has a greatest element because
numbers are well-founded (`GreatestExists`).

### Pages

`WatchIInv` adds to `WatchInv` that a component with a subscription has not heard the
end of its job (`Unheard`). The lemmas follow the global session as a value through
`unsubscribe`, `sessionFor` and `subscribe`, each of which keeps a single loop alive.

`BoardShowsTheLog` is about quiet moments only; `BoardIInv` says what holds in
between: a card whose request is under way follows the log up to that request
(`CardFollows`), and there is one such request for a card unless its changes crossed
(`OneRequestEach`). That requests cross no oftener than other cards were changed
meanwhile is a count (`FreedByOthers`): a card is released early only by another
card's answer, because `statusBusyId` is one variable for all of them.

`TableIInv` for the mapping table: no answer under way is newer than the table's
(`NothingNewer`), there is at most one request that counts (`Alone`), it was made
after the operator's own writes (`ReadAfterWrites`) and for the view on the screen
(`InView`).

### Glean tokens

Scripts overlap and die between any two steps, so the saved grant is good only as
far as nobody else could have spent it. `TokenIInv`: a tenant accepts one grant of a
consent at a time and no file, entry or run has a later one (`NothingFresher`:
`LiveOnce`, `Bounded`), so that the successor of a grant is nobody's yet; a run that
has spent a grant holds its successor alone until it is saved (`HeldIsLive`,
`HeldAlone`); otherwise what is saved is accepted, unless `lost` names the tenant
(`SavedIsGood`). A login clears `lost` only where no other run still holds an older
entry to write back.

### The fields of the cards

`TextsAreKept` speaks of moments when no request is under way. `EditorIInv` says for each card
that nothing foreign disturbed what holds before and after its request is served: it has at most
one request, its own (`OneRequest`), which accounts for the difference between what a
person left, the log and the board (`RequestTells`); and a draft is what was left, but for an owner
cleared on the board or the field being typed in (`DraftIsLeft`). The proof
found that the type invariant said less than it was meant to: a conjunct was
aligned so that it belonged to a quantifier above it. It is aligned now.

### The totals of the weekly script

A total is a sum over a finite set, which the library defines by recursion on
an element that CHOOSE picks. What such a sum adds up to is an induction over
sets, and the library's induction theorems cannot be instantiated here. So it is
proved from a smallest counterexample: a set of fewest elements for which the
recursion has no solution, or two, or for which the sum of a part and of the rest is
not the whole (`SumExists`, `SumAgree`, `SumUnion`). Numbers are well-founded, so there
would be one; taking the picked element away gives a smaller one. With these
lemmas `RowsLoseHolds`, `ListsApartHolds` and the others are statements about
rows. The ten longest rows of a list exist and are ten, or all
(`FirstExists`), by the same argument over a strict order.

`ListsApart` says that the hedge shown under the header is within the header's
hedge. That is so only while no save target has a negative hedge: the header adds
every `forecastHedgeUSD`, the list shows the positive ones. Nothing in the code
keeps the amount from being negative, so the condition is part of the property,
and the run has books with a negative hedge.

### Scores, levels and plans

`SignalsFollow` compares an account with what it was one edit before. `AccountsAreTyped` is
the invariant (`RiskSorts`): the account has its fields, and room for the days the
remaining edits may let go by. `WorseHow` then takes the six ways of getting worse apart, each
with what it leaves alone (`SameBut`, `OppsAlike`, `Later`), and the score is compared
part by part (`PointsBelow`): the SLA of a commentary gets shorter as the mood gets
worse (`StaleMono`), the week-over-week points are clamped on both sides (`MoveMono`), and
division by weeks keeps the order (`DivMono`).

For the ranking, `Stands` says key by key where the later account is, and `StandsRanks`
that this suffices not to be outranked. The one exception is `Masked`, the first flag of
a Red account without a category, which the code takes from High to Medium. A plan's
renewal score is the sum over its findings; findings have titles of their own, so the
sum is that of the findings that apply (`BaseTaken`, `LateTaken`), and what got worse
leaves no finding out (`WorsePressed`). Its confidence loses points for signals that are
stale, weak or undated. Signals are in seventeen batches, no signal in two (`IdsHome`),
so that they can be counted batch by batch (`CountIs`); days change no signal and make
none fresher or more trusted (`BatchesFade`).

The proof found two things. The property allows days to go by while they pass no
renewal, but it counted a renewal due *today* as passed already, and the code does not: a
day later it is gone from the renewals ahead, and the plan may look better.
The premise is now "due more than n days ahead, or before today". And
`scoreUpsell` orders the four categories only; the model had a fifth place
for none, which its guards never let matter.

### What stays with TLC

Liveness (`WakingWorkerClaims`, `NobodyWaitsForever`, `JobsEnd`, `SubscriberHears`)
and anything with ENABLED are out of this prover's reach.
`FiguresInv` and `ScreensInv` are, as wholes, model-checked only: of their
conjuncts `TotalInv` and `EditorInv` are proved, the others (`CtaInv`, `PlanInv`,
`MetricsInv`, `CalendarInv`, `ReportInv`, and the lists, the quarter filter, the workbench and the imports)
are chains of rules and folds over rows of given books.

## 6. Where the code and its words disagree

Shown by a run each (`findings` in `PROJECT.json`):

* `queue_nil_uuid`: a refresh that throws should "mark job failed without a refresh
  id" (`main.ts:155`), but the nil UUID is no row of `refresh_runs` and the foreign
  key (`0001_init.sql:59`) refuses the UPDATE; the error is swallowed and the job
  stays `running` until a worker boots an hour later.
* `queue_lost_wakeup`: "listens for `refresh` notifications and runs the refresh
  pipeline" (`main.ts:1`), but a notification that arrives between the last empty
  claim and the end of the drain is dropped, as is one between the first drain
  and LISTEN; the job stays queued, and every later POST joins it without
  notifying anybody.
* `slack_twice`: "a row can be confirmed at most once"
  (`slack-send-service.ts:165`), but two confirmations in flight together both
  find no follow-up row and both send.

Met while modelling and not the subject of a run of their own. They are what the
history variables and premises of the properties exclude.

**Refreshes.**

* Two overlapping POSTs to `/api/refresh` both enqueue (`route.ts:78` and 94; the
  comment at 71-73 promises to coalesce). Their two queries are in the model: as many
  jobs may be active as POSTs overlap (`OverlapBoundsActive`), and `queue_workers` depends
  on it to get two jobs waiting at once.
* The baseline comes first "so unattended refreshes don't wipe state"
  (`orchestrate.ts:65`), but when the baseline's own fetch fails and another
  adapter answers without records, a run without the accounts is served
  (`UnattendedKeepsState` in `RefreshSnapshots`).
* When the prefetch finds a run but fails to read its accounts, the adapters get an
  empty list instead of falling back to their own look-up (`orchestrate.ts:505`,
  against the comment at 494-496), and change events may be computed against
  nothing.
* Enrichment of an opportunity by another adapter is lost whenever Salesforce
  answers: `applySalesforceAuthoritativeSnapshot` puts the raw Salesforce record
  in place of the merged one (`salesforce-authoritative.ts:79-82`).
* The coordinated pair is not raced against `ADAPTER_TIMEOUT_MS`, which
  `orchestrate.ts:105-119` and `.env.example:8-24` say bounds every adapter. What
  bounds it is Node's time-out of each request.
* The diff baseline is chosen for "meaningful WoW/multi-day diffs even when the user
  refreshes multiple times a day" (`db`, about 230), but `pruneOldRuns` keeps
  twelve runs, however many were made today; the fallback may be any run. The
  views and the events of one page may be of two runs, and the start and the
  changes page walk the chain twice.
* `attachToJob` after an unmount leaves a poll loop that nobody listens to
  (`RefreshButton.tsx:251`).

**Glean tokens.**

* `glean-refresh` is "safe to run from a cron / pre-job hook", but writes `.env`
  before it saves a rotated grant; a death in between, or a lost answer, loses the
  grant, and only a person can log in again.
* Two runs read the whole state file and write it back: two tenants' entries can
  overwrite each other, and a refresh begun before a revocation can overwrite a
  later login's grant. A torn file reads as an empty one.
* A login whose answer has no refresh token keeps the former grant under a new
  client, which the tenant does not accept.

**Slack.**

* A failing `audit_log` entry after a Slack message was sent and recorded adds a
  `failed` row (`slack-send-service.ts:256`) to a preview with a `sent` one.
* `previewSend` reports `sendAllowed` without looking at the read-only mode
  (`slack-send-service.ts:92`), which the confirmation then refuses, and treats any
  row with a channel id as usable.
* "Manual overrides are preserved across refreshes" (`slack-mapping.ts:374`), but a
  refresh or sweep that read the row before the override writes its own result
  after it. The comments on the `heuristic` source (507) and on inherited
  inaccessibility (517-519) do not say what the code does, a row that is known to
  be inaccessible stays so even when its channel is listed again, and the refresh
  route is not "pure-DB" (`api/slack/mappings/refresh/route.ts:8-12`).
* On the mapping page the `finally` of an aborted request puts out the loading sign
  of its successor; a reload after an operation asks for the view at the click,
  not the present one; `ComposePanel` has no key, so a preview survives the
  selection of another account, and text edited while a preview is under way is
  not the text that is sent.
* A refused upload, whose answer has no suggestions, crashes `ImportChannelsClient`
  into the error page; a file chosen while another is processed shows the old
  result under the new name; an accepted suggestion stays pending in the other
  panel; "no exact matches" is said when the exact match is archived; short names
  are prefixes of everything and suggest with 0.85; two accounts may be given one
  channel; the import page says that later sweeps run headless, the script never
  does.

**CTA generation, log and board.**

* A stale CTA job is marked failed without stopping its process, so there may be
  more processes than `CTA_JOB_MAX_CONCURRENT` (`cta-generation-jobs.ts:57`), and
  `putCtaJob` may exceed the size cap by one (167).
* A job becomes overdue at 60 minutes and only when somebody asks (54), but the one
  poller gives up at 40 (`cta-generation-job-watch.ts:111`): a job whose process hangs
  shows as running until the next POST or visit of the page.
* An update from the board that overlaps a scan, and a scan that dies between its
  rename and its writes, lose progress (it is still in the archive). A filtered scan
  overwrites the day's document, although `--account` "appends without clearing prior
  CTAs" (`cta-framework.md:126`): the board then falls back on the log and shows the
  first line of a key (`cta-data.ts:52`), which may be an old one that is done, with
  a newer open one behind it. Where the operator reopens an older line, filtered
  scans update that one from then on. The decision `update` is never written; two
  accounts with one slug share ids. One full scan that runs alone heals all of it.
* Text that is being typed while an answer takes its card out of the list is lost
  without a blur; a card mounted anew during a request keeps a stale draft, which
  its next blur sends; the first click after editing a field is lost, because the
  blur's request disables the buttons; an emptied owner is not sent; a refusal says
  nothing; `completed_at` stays after reopening. `dark_renewal` on a digital
  account asks its AE to "connect with the AE", and a due date set at creation is
  carried forward, so a later scan's deadline never shows.

**Account plans.**

* A bulk job whose drain is dropped because another runs, or whose server restarts
  first, stays `queued` with `started_at` NULL, and every later bulk refresh joins
  it (`bulk-refresh.ts:47`, `db` 815). The status `skipped` is unreachable: no
  reason of `checkExpand3Eligibility` has the texts that `bulk-refresh.ts:81` looks
  for. `clearStaleRefreshingPlans` has no caller, and
  `listEligibleExpand3AccountIds` does not look at eligibility.
* A plan may be at risk and have as its only action that "no critical risk signals"
  were detected; a score of -1 is `unknown`; a Critical category alone makes a
  high support risk without a support action; missing Cerebro data improves the
  outlook; more Glean documents lower the confidence and a failing Slack search
  raises it; "8.0 - Closed/Won" is open for CTAs and plans and closed for scores.

**Activity snapshots and reports.**

* The reporting window ends at the time of day of the generation, not "at the most
  recent Friday 5pm" (`window.ts:19`). "Walk back to the most recent Friday" (29)
  takes multiples of 24 hours off and formats the result in Denver's time, so in the
  first hour of a day after the clocks went forward, or in the last of one after they
  went back, the date may be the Thursday's or the Saturday's; and with `hour12: false`
  midnight's hour reads 24, so in a Friday's first hour the date is that Friday's,
  whose end of day is seventeen hours away. `WeekIsOver` says which dates can occur.
* `immutable: true` is written to a file that two
  routes overwrite; `force` and `skipped` are unused; a generation that was given
  up goes on and writes.
* Data coverage is Strong exactly when Glean found nothing, since finding something
  turns the calendar source from partial to skipped. Links found by Glean are dated
  by the last fetch, or by the account's last refresh if it was never asked for, so a
  refresh after the window's end loses them. A CTA
  merely written by a scan counts as customer-facing. A reassigned CTA counts for
  its owner by name and for the CSE by id, so the report says "Data not available"
  while the dashboard praises. A meeting that is indexed twice counts twice
  (`mergeActivities` is unused). `accountsStaleNextSteps` leaves out saveable
  accounts without activity.

**Scores and CTA rules.**

* The comment says "earliest non-closed renewal", the code counts closed and past
  ones (`buildAccountView`). A first flag on a Red account without a category
  lowers its level from High to Medium. "One point per true risk" is two, and
  "< 1/3" is one or two. `capCtas` sorts again by priority. A renewal due today has
  -1 days left. A Cerebro outage counts as an improvement (`wowDirectionSignal`).
  Future meetings count as recent. `confirmed_churn_retro` cannot come from a scan.

**Forecast and metrics.**

* `ForecastInput` and `ForecastClient` say that Clari's manager forecast and the
  churn flash are used; `renderQuarterSection` takes only plan and hedge from
  Clari. Known churn on an opportunity that is not a renewal is filtered out. The
  quarter universe is decided by an account's first row. "No movement this week"
  may stand above bullets. A fully saved renewal drops out of the improvements. A
  bare "Q2" matches every year's. Trajectories of a past quarter include later
  days.
* `generate()` of the forecast page stores the plan of the click when it ends, over
  one typed meanwhile ("saved per fiscal quarter ... so you only set it once per
  quarter"); a download is named after the quarter selected now; `generate()` has
  no catch, so a cut stream is an unhandled rejection; the prompt for mismatches
  asks for NONE where the parser then reports "no parseable brief".
* "Open renewals stay pending/pushed regardless of forecast shape" is wrong of
  `expanded`; the bridge does not close where one account mixes growth and loss;
  `latestClose` is the earliest; script and page differ on a negative delta.

**Calendar, filter, workbench, lists.**

* Unticking every quarter sets `__none__`; ticking one then gives `key,__none__`,
  which shows no rows, and with seven of eight is taken for all. The workbench
  takes `__none__` for its default. The scorecard's filter is pinned to the past
  while its page reads `?bucket=`. Clicks that overtake the first default or repair
  are lost. `rollingFiscalQuarters` skips quarters from the 31st.
* The workbench sets its mode at mount and by tabs only, so its own link in the
  navigation and Back leave a mode that is not the rows'; a CSE filter kept over a
  tab can empty the table in whose header alone it can be cleared; "Select all"
  hides rows without a CSE; "By ATR" stays lit for other sorts.
* Hygiene's size test takes stale rules for "all", and unticking the last box ticks
  all; cards count violations that the table does not show; the opportunities page
  should "always show the focused opp" (`app/opportunities/page.tsx:40`) and does
  not under a status filter; a column filter stays over a change of quarter; the
  accounts table's CSE filter has no control; `?` cannot be typed into the search.

## 7. Idealisations, and what is not modelled

* Ids stand for times: jobs and runs are inserted in the order of their timestamps.
* Two manual refreshes of an account plan check one after the other (`SerialChecks`),
  and there is one bulk job: with overlapping checks two do collect, which
  `OneManualRefresh` does not claim to exclude.
* `CseSnapshots`: things happen on the hour, and of the changes of the clocks there are one
  forward and one back.
* A generation of an account plan takes less than the half hour after which its
  lock row no longer counts (`AccountPlans!TimePasses`); the two hours of a bulk
  job may pass at any time.
* The immediate adapters of a refresh settle in execution order in
  `RefreshSnapshots`: nobody looks at one before all are there, and the merge goes
  by execution order. Their true interleaving is in `RefreshFetch`.
* The snapshot rows of an aborted run are forgotten, since nothing reads them.
* One process refreshes in `RefreshSnapshots`; concurrent refreshes are the subject
  of `RefreshQueue`.
* A Slack request that was accepted may have its answer lost; Slack never delivers
  twice by itself.
* `SlackMapping`: the reads of a refresh are one step, and so are an override's
  validation and write; accounts come in any order; a day passes only while nothing
  runs.
* `GleanToken`: `.env` is written whole and never read back; a tenant always or never
  rotates; a network error is a refusal.
* `PageLoads`: one thing stands for all accounts and opportunities; `getAccount`
  walks the same chain; the churn supplement is left out.
* `ForecastRun`: refreshes publish only up to the phase that reads; chats answer or
  fail, and how is left out; an abandoned generation does not overlap the next.
* `ImportChannels`: a request serves all its rows in one step; which of two equal
  scores wins is left open; the browser that a sweep drives is external.
* `QuarterFilter`: time goes by months, three quarters stand for the eight on offer;
  Back and other tabs are left out.
* `ForecastTotals`, `RenewalMetrics`: close dates are known, dollars are small
  numbers, a week is the difference of two books. `RiskScores`, `CtaRules`,
  `PlanEngine`: an account's facts change one at a time, and both Glean searches
  find the same documents. `ActivityReport`: one word per title, names without
  variant spellings.
* `CtaBoard`: the timer that clears a message and a second generation started by a
  double click are left out. `CtaEditor`: expanding, copying and wording are left
  out but for whom a message speaks to. `ListPages`, `Workbench`: the order of rows
  is left out where it is sorted by what is shown.

Components that are modelled in part are marked so in `PROJECT.json`, with what is
missing: change events and KPIs of a refresh, the wording of forecasts and prompts,
HTTP, SOQL and field mapping of the adapters, and the mapping of rows in the web
read model. Not modelled: operator tools, rendering and parsing of documents,
charts and the look-up of credentials. They are I/O or layout, without state that
two steps share.

## 8. Plan

Done: all modules of section 2 and the theorems of section 5, which cover every
module about processes, the fields of the cards and the totals of the weekly script.
The other modules about data stay with TLC.

## 9. Running it

`tlc -config <name>.cfg MC<module>` for the runs listed in `PROJECT.json`, and
`tlapm <module>Proofs.tla` for each of the eight proof modules.
