------------------------------ MODULE Workbench ------------------------------
(* The renewal workbench (app/renewal-analysis): the server sends the rows *)
(* of the quarters in the URL, the client keeps its own mode and filters   *)
(* and shows a table, tiles and breakdowns of the rows that are there.     *)
(* The mode changes with the click, the rows when the navigation lands.    *)
EXTENDS RenewalMetrics, SequencesExt

CONSTANTS
  Today,       \* the day the pages are looked at
  Periods,     \* what the URL can ask for: a bucket and its quarters
  CseOf,       \* the CSE of each account, "none" if nobody
  MaxTouches   \* bound: what the manager does in one behaviour

VARIABLES
  period,      \* of the rows on the screen
  coming,      \* the periods on their way: one or none
  mode,        \* "prospective" (pipeline) or "retrospective" (quarter close)
  kpi, outcomes, cses, levels, statuses, showClosed,   \* the filters
  drilldown, sort,
  touches,     \* what the manager has done so far
  strayed      \* history: the URL has changed without the mode

deskVars == <<period, coming, mode, kpi, outcomes, cses, levels, statuses, showClosed, drilldown, sort, touches, strayed>>
filters == <<kpi, outcomes, cses, levels, statuses, showClosed>>

DefaultPeriod(bucket) == [bucket |-> bucket, of |-> {Today \div 90 - (IF bucket = "prospective" THEN 0 ELSE 1)}]
Retrospective == {"flat", "downsell", "full_churn", "expanded"}
Presets == [date |-> <<"renewalDate", "asc">>, atr |-> <<"atr", "desc">>, health |-> <<"health", "desc">>]
Fields == {"renewalDate", "atr", "health", "cse"}

-----------------------------------------------------------------------------
(* What the page computes from the rows it was sent.                       *)

LookedAt(p) == IF Cardinality(p.of) = 1 THEN AsOf(CHOOSE q \in p.of : TRUE, Today) ELSE Today
AllRows == RowsOf(period.of)
OpenRows == {d \in AllRows : OpenRow(d)}
Scope == IF showClosed THEN AllRows ELSE OpenRows
AccountRows == Accounts(AllRows)
OutcomeOf(d) == OutcomeOn(d, LookedAt(period))
OutcomeOfAccount(a) == AccountOutcome(OfAccount(AllRows, a), LookedAt(period))
LevelOf(a) == book.health[a].category        \* "none": not synced
StatusKey(d) == Status(d, LookedAt(period))

StatusCount(k) ==
  IF k = "known_churn" THEN Cardinality(KnownRows(period.of))
  ELSE Cardinality({d \in Scope : StatusKey(d) = k})
Breakdown == {k \in {StatusKey(d) : d \in Scope} \cup {"known_churn"} : StatusCount(k) > 0}
LevelsShown == {LevelOf(Holder[d]) : d \in Scope}

(* The tiles of each mode, and what they count where it is renewals or     *)
(* accounts.                                                               *)
Tiles ==
  IF mode = "prospective" THEN {"pipeline", "pushed", "at_risk", "upcoming_30", "atr_up", "known_churn"}
  ELSE {"atr_up", "renewed", "churned", "full_churn_rate", "downsell_rate", "grr", "known_churn"}
TileCount(k) ==
  LET m == Metrics(period.of, LookedAt(period)) IN
  CASE k = "pipeline" -> Cardinality(OpenRows)
    [] k = "pushed" -> m.pushed
    [] k = "at_risk" -> Cardinality(AtRisk(AllRows))
    [] k = "upcoming_30" -> Cardinality(DueWithin(AllRows, 30, Today))
    [] k \in {"churned", "full_churn_rate"} -> Cardinality(With(AllRows, "full_churn", LookedAt(period)))
    [] k = "downsell_rate" -> Cardinality(With(AllRows, "downsell", LookedAt(period)))
    [] k = "known_churn" -> Cardinality(KnownRows(period.of))
    [] OTHER -> IF mode = "prospective" THEN Cardinality(Scope) ELSE m.accounts

(* The rows of the table: opportunities in the pipeline, accounts after    *)
(* the quarter's close.  A row without a CSE is in no choice of CSEs.      *)
OfChosen(a) == (cses = {} \/ CseOf[a] \in cses \ {"none"}) /\ (levels = {} \/ LevelOf(a) \in levels)
FilteredOpps ==
  {d \in Scope :
    /\ kpi = "pipeline" => OpenRow(d)
    /\ kpi = "pushed" => OutcomeOf(d) = "pushed"
    /\ kpi = "at_risk" => d \in AtRisk(AllRows)
    /\ kpi = "upcoming_30" => d \in DueWithin(AllRows, 30, Today)
    /\ OfChosen(Holder[d])
    /\ statuses = {} \/ StatusKey(d) \in statuses}
FilteredAccounts ==
  {a \in AccountRows :
    /\ kpi \in {"churned", "full_churn_rate"} => OutcomeOfAccount(a) = "full_churn"
    /\ kpi = "downsell_rate" => OutcomeOfAccount(a) = "downsell"
    /\ outcomes = {} \/ OutcomeOfAccount(a) \in outcomes
    /\ OfChosen(a)}
Table ==
  IF kpi = "known_churn" THEN KnownRows(period.of)
  ELSE IF mode = "prospective" THEN FilteredOpps ELSE FilteredAccounts

(* The table with its headers is there only if it has rows, the breakdowns *)
(* only in the pipeline.                                                   *)
HasHeaders == kpi # "known_churn" /\ Table # {}
HasBreakdowns == mode = "prospective" /\ AllRows # {}
HolderRows == IF mode = "prospective" THEN {Holder[d] : d \in AllRows} ELSE AccountRows
CseOptions == {CseOf[a] : a \in HolderRows} \ {"none"}
LevelOptions == {LevelOf(a) : a \in HolderRows}

-----------------------------------------------------------------------------
(* The page is opened by a link; the sort is what the browser has kept.    *)
DeskInit ==
  /\ period \in Periods /\ coming = <<>> /\ mode = period.bucket
  /\ kpi \in {"all", "known_churn"}
  /\ outcomes \in {{}} \cup {{o} : o \in Retrospective}
  /\ cses = {} /\ levels = {} /\ statuses = {} /\ showClosed = FALSE
  /\ drilldown = "atr" /\ sort \in {Presets.atr, <<"cse", "asc">>}
  /\ touches = 0 /\ strayed = FALSE

Touch == touches < MaxTouches /\ touches' = touches + 1
Stay == Touch /\ UNCHANGED <<period, coming, mode, strayed>>
Flipped(S, x) == IF x \in S THEN S \ {x} ELSE S \cup {x}

(* The tabs: the mode and its filters at once, the rows by navigation.  The*)
(* CSEs and the closed renewals stay chosen.                               *)
(* Mutant: the tile that was chosen in the other mode stays chosen.        *)
ChangeModeKeepingKpi(bucket) ==
  /\ Touch
  /\ mode' = bucket /\ outcomes' = {} /\ levels' = {} /\ statuses' = {}
  /\ coming' = <<DefaultPeriod(bucket)>> /\ strayed' = FALSE
  /\ UNCHANGED <<period, kpi, cses, showClosed, drilldown, sort>>
ChangeMode(bucket) ==
  /\ Touch
  /\ mode' = bucket /\ kpi' = "all" /\ outcomes' = {} /\ levels' = {} /\ statuses' = {}
  /\ coming' = <<DefaultPeriod(bucket)>> /\ strayed' = FALSE
  /\ UNCHANGED <<period, cses, showClosed, drilldown, sort>>

(* Other ways to another period: the quarter filter, which starts from the *)
(* URL on the screen, and the links and the browser's Back, which leave a  *)
(* page that is mounted mounted.                                           *)
PickQuarters(p) ==
  /\ p.bucket = period.bucket /\ p # period
  /\ Touch /\ coming' = <<p>> /\ strayed' = (strayed \/ p.bucket # mode)
  /\ UNCHANGED <<period, mode, filters, drilldown, sort>>
Follow(p) ==
  /\ Touch /\ coming' = <<p>> /\ strayed' = (strayed \/ p.bucket # mode)
  /\ UNCHANGED <<period, mode, filters, drilldown, sort>>
RowsArrive ==
  /\ coming # <<>> /\ period' = coming[1] /\ coming' = <<>>
  /\ UNCHANGED <<mode, filters, drilldown, sort, touches, strayed>>

(* The filters.  A tile replaces a tile and leaves the rest; a status      *)
(* takes back the tile, known churn among them the statuses.               *)
ClickTile(k) ==
  /\ k \in Tiles /\ Stay /\ kpi' = IF kpi = k THEN "all" ELSE k
  /\ UNCHANGED <<outcomes, cses, levels, statuses, showClosed, drilldown, sort>>
ToggleStatus(k) ==
  /\ HasBreakdowns /\ k \in Breakdown /\ Stay
  /\ IF k = "known_churn" THEN kpi' = (IF kpi = k THEN "all" ELSE k) /\ statuses' = {}
     ELSE kpi' = "all" /\ statuses' = Flipped(statuses, k)
  /\ UNCHANGED <<outcomes, cses, levels, showClosed, drilldown, sort>>
ChooseLevels ==
  /\ Stay
  /\ \/ \E c \in LevelsShown : HasBreakdowns /\ levels' = Flipped(levels, c)
     \/ \E c \in LevelOptions : HasHeaders /\ levels' = Flipped(levels, c)
     \/ HasHeaders /\ levels' \in {{}, LevelOptions}
  /\ UNCHANGED <<kpi, outcomes, cses, statuses, showClosed, drilldown, sort>>
ChooseCses ==
  /\ HasHeaders /\ Stay
  /\ cses' \in {Flipped(cses, c) : c \in CseOptions} \cup {{}, CseOptions}
  /\ UNCHANGED <<kpi, outcomes, levels, statuses, showClosed, drilldown, sort>>
ToggleOutcome(a) ==      \* the outcome in the row of an account
  /\ mode = "retrospective" /\ HasHeaders /\ a \in Table /\ Stay
  /\ outcomes' = Flipped(outcomes, OutcomeOfAccount(a))
  /\ UNCHANGED <<kpi, cses, levels, statuses, showClosed, drilldown, sort>>
ToggleClosed ==
  /\ HasBreakdowns \/ (mode = "prospective" /\ kpi # "known_churn")
  /\ Stay /\ showClosed' = ~showClosed
  /\ UNCHANGED <<kpi, outcomes, cses, levels, statuses, drilldown, sort>>

(* Mutant: the buttons of the views are not told.                          *)
HandleSortKeepingView(f) ==
  /\ HasHeaders /\ Stay
  /\ sort' = <<f, IF sort[1] = f /\ sort[2] = "desc" THEN "asc" ELSE "desc">>
  /\ UNCHANGED <<filters, drilldown>>
HandleSort(f) ==
  /\ HasHeaders /\ Stay
  /\ sort' = <<f, IF sort[1] = f /\ sort[2] = "desc" THEN "asc" ELSE "desc">>
  /\ drilldown' = "atr" /\ UNCHANGED filters
ApplyDrilldown(v) ==
  /\ HasHeaders /\ Stay /\ drilldown' = v /\ sort' = Presets[v] /\ UNCHANGED filters

DeskNext ==
  \/ \E p \in Periods : ChangeMode(p.bucket) \/ PickQuarters(p) \/ Follow(p)
  \/ RowsArrive
  \/ (\E k \in Tiles : ClickTile(k)) \/ (\E k \in Breakdown : ToggleStatus(k))
  \/ ChooseLevels \/ ChooseCses \/ ToggleClosed
  \/ \E a \in AccountRows : ToggleOutcome(a)
  \/ (\E f \in Fields : HandleSort(f)) \/ (\E v \in DOMAIN Presets : ApplyDrilldown(v))

-----------------------------------------------------------------------------
(* The layout of the pipeline's columns, kept in the browser: whatever was *)
(* kept by an older page, its columns that still exist keep their order    *)
(* and the new ones follow.                                                *)

Without(s, x) == SelectSeq(s, LAMBDA y : y # x)
Normalized(order, columns) ==
  LET once == SelectSeq(order, LAMBDA x : x \in Range(columns))
      first == SelectSeq([i \in DOMAIN once |-> <<i, once[i]>>], LAMBDA p : \A j \in 1..(p[1] - 1) : once[j] # p[2])
      kept == [i \in DOMAIN first |-> first[i][2]]
  IN  kept \o SelectSeq(columns, LAMBDA x : x \notin Range(kept))
IndexOf(s, x) == CHOOSE i \in DOMAIN s : s[i] = x
(* Mutant: the place is looked up after the column was taken out.          *)
ReorderAfterwards(order, from, to) ==
  IF from = to THEN order ELSE InsertAt(Without(order, from), IndexOf(Without(order, from), to), from)
Reorder(order, from, to) ==
  IF from = to THEN order ELSE InsertAt(Without(order, from), IndexOf(order, to), from)
(* A width that is missing or too small is the default one.                *)
MinWidth == 72
WidthOf(kept, default) == IF kept < MinWidth THEN default ELSE kept
Resized(start, delta) == Max({MinWidth, start + delta})

-----------------------------------------------------------------------------
DeskSettled == coming = <<>>

(* Once its rows are there, the page is in the mode of the URL, unless the *)
(* URL was changed by other means than the tabs.                           *)
ModeOfTheUrl == DeskSettled /\ ~strayed => mode = period.bucket

(* The tile that is chosen is on the screen, so it can be taken back.      *)
TileIsOnScreen == kpi \in Tiles \cup {"all"}

(* The table has as many rows as the chosen tile or status counts, where   *)
(* nothing else is chosen: also with the closed renewals shown, and though *)
(* tiles and rows are counted by the server and by the client.             *)
CountsTellTheTable ==
  LET alone == cses = {} /\ levels = {} /\ (mode = "retrospective" => outcomes = {}) IN
  /\ alone /\ kpi # "all" /\ (kpi = "known_churn" \/ statuses = {}) => Cardinality(Table) = TileCount(kpi)
  /\ alone /\ kpi = "all" /\ Cardinality(statuses) = 1 /\ mode = "prospective" =>
       Cardinality(Table) = StatusCount(CHOOSE k \in statuses : TRUE)

(* Every renewal of the scope is in one status of the breakdown.           *)
StatusesPartition ==
  mode = "prospective" =>
    MapThenSumSet(StatusCount, Breakdown \ {"known_churn"}) = Cardinality(Scope)

(* The button of a view is lit only if the table is sorted that way; By    *)
(* ATR stands for every other order.                                       *)
ViewTellsTheSort == drilldown # "atr" => sort = Presets[drilldown]

(* The columns are all there once, whatever was kept, and a column that is *)
(* dragged takes the place of the one it is dropped on.                    *)
ColumnsStay ==
  LET columns == <<"account", "cse", "status", "cta">>
      kept == UNION {[1..n -> {"account", "cse", "cta", "gone"}] : n \in 0..3}
  IN  \A old \in kept :
        LET order == Normalized(old, columns) IN
        /\ Len(order) = Len(columns) /\ Range(order) = Range(columns)
        /\ Normalized(order, columns) = order
        /\ \A from, to \in Range(columns) :
             LET moved == Reorder(order, from, to) IN
             /\ Range(moved) = Range(columns) /\ Len(moved) = Len(columns)
             /\ IndexOf(moved, from) = IndexOf(order, to)
             /\ Without(moved, from) = Without(order, from)
        /\ \A start \in {88, 200}, delta \in {-150, -16, 0, 40} :
             WidthOf(Resized(start, delta), start) = Resized(start, delta)

DeskInv == ModeOfTheUrl /\ TileIsOnScreen /\ CountsTellTheTable /\ StatusesPartition /\ ViewTellsTheSort
=============================================================================
