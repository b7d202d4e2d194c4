---------------------------- MODULE QuarterFilter ----------------------------
(* The fiscal quarter filter (components/FiscalQuarterFilter.tsx) of the   *)
(* pages: a set of quarters in the URL, the last choice in localStorage,   *)
(* two effects that repair the URL, and the server that renders rows for   *)
(* the URL that has arrived.  What is clicked while a navigation is under  *)
(* way starts from the URL on the screen, and supersedes it.               *)
EXTENDS FiscalCalendar

CONSTANTS
  Links,       \* sets of quarters in links and bookmarks
  MaxClicks,   \* bound: clicks of one behaviour
  EndOfTime    \* bound: the last month

VARIABLES
  page,      \* "list" (accounts, opportunities, ...), "scorecard" or "workbench"
  url,       \* bucket: ?bucket= or ?view=, quarters: {} for no parameter
  landing,   \* the URLs on their way: one or none
  options,   \* the month in which the list of the filter was made
  effects,   \* effects of the last commit that have not run
  stored,    \* localStorage, by bucket; {}: nothing valid
  storing,   \* whether localStorage works
  rows,      \* the quarters of the rows on the screen, and the month they are of
  clicked,   \* clicks so far
  asked      \* history: what the last click asked for, while it can be said

filterVars == <<page, url, landing, options, effects, stored, storing, rows, clicked, asked, thisMonth>>

Unasked == [known |-> FALSE, touched |-> TRUE, quarters |-> {}]
Untouched == [Unasked EXCEPT !.touched = FALSE]
Asked(Q) == [known |-> TRUE, touched |-> TRUE, quarters |-> Q]

(* The bucket: a toggle on the lists, pinned on the other two pages.       *)
BucketOf(p, u) ==
  IF p = "scorecard" THEN "retrospective" ELSE u.bucket
ActiveBucket == BucketOf(page, url)
KeysAt(m, bucket) ==       \* fiscalQuarterOptionsForBucket at a month
  LET current == QuarterFromDate(m) IN
  IF bucket = "prospective" THEN Enumerated(current, Onward[Width - 1, current])
  ELSE Enumerated(Backward[Width - 1, Previous(current)], Previous(current))
AllKeys == KeysAt(options, ActiveBucket)

(* What each page shows for a URL.                                         *)
RowsFor(p, u) ==
  CASE p = "list" -> ScopedTo(u.quarters, u.bucket)
    [] p = "scorecard" -> IF u.quarters = {} THEN {Default(u.bucket)} ELSE ScopedTo(u.quarters, u.bucket)
    [] p = "workbench" -> Effective(u.quarters, u.bucket)

Checked == IF url.quarters = {} THEN AllKeys ELSE AllKeys \cap url.quarters

-----------------------------------------------------------------------------
FilterInit ==
  /\ page = "list" /\ url = [bucket |-> "prospective", quarters |-> {}]
  /\ landing = <<>> /\ options = thisMonth /\ effects = {"default", "drop"}
  /\ stored = [b \in QuarterBuckets |-> {}] /\ storing \in BOOLEAN
  /\ rows = [of |-> RowsFor(page, url), month |-> thisMonth]
  /\ clicked = 0 /\ asked = Untouched

(* A page is opened: its filter is mounted and runs both effects.          *)
OpenPage(p, bucket, Q) ==
  LET u == [bucket |-> bucket, quarters |-> Q] IN
  /\ clicked < MaxClicks /\ clicked' = clicked + 1
  /\ p = "scorecard" => bucket = "retrospective"
  /\ page' = p /\ url' = u /\ landing' = <<>> /\ options' = thisMonth
  /\ effects' = {"default", "drop"}
  /\ rows' = [of |-> RowsFor(p, u), month |-> thisMonth]
  /\ asked' = Untouched
  /\ UNCHANGED <<stored, storing, thisMonth>>

(* The effect for an empty parameter: what was stored for this bucket and  *)
(* is on the list, or else the default.                                    *)
(* Mutant: stored quarters are not checked against the list.               *)
RestoreUnchecked ==
  /\ "default" \in effects /\ effects' = effects \ {"default"}
  /\ landing' = IF url.quarters # {} THEN landing
                ELSE <<[url EXCEPT !.quarters = IF stored[ActiveBucket] # {} THEN stored[ActiveBucket] ELSE {Default(ActiveBucket)}]>>
  /\ UNCHANGED <<page, url, options, stored, storing, rows, clicked, asked, thisMonth>>
Restore ==
  LET valid == stored[ActiveBucket] \cap AllKeys IN
  /\ "default" \in effects /\ effects' = effects \ {"default"}
  /\ landing' = IF url.quarters # {} THEN landing
                ELSE <<[url EXCEPT !.quarters = IF valid # {} THEN valid ELSE {Default(ActiveBucket)}]>>
  /\ UNCHANGED <<page, url, options, stored, storing, rows, clicked, asked, thisMonth>>

(* The effect of another bucket or list: drop what is not on it.           *)
DropForeign ==
  LET valid == url.quarters \cap AllKeys IN
  /\ "drop" \in effects /\ "default" \notin effects /\ effects' = {}
  /\ landing' = IF url.quarters \in {{}, {NoneKey}} \/ url.quarters \subseteq AllKeys THEN landing
                ELSE <<[url EXCEPT !.quarters = IF valid # {} THEN valid ELSE {Default(ActiveBucket)}]>>
  /\ UNCHANGED <<page, url, options, stored, storing, rows, clicked, asked, thisMonth>>

(* The navigation arrives with the rows; the list is made again.           *)
Land ==
  /\ effects = {} /\ landing # <<>>
  /\ url' = landing[1] /\ landing' = <<>> /\ options' = thisMonth
  /\ LET bucket == BucketOf(page, url')
         other == bucket # ActiveBucket
     IN  effects' = (IF url'.quarters # url.quarters \/ other THEN {"default"} ELSE {})
                      \cup (IF other \/ KeysAt(thisMonth, bucket) # AllKeys THEN {"drop"} ELSE {})
  /\ rows' = [of |-> RowsFor(page, url'), month |-> thisMonth]
  /\ UNCHANGED <<page, stored, storing, clicked, asked, thisMonth>>

-----------------------------------------------------------------------------
(* Clicks.                                                                 *)

Click(u, keep, wanted) ==
  /\ effects = {} /\ clicked < MaxClicks /\ clicked' = clicked + 1
  /\ landing' = <<u>>
  /\ stored' = IF storing THEN keep ELSE stored
  /\ asked' = wanted
  /\ UNCHANGED <<page, url, options, effects, storing, rows, thisMonth>>
Persisted(Q) == [stored EXCEPT ![ActiveBucket] = Q]

Update(Q, wanted) ==
  IF Q = {} THEN Click([url EXCEPT !.quarters = {NoneKey}], Persisted({}), wanted)
  ELSE IF Cardinality(Q) = Cardinality(AllKeys)
  THEN Click([url EXCEPT !.quarters = {}], Persisted(AllKeys), wanted)
  ELSE Click([url EXCEPT !.quarters = Q], Persisted(Q), wanted)

(* Asked for is what the boxes then show; it cannot be said on a screen    *)
(* that still shows an old list, or for a set with quarters that are not on *)
(* the list: the sentinel stays in a set that is built from it, and a click*)
(* that overtakes the repair of a link keeps its foreign quarters.         *)
Fresh == options = thisMonth /\ url.quarters \subseteq AllKeys
Flip(Q, k) == IF k \in Q THEN Q \ {k} ELSE Q \cup {k}
Toggle(k) ==
  /\ k \in AllKeys
  /\ Update(Flip(IF url.quarters = {} THEN AllKeys ELSE url.quarters, k),
            IF Fresh THEN Asked(Flip(Checked, k)) ELSE Unasked)
(* Mutant: the choice of all is not stored.                                *)
SelectAllUnstored == Click([url EXCEPT !.quarters = {}], stored, IF options = thisMonth /\ url.quarters # {} THEN Asked(AllKeys) ELSE Unasked)
SelectAll ==
  Click([url EXCEPT !.quarters = {}], Persisted(AllKeys),
        IF options = thisMonth /\ url.quarters # {} THEN Asked(AllKeys) ELSE Unasked)
SelectToday == Update({Default(ActiveBucket)}, Asked({Default(ActiveBucket)}))

(* The toggle of the lists leaves the quarters to the stored choice, the   *)
(* workbench's tabs put the default.                                       *)
SetBucket(bucket) ==
  /\ page = "list" /\ bucket # ActiveBucket
  /\ Click([bucket |-> bucket, quarters |-> {}], stored, Unasked)
SwitchMode(bucket) ==
  /\ page = "workbench"
  /\ Click([bucket |-> bucket, quarters |-> {Default(bucket)}], stored, Asked({Default(bucket)}))

TimePasses ==        \* and with it, perhaps, a quarter
  /\ MonthPasses /\ asked' = [Unasked EXCEPT !.touched = asked.touched]
  /\ UNCHANGED <<page, url, landing, options, effects, stored, storing, rows, clicked>>

FilterNext ==
  \/ \E p \in {"list", "scorecard", "workbench"}, b \in QuarterBuckets, Q \in Links : OpenPage(p, b, Q)
  \/ Restore \/ DropForeign \/ Land
  \/ (\E k \in AllKeys : Toggle(k)) \/ SelectAll \/ SelectToday
  \/ \E b \in QuarterBuckets : SetBucket(b) \/ SwitchMode(b)
  \/ thisMonth < EndOfTime /\ TimePasses

-----------------------------------------------------------------------------
FilterSettled == effects = {} /\ landing = <<>>
UpToDate == rows.month = thisMonth /\ options = thisMonth

(* The boxes that are checked are the quarters of the rows, on every page, *)
(* once the URL has settled without strays: but for the workbench, which   *)
(* takes "none" for its default, and for an empty parameter on the pages   *)
(* that take it for their default, left only where a click on All overtook *)
(* the first default.                                                      *)
BoxesTellTheRows ==
  FilterSettled /\ UpToDate /\ (Fresh \/ url.quarters = {NoneKey}) =>
    \/ Checked = rows.of
    \/ /\ <<page, url.quarters>> \in {<<"workbench", {NoneKey}>>, <<"workbench", {}>>, <<"scorecard", {}>>}
       /\ rows.of = {Default(url.bucket)}

(* What was clicked last is what the page ends up with, though the choice  *)
(* of all quarters goes through localStorage and an empty parameter (so    *)
(* that it is lost where there is no storage), and clicks overtake         *)
(* navigations.                                                            *)
LastClickWins ==
  FilterSettled /\ asked.known /\ rows.month = thisMonth /\ (storing \/ Cardinality(asked.quarters) < Width)
    => rows.of = (IF page = "workbench" /\ asked.quarters = {} THEN {Default(url.bucket)} ELSE asked.quarters)

(* Rows of the past and of the future never mix, whatever the URL holds.   *)
NeverMixed == \E b \in QuarterBuckets : rows.of \subseteq KeysAt(rows.month, b)

(* A page that is opened and left alone ends up with quarters of its list  *)
(* or with none, whatever its link and the storage hold: also what was     *)
(* stored while another quarter was the current one.                       *)
LinksAreRepaired ==
  FilterSettled /\ ~asked.touched /\ options = thisMonth => Fresh \/ url.quarters = {NoneKey}

QuarterInv == LinksAreRepaired /\ BoxesTellTheRows /\ LastClickWins /\ NeverMixed
=============================================================================
