------------------------------ MODULE ListPages ------------------------------
(* The pages that list what was refreshed: the home page with its tiles    *)
(* and the queue of next actions, the changes of the week, the hygiene     *)
(* worklist, the opportunities, the accounts and the quality of the data.  *)
(* They all show the quarters of the URL; what else is chosen lives in the *)
(* URL (the rules of hygiene, the focused renewal), in the page that is    *)
(* mounted (the filters of a column) or in the browser (the search).       *)
EXTENDS Integers, SequencesExt

CONSTANTS
  Folio,         \* the accounts, in the order of the read model
  Pursuits,       \* the opportunities, each OF an account
  LoadedQuarters,       \* the quarters whose opportunities are loaded
  Wanted,        \* what the quarter filter may put in the URL
  MaxGestures    \* bound: what the manager does in one behaviour

VARIABLES
  screen,        \* the page
  inScope,       \* the quarters that its URL asks for
  ruleParam,     \* ?violationTypes=, {} for none
  focused,       \* ?focus=, 0 for none
  columns,       \* the filters of the opportunities' columns
  closedToo,     \* whether closed opportunities are listed
  keptCses, typed,   \* kept in the browser: the accounts' CSE filter and search
  picked,        \* accounts whose box is ticked
  cursor,        \* the row that has the keyboard, 0 for none
  gestures       \* what was done so far

listVars == <<screen, inScope, ruleParam, focused, columns, closedToo, keptCses, typed, picked, cursor, gestures>>

Flip1(S, x) == IF x \in S THEN S \ {x} ELSE S \cup {x}
TotalOver(op(_), S) == MapThenSumSet(op, S)

-----------------------------------------------------------------------------
(* Which accounts a page shows: those with an opportunity that closes in a *)
(* quarter of the scope; a confirmed churn by the date of its churn alone. *)

DealsOf(a) == {d \in DOMAIN Pursuits : Pursuits[d].of = a}
QuartersOf(a) ==
  IF Folio[a].bucket = "Confirmed Churn" THEN {Folio[a].churned} \ {0}
  ELSE {Pursuits[d].quarter : d \in DealsOf(a)}
ViewsIn(S) == {a \in DOMAIN Folio : QuartersOf(a) \cap S # {}}
Views == ViewsIn(inScope)
BucketIs(b, S) == {a \in S : Folio[a].bucket = b}
SectionNames == {"Confirmed Churn", "Saveable Risk", "Healthy"}

-----------------------------------------------------------------------------
(* The home page.                                                          *)

(* The dollars at risk in an opportunity (as packages/scoring has them).   *)
DollarsLost(d) == Max({Pursuits[d].known, -Pursuits[d].known}) + Max({0, -Pursuits[d].delta})
ScoredAcvAtRisk(a) == IF Folio[a].bucket = "Healthy" THEN 0 ELSE TotalOver(DollarsLost, DealsOf(a))

Within(a, S) == {d \in DealsOf(a) : Pursuits[d].quarter \in S}
TotalAtr(S) ==
  TotalOver(LAMBDA a : TotalOver(LAMBDA d : Pursuits[d].atr, Within(a, S)), ViewsIn(S))
(* Mutant: a confirmed churn counts what closes in the scope, as the rest. *)
AcvAtRiskOfScope(S) ==
  TotalOver(LAMBDA a : TotalOver(DollarsLost, Within(a, S)), ViewsIn(S) \ BucketIs("Healthy", ViewsIn(S)))
AcvTile(S) ==
  LET counted(a) ==
        IF Folio[a].bucket = "Confirmed Churn" /\ Folio[a].churned \in S THEN DealsOf(a) ELSE Within(a, S)
  IN  TotalOver(LAMBDA a : TotalOver(DollarsLost, counted(a)), ViewsIn(S) \ BucketIs("Healthy", ViewsIn(S)))

(* The queue: the five with the highest score; healthy accounts only if    *)
(* they moved.                                                             *)
BucketWeight(a) == CASE Folio[a].bucket = "Confirmed Churn" -> 80 [] Folio[a].bucket = "Saveable Risk" -> 50 [] OTHER -> 0
NoDay == 9999     \* no renewal
(* Mutant: an account without a renewal counts as due.                     *)
UrgencyOfNoRenewal(days) == IF days <= 30 \/ days = NoDay THEN 30 ELSE IF days <= 60 THEN 18 ELSE IF days <= 90 THEN 8 ELSE 0
Urgency(days) == IF days <= 30 THEN 30 ELSE IF days <= 60 THEN 18 ELSE IF days <= 90 THEN 8 ELSE 0
MovedSince(a) == Folio[a].events # <<>>
Score(a) == Folio[a].risk + BucketWeight(a) + Urgency(Folio[a].days) + (IF MovedSince(a) THEN 10 ELSE 0)
QueueLimit == 5
Queue ==
  LET ranked == SetToSortSeq({a \in Views : Folio[a].bucket # "Healthy" \/ MovedSince(a)},
                             LAMBDA a, b : Score(a) > Score(b) \/ (Score(a) = Score(b) /\ a < b))
  IN  SubSeq(ranked, 1, Min({QueueLimit, Len(ranked)}))

(* The movement that is told of an account: the first of the gravest kind. *)
Gravity == <<"churn-notice", "risk", "sentiment", "forecast", "hygiene", "workshop">>
Movement(a) ==
  LET at == [i \in DOMAIN Folio[a].events |-> CHOOSE g \in DOMAIN Gravity : Gravity[g] = Folio[a].events[i]]
  IN  CHOOSE i \in DOMAIN at : \A j \in DOMAIN at : at[i] < at[j] \/ (at[i] = at[j] /\ i <= j)

(* The strip counts every event of the franchise, the page of the changes  *)
(* those of accounts in the scope.                                         *)
EventsOf(A, kind) == {<<a, i>> \in A \X (1..3) : i \in DOMAIN Folio[a].events /\ Folio[a].events[i] = kind}
StripCount(kind) == Cardinality(EventsOf(DOMAIN Folio, kind))
ChangesShown(kind) == EventsOf(Views, kind)

-----------------------------------------------------------------------------
(* The worklist of hygiene.                                                *)

NoRule == "__none__"
RulesOffered == UNION {Folio[a].rules : a \in Views}
Ticked(param) == IF param = {} THEN RulesOffered ELSE RulesOffered \cap param
Updated(next) == IF Cardinality(next) \in {0, Cardinality(RulesOffered)} THEN {} ELSE next
(* Mutant: from all, only what is ticked stays.                            *)
ToggledFromNone(param, r) == Updated(Flip1(param, r))
Toggled(param, r) == Updated(Flip1(IF param = {} THEN RulesOffered ELSE param, r))
Label(param) == IF param = {} \/ Cardinality(param) = Cardinality(RulesOffered) THEN "all" ELSE "some"

WorkAccounts == IF ruleParam = {} THEN Views ELSE {a \in Views : Folio[a].rules \cap ruleParam # {}}
Worklist == {<<a, r>> \in WorkAccounts \X RulesOffered : r \in Folio[a].rules /\ (ruleParam = {} \/ r \in ruleParam)}
CardOf(cse) == {a \in WorkAccounts : Folio[a].cse = cse /\ Folio[a].rules # {}}
CardCount(cse) == TotalOver(LAMBDA a : Cardinality(Folio[a].rules), CardOf(cse))

-----------------------------------------------------------------------------
(* The opportunities.                                                      *)

Loaded == {d \in DOMAIN Pursuits : Pursuits[d].quarter \in LoadedQuarters}
PageDeals ==
  IF focused \in Loaded THEN {focused} ELSE {d \in Loaded : Pursuits[d].quarter \in inScope}
ClosedStages == {8, 9}
NoStage == 99
ColumnNames == {"stage", "type", "cse"}
ValueOf(d, c) == CASE c = "stage" -> Pursuits[d].stage [] c = "type" -> Pursuits[d].type [] c = "cse" -> Folio[Pursuits[d].of].cse
OptionsOf(c) == {ValueOf(d, c) : d \in {e \in PageDeals : c = "stage" => Pursuits[e].stage # NoStage}}
NoFilters == [c \in ColumnNames |-> {}]

(* Mutant: stage 0 is left out even when it was chosen.                    *)
PassesNeverZero(d, chosen, closed) ==
  /\ Pursuits[d].stage # 0
  /\ closed \/ Pursuits[d].stage \notin ClosedStages
  /\ \A c \in ColumnNames : chosen[c] = {} \/ ValueOf(d, c) \in chosen[c]
Passes(d, chosen, closed) ==
  /\ chosen["stage"] = {} => Pursuits[d].stage # 0
  /\ closed \/ Pursuits[d].stage \notin ClosedStages
  /\ \A c \in ColumnNames : chosen[c] = {} \/ ValueOf(d, c) \in chosen[c]
Listed == {d \in PageDeals : Passes(d, columns, closedToo)}

-----------------------------------------------------------------------------
(* The accounts: one section for each bucket that has rows.                *)

FilteredViews ==
  {a \in Views : /\ keptCses = {} \/ Folio[a].cse \in keptCses
                 /\ typed = "" \/ typed \in Folio[a].words}
Section(b) == BucketIs(b, FilteredViews)
AllPicked(b) == Section(b) # {} /\ Section(b) \subseteq picked
(* Mutant: select all drops what was picked in the other sections.         *)
SectionPickedAlone(b) == IF AllPicked(b) THEN {} ELSE Section(b)
SectionPicked(b) == IF AllPicked(b) THEN picked \ Section(b) ELSE picked \cup Section(b)

-----------------------------------------------------------------------------
(* The quality of the data, some days after the refresh.                   *)

Expected == {"salesforce", "cerebro", "gainsight", "glean-mcp"}
Sources == Expected \cup UNION {DOMAIN Folio[a].fetched \cup Folio[a].failed : a \in DOMAIN Folio}
StaleAfter == 7
Quality(a, s, days) ==
  IF s \in Folio[a].failed THEN "error"
  ELSE IF s \notin DOMAIN Folio[a].fetched THEN "missing"
  ELSE IF Folio[a].fetched[s] + days > StaleAfter THEN "stale" ELSE "fresh"
OfQuality(s, q, days) == {a \in DOMAIN Folio : Quality(a, s, days) = q}
NoNotes == {a \in DOMAIN Folio : DealsOf(a) # {} /\ \A d \in DealsOf(a) : ~Pursuits[d].notes}
MissingArr(A) == TotalOver(LAMBDA a : Folio[a].arr, A)

-----------------------------------------------------------------------------
(* The manager.  A page that is opened starts anew, but for what the       *)
(* browser keeps; the quarter filter and the links within a page leave it  *)
(* mounted.  Whatever changes the table of accounts mounts its rows again, *)
(* and takes the keyboard from them.                                       *)

Screens == {"home", "hygiene", "opportunities", "accounts"}
Mounted == columns' = NoFilters /\ closedToo' = FALSE /\ picked' = {} /\ cursor' = 0
ListInit ==
  /\ screen \in Screens /\ inScope \in Wanted /\ ruleParam = {} /\ focused = 0
  /\ columns = NoFilters /\ closedToo = FALSE
  /\ keptCses \in {{}} \cup {{Folio[a].cse} : a \in DOMAIN Folio} /\ typed = ""
  /\ picked = {} /\ cursor = 0 /\ gestures = 0

Gesture == gestures < MaxGestures /\ gestures' = gestures + 1
OpenList(p, S, d) ==
  /\ Gesture /\ p # screen /\ (d # 0 => p = "opportunities")
  /\ screen' = p /\ inScope' = S /\ ruleParam' = {} /\ focused' = d
  /\ Mounted /\ UNCHANGED <<keptCses, typed>>
ShowQuarters(S) ==
  /\ Gesture /\ focused = 0 /\ S # inScope
  /\ inScope' = S /\ cursor' = 0
  /\ UNCHANGED <<screen, ruleParam, focused, columns, closedToo, keptCses, typed, picked>>

AskRules(next) ==
  /\ Gesture /\ screen = "hygiene" /\ ruleParam' = next
  /\ UNCHANGED <<screen, inScope, focused, columns, closedToo, keptCses, typed, picked, cursor>>
TickRule(r) == r \in RulesOffered /\ AskRules(Toggled(ruleParam, r))
AllRules == AskRules({})
ClearRules == AskRules(Updated({NoRule}))

ListOpps(chosen, closed) ==
  /\ Gesture /\ screen = "opportunities" /\ columns' = chosen /\ closedToo' = closed
  /\ UNCHANGED <<screen, inScope, ruleParam, focused, keptCses, typed, picked, cursor>>
FilterColumn(c) ==
  \E S \in {Flip1(columns[c], v) : v \in OptionsOf(c)} \cup {{}, OptionsOf(c)} :
    S # columns[c] /\ ListOpps([columns EXCEPT ![c] = S], closedToo)
ChangeStatus == ListOpps(columns, ~closedToo)
ShowAll ==       \* of a focused renewal; the quarters are those of the quarter filter again
  /\ Gesture /\ focused \in Loaded
  /\ focused' = 0 /\ inScope' \in Wanted
  /\ UNCHANGED <<screen, ruleParam, columns, closedToo, keptCses, typed, picked, cursor>>

OnAccounts == Gesture /\ screen = "accounts" /\ UNCHANGED <<screen, inScope, ruleParam, focused, columns, closedToo, keptCses>>
Search(text) == OnAccounts /\ typed' = text /\ cursor' = 0 /\ UNCHANGED picked
PickAccount(a) == a \in FilteredViews /\ OnAccounts /\ picked' = Flip1(picked, a) /\ cursor' = 0 /\ UNCHANGED typed
PickSection(b) == Section(b) # {} /\ OnAccounts /\ picked' = SectionPicked(b) /\ cursor' = 0 /\ UNCHANGED typed
(* Mutant: the keyboard moves past the last row.                           *)
MovedRowPastTheEnd(step) == Max({cursor + step, 1})
MovedRow(step) == Min({Max({cursor + step, 1}), Cardinality(FilteredViews)})
MoveRow(step) == FilteredViews # {} /\ OnAccounts /\ cursor' = MovedRow(step) /\ UNCHANGED <<picked, typed>>

ListNext ==
  \/ \E p \in Screens, S \in Wanted : OpenList(p, S, 0)
  \/ \E d \in DOMAIN Pursuits : OpenList("opportunities", inScope, d)
  \/ \E S \in Wanted : ShowQuarters(S)
  \/ (\E r \in RulesOffered : TickRule(r)) \/ AllRules \/ ClearRules
  \/ (\E c \in ColumnNames : screen = "opportunities" /\ FilterColumn(c)) \/ ChangeStatus \/ ShowAll
  \/ \E text \in {""} \cup UNION {Folio[a].words : a \in DOMAIN Folio} : text # typed /\ Search(text)
  \/ (\E a \in FilteredViews : PickAccount(a)) \/ (\E b \in SectionNames : PickSection(b))
  \/ \E step \in {-1, 1} : MoveRow(step)

-----------------------------------------------------------------------------
(* The tiles: the renewals of several quarters are those of each; the      *)
(* dollars at risk are those of the accounts' own scores once everything is*)
(* in scope, and no quarter loses any, though a churned account's count in *)
(* the quarter of its churn and, if an opportunity is dated otherwise,     *)
(* nowhere else.                                                           *)
TilesAddUp ==
  LET everything == UNION {QuartersOf(a) \cup {Pursuits[d].quarter : d \in DealsOf(a)} : a \in DOMAIN Folio}
      shown == ViewsIn(everything)
      unchurned(S) == TotalOver(LAMBDA q : TotalOver(LAMBDA a : IF Folio[a].bucket = "Saveable Risk" THEN TotalOver(DollarsLost, Within(a, {q})) ELSE 0, Views), S)
      churned == TotalOver(ScoredAcvAtRisk, BucketIs("Confirmed Churn", Views))
  IN  /\ AcvTile(everything) = TotalOver(ScoredAcvAtRisk, shown)
      /\ AcvTile(inScope) = unchurned(inScope) + churned
      /\ TotalAtr(everything) = TotalOver(LAMBDA a : TotalOver(LAMBDA d : Pursuits[d].atr, DealsOf(a)), shown)
      /\ \A q \in inScope : TotalAtr(inScope) >= TotalAtr({q}) + TotalAtr(inScope \ {q})

(* The queue: whoever is worse off in every respect is not behind, nobody  *)
(* in trouble is passed over for somebody who is not, and the movement that*)
(* is told is the gravest.                                                 *)
WorseOff(a, b) ==
  /\ Folio[a].risk >= Folio[b].risk /\ BucketWeight(a) >= BucketWeight(b) /\ Folio[a].days < Folio[b].days
  /\ MovedSince(b) => MovedSince(a)
QueueIsFair ==
  /\ \A i, j \in DOMAIN Queue : i < j /\ WorseOff(Queue[j], Queue[i]) => Score(Queue[i]) = Score(Queue[j])
  /\ \A a \in Views, b \in Range(Queue) : WorseOff(a, b) /\ a \notin Range(Queue) => Score(a) = Score(b)
  /\ \A a, b \in Views : WorseOff(a, b) => Score(a) >= Score(b)
  /\ \A a \in Range(Queue) : "churn-notice" \in Range(Folio[a].events) => Folio[a].events[Movement(a)] = "churn-notice"

(* The page of the changes has what the strip counted, as far as the scope *)
(* reaches, each change under one heading.                                 *)
ChangesAreCounted ==
  /\ \A g \in Range(Gravity) : Cardinality(ChangesShown(g)) <= StripCount(g)
  /\ TotalOver(StripCount, Range(Gravity)) = TotalOver(LAMBDA a : Len(Folio[a].events), DOMAIN Folio)
  /\ Views = DOMAIN Folio => \A g \in Range(Gravity) : Cardinality(ChangesShown(g)) = StripCount(g)

(* A box of the worklist is ticked exactly if its rule has rows, and a     *)
(* click changes its own box alone, as long as the URL asks for rules that *)
(* are offered; the last box that is unticked ticks them all.              *)
BoxesTellTheWorklist ==
  /\ {w[2] : w \in Worklist} = Ticked(ruleParam)
  /\ ruleParam \subseteq RulesOffered =>
       /\ Label(ruleParam) = "all" <=> Worklist = {<<a, r>> \in Views \X RulesOffered : r \in Folio[a].rules}
       /\ \A r \in RulesOffered :
            Ticked(Toggled(ruleParam, r)) = IF Ticked(ruleParam) = {r} THEN RulesOffered ELSE Flip1(Ticked(ruleParam), r)
(* The cards count every violation of the accounts that have a row.        *)
CardsCountTheAccounts ==
  LET cses == {Folio[a].cse : a \in Views}
      rows == TotalOver(LAMBDA a : Cardinality({w \in Worklist : w[1] = a}), WorkAccounts)
  IN  /\ {w[1] : w \in Worklist} = UNION {CardOf(c) : c \in cses}
      /\ TotalOver(CardCount, cses) >= rows /\ (ruleParam = {} => TotalOver(CardCount, cses) = rows)

(* A renewal that was linked to is all there is on the page that opens, if *)
(* it is open; and every stage on offer leads to its opportunities, the    *)
(* stage 0 too, that is not listed otherwise.                              *)
LinkedRenewalIsListed ==
  focused \in Loaded /\ columns = NoFilters /\ Pursuits[focused].stage \notin {0} \cup ClosedStages => Listed = {focused}
StagesLeadToRows ==
  \A s \in OptionsOf("stage") :
    \E d \in PageDeals : Pursuits[d].stage = s /\ Passes(d, [NoFilters EXCEPT !["stage"] = {s}], TRUE)

(* Every account of the search is in one section; the box of a section     *)
(* picks or drops its rows and leaves the rest; the keyboard is on a row.  *)
SectionsHoldTheAccounts ==
  /\ UNION {Section(b) : b \in SectionNames} = FilteredViews
  /\ TotalOver(LAMBDA b : Cardinality(Section(b)), SectionNames) = Cardinality(FilteredViews)
  /\ \A b \in SectionNames :
       /\ SectionPicked(b) \ Section(b) = picked \ Section(b)
       /\ SectionPicked(b) \cap Section(b) = IF Section(b) \subseteq picked THEN {} ELSE Section(b)
  /\ cursor \in 0..Cardinality(FilteredViews)

(* Each account is of one quality per source, all of them missing where a  *)
(* source never answered; without another answer it only gets worse, and   *)
(* not before a week has gone by.                                          *)
QualityOnlyAges ==
  LET qualities == {"fresh", "stale", "error", "missing"} IN
  /\ \A s \in Sources :
       /\ TotalOver(LAMBDA q : Cardinality(OfQuality(s, q, 0)), qualities) = Len(Folio)
       /\ \A n \in 0..9, a \in DOMAIN Folio :
            /\ Quality(a, s, n) = "stale" => Quality(a, s, n + 1) = "stale"
            /\ Quality(a, s, n) # Quality(a, s, n + 1) => Quality(a, s, n) = "fresh"
            /\ s \in DOMAIN Folio[a].fetched /\ Folio[a].fetched[s] = 0 /\ n <= StaleAfter => Quality(a, s, n) # "stale"
  /\ MissingArr(NoNotes) <= MissingArr(DOMAIN Folio)

ListInv ==
  /\ screen = "home" => TilesAddUp /\ QueueIsFair /\ ChangesAreCounted /\ (gestures = 0 => QualityOnlyAges)
  /\ screen = "hygiene" => BoxesTellTheWorklist /\ CardsCountTheAccounts
  /\ screen = "opportunities" => LinkedRenewalIsListed /\ StagesLeadToRows
  /\ screen = "accounts" => SectionsHoldTheAccounts
=============================================================================
