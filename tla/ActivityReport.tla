---------------------------- MODULE ActivityReport ----------------------------
(***************************************************************************)
(* What a weekly customer-activity snapshot says (packages/cse-activity):  *)
(* the activities that are seen in the window, how they are classified,    *)
(* whose they are, and the figures, colours and notes of the dashboard and *)
(* of the members' reports.  CseSnapshots says when it is made and kept.   *)
(* Days are numbered; the window ends on WeekEnd.                          *)
(***************************************************************************)
EXTENDS Integers, Sequences, FiniteSets

CONSTANTS
  Portfolio,       \* the accounts: cse, real (a CRM id of the CSE), bucket, atr, fetched, updated
  Sightings,       \* what may be seen: kind, of (an account, 0: unknown), day, word, owner
  WeekEnd,         \* the day of the snapshot
  ListedAccounts,  \* 40: accounts that the metrics are of
  EnoughMotion,    \* 5: accounts with customer-facing activity, for Green
  FewGaps,         \* 2: risks without activity, still Green
  MaxWeekSteps     \* bound: sightings, refreshes and changes of an account

ASSUME ReportAssumption == WeekEnd >= 7 /\ FewGaps \in Nat /\ MaxWeekSteps \in Nat

VARIABLES
  served,          \* account -> what the read model serves of it
  sighted,         \* what has been seen
  madeOn,          \* the day on which the snapshot is made
  gleanRan,        \* the latest run asked Glean
  weekSteps

reportVars == <<served, sighted, madeOn, gleanRan, weekSteps>>

NotFetched == -100
NoOne == "none"
AllServed == DOMAIN Portfolio
AccountAtRisk(a) == served[a].bucket # "Healthy"

-----------------------------------------------------------------------------
(* classifyFromMdasSignal: category, and whether a customer was faced.  A  *)
(* change of a snapshot is told by its field and label, also when it is    *)
(* read back; a task or a CTA faces the customer by being there.           *)

SpokenKind(kind) ==
  CASE kind \in {"calendar", "zoom", "calendar link"} -> "meeting"
    [] kind \in {"staircase", "gmail link"} -> "email"
    [] OTHER -> kind
MeetingAbout(word) == IF word = "executive" THEN "executive_engagement" ELSE "customer_meeting"
CategoryOf(kind, word) ==
  CASE SpokenKind(kind) = "meeting" -> IF word = "renewal" THEN "renewal_risk_activity" ELSE MeetingAbout(word)
    [] kind = "workshop" -> "qbr_ebr_prep"
    [] kind = "cta" -> "renewal_risk_activity"
    [] kind = "change" -> (CASE word = "workshop" -> "qbr_ebr_prep" [] word = "task" -> "customer_follow_up"
                             [] word = "meeting" -> "customer_meeting" [] OTHER -> "health_signal_review")
    [] OTHER -> "customer_follow_up"

FacesCustomer(kind, word) ==
  ~(kind = "change" /\ CategoryOf(kind, word) = "health_signal_review") /\ ~(SpokenKind(kind) = "email" /\ word = "newsletter")

(* The day an activity is given.  What Glean has linked is of the day on   *)
(* which the account was last asked for, and if it never was, like a task  *)
(* that is not due (day 0), of the day on which the account was last       *)
(* refreshed; what changed between two runs and a CTA without a stamp are  *)
(* of the end of the week.  Mutant: a link is of the day it was seen.      *)
GleanLinks == {"slack", "calendar link", "gmail link"}
GleanKinds == GleanLinks \cup {"calendar", "zoom", "staircase"}
DayAsSeen(h) == IF h.kind = "change" \/ h.day = 0 THEN WeekEnd ELSE h.day
GleanStamp(a) == IF served[a].fetched = NotFetched THEN served[a].updated ELSE served[a].fetched
DayOf(h) ==
  CASE h.kind \in GleanLinks -> GleanStamp(h.of)
    [] h.kind = "task" /\ h.day = 0 -> served[h.of].updated
    [] h.kind = "change" \/ (h.kind # "task" /\ h.day = 0) -> WeekEnd
    [] OTHER -> h.day
InWindow(day) == WeekEnd - 7 <= day /\ day <= WeekEnd

(* A CTA is of its owner by name, and of the account's CSE by id.          *)
ActivityOf(h) ==
  LET cse == IF h.of = 0 THEN NoOne ELSE served[h.of].cse IN
  [from |-> h, of |-> h.of, category |-> CategoryOf(h.kind, h.word), facing |-> FacesCustomer(h.kind, h.word),
   by |-> IF h.kind = "cta" /\ h.owner # NoOne THEN h.owner ELSE cse,
   id |-> IF h.of # 0 /\ served[h.of].real THEN cse ELSE NoOne]
Activities == {ActivityOf(h) : h \in {x \in sighted : InWindow(DayOf(x))}}
InCategory(acts, category) == {x \in acts : x.category = category}
FacingOnes(acts) == {x \in acts : x.facing}

-----------------------------------------------------------------------------
(* The team: whoever is the CSE of an account.  The figures of a member go *)
(* by name or id, the report and two columns of the dashboard by name.     *)

Members == {served[a].cse : a \in AllServed} \ {NoOne}
HasRealId(p) == \E a \in AllServed : served[a].cse = p /\ served[a].real
ByName(acts, p) == {x \in acts : x.by = p}
ByNameOrId(acts, p) == {x \in acts : x.by = p \/ (HasRealId(p) /\ x.id = p)}

MemberFigures(mine) ==
  [available |-> mine # {}, facing |-> Cardinality(FacingOnes(mine)), internal |-> Cardinality(mine \ FacingOnes(mine)),
   renewal |-> Cardinality(InCategory(mine, "renewal_risk_activity")),
   exec |-> Cardinality(InCategory(mine, "executive_engagement"))]
ManagerNote(m) ==
  IF ~m.available THEN "no data"
  ELSE IF m.facing = 0 /\ m.internal > 0 THEN "internal only"
  ELSE IF m.renewal > 0 /\ m.exec = 0 THEN "align executives"
  ELSE IF m.facing > 0 THEN "customers faced" ELSE "limited"
Highlights(mine) ==
  (IF FacingOnes(mine) # {} THEN {"customers faced"} ELSE {}) \cup
  (IF InCategory(mine, "renewal_risk_activity") # {} THEN {"renewals"} ELSE {}) \cup
  (IF InCategory(mine, "executive_engagement") # {} THEN {"executives"} ELSE {})

-----------------------------------------------------------------------------
(* The accounts: those with the most ATR are listed (all have priority, as *)
(* all are of Expand 3, unless the configuration names others).  Mutant:   *)
(* those at risk come first.                                               *)

MoreAtStake(b, a) == served[b].atr > served[a].atr \/ (served[b].atr = served[a].atr /\ b < a)
RisksBefore(b, a) == (AccountAtRisk(b) /\ ~AccountAtRisk(a)) \/ (AccountAtRisk(b) = AccountAtRisk(a) /\ MoreAtStake(b, a))
TopBy(before(_, _)) == {a \in AllServed : Cardinality({b \in AllServed : before(b, a)}) < ListedAccounts}
ReportedRisksFirst == TopBy(RisksBefore)
ReportedOn == TopBy(MoreAtStake)

ActsOn(acts, a) == {x \in acts : x.of = a}
InternalOnly(acts, a) == ActsOn(acts, a) # {} /\ FacingOnes(ActsOn(acts, a)) = {}
GapOf(acts, a) ==
  IF served[a].bucket = "Saveable Risk" /\ ActsOn(acts, a) = {} THEN "risk without activity"
  ELSE IF InternalOnly(acts, a) THEN "internal only" ELSE IF ActsOn(acts, a) = {} THEN "no activity" ELSE "none"

(* Mutant: a risk that was only talked about is not covered.               *)
CoveredIfFaced(acts, a) == FacingOnes(ActsOn(acts, a)) # {}
IsCovered(acts, a) == ActsOn(acts, a) # {}

WeekFigures(acts) ==
  LET risks == {a \in ReportedOn : AccountAtRisk(a)} IN
  [covered |-> Cardinality({a \in risks : IsCovered(acts, a)}),
   uncovered |-> Cardinality(risks) - Cardinality({a \in risks : IsCovered(acts, a)}),
   facing |-> Cardinality({a \in ReportedOn : FacingOnes(ActsOn(acts, a)) # {}}),
   facingAll |-> Cardinality({x.of : x \in FacingOnes(acts)} \ {0}),
   internal |-> Cardinality({a \in ReportedOn : InternalOnly(acts, a)}),
   stale |-> Cardinality({a \in ReportedOn : GapOf(acts, a) = "no activity"}),
   reviewed |-> Cardinality(InCategory(acts, "health_signal_review")),
   actedOn |-> Cardinality(InCategory(acts, "renewal_risk_activity")),
   exec |-> Cardinality(InCategory(acts, "executive_engagement")),
   followUps |-> Cardinality(InCategory(acts, "customer_follow_up"))]

-----------------------------------------------------------------------------
(* The verdicts.  Of eight sources five count as reached whatever is found,*)
(* and the calendar counts as reached if Glean has found nothing.          *)

GleanFound(acts) == {x \in acts : x.from.kind \in GleanKinds}
(* Mutant: the calendar is reached when Glean has found something.         *)
SourcesReachedThen(acts) == 5 + (IF GleanFound(acts) = {} THEN 0 ELSE 1)
SourcesReached(acts) == 5 + (IF GleanFound(acts) = {} THEN 1 ELSE 0)
DataCoverage(acts) ==
  LET tenths == (10 * SourcesReached(acts)) \div 8 IN IF tenths >= 7 THEN "Strong" ELSE IF tenths >= 4 THEN "Partial" ELSE "Weak"

OverallStatus(d) ==
  IF d.uncovered > d.covered /\ d.uncovered > FewGaps THEN "Red"
  ELSE IF d.facing >= EnoughMotion /\ d.uncovered <= FewGaps THEN "Green" ELSE "Yellow"
Posture(d) == IF d.facing > d.internal THEN "Proactive" ELSE IF d.internal > 0 THEN "Mixed" ELSE "Reactive"

(* The rows of the dashboard whose colour is of activities; the first, of  *)
(* customers, wants fewer of them than the overall status does.            *)
Colored(green, yellow) == IF green THEN "Green" ELSE IF yellow THEN "Yellow" ELSE "Red"
Lights(d) ==
  [customers |-> Colored(d.facingAll + 2 >= EnoughMotion, d.facingAll > 0),
   risks |-> Colored(d.uncovered <= FewGaps, d.uncovered <= FewGaps + 3),
   retention |-> Colored(FALSE, d.actedOn > 0), signals |-> Colored(FALSE, d.reviewed > 0),
   exec |-> Colored(FALSE, d.exec > 0), followUps |-> Colored(FALSE, d.followUps > 0),
   portfolio |-> Colored(FALSE, d.facingAll > 0), strategic |-> Colored(FALSE, d.facingAll >= d.internal)]

(* Glean's freshness, and the two verdicts on it: of the page, which knows *)
(* the latest run, and of the snapshot, which is not told of it.           *)
NeverAsked == {a \in AllServed : served[a].fetched = NotFetched}
AskedLately(a) == a \notin NeverAsked /\ madeOn - served[a].fetched <= 7
AskedLongAgo == {a \in AllServed \ NeverAsked : ~AskedLately(a)}
NeedsRefresh(told) == AskedLongAgo # {} \/ (NeverAsked # {} /\ ~told)

-----------------------------------------------------------------------------
ReportInit ==
  /\ served = Portfolio /\ sighted = {} /\ madeOn = WeekEnd
  /\ gleanRan \in BOOLEAN /\ weekSteps = 0

WeekStep == weekSteps < MaxWeekSteps /\ weekSteps' = weekSteps + 1
Sight(h) ==
  /\ WeekStep /\ h \notin sighted /\ sighted' = sighted \cup {h}
  /\ UNCHANGED <<served, madeOn, gleanRan>>
(* A refresh asks Glean, for some accounts; it may be after the week.  All *)
(* accounts are stamped by it, unless Salesforce failed (carried forward). *)
Refetch(a, synced) ==
  /\ WeekStep /\ gleanRan' = TRUE
  /\ served' = [b \in AllServed |-> [served[b] EXCEPT !.fetched = IF b = a THEN madeOn ELSE @,
                                                     !.updated = IF synced THEN madeOn ELSE @]]
  /\ UNCHANGED <<sighted, madeOn>>
Rebucket(a, bucket) ==
  /\ WeekStep /\ bucket # served[a].bucket /\ served' = [served EXCEPT ![a].bucket = bucket]
  /\ UNCHANGED <<sighted, madeOn, gleanRan>>
MadeLater ==
  /\ WeekStep /\ madeOn = WeekEnd /\ madeOn' = WeekEnd + 3
  /\ UNCHANGED <<served, sighted, gleanRan>>

ReportNext ==
  \/ \E h \in Sightings : Sight(h)
  \/ \E a \in AllServed, synced \in BOOLEAN : Refetch(a, synced)
  \/ \E a \in AllServed : \E bucket \in {"Healthy", "Saveable Risk"} : Rebucket(a, bucket)
  \/ MadeLater

ReportSpec == ReportInit /\ [][ReportNext]_reportVars

-----------------------------------------------------------------------------
(* The figures and notes on a member agree among the dashboard, his report *)
(* and the metrics, which look his activities up in three ways, but for a  *)
(* CTA of one of his accounts that was handed to somebody else: the metrics*)
(* count it for both, and the report of the CSE may then say that there is *)
(* no data while the dashboard's note praises his renewals.                *)
HandedOver(acts, p) ==
  {x \in acts : x.from.kind = "cta" /\ x.from.owner \notin {NoOne, p} /\ x.of # 0 /\ served[x.of].cse = p}
MembersAgree(acts) ==
  \A p \in Members :
    LET figures == MemberFigures(ByNameOrId(acts, p))  said == Highlights(ByName(acts, p)) IN
    /\ ByNameOrId(acts, p) \ ByName(acts, p) \subseteq HandedOver(acts, p)
    /\ HandedOver(acts, p) = {} =>
         /\ figures.facing = Cardinality(FacingOnes(ByName(acts, p)))
         /\ ManagerNote(figures) \in {"align executives", "customers faced"} <=> "customers faced" \in said
         /\ ManagerNote(figures) = "align executives" <=> "renewals" \in said /\ "executives" \notin said
         /\ ManagerNote(figures) = "no data" => said = {}

(* Nobody's work is lost: an activity of a served account with a CSE is in *)
(* somebody's figures, and in two people's only if it was handed over.     *)
NobodysWork(acts) ==
  \A x \in acts : x.of # 0 /\ served[x.of].cse # NoOne =>
    LET whose == {p \in Members : x \in ByNameOrId(acts, p)} IN
    /\ whose = {} => x \in HandedOver(acts, served[x.of].cse)
    /\ Cardinality(whose) > 1 => x \in HandedOver(acts, served[x.of].cse)

(* The verdicts, which come from different thresholds and populations, do  *)
(* not contradict each other: overall Green has Green rows for customers   *)
(* and risks, overall Red a row for risks that is not Green; every listed  *)
(* risk is covered or not; an account said to have no activity is not one  *)
(* at risk that could be saved (assessOverallStatus, generateManagerDash-  *)
(* board).                                                                 *)
VerdictsAgree(acts) ==
  LET d == WeekFigures(acts)  lights == Lights(d) IN
  /\ OverallStatus(d) = "Green" => lights.customers = "Green" /\ lights.risks = "Green"
  /\ OverallStatus(d) = "Red" => lights.risks # "Green"
  /\ Posture(d) = "Reactive" <=> \A a \in ReportedOn : ActsOn(acts, a) = {}
  /\ d.uncovered = Cardinality({a \in ReportedOn : AccountAtRisk(a) /\ GapOf(acts, a) \in {"risk without activity", "no activity"}})
  /\ d.stale + d.facing + d.internal
       + Cardinality({a \in ReportedOn : GapOf(acts, a) = "risk without activity"}) = Cardinality(ReportedOn)

(* No account at risk is left out of the list for one with less to lose.   *)
ListedByValue == \A a \in AllServed \ ReportedOn, b \in ReportedOn : served[b].atr >= served[a].atr

(* The coverage of the data is Strong exactly as long as Glean has found   *)
(* nothing, and never Weak.                                                *)
CoverageIs(acts) == DataCoverage(acts) = (IF GleanFound(acts) = {} THEN "Strong" ELSE "Partial")

(* The page and the snapshot contradict each other on Glean only on the    *)
(* accounts that the latest run asked for without getting an answer.  If   *)
(* it is made in time, the links of an account that the page calls fresh   *)
(* count, and those of one that the page calls stale do not; made late, it *)
(* leaves out the links of the accounts that were asked for after the week.*)
GleanIsTold ==
  /\ NeedsRefresh(FALSE) # NeedsRefresh(gleanRan) => gleanRan /\ NeverAsked # {} /\ AskedLongAgo = {}
  /\ \A h \in sighted : h.kind \in GleanLinks =>
       LET counted == \E x \in Activities : x.from = h IN
       /\ madeOn = WeekEnd /\ AskedLately(h.of) => counted
       /\ madeOn = WeekEnd /\ h.of \in AskedLongAgo => ~counted
       /\ served[h.of].fetched > WeekEnd => ~counted

ReportTypeOK ==
  /\ \A a \in AllServed : served[a].fetched \in Int /\ served[a].updated \in Int /\ served[a].atr \in Nat /\ served[a].real \in BOOLEAN
  /\ sighted \subseteq Sightings /\ madeOn \in {WeekEnd, WeekEnd + 3} /\ gleanRan \in BOOLEAN
  /\ weekSteps \in 0..MaxWeekSteps

(* Whoever does one more thing makes no verdict and no light worse, but for*)
(* the coverage of the data; to talk about an account without facing its   *)
(* customer may cost the posture and the strategic row.                    *)
Goodness(color) == CASE color \in {"Green", "Proactive"} -> 2 [] color \in {"Yellow", "Mixed"} -> 1 [] OTHER -> 0
MotionHelps(acts) ==
  LET b == WeekFigures(acts)  lights == Lights(b) IN
  \A h \in Sightings \ sighted : InWindow(DayOf(h)) =>
    LET e == WeekFigures(acts \cup {ActivityOf(h)})  lit == Lights(e)  faces == FacesCustomer(h.kind, h.word) IN
    /\ Goodness(OverallStatus(e)) >= Goodness(OverallStatus(b))
    /\ faces => Goodness(Posture(e)) >= Goodness(Posture(b))
    /\ \A r \in DOMAIN lights \ (IF faces THEN {} ELSE {"strategic"}) : Goodness(lit[r]) >= Goodness(lights[r])

(* The invariant of the weekly report.                                     *)
ReportInv ==
  /\ ReportTypeOK /\ ListedByValue /\ GleanIsTold
  /\ LET acts == Activities IN
       /\ MembersAgree(acts) /\ NobodysWork(acts) /\ VerdictsAgree(acts) /\ CoverageIs(acts) /\ MotionHelps(acts)
=============================================================================
