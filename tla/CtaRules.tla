------------------------------- MODULE CtaRules -------------------------------
(* Which call to action a scan makes for an account, and for when          *)
(* (packages/cta-engine): the scope of a scan, the rules with their        *)
(* priorities, the health gate, the anti-signals and the deadline, over    *)
(* the facts of RiskScores.  A scan looks at the account as of today, so   *)
(* its scan date is day 0.  Half weights of dark signals count as 1.       *)
EXTENDS RiskScores

(* What the commentary's text says, by the patterns that read it.          *)
WindDown(a) == a.text = "windDown"
ActivePlan(a) == a.text \in {"actionPlan", "onTrack", "qbr"}     \* rules.ts
PlanInForce(a) == a.text \in {"actionPlan", "onTrack"}           \* suppress.ts
Paused(a) == a.text = "migration"

(* The last customer-facing activity: hasRecentActivity, and null as Never.*)
LastActivity(a) == Min({a.commentary, a.sentimentAge, a.meeting, a.workshop})
Active(a, days) == LastActivity(a) <= days

-----------------------------------------------------------------------------
(* Scope.                                                                  *)

OpenRenewal(a, o) ==
  a.opps[o].type = "Renewal" /\ a.opps[o].stage # "closed" /\ ~a.opps[o].fullChurn /\ ~a.opps[o].notice

FutureRenewals(a) == {o \in Opps : OpenRenewal(a, o) /\ a.opps[o].due >= 0}
NextRenewal(a) == CHOOSE o \in FutureRenewals(a) :
  \A p \in FutureRenewals(a) : a.opps[o].due < a.opps[p].due \/ (a.opps[o].due = a.opps[p].due /\ o <= p)

(* isActiveExpand3Account, of an account of the franchise.                 *)
ActiveAccount(a) ==
  /\ a.status # "Churned" /\ ~ConfirmedChurn(a)
  /\ a.churnReason => FutureRenewals(a) # {}

(* filterExpand3Views with the fiscal years of the default configuration,  *)
(* FY26 to the fiscal year of eight quarters from now, which ends between  *)
(* two and three years ahead: Horizon stands for its last day.             *)
Horizon == 800
InScope(a) == ActiveAccount(a) /\ \E o \in FutureRenewals(a) : a.opps[o].due <= Horizon

(* normalizeExpand3View: the account with its next renewal alone.          *)
(* Mutant: with all its opportunities.                                     *)
ScopedToAll(a) == a
Scoped(a) ==
  [a EXCEPT !.opps = [o \in Opps |-> IF o = NextRenewal(a) THEN a.opps[o]
                                     ELSE [a.opps[o] EXCEPT !.type = "none"]]]

-----------------------------------------------------------------------------
(* Dark signals: what fires, in half points, and where it was seen.        *)

DarkSignals == {"stale_commentary", "no_cse", "no_slack", "no_recent_activity", "no_workshop",
                "cerebro_engagement_risk", "low_engagio"}
Dark(a) ==
  {s \in DarkSignals :
     CASE s = "stale_commentary" -> a.commentary > 90
       [] s = "no_cse" -> ~a.cse
       [] s = "no_slack" -> ~a.slack
       [] s = "no_recent_activity" -> ~Active(a, 90)
       [] s = "no_workshop" -> a.workshop > 365
       [] s = "cerebro_engagement_risk" -> "engagement" \in a.flags
       [] s = "low_engagio" -> a.minutes30 < 10}
Weight(s) == IF s \in {"no_workshop", "low_engagio"} THEN 1 ELSE 2
DarkWeight(a) == MapThenSumSet(Weight, Dark(a))
IsDark(a) == DarkWeight(a) >= 4

SourceOf(s) ==
  IF s = "no_recent_activity" THEN "glean" ELSE IF s = "cerebro_engagement_risk" THEN "cerebro"
  ELSE "salesforce"
Confidence(a) ==
  LET sources == Cardinality({SourceOf(s) : s \in Dark(a)})
  IN  IF Dark(a) \subseteq {"no_cse", "no_slack"} THEN "low"
      ELSE IF sources >= 3 THEN "high" ELSE IF sources = 2 THEN "medium" ELSE "low"

-----------------------------------------------------------------------------
(* The rules, in the order in which evaluatePlayCandidates adds them: of   *)
(* two with one priority the earlier stays first.                          *)

PlayOrder == <<"confirmed_churn_retro", "managed_wind_down", "data_quality_gap", "dark_account",
           "dark_renewal", "utilization_risk", "engagement_risk", "suite_risk", "share_risk",
           "legacy_tech_risk", "pricing_risk", "expertise_risk", "no_strategic_engagement",
           "sentiment_stale", "surprise_churn_watch">>
PlayOf == [utilization |-> "utilization_risk", engagement |-> "engagement_risk",
           suite |-> "suite_risk", share |-> "share_risk", legacyTech |-> "legacy_tech_risk",
           pricing |-> "pricing_risk", expertise |-> "expertise_risk"]

DataGap(a) == a.errors # {} \/ (a.cerebroAge = Never /\ a.category = "none" /\ ~a.glean /\ a.meeting = Never)
NearRenewal(a) == DaysToRenewal(a) <= 180
Upcoming(a) == DaysToRenewal(a) \in 0..(8 * 91)
StaleRenewal(o) == ~o.steps \/ o.early

Fires(p, a) ==
  CASE p = "confirmed_churn_retro" -> ConfirmedChurn(a)
    [] p = "managed_wind_down" -> WindDown(a)
    [] p = "data_quality_gap" -> DataGap(a) /\ a.arr >= 100
    [] p = "dark_account" -> IsDark(a)
    [] p = "dark_renewal" ->
         /\ Upcoming(a) /\ FutureRenewals(a) # {}
         /\ StaleRenewal(a.opps[NextRenewal(a)]) \/ ~Active(a, 60)
    [] p = "utilization_risk" ->
         ("utilization" \in a.flags \/ (a.pbu # None /\ a.pbu < 65)) /\ ~WindDown(a)
    [] p = "no_strategic_engagement" -> a.exec = 0 /\ NearRenewal(a)
    [] p = "sentiment_stale" -> a.commentary > 90 /\ NearRenewal(a) /\ a.sentiment # "Green"
    [] p = "surprise_churn_watch" -> a.sentiment = "Yellow" /\ NearRenewal(a) /\ ~ActivePlan(a)
    [] OTHER -> \E r \in a.flags : PlayOf[r] = p

Candidates(a) ==
  IF ConfirmedChurn(a) THEN {"confirmed_churn_retro"}
  ELSE {p \in {PlayOrder[i] : i \in DOMAIN PlayOrder} : Fires(p, a)}

RiskBoost(a) == (15 * RiskScore(a, was) + 50) \div 100
Priority(p, a, boost) ==
  LET days == DaysToRenewal(a)
      bonus(fires, n) == IF fires THEN n ELSE 0
  IN  boost +
      CASE p = "confirmed_churn_retro" -> 30
        [] p = "managed_wind_down" -> 70
        [] p = "data_quality_gap" -> 25
        [] p = "dark_account" ->
             55 + 4 * DarkWeight(a) + bonus(a.arr >= 500, 15)
             + bonus(days <= 90, 12) + bonus(days <= 30, 10)
        [] p = "dark_renewal" -> 50 + bonus(days <= 90, 15) + bonus(~a.slack, 8)
        [] p = "utilization_risk" -> 60
        [] p = "no_strategic_engagement" -> 48
        [] p = "sentiment_stale" -> 42
        [] p = "surprise_churn_watch" -> 52
        [] OTHER -> 45

BestPlay(a) ==
  LET plays == Candidates(a)
      boost == RiskBoost(a)
      top == Max({Priority(p, a, boost) : p \in plays})
  IN  PlayOrder[Min({i \in DOMAIN PlayOrder : PlayOrder[i] \in plays /\ Priority(PlayOrder[i], a, boost) = top})]

-----------------------------------------------------------------------------
(* The health gate and the anti-signals.                                   *)

RiskOrDark == {PlayOrder[i] : i \in DOMAIN PlayOrder} \ {"data_quality_gap"}

NeedsAttention(a) ==
  \/ Bucket(a) = "Saveable Risk" \/ Worried(a) \/ a.category \in {"High", "Critical"}
  \/ a.flags # {} \/ Dark(a) # {}
  \/ a.pbu # None /\ a.pbu < 65
  \/ a.minutes30 # None /\ a.minutes30 < 10
  \/ a.commentary > 90
  \/ Upcoming(a) /\ ~Active(a, 60)
  \/ WindDown(a)

(* PLAY_THEME: the plays that an open Gainsight task with this title covers.*)
Covered(task) ==
  CASE task = "usage" -> {"utilization_risk"}
    [] task = "engagement" -> {"engagement_risk"}
    [] task = "visibility" -> {"dark_account"}
    [] task = "dark" -> {"dark_account", "dark_renewal"}
    [] task = "renewal" -> {"dark_renewal"}
    [] task = "exec" -> {"engagement_risk", "no_strategic_engagement"}
    [] OTHER -> {}

Suppressed(p, a) ==
  \/ Active(a, 7) /\ Paused(a)
  \/ p \in Covered(a.task)
  \/ Bucket(a) = "Confirmed Churn" /\ p # "confirmed_churn_retro"
  \/ PlanInForce(a) /\ p \notin {"data_quality_gap", "managed_wind_down", "confirmed_churn_retro"}

(* evaluateAccount of the scoped account: its CTA's play, or "none".       *)
Gated(a) == Candidates(a) # {} /\ BestPlay(a) \notin RiskOrDark /\ ~NeedsAttention(a)
Evaluate(a) ==
  LET best == BestPlay(a)
  IN  IF Candidates(a) = {} \/ Gated(a) \/ Suppressed(best, a) THEN "none" ELSE best

Cta(a) == IF InScope(a) THEN Evaluate(Scoped(a)) ELSE "none"

(* computeCtaDeadline, in days from the scan.  The floor of tomorrow never *)
(* binds when the scan date is today.                                      *)
Deadline(a) ==
  LET days == DaysToRenewal(a)
  IN  IF FutureRenewals(a) # {} /\ days \in 0..30 THEN Max({a.opps[NextRenewal(a)].due - 7, 7})
      ELSE IF days \in 0..90 THEN 21 ELSE 30
CheckBack(a) == Max({0, Deadline(a) - 7})

RiskColor(p, a) ==
  LET days == DaysToRenewal(a)
      mood == IF Worried(a) THEN a.sentiment ELSE "Green"
  IN  IF p \in {"dark_account", "dark_renewal"} /\ days <= 90
      THEN IF days <= 30 THEN "Red" ELSE "Yellow" ELSE mood

-----------------------------------------------------------------------------
(* Properties.                                                             *)

(* A scan speaks about the renewal that it names: the days to renewal that *)
(* its rules, colours and deadline are computed from are those of the next *)
(* open renewal, and not those of an earlier closed or churned one, which  *)
(* buildAccountView counts too (normalizeExpand3View: "avoids past renewal *)
(* dates in CTAs").                                                        *)
OneRenewal ==
  InScope(facts) =>
    LET a == Scoped(facts)
    IN  /\ NextRenewal(a) = NextRenewal(facts)
        /\ DaysToRenewal(a) = a.opps[NextRenewal(a)].due - 1
        /\ DaysToRenewal(a) \in -1..(Horizon - 1)

(* What follows up on a renewal is due before it, unless there is no week  *)
(* left, or it is due this very day, and is checked on by then             *)
(* (computeCtaDeadline: "never in the past").                              *)
DeadlineFits ==
  Cta(facts) # "none" =>
    LET a == Scoped(facts)
        due == a.opps[NextRenewal(a)].due
    IN  /\ due >= 7 => Deadline(a) <= due
        /\ due \in 1..6 => Deadline(a) = 7
        /\ 0 <= CheckBack(a) /\ CheckBack(a) <= Deadline(a) /\ Deadline(a) > 0

(* A lost account gets no call to action, not even the retrospective that  *)
(* has rules of its own: the scope drops it first (isActiveExpand3Account).*)
LostIsLeftAlone == ConfirmedChurn(facts) \/ facts.status = "Churned" => Cta(facts) = "none"

(* The health gate silences nobody who has something to act on: it stops   *)
(* at most a question about missing data (isRiskOrDarkPlay).               *)
GateIsMild ==
  InScope(facts) /\ Gated(Scoped(facts)) => Candidates(Scoped(facts)) = {"data_quality_gap"}

(* An account in the Saveable Risk bucket whose scoped view has a dark or a *)
(* risk play is passed over only for a plan, a pause or a task that covers *)
(* the play: not because it is healthy or out of order.                    *)
PassedOverForCause ==
  InScope(facts) /\ Cta(facts) = "none" /\ Candidates(Scoped(facts)) \ {"data_quality_gap"} # {} =>
    facts.text \in {"actionPlan", "onTrack", "migration"} \/ Covered(facts.task) # {}

(* The invariant of the rules.                                             *)
CtaInv ==
  RiskTypeOK /\ OneRenewal /\ DeadlineFits /\ LostIsLeftAlone /\ GateIsMild /\ PassedOverForCause

(* Time alone only darkens: no dark signal goes out and the confidence in  *)
(* them does not fall while days pass (assessDarkAccount).                 *)
Grade(c) == IF c = "low" THEN 0 ELSE IF c = "medium" THEN 1 ELSE 2
TimeDarkens ==
  [][facts' # facts => \A n \in {1, 30} : facts' = Later(facts, n) =>
       /\ Dark(facts) \subseteq Dark(facts') /\ DarkWeight(facts') >= DarkWeight(facts)
       /\ Grade(Confidence(facts')) >= Grade(Confidence(facts))]_riskVars
=============================================================================
