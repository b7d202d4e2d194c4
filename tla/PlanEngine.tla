------------------------------ MODULE PlanEngine ------------------------------
(* The account plan that is made of the facts of RiskScores and CtaRules   *)
(* (packages/account-plan-engine): the signals each collector finds, how   *)
(* fresh they are and how much they are trusted, the three scores, the     *)
(* findings with the signals they cite, the actions and the confidence.    *)
(* The plan is of the account as the last refresh has it: updated is its   *)
(* age, live the number of concerns of Cerebro's live summary (None when   *)
(* it does not answer), found and plans count documents and answers the    *)
(* Glean searches that succeed, of two.                                    *)
EXTENDS CtaRules

-----------------------------------------------------------------------------
(* Signals, in batches that are equally fresh and trusted.                 *)

(* Mutant: what has no date is as good as fresh, and so is what is old.    *)
FreshnessOfDated(age, days) == IF age > 2 * days THEN "fresh" ELSE IF age <= days THEN "fresh" ELSE "stale"
Freshness(age, days) == IF age = Never THEN "unknown" ELSE IF age <= days THEN "fresh" ELSE "stale"
Trust(fresh, base) ==
  IF fresh = "fresh" THEN base ELSE IF base = "high" THEN "medium" ELSE "low"

Batch(ids, fresh, trust) == [ids |-> ids, fresh |-> fresh, trust |-> trust]
Dimmed(ids, fresh, base) == Batch(ids, fresh, Trust(fresh, base))
SignalIds(system, keys) == {<<system, k>> : k \in keys}
Only(condition, ids) == IF condition THEN ids ELSE {}

(* Mutant: the test of the stage the other way round.                      *)
ExpansionsClosed(a) == {o \in Opps : a.opps[o].type \notin {"none", "Renewal"} /\ a.opps[o].stage # "open"}
Expansions(a) == {o \in Opps : a.opps[o].type \notin {"none", "Renewal"} /\ a.opps[o].stage # "closed"}
PipelineIds(a) == SignalIds("opp", Expansions(a))
AccountKeys == {"account_name", "account_owner", "assigned_cse", "franchise", "all_time_arr",
               "active_product_lines", "customer_status", "churn_reason"}
RenewalKeys == {"renewal_close_date", "renewal_stage", "available_to_renew", "renewal_acv", "acv_delta",
               "forecast_most_likely", "forecast_category", "churn_downsell_reason", "churn_risk"}
Salesforce(a) ==
  {Dimmed(SignalIds("sf", AccountKeys \cup Only(FutureRenewals(a) # {}, RenewalKeys)
                      \cup Only(DaysToRenewal(a) # Never, {"days_to_renewal"})) \cup PipelineIds(a),
          Freshness(a.updated, 3), "high")}

HasCommentary(a) == a.text # "none"
Cse(a) ==
  {Dimmed(SignalIds("cse", {"sentiment"}), Freshness(a.sentimentAge, 3), "high"),
   Dimmed(SignalIds("cse", Only(HasCommentary(a), {"commentary"})), Freshness(a.commentary, 3), "high"),
   Batch(SignalIds("cse", {"cs_coverage"}), Freshness(a.updated, 3), "high")}

FlagIds(a) == SignalIds("risk_flag", a.flags)
ConcernIds(a) == SignalIds("live_concern", 1..a.live)
CerebroSupport(a) ==
  LET fresh == Freshness(a.cerebroAge, 3)
      live == Freshness(a.asOf, 3)
  IN  {Dimmed(SignalIds("cerebro", {"risk_category"}), fresh, "high"),
       Dimmed(SignalIds("cerebro", Only(a.category # "none", {"risk_analysis"})), fresh, "medium"),
       Batch(FlagIds(a), fresh, "high"),
       Dimmed(SignalIds("cerebro", Only(a.live # None, {"live_headline"})), live, "medium"),
       Batch(ConcernIds(a), live, "medium")}

(* utilizationRisk is a flag that is known when Cerebro has answered.      *)
Underused(a) == "utilization" \in a.flags
UtilizationIds(a) == SignalIds("usage", Only(a.cerebroAge # Never \/ Underused(a), {"utilization_risk"}))
SubMetrics(a) == Only(a.pbu # None, {"pbu"}) \cup Only(a.overage, {"overage"})
CerebroUsage(a) ==
  {Dimmed(SignalIds("usage", SubMetrics(a)), Freshness(a.cerebroAge, 3), "medium"),
   Batch(SignalIds("usage", Only(a.minutes30 # None, {"30d"}) \cup Only(a.minutes90 # None, {"90d"})),
         Freshness(a.updated, 3), "high"),
   Batch(UtilizationIds(a), Freshness(a.cerebroAge, 3), "high")}

(* The documents of both searches are dropped when either fails.           *)
FoundDocs(a) == IF a.answers = 2 THEN a.found ELSE 0
Glean(a) ==
  {Dimmed(SignalIds("local_plan", 1..a.plans), Freshness(a.docAge, 7), "medium"),
   Batch(SignalIds("snippet", 1..FoundDocs(a)), Freshness(a.docAge, 3), "low")}
Slack(a) ==
  {Batch(SignalIds("slack", Only(a.slack, {"channel_url"})), "fresh", "high"),
   Batch(SignalIds("slack", {"channel_mapped"}), "unknown", "high"),
   Batch(SignalIds("mention", 1..Min({3, FoundDocs(a)})), Freshness(a.docAge, 14), "low")}

Collected(a) ==
  Salesforce(a) \cup Cse(a) \cup CerebroSupport(a) \cup CerebroUsage(a) \cup Glean(a) \cup Slack(a)
IdsOf(batches) == UNION {b.ids : b \in batches}
CountOf(batches) == Cardinality(IdsOf(batches))

(* The collectors that fail; the others succeed, in part, or are skipped.  *)
FailedCollectors(a) ==
  Only("cerebro" \in a.errors /\ a.category = "none" /\ a.flags = {} /\ a.live = None, {"cerebro_support"})
    \cup Only("cerebro" \in a.errors /\ IdsOf(CerebroUsage(a)) = {}, {"cerebro_usage"})

-----------------------------------------------------------------------------
(* Findings, with what each takes from the renewal's score, how much it    *)
(* matters and the signals it cites.                                       *)

When(condition, x) == Only(condition, {x})
Finding(title, points, impact, cites) ==
  [title |-> title, points |-> points, impact |-> impact, cites |-> cites]

MoodPoints(a) ==
  CASE a.sentiment = "Green" -> 2 [] a.sentiment = "Red" -> -2
    [] a.sentiment = "Confirmed Churn" -> -4 [] OTHER -> 0
CommentarySLA(a) == IF a.sentiment = "Green" THEN 30 ELSE 14

BaseFindings(a) ==
  LET o == a.opps[NextRenewal(a)]
      renewing == FutureRenewals(a) # {}
      stale == a.commentary # Never /\ a.commentary > CommentarySLA(a)
  IN  When(a.sentiment \in {"Red", "Confirmed Churn"}, Finding("sentiment", 0, "high", SignalIds("cse", {"sentiment"})))
        \cup When(~HasCommentary(a), Finding("missing commentary", 1, "medium", {}))
        \cup When(HasCommentary(a) /\ stale,
                  Finding("stale commentary", 1, "medium", SignalIds("cse", {"commentary"})))
        \cup When(renewing /\ o.risk, Finding("churn risk", 3, "high", SignalIds("sf", {"churn_risk"})))
        \cup When(renewing /\ o.reason, Finding("churn reason", 2, "high", SignalIds("sf", {"churn_downsell_reason"})))
SoftPoints(a) == IF FutureRenewals(a) # {} /\ a.opps[NextRenewal(a)].soft THEN 1 ELSE 0
Taken(F) == MapThenSumSet(LAMBDA f : f.points, F)
BaseScore(a) == MoodPoints(a) - Taken(BaseFindings(a)) - SoftPoints(a)

(* The approach of the renewal is judged by the points taken so far.       *)
LateFindings(a) ==
  When(FutureRenewals(a) # {} /\ DaysToRenewal(a) <= 90 /\ BaseScore(a) < 0,
       Finding("approaching", 0, "high", SignalIds("sf", {"days_to_renewal"})))
    \cup When(a.category \in {"High", "Critical"}, Finding("Cerebro risk", 2, "high", SignalIds("cerebro", {"risk_category"})))
    \cup When(Underused(a), Finding("underutilization", 1, "medium", UtilizationIds(a)))
    \cup When(LastActivity(a) \in 31..(Never - 1), Finding("engagement", 1, "medium", {}))
(* Mutant: what the later findings take is given.                          *)
RenewalScoreForgiving(a) == BaseScore(a) + Taken(LateFindings(a))
RenewalScore(a) == BaseScore(a) - Taken(LateFindings(a))
(* Mutant: one point is enough.                                            *)
OutlookOfOne(a) ==
  LET n == RenewalScore(a) IN IF n >= 1 THEN "positive" ELSE IF n >= 0 THEN "neutral" ELSE IF n <= -2 THEN "at_risk" ELSE "unknown"
Outlook(a) ==
  LET n == RenewalScore(a)
  IN  IF n >= 2 THEN "positive" ELSE IF n >= 0 THEN "neutral" ELSE IF n <= -2 THEN "at_risk" ELSE "unknown"
RenewalRisks(a) == BaseFindings(a) \cup LateFindings(a)

SupportFindings(a) ==
  {Finding("flag", 1, IF a.category \in {"High", "Critical"} THEN "high" ELSE "medium", {id}) : id \in FlagIds(a)}
    \cup {Finding("concern", 1, "medium", {id}) : id \in ConcernIds(a)}
    \cup When(Underused(a), Finding("low usage", 1, "medium", UtilizationIds(a)))
SupportScore(a) ==
  Taken(SupportFindings(a))
    + CASE a.category = "Critical" -> 4 [] a.category = "High" -> 3 [] a.category = "Medium" -> 1 [] OTHER -> 0
SupportRisk(a) ==
  LET n == SupportScore(a)
  IN  IF n >= 4 THEN "high" ELSE IF n >= 2 THEN "medium"
      ELSE IF n <= 0 /\ a.category = "Low" THEN "low" ELSE "unknown"

UpsellOf(a) == UpsellBand(UpsellPoints(a, was))
Hypotheses(a) ==
  When(UpsellOf(a) = "Hot", Finding("hot upsell", 2, "high", {}))
    \cup When(a.sentiment = "Green", Finding("positive sentiment", 1, "medium", SignalIds("cse", {"sentiment"})))
    \cup When(Expansions(a) # {}, Finding("pipeline", 1, "medium", PipelineIds(a)))
    \cup When(a.overage, Finding("overage", 2, "high", IdsOf(CerebroUsage(a))))
ExpansionScore(a) ==
  Taken(Hypotheses(a)) + (IF UpsellOf(a) \in {"Active", "Qualified"} THEN 1 ELSE 0)
    + (IF a.products >= 2 THEN 1 ELSE 0)
Potential(a) ==
  LET n == ExpansionScore(a)
  IN  IF n >= 3 THEN "high" ELSE IF n >= 1 THEN "medium"
      ELSE IF UpsellOf(a) = "Watch" THEN "low" ELSE "unknown"

-----------------------------------------------------------------------------
(* Actions and confidence.                                                 *)

Action(name, priority, cites) == [name |-> name, priority |-> priority, cites |-> cites]
CitesOf(F) == UNION {f.cites : f \in F}
HasImpact(F, impact) == \E f \in F : f.impact = impact
HasTitle(F, titles) == \E f \in F : f.title \in titles
ActionsFor(a) ==
  LET risks == RenewalRisks(a)
      support == SupportFindings(a)
  IN  When(HasTitle(risks, {"sentiment"}), Action("update sentiment", "high", CitesOf(risks)))
        \cup When(HasTitle(risks, {"churn risk", "churn reason"}), Action("align on save plan", "high", CitesOf(risks)))
        \cup When(support # {}, Action("review support", IF HasImpact(support, "high") THEN "high" ELSE "medium", CitesOf(support)))
        \cup When(Hypotheses(a) # {}, Action("validate expansion", "medium", CitesOf(Hypotheses(a))))
        \cup When(HasTitle(risks, {"stale commentary"}),
                  Action("refresh commentary", "medium", SignalIds("cse", {"commentary"})))
Maintain == Action("maintain cadence", "low", SignalIds("sf", {"account_name", "account_owner", "assigned_cse"}))
Actions(a) == IF ActionsFor(a) = {} THEN {Maintain} ELSE ActionsFor(a)

Penalty(a) ==
  LET batches == Collected(a)
      count(B) == MapThenSumSet(LAMBDA b : Cardinality(b.ids), B)
  IN  Cardinality(FailedCollectors(a)) + count({b \in batches : b.fresh = "stale"}) \div 3
        + count({b \in batches : b.trust = "low"}) \div 2 + count({b \in batches : b.fresh = "unknown"}) \div 4
        + (IF CountOf(batches) < 5 THEN 2 ELSE 0)
PlanConfidence(a) == IF Penalty(a) >= 4 THEN "low" ELSE IF Penalty(a) >= 2 THEN "medium" ELSE "high"

-----------------------------------------------------------------------------
(* Properties.                                                             *)

(* Every recommendation rests on evidence, and on none that the plan does  *)
(* not have (buildExecutiveSummary: "Recommendations below are derived from*)
(* cited evidence"): also where the band of the upsell is the only ground, *)
(* which cites nothing itself, since no account is Hot without an open     *)
(* expansion, which two patterns find.                                     *)
ActionsCite == \A x \in Actions(facts) : x.cites # {} /\ x.cites \subseteq IdsOf(Collected(facts))

(* What the plan calls a blocker of high impact is acted upon with high    *)
(* priority, but for the Cerebro category and the renewal's approach, which*)
(* have no action of their own; nor has a high support risk that is the    *)
(* Critical category alone (buildActions).                                 *)
BlockersActedOn ==
  /\ SupportRisk(facts) = "high" /\ SupportFindings(facts) = {} => facts.category = "Critical"
  /\ (\E f \in RenewalRisks(facts) : f.impact = "high" /\ f.title \notin {"Cerebro risk", "approaching"}) =>
       \E x \in Actions(facts) : x.priority = "high"

(* An account at risk is left at "maintain cadence" only for reasons that  *)
(* no action is about: a Cerebro category without flags or concerns, or a  *)
(* commentary that is missing or has no date.                              *)
AtRiskActedOn ==
  Outlook(facts) = "at_risk" /\ Actions(facts) = {Maintain} =>
    \/ facts.category \in {"High", "Critical"} /\ SupportFindings(facts) = {}
    \/ ~HasCommentary(facts) \/ facts.commentary = Never

(* A positive outlook is one without any renewal risk, and one with some   *)
(* potential: the conflict of a positive outlook with a low potential,     *)
(* which detectDataQualityIssues looks for, never arises.                  *)
PositiveIsClean ==
  Outlook(facts) = "positive" => RenewalRisks(facts) = {} /\ Potential(facts) # "low"

PlanInv ==
  ActiveAccount(facts) => ActionsCite /\ BlockersActedOn /\ AtRiskActedOn /\ PositiveIsClean

(* A plan of an account for which something got worse is no better than    *)
(* the one before it: no score goes the wrong way, through the SLA of the  *)
(* commentary, the hypotheses or the band of the upsell (scoring.ts).  And *)
(* while days pass without an answer of any source, and no renewal passes, *)
(* the confidence in the plan does not grow.                               *)
ConfidenceGrade(a) == Place(<<"low", "medium", "high">>, PlanConfidence(a))
PlanFollows ==
  [][facts' # facts /\ Worse(facts, facts') /\ ActiveAccount(facts') =>
       /\ RenewalScore(facts') <= RenewalScore(facts)
       /\ SupportScore(facts') >= SupportScore(facts)
       /\ ExpansionScore(facts') <= ExpansionScore(facts)
       /\ \A n \in {1, 30} : facts' = Later(facts, n) => ConfidenceGrade(facts') <= ConfidenceGrade(facts)]_riskVars

(* What got worse shows, and so does what is left alone.                   *)
SignalsFollow == TroubleShows /\ TimeDarkens /\ PlanFollows
=============================================================================
