------------------------------ MODULE RiskScores ------------------------------
(* How an account's risk, upsell, hygiene and rank are computed from what  *)
(* is known of it (packages/scoring).  facts is what the sources say of    *)
(* one account now, was what the last served snapshot said.  Facts change  *)
(* one at a time, days pass, and a refresh makes them the last snapshot.   *)
(* Ages are in days; Never is no date at all and is older than any; None   *)
(* is a missing number.  due is the number of calendar days to a close     *)
(* date, and a close date is a midnight, so it is one day more than what   *)
(* daysUntil computes at any time of the day but midnight.  A stage is     *)
(* open, closed or "numbered": closed by a name like "8.0 - Closed/Won",   *)
(* which scoring takes for closed and the CTA engine and the plans do not. *)
EXTENDS Integers, Sequences, FiniteSets, FiniteSetsExt

CONSTANTS
  Opps,             \* the account's opportunities
  StartAccounts,    \* the facts an account may start with
  AccountValues(_), \* the values tried for a field of the account
  OppValues(_),     \* the values tried for a field of an opportunity
  MaxEdits          \* changes of one behaviour

VARIABLES
  facts,         \* the account
  was,           \* what the last snapshot has of it
  edits          \* changes so far

riskVars == <<facts, was, edits>>

Never == 10000
None == -1000
Risks == {"utilization", "engagement", "suite", "share", "legacyTech", "expertise", "pricing"}
Categories == <<"Low", "Medium", "High", "Critical">>
Sentiments == <<"Green", "Yellow", "Red", "Confirmed Churn">>

(* What is known of an account and of an opportunity: ages, numbers and    *)
(* answers.  Every age, and every age that the days of a behaviour make of *)
(* it, is less than Never.                                                 *)
Ages == {"commentary", "sentimentAge", "meeting", "workshop", "updated", "cerebroAge", "asOf", "docAge"}
Counts == {"minutes30", "minutes90", "pbu", "exec", "products", "arr", "live", "plans", "found", "answers"}
Answers == {"cse", "slack", "glean", "churnReason", "overage"}
FactFields == Ages \cup Counts \cup Answers \cup {"category", "flags", "sentiment", "text", "task", "errors", "status"}
FactType(f) ==
  IF f \in Ages \cup Counts THEN Int ELSE IF f \in Answers THEN BOOLEAN
  ELSE IF f = "category" THEN {"none", "Low", "Medium", "High", "Critical"}
  ELSE IF f = "sentiment" THEN {"none", "Green", "Yellow", "Red", "Confirmed Churn"}
  ELSE IF f = "flags" THEN SUBSET Risks ELSE IF f = "errors" THEN SUBSET {"cerebro", "glean"} ELSE STRING
OppAnswers == {"early", "steps", "notes", "fullChurn", "notice", "risk", "reason", "soft"}
OppAmounts == {"due", "atr", "knownChurn", "acvDelta"}
OppFields == OppAnswers \cup OppAmounts \cup {"type", "stage"}
OppType(f) == IF f \in OppAnswers THEN BOOLEAN ELSE IF f \in OppAmounts THEN Int ELSE STRING
InTime(age, days) == age = Never \/ age + days < Never
IsAccount(a, days) ==
  /\ a = [f \in FactFields \cup {"opps"} |-> a[f]]
  /\ \A f \in FactFields : a[f] \in FactType(f) /\ (f \in Ages => InTime(a[f], days))
  /\ a.opps = [o \in Opps |-> [f \in OppFields |-> a.opps[o][f]]]
  /\ \A o \in Opps : a.opps[o].due <= Never /\ \A f \in OppFields : a.opps[o][f] \in OppType(f)

ASSUME RiskAssumption ==
  /\ Opps \subseteq Nat /\ IsFiniteSet(Opps) /\ MaxEdits \in Nat
  /\ \A a \in StartAccounts : IsAccount(a, 30 * MaxEdits)
  /\ \A f \in FactFields : AccountValues(f) \subseteq FactType(f)
  /\ \A f \in Ages : \A age \in AccountValues(f) : InTime(age, 30 * MaxEdits)
  /\ \A f \in OppFields : OppValues(f) \subseteq OppType(f)
  /\ \A due \in OppValues("due") : due <= Never

(* The place in an order, from 0; what is not in it counts as the first    *)
(* (`?? 0` in wowDirectionSignal).                                         *)
Place(order, x) == Max({0} \cup {i - 1 : i \in {j \in DOMAIN order : order[j] = x}})

Between(low, x, high) == Max({low, Min({x, high})})

Present(a) == {o \in Opps : a.opps[o].type # "none"}
Renewals(a) == {o \in Present(a) : a.opps[o].type = "Renewal"}
Dated(a) == IF Renewals(a) # {} THEN Renewals(a) ELSE Present(a)
DaysUntil(a, o) == a.opps[o].due - 1
Noticed(a) == \E o \in Present(a) : a.opps[o].notice
ConfirmedChurn(a) == a.sentiment = "Confirmed Churn" \/ Noticed(a)

-----------------------------------------------------------------------------
(* The composite score.                                                    *)

CategoryPoints(a) ==
  CASE a.category = "Critical" -> 25 [] a.category = "High" -> 18
    [] a.category = "Medium" -> 10 [] OTHER -> 0

FlagPoints(a) == Min({14, 2 * Cardinality(a.flags)})

SentimentPoints(a) ==
  CASE a.sentiment = "Confirmed Churn" -> 20 [] a.sentiment = "Red" -> 12
    [] a.sentiment = "Yellow" -> 6 [] OTHER -> 0

Worried(a) == a.sentiment \in {"Red", "Yellow"}
SLA(a) == IF Worried(a) THEN 14 ELSE 30

StalePoints(a) ==
  IF a.commentary = Never \/ a.commentary <= SLA(a) THEN 0
  ELSE Between(2, (a.commentary - SLA(a)) \div 7 + 2, 10)

(* 10 - 20 * m30 / (m90 / 3), rounded, where that is below one half.       *)
DecayPoints(a) ==
  IF a.minutes30 = None \/ a.minutes90 <= 0 \/ 6 * a.minutes30 >= a.minutes90 THEN 0
  ELSE Max({0, (2 * (10 * a.minutes90 - 60 * a.minutes30) + a.minutes90) \div (2 * a.minutes90)})

(* diffAccount reports a field that differs from the last snapshot, and    *)
(* wowDirectionSignal adds up the moves.                                   *)
MovePoints(a, before) ==
  Between(-10, 3 * (Place(Categories, a.category) - Place(Categories, before.category))
             + 3 * (Place(Sentiments, a.sentiment) - Place(Sentiments, before.sentiment)), 10)

ProximityPoints(a) ==
  LET ahead == {DaysUntil(a, o) : o \in {x \in Dated(a) : DaysUntil(a, x) >= 0}}
  IN  IF ahead = {} \/ Min(ahead) > 90 THEN 0
      ELSE IF Min(ahead) <= 30 THEN 10 ELSE IF Min(ahead) <= 60 THEN 6 ELSE 3

NoticePoints(a) == IF Noticed(a) THEN 30 ELSE 0

RiskScore(a, before) ==
  Between(0, CategoryPoints(a) + FlagPoints(a) + SentimentPoints(a) + StalePoints(a)
             + DecayPoints(a) + MovePoints(a, before) + ProximityPoints(a) + NoticePoints(a), 100)

Band(score) ==
  IF score >= 75 THEN "Critical" ELSE IF score >= 50 THEN "High"
  ELSE IF score >= 25 THEN "Medium" ELSE "Low"

-----------------------------------------------------------------------------
(* The level that is shown, the bucket and the rank.                       *)

(* Mutant: two flags are not enough.                                       *)
LevelOfMore(a) ==
  LET n == Cardinality(a.flags)
  IN  IF a.category # "none" THEN a.category
      ELSE IF n >= 4 THEN "Critical" ELSE IF n > 2 THEN "High" ELSE IF n = 1 THEN "Medium"
      ELSE IF a.sentiment = "Red" THEN "High" ELSE IF a.sentiment = "Yellow" THEN "Medium"
      ELSE "Unknown"
Level(a) ==
  LET n == Cardinality(a.flags)
  IN  IF a.category # "none" THEN a.category
      ELSE IF n >= 4 THEN "Critical" ELSE IF n >= 2 THEN "High" ELSE IF n = 1 THEN "Medium"
      ELSE IF a.sentiment = "Red" THEN "High" ELSE IF a.sentiment = "Yellow" THEN "Medium"
      ELSE "Unknown"

Bucket(a) ==
  IF ConfirmedChurn(a) THEN "Confirmed Churn"
  ELSE IF Level(a) \in {"Critical", "High"} THEN "Saveable Risk" ELSE "Healthy"

(* The earliest renewal, closed and past ones included.                    *)
DaysToRenewal(a) == IF Dated(a) = {} THEN Never ELSE Min({DaysUntil(a, o) : o \in Dated(a)})

SumOver(a, F(_)) == MapThenSumSet(LAMBDA o : F(a.opps[o]), Present(a))
Atr(a) == SumOver(a, LAMBDA o : o.atr)
AcvAtRisk(a) ==
  IF Bucket(a) = "Healthy" THEN 0
  ELSE SumOver(a, LAMBDA o : Max({o.knownChurn, -o.knownChurn}) + Max({0, -o.acvDelta}))

BucketOrder == <<"Saveable Risk", "Confirmed Churn", "Healthy">>
LevelOrder == <<"Critical", "High", "Medium", "Low", "Unknown">>

(* comparePriority(a, b) < 0                                               *)
Outranks(a, b) ==
  LET bucket(x) == Place(BucketOrder, Bucket(x))
      level(x) == Place(LevelOrder, Level(x))
  IN  \/ bucket(a) < bucket(b)
      \/ bucket(a) = bucket(b) /\ level(a) < level(b)
      \/ /\ bucket(a) = bucket(b) /\ level(a) = level(b)
         /\ \/ DaysToRenewal(a) < DaysToRenewal(b)
            \/ DaysToRenewal(a) = DaysToRenewal(b) /\ Atr(a) > Atr(b)

-----------------------------------------------------------------------------
(* Upsell and hygiene.                                                     *)

UpsellPoints(a, before) ==
  LET points(fires, n) == IF fires THEN n ELSE 0
  IN  Min({100,
        points(\E o \in Present(a) : a.opps[o].type = "Upsell" /\ a.opps[o].stage = "open", 30)
        + points(a.workshop <= 90, 15)
        + points(a.category # "none" /\ before.category # "none"
                 /\ Place(Categories, a.category) < Place(Categories, before.category), 15)
        + points(a.pbu > 70, 15)
        + points(a.sentiment = "Green" /\ SumOver(a, LAMBDA o : o.acvDelta) >= 0, 10)
        + points(a.products < 3, 10)
        + points(a.meeting <= 30, 5)})

UpsellBand(n) ==
  IF n >= 76 THEN "Hot" ELSE IF n >= 51 THEN "Active" ELSE IF n >= 26 THEN "Qualified" ELSE "Watch"

Violations(a) ==
  {r \in {"stale_sentiment_commentary", "missing_next_action", "no_workshop_logged",
          "missing_flm_notes_on_risk", "no_exec_engagement", "get_to_green_plan_missing"} :
     CASE r = "stale_sentiment_commentary" ->
            (Worried(a) /\ a.commentary > 14) \/ (a.sentiment = "Green" /\ a.commentary > 30)
       [] r = "missing_next_action" ->
            /\ ~\E o \in Present(a) : a.opps[o].steps
            /\ a.task \in {"none", "closed"}
       [] r = "no_workshop_logged" -> a.workshop > 365
       [] r = "missing_flm_notes_on_risk" ->
            Worried(a) /\ \E o \in Present(a) : ~a.opps[o].notes
       [] r = "no_exec_engagement" -> a.exec = 0 /\ Level(a) \in {"High", "Critical"}
       [] r = "get_to_green_plan_missing" -> Worried(a) /\ a.text # "actionPlan"}

-----------------------------------------------------------------------------
(* Facts change.                                                           *)

Older(age, n) == IF age = Never THEN Never ELSE age + n
Later(a, n) ==
  [f \in DOMAIN a |->
     IF f \in Ages THEN Older(a[f], n)
     ELSE IF f = "opps" THEN [o \in Opps |-> [a.opps[o] EXCEPT !.due = @ - n]]
     ELSE a[f]]

RiskInit == facts \in StartAccounts /\ was = facts /\ edits = 0

Edit(f) ==
  /\ \E v \in AccountValues(f) : facts' = [facts EXCEPT ![f] = v]
  /\ was' = was

EditOpp(o, f) ==
  /\ \E v \in OppValues(f) : facts' = [facts EXCEPT !.opps[o][f] = v]
  /\ was' = was

DaysPass == \E n \in {1, 30} : facts' = Later(facts, n) /\ was' = was

(* A refresh is served: its snapshot is what the next one is compared with.*)
Refreshed == facts # was /\ was' = facts /\ facts' = facts

RiskNext ==
  /\ edits < MaxEdits /\ edits' = edits + 1
  /\ \/ \E f \in DOMAIN facts \ {"opps"} : Edit(f)
     \/ \E o \in Present(facts) : \E f \in DOMAIN facts.opps[o] : EditOpp(o, f)
     \/ DaysPass
     \/ Refreshed

RiskSpec == RiskInit /\ [][RiskNext]_riskVars

-----------------------------------------------------------------------------
(* Properties.                                                             *)

(* One thing about the account has become worse and nothing else changed.  *)
Worse(a, b) ==
  LET same(f) == [a EXCEPT ![f] = b[f]] = b
  IN  \/ same("flags") /\ a.flags \subseteq b.flags
      \/ /\ same("category") /\ a.category # "none"
         /\ Place(Categories, a.category) < Place(Categories, b.category)
      \/ /\ same("sentiment") /\ a.sentiment # "Confirmed Churn"
         /\ Place(Sentiments, a.sentiment) < Place(Sentiments, b.sentiment)
      \/ same("minutes30") /\ b.minutes30 # None /\ b.minutes30 < a.minutes30
      \/ \E o \in Present(a) : b = [a EXCEPT !.opps[o].notice = TRUE]
      \/ \E n \in {1, 30} :    \* and no renewal date is reached or passed
           b = Later(a, n) /\ \A o \in Present(a) : a.opps[o].due > n \/ a.opps[o].due < 0

(* The composite score never goes down when something gets worse: not      *)
(* through the two SLAs of stale commentary, which change with the         *)
(* sentiment, nor through the bounded movement, the proximity of a renewal *)
(* or the cap (computeRiskScore).                                          *)
ScoreFollows ==
  [][facts' # facts /\ was' = was /\ Worse(facts, facts') => RiskScore(facts', was) >= RiskScore(facts, was)]_riskVars

(* Nor does the level that is shown, nor the rank of an account that is    *)
(* not lost, but in one case: the first risk flag of a Red account without *)
(* a Cerebro category takes it from High to Medium (getRiskIdentifier).    *)
Masked(a, b) ==
  a.category = "none" /\ a.sentiment = "Red" /\ a.flags = {} /\ Cardinality(b.flags) = 1
LevelFollows ==
  [][facts' # facts /\ Worse(facts, facts') /\ ~ConfirmedChurn(facts') /\ ~Masked(facts, facts') =>
       /\ Place(LevelOrder, Level(facts')) <= Place(LevelOrder, Level(facts))
       /\ ~Outranks(facts, facts')]_riskVars

(* What got worse shows.                                                   *)
TroubleShows == ScoreFollows /\ LevelFollows

(* Scores are percentages, and nobody has a negative amount at risk,       *)
(* whatever the sign of the known churn (fields are read as they are).     *)
RiskTypeOK ==
  /\ RiskScore(facts, was) \in 0..100 /\ UpsellPoints(facts, was) \in 0..100
  /\ Bucket(facts) \in {"Saveable Risk", "Confirmed Churn", "Healthy"} /\ AcvAtRisk(facts) >= 0
  /\ edits \in 0..MaxEdits
=============================================================================
