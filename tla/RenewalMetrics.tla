--------------------------- MODULE RenewalMetrics ---------------------------
(* What the renewals pages compute from the opportunities of the served    *)
(* snapshot (packages/renewal-metrics): what each renewal retains, its     *)
(* outcome on a given day, the account roll-up, the summary with its       *)
(* bridge, the trend over quarters and the lists of the two pages.  It is  *)
(* the book of the weekly script, so the two can be compared.  Dollars are *)
(* in thousands: what differs by less than a thousand is equal here.       *)
EXTENDS ForecastTotals

CONSTANTS Scopes, AsOfDays   \* the sets of quarters and the days looked at

AtrOf(d) == Or(Deal(d).atr, 0)
Plus(n) == Max({0, n})

-----------------------------------------------------------------------------
(* One renewal: what it retains.  Known churn (Confirmed Full Churn) is    *)
(* kept apart from the book that can be saved.                             *)

KnownChurn(d) == Deal(d).renewal /\ Deal(d).full
LostDeal(d) == ClosedDeal(d) /\ Outcome(d) = "lost"
Manager(d) == Or(Deal(d).override, Deal(d).ml)

(* The contract value of a won renewal is the new total or, where it       *)
(* equals the delta, a change of the ATR.                                  *)
FromWon(d) ==
  LET acv == Deal(d).acv  delta == Deal(d).delta
      copied == acv # Unset /\ acv = delta /\ AtrOf(d) > 0
      total == /\ acv # Unset /\ acv >= 0
               /\ delta = Unset \/ acv >= AtrOf(d) \/ (delta < 0 /\ acv <= AtrOf(d))
  IN  IF ~copied /\ total THEN acv
      ELSE IF delta # Unset THEN Plus(AtrOf(d) + delta) ELSE Plus(AtrOf(d))
FromOther(d) ==
  IF Manager(d) # Unset /\ Manager(d) <= 0 THEN Plus(AtrOf(d) + Manager(d))
  ELSE IF Deal(d).acv # Unset THEN Plus(Deal(d).acv) ELSE Plus(AtrOf(d) + Or(Deal(d).delta, 0))
Renewed(d) ==
  IF ~Deal(d).renewal \/ Deal(d).full \/ LostDeal(d) THEN 0
  ELSE IF ~ClosedDeal(d) THEN Plus(AtrOf(d) + Or(Manager(d), Or(Deal(d).delta, 0)))
  ELSE IF Outcome(d) = "won" THEN FromWon(d) ELSE FromOther(d)

(* Its outcome on a day.                                                   *)
OutcomeOn(d, day) ==
  IF Deal(d).full \/ (LostDeal(d) /\ AtrOf(d) > 0) THEN "full_churn"
  ELSE IF ~ClosedDeal(d) THEN (IF Deal(d).close < day THEN "pushed" ELSE "pending")
  ELSE IF Renewed(d) < AtrOf(d) THEN "downsell"
  ELSE IF Renewed(d) > AtrOf(d) THEN "expanded" ELSE "flat"
OpenRow(d) == ~ClosedDeal(d) /\ ~Deal(d).full

Churned(d) == IF LostDeal(d) THEN AtrOf(d) ELSE 0
(* Mutant: only what is closed is a loss.                                  *)
DownsellWhenClosed(d) == IF LostDeal(d) \/ ~ClosedDeal(d) THEN 0 ELSE Plus(AtrOf(d) - Renewed(d))
Downsell(d) == IF LostDeal(d) THEN 0 ELSE Plus(AtrOf(d) - Renewed(d))

-----------------------------------------------------------------------------
(* The rows of a set of quarters, and their accounts.                      *)

RenewalsOf(Q) == {d \in Deals : Deal(d).renewal /\ Deal(d).close \div 90 \in Q}
KnownRows(Q) == {d \in RenewalsOf(Q) : KnownChurn(d)}
(* Mutant: a lost renewal without ATR is left out, and one with it too.    *)
RowsUnlessLost(Q) == {d \in RenewalsOf(Q) : ~KnownChurn(d) /\ AtrOf(d) > 0 /\ ~LostDeal(d)}
RowsOf(Q) == {d \in RenewalsOf(Q) : ~KnownChurn(d) /\ (AtrOf(d) > 0 \/ LostDeal(d))}

OfAccount(S, a) == {d \in S : Holder[d] = a}
FirstClose(S) == Min({Deal(d).close : d \in S})       \* called latestClose in the code

AccountOutcome(S, day) ==
  IF \E d \in S : OutcomeOn(d, day) = "full_churn" THEN "full_churn"
  ELSE IF Total(S, Renewed) > Total(S, AtrOf) THEN "expanded"
  ELSE IF \E d \in S : OpenRow(d) THEN (IF FirstClose(S) < day THEN "pushed" ELSE "pending")
  ELSE IF Total(S, Renewed) < Total(S, AtrOf) THEN "downsell" ELSE "flat"

Closed(outcome) == outcome \notin {"pending", "pushed"}

With(S, outcome, day) == {a \in Accounts(S) : AccountOutcome(OfAccount(S, a), day) = outcome}
Summary(S, day) ==
  LET open == {d \in S : OpenRow(d)}
      gain(a) == Total(OfAccount(S, a), Renewed) - Total(OfAccount(S, a), AtrOf)
  IN  [atr |-> Total(S, AtrOf), renewed |-> Total(S, Renewed), churned |-> Total(S, Churned),
       downsell |-> Total(S, Downsell), expansion |-> MapThenSumSet(gain, With(S, "expanded", day)),
       accounts |-> Cardinality(Accounts(S)),
       openAccounts |-> Cardinality(Accounts(open)), openAtr |-> Total(open, AtrOf),
       pushed |-> Cardinality({d \in open : OutcomeOn(d, day) = "pushed"})]
Metrics(Q, day) == Summary(RowsOf(Q), day)
Known(Q) == [accounts |-> Cardinality(Accounts(KnownRows(Q))), atr |-> Total(KnownRows(Q), AtrOf)]

(* A quarter is looked at on its last day, or today if that is earlier.    *)
AsOf(q, today) == Min({today, 90 * (q + 1) - 1})
Trend(Q, today) == {[quarter |-> q, metrics |-> Metrics({q}, AsOf(q, today))] : q \in Q}

-----------------------------------------------------------------------------
(* The status that the workbench shows, of a row or of an account.         *)

StatusOf(outcome, atr, renewed, downsell) ==
  IF outcome # "pending" THEN outcome
  ELSE IF atr > 0 /\ (downsell >= atr \/ renewed = 0) THEN "forecast_full_churn"
  ELSE IF atr > 0 /\ renewed > atr THEN "forecast_expansion"
  ELSE IF atr > 0 /\ renewed < atr THEN "forecast_downsell" ELSE "open"
Status(d, day) == StatusOf(OutcomeOn(d, day), AtrOf(d), Renewed(d), Downsell(d))
AccountStatus(S, day) ==
  StatusOf(AccountOutcome(S, day), Total(S, AtrOf), Total(S, Renewed), Total(S, Downsell))

(* The lists of the pages.                                                 *)
AtRisk(S) == {d \in S : OpenRow(d) /\ book.health[Holder[d]].category \in {"High", "Critical"}}
DueWithin(S, horizon, today) ==
  {d \in S : OpenRow(d) /\ Deal(d).close >= today /\ Deal(d).close <= today + horizon}
Buckets == {30, 60, 90}
(* Mutant: the boundaries belong to two buckets.                           *)
UpcomingAtrTwice(S, horizon, today) ==
  {d \in S : OpenRow(d) /\ Deal(d).close - today \in (horizon - 30)..horizon}
UpcomingAtr(S, horizon, today) ==
  {d \in S : OpenRow(d) /\ Deal(d).close - today \in
               (IF horizon = 30 THEN 0 ELSE horizon - 29)..horizon}
Attention(S, day) ==
  {a \in Accounts(S) : AccountOutcome(OfAccount(S, a), day) \in {"full_churn", "pushed", "downsell", "pending"}}
PipelineAccounts(S, day) == {a \in Accounts(S) : ~Closed(AccountOutcome(OfAccount(S, a), day))}

-----------------------------------------------------------------------------
(* No renewal's ATR is counted twice or lost between the saveable book and *)
(* the known churn, whose tests stand at four places.                      *)
NothingCountedTwice ==
  \A Q \in Scopes :
    /\ KnownRows(Q) \cap RowsOf(Q) = {}
    /\ Total(RowsOf(Q), AtrOf) + Known(Q).atr = Total(RenewalsOf(Q), AtrOf)

(* The bridge from ATR to renewed revenue: row by row, churn, downsell and *)
(* growth explain the difference, so the bridge that is shown closes as    *)
(* soon as no account has both a row that grows and one that does not keep *)
(* its ATR (README, disagreements); it never shows too much growth.        *)
BridgeCloses ==
  \A Q \in Scopes, day \in AsOfDays :
    LET m == Metrics(Q, day)
        growth(d) == Plus(Renewed(d) - AtrOf(d))
        mixed == \E d, e \in RowsOf(Q) : Holder[d] = Holder[e] /\ growth(d) > 0 /\ Renewed(e) < AtrOf(e)
    IN  /\ m.renewed = m.atr - m.churned - m.downsell + Total(RowsOf(Q), growth)
        /\ m.expansion <= Total(RowsOf(Q), growth)
        /\ ~mixed => m.renewed = m.atr - m.churned - m.downsell + m.expansion

(* The trend's dollars add up to those of its quarters taken together, and *)
(* do not depend on the day, though outcomes do.                           *)
TrendAddsUp ==
  \A Q \in {S \in Scopes : Cardinality(S) > 1}, today \in AsOfDays :
    LET t == Trend(Q, today)  m == Metrics(Q, today)
        sum(f) == MapThenSumSet(LAMBDA point : point.metrics[f], t)
    IN  /\ \A f \in {"atr", "renewed", "churned", "downsell", "openAtr"} : sum(f) = m[f]
        /\ \A point \in t : point.metrics.pushed <= m.pushed

(* What was pushed stays pushed as days go by, nothing closed is; and no   *)
(* open renewal of a past quarter is still called pending, except one that *)
(* is due on the quarter's last day.                                       *)
PushedStays ==
  \A d \in RowsOf({0, 1, 2}), day \in AsOfDays :
    LET quarter == Deal(d).close \div 90  S == OfAccount(RowsOf({quarter}), Holder[d]) IN
    /\ \A later \in AsOfDays : later >= day /\ AccountOutcome(S, day) = "pushed" =>
         AccountOutcome(S, later) = "pushed"
    /\ OutcomeOn(d, AsOf(quarter, day)) = "pending" =>
         day <= Deal(d).close \/ Deal(d).close = 90 * (quarter + 1) - 1

(* Every row that loses money says so in its status, and an account with   *)
(* one renewal has that renewal's outcome, unless it grows while open.     *)
LossIsShown ==
  \A Q \in Scopes, day \in AsOfDays :
    \A d \in RowsOf(Q) :
      /\ Downsell(d) + Churned(d) > 0 =>
           Status(d, day) \in {"pushed", "forecast_full_churn", "forecast_downsell", "downsell", "full_churn"}
      /\ OfAccount(RowsOf(Q), Holder[d]) = {d} =>
           \/ AccountOutcome({d}, day) = OutcomeOn(d, day)
           \/ OpenRow(d) /\ Renewed(d) > AtrOf(d) /\ AccountOutcome({d}, day) = "expanded"

(* A renewal that is open and at risk, or an account that shrinks, needs   *)
(* attention, and an open renewal is in the workbench's pipeline: unless   *)
(* its account grows on the whole or lost another renewal altogether.      *)
ThreatIsListed ==
  \A Q \in Scopes, day \in AsOfDays :
    LET S == RowsOf(Q)
        grows(a) == Total(OfAccount(S, a), Renewed) > Total(OfAccount(S, a), AtrOf)
        gone(a) == \E d \in OfAccount(S, a) : OutcomeOn(d, day) = "full_churn"
    IN  /\ \A d \in AtRisk(S) : Holder[d] \in Attention(S, day) \/ grows(Holder[d])
        /\ \A a \in Accounts(S) : Total(OfAccount(S, a), Renewed) < Total(OfAccount(S, a), AtrOf) =>
             /\ a \in Attention(S, day)
             /\ AccountStatus(OfAccount(S, a), day) \notin {"open", "flat", "forecast_expansion", "expanded"}
        /\ \A d \in S : OpenRow(d) => \/ Holder[d] \in PipelineAccounts(S, day)
                                     \/ grows(Holder[d]) \/ gone(Holder[d])

(* The three buckets of the next ninety days hold each open renewal that   *)
(* is due in them once.                                                    *)
BucketsMeet ==
  \A today \in AsOfDays :
    LET S == RowsOf(0..9) IN
    /\ UNION {UpcomingAtr(S, h, today) : h \in Buckets} = DueWithin(S, 90, today)
    /\ \A g, h \in Buckets : g # h => UpcomingAtr(S, g, today) \cap UpcomingAtr(S, h, today) = {}

(* The workbench and the weekly script tell one story of an open renewal   *)
(* that the manager has spoken of: it is forecast to lose exactly what the *)
(* script's Flash takes off, up to its ATR; and without an override, what  *)
(* the workbench shows as a loss is a row of the script.                   *)
AgreesWithScript ==
  \A d \in RowsOf({0}) : OpenRow(d) /\ Deal(d).known = 0 =>
    /\ Deal(d).override # Unset => Downsell(d) = Min({AtrOf(d), -Dollars(d)})
    /\ Downsell(d) > 0 => ChurnRow(d)

MetricsInv == /\ NothingCountedTwice /\ BridgeCloses /\ TrendAddsUp /\ PushedStays /\ LossIsShown
              /\ ThreatIsListed /\ BucketsMeet /\ AgreesWithScript
=============================================================================
