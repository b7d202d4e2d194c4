--------------------------- MODULE ForecastTotals ---------------------------
(* What the weekly churn script says of a quarter                          *)
(* (packages/forecast-generator): the totals of its header, the lists of   *)
(* accounts under it and the week-over-week lines, all computed from the   *)
(* opportunities of the last refresh, book, and of the refresh a week      *)
(* before it, base.  Dollars are in thousands, days count from the start   *)
(* of the quarter that the script is made for.                             *)
EXTENDS Integers, Sequences, FiniteSets, FiniteSetsExt

CONSTANTS
  Deals,            \* opportunities, numbered in the order of the views
  Holder,           \* the account of each
  Books,            \* the opportunities and accounts to start from
  DealValues(_),    \* the values tried for a field of an opportunity
  HealthValues(_),  \* the values tried for a field of an account
  ListLength,           \* accounts on a list: 5
  ListedRed,        \* red and yellow ones among those that close the gap:
  ListedYellow,     \*   3 and 2
  ListedGaps,       \* overrides that differ from the best case: 8
  MaxMoves          \* changes of one behaviour

(* What a view holds of an opportunity and of its account.                 *)
Flags == {"renewal", "notice", "full"}
Numbers == {"stage", "close", "known", "override", "ml", "delta", "atr", "acv", "hedge", "best"}
DealFields == Flags \cup Numbers \cup {"category"}
HealthFlags == {"churned", "saveable"}
HealthFields == HealthFlags \cup {"category", "level", "sentiment"}
OfField(f) == IF f \in Flags \cup HealthFlags THEN BOOLEAN ELSE IF f \in Numbers THEN Int ELSE STRING
OppTypes ==
  [renewal : BOOLEAN, notice : BOOLEAN, full : BOOLEAN, category : STRING, stage : Int, close : Int, known : Int,
   override : Int, ml : Int, delta : Int, atr : Int, acv : Int, hedge : Int, best : Int]
HealthTypes == [churned : BOOLEAN, saveable : BOOLEAN, category : STRING, level : STRING, sentiment : STRING]
Holders == {Holder[d] : d \in Deals}
BookTypes == [deals : [Deals -> OppTypes], health : [Holders -> HealthTypes]]

ASSUME TotalsAssumption ==
  /\ Deals \subseteq Nat /\ IsFiniteSet(Deals) /\ Books \subseteq BookTypes
  /\ {ListLength, ListedRed, ListedYellow, ListedGaps, MaxMoves} \subseteq Nat
  /\ \A f \in DealFields : DealValues(f) \subseteq OfField(f)
  /\ \A f \in HealthFields : HealthValues(f) \subseteq OfField(f)

VARIABLES
  book,    \* [deals: each opportunity, health: each account]
  base,    \* the same a week before
  moves    \* changes so far

totalVars == <<book, base, moves>>

Unset == -1000          \* null, of a number
Won == 101              \* 8.0 - Closed/Won; the open stages by their number
Lost == 102             \* 9.0 - Closed/Lost

Deal(d) == book.deals[d]
Or(x, y) == IF x = Unset THEN y ELSE x

-----------------------------------------------------------------------------
(* The quarter, and which of its opportunities count.                      *)

InQuarter(q) == {d \in Deals : Deal(d).close \div 90 = q}
Rows == InQuarter(0)

OnTheLine(d) == Deal(d).category \notin {"none", "omitted", "closed", "closed lost", "closed won"}
ClosedDeal(d) ==
  Deal(d).category \in {"closed", "closed lost", "closed won"} \/ Deal(d).stage >= Won
Outcome(d) ==
  IF Deal(d).category = "closed lost" \/ Deal(d).stage = Lost THEN "lost"
  ELSE IF Deal(d).category = "closed won" \/ Deal(d).stage = Won THEN "won" ELSE "other"

(* hasDownForecastSignal: the override, where it is set, decides alone.    *)
(* Mutant: a rep's forecast counts beside it.                              *)
DownWithRep(d) ==
  \/ Deal(d).known > 0
  \/ /\ Deal(d).renewal
     /\ \/ Deal(d).override # Unset /\ Deal(d).override < 0
        \/ Deal(d).ml # Unset /\ Deal(d).ml < 0
        \/ Deal(d).delta # Unset /\ Deal(d).delta < 0
Down(d) ==
  \/ Deal(d).known > 0
  \/ /\ Deal(d).renewal
     /\ IF Deal(d).override # Unset THEN Deal(d).override < 0
        ELSE \/ Deal(d).ml # Unset /\ Deal(d).ml < 0
             \/ Deal(d).delta # Unset /\ Deal(d).delta < 0

ChurnRow(d) == Deal(d).renewal /\ Down(d)
SaveTarget(d) == Deal(d).renewal /\ OnTheLine(d) /\ Down(d)

(* opportunityChurnFlashUSD.                                               *)
Dollars(d) ==
  IF Deal(d).known > 0 THEN -Deal(d).known
  ELSE IF ~Deal(d).renewal THEN 0
  ELSE IF Deal(d).override # Unset THEN Min({0, Deal(d).override})
  ELSE IF Deal(d).ml # Unset /\ Deal(d).ml < 0 THEN Deal(d).ml
  ELSE IF Deal(d).delta # Unset THEN Min({0, Deal(d).delta}) ELSE 0

Total(S, Usd(_)) == MapThenSumSet(Usd, S)
ChurnRows(q) == {d \in InQuarter(q) : ChurnRow(d)}
Targets == {d \in Rows : SaveTarget(d)}
Flash(q) == Total(ChurnRows(q), Dollars)
TotalRisk(q) == Total(ChurnRows(q), LAMBDA d : Or(Deal(d).atr, 0))
HedgeOf(d) == Or(Deal(d).hedge, 0)
Hedge(q) == Total({d \in InQuarter(q) : SaveTarget(d)}, HedgeOf)

Header ==
  LET open == {d \in ChurnRows(0) : ~ClosedDeal(d)}
      closed(how) == {d \in ChurnRows(0) : ClosedDeal(d) /\ Outcome(d) = how}
  IN  [open |-> Cardinality(open), openUSD |-> Total(open, Dollars),
       won |-> Cardinality(closed("won")), lost |-> Cardinality(closed("lost")),
       other |-> Cardinality(closed("other")),
       closedUSD |-> Total(ChurnRows(0) \ open, Dollars)]

-----------------------------------------------------------------------------
(* Accounts and their colours.                                             *)

Colour(a) ==
  LET h == book.health[a]
  IN  IF h.churned \/ h.level \in {"Critical", "High"} \/ h.sentiment = "Red" THEN "red"
      ELSE IF h.level = "Medium" \/ h.sentiment = "Yellow" THEN "yellow" ELSE "green"

Kpis(q) ==
  LET accounts == {Holder[d] : d \in InQuarter(q)}
  IN  [flash |-> Flash(q), risk |-> -TotalRisk(q), hedge |-> Hedge(q),
       red |-> Cardinality({a \in accounts : Colour(a) = "red"}),
       yellow |-> Cardinality({a \in accounts : Colour(a) = "yellow"}),
       accounts |-> Cardinality(accounts), deals |-> Cardinality(InQuarter(q))]

(* The largest opportunity of each account, and the n largest of a set;    *)
(* of equals the first.                                                    *)
PerAccount(S, Usd(_)) ==
  {d \in S : \A e \in S : Holder[e] = Holder[d] => Usd(d) > Usd(e) \/ (Usd(d) = Usd(e) /\ d <= e)}
Top(S, Usd(_), n) ==
  {d \in S : Cardinality({e \in S : Usd(e) > Usd(d) \/ (Usd(e) = Usd(d) /\ e < d)}) < n}
Accounts(S) == {Holder[d] : d \in S}

Hedged == Top(PerAccount({d \in Targets : HedgeOf(d) > 0}, HedgeOf), HedgeOf, ListLength)

Exposed(d) == Or(Deal(d).atr, Or(Deal(d).acv, 0))
(* Mutant: an account on the hedged list is offered again.                 *)
NotYetHedgedAgain ==
  Top(PerAccount({d \in Targets : HedgeOf(d) <= 0 /\ Exposed(d) > 0}, Exposed), Exposed, ListLength)
NotYetHedged ==
  Top(PerAccount({d \in Targets : /\ HedgeOf(d) <= 0 /\ Holder[d] \notin Accounts(Hedged)
                                  /\ Exposed(d) > 0}, Exposed), Exposed, ListLength)

CloseGap ==
  LET candidates == PerAccount({d \in Targets : Exposed(d) > 0}, Exposed)
      of(band) == {d \in candidates : Colour(Holder[d]) = band}
  IN  Top(of("red"), Exposed, ListedRed) \cup Top(of("yellow"), Exposed, ListedYellow)

KeySaves(band) ==
  LET acv(d) == Or(Deal(d).acv, 0)
  IN  Top(PerAccount({d \in Rows : /\ Colour(Holder[d]) = band /\ Deal(d).renewal
                                   /\ OnTheLine(d) /\ acv(d) > 0}, acv), acv, ListLength)

(* Overrides that differ from the best case by a thousand or more.         *)
Differs(d) ==
  /\ Deal(d).override # Unset /\ Deal(d).best # Unset
  /\ Deal(d).override # Deal(d).best
Gap(d) == IF Deal(d).override > Deal(d).best THEN Deal(d).override - Deal(d).best
          ELSE Deal(d).best - Deal(d).override
Mismatches == Top({d \in Rows : Deal(d).renewal /\ OnTheLine(d) /\ Differs(d)}, Gap, ListedGaps)
Primary(a) == PerAccount({d \in Mismatches : Holder[d] = a}, Gap)

(* The accounts that Glean is asked about: of each account the first       *)
(* opportunity of the quarter says whether it is on a list already.        *)
FirstRow(a) == CHOOSE d \in Rows : Holder[d] = a /\ \A e \in Rows : Holder[e] = a => d <= e
FirstIsTarget(a) ==
  LET d == FirstRow(a)  ml == Or(Deal(d).override, Deal(d).ml)
  IN  /\ Deal(d).renewal /\ OnTheLine(d)
      /\ Deal(d).known > 0 \/ (ml # Unset /\ ml < 0) \/ (Deal(d).delta # Unset /\ Deal(d).delta < 0)
Offered == {a \in Accounts(Rows) :
              ~FirstIsTarget(a) /\ ~book.health[a].churned /\ ~book.health[a].saveable}
Emerging(answer) == answer \ (Accounts(Hedged) \cup Accounts(NotYetHedged))

-----------------------------------------------------------------------------
(* Week over week: the differences between the two snapshots (diffAccount, *)
(* diffOpportunity) that eventToSignal has a line for.                     *)

RiskRank == [none |-> 0, Low |-> 1, Medium |-> 2, High |-> 3, Critical |-> 4]
SentimentRank == [none |-> 0, Red |-> 1, Yellow |-> 2, Green |-> 3]   \* Confirmed Churn: 0

DealChanged(d, f) == base.deals[d][f] # Deal(d)[f]
MlMove(d) == Or(Deal(d).ml, 0) - Or(base.deals[d].ml, 0)
StagePrefix(s) == CASE s = Won -> 8 [] s = Lost -> 9 [] OTHER -> s
StageJump(d) == StagePrefix(Deal(d).stage) - StagePrefix(base.deals[d].stage)

DealSign(d, f) ==
  CASE f = "stage" /\ DealChanged(d, f) ->
         IF Deal(d).stage = Lost THEN "-"
         ELSE IF Deal(d).stage >= Won THEN "+"
         ELSE IF StageJump(d) \in {-1, 0, 1} THEN "none"
         ELSE IF StageJump(d) > 0 THEN "+" ELSE "-"
    [] f = "ml" -> IF MlMove(d) >= 25 THEN "+" ELSE IF MlMove(d) <= -25 THEN "-" ELSE "none"
    [] f = "close" ->
         IF Deal(d).close - base.deals[d].close >= 7 THEN "-"
         ELSE IF base.deals[d].close - Deal(d).close >= 7 THEN "+" ELSE "none"
    [] f = "notice" -> IF Deal(d).notice /\ ~base.deals[d].notice THEN "-" ELSE "none"
    [] OTHER -> "none"
AccountSign(a, f) ==
  LET move(rank, x) == rank[book.health[a][x]] - rank[base.health[a][x]]
      of(n) == IF n > 0 THEN "+" ELSE IF n < 0 THEN "-" ELSE "none"
  IN  IF f = "category" THEN of(-move(RiskRank, f)) ELSE of(move(SentimentRank, f))

(* The accounts that are told of: those with a save target and those with  *)
(* a renewal that was won since; and of those the renewals of the quarter. *)
(* Mutant: a won renewal is no save target any more.                       *)
Booked == {d \in Rows : Deal(d).renewal /\ DealChanged(d, "stage") /\ Deal(d).stage = Won}
EligibleTargets == Accounts(Targets)
Eligible == Accounts(Targets) \cup Accounts(Booked)
Watched == {d \in Rows : Deal(d).renewal /\ Holder[d] \in Eligible}

Signs(a) ==
  ({DealSign(d, f) : d \in {x \in Watched : Holder[x] = a}, f \in {"stage", "ml", "close", "notice"}}
     \cup {AccountSign(a, f) : f \in {"category", "sentiment"}}) \ {"none"}
Lines == {a \in Eligible : Signs(a) # {}}
LineSign(a) == IF "-" \in Signs(a) THEN "-" ELSE "+"
Moved(sign) == Total({d \in Watched : DealSign(d, "ml") = sign}, MlMove)
Week ==
  [regressions |-> Moved("-"), improvements |-> Moved("+"), net |-> Moved("-") + Moved("+"),
   booked |-> Cardinality({a \in Eligible : \E d \in Booked : Holder[d] = a})]

-----------------------------------------------------------------------------
(* The book changes one field at a time, and the week goes by.             *)

TotalInit == book \in Books /\ base = book /\ moves = 0

EditDeal(d, f, v) ==
  /\ moves < MaxMoves /\ book.deals[d][f] # v
  /\ book' = [book EXCEPT !.deals[d][f] = v]
  /\ moves' = moves + 1
  /\ UNCHANGED base
EditHealth(a, f, v) ==
  /\ moves < MaxMoves /\ book.health[a][f] # v
  /\ book' = [book EXCEPT !.health[a][f] = v]
  /\ moves' = moves + 1
  /\ UNCHANGED base
WeekPasses == base # book /\ base' = book /\ UNCHANGED <<book, moves>>

TotalNext ==
  \/ \E d \in Deals, f \in DealFields : \E v \in DealValues(f) : EditDeal(d, f, v)
  \/ \E a \in Holders, f \in HealthFields : \E v \in HealthValues(f) : EditHealth(a, f, v)
  \/ WeekPasses

TotalSpec == TotalInit /\ [][TotalNext]_totalVars

-----------------------------------------------------------------------------
TotalTypeOK == moves \in 0..MaxMoves /\ DOMAIN book.deals = Deals /\ DOMAIN book.health = Holders

(* Flash, the baseline and the header's count are of the same rows, whose  *)
(* tests and dollars are written twice (hasDownForecastSignal and          *)
(* opportunityChurnFlashUSD): every row that is counted loses money, so    *)
(* none cancels another and Flash is zero only if there is none; open and  *)
(* closed make up the whole.                                               *)
RowsLose ==
  /\ \A d \in Deals : Deal(d).renewal => (Dollars(d) < 0 <=> Down(d)) /\ Dollars(d) <= 0
  /\ LET h == Header IN
     /\ h.openUSD + h.closedUSD = Flash(0)
     /\ h.open + h.won + h.lost + h.other = Cardinality(ChurnRows(0))
     /\ h.closedUSD < 0 <=> h.won + h.lost + h.other > 0
  /\ Flash(0) = 0 <=> ChurnRows(0) = {}

(* The list of hedged accounts and the list of those not yet hedged share  *)
(* none; an account with exposure to save is on one of them unless they    *)
(* are full; each account to close the gap is in Flash and in the baseline.*)
(* What is shown as hedged is within the header's hedge, unless a hedge is *)
(* negative.                                                               *)
ListsApart ==
  /\ Accounts(Hedged) \cap Accounts(NotYetHedged) = {}
  /\ \A a \in Accounts({d \in Targets : Exposed(d) > 0}) :
       \/ a \in Accounts(Hedged) \cup Accounts(NotYetHedged)
       \/ Cardinality(Hedged) = ListLength \/ Cardinality(NotYetHedged) = ListLength
  /\ (\A d \in Targets : HedgeOf(d) >= 0) => Total(Hedged, HedgeOf) <= Hedge(0)
  /\ CloseGap \subseteq ChurnRows(0)
  /\ Total(CloseGap, LAMBDA d : -Dollars(d)) <= -Flash(0)

(* The test of a save target is written a third time where Glean's         *)
(* universe is built: an account whose first row is a target is not offered*)
(* to Glean.  (One whose second row is may be: README, disagreements.)     *)
NotAskedTwice == \A a \in Accounts(Rows) : FirstRow(a) \in Targets => a \notin Offered

(* Where an account has several overrides that differ, the one that stands *)
(* for it is among those whose context was asked for.                      *)
GapsExplained == \A a \in Accounts(Mismatches) : Cardinality(Primary(a)) = 1

(* No account is under two colours of the key saves, and one that is red   *)
(* there is red in the count of the trajectory.                            *)
OneColour ==
  LET in(band) == Accounts(KeySaves(band)) IN
  /\ in("red") \cap in("yellow") = {} /\ in("red") \cap in("green") = {}
  /\ in("yellow") \cap in("green") = {}
  /\ Cardinality(in("red")) <= Kpis(0).red /\ Cardinality(in("yellow")) <= Kpis(0).yellow

(* A renewal of the quarter that was won this week is told of and counted, *)
(* though it is no save target any more; a fall of 25 or more of a watched *)
(* renewal makes its account's line a bad one, whatever else improved.     *)
WeekIsTold ==
  /\ \A d \in Booked : Holder[d] \in Lines
  /\ Week.booked = Cardinality(Accounts(Booked))
  /\ \A d \in Targets : MlMove(d) <= -25 =>
       Holder[d] \in Lines /\ LineSign(Holder[d]) = "-" /\ Week.regressions <= MlMove(d)

(* The totals and lists do not look at the base: any will do.              *)
TotalInv == /\ TotalTypeOK /\ WeekIsTold
            /\ base = book => RowsLose /\ ListsApart /\ NotAskedTwice /\ GapsExplained /\ OneColour

(* The manager's override decides: while one is set, the rep's most likely *)
(* amount and the change of contract value move neither a total of the     *)
(* quarter, nor the header, nor the lists that save and hedge.             *)
OverrideDecides ==
  [][\A d \in Deals :
       (/\ book' # book /\ Deal(d).override # Unset
        /\ \E f \in {"ml", "delta"} : \E v \in DealValues(f) : book' = [book EXCEPT !.deals[d][f] = v])
       => Kpis(0)' = Kpis(0) /\ Header' = Header /\ Hedged' = Hedged /\ NotYetHedged' = NotYetHedged
          /\ CloseGap' = CloseGap]_totalVars
=============================================================================
