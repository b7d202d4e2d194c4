----------------------------- MODULE ForecastRun -----------------------------
(* One generation of the weekly script: the page that asks for it          *)
(* (ForecastClient), the route that streams its progress (api/forecast),   *)
(* the phases on the server (forecast-generate.ts) with the pools of Glean *)
(* chats that each of three of them runs, and the plan that the page keeps *)
(* for each quarter.  A plan is a number that names the quarter that it    *)
(* was typed for: 10 * quarter + something.                                *)
EXTENDS Integers, Sequences, FiniteSets, FiniteSetsExt

CONSTANTS
  Quarters,         \* the quarters on offer
  Today,            \* the quarter that the page opens on
  Amounts,          \* plans that one may type for a quarter
  StartOf(_),       \* the first day of a quarter
  FirstDay,         \* the day of the first refresh
  MaxAsked,         \* accounts of a pool: 15, 5 and 8
  ChatWidth,        \* chats of a pool at one time: 4
  MaxRefreshes,     \* refreshes of one behaviour
  MaxClicks         \* clicks and edits of one behaviour

ASSUME ForecastAssumption ==
  /\ Quarters \subseteq Nat /\ Today \in Quarters /\ Amounts \in 0..9
  /\ FirstDay \in Nat /\ \A q \in Quarters : StartOf(q) \in Nat
  /\ MaxAsked \in Nat /\ ChatWidth \in Nat \ {0} /\ MaxRefreshes \in Nat /\ MaxClicks \in Nat

VARIABLES
  selected, plan,   \* the page: its quarter and the plan in its field
  kept,             \* localStorage: the plan of each quarter, 0 for none
  request,          \* the request under way: <<quarter, plan>>, or <<>>
  shown,            \* the script on the page: <<quarter, plan>>, <<0, 0>> an error, <<>> nothing
  clicks,           \* clicks and edits so far
  phase,            \* the phase of the server's generation, 0 when there is none
  of,               \* the quarter that it is for
  stream,           \* "open", "done", "error" or "cut": what became of its stream
  shared,           \* whether it has a Glean client
  asked, next,      \* of a pool: its accounts are 1..asked, and next is the first in its queue
  asking,           \* the accounts whose chat is under way
  out,              \* the accounts with an entry, be it a text, nothing to tell or a marker
  refreshes,        \* the day of each successful refresh
  views,            \* the refresh whose views the generation has read
  listed,           \* how many refreshes there were when its trajectory was read
  points,           \* the trajectory but for its last point: <<day, refresh it tells>>, by day
  final             \* its last point, <<>> without a trajectory

pageState == <<selected, plan, kept, request, shown, clicks>>
poolState == <<asked, next, asking, out>>
readState == <<views, listed, points, final>>
forecastVars == <<pageState, phase, of, stream, shared, poolState, refreshes, readState>>

Busy == request # <<>>

(* The phases: data, health, three pools with the risks between the first  *)
(* two of them, and the rendering.                                         *)
Data == 1
Health == 2
Risks == 4
Render == 7
Pools == {3, 5, 6}

-----------------------------------------------------------------------------
(* The page.                                                               *)

Click == clicks < MaxClicks /\ clicks' = clicks + 1

(* The effect on the quarter puts the plan that is kept into the field.   *)
PickQuarter(q) ==
  /\ Click /\ q # selected
  /\ selected' = q /\ plan' = kept[q]
  /\ UNCHANGED <<kept, request, shown, phase, of, stream, shared, poolState, refreshes, readState>>

(* Typing a plan and leaving the field, which stores it.                   *)
EditPlan(v) ==
  /\ Click /\ v # plan
  /\ plan' = v /\ kept' = [kept EXCEPT ![selected] = v]
  /\ UNCHANGED <<selected, request, shown, phase, of, stream, shared, poolState, refreshes, readState>>

Generate ==
  /\ Click /\ ~Busy /\ phase = 0
  /\ request' = <<selected, plan>>
  /\ phase' = Data /\ of' = selected /\ stream' = "open"
  /\ UNCHANGED <<selected, plan, kept, shown, shared, poolState, refreshes, readState>>

(* The connection is lost: generate() has no catch, and nothing is shown   *)
(* or kept.  Or the page goes away, and comes back on the first quarter. *)
Disconnect ==
  /\ Click /\ Busy /\ stream = "open"
  /\ request' = <<>> /\ stream' = "cut"
  /\ \/ UNCHANGED <<selected, plan, shown>>
     \/ selected' = Today /\ plan' = kept[Today] /\ shown' = <<>>
  /\ UNCHANGED <<kept, phase, of, shared, poolState, refreshes, readState>>

(* The end of the stream.  A script is shown and the plan that it was asked *)
(* with is kept for the quarter that it was asked for: the page may by    *)
(* then show another quarter.  Mutant: for the quarter that is shown.       *)
ReceiveForSelected ==
  /\ Busy /\ stream \in {"done", "error"}
  /\ shown' = IF stream = "done" THEN request ELSE <<0, 0>>
  /\ kept' = IF stream = "done" THEN [kept EXCEPT ![selected] = request[2]] ELSE kept
  /\ request' = <<>>
  /\ UNCHANGED <<selected, plan, clicks, phase, of, stream, shared, poolState, refreshes, readState>>
Receive ==
  /\ Busy /\ stream \in {"done", "error"}
  /\ shown' = IF stream = "done" THEN request ELSE <<0, 0>>
  /\ kept' = IF stream = "done" THEN [kept EXCEPT ![request[1]] = request[2]] ELSE kept
  /\ request' = <<>>
  /\ UNCHANGED <<selected, plan, clicks, phase, of, stream, shared, poolState, refreshes, readState>>

-----------------------------------------------------------------------------
(* The server.  Every phase begins and ends with a progress event.  One for *)
(* a stream that is cut throws, out of the phase's catch too, which sends   *)
(* another: the generation ends there.                                      *)

(* A pool's chats at first.  The loop that starts the workers reads the    *)
(* length of the queue anew after each has taken its account: there are no *)
(* more workers than accounts left, thus for half of the accounts at most. *)
Starts(n) == 1..Min({ChatWidth, (n + 1) \div 2})

(* The phase p begins, with n accounts when it is a pool.  Without a client *)
(* of the generation a pool tries to get one, and when that fails each of   *)
(* its accounts has a marker.                                               *)
Begin(p) ==
  /\ phase' = p /\ UNCHANGED stream
  /\ IF p \in Pools
     THEN \E n \in 0..MaxAsked, client \in {shared, TRUE} :
            /\ asked' = n
            /\ asking' = IF client THEN Starts(n) ELSE {}
            /\ next' = IF client THEN Cardinality(Starts(n)) + 1 ELSE n + 1
            /\ out' = IF client THEN {} ELSE 1..n
     ELSE UNCHANGED poolState
(* Mutant: the phases send their progress to whoever is there.             *)
GoToAnyway(p) == Begin(p)
GoTo(p) == IF stream = "cut" THEN phase' = 0 /\ UNCHANGED <<stream, poolState>> ELSE Begin(p)

(* getDashboardData and getWoWChangeEvents may throw: the one failure that *)
(* the page is told of.                                                    *)
LoadData ==
  /\ phase = Data
  /\ \/ /\ shared' \in BOOLEAN /\ GoTo(Health)
        /\ views' = Len(refreshes) /\ points' = {} /\ final' = <<>> /\ listed' = 0
     \/ /\ phase' = 0 /\ stream' = IF stream = "cut" THEN "cut" ELSE "error"
        /\ UNCHANGED <<shared, poolState, readState>>
  /\ UNCHANGED <<pageState, of, refreshes>>

(* The trajectory: for each calendar day since the quarter began, the last *)
(* refresh of that day, the newest day told by the views that the script   *)
(* is rendered from; a day whose snapshot fails to load is skipped.        *)
Since == {r \in DOMAIN refreshes : refreshes[r] >= StartOf(of)}
DaysSince == {refreshes[r] : r \in Since}
LastOf(day) == Max({r \in DOMAIN refreshes : refreshes[r] = day})
Series(skipped) ==
  {<<day, IF day = Max(DaysSince) THEN views ELSE LastOf(day)>> : day \in DaysSince \ skipped}

(* The last point is replaced by the views' own if it is of their day, and *)
(* followed by it otherwise.  Mutant: it always follows.                   *)
OverlaidAlways(series) == series
Overlaid(series) ==
  {p \in series : p[1] = refreshes[views] => \E q \in series : q[1] > p[1]}

(* A trajectory that fails as a whole, like a chat that fails, leaves only *)
(* a marker in the script.                                                 *)
TellHealth ==
  /\ phase = Health
  /\ \/ \E skipped \in SUBSET (DaysSince \ {Max(DaysSince \union {0})}) :
          /\ /\ points' = Overlaid(Series(skipped)) /\ final' = <<refreshes[views], views>>
          /\ listed' = Len(refreshes)
     \/ UNCHANGED <<points, final, listed>>
  /\ GoTo(3)
  /\ UNCHANGED <<pageState, of, shared, refreshes, views>>

(* A chat ends, whatever it found, and its worker asks for the next account.  Mutant: the     *)
(* worker asks for one account only.                                       *)
ReplyOnce(a) ==
  /\ phase \in Pools /\ a \in asking /\ out' = out \union {a}
  /\ asking' = asking \ {a} /\ UNCHANGED next
  /\ UNCHANGED <<pageState, phase, of, stream, shared, asked, refreshes, readState>>
Reply(a) ==
  /\ phase \in Pools /\ a \in asking /\ out' = out \union {a}
  /\ IF next <= asked
     THEN asking' = (asking \ {a}) \union {next} /\ next' = next + 1
     ELSE asking' = asking \ {a} /\ UNCHANGED next
  /\ UNCHANGED <<pageState, phase, of, stream, shared, asked, refreshes, readState>>

(* The pool's workers have all returned.                                   *)
EndPool ==
  /\ phase \in Pools /\ asking = {}
  /\ GoTo(phase + 1)
  /\ UNCHANGED <<pageState, of, shared, refreshes, readState>>

(* One chat about every account of the quarter, whatever becomes of it.    *)
FlagRisks ==
  /\ phase = Risks
  /\ GoTo(5)
  /\ UNCHANGED <<pageState, of, shared, refreshes, readState>>

(* generateWeeklyForecast and the last event.                              *)
RenderScript ==
  /\ phase = Render
  /\ phase' = 0 /\ stream' = IF stream = "cut" THEN "cut" ELSE "done"
  /\ UNCHANGED <<pageState, of, shared, poolState, refreshes, readState>>

ServerStep ==
  \/ LoadData \/ TellHealth \/ EndPool \/ FlagRisks \/ RenderScript
  \/ \E a \in 1..MaxAsked : Reply(a)

(* Refreshes of the book end: what ends later, this generation does not    *)
(* read.                                                                   *)
RefreshEnds ==
  /\ phase <= Health /\ Len(refreshes) < MaxRefreshes
  /\ \E later \in {0, 1} : refreshes' = Append(refreshes, refreshes[Len(refreshes)] + later)
  /\ UNCHANGED <<pageState, phase, of, stream, shared, poolState, readState>>

ForecastInit ==
  /\ selected = Today /\ plan = 0 /\ kept = [q \in Quarters |-> 0]
  /\ request = <<>> /\ shown = <<>> /\ clicks = 0
  /\ phase = 0 /\ of = Today /\ stream = "done" /\ shared = FALSE
  /\ asked = 0 /\ next = 1 /\ asking = {} /\ out = {}
  /\ refreshes = <<FirstDay>> /\ views = 0 /\ listed = 0 /\ points = {} /\ final = <<>>
ForecastNext ==
  \/ \E q \in Quarters : PickQuarter(q)
  \/ \E i \in 1..Amounts : EditPlan(10 * selected + i)
  \/ Generate \/ Disconnect \/ Receive \/ ServerStep \/ RefreshEnds
ForecastSpec == ForecastInit /\ [][ForecastNext]_forecastVars

(* A chat ends, with an answer or an error, and so does every query.       *)
ForecastFairness == WF_forecastVars(ServerStep) /\ WF_forecastVars(Receive)

-----------------------------------------------------------------------------
(* The types of the variables.                                             *)
ForecastRunTypeOK ==
  /\ selected \in Quarters /\ of \in Quarters /\ kept \in [Quarters -> Nat]
  /\ phase \in 0..Render /\ stream \in {"open", "done", "error", "cut"} /\ shared \in BOOLEAN
  /\ asked \in 0..MaxAsked /\ next \in 1..MaxAsked + 1 /\ asking \subseteq 1..asked
  /\ out \subseteq 1..asked /\ views \in 0..Len(refreshes) /\ listed \in 0..Len(refreshes)

(* A pool of chats ends with an entry for each of its accounts, however    *)
(* many of its chats failed and in whatever order they ended, and never    *)
(* has more chats under way than it may: what it asks is neither answered  *)
(* nor still in the queue.                                                 *)
PoolAnswersAll ==
  /\ Cardinality(asking) <= ChatWidth
  /\ out = (1..next - 1) \ asking
  /\ phase \notin Pools => out = 1..asked

(* The plan that a browser keeps for a quarter was typed for that quarter, *)
(* though a generation stores its plan at its end, minutes after the page  *)
(* turned to another quarter.                                              *)
PlansKeepTheirQuarter == \A q \in Quarters : kept[q] # 0 => kept[q] \div 10 = q

(* The trajectory that the narrative is written from ends with the views   *)
(* that the script is rendered from, and its days ascend, one point each,  *)
(* unless a refresh of a later day ended after the views were read.        *)
TrajectoryEndsAtScript ==
  phase > Health /\ final # <<>> =>
    /\ final = <<refreshes[views], views>>
    /\ \/ \A p \in points : p[1] < final[1]
       \/ \E r \in views + 1..listed : refreshes[r] > refreshes[views]

ForecastRunInv == ForecastRunTypeOK /\ PoolAnswersAll /\ PlansKeepTheirQuarter /\ TrajectoryEndsAtScript

(* Nobody reads a stream that is cut, and no further phase, with its dozens *)
(* of chats, is begun for it.                                              *)
CutStops == [][stream = "cut" /\ phase # 0 => phase' \in {phase, 0}]_forecastVars

(* A generation that was asked for ends: the button is free again.         *)
GenerationEnds == Busy ~> ~Busy
=============================================================================
