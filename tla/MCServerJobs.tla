----------------------------- MODULE MCServerJobs -----------------------------
(* The jobs that live in the web server's process: CTA generations, the    *)
(* account plans, the weekly activity snapshots and the weekly script.     *)
(* They share no state, so their small instances are checked side by side: *)
(* each behaviour runs one of them.                                        *)
EXTENDS CtaJobs, AccountPlans, CseSnapshots, ForecastRun

CONSTANTS P1, R1, R2

ThreeAccounts == 1..3
OnePost == {P1}
TwoRefreshers == {R1, R2}
(* Day 19 is a Friday; the clocks go forward on Sunday 21, after which     *)
(* Monday begins an hour before midnight, and back on Sunday 266.          *)
ClockGoesForward == 24 * 21 + 2
ClockGoesBack == 24 * 266 + 1
FridaysAndChanges ==
  {24 * 19 + 15, 24 * 19 + 17, 24 * 22 - 1, 24 * 26 - 1, 24 * 267 + 23}
TwoQuarters == {1, 2}
SameDay(q) == q

VARIABLE part

ServerVars == <<part, vars, plansVars, snapshotVars, forecastVars>>
ServerInit == part \in {"ctas", "plans", "snapshots", "forecast"} /\ Init /\ PlansInit /\ SnapshotInit /\ ForecastInit
ServerNext ==
  \/ part = "ctas" /\ Next /\ UNCHANGED <<part, plansVars, snapshotVars, forecastVars>>
  \/ part = "plans" /\ PlansNext /\ UNCHANGED <<part, vars, snapshotVars, forecastVars>>
  \/ part = "snapshots" /\ SnapshotNext /\ UNCHANGED <<part, vars, plansVars, forecastVars>>
  \/ part = "forecast" /\ ForecastNext /\ UNCHANGED <<part, vars, plansVars, snapshotVars>>
ServerSpec == ServerInit /\ [][ServerNext]_ServerVars /\ Fairness /\ PlansFairness /\ ForecastFairness

(* What has ended does not end again or otherwise, what runs is not        *)
(* evicted, and what nobody waits for any more begins nothing more.        *)
EndsAreFinal == DoneIsTrue /\ RunningIsKept /\ FinishedIsFinal /\ ReportsOnce /\ CutStops

(* What has ended is reported so, what hangs does not stay in the way, and *)
(* what is started ends.                                                   *)
JobsEnd == ReportedJobEnds /\ RoomReturns /\ StartedJobEnds /\ GenerationEnds
=============================================================================
