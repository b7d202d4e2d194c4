---------------------------- MODULE FiscalCalendar ----------------------------
(* The fiscal year starts in February.  Four packages have their own copy  *)
(* of its functions ("keep in sync"); here they are side by side.  A date  *)
(* counts by its month, a quarter's key <<fy, q>> sorts as its text does.  *)
EXTENDS Integers, FiniteSets, FiniteSetsExt

CONSTANTS
  Ahead,     \* FISCAL_QUARTER_FORWARD_COUNT: 8
  Width,     \* FISCAL_QUARTER_PROSPECTIVE_COUNT, .._RETROSPECTIVE_COUNT: 8
  History    \* FISCAL_HISTORY_START_KEY

VARIABLE thisMonth \* the month, counted from year 0

Year(m) == m \div 12
MonthOf(m) == (m % 12) + 1
MonthNo(year, month) == 12 * year + month - 1

-----------------------------------------------------------------------------
(* fiscalQuarterFromDate, and back: the first month in two copies, the last*)
(* in one.                                                                 *)

QuarterFromDate(m) ==
  LET month == MonthOf(m)  year == Year(m)
  IN  IF month = 1 THEN <<year, 4>>
      ELSE <<year + 1, IF month <= 4 THEN 1 ELSE IF month <= 7 THEN 2 ELSE IF month <= 10 THEN 3 ELSE 4>>

StartIso(k) == MonthNo(k[1] - 1, 1 + (CASE k[2] = 1 -> 1 [] k[2] = 2 -> 4 [] k[2] = 3 -> 7 [] k[2] = 4 -> 10))
ForecastStart(k) == MonthNo(k[1] - 1, CASE k[2] = 1 -> 2 [] k[2] = 2 -> 5 [] k[2] = 3 -> 8 [] k[2] = 4 -> 11)
(* Mutant: the last quarter ends in the year in which it starts.           *)
QuarterEndSameYear(k) ==
  MonthNo(k[1] - 1, CASE k[2] = 1 -> 4 [] k[2] = 2 -> 7 [] k[2] = 3 -> 10 [] k[2] = 4 -> 1)
QuarterEnd(k) ==
  MonthNo(IF k[2] = 4 THEN k[1] ELSE k[1] - 1,
          CASE k[2] = 1 -> 4 [] k[2] = 2 -> 7 [] k[2] = 3 -> 10 [] k[2] = 4 -> 1)

NextKey(k) == IF k[2] = 4 THEN <<k[1] + 1, 1>> ELSE <<k[1], k[2] + 1>>
Previous(k) == IF k[2] = 1 THEN <<k[1] - 1, 4>> ELSE <<k[1], k[2] - 1>>
NotAfter(j, k) == j[1] < k[1] \/ (j[1] = k[1] /\ j[2] <= k[2])

(* n quarters on or back, and the keys between two, at most 48 of them.    *)
Onward[n \in Nat, k \in Int \X (1..4)] == IF n = 0 THEN k ELSE Onward[n - 1, NextKey(k)]
Backward[n \in Nat, k \in Int \X (1..4)] == IF n = 0 THEN k ELSE Backward[n - 1, Previous(k)]
Enumerated(from, to) ==
  LET up[n \in 0..48, k \in Int \X (1..4)] ==
        IF n = 0 \/ ~NotAfter(k, to) THEN {} ELSE {k} \cup up[n - 1, NextKey(k)]
  IN  up[48, from]
Trailing(n, end) == {Backward[i, end] : i \in 0..(n - 1)}

-----------------------------------------------------------------------------
(* The windows of the filters: what may be chosen, and what data is kept.  *)

Current == QuarterFromDate(thisMonth)
LastEnded == Previous(Current)
QuarterBuckets == {"prospective", "retrospective"}
Window(bucket) ==
  IF bucket = "prospective" THEN Enumerated(Current, Onward[Width - 1, Current])
  ELSE Enumerated(Backward[Width - 1, LastEnded], LastEnded)
Default(bucket) == IF bucket = "prospective" THEN Current ELSE LastEnded
IsProspective(k) == NotAfter(Current, k) /\ NotAfter(k, Onward[Width - 1, Current])
IsRetrospective(k) == NotAfter(Backward[Width - 1, LastEnded], k) /\ NotAfter(k, LastEnded)
FilterOptions == Enumerated(History, Onward[Ahead, Current])
FiscalYears == {k[1] : k \in FilterOptions}
RenewalFiscalYears == History[1]..Onward[Ahead, Current][1]      \* the CTA engine's copy
CloseDates == StartIso(History)..QuarterEnd(Onward[Ahead, Current])

(* The scopes that pages filter their rows by; {} stands for no parameter, *)
(* "none" for its sentinel.                                                *)
NoneKey == <<0, 0>>
ScopedTo(keys, bucket) ==
  IF keys = {} THEN Window(bucket)
  ELSE IF NoneKey \in keys THEN {}
  ELSE IF keys \cap Window(bucket) = {} THEN Window(bucket) ELSE keys \cap Window(bucket)
Effective(keys, bucket) ==
  IF keys \cap Window(bucket) = {} THEN {Default(bucket)} ELSE keys \cap Window(bucket)

MonthPasses == thisMonth' = thisMonth + 1

-----------------------------------------------------------------------------
(* The functions of the copies fit together: a month lies between the start*)
(* and the end of its quarter whichever copy one asks, quarters follow each*)
(* other without a gap, and back and forth are inverse.                    *)
CopiesAgree ==
  LET k == Current IN
  /\ StartIso(k) = ForecastStart(k) /\ thisMonth \in StartIso(k)..QuarterEnd(k)
  /\ QuarterEnd(k) + 1 = StartIso(NextKey(k)) /\ QuarterFromDate(QuarterEnd(k) + 1) = NextKey(k)
  /\ Previous(NextKey(k)) = k /\ QuarterEnd(Previous(k)) + 1 = ForecastStart(k)
  /\ QuarterEnd(k) - StartIso(k) = 2
  /\ NotAfter(Onward[Ahead, k], Onward[47, History]) => FiscalYears = RenewalFiscalYears

(* The two buckets are as wide as they say, meet and never overlap; their  *)
(* tests by comparison agree with their lists; every quarter to come that  *)
(* can be chosen is within the close dates whose opportunities are kept,   *)
(* and on the forecast's list while that has no more than 48 quarters; the *)
(* trend of the last quarter that ended is the bucket of the past.         *)
BucketsPartition ==
  LET pro == Window("prospective")  retro == Window("retrospective") IN
  /\ Cardinality(pro) = Width /\ Cardinality(retro) = Width /\ pro \cap retro = {}
  /\ \A k \in FilterOptions \cup retro : (IsProspective(k) <=> k \in pro) /\ (IsRetrospective(k) <=> k \in retro)
  /\ UNION {StartIso(k)..QuarterEnd(k) : k \in pro \cup retro} =
       StartIso(Backward[Width - 1, LastEnded])..QuarterEnd(Onward[Width - 1, Current])
  /\ NotAfter(Onward[Ahead, Current], Onward[47, History]) => pro \subseteq FilterOptions
  /\ \A k \in pro : StartIso(k)..QuarterEnd(k) \subseteq CloseDates
  /\ Trailing(Width, LastEnded) = retro

CalendarInv == CopiesAgree /\ BucketsPartition
=============================================================================
