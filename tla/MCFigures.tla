------------------------------ MODULE MCFigures ------------------------------
(* The calculations that the jobs and pages are made of, with the values   *)
(* their small instances are checked with, and the log of the CTAs.  They  *)
(* share no state: each behaviour changes one of them, the others rest.    *)
EXTENDS CtaLog, PlanEngine, Workbench, QuarterFilter, ListPages, ImportChannels, CtaEditor, ActivityReport

-----------------------------------------------------------------------------
(* Accounts: a quiet one, one that nobody hears of with a lost renewal, and*)
(* one in trouble; and the values that are tried for a field.              *)

NoOpp == [type |-> "none", due |-> 0, stage |-> "open", early |-> FALSE, steps |-> TRUE, notes |-> TRUE,
          fullChurn |-> FALSE, notice |-> FALSE, atr |-> 0, knownChurn |-> 0, acvDelta |-> 0,
          risk |-> FALSE, reason |-> FALSE, soft |-> FALSE]
Renewal(due) == [NoOpp EXCEPT !.type = "Renewal", !.due = due, !.atr = 1]
QuietAccount == [category |-> "none", flags |-> {}, sentiment |-> "Green", commentary |-> 10, sentimentAge |-> 10,
          text |-> "plain", minutes30 |-> 30, minutes90 |-> 90, meeting |-> 20, workshop |-> 100, pbu |-> 80,
          exec |-> 1, products |-> 3, task |-> "none", arr |-> 500, cse |-> TRUE, slack |-> TRUE,
          errors |-> {}, cerebroAge |-> 2, glean |-> TRUE, status |-> "Live", churnReason |-> FALSE, updated |-> 0,
          live |-> 0, asOf |-> 1, overage |-> FALSE, plans |-> 1, found |-> 1, docAge |-> 3, answers |-> 2,
          opps |-> <<Renewal(120), [NoOpp EXCEPT !.type = "Upsell", !.due = 60]>>]
Silent == [QuietAccount EXCEPT !.commentary = 85, !.sentimentAge = 85, !.meeting = Never, !.minutes30 = None, !.slack = FALSE,
             !.cerebroAge = Never, !.errors = {"cerebro"}, !.live = None, !.glean = FALSE, !.opps[2] = [Renewal(-50) EXCEPT !.stage = "closed"]]
Troubled == [QuietAccount EXCEPT !.category = "High", !.flags = {"utilization", "engagement", "suite"}, !.sentiment = "Red", !.commentary = 20,
             !.minutes30 = 10, !.exec = 0, !.pbu = 50, !.opps[1].due = 8, !.opps[2] = [Renewal(31) EXCEPT !.steps = FALSE]]
TheAccounts == {Silent, Troubled}
TheValues(f) ==
  CASE f = "category" -> {"none", "Critical"}
    [] f = "flags" -> {{}, {"utilization", "engagement", "suite", "pricing"}}
    [] f = "sentiment" -> {"Green", "Red", "Confirmed Churn"}
    [] f = "commentary" -> {15, Never}
    [] f = "text" -> {"none", "plain", "windDown", "actionPlan"}
    [] f = "minutes30" -> {None, 5}
    [] f = "meeting" -> {-5, 65, Never}
    [] f = "workshop" -> {360} [] f = "sentimentAge" -> {0} [] f = "minutes90" -> {60}
    [] f = "pbu" -> {None, 75}
    [] f = "exec" -> {0, 1} [] f = "products" -> {2} [] f = "arr" -> {50}
    [] f = "task" -> {"none", "invalid", "dark", "exec"}
    [] f = "status" -> {"Churned"}
    [] f = "errors" -> {{}, {"cerebro"}, {"glean"}}
    [] f = "updated" -> {4} [] f = "cerebroAge" -> {2, Never} [] f = "asOf" -> {4} [] f = "docAge" -> {8, Never}
    [] f = "live" -> {None, 2} [] f = "plans" -> {0} [] f = "found" -> {0, 5} [] f = "answers" -> {1}
    [] OTHER -> BOOLEAN
TheOppValues(f) ==
  CASE f = "type" -> {"none", "Renewal"}
    [] f = "due" -> {-40, 7, 900}
    [] f = "stage" -> {"open", "closed", "numbered"}
    [] f = "atr" -> {0} [] f = "knownChurn" -> {-5} [] f = "acvDelta" -> {-3}
    [] OTHER -> BOOLEAN

-----------------------------------------------------------------------------
(* Forecasts: two renewals of one account and one of another, in trouble   *)
(* and quiet.                                                              *)

Slipping == [renewal |-> TRUE, category |-> "carried", stage |-> 4, close |-> 80, known |-> 0, override |-> Unset,
             ml |-> -40, delta |-> -5, atr |-> 100, acv |-> 120, hedge |-> 10, best |-> -10, notice |-> FALSE, full |-> FALSE]
Steady == [Slipping EXCEPT !.ml = 0, !.delta = 0, !.hedge = 0, !.atr = 60]
TheHolder == <<"a", "a", "b">>
Fine == [churned |-> FALSE, saveable |-> FALSE, category |-> "none", level |-> "none", sentiment |-> "Green"]
QuietBook ==
  [deals |-> <<Steady, [Slipping EXCEPT !.override = -30], [Slipping EXCEPT !.override = -12, !.hedge = 0]>>,
   health |-> [a \in {"a", "b"} |-> IF a = "a" THEN [Fine EXCEPT !.level = "Medium"] ELSE [Fine EXCEPT !.sentiment = "Red"]]]
TheBooks == {QuietBook}
TheDealValues(f) ==
  CASE f = "category" -> {"none", "closed lost"} [] f = "stage" -> {3, Won, Lost}
    [] f = "close" -> {75, 180} [] f = "known" -> {7} [] f = "override" -> {Unset, -50, 20}
    [] f = "ml" -> {Unset, -64, -65, 5} [] f = "delta" -> {-90} [] f = "atr" -> {0}
    [] f = "acv" -> {50} [] f = "hedge" -> {-15, 15} [] f = "best" -> {Unset} [] f = "renewal" -> {FALSE} [] OTHER -> {TRUE}
TheHealthValues(f) ==
  CASE f = "category" -> {"Critical"} [] f = "level" -> {"none", "High"}
    [] f = "sentiment" -> {"Red"} [] OTHER -> {TRUE}

TheScopes == {{0}, {0, 1, 2}}
TheDays == {85, 91}

-----------------------------------------------------------------------------
(* Quarters: the calendar from the first quarter of the history on, and a  *)
(* filter in the last month of a quarter, reached by links without and with*)
(* quarters of the past, the future and both.                              *)

TheHistory == <<2026, 1>>
LastOfQuarter == MonthNo(2026, 7)
NextQuarter == LastOfQuarter + 1
LastMonth == MonthNo(2038, 1)
TheLinks == {{}, {<<2027, 1>>, <<2027, 3>>}, {NoneKey}, {NoneKey, <<2027, 3>>}}

-----------------------------------------------------------------------------
(* The workbench on day 100: renewals of both accounts that are pushed,    *)
(* lost, due, kept for known churn, closed within their quarter.           *)

TheToday == 100
ThePeriods == {[bucket |-> "prospective", of |-> {1}], [bucket |-> "prospective", of |-> {1, 2}], [bucket |-> "retrospective", of |-> {0}]}
TheCses == [a \in {"a", "b"} |-> IF a = "a" THEN "kim" ELSE "none"]
DeskHealth == [a \in {"a", "b"} |-> IF a = "a" THEN [Fine EXCEPT !.category = "High"] ELSE Fine]
TheDesks ==
  {[deals |-> <<[Slipping EXCEPT !.close = 95], [Slipping EXCEPT !.close = 60, !.stage = Lost, !.category = "closed lost"],
                [Steady EXCEPT !.close = 110, !.stage = Won, !.category = "closed won", !.acv = 40, !.delta = -20]>>,
    health |-> DeskHealth]}

-----------------------------------------------------------------------------
(* The lists: two accounts at risk, a churn whose opportunity closes in    *)
(* another quarter, and two healthy ones, one of which has moved.          *)

Usual == [cse |-> "kim", bucket |-> "Healthy", churned |-> 0, rules |-> {}, risk |-> 20, days |-> 80, events |-> <<>>,
          words |-> {"co"}, fetched |-> [s \in {"salesforce", "clari"} |-> 0], failed |-> {}, arr |-> 10]
TheFolio ==
  <<[Usual EXCEPT !.bucket = "Saveable Risk", !.rules = {"dates", "notes"}, !.risk = 70, !.days = 20, !.events = <<"hygiene", "risk", "churn-notice">>],
    [Usual EXCEPT !.bucket = "Confirmed Churn", !.churned = 2, !.rules = {"notes"}, !.days = NoDay, !.words = {}, !.failed = {"cerebro"}],
    [Usual EXCEPT !.cse = "lee", !.bucket = "Saveable Risk", !.rules = {"plan"}, !.risk = 60, !.days = 45, !.fetched = [s \in {"salesforce"} |-> 6]],
    [Usual EXCEPT !.cse = "lee", !.rules = {"dates", "plan"}, !.events = <<"forecast">>],
    [Usual EXCEPT !.days = NoDay, !.risk = 15]>>
Opp(a, q) == [of |-> a, quarter |-> q, stage |-> 4, type |-> "renewal", delta |-> -5, known |-> 0, atr |-> 10, notes |-> FALSE]
TheOpps ==
  <<Opp(1, 1), [Opp(1, 2) EXCEPT !.stage = 0, !.type = "upsell", !.delta = 5, !.notes = TRUE], [Opp(2, 1) EXCEPT !.stage = 9, !.known = -30],
    [Opp(3, 2) EXCEPT !.stage = NoStage, !.known = 8], [Opp(4, 1) EXCEPT !.type = "upsell"], [Opp(5, 2) EXCEPT !.stage = 8], Opp(3, 9)>>
TheQuarters == {1, 2}
TheChoices == {{}, {1}}

-----------------------------------------------------------------------------
(* Imports: an account with a name, one whose near name is an archived     *)
(* channel's, and one without a name.                                      *)
TheCustomers == {"acme", "beta", "odd"}
TheNames == [a \in TheCustomers |-> CASE a = "acme" -> "cust-acme" [] a = "beta" -> "cust-beta" [] a = "odd" -> NoName]
TheDead == [a \in TheCustomers |-> IF a = "acme" THEN "C1" ELSE "C2"]
TheExtensions == {<<"cust-acme", "cust-acme-corp">>}
TheDistances == [p \in {{"cust-beta", "cust-bet"}, {"cust-acme", "cust-acne"}} |-> 1]
Seen(id, name, archived) == [id |-> id, name |-> name, archived |-> archived, depth |-> 2]
General == Seen("C9", "general", FALSE)
TheHarFiles ==
  [f \in {"long", "short", "huge", "else"} |->
     CASE f = "long" -> [kind |-> "har", entries |->
            <<[status |-> 200, records |-> <<Seen("C1", "cust-acme", TRUE), General, Seen("C3", "cust-acme-corp", FALSE)>>],
              [status |-> 200, records |-> <<Seen("C1", "cust-acme", FALSE), [Seen("C5", "cust-beta", FALSE) EXCEPT !.depth = 9],
                                             Seen("C4", "cust-bet", TRUE)>>],
              [status |-> 404, records |-> <<Seen("C5", "cust-beta", FALSE)>>]>>]
       [] f = "short" -> [kind |-> "har", entries |->
            <<[status |-> 200, records |-> <<Seen("C8", "cust-acne", FALSE), Seen("C3", "cust-acme-corp", FALSE), Seen("C1", NoName, FALSE), Seen("C7", "cust-beta", TRUE)>>]>>]
       [] f = "huge" -> [kind |-> "too large", entries |-> <<>>]
       [] f = "else" -> [kind |-> "har", entries |-> <<>>]]
Shown(records) == [fails |-> "no", records |-> records]
TheSweeps ==
  {<<Shown(<<Seen("C6", "cust-acme", FALSE), Seen("C7", "cust-beta", TRUE)>>), Shown(<<Seen("C2", "cust-beta", FALSE)>>)>>,
   <<Shown(<<>>), Shown(<<Seen("C6", NoName, FALSE)>>), [fails |-> "other", records |-> <<>>], Shown(<<>>), Shown(<<General>>)>>,
   <<Shown(<<General, Seen("C4", "cust-bet", FALSE)>>), [fails |-> "not open", records |-> <<>>], Shown(<<Seen("C6", "cust-acme", FALSE)>>)>>}

-----------------------------------------------------------------------------
(* Two cards of the board, and the teams that a CTA may name: both in their*)
(* fields, an AE alone, and both only as its owners.                       *)
TheTickets == {"one", "two"}
TheColors == [c \in TheTickets |-> IF c = "one" THEN "red" ELSE "yellow"]
Member(role, name) == [role |-> role, name |-> name]
TheTeams ==
  {[cse |-> "kim", ae |-> "lee", primary |-> Member("CSE", "kim"), cc |-> {Member("AE", "lee")}],
   [cse |-> Nobody, ae |-> "lee", primary |-> Member("AE", "lee"), cc |-> {}],
   [cse |-> Nobody, ae |-> Nobody, primary |-> Member("AE", "lee"), cc |-> {Member("CSE", "kin")}],
   [cse |-> Nobody, ae |-> Nobody, primary |-> Member("CSE", "kin"), cc |-> {Member("AE", "lee")}],
   [cse |-> Nobody, ae |-> Nobody, primary |-> Member("text", "ann"), cc |-> {}]}
TheCorrections == [n \in {"kin"} |-> "kim"]

-----------------------------------------------------------------------------
(* A week: two accounts of a CSE with an id, one of a CSE without, one of  *)
(* nobody, and what may be seen of them.                                   *)
Reported(cse, real, bucket, atr, fetched) ==
  [cse |-> cse, real |-> real, bucket |-> bucket, atr |-> atr, fetched |-> fetched,
   updated |-> IF fetched = NotFetched THEN -1 ELSE 5]
ThePortfolio ==
  <<Reported("kim", TRUE, "Saveable Risk", 9, 5), Reported("kim", TRUE, "Healthy", 9, NotFetched),
    Reported("lee", FALSE, "Confirmed Churn", 3, -2), Reported(NoOne, FALSE, "Healthy", 1, 2)>>
Spotted(kind, of, day, word, owner) == [kind |-> kind, of |-> of, day |-> day, word |-> word, owner |-> owner]
TheSightings ==
  {Spotted("calendar", 1, 6, "renewal", NoOne), Spotted("zoom", 3, 7, "executive", NoOne), Spotted("staircase", 1, 3, "newsletter", NoOne),
   Spotted("slack", 3, 6, "plain", NoOne), Spotted("calendar link", 2, 1, "plain", NoOne),
   Spotted("workshop", 4, 1, "plain", NoOne), Spotted("task", 2, 0, "plain", NoOne), Spotted("cta", 1, 4, "plain", "lee"),
   Spotted("cta", 3, 0, "plain", "ann"), Spotted("cta", 0, 5, "plain", "kim"), Spotted("change", 1, 0, "plain", NoOne),
   Spotted("change", 2, 0, "meeting", NoOne)}

-----------------------------------------------------------------------------
VARIABLE part

FiguresVars == <<part, logVars, riskVars, totalVars, filterVars, deskVars, listVars, importVars, editorVars, reportVars>>
FiguresInit ==      \* those that rest have one initial state
  /\ part \in {"log", "rules", "totals", "calendar", "quarters", "workbench", "lists", "import", "cards", "weekly"}
  /\ part # "rules" => facts = Silent
  /\ part \notin {"totals", "workbench"} => book = QuietBook
  /\ part # "quarters" => storing = TRUE
  /\ part # "import" => mappings = [a \in Customers |-> [status |-> "candidate", channel |-> NoChannel]]
  /\ part # "weekly" => gleanRan = FALSE
  /\ part # "lists" => screen = "home" /\ inScope = {} /\ keptCses = {}
  /\ part # "workbench" => /\ period = DefaultPeriod("prospective") /\ kpi = "all"
                           /\ outcomes = {} /\ sort = Presets.atr
  /\ IF part = "cards" THEN linked \in {NoTicket, "one"}
     ELSE linked = NoTicket /\ saved = [c \in Tickets |-> [status |-> "open", note |-> 0, owner |-> 0]]
  /\ thisMonth = IF part = "calendar" THEN StartIso(TheHistory) ELSE LastOfQuarter
  /\ CtaLogInit /\ RiskInit /\ FilterInit /\ DeskInit /\ ListInit /\ ImportInit /\ EditorInit /\ ReportInit
  /\ IF part = "workbench" THEN book \in TheDesks /\ base = book /\ moves = 0 ELSE TotalInit
FiguresNext ==
  \/ part = "log" /\ CtaLogNext /\ UNCHANGED <<part, riskVars, totalVars, filterVars, deskVars, listVars, importVars, editorVars, reportVars>>
  \/ part = "rules" /\ RiskNext /\ UNCHANGED <<part, logVars, totalVars, filterVars, deskVars, listVars, importVars, editorVars, reportVars>>
  \/ part = "totals" /\ TotalNext /\ UNCHANGED <<part, logVars, riskVars, filterVars, deskVars, listVars, importVars, editorVars, reportVars>>
  \/ part = "calendar" /\ thisMonth < LastMonth /\ TimePasses /\ UNCHANGED <<part, logVars, riskVars, totalVars, deskVars, listVars, importVars, editorVars, reportVars>>
  \/ part = "quarters" /\ FilterNext /\ UNCHANGED <<part, logVars, riskVars, totalVars, deskVars, listVars, importVars, editorVars, reportVars>>
  \/ part = "workbench" /\ DeskNext /\ UNCHANGED <<part, logVars, riskVars, totalVars, filterVars, listVars, importVars, editorVars, reportVars>>
  \/ part = "lists" /\ ListNext /\ UNCHANGED <<part, logVars, riskVars, totalVars, filterVars, deskVars, importVars, editorVars, reportVars>>
  \/ part = "import" /\ ImportNext /\ UNCHANGED <<part, logVars, riskVars, totalVars, filterVars, deskVars, listVars, editorVars, reportVars>>
  \/ part = "cards" /\ EditorNext /\ UNCHANGED <<part, logVars, riskVars, totalVars, filterVars, deskVars, listVars, importVars, reportVars>>
  \/ part = "weekly" /\ ReportNext /\ UNCHANGED <<part, logVars, riskVars, totalVars, filterVars, deskVars, listVars, importVars, editorVars>>
FiguresSpec == FiguresInit /\ [][FiguresNext]_FiguresVars

(* The invariants of the calculations, looked at where they change; every  *)
(* book is reached with itself as its base.                                *)
FiguresInv ==
  /\ part = "rules" => CtaInv /\ PlanInv
  /\ part = "totals" => TotalInv /\ (base = book => MetricsInv)
  /\ part = "calendar" => CalendarInv
  /\ part = "weekly" => ReportInv

(* And of the pages.                                                       *)
ScreensInv ==
  /\ part = "quarters" => QuarterInv
  /\ part = "workbench" => DeskInv /\ (touches = 0 => ColumnsStay)
  /\ part = "lists" => ListInv
  /\ part = "import" => ImportsInv
  /\ part = "cards" => EditorInv
=============================================================================
