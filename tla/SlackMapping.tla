---------------------------- MODULE SlackMapping ----------------------------
(***************************************************************************)
(* The mapping of customer accounts to Slack channels (slack-mapping.ts):  *)
(* the refresh that resolves every account from its override, Salesforce,  *)
(* the imported sheet, the previous URL or the naming convention and       *)
(* validates some of the channels; overrides; and sweeps that promote rows *)
(* from a channel list the operator pasted.  A refresh and a sweep read    *)
(* the rows first and write them one by one, for minutes.  A URL that      *)
(* parses is its channel; names, reasons and summaries are left out.       *)
(***************************************************************************)
EXTENDS Naturals, FiniteSets

CONSTANTS
  Accounts, KnownChannels,
  Workers,           \* requests that may be in flight together
  Convention,        \* the channel named cust-{slug} of each account, if any
  Listed,            \* what conversations.list shows this token of its channels
  Budget,            \* MAX_VALIDATIONS_PER_REFRESH, 40 in the code
  MaxEvents          \* bound: changes from outside, overrides and clears, by
                     \* the number of accounts present

NoUrl == "no url"
Malformed == "malformed"
Urls == KnownChannels \cup {NoUrl, Malformed}

ASSUME MappingAssumption ==
  /\ IsFiniteSet(Accounts) /\ NoUrl \notin KnownChannels /\ Malformed \notin KnownChannels
  /\ Convention \in [Accounts -> KnownChannels \cup {NoUrl}]
  /\ Listed \subseteq KnownChannels
  /\ Budget \in Nat \ {0} /\ \A n \in 1..Cardinality(Accounts) : MaxEvents[n] \in Nat

Sources == {"none", "override", "salesforce", "sheet", "cache", "heuristic"}
Statuses == {"absent", "manually_overridden", "mapped", "inaccessible_channel",
             "invalid_slack_url", "heuristic_candidate",
             "missing_salesforce_channel", "unresolved"}
MappingRow == [url : Urls, source : Sources, status : Statuses,
        archived : {"yes", "no", "unknown"},
        recent : BOOLEAN]     \* last_validated_at is less than a day old
Absent == [url |-> NoUrl, source |-> "none", status |-> "absent",
           archived |-> "unknown", recent |-> FALSE]

VARIABLES
  salesforce, sheet,   \* the URL each account has there
  slack,               \* the channels: live, archived or gone
  rowOf,               \* customer_slack_mapping
  work,                \* what each request is doing, with what it has read
  present,             \* the accounts of the served run
  operator,            \* history: the operator's last override, and is it in force?
  overtaken,           \* history: rows written while a request held an older copy
  calm,                \* history: rows refreshed with nothing changed since
  rounds,              \* history: refreshes of all since something changed
  events

upstream == <<salesforce, sheet, slack, present>>
mappingVars == <<salesforce, sheet, slack, rowOf, work, present, operator,
                 overtaken, calm, rounds, events>>

Idle == [at |-> "idle", todo |-> {}, copy |-> [a \in Accounts |-> Absent],
         sf |-> [a \in Accounts |-> NoUrl], sheet |-> [a \in Accounts |-> NoUrl],
         seen |-> [c \in KnownChannels |-> "absent"], budget |-> 0, clean |-> FALSE]

MappingTypeOK ==
  /\ salesforce \in [Accounts -> Urls] /\ sheet \in [Accounts -> Urls]
  /\ slack \in [KnownChannels -> {"live", "archived", "gone"}]
  /\ rowOf \in [Accounts -> MappingRow]
  /\ \A w \in Workers :
       /\ work[w].at \in {"idle", "cleared", "refresh", "sweep"}
       /\ work[w].todo \subseteq Accounts /\ work[w].budget \in 0..Budget
       /\ work[w].at = "idle" => work[w] = Idle
  /\ present \subseteq Accounts
  /\ operator \in [Accounts -> [url : KnownChannels \cup {NoUrl}, inForce : BOOLEAN]]
  /\ overtaken \subseteq Accounts /\ calm \subseteq Accounts
  /\ rounds \in 0..Cardinality(Accounts) /\ events \in Nat
  /\ \A a \in Accounts :      \* usable rows have a channel, candidates have none
       LET r == rowOf[a]
       IN  /\ r.status \in {"mapped", "manually_overridden"} => r.url \in KnownChannels
           /\ r.status = "heuristic_candidate" => r.url = NoUrl
           /\ r.status = "invalid_slack_url" => r.url = Malformed

MappingInit ==
  /\ present \in SUBSET Accounts \ {{}}
  /\ salesforce \in [Accounts -> {NoUrl} \cup KnownChannels]
  /\ \A a \in Accounts \ present : salesforce[a] = NoUrl
  /\ sheet = [a \in Accounts |-> NoUrl]
  /\ slack = [c \in KnownChannels |-> "live"]
  /\ rowOf = [a \in Accounts |-> Absent]
  /\ work = [w \in Workers |-> Idle]
  /\ operator = [a \in Accounts |-> [url |-> NoUrl, inForce |-> FALSE]]
  /\ overtaken = {} /\ calm = {} /\ rounds = 0 /\ events = 0

-----------------------------------------------------------------------------
(* computeMappingStatus: the first source that has a URL decides.          *)

(* Mutant: any text counts as a channel URL.                               *)
JudgeUnparsed(url, source, usable, dead) ==
  [url |-> url, source |-> source,
   status |-> IF dead THEN "inaccessible_channel" ELSE usable]
Judge(url, source, usable, dead) ==
  [url |-> url, source |-> source,
   status |-> IF url \notin KnownChannels THEN "invalid_slack_url"
              ELSE IF dead THEN "inaccessible_channel" ELSE usable]

Candidate == [url |-> NoUrl, source |-> "heuristic", status |-> "heuristic_candidate"]

(* Mutant: the previous URL is not carried when Salesforce goes empty.     *)
MappingStatusUncached(row, sf, sh) ==
  LET dead == row.status = "inaccessible_channel"
      over == IF row.source = "override" THEN row.url ELSE NoUrl
  IN  CASE over # NoUrl -> Judge(over, "override", "manually_overridden", dead)
        [] over = NoUrl /\ sf # NoUrl -> Judge(sf, "salesforce", "mapped", dead)
        [] over = NoUrl /\ sf = NoUrl /\ sh # NoUrl -> Judge(sh, "sheet", "mapped", dead)
        [] OTHER -> Candidate
(* Mutant: Salesforce comes first.                                         *)
MappingStatusFieldFirst(row, sf, sh) ==
  LET dead == row.status = "inaccessible_channel"
  IN  CASE sf # NoUrl -> Judge(sf, "salesforce", "mapped", dead)
        [] sf = NoUrl /\ sh # NoUrl -> Judge(sh, "sheet", "mapped", dead)
        [] sf = NoUrl /\ sh = NoUrl /\ row.url # NoUrl -> Judge(row.url, "cache", "mapped", FALSE)
        [] OTHER -> Candidate
MappingStatus(row, sf, sh) ==
  LET dead == row.status = "inaccessible_channel"
      over == IF row.source = "override" THEN row.url ELSE NoUrl
      cached == IF row.source # "override" THEN row.url ELSE NoUrl
  IN  CASE over # NoUrl -> Judge(over, "override", "manually_overridden", dead)
        [] over = NoUrl /\ sf # NoUrl -> Judge(sf, "salesforce", "mapped", dead)
        [] over = NoUrl /\ sf = NoUrl /\ sh # NoUrl -> Judge(sh, "sheet", "mapped", dead)
        [] over = NoUrl /\ sf = NoUrl /\ sh = NoUrl /\ cached # NoUrl ->
             Judge(cached, "cache", "mapped", FALSE)
        [] OTHER -> Candidate

(* What conversations.info may answer about a channel.  "none": the call   *)
(* threw; "unknown": it is hidden from the token, or another error.        *)
Answers(c) ==
  {"none", "unknown"} \cup
    CASE slack[c] = "live" -> {"live"}
      [] slack[c] = "archived" -> {"archived"}
      [] slack[c] = "gone" -> {"inaccessible"}

(* A channel that Slack called inaccessible is not asked about again.      *)
(* Mutant: it is.                                                          *)
StickyNever(old) == FALSE
Sticky(old) == old.status = "inaccessible_channel"

(* Does the refresh in job ask Slack about the channel of account a?       *)
(* Mutant: also about those it heard of within the day.                    *)
AsksAlways(job, a, result) ==
  /\ result.url \in KnownChannels /\ job.seen[result.url] = "absent"
  /\ ~Sticky(job.copy[a]) /\ job.copy[a].archived # "yes"
  /\ job.budget > 0
Asks(job, a, result) ==
  /\ result.url \in KnownChannels /\ job.seen[result.url] = "absent"
  /\ ~Sticky(job.copy[a]) /\ job.copy[a].archived # "yes"
  /\ ~job.copy[a].recent
  /\ job.budget > 0

(* The row a refresh writes.  A channel it has in its index is known by it;*)
(* what Slack called inaccessible or archived is carried, and what it      *)
(* called live within the day; a candidate is promoted by its name.        *)
Resolved(job, a, result, answer) ==
  LET old == job.copy[a]
      found == IF result.url \in KnownChannels THEN job.seen[result.url] ELSE "absent"
      named == IF result.status = "heuristic_candidate" /\ Convention[a] # NoUrl
               THEN job.seen[Convention[a]] ELSE "absent"
      Known(status, archived, recent) ==
        [url |-> result.url, source |-> result.source, status |-> status,
         archived |-> archived, recent |-> recent]
      Flag(s) == IF s = "archived" THEN "yes" ELSE "no"
  IN  CASE result.url \notin KnownChannels /\ named = "live" ->
             [url |-> Convention[a], source |-> "heuristic", status |-> "mapped",
              archived |-> "no", recent |-> FALSE]
        [] result.url \notin KnownChannels /\ named # "live" ->
             Known(result.status, IF named = "archived" THEN "yes" ELSE "unknown", FALSE)
        [] found # "absent" -> Known(result.status, Flag(found), TRUE)
        [] found = "absent" /\ result.url \in KnownChannels /\ Sticky(old) ->
             Known("inaccessible_channel", old.archived, old.recent)
        [] found = "absent" /\ result.url \in KnownChannels /\ ~Sticky(old)
             /\ old.archived = "yes" -> Known(result.status, "yes", old.recent)
        [] found = "absent" /\ Asks(job, a, result) ->
             Known(IF answer = "inaccessible" THEN "inaccessible_channel" ELSE result.status,
                   IF answer \in {"live", "archived"} THEN Flag(answer) ELSE "unknown",
                   answer # "none")
        [] OTHER ->
             Known(result.status,
                   IF old.recent THEN (IF old.archived = "unknown" THEN "no" ELSE old.archived)
                   ELSE "unknown", old.recent)

-----------------------------------------------------------------------------
(* Bookkeeping of the history variables.                                   *)

Holders(a) == {w \in Workers : a \in work[w].todo}
Changed == calm' = {} /\ rounds' = 0
Event == events < MaxEvents[Cardinality(present)] /\ events' = events + 1

Disturbed == [v \in Workers |-> [work[v] EXCEPT !.clean = FALSE]]

(* last_validated_at is kept when the new value is null (COALESCE).        *)
Put(a, r) == rowOf' = [rowOf EXCEPT ![a] =
               [r EXCEPT !.recent = r.recent \/ rowOf[a].recent]]

(* A request is done with an account, perhaps with all of them.            *)
Finished(job, a) ==
  IF job.todo = {a} THEN Idle
  ELSE [job EXCEPT !.todo = @ \ {a}, !.copy[a] = Absent,
                   !.sf[a] = NoUrl, !.sheet[a] = NoUrl]
Done(w, a) == work' = [work EXCEPT ![w] = Finished(@, a)]

-----------------------------------------------------------------------------
(* refreshMappings: read everything, then one account after the other.     *)

Read(w, scope) ==
  \E listing \in {TRUE, FALSE} :       \* does conversations.list succeed?
    work' = [Disturbed EXCEPT ![w] =
      [at |-> "refresh", todo |-> scope,
       copy |-> [a \in Accounts |-> IF a \in scope THEN rowOf[a] ELSE Absent],
       sf |-> [a \in Accounts |-> IF a \in scope THEN salesforce[a] ELSE NoUrl],
       sheet |-> [a \in Accounts |-> IF a \in scope THEN sheet[a] ELSE NoUrl],
       seen |-> [c \in KnownChannels |->
                   IF listing /\ c \in Listed /\ slack[c] # "gone" THEN slack[c]
                   ELSE "absent"],
       budget |-> Budget,
       clean |-> scope = present /\ \A v \in Workers \ {w} : work[v] = Idle]]

StartRefresh(w, scope) ==
  /\ work[w].at = "idle" /\ scope # {}
  /\ Read(w, scope)
  /\ UNCHANGED <<upstream, rowOf, operator, overtaken, calm, rounds, events>>

(* The upsert, with the validation before it.                              *)
RefreshOne(w, a, answer) ==
  LET job == work[w]
      result == MappingStatus(job.copy[a], job.sf[a], job.sheet[a])
      asks == Asks(job, a, result)
      row == Resolved(job, a, result, answer)
      steady == job.clean /\ row.url = rowOf[a].url /\ (asks => answer # "none")
  IN  /\ job.at = "refresh" /\ a \in job.todo
      /\ IF asks THEN answer \in Answers(result.url) ELSE answer = "none"
      /\ Put(a, row)
      /\ work' = [work EXCEPT ![w] =
           Finished([job EXCEPT !.budget = IF asks THEN @ - 1 ELSE @, !.clean = steady], a)]
      /\ overtaken' = IF Holders(a) = {w} THEN overtaken ELSE overtaken \cup {a}
      /\ calm' = IF job.sf[a] = salesforce[a] /\ job.sheet[a] = sheet[a]
                 THEN calm \cup {a} ELSE calm
      /\ rounds' = IF row.url # rowOf[a].url THEN 0
                   ELSE IF job.todo = {a} /\ steady /\ rounds < Cardinality(Accounts)
                   THEN rounds + 1 ELSE rounds
      /\ UNCHANGED <<upstream, operator, events>>

-----------------------------------------------------------------------------
(* setManualOverride: recorded whatever Slack answers.                     *)

Overridden(a, c, answer) ==
  [url |-> c, source |-> "override",
   status |-> IF answer = "inaccessible" THEN "inaccessible_channel"
              ELSE "manually_overridden",
   archived |-> IF answer = "archived" THEN "yes" ELSE "no", recent |-> TRUE]

SetOverride(a, c, holders) ==
  /\ \E answer \in Answers(c) : Put(a, Overridden(a, c, answer))
  /\ operator' = [operator EXCEPT ![a] = [url |-> c, inForce |-> TRUE]]
  /\ overtaken' = IF holders = {} THEN overtaken \ {a} ELSE overtaken \cup {a}
  /\ Changed

Override(a, c) ==
  /\ Event /\ SetOverride(a, c, Holders(a))
  /\ work' = Disturbed
  /\ UNCHANGED upstream

(* clearManualOverride: the row is emptied, then its account is refreshed. *)
(* Mutant: only the source is changed, the operator's URL stays as a cache.*)
ClearedSourceOnly(r) == [r EXCEPT !.source = "cache"]
Cleared(r) == [url |-> NoUrl, source |-> "cache", status |-> "unresolved",
               archived |-> "unknown", recent |-> FALSE]

Clear(w, a) ==
  /\ work[w].at = "idle" /\ Event
  /\ IF rowOf[a].source = "override"
     THEN rowOf' = [rowOf EXCEPT ![a] = Cleared(@)]
     ELSE UNCHANGED rowOf
  /\ operator' = [operator EXCEPT ![a].inForce = FALSE]
  /\ overtaken' = IF Holders(a) = {} THEN overtaken ELSE overtaken \cup {a}
  /\ work' = [Disturbed EXCEPT ![w] = [Idle EXCEPT !.at = "cleared", !.todo = {a}]]
  /\ Changed /\ UNCHANGED upstream

RefreshCleared(w) ==
  /\ work[w].at = "cleared"
  /\ Read(w, work[w].todo)
  /\ UNCHANGED <<upstream, rowOf, operator, overtaken, calm, rounds, events>>

-----------------------------------------------------------------------------
(* promoteFromChannelList: the candidates and the inaccessible rows are    *)
(* looked up by name in the channels the operator's browser has seen.      *)

Named(S) == {Convention[a] : a \in S} \ {NoUrl}

StartSweep(w) ==
  LET found == {a \in Accounts :
                  rowOf[a].status \in {"heuristic_candidate", "inaccessible_channel"}}
  IN  /\ work[w].at = "idle" /\ found # {}
      /\ \E pasted \in SUBSET {c \in Named(found) : slack[c] # "gone"} :
           work' = [Disturbed EXCEPT ![w] =
             [Idle EXCEPT !.at = "sweep", !.todo = found,
                !.copy = [a \in Accounts |-> IF a \in found THEN rowOf[a] ELSE Absent],
                !.seen = [c \in KnownChannels |-> IF c \in pasted THEN slack[c] ELSE "absent"]]]
      /\ UNCHANGED <<upstream, rowOf, operator, overtaken, calm, rounds, events>>

Exact(job, a) == IF Convention[a] = NoUrl THEN "absent" ELSE job.seen[Convention[a]]

Rescues(job, a) == /\ job.copy[a].status = "inaccessible_channel"
                   /\ job.copy[a].url # Convention[a]

SweepTouched(w, a) ==
  /\ overtaken' = IF Holders(a) = {w} THEN overtaken ELSE overtaken \cup {a}
  /\ Changed /\ UNCHANGED operator

SweepNothing(w, a) ==
  LET job == work[w]
  IN  /\ job.at = "sweep" /\ a \in job.todo
      /\ \/ Exact(job, a) = "absent"
         \/ job.copy[a].status = "inaccessible_channel" /\ ~Rescues(job, a)
      /\ Done(w, a)
      /\ UNCHANGED <<upstream, rowOf, operator, overtaken, calm, rounds, events>>

(* An archived match is noted, if the row has not changed its status.      *)
SweepArchived(w, a) ==
  LET job == work[w]
  IN  /\ job.at = "sweep" /\ a \in job.todo /\ Exact(job, a) = "archived"
      /\ job.copy[a].status = "inaccessible_channel" => Rescues(job, a)
      /\ IF rowOf[a].status = job.copy[a].status
         THEN rowOf' = [rowOf EXCEPT ![a].archived = "yes", ![a].recent = TRUE]
         ELSE UNCHANGED rowOf
      /\ Done(w, a) /\ SweepTouched(w, a) /\ UNCHANGED <<upstream, events>>

(* A candidate is promoted, if it still is one.                            *)
SweepPromotes(w, a) ==
  LET job == work[w]
  IN  /\ job.at = "sweep" /\ a \in job.todo /\ Exact(job, a) = "live"
      /\ job.copy[a].status = "heuristic_candidate"
      /\ IF rowOf[a].status = "heuristic_candidate"
         THEN rowOf' = [rowOf EXCEPT ![a] =
                [url |-> Convention[a], source |-> "heuristic", status |-> "mapped",
                 archived |-> "no", recent |-> TRUE]]
         ELSE UNCHANGED rowOf
      /\ Done(w, a) /\ SweepTouched(w, a) /\ UNCHANGED <<upstream, events>>

(* A dead channel is overridden by the live one of that name.              *)
SweepRescues(w, a) ==
  LET job == work[w]
  IN  /\ job.at = "sweep" /\ a \in job.todo /\ Exact(job, a) = "live"
      /\ Rescues(job, a)
      /\ SetOverride(a, Convention[a], Holders(a) \ {w})
      /\ Done(w, a) /\ UNCHANGED <<upstream, events>>

-----------------------------------------------------------------------------
(* The outside: a refresh run publishes another Salesforce value, a sheet  *)
(* is imported, a channel is archived, restored or deleted, a day passes.  *)

Disturb == /\ Event /\ Changed
           /\ work' = Disturbed
           /\ UNCHANGED <<present, overtaken>>

(* The operator's cleared URL may now come from elsewhere.                 *)
Offers(a) == operator' = [operator EXCEPT ![a].url = IF operator[a].inForce THEN @ ELSE NoUrl]

SalesforceChanges(a) ==
  /\ Disturb
  /\ \E u \in Urls \ {salesforce[a]} : salesforce' = [salesforce EXCEPT ![a] = u]
  /\ Offers(a) /\ UNCHANGED <<sheet, slack, rowOf>>

ImportSheet(a) ==
  /\ Disturb
  /\ \E u \in Urls \ {NoUrl, sheet[a]} : sheet' = [sheet EXCEPT ![a] = u]
  /\ Offers(a) /\ UNCHANGED <<salesforce, slack, rowOf>>

ChannelChanges(c) ==
  /\ Disturb /\ slack[c] # "gone"
  /\ \E s \in {"live", "archived", "gone"} \ {slack[c]} : slack' = [slack EXCEPT ![c] = s]
  /\ UNCHANGED <<salesforce, sheet, rowOf, operator>>

DayPasses ==
  /\ \A w \in Workers : work[w] = Idle
  /\ Disturb
  /\ rowOf' = [a \in Accounts |-> [rowOf[a] EXCEPT !.recent = FALSE]]
  /\ UNCHANGED <<salesforce, sheet, slack, operator>>

AccountStep(w, a) ==
  \/ StartRefresh(w, {a}) \/ Clear(w, a)
  \/ \E answer \in {"none", "unknown", "live", "archived", "inaccessible"} :
       RefreshOne(w, a, answer)
  \/ SweepNothing(w, a) \/ SweepArchived(w, a) \/ SweepPromotes(w, a) \/ SweepRescues(w, a)

MappingNext ==
  \/ \E w \in Workers : StartRefresh(w, present) \/ RefreshCleared(w) \/ StartSweep(w)
  \/ \E w \in Workers, a \in present : AccountStep(w, a)
  \/ \E a \in present, c \in KnownChannels : Override(a, c)
  \/ \E a \in present : SalesforceChanges(a) \/ ImportSheet(a)
  \/ \E c \in KnownChannels : ChannelChanges(c)
  \/ DayPasses

MappingSpec == MappingInit /\ [][MappingNext]_mappingVars

-----------------------------------------------------------------------------
(* Properties.                                                             *)

(* An override stays until it is cleared, through refreshes, sweeps,       *)
(* imports and Salesforce edits (comment at refreshMappings: "Manual       *)
(* overrides are preserved across refreshes"), unless a refresh or sweep   *)
(* that had read the row before was still under way when it was set.       *)
OverrideKept ==
  \A a \in Accounts \ overtaken : operator[a].inForce =>
    rowOf[a].source = "override" /\ rowOf[a].url = operator[a].url

(* What the operator cleared is gone: its URL comes back only from         *)
(* Salesforce, the sheet or the naming convention, not as the previous URL *)
(* (comment in clearManualOverride).                                       *)
ClearedIsGone ==
  \A a \in Accounts \ overtaken : ~operator[a].inForce =>
    /\ rowOf[a].source # "override"
    /\ rowOf[a].url \in KnownChannels /\ rowOf[a].url = operator[a].url =>
         rowOf[a].url \in {salesforce[a], sheet[a], Convention[a]}

(* A channel that Slack called inaccessible does not become usable again   *)
(* without a listing that shows it or an operator's act (status.ts: "can't *)
(* silently flip back to mapped").                                         *)
DeadStaysDead ==
  [][\A a \in Accounts :
       /\ rowOf[a].status = "inaccessible_channel"
       /\ rowOf'[a].status \in {"mapped", "manually_overridden"}
       /\ rowOf'[a].url = rowOf[a].url
       => \/ a \in overtaken' \/ rowOf'[a].source = "override"
          \/ \E w \in Workers : work[w].seen[rowOf[a].url] # "absent"]_mappingVars

(* Refreshing again with nothing changed upstream moves no row to another  *)
(* URL and takes none from the usable (comment at refreshMappings: "status/*)
(* url do not flip-flop"); a validation may find a channel inaccessible.   *)
NoFlipFlop ==
  [][\A a \in (calm \cap calm') \ overtaken' :
       /\ rowOf[a].url # NoUrl => rowOf'[a].url = rowOf[a].url
       /\ rowOf[a].status \in {"mapped", "manually_overridden"} =>
            rowOf'[a].status \in {rowOf[a].status, "inaccessible_channel"}]_mappingVars

(* The budget rotates: after enough refreshes of all accounts with nothing *)
(* changed and no call that threw, every channel has been heard of (comment*)
(* at RECENT_VALIDATION_MS).                                               *)
BudgetRotates ==
  Budget * rounds >= Cardinality(present) =>
    \A a \in present :
      LET r == rowOf[a]
      IN  r.url \in KnownChannels => \/ r.recent \/ r.archived = "yes"
                                \/ r.status = "inaccessible_channel"

(* The invariant of the mappings.                                          *)
MappingInv == MappingTypeOK /\ OverrideKept /\ ClearedIsGone /\ BudgetRotates

(* What a row says changes only for a cause.                               *)
RowsStaySettled == DeadStaysDead /\ NoFlipFlop
=============================================================================
