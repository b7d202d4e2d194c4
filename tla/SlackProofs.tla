----------------------------- MODULE SlackProofs -----------------------------
(***************************************************************************)
(* Proofs about the mapping of accounts to Slack channels, for any finite  *)
(* set of accounts, any channels, any number of requests under way, any    *)
(* budget of validations and whatever happens outside; and about the       *)
(* sending of Slack messages, for any handlers, channels, recipients and   *)
(* environments, and any number of rows, restarts and failed writes.       *)
(***************************************************************************)
EXTENDS SlackMapping, SlackSend, FiniteSetTheorems, TLAPS

-----------------------------------------------------------------------------
(* The inductive invariant.                                                *)

(* A usable row has a channel, which an override always has.               *)
Fits(r) ==
  /\ r.status \in {"mapped", "manually_overridden"} => r.url \in KnownChannels
  /\ r.status = "heuristic_candidate" => r.url = NoUrl
  /\ r.status = "invalid_slack_url" => r.url = Malformed
  /\ r.source = "override" =>
       r.url \in KnownChannels /\ r.status \in {"manually_overridden", "inaccessible_channel"}
  /\ r.status = "manually_overridden" => r.source = "override"

FittingRow == {r \in MappingRow : Fits(r)}

MappingJob ==
  [at : {"idle", "cleared", "refresh", "sweep"}, todo : SUBSET Accounts,
   copy : [Accounts -> FittingRow], sf : [Accounts -> Urls], sheet : [Accounts -> Urls],
   seen : [KnownChannels -> {"absent", "live", "archived"}], budget : 0..Budget,
   clean : BOOLEAN]

MappingTypes ==
  /\ salesforce \in [Accounts -> Urls] /\ sheet \in [Accounts -> Urls]
  /\ slack \in [KnownChannels -> {"live", "archived", "gone"}]
  /\ rowOf \in [Accounts -> FittingRow]
  /\ work \in [Workers -> MappingJob]
  /\ \A w \in Workers : work[w].at = "idle" => work[w] = Idle
  /\ present \in SUBSET Accounts
  /\ operator \in [Accounts -> [url : KnownChannels \cup {NoUrl}, inForce : BOOLEAN]]
  /\ \A a \in Accounts : operator[a].inForce => operator[a].url # NoUrl
  /\ overtaken \subseteq Accounts /\ calm \subseteq Accounts
  /\ rounds \in 0..Cardinality(Accounts) /\ events \in Nat

(* A request that nobody has overtaken holds a current copy of the row and,*)
(* as long as the operator's cleared URL has not been offered again or the *)
(* row is calm, of what Salesforce and the sheet say.                      *)
CopiesCurrent ==
  \A w \in Workers : \A a \in work[w].todo \ overtaken :
    work[w].at \in {"refresh", "sweep"} => work[w].copy[a] = rowOf[a]

SourcesCurrent ==
  \A w \in Workers : \A a \in work[w].todo \ overtaken :
    /\ work[w].at = "refresh"
    /\ a \in calm \/ (~operator[a].inForce /\ operator[a].url # NoUrl)
    => work[w].sf[a] = salesforce[a] /\ work[w].sheet[a] = sheet[a]

(* The URL of a calm row is the one that the next refresh finds.           *)
Stable(r, sf, sh) ==
  r.url # NoUrl =>
    \/ r.source = "override"
    \/ r.url = IF sf # NoUrl THEN sf ELSE IF sh # NoUrl THEN sh ELSE r.url

CalmIsSettled ==
  \A a \in calm \ overtaken : Stable(rowOf[a], salesforce[a], sheet[a])

(* Slack's answer about a row's channel is on record, for good or for a day.*)
ForGood(r) == r.archived = "yes" \/ r.status = "inaccessible_channel"
Heard(r) == r.url \in KnownChannels => r.recent \/ ForGood(r)
Unheard == {a \in present : ~Heard(rowOf[a])}

(* While rounds are counted a request's copies are of the rows' channels   *)
(* and know what was on record for good when they were read.               *)
CopiesFollow ==
  rounds > 0 => \A w \in Workers : \A a \in work[w].todo :
    work[w].at = "refresh" =>
      /\ work[w].copy[a].url = rowOf[a].url
      /\ ForGood(work[w].copy[a]) => Heard(rowOf[a])
      /\ rowOf[a].url \in KnownChannels /\ ForGood(rowOf[a]) /\ ~rowOf[a].recent =>
           ForGood(work[w].copy[a])

(* A clean refresh runs alone.                                             *)
CleanAlone ==
  \A w \in Workers : work[w].clean =>
    /\ work[w].at = "refresh" /\ work[w].todo \subseteq present
    /\ \A a \in work[w].todo : work[w].copy[a] = rowOf[a]
    /\ \A v \in Workers \ {w} : work[v] = Idle

(* Each round takes Budget accounts out of the unheard, or there are none  *)
(* left; a clean refresh has spent what it took out meanwhile, and passes  *)
(* over an account only when nothing is left of its budget.                *)
RoundsCount ==
  Unheard # {} => Budget * rounds + Cardinality(Unheard) <= Cardinality(present)

CleanCounts ==
  \A w \in Workers : work[w].clean =>
    /\ work[w].budget > 0 => Unheard \subseteq work[w].todo
    /\ Unheard # {} =>
         Budget * rounds + (Budget - work[w].budget) + Cardinality(Unheard)
           <= Cardinality(present)

MappingIInv ==
  /\ MappingTypes /\ CopiesCurrent /\ SourcesCurrent /\ OverrideKept /\ ClearedIsGone
  /\ CalmIsSettled /\ CopiesFollow /\ CleanAlone /\ RoundsCount /\ CleanCounts

-----------------------------------------------------------------------------
(* What a refresh makes of a row, as a value.                              *)

Found == [url : Urls, source : Sources, status : Statuses]

(* The first source decides, and what it decides is found again.           *)
LEMMA MappingStatusIs ==
  ASSUME NEW row \in FittingRow, NEW sf \in Urls, NEW sh \in Urls,
         NEW res, res = MappingStatus(row, sf, sh)
  PROVE  /\ res \in Found
         /\ row.source = "override" <=> res.source = "override"
         /\ row.source = "override" => res.url = row.url
         /\ row.source # "override" => res.url \in {sf, sh, row.url}
         /\ res.url = NoUrl <=> res.status = "heuristic_candidate"
         /\ res.url = NoUrl => row.url = NoUrl /\ sf = NoUrl /\ sh = NoUrl
         /\ res.url = Malformed <=> res.status = "invalid_slack_url"
         /\ res.url \in KnownChannels <=>
              res.status \in {"mapped", "manually_overridden", "inaccessible_channel"}
         /\ res.status = "manually_overridden" => res.source = "override"
         /\ res.source = "override" => res.status # "mapped"
         /\ res.status = "inaccessible_channel" => row.status = "inaccessible_channel"
         /\ Stable(res, sf, sh)
         /\ Stable(row, sf, sh) /\ row.url # NoUrl => res.url = row.url
<1>0. /\ row \in MappingRow /\ Fits(row)
      /\ NoUrl \notin KnownChannels /\ Malformed \notin KnownChannels /\ NoUrl # Malformed
  BY MappingAssumption DEF FittingRow, NoUrl, Malformed
<1>1. CASE row.source = "override"
  <2>1. row.url \in KnownChannels /\ row.url # NoUrl /\ row.url # Malformed
    BY <1>0, <1>1 DEF Fits
  <2>2. res = Judge(row.url, "override", "manually_overridden",
                    row.status = "inaccessible_channel")
    BY <1>1, <2>1 DEF MappingStatus
  <2> QED
    BY <1>0, <1>1, <2>1, <2>2 DEF Judge, Found, Sources, Statuses, Stable, MappingRow, Urls, Fits
<1>2. CASE row.source # "override"
  <2>1. CASE sf # NoUrl
    <3>1. res = Judge(sf, "salesforce", "mapped", row.status = "inaccessible_channel")
      BY <1>2, <2>1 DEF MappingStatus
    <3> QED
      BY <1>0, <1>2, <2>1, <3>1 DEF Judge, Found, Sources, Statuses, Stable, MappingRow, Urls
  <2>2. CASE sf = NoUrl /\ sh # NoUrl
    <3>1. res = Judge(sh, "sheet", "mapped", row.status = "inaccessible_channel")
      BY <1>2, <2>2 DEF MappingStatus
    <3> QED
      BY <1>0, <1>2, <2>2, <3>1 DEF Judge, Found, Sources, Statuses, Stable, MappingRow, Urls
  <2>3. CASE sf = NoUrl /\ sh = NoUrl /\ row.url # NoUrl
    <3>1. res = Judge(row.url, "cache", "mapped", FALSE)
      BY <1>2, <2>3 DEF MappingStatus
    <3> QED
      BY <1>0, <1>2, <2>3, <3>1 DEF Judge, Found, Sources, Statuses, Stable, MappingRow, Urls
  <2>4. CASE sf = NoUrl /\ sh = NoUrl /\ row.url = NoUrl
    <3>1. res = Candidate
      BY <1>2, <2>4 DEF MappingStatus
    <3> QED
      BY <1>0, <1>2, <2>4, <3>1 DEF Candidate, Found, Sources, Statuses, Stable, MappingRow, Urls
  <2> QED BY <2>1, <2>2, <2>3, <2>4
<1> QED BY <1>1, <1>2

(* What a refresh that holds the copy old of a row then writes, with or    *)
(* without Slack's answer: the URL that was found or, for a candidate, the *)
(* channel of its name; and what was on record for good stays on record.   *)
LEMMA ResolvedIs ==
  ASSUME NEW job \in MappingJob, NEW a \in Accounts, NEW res \in Found,
         res.url = NoUrl <=> res.status = "heuristic_candidate",
         res.url = Malformed <=> res.status = "invalid_slack_url",
         res.url \in KnownChannels <=>
           res.status \in {"mapped", "manually_overridden", "inaccessible_channel"},
         res.source = "override" <=> res.url \in KnownChannels /\ job.copy[a].source = "override",
         res.status = "manually_overridden" => res.source = "override",
         res.source = "override" => res.status # "mapped",
         res.status = "inaccessible_channel" => job.copy[a].status = "inaccessible_channel",
         NEW answer \in {"none", "unknown", "live", "archived", "inaccessible"},
         NEW r, r = Resolved(job, a, res, answer)
  PROVE  /\ r \in FittingRow
         /\ res.url \in KnownChannels =>
              /\ r.url = res.url /\ r.source = res.source
              /\ r.status \in {res.status, "inaccessible_channel"}
              /\ ForGood(job.copy[a]) => r.recent \/ ForGood(r)
              /\ ForGood(r) /\ ~r.recent => ForGood(job.copy[a])
              /\ Asks(job, a, res) /\ answer # "none" => r.recent
              /\ ~Asks(job, a, res) /\ job.budget > 0 => r.recent \/ ForGood(r)
              /\ job.copy[a].status = "inaccessible_channel" /\ job.seen[res.url] = "absent" =>
                   r.status = "inaccessible_channel"
         /\ res.url \notin KnownChannels =>
              \/ /\ res.url = NoUrl /\ r.url = Convention[a] /\ r.source = "heuristic"
                 /\ r.status = "mapped" /\ r.url \in KnownChannels
                 /\ job.seen[r.url] = "live"
              \/ r.url = res.url /\ r.source = res.source /\ r.status = res.status
<1> DEFINE old == job.copy[a]
           found == IF res.url \in KnownChannels THEN job.seen[res.url] ELSE "absent"
           named == IF res.status = "heuristic_candidate" /\ Convention[a] # NoUrl
                    THEN job.seen[Convention[a]] ELSE "absent"
           Known(status, archived, recent) ==
             [url |-> res.url, source |-> res.source, status |-> status,
              archived |-> archived, recent |-> recent]
           Flag(s) == IF s = "archived" THEN "yes" ELSE "no"
           Byname == [url |-> Convention[a], source |-> "heuristic", status |-> "mapped",
                      archived |-> "no", recent |-> FALSE]
           Unnamed == Known(res.status, IF named = "archived" THEN "yes" ELSE "unknown", FALSE)
           Seen == Known(res.status, Flag(found), TRUE)
           Stuck == Known("inaccessible_channel", old.archived, old.recent)
           Archived == Known(res.status, "yes", old.recent)
           Answered == Known(IF answer = "inaccessible" THEN "inaccessible_channel" ELSE res.status,
                             IF answer \in {"live", "archived"} THEN Flag(answer) ELSE "unknown",
                             answer # "none")
           Carried == Known(res.status,
                            IF old.recent THEN (IF old.archived = "unknown" THEN "no" ELSE old.archived)
                            ELSE "unknown", old.recent)
<1>r. r = CASE res.url \notin KnownChannels /\ named = "live" -> Byname
            [] res.url \notin KnownChannels /\ named # "live" -> Unnamed
            [] found # "absent" -> Seen
            [] found = "absent" /\ res.url \in KnownChannels /\ Sticky(old) -> Stuck
            [] found = "absent" /\ res.url \in KnownChannels /\ ~Sticky(old)
                 /\ old.archived = "yes" -> Archived
            [] found = "absent" /\ Asks(job, a, res) -> Answered
            [] OTHER -> Carried
  BY DEF Resolved
<1>0. /\ old \in MappingRow /\ Fits(old)
      /\ job.seen \in [KnownChannels -> {"absent", "live", "archived"}]
      /\ job.budget \in Nat
      /\ NoUrl \notin KnownChannels /\ Malformed \notin KnownChannels /\ NoUrl # Malformed
      /\ Convention[a] \in KnownChannels \cup {NoUrl}
  <2>1. old \in FittingRow
    BY DEF MappingJob
  <2>2. old \in MappingRow /\ Fits(old)
    BY <2>1 DEF FittingRow
  <2>3. job.seen \in [KnownChannels -> {"absent", "live", "archived"}] /\ job.budget \in Nat
    BY MappingAssumption DEF MappingJob
  <2> QED
    BY <2>2, <2>3, MappingAssumption DEF NoUrl, Malformed
<1>a. ForGood(old) <=> old.archived = "yes" \/ old.status = "inaccessible_channel"
  BY DEF ForGood
<1>1. ASSUME NEW s \in Statuses, NEW f \in {"yes", "no", "unknown"}, NEW b \in BOOLEAN,
             r = Known(s, f, b)
      PROVE  /\ r \in MappingRow
             /\ r.url = res.url /\ r.source = res.source /\ r.status = s
             /\ r.archived = f /\ r.recent = b
             /\ ForGood(r) <=> f = "yes" \/ s = "inaccessible_channel"
  <2>1. r \in MappingRow
    BY <1>1 DEF MappingRow, Found
  <2>2. r.url = res.url /\ r.source = res.source /\ r.status = s /\ r.archived = f
    BY <1>1
  <2>3. r.recent = b
    BY <1>1
  <2> QED
    BY <2>1, <2>2, <2>3 DEF ForGood
<1> HIDE DEF Byname, Unnamed, Seen, Stuck, Archived, Answered, Carried
<1>2. CASE res.url \notin KnownChannels
  <2>1. CASE named = "live"
    <3>1. r = Byname
      BY <1>r, <1>2, <2>1 DEF Asks
    <3>2. res.status = "heuristic_candidate" /\ Convention[a] \in KnownChannels
          /\ job.seen[Convention[a]] = "live"
      BY <1>0, <2>1
    <3>3. /\ r.url = Convention[a] /\ r.source = "heuristic" /\ r.status = "mapped"
          /\ r \in MappingRow
      BY <3>1, <3>2 DEF Byname, MappingRow, Sources, Statuses, Urls
    <3> QED
      BY <1>0, <1>2, <3>2, <3>3 DEF FittingRow, Fits
  <2>2. CASE named # "live"
    <3>1. r = Unnamed
      BY <1>r, <1>2, <2>2 DEF Asks
    <3>2. res.status \in Statuses /\ res.source # "override" /\ res.url \in Urls
      BY <1>2 DEF Found
    <3>3. r \in MappingRow /\ r.url = res.url /\ r.source = res.source /\ r.status = res.status
      BY <1>1, <3>1, <3>2 DEF Unnamed
    <3> QED
      BY <1>0, <1>2, <3>2, <3>3 DEF FittingRow, Fits, Urls
  <2> QED BY <2>1, <2>2
<1>3. CASE res.url \in KnownChannels
  <2>0. /\ res.status \in {"mapped", "manually_overridden", "inaccessible_channel"}
        /\ res.url # NoUrl /\ res.url # Malformed /\ res.status \in Statuses
        /\ "inaccessible_channel" \in Statuses
        /\ found = job.seen[res.url]
    BY <1>0, <1>3 DEF Found, Statuses
  <2> DEFINE Good ==
        /\ r \in MappingRow /\ r.url = res.url /\ r.source = res.source
        /\ r.status \in {res.status, "inaccessible_channel"}
  <2>c. ASSUME Good,
               ForGood(old) => r.recent \/ ForGood(r),
               ForGood(r) /\ ~r.recent => ForGood(old),
               Asks(job, a, res) /\ answer # "none" => r.recent,
               ~Asks(job, a, res) /\ job.budget > 0 => r.recent \/ ForGood(r),
               old.status = "inaccessible_channel" /\ found = "absent" =>
                 r.status = "inaccessible_channel"
        PROVE  r \in FittingRow
    BY <1>0, <1>3, <2>0, <2>c DEF FittingRow, Fits
  <2>f. Flag(found) \in {"yes", "no", "unknown"} /\ Flag(answer) \in {"yes", "no", "unknown"}
    OBVIOUS
  <2>o. old.archived \in {"yes", "no", "unknown"} /\ old.recent \in BOOLEAN
    BY <1>0 DEF MappingRow
  <2>1. CASE found # "absent"
    <3>1. r = Seen
      BY <1>r, <1>3, <2>1
    <3>2. Good /\ r.recent = TRUE
      BY <1>1, <2>0, <2>f, <3>1 DEF Seen
    <3>3. ~Asks(job, a, res)
      BY <2>0, <2>1 DEF Asks
    <3> QED
      BY <1>3, <2>0, <2>1, <2>c, <3>2, <3>3
  <2>2. CASE found = "absent" /\ Sticky(old)
    <3>1. r = Stuck
      BY <1>r, <1>3, <2>2 DEF Asks
    <3>2. Good /\ r.status = "inaccessible_channel" /\ ForGood(r)
      BY <1>1, <2>0, <2>o, <3>1 DEF Stuck
    <3>3. ~Asks(job, a, res) /\ ForGood(old)
      BY <2>2 DEF Asks, ForGood, Sticky
    <3> QED
      BY <1>3, <2>0, <2>2, <2>c, <3>2, <3>3
  <2>3. CASE found = "absent" /\ ~Sticky(old) /\ old.archived = "yes"
    <3>1. r = Archived
      BY <1>r, <1>3, <2>3 DEF Asks
    <3>2. Good /\ ForGood(r)
      BY <1>1, <2>0, <2>o, <3>1 DEF Archived
    <3>3. ~Asks(job, a, res) /\ ForGood(old) /\ old.status # "inaccessible_channel"
      BY <2>3 DEF Asks, ForGood, Sticky
    <3> QED
      BY <1>3, <2>0, <2>3, <2>c, <3>2, <3>3
  <2>n. CASE found = "absent" /\ ~Sticky(old) /\ old.archived # "yes"
    <3>0. /\ res.status # "inaccessible_channel" /\ old.status # "inaccessible_channel"
          /\ ~ForGood(old)
      BY <2>n DEF Sticky, ForGood
    <3>1. CASE Asks(job, a, res)
      <4> DEFINE s == IF answer = "inaccessible" THEN "inaccessible_channel" ELSE res.status
                 f == IF answer \in {"live", "archived"} THEN Flag(answer) ELSE "unknown"
                 b == answer # "none"
      <4>1. r = Known(s, f, b)
        BY <1>r, <1>3, <2>n, <3>1 DEF Answered
      <4>2. s \in Statuses /\ f \in {"yes", "no", "unknown"} /\ b \in BOOLEAN
        BY <2>0, <2>f
      <4>3. Good /\ r.recent = b /\ (ForGood(r) <=> f = "yes" \/ s = "inaccessible_channel")
        <5> HIDE DEF s, f, b, Known, Flag
        <5>1. /\ r \in MappingRow
              /\ r.url = res.url /\ r.source = res.source /\ r.status = s
              /\ r.archived = f /\ r.recent = b
              /\ ForGood(r) <=> f = "yes" \/ s = "inaccessible_channel"
          BY <1>1, <4>1, <4>2
        <5>2. s \in {res.status, "inaccessible_channel"}
          BY DEF s
        <5> QED
          BY <5>1, <5>2
      <4>4. ForGood(r) => r.recent
        BY <3>0, <4>3
      <4>5. answer # "none" => r.recent
        BY <4>3
      <4> HIDE DEF Good
      <4> QED
        BY <1>3, <2>0, <2>n, <2>c, <3>0, <3>1, <4>3, <4>4, <4>5 DEF Good
    <3>2. CASE ~Asks(job, a, res)
      <4>1. r = Carried
        BY <1>r, <1>3, <2>n, <3>2
      <4> DEFINE f == IF old.recent THEN (IF old.archived = "unknown" THEN "no" ELSE old.archived)
                      ELSE "unknown"
      <4>2. f \in {"yes", "no", "unknown"} /\ f # "yes"
        BY <2>n, <2>o
      <4>3. Good /\ r.recent = old.recent /\ ~ForGood(r)
        BY <1>1, <2>0, <2>o, <3>0, <4>1, <4>2 DEF Carried
      <4>4. job.budget > 0 => old.recent
        BY <1>3, <2>0, <2>n, <3>2 DEF Asks
      <4> QED
        BY <1>3, <2>0, <2>n, <2>c, <3>0, <3>2, <4>3, <4>4
    <3> QED BY <3>1, <3>2
  <2> QED BY <2>1, <2>2, <2>3, <2>n
<1> QED BY <1>2, <1>3


(* What a refresh writes over a row, of which it holds a copy.             *)
Result(job, a) == MappingStatus(job.copy[a], job.sf[a], job.sheet[a])
Over(old, r) == [r EXCEPT !.recent = r.recent \/ old.recent]

(* The upsert keeps everything of the new row but that a recent validation *)
(* of the old one stays recent.                                            *)
LEMMA OverIs ==
  ASSUME NEW old \in FittingRow, NEW r \in FittingRow, NEW n, n = Over(old, r)
  PROVE  /\ n \in FittingRow
         /\ n.url = r.url /\ n.source = r.source /\ n.status = r.status
         /\ n.archived = r.archived /\ (n.recent <=> r.recent \/ old.recent)
         /\ ForGood(n) <=> ForGood(r)
<1>0. r \in MappingRow /\ Fits(r) /\ old \in MappingRow
  BY DEF FittingRow
<1>1. /\ n.url = r.url /\ n.source = r.source /\ n.status = r.status
      /\ n.archived = r.archived /\ n.recent = (r.recent \/ old.recent)
  BY <1>0 DEF Over, MappingRow
<1>2. n \in MappingRow
  <2>1. ASSUME NEW b \in BOOLEAN
        PROVE  [r EXCEPT !.recent = b] \in MappingRow
    BY <1>0, <2>1 DEF MappingRow
  <2>2. (r.recent \/ old.recent) \in BOOLEAN
    OBVIOUS
  <2> QED
    BY <2>1, <2>2 DEF Over
<1>3. Fits(n)
  BY <1>0, <1>1 DEF Fits
<1>4. n.recent <=> r.recent \/ old.recent
  BY <1>1
<1> QED
  BY <1>1, <1>2, <1>3, <1>4 DEF FittingRow, ForGood

(* What a refresh writes of an account: an override stays, another row     *)
(* gets its URL from the sources it read, its copy or the convention; the  *)
(* row it leaves is one that a refresh with the same sources finds again;  *)
(* and what was heard of its channel stays heard.                          *)
LEMMA RefreshedRow ==
  ASSUME NEW job \in MappingJob, NEW a \in Accounts, NEW old \in FittingRow,
         NEW answer \in {"none", "unknown", "live", "archived", "inaccessible"},
         NEW c, c = job.copy[a],
         NEW res, res = Result(job, a),
         NEW n, n = Over(old, Resolved(job, a, res, answer))
  PROVE  /\ n \in FittingRow
         /\ c.source = "override" => n.source = "override" /\ n.url = c.url
         /\ c.source # "override" =>
              n.source # "override" /\ n.url \in {job.sf[a], job.sheet[a], c.url, Convention[a]}
         /\ Stable(n, job.sf[a], job.sheet[a])
         /\ Stable(c, job.sf[a], job.sheet[a]) =>
              /\ c.url # NoUrl => n.url = c.url
              /\ c.status \in {"mapped", "manually_overridden"} =>
                   n.status \in {c.status, "inaccessible_channel"}
         /\ c.status = "inaccessible_channel" /\ n.status \in {"mapped", "manually_overridden"}
              => n.url \in KnownChannels /\ job.seen[n.url] # "absent"
         /\ old.recent => n.recent
         /\ n.url = c.url /\ n.url \in KnownChannels =>
              /\ res.url = n.url
              /\ ForGood(c) => n.recent \/ ForGood(n)
              /\ ForGood(n) /\ ~n.recent => ForGood(c)
              /\ Asks(job, a, res) /\ answer # "none" => n.recent
              /\ ~Asks(job, a, res) /\ job.budget > 0 => n.recent \/ ForGood(n)
         /\ Asks(job, a, res) =>
              n.url = res.url /\ n.url \in KnownChannels /\ ~c.recent /\ ~ForGood(c) /\ job.budget > 0
         /\ n.url = Resolved(job, a, res, answer).url
<1> DEFINE r == Resolved(job, a, res, answer)
<1>0. /\ c \in FittingRow /\ job.sf[a] \in Urls /\ job.sheet[a] \in Urls
      /\ NoUrl \notin KnownChannels
  BY MappingAssumption DEF MappingJob
<1>1. /\ res \in Found
      /\ c.source = "override" <=> res.source = "override"
      /\ c.source = "override" => res.url = c.url
      /\ c.source # "override" => res.url \in {job.sf[a], job.sheet[a], c.url}
      /\ res.url = NoUrl <=> res.status = "heuristic_candidate"
      /\ res.url = NoUrl => c.url = NoUrl /\ job.sf[a] = NoUrl /\ job.sheet[a] = NoUrl
      /\ res.url = Malformed <=> res.status = "invalid_slack_url"
      /\ res.url \in KnownChannels <=>
           res.status \in {"mapped", "manually_overridden", "inaccessible_channel"}
      /\ res.status = "manually_overridden" => res.source = "override"
      /\ res.source = "override" => res.status # "mapped"
      /\ res.status = "inaccessible_channel" => c.status = "inaccessible_channel"
      /\ Stable(res, job.sf[a], job.sheet[a])
      /\ Stable(c, job.sf[a], job.sheet[a]) /\ c.url # NoUrl => res.url = c.url
  BY <1>0, MappingStatusIs DEF Result
<1>2. c \in MappingRow /\ Fits(c)
  BY <1>0 DEF FittingRow
<1>3. res.source = "override" => res.url \in KnownChannels
  BY <1>1, <1>2 DEF Fits
<1>4. /\ r \in FittingRow
      /\ res.url \in KnownChannels =>
           /\ r.url = res.url /\ r.source = res.source
           /\ r.status \in {res.status, "inaccessible_channel"}
           /\ ForGood(c) => r.recent \/ ForGood(r)
           /\ ForGood(r) /\ ~r.recent => ForGood(c)
           /\ Asks(job, a, res) /\ answer # "none" => r.recent
           /\ ~Asks(job, a, res) /\ job.budget > 0 => r.recent \/ ForGood(r)
           /\ c.status = "inaccessible_channel" /\ job.seen[res.url] = "absent" =>
                r.status = "inaccessible_channel"
      /\ res.url \notin KnownChannels =>
           \/ /\ res.url = NoUrl /\ r.url = Convention[a] /\ r.source = "heuristic"
              /\ r.status = "mapped" /\ r.url \in KnownChannels
              /\ job.seen[r.url] = "live"
           \/ r.url = res.url /\ r.source = res.source /\ r.status = res.status
  <2>1. res.source = "override" <=> res.url \in KnownChannels /\ job.copy[a].source = "override"
    BY <1>1, <1>3
  <2> HIDE DEF r
  <2>2. r = Resolved(job, a, res, answer)
    BY DEF r
  <2> QED
    BY <1>1, <2>1, <2>2, ResolvedIs
<1> HIDE DEF r
<1>5. /\ n \in FittingRow
      /\ n.url = r.url /\ n.source = r.source /\ n.status = r.status
      /\ (n.recent <=> r.recent \/ old.recent) /\ (ForGood(n) <=> ForGood(r))
  BY <1>4, OverIs DEF r
<1>u. n.url = Resolved(job, a, res, answer).url
  BY <1>5 DEF r
<1>6. /\ r.recent => n.recent
      /\ old.recent => n.recent
      /\ ~n.recent => ~r.recent
  BY <1>5
<1>7. Asks(job, a, res) =>
        res.url \in KnownChannels /\ ~c.recent /\ ~ForGood(c) /\ job.budget > 0
  BY DEF Asks, Sticky, ForGood
<1>8. CASE res.url \in KnownChannels
  <2>1. /\ n.url = res.url /\ n.source = res.source /\ n.status \in {res.status, "inaccessible_channel"}
        /\ res.url # NoUrl
    BY <1>0, <1>4, <1>5, <1>8
  <2>2. Stable(n, job.sf[a], job.sheet[a])
    BY <1>1, <2>1 DEF Stable
  <2>3. ASSUME Stable(c, job.sf[a], job.sheet[a])
        PROVE  /\ c.url # NoUrl => n.url = c.url
               /\ c.status \in {"mapped", "manually_overridden"} =>
                    n.status \in {c.status, "inaccessible_channel"}
    BY <1>1, <1>2, <1>8, <2>1, <2>3 DEF Fits
  <2>4. c.status = "inaccessible_channel" /\ n.status \in {"mapped", "manually_overridden"}
          => n.url \in KnownChannels /\ job.seen[n.url] # "absent"
    BY <1>4, <1>5, <1>8, <2>1
  <2>5. /\ ForGood(c) => n.recent \/ ForGood(n)
        /\ ForGood(n) /\ ~n.recent => ForGood(c)
        /\ Asks(job, a, res) /\ answer # "none" => n.recent
        /\ ~Asks(job, a, res) /\ job.budget > 0 => n.recent \/ ForGood(n)
    BY <1>4, <1>5, <1>6, <1>8
  <2> QED
    BY <1>1, <1>5, <1>6, <1>7, <1>8, <1>u, <2>1, <2>2, <2>3, <2>4, <2>5
<1>9. CASE res.url \notin KnownChannels
  <2>0. c.source # "override" /\ ~Asks(job, a, res)
    BY <1>1, <1>3, <1>7, <1>9
  <2>1. CASE /\ res.url = NoUrl /\ r.url = Convention[a] /\ r.source = "heuristic"
             /\ r.status = "mapped" /\ r.url \in KnownChannels
             /\ job.seen[r.url] = "live"
    <3>1. c.url = NoUrl /\ job.sf[a] = NoUrl /\ job.sheet[a] = NoUrl /\ n.url # NoUrl
      BY <1>0, <1>1, <1>5, <2>1
    <3>2. c.status \notin {"mapped", "manually_overridden"}
      BY <1>0, <1>2, <3>1 DEF Fits
    <3> QED
      BY <1>0, <1>5, <1>6, <1>u, <2>0, <2>1, <3>1, <3>2 DEF Stable
  <2>2. CASE r.url = res.url /\ r.source = res.source /\ r.status = res.status
    <3>1. /\ n.url = res.url /\ n.source = res.source /\ n.status = res.status
          /\ n.status \notin {"mapped", "manually_overridden"}
      BY <1>1, <1>5, <1>9, <2>2
    <3>2. Stable(n, job.sf[a], job.sheet[a])
      BY <1>1, <3>1 DEF Stable
    <3>3. Stable(c, job.sf[a], job.sheet[a]) =>
            /\ c.url # NoUrl => n.url = c.url
            /\ c.status \notin {"mapped", "manually_overridden"}
      BY <1>0, <1>1, <1>2, <1>9, <3>1 DEF Fits
    <3> QED
      BY <1>1, <1>5, <1>6, <1>9, <1>u, <2>0, <3>1, <3>2, <3>3
  <2> QED BY <1>4, <1>9, <2>1, <2>2
<1> QED BY <1>8, <1>9

-----------------------------------------------------------------------------
(* What the requests do with their copies.                                 *)

(* A request that does nothing, and a row that is not there, are of their  *)
(* kinds.                                                                  *)
LEMMA IdleIs ==
  /\ Idle \in MappingJob /\ Absent \in FittingRow
  /\ Idle.at = "idle" /\ Idle.todo = {} /\ Idle.budget = 0 /\ Idle.clean = FALSE
<1>0. NoUrl \notin KnownChannels /\ Budget \in Nat
  BY MappingAssumption
<1>1. Absent \in MappingRow
  BY DEF Absent, MappingRow, Urls, Sources, Statuses
<1>2. Fits(Absent)
  BY <1>0 DEF Absent, Fits
<1>3. Absent \in FittingRow
  BY <1>1, <1>2 DEF FittingRow
<1> QED
  BY <1>0, <1>3 DEF Idle, MappingJob, Urls

(* A request that is done with an account keeps what it read of the rest.  *)
LEMMA FinishedIs ==
  ASSUME NEW job \in MappingJob, NEW a \in job.todo, job.at # "idle",
         NEW f, f = Finished(job, a)
  PROVE  /\ f \in MappingJob
         /\ f.at = "idle" => f = Idle
         /\ f.todo = job.todo \ {a}
         /\ f.todo # {} =>
              /\ f.at = job.at /\ f.seen = job.seen /\ f.budget = job.budget
              /\ f.clean = job.clean
              /\ \A b \in f.todo : /\ f.copy[b] = job.copy[b] /\ f.sf[b] = job.sf[b]
                                   /\ f.sheet[b] = job.sheet[b]
         /\ f.clean => f.todo # {}
<1>1. CASE job.todo = {a}
  BY <1>1, IdleIs DEF Finished
<1>2. CASE job.todo # {a}
  <2>1. f = [job EXCEPT !.todo = @ \ {a}, !.copy[a] = Absent, !.sf[a] = NoUrl,
                        !.sheet[a] = NoUrl]
    BY <1>2 DEF Finished
  <2>2. /\ f.at = job.at /\ f.seen = job.seen /\ f.budget = job.budget
        /\ f.clean = job.clean /\ f.todo = job.todo \ {a}
        /\ f.copy = [job.copy EXCEPT ![a] = Absent]
        /\ f.sf = [job.sf EXCEPT ![a] = NoUrl] /\ f.sheet = [job.sheet EXCEPT ![a] = NoUrl]
    BY <2>1 DEF MappingJob
  <2>3. f \in MappingJob
    <3>1. [job.copy EXCEPT ![a] = Absent] \in [Accounts -> FittingRow]
      BY IdleIs DEF MappingJob
    <3>2. /\ [job.sf EXCEPT ![a] = NoUrl] \in [Accounts -> Urls]
          /\ [job.sheet EXCEPT ![a] = NoUrl] \in [Accounts -> Urls]
      BY DEF MappingJob, Urls
    <3> QED
      BY <2>1, <2>2, <3>1, <3>2 DEF MappingJob
  <2>4. f.todo # {}
    BY <1>2, <2>2
  <2>5. \A b \in f.todo : /\ f.copy[b] = job.copy[b] /\ f.sf[b] = job.sf[b]
                          /\ f.sheet[b] = job.sheet[b]
    BY <2>2 DEF MappingJob
  <2> QED
    BY <2>2, <2>3, <2>4, <2>5
<1> QED BY <1>1, <1>2

(* A change leaves no request clean, and otherwise as it was.              *)
LEMMA DisturbedIs ==
  ASSUME work \in [Workers -> MappingJob],
         \A v \in Workers : work[v].at = "idle" => work[v] = Idle,
         NEW d, d = Disturbed
  PROVE  /\ d \in [Workers -> MappingJob]
         /\ \A v \in Workers :
              /\ d[v].at = work[v].at /\ d[v].todo = work[v].todo
              /\ d[v].copy = work[v].copy /\ d[v].sf = work[v].sf
              /\ d[v].sheet = work[v].sheet
              /\ d[v].clean = FALSE
              /\ work[v] = Idle => d[v] = Idle
              /\ d[v].at = "idle" => d[v] = Idle
<1>1. ASSUME NEW v \in Workers
      PROVE  /\ d[v] \in MappingJob
             /\ d[v].at = work[v].at /\ d[v].todo = work[v].todo
             /\ d[v].copy = work[v].copy /\ d[v].sf = work[v].sf
             /\ d[v].sheet = work[v].sheet
             /\ d[v].clean = FALSE
             /\ work[v] = Idle => d[v] = Idle
  <2>1. d[v] = [work[v] EXCEPT !.clean = FALSE] /\ work[v] \in MappingJob
    BY DEF Disturbed
  <2>2. [Idle EXCEPT !.clean = FALSE] = Idle
    <3>1. ASSUME NEW j \in MappingJob, j.clean = FALSE
          PROVE  [j EXCEPT !.clean = FALSE] = j
      BY <3>1 DEF MappingJob
    <3> QED
      BY <3>1, IdleIs
  <2>3. work[v] = Idle => d[v] = Idle
    BY <2>1, <2>2
  <2> QED
    BY <2>1, <2>3 DEF MappingJob
<1>2. \A v \in Workers : d[v].at = "idle" => d[v] = Idle
  BY <1>1
<1>3. d \in [Workers -> MappingJob]
  <2>1. d = [v \in Workers |-> [work[v] EXCEPT !.clean = FALSE]]
    BY DEF Disturbed
  <2>2. \A v \in Workers : d[v] \in MappingJob
    BY <1>1
  <2> HIDE DEF MappingJob
  <2> QED
    BY <2>1, <2>2
<1> QED
  BY <1>1, <1>2, <1>3

(* The same, of the next state.                                            *)
LEMMA DisturbedWork ==
  ASSUME MappingTypes, work' = Disturbed
  PROVE  /\ work' \in [Workers -> MappingJob]
         /\ \A v \in Workers :
              /\ work'[v].at = work[v].at /\ work'[v].todo = work[v].todo
              /\ work'[v].copy = work[v].copy /\ work'[v].sf = work[v].sf
              /\ work'[v].sheet = work[v].sheet
              /\ work'[v].clean = FALSE
              /\ work'[v].at = "idle" => work'[v] = Idle
<1> DEFINE d == Disturbed
<1>1. /\ d \in [Workers -> MappingJob]
      /\ \A v \in Workers :
           /\ d[v].at = work[v].at /\ d[v].todo = work[v].todo
           /\ d[v].copy = work[v].copy /\ d[v].sf = work[v].sf
           /\ d[v].sheet = work[v].sheet
           /\ d[v].clean = FALSE
           /\ work[v] = Idle => d[v] = Idle
           /\ d[v].at = "idle" => d[v] = Idle
  BY DisturbedIs DEF MappingTypes
<1> HIDE DEF d
<1> QED
  BY <1>1 DEF d

(* What is left of request w's work when it is done with account a, having *)
(* counted in j what it spent on it.                                       *)
LEMMA FinishedWork ==
  ASSUME MappingTypes, NEW w \in Workers, NEW a \in Accounts, NEW j \in MappingJob,
         a \in j.todo, j.at # "idle",
         work' = [work EXCEPT ![w] = Finished(j, a)],
         j.at = work[w].at, j.todo = work[w].todo, j.copy = work[w].copy,
         j.sf = work[w].sf, j.sheet = work[w].sheet
  PROVE  /\ work' \in [Workers -> MappingJob]
         /\ \A v \in Workers : work'[v].at = "idle" => work'[v] = Idle
         /\ \A v \in Workers \ {w} : work'[v] = work[v]
         /\ work'[w].todo = work[w].todo \ {a}
         /\ work'[w].todo # {} =>
              work'[w].clean = j.clean /\ work'[w].budget = j.budget
         /\ work'[w].clean => work'[w].todo # {}
         /\ \A v \in Workers : work'[v].at \in {"refresh", "sweep"} /\ work'[v].todo # {} =>
              /\ work[v].at = work'[v].at /\ work'[v].todo \subseteq work[v].todo
              /\ \A b \in work'[v].todo :
                   /\ work'[v].copy[b] = work[v].copy[b] /\ work'[v].sf[b] = work[v].sf[b]
                   /\ work'[v].sheet[b] = work[v].sheet[b]
<1> DEFINE f == Finished(j, a)
<1>1. /\ f \in MappingJob
      /\ f.at = "idle" => f = Idle
      /\ f.todo = j.todo \ {a}
      /\ f.todo # {} =>
           /\ f.at = j.at /\ f.seen = j.seen /\ f.budget = j.budget
           /\ f.clean = j.clean
           /\ \A b \in f.todo : /\ f.copy[b] = j.copy[b] /\ f.sf[b] = j.sf[b]
                                /\ f.sheet[b] = j.sheet[b]
      /\ f.clean => f.todo # {}
  BY FinishedIs
<1> HIDE DEF f
<1>2. /\ work' \in [Workers -> MappingJob] /\ work'[w] = f
      /\ \A v \in Workers \ {w} : work'[v] = work[v]
  BY <1>1 DEF MappingTypes, f
<1>3. \A v \in Workers : work'[v].at = "idle" => work'[v] = Idle
  BY <1>1, <1>2 DEF MappingTypes
<1>4. ASSUME NEW v \in Workers, work'[v].todo # {}
      PROVE  /\ work[v].at = work'[v].at /\ work'[v].todo \subseteq work[v].todo
             /\ \A b \in work'[v].todo :
                   /\ work'[v].copy[b] = work[v].copy[b] /\ work'[v].sf[b] = work[v].sf[b]
                   /\ work'[v].sheet[b] = work[v].sheet[b]
  BY <1>1, <1>2, <1>4
<1> QED
  BY <1>1, <1>2, <1>3, <1>4

(* Sets of accounts can be counted.                                        *)
LEMMA AccountsAreFinite ==
  ASSUME NEW P \in SUBSET Accounts, NEW U \in SUBSET P
  PROVE  /\ IsFiniteSet(U) /\ Cardinality(U) \in Nat /\ Cardinality(P) \in Nat
         /\ Cardinality(U) <= Cardinality(P)
         /\ Cardinality(Accounts) \in Nat
<1>1. IsFiniteSet(Accounts)
  BY MappingAssumption
<1>2. IsFiniteSet(P)
  BY <1>1, FS_Subset
<1> QED
  BY <1>1, <1>2, FS_Subset, FS_CardinalityType

-----------------------------------------------------------------------------
(* Kinds of steps, and what they keep of the invariant.                    *)

(* A step that reads: request w now holds current copies, nothing else     *)
(* happens, and it is clean only if it is alone and refreshes all.         *)
LEMMA ReadsKeep ==
  ASSUME MappingIInv, NEW w \in Workers, NEW j \in MappingJob,
         work' = [Disturbed EXCEPT ![w] = j],
         UNCHANGED <<upstream, rowOf, operator, overtaken, calm, rounds, events>>,
         j.at \in {"refresh", "sweep"},
         \A a \in j.todo :
           /\ j.copy[a] = rowOf[a]
           /\ j.at = "refresh" => j.sf[a] = salesforce[a] /\ j.sheet[a] = sheet[a],
         j.clean => /\ j.at = "refresh" /\ j.todo = present /\ j.budget = Budget
                    /\ \A v \in Workers \ {w} : work[v] = Idle
  PROVE  MappingIInv'
<1>0. /\ UNCHANGED <<salesforce, sheet, slack, present, rowOf, operator, overtaken,
                     calm, rounds, events>>
      /\ Unheard' = Unheard
  BY DEF upstream, Unheard, Heard, ForGood
<1>1. MappingTypes
  BY DEF MappingIInv
<1> DEFINE d == Disturbed
<1>2. /\ d \in [Workers -> MappingJob]
      /\ \A v \in Workers :
           /\ d[v].at = work[v].at /\ d[v].todo = work[v].todo
           /\ d[v].copy = work[v].copy /\ d[v].sf = work[v].sf
           /\ d[v].sheet = work[v].sheet
           /\ d[v].clean = FALSE
           /\ work[v] = Idle => d[v] = Idle
           /\ d[v].at = "idle" => d[v] = Idle
  BY <1>1, DisturbedIs DEF MappingTypes
<1> HIDE DEF d
<1>3. /\ work' \in [Workers -> MappingJob] /\ work'[w] = j
      /\ \A v \in Workers \ {w} : work'[v] = d[v]
      /\ \A v \in Workers : work'[v].at = "idle" => work'[v] = Idle
  BY <1>2 DEF d
<1>4. MappingTypes'
  BY <1>0, <1>1, <1>3 DEF MappingTypes
<1>5. CopiesCurrent'
  BY <1>0, <1>2, <1>3 DEF MappingIInv, CopiesCurrent
<1>6. SourcesCurrent'
  BY <1>0, <1>2, <1>3 DEF MappingIInv, SourcesCurrent
<1>7. OverrideKept' /\ ClearedIsGone'
  BY <1>0 DEF MappingIInv, OverrideKept, ClearedIsGone
<1>8. CalmIsSettled'
  BY <1>0 DEF MappingIInv, CalmIsSettled, Stable
<1>9. CopiesFollow'
  <2>1. ASSUME rounds > 0, NEW v \in Workers, NEW a \in work'[v].todo, work'[v].at = "refresh"
        PROVE  /\ work'[v].copy[a].url = rowOf[a].url
               /\ ForGood(work'[v].copy[a]) => Heard(rowOf[a])
               /\ rowOf[a].url \in KnownChannels /\ ForGood(rowOf[a]) /\ ~rowOf[a].recent =>
                    ForGood(work'[v].copy[a])
    <3>1. CASE v = w
      BY <1>3, <2>1, <3>1 DEF Heard
    <3>2. CASE v # w
      BY <1>2, <1>3, <2>1, <3>2 DEF MappingIInv, CopiesFollow
    <3> QED BY <3>1, <3>2
  <2> QED
    BY <1>0, <2>1 DEF CopiesFollow, ForGood, Heard
<1>10. \A v \in Workers : work'[v].clean => v = w /\ j.clean
  BY <1>2, <1>3
<1>11. CleanAlone'
  BY <1>0, <1>2, <1>3, <1>10 DEF CleanAlone
<1>12. RoundsCount'
  BY <1>0 DEF MappingIInv, RoundsCount
<1>13. CleanCounts'
  <2>1. ASSUME j.clean
        PROVE  /\ Unheard \subseteq j.todo
               /\ Unheard # {} =>
                    Budget * rounds + (Budget - j.budget) + Cardinality(Unheard)
                      <= Cardinality(present)
    <3>1. j.budget = Budget /\ Budget \in Nat /\ rounds \in Nat /\ present \in SUBSET Accounts
          /\ Unheard \in SUBSET present
      <4>1. Cardinality(Accounts) \in Nat
        BY AccountsAreFinite
      <4> QED
        BY <1>1, <2>1, <4>1, MappingAssumption DEF MappingTypes, Unheard
    <3>2. Cardinality(Unheard) \in Nat /\ Cardinality(present) \in Nat /\ Budget * rounds \in Nat
      BY <3>1, AccountsAreFinite
    <3>3. Unheard # {} => Budget * rounds + Cardinality(Unheard) <= Cardinality(present)
      BY DEF MappingIInv, RoundsCount
    <3> DEFINE done == Budget * rounds
    <3> HIDE DEF done
    <3>4. Unheard # {} => done + (Budget - j.budget) + Cardinality(Unheard) <= Cardinality(present)
      BY <3>1, <3>2, <3>3 DEF done
    <3> QED
      BY <2>1, <3>1, <3>4 DEF done
  <2> QED
    BY <1>0, <1>3, <1>10, <2>1 DEF CleanCounts
<1> QED
  BY <1>4, <1>5, <1>6, <1>7, <1>8, <1>9, <1>11, <1>12, <1>13 DEF MappingIInv

(* A step that changes something starts the rounds again.                  *)
LEMMA ChangesKeep ==
  ASSUME Changed, MappingTypes', \A v \in Workers : ~work'[v].clean
  PROVE  /\ CalmIsSettled' /\ CopiesFollow' /\ CleanAlone' /\ RoundsCount' /\ CleanCounts'
<1>1. calm' = {} /\ rounds' = 0
  BY DEF Changed
<1>2. present' \in SUBSET Accounts /\ Unheard' \in SUBSET present'
  BY DEF MappingTypes, Unheard
<1>3. /\ Cardinality(Unheard') <= Cardinality(present')
      /\ Cardinality(Unheard') \in Nat /\ Cardinality(present') \in Nat
  BY <1>2, AccountsAreFinite
<1>4. Budget \in Nat
  BY MappingAssumption
<1>5. RoundsCount'
  BY <1>1, <1>3, <1>4 DEF RoundsCount
<1> QED
  BY <1>1, <1>5 DEF CalmIsSettled, CopiesFollow, CleanAlone, CleanCounts

(* A step that acts on the row of account a: whoever still holds a copy of *)
(* it has been overtaken; what it says of the operator's choice is to show.*)
LEMMA WritesKeep ==
  ASSUME MappingIInv, NEW a \in Accounts,
         \A v \in Workers : work'[v].at \in {"refresh", "sweep"} /\ work'[v].todo # {} =>
           /\ work[v].at = work'[v].at /\ work'[v].todo \subseteq work[v].todo
           /\ a \in work'[v].todo => a \in overtaken'
           /\ \A b \in work'[v].todo :
                /\ work'[v].copy[b] = work[v].copy[b] /\ work'[v].sf[b] = work[v].sf[b]
                /\ work'[v].sheet[b] = work[v].sheet[b],
         MappingTypes', UNCHANGED <<salesforce, sheet>>,
         \A b \in Accounts \ {a} :
           /\ rowOf'[b] = rowOf[b] /\ operator'[b] = operator[b]
           /\ b \in overtaken' <=> b \in overtaken
           /\ b \in calm' => b \in calm,
         a \notin overtaken' /\ operator'[a].inForce =>
           rowOf'[a].source = "override" /\ rowOf'[a].url = operator'[a].url,
         a \notin overtaken' /\ ~operator'[a].inForce =>
           /\ rowOf'[a].source # "override"
           /\ rowOf'[a].url \in KnownChannels /\ rowOf'[a].url = operator'[a].url =>
                rowOf'[a].url \in {salesforce[a], sheet[a], Convention[a]}
  PROVE  CopiesCurrent' /\ SourcesCurrent' /\ OverrideKept' /\ ClearedIsGone'
<1>1. CopiesCurrent'
  <2>1. ASSUME NEW v \in Workers, NEW b \in work'[v].todo \ overtaken',
               work'[v].at \in {"refresh", "sweep"}
        PROVE  work'[v].copy[b] = rowOf'[b]
    <3>1. b # a /\ b \in Accounts
      BY <2>1 DEF MappingTypes, MappingJob
    <3>2. b \in work[v].todo \ overtaken /\ work[v].at \in {"refresh", "sweep"}
      BY <2>1, <3>1
    <3>3. work[v].copy[b] = rowOf[b]
      BY <3>2 DEF MappingIInv, CopiesCurrent
    <3> QED
      BY <2>1, <3>1, <3>3
  <2> QED
    BY <2>1 DEF CopiesCurrent
<1>2. SourcesCurrent'
  <2>1. ASSUME NEW v \in Workers, NEW b \in work'[v].todo \ overtaken',
               work'[v].at = "refresh",
               b \in calm' \/ (~operator'[b].inForce /\ operator'[b].url # NoUrl)
        PROVE  work'[v].sf[b] = salesforce[b] /\ work'[v].sheet[b] = sheet[b]
    <3>1. b # a /\ b \in Accounts
      BY <2>1 DEF MappingTypes, MappingJob
    <3>2. /\ b \in work[v].todo \ overtaken /\ work[v].at = "refresh"
          /\ b \in calm \/ (~operator[b].inForce /\ operator[b].url # NoUrl)
      BY <2>1, <3>1
    <3>3. work[v].sf[b] = salesforce[b] /\ work[v].sheet[b] = sheet[b]
      BY <3>2 DEF MappingIInv, SourcesCurrent
    <3> QED
      BY <2>1, <3>1, <3>3
  <2> QED
    BY <2>1 DEF SourcesCurrent
<1>3. OverrideKept'
  BY DEF OverrideKept, MappingIInv
<1>4. ClearedIsGone'
  BY DEF ClearedIsGone, MappingIInv
<1> QED BY <1>1, <1>2, <1>3, <1>4

-----------------------------------------------------------------------------
(* The steps, one after the other.                                         *)

(* A refresh that reads has current copies of what it reads.               *)
LEMMA ReadStep ==
  ASSUME MappingIInv, NEW w \in Workers, NEW scope \in SUBSET Accounts, Read(w, scope),
         UNCHANGED <<upstream, rowOf, operator, overtaken, calm, rounds, events>>
  PROVE  MappingIInv'
<1> DEFINE Job(listing) ==
      [at |-> "refresh", todo |-> scope,
       copy |-> [a \in Accounts |-> IF a \in scope THEN rowOf[a] ELSE Absent],
       sf |-> [a \in Accounts |-> IF a \in scope THEN salesforce[a] ELSE NoUrl],
       sheet |-> [a \in Accounts |-> IF a \in scope THEN sheet[a] ELSE NoUrl],
       seen |-> [c \in KnownChannels |->
                   IF listing /\ c \in Listed /\ slack[c] # "gone" THEN slack[c]
                   ELSE "absent"],
       budget |-> Budget,
       clean |-> scope = present /\ \A v \in Workers \ {w} : work[v] = Idle]
<1>1. PICK listing \in {TRUE, FALSE} : work' = [Disturbed EXCEPT ![w] = Job(listing)]
  BY DEF Read
<1>2. MappingTypes
  BY DEF MappingIInv
<1>3. Job(listing) \in MappingJob
  <2>1. [a \in Accounts |-> IF a \in scope THEN rowOf[a] ELSE Absent] \in [Accounts -> FittingRow]
    BY <1>2, IdleIs DEF MappingTypes
  <2>2. /\ [a \in Accounts |-> IF a \in scope THEN salesforce[a] ELSE NoUrl] \in [Accounts -> Urls]
        /\ [a \in Accounts |-> IF a \in scope THEN sheet[a] ELSE NoUrl] \in [Accounts -> Urls]
    BY <1>2 DEF MappingTypes, Urls
  <2>3. [c \in KnownChannels |->
           IF listing /\ c \in Listed /\ slack[c] # "gone" THEN slack[c] ELSE "absent"]
        \in [KnownChannels -> {"absent", "live", "archived"}]
    BY <1>2 DEF MappingTypes
  <2>4. Budget \in 0..Budget
    BY MappingAssumption
  <2>5. (scope = present /\ \A v \in Workers \ {w} : work[v] = Idle) \in BOOLEAN
    OBVIOUS
  <2> QED
    BY <2>1, <2>2, <2>3, <2>4, <2>5 DEF MappingJob
<1>4. /\ Job(listing).at = "refresh" /\ Job(listing).todo = scope
      /\ Job(listing).budget = Budget
      /\ \A a \in scope : /\ Job(listing).copy[a] = rowOf[a]
                          /\ Job(listing).sf[a] = salesforce[a]
                          /\ Job(listing).sheet[a] = sheet[a]
  OBVIOUS
<1>5. Job(listing).clean <=> scope = present /\ \A v \in Workers \ {w} : work[v] = Idle
  OBVIOUS
<1> HIDE DEF Job
<1> QED
  BY <1>1, <1>3, <1>4, <1>5, ReadsKeep

(* So has a sweep.                                                         *)
LEMMA StartSweepStep ==
  ASSUME MappingIInv, NEW w \in Workers, StartSweep(w)
  PROVE  MappingIInv'
<1> DEFINE found == {a \in Accounts :
                       rowOf[a].status \in {"heuristic_candidate", "inaccessible_channel"}}
           Job(pasted) ==
             [Idle EXCEPT !.at = "sweep", !.todo = found,
                !.copy = [a \in Accounts |-> IF a \in found THEN rowOf[a] ELSE Absent],
                !.seen = [c \in KnownChannels |-> IF c \in pasted THEN slack[c] ELSE "absent"]]
<1>1. PICK pasted \in SUBSET {c \in Named(found) : slack[c] # "gone"} :
        work' = [Disturbed EXCEPT ![w] = Job(pasted)]
  BY DEF StartSweep
<1>2. MappingTypes
  BY DEF MappingIInv
<1> DEFINE copies == [a \in Accounts |-> IF a \in found THEN rowOf[a] ELSE Absent]
           views == [c \in KnownChannels |-> IF c \in pasted THEN slack[c] ELSE "absent"]
<1>3. copies \in [Accounts -> FittingRow] /\ views \in [KnownChannels -> {"absent", "live", "archived"}]
  <2>1. copies \in [Accounts -> FittingRow]
    BY <1>2, IdleIs DEF MappingTypes
  <2>2. \A c \in pasted : slack[c] # "gone"
    OBVIOUS
  <2>3. views \in [KnownChannels -> {"absent", "live", "archived"}]
    BY <1>2, <2>2 DEF MappingTypes
  <2> QED BY <2>1, <2>3
<1>4. found \in SUBSET Accounts /\ \A a \in found : copies[a] = rowOf[a]
  OBVIOUS
<1>5. Job(pasted) = [Idle EXCEPT !.at = "sweep", !.todo = found, !.copy = copies, !.seen = views]
  OBVIOUS
<1> HIDE DEF found, copies, views, Job
<1>6. /\ Job(pasted).at = "sweep" /\ Job(pasted).todo = found
      /\ Job(pasted).clean = FALSE /\ Job(pasted).copy = copies
  BY <1>5 DEF Idle
<1>7. Job(pasted) \in MappingJob
  BY <1>3, <1>4, <1>5, IdleIs DEF MappingJob
<1>8. UNCHANGED <<upstream, rowOf, operator, overtaken, calm, rounds, events>>
  BY DEF StartSweep
<1> QED
  BY <1>1, <1>4, <1>6, <1>7, <1>8, ReadsKeep

(* An override, or a sweep's, of a row that the others in holders read.    *)
LEMMA OverrideIs ==
  ASSUME MappingIInv, NEW a \in Accounts, NEW c \in KnownChannels, NEW holders,
         SetOverride(a, c, holders)
  PROVE  /\ rowOf' \in [Accounts -> FittingRow]
         /\ \A b \in Accounts \ {a} : rowOf'[b] = rowOf[b] /\ operator'[b] = operator[b]
         /\ rowOf'[a].source = "override" /\ rowOf'[a].url = c
         /\ operator'[a] = [url |-> c, inForce |-> TRUE]
         /\ operator' \in [Accounts -> [url : KnownChannels \cup {NoUrl}, inForce : BOOLEAN]]
         /\ \A b \in Accounts : operator'[b].inForce => operator'[b].url # NoUrl
<1>1. PICK answer \in Answers(c) : Put(a, Overridden(a, c, answer))
  BY DEF SetOverride
<1> DEFINE r == Overridden(a, c, answer)
           n == Over(rowOf[a], r)
<1>2. MappingTypes /\ NoUrl \notin KnownChannels
  BY MappingAssumption DEF MappingIInv
<1>3. r \in FittingRow /\ r.url = c /\ r.source = "override"
  <2>1. r \in MappingRow
    BY DEF Overridden, MappingRow, Urls, Sources, Statuses
  <2>2. Fits(r)
    BY DEF Overridden, Fits
  <2> QED
    BY <2>1, <2>2 DEF FittingRow, Overridden
<1> HIDE DEF r
<1>4. n \in FittingRow /\ n.url = c /\ n.source = "override"
  BY <1>2, <1>3, OverIs DEF MappingTypes
<1>5. rowOf' = [rowOf EXCEPT ![a] = n]
  BY <1>1 DEF Put, Over, r
<1> HIDE DEF n
<1>6. operator' = [operator EXCEPT ![a] = [url |-> c, inForce |-> TRUE]]
  BY DEF SetOverride
<1> QED
  BY <1>2, <1>4, <1>5, <1>6 DEF MappingTypes

(* The operator overrides a row: whoever had read it is overtaken.         *)
LEMMA OverrideStep ==
  ASSUME MappingIInv, NEW a \in Accounts, NEW c \in KnownChannels, Override(a, c)
  PROVE  MappingIInv'
<1>1. MappingTypes
  BY DEF MappingIInv
<1>2. SetOverride(a, c, Holders(a)) /\ UNCHANGED upstream /\ work' = Disturbed
  BY DEF Override
<1>3. /\ rowOf' \in [Accounts -> FittingRow]
      /\ \A b \in Accounts \ {a} : rowOf'[b] = rowOf[b] /\ operator'[b] = operator[b]
      /\ rowOf'[a].source = "override" /\ rowOf'[a].url = c
      /\ operator'[a] = [url |-> c, inForce |-> TRUE]
      /\ operator' \in [Accounts -> [url : KnownChannels \cup {NoUrl}, inForce : BOOLEAN]]
      /\ \A b \in Accounts : operator'[b].inForce => operator'[b].url # NoUrl
  BY <1>2, OverrideIs
<1>4. /\ work' \in [Workers -> MappingJob]
      /\ \A v \in Workers :
           /\ work'[v].at = work[v].at /\ work'[v].todo = work[v].todo
           /\ work'[v].copy = work[v].copy /\ work'[v].sf = work[v].sf
           /\ work'[v].sheet = work[v].sheet
           /\ work'[v].clean = FALSE
           /\ work'[v].at = "idle" => work'[v] = Idle
  BY <1>1, <1>2, DisturbedWork
<1>5. /\ Changed
      /\ overtaken' = IF Holders(a) = {} THEN overtaken \ {a} ELSE overtaken \cup {a}
      /\ events' \in Nat
  BY <1>1, <1>2 DEF SetOverride, Override, Event, MappingTypes
<1>6. calm' = {} /\ rounds' = 0 /\ Cardinality(Accounts) \in Nat
  BY <1>5, AccountsAreFinite DEF Changed
<1>7. MappingTypes'
  BY <1>1, <1>2, <1>3, <1>4, <1>5, <1>6 DEF MappingTypes, upstream
<1>8. CopiesCurrent' /\ SourcesCurrent' /\ OverrideKept' /\ ClearedIsGone'
  <2>1. \A v \in Workers : a \in work'[v].todo => a \in overtaken'
    BY <1>4, <1>5 DEF Holders
  <2>2. \A b \in Accounts \ {a} : (b \in overtaken' <=> b \in overtaken) /\ (b \in calm' => b \in calm)
    BY <1>5, <1>6
  <2>3. UNCHANGED <<salesforce, sheet>>
    BY <1>2 DEF upstream
  <2> QED
    BY <1>3, <1>4, <1>7, <2>1, <2>2, <2>3, WritesKeep
<1> QED
  BY <1>4, <1>5, <1>7, <1>8, ChangesKeep DEF MappingIInv

(* Clearing leaves no URL that could come back as the previous one.        *)
LEMMA ClearStep ==
  ASSUME MappingIInv, NEW w \in Workers, NEW a \in Accounts, Clear(w, a)
  PROVE  MappingIInv'
<1> DEFINE j == [Idle EXCEPT !.at = "cleared", !.todo = {a}]
<1>1. MappingTypes /\ NoUrl \notin KnownChannels
  BY MappingAssumption DEF MappingIInv
<1>2. /\ work' = [Disturbed EXCEPT ![w] = j]
      /\ operator' = [operator EXCEPT ![a].inForce = FALSE]
      /\ overtaken' = IF Holders(a) = {} THEN overtaken ELSE overtaken \cup {a}
      /\ UNCHANGED <<salesforce, sheet, slack, present>>
      /\ calm' = {} /\ rounds' = 0 /\ events' \in Nat /\ Changed
  BY <1>1 DEF Clear, upstream, Event, Changed, MappingTypes
<1>3. j \in MappingJob /\ j.at = "cleared" /\ j.clean = FALSE
  BY IdleIs DEF MappingJob, Idle
<1> HIDE DEF j
<1> DEFINE d == Disturbed
<1>4. /\ d \in [Workers -> MappingJob]
      /\ \A v \in Workers :
           /\ d[v].at = work[v].at /\ d[v].todo = work[v].todo
           /\ d[v].copy = work[v].copy /\ d[v].sf = work[v].sf
           /\ d[v].sheet = work[v].sheet
           /\ d[v].clean = FALSE
           /\ work[v] = Idle => d[v] = Idle
           /\ d[v].at = "idle" => d[v] = Idle
  BY <1>1, DisturbedIs DEF MappingTypes
<1> HIDE DEF d
<1>5. /\ work' \in [Workers -> MappingJob] /\ work'[w] = j
      /\ \A v \in Workers \ {w} : work'[v] = d[v]
      /\ \A v \in Workers : work'[v].at = "idle" => work'[v] = Idle
      /\ \A v \in Workers : ~work'[v].clean
  BY <1>2, <1>3, <1>4 DEF d
<1>6. rowOf[a].source = "override" =>
        /\ rowOf' = [rowOf EXCEPT ![a] = Cleared(rowOf[a])]
        /\ Cleared(rowOf[a]) \in FittingRow
        /\ Cleared(rowOf[a]).url = NoUrl /\ Cleared(rowOf[a]).source = "cache"
  <2>1. Cleared(rowOf[a]) \in MappingRow /\ Fits(Cleared(rowOf[a]))
    BY <1>1 DEF Cleared, MappingRow, Fits, Urls, Sources, Statuses
  <2>2. rowOf[a].source = "override" => rowOf' = [rowOf EXCEPT ![a] = Cleared(rowOf[a])]
    BY DEF Clear
  <2> QED
    BY <2>1, <2>2 DEF Cleared, FittingRow
<1>7. rowOf[a].source # "override" => rowOf' = rowOf
  BY DEF Clear
<1>8. /\ rowOf' \in [Accounts -> FittingRow] /\ rowOf'[a].source # "override"
      /\ rowOf'[a] = rowOf[a] \/ rowOf'[a].url = NoUrl
      /\ \A b \in Accounts \ {a} : rowOf'[b] = rowOf[b]
  BY <1>1, <1>6, <1>7 DEF MappingTypes
<1>9. /\ operator' \in [Accounts -> [url : KnownChannels \cup {NoUrl}, inForce : BOOLEAN]]
      /\ operator'[a].inForce = FALSE /\ operator'[a].url = operator[a].url
      /\ \A b \in Accounts \ {a} : operator'[b] = operator[b]
  BY <1>1, <1>2 DEF MappingTypes
<1>10. MappingTypes'
  <2>1. Cardinality(Accounts) \in Nat
    BY AccountsAreFinite
  <2>2. \A b \in Accounts : operator'[b].inForce => operator'[b].url # NoUrl
    BY <1>1, <1>9 DEF MappingTypes
  <2> QED
    BY <1>1, <1>2, <1>5, <1>8, <1>9, <2>1, <2>2 DEF MappingTypes
<1>11. CopiesCurrent' /\ SourcesCurrent' /\ OverrideKept' /\ ClearedIsGone'
  <2>1. \A v \in Workers : work'[v].at \in {"refresh", "sweep"} /\ work'[v].todo # {} =>
          /\ work[v].at = work'[v].at /\ work'[v].todo \subseteq work[v].todo
          /\ a \in work'[v].todo => a \in overtaken'
          /\ \A b \in work'[v].todo :
               /\ work'[v].copy[b] = work[v].copy[b] /\ work'[v].sf[b] = work[v].sf[b]
               /\ work'[v].sheet[b] = work[v].sheet[b]
    BY <1>2, <1>3, <1>4, <1>5 DEF Holders
  <2>2. \A b \in Accounts \ {a} :
          /\ rowOf'[b] = rowOf[b] /\ operator'[b] = operator[b]
          /\ b \in overtaken' <=> b \in overtaken
          /\ b \in calm' => b \in calm
    BY <1>2, <1>8, <1>9
  <2>3. ASSUME a \notin overtaken', rowOf'[a].url \in KnownChannels,
               rowOf'[a].url = operator'[a].url
        PROVE  rowOf'[a].url \in {salesforce[a], sheet[a], Convention[a]}
    <3>1. rowOf'[a] = rowOf[a] /\ a \notin overtaken /\ rowOf[a].source # "override"
      BY <1>1, <1>2, <1>8, <2>3
    <3>2. ~operator[a].inForce
      BY <3>1 DEF MappingIInv, OverrideKept
    <3> QED
      BY <1>9, <2>3, <3>1, <3>2 DEF MappingIInv, ClearedIsGone
  <2>4. UNCHANGED <<salesforce, sheet>>
    BY <1>2
  <2>5. /\ a \notin overtaken' /\ operator'[a].inForce =>
             rowOf'[a].source = "override" /\ rowOf'[a].url = operator'[a].url
        /\ a \notin overtaken' /\ ~operator'[a].inForce =>
             /\ rowOf'[a].source # "override"
             /\ rowOf'[a].url \in KnownChannels /\ rowOf'[a].url = operator'[a].url =>
                  rowOf'[a].url \in {salesforce[a], sheet[a], Convention[a]}
    BY <1>8, <1>9, <2>3
  <2> QED
    BY <1>10, <2>1, <2>2, <2>4, <2>5, WritesKeep
<1> QED
  BY <1>2, <1>5, <1>10, <1>11, ChangesKeep DEF MappingIInv

-----------------------------------------------------------------------------
(* A sweep is never clean and leaves nobody clean beside it.               *)
LEMMA SweepWork ==
  ASSUME MappingIInv, NEW w \in Workers, NEW a \in Accounts,
         work[w].at = "sweep", a \in work[w].todo, Done(w, a)
  PROVE  /\ work' \in [Workers -> MappingJob]
         /\ \A v \in Workers : work'[v].at = "idle" => work'[v] = Idle
         /\ \A v \in Workers : ~work'[v].clean
         /\ \A v \in Workers \ {w} : work'[v] = work[v]
         /\ work'[w].todo = work[w].todo \ {a}
         /\ \A v \in Workers : work'[v].at \in {"refresh", "sweep"} /\ work'[v].todo # {} =>
              /\ work[v].at = work'[v].at /\ work'[v].todo \subseteq work[v].todo
              /\ \A b \in work'[v].todo :
                   /\ work'[v].copy[b] = work[v].copy[b] /\ work'[v].sf[b] = work[v].sf[b]
                   /\ work'[v].sheet[b] = work[v].sheet[b]
<1> DEFINE j == work[w]
<1>1. j \in MappingJob /\ MappingTypes /\ a \in j.todo /\ j.at # "idle"
      /\ work' = [work EXCEPT ![w] = Finished(j, a)]
  BY DEF MappingIInv, MappingTypes, Done
<1>2. \A v \in Workers : ~work[v].clean
  <2>1. ASSUME NEW v \in Workers, work[v].clean
        PROVE  FALSE
    <3>1. work[v].at = "refresh" /\ \A u \in Workers \ {v} : work[u] = Idle
      BY <2>1 DEF MappingIInv, CleanAlone
    <3>2. work[w] = Idle
      BY <3>1
    <3> QED
      BY <3>2, IdleIs
  <2> QED BY <2>1
<1>3. /\ work' \in [Workers -> MappingJob]
      /\ \A v \in Workers : work'[v].at = "idle" => work'[v] = Idle
      /\ \A v \in Workers \ {w} : work'[v] = work[v]
      /\ work'[w].todo = work[w].todo \ {a}
      /\ work'[w].todo # {} =>
           work'[w].clean = j.clean /\ work'[w].budget = j.budget
      /\ work'[w].clean => work'[w].todo # {}
      /\ \A v \in Workers : work'[v].at \in {"refresh", "sweep"} /\ work'[v].todo # {} =>
           /\ work[v].at = work'[v].at /\ work'[v].todo \subseteq work[v].todo
           /\ \A b \in work'[v].todo :
                /\ work'[v].copy[b] = work[v].copy[b] /\ work'[v].sf[b] = work[v].sf[b]
                /\ work'[v].sheet[b] = work[v].sheet[b]
  <2> HIDE DEF j
  <2>1. j.at = work[w].at /\ j.todo = work[w].todo /\ j.copy = work[w].copy
        /\ j.sf = work[w].sf /\ j.sheet = work[w].sheet
    BY DEF j
  <2> QED
    BY <1>1, <2>1, FinishedWork
<1>4. \A v \in Workers : ~work'[v].clean
  BY <1>2, <1>3
<1> QED
  BY <1>3, <1>4

(* A sweep passes over an account.                                         *)
LEMMA SweepNothingStep ==
  ASSUME MappingIInv, NEW w \in Workers, NEW a \in Accounts, SweepNothing(w, a)
  PROVE  MappingIInv'
<1>1. /\ work[w].at = "sweep" /\ a \in work[w].todo /\ Done(w, a)
      /\ UNCHANGED <<salesforce, sheet, slack, present, rowOf, operator, overtaken, calm,
                     rounds, events>>
  BY DEF SweepNothing, upstream
<1>2. /\ work' \in [Workers -> MappingJob]
      /\ \A v \in Workers : work'[v].at = "idle" => work'[v] = Idle
      /\ \A v \in Workers : ~work'[v].clean
      /\ \A v \in Workers \ {w} : work'[v] = work[v]
      /\ work'[w].todo = work[w].todo \ {a}
      /\ \A v \in Workers : work'[v].at \in {"refresh", "sweep"} /\ work'[v].todo # {} =>
           /\ work[v].at = work'[v].at /\ work'[v].todo \subseteq work[v].todo
           /\ \A b \in work'[v].todo :
                /\ work'[v].copy[b] = work[v].copy[b] /\ work'[v].sf[b] = work[v].sf[b]
                /\ work'[v].sheet[b] = work[v].sheet[b]
  BY <1>1, SweepWork
<1>3. MappingTypes'
  BY <1>1, <1>2 DEF MappingIInv, MappingTypes
<1>4. CopiesCurrent'
  <2>1. ASSUME NEW v \in Workers, NEW b \in work'[v].todo \ overtaken',
               work'[v].at \in {"refresh", "sweep"}
        PROVE  work'[v].copy[b] = rowOf'[b]
    BY <1>1, <1>2, <2>1 DEF MappingIInv, CopiesCurrent
  <2> QED BY <2>1 DEF CopiesCurrent
<1>5. SourcesCurrent'
  <2>1. ASSUME NEW v \in Workers, NEW b \in work'[v].todo \ overtaken',
               work'[v].at = "refresh",
               b \in calm' \/ (~operator'[b].inForce /\ operator'[b].url # NoUrl)
        PROVE  work'[v].sf[b] = salesforce'[b] /\ work'[v].sheet[b] = sheet'[b]
    BY <1>1, <1>2, <2>1 DEF MappingIInv, SourcesCurrent
  <2> QED BY <2>1 DEF SourcesCurrent
<1>6. OverrideKept' /\ ClearedIsGone' /\ CalmIsSettled'
  BY <1>1 DEF MappingIInv, OverrideKept, ClearedIsGone, CalmIsSettled, Stable
<1>7. CopiesFollow'
  <2>1. ASSUME rounds > 0, NEW v \in Workers, NEW b \in work'[v].todo, work'[v].at = "refresh"
        PROVE  /\ work'[v].copy[b].url = rowOf[b].url
               /\ ForGood(work'[v].copy[b]) => Heard(rowOf[b])
               /\ rowOf[b].url \in KnownChannels /\ ForGood(rowOf[b]) /\ ~rowOf[b].recent =>
                    ForGood(work'[v].copy[b])
    BY <1>2, <2>1 DEF MappingIInv, CopiesFollow
  <2> QED
    BY <1>1, <2>1 DEF CopiesFollow, ForGood, Heard
<1>8. RoundsCount'
  <2>1. Unheard' = Unheard
    BY <1>1 DEF Unheard, Heard, ForGood
  <2> QED
    BY <1>1, <2>1 DEF MappingIInv, RoundsCount
<1>9. CleanAlone' /\ CleanCounts'
  BY <1>2 DEF CleanAlone, CleanCounts
<1> QED
  BY <1>3, <1>4, <1>5, <1>6, <1>7, <1>8, <1>9 DEF MappingIInv

(* A sweep that touches the row but not the operator's choice, which was   *)
(* not in force or is as it was.                                           *)
LEMMA SweepTouchStep ==
  ASSUME MappingIInv, NEW w \in Workers, NEW a \in Accounts,
         work[w].at = "sweep", a \in work[w].todo, Done(w, a), SweepTouched(w, a),
         UNCHANGED <<upstream, events>>,
         rowOf' \in [Accounts -> FittingRow],
         \A b \in Accounts \ {a} : rowOf'[b] = rowOf[b],
         \/ rowOf'[a].url = rowOf[a].url /\ rowOf'[a].source = rowOf[a].source
         \/ /\ rowOf[a].url = NoUrl /\ rowOf'[a].url = Convention[a]
            /\ rowOf'[a].source # "override"
  PROVE  MappingIInv'
<1>1. /\ MappingTypes /\ UNCHANGED <<salesforce, sheet, slack, present, operator, events>>
      /\ overtaken' = IF Holders(a) = {w} THEN overtaken ELSE overtaken \cup {a}
      /\ calm' = {} /\ rounds' = 0 /\ Changed
  BY DEF MappingIInv, SweepTouched, Changed, upstream
<1>2. /\ work' \in [Workers -> MappingJob]
      /\ \A v \in Workers : work'[v].at = "idle" => work'[v] = Idle
      /\ \A v \in Workers : ~work'[v].clean
      /\ \A v \in Workers \ {w} : work'[v] = work[v]
      /\ work'[w].todo = work[w].todo \ {a}
      /\ \A v \in Workers : work'[v].at \in {"refresh", "sweep"} /\ work'[v].todo # {} =>
           /\ work[v].at = work'[v].at /\ work'[v].todo \subseteq work[v].todo
           /\ \A b \in work'[v].todo :
                /\ work'[v].copy[b] = work[v].copy[b] /\ work'[v].sf[b] = work[v].sf[b]
                /\ work'[v].sheet[b] = work[v].sheet[b]
  BY SweepWork
<1>3. MappingTypes'
  <2>1. Cardinality(Accounts) \in Nat
    BY AccountsAreFinite
  <2> QED
    BY <1>1, <1>2, <2>1 DEF MappingTypes
<1>4. \A v \in Workers : a \in work'[v].todo => a \in overtaken'
  <2>1. ASSUME NEW v \in Workers, a \in work'[v].todo
        PROVE  a \in overtaken'
    <3>1. v # w /\ a \in work[v].todo
      BY <1>2, <2>1
    <3>2. Holders(a) # {w}
      BY <3>1 DEF Holders
    <3> QED
      BY <1>1, <3>2
  <2> QED BY <2>1
<1>5. a \notin overtaken' => a \notin overtaken
  BY <1>1
<1>6. ASSUME a \notin overtaken', operator'[a].inForce
      PROVE  rowOf'[a].source = "override" /\ rowOf'[a].url = operator'[a].url
  <2>1. rowOf[a].source = "override" /\ rowOf[a].url = operator[a].url
    BY <1>1, <1>5, <1>6 DEF MappingIInv, OverrideKept
  <2>2. rowOf[a].url # NoUrl
    BY <1>1, <1>6, <2>1 DEF MappingTypes
  <2> QED
    BY <1>1, <2>1, <2>2
<1>7. ASSUME a \notin overtaken', ~operator'[a].inForce
      PROVE  /\ rowOf'[a].source # "override"
             /\ rowOf'[a].url \in KnownChannels /\ rowOf'[a].url = operator'[a].url =>
                  rowOf'[a].url \in {salesforce[a], sheet[a], Convention[a]}
  <2>1. /\ rowOf[a].source # "override"
        /\ rowOf[a].url \in KnownChannels /\ rowOf[a].url = operator[a].url =>
             rowOf[a].url \in {salesforce[a], sheet[a], Convention[a]}
    BY <1>1, <1>5, <1>7 DEF MappingIInv, ClearedIsGone
  <2> QED
    BY <1>1, <2>1
<1>8. CopiesCurrent' /\ SourcesCurrent' /\ OverrideKept' /\ ClearedIsGone'
  <2>1. \A b \in Accounts \ {a} :
          /\ rowOf'[b] = rowOf[b] /\ operator'[b] = operator[b]
          /\ b \in overtaken' <=> b \in overtaken
          /\ b \in calm' => b \in calm
    BY <1>1
  <2>2. UNCHANGED <<salesforce, sheet>>
    BY <1>1
  <2> QED
    BY <1>2, <1>3, <1>4, <1>6, <1>7, <2>1, <2>2, WritesKeep
<1> QED
  BY <1>1, <1>2, <1>3, <1>8, ChangesKeep DEF MappingIInv

(* A sweep notes that a channel is archived.                               *)
LEMMA SweepArchivedStep ==
  ASSUME MappingIInv, NEW w \in Workers, NEW a \in Accounts, SweepArchived(w, a)
  PROVE  MappingIInv'
<1>1. /\ work[w].at = "sweep" /\ a \in work[w].todo /\ Done(w, a) /\ SweepTouched(w, a)
      /\ UNCHANGED <<upstream, events>> /\ MappingTypes
  BY DEF SweepArchived, MappingIInv
<1> DEFINE n == [rowOf[a] EXCEPT !.archived = "yes", !.recent = TRUE]
<1>2. n \in FittingRow /\ n.url = rowOf[a].url /\ n.source = rowOf[a].source
  <2>1. rowOf[a] \in MappingRow /\ Fits(rowOf[a])
    BY <1>1 DEF MappingTypes, FittingRow
  <2>2. /\ n \in MappingRow /\ n.url = rowOf[a].url /\ n.source = rowOf[a].source
        /\ n.status = rowOf[a].status
    BY <2>1 DEF MappingRow
  <2>3. Fits(n)
    BY <2>1, <2>2 DEF Fits
  <2> QED
    BY <2>2, <2>3 DEF FittingRow
<1>3. rowOf' = [rowOf EXCEPT ![a] = n] \/ rowOf' = rowOf
  BY <1>1 DEF SweepArchived, MappingTypes
<1> HIDE DEF n
<1>4. /\ rowOf' \in [Accounts -> FittingRow]
      /\ \A b \in Accounts \ {a} : rowOf'[b] = rowOf[b]
      /\ rowOf'[a].url = rowOf[a].url /\ rowOf'[a].source = rowOf[a].source
  BY <1>1, <1>2, <1>3 DEF MappingTypes
<1> QED
  BY <1>1, <1>4, SweepTouchStep

(* A sweep promotes a candidate, which has no URL and so is no override.   *)
LEMMA SweepPromotesStep ==
  ASSUME MappingIInv, NEW w \in Workers, NEW a \in Accounts, SweepPromotes(w, a)
  PROVE  MappingIInv'
<1>1. /\ work[w].at = "sweep" /\ a \in work[w].todo /\ Done(w, a) /\ SweepTouched(w, a)
      /\ UNCHANGED <<upstream, events>> /\ MappingTypes /\ Convention[a] \in KnownChannels
  BY MappingAssumption DEF SweepPromotes, MappingIInv, Exact
<1> DEFINE n == [url |-> Convention[a], source |-> "heuristic", status |-> "mapped",
                 archived |-> "no", recent |-> TRUE]
<1>2. n \in FittingRow /\ n.url = Convention[a] /\ n.source = "heuristic"
  BY <1>1 DEF FittingRow, MappingRow, Fits, Urls, Sources, Statuses
<1>3. \/ rowOf' = rowOf
      \/ rowOf[a].status = "heuristic_candidate" /\ rowOf' = [rowOf EXCEPT ![a] = n]
  BY DEF SweepPromotes
<1>4. rowOf[a].status = "heuristic_candidate" => rowOf[a].url = NoUrl
  BY <1>1 DEF MappingTypes, FittingRow, Fits
<1> HIDE DEF n
<1>5. /\ rowOf' \in [Accounts -> FittingRow]
      /\ \A b \in Accounts \ {a} : rowOf'[b] = rowOf[b]
      /\ \/ rowOf'[a].url = rowOf[a].url /\ rowOf'[a].source = rowOf[a].source
         \/ /\ rowOf[a].url = NoUrl /\ rowOf'[a].url = Convention[a]
            /\ rowOf'[a].source # "override"
  BY <1>1, <1>2, <1>3, <1>4 DEF MappingTypes
<1> QED
  BY <1>1, <1>5, SweepTouchStep

(* A sweep overrides a dead channel with the live one of the name.         *)
LEMMA SweepRescuesStep ==
  ASSUME MappingIInv, NEW w \in Workers, NEW a \in Accounts, SweepRescues(w, a)
  PROVE  MappingIInv'
<1> DEFINE c == Convention[a]
<1>1. /\ work[w].at = "sweep" /\ a \in work[w].todo /\ Done(w, a)
      /\ SetOverride(a, c, Holders(a) \ {w})
      /\ UNCHANGED <<salesforce, sheet, slack, present, events>>
      /\ MappingTypes /\ c \in KnownChannels
  BY MappingAssumption DEF SweepRescues, MappingIInv, Exact, upstream
<1> HIDE DEF c
<1>2. /\ rowOf' \in [Accounts -> FittingRow]
      /\ \A b \in Accounts \ {a} : rowOf'[b] = rowOf[b] /\ operator'[b] = operator[b]
      /\ rowOf'[a].source = "override" /\ rowOf'[a].url = c
      /\ operator'[a] = [url |-> c, inForce |-> TRUE]
      /\ operator' \in [Accounts -> [url : KnownChannels \cup {NoUrl}, inForce : BOOLEAN]]
      /\ \A b \in Accounts : operator'[b].inForce => operator'[b].url # NoUrl
  BY <1>1, OverrideIs
<1>3. /\ work' \in [Workers -> MappingJob]
      /\ \A v \in Workers : work'[v].at = "idle" => work'[v] = Idle
      /\ \A v \in Workers : ~work'[v].clean
      /\ \A v \in Workers \ {w} : work'[v] = work[v]
      /\ work'[w].todo = work[w].todo \ {a}
      /\ \A v \in Workers : work'[v].at \in {"refresh", "sweep"} /\ work'[v].todo # {} =>
           /\ work[v].at = work'[v].at /\ work'[v].todo \subseteq work[v].todo
           /\ \A b \in work'[v].todo :
                /\ work'[v].copy[b] = work[v].copy[b] /\ work'[v].sf[b] = work[v].sf[b]
                /\ work'[v].sheet[b] = work[v].sheet[b]
  BY <1>1, SweepWork
<1>4. /\ Changed
      /\ overtaken' = IF Holders(a) \ {w} = {} THEN overtaken \ {a} ELSE overtaken \cup {a}
  BY <1>1 DEF SetOverride
<1>5. calm' = {} /\ rounds' = 0 /\ Cardinality(Accounts) \in Nat
  BY <1>4, AccountsAreFinite DEF Changed
<1>6. MappingTypes'
  BY <1>1, <1>2, <1>3, <1>4, <1>5 DEF MappingTypes
<1>7. \A v \in Workers : a \in work'[v].todo => a \in overtaken'
  <2>1. ASSUME NEW v \in Workers, a \in work'[v].todo
        PROVE  a \in overtaken'
    <3>1. v # w /\ a \in work[v].todo
      BY <1>3, <2>1
    <3>2. v \in Holders(a) \ {w}
      BY <3>1 DEF Holders
    <3> QED
      BY <1>4, <3>2
  <2> QED BY <2>1
<1>8. CopiesCurrent' /\ SourcesCurrent' /\ OverrideKept' /\ ClearedIsGone'
  <2>1. \A b \in Accounts \ {a} :
          /\ rowOf'[b] = rowOf[b] /\ operator'[b] = operator[b]
          /\ b \in overtaken' <=> b \in overtaken
          /\ b \in calm' => b \in calm
    BY <1>2, <1>4, <1>5
  <2>2. UNCHANGED <<salesforce, sheet>>
    BY <1>1
  <2>3. rowOf'[a].source = "override" /\ rowOf'[a].url = operator'[a].url /\ operator'[a].inForce
    BY <1>2
  <2> QED
    BY <1>3, <1>6, <1>7, <2>1, <2>2, <2>3, WritesKeep
<1> QED
  BY <1>3, <1>4, <1>6, <1>8, ChangesKeep DEF MappingIInv

-----------------------------------------------------------------------------
(* A change from outside: requests keep their copies; the operator's choice*)
(* changes only in that a cleared URL may be offered again, and then what  *)
(* Salesforce or the sheet says may too.                                   *)
LEMMA OutsideStep ==
  ASSUME MappingIInv, Disturb, UNCHANGED rowOf,
         salesforce' \in [Accounts -> Urls], sheet' \in [Accounts -> Urls],
         slack' \in [KnownChannels -> {"live", "archived", "gone"}],
         \/ UNCHANGED <<salesforce, sheet, operator>>
         \/ \E a \in Accounts :
              /\ Offers(a)
              /\ \A b \in Accounts \ {a} : salesforce'[b] = salesforce[b] /\ sheet'[b] = sheet[b]
  PROVE  MappingIInv'
<1>1. /\ MappingTypes /\ NoUrl \notin KnownChannels
      /\ work' = Disturbed /\ UNCHANGED <<present, overtaken, rowOf>>
      /\ Changed /\ calm' = {} /\ rounds' = 0 /\ events' \in Nat
  BY MappingAssumption DEF MappingIInv, Disturb, Changed, Event, MappingTypes
<1>2. /\ work' \in [Workers -> MappingJob]
      /\ \A v \in Workers :
           /\ work'[v].at = work[v].at /\ work'[v].todo = work[v].todo
           /\ work'[v].copy = work[v].copy /\ work'[v].sf = work[v].sf
           /\ work'[v].sheet = work[v].sheet
           /\ work'[v].clean = FALSE
           /\ work'[v].at = "idle" => work'[v] = Idle
  BY <1>1, DisturbedWork
<1> DEFINE Kept ==
      /\ operator' \in [Accounts -> [url : KnownChannels \cup {NoUrl}, inForce : BOOLEAN]]
      /\ \A b \in Accounts :
           /\ operator'[b].inForce <=> operator[b].inForce
           /\ operator[b].inForce => operator'[b].url = operator[b].url
           /\ \/ operator'[b].url = NoUrl
              \/ operator[b].inForce
              \/ /\ operator'[b] = operator[b]
                 /\ salesforce'[b] = salesforce[b] /\ sheet'[b] = sheet[b]
<1>3. Kept
  <2>1. CASE UNCHANGED <<salesforce, sheet, operator>>
    BY <1>1, <2>1 DEF MappingTypes
  <2>2. ASSUME NEW a \in Accounts, Offers(a),
               \A b \in Accounts \ {a} : salesforce'[b] = salesforce[b] /\ sheet'[b] = sheet[b]
        PROVE  Kept
    <3>1. operator' = [operator EXCEPT ![a].url =
                         IF operator[a].inForce THEN operator[a].url ELSE NoUrl]
      BY <1>1, <2>2 DEF Offers, MappingTypes
    <3>2. operator[a] \in [url : KnownChannels \cup {NoUrl}, inForce : BOOLEAN]
      BY <1>1 DEF MappingTypes
    <3>3. /\ operator'[a].inForce = operator[a].inForce
          /\ operator'[a].url = IF operator[a].inForce THEN operator[a].url ELSE NoUrl
          /\ operator'[a] \in [url : KnownChannels \cup {NoUrl}, inForce : BOOLEAN]
      BY <1>1, <3>1, <3>2 DEF MappingTypes
    <3>4. \A b \in Accounts \ {a} : operator'[b] = operator[b]
      BY <1>1, <3>1 DEF MappingTypes
    <3>5. operator' \in [Accounts -> [url : KnownChannels \cup {NoUrl}, inForce : BOOLEAN]]
      BY <1>1, <3>1, <3>3, <3>4 DEF MappingTypes
    <3> QED
      BY <2>2, <3>3, <3>4, <3>5
  <2> QED BY <2>1, <2>2
<1>4. MappingTypes'
  <2>1. Cardinality(Accounts) \in Nat
    BY AccountsAreFinite
  <2>2. \A b \in Accounts : operator'[b].inForce => operator'[b].url # NoUrl
    BY <1>1, <1>3 DEF MappingTypes
  <2> QED
    BY <1>1, <1>2, <1>3, <2>1, <2>2 DEF MappingTypes
<1>5. CopiesCurrent'
  BY <1>1, <1>2 DEF MappingIInv, CopiesCurrent
<1>6. SourcesCurrent'
  <2>1. ASSUME NEW v \in Workers, NEW b \in work'[v].todo \ overtaken',
               work'[v].at = "refresh",
               b \in calm' \/ (~operator'[b].inForce /\ operator'[b].url # NoUrl)
        PROVE  work'[v].sf[b] = salesforce'[b] /\ work'[v].sheet[b] = sheet'[b]
    <3>1. b \in work[v].todo \ overtaken /\ work[v].at = "refresh" /\ b \in Accounts
      BY <1>1, <1>2, <2>1 DEF MappingTypes, MappingJob
    <3>2. /\ operator'[b] = operator[b] /\ ~operator[b].inForce /\ operator[b].url # NoUrl
          /\ salesforce'[b] = salesforce[b] /\ sheet'[b] = sheet[b]
      BY <1>1, <1>3, <2>1, <3>1
    <3>3. work[v].sf[b] = salesforce[b] /\ work[v].sheet[b] = sheet[b]
      BY <3>1, <3>2 DEF MappingIInv, SourcesCurrent
    <3> QED
      BY <1>2, <3>2, <3>3
  <2> QED BY <2>1 DEF SourcesCurrent
<1>7. OverrideKept'
  BY <1>1, <1>3 DEF MappingIInv, OverrideKept
<1>8. ClearedIsGone'
  <2>1. ASSUME NEW b \in Accounts \ overtaken', ~operator'[b].inForce
        PROVE  /\ rowOf'[b].source # "override"
               /\ rowOf'[b].url \in KnownChannels /\ rowOf'[b].url = operator'[b].url =>
                    rowOf'[b].url \in {salesforce'[b], sheet'[b], Convention[b]}
    <3>1. b \notin overtaken /\ ~operator[b].inForce /\ rowOf'[b] = rowOf[b]
      BY <1>1, <1>3, <2>1
    <3>2. /\ rowOf[b].source # "override"
          /\ rowOf[b].url \in KnownChannels /\ rowOf[b].url = operator[b].url =>
               rowOf[b].url \in {salesforce[b], sheet[b], Convention[b]}
      BY <3>1 DEF MappingIInv, ClearedIsGone
    <3> QED
      BY <1>1, <1>3, <3>1, <3>2
  <2> QED BY <2>1 DEF ClearedIsGone
<1> QED
  BY <1>1, <1>2, <1>4, <1>5, <1>6, <1>7, <1>8, ChangesKeep DEF MappingIInv

(* Salesforce changes its URL of an account, or a sheet brings one.        *)
LEMMA FieldSteps ==
  ASSUME MappingIInv, NEW a \in Accounts, SalesforceChanges(a) \/ ImportSheet(a)
  PROVE  MappingIInv'
<1>1. MappingTypes
  BY DEF MappingIInv
<1>2. CASE SalesforceChanges(a)
  <2>1. PICK u \in Urls : salesforce' = [salesforce EXCEPT ![a] = u]
    BY <1>2 DEF SalesforceChanges
  <2>2. Disturb /\ Offers(a) /\ UNCHANGED <<sheet, slack, rowOf>>
    BY <1>2 DEF SalesforceChanges
  <2>3. /\ salesforce' \in [Accounts -> Urls]
        /\ \A b \in Accounts \ {a} : salesforce'[b] = salesforce[b] /\ sheet'[b] = sheet[b]
    BY <1>1, <2>1, <2>2 DEF MappingTypes
  <2> QED
    BY <1>1, <2>2, <2>3, OutsideStep DEF MappingTypes
<1>3. CASE ImportSheet(a)
  <2>1. PICK u \in Urls : sheet' = [sheet EXCEPT ![a] = u]
    BY <1>3 DEF ImportSheet
  <2>2. Disturb /\ Offers(a) /\ UNCHANGED <<salesforce, slack, rowOf>>
    BY <1>3 DEF ImportSheet
  <2>3. /\ sheet' \in [Accounts -> Urls]
        /\ \A b \in Accounts \ {a} : salesforce'[b] = salesforce[b] /\ sheet'[b] = sheet[b]
    BY <1>1, <2>1, <2>2 DEF MappingTypes
  <2> QED
    BY <1>1, <2>2, <2>3, OutsideStep DEF MappingTypes
<1> QED BY <1>2, <1>3

(* A channel is archived, restored or deleted.                             *)
LEMMA ChannelStep ==
  ASSUME MappingIInv, NEW c \in KnownChannels, ChannelChanges(c)
  PROVE  MappingIInv'
<1>1. MappingTypes
  BY DEF MappingIInv
<1>2. PICK s \in {"live", "archived", "gone"} : slack' = [slack EXCEPT ![c] = s]
  BY DEF ChannelChanges
<1>3. Disturb /\ UNCHANGED <<salesforce, sheet, rowOf, operator>>
  BY DEF ChannelChanges
<1>4. slack' \in [KnownChannels -> {"live", "archived", "gone"}]
  BY <1>1, <1>2 DEF MappingTypes
<1> QED
  BY <1>1, <1>3, <1>4, OutsideStep DEF MappingTypes

(* A day passes and no validation is recent any more; no request is under  *)
(* way, and so none holds a copy from the day before.                      *)
LEMMA DayPassesStep ==
  ASSUME MappingIInv, DayPasses
  PROVE  MappingIInv'
<1>1. /\ MappingTypes
      /\ work' = Disturbed /\ \A v \in Workers : work[v] = Idle
      /\ UNCHANGED <<salesforce, sheet, slack, operator, present, overtaken>>
      /\ Changed /\ calm' = {} /\ rounds' = 0 /\ events' \in Nat
      /\ rowOf' = [a \in Accounts |-> [rowOf[a] EXCEPT !.recent = FALSE]]
  BY DEF MappingIInv, DayPasses, Disturb, Changed, Event, MappingTypes
<1>2. /\ work' \in [Workers -> MappingJob]
      /\ \A v \in Workers :
           /\ work'[v].at = work[v].at /\ work'[v].todo = work[v].todo
           /\ work'[v].copy = work[v].copy /\ work'[v].sf = work[v].sf
           /\ work'[v].sheet = work[v].sheet
           /\ work'[v].clean = FALSE
           /\ work'[v].at = "idle" => work'[v] = Idle
  BY <1>1, DisturbedWork
<1>3. ASSUME NEW a \in Accounts
      PROVE  /\ rowOf'[a] \in FittingRow
             /\ rowOf'[a].url = rowOf[a].url /\ rowOf'[a].source = rowOf[a].source
  <2>1. rowOf[a] \in MappingRow /\ Fits(rowOf[a])
    BY <1>1 DEF MappingTypes, FittingRow
  <2>2. rowOf'[a] = [rowOf[a] EXCEPT !.recent = FALSE]
    BY <1>1
  <2>3. /\ rowOf'[a] \in MappingRow /\ rowOf'[a].url = rowOf[a].url
        /\ rowOf'[a].source = rowOf[a].source /\ rowOf'[a].status = rowOf[a].status
    BY <2>1, <2>2 DEF MappingRow
  <2>4. Fits(rowOf'[a])
    BY <2>1, <2>3 DEF Fits
  <2> QED
    BY <2>3, <2>4 DEF FittingRow
<1>4. MappingTypes'
  <2>1. Cardinality(Accounts) \in Nat
    BY AccountsAreFinite
  <2>2. rowOf' \in [Accounts -> FittingRow]
    BY <1>1, <1>3
  <2> QED
    BY <1>1, <1>2, <2>1, <2>2 DEF MappingTypes
<1>5. \A v \in Workers : work'[v].todo = {}
  BY <1>1, <1>2, IdleIs
<1>6. CopiesCurrent' /\ SourcesCurrent'
  BY <1>5 DEF CopiesCurrent, SourcesCurrent
<1>7. OverrideKept' /\ ClearedIsGone'
  BY <1>1, <1>3 DEF MappingIInv, OverrideKept, ClearedIsGone
<1> QED
  BY <1>1, <1>2, <1>4, <1>6, <1>7, ChangesKeep DEF MappingIInv

-----------------------------------------------------------------------------
(* A refresh writes a row.  If its copy was current the operator's choice  *)
(* and a calm row stay; and if it is clean it has spent one of its budget  *)
(* for each account it took out of the unheard.                            *)
LEMMA RefreshOneStep ==
  ASSUME MappingIInv, NEW w \in Workers, NEW a \in Accounts,
         NEW answer \in {"none", "unknown", "live", "archived", "inaccessible"},
         RefreshOne(w, a, answer)
  PROVE  MappingIInv'
<1> DEFINE job == work[w]
           c == job.copy[a]
           old == rowOf[a]
           result == Result(job, a)
           asks == Asks(job, a, result)
           row == Resolved(job, a, result, answer)
           n == Over(old, row)
           steady == job.clean /\ row.url = old.url /\ (asks => answer # "none")
           j == [job EXCEPT !.budget = IF asks THEN @ - 1 ELSE @, !.clean = steady]
<1>1. /\ job.at = "refresh" /\ a \in job.todo
      /\ rowOf' = [rowOf EXCEPT ![a] = n]
      /\ work' = [work EXCEPT ![w] = Finished(j, a)]
      /\ overtaken' = IF Holders(a) = {w} THEN overtaken ELSE overtaken \cup {a}
      /\ calm' = IF job.sf[a] = salesforce[a] /\ job.sheet[a] = sheet[a]
                 THEN calm \cup {a} ELSE calm
      /\ rounds' = IF row.url # old.url THEN 0
                   ELSE IF job.todo = {a} /\ steady /\ rounds < Cardinality(Accounts)
                   THEN rounds + 1 ELSE rounds
      /\ UNCHANGED <<salesforce, sheet, slack, present, operator, events>>
  BY DEF RefreshOne, Put, Over, Result, upstream
<1>2. /\ MappingTypes /\ job \in MappingJob /\ c \in FittingRow /\ old \in FittingRow
      /\ NoUrl \notin KnownChannels
  BY MappingAssumption DEF MappingIInv, MappingTypes, MappingJob
<1>3. /\ n \in FittingRow
      /\ c.source = "override" => n.source = "override" /\ n.url = c.url
      /\ c.source # "override" =>
           n.source # "override" /\ n.url \in {job.sf[a], job.sheet[a], c.url, Convention[a]}
      /\ Stable(n, job.sf[a], job.sheet[a])
      /\ old.recent => n.recent
      /\ n.url = c.url /\ n.url \in KnownChannels =>
           /\ ForGood(c) => n.recent \/ ForGood(n)
           /\ ForGood(n) /\ ~n.recent => ForGood(c)
           /\ asks /\ answer # "none" => n.recent
           /\ ~asks /\ job.budget > 0 => n.recent \/ ForGood(n)
      /\ asks => n.url \in KnownChannels /\ ~c.recent /\ ~ForGood(c) /\ job.budget > 0
      /\ n.url = row.url
  <2> HIDE DEF job, old, c, n, row, result, asks
  <2>1. c = job.copy[a] /\ result = Result(job, a)
        /\ n = Over(old, Resolved(job, a, result, answer))
    BY DEF c, n, row, result
  <2> QED
    BY <1>2, <2>1, RefreshedRow DEF asks, row
<1>4. /\ j \in MappingJob /\ j.at = job.at /\ j.todo = job.todo /\ j.copy = job.copy
      /\ j.sf = job.sf /\ j.sheet = job.sheet
      /\ j.clean = steady /\ j.budget = IF asks THEN job.budget - 1 ELSE job.budget
  <2> HIDE DEF job, steady, asks
  <2>1. steady \in BOOLEAN
    BY DEF steady
  <2>2. (IF asks THEN job.budget - 1 ELSE job.budget) \in 0..Budget
    <3>1. job.budget \in 0..Budget
      BY <1>2 DEF MappingJob
    <3> QED
      BY <1>3, <3>1, MappingAssumption
  <2> QED
    BY <1>2, <2>1, <2>2 DEF MappingJob, j
<1> HIDE DEF j
<1>5. /\ work' \in [Workers -> MappingJob]
      /\ \A v \in Workers : work'[v].at = "idle" => work'[v] = Idle
      /\ \A v \in Workers \ {w} : work'[v] = work[v]
      /\ work'[w].todo = job.todo \ {a}
      /\ work'[w].todo # {} => work'[w].clean = j.clean /\ work'[w].budget = j.budget
      /\ work'[w].clean => work'[w].todo # {}
      /\ \A v \in Workers : work'[v].at \in {"refresh", "sweep"} /\ work'[v].todo # {} =>
           /\ work[v].at = work'[v].at /\ work'[v].todo \subseteq work[v].todo
           /\ \A b \in work'[v].todo :
                /\ work'[v].copy[b] = work[v].copy[b] /\ work'[v].sf[b] = work[v].sf[b]
                /\ work'[v].sheet[b] = work[v].sheet[b]
  <2>1. a \in j.todo /\ j.at # "idle"
    BY <1>1, <1>4
  <2> QED
    BY <1>1, <1>2, <1>4, <2>1, FinishedWork
<1> HIDE DEF c, result, asks, row, n
<1>6. /\ rowOf' \in [Accounts -> FittingRow] /\ rowOf'[a] = n
      /\ \A b \in Accounts \ {a} : rowOf'[b] = rowOf[b]
  BY <1>1, <1>2, <1>3 DEF MappingTypes
<1>7. /\ Cardinality(Accounts) \in Nat /\ rounds \in Nat /\ Budget \in Nat
      /\ rounds' \in 0..Cardinality(Accounts)
  <2>1. Cardinality(Accounts) \in Nat
    BY AccountsAreFinite
  <2>2. rounds \in 0..Cardinality(Accounts)
    BY <1>2 DEF MappingTypes
  <2> QED
    BY <1>1, <2>1, <2>2, MappingAssumption
<1>8. MappingTypes'
  BY <1>1, <1>2, <1>5, <1>6, <1>7 DEF MappingTypes
<1>9. \A v \in Workers : a \in work'[v].todo => a \in overtaken'
  <2>1. ASSUME NEW v \in Workers, a \in work'[v].todo
        PROVE  a \in overtaken'
    <3>1. v # w /\ a \in work[v].todo
      BY <1>5, <2>1
    <3>2. Holders(a) # {w}
      BY <3>1 DEF Holders
    <3> QED
      BY <1>1, <3>2
  <2> QED BY <2>1
<1>10. a \notin overtaken' => a \notin overtaken /\ c = old
  BY <1>1 DEF MappingIInv, CopiesCurrent, c
<1>11. ASSUME a \notin overtaken', operator'[a].inForce
       PROVE  n.source = "override" /\ n.url = operator'[a].url
  <2>1. old.source = "override" /\ old.url = operator[a].url
    BY <1>1, <1>10, <1>11 DEF MappingIInv, OverrideKept
  <2> QED
    BY <1>1, <1>3, <1>10, <1>11, <2>1
<1>12. ASSUME a \notin overtaken', ~operator'[a].inForce
       PROVE  /\ n.source # "override"
              /\ n.url \in KnownChannels /\ n.url = operator'[a].url =>
                   n.url \in {salesforce[a], sheet[a], Convention[a]}
  <2>1. /\ old.source # "override"
        /\ old.url \in KnownChannels /\ old.url = operator[a].url =>
             old.url \in {salesforce[a], sheet[a], Convention[a]}
    BY <1>1, <1>10, <1>12 DEF MappingIInv, ClearedIsGone
  <2>2. operator[a].url # NoUrl => job.sf[a] = salesforce[a] /\ job.sheet[a] = sheet[a]
    BY <1>1, <1>10, <1>12 DEF MappingIInv, SourcesCurrent
  <2> QED
    BY <1>1, <1>2, <1>3, <1>10, <1>12, <2>1, <2>2
<1>13. CopiesCurrent' /\ SourcesCurrent' /\ OverrideKept' /\ ClearedIsGone'
  <2>1. \A b \in Accounts \ {a} :
          /\ rowOf'[b] = rowOf[b] /\ operator'[b] = operator[b]
          /\ b \in overtaken' <=> b \in overtaken
          /\ b \in calm' => b \in calm
    BY <1>1, <1>6
  <2>2. UNCHANGED <<salesforce, sheet>>
    BY <1>1
  <2>3. /\ a \notin overtaken' /\ operator'[a].inForce =>
             rowOf'[a].source = "override" /\ rowOf'[a].url = operator'[a].url
        /\ a \notin overtaken' /\ ~operator'[a].inForce =>
             /\ rowOf'[a].source # "override"
             /\ rowOf'[a].url \in KnownChannels /\ rowOf'[a].url = operator'[a].url =>
                  rowOf'[a].url \in {salesforce[a], sheet[a], Convention[a]}
    BY <1>6, <1>11, <1>12
  <2> QED
    BY <1>5, <1>8, <1>9, <2>1, <2>2, <2>3, WritesKeep
<1>14. CalmIsSettled'
  <2>1. ASSUME NEW b \in calm' \ overtaken'
        PROVE  Stable(rowOf'[b], salesforce[b], sheet[b])
    <3>1. CASE b = a
      <4>1. job.sf[a] = salesforce[a] /\ job.sheet[a] = sheet[a]
        BY <1>1, <1>10, <2>1, <3>1 DEF MappingIInv, SourcesCurrent
      <4> QED
        BY <1>3, <1>6, <3>1, <4>1
    <3>2. CASE b # a
      <4>1. b \in calm \ overtaken /\ b \in Accounts
        BY <1>1, <1>2, <2>1, <3>2 DEF MappingTypes
      <4> QED
        BY <1>6, <3>2, <4>1 DEF MappingIInv, CalmIsSettled
    <3> QED BY <3>1, <3>2
  <2> QED
    BY <1>1, <2>1 DEF CalmIsSettled, Stable
<1>15. ASSUME rounds > 0, n.url = old.url
       PROVE  /\ Heard(old) => Heard(n)
              /\ \A v \in Workers : work[v].at = "refresh" /\ a \in work[v].todo =>
                   /\ work[v].copy[a].url = n.url
                   /\ ForGood(work[v].copy[a]) => Heard(n)
                   /\ n.url \in KnownChannels /\ ForGood(n) /\ ~n.recent =>
                        ForGood(work[v].copy[a])
  <2>1. \A v \in Workers : work[v].at = "refresh" /\ a \in work[v].todo =>
          /\ work[v].copy[a].url = old.url
          /\ ForGood(work[v].copy[a]) => Heard(old)
          /\ old.url \in KnownChannels /\ ForGood(old) /\ ~old.recent =>
               ForGood(work[v].copy[a])
    BY <1>15 DEF MappingIInv, CopiesFollow
  <2>2. /\ c.url = old.url
        /\ ForGood(c) => Heard(old)
        /\ old.url \in KnownChannels /\ ForGood(old) /\ ~old.recent => ForGood(c)
    BY <1>1, <2>1 DEF c
  <2>3. Heard(old) => Heard(n)
    BY <1>3, <1>15, <2>2 DEF Heard
  <2>4. n.url \in KnownChannels /\ ForGood(n) /\ ~n.recent => ForGood(old) /\ ~old.recent
    BY <1>3, <1>15, <2>2 DEF Heard
  <2> QED
    BY <1>15, <2>1, <2>3, <2>4
<1>16. ASSUME job.clean
       PROVE  /\ c = old /\ job.todo \subseteq present
              /\ \A b \in job.todo : job.copy[b] = rowOf[b]
              /\ \A v \in Workers \ {w} : work[v] = Idle
  BY <1>1, <1>16 DEF MappingIInv, CleanAlone, c
<1>17. ASSUME job.clean, n.url = old.url
       PROVE  Heard(old) => Heard(n)
  BY <1>3, <1>16, <1>17 DEF Heard
<1>18. \A v \in Workers : work'[v].clean => v = w /\ job.todo # {a} /\ steady
  <2>1. ASSUME NEW v \in Workers, work'[v].clean
        PROVE  v = w /\ job.todo # {a} /\ steady
    <3>1. CASE v = w
      BY <1>4, <1>5, <2>1, <3>1
    <3>2. CASE v # w
      <4>1. work[v].clean
        BY <1>5, <2>1, <3>2
      <4>2. work[w] = Idle
        BY <3>2, <4>1 DEF MappingIInv, CleanAlone
      <4> QED
        BY <1>1, <4>2, IdleIs
    <3> QED BY <3>1, <3>2
  <2> QED BY <2>1
<1> HIDE DEF old
<1>19. CopiesFollow'
  <2>1. ASSUME rounds' > 0, NEW v \in Workers, NEW b \in work'[v].todo, work'[v].at = "refresh"
        PROVE  /\ work'[v].copy[b].url = rowOf'[b].url
               /\ ForGood(work'[v].copy[b]) => Heard(rowOf'[b])
               /\ rowOf'[b].url \in KnownChannels /\ ForGood(rowOf'[b]) /\ ~rowOf'[b].recent =>
                    ForGood(work'[v].copy[b])
    <3>0. n.url = old.url
      BY <1>1, <1>3, <2>1
    <3>1. b \in work[v].todo /\ work[v].at = "refresh" /\ work'[v].copy[b] = work[v].copy[b]
          /\ b \in Accounts
      BY <1>5, <2>1 DEF MappingJob
    <3>2. CASE rounds > 0
      <4>1. CASE b = a
        BY <1>6, <1>15, <3>0, <3>1, <3>2, <4>1
      <4>2. CASE b # a
        <5>1. rowOf'[b] = rowOf[b]
          BY <1>6, <3>1, <4>2
        <5>2. /\ work[v].copy[b].url = rowOf[b].url
              /\ ForGood(work[v].copy[b]) => Heard(rowOf[b])
              /\ rowOf[b].url \in KnownChannels /\ ForGood(rowOf[b]) /\ ~rowOf[b].recent =>
                   ForGood(work[v].copy[b])
          BY <3>1, <3>2 DEF MappingIInv, CopiesFollow
        <5> QED
          BY <3>1, <5>1, <5>2
      <4> QED BY <4>1, <4>2
    <3>3. CASE ~(rounds > 0)
      <4>1. job.todo = {a} /\ job.clean
        BY <1>1, <1>7, <2>1, <3>3
      <4>2. v # w
        BY <1>5, <2>1, <4>1
      <4>3. work[v].todo = {}
        BY <1>16, <4>1, <4>2, IdleIs
      <4> QED
        BY <3>1, <4>3
    <3> QED BY <3>2, <3>3
  <2> QED
    BY <2>1 DEF CopiesFollow, ForGood, Heard
<1>20. CleanAlone'
  <2>1. ASSUME NEW v \in Workers, work'[v].clean
        PROVE  /\ work'[v].at = "refresh" /\ work'[v].todo \subseteq present'
               /\ \A b \in work'[v].todo : work'[v].copy[b] = rowOf'[b]
               /\ \A u \in Workers \ {v} : work'[u] = Idle
    <3>1. v = w /\ job.clean
      BY <1>18, <2>1
    <3>2. work'[w].todo # {} /\ work'[w].at \in {"refresh", "sweep"}
      <4>1. work'[w].todo # {}
        BY <1>5, <2>1, <3>1
      <4>2. work'[w] # Idle
        BY <4>1, IdleIs
      <4>3. work'[w].at # "cleared"
        BY <1>1, <1>4, <1>5, <4>1, FinishedIs
      <4>4. work'[w] \in MappingJob /\ work'[w].at # "idle"
        BY <1>5, <4>2
      <4> QED
        BY <4>1, <4>3, <4>4 DEF MappingJob
    <3>3. /\ work'[w].at = "refresh"
          /\ \A b \in work'[w].todo : work'[w].copy[b] = job.copy[b]
      BY <1>1, <1>5, <3>2
    <3>4. \A b \in work'[w].todo : b \in job.todo /\ b # a /\ b \in Accounts
      BY <1>2, <1>5 DEF MappingJob
    <3>5. \A u \in Workers \ {w} : work'[u] = Idle
      BY <1>5, <1>16, <3>1
    <3> QED
      BY <1>1, <1>6, <1>16, <3>1, <3>3, <3>4, <3>5
  <2> QED
    BY <2>1 DEF CleanAlone
<1> DEFINE U == Unheard
           V == {b \in present : ~Heard(rowOf'[b])}
           done == Budget * rounds
           size == Cardinality(present)
<1>21. /\ Unheard' = V /\ V \in SUBSET present /\ U \in SUBSET present
       /\ present \in SUBSET Accounts
  BY <1>1, <1>2 DEF Unheard, Heard, ForGood, MappingTypes
<1>22. /\ Cardinality(U) \in Nat /\ Cardinality(V) \in Nat /\ size \in Nat
       /\ IsFiniteSet(U) /\ IsFiniteSet(V)
       /\ Cardinality(V) <= size /\ Cardinality(U) <= size /\ done \in Nat
  BY <1>7, <1>21, AccountsAreFinite
<1>23. U # {} => done + Cardinality(U) <= size
  BY DEF MappingIInv, RoundsCount
<1>24. job.clean =>
         /\ job.budget > 0 => U \subseteq job.todo
         /\ U # {} => done + (Budget - job.budget) + Cardinality(U) <= size
  BY DEF MappingIInv, CleanCounts
<1>25. ASSUME n.url = old.url, rounds > 0 \/ job.clean
       PROVE  V \subseteq U
  <2>1. Heard(old) => Heard(n)
    BY <1>15, <1>17, <1>25
  <2>2. ASSUME NEW b \in V
        PROVE  b \in U
    <3>1. b \in present /\ ~Heard(rowOf'[b]) /\ b \in Accounts
      BY <1>21, <2>2
    <3>2. CASE b = a
      BY <1>6, <2>1, <3>1, <3>2 DEF Unheard, old
    <3>3. CASE b # a
      BY <1>6, <3>1, <3>3 DEF Unheard
    <3> QED BY <3>2, <3>3
  <2> QED BY <2>2
<1> HIDE DEF U, V, done, size
<1>26. ASSUME steady
       PROVE  /\ V \subseteq U
              /\ j.budget > 0 => V \subseteq job.todo \ {a}
              /\ V # {} => done + (Budget - j.budget) + Cardinality(V) <= size
  <2>1. n.url = old.url /\ job.clean /\ (asks => answer # "none") /\ c = old
        /\ job.budget \in 0..Budget /\ a \in present
    BY <1>1, <1>2, <1>3, <1>16, <1>26 DEF MappingJob
  <2>2. V \subseteq U
    BY <1>25, <2>1
  <2>3. CASE asks
    <3>1. n.url \in KnownChannels /\ ~old.recent /\ ~ForGood(old) /\ job.budget > 0 /\ n.recent
      BY <1>3, <2>1, <2>3
    <3>2. a \in U
      BY <2>1, <3>1 DEF U, Unheard, Heard, old
    <3>3. a \notin V
      BY <1>6, <3>1 DEF V, Heard
    <3>4. V \subseteq U \ {a}
      BY <2>2, <3>3
    <3>5. Cardinality(U \ {a}) = Cardinality(U) - 1 /\ IsFiniteSet(U \ {a})
      BY <1>22, <3>2, FS_RemoveElement
    <3>6. Cardinality(V) <= Cardinality(U) - 1
      BY <3>4, <3>5, FS_Subset
    <3>7. j.budget = job.budget - 1
      BY <1>4, <2>3
    <3>8. V # {} => done + (Budget - j.budget) + Cardinality(V) <= size
      BY <1>7, <1>22, <1>24, <2>1, <3>2, <3>6, <3>7
    <3>9. V \subseteq job.todo \ {a}
      BY <1>24, <2>1, <3>1, <3>4
    <3> QED
      BY <2>2, <3>8, <3>9
  <2>4. CASE ~asks
    <3>1. j.budget = job.budget
      BY <1>4, <2>4
    <3>2. Cardinality(V) <= Cardinality(U)
      BY <1>22, <2>2, FS_Subset
    <3>3. V # {} => done + (Budget - j.budget) + Cardinality(V) <= size
      BY <1>7, <1>22, <1>24, <2>1, <2>2, <3>1, <3>2
    <3>4. job.budget > 0 => a \notin V
      BY <1>3, <1>6, <2>1, <2>4 DEF V, Heard
    <3> QED
      BY <1>24, <2>1, <2>2, <3>1, <3>3, <3>4
  <2> QED BY <2>3, <2>4
<1>27. CleanCounts'
  <2>1. ASSUME NEW v \in Workers, work'[v].clean
        PROVE  /\ work'[v].budget > 0 => V \subseteq work'[v].todo
               /\ V # {} => Budget * rounds' + (Budget - work'[v].budget) + Cardinality(V)
                              <= size
    <3>1. v = w /\ steady /\ work'[v].budget = j.budget /\ work'[v].todo = job.todo \ {a}
          /\ rounds' = rounds
      BY <1>1, <1>5, <1>18, <2>1
    <3> QED
      BY <1>26, <3>1 DEF done
  <2> QED
    BY <1>1, <1>21, <2>1 DEF CleanCounts, size
<1>28. RoundsCount'
  <2>1. V # {} => Budget * rounds' + Cardinality(V) <= size
    <3>1. CASE rounds' = 0
      BY <1>7, <1>22, <3>1
    <3>2. CASE rounds' # 0 /\ rounds' = rounds
      <4>1. n.url = old.url /\ rounds > 0
        BY <1>1, <1>3, <1>7, <3>2
      <4>2. V \subseteq U
        BY <1>25, <4>1
      <4>3. Cardinality(V) <= Cardinality(U)
        BY <1>22, <4>2, FS_Subset
      <4>4. V # {} => done + Cardinality(V) <= size
        BY <1>22, <1>23, <4>2, <4>3
      <4> QED
        BY <3>2, <4>4 DEF done
    <3>3. CASE rounds' # rounds /\ rounds' # 0
      <4>1. rounds' = rounds + 1 /\ job.todo = {a} /\ steady
        BY <1>1, <3>3
      <4>2. Budget * rounds' = done + Budget
        BY <1>7, <4>1 DEF done
      <4>3. j.budget \in 0..Budget
        BY <1>4 DEF MappingJob
      <4>4. V # {} => j.budget = 0
        BY <1>7, <1>26, <4>1, <4>3
      <4> QED
        BY <1>7, <1>22, <1>26, <4>1, <4>2, <4>4
    <3> QED BY <3>1, <3>2, <3>3
  <2> QED
    BY <1>1, <1>21, <2>1 DEF RoundsCount, size
<1> QED
  BY <1>8, <1>13, <1>14, <1>19, <1>20, <1>27, <1>28 DEF MappingIInv

-----------------------------------------------------------------------------
(* The invariant, and what follows from it.                                *)

(* The invariant holds in the beginning.                                   *)
LEMMA MappingStarts == MappingInit => MappingIInv
<1> SUFFICES ASSUME MappingInit
             PROVE  MappingIInv
  OBVIOUS
<1>0. NoUrl \notin KnownChannels /\ Cardinality(Accounts) \in Nat
  BY MappingAssumption, AccountsAreFinite
<1>1. /\ \A a \in Accounts : rowOf[a] = Absent
      /\ \A w \in Workers : work[w] = Idle
      /\ \A a \in Accounts : operator[a].url = NoUrl /\ operator[a].inForce = FALSE
      /\ calm = {} /\ rounds = 0
  BY DEF MappingInit
<1>2. MappingTypes
  BY <1>0, IdleIs DEF MappingInit, MappingTypes, Urls
<1>3. CopiesCurrent /\ SourcesCurrent /\ CopiesFollow /\ CleanAlone /\ CleanCounts /\ CalmIsSettled
  BY <1>1, IdleIs DEF CopiesCurrent, SourcesCurrent, CopiesFollow, CleanAlone, CleanCounts,
                      CalmIsSettled
<1>4. Absent.url = NoUrl /\ Absent.source = "none"
  BY DEF Absent
<1>5. OverrideKept /\ ClearedIsGone
  BY <1>0, <1>1, <1>4 DEF OverrideKept, ClearedIsGone
<1>6. Unheard = {}
  BY <1>0, <1>1, <1>2, <1>4 DEF Unheard, Heard, MappingTypes
<1>7. RoundsCount
  BY <1>6 DEF RoundsCount
<1> QED
  BY <1>2, <1>3, <1>5, <1>7 DEF MappingIInv

(* Every step keeps it.                                                    *)
LEMMA MappingSteps == MappingIInv /\ [MappingNext]_mappingVars => MappingIInv'
<1> SUFFICES ASSUME MappingIInv, [MappingNext]_mappingVars
             PROVE  MappingIInv'
  OBVIOUS
<1>0. MappingTypes /\ present \in SUBSET Accounts
  BY DEF MappingIInv, MappingTypes
<1>1. ASSUME NEW w \in Workers, StartRefresh(w, present) \/ RefreshCleared(w) \/ StartSweep(w)
      PROVE  MappingIInv'
  <2>1. CASE StartRefresh(w, present)
    BY <1>0, <2>1, ReadStep DEF StartRefresh
  <2>2. CASE RefreshCleared(w)
    <3>1. work[w].todo \in SUBSET Accounts
      BY <1>0 DEF MappingTypes, MappingJob
    <3> QED
      BY <2>2, <3>1, ReadStep DEF RefreshCleared
  <2>3. CASE StartSweep(w)
    BY <2>3, StartSweepStep
  <2> QED BY <1>1, <2>1, <2>2, <2>3
<1>2. ASSUME NEW w \in Workers, NEW a \in present, AccountStep(w, a)
      PROVE  MappingIInv'
  <2>0. a \in Accounts
    BY <1>0
  <2>1. CASE StartRefresh(w, {a})
    BY <2>0, <2>1, ReadStep DEF StartRefresh
  <2>2. CASE Clear(w, a)
    BY <2>0, <2>2, ClearStep
  <2>3. ASSUME NEW answer \in {"none", "unknown", "live", "archived", "inaccessible"},
               RefreshOne(w, a, answer)
        PROVE  MappingIInv'
    BY <2>0, <2>3, RefreshOneStep
  <2>4. CASE SweepNothing(w, a)
    BY <2>0, <2>4, SweepNothingStep
  <2>5. CASE SweepArchived(w, a)
    BY <2>0, <2>5, SweepArchivedStep
  <2>6. CASE SweepPromotes(w, a)
    BY <2>0, <2>6, SweepPromotesStep
  <2>7. CASE SweepRescues(w, a)
    BY <2>0, <2>7, SweepRescuesStep
  <2> QED
    BY <1>2, <2>1, <2>2, <2>3, <2>4, <2>5, <2>6, <2>7 DEF AccountStep
<1>3. ASSUME NEW a \in present, NEW c \in KnownChannels, Override(a, c)
      PROVE  MappingIInv'
  BY <1>0, <1>3, OverrideStep
<1>4. ASSUME NEW a \in present, SalesforceChanges(a) \/ ImportSheet(a)
      PROVE  MappingIInv'
  BY <1>0, <1>4, FieldSteps
<1>5. ASSUME NEW c \in KnownChannels, ChannelChanges(c)
      PROVE  MappingIInv'
  BY <1>5, ChannelStep
<1>6. CASE DayPasses
  BY <1>6, DayPassesStep
<1>7. CASE UNCHANGED mappingVars
  BY <1>7 DEF mappingVars, MappingIInv, MappingTypes, CopiesCurrent, SourcesCurrent,
              OverrideKept, ClearedIsGone, CalmIsSettled, Stable, CopiesFollow, ForGood,
              Heard, CleanAlone, RoundsCount, CleanCounts, Unheard
<1> QED
  BY <1>1, <1>2, <1>3, <1>4, <1>5, <1>6, <1>7 DEF MappingNext

(* It always holds.                                                        *)
LEMMA MappingHolds == MappingSpec => []MappingIInv
<1> QED
  BY MappingStarts, MappingSteps, PTL DEF MappingSpec

(* It implies the invariant of the runs: where something is unheard the    *)
(* rounds have not yet spent a budget for every account.                   *)
LEMMA MappingFollows == MappingIInv => MappingInv
<1> SUFFICES ASSUME MappingIInv
             PROVE  MappingInv
  OBVIOUS
<1>1. MappingTypes /\ OverrideKept /\ ClearedIsGone /\ RoundsCount
  BY DEF MappingIInv
<1>2. MappingTypeOK
  BY <1>1 DEF MappingTypes, MappingTypeOK, MappingJob, FittingRow, Fits
<1>3. BudgetRotates
  <2>1. /\ Unheard \in SUBSET present /\ present \in SUBSET Accounts /\ Budget \in Nat
        /\ rounds \in Nat
    <3>1. Cardinality(Accounts) \in Nat
      BY AccountsAreFinite
    <3> QED
      BY <1>1, <3>1, MappingAssumption DEF Unheard, MappingTypes
  <2>2. /\ IsFiniteSet(Unheard) /\ Cardinality(Unheard) \in Nat /\ Cardinality(present) \in Nat
        /\ Budget * rounds \in Nat
    BY <2>1, AccountsAreFinite
  <2> DEFINE done == Budget * rounds
  <2> HIDE DEF done
  <2>3. ASSUME done >= Cardinality(present)
        PROVE  Unheard = {}
    <3>1. Unheard # {} => Cardinality(Unheard) # 0
      BY <2>2, FS_EmptySet
    <3>2. Unheard # {} => done + Cardinality(Unheard) <= Cardinality(present)
      BY <1>1 DEF RoundsCount, done
    <3> QED
      BY <2>2, <2>3, <3>1, <3>2 DEF done
  <2> QED
    BY <2>3 DEF BudgetRotates, Unheard, Heard, ForGood, done
<1> QED
  BY <1>1, <1>2, <1>3 DEF MappingInv

(* Overrides and clears are kept unless a request had read the row before; *)
(* after enough rounds every channel has been heard of; rows are of their  *)
(* kinds.                                                                  *)
THEOREM MappingsAreSound == MappingSpec => []MappingInv
<1> QED
  BY MappingHolds, MappingFollows, PTL

-----------------------------------------------------------------------------
(* How a row may change: by an upsert of a refresh, or with a change that  *)
(* counts, which makes a dead channel usable only as an override.          *)
LEMMA RowChanges ==
  ASSUME MappingIInv, MappingNext, NEW a \in Accounts
  PROVE  \/ rowOf'[a] = rowOf[a]
         \/ /\ calm' = {}
            /\ \/ rowOf'[a].status = rowOf[a].status
               \/ rowOf'[a].source = "override"
               \/ rowOf'[a].status = "unresolved"
               \/ rowOf[a].status = "heuristic_candidate"
         \/ \E w \in Workers, answer \in {"none", "unknown", "live", "archived", "inaccessible"} :
              RefreshOne(w, a, answer)
<1> DEFINE Fine ==
      \/ rowOf'[a] = rowOf[a]
      \/ /\ calm' = {}
         /\ \/ rowOf'[a].status = rowOf[a].status
            \/ rowOf'[a].source = "override"
            \/ rowOf'[a].status = "unresolved"
            \/ rowOf[a].status = "heuristic_candidate"
      \/ \E w \in Workers, answer \in {"none", "unknown", "live", "archived", "inaccessible"} :
           RefreshOne(w, a, answer)
<1>0. MappingTypes /\ present \in SUBSET Accounts
  BY DEF MappingIInv, MappingTypes
<1>1. ASSUME NEW w \in Workers, StartRefresh(w, present) \/ RefreshCleared(w) \/ StartSweep(w)
      PROVE  Fine
  <2>1. UNCHANGED rowOf
    BY <1>1 DEF StartRefresh, RefreshCleared, StartSweep
  <2> QED BY <2>1
<1>2. ASSUME NEW w \in Workers, NEW b \in present, AccountStep(w, b)
      PROVE  Fine
  <2>0. b \in Accounts
    BY <1>0
  <2>1. CASE StartRefresh(w, {b}) \/ SweepNothing(w, b)
    BY <2>1 DEF StartRefresh, SweepNothing
  <2>2. CASE Clear(w, b)
    <3>1. calm' = {} /\ (UNCHANGED rowOf \/ rowOf' = [rowOf EXCEPT ![b] = Cleared(rowOf[b])])
      BY <2>2 DEF Clear, Changed
    <3> QED
      BY <1>0, <2>0, <3>1 DEF MappingTypes, Cleared
  <2>3. ASSUME NEW answer \in {"none", "unknown", "live", "archived", "inaccessible"},
               RefreshOne(w, b, answer)
        PROVE  Fine
    <3>1. CASE b = a
      BY <2>3, <3>1
    <3>2. CASE b # a
      BY <1>0, <2>0, <2>3, <3>2 DEF RefreshOne, Put, MappingTypes
    <3> QED BY <3>1, <3>2
  <2>4. CASE SweepArchived(w, b)
    <3>1. calm' = {} /\ (UNCHANGED rowOf \/ rowOf' = [rowOf EXCEPT ![b].archived = "yes",
                                                                  ![b].recent = TRUE])
      BY <2>4 DEF SweepArchived, SweepTouched, Changed
    <3>2. rowOf[a] \in MappingRow
      BY <1>0 DEF MappingTypes, FittingRow
    <3> QED
      BY <1>0, <2>0, <3>1, <3>2 DEF MappingTypes, MappingRow
  <2>5. CASE SweepPromotes(w, b)
    <3>1. /\ calm' = {}
          /\ \/ UNCHANGED rowOf
             \/ /\ rowOf[b].status = "heuristic_candidate"
                /\ \A e \in Accounts \ {b} : rowOf'[e] = rowOf[e]
      BY <1>0, <2>5 DEF SweepPromotes, SweepTouched, Changed, MappingTypes
    <3> QED
      BY <2>0, <3>1
  <2>6. CASE SweepRescues(w, b)
    <3>1. calm' = {} /\ SetOverride(b, Convention[b], Holders(b) \ {w})
          /\ Convention[b] \in KnownChannels
      BY <2>0, <2>6, MappingAssumption DEF SweepRescues, Exact, SetOverride, Changed
    <3>2. rowOf'[b].source = "override" /\ \A e \in Accounts \ {b} : rowOf'[e] = rowOf[e]
      BY <2>0, <3>1, OverrideIs
    <3> QED
      BY <3>1, <3>2
  <2> QED
    BY <1>2, <2>1, <2>2, <2>3, <2>4, <2>5, <2>6 DEF AccountStep
<1>3. ASSUME NEW b \in present, NEW c \in KnownChannels, Override(b, c)
      PROVE  Fine
  <2>1. calm' = {} /\ SetOverride(b, c, Holders(b)) /\ b \in Accounts
    BY <1>0, <1>3 DEF Override, SetOverride, Changed
  <2>2. rowOf'[b].source = "override" /\ \A e \in Accounts \ {b} : rowOf'[e] = rowOf[e]
    BY <2>1, OverrideIs
  <2> QED
    BY <2>1, <2>2
<1>4. ASSUME NEW b \in present, SalesforceChanges(b) \/ ImportSheet(b)
      PROVE  Fine
  BY <1>4 DEF SalesforceChanges, ImportSheet
<1>5. ASSUME NEW c \in KnownChannels, ChannelChanges(c)
      PROVE  Fine
  BY <1>5 DEF ChannelChanges
<1>6. ASSUME DayPasses
      PROVE  Fine
  <2>1. calm' = {} /\ rowOf'[a] = [rowOf[a] EXCEPT !.recent = FALSE]
    BY <1>6 DEF DayPasses, Disturb, Changed
  <2>2. rowOf[a] \in MappingRow
    BY <1>0 DEF MappingTypes, FittingRow
  <2> QED
    BY <2>1, <2>2 DEF MappingRow
<1> HIDE DEF Fine
<1>7. Fine
  BY <1>1, <1>2, <1>3, <1>4, <1>5, <1>6 DEF MappingNext
<1> QED
  BY <1>7 DEF Fine

(* What a refresh that nobody has overtaken does to a row, of which it     *)
(* then holds a current copy.                                              *)
LEMMA RefreshedChanges ==
  ASSUME MappingIInv, NEW w \in Workers, NEW a \in Accounts,
         NEW answer \in {"none", "unknown", "live", "archived", "inaccessible"},
         RefreshOne(w, a, answer), a \notin overtaken'
  PROVE  /\ rowOf[a].status = "inaccessible_channel"
              /\ rowOf'[a].status \in {"mapped", "manually_overridden"}
            => rowOf'[a].url \in KnownChannels /\ work[w].seen[rowOf'[a].url] # "absent"
         /\ a \in calm =>
              /\ rowOf[a].url # NoUrl => rowOf'[a].url = rowOf[a].url
              /\ rowOf[a].status \in {"mapped", "manually_overridden"} =>
                   rowOf'[a].status \in {rowOf[a].status, "inaccessible_channel"}
<1> DEFINE job == work[w]
           result == Result(job, a)
           n == Over(rowOf[a], Resolved(job, a, result, answer))
<1>1. /\ MappingTypes /\ job \in MappingJob /\ rowOf[a] \in FittingRow
      /\ job.at = "refresh" /\ a \in job.todo /\ rowOf' = [rowOf EXCEPT ![a] = n]
      /\ a \notin overtaken
  BY DEF MappingIInv, MappingTypes, RefreshOne, Put, Over, Result
<1>2. job.copy[a] = rowOf[a]
  BY <1>1 DEF MappingIInv, CopiesCurrent
<1> DEFINE c == job.copy[a]
<1>3. /\ Stable(c, job.sf[a], job.sheet[a]) =>
           /\ c.url # NoUrl => n.url = c.url
           /\ c.status \in {"mapped", "manually_overridden"} =>
                n.status \in {c.status, "inaccessible_channel"}
      /\ c.status = "inaccessible_channel" /\ n.status \in {"mapped", "manually_overridden"}
           => n.url \in KnownChannels /\ job.seen[n.url] # "absent"
  <2> HIDE DEF job, c, n, result
  <2>1. c = job.copy[a] /\ result = Result(job, a)
        /\ n = Over(rowOf[a], Resolved(job, a, result, answer))
    BY DEF c, n, result
  <2> QED
    BY <1>1, <2>1, RefreshedRow
<1> HIDE DEF n, result
<1>4. rowOf'[a] = n
  BY <1>1 DEF MappingTypes
<1>5. a \in calm => Stable(c, job.sf[a], job.sheet[a])
  <2>1. a \in calm => job.sf[a] = salesforce[a] /\ job.sheet[a] = sheet[a]
    BY <1>1 DEF MappingIInv, SourcesCurrent
  <2>2. a \in calm => Stable(rowOf[a], salesforce[a], sheet[a])
    BY <1>1 DEF MappingIInv, CalmIsSettled
  <2> QED
    BY <1>2, <2>1, <2>2
<1> QED
  BY <1>2, <1>3, <1>4, <1>5

(* The two action properties, of one step.                                 *)
LEMMA RowsStay ==
  MappingIInv /\ [MappingNext]_mappingVars =>
    /\ [\A a \in Accounts :
          /\ rowOf[a].status = "inaccessible_channel"
          /\ rowOf'[a].status \in {"mapped", "manually_overridden"}
          /\ rowOf'[a].url = rowOf[a].url
          => \/ a \in overtaken' \/ rowOf'[a].source = "override"
             \/ \E w \in Workers : work[w].seen[rowOf[a].url] # "absent"]_mappingVars
    /\ [\A a \in (calm \cap calm') \ overtaken' :
          /\ rowOf[a].url # NoUrl => rowOf'[a].url = rowOf[a].url
          /\ rowOf[a].status \in {"mapped", "manually_overridden"} =>
               rowOf'[a].status \in {rowOf[a].status, "inaccessible_channel"}]_mappingVars
<1> SUFFICES ASSUME MappingIInv, MappingNext
             PROVE  /\ \A a \in Accounts :
                         /\ rowOf[a].status = "inaccessible_channel"
                         /\ rowOf'[a].status \in {"mapped", "manually_overridden"}
                         /\ rowOf'[a].url = rowOf[a].url
                         => \/ a \in overtaken' \/ rowOf'[a].source = "override"
                            \/ \E w \in Workers : work[w].seen[rowOf[a].url] # "absent"
                    /\ \A a \in (calm \cap calm') \ overtaken' :
                         /\ rowOf[a].url # NoUrl => rowOf'[a].url = rowOf[a].url
                         /\ rowOf[a].status \in {"mapped", "manually_overridden"} =>
                              rowOf'[a].status \in {rowOf[a].status, "inaccessible_channel"}
  OBVIOUS
<1>1. ASSUME NEW a \in Accounts,
             rowOf[a].status = "inaccessible_channel",
             rowOf'[a].status \in {"mapped", "manually_overridden"},
             rowOf'[a].url = rowOf[a].url, a \notin overtaken', rowOf'[a].source # "override"
      PROVE  \E w \in Workers : work[w].seen[rowOf[a].url] # "absent"
  <2>1. PICK w \in Workers, answer \in {"none", "unknown", "live", "archived", "inaccessible"} :
          RefreshOne(w, a, answer)
    BY <1>1, RowChanges
  <2> QED
    BY <1>1, <2>1, RefreshedChanges
<1>2. ASSUME NEW a \in (calm \cap calm') \ overtaken'
      PROVE  /\ rowOf[a].url # NoUrl => rowOf'[a].url = rowOf[a].url
             /\ rowOf[a].status \in {"mapped", "manually_overridden"} =>
                  rowOf'[a].status \in {rowOf[a].status, "inaccessible_channel"}
  <2>1. a \in Accounts
    BY DEF MappingIInv, MappingTypes
  <2>2. \/ rowOf'[a] = rowOf[a]
        \/ \E w \in Workers, answer \in {"none", "unknown", "live", "archived", "inaccessible"} :
             RefreshOne(w, a, answer)
    BY <2>1, RowChanges
  <2>3. ASSUME NEW w \in Workers,
               NEW answer \in {"none", "unknown", "live", "archived", "inaccessible"},
               RefreshOne(w, a, answer)
        PROVE  /\ rowOf[a].url # NoUrl => rowOf'[a].url = rowOf[a].url
               /\ rowOf[a].status \in {"mapped", "manually_overridden"} =>
                    rowOf'[a].status \in {rowOf[a].status, "inaccessible_channel"}
    BY <2>1, <2>3, RefreshedChanges
  <2> QED BY <2>2, <2>3
<1> QED
  BY <1>1, <1>2

(* A channel that Slack called inaccessible does not become usable again   *)
(* by itself, and a refresh with nothing changed moves no row.             *)
THEOREM RowsAreSettled == MappingSpec => RowsStaySettled
<1> QED
  BY MappingHolds, RowsStay, PTL DEF MappingSpec, RowsStaySettled, DeadStaysDead, NoFlipFlop

-----------------------------------------------------------------------------
(* The inductive invariant: what the handlers know between two awaits.     *)

Confirming == {"check", "block", "post", "sent", "audit", "failed"}
Posting == {"post", "sent", "audit", "failed"}

(* A handler that has read its row works on a row that is there; one that  *)
(* confirms has found a preview, one that posts knows where to.            *)
HandlersPointAtRows ==
  \A h \in Requests :
    /\ pc[h] \notin {"idle", "preview"} => of[h] \in 1..Len(rows)
    /\ pc[h] \in {"idle", "preview"} => of[h] = 0
    /\ pc[h] \in Confirming => rows[of[h]].result = "previewed"
    /\ pc[h] \in Posting => ConfirmChannel(of[h]) # None

(* A row's preview is a row before it, and the channel that a preview of a *)
(* customer message shows is a customer channel.                           *)
RowsPointBack ==
  \A i \in 1..Len(rows) :
    /\ rows[i].of <= Len(rows)
    /\ rows[i].result = "previewed" /\ rows[i].kind = "customer_channel"
         => rows[i].channel \in Channels \cup {None}

(* A message was sent for a preview.                                       *)
MessagesPointBack ==
  \A i \in 1..Len(messages) :
    /\ messages[i].of <= Len(rows)
    /\ rows[messages[i].of].result = "previewed"

(* A handler that is about to record a success has had one.                *)
SuccessIsTrue ==
  \A h \in Requests : pc[h] \in {"sent", "audit"} =>
    \E k \in SentFor(of[h]) : messages[k].channel = ConfirmChannel(of[h])

(* Two handlers past their check of one preview have disturbed it.         *)
OneAtATime ==
  \A g, h \in Requests :
    g # h /\ of[g] = of[h] /\ pc[g] \in PastCheck /\ pc[h] \in PastCheck
      => of[h] \in disturbed

(* What the check found still holds of an undisturbed preview until its    *)
(* handler posts and records.                                              *)
FreshUntilRecorded ==
  \A h \in Requests : pc[h] \in PastCheck /\ of[h] \notin disturbed =>
    /\ pc[h] # "audit" => Outcomes(of[h]) = {}
    /\ pc[h] = "audit" => Outcomes(of[h]) # {}
    /\ pc[h] \in {"block", "post", "cancel"} => SentFor(of[h]) = {}

(* A message of an undisturbed preview is on record, or its handler is on  *)
(* the way to record it.                                                   *)
SendsAreAccountedFor ==
  \A p \in (1..Len(rows)) \ disturbed : SentFor(p) # {} =>
    \/ Outcomes(p) # {}
    \/ \E h \in Requests : of[h] = p /\ pc[h] \in {"sent", "audit", "failed"}

Pointers == TypeOK /\ HandlersPointAtRows /\ RowsPointBack /\ MessagesPointBack

-----------------------------------------------------------------------------
(* The pointers are right.                                                 *)

(* Appending to a sequence keeps what was there.                           *)
LEMMA Appended ==
  ASSUME NEW S, NEW s \in Seq(S), NEW e \in S
  PROVE  /\ Append(s, e) \in Seq(S)
         /\ Len(Append(s, e)) = Len(s) + 1
         /\ \A i \in 1..Len(s) : Append(s, e)[i] = s[i]
         /\ Append(s, e)[Len(s) + 1] = e
         /\ Len(s) \in Nat
  OBVIOUS

LEMMA InitPointers == Init => Pointers
  BY SlackAssumption
     DEF Init, Pointers, TypeOK, HandlersPointAtRows, RowsPointBack,
         MessagesPointBack, Kinds, Places, Confirming, Posting

(* A row is a row.                                                         *)
LEMMA RowType ==
  ASSUME TypeOK, NEW p \in 1..Len(rows)
  PROVE  /\ rows[p].kind \in Kinds /\ rows[p].channel \in Targets \cup {None}
         /\ rows[p].result \in Results /\ rows[p].of \in Nat
  <1>1. rows \in Seq(Row)
    BY DEF TypeOK
  <1>2. rows[p] \in Row
    BY <1>1
  <1>3. QED
    BY <1>2 DEF Row

(* And a message was sent for a row.                                       *)
LEMMA MessageType ==
  ASSUME TypeOK, NEW i \in 1..Len(messages)
  PROVE  messages[i].of \in Nat \ {0}
  <1> DEFINE Message == [of : Nat \ {0}, channel : Targets]
  <1>1. messages \in Seq(Message)
    BY DEF TypeOK
  <1>2. messages[i] \in Message
    <2> HIDE DEF Message
    <2>1. QED
      BY <1>1
  <1>3. QED
    BY <1>2

(* What an inserted row leaves of the table.                               *)
LEMMA Inserted ==
  ASSUME TypeOK, NEW k \in Kinds, NEW c \in Targets \cup {None},
         NEW result \in Results, NEW p \in Nat, NEW allowed \in BOOLEAN,
         Insert(k, c, result, p, allowed)
  PROVE  /\ rows' \in Seq(Row)
         /\ Len(rows') = Len(rows) + 1 /\ Len(rows) \in Nat
         /\ \A i \in 1..Len(rows) : rows'[i] = rows[i]
         /\ rows'[Len(rows) + 1] = [kind |-> k, channel |-> c, result |-> result,
                                    of |-> p, allowed |-> allowed]
  <1> DEFINE r == [kind |-> k, channel |-> c, result |-> result,
                   of |-> p, allowed |-> allowed]
  <1>1. r \in Row
    BY DEF Row
  <1>2. rows \in Seq(Row) /\ rows' = Append(rows, r)
    BY DEF TypeOK, Insert
  <1> HIDE DEF r
  <1>3. /\ rows' \in Seq(Row)
        /\ Len(rows') = Len(rows) + 1 /\ Len(rows) \in Nat
        /\ \A i \in 1..Len(rows) : rows'[i] = rows[i]
        /\ rows'[Len(rows) + 1] = r
    BY <1>1, <1>2, Appended
  <1>4. QED
    BY <1>3 DEF r

(* What a delivered message leaves of Slack.                               *)
LEMMA Delivered ==
  ASSUME TypeOK, NEW h \in Requests, Deliver(h), of[h] # 0,
         ConfirmChannel(of[h]) \in Targets
  PROVE  /\ messages' \in Seq([of : Nat \ {0}, channel : Targets])
         /\ Len(messages') = Len(messages) + 1 /\ Len(messages) \in Nat
         /\ \A i \in 1..Len(messages) : messages'[i] = messages[i]
         /\ messages'[Len(messages) + 1]
              = [of |-> of[h], channel |-> ConfirmChannel(of[h])]
  <1> DEFINE m == [of |-> of[h], channel |-> ConfirmChannel(of[h])]
  <1>1. m \in [of : Nat \ {0}, channel : Targets]
    BY DEF TypeOK
  <1>2. /\ messages \in Seq([of : Nat \ {0}, channel : Targets])
        /\ messages' = Append(messages, m)
    BY DEF TypeOK, Deliver
  <1> HIDE DEF m
  <1>3. /\ messages' \in Seq([of : Nat \ {0}, channel : Targets])
        /\ Len(messages') = Len(messages) + 1 /\ Len(messages) \in Nat
        /\ \A i \in 1..Len(messages) : messages'[i] = messages[i]
        /\ messages'[Len(messages) + 1] = m
    BY <1>1, <1>2, Appended
  <1>4. QED
    BY <1>3 DEF m

-----------------------------------------------------------------------------
(* The steps of a handler seen from the rows, the messages and the history. *)

Same == rows' = rows /\ messages' = messages /\ disturbed' = disturbed

Others(h) ==
  /\ \A g \in Requests \ {h} : pc'[g] = pc[g] /\ of'[g] = of[g]
  /\ gate' = gate

Ends(h) == pc'[h] = "idle" /\ of'[h] = 0
Goes(h, places) == pc'[h] \in places /\ of'[h] = of[h]

RowAdded(result, p) ==
  /\ Len(rows') = Len(rows) + 1
  /\ \A i \in 1..Len(rows) : rows'[i] = rows[i]
  /\ rows'[Len(rows) + 1].result = result
  /\ rows'[Len(rows) + 1].of = p

MessageAdded(h) ==
  /\ Len(messages') = Len(messages) + 1
  /\ \A i \in 1..Len(messages) : messages'[i] = messages[i]
  /\ messages'[Len(messages) + 1]
       = [of |-> of[h], channel |-> ConfirmChannel(of[h])]

Starts(h) ==
  /\ pc[h] = "idle" /\ Same
  /\ \/ pc'[h] = "preview" /\ of'[h] = 0
     \/ pc'[h] = "check" /\ of'[h] \in Previews
     \/ pc'[h] = "cancelCheck" /\ of'[h] \in 1..Len(rows)

Returns(h) == pc[h] \in {"check", "audit", "cancelCheck"} /\ Same /\ Ends(h)

Shows(h) ==
  /\ pc[h] = "preview" /\ Ends(h)
  /\ RowAdded("previewed", 0)
  /\ rows'[Len(rows) + 1].kind = "customer_channel"
       => rows'[Len(rows) + 1].channel \in Channels \cup {None}
  /\ messages' = messages /\ disturbed' = disturbed

GoesOn(h) ==
  /\ ~Reused(of[h])
  /\ \/ pc[h] = "check" /\ Goes(h, {"block"})
     \/ pc[h] = "check" /\ AllowedNow(of[h]) /\ Goes(h, {"post"})
     \/ pc[h] = "cancelCheck" /\ Goes(h, {"cancel"})
  /\ rows' = rows /\ messages' = messages /\ Passes(h)

Posts(h) ==
  /\ pc[h] = "post" /\ Goes(h, {"sent", "failed"})
  /\ MessageAdded(h)
  /\ rows' = rows /\ disturbed' = disturbed

Misses(h) == pc[h] = "post" /\ Goes(h, {"failed"}) /\ Same

Records(h) ==
  /\ \/ pc[h] = "block" /\ Ends(h) /\ RowAdded("blocked", of[h])
     \/ pc[h] = "cancel" /\ Ends(h) /\ RowAdded("cancelled", of[h])
     \/ pc[h] = "failed" /\ Ends(h) /\ RowAdded("failed", of[h])
     \/ /\ pc[h] = "sent" /\ Goes(h, {"audit"}) /\ RowAdded("sent", of[h])
        /\ rows'[Len(rows) + 1].channel = ConfirmChannel(of[h])
  /\ messages' = messages /\ disturbed' = disturbed

Loses(h) ==
  /\ \/ pc[h] \in {"block", "cancel", "failed"} /\ Ends(h)
     \/ pc[h] \in {"sent", "audit"} /\ Goes(h, {"failed"})
  /\ disturbed' = disturbed \cup {of[h]}
  /\ rows' = rows /\ messages' = messages

Effect(h) ==
  \/ Starts(h) \/ Returns(h) \/ Shows(h) \/ GoesOn(h) \/ Posts(h)
  \/ Misses(h) \/ Records(h) \/ Loses(h)

(* Where a message goes is a place that Slack knows.                       *)
LEMMA ConfirmChannelType ==
  ASSUME TypeOK, NEW p \in 1..Len(rows)
  PROVE  ConfirmChannel(p) \in Targets \cup {None}
  <1>1. gate.testRecipient \in Targets \cup {None}
    BY SlackAssumption DEF TypeOK, Environments, Targets
  <1>2. QED
    BY <1>1, RowType DEF ConfirmChannel

(* The program counter and the variables of the handlers.                  *)
Locals ==
  /\ pc' \in [Requests -> Places] /\ kind' \in [Requests -> Kinds]
  /\ seen' \in [Requests -> Channels \cup {None}] /\ of' \in [Requests -> Nat]

(* A handler that goes on or leaves stays well typed, and the others where *)
(* they are.                                                               *)
LEMMA MoveType ==
  ASSUME TypeOK, NEW h \in Requests, NEW place \in Places,
         Leave(h) \/ Goto(h, place), gate' = gate
  PROVE  /\ Locals /\ Others(h)
         /\ Leave(h) => Ends(h)
         /\ Goto(h, place) => Goes(h, {place})
  <1>1. CASE Leave(h)
    BY <1>1 DEF Leave, Goto, TypeOK, Locals, Others, Ends, Goes, Places, Kinds
  <1>2. CASE Goto(h, place)
    BY <1>2 DEF Leave, Goto, TypeOK, Locals, Others, Ends, Goes
  <1>3. QED
    BY <1>1, <1>2

(* Every step of a handler has one of these effects.                       *)
LEMMA HandlerEffect ==
  ASSUME Pointers, NEW h \in Requests, RequestStep(h)
  PROVE  Effect(h) /\ Others(h) /\ TypeOK'
  <1>0. TypeOK /\ HandlersPointAtRows /\ Len(rows) \in Nat
    BY DEF Pointers, TypeOK
  <1> USE <1>0 DEF quiet, world, Leave, Goto, Others, Effect, Ends, Goes
  <1>1. CASE PreviewStart(h)
    <2>1. Others(h) /\ TypeOK'
      BY <1>1 DEF PreviewStart, TypeOK, Places
    <2>2. Starts(h)
      BY <1>1 DEF PreviewStart, TypeOK, Starts, Same, HandlersPointAtRows
    <2>3. QED
      BY <2>1, <2>2
  <1>2. CASE PreviewInsert(h)
    <2> DEFINE c == PreviewTarget(kind[h], seen[h])
               a == SendAllowed(kind[h], seen[h])
    <2>1. c \in Targets \cup {None} /\ a \in BOOLEAN /\ kind[h] \in Kinds
      BY SlackAssumption DEF TypeOK, PreviewTarget, SendAllowed, Environments,
         Targets
    <2>2. Insert(kind[h], c, "previewed", 0, a)
      BY <1>2 DEF PreviewInsert
    <2>3. kind[h] = "customer_channel" => c \in Channels \cup {None}
      BY DEF PreviewTarget, TypeOK
    <2> HIDE DEF c, a
    <2>4. /\ rows' \in Seq(Row)
          /\ Len(rows') = Len(rows) + 1 /\ Len(rows) \in Nat
          /\ \A i \in 1..Len(rows) : rows'[i] = rows[i]
          /\ rows'[Len(rows) + 1] = [kind |-> kind[h], channel |-> c,
               result |-> "previewed", of |-> 0, allowed |-> a]
      BY <2>1, <2>2, Inserted, "previewed" \in Results, 0 \in Nat DEF Results
    <2>5. RowAdded("previewed", 0)
      BY <2>4 DEF RowAdded
    <2>6. Shows(h)
      BY <1>2, <2>3, <2>4, <2>5 DEF PreviewInsert, Shows, TypeOK
    <2>7. TypeOK'
      BY <1>2, <2>4 DEF PreviewInsert, TypeOK, Places, Kinds
    <2>8. QED
      BY <1>2, <2>6, <2>7 DEF PreviewInsert, TypeOK
  <1>3. CASE ConfirmStart(h)
    <2>1. TypeOK' /\ Others(h)
      BY <1>3 DEF ConfirmStart, TypeOK, Places
    <2>2. Starts(h)
      BY <1>3 DEF ConfirmStart, TypeOK, Starts, Same, Previews
    <2>3. QED
      BY <2>1, <2>2
  <1>4. CASE CancelStart(h)
    <2>1. TypeOK' /\ Others(h)
      BY <1>4 DEF CancelStart, TypeOK, Places
    <2>2. Starts(h)
      BY <1>4 DEF CancelStart, TypeOK, Starts, Same
    <2>3. QED
      BY <2>1, <2>2
  <1>5. CASE ConfirmCheck(h)
    <2>0. disturbed' \subseteq 1..Len(rows)
      BY <1>5 DEF ConfirmCheck, TypeOK, Passes, HandlersPointAtRows
    <2>1. Locals /\ Others(h)
      <3>1. \E place \in Places : Leave(h) \/ Goto(h, place)
        BY <1>5 DEF ConfirmCheck, Places
      <3>2. gate' = gate
        BY <1>5 DEF ConfirmCheck
      <3>3. QED
        BY <3>1, <3>2, MoveType
    <2>4. TypeOK'
      BY <1>5, <2>0, <2>1 DEF ConfirmCheck, TypeOK, Locals
    <2>2. Returns(h) \/ GoesOn(h)
      BY <1>5 DEF ConfirmCheck, TypeOK, Returns, GoesOn, Same
    <2>3. QED
      BY <2>1, <2>2, <2>4
  <1>6. CASE CancelCheck(h)
    <2>0. disturbed' \subseteq 1..Len(rows)
      BY <1>6 DEF CancelCheck, TypeOK, Passes, HandlersPointAtRows
    <2>1. Locals /\ Others(h)
      <3>1. \E place \in Places : Leave(h) \/ Goto(h, place)
        BY <1>6 DEF CancelCheck, Places
      <3>2. gate' = gate
        BY <1>6 DEF CancelCheck
      <3>3. QED
        BY <3>1, <3>2, MoveType
    <2>4. TypeOK'
      BY <1>6, <2>0, <2>1 DEF CancelCheck, TypeOK, Locals
    <2>2. Returns(h) \/ GoesOn(h)
      BY <1>6 DEF CancelCheck, TypeOK, Returns, GoesOn, Same
    <2>3. QED
      BY <2>1, <2>2, <2>4
  <1>7. CASE PostAccepted(h) \/ PostAnswerLost(h)
    <2>1. of[h] \in 1..Len(rows) /\ ConfirmChannel(of[h]) # None
      BY <1>7 DEF PostAccepted, PostAnswerLost, HandlersPointAtRows, Posting
    <2>2. ConfirmChannel(of[h]) \in Targets
      BY <2>1, ConfirmChannelType
    <2>3. Deliver(h)
      BY <1>7 DEF PostAccepted, PostAnswerLost
    <2>4. /\ messages' \in Seq([of : Nat \ {0}, channel : Targets])
          /\ MessageAdded(h)
      <3>1. of[h] # 0
        BY <2>1
      <3>2. QED
        BY <2>2, <2>3, <3>1, Delivered DEF MessageAdded
    <2>5. TypeOK' /\ Others(h)
      BY <1>7, <2>4 DEF PostAccepted, PostAnswerLost, TypeOK, Places
    <2>6. Posts(h)
      BY <1>7, <2>4 DEF PostAccepted, PostAnswerLost, TypeOK, Posts
    <2>7. QED
      BY <2>5, <2>6
  <1>8. CASE PostRefused(h)
    <2>1. TypeOK' /\ Others(h)
      BY <1>8 DEF PostRefused, TypeOK, Places
    <2>2. Misses(h)
      BY <1>8 DEF PostRefused, TypeOK, Misses, Same
    <2>3. QED
      BY <2>1, <2>2
  <1>9. CASE ConfirmBlock(h) \/ RecordSent(h) \/ AuditSent(h)
             \/ RecordFailed(h) \/ CancelInsert(h)
    <2>0. of[h] \in 1..Len(rows) /\ of[h] \in Nat
      BY <1>9 DEF ConfirmBlock, RecordSent, AuditSent, RecordFailed,
         CancelInsert, HandlersPointAtRows
    <2>10. Locals /\ Others(h)
      <3>1. \E place \in Places : Leave(h) \/ Goto(h, place)
        BY <1>9 DEF ConfirmBlock, RecordSent, AuditSent, RecordFailed,
           CancelInsert, Places
      <3>2. gate' = gate
        BY <1>9 DEF ConfirmBlock, RecordSent, AuditSent, RecordFailed,
           CancelInsert
      <3>3. QED
        BY <3>1, <3>2, MoveType
    <2>1. CASE WriteFails(of[h])
      <3>0. /\ disturbed' = disturbed \cup {of[h]} /\ rows' = rows
            /\ faults' \in 0..MaxFaults /\ faults' # faults
        BY <2>1, SlackAssumption DEF WriteFails, TypeOK
      <3>1. TypeOK'
        BY <1>9, <2>0, <2>10, <3>0 DEF ConfirmBlock, RecordSent, AuditSent,
           RecordFailed, CancelInsert, TypeOK, Locals
      <3>3. Loses(h)
        BY <1>9, <2>0, <3>0 DEF ConfirmBlock, RecordSent, AuditSent,
           RecordFailed, CancelInsert, TypeOK, Loses, WriteSucceeds
      <3>4. QED
        BY <2>10, <3>1, <3>3
    <2>2. CASE AuditSent(h) /\ ~WriteFails(of[h])
      <3>1. TypeOK'
        BY <2>2, <2>10 DEF AuditSent, TypeOK, Locals
      <3>2. Returns(h)
        BY <2>2 DEF AuditSent, TypeOK, Returns, Same
      <3>3. QED
        BY <2>10, <3>1, <3>2
    <2>3. ASSUME NEW c \in Targets \cup {None}, NEW result \in Results,
                 WriteSucceeds(of[h], c, result)
          PROVE  /\ rows' \in Seq(Row) /\ RowAdded(result, of[h])
                 /\ rows'[Len(rows) + 1].channel = c
      <3>1. rows[of[h]].kind \in Kinds
        BY <2>0, RowType
      <3>2. Insert(rows[of[h]].kind, c, result, of[h], FALSE)
        BY <2>3 DEF WriteSucceeds, InsertOutcome
      <3>3. FALSE \in BOOLEAN
        OBVIOUS
      <3>4. /\ rows' \in Seq(Row)
            /\ Len(rows') = Len(rows) + 1 /\ Len(rows) \in Nat
            /\ \A i \in 1..Len(rows) : rows'[i] = rows[i]
            /\ rows'[Len(rows) + 1]
                 = [kind |-> rows[of[h]].kind, channel |-> c,
                    result |-> result, of |-> of[h], allowed |-> FALSE]
        BY <2>0, <3>1, <3>2, <3>3, Inserted
      <3>5. QED
        BY <3>4 DEF RowAdded
    <2>4. rows[of[h]].channel \in Targets \cup {None}
      BY <2>0, RowType
    <2>5. ConfirmChannel(of[h]) \in Targets \cup {None}
      BY <2>0, ConfirmChannelType
    <2>6. CASE ConfirmBlock(h) /\ ~WriteFails(of[h])
      <3> DEFINE c == IF GateOpen(rows[of[h]].kind) THEN None
                      ELSE rows[of[h]].channel
      <3>1. WriteSucceeds(of[h], c, "blocked") /\ c \in Targets \cup {None}
        BY <2>4, <2>6 DEF ConfirmBlock
      <3>2. rows' \in Seq(Row) /\ RowAdded("blocked", of[h])
        BY <2>3, <3>1 DEF Results
      <3>3. TypeOK'
        BY <2>6, <2>10, <3>1, <3>2 DEF ConfirmBlock, WriteSucceeds, TypeOK, Locals,
           RowAdded
      <3>4. Records(h)
        BY <2>6, <3>1, <3>2 DEF ConfirmBlock, WriteSucceeds, TypeOK, Records
      <3>5. QED
        BY <2>10, <3>3, <3>4
    <2>7. CASE CancelInsert(h) /\ ~WriteFails(of[h])
      <3>1. WriteSucceeds(of[h], rows[of[h]].channel, "cancelled")
        BY <2>7 DEF CancelInsert
      <3>2. rows' \in Seq(Row) /\ RowAdded("cancelled", of[h])
        BY <2>3, <2>4, <3>1 DEF Results
      <3>3. TypeOK'
        BY <2>7, <2>10, <3>1, <3>2 DEF CancelInsert, WriteSucceeds, TypeOK, Locals,
           RowAdded
      <3>4. Records(h)
        BY <2>7, <3>1, <3>2 DEF CancelInsert, WriteSucceeds, TypeOK, Records
      <3>5. QED
        BY <2>10, <3>3, <3>4
    <2>8. CASE RecordFailed(h) /\ ~WriteFails(of[h])
      <3>1. WriteSucceeds(of[h], ConfirmChannel(of[h]), "failed")
        BY <2>8 DEF RecordFailed
      <3>2. rows' \in Seq(Row) /\ RowAdded("failed", of[h])
        BY <2>3, <2>5, <3>1 DEF Results
      <3>3. TypeOK'
        BY <2>8, <2>10, <3>1, <3>2 DEF RecordFailed, WriteSucceeds, TypeOK, Locals,
           RowAdded
      <3>4. Records(h)
        BY <2>8, <3>1, <3>2 DEF RecordFailed, WriteSucceeds, TypeOK, Records
      <3>5. QED
        BY <2>10, <3>3, <3>4
    <2>9. CASE RecordSent(h) /\ ~WriteFails(of[h])
      <3>1. WriteSucceeds(of[h], ConfirmChannel(of[h]), "sent")
        BY <2>9 DEF RecordSent
      <3>2. /\ rows' \in Seq(Row) /\ RowAdded("sent", of[h])
            /\ rows'[Len(rows) + 1].channel = ConfirmChannel(of[h])
        BY <2>3, <2>5, <3>1 DEF Results
      <3>3. TypeOK'
        BY <2>9, <2>10, <3>1, <3>2 DEF RecordSent, WriteSucceeds, TypeOK, Locals,
           RowAdded
      <3>4. Records(h)
        BY <2>9, <3>1, <3>2 DEF RecordSent, WriteSucceeds, TypeOK, Records
      <3>5. QED
        BY <2>10, <3>3, <3>4
    <2>11. QED
      BY <1>9, <2>1, <2>2, <2>6, <2>7, <2>8, <2>9
  <1>10. QED
    BY <1>1, <1>2, <1>3, <1>4, <1>5, <1>6, <1>7, <1>8, <1>9 DEF RequestStep

-----------------------------------------------------------------------------
(* What is in the tables stays.                                            *)

Kept ==
  /\ Len(rows) \in Nat /\ Len(rows') \in Nat /\ Len(rows) <= Len(rows')
  /\ \A i \in 1..Len(rows) : rows'[i] = rows[i]
  /\ Len(messages) \in Nat /\ Len(messages') \in Nat
  /\ Len(messages) <= Len(messages')
  /\ \A i \in 1..Len(messages) : messages'[i] = messages[i]
  /\ disturbed \subseteq disturbed'

LEMMA HandlerKeeps ==
  ASSUME TypeOK, TypeOK', NEW h \in Requests, Effect(h)
  PROVE  Kept
  <1>1. /\ Len(rows) \in Nat /\ Len(rows') \in Nat
        /\ Len(messages) \in Nat /\ Len(messages') \in Nat
    BY DEF TypeOK
  <1>2. CASE Starts(h) \/ Returns(h) \/ Misses(h) \/ Loses(h)
    BY <1>1, <1>2 DEF Kept, Starts, Returns, Misses, Loses, Same
  <1>3. CASE Shows(h) \/ Records(h)
    BY <1>1, <1>3 DEF Kept, Shows, Records, RowAdded
  <1>4. CASE GoesOn(h)
    BY <1>1, <1>4 DEF Kept, GoesOn, Passes
  <1>5. CASE Posts(h)
    BY <1>1, <1>5 DEF Kept, Posts, MessageAdded
  <1>6. QED
    BY <1>2, <1>3, <1>4, <1>5 DEF Effect

(* A preview's channel is not looked up again.                             *)
LEMMA ChannelStays ==
  ASSUME Kept, gate' = gate, NEW p \in 1..Len(rows)
  PROVE  /\ p \in 1..Len(rows') /\ rows'[p] = rows[p]
         /\ ConfirmChannel(p)' = ConfirmChannel(p)
  BY DEF Kept, ConfirmChannel

(* The pointers stay right when a handler moves.                           *)
LEMMA HandlerPointers ==
  ASSUME Pointers, TypeOK', NEW h \in Requests, Effect(h), Others(h)
  PROVE  Pointers'
  <1>0. TypeOK /\ HandlersPointAtRows /\ RowsPointBack /\ MessagesPointBack
    BY DEF Pointers
  <1>1. Kept /\ gate' = gate
    BY <1>0, HandlerKeeps DEF Others
  <1>2. HandlersPointAtRows'
    <2> SUFFICES ASSUME NEW g \in Requests
        PROVE  /\ pc'[g] \notin {"idle", "preview"} => of'[g] \in 1..Len(rows')
               /\ pc'[g] \in {"idle", "preview"} => of'[g] = 0
               /\ pc'[g] \in Confirming => rows'[of'[g]].result = "previewed"
               /\ pc'[g] \in Posting => ConfirmChannel(of[g])' # None
      BY DEF HandlersPointAtRows
    <2>1. CASE g # h
      BY <1>0, <1>1, <2>1, ChannelStays
         DEF Others, HandlersPointAtRows, Confirming, Posting
    <2>2. CASE g = h /\ Starts(h)
      BY <1>0, <1>1, <2>2, ChannelStays
         DEF Starts, Same, Previews, Confirming, Posting
    <2>3. CASE g = h /\ Ends(h)
      BY <2>3 DEF Ends, Confirming, Posting
    <2>4. CASE g = h /\ pc[h] \in Confirming \cup {"cancelCheck"} /\ Goes(h, {"block", "cancel", "post", "sent", "failed", "audit"})
               /\ (pc[h] = "cancelCheck" => pc'[h] = "cancel")
               /\ (pc'[h] \in Posting => ConfirmChannel(of[h]) # None)
      <3>1. of[h] \in 1..Len(rows)
        BY <1>0, <2>4 DEF HandlersPointAtRows, Confirming
      <3>2. pc[h] \in Confirming => rows[of[h]].result = "previewed"
        BY <1>0 DEF HandlersPointAtRows
      <3>3. of'[h] \in 1..Len(rows') /\ rows'[of[h]] = rows[of[h]]
            /\ ConfirmChannel(of[h])' = ConfirmChannel(of[h])
        BY <1>1, <2>4, <3>1, ChannelStays DEF Goes
      <3>4. QED
        BY <2>4, <3>2, <3>3 DEF Goes, Confirming, Posting
    <2>5. CASE g = h /\ ~Starts(h) /\ ~Ends(h)
      <3>1. pc[h] \in Posting => ConfirmChannel(of[h]) # None
        BY <1>0 DEF HandlersPointAtRows
      <3>2. QED
        BY <2>4, <2>5, <3>1 DEF Effect, Returns, Shows, GoesOn, Posts, Misses, Records,
           Loses, Confirming, Posting, Goes, AllowedNow
    <2>6. QED
      BY <2>1, <2>2, <2>3, <2>5
  <1>3. RowsPointBack'
    <2>1. CASE rows' = rows
      BY <1>0, <2>1 DEF RowsPointBack
    <2>0. \A i \in 1..Len(rows) : rows[i].of \in Nat
      BY <1>0, RowType
    <2>2. CASE Shows(h)
      BY <1>0, <1>1, <2>0, <2>2 DEF RowsPointBack, Shows, RowAdded, Kept
    <2>3. CASE Records(h)
      <3>1. of[h] \in 1..Len(rows)
        BY <1>0, <2>3 DEF Records, HandlersPointAtRows
      <3>2. QED
        BY <1>0, <1>1, <2>0, <2>3, <3>1 DEF RowsPointBack, Records, RowAdded, Kept
    <2>4. QED
      BY <2>1, <2>2, <2>3 DEF Effect, Starts, Returns, GoesOn, Posts, Misses,
         Loses, Same
  <1>4. MessagesPointBack'
    <2>0. \A i \in 1..Len(messages) : messages[i].of \in Nat \ {0}
      BY <1>0, MessageType
    <2>1. \A i \in 1..Len(messages) :
            /\ messages'[i].of <= Len(rows')
            /\ rows'[messages'[i].of].result = "previewed"
      BY <1>0, <1>1, <2>0 DEF MessagesPointBack, Kept
    <2>2. CASE messages' = messages
      BY <2>1, <2>2 DEF MessagesPointBack
    <2>3. CASE Posts(h)
      <3>1. of[h] \in 1..Len(rows) /\ rows[of[h]].result = "previewed"
        BY <1>0, <2>3 DEF Posts, HandlersPointAtRows, Confirming
      <3>2. /\ Len(messages') = Len(messages) + 1
            /\ messages'[Len(messages) + 1].of = of[h] /\ rows' = rows
        BY <2>3 DEF Posts, MessageAdded
      <3>3. QED
        BY <1>1, <2>1, <3>1, <3>2 DEF MessagesPointBack, Kept
    <2>4. QED
      BY <2>2, <2>3 DEF Effect, Starts, Returns, Shows, GoesOn, Misses, Records,
         Loses, Same
  <1>5. QED
    BY <1>2, <1>3, <1>4 DEF Pointers

(* And when the mapping changes or the application restarts.               *)
LEMMA WorldPointers ==
  ASSUME Pointers, Remap \/ Restart \/ UNCHANGED vars
  PROVE  Pointers' /\ Kept
  <1>1. CASE Remap
    BY <1>1 DEF Remap, Pointers, TypeOK, HandlersPointAtRows, RowsPointBack,
       MessagesPointBack, ConfirmChannel, handler, quiet, Kept
  <1>2. CASE Restart
    <2>1. disturbed' \subseteq 1..Len(rows')
      BY <1>2 DEF Restart, Pointers, TypeOK, HandlersPointAtRows, PastCheck
    <2>2. TypeOK'
      BY <1>2, <2>1, SlackAssumption DEF Restart, Pointers, TypeOK, Places, Kinds
    <2>3. QED
      BY <1>2, <2>2 DEF Restart, Pointers, TypeOK, HandlersPointAtRows,
         RowsPointBack, MessagesPointBack, Kept, Confirming, Posting
  <1>3. CASE UNCHANGED vars
    BY <1>3 DEF vars, Pointers, TypeOK, HandlersPointAtRows, RowsPointBack,
       MessagesPointBack, ConfirmChannel, Kept
  <1>4. QED
    BY <1>1, <1>2, <1>3

LEMMA NextPointers ==
  ASSUME Pointers, [Next]_vars PROVE Pointers' /\ Kept
  <1>1. ASSUME NEW h \in Requests, RequestStep(h) PROVE Pointers' /\ Kept
    BY <1>1, HandlerEffect, HandlerPointers, HandlerKeeps DEF Pointers
  <1>2. QED
    BY <1>1, WorldPointers DEF Next

(* Every variable of the send service keeps its type, and no message goes  *)
(* to a place that is not the test recipient's or a channel.               *)
THEOREM TypeCorrect == Spec => []TypeOK
  <1>1. Pointers => TypeOK
    BY DEF Pointers
  <1>2. QED
    BY <1>1, InitPointers, NextPointers, PTL DEF Spec

-----------------------------------------------------------------------------
(* What the steps do to the messages and the outcomes of a preview.        *)

LEMMA OutcomeAdded ==
  ASSUME Kept, NEW result, NEW q, RowAdded(result, q), NEW p
  PROVE  Outcomes(p)' = IF p = q THEN Outcomes(p) \cup {Len(rows) + 1}
                                 ELSE Outcomes(p)
  BY DEF Kept, RowAdded, Outcomes

LEMMA SendAdded ==
  ASSUME Kept, NEW h, MessageAdded(h), NEW p
  PROVE  SentFor(p)' = IF p = of[h] THEN SentFor(p) \cup {Len(messages) + 1}
                                    ELSE SentFor(p)
  BY DEF Kept, MessageAdded, SentFor

LEMMA TablesRest ==
  ASSUME NEW p
  PROVE  /\ rows' = rows => Outcomes(p)' = Outcomes(p)
         /\ messages' = messages => SentFor(p)' = SentFor(p)
  BY DEF Outcomes, SentFor

(* What a handler does to a preview that is not its own: nothing.          *)
LEMMA OwnPreviewOnly ==
  ASSUME Pointers, Kept, NEW h \in Requests, Effect(h), Others(h),
         NEW p \in Nat \ {0}, p # of[h]
  PROVE  Outcomes(p)' = Outcomes(p) /\ SentFor(p)' = SentFor(p)
  <1>1. CASE Starts(h) \/ Returns(h) \/ GoesOn(h) \/ Misses(h) \/ Loses(h)
    BY <1>1, TablesRest DEF Starts, Returns, GoesOn, Misses, Loses, Same
  <1>2. CASE Shows(h)
    BY <1>2, OutcomeAdded, TablesRest DEF Shows
  <1>3. CASE Records(h)
    BY <1>3, OutcomeAdded, TablesRest DEF Records
  <1>4. CASE Posts(h)
    BY <1>4, SendAdded, TablesRest DEF Posts
  <1>5. QED
    BY <1>1, <1>2, <1>3, <1>4 DEF Effect

(* And to its own: it posts while it posts, and records while it records.  *)
LEMMA OwnPreview ==
  ASSUME Pointers, Kept, NEW h \in Requests, Effect(h), NEW p, p = of[h],
         p # 0
  PROVE  /\ SentFor(p)' # SentFor(p) => Posts(h)
         /\ Outcomes(p)' # Outcomes(p) => Records(h)
  <1>1. CASE Starts(h) \/ Returns(h) \/ GoesOn(h) \/ Misses(h) \/ Loses(h)
    BY <1>1, TablesRest DEF Starts, Returns, GoesOn, Misses, Loses, Same
  <1>2. CASE Shows(h)
    BY <1>2, OutcomeAdded, TablesRest DEF Shows
  <1>3. CASE Records(h)
    BY <1>3, TablesRest DEF Records
  <1>4. CASE Posts(h)
    BY <1>4, TablesRest DEF Posts
  <1>5. QED
    BY <1>1, <1>2, <1>3, <1>4 DEF Effect

-----------------------------------------------------------------------------
(* What a success row says is true.                                        *)

Truth == SuccessIsTrue /\ SentIsDelivered /\ DeliveredAsPreviewed

LEMMA HandlerTruth ==
  ASSUME Pointers, Pointers', Kept, Truth, NEW h \in Requests, Effect(h),
         Others(h)
  PROVE  Truth'
  <1>0. /\ HandlersPointAtRows /\ RowsPointBack /\ MessagesPointBack /\ TypeOK
        /\ gate' = gate
    BY DEF Pointers, Others
  <1>1. SuccessIsTrue'
    <2> SUFFICES ASSUME NEW g \in Requests, pc'[g] \in {"sent", "audit"}
                 PROVE  \E k \in SentFor(of[g])' :
                          messages'[k].channel = ConfirmChannel(of[g])'
      BY DEF SuccessIsTrue
    <2>1. CASE pc[g] \in {"sent", "audit"} /\ of'[g] = of[g]
      <3>1. of[g] \in 1..Len(rows)
        BY <1>0, <2>1 DEF HandlersPointAtRows
      <3>2. ConfirmChannel(of[g])' = ConfirmChannel(of[g])
        BY <1>0, <2>1, <3>1 DEF ConfirmChannel, Kept
      <3>3. \E k \in SentFor(of[g]) : messages[k].channel = ConfirmChannel(of[g])
        BY <2>1 DEF Truth, SuccessIsTrue
      <3>4. \E k \in SentFor(of[g])' : messages'[k].channel = ConfirmChannel(of[g])
        <4> DEFINE p == of[g]
                   c == ConfirmChannel(of[g])
        <4>1. \E k \in 1..Len(messages) : messages[k].of = p /\ messages[k].channel = c
          BY <3>3 DEF SentFor
        <4> HIDE DEF p, c
        <4>2. \E k \in 1..Len(messages') : messages'[k].of = p /\ messages'[k].channel = c
          BY <4>1 DEF Kept
        <4>3. QED
          BY <2>1, <4>2 DEF p, c, SentFor
      <3>5. QED
        BY <3>2, <3>4
    <2>2. CASE g = h /\ Posts(h)
      <3>1. of[h] \in 1..Len(rows) /\ of'[h] = of[h]
        BY <1>0, <2>2 DEF HandlersPointAtRows, Posts, Goes
      <3>2. ConfirmChannel(of[h])' = ConfirmChannel(of[h])
        BY <1>0, <3>1 DEF ConfirmChannel, Kept
      <3>3. /\ Len(messages) + 1 \in 1..Len(messages')
            /\ messages'[Len(messages) + 1].of = of'[h]
            /\ messages'[Len(messages) + 1].channel = ConfirmChannel(of[h])
        BY <2>2, <3>1 DEF Posts, MessageAdded, Kept
      <3>4. QED
        BY <2>2, <3>2, <3>3 DEF SentFor
    <2>3. g # h \/ Posts(h) \/ (pc[h] \in {"sent", "audit"} /\ of'[h] = of[h])
      BY DEF Effect, Starts, Returns, Shows, GoesOn, Misses, Records, Loses,
         Ends, Goes
    <2>4. QED
      BY <2>1, <2>2, <2>3 DEF Others
  <1>2. SentIsDelivered'
    <2> SUFFICES ASSUME NEW i \in 1..Len(rows'), rows'[i].result = "sent"
                 PROVE  \E k \in 1..Len(messages') :
                          /\ messages'[k].of = rows'[i].of
                          /\ messages'[k].channel = rows'[i].channel
      BY DEF SentIsDelivered, SentFor
    <2>1. CASE i \in 1..Len(rows)
      <3>1. \E k \in 1..Len(messages) : /\ messages[k].of = rows[i].of
                                        /\ messages[k].channel = rows[i].channel
        BY <2>1 DEF Truth, SentIsDelivered, SentFor, Kept
      <3>2. QED
        BY <2>1, <3>1 DEF Kept
    <2>2. CASE i \notin 1..Len(rows)
      <3>1. /\ Records(h) /\ pc[h] = "sent" /\ i = Len(rows) + 1
            /\ rows'[i].of = of[h] /\ rows'[i].channel = ConfirmChannel(of[h])
        BY <2>2 DEF Effect, Starts, Returns, Shows, GoesOn, Posts, Misses, Records,
           Loses, Same, RowAdded, Kept
      <3>2. \E k \in SentFor(of[h]) : messages[k].channel = ConfirmChannel(of[h])
        BY <3>1 DEF Truth, SuccessIsTrue
      <3>3. messages' = messages
        BY <3>1 DEF Records
      <3>4. QED
        BY <3>1, <3>2, <3>3 DEF SentFor
    <2>3. QED
      BY <2>1, <2>2
  <1>3. DeliveredAsPreviewed'
    <2> SUFFICES ASSUME NEW i \in 1..Len(messages')
                 PROVE  IF rows'[messages'[i].of].kind = "customer_channel"
                        THEN messages'[i].channel = rows'[messages'[i].of].channel
                        ELSE messages'[i].channel \in Recipients
      BY DEF DeliveredAsPreviewed
    <2>1. CASE i \in 1..Len(messages)
      <3>1. messages[i].of \in 1..Len(rows)
        BY <1>0, <2>1, MessageType DEF MessagesPointBack, Kept
      <3>2. QED
        BY <2>1, <3>1 DEF Truth, DeliveredAsPreviewed, Kept
    <2>2. CASE i \notin 1..Len(messages)
      <3>1. Posts(h) /\ messages'[i] = [of |-> of[h], channel |-> ConfirmChannel(of[h])]
        BY <2>2 DEF Effect, Starts, Returns, Shows, GoesOn, Posts, Misses, Records,
           Loses, Same, MessageAdded, Kept
      <3>2. /\ of[h] \in 1..Len(rows) /\ ConfirmChannel(of[h]) # None
            /\ rows' = rows
        BY <1>0, <3>1 DEF Posts, HandlersPointAtRows, Posting
      <3>3. /\ rows[of[h]].kind \in Kinds
            /\ gate.testRecipient \in Recipients \cup {None}
        BY <1>0, <3>2, RowType, SlackAssumption DEF TypeOK, Environments
      <3>4. QED
        BY <3>1, <3>2, <3>3 DEF ConfirmChannel, Kinds
    <2>3. QED
      BY <2>1, <2>2
  <1>4. QED
    BY <1>1, <1>2, <1>3 DEF Truth

-----------------------------------------------------------------------------
(* A preview that nothing disturbs is acted on once.                       *)

Once == OneAtATime /\ FreshUntilRecorded /\ SendsAreAccountedFor /\ ActedOnOnce

(* No other handler is past its check of a preview that stays undisturbed. *)
LEMMA HandlerAlone ==
  ASSUME Pointers, OneAtATime, NEW h \in Requests, Effect(h), Others(h), Kept
  PROVE  OneAtATime'
  <1> SUFFICES ASSUME NEW g \in Requests, NEW k \in Requests, g # k,
                      of'[g] = of'[k], pc'[g] \in PastCheck, pc'[k] \in PastCheck
               PROVE  of'[k] \in disturbed'
    BY DEF OneAtATime
  <1>1. \A i \in Requests : i = h \/ (pc'[i] = pc[i] /\ of'[i] = of[i])
    BY DEF Others
  <1>2. CASE pc[g] \in PastCheck /\ pc[k] \in PastCheck
    <2>1. of'[g] = of[g] /\ of'[k] = of[k]
      BY <1>1, <1>2 DEF Effect, Starts, Returns, Shows, GoesOn, Posts, Misses,
         Records, Loses, Ends, Goes, PastCheck
    <2>2. QED
      BY <1>2, <2>1 DEF OneAtATime, Kept
  <1>3. CASE pc[g] \notin PastCheck \/ pc[k] \notin PastCheck
    <2>1. GoesOn(h) /\ (h = g \/ h = k) /\ of'[h] = of[h]
      BY <1>1, <1>3 DEF Effect, Starts, Returns, Shows, GoesOn, Posts, Misses,
         Records, Loses, Ends, Goes, PastCheck
    <2>2. PICK other \in Requests \ {h} : of[other] = of[h] /\ pc[other] \in PastCheck
      BY <1>1, <2>1
    <2>3. disturbed' = disturbed \cup {of[h]}
      BY <2>1, <2>2 DEF GoesOn, Passes
    <2>4. QED
      BY <1>1, <2>1, <2>3
  <1>4. QED
    BY <1>2, <1>3

(* What the check found holds until it is acted on.                        *)
LEMMA HandlerFresh ==
  ASSUME Pointers, Pointers', Once, OneAtATime', NEW h \in Requests, Effect(h),
         Others(h), Kept
  PROVE  FreshUntilRecorded'
  <1>0. HandlersPointAtRows /\ HandlersPointAtRows' /\ TypeOK
    BY DEF Pointers
  <1> SUFFICES ASSUME NEW g \in Requests, pc'[g] \in PastCheck,
                      NEW p, p = of'[g], p \notin disturbed'
               PROVE  /\ pc'[g] # "audit" => Outcomes(p)' = {}
                      /\ pc'[g] = "audit" => Outcomes(p)' # {}
                      /\ pc'[g] \in {"block", "post", "cancel"} => SentFor(p)' = {}
    BY DEF FreshUntilRecorded, Outcomes, SentFor
  <1>1. of[g] = p /\ p \in Nat \ {0} /\ p \notin disturbed
    <2>1. of[g] = of'[g]
      BY DEF Others, Effect, Starts, Returns, Shows, GoesOn, Posts, Misses,
         Records, Loses, Ends, Goes, PastCheck
    <2>2. of'[g] \in 1..Len(rows')
      BY <1>0 DEF HandlersPointAtRows, PastCheck
    <2>3. QED
      BY <2>1, <2>2 DEF Kept
  <1>2. CASE g # h /\ of[h] # p
    BY <1>0, <1>1, <1>2, OwnPreviewOnly DEF Others, Once, FreshUntilRecorded
  <1>3. CASE g # h /\ of[h] = p
    <2>1. pc[g] \in PastCheck /\ pc'[g] = pc[g]
      BY <1>3 DEF Others
    <2>2. pc[h] \notin PastCheck
      BY <1>1, <1>3, <2>1 DEF Once, OneAtATime
    <2>3. ~Posts(h) /\ ~Records(h)
      BY <2>2 DEF Posts, Records, PastCheck
    <2>4. Outcomes(p)' = Outcomes(p) /\ SentFor(p)' = SentFor(p)
      BY <1>1, <1>3, <2>3, OwnPreview
    <2>5. QED
      BY <1>1, <2>1, <2>4 DEF Once, FreshUntilRecorded
  <1>4. CASE g = h /\ GoesOn(h)
    <2>1. Outcomes(p) = {} /\ rows' = rows /\ messages' = messages
      BY <1>1, <1>4 DEF GoesOn, Reused, Outcomes
    <2>2. Outcomes(p)' = Outcomes(p) /\ SentFor(p)' = SentFor(p)
      BY <2>1, TablesRest
    <2>3. \A other \in Requests : ~(of[other] = p /\ pc[other] \in PastCheck)
      <3>1. \A other \in Requests \ {h} : ~(of[other] = p /\ pc[other] \in PastCheck)
        BY <1>1, <1>4 DEF GoesOn, Passes
      <3>2. pc[h] \notin PastCheck
        BY <1>4 DEF GoesOn, PastCheck
      <3>3. QED
        BY <3>1, <3>2
    <2>4. p \in 1..Len(rows)
      BY <1>0, <1>1, <1>4 DEF GoesOn, HandlersPointAtRows
    <2>5. SentFor(p) = {}
      BY <1>1, <2>1, <2>3, <2>4 DEF Once, SendsAreAccountedFor, PastCheck
    <2>6. QED
      BY <1>4, <2>1, <2>2, <2>5 DEF GoesOn, Goes
  <1>5. CASE g = h /\ ~GoesOn(h)
    <2>1. pc[h] \in PastCheck
      BY <1>5 DEF Effect, Starts, Returns, Shows, Posts, Misses, Records, Loses,
         Ends, Goes, PastCheck
    <2>2. /\ pc[h] # "audit" => Outcomes(p) = {}
          /\ pc[h] = "audit" => Outcomes(p) # {}
          /\ pc[h] \in {"block", "post", "cancel"} => SentFor(p) = {}
      BY <1>1, <1>5, <2>1 DEF Once, FreshUntilRecorded
    <2>3. CASE Posts(h) \/ Misses(h)
      <3>1. Outcomes(p)' = Outcomes(p)
        BY <2>3, TablesRest DEF Posts, Misses, Same
      <3>2. QED
        BY <1>5, <2>2, <2>3, <3>1 DEF Posts, Misses, Goes
    <2>4. CASE Records(h)
      <3>1. RowAdded("sent", p) /\ pc'[h] = "audit"
        BY <1>1, <1>5, <2>4 DEF Records, Ends, Goes, PastCheck
      <3>2. Outcomes(p)' # {}
        BY <3>1, OutcomeAdded
      <3>3. QED
        BY <1>5, <3>1, <3>2
    <2>5. CASE Loses(h)
      BY <1>1, <1>5, <2>5 DEF Loses
    <2>6. QED
      BY <1>5, <2>1, <2>3, <2>4, <2>5
         DEF Effect, Starts, Returns, Shows, PastCheck, Ends
  <1>6. QED
    BY <1>2, <1>3, <1>4, <1>5

(* No message of an undisturbed preview is forgotten.                      *)
LEMMA HandlerAccounts ==
  ASSUME Pointers, Pointers', Once, NEW h \in Requests, Effect(h), Others(h), Kept
  PROVE  SendsAreAccountedFor'
  <1>0. HandlersPointAtRows /\ TypeOK /\ MessagesPointBack
    BY DEF Pointers
  <1> SUFFICES ASSUME NEW p \in (1..Len(rows')) \ disturbed', SentFor(p)' # {},
                      Outcomes(p)' = {}
               PROVE  \E g \in Requests : of'[g] = p /\ pc'[g] \in {"sent", "audit", "failed"}
    BY DEF SendsAreAccountedFor
  <1>1. p \in Nat \ {0} /\ p \notin disturbed /\ Outcomes(p) = {}
    <2>1. Outcomes(p) \subseteq Outcomes(p)'
      BY DEF Outcomes, Kept
    <2>2. QED
      BY <2>1 DEF Kept
  <1>2. CASE SentFor(p)' # SentFor(p)
    <2>1. Posts(h) /\ of[h] = p
      BY <1>1, <1>2, OwnPreview, OwnPreviewOnly
    <2>2. QED
      BY <2>1 DEF Posts, Goes
  <1>3. CASE SentFor(p)' = SentFor(p)
    <2>1. p \in 1..Len(rows)
      <3>1. PICK k \in 1..Len(messages) : messages[k].of = p
        BY <1>3 DEF SentFor
      <3>2. QED
        BY <1>0, <1>1, <3>1 DEF MessagesPointBack, Kept
    <2>2. PICK g \in Requests : of[g] = p /\ pc[g] \in {"sent", "audit", "failed"}
      BY <1>1, <1>3, <2>1 DEF Once, SendsAreAccountedFor
    <2>3. CASE g # h
      BY <2>2, <2>3 DEF Others
    <2>4. CASE g = h
      <3>1. pc[h] # "audit"
        BY <1>1, <2>2, <2>4 DEF Once, FreshUntilRecorded, PastCheck
      <3>2. ~Loses(h)
        BY <2>2, <2>4 DEF Loses
      <3>3. ~Records(h)
        <4>1. SUFFICES ASSUME Records(h) PROVE FALSE
          OBVIOUS
        <4>2. \E result : RowAdded(result, p)
          BY <2>2, <2>4, <4>1 DEF Records
        <4>3. QED
          BY <4>2, OutcomeAdded
      <3>4. QED
        BY <2>2, <2>4, <3>1, <3>2, <3>3 DEF Effect, Starts, Returns, Shows,
           GoesOn, Posts, Misses
    <2>5. QED
      BY <2>3, <2>4
  <1>4. QED
    BY <1>2, <1>3

(* One message, one outcome, and nothing sent that is called off.          *)
LEMMA HandlerActsOnce ==
  ASSUME Pointers, Pointers', Once, NEW h \in Requests, Effect(h), Others(h), Kept
  PROVE  ActedOnOnce'
  <1>0. HandlersPointAtRows /\ TypeOK /\ RowsPointBack /\ MessagesPointBack
    BY DEF Pointers
  <1> SUFFICES ASSUME NEW p \in (1..Len(rows')) \ disturbed'
               PROVE  /\ \A i, k \in SentFor(p)' : i = k
                      /\ \A i, k \in Outcomes(p)' : i = k
                      /\ \A i \in Outcomes(p)' :
                           rows'[i].result \in {"blocked", "cancelled"}
                             => SentFor(p)' = {}
    BY DEF ActedOnOnce, SentFor
  <1>1. p \in Nat \ {0} /\ p \notin disturbed
    BY DEF Kept
  <1>2. /\ \A i, k \in SentFor(p) : i = k
        /\ \A i, k \in Outcomes(p) : i = k
        /\ \A i \in Outcomes(p) :
             rows[i].result \in {"blocked", "cancelled"} => SentFor(p) = {}
    <2>1. CASE p \in 1..Len(rows)
      BY <1>1, <2>1 DEF Once, ActedOnOnce
    <2>2. CASE p \notin 1..Len(rows)
      <3>1. SentFor(p) = {}
        BY <1>0, <1>1, <2>2 DEF SentFor, MessagesPointBack, Kept
      <3>2. Outcomes(p) = {}
        BY <1>0, <1>1, <2>2 DEF Outcomes, RowsPointBack, Kept
      <3>3. QED
        BY <3>1, <3>2
    <2>3. QED
      BY <2>1, <2>2
  <1>3. \A i \in Outcomes(p) : rows'[i] = rows[i]
    BY DEF Outcomes, Kept
  <1>4. CASE SentFor(p)' = SentFor(p) /\ Outcomes(p)' = Outcomes(p)
    BY <1>2, <1>3, <1>4
  <1>5. CASE SentFor(p)' # SentFor(p)
    <2>1. Posts(h) /\ of[h] = p
      BY <1>1, <1>5, OwnPreview, OwnPreviewOnly
    <2>2. Outcomes(p) = {} /\ SentFor(p) = {}
      BY <1>1, <2>1 DEF Once, FreshUntilRecorded, Posts, PastCheck
    <2>3. SentFor(p)' = {Len(messages) + 1}
      BY <2>1, <2>2, SendAdded DEF Posts
    <2>4. Outcomes(p)' = {}
      BY <2>1, <2>2, TablesRest DEF Posts
    <2>5. QED
      BY <2>3, <2>4
  <1>6. CASE Outcomes(p)' # Outcomes(p)
    <2>1. Records(h) /\ of[h] = p
      BY <1>1, <1>6, OwnPreview, OwnPreviewOnly
    <2>2. Outcomes(p) = {} /\ (pc[h] \in {"block", "cancel"} => SentFor(p) = {})
      BY <1>1, <2>1 DEF Once, FreshUntilRecorded, Records, PastCheck
    <2>3. SentFor(p)' = SentFor(p)
      BY <2>1, TablesRest DEF Records
    <2>4. PICK result : /\ RowAdded(result, p)
                        /\ result \in {"blocked", "cancelled"}
                             => pc[h] \in {"block", "cancel"}
      BY <2>1 DEF Records
    <2>5. Outcomes(p)' = {Len(rows) + 1}
      BY <2>2, <2>4, OutcomeAdded
    <2>6. rows'[Len(rows) + 1].result = result
      BY <2>4 DEF RowAdded
    <2>7. QED
      BY <1>2, <2>2, <2>3, <2>4, <2>5, <2>6
  <1>7. QED
    BY <1>4, <1>5, <1>6

-----------------------------------------------------------------------------
(* The invariant.                                                          *)

IInv == Pointers /\ Truth /\ Once

LEMMA InitIInv == Init => IInv
  <1>1. Init => Truth /\ Once
    BY DEF Init, Truth, Once, SuccessIsTrue, SentIsDelivered,
       DeliveredAsPreviewed, OneAtATime, FreshUntilRecorded,
       SendsAreAccountedFor, ActedOnOnce, SentFor, Outcomes, PastCheck
  <1>2. QED
    BY <1>1, InitPointers DEF IInv

LEMMA HandlerIInv ==
  ASSUME IInv, NEW h \in Requests, RequestStep(h) PROVE IInv'
  <1>1. Effect(h) /\ Others(h) /\ Pointers' /\ Kept
    BY HandlerEffect, HandlerPointers, HandlerKeeps DEF IInv, Pointers
  <1>2. Truth'
    BY <1>1, HandlerTruth DEF IInv
  <1>3. OneAtATime'
    BY <1>1, HandlerAlone DEF IInv, Once
  <1>4. FreshUntilRecorded' /\ SendsAreAccountedFor' /\ ActedOnOnce'
    BY <1>1, <1>3, HandlerFresh, HandlerAccounts, HandlerActsOnce DEF IInv
  <1>5. QED
    BY <1>1, <1>2, <1>3, <1>4 DEF IInv, Once

(* A changed mapping means nothing to a handler past its check; a restart  *)
(* leaves no handler, and disturbs what they were at.                      *)
LEMMA WorldIInv ==
  ASSUME IInv, Remap \/ Restart \/ UNCHANGED vars PROVE IInv'
  <1>0. Pointers' /\ Kept
    BY WorldPointers DEF IInv
  <1>1. CASE Remap \/ UNCHANGED vars
    <2>1. /\ rows' = rows /\ messages' = messages /\ gate' = gate /\ pc' = pc
          /\ of' = of /\ disturbed' = disturbed
      BY <1>1 DEF Remap, vars, handler, quiet
    <2>2. Truth'
      BY <2>1 DEF IInv, Truth, SuccessIsTrue, SentIsDelivered,
         DeliveredAsPreviewed, SentFor, ConfirmChannel
    <2>3. Once'
      BY <2>1 DEF IInv, Once, OneAtATime, FreshUntilRecorded,
         SendsAreAccountedFor, ActedOnOnce, SentFor, Outcomes
    <2>4. QED
      BY <1>0, <2>2, <2>3 DEF IInv
  <1>2. CASE Restart
    <2>1. /\ rows' = rows /\ messages' = messages
          /\ \A h \in Requests : pc'[h] = "idle"
          /\ \A h \in Requests : pc[h] \in PastCheck => of[h] \in disturbed'
          /\ disturbed \subseteq disturbed'
      BY <1>2 DEF Restart
    <2>2. Truth'
      BY <2>1 DEF IInv, Truth, SuccessIsTrue, SentIsDelivered,
         DeliveredAsPreviewed, SentFor
    <2>3. OneAtATime' /\ FreshUntilRecorded'
      BY <2>1 DEF OneAtATime, FreshUntilRecorded, PastCheck
    <2>4. \A p : SentFor(p)' = SentFor(p) /\ Outcomes(p)' = Outcomes(p)
      BY <2>1 DEF SentFor, Outcomes
    <2>5. SendsAreAccountedFor'
      BY <2>1, <2>4 DEF IInv, Once, SendsAreAccountedFor, PastCheck
    <2>6. ActedOnOnce'
      BY <2>1, <2>4 DEF IInv, Once, ActedOnOnce
    <2>7. QED
      BY <1>0, <2>2, <2>3, <2>5, <2>6 DEF IInv, Once
  <1>3. QED
    BY <1>1, <1>2

LEMMA NextIInv == ASSUME IInv, [Next]_vars PROVE IInv'
  BY HandlerIInv, WorldIInv DEF Next

(* A handler comes to its call of Slack through the gate, and the gate     *)
(* changes only with a restart, which leaves no handler.                   *)
LEMMA GateStep ==
  ASSUME Pointers, NoneBehindClosedGate, [Next]_vars
  PROVE  NoneBehindClosedGate'
  <1>1. ASSUME NEW h \in Requests, RequestStep(h)
        PROVE  NoneBehindClosedGate'
    <2>1. Effect(h) /\ Others(h) /\ Kept /\ TypeOK
      BY <1>1, HandlerEffect, HandlerKeeps DEF Pointers
    <2>2. SUFFICES ASSUME NEW g \in Requests, pc'[g] = "post"
                   PROVE  GateOpen(rows[of[g]].kind)'
      BY DEF NoneBehindClosedGate
    <2>3. /\ pc[g] \in {"check", "post"} /\ of'[g] = of[g]
          /\ GateOpen(rows[of[g]].kind)
      <3>1. CASE g # h
        BY <2>1, <2>2, <3>1 DEF Others, NoneBehindClosedGate
      <3>2. CASE g = h
        <4>1. pc[h] = "check" /\ AllowedNow(of[h]) /\ of'[h] = of[h]
          BY <2>1, <2>2, <3>2 DEF Effect, Starts, Returns, Shows, GoesOn, Posts, Misses,
             Records, Loses, Ends, Goes
        <4>2. QED
          BY <3>2, <4>1 DEF AllowedNow
      <3>3. QED
        BY <3>1, <3>2
    <2>4. of[g] \in 1..Len(rows)
      BY <2>3 DEF Pointers, HandlersPointAtRows
    <2>5. rows'[of[g]] = rows[of[g]] /\ gate' = gate
      BY <2>1, <2>4 DEF Kept, Others
    <2>6. QED
      BY <2>3, <2>5 DEF GateOpen
  <1>2. CASE Remap \/ UNCHANGED vars
    BY <1>2 DEF Remap, vars, handler, NoneBehindClosedGate, GateOpen
  <1>3. CASE Restart
    BY <1>3 DEF Restart, NoneBehindClosedGate
  <1>4. QED
    BY <1>1, <1>2, <1>3 DEF Next

(* A row that says "sent" tells the truth, a message reaches the channel   *)
(* that its preview showed, no handler calls Slack behind a closed gate,   *)
(* and a preview that no failure and no second handler disturbs is acted   *)
(* on once: for every number of handlers, rows, restarts and failed writes. *)
THEOREM SendIsSound == Spec => []SendInv
  <1>1. IInv /\ NoneBehindClosedGate => SendInv
    BY DEF IInv, Pointers, Truth, Once, SendInv
  <1>2. Init => NoneBehindClosedGate
    BY DEF Init, NoneBehindClosedGate
  <1>3. IInv /\ NoneBehindClosedGate /\ [Next]_vars => (IInv /\ NoneBehindClosedGate)'
    BY NextIInv, GateStep DEF IInv
  <1>4. QED
    BY <1>1, <1>2, <1>3, InitIInv, PTL DEF Spec

-----------------------------------------------------------------------------
(* A preview that is settled stays settled.                                *)

LEMMA SettledStep ==
  ASSUME Pointers, [Next]_vars, NEW p \in 1..Len(rows), Settled(p)
  PROVE  Settled(p)' /\ SentFor(p)' = SentFor(p) /\ Outcomes(p)' = Outcomes(p)
  <1>0. p \in Nat \ {0} /\ TypeOK
    BY DEF Pointers
  <1>1. ASSUME NEW h \in Requests, RequestStep(h)
        PROVE  /\ Settled(p)' /\ SentFor(p)' = SentFor(p)
               /\ Outcomes(p)' = Outcomes(p)
    <2>1. Effect(h) /\ Others(h) /\ Kept
      BY <1>1, HandlerEffect, HandlerKeeps DEF Pointers
    <2>2. of[h] = p => pc[h] \notin PastCheck
      BY DEF Settled
    <2>3. SentFor(p)' = SentFor(p) /\ Outcomes(p)' = Outcomes(p)
      <3>1. of[h] = p => ~Posts(h) /\ ~Records(h)
        BY <2>2 DEF Posts, Records, PastCheck
      <3>2. QED
        BY <1>0, <2>1, <3>1, OwnPreview, OwnPreviewOnly
    <2>4. \A g \in Requests : of'[g] = p => pc'[g] \notin PastCheck
      <3>1. of[h] = p => ~GoesOn(h)
        BY DEF Settled, Outcomes, GoesOn, Reused
      <3>2. of'[h] = p => pc'[h] \notin PastCheck
        BY <2>1, <2>2, <3>1 DEF Effect, Starts, Returns, Shows, GoesOn, Posts,
           Misses, Records, Loses, Ends, Goes, PastCheck
      <3>3. QED
        BY <2>1, <3>2 DEF Others, Settled
    <2>5. QED
      BY <2>3, <2>4 DEF Settled
  <1>2. CASE Remap \/ Restart \/ UNCHANGED vars
    <2>1. /\ rows' = rows /\ messages' = messages
          /\ \A g \in Requests : (pc'[g] = pc[g] /\ of'[g] = of[g]) \/ pc'[g] = "idle"
      BY <1>2 DEF Remap, Restart, vars, handler
    <2>2. SentFor(p)' = SentFor(p) /\ Outcomes(p)' = Outcomes(p)
      BY <2>1, TablesRest
    <2>3. QED
      BY <2>1, <2>2 DEF Settled, PastCheck
  <1>3. QED
    BY <1>1, <1>2 DEF Next

(* Whatever is confirmed or cancelled later, and through every restart: a  *)
(* preview that has its outcome gets no other message and no other row.    *)
THEOREM SettledIsFinal == Spec => SettledStaysSettled
  <1>1. ASSUME Pointers, [Next]_vars
        PROVE  \A p \in 1..Len(rows) : Settled(p) =>
                 Settled(p)' /\ SentFor(p)' = SentFor(p) /\ Outcomes(p)' = Outcomes(p)
    BY <1>1, SettledStep
  <1>2. Spec => []Pointers
    BY InitPointers, NextPointers, PTL DEF Spec
  <1>3. QED
    BY <1>1, <1>2, PTL DEF Spec, SettledStaysSettled
=============================================================================
