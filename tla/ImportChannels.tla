---------------------------- MODULE ImportChannels ----------------------------
(***************************************************************************)
(* The page that maps accounts to the channels of a list: a HAR file the   *)
(* operator uploads (ImportChannelsClient.tsx, har.ts) or the file that    *)
(* the sweep of Slack's switcher has written (PromoteFromSweepButton.tsx,  *)
(* sweep-slack-channels.mts, paste.ts).  A request maps the accounts whose *)
(* name the list has (slack-mapping.ts) and suggests a channel for others, *)
(* which the operator accepts, as an override, or skips.  A request serves *)
(* all its rows in one step: what may come between them is SlackMapping's. *)
(***************************************************************************)
EXTENDS Integers, FiniteSets, SequencesExt

CONSTANTS
  Customers,
  NameOf,          \* the derived channel name of each, NoName if it has none
  DeadId,          \* the channel that each had when it was found dead
  Hidden,          \* channels that Slack does not show to the read token
  Extensions,        \* pairs of names, the first a prefix of the second
  Apart,           \* the edit distance of the names of each pair
  CustNames,       \* the names that start with "cust"
  HarFiles,        \* what may be uploaded: kind and entries, by name
  SweepRuns,       \* what the switcher may show, query by query
  EnoughChannels,  \* 20 in the code
  MaxHarDepth,     \* MAX_DEPTH, 8 in the code
  MaxImports       \* bound: what operator and others do

NoName == "no name"
NoFile == "no file"
NoChannel == [id |-> "no channel", name |-> NoName, archived |-> FALSE]
Panels == {"har", "sweep"}

VARIABLES
  mappings,            \* customer_slack_mapping: status and channel of each
  sweepFile,       \* data/slack-channels.json, or not there
  panels,          \* what the page's two panels hold
  asks,            \* requests to map a list, under way or answered
  accepts,         \* requests to accept a suggestion, the same
  crashed,         \* the page shows the route's error instead
  set,             \* history: the overrides that were accepted
  imports
importVars == <<mappings, sweepFile, panels, asks, accepts, crashed, set, imports>>

-----------------------------------------------------------------------------
(* The lists.                                                              *)

First(indices) == CHOOSE i \in indices : \A j \in indices : i <= j
SameId(records, i) == {j \in DOMAIN records : records[j].id = records[i].id}
Channel(record) == [id |-> record.id, name |-> record.name, archived |-> record.archived]

(* Of the records with one id the first that is live, or else the first.   *)
(* Mutant: the first.                                                      *)
KeptLiveFirst(records) == {Channel(records[First(SameId(records, i))]) : i \in DOMAIN records}
KeptLive(records) ==
  LET Live(s) == {j \in s : ~records[j].archived}
      Kept(s) == IF Live(s) = {} THEN First(s) ELSE First(Live(s))
  IN  {Channel(records[Kept(SameId(records, i))]) : i \in DOMAIN records}

(* The records in the answer of one HAR entry.                             *)
ChannelsIn(entry) ==
  IF entry.status # 200 THEN <<>>
  ELSE SelectSeq(entry.records, LAMBDA c : c.name # NoName /\ c.depth <= MaxHarDepth)
FromHar(file) == KeptLive(FlattenSeq([i \in DOMAIN file.entries |-> ChannelsIn(file.entries[i])]))

(* parseChannelPaste, which reads the sweep's file, keeps the first.       *)
FromPaste(channels) == {c \in channels : c.name # NoName}

(* What one query of the switcher shows, rows without a name left out.     *)
Scraped(query) == SelectSeq(query.records, LAMBDA c : c.name # NoName)

(* The sweep stops when the switcher does not open, or when three queries  *)
(* have been answered and nothing has been found.                          *)
Stops(queries, i) ==
  \/ queries[i].fails = "not open"
  \/ /\ queries[i].fails = "no"
     /\ \A j \in 1..i : Scraped(queries[j]) = <<>>
     /\ Cardinality({j \in 1..i : queries[j].fails = "no"}) >= 3
Harvest(queries) ==
  LET stops == {i \in DOMAIN queries : Stops(queries, i)}
      n == IF stops = {} THEN Len(queries) ELSE First(stops)
  IN  KeptLive(FlattenSeq([i \in 1..n |-> Scraped(queries[i])]))

-----------------------------------------------------------------------------
(* promoteFromChannelList: what a list does to the rows.                   *)

NameScore(x, y) ==
  CASE x = y -> 100
    [] x # y /\ {<<x, y>>, <<y, x>>} \cap Extensions # {} -> 85
    [] x # y /\ {<<x, y>>, <<y, x>>} \cap Extensions = {} ->
         LET apart == IF {x, y} \in DOMAIN Apart THEN Apart[{x, y}] ELSE 9
         IN  CASE apart <= 1 -> 80 [] apart = 2 -> 70 [] OTHER -> 0

Considered(now) == {a \in Customers : now[a].status \in {"candidate", "dead"}}
Namesakes(channels, a) == {c \in channels : c.name = NameOf[a]}
(* Mutant: an archived channel may hide the live one of the same name.     *)
ExactMatchAny(channels, a) == CHOOSE c \in Namesakes(channels, a) : \A d \in Namesakes(channels, a) : d.archived => c.archived
ExactMatch(channels, a) == CHOOSE c \in Namesakes(channels, a) : c.archived => \A d \in Namesakes(channels, a) : d.archived

(* The accounts whose own name is in the list, but for the dead ones that  *)
(* have that very channel.                                                 *)
(* Mutant: also those.                                                     *)
MatchedOwn(channels, now) == {a \in Considered(now) : Namesakes(channels, a) # {}}
Matched(channels, now) ==
  {a \in Considered(now) : /\ Namesakes(channels, a) # {}
                           /\ now[a].status = "dead" => ExactMatch(channels, a).id # now[a].channel.id}
(* Mutant: archived channels too.                                          *)
PromotedAll(channels, now) == Matched(channels, now)
Promoted(channels, now) == {a \in Matched(channels, now) : ~ExactMatch(channels, a).archived}

Alike(channels, a) == {c \in channels : NameScore(NameOf[a], c.name) >= 65}
(* Mutant: the worst of those that are alike.                              *)
ClosestLast(channels, a) ==
  CHOOSE c \in Alike(channels, a) : \A d \in Alike(channels, a) : NameScore(NameOf[a], d.name) >= NameScore(NameOf[a], c.name)
Closest(channels, a) ==
  CHOOSE c \in Alike(channels, a) : \A d \in Alike(channels, a) : NameScore(NameOf[a], d.name) <= NameScore(NameOf[a], c.name)
(* Mutant: accounts that have been mapped get suggestions as well.         *)
SuggestionsForAll(channels, now) ==
  {[account |-> a, channel |-> Closest(channels, a)] : a \in {b \in Considered(now) : NameOf[b] # NoName /\ Alike(channels, b) # {}}}
Suggestions(channels, now) ==
  {[account |-> a, channel |-> Closest(channels, a)] :
     a \in {b \in Considered(now) : NameOf[b] # NoName /\ Namesakes(channels, b) = {} /\ Alike(channels, b) # {}}}

(* setManualOverride sets the channel whatever Slack says of it.           *)
OverriddenBy(channel) == [status |-> IF channel.id \in Hidden THEN "dead" ELSE "override", channel |-> channel]
After(channels, now) ==
  [a \in Customers |-> IF a \notin Promoted(channels, now) THEN now[a]
                       ELSE IF now[a].status = "dead" THEN OverriddenBy(ExactMatch(channels, a))
                       ELSE [status |-> "mapped", channel |-> ExactMatch(channels, a)]]

Answer(of, channels, now) ==
  [of |-> of, error |-> "none", channels |-> channels, before |-> now,
   considered |-> Cardinality(Considered(now)), promoted |-> Promoted(channels, now),
   archived |-> Cardinality(Matched(channels, now) \ Promoted(channels, now)),
   suggestions |-> Suggestions(channels, now),
   tried |-> Cardinality({a \in Customers : now[a].status = "candidate" /\ NameOf[a] # NoName})]
Failure(of, error, now) ==      \* the promoted are shown as a number
  [Answer(of, {}, now) EXCEPT !.error = error, !.considered = 0, !.tried = 0]

(* The file that a request reads, and what it answers.                     *)
ListOf(ask) == IF ask.of = "sweep file" THEN FromPaste(sweepFile.channels) ELSE FromHar(HarFiles[ask.of])
RefusedAsk(ask) == IF ask.of = "sweep file" THEN ~sweepFile.there ELSE HarFiles[ask.of].kind = "too large"
Unreadable(ask) == ListOf(ask) = {}
AnswerTo(ask) ==
  CASE RefusedAsk(ask) -> Failure(ask.of, "refused", mappings)
    [] ~RefusedAsk(ask) /\ Unreadable(ask) -> Failure(ask.of, "parse", mappings)
    [] OTHER -> Answer(ask.of, ListOf(ask), mappings)

-----------------------------------------------------------------------------
(* The panels.                                                             *)

NoResult == {}      \* a panel's result: none, or a set of one
EmptyPanel == [file |-> NoFile, busy |-> FALSE, result |-> NoResult, accepted |-> {}, skipped |-> {},
               swapped |-> FALSE]      \* history: was the file changed while busy?

ImportTypeOK ==
  /\ \A a \in Customers : mappings[a].status \in {"candidate", "dead", "mapped", "override", "elsewhere"}
  /\ \A p \in Panels : /\ panels[p].accepted \subseteq Customers /\ panels[p].skipped \subseteq Customers
                       /\ Cardinality(panels[p].result) <= 1
                       /\ panels[p].file \in DOMAIN HarFiles \cup {NoFile}
  /\ \A p \in Panels : panels[p].busy => Cardinality({k \in asks : k.panel = p}) = 1

FoundDead(a) == [status |-> "dead", channel |-> [NoChannel EXCEPT !.id = DeadId[a]]]
ImportInit ==
  /\ \E dead \in SUBSET Customers :
       mappings = [a \in Customers |-> IF a \in dead THEN FoundDead(a) ELSE [status |-> "candidate", channel |-> NoChannel]]
  /\ sweepFile = [there |-> FALSE, channels |-> {}]
  /\ panels = [p \in Panels |-> EmptyPanel]
  /\ asks = {} /\ accepts = {} /\ crashed = FALSE /\ set = {} /\ imports = 0

Import == imports < MaxImports /\ imports' = imports + 1

(* Files are chosen, also while a request is under way, which clears the   *)
(* result; the dialog that is cancelled leaves it.                         *)
(* Mutant: the result of the last file stays.                              *)
WithFileAlone(panel, f) == [panel EXCEPT !.file = f, !.swapped = panel.busy]
WithFile(panel, f) == [panel EXCEPT !.file = f, !.swapped = panel.busy,
                                    !.result = IF f = NoFile THEN @ ELSE NoResult]
ChooseFile(f) ==
  /\ Import /\ ~crashed /\ panels.har.file # f
  /\ panels' = [panels EXCEPT !.har = WithFile(@, f)]
  /\ UNCHANGED <<mappings, sweepFile, asks, accepts, crashed, set>>

ClearFile ==
  /\ Import /\ ~crashed /\ ~panels.har.busy /\ (panels.har.result = NoResult => panels.har.file # NoFile)
  /\ panels' = [panels EXCEPT !.har.file = NoFile, !.har.result = NoResult]
  /\ UNCHANGED <<mappings, sweepFile, asks, accepts, crashed, set>>

Asking(panel) == [panel EXCEPT !.busy = TRUE, !.result = NoResult, !.accepted = {}, !.skipped = {}, !.swapped = FALSE]
Submit(p) ==
  /\ Import /\ ~crashed /\ ~panels[p].busy /\ (p = "har" => panels.har.file # NoFile)
  /\ panels' = [panels EXCEPT ![p] = Asking(@)]
  /\ asks' = asks \cup {[panel |-> p, of |-> IF p = "har" THEN panels.har.file ELSE "sweep file", answer |-> NoResult]}
  /\ UNCHANGED <<mappings, sweepFile, accepts, crashed, set>>

Serve(ask) ==
  /\ ask.answer = NoResult
  /\ asks' = (asks \ {ask}) \cup {[ask EXCEPT !.answer = {AnswerTo(ask)}]}
  /\ mappings' = IF AnswerTo(ask).error = "none" THEN After(ListOf(ask), mappings) ELSE mappings
  /\ UNCHANGED <<sweepFile, panels, accepts, crashed, set, imports>>

Told(ask, answer) ==
  IF ask.panel = "gone" THEN panels
  ELSE [panels EXCEPT ![ask.panel].busy = FALSE, ![ask.panel].result = {answer}]

(* The upload's panel takes a refusal for a result and its render throws,  *)
(* which unmounts the page; the sweep's shows it.                          *)
Learn(ask) ==
  /\ ask.answer # NoResult
  /\ LET answer == CHOOSE r \in ask.answer : TRUE
         throws == ask.panel = "har" /\ answer.error = "refused"
     IN  /\ crashed' = (crashed \/ throws)
         /\ panels' = IF throws THEN [p \in Panels |-> EmptyPanel] ELSE Told(ask, answer)
         /\ asks' = IF throws THEN {[k EXCEPT !.panel = "gone"] : k \in asks \ {ask}} ELSE asks \ {ask}
         /\ accepts' = IF throws THEN {[k EXCEPT !.panel = "gone"] : k \in accepts} ELSE accepts
  /\ UNCHANGED <<mappings, sweepFile, set, imports>>

(* The request or its answer is lost.                                      *)
LoseAsk(ask) ==
  /\ Import
  /\ panels' = Told(ask, Failure(ask.of, "network", mappings))
  /\ asks' = asks \ {ask}
  /\ UNCHANGED <<mappings, sweepFile, accepts, crashed, set>>

Reopen == crashed /\ crashed' = FALSE /\ UNCHANGED <<mappings, sweepFile, panels, asks, accepts, set, imports>>

-----------------------------------------------------------------------------
(* Suggestions.                                                            *)

PendingOf(panel) ==
  {s \in UNION {r.suggestions : r \in panel.result} : s.account \notin panel.accepted \cup panel.skipped}
(* Mutant: archived ones as well.                                          *)
AcceptableAny(panel) == PendingOf(panel)
Acceptable(panel) == {s \in PendingOf(panel) : ~s.channel.archived}

Accept(p, s) ==
  /\ Import
  /\ accepts' = accepts \cup {[panel |-> p, suggestion |-> s, at |-> "sent"]}
  /\ UNCHANGED <<mappings, sweepFile, panels, asks, crashed, set>>

ServeAccept(k) ==
  /\ k.at = "sent"
  /\ accepts' = (accepts \ {k}) \cup {[k EXCEPT !.at = "done"]}
  /\ mappings' = [mappings EXCEPT ![k.suggestion.account] = OverriddenBy(k.suggestion.channel)]
  /\ set' = set \cup {k.suggestion}
  /\ UNCHANGED <<sweepFile, panels, asks, crashed, imports>>

(* The answer counts in whatever result the panel now shows.               *)
(* Mutant: so does a call that failed.                                     *)
CountedAnyway(panel, k) == [panel EXCEPT !.accepted = @ \cup {k.suggestion.account}]
Counted(panel, k) == IF k.at = "done" THEN [panel EXCEPT !.accepted = @ \cup {k.suggestion.account}] ELSE panel
LearnAccept(k) ==
  /\ k.at \in {"done", "lost"}
  /\ accepts' = accepts \ {k}
  /\ panels' = IF k.panel = "gone" THEN panels ELSE [panels EXCEPT ![k.panel] = Counted(@, k)]
  /\ UNCHANGED <<mappings, sweepFile, asks, crashed, set, imports>>
LoseAccept(k) ==
  /\ Import /\ k.at # "lost"
  /\ accepts' = (accepts \ {k}) \cup {[k EXCEPT !.at = "lost"]}
  /\ UNCHANGED <<mappings, sweepFile, panels, asks, crashed, set>>

Skip(p, s) ==
  /\ Import
  /\ panels' = [panels EXCEPT ![p].skipped = @ \cup {s.account}]
  /\ UNCHANGED <<mappings, sweepFile, asks, accepts, crashed, set>>

-----------------------------------------------------------------------------
(* A sweep that has found nothing leaves the last file.                    *)
Swept(queries) ==
  LET found == Harvest(queries)
  IN  IF found = {} THEN sweepFile ELSE [there |-> TRUE, channels |-> found]
Sweep(queries) ==
  /\ Import
  /\ sweepFile' = Swept(queries)
  /\ UNCHANGED <<mappings, panels, asks, accepts, crashed, set>>

(* Others map an account, take its mapping away, or find its channel dead. *)
Elsewhere(a) ==
  /\ Import
  /\ \E r \in {FoundDead(a)} \cup [status : {"candidate", "elsewhere"}, channel : {NoChannel}] :
       mappings' = [mappings EXCEPT ![a] = r]
  /\ UNCHANGED <<sweepFile, panels, asks, accepts, crashed, set>>

ImportNext ==
  \/ \E f \in DOMAIN HarFiles \cup {NoFile} : ChooseFile(f)
  \/ ClearFile
  \/ \E p \in Panels : Submit(p) \/ \E s \in PendingOf(panels[p]) : Skip(p, s)
  \/ \E p \in Panels : \E s \in Acceptable(panels[p]) : Accept(p, s)
  \/ \E k \in asks : Serve(k) \/ Learn(k) \/ LoseAsk(k)
  \/ \E k \in accepts : ServeAccept(k) \/ LearnAccept(k) \/ LoseAccept(k)
  \/ \E q \in SweepRuns : Sweep(q)
  \/ \E a \in Customers : Elsewhere(a)
  \/ Reopen
ImportSpec == ImportInit /\ [][ImportNext]_importVars

-----------------------------------------------------------------------------
(* The result that is shown is of the file that is shown, unless the file  *)
(* was changed while the request was under way.                            *)
ResultOfFile ==
  LET panel == panels.har
  IN  panel.file # NoFile /\ ~panel.swapped => \A r \in panel.result : r.of = panel.file

(* A row that a list has mapped has a channel that some record of the list *)
(* showed live, under the account's own name, or else the operator has     *)
(* accepted that channel for it.                                           *)
LinkedForCause ==
  \A a \in Customers :
    LET c == mappings[a].channel
    IN  c.name # NoName => /\ ~c.archived
                           /\ \/ c.name = NameOf[a]
                              \/ [account |-> a, channel |-> c] \in set

(* Whatever a panel counts as accepted was set for that account.           *)
AcceptedWasSet ==
  \A p \in Panels : \A a \in panels[p].accepted : \E s \in set : s.account = a

(* An answer's numbers are of different accounts; who is promoted has a    *)
(* live channel of its name, another than was found dead; and suggested is *)
(* the list's nearest channel for an account that the list has no name of. *)
AnswersAddUp ==
  \A r \in UNION {k.answer : k \in asks} :
    /\ Cardinality(r.promoted) + r.archived + Cardinality(r.suggestions) <= r.considered
    /\ \A a \in r.promoted : \E c \in r.channels :
         c.name = NameOf[a] /\ ~c.archived /\ (r.before[a].status = "dead" => c.id # r.before[a].channel.id)
    /\ \A s \in r.suggestions :
         /\ s.channel \in r.channels /\ NameOf[s.account] \notin {c.name : c \in r.channels}
         /\ \A c \in r.channels : NameScore(NameOf[s.account], c.name) <= NameScore(NameOf[s.account], s.channel.name)

(* "NoResult match our derived names exactly", which the page says of a result *)
(* that has promoted nobody, is true but for archived channels and for     *)
(* the one that the account had when it was found dead.                    *)
Cause(r) ==
  CASE Cardinality(r.channels) < EnoughChannels -> "few channels"
    [] Cardinality(r.channels) >= EnoughChannels /\ r.channels # {} /\ {c.name : c \in r.channels} \cap CustNames = {} -> "no customer's"
    [] Cardinality(r.channels) >= EnoughChannels /\ {c.name : c \in r.channels} \cap CustNames # {} ->
         IF r.tried > 0 THEN "none match" ELSE "none tried"
DiagnosisTells ==
  \A r \in UNION {k.answer : k \in asks} :
    r.error = "none" /\ r.promoted = {} /\ r.considered > 0 =>
      /\ Cause(r) = "none tried" => \A a \in Customers : r.before[a].status = "candidate" => NameOf[a] = NoName
      /\ Cause(r) = "none match" =>
           \A c \in r.channels : \A a \in Considered(r.before) :
             c.name = NameOf[a] => c.archived \/ r.before[a].channel.id = c.id

(* A list shows a channel as archived only if no record had it live.       *)
ListsShowLive ==
  \A k \in asks : k.of \in DOMAIN HarFiles =>
    \A c \in UNION {r.channels : r \in k.answer} :
      c.archived => \A e \in DOMAIN HarFiles[k.of].entries : \A i \in DOMAIN ChannelsIn(HarFiles[k.of].entries[e]) :
        LET record == ChannelsIn(HarFiles[k.of].entries[e])[i] IN record.id = c.id => record.archived

ImportsInv ==
  /\ ImportTypeOK /\ ResultOfFile /\ LinkedForCause /\ AcceptedWasSet /\ AnswersAddUp
  /\ DiagnosisTells /\ ListsShowLive
=============================================================================
