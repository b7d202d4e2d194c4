-------------------------------- MODULE CtaLog --------------------------------
(***************************************************************************)
(* The files the CTA board is made of: expand3_cta_log.jsonl, one line per *)
(* CTA with the operator's progress, and one scan document per day.  Scans *)
(* (scripts/generate-ctas.ts) are processes that read the log when they    *)
(* start and write both when they end; the web server rewrites a line of   *)
(* the log for every update, and merges the files into cards.  Reads and   *)
(* writes of whole files are steps, and processes die between them.        *)
(***************************************************************************)
EXTENDS Naturals, FiniteSetsExt

CONSTANTS
  Scanners,      \* generating processes that may run at once
  Plays,         \* play types
  Subjects,      \* accounts, or their renewal opportunities
  DedupWindow,   \* dedupWindowDays
  Given,         \* statuses the operator gives
  MaxDay,        \* bound: days that pass
  MaxLines,      \* bound: times that lines are written to the log
  MaxUpdates     \* bound: the operator's updates

ASSUME LogAssumption ==
  /\ Given \subseteq {"open", "in_progress", "blocked", "done"}
  /\ DedupWindow \in Nat /\ MaxDay \in Nat \ {0} /\ MaxLines \in Nat /\ MaxUpdates \in Nat

Statuses == {"open", "in_progress", "blocked", "done"}
Keys == Subjects \X Plays                \* dedup_key
Ids == (1..MaxDay) \X Keys               \* cta_id: scan date, account and play
Entry == [id : Ids, status : Statuses, posted : 1..MaxLines]

VARIABLES
  log,           \* the set of its lines, posted orders those of a key; none: no file
  documents,     \* days that have a scan document
  scans,         \* day -> the cards of its document
  today,
  lines,         \* times that lines were written so far
  scanner,       \* what each process is doing
  rewriting,     \* the web server's copy of the log, between read and write
  updates,
  known,         \* history: key -> status the operator last gave it and may rely on
  mixed,         \* history: a scan died between two writes, or two writers overlapped,
                 \* and no full scan has run alone since
  older,         \* history: keys of which the operator changed a line that is not the newest
  regenerated    \* history: no scan has started since a full one that ran alone

logVars == <<log, documents, scans, today, lines, scanner, rewriting, updates,
             known, mixed, older, regenerated>>

Idle == [at |-> "idle", day |-> 1, full |-> FALSE, prior |-> {}, ctas |-> {}, cards |-> {},
         alone |-> TRUE]
NotRewriting == [id |-> "none", status |-> "none", copy |-> {}]

CtaLogTypeOK ==
  /\ log \subseteq Entry /\ documents \subseteq 1..today
  /\ today \in 1..MaxDay
  /\ \A s \in Scanners : scanner[s].ctas \subseteq Keys /\ scanner[s].day <= today
  /\ \A d \in 1..MaxDay : /\ scans[d] \subseteq Ids /\ (d \notin documents => scans[d] = {})
                       /\ \A i \in scans[d] : i[1] <= d
  /\ known \in [Keys -> Statuses \cup {"none"}] /\ older \subseteq Keys

CtaLogInit ==
  /\ log = {} /\ documents = {} /\ scans = [d \in 1..MaxDay |-> {}]
  /\ today = 1 /\ lines = 0 /\ updates = 0
  /\ scanner = [s \in Scanners |-> Idle]
  /\ rewriting = NotRewriting
  /\ known = [k \in Keys |-> "none"] /\ mixed = FALSE
  /\ older = {} /\ regenerated = FALSE

Open(e) == e.status # "done"
KeyOf(e) == e.id[2]

(* Last of the lines, in the order of the file.                            *)
Latest(L) == CHOOSE e \in L : \A f \in L : f.posted <= e.posted

Forget(K) == known' = [k \in Keys |-> IF k \in K THEN "none" ELSE known[k]]

-----------------------------------------------------------------------------
(* The decision for one CTA of a scan of one account.                      *)
OpenFor(k, prior) == {e \in prior : KeyOf(e) = k /\ Open(e)}

Recent(e, day) == day - e.id[1] <= DedupWindow

Decision(k, prior, day, changed) ==
  LET open == OpenFor(k, prior) IN
  IF open = {} \/ ~Recent(Latest(open), day) THEN "create"
  ELSE IF changed THEN "update" ELSE "skip"

CardFor(k, prior, day, changed) ==
  CASE Decision(k, prior, day, changed) = "create" -> {<<day, k>>}
    [] Decision(k, prior, day, changed) = "update" -> {Latest(OpenFor(k, prior)).id}
    [] OTHER -> {}

(* What a fresh line takes over: the newest line with its key.  Mutant: the*)
(* first one.                                                              *)
CarriedFirst(k, prior) ==
  LET same == {e \in prior : KeyOf(e) = k} IN
  IF same = {} THEN "open" ELSE (CHOOSE e \in same : \A f \in same : f.posted >= e.posted).status
Carried(k, prior) ==
  LET same == {e \in prior : KeyOf(e) = k} IN
  IF same = {} THEN "open" ELSE Latest(same).status

-----------------------------------------------------------------------------
(* Another writer starts while scans are under way.                        *)
Disturbed == [t \in Scanners |-> IF scanner[t].at = "idle" THEN Idle
                                ELSE [scanner[t] EXCEPT !.alone = FALSE]]
Undisturbed == rewriting = NotRewriting /\ \A t \in Scanners : scanner[t].at = "idle"

(* A process starts and reads the log; it selects at most one play per     *)
(* subject.  A full scan takes every account, a filtered one those whose   *)
(* names contain the text.                                                 *)
StartScan(s, full) ==
  /\ scanner[s].at = "idle"
  /\ \E found \in SUBSET Keys :
       /\ \A k, l \in found : k[1] = l[1] => k = l
       /\ \E changed \in (IF full THEN {FALSE} ELSE BOOLEAN) :
            scanner' = [Disturbed EXCEPT ![s] =
              [at |-> "document", day |-> today, full |-> full, prior |-> log, ctas |-> found,
               cards |-> IF full THEN {<<today, k>> : k \in found}
                         ELSE UNION {CardFor(k, log, today, changed) : k \in found},
               alone |-> Undisturbed]]
  /\ mixed' = (mixed \/ ~Undisturbed) /\ regenerated' = FALSE
  /\ UNCHANGED <<log, documents, scans, today, lines, rewriting, updates, known, older>>

WriteDocument(s) ==
  /\ scanner[s].at = "document"
  /\ scans' = [scans EXCEPT ![scanner[s].day] = scanner[s].cards]
  /\ documents' = documents \cup {scanner[s].day}
  /\ scanner' = [scanner EXCEPT ![s].at = IF scanner[s].full THEN "prune" ELSE "append"]
  /\ UNCHANGED <<log, today, lines, rewriting, updates, known, mixed, older, regenerated>>

(* A full scan removes the documents of other days and archives the log.   *)
Prune(s) ==
  /\ scanner[s].at = "prune"
  /\ scans' = [d \in 1..MaxDay |-> IF d = scanner[s].day THEN scans[d] ELSE {}]
  /\ documents' = documents \cap {scanner[s].day}
  /\ log' = {}
  /\ scanner' = [scanner EXCEPT ![s].at = "replace"]
  /\ UNCHANGED <<today, lines, rewriting, updates, known, mixed, older, regenerated>>

(* ... and writes its CTAs with the progress of the log it had read.  What *)
(* the operator knew of other keys is only in the archive from now on.     *)
Replace(s) ==
  LET k == scanner[s] IN
  /\ k.at = "replace" /\ lines < MaxLines
  /\ log' = {[id |-> <<k.day, c>>, status |-> Carried(c, k.prior), posted |-> lines + 1] : c \in k.ctas}
  /\ lines' = lines + 1
  /\ Forget(IF mixed THEN Keys ELSE Keys \ k.ctas)
  /\ mixed' = (mixed /\ ~k.alone) /\ older' = {} /\ regenerated' = k.alone
  /\ scanner' = [scanner EXCEPT ![s] = Idle]
  /\ UNCHANGED <<documents, scans, today, rewriting, updates>>

(* A filtered scan appends the CTAs whose id the log it read did not have. *)
(* Mutant: whose key it did not have.                                      *)
MissingByKey(cards, prior) == {i \in cards : \A e \in prior : KeyOf(e) # i[2]}
Missing(cards, prior) == {i \in cards : \A e \in prior : e.id # i}

AppendLines(s) ==
  LET k == scanner[s]
      new == Missing(k.cards, k.prior) IN
  /\ k.at = "append" /\ (new = {} \/ lines < MaxLines)
  /\ IF new = {} THEN UNCHANGED <<log, lines, known>>
     ELSE /\ log' = log \cup {[id |-> i, status |-> "open", posted |-> lines + 1] : i \in new}
          /\ lines' = lines + 1
          /\ Forget({i[2] : i \in new})
  /\ scanner' = [scanner EXCEPT ![s] = Idle]
  /\ UNCHANGED <<documents, scans, today, rewriting, updates, mixed, older, regenerated>>

Dies(s) ==
  /\ scanner[s].at # "idle"
  /\ scanner' = [scanner EXCEPT ![s] = Idle]
  /\ mixed' = (mixed \/ scanner[s].at # "document")
  /\ IF scanner[s].at = "replace" THEN Forget(Keys) ELSE UNCHANGED known
  /\ UNCHANGED <<log, documents, scans, today, lines, rewriting, updates, older, regenerated>>

-----------------------------------------------------------------------------
(* PATCH .../progress: rewriteEntry reads the log, changes the lines with  *)
(* the id and writes the whole file.  A server does nothing else between,  *)
(* but a scanner may.                                                      *)
StartUpdate(i, status) ==
  /\ rewriting = NotRewriting /\ updates < MaxUpdates
  /\ \E e \in log : e.id = i
  /\ rewriting' = [id |-> i, status |-> status, copy |-> log]
  /\ updates' = updates + 1
  /\ mixed' = (mixed \/ ~Undisturbed) /\ scanner' = Disturbed
  /\ UNCHANGED <<log, documents, scans, today, lines, known, older, regenerated>>

Patched(e) ==
  IF e.id = rewriting.id THEN [e EXCEPT !.status = rewriting.status] ELSE e

FinishUpdate ==
  /\ rewriting # NotRewriting
  /\ log' = {Patched(e) : e \in rewriting.copy}
  /\ rewriting' = NotRewriting
  /\ LET k == rewriting.id[2]
         newest == Latest({e \in rewriting.copy : KeyOf(e) = k}) IN
     IF newest.id = rewriting.id
     THEN known' = [known EXCEPT ![k] = rewriting.status] /\ UNCHANGED older
     ELSE older' = older \cup {k} /\ UNCHANGED known
  /\ UNCHANGED <<documents, scans, today, lines, scanner, updates, mixed, regenerated>>

Midnight ==
  /\ today < MaxDay /\ today' = today + 1
  /\ UNCHANGED <<log, documents, scans, lines, scanner, rewriting, updates,
                 known, mixed, older, regenerated>>

CtaLogNext ==
  \/ \E s \in Scanners : \/ \E full \in BOOLEAN : StartScan(s, full)
                         \/ WriteDocument(s) \/ Prune(s) \/ Replace(s) \/ AppendLines(s) \/ Dies(s)
  \/ \E i \in Ids, status \in Given : StartUpdate(i, status)
  \/ FinishUpdate \/ Midnight

CtaLogSpec == CtaLogInit /\ [][CtaLogNext]_logVars

-----------------------------------------------------------------------------
(* loadCTAData: the cards of the newest document, and the first line of    *)
(* each key that no card has.  Mutant: every line of such a key.           *)
NewestDocument ==
  IF documents = {} THEN {} ELSE scans[Max(documents)]

Uncovered == {e \in log : \A i \in NewestDocument : i[2] # KeyOf(e)}
FromLogAll == {e.id : e \in Uncovered}
FromLog ==
  {e.id : e \in {f \in Uncovered : \A g \in log : KeyOf(g) = KeyOf(f) => f.posted <= g.posted}}

Cards == NewestDocument \cup FromLog

(* Where a card's progress comes from: the line with its id, or the newest *)
(* with its key.                                                           *)
Tracking(i) ==
  LET same == {e \in log : e.id = i}
      alike == {e \in log : KeyOf(e) = i[2]} IN
  IF same # {} THEN Latest(same).status
  ELSE IF alike # {} THEN Latest(alike).status ELSE "open"

-----------------------------------------------------------------------------
(* Nobody runs and nothing got mixed up.                                   *)
Settled == ~mixed /\ rewriting = NotRewriting /\ \A s \in Scanners : scanner[s].at = "idle"

(* What the operator has said of a CTA survives later scans, on other days,*)
(* full and filtered, that find it again ("so full-scan regeneration does  *)
(* not reset status/notes", progress.ts), as long as no writer overlaps    *)
(* another and none dies between two writes; one full scan that runs alone *)
(* makes good what such a mishap did to the files.                         *)
ProgressKept ==
  Settled => \A k \in Keys : known[k] # "none" =>
    \E e \in log : KeyOf(e) = k /\ e = Latest({f \in log : KeyOf(f) = k})
                     /\ e.status = known[k]

(* Every card of the board can be updated: its id is in the log.           *)
CardsAreTracked == Settled => \A i \in Cards : \E e \in log : e.id = i

(* The board shows a CTA once, though the document may name it by another  *)
(* id than the log ("overlays progress from JSONL via dedup_key when scan  *)
(* cta_id changed", cta-data.test.ts).                                     *)
OneCardPerKey == \A i, j \in Cards : i[2] = j[2] => i = j

(* A card of the document is the newest CTA of its key, and shows what the *)
(* operator has said of it: an older line is done or out of the window, and*)
(* is not updated in its place, unless the operator changes it.            *)
DocumentShowsNewest ==
  Settled => \A i \in NewestDocument : i[2] \notin older =>
    /\ \A e \in log : KeyOf(e) = i[2] => e.id[1] <= i[1]
    /\ known[i[2]] # "none" => Tracking(i) = known[i[2]]

(* "so the board shows one generation only" (pruneOldScanFiles): after a   *)
(* full scan that ran alone, document, log and board name the same CTAs.   *)
OneGeneration ==
  regenerated => /\ \E d \in 1..MaxDay : documents = {d}
                 /\ NewestDocument = {e.id : e \in log} /\ Cards = NewestDocument

(* The invariant of the log.                                               *)
LogInv ==
  CtaLogTypeOK /\ ProgressKept /\ CardsAreTracked /\ OneCardPerKey /\ DocumentShowsNewest /\ OneGeneration
=============================================================================
