------------------------------ MODULE CtaEditor ------------------------------
(***************************************************************************)
(* Working through the cards of the CTA board (CTABoard.tsx): a card keeps *)
(* drafts of its note and of its owner, made when it is mounted, which are *)
(* sent when the field is left; an answer changes the card, not the drafts.*)
(* Filters and tabs mount and unmount cards meanwhile, and a scan may give *)
(* a card's line another id.  And whom a card's message speaks to.         *)
(* CtaBoard says more about statuses that cross; here texts do.            *)
(***************************************************************************)
EXTENDS Integers, FiniteSets

CONSTANTS
  Tickets,       \* the cards of the board
  ColorOf,       \* card -> "red", "yellow" or "green"
  Teams,         \* whom a CTA names: cse, ae, primary and cc owners
  Corrections,   \* name -> name of the CSE who is meant (slack-owners.ts)
  MaxSteps       \* bound: what the operator does

ASSUME EditorAssumption == MaxSteps \in Nat

VARIABLES
  saved,         \* card -> status, note and assigned owner in the log
  gone,          \* cards whose line has another id since they were loaded
  shown,         \* card -> what the board holds of it; primary is its primary_owner
  drafts,        \* card -> noteDraft and ownerDraft, of a mounted card
  typing,        \* the field that has the focus
  sent,          \* requests under way
  busyCard,      \* statusBusyId
  tab,           \* boardView
  colorFilter, ownerFilter,
  linked,        \* focusCtaId
  steps,
  left,          \* history: card -> the texts that the operator left last
  missed,        \* history: cards of which the board missed a change, or the log one
  crossed,       \* history: cards with two requests under way at once
  remounted      \* history: cards mounted while a request for them was under way

editorVars == <<saved, gone, shown, drafts, typing, sent, busyCard, tab, colorFilter, ownerFilter,
                linked, steps, left, missed, crossed, remounted>>

(* Texts are numbered as they are typed; the generated owner and the note  *)
(* that a scan leaves are number 0.                                        *)
Blank == -1
Texts == {"note", "owner"}
NotMounted == [note |-> Blank, owner |-> Blank, there |-> FALSE]
NoField == <<"none", "none">>
NoTicket == "none"

IsOpen(c) == shown[c].status # "done"

-----------------------------------------------------------------------------
(* The list.                                                               *)

Owners == {shown[c].primary : c \in Tickets}
Filtered ==
  {c \in Tickets : /\ tab = "open" <=> IsOpen(c)
                   /\ colorFilter \in {"all", ColorOf[c]}
                   /\ ownerFilter \in {Blank, shown[c].primary}}     \* Blank: of all owners

(* A card that comes into the list is mounted with new drafts, and one that*)
(* leaves it takes its drafts along, the text that is being typed as well: *)
(* what is removed is not blurred.                                         *)
FreshDrafts(c) == [note |-> shown[c].note, owner |-> shown[c].owner, there |-> TRUE]
UnderWay(c) == \E r \in sent : r.of = c
Mount(D) ==       \* D: the drafts of those that stay
  /\ drafts' = [c \in Tickets |-> IF c \notin Filtered' THEN NotMounted
                                  ELSE IF D[c].there THEN D[c] ELSE FreshDrafts(c)']
  /\ typing' = IF typing[1] \in Filtered' THEN typing ELSE NoField
  /\ remounted' = remounted \cup {c \in Filtered' : ~D[c].there /\ UnderWay(c)'}

-----------------------------------------------------------------------------
(* The operator.  Whatever he clicks takes the focus from the field first. *)

Step == steps < MaxSteps /\ steps' = steps + 1

Writable(c) == c \in Filtered /\ busyCard # c

(* An owner may be emptied, which is not sent.                             *)
Type(c, f, text) ==
  /\ Step /\ Writable(c) /\ typing \in {NoField, <<c, f>>}
  /\ text \in {steps + 1} \cup (IF f = "owner" THEN {Blank} ELSE {})
  /\ typing' = <<c, f>> /\ drafts' = [drafts EXCEPT ![c][f] = text]
  /\ UNCHANGED <<saved, gone, shown, sent, busyCard, tab, colorFilter, ownerFilter, linked,
                 left, missed, crossed, remounted>>

(* A field gets the focus and loses it without a change.                   *)
Visit(c, f) ==
  /\ Step /\ Writable(c) /\ typing = NoField /\ typing' = <<c, f>>
  /\ UNCHANGED <<saved, gone, shown, drafts, sent, busyCard, tab, colorFilter, ownerFilter,
                 linked, left, missed, crossed, remounted>>

Send(c, field, value) ==
  /\ sent' = sent \cup {[n |-> steps, of |-> c, field |-> field, value |-> value, at |-> "asked",
                         line |-> saved[c], mine |-> TRUE]}
  /\ busyCard' = c
  /\ crossed' = IF UnderWay(c) THEN crossed \cup {c} ELSE crossed

(* Mutant: an emptied owner is sent.                                       *)
TextDiffersBlank(f, text, c) == text # shown[c][f]
TextDiffers(f, text, c) == text # shown[c][f] /\ (f = "owner" => text # Blank)

Leave ==
  LET c == typing[1]  f == typing[2]  text == drafts[c][f] IN
  /\ typing # NoField /\ typing' = NoField
  /\ IF TextDiffers(f, text, c) THEN Send(c, f, text) /\ left' = [left EXCEPT ![c][f] = text]
     ELSE UNCHANGED <<sent, busyCard, crossed, left>>
  /\ UNCHANGED <<saved, gone, shown, drafts, tab, colorFilter, ownerFilter, linked, steps,
                 missed, remounted>>

(* Mark done and Reopen.                                                   *)
DoneOrReopen(c) ==
  /\ Step /\ typing = NoField /\ Writable(c)
  /\ Send(c, "status", IF IsOpen(c) THEN "done" ELSE "open")
  /\ UNCHANGED <<saved, gone, shown, drafts, typing, tab, colorFilter, ownerFilter, linked,
                 left, missed, remounted>>

ChooseTab(t) ==
  /\ Step /\ typing = NoField /\ t # tab /\ tab' = t
  /\ UNCHANGED <<shown, colorFilter, ownerFilter, sent>> /\ Mount(drafts)
  /\ UNCHANGED <<saved, gone, busyCard, linked, left, missed, crossed>>
ChooseFilter(color, owner) ==
  /\ Step /\ typing = NoField /\ <<color, owner>> # <<colorFilter, ownerFilter>>
  /\ colorFilter' = color /\ ownerFilter' = owner
  /\ UNCHANGED <<shown, tab, sent>> /\ Mount(drafts)
  /\ UNCHANGED <<saved, gone, busyCard, linked, left, missed, crossed>>

-----------------------------------------------------------------------------
(* The page: the log as it is, all filters off, the tab of the linked card.*)

TicketOf(line) == [status |-> line.status, note |-> line.note, owner |-> line.owner, primary |-> line.owner]
TabFor(c) == IF c # NoTicket /\ saved[c].status = "done" THEN "done" ELSE "open"

EditorInit ==
  /\ saved \in [Tickets -> {[status |-> s, note |-> 0, owner |-> 0] : s \in {"open", "done"}}]
  /\ linked \in Tickets \cup {NoTicket} /\ tab = TabFor(linked)
  /\ gone = {} /\ sent = {} /\ busyCard = NoTicket /\ typing = NoField
  /\ shown = [c \in Tickets |-> TicketOf(saved[c])]
  /\ colorFilter = "all" /\ ownerFilter = Blank
  /\ drafts = [c \in Tickets |-> IF c \in Filtered THEN FreshDrafts(c) ELSE NotMounted]
  /\ steps = 0 /\ left = [c \in Tickets |-> [f \in Texts |-> 0]]
  /\ missed = {} /\ crossed = {} /\ remounted = {}

(* A reload forgets the answers under way: their cards may be behind.      *)
Reload ==
  /\ Step /\ typing = NoField
  /\ shown' = [c \in Tickets |-> TicketOf(saved[c])] /\ gone' = {}
  /\ tab' = TabFor(linked) /\ colorFilter' = "all" /\ ownerFilter' = Blank
  /\ sent' = {[r EXCEPT !.mine = FALSE] : r \in {q \in sent : q.at = "asked"}} /\ busyCard' = NoTicket
  /\ left' = [c \in Tickets |-> [f \in Texts |-> saved[c][f]]]
  /\ missed' = {r.of : r \in sent'} /\ crossed' = {}
  /\ drafts' = [c \in Tickets |-> IF c \in Filtered' THEN FreshDrafts(c)' ELSE NotMounted]
  /\ typing' = NoField /\ remounted' = {}
  /\ UNCHANGED <<saved, linked>>

-----------------------------------------------------------------------------
(* The server: rewriteEntry, or "CTA not found"; it answers with the line. *)

Written(c, field, value) == [saved EXCEPT ![c][field] = value]

ServeChange(r) ==
  /\ r.at = "asked" /\ r.of \notin gone
  /\ saved' = Written(r.of, r.field, r.value)
  /\ sent' = (sent \ {r}) \cup
       (IF r.mine THEN {[r EXCEPT !.at = "served", !.line = saved'[r.of]]} ELSE {})
  /\ UNCHANGED <<gone, shown, drafts, typing, busyCard, tab, colorFilter, ownerFilter, linked,
                 steps, left, missed, crossed, remounted>>

(* The whole line is taken over, but the owner by whom the card is listed. *)
(* Mutant: the note stays what it was.                                     *)
TakenOverInPart(r) == [shown[r.of] EXCEPT !.status = r.line.status, !.owner = r.line.owner]
TakenOver(r) == [shown[r.of] EXCEPT !.status = r.line.status, !.note = r.line.note, !.owner = r.line.owner]

Receive(r) ==
  /\ r.at = "served" /\ sent' = sent \ {r} /\ busyCard' = NoTicket
  /\ shown' = [shown EXCEPT ![r.of] = TakenOver(r)]
  /\ UNCHANGED <<tab, colorFilter, ownerFilter>> /\ Mount(drafts)
  /\ UNCHANGED <<saved, gone, linked, steps, left, missed, crossed>>

(* A refusal, or a request or answer that is lost: the board says nothing. *)
Lose(r) ==
  /\ sent' = sent \ {r} /\ busyCard' = (IF r.mine THEN NoTicket ELSE busyCard)
  /\ missed' = missed \cup {r.of}
  /\ UNCHANGED <<saved, gone, shown, drafts, typing, tab, colorFilter, ownerFilter, linked,
                 steps, left, crossed, remounted>>

(* A full scan writes the line anew, with its progress and another id.     *)
Rescan(c) ==
  /\ c \notin gone /\ Step /\ gone' = gone \cup {c}
  /\ UNCHANGED <<saved, shown, drafts, typing, sent, busyCard, tab, colorFilter, ownerFilter,
                 linked, left, missed, crossed, remounted>>

EditorNext ==
  \/ \E c \in Tickets, f \in Texts : (\E text \in Blank..MaxSteps : Type(c, f, text)) \/ Visit(c, f)
  \/ Leave \/ \E c \in Tickets : DoneOrReopen(c) \/ Rescan(c)
  \/ \E t \in {"open", "done"} : ChooseTab(t)
  \/ \E color \in {"all", "red"}, owner \in Owners \cup {Blank} : ChooseFilter(color, owner)
  \/ Reload
  \/ \E r \in sent : ServeChange(r) \/ Receive(r) \/ Lose(r)

EditorSpec == EditorInit /\ [][EditorNext]_editorVars

-----------------------------------------------------------------------------
(* Whom a card speaks to (cta-utils.ts): the CSE, else the AE, else whoever*)
(* is named, by the CTA as the scan or the log has it.                     *)

Nobody == "nobody"
InRole(t, role) ==
  IF role = "CSE" /\ t.cse # Nobody THEN t.cse
  ELSE IF role = "AE" /\ t.ae # Nobody THEN t.ae
  ELSE IF t.primary.role = role THEN t.primary.name
  ELSE IF \E o \in t.cc : o.role = role THEN (CHOOSE o \in t.cc : o.role = role).name ELSE Nobody
Corrected(name) == IF name \in DOMAIN Corrections THEN Corrections[name] ELSE name

(* Whoever is named has a name, and no account's AE is its CSE.            *)
ASSUME TeamsAssumption ==
  /\ Nobody \notin DOMAIN Corrections /\ \A n \in DOMAIN Corrections : Corrections[n] # Nobody
  /\ \A t \in Teams : /\ t = [cse |-> t.cse, ae |-> t.ae, primary |-> t.primary, cc |-> t.cc]
                      /\ \A o \in {t.primary} \cup t.cc : o.name # Nobody
                      /\ t.ae # Nobody => t.ae # Corrected(InRole(t, "CSE"))

Mention(t) ==
  IF InRole(t, "CSE") # Nobody THEN [name |-> Corrected(InRole(t, "CSE")), digital |-> FALSE]
  ELSE IF InRole(t, "AE") # Nobody THEN [name |-> InRole(t, "AE"), digital |-> TRUE]
  ELSE [name |-> t.primary.name, digital |-> TRUE]

(* The AE whom the message names besides the CSE it speaks to.             *)
AlsoNamed(t) == IF t.ae = Nobody \/ Mention(t).digital THEN Nobody ELSE t.ae
Ask(play, t) ==
  CASE play = "dark_account" -> IF Mention(t).digital THEN "dig in" ELSE "touch base"
    [] play = "dark_renewal" -> IF AlsoNamed(t) # Nobody THEN "sync with the AE" ELSE "connect with the AE"
    [] play = "engagement_risk" -> IF AlsoNamed(t) # Nobody THEN "introduce yourself as the CSE" ELSE "reach out"
    [] OTHER -> "look"

(* The entry of the board: whoever is assigned takes the primary's place,  *)
(* the team is looked up before.  Mutant: only where the CTA says so.      *)
BoardTeamAsSaid(t, assigned) ==
  IF assigned = 0 THEN t ELSE [t EXCEPT !.primary = [role |-> "text", name |-> assigned]]
BoardTeam(t, assigned) ==
  LET team == [t EXCEPT !.cse = InRole(t, "CSE"), !.ae = InRole(t, "AE")] IN
  IF assigned = 0 THEN team ELSE [team EXCEPT !.primary = [role |-> "text", name |-> assigned]]

(* The badges of the header, and those that are marked as tagged.          *)
Badges(t) == {Corrected(t.cse), t.ae} \ {Nobody}
Tagged(t) == Badges(t) \cap {Mention(t).name}

-----------------------------------------------------------------------------
EditorTypeOK ==
  /\ \A c \in Tickets : /\ saved[c].owner \in 0..MaxSteps /\ saved[c].note \in 0..MaxSteps
                        /\ drafts[c].there <=> c \in Filtered
  /\ typing # NoField => drafts[typing[1]].there
  /\ busyCard # NoTicket => \E r \in sent : r.of = busyCard /\ r.mine
  /\ \A r \in sent : r.mine => r.at \in {"asked", "served"}

(* A card that went wrong for one of three reasons, until the page is      *)
(* loaded again: an answer or a change was lost, two of its requests were  *)
(* under way at once, or it was filtered away and back during a request, so*)
(* that its drafts are of before the answer: to leave such a field, even   *)
(* untouched, sends the old text again.                                    *)
CardDisturbed(c) == c \in missed \cup crossed \cup remounted

(* What the operator typed and left is what the log says in the end,       *)
(* whatever he does to other cards, tabs and filters meanwhile and with    *)
(* every other field of the card untouched; nothing older comes back by    *)
(* itself.  An undisturbed card shows it, and so do its drafts, but for an *)
(* owner that was emptied (updateCtaProgress, onBlur of CTACard).          *)
TextsAreKept ==
  sent = {} => \A c \in {t \in Tickets : ~CardDisturbed(t)} : \A f \in Texts :
    /\ saved[c][f] = left[c][f] /\ shown[c][f] = saved[c][f] /\ shown[c].status = saved[c].status
    /\ c \in Filtered /\ typing # <<c, f>> => drafts[c][f] = saved[c][f] \/ (f = "owner" /\ drafts[c][f] = Blank)

(* The badge that says "Tagged in Slack" is of the person whom the card's  *)
(* message mentions, also after the CTA was given to somebody else, and    *)
(* there is one if the CTA names a CSE or an AE (TeamHeaderBadges with the *)
(* board's entry, generateSlackMessage with the scan's).                   *)
TaggedIsMentioned ==
  \A t \in Teams, c \in Tickets :
    Tagged(BoardTeam(t, shown[c].primary)) =
      {Mention(t).name : role \in {r \in {"CSE", "AE"} : InRole(t, r) # Nobody}}

(* Nobody is told to introduce himself as the CSE, or spoken to as one, who*)
(* is not, and nobody is told to involve himself (naturalAsk).             *)
SpeaksToTheRightOne ==
  \A t \in Teams :
    /\ Ask("engagement_risk", t) = "introduce yourself as the CSE" => Mention(t).name = Corrected(InRole(t, "CSE"))
    /\ Ask("dark_account", t) = "touch base" <=> InRole(t, "CSE") # Nobody
    /\ AlsoNamed(t) # Nobody => AlsoNamed(t) # Mention(t).name

(* The invariant of the editor.                                            *)
EditorInv ==
  EditorTypeOK /\ TextsAreKept /\ (steps <= 2 => TaggedIsMentioned /\ SpeaksToTheRightOne)
=============================================================================
