------------------------------- MODULE CtaBoard -------------------------------
(***************************************************************************)
(* The CTA board in the browser (CTABoard.tsx).  The cards are copied when *)
(* the page is loaded; a change of a card's progress is sent to the server,*)
(* which answers with the line it has written, and the card shows that.    *)
(* One busy mark for the whole board disables the card that was changed    *)
(* last.                                                                   *)
(***************************************************************************)
EXTENDS Naturals, FiniteSets

CONSTANTS
  BoardCards,    \* cta_ids
  BoardStatuses, \* CTA_PROGRESS_STATUSES
  MaxChanges     \* bound: changes made on the board

ASSUME BoardAssumption == MaxChanges \in Nat

VARIABLES
  line,          \* card -> status in the log
  card,          \* card -> status on the board
  changes,       \* requests under way
  busyId,        \* statusBusyId
  boardView,     \* the tab, which lists the open or the done cards
  missed,        \* history: cards the server changed without an answer reaching the board
  crossed,       \* history: cards with two requests under way at once
  made,          \* changes made on the board so far
  elsewhere      \* history: card -> how many of them of other cards

boardVars == <<line, card, changes, busyId, boardView, missed, crossed, made, elsewhere>>

NoCard == "no card"

BoardTypeOK ==
  /\ line \in [BoardCards -> BoardStatuses] /\ card \in [BoardCards -> BoardStatuses]
  /\ busyId \in BoardCards \cup {NoCard} /\ boardView \in {"open", "done"}
  /\ missed \subseteq BoardCards /\ crossed \subseteq BoardCards
  /\ busyId # NoCard => \E r \in changes : r.of = busyId

BoardInit ==
  /\ line \in [BoardCards -> BoardStatuses] /\ card = line
  /\ changes = {} /\ busyId = NoCard /\ boardView = "open"
  /\ missed = {} /\ crossed = {} /\ made = 0 /\ elsewhere = [c \in BoardCards |-> 0]

CardIsOpen(c) == card[c] # "done"
Listed(c) == CardIsOpen(c) <=> boardView = "open"

SwitchView ==
  /\ boardView' = IF boardView = "open" THEN "done" ELSE "open"
  /\ UNCHANGED <<line, card, changes, busyId, missed, crossed, made, elsewhere>>

(* Mutant: nothing is disabled.                                            *)
ListedOnly(c) == Listed(c)
Enabled(c) == Listed(c) /\ busyId # c

(* Mark done, reopen or select a status, on a card of the tab.             *)
UpdateCtaProgress(c, status) ==
  /\ Enabled(c) /\ made < MaxChanges
  /\ busyId' = c /\ made' = made + 1
  /\ elsewhere' = [d \in BoardCards |-> IF d = c THEN elsewhere[d] ELSE elsewhere[d] + 1]
  /\ changes' = changes \cup {[n |-> made, of |-> c, status |-> status, done |-> FALSE]}
  /\ crossed' = crossed \cup {r.of : r \in {q \in changes : q.of = c}}
  /\ UNCHANGED <<line, card, boardView, missed>>

ServerUpdates(r) ==
  /\ r \in changes /\ ~r.done
  /\ line' = [line EXCEPT ![r.of] = r.status]
  /\ changes' = (changes \ {r}) \cup {[r EXCEPT !.done = TRUE]}
  /\ UNCHANGED <<card, busyId, boardView, missed, crossed, made, elsewhere>>

(* Its finally block takes the mark off, whichever card it is on.          *)
AnswerTo(r) == changes' = changes \ {r} /\ busyId' = NoCard

(* Mutant: the answer is shown on the card that is busy.                   *)
ShownOnBusy(r) == IF busyId = NoCard THEN r.of ELSE busyId
ShownOn(r) == r.of

UpdateArrives(r) ==
  /\ r \in changes /\ r.done /\ AnswerTo(r)
  /\ card' = [card EXCEPT ![ShownOn(r)] = r.status]
  /\ UNCHANGED <<line, boardView, missed, crossed, made, elsewhere>>

(* The server refuses (the CTA or the log is not there), or the request or *)
(* its answer is lost; nothing is said on the board.                       *)
(* Mutant: without the finally block.                                      *)
UpdateFailsBusy(r) ==
  /\ r \in changes /\ changes' = changes \ {r}
  /\ missed' = IF r.done THEN missed \cup {r.of} ELSE missed
  /\ UNCHANGED <<line, card, busyId, boardView, crossed, made, elsewhere>>
UpdateFails(r) ==
  /\ r \in changes /\ AnswerTo(r)
  /\ missed' = IF r.done THEN missed \cup {r.of} ELSE missed
  /\ UNCHANGED <<line, card, boardView, crossed, made, elsewhere>>

BoardNext ==
  \/ SwitchView
  \/ \E c \in BoardCards, status \in BoardStatuses : UpdateCtaProgress(c, status)
  \/ \E r \in changes : ServerUpdates(r) \/ UpdateArrives(r) \/ UpdateFails(r)

BoardSpec == BoardInit /\ [][BoardNext]_boardVars

-----------------------------------------------------------------------------
(* When nothing is under way a card shows what the log says, whatever      *)
(* happened to other cards meanwhile, unless an answer was lost or two     *)
(* requests for that card crossed.                                         *)
BoardShowsTheLog ==
  changes = {} => \A c \in BoardCards \ (missed \cup crossed) : card[c] = line[c]

(* Requests for one card cross only if other cards are changed meanwhile:  *)
(* another card's change frees the first twice, with its mark and its answer*)
CrossedByAnother ==
  \A c \in BoardCards :
    Cardinality({r \in changes : r.of = c}) <= 1 + 2 * elsewhere[c]

(* The invariant of the board.                                             *)
BoardInv == BoardTypeOK /\ BoardShowsTheLog /\ CrossedByAnother
=============================================================================
