---------------------------- MODULE EditorProofs ----------------------------
(***************************************************************************)
(* Proofs about the fields of the CTA cards, for any cards, teams and      *)
(* number of steps: what a person left in a field is what the log holds    *)
(* and what the board shows once no request of theirs is under way.        *)
(***************************************************************************)
EXTENDS CtaEditor, FiniteSetTheorems, TLAPS

-----------------------------------------------------------------------------
(* The cards: what each variable ranges over, after so many steps.         *)

CardStatus == {"open", "done"}
LinesUpTo(n) == [status : CardStatus, note : 0..n, owner : 0..n]
ShownUpTo(n) == [status : CardStatus, note : 0..n, owner : 0..n, primary : 0..n]
DraftsUpTo(n) == [note : 0..n, owner : Blank..n, there : {TRUE}] \cup {NotMounted}
ChangesUpTo(n) ==
  [n : Nat, of : Tickets, field : {"status"}, value : CardStatus, at : {"asked", "served"}, line : LinesUpTo(n), mine : BOOLEAN]
    \cup [n : Nat, of : Tickets, field : Texts, value : 0..n, at : {"asked", "served"}, line : LinesUpTo(n), mine : BOOLEAN]

EditorSorts ==
  /\ steps \in 0..MaxSteps
  /\ saved \in [Tickets -> LinesUpTo(steps)]
  /\ shown \in [Tickets -> ShownUpTo(steps)]
  /\ drafts \in [Tickets -> DraftsUpTo(steps)]
  /\ left \in [Tickets -> [Texts -> 0..steps]]
  /\ sent \subseteq ChangesUpTo(steps)
  /\ typing = NoField \/ typing \in Tickets \X Texts

(* What the board shows is the log's, and the log's what a person left.     *)
ShownIsSaved(c) == shown[c].status = saved[c].status /\ \A f \in Texts : shown[c][f] = saved[c][f]
SavedIsLeft(c) == \A f \in Texts : saved[c][f] = left[c][f]

(* An undisturbed card has at most one request under way, its own.          *)
OneRequest(c) ==
  /\ \A r, q \in sent : r.of = c /\ q.of = c => r = q
  /\ \A r \in sent : r.of = c => r.mine
(* That request says where log, board and card differ, before and after it  *)
(* is served.                                                              *)
RequestTells(c) ==
  /\ ~UnderWay(c) => ShownIsSaved(c) /\ SavedIsLeft(c)
  /\ \A r \in sent : r.of = c /\ r.at = "asked" =>
       ShownIsSaved(c) /\ \A f \in Texts : left[c][f] = (IF r.field = f THEN r.value ELSE saved[c][f])
  /\ \A r \in sent : r.of = c /\ r.at = "served" => r.line = saved[c] /\ SavedIsLeft(c)
(* A draft is what was left, but for an owner cleared and a field in use.  *)
DraftIsLeft(c) ==
  drafts[c].there => \A f \in Texts :
    \/ drafts[c][f] = left[c][f]
    \/ f = "owner" /\ drafts[c][f] = Blank
    \/ typing = <<c, f>> /\ drafts[c][f] # shown[c][f]

(* The inductive invariant: all of it, for each undisturbed card.          *)
EditorIInv ==
  /\ EditorSorts /\ EditorTypeOK
  /\ \A c \in Tickets : ~CardDisturbed(c) => OneRequest(c) /\ RequestTells(c) /\ DraftIsLeft(c)

-----------------------------------------------------------------------------
(* The values of a longer history include those of a shorter one.          *)
LEMMA SortsGrow ==
  ASSUME NEW n \in Nat, NEW m \in Nat, n <= m
  PROVE  /\ 0..n \subseteq 0..m /\ LinesUpTo(n) \subseteq LinesUpTo(m) /\ ShownUpTo(n) \subseteq ShownUpTo(m)
         /\ DraftsUpTo(n) \subseteq DraftsUpTo(m) /\ ChangesUpTo(n) \subseteq ChangesUpTo(m)
<1>1. 0..n \subseteq 0..m /\ Blank..n \subseteq Blank..m
  BY DEF Blank
<1>2. LinesUpTo(n) \subseteq LinesUpTo(m) /\ ShownUpTo(n) \subseteq ShownUpTo(m)
  BY <1>1 DEF LinesUpTo, ShownUpTo
<1>3. DraftsUpTo(n) \subseteq DraftsUpTo(m)
  BY <1>1 DEF DraftsUpTo
<1>4. ChangesUpTo(n) \subseteq ChangesUpTo(m)
  BY <1>1, <1>2 DEF ChangesUpTo
<1> QED
  BY <1>1, <1>2, <1>3, <1>4

(* What each card has, under the sorts.                                    *)
LEMMA CardSorts ==
  ASSUME EditorSorts, NEW c \in Tickets
  PROVE  /\ saved[c] \in LinesUpTo(steps) /\ shown[c] \in ShownUpTo(steps) /\ drafts[c] \in DraftsUpTo(steps)
         /\ \A f \in Texts : /\ saved[c][f] \in 0..steps /\ shown[c][f] \in 0..steps /\ left[c][f] \in 0..steps
                             /\ drafts[c][f] \in Blank..steps
         /\ drafts[c].there \in BOOLEAN /\ (drafts[c].there => drafts[c].note \in 0..steps)
<1>1. /\ saved[c] \in LinesUpTo(steps) /\ shown[c] \in ShownUpTo(steps) /\ drafts[c] \in DraftsUpTo(steps)
      /\ left[c] \in [Texts -> 0..steps] /\ steps \in Nat
  BY EditorAssumption DEF EditorSorts
<1>2. \A f \in Texts : saved[c][f] \in 0..steps /\ shown[c][f] \in 0..steps /\ left[c][f] \in 0..steps
  BY <1>1 DEF LinesUpTo, ShownUpTo, Texts
<1>3. /\ drafts[c].note \in Blank..steps /\ drafts[c].owner \in Blank..steps
      /\ drafts[c].there \in BOOLEAN /\ (drafts[c].there => drafts[c].note \in 0..steps)
  <2>1. CASE drafts[c] = NotMounted
    BY <1>1, <2>1 DEF NotMounted, Blank
  <2>2. CASE drafts[c] \in [note : 0..steps, owner : Blank..steps, there : {TRUE}]
    <3>1. drafts[c].note \in 0..steps /\ drafts[c].owner \in Blank..steps /\ drafts[c].there = TRUE
      BY <2>2
    <3>2. drafts[c].note \in Blank..steps
      BY <1>1, <3>1 DEF Blank
    <3> QED
      BY <3>1, <3>2
  <2> QED
    BY <1>1, <2>1, <2>2 DEF DraftsUpTo
<1> QED
  BY <1>1, <1>2, <1>3 DEF Texts

(* What each request has.                                                  *)
LEMMA ChangeSorts ==
  ASSUME EditorSorts, NEW r \in sent
  PROVE  /\ r.of \in Tickets /\ r.at \in {"asked", "served"} /\ r.line \in LinesUpTo(steps) /\ r.mine \in BOOLEAN
         /\ r.field \in Texts \cup {"status"}
         /\ (r.field = "status" => r.value \in CardStatus) /\ (r.field \in Texts => r.value \in 0..steps)
BY DEF EditorSorts, ChangesUpTo, Texts

(* What is mounted.                                                        *)
LEMMA MountSorts ==
  ASSUME EditorSorts, shown' \in [Tickets -> ShownUpTo(steps')], steps' \in Nat, steps <= steps', Mount(drafts)
  PROVE  /\ drafts' \in [Tickets -> DraftsUpTo(steps')]
         /\ typing' = NoField \/ typing' \in Tickets \X Texts
<1>1. steps \in Nat
  BY EditorAssumption DEF EditorSorts
<1>2. ASSUME NEW c \in Tickets
      PROVE  /\ NotMounted \in DraftsUpTo(steps') /\ drafts[c] \in DraftsUpTo(steps') /\ FreshDrafts(c)' \in DraftsUpTo(steps')
  <2>1. drafts[c] \in DraftsUpTo(steps')
    BY <1>1, <1>2, CardSorts, SortsGrow
  <2>2. shown'[c] \in ShownUpTo(steps')
    BY <1>2
  <2>3. shown'[c].note \in 0..steps' /\ shown'[c].owner \in Blank..steps'
    BY <2>2 DEF ShownUpTo, Blank
  <2>4. FreshDrafts(c)' = [note |-> shown'[c].note, owner |-> shown'[c].owner, there |-> TRUE]
    BY DEF FreshDrafts
  <2>5. FreshDrafts(c)' \in [note : 0..steps', owner : Blank..steps', there : {TRUE}]
    BY <2>3, <2>4
  <2> QED
    BY <2>1, <2>5 DEF DraftsUpTo
<1>3. typing' = NoField \/ typing' \in Tickets \X Texts
  BY DEF Mount, EditorSorts
<1> QED
  BY <1>2, <1>3 DEF Mount

(* Every step keeps the sorts.                                             *)
LEMMA SortsStep ==
  ASSUME EditorSorts, EditorTypeOK, EditorNext
  PROVE  EditorSorts'
<1>n. steps \in Nat /\ steps + 1 \in Nat /\ MaxSteps \in Nat
  BY EditorAssumption DEF EditorSorts
<1>grow. ASSUME steps' \in 0..MaxSteps, steps <= steps'
         PROVE  /\ steps' \in Nat /\ 0..steps \subseteq 0..steps' /\ LinesUpTo(steps) \subseteq LinesUpTo(steps')
                /\ ShownUpTo(steps) \subseteq ShownUpTo(steps') /\ DraftsUpTo(steps) \subseteq DraftsUpTo(steps')
                /\ ChangesUpTo(steps) \subseteq ChangesUpTo(steps')
  BY <1>n, <1>grow, SortsGrow
<1>step. ASSUME Step
         PROVE  steps' = steps + 1 /\ steps' \in 0..MaxSteps /\ steps <= steps'
  BY <1>n, <1>step DEF Step
<1>same. ASSUME UNCHANGED steps
         PROVE  steps' = steps /\ steps' \in 0..MaxSteps /\ steps <= steps'
  BY <1>n, <1>same DEF EditorSorts
<1>rest. ASSUME steps' \in 0..MaxSteps, steps <= steps'
         PROVE  /\ saved \in [Tickets -> LinesUpTo(steps')] /\ shown \in [Tickets -> ShownUpTo(steps')]
                /\ drafts \in [Tickets -> DraftsUpTo(steps')] /\ left \in [Tickets -> [Texts -> 0..steps']]
                /\ sent \subseteq ChangesUpTo(steps')
  <2>1. /\ saved \in [Tickets -> LinesUpTo(steps')] /\ shown \in [Tickets -> ShownUpTo(steps')]
        /\ drafts \in [Tickets -> DraftsUpTo(steps')] /\ sent \subseteq ChangesUpTo(steps')
    BY <1>rest, <1>grow DEF EditorSorts
  <2>2. [Texts -> 0..steps] \subseteq [Texts -> 0..steps']
    BY <1>rest, <1>grow
  <2>3. left \in [Tickets -> [Texts -> 0..steps']]
    BY <2>2 DEF EditorSorts
  <2> QED
    BY <2>1, <2>3
<1>send. ASSUME NEW c \in Tickets, NEW field \in Texts \cup {"status"}, NEW value, Send(c, field, value),
                field = "status" => value \in CardStatus, field \in Texts => value \in 0..steps,
                steps' \in 0..MaxSteps, steps <= steps'
         PROVE  sent' \subseteq ChangesUpTo(steps')
  <2> DEFINE new == [n |-> steps, of |-> c, field |-> field, value |-> value, at |-> "asked", line |-> saved[c], mine |-> TRUE]
  <2>1. saved[c] \in LinesUpTo(steps)
    BY DEF EditorSorts
  <2>2. CASE field = "status"
    <3>1. new \in [n : Nat, of : Tickets, field : {"status"}, value : CardStatus, at : {"asked", "served"},
                    line : LinesUpTo(steps), mine : BOOLEAN]
      BY <1>n, <1>send, <2>1, <2>2
    <3> QED
      BY <1>grow, <1>send, <3>1 DEF Send, ChangesUpTo, EditorSorts
  <2>3. CASE field \in Texts
    <3>1. new \in [n : Nat, of : Tickets, field : Texts, value : 0..steps, at : {"asked", "served"},
                    line : LinesUpTo(steps), mine : BOOLEAN]
      BY <1>n, <1>send, <2>1, <2>3
    <3> QED
      BY <1>grow, <1>send, <3>1 DEF Send, ChangesUpTo, EditorSorts
  <2> QED
    BY <1>send, <2>2, <2>3
<1>1. ASSUME NEW c \in Tickets, NEW f \in Texts, NEW text \in Blank..MaxSteps, Type(c, f, text)
      PROVE  EditorSorts'
  <2>1. /\ Step /\ UNCHANGED <<saved, shown, sent, left>> /\ drafts' = [drafts EXCEPT ![c][f] = text]
        /\ typing' = <<c, f>>
    BY <1>1 DEF Type
  <2>2. steps' \in 0..MaxSteps /\ steps <= steps' /\ steps' = steps + 1
    BY <1>step, <2>1
  <2>3. drafts[c].there
    BY <1>1 DEF Type, Writable, EditorTypeOK
  <2>4. drafts[c] \in [note : 0..steps, owner : Blank..steps, there : {TRUE}]
    <3>1. drafts[c] \in DraftsUpTo(steps)
      BY CardSorts
    <3>2. drafts[c] # NotMounted
      BY <2>3 DEF NotMounted
    <3> QED
      BY <3>1, <3>2 DEF DraftsUpTo
  <2>5. text = steps + 1 \/ (f = "owner" /\ text = Blank)
    BY <1>1 DEF Type
  <2>6. drafts[c].note \in 0..steps' /\ drafts[c].owner \in Blank..steps' /\ drafts[c].there = TRUE
    <3>1. drafts[c].note \in 0..steps /\ drafts[c].owner \in Blank..steps /\ drafts[c].there = TRUE
      BY <2>4
    <3> QED
      BY <1>n, <2>2, <3>1 DEF Blank
  <2>7. text \in Blank..steps' /\ (f = "note" => text \in 0..steps')
    BY <1>n, <2>2, <2>5 DEF Blank
  <2>8. [drafts[c] EXCEPT ![f] = text] \in [note : 0..steps', owner : Blank..steps', there : {TRUE}]
    <3>1. CASE f = "note"
      BY <2>4, <2>6, <2>7, <3>1
    <3>2. CASE f = "owner"
      BY <2>4, <2>6, <2>7, <3>2
    <3> QED
      BY <3>1, <3>2 DEF Texts
  <2>9. drafts' \in [Tickets -> DraftsUpTo(steps')]
    <3>1. drafts \in [Tickets -> DraftsUpTo(steps')]
      BY <1>rest, <2>2
    <3> DEFINE D == [drafts[c] EXCEPT ![f] = text]
    <3>2. D \in DraftsUpTo(steps')
      BY <2>8 DEF DraftsUpTo
    <3>3. drafts' = [drafts EXCEPT ![c] = D]
      BY <2>1
    <3> HIDE DEF D
    <3> QED
      BY <3>1, <3>2, <3>3
  <2> QED
    BY <1>rest, <2>1, <2>2, <2>9 DEF EditorSorts
<1>2. ASSUME NEW c \in Tickets, NEW f \in Texts, Visit(c, f)
      PROVE  EditorSorts'
  <2>1. Step /\ UNCHANGED <<saved, shown, drafts, sent, left>> /\ typing' = <<c, f>>
    BY <1>2 DEF Visit
  <2> QED
    BY <1>step, <1>rest, <2>1 DEF EditorSorts
<1>3. ASSUME Leave
      PROVE  EditorSorts'
  <2> DEFINE c == typing[1]
             f == typing[2]
             text == drafts[c][f]
  <2>1. c \in Tickets /\ f \in Texts
    BY <1>3 DEF Leave, EditorSorts
  <2>2. typing' = NoField /\ UNCHANGED <<saved, shown, drafts, steps>>
    BY <1>3 DEF Leave
  <2>3. steps' \in 0..MaxSteps /\ steps <= steps' /\ steps' = steps
    BY <1>same, <2>2
  <2>4. CASE UNCHANGED <<sent, left>>
    BY <1>rest, <2>2, <2>3, <2>4 DEF EditorSorts
  <2>5. CASE TextDiffers(f, text, c) /\ Send(c, f, text) /\ left' = [left EXCEPT ![c][f] = text]
    <3>1. text \in 0..steps
      <4>1. drafts[c].there /\ drafts[c].note \in 0..steps /\ text \in Blank..steps
        BY <1>3, <2>1, CardSorts DEF Leave, EditorTypeOK
      <4>2. f = "note" \/ (f = "owner" /\ text # Blank)
        BY <2>1, <2>5 DEF TextDiffers, Texts
      <4> QED
        BY <1>n, <4>1, <4>2 DEF Blank
    <3> HIDE DEF c, f, text
    <3>2. sent' \subseteq ChangesUpTo(steps')
      BY <1>send, <2>1, <2>3, <2>5, <3>1 DEF Texts
    <3>3. left' \in [Tickets -> [Texts -> 0..steps]]
      BY <2>1, <2>5, <3>1 DEF EditorSorts
    <3> QED
      BY <1>rest, <2>2, <2>3, <3>2, <3>3 DEF EditorSorts
  <2> QED
    BY <1>3, <2>4, <2>5 DEF Leave
<1>4. ASSUME NEW c \in Tickets, DoneOrReopen(c)
      PROVE  EditorSorts'
  <2>1. /\ Step /\ UNCHANGED <<saved, shown, drafts, typing, left>>
        /\ Send(c, "status", IF IsOpen(c) THEN "done" ELSE "open")
    BY <1>4 DEF DoneOrReopen
  <2>2. steps' \in 0..MaxSteps /\ steps <= steps'
    BY <1>step, <2>1
  <2>3. sent' \subseteq ChangesUpTo(steps')
    BY <1>send, <2>1, <2>2 DEF CardStatus, Texts
  <2> QED
    BY <1>rest, <2>1, <2>2, <2>3 DEF EditorSorts
<1>5. ASSUME NEW c \in Tickets, Rescan(c)
      PROVE  EditorSorts'
  <2>1. Step /\ UNCHANGED <<saved, shown, drafts, typing, sent, left>>
    BY <1>5 DEF Rescan
  <2> QED
    BY <1>step, <1>rest, <2>1 DEF EditorSorts
<1>6. ASSUME \/ \E t \in {"open", "done"} : ChooseTab(t)
             \/ \E color \in {"all", "red"}, owner \in Owners \cup {Blank} : ChooseFilter(color, owner)
      PROVE  EditorSorts'
  <2>1. Step /\ UNCHANGED <<saved, shown, sent, left>> /\ Mount(drafts)
    BY <1>6 DEF ChooseTab, ChooseFilter
  <2>2. steps' \in 0..MaxSteps /\ steps <= steps' /\ steps' \in Nat
    BY <1>step, <1>grow, <2>1
  <2>3. shown' \in [Tickets -> ShownUpTo(steps')]
    BY <1>rest, <2>1, <2>2
  <2> QED
    BY <1>rest, <2>1, <2>2, <2>3, MountSorts DEF EditorSorts
<1>7. ASSUME Reload
      PROVE  EditorSorts'
  <2>1. /\ Step /\ UNCHANGED saved /\ typing' = NoField
        /\ shown' = [c \in Tickets |-> TicketOf(saved[c])]
        /\ sent' = {[r EXCEPT !.mine = FALSE] : r \in {q \in sent : q.at = "asked"}}
        /\ left' = [c \in Tickets |-> [f \in Texts |-> saved[c][f]]]
        /\ drafts' = [c \in Tickets |-> IF c \in Filtered' THEN FreshDrafts(c)' ELSE NotMounted]
    BY <1>7 DEF Reload
  <2>2. steps' \in 0..MaxSteps /\ steps <= steps' /\ steps' \in Nat
    BY <1>step, <1>grow, <2>1
  <2>3. ASSUME NEW c \in Tickets
        PROVE  /\ saved[c] \in LinesUpTo(steps') /\ saved[c].status \in CardStatus
               /\ saved[c].note \in 0..steps' /\ saved[c].owner \in 0..steps'
    BY <1>rest, <2>2 DEF LinesUpTo
  <2>4. ASSUME NEW c \in Tickets
        PROVE  shown'[c] \in ShownUpTo(steps')
    <3>1. shown'[c] = [status |-> saved[c].status, note |-> saved[c].note, owner |-> saved[c].owner,
                       primary |-> saved[c].owner]
      BY <2>1 DEF TicketOf
    <3> QED
      BY <2>3, <3>1 DEF ShownUpTo
  <2>5. ASSUME NEW c \in Tickets
        PROVE  drafts'[c] \in DraftsUpTo(steps')
    <3>1. FreshDrafts(c)' = [note |-> shown'[c].note, owner |-> shown'[c].owner, there |-> TRUE]
      BY DEF FreshDrafts
    <3>2. shown'[c].note \in 0..steps' /\ shown'[c].owner \in Blank..steps'
      BY <2>2, <2>4 DEF ShownUpTo, Blank
    <3>3. FreshDrafts(c)' \in [note : 0..steps', owner : Blank..steps', there : {TRUE}]
      BY <3>1, <3>2
    <3> QED
      BY <2>1, <3>3 DEF DraftsUpTo
  <2>6. left' \in [Tickets -> [Texts -> 0..steps']]
    BY <2>1, <2>3 DEF Texts
  <2>7. ASSUME NEW r \in sent
        PROVE  [r EXCEPT !.mine = FALSE] \in ChangesUpTo(steps')
    <3>1. r \in ChangesUpTo(steps')
      BY <1>rest, <2>2
    <3> QED
      BY <3>1 DEF ChangesUpTo
  <2>8. shown' \in [Tickets -> ShownUpTo(steps')] /\ drafts' \in [Tickets -> DraftsUpTo(steps')]
    BY <2>1, <2>4, <2>5
  <2>9. sent' \subseteq ChangesUpTo(steps')
    BY <2>1, <2>7
  <2>10. saved' \in [Tickets -> LinesUpTo(steps')]
    BY <1>rest, <2>1, <2>2
  <2> QED
    BY <2>1, <2>2, <2>6, <2>8, <2>9, <2>10 DEF EditorSorts
<1>8. ASSUME NEW r \in sent, ServeChange(r)
      PROVE  EditorSorts'
  <2>1. /\ UNCHANGED <<shown, drafts, typing, steps, left>>
        /\ saved' = [saved EXCEPT ![r.of][r.field] = r.value]
        /\ sent' = (sent \ {r}) \cup
             (IF r.mine THEN {[r EXCEPT !.at = "served", !.line = saved'[r.of]]} ELSE {})
    BY <1>8 DEF ServeChange, Written
  <2>2. steps' \in 0..MaxSteps /\ steps <= steps' /\ steps' = steps
    BY <1>same, <2>1
  <2>3. /\ r.of \in Tickets /\ r.field \in Texts \cup {"status"}
        /\ (r.field = "status" => r.value \in CardStatus) /\ (r.field \in Texts => r.value \in 0..steps)
    BY ChangeSorts
  <2>4. [saved[r.of] EXCEPT ![r.field] = r.value] \in LinesUpTo(steps)
    <3>1. saved[r.of] \in LinesUpTo(steps)
      BY <2>3 DEF EditorSorts
    <3>2. CASE r.field = "status"
      BY <2>3, <3>1, <3>2 DEF LinesUpTo
    <3>3. CASE r.field = "note"
      BY <2>3, <3>1, <3>3 DEF LinesUpTo, Texts
    <3>4. CASE r.field = "owner"
      BY <2>3, <3>1, <3>4 DEF LinesUpTo, Texts
    <3> QED
      BY <2>3, <3>2, <3>3, <3>4 DEF Texts
  <2>5. saved' \in [Tickets -> LinesUpTo(steps)] /\ saved'[r.of] \in LinesUpTo(steps)
    BY <2>1, <2>3, <2>4 DEF EditorSorts
  <2>6. [r EXCEPT !.at = "served", !.line = saved'[r.of]] \in ChangesUpTo(steps)
    <3> DEFINE line == saved'[r.of]
    <3>1. line \in LinesUpTo(steps) /\ r \in ChangesUpTo(steps)
      BY <2>5 DEF EditorSorts
    <3> HIDE DEF line
    <3>2. [r EXCEPT !.at = "served", !.line = line] \in ChangesUpTo(steps)
      BY <3>1 DEF ChangesUpTo
    <3> QED
      BY <3>2 DEF line
  <2>7. sent' \subseteq ChangesUpTo(steps)
    BY <2>1, <2>6 DEF EditorSorts
  <2> QED
    BY <2>1, <2>2, <2>5, <2>7 DEF EditorSorts
<1>9. ASSUME NEW r \in sent, Receive(r)
      PROVE  EditorSorts'
  <2>1. /\ UNCHANGED <<saved, steps, left>> /\ sent' = sent \ {r}
        /\ shown' = [shown EXCEPT ![r.of] = TakenOver(r)] /\ Mount(drafts)
    BY <1>9 DEF Receive
  <2>2. steps' \in 0..MaxSteps /\ steps <= steps' /\ steps' = steps
    BY <1>same, <2>1
  <2>3. r.of \in Tickets /\ r.line \in LinesUpTo(steps)
    BY ChangeSorts
  <2>4. TakenOver(r) \in ShownUpTo(steps)
    <3>1. shown[r.of] \in ShownUpTo(steps)
      BY <2>3 DEF EditorSorts
    <3> QED
      BY <2>3, <3>1 DEF TakenOver, ShownUpTo, LinesUpTo
  <2>5. shown' \in [Tickets -> ShownUpTo(steps')]
    BY <2>1, <2>2, <2>3, <2>4 DEF EditorSorts
  <2> QED
    BY <1>n, <1>rest, <2>1, <2>2, <2>5, MountSorts DEF EditorSorts
<1>10. ASSUME NEW r \in sent, Lose(r)
       PROVE  EditorSorts'
  <2>1. UNCHANGED <<saved, shown, drafts, typing, steps, left>> /\ sent' = sent \ {r}
    BY <1>10 DEF Lose
  <2> QED
    BY <2>1 DEF EditorSorts
<1> QED
  BY <1>1, <1>2, <1>3, <1>4, <1>5, <1>6, <1>7, <1>8, <1>9, <1>10 DEF EditorNext

-----------------------------------------------------------------------------
(* EditorTypeOK is kept.                                                   *)

(* After mounting, the cards that the filter shows are the mounted ones.   *)
LEMMA MountThere ==
  ASSUME EditorSorts, Mount(drafts)
  PROVE  /\ \A c \in Tickets : drafts'[c].there <=> c \in Filtered'
         /\ typing' # NoField => drafts'[typing'[1]].there
<1>1. ASSUME NEW c \in Tickets
      PROVE  drafts'[c].there <=> c \in Filtered'
  <2>1. drafts[c].there \in BOOLEAN
    BY CardSorts
  <2>2. drafts'[c] = IF c \notin Filtered' THEN NotMounted ELSE IF drafts[c].there THEN drafts[c] ELSE FreshDrafts(c)'
    BY DEF Mount
  <2>3. FreshDrafts(c)'.there = TRUE /\ NotMounted.there = FALSE
    BY DEF FreshDrafts, NotMounted
  <2> QED
    BY <2>1, <2>2, <2>3
<1>2. ASSUME typing' # NoField
      PROVE  typing'[1] \in Tickets /\ typing'[1] \in Filtered'
  BY <1>2 DEF Mount, Filtered
<1> QED
  BY <1>1, <1>2

(* Every step keeps the type invariant.                                    *)
LEMMA TypeStep ==
  ASSUME EditorSorts, EditorSorts', EditorTypeOK, EditorNext
  PROVE  EditorTypeOK'
<1> DEFINE There == \A c \in Tickets : drafts[c].there <=> c \in Filtered
           Typed == typing # NoField => drafts[typing[1]].there
           BusyIs == busyCard # NoTicket => \E r \in sent : r.of = busyCard /\ r.mine
<1>0. There /\ Typed /\ BusyIs
  <2>1. There
    BY DEF EditorTypeOK
  <2>2. Typed
    BY DEF EditorTypeOK
  <2>3. BusyIs
    BY DEF EditorTypeOK
  <2> QED
    BY <2>1, <2>2, <2>3
<1>numbers. \A c \in Tickets : saved'[c].owner \in 0..MaxSteps /\ saved'[c].note \in 0..MaxSteps
  <2>1. steps' \in 0..MaxSteps /\ \A c \in Tickets : saved'[c] \in LinesUpTo(steps')
    BY DEF EditorSorts
  <2> QED
    BY EditorAssumption, <2>1 DEF LinesUpTo
<1>at. \A r \in sent' : r.mine => r.at \in {"asked", "served"}
  BY DEF EditorSorts, ChangesUpTo
<1>enough. ASSUME There', Typed', BusyIs'
           PROVE  EditorTypeOK'
  BY <1>enough, <1>numbers, <1>at DEF EditorTypeOK
<1>filter. ASSUME UNCHANGED <<shown, tab, colorFilter, ownerFilter>>
           PROVE  Filtered' = Filtered
  BY <1>filter DEF Filtered, IsOpen
<1>listed. ASSUME NEW c, c \in Filtered
           PROVE  c \in Tickets
  BY <1>listed DEF Filtered
<1>send. ASSUME NEW c, NEW field, NEW value, Send(c, field, value)
         PROVE  BusyIs'
  <2> DEFINE new == [n |-> steps, of |-> c, field |-> field, value |-> value, at |-> "asked", line |-> saved[c], mine |-> TRUE]
  <2>1. new \in sent' /\ busyCard' = c
    BY <1>send DEF Send
  <2>2. new.of = c /\ new.mine
    OBVIOUS
  <2> HIDE DEF new
  <2> QED
    BY <2>1, <2>2
<1>1. ASSUME NEW c \in Tickets, NEW f \in Texts, NEW text, Type(c, f, text)
      PROVE  EditorTypeOK'
  <2>1. /\ UNCHANGED <<shown, tab, colorFilter, ownerFilter, sent, busyCard>>
        /\ drafts' = [drafts EXCEPT ![c][f] = text] /\ typing' = <<c, f>> /\ c \in Filtered
    BY <1>1 DEF Type, Writable
  <2>2. drafts \in [Tickets -> DraftsUpTo(steps)]
    BY DEF EditorSorts
  <2>3. \A d \in Tickets : drafts'[d].there = drafts[d].there
    <3>1. drafts'[c] = [drafts[c] EXCEPT ![f] = text] /\ \A d \in Tickets : d # c => drafts'[d] = drafts[d]
      BY <2>1, <2>2
    <3>2. f # "there"
      BY DEF Texts
    <3>3. drafts[c] \in DraftsUpTo(steps)
      BY <2>2
    <3>4. [drafts[c] EXCEPT ![f] = text].there = drafts[c].there
      <4>1. CASE drafts[c] = NotMounted
        BY <3>2, <4>1 DEF NotMounted
      <4>2. CASE drafts[c] \in [note : 0..steps, owner : Blank..steps, there : {TRUE}]
        BY <3>2, <4>2
      <4> QED
        BY <3>3, <4>1, <4>2 DEF DraftsUpTo
    <3> QED
      BY <3>1, <3>4
  <2>4. There'
    BY <1>0, <1>filter, <2>1, <2>3
  <2>5. Typed'
    <3>1. typing'[1] = c
      BY <2>1
    <3>2. drafts[c].there
      BY <1>0, <2>1
    <3> QED
      BY <2>3, <3>1, <3>2
  <2> QED
    BY <1>0, <1>enough, <2>1, <2>4, <2>5
<1>2. ASSUME NEW c \in Tickets, NEW f \in Texts, Visit(c, f)
      PROVE  EditorTypeOK'
  <2>1. /\ UNCHANGED <<shown, tab, colorFilter, ownerFilter, sent, busyCard, drafts>>
        /\ typing' = <<c, f>> /\ c \in Filtered
    BY <1>2 DEF Visit, Writable
  <2>2. Typed'
    <3>1. typing'[1] = c
      BY <2>1
    <3> QED
      BY <1>0, <2>1, <3>1
  <2> QED
    BY <1>0, <1>enough, <1>filter, <2>1, <2>2
<1>3. ASSUME Leave
      PROVE  EditorTypeOK'
  <2>1. UNCHANGED <<shown, tab, colorFilter, ownerFilter, drafts>> /\ typing' = NoField
    BY <1>3 DEF Leave
  <2>2. BusyIs'
    <3>1. UNCHANGED <<sent, busyCard>> \/ \E c, f, text : Send(c, f, text)
      BY <1>3 DEF Leave
    <3> QED
      BY <1>0, <1>send, <3>1
  <2> QED
    BY <1>0, <1>enough, <1>filter, <2>1, <2>2
<1>4. ASSUME NEW c \in Tickets, DoneOrReopen(c)
      PROVE  EditorTypeOK'
  <2>1. UNCHANGED <<shown, tab, colorFilter, ownerFilter, drafts, typing>>
    BY <1>4 DEF DoneOrReopen
  <2>2. BusyIs'
    BY <1>4, <1>send DEF DoneOrReopen
  <2> QED
    BY <1>0, <1>enough, <1>filter, <2>1, <2>2
<1>5. ASSUME NEW c \in Tickets, Rescan(c)
      PROVE  EditorTypeOK'
  <2>1. UNCHANGED <<shown, tab, colorFilter, ownerFilter, drafts, typing, sent, busyCard>>
    BY <1>5 DEF Rescan
  <2> QED
    BY <1>0, <1>enough, <1>filter, <2>1
<1>6. ASSUME \/ \E t \in {"open", "done"} : ChooseTab(t)
             \/ \E color \in {"all", "red"}, owner \in Owners \cup {Blank} : ChooseFilter(color, owner)
      PROVE  EditorTypeOK'
  <2>1. Mount(drafts) /\ UNCHANGED <<sent, busyCard>>
    BY <1>6 DEF ChooseTab, ChooseFilter
  <2> QED
    BY <1>0, <1>enough, <2>1, MountThere
<1>7. ASSUME Reload
      PROVE  EditorTypeOK'
  <2>1. /\ typing' = NoField /\ busyCard' = NoTicket
        /\ drafts' = [c \in Tickets |-> IF c \in Filtered' THEN FreshDrafts(c)' ELSE NotMounted]
    BY <1>7 DEF Reload
  <2>2. ASSUME NEW c \in Tickets
        PROVE  drafts'[c].there <=> c \in Filtered'
    <3>1. FreshDrafts(c)'.there = TRUE /\ NotMounted.there = FALSE
      BY DEF FreshDrafts, NotMounted
    <3> QED
      BY <2>1, <3>1
  <2> QED
    BY <1>enough, <2>1, <2>2
<1>8. ASSUME NEW r \in sent, ServeChange(r)
      PROVE  EditorTypeOK'
  <2>1. /\ UNCHANGED <<shown, tab, colorFilter, ownerFilter, drafts, typing, busyCard>>
        /\ sent' = (sent \ {r}) \cup
             (IF r.mine THEN {[r EXCEPT !.at = "served", !.line = saved'[r.of]]} ELSE {})
    BY <1>8 DEF ServeChange
  <2>2. ASSUME busyCard # NoTicket
        PROVE  \E q \in sent' : q.of = busyCard /\ q.mine
    <3>1. PICK q \in sent : q.of = busyCard /\ q.mine
      BY <1>0, <2>2
    <3>2. CASE q # r
      BY <2>1, <3>1, <3>2
    <3>3. CASE q = r
      <4> DEFINE next == [r EXCEPT !.at = "served", !.line = saved'[r.of]]
      <4>1. r \in ChangesUpTo(steps)
        BY DEF EditorSorts
      <4>2. next.of = r.of /\ next.mine = r.mine
        BY <4>1 DEF ChangesUpTo
      <4>3. next \in sent'
        BY <2>1, <3>1, <3>3
      <4> QED
        BY <3>1, <3>3, <4>2, <4>3
    <3> QED
      BY <3>2, <3>3
  <2> QED
    BY <1>0, <1>enough, <1>filter, <2>1, <2>2
<1>9. ASSUME NEW r \in sent, Receive(r)
      PROVE  EditorTypeOK'
  <2>1. Mount(drafts) /\ busyCard' = NoTicket
    BY <1>9 DEF Receive
  <2> QED
    BY <1>enough, <2>1, MountThere
<1>10. ASSUME NEW r \in sent, Lose(r)
       PROVE  EditorTypeOK'
  <2>1. /\ UNCHANGED <<shown, tab, colorFilter, ownerFilter, drafts, typing>> /\ sent' = sent \ {r}
        /\ busyCard' = (IF r.mine THEN NoTicket ELSE busyCard)
    BY <1>10 DEF Lose
  <2>2. BusyIs'
    BY <1>0, <2>1
  <2> QED
    BY <1>0, <1>enough, <1>filter, <2>1, <2>2
<1> QED
  BY <1>1, <1>2, <1>3, <1>4, <1>5, <1>6, <1>7, <1>8, <1>9, <1>10 DEF EditorNext

-----------------------------------------------------------------------------
(* A card that stays undisturbed was undisturbed, but for a reload.        *)

(* A card that stays undisturbed was undisturbed, but for a reload.        *)
LEMMA StaysUndisturbed ==
  ASSUME EditorNext, ~Reload, NEW c, ~CardDisturbed(c)'
  PROVE  ~CardDisturbed(c)
<1>1. missed \subseteq missed' /\ crossed \subseteq crossed' /\ remounted \subseteq remounted'
  BY DEF EditorNext, Type, Visit, Leave, Send, DoneOrReopen, Rescan, ChooseTab, ChooseFilter, ServeChange,
         Receive, Lose, Mount
<1> QED
  BY <1>1 DEF CardDisturbed

(* What a request tells of a card depends on the card's line and on its    *)
(* requests.                                                               *)
LEMMA TellsTheSame ==
  ASSUME NEW c, OneRequest(c), RequestTells(c), saved'[c] = saved[c], left'[c] = left[c], shown'[c] = shown[c],
         \A r : r.of = c => (r \in sent' <=> r \in sent)
  PROVE  OneRequest(c)' /\ RequestTells(c)'
<1>1. OneRequest(c)'
  BY DEF OneRequest
<1>2. UnderWay(c)' <=> UnderWay(c)
  BY DEF UnderWay
<1>3. (ShownIsSaved(c)' <=> ShownIsSaved(c)) /\ (SavedIsLeft(c)' <=> SavedIsLeft(c))
  BY DEF ShownIsSaved, SavedIsLeft
<1>4. RequestTells(c)'
  BY <1>2, <1>3 DEF RequestTells
<1> QED
  BY <1>1, <1>4

(* A change that is sent is what its card says of it.                      *)
LEMMA SendTells ==
  ASSUME NEW c \in Tickets, NEW field, NEW value, Send(c, field, value), UNCHANGED <<saved, shown>>,
         RequestTells(c), c \notin crossed',
         \A f \in Texts : left'[c][f] = IF field = f THEN value ELSE left[c][f]
  PROVE  OneRequest(c)' /\ RequestTells(c)'
<1> DEFINE new == [n |-> steps, of |-> c, field |-> field, value |-> value, at |-> "asked", line |-> saved[c], mine |-> TRUE]
<1>1. ~UnderWay(c) /\ sent' = sent \cup {new}
  BY DEF Send
<1>2. \A r \in sent' : r.of = c => r = new
  BY <1>1 DEF UnderWay
<1>3. new.of = c /\ new.mine /\ new.at = "asked" /\ new.field = field /\ new.value = value /\ new \in sent'
  BY <1>1
<1>4. ShownIsSaved(c)' /\ SavedIsLeft(c)
  BY <1>1 DEF RequestTells, ShownIsSaved
<1> HIDE DEF new
<1>5. OneRequest(c)'
  BY <1>2, <1>3 DEF OneRequest
<1>6. UnderWay(c)'
  BY <1>3 DEF UnderWay
<1>7. \A f \in Texts : left'[c][f] = IF new.field = f THEN new.value ELSE saved'[c][f]
  BY <1>3, <1>4 DEF SavedIsLeft
<1>8. RequestTells(c)'
  BY <1>2, <1>3, <1>4, <1>6, <1>7 DEF RequestTells
<1> QED
  BY <1>5, <1>8

(* Every step keeps what lines, cards and requests say of each other.      *)
LEMMA LogStep ==
  ASSUME EditorSorts, EditorNext, NEW c \in Tickets, ~CardDisturbed(c)',
         ~CardDisturbed(c) => OneRequest(c) /\ RequestTells(c)
  PROVE  OneRequest(c)' /\ RequestTells(c)'
<1>before. ASSUME ~Reload
           PROVE  OneRequest(c) /\ RequestTells(c)
  BY <1>before, StaysUndisturbed
<1>still. ASSUME ~Reload, UNCHANGED <<saved, shown, sent, left>>
          PROVE  OneRequest(c)' /\ RequestTells(c)'
  BY <1>before, <1>still, TellsTheSame
<1>1. CASE Reload
  <2>1. /\ sent' = {[r EXCEPT !.mine = FALSE] : r \in {q \in sent : q.at = "asked"}}
        /\ missed' = {r.of : r \in sent'} /\ UNCHANGED saved
        /\ shown' = [d \in Tickets |-> TicketOf(saved[d])]
        /\ left' = [d \in Tickets |-> [f \in Texts |-> saved[d][f]]]
    BY <1>1 DEF Reload
  <2>2. \A r \in sent' : r.of # c
    BY <2>1 DEF CardDisturbed
  <2>3. ~UnderWay(c)' /\ OneRequest(c)'
    BY <2>2 DEF UnderWay, OneRequest
  <2>4. shown'[c] = [status |-> saved[c].status, note |-> saved[c].note, owner |-> saved[c].owner,
                     primary |-> saved[c].owner]
    BY <2>1 DEF TicketOf
  <2>5. ShownIsSaved(c)' /\ SavedIsLeft(c)'
    BY <2>1, <2>4 DEF ShownIsSaved, SavedIsLeft, Texts
  <2> QED
    BY <2>2, <2>3, <2>5 DEF RequestTells
<1>2. CASE \/ \E d \in Tickets, f \in Texts : (\E text \in Blank..MaxSteps : Type(d, f, text)) \/ Visit(d, f)
           \/ \E d \in Tickets : Rescan(d)
           \/ \E t \in {"open", "done"} : ChooseTab(t)
           \/ \E color \in {"all", "red"}, owner \in Owners \cup {Blank} : ChooseFilter(color, owner)
  <2>1. UNCHANGED <<saved, shown, sent, left>>
    BY <1>2 DEF Type, Visit, Rescan, ChooseTab, ChooseFilter
  <2> QED
    BY <1>1, <1>still, <2>1
<1>3. CASE Leave /\ ~Reload
  <2> DEFINE d == typing[1]
             f == typing[2]
             text == drafts[d][f]
  <2>1. UNCHANGED <<saved, shown>> /\ d \in Tickets /\ f \in Texts
    BY <1>3 DEF Leave, EditorSorts
  <2>2. CASE UNCHANGED <<sent, left>>
    BY <1>3, <1>still, <2>1, <2>2
  <2>3. CASE Send(d, f, text) /\ left' = [left EXCEPT ![d][f] = text]
    <3> HIDE DEF d, f, text
    <3>1. CASE d = c
      <4>1. c \notin crossed'
        BY DEF CardDisturbed
      <4>2. \A g \in Texts : left'[c][g] = IF f = g THEN text ELSE left[c][g]
        BY <2>1, <2>3, <3>1 DEF EditorSorts
      <4> QED
        BY <1>3, <1>before, <2>1, <2>3, <3>1, <4>1, <4>2, SendTells
    <3>2. CASE d # c
      <4>1. left'[c] = left[c]
        BY <2>1, <2>3, <3>2 DEF EditorSorts
      <4>2. \A r : r.of = c => (r \in sent' <=> r \in sent)
        BY <2>3, <3>2 DEF Send
      <4> QED
        BY <1>3, <1>before, <2>1, <4>1, <4>2, TellsTheSame
    <3> QED
      BY <3>1, <3>2
  <2> QED
    BY <1>3, <2>2, <2>3 DEF Leave
<1>4. CASE (\E d \in Tickets : DoneOrReopen(d)) /\ ~Reload
  <2>1. PICK d \in Tickets : DoneOrReopen(d)
    BY <1>4
  <2> DEFINE value == IF IsOpen(d) THEN "done" ELSE "open"
  <2>2. UNCHANGED <<saved, shown, left>> /\ Send(d, "status", value)
    BY <2>1 DEF DoneOrReopen
  <2> HIDE DEF value
  <2>3. CASE d = c
    <3>1. c \notin crossed' /\ \A g \in Texts : left'[c][g] = IF "status" = g THEN value ELSE left[c][g]
      BY <2>2 DEF CardDisturbed, Texts
    <3> QED
      BY <1>4, <1>before, <2>2, <2>3, <3>1, SendTells
  <2>4. CASE d # c
    <3>1. \A r : r.of = c => (r \in sent' <=> r \in sent)
      BY <2>2, <2>4 DEF Send
    <3> QED
      BY <1>4, <1>before, <2>2, <3>1, TellsTheSame
  <2> QED
    BY <2>3, <2>4
<1>5. CASE (\E r \in sent : ServeChange(r)) /\ ~Reload
  <2>1. PICK r \in sent : ServeChange(r)
    BY <1>5
  <2> DEFINE next == [r EXCEPT !.at = "served", !.line = saved'[r.of]]
  <2>2. /\ r.at = "asked" /\ UNCHANGED <<shown, left>>
        /\ saved' = [saved EXCEPT ![r.of][r.field] = r.value]
        /\ sent' = (sent \ {r}) \cup (IF r.mine THEN {next} ELSE {})
    BY <2>1 DEF ServeChange, Written
  <2>3. r \in ChangesUpTo(steps) /\ r.of \in Tickets
    BY ChangeSorts DEF EditorSorts
  <2>4. next.of = r.of /\ next.mine = r.mine /\ next.at = "served" /\ next.line = saved'[r.of]
    BY <2>3 DEF ChangesUpTo
  <2> HIDE DEF next
  <2>5. CASE r.of = c
    <3>1. r.mine /\ \A q \in sent : q.of = c => q = r
      BY <1>5, <1>before, <2>5 DEF OneRequest
    <3>2. \A q \in sent' : q.of = c => q = next
      BY <2>2, <3>1
    <3>3. next \in sent' /\ next.of = c
      BY <2>2, <2>4, <2>5, <3>1
    <3>4. OneRequest(c)' /\ UnderWay(c)'
      BY <2>4, <3>1, <3>2, <3>3 DEF OneRequest, UnderWay
    <3>5. \A f \in Texts : left[c][f] = IF r.field = f THEN r.value ELSE saved[c][f]
      BY <1>5, <1>before, <2>2, <2>5 DEF RequestTells
    <3>6. \A f \in Texts : saved'[c][f] = IF r.field = f THEN r.value ELSE saved[c][f]
      <4>1. saved[c] \in LinesUpTo(steps) /\ saved'[c] = [saved[c] EXCEPT ![r.field] = r.value]
        BY <2>2, <2>5 DEF EditorSorts
      <4> QED
        BY <4>1 DEF LinesUpTo, Texts
    <3>7. SavedIsLeft(c)'
      BY <2>2, <3>5, <3>6 DEF SavedIsLeft
    <3> QED
      BY <2>4, <2>5, <3>2, <3>4, <3>7 DEF RequestTells
  <2>6. CASE r.of # c
    <3>1. saved'[c] = saved[c]
      BY <2>2, <2>6 DEF EditorSorts
    <3>2. \A q : q.of = c => (q \in sent' <=> q \in sent)
      BY <2>2, <2>4, <2>6
    <3> QED
      BY <1>5, <1>before, <2>2, <3>1, <3>2, TellsTheSame
  <2> QED
    BY <2>5, <2>6
<1>6. CASE (\E r \in sent : Receive(r)) /\ ~Reload
  <2>1. PICK r \in sent : Receive(r)
    BY <1>6
  <2>2. /\ r.at = "served" /\ UNCHANGED <<saved, left>> /\ sent' = sent \ {r}
        /\ shown' = [shown EXCEPT ![r.of] = TakenOver(r)]
    BY <2>1 DEF Receive
  <2>3. r.of \in Tickets
    BY ChangeSorts
  <2>4. CASE r.of = c
    <3>1. \A q \in sent' : q.of # c
      BY <1>6, <1>before, <2>2, <2>4 DEF OneRequest
    <3>2. ~UnderWay(c)' /\ OneRequest(c)'
      BY <3>1 DEF UnderWay, OneRequest
    <3>3. r.line = saved[c] /\ SavedIsLeft(c)
      BY <1>6, <1>before, <2>2, <2>4 DEF RequestTells
    <3>4. shown[c] \in ShownUpTo(steps) /\ shown'[c] = TakenOver(r)
      BY <2>2, <2>4 DEF EditorSorts
    <3>5. ShownIsSaved(c)'
      <4>1. shown'[c].status = r.line.status /\ shown'[c].note = r.line.note /\ shown'[c].owner = r.line.owner
        BY <2>4, <3>4 DEF TakenOver, ShownUpTo
      <4> QED
        BY <2>2, <3>3, <4>1 DEF ShownIsSaved, Texts
    <3>6. SavedIsLeft(c)'
      BY <2>2, <3>3 DEF SavedIsLeft
    <3> QED
      BY <3>1, <3>2, <3>5, <3>6 DEF RequestTells
  <2>5. CASE r.of # c
    <3>1. shown'[c] = shown[c]
      BY <2>2, <2>5 DEF EditorSorts
    <3>2. \A q : q.of = c => (q \in sent' <=> q \in sent)
      BY <2>2, <2>5
    <3> QED
      BY <1>6, <1>before, <2>2, <3>1, <3>2, TellsTheSame
  <2> QED
    BY <2>4, <2>5
<1>7. CASE (\E r \in sent : Lose(r)) /\ ~Reload
  <2>1. PICK r \in sent : Lose(r)
    BY <1>7
  <2>2. UNCHANGED <<saved, shown, left>> /\ sent' = sent \ {r} /\ r.of # c
    BY <2>1 DEF Lose, CardDisturbed
  <2>3. \A q : q.of = c => (q \in sent' <=> q \in sent)
    BY <2>2
  <2> QED
    BY <1>7, <1>before, <2>2, <2>3, TellsTheSame
<1> QED
  BY <1>1, <1>2, <1>3, <1>4, <1>5, <1>6, <1>7 DEF EditorNext

-----------------------------------------------------------------------------
(* The drafts.                                                             *)

(* Mounting keeps the drafts in line with what was left.                   *)
LEMMA MountKeepsDrafts ==
  ASSUME EditorSorts, NEW c \in Tickets, Mount(drafts), RequestTells(c)', c \notin remounted', left'[c] = left[c],
         DraftIsLeft(c), shown'[c] = shown[c] \/ ~UnderWay(c)'
  PROVE  DraftIsLeft(c)'
<1>1. /\ drafts'[c] = IF c \notin Filtered' THEN NotMounted ELSE IF drafts[c].there THEN drafts[c] ELSE FreshDrafts(c)'
      /\ typing' = IF typing[1] \in Filtered' THEN typing ELSE NoField
      /\ c \in Filtered' => drafts[c].there \/ ~UnderWay(c)'
  <2>1. drafts[c].there \in BOOLEAN
    BY CardSorts
  <2> QED
    BY <2>1 DEF Mount
<1>2. ~UnderWay(c)' => \A f \in Texts : shown'[c][f] = left'[c][f]
  BY DEF RequestTells, ShownIsSaved, SavedIsLeft
<1>3. CASE c \notin Filtered'
  BY <1>1, <1>3 DEF NotMounted, DraftIsLeft
<1>4. CASE c \in Filtered' /\ drafts[c].there
  <2>1. drafts'[c] = drafts[c]
    BY <1>1, <1>4
  <2>2. ASSUME NEW f \in Texts
        PROVE  \/ drafts'[c][f] = left'[c][f]
               \/ f = "owner" /\ drafts'[c][f] = Blank
               \/ typing' = <<c, f>> /\ drafts'[c][f] # shown'[c][f]
    <3>1. CASE typing = <<c, f>> /\ drafts[c][f] # shown[c][f]
      <4>1. typing' = <<c, f>>
        BY <1>1, <1>4, <3>1
      <4> QED
        BY <1>2, <2>1, <3>1, <4>1
    <3>2. CASE drafts[c][f] = left[c][f] \/ (f = "owner" /\ drafts[c][f] = Blank)
      BY <2>1, <3>2
    <3> QED
      BY <1>4, <3>1, <3>2 DEF DraftIsLeft
  <2> QED
    BY <2>2 DEF DraftIsLeft
<1>5. CASE c \in Filtered' /\ ~drafts[c].there
  <2>1. drafts'[c] = FreshDrafts(c)' /\ ~UnderWay(c)'
    BY <1>1, <1>5
  <2>2. \A f \in Texts : drafts'[c][f] = shown'[c][f]
    BY <2>1 DEF FreshDrafts, Texts
  <2> QED
    BY <1>2, <2>1, <2>2 DEF DraftIsLeft
<1> QED
  BY <1>3, <1>4, <1>5

(* Every step keeps the drafts in line with what was left.                 *)
LEMMA DraftStep ==
  ASSUME EditorSorts, EditorTypeOK, EditorNext, NEW c \in Tickets, ~CardDisturbed(c)',
         RequestTells(c)', ~CardDisturbed(c) => OneRequest(c) /\ DraftIsLeft(c)
  PROVE  DraftIsLeft(c)'
<1>before. ASSUME ~Reload
           PROVE  OneRequest(c) /\ DraftIsLeft(c)
  BY <1>before, StaysUndisturbed
<1>still. ASSUME ~Reload, drafts'[c] = drafts[c], left'[c] = left[c], shown'[c] = shown[c],
                 typing' = typing \/ (\A f \in Texts : typing # <<c, f>>)
          PROVE  DraftIsLeft(c)'
  BY <1>before, <1>still DEF DraftIsLeft
<1>nofield. \A f \in Texts : NoField # <<c, f>>
  BY DEF NoField, Texts
<1>1. CASE Reload
  <2>1. /\ UNCHANGED saved /\ shown' = [d \in Tickets |-> TicketOf(saved[d])]
        /\ left' = [d \in Tickets |-> [f \in Texts |-> saved[d][f]]]
        /\ drafts' = [d \in Tickets |-> IF d \in Filtered' THEN FreshDrafts(d)' ELSE NotMounted]
    BY <1>1 DEF Reload
  <2>2. CASE c \in Filtered'
    <3>1. shown'[c].note = saved[c].note /\ shown'[c].owner = saved[c].owner
      BY <2>1 DEF TicketOf
    <3>2. drafts'[c].note = shown'[c].note /\ drafts'[c].owner = shown'[c].owner
      BY <2>1, <2>2 DEF FreshDrafts
    <3>3. \A f \in Texts : drafts'[c][f] = left'[c][f]
      BY <2>1, <3>1, <3>2 DEF Texts
    <3> QED
      BY <3>3 DEF DraftIsLeft
  <2>3. CASE c \notin Filtered'
    BY <2>1, <2>3 DEF NotMounted, DraftIsLeft
  <2> QED
    BY <2>2, <2>3
<1>2. ASSUME NEW d \in Tickets, NEW g \in Texts, NEW text, Type(d, g, text), ~Reload
      PROVE  DraftIsLeft(c)'
  <2>1. /\ UNCHANGED <<shown, left>> /\ typing \in {NoField, <<d, g>>} /\ typing' = <<d, g>>
        /\ drafts' = [drafts EXCEPT ![d][g] = text] /\ d \in Filtered
        /\ text = steps + 1 \/ (g = "owner" /\ text = Blank)
    BY <1>2 DEF Type, Writable
  <2>2. CASE d # c
    <3>1. drafts'[c] = drafts[c]
      BY <2>1, <2>2 DEF EditorSorts
    <3>2. \A f \in Texts : typing # <<c, f>>
      BY <1>nofield, <2>1, <2>2
    <3> QED
      BY <1>2, <1>still, <2>1, <3>1, <3>2
  <2>3. CASE d = c
    <3>1. drafts[c].there
      BY <2>1, <2>3 DEF EditorTypeOK
    <3>2. drafts[c] \in [note : 0..steps, owner : Blank..steps, there : {TRUE}]
      <4>1. drafts[c] \in DraftsUpTo(steps) /\ drafts[c] # NotMounted
        BY <3>1, CardSorts DEF NotMounted
      <4> QED
        BY <4>1 DEF DraftsUpTo
    <3>3. drafts'[c] = [drafts[c] EXCEPT ![g] = text]
      BY <2>1, <2>3 DEF EditorSorts
    <3>4. drafts'[c][g] = text /\ \A f \in Texts : f # g => drafts'[c][f] = drafts[c][f]
      BY <3>2, <3>3 DEF Texts
    <3>5. shown[c][g] \in 0..steps /\ steps \in Nat
      BY EditorAssumption, CardSorts DEF EditorSorts
    <3>6. drafts'[c][g] # shown'[c][g] \/ (g = "owner" /\ drafts'[c][g] = Blank)
      BY <2>1, <3>4, <3>5
    <3>7. ASSUME NEW f \in Texts, f # g
          PROVE  drafts'[c][f] = left'[c][f] \/ (f = "owner" /\ drafts'[c][f] = Blank)
      <4>1. typing # <<c, f>>
        BY <1>nofield, <2>1, <3>7
      <4> QED
        BY <1>2, <1>before, <2>1, <3>1, <3>4, <3>7, <4>1 DEF DraftIsLeft
    <3> QED
      BY <2>1, <2>3, <3>6, <3>7 DEF DraftIsLeft
  <2> QED
    BY <2>2, <2>3
<1>3. ASSUME NEW d \in Tickets, NEW g \in Texts, Visit(d, g), ~Reload
      PROVE  DraftIsLeft(c)'
  <2>1. UNCHANGED <<shown, left, drafts>> /\ typing = NoField
    BY <1>3 DEF Visit
  <2> QED
    BY <1>3, <1>nofield, <1>still, <2>1
<1>4. CASE Leave /\ ~Reload
  <2> DEFINE d == typing[1]
             g == typing[2]
             text == drafts[d][g]
  <2>1. UNCHANGED <<shown, drafts>> /\ d \in Tickets /\ g \in Texts /\ typing = <<d, g>>
    BY <1>4 DEF Leave, EditorSorts
  <2>2. \/ TextDiffers(g, text, d) /\ left' = [left EXCEPT ![d][g] = text]
        \/ ~TextDiffers(g, text, d) /\ UNCHANGED left
    BY <1>4 DEF Leave
  <2>3. CASE d # c
    <3>1. left'[c] = left[c]
      BY <2>1, <2>2, <2>3 DEF EditorSorts
    <3>2. \A f \in Texts : typing # <<c, f>>
      BY <2>1, <2>3
    <3> QED
      BY <1>4, <1>still, <2>1, <3>1, <3>2
  <2>4. CASE d = c
    <3>1. ASSUME NEW f \in Texts, f # g, drafts[c].there
          PROVE  drafts'[c][f] = left'[c][f] \/ (f = "owner" /\ drafts'[c][f] = Blank)
      <4>1. typing # <<c, f>>
        BY <2>1, <3>1
      <4>2. left'[c][f] = left[c][f]
        BY <2>1, <2>2, <3>1 DEF EditorSorts
      <4> QED
        BY <1>4, <1>before, <2>1, <3>1, <4>1, <4>2 DEF DraftIsLeft
    <3>2. ASSUME drafts[c].there
          PROVE  drafts'[c][g] = left'[c][g] \/ (g = "owner" /\ drafts'[c][g] = Blank)
      <4>1. CASE TextDiffers(g, text, d) /\ left' = [left EXCEPT ![d][g] = text]
        <5>1. left'[c][g] = text
          BY <2>1, <2>4, <4>1 DEF EditorSorts
        <5> QED
          BY <2>1, <2>4, <5>1
      <4>2. CASE ~TextDiffers(g, text, d) /\ UNCHANGED left
        <5>1. drafts[c][g] = shown[c][g] \/ (g = "owner" /\ drafts[c][g] = Blank)
          BY <2>4, <4>2 DEF TextDiffers
        <5> QED
          BY <1>4, <1>before, <2>1, <3>2, <4>2, <5>1 DEF DraftIsLeft
      <4> QED
        BY <2>2, <4>1, <4>2
    <3> QED
      BY <2>1, <3>1, <3>2 DEF DraftIsLeft
  <2> QED
    BY <2>3, <2>4
<1>5. CASE /\ \/ \E d \in Tickets : DoneOrReopen(d) \/ Rescan(d)
              \/ \E r \in sent : ServeChange(r) \/ Lose(r)
           /\ ~Reload
  <2>1. UNCHANGED <<shown, left, drafts, typing>>
    BY <1>5 DEF DoneOrReopen, Rescan, ServeChange, Lose
  <2> QED
    BY <1>5, <1>still, <2>1
<1>6. CASE /\ \/ \E t \in {"open", "done"} : ChooseTab(t)
              \/ \E color \in {"all", "red"}, owner \in Owners \cup {Blank} : ChooseFilter(color, owner)
           /\ ~Reload
  <2>1. UNCHANGED <<shown, left>> /\ Mount(drafts)
    BY <1>6 DEF ChooseTab, ChooseFilter
  <2>2. c \notin remounted'
    BY DEF CardDisturbed
  <2> QED
    BY <1>6, <1>before, <2>1, <2>2, MountKeepsDrafts
<1>7. ASSUME NEW r \in sent, Receive(r), ~Reload
      PROVE  DraftIsLeft(c)'
  <2>1. /\ UNCHANGED left /\ Mount(drafts) /\ sent' = sent \ {r}
        /\ shown' = [shown EXCEPT ![r.of] = TakenOver(r)]
    BY <1>7 DEF Receive
  <2>2. c \notin remounted'
    BY DEF CardDisturbed
  <2>3. OneRequest(c)
    BY <1>7, <1>before
  <2>4. shown'[c] = shown[c] \/ ~UnderWay(c)'
    <3>1. CASE r.of = c
      BY <2>1, <2>3, <3>1 DEF UnderWay, OneRequest
    <3>2. CASE r.of # c
      BY <2>1, <3>2 DEF EditorSorts
    <3> QED
      BY <3>1, <3>2
  <2> QED
    BY <1>7, <1>before, <2>1, <2>2, <2>4, MountKeepsDrafts
<1> QED
  BY <1>1, <1>2, <1>3, <1>4, <1>5, <1>6, <1>7 DEF EditorNext

-----------------------------------------------------------------------------
(* The log, the board, the requests under way and the drafts agree on      *)
(* every undisturbed card, at every step (CTABoard.tsx, the CTA routes).   *)
THEOREM EditorInvariant == EditorSpec => []EditorIInv
<1>1. EditorInit => EditorIInv
  <2> SUFFICES ASSUME EditorInit
               PROVE  EditorIInv
    OBVIOUS
  <2>1. steps = 0 /\ 0 \in 0..MaxSteps /\ sent = {} /\ typing = NoField /\ busyCard = NoTicket
    BY EditorAssumption DEF EditorInit
  <2>2. ASSUME NEW c \in Tickets
        PROVE  /\ saved[c] \in LinesUpTo(0) /\ saved[c].note = 0 /\ saved[c].owner = 0 /\ saved[c].status \in CardStatus
               /\ shown[c] = [status |-> saved[c].status, note |-> 0, owner |-> 0, primary |-> 0]
               /\ drafts[c] = IF c \in Filtered THEN FreshDrafts(c) ELSE NotMounted
               /\ left[c] = [f \in Texts |-> 0]
    <3>1. saved[c] \in {[status |-> s, note |-> 0, owner |-> 0] : s \in {"open", "done"}}
      BY DEF EditorInit
    <3>2. PICK s \in {"open", "done"} : saved[c] = [status |-> s, note |-> 0, owner |-> 0]
      BY <3>1
    <3>3. shown[c] = TicketOf(saved[c])
      BY DEF EditorInit
    <3> QED
      BY <3>2, <3>3 DEF EditorInit, TicketOf, LinesUpTo, CardStatus
  <2>3. ASSUME NEW c \in Tickets
        PROVE  /\ shown[c] \in ShownUpTo(0) /\ drafts[c] \in DraftsUpTo(0)
               /\ drafts[c].there <=> c \in Filtered
               /\ ShownIsSaved(c) /\ SavedIsLeft(c) /\ DraftIsLeft(c)
    <3>0. /\ saved[c].note = 0 /\ saved[c].owner = 0 /\ saved[c].status \in CardStatus
          /\ shown[c] = [status |-> saved[c].status, note |-> 0, owner |-> 0, primary |-> 0]
          /\ drafts[c] = (IF c \in Filtered THEN FreshDrafts(c) ELSE NotMounted)
          /\ left[c] = [f \in Texts |-> 0]
      BY <2>2
    <3>1. shown[c] \in ShownUpTo(0)
      BY <3>0 DEF ShownUpTo
    <3>2. FreshDrafts(c) = [note |-> 0, owner |-> 0, there |-> TRUE]
      BY <3>0 DEF FreshDrafts
    <3>3. 0 \in Blank..0 /\ 0 \in 0..0
      BY DEF Blank
    <3>4. drafts[c] \in DraftsUpTo(0) /\ (drafts[c].there <=> c \in Filtered)
      BY <3>0, <3>2, <3>3 DEF DraftsUpTo, NotMounted
    <3>5. ShownIsSaved(c) /\ SavedIsLeft(c)
      BY <3>0 DEF ShownIsSaved, SavedIsLeft, Texts
    <3>6. DraftIsLeft(c)
      BY <3>0, <3>2 DEF DraftIsLeft, NotMounted, Texts
    <3> QED
      BY <3>1, <3>4, <3>5, <3>6
  <2>4. EditorSorts
    <3>1. saved \in [Tickets -> LinesUpTo(0)]
      BY <2>2 DEF EditorInit
    <3>2. shown \in [Tickets -> ShownUpTo(0)] /\ drafts \in [Tickets -> DraftsUpTo(0)]
      BY <2>3 DEF EditorInit
    <3>3. left \in [Tickets -> [Texts -> 0..0]]
      BY DEF EditorInit
    <3> QED
      BY <2>1, <3>1, <3>2, <3>3 DEF EditorSorts
  <2>5. EditorTypeOK
    BY <2>1, <2>2, <2>3 DEF EditorTypeOK
  <2>6. ASSUME NEW c \in Tickets
        PROVE  OneRequest(c) /\ RequestTells(c) /\ DraftIsLeft(c)
    BY <2>1, <2>3 DEF OneRequest, RequestTells
  <2> QED
    BY <2>4, <2>5, <2>6 DEF EditorIInv
<1>2. EditorIInv /\ [EditorNext]_editorVars => EditorIInv'
  <2> SUFFICES ASSUME EditorIInv, [EditorNext]_editorVars
               PROVE  EditorIInv'
    OBVIOUS
  <2>1. CASE EditorNext
    <3>1. EditorSorts'
      BY <2>1, SortsStep DEF EditorIInv
    <3>2. EditorTypeOK'
      BY <2>1, <3>1, TypeStep DEF EditorIInv
    <3>3. ASSUME NEW c \in Tickets, ~CardDisturbed(c)'
          PROVE  OneRequest(c)' /\ RequestTells(c)' /\ DraftIsLeft(c)'
      <4>1. OneRequest(c)' /\ RequestTells(c)'
        BY <2>1, <3>3, LogStep DEF EditorIInv
      <4>2. DraftIsLeft(c)'
        BY <2>1, <3>3, <4>1, DraftStep DEF EditorIInv
      <4> QED
        BY <4>1, <4>2
    <3> QED
      BY <3>1, <3>2, <3>3 DEF EditorIInv
  <2>2. CASE UNCHANGED editorVars
    BY <2>2 DEF editorVars, EditorIInv, EditorSorts, EditorTypeOK, Filtered, IsOpen, CardDisturbed, OneRequest,
                RequestTells, DraftIsLeft, UnderWay, ShownIsSaved, SavedIsLeft
  <2> QED
    BY <2>1, <2>2
<1> QED
  BY <1>1, <1>2, PTL DEF EditorSpec

(* What a person has left in a card's field is what the log holds and the  *)
(* board shows as soon as no request is under way, for any number of cards *)
(* and steps.                                                              *)
THEOREM TextsKept == EditorSpec => [](EditorTypeOK /\ TextsAreKept)
<1>1. EditorIInv => EditorTypeOK /\ TextsAreKept
  <2> SUFFICES ASSUME EditorIInv, sent = {}, NEW c \in Tickets, ~CardDisturbed(c), NEW f \in Texts
               PROVE  /\ saved[c][f] = left[c][f] /\ shown[c][f] = saved[c][f] /\ shown[c].status = saved[c].status
                      /\ c \in Filtered /\ typing # <<c, f>> =>
                           drafts[c][f] = saved[c][f] \/ (f = "owner" /\ drafts[c][f] = Blank)
    BY DEF EditorIInv, TextsAreKept
  <2>1. ~UnderWay(c) /\ RequestTells(c) /\ DraftIsLeft(c)
    BY DEF EditorIInv, UnderWay
  <2>2. ShownIsSaved(c) /\ SavedIsLeft(c)
    BY <2>1 DEF RequestTells
  <2>3. c \in Filtered => drafts[c].there
    BY DEF EditorIInv, EditorTypeOK
  <2> QED
    BY <2>1, <2>2, <2>3 DEF ShownIsSaved, SavedIsLeft, DraftIsLeft
<1> QED
  BY <1>1, EditorInvariant, PTL

(* The board's entry names the CSE and the AE whom the CTA names somewhere,*)
(* and speaks to the same one.                                             *)
LEMMA BoardKeepsRoles ==
  ASSUME NEW t \in Teams, NEW n
  PROVE  /\ BoardTeam(t, n).cse = InRole(t, "CSE") /\ BoardTeam(t, n).ae = InRole(t, "AE")
         /\ InRole(BoardTeam(t, n), "CSE") = InRole(t, "CSE") /\ InRole(BoardTeam(t, n), "AE") = InRole(t, "AE")
<1> DEFINE b == BoardTeam(t, n)
<1>1. t = [cse |-> t.cse, ae |-> t.ae, primary |-> t.primary, cc |-> t.cc]
  BY TeamsAssumption
<1>2. b = [cse |-> InRole(t, "CSE"), ae |-> InRole(t, "AE"),
           primary |-> IF n = 0 THEN t.primary ELSE [role |-> "text", name |-> n], cc |-> t.cc]
  BY <1>1 DEF BoardTeam
<1>3. \A o \in {t.primary} \cup t.cc : o.name # Nobody
  BY TeamsAssumption
<1> HIDE DEF b
<1>4. ASSUME NEW role \in {"CSE", "AE"}
      PROVE  InRole(b, role) = InRole(t, role)
  <2>1. CASE InRole(t, role) # Nobody
    BY <1>2, <2>1 DEF InRole
  <2>2. CASE InRole(t, role) = Nobody
    <3>1. t.primary.role # role /\ \A o \in t.cc : o.role # role
      BY <1>3, <2>2 DEF InRole
    <3>2. b.primary.role # role /\ b.cc = t.cc
      BY <1>2, <3>1
    <3>3. (role = "CSE" => b.cse = Nobody) /\ (role = "AE" => b.ae = Nobody)
      BY <1>2, <2>2
    <3> QED
      BY <2>2, <3>1, <3>2, <3>3 DEF InRole
  <2> QED
    BY <2>1, <2>2
<1> QED
  BY <1>2, <1>4 DEF b

(* Whom the board marks as tagged is the one whom the CTA mentions.        *)
LEMMA TaggedOnes ==
  TaggedIsMentioned
<1> SUFFICES ASSUME NEW t \in Teams, NEW c \in Tickets
             PROVE  Tagged(BoardTeam(t, shown[c].primary)) =
                      {Mention(t).name : role \in {r \in {"CSE", "AE"} : InRole(t, r) # Nobody}}
  BY DEF TaggedIsMentioned
<1> DEFINE b == BoardTeam(t, shown[c].primary)
           cse == InRole(t, "CSE")
           ae == InRole(t, "AE")
<1>1. b.cse = cse /\ b.ae = ae /\ InRole(b, "CSE") = cse /\ InRole(b, "AE") = ae
  BY BoardKeepsRoles
<1> HIDE DEF b, cse, ae
<1>2. Corrected(Nobody) = Nobody /\ (cse # Nobody => Corrected(cse) # Nobody)
  BY TeamsAssumption DEF Corrected
<1>3. CASE cse # Nobody
  <2>1. Mention(t).name = Corrected(cse) /\ Mention(b).name = Corrected(cse)
    BY <1>1, <1>3 DEF Mention, cse
  <2>2. Tagged(b) = {Corrected(cse)}
    BY <1>1, <1>2, <1>3, <2>1 DEF Tagged, Badges
  <2> QED
    BY <1>3, <2>1, <2>2 DEF b, cse
<1>4. CASE cse = Nobody /\ ae # Nobody
  <2>1. Mention(t).name = ae /\ Mention(b).name = ae
    BY <1>1, <1>4 DEF Mention, cse, ae
  <2>2. Tagged(b) = {ae}
    BY <1>1, <1>2, <1>4, <2>1 DEF Tagged, Badges
  <2> QED
    BY <1>4, <2>1, <2>2 DEF b, ae
<1>5. CASE cse = Nobody /\ ae = Nobody
  <2>1. Tagged(b) = {}
    BY <1>1, <1>2, <1>5 DEF Tagged, Badges
  <2> QED
    BY <1>5, <2>1 DEF b, cse, ae
<1> QED
  BY <1>3, <1>4, <1>5

(* An introduction is the mentioned CSE's own, a dark account is written   *)
(* to by its CSE, and nobody is named twice.                               *)
LEMMA RightOnes ==
  SpeaksToTheRightOne
<1> SUFFICES ASSUME NEW t \in Teams
             PROVE  /\ Ask("engagement_risk", t) = "introduce yourself as the CSE" => Mention(t).name = Corrected(InRole(t, "CSE"))
                    /\ Ask("dark_account", t) = "touch base" <=> InRole(t, "CSE") # Nobody
                    /\ AlsoNamed(t) # Nobody => AlsoNamed(t) # Mention(t).name
  BY DEF SpeaksToTheRightOne
<1>1. /\ ~Mention(t).digital <=> InRole(t, "CSE") # Nobody
      /\ InRole(t, "CSE") # Nobody => Mention(t).name = Corrected(InRole(t, "CSE"))
  BY DEF Mention
<1>2. AlsoNamed(t) # Nobody => ~Mention(t).digital /\ AlsoNamed(t) = t.ae /\ t.ae # Nobody
  BY DEF AlsoNamed
<1>3. Ask("engagement_risk", t) = "introduce yourself as the CSE" => AlsoNamed(t) # Nobody
  BY DEF Ask
<1>4. Ask("dark_account", t) = "touch base" <=> ~Mention(t).digital
  BY DEF Ask
<1>5. t.ae # Nobody => t.ae # Corrected(InRole(t, "CSE"))
  BY TeamsAssumption
<1> QED
  BY <1>1, <1>2, <1>3, <1>4, <1>5

(* A person's words are kept, and a CTA speaks to the one whom it tags     *)
(* (CTABoard.tsx and the CTA routes), for any teams, cards and history.    *)
THEOREM EditorSound == EditorSpec => []EditorInv
<1>1. EditorTypeOK /\ TextsAreKept => EditorInv
  BY TaggedOnes, RightOnes DEF EditorInv
<1> QED
  BY <1>1, TextsKept, PTL
=============================================================================
