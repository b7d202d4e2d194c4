----------------------------- MODULE PagesProofs -----------------------------
(***************************************************************************)
(* What the pages of the browser promise, for any number of accounts,      *)
(* cards, views and pages of rows and any behaviour of their operator: the *)
(* panel that composes a message, the board of CTAs, the table of Slack    *)
(* mappings, and the components that watch a job of the server; and what   *)
(* the files of the CTA board promise, for any number of processes that    *)
(* write them.                                                             *)
(***************************************************************************)
EXTENDS MappingPage, ComposePanel, CtaBoard, CtaLog, JobWatch, FiniteSetTheorems, WellFoundedInduction,
        TLAPS

-----------------------------------------------------------------------------
(* The panel that composes a message.                                      *)

(* What the server was asked is numbered by the clicks; unless the panel   *)
(* lost sight of a request, the server has none but the awaited one.       *)
ClicksCount ==
  clicks \in Nat /\ \A r \in posted : r.id \in 1..clicks

OnlyTheAwaited == ~lost => posted \subseteq {awaiting}

ComposeIInv == ComposeTypeOK /\ ClicksCount /\ OnlyTheAwaited

(* Every request is one of the panel's own and no two may act on the same  *)
(* preview while the panel has lost sight of none.                         *)
LEMMA ComposeImplies == ComposeIInv => ComposeInv
  BY DEF ComposeIInv, ComposeInv, OneActAtATime, OnlyTheAwaited

(* A request that follows a click is a new one.                            *)
LEMMA RequestKeeps ==
  ASSUME ComposeIInv, ~Busy, NEW what, NEW on, Request(what, on),
         preview' = preview
  PROVE  ComposeIInv'
<1> DEFINE r == [id |-> clicks', what |-> what, on |-> on]
<1>1. /\ clicks' = clicks + 1 /\ selected # Nobody
      /\ awaiting' = r /\ posted' = posted \cup {r}
      /\ selected' = selected /\ lost' = lost
  BY DEF Request, ComposeClick
<1>2. clicks \in Nat /\ clicks' \in Nat /\ r.id = clicks'
  BY <1>1 DEF ComposeIInv, ClicksCount
<1>3. ClicksCount'
  BY <1>1, <1>2 DEF ComposeIInv, ClicksCount
<1>4. OnlyTheAwaited'
  <2>1. ~lost => posted = {}
    BY DEF ComposeIInv, OnlyTheAwaited, ClicksCount, Busy, NoRequest
  <2> QED BY <1>1, <2>1 DEF OnlyTheAwaited
<1>5. ComposeTypeOK'
  BY <1>1 DEF ComposeIInv, ComposeTypeOK
<1> QED BY <1>3, <1>4, <1>5 DEF ComposeIInv

(* The first state has the invariant.                                      *)
LEMMA ComposeStarts == ComposeInit => ComposeIInv
<1> SUFFICES ASSUME ComposeInit PROVE ComposeIInv
  OBVIOUS
<1>1. ~Busy
  BY DEF ComposeInit, Busy
<1>2. ComposeTypeOK
  BY <1>1 DEF ComposeInit, ComposeTypeOK
<1>3. ClicksCount /\ OnlyTheAwaited
  BY DEF ComposeInit, ClicksCount, OnlyTheAwaited
<1> QED BY <1>2, <1>3 DEF ComposeIInv

(* Every step of the operator and of the server keeps it.                  *)
LEMMA ComposeKeeps == ComposeIInv /\ [ComposeNext]_composeVars => ComposeIInv'
<1> SUFFICES ASSUME ComposeIInv, [ComposeNext]_composeVars PROVE ComposeIInv'
  OBVIOUS
<1> USE ComposeAssumption
<1>1. CASE Select
  BY <1>1 DEF Select, ComposeClick, ComposeIInv, ComposeTypeOK, ClicksCount,
              OnlyTheAwaited, Busy
<1>2. CASE Close
  <2>1. /\ selected' = Nobody /\ preview' = NoPreview /\ awaiting' = NoRequest
        /\ lost' = (lost \/ Busy) /\ posted' = posted /\ clicks' = clicks + 1
    BY <1>2 DEF Close, ComposeClick
  <2>2. ~Busy' /\ lost' \in BOOLEAN
    BY <2>1 DEF Busy
  <2>3. ComposeTypeOK'
    BY <2>1, <2>2 DEF ComposeTypeOK
  <2>4. ClicksCount'
    BY <2>1 DEF ComposeIInv, ClicksCount
  <2>5. ~lost' => ~lost /\ ~Busy
    BY <2>1
  <2>6. OnlyTheAwaited'
    BY <2>1, <2>5 DEF ComposeIInv, OnlyTheAwaited, Busy
  <2> QED BY <2>3, <2>4, <2>6 DEF ComposeIInv
<1>3. CASE EditMessage
  BY <1>3 DEF EditMessage, ComposeClick, ComposeIInv, ComposeTypeOK, ClicksCount,
              OnlyTheAwaited, Busy
<1>4. CASE DoPreview
  BY <1>4, RequestKeeps DEF DoPreview
<1>5. CASE DoConfirm
  BY <1>5, RequestKeeps DEF DoConfirm, MayAct
<1>6. CASE DoCancel
  BY <1>6, RequestKeeps DEF DoCancel, MayAct
<1>7. CASE ConnectionBreaks
  BY <1>7 DEF ConnectionBreaks, ComposeIInv, ComposeTypeOK, ClicksCount,
              OnlyTheAwaited, Busy
<1>8. ASSUME NEW r \in posted, NEW ok \in BOOLEAN, ComposeAnswer(r, ok)
      PROVE  ComposeIInv'
  <2>1. r # NoRequest
    BY DEF ComposeIInv, ClicksCount, NoRequest
  <2>2. CASE r = awaiting
    BY <1>8, <2>1, <2>2 DEF ComposeAnswer, ComposeIInv, ComposeTypeOK, ClicksCount,
                            OnlyTheAwaited, Busy
  <2>3. CASE r # awaiting
    BY <1>8, <2>3 DEF ComposeAnswer, ComposeIInv, ComposeTypeOK, ClicksCount,
                      OnlyTheAwaited, Busy
  <2> QED BY <2>2, <2>3
<1>9. CASE UNCHANGED composeVars
  BY <1>9 DEF composeVars, ComposeIInv, ComposeTypeOK, ClicksCount, OnlyTheAwaited, Busy
<1> QED BY <1>1, <1>2, <1>3, <1>4, <1>5, <1>6, <1>7, <1>8, <1>9 DEF ComposeNext

(* The panel keeps two requests that act on one preview apart, unless it   *)
(* lost sight of one (ComposePanel in SlackMappingsClient.tsx).            *)
THEOREM ComposeIsSound == ComposeSpec => []ComposeInv
  BY ComposeStarts, ComposeKeeps, ComposeImplies, PTL DEF ComposeSpec

-----------------------------------------------------------------------------
(* The board of CTAs.                                                      *)

RequestsOf(c) == {r \in changes : r.of = c}

BoardTypes ==
  /\ line \in [BoardCards -> BoardStatuses] /\ card \in [BoardCards -> BoardStatuses]
  /\ changes \subseteq [n : Nat, of : BoardCards, status : BoardStatuses, done : BOOLEAN]
  /\ IsFiniteSet(changes)
  /\ busyId \in BoardCards \cup {NoCard} /\ boardView \in {"open", "done"}
  /\ missed \subseteq BoardCards /\ crossed \subseteq BoardCards
  /\ made \in Nat /\ elsewhere \in [BoardCards -> Nat]

(* The mark is on a card with a request under way.                         *)
MarkIsEarned == busyId # NoCard => \E r \in changes : r.of = busyId

(* A card that is not crossed has one request at most ...                  *)
OneRequestEach ==
  \A c \in BoardCards \ crossed : \A p, q \in RequestsOf(c) : p = q

(* ... and shows the log's status until that request has been served; from *)
(* then on the log has the status that was asked for.                      *)
CardFollows ==
  \A c \in BoardCards \ (missed \cup crossed) :
    /\ RequestsOf(c) = {} => card[c] = line[c]
    /\ \A r \in RequestsOf(c) : line[c] = IF r.done THEN r.status ELSE card[c]

(* A change of another card may free this one twice, through the mark and  *)
(* through its answer: both are counted here, the answer as long as it is  *)
(* awaited.                                                                *)
Free(c) == IF busyId = c THEN 0 ELSE 1

FreedByOthers ==
  \A c \in BoardCards : Cardinality(changes) + Free(c) <= 1 + 2 * elsewhere[c]

BoardIInv == BoardTypes /\ MarkIsEarned /\ OneRequestEach /\ CardFollows /\ FreedByOthers

(* What is counted for the induction bounds what is claimed of a card.     *)
LEMMA BoardImplies == BoardIInv => BoardInv
<1> SUFFICES ASSUME BoardIInv PROVE BoardInv
  OBVIOUS
<1>1. BoardTypeOK
  BY DEF BoardIInv, BoardTypes, MarkIsEarned, BoardTypeOK
<1>2. BoardShowsTheLog
  BY DEF BoardIInv, CardFollows, RequestsOf, BoardShowsTheLog
<1>3. ASSUME NEW c \in BoardCards
      PROVE  Cardinality({r \in changes : r.of = c}) <= 1 + 2 * elsewhere[c]
  <2> DEFINE S == {r \in changes : r.of = c}
  <2>1. S \in SUBSET changes /\ IsFiniteSet(changes)
    BY DEF BoardIInv, BoardTypes
  <2>2. Cardinality(S) <= Cardinality(changes) /\ IsFiniteSet(S)
    BY <2>1, FS_Subset
  <2>3. Cardinality(S) \in Nat /\ Cardinality(changes) \in Nat
    BY <2>1, <2>2, FS_CardinalityType
  <2>4. Cardinality(changes) + Free(c) <= 1 + 2 * elsewhere[c]
    BY DEF BoardIInv, FreedByOthers
  <2>5. elsewhere[c] \in Nat
    BY DEF BoardIInv, BoardTypes
  <2> HIDE DEF S
  <2>6. Cardinality(S) <= 1 + 2 * elsewhere[c]
    BY <2>2, <2>3, <2>4, <2>5 DEF Free
  <2> QED BY <2>6 DEF S
<1> QED BY <1>1, <1>2, <1>3 DEF BoardInv, CrossedByAnother

(* The board starts with what the log says and nothing under way.          *)
LEMMA BoardStarts == BoardInit => BoardIInv
<1> SUFFICES ASSUME BoardInit PROVE BoardIInv
  OBVIOUS
<1>1. IsFiniteSet(changes) /\ Cardinality(changes) = 0
  BY FS_EmptySet DEF BoardInit
<1>2. BoardTypes
  BY <1>1 DEF BoardInit, BoardTypes
<1>3. MarkIsEarned /\ OneRequestEach /\ CardFollows
  BY DEF BoardInit, MarkIsEarned, OneRequestEach, CardFollows, RequestsOf
<1>4. FreedByOthers
  <2> SUFFICES ASSUME NEW c \in BoardCards
               PROVE  Cardinality(changes) + Free(c) <= 1 + 2 * elsewhere[c]
    BY DEF FreedByOthers
  <2>1. elsewhere[c] = 0
    BY DEF BoardInit
  <2> QED BY <1>1, <2>1 DEF Free
<1> QED BY <1>2, <1>3, <1>4 DEF BoardIInv

(* A change asked for on an enabled card.                                  *)
LEMMA UpdateKeeps ==
  ASSUME BoardIInv, NEW c \in BoardCards, NEW status \in BoardStatuses,
         UpdateCtaProgress(c, status)
  PROVE  BoardIInv'
<1> DEFINE r == [n |-> made, of |-> c, status |-> status, done |-> FALSE]
<1>1. /\ busyId # c /\ busyId' = c /\ made' = made + 1
      /\ elsewhere' = [d \in BoardCards |-> IF d = c THEN elsewhere[d] ELSE elsewhere[d] + 1]
      /\ changes' = changes \cup {r}
      /\ crossed' = crossed \cup {q.of : q \in {q \in changes : q.of = c}}
      /\ UNCHANGED <<line, card, boardView, missed>>
  BY DEF UpdateCtaProgress, Enabled
<1>2. BoardTypes /\ made \in Nat /\ r.of = c /\ ~r.done
  BY DEF BoardIInv, BoardTypes
<1>3. r \in [n : Nat, of : BoardCards, status : BoardStatuses, done : BOOLEAN]
  BY <1>2
<1>4. /\ IsFiniteSet(changes') /\ Cardinality(changes') \in Nat /\ Cardinality(changes) \in Nat
      /\ Cardinality(changes') <= Cardinality(changes) + 1
  <2>1. IsFiniteSet(changes)
    BY <1>2 DEF BoardTypes
  <2>2. Cardinality(changes) \in Nat
    BY <2>1, FS_CardinalityType
  <2> HIDE DEF r
  <2>3. IsFiniteSet(changes \cup {r})
    BY <2>1, FS_AddElement
  <2>4. Cardinality(changes \cup {r})
          = IF r \in changes THEN Cardinality(changes) ELSE Cardinality(changes) + 1
    BY <2>1, FS_AddElement
  <2>5. Cardinality(changes \cup {r}) \in Nat
    BY <2>3, FS_CardinalityType
  <2> QED BY <1>1, <2>2, <2>3, <2>4, <2>5
<1> HIDE DEF r
<1>5. BoardTypes'
  <2>1. crossed' \subseteq BoardCards
    BY <1>1, <1>2 DEF BoardTypes
  <2>2. elsewhere' \in [BoardCards -> Nat]
    BY <1>1, <1>2 DEF BoardTypes
  <2> QED BY <1>1, <1>2, <1>3, <1>4, <2>1, <2>2 DEF BoardTypes
<1>6. MarkIsEarned'
  BY <1>1, <1>2 DEF MarkIsEarned
<1>7. ASSUME NEW d \in BoardCards, d # c
      PROVE  RequestsOf(d)' = RequestsOf(d)
  BY <1>1, <1>2, <1>7 DEF RequestsOf
<1>8. c \notin crossed' => RequestsOf(c) = {} /\ RequestsOf(c)' = {r}
  BY <1>1, <1>2 DEF RequestsOf
<1>9. crossed \subseteq crossed' /\ missed' = missed
  BY <1>1
<1>10. OneRequestEach'
  BY <1>7, <1>8, <1>9 DEF OneRequestEach, BoardIInv
<1>11. CardFollows'
  <2> SUFFICES ASSUME NEW d \in (BoardCards \ (missed \cup crossed))'
               PROVE  /\ RequestsOf(d)' = {} => card[d] = line[d]
                      /\ \A q \in RequestsOf(d)' :
                            line[d] = IF q.done THEN q.status ELSE card[d]
    BY <1>1 DEF CardFollows
  <2>1. d \in BoardCards \ (missed \cup crossed)
    BY <1>9
  <2>2. CASE d = c
    BY <1>2, <1>8, <2>1, <2>2 DEF BoardIInv, CardFollows
  <2>3. CASE d # c
    BY <1>7, <2>1, <2>3 DEF BoardIInv, CardFollows
  <2> QED BY <2>2, <2>3
<1>12. FreedByOthers'
  <2> SUFFICES ASSUME NEW d \in BoardCards
               PROVE  Cardinality(changes') + Free(d)' <= 1 + 2 * elsewhere'[d]
    BY DEF FreedByOthers
  <2>1. Cardinality(changes) + Free(d) <= 1 + 2 * elsewhere[d] /\ elsewhere[d] \in Nat
    BY <1>2 DEF BoardIInv, FreedByOthers, BoardTypes
  <2>2. CASE d = c
    <3>1. Free(d) = 1 /\ Free(d)' = 0 /\ elsewhere'[d] = elsewhere[d]
      BY <1>1, <2>2 DEF Free
    <3> QED BY <1>4, <2>1, <3>1
  <2>3. CASE d # c
    <3>1. Free(d) \in {0, 1} /\ Free(d)' = 1 /\ elsewhere'[d] = elsewhere[d] + 1
      BY <1>1, <2>3 DEF Free
    <3> QED BY <1>4, <2>1, <3>1
  <2> QED BY <2>2, <2>3
<1> QED BY <1>5, <1>6, <1>10, <1>11, <1>12 DEF BoardIInv

(* The server writes the line of a card.                                   *)
LEMMA ServedKeeps ==
  ASSUME BoardIInv, NEW r \in changes, ServerUpdates(r)
  PROVE  BoardIInv'
<1> DEFINE s == [r EXCEPT !.done = TRUE]
<1>1. /\ ~r.done /\ line' = [line EXCEPT ![r.of] = r.status]
      /\ changes' = (changes \ {r}) \cup {s}
      /\ UNCHANGED <<card, busyId, boardView, missed, crossed, made, elsewhere>>
  BY DEF ServerUpdates
<1>2. /\ BoardTypes
      /\ r \in [n : Nat, of : BoardCards, status : BoardStatuses, done : BOOLEAN]
  BY DEF BoardIInv, BoardTypes
<1>3. /\ s \in [n : Nat, of : BoardCards, status : BoardStatuses, done : BOOLEAN]
      /\ s.of = r.of /\ s.status = r.status /\ s.done
  BY <1>2
<1> HIDE DEF s
<1>4. /\ IsFiniteSet(changes') /\ Cardinality(changes') <= Cardinality(changes)
      /\ Cardinality(changes') \in Nat /\ Cardinality(changes) \in Nat
  <2>1. IsFiniteSet(changes)
    BY <1>2 DEF BoardTypes
  <2>2. IsFiniteSet(changes \ {r}) /\ Cardinality(changes \ {r}) = Cardinality(changes) - 1
    BY <2>1, FS_RemoveElement
  <2>3. /\ IsFiniteSet((changes \ {r}) \cup {s})
        /\ Cardinality((changes \ {r}) \cup {s})
             = IF s \in changes \ {r} THEN Cardinality(changes \ {r})
                                      ELSE Cardinality(changes \ {r}) + 1
    BY <2>2, FS_AddElement
  <2>4. Cardinality(changes) \in Nat /\ Cardinality((changes \ {r}) \cup {s}) \in Nat
    BY <2>1, <2>3, FS_CardinalityType
  <2> QED BY <1>1, <2>2, <2>3, <2>4
<1>5. BoardTypes'
  <2>1. line' \in [BoardCards -> BoardStatuses]
    BY <1>1, <1>2 DEF BoardTypes
  <2> QED BY <1>1, <1>2, <1>3, <1>4, <2>1 DEF BoardTypes
<1>6. MarkIsEarned'
  BY <1>1, <1>3 DEF BoardIInv, MarkIsEarned
<1>7. ASSUME NEW d \in BoardCards, d # r.of
      PROVE  RequestsOf(d)' = RequestsOf(d) /\ line'[d] = line[d]
  BY <1>1, <1>2, <1>3, <1>7 DEF RequestsOf, BoardTypes
<1>8. RequestsOf(r.of)' = (RequestsOf(r.of) \ {r}) \cup {s}
  BY <1>1, <1>3 DEF RequestsOf
<1>9. ASSUME r.of \notin crossed
      PROVE  RequestsOf(r.of)' = {s}
  <2>1. \A q \in RequestsOf(r.of) : q = r
    BY <1>2, <1>9 DEF BoardIInv, OneRequestEach, RequestsOf
  <2> QED BY <1>8, <2>1
<1>10. OneRequestEach'
  BY <1>1, <1>7, <1>9 DEF BoardIInv, OneRequestEach
<1>11. CardFollows'
  <2> SUFFICES ASSUME NEW d \in BoardCards \ (missed \cup crossed)
               PROVE  /\ RequestsOf(d)' = {} => card[d] = line'[d]
                      /\ \A q \in RequestsOf(d)' :
                            line'[d] = IF q.done THEN q.status ELSE card[d]
    BY <1>1 DEF CardFollows
  <2>1. CASE d = r.of
    <3>1. line'[d] = r.status
      BY <1>1, <1>2, <2>1 DEF BoardTypes
    <3> QED BY <1>3, <1>9, <2>1, <3>1
  <2>2. CASE d # r.of
    BY <1>7, <2>2 DEF BoardIInv, CardFollows
  <2> QED BY <2>1, <2>2
<1>12. FreedByOthers'
  <2> SUFFICES ASSUME NEW d \in BoardCards
               PROVE  Cardinality(changes') + Free(d)' <= 1 + 2 * elsewhere[d]
    BY <1>1 DEF FreedByOthers
  <2>1. Cardinality(changes) + Free(d) <= 1 + 2 * elsewhere[d] /\ elsewhere[d] \in Nat
    BY <1>2 DEF BoardIInv, FreedByOthers, BoardTypes
  <2>2. Free(d)' = Free(d) /\ Free(d) \in {0, 1}
    BY <1>1 DEF Free
  <2> QED BY <1>4, <2>1, <2>2
<1> QED BY <1>5, <1>6, <1>10, <1>11, <1>12 DEF BoardIInv

(* A request leaves the board, with its answer or without one: what is     *)
(* counted, the types and the mark.                                        *)
LEMMA AnsweredCounts ==
  ASSUME BoardIInv, NEW r \in changes, AnswerTo(r),
         UNCHANGED <<line, boardView, crossed, made, elsewhere>>,
         card' \in [BoardCards -> BoardStatuses], missed' \subseteq BoardCards
  PROVE  /\ BoardTypes' /\ MarkIsEarned' /\ OneRequestEach' /\ FreedByOthers'
         /\ \A d \in BoardCards : RequestsOf(d)' = RequestsOf(d) \ {r}
<1>1. changes' = changes \ {r} /\ busyId' = NoCard
  BY DEF AnswerTo
<1>2. BoardTypes
  BY DEF BoardIInv
<1>3. /\ IsFiniteSet(changes') /\ Cardinality(changes') = Cardinality(changes) - 1
      /\ Cardinality(changes') \in Nat /\ Cardinality(changes) \in Nat
  <2>1. IsFiniteSet(changes)
    BY <1>2 DEF BoardTypes
  <2>2. IsFiniteSet(changes \ {r}) /\ Cardinality(changes \ {r}) = Cardinality(changes) - 1
    BY <2>1, FS_RemoveElement
  <2> QED BY <1>1, <2>1, <2>2, FS_CardinalityType
<1>4. BoardTypes'
  BY <1>1, <1>2, <1>3 DEF BoardTypes
<1>5. MarkIsEarned'
  BY <1>1 DEF MarkIsEarned
<1>6. \A d \in BoardCards : RequestsOf(d)' = RequestsOf(d) \ {r}
  BY <1>1 DEF RequestsOf
<1>7. OneRequestEach'
  BY <1>6 DEF BoardIInv, OneRequestEach
<1>8. FreedByOthers'
  <2> SUFFICES ASSUME NEW d \in BoardCards
               PROVE  Cardinality(changes') + Free(d)' <= 1 + 2 * elsewhere[d]
    BY DEF FreedByOthers
  <2>1. Cardinality(changes) + Free(d) <= 1 + 2 * elsewhere[d] /\ elsewhere[d] \in Nat
    BY <1>2 DEF BoardIInv, FreedByOthers, BoardTypes
  <2>2. Free(d)' \in {0, 1} /\ Free(d) \in {0, 1}
    BY DEF Free
  <2> QED BY <1>3, <2>1, <2>2
<1> QED BY <1>4, <1>5, <1>6, <1>7, <1>8

(* The answer is shown on the card it is about.                            *)
LEMMA ArrivesKeeps ==
  ASSUME BoardIInv, NEW r \in changes, UpdateArrives(r)
  PROVE  BoardIInv'
<1>1. /\ r.done /\ AnswerTo(r) /\ card' = [card EXCEPT ![r.of] = r.status]
      /\ UNCHANGED <<line, boardView, missed, crossed, made, elsewhere>>
  BY DEF UpdateArrives, ShownOn
<1>2. BoardTypes /\ r.of \in BoardCards /\ r.status \in BoardStatuses
  BY DEF BoardIInv, BoardTypes
<1>3. card' \in [BoardCards -> BoardStatuses] /\ missed' \subseteq BoardCards
  BY <1>1, <1>2 DEF BoardTypes
<1>4. /\ BoardTypes' /\ MarkIsEarned' /\ OneRequestEach' /\ FreedByOthers'
      /\ \A d \in BoardCards : RequestsOf(d)' = RequestsOf(d) \ {r}
  BY <1>1, <1>3, AnsweredCounts
<1>5. CardFollows'
  <2> SUFFICES ASSUME NEW d \in BoardCards \ (missed \cup crossed)
               PROVE  /\ RequestsOf(d)' = {} => card'[d] = line[d]
                      /\ \A q \in RequestsOf(d)' :
                            line[d] = IF q.done THEN q.status ELSE card'[d]
    BY <1>1 DEF CardFollows
  <2>1. CASE d = r.of
    <3>1. r \in RequestsOf(d)
      BY <2>1 DEF RequestsOf
    <3>2. \A q \in RequestsOf(d) : q = r
      BY <3>1 DEF BoardIInv, OneRequestEach
    <3>3. card'[d] = r.status /\ line[d] = r.status
      BY <1>1, <1>2, <2>1, <3>1 DEF BoardTypes, BoardIInv, CardFollows
    <3> QED BY <1>4, <3>2, <3>3
  <2>2. CASE d # r.of
    <3>1. r \notin RequestsOf(d) /\ card'[d] = card[d]
      BY <1>1, <1>2, <2>2 DEF RequestsOf, BoardTypes
    <3> QED BY <1>4, <3>1 DEF BoardIInv, CardFollows
  <2> QED BY <2>1, <2>2
<1> QED BY <1>4, <1>5 DEF BoardIInv

(* A request that fails after it was served makes its card a missed one.   *)
LEMMA FailsKeeps ==
  ASSUME BoardIInv, NEW r \in changes, UpdateFails(r)
  PROVE  BoardIInv'
<1>1. /\ AnswerTo(r) /\ missed' = (IF r.done THEN missed \cup {r.of} ELSE missed)
      /\ UNCHANGED <<line, card, boardView, crossed, made, elsewhere>>
  BY DEF UpdateFails
<1>2. BoardTypes /\ r.of \in BoardCards
  BY DEF BoardIInv, BoardTypes
<1>3. card' \in [BoardCards -> BoardStatuses] /\ missed' \subseteq BoardCards
  BY <1>1, <1>2 DEF BoardTypes
<1>4. /\ BoardTypes' /\ MarkIsEarned' /\ OneRequestEach' /\ FreedByOthers'
      /\ \A d \in BoardCards : RequestsOf(d)' = RequestsOf(d) \ {r}
  BY <1>1, <1>3, AnsweredCounts
<1>5. CardFollows'
  <2> SUFFICES ASSUME NEW d \in (BoardCards \ (missed \cup crossed))'
               PROVE  /\ RequestsOf(d)' = {} => card[d] = line[d]
                      /\ \A q \in RequestsOf(d)' :
                            line[d] = IF q.done THEN q.status ELSE card[d]
    BY <1>1 DEF CardFollows
  <2>1. d \in BoardCards \ (missed \cup crossed)
    BY <1>1
  <2>2. CASE d = r.of
    <3>1. r \in RequestsOf(d) /\ ~r.done
      BY <1>1, <2>2 DEF RequestsOf
    <3>2. \A q \in RequestsOf(d) : q = r
      BY <2>1, <3>1 DEF BoardIInv, OneRequestEach
    <3>3. line[d] = card[d]
      BY <2>1, <3>1 DEF BoardIInv, CardFollows
    <3> QED BY <1>4, <3>2, <3>3
  <2>3. CASE d # r.of
    <3>1. r \notin RequestsOf(d)
      BY <2>3 DEF RequestsOf
    <3> QED BY <1>4, <2>1, <3>1 DEF BoardIInv, CardFollows
  <2> QED BY <2>2, <2>3
<1> QED BY <1>4, <1>5 DEF BoardIInv

(* A step that leaves requests, cards and log alone.                       *)
LEMMA BoardRests ==
  ASSUME BoardIInv, UNCHANGED <<line, card, changes, busyId, missed, crossed, made, elsewhere>>,
         boardView' \in {"open", "done"}
  PROVE  BoardIInv'
  BY DEF BoardIInv, BoardTypes, MarkIsEarned, OneRequestEach, CardFollows, FreedByOthers,
         RequestsOf, Free

(* Every step of the board and of the server keeps the invariant.          *)
LEMMA BoardKeeps == BoardIInv /\ [BoardNext]_boardVars => BoardIInv'
<1> SUFFICES ASSUME BoardIInv, [BoardNext]_boardVars PROVE BoardIInv'
  OBVIOUS
<1>1. CASE SwitchView
  BY <1>1, BoardRests DEF SwitchView
<1>2. ASSUME NEW c \in BoardCards, NEW status \in BoardStatuses, UpdateCtaProgress(c, status)
      PROVE  BoardIInv'
  BY <1>2, UpdateKeeps
<1>3. ASSUME NEW r \in changes, ServerUpdates(r)
      PROVE  BoardIInv'
  BY <1>3, ServedKeeps
<1>4. ASSUME NEW r \in changes, UpdateArrives(r)
      PROVE  BoardIInv'
  BY <1>4, ArrivesKeeps
<1>5. ASSUME NEW r \in changes, UpdateFails(r)
      PROVE  BoardIInv'
  BY <1>5, FailsKeeps
<1>6. CASE UNCHANGED boardVars
  BY <1>6, BoardRests DEF boardVars, BoardIInv, BoardTypes
<1> QED BY <1>1, <1>2, <1>3, <1>4, <1>5, <1>6 DEF BoardNext

(* With nothing under way a card shows what the log says unless an answer  *)
(* was lost or its requests crossed, and they cross no oftener than other  *)
(* cards were changed meanwhile (CTABoard.tsx).                            *)
THEOREM BoardIsSound == BoardSpec => []BoardInv
  BY BoardStarts, BoardKeeps, BoardImplies, PTL DEF BoardSpec

-----------------------------------------------------------------------------
(* The table of Slack mappings.                                            *)

Requests == [page : Pages, view : Views, silent : BOOLEAN, read : BOOLEAN, version : Nat]
OperationSet == [id : Nat, page : Pages, view : Views, silent : BOOLEAN, done : Nat]

TableTypes ==
  /\ typed \in Views /\ view \in Views /\ page \in Pages
  /\ fetches \subseteq Requests /\ operations \subseteq OperationSet
  /\ shown \in [page : Pages, view : Views, version : Nat]
  /\ version \in Nat /\ written \in Nat /\ acts \in Nat
  /\ loading \in BOOLEAN /\ locked \in BOOLEAN /\ adrift \in BOOLEAN /\ failed \in BOOLEAN

(* What was read or written is not newer than the mappings are.            *)
NothingNewer ==
  /\ shown.version <= version /\ written <= version
  /\ \A f \in fetches : f.version <= version
  /\ \A o \in operations : o.done <= version

(* One request at most is awaited: the newest.                             *)
Alone == \A f, g \in fetches : f = g

(* What the server read for it is as new as the operations that had ended. *)
ReadAfterWrites == \A f \in fetches : f.read => f.version >= written

(* Unless the last reload was for a view left meanwhile, the request and,  *)
(* when none is awaited and the last did not fail, the rows are for the    *)
(* view and the page of the controls; filters still typed do not matter.   *)
InView ==
  ~adrift => /\ \A f \in fetches : f.view = view
             /\ fetches = {} /\ ~failed => shown.page = page /\ shown.view = view

TableIInv ==
  TableTypes /\ NothingNewer /\ Alone /\ ReadAfterWrites /\ InView /\ OwnWritesShown
    /\ LoadingIsTrue

(* The invariant of the table follows.                                     *)
LEMMA TableImplies == TableIInv => PageInv
<1> SUFFICES ASSUME TableIInv PROVE PageInv
  OBVIOUS
<1>1. Cardinality(fetches) <= 1
  <2>1. CASE fetches = {}
    BY <2>1, FS_EmptySet
  <2>2. CASE fetches # {}
    <3>1. PICK f \in fetches : TRUE
      BY <2>2
    <3>2. fetches = {f}
      BY <3>1 DEF TableIInv, Alone
    <3> QED BY <3>2, FS_Singleton
  <2> QED BY <2>1, <2>2
<1>2. \A f \in fetches : f.page \in Pages /\ f.view \in Views
  BY DEF TableIInv, TableTypes, Requests
<1>3. PageTypeOK
  BY <1>1, <1>2 DEF TableIInv, TableTypes, NothingNewer, PageTypeOK
<1>4. ShownIsAsked
  BY DEF TableIInv, InView, ShownIsAsked, Quiet, Asked
<1> QED BY <1>3, <1>4 DEF TableIInv, PageInv

(* The page starts with the rows it was rendered with.                     *)
LEMMA TableStarts == PageInit => TableIInv
<1> SUFFICES ASSUME PageInit PROVE TableIInv
  OBVIOUS
<1>1. PICK v \in Views : typed = v /\ view = v /\ shown = [page |-> 1, view |-> v, version |-> 0]
  BY DEF PageInit
<1>2. shown.page = 1 /\ shown.view = v /\ shown.version = 0 /\ page = 1 /\ ~loading
  BY <1>1 DEF PageInit
<1>3. TableTypes
  BY <1>1, PageAssumption DEF PageInit, TableTypes
<1>4. NothingNewer /\ Alone /\ ReadAfterWrites
  BY <1>2 DEF PageInit, NothingNewer, Alone, ReadAfterWrites
<1>5. InView
  BY <1>1, <1>2 DEF PageInit, InView
<1>6. OwnWritesShown /\ LoadingIsTrue
  BY <1>2 DEF PageInit, OwnWritesShown, LoadingIsTrue
<1> QED BY <1>3, <1>4, <1>5, <1>6 DEF TableIInv

(* A new request takes the place of the one before it; what the sign says  *)
(* is true of it.                                                          *)
LEMMA FetchPageIs ==
  ASSUME TableTypes, LoadingIsTrue, NEW p \in Pages, NEW v \in Views, NEW silent \in BOOLEAN,
         FetchPage(p, v, silent)
  PROVE  /\ fetches' \subseteq Requests /\ loading' \in BOOLEAN /\ fetches' # {} /\ Alone'
         /\ \A f \in fetches' : f.page = p /\ f.view = v /\ ~f.read /\ f.version = 0
         /\ LoadingIsTrue'
<1> DEFINE f0 == [page |-> p, view |-> v, silent |-> silent, read |-> FALSE, version |-> 0]
<1>1. fetches' = {f0}
  BY DEF FetchPage
<1>2. f0 \in Requests
  BY DEF Requests
<1>3. CASE silent
  <2>1. loading' = (loading /\ \A f \in fetches : f.silent)
    BY <1>3 DEF FetchPage
  <2>2. ~loading' /\ loading' \in BOOLEAN
    BY <2>1 DEF LoadingIsTrue
  <2> QED BY <1>1, <1>2, <2>2 DEF LoadingIsTrue, Alone
<1>4. CASE ~silent
  <2>1. loading' = \A f \in fetches : f.silent
    BY <1>4 DEF FetchPage
  <2>2. loading' \in BOOLEAN
    BY <2>1
  <2> QED BY <1>1, <1>2, <1>4, <2>2 DEF LoadingIsTrue, Alone
<1> QED BY <1>3, <1>4

(* A request for the controls' own page and view.                          *)
LEMMA RefetchKeeps ==
  ASSUME TableIInv, NEW p \in Pages, NEW v \in Views, Refetch(p, v),
         view' = v, typed' \in Views, page' \in Pages,
         failed' \in BOOLEAN, acts' \in Nat,
         shown' \in [page : Pages, view : Views, version : Nat], shown'.version <= version,
         UNCHANGED <<operations, locked, version, written>>
  PROVE  TableIInv'
<1>1. FetchPage(p, v, FALSE) /\ adrift' = FALSE
  BY DEF Refetch
<1>2. TableTypes /\ LoadingIsTrue
  BY DEF TableIInv
<1>3. /\ fetches' \subseteq Requests /\ loading' \in BOOLEAN /\ fetches' # {} /\ Alone'
      /\ \A f \in fetches' : f.page = p /\ f.view = v /\ ~f.read /\ f.version = 0
      /\ LoadingIsTrue'
  BY <1>1, <1>2, FetchPageIs
<1>4. TableTypes'
  BY <1>1, <1>2, <1>3 DEF TableTypes
<1>5. NothingNewer'
  BY <1>2, <1>3 DEF TableIInv, TableTypes, NothingNewer
<1>6. ReadAfterWrites' /\ OwnWritesShown' /\ InView'
  BY <1>3 DEF ReadAfterWrites, OwnWritesShown, InView
<1> QED BY <1>3, <1>4, <1>5, <1>6 DEF TableIInv

(* The filters, the debounce and the pager.                                *)
LEMMA ControlsKeep ==
  ASSUME TableIInv, UpdateFilter \/ Debounced \/ TurnPage
  PROVE  TableIInv'
<1>1. CASE UpdateFilter
  BY <1>1 DEF UpdateFilter, Act, TableIInv, TableTypes, NothingNewer, Alone, ReadAfterWrites,
     InView, OwnWritesShown, LoadingIsTrue
<1>2. CASE Debounced
  <2>1. /\ view' = typed /\ page' = 1 /\ Refetch(1, typed)
        /\ UNCHANGED <<typed, shown, operations, locked, version, written, failed, acts>>
    BY <1>2 DEF Debounced
  <2>2. TableTypes /\ shown.version <= version
    BY DEF TableIInv, NothingNewer
  <2>3. typed \in Views /\ shown \in [page : Pages, view : Views, version : Nat]
        /\ failed \in BOOLEAN /\ acts \in Nat
    BY <2>2 DEF TableTypes
  <2> QED BY <2>1, <2>2, <2>3, PageAssumption, RefetchKeeps
<1>3. CASE TurnPage
  <2>1. PICK p \in Pages \cap {page - 1, page + 1} : page' = p /\ Refetch(p, view)
    BY <1>3 DEF TurnPage
  <2>2. /\ acts' = acts + 1
        /\ UNCHANGED <<typed, view, shown, operations, locked, version, written, failed>>
    BY <1>3 DEF TurnPage, Act
  <2>3. TableTypes /\ shown.version <= version
    BY DEF TableIInv, NothingNewer
  <2>4. typed \in Views /\ view \in Views /\ failed \in BOOLEAN /\ acts' \in Nat
        /\ shown \in [page : Pages, view : Views, version : Nat]
    BY <2>2, <2>3 DEF TableTypes
  <2> QED BY <2>1, <2>2, <2>3, <2>4, RefetchKeeps
<1> QED BY <1>1, <1>2, <1>3

(* The server reads the rows, after every write that has ended.            *)
LEMMA ServerReadsKeeps ==
  ASSUME TableIInv, NEW f \in fetches, ServerReads(f)
  PROVE  TableIInv'
<1> DEFINE g == [f EXCEPT !.read = TRUE, !.version = version]
<1>1. /\ fetches' = (fetches \ {f}) \cup {g}
      /\ UNCHANGED <<typed, view, page, loading, shown, operations, locked, version,
                     written, adrift, failed, acts>>
  BY DEF ServerReads
<1>2. TableTypes /\ f \in Requests /\ version \in Nat
  BY DEF TableIInv, TableTypes
<1>3. /\ g \in Requests /\ g.page = f.page /\ g.view = f.view /\ g.silent = f.silent
      /\ g.read /\ g.version = version
  BY <1>2 DEF Requests
<1>4. fetches = {f}
  BY DEF TableIInv, Alone
<1> HIDE DEF g
<1>5. fetches' = {g}
  BY <1>1, <1>4
<1>6. TableTypes'
  BY <1>1, <1>2, <1>3, <1>5 DEF TableTypes
<1>7. NothingNewer'
  BY <1>1, <1>2, <1>3, <1>5 DEF TableIInv, NothingNewer
<1>8. Alone' /\ OwnWritesShown'
  BY <1>5 DEF Alone, OwnWritesShown
<1>9. ReadAfterWrites'
  BY <1>1, <1>3, <1>5 DEF TableIInv, NothingNewer, ReadAfterWrites
<1>10. InView'
  BY <1>1, <1>3, <1>4, <1>5 DEF TableIInv, InView
<1>11. LoadingIsTrue'
  BY <1>1, <1>3, <1>4, <1>5 DEF TableIInv, LoadingIsTrue
<1> QED BY <1>6, <1>7, <1>8, <1>9, <1>10, <1>11 DEF TableIInv

(* The rows arrive, and are asked for again if they are for another page.  *)
LEMMA PageArrivesKeeps ==
  ASSUME TableIInv, NEW f \in fetches, PageArrives(f)
  PROVE  TableIInv'
<1>1. /\ f.read /\ shown' = [page |-> f.page, view |-> f.view, version |-> f.version]
      /\ page' = f.page /\ failed' = FALSE
      /\ UNCHANGED <<typed, view, operations, locked, version, written, acts>>
  BY DEF PageArrives
<1>2. TableTypes /\ f \in Requests /\ f.version <= version /\ f.version >= written
  BY <1>1 DEF TableIInv, TableTypes, NothingNewer, ReadAfterWrites
<1>3. /\ f.page \in Pages /\ f.view \in Views /\ f.version \in Nat /\ f.silent \in BOOLEAN
      /\ shown' \in [page : Pages, view : Views, version : Nat]
      /\ shown'.version = f.version /\ shown'.page = f.page /\ shown'.view = f.view
  BY <1>1, <1>2 DEF Requests
<1>4. CASE f.page # page
  <2>1. Refetch(f.page, view)
    BY <1>4 DEF PageArrives
  <2>2. typed \in Views /\ view \in Views /\ acts \in Nat
    BY <1>2 DEF TableTypes
  <2> QED BY <1>1, <1>2, <1>3, <2>1, <2>2, RefetchKeeps
<1>5. CASE f.page = page
  <2>1. fetches' = fetches \ {f} /\ adrift' = adrift /\ loading' = (loading /\ f.silent)
    BY <1>5 DEF PageArrives
  <2>2. fetches = {f}
    BY DEF TableIInv, Alone
  <2>3. fetches' = {}
    BY <2>1, <2>2
  <2>4. ~loading' /\ loading' \in BOOLEAN
    BY <2>1, <2>2 DEF TableIInv, LoadingIsTrue
  <2>5. TableTypes'
    BY <1>1, <1>2, <1>3, <2>1, <2>3, <2>4 DEF TableTypes
  <2>6. NothingNewer'
    BY <1>1, <1>2, <1>3, <2>3 DEF TableIInv, NothingNewer
  <2>7. Alone' /\ ReadAfterWrites' /\ LoadingIsTrue'
    BY <2>3, <2>4 DEF Alone, ReadAfterWrites, LoadingIsTrue
  <2>8. OwnWritesShown'
    BY <1>1, <1>2, <1>3 DEF OwnWritesShown
  <2>9. InView'
    BY <1>1, <1>3, <2>1, <2>3 DEF TableIInv, InView
  <2> QED BY <2>5, <2>6, <2>7, <2>8, <2>9 DEF TableIInv
<1> QED BY <1>4, <1>5

(* The request fails.                                                      *)
LEMMA PageFailsKeeps ==
  ASSUME TableIInv, NEW f \in fetches, PageFails(f)
  PROVE  TableIInv'
<1>1. /\ fetches' = fetches \ {f} /\ failed' = TRUE /\ loading' = (loading /\ f.silent)
      /\ UNCHANGED <<typed, view, page, shown, operations, locked, version, written, adrift,
                     acts>>
  BY DEF PageFails
<1>2. fetches = {f} /\ fetches' = {}
  BY <1>1 DEF TableIInv, Alone
<1>3. ~loading' /\ loading' \in BOOLEAN
  BY <1>1, <1>2 DEF TableIInv, LoadingIsTrue
<1>4. TableTypes'
  BY <1>1, <1>2, <1>3 DEF TableIInv, TableTypes
<1>5. NothingNewer'
  BY <1>1, <1>2 DEF TableIInv, NothingNewer
<1>6. Alone' /\ ReadAfterWrites' /\ LoadingIsTrue' /\ OwnWritesShown' /\ InView'
  BY <1>1, <1>2, <1>3 DEF Alone, ReadAfterWrites, LoadingIsTrue, OwnWritesShown, InView
<1> QED BY <1>4, <1>5, <1>6 DEF TableIInv

(* An operation on mappings starts, and the server writes for it.          *)
LEMMA OperateKeeps ==
  ASSUME TableIInv, NEW kind \in Operations, Operate(kind)
  PROVE  TableIInv'
<1> DEFINE o == [id |-> acts, page |-> IF kind = "one" THEN page ELSE 1, view |-> view,
                 silent |-> (kind = "one"), done |-> 0]
<1>1. /\ operations' = operations \cup {o} /\ locked' = TRUE /\ acts' = acts + 1
      /\ UNCHANGED <<typed, view, page, fetches, loading, shown, version, written, adrift,
                     failed>>
  BY DEF Operate, Act
<1>2. TableTypes
  BY DEF TableIInv
<1>3. o \in OperationSet /\ o.done = 0
  BY <1>2, PageAssumption DEF TableTypes, OperationSet
<1> HIDE DEF o
<1>4. TableTypes'
  BY <1>1, <1>2, <1>3 DEF TableTypes
<1>5. NothingNewer'
  BY <1>1, <1>2, <1>3 DEF TableIInv, TableTypes, NothingNewer
<1>6. Alone' /\ ReadAfterWrites' /\ InView' /\ OwnWritesShown' /\ LoadingIsTrue'
  BY <1>1 DEF TableIInv, Alone, ReadAfterWrites, InView, OwnWritesShown, LoadingIsTrue
<1> QED BY <1>4, <1>5, <1>6 DEF TableIInv

(* A write makes the mappings newer; nobody has seen it yet.               *)
LEMMA ServerWritesKeeps ==
  ASSUME TableIInv, NEW o \in operations, ServerWrites(o)
  PROVE  TableIInv'
<1> DEFINE q == [o EXCEPT !.done = version + 1]
<1>1. /\ version' = version + 1 /\ operations' = (operations \ {o}) \cup {q}
      /\ UNCHANGED <<typed, view, page, fetches, loading, shown, locked, written, adrift,
                     failed, acts>>
  BY DEF ServerWrites
<1>2. TableTypes /\ o \in OperationSet /\ version \in Nat
  BY DEF TableIInv, TableTypes
<1>3. q \in OperationSet /\ q.done = version + 1
  BY <1>2 DEF OperationSet
<1> HIDE DEF q
<1>4. TableTypes'
  BY <1>1, <1>2, <1>3 DEF TableTypes
<1>5. NothingNewer'
  <2>1. /\ written \in Nat /\ shown.version \in Nat
        /\ \A f \in fetches : f.version \in Nat
        /\ \A p \in operations : p.done \in Nat
    BY <1>2 DEF TableTypes, Requests, OperationSet
  <2> QED BY <1>1, <1>2, <1>3, <2>1 DEF TableIInv, NothingNewer
<1>6. Alone' /\ ReadAfterWrites' /\ InView' /\ OwnWritesShown' /\ LoadingIsTrue'
  BY <1>1 DEF TableIInv, Alone, ReadAfterWrites, InView, OwnWritesShown, LoadingIsTrue
<1> QED BY <1>4, <1>5, <1>6 DEF TableIInv

(* Its answer reloads the table.                                           *)
LEMMA OperationEndsKeeps ==
  ASSUME TableIInv, NEW o \in operations, OperationEnds(o)
  PROVE  TableIInv'
<1>1. /\ FetchPage(o.page, o.view, o.silent) /\ adrift' = (o.view # view)
      /\ written' = (IF o.done > written THEN o.done ELSE written)
      /\ operations' = operations \ {o} /\ locked' = FALSE
      /\ UNCHANGED <<typed, view, page, shown, version, failed, acts>>
  BY DEF OperationEnds, Reload
<1>2. TableTypes /\ LoadingIsTrue /\ o \in OperationSet
  BY DEF TableIInv, TableTypes
<1>3. o.page \in Pages /\ o.view \in Views /\ o.silent \in BOOLEAN /\ o.done \in Nat
  BY <1>2 DEF OperationSet
<1>4. /\ fetches' \subseteq Requests /\ loading' \in BOOLEAN /\ fetches' # {} /\ Alone'
      /\ \A f \in fetches' : f.page = o.page /\ f.view = o.view /\ ~f.read /\ f.version = 0
      /\ LoadingIsTrue'
  BY <1>1, <1>2, <1>3, FetchPageIs
<1>5. written' \in Nat /\ adrift' \in BOOLEAN
  BY <1>1, <1>2, <1>3 DEF TableTypes
<1>6. TableTypes'
  BY <1>1, <1>2, <1>4, <1>5 DEF TableTypes
<1>7. NothingNewer'
  <2>1. version \in Nat /\ o.done <= version /\ written <= version
    BY <1>2 DEF TableIInv, TableTypes, NothingNewer
  <2>2. written' <= version
    BY <1>1, <2>1
  <2> QED BY <1>1, <1>4, <2>1, <2>2 DEF TableIInv, NothingNewer
<1>8. ReadAfterWrites' /\ OwnWritesShown'
  BY <1>4 DEF ReadAfterWrites, OwnWritesShown
<1>9. InView'
  <2>1. ~adrift' => o.view = view
    BY <1>1
  <2> QED BY <1>1, <1>4, <2>1 DEF InView
<1> QED BY <1>4, <1>6, <1>7, <1>8, <1>9 DEF TableIInv

(* Every step of the page, the server and the operator keeps the invariant.*)
LEMMA TableKeeps == TableIInv /\ [PageNext]_pageVars => TableIInv'
<1> SUFFICES ASSUME TableIInv, [PageNext]_pageVars PROVE TableIInv'
  OBVIOUS
<1>1. CASE UpdateFilter \/ Debounced \/ TurnPage
  BY <1>1, ControlsKeep
<1>2. ASSUME NEW f \in fetches, ServerReads(f) \/ PageArrives(f) \/ PageFails(f)
      PROVE  TableIInv'
  BY <1>2, ServerReadsKeeps, PageArrivesKeeps, PageFailsKeeps
<1>3. ASSUME NEW kind \in Operations, Operate(kind)
      PROVE  TableIInv'
  BY <1>3, OperateKeeps
<1>4. ASSUME NEW o \in operations, ServerWrites(o) \/ OperationEnds(o)
      PROVE  TableIInv'
  BY <1>4, ServerWritesKeeps, OperationEndsKeeps
<1>5. CASE UNCHANGED pageVars
  BY <1>5 DEF pageVars, TableIInv, TableTypes, NothingNewer, Alone, ReadAfterWrites, InView,
     OwnWritesShown, LoadingIsTrue
<1> QED BY <1>1, <1>2, <1>3, <1>4, <1>5 DEF PageNext

(* With nothing under way the rows are those the controls ask for, they    *)
(* show the operator's own finished operations, and the loading sign goes  *)
(* out (SlackMappingsClient.tsx).                                          *)
THEOREM TableIsSound == PageSpec => []PageInv
  BY TableStarts, TableKeeps, TableImplies, PTL DEF PageSpec


-----------------------------------------------------------------------------
(* The job watch.  Attaching detaches, aborts, starts a session and        *)
(* subscribes in one step, so the lemmas follow the global session as a    *)
(* value g through Unsubscribe, SessionFor and Subscribe.                  *)

Global == [current : Nat, all : Seq(Session)]

(* One live poll loop at most, the global session's; before its loop is    *)
(* subscribed to, a session is live as well.                               *)
Lone(g) ==
  /\ g \in Global /\ g.current \in 0..Len(g.all)
  /\ \A s \in 1..Len(g.all) :
       (g.all[s].loop # "ended" /\ ~g.all[s].aborted) <=> s = g.current

(* Everyone subscribed to the global session, some excepted, watches its   *)
(* job and has not been told of an end since.                              *)
Waiting(g, except) ==
  g.current # None =>
    \A u \in g.all[g.current].subscribers :
      u.of \notin except =>
        watched[u.of] = g.all[g.current].job /\ told[u.of] = "nothing"

(* Who is subscribed has not been told of an end since.                    *)
Unheard ==
  session # None =>
    \A u \in sessions[session].subscribers : told[u.of] = "nothing"

(* No component has more requests in flight than were ever sent.           *)
AskingWasAsked == \A c \in Components : asking[c] <= asked

(* The inductive invariant.                                                *)
WatchIInv == WatchInv /\ Unheard /\ AskingWasAsked

-----------------------------------------------------------------------------
(* The global session as a value.                                          *)

(* Changing one session of the list leaves the others.                     *)
LEMMA UpdateOne ==
  ASSUME NEW g \in Global, NEW s \in 1..Len(g.all), NEW rec \in Session
  PROVE  /\ Update(g, s, rec) \in Global
         /\ Update(g, s, rec).current = g.current
         /\ Len(Update(g, s, rec).all) = Len(g.all)
         /\ Update(g, s, rec).all[s] = rec
         /\ \A t \in 1..Len(g.all) : t # s => Update(g, s, rec).all[t] = g.all[t]
<1> DEFINE all2 == [g.all EXCEPT ![s] = rec]
<1>1. g.all \in Seq(Session)
  BY DEF Global
<1>2. /\ all2 \in Seq(Session) /\ Len(all2) = Len(g.all) /\ all2[s] = rec
      /\ \A t \in 1..Len(g.all) : t # s => all2[t] = g.all[t]
  BY <1>1
<1>3. Update(g, s, rec).all = all2 /\ Update(g, s, rec).current = g.current
  BY DEF Update, Global
<1>4. Update(g, s, rec) = [g EXCEPT !.all = all2]
  BY DEF Update, Global
<1> HIDE DEF all2
<1>5. Update(g, s, rec) \in Global
  BY <1>2, <1>4 DEF Global
<1> QED
  BY <1>2, <1>3, <1>5

(* The closure of a component: some subscriptions go, or the session does. *)
LEMMA UnsubscribeLone ==
  ASSUME NEW g, Lone(g), NEW id, NEW except, Waiting(g, except)
  PROVE  Lone(Unsubscribe(g, id)) /\ Waiting(Unsubscribe(g, id), except)
<1>1. CASE id = NoId \/ g.current = None
  BY <1>1 DEF Unsubscribe
<1>2. CASE ~(id = NoId \/ g.current = None)
  <2> DEFINE s == g.all[g.current]
             rest == {u \in s.subscribers : u.id # id}
             rec == [s EXCEPT !.subscribers = rest, !.aborted = @ \/ rest = {}]
             h == Update(g, g.current, rec)
             n == [h EXCEPT !.current = IF rest = {} THEN None ELSE @]
  <2>1. g.current \in 1..Len(g.all) /\ g \in Global
    BY <1>2 DEF Lone, None
  <2>2. s \in Session
    BY <2>1 DEF Global
  <2>3. s.loop # "ended" /\ ~s.aborted
    BY <2>1 DEF Lone
  <2> HIDE DEF s
  <2>4. rec \in Session /\ rec.loop = s.loop /\ rec.job = s.job /\ rec.subscribers = rest
        /\ (rec.aborted <=> (rest = {}))
    BY <2>2, <2>3 DEF Session
  <2>5. rest \subseteq s.subscribers
    OBVIOUS
  <2> HIDE DEF rest
  <2> HIDE DEF rec
  <2>6. /\ h \in Global /\ h.current = g.current /\ Len(h.all) = Len(g.all)
        /\ h.all[g.current] = rec
        /\ \A t \in 1..Len(g.all) : t # g.current => h.all[t] = g.all[t]
    BY <2>1, <2>4, UpdateOne
  <2>7. Unsubscribe(g, id) = n
    BY <1>2 DEF Unsubscribe, s, rest, rec
  <2> HIDE DEF h
  <2>8. n \in Global /\ n.all = h.all /\ n.current = IF rest = {} THEN None ELSE g.current
    BY <2>6 DEF Global, None
  <2> HIDE DEF n
  <2>9. Lone(n)
    BY <2>1, <2>3, <2>4, <2>6, <2>8 DEF Lone, None
  <2>10. Waiting(n, except)
    BY <2>1, <2>4, <2>5, <2>6, <2>8 DEF Waiting, s
  <2> QED
    BY <2>7, <2>9, <2>10
<1> QED
  BY <1>1, <1>2

(* A session for job j: the one that polls it, or a new one after the old  *)
(* one has been told to stop.                                              *)
LEMMA SessionForLone ==
  ASSUME NEW g, Lone(g), NEW except, Waiting(g, except), NEW j \in Jobs
  PROVE  LET h == SessionFor(g, j)
         IN  /\ Lone(h) /\ Waiting(h, except)
             /\ h.current \in 1..Len(h.all) /\ h.all[h.current].job = j
<1>1. CASE g.current # None /\ g.all[g.current].job = j
  BY <1>1 DEF SessionFor, Lone, None
<1>2. CASE ~(g.current # None /\ g.all[g.current].job = j)
  <2> DEFINE old == Aborted(g)
             new == NewSession(j)
             h == [current |-> Len(old.all) + 1, all |-> Append(old.all, new)]
  <2>1. SessionFor(g, j) = h
    BY <1>2 DEF SessionFor
  <2>2. /\ old \in Global /\ Len(old.all) = Len(g.all)
        /\ \A s \in 1..Len(old.all) : old.all[s].loop = "ended" \/ old.all[s].aborted
    <3>1. CASE g.current = None
      BY <3>1 DEF Aborted, Lone, None, Global
    <3>2. CASE g.current # None
      <4> DEFINE rec == [g.all[g.current] EXCEPT !.aborted = TRUE]
      <4>1. g.current \in 1..Len(g.all) /\ g \in Global
        BY <3>2 DEF Lone, None
      <4>2. g.all[g.current] \in Session
        BY <4>1 DEF Global
      <4>3. rec \in Session /\ rec.aborted
        BY <4>2 DEF Session
      <4>4. old = Update(g, g.current, rec)
        BY <3>2 DEF Aborted
      <4> HIDE DEF rec, old
      <4>5. /\ old \in Global /\ Len(old.all) = Len(g.all)
            /\ old.all[g.current] = rec
            /\ \A t \in 1..Len(g.all) : t # g.current => old.all[t] = g.all[t]
        BY <4>1, <4>3, <4>4, UpdateOne
      <4> QED
        BY <4>1, <4>3, <4>5 DEF Lone
    <3> QED
      BY <3>1, <3>2
  <2> HIDE DEF old
  <2>3. /\ new \in Session /\ new.job = j /\ new.loop = "fetch" /\ ~new.aborted
        /\ new.subscribers = {}
    BY WatchAssumption DEF NewSession, Session
  <2> HIDE DEF new
  <2>4. old.all \in Seq(Session) /\ Len(old.all) \in Nat
    BY <2>2 DEF Global
  <2>5. /\ h.all \in Seq(Session) /\ Len(h.all) = Len(old.all) + 1
        /\ h.all[Len(old.all) + 1] = new
        /\ \A s \in 1..Len(old.all) : h.all[s] = old.all[s]
    BY <2>3, <2>4
  <2>6. h \in Global /\ h.current = Len(old.all) + 1
    BY <2>4, <2>5 DEF Global
  <2> HIDE DEF h
  <2>7. Lone(h)
    <3>1. ASSUME NEW s \in 1..Len(h.all)
          PROVE  h.all[s].loop # "ended" /\ ~h.all[s].aborted <=> s = h.current
      <4>1. CASE s = Len(old.all) + 1
        BY <2>3, <2>5, <2>6, <4>1
      <4>2. CASE s # Len(old.all) + 1
        <5>1. s \in 1..Len(old.all) /\ s # h.current
          BY <2>4, <2>5, <2>6, <3>1, <4>2
        <5> QED
          BY <2>2, <2>5, <5>1
      <4> QED
        BY <4>1, <4>2
    <3>2. h.current \in 0..Len(h.all)
      BY <2>4, <2>5, <2>6
    <3> QED
      BY <2>6, <3>1, <3>2 DEF Lone
  <2>8. Waiting(h, except)
    BY <2>3, <2>5, <2>6 DEF Waiting
  <2> QED
    BY <2>1, <2>3, <2>4, <2>5, <2>6, <2>7, <2>8
<1> QED
  BY <1>1, <1>2

(* A component that subscribes to a session for the job it now watches.    *)
LEMMA SubscribeLone ==
  ASSUME NEW g, Lone(g), NEW c \in Components, Waiting(g, {c}), g.current \in 1..Len(g.all)
  PROVE  LET n == Subscribe(g, c)
         IN  /\ Lone(n) /\ Waiting(n, {c}) /\ n.current = g.current /\ Len(n.all) = Len(g.all)
             /\ n.all[n.current].job = g.all[g.current].job
<1> DEFINE s == g.all[g.current]
           rec == [s EXCEPT !.subscribers = @ \cup {[id |-> s.nextId, of |-> c]},
                            !.nextId = @ + 1]
           n == Update(g, g.current, rec)
<1>1. g \in Global
  BY DEF Lone
<1>2. s \in Session
  BY <1>1 DEF Global
<1>3. Subscribe(g, c) = n
  BY DEF Subscribe
<1>4. g.all[g.current].loop # "ended" /\ ~g.all[g.current].aborted
  BY DEF Lone
<1>5. \A u \in s.subscribers : u.of \notin {c} =>
        watched[u.of] = s.job /\ told[u.of] = "nothing"
  BY DEF Waiting, None
<1> HIDE DEF s
<1>6. /\ rec = [s EXCEPT !.subscribers = s.subscribers \cup {[id |-> s.nextId, of |-> c]},
                         !.nextId = s.nextId + 1]
      /\ s.subscribers \cup {[id |-> s.nextId, of |-> c]} \in SUBSET Subscriber
      /\ s.nextId + 1 \in Nat \ {0}
  BY <1>2 DEF Session, Subscriber
<1>7. /\ rec \in Session /\ rec.loop = s.loop /\ rec.aborted = s.aborted /\ rec.job = s.job
      /\ rec.subscribers = s.subscribers \cup {[id |-> s.nextId, of |-> c]}
  BY <1>2, <1>6 DEF Session
<1> HIDE DEF rec
<1>8. /\ n \in Global /\ n.current = g.current /\ Len(n.all) = Len(g.all)
      /\ n.all[g.current] = rec
      /\ \A t \in 1..Len(g.all) : t # g.current => n.all[t] = g.all[t]
  BY <1>1, <1>7, UpdateOne
<1> HIDE DEF n
<1>9. Lone(n)
  BY <1>4, <1>7, <1>8 DEF Lone, s
<1>10. Waiting(n, {c})
  BY <1>5, <1>7, <1>8 DEF Waiting
<1> QED
  BY <1>3, <1>7, <1>8, <1>9, <1>10 DEF s

-----------------------------------------------------------------------------
(* The actions.                                                            *)

LEMMA WatchInitHolds == WatchInit => WatchIInv
BY WatchAssumption
   DEF WatchInit, WatchIInv, WatchInv, WatchTypeOK, OneLoop, SubscribersWatchTheJob,
       Unheard, AskingWasAsked, Live, None, NoId, NoJob

(* The invariant of the sessions, of the value and of the variables.       *)
LEMMA NowIsLone ==
  ASSUME WatchIInv
  PROVE  Lone(Now) /\ Waiting(Now, {})
<1>1. /\ sessions \in Seq(Session) /\ session \in 0..Len(sessions)
      /\ \A s \in 1..Len(sessions) : Live(s) <=> s = session
  BY DEF WatchIInv, WatchInv, WatchTypeOK, OneLoop
<1>2. Lone(Now)
  BY <1>1 DEF Now, Lone, Global, Live
<1>3. Waiting(Now, {})
  BY DEF Now, Waiting, WatchIInv, WatchInv, SubscribersWatchTheJob, Unheard
<1> QED
  BY <1>2, <1>3

(* What a step leaves in the sessions, once the global one is lone and     *)
(* everyone who is subscribed waits.                                       *)
LEMMA SessionsKept ==
  ASSUME NEW g, Lone(g), Becomes(g),
         g.current # None => \A u \in g.all[g.current].subscribers :
           watched'[u.of] = g.all[g.current].job /\ told'[u.of] = "nothing"
  PROVE  /\ sessions' \in Seq(Session) /\ session' \in 0..Len(sessions')
         /\ OneLoop' /\ SubscribersWatchTheJob' /\ Unheard'
BY DEF Lone, Global, Becomes, OneLoop, Live, SubscribersWatchTheJob, Unheard

(* A component attaches to the job that an answer names.                   *)
LEMMA AttachKeeps ==
  ASSUME WatchIInv, NEW c \in Components, Attach(c) PROVE WatchIInv'
<1> DEFINE g0 == Detached(c)
<1>1. Lone(g0) /\ Waiting(g0, {c})
  <2>1. Waiting(Now, {c})
    BY NowIsLone DEF Waiting
  <2> QED
    BY <2>1, NowIsLone, UnsubscribeLone DEF Detached
<1>2. PICK j \in Jobs :
        /\ Becomes(Subscribe(SessionFor(g0, j), c))
        /\ unsub' = [unsub EXCEPT ![c] = SessionFor(g0, j).all[SessionFor(g0, j).current].nextId]
        /\ watched' = [watched EXCEPT ![c] = j]
        /\ told' = [told EXCEPT ![c] = "nothing"]
  BY DEF Attach
<1> DEFINE g == SessionFor(g0, j)
           n == Subscribe(g, c)
<1> HIDE DEF g0
<1>3. /\ Lone(g) /\ Waiting(g, {c}) /\ g.current \in 1..Len(g.all)
      /\ g.all[g.current].job = j
  BY <1>1, SessionForLone
<1>4. g.all[g.current].nextId \in Nat
  <2>1. g.all[g.current] \in Session
    BY <1>3 DEF Lone, Global
  <2> QED
    BY <2>1 DEF Session
<1>5. /\ Becomes(n) /\ unsub' = [unsub EXCEPT ![c] = g.all[g.current].nextId]
      /\ watched' = [watched EXCEPT ![c] = j]
      /\ told' = [told EXCEPT ![c] = "nothing"]
  BY <1>2
<1> HIDE DEF g
<1>6. /\ Lone(n) /\ Waiting(n, {c}) /\ n.current = g.current /\ Len(n.all) = Len(g.all)
      /\ n.all[n.current].job = j
  BY <1>3, SubscribeLone
<1> HIDE DEF n
<1>7. n.current # None /\ n.all[n.current] \in Session
  BY <1>3, <1>6 DEF None, Lone, Global
<1>8. \A u \in n.all[n.current].subscribers : u.of \in Components
  BY <1>7 DEF Session, Subscriber
<1>9. /\ watched \in [Components -> Jobs \cup {NoJob}]
      /\ told \in [Components -> {"nothing", "done", "error"}]
  BY DEF WatchIInv, WatchInv, WatchTypeOK
<1>10. \A u \in n.all[n.current].subscribers :
          watched'[u.of] = n.all[n.current].job /\ told'[u.of] = "nothing"
  BY <1>5, <1>6, <1>7, <1>8, <1>9 DEF Waiting
<1>11. /\ sessions' \in Seq(Session) /\ session' \in 0..Len(sessions')
       /\ OneLoop' /\ SubscribersWatchTheJob' /\ Unheard'
  BY <1>5, <1>6, <1>10, SessionsKept
<1>12. WatchTypeOK' /\ AskingWasAsked'
  <2>1. /\ asking' = [asking EXCEPT ![c] = @ - 1] /\ asking[c] > 0
        /\ UNCHANGED <<server, place, asked>>
    BY DEF Attach
  <2> QED
    BY <1>4, <1>5, <1>9, <1>11, <2>1, WatchAssumption
    DEF WatchIInv, WatchInv, WatchTypeOK, AskingWasAsked
<1> QED
  BY <1>11, <1>12 DEF WatchIInv, WatchInv

(* What the other steps of components and the server leave alone.          *)
LEMMA SessionsUntouched ==
  ASSUME WatchIInv, UNCHANGED <<session, sessions, watched, told>>
  PROVE  OneLoop' /\ SubscribersWatchTheJob' /\ Unheard'
BY DEF WatchIInv, WatchInv, OneLoop, Live, SubscribersWatchTheJob, Unheard

LEMMA ComponentKeeps ==
  ASSUME WatchIInv, NEW c \in Components,
         Mount(c) \/ Click(c) \/ AskFails(c) \/ Unmount(c)
  PROVE  WatchIInv'
<1> USE WatchAssumption DEF WatchIInv, WatchInv, WatchTypeOK, AskingWasAsked
<1>1. CASE Mount(c)
  BY <1>1, SessionsUntouched DEF Mount
<1>2. CASE Click(c)
  BY <1>2, SessionsUntouched DEF Click
<1>3. CASE AskFails(c)
  BY <1>3, SessionsUntouched DEF AskFails
<1>4. CASE Unmount(c)
  <2> DEFINE g == Detached(c)
  <2>1. Lone(g) /\ Waiting(g, {})
    BY NowIsLone, UnsubscribeLone DEF Detached
  <2>2. Becomes(g) /\ UNCHANGED <<watched, told, server, asked, asking>>
        /\ place' = [place EXCEPT ![c] = "gone"] /\ unsub' = [unsub EXCEPT ![c] = NoId]
    BY <1>4 DEF Unmount
  <2> HIDE DEF g
  <2>3. /\ sessions' \in Seq(Session) /\ session' \in 0..Len(sessions')
        /\ OneLoop' /\ SubscribersWatchTheJob' /\ Unheard'
    BY <2>1, <2>2, SessionsKept DEF Waiting
  <2> QED
    BY <2>2, <2>3 DEF NoId
<1> QED
  BY <1>1, <1>2, <1>3, <1>4

(* A step of poll loop s that ends nothing: it sleeps, or fetches again.   *)
LEMMA LoopGoesOn ==
  ASSUME WatchIInv, NEW s \in 1..Len(sessions), ~sessions[s].aborted, sessions[s].loop # "ended",
         NEW rec \in Session, sessions' = [sessions EXCEPT ![s] = rec],
         ~rec.aborted, rec.loop # "ended", rec.job = sessions[s].job,
         rec.subscribers = sessions[s].subscribers,
         UNCHANGED <<server, components, unsub, told, session>>
  PROVE  WatchIInv'
<1>1. sessions \in Seq(Session)
  BY DEF WatchIInv, WatchInv, WatchTypeOK
<1>2. /\ sessions' \in Seq(Session) /\ Len(sessions') = Len(sessions) /\ sessions'[s] = rec
      /\ \A t \in 1..Len(sessions) : t # s => sessions'[t] = sessions[t]
  BY <1>1
<1>3. UNCHANGED <<place, asked, asking, watched>>
  BY DEF components
<1>4. OneLoop' /\ SubscribersWatchTheJob' /\ Unheard'
  BY <1>2, <1>3 DEF WatchIInv, WatchInv, WatchTypeOK, OneLoop, Live, SubscribersWatchTheJob,
     Unheard, None
<1> QED
  BY <1>2, <1>3, <1>4 DEF WatchIInv, WatchInv, WatchTypeOK, AskingWasAsked

(* A poll loop that ends: the global session is cleared if it is this one. *)
LEMMA LoopEnds ==
  ASSUME WatchIInv, NEW s \in 1..Len(sessions),
         NEW rec \in Session, sessions' = [sessions EXCEPT ![s] = rec],
         rec.loop = "ended", session' = IF session = s THEN None ELSE session,
         session # s => UNCHANGED told,
         UNCHANGED <<server, components>>,
         unsub' \in [Components -> Nat],
         told' \in [Components -> {"nothing", "done", "error"}]
  PROVE  WatchIInv'
<1>1. sessions \in Seq(Session) /\ session \in 0..Len(sessions)
  BY DEF WatchIInv, WatchInv, WatchTypeOK
<1>2. /\ sessions' \in Seq(Session) /\ Len(sessions') = Len(sessions) /\ sessions'[s] = rec
      /\ \A t \in 1..Len(sessions) : t # s => sessions'[t] = sessions[t]
  BY <1>1
<1>3. UNCHANGED <<place, asked, asking, watched>>
  BY DEF components
<1>4. session' \in 0..Len(sessions')
  BY <1>1, <1>2 DEF None
<1>5. OneLoop'
  BY <1>1, <1>2 DEF WatchIInv, WatchInv, OneLoop, Live, None
<1>6. SubscribersWatchTheJob' /\ Unheard'
  BY <1>1, <1>2, <1>3 DEF WatchIInv, WatchInv, SubscribersWatchTheJob, Unheard, None
<1> QED
  BY <1>2, <1>3, <1>4, <1>5, <1>6 DEF WatchIInv, WatchInv, WatchTypeOK, AskingWasAsked

(* A live loop is the global session's: whoever it tells of an end was     *)
(* waiting for one.                                                        *)
LEMMA CompleteKeeps ==
  ASSUME WatchIInv, NEW s \in 1..Len(sessions), Live(s),
         NEW outcome \in {"done", "error"}, Complete(s, outcome),
         UNCHANGED <<server, components>>
  PROVE  /\ WatchIInv'
         /\ \A c \in Components : told[c] # "nothing" => told'[c] = told[c]
<1>1. session = s
  BY DEF WatchIInv, WatchInv, OneLoop
<1>2. sessions[s] \in Session
  BY DEF WatchIInv, WatchInv, WatchTypeOK
<1> DEFINE left == {u \in sessions[s].subscribers : place[u.of] # "mounted"}
           rec == [sessions[s] EXCEPT !.loop = "ended", !.subscribers = left,
                     !.aborted = sessions[s].aborted \/
                       \A u \in sessions[s].subscribers : u.of \in Notified(s)]
<1>3. sessions' = [sessions EXCEPT ![s] = rec]
  BY <1>2 DEF Complete, Completed, WatchIInv, WatchInv, WatchTypeOK
<1>4. rec \in Session /\ rec.loop = "ended"
  BY <1>2 DEF Session
<1> HIDE DEF rec
<1>5. /\ told' = [c \in Components |-> IF c \in Notified(s) THEN outcome ELSE told[c]]
      /\ unsub' = [c \in Components |-> IF c \in Notified(s) THEN NoId ELSE unsub[c]]
      /\ session' = IF session = s THEN None ELSE session
  BY DEF Complete, Completed
<1>6. /\ told' \in [Components -> {"nothing", "done", "error"}]
      /\ unsub' \in [Components -> Nat]
  BY <1>5 DEF WatchIInv, WatchInv, WatchTypeOK, NoId
<1>7. WatchIInv'
  BY <1>1, <1>3, <1>4, <1>5, <1>6, LoopEnds
<1>8. \A c \in Notified(s) : told[c] = "nothing"
  BY <1>1 DEF Notified, WatchIInv, Unheard, None
<1> QED
  BY <1>5, <1>7, <1>8

(* What a poll without an end writes into its session.                     *)
Polled(r, l, a, n) == [r EXCEPT !.loop = l, !.answered = a, !.failures = n]

LEMMA PolledSession ==
  ASSUME NEW r \in Session, NEW l \in {"fetch", "sleep"}, NEW a \in BOOLEAN,
         NEW n \in 0..GiveUpAfter
  PROVE  /\ Polled(r, l, a, n) \in Session /\ Polled(r, l, a, n).loop = l
         /\ Polled(r, l, a, n).aborted = r.aborted
         /\ Polled(r, l, a, n).job = r.job
         /\ Polled(r, l, a, n).subscribers = r.subscribers
<1> DEFINE q == [r EXCEPT !.loop = l]
           q2 == [q EXCEPT !.answered = a]
           q3 == [q2 EXCEPT !.failures = n]
<1>1. /\ q \in Session /\ q.loop = l /\ q.aborted = r.aborted
      /\ q.job = r.job /\ q.subscribers = r.subscribers
  BY DEF Session
<1> HIDE DEF q
<1>2. /\ q2 \in Session /\ q2.loop = l /\ q2.aborted = r.aborted
      /\ q2.job = r.job /\ q2.subscribers = r.subscribers
  BY <1>1 DEF Session
<1> HIDE DEF q2
<1>3. /\ q3 \in Session /\ q3.loop = l /\ q3.aborted = r.aborted
      /\ q3.job = r.job /\ q3.subscribers = r.subscribers
  BY <1>2 DEF Session
<1>4. Polled(r, l, a, n) = q3
  BY DEF Polled, q, q2
<1> QED
  BY <1>3, <1>4

(* The steps of a poll loop.                                               *)
LEMMA PollKeeps ==
  ASSUME WatchIInv, NEW s \in 1..Len(sessions), PollStep(s)
  PROVE  /\ WatchIInv'
         /\ \A c \in Components : told[c] # "nothing" => told'[c] = told[c]
<1>1. sessions[s] \in Session
  BY DEF WatchIInv, WatchInv, WatchTypeOK
<1>2. ASSUME Ended(s), UNCHANGED <<server, components, unsub, told>>
      PROVE  WatchIInv'
  <2> DEFINE rec == [sessions[s] EXCEPT !.loop = "ended"]
  <2>1. rec \in Session /\ rec.loop = "ended"
    BY <1>1 DEF Session
  <2>2. sessions' = [sessions EXCEPT ![s] = rec]
        /\ session' = IF session = s THEN None ELSE session
    BY <1>2, <1>1 DEF Ended, WatchIInv, WatchInv, WatchTypeOK
  <2>3. told' \in [Components -> {"nothing", "done", "error"}] /\ unsub' \in [Components -> Nat]
    BY <1>2 DEF WatchIInv, WatchInv, WatchTypeOK
  <2> HIDE DEF rec
  <2> QED
    BY <1>2, <2>1, <2>2, <2>3, LoopEnds
<1>3. CASE PollAborted(s)
  BY <1>2, <1>3 DEF PollAborted
<1>4. CASE PollRunning(s)
  <2> DEFINE r == sessions[s]
             rec == Polled(r, "sleep", TRUE, 0)
  <2>0. 0 \in 0..GiveUpAfter
    BY WatchAssumption
  <2>1. /\ rec \in Session /\ rec.loop = "sleep" /\ rec.aborted = r.aborted
        /\ rec.job = r.job /\ rec.subscribers = r.subscribers
    BY <1>1, <2>0, PolledSession
  <2>2. sessions' = [sessions EXCEPT ![s] = rec]
    BY <1>1, <1>4 DEF PollRunning, Polled, Session, WatchIInv, WatchInv, WatchTypeOK
  <2> HIDE DEF rec
  <2> QED
    BY <1>4, <2>1, <2>2, LoopGoesOn DEF PollRunning, Polling
<1>5. CASE PollFails(s)
  <2> DEFINE r == sessions[s]
             rec == Polled(r, "sleep", r.answered, IF r.failures < GiveUpAfter THEN r.failures + 1 ELSE r.failures)
  <2>0. /\ r.answered \in BOOLEAN
        /\ (IF r.failures < GiveUpAfter THEN r.failures + 1 ELSE r.failures) \in 0..GiveUpAfter
    BY <1>1, WatchAssumption DEF Session
  <2>1. /\ rec \in Session /\ rec.loop = "sleep" /\ rec.aborted = r.aborted
        /\ rec.job = r.job /\ rec.subscribers = r.subscribers
    BY <1>1, <2>0, PolledSession
  <2>2. sessions' = [sessions EXCEPT ![s] = rec]
    BY <1>1, <1>5 DEF PollFails, Polled, Session, WatchIInv, WatchInv, WatchTypeOK
  <2> HIDE DEF rec
  <2> QED
    BY <1>5, <2>1, <2>2, LoopGoesOn DEF PollFails, Polling
<1>6. CASE Wake(s)
  <2> DEFINE r == sessions[s]
             rec == Polled(r, "fetch", r.answered, r.failures)
  <2>0. r.answered \in BOOLEAN /\ r.failures \in 0..GiveUpAfter
    BY <1>1 DEF Session
  <2>1. /\ rec \in Session /\ rec.loop = "fetch" /\ rec.aborted = r.aborted
        /\ rec.job = r.job /\ rec.subscribers = r.subscribers
    BY <1>1, <2>0, PolledSession
  <2>2. sessions' = [sessions EXCEPT ![s] = rec]
    BY <1>1, <1>6 DEF Wake, Polled, Session, WatchIInv, WatchInv, WatchTypeOK
  <2> HIDE DEF rec
  <2> QED
    BY <1>6, <2>1, <2>2, LoopGoesOn DEF Wake, Sleeping
<1>7. CASE PollDone(s)
  BY <1>7, CompleteKeeps DEF PollDone, Polling, Live
<1>8. CASE PollGivesUp(s)
  BY <1>8, CompleteKeeps DEF PollGivesUp, Polling, Live
<1>9. CASE Expire(s)
  <2>1. Live(s) /\ UNCHANGED <<server, components>>
    BY <1>9 DEF Expire, Sleeping, Live
  <2>2. CASE sessions[s].answered
    BY <1>9, <2>1, <2>2, CompleteKeeps DEF Expire
  <2>3. CASE ~sessions[s].answered
    BY <1>2, <1>9, <2>1, <2>3 DEF Expire
  <2> QED
    BY <2>2, <2>3
<1> QED
  BY <1>3, <1>4, <1>5, <1>6, <1>7, <1>8, <1>9 DEF PollStep

LEMMA WatchStep ==
  ASSUME WatchIInv, [WatchNext]_watchVars
  PROVE  /\ WatchIInv'
         /\ \A c \in Components : told[c] # "nothing" => told'[c] \in {told[c], "nothing"}
<1>1. CASE UNCHANGED watchVars
  BY <1>1 DEF watchVars, WatchIInv, WatchInv, WatchTypeOK, OneLoop, Live,
     SubscribersWatchTheJob, Unheard, AskingWasAsked
<1>2. ASSUME NEW c \in Components, Mount(c) \/ Click(c) \/ AskFails(c) \/ Unmount(c)
      PROVE  WatchIInv' /\ UNCHANGED told
  BY <1>2, ComponentKeeps DEF Mount, Click, AskFails, Unmount
<1>3. ASSUME NEW c \in Components, Attach(c)
      PROVE  WatchIInv' /\ \A d \in Components : told'[d] \in {told[d], "nothing"}
  <2>1. told' = [told EXCEPT ![c] = "nothing"]
    BY <1>3 DEF Attach
  <2> QED
    BY <1>3, <2>1, AttachKeeps DEF WatchIInv, WatchInv, WatchTypeOK
<1>4. ASSUME NEW s \in 1..Len(sessions), PollStep(s)
      PROVE  WatchIInv' /\ \A c \in Components : told[c] # "nothing" => told'[c] = told[c]
  BY <1>4, PollKeeps
<1>5. ASSUME NEW j \in Jobs, JobEnds(j) \/ JobForgotten(j)
      PROVE  WatchIInv' /\ UNCHANGED told
  BY <1>5, SessionsUntouched
  DEF JobEnds, JobForgotten, components, WatchIInv, WatchInv, WatchTypeOK, AskingWasAsked
<1> QED
  BY <1>1, <1>2, <1>3, <1>4, <1>5 DEF WatchNext

-----------------------------------------------------------------------------
(* The theorems.                                                           *)

(* There is one live poll loop, that of the global session, and a          *)
(* subscriber of it watches its job, however requests, answers, mounts and *)
(* polls interleave (attachToJob, subscribeRefreshJob, notifyComplete).    *)
THEOREM WatchSound == WatchSpec => []WatchInv
<1>1. WatchIInv /\ [WatchNext]_watchVars => WatchIInv'
  BY WatchStep
<1>2. WatchIInv => WatchInv
  BY DEF WatchIInv
<1> QED
  BY WatchInitHolds, <1>1, <1>2, PTL DEF WatchSpec

(* A component that was told of an end hears of no other until it attaches *)
(* again.                                                                  *)
THEOREM WatchToldOnce == WatchSpec => ToldOnce
<1>1. WatchIInv /\ [WatchNext]_watchVars => WatchIInv'
  BY WatchStep
<1>2. WatchIInv /\ [WatchNext]_watchVars
        => [\A c \in Components : told[c] # "nothing" =>
              told'[c] \in {told[c], "nothing"}]_watchVars
  BY WatchStep
<1> QED
  BY WatchInitHolds, <1>1, <1>2, PTL DEF WatchSpec, ToldOnce
-----------------------------------------------------------------------------
(* The files of the board.  Lines of one key are ordered by posted, and a  *)
(* set of them has a first and a last because numbers are well-founded.    *)

Less == {p \in Nat \X Nat : p[1] < p[2]}

(* The library's theorem, of a relation that the provers can look into.    *)
LEMMA LessIsWellFounded == IsWellFoundedOn(Less, Nat)
  BY NatLessThanWellFounded, Zenon DEF OpToRel, Less

(* A set of numbers that is not empty has a least one.                     *)
LEMMA LeastExists ==
  ASSUME NEW S, S \subseteq Nat, S # {}
  PROVE  \E r \in S : \A s \in S : r <= s
<1>1. PICK r \in S : \A s \in S : ~ (<<s, r>> \in Less)
  BY LessIsWellFounded, WFMin
<1>2. \A s \in S : ~ (s < r)
  BY <1>1 DEF Less
<1> QED
  BY <1>2

(* And a greatest one if it is bounded.                                    *)
LEMMA GreatestExists ==
  ASSUME NEW n \in Nat, NEW S, S \subseteq 0..n, S # {}
  PROVE  \E r \in S : \A s \in S : s <= r
<1> DEFINE T == {n - s : s \in S}
<1>1. \A s \in S : s \in 0..n /\ n - s \in Nat
  OBVIOUS
<1>2. T \subseteq Nat /\ T # {}
  BY <1>1
<1>3. PICK t \in T : \A u \in T : t <= u
  <2> HIDE DEF T
  <2> QED BY <1>2, LeastExists
<1>4. PICK r \in S : t = n - r
  BY <1>3
<1>5. \A s \in S : n - r <= n - s
  BY <1>3, <1>4
<1> QED
  BY <1>1, <1>5

(* The last of some lines is one of them.                                  *)
LEMMA LatestIs ==
  ASSUME NEW L, L \subseteq Entry, L # {}
  PROVE  Latest(L) \in L /\ \A f \in L : f.posted <= Latest(L).posted
<1> DEFINE P == {e.posted : e \in L}
<1>1. MaxLines \in Nat /\ \A e \in L : e \in Entry
  BY LogAssumption
<1>2. P \subseteq 0..MaxLines /\ P # {}
  BY <1>1 DEF Entry
<1>3. PICK r \in P : \A s \in P : s <= r
  <2> HIDE DEF P
  <2> QED BY <1>1, <1>2, GreatestExists
<1>4. PICK e \in L : e.posted = r
  BY <1>3
<1>5. \A f \in L : f.posted <= e.posted
  BY <1>3, <1>4
<1> QED
  BY <1>5 DEF Latest

(* The newest of some days.                                                *)
LEMMA NewestDay ==
  ASSUME NEW n \in Nat, NEW S, S \subseteq 1..n, S # {}
  PROVE  Max(S) \in S /\ \A d \in S : d <= Max(S)
<1>1. S \subseteq 0..n
  OBVIOUS
<1>2. PICK r \in S : \A s \in S : s <= r
  BY <1>1, GreatestExists
<1>3. \A s \in S : r >= s
  BY <1>1, <1>2
<1>4. Max(S) \in S /\ \A s \in S : Max(S) >= s
  BY <1>3, Zenon DEF Max
<1> QED
  BY <1>1, <1>4

-----------------------------------------------------------------------------
(* The inductive invariant.                                                *)

Phases == {"idle", "document", "prune", "replace", "append"}
Scan == [at : Phases, day : 1..MaxDay, full : BOOLEAN, prior : SUBSET Entry,
         ctas : SUBSET Keys, cards : SUBSET Ids, alone : BOOLEAN]
Rewrite == [id : Ids, status : Statuses, copy : SUBSET Entry]

OnePerKey(cards) == \A i, j \in cards : i[2] = j[2] => i = j

(* A file has its lines of one key at different moments, none of the days  *)
(* to come, nor after n writes.                                            *)
Filed(L, day, n) ==
  /\ L \subseteq Entry
  /\ \A e \in L : e.posted <= n /\ e.id[1] <= day
  /\ \A e, f \in L : KeyOf(e) = KeyOf(f) /\ e.posted = f.posted => e = f

LogTypes ==
  /\ today \in 1..MaxDay /\ lines \in 0..MaxLines /\ Filed(log, today, lines)
  /\ documents \subseteq 1..today /\ scans \in [1..MaxDay -> SUBSET Ids]
  /\ \A d \in 1..MaxDay : /\ d \notin documents => scans[d] = {}
                       /\ OnePerKey(scans[d]) /\ \A i \in scans[d] : i[1] <= d
  /\ known \in [Keys -> Statuses \cup {"none"}]
  /\ mixed \in BOOLEAN /\ older \subseteq Keys /\ regenerated \in BOOLEAN

(* What a scan is about to write.                                          *)
ScanTyped(k, day, n) ==
  /\ k.day <= day /\ Filed(k.prior, k.day, n)
  /\ OnePerKey(k.cards) /\ \A i \in k.cards : i[1] <= k.day
  /\ k.at \in {"prune", "replace"} => k.full
  /\ k.at = "append" => ~k.full
  /\ k.full => k.cards = {<<k.day, c>> : c \in k.ctas}

WriterTypes ==
  /\ scanner \in [Scanners -> Scan]
  /\ \A s \in Scanners : IF scanner[s].at = "idle" THEN scanner[s] = Idle
                         ELSE ScanTyped(scanner[s], today, lines)
  /\ rewriting # NotRewriting =>
       /\ rewriting \in Rewrite /\ Filed(rewriting.copy, today, lines)
       /\ \E e \in rewriting.copy : e.id = rewriting.id

(* Whoever is alone is the only writer, and so is everybody as long as     *)
(* nothing got mixed up.                                                   *)
Sole(s) == scanner[s].at # "idle" /\ scanner[s].alone

OneWriter ==
  /\ \A s \in Scanners : Sole(s) =>
       /\ rewriting = NotRewriting
       /\ \A t \in Scanners \ {s} : scanner[t].at = "idle"
  /\ ~mixed => /\ rewriting # NotRewriting => \A s \in Scanners : scanner[s].at = "idle"
               /\ \A s \in Scanners : scanner[s].at # "idle" => scanner[s].alone

(* What a scan that is alone has written is still there.                   *)
SoleScans ==
  \A s \in Scanners : Sole(s) =>
    LET k == scanner[s] IN
    /\ documents \subseteq 1..k.day
    /\ k.at # "document" => k.day \in documents /\ scans[k.day] = k.cards
    /\ k.at = "replace" => documents = {k.day} /\ log = {}

IdsOf(L) == {e.id : e \in L}

Regenerated ==
  regenerated =>
    /\ ~mixed /\ \A s \in Scanners : scanner[s].at = "idle"
    /\ \E d \in 1..MaxDay : documents = {d} /\ scans[d] = IdsOf(log)

(* As long as nothing got mixed up: a later line of a key is of a later    *)
(* day, the newest has what the operator said (K), and an older one is no  *)
(* longer updated, but for the keys of which the operator changed it (O).  *)
Ascending(L) == \A e, f \in L : KeyOf(e) = KeyOf(f) /\ e.posted < f.posted => e.id[1] < f.id[1]

NewestOf(e, L) == e \in L /\ \A f \in L : KeyOf(f) = KeyOf(e) => f.posted <= e.posted

Remembered(L, K) ==
  \A k \in Keys : K[k] # "none" => \E e \in L : NewestOf(e, L) /\ KeyOf(e) = k /\ e.status = K[k]

Rests(e, day) == ~Open(e) \/ ~Recent(e, day)
OlderRest(L, O, day) ==
  \A e, f \in L : KeyOf(e) = KeyOf(f) /\ e.posted < f.posted /\ KeyOf(e) \notin O => Rests(e, day)

Sound(L, K, O, day) == Ascending(L) /\ Remembered(L, K) /\ OlderRest(L, O, day)

NoneAfter(i, L, O) == i[2] \notin O => \A e \in L : KeyOf(e) = i[2] => e.id[1] <= i[1]

(* The cards of a document are lines of the log, and the newest ones.      *)
Shows(cards, L, O) == \A i \in cards : i \in IdsOf(L) /\ NoneAfter(i, L, O)

(* A card of a filtered scan is that of a line, or a new one in the place  *)
(* of lines that are no longer updated.                                    *)
Fits(i, L, O, day) ==
  /\ \/ i \in IdsOf(L)
     \/ i[1] = day /\ \A e \in L : KeyOf(e) = i[2] => Rests(e, day)
  /\ NoneAfter(i, L, O)

CleanScan(k) ==
  /\ Sound(k.prior, known, older, today)
  /\ k.at # "replace" => k.prior = log
  /\ ~k.full => \A i \in k.cards : Fits(i, k.prior, older, k.day)

Clean ==
  ~mixed =>
    /\ rewriting # NotRewriting => rewriting.copy = log
    /\ (\A s \in Scanners : scanner[s].at \in {"idle", "document"}) =>
         Sound(log, known, older, today) /\ Shows(NewestDocument, log, older)
    /\ \A s \in Scanners : scanner[s].at # "idle" => CleanScan(scanner[s])

LogIInv == LogTypes /\ WriterTypes /\ OneWriter /\ SoleScans /\ Regenerated /\ Clean

(* It holds of an empty directory.                                         *)
LEMMA LogBegins == CtaLogInit => LogIInv
<1> SUFFICES ASSUME CtaLogInit PROVE LogIInv
  OBVIOUS
<1> USE DEF CtaLogInit
<1>1. MaxDay \in Nat \ {0} /\ MaxLines \in Nat
  BY LogAssumption
<1>2. LogTypes
  <2>1. today \in 1..MaxDay /\ lines \in 0..MaxLines /\ Filed(log, today, lines)
    BY <1>1 DEF Filed
  <2>2. /\ documents \subseteq 1..today /\ scans \in [1..MaxDay -> SUBSET Ids]
        /\ known \in [Keys -> Statuses \cup {"none"}]
    OBVIOUS
  <2>3. \A d \in 1..MaxDay : scans[d] = {}
    OBVIOUS
  <2> QED
    BY <2>1, <2>2, <2>3, Zenon DEF LogTypes, OnePerKey
<1>3. Idle \in Scan /\ Idle.at = "idle"
  BY <1>1 DEF Idle, Scan, Phases
<1>4. WriterTypes
  BY <1>3 DEF WriterTypes
<1>5. OneWriter /\ SoleScans /\ Regenerated
  BY <1>3 DEF OneWriter, SoleScans, Regenerated, Sole
<1>6. Clean
  BY <1>3 DEF Clean, Sound, Ascending, Remembered, OlderRest, Shows, NewestDocument
<1> QED
  BY <1>2, <1>4, <1>5, <1>6 DEF LogIInv

(* What it says of the files is what is promised.                          *)
LEMMA LogImplied == LogIInv => LogInv
<1> SUFFICES ASSUME LogIInv PROVE LogInv
  OBVIOUS
<1> USE DEF LogIInv
<1>1. MaxDay \in Nat \ {0} /\ MaxLines \in Nat
  BY LogAssumption
<1>2. CtaLogTypeOK
  <2>1. \A s \in Scanners : scanner[s].ctas \subseteq Keys /\ scanner[s].day <= today
    BY <1>1 DEF WriterTypes, Scan, ScanTyped, Idle, LogTypes
  <2> QED
    BY <1>1, <2>1 DEF CtaLogTypeOK, LogTypes, Filed
<1>3. /\ NewestDocument \subseteq Ids /\ OnePerKey(NewestDocument)
  <2>1. CASE documents = {}
    BY <2>1 DEF NewestDocument, OnePerKey
  <2>2. CASE documents # {}
    <3>1. Max(documents) \in 1..MaxDay
      <4>1. today \in Nat /\ documents \subseteq 1..today /\ today <= MaxDay
        BY <1>1 DEF LogTypes
      <4>2. Max(documents) \in documents
        BY <2>2, <4>1, NewestDay
      <4>3. Max(documents) \in 1..today
        BY <4>1, <4>2, Zenon
      <4> HIDE DEF LogIInv
      <4> QED BY <1>1, <4>1, <4>3
    <3> QED
      BY <2>2, <3>1 DEF NewestDocument, LogTypes
  <2> QED BY <2>1, <2>2
<1>4. log \subseteq Entry /\ \A e, f \in log : KeyOf(e) = KeyOf(f) /\ e.posted = f.posted => e = f
  BY DEF LogTypes, Filed
<1>5. OneCardPerKey
  <2> SUFFICES ASSUME NEW i \in Cards, NEW j \in Cards, i[2] = j[2]
               PROVE  i = j
    BY DEF OneCardPerKey
  <2>1. CASE i \in NewestDocument /\ j \in NewestDocument
    BY <2>1, <1>3 DEF OnePerKey
  <2>2. CASE i \in FromLog /\ j \in FromLog
    <3>1. PICK e \in Uncovered : e.id = i /\ \A g \in log : KeyOf(g) = KeyOf(e) => e.posted <= g.posted
      BY <2>2 DEF FromLog
    <3>2. PICK f \in Uncovered : f.id = j /\ \A g \in log : KeyOf(g) = KeyOf(f) => f.posted <= g.posted
      BY <2>2 DEF FromLog
    <3>3. e \in log /\ f \in log /\ KeyOf(e) = KeyOf(f)
      BY <3>1, <3>2 DEF Uncovered, KeyOf
    <3>4. e.posted \in Nat /\ f.posted \in Nat
      BY <1>1, <1>4, <3>3 DEF Entry
    <3>5. e.posted = f.posted
      BY <3>1, <3>2, <3>3, <3>4
    <3> QED
      BY <1>4, <3>1, <3>2, <3>3, <3>5
  <2>3. ASSUME NEW a \in NewestDocument, NEW b \in FromLog
        PROVE  a[2] # b[2]
    BY DEF FromLog, Uncovered, KeyOf
  <2> QED
    BY <2>1, <2>2, <2>3 DEF Cards
<1>6. OneGeneration
  <2> SUFFICES ASSUME regenerated
               PROVE  /\ \E d \in 1..MaxDay : documents = {d}
                      /\ NewestDocument = {e.id : e \in log} /\ Cards = NewestDocument
    BY DEF OneGeneration
  <2>1. PICK d \in 1..MaxDay : documents = {d} /\ scans[d] = IdsOf(log)
    BY DEF Regenerated
  <2>2. Max(documents) = d
    <3>1. MaxDay \in Nat /\ documents \subseteq 1..MaxDay /\ documents # {}
      BY <1>1, <2>1
    <3> QED BY <2>1, <3>1, NewestDay
  <2>3. NewestDocument = {e.id : e \in log}
    BY <2>1, <2>2 DEF NewestDocument, IdsOf
  <2>4. Uncovered = {}
    BY <2>3 DEF Uncovered, KeyOf
  <2> QED
    BY <2>1, <2>3, <2>4 DEF Cards, FromLog
<1>7. ASSUME Settled
      PROVE  Sound(log, known, older, today) /\ Shows(NewestDocument, log, older) /\ ~mixed
  BY <1>7 DEF Settled, Clean
<1>8. ProgressKept
  <2> SUFFICES ASSUME Settled, NEW k \in Keys, known[k] # "none"
               PROVE  \E e \in log : KeyOf(e) = k /\ e = Latest({f \in log : KeyOf(f) = k})
                                       /\ e.status = known[k]
    BY DEF ProgressKept
  <2>1. PICK e \in log : NewestOf(e, log) /\ KeyOf(e) = k /\ e.status = known[k]
    BY <1>7 DEF Sound, Remembered
  <2> DEFINE same == {f \in log : KeyOf(f) = k}
  <2>2. Latest(same) \in same /\ \A f \in same : f.posted <= Latest(same).posted
    BY <1>4, <2>1, LatestIs
  <2>3. e.posted \in Nat /\ Latest(same).posted \in Nat
    BY <1>1, <1>4, <2>2 DEF Entry
  <2>4. e.posted = Latest(same).posted
    BY <2>1, <2>2, <2>3 DEF NewestOf
  <2>5. e = Latest(same)
    BY <1>4, <2>1, <2>2, <2>4
  <2> QED
    BY <2>1, <2>5
<1>9. CardsAreTracked
  BY <1>7 DEF CardsAreTracked, Cards, FromLog, Uncovered, Shows, IdsOf
<1>10. DocumentShowsNewest
  <2> SUFFICES ASSUME Settled, NEW i \in NewestDocument, i[2] \notin older
               PROVE  /\ \A e \in log : KeyOf(e) = i[2] => e.id[1] <= i[1]
                      /\ known[i[2]] # "none" => Tracking(i) = known[i[2]]
    BY DEF DocumentShowsNewest
  <2>1. i \in Ids /\ i \in IdsOf(log) /\ \A e \in log : KeyOf(e) = i[2] => e.id[1] <= i[1]
    BY <1>3, <1>7 DEF Shows, NoneAfter
  <2>2. ASSUME known[i[2]] # "none"
        PROVE  Tracking(i) = known[i[2]]
    <3>1. i[2] \in Keys
      BY <2>1 DEF Ids
    <3>2. PICK e \in log : NewestOf(e, log) /\ KeyOf(e) = i[2] /\ e.status = known[i[2]]
      BY <1>7, <2>2, <3>1 DEF Sound, Remembered
    <3> DEFINE same == {f \in log : f.id = i}
    <3>3. same # {} /\ same \subseteq Entry
      BY <1>4, <2>1 DEF IdsOf
    <3>4. Latest(same) \in same
      BY <3>3, LatestIs
    <3>5. Latest(same) = e
      <4> DEFINE l == Latest(same)
      <4>1. l \in log /\ l.id = i /\ l \in Entry /\ e \in Entry
        BY <1>4, <3>4
      <4>2. KeyOf(l) = KeyOf(e) /\ e.id[1] <= l.id[1] /\ l.posted <= e.posted
        BY <2>1, <3>2, <4>1 DEF NewestOf, KeyOf
      <4>3. /\ l.posted \in Nat /\ e.posted \in Nat /\ l.id[1] \in Nat /\ e.id[1] \in Nat
        BY <1>1, <4>1 DEF Entry, Ids
      <4>4. ~ (l.posted < e.posted)
        BY <1>7, <4>1, <4>2, <4>3 DEF Sound, Ascending
      <4>5. l.posted = e.posted
        BY <4>2, <4>3, <4>4
      <4> QED
        BY <1>4, <4>1, <4>2, <4>5
    <3> QED
      BY <3>2, <3>3, <3>5 DEF Tracking
  <2> QED
    BY <2>1, <2>2
<1> QED
  BY <1>2, <1>5, <1>6, <1>8, <1>9, <1>10 DEF LogInv
-----------------------------------------------------------------------------
(* What the steps need to know of lines and files.                         *)

(* The parts of a line.                                                    *)
LEMMA PartsOfEntry ==
  ASSUME NEW e \in Entry
  PROVE  /\ e.id \in Ids /\ e.id[1] \in 1..MaxDay /\ e.id[1] \in Nat /\ e.id[2] \in Keys
         /\ KeyOf(e) = e.id[2] /\ e.id = <<e.id[1], e.id[2]>>
         /\ e.status \in Statuses /\ e.posted \in 1..MaxLines /\ e.posted \in Nat
<1>1. MaxDay \in Nat \ {0} /\ MaxLines \in Nat
  BY LogAssumption
<1>2. e.id \in Ids /\ e.status \in Statuses /\ e.posted \in 1..MaxLines
  BY DEF Entry
<1> QED
  BY <1>1, <1>2 DEF Ids, KeyOf

(* A file stays one as days pass and more is written.                      *)
LEMMA FiledLater ==
  ASSUME NEW L, NEW d \in 1..MaxDay, NEW n \in 0..MaxLines, Filed(L, d, n),
         NEW c \in 1..MaxDay, d <= c, NEW m \in 0..MaxLines, n <= m
  PROVE  Filed(L, c, m)
<1>1. MaxDay \in Nat \ {0} /\ MaxLines \in Nat
  BY LogAssumption
<1>2. \A e \in L : e.posted <= m /\ e.id[1] <= c
  <2> TAKE e \in L
  <2>1. e.posted \in Nat /\ e.id[1] \in Nat /\ e.posted <= n /\ e.id[1] <= d
    BY PartsOfEntry DEF Filed
  <2> QED BY <1>1, <2>1
<1> QED
  BY <1>2 DEF Filed

(* And so do a scan's plans.                                               *)
LEMMA ScanLater ==
  ASSUME NEW k \in Scan, NEW d \in 1..MaxDay, NEW n \in 0..MaxLines, ScanTyped(k, d, n),
         NEW c \in 1..MaxDay, d <= c, NEW m \in 0..MaxLines, n <= m
  PROVE  ScanTyped(k, c, m)
<1>1. k.day \in 1..MaxDay /\ k.day <= d
  BY DEF Scan, ScanTyped
<1>2. k.day <= c /\ k.day <= k.day
  BY <1>1, LogAssumption
<1>3. Filed(k.prior, k.day, m)
  BY <1>1, <1>2, FiledLater DEF ScanTyped
<1> QED
  BY <1>2, <1>3 DEF ScanTyped

(* A line that is no longer updated is not on later days either.           *)
LEMMA RestsLater ==
  ASSUME NEW e \in Entry, NEW d \in 1..MaxDay, NEW c \in 1..MaxDay, d <= c, Rests(e, d)
  PROVE  Rests(e, c)
<1>1. e.id[1] \in Nat /\ d \in Nat /\ c \in Nat /\ DedupWindow \in Nat
  BY PartsOfEntry, LogAssumption
<1> QED
  BY <1>1 DEF Rests, Recent

(* So nothing is lost by the passing of days.                              *)
LEMMA SoundLater ==
  ASSUME NEW L, L \subseteq Entry, NEW K, NEW O, NEW d \in 1..MaxDay, NEW c \in 1..MaxDay, d <= c,
         Sound(L, K, O, d)
  PROVE  Sound(L, K, O, c)
BY RestsLater DEF Sound, OlderRest

(* What a filtered scan does about one CTA: one card at most, of its key.  *)
LEMMA CardForTyped ==
  ASSUME NEW k \in Keys, NEW L, NEW day \in 1..MaxDay, NEW n, Filed(L, day, n),
         NEW changed \in BOOLEAN
  PROVE  /\ CardFor(k, L, day, changed) \subseteq Ids
         /\ \A i \in CardFor(k, L, day, changed) : i[2] = k /\ i[1] <= day
         /\ \A i, j \in CardFor(k, L, day, changed) : i = j
<1> DEFINE open == OpenFor(k, L)
<1>1. <<day, k>> \in Ids /\ <<day, k>>[1] = day /\ <<day, k>>[2] = k /\ day <= day
  BY LogAssumption DEF Ids
<1>2. CASE Decision(k, L, day, changed) = "create"
  BY <1>1, <1>2 DEF CardFor
<1>3. CASE Decision(k, L, day, changed) = "update"
  <2>1. open # {} /\ open \subseteq Entry
    BY <1>3 DEF Decision, OpenFor, Filed
  <2>2. Latest(open) \in open
    BY <2>1, LatestIs
  <2>3. Latest(open) \in L /\ KeyOf(Latest(open)) = k
    BY <2>2 DEF OpenFor
  <2>4. Latest(open).id \in Ids /\ Latest(open).id[2] = k /\ Latest(open).id[1] <= day
    BY <2>3, PartsOfEntry DEF Filed
  <2>5. CardFor(k, L, day, changed) = {Latest(open).id}
    BY <1>3 DEF CardFor
  <2> HIDE DEF open
  <2> QED
    BY <2>4, <2>5
<1>4. CASE Decision(k, L, day, changed) \notin {"create", "update"}
  BY <1>4 DEF CardFor
<1> QED
  BY <1>2, <1>3, <1>4

(* A new card takes the place of lines that are no longer updated, and the *)
(* line that is updated is the newest one.                                 *)
LEMMA CardForFits ==
  ASSUME NEW k \in Keys, NEW L, NEW day \in 1..MaxDay, NEW n, Filed(L, day, n),
         NEW changed \in BOOLEAN, NEW K, NEW O, Sound(L, K, O, day),
         NEW i \in CardFor(k, L, day, changed)
  PROVE  Fits(i, L, O, day)
<1> DEFINE open == OpenFor(k, L)
           last == Latest(open)
<1>1. \A e \in L : e \in Entry /\ e.id[1] <= day
  BY DEF Filed
<1>2. ASSUME open # {}
      PROVE  last \in L /\ KeyOf(last) = k /\ Open(last) /\ \A f \in open : f.posted <= last.posted
  <2>1. open \subseteq Entry
    BY <1>1 DEF OpenFor
  <2>2. last \in open /\ \A f \in open : f.posted <= last.posted
    BY <1>2, <2>1, LatestIs
  <2> QED
    BY <2>2 DEF OpenFor
<1>3. CASE Decision(k, L, day, changed) = "create"
  <2>1. i = <<day, k>> /\ i[1] = day /\ i[2] = k
    BY <1>3 DEF CardFor
  <2>2. open = {} \/ ~Recent(last, day)
    BY <1>3 DEF Decision
  <2>3. ASSUME NEW e \in L, KeyOf(e) = k, Open(e)
        PROVE  ~Recent(e, day)
    <3>1. e \in open
      BY <2>3 DEF OpenFor
    <3>2. last \in L /\ KeyOf(last) = k /\ e.posted <= last.posted /\ ~Recent(last, day)
      BY <3>1, <1>2, <2>2
    <3>3. /\ e.posted \in Nat /\ last.posted \in Nat /\ e.id[1] \in Nat /\ last.id[1] \in Nat
          /\ DedupWindow \in Nat /\ day \in Nat
      BY <1>1, <3>2, PartsOfEntry, LogAssumption
    <3>4. e.id[1] <= last.id[1]
      <4>1. CASE e.posted = last.posted
        BY <4>1, <2>3, <3>2, <3>3 DEF Filed
      <4>2. CASE e.posted < last.posted
        BY <4>2, <2>3, <3>2, <3>3 DEF Sound, Ascending
      <4> QED BY <3>2, <3>3, <4>1, <4>2
    <3> QED
      BY <3>2, <3>3, <3>4 DEF Recent
  <2>4. \A e \in L : KeyOf(e) = k => Rests(e, day)
    BY <2>3 DEF Rests
  <2> QED
    BY <1>1, <2>1, <2>4 DEF Fits, NoneAfter
<1>4. CASE Decision(k, L, day, changed) = "update"
  <2>1. open # {} /\ Recent(last, day)
    BY <1>4 DEF Decision
  <2>2. last \in L /\ KeyOf(last) = k /\ Open(last) /\ last \in Entry
    BY <1>1, <1>2, <2>1
  <2>3. i = last.id /\ i[2] = k
    BY <1>4, <2>2, PartsOfEntry DEF CardFor
  <2>4. ASSUME NEW e \in L, KeyOf(e) = k, k \notin O
        PROVE  e.id[1] <= last.id[1]
    <3>1. /\ e.posted \in Nat /\ last.posted \in Nat /\ e.id[1] \in Nat /\ last.id[1] \in Nat
      BY <1>1, <2>2, PartsOfEntry
    <3>2. ~ (last.posted < e.posted)
      BY <2>1, <2>2, <2>4 DEF Sound, OlderRest, Rests
    <3>3. CASE e.posted = last.posted
      BY <3>3, <2>2, <2>4, <3>1 DEF Filed
    <3>4. CASE e.posted < last.posted
      BY <3>4, <2>2, <2>4, <3>1 DEF Sound, Ascending
    <3> QED BY <3>1, <3>2, <3>3, <3>4
  <2> QED
    BY <2>2, <2>3, <2>4 DEF Fits, NoneAfter, IdsOf
<1>5. CASE Decision(k, L, day, changed) \notin {"create", "update"}
  BY <1>5 DEF CardFor
<1> QED
  BY <1>3, <1>4, <1>5
(* What a write adds to a file: lines later than all others, one per key.  *)
LEMMA LinesAreFiled ==
  ASSUME NEW L, NEW day \in 1..MaxDay, NEW n \in 0..MaxLines, n < MaxLines, Filed(L, day, n),
         NEW N, \A e \in N : e \in Entry /\ e.posted = n + 1 /\ e.id[1] <= day,
         \A e, f \in N : KeyOf(e) = KeyOf(f) => e = f
  PROVE  Filed(L \cup N, day, n + 1)
<1>1. n \in Nat /\ n + 1 \in 0..MaxLines /\ ~ (n + 1 <= n) /\ n + 1 <= n + 1 /\ n <= n + 1
  BY LogAssumption
<1>2. Filed(L, day, n + 1)
  <2>1. day <= day
    BY LogAssumption
  <2> QED BY <1>1, <2>1, FiledLater
<1>3. \A e \in L : e.posted # n + 1
  BY <1>1 DEF Filed
<1>4. \A e \in L \cup N : e \in Entry /\ e.posted <= n + 1 /\ e.id[1] <= day
  BY <1>1, <1>2 DEF Filed
<1>5. ASSUME NEW e \in L \cup N, NEW f \in L \cup N, KeyOf(e) = KeyOf(f), e.posted = f.posted
      PROVE  e = f
  <2>1. CASE e \in L /\ f \in L
    BY <2>1, <1>5 DEF Filed
  <2>2. CASE e \in N /\ f \in N
    BY <2>2, <1>5
  <2> QED
    BY <1>3, <1>5, <2>1, <2>2
<1> QED
  BY <1>4, <1>5 DEF Filed

(* The lines a filtered scan adds after n writes, and what is no longer    *)
(* known then.                                                             *)
Added(cards, L, n) == {[id |-> i, status |-> "open", posted |-> n + 1] : i \in Missing(cards, L)}
Unknown(K, G) == [k \in Keys |-> IF k \in G THEN "none" ELSE K[k]]

(* A filtered scan that nobody disturbed appends to the log it has read:   *)
(* the new line of a key is of a later day than the others, and those are  *)
(* no longer updated.                                                      *)
LEMMA AppendIsSound ==
  ASSUME NEW L, NEW day \in 1..MaxDay, NEW n \in 0..MaxLines, n < MaxLines, Filed(L, day, n),
         NEW K \in [Keys -> Statuses \cup {"none"}], NEW O, NEW later \in 1..MaxDay, day <= later,
         Sound(L, K, O, later),
         NEW cards, cards \subseteq Ids, OnePerKey(cards), \A i \in cards : i[1] <= day,
         \A i \in cards : Fits(i, L, O, day)
  PROVE  /\ Sound(L \cup Added(cards, L, n), Unknown(K, {i[2] : i \in Missing(cards, L)}), O, later)
         /\ Shows(cards, L \cup Added(cards, L, n), O)
<1> DEFINE new == Missing(cards, L)
           N == Added(cards, L, n)
           Q == Unknown(K, {i[2] : i \in new})
<1>1. \A e \in L : e \in Entry /\ e.posted <= n /\ e.id[1] <= day
  BY DEF Filed
<1>2. n \in Nat /\ n + 1 \in Nat /\ n < n + 1
  BY LogAssumption
<1>3. new \subseteq cards /\ \A i \in new : \A e \in L : e.id # i
  BY DEF Missing
<1>4. ASSUME NEW f \in N
      PROVE  f.id \in new /\ f.posted = n + 1 /\ KeyOf(f) = f.id[2]
  BY DEF KeyOf, Added
<1>5. ASSUME NEW i \in new
      PROVE  i[1] = day /\ i \in Ids /\ \A e \in L : KeyOf(e) = i[2] => Rests(e, day)
  BY <1>3 DEF Fits, IdsOf
<1>6. ASSUME NEW i \in new
      PROVE  \E f \in N : f.id = i
  <2> DEFINE f == [id |-> i, status |-> "open", posted |-> n + 1]
  <2>1. f \in N
    BY DEF Added
  <2>2. f.id = i
    OBVIOUS
  <2> QED BY <2>1, <2>2
<1>Q. \A k \in Keys : Q[k] # "none" => k \notin {i[2] : i \in new} /\ Q[k] = K[k]
  BY DEF Unknown
<1> HIDE DEF new, N, Q
<1>7. ASSUME NEW e \in L, NEW f \in N, KeyOf(e) = KeyOf(f)
      PROVE  e.id[1] < f.id[1] /\ e.posted < f.posted /\ Rests(e, later)
  <2>1. f.id \in new /\ f.id[1] = day /\ f.id[2] = KeyOf(f) /\ f.id \in Ids
    BY <1>4, <1>5
  <2>2. e.id = <<e.id[1], e.id[2]>> /\ e.id[2] = KeyOf(e) /\ e.id[1] \in Nat /\ e.posted \in Nat
    BY <1>1, PartsOfEntry
  <2>3. f.id = <<f.id[1], f.id[2]>>
    BY <2>1 DEF Ids
  <2>4. e.id[1] # f.id[1]
    BY <1>3, <1>7, <2>1, <2>2, <2>3
  <2>5. e.id[1] <= day /\ day \in Nat /\ e.posted <= n
    BY <1>1, LogAssumption
  <2>6. Rests(e, later)
    BY <1>1, <1>5, <1>7, <2>1, RestsLater
  <2> QED
    BY <1>2, <1>4, <2>1, <2>2, <2>4, <2>5, <2>6
<1>8. \A e, f \in N : ~ (e.posted < f.posted)
  BY <1>2, <1>4
<1>9. ASSUME NEW e \in N, NEW f \in L, KeyOf(e) = KeyOf(f)
      PROVE  ~ (e.posted < f.posted)
  <2>1. f.posted \in Nat /\ f.posted <= n /\ e.posted = n + 1
    BY <1>1, <1>4, PartsOfEntry
  <2> QED BY <1>2, <2>1
<1>10. Ascending(L \cup N)
  <2> SUFFICES ASSUME NEW e \in L \cup N, NEW f \in L \cup N, KeyOf(e) = KeyOf(f), e.posted < f.posted
               PROVE  e.id[1] < f.id[1]
    BY DEF Ascending
  <2>1. CASE e \in L /\ f \in L
    BY <2>1 DEF Sound, Ascending
  <2> QED
    BY <2>1, <1>7, <1>8, <1>9
<1>11. OlderRest(L \cup N, O, later)
  <2> SUFFICES ASSUME NEW e \in L \cup N, NEW f \in L \cup N, KeyOf(e) = KeyOf(f), e.posted < f.posted,
                      KeyOf(e) \notin O
               PROVE  Rests(e, later)
    BY DEF OlderRest
  <2>1. CASE e \in L /\ f \in L
    BY <2>1 DEF Sound, OlderRest
  <2> QED
    BY <2>1, <1>7, <1>8, <1>9
<1>12. Remembered(L \cup N, Q)
  <2> SUFFICES ASSUME NEW k \in Keys, Q[k] # "none"
               PROVE  \E e \in L \cup N : NewestOf(e, L \cup N) /\ KeyOf(e) = k /\ e.status = Q[k]
    BY DEF Remembered
  <2>1. k \notin {i[2] : i \in new} /\ Q[k] = K[k]
    BY <1>Q
  <2>2. PICK e \in L : NewestOf(e, L) /\ KeyOf(e) = k /\ e.status = K[k]
    BY <2>1 DEF Sound, Remembered
  <2>3. \A f \in N : KeyOf(f) # k
    BY <1>4, <2>1
  <2> QED
    BY <2>1, <2>2, <2>3 DEF NewestOf
<1>13. Shows(cards, L \cup N, O)
  <2> SUFFICES ASSUME NEW i \in cards
               PROVE  i \in IdsOf(L \cup N) /\ NoneAfter(i, L \cup N, O)
    BY DEF Shows
  <2>1. i \in IdsOf(L \cup N)
    <3>1. CASE i \in new
      BY <3>1, <1>6 DEF IdsOf
    <3>2. CASE i \notin new
      BY <3>2 DEF IdsOf, Missing, new
    <3> QED BY <3>1, <3>2
  <2>2. \A e \in N : KeyOf(e) = i[2] => e.id = i
    BY <1>3, <1>4 DEF OnePerKey
  <2>3. i[1] \in Nat
    BY LogAssumption DEF Ids
  <2>4. \A e \in N : KeyOf(e) = i[2] => e.id[1] <= i[1]
    BY <2>2, <2>3
  <2>5. NoneAfter(i, L, O)
    BY DEF Fits
  <2> QED
    BY <2>1, <2>4, <2>5 DEF NoneAfter
<1> QED
  BY <1>10, <1>11, <1>12, <1>13 DEF Sound, new, N, Q
(* The web server changes the lines with an id: what the operator says of  *)
(* the newest line of a key is remembered, a change of an older one makes  *)
(* the key an exception.                                                   *)
NewestLine(L, k) == Latest({e \in L : KeyOf(e) = k})
Rewritten(L, x, status) == {IF e.id = x THEN [e EXCEPT !.status = status] ELSE e : e \in L}
Told(K, L, x, status) == IF NewestLine(L, x[2]).id = x THEN [K EXCEPT ![x[2]] = status] ELSE K
Excepted(O, L, x) == IF NewestLine(L, x[2]).id = x THEN O ELSE O \cup {x[2]}

LEMMA PatchIsFiled ==
  ASSUME NEW L, NEW day, NEW n, Filed(L, day, n), NEW x, NEW status \in Statuses
  PROVE  Filed(Rewritten(L, x, status), day, n) /\ IdsOf(Rewritten(L, x, status)) = IdsOf(L)
<1> DEFINE patch(e) == IF e.id = x THEN [e EXCEPT !.status = status] ELSE e
           P == Rewritten(L, x, status)
<1>1. ASSUME NEW e \in L
      PROVE  patch(e) \in Entry /\ patch(e).id = e.id /\ patch(e).posted = e.posted
  <2>1. e \in Entry
    BY DEF Filed
  <2> QED BY <2>1 DEF Entry
<1>2. ASSUME NEW f \in P
      PROVE  \E e \in L : f = patch(e)
  BY DEF Rewritten
<1>3. ASSUME NEW e \in L
      PROVE  patch(e) \in P
  BY DEF Rewritten
<1> HIDE DEF patch, P
<1>4. \A f \in P : f \in Entry /\ f.posted <= n /\ f.id[1] <= day
  BY <1>1, <1>2 DEF Filed
<1>5. ASSUME NEW f \in P, NEW g \in P, KeyOf(f) = KeyOf(g), f.posted = g.posted
      PROVE  f = g
  <2>1. PICK e \in L : f = patch(e)
    BY <1>2
  <2>2. PICK d \in L : g = patch(d)
    BY <1>2
  <2>3. KeyOf(e) = KeyOf(d) /\ e.posted = d.posted
    BY <1>1, <1>5, <2>1, <2>2 DEF KeyOf
  <2> QED
    BY <2>1, <2>2, <2>3 DEF Filed
<1>6. IdsOf(P) \subseteq IdsOf(L)
  BY <1>1, <1>2 DEF IdsOf
<1>7. IdsOf(L) \subseteq IdsOf(P)
  <2> SUFFICES ASSUME NEW e \in L PROVE e.id \in IdsOf(P)
    BY DEF IdsOf
  <2> QED BY <1>1, <1>3 DEF IdsOf
<1> QED
  BY <1>4, <1>5, <1>6, <1>7 DEF Filed, P

(* ... and is in order if it was.                                          *)
LEMMA PatchIsSound ==
  ASSUME NEW L, NEW day \in 1..MaxDay, NEW n, Filed(L, day, n),
         NEW K \in [Keys -> Statuses \cup {"none"}], NEW O, Sound(L, K, O, day),
         NEW x \in Ids, \E e \in L : e.id = x, NEW status \in Statuses,
         NEW cards, Shows(cards, L, O)
  PROVE  /\ Sound(Rewritten(L, x, status), Told(K, L, x, status), Excepted(O, L, x), day)
         /\ Shows(cards, Rewritten(L, x, status), Excepted(O, L, x))
<1> DEFINE P == Rewritten(L, x, status)
           newest == NewestLine(L, x[2])
           Q == Told(K, L, x, status)
           R == Excepted(O, L, x)
           patch(e) == IF e.id = x THEN [e EXCEPT !.status = status] ELSE e
           same == {e \in L : KeyOf(e) = x[2]}
<1>1. ASSUME NEW e \in L
      PROVE  /\ patch(e).id = e.id /\ patch(e).posted = e.posted /\ KeyOf(patch(e)) = KeyOf(e)
             /\ patch(e).status = IF e.id = x THEN status ELSE e.status
             /\ e.id # x => patch(e) = e
             /\ patch(e) \in P
  <2>1. e \in Entry
    BY DEF Filed
  <2> QED BY <2>1 DEF Entry, KeyOf, Rewritten
<1>2. ASSUME NEW f \in P
      PROVE  \E e \in L : f = patch(e)
  BY DEF Rewritten
<1>Q. /\ Q = IF newest.id = x THEN [K EXCEPT ![x[2]] = status] ELSE K
      /\ R = IF newest.id = x THEN O ELSE O \cup {x[2]}
  BY DEF Told, Excepted
<1> HIDE DEF patch, P, Q, R
<1>3. \A e \in L : e \in Entry /\ KeyOf(e) = e.id[2] /\ e.posted \in Nat /\ e.id[1] \in Nat
  BY PartsOfEntry DEF Filed
<1>4. newest \in L /\ KeyOf(newest) = x[2] /\ \A f \in L : KeyOf(f) = x[2] => f.posted <= newest.posted
  <2>1. same # {} /\ same \subseteq Entry
    BY <1>3
  <2>2. newest \in same /\ \A f \in same : f.posted <= newest.posted
    BY <2>1, LatestIs DEF NewestLine
  <2> QED BY <2>2
<1> HIDE DEF newest
<1>5. Ascending(P)
  <2> SUFFICES ASSUME NEW f \in P, NEW g \in P, KeyOf(f) = KeyOf(g), f.posted < g.posted
               PROVE  f.id[1] < g.id[1]
    BY DEF Ascending
  <2>1. PICK e \in L : f = patch(e)
    BY <1>2
  <2>2. PICK d \in L : g = patch(d)
    BY <1>2
  <2>3. KeyOf(e) = KeyOf(d) /\ e.posted < d.posted /\ f.id = e.id /\ g.id = d.id
    BY <1>1, <2>1, <2>2
  <2> QED
    BY <2>3 DEF Sound, Ascending
<1>6. ASSUME NEW e \in L, NewestOf(e, L)
      PROVE  NewestOf(patch(e), P)
  <2> SUFFICES ASSUME NEW f \in P, KeyOf(f) = KeyOf(patch(e))
               PROVE  f.posted <= patch(e).posted
    BY <1>1 DEF NewestOf
  <2>1. PICK d \in L : f = patch(d)
    BY <1>2
  <2> QED
    BY <1>1, <1>6, <2>1 DEF NewestOf
<1>7. Remembered(P, Q)
  <2> SUFFICES ASSUME NEW k \in Keys, Q[k] # "none"
               PROVE  \E f \in P : NewestOf(f, P) /\ KeyOf(f) = k /\ f.status = Q[k]
    BY DEF Remembered
  <2>1. CASE newest.id = x /\ k = x[2]
    <3>1. Q[k] = status
      BY <1>Q, <2>1
    <3>2. NewestOf(newest, L)
      BY <1>4 DEF NewestOf
    <3> QED
      BY <1>1, <1>4, <1>6, <2>1, <3>1, <3>2
  <2>2. CASE ~(newest.id = x /\ k = x[2])
    <3>1. Q[k] = K[k]
      BY <1>Q, <2>2
    <3>2. PICK e \in L : NewestOf(e, L) /\ KeyOf(e) = k /\ e.status = K[k]
      BY <3>1 DEF Sound, Remembered
    <3>3. e.id # x
      <4>1. CASE k = x[2]
        <5>1. e.posted <= newest.posted /\ newest.posted <= e.posted
          BY <1>4, <3>2, <4>1 DEF NewestOf
        <5>2. e = newest
          BY <1>3, <1>4, <3>2, <4>1, <5>1 DEF Filed
        <5> QED BY <2>2, <4>1, <5>2
      <4>2. CASE k # x[2]
        BY <1>3, <3>2, <4>2
      <4> QED BY <4>1, <4>2
    <3> QED
      BY <1>1, <1>6, <3>1, <3>2, <3>3
  <2> QED BY <2>1, <2>2
<1>8. OlderRest(P, R, day)
  <2> SUFFICES ASSUME NEW f \in P, NEW g \in P, KeyOf(f) = KeyOf(g), f.posted < g.posted, KeyOf(f) \notin R
               PROVE  Rests(f, day)
    BY DEF OlderRest
  <2>1. PICK e \in L : f = patch(e)
    BY <1>2
  <2>2. PICK d \in L : g = patch(d)
    BY <1>2
  <2>3. KeyOf(e) = KeyOf(d) /\ e.posted < d.posted /\ KeyOf(e) \notin R
    BY <1>1, <2>1, <2>2
  <2>4. Rests(e, day)
    BY <1>Q, <2>3 DEF Sound, OlderRest
  <2>5. e.id # x
    <3> SUFFICES ASSUME e.id = x PROVE FALSE
      OBVIOUS
    <3>1. KeyOf(e) = x[2] /\ newest.id = x
      BY <1>3, <1>Q, <2>3
    <3>2. d.posted <= newest.posted
      BY <1>4, <2>3, <3>1
    <3>3. e.posted < newest.posted
      BY <1>3, <1>4, <2>3, <3>2
    <3>4. e.id[1] < newest.id[1]
      BY <1>4, <3>1, <3>3 DEF Sound, Ascending
    <3> QED
      BY <1>3, <3>1, <3>4
  <2> QED
    BY <1>1, <2>1, <2>4, <2>5
<1>9. Shows(cards, P, R)
  <2> SUFFICES ASSUME NEW i \in cards
               PROVE  i \in IdsOf(P) /\ NoneAfter(i, P, R)
    BY DEF Shows
  <2>1. i \in IdsOf(P)
    <3>1. PICK e \in L : e.id = i
      BY DEF Shows, IdsOf
    <3> QED BY <1>1, <3>1 DEF IdsOf
  <2>2. ASSUME i[2] \notin R, NEW f \in P, KeyOf(f) = i[2]
        PROVE  f.id[1] <= i[1]
    <3>1. PICK e \in L : f = patch(e)
      BY <1>2
    <3> QED
      BY <1>1, <1>Q, <2>2, <3>1 DEF Shows, NoneAfter
  <2> QED
    BY <2>1, <2>2 DEF NoneAfter
<1> QED
  BY <1>5, <1>7, <1>8, <1>9 DEF Sound, P, Q, R

(* The lines a full scan writes.                                           *)
Written(ctas, L, day, m) ==
  {[id |-> <<day, c>>, status |-> Carried(c, L), posted |-> m] : c \in ctas}

(* A full scan that nobody disturbed writes one line per CTA, with the     *)
(* progress the operator gave in the log it had read.                      *)
LEMMA ReplaceIsSound ==
  ASSUME NEW L, NEW day \in 1..MaxDay, NEW n, Filed(L, day, n),
         NEW K \in [Keys -> Statuses \cup {"none"}], NEW ctas, ctas \subseteq Keys, NEW m \in Nat, NEW later,
         NEW Q \in [Keys -> Statuses \cup {"none"}],
         \A k \in Keys : Q[k] # "none" => k \in ctas /\ Q[k] = K[k] /\ Remembered(L, K)
  PROVE  /\ Sound(Written(ctas, L, day, m), Q, {}, later)
         /\ IdsOf(Written(ctas, L, day, m)) = {<<day, c>> : c \in ctas}
         /\ Shows(IdsOf(Written(ctas, L, day, m)), Written(ctas, L, day, m), {})
<1> DEFINE freshLine(c) == [id |-> <<day, c>>, status |-> Carried(c, L), posted |-> m]
           N == Written(ctas, L, day, m)
<1>1. ASSUME NEW c \in ctas
      PROVE  /\ freshLine(c) \in N /\ freshLine(c).id = <<day, c>> /\ KeyOf(freshLine(c)) = c
             /\ freshLine(c).status = Carried(c, L) /\ freshLine(c).posted = m
  BY DEF KeyOf, Written
<1>2. ASSUME NEW e \in N
      PROVE  \E c \in ctas : e = freshLine(c)
  BY DEF Written
<1> HIDE DEF freshLine, N
<1>3. \A e \in N : e.posted = m /\ e.id[1] = day
  BY <1>1, <1>2
<1>4. ~ (m < m) /\ m <= m /\ day <= day
  BY LogAssumption
<1>5. Ascending(N) /\ OlderRest(N, {}, later)
  BY <1>3, <1>4 DEF Ascending, OlderRest
<1>6. Remembered(N, Q)
  <2> SUFFICES ASSUME NEW k \in Keys, Q[k] # "none"
               PROVE  \E e \in N : NewestOf(e, N) /\ KeyOf(e) = k /\ e.status = Q[k]
    BY DEF Remembered
  <2>1. k \in ctas /\ Q[k] = K[k] /\ Remembered(L, K)
    OBVIOUS
  <2>2. PICK e \in L : NewestOf(e, L) /\ KeyOf(e) = k /\ e.status = K[k]
    BY <2>1 DEF Remembered
  <2> DEFINE same == {f \in L : KeyOf(f) = k}
  <2>3. same # {} /\ same \subseteq Entry
    BY <2>2 DEF Filed
  <2>4. Latest(same) \in same /\ \A f \in same : f.posted <= Latest(same).posted
    BY <2>3, LatestIs
  <2>5. Latest(same) = e
    <3>1. Latest(same).posted <= e.posted /\ e.posted <= Latest(same).posted
      BY <2>2, <2>4 DEF NewestOf
    <3>2. e.posted \in Nat /\ Latest(same).posted \in Nat
      BY <2>2, <2>4, PartsOfEntry DEF Filed
    <3> QED
      BY <2>2, <2>4, <3>1, <3>2 DEF Filed
  <2>6. Carried(k, L) = Q[k]
    BY <2>1, <2>2, <2>3, <2>5 DEF Carried
  <2>7. NewestOf(freshLine(k), N)
    BY <1>1, <1>3, <1>4, <2>1 DEF NewestOf
  <2> QED
    BY <1>1, <2>1, <2>6, <2>7
<1>7. IdsOf(N) = {<<day, c>> : c \in ctas}
  <2>1. ASSUME NEW e \in N PROVE e.id \in {<<day, c>> : c \in ctas}
    BY <1>1, <1>2
  <2>2. ASSUME NEW c \in ctas PROVE <<day, c>> \in IdsOf(N)
    BY <1>1 DEF IdsOf
  <2> QED BY <2>1, <2>2 DEF IdsOf
<1>8. Shows(IdsOf(N), N, {})
  BY <1>3, <1>4 DEF Shows, NoneAfter, IdsOf
<1> QED
  BY <1>5, <1>6, <1>7, <1>8 DEF Sound, N
-----------------------------------------------------------------------------
(* Every step keeps the invariant.                                         *)

(* A scan is disturbed: it is the same but for not being alone.            *)
LEMMA DisturbedScans ==
  ASSUME scanner \in [Scanners -> Scan]
  PROVE  /\ Disturbed \in [Scanners -> Scan]
         /\ \A t \in Scanners : scanner[t].at = "idle" => Disturbed[t] = Idle
         /\ \A t \in Scanners : scanner[t].at # "idle" =>
              /\ Disturbed[t].at = scanner[t].at /\ Disturbed[t].day = scanner[t].day
              /\ Disturbed[t].full = scanner[t].full /\ Disturbed[t].prior = scanner[t].prior
              /\ Disturbed[t].ctas = scanner[t].ctas /\ Disturbed[t].cards = scanner[t].cards
              /\ ~Disturbed[t].alone
<1>1. Idle \in Scan
  BY LogAssumption DEF Idle, Scan, Phases
<1>2. ASSUME NEW t \in Scanners, scanner[t].at # "idle"
      PROVE  /\ Disturbed[t] \in Scan /\ Disturbed[t].at = scanner[t].at /\ Disturbed[t].day = scanner[t].day
             /\ Disturbed[t].full = scanner[t].full /\ Disturbed[t].prior = scanner[t].prior
             /\ Disturbed[t].ctas = scanner[t].ctas /\ Disturbed[t].cards = scanner[t].cards
             /\ ~Disturbed[t].alone
  <2>1. scanner[t] \in Scan
    OBVIOUS
  <2>2. Disturbed[t] = [scanner[t] EXCEPT !.alone = FALSE]
    BY <1>2 DEF Disturbed
  <2> QED BY <2>1, <2>2 DEF Scan
<1>3. \A t \in Scanners : scanner[t].at = "idle" => Disturbed[t] = Idle
  BY DEF Disturbed
<1>4. Disturbed = [t \in Scanners |-> Disturbed[t]]
  BY DEF Disturbed
<1>5. \A t \in Scanners : Disturbed[t] \in Scan
  BY <1>1, <1>2, <1>3
<1> QED
  BY <1>2, <1>3, <1>4, <1>5

(* A scan goes on to its next phase, or ends.                              *)
LEMMA ScanAdvances ==
  ASSUME scanner \in [Scanners -> Scan], NEW s \in Scanners, NEW p \in Phases,
         scanner' = [scanner EXCEPT ![s].at = p]
  PROVE  /\ scanner' \in [Scanners -> Scan]
         /\ \A t \in Scanners \ {s} : scanner'[t] = scanner[t]
         /\ scanner'[s].at = p /\ scanner'[s].day = scanner[s].day
         /\ scanner'[s].full = scanner[s].full /\ scanner'[s].prior = scanner[s].prior
         /\ scanner'[s].ctas = scanner[s].ctas /\ scanner'[s].cards = scanner[s].cards
         /\ scanner'[s].alone = scanner[s].alone
<1>1. scanner[s] \in Scan /\ scanner'[s] = [scanner[s] EXCEPT !.at = p]
  OBVIOUS
<1>2. /\ scanner'[s] \in Scan
      /\ scanner'[s].at = p /\ scanner'[s].day = scanner[s].day
      /\ scanner'[s].full = scanner[s].full /\ scanner'[s].prior = scanner[s].prior
      /\ scanner'[s].ctas = scanner[s].ctas /\ scanner'[s].cards = scanner[s].cards
      /\ scanner'[s].alone = scanner[s].alone
  BY <1>1 DEF Scan
<1> QED
  BY <1>2

(* ... or ends.                                                            *)
LEMMA ScanEnds ==
  ASSUME scanner \in [Scanners -> Scan], NEW s \in Scanners, scanner' = [scanner EXCEPT ![s] = Idle]
  PROVE  /\ scanner' \in [Scanners -> Scan] /\ scanner'[s] = Idle /\ scanner'[s].at = "idle"
         /\ \A t \in Scanners \ {s} : scanner'[t] = scanner[t]
<1>1. Idle \in Scan /\ Idle.at = "idle"
  BY LogAssumption DEF Idle, Scan, Phases
<1> QED
  BY <1>1

(* The files as they were are typed as they were.                          *)
LEMMA FilesStay ==
  ASSUME LogTypes, UNCHANGED <<log, documents, scans, today, lines>>,
         known' \in [Keys -> Statuses \cup {"none"}], mixed' \in BOOLEAN, older' \subseteq Keys,
         regenerated' \in BOOLEAN
  PROVE  LogTypes'
BY DEF LogTypes

(* Nobody is writing and nothing got mixed up: the log is in order.        *)
LEMMA QuietLog ==
  ASSUME LogIInv, ~mixed, \A t \in Scanners : scanner[t].at = "idle"
  PROVE  Sound(log, known, older, today) /\ Shows(NewestDocument, log, older)
BY DEF LogIInv, Clean

(* What is known of some keys is forgotten.                                *)
LEMMA Forgets ==
  ASSUME LogTypes, NEW G, Forget(G)
  PROVE  /\ known' \in [Keys -> Statuses \cup {"none"}]
         /\ \A k \in Keys : known'[k] # "none" => k \notin G /\ known'[k] = known[k]
BY DEF LogTypes, Forget

LEMMA StartScanKeeps ==
  ASSUME LogIInv, NEW s \in Scanners, NEW full \in BOOLEAN, StartScan(s, full)
  PROVE  LogIInv'
<1>1. scanner \in [Scanners -> Scan] /\ LogTypes /\ today \in 1..MaxDay /\ Filed(log, today, lines)
  BY DEF LogIInv, WriterTypes, LogTypes
<1>2. /\ scanner[s].at = "idle" /\ regenerated' = FALSE /\ mixed' = (mixed \/ ~Undisturbed)
      /\ UNCHANGED <<log, documents, scans, today, lines, rewriting, updates, known, older>>
  BY DEF StartScan
<1>3. PICK found \in SUBSET Keys, changed \in BOOLEAN :
        LET cards == IF full THEN {<<today, k>> : k \in found}
                     ELSE UNION {CardFor(k, log, today, changed) : k \in found} IN
        /\ \A k, l \in found : k[1] = l[1] => k = l
        /\ scanner' = [Disturbed EXCEPT ![s] =
              [at |-> "document", day |-> today, full |-> full, prior |-> log, ctas |-> found,
               cards |-> cards, alone |-> Undisturbed]]
  <2>1. PICK found \in SUBSET Keys :
          /\ \A k, l \in found : k[1] = l[1] => k = l
          /\ \E changed \in (IF full THEN {FALSE} ELSE BOOLEAN) :
               scanner' = [Disturbed EXCEPT ![s] =
                 [at |-> "document", day |-> today, full |-> full, prior |-> log, ctas |-> found,
                  cards |-> IF full THEN {<<today, k>> : k \in found}
                            ELSE UNION {CardFor(k, log, today, changed) : k \in found},
                  alone |-> Undisturbed]]
    BY DEF StartScan
  <2> QED
    BY <2>1
<1> DEFINE cards == IF full THEN {<<today, k>> : k \in found}
                    ELSE UNION {CardFor(k, log, today, changed) : k \in found}
           k == scanner'[s]
<1>4. cards \subseteq Ids /\ OnePerKey(cards) /\ \A i \in cards : i[1] <= today
  <2>1. CASE full
    <3>1. \A c \in found : /\ <<today, c>> \in Ids /\ <<today, c>>[1] = today /\ <<today, c>>[2] = c
                           /\ today <= today
      BY <1>1, LogAssumption DEF Ids
    <3> QED
      BY <2>1, <3>1 DEF OnePerKey
  <2>2. CASE ~full
    <3>1. \A i \in cards : \E c \in found : i \in CardFor(c, log, today, changed)
      BY <2>2
    <3>2. \A c \in found : /\ CardFor(c, log, today, changed) \subseteq Ids
                           /\ \A i \in CardFor(c, log, today, changed) : i[2] = c /\ i[1] <= today
                           /\ \A i, j \in CardFor(c, log, today, changed) : i = j
      BY <1>1, CardForTyped
    <3> HIDE DEF cards
    <3> QED
      BY <3>1, <3>2 DEF OnePerKey
  <2> QED BY <2>1, <2>2
<1>5. Undisturbed \in BOOLEAN
  BY DEF Undisturbed
<1>6. \A t \in Scanners \ {s} : scanner'[t] = Disturbed[t]
  BY <1>1, <1>3, DisturbedScans
<1>7. /\ k.at = "document" /\ k.day = today /\ k.full = full /\ k.prior = log /\ k.ctas = found
      /\ k.cards = cards /\ k.alone = Undisturbed
  BY <1>1, <1>3, DisturbedScans
<1>8. scanner' \in [Scanners -> Scan]
  <2> DEFINE new == [at |-> "document", day |-> today, full |-> full, prior |-> log, ctas |-> found,
                     cards |-> cards, alone |-> Undisturbed]
  <2>1. new \in Scan
    BY <1>1, <1>4, <1>5 DEF Scan, Phases, Filed
  <2>2. scanner' = [Disturbed EXCEPT ![s] = new]
    BY <1>3
  <2> HIDE DEF new
  <2> QED
    BY <1>1, <2>1, <2>2, DisturbedScans
<1> HIDE DEF cards
<1>9. LogTypes'
  BY <1>1, <1>2, <1>5, FilesStay DEF LogTypes
<1>10. ScanTyped(k, today, lines)
  <2>1. today <= today
    BY <1>1, LogAssumption
  <2> QED
    BY <1>1, <1>4, <1>7, <2>1 DEF ScanTyped, cards
<1>11. ASSUME NEW t \in Scanners \ {s}
       PROVE  IF scanner[t].at = "idle" THEN scanner'[t] = Idle
              ELSE /\ scanner'[t].at # "idle" /\ ~scanner'[t].alone
                   /\ ScanTyped(scanner'[t], today, lines)
  <2>1. scanner[t].at = "idle" => scanner'[t] = Idle
    BY <1>1, <1>6, DisturbedScans
  <2>2. ASSUME scanner[t].at # "idle"
        PROVE  scanner'[t].at # "idle" /\ ~scanner'[t].alone /\ ScanTyped(scanner'[t], today, lines)
    <3>1. /\ scanner'[t].at = scanner[t].at /\ scanner'[t].day = scanner[t].day
          /\ scanner'[t].full = scanner[t].full /\ scanner'[t].prior = scanner[t].prior
          /\ scanner'[t].ctas = scanner[t].ctas /\ scanner'[t].cards = scanner[t].cards
          /\ ~scanner'[t].alone
      BY <1>1, <1>6, <2>2, DisturbedScans
    <3>2. ScanTyped(scanner[t], today, lines)
      BY <2>2 DEF LogIInv, WriterTypes
    <3> QED BY <2>2, <3>1, <3>2 DEF ScanTyped
  <2> QED BY <2>1, <2>2
<1>12. Idle.at = "idle"
  BY DEF Idle
<1>13. WriterTypes'
  <2>1. \A t \in Scanners : IF scanner'[t].at = "idle" THEN scanner'[t] = Idle
                            ELSE ScanTyped(scanner'[t], today, lines)
    BY <1>7, <1>10, <1>11, <1>12
  <2>2. rewriting # NotRewriting =>
       /\ rewriting \in Rewrite /\ Filed(rewriting.copy, today, lines)
       /\ \E e \in rewriting.copy : e.id = rewriting.id
    BY DEF LogIInv, WriterTypes
  <2>3. today' = today /\ lines' = lines /\ rewriting' = rewriting
    BY <1>2
  <2> QED BY <1>8, <2>1, <2>2, <2>3 DEF WriterTypes
<1>14. Undisturbed => /\ rewriting = NotRewriting /\ \A t \in Scanners : scanner[t].at = "idle"
                      /\ \A t \in Scanners \ {s} : scanner'[t].at = "idle"
  BY <1>11, <1>12 DEF Undisturbed
<1>15. \A t \in Scanners : scanner'[t].at # "idle" /\ scanner'[t].alone => t = s /\ Undisturbed
  BY <1>7, <1>11, <1>12
<1>16. OneWriter'
  <2>1. rewriting' = rewriting
    BY <1>2
  <2>2. ~mixed' => Undisturbed
    BY <1>2
  <2>3. ~mixed' => \A t \in Scanners : scanner'[t].at # "idle" => scanner'[t].alone
    BY <1>7, <1>14, <2>2
  <2> QED
    BY <1>14, <1>15, <2>1, <2>2, <2>3 DEF OneWriter, Sole
<1>17. SoleScans'
  <2>1. documents' \subseteq 1..k.day
    BY <1>2, <1>7 DEF LogIInv, LogTypes
  <2> QED
    BY <1>7, <1>15, <2>1 DEF SoleScans, Sole
<1>18. Clean'
  <2> SUFFICES ASSUME ~mixed'
               PROVE  /\ rewriting' # NotRewriting => rewriting'.copy = log'
                      /\ Sound(log', known', older', today') /\ Shows(NewestDocument', log', older')
                      /\ \A t \in Scanners : scanner'[t].at # "idle" => CleanScan(scanner[t])'
    BY DEF Clean
  <2>1. Undisturbed /\ ~mixed
    BY <1>2
  <2>2. Sound(log, known, older, today) /\ Shows(NewestDocument, log, older)
    BY <1>14, <2>1, QuietLog
  <2>3. NewestDocument' = NewestDocument
    BY <1>2 DEF NewestDocument
  <2>4. ASSUME ~full, NEW i \in cards
        PROVE  Fits(i, log, older, today)
    <3>1. PICK c \in found : i \in CardFor(c, log, today, changed)
      BY <2>4 DEF cards
    <3> QED
      BY <1>1, <2>2, <3>1, CardForFits
  <2>5. CleanScan(scanner[s])'
    BY <1>2, <1>7, <2>2, <2>4 DEF CleanScan
  <2> QED
    BY <1>2, <1>14, <2>1, <2>2, <2>3, <2>5
<1>19. Regenerated'
  BY <1>2 DEF Regenerated
<1> QED
  BY <1>9, <1>13, <1>16, <1>17, <1>18, <1>19 DEF LogIInv
(* As long as nothing got mixed up, a scan is the only writer; and after a *)
(* full scan that ran alone none has started.                              *)
LEMMA OnlyWriter ==
  ASSUME LogIInv, NEW s \in Scanners, scanner[s].at # "idle"
  PROVE  /\ ~regenerated
         /\ \A t \in Scanners : Sole(t) => t = s
         /\ Sole(s) => rewriting = NotRewriting /\ \A t \in Scanners \ {s} : scanner[t].at = "idle"
         /\ ~mixed => Sole(s) /\ CleanScan(scanner[s])
         /\ ScanTyped(scanner[s], today, lines) /\ scanner[s] \in Scan
BY DEF LogIInv, Regenerated, OneWriter, Sole, Clean, WriterTypes

(* The other writers have nothing to do with what a scan does.             *)
LEMMA OthersTyped ==
  ASSUME LogIInv, NEW s \in Scanners, scanner' \in [Scanners -> Scan],
         \A t \in Scanners \ {s} : scanner'[t] = scanner[t],
         IF scanner'[s].at = "idle" THEN scanner'[s] = Idle ELSE ScanTyped(scanner'[s], today, lines'),
         UNCHANGED <<today, rewriting>>, lines' \in 0..MaxLines, lines <= lines'
  PROVE  WriterTypes'
<1>1. today \in 1..MaxDay /\ lines \in 0..MaxLines /\ today <= today
  BY LogAssumption DEF LogIInv, LogTypes
<1>2. ASSUME NEW t \in Scanners \ {s}
      PROVE  IF scanner'[t].at = "idle" THEN scanner'[t] = Idle ELSE ScanTyped(scanner'[t], today, lines')
  <2>1. CASE scanner[t].at = "idle"
    BY <2>1 DEF LogIInv, WriterTypes
  <2>2. CASE scanner[t].at # "idle"
    <3>1. ScanTyped(scanner[t], today, lines) /\ scanner[t] \in Scan
      BY <2>2 DEF LogIInv, WriterTypes
    <3>2. ScanTyped(scanner[t], today, lines')
      BY <1>1, <3>1, ScanLater
    <3> QED BY <2>2, <3>2
  <2> QED BY <2>1, <2>2
<1>3. rewriting # NotRewriting =>
       /\ rewriting \in Rewrite /\ Filed(rewriting.copy, today, lines')
       /\ \E e \in rewriting.copy : e.id = rewriting.id
  <2> SUFFICES ASSUME rewriting # NotRewriting
               PROVE  /\ rewriting \in Rewrite /\ Filed(rewriting.copy, today, lines')
                      /\ \E e \in rewriting.copy : e.id = rewriting.id
    OBVIOUS
  <2>1. /\ rewriting \in Rewrite /\ Filed(rewriting.copy, today, lines)
        /\ \E e \in rewriting.copy : e.id = rewriting.id
    BY DEF LogIInv, WriterTypes
  <2> QED BY <1>1, <2>1, FiledLater
<1>4. \A t \in Scanners : IF scanner'[t].at = "idle" THEN scanner'[t] = Idle
                          ELSE ScanTyped(scanner'[t], today, lines')
  BY <1>2
<1>5. today' = today /\ rewriting' = rewriting
  OBVIOUS
<1> QED
  BY <1>3, <1>4, <1>5 DEF WriterTypes

(* Whoever was alone stays it, if nobody joins.                            *)
LEMMA OneWriterStays ==
  ASSUME LogIInv, NEW s \in Scanners, scanner[s].at # "idle",
         \A t \in Scanners \ {s} : scanner'[t] = scanner[t],
         scanner'[s] = Idle \/ scanner'[s].alone = scanner[s].alone,
         UNCHANGED rewriting, ~mixed' => ~mixed \/ Sole(s)
  PROVE  OneWriter'
<1>1. Idle.at = "idle"
  BY DEF Idle
<1>2. ASSUME NEW t \in Scanners, scanner'[t].at # "idle" /\ scanner'[t].alone
      PROVE  Sole(t)
  BY <1>1, <1>2 DEF Sole
<1>3. \A t \in Scanners : Sole(t) => t = s
  BY OnlyWriter
<1>4. Sole(s) => rewriting = NotRewriting /\ \A t \in Scanners \ {s} : scanner[t].at = "idle"
  BY OnlyWriter
<1>5. ~mixed' => Sole(s)
  BY OnlyWriter
<1>6. rewriting' = rewriting
  OBVIOUS
<1>7. Sole(s) => \A t \in Scanners : scanner'[t].at # "idle" => scanner'[t].alone
  BY <1>1, <1>4 DEF Sole
<1> QED
  BY <1>2, <1>3, <1>4, <1>5, <1>6, <1>7, Zenon DEF OneWriter, Sole

(* A document is written: the scan that does is the only one to know of    *)
(* it.                                                                     *)
LEMMA WriteDocumentKeeps ==
  ASSUME LogIInv, NEW s \in Scanners, WriteDocument(s)
  PROVE  LogIInv'
<1> DEFINE k == scanner[s]
           p == IF k.full THEN "prune" ELSE "append"
<1>1. /\ k.at = "document" /\ k.at # "idle"
      /\ UNCHANGED <<log, today, lines, rewriting, updates, known, mixed, older, regenerated>>
      /\ documents' = documents \cup {k.day} /\ scans' = [scans EXCEPT ![k.day] = k.cards]
      /\ scanner' = [scanner EXCEPT ![s].at = p]
  BY DEF WriteDocument
<1>2. scanner \in [Scanners -> Scan] /\ LogTypes /\ today \in 1..MaxDay /\ lines \in 0..MaxLines
  BY DEF LogIInv, WriterTypes, LogTypes
<1>3. ScanTyped(k, today, lines) /\ k \in Scan /\ k.day \in 1..MaxDay
  BY <1>1, OnlyWriter DEF Scan
<1>4. p \in Phases /\ p \in {"prune", "append"} /\ (p = "prune" => k.full) /\ (p = "append" => ~k.full)
  BY DEF Phases
<1>5. /\ scanner' \in [Scanners -> Scan]
      /\ \A t \in Scanners \ {s} : scanner'[t] = scanner[t]
      /\ scanner'[s].at = p /\ scanner'[s].day = k.day /\ scanner'[s].full = k.full
      /\ scanner'[s].prior = k.prior /\ scanner'[s].ctas = k.ctas /\ scanner'[s].cards = k.cards
      /\ scanner'[s].alone = k.alone
  BY <1>1, <1>2, <1>4, ScanAdvances
<1> HIDE DEF p
<1>6. LogTypes'
  <2>1. today' = today /\ lines' = lines /\ log' = log /\ known' = known /\ mixed' = mixed
        /\ older' = older /\ regenerated' = regenerated
    BY <1>1
  <2>2. documents' \subseteq 1..today
    BY <1>1, <1>2, <1>3, LogAssumption DEF LogTypes, ScanTyped
  <2>3. scans' \in [1..MaxDay -> SUBSET Ids]
    BY <1>1, <1>2, <1>3 DEF LogTypes, Scan
  <2>4. \A d \in 1..MaxDay : /\ d \notin documents' => scans'[d] = {}
                          /\ OnePerKey(scans'[d]) /\ \A i \in scans'[d] : i[1] <= d
    <3> TAKE d \in 1..MaxDay
    <3>1. CASE d = k.day
      BY <3>1, <1>1, <1>2, <1>3 DEF LogTypes, ScanTyped
    <3>2. CASE d # k.day
      BY <3>2, <1>1, <1>2 DEF LogTypes
    <3> QED BY <3>1, <3>2
  <2> QED
    BY <1>2, <2>1, <2>2, <2>3, <2>4 DEF LogTypes
<1>7. WriterTypes'
  <2>1. ScanTyped(scanner'[s], today, lines')
    BY <1>1, <1>3, <1>4, <1>5 DEF ScanTyped
  <2>2. lines <= lines' /\ lines' \in 0..MaxLines /\ p # "idle"
    BY <1>1, <1>2, <1>4, LogAssumption
  <2> QED
    BY <1>1, <1>5, <2>1, <2>2, OthersTyped
<1>8. OneWriter'
  BY <1>1, <1>5, OneWriterStays
<1>9. SoleScans'
  <2> SUFFICES ASSUME NEW t \in Scanners, Sole(t)'
               PROVE  LET q == scanner'[t] IN
                      /\ documents' \subseteq 1..q.day
                      /\ q.at # "document" => q.day \in documents' /\ scans'[q.day] = q.cards
                      /\ q.at = "replace" => documents' = {q.day} /\ log' = {}
    BY DEF SoleScans
  <2>1. t = s /\ Sole(s)
    <3>1. Sole(t)
      BY <1>1, <1>5 DEF Sole
    <3> QED BY <1>1, <3>1, OnlyWriter
  <2>2. documents \subseteq 1..k.day
    BY <2>1 DEF LogIInv, SoleScans
  <2>3. documents' \subseteq 1..k.day
    BY <1>1, <1>3, <2>2, LogAssumption
  <2>4. k.day \in documents' /\ scans'[k.day] = k.cards
    BY <1>1, <1>2, <1>3 DEF LogTypes
  <2> QED BY <1>4, <1>5, <2>1, <2>3, <2>4
<1>10. Regenerated'
  BY <1>1, OnlyWriter DEF Regenerated
<1>11. Clean'
  <2> SUFFICES ASSUME ~mixed'
               PROVE  /\ rewriting' = NotRewriting
                      /\ scanner'[s].at \notin {"idle", "document"}
                      /\ CleanScan(scanner[s])'
                      /\ \A t \in Scanners \ {s} : scanner'[t].at = "idle"
    BY DEF Clean
  <2>1. /\ rewriting = NotRewriting /\ CleanScan(k)
        /\ \A t \in Scanners \ {s} : scanner[t].at = "idle"
    BY <1>1, OnlyWriter
  <2>2. CleanScan(scanner[s])'
    BY <1>1, <1>4, <1>5, <2>1 DEF CleanScan
  <2> QED BY <1>1, <1>4, <1>5, <2>1, <2>2
<1> QED
  BY <1>6, <1>7, <1>8, <1>9, <1>10, <1>11 DEF LogIInv
(* A full scan removes what it replaces; its copy of the log keeps the     *)
(* progress.                                                               *)
LEMMA PruneKeeps ==
  ASSUME LogIInv, NEW s \in Scanners, Prune(s)
  PROVE  LogIInv'
<1> DEFINE k == scanner[s]
<1>1. /\ k.at = "prune" /\ k.at # "idle"
      /\ UNCHANGED <<today, lines, rewriting, updates, known, mixed, older, regenerated>>
      /\ documents' = documents \cap {k.day}
      /\ scans' = [d \in 1..MaxDay |-> IF d = k.day THEN scans[d] ELSE {}]
      /\ log' = {} /\ scanner' = [scanner EXCEPT ![s].at = "replace"]
  BY DEF Prune
<1>2. scanner \in [Scanners -> Scan] /\ LogTypes /\ today \in 1..MaxDay /\ lines \in 0..MaxLines
  BY DEF LogIInv, WriterTypes, LogTypes
<1>3. ScanTyped(k, today, lines) /\ k \in Scan /\ k.day \in 1..MaxDay
  BY <1>1, OnlyWriter DEF Scan
<1>4. /\ scanner' \in [Scanners -> Scan]
      /\ \A t \in Scanners \ {s} : scanner'[t] = scanner[t]
      /\ scanner'[s].at = "replace" /\ scanner'[s].day = k.day /\ scanner'[s].full = k.full
      /\ scanner'[s].prior = k.prior /\ scanner'[s].ctas = k.ctas /\ scanner'[s].cards = k.cards
      /\ scanner'[s].alone = k.alone
  <2>1. "replace" \in Phases
    BY DEF Phases
  <2> QED BY <1>1, <1>2, <2>1, ScanAdvances
<1>5. LogTypes'
  <2>1. today' = today /\ lines' = lines /\ known' = known /\ mixed' = mixed
        /\ older' = older /\ regenerated' = regenerated /\ Filed(log', today, lines)
    BY <1>1 DEF Filed
  <2>2. documents' \subseteq 1..today
    BY <1>1, <1>2 DEF LogTypes
  <2>3. scans' \in [1..MaxDay -> SUBSET Ids]
    BY <1>1, <1>2 DEF LogTypes
  <2>4. \A d \in 1..MaxDay : /\ d \notin documents' => scans'[d] = {}
                          /\ OnePerKey(scans'[d]) /\ \A i \in scans'[d] : i[1] <= d
    <3> TAKE d \in 1..MaxDay
    <3>1. CASE d = k.day
      BY <3>1, <1>1, <1>2 DEF LogTypes
    <3>2. CASE d # k.day
      BY <3>2, <1>1, <1>2 DEF OnePerKey
    <3> QED BY <3>1, <3>2
  <2> QED
    BY <1>2, <2>1, <2>2, <2>3, <2>4 DEF LogTypes
<1>6. WriterTypes'
  <2>1. ScanTyped(scanner'[s], today, lines')
    BY <1>1, <1>3, <1>4 DEF ScanTyped
  <2>2. lines <= lines' /\ lines' \in 0..MaxLines
    BY <1>1, <1>2, LogAssumption
  <2> QED
    BY <1>1, <1>4, <2>1, <2>2, OthersTyped
<1>7. OneWriter'
  BY <1>1, <1>4, OneWriterStays
<1>8. SoleScans'
  <2> SUFFICES ASSUME NEW t \in Scanners, Sole(t)'
               PROVE  LET q == scanner'[t] IN
                      /\ documents' \subseteq 1..q.day
                      /\ q.at # "document" => q.day \in documents' /\ scans'[q.day] = q.cards
                      /\ q.at = "replace" => documents' = {q.day} /\ log' = {}
    BY DEF SoleScans
  <2>1. t = s /\ Sole(s)
    <3>1. Sole(t)
      BY <1>1, <1>4 DEF Sole
    <3> QED BY <1>1, <3>1, OnlyWriter
  <2>2. k.day \in documents /\ scans[k.day] = k.cards
    BY <1>1, <2>1 DEF LogIInv, SoleScans
  <2>3. documents' = {k.day} /\ k.day \in 1..k.day
    BY <1>1, <1>3, <2>2, LogAssumption
  <2>4. scans'[k.day] = k.cards
    BY <1>1, <1>3, <2>2
  <2> QED BY <1>1, <1>4, <2>1, <2>3, <2>4
<1>9. Regenerated'
  BY <1>1, OnlyWriter DEF Regenerated
<1>10. Clean'
  <2> SUFFICES ASSUME ~mixed'
               PROVE  /\ rewriting' = NotRewriting
                      /\ scanner'[s].at \notin {"idle", "document"}
                      /\ CleanScan(scanner[s])'
                      /\ \A t \in Scanners \ {s} : scanner'[t].at = "idle"
    BY DEF Clean
  <2>1. /\ rewriting = NotRewriting /\ CleanScan(k)
        /\ \A t \in Scanners \ {s} : scanner[t].at = "idle"
    BY <1>1, OnlyWriter
  <2>2. CleanScan(scanner[s])'
    BY <1>1, <1>3, <1>4, <2>1 DEF CleanScan, ScanTyped
  <2> QED BY <1>1, <1>4, <2>1, <2>2
<1> QED
  BY <1>5, <1>6, <1>7, <1>8, <1>9, <1>10 DEF LogIInv

(* The status a line takes over is one.                                    *)
LEMMA CarriedIs ==
  ASSUME NEW L, L \subseteq Entry, NEW c
  PROVE  Carried(c, L) \in Statuses
<1> DEFINE same == {e \in L : KeyOf(e) = c}
<1>1. CASE same = {}
  BY <1>1 DEF Carried, Statuses
<1>2. CASE same # {}
  <2>1. Latest(same) \in same /\ same \subseteq Entry
    BY <1>2, LatestIs
  <2>2. Latest(same).status \in Statuses
    BY <2>1, PartsOfEntry
  <2> QED BY <1>2, <2>2 DEF Carried
<1> QED BY <1>1, <1>2

(* ... and writes the log anew: if it is alone, this ends all disorder.    *)
LEMMA ReplaceKeeps ==
  ASSUME LogIInv, NEW s \in Scanners, Replace(s)
  PROVE  LogIInv'
<1> DEFINE k == scanner[s]
           N == Written(k.ctas, k.prior, k.day, lines + 1)
           G == IF mixed THEN Keys ELSE Keys \ k.ctas
<1>1. /\ k.at = "replace" /\ k.at # "idle" /\ lines < MaxLines
      /\ UNCHANGED <<documents, scans, today, rewriting, updates>>
      /\ log' = N /\ lines' = lines + 1 /\ Forget(G)
      /\ mixed' = (mixed /\ ~k.alone) /\ older' = {} /\ regenerated' = k.alone
      /\ scanner' = [scanner EXCEPT ![s] = Idle]
  BY DEF Replace, Written
<1>2. /\ scanner \in [Scanners -> Scan] /\ LogTypes /\ today \in 1..MaxDay /\ lines \in 0..MaxLines
      /\ mixed \in BOOLEAN /\ known \in [Keys -> Statuses \cup {"none"}]
  BY DEF LogIInv, WriterTypes, LogTypes
<1>3. /\ ScanTyped(k, today, lines) /\ k \in Scan /\ k.day \in 1..MaxDay /\ k.ctas \subseteq Keys
      /\ k.alone \in BOOLEAN /\ k.full /\ k.cards = {<<k.day, c>> : c \in k.ctas}
      /\ Filed(k.prior, k.day, lines) /\ k.day <= today
  BY <1>1, OnlyWriter DEF Scan, ScanTyped
<1>4. /\ scanner' \in [Scanners -> Scan] /\ scanner'[s] = Idle /\ scanner'[s].at = "idle"
      /\ \A t \in Scanners \ {s} : scanner'[t] = scanner[t]
  BY <1>1, <1>2, ScanEnds
<1>5. lines + 1 \in 0..MaxLines /\ lines + 1 \in 1..MaxLines /\ lines <= lines + 1 /\ lines + 1 \in Nat
  BY <1>1, <1>2, LogAssumption
<1>6. /\ known' \in [Keys -> Statuses \cup {"none"}]
      /\ \A c \in Keys : known'[c] # "none" => c \notin G /\ known'[c] = known[c]
  BY <1>1, <1>2, Forgets
<1>7. ASSUME NEW e \in N
      PROVE  e \in Entry /\ e.posted = lines + 1 /\ e.id[1] = k.day /\ e.id = <<k.day, KeyOf(e)>>
             /\ e = [id |-> <<k.day, KeyOf(e)>>, status |-> Carried(KeyOf(e), k.prior), posted |-> lines + 1]
  <2>1. PICK c \in k.ctas : e = [id |-> <<k.day, c>>, status |-> Carried(c, k.prior), posted |-> lines + 1]
    BY DEF Written
  <2>2. <<k.day, c>> \in Ids /\ Carried(c, k.prior) \in Statuses
    BY <1>3, CarriedIs DEF Ids, Filed
  <2> QED
    BY <1>5, <2>1, <2>2 DEF Entry, KeyOf
<1> HIDE DEF N, G
<1>8. Filed(N, today, lines + 1)
  <2>1. Filed({}, today, lines)
    BY DEF Filed
  <2>2. \A e \in N : e.id[1] <= today
    BY <1>3, <1>7
  <2>3. Filed({} \cup N, today, lines + 1)
    BY <1>1, <1>2, <1>7, <2>1, <2>2, LinesAreFiled
  <2>4. {} \cup N = N
    OBVIOUS
  <2> QED BY <2>3, <2>4
<1>9. LogTypes'
  <2>1. today' = today /\ scans' = scans /\ documents' = documents
    BY <1>1
  <2>2. mixed' \in BOOLEAN /\ older' \subseteq Keys /\ regenerated' \in BOOLEAN
    BY <1>1, <1>2, <1>3
  <2>3. lines' \in 0..MaxLines /\ Filed(log', today', lines')
    BY <1>1, <1>5, <1>8
  <2> QED
    BY <1>2, <1>6, <2>1, <2>2, <2>3 DEF LogTypes
<1>10. WriterTypes'
  <2>1. lines <= lines' /\ lines' \in 0..MaxLines
    BY <1>1, <1>5
  <2> QED
    BY <1>1, <1>4, <2>1, OthersTyped
<1>11. OneWriter'
  <2>1. ~mixed' => ~mixed \/ Sole(s)
    BY <1>1, <1>2, <1>3 DEF Sole
  <2> QED
    BY <1>1, <1>4, <2>1, OneWriterStays
<1>12. SoleScans'
  <2> SUFFICES ASSUME NEW t \in Scanners, Sole(t)'
               PROVE  FALSE
    BY DEF SoleScans
  <2>1. t # s /\ Sole(t)
    BY <1>4 DEF Sole
  <2> QED BY <1>1, <2>1, OnlyWriter
<1>13. ASSUME k.alone
       PROVE  /\ rewriting' = NotRewriting /\ \A t \in Scanners : scanner'[t].at = "idle"
              /\ documents' = {k.day} /\ scans'[k.day] = IdsOf(log') /\ ~mixed'
              /\ Sound(log', known', older', today') /\ Shows(NewestDocument', log', older')
  <2>1. Sole(s)
    BY <1>1, <1>13 DEF Sole
  <2>2. rewriting = NotRewriting /\ \A t \in Scanners \ {s} : scanner[t].at = "idle"
    BY <1>1, <2>1, OnlyWriter
  <2>3. documents = {k.day} /\ scans[k.day] = k.cards
    BY <1>1, <2>1 DEF LogIInv, SoleScans
  <2>4. ~mixed => Remembered(k.prior, known)
    BY <1>1, OnlyWriter DEF CleanScan, Sound
  <2>5. \A c \in Keys : known'[c] # "none" =>
                          c \in k.ctas /\ known'[c] = known[c] /\ Remembered(k.prior, known)
    BY <1>6, <2>4 DEF G
  <2>6. /\ Sound(N, known', {}, today) /\ IdsOf(N) = {<<k.day, c>> : c \in k.ctas}
        /\ Shows(IdsOf(N), N, {})
    <3> DEFINE ctas == k.ctas
               L == k.prior
               d == k.day
               m == lines + 1
               K == known
               Q == known'
    <3>1. /\ d \in 1..MaxDay /\ Filed(L, d, lines) /\ K \in [Keys -> Statuses \cup {"none"}]
          /\ ctas \subseteq Keys /\ m \in Nat /\ Q \in [Keys -> Statuses \cup {"none"}]
      BY <1>2, <1>3, <1>5, <1>6
    <3>2. \A c \in Keys : Q[c] # "none" => c \in ctas /\ Q[c] = K[c] /\ Remembered(L, K)
      BY <2>5
    <3> HIDE DEF ctas, L, d, m, K, Q
    <3>3. /\ Sound(Written(ctas, L, d, m), Q, {}, today)
          /\ IdsOf(Written(ctas, L, d, m)) = {<<d, c>> : c \in ctas}
          /\ Shows(IdsOf(Written(ctas, L, d, m)), Written(ctas, L, d, m), {})
      BY <3>1, <3>2, ReplaceIsSound
    <3> QED
      BY <3>3 DEF N, ctas, L, d, m, Q
  <2>7. IdsOf(N) = k.cards
    BY <1>3, <2>6
  <2>8. NewestDocument' = IdsOf(N)
    <3>1. documents' # {} /\ documents' = {k.day} /\ documents' \subseteq 1..MaxDay /\ MaxDay \in Nat
      BY <1>1, <1>3, <2>3, LogAssumption
    <3>2. Max(documents') \in documents'
      BY <3>1, NewestDay
    <3>3. Max(documents') = k.day
      BY <3>1, <3>2
    <3>4. scans' = scans
      BY <1>1
    <3> QED
      BY <2>3, <2>7, <3>1, <3>3, <3>4 DEF NewestDocument
  <2> QED
    BY <1>1, <1>4, <1>13, <2>2, <2>3, <2>6, <2>7, <2>8
<1>14. Regenerated'
  <2> SUFFICES ASSUME k.alone
               PROVE  /\ ~mixed' /\ \A t \in Scanners : scanner'[t].at = "idle"
                      /\ \E d \in 1..MaxDay : documents' = {d} /\ scans'[d] = IdsOf(log')
    BY <1>1 DEF Regenerated, IdsOf
  <2> QED
    BY <1>3, <1>13
<1>15. Clean'
  <2> SUFFICES ASSUME ~mixed'
               PROVE  /\ rewriting' = NotRewriting /\ \A t \in Scanners : scanner'[t].at = "idle"
                      /\ Sound(log', known', older', today') /\ Shows(NewestDocument', log', older')
    BY DEF Clean
  <2>1. k.alone
    BY <1>1, <1>2, OnlyWriter DEF Sole
  <2> QED BY <1>13, <2>1
<1> QED
  BY <1>9, <1>10, <1>11, <1>12, <1>14, <1>15 DEF LogIInv

(* A filtered scan appends.                                                *)
LEMMA AppendLinesKeeps ==
  ASSUME LogIInv, NEW s \in Scanners, AppendLines(s)
  PROVE  LogIInv'
<1> DEFINE k == scanner[s]
           new == Missing(k.cards, k.prior)
           N == Added(k.cards, k.prior, lines)
<1>1. /\ k.at = "append" /\ k.at # "idle" /\ k.at # "replace" /\ k.at # "document"
      /\ UNCHANGED <<documents, scans, today, rewriting, updates, mixed, older, regenerated>>
      /\ scanner' = [scanner EXCEPT ![s] = Idle]
      /\ IF new = {} THEN UNCHANGED <<log, lines, known>>
         ELSE /\ lines < MaxLines /\ log' = log \cup N /\ lines' = lines + 1 /\ Forget({i[2] : i \in new})
  BY DEF AppendLines, Added
<1>2. /\ scanner \in [Scanners -> Scan] /\ LogTypes /\ today \in 1..MaxDay /\ lines \in 0..MaxLines
      /\ known \in [Keys -> Statuses \cup {"none"}] /\ Filed(log, today, lines)
  BY DEF LogIInv, WriterTypes, LogTypes
<1>3. /\ k \in Scan /\ k.day \in 1..MaxDay /\ k.cards \subseteq Ids /\ ~k.full
      /\ OnePerKey(k.cards) /\ (\A i \in k.cards : i[1] <= k.day)
      /\ Filed(k.prior, k.day, lines) /\ k.day <= today
  BY <1>1, OnlyWriter DEF Scan, ScanTyped
<1>4. /\ scanner' \in [Scanners -> Scan] /\ scanner'[s] = Idle /\ scanner'[s].at = "idle"
      /\ \A t \in Scanners \ {s} : scanner'[t] = scanner[t]
  BY <1>1, <1>2, ScanEnds
<1>5. new \subseteq k.cards
  BY DEF Missing
<1>6. ASSUME new # {}
      PROVE  /\ lines' \in 0..MaxLines /\ lines <= lines' /\ Filed(log', today, lines')
             /\ known' \in [Keys -> Statuses \cup {"none"}]
  <2>1. lines < MaxLines /\ log' = log \cup N /\ lines' = lines + 1 /\ Forget({i[2] : i \in new})
    BY <1>1, <1>6
  <2>2. lines + 1 \in 1..MaxLines /\ lines <= lines + 1
    BY <1>2, <2>1, LogAssumption
  <2>3. \A e \in N : /\ e \in Entry /\ e.posted = lines + 1 /\ e.id \in new
                     /\ e = [id |-> e.id, status |-> "open", posted |-> lines + 1]
    BY <1>3, <1>5, <2>2 DEF Entry, Statuses, Added
  <2>4. \A e \in N : e.id[1] <= today
    <3> TAKE e \in N
    <3>1. e.id[1] <= k.day /\ e.id[1] \in Nat /\ k.day \in Nat /\ today \in Nat
      BY <1>2, <1>3, <1>5, <2>3, PartsOfEntry, LogAssumption
    <3> QED BY <1>3, <3>1
  <2>5. \A e, f \in N : KeyOf(e) = KeyOf(f) => e = f
    BY <1>3, <1>5, <2>3 DEF OnePerKey, KeyOf
  <2>6. Filed(log \cup N, today, lines + 1)
    <3> HIDE DEF N, new
    <3> QED BY <1>2, <2>1, <2>3, <2>4, <2>5, LinesAreFiled
  <2>7. known' \in [Keys -> Statuses \cup {"none"}]
    BY <1>2, <2>1, Forgets
  <2>8. lines' \in 0..MaxLines
    BY <2>1, <2>2
  <2> QED BY <2>1, <2>2, <2>6, <2>7, <2>8
<1>7. /\ lines' \in 0..MaxLines /\ lines <= lines' /\ Filed(log', today, lines')
      /\ known' \in [Keys -> Statuses \cup {"none"}]
  <2>1. CASE new = {}
    BY <1>1, <1>2, <2>1, LogAssumption
  <2> QED BY <1>6, <2>1
<1> HIDE DEF new, N
<1>8. LogTypes'
  <2>1. today' = today /\ scans' = scans /\ documents' = documents /\ mixed' = mixed
        /\ older' = older /\ regenerated' = regenerated
    BY <1>1
  <2> QED
    BY <1>2, <1>7, <2>1 DEF LogTypes
<1>9. WriterTypes'
  BY <1>1, <1>4, <1>7, OthersTyped
<1>10. OneWriter'
  BY <1>1, <1>4, OneWriterStays
<1>11. SoleScans'
  <2> SUFFICES ASSUME NEW t \in Scanners, Sole(t)'
               PROVE  FALSE
    BY DEF SoleScans
  <2>1. t # s /\ Sole(t)
    BY <1>4 DEF Sole
  <2> QED BY <1>1, <2>1, OnlyWriter
<1>12. Regenerated'
  BY <1>1, OnlyWriter DEF Regenerated
<1>13. Clean'
  <2> SUFFICES ASSUME ~mixed'
               PROVE  /\ rewriting' = NotRewriting /\ \A t \in Scanners : scanner'[t].at = "idle"
                      /\ Sound(log', known', older', today') /\ Shows(NewestDocument', log', older')
    BY DEF Clean
  <2>1. /\ Sole(s) /\ rewriting = NotRewriting /\ CleanScan(k)
        /\ \A t \in Scanners \ {s} : scanner[t].at = "idle"
    BY <1>1, OnlyWriter
  <2>2. /\ Sound(log, known, older, today) /\ k.prior = log
        /\ \A i \in k.cards : Fits(i, log, older, k.day)
    BY <1>1, <1>3, <2>1 DEF CleanScan
  <2>3. NewestDocument' = k.cards
    <3>1. documents \subseteq 1..k.day /\ k.day \in documents /\ scans[k.day] = k.cards
      BY <1>1, <2>1 DEF LogIInv, SoleScans
    <3>2. k.day \in Nat
      BY <1>3, LogAssumption
    <3>3. Max(documents) \in documents /\ k.day <= Max(documents)
      BY <3>1, <3>2, NewestDay
    <3>4. Max(documents) = k.day
      <4>1. Max(documents) \in 1..k.day
        BY <3>1, <3>3
      <4> QED BY <3>2, <3>3, <4>1
    <3>5. documents' = documents /\ scans' = scans /\ documents # {}
      BY <1>1, <3>1
    <3> QED
      BY <3>1, <3>4, <3>5 DEF NewestDocument
  <2>4. CASE new = {}
    <3>1. log' = log /\ known' = known /\ older' = older /\ today' = today
      BY <1>1, <2>4
    <3>2. \A i \in k.cards : i \in IdsOf(log)
      BY <2>2, <2>4 DEF new, Missing, IdsOf
    <3>3. Shows(k.cards, log, older)
      BY <2>2, <3>2 DEF Shows, Fits
    <3> QED BY <1>1, <1>4, <2>1, <2>2, <2>3, <3>1, <3>3
  <2>5. CASE new # {}
    <3>1. lines < MaxLines /\ log' = log \cup N /\ Forget({i[2] : i \in new})
      BY <1>1, <2>5
    <3>2. older' = older /\ today' = today
      BY <1>1
    <3>3. known' = Unknown(known, {i[2] : i \in Missing(k.cards, log)})
      BY <2>2, <3>1 DEF Forget, new, Unknown
    <3>4. N = Added(k.cards, log, lines)
      BY <2>2 DEF N
    <3>5. Filed(log, k.day, lines)
      BY <1>3, <2>2
    <3>6. Sound(log \cup N, known', older, today) /\ Shows(k.cards, log \cup N, older)
      BY <1>2, <1>3, <2>2, <3>1, <3>3, <3>4, <3>5, AppendIsSound
    <3> QED BY <1>1, <1>4, <2>1, <2>3, <3>1, <3>2, <3>6
  <2> QED BY <2>4, <2>5
<1> QED
  BY <1>8, <1>9, <1>10, <1>11, <1>12, <1>13 DEF LogIInv
(* A scan dies: between two writes, that is disorder.                      *)
LEMMA DiesKeeps ==
  ASSUME LogIInv, NEW s \in Scanners, Dies(s)
  PROVE  LogIInv'
<1>1. /\ scanner[s].at # "idle" /\ scanner' = [scanner EXCEPT ![s] = Idle]
      /\ mixed' = (mixed \/ scanner[s].at # "document")
      /\ IF scanner[s].at = "replace" THEN Forget(Keys) ELSE UNCHANGED known
      /\ UNCHANGED <<log, documents, scans, today, lines, rewriting, updates, older, regenerated>>
  BY DEF Dies
<1>2. /\ scanner \in [Scanners -> Scan] /\ LogTypes /\ lines \in 0..MaxLines
      /\ known \in [Keys -> Statuses \cup {"none"}] /\ mixed \in BOOLEAN
      /\ older \subseteq Keys /\ regenerated \in BOOLEAN
  BY DEF LogIInv, WriterTypes, LogTypes
<1>3. /\ scanner' \in [Scanners -> Scan] /\ scanner'[s] = Idle /\ scanner'[s].at = "idle"
      /\ \A t \in Scanners \ {s} : scanner'[t] = scanner[t]
  BY <1>1, <1>2, ScanEnds
<1>4. LogTypes'
  <2>1. known' \in [Keys -> Statuses \cup {"none"}]
    BY <1>1, <1>2, Forgets
  <2>2. mixed' \in BOOLEAN
    BY <1>1, <1>2
  <2>3. older' \subseteq Keys /\ regenerated' \in BOOLEAN
    BY <1>1, <1>2
  <2> QED BY <1>1, <1>2, <2>1, <2>2, <2>3, FilesStay
<1>5. WriterTypes'
  <2>1. lines <= lines' /\ lines' \in 0..MaxLines
    BY <1>1, <1>2, LogAssumption
  <2> QED BY <1>1, <1>3, <2>1, OthersTyped
<1>6. OneWriter'
  BY <1>1, <1>3, OneWriterStays
<1>7. SoleScans'
  <2> SUFFICES ASSUME NEW t \in Scanners, Sole(t)'
               PROVE  FALSE
    BY DEF SoleScans
  <2>1. t # s /\ Sole(t)
    BY <1>3 DEF Sole
  <2> QED BY <1>1, <2>1, OnlyWriter
<1>8. Regenerated'
  BY <1>1, OnlyWriter DEF Regenerated
<1>9. Clean'
  <2> SUFFICES ASSUME ~mixed'
               PROVE  /\ rewriting' = NotRewriting /\ \A t \in Scanners : scanner'[t].at = "idle"
                      /\ Sound(log', known', older', today') /\ Shows(NewestDocument', log', older')
    BY DEF Clean
  <2>1. ~mixed /\ scanner[s].at = "document"
    BY <1>1
  <2>2. rewriting = NotRewriting /\ \A t \in Scanners \ {s} : scanner[t].at = "idle"
    BY <1>1, <2>1, OnlyWriter
  <2>3. Sound(log, known, older, today) /\ Shows(NewestDocument, log, older)
    BY <2>1, <2>2 DEF LogIInv, Clean
  <2>4. NewestDocument' = NewestDocument /\ known' = known
    BY <1>1, <2>1 DEF NewestDocument
  <2> QED BY <1>1, <1>3, <2>2, <2>3, <2>4
<1> QED
  BY <1>4, <1>5, <1>6, <1>7, <1>8, <1>9 DEF LogIInv

(* The server reads the log for an update.                                 *)
LEMMA StartUpdateKeeps ==
  ASSUME LogIInv, NEW i \in Ids, NEW status \in Given, StartUpdate(i, status)
  PROVE  LogIInv'
<1>1. /\ rewriting = NotRewriting /\ \E e \in log : e.id = i
      /\ rewriting' = [id |-> i, status |-> status, copy |-> log]
      /\ mixed' = (mixed \/ ~Undisturbed) /\ scanner' = Disturbed
      /\ UNCHANGED <<log, documents, scans, today, lines, known, older, regenerated>>
  BY DEF StartUpdate
<1>2. /\ scanner \in [Scanners -> Scan] /\ LogTypes /\ Filed(log, today, lines)
      /\ known \in [Keys -> Statuses \cup {"none"}] /\ mixed \in BOOLEAN
      /\ older \subseteq Keys /\ regenerated \in BOOLEAN
  BY DEF LogIInv, WriterTypes, LogTypes
<1>3. Undisturbed \in BOOLEAN /\ (Undisturbed => \A t \in Scanners : scanner[t].at = "idle")
  BY DEF Undisturbed
<1>4. status \in Statuses /\ status # "none"
  BY LogAssumption DEF Statuses
<1>5. /\ rewriting' \in Rewrite /\ rewriting'.id = i /\ rewriting'.copy = log
      /\ rewriting'.status = status
  BY <1>1, <1>2, <1>4 DEF Rewrite, Filed
<1>6. rewriting' # NotRewriting
  BY <1>4, <1>5 DEF NotRewriting
<1>7. Idle.at = "idle"
  BY DEF Idle
<1>8. ASSUME NEW t \in Scanners
      PROVE  IF scanner[t].at = "idle" THEN scanner'[t] = Idle
             ELSE /\ scanner'[t].at # "idle" /\ ~scanner'[t].alone
                  /\ ScanTyped(scanner'[t], today, lines)
  <2>1. scanner[t].at = "idle" => scanner'[t] = Idle
    BY <1>1, <1>2, DisturbedScans
  <2>2. ASSUME scanner[t].at # "idle"
        PROVE  scanner'[t].at # "idle" /\ ~scanner'[t].alone /\ ScanTyped(scanner'[t], today, lines)
    <3>1. /\ scanner'[t].at = scanner[t].at /\ scanner'[t].day = scanner[t].day
          /\ scanner'[t].full = scanner[t].full /\ scanner'[t].prior = scanner[t].prior
          /\ scanner'[t].ctas = scanner[t].ctas /\ scanner'[t].cards = scanner[t].cards
          /\ ~scanner'[t].alone
      BY <1>1, <1>2, <2>2, DisturbedScans
    <3>2. ScanTyped(scanner[t], today, lines)
      BY <2>2, OnlyWriter
    <3> QED BY <2>2, <3>1, <3>2 DEF ScanTyped
  <2> QED BY <2>1, <2>2
<1>9. \A t \in Scanners : ~(scanner'[t].at # "idle" /\ scanner'[t].alone)
  BY <1>7, <1>8
<1>10. ~mixed' => ~mixed /\ \A t \in Scanners : scanner[t].at = "idle" /\ scanner'[t].at = "idle"
  BY <1>1, <1>3, <1>7, <1>8
<1>11. LogTypes'
  <2>1. mixed' \in BOOLEAN /\ known' \in [Keys -> Statuses \cup {"none"}]
    BY <1>1, <1>2, <1>3
  <2>2. older' \subseteq Keys /\ regenerated' \in BOOLEAN
    BY <1>1, <1>2
  <2> QED BY <1>1, <1>2, <2>1, <2>2, FilesStay
<1>12. WriterTypes'
  <2>1. scanner' \in [Scanners -> Scan]
    BY <1>1, <1>2, DisturbedScans
  <2>2. \A t \in Scanners : IF scanner'[t].at = "idle" THEN scanner'[t] = Idle
                            ELSE ScanTyped(scanner'[t], today, lines)
    BY <1>7, <1>8
  <2>3. /\ rewriting' \in Rewrite /\ Filed(rewriting'.copy, today, lines)
        /\ \E e \in rewriting'.copy : e.id = rewriting'.id
    BY <1>1, <1>2, <1>5
  <2>4. today' = today /\ lines' = lines
    BY <1>1
  <2> QED BY <2>1, <2>2, <2>3, <2>4 DEF WriterTypes
<1>13. OneWriter'
  BY <1>9, <1>10 DEF OneWriter, Sole
<1>14. SoleScans'
  BY <1>9 DEF SoleScans, Sole
<1>15. Regenerated'
  <2> SUFFICES ASSUME regenerated
               PROVE  /\ ~mixed' /\ \A t \in Scanners : scanner'[t].at = "idle"
                      /\ \E d \in 1..MaxDay : documents' = {d} /\ scans'[d] = {e.id : e \in log'}
    BY <1>1 DEF Regenerated, IdsOf
  <2>1. /\ ~mixed /\ \A t \in Scanners : scanner[t].at = "idle"
        /\ \E d \in 1..MaxDay : documents = {d} /\ scans[d] = {e.id : e \in log}
    BY DEF LogIInv, Regenerated, IdsOf
  <2>2. Undisturbed
    BY <1>1, <2>1 DEF Undisturbed
  <2>3. ~mixed'
    BY <1>1, <2>1, <2>2
  <2> QED BY <1>1, <1>10, <2>1, <2>3
<1>16. Clean'
  <2> SUFFICES ASSUME ~mixed'
               PROVE  /\ rewriting'.copy = log' /\ \A t \in Scanners : scanner'[t].at = "idle"
                      /\ Sound(log', known', older', today') /\ Shows(NewestDocument', log', older')
    BY DEF Clean
  <2>1. Sound(log, known, older, today) /\ Shows(NewestDocument, log, older)
    BY <1>10, QuietLog
  <2>2. NewestDocument' = NewestDocument
    BY <1>1 DEF NewestDocument
  <2> QED BY <1>1, <1>5, <1>10, <2>1, <2>2
<1> QED
  BY <1>11, <1>12, <1>13, <1>14, <1>15, <1>16 DEF LogIInv

(* ... and writes it.                                                      *)
LEMMA FinishUpdateKeeps ==
  ASSUME LogIInv, FinishUpdate
  PROVE  LogIInv'
<1> DEFINE x == rewriting.id
           status == rewriting.status
           L == rewriting.copy
           newest == NewestLine(L, x[2])
<1>1. /\ rewriting # NotRewriting /\ rewriting' = NotRewriting
      /\ log' = {Patched(e) : e \in L}
      /\ IF newest.id = x THEN known' = [known EXCEPT ![x[2]] = status] /\ older' = older
         ELSE older' = older \cup {x[2]} /\ known' = known
      /\ UNCHANGED <<documents, scans, today, lines, scanner, updates, mixed, regenerated>>
  BY DEF FinishUpdate, NewestLine
<1>2. /\ scanner \in [Scanners -> Scan] /\ LogTypes /\ today \in 1..MaxDay
      /\ known \in [Keys -> Statuses \cup {"none"}] /\ mixed \in BOOLEAN
      /\ older \subseteq Keys /\ regenerated \in BOOLEAN
  BY DEF LogIInv, WriterTypes, LogTypes
<1>3. /\ x \in Ids /\ x[2] \in Keys /\ status \in Statuses /\ Filed(L, today, lines)
      /\ \E e \in L : e.id = x
  BY <1>1 DEF LogIInv, WriterTypes, Rewrite, Ids
<1>4. log' = Rewritten(L, x, status)
  BY <1>1 DEF Patched, Rewritten
<1>5. Filed(log', today, lines) /\ IdsOf(log') = IdsOf(L)
  <2> HIDE DEF x, status, L
  <2> QED BY <1>3, <1>4, PatchIsFiled
<1>6. known' \in [Keys -> Statuses \cup {"none"}] /\ older' \subseteq Keys
  BY <1>1, <1>2, <1>3
<1>7. /\ \A t \in Scanners : ~Sole(t)
      /\ ~mixed => /\ \A t \in Scanners : scanner[t].at = "idle"
                   /\ L = log
  BY <1>1 DEF LogIInv, OneWriter, Clean
<1>8. LogTypes'
  <2>1. today' = today /\ lines' = lines /\ scans' = scans /\ documents' = documents
        /\ mixed' = mixed /\ regenerated' = regenerated
    BY <1>1
  <2> QED BY <1>2, <1>5, <1>6, <2>1 DEF LogTypes
<1>9. WriterTypes'
  BY <1>1 DEF LogIInv, WriterTypes
<1>10. OneWriter'
  BY <1>1, <1>7 DEF LogIInv, OneWriter, Sole
<1>11. SoleScans'
  BY <1>1, <1>7 DEF SoleScans, Sole
<1>12. Regenerated'
  <2> SUFFICES ASSUME regenerated
               PROVE  /\ ~mixed /\ \A t \in Scanners : scanner[t].at = "idle"
                      /\ \E d \in 1..MaxDay : documents = {d} /\ scans[d] = IdsOf(log')
    BY <1>1 DEF Regenerated, IdsOf
  <2> QED BY <1>5, <1>7 DEF LogIInv, Regenerated
<1>13. Clean'
  <2> SUFFICES ASSUME ~mixed'
               PROVE  /\ \A t \in Scanners : scanner'[t].at = "idle"
                      /\ Sound(log', known', older', today') /\ Shows(NewestDocument', log', older')
    BY <1>1 DEF Clean
  <2>1. ~mixed /\ (\A t \in Scanners : scanner[t].at = "idle") /\ L = log
    BY <1>1, <1>7
  <2>2. Sound(L, known, older, today) /\ Shows(NewestDocument, L, older)
    BY <2>1, QuietLog
  <2>3. NewestDocument' = NewestDocument /\ scanner' = scanner /\ today' = today
    BY <1>1 DEF NewestDocument
  <2>4. known' = Told(known, L, x, status) /\ older' = Excepted(older, L, x)
    BY <1>1 DEF Told, Excepted
  <2>5. /\ Sound(Rewritten(L, x, status), Told(known, L, x, status), Excepted(older, L, x), today)
        /\ Shows(NewestDocument, Rewritten(L, x, status), Excepted(older, L, x))
    <3> HIDE DEF x, status, L
    <3> QED BY <1>2, <1>3, <2>2, PatchIsSound
  <2> QED BY <1>4, <2>1, <2>3, <2>4, <2>5
<1> QED
  BY <1>8, <1>9, <1>10, <1>11, <1>12, <1>13 DEF LogIInv

(* A day passes.                                                           *)
LEMMA MidnightKeeps ==
  ASSUME LogIInv, Midnight
  PROVE  LogIInv'
<1>1. /\ today < MaxDay /\ today' = today + 1
      /\ UNCHANGED <<log, documents, scans, lines, scanner, rewriting, updates, known, mixed, older,
                     regenerated>>
  BY DEF Midnight
<1>2. /\ scanner \in [Scanners -> Scan] /\ LogTypes /\ today \in 1..MaxDay /\ lines \in 0..MaxLines
      /\ Filed(log, today, lines) /\ documents \subseteq 1..today
  BY DEF LogIInv, WriterTypes, LogTypes
<1>3. today' \in 1..MaxDay /\ today <= today' /\ lines <= lines
  BY <1>1, <1>2, LogAssumption
<1>4. LogTypes'
  <2>1. Filed(log, today', lines)
    BY <1>2, <1>3, FiledLater
  <2>2. documents \subseteq 1..today'
    BY <1>2, <1>3, LogAssumption
  <2> QED BY <1>1, <1>2, <1>3, <2>1, <2>2 DEF LogTypes
<1>5. WriterTypes'
  <2>1. ASSUME NEW t \in Scanners
        PROVE  IF scanner[t].at = "idle" THEN scanner[t] = Idle ELSE ScanTyped(scanner[t], today', lines)
    <3>1. CASE scanner[t].at = "idle"
      BY <3>1 DEF LogIInv, WriterTypes
    <3>2. CASE scanner[t].at # "idle"
      <4>1. ScanTyped(scanner[t], today, lines) /\ scanner[t] \in Scan
        BY <3>2, OnlyWriter
      <4> QED BY <1>2, <1>3, <3>2, <4>1, ScanLater
    <3> QED BY <3>1, <3>2
  <2>2. rewriting # NotRewriting =>
          /\ rewriting \in Rewrite /\ Filed(rewriting.copy, today', lines)
          /\ \E e \in rewriting.copy : e.id = rewriting.id
    <3> SUFFICES ASSUME rewriting # NotRewriting
                 PROVE  /\ rewriting \in Rewrite /\ Filed(rewriting.copy, today', lines)
                        /\ \E e \in rewriting.copy : e.id = rewriting.id
      OBVIOUS
    <3>1. /\ rewriting \in Rewrite /\ Filed(rewriting.copy, today, lines)
          /\ \E e \in rewriting.copy : e.id = rewriting.id
      BY DEF LogIInv, WriterTypes
    <3> QED BY <1>2, <1>3, <3>1, FiledLater
  <2>3. lines' = lines /\ scanner' = scanner /\ rewriting' = rewriting
    BY <1>1
  <2> QED BY <1>2, <2>1, <2>2, <2>3 DEF WriterTypes
<1>6. OneWriter' /\ SoleScans' /\ Regenerated'
  BY <1>1 DEF LogIInv, OneWriter, SoleScans, Regenerated, Sole
<1>7. Clean'
  <2>1. NewestDocument' = NewestDocument
    BY <1>1 DEF NewestDocument
  <2>2. Sound(log, known, older, today) => Sound(log, known, older, today')
    BY <1>2, <1>3, SoundLater DEF Filed
  <2>3. ASSUME ~mixed, NEW t \in Scanners, scanner[t].at # "idle"
        PROVE  CleanScan(scanner[t])'
    <3>1. CleanScan(scanner[t]) /\ ScanTyped(scanner[t], today, lines)
      BY <2>3, OnlyWriter
    <3>2. Sound(scanner[t].prior, known, older, today')
      BY <1>2, <1>3, <3>1, SoundLater DEF CleanScan, ScanTyped, Filed
    <3> QED BY <1>1, <3>1, <3>2 DEF CleanScan
  <2> QED BY <1>1, <2>1, <2>2, <2>3 DEF LogIInv, Clean
<1> QED
  BY <1>4, <1>5, <1>6, <1>7 DEF LogIInv

(* So every step does.                                                     *)
LEMMA LogStays == LogIInv /\ [CtaLogNext]_logVars => LogIInv'
<1> SUFFICES ASSUME LogIInv, [CtaLogNext]_logVars
             PROVE  LogIInv'
  OBVIOUS
<1>1. ASSUME NEW s \in Scanners, NEW full \in BOOLEAN, StartScan(s, full) PROVE LogIInv'
  BY <1>1, StartScanKeeps
<1>2. ASSUME NEW s \in Scanners, WriteDocument(s) PROVE LogIInv'
  BY <1>2, WriteDocumentKeeps
<1>3. ASSUME NEW s \in Scanners, Prune(s) PROVE LogIInv'
  BY <1>3, PruneKeeps
<1>4. ASSUME NEW s \in Scanners, Replace(s) PROVE LogIInv'
  BY <1>4, ReplaceKeeps
<1>5. ASSUME NEW s \in Scanners, AppendLines(s) PROVE LogIInv'
  BY <1>5, AppendLinesKeeps
<1>6. ASSUME NEW s \in Scanners, Dies(s) PROVE LogIInv'
  BY <1>6, DiesKeeps
<1>7. ASSUME NEW i \in Ids, NEW status \in Given, StartUpdate(i, status) PROVE LogIInv'
  BY <1>7, StartUpdateKeeps
<1>8. CASE FinishUpdate
  BY <1>8, FinishUpdateKeeps
<1>9. CASE Midnight
  BY <1>9, MidnightKeeps
<1>10. CASE UNCHANGED logVars
  <2>1. NewestDocument' = NewestDocument
    BY <1>10 DEF logVars, NewestDocument
  <2> QED
    BY <1>10, <2>1 DEF logVars, LogIInv, LogTypes, WriterTypes, OneWriter, SoleScans, Regenerated, Clean,
                       CleanScan, Sole
<1> QED
  BY <1>1, <1>2, <1>3, <1>4, <1>5, <1>6, <1>7, <1>8, <1>9, <1>10 DEF CtaLogNext

(* What the operator has said of a CTA survives later scans, the board     *)
(* shows a CTA once, with a line behind every card and nothing newer, and  *)
(* one generation after a full scan that ran alone: any number of scanning *)
(* processes, accounts, days and updates.                                  *)
THEOREM LogIsSound == CtaLogSpec => []LogInv
<1>1. CtaLogInit => LogIInv
  BY LogBegins
<1>2. LogIInv /\ [CtaLogNext]_logVars => LogIInv'
  BY LogStays
<1>3. LogIInv => LogInv
  BY LogImplied
<1> QED
  BY <1>1, <1>2, <1>3, PTL DEF CtaLogSpec
==============================================================================
