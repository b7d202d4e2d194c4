----------------------------- MODULE ComposePanel -----------------------------
(***************************************************************************)
(* The panel of the mappings page that previews, confirms and cancels a    *)
(* message (ComposePanel in SlackMappingsClient.tsx).  It has no key: when *)
(* another row's Compose button is clicked, the same panel stays with what *)
(* it holds.  Closing it forgets everything but what the server works on.  *)
(***************************************************************************)
EXTENDS Naturals

CONSTANTS
  Customers,      \* accounts a message may be composed for
  MaxComposeActs  \* bound: what the operator does

Nobody == "nobody"

ASSUME ComposeAssumption == MaxComposeActs \in Nat /\ Nobody \notin Customers

VARIABLES
  selected,     \* the account composed for
  text,         \* version of the message's text; 0 is empty
  preview,
  awaiting,     \* the request whose answer enables the buttons again
  posted,       \* requests the server works on
  lost,         \* history: a request was abandoned, by closing or by a fault
  clicks

composeVars == <<selected, text, preview, awaiting, posted, lost, clicks>>

NoPreview == [id |-> 0, of |-> Nobody, text |-> 0, sendAllowed |-> FALSE]
NoRequest == [id |-> 0, what |-> "none", on |-> NoPreview]

Busy == awaiting # NoRequest

(* A panel that is not there awaits and shows nothing; what it awaits is   *)
(* in the hands of the server, whatever was clicked meanwhile.             *)
ComposeTypeOK ==
  /\ selected \in Customers \cup {Nobody} /\ lost \in BOOLEAN
  /\ selected = Nobody => ~Busy /\ preview = NoPreview
  /\ Busy => awaiting \in posted

ComposeInit ==
  /\ selected = Nobody /\ text = 0 /\ preview = NoPreview /\ awaiting = NoRequest
  /\ posted = {} /\ lost = FALSE /\ clicks = 0

ComposeClick == clicks < MaxComposeActs /\ clicks' = clicks + 1

-----------------------------------------------------------------------------
Select ==
  /\ ComposeClick
  /\ \E c \in Customers \ {selected} : selected' = c
  /\ UNCHANGED <<text, preview, awaiting, posted, lost>>

(* Mutant: the closed panel's request still counts as awaited.             *)
CloseAwaiting ==
  /\ ComposeClick /\ selected # Nobody
  /\ selected' = Nobody /\ text' = 0 /\ preview' = NoPreview
  /\ lost' = (lost \/ Busy)
  /\ UNCHANGED <<awaiting, posted>>
Close ==
  /\ ComposeClick /\ selected # Nobody
  /\ selected' = Nobody /\ text' = 0 /\ preview' = NoPreview
  /\ awaiting' = NoRequest /\ lost' = (lost \/ Busy)
  /\ UNCHANGED posted

EditMessage ==
  /\ ComposeClick /\ selected # Nobody
  /\ text' = clicks' /\ preview' = NoPreview
  /\ UNCHANGED <<selected, awaiting, posted, lost>>

Request(what, on) ==
  LET r == [id |-> clicks', what |-> what, on |-> on] IN
  /\ ComposeClick /\ selected # Nobody
  /\ awaiting' = r /\ posted' = posted \cup {r}
  /\ UNCHANGED <<selected, text, lost>>

DoPreview ==
  /\ ~Busy /\ text > 0
  /\ \E open \in BOOLEAN :    \* what the server will say of the gate
       Request("preview", [id |-> clicks', of |-> selected, text |-> text, sendAllowed |-> open])
  /\ UNCHANGED preview

(* Mutant: the buttons are not disabled while a request is under way.      *)
MayActOnPreview == preview # NoPreview
MayAct == preview # NoPreview /\ ~Busy

DoConfirm == MayAct /\ preview.sendAllowed /\ Request("confirm", preview) /\ UNCHANGED preview

DoCancel == MayAct /\ Request("cancel", preview) /\ UNCHANGED preview

-----------------------------------------------------------------------------
(* The server's answer.  A confirmation or cancellation that went well ends*)
(* the preview, one that failed leaves it.  An answer that nobody awaits   *)
(* goes nowhere.                                                           *)
ComposeAnswer(r, ok) ==
  /\ r \in posted /\ posted' = posted \ {r}
  /\ IF r = awaiting
     THEN /\ awaiting' = NoRequest
          /\ preview' = IF ~ok THEN preview
                        ELSE IF r.what = "preview" THEN r.on ELSE NoPreview
     ELSE UNCHANGED <<awaiting, preview>>
  /\ UNCHANGED <<selected, text, lost, clicks>>

(* The connection breaks while the server works: the preview stays and may *)
(* be confirmed again.                                                     *)
ConnectionBreaks ==
  /\ Busy /\ awaiting' = NoRequest /\ lost' = TRUE
  /\ UNCHANGED <<selected, text, preview, posted, clicks>>

ComposeNext ==
  \/ Select \/ Close \/ EditMessage \/ DoPreview \/ DoConfirm \/ DoCancel
  \/ ConnectionBreaks
  \/ \E r \in posted, ok \in BOOLEAN : ComposeAnswer(r, ok)

ComposeSpec == ComposeInit /\ [][ComposeNext]_composeVars

-----------------------------------------------------------------------------
(* The server does not exclude that two requests that act on one preview   *)
(* both succeed (SlackSend, SentOnce): this panel is what keeps them apart,*)
(* unless it loses sight of one, through Close or a fault.                 *)
OneActAtATime ==
  ~lost => \A p, q \in posted :
             p.what # "preview" /\ q.what # "preview" /\ p.on = q.on => p = q

(* The invariant of the panel.                                             *)
ComposeInv == ComposeTypeOK /\ OneActAtATime
=============================================================================
