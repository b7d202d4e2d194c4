------------------------------ MODULE SlackSend ------------------------------
(***************************************************************************)
(* Sending to Slack: the preview, confirm and cancel handlers of the web   *)
(* application, the append-only table slack_message_audit, the send gate   *)
(* read from the environment, and Slack itself.  Every await is a point    *)
(* where other handlers move.  The general audit_log is not represented    *)
(* except for the failure of a write to it.                                *)
(***************************************************************************)
EXTENDS Naturals, Sequences

CONSTANTS
  Requests,       \* handlers that may be in flight together
  Channels,       \* customer channels
  Recipients,     \* test recipients
  Gates,          \* the environments the application may be started in
  MaxRows,        \* bound: rows of slack_message_audit
  MaxFaults       \* bound: restarts of the application and writes that fail

None == "none"
Kinds == {"customer_channel", "self_test"}
Targets == Channels \cup Recipients
Environments == [readOnlyMode : BOOLEAN, enabled : BOOLEAN, botToken : BOOLEAN,
                 testRecipient : Recipients \cup {None}]

ASSUME SlackAssumption ==
  /\ Channels \cap Recipients = {} /\ None \notin Targets
  /\ Gates \subseteq Environments
  /\ MaxRows \in Nat /\ MaxFaults \in Nat

VARIABLES
  rows,       \* slack_message_audit, a row's id is its index
  messages,   \* what Slack has delivered, in order
  mapping,    \* the account's usable customer channel
  gate,       \* the environment of the running process
  pc,         \* where each handler is
  kind,       \* the preview handler's target type
  seen,       \* the mapping it has read
  of,         \* the preview a confirm or cancel is about
  disturbed,  \* history: previews two handlers acted on at once, or whose
              \* handler was cut short by a restart or a failed write
  faults

handler == <<pc, kind, seen, of>>
world == <<mapping, gate>>
vars == <<rows, messages, mapping, gate, pc, kind, seen, of, disturbed, faults>>
quiet == <<disturbed, faults>>     \* no write fails

Results == {"previewed", "sent", "blocked", "failed", "cancelled"}
Row == [kind : Kinds, channel : Targets \cup {None}, result : Results,
        of : Nat, allowed : BOOLEAN]
Places == {"idle", "preview", "check", "block", "post", "sent", "audit",
           "failed", "cancelCheck", "cancel"}

TypeOK ==
  /\ rows \in Seq(Row)
  /\ messages \in Seq([of : Nat \ {0}, channel : Targets])
  /\ mapping \in Channels \cup {None}
  /\ gate \in Gates
  /\ pc \in [Requests -> Places]
  /\ kind \in [Requests -> Kinds]
  /\ seen \in [Requests -> Channels \cup {None}]
  /\ of \in [Requests -> Nat]
  /\ disturbed \subseteq 1..Len(rows)
  /\ faults \in 0..MaxFaults

Init ==
  /\ rows = <<>> /\ messages = <<>>
  /\ mapping \in Channels \cup {None}
  /\ gate \in Gates
  /\ pc = [h \in Requests |-> "idle"]
  /\ kind = [h \in Requests |-> "self_test"]
  /\ seen = [h \in Requests |-> None]
  /\ of = [h \in Requests |-> 0]
  /\ disturbed = {}
  /\ faults = 0

-----------------------------------------------------------------------------
(* assertSendEnabled, and what previewSend promises: the same guards but   *)
(* for the read-only mode.                                                 *)
GateOpen(k) ==
  /\ ~gate.readOnlyMode /\ gate.enabled /\ gate.botToken
  /\ k = "self_test" => gate.testRecipient # None

PreviewTarget(k, mapped) ==
  IF k = "self_test" THEN gate.testRecipient ELSE mapped

SendAllowed(k, mapped) ==
  PreviewTarget(k, mapped) # None /\ gate.enabled /\ gate.botToken

(* Where a confirmed message goes.  Mutant: where the account is mapped    *)
(* at the time of the confirmation.                                        *)
LiveChannel(p) ==
  IF rows[p].kind = "self_test" THEN gate.testRecipient ELSE mapping
ConfirmChannel(p) ==
  IF rows[p].kind = "self_test" THEN gate.testRecipient ELSE rows[p].channel

(* The preview has been acted on.  Mutant: only a success counts.          *)
SentBefore(p) == \E i \in 1..Len(rows) : rows[i].of = p /\ rows[i].result = "sent"
Reused(p) == \E i \in 1..Len(rows) : rows[i].of = p

Insert(k, c, result, p, allowed) ==
  /\ Len(rows) < MaxRows
  /\ rows' = Append(rows, [kind |-> k, channel |-> c, result |-> result,
                           of |-> p, allowed |-> allowed])

InsertOutcome(p, c, result) == Insert(rows[p].kind, c, result, p, FALSE)

(* A handler goes on, or answers its request: its variables are dead then. *)
Goto(h, place) ==
  /\ pc' = [pc EXCEPT ![h] = place]
  /\ UNCHANGED <<kind, seen, of>>

Leave(h) ==
  /\ pc' = [pc EXCEPT ![h] = "idle"]
  /\ kind' = [kind EXCEPT ![h] = "self_test"]
  /\ seen' = [seen EXCEPT ![h] = None]
  /\ of' = [of EXCEPT ![h] = 0]

WriteFails(p) ==
  /\ faults < MaxFaults
  /\ faults' = faults + 1
  /\ disturbed' = disturbed \cup {p}
  /\ UNCHANGED rows

WriteSucceeds(p, c, result) == InsertOutcome(p, c, result) /\ UNCHANGED quiet

(* A handler passes its check of preview p.                                *)
PastCheck == {"block", "post", "sent", "audit", "failed", "cancel"}
Passes(h) ==
  disturbed' = IF \E other \in Requests \ {h} :
                    of[other] = of[h] /\ pc[other] \in PastCheck
               THEN disturbed \cup {of[h]} ELSE disturbed

-----------------------------------------------------------------------------
(* previewSend: read the mapping, then insert the preview's row.           *)

PreviewStart(h) ==
  /\ pc[h] = "idle"
  /\ pc' = [pc EXCEPT ![h] = "preview"]
  /\ \E k \in Kinds : kind' = [kind EXCEPT ![h] = k]
  /\ seen' = [seen EXCEPT ![h] = mapping]
  /\ UNCHANGED <<rows, messages, world, of, quiet>>

PreviewInsert(h) ==
  /\ pc[h] = "preview"
  /\ Insert(kind[h], PreviewTarget(kind[h], seen[h]), "previewed", 0,
            SendAllowed(kind[h], seen[h]))
  /\ Leave(h)
  /\ UNCHANGED <<messages, world, quiet>>

(* confirmSend: find the preview, look for a row that acted on it, check   *)
(* the gate and the channel, send, record.                                 *)

ConfirmStart(h) ==
  /\ pc[h] = "idle"
  /\ pc' = [pc EXCEPT ![h] = "check"]
  /\ \E p \in 1..Len(rows) : /\ rows[p].result = "previewed"
                             /\ of' = [of EXCEPT ![h] = p]
  /\ UNCHANGED <<rows, messages, world, kind, seen, quiet>>

(* May the message go out?  Mutant: the channel is not looked at.          *)
GateOnly(p) == GateOpen(rows[p].kind)
AllowedNow(p) == GateOpen(rows[p].kind) /\ ConfirmChannel(p) # None

ConfirmCheck(h) ==
  /\ pc[h] = "check"
  /\ IF Reused(of[h]) THEN Leave(h) /\ UNCHANGED disturbed
     ELSE Goto(h, IF AllowedNow(of[h]) THEN "post" ELSE "block") /\ Passes(h)
  /\ UNCHANGED <<rows, messages, world, faults>>

ConfirmBlock(h) ==
  /\ pc[h] = "block"
  /\ \/ WriteSucceeds(of[h], IF GateOpen(rows[of[h]].kind) THEN None
                             ELSE rows[of[h]].channel, "blocked")
     \/ WriteFails(of[h])
  /\ Leave(h)
  /\ UNCHANGED <<messages, world>>

(* The call to chat.postMessage: Slack delivers and answers; delivers and  *)
(* the answer is lost; or refuses.                                         *)
Deliver(h) ==
  messages' = Append(messages, [of |-> of[h], channel |-> ConfirmChannel(of[h])])

PostAccepted(h) ==
  /\ pc[h] = "post"
  /\ Deliver(h)
  /\ Goto(h, "sent")
  /\ UNCHANGED <<rows, world, quiet>>

PostAnswerLost(h) ==
  /\ pc[h] = "post"
  /\ Deliver(h)
  /\ Goto(h, "failed")
  /\ UNCHANGED <<rows, world, quiet>>

(* Mutant: an error answer of Slack is taken for success.                  *)
PostRefusedUnnoticed(h) ==
  /\ pc[h] = "post"
  /\ Goto(h, "sent")
  /\ UNCHANGED <<rows, messages, world, quiet>>
PostRefused(h) ==
  /\ pc[h] = "post"
  /\ Goto(h, "failed")
  /\ UNCHANGED <<rows, messages, world, quiet>>

(* Recording a success is inside the same try as the call: when the row or *)
(* the audit_log entry after it is not written, the catch records failure. *)
RecordSent(h) ==
  /\ pc[h] = "sent"
  /\ \/ WriteSucceeds(of[h], ConfirmChannel(of[h]), "sent") /\ Goto(h, "audit")
     \/ WriteFails(of[h]) /\ Goto(h, "failed")
  /\ UNCHANGED <<messages, world>>

AuditSent(h) ==
  /\ pc[h] = "audit"
  /\ \/ Leave(h) /\ UNCHANGED <<rows, quiet>>
     \/ WriteFails(of[h]) /\ Goto(h, "failed")
  /\ UNCHANGED <<messages, world>>

(* Mutant: a failed call is not recorded.                                  *)
RecordNothing(h) ==
  /\ pc[h] = "failed"
  /\ Leave(h)
  /\ UNCHANGED <<rows, messages, world, quiet>>
RecordFailed(h) ==
  /\ pc[h] = "failed"
  /\ \/ WriteSucceeds(of[h], ConfirmChannel(of[h]), "failed")
     \/ WriteFails(of[h])
  /\ Leave(h)
  /\ UNCHANGED <<messages, world>>

(* cancelSend: any row may be named, and it need not be a preview.         *)

CancelStart(h) ==
  /\ pc[h] = "idle"
  /\ pc' = [pc EXCEPT ![h] = "cancelCheck"]
  /\ \E p \in 1..Len(rows) : of' = [of EXCEPT ![h] = p]
  /\ UNCHANGED <<rows, messages, world, kind, seen, quiet>>

(* Mutant: cancelling asks nothing.                                        *)
CancelAnyway(h) ==
  /\ pc[h] = "cancelCheck"
  /\ Goto(h, "cancel")
  /\ Passes(h)
  /\ UNCHANGED <<rows, messages, world, faults>>
CancelCheck(h) ==
  /\ pc[h] = "cancelCheck"
  /\ IF Reused(of[h]) THEN Leave(h) /\ UNCHANGED disturbed
     ELSE Goto(h, "cancel") /\ Passes(h)
  /\ UNCHANGED <<rows, messages, world, faults>>

CancelInsert(h) ==
  /\ pc[h] = "cancel"
  /\ \/ WriteSucceeds(of[h], rows[of[h]].channel, "cancelled")
     \/ WriteFails(of[h])
  /\ Leave(h)
  /\ UNCHANGED <<messages, world>>

-----------------------------------------------------------------------------
(* A mapping refresh or an override changes the account's channel; the     *)
(* application restarts, perhaps in another environment.                   *)

Remap ==
  /\ mapping' \in (Channels \cup {None}) \ {mapping}
  /\ UNCHANGED <<rows, messages, gate, handler, quiet>>

Restart ==
  /\ faults < MaxFaults
  /\ faults' = faults + 1
  /\ gate' \in Gates
  /\ disturbed' = disturbed \cup {of[h] : h \in {g \in Requests : pc[g] \in PastCheck}}
  /\ pc' = [h \in Requests |-> "idle"]
  /\ kind' = [h \in Requests |-> "self_test"]
  /\ seen' = [h \in Requests |-> None]
  /\ of' = [h \in Requests |-> 0]
  /\ UNCHANGED <<rows, messages, mapping>>

RequestStep(h) ==
  \/ PreviewStart(h) \/ PreviewInsert(h)
  \/ ConfirmStart(h) \/ ConfirmCheck(h) \/ ConfirmBlock(h)
  \/ PostAccepted(h) \/ PostAnswerLost(h) \/ PostRefused(h)
  \/ RecordSent(h) \/ AuditSent(h) \/ RecordFailed(h)
  \/ CancelStart(h) \/ CancelCheck(h) \/ CancelInsert(h)

Next == (\E h \in Requests : RequestStep(h)) \/ Remap \/ Restart

Spec == Init /\ [][Next]_vars

-----------------------------------------------------------------------------
(* Properties.                                                             *)

Previews == {p \in 1..Len(rows) : rows[p].result = "previewed"}
Outcomes(p) == {i \in 1..Len(rows) : rows[i].of = p}
SentFor(p) == {i \in 1..Len(messages) : messages[i].of = p}

(* Settled: it has an outcome, and every handler that works on it still has *)
(* its check of the preview to do.                                         *)
Settled(p) ==
  /\ Outcomes(p) # {}
  /\ \A h \in Requests : of[h] = p => pc[h] \notin PastCheck

(* A row that says "sent" tells the truth: Slack delivered that preview's  *)
(* message to the row's channel (RecordSent after postMessage).            *)
SentIsDelivered ==
  \A i \in 1..Len(rows) : rows[i].result = "sent" =>
    \E k \in SentFor(rows[i].of) : messages[k].channel = rows[i].channel

(* A customer message reaches the channel that its preview showed, whatever *)
(* the mapping has become; a self test never reaches a customer.           *)
DeliveredAsPreviewed ==
  \A i \in 1..Len(messages) :
    LET preview == rows[messages[i].of]
    IN  IF preview.kind = "customer_channel"
        THEN messages[i].channel = preview.channel
        ELSE messages[i].channel \in Recipients

(* Nobody calls Slack behind a closed gate: a handler that is at its call  *)
(* has the environment that allows it, whatever was restarted since its    *)
(* preview was made (assertSendEnabled).                                   *)
NoneBehindClosedGate ==
  \A h \in Requests : pc[h] = "post" => GateOpen(rows[of[h]].kind)

(* Once a preview has an outcome and no handler is past its check, that is *)
(* the end of it: nothing is sent or recorded for it again, through        *)
(* restarts and later confirmations (the preview_of query).                *)
SettledStaysSettled ==
  [][\A p \in 1..Len(rows) : Settled(p) =>
       Settled(p)' /\ SentFor(p)' = SentFor(p) /\ Outcomes(p)' = Outcomes(p)]_vars

(* A preview is acted on once: one message at most, one outcome row at     *)
(* most, and none of the messages under a row that says it was blocked or  *)
(* cancelled; unless two handlers were past their check of it together, or *)
(* a restart or a failed write cut one short.  This is how much of "a row  *)
(* can be confirmed at most once" the preview_of query alone gives.        *)
ActedOnOnce ==
  \A p \in (1..Len(rows)) \ disturbed :
    /\ \A i, k \in SentFor(p) : i = k
    /\ \A i, k \in Outcomes(p) : i = k
    /\ \A i \in Outcomes(p) :
         rows[i].result \in {"blocked", "cancelled"} => SentFor(p) = {}

(* A preview's message is delivered at most once (confirmSend: "a row can  *)
(* be confirmed at most once").  Fails for two confirmations in flight.    *)
SentOnce == \A i, k \in 1..Len(messages) : messages[i].of = messages[k].of => i = k

(* The invariant of the send service.                                      *)
SendInv ==
  TypeOK /\ SentIsDelivered /\ DeliveredAsPreviewed /\ NoneBehindClosedGate /\ ActedOnOnce
=============================================================================
