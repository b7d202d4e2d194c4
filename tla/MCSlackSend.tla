----------------------------- MODULE MCSlackSend -----------------------------
(* Small instances of the Slack send path for TLC.                         *)
EXTENDS SlackSend, TLC

CONSTANTS h1, h2, C1, U1

TwoRequests == {h1, h2}
OneChannel == {C1}
OneRecipient == {U1}

Environment(readOnly, enabled, recipient) ==
  [readOnlyMode |-> readOnly, enabled |-> enabled, botToken |-> TRUE,
   testRecipient |-> recipient]
Open == Environment(FALSE, TRUE, U1)
ReadOnly == Environment(TRUE, TRUE, U1)

OpenOnly == {Open}
OpenOrNot == {Open, ReadOnly}

Symmetry == Permutations(TwoRequests)
=============================================================================
