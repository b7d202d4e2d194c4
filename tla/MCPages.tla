------------------------------- MODULE MCPages -------------------------------
(* What runs in the browser: the watchers of a job, the table of Slack     *)
(* mappings, its panel for composing a message and the board of CTAs.  The *)
(* modules share no state, so their small instances are checked side by    *)
(* side: each behaviour runs one of them, the others rest in one initial   *)
(* state.                                                                  *)
EXTENDS MappingPage, ComposePanel, CtaBoard, JobWatch

VARIABLE part

PagesVars == <<part, pageVars, composeVars, boardVars, watchVars>>
PagesInit ==
  /\ part \in {"page", "compose", "board", "watch"}
  /\ PageInit /\ ComposeInit /\ BoardInit /\ WatchInit
  /\ part # "page" => view = 1
  /\ part # "board" => line = [c \in BoardCards |-> "open"]
PagesNext ==
  \/ part = "page" /\ PageNext /\ UNCHANGED <<part, composeVars, boardVars, watchVars>>
  \/ part = "compose" /\ ComposeNext /\ UNCHANGED <<part, pageVars, boardVars, watchVars>>
  \/ part = "board" /\ BoardNext /\ UNCHANGED <<part, pageVars, composeVars, watchVars>>
  \/ part = "watch" /\ WatchNext /\ UNCHANGED <<part, pageVars, composeVars, boardVars>>
PagesSpec == PagesInit /\ [][PagesNext]_PagesVars /\ (part = "watch" => WatchFairness)
=============================================================================
