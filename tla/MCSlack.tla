------------------------------- MODULE MCSlack -------------------------------
(* Sending and mapping share no state here: SlackSend takes the channel of *)
(* its customer from a mapping that changes at any time.  Their small      *)
(* instances are checked side by side, each behaviour runs one.            *)
EXTENDS MCSlackSend, SlackMapping

CONSTANTS a1, a2, c1, c2, w1, w2

TheAccounts == {a1, a2}
TheChannels == {c1, c2}
TheWorkers == {w1, w2}
TheConvention == [a \in TheAccounts |-> c2]
TheListed == {c2}
TheBounds == <<2, 0>>

VARIABLE part

SlackVars == <<part, vars, mappingVars>>
SlackInit ==      \* the one that does not run has one initial state
  /\ part \in {"send", "map"} /\ gate = Open /\ Init /\ MappingInit
  /\ part = "send" => present = TheAccounts /\ \A a \in TheAccounts : salesforce[a] = NoUrl
  /\ part = "map" => mapping = C1 /\ \A a \in TheAccounts : salesforce[a] # c2
LastRowIsAnOutcome ==    \* bound: at most two previews; then the mapping is read no more
  /\ Len(rows') = MaxRows => rows'[MaxRows].of # 0
  /\ Len(rows) = MaxRows => mapping' = mapping
LinksChangeFirst ==      \* bound: a second event is Slack's or the operator's
  events' = 2 /\ events = 1 => salesforce' = salesforce /\ sheet' = sheet
SlackNext ==
  \/ part = "send" /\ Next /\ LastRowIsAnOutcome /\ UNCHANGED <<part, mappingVars>>
  \/ part = "map" /\ MappingNext /\ LinksChangeFirst /\ UNCHANGED <<part, vars>>
SlackSpec == SlackInit /\ [][SlackNext]_SlackVars

SlackSymmetry == Symmetry \cup Permutations(TheWorkers) \cup Permutations(TheAccounts)
=============================================================================
