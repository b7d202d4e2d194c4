----------------------------- MODULE GleanToken -----------------------------
(* The three scripts that put a Glean token into .env: glean-login, which  *)
(* asks a person, glean-refresh, which spends the saved grant (the refresh *)
(* token of .glean-oauth.json), and refresh-glean-token, which tries that  *)
(* first and then the stores of two editors.  Runs overlap, a run may be   *)
(* for another tenant (GLEAN_MCP_URL), and a run may die anywhere.  A grant *)
(* is <<client, consent, n>>: what became of a consent after n uses.        *)
EXTENDS Naturals, Sequences

CONSTANTS
  Scripters,        \* runs of a script at one time
  Tenants,          \* Glean servers
  Rotating,         \* tenants that replace a grant whenever it is used
  ForcedSources,    \* values of GLEAN_TOKEN_SOURCE
  MaxClients,       \* registrations of one behaviour
  MaxConsents,      \* times that a person agrees
  MaxUses,          \* uses of one grant and its successors
  MaxAccidents      \* deaths, lost answers and revocations of one behaviour

ASSUME GleanTokenAssumption ==
  /\ Tenants # {} /\ Rotating \subseteq Tenants
  /\ ForcedSources \subseteq {"in-repo", "cursor", "windsurf"}

VARIABLES
  live,             \* external: the grants that the tenant accepts
  clients,          \* external: clients registered so far
  consents,         \* external: times that a person agreed
  saved,            \* .glean-oauth.json: an entry for each tenant, or NoEntry
  step,             \* where each run is
  script,           \* which script it is: "login", "refresh" or the sources to try
  tenant,           \* its GLEAN_MCP_URL
  entry,            \* the entry that it read, and later the one to be saved
  file,             \* the whole file as read, about to be written back
  token,            \* the token for .env: <<tenant, where from, whether expired>>, or NoToken
  lost,             \* history: tenants whose saved grant was spent, replaced or cut off for nothing
  accidents         \* deaths, lost answers and revocations so far

tenantState == <<live, clients, consents>>
runState == <<step, script, tenant, entry, file, token>>
tokenVars == <<tenantState, saved, runState, lost, accidents>>

NoGrant == <<>>
NoEntry == <<>>
NoToken == <<>>
Entry(c, g) == [client |-> c, grant |-> g]

(* SOURCES in their order, or the one that GLEAN_TOKEN_SOURCE names.  That *)
(* it named one does not depend on what is left to try.                    *)
TokenSources == <<"in-repo", "cursor", "windsurf">>
Candidates == {<<"sources">> \o TokenSources} \cup {<<"forced", s>> : s \in ForcedSources}
Forced(r) == script[r][1] = "forced"

Idle(r) == step[r] = "idle"

-----------------------------------------------------------------------------
(* The tenant's token endpoint.                                            *)

(* A grant is accepted from the client that it was given to.  The tenant   *)
(* either keeps it or replaces it by the next one.                         *)
Accepts(t, e) == e.grant \in live[t] /\ e.grant[1] = e.client
NextGrant(t, g) == IF t \in Rotating THEN [g EXCEPT ![3] = @ + 1] ELSE g
Spend(t, g) == live' = [live EXCEPT ![t] = (@ \ {g}) \cup {NextGrant(t, g)}]

-----------------------------------------------------------------------------
(* The files.                                                              *)

Goes(r, s) == step' = [step EXCEPT ![r] = s]

AnyTenant == CHOOSE t \in Tenants : TRUE

(* A run that ends forgets everything.                                     *)
Forget(r) ==
  /\ script' = [script EXCEPT ![r] = <<>>]
  /\ entry' = [entry EXCEPT ![r] = NoEntry]
  /\ file' = [file EXCEPT ![r] = <<>>]
  /\ token' = [token EXCEPT ![r] = NoToken]
  /\ tenant' = [tenant EXCEPT ![r] = AnyTenant]

(* writeStateFor reads the file again before it writes it.                 *)
ReadAgain(r) ==
  /\ step[r] = "save"
  /\ file' = [file EXCEPT ![r] = [saved EXCEPT ![tenant[r]] = entry[r]]]
  /\ Goes(r, "write")
  /\ UNCHANGED <<tenantState, saved, script, tenant, entry, token, lost, accidents>>

AfterSave(r) == IF script[r] \in {<<"login">>, <<"refresh">>} THEN "done" ELSE "env"

(* The run holds a grant whose predecessor is dead and is still in the     *)
(* file.                                                                   *)
HoldsTheGrant(r) ==
  /\ script[r] # <<"login">>
  /\ step[r] \in {"save", "write"} \cup (IF script[r] = <<"refresh">> THEN {"env"} ELSE {})

(* What another run saved since is written over, and a login saves a new   *)
(* grant, or the cached one under a client that it was not given to.  A new *)
(* grant heals the tenant, unless a run from before is still to save its own. *)
LostByWriting(r) ==
  LET over == lost \cup {t \in Tenants \ {tenant[r]} : saved[t] # file[r][t]} IN
  CASE script[r] # <<"login">> -> over
    [] /\ script[r] = <<"login">> /\ token[r][2] = "consent"
       /\ entry[r].grant \in live[tenant[r]]
       /\ \A q \in Scripters : tenant[q] = tenant[r] => ~HoldsTheGrant(q) -> over \ {tenant[r]}
    [] OTHER -> over \cup {tenant[r]}

WriteFile(r) ==
  /\ step[r] = "write"
  /\ saved' = file[r]
  /\ lost' = LostByWriting(r)
  /\ IF AfterSave(r) = "done"
     THEN Goes(r, "idle") /\ Forget(r)
     ELSE /\ Goes(r, AfterSave(r))
          /\ file' = [file EXCEPT ![r] = <<>>]
          /\ UNCHANGED <<script, tenant, entry, token>>
  /\ UNCHANGED <<tenantState, accidents>>

(* writeEnvVar: the token leaves the model, for no script reads .env back.  *)
(* The scripts differ in which file comes first.                           *)
WriteEnv(r) ==
  /\ step[r] = "env"
  /\ IF script[r] \in {<<"login">>, <<"refresh">>}
     THEN Goes(r, "save") /\ UNCHANGED <<script, tenant, entry, file, token>>
     ELSE Goes(r, "idle") /\ Forget(r)
  /\ UNCHANGED <<tenantState, saved, lost, accidents>>

-----------------------------------------------------------------------------
(* glean-login.mjs.                                                        *)

(* The cached entry is read.  Its client is used again only when the port  *)
(* happens to be the same; otherwise a new one is registered.              *)
StartLogin(r, t) ==
  LET cached == saved[t] IN
  /\ Idle(r)
  /\ \/ /\ cached # NoEntry
        /\ entry' = [entry EXCEPT ![r] = cached]
        /\ UNCHANGED clients
     \/ /\ clients < MaxClients
        /\ clients' = clients + 1
        /\ entry' = [entry EXCEPT ![r] = Entry(clients + 1, IF cached = NoEntry THEN NoGrant ELSE cached.grant)]
  /\ Goes(r, "consent")
  /\ script' = [script EXCEPT ![r] = <<"login">>]
  /\ tenant' = [tenant EXCEPT ![r] = t]
  /\ UNCHANGED <<live, consents, saved, file, token, lost, accidents>>

(* Mutant: a new client with its own grant, but the cached client's name *)
(* in the file.                                                            *)
SavedByLoginUnderOldName(r, g) == Entry(IF saved[tenant[r]] = NoEntry THEN entry[r].client ELSE saved[tenant[r]].client, g)

SavedByLogin(r, g) == Entry(entry[r].client, g)

(* The person agrees and the code is exchanged.  Without offline_access    *)
(* there is no grant, and the cached one stays in the file, under whatever *)
(* client this login uses.                                                 *)
Consent(r) ==
  LET fresh == <<entry[r].client, consents + 1, 0>> IN
  /\ step[r] = "consent"
  /\ consents < MaxConsents
  /\ consents' = consents + 1
  /\ \/ /\ live' = [live EXCEPT ![tenant[r]] = @ \cup {fresh}]
        /\ entry' = [entry EXCEPT ![r] = SavedByLogin(r, fresh)]
        /\ token' = [token EXCEPT ![r] = <<tenant[r], "consent", FALSE>>]
     \/ /\ entry' = [entry EXCEPT ![r] = SavedByLogin(r, entry[r].grant)]
        /\ token' = [token EXCEPT ![r] = <<tenant[r], "consent without a grant", FALSE>>]
        /\ UNCHANGED live
  /\ Goes(r, "env")
  /\ UNCHANGED <<clients, saved, script, tenant, file, lost, accidents>>

-----------------------------------------------------------------------------
(* glean-refresh.mjs and refresh-glean-token.mjs.                          *)

StartRefresh(r, t) ==
  /\ Idle(r)
  /\ saved[t] # NoEntry
  /\ saved[t].grant # NoGrant
  /\ Goes(r, "ask")
  /\ script' = [script EXCEPT ![r] = <<"refresh">>]
  /\ tenant' = [tenant EXCEPT ![r] = t]
  /\ entry' = [entry EXCEPT ![r] = saved[t]]
  /\ UNCHANGED <<tenantState, saved, file, token, lost, accidents>>

StartSources(r, t, sources) ==
  /\ Idle(r)
  /\ Goes(r, "next")
  /\ script' = [script EXCEPT ![r] = sources]
  /\ tenant' = [tenant EXCEPT ![r] = t]
  /\ UNCHANGED <<tenantState, saved, entry, file, token, lost, accidents>>

Left(r) == Tail(script[r])
Skipped(r) == script' = [script EXCEPT ![r] = <<script[r][1]>> \o Tail(Left(r))]

(* loadInRepo: without a usable entry the source is skipped.               *)
TryInRepo(r) ==
  /\ step[r] = "next"
  /\ Left(r) # <<>>
  /\ Head(Left(r)) = "in-repo"
  /\ IF saved[tenant[r]] # NoEntry /\ saved[tenant[r]].grant # NoGrant
     THEN /\ entry' = [entry EXCEPT ![r] = saved[tenant[r]]]
          /\ Goes(r, "ask")
          /\ UNCHANGED script
     ELSE Skipped(r) /\ UNCHANGED <<entry, step>>
  /\ UNCHANGED <<tenantState, saved, tenant, file, token, lost, accidents>>

(* Mutant: keeps the grant that was spent.                               *)
SavedByRefreshOld(r, g) == entry[r]

(* What is saved is the entry that was read, with the grant that the       *)
(* answer carries, or the old one if it carries none.                      *)
SavedByRefresh(r, g) == [entry[r] EXCEPT !.grant = g]

Ask(r) ==
  LET t == tenant[r]
      g == entry[r].grant IN
  /\ step[r] = "ask"
  /\ Accepts(t, entry[r])
  /\ g[3] < MaxUses
  /\ Spend(t, g)
  /\ entry' = [entry EXCEPT ![r] = SavedByRefresh(r, NextGrant(t, g))]
  /\ token' = [token EXCEPT ![r] = <<t, "grant", FALSE>>]
  /\ Goes(r, IF script[r] = <<"refresh">> THEN "env" ELSE "save")
  /\ UNCHANGED <<clients, consents, saved, script, tenant, file, lost, accidents>>

(* glean-refresh stops; the other goes on to its next source.              *)
Refusal(r) ==
  IF script[r] = <<"refresh">>
  THEN Goes(r, "idle") /\ Forget(r)
  ELSE /\ Skipped(r)
       /\ Goes(r, "next")
       /\ entry' = [entry EXCEPT ![r] = NoEntry]
       /\ UNCHANGED <<tenant, file, token>>

Refused(r) ==
  /\ step[r] = "ask"
  /\ Refusal(r)
  /\ UNCHANGED <<tenantState, saved, lost, accidents>>

(* Mutant: an expired token is as good as any.                           *)
UsableAnyway(r, expired) == TRUE

Usable(r, expired) == ~expired \/ Forced(r)

(* An editor's store: the token of Cursor is filed by the tenant's         *)
(* address, the one of Windsurf by a name that says nothing of the tenant. *)
TryEditor(r) ==
  /\ step[r] = "next"
  /\ Left(r) # <<>>
  /\ Head(Left(r)) # "in-repo"
  /\ \E expired \in BOOLEAN, t \in Tenants :
       /\ Head(Left(r)) = "cursor" => t = tenant[r]
       /\ Usable(r, expired)
       /\ token' = [token EXCEPT ![r] = <<t, Head(Left(r)), expired>>]
  /\ Goes(r, "env")
  /\ UNCHANGED <<tenantState, saved, script, tenant, entry, file, lost, accidents>>

(* No keychain, no entry, nothing that can be read, or an expired token.   *)
EditorHasNone(r) ==
  /\ step[r] = "next"
  /\ Left(r) # <<>>
  /\ Head(Left(r)) # "in-repo"
  /\ Skipped(r)
  /\ UNCHANGED <<tenantState, saved, step, tenant, entry, file, token, lost, accidents>>

(* No usable token found.                                                  *)
NoneFound(r) ==
  /\ step[r] = "next"
  /\ Left(r) = <<>>
  /\ Goes(r, "idle")
  /\ Forget(r)
  /\ UNCHANGED <<tenantState, saved, lost, accidents>>

-----------------------------------------------------------------------------
(* Accidents.                                                              *)

Accident == accidents < MaxAccidents /\ accidents' = accidents + 1

(* The tenant has spent the grant, and the answer is lost or is no JSON.   *)
AnswerLost(r) ==
  LET t == tenant[r]
      g == entry[r].grant IN
  /\ step[r] = "ask"
  /\ Accident
  /\ Accepts(t, entry[r])
  /\ g[3] < MaxUses
  /\ Spend(t, g)
  /\ lost' = IF t \in Rotating THEN lost \cup {t} ELSE lost
  /\ Refusal(r)
  /\ UNCHANGED <<clients, consents, saved>>

(* The run ends early, by an error or a signal.  A login that is refused,  *)
(* or whose person says no, ends so too.                                   *)
Dies(r) ==
  /\ ~Idle(r)
  /\ Accident
  /\ lost' = IF HoldsTheGrant(r) /\ tenant[r] \in Rotating THEN lost \cup {tenant[r]} ELSE lost
  /\ Goes(r, "idle")
  /\ Forget(r)
  /\ UNCHANGED <<tenantState, saved>>

(* It dies while it writes the file: what is left of it does not parse,    *)
(* and readState takes that for an empty one.                              *)
DiesWriting(r) ==
  /\ step[r] = "write"
  /\ Accident
  /\ saved' = [t \in Tenants |-> NoEntry]
  /\ lost' = lost \cup {t \in Tenants : saved[t] # NoEntry}
  /\ Goes(r, "idle")
  /\ Forget(r)
  /\ UNCHANGED tenantState

(* A password is changed, or somebody signs out everywhere.                *)
Revoked(t) ==
  /\ Accident
  /\ live[t] # {}
  /\ live' = [live EXCEPT ![t] = {}]
  /\ lost' = lost \cup {t}
  /\ UNCHANGED <<clients, consents, saved, runState>>

-----------------------------------------------------------------------------
TokenInit ==
  /\ live = [t \in Tenants |-> {}]
  /\ clients = 0
  /\ consents = 0
  /\ saved = [t \in Tenants |-> NoEntry]
  /\ step = [r \in Scripters |-> "idle"]
  /\ script = [r \in Scripters |-> <<>>]
  /\ tenant = [r \in Scripters |-> AnyTenant]
  /\ entry = [r \in Scripters |-> NoEntry]
  /\ file = [r \in Scripters |-> <<>>]
  /\ token = [r \in Scripters |-> NoToken]
  /\ lost = {}
  /\ accidents = 0

TokenNext ==
  \/ \E r \in Scripters, t \in Tenants : StartLogin(r, t) \/ StartRefresh(r, t) \/ \E s \in Candidates : StartSources(r, t, s)
  \/ \E r \in Scripters :
       \/ Consent(r)
       \/ TryInRepo(r) \/ Ask(r) \/ Refused(r)
       \/ TryEditor(r) \/ EditorHasNone(r) \/ NoneFound(r)
       \/ ReadAgain(r) \/ WriteFile(r) \/ WriteEnv(r)
       \/ AnswerLost(r) \/ Dies(r) \/ DiesWriting(r)
  \/ \E t \in Tenants : Revoked(t)

TokenSpec == TokenInit /\ [][TokenNext]_tokenVars

-----------------------------------------------------------------------------
(* Between runs the saved grant is one that the tenant accepts from the    *)
(* saved client, however the runs overlapped and whoever died, unless one  *)
(* of the causes that the history names has cut it off.                    *)
GrantIsKept ==
  \A t \in Tenants \ lost :
    (/\ saved[t] # NoEntry
     /\ \A r \in Scripters : tenant[r] = t => ~HoldsTheGrant(r))
    => Accepts(t, saved[t])

(* The token of .env is for the tenant that a run asked for, Windsurf's    *)
(* apart, and one that had expired is of the source that GLEAN_TOKEN_SOURCE *)
(* named: no run takes it because it was the last to be found.             *)
TokenIsAsked ==
  \A r \in Scripters : step[r] = "env" =>
    /\ token[r][1] = tenant[r] \/ token[r][2] = "windsurf"
    /\ token[r][3] => script[r] = <<"forced", token[r][2]>>

TokenInv == GrantIsKept /\ TokenIsAsked
=============================================================================
