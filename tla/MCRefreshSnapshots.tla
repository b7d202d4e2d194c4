-------------------------- MODULE MCRefreshSnapshots --------------------------
(* The data of a refresh, from the token that its adapters read with to    *)
(* the pages that read its runs.  The three share no state, so their small *)
(* instances are checked side by side: each behaviour runs one of them.    *)
EXTENDS RefreshSnapshots, GleanToken, PageLoads

CONSTANTS A, B, S1, S2, T1, T2

TwoAccounts == {A, B}
OneAccount == {A}
AllAdapters == {"local-snapshots", "cerebro-rest", "cerebro-glean", "glean-mcp",
                "salesforce"}
TwoScripters == {S1, S2}
TwoTenants == {T1, T2}
OneTenant == {T1}
OneEditor == {"windsurf"}

VARIABLE part

DataVars == <<part, vars, tokenVars, loadVars>>
DataInit == part \in {"refresh", "token", "load"} /\ Init /\ TokenInit /\ LoadInit
DataNext ==
  \/ part = "refresh" /\ Next /\ UNCHANGED <<part, tokenVars, loadVars>>
  \/ part = "token" /\ TokenNext /\ UNCHANGED <<part, vars, loadVars>>
  \/ part = "load" /\ LoadNext /\ UNCHANGED <<part, vars, tokenVars>>
DataSpec == DataInit /\ [][DataNext]_DataVars
=============================================================================
