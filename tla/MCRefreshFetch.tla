---------------------------- MODULE MCRefreshFetch ----------------------------
(* One sweep, one plain adapter and the deferred pair with one Glean slot. *)
EXTENDS RefreshFetch

CONSTANTS gainsight, salesforce, cerebro, mcp

OneSweep == {gainsight}
OnePlain == {salesforce}
ThePair == <<cerebro, mcp>>
=============================================================================
