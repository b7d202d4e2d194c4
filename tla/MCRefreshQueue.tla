--------------------------- MODULE MCRefreshQueue ---------------------------
(* Small instances of the refresh queue for TLC.                           *)
EXTENDS RefreshQueue, TLC

CONSTANTS w1, w2, t1, c1, c2

TwoWorkers == {w1, w2}
OneWorker == {w1}
OneTool == {t1}
NoTool == {}
TwoClients == {c1, c2}
OneClient == {c1}

(* Workers and clients are interchangeable: no definition tells them apart *)
(* and no liveness is checked where these are used.                        *)
WorkerSymmetry == Permutations(TwoWorkers)
Symmetry == WorkerSymmetry \cup Permutations(TwoClients)
=============================================================================
