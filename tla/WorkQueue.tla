------------------------------ MODULE WorkQueue ------------------------------
(***************************************************************************)
(* What the refresh queue promises to its users, without workers, database *)
(* rows or notifications: jobs enter in order, each is handed out at most  *)
(* once and oldest first, and once a job is closed it stays closed.        *)
(***************************************************************************)
EXTENDS Naturals

CONSTANT MaxJobs        \* how many jobs a behaviour may create

Jobs == 1..MaxJobs

VARIABLE phase          \* the life of every job

Phases == {"new", "waiting", "handedOut", "closed"}

WQTypeOK == phase \in [Jobs -> Phases]

WQInit == phase = [j \in Jobs |-> "new"]

(* A job joins the end of the queue: ids are given in order of arrival. *)
Submit(j) ==
  /\ phase[j] = "new"
  /\ \A k \in Jobs : k < j => phase[k] # "new"
  /\ phase' = [phase EXCEPT ![j] = "waiting"]

(* The oldest waiting job leaves the queue, never to return. *)
HandOut(j) ==
  /\ phase[j] = "waiting"
  /\ \A k \in Jobs : k < j => phase[k] # "waiting"
  /\ phase' = [phase EXCEPT ![j] = "handedOut"]

(* Some jobs that were handed out are closed together. *)
Close(S) ==
  /\ \A j \in S : phase[j] = "handedOut"
  /\ phase' = [j \in Jobs |-> IF j \in S THEN "closed" ELSE phase[j]]

WQNext ==
  \/ \E j \in Jobs : Submit(j) \/ HandOut(j)
  \/ \E S \in SUBSET Jobs : Close(S)

WQSpec == WQInit /\ [][WQNext]_phase
=============================================================================
