------------------------------- MODULE JobWatch -------------------------------
(***************************************************************************)
(* Watching a job from the browser: the module-global polling session of   *)
(* refresh-job-watch.ts and of its two copies for CTA generation and CSE   *)
(* snapshots, and the components that subscribe to it when the answer to   *)
(* their POST or resume request arrives and unsubscribe when they unmount. *)
(* JavaScript runs each action to the next await without interruption.     *)
(***************************************************************************)
EXTENDS Naturals, Sequences

CONSTANTS
  Components,     \* mounted instances of a button or board, each mounts once
  Jobs,
  MaxAsks,        \* bound: POST and resume requests of all components
  GiveUpAfter,    \* failed polls after which CTA and CSE give up, 0: never
  GoneAnswer      \* the poll's answer for a job the server has dropped

ASSUME WatchAssumption ==
  /\ MaxAsks \in Nat /\ GiveUpAfter \in Nat
  /\ GoneAnswer \in {"running", "failure"}

VARIABLES
  server,     \* what the server knows of each job
  place,      \* is the component mounted?
  asked,      \* how many requests have been sent so far
  asking,     \* a component's requests still in flight
  unsub,      \* unsubscribeRef: the subscriber id in its closure
  watched,    \* the job of the component's latest attachToJob
  told,       \* what onComplete has told it since then
  session,    \* the global session: an index of sessions, or None
  sessions    \* every session ever created, with its poll loop

components == <<place, asked, asking, watched>>
watchVars == <<server, place, asked, asking, unsub, watched, told, session, sessions>>

None == 0
NoId == 0
NoJob == "none"

Subscriber == [id : Nat \ {0}, of : Components]
Session == [job : Jobs, aborted : BOOLEAN, subscribers : SUBSET Subscriber,
            nextId : Nat \ {0}, loop : {"fetch", "sleep", "ended"},
            answered : BOOLEAN, failures : 0..GiveUpAfter]

WatchTypeOK ==
  /\ server \in [Jobs -> {"running", "done", "gone"}]
  /\ place \in [Components -> {"new", "mounted", "gone"}]
  /\ asked \in 0..MaxAsks
  /\ asking \in [Components -> 0..MaxAsks]
  /\ unsub \in [Components -> Nat]
  /\ watched \in [Components -> Jobs \cup {NoJob}]
  /\ told \in [Components -> {"nothing", "done", "error"}]
  /\ sessions \in Seq(Session)
  /\ session \in 0..Len(sessions)

WatchInit ==
  /\ server = [j \in Jobs |-> "running"]
  /\ place = [c \in Components |-> "new"]
  /\ asked = 0
  /\ asking = [c \in Components |-> 0]
  /\ unsub = [c \in Components |-> NoId]
  /\ watched = [c \in Components |-> NoJob]
  /\ told = [c \in Components |-> "nothing"]
  /\ session = None
  /\ sessions = <<>>

-----------------------------------------------------------------------------
(* The global session as a value [current, all], so that a detach followed *)
(* by a subscription is one step.                                          *)

Now == [current |-> session, all |-> sessions]

Becomes(g) == session' = g.current /\ sessions' = g.all

Update(g, s, rec) == [g EXCEPT !.all[s] = rec]

(* The closure that subscribe returns: it names a subscriber id and the    *)
(* session that is global when it runs.                                    *)
Unsubscribe(g, id) ==
  IF id = NoId \/ g.current = None THEN g
  ELSE LET s == g.all[g.current]
           rest == {u \in s.subscribers : u.id # id}
       IN  [Update(g, g.current, [s EXCEPT !.subscribers = rest,
                                           !.aborted = @ \/ rest = {}])
              EXCEPT !.current = IF rest = {} THEN None ELSE @]

(* A subscription to the job being polled joins its session; any other     *)
(* aborts that session and starts a new one.  Mutant: it does not abort.   *)
NewSession(j) ==
  [job |-> j, aborted |-> FALSE, subscribers |-> {}, nextId |-> 1,
   loop |-> "fetch", answered |-> FALSE, failures |-> 0]

Leaked(g) == g
Aborted(g) ==
  IF g.current = None THEN g
  ELSE Update(g, g.current, [g.all[g.current] EXCEPT !.aborted = TRUE])

(* Mutant: whatever is being polled will do.                               *)
AnySession(g, j) ==
  IF g.current # None THEN g
  ELSE [current |-> Len(g.all) + 1, all |-> Append(g.all, NewSession(j))]
SessionFor(g, j) ==
  IF g.current # None /\ g.all[g.current].job = j THEN g
  ELSE LET old == Aborted(g)
       IN  [current |-> Len(old.all) + 1, all |-> Append(old.all, NewSession(j))]

(* Mutant: the id is taken before it is counted.                           *)
SubscribeEarly(g, c) ==
  LET s == g.all[g.current]
  IN  Update(g, g.current,
        [s EXCEPT !.subscribers = @ \cup {[id |-> s.nextId - 1, of |-> c]},
                  !.nextId = @ + 1])
Subscribe(g, c) ==
  LET s == g.all[g.current]
  IN  Update(g, g.current,
        [s EXCEPT !.subscribers = @ \cup {[id |-> s.nextId, of |-> c]},
                  !.nextId = @ + 1])

-----------------------------------------------------------------------------
(* The components.                                                         *)

Mount(c) ==
  /\ place[c] = "new" /\ asked < MaxAsks
  /\ place' = [place EXCEPT ![c] = "mounted"]
  /\ asked' = asked + 1                        \* the resume request
  /\ asking' = [asking EXCEPT ![c] = 1]
  /\ UNCHANGED <<server, unsub, watched, told, session, sessions>>

Click(c) ==
  /\ place[c] = "mounted" /\ asked < MaxAsks
  /\ asked' = asked + 1
  /\ asking' = [asking EXCEPT ![c] = @ + 1]
  /\ UNCHANGED <<server, place, unsub, watched, told, session, sessions>>

(* An answer names a job: attachToJob detaches from the old one first.     *)
(* Nothing asks whether the component is still mounted.                    *)
Detached(c) == Unsubscribe(Now, unsub[c])

Attach(c) ==
  /\ asking[c] > 0
  /\ asking' = [asking EXCEPT ![c] = @ - 1]
  /\ \E j \in Jobs :
       LET g == SessionFor(Detached(c), j)
       IN  /\ Becomes(Subscribe(g, c))
           /\ unsub' = [unsub EXCEPT ![c] = g.all[g.current].nextId]
           /\ watched' = [watched EXCEPT ![c] = j]
           /\ told' = [told EXCEPT ![c] = "nothing"]
  /\ UNCHANGED <<server, place, asked>>

(* The request fails, finds no job, or is cancelled by the unmount.        *)
AskFails(c) ==
  /\ asking[c] > 0
  /\ asking' = [asking EXCEPT ![c] = @ - 1]
  /\ UNCHANGED <<server, place, asked, unsub, watched, told, session, sessions>>

Unmount(c) ==
  /\ place[c] = "mounted"
  /\ place' = [place EXCEPT ![c] = "gone"]
  /\ Becomes(Detached(c))
  /\ unsub' = [unsub EXCEPT ![c] = NoId]
  /\ UNCHANGED <<server, asked, asking, watched, told>>

-----------------------------------------------------------------------------
(* The poll loop of session s.  notifyComplete tells the subscribers of    *)
(* the global session; those still mounted detach themselves in onComplete,*)
(* which empties the map, or not; the loop then ends and the global session*)
(* is cleared if it is still this one.                                     *)

Polling(s) == s \in 1..Len(sessions) /\ sessions[s].loop = "fetch"
Sleeping(s) == s \in 1..Len(sessions) /\ sessions[s].loop = "sleep"

Notified(s) ==
  {c \in Components : /\ place[c] = "mounted"
                      /\ \E u \in sessions[session].subscribers : u.of = c}

Ended(s) ==
  /\ sessions' = [sessions EXCEPT ![s].loop = "ended"]
  /\ session' = IF session = s THEN None ELSE session

(* Mutant: the loop goes on after the completion.                          *)
CompletedAndOn(s) ==
  /\ sessions' = [sessions EXCEPT ![s].loop = "sleep"]
  /\ session' = session
Completed(s) ==
  /\ session' = IF session = s THEN None ELSE session
  /\ sessions' = [sessions EXCEPT ![s].loop = "ended",
       ![s].subscribers = {u \in @ : place[u.of] # "mounted"},
       ![s].aborted = @ \/ \A u \in sessions[s].subscribers : u.of \in Notified(s)]

Complete(s, outcome) ==
  /\ told' = [c \in Components |-> IF c \in Notified(s) THEN outcome ELSE told[c]]
  /\ unsub' = [c \in Components |-> IF c \in Notified(s) THEN NoId ELSE unsub[c]]
  /\ Completed(s)

Answer(s) ==
  LET known == server[sessions[s].job]
  IN  IF known = "gone" THEN GoneAnswer ELSE known

PollAborted(s) ==
  /\ Polling(s) \/ Sleeping(s)
  /\ sessions[s].aborted
  /\ Ended(s)
  /\ UNCHANGED <<server, components, unsub, told>>

PollRunning(s) ==
  /\ Polling(s) /\ ~sessions[s].aborted
  /\ Answer(s) = "running"
  /\ sessions' = [sessions EXCEPT ![s].loop = "sleep", ![s].answered = TRUE,
                                  ![s].failures = 0]
  /\ UNCHANGED <<server, components, unsub, told, session>>

PollDone(s) ==
  /\ Polling(s) /\ ~sessions[s].aborted
  /\ Answer(s) = "done"
  /\ Complete(s, "done")
  /\ UNCHANGED <<server, components>>

(* A poll that times out, or is answered with an error.                    *)
GivesUp(s) ==
  GiveUpAfter > 0 /\ sessions[s].failures + 1 >= GiveUpAfter /\ sessions[s].answered

PollFails(s) ==
  /\ Polling(s) /\ ~sessions[s].aborted /\ ~GivesUp(s)
  /\ sessions' = [sessions EXCEPT ![s].loop = "sleep",
       ![s].failures = IF @ < GiveUpAfter THEN @ + 1 ELSE @]
  /\ UNCHANGED <<server, components, unsub, told, session>>

PollGivesUp(s) ==
  /\ Polling(s) /\ ~sessions[s].aborted /\ GivesUp(s)
  /\ Complete(s, "error")
  /\ UNCHANGED <<server, components>>

Wake(s) ==
  /\ Sleeping(s) /\ ~sessions[s].aborted
  /\ sessions' = [sessions EXCEPT ![s].loop = "fetch"]
  /\ UNCHANGED <<server, components, unsub, told, session>>

(* The deadline passes: a loop that never had an answer ends in silence.   *)
(* Mutant: every loop does.                                                *)
ExpireSilently(s) ==
  /\ Sleeping(s) /\ ~sessions[s].aborted
  /\ Ended(s)
  /\ UNCHANGED <<server, components, unsub, told>>
Expire(s) ==
  /\ Sleeping(s) /\ ~sessions[s].aborted
  /\ IF sessions[s].answered THEN Complete(s, "error")
     ELSE Ended(s) /\ UNCHANGED <<unsub, told>>
  /\ UNCHANGED <<server, components>>

JobEnds(j) ==
  /\ server[j] = "running"
  /\ server' = [server EXCEPT ![j] = "done"]
  /\ UNCHANGED <<components, unsub, told, session, sessions>>

(* A finished job is pruned, or its run is unlinked from it.               *)
JobForgotten(j) ==
  /\ server[j] = "done"
  /\ server' = [server EXCEPT ![j] = "gone"]
  /\ UNCHANGED <<components, unsub, told, session, sessions>>

PollStep(s) ==
  \/ PollAborted(s) \/ PollRunning(s) \/ PollDone(s) \/ PollFails(s)
  \/ PollGivesUp(s) \/ Wake(s) \/ Expire(s)

WatchNext ==
  \/ \E c \in Components : Mount(c) \/ Click(c) \/ Attach(c) \/ AskFails(c) \/ Unmount(c)
  \/ \E s \in 1..Len(sessions) : PollStep(s)
  \/ \E j \in Jobs : JobEnds(j) \/ JobForgotten(j)

WatchSpec == WatchInit /\ [][WatchNext]_watchVars

(* Requests and timers settle: a fetch has a timeout of eight seconds, a   *)
(* sleep lasts two at most, and the deadline is a point in time, so a loop *)
(* cannot be found sleeping again and again without its deadline passing.  *)
Sessions == 1..MaxAsks
WatchFairness ==
  \A s \in Sessions : WF_watchVars(PollStep(s)) /\ SF_watchVars(Expire(s))
WatchFairSpec == WatchSpec /\ WatchFairness

-----------------------------------------------------------------------------
(* Properties.                                                             *)

Live(s) == sessions[s].loop # "ended" /\ ~sessions[s].aborted

(* There is one live poll loop, that of the global session: every loop     *)
(* that is replaced or deserted has been told to stop.                     *)
OneLoop == \A s \in 1..Len(sessions) : Live(s) <=> s = session

(* A subscriber of the session is watching that session's job, so that no  *)
(* completion reaches a component that has turned to another job.          *)
SubscribersWatchTheJob ==
  session # None =>
    \A u \in sessions[session].subscribers :
      watched[u.of] = sessions[session].job

(* After one completion a component hears no other until it attaches again.*)
ToldOnce ==
  [][\A c \in Components : told[c] # "nothing" => told'[c] \in {told[c], "nothing"}]_watchVars

(* Whoever is subscribed and stays mounted is told of an end, a real one   *)
(* or the deadline's, once a poll has been answered; unless another        *)
(* component turned to another job, whose session takes the place of this  *)
(* one, or some unsubscribe closure outlived its session: that of a loop   *)
(* which ended without any answer, or of a component that attached after   *)
(* its unmount.                                                            *)
SilentEnd ==
  \E s \in 1..Len(sessions) :
    sessions[s].loop = "ended" /\ ~sessions[s].answered /\ ~sessions[s].aborted
LateAttach == \E c \in Components : place[c] = "gone" /\ unsub[c] # NoId
Replaced(c) ==
  \E d \in Components : watched[d] \notin {NoJob, watched[c]}
Subscribed(c, s) ==
  /\ session = s /\ s \in 1..Len(sessions) /\ sessions[s].answered
  /\ \E u \in sessions[s].subscribers : u.of = c
SubscriberHears ==
  \A c \in Components, s \in Sessions :
    Subscribed(c, s) /\ place[c] = "mounted" ~>
      \/ told[c] # "nothing" \/ place[c] = "gone"
      \/ SilentEnd \/ LateAttach \/ Replaced(c)

(* The invariant of the watchers.                                          *)
WatchInv == WatchTypeOK /\ OneLoop /\ SubscribersWatchTheJob
=============================================================================
