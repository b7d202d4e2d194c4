----------------------------- MODULE RefreshFetch -----------------------------
(***************************************************************************)
(* The fetch phase of a refresh (orchestrate.ts): the adapters that loop   *)
(* over accounts with the shared GleanClient and its rate limiter          *)
(* (glean.ts), their timeouts, the pair that runs as one coordinated loop  *)
(* (glean-coordinator.ts), and the progress that is flushed to the run's   *)
(* row every two seconds (progress-tracker.ts).  A fetch that lost the     *)
(* race against its timeout is not stopped: its loop goes on, takes slots  *)
(* and reports.  An adapter's loop makes one Glean call at a time here.    *)
(***************************************************************************)
EXTENDS Naturals, FiniteSets, Sequences, Functions

CONSTANTS
  Sweep,        \* immediate adapters that make a franchise sweep (gainsight)
  Plain,        \* immediate adapters without Glean calls (salesforce, ...)
  Pair,         \* the deferred ones, in order: cerebro-glean, glean-mcp
  Work,         \* bound: accounts a loop looks at, queries of a sweep
  MaxInflight,  \* GLEAN_MAX_INFLIGHT, 6 in the code
  MaxTries,     \* GLEAN_MAX_RETRY_ATTEMPTS, 6 in the code
  MaxFlushes    \* bound: ticks of the two second timer that find news

Deferred == {Pair[i] : i \in 1..Len(Pair)}
Looping == Sweep \cup Deferred
Adapters == Looping \cup Plain

ASSUME FetchAssumption ==
  /\ Sweep \cap Plain = {} /\ Deferred \cap (Sweep \cup Plain) = {}
  /\ IsFiniteSet(Sweep) /\ Pair \in Seq(Deferred) /\ IsInjective(Pair)
  /\ {Work, MaxInflight, MaxTries} \subseteq Nat \ {0} /\ MaxFlushes \in Nat

VARIABLES
  coordinated,  \* GLEAN_COORDINATED_LOOP: does the pair share one loop?
  outcome,      \* what the refresh knows of each fetch
  overdue,      \* has the adapter's time limit passed?
  todo,         \* accounts or queries its loop has not begun
  call,         \* the Glean call its loop awaits
  tries,        \* attempts that were answered with a rate limit
  inFlight, waitQueue,    \* the rate limiter
  mcpInit,      \* the memoized handshake
  refused,      \* mcpPermanentError
  shown,        \* ProgressTracker.adapters[a].status
  dirty,
  writes,       \* flushes whose UPDATE has not landed, oldest first
  stored,       \* refresh_runs.progress
  mishap,       \* has an UPDATE failed or been overtaken?
  phase,        \* the refresh awaits fetches, awaits its last flush, goes on
  flushes

glean == <<inFlight, waitQueue, call>>
tracker == <<shown, dirty>>
rows == <<writes, stored, mishap, flushes>>
vars == <<coordinated, outcome, overdue, todo, call, tries, inFlight, waitQueue,
          mcpInit, refused, shown, dirty, writes, stored, mishap, phase, flushes>>

Holding == {"gap", "handshake", "posted", "backoff"}
Shown == {"pending", "running", "done", "error"}

TypeOK ==
  /\ coordinated \in BOOLEAN /\ refused \in BOOLEAN
  /\ outcome \in [Adapters -> {"pending", "fetching", "returned", "failed"}]
  /\ overdue \in [Adapters -> BOOLEAN]
  /\ todo \in [Looping -> 0..Work]
  /\ call \in [Looping -> Holding \cup {"none", "waiting", "answered"}]
  /\ tries \in [Looping -> 0..(MaxTries - 1)]
  /\ inFlight \in Nat
  /\ waitQueue \in Seq(Looping) /\ IsInjective(waitQueue)
  /\ mcpInit \in {"none", "pending", "ok"}
  /\ shown \in [Adapters -> Shown] /\ dirty \in BOOLEAN
  /\ writes \in Seq([Adapters -> Shown])
  /\ stored \in [Adapters -> Shown] /\ mishap \in BOOLEAN
  /\ phase \in {"fetch", "flush", "over"} /\ flushes \in 0..MaxFlushes

Init ==
  /\ coordinated \in BOOLEAN /\ refused = FALSE
  /\ outcome = [a \in Adapters |-> "pending"]
  /\ overdue = [a \in Adapters |-> FALSE]
  /\ todo = [a \in Looping |-> Work]
  /\ call = [a \in Looping |-> "none"]
  /\ tries = [a \in Looping |-> 0]
  /\ inFlight = 0 /\ waitQueue = <<>> /\ mcpInit = "none"
  /\ shown = [a \in Adapters |-> "pending"] /\ dirty = FALSE
  /\ writes = <<>> /\ stored = [a \in Adapters |-> "pending"]
  /\ mishap = FALSE /\ phase = "fetch" /\ flushes = 0

-----------------------------------------------------------------------------
(* The rate limiter.  A slot that is released goes to the oldest waiter    *)
(* within the same run of the event loop's microtasks.                     *)

Acquire(S) ==      \* S: adapters in the order of their calls
  LET room == IF inFlight >= MaxInflight THEN 0
              ELSE IF Len(S) <= MaxInflight - inFlight THEN Len(S)
              ELSE MaxInflight - inFlight
  IN  /\ inFlight' = inFlight + room
      /\ waitQueue' = waitQueue \o SubSeq(S, room + 1, Len(S))
      /\ call' = [a \in Looping |->
           IF \E i \in 1..room : S[i] = a THEN "gap"
           ELSE IF \E i \in (room + 1)..Len(S) : S[i] = a THEN "waiting"
           ELSE call[a]]
      /\ tries' = [a \in Looping |->
           IF \E i \in 1..Len(S) : S[i] = a THEN 0 ELSE tries[a]]

(* The calls of the set S end: each releases its slot in its finally block *)
(* and wakes a waiter.  Mutants: the waiters are woken, the count is not   *)
(* changed; nobody is woken.                                               *)
ReleaseUncounted(S, next) ==
  LET n == Cardinality(S)
      woken == IF n <= Len(waitQueue) THEN n ELSE Len(waitQueue)
  IN  /\ inFlight' = inFlight + woken
      /\ waitQueue' = SubSeq(waitQueue, woken + 1, Len(waitQueue))
      /\ call' = [a \in Looping |->
           IF a \in S THEN next
           ELSE IF \E i \in 1..woken : waitQueue[i] = a THEN "gap" ELSE call[a]]
ReleaseAsleep(S, next) ==
  /\ inFlight' = inFlight - Cardinality(S)
  /\ call' = [a \in Looping |-> IF a \in S THEN next ELSE call[a]]
  /\ UNCHANGED waitQueue
Release(S, next) ==
  LET n == Cardinality(S)
      woken == IF n <= Len(waitQueue) THEN n ELSE Len(waitQueue)
  IN  /\ inFlight' = inFlight - n + woken
      /\ waitQueue' = SubSeq(waitQueue, woken + 1, Len(waitQueue))
      /\ call' = [a \in Looping |->
           IF a \in S THEN next
           ELSE IF \E i \in 1..woken : waitQueue[i] = a THEN "gap" ELSE call[a]]

(* The minimum interval has passed: the first call starts the handshake,   *)
(* the others await it; after an authentication failure all fail at once.  *)
Handshaken(a) ==
  /\ call[a] = "gap"
  /\ IF refused
     THEN Release({a}, "answered") /\ UNCHANGED mcpInit
     ELSE /\ call' = [call EXCEPT ![a] = IF mcpInit = "ok" THEN "posted" ELSE "handshake"]
          /\ mcpInit' = IF mcpInit = "none" THEN "pending" ELSE mcpInit
          /\ UNCHANGED <<inFlight, waitQueue>>
  /\ UNCHANGED <<coordinated, outcome, overdue, todo, tries, refused, phase, tracker, rows>>

Awaiting == {a \in Looping : call[a] = "handshake"}

InitSucceeds ==
  /\ mcpInit = "pending" /\ mcpInit' = "ok"
  /\ call' = [a \in Looping |-> IF a \in Awaiting THEN "posted" ELSE call[a]]
  /\ UNCHANGED <<coordinated, outcome, overdue, todo, tries, refused, phase,
                 inFlight, waitQueue, tracker, rows>>

InitFails(auth) ==
  /\ mcpInit = "pending" /\ mcpInit' = "none"
  /\ refused' = auth
  /\ Release(Awaiting, "answered")
  /\ UNCHANGED <<coordinated, outcome, overdue, todo, tries, phase, tracker, rows>>

(* tools/call: a rate limit is retried after a backoff, with the slot      *)
(* kept; an answer or any other error ends the call.                       *)
Answered(a) ==
  /\ call[a] = "posted"
  /\ Release({a}, "answered")
  /\ UNCHANGED <<coordinated, outcome, overdue, todo, tries, mcpInit, refused,
                 phase, tracker, rows>>

(* Mutant: the number of attempts is not bounded.                          *)
RetryForever(a) == TRUE
MayRetry(a) == tries[a] < MaxTries - 1

RateLimited(a) ==
  /\ call[a] = "posted"
  /\ IF MayRetry(a)
     THEN /\ call' = [call EXCEPT ![a] = "backoff"]
          /\ tries' = [tries EXCEPT ![a] = IF @ < MaxTries - 1 THEN @ + 1 ELSE @]
          /\ UNCHANGED <<inFlight, waitQueue>>
     ELSE Release({a}, "answered") /\ UNCHANGED tries
  /\ UNCHANGED <<coordinated, outcome, overdue, todo, mcpInit, refused, phase,
                 tracker, rows>>

BackoffEnds(a) ==
  /\ call[a] = "backoff"
  /\ call' = [call EXCEPT ![a] = "posted"]
  /\ UNCHANGED <<coordinated, outcome, overdue, todo, tries, inFlight, waitQueue,
                 mcpInit, refused, phase, tracker, rows>>

-----------------------------------------------------------------------------
(* The tracker.                                                            *)

Report(S) ==
  /\ shown' = [a \in Adapters |-> IF a \in S THEN "running" ELSE shown[a]]
  /\ dirty' = TRUE

Mark(S, s) ==
  /\ shown' = [a \in Adapters |-> IF a \in S THEN s ELSE shown[a]]
  /\ dirty' = TRUE

(* The timer's flush: dirty is cleared before the UPDATE is awaited, and   *)
(* the snapshot is taken then.  Mutant: dirty is cleared when it has       *)
(* landed, so that what was marked meanwhile is not flushed.               *)
TickCleansLate(landed) == dirty' = (dirty /\ ~landed)
Tick(landed) == dirty' = (dirty /\ landed)

Flush ==
  /\ phase = "fetch" /\ dirty /\ flushes < MaxFlushes
  /\ flushes' = flushes + 1
  /\ writes' = Append(writes, shown)
  /\ Tick(FALSE)
  /\ UNCHANGED <<coordinated, outcome, overdue, todo, call, tries, inFlight,
                 waitQueue, mcpInit, refused, shown, stored, mishap, phase>>

(* An UPDATE lands, in any order, or fails and is forgotten.               *)
Land(n, fails) ==
  /\ n \in 1..Len(writes)
  /\ stored' = IF fails THEN stored ELSE writes[n]
  /\ writes' = SubSeq(writes, 1, n - 1) \o SubSeq(writes, n + 1, Len(writes))
  /\ mishap' = (mishap \/ fails \/ n > 1)
  /\ IF phase = "fetch" THEN Tick(TRUE) ELSE UNCHANGED dirty
  /\ phase' = IF phase = "flush" /\ n = Len(writes) THEN "over" ELSE phase
  /\ UNCHANGED <<coordinated, outcome, overdue, todo, glean, tries, mcpInit,
                 refused, shown, flushes>>

-----------------------------------------------------------------------------
(* The refresh.                                                            *)

Over(a) == outcome[a] \in {"returned", "failed"}

Before(a) ==
  IF a \notin Deferred THEN {}
  ELSE Sweep \cup Plain \cup
         {Pair[i] : i \in {k \in 1..Len(Pair) : \E j \in (k + 1)..Len(Pair) : Pair[j] = a}}

(* Immediate adapters begin together; the deferred ones when those have    *)
(* settled, both at once if they are coordinated, else one after another.  *)
Turns == {Sweep \cup Plain} \cup IF coordinated THEN {Deferred} ELSE {{a} : a \in Deferred}

CanBegin(S) == \A a \in S : outcome[a] = "pending" /\ \A b \in Before(a) \ S : Over(b)

Begin(S) ==
  /\ CanBegin(S)
  /\ outcome' = [a \in Adapters |-> IF a \in S THEN "fetching" ELSE outcome[a]]
  /\ Report(S)
  /\ UNCHANGED <<coordinated, overdue, todo, tries, glean, mcpInit, refused, phase, rows>>

Coordinated(a) == coordinated /\ a \in Deferred

(* The next account or query.  A loop of its own reports before the call.  *)
(* Mutant: the index runs past the end.                                    *)
CanLoopOnceMore(a) == /\ outcome[a] # "pending"
                      /\ call[a] = "none"
                      /\ Coordinated(a) => \A b \in Deferred : call[b] = "none"
CanLoop(a) == /\ outcome[a] # "pending" /\ todo[a] > 0
              /\ call[a] = "none"
              /\ Coordinated(a) => \A b \in Deferred : call[b] = "none"

Loop(a) ==
  /\ ~Coordinated(a) /\ CanLoop(a)
  /\ todo' = [todo EXCEPT ![a] = @ - 1]
  /\ Report({a}) /\ Acquire(<<a>>)
  /\ UNCHANGED <<coordinated, outcome, overdue, mcpInit, refused, phase, rows>>

(* The coordinated loop starts both calls of an account and awaits both.   *)
LoopPair ==
  /\ coordinated /\ \A a \in Deferred : CanLoop(a)
  /\ todo' = [a \in Looping |-> IF a \in Deferred THEN todo[a] - 1 ELSE todo[a]]
  /\ Acquire(Pair)
  /\ UNCHANGED <<coordinated, outcome, overdue, mcpInit, refused, phase, tracker, rows>>

(* The answer reaches the loop.  Errors are caught per account and the     *)
(* coordinated loop reports after each call; a sweep ends with the first   *)
(* answer that holds documents, and is rejected by the first error.        *)
Resume(a) ==
  /\ call[a] = "answered"
  /\ call' = [call EXCEPT ![a] = "none"]
  /\ IF Coordinated(a) THEN Report({a}) ELSE UNCHANGED tracker
  /\ UNCHANGED <<coordinated, outcome, overdue, todo, tries, inFlight, waitQueue,
                 mcpInit, refused, phase, rows>>

SweepFinds(a) ==
  /\ a \in Sweep /\ call[a] = "answered"
  /\ call' = [call EXCEPT ![a] = "none"] /\ todo' = [todo EXCEPT ![a] = 0]
  /\ Report({a})
  /\ UNCHANGED <<coordinated, outcome, overdue, tries, inFlight, waitQueue,
                 mcpInit, refused, phase, rows>>

Settle(S, result, s) ==
  /\ outcome' = [a \in Adapters |-> IF a \in S THEN result ELSE outcome[a]]
  /\ Mark(S, s)

SweepRejects(a) ==
  /\ a \in Sweep /\ call[a] = "answered"
  /\ call' = [call EXCEPT ![a] = "none"] /\ todo' = [todo EXCEPT ![a] = 0]
  /\ IF Over(a) THEN UNCHANGED <<outcome, tracker>> ELSE Settle({a}, "failed", "error")
  /\ UNCHANGED <<coordinated, overdue, tries, inFlight, waitQueue, mcpInit, refused,
                 phase, rows>>

(* Mutant: the loop returns without awaiting its last call.                *)
LoopAllStarted(S) == \A a \in S \cap Looping : todo[a] = 0
LoopEnded(S) == \A a \in S \cap Looping : todo[a] = 0 /\ call[a] = "none"

(* The fetches that settle as one: the coordinated pair, or one adapter.   *)
Group(a) == IF Coordinated(a) THEN Deferred ELSE {a}

CanReturn(a) == outcome[a] = "fetching" /\ LoopEnded(Group(a))

Returns(a) ==
  /\ CanReturn(a)
  /\ Settle(Group(a), "returned", "done")
  /\ UNCHANGED <<coordinated, overdue, todo, tries, glean, mcpInit, refused, phase, rows>>

(* The prior snapshot cannot be read, or a plain adapter's request fails.  *)
Rejects(a) ==
  /\ outcome[a] = "fetching"
  /\ \A b \in Group(a) \cap Looping : todo[b] = Work
  /\ Settle(Group(a), "failed", "error")
  /\ todo' = [b \in Looping |-> IF b \in Group(a) THEN 0 ELSE todo[b]]
  /\ UNCHANGED <<coordinated, overdue, tries, glean, mcpInit, refused, phase, rows>>

(* The limit of ADAPTER_TIMEOUT_MS.  Only fetchOneAdapter sets the timer:  *)
(* the coordinated loop is not raced against one.                          *)
TimesOut(a) ==
  /\ outcome[a] = "fetching" /\ ~overdue[a]
  /\ overdue' = [overdue EXCEPT ![a] = TRUE]
  /\ IF Coordinated(a) THEN UNCHANGED <<outcome, tracker>>
                       ELSE Settle({a}, "failed", "error")
  /\ UNCHANGED <<coordinated, todo, tries, glean, mcpInit, refused, phase, rows>>

(* All settled: the timer is stopped and what is dirty is flushed once     *)
(* more; earlier UPDATEs may still be under way.                           *)
FetchEnds ==
  /\ phase = "fetch" /\ \A a \in Adapters : Over(a)
  /\ dirty' = FALSE
  /\ IF dirty THEN phase' = "flush" /\ writes' = Append(writes, shown)
              ELSE phase' = "over" /\ UNCHANGED writes
  /\ UNCHANGED <<coordinated, outcome, overdue, todo, tries, glean, mcpInit,
                 refused, shown, stored, mishap, flushes>>

-----------------------------------------------------------------------------
(* The event loop finishes the microtasks that are ready before it takes   *)
(* the next event: an answer, a timer, or a request of a plain adapter.    *)
Ready == \/ \E S \in Turns : CanBegin(S)
         \/ \E a \in Looping : call[a] = "answered" \/ CanLoop(a) \/ CanReturn(a)
         \/ phase = "fetch" /\ \A a \in Adapters : Over(a)

Microtask ==
  \/ \E S \in Turns : Begin(S)
  \/ LoopPair \/ FetchEnds
  \/ \E a \in Looping : \/ Loop(a) \/ Resume(a) \/ Returns(a) \/ Rejects(a)
                        \/ SweepFinds(a) \/ SweepRejects(a)

Handshake == InitSucceeds \/ \E auth \in BOOLEAN : InitFails(auth)
ClientStep(a) == Handshaken(a) \/ Answered(a) \/ RateLimited(a) \/ BackoffEnds(a)
PlainStep(a) == Returns(a) \/ Rejects(a)
Updated == \E n \in 1..Len(writes), fails \in BOOLEAN : Land(n, fails)

Event ==
  \/ Handshake \/ Flush \/ Updated
  \/ \E a \in Looping : ClientStep(a)
  \/ \E a \in Plain : PlainStep(a)
  \/ \E a \in Adapters : TimesOut(a)

Next == Microtask \/ (~Ready /\ Event)

Spec == Init /\ [][Next]_vars

(* Node ends a request that hangs after five minutes without a byte, timers*)
(* fire, the pool answers or fails, and the event loop runs what is ready. *)
Fairness ==
  /\ WF_vars(Microtask)
  /\ WF_vars(~Ready /\ Handshake) /\ WF_vars(~Ready /\ Updated)
  /\ \A a \in Looping : WF_vars(~Ready /\ ClientStep(a))
  /\ \A a \in Plain : WF_vars(~Ready /\ PlainStep(a))
FairSpec == Spec /\ Fairness

-----------------------------------------------------------------------------
(* Properties.                                                             *)

InUse == {a \in Looping : call[a] \in Holding}

(* The rate limiter counts what it hands out through retries, failed       *)
(* handshakes and abandoned loops: never more than GLEAN_MAX_INFLIGHT calls*)
(* hold a slot, and none is idle while a call waits (comment at callTool). *)
SlotsAccounted ==
  /\ inFlight = Cardinality(InUse) /\ inFlight <= MaxInflight
  /\ waitQueue # <<>> => inFlight = MaxInflight

(* A settled adapter is shown as settled, unless it was given up by its    *)
(* timeout and its loop reports late (ProgressTracker.report).             *)
OnlyAbandonedReportLate ==
  \A a \in Adapters :
    /\ outcome[a] = "returned" => shown[a] = "done"
    /\ outcome[a] = "failed" => shown[a] = "error" \/ overdue[a]

(* No flush forgets: with nothing dirty and no UPDATE under way, the row    *)
(* shows what the tracker shows, whatever was marked while an UPDATE was    *)
(* under way, unless one failed or was overtaken.                          *)
NothingForgotten == ~dirty /\ writes = <<>> /\ ~mishap => stored = shown

(* The fetch phase of every refresh ends, with the limiter shared by loops *)
(* that were given up, rate limits and failing handshakes.                 *)
FetchPhaseEnds == <>(phase = "over")

(* A call that waits for a slot gets one, be its adapter given up or not.  *)
WaitersServed == \A a \in Looping : call[a] = "waiting" ~> call[a] # "waiting"

(* The invariant of the fetch phase.                                       *)
FetchInv == TypeOK /\ SlotsAccounted /\ OnlyAbandonedReportLate /\ NothingForgotten

(* The phase ends and every call gets its slot.                            *)
NobodyWaitsForever == FetchPhaseEnds /\ WaitersServed
=============================================================================
