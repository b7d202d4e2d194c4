---------------------------- MODULE AdapterProofs ----------------------------
(***************************************************************************)
(* Proofs about what stands between the program and the systems it reads   *)
(* from: the fetch phase, for any finite set of adapters, accounts to look *)
(* at, slots and attempts; and the scripts that keep a Glean token, for    *)
(* any number of runs and tenants, however the runs overlap and wherever   *)
(* they die: the saved grant is accepted unless one of the causes of the   *)
(* history cut it off, and the token in .env is one that was asked for.    *)
(***************************************************************************)
EXTENDS RefreshFetch, GleanToken, FiniteSetTheorems, TLAPS

-----------------------------------------------------------------------------
(* The fetch phase: the inductive invariant.                               *)

(* Who waits for a slot is in the queue, once.                             *)
WaitersQueue ==
  /\ waitQueue \in Seq(Looping)
  /\ \A i, j \in 1..Len(waitQueue) : waitQueue[i] = waitQueue[j] => i = j
  /\ \A a \in Looping : call[a] = "waiting" <=> \E i \in 1..Len(waitQueue) : waitQueue[i] = a

(* A loop that has a call under way has begun an account; and one that has *)
(* returned, or has failed otherwise than by its timeout, is at rest.      *)
LoopsRest ==
  \A a \in Looping :
    /\ call[a] # "none" => todo[a] < Work
    /\ outcome[a] = "returned" \/ (outcome[a] = "failed" /\ ~overdue[a]) =>
         todo[a] = 0 /\ call[a] = "none"

(* With nothing dirty the newest UPDATE has all that the tracker shows.    *)
NothingLost ==
  ~dirty /\ ~mishap => shown = IF writes = <<>> THEN stored ELSE writes[Len(writes)]

FetchIInv ==
  TypeOK /\ WaitersQueue /\ SlotsAccounted /\ LoopsRest /\ OnlyAbandonedReportLate /\ NothingLost

-----------------------------------------------------------------------------
(* The rate limiter.                                                       *)

LEMMA LoopsAreFinite ==
  /\ IsFiniteSet(Looping)
  /\ \A S \in SUBSET Looping : IsFiniteSet(S) /\ Cardinality(S) \in Nat
<1>1. Pair \in Seq(Deferred) /\ IsFiniteSet(Sweep)
  BY FetchAssumption
<1>2. Len(Pair) \in Nat
  BY <1>1
<1>3. IsFiniteSet(1..Len(Pair))
  BY <1>2, FS_Interval
<1>4. IsFiniteSet({Pair[i] : i \in 1..Len(Pair)})
  <2> DEFINE f == [i \in 1..Len(Pair) |-> Pair[i]]
  <2>1. f \in Surjection(1..Len(Pair), {Pair[i] : i \in 1..Len(Pair)})
    BY DEF Surjection
  <2> QED
    BY <1>3, <2>1, FS_Surjection DEF ExistsSurjection
<1>5. IsFiniteSet(Looping)
  BY <1>1, <1>4, FS_Union DEF Looping, Deferred
<1> QED
  BY <1>5, FS_Subset, FS_CardinalityType

(* The first n of a sequence without repetitions are n.                    *)
LEMMA FirstOnes ==
  ASSUME NEW s \in Seq(Looping), \A i, j \in 1..Len(s) : s[i] = s[j] => i = j,
         NEW n \in 0..Len(s)
  PROVE  /\ {s[i] : i \in 1..n} \in SUBSET Looping
         /\ Cardinality({s[i] : i \in 1..n}) = n
<1> DEFINE T == {s[i] : i \in 1..n}
           f == [i \in 1..n |-> s[i]]
<1>1. f \in Bijection(1..n, T)
  BY DEF Bijection, Injection, Surjection, IsInjective
<1>2. Cardinality(T) = n
  BY <1>1, FS_CountingElements DEF ExistsBijection
<1> QED
  BY <1>2

(* What is left of the queue when the first n are taken off.               *)
IsRest(r, s, n) ==
  /\ r \in Seq(Looping) /\ Len(r) = Len(s) - n
  /\ \A i \in 1..Len(r) : r[i] = s[n + i]
  /\ \A i, j \in 1..Len(r) : r[i] = r[j] => i = j
  /\ \A a : (\E i \in 1..Len(r) : r[i] = a) <=>
              (\E i \in 1..Len(s) : s[i] = a) /\ ~\E i \in 1..n : s[i] = a

LEMMA RestOfQueue ==
  ASSUME NEW s \in Seq(Looping), \A i, j \in 1..Len(s) : s[i] = s[j] => i = j,
         NEW n \in 0..Len(s)
  PROVE  IsRest(SubSeq(s, n + 1, Len(s)), s, n)
<1> DEFINE r == SubSeq(s, n + 1, Len(s))
<1>1. r \in Seq(Looping) /\ Len(r) = Len(s) - n /\ \A i \in 1..Len(r) : r[i] = s[n + i]
  OBVIOUS
<1>2. \A i, j \in 1..Len(r) : r[i] = r[j] => i = j
  BY <1>1
<1>3. ASSUME NEW a
      PROVE  (\E i \in 1..Len(r) : r[i] = a) <=>
               (\E i \in 1..Len(s) : s[i] = a) /\ ~\E i \in 1..n : s[i] = a
  <2>1. ASSUME NEW i \in 1..Len(r), r[i] = a
        PROVE  (\E k \in 1..Len(s) : s[k] = a) /\ ~\E k \in 1..n : s[k] = a
    <3>1. n + i \in 1..Len(s) /\ s[n + i] = a
      BY <1>1, <2>1
    <3>2. ASSUME NEW k \in 1..n, s[k] = a
          PROVE  FALSE
      <4>1. k \in 1..Len(s) /\ k # n + i
        BY <1>1, <2>1
      <4> QED
        BY <3>1, <3>2, <4>1
    <3> QED BY <3>1, <3>2
  <2>2. ASSUME NEW k \in 1..Len(s), s[k] = a, ~\E i \in 1..n : s[i] = a
        PROVE  \E i \in 1..Len(r) : r[i] = a
    <3>1. k > n
      BY <2>2
    <3>2. k - n \in 1..Len(r) /\ r[k - n] = s[n + (k - n)] /\ n + (k - n) = k
      BY <1>1, <3>1
    <3> QED
      BY <2>2, <3>2
  <2> QED BY <2>1, <2>2
<1> QED BY <1>1, <1>2, <1>3 DEF IsRest

(* Calls of loops that have none take the slots there are, and the others  *)
(* wait.                                                                   *)
LEMMA AcquireKeeps ==
  ASSUME TypeOK, WaitersQueue, SlotsAccounted,
         NEW S \in Seq(Looping), \A i, j \in 1..Len(S) : S[i] = S[j] => i = j,
         \A i \in 1..Len(S) : call[S[i]] = "none", Acquire(S)
  PROVE  /\ WaitersQueue' /\ SlotsAccounted'
         /\ inFlight' \in Nat /\ IsInjective(waitQueue)'
         /\ call' \in [Looping -> Holding \cup {"none", "waiting", "answered"}]
         /\ tries' \in [Looping -> 0..(MaxTries - 1)]
         /\ \A a \in Looping : (~\E i \in 1..Len(S) : S[i] = a) => call'[a] = call[a]
<1> DEFINE room == IF inFlight >= MaxInflight THEN 0
                   ELSE IF Len(S) <= MaxInflight - inFlight THEN Len(S)
                   ELSE MaxInflight - inFlight
           rest == SubSeq(S, room + 1, Len(S))
           taken == {S[i] : i \in 1..room}
<1>0. /\ inFlight \in Nat /\ MaxInflight \in Nat \ {0} /\ MaxTries \in Nat \ {0}
      /\ call \in [Looping -> Holding \cup {"none", "waiting", "answered"}]
      /\ tries \in [Looping -> 0..(MaxTries - 1)]
      /\ inFlight = Cardinality(InUse) /\ inFlight <= MaxInflight
      /\ waitQueue # <<>> => inFlight = MaxInflight
  BY FetchAssumption DEF TypeOK, SlotsAccounted
<1>1. /\ room \in 0..Len(S)
      /\ inFlight + room \in Nat /\ inFlight + room <= MaxInflight
      /\ room < Len(S) => inFlight + room = MaxInflight
      /\ inFlight = MaxInflight => room = 0
  BY <1>0
<1>2. /\ inFlight' = inFlight + room
      /\ waitQueue' = waitQueue \o rest
      /\ call' = [a \in Looping |->
           IF \E i \in 1..room : S[i] = a THEN "gap"
           ELSE IF \E i \in (room + 1)..Len(S) : S[i] = a THEN "waiting"
           ELSE call[a]]
      /\ tries' = [a \in Looping |->
           IF \E i \in 1..Len(S) : S[i] = a THEN 0 ELSE tries[a]]
  BY DEF Acquire
<1> HIDE DEF room
<1>3. /\ rest \in Seq(Looping) /\ Len(rest) = Len(S) - room
      /\ \A i \in 1..Len(rest) : rest[i] = S[room + i]
      /\ \A i, j \in 1..Len(rest) : rest[i] = rest[j] => i = j
      /\ \A a : (\E i \in 1..Len(rest) : rest[i] = a) <=>
                  (\E i \in 1..Len(S) : S[i] = a) /\ ~\E i \in 1..room : S[i] = a
  <2>1. IsRest(SubSeq(S, room + 1, Len(S)), S, room)
    BY <1>1, RestOfQueue
  <2> QED
    BY <2>1, Zenon DEF IsRest
<1> HIDE DEF rest
<1>4. \A a \in Looping :
        /\ (\E i \in 1..room : S[i] = a) => call'[a] = "gap" /\ call[a] = "none"
        /\ (\E i \in 1..Len(rest) : rest[i] = a) => call'[a] = "waiting" /\ call[a] = "none"
        /\ (~\E i \in 1..Len(S) : S[i] = a) => call'[a] = call[a]
  <2>1. ASSUME NEW a \in Looping, NEW i \in 1..room, S[i] = a
        PROVE  call'[a] = "gap" /\ call[a] = "none"
    <3>1. i \in 1..Len(S) /\ S[i] = a
      BY <1>1, <2>1
    <3>2. call'[a] = "gap"
      BY <1>2, <2>1, Zenon
    <3> QED
      BY <3>1, <3>2
  <2>2. ASSUME NEW a \in Looping, NEW i \in 1..Len(rest), rest[i] = a
        PROVE  call'[a] = "waiting" /\ call[a] = "none"
    <3>1. room + i \in (room + 1)..Len(S) /\ S[room + i] = a /\ room + i \in 1..Len(S)
      BY <1>1, <1>3, <2>2
    <3>2. ~\E k \in 1..room : S[k] = a
      BY <1>3, <2>2
    <3> QED
      BY <1>2, <3>1, <3>2
  <2>3. ASSUME NEW a \in Looping, ~\E i \in 1..Len(S) : S[i] = a
        PROVE  call'[a] = call[a]
    BY <1>1, <1>2, <2>3
  <2> QED BY <2>1, <2>2, <2>3
<1>5. \A a \in Looping : \/ \E i \in 1..room : S[i] = a
                         \/ \E i \in 1..Len(rest) : rest[i] = a
                         \/ ~\E i \in 1..Len(S) : S[i] = a
  BY <1>3
<1>6. InUse' = InUse \cup taken /\ InUse \cap taken = {}
  <2>1. ASSUME NEW a \in Looping
        PROVE  /\ call'[a] \in Holding <=> call[a] \in Holding \/ a \in taken
               /\ a \in taken => call[a] \notin Holding
    BY <1>4, <1>5 DEF Holding
  <2>2. taken \subseteq Looping
    BY <1>1
  <2> QED
    BY <2>1, <2>2 DEF InUse
<1>7. taken \in SUBSET Looping /\ Cardinality(taken) = room
  BY <1>1, FirstOnes
<1>8. Cardinality(InUse') = inFlight + room
  <2>1. IsFiniteSet(InUse) /\ IsFiniteSet(taken)
    BY <1>7, LoopsAreFinite DEF InUse
  <2>2. Cardinality(InUse \cap taken) = 0
    BY <1>6, FS_EmptySet
  <2>3. Cardinality(InUse \cup taken) = Cardinality(InUse) + Cardinality(taken)
                                          - Cardinality(InUse \cap taken)
    BY <2>1, FS_Union
  <2> QED
    BY <1>0, <1>1, <1>6, <1>7, <2>2, <2>3
<1>9. waitQueue \in Seq(Looping)
  BY DEF WaitersQueue
<1>10. SlotsAccounted'
  <2>1. waitQueue' # <<>> => inFlight' = MaxInflight
    <3>1. CASE waitQueue # <<>>
      BY <1>0, <1>1, <1>2, <3>1
    <3>2. CASE waitQueue = <<>>
      <4>1. waitQueue' = rest
        BY <1>2, <1>3, <3>2
      <4>2. rest # <<>> => room < Len(S)
        BY <1>1, <1>3
      <4> QED
        BY <1>1, <1>2, <4>1, <4>2
    <3> QED BY <3>1, <3>2
  <2> QED
    BY <1>1, <1>2, <1>8, <2>1 DEF SlotsAccounted
<1>11. /\ waitQueue' \in Seq(Looping)
       /\ Len(waitQueue') = Len(waitQueue) + Len(rest)
       /\ \A i \in 1..Len(waitQueue) : waitQueue'[i] = waitQueue[i]
       /\ \A i \in 1..Len(rest) : waitQueue'[Len(waitQueue) + i] = rest[i]
       /\ \A i \in 1..Len(waitQueue') :
            \/ i \in 1..Len(waitQueue)
            \/ i - Len(waitQueue) \in 1..Len(rest) /\ waitQueue'[i] = rest[i - Len(waitQueue)]
  BY <1>2, <1>3, <1>9
<1>12. \A i \in 1..Len(waitQueue) : call[waitQueue[i]] = "waiting"
  BY <1>9 DEF WaitersQueue
<1>13. \A i \in 1..Len(rest) : call[rest[i]] = "none" /\ rest[i] \in Looping
  BY <1>3, <1>4
<1>14. \A i, j \in 1..Len(waitQueue') : waitQueue'[i] = waitQueue'[j] => i = j
  <2>1. ASSUME NEW i \in 1..Len(waitQueue'), NEW j \in 1..Len(waitQueue'),
               waitQueue'[i] = waitQueue'[j]
        PROVE  i = j
    <3>1. CASE i \in 1..Len(waitQueue) /\ j \in 1..Len(waitQueue)
      BY <1>11, <2>1, <3>1 DEF WaitersQueue
    <3>2. CASE i \in 1..Len(waitQueue) /\ j \notin 1..Len(waitQueue)
      <4>1. call[waitQueue'[i]] = "waiting"
        BY <1>11, <1>12, <3>2
      <4>2. call[waitQueue'[j]] = "none"
        BY <1>11, <1>13, <3>2
      <4> QED
        BY <2>1, <4>1, <4>2
    <3>3. CASE i \notin 1..Len(waitQueue) /\ j \in 1..Len(waitQueue)
      <4>1. call[waitQueue'[j]] = "waiting"
        BY <1>11, <1>12, <3>3
      <4>2. call[waitQueue'[i]] = "none"
        BY <1>11, <1>13, <3>3
      <4> QED
        BY <2>1, <4>1, <4>2
    <3>4. CASE i \notin 1..Len(waitQueue) /\ j \notin 1..Len(waitQueue)
      <4>1. i - Len(waitQueue) = j - Len(waitQueue)
        BY <1>3, <1>11, <2>1, <3>4
      <4> QED
        BY <1>9, <4>1
    <3> QED BY <3>1, <3>2, <3>3, <3>4
  <2> QED BY <2>1
<1>15. \A a \in Looping :
         (\E i \in 1..Len(waitQueue') : waitQueue'[i] = a) <=>
           (\E i \in 1..Len(waitQueue) : waitQueue[i] = a) \/ \E i \in 1..Len(rest) : rest[i] = a
  <2>1. ASSUME NEW i \in 1..Len(rest)
        PROVE  Len(waitQueue) + i \in 1..Len(waitQueue')
    BY <1>3, <1>9, <1>11
  <2>2. ASSUME NEW i \in 1..Len(waitQueue)
        PROVE  i \in 1..Len(waitQueue')
    BY <1>3, <1>9, <1>11
  <2>3. ASSUME NEW a \in Looping, NEW i \in 1..Len(waitQueue'), waitQueue'[i] = a
        PROVE  (\E k \in 1..Len(waitQueue) : waitQueue[k] = a) \/ \E k \in 1..Len(rest) : rest[k] = a
    <3>1. \/ i \in 1..Len(waitQueue)
          \/ i - Len(waitQueue) \in 1..Len(rest) /\ waitQueue'[i] = rest[i - Len(waitQueue)]
      BY <1>11
    <3>2. CASE i \in 1..Len(waitQueue)
      <4>1. waitQueue[i] = a
        BY <1>11, <2>3, <3>2
      <4> QED
        BY <3>2, <4>1
    <3>3. CASE i - Len(waitQueue) \in 1..Len(rest) /\ waitQueue'[i] = rest[i - Len(waitQueue)]
      <4>1. rest[i - Len(waitQueue)] = a
        BY <2>3, <3>3
      <4> QED
        BY <3>3, <4>1
    <3> QED
      BY <3>1, <3>2, <3>3
  <2>4. ASSUME NEW a \in Looping, NEW i \in 1..Len(waitQueue), waitQueue[i] = a
        PROVE  \E k \in 1..Len(waitQueue') : waitQueue'[k] = a
    <3>1. waitQueue'[i] = a
      BY <1>11, <2>4
    <3> QED
      BY <2>2, <3>1
  <2>5. ASSUME NEW a \in Looping, NEW i \in 1..Len(rest), rest[i] = a
        PROVE  \E k \in 1..Len(waitQueue') : waitQueue'[k] = a
    <3>1. waitQueue'[Len(waitQueue) + i] = a
      BY <1>11, <2>5
    <3> QED
      BY <2>1, <3>1
  <2> QED
    BY <2>3, <2>4, <2>5
<1>16. \A a \in Looping : call'[a] = "waiting" <=>
                            \E i \in 1..Len(waitQueue') : waitQueue'[i] = a
  <2>1. \A a \in Looping : call[a] = "waiting" <=> \E i \in 1..Len(waitQueue) : waitQueue[i] = a
    BY DEF WaitersQueue
  <2> QED
    BY <1>4, <1>5, <1>15, <2>1
<1>17. WaitersQueue' /\ IsInjective(waitQueue)'
  BY <1>11, <1>14, <1>16 DEF WaitersQueue, IsInjective
<1>18. /\ call' \in [Looping -> Holding \cup {"none", "waiting", "answered"}]
       /\ tries' \in [Looping -> 0..(MaxTries - 1)]
  BY <1>0, <1>2 DEF Holding
<1> QED
  BY <1>1, <1>2, <1>4, <1>10, <1>17, <1>18

(* Calls that end give their slots to those that wait the longest.         *)
LEMMA ReleaseKeeps ==
  ASSUME TypeOK, WaitersQueue, SlotsAccounted, NEW S \in SUBSET InUse, Release(S, "answered")
  PROVE  /\ WaitersQueue' /\ SlotsAccounted'
         /\ inFlight' \in Nat /\ IsInjective(waitQueue)'
         /\ call' \in [Looping -> Holding \cup {"none", "waiting", "answered"}]
         /\ \A a \in Looping : call'[a] # "none" <=> call[a] # "none"
<1> DEFINE n == Cardinality(S)
           woken == IF n <= Len(waitQueue) THEN n ELSE Len(waitQueue)
           awake == {waitQueue[i] : i \in 1..woken}
<1>0. /\ inFlight \in Nat /\ MaxInflight \in Nat \ {0}
      /\ call \in [Looping -> Holding \cup {"none", "waiting", "answered"}]
      /\ inFlight = Cardinality(InUse) /\ inFlight <= MaxInflight
      /\ waitQueue # <<>> => inFlight = MaxInflight
      /\ waitQueue \in Seq(Looping)
      /\ \A i, j \in 1..Len(waitQueue) : waitQueue[i] = waitQueue[j] => i = j
  BY FetchAssumption DEF TypeOK, SlotsAccounted, WaitersQueue
<1>1. InUse \subseteq Looping /\ IsFiniteSet(InUse) /\ IsFiniteSet(S) /\ n \in Nat
      /\ n <= inFlight
  BY <1>0, LoopsAreFinite, FS_Subset DEF InUse
<1> HIDE DEF n
<1>2. /\ woken \in 0..Len(waitQueue) /\ woken <= n
      /\ woken < Len(waitQueue) => woken = n
  BY <1>0, <1>1
<1>3. /\ inFlight' = inFlight - n + woken
      /\ waitQueue' = SubSeq(waitQueue, woken + 1, Len(waitQueue))
      /\ call' = [a \in Looping |->
           IF a \in S THEN "answered"
           ELSE IF \E i \in 1..woken : waitQueue[i] = a THEN "gap" ELSE call[a]]
  BY DEF Release, n
<1> HIDE DEF woken
<1>4. awake \in SUBSET Looping /\ Cardinality(awake) = woken
  <2>1. /\ {waitQueue[i] : i \in 1..woken} \in SUBSET Looping
        /\ Cardinality({waitQueue[i] : i \in 1..woken}) = woken
    BY <1>0, <1>2, FirstOnes
  <2> QED
    BY <2>1, Zenon
<1>5. \A a \in awake : call[a] = "waiting"
  <2>1. \A i \in 1..Len(waitQueue) : waitQueue[i] \in Looping
    BY <1>0
  <2>2. \A i \in 1..Len(waitQueue) : call[waitQueue[i]] = "waiting"
    BY <2>1, Zenon DEF WaitersQueue
  <2>3. \A i \in 1..woken : i \in 1..Len(waitQueue)
    BY <1>0, <1>2
  <2> QED
    BY <2>2, <2>3
<1>6. \A a \in InUse : call[a] \in Holding
  BY DEF InUse
<1>7. \A a \in Looping :
        /\ a \in S => call'[a] = "answered" /\ call[a] \in Holding
        /\ a \in awake => call'[a] = "gap" /\ call[a] = "waiting"
        /\ a \notin S \cup awake => call'[a] = call[a]
  <2>1. \A a \in awake : a \notin S
    BY <1>5, <1>6 DEF Holding
  <2> QED
    BY <1>3, <1>5, <1>6, <2>1
<1>8. InUse' = (InUse \ S) \cup awake /\ (InUse \ S) \cap awake = {}
  <2>1. ASSUME NEW a \in Looping
        PROVE  /\ call'[a] \in Holding <=> (call[a] \in Holding /\ a \notin S) \/ a \in awake
               /\ a \in awake => call[a] \notin Holding
    BY <1>7 DEF Holding
  <2> HIDE DEF awake
  <2> QED
    BY <1>4, <2>1 DEF InUse
<1>9. Cardinality(InUse') = inFlight - n + woken
  <2>1. IsFiniteSet(InUse \ S) /\ IsFiniteSet(awake)
    BY <1>1, <1>4, LoopsAreFinite
  <2>2. Cardinality(InUse \ S) = inFlight - n
    <3>1. Cardinality(InUse \ S) = Cardinality(InUse) - Cardinality(InUse \cap S)
      BY <1>1, FS_Difference
    <3>2. InUse \cap S = S
      OBVIOUS
    <3> QED
      BY <1>0, <3>1, <3>2 DEF n
  <2>3. Cardinality((InUse \ S) \cap awake) = 0
    BY <1>8, FS_EmptySet
  <2>4. Cardinality((InUse \ S) \cup awake) =
          Cardinality(InUse \ S) + Cardinality(awake) - Cardinality((InUse \ S) \cap awake)
    BY <2>1, FS_Union
  <2> HIDE DEF awake
  <2> QED
    <3>1. Cardinality(InUse') = Cardinality((InUse \ S) \cup awake)
      BY <1>8, Zenon
    <3>2. inFlight - n \in Nat /\ woken \in Nat
      BY <1>0, <1>1, <1>2
    <3> QED
      BY <1>4, <2>2, <2>3, <2>4, <3>1, <3>2
<1>10. /\ waitQueue' \in Seq(Looping) /\ Len(waitQueue') = Len(waitQueue) - woken
       /\ \A i, j \in 1..Len(waitQueue') : waitQueue'[i] = waitQueue'[j] => i = j
       /\ \A a : (\E i \in 1..Len(waitQueue') : waitQueue'[i] = a) <=>
                   (\E i \in 1..Len(waitQueue) : waitQueue[i] = a)
                     /\ ~\E i \in 1..woken : waitQueue[i] = a
  <2>1. IsRest(SubSeq(waitQueue, woken + 1, Len(waitQueue)), waitQueue, woken)
    BY <1>0, <1>2, RestOfQueue
  <2>2. IsRest(waitQueue', waitQueue, woken)
    BY <1>3, <2>1, Zenon
  <2> QED
    BY <2>2, Zenon DEF IsRest
<1>11. SlotsAccounted'
  <2>1. waitQueue' # <<>> => Len(waitQueue') > 0
    BY <1>10
  <2>2. waitQueue' # <<>> => inFlight' = MaxInflight
    <3>1. SUFFICES ASSUME waitQueue' # <<>>  PROVE inFlight' = MaxInflight
      OBVIOUS
    <3>2. woken < Len(waitQueue) /\ Len(waitQueue) \in Nat
      BY <1>0, <1>2, <1>10, <2>1, <3>1
    <3>3. woken = n /\ inFlight = MaxInflight
      BY <1>0, <1>2, <3>2
    <3> QED
      BY <1>0, <1>1, <1>3, <3>3
  <2>3. inFlight' <= MaxInflight
    <3>1. woken \in Nat
      BY <1>0, <1>2
    <3> QED
      BY <1>0, <1>1, <1>2, <1>3, <3>1
  <2> QED
    BY <1>3, <1>9, <2>2, <2>3 DEF SlotsAccounted
<1>12. \A a \in Looping : call'[a] = "waiting" <=>
                            \E i \in 1..Len(waitQueue') : waitQueue'[i] = a
  <2>1. \A a \in Looping : call[a] = "waiting" <=> \E i \in 1..Len(waitQueue) : waitQueue[i] = a
    BY DEF WaitersQueue
  <2>2. \A a \in Looping : a \in awake <=> \E i \in 1..woken : waitQueue[i] = a
    OBVIOUS
  <2> HIDE DEF awake
  <2>3. "waiting" \notin Holding
    BY DEF Holding
  <2> QED
    <3>1. ASSUME NEW a \in Looping
          PROVE  call'[a] = "waiting" <=> \E i \in 1..Len(waitQueue') : waitQueue'[i] = a
      <4>1. CASE a \in S
        BY <1>6, <1>7, <1>10, <2>1, <2>3, <4>1
      <4>2. CASE a \in awake
        BY <1>7, <1>10, <2>2, <4>2
      <4>3. CASE a \notin S \cup awake
        BY <1>7, <1>10, <2>1, <2>2, <4>3
      <4> QED BY <4>1, <4>2, <4>3
    <3> QED BY <3>1
<1>13. WaitersQueue' /\ IsInjective(waitQueue)'
  BY <1>10, <1>12 DEF WaitersQueue, IsInjective
<1>14. call' \in [Looping -> Holding \cup {"none", "waiting", "answered"}]
  BY <1>0, <1>3 DEF Holding
<1>15. \A a \in Looping : call'[a] # "none" <=> call[a] # "none"
  BY <1>7 DEF Holding
<1> QED
  <2>1. woken \in Nat
    BY <1>0, <1>2
  <2>2. inFlight' \in Nat
    BY <1>0, <1>1, <1>3, <2>1
  <2> QED
    BY <1>11, <1>13, <1>14, <1>15, <2>2

(* Calls that go on keep or do without their slots.                        *)
LEMMA CallsGoOn ==
  ASSUME WaitersQueue, SlotsAccounted, UNCHANGED <<inFlight, waitQueue>>,
         \A a \in Looping :
           /\ call'[a] \in Holding <=> call[a] \in Holding
           /\ call'[a] = "waiting" <=> call[a] = "waiting"
  PROVE  WaitersQueue' /\ SlotsAccounted'
<1>1. InUse' = InUse
  BY DEF InUse
<1>2. SlotsAccounted'
  BY <1>1 DEF SlotsAccounted
<1> QED
  BY <1>2 DEF WaitersQueue

-----------------------------------------------------------------------------
(* The steps, one by one.                                                  *)

(* What the tracker marks it also has to flush.                            *)
LEMMA Marked ==
  ASSUME TypeOK, dirty' = TRUE, NEW S, NEW s \in Shown,
         shown' = [a \in Adapters |-> IF a \in S THEN s ELSE shown[a]]
  PROVE  NothingLost' /\ shown' \in [Adapters -> Shown] /\ dirty' \in BOOLEAN
BY DEF TypeOK, NothingLost

(* A fetch begins.                                                         *)
LEMMA BeginKeeps ==
  ASSUME FetchIInv, NEW S, Begin(S)
  PROVE  FetchIInv'
<1> USE DEF FetchIInv
<1>1. NothingLost' /\ shown' \in [Adapters -> Shown] /\ dirty' \in BOOLEAN
  BY Marked DEF Begin, Report, Shown
<1>2. outcome' \in [Adapters -> {"pending", "fetching", "returned", "failed"}]
  BY DEF Begin, TypeOK
<1>3. TypeOK'
  BY <1>1, <1>2 DEF TypeOK, Begin, glean, rows
<1>4. WaitersQueue' /\ SlotsAccounted'
  BY CallsGoOn DEF Begin, glean
<1>5. LoopsRest'
  BY DEF LoopsRest, Begin, glean, Adapters
<1>6. OnlyAbandonedReportLate'
  BY DEF OnlyAbandonedReportLate, Begin, Report
<1> QED
  BY <1>1, <1>3, <1>4, <1>5, <1>6

(* A loop of its own begins an account: a loop at rest has none left.      *)
LEMMA LoopKeeps ==
  ASSUME FetchIInv, NEW a \in Looping, Loop(a)
  PROVE  FetchIInv'
<1> USE DEF FetchIInv
<1> DEFINE S == <<a>>
<1>0. /\ call[a] = "none" /\ outcome[a] # "pending" /\ todo[a] \in 1..Work
      /\ todo \in [Looping -> 0..Work] /\ Work \in Nat
      /\ todo' = [todo EXCEPT ![a] = @ - 1] /\ Acquire(S)
  BY FetchAssumption DEF Loop, CanLoop, TypeOK
<1>1. NothingLost' /\ shown' \in [Adapters -> Shown] /\ dirty' \in BOOLEAN
  BY Marked DEF Loop, Report, Shown
<1>2. /\ S \in Seq(Looping) /\ Len(S) = 1 /\ S[1] = a
      /\ \A i, j \in 1..Len(S) : S[i] = S[j] => i = j
      /\ \A i \in 1..Len(S) : call[S[i]] = "none"
  BY <1>0
<1> HIDE DEF S
<1>3. /\ WaitersQueue' /\ SlotsAccounted'
      /\ inFlight' \in Nat /\ IsInjective(waitQueue)'
      /\ call' \in [Looping -> Holding \cup {"none", "waiting", "answered"}]
      /\ tries' \in [Looping -> 0..(MaxTries - 1)]
      /\ \A b \in Looping : (~\E i \in 1..Len(S) : S[i] = b) => call'[b] = call[b]
  BY <1>0, <1>2, AcquireKeeps
<1>4. \A b \in Looping \ {a} : call'[b] = call[b] /\ todo'[b] = todo[b]
  BY <1>0, <1>2, <1>3
<1>5. todo' \in [Looping -> 0..Work] /\ todo'[a] < Work
  BY <1>0
<1>6. TypeOK'
  BY <1>1, <1>3, <1>5 DEF TypeOK, Loop, rows, WaitersQueue
<1>7. UNCHANGED <<outcome, overdue>>
  BY DEF Loop
<1>8. ~(outcome[a] = "returned" \/ (outcome[a] = "failed" /\ ~overdue[a]))
  BY <1>0 DEF LoopsRest
<1>9. LoopsRest'
  BY <1>4, <1>5, <1>7, <1>8 DEF LoopsRest
<1>10. OnlyAbandonedReportLate'
  BY <1>7, <1>8 DEF OnlyAbandonedReportLate, Loop, Report
<1> QED
  BY <1>1, <1>3, <1>6, <1>9, <1>10

(* The pair's common loop begins an account with both calls.               *)
LEMMA LoopPairKeeps ==
  ASSUME FetchIInv, LoopPair
  PROVE  FetchIInv'
<1> USE DEF FetchIInv
<1>0. /\ \A a \in Deferred : call[a] = "none" /\ outcome[a] # "pending" /\ todo[a] > 0
      /\ todo \in [Looping -> 0..Work] /\ Work \in Nat
      /\ todo' = [a \in Looping |-> IF a \in Deferred THEN todo[a] - 1 ELSE todo[a]]
      /\ Acquire(Pair)
      /\ UNCHANGED <<coordinated, outcome, overdue, mcpInit, refused, phase>>
      /\ UNCHANGED <<shown, dirty, writes, stored, mishap, flushes>>
  BY FetchAssumption DEF LoopPair, CanLoop, TypeOK, tracker, rows
<1>1. /\ Pair \in Seq(Looping)
      /\ \A i, j \in 1..Len(Pair) : Pair[i] = Pair[j] => i = j
      /\ \A i \in 1..Len(Pair) : call[Pair[i]] = "none"
      /\ \A a \in Deferred : \E i \in 1..Len(Pair) : Pair[i] = a
      /\ \A i \in 1..Len(Pair) : Pair[i] \in Deferred
  <2>1. Pair \in Seq(Deferred) /\ IsInjective(Pair)
    BY FetchAssumption
  <2>2. \A i \in 1..Len(Pair) : Pair[i] \in Deferred
    BY <2>1
  <2>3. Pair \in Seq(Looping)
    BY <2>1 DEF Looping
  <2>4. \A i, j \in 1..Len(Pair) : Pair[i] = Pair[j] => i = j
    BY <2>1 DEF IsInjective
  <2>5. \A a \in Deferred : \E i \in 1..Len(Pair) : Pair[i] = a
    BY Zenon DEF Deferred
  <2> QED
    BY <1>0, <2>2, <2>3, <2>4, <2>5
<1>2. /\ WaitersQueue' /\ SlotsAccounted'
      /\ inFlight' \in Nat /\ IsInjective(waitQueue)'
      /\ call' \in [Looping -> Holding \cup {"none", "waiting", "answered"}]
      /\ tries' \in [Looping -> 0..(MaxTries - 1)]
      /\ \A b \in Looping : (~\E i \in 1..Len(Pair) : Pair[i] = b) => call'[b] = call[b]
  BY <1>0, <1>1, AcquireKeeps
<1>3. \A b \in Looping \ Deferred : call'[b] = call[b] /\ todo'[b] = todo[b]
  BY <1>0, <1>1, <1>2
<1>4. Deferred \subseteq Looping
  BY DEF Looping
<1>5. todo' \in [Looping -> 0..Work] /\ \A b \in Deferred : todo'[b] < Work
  BY <1>0, <1>4
<1>6. TypeOK'
  BY <1>0, <1>2, <1>5 DEF TypeOK, WaitersQueue
<1>7. \A b \in Deferred : ~(outcome[b] = "returned" \/ (outcome[b] = "failed" /\ ~overdue[b]))
  BY <1>0, <1>4 DEF LoopsRest
<1>8. LoopsRest'
  BY <1>0, <1>3, <1>5, <1>7 DEF LoopsRest
<1>9. OnlyAbandonedReportLate' /\ NothingLost'
  BY <1>0 DEF OnlyAbandonedReportLate, NothingLost
<1> QED
  BY <1>2, <1>6, <1>8, <1>9

(* An answer reaches its loop, which is not one that has returned.         *)
LEMMA ResumeKeeps ==
  ASSUME FetchIInv, NEW a \in Looping, Resume(a)
  PROVE  FetchIInv'
<1> USE DEF FetchIInv
<1>0. /\ call[a] = "answered" /\ call' = [call EXCEPT ![a] = "none"]
      /\ call \in [Looping -> Holding \cup {"none", "waiting", "answered"}]
      /\ UNCHANGED <<coordinated, outcome, overdue, todo, tries, inFlight, waitQueue,
                     mcpInit, refused, phase, writes, stored, mishap, flushes>>
  BY DEF Resume, TypeOK, rows
<1>1. NothingLost' /\ shown' \in [Adapters -> Shown] /\ dirty' \in BOOLEAN
  <2>1. CASE Coordinated(a)
    BY <2>1, Marked DEF Resume, Report, Shown
  <2>2. CASE ~Coordinated(a)
    BY <1>0, <2>2 DEF Resume, tracker, NothingLost, TypeOK
  <2> QED BY <2>1, <2>2
<1>2. call' \in [Looping -> Holding \cup {"none", "waiting", "answered"}]
  BY <1>0
<1>3. TypeOK'
  BY <1>0, <1>1, <1>2 DEF TypeOK
<1>4. WaitersQueue' /\ SlotsAccounted'
  BY <1>0, CallsGoOn DEF Holding
<1>5. LoopsRest'
  BY <1>0 DEF LoopsRest
<1>6. ~(outcome[a] = "returned" \/ (outcome[a] = "failed" /\ ~overdue[a]))
  BY <1>0 DEF LoopsRest
<1>7. OnlyAbandonedReportLate'
  <2>1. CASE Coordinated(a)
    BY <1>0, <1>6, <2>1 DEF Resume, Report, OnlyAbandonedReportLate
  <2>2. CASE ~Coordinated(a)
    BY <1>0, <2>2 DEF Resume, tracker, OnlyAbandonedReportLate
  <2> QED BY <2>1, <2>2
<1> QED
  BY <1>1, <1>3, <1>4, <1>5, <1>7

(* A sweep ends with the answer that holds documents, or is rejected.      *)
LEMMA SweepKeeps ==
  ASSUME FetchIInv, NEW a \in Looping, SweepFinds(a) \/ SweepRejects(a)
  PROVE  FetchIInv'
<1> USE DEF FetchIInv
<1>0. /\ call[a] = "answered" /\ call' = [call EXCEPT ![a] = "none"]
      /\ call \in [Looping -> Holding \cup {"none", "waiting", "answered"}]
      /\ todo' = [todo EXCEPT ![a] = 0] /\ todo \in [Looping -> 0..Work] /\ Work \in Nat \ {0}
      /\ UNCHANGED <<coordinated, overdue, tries, inFlight, waitQueue,
                     mcpInit, refused, phase, writes, stored, mishap, flushes>>
      /\ outcome \in [Adapters -> {"pending", "fetching", "returned", "failed"}]
  BY FetchAssumption DEF SweepFinds, SweepRejects, TypeOK, rows
<1>1. ~(outcome[a] = "returned" \/ (outcome[a] = "failed" /\ ~overdue[a]))
  BY <1>0 DEF LoopsRest
<1>2. \/ SweepFinds(a) /\ outcome' = outcome
      \/ SweepRejects(a) /\ Over(a) /\ UNCHANGED <<outcome, shown, dirty>>
      \/ SweepRejects(a) /\ ~Over(a) /\ Settle({a}, "failed", "error")
  BY DEF SweepFinds, SweepRejects, tracker
<1>3. NothingLost' /\ shown' \in [Adapters -> Shown] /\ dirty' \in BOOLEAN
  <2>1. CASE SweepFinds(a)
    BY <2>1, Marked DEF SweepFinds, Report, Shown
  <2>2. CASE UNCHANGED <<outcome, shown, dirty>>
    BY <1>0, <2>2 DEF NothingLost, TypeOK
  <2>3. CASE Settle({a}, "failed", "error")
    BY <2>3, Marked DEF Settle, Mark, Shown
  <2> QED BY <1>2, <2>1, <2>2, <2>3
<1>4. /\ outcome' \in [Adapters -> {"pending", "fetching", "returned", "failed"}]
      /\ \A b \in Adapters \ {a} : outcome'[b] = outcome[b] /\ shown'[b] = shown[b]
      /\ outcome'[a] # outcome[a] => outcome'[a] = "failed" /\ shown'[a] = "error"
  BY <1>0, <1>2 DEF SweepFinds, Report, Settle, Mark, TypeOK
<1>5. call' \in [Looping -> Holding \cup {"none", "waiting", "answered"}]
  BY <1>0
<1>6. todo' \in [Looping -> 0..Work]
  BY <1>0
<1>7. TypeOK'
  BY <1>0, <1>3, <1>4, <1>5, <1>6 DEF TypeOK
<1>8. WaitersQueue' /\ SlotsAccounted'
  BY <1>0, CallsGoOn DEF Holding
<1>9. LoopsRest'
  BY <1>0, <1>4 DEF LoopsRest, Adapters
<1>10. OnlyAbandonedReportLate'
  BY <1>0, <1>1, <1>4 DEF OnlyAbandonedReportLate
<1> QED
  BY <1>3, <1>7, <1>8, <1>9, <1>10

(* A fetch returns when its loop has ended.                                *)
LEMMA ReturnsKeeps ==
  ASSUME FetchIInv, NEW a, Returns(a)
  PROVE  FetchIInv'
<1> USE DEF FetchIInv
<1>0. /\ \A b \in Group(a) \cap Looping : todo[b] = 0 /\ call[b] = "none"
      /\ outcome' = [b \in Adapters |-> IF b \in Group(a) THEN "returned" ELSE outcome[b]]
      /\ shown' = [b \in Adapters |-> IF b \in Group(a) THEN "done" ELSE shown[b]]
      /\ UNCHANGED <<coordinated, overdue, todo, tries, inFlight, waitQueue, call,
                     mcpInit, refused, phase, writes, stored, mishap, flushes>>
  BY DEF Returns, CanReturn, LoopEnded, Settle, Mark, glean, rows
<1>1. NothingLost' /\ shown' \in [Adapters -> Shown] /\ dirty' \in BOOLEAN
  BY Marked DEF Returns, Settle, Mark, Shown
<1>2. outcome' \in [Adapters -> {"pending", "fetching", "returned", "failed"}]
  BY <1>0 DEF TypeOK
<1>3. TypeOK'
  BY <1>0, <1>1, <1>2 DEF TypeOK
<1>4. WaitersQueue' /\ SlotsAccounted'
  BY <1>0, CallsGoOn
<1>5. LoopsRest'
  BY <1>0 DEF LoopsRest, Adapters
<1>6. OnlyAbandonedReportLate'
  BY <1>0 DEF OnlyAbandonedReportLate
<1> QED
  BY <1>1, <1>3, <1>4, <1>5, <1>6

(* A fetch is rejected before its loop has begun.                          *)
LEMMA RejectsKeeps ==
  ASSUME FetchIInv, NEW a, Rejects(a)
  PROVE  FetchIInv'
<1> USE DEF FetchIInv
<1>0. /\ \A b \in Group(a) \cap Looping : todo[b] = Work
      /\ outcome' = [b \in Adapters |-> IF b \in Group(a) THEN "failed" ELSE outcome[b]]
      /\ shown' = [b \in Adapters |-> IF b \in Group(a) THEN "error" ELSE shown[b]]
      /\ todo' = [b \in Looping |-> IF b \in Group(a) THEN 0 ELSE todo[b]]
      /\ todo \in [Looping -> 0..Work] /\ Work \in Nat \ {0}
      /\ UNCHANGED <<coordinated, overdue, tries, inFlight, waitQueue, call,
                     mcpInit, refused, phase, writes, stored, mishap, flushes>>
  BY FetchAssumption DEF Rejects, Settle, Mark, glean, rows, TypeOK
<1>1. NothingLost' /\ shown' \in [Adapters -> Shown] /\ dirty' \in BOOLEAN
  BY Marked DEF Rejects, Settle, Mark, Shown
<1>2. outcome' \in [Adapters -> {"pending", "fetching", "returned", "failed"}]
  BY <1>0 DEF TypeOK
<1>3. todo' \in [Looping -> 0..Work]
  BY <1>0
<1>4. TypeOK'
  BY <1>0, <1>1, <1>2, <1>3 DEF TypeOK
<1>5. WaitersQueue' /\ SlotsAccounted'
  BY <1>0, CallsGoOn
<1>6. \A b \in Group(a) \cap Looping : call[b] = "none"
  BY <1>0 DEF LoopsRest
<1>7. LoopsRest'
  BY <1>0, <1>6 DEF LoopsRest, Adapters
<1>8. OnlyAbandonedReportLate'
  BY <1>0 DEF OnlyAbandonedReportLate
<1> QED
  BY <1>1, <1>4, <1>5, <1>7, <1>8

(* A time limit passes: the loop of a fetch that is given up may go on.    *)
LEMMA TimesOutKeeps ==
  ASSUME FetchIInv, NEW a \in Adapters, TimesOut(a)
  PROVE  FetchIInv'
<1> USE DEF FetchIInv
<1>0. /\ outcome[a] = "fetching"
      /\ overdue' = [overdue EXCEPT ![a] = TRUE] /\ overdue \in [Adapters -> BOOLEAN]
      /\ \/ UNCHANGED <<outcome, shown, dirty>>
         \/ Settle({a}, "failed", "error")
      /\ UNCHANGED <<coordinated, todo, tries, inFlight, waitQueue, call,
                     mcpInit, refused, phase, writes, stored, mishap, flushes>>
  BY DEF TimesOut, glean, rows, tracker, TypeOK
<1>1. NothingLost' /\ shown' \in [Adapters -> Shown] /\ dirty' \in BOOLEAN
  <2>1. CASE UNCHANGED <<outcome, shown, dirty>>
    BY <1>0, <2>1 DEF NothingLost, TypeOK
  <2>2. CASE Settle({a}, "failed", "error")
    BY <2>2, Marked DEF Settle, Mark, Shown
  <2> QED BY <1>0, <2>1, <2>2
<1>2. /\ outcome' \in [Adapters -> {"pending", "fetching", "returned", "failed"}]
      /\ \A b \in Adapters \ {a} : outcome'[b] = outcome[b] /\ shown'[b] = shown[b]
      /\ outcome'[a] \in {"fetching", "failed"}
  BY <1>0 DEF Settle, Mark, TypeOK
<1>3. /\ overdue' \in [Adapters -> BOOLEAN] /\ overdue'[a]
      /\ \A b \in Adapters \ {a} : overdue'[b] = overdue[b]
  BY <1>0
<1>4. TypeOK'
  BY <1>0, <1>1, <1>2, <1>3 DEF TypeOK
<1>5. WaitersQueue' /\ SlotsAccounted'
  BY <1>0, CallsGoOn
<1>6. LoopsRest'
  BY <1>0, <1>2, <1>3 DEF LoopsRest, Adapters
<1>7. OnlyAbandonedReportLate'
  BY <1>2, <1>3 DEF OnlyAbandonedReportLate
<1> QED
  BY <1>1, <1>4, <1>5, <1>6, <1>7

(* What the client does with a call is nothing to the fetches and the      *)
(* tracker: it is enough that the limiter keeps its books and that no call *)
(* begins or reaches its loop.                                             *)
LEMMA ClientKeeps ==
  ASSUME FetchIInv, WaitersQueue', SlotsAccounted', inFlight' \in Nat,
         call' \in [Looping -> Holding \cup {"none", "waiting", "answered"}],
         \A a \in Looping : call'[a] # "none" <=> call[a] # "none",
         tries' \in [Looping -> 0..(MaxTries - 1)],
         mcpInit' \in {"none", "pending", "ok"}, refused' \in BOOLEAN,
         UNCHANGED <<coordinated, outcome, overdue, todo, phase, tracker, rows>>
  PROVE  FetchIInv'
<1> USE DEF FetchIInv
<1>1. /\ UNCHANGED <<coordinated, outcome, overdue, todo, phase>>
      /\ UNCHANGED <<shown, dirty, writes, stored, mishap, flushes>>
  BY DEF tracker, rows
<1>2. waitQueue' \in Seq(Looping) /\ IsInjective(waitQueue)'
  BY DEF WaitersQueue, IsInjective
<1>3. TypeOK'
  BY <1>1, <1>2 DEF TypeOK
<1>4. LoopsRest'
  BY <1>1 DEF LoopsRest
<1>5. OnlyAbandonedReportLate' /\ NothingLost'
  BY <1>1 DEF OnlyAbandonedReportLate, NothingLost
<1> QED
  BY <1>3, <1>4, <1>5

(* A call comes to the handshake, or fails because another's was refused.  *)
LEMMA HandshakenKeeps ==
  ASSUME FetchIInv, NEW a \in Looping, Handshaken(a)
  PROVE  FetchIInv'
<1>0. /\ TypeOK /\ WaitersQueue /\ SlotsAccounted
      /\ call[a] = "gap" /\ inFlight \in Nat
      /\ call \in [Looping -> Holding \cup {"none", "waiting", "answered"}]
      /\ tries \in [Looping -> 0..(MaxTries - 1)]
      /\ mcpInit \in {"none", "pending", "ok"} /\ refused \in BOOLEAN
      /\ UNCHANGED <<coordinated, outcome, overdue, todo, tries, refused, phase, tracker, rows>>
  BY DEF Handshaken, FetchIInv, TypeOK
<1>1. CASE refused
  <2>1. Release({a}, "answered") /\ UNCHANGED mcpInit
    BY <1>1 DEF Handshaken
  <2>2. {a} \in SUBSET InUse
    BY <1>0 DEF InUse, Holding
  <2>3. /\ WaitersQueue' /\ SlotsAccounted' /\ inFlight' \in Nat
        /\ call' \in [Looping -> Holding \cup {"none", "waiting", "answered"}]
        /\ \A b \in Looping : call'[b] # "none" <=> call[b] # "none"
    BY <1>0, <2>1, <2>2, ReleaseKeeps
  <2> QED
    BY <1>0, <2>1, <2>3, ClientKeeps
<1>2. CASE ~refused
  <2>1. /\ call' = [call EXCEPT ![a] = IF mcpInit = "ok" THEN "posted" ELSE "handshake"]
        /\ mcpInit' = IF mcpInit = "none" THEN "pending" ELSE mcpInit
        /\ UNCHANGED <<inFlight, waitQueue>>
    BY <1>2 DEF Handshaken
  <2>2. /\ call' \in [Looping -> Holding \cup {"none", "waiting", "answered"}]
        /\ \A b \in Looping : call'[b] # "none" <=> call[b] # "none"
        /\ \A b \in Looping : /\ call'[b] \in Holding <=> call[b] \in Holding
                              /\ call'[b] = "waiting" <=> call[b] = "waiting"
    BY <1>0, <2>1 DEF Holding
  <2>3. WaitersQueue' /\ SlotsAccounted'
    BY <1>0, <2>1, <2>2, CallsGoOn
  <2>4. mcpInit' \in {"none", "pending", "ok"}
    BY <1>0, <2>1
  <2> QED
    BY <1>0, <2>1, <2>2, <2>3, <2>4, ClientKeeps
<1> QED BY <1>1, <1>2

(* The handshake ends, for all that await it.                              *)
LEMMA HandshakeKeeps ==
  ASSUME FetchIInv, Handshake
  PROVE  FetchIInv'
<1>0. /\ TypeOK /\ WaitersQueue /\ SlotsAccounted /\ inFlight \in Nat
      /\ call \in [Looping -> Holding \cup {"none", "waiting", "answered"}]
      /\ tries \in [Looping -> 0..(MaxTries - 1)]
      /\ refused \in BOOLEAN
  BY DEF FetchIInv, TypeOK
<1>1. CASE InitSucceeds
  <2>1. /\ mcpInit' = "ok"
        /\ call' = [b \in Looping |-> IF b \in Awaiting THEN "posted" ELSE call[b]]
        /\ UNCHANGED <<coordinated, outcome, overdue, todo, phase, tracker, rows>>
        /\ UNCHANGED <<tries, refused, inFlight, waitQueue>>
    BY <1>1 DEF InitSucceeds
  <2>2. /\ call' \in [Looping -> Holding \cup {"none", "waiting", "answered"}]
        /\ \A b \in Looping : call'[b] # "none" <=> call[b] # "none"
        /\ \A b \in Looping : /\ call'[b] \in Holding <=> call[b] \in Holding
                              /\ call'[b] = "waiting" <=> call[b] = "waiting"
    BY <1>0, <2>1 DEF Holding, Awaiting
  <2>3. WaitersQueue' /\ SlotsAccounted'
    BY <1>0, <2>1, <2>2, CallsGoOn
  <2> QED
    BY <1>0, <2>1, <2>2, <2>3, ClientKeeps
<1>2. ASSUME NEW auth \in BOOLEAN, InitFails(auth)
      PROVE  FetchIInv'
  <2>1. /\ mcpInit' = "none" /\ refused' = auth /\ Release(Awaiting, "answered")
        /\ UNCHANGED <<coordinated, outcome, overdue, todo, phase, tracker, rows>>
        /\ UNCHANGED tries
    BY <1>2 DEF InitFails
  <2>2. Awaiting \in SUBSET InUse
    BY DEF InUse, Awaiting, Holding
  <2>3. /\ WaitersQueue' /\ SlotsAccounted' /\ inFlight' \in Nat
        /\ call' \in [Looping -> Holding \cup {"none", "waiting", "answered"}]
        /\ \A b \in Looping : call'[b] # "none" <=> call[b] # "none"
    BY <1>0, <2>1, <2>2, ReleaseKeeps
  <2> QED
    BY <1>0, <2>1, <2>3, ClientKeeps
<1> QED BY <1>1, <1>2 DEF Handshake

(* A call is answered.                                                     *)
LEMMA AnsweredKeeps ==
  ASSUME FetchIInv, NEW a \in Looping, call[a] = "posted", Release({a}, "answered"),
         UNCHANGED <<coordinated, outcome, overdue, todo, phase, tracker, rows>>,
         UNCHANGED <<tries, mcpInit, refused>>
  PROVE  FetchIInv'
<1>0. /\ TypeOK /\ WaitersQueue /\ SlotsAccounted
      /\ tries \in [Looping -> 0..(MaxTries - 1)]
      /\ mcpInit \in {"none", "pending", "ok"} /\ refused \in BOOLEAN
  BY DEF FetchIInv, TypeOK
<1>1. {a} \in SUBSET InUse
  BY DEF InUse, Holding
<1>2. /\ WaitersQueue' /\ SlotsAccounted' /\ inFlight' \in Nat
      /\ call' \in [Looping -> Holding \cup {"none", "waiting", "answered"}]
      /\ \A b \in Looping : call'[b] # "none" <=> call[b] # "none"
  BY <1>0, <1>1, ReleaseKeeps
<1> QED
  BY <1>0, <1>2, ClientKeeps

(* A rate limit is waited for with the slot in hand, a bounded number of   *)
(* times.                                                                  *)
LEMMA RateLimitedKeeps ==
  ASSUME FetchIInv, NEW a \in Looping, RateLimited(a)
  PROVE  FetchIInv'
<1>0. /\ TypeOK /\ WaitersQueue /\ SlotsAccounted /\ inFlight \in Nat
      /\ call \in [Looping -> Holding \cup {"none", "waiting", "answered"}]
      /\ tries \in [Looping -> 0..(MaxTries - 1)] /\ MaxTries \in Nat \ {0}
      /\ mcpInit \in {"none", "pending", "ok"} /\ refused \in BOOLEAN
      /\ call[a] = "posted"
      /\ UNCHANGED <<coordinated, outcome, overdue, todo, phase, tracker, rows>>
      /\ UNCHANGED <<mcpInit, refused>>
  BY FetchAssumption DEF FetchIInv, TypeOK, RateLimited
<1>1. CASE MayRetry(a)
  <2>1. /\ call' = [call EXCEPT ![a] = "backoff"]
        /\ tries' = [tries EXCEPT ![a] = IF @ < MaxTries - 1 THEN @ + 1 ELSE @]
        /\ UNCHANGED <<inFlight, waitQueue>>
    BY <1>1 DEF RateLimited
  <2>2. /\ call' \in [Looping -> Holding \cup {"none", "waiting", "answered"}]
        /\ \A b \in Looping : call'[b] # "none" <=> call[b] # "none"
        /\ \A b \in Looping : /\ call'[b] \in Holding <=> call[b] \in Holding
                              /\ call'[b] = "waiting" <=> call[b] = "waiting"
    BY <1>0, <2>1 DEF Holding
  <2>3. tries' \in [Looping -> 0..(MaxTries - 1)]
    BY <1>0, <2>1
  <2>4. WaitersQueue' /\ SlotsAccounted'
    BY <1>0, <2>1, <2>2, CallsGoOn
  <2> QED
    BY <1>0, <2>1, <2>2, <2>3, <2>4, ClientKeeps
<1>2. CASE ~MayRetry(a)
  BY <1>0, <1>2, AnsweredKeeps DEF RateLimited
<1> QED BY <1>1, <1>2

LEMMA BackoffKeeps ==
  ASSUME FetchIInv, NEW a \in Looping, BackoffEnds(a)
  PROVE  FetchIInv'
<1>0. /\ TypeOK /\ WaitersQueue /\ SlotsAccounted /\ inFlight \in Nat
      /\ call \in [Looping -> Holding \cup {"none", "waiting", "answered"}]
      /\ tries \in [Looping -> 0..(MaxTries - 1)]
      /\ mcpInit \in {"none", "pending", "ok"} /\ refused \in BOOLEAN
      /\ call[a] = "backoff" /\ call' = [call EXCEPT ![a] = "posted"]
      /\ UNCHANGED <<coordinated, outcome, overdue, todo, phase, tracker, rows>>
      /\ UNCHANGED <<mcpInit, refused, tries, inFlight, waitQueue>>
  BY DEF FetchIInv, TypeOK, BackoffEnds
<1>1. /\ call' \in [Looping -> Holding \cup {"none", "waiting", "answered"}]
      /\ \A b \in Looping : call'[b] # "none" <=> call[b] # "none"
      /\ \A b \in Looping : /\ call'[b] \in Holding <=> call[b] \in Holding
                            /\ call'[b] = "waiting" <=> call[b] = "waiting"
  BY <1>0 DEF Holding
<1>2. WaitersQueue' /\ SlotsAccounted'
  BY <1>0, <1>1, CallsGoOn
<1> QED
  BY <1>0, <1>1, <1>2, ClientKeeps

(* The tracker's flushes: what is shown leaves with the newest UPDATE.     *)
LEMMA FlushKeeps ==
  ASSUME FetchIInv, Flush \/ FetchEnds
  PROVE  FetchIInv'
<1> USE DEF FetchIInv
<1>0. /\ UNCHANGED <<coordinated, outcome, overdue, todo, call, tries, inFlight,
                     waitQueue, mcpInit, refused, shown, stored, mishap>>
      /\ dirty' = FALSE
      /\ \/ writes' = Append(writes, shown)
         \/ ~dirty /\ writes' = writes
      /\ writes \in Seq([Adapters -> Shown]) /\ shown \in [Adapters -> Shown]
      /\ phase' \in {"fetch", "flush", "over"} /\ flushes' \in 0..MaxFlushes
  <2>0. /\ writes \in Seq([Adapters -> Shown]) /\ shown \in [Adapters -> Shown]
        /\ phase \in {"fetch", "flush", "over"} /\ flushes \in 0..MaxFlushes
        /\ MaxFlushes \in Nat /\ dirty \in BOOLEAN
    BY FetchAssumption DEF TypeOK
  <2>1. CASE Flush
    <3>1. flushes' \in 0..MaxFlushes
      BY <2>0, <2>1 DEF Flush
    <3>2. dirty' = FALSE
      BY <2>1, Zenon DEF Flush, Tick
    <3> QED
      BY <2>0, <2>1, <3>1, <3>2 DEF Flush
  <2>2. CASE FetchEnds
    BY <2>0, <2>2 DEF FetchEnds, glean
  <2> QED BY <2>1, <2>2
<1>1. writes' \in Seq([Adapters -> Shown])
  BY <1>0
<1>2. TypeOK'
  BY <1>0, <1>1 DEF TypeOK
<1>3. WaitersQueue' /\ SlotsAccounted'
  BY <1>0, CallsGoOn
<1>4. LoopsRest' /\ OnlyAbandonedReportLate'
  BY <1>0 DEF LoopsRest, OnlyAbandonedReportLate
<1>5. NothingLost'
  <2>1. CASE writes' = Append(writes, shown)
    <3>1. writes' # <<>> /\ writes'[Len(writes')] = shown
      BY <1>0, <2>1
    <3> QED
      BY <1>0, <3>1 DEF NothingLost
  <2>2. CASE ~dirty /\ writes' = writes
    BY <1>0, <2>2 DEF NothingLost
  <2> QED BY <1>0, <2>1, <2>2
<1> QED
  BY <1>2, <1>3, <1>4, <1>5

(* An UPDATE lands: the newest stays the newest, or has become the row.    *)
LEMMA LandKeeps ==
  ASSUME FetchIInv, NEW n, NEW fails \in BOOLEAN, Land(n, fails)
  PROVE  FetchIInv'
<1> USE DEF FetchIInv
<1>0. /\ UNCHANGED <<coordinated, outcome, overdue, todo, call, tries, inFlight,
                     waitQueue, mcpInit, refused, shown, flushes>>
      /\ n \in 1..Len(writes) /\ writes \in Seq([Adapters -> Shown])
      /\ stored' = IF fails THEN stored ELSE writes[n]
      /\ writes' = SubSeq(writes, 1, n - 1) \o SubSeq(writes, n + 1, Len(writes))
      /\ mishap' = (mishap \/ fails \/ n > 1) /\ mishap \in BOOLEAN
      /\ dirty' = dirty /\ dirty \in BOOLEAN
      /\ phase' \in {"fetch", "flush", "over"} /\ stored \in [Adapters -> Shown]
  BY DEF Land, Tick, glean, TypeOK
<1>1. stored' \in [Adapters -> Shown] /\ writes' \in Seq([Adapters -> Shown])
  <2>1. writes[n] \in [Adapters -> Shown]
    BY <1>0
  <2>2. SubSeq(writes, 1, n - 1) \in Seq([Adapters -> Shown])
    BY <1>0
  <2>3. SubSeq(writes, n + 1, Len(writes)) \in Seq([Adapters -> Shown])
    BY <1>0
  <2> QED
    BY <1>0, <2>1, <2>2, <2>3
<1>2. mishap' \in BOOLEAN
  BY <1>0
<1>3. TypeOK'
  BY <1>0, <1>1, <1>2 DEF TypeOK
<1>4. WaitersQueue' /\ SlotsAccounted'
  BY <1>0, CallsGoOn
<1>5. LoopsRest' /\ OnlyAbandonedReportLate'
  BY <1>0 DEF LoopsRest, OnlyAbandonedReportLate
<1>6. ASSUME ~dirty', ~mishap'
      PROVE  shown' = IF writes' = <<>> THEN stored' ELSE writes'[Len(writes')]
  <2>1. ~dirty /\ ~mishap /\ ~fails /\ n = 1 /\ stored' = writes[1]
    <3>1. ~dirty /\ ~mishap /\ ~fails /\ ~(n > 1)
      BY <1>0, <1>6, Zenon
    <3>2. n = 1
      BY <1>0, <3>1
    <3> QED
      BY <1>0, <3>1, <3>2
  <2>2. shown = writes[Len(writes)] /\ Len(writes) \in Nat /\ Len(writes) >= 1
    BY <1>0, <2>1 DEF NothingLost
  <2>3. writes' = SubSeq(writes, 2, Len(writes))
    <3>1. SubSeq(writes, 1, 0) = <<>>
      BY <1>0
    <3>2. SubSeq(writes, 2, Len(writes)) \in Seq([Adapters -> Shown])
      BY <1>0
    <3> QED
      BY <1>0, <2>1, <3>1, <3>2
  <2>4. CASE Len(writes) = 1
    <3>1. writes' = <<>>
      BY <1>0, <2>3, <2>4
    <3> QED
      BY <1>0, <2>1, <2>2, <2>4, <3>1
  <2>5. CASE Len(writes) > 1
    <3>1. /\ Len(writes') = Len(writes) - 1
          /\ writes'[Len(writes')] = writes[Len(writes)]
      <4> DEFINE r == SubSeq(writes, 2, Len(writes))
      <4>1. Len(r) = Len(writes) - 1 /\ r[Len(writes) - 1] = writes[Len(writes)]
        BY <1>0, <2>2, <2>5
      <4>2. Len(r) = Len(writes) - 1 /\ r[Len(r)] = writes[Len(writes)]
        BY <4>1
      <4> HIDE DEF r
      <4> QED
        BY <2>3, <4>2 DEF r
    <3>2. writes' # <<>>
      BY <2>2, <2>5, <3>1
    <3> QED
      BY <1>0, <2>2, <3>1, <3>2
  <2>6. Len(writes) = 1 \/ Len(writes) > 1
    <3> DEFINE k == Len(writes)
    <3>1. k \in Nat /\ k >= 1
      BY <2>2
    <3> HIDE DEF k
    <3>2. k = 1 \/ k > 1
      BY <3>1
    <3> QED BY <3>2 DEF k
  <2> QED BY <2>4, <2>5, <2>6, Zenon
<1> QED
  BY <1>3, <1>4, <1>5, <1>6 DEF NothingLost

-----------------------------------------------------------------------------
(* The theorem.                                                            *)

LEMMA FetchStarts == Init => FetchIInv
<1> SUFFICES ASSUME Init PROVE FetchIInv
  OBVIOUS
<1>0. /\ inFlight = 0 /\ waitQueue = <<>> /\ writes = <<>>
      /\ call = [a \in Looping |-> "none"] /\ todo = [a \in Looping |-> Work]
      /\ outcome = [a \in Adapters |-> "pending"]
      /\ {Work, MaxInflight, MaxTries} \subseteq Nat \ {0} /\ MaxFlushes \in Nat
  BY FetchAssumption DEF Init
<1>1. TypeOK
  <2>1. waitQueue \in Seq(Looping) /\ IsInjective(waitQueue)
    BY <1>0 DEF IsInjective
  <2>2. writes \in Seq([Adapters -> Shown])
    BY <1>0
  <2>3. todo \in [Looping -> 0..Work] /\ tries \in [Looping -> 0..(MaxTries - 1)]
    BY <1>0 DEF Init
  <2> QED
    <3>1. inFlight \in Nat /\ flushes \in 0..MaxFlushes
      BY <1>0 DEF Init
    <3>2. call \in [Looping -> Holding \cup {"none", "waiting", "answered"}]
      BY <1>0
    <3>3. outcome \in [Adapters -> {"pending", "fetching", "returned", "failed"}]
      BY <1>0
    <3>4. shown \in [Adapters -> Shown] /\ stored \in [Adapters -> Shown]
      BY DEF Init, Shown
    <3> QED
      BY <2>1, <2>2, <2>3, <3>1, <3>2, <3>3, <3>4 DEF Init, TypeOK
<1>2. WaitersQueue
  BY <1>0 DEF WaitersQueue
<1>3. SlotsAccounted
  <2>1. InUse = {}
    BY <1>0 DEF InUse, Holding
  <2> QED
    BY <1>0, <2>1, FS_EmptySet DEF SlotsAccounted
<1>4. LoopsRest /\ OnlyAbandonedReportLate
  BY <1>0 DEF LoopsRest, OnlyAbandonedReportLate, Adapters
<1>5. NothingLost
  BY DEF Init, NothingLost
<1> QED
  BY <1>1, <1>2, <1>3, <1>4, <1>5 DEF FetchIInv

LEMMA FetchProceeds == FetchIInv /\ [Next]_vars => FetchIInv'
<1> SUFFICES ASSUME FetchIInv, [Next]_vars PROVE FetchIInv'
  OBVIOUS
<1>1. CASE Microtask
  <2>1. CASE \E S \in Turns : Begin(S)
    BY <2>1, BeginKeeps
  <2>2. CASE LoopPair
    BY <2>2, LoopPairKeeps
  <2>3. CASE FetchEnds
    BY <2>3, FlushKeeps
  <2>4. ASSUME NEW a \in Looping,
               \/ Loop(a) \/ Resume(a) \/ Returns(a) \/ Rejects(a)
               \/ SweepFinds(a) \/ SweepRejects(a)
        PROVE  FetchIInv'
    BY <2>4, LoopKeeps, ResumeKeeps, ReturnsKeeps, RejectsKeeps, SweepKeeps
  <2> QED BY <1>1, <2>1, <2>2, <2>3, <2>4 DEF Microtask
<1>2. CASE Event
  <2>1. CASE Handshake
    BY <2>1, HandshakeKeeps
  <2>2. CASE Flush
    BY <2>2, FlushKeeps
  <2>3. CASE Updated
    BY <2>3, LandKeeps DEF Updated
  <2>4. ASSUME NEW a \in Looping, ClientStep(a)
        PROVE  FetchIInv'
    <3>1. CASE Handshaken(a)
      BY <3>1, HandshakenKeeps
    <3>2. CASE Answered(a)
      BY <3>2, AnsweredKeeps DEF Answered
    <3>3. CASE RateLimited(a)
      BY <3>3, RateLimitedKeeps
    <3>4. CASE BackoffEnds(a)
      BY <3>4, BackoffKeeps
    <3> QED BY <2>4, <3>1, <3>2, <3>3, <3>4 DEF ClientStep
  <2>5. ASSUME NEW a \in Plain, PlainStep(a)
        PROVE  FetchIInv'
    BY <2>5, ReturnsKeeps, RejectsKeeps DEF PlainStep
  <2>6. ASSUME NEW a \in Adapters, TimesOut(a)
        PROVE  FetchIInv'
    BY <2>6, TimesOutKeeps
  <2> QED BY <1>2, <2>1, <2>2, <2>3, <2>4, <2>5, <2>6 DEF Event
<1>3. CASE UNCHANGED vars
  <2>1. UNCHANGED <<coordinated, outcome, overdue, todo, call, tries, inFlight, waitQueue,
                    mcpInit, refused, shown, dirty, writes, stored, mishap, phase, flushes>>
    BY <1>3 DEF vars
  <2>2. TypeOK' /\ WaitersQueue' /\ SlotsAccounted' /\ LoopsRest'
    BY <2>1, CallsGoOn DEF FetchIInv, TypeOK, LoopsRest
  <2>3. OnlyAbandonedReportLate' /\ NothingLost'
    BY <2>1 DEF FetchIInv, OnlyAbandonedReportLate, NothingLost
  <2> QED
    BY <2>2, <2>3 DEF FetchIInv
<1> QED BY <1>1, <1>2, <1>3 DEF Next

(* Through retries, failed handshakes and abandoned loops the rate limiter *)
(* counts what it hands out; only a fetch that was given up reports after  *)
(* it has settled; and no flush forgets what was marked while an UPDATE    *)
(* was under way (glean.ts, orchestrate.ts, progress-tracker.ts).          *)
THEOREM FetchIsSound == Spec => []FetchInv
<1>1. FetchIInv => FetchInv
  BY DEF FetchIInv, FetchInv, NothingLost, NothingForgotten
<1> QED
  BY <1>1, FetchStarts, FetchProceeds, PTL DEF Spec

-----------------------------------------------------------------------------
(* The Glean token: the inductive invariant.                               *)

Grants == Nat \X Nat \X Nat
Entries == [client : Nat, grant : Grants \cup {NoGrant}]
Saved == Entries \cup {NoEntry}
Editors == {"in-repo", "cursor", "windsurf"}
Steps == {"idle", "consent", "ask", "next", "save", "write", "env"}
Origins == {"consent", "consent without a grant", "grant", "cursor", "windsurf"}
Tokens == Tenants \X Origins \X BOOLEAN

(* A run has what its next steps need: a login that a person agreed to has *)
(* a grant of its own client, a run on its sources knows what is left of   *)
(* them, and a token that goes to .env was asked for.                      *)
HasEntry(r) ==
  step[r] \in {"consent", "ask", "save", "write"}
    \/ (step[r] = "env" /\ script[r] \in {<<"login">>, <<"refresh">>}) => entry[r] # NoEntry

RunTyped(r) ==
  /\ step[r] \in Steps /\ tenant[r] \in Tenants /\ entry[r] \in Saved
  /\ step[r] = "idle" => entry[r] = NoEntry
  /\ step[r] = "consent" => script[r] = <<"login">>
  /\ step[r] \in {"ask", "next"} => script[r] # <<"login">>
  /\ HasEntry(r)
  /\ step[r] = "ask" \/ HoldsTheGrant(r) => entry[r].grant # NoGrant
  /\ step[r] = "next" \/ (step[r] = "ask" /\ script[r] # <<"refresh">>) =>
       \E k \in {"sources", "forced"}, s \in Seq(Editors) :
         /\ script[r] = <<k>> \o s
         /\ k = "forced" => Len(s) <= 1
         /\ step[r] = "ask" => s # <<>>
  /\ step[r] \in {"save", "write", "env"} =>
       /\ token[r] \in Tokens
       /\ token[r][1] = tenant[r] \/ token[r][2] = "windsurf"
       /\ token[r][3] => script[r] = <<"forced", token[r][2]>>
  /\ step[r] \in {"save", "write", "env"} /\ script[r] = <<"login">> /\ token[r][2] = "consent" =>
       entry[r].grant # NoGrant /\ entry[r].grant[1] = entry[r].client
  /\ step[r] = "write" => file[r] \in [Tenants -> Saved] /\ file[r][tenant[r]] = entry[r]

TokenTypes ==
  /\ live \in [Tenants -> SUBSET Grants] /\ clients \in Nat /\ consents \in Nat
  /\ saved \in [Tenants -> Saved]
  /\ step \in [Scripters -> Steps] /\ tenant \in [Scripters -> Tenants]
  /\ entry \in [Scripters -> Saved] /\ lost \subseteq Tenants
  /\ DOMAIN script = Scripters /\ DOMAIN file = Scripters /\ DOMAIN token = Scripters
  /\ \A r \in Scripters : RunTyped(r)

(* A tenant accepts one grant of a consent, and no entry has a later one.  *)
Bounded(t, e) ==
  e # NoEntry /\ e.grant # NoGrant =>
    /\ e.grant[2] <= consents
    /\ \A h \in live[t] : h[2] = e.grant[2] => e.grant[3] <= h[3]

LiveOnce ==
  \A t \in Tenants : \A g, h \in live[t] : g[2] <= consents /\ (g[2] = h[2] => g = h)

RunBounded(r) ==
  /\ Bounded(tenant[r], entry[r])
  /\ step[r] = "write" => \A t \in Tenants : Bounded(t, file[r][t])

NothingFresher ==
  LiveOnce /\ (\A t \in Tenants : Bounded(t, saved[t])) /\ \A r \in Scripters : RunBounded(r)

(* A run that holds a grant holds one that is accepted; where grants are   *)
(* replaced nobody else has it, neither the file nor another run.          *)
Holds(r) == tenant[r] \notin lost /\ HoldsTheGrant(r)
MayUse(q) == HoldsTheGrant(q) \/ step[q] = "ask"

HeldIsLive == \A r \in Scripters : Holds(r) => Accepts(tenant[r], entry[r])

HeldAlone ==
  \A r \in Scripters : Holds(r) /\ tenant[r] \in Rotating =>
    /\ saved[tenant[r]] # NoEntry => saved[tenant[r]].grant # entry[r].grant
    /\ \A q \in Scripters \ {r} :
         tenant[q] = tenant[r] /\ MayUse(q) => entry[q].grant # entry[r].grant

(* Where grants are not replaced, the saved one is accepted at any time.   *)
SavedIsGood ==
  \A t \in Tenants \ lost :
    /\ saved[t] # NoEntry
    /\ t \in Rotating => \A r \in Scripters : tenant[r] = t => ~HoldsTheGrant(r)
    => Accepts(t, saved[t])

HeldInv == HeldIsLive /\ HeldAlone /\ SavedIsGood

TokenIInv == TokenTypes /\ NothingFresher /\ HeldInv

(* The invariant of the scripts follows.                                   *)
LEMMA TokenImplies == TokenIInv => TokenInv
<1> SUFFICES ASSUME TokenIInv PROVE TokenInv
  OBVIOUS
<1>1. GrantIsKept
  BY DEF TokenIInv, HeldInv, SavedIsGood, GrantIsKept
<1>2. TokenIsAsked
  BY DEF TokenIInv, TokenTypes, RunTyped, TokenIsAsked
<1> QED BY <1>1, <1>2 DEF TokenInv

(* The first state.                                                        *)
LEMMA TokenStart == TokenInit => TokenIInv
<1> SUFFICES ASSUME TokenInit PROVE TokenIInv
  OBVIOUS
<1>1. AnyTenant \in Tenants
  BY GleanTokenAssumption DEF AnyTenant
<1>2. \A r \in Scripters : /\ step[r] = "idle" /\ tenant[r] \in Tenants /\ entry[r] = NoEntry
                           /\ script[r] = <<>>
  BY <1>1 DEF TokenInit
<1>3. \A t \in Tenants : live[t] = {} /\ saved[t] = NoEntry
  BY DEF TokenInit
<1>4. \A r \in Scripters : RunTyped(r) /\ ~HoldsTheGrant(r)
  BY <1>2 DEF RunTyped, Steps, Saved, HasEntry, HoldsTheGrant
<1>5. TokenTypes
  BY <1>1, <1>4 DEF TokenInit, TokenTypes, Steps, Saved
<1>6. NothingFresher
  BY <1>2, <1>3 DEF NothingFresher, LiveOnce, Bounded, RunBounded
<1>7. HeldInv
  BY <1>3, <1>4 DEF HeldInv, HeldIsLive, HeldAlone, SavedIsGood, Holds
<1> QED BY <1>5, <1>6, <1>7 DEF TokenIInv

-----------------------------------------------------------------------------
(* What the tenants do.                                                    *)

(* An entry is no list and a grant is not empty.                           *)
LEMMA EntriesAre ==
  /\ \A e \in Entries : e # NoEntry /\ e.client \in Nat /\ e.grant \in Grants \cup {NoGrant}
  /\ \A e \in Saved : e # NoEntry => e \in Entries
  /\ \A g \in Grants : /\ g # NoGrant /\ g[1] \in Nat /\ g[2] \in Nat /\ g[3] \in Nat
                       /\ g = <<g[1], g[2], g[3]>>
<1>1. \A g \in Grants : /\ g # NoGrant /\ g[1] \in Nat /\ g[2] \in Nat /\ g[3] \in Nat
                        /\ g = <<g[1], g[2], g[3]>>
  BY DEF Grants, NoGrant
<1>2. \A e \in Entries : e # NoEntry /\ e.client \in Nat /\ e.grant \in Grants \cup {NoGrant}
  <2> TAKE e \in Entries
  <2>1. e.client \in Nat /\ e.grant \in Grants \cup {NoGrant} /\ DOMAIN e = {"client", "grant"}
    BY DEF Entries
  <2>2. DOMAIN NoEntry = {}
    BY DEF NoEntry
  <2> QED BY <2>1, <2>2
<1>3. \A e \in Saved : e # NoEntry => e \in Entries
  BY DEF Saved
<1> QED BY <1>1, <1>2, <1>3

(* The next grant is the same or a later one of its consent.               *)
LEMMA NextGrantIs ==
  ASSUME NEW t, NEW g \in Grants
  PROVE  /\ NextGrant(t, g) \in Grants /\ NextGrant(t, g)[1] = g[1] /\ NextGrant(t, g)[2] = g[2]
         /\ t \in Rotating => NextGrant(t, g)[3] = g[3] + 1
         /\ t \notin Rotating => NextGrant(t, g) = g
<1>1. g = <<g[1], g[2], g[3]>> /\ g[1] \in Nat /\ g[2] \in Nat /\ g[3] \in Nat
  BY DEF Grants
<1>2. [g EXCEPT ![3] = @ + 1] = <<g[1], g[2], g[3] + 1>>
  BY <1>1
<1> QED BY <1>1, <1>2 DEF NextGrant, Grants

(* What is accepted goes, is replaced or is added by a new consent: what   *)
(* was known is not fresher than what is accepted now.                     *)
NewConsent(t, g) == /\ consents' = consents + 1 /\ g[2] = consents + 1
                    /\ live' = [live EXCEPT ![t] = @ \cup {g}]

GrantsMove ==
  \/ consents' = consents /\ \A t \in Tenants : live'[t] \subseteq live[t]
  \/ consents' = consents /\ \E t \in Tenants : \E g \in live[t] : Spend(t, g)
  \/ consents' = consents + 1 /\ live' = live
  \/ \E t \in Tenants, g \in Grants : NewConsent(t, g)

LEMMA LiveMoves ==
  ASSUME TokenTypes, LiveOnce, live' \in [Tenants -> SUBSET Grants], GrantsMove
  PROVE  /\ LiveOnce' /\ consents' \in Nat
         /\ \A t \in Tenants, e \in Saved : Bounded(t, e) => Bounded(t, e)'
<1>1. /\ live \in [Tenants -> SUBSET Grants] /\ consents \in Nat
      /\ \A t \in Tenants : live[t] \subseteq Grants
  BY DEF TokenTypes
<1>2. CASE consents' = consents /\ \A t \in Tenants : live'[t] \subseteq live[t]
  BY <1>1, <1>2 DEF LiveOnce, Bounded
<1>3. ASSUME NEW t \in Tenants, NEW g \in live[t], Spend(t, g), consents' = consents
      PROVE  /\ LiveOnce' /\ consents' \in Nat
             /\ \A u \in Tenants, e \in Saved : Bounded(u, e) => Bounded(u, e)'
  <2>1. g \in Grants
    BY <1>1
  <2> DEFINE n == NextGrant(t, g)
  <2>2. n \in Grants /\ n[2] = g[2] /\ g[3] \in Nat /\ n[3] \in Nat /\ g[3] <= n[3]
    BY <2>1, NextGrantIs, EntriesAre
  <2>3. /\ live'[t] = (live[t] \ {g}) \cup {n}
        /\ \A u \in Tenants : u # t => live'[u] = live[u]
    BY <1>1, <1>3 DEF Spend
  <2> HIDE DEF n
  <2>4. LiveOnce'
    BY <1>3, <2>2, <2>3 DEF LiveOnce
  <2>5. ASSUME NEW e \in Saved, Bounded(t, e)
        PROVE  Bounded(t, e)'
    <3> SUFFICES ASSUME e # NoEntry, e.grant # NoGrant, NEW h \in live'[t], h[2] = e.grant[2]
                 PROVE  e.grant[3] <= h[3]
      BY <1>3, <2>5 DEF Bounded
    <3>1. e.grant \in Grants /\ e.grant[3] \in Nat
      BY EntriesAre
    <3>2. CASE h = n
      <4>1. e.grant[3] <= g[3]
        BY <2>2, <2>5, <3>2 DEF Bounded
      <4> QED BY <2>2, <3>1, <3>2, <4>1
    <3>3. CASE h \in live[t]
      BY <2>5, <3>3 DEF Bounded
    <3> QED BY <2>3, <3>2, <3>3
  <2>6. ASSUME NEW u \in Tenants, u # t, NEW e \in Saved, Bounded(u, e)
        PROVE  Bounded(u, e)'
    BY <1>3, <2>3, <2>6 DEF Bounded
  <2> QED BY <1>1, <1>3, <2>4, <2>5, <2>6
<1>4. ASSUME NEW t \in Tenants, NEW g \in Grants, NewConsent(t, g)
      PROVE  /\ LiveOnce' /\ consents' \in Nat
             /\ \A u \in Tenants, e \in Saved : Bounded(u, e) => Bounded(u, e)'
  <2>1. /\ consents' = consents + 1 /\ g[2] = consents + 1 /\ live'[t] = live[t] \cup {g}
        /\ \A u \in Tenants : u # t => live'[u] = live[u]
    BY <1>1, <1>4 DEF NewConsent
  <2>2. \A u \in Tenants : \A h \in live[u] : h[2] \in Nat /\ h[2] <= consents
    <3> TAKE u \in Tenants
    <3> TAKE h \in live[u]
    <3>1. h \in Grants
      BY <1>1
    <3> QED BY <3>1, EntriesAre DEF LiveOnce
  <2>3. LiveOnce'
    <3> SUFFICES ASSUME NEW u \in Tenants, NEW x \in live'[u], NEW y \in live'[u]
                 PROVE  x[2] <= consents' /\ (x[2] = y[2] => x = y)
      BY DEF LiveOnce
    <3>1. x[2] <= consents'
      BY <1>1, <2>1, <2>2
    <3>2. CASE x \in live[u] /\ y \in live[u]
      BY <3>1, <3>2 DEF LiveOnce
    <3>3. CASE u = t /\ (x = g \/ y = g)
      BY <1>1, <2>1, <2>2, <3>1, <3>3
    <3> QED BY <2>1, <3>2, <3>3
  <2>4. ASSUME NEW u \in Tenants, NEW e \in Saved, Bounded(u, e)
        PROVE  Bounded(u, e)'
    <3> SUFFICES ASSUME e # NoEntry, e.grant # NoGrant
                 PROVE  /\ e.grant[2] <= consents'
                        /\ \A h \in live'[u] : h[2] = e.grant[2] => e.grant[3] <= h[3]
      BY DEF Bounded
    <3>1. e.grant[2] \in Nat /\ e.grant[2] <= consents
      BY <2>4, EntriesAre DEF Bounded
    <3> QED BY <1>1, <2>1, <2>4, <3>1 DEF Bounded
  <2> QED BY <1>1, <2>1, <2>3, <2>4
<1>5. CASE consents' = consents + 1 /\ live' = live
  <2>1. \A u \in Tenants : \A h \in live[u] : h[2] \in Nat /\ h[2] <= consents'
    <3> TAKE u \in Tenants
    <3> TAKE h \in live[u]
    <3>1. h \in Grants
      BY <1>1
    <3> QED BY <1>1, <1>5, <3>1, EntriesAre DEF LiveOnce
  <2>2. ASSUME NEW u \in Tenants, NEW e \in Saved, Bounded(u, e)
        PROVE  Bounded(u, e)'
    <3> SUFFICES ASSUME e # NoEntry, e.grant # NoGrant
                 PROVE  /\ e.grant[2] <= consents'
                        /\ \A h \in live'[u] : h[2] = e.grant[2] => e.grant[3] <= h[3]
      BY DEF Bounded
    <3>1. e.grant[2] \in Nat /\ e.grant[2] <= consents
      BY <2>2, EntriesAre DEF Bounded
    <3> QED BY <1>1, <1>5, <2>2, <3>1 DEF Bounded
  <2> QED BY <1>1, <1>5, <2>1, <2>2 DEF LiveOnce
<1> QED BY <1>2, <1>3, <1>4, <1>5 DEF GrantsMove

-----------------------------------------------------------------------------
(* One run takes a step.                                                   *)

Stays(q) ==
  /\ step'[q] = step[q] /\ script'[q] = script[q] /\ tenant'[q] = tenant[q]
  /\ entry'[q] = entry[q] /\ file'[q] = file[q] /\ token'[q] = token[q]

Shape ==
  /\ step' \in [Scripters -> Steps] /\ tenant' \in [Scripters -> Tenants]
  /\ entry' \in [Scripters -> Saved]
  /\ DOMAIN script' = Scripters /\ DOMAIN file' = Scripters /\ DOMAIN token' = Scripters

(* What a run knows after its step was known before, or is as old.         *)
RunKnows(r) ==
  /\ Bounded(tenant'[r], entry'[r])
  /\ step'[r] = "write" => \A t \in Tenants : Bounded(t, file'[r][t])

(* The others keep what they have.                                         *)
LEMMA OthersStay ==
  ASSUME TokenTypes, NEW q \in Scripters, Stays(q)
  PROVE  /\ RunTyped(q)' /\ (HoldsTheGrant(q)' <=> HoldsTheGrant(q)) /\ (MayUse(q)' <=> MayUse(q))
<1>1. RunTyped(q)
  BY DEF TokenTypes
<1>2. /\ step'[q] = step[q] /\ script'[q] = script[q] /\ tenant'[q] = tenant[q]
      /\ entry'[q] = entry[q] /\ file'[q] = file[q] /\ token'[q] = token[q]
  BY DEF Stays
<1>3. HoldsTheGrant(q)' <=> HoldsTheGrant(q)
  BY <1>2 DEF HoldsTheGrant
<1>4. HasEntry(q)' <=> HasEntry(q)
  BY <1>2 DEF HasEntry
<1> QED BY <1>1, <1>2, <1>3, <1>4 DEF RunTyped, MayUse

(* Types and bounds after the step of a run.                               *)
LEMMA RunMoves ==
  ASSUME TokenTypes, NothingFresher, NEW r, Shape, \A q \in Scripters \ {r} : Stays(q),
         r \in Scripters => RunTyped(r)' /\ (RunKnows(r) \/ RunBounded(r)'),
         clients' \in Nat, saved' \in [Tenants -> Saved], \A t \in Tenants : Bounded(t, saved'[t]),
         lost' \subseteq Tenants, live' \in [Tenants -> SUBSET Grants], GrantsMove
  PROVE  TokenTypes' /\ NothingFresher'
<1>1. /\ LiveOnce' /\ consents' \in Nat
      /\ \A t \in Tenants, e \in Saved : Bounded(t, e) => Bounded(t, e)'
  BY LiveMoves DEF NothingFresher
<1>2. TokenTypes'
  BY <1>1, OthersStay DEF TokenTypes, Shape
<1>3. \A t \in Tenants : Bounded(t, saved[t])'
  BY <1>1
<1>4. \A q \in Scripters : RunBounded(q)'
  <2> SUFFICES ASSUME NEW q \in Scripters, ~RunBounded(q)', NEW u, u = tenant'[q],
                      NEW e, e = entry'[q], NEW f, f = file'[q]
               PROVE  /\ Bounded(u, e)'
                      /\ step'[q] = "write" => \A t \in Tenants : Bounded(t, f[t])'
    BY DEF RunBounded, Bounded
  <2>1. /\ Bounded(u, e)
        /\ step'[q] = "write" => \A t \in Tenants : Bounded(t, f[t])
    BY DEF NothingFresher, RunBounded, RunKnows, Stays
  <2>2. u \in Tenants /\ e \in Saved
    BY DEF Shape
  <2>3. step'[q] = "write" => \A t \in Tenants : f[t] \in Saved
    BY <1>2 DEF TokenTypes, RunTyped
  <2> QED BY <1>1, <2>1, <2>2, <2>3
<1> QED BY <1>1, <1>2, <1>3, <1>4 DEF NothingFresher

(* A grant that is held stays what it is while the file and what the       *)
(* tenants accept stay, for the tenants that nothing is lost of; who asks  *)
(* has read the file.                                                      *)
LEMMA HeldStays ==
  ASSUME TokenIInv, NEW r, \A q \in Scripters \ {r} : Stays(q), lost \subseteq lost',
         \A t \in Tenants \ lost' : live[t] \subseteq live'[t] /\ saved'[t] \in {saved[t], NoEntry},
         r \in Scripters =>
           /\ tenant'[r] \in Tenants
           /\ HoldsTheGrant(r)' =>
                HoldsTheGrant(r) /\ entry'[r] = entry[r] /\ tenant'[r] = tenant[r]
           /\ HoldsTheGrant(r) /\ tenant[r] \in Rotating \ lost' /\ saved'[tenant[r]] # NoEntry =>
                HoldsTheGrant(r)' /\ tenant'[r] = tenant[r]
           /\ step'[r] = "ask" =>
                saved[tenant'[r]] # NoEntry /\ entry'[r] = saved[tenant'[r]]
  PROVE  HeldInv'
<1>1. /\ \A q \in Scripters : tenant[q] \in Tenants
      /\ HeldIsLive /\ HeldAlone /\ SavedIsGood /\ TokenTypes
  BY DEF TokenIInv, TokenTypes, RunTyped, HeldInv
<1>2. \A q \in Scripters \ {r} : /\ HoldsTheGrant(q)' <=> HoldsTheGrant(q)
                                 /\ MayUse(q)' <=> MayUse(q)
                                 /\ entry'[q] = entry[q] /\ tenant'[q] = tenant[q]
  BY <1>1, OthersStay DEF Stays
<1>3. \A q \in Scripters : Holds(q)' =>
        /\ HoldsTheGrant(q) /\ entry'[q] = entry[q] /\ tenant'[q] = tenant[q]
        /\ Holds(q) /\ tenant[q] \in Tenants \ lost'
  BY <1>1, <1>2 DEF Holds
<1>4. HeldIsLive'
  <2> SUFFICES ASSUME NEW q \in Scripters, Holds(q)'
               PROVE  Accepts(tenant[q], entry[q])'
    BY DEF HeldIsLive
  <2>1. Accepts(tenant[q], entry[q])
    BY <1>1, <1>3 DEF HeldIsLive
  <2> QED BY <1>3, <2>1 DEF Accepts
<1>5. HeldAlone'
  <2> SUFFICES ASSUME NEW q \in Scripters, Holds(q)', tenant'[q] \in Rotating
               PROVE  /\ saved'[tenant'[q]] # NoEntry => saved'[tenant'[q]].grant # entry'[q].grant
                      /\ \A p \in Scripters \ {q} :
                           tenant'[p] = tenant'[q] /\ MayUse(p)' => entry'[p].grant # entry'[q].grant
    BY DEF HeldAlone
  <2>1. /\ entry'[q] = entry[q] /\ tenant'[q] = tenant[q] /\ Holds(q)
        /\ saved'[tenant[q]] \in {saved[tenant[q]], NoEntry}
    BY <1>3
  <2>2. /\ saved[tenant[q]] # NoEntry => saved[tenant[q]].grant # entry[q].grant
        /\ \A p \in Scripters \ {q} :
             tenant[p] = tenant[q] /\ MayUse(p) => entry[p].grant # entry[q].grant
    BY <1>1, <2>1 DEF HeldAlone
  <2>3. ASSUME NEW p \in Scripters \ {q}, tenant'[p] = tenant'[q], MayUse(p)'
        PROVE  entry'[p].grant # entry'[q].grant
    <3>1. CASE p # r
      BY <1>2, <2>1, <2>2, <2>3, <3>1
    <3>2. CASE p = r /\ step'[r] = "ask"
      BY <2>1, <2>2, <2>3, <3>2
    <3>3. CASE p = r /\ HoldsTheGrant(r)'
      BY <2>1, <2>2, <2>3, <3>3 DEF MayUse
    <3> QED BY <2>3, <3>1, <3>2, <3>3 DEF MayUse
  <2> QED BY <2>1, <2>2, <2>3
<1>6. SavedIsGood'
  <2> SUFFICES ASSUME NEW t \in Tenants, t \notin lost', saved'[t] # NoEntry,
                      t \in Rotating => \A q \in Scripters : tenant'[q] = t => ~HoldsTheGrant(q)'
               PROVE  Accepts(t, saved[t])'
    BY DEF SavedIsGood
  <2>1. t \in Rotating => \A q \in Scripters : tenant[q] = t => ~HoldsTheGrant(q)
    BY <1>2
  <2>2. Accepts(t, saved[t])
    BY <1>1, <2>1 DEF SavedIsGood
  <2> QED BY <2>2 DEF Accepts
<1> QED BY <1>4, <1>5, <1>6 DEF HeldInv

(* A run ends, of itself or by an accident; where grants are replaced one  *)
(* that it held is lost.                                                   *)
LEMMA EndKeeps ==
  ASSUME TokenIInv, NEW r \in Scripters, Goes(r, "idle"), Forget(r),
         UNCHANGED <<clients, consents>>,
         \/ live' = live
         \/ \E t \in Tenants : /\ t \in Rotating => t \in lost'
                               /\ \E g \in live[t] : g \in Grants /\ Spend(t, g),
         \A t \in Tenants : saved'[t] \in {saved[t], NoEntry},
         DOMAIN saved' = Tenants, saved' = [t \in Tenants |-> saved'[t]],
         lost' \in SUBSET Tenants, lost \subseteq lost',
         HoldsTheGrant(r) /\ tenant[r] \in Rotating \ lost' => saved'[tenant[r]] = NoEntry
  PROVE  TokenIInv'
<1>1. /\ TokenTypes /\ NothingFresher /\ saved \in [Tenants -> Saved]
      /\ live \in [Tenants -> SUBSET Grants] /\ clients \in Nat /\ consents \in Nat
  BY DEF TokenIInv, TokenTypes
<1>2. AnyTenant \in Tenants
  BY GleanTokenAssumption DEF AnyTenant
<1>3. /\ step'[r] = "idle" /\ script'[r] = <<>> /\ entry'[r] = NoEntry /\ tenant'[r] = AnyTenant
      /\ \A q \in Scripters \ {r} : Stays(q)
  BY <1>1 DEF TokenTypes, Goes, Forget, Stays
<1>4. Shape
  BY <1>1, <1>2 DEF TokenTypes, Goes, Forget, Shape, Steps, Saved
<1>5. ~HoldsTheGrant(r)'
  BY <1>3 DEF HoldsTheGrant
<1>6. RunTyped(r)'
  BY <1>2, <1>3, <1>5 DEF RunTyped, Steps, Saved, HasEntry
<1>7. RunKnows(r)
  BY <1>3 DEF RunKnows, Bounded
<1>8. /\ live' \in [Tenants -> SUBSET Grants]
      /\ \A t \in Tenants \ lost' : live'[t] = live[t]
      /\ \/ \A t \in Tenants : live'[t] \subseteq live[t]
         \/ \E t \in Tenants : \E g \in live[t] : Spend(t, g)
  <2>1. CASE live' = live
    BY <1>1, <2>1
  <2>2. ASSUME NEW t \in Tenants, t \in Rotating => t \in lost', NEW g \in live[t], g \in Grants,
               Spend(t, g)
        PROVE  /\ live' \in [Tenants -> SUBSET Grants]
               /\ \A u \in Tenants \ lost' : live'[u] = live[u]
    BY <1>1, <2>2, NextGrantIs DEF Spend
  <2> QED BY <2>1, <2>2
<1>9. saved' \in [Tenants -> Saved] /\ \A t \in Tenants : Bounded(t, saved'[t])
  <2>1. \A t \in Tenants : saved'[t] \in Saved
    BY <1>1 DEF Saved
  <2>2. \A t \in Tenants : Bounded(t, saved'[t])
    BY <1>1 DEF NothingFresher, Bounded
  <2> QED BY <2>1, <2>2
<1>10. TokenTypes' /\ NothingFresher'
  BY <1>1, <1>3, <1>4, <1>6, <1>7, <1>8, <1>9, RunMoves DEF GrantsMove
<1>11. \A t \in Tenants \ lost' : live[t] \subseteq live'[t]
  BY <1>8
<1>12. HeldInv'
  BY <1>2, <1>3, <1>5, <1>11, HeldStays
<1> QED BY <1>10, <1>12 DEF TokenIInv

-----------------------------------------------------------------------------
(* The steps of a run that goes on.                                        *)

(* Only what is the run's own is written.                                  *)
LEMMA Frame ==
  ASSUME TokenTypes, NEW r \in Scripters,
         step' = step \/ \E x \in Steps : Goes(r, x),
         script' = script \/ \E x : script' = [script EXCEPT ![r] = x],
         tenant' = tenant \/ \E x \in Tenants : tenant' = [tenant EXCEPT ![r] = x],
         entry' = entry \/ \E x \in Saved : entry' = [entry EXCEPT ![r] = x],
         file' = file \/ \E x : file' = [file EXCEPT ![r] = x],
         token' = token \/ \E x : token' = [token EXCEPT ![r] = x]
  PROVE  Shape /\ \A q \in Scripters \ {r} : Stays(q)
<1>1. step' \in [Scripters -> Steps] /\ \A q \in Scripters \ {r} : step'[q] = step[q]
  BY DEF TokenTypes, Goes
<1>2. DOMAIN script' = Scripters /\ \A q \in Scripters \ {r} : script'[q] = script[q]
  BY DEF TokenTypes
<1>3. tenant' \in [Scripters -> Tenants] /\ \A q \in Scripters \ {r} : tenant'[q] = tenant[q]
  BY DEF TokenTypes
<1>4. entry' \in [Scripters -> Saved] /\ \A q \in Scripters \ {r} : entry'[q] = entry[q]
  BY DEF TokenTypes
<1>5. DOMAIN file' = Scripters /\ \A q \in Scripters \ {r} : file'[q] = file[q]
  BY DEF TokenTypes
<1>6. DOMAIN token' = Scripters /\ \A q \in Scripters \ {r} : token'[q] = token[q]
  BY DEF TokenTypes
<1> QED BY <1>1, <1>2, <1>3, <1>4, <1>5, <1>6 DEF Shape, Stays

(* A run that goes on by itself, and neither uses nor writes a grant.      *)
LEMMA GoesOn ==
  ASSUME TokenIInv, NEW r \in Scripters, Shape, \A q \in Scripters \ {r} : Stays(q),
         RunTyped(r)', RunKnows(r), clients' \in Nat,
         UNCHANGED <<live, consents, saved, lost>>,
         HoldsTheGrant(r)' => HoldsTheGrant(r) /\ entry'[r] = entry[r] /\ tenant'[r] = tenant[r],
         HoldsTheGrant(r) => HoldsTheGrant(r)' /\ tenant'[r] = tenant[r],
         step'[r] = "ask" => saved[tenant'[r]] # NoEntry /\ entry'[r] = saved[tenant'[r]]
  PROVE  TokenIInv'
<1>1. /\ TokenTypes /\ NothingFresher /\ saved' \in [Tenants -> Saved]
      /\ live' \in [Tenants -> SUBSET Grants] /\ live' = live /\ lost' = lost
      /\ tenant'[r] \in Tenants /\ lost' \subseteq Tenants
  BY DEF TokenIInv, TokenTypes, Shape
<1>2. \A t \in Tenants : Bounded(t, saved'[t]) /\ live'[t] \subseteq live[t]
  BY <1>1 DEF NothingFresher
<1>3. TokenTypes' /\ NothingFresher'
  BY <1>1, <1>2, RunMoves DEF GrantsMove
<1>4. HeldInv'
  BY <1>1, HeldStays
<1> QED BY <1>3, <1>4 DEF TokenIInv

(* What a login starts from.                                               *)
LEMMA StartLoginKeeps ==
  ASSUME TokenIInv, NEW r \in Scripters, NEW t \in Tenants, StartLogin(r, t)
  PROVE  TokenIInv'
<1>1. /\ TokenTypes /\ NothingFresher /\ RunTyped(r) /\ clients \in Nat /\ saved[t] \in Saved
  BY DEF TokenIInv, TokenTypes
<1>2. PICK e \in Entries :
        /\ entry' = [entry EXCEPT ![r] = e] /\ clients' \in Nat
        /\ e.grant = NoGrant \/ (saved[t] # NoEntry /\ e.grant = saved[t].grant)
  <2>1. CASE saved[t] # NoEntry /\ entry' = [entry EXCEPT ![r] = saved[t]] /\ clients' = clients
    BY <1>1, <2>1, EntriesAre
  <2>2. CASE /\ clients' = clients + 1
             /\ entry' = [entry EXCEPT ![r] =
                  Entry(clients + 1, IF saved[t] = NoEntry THEN NoGrant ELSE saved[t].grant)]
    <3> DEFINE g == IF saved[t] = NoEntry THEN NoGrant ELSE saved[t].grant
    <3>1. g \in Grants \cup {NoGrant} /\ (saved[t] # NoEntry => g = saved[t].grant)
          /\ (saved[t] = NoEntry => g = NoGrant)
      BY <1>1, EntriesAre
    <3> HIDE DEF g
    <3>2. Entry(clients + 1, g) \in Entries /\ Entry(clients + 1, g).grant = g
      BY <1>1, <3>1 DEF Entry, Entries
    <3>3. entry' = [entry EXCEPT ![r] = Entry(clients + 1, g)] /\ clients' \in Nat
      BY <1>1, <2>2 DEF g
    <3> QED BY <3>1, <3>2, <3>3
  <2> QED BY <2>1, <2>2 DEF StartLogin
<1>3. /\ Idle(r) /\ Goes(r, "consent") /\ script' = [script EXCEPT ![r] = <<"login">>]
      /\ tenant' = [tenant EXCEPT ![r] = t]
      /\ UNCHANGED <<live, consents, saved, file, token, lost>>
  BY DEF StartLogin
<1>4. /\ step'[r] = "consent" /\ script'[r] = <<"login">> /\ tenant'[r] = t /\ entry'[r] = e
      /\ e \in Saved
  BY <1>1, <1>2, <1>3 DEF TokenTypes, Goes, Saved
<1>5. Shape /\ \A q \in Scripters \ {r} : Stays(q)
  BY <1>1, <1>2, <1>3, <1>4, Frame DEF Steps
<1>6. ~HoldsTheGrant(r) /\ ~HoldsTheGrant(r)'
  BY <1>3, <1>4 DEF HoldsTheGrant, Idle
<1>7. RunTyped(r)'
  BY <1>2, <1>4, <1>6, EntriesAre DEF RunTyped, Steps, HasEntry
<1>8. RunKnows(r)
  BY <1>1, <1>2, <1>4 DEF NothingFresher, RunKnows, Bounded
<1> QED BY <1>2, <1>3, <1>4, <1>5, <1>6, <1>7, <1>8, GoesOn

(* glean-refresh reads the file.                                           *)
LEMMA StartRefreshKeeps ==
  ASSUME TokenIInv, NEW r \in Scripters, NEW t \in Tenants, StartRefresh(r, t)
  PROVE  TokenIInv'
<1>1. /\ TokenTypes /\ NothingFresher /\ RunTyped(r) /\ clients \in Nat /\ saved[t] \in Saved
  BY DEF TokenIInv, TokenTypes
<1>2. /\ Idle(r) /\ saved[t] # NoEntry /\ saved[t].grant # NoGrant
      /\ Goes(r, "ask") /\ script' = [script EXCEPT ![r] = <<"refresh">>]
      /\ tenant' = [tenant EXCEPT ![r] = t] /\ entry' = [entry EXCEPT ![r] = saved[t]]
      /\ UNCHANGED <<live, clients, consents, saved, file, token, lost>>
  BY DEF StartRefresh, tenantState
<1>3. /\ step'[r] = "ask" /\ script'[r] = <<"refresh">> /\ tenant'[r] = t /\ entry'[r] = saved[t]
  BY <1>1, <1>2 DEF TokenTypes, Goes
<1>4. Shape /\ \A q \in Scripters \ {r} : Stays(q)
  BY <1>1, <1>2, Frame DEF Steps
<1>5. ~HoldsTheGrant(r) /\ ~HoldsTheGrant(r)' /\ <<"refresh">> # <<"login">>
  BY <1>2, <1>3 DEF HoldsTheGrant, Idle
<1>6. RunTyped(r)'
  BY <1>1, <1>2, <1>3, <1>5 DEF RunTyped, Steps, HasEntry
<1>7. RunKnows(r)
  BY <1>1, <1>3 DEF NothingFresher, RunKnows
<1> QED BY <1>1, <1>2, <1>3, <1>4, <1>5, <1>6, <1>7, GoesOn

(* What is left of the sources.                                            *)
LEMMA SourcesLeft ==
  ASSUME NEW s \in Seq(Editors), NEW k \in {"sources", "forced"}, NEW w, w = <<k>> \o s
  PROVE  /\ Tail(w) = s /\ w[1] = k /\ w # <<"login">> /\ w # <<"refresh">>
         /\ s # <<>> => /\ Head(s) \in Editors /\ Tail(s) \in Seq(Editors)
                        /\ Len(Tail(s)) = Len(s) - 1
<1>1. Len(w) = Len(s) + 1 /\ w[1] = k
  OBVIOUS
<1>2. w # <<"login">> /\ w # <<"refresh">>
  <2>1. <<"login">>[1] = "login" /\ <<"refresh">>[1] = "refresh"
    OBVIOUS
  <2>2. w[1] # <<"login">>[1] /\ w[1] # <<"refresh">>[1]
    BY <1>1, <2>1
  <2> QED BY <2>2
<1>3. Tail(w) = s
  <2>1. w \in Seq({"sources", "forced"} \cup Editors) /\ w # <<>>
    OBVIOUS
  <2>2. Len(Tail(w)) = Len(s) /\ \A i \in 1..Len(s) : Tail(w)[i] = s[i]
    BY <1>1, <2>1
  <2>3. Tail(w) \in Seq({"sources", "forced"} \cup Editors)
    BY <2>1
  <2> QED BY <2>2, <2>3
<1> QED BY <1>1, <1>2, <1>3

(* One source under a run's tag.                                           *)
LEMMA OneLeft ==
  ASSUME NEW S, NEW s \in Seq(S), s # <<>>, Len(s) <= 1, NEW k
  PROVE  <<k>> \o s = <<k, Head(s)>>
<1>1. Len(s) = 1
  <2>1. Len(s) \in Nat /\ Len(s) # 0
    OBVIOUS
  <2> QED BY <2>1
<1> DEFINE T == {k} \cup S
           w == <<k>> \o s
           v == <<k, Head(s)>>
<1>2. w \in Seq(T) /\ Len(w) = 2 /\ w[1] = k /\ w[2] = s[1]
  <2>1. <<k>> \in Seq(T) /\ s \in Seq(T)
    OBVIOUS
  <2> HIDE DEF T
  <2>2. w \in Seq(T)
    BY <2>1
  <2>3. Len(w) = Len(s) + 1
    OBVIOUS
  <2>4. w[1] = k
    OBVIOUS
  <2>5. w[2] = s[1]
    BY <1>1
  <2> QED BY <1>1, <2>2, <2>3, <2>4, <2>5
<1>3. v \in Seq(T) /\ Len(v) = 2 /\ v[1] = k /\ v[2] = s[1]
  BY <1>1
<1> HIDE DEF T, w, v
<1>4. \A i \in 1..2 : w[i] = v[i]
  <2>1. \A i \in 1..2 : i = 1 \/ i = 2
    OBVIOUS
  <2> QED BY <1>2, <1>3, <2>1, Zenon
<1>5. w = v
  BY <1>2, <1>3, <1>4
<1> QED BY <1>5 DEF w, v

(* refresh-glean-token begins.                                             *)
LEMMA StartSourcesKeeps ==
  ASSUME TokenIInv, NEW r \in Scripters, NEW t \in Tenants, NEW s \in Candidates,
         StartSources(r, t, s)
  PROVE  TokenIInv'
<1>1. /\ TokenTypes /\ NothingFresher /\ RunTyped(r) /\ clients \in Nat
  BY DEF TokenIInv, TokenTypes
<1>2. /\ Idle(r) /\ Goes(r, "next") /\ script' = [script EXCEPT ![r] = s]
      /\ tenant' = [tenant EXCEPT ![r] = t]
      /\ UNCHANGED <<live, clients, consents, saved, entry, file, token, lost>>
  BY DEF StartSources, tenantState
<1>3. \E k \in {"sources", "forced"}, u \in Seq(Editors) :
        s = <<k>> \o u /\ (k = "forced" => Len(u) <= 1)
  <2>1. TokenSources \in Seq(Editors)
    BY DEF TokenSources, Editors
  <2>2. \A x \in ForcedSources :
          <<x>> \in Seq(Editors) /\ <<"forced", x>> = <<"forced">> \o <<x>> /\ Len(<<x>>) <= 1
    BY GleanTokenAssumption DEF Editors
  <2>3. CASE s = <<"sources">> \o TokenSources
    <3>1. "sources" # "forced"
      OBVIOUS
    <3> QED BY <2>1, <2>3, <3>1, Zenon
  <2>4. CASE s \in {<<"forced", x>> : x \in ForcedSources}
    <3>1. PICK x \in ForcedSources : s = <<"forced", x>>
      BY <2>4, Zenon
    <3>2. /\ <<x>> \in Seq(Editors) /\ s = <<"forced">> \o <<x>> /\ Len(<<x>>) <= 1
      BY <2>2, <3>1, Zenon
    <3> QED BY <3>2, Zenon
  <2>5. s \in {<<"sources">> \o TokenSources} \cup {<<"forced", x>> : x \in ForcedSources}
    BY Zenon DEF Candidates
  <2> HIDE DEF TokenSources
  <2>6. s = <<"sources">> \o TokenSources \/ s \in {<<"forced", x>> : x \in ForcedSources}
    BY <2>5, Zenon
  <2> QED BY <2>3, <2>4, <2>6, Zenon
<1>4. /\ step'[r] = "next" /\ script'[r] = s /\ tenant'[r] = t
      /\ entry'[r] = NoEntry
  BY <1>1, <1>2 DEF TokenTypes, Goes, RunTyped, Idle
<1>5. Shape /\ \A q \in Scripters \ {r} : Stays(q)
  BY <1>1, <1>2, Frame DEF Steps
<1>6. ~HoldsTheGrant(r) /\ ~HoldsTheGrant(r)'
  BY <1>2, <1>4 DEF HoldsTheGrant, Idle
<1>7. script'[r] # <<"login">> /\ script'[r] # <<"refresh">>
  BY <1>3, <1>4, SourcesLeft
<1>8. RunTyped(r)'
  BY <1>3, <1>4, <1>6, <1>7 DEF RunTyped, Steps, Saved, HasEntry
<1>9. RunKnows(r)
  BY <1>4 DEF RunKnows, Bounded
<1> QED BY <1>1, <1>2, <1>4, <1>5, <1>6, <1>8, <1>9, GoesOn

(* A source that gives nothing is skipped.                                 *)
LEMMA SkippedIs ==
  ASSUME TokenTypes, NEW r \in Scripters, Skipped(r), Left(r) # <<>>,
         NEW k \in {"sources", "forced"}, NEW s \in Seq(Editors), script[r] = <<k>> \o s,
         k = "forced" => Len(s) <= 1
  PROVE  \E u \in Seq(Editors) : script'[r] = <<k>> \o u /\ (k = "forced" => Len(u) <= 1)
<1>1. /\ Left(r) = s /\ script[r][1] = k
      /\ s # <<>> => Tail(s) \in Seq(Editors) /\ Len(Tail(s)) = Len(s) - 1
  BY SourcesLeft DEF Left
<1>2. script'[r] = <<script[r][1]>> \o Tail(Left(r))
  BY DEF TokenTypes, Skipped
<1>3. script'[r] = <<k>> \o Tail(s) /\ Tail(s) \in Seq(Editors)
  BY <1>1, <1>2
<1>4. k = "forced" => Len(Tail(s)) <= 1
  <2>1. Len(s) \in Nat /\ Len(Tail(s)) = Len(s) - 1
    BY <1>1
  <2> QED BY <2>1
<1> QED BY <1>3, <1>4, Zenon

(* The grant of the file is tried, or skipped.                             *)
LEMMA TryInRepoKeeps ==
  ASSUME TokenIInv, NEW r \in Scripters, TryInRepo(r)
  PROVE  TokenIInv'
<1>1. /\ TokenTypes /\ NothingFresher /\ RunTyped(r) /\ clients \in Nat /\ tenant[r] \in Tenants
      /\ saved[tenant[r]] \in Saved /\ RunBounded(r)
  BY DEF TokenIInv, TokenTypes, RunTyped, NothingFresher
<1>2. /\ step[r] = "next" /\ Left(r) # <<>>
      /\ UNCHANGED <<live, clients, consents, saved, tenant, file, token, lost>>
  BY DEF TryInRepo, tenantState
<1>3. PICK k \in {"sources", "forced"}, s \in Seq(Editors) :
        script[r] = <<k>> \o s /\ (k = "forced" => Len(s) <= 1)
  BY <1>1, <1>2 DEF RunTyped
<1>4. CASE saved[tenant[r]] # NoEntry /\ saved[tenant[r]].grant # NoGrant
  <2>1. /\ entry' = [entry EXCEPT ![r] = saved[tenant[r]]] /\ Goes(r, "ask") /\ script' = script
    BY <1>4 DEF TryInRepo
  <2>2. step'[r] = "ask" /\ entry'[r] = saved[tenant[r]] /\ script'[r] = script[r]
        /\ tenant'[r] = tenant[r]
    BY <1>1, <1>2, <2>1 DEF TokenTypes, Goes
  <2>3. Shape /\ \A q \in Scripters \ {r} : Stays(q)
    BY <1>1, <1>2, <2>1, Frame DEF Steps
  <2>4. script[r] # <<"login">> /\ script[r] # <<"refresh">> /\ s # <<>>
    BY <1>2, <1>3, SourcesLeft DEF Left
  <2>5. ~HoldsTheGrant(r) /\ ~HoldsTheGrant(r)'
    BY <1>2, <2>2, <2>4 DEF HoldsTheGrant
  <2>6. RunTyped(r)'
    BY <1>1, <1>3, <1>4, <2>2, <2>4, <2>5 DEF RunTyped, Steps, HasEntry
  <2>7. RunKnows(r)
    BY <1>1, <2>2 DEF NothingFresher, RunKnows
  <2> QED BY <1>1, <1>2, <1>4, <2>2, <2>3, <2>5, <2>6, <2>7, GoesOn
<1>5. CASE ~(saved[tenant[r]] # NoEntry /\ saved[tenant[r]].grant # NoGrant)
  <2>1. Skipped(r) /\ entry' = entry /\ step' = step
    BY <1>5 DEF TryInRepo
  <2>2. PICK u \in Seq(Editors) : script'[r] = <<k>> \o u /\ (k = "forced" => Len(u) <= 1)
    BY <1>1, <1>2, <1>3, <2>1, SkippedIs
  <2>3. Shape /\ \A q \in Scripters \ {r} : Stays(q)
    BY <1>1, <1>2, <2>1, Frame DEF Skipped
  <2>4. ~HoldsTheGrant(r) /\ ~HoldsTheGrant(r)'
    BY <1>2, <2>1 DEF HoldsTheGrant
  <2>5. RunTyped(r)'
    BY <1>1, <1>2, <2>1, <2>2, <2>4, SourcesLeft DEF RunTyped, HasEntry
  <2>6. RunKnows(r)
    BY <1>1, <1>2, <2>1 DEF RunKnows, RunBounded
  <2> QED BY <1>1, <1>2, <2>1, <2>3, <2>4, <2>5, <2>6, GoesOn
<1> QED BY <1>4, <1>5

(* Tokens come with their tenant, where they are from, and their age.      *)
LEMMA TokensAre ==
  ASSUME NEW t \in Tenants, NEW x \in Origins, NEW b \in BOOLEAN, NEW w, w = <<t, x, b>>
  PROVE  w \in Tokens /\ w[1] = t /\ w[2] = x /\ w[3] = b
<1>1. <<t, x, b>> \in Tokens
  BY Zenon DEF Tokens
<1>2. w \in Tokens
  BY <1>1, Zenon
<1>3. w[1] = t /\ w[2] = x /\ w[3] = b
  OBVIOUS
<1> QED BY <1>2, <1>3, Zenon

(* An editor's token is taken, or its store skipped.                       *)
LEMMA EditorKeeps ==
  ASSUME TokenIInv, NEW r \in Scripters, TryEditor(r) \/ EditorHasNone(r)
  PROVE  TokenIInv'
<1>1. /\ TokenTypes /\ NothingFresher /\ RunTyped(r) /\ clients \in Nat /\ tenant[r] \in Tenants
      /\ RunBounded(r)
  BY DEF TokenIInv, TokenTypes, RunTyped, NothingFresher
<1>2. /\ step[r] = "next" /\ Left(r) # <<>> /\ Head(Left(r)) # "in-repo"
      /\ UNCHANGED <<live, clients, consents, saved, tenant, entry, file, lost>>
  BY DEF TryEditor, EditorHasNone, tenantState
<1>3. PICK k \in {"sources", "forced"}, s \in Seq(Editors) :
        script[r] = <<k>> \o s /\ (k = "forced" => Len(s) <= 1)
  BY <1>1, <1>2 DEF RunTyped
<1>4. Left(r) = s /\ script[r][1] = k /\ s # <<>> /\ Head(s) \in {"cursor", "windsurf"}
  BY <1>2, <1>3, SourcesLeft DEF Left, Editors
<1>5. CASE EditorHasNone(r)
  <2>1. Skipped(r) /\ step' = step /\ token' = token
    BY <1>5 DEF EditorHasNone
  <2>2. PICK u \in Seq(Editors) : script'[r] = <<k>> \o u /\ (k = "forced" => Len(u) <= 1)
    BY <1>1, <1>2, <1>3, <2>1, SkippedIs
  <2>3. Shape /\ \A q \in Scripters \ {r} : Stays(q)
    BY <1>1, <1>2, <2>1, Frame DEF Skipped
  <2>4. ~HoldsTheGrant(r) /\ ~HoldsTheGrant(r)'
    BY <1>2, <2>1 DEF HoldsTheGrant
  <2>5. RunTyped(r)'
    BY <1>1, <1>2, <2>1, <2>2, <2>4, SourcesLeft DEF RunTyped, HasEntry
  <2>6. RunKnows(r)
    BY <1>1, <1>2, <2>1 DEF RunKnows, RunBounded
  <2> QED BY <1>1, <1>2, <2>1, <2>3, <2>4, <2>5, <2>6, GoesOn
<1>6. CASE TryEditor(r)
  <2>1. PICK expired \in BOOLEAN, t \in Tenants :
          /\ Head(s) = "cursor" => t = tenant[r]
          /\ Usable(r, expired)
          /\ token' = [token EXCEPT ![r] = <<t, Head(s), expired>>]
    BY <1>4, <1>6 DEF TryEditor
  <2>2. Goes(r, "env") /\ script' = script
    BY <1>6 DEF TryEditor
  <2>3. Shape /\ \A q \in Scripters \ {r} : Stays(q)
    BY <1>1, <1>2, <2>1, <2>2, Frame DEF Steps
  <2>4. /\ step'[r] = "env" /\ script'[r] = script[r] /\ entry'[r] = entry[r]
        /\ tenant'[r] = tenant[r] /\ token'[r] = <<t, Head(s), expired>>
    BY <1>1, <1>2, <2>1, <2>2 DEF TokenTypes, Goes
  <2>5. script[r] # <<"login">> /\ script[r] # <<"refresh">>
    BY <1>3, SourcesLeft
  <2>6. ~HoldsTheGrant(r) /\ ~HoldsTheGrant(r)'
    BY <1>2, <2>4, <2>5 DEF HoldsTheGrant
  <2>7. token'[r] \in Tokens /\ (token'[r][1] = tenant[r] \/ token'[r][2] = "windsurf")
        /\ token'[r][2] = Head(s) /\ token'[r][3] = expired
    <3>1. token'[r][1] = t /\ token'[r][2] = Head(s) /\ token'[r][3] = expired
      BY <2>4
    <3>2. t = tenant[r] \/ Head(s) = "windsurf"
      BY <1>4, <2>1
    <3>3. token'[r] \in Tokens
      <4>1. Head(s) \in Origins
        BY <1>4 DEF Origins
      <4> QED BY <2>4, <4>1, TokensAre
    <3> QED BY <3>1, <3>2, <3>3
  <2>8. expired => script[r] = <<"forced", Head(s)>>
    <3>1. ASSUME k = "forced" PROVE <<k>> \o s = <<"forced", Head(s)>>
      <4>1. s \in Seq(Editors) /\ s # <<>> /\ Len(s) <= 1
        BY <1>3, <1>4, <3>1
      <4>2. Head(s) \in Editors
        BY <1>4 DEF Editors
      <4> QED BY <3>1, <4>1, <4>2, OneLeft
    <3>2. expired => k = "forced"
      BY <1>4, <2>1 DEF Usable, Forced
    <3> QED BY <1>3, <3>1, <3>2
  <2>9. RunTyped(r)'
    BY <1>1, <2>4, <2>5, <2>6, <2>7, <2>8 DEF RunTyped, Steps, HasEntry
  <2>10. RunKnows(r)
    BY <1>1, <2>4 DEF RunKnows, RunBounded
  <2> QED BY <1>1, <1>2, <2>3, <2>4, <2>6, <2>9, <2>10, GoesOn
<1> QED BY <1>5, <1>6

(* The file is read once more before it is written.                        *)
LEMMA ReadAgainKeeps ==
  ASSUME TokenIInv, NEW r \in Scripters, ReadAgain(r)
  PROVE  TokenIInv'
<1>1. /\ TokenTypes /\ NothingFresher /\ RunTyped(r) /\ clients \in Nat /\ tenant[r] \in Tenants
      /\ RunBounded(r) /\ saved \in [Tenants -> Saved] /\ entry[r] \in Saved
  BY DEF TokenIInv, TokenTypes, RunTyped, NothingFresher
<1> DEFINE f == [saved EXCEPT ![tenant[r]] = entry[r]]
<1>2. /\ step[r] = "save" /\ Goes(r, "write") /\ file' = [file EXCEPT ![r] = f]
      /\ UNCHANGED <<live, clients, consents, saved, script, tenant, entry, token, lost>>
  BY DEF ReadAgain, tenantState
<1>3. f \in [Tenants -> Saved] /\ f[tenant[r]] = entry[r]
      /\ \A t \in Tenants : f[t] = saved[t] \/ (t = tenant[r] /\ f[t] = entry[r])
  BY <1>1
<1> HIDE DEF f
<1>4. /\ step'[r] = "write" /\ file'[r] = f /\ script'[r] = script[r] /\ entry'[r] = entry[r]
      /\ tenant'[r] = tenant[r] /\ token'[r] = token[r]
  BY <1>1, <1>2 DEF TokenTypes, Goes
<1>5. Shape /\ \A q \in Scripters \ {r} : Stays(q)
  BY <1>1, <1>2, Frame DEF Steps
<1>6. HoldsTheGrant(r)' <=> HoldsTheGrant(r)
  BY <1>2, <1>4 DEF HoldsTheGrant
<1>7. RunTyped(r)'
  BY <1>1, <1>2, <1>3, <1>4, <1>6 DEF RunTyped, Steps, HasEntry
<1>8. RunKnows(r)
  BY <1>1, <1>3, <1>4 DEF RunKnows, RunBounded, NothingFresher
<1> QED BY <1>1, <1>2, <1>4, <1>5, <1>6, <1>7, <1>8, GoesOn

(* A run that ends without an accident.                                    *)
LEMMA EndsKeep ==
  ASSUME TokenIInv, NEW r \in Scripters, Goes(r, "idle"), Forget(r), ~HoldsTheGrant(r),
         UNCHANGED <<tenantState, saved, lost>>
  PROVE  TokenIInv'
<1>1. /\ saved \in [Tenants -> Saved] /\ lost \in SUBSET Tenants
  BY DEF TokenIInv, TokenTypes
<1>2. /\ UNCHANGED <<clients, consents>> /\ live' = live /\ saved' = saved /\ lost' = lost
  BY DEF tenantState
<1>3. DOMAIN saved' = Tenants /\ saved' = [t \in Tenants |-> saved'[t]]
  BY <1>1, <1>2
<1>4. /\ \A t \in Tenants : saved'[t] = saved[t]
      /\ lost' \in SUBSET Tenants /\ lost \subseteq lost'
  BY <1>1, <1>2
<1> QED BY <1>2, <1>3, <1>4, EndKeeps

(* The token goes to .env.                                                 *)
LEMMA WriteEnvKeeps ==
  ASSUME TokenIInv, NEW r \in Scripters, WriteEnv(r)
  PROVE  TokenIInv'
<1>1. /\ TokenTypes /\ NothingFresher /\ RunTyped(r) /\ clients \in Nat /\ tenant[r] \in Tenants
      /\ RunBounded(r)
  BY DEF TokenIInv, TokenTypes, RunTyped, NothingFresher
<1>2. step[r] = "env" /\ UNCHANGED <<tenantState, saved, lost>>
  BY DEF WriteEnv
<1>3. CASE script[r] \in {<<"login">>, <<"refresh">>}
  <2>1. Goes(r, "save") /\ UNCHANGED <<script, tenant, entry, file, token>>
    BY <1>3 DEF WriteEnv
  <2>2. /\ step'[r] = "save" /\ script'[r] = script[r] /\ entry'[r] = entry[r]
        /\ tenant'[r] = tenant[r] /\ token'[r] = token[r]
    BY <1>1, <2>1 DEF TokenTypes, Goes
  <2>3. Shape /\ \A q \in Scripters \ {r} : Stays(q)
    BY <1>1, <2>1, Frame DEF Steps
  <2>4. HoldsTheGrant(r)' <=> HoldsTheGrant(r)
    BY <1>2, <1>3, <2>2 DEF HoldsTheGrant
  <2>5. RunTyped(r)'
    BY <1>1, <1>2, <1>3, <2>2, <2>4 DEF RunTyped, Steps, HasEntry
  <2>6. RunKnows(r)
    BY <1>1, <2>2 DEF RunKnows, RunBounded
  <2> QED BY <1>1, <1>2, <2>2, <2>3, <2>4, <2>5, <2>6, GoesOn DEF tenantState
<1>4. CASE script[r] \notin {<<"login">>, <<"refresh">>}
  <2>1. Goes(r, "idle") /\ Forget(r)
    BY <1>4 DEF WriteEnv
  <2>2. ~HoldsTheGrant(r)
    BY <1>2, <1>4 DEF HoldsTheGrant
  <2> QED BY <1>2, <2>1, <2>2, EndsKeep
<1> QED BY <1>3, <1>4

(* A grant is refused, or its answer is lost, and the run goes on to its   *)
(* next source.                                                            *)
LEMMA NextSource ==
  ASSUME TokenIInv, NEW r \in Scripters, step[r] = "ask", script[r] # <<"refresh">>, Refusal(r)
  PROVE  /\ Shape /\ (\A q \in Scripters \ {r} : Stays(q)) /\ RunTyped(r)' /\ RunKnows(r)
         /\ tenant'[r] = tenant[r] /\ step'[r] = "next"
         /\ ~HoldsTheGrant(r) /\ ~HoldsTheGrant(r)'
<1>1. /\ TokenTypes /\ RunTyped(r) /\ tenant[r] \in Tenants
  BY DEF TokenIInv, TokenTypes, RunTyped
<1>2. PICK k \in {"sources", "forced"}, s \in Seq(Editors) :
        script[r] = <<k>> \o s /\ (k = "forced" => Len(s) <= 1) /\ s # <<>>
  BY <1>1 DEF RunTyped
<1>3. /\ Skipped(r) /\ Goes(r, "next") /\ entry' = [entry EXCEPT ![r] = NoEntry]
      /\ UNCHANGED <<tenant, file, token>>
  BY DEF Refusal
<1>4. script[r] # <<"login">>
  BY <1>2, SourcesLeft
<1>5. PICK u \in Seq(Editors) : script'[r] = <<k>> \o u /\ (k = "forced" => Len(u) <= 1)
  <2>1. Left(r) = s
    BY <1>2, SourcesLeft DEF Left
  <2> QED BY <1>1, <1>2, <1>3, <2>1, SkippedIs
<1>6. step'[r] = "next" /\ entry'[r] = NoEntry /\ tenant'[r] = tenant[r]
  BY <1>1, <1>3 DEF TokenTypes, Goes
<1>7. Shape /\ \A q \in Scripters \ {r} : Stays(q)
  BY <1>1, <1>3, Frame DEF Skipped, Steps, Saved
<1>8. ~HoldsTheGrant(r) /\ ~HoldsTheGrant(r)'
  BY <1>6 DEF HoldsTheGrant
<1>9. RunTyped(r)'
  BY <1>1, <1>5, <1>6, <1>8, SourcesLeft DEF RunTyped, Steps, Saved, HasEntry
<1>10. RunKnows(r)
  BY <1>6 DEF RunKnows, Bounded
<1> QED BY <1>6, <1>7, <1>8, <1>9, <1>10

(* No source is left.                                                      *)
LEMMA NoneFoundKeeps ==
  ASSUME TokenIInv, NEW r \in Scripters, NoneFound(r)
  PROVE  TokenIInv'
<1>1. ~HoldsTheGrant(r)
  BY DEF NoneFound, HoldsTheGrant
<1> QED BY <1>1, EndsKeep DEF NoneFound

(* The tenant refuses.                                                     *)
LEMMA RefusedKeeps ==
  ASSUME TokenIInv, NEW r \in Scripters, Refused(r)
  PROVE  TokenIInv'
<1>1. step[r] = "ask" /\ Refusal(r) /\ UNCHANGED <<tenantState, saved, lost>> /\ clients \in Nat
  BY DEF Refused, TokenIInv, TokenTypes
<1>2. CASE script[r] = <<"refresh">>
  <2>1. Goes(r, "idle") /\ Forget(r) /\ ~HoldsTheGrant(r)
    BY <1>1, <1>2 DEF Refusal, HoldsTheGrant
  <2> QED BY <1>1, <2>1, EndsKeep
<1>3. CASE script[r] # <<"refresh">>
  BY <1>1, <1>3, NextSource, GoesOn DEF tenantState
<1> QED BY <1>2, <1>3

-----------------------------------------------------------------------------
(* Accidents.                                                              *)

(* The grant is spent and the answer lost.                                 *)
LEMMA AnswerLostKeeps ==
  ASSUME TokenIInv, NEW r \in Scripters, AnswerLost(r)
  PROVE  TokenIInv'
<1> DEFINE t == tenant[r]
           g == entry[r].grant
<1>1. /\ TokenTypes /\ NothingFresher /\ live \in [Tenants -> SUBSET Grants] /\ t \in Tenants
      /\ saved \in [Tenants -> Saved] /\ lost \subseteq Tenants /\ clients \in Nat
  BY DEF TokenIInv, TokenTypes, RunTyped
<1>2. /\ step[r] = "ask" /\ Spend(t, g) /\ Refusal(r) /\ UNCHANGED <<clients, consents, saved>>
      /\ lost' = IF t \in Rotating THEN lost \cup {t} ELSE lost
      /\ g \in live[t]
  BY DEF AnswerLost, Accepts
<1> HIDE DEF t, g
<1>3. /\ lost' \in SUBSET Tenants /\ lost \subseteq lost' /\ (t \in Rotating => t \in lost')
  BY <1>1, <1>2
<1>4. g \in Grants
  BY <1>1, <1>2
<1>5. /\ live' \in [Tenants -> SUBSET Grants]
      /\ \A u \in Tenants \ lost' : live[u] \subseteq live'[u]
  BY <1>1, <1>2, <1>3, <1>4, NextGrantIs DEF Spend
<1>6. CASE script[r] = <<"refresh">>
  <2>1. Goes(r, "idle") /\ Forget(r) /\ ~HoldsTheGrant(r)
    BY <1>2, <1>6 DEF Refusal, HoldsTheGrant
  <2>2. DOMAIN saved' = Tenants /\ saved' = [u \in Tenants |-> saved'[u]]
    BY <1>1, <1>2
  <2>3. \A u \in Tenants : saved'[u] \in {saved[u], NoEntry}
    BY <1>2
  <2> QED BY <1>1, <1>2, <1>3, <1>4, <2>1, <2>2, <2>3, EndKeeps
<1>7. CASE script[r] # <<"refresh">>
  <2>1. /\ Shape /\ (\A q \in Scripters \ {r} : Stays(q)) /\ RunTyped(r)' /\ RunKnows(r)
        /\ tenant'[r] = t /\ step'[r] = "next"
        /\ ~HoldsTheGrant(r) /\ ~HoldsTheGrant(r)'
    BY <1>2, <1>7, NextSource DEF t
  <2>2. TokenTypes' /\ NothingFresher'
    <3>1. \A u \in Tenants : Bounded(u, saved'[u])
      BY <1>1, <1>2 DEF NothingFresher
    <3>2. GrantsMove
      BY <1>1, <1>2 DEF GrantsMove
    <3> QED BY <1>1, <1>2, <1>3, <1>5, <2>1, <3>1, <3>2, RunMoves
  <2>3. HeldInv'
    BY <1>1, <1>2, <1>3, <1>5, <2>1, HeldStays
  <2> QED BY <2>2, <2>3 DEF TokenIInv
<1> QED BY <1>6, <1>7

(* A run dies.                                                             *)
LEMMA DiesKeeps ==
  ASSUME TokenIInv, NEW r \in Scripters, Dies(r) \/ DiesWriting(r)
  PROVE  TokenIInv'
<1>1. /\ saved \in [Tenants -> Saved] /\ lost \subseteq Tenants /\ tenant[r] \in Tenants
  BY DEF TokenIInv, TokenTypes
<1>2. /\ Goes(r, "idle") /\ Forget(r) /\ live' = live /\ UNCHANGED <<clients, consents>>
  BY DEF Dies, DiesWriting, tenantState
<1>3. CASE Dies(r)
  <2>1. /\ saved' = saved
        /\ lost' = IF HoldsTheGrant(r) /\ tenant[r] \in Rotating THEN lost \cup {tenant[r]} ELSE lost
    BY <1>3 DEF Dies
  <2>2. DOMAIN saved' = Tenants /\ saved' = [u \in Tenants |-> saved'[u]]
    BY <1>1, <2>1
  <2>3. /\ lost' \in SUBSET Tenants /\ lost \subseteq lost'
        /\ \A u \in Tenants : saved'[u] \in {saved[u], NoEntry}
        /\ ~(HoldsTheGrant(r) /\ tenant[r] \in Rotating \ lost')
    BY <1>1, <2>1
  <2> QED BY <1>2, <2>2, <2>3, EndKeeps
<1>4. CASE DiesWriting(r)
  <2>1. /\ saved' = [u \in Tenants |-> NoEntry]
        /\ lost' = lost \cup {u \in Tenants : saved[u] # NoEntry}
    BY <1>4 DEF DiesWriting
  <2>2. DOMAIN saved' = Tenants /\ saved' = [u \in Tenants |-> saved'[u]]
    BY <2>1
  <2>3. /\ lost' \in SUBSET Tenants /\ lost \subseteq lost'
        /\ \A u \in Tenants : saved'[u] \in {saved[u], NoEntry}
        /\ saved'[tenant[r]] = NoEntry
    BY <1>1, <2>1
  <2> QED BY <1>2, <2>2, <2>3, EndKeeps
<1> QED BY <1>3, <1>4

(* Some step is nobody's.                                                  *)
LEMMA SomebodyElse == \E r : r \notin Scripters
<1> DEFINE R == {x \in Scripters : x \notin x}
<1>1. R \notin Scripters
  OBVIOUS
<1> QED BY <1>1

(* The tenant's grants are revoked.                                        *)
LEMMA RevokedKeeps ==
  ASSUME TokenIInv, NEW t \in Tenants, Revoked(t)
  PROVE  TokenIInv'
<1>1. /\ TokenTypes /\ NothingFresher /\ live \in [Tenants -> SUBSET Grants]
      /\ saved \in [Tenants -> Saved] /\ lost \subseteq Tenants /\ clients \in Nat
  BY DEF TokenIInv, TokenTypes
<1>2. /\ live' = [live EXCEPT ![t] = {}] /\ lost' = lost \cup {t}
      /\ UNCHANGED <<clients, consents, saved, step, script, tenant, entry, file, token>>
  BY DEF Revoked, runState
<1>3. PICK r : r \notin Scripters
  BY SomebodyElse
<1>4. Shape /\ \A q \in Scripters \ {r} : Stays(q)
  BY <1>1, <1>2 DEF TokenTypes, Shape, Stays
<1>5. /\ live' \in [Tenants -> SUBSET Grants] /\ lost' \subseteq Tenants
      /\ \A u \in Tenants : live'[u] \subseteq live[u]
      /\ \A u \in Tenants \ lost' : live[u] \subseteq live'[u]
  BY <1>1, <1>2
<1>6. TokenTypes' /\ NothingFresher'
  <2>1. GrantsMove
    BY <1>2, <1>5 DEF GrantsMove
  <2>2. \A u \in Tenants : Bounded(u, saved'[u])
    BY <1>1, <1>2 DEF NothingFresher
  <2> QED BY <1>1, <1>2, <1>3, <1>4, <1>5, <2>1, <2>2, RunMoves
<1>7. HeldInv'
  BY <1>2, <1>3, <1>4, <1>5, HeldStays
<1> QED BY <1>6, <1>7 DEF TokenIInv

-----------------------------------------------------------------------------
(* The steps at which a run comes by a grant.                              *)

(* The one grant of a consent that is accepted bounds those that are known. *)
LEMMA AcceptedBounds ==
  ASSUME TokenTypes, LiveOnce', live' \in [Tenants -> SUBSET Grants],
         NEW t \in Tenants, NEW e, e.grant \in live'[t]
  PROVE  Bounded(t, e)'
<1>1. e.grant \in Grants
  OBVIOUS
<1>2. e.grant[2] <= consents' /\ \A h \in live'[t] : h[2] = e.grant[2] => h = e.grant
  BY DEF LiveOnce
<1>3. \A h \in live'[t] : h[2] = e.grant[2] => e.grant[3] <= h[3]
  BY <1>1, <1>2, EntriesAre
<1> QED BY <1>2, <1>3 DEF Bounded

(* A person agrees.                                                        *)
LEMMA ConsentKeeps ==
  ASSUME TokenIInv, NEW r \in Scripters, Consent(r)
  PROVE  TokenIInv'
<1> DEFINE t == tenant[r]
           fresh == <<entry[r].client, consents + 1, 0>>
<1>1. /\ TokenTypes /\ NothingFresher /\ RunTyped(r) /\ RunBounded(r)
      /\ live \in [Tenants -> SUBSET Grants] /\ t \in Tenants /\ consents \in Nat
      /\ saved \in [Tenants -> Saved] /\ lost \subseteq Tenants /\ clients \in Nat
  BY DEF TokenIInv, TokenTypes, RunTyped, NothingFresher
<1>2. /\ step[r] = "consent" /\ consents' = consents + 1 /\ Goes(r, "env")
      /\ UNCHANGED <<clients, saved, script, tenant, file, lost>>
  BY DEF Consent
<1>3. script[r] = <<"login">> /\ entry[r] \in Entries
  BY <1>1, <1>2, EntriesAre DEF RunTyped, HasEntry
<1>4. PICK h \in Grants \cup {NoGrant}, from \in {"consent", "consent without a grant"},
               old \in BOOLEAN :
        /\ ~old /\ entry' = [entry EXCEPT ![r] = Entry(entry[r].client, h)]
        /\ token' = [token EXCEPT ![r] = <<t, from, old>>]
        /\ \/ /\ h = fresh /\ fresh \in Grants
              /\ live' = [live EXCEPT ![t] = @ \cup {fresh}]
           \/ /\ h = entry[r].grant /\ live' = live /\ from # "consent"
  <2>1. fresh \in Grants
    BY <1>1, <1>3, EntriesAre DEF Grants
  <2>2. entry[r].grant \in Grants \cup {NoGrant}
    BY <1>3, EntriesAre
  <2> QED BY <2>1, <2>2 DEF Consent, SavedByLogin
<1> DEFINE e == Entry(entry[r].client, h)
<1>5. e \in Entries /\ e.grant = h /\ e.client = entry[r].client
  BY <1>3, <1>4, EntriesAre DEF Entry, Entries
<1> HIDE DEF e, t
<1>6. /\ step'[r] = "env" /\ script'[r] = <<"login">> /\ entry'[r] = e /\ tenant'[r] = t
      /\ token'[r] = <<t, from, old>>
  BY <1>1, <1>2, <1>3, <1>4 DEF TokenTypes, Goes, e, t
<1>7. Shape /\ \A q \in Scripters \ {r} : Stays(q)
  <2>1. entry' = [entry EXCEPT ![r] = e] /\ e \in Saved
    BY <1>4, <1>5 DEF e, Saved
  <2> QED BY <1>1, <1>2, <1>4, <2>1, Frame DEF Steps
<1>8. ~HoldsTheGrant(r) /\ ~HoldsTheGrant(r)'
  BY <1>3, <1>6 DEF HoldsTheGrant
<1>9. RunTyped(r)'
  <2>1. token'[r] \in Tokens /\ token'[r][1] = t /\ token'[r][2] = from /\ ~token'[r][3]
    <3>1. ASSUME NEW u \in Tenants, NEW w, w = <<u, from, old>>
          PROVE  w \in Tokens /\ w[1] = u /\ w[2] = from /\ w[3] = old
      <4>1. from \in Origins
        BY DEF Origins
      <4> QED BY <3>1, <4>1, TokensAre
    <3>2. token'[r] = <<t, from, old>> /\ ~old
      BY <1>4, <1>6, Zenon
    <3> QED BY <1>1, <3>1, <3>2, Zenon
  <2>2. from = "consent" => e.grant # NoGrant /\ e.grant[1] = e.client
    <3>1. fresh[1] = entry[r].client
      OBVIOUS
    <3> QED BY <1>4, <1>5, <3>1, EntriesAre
  <2>3. e \in Saved /\ e # NoEntry
    BY <1>5, EntriesAre DEF Saved
  <2> QED BY <1>1, <1>6, <1>8, <2>1, <2>2, <2>3 DEF RunTyped, Steps, HasEntry
<1>10. /\ live' \in [Tenants -> SUBSET Grants] /\ GrantsMove
       /\ \A u \in Tenants : live[u] \subseteq live'[u]
  <2>1. fresh[2] = consents + 1
    OBVIOUS
  <2> HIDE DEF fresh, t
  <2>2. CASE live' = live
    <3>1. GrantsMove
      BY <1>2, <2>2 DEF GrantsMove
    <3> QED BY <1>1, <2>2, <3>1
  <2>3. CASE fresh \in Grants /\ live' = [live EXCEPT ![t] = @ \cup {fresh}]
    <3>1. GrantsMove
      <4>1. NewConsent(t, fresh)
        BY <1>2, <2>1, <2>3 DEF NewConsent
      <4> QED BY <1>1, <2>3, <4>1 DEF GrantsMove
    <3>2. live' \in [Tenants -> SUBSET Grants]
      BY <1>1, <2>3
    <3>3. \A u \in Tenants : live[u] \subseteq live'[u]
      BY <1>1, <2>3
    <3> QED BY <3>1, <3>2, <3>3
  <2> QED BY <1>4, <2>2, <2>3
<1>11. RunKnows(r) \/ RunBounded(r)'
  <2>1. CASE h = fresh /\ fresh \in Grants /\ live' = [live EXCEPT ![t] = @ \cup {fresh}]
    <3>1. LiveOnce'
      BY <1>1, <1>10, LiveMoves DEF NothingFresher
    <3>2. h \in live'[t]
      BY <1>1, <2>1
    <3>3. SUFFICES ASSUME NEW u, u = tenant'[r], NEW x, x = entry'[r]
                   PROVE  Bounded(u, x)'
      BY <1>6 DEF RunBounded, Bounded
    <3> QED BY <1>1, <1>5, <1>6, <1>10, <3>1, <3>2, <3>3, AcceptedBounds
  <2>2. CASE h = entry[r].grant
    BY <1>1, <1>3, <1>5, <1>6, <2>2, EntriesAre DEF RunKnows, RunBounded, Bounded, t
  <2> QED BY <1>4, <2>1, <2>2
<1>12. TokenTypes' /\ NothingFresher'
  <2>1. \A u \in Tenants : Bounded(u, saved'[u])
    BY <1>1, <1>2 DEF NothingFresher
  <2> QED BY <1>1, <1>2, <1>7, <1>9, <1>10, <1>11, <2>1, RunMoves
<1>13. HeldInv'
  BY <1>1, <1>2, <1>6, <1>7, <1>8, <1>10, HeldStays
<1> QED BY <1>12, <1>13 DEF TokenIInv

(* Who holds or asks has an entry with a grant.                            *)
LEMMA UsersHaveGrants ==
  ASSUME TokenTypes, NEW q \in Scripters, MayUse(q)
  PROVE  entry[q] # NoEntry /\ entry[q].grant \in Grants
<1>1. RunTyped(q) /\ entry[q] \in Saved
  BY DEF TokenTypes
<1>2. entry[q] # NoEntry /\ entry[q].grant # NoGrant
  BY <1>1 DEF RunTyped, HasEntry, MayUse, HoldsTheGrant
<1> QED BY <1>1, <1>2, EntriesAre

(* The tenant answers.  Where it replaces the grant nobody has the next    *)
(* one yet, for what is known is not fresher than the one that was spent.  *)
LEMMA AskKeeps ==
  ASSUME TokenIInv, NEW r \in Scripters, Ask(r)
  PROVE  TokenIInv'
<1> DEFINE g == entry[r].grant
           n == NextGrant(tenant[r], g)
           e == [entry[r] EXCEPT !.grant = n]
<1>1. /\ TokenTypes /\ NothingFresher /\ RunTyped(r) /\ RunBounded(r)
      /\ live \in [Tenants -> SUBSET Grants] /\ consents \in Nat
      /\ saved \in [Tenants -> Saved] /\ lost \subseteq Tenants /\ clients \in Nat
      /\ HeldIsLive /\ HeldAlone /\ SavedIsGood /\ \A q \in Scripters : tenant[q] \in Tenants
  BY DEF TokenIInv, TokenTypes, RunTyped, NothingFresher, HeldInv
<1> DEFINE after == IF script[r] = <<"refresh">> THEN "env" ELSE "save"
<1>2. /\ step[r] = "ask" /\ Spend(tenant[r], g) /\ Goes(r, after)
      /\ g \in live[tenant[r]] /\ g[1] = entry[r].client
      /\ entry' = [entry EXCEPT ![r] = e]
      /\ UNCHANGED <<clients, consents, saved, script, tenant, file, lost>>
  BY DEF Ask, Accepts, SavedByRefresh
<1>3. PICK t \in Tenants, old \in BOOLEAN :
        t = tenant[r] /\ ~old /\ token' = [token EXCEPT ![r] = <<t, "grant", old>>]
  BY <1>1 DEF Ask
<1>4. entry[r] \in Entries /\ g \in Grants
  BY <1>1, <1>2, EntriesAre DEF RunTyped, HasEntry
<1>5. /\ n \in Grants /\ n[1] = g[1] /\ n[2] = g[2] /\ n[3] \in Nat /\ g[3] \in Nat
      /\ t \in Rotating => n[3] = g[3] + 1
      /\ t \notin Rotating => n = g
  BY <1>3, <1>4, NextGrantIs, EntriesAre
<1>6. /\ live'[t] = (live[t] \ {g}) \cup {n}
      /\ \A u \in Tenants : u # t => live'[u] = live[u]
      /\ live' \in [Tenants -> SUBSET Grants]
  BY <1>1, <1>2, <1>3, <1>5 DEF Spend
<1>7. e \in Entries /\ e.grant = n /\ e.client = entry[r].client
  BY <1>4, <1>5 DEF Entries
<1>8. /\ step'[r] = after /\ script'[r] = script[r] /\ entry'[r] = e /\ tenant'[r] = t
      /\ token'[r] = <<t, "grant", old>>
  BY <1>1, <1>2, <1>3 DEF TokenTypes, Goes
<1>9. Shape /\ \A q \in Scripters \ {r} : Stays(q)
  <2>1. entry' = [entry EXCEPT ![r] = e] /\ e \in Saved
    BY <1>2, <1>7 DEF Saved
  <2> HIDE DEF e
  <2> QED BY <1>1, <1>2, <1>3, <2>1, Frame DEF Steps
<1>10. after \in {"env", "save"} /\ (after = "env" <=> script[r] = <<"refresh">>)
  OBVIOUS
<1> HIDE DEF g, n, e, after
<1>11. script[r] # <<"login">> /\ HoldsTheGrant(r)' /\ ~HoldsTheGrant(r)
  BY <1>1, <1>2, <1>8, <1>10 DEF RunTyped, HoldsTheGrant
<1>12. RunTyped(r)'
  <2>1. ASSUME NEW w, w = <<t, "grant", old>>
        PROVE  w \in Tokens /\ w[1] = t /\ w[2] = "grant" /\ w[3] = old
    BY <2>1, TokensAre DEF Origins
  <2>2. token'[r] \in Tokens /\ token'[r][1] = t /\ token'[r][2] = "grant" /\ ~token'[r][3]
    BY <1>3, <1>8, <2>1, Zenon
  <2>3. e \in Saved /\ e # NoEntry /\ e.grant # NoGrant
    BY <1>5, <1>7, EntriesAre DEF Saved
  <2> QED BY <1>8, <1>10, <1>11, <2>2, <2>3 DEF RunTyped, Steps, HasEntry
<1>13. GrantsMove
  BY <1>1, <1>2, <1>3 DEF GrantsMove
<1>14. RunBounded(r)'
  <2>1. LiveOnce'
    BY <1>1, <1>6, <1>13, LiveMoves DEF NothingFresher
  <2> SUFFICES ASSUME NEW x, x = entry'[r]
               PROVE  Bounded(t, x)'
    BY <1>8, <1>10 DEF RunBounded, Bounded
  <2> QED BY <1>1, <1>6, <1>7, <1>8, <2>1, AcceptedBounds
<1>15. TokenTypes' /\ NothingFresher'
  <2>1. \A u \in Tenants : Bounded(u, saved'[u])
    BY <1>1, <1>2 DEF NothingFresher
  <2> QED BY <1>1, <1>2, <1>6, <1>9, <1>12, <1>13, <1>14, <2>1, RunMoves
<1>16. \A q \in Scripters \ {r} : /\ HoldsTheGrant(q)' <=> HoldsTheGrant(q)
                                  /\ MayUse(q)' <=> MayUse(q)
                                  /\ entry'[q] = entry[q] /\ tenant'[q] = tenant[q]
  BY <1>1, <1>9, OthersStay DEF Stays
<1>17. ASSUME t \in Rotating, NEW x, Bounded(t, x), x # NoEntry, x.grant \in Grants
       PROVE  x.grant # n
  BY <1>2, <1>3, <1>5, <1>17, EntriesAre DEF Bounded
<1>18. ASSUME t \in Rotating, NEW q \in Scripters, tenant[q] = t, MayUse(q)
       PROVE  entry[q].grant # n
  <2>1. Bounded(t, entry[q])
    BY <1>1, <1>18 DEF NothingFresher, RunBounded
  <2> QED BY <1>1, <1>17, <1>18, <2>1, UsersHaveGrants
<1>19. HeldIsLive'
  <2> SUFFICES ASSUME NEW q \in Scripters, Holds(q)'
               PROVE  Accepts(tenant[q], entry[q])'
    BY DEF HeldIsLive
  <2>1. CASE q = r
    BY <1>2, <1>5, <1>6, <1>7, <1>8, <2>1 DEF Accepts
  <2>2. CASE q # r
    <3>1. Holds(q) /\ Accepts(tenant[q], entry[q])
      BY <1>1, <1>2, <1>16, <2>2 DEF Holds, HeldIsLive
    <3>2. tenant[q] = t /\ t \in Rotating => entry[q].grant # g
      BY <1>1, <1>2, <1>3, <2>2, <3>1 DEF HeldAlone, MayUse, g
    <3> QED BY <1>1, <1>5, <1>6, <1>16, <2>2, <3>1, <3>2 DEF Accepts
  <2> QED BY <2>1, <2>2
<1>20. HeldAlone'
  <2> SUFFICES ASSUME NEW q \in Scripters, Holds(q)', tenant'[q] \in Rotating
               PROVE  /\ saved'[tenant'[q]] # NoEntry => saved'[tenant'[q]].grant # entry'[q].grant
                      /\ \A p \in Scripters \ {q} :
                           tenant'[p] = tenant'[q] /\ MayUse(p)' => entry'[p].grant # entry'[q].grant
    BY DEF HeldAlone
  <2>1. CASE q = r
    <3>1. saved[t] # NoEntry => saved[t].grant # n
      <4>1. ASSUME saved[t] # NoEntry, saved[t].grant = n PROVE FALSE
        BY <1>1, <1>5, <1>8, <1>17, <2>1, <4>1 DEF NothingFresher
      <4> QED BY <4>1
    <3>2. \A p \in Scripters \ {r} : tenant'[p] = t /\ MayUse(p)' => entry'[p].grant # n
      BY <1>8, <1>16, <1>18, <2>1
    <3> QED BY <1>2, <1>7, <1>8, <2>1, <3>1, <3>2
  <2>2. CASE q # r
    <3>1. /\ Holds(q) /\ entry'[q] = entry[q] /\ tenant'[q] = tenant[q] /\ tenant[q] \in Rotating
          /\ MayUse(q)
      BY <1>2, <1>16, <2>2 DEF Holds, MayUse
    <3>2. /\ saved[tenant[q]] # NoEntry => saved[tenant[q]].grant # entry[q].grant
          /\ \A p \in Scripters \ {q} :
               tenant[p] = tenant[q] /\ MayUse(p) => entry[p].grant # entry[q].grant
      BY <1>1, <3>1 DEF HeldAlone
    <3>3. tenant[q] = t => entry[q].grant # n
      BY <1>18, <3>1
    <3>4. \A p \in Scripters \ {q} :
            tenant'[p] = tenant'[q] /\ MayUse(p)' => entry'[p].grant # entry'[q].grant
      BY <1>7, <1>8, <1>16, <3>1, <3>2, <3>3
    <3> QED BY <1>2, <3>1, <3>2, <3>4
  <2> QED BY <2>1, <2>2
<1>21. SavedIsGood'
  <2> SUFFICES ASSUME NEW u \in Tenants, u \notin lost', saved'[u] # NoEntry,
                      u \in Rotating => \A q \in Scripters : tenant'[q] = u => ~HoldsTheGrant(q)'
               PROVE  Accepts(u, saved[u])'
    BY DEF SavedIsGood
  <2>1. u = t => u \notin Rotating
    BY <1>8, <1>11
  <2>2. live'[u] = live[u]
    BY <1>2, <1>3, <1>5, <1>6, <2>1
  <2>3. u \in Rotating => \A q \in Scripters : tenant[q] = u => ~HoldsTheGrant(q)
    BY <1>11, <1>16
  <2>4. Accepts(u, saved[u])
    BY <1>1, <1>2, <2>3 DEF SavedIsGood
  <2> QED BY <1>2, <2>2, <2>4 DEF Accepts
<1> QED BY <1>15, <1>19, <1>20, <1>21 DEF TokenIInv, HeldInv

-----------------------------------------------------------------------------
(* The file is written.                                                    *)

(* What the history says of a tenant that is not lost afterwards: its own  *)
(* entry was not written over, and of the writing run's tenant, that the   *)
(* entry is good and no other run has it.                                  *)
LEMMA WritingIs ==
  ASSUME TokenIInv, NEW r \in Scripters, step[r] = "write", lost' = LostByWriting(r),
         saved' = file[r]
  PROVE  /\ lost' \subseteq Tenants
         /\ \A t \in Tenants \ lost' : t # tenant[r] => saved'[t] = saved[t] /\ t \notin lost
         /\ tenant[r] \notin lost' =>
              /\ Accepts(tenant[r], saved'[tenant[r]])
              /\ \A q \in Scripters \ {r} : tenant[q] = tenant[r] /\ HoldsTheGrant(q) =>
                   /\ tenant[r] \notin lost
                   /\ tenant[r] \in Rotating => saved'[tenant[r]].grant # entry[q].grant
<1>1. /\ RunTyped(r) /\ lost \subseteq Tenants /\ tenant[r] \in Tenants
      /\ HeldIsLive /\ HeldAlone
  BY DEF TokenIInv, TokenTypes, RunTyped, HeldInv
<1>2. saved'[tenant[r]] = entry[r]
  BY <1>1 DEF RunTyped
<1> DEFINE over == lost \cup {t \in Tenants \ {tenant[r]} : saved[t] # file[r][t]}
<1>3. /\ over \subseteq Tenants /\ lost \subseteq over
      /\ \A t \in Tenants : t # tenant[r] /\ t \notin over => saved'[t] = saved[t] /\ t \notin lost
  BY <1>1
<1> HIDE DEF over
<1>4. CASE script[r] # <<"login">>
  <2>1. lost' = over
    BY <1>4 DEF LostByWriting, over
  <2>2. HoldsTheGrant(r)
    BY <1>4 DEF HoldsTheGrant
  <2>3. ASSUME tenant[r] \notin lost'
        PROVE  /\ Accepts(tenant[r], entry[r]) /\ tenant[r] \notin lost
               /\ \A q \in Scripters \ {r} :
                    tenant[q] = tenant[r] /\ HoldsTheGrant(q) /\ tenant[r] \in Rotating =>
                      entry[r].grant # entry[q].grant
    <3>1. Holds(r)
      BY <1>3, <2>1, <2>2, <2>3 DEF Holds
    <3> QED BY <1>1, <3>1, <1>3, <2>1, <2>3 DEF HeldIsLive, HeldAlone, MayUse
  <2> QED BY <1>2, <1>3, <2>1, <2>3
<1>5. CASE script[r] = <<"login">> /\ lost' = over \cup {tenant[r]}
  BY <1>1, <1>3, <1>5
<1>6. CASE /\ script[r] = <<"login">> /\ token[r][2] = "consent"
           /\ entry[r].grant \in live[tenant[r]]
           /\ \A q \in Scripters : tenant[q] = tenant[r] => ~HoldsTheGrant(q)
           /\ lost' = over \ {tenant[r]}
  <2>1. Accepts(tenant[r], entry[r])
    BY <1>1, <1>6 DEF RunTyped, Accepts
  <2> QED BY <1>2, <1>3, <1>6, <2>1
<1> QED BY <1>4, <1>5, <1>6 DEF LostByWriting, over

(* Another run that holds a grant has its own still, and the run that      *)
(* wrote has saved what it held.                                           *)
LEMMA WriteFileKeeps ==
  ASSUME TokenIInv, NEW r \in Scripters, WriteFile(r)
  PROVE  TokenIInv'
<1>1. /\ TokenTypes /\ NothingFresher /\ RunTyped(r) /\ RunBounded(r)
      /\ live \in [Tenants -> SUBSET Grants] /\ consents \in Nat /\ clients \in Nat
      /\ HeldIsLive /\ HeldAlone /\ SavedIsGood /\ \A q \in Scripters : tenant[q] \in Tenants
  BY DEF TokenIInv, TokenTypes, RunTyped, NothingFresher, HeldInv
<1>2. /\ step[r] = "write" /\ saved' = file[r] /\ lost' = LostByWriting(r)
      /\ UNCHANGED <<live, clients, consents>>
  BY DEF WriteFile, tenantState
<1>3. /\ saved' \in [Tenants -> Saved] /\ \A t \in Tenants : Bounded(t, saved'[t])
  BY <1>1, <1>2 DEF RunTyped, RunBounded
<1>4. /\ Shape /\ (\A q \in Scripters \ {r} : Stays(q)) /\ RunTyped(r)' /\ RunKnows(r)
      /\ ~MayUse(r)' /\ ~HoldsTheGrant(r)'
  <2>1. CASE script[r] \in {<<"login">>, <<"refresh">>}
    <3>1. Goes(r, "idle") /\ Forget(r)
      BY <2>1 DEF WriteFile, AfterSave
    <3>2. AnyTenant \in Tenants
      BY GleanTokenAssumption DEF AnyTenant
    <3>3. /\ step'[r] = "idle" /\ script'[r] = <<>> /\ entry'[r] = NoEntry
          /\ tenant'[r] = AnyTenant
      BY <1>1, <3>1 DEF TokenTypes, Goes, Forget
    <3>4. Shape /\ \A q \in Scripters \ {r} : Stays(q)
      BY <1>1, <3>1, <3>2 DEF TokenTypes, Goes, Forget, Shape, Stays, Steps, Saved
    <3>5. ~HoldsTheGrant(r)' /\ ~MayUse(r)'
      BY <3>3 DEF HoldsTheGrant, MayUse
    <3>6. RunTyped(r)'
      BY <3>2, <3>3, <3>5 DEF RunTyped, Steps, Saved, HasEntry
    <3> QED BY <3>3, <3>4, <3>5, <3>6 DEF RunKnows, Bounded
  <2>2. CASE script[r] \notin {<<"login">>, <<"refresh">>}
    <3>1. Goes(r, "env") /\ file' = [file EXCEPT ![r] = <<>>] /\ UNCHANGED <<script, tenant, entry, token>>
      BY <2>2 DEF WriteFile, AfterSave
    <3>2. /\ step'[r] = "env" /\ script'[r] = script[r] /\ entry'[r] = entry[r]
          /\ tenant'[r] = tenant[r] /\ token'[r] = token[r]
      BY <1>1, <3>1 DEF TokenTypes, Goes
    <3>3. Shape /\ \A q \in Scripters \ {r} : Stays(q)
      BY <1>1, <3>1, Frame DEF Steps
    <3>4. ~HoldsTheGrant(r)' /\ ~MayUse(r)'
      BY <2>2, <3>2 DEF HoldsTheGrant, MayUse
    <3>5. RunTyped(r)'
      BY <1>1, <1>2, <2>2, <3>2, <3>4 DEF RunTyped, Steps, HasEntry
    <3> QED BY <1>1, <3>2, <3>3, <3>4, <3>5 DEF RunKnows, RunBounded
  <2> QED BY <2>1, <2>2
<1>5. /\ lost' \subseteq Tenants
      /\ \A t \in Tenants \ lost' : t # tenant[r] => saved'[t] = saved[t] /\ t \notin lost
      /\ tenant[r] \notin lost' =>
           /\ Accepts(tenant[r], saved'[tenant[r]])
           /\ \A q \in Scripters \ {r} : tenant[q] = tenant[r] /\ HoldsTheGrant(q) =>
                /\ tenant[r] \notin lost
                /\ tenant[r] \in Rotating => saved'[tenant[r]].grant # entry[q].grant
  BY <1>2, WritingIs
<1>6. TokenTypes' /\ NothingFresher'
  <2>1. GrantsMove /\ live' \in [Tenants -> SUBSET Grants] /\ clients' \in Nat
    BY <1>1, <1>2 DEF GrantsMove
  <2> QED BY <1>1, <1>3, <1>4, <1>5, <2>1, RunMoves
<1>7. \A q \in Scripters \ {r} : /\ HoldsTheGrant(q)' <=> HoldsTheGrant(q)
                                 /\ MayUse(q)' <=> MayUse(q)
                                 /\ entry'[q] = entry[q] /\ tenant'[q] = tenant[q]
  BY <1>1, <1>4, OthersStay DEF Stays
<1>8. ASSUME NEW q \in Scripters, Holds(q)'
      PROVE  /\ q # r /\ Holds(q) /\ entry'[q] = entry[q] /\ tenant'[q] = tenant[q]
             /\ tenant[q] \in Tenants \ lost' /\ HoldsTheGrant(q)
  BY <1>1, <1>4, <1>5, <1>7, <1>8 DEF Holds
<1>9. HeldIsLive'
  <2> SUFFICES ASSUME NEW q \in Scripters, Holds(q)'
               PROVE  Accepts(tenant[q], entry[q])'
    BY DEF HeldIsLive
  <2>1. Accepts(tenant[q], entry[q])
    BY <1>1, <1>8 DEF HeldIsLive
  <2> QED BY <1>2, <1>8, <2>1 DEF Accepts
<1>10. HeldAlone'
  <2> SUFFICES ASSUME NEW q \in Scripters, Holds(q)', tenant'[q] \in Rotating
               PROVE  /\ saved'[tenant'[q]] # NoEntry => saved'[tenant'[q]].grant # entry'[q].grant
                      /\ \A p \in Scripters \ {q} :
                           tenant'[p] = tenant'[q] /\ MayUse(p)' => entry'[p].grant # entry'[q].grant
    BY DEF HeldAlone
  <2>1. /\ q # r /\ Holds(q) /\ entry'[q] = entry[q] /\ tenant'[q] = tenant[q]
        /\ tenant[q] \in Tenants \ lost' /\ HoldsTheGrant(q)
    BY <1>8
  <2>2. /\ saved[tenant[q]] # NoEntry => saved[tenant[q]].grant # entry[q].grant
        /\ \A p \in Scripters \ {q} :
             tenant[p] = tenant[q] /\ MayUse(p) => entry[p].grant # entry[q].grant
    BY <1>1, <2>1 DEF HeldAlone
  <2>3. saved'[tenant[q]] # NoEntry => saved'[tenant[q]].grant # entry[q].grant
    BY <1>5, <2>1, <2>2
  <2>4. \A p \in Scripters \ {q} :
          tenant'[p] = tenant'[q] /\ MayUse(p)' => entry'[p].grant # entry'[q].grant
    BY <1>4, <1>7, <2>1, <2>2
  <2> QED BY <2>1, <2>3, <2>4
<1>11. SavedIsGood'
  <2> SUFFICES ASSUME NEW t \in Tenants, t \notin lost', saved'[t] # NoEntry,
                      t \in Rotating => \A q \in Scripters : tenant'[q] = t => ~HoldsTheGrant(q)'
               PROVE  Accepts(t, saved[t])'
    BY DEF SavedIsGood
  <2>1. CASE t = tenant[r]
    <3>1. Accepts(t, saved'[t])
      BY <1>5, <2>1
    <3> QED BY <1>2, <3>1 DEF Accepts
  <2>2. CASE t # tenant[r]
    <3>1. saved'[t] = saved[t] /\ t \notin lost
      BY <1>5, <2>2
    <3>2. t \in Rotating => \A q \in Scripters : tenant[q] = t => ~HoldsTheGrant(q)
      BY <1>7, <2>2
    <3>3. Accepts(t, saved[t])
      BY <1>1, <3>1, <3>2 DEF SavedIsGood
    <3> QED BY <1>2, <3>1, <3>3 DEF Accepts
  <2> QED BY <2>1, <2>2
<1> QED BY <1>6, <1>9, <1>10, <1>11 DEF TokenIInv, HeldInv

-----------------------------------------------------------------------------
(* Any step.                                                               *)
LEMMA TokenNextKeeps == TokenIInv /\ [TokenNext]_tokenVars => TokenIInv'
<1> SUFFICES ASSUME TokenIInv, [TokenNext]_tokenVars PROVE TokenIInv'
  OBVIOUS
<1>1. ASSUME NEW r \in Scripters, NEW t \in Tenants,
             StartLogin(r, t) \/ StartRefresh(r, t) \/ \E s \in Candidates : StartSources(r, t, s)
      PROVE  TokenIInv'
  BY <1>1, StartLoginKeeps, StartRefreshKeeps, StartSourcesKeeps
<1>2. ASSUME NEW r \in Scripters, Consent(r) \/ TryInRepo(r) \/ Ask(r) \/ Refused(r)
      PROVE  TokenIInv'
  BY <1>2, ConsentKeeps, TryInRepoKeeps, AskKeeps, RefusedKeeps
<1>3. ASSUME NEW r \in Scripters, TryEditor(r) \/ EditorHasNone(r) \/ NoneFound(r)
      PROVE  TokenIInv'
  BY <1>3, EditorKeeps, NoneFoundKeeps
<1>4. ASSUME NEW r \in Scripters, ReadAgain(r) \/ WriteFile(r) \/ WriteEnv(r)
      PROVE  TokenIInv'
  BY <1>4, ReadAgainKeeps, WriteFileKeeps, WriteEnvKeeps
<1>5. ASSUME NEW r \in Scripters, AnswerLost(r) \/ Dies(r) \/ DiesWriting(r)
      PROVE  TokenIInv'
  BY <1>5, AnswerLostKeeps, DiesKeeps
<1>6. ASSUME NEW t \in Tenants, Revoked(t)
      PROVE  TokenIInv'
  BY <1>6, RevokedKeeps
<1>7. CASE UNCHANGED tokenVars
  <2>1. UNCHANGED <<live, clients, consents, saved, step, script, tenant, entry, file, token, lost>>
    BY <1>7 DEF tokenVars, tenantState, runState
  <2>2. \A r \in Scripters : /\ RunTyped(r)' <=> RunTyped(r)
                             /\ HoldsTheGrant(r)' <=> HoldsTheGrant(r)
    BY <2>1 DEF RunTyped, HasEntry, HoldsTheGrant
  <2>3. TokenTypes'
    BY <2>1, <2>2 DEF TokenIInv, TokenTypes
  <2>4. NothingFresher'
    BY <2>1 DEF TokenIInv, NothingFresher, LiveOnce, Bounded, RunBounded
  <2>5. HeldInv'
    BY <2>1, <2>2 DEF TokenIInv, HeldInv, HeldIsLive, HeldAlone, SavedIsGood, Holds, MayUse, Accepts
  <2> QED BY <2>3, <2>4, <2>5 DEF TokenIInv
<1> QED BY <1>1, <1>2, <1>3, <1>4, <1>5, <1>6, <1>7 DEF TokenNext

(* However runs overlap and wherever they die, the saved grant is one that *)
(* the tenant accepts from the saved client unless the history names what  *)
(* cut it off, and the token that goes to .env is one that was asked for.  *)
THEOREM TokenIsSound == TokenSpec => []TokenInv
BY TokenStart, TokenNextKeeps, TokenImplies, PTL DEF TokenSpec

=============================================================================
