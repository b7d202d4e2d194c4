------------------------- MODULE RefreshSnapshotsProofs -------------------------
(***************************************************************************)
(* Proofs about the data of the refreshes, for any set of adapters that    *)
(* has the baseline, any accounts, any number of runs and any retention,   *)
(* and about the pages that read the runs, for any window and retention.   *)
(***************************************************************************)
EXTENDS RefreshSnapshots, PageLoads, FiniteSetTheorems, TLAPS

-----------------------------------------------------------------------------
(* Finite sets of numbers: their elements have ranks, counted from the     *)
(* greatest, and every rank is taken.                                      *)

Above(S, r) == {s \in S : s > r}

LEMMA AboveIsSmaller ==
  ASSUME NEW S, S \subseteq Nat, IsFiniteSet(S), NEW r \in S
  PROVE  /\ IsFiniteSet(Above(S, r)) /\ Cardinality(Above(S, r)) \in Nat
         /\ Cardinality(Above(S, r)) < Cardinality(S)
         /\ \A s \in S : s > r => Cardinality(Above(S, s)) < Cardinality(Above(S, r))
<1>1. ASSUME NEW T, IsFiniteSet(T), NEW U \in SUBSET T, NEW x \in T, x \notin U
      PROVE  /\ IsFiniteSet(U) /\ Cardinality(U) \in Nat
             /\ Cardinality(U) < Cardinality(T)
  <2>1. IsFiniteSet(U) /\ Cardinality(U) <= Cardinality(T)
        /\ (Cardinality(T) = Cardinality(U) => T = U)
    BY <1>1, FS_Subset
  <2>2. Cardinality(U) \in Nat /\ Cardinality(T) \in Nat
    BY <1>1, <2>1, FS_CardinalityType
  <2> QED
    BY <1>1, <2>1, <2>2
<1>2. Above(S, r) \in SUBSET S /\ r \notin Above(S, r)
  BY DEF Above
<1>3. ASSUME NEW s \in S, s > r
      PROVE  Above(S, s) \in SUBSET Above(S, r) /\ s \in Above(S, r) /\ s \notin Above(S, s)
  <2>1. r \in Nat /\ s \in Nat
    OBVIOUS
  <2>2. \A x \in S : x > s => x > r
    <3> TAKE x \in S
    <3>1. x \in Nat
      OBVIOUS
    <3> QED
      BY <1>3, <2>1, <3>1
  <2>3. \A x : x \in Above(S, s) => x \in Above(S, r)
    BY <2>2 DEF Above
  <2>4. s \in Above(S, r)
    BY <1>3 DEF Above
  <2>5. s \notin Above(S, s)
    BY <2>1 DEF Above
  <2> QED
    BY <2>3, <2>4, <2>5
<1>4. /\ IsFiniteSet(Above(S, r)) /\ Cardinality(Above(S, r)) \in Nat
      /\ Cardinality(Above(S, r)) < Cardinality(S)
  BY <1>1, <1>2
<1>5. ASSUME NEW s \in S, s > r
      PROVE  Cardinality(Above(S, s)) < Cardinality(Above(S, r))
  BY <1>1, <1>3, <1>4, <1>5
<1> QED
  BY <1>4, <1>5

LEMMA EveryRankIsTaken ==
  ASSUME NEW S, S \subseteq Nat, IsFiniteSet(S), NEW n \in Nat, n < Cardinality(S)
  PROVE  \E r \in S : Cardinality(Above(S, r)) = n
<1> DEFINE c == Cardinality(S)
           f == [r \in S |-> Cardinality(Above(S, r))]
<1>1. c \in Nat
  BY FS_CardinalityType
<1>2. IsFiniteSet(0..(c - 1)) /\ Cardinality(0..(c - 1)) = c
  <2>1. 0 \in Int /\ c - 1 \in Int
    BY <1>1
  <2>2. IsFiniteSet(0..(c - 1)) /\ Cardinality(0..(c - 1)) = IF 0 > c - 1 THEN 0 ELSE c - 1 - 0 + 1
    BY <2>1, FS_Interval
  <2> QED
    BY <1>1, <2>2
<1>3. f \in [S -> 0..(c - 1)]
  <2>1. \A r \in S : Cardinality(Above(S, r)) \in Nat /\ Cardinality(Above(S, r)) < c
    BY AboveIsSmaller
  <2>2. \A r \in S : Cardinality(Above(S, r)) \in 0..(c - 1)
    BY <1>1, <2>1
  <2> QED
    BY <2>2
<1>4. \A r, s \in S : r # s => f[r] # f[s]
  <2>1. ASSUME NEW r \in S, NEW s \in S, s > r PROVE f[r] # f[s]
    <3>1. /\ Cardinality(Above(S, s)) < Cardinality(Above(S, r))
          /\ Cardinality(Above(S, r)) \in Nat /\ Cardinality(Above(S, s)) \in Nat
      BY <2>1, AboveIsSmaller
    <3> QED
      BY <3>1
  <2>2. \A r, s \in S : r # s => r > s \/ s > r
    <3> TAKE r \in S, s \in S
    <3>1. r \in Nat /\ s \in Nat
      OBVIOUS
    <3> QED
      BY <3>1
  <2> QED
    BY <2>1, <2>2
<1>5. f \in Injection(S, 0..(c - 1))
  BY <1>3, <1>4 DEF Injection, IsInjective
<1>6. f \in Surjection(S, 0..(c - 1))
  BY <1>2, <1>5, FS_Injection
<1>7. n \in 0..(c - 1)
  BY <1>1
<1> QED
  BY <1>6, <1>7 DEF Surjection

(* A set of numbers that is finite and not empty has a greatest element.   *)
LEMMA GreatestExists ==
  ASSUME NEW S, S \subseteq Nat, IsFiniteSet(S), S # {}
  PROVE  \E r \in S : \A s \in S : s <= r
<1>1. Cardinality(S) \in Nat /\ Cardinality(S) # 0
  BY FS_CardinalityType, FS_EmptySet
<1>2. PICK r \in S : Cardinality(Above(S, r)) = 0
  <2>1. 0 \in Nat /\ 0 < Cardinality(S)
    BY <1>1
  <2> QED
    BY <2>1, EveryRankIsTaken
<1>3. Above(S, r) = {}
  BY <1>2, AboveIsSmaller, FS_EmptySet
<1> QED
  BY <1>3 DEF Above

(* The n greatest elements of a set with at least n are n.                 *)
Greatest(S, n) == {r \in S : Cardinality(Above(S, r)) < n}

LEMMA GreatestMany ==
  ASSUME NEW S, S \subseteq Nat, IsFiniteSet(S), NEW n \in Nat, n <= Cardinality(S)
  PROVE  IsFiniteSet(Greatest(S, n)) /\ n <= Cardinality(Greatest(S, n))
<1> DEFINE T == Greatest(S, n)
           f == [r \in T |-> Cardinality(Above(S, r))]
<1>0. T = {r \in S : Cardinality(Above(S, r)) < n}
  BY DEF Greatest
<1> HIDE DEF T
<1>1. IsFiniteSet(T) /\ Cardinality(T) \in Nat /\ Cardinality(S) \in Nat
  BY <1>0, FS_Subset, FS_CardinalityType
<1>2. f \in [T -> 0..(n - 1)]
  <2>1. \A r \in T : Cardinality(Above(S, r)) \in Nat
    BY <1>0, AboveIsSmaller
  <2>2. \A r \in T : Cardinality(Above(S, r)) \in 0..(n - 1)
    BY <1>0, <2>1
  <2> QED
    BY <2>2
<1>3. \A m \in 0..(n - 1) : \E r \in T : f[r] = m
  <2> TAKE m \in 0..(n - 1)
  <2>1. m \in Nat /\ m < Cardinality(S) /\ m < n
    BY <1>1
  <2>2. PICK r \in S : Cardinality(Above(S, r)) = m
    BY <2>1, EveryRankIsTaken
  <2> QED
    BY <1>0, <2>1, <2>2
<1>4. f \in Surjection(T, 0..(n - 1))
  BY <1>2, <1>3 DEF Surjection
<1>5. Cardinality(0..(n - 1)) <= Cardinality(T)
  BY <1>1, <1>4, FS_Surjection
<1>6. Cardinality(0..(n - 1)) = n
  <2>1. 0 \in Int /\ n - 1 \in Int
    OBVIOUS
  <2>2. Cardinality(0..(n - 1)) = IF 0 > n - 1 THEN 0 ELSE n - 1 - 0 + 1
    BY <2>1, FS_Interval
  <2> QED
    BY <2>2
<1> QED
  BY <1>1, <1>5, <1>6 DEF T

-----------------------------------------------------------------------------
(* Partial functions and the spread.                                       *)

LEMMA PartialIs ==
  ASSUME NEW S, NEW T, NEW f
  PROVE  f \in PartialOf(S, T) <=> DOMAIN f \subseteq S /\ f \in [DOMAIN f -> T]
<1>1. ASSUME f \in PartialOf(S, T) PROVE DOMAIN f \subseteq S /\ f \in [DOMAIN f -> T]
  BY <1>1 DEF PartialOf
<1>2. ASSUME DOMAIN f \subseteq S, f \in [DOMAIN f -> T] PROVE f \in PartialOf(S, T)
  BY <1>2 DEF PartialOf
<1> QED
  BY <1>1, <1>2

LEMMA NothingIsPartial ==
  ASSUME NEW S, NEW T PROVE Nothing \in PartialOf(S, T) /\ DOMAIN Nothing = {}
<1>1. DOMAIN Nothing = {} /\ Nothing \in [{} -> T]
  BY DEF Nothing
<1> QED
  BY <1>1, PartialIs

(* The later one wins where both are defined.                              *)
LEMMA SpreadValue ==
  ASSUME NEW f, NEW g
  PROVE  /\ DOMAIN Spread(f, g) = DOMAIN f \cup DOMAIN g
         /\ \A x \in DOMAIN g : Spread(f, g)[x] = g[x]
         /\ \A x \in DOMAIN f : x \notin DOMAIN g => Spread(f, g)[x] = f[x]
BY DEF Spread

LEMMA SpreadPartial ==
  ASSUME NEW S, NEW T, NEW f \in PartialOf(S, T), NEW g \in PartialOf(S, T)
  PROVE  Spread(f, g) \in PartialOf(S, T)
<1>1. /\ DOMAIN f \subseteq S /\ f \in [DOMAIN f -> T]
      /\ DOMAIN g \subseteq S /\ g \in [DOMAIN g -> T]
  BY PartialIs
<1>2. Spread(f, g) \in [DOMAIN f \cup DOMAIN g -> T]
  BY <1>1 DEF Spread
<1> QED
  BY <1>1, <1>2, PartialIs

LEMMA RestrictedValue ==
  ASSUME NEW f, NEW U
  PROVE  /\ DOMAIN Restricted(f, U) = DOMAIN f \cap U
         /\ \A x \in DOMAIN f \cap U : Restricted(f, U)[x] = f[x]
BY DEF Restricted

LEMMA RestrictedPartial ==
  ASSUME NEW S, NEW T, NEW f \in PartialOf(S, T), NEW U
  PROVE  Restricted(f, U) \in PartialOf(S, T)
<1>1. DOMAIN f \subseteq S /\ f \in [DOMAIN f -> T]
  BY PartialIs
<1>2. Restricted(f, U) \in [DOMAIN f \cap U -> T]
  BY <1>1 DEF Restricted
<1> QED
  BY <1>1, <1>2, PartialIs

-----------------------------------------------------------------------------
(* Accounts.                                                               *)

Stamps == PartialOf(Sources, 1..MaxRuns)
Bare == {"stamp"}
Full == {"franchise", "exited", "stamp"}

LEMMA AccountIs ==
  ASSUME NEW r
  PROVE  r \in Account <=>
           /\ r = [x \in DOMAIN r |-> r[x]]
           /\ DOMAIN r \in {Bare, Full}
           /\ r.stamp \in Stamps
           /\ DOMAIN r = Full => r.franchise = TRUE /\ r.exited \in BOOLEAN
<1>1. ASSUME r \in Account
      PROVE  /\ r = [x \in DOMAIN r |-> r[x]]
             /\ DOMAIN r \in {Bare, Full}
             /\ r.stamp \in Stamps
             /\ DOMAIN r = Full => r.franchise = TRUE /\ r.exited \in BOOLEAN
  <2>1. CASE r \in {[stamp |-> s] : s \in Stamps}
    BY <2>1 DEF Bare, Full
  <2>2. CASE r \in [franchise : {TRUE}, exited : BOOLEAN, stamp : Stamps]
    <3>1. /\ r = [x \in Full |-> r[x]] /\ r.stamp \in Stamps
          /\ r.franchise = TRUE /\ r.exited \in BOOLEAN
      BY <2>2 DEF Full
    <3>2. DOMAIN r = Full
      BY <3>1
    <3> QED
      BY <3>1, <3>2
  <2> QED
    BY <1>1, <2>1, <2>2 DEF Account, Stamps
<1>2. ASSUME r = [x \in Bare |-> r[x]], r.stamp \in Stamps PROVE r \in Account
  <2>1. r = [stamp |-> r.stamp]
    BY <1>2 DEF Bare
  <2> QED
    BY <1>2, <2>1 DEF Account, Stamps
<1>3. ASSUME r = [x \in Full |-> r[x]], r.stamp \in Stamps, r.franchise = TRUE,
             r.exited \in BOOLEAN
      PROVE r \in Account
  <2>1. r \in [franchise : {TRUE}, exited : BOOLEAN, stamp : Stamps]
    BY <1>3 DEF Full
  <2> QED
    BY <2>1 DEF Account, Stamps
<1> QED
  BY <1>1, <1>2, <1>3

(* An account with a franchise has all its fields.                         *)
LEMMA FranchiseMeansFull ==
  ASSUME NEW r \in Account, "franchise" \in DOMAIN r PROVE DOMAIN r = Full
<1>1. DOMAIN r \in {Bare, Full}
  BY AccountIs
<1>2. "franchise" \notin Bare
  BY DEF Bare
<1> QED
  BY <1>1, <1>2

(* mergeAccount keeps every field, and spreads the stamps on their own.    *)
LEMMA MergeAccountIs ==
  ASSUME NEW r \in Account, NEW q \in Account
  PROVE  /\ MergeAccount(r, q) \in Account
         /\ DOMAIN MergeAccount(r, q) = DOMAIN r \cup DOMAIN q
         /\ MergeAccount(r, q).stamp = Spread(r.stamp, q.stamp)
         /\ DOMAIN q = Bare /\ DOMAIN r = Full => MergeAccount(r, q).exited = r.exited
<1> DEFINE s == Spread(r, q)
           m == MergeAccount(r, q)
           D == DOMAIN r \cup DOMAIN q
<1>1. /\ DOMAIN r \in {Bare, Full} /\ r.stamp \in Stamps
      /\ DOMAIN r = Full => r.franchise = TRUE /\ r.exited \in BOOLEAN
      /\ DOMAIN q \in {Bare, Full} /\ q.stamp \in Stamps
      /\ DOMAIN q = Full => q.franchise = TRUE /\ q.exited \in BOOLEAN
  BY AccountIs
<1>2. D \in {Bare, Full} /\ "stamp" \in D
  BY <1>1 DEF Bare, Full
<1>3. s = [x \in D |-> IF x \in DOMAIN q THEN q[x] ELSE r[x]]
  BY DEF Spread
<1>4. m = [x \in D |-> IF x = "stamp" THEN Spread(r.stamp, q.stamp) ELSE s[x]]
  BY <1>3 DEF MergeAccount
<1>5. m = [x \in DOMAIN m |-> m[x]] /\ DOMAIN m = D
  BY <1>4
<1>6. m.stamp = Spread(r.stamp, q.stamp)
  BY <1>2, <1>4
<1>7. Spread(r.stamp, q.stamp) \in Stamps
  BY <1>1, SpreadPartial DEF Stamps
<1>8. D = Full =>
        /\ m.franchise = IF DOMAIN q = Full THEN q.franchise ELSE r.franchise
        /\ m.exited = IF DOMAIN q = Full THEN q.exited ELSE r.exited
  BY <1>1, <1>3, <1>4 DEF Bare, Full
<1>9. D = Full => DOMAIN q = Full \/ DOMAIN r = Full
  BY <1>1 DEF Bare, Full
<1> HIDE DEF m, s
<1>10. m \in Account
  BY <1>1, <1>2, <1>5, <1>6, <1>7, <1>8, <1>9, AccountIs
<1>11. DOMAIN q = Bare /\ DOMAIN r = Full => D = Full /\ DOMAIN q # Full
  BY DEF Bare, Full
<1> QED
  BY <1>5, <1>6, <1>8, <1>10, <1>11 DEF m

-----------------------------------------------------------------------------
(* Snapshots as values.                                                    *)

Data == [accounts : PartialOf(Accounts, Account),
         opportunities : PartialOf(Accounts, {"open", "churn"})]

LEMMA DataIsData ==
  ASSUME NEW d \in Data PROVE IsData(d)
<1>1. d.accounts \in PartialOf(Accounts, Account)
      /\ d.opportunities \in PartialOf(Accounts, {"open", "churn"})
  BY DEF Data
<1> QED
  BY <1>1, PartialIs DEF IsData

LEMMA NoDataIsData ==
  /\ NoData \in Data /\ NoData.accounts = Nothing /\ NoData.opportunities = Nothing
  /\ DOMAIN NoData.accounts = {} /\ DOMAIN NoData.opportunities = {}
BY NothingIsPartial DEF NoData, Data

(* The stamps of a are no newer than n.                                    *)
StampsUpTo(d, n) ==
  \A a \in DOMAIN d.accounts : \A s \in DOMAIN d.accounts[a].stamp :
    d.accounts[a].stamp[s] <= n

(* Every stamp is that of run n.                                           *)
StampedAt(d, n) ==
  \A a \in DOMAIN d.accounts : \A s \in DOMAIN d.accounts[a].stamp :
    d.accounts[a].stamp[s] = n

Fresher(d, base) ==
  \A a \in DOMAIN d.accounts \cap DOMAIN base.accounts :
    AsFresh(d.accounts[a].stamp, base.accounts[a].stamp)

LEMMA MergeTwoIs ==
  ASSUME NEW d \in Data, NEW e \in Data
  PROVE  LET m == MergeTwo(d, e)
         IN  /\ m \in Data
             /\ DOMAIN m.accounts = DOMAIN d.accounts \cup DOMAIN e.accounts
             /\ m.opportunities = Spread(d.opportunities, e.opportunities)
             /\ \A a \in DOMAIN m.accounts :
                  m.accounts[a] =
                    IF a \notin DOMAIN e.accounts THEN d.accounts[a]
                    ELSE IF a \notin DOMAIN d.accounts THEN e.accounts[a]
                    ELSE MergeAccount(d.accounts[a], e.accounts[a])
<1> DEFINE m == MergeTwo(d, e)
           D == DOMAIN d.accounts \cup DOMAIN e.accounts
           f == [a \in D |-> IF a \notin DOMAIN e.accounts THEN d.accounts[a]
                             ELSE IF a \notin DOMAIN d.accounts THEN e.accounts[a]
                             ELSE MergeAccount(d.accounts[a], e.accounts[a])]
<1>1. /\ DOMAIN d.accounts \subseteq Accounts /\ d.accounts \in [DOMAIN d.accounts -> Account]
      /\ DOMAIN e.accounts \subseteq Accounts /\ e.accounts \in [DOMAIN e.accounts -> Account]
  BY PartialIs DEF Data
<1>2. Spread(d.opportunities, e.opportunities) \in PartialOf(Accounts, {"open", "churn"})
  BY SpreadPartial DEF Data
<1>3. \A a \in D : f[a] \in Account
  <2> TAKE a \in D
  <2>1. CASE a \in DOMAIN d.accounts /\ a \in DOMAIN e.accounts
    <3>1. d.accounts[a] \in Account /\ e.accounts[a] \in Account
      BY <1>1, <2>1
    <3> QED
      BY <2>1, <3>1, MergeAccountIs
  <2>2. CASE ~(a \in DOMAIN d.accounts /\ a \in DOMAIN e.accounts)
    BY <1>1, <2>2
  <2> QED
    BY <2>1, <2>2
<1>4. f \in PartialOf(Accounts, Account)
  <2>1. DOMAIN f = D /\ D \subseteq Accounts /\ f \in [D -> Account]
    BY <1>1, <1>3
  <2> HIDE DEF f
  <2> QED
    BY <2>1, PartialIs
<1>5. m = [accounts |-> f, opportunities |-> Spread(d.opportunities, e.opportunities)]
  BY DEF MergeTwo
<1>6. DOMAIN f = D
  OBVIOUS
<1> QED
  BY <1>2, <1>4, <1>5, <1>6 DEF Data

(* Stamps are numbers, so that they can be compared.                       *)
LEMMA StampsAreNumbers ==
  ASSUME NEW d \in Data, NEW a \in DOMAIN d.accounts
  PROVE  /\ d.accounts[a] \in Account /\ d.accounts[a].stamp \in Stamps
         /\ \A s \in DOMAIN d.accounts[a].stamp : d.accounts[a].stamp[s] \in Nat
<1>1. d.accounts[a] \in Account
  BY PartialIs DEF Data
<1>2. d.accounts[a].stamp \in Stamps
  BY <1>1, AccountIs
<1>3. d.accounts[a].stamp \in [DOMAIN d.accounts[a].stamp -> 1..MaxRuns]
  BY <1>2, PartialIs DEF Stamps
<1> QED
  BY <1>1, <1>2, <1>3, SnapshotAssumption

(* Merging what was fetched now into d keeps d as fresh as the baseline.   *)
LEMMA MergeFresher ==
  ASSUME Current \in Nat, NEW base \in Data, StampsUpTo(base, Current),
         NEW d \in Data, StampsUpTo(d, Current), Fresher(d, base),
         DOMAIN base.accounts \subseteq DOMAIN d.accounts,
         NEW e \in Data, StampedAt(e, Current)
  PROVE  LET m == MergeTwo(d, e)
         IN  /\ m \in Data /\ StampsUpTo(m, Current) /\ Fresher(m, base)
             /\ DOMAIN base.accounts \subseteq DOMAIN m.accounts
<1> DEFINE m == MergeTwo(d, e)
<1>1. /\ m \in Data
      /\ DOMAIN m.accounts = DOMAIN d.accounts \cup DOMAIN e.accounts
      /\ \A a \in DOMAIN m.accounts :
           m.accounts[a] =
             IF a \notin DOMAIN e.accounts THEN d.accounts[a]
             ELSE IF a \notin DOMAIN d.accounts THEN e.accounts[a]
             ELSE MergeAccount(d.accounts[a], e.accounts[a])
  BY MergeTwoIs
<1> HIDE DEF m
<1>2. ASSUME NEW a \in DOMAIN m.accounts
      PROVE  /\ \A s \in DOMAIN m.accounts[a].stamp : m.accounts[a].stamp[s] <= Current
             /\ a \in DOMAIN base.accounts =>
                  AsFresh(m.accounts[a].stamp, base.accounts[a].stamp)
  <2>1. CASE a \notin DOMAIN e.accounts
    <3>1. m.accounts[a] = d.accounts[a] /\ a \in DOMAIN d.accounts
      BY <1>1, <2>1
    <3> QED
      BY <3>1 DEF StampsUpTo, Fresher
  <2>2. CASE a \in DOMAIN e.accounts /\ a \notin DOMAIN d.accounts
    <3>1. m.accounts[a] = e.accounts[a] /\ a \notin DOMAIN base.accounts
      BY <1>1, <2>2
    <3> QED
      BY <2>2, <3>1 DEF StampedAt
  <2>3. CASE a \in DOMAIN e.accounts /\ a \in DOMAIN d.accounts
    <3> DEFINE p == d.accounts[a].stamp
               q == e.accounts[a].stamp
    <3>1. d.accounts[a] \in Account /\ e.accounts[a] \in Account
      BY <2>3, StampsAreNumbers
    <3>2. m.accounts[a] = MergeAccount(d.accounts[a], e.accounts[a])
      BY <1>1, <2>3
    <3>3. m.accounts[a].stamp = Spread(p, q)
      <4>1. ASSUME NEW r \in Account, NEW u \in Account, NEW v, v = MergeAccount(r, u)
            PROVE  v.stamp = Spread(r.stamp, u.stamp)
        BY <4>1, MergeAccountIs
      <4> QED
        BY <3>1, <3>2, <4>1
    <3>4. /\ DOMAIN Spread(p, q) = DOMAIN p \cup DOMAIN q
          /\ \A x \in DOMAIN q : Spread(p, q)[x] = q[x]
          /\ \A x \in DOMAIN p : x \notin DOMAIN q => Spread(p, q)[x] = p[x]
      BY SpreadValue
    <3>5. (\A x \in DOMAIN q : q[x] = Current) /\ (\A x \in DOMAIN p : p[x] <= Current)
      BY <2>3 DEF StampedAt, StampsUpTo
    <3>6. \A s \in DOMAIN m.accounts[a].stamp : m.accounts[a].stamp[s] <= Current
      BY <3>3, <3>4, <3>5
    <3>7. ASSUME a \in DOMAIN base.accounts
          PROVE  AsFresh(m.accounts[a].stamp, base.accounts[a].stamp)
      <4>1. AsFresh(p, base.accounts[a].stamp)
        BY <2>3, <3>7 DEF Fresher
      <4>2. \A s \in DOMAIN base.accounts[a].stamp :
              base.accounts[a].stamp[s] \in Nat /\ base.accounts[a].stamp[s] <= Current
        BY <3>7, StampsAreNumbers DEF StampsUpTo
      <4> HIDE DEF p, q
      <4> QED
        BY <3>3, <3>4, <3>5, <4>1, <4>2 DEF AsFresh
    <3> QED
      BY <3>6, <3>7
  <2> QED
    BY <1>1, <2>1, <2>2, <2>3
<1>3. StampsUpTo(m, Current)
  BY <1>2 DEF StampsUpTo
<1>4. Fresher(m, base)
  BY <1>2 DEF Fresher
<1>5. DOMAIN base.accounts \subseteq DOMAIN m.accounts
  BY <1>1
<1> QED
  BY <1>1, <1>3, <1>4, <1>5 DEF m

(* What the enriching adapters return: stamps only, all of run n.          *)
IsEnrichment(e, n) ==
  /\ e \in Data /\ e.opportunities = Nothing /\ StampedAt(e, n)
  /\ \A a \in DOMAIN e.accounts : DOMAIN e.accounts[a] = Bare

(* What Salesforce returns: its whole book.                                *)
IsBook(e, n) ==
  /\ e \in Data /\ StampedAt(e, n)
  /\ \A a \in DOMAIN e.accounts : DOMAIN e.accounts[a] = Full

(* A snapshot in which every account is active.                            *)
Booked(d) ==
  /\ DOMAIN d.opportunities \subseteq DOMAIN d.accounts
  /\ \A a \in DOMAIN d.accounts : DOMAIN d.accounts[a] = Full /\ IsActive(d, a)

(* The baseline with some enrichments merged in.                           *)
Enriched(d, base) ==
  /\ d \in Data /\ StampsUpTo(d, Current) /\ Fresher(d, base)
  /\ DOMAIN base.accounts \subseteq DOMAIN d.accounts
  /\ d.opportunities = base.opportunities
  /\ \A a \in DOMAIN base.accounts :
       DOMAIN d.accounts[a] = Full /\ d.accounts[a].exited = base.accounts[a].exited

LEMMA EnrichedByOne ==
  ASSUME Current \in Nat, NEW base \in Data, StampsUpTo(base, Current),
         NEW d, Enriched(d, base), NEW e, IsEnrichment(e, Current)
  PROVE  Enriched(MergeTwo(d, e), base)
<1> DEFINE m == MergeTwo(d, e)
<1>1. d \in Data /\ e \in Data
  BY DEF Enriched, IsEnrichment
<1>2. /\ m \in Data /\ StampsUpTo(m, Current) /\ Fresher(m, base)
      /\ DOMAIN base.accounts \subseteq DOMAIN m.accounts
  BY <1>1, MergeFresher DEF Enriched, IsEnrichment
<1>3. /\ m.opportunities = Spread(d.opportunities, Nothing)
      /\ \A a \in DOMAIN m.accounts :
           m.accounts[a] =
             IF a \notin DOMAIN e.accounts THEN d.accounts[a]
             ELSE IF a \notin DOMAIN d.accounts THEN e.accounts[a]
             ELSE MergeAccount(d.accounts[a], e.accounts[a])
  BY <1>1, MergeTwoIs DEF IsEnrichment
<1> HIDE DEF m
<1>4. m.opportunities = base.opportunities
  <2>1. d.opportunities = [x \in DOMAIN d.opportunities |-> d.opportunities[x]]
    BY <1>1, PartialIs DEF Data
  <2>2. DOMAIN Nothing = {}
    BY NothingIsPartial
  <2>3. Spread(d.opportunities, Nothing) = d.opportunities
    BY <2>1, <2>2 DEF Spread
  <2> QED
    BY <1>3, <2>3 DEF Enriched
<1>5. ASSUME NEW a \in DOMAIN base.accounts
      PROVE  DOMAIN m.accounts[a] = Full /\ m.accounts[a].exited = base.accounts[a].exited
  <2>1. /\ a \in DOMAIN d.accounts /\ a \in DOMAIN m.accounts
        /\ DOMAIN d.accounts[a] = Full /\ d.accounts[a].exited = base.accounts[a].exited
    BY <1>2 DEF Enriched
  <2>2. CASE a \notin DOMAIN e.accounts
    BY <1>3, <2>1, <2>2
  <2>3. CASE a \in DOMAIN e.accounts
    <3>1. d.accounts[a] \in Account /\ e.accounts[a] \in Account /\ DOMAIN e.accounts[a] = Bare
      BY <1>1, <2>1, <2>3, StampsAreNumbers DEF IsEnrichment
    <3>2. m.accounts[a] = MergeAccount(d.accounts[a], e.accounts[a])
      BY <1>3, <2>1, <2>3
    <3>3. /\ DOMAIN m.accounts[a] = DOMAIN d.accounts[a] \cup DOMAIN e.accounts[a]
          /\ m.accounts[a].exited = d.accounts[a].exited
      <4>1. ASSUME NEW r \in Account, NEW u \in Account, NEW v, v = MergeAccount(r, u),
                   DOMAIN u = Bare, DOMAIN r = Full
            PROVE  DOMAIN v = DOMAIN r \cup DOMAIN u /\ v.exited = r.exited
        BY <4>1, MergeAccountIs
      <4> QED
        BY <2>1, <3>1, <3>2, <4>1
    <3> QED
      BY <2>1, <3>1, <3>3 DEF Full, Bare
  <2> QED
    BY <2>2, <2>3
<1> QED
  BY <1>2, <1>4, <1>5 DEF Enriched, m

(* The filter of active accounts leaves a booked snapshot.                 *)
LEMMA FilterIs ==
  ASSUME NEW d \in Data
  PROVE  /\ FilterExpand3(d) \in Data /\ Booked(FilterExpand3(d))
         /\ \A a : a \in DOMAIN FilterExpand3(d).accounts
                     <=> a \in DOMAIN d.accounts /\ IsActive(d, a)
         /\ \A a \in DOMAIN FilterExpand3(d).accounts :
              FilterExpand3(d).accounts[a] = d.accounts[a]
         /\ \A a \in DOMAIN d.opportunities \cap DOMAIN FilterExpand3(d).accounts :
              /\ a \in DOMAIN FilterExpand3(d).opportunities
              /\ FilterExpand3(d).opportunities[a] = d.opportunities[a]
<1> DEFINE book == {a \in DOMAIN d.accounts : IsActive(d, a)}
           f == FilterExpand3(d)
           A == Restricted(d.accounts, book)
           O == Restricted(d.opportunities, book)
<1>1. f = [accounts |-> A, opportunities |-> O]
  BY DEF FilterExpand3
<1>5. /\ \A a : a \in book <=> a \in DOMAIN d.accounts /\ IsActive(d, a)
      /\ book \subseteq DOMAIN d.accounts
  OBVIOUS
<1> HIDE DEF book
<1>2. /\ A \in PartialOf(Accounts, Account) /\ DOMAIN A = book
      /\ \A a \in book : A[a] = d.accounts[a]
  <2>1. d.accounts \in PartialOf(Accounts, Account)
    BY DEF Data
  <2>2. /\ A \in PartialOf(Accounts, Account) /\ DOMAIN A = DOMAIN d.accounts \cap book
        /\ \A a \in DOMAIN d.accounts \cap book : A[a] = d.accounts[a]
    BY <2>1, RestrictedPartial, RestrictedValue
  <2> QED
    BY <1>5, <2>2
<1>3. /\ O \in PartialOf(Accounts, {"open", "churn"}) /\ DOMAIN O = DOMAIN d.opportunities \cap book
      /\ \A a \in DOMAIN d.opportunities \cap book : O[a] = d.opportunities[a]
  <2>1. d.opportunities \in PartialOf(Accounts, {"open", "churn"})
    BY DEF Data
  <2> QED
    BY <2>1, RestrictedPartial, RestrictedValue
<1>4. \A a \in book : DOMAIN d.accounts[a] = Full
  <2> TAKE a \in book
  <2>1. a \in DOMAIN d.accounts /\ "franchise" \in DOMAIN d.accounts[a]
    BY <1>5 DEF IsActive
  <2>2. d.accounts[a] \in Account
    BY <2>1, StampsAreNumbers
  <2> QED
    BY <2>1, <2>2, FranchiseMeansFull
<1>6. /\ f.accounts = A /\ f.opportunities = O /\ f \in Data
  BY <1>1, <1>2, <1>3 DEF Data
<1> HIDE DEF f, A, O
<1>7. Booked(f)
  BY <1>2, <1>3, <1>4, <1>5, <1>6 DEF Booked, IsActive
<1> QED
  BY <1>2, <1>3, <1>5, <1>6, <1>7 DEF f

(* Salesforce's answer removes accounts, and carries churns forward.       *)
LEMMA AuthoritativeIs ==
  ASSUME NEW m \in Data, NEW sf \in Data
  PROVE  /\ Authoritative(m, sf) \in Data
         /\ DOMAIN Authoritative(m, sf).accounts \subseteq DOMAIN m.accounts
         /\ \A a \in DOMAIN Authoritative(m, sf).accounts :
              Authoritative(m, sf).accounts[a] = m.accounts[a]
         /\ \A a \in DOMAIN m.opportunities \ DOMAIN sf.opportunities :
              m.opportunities[a] = "churn" =>
                /\ a \in DOMAIN Authoritative(m, sf).opportunities
                /\ Authoritative(m, sf).opportunities[a] = "churn"
                /\ a \in DOMAIN m.accounts => a \in DOMAIN Authoritative(m, sf).accounts
<1> DEFINE R == Retained(m, sf)
           opps == IF DOMAIN sf.opportunities = {} THEN m.opportunities
                   ELSE Spread(R, sf.opportunities)
           A == Restricted(m.accounts, DOMAIN sf.accounts \cup DOMAIN opps)
<1>1. CASE DOMAIN sf.accounts = {} /\ DOMAIN sf.opportunities = {}
  BY <1>1 DEF Authoritative
<1>2. CASE ~(DOMAIN sf.accounts = {} /\ DOMAIN sf.opportunities = {})
  <2>1. Authoritative(m, sf) = [accounts |-> A, opportunities |-> opps]
    BY <1>2 DEF Authoritative
  <2>2. /\ m.opportunities \in PartialOf(Accounts, {"open", "churn"})
        /\ sf.opportunities \in PartialOf(Accounts, {"open", "churn"})
        /\ m.accounts \in PartialOf(Accounts, Account)
    BY DEF Data
  <2>3. /\ DOMAIN R = {b \in DOMAIN m.opportunities \ DOMAIN sf.opportunities :
                         m.opportunities[b] = "churn"}
        /\ \A b \in DOMAIN R : R[b] = "churn"
        /\ R \in [DOMAIN R -> {"open", "churn"}]
    BY DEF Retained
  <2> HIDE DEF R
  <2>4. R \in PartialOf(Accounts, {"open", "churn"})
    BY <2>2, <2>3, PartialIs
  <2>5. opps \in PartialOf(Accounts, {"open", "churn"})
    BY <2>2, <2>4, SpreadPartial
  <2>6. ASSUME NEW a \in DOMAIN m.opportunities, a \notin DOMAIN sf.opportunities,
               m.opportunities[a] = "churn"
        PROVE  a \in DOMAIN opps /\ opps[a] = "churn"
    <3>1. CASE DOMAIN sf.opportunities = {}
      BY <2>6, <3>1
    <3>2. CASE DOMAIN sf.opportunities # {}
      <4>1. a \in DOMAIN R /\ R[a] = "churn" /\ opps = Spread(R, sf.opportunities)
        BY <2>3, <2>6, <3>2
      <4> QED
        BY <2>6, <4>1 DEF Spread
    <3> QED
      BY <3>1, <3>2
  <2> DEFINE U == DOMAIN sf.accounts \cup DOMAIN opps
  <2> HIDE DEF opps
  <2>7. /\ A \in PartialOf(Accounts, Account)
        /\ DOMAIN A = DOMAIN m.accounts \cap (DOMAIN sf.accounts \cup DOMAIN opps)
        /\ \A a \in DOMAIN A : A[a] = m.accounts[a]
    <3>1. A = Restricted(m.accounts, U)
      OBVIOUS
    <3>2. U = DOMAIN sf.accounts \cup DOMAIN opps
      OBVIOUS
    <3> HIDE DEF U, A
    <3>3. /\ Restricted(m.accounts, U) \in PartialOf(Accounts, Account)
          /\ DOMAIN Restricted(m.accounts, U) = DOMAIN m.accounts \cap U
          /\ \A a \in DOMAIN m.accounts \cap U : Restricted(m.accounts, U)[a] = m.accounts[a]
      BY <2>2, RestrictedPartial, RestrictedValue
    <3> QED
      BY <3>1, <3>2, <3>3
  <2> HIDE DEF A
  <2>8. /\ Authoritative(m, sf).accounts = A /\ Authoritative(m, sf).opportunities = opps
        /\ Authoritative(m, sf) \in Data
    BY <2>1, <2>5, <2>7 DEF Data
  <2> QED
    BY <2>6, <2>7, <2>8
<1> QED
  BY <1>1, <1>2

-----------------------------------------------------------------------------
(* The merge of a refresh.                                                 *)

(* The payloads of a refresh that has read base, when it merges.           *)
PayloadsFit(base) ==
  /\ payload["local-snapshots"] = base
  /\ \A a \in Adapters \ {"local-snapshots", "salesforce"} : IsEnrichment(payload[a], Current)
  /\ "salesforce" \in Adapters => IsBook(payload["salesforce"], Current)

BaselineMerged == MergeIn(NoData, "local-snapshots")
EnrichmentsMerged ==
  MergeIn(MergeIn(MergeIn(BaselineMerged, "cerebro-rest"), "cerebro-glean"), "glean-mcp")

LEMMA EmptyPayloadFits ==
  ASSUME NEW n PROVE IsEnrichment(NoData, n) /\ IsBook(NoData, n)
<1>1. \A a \in DOMAIN NoData.accounts : FALSE
  BY NoDataIsData
<1> QED
  BY <1>1, NoDataIsData DEF IsEnrichment, IsBook, StampedAt

LEMMA BaselineMergedIs ==
  ASSUME Current \in Nat, NEW base \in Data, StampsUpTo(base, Current), Booked(base),
         payload["local-snapshots"] = base
  PROVE  Enriched(BaselineMerged, base)
<1> DEFINE m == MergeTwo(NoData, base)
<1>1. BaselineMerged = m
  BY SnapshotAssumption DEF BaselineMerged, MergeIn
<1>2. /\ m \in Data
      /\ DOMAIN m.accounts = DOMAIN NoData.accounts \cup DOMAIN base.accounts
      /\ m.opportunities = Spread(NoData.opportunities, base.opportunities)
      /\ \A a \in DOMAIN m.accounts :
           m.accounts[a] =
             IF a \notin DOMAIN base.accounts THEN NoData.accounts[a]
             ELSE IF a \notin DOMAIN NoData.accounts THEN base.accounts[a]
             ELSE MergeAccount(NoData.accounts[a], base.accounts[a])
  BY NoDataIsData, MergeTwoIs
<1> HIDE DEF m
<1>3. /\ DOMAIN m.accounts = DOMAIN base.accounts
      /\ \A a \in DOMAIN base.accounts : m.accounts[a] = base.accounts[a]
  BY <1>2, NoDataIsData
<1>4. m.opportunities = base.opportunities
  <2>1. base.opportunities = [x \in DOMAIN base.opportunities |-> base.opportunities[x]]
    BY PartialIs DEF Data
  <2>2. Spread(Nothing, base.opportunities) = base.opportunities
    BY <2>1, NothingIsPartial DEF Spread
  <2> QED
    BY <1>2, <2>2, NoDataIsData
<1>5. StampsUpTo(m, Current)
  BY <1>3 DEF StampsUpTo
<1>6. Fresher(m, base)
  <2>1. ASSUME NEW a \in DOMAIN base.accounts
        PROVE  AsFresh(base.accounts[a].stamp, base.accounts[a].stamp)
    BY StampsAreNumbers DEF AsFresh
  <2> QED
    BY <1>3, <2>1 DEF Fresher
<1> QED
  BY <1>1, <1>2, <1>3, <1>4, <1>5, <1>6 DEF Enriched, Booked

LEMMA EnrichmentsMergedIs ==
  ASSUME Current \in Nat, NEW base \in Data, StampsUpTo(base, Current), Booked(base),
         PayloadsFit(base)
  PROVE  Enriched(EnrichmentsMerged, base)
<1>1. ASSUME NEW d, Enriched(d, base), NEW a, a # "local-snapshots", a # "salesforce"
      PROVE  Enriched(MergeIn(d, a), base)
  <2>1. CASE a \in Adapters
    <3>1. IsEnrichment(payload[a], Current)
      BY <1>1, <2>1 DEF PayloadsFit
    <3>2. MergeIn(d, a) = MergeTwo(d, payload[a])
      BY <2>1 DEF MergeIn
    <3> QED
      BY <1>1, <3>1, <3>2, EnrichedByOne
  <2>2. CASE a \notin Adapters
    BY <1>1, <2>2 DEF MergeIn
  <2> QED
    BY <2>1, <2>2
<1>2. Enriched(BaselineMerged, base)
  BY BaselineMergedIs DEF PayloadsFit
<1>3. Enriched(MergeIn(BaselineMerged, "cerebro-rest"), base)
  BY <1>1, <1>2
<1>4. Enriched(MergeIn(MergeIn(BaselineMerged, "cerebro-rest"), "cerebro-glean"), base)
  BY <1>1, <1>3
<1>5. Enriched(EnrichmentsMerged, base)
  BY <1>1, <1>4 DEF EnrichmentsMerged
<1> QED
  BY <1>5

(* The full merge: fresh, no account of the baseline missing, and every    *)
(* account of the baseline with its franchise.                             *)
LEMMA MergedIs ==
  ASSUME Current \in Nat, NEW base \in Data, StampsUpTo(base, Current), Booked(base),
         PayloadsFit(base)
  PROVE  /\ Merged \in Data /\ StampsUpTo(Merged, Current) /\ Fresher(Merged, base)
         /\ DOMAIN base.accounts \subseteq DOMAIN Merged.accounts
         /\ \A a \in DOMAIN base.accounts : DOMAIN Merged.accounts[a] = Full
         /\ "salesforce" \notin Adapters => Enriched(Merged, base)
         /\ "salesforce" \in Adapters =>
              Merged.opportunities
                = Spread(base.opportunities, payload["salesforce"].opportunities)
<1> DEFINE d == EnrichmentsMerged
           e == payload["salesforce"]
<1>1. Enriched(d, base)
  BY EnrichmentsMergedIs
<1>2. Merged = MergeIn(d, "salesforce")
  BY DEF Merged, EnrichmentsMerged, BaselineMerged
<1> HIDE DEF d
<1>3. CASE "salesforce" \notin Adapters
  <2>1. Merged = d
    BY <1>2, <1>3 DEF MergeIn
  <2>2. \A a \in DOMAIN base.accounts : DOMAIN Merged.accounts[a] = Full
    BY <1>1, <2>1 DEF Enriched
  <2> QED
    BY <1>1, <1>3, <2>1, <2>2 DEF Enriched
<1>4. CASE "salesforce" \in Adapters
  <2>1. Merged = MergeTwo(d, e)
    BY <1>2, <1>4 DEF MergeIn
  <2>2. /\ d \in Data /\ StampsUpTo(d, Current) /\ Fresher(d, base)
        /\ DOMAIN base.accounts \subseteq DOMAIN d.accounts
        /\ d.opportunities = base.opportunities
        /\ e \in Data /\ StampedAt(e, Current)
    BY <1>1, <1>4 DEF Enriched, PayloadsFit, IsBook
  <2> HIDE DEF e
  <2>3. /\ MergeTwo(d, e) \in Data /\ StampsUpTo(MergeTwo(d, e), Current)
        /\ Fresher(MergeTwo(d, e), base)
        /\ DOMAIN base.accounts \subseteq DOMAIN MergeTwo(d, e).accounts
    BY <2>2, MergeFresher
  <2>4. /\ MergeTwo(d, e).opportunities = Spread(d.opportunities, e.opportunities)
        /\ \A a \in DOMAIN MergeTwo(d, e).accounts :
             MergeTwo(d, e).accounts[a] =
               IF a \notin DOMAIN e.accounts THEN d.accounts[a]
               ELSE IF a \notin DOMAIN d.accounts THEN e.accounts[a]
               ELSE MergeAccount(d.accounts[a], e.accounts[a])
    BY <2>2, MergeTwoIs
  <2>5. ASSUME NEW a \in DOMAIN base.accounts
        PROVE  DOMAIN Merged.accounts[a] = Full
    <3>1. a \in DOMAIN d.accounts /\ DOMAIN d.accounts[a] = Full
          /\ a \in DOMAIN Merged.accounts
      BY <1>1, <2>1, <2>3 DEF Enriched
    <3>2. CASE a \notin DOMAIN e.accounts
      BY <2>1, <2>4, <3>1, <3>2
    <3>3. CASE a \in DOMAIN e.accounts
      <4>1. d.accounts[a] \in Account /\ e.accounts[a] \in Account
        BY <2>2, <3>1, <3>3, StampsAreNumbers
      <4>2. Merged.accounts[a] = MergeAccount(d.accounts[a], e.accounts[a])
        BY <2>1, <2>4, <3>1, <3>3
      <4>3. ASSUME NEW r \in Account, NEW u \in Account, NEW v, v = MergeAccount(r, u),
                   DOMAIN r = Full
            PROVE  DOMAIN v = Full
        <5>1. DOMAIN v = DOMAIN r \cup DOMAIN u
          BY <4>3, MergeAccountIs
        <5>2. DOMAIN u \in {Bare, Full}
          BY AccountIs
        <5> QED
          BY <4>3, <5>1, <5>2 DEF Bare, Full
      <4> QED
        BY <3>1, <4>1, <4>2, <4>3
    <3> QED
      BY <3>2, <3>3
  <2> QED
    BY <1>4, <2>1, <2>2, <2>3, <2>4, <2>5 DEF e
<1> QED
  BY <1>3, <1>4

(* The new snapshot: every account active and as fresh as in the baseline; *)
(* none gone unless Salesforce answered; no churn gone that Salesforce     *)
(* leaves out.                                                             *)
LEMMA NewSnapshotIs ==
  ASSUME Current \in Nat, NEW base \in Data, StampsUpTo(base, Current), Booked(base),
         PayloadsFit(base)
  PROVE  /\ NewSnapshot \in Data /\ Booked(NewSnapshot)
         /\ StampsUpTo(NewSnapshot, Current) /\ Fresher(NewSnapshot, base)
         /\ ("salesforce" \in Adapters =>
               outcome["salesforce"] # "ok" /\ payload["salesforce"] = NoData)
            => DOMAIN base.accounts \subseteq DOMAIN NewSnapshot.accounts
         /\ \A a \in DOMAIN base.opportunities :
              base.opportunities[a] = "churn" /\ a \notin DOMAIN payload["salesforce"].opportunities
              => a \in DOMAIN NewSnapshot.opportunities /\ a \in DOMAIN NewSnapshot.accounts
<1> DEFINE sf == payload["salesforce"]
           taken == "salesforce" \in Adapters /\ outcome["salesforce"] = "ok"
           m == IF taken THEN Authoritative(Merged, sf) ELSE Merged
<1>1. /\ Merged \in Data /\ StampsUpTo(Merged, Current) /\ Fresher(Merged, base)
      /\ DOMAIN base.accounts \subseteq DOMAIN Merged.accounts
      /\ \A a \in DOMAIN base.accounts : DOMAIN Merged.accounts[a] = Full
      /\ "salesforce" \notin Adapters => Enriched(Merged, base)
      /\ "salesforce" \in Adapters =>
           Merged.opportunities = Spread(base.opportunities, sf.opportunities)
  BY MergedIs
<1>2. "salesforce" \in Adapters => sf \in Data
  BY DEF PayloadsFit, IsBook
<1>3. /\ m \in Data /\ DOMAIN m.accounts \subseteq DOMAIN Merged.accounts
      /\ \A a \in DOMAIN m.accounts : m.accounts[a] = Merged.accounts[a]
  <2>1. CASE taken
    BY <1>1, <1>2, <2>1, AuthoritativeIs
  <2>2. CASE ~taken
    BY <1>1, <2>2
  <2> QED
    BY <2>1, <2>2
<1>4. ASSUME NEW a \in DOMAIN base.opportunities, base.opportunities[a] = "churn",
             a \notin DOMAIN sf.opportunities
      PROVE  /\ a \in DOMAIN m.accounts
             /\ a \in DOMAIN m.opportunities /\ m.opportunities[a] = "churn"
  <2>1. a \in DOMAIN base.accounts /\ a \in DOMAIN Merged.accounts
    BY <1>1 DEF Booked
  <2>2. a \in DOMAIN Merged.opportunities /\ Merged.opportunities[a] = "churn"
    <3>1. CASE "salesforce" \in Adapters
      BY <1>1, <1>4, <3>1 DEF Spread
    <3>2. CASE "salesforce" \notin Adapters
      BY <1>1, <1>4, <3>2 DEF Enriched
    <3> QED
      BY <3>1, <3>2
  <2>3. CASE taken
    BY <1>1, <1>2, <1>4, <2>1, <2>2, <2>3, AuthoritativeIs
  <2>4. CASE ~taken
    BY <2>1, <2>2, <2>4
  <2> QED
    BY <2>3, <2>4
<1> HIDE DEF m
<1>5. NewSnapshot = FilterExpand3(m)
  BY DEF NewSnapshot, m
<1>6. /\ FilterExpand3(m) \in Data /\ Booked(FilterExpand3(m))
      /\ \A a : a \in DOMAIN FilterExpand3(m).accounts
                  <=> a \in DOMAIN m.accounts /\ IsActive(m, a)
      /\ \A a \in DOMAIN FilterExpand3(m).accounts :
           FilterExpand3(m).accounts[a] = m.accounts[a]
      /\ \A a \in DOMAIN m.opportunities \cap DOMAIN FilterExpand3(m).accounts :
           a \in DOMAIN FilterExpand3(m).opportunities
  BY <1>3, FilterIs
<1>7. \A a \in DOMAIN NewSnapshot.accounts :
        a \in DOMAIN Merged.accounts /\ NewSnapshot.accounts[a] = Merged.accounts[a]
  BY <1>3, <1>5, <1>6
<1>8. StampsUpTo(NewSnapshot, Current) /\ Fresher(NewSnapshot, base)
  BY <1>1, <1>7 DEF StampsUpTo, Fresher
<1>9. ASSUME "salesforce" \in Adapters =>
               outcome["salesforce"] # "ok" /\ payload["salesforce"] = NoData
      PROVE  DOMAIN base.accounts \subseteq DOMAIN NewSnapshot.accounts
  <2>1. m = Merged
    BY <1>9 DEF m
  <2>2. Enriched(Merged, base)
    <3>1. CASE "salesforce" \notin Adapters
      BY <1>1, <3>1
    <3>2. CASE "salesforce" \in Adapters
      <4>1. Merged = MergeTwo(EnrichmentsMerged, NoData)
        BY <1>9, <3>2 DEF Merged, EnrichmentsMerged, BaselineMerged, MergeIn
      <4> QED
        BY <4>1, EnrichmentsMergedIs, EnrichedByOne, EmptyPayloadFits
    <3> QED
      BY <3>1, <3>2
  <2>3. ASSUME NEW a \in DOMAIN base.accounts PROVE IsActive(Merged, a)
    <3>1. IsActive(base, a)
      BY DEF Booked
    <3>2. /\ DOMAIN Merged.accounts[a] = Full
          /\ Merged.accounts[a].exited = base.accounts[a].exited
          /\ Merged.opportunities = base.opportunities
      BY <2>2 DEF Enriched
    <3> QED
      BY <3>1, <3>2 DEF IsActive, Full
  <2> QED
    BY <1>1, <1>5, <1>6, <2>1, <2>3
<1>10. ASSUME NEW a \in DOMAIN base.opportunities, base.opportunities[a] = "churn",
              a \notin DOMAIN sf.opportunities
       PROVE  a \in DOMAIN NewSnapshot.opportunities /\ a \in DOMAIN NewSnapshot.accounts
  <2>1. /\ a \in DOMAIN m.accounts
        /\ a \in DOMAIN m.opportunities /\ m.opportunities[a] = "churn"
    BY <1>4, <1>10
  <2>2. m.accounts[a] = Merged.accounts[a] /\ DOMAIN Merged.accounts[a] = Full
    BY <1>1, <1>3, <2>1 DEF Booked
  <2>3. IsActive(m, a)
    BY <2>1, <2>2 DEF IsActive, Full
  <2> QED
    BY <1>5, <1>6, <2>1, <2>3
<1> QED
  BY <1>5, <1>6, <1>8, <1>9, <1>10

-----------------------------------------------------------------------------
(* The inductive invariant.                                                *)

Status == Served \cup {"running", "failed", "pruned"}
Run == [status : Status, written : SUBSET Tables, data : Data]

Types ==
  /\ runs \in Seq(Run) /\ Len(runs) <= MaxRuns
  /\ phase \in {"idle", "prefetch", "fetch", "persist", "publish", "complete",
                "prune"}
  /\ prior \in PartialOf(Accounts, Account)
  /\ outcome \in [Adapters -> {"pending", "ok", "failed"}]
  /\ payload \in [Adapters -> Data]

(* Every snapshot that is kept is a book of active accounts, of the past.  *)
RunsBooked ==
  \A r \in 1..Len(runs) : Booked(runs[r].data) /\ StampsUpTo(runs[r].data, Len(runs))

ServedWhole == \A r \in ServedRuns : runs[r].written = Tables

(* What the present run has written, by phase.                             *)
RunProceeds ==
  phase \notin {"idle", "prune"} =>
    /\ Current \in 1..Len(runs) /\ runs[Current].status = "running"
    /\ phase = "publish" => runs[Current].written = {"accounts", "opportunities"}
    /\ phase = "complete" => runs[Current].written = Tables

(* What the adapters have returned while they fetch; nothing afterwards.   *)
AdaptersAnswer ==
  /\ phase = "fetch" =>
       /\ payload["local-snapshots"] =
            IF outcome["local-snapshots"] = "ok" THEN ServedData ELSE NoData
       /\ \A a \in Adapters \ {"local-snapshots", "salesforce"} :
            IsEnrichment(payload[a], Current)
       /\ "salesforce" \in Adapters =>
            /\ IsBook(payload["salesforce"], Current)
            /\ outcome["salesforce"] # "ok" => payload["salesforce"] = NoData
  /\ phase # "fetch" => \A a \in Adapters : payload[a] = NoData
  /\ phase \in {"idle", "prefetch", "prune"} =>
       \A a \in Adapters : outcome[a] = "pending"

(* The snapshot about to be served is as fresh as the served one, and      *)
(* without Salesforce as large, if the served one was read.                *)
NewKeepsUp ==
  phase \in {"persist", "publish", "complete"} /\ HasBaseline =>
    /\ Fresher(runs[Current].data, ServedData)
    /\ ~HasSalesforce =>
         DOMAIN ServedData.accounts \subseteq DOMAIN runs[Current].data.accounts

RefreshIInv ==
  /\ Types /\ RunsBooked /\ ServedWhole /\ RunProceeds /\ AdaptersAnswer
  /\ NewKeepsUp

-----------------------------------------------------------------------------
(* The served run.                                                         *)

LEMMA RunsAre ==
  Types => /\ Current \in Nat /\ Current <= MaxRuns /\ Current = Len(runs)
           /\ \A r \in 1..Len(runs) : /\ runs[r] \in Run /\ runs[r].data \in Data
                                      /\ runs[r].written \subseteq Tables
                                      /\ runs[r].status \in Status
<1> HIDE DEF Run
<1>1. Types => /\ Current \in Nat /\ Current <= MaxRuns /\ Current = Len(runs)
               /\ \A r \in 1..Len(runs) : runs[r] \in Run
  BY DEF Types, Current
<1> USE DEF Run
<1>2. \A x \in Run : x.data \in Data /\ x.written \subseteq Tables /\ x.status \in Status
  OBVIOUS
<1> QED
  BY <1>1, <1>2

LatestIsGreatest ==
  /\ ServedRuns \subseteq 1..Len(runs) /\ Len(runs) \in Nat
  /\ ServedRuns = {} => LatestSuccessful = 0
  /\ ServedRuns # {} => LatestSuccessful \in ServedRuns
  /\ \A s \in ServedRuns : s <= LatestSuccessful

LEMMA ServedIs == Types => LatestIsGreatest
<1> SUFFICES ASSUME Types PROVE LatestIsGreatest
  OBVIOUS
<1>1. Len(runs) \in Nat
  BY DEF Types
<1>2. ServedRuns \subseteq 1..Len(runs)
  BY DEF ServedRuns
<1>3. IsFiniteSet(1..Len(runs))
  <2>1. 1 \in Int /\ Len(runs) \in Int
    BY <1>1
  <2> QED
    BY <2>1, FS_Interval
<1>4. IsFiniteSet(ServedRuns)
  BY <1>2, <1>3, FS_Subset
<1>5. ASSUME ServedRuns # {}
      PROVE  /\ LatestSuccessful \in ServedRuns
             /\ \A s \in ServedRuns : s <= LatestSuccessful
  <2>1. ServedRuns \subseteq Nat
    BY <1>1, <1>2
  <2>2. \E r \in ServedRuns : \A s \in ServedRuns : s <= r
    BY <1>4, <1>5, <2>1, GreatestExists
  <2> QED
    BY <1>5, <2>2 DEF LatestSuccessful
<1>6. ServedRuns = {} => LatestSuccessful = 0
  BY DEF LatestSuccessful
<1> QED
  BY <1>1, <1>2, <1>5, <1>6 DEF LatestIsGreatest

LEMMA ServedIsNext == Types' => LatestIsGreatest'
BY ServedIs, PTL

LEMMA ServedDataIs ==
  ASSUME RefreshIInv
  PROVE  /\ ServedData \in Data /\ Booked(ServedData) /\ StampsUpTo(ServedData, Current)
         /\ LatestSuccessful # 0 =>
              LatestSuccessful \in 1..Len(runs) /\ ServedData = runs[LatestSuccessful].data
<1>1. CASE LatestSuccessful = 0
  <2>1. ServedData = NoData
    BY <1>1 DEF ServedData, SnapshotOf
  <2>2. Booked(NoData) /\ StampsUpTo(NoData, Current)
    BY NoDataIsData DEF Booked, StampsUpTo
  <2> QED
    BY <1>1, <2>1, <2>2, NoDataIsData
<1>2. CASE LatestSuccessful # 0
  <2> DEFINE r == LatestSuccessful
  <2>1. r \in ServedRuns /\ r \in 1..Len(runs)
    BY <1>2, ServedIs DEF RefreshIInv, LatestIsGreatest
  <2>2. runs[r].written = Tables
    BY <2>1 DEF RefreshIInv, ServedWhole
  <2>3. ServedData = [accounts |-> runs[r].data.accounts,
                      opportunities |-> runs[r].data.opportunities]
    BY <1>2, <2>2 DEF ServedData, SnapshotOf, Tables
  <2>4. runs[r].data \in Data /\ Booked(runs[r].data) /\ StampsUpTo(runs[r].data, Current)
    BY <2>1, RunsAre DEF RefreshIInv, RunsBooked
  <2>5. ServedData = runs[r].data
    BY <2>3, <2>4 DEF Data
  <2> QED
    BY <2>1, <2>4, <2>5
<1> QED
  BY <1>1, <1>2

(* What is served depends on the served runs only.                         *)
LEMMA ServedSame ==
  ASSUME Types, ServedRuns' = ServedRuns, \A r \in ServedRuns : runs'[r] = runs[r]
  PROVE  LatestSuccessful' = LatestSuccessful /\ ServedData' = ServedData
<1>1. LatestSuccessful' = LatestSuccessful
  BY DEF LatestSuccessful
<1>2. LatestSuccessful # 0 => LatestSuccessful \in ServedRuns
  BY ServedIs DEF LatestIsGreatest
<1>3. LatestSuccessful # 0 => runs'[LatestSuccessful] = runs[LatestSuccessful]
  BY <1>2
<1> QED
  BY <1>1, <1>3 DEF ServedData, SnapshotOf

(* Nothing about the runs changes.                                         *)
LEMMA RunsUnchanged ==
  ASSUME RefreshIInv, UNCHANGED runs
  PROVE  /\ Current' = Current /\ ServedRuns' = ServedRuns
         /\ LatestSuccessful' = LatestSuccessful /\ ServedData' = ServedData
         /\ RunsBooked' /\ ServedWhole'
<1>1. ServedRuns' = ServedRuns
  BY DEF ServedRuns
<1>2. \A r \in ServedRuns : runs'[r] = runs[r]
  OBVIOUS
<1>3. LatestSuccessful' = LatestSuccessful /\ ServedData' = ServedData
  BY <1>1, <1>2, ServedSame DEF RefreshIInv
<1>4. RunsBooked'
  BY DEF RefreshIInv, RunsBooked, Booked, IsActive, StampsUpTo
<1>5. ServedWhole'
  BY <1>1 DEF RefreshIInv, ServedWhole
<1> QED
  BY <1>1, <1>3, <1>4, <1>5 DEF Current

-----------------------------------------------------------------------------
(* The steps that fetch.                                                   *)

LEMMA EnrichmentIs ==
  ASSUME Current \in 1..MaxRuns, NEW source \in Sources, NEW S, S \subseteq Accounts
  PROVE  IsEnrichment(Enrichment(source, S), Current)
<1> DEFINE f == Fetched(source)
           g == Stamped(source)
           e == Enrichment(source, S)
<1>1. g \in Stamps /\ \A s \in DOMAIN g : g[s] = Current
  <2>1. g = [s \in {source} |-> Current]
    BY DEF Stamped
  <2>2. DOMAIN g \subseteq Sources /\ g \in [DOMAIN g -> 1..MaxRuns]
    BY <2>1
  <2> QED
    BY <2>1, <2>2, PartialIs DEF Stamps
<1>2. f = [stamp |-> g]
  BY DEF Fetched
<1> HIDE DEF g
<1>3. /\ f = [x \in DOMAIN f |-> f[x]] /\ DOMAIN f = Bare /\ f.stamp = g
      /\ Bare # Full
  BY <1>2 DEF Bare, Full
<1>4. f \in Account
  BY <1>1, <1>3, AccountIs
<1> HIDE DEF f
<1>5. /\ e.accounts = [a \in S |-> f] /\ e.opportunities = Nothing
      /\ e = [accounts |-> e.accounts, opportunities |-> e.opportunities]
  BY DEF Enrichment, f
<1> HIDE DEF e
<1>6. e.accounts \in PartialOf(Accounts, Account)
  BY <1>4, <1>5, PartialIs
<1>7. e \in Data
  BY <1>5, <1>6, NothingIsPartial DEF Data
<1>8. StampedAt(e, Current)
  BY <1>1, <1>3, <1>5 DEF StampedAt
<1>9. IsEnrichment(e, Current)
  BY <1>3, <1>5, <1>7, <1>8 DEF IsEnrichment
<1> QED
  BY <1>9 DEF e

LEMMA SalesforceIs ==
  ASSUME Current \in 1..MaxRuns, NEW p \in FromSalesforce
  PROVE  IsBook(p, Current)
<1>1. PICK book \in [Accounts -> {"absent", "active", "exited"}],
           opps \in [Accounts -> {"none", "open", "churn"}] :
        p = BookOf(book, opps)
  BY DEF FromSalesforce
<1> DEFINE S == {b \in Accounts : book[b] # "absent"}
           U == {b \in Accounts : opps[b] # "none"}
           g == Stamped("salesforce")
           R(a) == [franchise |-> TRUE, exited |-> book[a] = "exited", stamp |-> g]
<1>2. g \in Stamps /\ \A s \in DOMAIN g : g[s] = Current
  <2>1. g = [s \in {"salesforce"} |-> Current]
    BY DEF Stamped
  <2>2. DOMAIN g \subseteq Sources /\ g \in [DOMAIN g -> 1..MaxRuns]
    BY <2>1 DEF Sources
  <2> QED
    BY <2>1, <2>2, PartialIs DEF Stamps
<1> HIDE DEF g
<1>3. ASSUME NEW a PROVE R(a) \in Account /\ DOMAIN R(a) = Full /\ R(a).stamp = g
  <2>1. R(a) \in [franchise : {TRUE}, exited : BOOLEAN, stamp : Stamps]
    BY <1>2
  <2>2. R(a) \in Account
    BY <2>1 DEF Account, Stamps
  <2> QED
    BY <2>2 DEF Full
<1>4. /\ p.accounts = [a \in S |-> R(a)] /\ p.opportunities = Restricted(opps, U)
      /\ p = [accounts |-> p.accounts, opportunities |-> p.opportunities]
  BY <1>1 DEF BookOf, g
<1>5. /\ DOMAIN p.accounts = S
      /\ \A a \in S : p.accounts[a] \in Account /\ DOMAIN p.accounts[a] = Full
                      /\ p.accounts[a].stamp = g
  <2>1. \A a \in S : p.accounts[a] = R(a)
    BY <1>4
  <2> HIDE DEF R
  <2> QED
    BY <1>3, <1>4, <2>1
<1>6. p.accounts \in PartialOf(Accounts, Account)
  <2>1. p.accounts \in [S -> Account] /\ S \subseteq Accounts
    BY <1>4, <1>5
  <2> QED
    BY <1>5, <2>1, PartialIs
<1>7. p.opportunities \in PartialOf(Accounts, {"open", "churn"})
  <2>1. p.opportunities = [a \in Accounts \cap U |-> opps[a]]
    BY <1>4 DEF Restricted
  <2>2. \A a \in Accounts \cap U : opps[a] \in {"open", "churn"}
    OBVIOUS
  <2>3. DOMAIN p.opportunities = Accounts \cap U
        /\ p.opportunities \in [Accounts \cap U -> {"open", "churn"}]
    BY <2>1, <2>2
  <2> QED
    BY <2>3, PartialIs
<1>8. p \in Data
  BY <1>4, <1>6, <1>7 DEF Data
<1>9. StampedAt(p, Current)
  BY <1>2, <1>5 DEF StampedAt
<1> QED
  BY <1>5, <1>8, <1>9 DEF IsBook

LEMMA AdapterNames ==
  /\ "local-snapshots" \in Adapters
  /\ \A a \in Adapters : a \in {"local-snapshots", "cerebro-rest", "cerebro-glean",
                                "glean-mcp", "salesforce"}
<1>1. \A i \in 1..Len(ExecOrder) :
        ExecOrder[i] \in {"local-snapshots", "cerebro-rest", "cerebro-glean",
                          "glean-mcp", "salesforce"}
  BY DEF ExecOrder
<1> QED
  BY <1>1, SnapshotAssumption

(* What Payloads offers is what the invariant expects of the adapter.      *)
LEMMA PayloadIs ==
  ASSUME RefreshIInv, phase = "fetch", NEW a \in Adapters, NEW p \in Payloads(a)
  PROVE  /\ p \in Data
         /\ a = "local-snapshots" => p = ServedData
         /\ a \notin {"local-snapshots", "salesforce"} => IsEnrichment(p, Current)
         /\ a = "salesforce" => IsBook(p, Current)
<1>1. Current \in 1..MaxRuns
  <2>1. Current \in 1..Len(runs) /\ Len(runs) <= MaxRuns /\ Len(runs) \in Nat
    BY ServedIs DEF RefreshIInv, Types, RunProceeds, LatestIsGreatest
  <2> QED
    BY <2>1, SnapshotAssumption
<1>2. Enrichable \subseteq Accounts /\ DOMAIN prior \cap Enrichable \subseteq Accounts
  BY SnapshotAssumption
<1>3. ASSUME NEW source \in Sources, NEW S \in SUBSET Accounts,
             p = Enrichment(source, S)
      PROVE  p \in Data /\ IsEnrichment(p, Current)
  <2>1. IsEnrichment(p, Current)
    BY <1>1, <1>3, EnrichmentIs
  <2> QED
    BY <2>1 DEF IsEnrichment
<1>4. CASE a = "local-snapshots"
  <2>1. p = ServedData
    BY <1>4 DEF Payloads
  <2> QED
    BY <1>4, <2>1, ServedDataIs
<1>5. CASE a = "cerebro-rest"
  <2>1. PICK S \in SUBSET (DOMAIN prior \cap Enrichable) : p = Enrichment("cerebro", S)
    BY <1>5 DEF Payloads
  <2>2. S \in SUBSET Accounts /\ "cerebro" \in Sources
    BY <1>2 DEF Sources
  <2> QED
    BY <1>3, <1>5, <2>1, <2>2
<1>6. CASE a = "cerebro-glean"
  <2>1. PICK S \in IF DOMAIN prior \subseteq Covered THEN {{}} ELSE SUBSET Enrichable :
          p = Enrichment("cerebro", S)
    BY <1>6 DEF Payloads
  <2>2. S \in SUBSET Accounts /\ "cerebro" \in Sources
    BY <1>2 DEF Sources
  <2> QED
    BY <1>3, <1>6, <2>1, <2>2
<1>7. CASE a = "glean-mcp"
  <2>1. PICK S \in SUBSET (DOMAIN prior \cap Enrichable) : p = Enrichment("glean-mcp", S)
    BY <1>7 DEF Payloads
  <2>2. S \in SUBSET Accounts /\ "glean-mcp" \in Sources
    BY <1>2 DEF Sources
  <2> QED
    BY <1>3, <1>7, <2>1, <2>2
<1>8. CASE a = "salesforce"
  <2>1. p \in FromSalesforce
    BY <1>8 DEF Payloads
  <2>2. IsBook(p, Current)
    BY <1>1, <2>1, SalesforceIs
  <2> QED
    BY <1>8, <2>2 DEF IsBook
<1> QED
  BY <1>4, <1>5, <1>6, <1>7, <1>8, AdapterNames

(* One or both of a pair of fetches end.                                   *)
LEMMA FetchSteps ==
  ASSUME RefreshIInv,
         \/ \E a \in Adapters : FetchReturns(a) \/ FetchFails(a)
         \/ PairReturns \/ PairFails
  PROVE  RefreshIInv'
<1>1. phase = "fetch" /\ UNCHANGED <<runs, phase, prior>>
  BY DEF FetchReturns, FetchFails, PairReturns, PairFails, Ready, PairReady
<1>2. /\ Current' = Current /\ ServedData' = ServedData /\ ServedRuns' = ServedRuns
      /\ RunsBooked' /\ ServedWhole'
  BY <1>1, RunsUnchanged
<1>3. RunProceeds' /\ NewKeepsUp'
  BY <1>1, <1>2 DEF RefreshIInv, RunProceeds, NewKeepsUp
<1>4. /\ payload \in [Adapters -> Data]
      /\ outcome \in [Adapters -> {"pending", "ok", "failed"}]
  BY DEF RefreshIInv, Types
<1>5. /\ payload["local-snapshots"] =
           IF outcome["local-snapshots"] = "ok" THEN ServedData ELSE NoData
      /\ \A a \in Adapters \ {"local-snapshots", "salesforce"} :
           IsEnrichment(payload[a], Current)
      /\ "salesforce" \in Adapters =>
           /\ IsBook(payload["salesforce"], Current)
           /\ outcome["salesforce"] # "ok" => payload["salesforce"] = NoData
  BY <1>1 DEF RefreshIInv, AdaptersAnswer
<1>6. SUFFICES
        /\ payload' \in [Adapters -> Data]
        /\ outcome' \in [Adapters -> {"pending", "ok", "failed"}]
        /\ payload'["local-snapshots"] =
             IF outcome'["local-snapshots"] = "ok" THEN ServedData ELSE NoData
        /\ \A a \in Adapters \ {"local-snapshots", "salesforce"} :
             IsEnrichment(payload'[a], Current)
        /\ "salesforce" \in Adapters =>
             /\ IsBook(payload'["salesforce"], Current)
             /\ outcome'["salesforce"] # "ok" => payload'["salesforce"] = NoData
  <2>1. Types'
    BY <1>1, <1>6 DEF RefreshIInv, Types
  <2>2. AdaptersAnswer'
    BY <1>1, <1>2, <1>6 DEF AdaptersAnswer
  <2> QED
    BY <1>2, <1>3, <2>1, <2>2 DEF RefreshIInv
<1>7. ASSUME NEW a \in Adapters, FetchReturns(a)
      PROVE  <1>6!1
  <2>1. PICK p \in Payloads(a) : payload' = [payload EXCEPT ![a] = p]
    BY <1>7 DEF FetchReturns
  <2>2. outcome' = [outcome EXCEPT ![a] = "ok"]
    BY <1>7 DEF FetchReturns
  <2>3. /\ p \in Data
        /\ a = "local-snapshots" => p = ServedData
        /\ a \notin {"local-snapshots", "salesforce"} => IsEnrichment(p, Current)
        /\ a = "salesforce" => IsBook(p, Current)
    BY <1>1, PayloadIs
  <2> QED
    BY <1>4, <1>5, <2>1, <2>2, <2>3, AdapterNames
<1>8. ASSUME NEW a \in Adapters, FetchFails(a)
      PROVE  <1>6!1
  <2>1. /\ payload' = payload /\ outcome' = [outcome EXCEPT ![a] = "failed"]
        /\ outcome[a] = "pending"
    BY <1>8 DEF FetchFails, Ready
  <2> QED
    BY <1>4, <1>5, <2>1, AdapterNames
<1>9. ASSUME PairReturns PROVE <1>6!1
  <2>1. "cerebro-glean" \in Adapters /\ "glean-mcp" \in Adapters
    BY <1>9 DEF PairReturns, PairReady, Pair
  <2>2. PICK p \in Payloads("cerebro-glean"), q \in Payloads("glean-mcp") :
          payload' = [payload EXCEPT !["cerebro-glean"] = p, !["glean-mcp"] = q]
    BY <1>9 DEF PairReturns
  <2>3. outcome' = [outcome EXCEPT !["cerebro-glean"] = "ok", !["glean-mcp"] = "ok"]
    BY <1>9 DEF PairReturns
  <2>4. /\ p \in Data /\ IsEnrichment(p, Current)
        /\ q \in Data /\ IsEnrichment(q, Current)
    BY <1>1, <2>1, PayloadIs
  <2> QED
    BY <1>4, <1>5, <2>1, <2>2, <2>3, <2>4, AdapterNames
<1>10. ASSUME PairFails PROVE <1>6!1
  <2>1. "cerebro-glean" \in Adapters /\ "glean-mcp" \in Adapters
    BY <1>10 DEF PairFails, PairReady, Pair
  <2>2. /\ payload' = payload
        /\ outcome' = [outcome EXCEPT !["cerebro-glean"] = "failed",
                                      !["glean-mcp"] = "failed"]
    BY <1>10 DEF PairFails
  <2> QED
    BY <1>4, <1>5, <2>1, <2>2, AdapterNames
<1> QED
  BY <1>7, <1>8, <1>9, <1>10

-----------------------------------------------------------------------------
(* The other steps.                                                        *)

LEMMA InitHolds == Init => RefreshIInv
<1> SUFFICES ASSUME Init PROVE RefreshIInv
  OBVIOUS
<1>1. runs = <<>> /\ Len(runs) = 0 /\ phase = "idle"
  BY DEF Init
<1>2. Types
  <2> HIDE DEF Run
  <2>1. runs \in Seq(Run)
    BY <1>1
  <2>2. prior \in PartialOf(Accounts, Account)
    BY NothingIsPartial DEF Init
  <2>3. Len(runs) <= MaxRuns
    BY <1>1, SnapshotAssumption
  <2>4. outcome \in [Adapters -> {"pending", "ok", "failed"}] /\ payload \in [Adapters -> Data]
    BY NoDataIsData DEF Init
  <2> QED
    BY <1>1, <2>1, <2>2, <2>3, <2>4 DEF Types
<1>3. RunsBooked /\ ServedWhole /\ RunProceeds /\ NewKeepsUp
  <2>1. \A r \in 1..Len(runs) : FALSE
    BY <1>1
  <2>2. RunsBooked
    BY <2>1 DEF RunsBooked
  <2>3. ServedWhole
    BY <2>1 DEF ServedWhole, ServedRuns
  <2>4. RunProceeds /\ NewKeepsUp
    BY <1>1 DEF RunProceeds, NewKeepsUp
  <2> QED
    BY <2>2, <2>3, <2>4
<1>4. AdaptersAnswer
  BY <1>1 DEF Init, AdaptersAnswer
<1> QED
  BY <1>2, <1>3, <1>4 DEF RefreshIInv

(* A snapshot of the past stays one.                                       *)
LEMMA StampsGrow ==
  ASSUME NEW d \in Data, NEW m \in Nat, NEW n \in Nat, m <= n, StampsUpTo(d, m)
  PROVE  StampsUpTo(d, n)
<1> SUFFICES ASSUME NEW a \in DOMAIN d.accounts, NEW s \in DOMAIN d.accounts[a].stamp
             PROVE  d.accounts[a].stamp[s] <= n
  BY DEF StampsUpTo
<1>1. d.accounts[a].stamp[s] \in Nat
  BY StampsAreNumbers
<1>2. d.accounts[a].stamp[s] <= m
  BY DEF StampsUpTo
<1> QED
  BY <1>1, <1>2

LEMMA EmptyIsBooked ==
  ASSUME NEW n PROVE Booked(NoData) /\ StampsUpTo(NoData, n)
BY NoDataIsData DEF Booked, StampsUpTo

LEMMA StartStep ==
  ASSUME RefreshIInv, Start PROVE RefreshIInv'
<1> DEFINE new == [status |-> "running", written |-> {}, data |-> NoData]
           n == Len(runs)
<1>1. /\ phase = "idle" /\ n < MaxRuns /\ runs' = Append(runs, new)
      /\ phase' = "prefetch" /\ UNCHANGED <<prior, outcome, payload>>
  BY DEF Start
<1>2. new \in Run
  BY NoDataIsData DEF Run, Status
<1>3. runs \in Seq(Run) /\ n \in Nat
  BY DEF RefreshIInv, Types
<1> HIDE DEF Run
<1>4. /\ runs' \in Seq(Run) /\ Len(runs') = n + 1 /\ runs'[n + 1] = new
      /\ \A r \in 1..n : runs'[r] = runs[r]
  BY <1>1, <1>2, <1>3
<1>5. 1..Len(runs') = 1..n \cup {n + 1}
  BY <1>3, <1>4
<1>6. Types'
  BY <1>1, <1>3, <1>4, SnapshotAssumption DEF RefreshIInv, Types
<1>7. RunsBooked'
  <2>1. ASSUME NEW r \in 1..n
        PROVE  Booked(runs'[r].data) /\ StampsUpTo(runs'[r].data, n + 1)
    <3>1. runs'[r] = runs[r] /\ runs[r].data \in Data
      BY <1>4, RunsAre DEF RefreshIInv
    <3>2. Booked(runs[r].data) /\ StampsUpTo(runs[r].data, n)
      BY DEF RefreshIInv, RunsBooked
    <3>3. StampsUpTo(runs[r].data, n + 1)
      BY <1>3, <3>1, <3>2, StampsGrow
    <3> QED
      BY <3>1, <3>2, <3>3
  <2>2. Booked(runs'[n + 1].data) /\ StampsUpTo(runs'[n + 1].data, n + 1)
    BY <1>4, EmptyIsBooked
  <2> QED
    BY <1>4, <1>5, <2>1, <2>2 DEF RunsBooked, Booked, IsActive
<1>8. ServedWhole'
  <2>1. ServedRuns' = ServedRuns
    BY <1>3, <1>4, <1>5 DEF ServedRuns, Served
  <2>2. \A r \in ServedRuns : runs'[r] = runs[r]
    BY <1>4 DEF ServedRuns
  <2> QED
    BY <2>1, <2>2 DEF RefreshIInv, ServedWhole
<1>9. RunProceeds' /\ NewKeepsUp'
  BY <1>1, <1>3, <1>4 DEF RunProceeds, NewKeepsUp, Current
<1>10. AdaptersAnswer'
  BY <1>1 DEF RefreshIInv, AdaptersAnswer
<1> QED
  BY <1>6, <1>7, <1>8, <1>9, <1>10 DEF RefreshIInv

LEMMA PrefetchStep ==
  ASSUME RefreshIInv, Prefetch PROVE RefreshIInv'
<1>1. /\ phase = "prefetch" /\ phase' = "fetch" /\ UNCHANGED <<runs, outcome, payload>>
      /\ prior' \in {ServedData.accounts, Nothing}
  BY DEF Prefetch
<1>2. /\ Current' = Current /\ ServedData' = ServedData
      /\ RunsBooked' /\ ServedWhole'
  BY <1>1, RunsUnchanged
<1>3. Types'
  <2>1. ServedData.accounts \in PartialOf(Accounts, Account)
    BY ServedDataIs DEF Data
  <2>2. prior' \in PartialOf(Accounts, Account)
    BY <1>1, <2>1, NothingIsPartial
  <2> QED
    BY <1>1, <2>2 DEF RefreshIInv, Types
<1>4. RunProceeds' /\ NewKeepsUp'
  BY <1>1, <1>2 DEF RefreshIInv, RunProceeds, NewKeepsUp
<1>5. AdaptersAnswer'
  <2>1. \A a \in Adapters : payload'[a] = NoData /\ outcome'[a] = "pending"
    BY <1>1 DEF RefreshIInv, AdaptersAnswer
  <2> QED
    BY <1>1, <2>1, EmptyPayloadFits, AdapterNames DEF AdaptersAnswer
<1> QED
  BY <1>2, <1>3, <1>4, <1>5 DEF RefreshIInv

(* A step that changes the present, running run only, and leaves it        *)
(* running: what is served stays.                                          *)
LEMMA RunningRunChanges ==
  ASSUME RefreshIInv, phase \notin {"idle", "prune"},
         NEW x \in Run, x.status = "running", runs' = [runs EXCEPT ![Current] = x]
  PROVE  /\ Current' = Current /\ Current \in 1..Len(runs) /\ Len(runs') = Len(runs)
         /\ runs' \in Seq(Run) /\ runs'[Current] = x
         /\ \A r \in 1..Len(runs) \ {Current} : runs'[r] = runs[r]
         /\ ServedRuns' = ServedRuns
         /\ LatestSuccessful' = LatestSuccessful /\ ServedData' = ServedData /\ ServedWhole'
         /\ Booked(x.data) /\ StampsUpTo(x.data, Current) => RunsBooked'
<1>1. Current \in 1..Len(runs) /\ runs[Current].status = "running"
  BY DEF RefreshIInv, RunProceeds
<1>2. runs \in Seq(Run)
  BY DEF RefreshIInv, Types
<1> HIDE DEF Run
<1>3. /\ runs' \in Seq(Run) /\ Len(runs') = Len(runs) /\ runs'[Current] = x
      /\ \A r \in 1..Len(runs) \ {Current} : runs'[r] = runs[r]
  BY <1>1, <1>2
<1>4. ServedRuns' = ServedRuns /\ Current \notin ServedRuns
  BY <1>1, <1>3 DEF ServedRuns, Served
<1>5. \A r \in ServedRuns : runs'[r] = runs[r]
  BY <1>3, <1>4 DEF ServedRuns
<1>6. LatestSuccessful' = LatestSuccessful /\ ServedData' = ServedData
  BY <1>4, <1>5, ServedSame DEF RefreshIInv
<1>7. ServedWhole'
  BY <1>4, <1>5 DEF RefreshIInv, ServedWhole
<1>8. ASSUME Booked(x.data), StampsUpTo(x.data, Current) PROVE RunsBooked'
  <2>1. \A r \in 1..Len(runs) :
          Booked(runs'[r].data) /\ StampsUpTo(runs'[r].data, Len(runs))
    BY <1>3, <1>8 DEF RefreshIInv, RunsBooked, Current
  <2> QED
    BY <1>3, <2>1 DEF RunsBooked, Booked, IsActive
<1> QED
  BY <1>1, <1>3, <1>4, <1>6, <1>7, <1>8 DEF Current

(* What the run about to be merged into is given.                          *)
LEMMA MergeGives ==
  ASSUME RefreshIInv, Merge
  PROVE  LET base == payload["local-snapshots"]
         IN  /\ base \in Data /\ StampsUpTo(base, Current) /\ Booked(base)
             /\ PayloadsFit(base)
             /\ HasBaseline => base = ServedData
             /\ ~HasSalesforce /\ "salesforce" \in Adapters =>
                  outcome["salesforce"] # "ok" /\ payload["salesforce"] = NoData
<1> DEFINE base == payload["local-snapshots"]
<1>1. phase = "fetch"
  BY DEF Merge
<1>2. /\ base = IF outcome["local-snapshots"] = "ok" THEN ServedData ELSE NoData
      /\ \A a \in Adapters \ {"local-snapshots", "salesforce"} :
           IsEnrichment(payload[a], Current)
      /\ "salesforce" \in Adapters =>
           /\ IsBook(payload["salesforce"], Current)
           /\ outcome["salesforce"] # "ok" => payload["salesforce"] = NoData
  BY <1>1 DEF RefreshIInv, AdaptersAnswer
<1>3. base \in Data /\ StampsUpTo(base, Current) /\ Booked(base)
  BY <1>2, ServedDataIs, EmptyIsBooked, NoDataIsData
<1>4. PayloadsFit(base)
  BY <1>2 DEF PayloadsFit
<1> QED
  BY <1>2, <1>3, <1>4 DEF HasBaseline, HasSalesforce, Succeeded

LEMMA MergeStep ==
  ASSUME RefreshIInv, Merge PROVE RefreshIInv'
<1> DEFINE base == payload["local-snapshots"]
           x == [runs[Current] EXCEPT !.data = NewSnapshot]
<1>1. /\ phase = "fetch" /\ phase' = "persist" /\ outcome' = outcome
      /\ prior' = Nothing /\ payload' = [a \in Adapters |-> NoData]
      /\ runs' = [runs EXCEPT ![Current].data = NewSnapshot]
  BY DEF Merge
<1>2. /\ base \in Data /\ StampsUpTo(base, Current) /\ Booked(base) /\ PayloadsFit(base)
      /\ HasBaseline => base = ServedData
      /\ ~HasSalesforce /\ "salesforce" \in Adapters =>
           outcome["salesforce"] # "ok" /\ payload["salesforce"] = NoData
  BY MergeGives
<1>3. Current \in Nat /\ Current \in 1..Len(runs) /\ runs[Current].status = "running"
      /\ runs[Current] \in Run
  BY <1>1, RunsAre DEF RefreshIInv, RunProceeds
<1>4. /\ NewSnapshot \in Data /\ Booked(NewSnapshot)
      /\ StampsUpTo(NewSnapshot, Current) /\ Fresher(NewSnapshot, base)
      /\ ("salesforce" \in Adapters =>
            outcome["salesforce"] # "ok" /\ payload["salesforce"] = NoData)
         => DOMAIN base.accounts \subseteq DOMAIN NewSnapshot.accounts
  BY <1>2, <1>3, NewSnapshotIs
<1>5. x \in Run /\ x.status = "running" /\ x.data = NewSnapshot
  BY <1>3, <1>4 DEF Run
<1>6. runs' = [runs EXCEPT ![Current] = x]
  BY <1>1
<1> HIDE DEF x
<1>7. /\ Current' = Current /\ Len(runs') = Len(runs) /\ runs' \in Seq(Run)
      /\ runs'[Current] = x /\ ServedData' = ServedData /\ ServedWhole' /\ RunsBooked'
  BY <1>1, <1>4, <1>5, <1>6, RunningRunChanges
<1>8. Types'
  BY <1>1, <1>7, NothingIsPartial, NoDataIsData DEF RefreshIInv, Types
<1>9. RunProceeds'
  BY <1>1, <1>3, <1>5, <1>7 DEF RunProceeds
<1>10. AdaptersAnswer'
  BY <1>1 DEF AdaptersAnswer
<1>11. NewKeepsUp'
  <2>1. HasBaseline' = HasBaseline /\ HasSalesforce' = HasSalesforce
    BY <1>1 DEF HasBaseline, HasSalesforce, Succeeded
  <2>2. HasBaseline => /\ Fresher(x.data, ServedData)
                       /\ ~HasSalesforce => DOMAIN ServedData.accounts \subseteq DOMAIN x.data.accounts
    BY <1>2, <1>4, <1>5
  <2> QED
    BY <1>7, <2>1, <2>2 DEF NewKeepsUp, Fresher, AsFresh
<1> QED
  BY <1>7, <1>8, <1>9, <1>10, <1>11 DEF RefreshIInv

(* The writers add tables to the present run.                              *)
LEMMA WriteSteps ==
  ASSUME RefreshIInv, Persist \/ Publish PROVE RefreshIInv'
<1>1. /\ phase \in {"persist", "publish"} /\ UNCHANGED fetches
      /\ \E t \in Tables :
           /\ runs' = [runs EXCEPT ![Current].written = @ \cup {t}]
           /\ \/ phase' = "persist"
              \/ phase' = "publish" /\ runs[Current].written \cup {t} = {"accounts", "opportunities"}
              \/ phase' = "complete" /\ phase = "publish" /\ t = "views"
  <2>1. CASE Persist
    BY <2>1 DEF Persist, Write, Tables
  <2>2. CASE Publish
    BY <2>2 DEF Publish, Write, Tables
  <2> QED
    BY <2>1, <2>2
<1>2. PICK t \in Tables :
        /\ runs' = [runs EXCEPT ![Current].written = @ \cup {t}]
        /\ \/ phase' = "persist"
           \/ phase' = "publish" /\ runs[Current].written \cup {t} = {"accounts", "opportunities"}
           \/ phase' = "complete" /\ phase = "publish" /\ t = "views"
  BY <1>1
<1> DEFINE w == runs[Current].written \cup {t}
           x == [runs[Current] EXCEPT !.written = w]
<1>3. Current \in Nat /\ Current \in 1..Len(runs) /\ runs[Current].status = "running"
      /\ runs[Current] \in Run /\ (phase = "publish" => runs[Current].written = {"accounts", "opportunities"})
  BY <1>1, RunsAre DEF RefreshIInv, RunProceeds
<1>4. x \in Run /\ x.status = "running" /\ x.data = runs[Current].data /\ x.written = w
  BY <1>3 DEF Run
<1>5. Booked(x.data) /\ StampsUpTo(x.data, Current)
  BY <1>3, <1>4 DEF RefreshIInv, RunsBooked, Current
<1>6. runs' = [runs EXCEPT ![Current] = x]
  BY <1>2
<1> HIDE DEF x
<1>7. /\ Current' = Current /\ Len(runs') = Len(runs) /\ runs' \in Seq(Run)
      /\ runs'[Current] = x /\ ServedData' = ServedData /\ ServedWhole' /\ RunsBooked'
  BY <1>1, <1>4, <1>5, <1>6, RunningRunChanges
<1>8. Types'
  BY <1>1, <1>2, <1>7 DEF RefreshIInv, Types, fetches
<1>9. RunProceeds'
  <2>1. phase' = "complete" => w = Tables
    BY <1>2, <1>3 DEF Tables
  <2> QED
    BY <1>2, <1>3, <1>4, <1>7, <2>1 DEF RunProceeds
<1>10. AdaptersAnswer'
  BY <1>1, <1>2 DEF RefreshIInv, AdaptersAnswer, fetches
<1>11. NewKeepsUp'
  <2>1. HasBaseline' = HasBaseline /\ HasSalesforce' = HasSalesforce
    BY <1>1 DEF HasBaseline, HasSalesforce, Succeeded, fetches
  <2>2. HasBaseline => /\ Fresher(x.data, ServedData)
                       /\ ~HasSalesforce => DOMAIN ServedData.accounts \subseteq DOMAIN x.data.accounts
    BY <1>1, <1>4 DEF RefreshIInv, NewKeepsUp
  <2> QED
    BY <1>7, <2>1, <2>2 DEF NewKeepsUp, Fresher, AsFresh
<1> QED
  BY <1>7, <1>8, <1>9, <1>10, <1>11 DEF RefreshIInv

(* The present run gets its status.                                        *)
LEMMA CompleteGives ==
  ASSUME RefreshIInv, Complete
  PROVE  /\ Current' = Current /\ Current \in 1..Len(runs) /\ Len(runs') = Len(runs)
         /\ runs' \in Seq(Run) /\ runs'[Current].status = RunStatus
         /\ runs'[Current].data = runs[Current].data /\ runs'[Current].written = Tables
         /\ \A r \in 1..Len(runs) \ {Current} : runs'[r] = runs[r]
         /\ ServedRuns' = IF RunStatus \in Served THEN ServedRuns \cup {Current}
                          ELSE ServedRuns
<1> DEFINE x == [runs[Current] EXCEPT !.status = RunStatus]
<1>1. /\ phase = "complete" /\ runs' = [runs EXCEPT ![Current].status = RunStatus]
      /\ runs \in Seq(Run)
  BY DEF Complete, RefreshIInv, Types
<1>2. Current \in Nat /\ Current \in 1..Len(runs) /\ runs[Current].status = "running"
      /\ runs[Current] \in Run /\ runs[Current].written = Tables
  BY <1>1, RunsAre DEF RefreshIInv, RunProceeds
<1>3. RunStatus \in Status
  BY DEF RunStatus, Status, Served
<1>4. x \in Run /\ x.status = RunStatus /\ x.data = runs[Current].data /\ x.written = Tables
  BY <1>2, <1>3 DEF Run
<1>5. runs' = [runs EXCEPT ![Current] = x]
  BY <1>1
<1> HIDE DEF x, Run
<1>6. /\ runs' \in Seq(Run) /\ Len(runs') = Len(runs) /\ runs'[Current] = x
      /\ \A r \in 1..Len(runs) \ {Current} : runs'[r] = runs[r]
  BY <1>1, <1>2, <1>4, <1>5
<1>7. ServedRuns' = IF RunStatus \in Served THEN ServedRuns \cup {Current} ELSE ServedRuns
  BY <1>2, <1>4, <1>6 DEF ServedRuns, Served
<1> QED
  BY <1>2, <1>4, <1>6, <1>7 DEF Current

LEMMA CompleteStep ==
  ASSUME RefreshIInv, Complete PROVE RefreshIInv'
<1>1. /\ phase = "complete" /\ phase' = "prune" /\ UNCHANGED <<prior, payload>>
      /\ outcome' = [a \in Adapters |-> "pending"]
  BY DEF Complete
<1>2. /\ Current' = Current /\ Current \in 1..Len(runs) /\ Len(runs') = Len(runs)
      /\ runs' \in Seq(Run) /\ runs'[Current].data = runs[Current].data
      /\ runs'[Current].written = Tables
      /\ \A r \in 1..Len(runs) \ {Current} : runs'[r] = runs[r]
      /\ ServedRuns' \subseteq ServedRuns \cup {Current}
  BY CompleteGives
<1>3. Types'
  BY <1>1, <1>2 DEF RefreshIInv, Types
<1>4. RunsBooked'
  <2>1. \A r \in 1..Len(runs) :
          Booked(runs'[r].data) /\ StampsUpTo(runs'[r].data, Len(runs))
    BY <1>2 DEF RefreshIInv, RunsBooked
  <2> QED
    BY <1>2, <2>1 DEF RunsBooked, Booked, IsActive
<1>5. ServedWhole'
  BY <1>2 DEF RefreshIInv, ServedWhole, ServedRuns
<1>6. RunProceeds' /\ NewKeepsUp'
  BY <1>1 DEF RunProceeds, NewKeepsUp
<1>7. AdaptersAnswer'
  BY <1>1 DEF RefreshIInv, AdaptersAnswer
<1> QED
  BY <1>3, <1>4, <1>5, <1>6, <1>7 DEF RefreshIInv

(* What pruneOldRuns leaves: the Retain newest of the kept runs.           *)
LEMMA PruneGives ==
  ASSUME RefreshIInv, Prune
  PROVE  /\ Len(runs') = Len(runs) /\ runs' \in Seq(Run)
         /\ \A r \in 1..Len(runs) : runs'[r] = IF r \in Prunable THEN Pruned ELSE runs[r]
         /\ Kept' = Kept \ Prunable
         /\ ServedRuns' = ServedRuns \ Prunable
<1>1. runs' = [r \in 1..Len(runs) |-> IF r \in Prunable THEN Pruned ELSE runs[r]]
  BY DEF Prune
<1>2. Pruned \in Run /\ Pruned.status = "pruned"
  BY NoDataIsData DEF Pruned, Run, Status
<1>3. Len(runs) \in Nat /\ \A r \in 1..Len(runs) : runs[r] \in Run
  BY RunsAre, ServedIs DEF RefreshIInv, LatestIsGreatest
<1> HIDE DEF Run
<1>4. Len(runs') = Len(runs) /\ runs' \in Seq(Run)
  BY <1>1, <1>2, <1>3
<1>5. \A r \in 1..Len(runs) : runs'[r] = IF r \in Prunable THEN Pruned ELSE runs[r]
  BY <1>1
<1>6. Kept' = Kept \ Prunable
  BY <1>2, <1>4, <1>5 DEF Kept
<1>7. ServedRuns' = ServedRuns \ Prunable
  BY <1>2, <1>4, <1>5 DEF ServedRuns, Served
<1> QED
  BY <1>4, <1>5, <1>6, <1>7

LEMMA PruneStep ==
  ASSUME RefreshIInv, Prune PROVE RefreshIInv'
<1>1. phase = "prune" /\ phase' = "idle" /\ UNCHANGED fetches
  BY DEF Prune
<1>2. /\ Len(runs') = Len(runs) /\ runs' \in Seq(Run)
      /\ \A r \in 1..Len(runs) : runs'[r] = IF r \in Prunable THEN Pruned ELSE runs[r]
      /\ ServedRuns' = ServedRuns \ Prunable
  BY PruneGives
<1>3. Types'
  BY <1>1, <1>2 DEF RefreshIInv, Types, fetches
<1>4. RunsBooked'
  <2>1. \A r \in 1..Len(runs) :
          Booked(runs'[r].data) /\ StampsUpTo(runs'[r].data, Len(runs))
    BY <1>2, EmptyIsBooked DEF RefreshIInv, RunsBooked, Pruned
  <2> QED
    BY <1>2, <2>1 DEF RunsBooked, Booked, IsActive
<1>5. ServedWhole'
  BY <1>2 DEF RefreshIInv, ServedWhole, ServedRuns
<1>6. RunProceeds' /\ NewKeepsUp'
  BY <1>1 DEF RunProceeds, NewKeepsUp
<1>7. AdaptersAnswer'
  BY <1>1 DEF RefreshIInv, AdaptersAnswer, fetches
<1> QED
  BY <1>3, <1>4, <1>5, <1>6, <1>7 DEF RefreshIInv

LEMMA AbortStep ==
  ASSUME RefreshIInv, Abort PROVE RefreshIInv'
<1>1. /\ phase' = "idle" /\ prior' = Nothing
      /\ outcome' = [a \in Adapters |-> "pending"]
      /\ payload' = [a \in Adapters |-> NoData]
  BY DEF Abort
<1>2. RunProceeds' /\ NewKeepsUp' /\ AdaptersAnswer'
  BY <1>1 DEF RunProceeds, NewKeepsUp, AdaptersAnswer
<1>3. /\ runs' \in Seq(Run) /\ Len(runs') <= MaxRuns
      /\ RunsBooked' /\ ServedWhole'
  <2>1. CASE phase = "prune"
    <3>1. runs' = runs
      BY <2>1 DEF Abort
    <3> QED
      BY <3>1, RunsUnchanged DEF RefreshIInv, Types
  <2>2. CASE phase # "prune"
    <3> DEFINE x == [runs[Current] EXCEPT !.data = NoData]
    <3>1. phase \notin {"idle", "prune"} /\ runs' = [runs EXCEPT ![Current].data = NoData]
      BY <2>2 DEF Abort
    <3>2. runs[Current] \in Run /\ runs[Current].status = "running"
      BY <3>1, RunsAre DEF RefreshIInv, RunProceeds
    <3>3. x \in Run /\ x.status = "running" /\ x.data = NoData
      BY <3>2, NoDataIsData DEF Run
    <3>4. runs' = [runs EXCEPT ![Current] = x]
      BY <3>1
    <3> HIDE DEF x
    <3>5. runs' \in Seq(Run) /\ Len(runs') = Len(runs) /\ RunsBooked' /\ ServedWhole'
      BY <3>1, <3>3, <3>4, RunningRunChanges, EmptyIsBooked
    <3> QED
      BY <3>5 DEF RefreshIInv, Types
  <2> QED
    BY <2>1, <2>2
<1>4. Types'
  BY <1>1, <1>3, NothingIsPartial, NoDataIsData DEF Types
<1> QED
  BY <1>2, <1>3, <1>4 DEF RefreshIInv

LEMMA StepHolds == RefreshIInv /\ [Next]_vars => RefreshIInv'
<1> SUFFICES ASSUME RefreshIInv, [Next]_vars PROVE RefreshIInv'
  OBVIOUS
<1>1. CASE UNCHANGED vars
  <2>1. /\ UNCHANGED <<runs, phase, prior, outcome, payload>>
        /\ Current' = Current /\ ServedData' = ServedData
        /\ RunsBooked' /\ ServedWhole'
    BY <1>1, RunsUnchanged DEF vars
  <2>2. HasBaseline' = HasBaseline /\ HasSalesforce' = HasSalesforce
    BY <2>1 DEF HasBaseline, HasSalesforce, Succeeded
  <2>3. RunProceeds' /\ NewKeepsUp' /\ AdaptersAnswer' /\ Types'
    BY <2>1, <2>2 DEF RefreshIInv, RunProceeds, NewKeepsUp, AdaptersAnswer, Types
  <2> QED
    BY <2>1, <2>3 DEF RefreshIInv
<1>2. CASE Next
  BY <1>2, StartStep, PrefetchStep, FetchSteps, MergeStep, WriteSteps, CompleteStep,
     PruneStep, AbortStep DEF Next
<1> QED
  BY <1>1, <1>2

-----------------------------------------------------------------------------
(* The theorems.                                                           *)

LEMMA InvariantHolds == Spec => []RefreshIInv
BY InitHolds, StepHolds, PTL DEF Spec

(* Whatever refreshes have thrown, and wherever: what is in the tables is  *)
(* well formed, every account of a snapshot has its franchise, and the run *)
(* that latestSuccessfulRun finds has all of its tables.                   *)
THEOREM RunsSound == Spec => []RunsInv
<1>1. RefreshIInv => RunsInv
  <2> SUFFICES ASSUME RefreshIInv PROVE RunsInv
    OBVIOUS
  <2>1. ASSUME NEW r \in 1..Len(runs)
        PROVE  /\ runs[r].status \in Served \cup {"running", "failed", "pruned"}
               /\ runs[r].written \subseteq Tables
               /\ IsData(runs[r].data)
               /\ \A a \in DOMAIN runs[r].data.accounts :
                    "franchise" \in DOMAIN runs[r].data.accounts[a]
    <3>1. /\ runs[r].data \in Data /\ runs[r].written \subseteq Tables
          /\ runs[r].status \in Status
      BY RunsAre DEF RefreshIInv
    <3>2. Booked(runs[r].data)
      BY DEF RefreshIInv, RunsBooked
    <3> QED
      BY <3>1, <3>2, DataIsData DEF Booked, Full, Status
  <2>2. \A a \in Adapters : IsData(payload[a])
    BY DataIsData DEF RefreshIInv, Types
  <2>3. TypeOK
    BY <2>1, <2>2, PartialIs DEF RefreshIInv, Types, TypeOK
  <2>4. ServedIsWhole
    BY ServedIs DEF RefreshIInv, ServedWhole, ServedIsWhole, LatestIsGreatest
  <2> QED
    BY <2>3, <2>4 DEF RunsInv
<1> QED
  BY <1>1, InvariantHolds, PTL

(* Only Complete and Prune change which runs are served.                   *)
LEMMA ServedChanges ==
  ASSUME RefreshIInv, [Next]_vars
  PROVE  Complete \/ Prune \/ ServedRuns' = ServedRuns
<1>1. CASE UNCHANGED runs
  BY <1>1 DEF ServedRuns
<1>2. CASE Start
  <2> DEFINE new == [status |-> "running", written |-> {}, data |-> NoData]
             n == Len(runs)
  <2>1. runs' = Append(runs, new) /\ runs \in Seq(Run) /\ n \in Nat
    BY <1>2 DEF Start, RefreshIInv, Types
  <2> HIDE DEF Run
  <2>2. /\ Len(runs') = n + 1 /\ \A r \in 1..n : runs'[r] = runs[r]
        /\ runs'[n + 1].status = "running"
    BY <2>1
  <2>3. 1..Len(runs') = 1..n \cup {n + 1}
    BY <2>1, <2>2
  <2> QED
    BY <2>1, <2>2, <2>3 DEF ServedRuns, Served
<1>3. ASSUME phase \notin {"idle", "prune"}, NEW d, NEW w,
             runs' = [runs EXCEPT ![Current] = [@ EXCEPT !.data = d, !.written = w]]
      PROVE  ServedRuns' = ServedRuns
  <2>1. Current \in 1..Len(runs) /\ runs[Current] \in Run /\ runs \in Seq(Run)
    BY <1>3, RunsAre DEF RefreshIInv, RunProceeds, Types
  <2>2. [runs[Current] EXCEPT !.data = d, !.written = w].status = runs[Current].status
    BY <2>1 DEF Run
  <2> HIDE DEF Run
  <2>3. Len(runs') = Len(runs) /\ \A r \in 1..Len(runs) : runs'[r].status = runs[r].status
    BY <1>3, <2>1, <2>2
  <2> QED
    BY <2>3 DEF ServedRuns
<1>4. ASSUME Current \in 1..Len(runs), NEW d
      PROVE  /\ [runs EXCEPT ![Current].data = d]
                  = [runs EXCEPT ![Current] = [@ EXCEPT !.data = d, !.written = runs[Current].written]]
             /\ [runs EXCEPT ![Current].written = d]
                  = [runs EXCEPT ![Current] = [@ EXCEPT !.data = runs[Current].data, !.written = d]]
  <2>1. runs[Current] \in Run
    BY <1>4, RunsAre DEF RefreshIInv
  <2> QED
    BY <2>1 DEF Run
<1>5. CASE Merge
  <2>1. phase \notin {"idle", "prune"} /\ Current \in 1..Len(runs)
    BY <1>5 DEF Merge, RefreshIInv, RunProceeds
  <2>2. runs' = [runs EXCEPT ![Current] = [@ EXCEPT !.data = NewSnapshot,
                                                    !.written = runs[Current].written]]
    BY <1>4, <1>5, <2>1 DEF Merge
  <2> QED
    BY <1>3, <2>1, <2>2
<1>6. CASE Persist \/ Publish
  <2>1. phase \notin {"idle", "prune"} /\ Current \in 1..Len(runs)
    BY <1>6 DEF Persist, Publish, RefreshIInv, RunProceeds
  <2>2. PICK t \in Tables : Write(t)
    BY <1>6 DEF Persist, Publish, Tables
  <2> QED
    BY <1>3, <1>4, <2>1, <2>2 DEF Write
<1>7. CASE Abort /\ phase # "prune"
  <2>1. phase \notin {"idle", "prune"} /\ Current \in 1..Len(runs)
    BY <1>7 DEF Abort, RefreshIInv, RunProceeds
  <2>2. runs' = [runs EXCEPT ![Current] = [@ EXCEPT !.data = NoData,
                                                    !.written = runs[Current].written]]
    BY <1>4, <1>7, <2>1 DEF Abort
  <2> QED
    BY <1>3, <2>1, <2>2
<1> QED
  BY <1>1, <1>2, <1>5, <1>6, <1>7
  DEF Next, Prefetch, FetchReturns, FetchFails, PairReturns, PairFails, Abort, vars

(* A new run takes the place of the served one only when it is completed   *)
(* successfully, and then the application serves what it has merged.       *)
LEMMA ReplacedByComplete ==
  ASSUME RefreshIInv, RefreshIInv', [Next]_vars, Replaces
  PROVE  /\ Complete /\ LatestSuccessful' = Current
         /\ ServedData' = runs[Current].data
<1>1. /\ ServedRuns \subseteq 1..Len(runs) /\ Len(runs) \in Nat
      /\ ServedRuns = {} => LatestSuccessful = 0
      /\ ServedRuns # {} => LatestSuccessful \in ServedRuns
      /\ \A s \in ServedRuns : s <= LatestSuccessful
  BY ServedIs DEF RefreshIInv, LatestIsGreatest
<1>2. /\ ServedRuns' = {} => LatestSuccessful' = 0
      /\ ServedRuns' # {} => LatestSuccessful' \in ServedRuns'
      /\ \A s \in ServedRuns' : s <= LatestSuccessful'
  BY ServedIsNext DEF RefreshIInv, LatestIsGreatest
<1>3. LatestSuccessful' \notin ServedRuns /\ ServedRuns' # {}
  <2>1. LatestSuccessful \in Nat
    <3>1. ServedRuns = {} => LatestSuccessful \in Nat
      BY <1>1
    <3>2. ServedRuns # {} => LatestSuccessful \in 1..Len(runs)
      BY <1>1
    <3> QED
      BY <1>1, <3>1, <3>2
  <2>2. LatestSuccessful' > LatestSuccessful
    BY DEF Replaces
  <2>3. LatestSuccessful' \notin ServedRuns
    <3> SUFFICES ASSUME LatestSuccessful' \in ServedRuns PROVE FALSE
      OBVIOUS
    <3>1. LatestSuccessful' \in Nat /\ LatestSuccessful' <= LatestSuccessful
      BY <1>1
    <3> QED
      BY <2>1, <2>2, <3>1
  <2>4. LatestSuccessful' # 0
    BY <2>1, <2>2
  <2> QED
    BY <1>2, <2>3, <2>4
<1>4. ~(ServedRuns' \subseteq ServedRuns)
  BY <1>2, <1>3
<1>5. Complete
  <2>1. Prune => ServedRuns' \subseteq ServedRuns
    BY PruneGives
  <2> QED
    BY <1>4, <2>1, ServedChanges
<1>6. /\ ServedRuns' \subseteq ServedRuns \cup {Current} /\ Current \in 1..Len(runs)
      /\ runs'[Current].data = runs[Current].data
  BY <1>5, CompleteGives
<1>7. LatestSuccessful' = Current
  BY <1>2, <1>3, <1>6
<1>8. ServedData' = runs'[LatestSuccessful'].data
  <2>1. LatestSuccessful' # 0
    BY <1>6, <1>7
  <2>2. ServedWhole' /\ LatestSuccessful' \in ServedRuns'
    BY <1>2, <1>3 DEF RefreshIInv
  <2>3. runs'[LatestSuccessful'].written = Tables
    BY <2>2 DEF ServedWhole
  <2>4. ServedData' = [accounts |-> runs'[LatestSuccessful'].data.accounts,
                       opportunities |-> runs'[LatestSuccessful'].data.opportunities]
    BY <2>1, <2>3 DEF ServedData, SnapshotOf, Tables
  <2>5. runs[Current].data \in Data
    BY <1>6, RunsAre DEF RefreshIInv
  <2> QED
    BY <1>6, <1>7, <2>4, <2>5 DEF Data
<1> QED
  BY <1>5, <1>6, <1>7, <1>8

(* No completed refresh that has read its baseline sets a source's         *)
(* freshness back, whichever adapters failed.                              *)
THEOREM FreshnessSound == Spec => FreshnessAdvances
<1>1. RefreshIInv /\ RefreshIInv' /\ [Next]_vars => [StaysFresh]_vars
  <2> SUFFICES ASSUME RefreshIInv, RefreshIInv', [Next]_vars, Replaces, HasBaseline
               PROVE  \A a \in DOMAIN ServedData.accounts \cap DOMAIN ServedData.accounts' :
                        AsFresh(ServedData.accounts'[a].stamp, ServedData.accounts[a].stamp)
    BY DEF StaysFresh
  <2>1. Complete /\ ServedData' = runs[Current].data
    BY ReplacedByComplete
  <2>2. Fresher(runs[Current].data, ServedData)
    BY <2>1 DEF RefreshIInv, NewKeepsUp, Complete
  <2> QED
    BY <2>1, <2>2 DEF Fresher
<1> QED
  BY <1>1, InvariantHolds, PTL DEF Spec, FreshnessAdvances

(* Accounts leave the book only when Salesforce has answered, and a churn  *)
(* that Salesforce omits is carried forward with its account.              *)
THEOREM BookSound == Spec => BookIsKept
<1>1. RefreshIInv /\ RefreshIInv' /\ [Next]_vars => [NoneLeaves]_vars
  <2> SUFFICES ASSUME RefreshIInv, RefreshIInv', [Next]_vars,
                      Replaces, HasBaseline, ~HasSalesforce
               PROVE  DOMAIN ServedData.accounts \subseteq DOMAIN ServedData.accounts'
    BY DEF NoneLeaves
  <2>1. Complete /\ ServedData' = runs[Current].data
    BY ReplacedByComplete
  <2>2. DOMAIN ServedData.accounts \subseteq DOMAIN runs[Current].data.accounts
    BY <2>1 DEF RefreshIInv, NewKeepsUp, Complete
  <2> QED
    BY <2>1, <2>2
<1>2. RefreshIInv /\ [Next]_vars => [ChurnCarried]_vars
  <2> SUFFICES ASSUME RefreshIInv, [Next]_vars, phase = "fetch", phase' = "persist",
                      NEW a \in DOMAIN payload["local-snapshots"].opportunities,
                      payload["local-snapshots"].opportunities[a] = "churn",
                      a \notin DOMAIN payload["salesforce"].opportunities
               PROVE  /\ a \in DOMAIN runs'[Current].data.opportunities
                      /\ a \in DOMAIN runs'[Current].data.accounts
    BY DEF ChurnCarried
  <2>1. Merge
    BY DEF Next, vars, Start, Prefetch, FetchReturns, FetchFails, PairReturns, PairFails,
           Persist, Publish, Complete, Prune, Abort
  <2> DEFINE base == payload["local-snapshots"]
  <2>2. base \in Data /\ StampsUpTo(base, Current) /\ Booked(base) /\ PayloadsFit(base)
    BY <2>1, MergeGives
  <2>3. Current \in Nat /\ Current \in 1..Len(runs) /\ runs[Current] \in Run
    BY RunsAre DEF RefreshIInv, RunProceeds
  <2>4. a \in DOMAIN NewSnapshot.opportunities /\ a \in DOMAIN NewSnapshot.accounts
    BY <2>2, <2>3, NewSnapshotIs
  <2>5. runs' = [runs EXCEPT ![Current].data = NewSnapshot] /\ runs \in Seq(Run)
    BY <2>1 DEF Merge, RefreshIInv, Types
  <2>6. runs'[Current].data = NewSnapshot
    <3>1. runs'[Current] = [runs[Current] EXCEPT !.data = NewSnapshot]
      <4> HIDE DEF Run
      <4> QED
        BY <2>3, <2>5
    <3> QED
      BY <2>3, <3>1 DEF Run
  <2> QED
    BY <2>4, <2>6
<1> QED
  BY <1>1, <1>2, InvariantHolds, PTL
  DEF Spec, BookIsKept, OnlySalesforceRemoves, ChurnCarriedForward

(* The last served run is pruned only when Retain newer runs were kept,    *)
(* all of them unsuccessful.                                               *)
THEOREM ServedRunSurvives == Spec => ServedSurvives
<1>1. RefreshIInv /\ RefreshIInv' /\ [Next]_vars => [EvictedByMany]_vars
  <2> SUFFICES ASSUME RefreshIInv, RefreshIInv', [Next]_vars,
                      LatestSuccessful # 0, LatestSuccessful' = 0
               PROVE  Cardinality({r \in Kept' : runs'[r].status \notin Served}) >= Retain
    BY DEF EvictedByMany
  <2>1. /\ LatestSuccessful \in ServedRuns /\ LatestSuccessful \in 1..Len(runs)
        /\ Len(runs) \in Nat
    BY ServedIs DEF RefreshIInv, LatestIsGreatest
  <2>2. ServedRuns' = {}
    <3>1. ServedRuns' # {} => LatestSuccessful' \in ServedRuns' /\ ServedRuns' \subseteq 1..Len(runs')
      BY ServedIsNext DEF RefreshIInv, LatestIsGreatest
    <3>2. 0 \notin 1..Len(runs')
      OBVIOUS
    <3> QED
      BY <3>1, <3>2
  <2>3. Prune
    <3>1. Complete => ServedRuns \subseteq ServedRuns'
      BY CompleteGives
    <3> QED
      BY <2>1, <2>2, <3>1, ServedChanges
  <2>4. Kept' = Kept \ Prunable /\ ServedRuns' = ServedRuns \ Prunable
        /\ Len(runs') = Len(runs)
    BY <2>3, PruneGives
  <2>5. Retain \in Nat
    BY SnapshotAssumption
  <2>6. Kept \subseteq Nat /\ IsFiniteSet(Kept)
    <3>1. Kept \subseteq 1..Len(runs) /\ 1 \in Int /\ Len(runs) \in Int
      BY <2>1 DEF Kept
    <3>2. IsFiniteSet(1..Len(runs))
      BY <3>1, FS_Interval
    <3> QED
      <4>1. IsFiniteSet(Kept)
        BY <3>1, <3>2, FS_Subset
      <4>2. 1..Len(runs) \subseteq Nat
        BY <2>1
      <4> QED
        BY <3>1, <4>1, <4>2
  <2>7. \A r \in Kept : Cardinality(Above(Kept, r)) \in Nat
                        /\ Cardinality(Above(Kept, r)) < Cardinality(Kept)
    BY <2>6, AboveIsSmaller
  <2>8. Prunable = {r \in Kept : Cardinality(Above(Kept, r)) >= Retain}
    BY DEF Prunable, Above
  <2>9. Kept' = Greatest(Kept, Retain)
    <3> DEFINE c(r) == Cardinality(Above(Kept, r))
    <3>1. \A r \in Kept : ~(c(r) >= Retain) <=> c(r) < Retain
      BY <2>5, <2>7
    <3>2. Kept' = {r \in Kept : ~(c(r) >= Retain)}
      BY <2>4, <2>8
    <3>3. Greatest(Kept, Retain) = {r \in Kept : c(r) < Retain}
      BY DEF Greatest
    <3> HIDE DEF c
    <3> QED
      BY <3>1, <3>2, <3>3
  <2>10. Retain <= Cardinality(Kept)
    <3> DEFINE l == LatestSuccessful
    <3>1. l \in Prunable
      BY <2>1, <2>2, <2>4
    <3>2. l \in Kept /\ Cardinality(Above(Kept, l)) >= Retain
      BY <2>8, <3>1
    <3>3. Cardinality(Kept) \in Nat
      BY <2>6, FS_CardinalityType
    <3> QED
      BY <2>5, <2>7, <3>2, <3>3
  <2>11. Retain <= Cardinality(Kept') /\ Cardinality(Kept') \in Nat
    BY <2>5, <2>6, <2>9, <2>10, GreatestMany, FS_CardinalityType
  <2>12. {r \in Kept' : runs'[r].status \notin Served} = Kept'
    BY <2>2 DEF Kept, ServedRuns
  <2> QED
    BY <2>5, <2>11, <2>12
<1> QED
  BY <1>1, InvariantHolds, PTL DEF Spec, ServedSurvives

-----------------------------------------------------------------------------
(* Page loads: the inductive invariant.                                    *)

WasServed(i) == i \in 1..Len(started) /\ started[i].status = "served"
RunRow == [day : Nat, status : {"running", "failed", "served"}, value : Nat]
ChainSteps == {"off", "latest", "old enough", "fallback", "read", "over"}

LoadTypes ==
  /\ day \in Nat
  /\ started \in Seq(RunRow) /\ kept \subseteq 1..Len(started)
  /\ loading \in {{}, {"dashboard"}, Chains}
  /\ ofViews \in Nat \cup {Unread} /\ views \in Nat \cup {Unread}
  /\ at \in [Chains -> ChainSteps]
  /\ curr \in [Chains -> Nat] /\ prev \in [Chains -> Nat]
  /\ seen \in [Chains -> [Reads -> Nat \cup {Unread}]]
  /\ quiet \in BOOLEAN

(* Runs are started one at a time, and the newest are kept.                *)
RunsInOrder ==
  /\ \A i \in 1..Len(started) : started[i].day <= day
  /\ \A i, j \in 1..Len(started) : i <= j => started[i].day <= started[j].day
  /\ \A i \in 1..Len(started) - 1 : started[i].status # "running"
  /\ \A i \in kept : \A j \in 1..Len(started) : i < j => j \in kept
  /\ \A i \in (1..Len(started)) \ kept : Len(started) - i >= KeptRuns

(* The views are looked for first, and are those of a run that was served. *)
ViewsComeFirst ==
  /\ loading = {} => ofViews = Unread /\ \A c \in Chains : at[c] = "off"
  /\ at["dashboard"] = "off" <=> ofViews = Unread
  /\ ofViews = Unread => views = Unread
  /\ ofViews = 0 => views = 0 /\ at["dashboard"] = "over" /\ curr["dashboard"] = 0
  /\ ofViews > 0 => WasServed(ofViews) /\ views \in {Unread, 0, started[ofViews].value}

(* What a chain has found so far.                                          *)
Target(c, read) == IF read = "now" THEN curr[c] ELSE prev[c]

ChainProceeds(c) ==
  /\ at[c] \in {"off", "latest"} => curr[c] = 0
  /\ at[c] \in {"old enough", "fallback", "read"} => curr[c] # 0
  /\ at[c] \in {"off", "latest", "old enough", "fallback"} => prev[c] = 0
  /\ at[c] = "read" => prev[c] # 0
  /\ curr[c] = 0 => prev[c] = 0
  /\ curr[c] # 0 => WasServed(curr[c])
  /\ prev[c] # 0 => WasServed(prev[c])
  /\ \A read \in Reads : seen[c][read] # Unread =>
       prev[c] # 0 /\ seen[c][read] \in {0, started[Target(c, read)].value}
  /\ at[c] = "over" /\ prev[c] # 0 => \A read \in Reads : seen[c][read] # Unread

(* A baseline that is newer than its run was the only choice.              *)
LeadsForward(c) ==
  prev[c] > curr[c] => \A i \in 1..(curr[c] - 1) : i \notin kept \/ started[i].status # "served"

ChainsProceed == \A c \in Chains : ChainProceeds(c) /\ LeadsForward(c)

(* As long as nothing disturbs the load, everything that it has found is   *)
(* what it would find now.                                                 *)
Baseline(i) == IF OldEnough(i) # 0 THEN OldEnough(i) ELSE Fallback(i)

ChainIsCurrent(c) ==
  /\ at[c] \notin {"off", "latest"} => curr[c] = Newest(ServedNow)
  /\ at[c] = "fallback" => OldEnough(curr[c]) = 0
  /\ at[c] \in {"read", "over"} /\ curr[c] # 0 => prev[c] = Baseline(curr[c])
  /\ \A read \in Reads : seen[c][read] # Unread => seen[c][read] = started[Target(c, read)].value

QuietSoFar ==
  quiet => /\ ofViews # Unread => ofViews = Newest(ServedNow)
           /\ ofViews > 0 /\ views # Unread => views = started[ofViews].value
           /\ \A c \in Chains : ChainIsCurrent(c)

LoadIInv ==
  /\ LoadTypes /\ RunsInOrder /\ ViewsComeFirst /\ ChainsProceed
  /\ ViewsAreNotNewer /\ QuietSoFar

-----------------------------------------------------------------------------
(* The queries.                                                            *)

LEMMA GreatestOf ==
  ASSUME NEW n \in Nat, NEW S \in SUBSET (1..n), S # {}
  PROVE  Max(S) \in S /\ \A s \in S : s <= Max(S)
<1>1. S \subseteq Nat /\ IsFiniteSet(S)
  <2>1. IsFiniteSet(1..n)
    <3>1. 1 \in Int /\ n \in Int
      OBVIOUS
    <3> QED BY <3>1, FS_Interval
  <2>2. IsFiniteSet(S)
    BY <2>1, FS_Subset
  <2> QED BY <2>2
<1>2. PICK t \in S : \A s \in S : s <= t
  BY <1>1, GreatestExists
<1>3. \A s \in S : t >= s
  BY <1>1, <1>2
<1>4. Max(S) \in S /\ \A s \in S : Max(S) >= s
  BY <1>3, Zenon DEF Max
<1> QED BY <1>1, <1>4

LEMMA LeastOf ==
  ASSUME NEW n \in Nat, NEW S \in SUBSET (1..n), S # {}
  PROVE  Min(S) \in S /\ \A s \in S : Min(S) <= s
<1> DEFINE T == {n - s : s \in S}
<1>1. T \subseteq Nat /\ T \subseteq 0..n /\ T # {}
  <2>1. \A s \in S : n - s \in 0..n /\ n - s \in Nat
    OBVIOUS
  <2> QED BY <2>1
<1>2. IsFiniteSet(T)
  <2>1. IsFiniteSet(0..n)
    <3>1. 0 \in Int /\ n \in Int
      OBVIOUS
    <3> QED BY <3>1, FS_Interval
  <2> HIDE DEF T
  <2> QED
    BY <1>1, <2>1, FS_Subset
<1>3. PICK m \in T : \A k \in T : k <= m
  <2> HIDE DEF T
  <2> QED
    BY <1>1, <1>2, GreatestExists
<1>4. PICK t \in S : m = n - t
  OBVIOUS
<1>5. \A s \in S : t <= s
  <2>1. ASSUME NEW s \in S
        PROVE  t <= s
    <3>1. n - s <= n - t
      BY <1>3, <1>4
    <3>2. s \in 1..n /\ t \in 1..n
      OBVIOUS
    <3> QED BY <3>1, <3>2
  <2> QED BY <2>1
<1> HIDE DEF T
<1> QED
  BY <1>5, Zenon DEF Min

LEMMA NewestIs ==
  ASSUME NEW n \in Nat, NEW S \in SUBSET (1..n)
  PROVE  /\ Newest(S) \in 0..n
         /\ Newest(S) = 0 <=> S = {}
         /\ Newest(S) # 0 => Newest(S) \in S
         /\ \A s \in S : s <= Newest(S)
<1>1. CASE S = {}
  BY <1>1 DEF Newest
<1>2. CASE S # {}
  <2>1. Newest(S) \in S /\ \A s \in S : s <= Newest(S)
    BY <1>2, GreatestOf DEF Newest
  <2> QED
    <3>1. \A k \in S : k \in 1..n
      OBVIOUS
    <3>2. Newest(S) \in 1..n
      BY <2>1, <3>1
    <3> QED
      BY <1>2, <2>1, <3>2
<1> QED BY <1>1, <1>2

LEMMA ServedAre ==
  ASSUME LoadTypes
  PROVE  /\ Len(started) \in Nat
         /\ ServedNow \in SUBSET (1..Len(started))
         /\ \A i : i \in ServedNow <=> i \in kept /\ WasServed(i)
         /\ Newest(ServedNow) \in 0..Len(started)
         /\ Newest(ServedNow) = 0 <=> ServedNow = {}
         /\ Newest(ServedNow) # 0 => WasServed(Newest(ServedNow)) /\ Newest(ServedNow) \in kept
         /\ \A i \in ServedNow : i <= Newest(ServedNow)
<1>1. Len(started) \in Nat
  BY DEF LoadTypes
<1>2. ServedNow \in SUBSET (1..Len(started))
  BY DEF LoadTypes, ServedNow
<1>3. \A i : i \in ServedNow <=> i \in kept /\ WasServed(i)
  BY DEF LoadTypes, ServedNow, WasServed
<1> QED
  BY <1>1, <1>2, <1>3, NewestIs

LEMMA OldEnoughIs ==
  ASSUME LoadTypes, RunsInOrder, NEW i \in 1..Len(started)
  PROVE  /\ OldEnough(i) \in Nat
         /\ OldEnough(i) # 0 => /\ WasServed(OldEnough(i)) /\ OldEnough(i) < i
                                /\ OldEnough(i) \in kept
<1> DEFINE S == {j \in ServedNow \ {i} : i \in kept /\ started[j].day <= started[i].day - Window}
<1>1. Len(started) \in Nat /\ S \in SUBSET (1..Len(started))
  BY ServedAre
<1>2. Newest(S) \in 0..Len(started) /\ (Newest(S) # 0 => Newest(S) \in S)
  BY <1>1, NewestIs
<1>3. ASSUME NEW j \in S
      PROVE  WasServed(j) /\ j < i /\ j \in kept
  <2>1. j \in 1..Len(started) /\ WasServed(j) /\ j \in kept
    BY ServedAre
  <2>2. started[j].day \in Nat /\ started[i].day \in Nat /\ Window \in Nat \ {0}
    <3>1. started[j] \in RunRow /\ started[i] \in RunRow
      BY <2>1 DEF LoadTypes
    <3> QED
      BY <3>1, LoadAssumption DEF RunRow
  <2>3. started[j].day < started[i].day
    BY <2>2
  <2>4. ~(i <= j)
    BY <2>1, <2>2, <2>3 DEF RunsInOrder
  <2> QED
    BY <2>1, <2>4
<1> HIDE DEF S
<1>4. OldEnough(i) = Newest(S)
  BY DEF OldEnough, S
<1> QED
  BY <1>1, <1>2, <1>3, <1>4

LEMMA FallbackIs ==
  ASSUME LoadTypes, NEW i \in 1..Len(started)
  PROVE  /\ Fallback(i) \in Nat
         /\ Fallback(i) = 0 <=> ServedNow \ {i} = {}
         /\ Fallback(i) # 0 => /\ WasServed(Fallback(i)) /\ Fallback(i) # i
                               /\ Fallback(i) \in kept
         /\ \A j \in ServedNow \ {i} : Fallback(i) <= j
<1>1. /\ ServedNow \ {i} \in SUBSET (1..Len(started)) /\ 0 \notin ServedNow
      /\ Len(started) \in Nat
  BY ServedAre
<1>2. CASE ServedNow \ {i} = {}
  BY <1>2 DEF Fallback
<1>3. CASE ServedNow \ {i} # {}
  <2>1. /\ Fallback(i) \in ServedNow \ {i}
        /\ \A j \in ServedNow \ {i} : Fallback(i) <= j
    BY <1>1, <1>3, LeastOf DEF Fallback
  <2> QED
    BY <1>1, <1>3, <2>1, ServedAre
<1> QED BY <1>2, <1>3

-----------------------------------------------------------------------------
(* The refreshes.  Whatever they do to the runs leaves a load as it was.   *)

LEMMA RunsGoOn ==
  ASSUME LoadIInv, LoadTypes', RunsInOrder',
         UNCHANGED <<loading, ofViews, views, at, curr, prev, seen>>,
         \A i \in Nat : WasServed(i) => WasServed(i)' /\ started'[i] = started[i],
         Len(started) <= Len(started'),
         \A i \in 1..Len(started) : i \in kept' => i \in kept,
         \A i \in 1..(Len(started) - 1) : started'[i].status = started[i].status,
         quiet' => /\ quiet /\ ServedNow' = ServedNow
                   /\ \A i \in 1..Len(started) : i \in kept => i \in kept'
  PROVE  LoadIInv'
<1> USE DEF LoadIInv
<1>0. /\ curr \in [Chains -> Nat] /\ prev \in [Chains -> Nat]
      /\ ofViews \in Nat \cup {Unread} /\ Len(started) \in Nat /\ Len(started') \in Nat
  BY DEF LoadTypes
<1>1. ViewsComeFirst'
  BY <1>0 DEF ViewsComeFirst, Unread
<1>2. ASSUME NEW c \in Chains
      PROVE  ChainProceeds(c)'
  <2>1. ChainProceeds(c) /\ curr[c] \in Nat /\ prev[c] \in Nat
    BY <1>0 DEF ChainsProceed
  <2>2. ASSUME NEW read \in Reads, seen[c][read] # Unread
        PROVE  /\ prev[c] # 0
               /\ seen[c][read] \in {0, started'[Target(c, read)'].value}
    <3>1. /\ prev[c] # 0 /\ curr[c] # 0
          /\ seen[c][read] \in {0, started[Target(c, read)].value}
      BY <2>1, <2>2 DEF ChainProceeds
    <3>2. Target(c, read)' = Target(c, read)
      BY DEF Target
    <3>3. WasServed(Target(c, read)) /\ Target(c, read) \in Nat
      BY <2>1, <3>1 DEF ChainProceeds, Target
    <3>4. started'[Target(c, read)] = started[Target(c, read)]
      BY <3>3
    <3> QED
      BY <3>1, <3>2, <3>4
  <2>3. /\ curr[c] # 0 => WasServed(curr[c])'
        /\ prev[c] # 0 => WasServed(prev[c])'
    BY <2>1 DEF ChainProceeds
  <2> QED
    BY <2>1, <2>2, <2>3 DEF ChainProceeds
<1>3. ASSUME NEW c \in Chains
      PROVE  LeadsForward(c)'
  <2>1. SUFFICES ASSUME prev[c] > curr[c], NEW i \in 1..(curr[c] - 1)
                 PROVE  i \notin kept' \/ started'[i].status # "served"
    BY DEF LeadsForward
  <2>2. /\ curr[c] \in Nat /\ ChainProceeds(c)
        /\ i \notin kept \/ started[i].status # "served"
    BY <1>0, <2>1 DEF ChainsProceed, LeadsForward
  <2>3. curr[c] \in 1..Len(started)
    <3>1. curr[c] # 0
      BY <2>1, <2>2
    <3> QED
      BY <2>2, <3>1 DEF ChainProceeds, WasServed
  <2>4. i \in 1..(Len(started) - 1) /\ i \in 1..Len(started)
    BY <1>0, <2>3
  <2> QED
    BY <2>2, <2>4
<1>4. ViewsAreNotNewer'
  <2>1. SUFFICES ASSUME ofViews > 0
                 PROVE  /\ curr["dashboard"] = 0 /\ at["dashboard"] = "over"
                             => Len(started') - ofViews >= KeptRuns
                        /\ curr["dashboard"] # 0 => curr["dashboard"] >= ofViews
                        /\ views = 0 /\ started'[ofViews].value # 0
                             => Len(started') - ofViews >= KeptRuns
    BY DEF ViewsAreNotNewer, StartedAfter
  <2>2. ofViews \in Nat /\ started'[ofViews] = started[ofViews]
    BY <1>0, <2>1 DEF ViewsComeFirst, Unread
  <2>3. /\ curr["dashboard"] = 0 /\ at["dashboard"] = "over"
             => Len(started) - ofViews >= KeptRuns
        /\ curr["dashboard"] # 0 => curr["dashboard"] >= ofViews
        /\ views = 0 /\ started[ofViews].value # 0
             => Len(started) - ofViews >= KeptRuns
    BY <2>1 DEF ViewsAreNotNewer, StartedAfter
  <2>4. KeptRuns \in Nat
    BY LoadAssumption
  <2> QED
    BY <1>0, <2>2, <2>3, <2>4
<1>5. QuietSoFar'
  <2>1. SUFFICES ASSUME quiet' PROVE QuietSoFar'
    BY DEF QuietSoFar
  <2>2. /\ quiet /\ ServedNow' = ServedNow
        /\ \A i \in 1..Len(started) : i \in kept <=> i \in kept'
    BY <2>1
  <2>3. Newest(ServedNow)' = Newest(ServedNow)
    BY <2>2 DEF Newest
  <2>4. ASSUME NEW i \in 1..Len(started), WasServed(i)
        PROVE  OldEnough(i)' = OldEnough(i) /\ Fallback(i)' = Fallback(i)
    <3>1. \A j \in ServedNow : j \in Nat /\ started'[j] = started[j]
      BY ServedAre
    <3>2. started'[i] = started[i] /\ (i \in kept <=> i \in kept')
      BY <2>2, <2>4
    <3>3. {j \in ServedNow \ {i} : i \in kept /\ started[j].day <= started[i].day - Window}
            = {j \in ServedNow' \ {i} : i \in kept' /\ started'[j].day <= started'[i].day - Window}
      BY <2>2, <3>1, <3>2
    <3>4. OldEnough(i)' = OldEnough(i)
      BY <3>3, Zenon DEF OldEnough, Newest
    <3>5. Fallback(i)' = Fallback(i)
      BY <2>2, Zenon DEF Fallback
    <3> QED BY <3>4, <3>5
  <2>5. ASSUME NEW c \in Chains
        PROVE  ChainIsCurrent(c)'
    <3>1. ChainIsCurrent(c) /\ ChainProceeds(c) /\ curr[c] \in Nat /\ prev[c] \in Nat
      BY <1>0, <2>2 DEF QuietSoFar, ChainsProceed
    <3>2. at'[c] \notin {"off", "latest"} => curr'[c] = Newest(ServedNow)'
      BY <2>3, <3>1 DEF ChainIsCurrent
    <3>3. at'[c] = "fallback" => OldEnough(curr[c])' = 0
      <4>1. SUFFICES ASSUME at[c] = "fallback" PROVE OldEnough(curr[c])' = 0
        OBVIOUS
      <4>2. WasServed(curr[c]) /\ curr[c] \in 1..Len(started)
        BY <3>1, <4>1 DEF ChainProceeds, WasServed
      <4>3. OldEnough(curr[c])' = OldEnough(curr[c])
        BY <2>4, <4>2
      <4> QED
        BY <3>1, <4>1, <4>3 DEF ChainIsCurrent
    <3>4. at'[c] \in {"read", "over"} /\ curr'[c] # 0 => prev'[c] = Baseline(curr[c])'
      <4>1. SUFFICES ASSUME at[c] \in {"read", "over"}, curr[c] # 0
                     PROVE  prev[c] = Baseline(curr[c])'
        OBVIOUS
      <4>2. WasServed(curr[c]) /\ curr[c] \in 1..Len(started)
        BY <3>1, <4>1 DEF ChainProceeds, WasServed
      <4>3. OldEnough(curr[c])' = OldEnough(curr[c]) /\ Fallback(curr[c])' = Fallback(curr[c])
        BY <2>4, <4>2
      <4>4. Baseline(curr[c])' = Baseline(curr[c])
        BY <4>3 DEF Baseline
      <4> QED
        BY <3>1, <4>1, <4>4 DEF ChainIsCurrent
    <3>5. ASSUME NEW read \in Reads, seen[c][read] # Unread
          PROVE  seen[c][read] = started'[Target(c, read)'].value
      <4>1. prev[c] # 0 /\ curr[c] # 0 /\ seen[c][read] = started[Target(c, read)].value
        BY <3>1, <3>5 DEF ChainProceeds, ChainIsCurrent
      <4>2. Target(c, read)' = Target(c, read) /\ WasServed(Target(c, read))
            /\ Target(c, read) \in Nat
        BY <3>1, <4>1 DEF ChainProceeds, Target
      <4> QED
        BY <4>1, <4>2
    <3> QED
      BY <3>2, <3>3, <3>4, <3>5 DEF ChainIsCurrent
  <2>6. ofViews # Unread => ofViews = Newest(ServedNow)'
    BY <2>2, <2>3 DEF QuietSoFar
  <2>7. ofViews > 0 /\ views # Unread => views = started'[ofViews].value
    <3>1. SUFFICES ASSUME ofViews > 0, views # Unread PROVE views = started'[ofViews].value
      OBVIOUS
    <3>2. ofViews \in Nat /\ WasServed(ofViews) /\ views = started[ofViews].value
      BY <1>0, <2>2, <3>1 DEF QuietSoFar, ViewsComeFirst, Unread
    <3> QED
      BY <3>2
  <2> QED
    BY <2>5, <2>6, <2>7 DEF QuietSoFar
<1> QED
  BY <1>1, <1>2, <1>3, <1>4, <1>5 DEF ChainsProceed

LEMMA DayPassesKeeps ==
  ASSUME LoadIInv, DayPasses
  PROVE  LoadIInv'
<1> USE DEF LoadIInv
<1>1. day' = day + 1 /\ UNCHANGED <<started, kept, loading, ofViews, views, at, curr, prev, seen, quiet>>
  BY DEF DayPasses, chainState
<1>2. LoadTypes'
  BY <1>1 DEF LoadTypes
<1>3. RunsInOrder'
  <2>1. \A i \in 1..Len(started) : started[i].day \in Nat /\ day \in Nat
    <3>1. \A i \in 1..Len(started) : started[i] \in RunRow
      BY DEF LoadTypes
    <3> QED
      BY <3>1 DEF LoadTypes, RunRow
  <2> QED
    BY <1>1, <2>1 DEF RunsInOrder
<1>4. ServedNow' = ServedNow
  BY <1>1 DEF ServedNow
<1>5. \A i \in Nat : WasServed(i) => WasServed(i)' /\ started'[i] = started[i]
  BY <1>1 DEF WasServed
<1>6. Len(started) \in Nat /\ Len(started') = Len(started)
  BY <1>1 DEF LoadTypes
<1>7. Len(started) <= Len(started')
  BY <1>6
<1> QED
  BY <1>1, <1>2, <1>3, <1>4, <1>5, <1>7, RunsGoOn

LEMMA RunStartsKeeps ==
  ASSUME LoadIInv, RunStarts
  PROVE  LoadIInv'
<1> USE DEF LoadIInv
<1> DEFINE row == [day |-> day, status |-> "running", value |-> 0]
           n == Len(started)
<1>1. /\ started' = Append(started, row) /\ kept' = kept \cup {n + 1}
      /\ UNCHANGED <<day, loading, ofViews, views, at, curr, prev, seen, quiet>>
  BY DEF RunStarts, chainState
<1>2. /\ n \in Nat /\ row \in RunRow /\ started \in Seq(RunRow) /\ day \in Nat
      /\ kept \subseteq 1..n
  BY DEF LoadTypes, RunRow
<1> HIDE DEF row
<1>3. /\ started' \in Seq(RunRow) /\ Len(started') = n + 1 /\ started'[n + 1] = row
      /\ \A i \in 1..n : started'[i] = started[i]
  BY <1>1, <1>2
<1>4. row.status = "running" /\ row.day = day /\ row.value = 0
  BY DEF row
<1>5. \A i \in 1..n : started[i].day \in Nat
  <2>1. \A i \in 1..n : started[i] \in RunRow
    BY <1>2
  <2> QED BY <2>1 DEF RunRow
<1>6. \A i \in 1..n : started[i].status # "running"
  BY DEF RunStarts, NothingRuns
<1> HIDE DEF n
<1>7. LoadTypes'
  <2>1. kept' \subseteq 1..(n + 1)
    BY <1>1, <1>2
  <2> QED
    BY <1>1, <1>3, <2>1 DEF LoadTypes
<1>8. RunsInOrder'
  <2>1. \A i \in 1..n : started[i].day <= day
    BY DEF RunsInOrder, n
  <2>2. \A i \in 1..(n + 1) : started'[i].day <= day
    BY <1>2, <1>3, <1>4, <2>1
  <2>3. \A i, j \in 1..(n + 1) : i <= j => started'[i].day <= started'[j].day
    <3>1. \A i, j \in 1..n : i <= j => started[i].day <= started[j].day
      BY DEF RunsInOrder, n
    <3>2. ASSUME NEW i \in 1..(n + 1), NEW j \in 1..(n + 1), i <= j
          PROVE  started'[i].day <= started'[j].day
      <4>1. CASE j = n + 1
        BY <1>3, <1>4, <2>2, <4>1
      <4>2. CASE j # n + 1
        BY <1>2, <1>3, <3>1, <3>2, <4>2
      <4> QED BY <4>1, <4>2
    <3> QED BY <3>2
  <2>4. \A i \in 1..n : started'[i].status # "running"
    BY <1>3, <1>6
  <2>5. \A i \in kept' : \A j \in 1..(n + 1) : i < j => j \in kept'
    <3>1. \A i \in kept : \A j \in 1..n : i < j => j \in kept
      BY DEF RunsInOrder, n
    <3> QED
      BY <1>1, <1>2, <3>1
  <2>6. \A i \in (1..(n + 1)) \ kept' : (n + 1) - i >= KeptRuns
    <3>1. \A i \in (1..n) \ kept : n - i >= KeptRuns
      BY DEF RunsInOrder, n
    <3> QED
      BY <1>1, <1>2, <3>1, LoadAssumption
  <2>7. (n + 1) - 1 = n
    BY <1>2
  <2> QED
    BY <1>1, <1>3, <2>2, <2>3, <2>4, <2>5, <2>6, <2>7 DEF RunsInOrder
<1>9. \A i \in Nat : WasServed(i) => WasServed(i)' /\ started'[i] = started[i]
  BY <1>2, <1>3 DEF WasServed, n
<1>10. ServedNow' = ServedNow
  BY <1>1, <1>2, <1>3, <1>4 DEF ServedNow
<1>11. n <= n + 1 /\ \A i \in 1..n : i # n + 1
  BY <1>2
<1>12. \A i \in 1..(n - 1) : started'[i].status = started[i].status
  BY <1>2, <1>3
<1> QED
  BY <1>1, <1>3, <1>7, <1>8, <1>9, <1>10, <1>11, <1>12, RunsGoOn DEF n

(* A run ends: the last of those that were started.                        *)
LEMMA LastRunChanges ==
  ASSUME LoadIInv, ~NothingRuns, NEW row \in RunRow,
         started' = [started EXCEPT ![Len(started)] = row],
         row.day = started[Len(started)].day, row.status # "running",
         UNCHANGED <<day, kept, loading, ofViews, views, at, curr, prev, seen>>,
         quiet' \in BOOLEAN, quiet' => quiet /\ row.status # "served"
  PROVE  LoadIInv'
<1> USE DEF LoadIInv
<1> DEFINE n == Len(started)
<1>1. /\ n \in Nat /\ started \in Seq(RunRow) /\ kept \subseteq 1..n /\ day \in Nat
  BY DEF LoadTypes
<1>2. n > 0 /\ started[n].status = "running"
  <2>1. PICK i \in 1..n : started[i].status = "running"
    BY <1>1 DEF NothingRuns
  <2>2. i = n
    BY <1>1, <2>1 DEF RunsInOrder
  <2> QED
    BY <1>1, <2>1, <2>2
<1>3. /\ started' \in Seq(RunRow) /\ Len(started') = n /\ started'[n] = row
      /\ \A i \in 1..n : i # n => started'[i] = started[i]
  BY <1>1, <1>2
<1> HIDE DEF n
<1>4. LoadTypes'
  BY <1>1, <1>3 DEF LoadTypes, n
<1>5. \A i \in 1..n : started'[i].day = started[i].day
  BY <1>3 DEF n
<1>6. \A i \in 1..n : started'[i].status # "running"
  <2>1. \A i \in 1..n - 1 : started[i].status # "running"
    BY DEF RunsInOrder, n
  <2>2. \A i \in 1..n : i # n => i \in 1..n - 1
    BY <1>1
  <2> QED
    BY <1>3, <2>1, <2>2
<1>7. RunsInOrder'
  <2>1. \A i \in 1..n - 1 : i \in 1..n
    BY <1>1
  <2> QED
    <3>1. /\ \A i \in 1..n : started[i].day <= day
          /\ \A i, j \in 1..n : i <= j => started[i].day <= started[j].day
          /\ \A i \in kept : \A j \in 1..n : i < j => j \in kept
          /\ \A i \in (1..n) \ kept : n - i >= KeptRuns
      BY DEF RunsInOrder, n
    <3>2. /\ \A i \in 1..n : started'[i].day <= day
          /\ \A i, j \in 1..n : i <= j => started'[i].day <= started'[j].day
      BY <1>5, <3>1
    <3>3. \A i \in 1..n - 1 : started'[i].status # "running"
      BY <1>6, <2>1
    <3> QED
      BY <1>3, <3>1, <3>2, <3>3 DEF RunsInOrder
<1>8. \A i \in Nat : WasServed(i) => WasServed(i)' /\ started'[i] = started[i]
  <2>1. \A i \in Nat : WasServed(i) => i \in 1..n /\ i # n
    BY <1>2 DEF WasServed, n
  <2> QED
    BY <1>3, <2>1 DEF WasServed
<1>9. quiet' => ServedNow' = ServedNow
  <2>1. \A i \in kept : i \in 1..n
    BY <1>1
  <2>2. SUFFICES ASSUME quiet' PROVE ServedNow' = ServedNow
    OBVIOUS
  <2>3. \A i \in kept : started'[i].status = "served" <=> started[i].status = "served"
    BY <1>2, <1>3, <2>1, <2>2
  <2> QED
    BY <2>3 DEF ServedNow
<1>10. n <= Len(started') /\ \A i \in 1..(n - 1) : started'[i].status = started[i].status
  BY <1>1, <1>3
<1> QED
  BY <1>4, <1>7, <1>8, <1>9, <1>10, RunsGoOn DEF n

LEMMA RunEndsKeeps ==
  ASSUME LoadIInv, RunFails \/ RunIsServed
  PROVE  LoadIInv'
<1> DEFINE n == Len(started)
           old == started[n]
<1>1. ~NothingRuns
  BY DEF RunFails, RunIsServed
<1>2. /\ n \in Nat /\ started \in Seq(RunRow) /\ quiet \in BOOLEAN
  BY DEF LoadIInv, LoadTypes
<1>3. n \in 1..n
  BY <1>1, <1>2 DEF NothingRuns
<1>4. old \in RunRow
  BY <1>2, <1>3
<1> HIDE DEF old
<1>5. CASE RunFails
  <2>1. /\ started' = [started EXCEPT ![n] = [old EXCEPT !.status = "failed"]]
        /\ UNCHANGED <<day, kept, loading, ofViews, views, at, curr, prev, seen, quiet>>
    BY <1>5 DEF RunFails, chainState, old
  <2>2. /\ [old EXCEPT !.status = "failed"] \in RunRow
        /\ [old EXCEPT !.status = "failed"].status = "failed"
        /\ [old EXCEPT !.status = "failed"].day = old.day
    BY <1>4 DEF RunRow
  <2>3. quiet' \in BOOLEAN /\ (quiet' => quiet)
    BY <1>2, <2>1
  <2> QED
    BY <1>1, <2>1, <2>2, <2>3, LastRunChanges DEF old
<1>6. CASE RunIsServed
  <2>1. PICK v \in 0..MaxValue :
          started' = [started EXCEPT ![n] = [old EXCEPT !.status = "served", !.value = v]]
    BY <1>6 DEF RunIsServed, old
  <2>2. /\ UNCHANGED <<day, kept, loading, ofViews, views, at, curr, prev, seen>>
        /\ quiet' = FALSE
    BY <1>6 DEF RunIsServed, chainState
  <2> DEFINE row == [old EXCEPT !.status = "served", !.value = v]
  <2>3. row \in RunRow /\ row.status = "served" /\ row.day = old.day
    <3>1. v \in Nat
      BY LoadAssumption
    <3> QED
      BY <1>4, <3>1 DEF RunRow
  <2>4. quiet' \in BOOLEAN /\ ~quiet'
    BY <2>2
  <2>5. started' = [started EXCEPT ![n] = row]
    BY <2>1
  <2> HIDE DEF row
  <2> QED
    BY <1>1, <2>2, <2>3, <2>4, <2>5, LastRunChanges DEF old
<1> QED BY <1>5, <1>6

(* What is pruned has as many newer runs as are kept.                      *)
LEMMA PruneKeeps ==
  ASSUME LoadIInv, PruneRuns
  PROVE  LoadIInv'
<1> USE DEF LoadIInv
<1> DEFINE n == Len(started)
           newer(i) == {j \in kept : j > i}
<1>1. /\ kept' = {i \in kept : Cardinality(newer(i)) < KeptRuns} /\ quiet' = FALSE
      /\ UNCHANGED <<day, started, loading, ofViews, views, at, curr, prev, seen>>
  BY DEF PruneRuns, chainState
<1>2. n \in Nat /\ kept \subseteq 1..n /\ KeptRuns \in Nat
  BY LoadAssumption DEF LoadTypes
<1>3. IsFiniteSet(kept)
  <2>1. IsFiniteSet(1..n)
    <3>1. 1 \in Int /\ n \in Int
      BY <1>2
    <3> QED BY <3>1, FS_Interval
  <2> QED
    BY <1>2, <2>1, FS_Subset
<1>4. ASSUME NEW i
      PROVE  IsFiniteSet(newer(i)) /\ Cardinality(newer(i)) \in Nat
  <2>1. newer(i) \subseteq kept
    OBVIOUS
  <2> HIDE DEF newer
  <2> QED
    BY <1>3, <2>1, FS_Subset, FS_CardinalityType
<1>5. ASSUME NEW i \in kept, NEW j \in kept, i < j
      PROVE  Cardinality(newer(j)) <= Cardinality(newer(i))
  <2>1. newer(j) \subseteq newer(i)
    <3>1. \A k \in kept : k \in Nat
      BY <1>2
    <3>2. \A k \in kept : k > j => k > i
      BY <1>5, <3>1
    <3> QED
      BY <3>2
  <2> HIDE DEF newer
  <2> QED
    BY <1>4, <2>1, FS_Subset
<1>6. ASSUME NEW i \in kept
      PROVE  Cardinality(newer(i)) <= n - i
  <2>1. i \in 1..n
    BY <1>2
  <2>2. newer(i) \subseteq (i + 1)..n
    <3>1. \A k \in kept : k \in 1..n
      BY <1>2
    <3>2. \A k \in kept : k > i => k \in (i + 1)..n
      BY <1>2, <2>1, <3>1
    <3> QED
      BY <3>2
  <2>3. IsFiniteSet((i + 1)..n) /\ Cardinality((i + 1)..n) = n - i
    <3>1. i + 1 \in Int /\ n \in Int
      BY <1>2, <2>1
    <3>2. /\ IsFiniteSet((i + 1)..n)
          /\ Cardinality((i + 1)..n) = IF i + 1 > n THEN 0 ELSE n - (i + 1) + 1
      BY <3>1, FS_Interval
    <3> QED
      BY <1>2, <2>1, <3>2
  <2> HIDE DEF newer
  <2> QED
    BY <2>2, <2>3, FS_Subset
<1> HIDE DEF n, newer
<1>7. LoadTypes'
  <2>1. kept' \subseteq kept
    BY <1>1
  <2> QED
    BY <1>1, <2>1 DEF LoadTypes
<1>8. RunsInOrder'
  <2>1. \A i \in kept' : \A j \in 1..n : i < j => j \in kept'
    <3>1. ASSUME NEW i \in kept', NEW j \in 1..n, i < j
          PROVE  j \in kept'
      <4>1. i \in kept /\ j \in kept
        BY <1>1, <3>1 DEF RunsInOrder, n
      <4>2. Cardinality(newer(j)) <= Cardinality(newer(i))
        BY <1>5, <3>1, <4>1
      <4>3. Cardinality(newer(i)) < KeptRuns
        BY <1>1
      <4>4. Cardinality(newer(j)) < KeptRuns
        BY <1>2, <1>4, <4>2, <4>3
      <4> QED
        BY <1>1, <4>1, <4>4
    <3> QED BY <3>1
  <2>2. \A i \in (1..n) \ kept' : n - i >= KeptRuns
    <3>1. ASSUME NEW i \in (1..n) \ kept'
          PROVE  n - i >= KeptRuns
      <4>1. CASE i \in kept
        <5>1. ~(Cardinality(newer(i)) < KeptRuns)
          BY <1>1, <3>1, <4>1
        <5> QED
          BY <1>2, <1>4, <1>6, <4>1, <5>1
      <4>2. CASE i \notin kept
        BY <4>2 DEF RunsInOrder, n
      <4> QED BY <4>1, <4>2
    <3> QED BY <3>1
  <2> QED
    BY <1>1, <2>1, <2>2 DEF RunsInOrder, n
<1>9. n <= Len(started')
  BY <1>1, <1>2 DEF n
<1>10. \A i \in Nat : WasServed(i) => WasServed(i)' /\ started'[i] = started[i]
  BY <1>1 DEF WasServed
<1> QED
  BY <1>1, <1>7, <1>8, <1>9, <1>10, RunsGoOn DEF n

-----------------------------------------------------------------------------
(* The steps of the load, while the runs rest.                             *)

LEMMA RunsRest ==
  ASSUME UNCHANGED <<day, started, kept>>
  PROVE  /\ RunsInOrder => RunsInOrder'
         /\ ServedNow' = ServedNow /\ Newest(ServedNow)' = Newest(ServedNow)
         /\ \A i : /\ OldEnough(i)' = OldEnough(i) /\ Fallback(i)' = Fallback(i)
                   /\ Baseline(i)' = Baseline(i) /\ (WasServed(i)' <=> WasServed(i))
BY DEF RunsInOrder, ServedNow, Newest, OldEnough, Fallback, Baseline, WasServed

(* The other chain is left alone.                                          *)
LEMMA OtherChain ==
  ASSUME UNCHANGED <<day, started, kept>>, NEW d \in Chains,
         at'[d] = at[d], curr'[d] = curr[d], prev'[d] = prev[d], seen'[d] = seen[d]
  PROVE  /\ ChainProceeds(d) /\ LeadsForward(d) => ChainProceeds(d)' /\ LeadsForward(d)'
         /\ ChainIsCurrent(d) => ChainIsCurrent(d)'
<1>1. \A read \in Reads : Target(d, read)' = Target(d, read)
  BY DEF Target
<1>2. ChainProceeds(d) => ChainProceeds(d)'
  BY <1>1, RunsRest DEF ChainProceeds
<1>3. LeadsForward(d) => LeadsForward(d)'
  BY DEF LeadsForward
<1>4. ChainIsCurrent(d) => ChainIsCurrent(d)'
  BY <1>1, RunsRest, Zenon DEF ChainIsCurrent
<1> QED BY <1>2, <1>3, <1>4

LEMMA LoadBeginsKeeps ==
  ASSUME LoadIInv, NEW chains \in {{"dashboard"}, Chains}, LoadBegins(chains)
  PROVE  LoadIInv'
<1> USE DEF LoadIInv
<1>1. /\ loading = {} /\ loading' = chains /\ quiet' = TRUE
      /\ at' = [c \in Chains |-> IF c = "page" /\ c \in chains THEN "latest" ELSE "off"]
      /\ UNCHANGED <<day, started, kept, ofViews, views, curr, prev, seen>>
  BY DEF LoadBegins, refreshState
<1>2. chains # {} /\ "dashboard" \in Chains
  BY DEF Chains
<1>3. ofViews = Unread /\ views = Unread /\ \A c \in Chains : at[c] = "off"
  BY <1>1, <1>2 DEF ViewsComeFirst
<1>4. LoadTypes'
  BY <1>1 DEF LoadTypes, ChainSteps
<1>5. RunsInOrder'
  BY <1>1, RunsRest
<1>6. ViewsComeFirst'
  BY <1>1, <1>2, <1>3 DEF ViewsComeFirst, Unread
<1>7. ASSUME NEW c \in Chains
      PROVE  ChainProceeds(c)' /\ LeadsForward(c)' /\ ChainIsCurrent(c)'
  <2>1. curr[c] = 0 /\ prev[c] = 0 /\ \A read \in Reads : seen[c][read] = Unread
    BY <1>3 DEF ChainsProceed, ChainProceeds
  <2>2. at'[c] \in {"off", "latest"} /\ curr'[c] = 0 /\ prev'[c] = 0
    BY <1>1, <2>1
  <2>3. \A read \in Reads : seen'[c][read] = Unread
    BY <1>1, <2>1
  <2>4. ChainProceeds(c)'
    BY <2>2, <2>3 DEF ChainProceeds
  <2>5. LeadsForward(c)'
    <3>1. ~(prev'[c] > curr'[c])
      BY <2>2
    <3> QED
      BY <3>1 DEF LeadsForward
  <2>6. ChainIsCurrent(c)'
    BY <2>2, <2>3 DEF ChainIsCurrent
  <2> QED
    BY <2>4, <2>5, <2>6
<1>8. ViewsAreNotNewer'
  BY <1>1, <1>3 DEF ViewsAreNotNewer, Unread
<1>9. QuietSoFar'
  BY <1>1, <1>3, <1>7 DEF QuietSoFar, Unread
<1> QED
  BY <1>4, <1>5, <1>6, <1>7, <1>8, <1>9 DEF ChainsProceed

LEMMA FindViewsKeeps ==
  ASSUME LoadIInv, FindViews
  PROVE  LoadIInv'
<1> USE DEF LoadIInv
<1> DEFINE now == Newest(ServedNow)
           step == IF now = 0 THEN "over" ELSE "latest"
<1>1. /\ loading # {} /\ ofViews = Unread /\ ofViews' = now
      /\ at' = [at EXCEPT !["dashboard"] = step]
      /\ views' = IF now = 0 THEN 0 ELSE views
      /\ UNCHANGED <<day, started, kept, loading, curr, prev, seen, quiet>>
  BY DEF FindViews, LatestForViews, Chain, refreshState
<1>2. /\ now \in 0..Len(started) /\ Len(started) \in Nat
      /\ now # 0 => WasServed(now)
  BY ServedAre
<1>3. at \in [Chains -> ChainSteps] /\ "dashboard" \in Chains
  BY DEF LoadTypes, Chains
<1>4. at["dashboard"] = "off" /\ views = Unread
  BY <1>1 DEF ViewsComeFirst
<1>5. /\ at'["dashboard"] = step
      /\ \A c \in Chains : c # "dashboard" => at'[c] = at[c]
  BY <1>1, <1>3
<1>6. /\ curr["dashboard"] = 0 /\ prev["dashboard"] = 0
      /\ \A read \in Reads : seen["dashboard"][read] = Unread
  BY <1>3, <1>4 DEF ChainsProceed, ChainProceeds
<1> HIDE DEF now
<1>7. LoadTypes'
  <2>1. at' \in [Chains -> ChainSteps]
    BY <1>1, <1>3 DEF ChainSteps
  <2> QED
    BY <1>1, <1>2, <2>1 DEF LoadTypes
<1>8. RunsInOrder'
  BY <1>1, RunsRest
<1>9. ViewsComeFirst'
  <2>1. now # 0 => now \in 1..Len(started') /\ started'[now].status = "served"
    BY <1>1, <1>2 DEF WasServed
  <2>2. (loading = {})' => (ofViews = Unread)' /\ \A c \in Chains : (at[c] = "off")'
    BY <1>1
  <2>3. at'["dashboard"] # "off" /\ ofViews' # Unread
    BY <1>1, <1>2, <1>5 DEF Unread
  <2>4. ofViews' = 0 => views' = 0 /\ at'["dashboard"] = "over" /\ curr'["dashboard"] = 0
    BY <1>1, <1>5, <1>6
  <2>5. ofViews' > 0 => WasServed(ofViews)' /\ views' = Unread
    <3>1. ofViews' > 0 => now # 0
      BY <1>1, <1>2
    <3> QED
      BY <1>1, <1>4, <2>1, <3>1 DEF WasServed
  <2> QED
    BY <2>2, <2>3, <2>4, <2>5 DEF ViewsComeFirst
<1>10. Newest(ServedNow)' = now /\ now = Newest(ServedNow)
  BY <1>1, RunsRest DEF now
<1>11. ASSUME NEW c \in Chains
       PROVE  ChainProceeds(c)' /\ LeadsForward(c)' /\ (quiet => ChainIsCurrent(c)')
  <2>1. CASE c = "dashboard"
    <3>1. /\ at'[c] = step /\ curr'[c] = 0 /\ prev'[c] = 0
          /\ \A read \in Reads : seen'[c][read] = Unread
      BY <1>1, <1>5, <1>6, <2>1
    <3>2. step \in {"over", "latest"} /\ (step = "over" => now = 0)
      OBVIOUS
    <3>3. ChainProceeds(c)' /\ LeadsForward(c)'
      BY <3>1, <3>2 DEF ChainProceeds, LeadsForward
    <3>4. ChainIsCurrent(c)'
      BY <1>10, <3>1, <3>2 DEF ChainIsCurrent
    <3> QED BY <3>3, <3>4
  <2>2. CASE c # "dashboard"
    <3>1. /\ at'[c] = at[c] /\ curr'[c] = curr[c] /\ prev'[c] = prev[c] /\ seen'[c] = seen[c]
      BY <1>1, <1>5, <2>2
    <3>2. ChainProceeds(c) /\ LeadsForward(c) /\ (quiet => ChainIsCurrent(c))
      BY DEF ChainsProceed, QuietSoFar
    <3> QED
      BY <1>1, <3>1, <3>2, OtherChain
  <2> QED BY <2>1, <2>2
<1>12. ViewsAreNotNewer'
  BY <1>1, <1>2, <1>4, <1>5, <1>6 DEF ViewsAreNotNewer, Unread
<1>13. QuietSoFar'
  BY <1>1, <1>2, <1>4, <1>10, <1>11 DEF QuietSoFar, Unread
<1> QED
  BY <1>7, <1>8, <1>9, <1>11, <1>12, <1>13 DEF ChainsProceed

LEMMA ReadViewsKeeps ==
  ASSUME LoadIInv, ReadViews
  PROVE  LoadIInv'
<1> USE DEF LoadIInv
<1>1. /\ ofViews > 0 /\ views = Unread /\ views' = Found(ofViews)
      /\ UNCHANGED <<day, started, kept, loading, ofViews, at, curr, prev, seen, quiet>>
  BY DEF ReadViews, refreshState, chainState
<1>2. ofViews \in Nat /\ WasServed(ofViews) /\ ofViews \in 1..Len(started)
  BY <1>1 DEF LoadTypes, ViewsComeFirst, Unread, WasServed
<1>3. started[ofViews].value \in Nat
  <2>1. started[ofViews] \in RunRow
    BY <1>2 DEF LoadTypes
  <2> QED BY <2>1 DEF RunRow
<1>4. /\ views' \in {0, started[ofViews].value} /\ views' \in Nat
      /\ ofViews \in kept => views' = started[ofViews].value
      /\ ofViews \notin kept => Len(started) - ofViews >= KeptRuns
  BY <1>1, <1>2, <1>3 DEF Found, RunsInOrder
<1>5. LoadTypes'
  BY <1>1, <1>4 DEF LoadTypes
<1>6. RunsInOrder'
  BY <1>1, RunsRest
<1>7. ViewsComeFirst'
  <2>1. WasServed(ofViews)'
    BY <1>1, <1>2, RunsRest
  <2> QED
    BY <1>1, <1>2, <1>4, <2>1 DEF ViewsComeFirst, Unread
<1>8. ASSUME NEW c \in Chains
      PROVE  ChainProceeds(c)' /\ LeadsForward(c)' /\ (quiet => ChainIsCurrent(c)')
  <2>1. at'[c] = at[c] /\ curr'[c] = curr[c] /\ prev'[c] = prev[c] /\ seen'[c] = seen[c]
    BY <1>1
  <2>2. ChainProceeds(c) /\ LeadsForward(c) /\ (quiet => ChainIsCurrent(c))
    BY DEF ChainsProceed, QuietSoFar
  <2> QED
    BY <1>1, <2>1, <2>2, OtherChain
<1>9. ViewsAreNotNewer'
  BY <1>1, <1>4 DEF ViewsAreNotNewer, StartedAfter
<1>10. QuietSoFar'
  <2>1. quiet => ofViews = Newest(ServedNow)
    BY <1>1, <1>2 DEF QuietSoFar, Unread
  <2>2. quiet => ofViews \in kept
    BY <1>2, <2>1, ServedAre
  <2>3. Newest(ServedNow)' = Newest(ServedNow)
    BY <1>1, RunsRest
  <2> QED
    BY <1>1, <1>4, <1>8, <2>1, <2>2, <2>3 DEF QuietSoFar
<1> QED
  BY <1>5, <1>6, <1>7, <1>8, <1>9, <1>10 DEF ChainsProceed

(* A dashboard's chain moves only behind the run of its views.             *)
LEMMA ViewsWereFound ==
  ASSUME LoadTypes, ViewsComeFirst, at["dashboard"] \notin {"off", "over"}
  PROVE  ofViews > 0
<1>1. ofViews # Unread /\ ofViews # 0
  BY DEF ViewsComeFirst
<1>2. ofViews \in Nat \cup {Unread}
  BY DEF LoadTypes
<1> QED
  BY <1>1, <1>2

(* What a step of one chain has to keep for the rest to hold.              *)
LEMMA ChainStep ==
  ASSUME LoadIInv, NEW c \in Chains, LoadTypes',
         UNCHANGED <<day, started, kept, loading, ofViews, views, quiet>>,
         at[c] \in {"latest", "old enough", "fallback", "read"}, at'[c] # "off",
         \A d \in Chains : d # c => /\ at'[d] = at[d] /\ curr'[d] = curr[d]
                                   /\ prev'[d] = prev[d] /\ seen'[d] = seen[d],
         ChainProceeds(c)', LeadsForward(c)', quiet => ChainIsCurrent(c)',
         c = "dashboard" /\ ofViews > 0 =>
           /\ curr'[c] = 0 => Len(started) - ofViews >= KeptRuns
           /\ curr'[c] # 0 => curr'[c] >= ofViews
  PROVE  LoadIInv'
<1> USE DEF LoadIInv
<1>1. RunsInOrder'
  BY RunsRest
<1>2. "dashboard" \in Chains
  BY DEF Chains
<1>3. loading # {}
  BY DEF ViewsComeFirst
<1>4. c = "dashboard" => ofViews > 0
  BY ViewsWereFound
<1>5. ViewsComeFirst'
  <2>1. ofViews > 0 => WasServed(ofViews)' /\ views' \in {Unread, 0, started'[ofViews].value}
    BY DEF ViewsComeFirst, WasServed
  <2>2. at'["dashboard"] = "off" <=> ofViews = Unread
    BY <1>2, <1>4 DEF ViewsComeFirst, Unread
  <2>3. ofViews = Unread => views = Unread
    BY DEF ViewsComeFirst
  <2>4. ofViews = 0 => views = 0 /\ at'["dashboard"] = "over" /\ curr'["dashboard"] = 0
    BY <1>2, <1>4 DEF ViewsComeFirst
  <2> QED
    BY <1>3, <2>1, <2>2, <2>3, <2>4 DEF ViewsComeFirst
<1>6. ASSUME NEW d \in Chains
      PROVE  ChainProceeds(d)' /\ LeadsForward(d)' /\ (quiet => ChainIsCurrent(d)')
  <2>1. CASE d = c
    BY <2>1
  <2>2. CASE d # c
    <3>1. ChainProceeds(d) /\ LeadsForward(d) /\ (quiet => ChainIsCurrent(d))
      BY DEF ChainsProceed, QuietSoFar
    <3>2. /\ at'[d] = at[d] /\ curr'[d] = curr[d] /\ prev'[d] = prev[d] /\ seen'[d] = seen[d]
      BY <2>2
    <3> QED
      BY <3>1, <3>2, OtherChain
  <2> QED BY <2>1, <2>2
<1>7. ViewsAreNotNewer'
  <2>1. ofViews > 0 =>
          /\ curr["dashboard"] = 0 /\ at["dashboard"] = "over" => Len(started) - ofViews >= KeptRuns
          /\ curr["dashboard"] # 0 => curr["dashboard"] >= ofViews
          /\ views = 0 /\ started[ofViews].value # 0 => Len(started) - ofViews >= KeptRuns
    BY DEF ViewsAreNotNewer, StartedAfter
  <2>2. CASE c = "dashboard"
    BY <2>1, <2>2 DEF ViewsAreNotNewer, StartedAfter
  <2>3. CASE c # "dashboard"
    <3>1. curr'["dashboard"] = curr["dashboard"] /\ at'["dashboard"] = at["dashboard"]
      BY <1>2, <2>3
    <3> QED
      BY <2>1, <3>1 DEF ViewsAreNotNewer, StartedAfter
  <2> QED BY <2>2, <2>3
<1>8. QuietSoFar'
  <2>1. Newest(ServedNow)' = Newest(ServedNow)
    BY RunsRest
  <2>2. quiet => /\ ofViews # Unread => ofViews = Newest(ServedNow)
                 /\ ofViews > 0 /\ views # Unread => views = started[ofViews].value
    BY DEF QuietSoFar
  <2> QED
    BY <1>6, <2>1, <2>2 DEF QuietSoFar
<1> QED
  BY <1>1, <1>5, <1>6, <1>7, <1>8 DEF ChainsProceed

LEMMA FindLatestKeeps ==
  ASSUME LoadIInv, NEW c \in Chains, FindLatest(c)
  PROVE  LoadIInv'
<1> USE DEF LoadIInv
<1> DEFINE now == Newest(ServedNow)
           step == IF ServedNow = {} THEN "over" ELSE "old enough"
<1>1. /\ at[c] = "latest" /\ at' = [at EXCEPT ![c] = step] /\ curr' = [curr EXCEPT ![c] = now]
      /\ UNCHANGED <<day, started, kept, loading, ofViews, views, prev, seen, quiet>>
  BY DEF FindLatest, Chain, refreshState
<1>2. /\ Len(started) \in Nat /\ now \in Nat /\ (now = 0 <=> ServedNow = {})
      /\ now # 0 => WasServed(now) /\ now \in kept
      /\ \A i \in ServedNow : i <= now
  BY ServedAre
<1>3. /\ at \in [Chains -> ChainSteps] /\ curr \in [Chains -> Nat]
  BY DEF LoadTypes
<1>4. /\ at'[c] = step /\ curr'[c] = now
      /\ \A d \in Chains : d # c => at'[d] = at[d] /\ curr'[d] = curr[d]
  BY <1>1, <1>3
<1>5. Newest(ServedNow)' = now
  BY <1>1, RunsRest
<1>6. step \in {"over", "old enough"} /\ (step = "over" <=> now = 0)
  BY <1>2
<1>7. prev[c] = 0 /\ \A read \in Reads : seen[c][read] = Unread
  BY <1>1 DEF ChainsProceed, ChainProceeds
<1> HIDE DEF now, step
<1>8. LoadTypes'
  <2>1. at' \in [Chains -> ChainSteps] /\ curr' \in [Chains -> Nat]
    BY <1>1, <1>2, <1>3, <1>6 DEF ChainSteps
  <2> QED
    BY <1>1, <2>1 DEF LoadTypes
<1>9. ChainProceeds(c)'
  <2>1. curr'[c] # 0 => WasServed(curr[c])'
    BY <1>1, <1>2, <1>4 DEF WasServed
  <2> QED
    BY <1>1, <1>4, <1>6, <1>7, <2>1 DEF ChainProceeds
<1>10. LeadsForward(c)'
  <2>1. ~(prev'[c] > curr'[c])
    BY <1>1, <1>2, <1>4, <1>7
  <2> QED BY <2>1 DEF LeadsForward
<1>11. ChainIsCurrent(c)'
  BY <1>1, <1>4, <1>5, <1>6, <1>7 DEF ChainIsCurrent
<1>12. ASSUME ofViews > 0
       PROVE  /\ now = 0 => Len(started) - ofViews >= KeptRuns
              /\ now # 0 => now >= ofViews
  <2>1. ofViews \in 1..Len(started) /\ WasServed(ofViews)
    BY <1>12 DEF ViewsComeFirst, WasServed
  <2>2. CASE ofViews \in kept
    <3>1. ofViews \in ServedNow
      BY <2>1, <2>2, ServedAre
    <3> QED
      BY <1>2, <2>1, <3>1
  <2>3. CASE ofViews \notin kept
    <3>1. Len(started) - ofViews >= KeptRuns
      BY <2>1, <2>3 DEF RunsInOrder
    <3>2. now # 0 => ~(now < ofViews)
      BY <1>2, <2>1, <2>3 DEF RunsInOrder
    <3> QED
      BY <1>2, <2>1, <3>1, <3>2
  <2> QED BY <2>2, <2>3
<1>13. at'[c] # "off"
  BY <1>4, <1>6
<1> QED
  BY <1>1, <1>4, <1>8, <1>9, <1>10, <1>11, <1>12, <1>13, ChainStep

LEMMA FindOldEnoughKeeps ==
  ASSUME LoadIInv, NEW c \in Chains, FindOldEnough(c)
  PROVE  LoadIInv'
<1> USE DEF LoadIInv
<1> DEFINE old == OldEnough(curr[c])
           step == IF old = 0 THEN "fallback" ELSE "read"
<1>1. /\ at[c] = "old enough" /\ at' = [at EXCEPT ![c] = step] /\ prev' = [prev EXCEPT ![c] = old]
      /\ UNCHANGED <<day, started, kept, loading, ofViews, views, curr, seen, quiet>>
  BY DEF FindOldEnough, Chain, refreshState
<1>2. /\ at \in [Chains -> ChainSteps] /\ prev \in [Chains -> Nat] /\ curr[c] \in Nat
  BY DEF LoadTypes
<1>3. /\ curr[c] # 0 /\ curr[c] \in 1..Len(started) /\ prev[c] = 0
      /\ WasServed(curr[c]) /\ \A read \in Reads : seen[c][read] = Unread
  BY <1>1 DEF ChainsProceed, ChainProceeds, WasServed
<1>4. old \in Nat /\ (old # 0 => WasServed(old) /\ old < curr[c])
  BY <1>3, OldEnoughIs
<1>5. /\ at'[c] = step /\ prev'[c] = old
      /\ \A d \in Chains : d # c => at'[d] = at[d] /\ prev'[d] = prev[d]
  BY <1>1, <1>2
<1>6. step \in {"fallback", "read"} /\ (step = "fallback" <=> old = 0)
  OBVIOUS
<1>7. /\ OldEnough(curr[c])' = old /\ (old # 0 => Baseline(curr[c])' = old)
      /\ Newest(ServedNow)' = Newest(ServedNow)
  <2>1. curr'[c] = curr[c] /\ OldEnough(curr[c])' = OldEnough(curr'[c])
    BY <1>1 DEF OldEnough, ServedNow
  <2>2. old # 0 => Baseline(curr[c])' = old
    BY <2>1 DEF Baseline
  <2> QED
    BY <1>1, <2>1, <2>2, RunsRest
<1> HIDE DEF old, step
<1>8. LoadTypes'
  <2>1. at' \in [Chains -> ChainSteps] /\ prev' \in [Chains -> Nat]
    BY <1>1, <1>2, <1>4, <1>6 DEF ChainSteps
  <2> QED
    BY <1>1, <2>1 DEF LoadTypes
<1>9. ChainProceeds(c)'
  <2>1. curr'[c] # 0 /\ WasServed(curr[c])'
    BY <1>1, <1>3 DEF WasServed
  <2>2. prev'[c] # 0 => WasServed(prev[c])'
    BY <1>1, <1>4, <1>5 DEF WasServed
  <2>3. (at'[c] = "fallback" => prev'[c] = 0) /\ (at'[c] = "read" => prev'[c] # 0)
    BY <1>5, <1>6
  <2>4. at'[c] \in {"fallback", "read"} /\ \A read \in Reads : seen'[c][read] = Unread
    BY <1>1, <1>3, <1>5, <1>6
  <2> QED
    BY <2>1, <2>2, <2>3, <2>4 DEF ChainProceeds
<1>10. LeadsForward(c)'
  <2>1. old \in Nat /\ curr[c] \in Nat /\ (old = 0 \/ old < curr[c])
    BY <1>2, <1>4
  <2>2. prev'[c] = old /\ curr'[c] = curr[c]
    BY <1>1, <1>5
  <2>3. ~(prev'[c] > curr'[c])
    BY <2>1, <2>2
  <2> QED BY <2>3 DEF LeadsForward
<1>11. quiet => ChainIsCurrent(c)'
  <2>1. quiet => curr[c] = Newest(ServedNow)
    BY <1>1 DEF QuietSoFar, ChainIsCurrent
  <2> QED
    BY <1>1, <1>3, <1>5, <1>6, <1>7, <2>1 DEF ChainIsCurrent
<1>12. c = "dashboard" /\ ofViews > 0 =>
         /\ curr'[c] = 0 => Len(started) - ofViews >= KeptRuns
         /\ curr'[c] # 0 => curr'[c] >= ofViews
  BY <1>1, <1>3 DEF ViewsAreNotNewer
<1>13. at'[c] # "off"
  BY <1>5, <1>6
<1> QED
  BY <1>1, <1>5, <1>8, <1>9, <1>10, <1>11, <1>12, <1>13, ChainStep

LEMMA FindFallbackKeeps ==
  ASSUME LoadIInv, NEW c \in Chains, FindFallback(c)
  PROVE  LoadIInv'
<1> USE DEF LoadIInv
<1> DEFINE first == Fallback(curr[c])
           step == IF first = 0 THEN "over" ELSE "read"
<1>1. /\ at[c] = "fallback" /\ at' = [at EXCEPT ![c] = step] /\ prev' = [prev EXCEPT ![c] = first]
      /\ UNCHANGED <<day, started, kept, loading, ofViews, views, curr, seen, quiet>>
  BY DEF FindFallback, Chain, refreshState
<1>2. /\ at \in [Chains -> ChainSteps] /\ prev \in [Chains -> Nat] /\ curr[c] \in Nat
  BY DEF LoadTypes
<1>3. /\ curr[c] # 0 /\ curr[c] \in 1..Len(started) /\ prev[c] = 0
      /\ WasServed(curr[c]) /\ \A read \in Reads : seen[c][read] = Unread
  BY <1>1 DEF ChainsProceed, ChainProceeds, WasServed
<1>4. /\ first \in Nat /\ (first # 0 => WasServed(first))
      /\ \A j \in ServedNow \ {curr[c]} : first <= j
  BY <1>3, FallbackIs
<1>5. /\ at'[c] = step /\ prev'[c] = first
      /\ \A d \in Chains : d # c => at'[d] = at[d] /\ prev'[d] = prev[d]
  BY <1>1, <1>2
<1>6. step \in {"over", "read"} /\ (step = "over" <=> first = 0)
  OBVIOUS
<1>7. /\ OldEnough(curr[c]) = 0 => Baseline(curr[c])' = first
      /\ Newest(ServedNow)' = Newest(ServedNow)
  <2>1. /\ curr'[c] = curr[c] /\ OldEnough(curr[c])' = OldEnough(curr[c])
        /\ Fallback(curr[c])' = first
    BY <1>1 DEF OldEnough, Fallback, ServedNow
  <2>2. OldEnough(curr[c]) = 0 => Baseline(curr[c])' = first
    BY <2>1 DEF Baseline
  <2> QED
    BY <1>1, <2>2, RunsRest
<1> HIDE DEF first, step
<1>8. LoadTypes'
  <2>1. at' \in [Chains -> ChainSteps] /\ prev' \in [Chains -> Nat]
    BY <1>1, <1>2, <1>4, <1>6 DEF ChainSteps
  <2> QED
    BY <1>1, <2>1 DEF LoadTypes
<1>9. ChainProceeds(c)'
  <2>1. WasServed(curr[c])' /\ (first # 0 => WasServed(prev[c])')
    BY <1>1, <1>3, <1>4, <1>5 DEF WasServed
  <2> QED
    BY <1>1, <1>3, <1>5, <1>6, <2>1 DEF ChainProceeds
<1>10. LeadsForward(c)'
  <2>1. SUFFICES ASSUME first > curr[c], NEW i \in 1..(curr[c] - 1)
                 PROVE  i \notin kept \/ started[i].status # "served"
    BY <1>1, <1>5 DEF LeadsForward
  <2>2. i \in Nat /\ i # curr[c] /\ ~(first <= i)
    BY <1>2, <1>4, <2>1
  <2>3. i \notin ServedNow
    BY <1>4, <2>2
  <2> QED
    BY <2>3 DEF ServedNow
<1>11. quiet => ChainIsCurrent(c)'
  <2>1. quiet => curr[c] = Newest(ServedNow) /\ OldEnough(curr[c]) = 0
    BY <1>1 DEF QuietSoFar, ChainIsCurrent
  <2> QED
    BY <1>1, <1>3, <1>5, <1>6, <1>7, <2>1 DEF ChainIsCurrent
<1>12. c = "dashboard" /\ ofViews > 0 =>
         /\ curr'[c] = 0 => Len(started) - ofViews >= KeptRuns
         /\ curr'[c] # 0 => curr'[c] >= ofViews
  BY <1>1, <1>3 DEF ViewsAreNotNewer
<1>13. at'[c] # "off"
  BY <1>5, <1>6
<1> QED
  BY <1>1, <1>5, <1>8, <1>9, <1>10, <1>11, <1>12, <1>13, ChainStep

LEMMA ReadOneKeeps ==
  ASSUME LoadIInv, NEW c \in Chains, NEW read \in Reads, ReadOne(c, read)
  PROVE  LoadIInv'
<1> USE DEF LoadIInv
<1> DEFINE of == Target(c, read)
           found == [seen[c] EXCEPT ![read] = Found(of)]
           step == IF \E r \in Reads : found[r] = Unread THEN "read" ELSE "over"
<1>1. /\ at[c] = "read" /\ seen[c][read] = Unread
      /\ at' = [at EXCEPT ![c] = step] /\ seen' = [seen EXCEPT ![c] = found]
      /\ UNCHANGED <<day, started, kept, loading, ofViews, views, curr, prev, quiet>>
  BY DEF ReadOne, Chain, refreshState, Target
<1>2. /\ at \in [Chains -> ChainSteps] /\ prev[c] \in Nat /\ curr[c] \in Nat
      /\ seen \in [Chains -> [Reads -> Nat \cup {Unread}]]
  BY DEF LoadTypes
<1>3. curr[c] # 0 /\ prev[c] # 0 /\ WasServed(curr[c]) /\ WasServed(prev[c])
  BY <1>1 DEF ChainsProceed, ChainProceeds
<1>4. WasServed(of) /\ started[of].value \in Nat
  <2>1. WasServed(of)
    BY <1>3 DEF Target
  <2>2. started[of] \in RunRow
    BY <2>1 DEF WasServed, LoadTypes
  <2> QED
    BY <2>1, <2>2 DEF RunRow
<1>5. /\ Found(of) \in {0, started[of].value} /\ Found(of) \in Nat
      /\ of \in kept => Found(of) = started[of].value
  BY <1>4 DEF Found
<1>6. quiet => of \in kept
  <2>1. SUFFICES ASSUME quiet PROVE of \in kept
    OBVIOUS
  <2>2. curr[c] = Newest(ServedNow) /\ prev[c] = Baseline(curr[c])
    BY <1>1, <1>3, <2>1 DEF QuietSoFar, ChainIsCurrent
  <2>3. curr[c] \in kept
    BY <1>3, <2>2, ServedAre
  <2>4. curr[c] \in 1..Len(started)
    BY <1>3 DEF WasServed
  <2>5. prev[c] \in kept
    BY <1>3, <2>2, <2>4, OldEnoughIs, FallbackIs DEF Baseline
  <2> QED
    BY <2>3, <2>5 DEF Target
<1>7. /\ at'[c] = step /\ seen'[c] = found
      /\ \A d \in Chains : d # c => at'[d] = at[d] /\ seen'[d] = seen[d]
  BY <1>1, <1>2
<1>8. /\ found[read] = Found(of) /\ found \in [Reads -> Nat \cup {Unread}]
      /\ \A r \in Reads : r # read => found[r] = seen[c][r]
  BY <1>2, <1>5
<1>9. step \in {"over", "read"} /\ (step = "over" => \A r \in Reads : found[r] # Unread)
  OBVIOUS
<1>10. \A r \in Reads : Target(c, r)' = Target(c, r)
  BY <1>1 DEF Target
<1> HIDE DEF found, step, of
<1>11. LoadTypes'
  <2>1. at' \in [Chains -> ChainSteps]
    BY <1>1, <1>2, <1>9 DEF ChainSteps
  <2>2. seen' \in [Chains -> [Reads -> Nat \cup {Unread}]]
    BY <1>1, <1>2, <1>8
  <2> QED
    BY <1>1, <2>1, <2>2 DEF LoadTypes
<1>12. ASSUME NEW r \in Reads, found[r] # Unread
       PROVE  /\ found[r] \in {0, started[Target(c, r)].value}
              /\ quiet => found[r] = started[Target(c, r)].value
  <2>1. CASE r = read
    BY <1>5, <1>6, <1>8, <2>1 DEF of
  <2>2. CASE r # read
    <3>1. seen[c][r] # Unread /\ found[r] = seen[c][r]
      BY <1>8, <1>12, <2>2
    <3>2. /\ seen[c][r] \in {0, started[Target(c, r)].value}
      BY <3>1 DEF ChainsProceed, ChainProceeds
    <3>3. quiet => seen[c][r] = started[Target(c, r)].value
      BY <3>1 DEF QuietSoFar, ChainIsCurrent
    <3> QED
      BY <3>1, <3>2, <3>3
  <2> QED BY <2>1, <2>2
<1>13. ChainProceeds(c)'
  <2>1. WasServed(curr[c])' /\ WasServed(prev[c])'
    BY <1>1, <1>3 DEF WasServed
  <2>2. \A r \in Reads : seen'[c][r] # Unread =>
          prev'[c] # 0 /\ seen'[c][r] \in {0, started'[Target(c, r)'].value}
    BY <1>1, <1>3, <1>7, <1>10, <1>12
  <2>3. at'[c] = "over" => \A r \in Reads : seen'[c][r] # Unread
    BY <1>7, <1>9
  <2>4. at'[c] \in {"over", "read"} /\ curr'[c] # 0 /\ prev'[c] # 0
    BY <1>1, <1>3, <1>7, <1>9
  <2> QED
    BY <2>1, <2>2, <2>3, <2>4 DEF ChainProceeds
<1>14. LeadsForward(c)'
  <2>1. LeadsForward(c)
    BY DEF ChainsProceed
  <2> QED
    BY <1>1, <2>1 DEF LeadsForward
<1>15. quiet => ChainIsCurrent(c)'
  <2>1. SUFFICES ASSUME quiet PROVE ChainIsCurrent(c)'
    OBVIOUS
  <2>2. curr[c] = Newest(ServedNow) /\ prev[c] = Baseline(curr[c])
    BY <1>1, <1>3, <2>1 DEF QuietSoFar, ChainIsCurrent
  <2>3. (curr[c] = Newest(ServedNow))'
    BY <1>1, <2>2, RunsRest
  <2>4. (prev[c] = Baseline(curr[c]))'
    BY <1>1, <2>2 DEF Baseline, OldEnough, Fallback, ServedNow
  <2>5. \A r \in Reads : seen'[c][r] # Unread => seen'[c][r] = started'[Target(c, r)'].value
    BY <1>1, <1>7, <1>10, <1>12, <2>1
  <2>6. at'[c] # "fallback"
    BY <1>7, <1>9
  <2> QED
    BY <2>3, <2>4, <2>5, <2>6 DEF ChainIsCurrent
<1>16. c = "dashboard" /\ ofViews > 0 =>
         /\ curr'[c] = 0 => Len(started) - ofViews >= KeptRuns
         /\ curr'[c] # 0 => curr'[c] >= ofViews
  BY <1>1, <1>3 DEF ViewsAreNotNewer
<1>17. at'[c] # "off"
  BY <1>7, <1>9
<1> QED
  BY <1>1, <1>7, <1>11, <1>13, <1>14, <1>15, <1>16, <1>17, ChainStep

LEMMA LoadIInvHolds == LoadSpec => []LoadIInv
<1>1. LoadInit => LoadIInv
  <2> SUFFICES ASSUME LoadInit PROVE LoadIInv
    OBVIOUS
  <2>1. /\ day = 1 /\ started = <<>> /\ kept = {} /\ loading = {}
        /\ ofViews = Unread /\ views = Unread /\ quiet = FALSE
        /\ at = [c \in Chains |-> "off"]
        /\ curr = [c \in Chains |-> 0] /\ prev = [c \in Chains |-> 0]
        /\ seen = [c \in Chains |-> [r \in Reads |-> Unread]]
    BY DEF LoadInit
  <2>2. LoadTypes
    <3>1. started \in Seq(RunRow) /\ Len(started) = 0
      BY <2>1
    <3> QED
      BY <2>1, <3>1 DEF LoadTypes, ChainSteps
  <2>3. RunsInOrder
    BY <2>1 DEF RunsInOrder
  <2>4. ViewsComeFirst
    BY <2>1 DEF ViewsComeFirst, Unread, Chains
  <2>5. ChainsProceed
    <3>1. ASSUME NEW c \in Chains PROVE ChainProceeds(c) /\ LeadsForward(c)
      <4>1. /\ at[c] = "off" /\ curr[c] = 0 /\ prev[c] = 0
            /\ \A r \in Reads : seen[c][r] = Unread
        BY <2>1
      <4>2. ~(prev[c] > curr[c])
        BY <4>1
      <4> QED
        BY <4>1, <4>2 DEF ChainProceeds, LeadsForward
    <3> QED BY <3>1 DEF ChainsProceed
  <2>6. ViewsAreNotNewer /\ QuietSoFar
    BY <2>1 DEF ViewsAreNotNewer, QuietSoFar, Unread
  <2> QED
    BY <2>2, <2>3, <2>4, <2>5, <2>6 DEF LoadIInv
<1>2. LoadIInv /\ [LoadNext]_loadVars => LoadIInv'
  <2> SUFFICES ASSUME LoadIInv, [LoadNext]_loadVars PROVE LoadIInv'
    OBVIOUS
  <2>1. CASE DayPasses
    BY <2>1, DayPassesKeeps
  <2>2. CASE RunStarts
    BY <2>2, RunStartsKeeps
  <2>3. CASE RunFails \/ RunIsServed
    BY <2>3, RunEndsKeeps
  <2>4. CASE PruneRuns
    BY <2>4, PruneKeeps
  <2>5. CASE LoadBegins({"dashboard"}) \/ LoadBegins(Chains)
    BY <2>5, LoadBeginsKeeps
  <2>6. CASE FindViews
    BY <2>6, FindViewsKeeps
  <2>7. CASE ReadViews
    BY <2>7, ReadViewsKeeps
  <2>8. ASSUME NEW c \in Chains, FindLatest(c) PROVE LoadIInv'
    BY <2>8, FindLatestKeeps
  <2>9. ASSUME NEW c \in Chains, FindOldEnough(c) PROVE LoadIInv'
    BY <2>9, FindOldEnoughKeeps
  <2>10. ASSUME NEW c \in Chains, FindFallback(c) PROVE LoadIInv'
    BY <2>10, FindFallbackKeeps
  <2>11. ASSUME NEW c \in Chains, NEW read \in Reads, ReadOne(c, read) PROVE LoadIInv'
    BY <2>11, ReadOneKeeps
  <2>12. CASE UNCHANGED loadVars
    <3>1. /\ UNCHANGED <<day, started, kept>>
          /\ UNCHANGED <<loading, ofViews, views, at, curr, prev, seen, quiet>>
      BY <2>12 DEF loadVars, refreshState, chainState
    <3>2. LoadTypes' /\ RunsInOrder'
      BY <3>1 DEF LoadIInv, LoadTypes, RunsInOrder
    <3>3. /\ Len(started) <= Len(started') /\ ServedNow' = ServedNow
          /\ \A i \in Nat : WasServed(i) => WasServed(i)' /\ started'[i] = started[i]
      <4>1. Len(started) \in Nat
        BY DEF LoadIInv, LoadTypes
      <4> QED
        BY <3>1, <4>1 DEF ServedNow, WasServed
    <3> QED
      BY <3>1, <3>2, <3>3, RunsGoOn
  <2> QED
    BY <2>1, <2>2, <2>3, <2>4, <2>5, <2>6, <2>7, <2>8, <2>9, <2>10, <2>11, <2>12
    DEF LoadNext
<1> QED
  BY <1>1, <1>2, PTL DEF LoadSpec

-----------------------------------------------------------------------------
(* What the inductive invariant says of a load.                            *)

LEMMA LoadIInvSays ==
  ASSUME LoadIInv
  PROVE  LoadInv
<1> USE DEF LoadIInv
<1>1. curr \in [Chains -> Nat] /\ prev \in [Chains -> Nat] /\ loading \subseteq Chains
  BY DEF LoadTypes, Chains
<1>2. EventsAreTrue
  <2>1. SUFFICES ASSUME NEW c \in loading, Changed(c)
                 PROVE  /\ started[prev[c]].value # started[curr[c]].value
                        /\ 0 \notin {started[prev[c]].value, started[curr[c]].value}
    BY DEF EventsAreTrue, Differ
  <2>2. c \in Chains
    BY <1>1
  <2>3. /\ \A read \in Reads : seen[c][read] # Unread
        /\ seen[c]["then"] # 0 /\ seen[c]["now"] # 0 /\ seen[c]["then"] # seen[c]["now"]
    BY <2>1 DEF Changed, Moved
  <2>4. /\ seen[c]["now"] \in {0, started[Target(c, "now")].value}
        /\ seen[c]["then"] \in {0, started[Target(c, "then")].value}
    BY <2>2, <2>3 DEF ChainsProceed, ChainProceeds, Reads
  <2>5. seen[c]["now"] = started[curr[c]].value /\ seen[c]["then"] = started[prev[c]].value
    BY <2>3, <2>4 DEF Target
  <2> QED
    BY <2>3, <2>5
<1>3. ChangesLeadForward
  BY <1>1 DEF ChangesLeadForward, ChainsProceed, LeadsForward
<1>4. QuietLoad
  <2> DEFINE now == Max(ServedNow)
             old == {j \in ServedNow : started[j].day + Window <= started[now].day /\ j # now}
             base == IF old # {} THEN Max(old) ELSE Min(ServedNow)
  <2>1. SUFFICES ASSUME quiet, Loaded, ServedNow # {}
                 PROVE  /\ ofViews = now /\ views = started[now].value
                        /\ \A c \in loading : Changed(c) <=> Differ(base, now)
    BY DEF QuietLoad
  <2>2. now = Newest(ServedNow)
    BY <2>1 DEF Newest
  <2>3. now \in 1..Len(started) /\ now \in kept /\ WasServed(now) /\ now \in ServedNow
    <3>1. now # 0 /\ WasServed(now) /\ now \in kept
      BY <2>1, <2>2, ServedAre
    <3> QED
      BY <3>1, ServedAre DEF WasServed
  <2>4. ofViews # Unread /\ views # Unread
    BY <2>1 DEF Loaded, ViewsComeFirst
  <2>5. ofViews = now /\ views = started[now].value
    <3>1. ofViews = now
      BY <2>1, <2>2, <2>4 DEF QuietSoFar
    <3>2. ofViews > 0
      BY <2>3, <3>1
    <3> QED
      BY <2>1, <2>4, <3>1, <3>2 DEF QuietSoFar
  <2>6. Len(started) \in Nat /\ ServedNow \in SUBSET (1..Len(started))
    BY ServedAre
  <2>7. old = {j \in ServedNow \ {now} : now \in kept /\ started[j].day <= started[now].day - Window}
    <3>1. \A j \in ServedNow : started[j].day \in Nat
      <4>1. \A j \in ServedNow : started[j] \in RunRow
        BY <2>6 DEF LoadTypes
      <4> QED BY <4>1 DEF RunRow
    <3>2. started[now].day \in Nat /\ Window \in Nat
      BY <2>3, <3>1, LoadAssumption
    <3> HIDE DEF now
    <3>3. \A j \in ServedNow :
            started[j].day + Window <= started[now].day <=> started[j].day <= started[now].day - Window
      BY <3>1, <3>2
    <3> QED
      BY <2>3, <3>3
  <2>8. OldEnough(now) = Newest(old)
    BY <2>7 DEF OldEnough
  <2>9. old \in SUBSET (1..Len(started)) /\ now \notin old /\ old \subseteq ServedNow
    BY <2>6
  <2>10. CASE old = {} /\ ServedNow \ {now} = {}
    <3>1. OldEnough(now) = 0 /\ Fallback(now) = 0
      BY <2>8, <2>10 DEF Newest, Fallback
    <3>2. base = now
      <4>1. Min(ServedNow) \in ServedNow
        BY <2>1, <2>6, LeastOf
      <4> QED
        BY <2>10, <4>1
    <3> HIDE DEF now, old, base
    <3>3. ASSUME NEW c \in loading
          PROVE  ~Changed(c)
      <4>1. c \in Chains /\ at[c] = "over"
        BY <1>1, <2>1 DEF Loaded
      <4>2. prev[c] = 0
        <5>1. CASE curr[c] = 0
          BY <4>1, <5>1 DEF ChainsProceed, ChainProceeds
        <5>2. CASE curr[c] # 0
          BY <2>1, <2>2, <3>1, <4>1, <5>2 DEF QuietSoFar, ChainIsCurrent, Baseline
        <5> QED BY <5>1, <5>2
      <4>3. \A read \in Reads : seen[c][read] = Unread
        BY <4>1, <4>2 DEF ChainsProceed, ChainProceeds
      <4> QED
        BY <4>3 DEF Changed, Reads
    <3> QED
      BY <2>5, <3>2, <3>3 DEF Differ
  <2>11. CASE old # {} \/ ServedNow \ {now} # {}
    <3>1. base = Baseline(now) /\ base # 0
      <4>1. CASE old # {}
        <5>1. Newest(old) # 0
          BY <2>6, <2>9, <4>1, NewestIs
        <5> QED
          BY <2>8, <4>1, <5>1 DEF Newest, Baseline
      <4>2. CASE old = {}
        <5>1. OldEnough(now) = 0
          BY <2>8, <4>2 DEF Newest
        <5>2. /\ Fallback(now) = Min(ServedNow \ {now}) /\ Fallback(now) # 0
          BY <2>3, <2>11, <4>2, FallbackIs DEF Fallback
        <5>3. Min(ServedNow \ {now}) = Min(ServedNow)
          <6> DEFINE rest == ServedNow \ {now}
          <6>1. rest # {} /\ rest \in SUBSET (1..Len(started))
            BY <2>6, <2>11, <4>2
          <6>2. /\ Min(rest) \in rest /\ \A s \in rest : Min(rest) <= s
                /\ Min(ServedNow) \in ServedNow /\ \A s \in ServedNow : Min(ServedNow) <= s
            BY <2>1, <2>6, <6>1, LeastOf
          <6>3. \A s \in ServedNow : s <= now /\ s \in Nat
            BY <2>2, <2>6, ServedAre
          <6>4. Min(rest) \in Nat /\ Min(ServedNow) \in Nat /\ now \in Nat
                /\ Min(rest) <= now /\ Min(rest) # now
            BY <2>3, <6>2, <6>3
          <6>5. Min(ServedNow) <= Min(rest)
            BY <6>2
          <6> HIDE DEF now
          <6>6. Min(ServedNow) # now
            BY <6>4, <6>5
          <6>7. Min(rest) <= Min(ServedNow)
            BY <6>2, <6>6
          <6> QED
            BY <6>4, <6>5, <6>7
        <5> QED
          BY <4>2, <5>1, <5>2, <5>3 DEF Baseline
      <4> QED BY <4>1, <4>2
    <3> HIDE DEF now, old, base
    <3>2. ASSUME NEW c \in loading
          PROVE  Changed(c) <=> Differ(base, now)
      <4>1. c \in Chains /\ at[c] = "over"
        BY <1>1, <2>1 DEF Loaded
      <4>2. curr[c] = now
        BY <2>1, <2>2, <4>1 DEF QuietSoFar, ChainIsCurrent
      <4>3. now # 0
        BY <2>3
      <4>4. prev[c] = base
        BY <2>1, <3>1, <4>1, <4>2, <4>3 DEF QuietSoFar, ChainIsCurrent
      <4>5. \A read \in Reads : seen[c][read] # Unread
        BY <3>1, <4>1, <4>4 DEF ChainsProceed, ChainProceeds
      <4>6. \A read \in Reads : seen[c][read] = started[Target(c, read)].value
        BY <2>1, <4>1, <4>5 DEF QuietSoFar, ChainIsCurrent
      <4>7. seen[c]["now"] = started[now].value /\ seen[c]["then"] = started[base].value
        BY <4>2, <4>4, <4>6 DEF Reads, Target
      <4> QED
        BY <4>5, <4>7 DEF Changed, Moved, Differ, Reads
    <3> QED
      BY <2>5, <3>2
  <2> QED BY <2>10, <2>11
<1> QED
  BY <1>2, <1>3, <1>4 DEF LoadInv

(* A page that loads shows one run, with the changes since its baseline,   *)
(* whatever is published or pruned under it (read-model.ts).               *)
THEOREM LoadsAreConsistent == LoadSpec => []LoadInv
BY LoadIInvHolds, LoadIInvSays, PTL
=============================================================================
