---------------------------- MODULE FiguresProofs ----------------------------
(***************************************************************************)
(* Proofs about two of the components that compute figures from a book:    *)
(* the totals, lists and week-over-week lines of the weekly script, and    *)
(* the scores, plans and rankings of the renewals under review.  The       *)
(* totals are sums over finite sets, which TLA+ defines by recursion on a  *)
(* chosen element; what they add up to is proved first, each time from a   *)
(* smallest set that would be wrong.                                       *)
(***************************************************************************)
EXTENDS ForecastTotals, PlanEngine, FiniteSetTheorems, WellFoundedInduction, TLAPS

-----------------------------------------------------------------------------
(* Sums over finite sets, as MapThenSumSet defines them.                   *)

Pick(s) == CHOOSE x \in s : TRUE
SumRec(worth, T, g) == g = [s \in SUBSET T |-> IF s = {} THEN 0 ELSE worth[Pick(s)] + g[s \ {Pick(s)}]]
SumOf(worth, S) == (CHOOSE g : SumRec(worth, S, g))[S]

Less == {p \in Nat \X Nat : p[1] < p[2]}

(* The natural numbers have no endless descent.                            *)
LEMMA LessIsWellFounded == IsWellFoundedOn(Less, Nat)
  BY NatLessThanWellFounded, Zenon DEF OpToRel, Less

(* Of some finite sets there is one that is no superset of another.        *)
LEMMA SmallestBad ==
  ASSUME NEW D, IsFiniteSet(D), NEW Bad \in SUBSET (SUBSET D), Bad # {}
  PROVE  \E m \in Bad : \A s \in SUBSET m : s # m => s \notin Bad
<1> DEFINE sizes == {Cardinality(s) : s \in Bad}
<1>1. \A s \in SUBSET D : IsFiniteSet(s) /\ Cardinality(s) \in Nat
  BY FS_Subset, FS_CardinalityType
<1>2. sizes \subseteq Nat /\ sizes # {}
  BY <1>1
<1>3. PICK n \in sizes : \A k \in sizes : ~(k < n)
  <2> HIDE DEF sizes
  <2>1. PICK n \in sizes : \A k \in sizes : <<k, n>> \notin Less
    BY <1>2, LessIsWellFounded, WFMin
  <2> QED
    BY <1>2, <2>1 DEF Less
<1>4. PICK m \in Bad : Cardinality(m) = n
  BY <1>3
<1>5. ASSUME NEW s \in SUBSET m, s # m, s \in Bad
      PROVE  FALSE
  <2>1. Cardinality(s) < Cardinality(m)
    BY <1>1, <1>5, FS_Subset
  <2> QED
    BY <1>3, <1>4, <1>5, <2>1
<1> QED
  BY <1>5

(* Pick takes an element.                                                  *)
LEMMA PickIs ==
  ASSUME NEW s, s # {}
  PROVE  Pick(s) \in s
BY DEF Pick

(* Two functions that satisfy the recursion agree where both are defined.  *)
LEMMA SumAgree ==
  ASSUME NEW D, IsFiniteSet(D), NEW worth, NEW A \in SUBSET D, NEW B \in SUBSET D, NEW g, NEW h,
         SumRec(worth, A, g), SumRec(worth, B, h)
  PROVE  \A s \in SUBSET (A \cap B) : g[s] = h[s]
<1> DEFINE Bad == {s \in SUBSET (A \cap B) : g[s] # h[s]}
<1>1. SUFFICES ASSUME Bad # {}
               PROVE  FALSE
  OBVIOUS
<1>2. Bad \in SUBSET (SUBSET D)
  OBVIOUS
<1>3. PICK m \in Bad : \A s \in SUBSET m : s # m => s \notin Bad
  <2> HIDE DEF Bad
  <2> QED
    BY <1>1, <1>2, SmallestBad
<1>4. m \in SUBSET A /\ m \in SUBSET B /\ g[m] # h[m]
  OBVIOUS
<1>5. CASE m = {}
  BY <1>4, <1>5 DEF SumRec
<1>6. CASE m # {}
  <2> DEFINE r == m \ {Pick(m)}
  <2>1. r \in SUBSET m /\ r # m
    BY <1>6, PickIs
  <2>2. g[r] = h[r]
    BY <1>3, <2>1
  <2>3. g[m] = worth[Pick(m)] + g[r] /\ h[m] = worth[Pick(m)] + h[r]
    BY <1>4, <1>6 DEF SumRec
  <2> QED
    BY <1>4, <2>2, <2>3
<1> QED
  BY <1>5, <1>6

(* A function that satisfies the recursion exists on the subsets of any    *)
(* finite set.                                                             *)
LEMMA SumExists ==
  ASSUME NEW D, IsFiniteSet(D), NEW worth \in [D -> Int]
  PROVE  \A T \in SUBSET D : \E g \in [SUBSET T -> Int] : SumRec(worth, T, g)
<1> DEFINE Bad == {T \in SUBSET D : ~\E g \in [SUBSET T -> Int] : SumRec(worth, T, g)}
<1>1. SUFFICES ASSUME Bad # {}
               PROVE  FALSE
  OBVIOUS
<1>2. PICK m \in Bad : \A s \in SUBSET m : s # m => s \notin Bad
  <2>1. Bad \in SUBSET (SUBSET D)
    OBVIOUS
  <2> HIDE DEF Bad
  <2> QED
    BY <1>1, <2>1, SmallestBad
<1>3. m \in SUBSET D /\ ~\E g \in [SUBSET m -> Int] : SumRec(worth, m, g)
  OBVIOUS
<1>4. ASSUME NEW s \in SUBSET m, s # m
      PROVE  \E g \in [SUBSET s -> Int] : SumRec(worth, s, g)
  BY <1>2, <1>3, <1>4
<1> HIDE DEF Bad
<1>5. ASSUME NEW s \in SUBSET m, s # m
      PROVE  /\ SumOf(worth, s) \in Int
             /\ SumOf(worth, s) = IF s = {} THEN 0 ELSE worth[Pick(s)] + SumOf(worth, s \ {Pick(s)})
  <2> DEFINE G(t) == CHOOSE g : SumRec(worth, t, g)
  <2>1. PICK g \in [SUBSET s -> Int] : SumRec(worth, s, g)
    BY <1>4, <1>5
  <2>2. SumRec(worth, s, G(s))
    BY <2>1
  <2>3. s \in SUBSET D
    BY <1>3
  <2>4. G(s)[s] = g[s]
    <3> HIDE DEF G
    <3> QED
      BY <2>1, <2>2, <2>3, SumAgree
  <2>5. SumOf(worth, s) \in Int
    BY <2>1, <2>4 DEF SumOf
  <2>6. CASE s = {}
    BY <2>2, <2>5, <2>6 DEF SumOf, SumRec
  <2>7. CASE s # {}
    <3> DEFINE r == s \ {Pick(s)}
    <3>1. r \in SUBSET m /\ r # m /\ r \in SUBSET s /\ r \in SUBSET D
      BY <1>5, <2>3, <2>7, PickIs
    <3>2. \E f : SumRec(worth, r, f)
      BY <1>4, <3>1
    <3>3. SumRec(worth, r, G(r))
      BY <3>2
    <3>4. G(s)[s] = worth[Pick(s)] + G(s)[r]
      BY <2>2, <2>7 DEF SumRec
    <3>5. G(s)[r] = G(r)[r]
      <4> HIDE DEF G, r
      <4> QED
        BY <2>2, <2>3, <3>1, <3>3, SumAgree
    <3> QED
      BY <2>5, <2>7, <3>4, <3>5 DEF SumOf
  <2> QED
    BY <2>5, <2>6, <2>7
<1> DEFINE V(s) == IF s = {} THEN 0 ELSE worth[Pick(s)] + SumOf(worth, s \ {Pick(s)})
           f == [s \in SUBSET m |-> V(s)]
<1>6. ASSUME NEW s \in SUBSET m
      PROVE  V(s) \in Int /\ V(s) = IF s = {} THEN 0 ELSE worth[Pick(s)] + f[s \ {Pick(s)}]
  <2>1. CASE s = {}
    BY <2>1
  <2>2. CASE s # {}
    <3> DEFINE r == s \ {Pick(s)}
    <3>1. r \in SUBSET m /\ r # m /\ Pick(s) \in D
      BY <1>3, <2>2, PickIs
    <3>2. SumOf(worth, r) \in Int /\ SumOf(worth, r) = V(r)
      BY <1>5, <3>1
    <3>3. f[r] = V(r)
      BY <3>1
    <3>4. worth[Pick(s)] \in Int
      BY <3>1
    <3> QED
      BY <2>2, <3>2, <3>3, <3>4
  <2> QED
    BY <2>1, <2>2
<1>7. f \in [SUBSET m -> Int]
  BY <1>6
<1>8. SumRec(worth, m, f)
  BY <1>6 DEF SumRec
<1> QED
  BY <1>3, <1>7, <1>8

(* So the sum does what its recursion says, and is a number.               *)
LEMMA SumValue ==
  ASSUME NEW D, IsFiniteSet(D), NEW worth \in [D -> Int], NEW s \in SUBSET D
  PROVE  /\ SumOf(worth, s) \in Int
         /\ SumOf(worth, s) = IF s = {} THEN 0 ELSE worth[Pick(s)] + SumOf(worth, s \ {Pick(s)})
<1> DEFINE G(t) == CHOOSE g : SumRec(worth, t, g)
<1>1. PICK g \in [SUBSET s -> Int] : SumRec(worth, s, g)
  BY SumExists
<1>2. SumRec(worth, s, G(s))
  BY <1>1
<1>3. G(s)[s] = g[s]
  <2> HIDE DEF G
  <2> QED
    BY <1>1, <1>2, SumAgree
<1>4. SumOf(worth, s) \in Int
  BY <1>1, <1>3 DEF SumOf
<1>5. CASE s = {}
  BY <1>2, <1>4, <1>5 DEF SumOf, SumRec
<1>6. CASE s # {}
  <2> DEFINE r == s \ {Pick(s)}
  <2>1. r \in SUBSET s /\ r \in SUBSET D /\ s \in SUBSET D /\ r \in SUBSET (s \cap r)
    OBVIOUS
  <2>2. \E f : SumRec(worth, r, f)
    <3> HIDE DEF r
    <3> QED
      BY <2>1, SumExists
  <2>3. SumRec(worth, r, G(r))
    BY <2>2
  <2>4. G(s)[s] = worth[Pick(s)] + G(s)[r]
    BY <1>2, <1>6 DEF SumRec
  <2>5. G(s)[r] = G(r)[r]
    <3> HIDE DEF G, r
    <3>1. ASSUME NEW k, NEW h, SumRec(worth, s, k), SumRec(worth, r, h)
          PROVE  \A t \in SUBSET (s \cap r) : k[t] = h[t]
      BY <2>1, <3>1, SumAgree
    <3> QED
      BY <1>2, <2>1, <2>3, <3>1
  <2> QED
    BY <1>4, <1>6, <2>4, <2>5 DEF SumOf
<1> QED
  BY <1>4, <1>5, <1>6

(* A row more adds what it is worth.                                       *)
LEMMA SumRemove ==
  ASSUME NEW D, IsFiniteSet(D), NEW worth \in [D -> Int]
  PROVE  \A s \in SUBSET D : \A x \in s : SumOf(worth, s) = worth[x] + SumOf(worth, s \ {x})
<1> DEFINE Bad == {s \in SUBSET D : ~\A x \in s : SumOf(worth, s) = worth[x] + SumOf(worth, s \ {x})}
<1>1. SUFFICES ASSUME Bad # {}
               PROVE  FALSE
  OBVIOUS
<1>2. PICK m \in Bad : \A s \in SUBSET m : s # m => s \notin Bad
  <2>1. Bad \in SUBSET (SUBSET D)
    OBVIOUS
  <2> HIDE DEF Bad
  <2> QED
    BY <1>1, <2>1, SmallestBad
<1>3. m \in SUBSET D
  OBVIOUS
<1>4. PICK x \in m : SumOf(worth, m) # worth[x] + SumOf(worth, m \ {x})
  OBVIOUS
<1>5. ASSUME NEW s \in SUBSET m, s # m
      PROVE  \A y \in s : SumOf(worth, s) = worth[y] + SumOf(worth, s \ {y})
  BY <1>2, <1>3, <1>5
<1> HIDE DEF Bad
<1> DEFINE p == Pick(m)
           both == m \ {p, x}
<1>6. p \in m /\ SumOf(worth, m) = worth[p] + SumOf(worth, m \ {p})
  BY <1>3, <1>4, PickIs, SumValue
<1>7. p # x
  BY <1>4, <1>6
<1> HIDE DEF p
<1>8. SumOf(worth, m \ {p}) = worth[x] + SumOf(worth, both)
  <2>1. m \ {p} \in SUBSET m /\ m \ {p} # m /\ x \in m \ {p} /\ (m \ {p}) \ {x} = both
    BY <1>4, <1>6, <1>7
  <2> QED
    BY <1>5, <2>1
<1>9. SumOf(worth, m \ {x}) = worth[p] + SumOf(worth, both)
  <2>1. m \ {x} \in SUBSET m /\ m \ {x} # m /\ p \in m \ {x} /\ (m \ {x}) \ {p} = both
    BY <1>4, <1>6, <1>7
  <2> QED
    BY <1>5, <2>1
<1>10. worth[p] \in Int /\ worth[x] \in Int /\ SumOf(worth, both) \in Int
  <2>1. both \in SUBSET D /\ p \in D /\ x \in D
    BY <1>3, <1>4, <1>6
  <2> QED
    BY <2>1, SumValue
<1> QED
  BY <1>4, <1>6, <1>8, <1>9, <1>10

(* Nothing adds up to zero.                                                *)
LEMMA SumEmpty ==
  ASSUME NEW worth
  PROVE  SumOf(worth, {}) = 0
<1> DEFINE f == [s \in SUBSET {} |-> 0]
           g == CHOOSE h : SumRec(worth, {}, h)
<1>1. SumRec(worth, {}, f)
  BY DEF SumRec
<1>2. SumRec(worth, {}, g)
  BY <1>1
<1> QED
  BY <1>2 DEF SumOf, SumRec

(* Two sets without a common element add up to their union.                *)
LEMMA SumUnion ==
  ASSUME NEW D, IsFiniteSet(D), NEW worth \in [D -> Int], NEW A \in SUBSET D
  PROVE  \A B \in SUBSET D : A \cap B = {} => SumOf(worth, A \cup B) = SumOf(worth, A) + SumOf(worth, B)
<1> DEFINE Bad == {B \in SUBSET D : ~(A \cap B = {} => SumOf(worth, A \cup B) = SumOf(worth, A) + SumOf(worth, B))}
<1>1. SUFFICES ASSUME Bad # {}
               PROVE  FALSE
  OBVIOUS
<1>2. PICK m \in Bad : \A s \in SUBSET m : s # m => s \notin Bad
  <2>1. Bad \in SUBSET (SUBSET D)
    OBVIOUS
  <2> HIDE DEF Bad
  <2> QED
    BY <1>1, <2>1, SmallestBad
<1>3. m \in SUBSET D /\ A \cap m = {} /\ SumOf(worth, A \cup m) # SumOf(worth, A) + SumOf(worth, m)
  OBVIOUS
<1>4. SumOf(worth, A) \in Int
  BY SumValue
<1>5. m # {}
  <2>1. m = {} => A \cup m = A
    OBVIOUS
  <2> QED
    BY <1>3, <1>4, <2>1, SumEmpty
<1>6. PICK x \in m : TRUE
  BY <1>5
<1> DEFINE r == m \ {x}
<1>7. r \in SUBSET D /\ r \in SUBSET m /\ r # m /\ A \cap r = {} /\ (A \cup m) \ {x} = A \cup r /\
          A \cup m \in SUBSET D /\ x \in D
  BY <1>3, <1>6
<1>8. SumOf(worth, A \cup r) = SumOf(worth, A) + SumOf(worth, r)
  BY <1>2, <1>7
<1> HIDE DEF Bad
<1>9. SumOf(worth, A \cup m) = worth[x] + SumOf(worth, A \cup r) /\ SumOf(worth, m) = worth[x] + SumOf(worth, r)
  <2>1. x \in A \cup m
    BY <1>6
  <2> QED
    BY <1>3, <1>6, <1>7, <2>1, SumRemove
<1>10. worth[x] \in Int /\ SumOf(worth, r) \in Int
  BY <1>7, SumValue
<1> QED
  BY <1>3, <1>4, <1>8, <1>9, <1>10

(* What is worth nothing or less adds up to nothing or less.               *)
LEMMA SumLoses ==
  ASSUME NEW D, IsFiniteSet(D), NEW worth \in [D -> Int]
  PROVE  \A s \in SUBSET D : (\A x \in s : worth[x] <= 0) => SumOf(worth, s) <= 0
<1> DEFINE Bad == {s \in SUBSET D : ~((\A x \in s : worth[x] <= 0) => SumOf(worth, s) <= 0)}
<1>1. SUFFICES ASSUME Bad # {}
               PROVE  FALSE
  OBVIOUS
<1>2. PICK m \in Bad : \A s \in SUBSET m : s # m => s \notin Bad
  <2>1. Bad \in SUBSET (SUBSET D)
    OBVIOUS
  <2> HIDE DEF Bad
  <2> QED
    BY <1>1, <2>1, SmallestBad
<1>3. m \in SUBSET D /\ (\A x \in m : worth[x] <= 0) /\ ~(SumOf(worth, m) <= 0)
  OBVIOUS
<1>4. m # {}
  BY <1>3, SumEmpty
<1>5. PICK x \in m : TRUE
  BY <1>4
<1> DEFINE r == m \ {x}
<1>6. r \in SUBSET D /\ r \in SUBSET m /\ r # m /\ x \in D
  BY <1>3, <1>5
<1>7. SumOf(worth, r) <= 0
  BY <1>2, <1>3, <1>6
<1> HIDE DEF Bad
<1>8. SumOf(worth, m) = worth[x] + SumOf(worth, r)
  BY <1>3, <1>5, SumRemove
<1>9. worth[x] \in Int /\ SumOf(worth, r) \in Int
  BY <1>6, SumValue
<1> QED
  BY <1>3, <1>5, <1>7, <1>8, <1>9

(* What is worth nothing or less adds up to no more than any of it.        *)
LEMMA SumBelowEach ==
  ASSUME NEW D, IsFiniteSet(D), NEW worth \in [D -> Int], NEW s \in SUBSET D, \A x \in s : worth[x] <= 0, NEW x \in s
  PROVE  SumOf(worth, s) <= worth[x]
<1>1. SumOf(worth, s) = worth[x] + SumOf(worth, s \ {x})
  BY SumRemove
<1>2. SumOf(worth, s \ {x}) <= 0 /\ s \ {x} \in SUBSET D
  BY SumLoses
<1>3. SumOf(worth, s \ {x}) \in Int /\ worth[x] \in Int
  BY <1>2, SumValue
<1> QED
  BY <1>1, <1>2, <1>3

(* What is worth nothing or more adds up to nothing or more.               *)
LEMMA SumGains ==
  ASSUME NEW D, IsFiniteSet(D), NEW worth \in [D -> Int]
  PROVE  \A s \in SUBSET D : (\A x \in s : worth[x] >= 0) => SumOf(worth, s) >= 0
<1> DEFINE Bad == {s \in SUBSET D : ~((\A x \in s : worth[x] >= 0) => SumOf(worth, s) >= 0)}
<1>1. SUFFICES ASSUME Bad # {}
               PROVE  FALSE
  OBVIOUS
<1>2. PICK m \in Bad : \A s \in SUBSET m : s # m => s \notin Bad
  <2>1. Bad \in SUBSET (SUBSET D)
    OBVIOUS
  <2> HIDE DEF Bad
  <2> QED
    BY <1>1, <2>1, SmallestBad
<1>3. m \in SUBSET D /\ (\A x \in m : worth[x] >= 0) /\ ~(SumOf(worth, m) >= 0)
  OBVIOUS
<1>4. m # {}
  BY <1>3, SumEmpty
<1>5. PICK x \in m : TRUE
  BY <1>4
<1> DEFINE r == m \ {x}
<1>6. r \in SUBSET D /\ r \in SUBSET m /\ r # m /\ x \in D
  BY <1>3, <1>5
<1>7. SumOf(worth, r) >= 0
  BY <1>2, <1>3, <1>6
<1> HIDE DEF Bad
<1>8. SumOf(worth, m) = worth[x] + SumOf(worth, r)
  BY <1>3, <1>5, SumRemove
<1>9. worth[x] \in Int /\ SumOf(worth, r) \in Int
  BY <1>6, SumValue
<1> QED
  BY <1>3, <1>5, <1>7, <1>8, <1>9

(* The sum of the opposites is the opposite of the sum.                    *)
LEMMA SumOpposite ==
  ASSUME NEW D, IsFiniteSet(D), NEW worth \in [D -> Int], NEW debt \in [D -> Int], \A x \in D : debt[x] = -worth[x]
  PROVE  \A s \in SUBSET D : SumOf(debt, s) = -SumOf(worth, s)
<1> DEFINE Bad == {s \in SUBSET D : ~(SumOf(debt, s) = -SumOf(worth, s))}
<1>1. SUFFICES ASSUME Bad # {}
               PROVE  FALSE
  OBVIOUS
<1>2. PICK m \in Bad : \A s \in SUBSET m : s # m => s \notin Bad
  <2>1. Bad \in SUBSET (SUBSET D)
    OBVIOUS
  <2> HIDE DEF Bad
  <2> QED
    BY <1>1, <2>1, SmallestBad
<1>3. m \in SUBSET D /\ SumOf(debt, m) # -SumOf(worth, m)
  OBVIOUS
<1>4. m # {}
  BY <1>3, SumEmpty
<1>5. PICK x \in m : TRUE
  BY <1>4
<1> DEFINE r == m \ {x}
<1>6. r \in SUBSET D /\ r \in SUBSET m /\ r # m /\ x \in D
  BY <1>3, <1>5
<1>7. SumOf(debt, r) = -SumOf(worth, r)
  BY <1>2, <1>6
<1> HIDE DEF Bad
<1>8. SumOf(worth, m) = worth[x] + SumOf(worth, r) /\ SumOf(debt, m) = debt[x] + SumOf(debt, r)
  BY <1>3, <1>5, SumRemove
<1>9. worth[x] \in Int /\ SumOf(worth, r) \in Int /\ debt[x] = -worth[x]
  BY <1>6, SumValue
<1> QED
  BY <1>3, <1>7, <1>8, <1>9

(* A part and the rest add up to the whole.                                *)
LEMMA SumSplits ==
  ASSUME NEW D, IsFiniteSet(D), NEW worth \in [D -> Int], NEW whole \in SUBSET D, NEW part \in SUBSET whole
  PROVE  SumOf(worth, whole) = SumOf(worth, part) + SumOf(worth, whole \ part)
<1>1. /\ part \in SUBSET D /\ whole \ part \in SUBSET D
      /\ part \cap (whole \ part) = {} /\ part \cup (whole \ part) = whole
  OBVIOUS
<1>2. \A B \in SUBSET D : part \cap B = {} => SumOf(worth, part \cup B) = SumOf(worth, part) + SumOf(worth, B)
  BY <1>1, SumUnion
<1> QED
  BY <1>1, <1>2

(* The same, of any two opposite worths.                                   *)
LEMMA SumOppositeAll ==
  ASSUME NEW D, IsFiniteSet(D), NEW worth \in [D -> Int]
  PROVE  \A debt \in [D -> Int] : (\A x \in D : debt[x] = -worth[x])
           => \A s \in SUBSET D : SumOf(debt, s) = -SumOf(worth, s)
BY SumOpposite

(* The order of the lists: by worth, and by number among equals.           *)
Precedes(worth, e, d) == worth[e] > worth[d] \/ (worth[e] = worth[d] /\ e < d)
AheadOf(worth, S, d) == {e \in S : Precedes(worth, e, d)}
TopOf(worth, S, n) == {d \in S : Cardinality(AheadOf(worth, S, d)) < n}

(* It is a strict total order.                                             *)
LEMMA AheadOrder ==
  ASSUME NEW D, D \subseteq Nat, NEW worth \in [D -> Int]
  PROVE  /\ \A d \in D : ~Precedes(worth, d, d)
         /\ \A d, e \in D : d # e => (Precedes(worth, d, e) <=> ~Precedes(worth, e, d))
         /\ \A d, e, f \in D : Precedes(worth, d, e) /\ Precedes(worth, e, f) => Precedes(worth, d, f)
<1>1. \A d \in D : d \in Nat /\ worth[d] \in Int
  OBVIOUS
<1> QED
  BY <1>1 DEF Precedes

(* There is a last one and a first one.                                    *)
LEMMA LastExists ==
  ASSUME NEW D, IsFiniteSet(D), D \subseteq Nat, NEW worth \in [D -> Int]
  PROVE  \A S \in SUBSET D : S # {} => \E l \in S : \A e \in S : e # l => Precedes(worth, e, l)
<1> DEFINE Bad == {S \in SUBSET D : ~(S # {} => \E l \in S : \A e \in S : e # l => Precedes(worth, e, l))}
<1>1. SUFFICES ASSUME Bad # {}
               PROVE  FALSE
  OBVIOUS
<1>2. PICK m \in Bad : \A s \in SUBSET m : s # m => s \notin Bad
  <2>1. Bad \in SUBSET (SUBSET D)
    OBVIOUS
  <2> HIDE DEF Bad
  <2> QED
    BY <1>1, <2>1, SmallestBad
<1>3. m \in SUBSET D /\ m # {} /\ \A l \in m : ~\A e \in m : e # l => Precedes(worth, e, l)
  OBVIOUS
<1>4. PICK x \in m : TRUE
  BY <1>3
<1> DEFINE r == m \ {x}
<1>5. r \in SUBSET m /\ r \in SUBSET D /\ r # m
  BY <1>3
<1>6. r # {} => \E l \in r : \A e \in r : e # l => Precedes(worth, e, l)
  BY <1>2, <1>5
<1> HIDE DEF Bad
<1>7. CASE r = {}
  <2>1. \A e \in m : e = x
    BY <1>7
  <2> QED
    BY <1>3, <2>1
<1>8. CASE r # {}
  <2>1. PICK l \in r : \A e \in r : e # l => Precedes(worth, e, l)
    BY <1>6, <1>8
  <2>2. x \in D /\ l \in D /\ l # x /\ l \in m /\ \A e \in m : e \in D /\ (e # x => e \in r)
    BY <1>3
  <2> HIDE DEF r
  <2>3. CASE Precedes(worth, x, l)
    <3>1. \A e \in m : e # l => Precedes(worth, e, l)
      BY <2>1, <2>2, <2>3
    <3> QED
      BY <1>3, <2>2, <3>1
  <2>4. CASE ~Precedes(worth, x, l)
    <3>1. Precedes(worth, l, x)
      BY <2>2, <2>4, AheadOrder
    <3>2. \A e \in m : e # x => Precedes(worth, e, x)
      BY <2>1, <2>2, <3>1, AheadOrder
    <3> QED
      BY <1>3, <3>2
  <2> QED
    BY <2>3, <2>4
<1> QED
  BY <1>7, <1>8

(* And a first one.                                                        *)
LEMMA FirstExists ==
  ASSUME NEW D, IsFiniteSet(D), D \subseteq Nat, NEW worth \in [D -> Int]
  PROVE  \A S \in SUBSET D : S # {} => \E l \in S : \A e \in S : e # l => Precedes(worth, l, e)
<1> DEFINE Bad == {S \in SUBSET D : ~(S # {} => \E l \in S : \A e \in S : e # l => Precedes(worth, l, e))}
<1>1. SUFFICES ASSUME Bad # {}
               PROVE  FALSE
  OBVIOUS
<1>2. PICK m \in Bad : \A s \in SUBSET m : s # m => s \notin Bad
  <2>1. Bad \in SUBSET (SUBSET D)
    OBVIOUS
  <2> HIDE DEF Bad
  <2> QED
    BY <1>1, <2>1, SmallestBad
<1>3. m \in SUBSET D /\ m # {} /\ \A l \in m : ~\A e \in m : e # l => Precedes(worth, l, e)
  OBVIOUS
<1>4. PICK x \in m : TRUE
  BY <1>3
<1> DEFINE r == m \ {x}
<1>5. r \in SUBSET m /\ r \in SUBSET D /\ r # m
  BY <1>3
<1>6. r # {} => \E l \in r : \A e \in r : e # l => Precedes(worth, l, e)
  BY <1>2, <1>5
<1> HIDE DEF Bad
<1>7. CASE r = {}
  <2>1. \A e \in m : e = x
    BY <1>7
  <2> QED
    BY <1>3, <2>1
<1>8. CASE r # {}
  <2>1. PICK l \in r : \A e \in r : e # l => Precedes(worth, l, e)
    BY <1>6, <1>8
  <2>2. x \in D /\ l \in D /\ l # x /\ l \in m /\ \A e \in m : e \in D /\ (e # x => e \in r)
    BY <1>3
  <2> HIDE DEF r
  <2>3. CASE Precedes(worth, l, x)
    <3>1. \A e \in m : e # l => Precedes(worth, l, e)
      BY <2>1, <2>2, <2>3
    <3> QED
      BY <1>3, <2>2, <3>1
  <2>4. CASE ~Precedes(worth, l, x)
    <3>1. Precedes(worth, x, l)
      BY <2>2, <2>4, AheadOrder
    <3>2. \A e \in m : e # x => Precedes(worth, x, e)
      BY <2>1, <2>2, <3>1, AheadOrder
    <3> QED
      BY <1>3, <3>2
  <2> QED
    BY <2>3, <2>4
<1> QED
  BY <1>7, <1>8

(* A list is as long as it may be, or holds all.                           *)
LEMMA TopSize ==
  ASSUME NEW D, IsFiniteSet(D), D \subseteq Nat, NEW worth \in [D -> Int], NEW n \in Nat
  PROVE  \A S \in SUBSET D : Cardinality(TopOf(worth, S, n)) = n \/ TopOf(worth, S, n) = S
<1> DEFINE Bad == {S \in SUBSET D : ~(Cardinality(TopOf(worth, S, n)) = n \/ TopOf(worth, S, n) = S)}
<1>1. SUFFICES ASSUME Bad # {}
               PROVE  FALSE
  OBVIOUS
<1>2. PICK m \in Bad : \A s \in SUBSET m : s # m => s \notin Bad
  <2>1. Bad \in SUBSET (SUBSET D)
    OBVIOUS
  <2> HIDE DEF Bad
  <2> QED
    BY <1>1, <2>1, SmallestBad
<1>3. m \in SUBSET D /\ Cardinality(TopOf(worth, m, n)) # n /\ TopOf(worth, m, n) # m
  OBVIOUS
<1>4. m # {}
  BY <1>3 DEF TopOf
<1>5. PICK l \in m : \A e \in m : e # l => Precedes(worth, e, l)
  BY <1>3, <1>4, LastExists
<1> DEFINE r == m \ {l}
<1>6. r \in SUBSET m /\ r \in SUBSET D /\ r # m /\ l \in D /\ l \notin r /\ m = r \cup {l}
  BY <1>3
<1>7. Cardinality(TopOf(worth, r, n)) = n \/ TopOf(worth, r, n) = r
  BY <1>2, <1>6
<1> HIDE DEF Bad
<1>8. ASSUME NEW d \in r
      PROVE  AheadOf(worth, m, d) = AheadOf(worth, r, d)
  <2>1. d \in D /\ d # l /\ Precedes(worth, d, l)
    BY <1>5, <1>6
  <2>2. ~Precedes(worth, l, d)
    BY <1>6, <2>1, AheadOrder
  <2> QED
    BY <1>6, <2>2 DEF AheadOf
<1>9. AheadOf(worth, m, l) = r
  <2>1. ~Precedes(worth, l, l)
    BY <1>6, AheadOrder
  <2> QED
    BY <1>5, <1>6, <2>1 DEF AheadOf
<1> HIDE DEF r
<1>10. TopOf(worth, m, n) = TopOf(worth, r, n) \cup (IF Cardinality(r) < n THEN {l} ELSE {})
  BY <1>6, <1>8, <1>9 DEF TopOf
<1>11. IsFiniteSet(r) /\ Cardinality(r) \in Nat
  BY <1>6, FS_Subset, FS_CardinalityType
<1>12. CASE Cardinality(r) < n
  <2>1. Cardinality(TopOf(worth, r, n)) <= Cardinality(r)
    <3>1. TopOf(worth, r, n) \in SUBSET r
      BY DEF TopOf
    <3> QED
      BY <1>11, <3>1, FS_Subset
  <2>2. Cardinality(TopOf(worth, r, n)) # n
    BY <1>11, <1>12, <2>1
  <2> QED
    BY <1>3, <1>6, <1>7, <1>10, <1>12, <2>2
<1>13. CASE ~(Cardinality(r) < n)
  <2>1. TopOf(worth, m, n) = TopOf(worth, r, n)
    BY <1>10, <1>13
  <2>2. TopOf(worth, r, n) = r
    BY <1>3, <1>7, <2>1
  <2>3. r # {}
    <3>1. r = {} => Cardinality(r) = 0 /\ n = 0
      BY <1>13, FS_EmptySet
    <3> QED
      BY <1>3, <2>1, <2>2, <3>1
  <2>4. PICK k \in r : \A e \in r : e # k => Precedes(worth, e, k)
    BY <1>6, <2>3, LastExists
  <2>5. AheadOf(worth, r, k) = r \ {k}
    <3>1. ~Precedes(worth, k, k)
      BY <1>6, AheadOrder
    <3> QED
      BY <2>4, <3>1 DEF AheadOf
  <2>6. Cardinality(r \ {k}) = Cardinality(r) - 1
    BY <1>11, FS_RemoveElement
  <2>7. Cardinality(r) - 1 < n
    BY <2>2, <2>5, <2>6 DEF TopOf
  <2>8. Cardinality(r) = n
    BY <1>11, <1>13, <2>7
  <2> QED
    BY <1>3, <2>1, <2>2, <2>8
<1> QED
  BY <1>12, <1>13

-----------------------------------------------------------------------------
(* The weekly script: a book that is edited stays one.                     *)

TotalSorts == book \in BookTypes /\ base \in BookTypes /\ moves \in 0..MaxMoves

(* An opportunity with another value of a field is one.                    *)
LEMMA FieldEdited ==
  ASSUME NEW r \in OppTypes, NEW f \in DealFields, NEW v \in OfField(f)
  PROVE  [r EXCEPT ![f] = v] \in OppTypes
<1>1. CASE f \in Flags
  BY <1>1 DEF OppTypes, OfField, Flags
<1>2. CASE f \in Numbers
  BY <1>2 DEF OppTypes, OfField, Numbers, Flags, HealthFlags
<1>3. CASE f = "category"
  BY <1>3 DEF OppTypes, OfField, Numbers, Flags, HealthFlags
<1> QED
  BY <1>1, <1>2, <1>3 DEF DealFields

(* An account with another value of a field is one.                        *)
LEMMA HealthEdited ==
  ASSUME NEW r \in HealthTypes, NEW f \in HealthFields, NEW v \in OfField(f)
  PROVE  [r EXCEPT ![f] = v] \in HealthTypes
<1>1. CASE f \in HealthFlags
  BY <1>1 DEF HealthTypes, OfField, HealthFlags
<1>2. CASE f \in {"category", "level", "sentiment"}
  BY <1>2 DEF HealthTypes, OfField, Numbers, Flags, HealthFlags
<1> QED
  BY <1>1, <1>2 DEF HealthFields

(* The books keep their fields and their sorts, whatever is edited.        *)
THEOREM TotalsAreTyped == TotalSpec => [](TotalSorts /\ TotalTypeOK)
<1>1. TotalInit => TotalSorts
  BY TotalsAssumption DEF TotalInit, TotalSorts
<1>2. TotalSorts /\ [TotalNext]_totalVars => TotalSorts'
  <2> SUFFICES ASSUME TotalSorts, [TotalNext]_totalVars
               PROVE  TotalSorts'
    OBVIOUS
  <2>0. MaxMoves \in Nat /\ book.deals \in [Deals -> OppTypes] /\ book.health \in [Holders -> HealthTypes]
    BY TotalsAssumption DEF TotalSorts, BookTypes
  <2>1. ASSUME NEW d \in Deals, NEW f \in DealFields, NEW v \in DealValues(f), EditDeal(d, f, v)
        PROVE  TotalSorts'
    <3> DEFINE row == [book.deals[d] EXCEPT ![f] = v]
    <3>1. row \in OppTypes
      <4>1. v \in OfField(f) /\ book.deals[d] \in OppTypes
        BY <2>0, <2>1, TotalsAssumption
      <4> QED
        BY <4>1, FieldEdited
    <3>2. book' = [book EXCEPT !.deals = [book.deals EXCEPT ![d] = row]] /\ moves' = moves + 1 /\ moves < MaxMoves /\
              base' = base
      BY <2>1 DEF EditDeal
    <3> HIDE DEF row
    <3>3. [book.deals EXCEPT ![d] = row] \in [Deals -> OppTypes]
      BY <2>0, <3>1
    <3>4. book' \in BookTypes
      BY <3>2, <3>3 DEF TotalSorts, BookTypes
    <3> QED
      BY <2>0, <3>2, <3>4 DEF TotalSorts
  <2>2. ASSUME NEW a \in Holders, NEW f \in HealthFields, NEW v \in HealthValues(f), EditHealth(a, f, v)
        PROVE  TotalSorts'
    <3> DEFINE row == [book.health[a] EXCEPT ![f] = v]
    <3>1. row \in HealthTypes
      <4>1. v \in OfField(f) /\ book.health[a] \in HealthTypes
        BY <2>0, <2>2, TotalsAssumption
      <4> QED
        BY <4>1, HealthEdited
    <3>2. book' = [book EXCEPT !.health = [book.health EXCEPT ![a] = row]] /\ moves' = moves + 1 /\
              moves < MaxMoves /\ base' = base
      BY <2>2 DEF EditHealth
    <3> HIDE DEF row
    <3>3. [book.health EXCEPT ![a] = row] \in [Holders -> HealthTypes]
      BY <2>0, <3>1
    <3>4. book' \in BookTypes
      BY <3>2, <3>3 DEF TotalSorts, BookTypes
    <3> QED
      BY <2>0, <3>2, <3>4 DEF TotalSorts
  <2>3. CASE WeekPasses
    BY <2>3 DEF WeekPasses, TotalSorts
  <2>4. CASE UNCHANGED totalVars
    BY <2>4 DEF totalVars, TotalSorts
  <2> QED
    BY <2>1, <2>2, <2>3, <2>4 DEF TotalNext
<1>3. TotalSorts => TotalTypeOK
  BY DEF TotalSorts, TotalTypeOK, BookTypes
<1> QED
  BY <1>1, <1>2, <1>3, PTL DEF TotalSpec

-----------------------------------------------------------------------------
(* What two books say of a row, when they differ in forecasts that an      *)
(* override decides.                                                       *)
RowSame(e) ==
  /\ Deal(e).renewal' = Deal(e).renewal /\ Deal(e).category' = Deal(e).category /\ Deal(e).stage' = Deal(e).stage
  /\ Deal(e).close' = Deal(e).close /\ Deal(e).known' = Deal(e).known /\ Deal(e).override' = Deal(e).override
  /\ Deal(e).atr' = Deal(e).atr /\ Deal(e).acv' = Deal(e).acv /\ Deal(e).hedge' = Deal(e).hedge
  /\ Deal(e).override = Unset => Deal(e).ml' = Deal(e).ml /\ Deal(e).delta' = Deal(e).delta

(* While an override is set, an edit of the forecast or of the change of   *)
(* contract value leaves what each row says as it is.                      *)
LEMMA Overridden ==
  ASSUME TotalSorts, NEW d \in Deals, Deal(d).override # Unset, NEW f \in {"ml", "delta"}, NEW v,
         book' = [book EXCEPT !.deals[d][f] = v]
  PROVE  book'.health = book.health /\ \A e \in Deals : RowSame(e)
<1> DEFINE row == [book.deals[d] EXCEPT ![f] = v]
<1>0. book.deals \in [Deals -> OppTypes] /\ book \in BookTypes
  BY DEF TotalSorts, BookTypes
<1>1. book' = [book EXCEPT !.deals = [book.deals EXCEPT ![d] = row]]
  OBVIOUS
<1>2. book.deals[d] \in OppTypes
  BY <1>0
<1>3. /\ row.renewal = Deal(d).renewal /\ row.category = Deal(d).category /\ row.stage = Deal(d).stage
      /\ row.close = Deal(d).close /\ row.known = Deal(d).known /\ row.override = Deal(d).override
      /\ row.atr = Deal(d).atr /\ row.acv = Deal(d).acv /\ row.hedge = Deal(d).hedge
  BY <1>2 DEF OppTypes, Deal
<1> HIDE DEF row
<1>4. /\ book'.health = book.health /\ book'.deals[d] = row
      /\ \A e \in Deals : e # d => book'.deals[e] = book.deals[e]
  BY <1>0, <1>1 DEF BookTypes
<1>5. RowSame(d)
  BY <1>3, <1>4 DEF RowSame, Deal
<1>6. ASSUME NEW e \in Deals, e # d
      PROVE  RowSame(e)
  BY <1>4, <1>6 DEF RowSame, Deal
<1> QED
  BY <1>4, <1>5, <1>6

(* Such rows count the same: in which lists, for how much.                 *)
LEMMA RowsCountTheSame ==
  ASSUME NEW e \in Deals, RowSame(e)
  PROVE  /\ ChurnRow(e)' <=> ChurnRow(e)
         /\ SaveTarget(e)' <=> SaveTarget(e)
         /\ ClosedDeal(e)' <=> ClosedDeal(e)
         /\ Outcome(e)' = Outcome(e) /\ Dollars(e)' = Dollars(e)
         /\ HedgeOf(e)' = HedgeOf(e) /\ Exposed(e)' = Exposed(e)
         /\ Or(Deal(e).atr, 0)' = Or(Deal(e).atr, 0)
         /\ (Deal(e).close \div 90)' = Deal(e).close \div 90
<1>1. /\ Down(e)' <=> Down(e)
      /\ OnTheLine(e)' <=> OnTheLine(e)
  BY DEF RowSame, Down, OnTheLine
<1>2. /\ ChurnRow(e)' <=> ChurnRow(e)
      /\ SaveTarget(e)' <=> SaveTarget(e)
  BY <1>1 DEF RowSame, ChurnRow, SaveTarget
<1>3. (ClosedDeal(e)' <=> ClosedDeal(e)) /\ Outcome(e)' = Outcome(e)
  BY DEF RowSame, ClosedDeal, Outcome
<1>4. Dollars(e)' = Dollars(e)
  BY DEF RowSame, Dollars
<1>5. /\ HedgeOf(e)' = HedgeOf(e) /\ Exposed(e)' = Exposed(e) /\ Or(Deal(e).atr, 0)' = Or(Deal(e).atr, 0)
      /\ (Deal(e).close \div 90)' = Deal(e).close \div 90
  BY DEF RowSame, HedgeOf, Exposed, Or
<1> QED
  BY <1>2, <1>3, <1>4, <1>5

(* The totals of the script are such sums.                                 *)
LEMMA DollarsTotal ==
  \A S \in SUBSET Deals : Total(S, Dollars) = SumOf([d \in Deals |-> Dollars(d)], S)
BY DEF SumOf, SumRec, Pick, Total, MapThenSumSet, MapThenFoldSet

(* The total of the hedges.                                                *)
LEMMA HedgeTotal ==
  \A S \in SUBSET Deals : Total(S, HedgeOf) = SumOf([d \in Deals |-> HedgeOf(d)], S)
BY DEF SumOf, SumRec, Pick, Total, MapThenSumSet, MapThenFoldSet

(* The total at risk.                                                      *)
LEMMA RiskTotal ==
  \A S \in SUBSET Deals : Total(S, LAMBDA d : Or(Deal(d).atr, 0)) = SumOf([d \in Deals |-> Or(Deal(d).atr, 0)], S)
BY DEF SumOf, SumRec, Pick, Total, MapThenSumSet, MapThenFoldSet

(* So the totals are the same.                                             *)
LEMMA TotalsTheSame ==
  ASSUME \A e \in Deals : RowSame(e)
  PROVE  \A S \in SUBSET Deals : /\ Total(S, Dollars)' = Total(S, Dollars) /\ Total(S, HedgeOf)' = Total(S, HedgeOf)
                                 /\ Total(S, LAMBDA d : Or(Deal(d).atr, 0))' = Total(S, LAMBDA d : Or(Deal(d).atr, 0))
<1>1. /\ \A S \in SUBSET Deals : Total(S, Dollars)' = SumOf([d \in Deals |-> Dollars(d)'], S)
      /\ \A S \in SUBSET Deals : Total(S, HedgeOf)' = SumOf([d \in Deals |-> HedgeOf(d)'], S)
      /\ \A S \in SUBSET Deals : Total(S,
           LAMBDA d : Or(Deal(d).atr, 0))' = SumOf([d \in Deals |-> Or(Deal(d).atr, 0)'], S)
  BY DEF SumOf, SumRec, Pick, Total, MapThenSumSet, MapThenFoldSet
<1>2. /\ [d \in Deals |-> Dollars(d)'] = [d \in Deals |-> Dollars(d)]
      /\ [d \in Deals |-> HedgeOf(d)'] = [d \in Deals |-> HedgeOf(d)]
      /\ [d \in Deals |-> Or(Deal(d).atr, 0)'] = [d \in Deals |-> Or(Deal(d).atr, 0)]
  BY RowsCountTheSame
<1> QED
  BY <1>1, <1>2, DollarsTotal, HedgeTotal, RiskTotal

(* And the longest lists by hedge.                                         *)
LEMMA HedgedTheSame ==
  ASSUME \A e \in Deals : RowSame(e), NEW S \in SUBSET Deals, NEW n
  PROVE  Top(S, HedgeOf, n)' = Top(S, HedgeOf, n)
<1> DEFINE ahead(d) == {e \in S : HedgeOf(e) > HedgeOf(d) \/ (HedgeOf(e) = HedgeOf(d) /\ e < d)}
<1>1. \A e \in S : HedgeOf(e)' = HedgeOf(e)
  BY RowsCountTheSame
<1>2. ASSUME NEW d \in S
      PROVE  ahead(d)' = ahead(d)
  BY <1>1
<1>3. Top(S, HedgeOf, n) = {d \in S : Cardinality(ahead(d)) < n} /\
          Top(S, HedgeOf, n)' = {d \in S : Cardinality(ahead(d)') < n}
  BY DEF Top
<1> HIDE DEF ahead
<1> QED
  BY <1>2, <1>3

(* And by exposure.                                                        *)
LEMMA ExposedTheSame ==
  ASSUME \A e \in Deals : RowSame(e), NEW S \in SUBSET Deals, NEW n
  PROVE  Top(S, Exposed, n)' = Top(S, Exposed, n)
<1> DEFINE ahead(d) == {e \in S : Exposed(e) > Exposed(d) \/ (Exposed(e) = Exposed(d) /\ e < d)}
<1>1. \A e \in S : Exposed(e)' = Exposed(e)
  BY RowsCountTheSame
<1>2. ASSUME NEW d \in S
      PROVE  ahead(d)' = ahead(d)
  BY <1>1
<1>3. Top(S, Exposed, n) = {d \in S : Cardinality(ahead(d)) < n} /\
          Top(S, Exposed, n)' = {d \in S : Cardinality(ahead(d)') < n}
  BY DEF Top
<1> HIDE DEF ahead
<1> QED
  BY <1>2, <1>3

(* What is computed from rows that say the same.                           *)
LEMMA FiguresTheSame ==
  ASSUME \A e \in Deals : RowSame(e), book'.health = book.health
  PROVE  /\ Kpis(0)' = Kpis(0) /\ Header' = Header /\ Hedged' = Hedged
         /\ NotYetHedged' = NotYetHedged /\ CloseGap' = CloseGap
<1>1. /\ InQuarter(0)' = InQuarter(0) /\ InQuarter(0) \subseteq Deals
      /\ ChurnRows(0)' = ChurnRows(0) /\ ChurnRows(0) \subseteq Deals
      /\ {e \in InQuarter(0) : SaveTarget(e)}' = {e \in InQuarter(0) : SaveTarget(e)}
  <2>1. InQuarter(0)' = InQuarter(0) /\ InQuarter(0) \subseteq Deals
    BY RowsCountTheSame DEF InQuarter
  <2> QED
    BY <2>1, RowsCountTheSame DEF ChurnRows
<1>2. Targets' = Targets /\ Targets \subseteq Deals
  BY <1>1 DEF Targets, Rows
<1>3. \A a : Colour(a)' = Colour(a)
  BY DEF Colour
<1>4. Flash(0)' = Flash(0) /\ TotalRisk(0)' = TotalRisk(0) /\ Hedge(0)' = Hedge(0)
  <2>1. Flash(0)' = Flash(0)
    BY <1>1, TotalsTheSame DEF Flash
  <2>2. TotalRisk(0)' = TotalRisk(0)
    BY <1>1, TotalsTheSame DEF TotalRisk
  <2>3. Hedge(0)' = Hedge(0)
    BY <1>1, TotalsTheSame DEF Hedge
  <2> QED
    BY <2>1, <2>2, <2>3
<1>5. Kpis(0)' = Kpis(0)
  BY <1>1, <1>3, <1>4 DEF Kpis
<1>6. Header' = Header
  <2> DEFINE open == {d \in ChurnRows(0) : ~ClosedDeal(d)}
             closed(how) == {d \in ChurnRows(0) : ClosedDeal(d) /\ Outcome(d) = how}
  <2>1. open' = open /\ open \subseteq Deals /\ ChurnRows(0) \ open \subseteq Deals
    BY <1>1, RowsCountTheSame
  <2>2. closed("won")' = closed("won") /\ closed("lost")' = closed("lost") /\ closed("other")' = closed("other")
    BY <1>1, RowsCountTheSame
  <2>3. Total(open, Dollars)' = Total(open, Dollars) /\
            Total(ChurnRows(0) \ open, Dollars)' = Total(ChurnRows(0) \ open, Dollars)
    BY <1>1, <2>1, TotalsTheSame
  <2>4. Header = [open |-> Cardinality(open), openUSD |-> Total(open, Dollars),
                  won |-> Cardinality(closed("won")), lost |-> Cardinality(closed("lost")),
                  other |-> Cardinality(closed("other")), closedUSD |-> Total(ChurnRows(0) \ open, Dollars)]
    BY DEF Header
  <2>5. Header' = [open |-> Cardinality(open)', openUSD |-> Total(open, Dollars)',
                   won |-> Cardinality(closed("won"))', lost |-> Cardinality(closed("lost"))',
                   other |-> Cardinality(closed("other"))', closedUSD |-> Total(ChurnRows(0) \ open, Dollars)']
    BY DEF Header
  <2> QED
    BY <2>1, <2>2, <2>3, <2>4, <2>5
<1>7. Hedged' = Hedged
  <2> DEFINE S == {d \in Targets : HedgeOf(d) > 0}
  <2>1. S' = S /\ S \subseteq Deals
    BY <1>2, RowsCountTheSame
  <2>2. PerAccount(S, HedgeOf)' = PerAccount(S, HedgeOf) /\ PerAccount(S, HedgeOf) \subseteq Deals
    BY <2>1, RowsCountTheSame DEF PerAccount
  <2>3. Top(PerAccount(S, HedgeOf), HedgeOf, ListLength)' = Top(PerAccount(S, HedgeOf), HedgeOf, ListLength)
    BY <2>2, HedgedTheSame
  <2> QED
    BY <2>3 DEF Hedged
<1>8. NotYetHedged' = NotYetHedged
  <2> DEFINE S == {d \in Targets : HedgeOf(d) <= 0 /\ Holder[d] \notin Accounts(Hedged) /\ Exposed(d) > 0}
  <2>1. S' = S /\ S \subseteq Deals
    BY <1>2, <1>7, RowsCountTheSame DEF Accounts
  <2>2. PerAccount(S, Exposed)' = PerAccount(S, Exposed) /\ PerAccount(S, Exposed) \subseteq Deals
    BY <2>1, RowsCountTheSame DEF PerAccount
  <2>3. Top(PerAccount(S, Exposed), Exposed, ListLength)' = Top(PerAccount(S, Exposed), Exposed, ListLength)
    BY <2>2, ExposedTheSame
  <2> QED
    BY <2>3 DEF NotYetHedged
<1>9. CloseGap' = CloseGap
  <2> DEFINE S == {d \in Targets : Exposed(d) > 0}
             candidates == PerAccount(S, Exposed)
             of(band) == {d \in candidates : Colour(Holder[d]) = band}
  <2>1. S' = S /\ S \subseteq Deals
    BY <1>2, RowsCountTheSame
  <2>2. candidates' = candidates /\ candidates \subseteq Deals
    BY <2>1, RowsCountTheSame DEF PerAccount
  <2>3. of("red")' = of("red") /\ of("yellow")' = of("yellow") /\ of("red") \subseteq Deals /\
            of("yellow") \subseteq Deals
    BY <1>3, <2>2
  <2>4. Top(of("red"), Exposed, ListedRed)' = Top(of("red"), Exposed, ListedRed)
    BY <2>3, ExposedTheSame
  <2>5. Top(of("yellow"), Exposed, ListedYellow)' = Top(of("yellow"), Exposed, ListedYellow)
    BY <2>3, ExposedTheSame
  <2> QED
    BY <2>4, <2>5 DEF CloseGap
<1> QED
  BY <1>5, <1>6, <1>7, <1>8, <1>9

(* The manager's override decides (hasDownForecastSignal,                  *)
(* opportunityChurnFlashUSD): while it is set, no edit of the rep's most   *)
(* likely amount or of the change of contract value moves a total of the   *)
(* quarter, the header or the lists that save and hedge, for any book.     *)
THEOREM OverrideRules == TotalSpec => OverrideDecides
<1> DEFINE Moot == \A d \in Deals :
             (/\ book' # book /\ Deal(d).override # Unset
              /\ \E f \in {"ml", "delta"} : \E v \in DealValues(f) : book' = [book EXCEPT !.deals[d][f] = v])
             => Kpis(0)' = Kpis(0) /\ Header' = Header /\ Hedged' = Hedged /\ NotYetHedged' = NotYetHedged
                /\ CloseGap' = CloseGap
<1>1. TotalSorts => [Moot]_totalVars
  BY Overridden, FiguresTheSame
<1> QED
  BY <1>1, TotalsAreTyped, PTL DEF OverrideDecides

-----------------------------------------------------------------------------

(* The rows of a typed book.                                               *)
LEMMA RowTypes ==
  ASSUME TotalSorts
  PROVE  /\ \A d \in Deals : Deal(d) \in OppTypes /\ base.deals[d] \in OppTypes
         /\ \A a \in Holders : book.health[a] \in HealthTypes /\ base.health[a] \in HealthTypes
         /\ \A d \in Deals : Holder[d] \in Holders
BY DEF TotalSorts, BookTypes, Deal, Holders

(* The lesser of zero and a number.                                        *)
LEMMA MinOfTwo ==
  ASSUME NEW x \in Int
  PROVE  Min({0, x}) = IF x < 0 THEN x ELSE 0
<1> DEFINE m == IF x < 0 THEN x ELSE 0
<1>1. m \in {0, x} /\ \A y \in {0, x} : m <= y
  OBVIOUS
<1>2. ASSUME NEW k \in {0, x}, \A y \in {0, x} : k <= y
      PROVE  k = m
  BY <1>2
<1> HIDE DEF m
<1>3. Min({0, x}) = m
  BY <1>1, <1>2 DEF Min
<1> QED
  BY <1>3 DEF m

(* Each row has its worth in dollars, below zero exactly when it is        *)
(* counted as a loss.                                                      *)
LEMMA RowWorth ==
  ASSUME TotalSorts, NEW d \in Deals
  PROVE  /\ Dollars(d) \in Int /\ HedgeOf(d) \in Int /\ Exposed(d) \in Int /\ MlMove(d) \in Int
         /\ Deal(d).renewal => (Dollars(d) < 0 <=> Down(d)) /\ Dollars(d) <= 0
<1>1. Deal(d) \in OppTypes /\ base.deals[d] \in OppTypes
  BY RowTypes
<1> DEFINE r == Deal(d)
<1>2. /\ r.known \in Int /\ r.override \in Int /\ r.ml \in Int /\ r.delta \in Int /\ r.renewal \in BOOLEAN
      /\ r.hedge \in Int /\ r.atr \in Int /\ r.acv \in Int /\ base.deals[d].ml \in Int
  BY <1>1 DEF OppTypes
<1>3. HedgeOf(d) \in Int /\ Exposed(d) \in Int /\ MlMove(d) \in Int
  BY <1>2 DEF HedgeOf, Exposed, MlMove, Or
<1>4. Dollars(d) = IF r.known > 0 THEN -r.known
                   ELSE IF ~r.renewal THEN 0
                   ELSE IF r.override # Unset THEN (IF r.override < 0 THEN r.override ELSE 0)
                   ELSE IF r.ml # Unset /\ r.ml < 0 THEN r.ml
                   ELSE IF r.delta # Unset THEN (IF r.delta < 0 THEN r.delta ELSE 0) ELSE 0
  <2>1. Min({0, r.override}) = IF r.override < 0 THEN r.override ELSE 0
    BY <1>2, MinOfTwo
  <2>2. Min({0, r.delta}) = IF r.delta < 0 THEN r.delta ELSE 0
    BY <1>2, MinOfTwo
  <2> QED
    BY <2>1, <2>2 DEF Dollars
<1>5. Dollars(d) \in Int
  BY <1>2, <1>4
<1>6. Down(d) <=> (r.known > 0 \/ (r.renewal /\ IF r.override # Unset THEN r.override < 0
                                               ELSE (r.ml # Unset /\ r.ml < 0) \/ (r.delta # Unset /\ r.delta < 0)))
  BY DEF Down
<1>7. r.renewal => (Dollars(d) < 0 <=> Down(d)) /\ Dollars(d) <= 0
  BY <1>2, <1>4, <1>6
<1> QED
  BY <1>3, <1>5, <1>7

(* A set of lost rows: every row loses, and so does the set unless it is   *)
(* empty.                                                                  *)
LEMMA FlashIsOfLosses ==
  ASSUME TotalSorts, NEW S, S \subseteq ChurnRows(0)
  PROVE  /\ IsFiniteSet(S) /\ Cardinality(S) \in Nat /\ S \in SUBSET Deals
         /\ [d \in Deals |-> Dollars(d)] \in [Deals -> Int]
         /\ \A d \in S : Dollars(d) < 0
         /\ Total(S, Dollars) = SumOf([d \in Deals |-> Dollars(d)], S) /\ Total(S, Dollars) \in Int
         /\ S = {} => Total(S, Dollars) = 0
         /\ S # {} => Total(S, Dollars) < 0
<1> DEFINE worth == [d \in Deals |-> Dollars(d)]
<1>1. S \in SUBSET Deals
  BY DEF ChurnRows, InQuarter
<1>2. IsFiniteSet(Deals) /\ IsFiniteSet(S) /\ Cardinality(S) \in Nat
  BY <1>1, TotalsAssumption, FS_Subset, FS_CardinalityType
<1>3. worth \in [Deals -> Int]
  BY RowWorth
<1>4. \A d \in S : Dollars(d) < 0 /\ Dollars(d) \in Int /\ worth[d] = Dollars(d)
  BY <1>1, RowWorth DEF ChurnRows, ChurnRow
<1>5. Total(S, Dollars) = SumOf(worth, S)
  BY <1>1, DollarsTotal
<1> HIDE DEF worth
<1>6. SumOf(worth, S) \in Int
  BY <1>1, <1>2, <1>3, SumValue
<1>7. S # {} => SumOf(worth, S) < 0
  <2> SUFFICES ASSUME S # {}
               PROVE  SumOf(worth, S) < 0
    OBVIOUS
  <2>1. PICK x \in S : TRUE
    OBVIOUS
  <2>2. SumOf(worth, S) <= worth[x]
    BY <1>1, <1>2, <1>3, <1>4, SumBelowEach
  <2> QED
    BY <1>4, <1>6, <2>2
<1> QED
  BY <1>1, <1>2, <1>3, <1>4, <1>5, <1>6, <1>7, SumEmpty DEF worth

(* Sets without a common element count as many as both.                    *)
LEMMA DisjointCount ==
  ASSUME NEW A, NEW B, IsFiniteSet(A), IsFiniteSet(B), A \cap B = {}
  PROVE  /\ IsFiniteSet(A \cup B)
         /\ Cardinality(A \cup B) = Cardinality(A) + Cardinality(B)
         /\ Cardinality(A) \in Nat /\ Cardinality(B) \in Nat
<1>1. Cardinality(A) \in Nat /\ Cardinality(B) \in Nat
  BY FS_CardinalityType
<1>2. Cardinality(A \cap B) = 0
  BY FS_EmptySet
<1>3. IsFiniteSet(A \cup B) /\ Cardinality(A \cup B) = Cardinality(A) + Cardinality(B) - Cardinality(A \cap B)
  BY FS_Union
<1> QED
  BY <1>1, <1>2, <1>3

(* Flash, the header and its counts are of the same rows.                  *)
LEMMA RowsLoseHolds ==
  ASSUME TotalSorts
  PROVE  RowsLose
<1> DEFINE churn == ChurnRows(0)
           open == {d \in churn : ~ClosedDeal(d)}
           done == churn \ open
           closed(how) == {d \in churn : ClosedDeal(d) /\ Outcome(d) = how}
           worth == [d \in Deals |-> Dollars(d)]
<1>0. /\ Header.open = Cardinality(open) /\ Header.openUSD = Total(open, Dollars)
      /\ Header.won = Cardinality(closed("won")) /\ Header.lost = Cardinality(closed("lost"))
      /\ Header.other = Cardinality(closed("other")) /\ Header.closedUSD = Total(done, Dollars)
  BY DEF Header
<1>1. /\ open \subseteq churn /\ done \subseteq churn /\ open \cap done = {} /\ churn = open \cup done
      /\ \A how \in {"won", "lost", "other"} : closed(how) \subseteq churn
  OBVIOUS
<1>2. done = (closed("won") \cup closed("lost")) \cup closed("other")
  <2>1. \A d \in Deals : Outcome(d) \in {"won", "lost", "other"}
    BY DEF Outcome
  <2>2. churn \subseteq Deals
    BY DEF ChurnRows, InQuarter
  <2> QED
    BY <2>1, <2>2
<1>3. /\ closed("won") \cap closed("lost") = {} /\ (closed("won") \cup closed("lost")) \cap closed("other") = {}
  OBVIOUS
<1> HIDE DEF churn, open, done, closed, worth
<1>4. /\ \A S \in SUBSET churn : /\ IsFiniteSet(S) /\ Cardinality(S) \in Nat /\ S \in SUBSET Deals
                                 /\ Total(S, Dollars) = SumOf(worth, S) /\ Total(S, Dollars) \in Int
                                 /\ S = {} => Total(S, Dollars) = 0
                                 /\ S # {} => Total(S, Dollars) < 0
      /\ worth \in [Deals -> Int] /\ IsFiniteSet(Deals)
  BY FlashIsOfLosses, TotalsAssumption DEF churn, worth
<1>5. Header.openUSD + Header.closedUSD = Flash(0)
  <2>1. Total(churn, Dollars) = Total(open, Dollars) + Total(done, Dollars)
    BY <1>1, <1>4, SumUnion
  <2> QED
    BY <1>0, <2>1 DEF Flash, churn
<1>6. /\ Header.open + Header.won + Header.lost + Header.other = Cardinality(churn)
      /\ Header.won + Header.lost + Header.other = Cardinality(done)
  <2>0. IsFiniteSet(closed("won")) /\ IsFiniteSet(closed("lost")) /\ IsFiniteSet(closed("other"))
        /\ IsFiniteSet(open) /\ IsFiniteSet(done)
    BY <1>1, <1>4
  <2>1. /\ Cardinality(closed("won") \cup closed("lost")) = Cardinality(closed("won")) + Cardinality(closed("lost"))
        /\ IsFiniteSet(closed("won") \cup closed("lost"))
    BY <1>3, <2>0, DisjointCount
  <2>2. Cardinality(done) = Cardinality(closed("won") \cup closed("lost")) + Cardinality(closed("other"))
    BY <1>2, <1>3, <2>0, <2>1, DisjointCount
  <2>3. Cardinality(churn) = Cardinality(open) + Cardinality(done)
    BY <1>1, <2>0, DisjointCount
  <2>4. /\ Cardinality(open) \in Nat /\ Cardinality(closed("won")) \in Nat
        /\ Cardinality(closed("lost")) \in Nat /\ Cardinality(closed("other")) \in Nat
    BY <1>1, <1>4
  <2> QED
    BY <1>0, <2>1, <2>2, <2>3, <2>4
<1>7. Header.closedUSD < 0 <=> Header.won + Header.lost + Header.other > 0
  <2>1. Cardinality(done) > 0 <=> done # {}
    BY <1>1, <1>4, FS_EmptySet
  <2> QED
    BY <1>0, <1>1, <1>4, <1>6, <2>1
<1>8. Flash(0) = 0 <=> ChurnRows(0) = {}
  BY <1>4 DEF Flash, churn
<1> QED
  BY <1>5, <1>6, <1>7, <1>8, RowWorth DEF RowsLose, churn

(* The largest opportunity of each account, of a worth that is a function. *)
PerOf(worth, S) ==
  {d \in S : \A e \in S : Holder[e] = Holder[d] => worth[d] > worth[e] \/ (worth[d] = worth[e] /\ d <= e)}

(* Each account has one that stands for it, and one only.                  *)
LEMMA Representative ==
  ASSUME NEW worth \in [Deals -> Int], NEW S \in SUBSET Deals, NEW d \in S
  PROVE  \E l \in PerOf(worth, S) :
           Holder[l] = Holder[d] /\ \A m \in PerOf(worth, S) : Holder[m] = Holder[d] => m = l
<1> DEFINE own == {e \in S : Holder[e] = Holder[d]}
<1>1. own \in SUBSET Deals /\ own # {}
  OBVIOUS
<1>2. PICK l \in own : \A e \in own : e # l => Precedes(worth, l, e)
  <2> HIDE DEF own
  <2> QED
    BY <1>1, FirstExists, TotalsAssumption
<1>3. l \in Deals /\ l \in S /\ Holder[l] = Holder[d]
  OBVIOUS
<1>4. \A e \in Deals : e \in Nat /\ worth[e] \in Int
  BY TotalsAssumption
<1>5. l \in PerOf(worth, S)
  <2>1. ASSUME NEW e \in S, Holder[e] = Holder[l]
        PROVE  worth[l] > worth[e] \/ (worth[l] = worth[e] /\ l <= e)
    <3>1. CASE e = l
      BY <1>3, <1>4, <3>1
    <3>2. CASE e # l
      <4>1. Precedes(worth, l, e)
        BY <1>2, <1>3, <2>1, <3>2
      <4> QED
        BY <1>3, <1>4, <4>1 DEF Precedes
    <3> QED
      BY <3>1, <3>2
  <2> QED
    BY <1>3, <2>1 DEF PerOf
<1>6. ASSUME NEW m \in PerOf(worth, S), Holder[m] = Holder[d]
      PROVE  m = l
  <2>1. m \in S /\ m \in Deals
    BY DEF PerOf
  <2>2. /\ worth[m] > worth[l] \/ (worth[m] = worth[l] /\ m <= l)
        /\ worth[l] > worth[m] \/ (worth[l] = worth[m] /\ l <= m)
    BY <1>3, <1>5, <1>6, <2>1 DEF PerOf
  <2> QED
    BY <1>3, <1>4, <2>1, <2>2
<1> QED
  BY <1>3, <1>5, <1>6

(* The script's lists by hedge, in terms of a function.                    *)
LEMMA HedgeLists ==
  \A S \in SUBSET Deals : /\ PerAccount(S, HedgeOf) = PerOf([d \in Deals |-> HedgeOf(d)], S)
                          /\ \A n : Top(S, HedgeOf, n) = TopOf([d \in Deals |-> HedgeOf(d)], S, n)
<1> SUFFICES ASSUME NEW S \in SUBSET Deals
             PROVE  /\ PerAccount(S, HedgeOf) = PerOf([d \in Deals |-> HedgeOf(d)], S)
                    /\ \A n : Top(S, HedgeOf, n) = TopOf([d \in Deals |-> HedgeOf(d)], S, n)
  OBVIOUS
<1> DEFINE worth == [d \in Deals |-> HedgeOf(d)]
<1>1. \A d \in S : worth[d] = HedgeOf(d)
  OBVIOUS
<1> HIDE DEF worth
<1>2. PerAccount(S, HedgeOf) = PerOf(worth, S)
  BY <1>1 DEF PerAccount, PerOf
<1>3. \A d \in S : {e \in S : HedgeOf(e) > HedgeOf(d) \/ (HedgeOf(e) = HedgeOf(d) /\ e < d)} = AheadOf(worth, S, d)
  BY <1>1 DEF AheadOf, Precedes
<1>4. \A n : Top(S, HedgeOf, n) = TopOf(worth, S, n)
  BY <1>3 DEF Top, TopOf
<1> QED
  BY <1>2, <1>4 DEF worth

(* And by exposure.                                                        *)
LEMMA ExposedLists ==
  \A S \in SUBSET Deals : /\ PerAccount(S, Exposed) = PerOf([d \in Deals |-> Exposed(d)], S)
                          /\ \A n : Top(S, Exposed, n) = TopOf([d \in Deals |-> Exposed(d)], S, n)
<1> SUFFICES ASSUME NEW S \in SUBSET Deals
             PROVE  /\ PerAccount(S, Exposed) = PerOf([d \in Deals |-> Exposed(d)], S)
                    /\ \A n : Top(S, Exposed, n) = TopOf([d \in Deals |-> Exposed(d)], S, n)
  OBVIOUS
<1> DEFINE worth == [d \in Deals |-> Exposed(d)]
<1>1. \A d \in S : worth[d] = Exposed(d)
  OBVIOUS
<1> HIDE DEF worth
<1>2. PerAccount(S, Exposed) = PerOf(worth, S)
  BY <1>1 DEF PerAccount, PerOf
<1>3. \A d \in S : {e \in S : Exposed(e) > Exposed(d) \/ (Exposed(e) = Exposed(d) /\ e < d)} = AheadOf(worth, S, d)
  BY <1>1 DEF AheadOf, Precedes
<1>4. \A n : Top(S, Exposed, n) = TopOf(worth, S, n)
  BY <1>3 DEF Top, TopOf
<1> QED
  BY <1>2, <1>4 DEF worth

(* An account whose first row is a save target is not offered to Glean.    *)
LEMMA NotAskedTwiceHolds ==
  ASSUME TotalSorts
  PROVE  NotAskedTwice
<1> SUFFICES ASSUME NEW a \in Accounts(Rows), FirstRow(a) \in Targets
             PROVE  FirstIsTarget(a)
  BY DEF NotAskedTwice, Offered
<1> DEFINE d == FirstRow(a)
<1>1. d \in Deals /\ Deal(d).renewal /\ OnTheLine(d) /\ Down(d)
  BY DEF Targets, Rows, InQuarter, SaveTarget
<1>2. Deal(d) \in OppTypes
  BY <1>1, RowTypes
<1> HIDE DEF d
<1>3. \/ Deal(d).known > 0
      \/ Or(Deal(d).override, Deal(d).ml) # Unset /\ Or(Deal(d).override, Deal(d).ml) < 0
      \/ Deal(d).delta # Unset /\ Deal(d).delta < 0
  BY <1>1 DEF Down, Or
<1> QED
  BY <1>1, <1>3 DEF FirstIsTarget, d

(* Of an account's overrides that differ, one stands for it.               *)
LEMMA GapsExplainedHolds ==
  ASSUME TotalSorts
  PROVE  GapsExplained
<1> SUFFICES ASSUME NEW a \in Accounts(Mismatches)
             PROVE  Cardinality(Primary(a)) = 1
  BY DEF GapsExplained
<1> DEFINE worth == [d \in Deals |-> IF Deal(d).override = Unset \/ Deal(d).best = Unset THEN 0 ELSE Gap(d)]
           own == {d \in Mismatches : Holder[d] = a}
<1>1. Mismatches \subseteq Deals /\ \A d \in Mismatches : worth[d] = Gap(d)
  BY DEF Mismatches, Top, Rows, InQuarter, Differs
<1>2. worth \in [Deals -> Int]
  <2>1. \A d \in Deals : Deal(d).override \in Int /\ Deal(d).best \in Int
    BY RowTypes DEF OppTypes
  <2> QED
    BY <2>1 DEF Gap
<1> HIDE DEF worth
<1>3. own \in SUBSET Deals /\ Primary(a) = PerOf(worth, own)
  BY <1>1 DEF Primary, PerAccount, PerOf
<1>4. PICK d \in own : TRUE
  BY DEF Accounts
<1>5. Holder[d] = a /\ \A l \in PerOf(worth, own) : Holder[l] = a
  BY DEF PerOf
<1> HIDE DEF own
<1>6. PICK l \in PerOf(worth, own) : Holder[l] = Holder[d] /\ \A m \in PerOf(worth, own) : Holder[m] = Holder[d]
          => m = l
  BY <1>2, <1>3, Representative
<1>7. PerOf(worth, own) = {l}
  BY <1>5, <1>6
<1> QED
  BY <1>3, <1>7, FS_Singleton

(* The accounts are as finite as their opportunities.                      *)
LEMMA HoldersFinite == IsFiniteSet(Holders)
<1> DEFINE f == [d \in Deals |-> Holder[d]]
<1>1. f \in Surjection(Deals, Holders)
  BY DEF Surjection, Holders
<1> HIDE DEF f
<1> QED
  BY <1>1, FS_Surjection, TotalsAssumption

(* An account is under one colour of the key saves.                        *)
LEMMA OneColourHolds ==
  ASSUME TotalSorts
  PROVE  OneColour
<1> DEFINE in(band) == Accounts(KeySaves(band))
           counted(band) == {a \in {Holder[d] : d \in InQuarter(0)} : Colour(a) = band}
<1>1. \A band : \A d \in KeySaves(band) : d \in Rows /\ Colour(Holder[d]) = band
  BY DEF KeySaves, Top, PerAccount
<1>2. \A band : (\A a \in in(band) : Colour(a) = band) /\ in(band) \subseteq counted(band)
  BY <1>1 DEF Accounts, Rows
<1>3. \A band : counted(band) \in SUBSET Holders
  BY DEF Holders, InQuarter
<1>4. Kpis(0).red = Cardinality(counted("red")) /\ Kpis(0).yellow = Cardinality(counted("yellow"))
  BY DEF Kpis
<1>5. /\ in("red") \cap in("yellow") = {} /\ in("red") \cap in("green") = {}
      /\ in("yellow") \cap in("green") = {}
  BY <1>2
<1> HIDE DEF in, counted
<1>6. ASSUME NEW band
      PROVE  Cardinality(in(band)) <= Cardinality(counted(band))
  <2>1. IsFiniteSet(counted(band))
    BY <1>3, HoldersFinite, FS_Subset
  <2>2. in(band) \in SUBSET counted(band)
    BY <1>2
  <2> QED
    BY <2>1, <2>2, FS_Subset
<1> QED
  BY <1>4, <1>5, <1>6 DEF OneColour, in

(* What the lemmas above need of the opportunities.                        *)
LEMMA DealsFinite == IsFiniteSet(Deals)
  BY TotalsAssumption

(* Their numbers.                                                          *)
LEMMA DealsNumbered == Deals \subseteq Nat
  BY TotalsAssumption

(* The total of the moves.                                                 *)
LEMMA MoveTotal ==
  \A S \in SUBSET Deals : Total(S, MlMove) = SumOf([d \in Deals |-> MlMove(d)], S)
BY DEF SumOf, SumRec, Pick, Total, MapThenSumSet, MapThenFoldSet

(* The total of the losses as debts.                                       *)
LEMMA DebtTotal ==
  \A S \in SUBSET Deals : Total(S, LAMBDA d : -Dollars(d)) = SumOf([d \in Deals |-> -Dollars(d)], S)
BY DEF SumOf, SumRec, Pick, Total, MapThenSumSet, MapThenFoldSet

(* Part of some opportunities and the rest of them add up to the whole.    *)
LEMMA DealsSplit ==
  ASSUME NEW worth \in [Deals -> Int], NEW whole \in SUBSET Deals, NEW part \in SUBSET whole
  PROVE  /\ SumOf(worth, whole) = SumOf(worth, part) + SumOf(worth, whole \ part)
         /\ SumOf(worth, part) \in Int /\ SumOf(worth, whole \ part) \in Int
         /\ (\A x \in whole : worth[x] >= 0) => SumOf(worth, part) <= SumOf(worth, whole)
         /\ (\A x \in whole : worth[x] <= 0) => SumOf(worth, part) >= SumOf(worth, whole)
<1> DEFINE rest == whole \ part
<1>1. /\ part \in SUBSET Deals /\ rest \in SUBSET Deals /\ part \cap rest = {} /\ part \cup rest = whole
      /\ \A x \in rest : x \in whole
  OBVIOUS
<1>2. SumOf(worth, whole) = SumOf(worth, part) + SumOf(worth, rest)
  BY SumSplits, DealsFinite
<1> HIDE DEF rest
<1>3. SumOf(worth, part) \in Int /\ SumOf(worth, rest) \in Int
  BY <1>1, SumValue, DealsFinite
<1>4. (\A x \in whole : worth[x] >= 0) => SumOf(worth, rest) >= 0
  BY <1>1, SumGains, DealsFinite
<1>5. (\A x \in whole : worth[x] <= 0) => SumOf(worth, rest) <= 0
  BY <1>1, SumLoses, DealsFinite
<1> QED
  BY <1>3, <1>2, <1>4, <1>5 DEF rest

(* The two lists of accounts share none and leave none out while there is  *)
(* room; what they show is within the totals.                              *)
LEMMA ListsApartHolds ==
  ASSUME TotalSorts
  PROVE  ListsApart
<1> DEFINE hedges == [d \in Deals |-> HedgeOf(d)]
           stakes == [d \in Deals |-> Exposed(d)]
           H == {d \in Targets : HedgeOf(d) > 0}
           N == {d \in Targets : HedgeOf(d) <= 0 /\ Holder[d] \notin Accounts(Hedged) /\ Exposed(d) > 0}
<1>1. Targets \in SUBSET Deals /\ H \in SUBSET Targets /\ N \in SUBSET Targets /\ H \in SUBSET Deals /\
          N \in SUBSET Deals
  BY DEF Targets, Rows, InQuarter
<1>2. /\ hedges \in [Deals -> Int] /\ \A d \in Deals : hedges[d] = HedgeOf(d)
      /\ stakes \in [Deals -> Int] /\ \A d \in Deals : stakes[d] = Exposed(d)
  BY RowWorth
<1>3. /\ Hedged = TopOf(hedges, PerOf(hedges, H), ListLength)
      /\ NotYetHedged = TopOf(stakes, PerOf(stakes, N), ListLength)
  <2>1. PerOf(hedges, H) \in SUBSET Deals /\ PerOf(stakes, N) \in SUBSET Deals
    BY <1>1 DEF PerOf
  <2>2. PerAccount(H, HedgeOf) = PerOf(hedges, H) /\ PerAccount(N, Exposed) = PerOf(stakes, N)
    BY <1>1, HedgeLists, ExposedLists
  <2>3. Hedged = Top(PerAccount(H, HedgeOf), HedgeOf, ListLength)
    BY DEF Hedged
  <2>4. NotYetHedged = Top(PerAccount(N, Exposed), Exposed, ListLength)
    BY DEF NotYetHedged
  <2>5. Top(PerOf(hedges, H), HedgeOf, ListLength) = TopOf(hedges, PerOf(hedges, H), ListLength)
    BY <2>1, HedgeLists
  <2>6. Top(PerOf(stakes, N), Exposed, ListLength) = TopOf(stakes, PerOf(stakes, N), ListLength)
    BY <2>1, ExposedLists
  <2> QED
    BY <2>2, <2>3, <2>4, <2>5, <2>6
<1>4. Hedged \in SUBSET H /\ NotYetHedged \in SUBSET N
  BY <1>3 DEF TopOf, PerOf
<1> DEFINE worth == [d \in Deals |-> Dollars(d)]
           debt == [d \in Deals |-> -Dollars(d)]
<1>5. /\ worth \in [Deals -> Int] /\ debt \in [Deals -> Int] /\ \A d \in Deals : debt[d] = -worth[d]
      /\ \A d \in ChurnRows(0) : worth[d] < 0
  <2>1. \A d \in Deals : Dollars(d) \in Int
    BY RowWorth
  <2>2. \A d \in ChurnRows(0) : Dollars(d) < 0 /\ d \in Deals
    BY FlashIsOfLosses DEF ChurnRows, InQuarter
  <2> QED
    BY <2>1, <2>2
<1>6. Accounts(Hedged) \cap Accounts(NotYetHedged) = {}
  BY <1>4 DEF Accounts
<1>7. ASSUME NEW d \in Targets, Exposed(d) > 0, Cardinality(Hedged) # ListLength,
               Cardinality(NotYetHedged) # ListLength,
             Holder[d] \notin Accounts(Hedged)
      PROVE  Holder[d] \in Accounts(NotYetHedged)
  <2> HIDE DEF hedges, stakes
  <2>1. Hedged = PerOf(hedges, H) /\ NotYetHedged = PerOf(stakes, N)
    <3>1. PerOf(hedges, H) \in SUBSET Deals /\ PerOf(stakes, N) \in SUBSET Deals /\ ListLength \in Nat
      BY <1>1, TotalsAssumption DEF PerOf
    <3> HIDE DEF H, N
    <3>2. /\ Cardinality(TopOf(hedges, PerOf(hedges, H), ListLength)) = ListLength
             \/ TopOf(hedges, PerOf(hedges, H), ListLength) = PerOf(hedges, H)
          /\ Cardinality(TopOf(stakes, PerOf(stakes, N), ListLength)) = ListLength
             \/ TopOf(stakes, PerOf(stakes, N), ListLength) = PerOf(stakes, N)
      <4>1. ASSUME NEW w \in [Deals -> Int], NEW S \in SUBSET Deals
            PROVE  Cardinality(TopOf(w, S, ListLength)) = ListLength \/ TopOf(w, S, ListLength) = S
        BY <3>1, TopSize, DealsFinite, DealsNumbered
      <4> QED
        BY <1>2, <3>1, <4>1
    <3> QED
      BY <1>3, <1>7, <3>2
  <2>2. d \notin H
    <3> SUFFICES ASSUME d \in H
                 PROVE  FALSE
      OBVIOUS
    <3>1. \E l \in PerOf(hedges, H) : Holder[l] = Holder[d]
      <4> HIDE DEF H
      <4> QED
        BY <1>1, <1>2, Representative
    <3> QED
      BY <1>7, <2>1, <3>1 DEF Accounts
  <2>3. d \in N
    <3>1. HedgeOf(d) \in Int
      BY <1>1, RowWorth
    <3> QED
      BY <1>7, <2>2, <3>1
  <2>4. \E l \in PerOf(stakes, N) : Holder[l] = Holder[d]
    <3> HIDE DEF N
    <3> QED
      BY <1>1, <1>2, <2>3, Representative
  <2> QED
    BY <2>1, <2>4 DEF Accounts
<1>8. ASSUME \A d \in Targets : HedgeOf(d) >= 0
      PROVE  Total(Hedged, HedgeOf) <= Hedge(0)
  <2>1. Hedged \in SUBSET Deals /\ Hedged \in SUBSET Targets
    BY <1>1, <1>4
  <2>2. Total(Hedged, HedgeOf) = SumOf(hedges, Hedged) /\ Hedge(0) = SumOf(hedges, Targets)
    <3>1. Hedge(0) = Total(Targets, HedgeOf)
      BY DEF Hedge, Targets, Rows
    <3> QED
      BY <1>1, <2>1, <3>1, HedgeTotal
  <2>3. \A x \in Targets : hedges[x] >= 0
    BY <1>1, <1>2, <1>8
  <2> HIDE DEF hedges
  <2>4. SumOf(hedges, Hedged) <= SumOf(hedges, Targets)
    <3>1. hedges \in [Deals -> Int] /\ Targets \in SUBSET Deals
      BY <1>1, <1>2
    <3> QED
      BY <2>1, <2>3, <3>1, DealsSplit
  <2> QED
    BY <2>2, <2>4
<1>9. CloseGap \subseteq ChurnRows(0)
  BY DEF CloseGap, Top, PerAccount, Targets, SaveTarget, Rows, ChurnRows, ChurnRow
<1>10. Total(CloseGap, LAMBDA d : -Dollars(d)) <= -Flash(0)
  <2>1. CloseGap \in SUBSET Deals /\ CloseGap \in SUBSET ChurnRows(0) /\ ChurnRows(0) \in SUBSET Deals
    BY <1>9 DEF ChurnRows, InQuarter
  <2>2. Flash(0) = SumOf(worth, ChurnRows(0))
    BY <2>1, DollarsTotal DEF Flash
  <2>3. Total(CloseGap, LAMBDA d : -Dollars(d)) = SumOf(debt, CloseGap)
    BY <2>1, DebtTotal
  <2>4. \A x \in ChurnRows(0) : worth[x] <= 0
    <3>1. \A x \in ChurnRows(0) : worth[x] < 0 /\ worth[x] \in Int
      BY <1>5, <2>1
    <3> HIDE DEF worth
    <3> QED
      BY <3>1
  <2> HIDE DEF worth, debt
  <2>5. SumOf(debt, CloseGap) = -SumOf(worth, CloseGap)
    <3>2. \A s \in SUBSET Deals : SumOf(debt, s) = -SumOf(worth, s)
      <4>1. worth \in [Deals -> Int] /\ debt \in [Deals -> Int] /\ \A d \in Deals : debt[d] = -worth[d]
        BY <1>5
      <4> QED
        BY <4>1, SumOppositeAll, DealsFinite
    <3> QED
      BY <2>1, <3>2
  <2>6. /\ SumOf(worth, CloseGap) >= SumOf(worth, ChurnRows(0)) /\ SumOf(worth, CloseGap) \in Int
        /\ SumOf(worth, ChurnRows(0)) \in Int
    <3>1. SumOf(worth, ChurnRows(0)) \in Int
      BY <1>5, <2>1, SumValue, DealsFinite
    <3>2. SumOf(worth, CloseGap) >= SumOf(worth, ChurnRows(0)) /\ SumOf(worth, CloseGap) \in Int
      BY <1>5, <2>1, <2>4, DealsSplit
    <3> QED
      BY <3>1, <3>2
  <2>7. SumOf(debt, CloseGap) <= -SumOf(worth, ChurnRows(0))
    BY <2>5, <2>6
  <2> QED
    BY <2>2, <2>3, <2>7
<1>11. \A a \in Accounts({d \in Targets : Exposed(d) > 0}) :
         \/ a \in Accounts(Hedged) \cup Accounts(NotYetHedged)
         \/ Cardinality(Hedged) = ListLength \/ Cardinality(NotYetHedged) = ListLength
  <2> SUFFICES ASSUME NEW d \in Targets, Exposed(d) > 0
               PROVE  \/ Holder[d] \in Accounts(Hedged) \cup Accounts(NotYetHedged)
                      \/ Cardinality(Hedged) = ListLength \/ Cardinality(NotYetHedged) = ListLength
    BY DEF Accounts
  <2> QED
    BY <1>7
<1> QED
  BY <1>6, <1>8, <1>9, <1>10, <1>11 DEF ListsApart

(* The week-over-week lines tell of every won renewal and of every fall.   *)
LEMMA WeekIsToldHolds ==
  ASSUME TotalSorts
  PROVE  WeekIsTold
<1>1. Booked \subseteq Rows /\ Targets \subseteq Rows /\ Rows \subseteq Deals
  BY DEF Booked, Targets, Rows, InQuarter
<1>2. ASSUME NEW d \in Watched, NEW f \in {"stage", "ml", "close", "notice"}, DealSign(d, f) # "none"
      PROVE  /\ DealSign(d, f) \in Signs(Holder[d]) /\ Holder[d] \in Lines
             /\ DealSign(d, f) = "-" => LineSign(Holder[d]) = "-"
  <2>1. d \in {x \in Watched : Holder[x] = Holder[d]} /\ Holder[d] \in Eligible
    BY DEF Watched
  <2>2. DealSign(d, f) \in Signs(Holder[d])
    BY <1>2, <2>1 DEF Signs
  <2> QED
    BY <2>1, <2>2 DEF Lines, LineSign
<1>3. ASSUME NEW d \in Booked
      PROVE  Holder[d] \in Lines
  <2>1. d \in Watched
    BY <1>1 DEF Watched, Eligible, Accounts, Booked
  <2>2. DealSign(d, "stage") = "+"
    BY DEF DealSign, Booked, Won, Lost
  <2> QED
    BY <1>2, <2>1, <2>2
<1>4. Week.booked = Cardinality(Accounts(Booked))
  <2>1. {a \in Eligible : \E d \in Booked : Holder[d] = a} = Accounts(Booked)
    BY DEF Eligible, Accounts
  <2> QED
    BY <2>1 DEF Week
<1>5. ASSUME NEW d \in Targets, MlMove(d) <= -25
      PROVE  Holder[d] \in Lines /\ LineSign(Holder[d]) = "-" /\ Week.regressions <= MlMove(d)
  <2> DEFINE fallen == {e \in Watched : DealSign(e, "ml") = "-"}
             drift == [e \in Deals |-> MlMove(e)]
  <2>1. d \in Watched
    BY <1>1 DEF Watched, Eligible, Accounts, Targets, SaveTarget
  <2>2. DealSign(d, "ml") = "-"
    <3>1. MlMove(d) \in Int
      BY <1>1, RowWorth
    <3>2. DealSign(d, "ml") = IF MlMove(d) >= 25 THEN "+" ELSE IF MlMove(d) <= -25 THEN "-" ELSE "none"
      BY DEF DealSign
    <3> QED
      BY <1>5, <3>1, <3>2
  <2>3. Holder[d] \in Lines /\ LineSign(Holder[d]) = "-"
    BY <1>2, <2>1, <2>2
  <2>4. fallen \in SUBSET Deals /\ d \in fallen
    BY <1>1, <2>1, <2>2 DEF Watched
  <2>5. Week.regressions = SumOf(drift, fallen)
    <3>1. Week.regressions = Total(fallen, MlMove)
      BY DEF Week, Moved
    <3>2. Total(fallen, MlMove) = SumOf(drift, fallen)
      BY <2>4, MoveTotal
    <3> QED
      BY <3>1, <3>2
  <2>6. drift \in [Deals -> Int]
    BY RowWorth
  <2>7. \A x \in fallen : drift[x] <= 0
    <3> SUFFICES ASSUME NEW x \in fallen
                 PROVE  MlMove(x) <= 0
      BY <2>4
    <3>1. MlMove(x) \in Int
      BY <2>4, RowWorth
    <3>2. DealSign(x, "ml") = IF MlMove(x) >= 25 THEN "+" ELSE IF MlMove(x) <= -25 THEN "-" ELSE "none"
      BY DEF DealSign
    <3> QED
      BY <3>1, <3>2
  <2>8. drift[d] = MlMove(d)
    BY <1>1
  <2> HIDE DEF drift, fallen
  <2>9. SumOf(drift, fallen) <= drift[d]
    BY <2>4, <2>6, <2>7, SumBelowEach, DealsFinite
  <2> QED
    BY <2>3, <2>5, <2>8, <2>9
<1> QED
  BY <1>3, <1>4, <1>5 DEF WeekIsTold

(* What the script says of a quarter: its totals, lists and week-over-week *)
(* lines agree with each other (packages/forecast-generator, forecast-     *)
(* generate.ts), for any finite set of opportunities and any book of them. *)
THEOREM TotalsHold == TotalSpec => []TotalInv
<1>1. TotalSorts /\ TotalTypeOK => TotalInv
  BY RowsLoseHolds, ListsApartHolds, NotAskedTwiceHolds, GapsExplainedHolds, OneColourHolds, WeekIsToldHolds
      DEF TotalInv
<1> QED
  BY <1>1, TotalsAreTyped, PTL

-----------------------------------------------------------------------------
(* The scores and plans of an account. First what their helpers return:    *)
(* the extremes of a set, clamping, and places in a list.                  *)

(* The greatest and the least of a set.                                    *)
LEMMA GreatestIs ==
  ASSUME NEW S, S \subseteq Int, NEW m \in S, \A y \in S : y <= m
  PROVE  Max(S) = m
<1>1. \A x \in S : (\A y \in S : x >= y) <=> x = m
  OBVIOUS
<1> QED
  BY <1>1 DEF Max

(* The least of a set is a member that no other is below.                  *)
LEMMA LeastIs ==
  ASSUME NEW S, S \subseteq Int, NEW m \in S, \A y \in S : m <= y
  PROVE  Min(S) = m
<1>1. \A x \in S : (\A y \in S : x <= y) <=> x = m
  OBVIOUS
<1> QED
  BY <1>1 DEF Min

(* The greater and the lesser of two numbers.                              *)
LEMMA OfTwo ==
  ASSUME NEW x \in Int, NEW y \in Int
  PROVE  /\ Max({x, y}) = IF x >= y THEN x ELSE y
         /\ Min({x, y}) = IF x <= y THEN x ELSE y
<1>1. CASE x >= y
  <2>1. Max({x, y}) = x
    BY <1>1, GreatestIs
  <2>2. Min({x, y}) = y
    BY <1>1, LeastIs
  <2> QED
    BY <1>1, <2>1, <2>2
<1>2. CASE x < y
  <2>1. Max({x, y}) = y
    BY <1>2, GreatestIs
  <2>2. Min({x, y}) = x
    BY <1>2, LeastIs
  <2> QED
    BY <1>2, <2>1, <2>2
<1> QED
  BY <1>1, <1>2

(* Clamping: what lies between two bounds stays, the rest goes to a bound. *)
LEMMA BetweenIs ==
  ASSUME NEW low \in Int, NEW x \in Int, NEW high \in Int, low <= high
  PROVE  Between(low, x, high) = IF x <= low THEN low ELSE IF x >= high THEN high ELSE x
<1>1. Min({x, high}) = IF x <= high THEN x ELSE high
  BY OfTwo
<1>2. Min({x, high}) \in Int
  BY <1>1
<1>3. Between(low, x, high) = IF low >= Min({x, high}) THEN low ELSE Min({x, high})
  BY <1>2, OfTwo DEF Between
<1> QED
  BY <1>1, <1>3

(* The places in the orders.                                               *)
LEMMA PlaceIs ==
  ASSUME NEW order, NEW n \in Nat, DOMAIN order = 1..n, NEW i \in 1..n, \A j \in 1..n : order[j] = order[i] => j = i
  PROVE  Place(order, order[i]) = i - 1
<1> DEFINE x == order[i]
           S == {0} \cup {k - 1 : k \in {j \in DOMAIN order : order[j] = x}}
<1>2. S = {0, i - 1}
  OBVIOUS
<1>3. Max(S) = i - 1
  BY <1>2, OfTwo
<1> QED
  BY <1>3 DEF Place

(* In a list that repeats nothing, each entry has the place it stands at.  *)
LEMMA PlacesOf ==
  ASSUME NEW order, NEW n \in Nat, DOMAIN order = 1..n, \A j, k \in 1..n : order[j] = order[k] => j = k
  PROVE  \A i \in 1..n : Place(order, order[i]) = i - 1
BY PlaceIs

(* What a list does not hold has place 0 (the code's Math.max(0,           *)
(* indexOf)).                                                              *)
LEMMA NoPlace ==
  ASSUME NEW order, NEW n \in Nat, DOMAIN order = 1..n, NEW x, \A j \in 1..n : order[j] # x
  PROVE  Place(order, x) = 0
<1> DEFINE S == {0} \cup {k - 1 : k \in {j \in DOMAIN order : order[j] = x}}
<1>2. S = {0, 0}
  OBVIOUS
<1>3. Max(S) = 0
  BY <1>2, OfTwo
<1> QED
  BY <1>3 DEF Place

(* The places of the risk categories; no category counts as the lowest.    *)
LEMMA CategoryPlaces ==
  /\ Place(Categories, "Low") = 0 /\ Place(Categories, "Medium") = 1 /\ Place(Categories, "High") = 2
  /\ Place(Categories, "Critical") = 3 /\ Place(Categories, "none") = 0
<1>1. DOMAIN Categories = 1..4 /\ Categories[1] = "Low" /\ Categories[2] = "Medium" /\ Categories[3] = "High" /\
          Categories[4] = "Critical"
  BY DEF Categories
<1>2. \A j \in 1..4 : j = 1 \/ j = 2 \/ j = 3 \/ j = 4
  OBVIOUS
<1>3. \A j, k \in 1..4 : Categories[j] = Categories[k] => j = k
  BY <1>1, <1>2
<1>4. \A j \in 1..4 : Place(Categories, Categories[j]) = j - 1
  BY <1>1, <1>3, PlacesOf
<1>5. Place(Categories, "none") = 0
  <2>1. \A j \in 1..4 : Categories[j] # "none"
    BY <1>1, <1>2
  <2> QED
    BY <1>1, <2>1, NoPlace
<1>6. Place(Categories, Categories[1]) = 0 /\ Place(Categories, Categories[2]) = 1 /\
          Place(Categories, Categories[3]) = 2 /\ Place(Categories, Categories[4]) = 3
  BY <1>4
<1> QED
  BY <1>1, <1>6, <1>5

(* The places of the sentiments; no sentiment counts as Green.             *)
LEMMA SentimentPlaces ==
  /\ Place(Sentiments, "Green") = 0 /\ Place(Sentiments, "Yellow") = 1 /\ Place(Sentiments, "Red") = 2
  /\ Place(Sentiments, "Confirmed Churn") = 3 /\ Place(Sentiments, "none") = 0
<1>1. DOMAIN Sentiments = 1..4 /\ Sentiments[1] = "Green" /\ Sentiments[2] = "Yellow" /\ Sentiments[3] = "Red" /\
          Sentiments[4] = "Confirmed Churn"
  BY DEF Sentiments
<1>2. \A j \in 1..4 : j = 1 \/ j = 2 \/ j = 3 \/ j = 4
  OBVIOUS
<1>3. \A j, k \in 1..4 : Sentiments[j] = Sentiments[k] => j = k
  BY <1>1, <1>2
<1>4. \A j \in 1..4 : Place(Sentiments, Sentiments[j]) = j - 1
  BY <1>1, <1>3, PlacesOf
<1>5. Place(Sentiments, "none") = 0
  <2>1. \A j \in 1..4 : Sentiments[j] # "none"
    BY <1>1, <1>2
  <2> QED
    BY <1>1, <2>1, NoPlace
<1>6. Place(Sentiments, Sentiments[1]) = 0 /\ Place(Sentiments, Sentiments[2]) = 1 /\
          Place(Sentiments, Sentiments[3]) = 2 /\ Place(Sentiments, Sentiments[4]) = 3
  BY <1>4
<1> QED
  BY <1>1, <1>6, <1>5

(* The places of the risk levels in the ranking, the gravest first.        *)
LEMMA LevelPlaces ==
  /\ Place(LevelOrder, "Critical") = 0 /\ Place(LevelOrder, "High") = 1 /\ Place(LevelOrder, "Medium") = 2
  /\ Place(LevelOrder, "Low") = 3 /\ Place(LevelOrder, "Unknown") = 4
<1>1. DOMAIN LevelOrder = 1..5 /\ LevelOrder[1] = "Critical" /\ LevelOrder[2] = "High" /\ LevelOrder[3] = "Medium" /\
          LevelOrder[4] = "Low" /\ LevelOrder[5] = "Unknown"
  BY DEF LevelOrder
<1>2. \A j \in 1..5 : j = 1 \/ j = 2 \/ j = 3 \/ j = 4 \/ j = 5
  OBVIOUS
<1>3. \A j, k \in 1..5 : LevelOrder[j] = LevelOrder[k] => j = k
  BY <1>1, <1>2
<1>4. \A j \in 1..5 : Place(LevelOrder, LevelOrder[j]) = j - 1
  BY <1>1, <1>3, PlacesOf
<1>6. Place(LevelOrder, LevelOrder[1]) = 0 /\ Place(LevelOrder, LevelOrder[2]) = 1 /\
          Place(LevelOrder, LevelOrder[3]) = 2 /\ Place(LevelOrder, LevelOrder[4]) = 3 /\
              Place(LevelOrder, LevelOrder[5]) = 4
  BY <1>4
<1> QED
  BY <1>1, <1>6

(* The places of the buckets in the ranking.                               *)
LEMMA BucketPlaces ==
  /\ Place(BucketOrder, "Saveable Risk") = 0 /\ Place(BucketOrder, "Confirmed Churn") = 1 /\
       Place(BucketOrder, "Healthy") = 2
<1>1. DOMAIN BucketOrder = 1..3 /\ BucketOrder[1] = "Saveable Risk" /\ BucketOrder[2] = "Confirmed Churn" /\
          BucketOrder[3] = "Healthy"
  BY DEF BucketOrder
<1>2. \A j \in 1..3 : j = 1 \/ j = 2 \/ j = 3
  OBVIOUS
<1>3. \A j, k \in 1..3 : BucketOrder[j] = BucketOrder[k] => j = k
  BY <1>1, <1>2
<1>4. \A j \in 1..3 : Place(BucketOrder, BucketOrder[j]) = j - 1
  BY <1>1, <1>3, PlacesOf
<1>6. Place(BucketOrder, BucketOrder[1]) = 0 /\ Place(BucketOrder, BucketOrder[2]) = 1 /\
          Place(BucketOrder, BucketOrder[3]) = 2
  BY <1>4
<1> QED
  BY <1>1, <1>6

-----------------------------------------------------------------------------
(* What an account under review is, and that every edit leaves one.        *)

(* What a view holds.                                                      *)
LEMMA AgesAre ==
  ASSUME NEW a, NEW k, IsAccount(a, k)
  PROVE  /\ \A f \in Ages : a[f] \in Int /\ InTime(a[f], k)
         /\ a.commentary \in Int /\ a.sentimentAge \in Int /\ a.meeting \in Int /\ a.workshop \in Int
         /\ a.updated \in Int /\ a.cerebroAge \in Int /\ a.asOf \in Int /\ a.docAge \in Int
<1>1. ASSUME NEW f \in Ages
      PROVE  a[f] \in Int /\ InTime(a[f], k)
  BY DEF IsAccount, FactFields, FactType
<1> QED
  BY <1>1 DEF Ages

(* The counts of a view are whole numbers.                                 *)
LEMMA CountsAre ==
  ASSUME NEW a, NEW k, IsAccount(a, k)
  PROVE  /\ a.minutes30 \in Int /\ a.minutes90 \in Int /\ a.pbu \in Int /\ a.exec \in Int /\ a.products \in Int
         /\ a.arr \in Int /\ a.live \in Int /\ a.plans \in Int /\ a.found \in Int /\ a.answers \in Int
<1>1. ASSUME NEW f \in Counts
      PROVE  a[f] \in Int
  BY DEF IsAccount, FactFields, FactType
<1> QED
  BY <1>1 DEF Counts

(* The category, the sentiment, the flags and the failed fetches of a      *)
(* view.                                                                   *)
LEMMA SetsAre ==
  ASSUME NEW a, NEW k, IsAccount(a, k)
  PROVE  /\ a.category \in {"none", "Low", "Medium", "High", "Critical"}
         /\ a.sentiment \in {"none", "Green", "Yellow", "Red", "Confirmed Churn"}
         /\ a.flags \in SUBSET Risks /\ a.errors \in SUBSET {"cerebro", "glean"}
<1>1. {"category", "flags", "sentiment", "errors"} \subseteq FactFields
  BY DEF FactFields
<1>2. /\ FactType("category") = {"none", "Low", "Medium", "High", "Critical"}
      /\ FactType("sentiment") = {"none", "Green", "Yellow", "Red", "Confirmed Churn"}
      /\ FactType("flags") = SUBSET Risks /\ FactType("errors") = SUBSET {"cerebro", "glean"}
  BY DEF FactType, Ages, Counts, Answers
<1>3. \A f \in FactFields : a[f] \in FactType(f)
  BY DEF IsAccount
<1> HIDE DEF FactType
<1> QED
  BY <1>1, <1>2, <1>3

(* The answers of a view are yes or no.                                    *)
LEMMA AnswersAre ==
  ASSUME NEW a, NEW k, IsAccount(a, k)
  PROVE  a.cse \in BOOLEAN /\ a.slack \in BOOLEAN /\ a.glean \in BOOLEAN /\ a.churnReason \in BOOLEAN /\
           a.overage \in BOOLEAN
<1>1. ASSUME NEW f \in Answers
      PROVE  a[f] \in BOOLEAN
  BY DEF IsAccount, FactFields, FactType, Ages, Counts, Answers
<1> QED
  BY <1>1 DEF Answers

(* What each opportunity of a view holds; none falls due beyond any date.  *)
LEMMA OppsAre ==
  ASSUME NEW a, NEW k, IsAccount(a, k), NEW o \in Opps
  PROVE  /\ a.opps[o].due \in Int /\ a.opps[o].due <= Never
         /\ a.opps[o].atr \in Int /\ a.opps[o].knownChurn \in Int /\ a.opps[o].acvDelta \in Int
         /\ a.opps[o].notice \in BOOLEAN
<1>1. \A f \in OppFields : a.opps[o][f] \in OppType(f)
  BY DEF IsAccount
<1>2. /\ {"due", "atr", "knownChurn", "acvDelta", "notice"} \subseteq OppFields
      /\ OppType("due") = Int /\ OppType("atr") = Int /\ OppType("knownChurn") = Int /\ OppType("acvDelta") = Int
      /\ OppType("notice") = BOOLEAN
  BY DEF OppFields, OppType, OppAmounts, OppAnswers
<1> HIDE DEF OppType
<1> QED
  BY <1>1, <1>2 DEF IsAccount

(* Two views are the same where they have the same.                        *)
LEMMA Fields ==
  /\ {"commentary", "sentimentAge", "meeting", "workshop", "updated", "cerebroAge", "asOf", "docAge", "minutes30",
       "minutes90",
      "pbu", "exec", "products", "arr", "live", "plans", "found", "answers", "cse", "slack", "glean", "churnReason",
          "overage",
      "category", "flags", "sentiment", "text", "task", "errors", "status"} = FactFields
  /\ "opps" \notin FactFields
BY DEF FactFields, Ages, Counts, Answers

(* The ages of what is on an account n days later.                         *)
LEMMA LaterAges ==
  ASSUME NEW a, NEW k, IsAccount(a, k), NEW n \in Nat
  PROVE  \A f \in Ages : Later(a, n)[f] = Older(a[f], n)
<1>1. DOMAIN a = FactFields \cup {"opps"}
  BY DEF IsAccount
<1>2. Ages \subseteq FactFields /\ "opps" \notin FactFields
  BY Fields DEF FactFields
<1> QED
  BY <1>1, <1>2 DEF Later

(* The account, days later.                                                *)
LEMMA LaterIs ==
  ASSUME NEW a, NEW k, IsAccount(a, k), NEW n \in Nat
  PROVE  /\ \A f \in Ages : Later(a, n)[f] = Older(a[f], n)
         /\ \A f \in FactFields \ Ages : Later(a, n)[f] = a[f]
         /\ Later(a, n) = [f \in FactFields \cup {"opps"} |-> Later(a, n)[f]]
         /\ Later(a, n).opps = [o \in Opps |-> [f \in OppFields |-> IF f = "due" THEN a.opps[o].due - n ELSE a.opps[o][f]]]
<1>1. DOMAIN a = FactFields \cup {"opps"}
  BY DEF IsAccount
<1>2. Ages \subseteq FactFields /\ "opps" \notin FactFields
  BY Fields DEF FactFields
<1>3. \A o \in Opps : DOMAIN a.opps[o] = OppFields
  BY DEF IsAccount
<1>4. \A o \in Opps : [a.opps[o] EXCEPT !.due = @ - n] = [f \in OppFields |-> IF f = "due" THEN a.opps[o].due - n ELSE a.opps[o][f]]
  BY <1>3
<1>5. Later(a, n).opps = [o \in Opps |-> [a.opps[o] EXCEPT !.due = @ - n]]
  BY <1>1, <1>2 DEF Later
<1> QED
  BY <1>1, <1>2, <1>4, <1>5 DEF Later

(* A view read n days later is a view, with n days less ahead of it.       *)
LEMMA LaterAccount ==
  ASSUME NEW a, NEW k \in Int, IsAccount(a, k), NEW n \in Nat, NEW j \in Int, j + n <= k, 0 <= j
  PROVE  IsAccount(Later(a, n), j)
<1> DEFINE b == Later(a, n)
<1>1. /\ \A f \in Ages : b[f] = Older(a[f], n)
      /\ \A f \in FactFields \ Ages : b[f] = a[f]
      /\ b = [f \in FactFields \cup {"opps"} |-> b[f]]
      /\ b.opps = [o \in Opps |-> [f \in OppFields |-> IF f = "due" THEN a.opps[o].due - n ELSE a.opps[o][f]]]
  BY LaterIs
<1> HIDE DEF b
<1>2. ASSUME NEW f \in FactFields
      PROVE  b[f] \in FactType(f) /\ (f \in Ages => InTime(b[f], j))
  <2>1. CASE f \in Ages
    <3>1. a[f] \in Int /\ InTime(a[f], k)
      BY <2>1, AgesAre
    <3>4. b[f] = Older(a[f], n)
      BY <1>1, <2>1
    <3>2. b[f] \in Int /\ InTime(b[f], j)
      BY <3>1, <3>4 DEF Older, InTime, Never
    <3>3. FactType(f) = Int
      BY <2>1 DEF FactType
    <3> QED
      BY <3>2, <3>3
  <2>2. CASE f \notin Ages
    BY <1>1, <2>2 DEF IsAccount
  <2> QED
    BY <2>1, <2>2
<1>3. ASSUME NEW o \in Opps
      PROVE  b.opps[o].due <= Never /\ \A f \in OppFields : b.opps[o][f] \in OppType(f)
  <2>1. a.opps[o].due \in Int /\ a.opps[o].due <= Never /\ (\A f \in OppFields : a.opps[o][f] \in OppType(f))
    BY OppsAre DEF IsAccount
  <2>2. "due" \in OppFields /\ OppType("due") = Int
    BY DEF OppFields, OppType, OppAmounts, OppAnswers
  <2>3. b.opps[o] = [f \in OppFields |-> IF f = "due" THEN a.opps[o].due - n ELSE a.opps[o][f]]
    BY <1>1
  <2>4. b.opps[o].due = a.opps[o].due - n
    BY <2>2, <2>3
  <2>5. b.opps[o].due <= Never
    BY <2>1, <2>4 DEF Never
  <2> QED
    BY <2>1, <2>2, <2>3, <2>5
<1>4. b.opps = [o \in Opps |-> [f \in OppFields |-> b.opps[o][f]]]
  BY <1>1
<1> QED
  BY <1>1, <1>2, <1>3, <1>4 DEF IsAccount, b

(* What each variable is, at every step.                                   *)
RiskSorts ==
  /\ edits \in 0..MaxEdits
  /\ IsAccount(facts, 30 * (MaxEdits - edits)) /\ IsAccount(was, 0)

(* A view that has room for k days has room for fewer.                     *)
LEMMA Sooner ==
  ASSUME NEW a, NEW k \in Int, IsAccount(a, k), NEW j \in Int, j <= k
  PROVE  IsAccount(a, j)
<1>1. \A f \in Ages : InTime(a[f], j)
  BY AgesAre DEF InTime, Never
<1> QED
  BY <1>1 DEF IsAccount

(* A view stays a view when one of its facts changes within its type.      *)
LEMMA EditedAccount ==
  ASSUME NEW a, NEW k, IsAccount(a, k), NEW f \in FactFields, NEW v \in FactType(f), f \in Ages => InTime(v, k)
  PROVE  IsAccount([a EXCEPT ![f] = v], k)
<1> DEFINE b == [a EXCEPT ![f] = v]
<1>1. DOMAIN a = FactFields \cup {"opps"}
  BY DEF IsAccount
<1>2. b[f] = v /\ (\A g \in FactFields \cup {"opps"} : g # f => b[g] = a[g]) /\
          b = [g \in FactFields \cup {"opps"} |-> b[g]]
  BY <1>1
<1> HIDE DEF b
<1>3. b.opps = a.opps
  BY <1>2, Fields
<1>4. \A g \in FactFields : b[g] \in FactType(g) /\ (g \in Ages => InTime(b[g], k))
  BY <1>2 DEF IsAccount
<1> QED
  BY <1>2, <1>3, <1>4 DEF IsAccount, b

(* A view stays a view when one field of an opportunity changes.           *)
LEMMA EditedOpp ==
  ASSUME NEW a, NEW k, IsAccount(a, k), NEW o \in Opps, NEW f \in OppFields, NEW v \in OppType(f), f = "due"
           => v <= Never
  PROVE  IsAccount([a EXCEPT !.opps[o][f] = v], k)
<1> DEFINE b == [a EXCEPT !.opps[o][f] = v]
<1>1. DOMAIN a = FactFields \cup {"opps"} /\ DOMAIN a.opps = Opps /\ \A p \in Opps : DOMAIN a.opps[p] = OppFields
  BY DEF IsAccount
<1>2. /\ \A g \in FactFields : b[g] = a[g]
      /\ b = [g \in FactFields \cup {"opps"} |-> b[g]]
  BY <1>1, Fields
<1>3. b.opps = [p \in Opps |-> IF p = o THEN [a.opps[o] EXCEPT ![f] = v] ELSE a.opps[p]]
  BY <1>1
<1> HIDE DEF b
<1>4. b.opps = [p \in Opps |-> [g \in OppFields |-> IF p = o /\ g = f THEN v ELSE a.opps[p][g]]]
  <2>1. \A p \in Opps : a.opps[p] = [g \in OppFields |-> a.opps[p][g]]
    BY DEF IsAccount
  <2>2. [a.opps[o] EXCEPT ![f] = v] = [g \in OppFields |-> IF g = f THEN v ELSE a.opps[o][g]]
    BY <1>1
  <2> QED
    BY <1>3, <2>1, <2>2
<1>5. \A p \in Opps : b.opps[p].due <= Never /\ \A g \in OppFields : b.opps[p][g] \in OppType(g)
  <2>1. "due" \in OppFields
    BY DEF OppFields, OppAmounts
  <2> QED
    BY <1>4, <2>1 DEF IsAccount
<1>6. b.opps = [p \in Opps |-> [g \in OppFields |-> b.opps[p][g]]]
  BY <1>4
<1> QED
  BY <1>2, <1>5, <1>6 DEF IsAccount, b

(* For any finite set of opportunities and any edits: the facts under      *)
(* review stay the facts of an account (RawAccount, parsed), with room for *)
(* the days that the remaining edits may let go by.                        *)
THEOREM AccountsAreTyped == RiskSpec => []RiskSorts
<1>1. RiskInit => RiskSorts
  <2> SUFFICES ASSUME RiskInit
               PROVE  RiskSorts
    OBVIOUS
  <2>1. IsAccount(facts, 30 * MaxEdits) /\ MaxEdits \in Nat /\ edits = 0 /\ was = facts
    BY RiskAssumption DEF RiskInit
  <2>2. IsAccount(was, 0)
    BY <2>1, Sooner
  <2>3. 30 * (MaxEdits - edits) = 30 * MaxEdits
    BY <2>1
  <2> QED
    BY <2>1, <2>2, <2>3 DEF RiskSorts
<1>2. RiskSorts /\ [RiskNext]_riskVars => RiskSorts'
  <2> SUFFICES ASSUME RiskSorts, [RiskNext]_riskVars
               PROVE  RiskSorts'
    OBVIOUS
  <2>1. CASE UNCHANGED riskVars
    BY <2>1 DEF RiskSorts, riskVars
  <2>2. CASE RiskNext
    <3> DEFINE k == 30 * (MaxEdits - edits)
               j == 30 * (MaxEdits - edits')
    <3>1. /\ edits \in Nat /\ MaxEdits \in Nat /\ edits' = edits + 1 /\ edits' \in 0..MaxEdits
          /\ IsAccount(facts, k) /\ IsAccount(was, 0)
      BY <2>2, RiskAssumption DEF RiskNext, RiskSorts
    <3>2. k \in Int /\ j \in Int /\ j + 30 <= k /\ 0 <= j /\ k <= 30 * MaxEdits
      BY <3>1
    <3>3. j = (30 * (MaxEdits - edits))'
      BY DEF j
    <3> HIDE DEF k, j
    <3>4. ASSUME NEW f \in DOMAIN facts \ {"opps"}, Edit(f)
          PROVE  IsAccount(facts', j) /\ IsAccount(was', 0)
      <4>1. f \in FactFields
        BY <3>1 DEF IsAccount
      <4>2. PICK v \in AccountValues(f) : facts' = [facts EXCEPT ![f] = v]
        BY <3>4 DEF Edit
      <4>3. v \in FactType(f) /\ (f \in Ages => InTime(v, 30 * MaxEdits))
        BY <4>1, RiskAssumption
      <4>4. f \in Ages => InTime(v, k)
        <5>1. f \in Ages => FactType(f) = Int
          BY DEF FactType
        <5> QED
          BY <3>1, <3>2, <4>3, <5>1 DEF InTime, Never
      <4>5. IsAccount(facts', k)
        BY <3>1, <4>1, <4>2, <4>3, <4>4, EditedAccount
      <4>6. j <= k
        BY <3>2
      <4> QED
        BY <3>1, <3>2, <3>4, <4>5, <4>6, Sooner DEF Edit
    <3>5. ASSUME NEW o \in Present(facts), NEW f \in DOMAIN facts.opps[o], EditOpp(o, f)
          PROVE  IsAccount(facts', j) /\ IsAccount(was', 0)
      <4>1. o \in Opps /\ f \in OppFields
        BY <3>1 DEF IsAccount, Present
      <4>2. PICK v \in OppValues(f) : facts' = [facts EXCEPT !.opps[o][f] = v]
        BY <3>5 DEF EditOpp
      <4>3. v \in OppType(f) /\ (f = "due" => v <= Never)
        BY <4>1, RiskAssumption
      <4>5. IsAccount(facts', k)
        BY <3>1, <4>1, <4>2, <4>3, EditedOpp
      <4>6. j <= k
        BY <3>2
      <4> QED
        BY <3>1, <3>2, <3>5, <4>5, <4>6, Sooner DEF EditOpp
    <3>6. ASSUME DaysPass
          PROVE  IsAccount(facts', j) /\ IsAccount(was', 0)
      <4>1. PICK n \in {1, 30} : facts' = Later(facts, n) /\ was' = was
        BY <3>6 DEF DaysPass
      <4>2. n \in Nat /\ j + n <= k
        BY <3>2
      <4>3. IsAccount(Later(facts, n), j)
        BY <3>1, <3>2, <4>2, LaterAccount
      <4> QED
        BY <3>1, <4>1, <4>3
    <3>7. ASSUME Refreshed
          PROVE  IsAccount(facts', j) /\ IsAccount(was', 0)
      <4>1. j <= k /\ 0 <= k /\ 0 \in Int
        BY <3>2
      <4>2. facts' = facts /\ was' = facts
        BY <3>7 DEF Refreshed
      <4>3. IsAccount(facts, j) /\ IsAccount(facts, 0)
        BY <3>1, <3>2, <4>1, Sooner
      <4> QED
        BY <4>2, <4>3
    <3>8. IsAccount(facts', j) /\ IsAccount(was', 0)
      BY <2>2, <3>4, <3>5, <3>6, <3>7 DEF RiskNext
    <3> QED
      BY <3>1, <3>3, <3>8 DEF RiskSorts
  <2> QED
    BY <2>1, <2>2
<1> QED
  BY <1>1, <1>2, PTL DEF RiskSpec

(* Division by a number keeps the order.                                   *)
LEMMA DivMono ==
  ASSUME NEW x \in Int, NEW y \in Int, NEW d \in Int, d > 0, x <= y
  PROVE  x \div d \in Int /\ y \div d \in Int /\ x \div d <= y \div d
<1>1. x \div d \in Int /\ y \div d \in Int
  OBVIOUS
<1>2. d * (x \div d) <= x
  OBVIOUS
<1>3. y < d * (y \div d) + d
  OBVIOUS
<1> QED
  BY <1>1, <1>2, <1>3

(* Two views that differ in one field; opportunities that do but for the   *)
(* notice of a churn.                                                      *)
SameBut(a, b, f) == \A g \in (FactFields \cup {"opps"}) \ {f} : b[g] = a[g]
OppsAlike(a, b) == \A o \in Opps : \A f \in OppFields \ {"notice"} : b.opps[o][f] = a.opps[o][f]

(* Views that an update of one field makes equal differ in that field      *)
(* only.                                                                   *)
LEMMA ExceptIs ==
  ASSUME NEW a, NEW k, IsAccount(a, k), NEW b, NEW f \in FactFields, [a EXCEPT ![f] = b[f]] = b
  PROVE  SameBut(a, b, f)
<1>1. DOMAIN a = FactFields \cup {"opps"}
  BY DEF IsAccount
<1>2. \A g \in DOMAIN a : g # f => [a EXCEPT ![f] = b[f]][g] = a[g]
  OBVIOUS
<1> QED
  BY <1>1, <1>2 DEF SameBut

(* A notice given on an opportunity changes nothing else of the view.      *)
LEMMA NoticeIs ==
  ASSUME NEW a, NEW k, IsAccount(a, k), NEW b, NEW o \in Present(a), b = [a EXCEPT !.opps[o].notice = TRUE]
  PROVE  SameBut(a, b, "opps") /\ OppsAlike(a, b) /\ b.opps[o].notice
<1>1. DOMAIN a = FactFields \cup {"opps"} /\ DOMAIN a.opps = Opps /\
          (\A p \in Opps : DOMAIN a.opps[p] = OppFields) /\ o \in Opps
  BY DEF IsAccount, Present
<1>2. b.opps = [p \in Opps |-> IF p = o THEN [a.opps[o] EXCEPT !.notice = TRUE] ELSE a.opps[p]]
  BY <1>1
<1>3. "notice" \in OppFields
  BY DEF OppFields, OppAnswers
<1>4. \A g \in FactFields : b[g] = a[g]
  BY <1>1, Fields
<1> QED
  BY <1>1, <1>2, <1>3, <1>4, Fields DEF SameBut, OppsAlike

(* The ways a view gets worse, each with what it leaves as it was: more    *)
(* flags, a graver category or sentiment, less use, a notice, or days gone *)
(* by.                                                                     *)
LEMMA WorseHow ==
  ASSUME NEW a, NEW k, IsAccount(a, k), NEW b, Worse(a, b)
  PROVE  \/ SameBut(a, b, "flags") /\ a.flags \subseteq b.flags
         \/ SameBut(a, b, "category") /\ a.category # "none" /\
              Place(Categories, a.category) < Place(Categories, b.category)
         \/ SameBut(a, b, "sentiment") /\ a.sentiment # "Confirmed Churn" /\
              Place(Sentiments, a.sentiment) < Place(Sentiments, b.sentiment)
         \/ SameBut(a, b, "minutes30") /\ b.minutes30 # None /\ b.minutes30 < a.minutes30
         \/ SameBut(a, b, "opps") /\ OppsAlike(a, b) /\ \E o \in Present(a) : b.opps[o].notice
         \/ \E n \in {1, 30} : b = Later(a, n) /\ \A o \in Present(a) : a.opps[o].due > n \/ a.opps[o].due < 0
<1>1. {"flags", "category", "sentiment", "minutes30"} \subseteq FactFields
  BY Fields
<1>2. \A f \in FactFields : [a EXCEPT ![f] = b[f]] = b => SameBut(a, b, f)
  BY ExceptIs
<1>3. \A o \in Present(a) : b = [a EXCEPT !.opps[o].notice = TRUE] => SameBut(a, b, "opps") /\ OppsAlike(a, b) /\
          b.opps[o].notice
  BY NoticeIs
<1>4. /\ [a EXCEPT !["flags"] = b["flags"]] = b => SameBut(a, b, "flags")
      /\ [a EXCEPT !["category"] = b["category"]] = b => SameBut(a, b, "category")
      /\ [a EXCEPT !["sentiment"] = b["sentiment"]] = b => SameBut(a, b, "sentiment")
      /\ [a EXCEPT !["minutes30"] = b["minutes30"]] = b => SameBut(a, b, "minutes30")
  BY <1>1, <1>2
<1> QED
  BY <1>3, <1>4 DEF Worse

(* What the fields that stay give.                                         *)
LEMMA FactsStay ==
  ASSUME NEW a, NEW b, NEW f, SameBut(a, b, f)
  PROVE  /\ f # "commentary" => b.commentary = a.commentary
         /\ f # "sentimentAge" => b.sentimentAge = a.sentimentAge
         /\ f # "meeting" => b.meeting = a.meeting
         /\ f # "workshop" => b.workshop = a.workshop
         /\ f # "updated" => b.updated = a.updated
         /\ f # "cerebroAge" => b.cerebroAge = a.cerebroAge
         /\ f # "asOf" => b.asOf = a.asOf
         /\ f # "docAge" => b.docAge = a.docAge
         /\ f # "minutes30" => b.minutes30 = a.minutes30
         /\ f # "minutes90" => b.minutes90 = a.minutes90
         /\ f # "pbu" => b.pbu = a.pbu
         /\ f # "exec" => b.exec = a.exec
         /\ f # "products" => b.products = a.products
         /\ f # "arr" => b.arr = a.arr
         /\ f # "live" => b.live = a.live
         /\ f # "plans" => b.plans = a.plans
         /\ f # "found" => b.found = a.found
         /\ f # "answers" => b.answers = a.answers
         /\ f # "cse" => b.cse = a.cse
         /\ f # "slack" => b.slack = a.slack
         /\ f # "glean" => b.glean = a.glean
         /\ f # "churnReason" => b.churnReason = a.churnReason
         /\ f # "overage" => b.overage = a.overage
         /\ f # "category" => b.category = a.category
         /\ f # "flags" => b.flags = a.flags
         /\ f # "sentiment" => b.sentiment = a.sentiment
         /\ f # "text" => b.text = a.text
         /\ f # "task" => b.task = a.task
         /\ f # "errors" => b.errors = a.errors
         /\ f # "status" => b.status = a.status
         /\ f # "opps" => b.opps = a.opps
BY Fields DEF SameBut

(* What n days do to a view: its ages grow, its dates come nearer, and all *)
(* else stays.                                                             *)
LEMMA LaterFields ==
  ASSUME NEW a, NEW k, IsAccount(a, k), NEW n \in Nat, NEW b, b = Later(a, n)
  PROVE  /\ b.commentary = Older(a.commentary, n) /\ b.sentimentAge = Older(a.sentimentAge, n) /\
           b.meeting = Older(a.meeting, n)
         /\ b.workshop = Older(a.workshop, n) /\ b.updated = Older(a.updated, n) /\
              b.cerebroAge = Older(a.cerebroAge, n)
         /\ b.asOf = Older(a.asOf, n) /\ b.docAge = Older(a.docAge, n)
         /\ b.minutes30 = a.minutes30 /\ b.minutes90 = a.minutes90 /\ b.pbu = a.pbu /\ b.exec = a.exec /\
              b.products = a.products
         /\ b.arr = a.arr /\ b.live = a.live /\ b.plans = a.plans /\ b.found = a.found /\ b.answers = a.answers
         /\ b.cse = a.cse /\ b.slack = a.slack /\ b.glean = a.glean /\ b.churnReason = a.churnReason /\
              b.overage = a.overage
         /\ b.category = a.category /\ b.flags = a.flags /\ b.sentiment = a.sentiment /\ b.text = a.text /\
              b.task = a.task
         /\ b.errors = a.errors /\ b.status = a.status
         /\ \A o \in Opps : /\ b.opps[o].due = a.opps[o].due - n
                            /\ \A f \in OppFields \ {"due"} : b.opps[o][f] = a.opps[o][f]
<1>1. /\ \A f \in Ages : b[f] = Older(a[f], n)
      /\ \A f \in FactFields \ Ages : b[f] = a[f]
      /\ b.opps = [o \in Opps |-> [f \in OppFields |-> IF f = "due" THEN a.opps[o].due - n ELSE a.opps[o][f]]]
  BY LaterIs
<1>2. {"minutes30", "minutes90", "pbu", "exec", "products", "arr", "live", "plans", "found", "answers", "cse",
          "slack", "glean",
       "churnReason", "overage", "category", "flags", "sentiment", "text", "task", "errors",
           "status"} \subseteq FactFields \ Ages
  BY Fields DEF Ages
<1>3. "due" \in OppFields
  BY DEF OppFields, OppAmounts
<1>4. {"commentary", "sentimentAge", "meeting", "workshop", "updated", "cerebroAge", "asOf", "docAge"} \subseteq Ages
  BY DEF Ages
<1> HIDE DEF Later
<1>5. /\ b.commentary = Older(a.commentary, n) /\ b.sentimentAge = Older(a.sentimentAge, n) /\
           b.meeting = Older(a.meeting, n)
      /\ b.workshop = Older(a.workshop, n) /\ b.updated = Older(a.updated, n) /\ b.cerebroAge = Older(a.cerebroAge, n)
      /\ b.asOf = Older(a.asOf, n) /\ b.docAge = Older(a.docAge, n)
  BY <1>1, <1>4
<1>6. /\ b.minutes30 = a.minutes30 /\ b.minutes90 = a.minutes90 /\ b.pbu = a.pbu /\ b.exec = a.exec /\
           b.products = a.products
      /\ b.arr = a.arr /\ b.live = a.live /\ b.plans = a.plans /\ b.found = a.found /\ b.answers = a.answers
      /\ b.cse = a.cse /\ b.slack = a.slack /\ b.glean = a.glean /\ b.churnReason = a.churnReason /\
           b.overage = a.overage
      /\ b.category = a.category /\ b.flags = a.flags /\ b.sentiment = a.sentiment /\ b.text = a.text /\
           b.task = a.task
      /\ b.errors = a.errors /\ b.status = a.status
  BY <1>1, <1>2
<1>7. \A o \in Opps : /\ b.opps[o].due = a.opps[o].due - n
                      /\ \A f \in OppFields \ {"due"} : b.opps[o][f] = a.opps[o][f]
  BY <1>1, <1>3
<1> QED
  BY <1>5, <1>6, <1>7

(* The sets of opportunities.                                              *)
LEMMA OppsStay ==
  ASSUME NEW a, NEW b, \A o \in Opps : b.opps[o].type = a.opps[o].type
  PROVE  Present(b) = Present(a) /\ Renewals(b) = Renewals(a) /\ Dated(b) = Dated(a) /\
           Dated(a) \subseteq Present(a) /\ Present(a) \subseteq Opps
BY DEF Present, Renewals, Dated

-----------------------------------------------------------------------------
(* The risk score: its parts, and what each way of getting worse does to   *)
(* them.                                                                   *)

(* What the score is made of: whole numbers.                               *)
LEMMA RisksFinite ==
  ASSUME NEW a, NEW k, IsAccount(a, k)
  PROVE  IsFiniteSet(a.flags) /\ Cardinality(a.flags) \in Nat
<1>1. IsFiniteSet(Risks)
  <2>1. Risks = {"utilization"} \cup {"engagement"} \cup {"suite"} \cup {"share"} \cup {"legacyTech"} \cup {"expertise"} \cup {"pricing"}
    BY DEF Risks
  <2>2. \A x : IsFiniteSet({x})
    BY FS_Singleton
  <2>3. IsFiniteSet({"utilization"} \cup {"engagement"} \cup {"suite"})
    BY <2>2, FS_Union
  <2>4. IsFiniteSet(({"utilization"} \cup {"engagement"} \cup {"suite"}) \cup {"share"} \cup {"legacyTech"})
    BY <2>2, <2>3, FS_Union
  <2> QED
    BY <2>1, <2>2, <2>4, FS_Union
<1>2. a.flags \in SUBSET Risks
  BY SetsAre
<1> QED
  BY <1>1, <1>2, FS_Subset, FS_CardinalityType

(* Any set of opportunities is finite.                                     *)
LEMMA OppsFinite ==
  \A S \in SUBSET Opps : IsFiniteSet(S)
BY RiskAssumption, FS_Subset

(* The soonest of some days, which is there.                               *)
LEMMA SoonestIs ==
  ASSUME NEW days \in [Opps -> Int], NEW S \in SUBSET Opps, S # {}
  PROVE  LET D == {days[o] : o \in S}
         IN  Min(D) \in D /\ Min(D) \in Int /\ \A o \in S : Min(D) <= days[o]
<1> DEFINE D == {days[o] : o \in S}
           back == [o \in Opps |-> -days[o]]
<1>1. back \in [Opps -> Int] /\ IsFiniteSet(Opps) /\ Opps \subseteq Nat
  BY RiskAssumption
<1>2. \A T \in SUBSET Opps : T # {} => \E l \in T : \A e \in T : e # l => Precedes(back, l, e)
  <2> HIDE DEF back
  <2> QED
    BY <1>1, FirstExists
<1>3. PICK l \in S : \A e \in S : e # l => Precedes(back, l, e)
  BY <1>2
<1>4. \A e \in S : days[l] <= days[e]
  <2>1. \A x \in Opps : back[x] = -days[x] /\ days[x] \in Int
    OBVIOUS
  <2>2. \A e \in S : e # l => -days[l] >= -days[e]
    <3> HIDE DEF back
    <3>1. \A e \in S : e # l => back[l] >= back[e]
      <4>1. \A e \in S : back[e] \in Int
        BY <1>1
      <4> QED
        BY <1>3, <4>1 DEF Precedes
    <3> QED
      BY <2>1, <3>1
  <2> QED
    BY <2>1, <2>2
<1>5. D \subseteq Int /\ days[l] \in D /\ \A y \in D : days[l] <= y
  BY <1>4
<1>6. Min(D) = days[l]
  <2> HIDE DEF D
  <2> QED
    BY <1>5, LeastIs
<1> QED
  BY <1>4, <1>5, <1>6

(* The points for a stale commentary, spelled out.                         *)
LEMMA StaleIs ==
  ASSUME NEW a, NEW k, IsAccount(a, k)
  PROVE  /\ StalePoints(a) \in 0..10
         /\ StalePoints(a) =
              IF a.commentary = Never \/ a.commentary <= SLA(a) THEN 0
              ELSE IF (a.commentary - SLA(a)) \div 7 >= 8 THEN 10 ELSE (a.commentary - SLA(a)) \div 7 + 2
<1>1. a.commentary \in Int /\ SLA(a) \in {14, 30}
  BY AgesAre DEF SLA
<1>2. CASE a.commentary = Never \/ a.commentary <= SLA(a)
  BY <1>2 DEF StalePoints
<1>3. CASE ~(a.commentary = Never \/ a.commentary <= SLA(a))
  <2> DEFINE weeks == (a.commentary - SLA(a)) \div 7
  <2>1. weeks \in Int /\ weeks >= 0
    BY <1>1, <1>3
  <2>2. StalePoints(a) = Between(2, weeks + 2, 10)
    BY <1>3 DEF StalePoints
  <2> HIDE DEF weeks
  <2>3. Between(2, weeks + 2, 10) = IF weeks + 2 <= 2 THEN 2 ELSE IF weeks + 2 >= 10 THEN 10 ELSE weeks + 2
    BY <2>1, BetweenIs
  <2>4. StalePoints(a) = IF weeks >= 8 THEN 10 ELSE weeks + 2
    BY <2>1, <2>2, <2>3
  <2>5. StalePoints(a) \in 0..10
    BY <2>1, <2>4
  <2> QED
    BY <1>3, <2>4, <2>5 DEF weeks
<1> QED
  BY <1>2, <1>3

Decay(m30, m90) ==
  IF m30 = None \/ m90 <= 0 \/ 6 * m30 >= m90 THEN 0
  ELSE Max({0, (2 * (10 * m90 - 60 * m30) + m90) \div (2 * m90)})

(* The points for falling use are a number that is not negative.           *)
LEMMA DecayIs ==
  ASSUME NEW m30 \in Int, NEW m90 \in Int
  PROVE  Decay(m30, m90) \in Int /\ Decay(m30, m90) >= 0
<1>1. CASE ~(m30 = None \/ m90 <= 0 \/ 6 * m30 >= m90)
  <2> DEFINE x == 2 * (10 * m90 - 60 * m30) + m90
             d == 2 * m90
  <2>1. x \in Int /\ d \in Int /\ d > 0
    BY <1>1
  <2>2. Decay(m30, m90) = Max({0, x \div d})
    BY <1>1 DEF Decay
  <2> HIDE DEF x, d
  <2>3. x \div d \in Int
    BY <2>1
  <2> QED
    BY <2>2, <2>3, OfTwo
<1> QED
  BY <1>1 DEF Decay

(* Less use in the last 30 days never costs fewer points.                  *)
LEMMA DecayMono ==
  ASSUME NEW m \in Int, NEW p \in Int, NEW m90 \in Int, p < m, p # None
  PROVE  Decay(p, m90) >= Decay(m, m90)
<1>1. Decay(p, m90) \in Int /\ Decay(p, m90) >= 0 /\ Decay(m, m90) \in Int
  BY DecayIs
<1>2. CASE m = None \/ m90 <= 0 \/ 6 * m >= m90
  BY <1>1, <1>2 DEF Decay
<1>3. CASE ~(m = None \/ m90 <= 0 \/ 6 * m >= m90)
  <2> DEFINE x == 2 * (10 * m90 - 60 * m) + m90
             y == 2 * (10 * m90 - 60 * p) + m90
             d == 2 * m90
  <2>1. x \in Int /\ y \in Int /\ d \in Int /\ d > 0 /\ x <= y
    BY <1>3
  <2>2. Decay(m, m90) = Max({0, x \div d}) /\ Decay(p, m90) = Max({0, y \div d})
    BY <1>3 DEF Decay
  <2> HIDE DEF x, y, d
  <2>3. x \div d \in Int /\ y \div d \in Int /\ x \div d <= y \div d
    BY <2>1, DivMono
  <2>4. Max({0, x \div d}) = (IF 0 >= x \div d THEN 0 ELSE x \div d) /\
            Max({0, y \div d}) = (IF 0 >= y \div d THEN 0 ELSE y \div d)
    BY <2>3, OfTwo
  <2> QED
    BY <2>2, <2>3, <2>4
<1> QED
  BY <1>2, <1>3

Grades(a) == Place(Categories, a.category) \in 0..3 /\ Place(Sentiments, a.sentiment) \in 0..3

(* A view has a place among the categories and among the sentiments.       *)
LEMMA GradesAre ==
  ASSUME NEW a, NEW k, IsAccount(a, k)
  PROVE  Grades(a)
<1>1. Place(Categories, a.category) \in 0..3
  <2>1. a.category \in {"none", "Low", "Medium", "High", "Critical"}
    BY SetsAre
  <2>2. \A x : Place(Categories, x) \in {0, 1, 2, 3} => Place(Categories, x) \in 0..3
    OBVIOUS
  <2> QED
    BY <2>1, <2>2, CategoryPlaces
<1>2. Place(Sentiments, a.sentiment) \in 0..3
  <2>1. a.sentiment \in {"none", "Green", "Yellow", "Red", "Confirmed Churn"}
    BY SetsAre
  <2>2. \A x : Place(Sentiments, x) \in {0, 1, 2, 3} => Place(Sentiments, x) \in 0..3
    OBVIOUS
  <2>3. a.sentiment = "none" \/ a.sentiment = "Green" \/ a.sentiment = "Yellow" \/ a.sentiment = "Red" \/
            a.sentiment = "Confirmed Churn"
    BY <2>1
  <2>4. Place(Sentiments, a.sentiment) \in {0, 1, 2, 3}
    BY <2>3, SentimentPlaces
  <2> QED
    BY <2>2, <2>4
<1> QED
  BY <1>1, <1>2 DEF Grades

Move(c, s, w) == 3 * (c - Place(Categories, w.category)) + 3 * (s - Place(Sentiments, w.sentiment))

(* The points for the move of category and sentiment since the last view.  *)
LEMMA MoveIs ==
  ASSUME NEW a, Grades(a), NEW w, Grades(w)
  PROVE  LET m == Move(Place(Categories, a.category), Place(Sentiments, a.sentiment), w)
         IN  m \in Int /\ MovePoints(a, w) = IF m <= -10 THEN -10 ELSE IF m >= 10 THEN 10 ELSE m
<1> DEFINE m == Move(Place(Categories, a.category), Place(Sentiments, a.sentiment), w)
<1>1. m \in Int /\ MovePoints(a, w) = Between(-10, m, 10)
  BY DEF Grades, Move, MovePoints
<1> HIDE DEF m
<1>2. Between(-10, m, 10) = IF m <= -10 THEN -10 ELSE IF m >= 10 THEN 10 ELSE m
  BY <1>1, BetweenIs
<1> QED
  BY <1>1, <1>2 DEF m

AheadDays(a) == {DaysUntil(a, o) : o \in {x \in Dated(a) : DaysUntil(a, x) >= 0}}

(* The points for a renewal that is near.                                  *)
LEMMA ProximityIs ==
  ASSUME NEW a, NEW k, IsAccount(a, k)
  PROVE  /\ ProximityPoints(a) =
              (IF AheadDays(a) = {} \/ Min(AheadDays(a)) > 90 THEN 0
               ELSE IF Min(AheadDays(a)) <= 30 THEN 10 ELSE IF Min(AheadDays(a)) <= 60 THEN 6 ELSE 3)
         /\ ProximityPoints(a) \in {0, 3, 6, 10}
<1>1. ProximityPoints(a) =
              (IF AheadDays(a) = {} \/ Min(AheadDays(a)) > 90 THEN 0
               ELSE IF Min(AheadDays(a)) <= 30 THEN 10 ELSE IF Min(AheadDays(a)) <= 60 THEN 6 ELSE 3)
  BY DEF ProximityPoints, AheadDays
<1> QED
  BY <1>1

Points(a, w) ==
  CategoryPoints(a) + FlagPoints(a) + SentimentPoints(a) + StalePoints(a)
    + DecayPoints(a) + MovePoints(a, w) + ProximityPoints(a) + NoticePoints(a)

(* The points for flags: two each, fourteen at most.                       *)
LEMMA FlagPointsAre ==
  ASSUME NEW a, NEW k, IsAccount(a, k)
  PROVE  FlagPoints(a) = (IF Cardinality(a.flags) >= 7 THEN 14 ELSE 2 * Cardinality(a.flags)) /\
           FlagPoints(a) \in 0..14
<1> DEFINE n == Cardinality(a.flags)
<1>1. n \in Nat
  BY RisksFinite
<1>2. FlagPoints(a) = Min({14, 2 * n})
  BY DEF FlagPoints
<1> HIDE DEF n
<1>3. Min({14, 2 * n}) = IF 14 <= 2 * n THEN 14 ELSE 2 * n
  <2>1. 14 \in Int /\ 2 * n \in Int
    BY <1>1
  <2>2. \A x \in Int, y \in Int : Min({x, y}) = IF x <= y THEN x ELSE y
    BY OfTwo
  <2> QED
    BY <2>1, <2>2
<1>4. FlagPoints(a) = (IF n >= 7 THEN 14 ELSE 2 * n) /\ FlagPoints(a) \in 0..14
  BY <1>1, <1>2, <1>3
<1> QED
  BY <1>4 DEF n

(* Every part of the score is a number, and the score is their sum,        *)
(* clamped.                                                                *)
LEMMA PartsAre ==
  ASSUME NEW a, NEW k, IsAccount(a, k), NEW w, IsAccount(w, 0)
  PROVE  /\ CategoryPoints(a) \in Int /\ FlagPoints(a) \in Int /\ SentimentPoints(a) \in Int /\ StalePoints(a) \in Int
         /\ DecayPoints(a) \in Int /\ MovePoints(a, w) \in Int /\ ProximityPoints(a) \in Int /\
              NoticePoints(a) \in Int
         /\ Points(a, w) \in Int
         /\ RiskScore(a, w) = IF Points(a, w) <= 0 THEN 0 ELSE IF Points(a, w) >= 100 THEN 100 ELSE Points(a, w)
<1>1. CategoryPoints(a) \in Int /\ SentimentPoints(a) \in Int /\ NoticePoints(a) \in Int
  BY DEF CategoryPoints, SentimentPoints, NoticePoints
<1>2. FlagPoints(a) \in Int /\ StalePoints(a) \in Int
  BY FlagPointsAre, StaleIs
<1>3. DecayPoints(a) \in Int
  <2>1. DecayPoints(a) = Decay(a.minutes30, a.minutes90)
    BY DEF Decay, DecayPoints
  <2> QED
    BY <2>1, CountsAre, DecayIs
<1>4. MovePoints(a, w) \in Int
  BY MoveIs, GradesAre
<1>5. ProximityPoints(a) \in Int
  BY ProximityIs
<1>6. Points(a, w) \in Int
  BY <1>1, <1>2, <1>3, <1>4, <1>5 DEF Points
<1>7. RiskScore(a, w) = Between(0, Points(a, w), 100)
  BY DEF RiskScore, Points
<1>8. Between(0, Points(a, w), 100) = IF Points(a, w) <= 0 THEN 0 ELSE IF Points(a, w) >= 100 THEN 100 ELSE Points(a,
          w)
  BY <1>6, BetweenIs
<1> QED
  BY <1>1, <1>2, <1>3, <1>4, <1>5, <1>6, <1>7, <1>8

(* Commentary that is older, or whose term is shorter, counts as much.     *)
Stale(c, term) ==
  IF c = Never \/ c <= term THEN 0 ELSE IF (c - term) \div 7 >= 8 THEN 10 ELSE (c - term) \div 7 + 2

(* An older commentary under a shorter term costs no fewer points.         *)
LEMMA StaleMono ==
  ASSUME NEW c \in Int, NEW d \in Int, NEW s \in Int, NEW t \in Int, c <= d, t <= s, c # Never, d # Never
  PROVE  Stale(c, s) <= Stale(d, t)
<1> DEFINE x == (c - s) \div 7
           y == (d - t) \div 7
<1>1. x \in Int /\ y \in Int /\ x <= y
  <2>1. c - s \in Int /\ d - t \in Int /\ c - s <= d - t
    OBVIOUS
  <2>2. \A p \in Int, q \in Int : p <= q => p \div 7 \in Int /\ q \div 7 \in Int /\ p \div 7 <= q \div 7
    BY DivMono
  <2> QED
    BY <2>1, <2>2
<1>2. d > t => y >= 0
  OBVIOUS
<1>3. /\ Stale(c, s) = IF c <= s THEN 0 ELSE IF x >= 8 THEN 10 ELSE x + 2
      /\ Stale(d, t) = IF d <= t THEN 0 ELSE IF y >= 8 THEN 10 ELSE y + 2
  BY DEF Stale
<1> HIDE DEF x, y
<1> QED
  BY <1>1, <1>2, <1>3

(* The longer term takes no more than four points.                         *)
LEMMA StaleDrop ==
  ASSUME NEW c \in Int
  PROVE  Stale(c, 14) <= Stale(c, 30) + 4
<1>1. CASE c = Never \/ c <= 14
  BY <1>1 DEF Stale, Never
<1>2. CASE c # Never /\ c > 14
  <2> DEFINE x == (c - 14) \div 7
             y == (c - 30) \div 7
  <2>1. x \in Int /\ y \in Int /\ x <= y + 3 /\ (c <= 30 => x <= 2) /\ (c > 30 => y >= 0)
    <3>1. 7 * x <= c - 14 /\ c - 30 < 7 * y + 7 /\ 7 * y <= c - 30 /\ x \in Int /\ y \in Int
      OBVIOUS
    <3>2. c > 30 => y >= 0
      OBVIOUS
    <3> HIDE DEF x, y
    <3> QED
      BY <3>1, <3>2
  <2>2. /\ Stale(c, 14) = IF x >= 8 THEN 10 ELSE x + 2
        /\ Stale(c, 30) = IF c <= 30 THEN 0 ELSE IF y >= 8 THEN 10 ELSE y + 2
    BY <1>2 DEF Stale
  <2> HIDE DEF x, y
  <2> QED
    BY <2>1, <2>2
<1> QED
  BY <1>1, <1>2

(* The stale points of a view, by its commentary and its term.             *)
LEMMA StaleOf ==
  ASSUME NEW a, NEW k, IsAccount(a, k)
  PROVE  StalePoints(a) = Stale(a.commentary, SLA(a)) /\ a.commentary \in Int /\
           SLA(a) = (IF Worried(a) THEN 14 ELSE 30)
BY StaleIs, AgesAre DEF Stale, SLA

(* What a part of the score looks at.                                      *)
LEMMA PartsStay ==
  ASSUME NEW a, NEW b
  PROVE  /\ b.category = a.category => CategoryPoints(b) = CategoryPoints(a)
         /\ b.flags = a.flags => FlagPoints(b) = FlagPoints(a)
         /\ b.sentiment = a.sentiment => SentimentPoints(b) = SentimentPoints(a)
         /\ b.sentiment = a.sentiment /\ b.commentary = a.commentary => StalePoints(b) = StalePoints(a)
         /\ b.minutes30 = a.minutes30 /\ b.minutes90 = a.minutes90 => DecayPoints(b) = DecayPoints(a)
         /\ b.category = a.category /\ b.sentiment = a.sentiment => \A w : MovePoints(b, w) = MovePoints(a, w)
         /\ b.opps = a.opps => NoticePoints(b) = NoticePoints(a)
<1>1. b.category = a.category => CategoryPoints(b) = CategoryPoints(a)
  BY DEF CategoryPoints
<1>2. b.flags = a.flags => FlagPoints(b) = FlagPoints(a)
  BY DEF FlagPoints
<1>3. b.sentiment = a.sentiment => SentimentPoints(b) = SentimentPoints(a)
  BY DEF SentimentPoints
<1>4. b.sentiment = a.sentiment /\ b.commentary = a.commentary => StalePoints(b) = StalePoints(a)
  BY DEF StalePoints, SLA, Worried
<1>5. b.minutes30 = a.minutes30 /\ b.minutes90 = a.minutes90 => DecayPoints(b) = DecayPoints(a)
  BY DEF DecayPoints
<1>6. b.category = a.category /\ b.sentiment = a.sentiment => \A w : MovePoints(b, w) = MovePoints(a, w)
  BY DEF MovePoints
<1>7. b.opps = a.opps => NoticePoints(b) = NoticePoints(a)
  BY DEF NoticePoints, Noticed, Present
<1> QED
  BY <1>1, <1>2, <1>3, <1>4, <1>5, <1>6, <1>7

(* Views whose opportunities differ in notices alone have the same         *)
(* renewals, dates and proximity.                                          *)
LEMMA AlikeStays ==
  ASSUME NEW a, NEW b, OppsAlike(a, b)
  PROVE  /\ Present(b) = Present(a) /\ Renewals(b) = Renewals(a) /\ Dated(b) = Dated(a)
         /\ \A o \in Opps : DaysUntil(b, o) = DaysUntil(a, o)
         /\ ProximityPoints(b) = ProximityPoints(a) /\ DaysToRenewal(b) = DaysToRenewal(a)
<1>1. \A o \in Opps : b.opps[o].type = a.opps[o].type /\ b.opps[o].due = a.opps[o].due
  BY DEF OppsAlike, OppFields, OppAmounts, OppAnswers
<1>2. Present(b) = Present(a) /\ Renewals(b) = Renewals(a) /\ Dated(b) = Dated(a) /\ Dated(a) \subseteq Opps
  BY <1>1, OppsStay
<1>3. \A o \in Opps : DaysUntil(b, o) = DaysUntil(a, o)
  BY <1>1 DEF DaysUntil
<1>4. {DaysUntil(b, o) : o \in {x \in Dated(b) : DaysUntil(b, x) >= 0}} = {DaysUntil(a,
          o) : o \in {x \in Dated(a) : DaysUntil(a, x) >= 0}}
  BY <1>2, <1>3
<1>5. {DaysUntil(b, o) : o \in Dated(b)} = {DaysUntil(a, o) : o \in Dated(a)}
  BY <1>2, <1>3
<1>6. ProximityPoints(b) = ProximityPoints(a)
  BY <1>4 DEF ProximityPoints
<1>7. DaysToRenewal(b) = DaysToRenewal(a)
  BY <1>2, <1>5 DEF DaysToRenewal
<1> QED
  BY <1>2, <1>3, <1>6, <1>7

(* The same opportunities differ in nothing.                               *)
LEMMA SameOppsAlike ==
  ASSUME NEW a, NEW b, b.opps = a.opps
  PROVE  OppsAlike(a, b)
BY DEF OppsAlike

(* The movement is no smaller when a grade is higher.                      *)
Clamped(x) == IF x <= -10 THEN -10 ELSE IF x >= 10 THEN 10 ELSE x

(* A graver category and sentiment never lower the points for the move.    *)
LEMMA MoveMono ==
  ASSUME NEW a, Grades(a), NEW b, Grades(b), NEW w, Grades(w),
         Place(Categories, a.category) <= Place(Categories, b.category),
             Place(Sentiments, a.sentiment) <= Place(Sentiments, b.sentiment)
  PROVE  MovePoints(a, w) <= MovePoints(b, w)
<1> DEFINE m == Move(Place(Categories, a.category), Place(Sentiments, a.sentiment), w)
           n == Move(Place(Categories, b.category), Place(Sentiments, b.sentiment), w)
<1>1. m \in Int /\ n \in Int /\ m <= n
  <2>1. /\ Place(Categories, a.category) \in Int /\ Place(Sentiments, a.sentiment) \in Int
        /\ Place(Categories, b.category) \in Int /\ Place(Sentiments, b.sentiment) \in Int
        /\ Place(Categories, w.category) \in Int /\ Place(Sentiments, w.sentiment) \in Int
    BY DEF Grades
  <2>2. \A c, s, d, t, u, v \in Int : c <= d /\ s <= t =>
          /\ 3 * (c - u) + 3 * (s - v) \in Int /\ 3 * (d - u) + 3 * (t - v) \in Int
          /\ 3 * (c - u) + 3 * (s - v) <= 3 * (d - u) + 3 * (t - v)
    OBVIOUS
  <2> QED
    BY <2>1, <2>2 DEF Move
<1>2. MovePoints(a, w) = Clamped(m) /\ MovePoints(b, w) = Clamped(n)
  BY MoveIs DEF Clamped
<1>3. \A x, y \in Int : x <= y => Clamped(x) <= Clamped(y)
  BY DEF Clamped
<1> HIDE DEF m, n
<1> QED
  BY <1>1, <1>2, <1>3

(* The points of a grade by its place.                                     *)
LEMMA GradePoints ==
  ASSUME NEW a, NEW k, IsAccount(a, k)
  PROVE  /\ LET p == Place(Categories, a.category)
            IN  p \in 0..3 /\ CategoryPoints(a) = IF p = 3 THEN 25 ELSE IF p = 2 THEN 18 ELSE IF p = 1 THEN 10 ELSE 0
         /\ LET p == Place(Sentiments, a.sentiment)
            IN  /\ p \in 0..3 /\ SentimentPoints(a) = (IF p = 3 THEN 20 ELSE IF p = 2 THEN 12 ELSE IF p = 1 THEN 6 ELSE 0)
                /\ Worried(a) <=> (p = 1 \/ p = 2)
<1>1. Grades(a)
  BY GradesAre
<1>2. /\ a.category = "none" \/ a.category = "Low" \/ a.category = "Medium" \/ a.category = "High" \/
           a.category = "Critical"
      /\ a.sentiment = "none" \/ a.sentiment = "Green" \/ a.sentiment = "Yellow" \/ a.sentiment = "Red" \/
           a.sentiment = "Confirmed Churn"
  BY SetsAre
<1> DEFINE p == Place(Categories, a.category)
           q == Place(Sentiments, a.sentiment)
<1>3. CategoryPoints(a) = IF p = 3 THEN 25 ELSE IF p = 2 THEN 18 ELSE IF p = 1 THEN 10 ELSE 0
  <2>1. CASE a.category = "none"
    <3>1. p = 0
      BY <2>1, CategoryPlaces
    <3> QED
      BY <2>1, <3>1 DEF CategoryPoints
  <2>2. CASE a.category = "Low"
    <3>1. p = 0
      BY <2>2, CategoryPlaces
    <3> QED
      BY <2>2, <3>1 DEF CategoryPoints
  <2>3. CASE a.category = "Medium"
    <3>1. p = 1
      BY <2>3, CategoryPlaces
    <3> QED
      BY <2>3, <3>1 DEF CategoryPoints
  <2>4. CASE a.category = "High"
    <3>1. p = 2
      BY <2>4, CategoryPlaces
    <3> QED
      BY <2>4, <3>1 DEF CategoryPoints
  <2>5. CASE a.category = "Critical"
    <3>1. p = 3
      BY <2>5, CategoryPlaces
    <3> QED
      BY <2>5, <3>1 DEF CategoryPoints
  <2> QED
    BY <1>2, <2>1, <2>2, <2>3, <2>4, <2>5
<1>4. SentimentPoints(a) = IF q = 3 THEN 20 ELSE IF q = 2 THEN 12 ELSE IF q = 1 THEN 6 ELSE 0
  <2>1. CASE a.sentiment = "none"
    <3>1. q = 0
      BY <2>1, SentimentPlaces
    <3> QED
      BY <2>1, <3>1 DEF SentimentPoints
  <2>2. CASE a.sentiment = "Green"
    <3>1. q = 0
      BY <2>2, SentimentPlaces
    <3> QED
      BY <2>2, <3>1 DEF SentimentPoints
  <2>3. CASE a.sentiment = "Yellow"
    <3>1. q = 1
      BY <2>3, SentimentPlaces
    <3> QED
      BY <2>3, <3>1 DEF SentimentPoints
  <2>4. CASE a.sentiment = "Red"
    <3>1. q = 2
      BY <2>4, SentimentPlaces
    <3> QED
      BY <2>4, <3>1 DEF SentimentPoints
  <2>5. CASE a.sentiment = "Confirmed Churn"
    <3>1. q = 3
      BY <2>5, SentimentPlaces
    <3> QED
      BY <2>5, <3>1 DEF SentimentPoints
  <2> QED
    BY <1>2, <2>1, <2>2, <2>3, <2>4, <2>5
<1>5. Worried(a) <=> (q = 1 \/ q = 2)
  <2>1. CASE a.sentiment = "none"
    <3>1. q = 0
      BY <2>1, SentimentPlaces
    <3> QED
      BY <2>1, <3>1 DEF Worried
  <2>2. CASE a.sentiment = "Green"
    <3>1. q = 0
      BY <2>2, SentimentPlaces
    <3> QED
      BY <2>2, <3>1 DEF Worried
  <2>3. CASE a.sentiment = "Yellow"
    <3>1. q = 1
      BY <2>3, SentimentPlaces
    <3> QED
      BY <2>3, <3>1 DEF Worried
  <2>4. CASE a.sentiment = "Red"
    <3>1. q = 2
      BY <2>4, SentimentPlaces
    <3> QED
      BY <2>4, <3>1 DEF Worried
  <2>5. CASE a.sentiment = "Confirmed Churn"
    <3>1. q = 3
      BY <2>5, SentimentPlaces
    <3>2. ~Worried(a)
      BY <2>5, Zenon DEF Worried
    <3> QED
      BY <3>1, <3>2
  <2> QED
    BY <1>2, <2>1, <2>2, <2>3, <2>4, <2>5
<1> QED
  BY <1>1, <1>3, <1>4, <1>5 DEF Grades

(* The nearer renewal counts as much.                                      *)
LEMMA ProximityMono ==
  ASSUME NEW a, NEW k \in Int, IsAccount(a, k), NEW n \in Nat, NEW b, b = Later(a, n),
         \A o \in Present(a) : a.opps[o].due > n \/ a.opps[o].due < 0
  PROVE  ProximityPoints(a) <= ProximityPoints(b)
<1>1. \A o \in Opps : b.opps[o].due = a.opps[o].due - n /\ b.opps[o].type = a.opps[o].type
  <2>1. "type" \in OppFields \ {"due"}
    BY DEF OppFields
  <2> HIDE DEF Later
  <2> QED
    BY <2>1, LaterFields
<1>2. Dated(b) = Dated(a) /\ Dated(a) \subseteq Present(a) /\ Present(a) \subseteq Opps
  BY <1>1, OppsStay
<1>3. \A o \in Opps : a.opps[o].due \in Int /\ DaysUntil(a, o) = a.opps[o].due - 1 /\
          DaysUntil(b, o) = a.opps[o].due - n - 1
  BY <1>1, OppsAre DEF DaysUntil
<1> DEFINE A == {x \in Dated(a) : DaysUntil(a, x) >= 0}
           B == {x \in Dated(b) : DaysUntil(b, x) >= 0}
           days == [o \in Opps |-> DaysUntil(a, o)]
           then == [o \in Opps |-> DaysUntil(b, o)]
<1>4. A = B
  BY <1>2, <1>3
<1>5. AheadDays(a) = {days[o] : o \in A} /\ AheadDays(b) = {then[o] : o \in A}
  <2>1. A \subseteq Opps
    BY <1>2
  <2>2. {DaysUntil(a, o) : o \in A} = {days[o] : o \in A}
    BY <2>1
  <2>3. {DaysUntil(b, o) : o \in A} = {then[o] : o \in A}
    BY <2>1
  <2> QED
    BY <1>4, <2>2, <2>3 DEF AheadDays
<1>6. days \in [Opps -> Int] /\ then \in [Opps -> Int] /\ A \in SUBSET Opps /\ \A o \in Opps : then[o] = days[o] - n
  BY <1>2, <1>3
<1> HIDE DEF A, B, days, then
<1>7. CASE A = {}
  <2>1. AheadDays(a) = {}
    BY <1>5, <1>7
  <2>2. ProximityPoints(a) = 0
    BY <2>1, ProximityIs
  <2>3. ProximityPoints(b) \in {0, 3, 6, 10}
    BY DEF ProximityPoints
  <2> QED
    BY <2>2, <2>3
<1>8. CASE A # {}
  <2> DEFINE p == Min(AheadDays(a))
             q == Min(AheadDays(b))
  <2>1. p \in {days[o] : o \in A} /\ p \in Int /\ \A o \in A : p <= days[o]
    BY <1>5, <1>6, <1>8, SoonestIs
  <2>2. q \in Int /\ \A o \in A : q <= then[o]
    BY <1>5, <1>6, <1>8, SoonestIs
  <2>3. PICK o \in A : p = days[o]
    BY <2>1
  <2>4. q <= p
    BY <1>6, <2>1, <2>2, <2>3
  <2>5. AheadDays(a) # {} /\ AheadDays(b) # {}
    BY <1>5, <1>8
  <2>6. /\ ProximityPoints(a) = IF p > 90 THEN 0 ELSE IF p <= 30 THEN 10 ELSE IF p <= 60 THEN 6 ELSE 3
        /\ ProximityPoints(b) = IF q > 90 THEN 0 ELSE IF q <= 30 THEN 10 ELSE IF q <= 60 THEN 6 ELSE 3
    BY <2>5 DEF ProximityPoints, AheadDays
  <2> HIDE DEF p, q
  <2> QED
    BY <2>1, <2>2, <2>4, <2>6
<1> QED
  BY <1>7, <1>8

(* What got worse gives the score no less, kind by kind.                   *)
PointsBelow(a, b, w) ==
  /\ CategoryPoints(a) <= CategoryPoints(b) /\ FlagPoints(a) <= FlagPoints(b)
  /\ SentimentPoints(a) + StalePoints(a) <= SentimentPoints(b) + StalePoints(b)
  /\ DecayPoints(a) <= DecayPoints(b) /\ MovePoints(a, w) <= MovePoints(b, w)
  /\ ProximityPoints(a) <= ProximityPoints(b) /\ NoticePoints(a) <= NoticePoints(b)

(* Part by part no fewer points make no lower score.                       *)
LEMMA BelowGives ==
  ASSUME NEW a, NEW k, IsAccount(a, k), NEW b, NEW j, IsAccount(b, j), NEW w, IsAccount(w, 0), PointsBelow(a, b, w)
  PROVE  RiskScore(a, w) <= RiskScore(b, w)
<1>1. /\ CategoryPoints(a) \in Int /\ FlagPoints(a) \in Int /\ SentimentPoints(a) \in Int /\ StalePoints(a) \in Int
      /\ DecayPoints(a) \in Int /\ MovePoints(a, w) \in Int /\ ProximityPoints(a) \in Int /\ NoticePoints(a) \in Int
      /\ Points(a, w) \in Int
      /\ RiskScore(a, w) = IF Points(a, w) <= 0 THEN 0 ELSE IF Points(a, w) >= 100 THEN 100 ELSE Points(a, w)
  BY PartsAre
<1>2. /\ CategoryPoints(b) \in Int /\ FlagPoints(b) \in Int /\ SentimentPoints(b) \in Int /\ StalePoints(b) \in Int
      /\ DecayPoints(b) \in Int /\ MovePoints(b, w) \in Int /\ ProximityPoints(b) \in Int /\ NoticePoints(b) \in Int
      /\ Points(b, w) \in Int
      /\ RiskScore(b, w) = IF Points(b, w) <= 0 THEN 0 ELSE IF Points(b, w) >= 100 THEN 100 ELSE Points(b, w)
  BY PartsAre
<1>3. Points(a, w) <= Points(b, w)
  BY <1>1, <1>2 DEF Points, PointsBelow
<1> QED
  BY <1>1, <1>2, <1>3

(* More flags: no part of the score falls.                                 *)
LEMMA WorseFlags ==
  ASSUME NEW a, NEW k, IsAccount(a, k), NEW b, NEW j, IsAccount(b, j), NEW w, IsAccount(w, 0),
         SameBut(a, b, "flags"), a.flags \subseteq b.flags
  PROVE  PointsBelow(a, b, w)
<1>1. /\ b.category = a.category /\ b.sentiment = a.sentiment /\ b.commentary = a.commentary /\
           b.minutes30 = a.minutes30
      /\ b.minutes90 = a.minutes90 /\ b.opps = a.opps
  BY FactsStay
<1>2. Cardinality(a.flags) <= Cardinality(b.flags) /\ Cardinality(a.flags) \in Nat /\ Cardinality(b.flags) \in Nat
  BY RisksFinite, FS_Subset
<1>3. FlagPoints(a) <= FlagPoints(b)
  <2>1. /\ FlagPoints(a) = (IF Cardinality(a.flags) >= 7 THEN 14 ELSE 2 * Cardinality(a.flags))
        /\ FlagPoints(b) = (IF Cardinality(b.flags) >= 7 THEN 14 ELSE 2 * Cardinality(b.flags))
    BY FlagPointsAre
  <2> QED
    BY <1>2, <2>1
<1>4. ProximityPoints(b) = ProximityPoints(a)
  BY <1>1, SameOppsAlike, AlikeStays
<1>5. /\ CategoryPoints(b) = CategoryPoints(a) /\ SentimentPoints(b) = SentimentPoints(a) /\
           StalePoints(b) = StalePoints(a)
      /\ DecayPoints(b) = DecayPoints(a) /\ MovePoints(b, w) = MovePoints(a, w) /\ NoticePoints(b) = NoticePoints(a)
  BY <1>1, PartsStay
<1> QED
  BY <1>3, <1>4, <1>5, PartsAre DEF PointsBelow

(* A graver category: no part of the score falls.                          *)
LEMMA WorseCategory ==
  ASSUME NEW a, NEW k, IsAccount(a, k), NEW b, NEW j, IsAccount(b, j), NEW w, IsAccount(w, 0),
         SameBut(a, b, "category"), Place(Categories, a.category) < Place(Categories, b.category)
  PROVE  PointsBelow(a, b, w)
<1>1. /\ b.flags = a.flags /\ b.sentiment = a.sentiment /\ b.commentary = a.commentary /\ b.minutes30 = a.minutes30
      /\ b.minutes90 = a.minutes90 /\ b.opps = a.opps
  BY FactsStay
<1>2. CategoryPoints(a) <= CategoryPoints(b)
  <2>1. LET p == Place(Categories, a.category)
        IN  p \in 0..3 /\ CategoryPoints(a) = IF p = 3 THEN 25 ELSE IF p = 2 THEN 18 ELSE IF p = 1 THEN 10 ELSE 0
    BY GradePoints
  <2>2. LET p == Place(Categories, b.category)
        IN  p \in 0..3 /\ CategoryPoints(b) = IF p = 3 THEN 25 ELSE IF p = 2 THEN 18 ELSE IF p = 1 THEN 10 ELSE 0
    BY GradePoints
  <2> QED
    BY <2>1, <2>2
<1>3. MovePoints(a, w) <= MovePoints(b, w)
  <2>1. Grades(a) /\ Grades(b) /\ Grades(w)
    BY GradesAre
  <2>2. Place(Categories, a.category) <= Place(Categories, b.category) /\
            Place(Sentiments, a.sentiment) <= Place(Sentiments, b.sentiment)
    BY <1>1, <2>1 DEF Grades
  <2> QED
    BY <2>1, <2>2, MoveMono
<1>4. ProximityPoints(b) = ProximityPoints(a)
  BY <1>1, SameOppsAlike, AlikeStays
<1>5. /\ FlagPoints(b) = FlagPoints(a) /\ SentimentPoints(b) = SentimentPoints(a) /\ StalePoints(b) = StalePoints(a)
      /\ DecayPoints(b) = DecayPoints(a) /\ NoticePoints(b) = NoticePoints(a)
  BY <1>1, PartsStay
<1> QED
  BY <1>2, <1>3, <1>4, <1>5, PartsAre DEF PointsBelow

(* A graver sentiment: no part falls, the term for a commentary included.  *)
LEMMA WorseSentiment ==
  ASSUME NEW a, NEW k, IsAccount(a, k), NEW b, NEW j, IsAccount(b, j), NEW w, IsAccount(w, 0),
         SameBut(a, b, "sentiment"), Place(Sentiments, a.sentiment) < Place(Sentiments, b.sentiment)
  PROVE  PointsBelow(a, b, w)
<1>1. /\ b.flags = a.flags /\ b.category = a.category /\ b.commentary = a.commentary /\ b.minutes30 = a.minutes30
      /\ b.minutes90 = a.minutes90 /\ b.opps = a.opps
  BY FactsStay
<1>2. SentimentPoints(a) + StalePoints(a) <= SentimentPoints(b) + StalePoints(b)
  <2> DEFINE p == Place(Sentiments, a.sentiment)
             q == Place(Sentiments, b.sentiment)
             c == a.commentary
  <2>1. /\ p \in 0..3 /\ SentimentPoints(a) = (IF p = 3 THEN 20 ELSE IF p = 2 THEN 12 ELSE IF p = 1 THEN 6 ELSE 0)
        /\ Worried(a) <=> (p = 1 \/ p = 2)
    BY GradePoints
  <2>2. /\ q \in 0..3 /\ SentimentPoints(b) = (IF q = 3 THEN 20 ELSE IF q = 2 THEN 12 ELSE IF q = 1 THEN 6 ELSE 0)
        /\ Worried(b) <=> (q = 1 \/ q = 2)
    BY GradePoints
  <2>3. /\ c \in Int /\ StalePoints(a) = Stale(c, IF Worried(a) THEN 14 ELSE 30) /\
             StalePoints(b) = Stale(c, IF Worried(b) THEN 14 ELSE 30)
    BY <1>1, StaleOf
  <2>4. Stale(c, 14) <= Stale(c, 30) + 4
    BY <2>3, StaleDrop
  <2>5. Stale(c, 30) <= Stale(c, 14)
    <3>1. CASE c = Never
      BY <3>1 DEF Stale
    <3>2. CASE c # Never
      <4>1. 14 \in Int /\ 30 \in Int /\ 14 <= 30 /\ c <= c
        BY <2>3
      <4> QED
        BY <2>3, <3>2, <4>1, StaleMono
    <3> QED
      BY <3>1, <3>2
  <2>6. StalePoints(a) \in Int /\ StalePoints(b) \in Int
    BY PartsAre
  <2>7. p < q
    OBVIOUS
  <2> HIDE DEF p, q, c
  <2>8. CASE Worried(a) <=> Worried(b)
    <3>1. StalePoints(a) = StalePoints(b)
      BY <2>3, <2>8
    <3>2. SentimentPoints(a) <= SentimentPoints(b) /\ SentimentPoints(a) \in Int /\ SentimentPoints(b) \in Int
      BY <2>1, <2>2, <2>7
    <3> QED
      BY <2>6, <3>1, <3>2
  <2>9. ASSUME Worried(a), ~Worried(b)
        PROVE  SentimentPoints(a) + StalePoints(a) <= SentimentPoints(b) + StalePoints(b)
    <3>1. StalePoints(a) <= StalePoints(b) + 4
      BY <2>3, <2>4, <2>9
    <3>2. SentimentPoints(a) <= 12 /\ SentimentPoints(b) = 20 /\ SentimentPoints(a) \in Int
      BY <2>1, <2>2, <2>7, <2>9
    <3> QED
      BY <2>6, <3>1, <3>2
  <2>10. ASSUME ~Worried(a), Worried(b)
         PROVE  SentimentPoints(a) + StalePoints(a) <= SentimentPoints(b) + StalePoints(b)
    <3>1. StalePoints(a) <= StalePoints(b)
      BY <2>3, <2>5, <2>10
    <3>2. SentimentPoints(a) <= SentimentPoints(b) /\ SentimentPoints(a) \in Int /\ SentimentPoints(b) \in Int
      BY <2>1, <2>2, <2>7
    <3> QED
      BY <2>6, <3>1, <3>2
  <2> QED
    BY <2>8, <2>9, <2>10
<1>3. MovePoints(a, w) <= MovePoints(b, w)
  <2>1. Grades(a) /\ Grades(b) /\ Grades(w)
    BY GradesAre
  <2>2. Place(Categories, a.category) <= Place(Categories, b.category) /\
            Place(Sentiments, a.sentiment) <= Place(Sentiments, b.sentiment)
    BY <1>1, <2>1 DEF Grades
  <2> QED
    BY <2>1, <2>2, MoveMono
<1>4. ProximityPoints(b) = ProximityPoints(a)
  BY <1>1, SameOppsAlike, AlikeStays
<1>5. /\ FlagPoints(b) = FlagPoints(a) /\ CategoryPoints(b) = CategoryPoints(a)
      /\ DecayPoints(b) = DecayPoints(a) /\ NoticePoints(b) = NoticePoints(a)
  BY <1>1, PartsStay
<1> QED
  BY <1>2, <1>3, <1>4, <1>5, PartsAre DEF PointsBelow

(* Less use: no part of the score falls.                                   *)
LEMMA WorseUsage ==
  ASSUME NEW a, NEW k, IsAccount(a, k), NEW b, NEW j, IsAccount(b, j), NEW w, IsAccount(w, 0),
         SameBut(a, b, "minutes30"), b.minutes30 # None, b.minutes30 < a.minutes30
  PROVE  PointsBelow(a, b, w)
<1>1. /\ b.flags = a.flags /\ b.category = a.category /\ b.commentary = a.commentary /\ b.sentiment = a.sentiment
      /\ b.minutes90 = a.minutes90 /\ b.opps = a.opps
  BY FactsStay
<1>2. DecayPoints(a) <= DecayPoints(b)
  <2>1. a.minutes30 \in Int /\ b.minutes30 \in Int /\ a.minutes90 \in Int
    BY CountsAre
  <2>2. DecayPoints(a) = Decay(a.minutes30, a.minutes90) /\ DecayPoints(b) = Decay(b.minutes30, a.minutes90)
    BY <1>1 DEF Decay, DecayPoints
  <2>3. Decay(b.minutes30, a.minutes90) >= Decay(a.minutes30, a.minutes90) /\
            Decay(a.minutes30, a.minutes90) \in Int /\ Decay(b.minutes30, a.minutes90) \in Int
    BY <2>1, DecayIs, DecayMono
  <2> QED
    BY <2>2, <2>3
<1>4. ProximityPoints(b) = ProximityPoints(a)
  BY <1>1, SameOppsAlike, AlikeStays
<1>5. /\ FlagPoints(b) = FlagPoints(a) /\ SentimentPoints(b) = SentimentPoints(a) /\ StalePoints(b) = StalePoints(a)
      /\ CategoryPoints(b) = CategoryPoints(a) /\ MovePoints(b, w) = MovePoints(a, w) /\
           NoticePoints(b) = NoticePoints(a)
  BY <1>1, PartsStay
<1> QED
  BY <1>2, <1>4, <1>5, PartsAre DEF PointsBelow

(* A notice given: no part of the score falls.                             *)
LEMMA WorseNotice ==
  ASSUME NEW a, NEW k, IsAccount(a, k), NEW b, NEW j, IsAccount(b, j), NEW w, IsAccount(w, 0),
         SameBut(a, b, "opps"), OppsAlike(a, b), Noticed(b)
  PROVE  PointsBelow(a, b, w)
<1>1. /\ b.flags = a.flags /\ b.category = a.category /\ b.commentary = a.commentary /\ b.sentiment = a.sentiment
      /\ b.minutes90 = a.minutes90 /\ b.minutes30 = a.minutes30
  BY FactsStay
<1>2. NoticePoints(a) <= NoticePoints(b)
  BY DEF NoticePoints
<1>4. ProximityPoints(b) = ProximityPoints(a)
  BY AlikeStays
<1>5. /\ FlagPoints(b) = FlagPoints(a) /\ SentimentPoints(b) = SentimentPoints(a) /\ StalePoints(b) = StalePoints(a)
      /\ CategoryPoints(b) = CategoryPoints(a) /\ MovePoints(b, w) = MovePoints(a, w) /\
           DecayPoints(b) = DecayPoints(a)
  BY <1>1, PartsStay
<1> QED
  BY <1>2, <1>4, <1>5, PartsAre DEF PointsBelow

(* What is older has a date when it had one.                               *)
LEMMA OlderIs ==
  ASSUME NEW c \in Int, NEW n \in Nat, NEW k \in Int, InTime(c, k), n <= k
  PROVE  /\ Older(c, n) \in Int /\ c <= Older(c, n) /\ (Older(c, n) = Never <=> c = Never)
         /\ c # Never => Older(c, n) = c + n /\ Older(c, n) < Never /\ c < Never
BY DEF Older, InTime, Never

(* Days gone by that pass no renewal: no part of the score falls.          *)
LEMMA WorseLater ==
  ASSUME NEW a, NEW k \in Int, IsAccount(a, k), NEW b, NEW j, IsAccount(b, j), NEW w, IsAccount(w, 0),
         NEW n \in Nat, n <= k, b = Later(a, n), \A o \in Present(a) : a.opps[o].due > n \/ a.opps[o].due < 0
  PROVE  PointsBelow(a, b, w)
<1>1. /\ b.flags = a.flags /\ b.category = a.category /\ b.commentary = Older(a.commentary, n) /\
           b.sentiment = a.sentiment
      /\ b.minutes90 = a.minutes90 /\ b.minutes30 = a.minutes30
  BY LaterFields
<1>2. \A o \in Opps : b.opps[o].type = a.opps[o].type /\ b.opps[o].notice = a.opps[o].notice
  <2>1. {"type", "notice"} \subseteq OppFields \ {"due"}
    BY DEF OppFields, OppAnswers
  <2>2. \A o \in Opps : \A f \in OppFields \ {"due"} : b.opps[o][f] = a.opps[o][f]
    BY LaterFields
  <2> QED
    BY <2>1, <2>2
<1>3. NoticePoints(b) = NoticePoints(a)
  <2>1. Present(b) = Present(a) /\ Present(a) \subseteq Opps
    BY <1>2, OppsStay
  <2> QED
    BY <1>2, <2>1 DEF NoticePoints, Noticed
<1>4. StalePoints(a) <= StalePoints(b)
  <2>1. a.commentary \in Int /\ InTime(a.commentary, k)
    BY AgesAre DEF Ages
  <2>2. /\ Older(a.commentary, n) \in Int /\ a.commentary <= Older(a.commentary, n) /\
             (Older(a.commentary, n) = Never <=> a.commentary = Never)
    BY <2>1, OlderIs
  <2>3. SLA(b) = SLA(a) /\ SLA(a) \in Int /\ SLA(a) <= SLA(a)
    BY <1>1 DEF SLA, Worried
  <2>4. StalePoints(a) = Stale(a.commentary, SLA(a)) /\ StalePoints(b) = Stale(b.commentary, SLA(b))
    BY StaleOf
  <2>5. CASE a.commentary = Never
    BY <1>1, <2>2, <2>4, <2>5 DEF Stale
  <2>6. CASE a.commentary # Never
    <3>1. \A c, d, s \in Int : c <= d /\ c # Never /\ d # Never => Stale(c, s) <= Stale(d, s)
      <4>1. \A s \in Int : s <= s
        OBVIOUS
      <4> QED
        BY <4>1, StaleMono
    <3> QED
      BY <1>1, <2>1, <2>2, <2>3, <2>4, <2>6, <3>1
  <2> QED
    BY <2>5, <2>6
<1>5. ProximityPoints(a) <= ProximityPoints(b)
  BY ProximityMono
<1>6. /\ FlagPoints(b) = FlagPoints(a) /\ SentimentPoints(b) = SentimentPoints(a)
      /\ CategoryPoints(b) = CategoryPoints(a) /\ MovePoints(b, w) = MovePoints(a, w) /\
           DecayPoints(b) = DecayPoints(a)
  BY <1>1, PartsStay
<1> QED
  BY <1>3, <1>4, <1>5, <1>6, PartsAre DEF PointsBelow

(* So the score is no lower.                                               *)
LEMMA ScoreGrows ==
  ASSUME NEW a, NEW k \in Int, IsAccount(a, k), 30 <= k, NEW b, NEW j, IsAccount(b, j), NEW w, IsAccount(w, 0),
           Worse(a, b)
  PROVE  RiskScore(b, w) >= RiskScore(a, w)
<1>1. PointsBelow(a, b, w)
  <2>1. ASSUME SameBut(a, b, "opps"), OppsAlike(a, b), \E o \in Present(a) : b.opps[o].notice
        PROVE  PointsBelow(a, b, w)
    <3>1. Noticed(b)
      BY <2>1, AlikeStays DEF Noticed
    <3> QED
      BY <2>1, <3>1, WorseNotice
  <2>2. ASSUME NEW n \in {1, 30}, b = Later(a, n), \A o \in Present(a) : a.opps[o].due > n \/ a.opps[o].due < 0
        PROVE  PointsBelow(a, b, w)
    <3>1. n \in Nat /\ n <= k
      OBVIOUS
    <3> HIDE DEF Later
    <3> QED
      BY <2>2, <3>1, WorseLater
  <2>3. ASSUME SameBut(a, b, "flags"), a.flags \subseteq b.flags
        PROVE  PointsBelow(a, b, w)
    BY <2>3, WorseFlags
  <2>4. ASSUME SameBut(a, b, "category"), Place(Categories, a.category) < Place(Categories, b.category)
        PROVE  PointsBelow(a, b, w)
    BY <2>4, WorseCategory
  <2>5. ASSUME SameBut(a, b, "sentiment"), Place(Sentiments, a.sentiment) < Place(Sentiments, b.sentiment)
        PROVE  PointsBelow(a, b, w)
    BY <2>5, WorseSentiment
  <2>6. ASSUME SameBut(a, b, "minutes30"), b.minutes30 # None, b.minutes30 < a.minutes30
        PROVE  PointsBelow(a, b, w)
    BY <2>6, WorseUsage
  <2> QED
    BY <2>1, <2>2, <2>3, <2>4, <2>5, <2>6, WorseHow
<1>2. RiskScore(a, w) <= RiskScore(b, w)
  BY <1>1, BelowGives
<1>3. RiskScore(a, w) \in Int /\ RiskScore(b, w) \in Int
  BY PartsAre
<1> QED
  BY <1>2, <1>3

-----------------------------------------------------------------------------
(* Level and ranking.                                                      *)

(* The place of the level, and of the bucket, of an account that is not    *)
(* lost.                                                                   *)
Rank(a) == Place(LevelOrder, Level(a))
Unflagged(a) == IF a.sentiment = "Red" THEN 1 ELSE IF a.sentiment = "Yellow" THEN 2 ELSE 4
Flagged(n, rest) == IF n >= 4 THEN 0 ELSE IF n >= 2 THEN 1 ELSE IF n = 1 THEN 2 ELSE rest

(* The rank of a view by its category, and by its flags where it has none. *)
LEMMA RankIs ==
  ASSUME NEW a, NEW k, IsAccount(a, k)
  PROVE  /\ Rank(a) \in 0..4
         /\ a.category # "none" => Rank(a) = 3 - Place(Categories, a.category)
         /\ a.category = "none" => Rank(a) = Flagged(Cardinality(a.flags), Unflagged(a))
         /\ Level(a) \in {"Critical", "High"} <=> (Rank(a) = 0 \/ Rank(a) = 1)
<1>1. a.category = "none" \/ a.category = "Low" \/ a.category = "Medium" \/ a.category = "High" \/
          a.category = "Critical"
  BY SetsAre
<1>2. Cardinality(a.flags) \in Nat
  BY RisksFinite
<1> DEFINE n == Cardinality(a.flags)
<1>3. \/ Level(a) = "Critical" /\ Rank(a) = 0
      \/ Level(a) = "High" /\ Rank(a) = 1
      \/ Level(a) = "Medium" /\ Rank(a) = 2
      \/ Level(a) = "Low" /\ Rank(a) = 3
      \/ Level(a) = "Unknown" /\ Rank(a) = 4
  <2>1. Level(a) = "Critical" \/ Level(a) = "High" \/ Level(a) = "Medium" \/ Level(a) = "Low" \/ Level(a) = "Unknown"
    BY <1>1 DEF Level
  <2> QED
    BY <2>1, LevelPlaces DEF Rank
<1>4. Rank(a) \in 0..4
  BY <1>3
<1>5. Level(a) \in {"Critical", "High"} <=> (Rank(a) = 0 \/ Rank(a) = 1)
  BY <1>3
<1>6. ASSUME a.category # "none"
      PROVE  Rank(a) = 3 - Place(Categories, a.category)
  <2>1. Level(a) = a.category
    BY <1>6 DEF Level
  <2>2. CASE a.category = "Low"
    <3>1. Rank(a) = 3 /\ Place(Categories, a.category) = 0
      BY <2>1, <2>2, LevelPlaces, CategoryPlaces DEF Rank
    <3> QED
      BY <3>1
  <2>3. CASE a.category = "Medium"
    <3>1. Rank(a) = 2 /\ Place(Categories, a.category) = 1
      BY <2>1, <2>3, LevelPlaces, CategoryPlaces DEF Rank
    <3> QED
      BY <3>1
  <2>4. CASE a.category = "High"
    <3>1. Rank(a) = 1 /\ Place(Categories, a.category) = 2
      BY <2>1, <2>4, LevelPlaces, CategoryPlaces DEF Rank
    <3> QED
      BY <3>1
  <2>5. CASE a.category = "Critical"
    <3>1. Rank(a) = 0 /\ Place(Categories, a.category) = 3
      BY <2>1, <2>5, LevelPlaces, CategoryPlaces DEF Rank
    <3> QED
      BY <3>1
  <2> QED
    BY <1>1, <1>6, <2>2, <2>3, <2>4, <2>5
<1>7. ASSUME a.category = "none"
      PROVE  Rank(a) = Flagged(Cardinality(a.flags), Unflagged(a))
  <2>1. CASE n >= 4
    <3>1. Level(a) = "Critical"
      BY <1>7, <2>1 DEF Level
    <3> QED
      BY <2>1, <3>1, LevelPlaces DEF Rank, Flagged
  <2>2. CASE n >= 2 /\ ~(n >= 4)
    <3>1. Level(a) = "High"
      BY <1>7, <2>2 DEF Level
    <3> QED
      BY <2>2, <3>1, LevelPlaces DEF Rank, Flagged
  <2>3. CASE n = 1
    <3>1. Level(a) = "Medium"
      BY <1>7, <2>3 DEF Level
    <3> QED
      BY <2>3, <3>1, LevelPlaces DEF Rank, Flagged
  <2>4. CASE n = 0
    <3>1. Level(a) = IF a.sentiment = "Red" THEN "High" ELSE IF a.sentiment = "Yellow" THEN "Medium" ELSE "Unknown"
      BY <1>7, <2>4 DEF Level
    <3>2. Flagged(Cardinality(a.flags), Unflagged(a)) = Unflagged(a)
      BY <2>4 DEF Flagged
    <3> QED
      BY <3>1, <3>2, LevelPlaces DEF Rank, Unflagged
  <2> QED
    BY <1>2, <2>1, <2>2, <2>3, <2>4
<1> QED
  BY <1>4, <1>5, <1>6, <1>7

(* The bucket of a view that is not a confirmed churn, by its rank.        *)
LEMMA BucketIs ==
  ASSUME NEW a, NEW k, IsAccount(a, k), ~ConfirmedChurn(a)
  PROVE  Place(BucketOrder, Bucket(a)) = IF Rank(a) <= 1 THEN 0 ELSE 2
<1>1. Rank(a) \in 0..4 /\ (Level(a) \in {"Critical", "High"} <=> (Rank(a) = 0 \/ Rank(a) = 1))
  BY RankIs
<1>2. CASE Rank(a) <= 1
  <2>1. Rank(a) = 0 \/ Rank(a) = 1
    BY <1>1, <1>2
  <2>2. Bucket(a) = "Saveable Risk"
    BY <1>1, <2>1 DEF Bucket
  <2> QED
    BY <1>2, <2>2, BucketPlaces
<1>3. CASE ~(Rank(a) <= 1)
  <2>1. ~(Rank(a) = 0 \/ Rank(a) = 1)
    BY <1>1, <1>3
  <2>2. Bucket(a) = "Healthy"
    BY <1>1, <2>1 DEF Bucket
  <2> QED
    BY <1>3, <2>2, BucketPlaces
<1> QED
  BY <1>2, <1>3

(* The amount to renew is a sum over the opportunities that there are.     *)
LEMMA AtrIs ==
  ASSUME NEW a
  PROVE  Present(a) \in SUBSET Opps /\ Atr(a) = SumOf([o \in Opps |-> a.opps[o].atr], Present(a))
<1>1. Present(a) \in SUBSET Opps
  BY DEF Present
<1>2. \A S \in SUBSET Opps : MapThenSumSet(LAMBDA o : a.opps[o].atr, S) = SumOf([o \in Opps |-> a.opps[o].atr], S)
  BY DEF SumOf, SumRec, Pick, MapThenSumSet, MapThenFoldSet
<1>3. Atr(a) = MapThenSumSet(LAMBDA o : a.opps[o].atr, Present(a))
  BY DEF Atr, SumOver
<1> QED
  BY <1>1, <1>2, <1>3

(* The days to the next renewal are a number.                              *)
LEMMA DaysAre ==
  ASSUME NEW a, NEW k, IsAccount(a, k)
  PROVE  DaysToRenewal(a) \in Int
<1>1. CASE Dated(a) = {}
  BY <1>1 DEF DaysToRenewal, Never
<1>2. CASE Dated(a) # {}
  <2> DEFINE days == [o \in Opps |-> DaysUntil(a, o)]
  <2>1. Dated(a) \in SUBSET Opps /\ days \in [Opps -> Int]
    BY OppsAre DEF Dated, Renewals, Present, DaysUntil
  <2>2. {DaysUntil(a, o) : o \in Dated(a)} = {days[o] : o \in Dated(a)}
    BY <2>1
  <2> HIDE DEF days
  <2>3. Min({days[o] : o \in Dated(a)}) \in Int
    BY <1>2, <2>1, SoonestIs
  <2>4. DaysToRenewal(a) = Min({days[o] : o \in Dated(a)})
    BY <1>2, <2>2 DEF DaysToRenewal
  <2> QED
    BY <2>3, <2>4
<1> QED
  BY <1>1, <1>2

(* The days to the renewal, days later.                                    *)
LEMMA DaysLater ==
  ASSUME NEW a, NEW k, IsAccount(a, k), NEW n \in Nat, NEW b, b = Later(a, n)
  PROVE  /\ Present(b) = Present(a) /\ Renewals(b) = Renewals(a) /\ Dated(b) = Dated(a) /\ Dated(a) \in SUBSET Opps
         /\ DaysToRenewal(b) = IF Dated(a) = {} THEN Never ELSE DaysToRenewal(a) - n
<1>1. \A o \in Opps : b.opps[o].due = a.opps[o].due - n /\ b.opps[o].type = a.opps[o].type
  <2>1. "type" \in OppFields \ {"due"}
    BY DEF OppFields
  <2> HIDE DEF Later
  <2> QED
    BY <2>1, LaterFields
<1>2. Present(b) = Present(a) /\ Renewals(b) = Renewals(a) /\ Dated(b) = Dated(a) /\ Dated(a) \in SUBSET Opps
  BY <1>1, OppsStay
<1>3. CASE Dated(a) = {}
  BY <1>2, <1>3 DEF DaysToRenewal
<1>4. CASE Dated(a) # {}
  <2> DEFINE days == [o \in Opps |-> DaysUntil(a, o)]
             then == [o \in Opps |-> DaysUntil(b, o)]
             D == {days[o] : o \in Dated(a)}
             E == {then[o] : o \in Dated(a)}
  <2>1. days \in [Opps -> Int] /\ then \in [Opps -> Int] /\ \A o \in Opps : then[o] = days[o] - n
    BY <1>1, OppsAre DEF DaysUntil
  <2>2. {DaysUntil(a, o) : o \in Dated(a)} = D /\ {DaysUntil(b, o) : o \in Dated(b)} = E
    BY <1>2
  <2>3. DaysToRenewal(a) = Min(D) /\ DaysToRenewal(b) = Min(E)
    BY <1>2, <1>4, <2>2 DEF DaysToRenewal
  <2>4. Min(D) \in D /\ Min(D) \in Int /\ \A o \in Dated(a) : Min(D) <= days[o]
    <3> HIDE DEF days, then
    <3> QED
      BY <1>2, <1>4, <2>1, SoonestIs
  <2>5. Min(E) \in E /\ Min(E) \in Int /\ \A o \in Dated(a) : Min(E) <= then[o]
    <3> HIDE DEF days, then
    <3> QED
      BY <1>2, <1>4, <2>1, SoonestIs
  <2>6. PICK o \in Dated(a) : Min(D) = days[o]
    BY <2>4
  <2>7. PICK p \in Dated(a) : Min(E) = then[p]
    BY <2>5
  <2>8. Min(E) = Min(D) - n
    <3>1. o \in Opps /\ p \in Opps
      BY <1>2
    <3>2. then[o] = days[o] - n /\ then[p] = days[p] - n /\ days[o] \in Int /\ days[p] \in Int
      BY <2>1, <3>1
    <3>3. Min(E) <= then[o] /\ Min(D) <= days[p]
      BY <2>4, <2>5
    <3> HIDE DEF D, E, days, then
    <3> QED
      BY <2>4, <2>5, <2>6, <2>7, <3>2, <3>3
  <2> HIDE DEF D, E
  <2> QED
    BY <1>2, <1>4, <2>3, <2>8
<1> QED
  BY <1>3, <1>4

(* What is no better placed is outranked by nothing that it was.           *)
Stands(a, b) == Rank(b) <= Rank(a) /\ DaysToRenewal(b) <= DaysToRenewal(a) /\ Atr(b) = Atr(a)

(* A view that stands as high in every key of the order is not outranked   *)
(* by the one it came from.                                                *)
LEMMA StandsRanks ==
  ASSUME NEW a, NEW k, IsAccount(a, k), ~ConfirmedChurn(a), NEW b, NEW j, IsAccount(b, j), ~ConfirmedChurn(b),
           Stands(a, b)
  PROVE  ~Outranks(a, b)
<1>1. /\ Place(BucketOrder, Bucket(a)) = IF Rank(a) <= 1 THEN 0 ELSE 2
      /\ Place(BucketOrder, Bucket(b)) = IF Rank(b) <= 1 THEN 0 ELSE 2
  BY BucketIs
<1>2. Rank(a) \in 0..4 /\ Rank(b) \in 0..4 /\ Rank(b) <= Rank(a)
  BY RankIs DEF Stands
<1>3. DaysToRenewal(a) \in Int /\ DaysToRenewal(b) \in Int /\ DaysToRenewal(b) <= DaysToRenewal(a)
  BY DaysAre DEF Stands
<1>4. Atr(a) \in Int /\ Atr(b) = Atr(a)
  <2> DEFINE worth == [o \in Opps |-> a.opps[o].atr]
  <2>1. worth \in [Opps -> Int] /\ IsFiniteSet(Opps)
    BY OppsAre, RiskAssumption
  <2>2. Present(a) \in SUBSET Opps /\ Atr(a) = SumOf(worth, Present(a))
    BY AtrIs
  <2> HIDE DEF worth
  <2>3. SumOf(worth, Present(a)) \in Int
    BY <2>1, <2>2, SumValue
  <2> QED
    BY <2>2, <2>3 DEF Stands
<1>5. /\ ~(Place(BucketOrder, Bucket(a)) < Place(BucketOrder, Bucket(b)))
      /\ ~(Rank(a) < Rank(b)) /\ ~(DaysToRenewal(a) < DaysToRenewal(b)) /\ ~(Atr(a) > Atr(b))
  BY <1>1, <1>2, <1>3, <1>4
<1> QED
  BY <1>5 DEF Outranks, Rank

(* A lost account stays lost.                                              *)
LEMMA LostStays ==
  ASSUME NEW a, NEW k, IsAccount(a, k), NEW b, Worse(a, b), ConfirmedChurn(a)
  PROVE  ConfirmedChurn(b)
<1>1. SameBut(a, b, "sentiment") => b.opps = a.opps
  BY FactsStay
<1>2. ASSUME NEW f \in {"flags", "category", "minutes30"}, SameBut(a, b, f)
      PROVE  ConfirmedChurn(b)
  <2>1. b.opps = a.opps /\ b.sentiment = a.sentiment
    BY <1>2, FactsStay
  <2> QED
    BY <2>1 DEF ConfirmedChurn, Noticed, Present
<1>3. ASSUME SameBut(a, b, "sentiment"), a.sentiment # "Confirmed Churn"
      PROVE  ConfirmedChurn(b)
  <2>1. b.opps = a.opps
    BY <1>1, <1>3
  <2> QED
    BY <1>3, <2>1 DEF ConfirmedChurn, Noticed, Present
<1>4. ASSUME OppsAlike(a, b), \E o \in Present(a) : b.opps[o].notice
      PROVE  ConfirmedChurn(b)
  <2>1. Present(b) = Present(a)
    BY <1>4, AlikeStays
  <2> QED
    BY <1>4, <2>1 DEF ConfirmedChurn, Noticed
<1>5. ASSUME NEW n \in {1, 30}, b = Later(a, n)
      PROVE  ConfirmedChurn(b)
  <2>1. n \in Nat
    OBVIOUS
  <2>2. b.sentiment = a.sentiment /\ \A o \in Opps : \A f \in OppFields \ {"due"} : b.opps[o][f] = a.opps[o][f]
    <3> HIDE DEF Later
    <3> QED
      BY <1>5, <2>1, LaterFields
  <2>3. {"type", "notice"} \subseteq OppFields \ {"due"}
    BY DEF OppFields, OppAnswers
  <2>4. Present(b) = Present(a) /\ Present(a) \subseteq Opps
    BY <2>2, <2>3, OppsStay
  <2>5. \A o \in Opps : b.opps[o].notice = a.opps[o].notice
    BY <2>2, <2>3
  <2> QED
    BY <2>2, <2>4, <2>5 DEF ConfirmedChurn, Noticed
<1>6. \/ SameBut(a, b, "flags") \/ SameBut(a, b, "category") \/ SameBut(a, b, "minutes30")
      \/ SameBut(a, b, "sentiment") /\ a.sentiment # "Confirmed Churn"
      \/ OppsAlike(a, b) /\ \E o \in Present(a) : b.opps[o].notice
      \/ \E n \in {1, 30} : b = Later(a, n)
  <2> HIDE DEF Later
  <2> QED
    BY WorseHow
<1> QED
  BY <1>2, <1>3, <1>4, <1>5, <1>6

(* The ATR of a view is of its opportunities' types and amounts alone.     *)
LEMMA AtrStays ==
  ASSUME NEW a, NEW b, \A o \in Opps : b.opps[o].type = a.opps[o].type /\ b.opps[o].atr = a.opps[o].atr
  PROVE  Atr(b) = Atr(a)
<1>1. Present(b) = Present(a)
  BY OppsStay
<1>2. [o \in Opps |-> b.opps[o].atr] = [o \in Opps |-> a.opps[o].atr]
  OBVIOUS
<1>3. Atr(a) = SumOf([o \in Opps |-> a.opps[o].atr], Present(a)) /\
          Atr(b) = SumOf([o \in Opps |-> b.opps[o].atr], Present(b))
  BY AtrIs
<1> QED
  BY <1>1, <1>2, <1>3

(* More of what gives a rank gives no lower one.                           *)
LEMMA FlaggedMono ==
  ASSUME NEW n \in Nat, NEW m \in Nat, NEW r \in {1, 2, 4}, NEW s \in {1, 2, 4}, n <= m, s <= r,
           ~(r = 1 /\ n = 0 /\ m = 1)
  PROVE  Flagged(m, s) <= Flagged(n, r)
BY DEF Flagged

(* A view that got worse, and whose category hides no flags, stands as     *)
(* high in every key of the order.                                         *)
LEMMA WorseStands ==
  ASSUME NEW a, NEW k, IsAccount(a, k), NEW b, NEW j, IsAccount(b, j), Worse(a, b), ~ConfirmedChurn(b), ~Masked(a, b)
  PROVE  Stands(a, b)
<1>1. /\ Rank(a) \in 0..4
      /\ a.category # "none" => Rank(a) = 3 - Place(Categories, a.category)
      /\ a.category = "none" => Rank(a) = Flagged(Cardinality(a.flags), Unflagged(a))
  BY RankIs
<1>2. /\ Rank(b) \in 0..4
      /\ b.category # "none" => Rank(b) = 3 - Place(Categories, b.category)
      /\ b.category = "none" => Rank(b) = Flagged(Cardinality(b.flags), Unflagged(b))
  BY RankIs
<1>3. Cardinality(a.flags) \in Nat /\ Cardinality(b.flags) \in Nat /\ IsFiniteSet(a.flags) /\ IsFiniteSet(b.flags)
  BY RisksFinite
<1>4. Unflagged(a) \in {1, 2, 4} /\ Unflagged(b) \in {1, 2, 4}
  BY DEF Unflagged
<1>5. DaysToRenewal(a) \in Int /\ DaysToRenewal(b) \in Int
  BY DaysAre
<1>6. ASSUME b.category = a.category, b.sentiment = a.sentiment, b.flags = a.flags
      PROVE  Rank(b) <= Rank(a)
  <2>1. Level(b) = Level(a)
    BY <1>6 DEF Level
  <2> QED
    BY <1>1, <2>1 DEF Rank
<1>7. ASSUME b.opps = a.opps
      PROVE  DaysToRenewal(b) <= DaysToRenewal(a) /\ Atr(b) = Atr(a)
  <2>1. DaysToRenewal(b) = DaysToRenewal(a)
    BY <1>7, SameOppsAlike, AlikeStays
  <2>2. Atr(b) = Atr(a)
    BY <1>7, AtrStays
  <2> QED
    BY <1>5, <2>1, <2>2
<1>8. ASSUME SameBut(a, b, "flags"), a.flags \subseteq b.flags
      PROVE  Stands(a, b)
  <2>1. b.category = a.category /\ b.sentiment = a.sentiment /\ b.opps = a.opps
    BY <1>8, FactsStay
  <2>2. Cardinality(a.flags) <= Cardinality(b.flags)
    BY <1>3, <1>8, FS_Subset
  <2>3. Rank(b) <= Rank(a)
    <3>1. CASE a.category # "none"
      BY <1>1, <1>2, <2>1, <3>1
    <3>2. CASE a.category = "none"
      <4>1. Unflagged(b) = Unflagged(a)
        BY <2>1 DEF Unflagged
      <4>2. ~(Unflagged(a) = 1 /\ Cardinality(a.flags) = 0 /\ Cardinality(b.flags) = 1)
        <5>1. Cardinality(a.flags) = 0 => a.flags = {}
          BY <1>3, FS_EmptySet
        <5>2. Unflagged(a) = 1 => a.sentiment = "Red"
          BY DEF Unflagged
        <5> QED
          BY <3>2, <5>1, <5>2 DEF Masked
      <4>3. Unflagged(b) <= Unflagged(a)
        BY <1>4, <4>1
      <4>4. Flagged(Cardinality(b.flags), Unflagged(b)) <= Flagged(Cardinality(a.flags), Unflagged(a))
        BY <1>3, <1>4, <2>2, <4>2, <4>3, FlaggedMono
      <4> QED
        BY <1>1, <1>2, <2>1, <3>2, <4>4
    <3> QED
      BY <3>1, <3>2
  <2> QED
    BY <1>7, <2>1, <2>3 DEF Stands
<1>9. ASSUME SameBut(a, b, "category"), a.category # "none",
               Place(Categories, a.category) < Place(Categories, b.category)
      PROVE  Stands(a, b)
  <2>1. b.opps = a.opps
    BY <1>9, FactsStay
  <2>2. Grades(a) /\ Grades(b)
    BY GradesAre
  <2>3. b.category # "none"
    BY <1>9, <2>2, CategoryPlaces DEF Grades
  <2>4. Rank(b) <= Rank(a)
    <3>1. Place(Categories, a.category) \in Int /\ Place(Categories, b.category) \in Int
      BY <2>2 DEF Grades
    <3> QED
      BY <1>1, <1>2, <1>9, <2>3, <3>1
  <2> QED
    BY <1>7, <2>1, <2>4 DEF Stands
<1>10. ASSUME SameBut(a, b, "sentiment"), Place(Sentiments, a.sentiment) < Place(Sentiments, b.sentiment)
       PROVE  Stands(a, b)
  <2>1. b.opps = a.opps /\ b.category = a.category /\ b.flags = a.flags
    BY <1>10, FactsStay
  <2>2. Unflagged(b) <= Unflagged(a)
    <3>1. /\ b.sentiment = "none" \/ b.sentiment = "Green" \/ b.sentiment = "Yellow" \/ b.sentiment = "Red"
      <4>1. b.sentiment # "Confirmed Churn"
        BY DEF ConfirmedChurn
      <4>2. b.sentiment \in {"none", "Green", "Yellow", "Red", "Confirmed Churn"}
        BY SetsAre
      <4> QED
        BY <4>1, <4>2, Zenon
    <3>2. Place(Sentiments, a.sentiment) \in Int /\ Place(Sentiments, a.sentiment) >= 0
      BY GradesAre DEF Grades
    <3>3. CASE b.sentiment = "Red"
      BY <1>4, <3>3 DEF Unflagged
    <3>4. CASE b.sentiment = "Yellow"
      <4>1. Place(Sentiments, b.sentiment) = 1
        BY <3>4, SentimentPlaces
      <4>2. a.sentiment # "Red"
        <5>1. a.sentiment = "Red" => Place(Sentiments, a.sentiment) = 2
          BY SentimentPlaces
        <5> QED
          BY <1>10, <4>1, <5>1
      <4>3. Unflagged(a) = 2 \/ Unflagged(a) = 4
        BY <4>2 DEF Unflagged
      <4>4. Unflagged(b) = 2
        BY <3>4 DEF Unflagged
      <4> QED
        BY <4>3, <4>4
    <3>5. CASE b.sentiment = "none" \/ b.sentiment = "Green"
      <4>1. Place(Sentiments, b.sentiment) = 0
        BY <3>5, SentimentPlaces
      <4> QED
        BY <1>10, <3>2, <4>1
    <3> QED
      BY <3>1, <3>3, <3>4, <3>5
  <2>3. Rank(b) <= Rank(a)
    <3>1. CASE a.category # "none"
      BY <1>1, <1>2, <2>1, <3>1
    <3>2. CASE a.category = "none"
      <4>1. Cardinality(a.flags) <= Cardinality(b.flags) /\ ~(Cardinality(a.flags) = 0 /\ Cardinality(b.flags) = 1)
        BY <1>3, <2>1
      <4>2. Flagged(Cardinality(b.flags), Unflagged(b)) <= Flagged(Cardinality(a.flags), Unflagged(a))
        BY <1>3, <1>4, <2>2, <4>1, FlaggedMono
      <4> QED
        BY <1>1, <1>2, <2>1, <3>2, <4>2
    <3> QED
      BY <3>1, <3>2
  <2> QED
    BY <1>7, <2>1, <2>3 DEF Stands
<1>11. ASSUME SameBut(a, b, "minutes30")
       PROVE  Stands(a, b)
  <2>1. b.opps = a.opps /\ b.category = a.category /\ b.flags = a.flags /\ b.sentiment = a.sentiment
    BY <1>11, FactsStay
  <2> QED
    BY <1>6, <1>7, <2>1 DEF Stands
<1>12. ASSUME OppsAlike(a, b), \E o \in Present(a) : b.opps[o].notice
       PROVE  Stands(a, b)
  <2>1. Noticed(b)
    BY <1>12, AlikeStays DEF Noticed
  <2> QED
    BY <2>1 DEF ConfirmedChurn
<1>13. ASSUME NEW n \in {1, 30}, b = Later(a, n)
       PROVE  Stands(a, b)
  <2>1. n \in Nat
    OBVIOUS
  <2> HIDE DEF Later
  <2>2. b.category = a.category /\ b.flags = a.flags /\ b.sentiment = a.sentiment
    BY <1>13, <2>1, LaterFields
  <2>3. \A o \in Opps : b.opps[o].type = a.opps[o].type /\ b.opps[o].atr = a.opps[o].atr
    <3>1. {"type", "atr"} \subseteq OppFields \ {"due"}
      BY DEF OppFields, OppAmounts
    <3>2. \A o \in Opps : \A f \in OppFields \ {"due"} : b.opps[o][f] = a.opps[o][f]
      BY <1>13, <2>1, LaterFields
    <3> QED
      BY <3>1, <3>2
  <2>4. DaysToRenewal(b) = IF Dated(a) = {} THEN Never ELSE DaysToRenewal(a) - n
    BY <1>13, <2>1, DaysLater
  <2>5. DaysToRenewal(b) <= DaysToRenewal(a)
    <3>1. CASE Dated(a) = {}
      BY <1>5, <2>4, <3>1 DEF DaysToRenewal
    <3>2. CASE Dated(a) # {}
      BY <1>5, <2>1, <2>4, <3>2
    <3> QED
      BY <3>1, <3>2
  <2> QED
    BY <1>6, <2>2, <2>3, <2>5, AtrStays DEF Stands
<1>14. \/ SameBut(a, b, "flags") /\ a.flags \subseteq b.flags
       \/ SameBut(a, b, "category") /\ a.category # "none" /\
            Place(Categories, a.category) < Place(Categories, b.category)
       \/ SameBut(a, b, "sentiment") /\ Place(Sentiments, a.sentiment) < Place(Sentiments, b.sentiment)
       \/ SameBut(a, b, "minutes30")
       \/ OppsAlike(a, b) /\ \E o \in Present(a) : b.opps[o].notice
       \/ \E n \in {1, 30} : b = Later(a, n)
  <2> HIDE DEF Later
  <2> QED
    BY WorseHow
<1> QED
  BY <1>8, <1>9, <1>10, <1>11, <1>12, <1>13, <1>14

-----------------------------------------------------------------------------
(* The dark signals and the grade of confidence they give.                 *)

(* The last activity is the last of the four.                              *)
LEMMA ActivityIs ==
  ASSUME NEW a, NEW k, IsAccount(a, k)
  PROVE  /\ LastActivity(a) \in Int
         /\ \/ LastActivity(a) = a.commentary \/ LastActivity(a) = a.sentimentAge \/ LastActivity(a) = a.meeting \/
                 LastActivity(a) = a.workshop
         /\ LastActivity(a) <= a.commentary /\ LastActivity(a) <= a.sentimentAge /\ LastActivity(a) <= a.meeting /\
              LastActivity(a) <= a.workshop
<1> DEFINE x == a.commentary
           y == a.sentimentAge
           z == a.meeting
           t == a.workshop
           S == {x, y, z, t}
           m == LastActivity(a)
<1>1. x \in Int /\ y \in Int /\ z \in Int /\ t \in Int
  BY AgesAre
<1>2. m = Min(S)
  BY DEF LastActivity
<1> HIDE DEF x, y, z, t, m
<1>3. ASSUME NEW l \in S, \A e \in S : l <= e
      PROVE  m = l
  <2>1. S \subseteq Int
    BY <1>1
  <2> HIDE DEF S
  <2> QED
    BY <1>2, <1>3, <2>1, LeastIs
<1>4. PICK l \in S : \A e \in S : l <= e
  <2>1. CASE x <= y /\ x <= z /\ x <= t
    BY <1>1, <2>1
  <2>2. CASE y <= x /\ y <= z /\ y <= t
    BY <1>1, <2>2
  <2>3. CASE z <= x /\ z <= y /\ z <= t
    BY <1>1, <2>3
  <2>4. CASE t <= x /\ t <= y /\ t <= z
    BY <1>1, <2>4
  <2>5. \/ x <= y /\ x <= z /\ x <= t
        \/ y <= x /\ y <= z /\ y <= t
        \/ z <= x /\ z <= y /\ z <= t
        \/ t <= x /\ t <= y /\ t <= z
    BY <1>1
  <2> QED
    BY <2>1, <2>2, <2>3, <2>4, <2>5
<1>5. m = l /\ l \in S
  BY <1>3, <1>4
<1>6. m \in Int /\ (m = x \/ m = y \/ m = z \/ m = t) /\ m <= x /\ m <= y /\ m <= z /\ m <= t
  BY <1>1, <1>4, <1>5
<1> QED
  BY <1>6 DEF m, x, y, z, t

(* Days pass since every activity, and those without a date stay so.       *)
LEMMA ActivityLater ==
  ASSUME NEW a, NEW k \in Int, IsAccount(a, k), NEW b, NEW j, IsAccount(b, j), NEW n \in Nat, n <= k, b = Later(a, n)
  PROVE  /\ LastActivity(a) <= LastActivity(b)
         /\ LastActivity(b) >= Never => LastActivity(a) >= Never
<1>1. /\ b.commentary = Older(a.commentary, n) /\ b.sentimentAge = Older(a.sentimentAge, n)
      /\ b.meeting = Older(a.meeting, n) /\ b.workshop = Older(a.workshop, n)
  BY LaterFields
<1>2. \A f \in Ages : a[f] \in Int /\ InTime(a[f], k)
  BY AgesAre
<1>3. {"commentary", "sentimentAge", "meeting", "workshop"} \subseteq Ages
  BY DEF Ages
<1>4. \A f \in Ages : a[f] <= Older(a[f], n) /\ (Older(a[f], n) >= Never => a[f] >= Never)
  BY <1>2, OlderIs DEF Never
<1>5. /\ a.commentary <= b.commentary /\ a.sentimentAge <= b.sentimentAge /\ a.meeting <= b.meeting /\
           a.workshop <= b.workshop
      /\ b.commentary >= Never => a.commentary >= Never
      /\ b.sentimentAge >= Never => a.sentimentAge >= Never
      /\ b.meeting >= Never => a.meeting >= Never
      /\ b.workshop >= Never => a.workshop >= Never
  BY <1>1, <1>3, <1>4
<1>6. /\ LastActivity(a) \in Int /\ LastActivity(b) \in Int
      /\ LastActivity(a) <= a.commentary /\ LastActivity(a) <= a.sentimentAge /\ LastActivity(a) <= a.meeting /\
           LastActivity(a) <= a.workshop
      /\ LastActivity(b) <= b.commentary /\ LastActivity(b) <= b.sentimentAge /\ LastActivity(b) <= b.meeting /\
           LastActivity(b) <= b.workshop
      /\ \/ LastActivity(a) = a.commentary \/ LastActivity(a) = a.sentimentAge \/ LastActivity(a) = a.meeting \/
              LastActivity(a) = a.workshop
      /\ \/ LastActivity(b) = b.commentary \/ LastActivity(b) = b.sentimentAge \/ LastActivity(b) = b.meeting \/
              LastActivity(b) = b.workshop
  BY ActivityIs
<1>7. /\ a.commentary \in Int /\ a.sentimentAge \in Int /\ a.meeting \in Int /\ a.workshop \in Int
      /\ b.commentary \in Int /\ b.sentimentAge \in Int /\ b.meeting \in Int /\ b.workshop \in Int /\ Never \in Int
  BY AgesAre DEF Never
<1>8. LastActivity(a) <= LastActivity(b)
  BY <1>5, <1>6, <1>7
<1>9. LastActivity(b) >= Never => LastActivity(a) >= Never
  BY <1>5, <1>6, <1>7
<1> QED
  BY <1>8, <1>9

(* Dark signals.                                                           *)
LEMMA DarkLater ==
  ASSUME NEW a, NEW k \in Int, IsAccount(a, k), NEW b, NEW j, IsAccount(b, j), NEW n \in Nat, n <= k, b = Later(a, n)
  PROVE  Dark(a) \subseteq Dark(b)
<1>1. /\ b.commentary = Older(a.commentary, n) /\ b.workshop = Older(a.workshop, n)
      /\ b.cse = a.cse /\ b.slack = a.slack /\ b.flags = a.flags /\ b.minutes30 = a.minutes30
  BY LaterFields
<1>2. a.commentary \in Int /\ InTime(a.commentary, k) /\ a.workshop \in Int /\ InTime(a.workshop, k)
  BY AgesAre DEF Ages
<1>3. b.commentary \in Int /\ a.commentary <= b.commentary /\ b.workshop \in Int /\ a.workshop <= b.workshop
  BY <1>1, <1>2, OlderIs
<1>4. LastActivity(a) \in Int /\ LastActivity(b) \in Int /\ LastActivity(a) <= LastActivity(b)
  BY ActivityIs, ActivityLater
<1>5. ~Active(a, 90) => ~Active(b, 90)
  BY <1>4 DEF Active
<1>6. (a.commentary > 90 => b.commentary > 90) /\ (a.workshop > 365 => b.workshop > 365)
  BY <1>2, <1>3
<1> HIDE DEF Later
<1>7. ASSUME NEW s \in Dark(a)
      PROVE  s \in Dark(b)
  <2>1. s \in DarkSignals
    BY <1>7 DEF Dark
  <2>2. CASE s = "stale_commentary"
    BY <1>6, <1>7, <2>2 DEF Dark
  <2>3. CASE s = "no_cse"
    BY <1>1, <1>7, <2>3 DEF Dark
  <2>4. CASE s = "no_slack"
    BY <1>1, <1>7, <2>4 DEF Dark
  <2>5. CASE s = "no_recent_activity"
    BY <1>5, <1>7, <2>5 DEF Dark
  <2>6. CASE s = "no_workshop"
    BY <1>6, <1>7, <2>6 DEF Dark
  <2>7. CASE s = "cerebro_engagement_risk"
    BY <1>1, <1>7, <2>7 DEF Dark
  <2>8. CASE s = "low_engagio"
    BY <1>1, <1>7, <2>8 DEF Dark
  <2> QED
    BY <2>1, <2>2, <2>3, <2>4, <2>5, <2>6, <2>7, <2>8 DEF DarkSignals
<1> QED
  BY <1>7

(* A set that lists seven things is finite.                                *)
LEMMA ListedFinite ==
  ASSUME NEW u, NEW v, NEW w, NEW x, NEW y, NEW z, NEW t
  PROVE  IsFiniteSet({u, v, w, x, y, z, t})
<1>1. \A e : IsFiniteSet({e})
  BY FS_Singleton
<1>2. IsFiniteSet({u} \cup {v} \cup {w})
  BY <1>1, FS_Union
<1>3. IsFiniteSet(({u} \cup {v} \cup {w}) \cup {x} \cup {y})
  BY <1>1, <1>2, FS_Union
<1>4. IsFiniteSet((({u} \cup {v} \cup {w}) \cup {x} \cup {y}) \cup {z} \cup {t})
  BY <1>1, <1>3, FS_Union
<1>5. {u, v, w, x, y, z, t} = (({u} \cup {v} \cup {w}) \cup {x} \cup {y}) \cup {z} \cup {t}
  OBVIOUS
<1> QED
  BY <1>4, <1>5

(* The weight of the dark signals is a sum over a finite set.              *)
LEMMA WeightIs ==
  ASSUME NEW a
  PROVE  /\ IsFiniteSet(DarkSignals) /\ Dark(a) \in SUBSET DarkSignals /\
           [s \in DarkSignals |-> Weight(s)] \in [DarkSignals -> Int]
         /\ DarkWeight(a) = SumOf([s \in DarkSignals |-> Weight(s)], Dark(a))
<1>1. IsFiniteSet(DarkSignals)
  BY ListedFinite DEF DarkSignals
<1>2. Dark(a) \in SUBSET DarkSignals
  BY DEF Dark
<1>3. \A S \in SUBSET DarkSignals : MapThenSumSet(Weight, S) = SumOf([s \in DarkSignals |-> Weight(s)], S)
  BY DEF SumOf, SumRec, Pick, MapThenSumSet, MapThenFoldSet
<1>4. [s \in DarkSignals |-> Weight(s)] \in [DarkSignals -> Int]
  BY DEF Weight
<1>5. DarkWeight(a) = MapThenSumSet(Weight, Dark(a))
  BY DEF DarkWeight
<1> QED
  BY <1>1, <1>2, <1>3, <1>4, <1>5

(* More dark signals weigh no less.                                        *)
LEMMA WeightGrows ==
  ASSUME NEW a, NEW b, Dark(a) \subseteq Dark(b)
  PROVE  DarkWeight(b) >= DarkWeight(a)
<1> DEFINE worth == [s \in DarkSignals |-> Weight(s)]
           more == Dark(b) \ Dark(a)
<1>1. /\ IsFiniteSet(DarkSignals) /\ worth \in [DarkSignals -> Int] /\ Dark(a) \in SUBSET DarkSignals /\
           Dark(b) \in SUBSET DarkSignals
      /\ DarkWeight(a) = SumOf(worth, Dark(a)) /\ DarkWeight(b) = SumOf(worth, Dark(b))
  BY WeightIs
<1>2. \A s \in DarkSignals : worth[s] >= 0
  BY DEF Weight
<1> HIDE DEF worth
<1>3. SumOf(worth, Dark(b)) = SumOf(worth, Dark(a)) + SumOf(worth, more)
  BY <1>1, SumSplits
<1>4. more \in SUBSET DarkSignals /\ \A s \in more : worth[s] >= 0
  BY <1>1, <1>2
<1>5. SumOf(worth, more) >= 0
  BY <1>1, <1>4, SumGains
<1>6. SumOf(worth, Dark(a)) \in Int /\ SumOf(worth, more) \in Int
  BY <1>1, <1>4, SumValue
<1> QED
  BY <1>1, <1>3, <1>5, <1>6

(* More dark signals give no lower grade of confidence.                    *)
LEMMA ConfidenceGrows ==
  ASSUME NEW a, NEW b, Dark(a) \subseteq Dark(b)
  PROVE  Grade(Confidence(b)) >= Grade(Confidence(a))
<1> DEFINE A == {SourceOf(s) : s \in Dark(a)}
           B == {SourceOf(s) : s \in Dark(b)}
           weak(d) == d \subseteq {"no_cse", "no_slack"}
<1>1. A \subseteq B /\ B \subseteq {"glean", "cerebro", "salesforce"}
  BY DEF SourceOf
<1>2. IsFiniteSet(B)
  <2>1. IsFiniteSet({"glean", "cerebro", "salesforce"})
    <3>1. IsFiniteSet({"glean", "cerebro", "salesforce", "glean", "glean", "glean", "glean"})
      BY ListedFinite
    <3>2. {"glean", "cerebro", "salesforce", "glean", "glean", "glean", "glean"} = {"glean", "cerebro", "salesforce"}
      OBVIOUS
    <3> QED
      BY <3>1, <3>2
  <2> HIDE DEF B
  <2> QED
    BY <1>1, <2>1, FS_Subset
<1>3. Cardinality(A) \in Nat /\ Cardinality(B) \in Nat /\ Cardinality(A) <= Cardinality(B)
  <2> HIDE DEF A, B
  <2> QED
    BY <1>1, <1>2, FS_Subset, FS_CardinalityType
<1>4. /\ Grade(Confidence(a)) = IF weak(Dark(a)) THEN 0 ELSE IF Cardinality(A) >= 3 THEN 2 ELSE IF Cardinality(A) = 2 THEN 1 ELSE 0
      /\ Grade(Confidence(b)) = IF weak(Dark(b)) THEN 0 ELSE IF Cardinality(B) >= 3 THEN 2 ELSE IF Cardinality(B) = 2 THEN 1 ELSE 0
  BY DEF Grade, Confidence
<1>5. weak(Dark(b)) => weak(Dark(a))
  OBVIOUS
<1> HIDE DEF A, B, weak
<1> QED
  BY <1>3, <1>4, <1>5

-----------------------------------------------------------------------------
(* The plan scores: what the findings take, one by one.                    *)

(* What findings take, finding by finding.                                 *)
Countable(F) == IsFiniteSet(F) /\ \A f \in F : f.points \in Int

(* The points a set of findings takes are the sum over them.               *)
LEMMA TakenIs ==
  ASSUME NEW D, Countable(D)
  PROVE  /\ [f \in D |-> f.points] \in [D -> Int]
         /\ \A S \in SUBSET D : Taken(S) = SumOf([f \in D |-> f.points], S)
<1>1. \A S \in SUBSET D : MapThenSumSet(LAMBDA f : f.points, S) = SumOf([f \in D |-> f.points], S)
  BY DEF SumOf, SumRec, Pick, MapThenSumSet, MapThenFoldSet
<1>2. \A S : Taken(S) = MapThenSumSet(LAMBDA f : f.points, S)
  BY DEF Taken
<1> QED
  BY <1>1, <1>2 DEF Countable

(* Two sets of findings that share none take what each of them takes.      *)
LEMMA TakenUnion ==
  ASSUME NEW F, Countable(F), NEW G, Countable(G), F \cap G = {}
  PROVE  Countable(F \cup G) /\ Taken(F \cup G) = Taken(F) + Taken(G) /\ Taken(F) \in Int /\ Taken(G) \in Int
<1> DEFINE D == F \cup G
           worth == [f \in D |-> f.points]
<1>1. Countable(D)
  BY FS_Union DEF Countable
<1>2. F \in SUBSET D /\ G \in SUBSET D /\ IsFiniteSet(D)
  BY <1>1 DEF Countable
<1> HIDE DEF D
<1>3. worth \in [D -> Int] /\ Taken(F) = SumOf(worth, F) /\ Taken(G) = SumOf(worth, G)
  BY <1>1, <1>2, TakenIs
<1>4. Taken(D) = SumOf(worth, D)
  BY <1>1, TakenIs
<1> HIDE DEF worth
<1>5. SumOf(worth, F \cup G) = SumOf(worth, F) + SumOf(worth, G) /\ SumOf(worth, F) \in Int /\ SumOf(worth, G) \in Int
  <2>1. \A B \in SUBSET D : F \cap B = {} => SumOf(worth, F \cup B) = SumOf(worth, F) + SumOf(worth, B)
    BY <1>2, <1>3, SumUnion
  <2>2. SumOf(worth, F) \in Int /\ SumOf(worth, G) \in Int
    BY <1>2, <1>3, SumValue
  <2> QED
    BY <1>2, <2>1, <2>2
<1>6. F \cup G = D
  BY DEF D
<1> QED
  BY <1>1, <1>3, <1>4, <1>5, <1>6

(* One finding takes its points, none take nothing.                        *)
LEMMA TakenOne ==
  ASSUME NEW x, x.points \in Int
  PROVE  Countable({x}) /\ Taken({x}) = x.points /\ Countable({}) /\ Taken({}) = 0
<1> DEFINE D == {x}
           worth == [f \in D |-> f.points]
<1>1. Countable(D) /\ Countable({})
  BY FS_Singleton, FS_EmptySet DEF Countable
<1>2. worth \in [D -> Int] /\ worth[x] = x.points /\ x \in D /\ D \ {x} = {} /\ IsFiniteSet(D) /\ {} \in SUBSET D /\
          D \in SUBSET D
  BY <1>1 DEF Countable
<1> HIDE DEF D
<1>3. Taken(D) = SumOf(worth, D) /\ Taken({}) = SumOf(worth, {})
  BY <1>1, <1>2, TakenIs
<1> HIDE DEF worth
<1>4. SumOf(worth, D) = worth[x] + SumOf(worth, {})
  <2>1. SumOf(worth, D) = worth[x] + SumOf(worth, D \ {x})
    BY <1>2, SumRemove
  <2> QED
    BY <1>2, <2>1, Zenon
<1>5. SumOf(worth, {}) = 0
  BY SumEmpty
<1>6. Taken(D) = x.points /\ Taken({}) = 0
  BY <1>2, <1>3, <1>4, <1>5
<1> QED
  BY <1>1, <1>6 DEF D

(* One finding more or none.                                               *)
Weighs(e, n) == IF e = {} THEN 0 ELSE n

(* A finding with a title of its own adds its points where it applies.     *)
LEMMA TakenMore ==
  ASSUME NEW F, Countable(F), NEW x, x.points \in Int, NEW e, e = {} \/ e = {x}, \A f \in F : f.title # x.title
  PROVE  Countable(F \cup e) /\ Taken(F \cup e) = Taken(F) + Weighs(e, x.points)
<1>1. Taken(F) \in Int
  BY TakenOne, TakenUnion
<1>2. CASE e = {x}
  <2>1. F \cap {x} = {} /\ Weighs(e, x.points) = x.points
    BY <1>2 DEF Weighs
  <2>2. Countable({x}) /\ Taken({x}) = x.points
    BY TakenOne
  <2> QED
    BY <1>1, <1>2, <2>1, <2>2, TakenUnion
<1>3. CASE e = {}
  <2>1. F \cup e = F
    BY <1>3
  <2> QED
    BY <1>1, <1>3, <2>1 DEF Weighs
<1> QED
  BY <1>2, <1>3

(* What the findings about the renewal take.                               *)
Costs(c, n) == IF c THEN n ELSE 0
Gloomy(a) == a.sentiment \in {"Red", "Confirmed Churn"}
StaleNote(a) == HasCommentary(a) /\ a.commentary # Never /\ a.commentary > CommentarySLA(a)
ChurnRisk(a) == FutureRenewals(a) # {} /\ a.opps[NextRenewal(a)].risk
ChurnReason(a) == FutureRenewals(a) # {} /\ a.opps[NextRenewal(a)].reason

(* What the first four findings of the renewal score take.                 *)
LEMMA BaseTaken ==
  ASSUME NEW a
  PROVE  Taken(BaseFindings(a)) =
           Costs(~HasCommentary(a), 1) + Costs(StaleNote(a), 1) + Costs(ChurnRisk(a), 3) + Costs(ChurnReason(a), 2)
<1> DEFINE x1 == Finding("sentiment", 0, "high", SignalIds("cse", {"sentiment"}))
           x2 == Finding("missing commentary", 1, "medium", {})
           x3 == Finding("stale commentary", 1, "medium", SignalIds("cse", {"commentary"}))
           x4 == Finding("churn risk", 3, "high", SignalIds("sf", {"churn_risk"}))
           x5 == Finding("churn reason", 2, "high", SignalIds("sf", {"churn_downsell_reason"}))
           e1 == When(Gloomy(a), x1)
           e2 == When(~HasCommentary(a), x2)
           e3 == When(StaleNote(a), x3)
           e4 == When(ChurnRisk(a), x4)
           e5 == When(ChurnReason(a), x5)
<1>1. /\ x1.points = 0 /\ x2.points = 1 /\ x3.points = 1 /\ x4.points = 3 /\ x5.points = 2
  BY DEF Finding
<1>0. /\ x1.title = "sentiment" /\ x2.title = "missing commentary" /\ x3.title = "stale commentary" /\
           x4.title = "churn risk" /\ x5.title = "churn reason"
  BY DEF Finding
<1>2. BaseFindings(a) = e1 \cup e2 \cup e3 \cup e4 \cup e5
  BY DEF BaseFindings, Gloomy, StaleNote, ChurnRisk, ChurnReason
<1>3. /\ e1 = {} \/ e1 = {x1}
      /\ e2 = {} \/ e2 = {x2}
      /\ e3 = {} \/ e3 = {x3}
      /\ e4 = {} \/ e4 = {x4}
      /\ e5 = {} \/ e5 = {x5}
  BY DEF When, Only
<1>4. /\ Weighs(e1, 0) = Costs(Gloomy(a), 0)
      /\ Weighs(e2, 1) = Costs(~HasCommentary(a), 1)
      /\ Weighs(e3, 1) = Costs(StaleNote(a), 1)
      /\ Weighs(e4, 3) = Costs(ChurnRisk(a), 3)
      /\ Weighs(e5, 2) = Costs(ChurnReason(a), 2)
  BY DEF When, Only, Weighs, Costs
<1> HIDE DEF x1, e1, x2, e2, x3, e3, x4, e4, x5, e5
<1>5. \A e, m : m \in Int => Weighs(e, m) \in Int
  BY DEF Weighs
<1>6. Countable(e1) /\ Taken(e1) = 0
  <2>1. x1.points \in Int
    BY <1>1
  <2>2. Countable({x1}) /\ Taken({x1}) = x1.points /\ Countable({}) /\ Taken({}) = 0
    BY <2>1, TakenOne
  <2>3. CASE e1 = {}
    BY <2>2, <2>3 DEF Weighs
  <2>4. CASE e1 = {x1}
    BY <1>1, <2>2, <2>4 DEF Weighs
  <2> QED
    BY <1>3, <2>3, <2>4
<1>7. Countable(e1 \cup e2) /\ Taken(e1 \cup e2) = Weighs(e2, 1)
  <2> DEFINE f == e1
  <2>1. \A g \in f : g.title # x2.title
    BY <1>0, <1>3, Zenon
  <2>2. Countable(f) /\ x2.points \in Int /\ (e2 = {} \/ e2 = {x2})
    BY <1>1, <1>3, <1>6
  <2> HIDE DEF f
  <2>3. Countable(f \cup e2) /\ Taken(f \cup e2) = Taken(f) + Weighs(e2, x2.points)
    BY <2>1, <2>2, TakenMore
  <2>4. Taken(f \cup e2) = Taken(f) + Weighs(e2, 1)
    BY <1>1, <2>3
  <2> QED
    BY <1>5, <1>6, <2>3, <2>4 DEF f
<1>8. Countable(e1 \cup e2 \cup e3) /\ Taken(e1 \cup e2 \cup e3) = Weighs(e2, 1) + Weighs(e3, 1)
  <2> DEFINE f == e1 \cup e2
  <2>1. \A g \in f : g.title # x3.title
    BY <1>0, <1>3, Zenon
  <2>2. Countable(f) /\ x3.points \in Int /\ (e3 = {} \/ e3 = {x3})
    BY <1>1, <1>3, <1>7
  <2> HIDE DEF f
  <2>3. Countable(f \cup e3) /\ Taken(f \cup e3) = Taken(f) + Weighs(e3, x3.points)
    BY <2>1, <2>2, TakenMore
  <2>4. Taken(f \cup e3) = Taken(f) + Weighs(e3, 1)
    BY <1>1, <2>3
  <2> QED
    BY <1>5, <1>7, <2>3, <2>4 DEF f
<1>9. Countable(e1 \cup e2 \cup e3 \cup e4) /\
          Taken(e1 \cup e2 \cup e3 \cup e4) = Weighs(e2, 1) + Weighs(e3, 1) + Weighs(e4, 3)
  <2> DEFINE f == e1 \cup e2 \cup e3
  <2>1. \A g \in f : g.title # x4.title
    BY <1>0, <1>3, Zenon
  <2>2. Countable(f) /\ x4.points \in Int /\ (e4 = {} \/ e4 = {x4})
    BY <1>1, <1>3, <1>8
  <2> HIDE DEF f
  <2>3. Countable(f \cup e4) /\ Taken(f \cup e4) = Taken(f) + Weighs(e4, x4.points)
    BY <2>1, <2>2, TakenMore
  <2>4. Taken(f \cup e4) = Taken(f) + Weighs(e4, 3)
    BY <1>1, <2>3
  <2> QED
    BY <1>5, <1>8, <2>3, <2>4 DEF f
<1>10. Countable(e1 \cup e2 \cup e3 \cup e4 \cup e5) /\
           Taken(e1 \cup e2 \cup e3 \cup e4 \cup e5) = Weighs(e2, 1) + Weighs(e3, 1) + Weighs(e4, 3) + Weighs(e5, 2)
  <2> DEFINE f == e1 \cup e2 \cup e3 \cup e4
  <2>1. \A g \in f : g.title # x5.title
    BY <1>0, <1>3, Zenon
  <2>2. Countable(f) /\ x5.points \in Int /\ (e5 = {} \/ e5 = {x5})
    BY <1>1, <1>3, <1>9
  <2> HIDE DEF f
  <2>3. Countable(f \cup e5) /\ Taken(f \cup e5) = Taken(f) + Weighs(e5, x5.points)
    BY <2>1, <2>2, TakenMore
  <2>4. Taken(f \cup e5) = Taken(f) + Weighs(e5, 2)
    BY <1>1, <2>3
  <2> QED
    BY <1>5, <1>9, <2>3, <2>4 DEF f
<1> QED
  BY <1>2, <1>4, <1>10, Zenon

Quiet(a) == LastActivity(a) \in 31..(Never - 1)
Graver(a) == a.category \in {"High", "Critical"}
Approaching(a) == FutureRenewals(a) # {} /\ DaysToRenewal(a) <= 90 /\ BaseScore(a) < 0

(* What the last three findings of the renewal score take.                 *)
LEMMA LateTaken ==
  ASSUME NEW a
  PROVE  Taken(LateFindings(a)) =
           Costs(Graver(a), 2) + Costs(Underused(a), 1) + Costs(Quiet(a), 1)
<1> DEFINE x1 == Finding("approaching", 0, "high", SignalIds("sf", {"days_to_renewal"}))
           x2 == Finding("Cerebro risk", 2, "high", SignalIds("cerebro", {"risk_category"}))
           x3 == Finding("underutilization", 1, "medium", UtilizationIds(a))
           x4 == Finding("engagement", 1, "medium", {})
           e1 == When(Approaching(a), x1)
           e2 == When(Graver(a), x2)
           e3 == When(Underused(a), x3)
           e4 == When(Quiet(a), x4)
<1>1. /\ x1.points = 0 /\ x2.points = 2 /\ x3.points = 1 /\ x4.points = 1
  BY DEF Finding
<1>0. /\ x1.title = "approaching" /\ x2.title = "Cerebro risk" /\ x3.title = "underutilization" /\
           x4.title = "engagement"
  BY DEF Finding
<1>2. LateFindings(a) = e1 \cup e2 \cup e3 \cup e4
  BY DEF LateFindings, Quiet, Graver, Approaching
<1>3. /\ e1 = {} \/ e1 = {x1}
      /\ e2 = {} \/ e2 = {x2}
      /\ e3 = {} \/ e3 = {x3}
      /\ e4 = {} \/ e4 = {x4}
  BY DEF When, Only
<1>4. /\ Weighs(e1, 0) = Costs(Approaching(a), 0)
      /\ Weighs(e2, 2) = Costs(Graver(a), 2)
      /\ Weighs(e3, 1) = Costs(Underused(a), 1)
      /\ Weighs(e4, 1) = Costs(Quiet(a), 1)
  BY DEF When, Only, Weighs, Costs
<1> HIDE DEF x1, e1, x2, e2, x3, e3, x4, e4
<1>5. \A e, m : m \in Int => Weighs(e, m) \in Int
  BY DEF Weighs
<1>6. Countable(e1) /\ Taken(e1) = 0
  <2>1. x1.points \in Int
    BY <1>1
  <2>2. Countable({x1}) /\ Taken({x1}) = x1.points /\ Countable({}) /\ Taken({}) = 0
    BY <2>1, TakenOne
  <2>3. CASE e1 = {}
    BY <2>2, <2>3 DEF Weighs
  <2>4. CASE e1 = {x1}
    BY <1>1, <2>2, <2>4 DEF Weighs
  <2> QED
    BY <1>3, <2>3, <2>4
<1>7. Countable(e1 \cup e2) /\ Taken(e1 \cup e2) = Weighs(e2, 2)
  <2> DEFINE f == e1
  <2>1. \A g \in f : g.title # x2.title
    BY <1>0, <1>3, Zenon
  <2>2. Countable(f) /\ x2.points \in Int /\ (e2 = {} \/ e2 = {x2})
    BY <1>1, <1>3, <1>6
  <2> HIDE DEF f
  <2>3. Countable(f \cup e2) /\ Taken(f \cup e2) = Taken(f) + Weighs(e2, x2.points)
    BY <2>1, <2>2, TakenMore
  <2>4. Taken(f \cup e2) = Taken(f) + Weighs(e2, 2)
    BY <1>1, <2>3
  <2> QED
    BY <1>5, <1>6, <2>3, <2>4 DEF f
<1>8. Countable(e1 \cup e2 \cup e3) /\ Taken(e1 \cup e2 \cup e3) = Weighs(e2, 2) + Weighs(e3, 1)
  <2> DEFINE f == e1 \cup e2
  <2>1. \A g \in f : g.title # x3.title
    BY <1>0, <1>3, Zenon
  <2>2. Countable(f) /\ x3.points \in Int /\ (e3 = {} \/ e3 = {x3})
    BY <1>1, <1>3, <1>7
  <2> HIDE DEF f
  <2>3. Countable(f \cup e3) /\ Taken(f \cup e3) = Taken(f) + Weighs(e3, x3.points)
    BY <2>1, <2>2, TakenMore
  <2>4. Taken(f \cup e3) = Taken(f) + Weighs(e3, 1)
    BY <1>1, <2>3
  <2> QED
    BY <1>5, <1>7, <2>3, <2>4 DEF f
<1>9. Countable(e1 \cup e2 \cup e3 \cup e4) /\
          Taken(e1 \cup e2 \cup e3 \cup e4) = Weighs(e2, 2) + Weighs(e3, 1) + Weighs(e4, 1)
  <2> DEFINE f == e1 \cup e2 \cup e3
  <2>1. \A g \in f : g.title # x4.title
    BY <1>0, <1>3, Zenon
  <2>2. Countable(f) /\ x4.points \in Int /\ (e4 = {} \/ e4 = {x4})
    BY <1>1, <1>3, <1>8
  <2> HIDE DEF f
  <2>3. Countable(f \cup e4) /\ Taken(f \cup e4) = Taken(f) + Weighs(e4, x4.points)
    BY <2>1, <2>2, TakenMore
  <2>4. Taken(f \cup e4) = Taken(f) + Weighs(e4, 1)
    BY <1>1, <2>3
  <2> QED
    BY <1>5, <1>8, <2>3, <2>4 DEF f
<1> QED
  BY <1>2, <1>4, <1>9, Zenon

(* And those about the expansion.                                          *)
Hot(a) == UpsellOf(a) = "Hot"
Pleased(a) == a.sentiment = "Green"

(* What the hypotheses of the expansion score add.                         *)
LEMMA HypothesesTaken ==
  ASSUME NEW a
  PROVE  Taken(Hypotheses(a)) =
           Costs(Hot(a), 2) + Costs(Pleased(a), 1) + Costs(Expansions(a) # {}, 1) + Costs(a.overage, 2)
<1> DEFINE x1 == Finding("hot upsell", 2, "high", {})
           x2 == Finding("positive sentiment", 1, "medium", SignalIds("cse", {"sentiment"}))
           x3 == Finding("pipeline", 1, "medium", PipelineIds(a))
           x4 == Finding("overage", 2, "high", IdsOf(CerebroUsage(a)))
           e1 == When(Hot(a), x1)
           e2 == When(Pleased(a), x2)
           e3 == When(Expansions(a) # {}, x3)
           e4 == When(a.overage, x4)
<1>1. /\ x1.points = 2 /\ x2.points = 1 /\ x3.points = 1 /\ x4.points = 2
  BY DEF Finding
<1>0. /\ x1.title = "hot upsell" /\ x2.title = "positive sentiment" /\ x3.title = "pipeline" /\ x4.title = "overage"
  BY DEF Finding
<1>2. Hypotheses(a) = e1 \cup e2 \cup e3 \cup e4
  BY DEF Hypotheses, Hot, Pleased
<1>3. /\ e1 = {} \/ e1 = {x1}
      /\ e2 = {} \/ e2 = {x2}
      /\ e3 = {} \/ e3 = {x3}
      /\ e4 = {} \/ e4 = {x4}
  BY DEF When, Only
<1>4. /\ Weighs(e1, 2) = Costs(Hot(a), 2)
      /\ Weighs(e2, 1) = Costs(Pleased(a), 1)
      /\ Weighs(e3, 1) = Costs(Expansions(a) # {}, 1)
      /\ Weighs(e4, 2) = Costs(a.overage, 2)
  BY DEF When, Only, Weighs, Costs
<1> HIDE DEF x1, e1, x2, e2, x3, e3, x4, e4
<1>5. \A e, m : m \in Int => Weighs(e, m) \in Int
  BY DEF Weighs
<1>6. Countable(e1) /\ Taken(e1) = Weighs(e1, 2)
  <2>1. x1.points \in Int
    BY <1>1
  <2>2. Countable({x1}) /\ Taken({x1}) = x1.points /\ Countable({}) /\ Taken({}) = 0
    BY <2>1, TakenOne
  <2>3. CASE e1 = {}
    BY <2>2, <2>3 DEF Weighs
  <2>4. CASE e1 = {x1}
    BY <1>1, <2>2, <2>4 DEF Weighs
  <2> QED
    BY <1>3, <2>3, <2>4
<1>7. Countable(e1 \cup e2) /\ Taken(e1 \cup e2) = Weighs(e1, 2) + Weighs(e2, 1)
  <2> DEFINE f == e1
  <2>1. \A g \in f : g.title # x2.title
    BY <1>0, <1>3, Zenon
  <2>2. Countable(f) /\ x2.points \in Int /\ (e2 = {} \/ e2 = {x2})
    BY <1>1, <1>3, <1>6
  <2> HIDE DEF f
  <2>3. Countable(f \cup e2) /\ Taken(f \cup e2) = Taken(f) + Weighs(e2, x2.points)
    BY <2>1, <2>2, TakenMore
  <2>4. Taken(f \cup e2) = Taken(f) + Weighs(e2, 1)
    BY <1>1, <2>3
  <2> QED
    BY <1>5, <1>6, <2>3, <2>4 DEF f
<1>8. Countable(e1 \cup e2 \cup e3) /\ Taken(e1 \cup e2 \cup e3) = Weighs(e1, 2) + Weighs(e2, 1) + Weighs(e3, 1)
  <2> DEFINE f == e1 \cup e2
  <2>1. \A g \in f : g.title # x3.title
    BY <1>0, <1>3, Zenon
  <2>2. Countable(f) /\ x3.points \in Int /\ (e3 = {} \/ e3 = {x3})
    BY <1>1, <1>3, <1>7
  <2> HIDE DEF f
  <2>3. Countable(f \cup e3) /\ Taken(f \cup e3) = Taken(f) + Weighs(e3, x3.points)
    BY <2>1, <2>2, TakenMore
  <2>4. Taken(f \cup e3) = Taken(f) + Weighs(e3, 1)
    BY <1>1, <2>3
  <2> QED
    BY <1>5, <1>7, <2>3, <2>4 DEF f
<1>9. Countable(e1 \cup e2 \cup e3 \cup e4) /\
          Taken(e1 \cup e2 \cup e3 \cup e4) = Weighs(e1, 2) + Weighs(e2, 1) + Weighs(e3, 1) + Weighs(e4, 2)
  <2> DEFINE f == e1 \cup e2 \cup e3
  <2>1. \A g \in f : g.title # x4.title
    BY <1>0, <1>3, Zenon
  <2>2. Countable(f) /\ x4.points \in Int /\ (e4 = {} \/ e4 = {x4})
    BY <1>1, <1>3, <1>8
  <2> HIDE DEF f
  <2>3. Countable(f \cup e4) /\ Taken(f \cup e4) = Taken(f) + Weighs(e4, x4.points)
    BY <2>1, <2>2, TakenMore
  <2>4. Taken(f \cup e4) = Taken(f) + Weighs(e4, 2)
    BY <1>1, <2>3
  <2> QED
    BY <1>5, <1>8, <2>3, <2>4 DEF f
<1> QED
  BY <1>2, <1>4, <1>9, Zenon

(* As many images as elements.                                             *)
LEMMA SameSize ==
  ASSUME NEW S, IsFiniteSet(S), NEW f, f = [x \in S |-> f[x]], \A x, y \in S : f[x] = f[y] => x = y
  PROVE  IsFiniteSet({f[x] : x \in S}) /\ Cardinality({f[x] : x \in S}) = Cardinality(S)
<1> DEFINE T == {f[x] : x \in S}
<1>1. f \in [S -> T]
  OBVIOUS
<1>2. f \in Surjection(S, T)
  BY <1>1 DEF Surjection
<1>3. f \in Injection(S, T)
  BY <1>1 DEF Injection, IsInjective
<1>4. ExistsBijection(S, T)
  BY <1>2, <1>3 DEF ExistsBijection, Bijection
<1> QED
  BY <1>4, FS_Bijection

(* Ones add up to their number.                                            *)
LEMMA SumOnes ==
  ASSUME NEW D, IsFiniteSet(D), NEW worth \in [D -> Int], \A x \in D : worth[x] = 1
  PROVE  \A s \in SUBSET D : SumOf(worth, s) = Cardinality(s)
<1> DEFINE Bad == {s \in SUBSET D : ~(SumOf(worth, s) = Cardinality(s))}
<1>1. SUFFICES ASSUME Bad # {}
               PROVE  FALSE
  OBVIOUS
<1>2. PICK m \in Bad : \A s \in SUBSET m : s # m => s \notin Bad
  <2>1. Bad \in SUBSET (SUBSET D)
    OBVIOUS
  <2> HIDE DEF Bad
  <2> QED
    BY <1>1, <2>1, SmallestBad
<1>3. m \in SUBSET D /\ SumOf(worth, m) # Cardinality(m)
  OBVIOUS
<1>4. m # {}
  BY <1>3, SumEmpty, FS_EmptySet
<1>5. PICK x \in m : TRUE
  BY <1>4
<1> DEFINE r == m \ {x}
<1>6. r \in SUBSET D /\ r \in SUBSET m /\ r # m /\ x \in D
  BY <1>3, <1>5
<1>7. SumOf(worth, r) = Cardinality(r)
  BY <1>2, <1>6
<1> HIDE DEF Bad
<1>8. SumOf(worth, m) = worth[x] + SumOf(worth, r)
  BY <1>3, <1>5, SumRemove
<1>9. worth[x] = 1 /\ SumOf(worth, r) \in Int
  BY <1>6, SumValue
<1>10. Cardinality(r) = Cardinality(m) - 1 /\ Cardinality(m) \in Nat
  <2>1. IsFiniteSet(m)
    BY <1>3, FS_Subset
  <2> QED
    BY <1>5, <2>1, FS_RemoveElement, FS_CardinalityType
<1> QED
  BY <1>3, <1>7, <1>8, <1>9, <1>10

(* Findings of one point each take as many points as there are of them.    *)
LEMMA TakenOnes ==
  ASSUME NEW F, IsFiniteSet(F), \A f \in F : f.points = 1
  PROVE  Countable(F) /\ Taken(F) = Cardinality(F)
<1> DEFINE worth == [f \in F |-> f.points]
<1>1. Countable(F)
  BY DEF Countable
<1>2. worth \in [F -> Int] /\ Taken(F) = SumOf(worth, F)
  BY <1>1, TakenIs
<1>3. \A x \in F : worth[x] = 1
  OBVIOUS
<1> HIDE DEF worth
<1>4. SumOf(worth, F) = Cardinality(F)
  BY <1>2, <1>3, SumOnes
<1> QED
  BY <1>1, <1>2, <1>4

(* The fields of a finding.                                                *)
LEMMA FindingIs ==
  ASSUME NEW title, NEW points, NEW impact, NEW cites
  PROVE  /\ Finding(title, points, impact, cites).title = title
         /\ Finding(title, points, impact, cites).points = points
         /\ Finding(title, points, impact, cites).cites = cites
BY DEF Finding

(* A finding for each of a set, each with its own evidence.                *)
EachOf(S, title, impact, system) == {Finding(title, 1, impact, {id}) : id \in SignalIds(system, S)}

(* One finding for each of a set, one point each.                          *)
LEMMA FindingEach ==
  ASSUME NEW S, IsFiniteSet(S), NEW title, NEW impact, NEW system
  PROVE  /\ Countable(EachOf(S, title, impact, system)) /\ Taken(EachOf(S, title, impact, system)) = Cardinality(S)
         /\ \A f \in EachOf(S, title, impact, system) : f.title = title
<1> DEFINE each == [x \in S |-> Finding(title, 1, impact, {<<system, x>>})]
           F == {each[x] : x \in S}
<1>1. \A x \in S : each[x] = Finding(title, 1, impact, {<<system, x>>})
  OBVIOUS
<1>2. each = [x \in S |-> each[x]]
  OBVIOUS
<1>3. F = EachOf(S, title, impact, system)
  BY DEF SignalIds, EachOf
<1> HIDE DEF each
<1>4. \A x \in S : each[x].title = title /\ each[x].points = 1 /\ each[x].cites = {<<system, x>>}
  <2> SUFFICES ASSUME NEW x \in S
               PROVE  each[x].title = title /\ each[x].points = 1 /\ each[x].cites = {<<system, x>>}
    OBVIOUS
  <2>1. each[x] = Finding(title, 1, impact, {<<system, x>>})
    BY <1>1
  <2> QED
    BY <2>1 DEF Finding
<1>5. \A x, y \in S : each[x] = each[y] => x = y
  <2> SUFFICES ASSUME NEW x \in S, NEW y \in S, each[x] = each[y]
               PROVE  x = y
    OBVIOUS
  <2>1. {<<system, x>>} = {<<system, y>>}
    BY <1>4
  <2>2. <<system, x>> = <<system, y>>
    BY <2>1, Zenon
  <2> QED
    BY <2>2
<1>6. IsFiniteSet(F) /\ Cardinality(F) = Cardinality(S)
  BY <1>2, <1>5, SameSize
<1>7. \A f \in F : f.points = 1 /\ f.title = title
  BY <1>4
<1> HIDE DEF F
<1>8. Countable(F) /\ Taken(F) = Cardinality(F)
  BY <1>6, <1>7, TakenOnes
<1> QED
  BY <1>3, <1>6, <1>7, <1>8

(* The findings about the support take a point for each flag, each concern *)
(* and a low usage.                                                        *)
LEMMA SupportTaken ==
  ASSUME NEW a, NEW k, IsAccount(a, k)
  PROVE  /\ Taken(SupportFindings(a)) = Cardinality(a.flags) + Cardinality(1..a.live) + Costs(Underused(a), 1)
         /\ Cardinality(a.flags) \in Nat /\ Cardinality(1..a.live) \in Nat
<1> DEFINE impact == IF a.category \in {"High", "Critical"} THEN "high" ELSE "medium"
           low == Finding("low usage", 1, "medium", UtilizationIds(a))
           F == EachOf(a.flags, "flag", impact, "risk_flag")
           C == EachOf(1..a.live, "concern", "medium", "live_concern")
           e == When(Underused(a), low)
<1>1. SupportFindings(a) = F \cup C \cup e
  BY DEF SupportFindings, FlagIds, ConcernIds, EachOf
<1>2. IsFiniteSet(a.flags) /\ IsFiniteSet(1..a.live)
  <2>1. IsFiniteSet(a.flags)
    BY RisksFinite
  <2>2. a.live \in Int
    BY CountsAre
  <2>3. IsFiniteSet(1..a.live)
    BY <2>2, FS_Interval
  <2> QED
    BY <2>1, <2>3
<1>3. Cardinality(a.flags) \in Nat /\ Cardinality(1..a.live) \in Nat
  BY <1>2, FS_CardinalityType
<1>4. Countable(F) /\ Taken(F) = Cardinality(a.flags) /\ \A f \in F : f.title = "flag"
  BY <1>2, FindingEach
<1>5. Countable(C) /\ Taken(C) = Cardinality(1..a.live) /\ \A f \in C : f.title = "concern"
  BY <1>2, FindingEach
<1>6. low.points = 1
  BY DEF Finding
<1>7. low.title = "low usage"
  BY DEF Finding
<1>8. (e = {} \/ e = {low}) /\ Weighs(e, 1) = Costs(Underused(a), 1)
  BY DEF When, Only, Weighs, Costs
<1> HIDE DEF F, C, e, low
<1>9. F \cap C = {}
  BY <1>4, <1>5, Zenon
<1>10. \A f \in F \cup C : f.title # low.title
  BY <1>4, <1>5, <1>7, Zenon
<1>11. low.points \in Int
  BY <1>6
<1>13. Countable(F \cup C) /\ Taken(F \cup C) = Taken(F) + Taken(C)
  BY <1>4, <1>5, <1>9, TakenUnion
<1>14. Taken((F \cup C) \cup e) = Taken(F \cup C) + Weighs(e, low.points)
  BY <1>8, <1>10, <1>11, <1>13, TakenMore
<1>15. Taken(SupportFindings(a)) = Cardinality(a.flags) + Cardinality(1..a.live) + Costs(Underused(a), 1)
  BY <1>1, <1>4, <1>5, <1>6, <1>8, <1>13, <1>14, Zenon
<1> QED
  BY <1>3, <1>15

(* The soonest of some opportunities, and the first of those.              *)
LEMMA SoonestExists ==
  ASSUME NEW days \in [Opps -> Int], NEW S \in SUBSET Opps, S # {}
  PROVE  \E o \in S : \A p \in S : days[o] <= days[p]
<1> DEFINE D == {days[o] : o \in S}
<1>1. Min(D) \in D /\ \A o \in S : Min(D) <= days[o]
  BY SoonestIs
<1>2. PICK o \in S : Min(D) = days[o]
  BY <1>1
<1> QED
  BY <1>1, <1>2

(* The next of some renewals ahead is one of them.                         *)
LEMMA NextExists ==
  ASSUME NEW a, NEW k, IsAccount(a, k), FutureRenewals(a) # {}
  PROVE  NextRenewal(a) \in FutureRenewals(a)
<1> DEFINE S == FutureRenewals(a)
           days == [o \in Opps |-> a.opps[o].due]
           T == {o \in S : \A p \in S : days[o] <= days[p]}
           ids == [o \in Opps |-> o]
<1>1. S \in SUBSET Opps /\ days \in [Opps -> Int] /\ ids \in [Opps -> Int]
  BY OppsAre, RiskAssumption DEF FutureRenewals
<1>2. T # {} /\ T \in SUBSET Opps
  <2>1. S # {}
    OBVIOUS
  <2> HIDE DEF days, S
  <2>2. \E o \in S : \A p \in S : days[o] <= days[p]
    BY <1>1, <2>1, SoonestExists
  <2> QED
    BY <1>1, <2>2
<1>3. PICK o \in T : \A p \in T : ids[o] <= ids[p]
  <2> HIDE DEF T, ids
  <2> QED
    BY <1>1, <1>2, SoonestExists
<1>4. \A p \in S : a.opps[o].due < a.opps[p].due \/ (a.opps[o].due = a.opps[p].due /\ o <= p)
  <2> SUFFICES ASSUME NEW p \in S
               PROVE  a.opps[o].due < a.opps[p].due \/ (a.opps[o].due = a.opps[p].due /\ o <= p)
    OBVIOUS
  <2>1. p \in Opps /\ o \in Opps /\ o \in S /\ a.opps[o].due \in Int /\ a.opps[p].due \in Int
    BY <1>1, OppsAre
  <2>2. a.opps[o].due <= a.opps[p].due /\ \A q \in S : a.opps[o].due <= a.opps[q].due
    BY <1>1, <2>1
  <2>3. CASE a.opps[o].due = a.opps[p].due
    <3>1. p \in T
      BY <1>1, <2>1, <2>2, <2>3
    <3>2. o <= p
      BY <1>3, <2>1, <3>1
    <3> QED
      BY <2>3, <3>2
  <2> QED
    BY <2>1, <2>2, <2>3
<1>5. o \in S
  OBVIOUS
<1> QED
  BY <1>4, <1>5 DEF NextRenewal

(* The renewals ahead, when the opportunities stay and when days pass.     *)
RenewalsStay(a, b) ==
  /\ FutureRenewals(b) = FutureRenewals(a) /\ Expansions(b) = Expansions(a)
  /\ ChurnRisk(b) = ChurnRisk(a) /\ ChurnReason(b) = ChurnReason(a) /\ SoftPoints(b) = SoftPoints(a)

(* The same opportunities hold the same renewals ahead.                    *)
LEMMA SameOppsStay ==
  ASSUME NEW a, NEW b, b.opps = a.opps
  PROVE  RenewalsStay(a, b)
<1>1. FutureRenewals(b) = FutureRenewals(a) /\ Expansions(b) = Expansions(a)
  BY DEF FutureRenewals, OpenRenewal, Expansions
<1>2. NextRenewal(b) = NextRenewal(a)
  BY <1>1 DEF NextRenewal
<1>3. ChurnRisk(b) = ChurnRisk(a) /\ ChurnReason(b) = ChurnReason(a) /\ SoftPoints(b) = SoftPoints(a)
  BY <1>1, <1>2 DEF ChurnRisk, ChurnReason, SoftPoints
<1> QED
  BY <1>1, <1>3 DEF RenewalsStay

(* Days that pass no renewal leave the renewals ahead, their order and     *)
(* their risks as they are.                                                *)
LEMMA LaterOppsStay ==
  ASSUME NEW a, NEW k, IsAccount(a, k), NEW n \in Nat, NEW b, b = Later(a, n),
         \A o \in Present(a) : a.opps[o].due > n \/ a.opps[o].due < 0
  PROVE  RenewalsStay(a, b)
<1>1. \A o \in Opps : /\ b.opps[o].due = a.opps[o].due - n /\ a.opps[o].due \in Int
                      /\ \A f \in OppFields \ {"due"} : b.opps[o][f] = a.opps[o][f]
  BY LaterFields, OppsAre
<1>2. {"type", "stage", "fullChurn", "notice", "risk", "reason", "soft"} \subseteq OppFields \ {"due"}
  BY DEF OppFields, OppAnswers, OppAmounts
<1>3. \A o \in Opps : /\ b.opps[o].type = a.opps[o].type /\ b.opps[o].stage = a.opps[o].stage
                      /\ b.opps[o].fullChurn = a.opps[o].fullChurn /\ b.opps[o].notice = a.opps[o].notice
                      /\ b.opps[o].risk = a.opps[o].risk /\ b.opps[o].reason = a.opps[o].reason /\
                           b.opps[o].soft = a.opps[o].soft
  BY <1>1, <1>2
<1>4. \A o \in Opps : OpenRenewal(b, o) <=> OpenRenewal(a, o)
  BY <1>3 DEF OpenRenewal
<1>5. ASSUME NEW o \in Opps, OpenRenewal(a, o)
      PROVE  b.opps[o].due >= 0 <=> a.opps[o].due >= 0
  <2>1. o \in Present(a)
    BY <1>5 DEF OpenRenewal, Present
  <2>2. a.opps[o].due > n \/ a.opps[o].due < 0
    BY <2>1
  <2>3. b.opps[o].due = a.opps[o].due - n /\ a.opps[o].due \in Int
    BY <1>1
  <2> QED
    BY <2>2, <2>3
<1>6. FutureRenewals(b) = FutureRenewals(a)
  BY <1>4, <1>5 DEF FutureRenewals
<1>7. Expansions(b) = Expansions(a)
  BY <1>3 DEF Expansions
<1> DEFINE S == FutureRenewals(a)
           First(c, o) == \A p \in S : c.opps[o].due < c.opps[p].due \/ (c.opps[o].due = c.opps[p].due /\ o <= p)
<1>8. \A o \in S : First(b, o) <=> First(a, o)
  <2>1. S \subseteq Opps
    BY DEF FutureRenewals
  <2> HIDE DEF S
  <2>2. ASSUME NEW o \in S, NEW p \in S
        PROVE  /\ b.opps[o].due < b.opps[p].due <=> a.opps[o].due < a.opps[p].due
               /\ b.opps[o].due = b.opps[p].due <=> a.opps[o].due = a.opps[p].due
    <3> DEFINE x == a.opps[o].due
               y == a.opps[p].due
    <3>1. b.opps[o].due = x - n /\ b.opps[p].due = y - n /\ x \in Int /\ y \in Int
      BY <1>1, <2>1
    <3> HIDE DEF x, y
    <3>2. (x - n < y - n <=> x < y) /\ (x - n = y - n <=> x = y)
      BY <3>1
    <3> QED
      BY <3>1, <3>2 DEF x, y
  <2> QED
    BY <2>2
<1>9. NextRenewal(b) = NextRenewal(a)
  <2>1. NextRenewal(b) = CHOOSE o \in S : First(b, o)
    BY <1>6 DEF NextRenewal
  <2>2. NextRenewal(a) = CHOOSE o \in S : First(a, o)
    BY DEF NextRenewal
  <2> HIDE DEF S, First
  <2> QED
    BY <1>8, <2>1, <2>2
<1>10. FutureRenewals(a) # {} => NextRenewal(a) \in FutureRenewals(a)
  BY NextExists
<1>11. ChurnRisk(b) = ChurnRisk(a) /\ ChurnReason(b) = ChurnReason(a) /\ SoftPoints(b) = SoftPoints(a)
  <2>1. FutureRenewals(a) # {} => NextRenewal(a) \in Opps
    BY <1>10 DEF FutureRenewals
  <2> QED
    BY <1>3, <1>6, <1>9, <2>1 DEF ChurnRisk, ChurnReason, SoftPoints
<1> QED
  BY <1>6, <1>7, <1>11 DEF RenewalsStay

(* What the renewal's score takes.                                         *)
LEMMA RenewalIs ==
  ASSUME NEW a
  PROVE  /\ RenewalScore(a) = MoodPoints(a)
              - (Costs(~HasCommentary(a), 1) + Costs(StaleNote(a), 1) + Costs(ChurnRisk(a),
                  3) + Costs(ChurnReason(a), 2))
              - SoftPoints(a) - (Costs(Graver(a), 2) + Costs(Underused(a), 1) + Costs(Quiet(a), 1))
         /\ MoodPoints(a) \in Int /\ SoftPoints(a) \in Int
         /\ Costs(~HasCommentary(a), 1) \in Int /\ Costs(StaleNote(a), 1) \in Int /\ Costs(ChurnRisk(a), 3) \in Int
         /\ Costs(ChurnReason(a), 2) \in Int /\ Costs(Graver(a), 2) \in Int /\ Costs(Underused(a), 1) \in Int
         /\ Costs(Quiet(a), 1) \in Int
<1>1. MoodPoints(a) \in Int /\ SoftPoints(a) \in Int
  BY DEF MoodPoints, SoftPoints
<1>2. /\ Costs(~HasCommentary(a), 1) \in Int /\ Costs(StaleNote(a), 1) \in Int /\ Costs(ChurnRisk(a), 3) \in Int
      /\ Costs(ChurnReason(a), 2) \in Int /\ Costs(Graver(a), 2) \in Int /\ Costs(Underused(a), 1) \in Int
      /\ Costs(Quiet(a), 1) \in Int
  BY DEF Costs
<1>3. RenewalScore(a) = MoodPoints(a) - Taken(BaseFindings(a)) - SoftPoints(a) - Taken(LateFindings(a))
  BY DEF RenewalScore, BaseScore
<1>4. Taken(BaseFindings(a)) = Costs(~HasCommentary(a), 1) + Costs(StaleNote(a), 1) + Costs(ChurnRisk(a),
          3) + Costs(ChurnReason(a), 2)
  BY BaseTaken
<1>5. Taken(LateFindings(a)) = Costs(Graver(a), 2) + Costs(Underused(a), 1) + Costs(Quiet(a), 1)
  BY LateTaken
<1> QED
  BY <1>1, <1>2, <1>3, <1>4, <1>5, Zenon

(* The renewal's prospects are no better.                                  *)
Pressed(a, b) ==
  /\ RenewalsStay(a, b) /\ b.text = a.text
  /\ StaleNote(a) => StaleNote(b)
  /\ MoodPoints(b) <= MoodPoints(a)
  /\ Graver(a) => Graver(b)
  /\ Underused(a) => Underused(b)
  /\ Quiet(a) => Quiet(b)

(* A view under no less pressure has no higher renewal score.              *)
LEMMA PressedFalls ==
  ASSUME NEW a, NEW b, Pressed(a, b)
  PROVE  RenewalScore(b) <= RenewalScore(a)
<1>1. HasCommentary(a) <=> HasCommentary(b)
  BY DEF Pressed, HasCommentary
<1>2. Costs(~HasCommentary(a), 1) = Costs(~HasCommentary(b), 1)
  BY <1>1 DEF Costs
<1>3. Costs(StaleNote(a), 1) <= Costs(StaleNote(b), 1)
  BY DEF Costs, Pressed
<1>4. Costs(ChurnRisk(a), 3) = Costs(ChurnRisk(b), 3) /\ Costs(ChurnReason(a), 2) = Costs(ChurnReason(b), 2)
  BY DEF Pressed, RenewalsStay
<1>5. Costs(Graver(a), 2) <= Costs(Graver(b), 2)
  BY DEF Costs, Pressed
<1>6. Costs(Underused(a), 1) <= Costs(Underused(b), 1)
  BY DEF Costs, Pressed
<1>7. Costs(Quiet(a), 1) <= Costs(Quiet(b), 1)
  BY DEF Costs, Pressed
<1>8. MoodPoints(b) <= MoodPoints(a) /\ SoftPoints(b) = SoftPoints(a)
  BY DEF Pressed, RenewalsStay
<1> HIDE DEF Pressed
<1> DEFINE u1 == Costs(~HasCommentary(a), 1)
           u2 == Costs(StaleNote(a), 1)
           u3 == Costs(ChurnRisk(a), 3)
           u4 == Costs(ChurnReason(a), 2)
           u5 == Costs(Graver(a), 2)
           u6 == Costs(Underused(a), 1)
           u7 == Costs(Quiet(a), 1)
           v1 == Costs(~HasCommentary(b), 1)
           v2 == Costs(StaleNote(b), 1)
           v3 == Costs(ChurnRisk(b), 3)
           v4 == Costs(ChurnReason(b), 2)
           v5 == Costs(Graver(b), 2)
           v6 == Costs(Underused(b), 1)
           v7 == Costs(Quiet(b), 1)
<1>9. /\ RenewalScore(a) = MoodPoints(a) - (u1 + u2 + u3 + u4) - SoftPoints(a) - (u5 + u6 + u7)
      /\ RenewalScore(b) = MoodPoints(b) - (v1 + v2 + v3 + v4) - SoftPoints(b) - (v5 + v6 + v7)
  BY RenewalIs, Zenon
<1>10. /\ MoodPoints(a) \in Int /\ SoftPoints(a) \in Int /\ MoodPoints(b) \in Int
       /\ u1 \in Int /\ u2 \in Int /\ u3 \in Int /\ u4 \in Int /\ u5 \in Int /\ u6 \in Int /\ u7 \in Int
       /\ v1 \in Int /\ v2 \in Int /\ v3 \in Int /\ v4 \in Int /\ v5 \in Int /\ v6 \in Int /\ v7 \in Int
  BY RenewalIs, Zenon
<1>11. u1 = v1 /\ u2 <= v2 /\ u3 = v3 /\ u4 = v4 /\ u5 <= v5 /\ u6 <= v6 /\ u7 <= v7
  BY <1>2, <1>3, <1>4, <1>5, <1>6, <1>7
<1> HIDE DEF u1, u2, u3, u4, u5, u6, u7, v1, v2, v3, v4, v5, v6, v7
<1> QED
  BY <1>8, <1>9, <1>10, <1>11

(* What a sentiment that gets worse, short of a churn, does.               *)
LEMMA MoodFalls ==
  ASSUME NEW a, NEW k, IsAccount(a, k), NEW b, NEW j, IsAccount(b, j), ~ConfirmedChurn(b),
         Place(Sentiments, a.sentiment) < Place(Sentiments, b.sentiment)
  PROVE  /\ b.sentiment = "Yellow" \/ b.sentiment = "Red"
         /\ a.sentiment = "none" \/ a.sentiment = "Green" \/ a.sentiment = "Yellow"
         /\ a.sentiment = "Yellow" => b.sentiment = "Red"
<1> DEFINE lost == "Confirmed Churn"
<1>1. /\ a.sentiment \in {"none", "Green", "Yellow", "Red", lost} /\
           b.sentiment \in {"none", "Green", "Yellow", "Red", lost}
  BY SetsAre, Zenon
<1>2. b.sentiment # lost
  BY DEF ConfirmedChurn
<1>3. lost # "none" /\ lost # "Green" /\ lost # "Yellow" /\ lost # "Red"
  OBVIOUS
<1>4. /\ Place(Sentiments, "Green") = 0 /\ Place(Sentiments, "Yellow") = 1 /\ Place(Sentiments, "Red") = 2
      /\ Place(Sentiments, lost) = 3 /\ Place(Sentiments, "none") = 0
  BY SentimentPlaces, Zenon
<1> HIDE DEF lost
<1>5. b.sentiment = "Yellow" \/ b.sentiment = "Red"
  <2>1. CASE b.sentiment = "none" \/ b.sentiment = "Green"
    BY <1>1, <1>4, <2>1
  <2> QED
    BY <1>1, <1>2, <2>1
<1>6. a.sentiment # lost /\ a.sentiment # "Red" /\ (a.sentiment = "Yellow" => b.sentiment = "Red")
  BY <1>4, <1>5
<1> QED
  BY <1>1, <1>5, <1>6

(* A view that got worse is under no less pressure.                        *)
LEMMA WorsePressed ==
  ASSUME NEW a, NEW k \in Int, IsAccount(a, k), 30 <= k, NEW b, NEW j, IsAccount(b, j), Worse(a, b),
           ~ConfirmedChurn(b)
  PROVE  Pressed(a, b)
<1>1. a.commentary \in Int /\ b.commentary \in Int
  BY AgesAre
<1>2. ASSUME SameBut(a, b, "flags"), a.flags \subseteq b.flags
      PROVE  Pressed(a, b)
  <2>1. /\ b.opps = a.opps /\ b.text = a.text /\ b.commentary = a.commentary /\ b.sentiment = a.sentiment
        /\ b.category = a.category /\ b.sentimentAge = a.sentimentAge /\ b.meeting = a.meeting /\
             b.workshop = a.workshop
    BY <1>2, FactsStay
  <2>2. RenewalsStay(a, b)
    BY <2>1, SameOppsStay
  <2>3. StaleNote(b) = StaleNote(a) /\ MoodPoints(b) = MoodPoints(a) /\ Graver(b) = Graver(a) /\ Quiet(b) = Quiet(a)
    BY <2>1 DEF StaleNote, HasCommentary, CommentarySLA, MoodPoints, Graver, Quiet, LastActivity
  <2>4. Underused(a) => Underused(b)
    BY <1>2 DEF Underused
  <2>5. MoodPoints(b) <= MoodPoints(a)
    BY <2>3, RenewalIs
  <2> QED
    BY <2>1, <2>2, <2>3, <2>4, <2>5 DEF Pressed
<1>3. ASSUME SameBut(a, b, "category"), Place(Categories, a.category) < Place(Categories, b.category)
      PROVE  Pressed(a, b)
  <2>1. /\ b.opps = a.opps /\ b.text = a.text /\ b.commentary = a.commentary /\ b.sentiment = a.sentiment
        /\ b.flags = a.flags /\ b.sentimentAge = a.sentimentAge /\ b.meeting = a.meeting /\ b.workshop = a.workshop
    BY <1>3, FactsStay
  <2>2. RenewalsStay(a, b)
    BY <2>1, SameOppsStay
  <2>3. StaleNote(b) = StaleNote(a) /\ MoodPoints(b) = MoodPoints(a) /\ Underused(b) = Underused(a) /\
            Quiet(b) = Quiet(a)
    BY <2>1 DEF StaleNote, HasCommentary, CommentarySLA, MoodPoints, Underused, Quiet, LastActivity
  <2>4. Graver(a) => Graver(b)
    <3>1. b.category \in {"none", "Low", "Medium", "High", "Critical"}
      BY SetsAre
    <3> QED
      BY <1>3, <3>1, CategoryPlaces DEF Graver
  <2>5. MoodPoints(b) <= MoodPoints(a)
    BY <2>3, RenewalIs
  <2> QED
    BY <2>1, <2>2, <2>3, <2>4, <2>5 DEF Pressed
<1>4. ASSUME SameBut(a, b, "sentiment"), Place(Sentiments, a.sentiment) < Place(Sentiments, b.sentiment)
      PROVE  Pressed(a, b)
  <2>1. /\ b.opps = a.opps /\ b.text = a.text /\ b.commentary = a.commentary /\ b.category = a.category
        /\ b.flags = a.flags /\ b.sentimentAge = a.sentimentAge /\ b.meeting = a.meeting /\ b.workshop = a.workshop
    BY <1>4, FactsStay
  <2>2. RenewalsStay(a, b)
    BY <2>1, SameOppsStay
  <2>3. Graver(b) = Graver(a) /\ Underused(b) = Underused(a) /\ Quiet(b) = Quiet(a) /\
            HasCommentary(b) = HasCommentary(a)
    BY <2>1 DEF HasCommentary, Underused, Quiet, LastActivity, Graver
  <2>4. CommentarySLA(b) = 14 /\ MoodPoints(b) <= MoodPoints(a)
    <3>1. /\ b.sentiment = "Yellow" \/ b.sentiment = "Red"
          /\ a.sentiment = "none" \/ a.sentiment = "Green" \/ a.sentiment = "Yellow"
          /\ a.sentiment = "Yellow" => b.sentiment = "Red"
      BY <1>4, MoodFalls
    <3>2. CommentarySLA(b) = 14
      BY <3>1 DEF CommentarySLA
    <3>3. MoodPoints(b) = 0 \/ MoodPoints(b) = -2
      BY <3>1 DEF MoodPoints
    <3>4. MoodPoints(a) = 0 \/ MoodPoints(a) = 2
      BY <3>1 DEF MoodPoints
    <3> QED
      BY <3>2, <3>3, <3>4
  <2>5. StaleNote(a) => StaleNote(b)
    BY <1>1, <2>1, <2>3, <2>4 DEF StaleNote, CommentarySLA
  <2> QED
    BY <2>1, <2>2, <2>3, <2>4, <2>5 DEF Pressed
<1>5. ASSUME SameBut(a, b, "minutes30")
      PROVE  Pressed(a, b)
  <2>1. /\ b.opps = a.opps /\ b.text = a.text /\ b.commentary = a.commentary /\ b.category = a.category /\
             b.sentiment = a.sentiment
        /\ b.flags = a.flags /\ b.sentimentAge = a.sentimentAge /\ b.meeting = a.meeting /\ b.workshop = a.workshop
    BY <1>5, FactsStay
  <2>2. RenewalsStay(a, b)
    BY <2>1, SameOppsStay
  <2>3. /\ Graver(b) = Graver(a) /\ Underused(b) = Underused(a) /\ Quiet(b) = Quiet(a) /\ StaleNote(b) = StaleNote(a)
        /\ MoodPoints(b) = MoodPoints(a)
    BY <2>1 DEF HasCommentary, Underused, Quiet, LastActivity, Graver, StaleNote, CommentarySLA, MoodPoints
  <2>5. MoodPoints(b) <= MoodPoints(a)
    BY <2>3, RenewalIs
  <2> QED
    BY <2>1, <2>2, <2>3, <2>5 DEF Pressed
<1>6. ASSUME SameBut(a, b, "opps"), OppsAlike(a, b), \E o \in Present(a) : b.opps[o].notice
      PROVE  FALSE
  <2>1. Present(b) = Present(a)
    BY <1>6, AlikeStays
  <2> QED
    BY <1>6, <2>1 DEF ConfirmedChurn, Noticed
<1>7. ASSUME NEW n \in {1, 30}, b = Later(a, n), \A o \in Present(a) : a.opps[o].due > n \/ a.opps[o].due < 0
      PROVE  Pressed(a, b)
  <2>0. n \in Nat /\ n <= k
    OBVIOUS
  <2>1. /\ b.text = a.text /\ b.commentary = Older(a.commentary, n) /\ b.category = a.category /\
             b.sentiment = a.sentiment
        /\ b.flags = a.flags
    BY <1>7, <2>0, LaterFields
  <2>2. RenewalsStay(a, b)
    BY <1>7, <2>0, LaterOppsStay
  <2>3. Graver(b) = Graver(a) /\ Underused(b) = Underused(a) /\ MoodPoints(b) = MoodPoints(a) /\
            HasCommentary(b) = HasCommentary(a)
        /\ CommentarySLA(b) = CommentarySLA(a) /\ CommentarySLA(a) \in Int
    BY <2>1 DEF HasCommentary, Underused, Graver, CommentarySLA, MoodPoints
  <2>4. StaleNote(a) => StaleNote(b)
    <3>1. InTime(a.commentary, k)
      BY AgesAre DEF Ages
    <3>2. b.commentary \in Int /\ a.commentary <= b.commentary /\ (b.commentary = Never <=> a.commentary = Never)
      BY <1>1, <2>0, <2>1, <3>1, OlderIs
    <3> QED
      BY <1>1, <2>3, <3>2 DEF StaleNote
  <2>5. MoodPoints(b) <= MoodPoints(a)
    BY <2>3, RenewalIs
  <2>6. Quiet(a) => Quiet(b)
    <3>1. LastActivity(a) <= LastActivity(b) /\ (LastActivity(b) >= Never => LastActivity(a) >= Never)
      BY <1>7, <2>0, ActivityLater
    <3>2. LastActivity(a) \in Int /\ LastActivity(b) \in Int
      BY ActivityIs
    <3> DEFINE x == LastActivity(a)
               y == LastActivity(b)
    <3>3. (Quiet(a) <=> x \in 31..9999) /\ (Quiet(b) <=> y \in 31..9999)
      BY DEF Quiet, Never
    <3>4. x <= y /\ (y >= 10000 => x >= 10000) /\ x \in Int /\ y \in Int
      BY <3>1, <3>2 DEF Never
    <3> HIDE DEF x, y
    <3>5. x \in 31..9999 => y \in 31..9999
      BY <3>4
    <3> QED
      BY <3>3, <3>5
  <2> QED
    BY <2>1, <2>2, <2>3, <2>4, <2>5, <2>6 DEF Pressed
<1> QED
  BY <1>2, <1>3, <1>4, <1>5, <1>6, <1>7, WorseHow

(* What the support's score takes.                                         *)
Load(p) == IF p = 3 THEN 4 ELSE IF p = 2 THEN 3 ELSE IF p = 1 THEN 1 ELSE 0

(* The support score: flags, live tickets, low use and the category.       *)
LEMMA SupportIs ==
  ASSUME NEW a, NEW k, IsAccount(a, k)
  PROVE  /\ SupportScore(a) = Cardinality(a.flags) + Cardinality(1..a.live) + Costs(Underused(a),
           1) + Load(Place(Categories, a.category))
         /\ Cardinality(a.flags) \in Nat /\ Cardinality(1..a.live) \in Nat /\ Costs(Underused(a), 1) \in Int
         /\ Place(Categories, a.category) \in 0..3 /\ Load(Place(Categories, a.category)) \in Int
<1> DEFINE load == CASE a.category = "Critical" -> 4 [] a.category = "High" -> 3 [] a.category = "Medium" -> 1 [] OTHER -> 0
<1>1. load = Load(Place(Categories, a.category)) /\ Place(Categories, a.category) \in 0..3
  <2>1. a.category \in {"none", "Low", "Medium", "High", "Critical"}
    BY SetsAre
  <2>2. CASE a.category = "none"
    BY <2>2, CategoryPlaces DEF Load
  <2>3. CASE a.category = "Low"
    BY <2>3, CategoryPlaces DEF Load
  <2>4. CASE a.category = "Medium"
    BY <2>4, CategoryPlaces DEF Load
  <2>5. CASE a.category = "High"
    BY <2>5, CategoryPlaces DEF Load
  <2>6. CASE a.category = "Critical"
    BY <2>6, CategoryPlaces DEF Load
  <2> QED
    BY <2>1, <2>2, <2>3, <2>4, <2>5, <2>6
<1>2. SupportScore(a) = Taken(SupportFindings(a)) + load
  BY DEF SupportScore
<1>3. Costs(Underused(a), 1) \in Int /\ Load(Place(Categories, a.category)) \in Int
  BY DEF Costs, Load
<1> HIDE DEF load
<1>4. /\ Taken(SupportFindings(a)) = Cardinality(a.flags) + Cardinality(1..a.live) + Costs(Underused(a), 1)
      /\ Cardinality(a.flags) \in Nat /\ Cardinality(1..a.live) \in Nat
  BY SupportTaken
<1> QED
  BY <1>1, <1>2, <1>3, <1>4

(* More flags and a graver category give no lower support score.           *)
LEMMA SupportGrows ==
  ASSUME NEW a, NEW k, IsAccount(a, k), NEW b, NEW j, IsAccount(b, j),
         a.flags \subseteq b.flags, b.live = a.live, Place(Categories, a.category) <= Place(Categories, b.category)
  PROVE  SupportScore(b) >= SupportScore(a)
<1> DEFINE p == Place(Categories, a.category)
           q == Place(Categories, b.category)
           n == Cardinality(a.flags)
           m == Cardinality(b.flags)
           u == Costs(Underused(a), 1)
           v == Costs(Underused(b), 1)
           l == Cardinality(1..a.live)
<1>1. n <= m
  <2>1. IsFiniteSet(b.flags)
    BY RisksFinite
  <2> QED
    BY <2>1, FS_Subset
<1>2. u <= v
  <2>1. Underused(a) => Underused(b)
    BY DEF Underused
  <2> QED
    BY <2>1 DEF Costs
<1>3. SupportScore(a) = n + l + u + Load(p) /\ n \in Nat /\ l \in Nat /\ u \in Int /\ p \in 0..3 /\ Load(p) \in Int
  BY SupportIs, Zenon
<1>4. SupportScore(b) = m + l + v + Load(q) /\ m \in Nat /\ v \in Int /\ q \in 0..3 /\ Load(q) \in Int
  BY SupportIs, Zenon
<1>5. p <= q
  OBVIOUS
<1> HIDE DEF p, q, n, m, u, v, l
<1>6. Load(p) <= Load(q)
  BY <1>3, <1>4, <1>5 DEF Load
<1> QED
  BY <1>1, <1>2, <1>3, <1>4, <1>6

(* What the upsell takes: each ground, and the sums of the amounts.        *)
AcvDelta(a) == SumOver(a, LAMBDA o : o.acvDelta)
Selling(a) == \E o \in Present(a) : a.opps[o].type = "Upsell" /\ a.opps[o].stage = "open"
Improved(a, w) ==
  a.category # "none" /\ w.category # "none" /\ Place(Categories, a.category) < Place(Categories, w.category)
Content(a) == a.sentiment = "Green" /\ AcvDelta(a) >= 0

(* The change of contract value is a sum over the opportunities present.   *)
LEMMA AcvIs ==
  ASSUME NEW a
  PROVE  AcvDelta(a) = SumOf([o \in Opps |-> a.opps[o].acvDelta], Present(a))
<1>1. Present(a) \in SUBSET Opps
  BY DEF Present
<1>2. \A S \in SUBSET Opps : MapThenSumSet(LAMBDA o : a.opps[o].acvDelta,
          S) = SumOf([o \in Opps |-> a.opps[o].acvDelta], S)
  BY DEF SumOf, SumRec, Pick, MapThenSumSet, MapThenFoldSet
<1>3. AcvDelta(a) = MapThenSumSet(LAMBDA o : a.opps[o].acvDelta, Present(a))
  BY DEF AcvDelta, SumOver
<1> QED
  BY <1>1, <1>2, <1>3

(* It is of the opportunities' types and amounts alone.                    *)
LEMMA AcvStays ==
  ASSUME NEW a, NEW b, \A o \in Opps : b.opps[o].type = a.opps[o].type /\ b.opps[o].acvDelta = a.opps[o].acvDelta
  PROVE  AcvDelta(b) = AcvDelta(a)
<1>1. Present(b) = Present(a) /\ Present(a) \in SUBSET Opps
  BY OppsStay
<1>2. [o \in Opps |-> b.opps[o].acvDelta] = [o \in Opps |-> a.opps[o].acvDelta]
  OBVIOUS
<1>3. /\ AcvDelta(a) = SumOf([o \in Opps |-> a.opps[o].acvDelta], Present(a))
      /\ AcvDelta(b) = SumOf([o \in Opps |-> b.opps[o].acvDelta], Present(b))
  BY AcvIs
<1> QED
  BY <1>1, <1>2, <1>3

Grounds(a, w) ==
  Costs(Selling(a), 30) + Costs(a.workshop <= 90, 15) + Costs(Improved(a, w), 15) + Costs(a.pbu > 70, 15)
    + Costs(Content(a), 10) + Costs(a.products < 3, 10) + Costs(a.meeting <= 30, 5)

(* The upsell points: the grounds for an upsell, a hundred at most.        *)
LEMMA UpsellIs ==
  ASSUME NEW a, NEW w
  PROVE  Grounds(a, w) \in Int /\ UpsellPoints(a, w) = IF Grounds(a, w) >= 100 THEN 100 ELSE Grounds(a, w)
<1>1. UpsellPoints(a, w) = Min({100, Grounds(a, w)})
  BY DEF UpsellPoints, Grounds, Costs, Selling, Improved, Content, AcvDelta
<1>2. Grounds(a, w) \in Int
  <2>1. \A c, n : n \in Int => Costs(c, n) \in Int
    BY DEF Costs
  <2> QED
    BY <2>1 DEF Grounds
<1> QED
  BY <1>1, <1>2, OfTwo

(* Nothing that gets worse adds to the upsell.                             *)
Waned(a, b) ==
  /\ Selling(b) = Selling(a) /\ AcvDelta(b) = AcvDelta(a)
  /\ b.pbu = a.pbu /\ b.products = a.products /\ b.overage = a.overage /\ Expansions(b) = Expansions(a)
  /\ b.workshop <= 90 => a.workshop <= 90
  /\ b.meeting <= 30 => a.meeting <= 30
  /\ b.sentiment = "Green" => a.sentiment = "Green"
  /\ b.category = a.category \/ (a.category # "none" /\ Place(Categories, a.category) < Place(Categories, b.category))

(* A view that waned has no more grounds for an upsell.                    *)
LEMMA GroundsFall ==
  ASSUME NEW a, NEW k, IsAccount(a, k), NEW b, NEW j, IsAccount(b, j), NEW w, IsAccount(w, 0), Waned(a, b)
  PROVE  Grounds(b, w) <= Grounds(a, w)
<1> DEFINE u1 == Costs(Selling(a), 30)
           u2 == Costs(a.workshop <= 90, 15)
           u3 == Costs(Improved(a, w), 15)
           u4 == Costs(a.pbu > 70, 15)
           u5 == Costs(Content(a), 10)
           u6 == Costs(a.products < 3, 10)
           u7 == Costs(a.meeting <= 30, 5)
           v1 == Costs(Selling(b), 30)
           v2 == Costs(b.workshop <= 90, 15)
           v3 == Costs(Improved(b, w), 15)
           v4 == Costs(b.pbu > 70, 15)
           v5 == Costs(Content(b), 10)
           v6 == Costs(b.products < 3, 10)
           v7 == Costs(b.meeting <= 30, 5)
<1>1. u1 = v1 /\ u4 = v4 /\ u6 = v6
  BY DEF Waned, Costs
<1>2. v2 <= u2
  <2>1. b.workshop <= 90 => a.workshop <= 90
    BY DEF Waned
  <2> QED
    BY <2>1 DEF Costs
<1>3. v3 <= u3
  <2>1. Improved(b, w) => Improved(a, w)
    <3>1. Grades(a) /\ Grades(b) /\ Grades(w)
      BY GradesAre
    <3>2. Improved(b, w) => a.category # "none" /\ Place(Categories, a.category) <= Place(Categories, b.category)
      BY <3>1 DEF Improved, Waned, Grades
    <3> QED
      BY <3>1, <3>2 DEF Improved, Grades
  <2> QED
    BY <2>1 DEF Costs
<1>4. v5 <= u5
  <2>1. Content(b) => Content(a)
    BY DEF Waned, Content
  <2> QED
    BY <2>1 DEF Costs
<1>5. v7 <= u7
  <2>1. b.meeting <= 30 => a.meeting <= 30
    BY DEF Waned
  <2> QED
    BY <2>1 DEF Costs
<1>6. /\ Grounds(a, w) = u1 + u2 + u3 + u4 + u5 + u6 + u7
      /\ Grounds(b, w) = v1 + v2 + v3 + v4 + v5 + v6 + v7
  BY DEF Grounds
<1>7. /\ u1 \in Int /\ u2 \in Int /\ u3 \in Int /\ u4 \in Int /\ u5 \in Int /\ u6 \in Int /\ u7 \in Int
      /\ v1 \in Int /\ v2 \in Int /\ v3 \in Int /\ v4 \in Int /\ v5 \in Int /\ v6 \in Int /\ v7 \in Int
  BY DEF Costs
<1> HIDE DEF u1, u2, u3, u4, u5, u6, u7, v1, v2, v3, v4, v5, v6, v7
<1> QED
  BY <1>1, <1>2, <1>3, <1>4, <1>5, <1>6, <1>7

(* What the expansion's score takes: the band of the upsell, and the rest. *)
Banded(n) == IF n >= 76 THEN 2 ELSE IF n >= 26 THEN 1 ELSE 0

(* The expansion score: the upsell band and four further grounds.          *)
LEMMA ExpansionIs ==
  ASSUME NEW a
  PROVE  /\ ExpansionScore(a) = Banded(UpsellPoints(a, was)) + Costs(Pleased(a), 1) + Costs(Expansions(a) # {}, 1)
                                  + Costs(a.overage, 2) + Costs(a.products >= 2, 1)
         /\ Costs(Pleased(a), 1) \in Int /\ Costs(Expansions(a) # {}, 1) \in Int /\ Costs(a.overage, 2) \in Int
         /\ Costs(a.products >= 2, 1) \in Int /\ Banded(UpsellPoints(a, was)) \in Int
<1> DEFINE n == UpsellPoints(a, was)
           u1 == Costs(Hot(a), 2)
           u2 == Costs(Pleased(a), 1)
           u3 == Costs(Expansions(a) # {}, 1)
           u4 == Costs(a.overage, 2)
           u5 == Costs(a.products >= 2, 1)
           u6 == IF UpsellOf(a) \in {"Active", "Qualified"} THEN 1 ELSE 0
<1>1. n \in Int
  BY UpsellIs
<1>2. u1 + u6 = Banded(n)
  <2>1. UpsellOf(a) = UpsellBand(n)
    BY DEF UpsellOf
  <2> HIDE DEF n
  <2>2. CASE n >= 76
    <3>1. UpsellOf(a) = "Hot"
      BY <2>1, <2>2 DEF UpsellBand
    <3> QED
      BY <2>2, <3>1 DEF Hot, Costs, Banded
  <2>3. CASE ~(n >= 76) /\ n >= 26
    <3>1. UpsellOf(a) = "Active" \/ UpsellOf(a) = "Qualified"
      BY <2>1, <2>3 DEF UpsellBand
    <3> QED
      BY <2>3, <3>1 DEF Hot, Costs, Banded
  <2>4. CASE ~(n >= 76) /\ ~(n >= 26)
    <3>1. UpsellOf(a) = "Watch"
      BY <1>1, <2>1, <2>4 DEF UpsellBand
    <3> QED
      BY <2>4, <3>1 DEF Hot, Costs, Banded
  <2> QED
    BY <2>2, <2>3, <2>4
<1>3. u1 \in Int /\ u2 \in Int /\ u3 \in Int /\ u4 \in Int /\ u5 \in Int /\ u6 \in Int /\ Banded(n) \in Int
  BY DEF Costs, Banded
<1>4. ExpansionScore(a) = Taken(Hypotheses(a)) + u6 + u5
  BY DEF ExpansionScore, Costs
<1>5. Taken(Hypotheses(a)) = u1 + u2 + u3 + u4
  BY HypothesesTaken
<1> HIDE DEF u1, u2, u3, u4, u5, u6, n
<1>6. ExpansionScore(a) = Banded(n) + u2 + u3 + u4 + u5
  BY <1>2, <1>3, <1>4, <1>5
<1> QED
  BY <1>3, <1>6 DEF u2, u3, u4, u5, n

(* A view that waned has no higher expansion score.                        *)
LEMMA ExpansionFalls ==
  ASSUME NEW a, NEW k, IsAccount(a, k), NEW b, NEW j, IsAccount(b, j), IsAccount(was, 0), Waned(a, b)
  PROVE  ExpansionScore(b) <= ExpansionScore(a)
<1> DEFINE n == UpsellPoints(a, was)
           m == UpsellPoints(b, was)
           u2 == Costs(Pleased(a), 1)
           v2 == Costs(Pleased(b), 1)
           u3 == Costs(Expansions(a) # {}, 1)
           u4 == Costs(a.overage, 2)
           u5 == Costs(a.products >= 2, 1)
<1>1. Grounds(b, was) <= Grounds(a, was) /\ Grounds(a, was) \in Int /\ Grounds(b, was) \in Int
  BY GroundsFall, UpsellIs
<1>2. m <= n /\ m \in Int /\ n \in Int
  <2>1. n = (IF Grounds(a, was) >= 100 THEN 100 ELSE Grounds(a, was)) /\
            m = (IF Grounds(b, was) >= 100 THEN 100 ELSE Grounds(b, was))
    BY UpsellIs
  <2> HIDE DEF n, m
  <2> QED
    BY <1>1, <2>1
<1>3. v2 <= u2
  BY DEF Costs, Pleased, Waned
<1>4. ExpansionScore(a) = Banded(n) + u2 + u3 + u4 + u5 /\ u2 \in Int /\ u3 \in Int /\ u4 \in Int /\ u5 \in Int /\
          Banded(n) \in Int
  BY ExpansionIs
<1>5. /\ Costs(Expansions(b) # {}, 1) = u3 /\ Costs(b.overage, 2) = u4 /\ Costs(b.products >= 2, 1) = u5
  BY DEF Waned, Costs
<1>6. ExpansionScore(b) = Banded(m) + v2 + u3 + u4 + u5 /\ v2 \in Int /\ Banded(m) \in Int
  BY <1>5, ExpansionIs
<1> HIDE DEF n, m, u2, u3, u4, u5, v2
<1>7. Banded(m) <= Banded(n)
  BY <1>2 DEF Banded
<1> QED
  BY <1>3, <1>4, <1>6, <1>7

(* Whatever gets worse, the upsell wanes.                                  *)
LEMMA WorseWanes ==
  ASSUME NEW a, NEW k \in Int, IsAccount(a, k), 30 <= k, NEW b, NEW j, IsAccount(b, j), Worse(a, b),
           ~ConfirmedChurn(b)
  PROVE  Waned(a, b)
<1>1. b.opps = a.opps => Selling(b) = Selling(a) /\ AcvDelta(b) = AcvDelta(a) /\ Expansions(b) = Expansions(a)
  <2> SUFFICES ASSUME b.opps = a.opps
               PROVE  Selling(b) = Selling(a) /\ AcvDelta(b) = AcvDelta(a) /\ Expansions(b) = Expansions(a)
    OBVIOUS
  <2>1. Present(b) = Present(a)
    BY OppsStay
  <2> QED
    BY <2>1, AcvStays DEF Selling, Expansions
<1>2. a.workshop \in Int /\ a.meeting \in Int
  BY AgesAre
<1>3. ASSUME SameBut(a, b, "flags")
      PROVE  Waned(a, b)
  BY <1>1, <1>3, FactsStay DEF Waned
<1>4. ASSUME SameBut(a, b, "category"), a.category # "none",
               Place(Categories, a.category) < Place(Categories, b.category)
      PROVE  Waned(a, b)
  BY <1>1, <1>4, FactsStay DEF Waned
<1>5. ASSUME SameBut(a, b, "sentiment"), Place(Sentiments, a.sentiment) < Place(Sentiments, b.sentiment)
      PROVE  Waned(a, b)
  <2>1. b.sentiment # "Green"
    <3>1. b.sentiment = "Yellow" \/ b.sentiment = "Red"
      BY <1>5, MoodFalls
    <3> QED
      BY <3>1
  <2> QED
    BY <1>1, <1>5, <2>1, FactsStay DEF Waned
<1>6. ASSUME SameBut(a, b, "minutes30")
      PROVE  Waned(a, b)
  BY <1>1, <1>6, FactsStay DEF Waned
<1>7. ASSUME SameBut(a, b, "opps"), OppsAlike(a, b), \E o \in Present(a) : b.opps[o].notice
      PROVE  FALSE
  <2>1. Present(b) = Present(a)
    BY <1>7, AlikeStays
  <2> QED
    BY <1>7, <2>1 DEF ConfirmedChurn, Noticed
<1>8. ASSUME NEW n \in {1, 30}, b = Later(a, n), \A o \in Present(a) : a.opps[o].due > n \/ a.opps[o].due < 0
      PROVE  Waned(a, b)
  <2>0. n \in Nat /\ n <= k
    OBVIOUS
  <2>1. /\ b.category = a.category /\ b.sentiment = a.sentiment /\ b.pbu = a.pbu /\ b.products = a.products /\
             b.overage = a.overage
        /\ b.workshop = Older(a.workshop, n) /\ b.meeting = Older(a.meeting, n)
        /\ \A o \in Opps : \A f \in OppFields \ {"due"} : b.opps[o][f] = a.opps[o][f]
    BY <1>8, <2>0, LaterFields
  <2>2. Expansions(b) = Expansions(a)
    BY <1>8, <2>0, LaterOppsStay DEF RenewalsStay
  <2>3. {"type", "stage", "acvDelta"} \subseteq OppFields \ {"due"}
    BY DEF OppFields, OppAnswers, OppAmounts
  <2>4. \A o \in Opps : b.opps[o].type = a.opps[o].type /\ b.opps[o].stage = a.opps[o].stage /\
            b.opps[o].acvDelta = a.opps[o].acvDelta
    BY <2>1, <2>3
  <2>5. Selling(b) = Selling(a) /\ AcvDelta(b) = AcvDelta(a)
    <3>1. Present(b) = Present(a) /\ Present(a) \subseteq Opps
      BY <2>4, OppsStay
    <3>2. Selling(b) = Selling(a)
      BY <2>4, <3>1 DEF Selling
    <3> QED
      BY <2>4, <3>2, AcvStays
  <2>6. (b.workshop <= 90 => a.workshop <= 90) /\ (b.meeting <= 30 => a.meeting <= 30)
    <3>1. InTime(a.workshop, k) /\ InTime(a.meeting, k)
      BY AgesAre DEF Ages
    <3>2. a.workshop <= b.workshop /\ b.workshop \in Int
      BY <1>2, <2>0, <2>1, <3>1, OlderIs
    <3>3. a.meeting <= b.meeting /\ b.meeting \in Int
      BY <1>2, <2>0, <2>1, <3>1, OlderIs
    <3> QED
      BY <1>2, <3>2, <3>3
  <2> QED
    BY <2>1, <2>2, <2>5, <2>6 DEF Waned
<1> QED
  BY <1>3, <1>4, <1>5, <1>6, <1>7, <1>8, WorseHow

(* And the support is no easier.                                           *)
LEMMA WorseSupport ==
  ASSUME NEW a, NEW k \in Int, IsAccount(a, k), 30 <= k, NEW b, NEW j, IsAccount(b, j), Worse(a, b)
  PROVE  SupportScore(b) >= SupportScore(a)
<1>1. a.flags \subseteq b.flags /\ b.live = a.live /\ Place(Categories, a.category) <= Place(Categories, b.category)
  <2>1. Place(Categories, a.category) \in 0..3 /\ Place(Categories, b.category) \in 0..3
    BY GradesAre DEF Grades
  <2>2. ASSUME SameBut(a, b, "flags"), a.flags \subseteq b.flags
        PROVE  a.flags \subseteq b.flags /\ b.live = a.live /\ b.category = a.category
    BY <2>2, FactsStay
  <2>3. ASSUME SameBut(a, b, "category")
        PROVE  b.flags = a.flags /\ b.live = a.live
    BY <2>3, FactsStay
  <2>4. ASSUME SameBut(a, b, "sentiment") \/ SameBut(a, b, "minutes30") \/ SameBut(a, b, "opps")
        PROVE  b.flags = a.flags /\ b.live = a.live /\ b.category = a.category
    BY <2>4, FactsStay
  <2>5. ASSUME NEW n \in {1, 30}, b = Later(a, n)
        PROVE  b.flags = a.flags /\ b.live = a.live /\ b.category = a.category
    <3>1. n \in Nat
      OBVIOUS
    <3> QED
      BY <2>5, <3>1, LaterFields
  <2>6. CASE SameBut(a, b, "flags") /\ a.flags \subseteq b.flags
    BY <2>1, <2>2, <2>6
  <2>7. CASE SameBut(a, b, "category") /\ Place(Categories, a.category) < Place(Categories, b.category)
    BY <2>1, <2>3, <2>7
  <2>8. CASE SameBut(a, b, "sentiment") \/ SameBut(a, b, "minutes30") \/ SameBut(a, b, "opps")
    BY <2>1, <2>4, <2>8
  <2>9. CASE \E n \in {1, 30} : b = Later(a, n)
    BY <2>1, <2>5, <2>9
  <2> QED
    BY <2>6, <2>7, <2>8, <2>9, WorseHow
<1> QED
  BY <1>1, SupportGrows

-----------------------------------------------------------------------------
(* The signals a plan collects, and the penalty on its confidence.         *)

(* The batches, and the one that a signal can be in.                       *)
SfIds(a) == SignalIds("sf",
    AccountKeys \cup Only(FutureRenewals(a) # {}, RenewalKeys) \cup Only(DaysToRenewal(a) # Never,
        {"days_to_renewal"})) \cup PipelineIds(a)
SentimentIds(a) == SignalIds("cse", {"sentiment"})
CommentaryIds(a) == SignalIds("cse", Only(HasCommentary(a), {"commentary"}))
CoverageIds(a) == SignalIds("cse", {"cs_coverage"})
CategoryIds(a) == SignalIds("cerebro", {"risk_category"})
AnalysisIds(a) == SignalIds("cerebro", Only(a.category # "none", {"risk_analysis"}))
HeadlineIds(a) == SignalIds("cerebro", Only(a.live # None, {"live_headline"}))
SubMetricIds(a) == SignalIds("usage", SubMetrics(a))
MinuteIds(a) == SignalIds("usage", Only(a.minutes30 # None, {"30d"}) \cup Only(a.minutes90 # None, {"90d"}))
LocalIds(a) == SignalIds("local_plan", 1..a.plans)
SnippetIds(a) == SignalIds("snippet", 1..FoundDocs(a))
ChannelIds(a) == SignalIds("slack", Only(a.slack, {"channel_url"}))
MappedIds(a) == SignalIds("slack", {"channel_mapped"})
MentionIds(a) == SignalIds("mention", 1..Min({3, FoundDocs(a)}))
Batches(a) ==
  <<Dimmed(SfIds(a), Freshness(a.updated, 3), "high"),
    Dimmed(SentimentIds(a), Freshness(a.sentimentAge, 3), "high"),
    Dimmed(CommentaryIds(a), Freshness(a.commentary, 3), "high"),
    Batch(CoverageIds(a), Freshness(a.updated, 3), "high"),
    Dimmed(CategoryIds(a), Freshness(a.cerebroAge, 3), "high"),
    Dimmed(AnalysisIds(a), Freshness(a.cerebroAge, 3), "medium"),
    Batch(FlagIds(a), Freshness(a.cerebroAge, 3), "high"),
    Dimmed(HeadlineIds(a), Freshness(a.asOf, 3), "medium"),
    Batch(ConcernIds(a), Freshness(a.asOf, 3), "medium"),
    Dimmed(SubMetricIds(a), Freshness(a.cerebroAge, 3), "medium"),
    Batch(MinuteIds(a), Freshness(a.updated, 3), "high"),
    Batch(UtilizationIds(a), Freshness(a.cerebroAge, 3), "high"),
    Dimmed(LocalIds(a), Freshness(a.docAge, 7), "medium"),
    Batch(SnippetIds(a), Freshness(a.docAge, 3), "low"),
    Batch(ChannelIds(a), "fresh", "high"),
    Batch(MappedIds(a), "unknown", "high"),
    Batch(MentionIds(a), Freshness(a.docAge, 14), "low")>>
Home(id) ==
  IF id[1] = "sf" \/ id[1] = "opp" THEN 1
  ELSE IF id[1] = "cse" THEN (IF id[2] = "sentiment" THEN 2 ELSE IF id[2] = "commentary" THEN 3 ELSE 4)
  ELSE IF id[1] = "cerebro" THEN (IF id[2] = "risk_category" THEN 5 ELSE IF id[2] = "risk_analysis" THEN 6 ELSE 8)
  ELSE IF id[1] = "risk_flag" THEN 7 ELSE IF id[1] = "live_concern" THEN 9
  ELSE IF id[1] = "usage" THEN (IF id[2] \in {"pbu", "overage"} THEN 10 ELSE IF id[2] \in {"30d",
      "90d"} THEN 11 ELSE 12)
  ELSE IF id[1] = "local_plan" THEN 13 ELSE IF id[1] = "snippet" THEN 14
  ELSE IF id[1] = "slack" THEN (IF id[2] = "channel_url" THEN 15 ELSE 16)
  ELSE 17

(* The seventeen batches of signals, one by one.                           *)
LEMMA BatchesAre ==
  ASSUME NEW a
  PROVE  /\ DOMAIN Batches(a) = 1..17
         /\ Batches(a)[1] = Dimmed(SfIds(a), Freshness(a.updated, 3), "high")
         /\ Batches(a)[2] = Dimmed(SentimentIds(a), Freshness(a.sentimentAge, 3), "high")
         /\ Batches(a)[3] = Dimmed(CommentaryIds(a), Freshness(a.commentary, 3), "high")
         /\ Batches(a)[4] = Batch(CoverageIds(a), Freshness(a.updated, 3), "high")
         /\ Batches(a)[5] = Dimmed(CategoryIds(a), Freshness(a.cerebroAge, 3), "high")
         /\ Batches(a)[6] = Dimmed(AnalysisIds(a), Freshness(a.cerebroAge, 3), "medium")
         /\ Batches(a)[7] = Batch(FlagIds(a), Freshness(a.cerebroAge, 3), "high")
         /\ Batches(a)[8] = Dimmed(HeadlineIds(a), Freshness(a.asOf, 3), "medium")
         /\ Batches(a)[9] = Batch(ConcernIds(a), Freshness(a.asOf, 3), "medium")
         /\ Batches(a)[10] = Dimmed(SubMetricIds(a), Freshness(a.cerebroAge, 3), "medium")
         /\ Batches(a)[11] = Batch(MinuteIds(a), Freshness(a.updated, 3), "high")
         /\ Batches(a)[12] = Batch(UtilizationIds(a), Freshness(a.cerebroAge, 3), "high")
         /\ Batches(a)[13] = Dimmed(LocalIds(a), Freshness(a.docAge, 7), "medium")
         /\ Batches(a)[14] = Batch(SnippetIds(a), Freshness(a.docAge, 3), "low")
         /\ Batches(a)[15] = Batch(ChannelIds(a), "fresh", "high")
         /\ Batches(a)[16] = Batch(MappedIds(a), "unknown", "high")
         /\ Batches(a)[17] = Batch(MentionIds(a), Freshness(a.docAge, 14), "low")
BY DEF Batches

(* What each holds.                                                        *)
LEMMA BatchesHold ==
  ASSUME NEW a
  PROVE  /\ Batches(a)[1].ids = SfIds(a) /\ Batches(a)[1].fresh = Freshness(a.updated, 3) /\
           Batches(a)[1].trust = Trust(Freshness(a.updated, 3), "high")
         /\ Batches(a)[2].ids = SentimentIds(a) /\ Batches(a)[2].fresh = Freshness(a.sentimentAge, 3) /\
              Batches(a)[2].trust = Trust(Freshness(a.sentimentAge, 3), "high")
         /\ Batches(a)[3].ids = CommentaryIds(a) /\ Batches(a)[3].fresh = Freshness(a.commentary, 3) /\
              Batches(a)[3].trust = Trust(Freshness(a.commentary, 3), "high")
         /\ Batches(a)[4].ids = CoverageIds(a) /\ Batches(a)[4].fresh = Freshness(a.updated, 3) /\
              Batches(a)[4].trust = "high"
         /\ Batches(a)[5].ids = CategoryIds(a) /\ Batches(a)[5].fresh = Freshness(a.cerebroAge, 3) /\
              Batches(a)[5].trust = Trust(Freshness(a.cerebroAge, 3), "high")
         /\ Batches(a)[6].ids = AnalysisIds(a) /\ Batches(a)[6].fresh = Freshness(a.cerebroAge, 3) /\
              Batches(a)[6].trust = Trust(Freshness(a.cerebroAge, 3), "medium")
         /\ Batches(a)[7].ids = FlagIds(a) /\ Batches(a)[7].fresh = Freshness(a.cerebroAge, 3) /\
              Batches(a)[7].trust = "high"
         /\ Batches(a)[8].ids = HeadlineIds(a) /\ Batches(a)[8].fresh = Freshness(a.asOf, 3) /\
              Batches(a)[8].trust = Trust(Freshness(a.asOf, 3), "medium")
         /\ Batches(a)[9].ids = ConcernIds(a) /\ Batches(a)[9].fresh = Freshness(a.asOf, 3) /\
              Batches(a)[9].trust = "medium"
         /\ Batches(a)[10].ids = SubMetricIds(a) /\ Batches(a)[10].fresh = Freshness(a.cerebroAge, 3) /\
              Batches(a)[10].trust = Trust(Freshness(a.cerebroAge, 3), "medium")
         /\ Batches(a)[11].ids = MinuteIds(a) /\ Batches(a)[11].fresh = Freshness(a.updated, 3) /\
              Batches(a)[11].trust = "high"
         /\ Batches(a)[12].ids = UtilizationIds(a) /\ Batches(a)[12].fresh = Freshness(a.cerebroAge, 3) /\
              Batches(a)[12].trust = "high"
         /\ Batches(a)[13].ids = LocalIds(a) /\ Batches(a)[13].fresh = Freshness(a.docAge, 7) /\
              Batches(a)[13].trust = Trust(Freshness(a.docAge, 7), "medium")
         /\ Batches(a)[14].ids = SnippetIds(a) /\ Batches(a)[14].fresh = Freshness(a.docAge, 3) /\
              Batches(a)[14].trust = "low"
         /\ Batches(a)[15].ids = ChannelIds(a) /\ Batches(a)[15].fresh = "fresh" /\ Batches(a)[15].trust = "high"
         /\ Batches(a)[16].ids = MappedIds(a) /\ Batches(a)[16].fresh = "unknown" /\ Batches(a)[16].trust = "high"
         /\ Batches(a)[17].ids = MentionIds(a) /\ Batches(a)[17].fresh = Freshness(a.docAge, 14) /\
              Batches(a)[17].trust = "low"
<1>1. Batches(a)[1].ids = SfIds(a) /\ Batches(a)[1].fresh = Freshness(a.updated, 3) /\
          Batches(a)[1].trust = Trust(Freshness(a.updated, 3), "high")
  <2>1. Batches(a)[1] = Dimmed(SfIds(a), Freshness(a.updated, 3), "high")
    BY BatchesAre
  <2> QED
    BY <2>1 DEF Dimmed, Batch
<1>2. Batches(a)[2].ids = SentimentIds(a) /\ Batches(a)[2].fresh = Freshness(a.sentimentAge, 3) /\
          Batches(a)[2].trust = Trust(Freshness(a.sentimentAge, 3), "high")
  <2>1. Batches(a)[2] = Dimmed(SentimentIds(a), Freshness(a.sentimentAge, 3), "high")
    BY BatchesAre
  <2> QED
    BY <2>1 DEF Dimmed, Batch
<1>3. Batches(a)[3].ids = CommentaryIds(a) /\ Batches(a)[3].fresh = Freshness(a.commentary, 3) /\
          Batches(a)[3].trust = Trust(Freshness(a.commentary, 3), "high")
  <2>1. Batches(a)[3] = Dimmed(CommentaryIds(a), Freshness(a.commentary, 3), "high")
    BY BatchesAre
  <2> QED
    BY <2>1 DEF Dimmed, Batch
<1>4. Batches(a)[4].ids = CoverageIds(a) /\ Batches(a)[4].fresh = Freshness(a.updated, 3) /\
          Batches(a)[4].trust = "high"
  <2>1. Batches(a)[4] = Batch(CoverageIds(a), Freshness(a.updated, 3), "high")
    BY BatchesAre
  <2> QED
    BY <2>1 DEF Batch
<1>5. Batches(a)[5].ids = CategoryIds(a) /\ Batches(a)[5].fresh = Freshness(a.cerebroAge, 3) /\
          Batches(a)[5].trust = Trust(Freshness(a.cerebroAge, 3), "high")
  <2>1. Batches(a)[5] = Dimmed(CategoryIds(a), Freshness(a.cerebroAge, 3), "high")
    BY BatchesAre
  <2> QED
    BY <2>1 DEF Dimmed, Batch
<1>6. Batches(a)[6].ids = AnalysisIds(a) /\ Batches(a)[6].fresh = Freshness(a.cerebroAge, 3) /\
          Batches(a)[6].trust = Trust(Freshness(a.cerebroAge, 3), "medium")
  <2>1. Batches(a)[6] = Dimmed(AnalysisIds(a), Freshness(a.cerebroAge, 3), "medium")
    BY BatchesAre
  <2> QED
    BY <2>1 DEF Dimmed, Batch
<1>7. Batches(a)[7].ids = FlagIds(a) /\ Batches(a)[7].fresh = Freshness(a.cerebroAge, 3) /\
          Batches(a)[7].trust = "high"
  <2>1. Batches(a)[7] = Batch(FlagIds(a), Freshness(a.cerebroAge, 3), "high")
    BY BatchesAre
  <2> QED
    BY <2>1 DEF Batch
<1>8. Batches(a)[8].ids = HeadlineIds(a) /\ Batches(a)[8].fresh = Freshness(a.asOf, 3) /\
          Batches(a)[8].trust = Trust(Freshness(a.asOf, 3), "medium")
  <2>1. Batches(a)[8] = Dimmed(HeadlineIds(a), Freshness(a.asOf, 3), "medium")
    BY BatchesAre
  <2> QED
    BY <2>1 DEF Dimmed, Batch
<1>9. Batches(a)[9].ids = ConcernIds(a) /\ Batches(a)[9].fresh = Freshness(a.asOf, 3) /\
          Batches(a)[9].trust = "medium"
  <2>1. Batches(a)[9] = Batch(ConcernIds(a), Freshness(a.asOf, 3), "medium")
    BY BatchesAre
  <2> QED
    BY <2>1 DEF Batch
<1>10. Batches(a)[10].ids = SubMetricIds(a) /\ Batches(a)[10].fresh = Freshness(a.cerebroAge, 3) /\
           Batches(a)[10].trust = Trust(Freshness(a.cerebroAge, 3), "medium")
  <2>1. Batches(a)[10] = Dimmed(SubMetricIds(a), Freshness(a.cerebroAge, 3), "medium")
    BY BatchesAre
  <2> QED
    BY <2>1 DEF Dimmed, Batch
<1>11. Batches(a)[11].ids = MinuteIds(a) /\ Batches(a)[11].fresh = Freshness(a.updated, 3) /\
           Batches(a)[11].trust = "high"
  <2>1. Batches(a)[11] = Batch(MinuteIds(a), Freshness(a.updated, 3), "high")
    BY BatchesAre
  <2> QED
    BY <2>1 DEF Batch
<1>12. Batches(a)[12].ids = UtilizationIds(a) /\ Batches(a)[12].fresh = Freshness(a.cerebroAge, 3) /\
           Batches(a)[12].trust = "high"
  <2>1. Batches(a)[12] = Batch(UtilizationIds(a), Freshness(a.cerebroAge, 3), "high")
    BY BatchesAre
  <2> QED
    BY <2>1 DEF Batch
<1>13. Batches(a)[13].ids = LocalIds(a) /\ Batches(a)[13].fresh = Freshness(a.docAge, 7) /\
           Batches(a)[13].trust = Trust(Freshness(a.docAge, 7), "medium")
  <2>1. Batches(a)[13] = Dimmed(LocalIds(a), Freshness(a.docAge, 7), "medium")
    BY BatchesAre
  <2> QED
    BY <2>1 DEF Dimmed, Batch
<1>14. Batches(a)[14].ids = SnippetIds(a) /\ Batches(a)[14].fresh = Freshness(a.docAge, 3) /\
           Batches(a)[14].trust = "low"
  <2>1. Batches(a)[14] = Batch(SnippetIds(a), Freshness(a.docAge, 3), "low")
    BY BatchesAre
  <2> QED
    BY <2>1 DEF Batch
<1>15. Batches(a)[15].ids = ChannelIds(a) /\ Batches(a)[15].fresh = "fresh" /\ Batches(a)[15].trust = "high"
  <2>1. Batches(a)[15] = Batch(ChannelIds(a), "fresh", "high")
    BY BatchesAre
  <2> QED
    BY <2>1 DEF Batch
<1>16. Batches(a)[16].ids = MappedIds(a) /\ Batches(a)[16].fresh = "unknown" /\ Batches(a)[16].trust = "high"
  <2>1. Batches(a)[16] = Batch(MappedIds(a), "unknown", "high")
    BY BatchesAre
  <2> QED
    BY <2>1 DEF Batch
<1>17. Batches(a)[17].ids = MentionIds(a) /\ Batches(a)[17].fresh = Freshness(a.docAge, 14) /\
           Batches(a)[17].trust = "low"
  <2>1. Batches(a)[17] = Batch(MentionIds(a), Freshness(a.docAge, 14), "low")
    BY BatchesAre
  <2> QED
    BY <2>1 DEF Batch
<1> QED
  BY <1>1, <1>2, <1>3, <1>4, <1>5, <1>6, <1>7, <1>8, <1>9, <1>10, <1>11, <1>12, <1>13, <1>14, <1>15, <1>16, <1>17


(* What is collected is what the batches hold.                             *)
LEMMA CollectedIs ==
  ASSUME NEW a
  PROVE  Collected(a) = {Batches(a)[i] : i \in 1..17}
<1> DEFINE B == Batches(a)
<1>1. Salesforce(a) = {B[1]}
  BY BatchesAre DEF Salesforce, PipelineIds, SfIds
<1>2. Cse(a) = {B[2], B[3], B[4]}
  BY BatchesAre DEF Cse, SentimentIds, CommentaryIds, CoverageIds
<1>3. CerebroSupport(a) = {B[5], B[6], B[7], B[8], B[9]}
  BY BatchesAre DEF CerebroSupport, CategoryIds, AnalysisIds, HeadlineIds
<1>4. CerebroUsage(a) = {B[10], B[11], B[12]}
  BY BatchesAre DEF CerebroUsage, SubMetricIds, MinuteIds
<1>5. Glean(a) = {B[13], B[14]}
  BY BatchesAre DEF Glean, LocalIds, SnippetIds
<1>6. Slack(a) = {B[15], B[16], B[17]}
  BY BatchesAre DEF Slack, ChannelIds, MappedIds, MentionIds
<1>7. Collected(a) = Salesforce(a) \cup Cse(a) \cup CerebroSupport(a) \cup CerebroUsage(a) \cup Glean(a) \cup Slack(a)
  BY DEF Collected
<1> HIDE DEF B
<1>8. \A i \in 1..17 : i = 1 \/ i = 2 \/ i = 3 \/ i = 4 \/ i = 5 \/ i = 6 \/ i = 7 \/ i = 8 \/ i = 9 \/ i = 10 \/
          i = 11 \/ i = 12 \/ i = 13 \/ i = 14 \/ i = 15 \/ i = 16 \/ i = 17
  OBVIOUS
<1>9. \A x : x \in Collected(a) => \E i \in 1..17 : x = B[i]
  BY <1>1, <1>2, <1>3, <1>4, <1>5, <1>6, <1>7
<1>10. \A i \in 1..17 : B[i] \in Collected(a)
  BY <1>1, <1>2, <1>3, <1>4, <1>5, <1>6, <1>7, <1>8
<1>11. Collected(a) = {B[i] : i \in 1..17}
  BY <1>9, <1>10
<1> QED
  BY <1>11 DEF B

(* What a batch holds, and what its signals are.                           *)
LEMMA BatchIs ==
  ASSUME NEW ids, NEW fresh, NEW trust
  PROVE  /\ Batch(ids, fresh, trust).ids = ids /\ Batch(ids, fresh, trust).fresh = fresh /\
           Batch(ids, fresh, trust).trust = trust
         /\ Dimmed(ids, fresh, trust).ids = ids /\ Dimmed(ids, fresh, trust).fresh = fresh
         /\ Dimmed(ids, fresh, trust).trust = Trust(fresh, trust)
BY DEF Batch, Dimmed

(* A signal tells its system and its key.                                  *)
LEMMA SignalIs ==
  ASSUME NEW system, NEW keys
  PROVE  \A id \in SignalIds(system, keys) : id[1] = system /\ id[2] \in keys
BY DEF SignalIds

(* A batch that depends on a condition holds no more for it.               *)
LEMMA OnlyIs ==
  ASSUME NEW c, NEW ids
  PROVE  Only(c, ids) \subseteq ids
BY DEF Only

(* No signal is in two batches.                                            *)
LEMMA IdsHome ==
  ASSUME NEW a
  PROVE  \A i \in 1..17 : \A id \in Batches(a)[i].ids : Home(id) = i
<1> DEFINE B == Batches(a)
<1>1. \A id \in B[1].ids : Home(id) = 1
  <2>1. B[1].ids = SfIds(a)
    BY BatchesHold
  <2> HIDE DEF B
  <2>2. \A id \in SfIds(a) : id[1] = "sf" \/ id[1] = "opp"
    BY SignalIs DEF SfIds, PipelineIds
  <2> QED
    BY <2>1, <2>2 DEF Home
<1>2. \A id \in B[2].ids : Home(id) = 2
  <2>1. B[2].ids = SentimentIds(a)
    BY BatchesHold
  <2> HIDE DEF B
  <2>2. \A id \in SentimentIds(a) : id[1] = "cse" /\ id[2] = "sentiment"
    BY SignalIs DEF SentimentIds
  <2> QED
    BY <2>1, <2>2 DEF Home
<1>3. \A id \in B[3].ids : Home(id) = 3
  <2>1. B[3].ids = CommentaryIds(a)
    BY BatchesHold
  <2> HIDE DEF B
  <2>2. \A id \in CommentaryIds(a) : id[1] = "cse" /\ id[2] = "commentary"
    BY SignalIs DEF CommentaryIds, Only
  <2> QED
    BY <2>1, <2>2 DEF Home
<1>4. \A id \in B[4].ids : Home(id) = 4
  <2>1. B[4].ids = CoverageIds(a)
    BY BatchesHold
  <2> HIDE DEF B
  <2>2. \A id \in CoverageIds(a) : id[1] = "cse" /\ id[2] = "cs_coverage"
    BY SignalIs DEF CoverageIds
  <2> QED
    BY <2>1, <2>2 DEF Home
<1>5. \A id \in B[5].ids : Home(id) = 5
  <2>1. B[5].ids = CategoryIds(a)
    BY BatchesHold
  <2> HIDE DEF B
  <2>2. \A id \in CategoryIds(a) : id[1] = "cerebro" /\ id[2] = "risk_category"
    BY SignalIs DEF CategoryIds
  <2> QED
    BY <2>1, <2>2 DEF Home
<1>6. \A id \in B[6].ids : Home(id) = 6
  <2>1. B[6].ids = AnalysisIds(a)
    BY BatchesHold
  <2> HIDE DEF B
  <2>2. \A id \in AnalysisIds(a) : id[1] = "cerebro" /\ id[2] = "risk_analysis"
    BY SignalIs DEF AnalysisIds, Only
  <2> QED
    BY <2>1, <2>2 DEF Home
<1>7. \A id \in B[7].ids : Home(id) = 7
  <2>1. B[7].ids = FlagIds(a)
    BY BatchesHold
  <2> HIDE DEF B
  <2>2. \A id \in FlagIds(a) : id[1] = "risk_flag"
    BY SignalIs DEF FlagIds
  <2> QED
    BY <2>1, <2>2 DEF Home
<1>8. \A id \in B[8].ids : Home(id) = 8
  <2>1. B[8].ids = HeadlineIds(a)
    BY BatchesHold
  <2> HIDE DEF B
  <2>2. \A id \in HeadlineIds(a) : id[1] = "cerebro" /\ id[2] = "live_headline"
    BY SignalIs DEF HeadlineIds, Only
  <2> QED
    BY <2>1, <2>2 DEF Home
<1>9. \A id \in B[9].ids : Home(id) = 9
  <2>1. B[9].ids = ConcernIds(a)
    BY BatchesHold
  <2> HIDE DEF B
  <2>2. \A id \in ConcernIds(a) : id[1] = "live_concern"
    BY SignalIs DEF ConcernIds
  <2> QED
    BY <2>1, <2>2 DEF Home
<1>10. \A id \in B[10].ids : Home(id) = 10
  <2>1. B[10].ids = SubMetricIds(a)
    BY BatchesHold
  <2> HIDE DEF B
  <2>2. \A id \in SubMetricIds(a) : id[1] = "usage" /\ id[2] \in {"pbu", "overage"}
    BY SignalIs DEF SubMetricIds, SubMetrics, Only
  <2> QED
    BY <2>1, <2>2 DEF Home
<1>11. \A id \in B[11].ids : Home(id) = 11
  <2>1. B[11].ids = MinuteIds(a)
    BY BatchesHold
  <2> HIDE DEF B
  <2>2. \A id \in MinuteIds(a) : id[1] = "usage" /\ id[2] \in {"30d", "90d"}
    BY SignalIs DEF MinuteIds, Only
  <2> QED
    BY <2>1, <2>2 DEF Home
<1>12. \A id \in B[12].ids : Home(id) = 12
  <2>1. B[12].ids = UtilizationIds(a)
    BY BatchesHold
  <2> HIDE DEF B
  <2>2. \A id \in UtilizationIds(a) : id[1] = "usage" /\ id[2] = "utilization_risk"
    BY SignalIs DEF UtilizationIds, Only
  <2> QED
    BY <2>1, <2>2 DEF Home
<1>13. \A id \in B[13].ids : Home(id) = 13
  <2>1. B[13].ids = LocalIds(a)
    BY BatchesHold
  <2> HIDE DEF B
  <2>2. \A id \in LocalIds(a) : id[1] = "local_plan"
    BY SignalIs DEF LocalIds
  <2> QED
    BY <2>1, <2>2 DEF Home
<1>14. \A id \in B[14].ids : Home(id) = 14
  <2>1. B[14].ids = SnippetIds(a)
    BY BatchesHold
  <2> HIDE DEF B
  <2>2. \A id \in SnippetIds(a) : id[1] = "snippet"
    BY SignalIs DEF SnippetIds
  <2> QED
    BY <2>1, <2>2 DEF Home
<1>15. \A id \in B[15].ids : Home(id) = 15
  <2>1. B[15].ids = ChannelIds(a)
    BY BatchesHold
  <2> HIDE DEF B
  <2>2. \A id \in ChannelIds(a) : id[1] = "slack" /\ id[2] = "channel_url"
    BY SignalIs DEF ChannelIds, Only
  <2> QED
    BY <2>1, <2>2 DEF Home
<1>16. \A id \in B[16].ids : Home(id) = 16
  <2>1. B[16].ids = MappedIds(a)
    BY BatchesHold
  <2> HIDE DEF B
  <2>2. \A id \in MappedIds(a) : id[1] = "slack" /\ id[2] = "channel_mapped"
    BY SignalIs DEF MappedIds
  <2> QED
    BY <2>1, <2>2 DEF Home
<1>17. \A id \in B[17].ids : Home(id) = 17
  <2>1. B[17].ids = MentionIds(a)
    BY BatchesHold
  <2> HIDE DEF B
  <2>2. \A id \in MentionIds(a) : id[1] = "mention"
    BY SignalIs DEF MentionIds
  <2> QED
    BY <2>1, <2>2 DEF Home
<1> HIDE DEF B
<1> DEFINE Lives(i) == \A id \in B[i].ids : Home(id) = i
<1>18. /\ Lives(1) /\ Lives(2) /\ Lives(3) /\ Lives(4) /\ Lives(5) /\ Lives(6) /\ Lives(7) /\ Lives(8) /\ Lives(9)
       /\ Lives(10) /\ Lives(11) /\ Lives(12) /\ Lives(13) /\ Lives(14) /\ Lives(15) /\ Lives(16) /\ Lives(17)
  BY <1>1, <1>2, <1>3, <1>4, <1>5, <1>6, <1>7, <1>8, <1>9, <1>10, <1>11, <1>12, <1>13, <1>14, <1>15, <1>16, <1>17
<1> HIDE DEF Lives
<1>19. \A i \in 1..17 : Lives(i)
  BY <1>18
<1> QED
  BY <1>19 DEF Lives, B

(* The signals of a batch are finitely many.                               *)
LEMMA SignalsFinite ==
  ASSUME NEW keys, IsFiniteSet(keys), NEW system
  PROVE  IsFiniteSet(SignalIds(system, keys))
<1> DEFINE each == [x \in keys |-> <<system, x>>]
<1>1. each = [x \in keys |-> each[x]] /\ SignalIds(system, keys) = {each[x] : x \in keys}
  BY DEF SignalIds
<1>2. \A x, y \in keys : each[x] = each[y] => x = y
  OBVIOUS
<1> HIDE DEF each
<1> QED
  BY <1>1, <1>2, SameSize

(* It is finite when what it would hold is.                                *)
LEMMA OnlyFinite ==
  ASSUME NEW c, NEW ids, IsFiniteSet(ids)
  PROVE  IsFiniteSet(Only(c, ids))
BY OnlyIs, FS_Subset

(* The keys of the account and of the renewal fields are finitely many.    *)
LEMMA KeysFinite ==
  /\ IsFiniteSet(AccountKeys) /\ IsFiniteSet(RenewalKeys) /\ \A x : IsFiniteSet({x})
<1>1. \A x : IsFiniteSet({x})
  BY FS_Singleton
<1>2. IsFiniteSet(AccountKeys)
  <2>1. IsFiniteSet({"account_name", "account_owner", "assigned_cse", "franchise", "all_time_arr",
            "active_product_lines", "customer_status"})
    BY ListedFinite
  <2>2. AccountKeys = {"account_name", "account_owner", "assigned_cse", "franchise", "all_time_arr",
            "active_product_lines", "customer_status"}
                        \cup {"churn_reason"}
    BY DEF AccountKeys
  <2> QED
    BY <1>1, <2>1, <2>2, FS_Union
<1>3. IsFiniteSet(RenewalKeys)
  <2>1. IsFiniteSet({"renewal_close_date", "renewal_stage", "available_to_renew", "renewal_acv", "acv_delta",
            "forecast_most_likely", "forecast_category"})
    BY ListedFinite
  <2>2. RenewalKeys = ({"renewal_close_date", "renewal_stage", "available_to_renew", "renewal_acv", "acv_delta",
            "forecast_most_likely", "forecast_category"}
                         \cup {"churn_downsell_reason"}) \cup {"churn_risk"}
    BY DEF RenewalKeys
  <2>3. IsFiniteSet({"renewal_close_date", "renewal_stage", "available_to_renew", "renewal_acv", "acv_delta",
            "forecast_most_likely", "forecast_category"}
                      \cup {"churn_downsell_reason"})
    BY <1>1, <2>1, FS_Union
  <2> QED
    BY <1>1, <2>2, <2>3, FS_Union
<1> QED
  BY <1>1, <1>2, <1>3

(* Every batch holds finitely many signals.                                *)
LEMMA IdsFinite ==
  ASSUME NEW a, NEW k, IsAccount(a, k)
  PROVE  \A i \in 1..17 : IsFiniteSet(Batches(a)[i].ids)
<1>0. \A x : IsFiniteSet({x})
  BY KeysFinite
<1>1. IsFiniteSet(SfIds(a))
  <2> DEFINE R == Only(FutureRenewals(a) # {}, RenewalKeys)
             D == Only(DaysToRenewal(a) # Never, {"days_to_renewal"})
  <2>1. IsFiniteSet(R)
    BY KeysFinite, OnlyFinite
  <2>2. IsFiniteSet(D)
    BY <1>0, OnlyFinite
  <2> HIDE DEF R, D
  <2>3. IsFiniteSet(AccountKeys \cup R)
    BY <2>1, KeysFinite, FS_Union
  <2>4. IsFiniteSet(AccountKeys \cup R \cup D)
    BY <2>2, <2>3, FS_Union
  <2>5. IsFiniteSet(SignalIds("sf", AccountKeys \cup R \cup D))
    BY <2>4, SignalsFinite
  <2>6. IsFiniteSet(PipelineIds(a))
    <3>1. IsFiniteSet(Expansions(a))
      BY OppsFinite DEF Expansions
    <3> QED
      BY <3>1, SignalsFinite DEF PipelineIds
  <2>7. SfIds(a) = SignalIds("sf", AccountKeys \cup R \cup D) \cup PipelineIds(a)
    BY DEF SfIds, R, D
  <2> QED
    BY <2>5, <2>6, <2>7, FS_Union
<1>2. IsFiniteSet(SentimentIds(a))
  BY <1>0, SignalsFinite DEF SentimentIds
<1>3. IsFiniteSet(CommentaryIds(a))
  <2>1. IsFiniteSet(Only(HasCommentary(a), {"commentary"}))
    BY <1>0, OnlyFinite
  <2> QED
    BY <2>1, SignalsFinite DEF CommentaryIds
<1>4. IsFiniteSet(CoverageIds(a))
  BY <1>0, SignalsFinite DEF CoverageIds
<1>5. IsFiniteSet(CategoryIds(a))
  BY <1>0, SignalsFinite DEF CategoryIds
<1>6. IsFiniteSet(AnalysisIds(a))
  <2>1. IsFiniteSet(Only(a.category # "none", {"risk_analysis"}))
    BY <1>0, OnlyFinite
  <2> QED
    BY <2>1, SignalsFinite DEF AnalysisIds
<1>7. IsFiniteSet(FlagIds(a))
  BY RisksFinite, SignalsFinite DEF FlagIds
<1>8. IsFiniteSet(HeadlineIds(a))
  <2>1. IsFiniteSet(Only(a.live # None, {"live_headline"}))
    BY <1>0, OnlyFinite
  <2> QED
    BY <2>1, SignalsFinite DEF HeadlineIds
<1>9. IsFiniteSet(ConcernIds(a))
  <2>1. a.live \in Int
    BY CountsAre
  <2>2. IsFiniteSet(1..a.live)
    BY <2>1, FS_Interval
  <2> QED
    BY <2>2, SignalsFinite DEF ConcernIds
<1>10. IsFiniteSet(SubMetricIds(a))
  <2> DEFINE S == Only(a.pbu # None, {"pbu"})
             T == Only(a.overage, {"overage"})
  <2>1. IsFiniteSet(S)
    BY <1>0, OnlyFinite
  <2>2. IsFiniteSet(T)
    BY <1>0, OnlyFinite
  <2>3. SubMetricIds(a) = SignalIds("usage", S \cup T)
    BY DEF SubMetricIds, SubMetrics
  <2> HIDE DEF S, T
  <2>4. IsFiniteSet(S \cup T)
    BY <2>1, <2>2, FS_Union
  <2> QED
    BY <2>3, <2>4, SignalsFinite
<1>11. IsFiniteSet(MinuteIds(a))
  <2> DEFINE S == Only(a.minutes30 # None, {"30d"})
             T == Only(a.minutes90 # None, {"90d"})
  <2>1. IsFiniteSet(S)
    BY <1>0, OnlyFinite
  <2>2. IsFiniteSet(T)
    BY <1>0, OnlyFinite
  <2>3. MinuteIds(a) = SignalIds("usage", S \cup T)
    BY DEF MinuteIds
  <2> HIDE DEF S, T
  <2>4. IsFiniteSet(S \cup T)
    BY <2>1, <2>2, FS_Union
  <2> QED
    BY <2>3, <2>4, SignalsFinite
<1>12. IsFiniteSet(UtilizationIds(a))
  <2>1. IsFiniteSet(Only(a.cerebroAge # Never \/ Underused(a), {"utilization_risk"}))
    BY <1>0, OnlyFinite
  <2> QED
    BY <2>1, SignalsFinite DEF UtilizationIds
<1>13. IsFiniteSet(LocalIds(a))
  <2>1. a.plans \in Int
    BY CountsAre
  <2>2. IsFiniteSet(1..a.plans)
    BY <2>1, FS_Interval
  <2> QED
    BY <2>2, SignalsFinite DEF LocalIds
<1>14. IsFiniteSet(SnippetIds(a))
  <2>1. FoundDocs(a) \in Int
    BY CountsAre DEF FoundDocs
  <2>2. IsFiniteSet(1..FoundDocs(a))
    BY <2>1, FS_Interval
  <2> QED
    BY <2>2, SignalsFinite DEF SnippetIds
<1>15. IsFiniteSet(ChannelIds(a))
  <2>1. IsFiniteSet(Only(a.slack, {"channel_url"}))
    BY <1>0, OnlyFinite
  <2> QED
    BY <2>1, SignalsFinite DEF ChannelIds
<1>16. IsFiniteSet(MappedIds(a))
  BY <1>0, SignalsFinite DEF MappedIds
<1>17. IsFiniteSet(MentionIds(a))
  <2>0. FoundDocs(a) \in Int
    BY CountsAre DEF FoundDocs
  <2>1. Min({3, FoundDocs(a)}) \in Int
    BY <2>0, OfTwo
  <2>2. IsFiniteSet(1..Min({3, FoundDocs(a)}))
    BY <2>1, FS_Interval
  <2> QED
    BY <2>2, SignalsFinite DEF MentionIds
<1> DEFINE Ended(i) == IsFiniteSet(Batches(a)[i].ids)
<1>18. Ended(1)
  <2>1. Batches(a)[1].ids = SfIds(a)
    BY BatchesHold
  <2> QED
    BY <1>1, <2>1
<1>19. Ended(2)
  <2>1. Batches(a)[2].ids = SentimentIds(a)
    BY BatchesHold
  <2> QED
    BY <1>2, <2>1
<1>20. Ended(3)
  <2>1. Batches(a)[3].ids = CommentaryIds(a)
    BY BatchesHold
  <2> QED
    BY <1>3, <2>1
<1>21. Ended(4)
  <2>1. Batches(a)[4].ids = CoverageIds(a)
    BY BatchesHold
  <2> QED
    BY <1>4, <2>1
<1>22. Ended(5)
  <2>1. Batches(a)[5].ids = CategoryIds(a)
    BY BatchesHold
  <2> QED
    BY <1>5, <2>1
<1>23. Ended(6)
  <2>1. Batches(a)[6].ids = AnalysisIds(a)
    BY BatchesHold
  <2> QED
    BY <1>6, <2>1
<1>24. Ended(7)
  <2>1. Batches(a)[7].ids = FlagIds(a)
    BY BatchesHold
  <2> QED
    BY <1>7, <2>1
<1>25. Ended(8)
  <2>1. Batches(a)[8].ids = HeadlineIds(a)
    BY BatchesHold
  <2> QED
    BY <1>8, <2>1
<1>26. Ended(9)
  <2>1. Batches(a)[9].ids = ConcernIds(a)
    BY BatchesHold
  <2> QED
    BY <1>9, <2>1
<1>27. Ended(10)
  <2>1. Batches(a)[10].ids = SubMetricIds(a)
    BY BatchesHold
  <2> QED
    BY <1>10, <2>1
<1>28. Ended(11)
  <2>1. Batches(a)[11].ids = MinuteIds(a)
    BY BatchesHold
  <2> QED
    BY <1>11, <2>1
<1>29. Ended(12)
  <2>1. Batches(a)[12].ids = UtilizationIds(a)
    BY BatchesHold
  <2> QED
    BY <1>12, <2>1
<1>30. Ended(13)
  <2>1. Batches(a)[13].ids = LocalIds(a)
    BY BatchesHold
  <2> QED
    BY <1>13, <2>1
<1>31. Ended(14)
  <2>1. Batches(a)[14].ids = SnippetIds(a)
    BY BatchesHold
  <2> QED
    BY <1>14, <2>1
<1>32. Ended(15)
  <2>1. Batches(a)[15].ids = ChannelIds(a)
    BY BatchesHold
  <2> QED
    BY <1>15, <2>1
<1>33. Ended(16)
  <2>1. Batches(a)[16].ids = MappedIds(a)
    BY BatchesHold
  <2> QED
    BY <1>16, <2>1
<1>34. Ended(17)
  <2>1. Batches(a)[17].ids = MentionIds(a)
    BY BatchesHold
  <2> QED
    BY <1>17, <2>1
<1> HIDE DEF Ended
<1>35. \A i \in 1..17 : Ended(i)
  BY <1>18, <1>19, <1>20, <1>21, <1>22, <1>23, <1>24, <1>25, <1>26, <1>27, <1>28, <1>29, <1>30, <1>31, <1>32, <1>33,
      <1>34
<1> QED
  BY <1>35 DEF Ended

(* What is in disjoint batches, counted batch by batch.                    *)
LEMMA BatchesCount ==
  ASSUME NEW D, IsFiniteSet(D), \A x \in D : IsFiniteSet(x.ids), \A x, y \in D : x # y => x.ids \cap y.ids = {},
         NEW worth \in [D -> Int], \A x \in D : worth[x] = Cardinality(x.ids)
  PROVE  \A s \in SUBSET D : IsFiniteSet(IdsOf(s)) /\ SumOf(worth, s) = Cardinality(IdsOf(s))
<1> DEFINE Bad == {s \in SUBSET D : ~(IsFiniteSet(IdsOf(s)) /\ SumOf(worth, s) = Cardinality(IdsOf(s)))}
<1>1. SUFFICES ASSUME Bad # {}
               PROVE  FALSE
  OBVIOUS
<1>2. PICK m \in Bad : \A s \in SUBSET m : s # m => s \notin Bad
  <2>1. Bad \in SUBSET (SUBSET D)
    OBVIOUS
  <2> HIDE DEF Bad
  <2> QED
    BY <1>1, <2>1, SmallestBad
<1>3. m \in SUBSET D /\ ~(IsFiniteSet(IdsOf(m)) /\ SumOf(worth, m) = Cardinality(IdsOf(m)))
  OBVIOUS
<1>4. m # {}
  <2>1. IdsOf({}) = {}
    BY DEF IdsOf
  <2>2. IsFiniteSet(IdsOf({})) /\ Cardinality(IdsOf({})) = 0
    BY <2>1, FS_EmptySet
  <2> QED
    BY <1>3, <2>2, SumEmpty
<1>5. PICK x \in m : TRUE
  BY <1>4
<1> DEFINE r == m \ {x}
<1>6. r \in SUBSET D /\ r \in SUBSET m /\ r # m /\ x \in D
  BY <1>3, <1>5
<1>7. IsFiniteSet(IdsOf(r)) /\ SumOf(worth, r) = Cardinality(IdsOf(r))
  BY <1>2, <1>6
<1> HIDE DEF Bad
<1>8. SumOf(worth, m) = worth[x] + SumOf(worth, r)
  BY <1>3, <1>5, SumRemove
<1>9. IdsOf(m) = IdsOf(r) \cup x.ids
  BY <1>5 DEF IdsOf
<1>10. IdsOf(r) \cap x.ids = {}
  BY <1>6 DEF IdsOf
<1> HIDE DEF r
<1>11. IsFiniteSet(x.ids) /\ worth[x] = Cardinality(x.ids)
  BY <1>6
<1>12. Cardinality(x.ids) \in Nat /\ Cardinality(IdsOf(r)) \in Nat /\ Cardinality({}) = 0
  BY <1>7, <1>11, FS_CardinalityType, FS_EmptySet
<1>13. IsFiniteSet(IdsOf(m)) /\ Cardinality(IdsOf(m)) = Cardinality(IdsOf(r)) + Cardinality(x.ids)
  <2> DEFINE U == IdsOf(r)
             V == x.ids
  <2>1. IsFiniteSet(U) /\ IsFiniteSet(V) /\ Cardinality(U) \in Nat /\ Cardinality(V) \in Nat /\ U \cap V = {} /\
            IdsOf(m) = U \cup V
    BY <1>7, <1>9, <1>10, <1>11, <1>12
  <2> HIDE DEF U, V
  <2>2. IsFiniteSet(U \cup V) /\ Cardinality(U \cup V) = Cardinality(U) + Cardinality(V) - Cardinality(U \cap V)
    BY <2>1, FS_Union
  <2>4. Cardinality(U \cap V) = 0
    BY <1>12, <2>1, Zenon
  <2>3. Cardinality(U \cup V) = Cardinality(U) + Cardinality(V)
    BY <2>1, <2>2, <2>4
  <2> QED
    BY <2>1, <2>2, <2>3 DEF U, V
<1> QED
  BY <1>3, <1>7, <1>8, <1>11, <1>12, <1>13

(* So it is with what is collected of an account.                          *)
LEMMA CollectedFinite ==
  ASSUME NEW a, NEW k, IsAccount(a, k)
  PROVE  /\ IsFiniteSet(Collected(a)) /\ \A x \in Collected(a) : IsFiniteSet(x.ids)
         /\ \A x, y \in Collected(a) : x # y => x.ids \cap y.ids = {}
<1> DEFINE B == Batches(a)
<1>1. Collected(a) = {B[i] : i \in 1..17}
  BY CollectedIs
<1>2. \A i \in 1..17 : IsFiniteSet(B[i].ids) /\ \A id \in B[i].ids : Home(id) = i
  BY IdsFinite, IdsHome
<1> HIDE DEF B
<1>3. IsFiniteSet({B[i] : i \in 1..17})
  <2> DEFINE f == [i \in 1..17 |-> B[i]]
             T == {B[i] : i \in 1..17}
  <2>1. f \in Surjection(1..17, T)
    BY DEF Surjection
  <2>2. IsFiniteSet(1..17)
    <3>1. 1 \in Int /\ 17 \in Int
      OBVIOUS
    <3> QED
      BY <3>1, FS_Interval, Zenon
  <2> HIDE DEF f, T
  <2>3. IsFiniteSet(T)
    BY <2>1, <2>2, FS_Surjection
  <2> QED
    BY <2>3 DEF T
<1>4. \A i, j \in 1..17 : B[i] # B[j] => B[i].ids \cap B[j].ids = {}
  BY <1>2
<1> QED
  BY <1>1, <1>2, <1>3, <1>4

(* The signals of some batches, counted batch by batch, are as many as     *)
(* they are together: no signal is in two batches.                         *)
LEMMA CountIs ==
  ASSUME NEW a, NEW k, IsAccount(a, k), NEW S \in SUBSET Collected(a)
  PROVE  /\ IsFiniteSet(IdsOf(S)) /\ Cardinality(IdsOf(S)) \in Nat
         /\ MapThenSumSet(LAMBDA x : Cardinality(x.ids), S) = Cardinality(IdsOf(S))
<1> DEFINE D == Collected(a)
           worth == [x \in D |-> Cardinality(x.ids)]
<1>1. IsFiniteSet(D) /\ (\A x \in D : IsFiniteSet(x.ids)) /\ \A x, y \in D : x # y => x.ids \cap y.ids = {}
  BY CollectedFinite
<1>2. MapThenSumSet(LAMBDA x : Cardinality(x.ids), S) = SumOf([x \in D |-> Cardinality(x.ids)], S)
  BY DEF SumOf, SumRec, Pick, MapThenSumSet, MapThenFoldSet
<1> HIDE DEF D
<1>3. worth \in [D -> Int] /\ \A x \in D : worth[x] = Cardinality(x.ids)
  BY <1>1, FS_CardinalityType
<1>4. S \in SUBSET D
  BY DEF D
<1>5. SumOf(worth, S) = MapThenSumSet(LAMBDA x : Cardinality(x.ids), S)
  BY <1>2
<1> HIDE DEF worth
<1>6. IsFiniteSet(IdsOf(S)) /\ SumOf(worth, S) = Cardinality(IdsOf(S))
  BY <1>1, <1>3, <1>4, BatchesCount
<1> QED
  BY <1>5, <1>6, FS_CardinalityType

(* How fresh a signal is as days pass, and how much it is trusted.         *)
Fades(f, g) == (f = "stale" => g = "stale") /\ (f = "unknown" => g = "unknown") /\ (f # "fresh" => g # "fresh")

(* Days make nothing fresher.                                              *)
LEMMA FreshFades ==
  ASSUME NEW age \in Int, NEW n \in Nat, NEW k \in Int, InTime(age, k), n <= k, NEW days \in Int
  PROVE  Fades(Freshness(age, days), Freshness(Older(age, n), days))
<1>1. Older(age, n) \in Int /\ age <= Older(age, n) /\ (Older(age, n) = Never <=> age = Never)
  BY OlderIs
<1> DEFINE then == Older(age, n)
<1> HIDE DEF then
<1>2. then \in Int /\ age <= then /\ (then = Never <=> age = Never)
  BY <1>1 DEF then
<1>3. CASE age = Never
  <2>1. Freshness(age, days) = "unknown" /\ Freshness(then, days) = "unknown"
    BY <1>2, <1>3 DEF Freshness
  <2> QED
    BY <2>1 DEF Fades, then
<1>4. CASE age # Never /\ age <= days
  <2>1. Freshness(age, days) = "fresh"
    BY <1>4 DEF Freshness
  <2> QED
    BY <2>1 DEF Fades
<1>5. CASE age # Never /\ ~(age <= days)
  <2>1. Freshness(age, days) = "stale"
    BY <1>5 DEF Freshness
  <2>2. then # Never /\ ~(then <= days)
    BY <1>2, <1>5
  <2>3. Freshness(then, days) = "stale"
    BY <2>2 DEF Freshness
  <2> QED
    BY <2>1, <2>3 DEF Fades, then
<1> QED
  BY <1>3, <1>4, <1>5

(* What is trusted little is trusted no more once it has faded.            *)
LEMMA TrustFades ==
  ASSUME NEW f, NEW g, Fades(f, g), NEW start \in {"high", "medium", "low"}
  PROVE  Trust(f, start) = "low" => Trust(g, start) = "low"
BY DEF Fades, Trust

(* What a plan's signals are made of, but for their ages.                  *)
SameSources(a, b) ==
  /\ FutureRenewals(b) = FutureRenewals(a) /\ Expansions(b) = Expansions(a)
  /\ b.text = a.text /\ b.category = a.category /\ b.flags = a.flags /\ b.live = a.live /\ b.pbu = a.pbu /\
       b.overage = a.overage
  /\ b.minutes30 = a.minutes30 /\ b.minutes90 = a.minutes90 /\ b.plans = a.plans /\ b.found = a.found /\
       b.answers = a.answers
  /\ b.slack = a.slack /\ b.errors = a.errors
  /\ b.cerebroAge = Never <=> a.cerebroAge = Never
  /\ DaysToRenewal(b) = Never <=> DaysToRenewal(a) = Never

(* Days that pass no renewal leave a plan the same sources.                *)
LEMMA LaterSources ==
  ASSUME NEW a, NEW k \in Int, IsAccount(a, k), NEW n \in Nat, n <= k, NEW b, b = Later(a, n),
         \A o \in Present(a) : a.opps[o].due > n \/ a.opps[o].due < 0
  PROVE  SameSources(a, b)
<1>1. FutureRenewals(b) = FutureRenewals(a) /\ Expansions(b) = Expansions(a)
  BY LaterOppsStay DEF RenewalsStay
<1>2. b.cerebroAge = Never <=> a.cerebroAge = Never
  <2>1. a.cerebroAge \in Int /\ InTime(a.cerebroAge, k)
    BY AgesAre DEF Ages
  <2>2. b.cerebroAge = Older(a.cerebroAge, n)
    BY LaterFields
  <2> QED
    BY <2>1, <2>2, OlderIs
<1>3. DaysToRenewal(b) = Never <=> DaysToRenewal(a) = Never
  <2>1. Dated(a) \in SUBSET Opps /\ DaysToRenewal(b) = (IF Dated(a) = {} THEN Never ELSE DaysToRenewal(a) - n)
    BY DaysLater
  <2>2. CASE Dated(a) = {}
    BY <2>1, <2>2 DEF DaysToRenewal
  <2>3. CASE Dated(a) # {}
    <3> DEFINE days == [o \in Opps |-> DaysUntil(a, o)]
    <3>1. days \in [Opps -> Int] /\ \A o \in Opps : days[o] <= Never - 1
      BY OppsAre DEF DaysUntil, Never
    <3>2. {DaysUntil(a, o) : o \in Dated(a)} = {days[o] : o \in Dated(a)}
      BY <2>1
    <3>3. DaysToRenewal(a) = Min({days[o] : o \in Dated(a)})
      BY <2>3, <3>2 DEF DaysToRenewal
    <3> HIDE DEF days
    <3>4. Min({days[o] : o \in Dated(a)}) \in {days[o] : o \in Dated(a)}
      BY <2>1, <2>3, <3>1, SoonestIs
    <3>5. PICK o \in Dated(a) : DaysToRenewal(a) = days[o]
      BY <3>3, <3>4
    <3>6. DaysToRenewal(a) \in Int /\ DaysToRenewal(a) <= Never - 1
      BY <2>1, <3>1, <3>5
    <3>7. DaysToRenewal(b) = DaysToRenewal(a) - n
      BY <2>1, <2>3
    <3> QED
      BY <3>6, <3>7 DEF Never
  <2> QED
    BY <2>2, <2>3
<1> QED
  BY <1>1, <1>2, <1>3, LaterFields DEF SameSources

(* From the same sources come the same signals.                            *)
LEMMA SameIds ==
  ASSUME NEW a, NEW b, SameSources(a, b)
  PROVE  \A i \in 1..17 : Batches(b)[i].ids = Batches(a)[i].ids
<1> DEFINE Same(i) == Batches(b)[i].ids = Batches(a)[i].ids
<1>1. Same(1)
  <2>1. Batches(a)[1].ids = SfIds(a) /\ Batches(b)[1].ids = SfIds(b)
    BY BatchesHold
  <2>2. SfIds(b) = SfIds(a)
    BY DEF SfIds, PipelineIds, Only, SameSources
  <2> QED
    BY <2>1, <2>2
<1>2. Same(2)
  <2>1. Batches(a)[2].ids = SentimentIds(a) /\ Batches(b)[2].ids = SentimentIds(b)
    BY BatchesHold
  <2>2. SentimentIds(b) = SentimentIds(a)
    BY DEF SentimentIds
  <2> QED
    BY <2>1, <2>2
<1>3. Same(3)
  <2>1. Batches(a)[3].ids = CommentaryIds(a) /\ Batches(b)[3].ids = CommentaryIds(b)
    BY BatchesHold
  <2>2. CommentaryIds(b) = CommentaryIds(a)
    BY DEF CommentaryIds, HasCommentary, SameSources
  <2> QED
    BY <2>1, <2>2
<1>4. Same(4)
  <2>1. Batches(a)[4].ids = CoverageIds(a) /\ Batches(b)[4].ids = CoverageIds(b)
    BY BatchesHold
  <2>2. CoverageIds(b) = CoverageIds(a)
    BY DEF CoverageIds
  <2> QED
    BY <2>1, <2>2
<1>5. Same(5)
  <2>1. Batches(a)[5].ids = CategoryIds(a) /\ Batches(b)[5].ids = CategoryIds(b)
    BY BatchesHold
  <2>2. CategoryIds(b) = CategoryIds(a)
    BY DEF CategoryIds
  <2> QED
    BY <2>1, <2>2
<1>6. Same(6)
  <2>1. Batches(a)[6].ids = AnalysisIds(a) /\ Batches(b)[6].ids = AnalysisIds(b)
    BY BatchesHold
  <2>2. AnalysisIds(b) = AnalysisIds(a)
    BY DEF AnalysisIds, SameSources
  <2> QED
    BY <2>1, <2>2
<1>7. Same(7)
  <2>1. Batches(a)[7].ids = FlagIds(a) /\ Batches(b)[7].ids = FlagIds(b)
    BY BatchesHold
  <2>2. FlagIds(b) = FlagIds(a)
    BY DEF FlagIds, SameSources
  <2> QED
    BY <2>1, <2>2
<1>8. Same(8)
  <2>1. Batches(a)[8].ids = HeadlineIds(a) /\ Batches(b)[8].ids = HeadlineIds(b)
    BY BatchesHold
  <2>2. HeadlineIds(b) = HeadlineIds(a)
    BY DEF HeadlineIds, SameSources
  <2> QED
    BY <2>1, <2>2
<1>9. Same(9)
  <2>1. Batches(a)[9].ids = ConcernIds(a) /\ Batches(b)[9].ids = ConcernIds(b)
    BY BatchesHold
  <2>2. ConcernIds(b) = ConcernIds(a)
    BY DEF ConcernIds, SameSources
  <2> QED
    BY <2>1, <2>2
<1>10. Same(10)
  <2>1. Batches(a)[10].ids = SubMetricIds(a) /\ Batches(b)[10].ids = SubMetricIds(b)
    BY BatchesHold
  <2>2. SubMetricIds(b) = SubMetricIds(a)
    BY DEF SubMetricIds, SubMetrics, SameSources
  <2> QED
    BY <2>1, <2>2
<1>11. Same(11)
  <2>1. Batches(a)[11].ids = MinuteIds(a) /\ Batches(b)[11].ids = MinuteIds(b)
    BY BatchesHold
  <2>2. MinuteIds(b) = MinuteIds(a)
    BY DEF MinuteIds, SameSources
  <2> QED
    BY <2>1, <2>2
<1>12. Same(12)
  <2>1. Batches(a)[12].ids = UtilizationIds(a) /\ Batches(b)[12].ids = UtilizationIds(b)
    BY BatchesHold
  <2>2. UtilizationIds(b) = UtilizationIds(a)
    BY DEF UtilizationIds, Only, Underused, SameSources
  <2> QED
    BY <2>1, <2>2
<1>13. Same(13)
  <2>1. Batches(a)[13].ids = LocalIds(a) /\ Batches(b)[13].ids = LocalIds(b)
    BY BatchesHold
  <2>2. LocalIds(b) = LocalIds(a)
    BY DEF LocalIds, SameSources
  <2> QED
    BY <2>1, <2>2
<1>14. Same(14)
  <2>1. Batches(a)[14].ids = SnippetIds(a) /\ Batches(b)[14].ids = SnippetIds(b)
    BY BatchesHold
  <2>2. SnippetIds(b) = SnippetIds(a)
    BY DEF SnippetIds, FoundDocs, SameSources
  <2> QED
    BY <2>1, <2>2
<1>15. Same(15)
  <2>1. Batches(a)[15].ids = ChannelIds(a) /\ Batches(b)[15].ids = ChannelIds(b)
    BY BatchesHold
  <2>2. ChannelIds(b) = ChannelIds(a)
    BY DEF ChannelIds, SameSources
  <2> QED
    BY <2>1, <2>2
<1>16. Same(16)
  <2>1. Batches(a)[16].ids = MappedIds(a) /\ Batches(b)[16].ids = MappedIds(b)
    BY BatchesHold
  <2>2. MappedIds(b) = MappedIds(a)
    BY DEF MappedIds
  <2> QED
    BY <2>1, <2>2
<1>17. Same(17)
  <2>1. Batches(a)[17].ids = MentionIds(a) /\ Batches(b)[17].ids = MentionIds(b)
    BY BatchesHold
  <2>2. MentionIds(b) = MentionIds(a)
    BY DEF MentionIds, FoundDocs, SameSources
  <2> QED
    BY <2>1, <2>2
<1> HIDE DEF Same
<1>18. \A i \in 1..17 : Same(i)
  BY <1>1, <1>2, <1>3, <1>4, <1>5, <1>6, <1>7, <1>8, <1>9, <1>10, <1>11, <1>12, <1>13, <1>14, <1>15, <1>16, <1>17
<1> QED
  BY <1>18 DEF Same

(* No batch is fresher or more trusted days later.                         *)
BatchFades(x, y) == y.ids = x.ids /\ Fades(x.fresh, y.fresh) /\ (x.trust = "low" => y.trust = "low")

(* n days later each batch holds the same signals, no fresher and no more  *)
(* trusted.                                                                *)
LEMMA BatchesFade ==
  ASSUME NEW a, NEW k \in Int, IsAccount(a, k), NEW n \in Nat, n <= k, NEW b, b = Later(a, n), SameSources(a, b)
  PROVE  \A i \in 1..17 : BatchFades(Batches(a)[i], Batches(b)[i])
<1>0. \A f \in Ages : Later(a, n)[f] = Older(a[f], n)
  BY LaterAges
<1>1. \A f \in Ages : a[f] \in Int /\ InTime(a[f], k)
  BY AgesAre
<1>2. ASSUME NEW f \in Ages, NEW days \in Int
      PROVE  Fades(Freshness(a[f], days), Freshness(b[f], days))
  <2>1. b[f] = Older(a[f], n)
    BY <1>0
  <2> QED
    BY <1>1, <2>1, FreshFades
<1>3. /\ "updated" \in Ages /\ "sentimentAge" \in Ages /\ "commentary" \in Ages /\ "cerebroAge" \in Ages /\
           "asOf" \in Ages
      /\ "docAge" \in Ages
  BY DEF Ages
<1>4. /\ Fades(Freshness(a.updated, 3), Freshness(b.updated, 3)) /\
           Fades(Freshness(a.sentimentAge, 3), Freshness(b.sentimentAge, 3))
      /\ Fades(Freshness(a.commentary, 3), Freshness(b.commentary, 3)) /\
           Fades(Freshness(a.cerebroAge, 3), Freshness(b.cerebroAge, 3))
      /\ Fades(Freshness(a.asOf, 3), Freshness(b.asOf, 3)) /\ Fades(Freshness(a.docAge, 3), Freshness(b.docAge, 3))
      /\ Fades(Freshness(a.docAge, 7), Freshness(b.docAge, 7)) /\
           Fades(Freshness(a.docAge, 14), Freshness(b.docAge, 14))
  BY <1>2, <1>3
<1>5. \A f : Fades(f, f)
  BY DEF Fades
<1> DEFINE Faded(i) == BatchFades(Batches(a)[i], Batches(b)[i])
<1>6. Faded(1)
  <2>1. Batches(b)[1].ids = Batches(a)[1].ids
    BY SameIds
  <2>2. /\ Batches(a)[1].fresh = Freshness(a.updated, 3) /\
             Batches(a)[1].trust = Trust(Freshness(a.updated, 3), "high")
        /\ Batches(b)[1].fresh = Freshness(b.updated, 3) /\
             Batches(b)[1].trust = Trust(Freshness(b.updated, 3), "high")
    BY BatchesHold
  <2>3. Trust(Freshness(a.updated, 3), "high") = "low" => Trust(Freshness(b.updated, 3), "high") = "low"
    BY <1>4, TrustFades
  <2> QED
    BY <1>4, <2>1, <2>2, <2>3 DEF BatchFades
<1>7. Faded(2)
  <2>1. Batches(b)[2].ids = Batches(a)[2].ids
    BY SameIds
  <2>2. /\ Batches(a)[2].fresh = Freshness(a.sentimentAge, 3) /\
             Batches(a)[2].trust = Trust(Freshness(a.sentimentAge, 3), "high")
        /\ Batches(b)[2].fresh = Freshness(b.sentimentAge, 3) /\
             Batches(b)[2].trust = Trust(Freshness(b.sentimentAge, 3), "high")
    BY BatchesHold
  <2>3. Trust(Freshness(a.sentimentAge, 3), "high") = "low" => Trust(Freshness(b.sentimentAge, 3), "high") = "low"
    BY <1>4, TrustFades
  <2> QED
    BY <1>4, <2>1, <2>2, <2>3 DEF BatchFades
<1>8. Faded(3)
  <2>1. Batches(b)[3].ids = Batches(a)[3].ids
    BY SameIds
  <2>2. /\ Batches(a)[3].fresh = Freshness(a.commentary, 3) /\
             Batches(a)[3].trust = Trust(Freshness(a.commentary, 3), "high")
        /\ Batches(b)[3].fresh = Freshness(b.commentary, 3) /\
             Batches(b)[3].trust = Trust(Freshness(b.commentary, 3), "high")
    BY BatchesHold
  <2>3. Trust(Freshness(a.commentary, 3), "high") = "low" => Trust(Freshness(b.commentary, 3), "high") = "low"
    BY <1>4, TrustFades
  <2> QED
    BY <1>4, <2>1, <2>2, <2>3 DEF BatchFades
<1>9. Faded(4)
  <2>1. Batches(b)[4].ids = Batches(a)[4].ids
    BY SameIds
  <2>2. /\ Batches(a)[4].fresh = Freshness(a.updated, 3) /\ Batches(a)[4].trust = "high"
        /\ Batches(b)[4].fresh = Freshness(b.updated, 3) /\ Batches(b)[4].trust = "high"
    BY BatchesHold
  <2> QED
    BY <1>4, <1>5, <2>1, <2>2 DEF BatchFades
<1>10. Faded(5)
  <2>1. Batches(b)[5].ids = Batches(a)[5].ids
    BY SameIds
  <2>2. /\ Batches(a)[5].fresh = Freshness(a.cerebroAge, 3) /\
             Batches(a)[5].trust = Trust(Freshness(a.cerebroAge, 3), "high")
        /\ Batches(b)[5].fresh = Freshness(b.cerebroAge, 3) /\
             Batches(b)[5].trust = Trust(Freshness(b.cerebroAge, 3), "high")
    BY BatchesHold
  <2>3. Trust(Freshness(a.cerebroAge, 3), "high") = "low" => Trust(Freshness(b.cerebroAge, 3), "high") = "low"
    BY <1>4, TrustFades
  <2> QED
    BY <1>4, <2>1, <2>2, <2>3 DEF BatchFades
<1>11. Faded(6)
  <2>1. Batches(b)[6].ids = Batches(a)[6].ids
    BY SameIds
  <2>2. /\ Batches(a)[6].fresh = Freshness(a.cerebroAge, 3) /\
             Batches(a)[6].trust = Trust(Freshness(a.cerebroAge, 3), "medium")
        /\ Batches(b)[6].fresh = Freshness(b.cerebroAge, 3) /\
             Batches(b)[6].trust = Trust(Freshness(b.cerebroAge, 3), "medium")
    BY BatchesHold
  <2>3. Trust(Freshness(a.cerebroAge, 3), "medium") = "low" => Trust(Freshness(b.cerebroAge, 3), "medium") = "low"
    BY <1>4, TrustFades
  <2> QED
    BY <1>4, <2>1, <2>2, <2>3 DEF BatchFades
<1>12. Faded(7)
  <2>1. Batches(b)[7].ids = Batches(a)[7].ids
    BY SameIds
  <2>2. /\ Batches(a)[7].fresh = Freshness(a.cerebroAge, 3) /\ Batches(a)[7].trust = "high"
        /\ Batches(b)[7].fresh = Freshness(b.cerebroAge, 3) /\ Batches(b)[7].trust = "high"
    BY BatchesHold
  <2> QED
    BY <1>4, <1>5, <2>1, <2>2 DEF BatchFades
<1>13. Faded(8)
  <2>1. Batches(b)[8].ids = Batches(a)[8].ids
    BY SameIds
  <2>2. /\ Batches(a)[8].fresh = Freshness(a.asOf, 3) /\ Batches(a)[8].trust = Trust(Freshness(a.asOf, 3), "medium")
        /\ Batches(b)[8].fresh = Freshness(b.asOf, 3) /\ Batches(b)[8].trust = Trust(Freshness(b.asOf, 3), "medium")
    BY BatchesHold
  <2>3. Trust(Freshness(a.asOf, 3), "medium") = "low" => Trust(Freshness(b.asOf, 3), "medium") = "low"
    BY <1>4, TrustFades
  <2> QED
    BY <1>4, <2>1, <2>2, <2>3 DEF BatchFades
<1>14. Faded(9)
  <2>1. Batches(b)[9].ids = Batches(a)[9].ids
    BY SameIds
  <2>2. /\ Batches(a)[9].fresh = Freshness(a.asOf, 3) /\ Batches(a)[9].trust = "medium"
        /\ Batches(b)[9].fresh = Freshness(b.asOf, 3) /\ Batches(b)[9].trust = "medium"
    BY BatchesHold
  <2> QED
    BY <1>4, <1>5, <2>1, <2>2 DEF BatchFades
<1>15. Faded(10)
  <2>1. Batches(b)[10].ids = Batches(a)[10].ids
    BY SameIds
  <2>2. /\ Batches(a)[10].fresh = Freshness(a.cerebroAge, 3) /\
             Batches(a)[10].trust = Trust(Freshness(a.cerebroAge, 3), "medium")
        /\ Batches(b)[10].fresh = Freshness(b.cerebroAge, 3) /\
             Batches(b)[10].trust = Trust(Freshness(b.cerebroAge, 3), "medium")
    BY BatchesHold
  <2>3. Trust(Freshness(a.cerebroAge, 3), "medium") = "low" => Trust(Freshness(b.cerebroAge, 3), "medium") = "low"
    BY <1>4, TrustFades
  <2> QED
    BY <1>4, <2>1, <2>2, <2>3 DEF BatchFades
<1>16. Faded(11)
  <2>1. Batches(b)[11].ids = Batches(a)[11].ids
    BY SameIds
  <2>2. /\ Batches(a)[11].fresh = Freshness(a.updated, 3) /\ Batches(a)[11].trust = "high"
        /\ Batches(b)[11].fresh = Freshness(b.updated, 3) /\ Batches(b)[11].trust = "high"
    BY BatchesHold
  <2> QED
    BY <1>4, <1>5, <2>1, <2>2 DEF BatchFades
<1>17. Faded(12)
  <2>1. Batches(b)[12].ids = Batches(a)[12].ids
    BY SameIds
  <2>2. /\ Batches(a)[12].fresh = Freshness(a.cerebroAge, 3) /\ Batches(a)[12].trust = "high"
        /\ Batches(b)[12].fresh = Freshness(b.cerebroAge, 3) /\ Batches(b)[12].trust = "high"
    BY BatchesHold
  <2> QED
    BY <1>4, <1>5, <2>1, <2>2 DEF BatchFades
<1>18. Faded(13)
  <2>1. Batches(b)[13].ids = Batches(a)[13].ids
    BY SameIds
  <2>2. /\ Batches(a)[13].fresh = Freshness(a.docAge, 7) /\
             Batches(a)[13].trust = Trust(Freshness(a.docAge, 7), "medium")
        /\ Batches(b)[13].fresh = Freshness(b.docAge, 7) /\
             Batches(b)[13].trust = Trust(Freshness(b.docAge, 7), "medium")
    BY BatchesHold
  <2>3. Trust(Freshness(a.docAge, 7), "medium") = "low" => Trust(Freshness(b.docAge, 7), "medium") = "low"
    BY <1>4, TrustFades
  <2> QED
    BY <1>4, <2>1, <2>2, <2>3 DEF BatchFades
<1>19. Faded(14)
  <2>1. Batches(b)[14].ids = Batches(a)[14].ids
    BY SameIds
  <2>2. /\ Batches(a)[14].fresh = Freshness(a.docAge, 3) /\ Batches(a)[14].trust = "low"
        /\ Batches(b)[14].fresh = Freshness(b.docAge, 3) /\ Batches(b)[14].trust = "low"
    BY BatchesHold
  <2> QED
    BY <1>4, <1>5, <2>1, <2>2 DEF BatchFades
<1>20. Faded(15)
  <2>1. Batches(b)[15].ids = Batches(a)[15].ids
    BY SameIds
  <2>2. /\ Batches(a)[15].fresh = "fresh" /\ Batches(a)[15].trust = "high"
        /\ Batches(b)[15].fresh = "fresh" /\ Batches(b)[15].trust = "high"
    BY BatchesHold
  <2> QED
    BY <1>4, <1>5, <2>1, <2>2 DEF BatchFades
<1>21. Faded(16)
  <2>1. Batches(b)[16].ids = Batches(a)[16].ids
    BY SameIds
  <2>2. /\ Batches(a)[16].fresh = "unknown" /\ Batches(a)[16].trust = "high"
        /\ Batches(b)[16].fresh = "unknown" /\ Batches(b)[16].trust = "high"
    BY BatchesHold
  <2> QED
    BY <1>4, <1>5, <2>1, <2>2 DEF BatchFades
<1>22. Faded(17)
  <2>1. Batches(b)[17].ids = Batches(a)[17].ids
    BY SameIds
  <2>2. /\ Batches(a)[17].fresh = Freshness(a.docAge, 14) /\ Batches(a)[17].trust = "low"
        /\ Batches(b)[17].fresh = Freshness(b.docAge, 14) /\ Batches(b)[17].trust = "low"
    BY BatchesHold
  <2> QED
    BY <1>4, <1>5, <2>1, <2>2 DEF BatchFades
<1> HIDE DEF Faded
<1>23. \A i \in 1..17 : Faded(i)
  BY <1>6, <1>7, <1>8, <1>9, <1>10, <1>11, <1>12, <1>13, <1>14, <1>15, <1>16, <1>17, <1>18, <1>19, <1>20, <1>21, <1>22
<1> QED
  BY <1>23 DEF Faded

(* The penalty counts the signals that are stale, little trusted or        *)
(* undated.                                                                *)
StaleSignals(a) == IdsOf({x \in Collected(a) : x.fresh = "stale"})
WeakSignals(a) == IdsOf({x \in Collected(a) : x.trust = "low"})
UndatedSignals(a) == IdsOf({x \in Collected(a) : x.fresh = "unknown"})

(* The penalty on the plan's confidence: failed fetches, and stale, weak   *)
(* and undated signals, each counted once.                                 *)
LEMMA PenaltyIs ==
  ASSUME NEW a, NEW k, IsAccount(a, k)
  PROVE  /\ Penalty(a) = Cardinality(FailedCollectors(a)) + Cardinality(StaleSignals(a)) \div 3 + Cardinality(WeakSignals(a)) \div 2
                          + Cardinality(UndatedSignals(a)) \div 4 + (IF CountOf(Collected(a)) < 5 THEN 2 ELSE 0)
         /\ IsFiniteSet(StaleSignals(a)) /\ IsFiniteSet(WeakSignals(a)) /\ IsFiniteSet(UndatedSignals(a))
         /\ IsFiniteSet(IdsOf(Collected(a)))
         /\ Cardinality(StaleSignals(a)) \in Nat /\ Cardinality(WeakSignals(a)) \in Nat /\
              Cardinality(UndatedSignals(a)) \in Nat
<1> DEFINE S == {x \in Collected(a) : x.fresh = "stale"}
           W == {x \in Collected(a) : x.trust = "low"}
           U == {x \in Collected(a) : x.fresh = "unknown"}
<1>1. S \in SUBSET Collected(a) /\ W \in SUBSET Collected(a) /\ U \in SUBSET Collected(a) /\
          Collected(a) \in SUBSET Collected(a)
  OBVIOUS
<1>2. Penalty(a) = Cardinality(FailedCollectors(a)) + MapThenSumSet(LAMBDA x : Cardinality(x.ids), S) \div 3
                     + MapThenSumSet(LAMBDA x : Cardinality(x.ids),
                         W) \div 2 + MapThenSumSet(LAMBDA x : Cardinality(x.ids), U) \div 4
                     + (IF CountOf(Collected(a)) < 5 THEN 2 ELSE 0)
  BY DEF Penalty
<1> HIDE DEF S, W, U
<1>3. /\ IsFiniteSet(IdsOf(S)) /\ Cardinality(IdsOf(S)) \in Nat
      /\ MapThenSumSet(LAMBDA x : Cardinality(x.ids), S) = Cardinality(IdsOf(S))
  BY <1>1, CountIs
<1>4. /\ IsFiniteSet(IdsOf(W)) /\ Cardinality(IdsOf(W)) \in Nat
      /\ MapThenSumSet(LAMBDA x : Cardinality(x.ids), W) = Cardinality(IdsOf(W))
  BY <1>1, CountIs
<1>5. /\ IsFiniteSet(IdsOf(U)) /\ Cardinality(IdsOf(U)) \in Nat
      /\ MapThenSumSet(LAMBDA x : Cardinality(x.ids), U) = Cardinality(IdsOf(U))
  BY <1>1, CountIs
<1>6. IsFiniteSet(IdsOf(Collected(a)))
  BY <1>1, CountIs
<1>7. Penalty(a) = Cardinality(FailedCollectors(a)) + Cardinality(IdsOf(S)) \div 3 + Cardinality(IdsOf(W)) \div 2
                     + Cardinality(IdsOf(U)) \div 4 + (IF CountOf(Collected(a)) < 5 THEN 2 ELSE 0)
  BY <1>2, <1>3, <1>4, <1>5
<1>8. IdsOf(S) = StaleSignals(a) /\ IdsOf(W) = WeakSignals(a) /\ IdsOf(U) = UndatedSignals(a)
  BY DEF S, W, U, StaleSignals, WeakSignals, UndatedSignals
<1> QED
  BY <1>3, <1>4, <1>5, <1>6, <1>7, <1>8

(* Days later there are as many signals, and no fewer of those that count. *)
LEMMA SignalsAge ==
  ASSUME NEW a, NEW k \in Int, IsAccount(a, k), NEW n \in Nat, n <= k, NEW b, b = Later(a, n), SameSources(a, b)
  PROVE  /\ IdsOf(Collected(b)) = IdsOf(Collected(a)) /\ IdsOf(CerebroUsage(b)) = IdsOf(CerebroUsage(a))
         /\ StaleSignals(a) \subseteq StaleSignals(b) /\ WeakSignals(a) \subseteq WeakSignals(b)
         /\ UndatedSignals(a) \subseteq UndatedSignals(b)
<1> DEFINE B == Batches(a)
           C == Batches(b)
<1>1. Collected(a) = {B[i] : i \in 1..17} /\ Collected(b) = {C[i] : i \in 1..17}
  BY CollectedIs
<1>2. \A i \in 1..17 : BatchFades(B[i], C[i])
  BY BatchesFade
<1>3. IdsOf(CerebroUsage(b)) = IdsOf(CerebroUsage(a))
  <2>1. CerebroUsage(a) = {B[10], B[11], B[12]} /\ CerebroUsage(b) = {C[10], C[11], C[12]}
    BY BatchesAre DEF CerebroUsage, SubMetricIds, MinuteIds
  <2> HIDE DEF B, C
  <2>2. C[10].ids = B[10].ids /\ C[11].ids = B[11].ids /\ C[12].ids = B[12].ids
    BY <1>2 DEF BatchFades
  <2> QED
    BY <2>1, <2>2 DEF IdsOf
<1> HIDE DEF B, C
<1>4. \A i \in 1..17 : /\ C[i].ids = B[i].ids /\ (B[i].fresh = "stale" => C[i].fresh = "stale")
                       /\ (B[i].fresh = "unknown" => C[i].fresh = "unknown") /\
                            (B[i].trust = "low" => C[i].trust = "low")
  BY <1>2 DEF BatchFades, Fades
<1>5. IdsOf(Collected(b)) = IdsOf(Collected(a))
  <2>1. \A id : id \in IdsOf(Collected(a)) <=> \E i \in 1..17 : id \in B[i].ids
    BY <1>1 DEF IdsOf
  <2>2. \A id : id \in IdsOf(Collected(b)) <=> \E i \in 1..17 : id \in C[i].ids
    BY <1>1 DEF IdsOf
  <2> QED
    BY <1>4, <2>1, <2>2
<1>6. StaleSignals(a) \subseteq StaleSignals(b)
  BY <1>1, <1>4 DEF StaleSignals, IdsOf
<1>7. WeakSignals(a) \subseteq WeakSignals(b)
  BY <1>1, <1>4 DEF WeakSignals, IdsOf
<1>8. UndatedSignals(a) \subseteq UndatedSignals(b)
  BY <1>1, <1>4 DEF UndatedSignals, IdsOf
<1> QED
  BY <1>3, <1>5, <1>6, <1>7, <1>8

(* n days later the penalty is no smaller.                                 *)
LEMMA PenaltyGrows ==
  ASSUME NEW a, NEW k \in Int, IsAccount(a, k), NEW n \in Nat, n <= k, NEW b, NEW j, IsAccount(b, j),
           b = Later(a, n), SameSources(a, b)
  PROVE  Penalty(a) <= Penalty(b) /\ Penalty(a) \in Int /\ Penalty(b) \in Int
<1> DEFINE f == Cardinality(FailedCollectors(a))
           s == Cardinality(StaleSignals(a))
           t == Cardinality(StaleSignals(b))
           u == Cardinality(WeakSignals(a))
           v == Cardinality(WeakSignals(b))
           x == Cardinality(UndatedSignals(a))
           y == Cardinality(UndatedSignals(b))
           few == IF CountOf(Collected(a)) < 5 THEN 2 ELSE 0
<1>1. FailedCollectors(b) = FailedCollectors(a)
  BY SignalsAge DEF FailedCollectors, SameSources
<1>2. f \in Nat
  <2>1. IsFiniteSet({"cerebro_support"} \cup {"cerebro_usage"})
    BY FS_Singleton, FS_Union
  <2>2. FailedCollectors(a) \subseteq {"cerebro_support"} \cup {"cerebro_usage"}
    BY DEF FailedCollectors, Only
  <2>3. IsFiniteSet(FailedCollectors(a))
    BY <2>1, <2>2, FS_Subset
  <2> QED
    BY <2>3, FS_CardinalityType
<1>3. CountOf(Collected(b)) = CountOf(Collected(a)) /\ few \in {0, 2}
  BY SignalsAge DEF CountOf
<1>4. s <= t /\ s \in Nat /\ t \in Nat
  BY SignalsAge, PenaltyIs, FS_Subset
<1>5. u <= v /\ u \in Nat /\ v \in Nat
  BY SignalsAge, PenaltyIs, FS_Subset
<1>6. x <= y /\ x \in Nat /\ y \in Nat
  BY SignalsAge, PenaltyIs, FS_Subset
<1>7. Penalty(a) = f + s \div 3 + u \div 2 + x \div 4 + few
  BY PenaltyIs
<1>8. Penalty(b) = f + t \div 3 + v \div 2 + y \div 4 + few
  BY <1>1, <1>3, PenaltyIs
<1> HIDE DEF f, s, t, u, v, x, y, few
<1>9. s \div 3 <= t \div 3 /\ s \div 3 \in Int /\ t \div 3 \in Int
  BY <1>4, DivMono
<1>10. u \div 2 <= v \div 2 /\ u \div 2 \in Int /\ v \div 2 \in Int
  BY <1>5, DivMono
<1>11. x \div 4 <= y \div 4 /\ x \div 4 \in Int /\ y \div 4 \in Int
  BY <1>6, DivMono
<1> QED
  BY <1>2, <1>3, <1>7, <1>8, <1>9, <1>10, <1>11

(* The grades of the confidence.                                           *)
LEMMA GradeFalls ==
  ASSUME NEW a, NEW b, Penalty(a) \in Int, Penalty(b) \in Int, Penalty(a) <= Penalty(b)
  PROVE  ConfidenceGrade(b) <= ConfidenceGrade(a)
<1> DEFINE order == <<"low", "medium", "high">>
<1>1. DOMAIN order = 1..3 /\ order[1] = "low" /\ order[2] = "medium" /\ order[3] = "high"
  OBVIOUS
<1>2. \A i \in 1..3 : i = 1 \/ i = 2 \/ i = 3
  OBVIOUS
<1> HIDE DEF order
<1>3. \A i, l \in 1..3 : order[i] = order[l] => i = l
  BY <1>1, <1>2
<1>4. \A i \in 1..3 : Place(order, order[i]) = i - 1
  BY <1>1, <1>3, PlacesOf
<1>5. Place(order, "low") = 0 /\ Place(order, "medium") = 1 /\ Place(order, "high") = 2
  <2>1. Place(order, order[1]) = 0 /\ Place(order, order[2]) = 1 /\ Place(order, order[3]) = 2
    BY <1>4
  <2> QED
    BY <1>1, <2>1
<1>6. \A c : ConfidenceGrade(c) = Place(order, PlanConfidence(c))
  BY DEF ConfidenceGrade, order
<1>7. \A c : PlanConfidence(c) = IF Penalty(c) >= 4 THEN "low" ELSE IF Penalty(c) >= 2 THEN "medium" ELSE "high"
  BY DEF PlanConfidence
<1>8. CASE Penalty(b) >= 4
  <2>1. ConfidenceGrade(b) = 0
    BY <1>5, <1>6, <1>7, <1>8
  <2>2. ConfidenceGrade(a) \in 0..2
    BY <1>5, <1>6, <1>7
  <2> QED
    BY <2>1, <2>2
<1>9. CASE ~(Penalty(b) >= 4) /\ Penalty(b) >= 2
  <2>1. ConfidenceGrade(b) = 1
    BY <1>5, <1>6, <1>7, <1>9
  <2>2. ~(Penalty(a) >= 4)
    BY <1>9
  <2>3. ConfidenceGrade(a) \in 1..2
    BY <1>5, <1>6, <1>7, <2>2
  <2> QED
    BY <2>1, <2>3
<1>10. CASE ~(Penalty(b) >= 2)
  <2>1. ~(Penalty(a) >= 2) /\ ~(Penalty(a) >= 4) /\ ~(Penalty(b) >= 4)
    BY <1>10
  <2>2. ConfidenceGrade(b) = 2 /\ ConfidenceGrade(a) = 2
    BY <1>5, <1>6, <1>7, <1>10, <2>1
  <2> QED
    BY <2>2
<1> QED
  BY <1>8, <1>9, <1>10

-----------------------------------------------------------------------------
(* The property.                                                           *)

(* What got worse by days alone passed no renewal.                         *)
LEMMA LaterHolds ==
  ASSUME NEW a, NEW k, IsAccount(a, k), NEW b, Worse(a, b), NEW n \in {1, 30}, b = Later(a, n)
  PROVE  \A o \in Present(a) : a.opps[o].due > n \/ a.opps[o].due < 0
<1> SUFFICES ASSUME NEW o \in Present(a)
             PROVE  a.opps[o].due > n \/ a.opps[o].due < 0
  OBVIOUS
<1>1. n \in Nat /\ n # 0 /\ o \in Opps
  BY DEF Present
<1>2. b.opps[o].due = a.opps[o].due - n /\ a.opps[o].due \in Int
  BY <1>1, LaterFields, OppsAre
<1>3. b.opps[o].due # a.opps[o].due
  BY <1>1, <1>2
<1>4. b.opps # a.opps
  BY <1>3
<1>5. ~SameBut(a, b, "flags") /\ ~SameBut(a, b, "category") /\ ~SameBut(a, b, "sentiment") /\
          ~SameBut(a, b, "minutes30")
  BY <1>4, FactsStay
<1>6. ~OppsAlike(a, b)
  <2>1. "due" \in OppFields \ {"notice"}
    BY DEF OppFields, OppAmounts
  <2> QED
    BY <1>1, <1>3, <2>1 DEF OppsAlike
<1>7. PICK m \in {1, 30} : b = Later(a, m) /\ \A p \in Present(a) : a.opps[p].due > m \/ a.opps[p].due < 0
  BY <1>5, <1>6, WorseHow
<1>8. m = n
  <2>1. m \in Nat
    OBVIOUS
  <2>2. b.opps[o].due = a.opps[o].due - m
    BY <1>1, <1>7, <2>1, LaterFields
  <2> QED
    BY <1>1, <1>2, <2>1, <2>2
<1> QED
  BY <1>7, <1>8

(* The steps that make something worse.                                    *)
ScoreStep == facts' # facts /\ was' = was /\ Worse(facts, facts') => RiskScore(facts', was) >= RiskScore(facts, was)
LevelStep ==
  facts' # facts /\ Worse(facts, facts') /\ ~ConfirmedChurn(facts') /\ ~Masked(facts, facts') =>
    /\ Place(LevelOrder, Level(facts')) <= Place(LevelOrder, Level(facts))
    /\ ~Outranks(facts, facts')
DarkStep ==
  facts' # facts => \A n \in {1, 30} : facts' = Later(facts, n) =>
    /\ Dark(facts) \subseteq Dark(facts') /\ DarkWeight(facts') >= DarkWeight(facts)
    /\ Grade(Confidence(facts')) >= Grade(Confidence(facts))
PlanStep ==
  facts' # facts /\ Worse(facts, facts') /\ ActiveAccount(facts') =>
    /\ RenewalScore(facts') <= RenewalScore(facts)
    /\ SupportScore(facts') >= SupportScore(facts)
    /\ ExpansionScore(facts') <= ExpansionScore(facts)
    /\ \A n \in {1, 30} : facts' = Later(facts, n) => ConfidenceGrade(facts') <= ConfidenceGrade(facts)

(* In such a step there is an account before and after it, and a month is  *)
(* left.                                                                   *)
LEMMA StepAccounts ==
  ASSUME RiskSorts, RiskSorts', [RiskNext]_riskVars, facts' # facts
  PROVE  \E k, j \in Int : 30 <= k /\ IsAccount(facts, k) /\ IsAccount(facts', j) /\ IsAccount(was, 0)
<1>1. edits \in Int /\ MaxEdits \in Int /\ edits < MaxEdits /\ edits' \in Int
  BY RiskAssumption DEF RiskNext, riskVars, RiskSorts
<1>2. 30 * (MaxEdits - edits) \in Int /\ 30 <= 30 * (MaxEdits - edits) /\ 30 * (MaxEdits - edits') \in Int
  BY <1>1
<1>3. IsAccount(facts, 30 * (MaxEdits - edits)) /\ IsAccount(facts', 30 * (MaxEdits - edits')) /\ IsAccount(was, 0)
  BY DEF RiskSorts
<1> QED
  BY <1>2, <1>3

(* A step that makes a view worse lowers neither its score, its rank nor   *)
(* its dark signals, and raises no score or confidence of its plan.        *)
LEMMA WorseSteps ==
  RiskSorts /\ RiskSorts' /\ [RiskNext]_riskVars => ScoreStep /\ LevelStep /\ DarkStep /\ PlanStep
<1> SUFFICES ASSUME RiskSorts, RiskSorts', [RiskNext]_riskVars, facts' # facts
             PROVE  ScoreStep /\ LevelStep /\ DarkStep /\ PlanStep
  BY DEF ScoreStep, LevelStep, DarkStep, PlanStep
<1>1. PICK k \in Int, j \in Int : 30 <= k /\ IsAccount(facts, k) /\ IsAccount(facts', j) /\ IsAccount(was, 0)
  BY StepAccounts
<1>2. ScoreStep
  BY <1>1, ScoreGrows DEF ScoreStep
<1>3. ASSUME Worse(facts, facts'), ~ConfirmedChurn(facts'), ~Masked(facts, facts')
      PROVE  /\ Place(LevelOrder, Level(facts')) <= Place(LevelOrder, Level(facts))
             /\ ~Outranks(facts, facts')
  <2>1. Stands(facts, facts')
    BY <1>1, <1>3, WorseStands
  <2>2. ~ConfirmedChurn(facts)
    BY <1>1, <1>3, LostStays
  <2>3. ~Outranks(facts, facts')
    BY <1>1, <1>3, <2>1, <2>2, StandsRanks
  <2> QED
    BY <2>1, <2>3 DEF Stands, Rank
<1>4. ASSUME NEW n \in {1, 30}, facts' = Later(facts, n)
      PROVE  /\ Dark(facts) \subseteq Dark(facts') /\ DarkWeight(facts') >= DarkWeight(facts)
             /\ Grade(Confidence(facts')) >= Grade(Confidence(facts))
  <2>1. n \in Nat /\ n <= k
    BY <1>1
  <2>2. Dark(facts) \subseteq Dark(facts')
    BY <1>1, <1>4, <2>1, DarkLater
  <2> QED
    BY <2>2, WeightGrows, ConfidenceGrows
<1>5. ASSUME Worse(facts, facts'), ActiveAccount(facts')
      PROVE  /\ RenewalScore(facts') <= RenewalScore(facts)
             /\ SupportScore(facts') >= SupportScore(facts)
             /\ ExpansionScore(facts') <= ExpansionScore(facts)
             /\ \A n \in {1, 30} : facts' = Later(facts, n) => ConfidenceGrade(facts') <= ConfidenceGrade(facts)
  <2>1. ~ConfirmedChurn(facts')
    BY <1>5 DEF ActiveAccount
  <2>2. RenewalScore(facts') <= RenewalScore(facts)
    BY <1>1, <1>5, <2>1, WorsePressed, PressedFalls
  <2>3. SupportScore(facts') >= SupportScore(facts)
    BY <1>1, <1>5, WorseSupport
  <2>4. ExpansionScore(facts') <= ExpansionScore(facts)
    BY <1>1, <1>5, <2>1, WorseWanes, ExpansionFalls
  <2>5. ASSUME NEW n \in {1, 30}, facts' = Later(facts, n)
        PROVE  ConfidenceGrade(facts') <= ConfidenceGrade(facts)
    <3>1. n \in Nat /\ n <= k
      BY <1>1
    <3>2. \A o \in Present(facts) : facts.opps[o].due > n \/ facts.opps[o].due < 0
      BY <1>1, <1>5, <2>5, LaterHolds
    <3>3. SameSources(facts, facts')
      BY <1>1, <2>5, <3>1, <3>2, LaterSources
    <3>4. Penalty(facts) <= Penalty(facts') /\ Penalty(facts) \in Int /\ Penalty(facts') \in Int
      BY <1>1, <2>5, <3>1, <3>3, PenaltyGrows
    <3> QED
      BY <3>4, GradeFalls
  <2> QED
    BY <2>2, <2>3, <2>4, <2>5
<1> QED
  BY <1>2, <1>3, <1>4, <1>5 DEF LevelStep, DarkStep, PlanStep

(* Whatever makes an account worse never lowers its score, its level or    *)
(* its place in the ranking (scoreAccountRisk, compareForRanking), days    *)
(* alone never light a dark signal, and no score or confidence of its plan *)
(* rises (computePlanScores, planConfidence).                              *)
THEOREM SignalsHold == RiskSpec => SignalsFollow
<1>1. RiskSorts /\ RiskSorts' /\ [RiskNext]_riskVars => [ScoreStep]_riskVars /\ [LevelStep]_riskVars /\
          [DarkStep]_riskVars /\ [PlanStep]_riskVars
  BY WorseSteps
<1>2. RiskSpec => [][ScoreStep]_riskVars /\ [][LevelStep]_riskVars /\ [][DarkStep]_riskVars /\ [][PlanStep]_riskVars
  BY <1>1, AccountsAreTyped, PTL DEF RiskSpec
<1>3. [][ScoreStep]_riskVars <=> ScoreFollows
  BY DEF ScoreStep, ScoreFollows
<1>4. [][LevelStep]_riskVars <=> LevelFollows
  BY DEF LevelStep, LevelFollows
<1>5. [][DarkStep]_riskVars <=> TimeDarkens
  BY DEF DarkStep, TimeDarkens
<1>6. [][PlanStep]_riskVars <=> PlanFollows
  BY DEF PlanStep, PlanFollows
<1> QED
  BY <1>2, <1>3, <1>4, <1>5, <1>6, PTL DEF SignalsFollow, TroubleShows
=============================================================================
