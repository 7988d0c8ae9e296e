----------------------------- MODULE FoldProofs -----------------------------
(***************************************************************************)
(* Lemmas about the folds, the sums, the least numbers and the sequences   *)
(* of the other modules.  The provers here cannot be given a predicate, so *)
(* that induction is over a set: whatever family of subsets has this one   *)
(* and that one has the whole.                                             *)
(***************************************************************************)
EXTENDS Integers, Sequences, FiniteSets, Functions,
        FiniteSetTheorems, WellFoundedInduction, TLAPS

-----------------------------------------------------------------------------
(* Induction.                                                              *)

\* Among some subsets of D there is one that has none of the others in it.
LEMMA LeastSubset ==
  ASSUME NEW D, IsFiniteSet(D), NEW T \in SUBSET SUBSET D, T # {}
  PROVE  \E s \in T : \A t \in T : t \subseteq s => t = s
<1> DEFINE R == StrictSubsetOrdering(D)
           Subsets == SUBSET D
<1>1. IsWellFoundedOn(StrictSubsetOrdering(D), FiniteSubsetsOf(D))
  BY FS_StrictSubsetOrderingWellFounded, Zenon
<1>2. FiniteSubsetsOf(D) = SUBSET D
  BY FS_FiniteSubsetsOfFinite, Zenon
<1>3. IsWellFoundedOn(R, Subsets) /\ T \subseteq Subsets /\ T # {}
  BY <1>1, <1>2
<1>4. \E s \in T : \A t \in T : ~ (<<t, s>> \in R)
  <2> HIDE DEF R, Subsets
  <2> QED
    BY <1>3, WFMin
<1> QED
  BY <1>4 DEF StrictSubsetOrdering

\* A family that has each subset of D whose smaller subsets it has, has D itself.
LEMMA SmallerSubsets ==
  ASSUME NEW D, IsFiniteSet(D), NEW Family,
         \A s \in SUBSET D : (\A t \in SUBSET s : t # s => t \in Family) => s \in Family
  PROVE  \A s \in SUBSET D : s \in Family
<1> DEFINE Bad == {s \in SUBSET D : s \notin Family}
<1> SUFFICES ASSUME Bad # {} PROVE FALSE
  OBVIOUS
<1>1. PICK s \in Bad : \A t \in Bad : t \subseteq s => t = s
  <2>1. Bad \in SUBSET SUBSET D
    OBVIOUS
  <2> HIDE DEF Bad
  <2> QED
    BY <2>1, LeastSubset
<1>2. \A t \in SUBSET s : t # s => t \in Family
  BY <1>1
<1> QED
  BY <1>2

\* A family that has the empty set and, with a subset, that subset and one more
\* element has every subset of D.
LEMMA OneByOne ==
  ASSUME NEW D, IsFiniteSet(D), NEW Family, {} \in Family,
         \A s \in SUBSET D, x \in D :
           s \in Family /\ x \notin s => s \cup {x} \in Family
  PROVE  \A s \in SUBSET D : s \in Family
<1>1. ASSUME NEW s \in SUBSET D, \A t \in SUBSET s : t # s => t \in Family
      PROVE  s \in Family
  <2>1. CASE s = {}
    BY <2>1
  <2>2. CASE s # {}
    <3>1. PICK x \in s : TRUE
      BY <2>2
    <3>2. s \ {x} \in Family /\ x \in D /\ s \ {x} \in SUBSET D
      BY <1>1
    <3>3. (s \ {x}) \cup {x} = s
      OBVIOUS
    <3> QED
      BY <3>2, <3>3
  <2> QED
    BY <2>1, <2>2
<1> QED
  BY <1>1, SmallerSubsets

-----------------------------------------------------------------------------
(* A fold takes the elements of a set one at a time: choice[s] is the one  *)
(* taken from s, and step[<<s, v>>] what becomes of the value v of the     *)
(* others.  The recursive function a fold is defined by exists.            *)

FoldValue(base, choice, step, g, s) ==
  IF s = {} THEN base ELSE step[<<s, g[s \ {choice[s]}]>>]

FoldsOf(D, V, base, choice, step) ==
  {g \in [SUBSET D -> V] :
     \A s \in SUBSET D : g[s] = FoldValue(base, choice, step, g, s)}

\* Two folds over different sets agree on their common subsets.
LEMMA FoldsAgree ==
  ASSUME NEW D, IsFiniteSet(D), NEW V, NEW base \in V,
         NEW choice, \A s \in SUBSET D : s # {} => choice[s] \in s,
         NEW step \in [(SUBSET D) \X V -> V],
         NEW E \in SUBSET D, NEW g \in FoldsOf(E, V, base, choice, step),
         NEW F \in SUBSET D, NEW h \in FoldsOf(F, V, base, choice, step)
  PROVE  \A s \in SUBSET D : s \subseteq E /\ s \subseteq F => g[s] = h[s]
<1> DEFINE Agree == {s \in SUBSET D : s \subseteq E /\ s \subseteq F => g[s] = h[s]}
<1>1. ASSUME NEW s \in SUBSET D, \A t \in SUBSET s : t # s => t \in Agree
      PROVE  s \in Agree
  <2> SUFFICES ASSUME s \subseteq E, s \subseteq F PROVE g[s] = h[s]
    OBVIOUS
  <2>1. /\ g[s] = FoldValue(base, choice, step, g, s)
        /\ h[s] = FoldValue(base, choice, step, h, s)
    BY DEF FoldsOf
  <2>2. CASE s = {}
    BY <2>1, <2>2 DEF FoldValue
  <2>3. CASE s # {}
    <3>1. s \ {choice[s]} # s /\ s \ {choice[s]} \in SUBSET s
      BY <2>3
    <3>2. s \ {choice[s]} \in Agree
      BY <1>1, <3>1
    <3>3. g[s \ {choice[s]}] = h[s \ {choice[s]}]
      BY <3>2
    <3> QED
      BY <2>1, <2>3, <3>3 DEF FoldValue
  <2> QED
    BY <2>2, <2>3
<1>2. \A s \in SUBSET D : s \in Agree
  <2> HIDE DEF Agree
  <2> QED
    BY <1>1, SmallerSubsets
<1> QED
  BY <1>2

LEMMA FoldExists ==
  ASSUME NEW D, IsFiniteSet(D), NEW V, NEW base \in V,
         NEW choice, \A s \in SUBSET D : s # {} => choice[s] \in s,
         NEW step \in [(SUBSET D) \X V -> V]
  PROVE  FoldsOf(D, V, base, choice, step) # {}
<1> DEFINE Folded == {E \in SUBSET D : FoldsOf(E, V, base, choice, step) # {}}
<1>1. ASSUME NEW E \in SUBSET D, \A F \in SUBSET E : F # E => F \in Folded
      PROVE  E \in Folded
  <2> DEFINE fold(F) == CHOOSE g \in FoldsOf(F, V, base, choice, step) : TRUE
             value(F) == fold(F)[F]
             last == IF E = {} THEN base
                     ELSE step[<<E, value(E \ {choice[E]})>>]
             g == [s \in SUBSET E |-> IF s = E THEN last ELSE value(s)]
  <2>1. \A F \in SUBSET E : F # E => fold(F) \in FoldsOf(F, V, base, choice, step)
    BY <1>1
  <2>2. \A F \in SUBSET E : F # E => /\ value(F) \in V
                                     /\ value(F) = FoldValue(base, choice, step, fold(F), F)
    <3> HIDE DEF fold
    <3> QED
      BY <2>1 DEF FoldsOf
  <2>3. last \in V
    <3>1. CASE E = {}
      BY <3>1
    <3>2. CASE E # {}
      <4>1. E \ {choice[E]} \in SUBSET E /\ E \ {choice[E]} # E
        BY <3>2
      <4>2. value(E \ {choice[E]}) \in V
        BY <2>2, <4>1
      <4> HIDE DEF value
      <4> QED
        BY <3>2, <4>2
    <3> QED
      BY <3>1, <3>2
  <2>4. g \in [SUBSET E -> V]
    <3> HIDE DEF value, last
    <3> QED
      BY <2>2, <2>3
  <2>5. ASSUME NEW s \in SUBSET E, s # E, s # {}
        PROVE  fold(s)[s \ {choice[s]}] = value(s \ {choice[s]})
    <3> DEFINE t == s \ {choice[s]}
    <3>1. t \in SUBSET E /\ t # E /\ t \subseteq s /\ s \in SUBSET D /\ t \in SUBSET D
      BY <2>5
    <3>2. /\ fold(s) \in FoldsOf(s, V, base, choice, step)
          /\ fold(t) \in FoldsOf(t, V, base, choice, step)
      BY <2>1, <2>5, <3>1
    <3> HIDE DEF fold, t
    <3>3. \A r \in SUBSET D : r \subseteq s /\ r \subseteq t => fold(s)[r] = fold(t)[r]
      BY <3>1, <3>2, FoldsAgree
    <3>4. fold(s)[t] = fold(t)[t]
      BY <3>1, <3>3
    <3> QED
      BY <3>4 DEF t
  <2>6. ASSUME NEW s \in SUBSET E
        PROVE  g[s] = FoldValue(base, choice, step, g, s)
    <3>1. CASE s = {} /\ s = E
      BY <3>1 DEF FoldValue
    <3>2. CASE s = {} /\ s # E
      <4>1. value(s) = base
        BY <2>2, <3>2 DEF FoldValue
      <4> HIDE DEF value
      <4> QED
        BY <3>2, <4>1 DEF FoldValue
    <3>3. CASE s # {}
      <4>1. s \ {choice[s]} \in SUBSET E /\ s \ {choice[s]} # E
        BY <3>3
      <4>2. g[s \ {choice[s]}] = value(s \ {choice[s]})
        <5> HIDE DEF value, last
        <5> QED
          BY <4>1
      <4>3. CASE s = E
        <5>1. g[s] = last
          BY <4>3
        <5>2. last = step[<<s, value(s \ {choice[s]})>>]
          BY <3>3, <4>3
        <5> HIDE DEF g, value, last
        <5> QED
          BY <3>3, <4>2, <5>1, <5>2 DEF FoldValue
      <4>4. CASE s # E
        <5>1. g[s] = value(s)
          <6> HIDE DEF value, last
          <6> QED
            BY <4>4
        <5>2. value(s) = step[<<s, fold(s)[s \ {choice[s]}]>>]
          <6>1. value(s) = FoldValue(base, choice, step, fold(s), s)
            BY <2>2, <4>4
          <6> HIDE DEF value, fold
          <6> QED
            BY <3>3, <6>1 DEF FoldValue
        <5>3. fold(s)[s \ {choice[s]}] = value(s \ {choice[s]})
          BY <2>5, <3>3, <4>4
        <5> HIDE DEF g, value, last, fold
        <5> QED
          BY <3>3, <4>2, <5>1, <5>2, <5>3 DEF FoldValue
      <4> QED
        BY <4>3, <4>4
    <3> QED
      BY <3>1, <3>2, <3>3
  <2>7. g \in FoldsOf(E, V, base, choice, step)
    <3> HIDE DEF g
    <3> QED
      BY <2>4, <2>6 DEF FoldsOf
  <2> HIDE DEF g
  <2> QED
    BY <2>7
<1>2. \A E \in SUBSET D : E \in Folded
  <2> HIDE DEF Folded
  <2> QED
    BY <1>1, SmallerSubsets
<1> QED
  BY <1>2

-----------------------------------------------------------------------------
(* Counters that start again at zero.                                      *)

\* Quotient and remainder.
LEMMA DivMod ==
  ASSUME NEW U \in Nat \ {0}, NEW x \in Int
  PROVE /\ x \div U \in Int /\ x % U \in 0 .. U - 1 /\ x = U * (x \div U) + (x % U)
  OBVIOUS

\* A product is no smaller than its first factor.
LEMMA TimesAtLeast ==
  ASSUME NEW U \in Nat \ {0}, NEW q \in Int, q >= 1
  PROVE U * q >= U
  OBVIOUS

\* There is one remainder.
LEMMA ModUnique ==
  ASSUME NEW U \in Nat \ {0}, NEW q \in Int, NEW r \in 0 .. U - 1, NEW x \in Int, x = U * q + r
  PROVE x % U = r
<1> DEFINE k == x \div U
           s == x % U
<1>1. k \in Int /\ s \in 0 .. U - 1 /\ x = U * k + s
  BY DivMod
<1> HIDE DEF k, s
<1>2. U * (k - q) = r - s /\ U * (q - k) = s - r
  BY <1>1
<1>3. ~ (k - q >= 1)
  BY <1>1, <1>2, TimesAtLeast
<1>4. ~ (q - k >= 1)
  BY <1>1, <1>2, TimesAtLeast
<1>5. k = q
  BY <1>1, <1>3, <1>4
<1> QED
  BY <1>1, <1>5 DEF s

\* Whole turns of the counter make no difference.
LEMMA ModShift ==
  ASSUME NEW U \in Nat \ {0}, NEW a \in Int, NEW q \in Int
  PROVE (a + U * q) % U = a % U
<1> DEFINE k == a \div U
           s == a % U
<1>1. k \in Int /\ s \in 0 .. U - 1 /\ a = U * k + s
  BY DivMod
<1> HIDE DEF k, s
<1>2. k + q \in Int /\ a + U * q = U * (k + q) + s
  BY <1>1
<1>3. a + U * q \in Int
  BY <1>2
<1> HIDE DEF k, s
<1>4. (a + U * q) % U = s
  <2> DEFINE x == a + U * q
             p == k + q
  <2>1. x \in Int /\ p \in Int /\ x = U * p + s
    BY <1>2, <1>3
  <2> HIDE DEF x, p
  <2>2. x % U = s
    BY <2>1, <1>1, ModUnique
  <2> QED
    BY <2>2 DEF x
<1> QED
  BY <1>4 DEF s

\* A term of a sum may be reduced before it is added.
LEMMA ModSum ==
  ASSUME NEW U \in Nat \ {0}, NEW a \in Int, NEW b \in Int
  PROVE  (a + b) % U = ((a % U) + b) % U
<1> DEFINE q == a \div U
           r == a % U
<1>1. q \in Int /\ r \in 0 .. U - 1 /\ a = U * q + r
  BY DivMod
<1> HIDE DEF q, r
<1>2. r + b \in Int /\ a + b = (r + b) + U * q
  BY <1>1
<1>3. ((r + b) + U * q) % U = (r + b) % U
  <2> DEFINE x == r + b
  <2>1. x \in Int
    BY <1>2
  <2> HIDE DEF x
  <2> QED
    BY <2>1, <1>1, ModShift DEF x
<1> QED
  BY <1>2, <1>3 DEF r

\* So may both.
LEMMA ModSums ==
  ASSUME NEW U \in Nat \ {0}, NEW a \in Int, NEW b \in Int, NEW c \in Int, NEW d \in Int,
         a % U = c % U, b % U = d % U
  PROVE  (a + b) % U = (c + d) % U
<1>1. (a + b) % U = ((c % U) + b) % U /\ (c + b) % U = ((c % U) + b) % U
  BY ModSum
<1>2. (b + c) % U = ((d % U) + c) % U /\ (d + c) % U = ((d % U) + c) % U
  BY ModSum
<1>3. b + c = c + b /\ d + c = c + d
  OBVIOUS
<1> QED
  BY <1>1, <1>2, <1>3

LEMMA ModTwice ==
  ASSUME NEW U \in Nat \ {0}, NEW a \in Int
  PROVE  (a % U) % U = a % U
<1>1. a % U \in 0 .. U - 1
  BY DivMod
<1>2. a % U = U * 0 + (a % U)
  BY <1>1
<1> DEFINE r == a % U
<1> HIDE DEF r
<1>3. r % U = r
  BY <1>1, <1>2, ModUnique DEF r
<1> QED
  BY <1>3 DEF r

-----------------------------------------------------------------------------
(* Sums.                                                                   *)

TheOne(s) == CHOOSE x \in s : TRUE

\* The function g adds up f over the subsets of D.
AddsUp(g, f, D) ==
  /\ g \in [SUBSET D -> Int]
  /\ \A s \in SUBSET D :
       g[s] = IF s = {} THEN 0 ELSE f[TheOne(s)] + g[s \ {TheOne(s)}]

\* SumFunctionOnSet is a fold.
LEMMA SumIsFold ==
  ASSUME NEW D, IsFiniteSet(D), NEW f, \A x \in D : f[x] \in Int
  PROVE  \E g : AddsUp(g, f, D) /\ SumFunctionOnSet(f, D) = g[D]
<1> DEFINE Body(h) == [s \in SUBSET D |->
                         IF s = {} THEN 0
                         ELSE f[CHOOSE x \in s : TRUE] + h[s \ {CHOOSE x \in s : TRUE}]]
           iter == CHOOSE h : h = Body(h)
<1>1. SumFunctionOnSet(f, D) = iter[D]
  BY DEF SumFunctionOnSet, FoldFunctionOnSet, MapThenFoldSet
<1>2. \E h : h = Body(h) /\ h \in [SUBSET D -> Int]
  <2> DEFINE choice == [s \in SUBSET D |-> TheOne(s)]
             step == [sv \in (SUBSET D) \X Int |->
                        IF sv[1] = {} THEN 0 ELSE f[choice[sv[1]]] + sv[2]]
  <2>1. \A s \in SUBSET D : s # {} => choice[s] \in s
    BY DEF TheOne
  <2>2. step \in [(SUBSET D) \X Int -> Int]
    <3> SUFFICES ASSUME NEW s \in SUBSET D, NEW v \in Int
                 PROVE  (IF s = {} THEN 0 ELSE f[choice[s]] + v) \in Int
      OBVIOUS
    <3>1. s # {} => f[choice[s]] \in Int
      BY <2>1
    <3> HIDE DEF choice
    <3> QED
      BY <3>1
  <2>3. PICK h : h \in FoldsOf(D, Int, 0, choice, step)
    <3> HIDE DEF choice, step
    <3>1. FoldsOf(D, Int, 0, choice, step) # {}
      BY <2>1, <2>2, FoldExists
    <3> QED
      BY <3>1
  <2>4. /\ h \in [SUBSET D -> Int]
        /\ \A s \in SUBSET D : h[s] = FoldValue(0, choice, step, h, s)
    <3> HIDE DEF choice, step
    <3> QED
      BY <2>3 DEF FoldsOf
  <2>5. ASSUME NEW s \in SUBSET D
        PROVE  h[s] = IF s = {} THEN 0 ELSE f[TheOne(s)] + h[s \ {TheOne(s)}]
    <3>1. h[s \ {TheOne(s)}] \in Int
      BY <2>4
    <3>2. s # {} => step[<<s, h[s \ {TheOne(s)}]>>] = f[TheOne(s)] + h[s \ {TheOne(s)}]
      BY <3>1
    <3> QED
      BY <2>4, <3>2 DEF FoldValue
  <2>6. h = [s \in SUBSET D |->
               IF s = {} THEN 0 ELSE f[TheOne(s)] + h[s \ {TheOne(s)}]]
    BY <2>4, <2>5
  <2>7. h = Body(h)
    BY <2>6 DEF TheOne
  <2> QED
    BY <2>4, <2>7
<1>3. iter = Body(iter)
  <2> HIDE DEF Body
  <2> QED
    BY <1>2
<1>4. iter = [s \in SUBSET D |->
                IF s = {} THEN 0 ELSE f[TheOne(s)] + iter[s \ {TheOne(s)}]]
  <2> HIDE DEF iter
  <2> QED
    BY <1>3 DEF TheOne
<1>5. \A s \in SUBSET D : iter[s] \in Int
  <2> HIDE DEF iter
  <2> DEFINE Integral == {s \in SUBSET D : iter[s] \in Int}
  <2>1. ASSUME NEW s \in SUBSET D, \A t \in SUBSET s : t # s => t \in Integral
        PROVE  s \in Integral
    <3>1. CASE s = {}
      BY <1>4, <3>1
    <3>2. CASE s # {}
      <4>1. TheOne(s) \in s
        BY <3>2 DEF TheOne
      <4>2. iter[s \ {TheOne(s)}] \in Int /\ f[TheOne(s)] \in Int
        BY <2>1, <4>1
      <4>3. iter[s] = f[TheOne(s)] + iter[s \ {TheOne(s)}]
        BY <1>4, <3>2
      <4> QED
        BY <4>2, <4>3
    <3> QED
      BY <3>1, <3>2
  <2>2. \A s \in SUBSET D : s \in Integral
    <3> HIDE DEF Integral
    <3> QED
      BY <2>1, SmallerSubsets
  <2> QED
    BY <2>2
<1>6. AddsUp(iter, f, D)
  <2> HIDE DEF iter
  <2> QED
    BY <1>4, <1>5 DEF AddsUp
<1> HIDE DEF iter
<1> QED
  BY <1>1, <1>6

\* The sum over a subset is the same, whether the subset is added up by itself or on
\* the way to the whole.
LEMMA AddsUpSubsets ==
  ASSUME NEW D, IsFiniteSet(D), NEW f, \A x \in D : f[x] \in Int,
         NEW g, AddsUp(g, f, D), NEW s \in SUBSET D
  PROVE  SumFunctionOnSet(f, s) = g[s]
<1>1. IsFiniteSet(s)
  BY FS_Subset
<1>2. PICK h : AddsUp(h, f, s) /\ SumFunctionOnSet(f, s) = h[s]
  BY <1>1, SumIsFold
<1> DEFINE Same == {t \in SUBSET s : g[t] = h[t]}
<1>3. ASSUME NEW t \in SUBSET s, \A r \in SUBSET t : r # t => r \in Same
      PROVE  t \in Same
  <2>1. CASE t = {}
    BY <1>2, <2>1 DEF AddsUp
  <2>2. CASE t # {}
    <3>1. t \ {TheOne(t)} \in SUBSET t /\ t \ {TheOne(t)} # t
      BY <2>2 DEF TheOne
    <3>2. g[t \ {TheOne(t)}] = h[t \ {TheOne(t)}]
      BY <1>3, <3>1
    <3>3. /\ g[t] = f[TheOne(t)] + g[t \ {TheOne(t)}]
          /\ h[t] = f[TheOne(t)] + h[t \ {TheOne(t)}]
      BY <1>2, <2>2 DEF AddsUp
    <3> QED
      BY <3>2, <3>3
  <2> QED
    BY <2>1, <2>2
<1>4. \A t \in SUBSET s : t \in Same
  <2> HIDE DEF Same
  <2> QED
    BY <1>1, <1>3, SmallerSubsets
<1> QED
  BY <1>2, <1>4

\* Any element may be taken first.
LEMMA AnyFirst ==
  ASSUME NEW D, IsFiniteSet(D), NEW f, \A x \in D : f[x] \in Int,
         NEW g, AddsUp(g, f, D), NEW S \in SUBSET D
  PROVE  \A x \in S : g[S] = f[x] + g[S \ {x}]
<1> DEFINE Free == {s \in SUBSET D : \A x \in s : g[s] = f[x] + g[s \ {x}]}
<1>1. ASSUME NEW s \in SUBSET D, \A t \in SUBSET s : t # s => t \in Free
      PROVE  s \in Free
  <2> SUFFICES ASSUME NEW x \in s PROVE g[s] = f[x] + g[s \ {x}]
    OBVIOUS
  <2> DEFINE y == TheOne(s)
  <2>0. y \in s
    BY DEF TheOne
  <2> HIDE DEF y
  <2>1. g[s] = f[y] + g[s \ {y}]
    BY DEF AddsUp, y
  <2>2. CASE x = y
    BY <2>1, <2>2
  <2>3. CASE x # y
    <3> DEFINE r == (s \ {x}) \ {y}
    <3>1. s \ {y} \in Free /\ s \ {x} \in Free /\ (s \ {y}) \ {x} = r
      BY <1>1, <2>0
    <3>2. g[s \ {y}] = f[x] + g[r]
      BY <2>3, <3>1
    <3>3. g[s \ {x}] = f[y] + g[r]
      BY <2>0, <2>3, <3>1
    <3>4. f[x] \in Int /\ f[y] \in Int /\ g[r] \in Int
      BY <2>0 DEF AddsUp
    <3> HIDE DEF Free, r
    <3> QED
      BY <2>1, <3>2, <3>3, <3>4
  <2> QED
    BY <2>2, <2>3
<1>2. \A s \in SUBSET D : s \in Free
  <2> HIDE DEF Free
  <2> QED
    BY <1>1, SmallerSubsets
<1> QED
  BY <1>2

\* The sum of integers is an integer, nothing sums up to zero, and each element adds
\* its own to the sum of the others.
LEMMA SumBasics ==
  ASSUME NEW D, IsFiniteSet(D), NEW f, \A x \in D : f[x] \in Int
  PROVE  /\ SumFunctionOnSet(f, D) \in Int
         /\ SumFunctionOnSet(f, {}) = 0
         /\ \A x \in D : SumFunctionOnSet(f, D) = f[x] + SumFunctionOnSet(f, D \ {x})
<1>1. PICK g : AddsUp(g, f, D) /\ SumFunctionOnSet(f, D) = g[D]
  BY SumIsFold
<1>2. \A s \in SUBSET D : SumFunctionOnSet(f, s) = g[s]
  BY <1>1, AddsUpSubsets
<1>3. \A s \in SUBSET D : \A x \in s : g[s] = f[x] + g[s \ {x}]
  <2> SUFFICES ASSUME NEW s \in SUBSET D, NEW x \in s PROVE g[s] = f[x] + g[s \ {x}]
    OBVIOUS
  <2>1. AddsUp(g, f, D)
    BY <1>1
  <2> QED
    BY <2>1, AnyFirst, SMTT(60)
<1>4. g[D] \in Int /\ g[{}] = 0
  BY <1>1 DEF AddsUp
<1> QED
  BY <1>2, <1>3, <1>4

LEMMA SumAdd ==
  ASSUME NEW S, IsFiniteSet(S), NEW z, z \notin S,
         NEW f, \A x \in S \cup {z} : f[x] \in Int
  PROVE  SumFunctionOnSet(f, S \cup {z}) = f[z] + SumFunctionOnSet(f, S)
<1> DEFINE D == S \cup {z}
<1>1. IsFiniteSet(D) /\ z \in D /\ D \ {z} = S
  BY FS_AddElement
<1>2. \A x \in D : SumFunctionOnSet(f, D) = f[x] + SumFunctionOnSet(f, D \ {x})
  <2> HIDE DEF D
  <2> QED
    BY <1>1, SumBasics DEF D
<1>3. SumFunctionOnSet(f, D) = f[z] + SumFunctionOnSet(f, D \ {z})
  <2> HIDE DEF D
  <2> QED
    BY <1>1, <1>2
<1> QED
  BY <1>1, <1>3

\* Equal terms have equal sums, naturals have a natural sum, and zeros the sum zero.
LEMMA SumSame ==
  ASSUME NEW D, IsFiniteSet(D), NEW f, \A x \in D : f[x] \in Int,
         NEW h, \A x \in D : h[x] = f[x]
  PROVE  SumFunctionOnSet(h, D) = SumFunctionOnSet(f, D)
<1> DEFINE Same == {s \in SUBSET D : SumFunctionOnSet(h, s) = SumFunctionOnSet(f, s)}
<1>1. {} \in Same
  BY SumBasics, FS_EmptySet
<1>2. ASSUME NEW s \in SUBSET D, NEW x \in D, s \in Same, x \notin s
      PROVE  s \cup {x} \in Same
  <2>1. IsFiniteSet(s)
    BY FS_Subset
  <2>2. SumFunctionOnSet(f, s \cup {x}) = f[x] + SumFunctionOnSet(f, s)
    BY <1>2, <2>1, SumAdd
  <2>3. SumFunctionOnSet(h, s \cup {x}) = h[x] + SumFunctionOnSet(h, s)
    BY <1>2, <2>1, SumAdd
  <2> QED
    BY <1>2, <2>2, <2>3
<1>3. \A s \in SUBSET D : s \in Same
  <2> HIDE DEF Same
  <2> QED
    BY <1>1, <1>2, OneByOne
<1> QED
  BY <1>3

LEMMA SumNat ==
  ASSUME NEW D, IsFiniteSet(D), NEW f, \A x \in D : f[x] \in Nat
  PROVE  SumFunctionOnSet(f, D) \in Nat
<1> DEFINE Natural == {s \in SUBSET D : SumFunctionOnSet(f, s) \in Nat}
<1>1. {} \in Natural
  BY SumBasics, FS_EmptySet
<1>2. ASSUME NEW s \in SUBSET D, NEW x \in D, s \in Natural, x \notin s
      PROVE  s \cup {x} \in Natural
  <2>1. IsFiniteSet(s) /\ \A y \in s \cup {x} : f[y] \in Int
    BY FS_Subset
  <2>2. SumFunctionOnSet(f, s \cup {x}) = f[x] + SumFunctionOnSet(f, s)
    BY <1>2, <2>1, SumAdd
  <2> QED
    BY <1>2, <2>2
<1>3. \A s \in SUBSET D : s \in Natural
  <2> HIDE DEF Natural
  <2> QED
    BY <1>1, <1>2, OneByOne
<1> QED
  BY <1>3

LEMMA SumZero ==
  ASSUME NEW D, IsFiniteSet(D), NEW f, \A x \in D : f[x] = 0
  PROVE  SumFunctionOnSet(f, D) = 0
<1> DEFINE Zero == {s \in SUBSET D : SumFunctionOnSet(f, s) = 0}
<1>1. {} \in Zero
  BY SumBasics, FS_EmptySet
<1>2. ASSUME NEW s \in SUBSET D, NEW x \in D, s \in Zero, x \notin s
      PROVE  s \cup {x} \in Zero
  <2>1. IsFiniteSet(s) /\ \A y \in s \cup {x} : f[y] \in Int
    BY FS_Subset
  <2>2. SumFunctionOnSet(f, s \cup {x}) = f[x] + SumFunctionOnSet(f, s)
    BY <1>2, <2>1, SumAdd
  <2> QED
    BY <1>2, <2>2
<1>3. \A s \in SUBSET D : s \in Zero
  <2> HIDE DEF Zero
  <2> QED
    BY <1>1, <1>2, OneByOne
<1> QED
  BY <1>3

\* The sum over two sets that have nothing in common.
LEMMA SumUnion ==
  ASSUME NEW A, IsFiniteSet(A), NEW B, IsFiniteSet(B), A \cap B = {},
         NEW f, \A x \in A \cup B : f[x] \in Int
  PROVE  SumFunctionOnSet(f, A \cup B) = SumFunctionOnSet(f, A) + SumFunctionOnSet(f, B)
<1> DEFINE Good == {s \in SUBSET B : SumFunctionOnSet(f, A \cup s)
                                       = SumFunctionOnSet(f, A) + SumFunctionOnSet(f, s)}
<1>0. SumFunctionOnSet(f, A) \in Int
  BY SumBasics
<1>1. {} \in Good
  <2>1. A \cup {} = A /\ SumFunctionOnSet(f, {}) = 0
    BY SumBasics, FS_EmptySet
  <2> QED
    BY <1>0, <2>1
<1>2. ASSUME NEW s \in SUBSET B, NEW x \in B, s \in Good, x \notin s
      PROVE  s \cup {x} \in Good
  <2>1. IsFiniteSet(s) /\ IsFiniteSet(A \cup s)
    BY FS_Subset, FS_Union
  <2>2. SumFunctionOnSet(f, s \cup {x}) = f[x] + SumFunctionOnSet(f, s)
    BY <1>2, <2>1, SumAdd
  <2>3. SumFunctionOnSet(f, (A \cup s) \cup {x}) = f[x] + SumFunctionOnSet(f, A \cup s)
    <3>1. x \notin A \cup s /\ \A y \in (A \cup s) \cup {x} : f[y] \in Int
      BY <1>2
    <3> DEFINE T == A \cup s
    <3> HIDE DEF T
    <3> QED
      BY <2>1, <3>1, SumAdd DEF T
  <2>4. (A \cup s) \cup {x} = A \cup (s \cup {x})
    OBVIOUS
  <2>5. SumFunctionOnSet(f, s) \in Int /\ f[x] \in Int
    BY <2>1, SumBasics
  <2>6. SumFunctionOnSet(f, A \cup s) = SumFunctionOnSet(f, A) + SumFunctionOnSet(f, s)
    BY <1>2
  <2>7. SumFunctionOnSet(f, A \cup (s \cup {x}))
          = SumFunctionOnSet(f, A) + SumFunctionOnSet(f, s \cup {x})
    <3> DEFINE a == SumFunctionOnSet(f, A)
               b == SumFunctionOnSet(f, s)
               c == SumFunctionOnSet(f, s \cup {x})
               d == SumFunctionOnSet(f, A \cup (s \cup {x}))
    <3>1. d = f[x] + (a + b) /\ c = f[x] + b
      BY <2>2, <2>3, <2>4, <2>6
    <3>2. a \in Int /\ b \in Int /\ f[x] \in Int
      BY <1>0, <2>5
    <3> HIDE DEF a, b, c, d
    <3>3. d = a + c
      BY <3>1, <3>2
    <3> QED
      BY <3>3 DEF a, c, d
  <2> QED
    BY <2>7
<1>3. \A s \in SUBSET B : s \in Good
  <2> HIDE DEF Good
  <2> QED
    BY <1>1, <1>2, OneByOne
<1> QED
  BY <1>3

\* Terms that are zero may be left out.
LEMMA SumDropZeros ==
  ASSUME NEW D, IsFiniteSet(D), NEW f, \A x \in D : f[x] \in Int,
         NEW E \in SUBSET D, \A x \in D \ E : f[x] = 0
  PROVE  SumFunctionOnSet(f, D) = SumFunctionOnSet(f, E)
<1> DEFINE R == D \ E
<1>1. IsFiniteSet(E) /\ IsFiniteSet(R) /\ E \cap R = {} /\ D = E \cup R
  BY FS_Subset
<1>2. SumFunctionOnSet(f, R) = 0
  <2> HIDE DEF R
  <2> QED
    BY <1>1, SumZero DEF R
<1>3. SumFunctionOnSet(f, E) \in Int
  BY <1>1, SumBasics
<1> HIDE DEF R
<1>4. SumFunctionOnSet(f, E \cup R) = SumFunctionOnSet(f, E) + SumFunctionOnSet(f, R)
  BY <1>1, SumUnion
<1> QED
  BY <1>1, <1>2, <1>3, <1>4

\* One term changed.
LEMMA SumUpdate ==
  ASSUME NEW D, IsFiniteSet(D), NEW f, \A x \in D : f[x] \in Int,
         NEW h, \A x \in D : h[x] \in Int,
         NEW z \in D, \A x \in D : x # z => h[x] = f[x]
  PROVE  SumFunctionOnSet(h, D) = SumFunctionOnSet(f, D) + (h[z] - f[z])
<1> DEFINE R == D \ {z}
<1>1. IsFiniteSet(R) /\ \A x \in R : h[x] = f[x] /\ f[x] \in Int
  BY FS_Subset
<1>2. /\ SumFunctionOnSet(h, D) = h[z] + SumFunctionOnSet(h, R)
      /\ SumFunctionOnSet(f, D) = f[z] + SumFunctionOnSet(f, R)
  BY SumBasics
<1> HIDE DEF R
<1>3. SumFunctionOnSet(h, R) = SumFunctionOnSet(f, R) /\ SumFunctionOnSet(f, R) \in Int
  BY <1>1, SumSame, SumBasics
<1> DEFINE s == SumFunctionOnSet(f, R)
<1>4. SumFunctionOnSet(h, D) = h[z] + s /\ SumFunctionOnSet(f, D) = f[z] + s /\ s \in Int
  BY <1>2, <1>3
<1> HIDE DEF s
<1> QED
  BY <1>4

\* Terms that are equal modulo U have sums that are.
LEMMA SumModulo ==
  ASSUME NEW D, IsFiniteSet(D), NEW U \in Nat \ {0},
         NEW f, \A x \in D : f[x] \in Int,
         NEW h, \A x \in D : h[x] \in Int /\ h[x] % U = f[x] % U
  PROVE  SumFunctionOnSet(h, D) % U = SumFunctionOnSet(f, D) % U
<1> DEFINE Same == {s \in SUBSET D : SumFunctionOnSet(h, s) % U = SumFunctionOnSet(f, s) % U}
<1>1. {} \in Same
  BY SumBasics, FS_EmptySet
<1>2. ASSUME NEW s \in SUBSET D, NEW x \in D, s \in Same, x \notin s
      PROVE  s \cup {x} \in Same
  <2>1. IsFiniteSet(s)
    BY FS_Subset
  <2>2. SumFunctionOnSet(f, s \cup {x}) = f[x] + SumFunctionOnSet(f, s)
    BY <1>2, <2>1, SumAdd
  <2>3. SumFunctionOnSet(h, s \cup {x}) = h[x] + SumFunctionOnSet(h, s)
    BY <1>2, <2>1, SumAdd
  <2>4. SumFunctionOnSet(f, s) \in Int /\ SumFunctionOnSet(h, s) \in Int
    BY <2>1, SumBasics
  <2> DEFINE a == SumFunctionOnSet(f, s)
             b == SumFunctionOnSet(h, s)
             fx == f[x]
             hx == h[x]
  <2>5. /\ a \in Int /\ b \in Int /\ fx \in Int /\ hx \in Int
        /\ hx % U = fx % U /\ b % U = a % U
    BY <1>2, <2>4
  <2>6. (hx + b) % U = (fx + a) % U
    <3> HIDE DEF a, b, fx, hx, Same
    <3>1. (hx + b) % U = ((hx % U) + b) % U /\ (fx + b) % U = ((fx % U) + b) % U
      BY <2>5, ModSum
    <3>2. (b + fx) % U = ((b % U) + fx) % U /\ (a + fx) % U = ((a % U) + fx) % U
      BY <2>5, ModSum
    <3>3. b + fx = fx + b /\ a + fx = fx + a
      BY <2>5
    <3> QED
      BY <2>5, <3>1, <3>2, <3>3
  <2> QED
    BY <2>2, <2>3, <2>6
<1>3. \A s \in SUBSET D : s \in Same
  <2> HIDE DEF Same
  <2> QED
    BY <1>1, <1>2, OneByOne
<1> QED
  BY <1>3

\* The sum of the sums of two functions.
LEMMA SumPlus ==
  ASSUME NEW D, IsFiniteSet(D), NEW f, NEW h, NEW k,
         \A x \in D : f[x] \in Int /\ h[x] \in Int /\ k[x] = f[x] + h[x]
  PROVE  SumFunctionOnSet(k, D) = SumFunctionOnSet(f, D) + SumFunctionOnSet(h, D)
<1> DEFINE Good == {s \in SUBSET D : SumFunctionOnSet(k, s)
                                       = SumFunctionOnSet(f, s) + SumFunctionOnSet(h, s)}
<1>1. {} \in Good
  BY SumBasics, FS_EmptySet
<1>2. ASSUME NEW s \in SUBSET D, NEW x \in D, s \in Good, x \notin s
      PROVE  s \cup {x} \in Good
  <2>1. IsFiniteSet(s)
    BY FS_Subset
  <2>2. /\ SumFunctionOnSet(f, s \cup {x}) = f[x] + SumFunctionOnSet(f, s)
        /\ SumFunctionOnSet(h, s \cup {x}) = h[x] + SumFunctionOnSet(h, s)
    BY <1>2, <2>1, SumAdd
  <2>3. SumFunctionOnSet(k, s \cup {x}) = (f[x] + h[x]) + SumFunctionOnSet(k, s)
    <3>1. k[x] = f[x] + h[x] /\ \A y \in s \cup {x} : k[y] \in Int
      OBVIOUS
    <3>2. SumFunctionOnSet(k, s \cup {x}) = k[x] + SumFunctionOnSet(k, s)
      BY <1>2, <2>1, <3>1, SumAdd
    <3> QED
      BY <3>1, <3>2
  <2>4. /\ SumFunctionOnSet(f, s) \in Int /\ SumFunctionOnSet(h, s) \in Int
        /\ f[x] \in Int /\ h[x] \in Int
    BY <2>1, SumBasics
  <2>5. SumFunctionOnSet(k, s) = SumFunctionOnSet(f, s) + SumFunctionOnSet(h, s)
    BY <1>2
  <2> HIDE DEF Good
  <2>6. SumFunctionOnSet(k, s \cup {x})
          = SumFunctionOnSet(f, s \cup {x}) + SumFunctionOnSet(h, s \cup {x})
    BY <2>2, <2>3, <2>4, <2>5
  <2> QED
    BY <2>6 DEF Good
<1>3. \A s \in SUBSET D : s \in Good
  <2> HIDE DEF Good
  <2> QED
    BY <1>1, <1>2, OneByOne
<1> QED
  BY <1>3

\* A table of numbers and the same table by columns; the sums of the rows of a table.
Transposed(n, m, A, B) == \A x \in A, y \in B : m[x][y] \in Int /\ n[y][x] = m[x][y]

RowSums(row, m, A, B) == \A x \in A : row[x] = SumFunctionOnSet(m[x], B)

\* A table of numbers has the same sum by rows as by columns.
LEMMA SumSwap ==
  ASSUME NEW A, IsFiniteSet(A), NEW B, IsFiniteSet(B),
         NEW m, NEW n, Transposed(n, m, A, B),
         NEW row, RowSums(row, m, A, B), NEW col, RowSums(col, n, B, A)
  PROVE  SumFunctionOnSet(row, A) = SumFunctionOnSet(col, B)
<1> DEFINE line(y) == n[y]
           cols(s) == [y \in B |-> SumFunctionOnSet(line(y), s)]
           Good == {s \in SUBSET A : SumFunctionOnSet(row, s) = SumFunctionOnSet(cols(s), B)}
<1>0. /\ \A x \in A, y \in B : m[x][y] \in Int /\ n[y][x] = m[x][y]
      /\ \A x \in A : row[x] = SumFunctionOnSet(m[x], B)
      /\ \A y \in B : col[y] = SumFunctionOnSet(n[y], A)
  BY DEF Transposed, RowSums
<1>5. \A x \in A : row[x] \in Int
  BY <1>0, SumBasics
<1>1. {} \in Good
  <2>1. SumFunctionOnSet(row, {}) = 0
    BY <1>5, SumBasics, FS_EmptySet
  <2>2. \A y \in B : SumFunctionOnSet(line(y), {}) = 0
    BY SumBasics, FS_EmptySet
  <2>3. SumFunctionOnSet(cols({}), B) = 0
    <3> DEFINE z == cols({})
    <3>1. \A y \in B : z[y] = 0
      BY <2>2
    <3> HIDE DEF z
    <3>2. SumFunctionOnSet(z, B) = 0
      BY <3>1, SumZero
    <3> QED
      BY <3>2 DEF z
  <2> QED
    BY <2>1, <2>3
<1>2. ASSUME NEW s \in SUBSET A, NEW x \in A, s \in Good, x \notin s
      PROVE  s \cup {x} \in Good
  <2>1. IsFiniteSet(s)
    BY FS_Subset
  <2>2. SumFunctionOnSet(row, s \cup {x}) = row[x] + SumFunctionOnSet(row, s)
    <3> HIDE DEF Good
    <3> QED
      BY <1>5, <1>2, <2>1, SumAdd
  <2>3. ASSUME NEW y \in B
        PROVE  /\ SumFunctionOnSet(line(y), s \cup {x})
                    = m[x][y] + SumFunctionOnSet(line(y), s)
               /\ SumFunctionOnSet(line(y), s) \in Int
    <3> DEFINE f == line(y)
    <3>1. f[x] = m[x][y] /\ \A z \in s \cup {x} : f[z] \in Int
      BY <1>0
    <3> HIDE DEF f, Good
    <3>2. /\ SumFunctionOnSet(f, s \cup {x}) = f[x] + SumFunctionOnSet(f, s)
          /\ SumFunctionOnSet(f, s) \in Int
      BY <1>2, <2>1, <3>1, SumAdd, SumBasics
    <3> QED
      BY <3>1, <3>2 DEF f
  <2>4. SumFunctionOnSet(cols(s \cup {x}), B)
          = SumFunctionOnSet(m[x], B) + SumFunctionOnSet(cols(s), B)
    <3> DEFINE new == cols(s \cup {x})
               old == cols(s)
               mx == m[x]
    <3>1. \A y \in B : mx[y] \in Int /\ old[y] \in Int /\ new[y] = mx[y] + old[y]
      BY <1>0, <2>3
    <3> HIDE DEF new, old, mx
    <3>2. SumFunctionOnSet(new, B) = SumFunctionOnSet(mx, B) + SumFunctionOnSet(old, B)
      BY <3>1, SumPlus
    <3> QED
      BY <3>2 DEF new, old, mx
  <2>5. SumFunctionOnSet(row, s) = SumFunctionOnSet(cols(s), B)
    BY <1>2
  <2> QED
    BY <1>0, <2>2, <2>4, <2>5
<1>3. A \in Good
  <2> HIDE DEF Good
  <2> QED
    BY <1>1, <1>2, OneByOne
<1>4. SumFunctionOnSet(cols(A), B) = SumFunctionOnSet(col, B)
  <2> DEFINE c == cols(A)
  <2>1. \A y \in B : c[y] = col[y] /\ c[y] \in Int
    <3> SUFFICES ASSUME NEW y \in B PROVE SumFunctionOnSet(line(y), A) \in Int
      BY <1>0
    <3> DEFINE f == line(y)
    <3>1. \A x \in A : f[x] \in Int
      BY <1>0
    <3> HIDE DEF f
    <3>2. SumFunctionOnSet(f, A) \in Int
      BY <3>1, SumBasics
    <3> QED
      BY <3>2 DEF f
  <2> HIDE DEF c
  <2>2. SumFunctionOnSet(c, B) = SumFunctionOnSet(col, B)
    BY <2>1, SumSame
  <2> QED
    BY <2>2 DEF c
<1> QED
  BY <1>3, <1>4

\* The sum over a set in parts, no two of which have anything in common.
LEMMA SumParts ==
  ASSUME NEW K, IsFiniteSet(K), NEW part, \A k \in K : IsFiniteSet(part[k]),
         \A i, j \in K : part[i] \cap part[j] # {} => i = j,
         NEW f, \A k \in K : \A x \in part[k] : f[x] \in Int,
         NEW sums, \A k \in K : sums[k] = SumFunctionOnSet(f, part[k])
  PROVE  SumFunctionOnSet(sums, K) = SumFunctionOnSet(f, UNION {part[k] : k \in K})
<1> DEFINE All(s) == UNION {part[k] : k \in s}
           Good == {s \in SUBSET K : /\ IsFiniteSet(All(s))
                                     /\ SumFunctionOnSet(sums, s) = SumFunctionOnSet(f, All(s))}
<1>0. \A k \in K : sums[k] \in Int
  BY SumBasics
<1>1. {} \in Good
  <2>1. SumFunctionOnSet(sums, {}) = 0 /\ SumFunctionOnSet(f, {}) = 0
    BY SumBasics, FS_EmptySet
  <2>2. All({}) = {}
    OBVIOUS
  <2> QED
    BY <2>1, <2>2, FS_EmptySet
<1>2. ASSUME NEW s \in SUBSET K, NEW x \in K, s \in Good, x \notin s
      PROVE  s \cup {x} \in Good
  <2>1. IsFiniteSet(s)
    BY FS_Subset
  <2>2. SumFunctionOnSet(sums, s \cup {x}) = sums[x] + SumFunctionOnSet(sums, s)
    <3> HIDE DEF Good
    <3> QED
      BY <1>0, <1>2, <2>1, SumAdd
  <2>3. All(s \cup {x}) = All(s) \cup part[x]
    OBVIOUS
  <2>4. /\ IsFiniteSet(All(s)) /\ IsFiniteSet(part[x]) /\ All(s) \cap part[x] = {}
        /\ \A y \in All(s) \cup part[x] : f[y] \in Int
    <3>1. All(s) \cap part[x] = {}
      BY <1>2
    <3>2. \A y \in All(s) \cup part[x] : f[y] \in Int
      OBVIOUS
    <3> QED
      BY <1>2, <3>1, <3>2
  <2>5. /\ IsFiniteSet(All(s) \cup part[x])
        /\ SumFunctionOnSet(f, All(s) \cup part[x])
             = SumFunctionOnSet(f, All(s)) + SumFunctionOnSet(f, part[x])
        /\ SumFunctionOnSet(f, All(s)) \in Int
    <3> DEFINE T == All(s)
               P == part[x]
    <3>1. /\ IsFiniteSet(T) /\ IsFiniteSet(P) /\ T \cap P = {}
          /\ \A y \in T \cup P : f[y] \in Int
      BY <2>4
    <3> HIDE DEF T, P
    <3>2. IsFiniteSet(T \cup P)
      BY <3>1, FS_Union
    <3>3. SumFunctionOnSet(f, T \cup P) = SumFunctionOnSet(f, T) + SumFunctionOnSet(f, P)
      BY <3>1, SumUnion
    <3>4. SumFunctionOnSet(f, T) \in Int
      BY <3>1, SumBasics
    <3> QED
      BY <3>2, <3>3, <3>4 DEF T, P
  <2>6. SumFunctionOnSet(sums, s) = SumFunctionOnSet(f, All(s))
    BY <1>2
  <2>7. SumFunctionOnSet(sums, s \cup {x}) = SumFunctionOnSet(f, All(s \cup {x}))
    <3> DEFINE a == SumFunctionOnSet(f, All(s))
               b == sums[x]
    <3>1. a \in Int /\ b \in Int /\ b = SumFunctionOnSet(f, part[x])
      BY <1>0, <2>5
    <3>2. SumFunctionOnSet(sums, s \cup {x}) = b + a
      BY <2>2, <2>6
    <3>3. SumFunctionOnSet(f, All(s \cup {x})) = a + b
      <4> HIDE DEF All
      <4> QED
        BY <2>3, <2>5, <3>1
    <3> HIDE DEF a, b, All
    <3> QED
      BY <3>1, <3>2, <3>3
  <2> HIDE DEF All
  <2> QED
    BY <2>3, <2>5, <2>7
<1>3. K \in Good
  <2> HIDE DEF Good
  <2> QED
    BY <1>1, <1>2, OneByOne
<1> QED
  BY <1>3

-----------------------------------------------------------------------------
(* The least and the greatest of some numbers.                             *)

LEMMA LeastNumber ==
  ASSUME NEW S \in SUBSET Nat, S # {}
  PROVE  \E x \in S : \A y \in S : x <= y
<1> DEFINE R == OpToRel(<, Nat)
<1>1. \E x \in S : \A y \in S : ~ (<<y, x>> \in R)
  <2>1. IsWellFoundedOn(R, Nat)
    BY NatLessThanWellFounded
  <2> HIDE DEF R
  <2> QED
    BY <2>1, WFMin
<1>2. \A x, y \in S : <<y, x>> \in R <=> y < x
  BY DEF OpToRel
<1>3. PICK x \in S : \A y \in S : ~ (<<y, x>> \in R)
  BY <1>1
<1> HIDE DEF R
<1>4. ASSUME NEW y \in S PROVE x <= y
  <2>1. x \in Nat /\ y \in Nat /\ ~ (y < x)
    BY <1>2, <1>3
  <2> QED
    BY <2>1
<1> QED
  BY <1>4

LEMMA GreatestNumber ==
  ASSUME NEW n \in Nat, NEW S \in SUBSET (1 .. n), S # {}
  PROVE  \E x \in S : \A y \in S : x >= y
<1> DEFINE T == {n - x : x \in S}
<1>1. T \in SUBSET Nat /\ T # {}
  <2>1. \A x \in S : n - x \in Nat
    OBVIOUS
  <2>2. PICK x \in S : TRUE
    OBVIOUS
  <2>3. n - x \in T
    BY <2>2
  <2> QED
    BY <2>1, <2>3
<1>2. PICK t \in T : \A u \in T : t <= u
  <2> HIDE DEF T
  <2> QED
    BY <1>1, LeastNumber
<1>3. PICK x \in S : t = n - x
  OBVIOUS
<1>4. \A y \in S : n - x <= n - y
  BY <1>2, <1>3
<1> QED
  BY <1>4

-----------------------------------------------------------------------------
(* Sequences.                                                              *)

\* The elements of u are those of s and then those of t.
Joined(u, s, t) ==
  /\ Len(u) = Len(s) + Len(t)
  /\ \A k \in 1 .. Len(s) : u[k] = s[k]
  /\ \A k \in Len(s) + 1 .. Len(s) + Len(t) : u[k] = t[k - Len(s)]

LEMMA Concat ==
  ASSUME NEW S, NEW s, s \in Seq(S), NEW t, t \in Seq(S)
  PROVE  s \o t \in Seq(S) /\ Joined(s \o t, s, t)
<1>1. /\ s \o t \in Seq(S) /\ Len(s \o t) = Len(s) + Len(t)
      /\ \A k \in 1 .. Len(s) : (s \o t)[k] = s[k]
      /\ \A k \in Len(s) + 1 .. Len(s) + Len(t) : (s \o t)[k] = t[k - Len(s)]
  OBVIOUS
<1> QED
  BY <1>1 DEF Joined

=============================================================================
