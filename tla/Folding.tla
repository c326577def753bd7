------------------------------ MODULE Folding ------------------------------
(***************************************************************************)
(* What a fold over a sequence does, for every operator: Op is one step,   *)
(* with a parameter p that the whole fold has, and Good what is known of   *)
(* the state after k steps.  The modules that prove something of a loop    *)
(* take an instance of this one.                                           *)
(***************************************************************************)
EXTENDS SequencesExt, NaturalsInduction, WellFoundedInduction, TLAPS

CONSTANTS Op(_, _, _), Good(_, _, _)

Folded(p, b, s) == FoldLeft(LAMBDA st, x : Op(p, st, x), b, s)

\* Induction, of a set of numbers.
LEMMA NatSetInduction ==
    ASSUME NEW T \in SUBSET Nat, 0 \in T, \A n \in T : n + 1 \in T
    PROVE  Nat \subseteq T
<1> DEFINE R == {ss \in Nat \X Nat : ss[1] < ss[2]}
           U == Nat \ T
<1>1. IsWellFoundedOn(R, Nat)
  BY NatLessThanWellFounded DEF OpToRel
<1>2. SUFFICES ASSUME U # {} PROVE FALSE
  OBVIOUS
<1>3. U \subseteq Nat
  OBVIOUS
<1> HIDE DEF R, U
<1>4. PICK m \in U : \A y \in U : ~(<<y, m>> \in R)
  BY <1>1, <1>2, <1>3, WFMin
<1>5. \A y \in U : ~(y < m)
  BY <1>3, <1>4 DEF R
<1>6. m \in Nat /\ m \notin T /\ m # 0
  BY <1>4 DEF U
<1>7. m - 1 \in Nat /\ m - 1 < m /\ m = (m - 1) + 1
  BY <1>6
<1>8. m - 1 \notin U
  BY <1>5, <1>7
<1>9. m - 1 \in T
  BY <1>7, <1>8 DEF U
<1> QED BY <1>6, <1>7, <1>9

\* A function of the numbers up to n that goes on by Op from each to the
\* next exists: the recursive functions of the modules are such.
LEMMA ChainExists ==
    ASSUME NEW p, NEW b, NEW n \in Nat
    PROVE  \E f : f = [k \in 0 .. n |-> IF k = 0 THEN b ELSE Op(p, f[k - 1], k)]
<1> DEFINE Upto(f, m) == f = [k \in 0 .. m |-> IF k = 0 THEN b ELSE Op(p, f[k - 1], k)]
           T == {m \in Nat : \E f : Upto(f, m)}
<1>1. 0 \in T
  <2> DEFINE f == [k \in 0 .. 0 |-> b]
  <2>1. Upto(f, 0)
    OBVIOUS
  <2> QED BY <2>1
<1>2. ASSUME NEW m \in T
      PROVE  m + 1 \in T
  <2>1. PICK f : Upto(f, m)
    BY <1>2
  <2> DEFINE g == [k \in 0 .. m + 1 |-> IF k = m + 1 THEN Op(p, f[m], m + 1) ELSE f[k]]
  <2>2. m \in Nat /\ DOMAIN f = 0 .. m
    BY <2>1
  <2>3. ASSUME NEW k \in 0 .. m + 1
        PROVE  g[k] = IF k = 0 THEN b ELSE Op(p, g[k - 1], k)
    <3>1. CASE k = m + 1
      <4>1. m \in 0 .. m + 1 /\ m # m + 1 /\ k - 1 = m /\ k # 0
        BY <2>2, <3>1
      <4>2. g[m] = f[m]
        BY <4>1
      <4> QED BY <3>1, <4>1, <4>2
    <3>2. CASE k # m + 1
      <4>1. k \in 0 .. m /\ g[k] = f[k]
        BY <2>2, <3>2
      <4>2. f[k] = IF k = 0 THEN b ELSE Op(p, f[k - 1], k)
        BY <2>1, <4>1
      <4>3. k # 0 => k - 1 \in 0 .. m + 1 /\ k - 1 # m + 1
        BY <2>2, <4>1
      <4>4. k # 0 => g[k - 1] = f[k - 1]
        BY <4>3
      <4> HIDE DEF g
      <4> QED BY <4>1, <4>2, <4>4
    <3> QED BY <3>1, <3>2
  <2>4. Upto(g, m + 1)
    <3>1. g = [k \in 0 .. m + 1 |-> g[k]]
      OBVIOUS
    <3> HIDE DEF g
    <3> QED BY <2>3, <3>1
  <2>5. \E u : Upto(u, m + 1)
    BY <2>4
  <2> HIDE DEF Upto, g
  <2> QED BY <2>2, <2>5
<1>3. n \in T
  <2> HIDE DEF T
  <2>1. T \in SUBSET Nat
    BY DEF T
  <2> QED BY <1>1, <1>2, <2>1, NatSetInduction
<1> QED BY <1>3

\* The greatest of a set that has all numbers up to its greatest.
LEMMA MaxOfInterval ==
    ASSUME NEW n \in Nat, NEW t \in SUBSET (1 .. n + 1), n + 1 \in t
    PROVE  Max(t) = n + 1
<1>1. \A y \in t : n + 1 >= y
  OBVIOUS
<1>2. \A x \in t : (\A y \in t : x >= y) => x = n + 1
  OBVIOUS
<1> QED BY <1>1, <1>2 DEF Max

\* The steps of a fold: it starts with b and ends after the last one.
THEOREM FoldIsChain ==
    ASSUME NEW p, NEW b, NEW n \in Nat, NEW s, DOMAIN s = 1 .. n
    PROVE  \E f : /\ f[0] = b
                  /\ \A k \in 1 .. n : f[k] = Op(p, f[k - 1], s[k])
                  /\ Folded(p, b, s) = f[n]
<1> DEFINE Iter(g, m) == g = [t \in SUBSET (1 .. m) |->
                                IF t = {} THEN b ELSE Op(p, g[t \ {Max(t)}], s[Max(t)])]
           T == {m \in Nat : \E g : Iter(g, m)}
<1>1. 0 \in T
  <2> DEFINE g == [t \in SUBSET (1 .. 0) |-> b]
  <2>1. SUBSET (1 .. 0) = {{}}
    OBVIOUS
  <2>2. Iter(g, 0)
    BY <2>1
  <2> HIDE DEF g, Iter
  <2> QED BY <2>2
<1>2. ASSUME NEW m \in T
      PROVE  m + 1 \in T
  <2>1. m \in Nat
    OBVIOUS
  <2>2. PICK g : Iter(g, m)
    BY <1>2
  <2> DEFINE h == [t \in SUBSET (1 .. m + 1) |->
                     IF m + 1 \in t THEN Op(p, g[t \ {m + 1}], s[m + 1]) ELSE g[t]]
  <2>3. ASSUME NEW t \in SUBSET (1 .. m + 1)
        PROVE  h[t] = IF t = {} THEN b ELSE Op(p, h[t \ {Max(t)}], s[Max(t)])
    <3>1. CASE m + 1 \in t
      <4>1. Max(t) = m + 1
        BY <2>1, <3>1, MaxOfInterval
      <4>2. t \ {m + 1} \in SUBSET (1 .. m + 1) /\ m + 1 \notin t \ {m + 1}
        OBVIOUS
      <4>3. h[t \ {m + 1}] = g[t \ {m + 1}]
        BY <4>2
      <4>4. h[t] = Op(p, g[t \ {m + 1}], s[m + 1])
        BY <3>1
      <4> HIDE DEF h
      <4> QED BY <3>1, <4>1, <4>3, <4>4
    <3>2. CASE m + 1 \notin t
      <4>1. t \in SUBSET (1 .. m)
        BY <2>1, <3>2
      <4>2. h[t] = g[t]
        BY <3>2
      <4>3. t \ {Max(t)} \in SUBSET (1 .. m + 1) /\ m + 1 \notin t \ {Max(t)}
        BY <3>2
      <4>4. h[t \ {Max(t)}] = g[t \ {Max(t)}]
        BY <4>3
      <4>5. g[t] = IF t = {} THEN b ELSE Op(p, g[t \ {Max(t)}], s[Max(t)])
        BY <2>2, <4>1
      <4> HIDE DEF h
      <4> QED BY <4>2, <4>4, <4>5
    <3> QED BY <3>1, <3>2
  <2>4. h = [t \in SUBSET (1 .. m + 1) |-> h[t]]
    OBVIOUS
  <2> HIDE DEF h
  <2>5. Iter(h, m + 1)
    BY <2>3, <2>4
  <2> HIDE DEF Iter
  <2> QED BY <2>1, <2>5
<1>3. n \in T
  <2> HIDE DEF T
  <2>1. T \in SUBSET Nat
    BY DEF T
  <2> QED BY <1>1, <1>2, <2>1, NatSetInduction
<1> DEFINE iter == CHOOSE g : Iter(g, n)
           f == [k \in 0 .. n |-> iter[1 .. k]]
<1>4. Iter(iter, n)
  BY <1>3
<1>5. Folded(p, b, s) = iter[1 .. n]
  BY DEF Folded, FoldLeft, MapThenFoldSet
<1> HIDE DEF iter
<1>6. f[0] = b
  <2>1. 1 .. 0 = {}
    OBVIOUS
  <2>2. {} \in SUBSET (1 .. n)
    OBVIOUS
  <2>3. iter[{}] = b
    BY <1>4, <2>2
  <2> QED BY <2>1, <2>3
<1>7. ASSUME NEW k \in 1 .. n
      PROVE  f[k] = Op(p, f[k - 1], s[k])
  <2>1. 1 .. k \in SUBSET (1 .. n) /\ 1 .. k # {} /\ (1 .. k) \ {k} = 1 .. (k - 1)
    OBVIOUS
  <2>2. Max(1 .. k) = k
    <3>1. k - 1 \in Nat /\ (k - 1) + 1 = k /\ k \in 1 .. k
      OBVIOUS
    <3> QED BY <3>1, MaxOfInterval
  <2>3. iter[1 .. k] = Op(p, iter[(1 .. k) \ {Max(1 .. k)}], s[Max(1 .. k)])
    BY <1>4, <2>1
  <2>4. k \in 0 .. n /\ k - 1 \in 0 .. n
    OBVIOUS
  <2> QED BY <2>1, <2>2, <2>3, <2>4
<1>8. Folded(p, b, s) = f[n]
  BY <1>5
<1> HIDE DEF f
<1> QED BY <1>6, <1>7, <1>8

\* What the first state has and no step takes away, the fold has.
THEOREM FoldKeeps ==
    ASSUME NEW p, NEW b, NEW n \in Nat, NEW s, DOMAIN s = 1 .. n, Good(p, 0, b),
           \A k \in 1 .. n : \A st : Good(p, k - 1, st) => Good(p, k, Op(p, st, s[k]))
    PROVE  Good(p, n, Folded(p, b, s))
<1>1. PICK f : /\ f[0] = b
               /\ \A k \in 1 .. n : f[k] = Op(p, f[k - 1], s[k])
               /\ Folded(p, b, s) = f[n]
  BY FoldIsChain
<1> DEFINE T == {k \in Nat : k <= n => Good(p, k, f[k])}
<1>2. 0 \in T
  BY <1>1
<1>3. ASSUME NEW k \in T
      PROVE  k + 1 \in T
  <2>1. k \in Nat /\ k + 1 \in Nat
    OBVIOUS
  <2>2. SUFFICES ASSUME k + 1 <= n PROVE Good(p, k + 1, f[k + 1])
    BY <2>1
  <2>3. Good(p, k, f[k]) /\ k + 1 \in 1 .. n /\ (k + 1) - 1 = k
    BY <2>1, <2>2
  <2>4. f[k + 1] = Op(p, f[k], s[k + 1])
    BY <1>1, <2>3
  <2> QED BY <2>3, <2>4
<1>4. n \in T
  <2> HIDE DEF T
  <2>1. T \in SUBSET Nat
    BY DEF T
  <2> QED BY <1>2, <1>3, <2>1, NatSetInduction
<1> QED BY <1>1, <1>4
=============================================================================
