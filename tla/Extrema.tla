------------------------------ MODULE Extrema ------------------------------
(* Sets of naturals have a least element, bounded ones a greatest: what the *)
(* CHOOSE of a first slot or a last message rests on, and the functions     *)
(* that are computed place by place.                                        *)
EXTENDS Integers, WellFoundedInduction, TLAPS

\* A nonempty set of naturals has a least element.
LEMMA LeastElement ==
    ASSUME NEW T \in SUBSET Nat, T # {}
    PROVE  \E x \in T : \A y \in T : x <= y
<1>1. \E x \in T : \A y \in T : ~ (<<y, x>> \in OpToRel(<, Nat))
  BY NatLessThanWellFounded, WFMin
<1>2. PICK x \in T : \A y \in T : ~ (<<y, x>> \in OpToRel(<, Nat))
  BY <1>1
<1>3. ASSUME NEW y \in T PROVE x <= y
  <2>1. <<y, x>> \in Nat \X Nat
    BY <1>2, <1>3
  <2>2. ~(y < x)
    BY <1>2, <2>1 DEF OpToRel
  <2> QED  BY <2>1, <2>2
<1> QED  BY <1>2, <1>3

\* A nonempty set of numbers up to n has a greatest element.
LEMMA GreatestElement ==
    ASSUME NEW n \in Nat, NEW T \in SUBSET (0 .. n), T # {}
    PROVE  \E x \in T : \A y \in T : y <= x
<1> DEFINE U == {n - y : y \in T}
<1>0. \A y \in T : y \in Nat /\ y <= n
  OBVIOUS
<1>1. U \in SUBSET Nat /\ U # {}
  <2>1. ASSUME NEW y \in T PROVE n - y \in Nat
    BY <1>0
  <2> QED  BY <2>1
<1>2. PICK u \in U : \A v \in U : u <= v
  <2> HIDE DEF U
  <2> QED  BY <1>1, LeastElement
<1>3. PICK x \in T : u = n - x
  OBVIOUS
<1>4. ASSUME NEW y \in T PROVE y <= x
  <2>1. n - y \in U
    OBVIOUS
  <2>2. n - x <= n - y
    BY <1>2, <1>3, <2>1
  <2>3. x \in Nat /\ y \in Nat
    BY <1>0
  <2> QED  BY <2>2, <2>3
<1> QED  BY <1>3, <1>4

\* f begins with a; after that, g makes of a place, and of what is at the place before it, what is
\* there.
Computes(f, lo, n, a, g) == \A i \in lo .. n : f[i] = IF i = lo THEN a ELSE g[i][f[i - 1]]

\* A function that is computed place by place exists.
LEMMA Recursion ==
    ASSUME NEW lo \in Nat, NEW n \in Nat, lo <= n, NEW S, NEW a \in S,
           NEW g \in [lo .. n -> [S -> S]]
    PROVE  \E f \in [lo .. n -> S] : Computes(f, lo, n, a, g)
<1> DEFINE Is(f, m) == f \in [lo .. m -> S]
                       /\ \A i \in lo .. m : f[i] = IF i = lo THEN a ELSE g[i][f[i - 1]]
           Bad == {m \in lo .. n : ~\E f : Is(f, m)}
<1>1. Bad = {}
  <2> SUFFICES ASSUME Bad # {} PROVE FALSE
    OBVIOUS
  <2>1. Bad \in SUBSET Nat
    OBVIOUS
  <2>2. PICK m \in Bad : \A k \in Bad : m <= k
    <3> HIDE DEF Bad
    <3> QED  BY <2>1, LeastElement
  <2>3. m \in lo .. n /\ ~\E f : Is(f, m)
    OBVIOUS
  <2>4. m # lo
    <3>1. Is([i \in lo .. lo |-> a], lo)
      OBVIOUS
    <3> QED  BY <2>3, <3>1
  <2>5. m - 1 \in lo .. n /\ m - 1 \notin Bad
    <3>1. m - 1 \in lo .. n /\ ~(m <= m - 1)
      BY <2>3, <2>4
    <3> HIDE DEF Bad
    <3> QED  BY <2>2, <3>1
  <2>6. PICK f : Is(f, m - 1)
    BY <2>5
  <2> DEFINE h == [i \in lo .. m |-> IF i = m THEN g[m][f[m - 1]] ELSE f[i]]
  <2>7. f[m - 1] \in S /\ g[m][f[m - 1]] \in S
    <3>1. m \in lo .. n /\ m - 1 \in lo .. m - 1
      BY <2>3, <2>4
    <3>2. f[m - 1] \in S
      BY <2>6, <3>1
    <3>3. g[m] \in [S -> S]
      BY <3>1
    <3> QED  BY <3>2, <3>3
  <2>8. \A i \in lo .. m : i # m => i \in lo .. m - 1
    BY <2>3
  <2>9. h \in [lo .. m -> S]
    BY <2>6, <2>7, <2>8
  <2>10. ASSUME NEW i \in lo .. m PROVE h[i] = IF i = lo THEN a ELSE g[i][h[i - 1]]
    <3>1. CASE i = lo
      <4>1. i \in lo .. m - 1 /\ i # m
        BY <2>4, <2>8, <3>1
      <4> QED  BY <2>6, <3>1, <4>1
    <3>2. CASE i # lo
      <4>1. i - 1 \in lo .. m /\ i - 1 # m
        BY <2>3, <3>2
      <4>2. h[i - 1] = f[i - 1]
        BY <4>1
      <4>3. CASE i = m
        BY <3>2, <4>2, <4>3
      <4>4. CASE i # m
        BY <2>6, <2>8, <3>2, <4>2, <4>4
      <4> QED  BY <4>3, <4>4
    <3> QED  BY <3>1, <3>2
  <2> HIDE DEF h
  <2>11. Is(h, m)
    BY <2>9, <2>10
  <2> QED  BY <2>3, <2>11
<1>2. n \in lo .. n
  OBVIOUS
<1> QED  BY <1>1, <1>2 DEF Computes
=============================================================================
