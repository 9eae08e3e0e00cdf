------------------------------ MODULE Recursion ------------------------------
(* Induction over the natural numbers and functions defined by recursion on  *)
(* them, stated with sets and functions in place of predicates and operators *)
(* so that they can be cited.                                                *)
EXTENDS Integers, Sequences, WellFoundedInduction, TLAPS

\* A non-empty set of natural numbers has a least one.
LEMMA LeastNatural ==
  ASSUME NEW T, T \subseteq Nat, T # {}
  PROVE  \E n \in T : \A m \in T : n <= m
<1>1. PICK n \in T : \A m \in T : ~(<<m, n>> \in OpToRel(<, Nat))
  BY NatLessThanWellFounded, WFMin
<1>2. \A m \in T : ~(m < n)
  BY <1>1 DEF OpToRel
<1> QED BY <1>2

\* A set that holds a and with each number below b the next holds all of a..b.
LEMMA Induction ==
  ASSUME NEW T, NEW a \in Int, NEW b \in Int, a \in T,
         \A n \in a..b - 1 : n \in T => n + 1 \in T
  PROVE  a..b \subseteq T
<1> DEFINE out == {n \in Nat : a + n <= b /\ a + n \notin T}
<1> SUFFICES ASSUME out # {} PROVE FALSE
  <2>1. ASSUME NEW n \in a..b, n \notin T PROVE n - a \in out
    BY <2>1
  <2> QED BY <2>1
<1>1. PICK n \in out : \A m \in out : n <= m
  BY LeastNatural
<1>2. n # 0
  BY <1>1
<1>3. n - 1 \notin out /\ n - 1 \in Nat
  BY <1>1, <1>2
<1>4. a + (n - 1) \in T /\ a + (n - 1) \in a..b - 1
  BY <1>1, <1>3
<1> QED BY <1>1, <1>4

\* What a function defined by recursion is, given the values it may have: from
\* first at 0, and at i what step makes of the value before.
Recursive(f, len, first, step) ==
  f = [i \in 0..len |-> IF i = 0 THEN first ELSE step[i][f[i - 1]]]

LEMMA RecursionExists ==
  ASSUME NEW len \in Nat, NEW S, NEW first \in S,
         NEW step \in [1..len -> [S -> S]]
  PROVE  \E f \in [0..len -> S] : Recursive(f, len, first, step)
<1> DEFINE Upto(f, n) == /\ f \in [0..n -> S] /\ f[0] = first
                         /\ \A i \in 1..n : f[i] = step[i][f[i - 1]]
           T == {n \in 0..len : \E f : Upto(f, n)}
<1>1. 0 \in T
  <2> DEFINE g == [i \in 0..0 |-> first]
  <2>1. Upto(g, 0)
    OBVIOUS
  <2> HIDE DEF Upto, g
  <2> QED BY <2>1
<1>2. ASSUME NEW n \in 0..len - 1, n \in T PROVE n + 1 \in T
  <2>1. PICK f : Upto(f, n)
    BY <1>2
  <2> DEFINE g == [i \in 0..n + 1 |-> IF i = n + 1 THEN step[n + 1][f[n]] ELSE f[i]]
  <2>2. f[n] \in S /\ step[n + 1][f[n]] \in S
    <3>1. n \in 0..n /\ n + 1 \in 1..len
      OBVIOUS
    <3> QED BY <2>1, <3>1
  <2>3. g \in [0..n + 1 -> S] /\ g[0] = first
    BY <2>1, <2>2
  <2>4. ASSUME NEW i \in 1..n + 1 PROVE g[i] = step[i][g[i - 1]]
    <3>1. i - 1 \in 0..n + 1 /\ i \in 0..n + 1 /\ i - 1 # n + 1
      OBVIOUS
    <3>2. g[i - 1] = f[i - 1]
      BY <3>1
    <3>3. CASE i = n + 1
      BY <3>1, <3>2, <3>3
    <3>4. CASE i # n + 1
      <4>1. i \in 1..n
        BY <3>4
      <4> QED BY <2>1, <3>1, <3>2, <3>4, <4>1
    <3> QED BY <3>3, <3>4
  <2>5. Upto(g, n + 1)
    BY <2>3, <2>4
  <2> HIDE DEF Upto, g
  <2> QED BY <2>5
<1> HIDE DEF T
<1>3. 0..len \subseteq T
  <2>1. 0 \in Int /\ len \in Int /\ \A n \in 0..len - 1 : n \in T => n + 1 \in T
    BY <1>2
  <2> QED BY <1>1, <2>1, Induction
<1>4. PICK f : Upto(f, len)
  <2>1. len \in T
    BY <1>3
  <2> QED BY <2>1 DEF T
<1>5. Recursive(f, len, first, step)
  BY <1>4 DEF Recursive
<1> QED BY <1>4, <1>5
==============================================================================
