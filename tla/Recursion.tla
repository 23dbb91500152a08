----------------------------- MODULE Recursion -----------------------------
(***************************************************************************)
(* Induction over the natural numbers and definitions by recursion, which  *)
(* TLAPS can use when the property that is shown is a set.                 *)
(***************************************************************************)
EXTENDS Integers, TLAPS, WellFoundedInduction

\* A set of natural numbers has a least element.
LEMMA LeastNumber ==
  ASSUME NEW S \in SUBSET Nat, S # {}
  PROVE  \E m \in S : \A n \in S : m <= n
<1>1. IsWellFoundedOn(OpToRel(<, Nat), Nat)
  BY NatLessThanWellFounded
<1>2. PICK m \in S : \A n \in S : <<n, m>> \notin OpToRel(<, Nat)
  BY <1>1, WFMin
<1>3. \A n \in S : ~ (n < m)
  BY <1>2 DEF OpToRel
<1> QED
  BY <1>3

\* A bounded set of natural numbers has a greatest element.
LEMMA GreatestNumber ==
  ASSUME NEW S \in SUBSET Nat, S # {}, NEW n \in Nat, \A m \in S : m <= n
  PROVE  \E m \in S : \A k \in S : k <= m
<1> DEFINE D == {d \in Nat : n - d \in S}
<1>1. \A m \in S : n - m \in D /\ n - (n - m) = m
  OBVIOUS
<1>2. D # {} /\ D \in SUBSET Nat
  BY <1>1
<1> HIDE DEF D
<1>3. PICK d \in D : \A k \in D : d <= k
  BY <1>2, LeastNumber
<1>4. n - d \in S /\ d \in Nat
  BY <1>3 DEF D
<1>5. \A k \in S : k <= n - d
  BY <1>1, <1>3, <1>4
<1> QED
  BY <1>4, <1>5

\* Induction over the natural numbers, for a property given as a set.
LEMMA Induction ==
  ASSUME NEW S, 0 \in S, \A n \in Nat : n \in S => n + 1 \in S
  PROVE  Nat \subseteq S
<1> SUFFICES ASSUME Nat \ S # {}
             PROVE  FALSE
  OBVIOUS
<1>1. PICK m \in Nat \ S : \A n \in Nat \ S : m <= n
  BY LeastNumber
<1>2. m - 1 \in Nat /\ m - 1 \in S
  BY <1>1
<1> QED
  BY <1>1, <1>2

\* The values of f on a .. b follow from x by step.
Follows(f, a, b, x, step) == \A k \in a .. b : f[k] = IF k = a THEN x ELSE step[k][f[k - 1]]

\* A function may be defined by recursion on an interval.
LEMMA RecursionExists ==
  ASSUME NEW S, NEW x \in S, NEW step \in [Int -> [S -> S]],
         NEW a \in Int, NEW b \in Int, a <= b
  PROVE  \E f \in [a .. b -> S] : Follows(f, a, b, x, step)
<1> DEFINE Good(c) == \E f \in [a .. c -> S] : Follows(f, a, c, x, step)
           G == {n \in Nat : Good(a + n)}
<1>1. 0 \in G
  <2> DEFINE f == [k \in a .. a |-> x]
  <2>1. f \in [a .. a -> S] /\ Follows(f, a, a, x, step)
    BY DEF Follows
  <2> HIDE DEF f
  <2>2. Good(a)
    BY <2>1
  <2> QED
    BY <2>2
<1>2. ASSUME NEW n \in Nat, n \in G
      PROVE  n + 1 \in G
  <2> DEFINE c == a + n
             d == a + (n + 1)
  <2>1. PICK f \in [a .. c -> S] : Follows(f, a, c, x, step)
    BY <1>2
  <2> DEFINE g == [k \in a .. d |-> IF k = d THEN step[d][f[c]] ELSE f[k]]
  <2>2. /\ d \in Int /\ d - 1 = c /\ c \in a .. c /\ a # d
        /\ \A k \in a .. d : k = d \/ k \in a .. c
    OBVIOUS
  <2>3. f[c] \in S /\ step[d][f[c]] \in S
    BY <2>2
  <2>4. g \in [a .. d -> S] /\ g[d] = step[d][g[d - 1]]
    BY <2>2, <2>3
  <2>5. \A k \in a .. c : g[k] = f[k] /\ (k # a => g[k - 1] = f[k - 1])
    OBVIOUS
  <2> HIDE DEF g
  <2>6. Follows(g, a, d, x, step)
    BY <2>1, <2>2, <2>4, <2>5 DEF Follows
  <2>7. Good(d)
    BY <2>4, <2>6
  <2> HIDE DEF Good
  <2> QED
    BY <2>7
<1>3. Nat \subseteq G
  <2> HIDE DEF G
  <2> QED
    BY <1>1, <1>2, Induction
<1>4. b - a \in Nat /\ a + (b - a) = b
  OBVIOUS
<1>5. Good(a + (b - a))
  <2> HIDE DEF Good
  <2> QED
    BY <1>3, <1>4
<1> QED
  BY <1>4, <1>5

\* On a .. b, f and g agree where they agreed one place before.
Parallel(f, g, a, b) == \A k \in a .. b : (k # a => f[k - 1] = g[k - 1]) => f[k] = g[k]
Agree(f, g, a, b)    == \A k \in a .. b : f[k] = g[k]

\* Two functions with the same recursion on an interval agree on it.
LEMMA RecursionUnique ==
  ASSUME NEW a \in Int, NEW b \in Int, NEW f, NEW g, Parallel(f, g, a, b)
  PROVE  Agree(f, g, a, b)
<1> USE DEF Parallel, Agree
<1> DEFINE G == {n \in Nat : a + n <= b => f[a + n] = g[a + n]}
<1>1. 0 \in G
  OBVIOUS
<1>2. ASSUME NEW n \in Nat, n \in G
      PROVE  n + 1 \in G
  <2> SUFFICES ASSUME a + (n + 1) <= b
               PROVE  f[a + (n + 1)] = g[a + (n + 1)]
    OBVIOUS
  <2>1. a + (n + 1) \in a .. b /\ a + (n + 1) - 1 = a + n
    OBVIOUS
  <2>2. f[a + n] = g[a + n]
    BY <1>2
  <2> QED
    BY <2>1, <2>2
<1>3. Nat \subseteq G
  <2> HIDE DEF G
  <2> QED
    BY <1>1, <1>2, Induction
<1>4. \A k \in a .. b : k - a \in Nat /\ a + (k - a) = k
  OBVIOUS
<1> QED
  BY <1>3, <1>4
=============================================================================
