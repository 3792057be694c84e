----------------------------- MODULE NatLemmas ------------------------------
(***************************************************************************)
(* What the proofs need of the natural numbers: a set of them has a least  *)
(* element, and a function can be applied over and over.                   *)
(***************************************************************************)
EXTENDS Integers, WellFoundedInduction, TLAPS

LEMMA LeastElement ==
  ASSUME NEW T \in SUBSET Nat, T # {}
  PROVE  \E m \in T : \A k \in T : m <= k
<1>1. PICK m \in T : \A k \in T : <<k, m>> \notin OpToRel(<, Nat)
  BY NatLessThanWellFounded, WFMin, Zenon
<1>2. \A k \in T : ~(k < m)
  BY <1>1, Zenon DEF OpToRel
<1> QED BY <1>2

\* Induction, with the statement as the set T of the numbers it holds for.
LEMMA AllNumbers ==
  ASSUME NEW T, 0 \in T, \A k \in Nat : k \in T => k + 1 \in T
  PROVE  Nat \subseteq T
<1> SUFFICES ASSUME Nat \ T # {} PROVE FALSE
  OBVIOUS
<1>1. PICK m \in Nat \ T : \A k \in Nat \ T : m <= k
  BY LeastElement
<1>2. m - 1 \in Nat /\ m - 1 \notin T
  BY <1>1
<1> QED BY <1>1, <1>2

\* f starts with x and goes on with next.
IsRun(f, next, x) ==
  /\ f \in [Nat -> DOMAIN next] /\ f[0] = x
  /\ \A k \in Nat : f[k + 1] = next[f[k]]

\* There is such an f: what a recursive function over the numbers stands for.
LEMMA Iterates ==
  ASSUME NEW S, NEW next \in [S -> S], NEW x \in S
  PROVE  \E f : IsRun(f, next, x)
<1> DEFINE Run(n) == {g \in [0 .. n -> S] :
                        g[0] = x /\ \A k \in 0 .. n - 1 : g[k + 1] = next[g[k]]}
           Starts == {n \in Nat : Run(n) # {}}
<1>1. \A n \in Nat : Run(n) # {}
  <2>1. [i \in 0 .. 0 |-> x] \in Run(0)
    OBVIOUS
  <2>2. ASSUME NEW n \in Nat, Run(n) # {} PROVE Run(n + 1) # {}
    <3>1. PICK g \in Run(n) : TRUE
      BY <2>2
    <3> DEFINE h == [i \in 0 .. n + 1 |-> IF i = n + 1 THEN next[g[n]] ELSE g[i]]
    <3>2. h \in [0 .. n + 1 -> S] /\ h[0] = x
      BY <3>1
    <3>3. ASSUME NEW k \in 0 .. n PROVE h[k + 1] = next[h[k]]
      <4>1. CASE k = n
        BY <4>1
      <4>2. CASE k # n
        <5>1. k \in 0 .. n - 1 /\ k + 1 \in 0 .. n
          BY <4>2
        <5> QED BY <3>1, <5>1
      <4> QED BY <4>1, <4>2
    <3> QED BY <3>2, <3>3
  <2> HIDE DEF Run
  <2>3. 0 \in Starts /\ \A n \in Nat : n \in Starts => n + 1 \in Starts
    BY <2>1, <2>2
  <2>4. Nat \subseteq Starts
    BY <2>3, AllNumbers
  <2> QED BY <2>4
<1>2. ASSUME NEW n \in Nat, NEW g \in Run(n), NEW m \in Nat, NEW h \in Run(m), n <= m
      PROVE  g[n] = h[n]
  <2> DEFINE Agree == {k \in Nat : k <= n => g[k] = h[k]}
  <2>1. 0 \in Agree
    OBVIOUS
  <2>2. ASSUME NEW k \in Nat, k \in Agree PROVE k + 1 \in Agree
    <3> SUFFICES ASSUME k + 1 <= n PROVE g[k + 1] = h[k + 1]
      OBVIOUS
    <3>1. k \in 0 .. n - 1 /\ k \in 0 .. m - 1
      BY <1>2
    <3>2. g[k + 1] = next[g[k]] /\ h[k + 1] = next[h[k]]
      BY <3>1
    <3> QED BY <2>2, <3>1, <3>2
  <2>3. Nat \subseteq Agree
    <3> HIDE DEF Agree
    <3> QED BY <2>1, <2>2, AllNumbers
  <2> QED BY <2>3
<1> DEFINE run(n) == CHOOSE g \in Run(n) : TRUE
           f == [n \in Nat |-> run(n)[n]]
<1>3. \A n \in Nat : run(n) \in Run(n)
  BY <1>1
<1> HIDE DEF run
<1>4. f \in [Nat -> S]
  BY <1>3
<1>5. f[0] = x
  BY <1>3
<1>6. ASSUME NEW k \in Nat PROVE f[k + 1] = next[f[k]]
  <2>1. k + 1 \in Nat /\ k \in 0 .. k + 1 - 1
    OBVIOUS
  <2>2. run(k + 1)[k + 1] = next[run(k + 1)[k]]
    BY <1>3, <2>1
  <2>3. run(k)[k] = run(k + 1)[k]
    <3> HIDE DEF Run
    <3> QED BY <1>2, <1>3, <2>1
  <2> QED BY <2>1, <2>2, <2>3
<1> HIDE DEF f
<1> QED BY <1>4, <1>5, <1>6 DEF IsRun
=============================================================================
