----------------------------- MODULE Induction ------------------------------
(***************************************************************************)
(* A nonempty set of natural numbers has a least member.  Where a proof    *)
(* needs induction, over a list or over a recursive function, it looks at  *)
(* the least number at which a statement would fail.                       *)
(***************************************************************************)
EXTENDS Naturals, TLAPS, WellFoundedInduction

Less == {p \in Nat \X Nat : p[1] < p[2]}

LEMMA LessWellFounded == IsWellFoundedOn(Less, Nat)
<1>1. Less = OpToRel(<, Nat) BY Zenon DEF Less, OpToRel
<1> QED BY <1>1, NatLessThanWellFounded

LEMMA Least ==
  ASSUME NEW T \in SUBSET Nat, T # {}
  PROVE  \E n \in T : \A k \in T : n <= k
<1>1. PICK n \in T : \A k \in T : ~(<<k, n>> \in Less) BY LessWellFounded, WFMin
<1>2. \A a, b \in Nat : a < b => <<a, b>> \in Less BY DEF Less
<1>3. ASSUME NEW k \in T PROVE n <= k
  <2>1. ~(<<k, n>> \in Less) BY <1>1
  <2>2. n \in Nat /\ k \in Nat OBVIOUS
  <2>3. ~(k < n) BY <1>2, <2>1, <2>2
  <2> QED BY <2>2, <2>3
<1> QED BY <1>3

(* Induction over the numbers up to m, for a set instead of a predicate.   *)
LEMMA Upward ==
  ASSUME NEW m \in Nat, NEW T, 0 \in T, \A n \in 1..m : n - 1 \in T => n \in T
  PROVE  m \in T /\ \A n \in 0..m : n \in T
<1> DEFINE Bad == {n \in 0..m : n \notin T}
<1> SUFFICES ASSUME Bad # {} PROVE FALSE
  <2>1. m \in 0..m OBVIOUS
  <2> QED BY <2>1
<1>0. Bad \in SUBSET Nat OBVIOUS
<1>1. PICK n \in Bad : \A k \in Bad : n <= k
  <2> HIDE DEF Bad
  <2> QED BY <1>0, Least
<1>2. n \in 1..m /\ n - 1 \in 0..m /\ ~(n <= n - 1) BY <1>1
<1>3. n - 1 \in T BY <1>1, <1>2
<1> QED BY <1>1, <1>2, <1>3

(* A recursive function exists: one that is z at 0, and at n what G makes  *)
(* of n and its value at n - 1.                                            *)
Steps(G, m, S) == G \in [(1..m) \X S -> S]
Iterates(f, m, S, z, G) ==
  f \in [0..m -> S] /\ f[0] = z /\ \A n \in 1..m : f[n] = G[<<n, f[n - 1]>>]

LEMMA Recursion ==
  ASSUME NEW m \in Nat, NEW S, NEW z \in S, NEW G, Steps(G, m, S)
  PROVE  \E f : Iterates(f, m, S, z, G)
<1> DEFINE Reaches(f, k) == f[0] = z /\ \A n \in 1..k : f[n] = G[<<n, f[n - 1]>>]
           T == {k \in 0..m : \E f \in [0..k -> S] : Reaches(f, k)}
<1>1. 0 \in T
  <2>1. [n \in 0..0 |-> z] \in [0..0 -> S] /\ Reaches([n \in 0..0 |-> z], 0) OBVIOUS
  <2> HIDE DEF Reaches
  <2> QED BY <2>1
<1>2. ASSUME NEW k \in 1..m, k - 1 \in T PROVE k \in T
  <2>1. PICK g \in [0..(k - 1) -> S] : Reaches(g, k - 1)
    <3> HIDE DEF Reaches
    <3> QED BY <1>2
  <2> DEFINE h == [n \in 0..k |-> IF n = k THEN G[<<k, g[k - 1]>>] ELSE g[n]]
  <2>2. k \in Nat /\ k # 0 /\ k - 1 \in 0..(k - 1) /\ g[k - 1] \in S OBVIOUS
  <2>3. G[<<k, g[k - 1]>>] \in S BY <2>2 DEF Steps
  <2>4. ASSUME NEW n \in 0..k PROVE h[n] \in S
    <3>1. n # k => n \in 0..(k - 1) BY <2>2
    <3> QED BY <2>3, <3>1
  <2>5. h[0] = z BY <2>1, <2>2
  <2>6. ASSUME NEW n \in 1..k PROVE h[n] = G[<<n, h[n - 1]>>]
    <3>1. n - 1 \in 0..(k - 1) /\ n - 1 # k /\ n - 1 \in 0..k BY <2>2
    <3>2. h[n - 1] = g[n - 1] BY <3>1
    <3>3. CASE n = k
      <4>1. h[k] = G[<<k, g[k - 1]>>] BY <2>2
      <4> HIDE DEF h
      <4> QED BY <4>1, <3>2, <3>3
    <3>4. CASE n # k
      <4>1. n \in 1..(k - 1) BY <2>2, <3>4
      <4>2. g[n] = G[<<n, g[n - 1]>>] BY <4>1, <2>1
      <4>3. h[n] = g[n] BY <3>4
      <4> HIDE DEF h
      <4> QED BY <4>2, <4>3, <3>2
    <3> QED BY <3>3, <3>4
  <2>7. h \in [0..k -> S] BY <2>4
  <2>8. Reaches(h, k) BY <2>5, <2>6
  <2> HIDE DEF h, Reaches
  <2> QED BY <2>7, <2>8
<1>3. m \in T
  <2> HIDE DEF T
  <2> QED BY <1>1, <1>2, Upward
<1>4. PICK f \in [0..m -> S] : Reaches(f, m)
  <2> HIDE DEF Reaches
  <2> QED BY <1>3
<1> QED BY <1>4 DEF Iterates

=============================================================================
