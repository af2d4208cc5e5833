-------------------------------- MODULE Loop --------------------------------
(* A loop of the code, and what it is as a recursive function: Start and   *)
(* Step say where it begins and what one run of its body does. It follows  *)
(* from the definition of a function alone that the loop unfolds run by    *)
(* run (AfterZero, AfterNext), which is all that an induction over the     *)
(* data needs.                                                             *)
EXTENDS Integers, WellFoundedInduction, TLAPS

CONSTANTS Start(_), Step(_, _, _)

(* What the loop leaves after n runs of its body.                          *)
After(data, n) ==
  LET after[k \in 0..n] == IF k = 0 THEN Start(data) ELSE Step(data, after[k - 1], k)
  IN  after[n]

(* Induction on the naturals, stated of a set.                             *)
LEMMA SetInduction ==
  ASSUME NEW S, 0 \in S, \A n \in Nat : n \in S => n + 1 \in S
  PROVE  Nat \subseteq S
<1>1. PICK R : R = OpToRel(<, Nat) /\ IsWellFoundedOn(R, Nat)
  BY NatLessThanWellFounded
<1>2. \A x, y \in Nat : x < y => <<x, y>> \in R
  BY <1>1 DEF OpToRel
<1> SUFFICES ASSUME ~(Nat \subseteq S) PROVE FALSE
  OBVIOUS
<1>3. PICK T : T = Nat \ S
  OBVIOUS
<1>4. T \subseteq Nat /\ T # {}
  BY <1>3
<1>5. PICK x \in T : \A y \in T : ~(<<y, x>> \in R)
  BY <1>1, <1>4, WFMin
<1>6. x \in Nat /\ x # 0 /\ x - 1 \in Nat /\ x - 1 < x /\ (x - 1) + 1 = x
  BY <1>3, <1>5
<1>7. x - 1 \in S
  BY <1>2, <1>3, <1>5, <1>6
<1> QED
  BY <1>3, <1>5, <1>6, <1>7

(* g is what the loop leaves, for the first n runs of its body.            *)
Leaves(g, data, n) == g = [k \in 0..n |-> IF k = 0 THEN Start(data) ELSE Step(data, g[k - 1], k)]

(* Such a function exists for every number of runs.                        *)
LEMMA LeavesExists ==
  ASSUME NEW data, NEW n \in Nat
  PROVE  \E g : Leaves(g, data, n)
<1>1. PICK S : S = {m \in Nat : \E g : Leaves(g, data, m)}
  OBVIOUS
<1>2. 0 \in S
  <2>1. PICK g : g = [k \in 0..0 |-> Start(data)]
    OBVIOUS
  <2>2. Leaves(g, data, 0)
    BY <2>1 DEF Leaves
  <2> QED BY <1>1, <2>2
<1>3. ASSUME NEW m \in Nat, m \in S
      PROVE  m + 1 \in S
  <2>1. PICK g : Leaves(g, data, m)
    BY <1>1, <1>3
  <2>2. g[0] = Start(data) /\ \A k \in 1..m : g[k] = Step(data, g[k - 1], k)
    BY <2>1 DEF Leaves
  <2>3. PICK h : h = [k \in 0..(m + 1) |-> IF k = m + 1 THEN Step(data, g[m], m + 1) ELSE g[k]]
    OBVIOUS
  <2>4. ASSUME NEW k \in 0..(m + 1)
        PROVE  h[k] = IF k = 0 THEN Start(data) ELSE Step(data, h[k - 1], k)
    <3>1. CASE k = 0
      BY <2>2, <2>3, <3>1
    <3>2. CASE k = m + 1
      <4>1. h[k] = Step(data, g[m], m + 1) /\ h[k - 1] = g[m] /\ k # 0
        BY <2>3, <3>2
      <4> QED BY <3>2, <4>1
    <3>3. CASE k \in 1..m
      <4>1. h[k] = g[k] /\ h[k - 1] = g[k - 1] /\ k # 0
        BY <2>3, <3>3
      <4>2. g[k] = Step(data, g[k - 1], k)
        BY <2>2, <3>3
      <4> QED BY <4>1, <4>2
    <3> QED BY <3>1, <3>2, <3>3
  <2>5. h = [k \in 0..(m + 1) |-> IF k = 0 THEN Start(data) ELSE Step(data, h[k - 1], k)]
    BY <2>3, <2>4
  <2>6. Leaves(h, data, m + 1)
    BY <2>5 DEF Leaves
  <2> QED BY <1>1, <2>6
<1> QED
  BY <1>1, <1>2, <1>3, SetInduction

LEMMA LeavesFacts ==
  ASSUME NEW data, NEW n \in Nat, NEW g, Leaves(g, data, n)
  PROVE  g[0] = Start(data) /\ \A k \in 1..n : g[k] = Step(data, g[k - 1], k)
BY DEF Leaves

(* Two of them agree as far as both go.                                    *)
LEMMA LeavesOnce ==
  ASSUME NEW data, NEW n \in Nat, NEW m \in 0..n, NEW g, NEW h, Leaves(g, data, n), Leaves(h, data, m)
  PROVE  \A k \in 0..m : g[k] = h[k]
<1>1. PICK S : S = {k \in Nat : k \in 0..m => g[k] = h[k]}
  OBVIOUS
<1>2. 0 \in S
  BY <1>1, LeavesFacts
<1>3. ASSUME NEW k \in Nat, k \in S
      PROVE  k + 1 \in S
  <2> SUFFICES ASSUME k + 1 \in 0..m PROVE g[k + 1] = h[k + 1]
    BY <1>1
  <2>1. g[k + 1] = Step(data, g[(k + 1) - 1], k + 1)
    BY LeavesFacts
  <2>2. h[k + 1] = Step(data, h[(k + 1) - 1], k + 1)
    BY LeavesFacts
  <2>3. (k + 1) - 1 = k /\ g[k] = h[k]
    BY <1>1, <1>3
  <2> QED BY <2>1, <2>2, <2>3
<1> QED
  BY <1>1, <1>2, <1>3, SetInduction

(* What CHOOSE takes is one of them.                                       *)
LEMMA AfterLeaves ==
  ASSUME NEW data, NEW n \in Nat
  PROVE  \E g : Leaves(g, data, n) /\ After(data, n) = g[n]
<1>1. PICK g : Leaves(g, data, n)
  BY LeavesExists
<1>2. PICK f : f = CHOOSE h : h = [k \in 0..n |-> IF k = 0 THEN Start(data) ELSE Step(data, h[k - 1], k)]
  OBVIOUS
<1>3. Leaves(f, data, n)
  BY <1>1, <1>2 DEF Leaves
<1>4. After(data, n) = f[n]
  BY <1>2 DEF After
<1> QED
  BY <1>3, <1>4

(* Before the first run a loop of the code has what it began with.         *)
THEOREM AfterZero == \A data : After(data, 0) = Start(data)
BY AfterLeaves, LeavesFacts

(* Each run of its body takes a loop of the code one step on.              *)
THEOREM AfterNext == \A data : \A n \in Nat : After(data, n + 1) = Step(data, After(data, n), n + 1)
<1> SUFFICES ASSUME NEW data, NEW n \in Nat
             PROVE  After(data, n + 1) = Step(data, After(data, n), n + 1)
  OBVIOUS
<1>1. PICK g : Leaves(g, data, n + 1) /\ After(data, n + 1) = g[n + 1]
  BY AfterLeaves
<1>2. PICK h : Leaves(h, data, n) /\ After(data, n) = h[n]
  BY AfterLeaves
<1>3. g[n] = h[n]
  BY <1>1, <1>2, LeavesOnce
<1>4. g[n + 1] = Step(data, g[n], n + 1)
  <2>1. \A k \in 1..(n + 1) : g[k] = Step(data, g[k - 1], k)
    BY <1>1, LeavesFacts, n + 1 \in Nat
  <2>2. n + 1 \in 1..(n + 1) /\ (n + 1) - 1 = n
    OBVIOUS
  <2> QED BY <2>1, <2>2
<1> QED
  BY <1>1, <1>2, <1>3, <1>4
=============================================================================
