----------------------------- MODULE Recursion ------------------------------
(***************************************************************************)
(* The loops of the code are functions defined by recursion on the index   *)
(* of a sequence.  That such a function exists, and hence does what its    *)
(* definition says, is proved here by induction; the induction is on sets  *)
(* of natural numbers, each non-empty one of which has a least element.    *)
(***************************************************************************)
EXTENDS Integers, WellFoundedInduction, TLAPS

\* A set of natural numbers that is not empty has a least element.
LEMMA LeastElement ==
  ASSUME NEW T, T \subseteq Nat, T # {}
  PROVE  \E x \in T : \A y \in T : x <= y
<1> DEFINE R == OpToRel(<, Nat)
<1>1. IsWellFoundedOn(R, Nat)
  BY NatLessThanWellFounded
<1>2. PICK x \in T : \A y \in T : ~ (<<y, x>> \in R)
  <2> HIDE DEF R
  <2> QED BY <1>1, WFMin
<1>3. ASSUME NEW y \in T PROVE x <= y
  <2>1. ~ (y < x)
    BY <1>2 DEF OpToRel
  <2> QED BY <2>1
<1> QED BY <1>3

\* A set of natural numbers with 0, and with n + 1 for each n, has them all.
LEMMA SetInduction ==
  ASSUME NEW T, T \subseteq Nat, 0 \in T, \A n \in T : n + 1 \in T
  PROVE  T = Nat
<1> SUFFICES ASSUME Nat \ T # {} PROVE FALSE
  OBVIOUS
<1>1. PICK x \in Nat \ T : \A y \in Nat \ T : x <= y
  BY LeastElement
<1>2. x # 0 /\ x - 1 \in Nat /\ ~ (x <= x - 1)
  OBVIOUS
<1>3. x - 1 \in T
  BY <1>1, <1>2
<1> QED BY <1>3

\* What holds before the first round of a loop and is kept by each of its n
\* rounds holds after all of them.
LEMMA LoopInduction ==
  ASSUME NEW n \in Nat, NEW T, 0 \in T, \A i \in 1 .. n : i - 1 \in T => i \in T
  PROVE  0 .. n \subseteq T
<1> DEFINE U == {i \in Nat : i <= n => i \in T}
<1>1. 0 \in U
  OBVIOUS
<1>2. ASSUME NEW i \in U PROVE i + 1 \in U
  <2> SUFFICES ASSUME i + 1 <= n PROVE i + 1 \in T
    OBVIOUS
  <2>1. i \in Nat /\ i \in T /\ i + 1 \in 1 .. n /\ (i + 1) - 1 = i
    OBVIOUS
  <2> QED BY <2>1
<1>3. U = Nat
  <2>1. U \subseteq Nat
    OBVIOUS
  <2> HIDE DEF U
  <2> QED BY <1>1, <1>2, <2>1, SetInduction
<1> QED BY <1>3

\* Round i of a loop of n rounds takes r, in S, to round[<<r, i>>]; a run of the
\* loop starts with `start` and has what each round leaves.
Rounds(round, n, S) == round \in [S \X (1 .. n) -> S]

RunOf(f, start, round, n, S) ==
  /\ f \in [0 .. n -> S]
  /\ \A i \in 0 .. n : f[i] = IF i = 0 THEN start ELSE round[<<f[i - 1], i>>]

\* A loop has a run.
LEMMA LoopRuns ==
  ASSUME NEW n \in Nat, NEW S, NEW start \in S, NEW round, Rounds(round, n, S)
  PROVE  \E f : RunOf(f, start, round, n, S)
<1> USE DEF Rounds
<1> DEFINE Run(f, m) ==
      \A i \in 0 .. m : f[i] = IF i = 0 THEN start ELSE round[<<f[i - 1], i>>]
           T == {m \in 0 .. n : \E f \in [0 .. m -> S] : Run(f, m)}
<1>1. 0 \in T
  <2> DEFINE f == [i \in 0 .. 0 |-> start]
  <2>1. f \in [0 .. 0 -> S]
    OBVIOUS
  <2>2. Run(f, 0)
    OBVIOUS
  <2>3. \E h \in [0 .. 0 -> S] : Run(h, 0)
    <3> HIDE DEF f, Run
    <3> QED BY <2>1, <2>2
  <2> QED BY <2>3
<1>2. ASSUME NEW m \in 1 .. n, m - 1 \in T PROVE m \in T
  <2>1. PICK g \in [0 .. m - 1 -> S] : Run(g, m - 1)
    BY <1>2
  <2> DEFINE f == [i \in 0 .. m |-> IF i = m THEN round[<<g[m - 1], m>>] ELSE g[i]]
  <2>2. g[m - 1] \in S
    OBVIOUS
  <2>3. round[<<g[m - 1], m>>] \in S
    BY <2>2
  <2>4. f \in [0 .. m -> S]
    BY <2>3
  <2>5. Run(f, m)
    <3> SUFFICES ASSUME NEW i \in 0 .. m
                 PROVE  f[i] = IF i = 0 THEN start ELSE round[<<f[i - 1], i>>]
      OBVIOUS
    <3>1. CASE i = 0
      <4>1. f[i] = g[0] /\ 0 \in 0 .. m - 1
        BY <3>1
      <4> QED BY <2>1, <3>1, <4>1
    <3>2. CASE i # 0 /\ i # m
      <4>1. f[i] = g[i] /\ f[i - 1] = g[i - 1] /\ i \in 0 .. m - 1
        BY <3>2
      <4> QED BY <2>1, <3>2, <4>1
    <3>3. CASE i # 0 /\ i = m
      <4>1. f[i] = round[<<g[m - 1], m>>] /\ f[i - 1] = g[m - 1]
        BY <3>3
      <4> QED BY <3>3, <4>1
    <3> QED BY <3>1, <3>2, <3>3
  <2>6. \E h \in [0 .. m -> S] : Run(h, m)
    <3> HIDE DEF f, Run
    <3> QED BY <2>4, <2>5
  <2> QED BY <2>6
<1>3. 0 .. n \subseteq T
  <2> HIDE DEF T
  <2> QED BY <1>1, <1>2, LoopInduction
<1>4. n \in T
  BY <1>3
<1> QED BY <1>4 DEF RunOf
=============================================================================
