----------------------------- MODULE NatLemmas -----------------------------
(* The least-number principle in the form the proofs of this project use:  *)
(* induction on a set of naturals by its least or greatest member.         *)
EXTENDS Integers, WellFoundedInduction, TLAPS

(* A nonempty set of naturals has a least member. *)
LEMMA LeastNat ==
  ASSUME NEW T \in SUBSET Nat, T # {}
  PROVE  \E m \in T : \A y \in T : m <= y
<1>1. PICK x \in T : \A y \in T : ~ (<<y, x>> \in OpToRel(<, Nat))
  <2>1. T \subseteq Nat
    OBVIOUS
  <2> HIDE DEF OpToRel
  <2> DEFINE R == OpToRel(<, Nat)
  <2>2. IsWellFoundedOn(R, Nat)
    BY NatLessThanWellFounded, Zenon
  <2> HIDE DEF R
  <2>3. \E x \in T : \A y \in T : ~ (<<y, x>> \in R)
    BY <2>1, <2>2, WFMin, Zenon
  <2> QED BY <2>3 DEF R
<1>2. \A y \in T : ~(y < x)
  BY <1>1 DEF OpToRel
<1> QED BY <1>2

(* A nonempty bounded set of naturals has a greatest member. *)
LEMMA GreatestNat ==
  ASSUME NEW T \in SUBSET Nat, T # {}, NEW n \in Nat, \A t \in T : t <= n
  PROVE  \E m \in T : \A y \in T : y <= m
<1> DEFINE U == {k \in Nat : \E t \in T : k = n - t}
<1>1. U \in SUBSET Nat
  OBVIOUS
<1>2. \A t \in T : n - t \in U
  OBVIOUS
<1>3. U # {}
  BY <1>2
<1>4. PICK u \in U : \A y \in U : u <= y
  <2> HIDE DEF U
  <2> QED BY <1>1, <1>3, LeastNat
<1>5. PICK m \in T : u = n - m
  OBVIOUS
<1>6. \A y \in T : n - m <= n - y
  BY <1>2, <1>4, <1>5
<1> QED BY <1>5, <1>6

(* The values of a recursive function on 0 .. n, given by its first value  *)
(* and its step F.                                                         *)
IsRun(run, n, A, first, F) ==
  /\ run \in [0 .. n -> A] /\ run[0] = first
  /\ \A i \in 1 .. n : run[i] = F[<<run[i - 1], i>>]

(* The recursive functions of the models exist, with values in any set A   *)
(* that the first value is in and the step stays in.                       *)
LEMMA FiniteRun ==
  ASSUME NEW n \in Nat, NEW A, NEW first \in A, NEW F \in [A \X (1 .. n) -> A]
  PROVE  \E run : IsRun(run, n, A, first, F)
<1> DEFINE Run(r, m) == /\ r \in [0 .. m -> A] /\ r[0] = first
                        /\ \A i \in 1 .. m : r[i] = F[<<r[i - 1], i>>]
           Bad == {m \in 0 .. n : \A r : ~Run(r, m)}
<1>1. Bad = {}
  <2> SUFFICES ASSUME Bad # {} PROVE FALSE
    OBVIOUS
  <2>1. Bad \in SUBSET Nat
    OBVIOUS
  <2>2. PICK m \in Bad : \A y \in Bad : m <= y
    <3> HIDE DEF Bad
    <3> QED  BY <2>1, LeastNat
  <2>3. m \in 0 .. n /\ \A r : ~Run(r, m)
    OBVIOUS
  <2>4. CASE m = 0
    <3>1. Run([i \in 0 .. 0 |-> first], 0)
      OBVIOUS
    <3> QED  BY <2>3, <2>4, <3>1
  <2>5. CASE m # 0
    <3>1. m - 1 \in 0 .. n /\ ~(m <= m - 1)
      BY <2>3, <2>5
    <3>2. PICK r : Run(r, m - 1)
      <4>1. m - 1 \notin Bad
        <5> HIDE DEF Bad
        <5> QED  BY <2>2, <3>1
      <4> HIDE DEF Run
      <4> QED  BY <3>1, <4>1
    <3> DEFINE q == [i \in 0 .. m |-> IF i = m THEN F[<<r[m - 1], m>>] ELSE r[i]]
    <3>3. r[m - 1] \in A /\ m \in 1 .. n
      BY <2>3, <2>5, <3>2
    <3>4. F[<<r[m - 1], m>>] \in A
      BY <3>3
    <3>5. q \in [0 .. m -> A] /\ q[0] = first
      BY <2>3, <2>5, <3>2, <3>4
    <3>6. ASSUME NEW i \in 1 .. m PROVE q[i] = F[<<q[i - 1], i>>]
      <4>1. i - 1 \in 0 .. m /\ i - 1 # m /\ q[i - 1] = r[i - 1]
        BY <2>3
      <4>2. CASE i = m
        BY <4>1, <4>2
      <4>3. CASE i # m
        <5>1. i \in 1 .. m - 1 /\ q[i] = r[i]
          BY <2>3, <4>3
        <5> QED  BY <3>2, <4>1, <5>1
      <4> QED  BY <4>2, <4>3
    <3> QED  BY <2>3, <3>5, <3>6
  <2> QED  BY <2>4, <2>5
<1>2. \E r : Run(r, n)
  <2>1. n \in 0 .. n
    OBVIOUS
  <2> HIDE DEF Run
  <2> QED  BY <1>1, <2>1
<1> QED  BY <1>2 DEF IsRun

(* Counting up from 0 within a set of naturals. *)
LEMMA CountUp ==
  ASSUME NEW n \in Nat, NEW T, 0 \in T, \A i \in 1 .. n : i - 1 \in T => i \in T
  PROVE  \A i \in 0 .. n : i \in T
<1> DEFINE Bad == {i \in 0 .. n : i \notin T}
<1> SUFFICES ASSUME Bad # {} PROVE FALSE
  OBVIOUS
<1>1. Bad \in SUBSET Nat
  OBVIOUS
<1>2. PICK m \in Bad : \A y \in Bad : m <= y
  <2> HIDE DEF Bad
  <2> QED  BY <1>1, LeastNat
<1>3. m \in 1 .. n /\ m - 1 \in 0 .. n /\ ~(m <= m - 1)
  OBVIOUS
<1>4. m - 1 \in T
  <2>1. m - 1 \notin Bad
    <3> HIDE DEF Bad
    <3> QED  BY <1>2, <1>3
  <2> QED  BY <1>3, <2>1
<1> QED  BY <1>3, <1>4

(* A loop stays in a set that every round stays in. *)
LEMMA RunStays ==
  ASSUME NEW n \in Nat, NEW A, NEW f, f[0] \in A, \A i \in 1 .. n : f[i - 1] \in A => f[i] \in A
  PROVE  \A i \in 0 .. n : f[i] \in A
<1> DEFINE T == {i \in 0 .. n : f[i] \in A}
<1>1. 0 \in T /\ \A i \in 1 .. n : i - 1 \in T => i \in T
  OBVIOUS
<1>2. \A i \in 0 .. n : i \in T
  <2> HIDE DEF T
  <2> QED  BY <1>1, CountUp
<1> QED  BY <1>2
=============================================================================
