--------------------------- MODULE ProcessProofs ---------------------------
(***************************************************************************)
(* The process table, the run queues and the supervision lists agree after *)
(* every operation, for any number of levels, pids and restarts.  The      *)
(* operations of module Process are sequences of updates of a kernel state *)
(* k; each update either leaves the queues right (Exact), or takes one     *)
(* process off them (Off) so that its control block may change, and puts   *)
(* it back.  Over that, the processor runs what the scheduler chose, and   *)
(* no process is resumed from a frame that is out of date.                 *)
(***************************************************************************)
EXTENDS Preemption, FiniteSetTheorems, NatLemmas, TLAPS

-----------------------------------------------------------------------------
(* Lists *)

(* What an appended element adds to a list. *)
LEMMA AppendContains ==
  ASSUME NEW S, NEW s \in Seq(S), NEW x \in S
  PROVE  /\ Append(s, x) \in Seq(S)
         /\ \A y : Contains(Append(s, x), y) <=> Contains(s, y) \/ y = x
         /\ IsInjective(s) /\ ~Contains(s, x) => IsInjective(Append(s, x))
<1>1. Append(s, x) \in Seq(S) /\ Len(Append(s, x)) = Len(s) + 1
  OBVIOUS
<1>2. \A i \in 1 .. Len(s) : Append(s, x)[i] = s[i]
  OBVIOUS
<1>3. Append(s, x)[Len(s) + 1] = x
  OBVIOUS
<1>4. DOMAIN s = 1 .. Len(s) /\ DOMAIN Append(s, x) = 1 .. Len(s) + 1 /\ Len(s) \in Nat
  OBVIOUS
<1> DEFINE t == Append(s, x)
<1> HIDE DEF t
<1>5. /\ \A i \in 1 .. Len(s) : t[i] = s[i]
      /\ t[Len(s) + 1] = x /\ Len(t) = Len(s) + 1 /\ DOMAIN t = 1 .. Len(s) + 1
  BY <1>1, <1>2, <1>3, <1>4 DEF t
<1>6. ASSUME NEW y PROVE Contains(t, y) <=> Contains(s, y) \/ y = x
  <2>1. ASSUME NEW i \in 1 .. Len(t), t[i] = y PROVE Contains(s, y) \/ y = x
    <3>1. i \in 1 .. Len(s) \/ i = Len(s) + 1
      BY <1>4, <1>5
    <3> QED  BY <1>5, <2>1, <3>1 DEF Contains
  <2>2. ASSUME NEW i \in 1 .. Len(s), s[i] = y PROVE Contains(t, y)
    <3>1. i \in 1 .. Len(t) /\ t[i] = y
      BY <1>4, <1>5, <2>2
    <3> QED  BY <3>1 DEF Contains
  <2>3. Contains(t, x)
    <3>1. Len(s) + 1 \in 1 .. Len(t)
      BY <1>4, <1>5
    <3> QED  BY <1>5, <3>1 DEF Contains
  <2> QED  BY <2>1, <2>2, <2>3 DEF Contains
<1>7. ASSUME IsInjective(s), ~Contains(s, x) PROVE IsInjective(t)
  <2> SUFFICES ASSUME NEW a \in 1 .. Len(s) + 1, NEW b \in 1 .. Len(s) + 1, t[a] = t[b] PROVE a = b
    BY <1>5 DEF IsInjective
  <2>1. \A i \in 1 .. Len(s) : t[i] = s[i] /\ s[i] # x
    BY <1>5, <1>7 DEF Contains
  <2>2. a \in 1 .. Len(s) \/ a = Len(s) + 1
    BY <1>4
  <2>3. b \in 1 .. Len(s) \/ b = Len(s) + 1
    BY <1>4
  <2> QED  BY <1>4, <1>5, <1>7, <2>1, <2>2, <2>3 DEF IsInjective
<1> QED  BY <1>1, <1>6, <1>7 DEF t

(* What the rest of a list holds. *)
LEMMA TailContains ==
  ASSUME NEW S, NEW s \in Seq(S), s # << >>, IsInjective(s)
  PROVE  /\ Tail(s) \in Seq(S) /\ Head(s) \in S /\ Contains(s, Head(s)) /\ IsInjective(Tail(s))
         /\ \A y : Contains(Tail(s), y) <=> Contains(s, y) /\ y # Head(s)
<1>1. /\ Tail(s) \in Seq(S) /\ Len(s) \in Nat /\ Len(s) > 0 /\ Len(Tail(s)) = Len(s) - 1
      /\ Head(s) = s[1] /\ DOMAIN s = 1 .. Len(s) /\ DOMAIN Tail(s) = 1 .. Len(s) - 1
  OBVIOUS
<1>2. \A i \in 1 .. Len(s) - 1 : Tail(s)[i] = s[i + 1]
  OBVIOUS
<1> DEFINE t == Tail(s)
<1> HIDE DEF t
<1>3. /\ Len(t) = Len(s) - 1 /\ DOMAIN t = 1 .. Len(s) - 1
      /\ \A i \in 1 .. Len(s) - 1 : t[i] = s[i + 1] /\ i + 1 \in 1 .. Len(s) /\ i + 1 # 1
  BY <1>1, <1>2 DEF t
<1>4. 1 \in 1 .. Len(s) /\ \A i \in 1 .. Len(s) : i # 1 => i - 1 \in 1 .. Len(s) - 1 /\ (i - 1) + 1 = i
  BY <1>1
<1>5. ASSUME NEW y PROVE Contains(t, y) <=> Contains(s, y) /\ y # s[1]
  <2>1. ASSUME NEW i \in 1 .. Len(t), t[i] = y PROVE Contains(s, y) /\ y # s[1]
    <3>1. i + 1 \in 1 .. Len(s) /\ s[i + 1] = y /\ i + 1 # 1
      BY <1>3, <2>1
    <3> QED  BY <1>1, <1>4, <3>1 DEF Contains, IsInjective
  <2>2. ASSUME NEW i \in 1 .. Len(s), s[i] = y, y # s[1] PROVE Contains(t, y)
    <3>1. i - 1 \in 1 .. Len(t) /\ t[i - 1] = y
      BY <1>3, <1>4, <2>2
    <3> QED  BY <3>1 DEF Contains
  <2> QED  BY <2>1, <2>2 DEF Contains
<1>6. IsInjective(t)
  <2> SUFFICES ASSUME NEW a \in 1 .. Len(s) - 1, NEW b \in 1 .. Len(s) - 1, t[a] = t[b] PROVE a = b
    BY <1>3 DEF IsInjective
  <2>1. s[a + 1] = s[b + 1] /\ a + 1 \in 1 .. Len(s) /\ b + 1 \in 1 .. Len(s)
    BY <1>3
  <2>2. a + 1 = b + 1
    BY <1>1, <2>1 DEF IsInjective
  <2> QED  BY <2>2
<1>7. Contains(s, s[1])
  BY <1>4 DEF Contains
<1>8. s[1] \in S
  BY <1>1, <1>4
<1> QED  BY <1>1, <1>5, <1>6, <1>7, <1>8 DEF t

(* Two lists without a common element, one after the other. *)
LEMMA ConcatContains ==
  ASSUME NEW S, NEW s \in Seq(S), NEW t \in Seq(S)
  PROVE  /\ s \o t \in Seq(S)
         /\ \A y : Contains(s \o t, y) <=> Contains(s, y) \/ Contains(t, y)
         /\ IsInjective(s) /\ IsInjective(t) /\ (\A y \in S : ~(Contains(s, y) /\ Contains(t, y)))
              => IsInjective(s \o t)
<1>1. /\ s \o t \in Seq(S) /\ Len(s \o t) = Len(s) + Len(t) /\ Len(s) \in Nat /\ Len(t) \in Nat
      /\ DOMAIN s = 1 .. Len(s) /\ DOMAIN t = 1 .. Len(t) /\ DOMAIN (s \o t) = 1 .. Len(s) + Len(t)
  OBVIOUS
<1>2. \A i \in 1 .. Len(s) + Len(t) : (s \o t)[i] = IF i <= Len(s) THEN s[i] ELSE t[i - Len(s)]
  BY SMTT(30)
<1> DEFINE u == s \o t
<1> HIDE DEF u
<1>3. PICK m \in Nat, n \in Nat : m = Len(s) /\ n = Len(t)
  BY <1>1
<1>4. /\ Len(u) = m + n /\ DOMAIN u = 1 .. m + n /\ DOMAIN s = 1 .. m /\ DOMAIN t = 1 .. n
      /\ \A i \in 1 .. m : u[i] = s[i] /\ i \in 1 .. m + n
      /\ \A i \in 1 .. n : u[m + i] = t[i] /\ m + i \in 1 .. m + n
  <2>1. \A i \in 1 .. m : i \in 1 .. m + n /\ i <= m
    OBVIOUS
  <2>2. \A i \in 1 .. n : m + i \in 1 .. m + n /\ ~(m + i <= m) /\ (m + i) - m = i
    OBVIOUS
  <2> QED  BY <1>1, <1>2, <1>3, <2>1, <2>2 DEF u
<1>5. \A i \in 1 .. m + n : i \in 1 .. m \/ (i - m \in 1 .. n /\ m + (i - m) = i)
  OBVIOUS
<1>6. ASSUME NEW y PROVE Contains(u, y) <=> Contains(s, y) \/ Contains(t, y)
  <2>1. ASSUME NEW i \in 1 .. m + n, u[i] = y PROVE Contains(s, y) \/ Contains(t, y)
    <3>1. CASE i \in 1 .. m
      BY <1>3, <1>4, <2>1, <3>1 DEF Contains
    <3>2. CASE i - m \in 1 .. n /\ m + (i - m) = i
      <4>1. t[i - m] = y
        BY <1>4, <2>1, <3>2
      <4> QED  BY <1>3, <3>2, <4>1 DEF Contains
    <3> QED  BY <1>5, <3>1, <3>2
  <2>2. ASSUME NEW i \in 1 .. m, s[i] = y PROVE Contains(u, y)
    BY <1>4, <2>2 DEF Contains
  <2>3. ASSUME NEW i \in 1 .. n, t[i] = y PROVE Contains(u, y)
    BY <1>4, <2>3 DEF Contains
  <2> QED  BY <1>3, <1>4, <2>1, <2>2, <2>3 DEF Contains
<1>7. ASSUME IsInjective(s), IsInjective(t), \A y \in S : ~(Contains(s, y) /\ Contains(t, y))
      PROVE  IsInjective(u)
  <2> SUFFICES ASSUME NEW a \in 1 .. m + n, NEW b \in 1 .. m + n, u[a] = u[b] PROVE a = b
    BY <1>4 DEF IsInjective
  <2>1. \A i \in 1 .. m, j \in 1 .. n : u[i] # u[m + j]
    <3> TAKE i \in 1 .. m, j \in 1 .. n
    <3>1. s[i] \in S /\ Contains(s, s[i])
      BY <1>3 DEF Contains
    <3>2. Contains(t, t[j])
      BY <1>3 DEF Contains
    <3> QED  BY <1>4, <1>7, <3>1, <3>2
  <2>2. CASE a \in 1 .. m /\ b \in 1 .. m
    BY <1>4, <1>7, <2>2 DEF IsInjective
  <2>3. CASE a - m \in 1 .. n /\ m + (a - m) = a /\ b - m \in 1 .. n /\ m + (b - m) = b
    <3>1. t[a - m] = t[b - m]
      BY <1>4, <2>3
    <3>2. a - m = b - m
      BY <1>4, <1>7, <2>3, <3>1 DEF IsInjective
    <3> QED  BY <2>3, <3>2
  <2>4. CASE a \in 1 .. m /\ b - m \in 1 .. n /\ m + (b - m) = b
    BY <2>1, <2>4
  <2>5. CASE b \in 1 .. m /\ a - m \in 1 .. n /\ m + (a - m) = a
    BY <2>1, <2>5
  <2> QED  BY <1>5, <2>2, <2>3, <2>4, <2>5
<1> QED  BY <1>1, <1>6, <1>7 DEF u

(* What Vec::retain leaves of a list. *)
LEMMA KeepContains ==
  ASSUME NEW S, NEW s \in Seq(S), NEW T
  PROVE  /\ Keep(s, T) \in Seq(S \cap T)
         /\ \A y : Contains(Keep(s, T), y) <=> Contains(s, y) /\ y \in T
         /\ IsInjective(s) => IsInjective(Keep(s, T))
<1> DEFINE n == Len(s)
           A == Seq(S \cap T)
           Step(r, i) == IF s[i] \in T THEN Append(r, s[i]) ELSE r
           IsKept(f) == f = [i \in 0 .. n |-> IF i = 0 THEN << >>
                               ELSE IF s[i] \in T THEN Append(f[i - 1], s[i]) ELSE f[i - 1]]
           F == [p \in A \X (1 .. n) |-> Step(p[1], p[2])]
<1>1. n \in Nat /\ << >> \in A /\ \A i \in 1 .. n : s[i] \in S
  OBVIOUS
<1>2. \A r \in A, i \in 1 .. n : Step(r, i) \in A
  <2> TAKE r \in A, i \in 1 .. n
  <2> HIDE DEF n
  <2>1. s[i] \in S
    BY <1>1
  <2> QED  BY <2>1
<1>3. F \in [A \X (1 .. n) -> A]
  <2> HIDE DEF Step
  <2> QED  BY <1>2
<1>4. \E f : IsKept(f)
  <2> HIDE DEF F, n, A, IsKept
  <2>1. PICK f : IsRun(f, n, A, << >>, F)
    BY <1>1, <1>3, FiniteRun
  <2>2. ASSUME NEW i \in 1 .. n PROVE f[i] = Step(f[i - 1], i)
    <3>1. f[i - 1] \in A
      BY <1>1, <2>1 DEF IsRun
    <3>2. <<f[i - 1], i>> \in A \X (1 .. n)
      BY <3>1
    <3>3. F[<<f[i - 1], i>>] = Step(f[i - 1], i)
      BY <3>2 DEF F
    <3> QED  BY <2>1, <3>3 DEF IsRun
  <2>3. f = [i \in 0 .. n |-> IF i = 0 THEN << >> ELSE Step(f[i - 1], i)]
    <3> HIDE DEF Step
    <3> QED  BY <1>1, <2>1, <2>2 DEF IsRun
  <2> QED  BY <2>3 DEF IsKept
<1>5. PICK f : IsKept(f) /\ Keep(s, T) = f[n]
  <2>1. Keep(s, T) = (CHOOSE f : IsKept(f))[n]
    BY DEF Keep
  <2> HIDE DEF IsKept
  <2> QED  BY <1>4, <2>1
<1>6. f[0] = << >> /\ \A i \in 1 .. n : f[i] = IF s[i] \in T THEN Append(f[i - 1], s[i]) ELSE f[i - 1]
  <2> HIDE DEF n
  <2>1. 0 \in 0 .. n /\ \A i \in 1 .. n : i \in 0 .. n /\ i # 0
    BY <1>1
  <2> QED  BY <1>5, <2>1
<1> HIDE DEF IsKept
<1> DEFINE Seen(i, y) == \E j \in 1 .. i : s[j] = y
           Right == {i \in 0 .. n : /\ f[i] \in Seq(S \cap T)
                                    /\ \A y : Contains(f[i], y) <=> Seen(i, y) /\ y \in T
                                    /\ IsInjective(s) => IsInjective(f[i])}
<1>7. 0 \in Right
  <2>1. ~Seen(0, CHOOSE y : TRUE) /\ \A y : ~Seen(0, y)
    OBVIOUS
  <2>2. \A y : ~Contains(<< >>, y)
    BY DEF Contains
  <2>3. IsInjective(<< >>)
    BY DEF IsInjective
  <2>4. 0 \in 0 .. n
    BY <1>1
  <2> QED  BY <1>1, <1>6, <2>1, <2>2, <2>3, <2>4
<1>8. ASSUME NEW i \in 1 .. n, i - 1 \in Right PROVE i \in Right
  <2> HIDE DEF n, A
  <2>1. /\ f[i - 1] \in Seq(S \cap T) /\ i \in 0 .. n
        /\ \A y : Contains(f[i - 1], y) <=> Seen(i - 1, y) /\ y \in T
        /\ IsInjective(s) => IsInjective(f[i - 1])
    BY <1>1, <1>8
  <2>2. \A y : Seen(i, y) <=> Seen(i - 1, y) \/ y = s[i]
    <3>1. \A j \in 1 .. i : j \in 1 .. i - 1 \/ j = i
      BY <1>1
    <3>2. i \in 1 .. i /\ \A j \in 1 .. i - 1 : j \in 1 .. i
      BY <1>1
    <3> QED  BY <3>1, <3>2
  <2>3. s[i] \in S
    BY <1>1
  <2>4. CASE s[i] \notin T
    <3>1. f[i] = f[i - 1]
      BY <1>6, <2>4
    <3> HIDE DEF Seen
    <3> QED  BY <2>1, <2>2, <2>4, <3>1
  <2>5. CASE s[i] \in T
    <3>1. f[i] = Append(f[i - 1], s[i]) /\ s[i] \in S \cap T
      BY <1>6, <2>3, <2>5
    <3>2. /\ f[i] \in Seq(S \cap T)
          /\ \A y : Contains(f[i], y) <=> Contains(f[i - 1], y) \/ y = s[i]
          /\ IsInjective(f[i - 1]) /\ ~Contains(f[i - 1], s[i]) => IsInjective(f[i])
      BY <2>1, <3>1, AppendContains
    <3>3. IsInjective(s) => ~Seen(i - 1, s[i])
      <4> SUFFICES ASSUME IsInjective(s), NEW j \in 1 .. i - 1, s[j] = s[i] PROVE FALSE
        OBVIOUS
      <4>1. j \in DOMAIN s /\ i \in DOMAIN s /\ j # i
        BY <1>1 DEF n
      <4> QED  BY <4>1 DEF IsInjective
    <3> HIDE DEF Seen
    <3> QED  BY <2>1, <2>2, <2>5, <3>2, <3>3
  <2> QED  BY <2>4, <2>5
<1>9. n \in Right
  <2> HIDE DEF n, Right
  <2>1. \A i \in 0 .. n : i \in Right
    BY <1>1, <1>7, <1>8, CountUp
  <2> QED  BY <1>1, <2>1
<1>10. \A y : Contains(s, y) <=> Seen(n, y)
  BY DEF Contains
<1> HIDE DEF Seen, n
<1> QED  BY <1>5, <1>9, <1>10

(* A list without repetitions is no longer than the set it is over. *)
LEMMA ListFits ==
  ASSUME NEW s \in Seq(Pids), IsInjective(s)
  PROVE  Len(s) <= MaxPids
<1>1. s \in Injection(1 .. Len(s), Pids)
  BY DEF Injection, IsInjective
<1>2. IsFiniteSet(Pids) /\ Cardinality(Pids) = MaxPids /\ Len(s) \in Nat /\ MaxPids \in Nat
  BY FS_Interval, BoundsAssumption DEF Pids
<1>3. Cardinality(1 .. Len(s)) <= Cardinality(Pids)
  BY <1>1, <1>2, FS_Injection
<1>4. Cardinality(1 .. Len(s)) = Len(s)
  <2>1. \A m \in Nat : Cardinality(1 .. m) = IF 1 > m THEN 0 ELSE m - 1 + 1
    BY FS_Interval
  <2>2. \A m \in Nat : Cardinality(1 .. m) = m
    BY <2>1
  <2> QED  BY <1>2, <2>2
<1> QED  BY <1>2, <1>3, <1>4

-----------------------------------------------------------------------------
(* Kernel states *)

Pcb == [state: States, eff: Levels, base: Levels, cat: Categories, deadline: Nat \cup {None},
        slice: Nat, blocked_on: Pids \cup {None}, idle: Nat, sup: Pids \cup {KERNEL},
        children: Seq(Pids), strategy: {"OneForOne", "OneForAll", "RestForOne"}, order: Nat,
        restarts: Seq(Nat), max_restarts: Nat]

(* The kernel states over a table of the pids in D. *)
KState(D) == [pcbs: [D -> Pcb], queues: [Levels -> Seq(Pids)], current: Pids \cup {0}]

(* Where a process belongs. *)
Waits(k, p, l) == InTable(k, p) /\ Runnable(k.pcbs[p].state) /\ p # k.current /\ k.pcbs[p].eff = l

CurrentRuns(k, X) ==
  k.current # 0 => InTable(k, k.current) /\ k.pcbs[k.current].state = "Running" /\ k.current \notin X

(* Every process is where it belongs; those in X have been put aside. *)
Exact(k, X) ==
  /\ CurrentRuns(k, X)
  /\ \A l \in Levels : /\ IsInjective(k.queues[l])
                       /\ \A p \in Pids : Contains(k.queues[l], p) <=> Waits(k, p, l) /\ p \notin X

(* The same of every process but x. *)
ExactBut(k, x, X) ==
  /\ k.current # x => CurrentRuns(k, X)
  /\ \A l \in Levels : /\ IsInjective(k.queues[l])
                       /\ \A p \in Pids \ {x} : Contains(k.queues[l], p) <=> Waits(k, p, l) /\ p \notin X

(* And x is neither queued nor current. *)
Off(k, x, X) == ExactBut(k, x, X) /\ k.current # x /\ \A l \in Levels : ~Contains(k.queues[l], x)

(* k with control block b for x. *)
Put(k, x, b) == [k EXCEPT !.pcbs[x] = b]

(* What an operation leaves as it was, and what the scheduler never picks. *)
Leaves(m, k, S) == \A p \in S : m.pcbs[p] = k.pcbs[p]
Resting(k, X) == {p \in DOMAIN k.pcbs : ~Runnable(k.pcbs[p].state) \/ p \in X}
Ended(k, p) == k.pcbs[p].state = "Terminated"
SameStates(m, k, D) == \A p \in D : m.pcbs[p].state = k.pcbs[p].state

(* The levels are those of the priorities. *)
LEMMA LevelId ==
  /\ Top \in Nat /\ Top >= 1 /\ 0 \in Levels /\ 1 \in Levels /\ Top \in Levels
  /\ \A l \in Levels : Level(l) = l
  /\ \A l \in Nat : Level(l) \in Levels
BY LevelsAssumption DEF Level, Levels, Top

(* No process has pid 0, which stands for none. *)
LEMMA PidsPositive == \A p \in Pids : p \in Nat /\ p # 0
BY BoundsAssumption DEF Pids

(* A changed control block. *)
LEMMA PutFacts ==
  ASSUME NEW D \in SUBSET Pids, NEW k \in KState(D), NEW x \in D, NEW b \in Pcb
  PROVE  /\ Put(k, x, b) \in KState(D) /\ DOMAIN k.pcbs = D /\ DOMAIN Put(k, x, b).pcbs = D
         /\ Put(k, x, b).pcbs[x] = b
         /\ \A p \in D \ {x} : Put(k, x, b).pcbs[p] = k.pcbs[p]
         /\ Put(k, x, b).queues = k.queues /\ Put(k, x, b).current = k.current
BY DEF Put, KState

(* It disturbs nothing but its own process, ... *)
LEMMA PutExactBut ==
  ASSUME NEW D \in SUBSET Pids, NEW X, NEW k \in KState(D), NEW x \in D, NEW b \in Pcb
  PROVE  /\ Exact(k, X) => ExactBut(Put(k, x, b), x, X)
         /\ Off(k, x, X) => Off(Put(k, x, b), x, X)
BY PutFacts DEF Exact, ExactBut, Off, CurrentRuns, Waits, InTable

(* ... and nothing at all when state and priority stay. *)
LEMMA PutExact ==
  ASSUME NEW D \in SUBSET Pids, NEW X, NEW k \in KState(D), NEW x \in D, NEW b \in Pcb,
         b.state = k.pcbs[x].state, b.eff = k.pcbs[x].eff, Exact(k, X)
  PROVE  Exact(Put(k, x, b), X)
<1>1. \A p, l : Waits(Put(k, x, b), p, l) <=> Waits(k, p, l)
  BY PutFacts DEF Waits, InTable
<1>2. CurrentRuns(Put(k, x, b), X)
  BY PutFacts DEF Exact, CurrentRuns, InTable
<1> QED  BY <1>1, <1>2, PutFacts DEF Exact

(* A process that cannot run is off the queues, and may stay off. *)
LEMMA OffIdle ==
  ASSUME NEW D \in SUBSET Pids, NEW X, NEW k \in KState(D), NEW x \in D, ~Runnable(k.pcbs[x].state)
  PROVE  Exact(k, X) <=> Off(k, x, X)
<1>1. \A l : ~Waits(k, x, l)
  BY DEF Waits
<1>2. x \in Pids /\ x # 0
  BY PidsPositive
<1>3. ASSUME Exact(k, X) PROVE Off(k, x, X)
  BY <1>1, <1>2, <1>3 DEF Exact, ExactBut, Off, CurrentRuns, Runnable
<1>4. ASSUME Off(k, x, X) PROVE Exact(k, X)
  BY <1>1, <1>4 DEF Exact, ExactBut, Off
<1> QED  BY <1>3, <1>4

(* Dequeueing takes a process off. *)
LEMMA DequeueOff ==
  ASSUME NEW D \in SUBSET Pids, NEW X, NEW k \in KState(D), NEW x \in D, ExactBut(k, x, X)
  PROVE  LET d == Dequeue(k, x)
         IN  d \in KState(D) /\ d.pcbs = k.pcbs /\ Off(d, x, X)
<1> DEFINE d == Dequeue(k, x)
<1>1. \A l \in Levels :
        /\ Without(k.queues[l], x) \in Seq(Pids)
        /\ \A y : Contains(Without(k.queues[l], x), y) <=> Contains(k.queues[l], y) /\ y \in Pids \ {x}
        /\ IsInjective(k.queues[l]) => IsInjective(Without(k.queues[l], x))
  <2> TAKE l \in Levels
  <2>1. k.queues[l] \in Seq(Pids)
    BY DEF KState
  <2>2. Pids \cap (Pids \ {x}) \subseteq Pids
    OBVIOUS
  <2>3. \A t \in Seq(Pids \cap (Pids \ {x})) : t \in Seq(Pids)
    BY <2>2
  <2>4. /\ Without(k.queues[l], x) \in Seq(Pids \cap (Pids \ {x}))
        /\ \A y : Contains(Without(k.queues[l], x), y) <=> Contains(k.queues[l], y) /\ y \in Pids \ {x}
        /\ IsInjective(k.queues[l]) => IsInjective(Without(k.queues[l], x))
    BY <2>1, KeepContains DEF Without
  <2> QED  BY <2>3, <2>4
<1>2. /\ d \in KState(D) /\ d.pcbs = k.pcbs /\ d.queues = [l \in Levels |-> Without(k.queues[l], x)]
      /\ d.current = IF k.current = x THEN 0 ELSE k.current
  BY <1>1 DEF Dequeue, KState
<1> HIDE DEF d
<1>3. \A l \in Levels : d.queues[l] = Without(k.queues[l], x)
  BY <1>2
<1>4. x # 0 /\ \A p \in Pids : p # 0
  BY PidsPositive
<1>5. \A p \in Pids \ {x}, l \in Levels : Waits(d, p, l) <=> Waits(k, p, l)
  BY <1>2, <1>4 DEF Waits, InTable
<1>6. CurrentRuns(d, X) /\ d.current # x
  BY <1>2, <1>4 DEF ExactBut, CurrentRuns, InTable
<1>7. ExactBut(d, x, X)
  BY <1>1, <1>3, <1>5, <1>6, SMTT(30) DEF ExactBut
<1> QED  BY <1>1, <1>2, <1>3, <1>6, <1>7 DEF Off, d

(* Enqueueing it at its priority puts it where it belongs. *)
LEMMA EnqueueOn ==
  ASSUME NEW D \in SUBSET Pids, NEW X, NEW k \in KState(D), NEW x \in D, Off(k, x, X), x \notin X,
         Runnable(k.pcbs[x].state)
  PROVE  LET e == Enqueue(k, x, k.pcbs[x].eff)
         IN  e \in KState(D) /\ e.pcbs = k.pcbs /\ e.current = k.current /\ Exact(e, X)
<1> DEFINE m == k.pcbs[x].eff
           e == Enqueue(k, x, m)
<1>1. m \in Levels /\ x \in Pids /\ DOMAIN k.pcbs = D
  BY DEF KState, Pcb
<1>2. Level(m) = m
  BY <1>1, LevelId
<1>3. k.queues[m] \in Seq(Pids) /\ ~Contains(k.queues[m], x) /\ IsInjective(k.queues[m])
  BY <1>1 DEF KState, Off, ExactBut
<1>4. e = [k EXCEPT !.queues[m] = Append(@, x)]
  BY <1>2, <1>3 DEF Enqueue
<1>5. /\ Append(k.queues[m], x) \in Seq(Pids)
      /\ \A y : Contains(Append(k.queues[m], x), y) <=> Contains(k.queues[m], y) \/ y = x
      /\ IsInjective(Append(k.queues[m], x))
  BY <1>1, <1>3, AppendContains
<1> HIDE DEF m
<1>6. /\ e \in KState(D) /\ e.pcbs = k.pcbs /\ e.current = k.current
      /\ e.queues[m] = Append(k.queues[m], x)
      /\ \A l \in Levels \ {m} : e.queues[l] = k.queues[l]
  BY <1>1, <1>4, <1>5 DEF KState
<1> HIDE DEF e
<1>7. \A p, l : Waits(e, p, l) <=> Waits(k, p, l)
  BY <1>6 DEF Waits, InTable
<1>8. \A l \in Levels : Waits(k, x, l) <=> l = m
  BY <1>1 DEF Waits, InTable, Off, m
<1>9. CurrentRuns(e, X)
  BY <1>6 DEF CurrentRuns, InTable, Off, ExactBut
<1>10. ASSUME NEW l \in Levels
       PROVE  /\ IsInjective(e.queues[l])
              /\ \A p \in Pids : Contains(e.queues[l], p) <=> Waits(e, p, l) /\ p \notin X
  <2>1. CASE l = m
    BY <1>5, <1>6, <1>7, <1>8, <2>1 DEF Off, ExactBut
  <2>2. CASE l # m
    BY <1>6, <1>7, <1>8, <2>2 DEF Off, ExactBut
  <2> QED  BY <2>1, <2>2
<1> QED  BY <1>6, <1>9, <1>10 DEF Exact, e, m

-----------------------------------------------------------------------------
(* Updates that keep the tree of processes *)

SameTree(k, j, D) ==
  \A p \in D : k.pcbs[p].sup = j.pcbs[p].sup /\ k.pcbs[p].children = j.pcbs[p].children

(* The states that an operation may lead to from j. *)
Settled(D, j, X) == {k \in KState(D) : Exact(k, X) /\ SameTree(k, j, D)}

(* A control block with the same place in the tree. *)
LEMMA PutTree ==
  ASSUME NEW D \in SUBSET Pids, NEW j, NEW k \in KState(D), NEW x \in D, NEW b \in Pcb,
         b.sup = k.pcbs[x].sup, b.children = k.pcbs[x].children, SameTree(k, j, D)
  PROVE  SameTree(Put(k, x, b), j, D)
BY PutFacts, SMTT(30) DEF SameTree

(* A changed priority, with the move to another queue. *)
LEMMA ReprioritiseSettled ==
  ASSUME NEW D \in SUBSET Pids, NEW j, NEW k \in Settled(D, j, {}), NEW x \in D, NEW prio \in Levels
  PROVE  Reprioritise(k, x, prio) \in Settled(D, j, {})
<1> DEFINE b == [k.pcbs[x] EXCEPT !.eff = prio]
           u == Put(k, x, b)
           m == Dequeue(u, x)
<1>1. k \in KState(D) /\ Exact(k, {}) /\ SameTree(k, j, D) /\ k.pcbs[x] \in Pcb
  BY DEF Settled, KState
<1>2. /\ b \in Pcb /\ b.eff = prio /\ b.state = k.pcbs[x].state
      /\ b.sup = k.pcbs[x].sup /\ b.children = k.pcbs[x].children
  BY <1>1 DEF Pcb
<1>3. [k EXCEPT !.pcbs[x].eff = prio] = u
  BY <1>1 DEF KState, Put
<1>4. Reprioritise(k, x, prio) = IF Runnable(b.state) THEN Enqueue(m, x, prio) ELSE m
  BY <1>2, <1>3 DEF Reprioritise
<1> HIDE DEF b
<1>5. u \in KState(D) /\ ExactBut(u, x, {}) /\ u.pcbs[x] = b /\ SameTree(u, j, D)
  BY <1>1, <1>2, PutFacts, PutExactBut, PutTree
<1> HIDE DEF u
<1>6. m \in KState(D) /\ m.pcbs = u.pcbs /\ Off(m, x, {})
  BY <1>5, DequeueOff
<1> HIDE DEF m
<1>7. CASE Runnable(b.state)
  <2>1. LET e == Enqueue(m, x, m.pcbs[x].eff) IN e \in KState(D) /\ e.pcbs = m.pcbs /\ Exact(e, {})
    BY <1>5, <1>6, <1>7, EnqueueOn
  <2> QED  BY <1>2, <1>4, <1>5, <1>6, <1>7, <2>1 DEF Settled, SameTree
<1>8. CASE ~Runnable(b.state)
  <2>1. Exact(m, {})
    BY <1>5, <1>6, <1>8, OffIdle
  <2> QED  BY <1>4, <1>5, <1>6, <1>8, <2>1 DEF Settled, SameTree
<1> QED  BY <1>7, <1>8

(* A stopped process. *)
LEMMA StopSettled ==
  ASSUME NEW D \in SUBSET Pids, NEW j, NEW k \in Settled(D, j, {}), NEW x \in D
  PROVE  LET d == Stop(k, x)
         IN  d \in Settled(D, j, {}) /\ Ended(d, x) /\ Leaves(d, k, D \ {x})
<1> DEFINE b == [k.pcbs[x] EXCEPT !.state = "Terminated"]
           u == Put(k, x, b)
           m == Dequeue(u, x)
<1>1. k \in KState(D) /\ Exact(k, {}) /\ SameTree(k, j, D) /\ k.pcbs[x] \in Pcb
  BY DEF Settled, KState
<1>2. /\ b \in Pcb /\ b.state = "Terminated"
      /\ b.sup = k.pcbs[x].sup /\ b.children = k.pcbs[x].children
  BY <1>1 DEF Pcb, States
<1>3. [k EXCEPT !.pcbs[x].state = "Terminated"] = u
  BY <1>1 DEF KState, Put
<1>4. Stop(k, x) = m
  BY <1>3 DEF Stop
<1> HIDE DEF b
<1>5. /\ u \in KState(D) /\ ExactBut(u, x, {}) /\ u.pcbs[x] = b /\ SameTree(u, j, D)
      /\ \A p \in D \ {x} : u.pcbs[p] = k.pcbs[p]
  BY <1>1, <1>2, PutFacts, PutExactBut, PutTree
<1> HIDE DEF u
<1>6. m \in KState(D) /\ m.pcbs = u.pcbs /\ Off(m, x, {})
  BY <1>5, DequeueOff
<1> HIDE DEF m
<1>7. Exact(m, {})
  BY <1>2, <1>5, <1>6, OffIdle DEF Runnable
<1> QED  BY <1>2, <1>4, <1>5, <1>6, <1>7 DEF Settled, SameTree, Ended, Leaves

(* A process that restart_process may be called for: one that was stopped, *)
(* or one that it has restarted before.                                    *)
Restartable(k, p) ==
  InTable(k, p) => \/ k.pcbs[p].state = "Terminated"
                   \/ k.pcbs[p].state = "Ready" /\ k.pcbs[p].eff = k.pcbs[p].base /\ p # k.current

(* A restarted process. *)
LEMMA RestartSettled ==
  ASSUME NEW D \in SUBSET Pids, NEW j, NEW k \in Settled(D, j, {}), NEW x \in Pids,
         uptime \in Nat, Restartable(k, x)
  PROVE  /\ Restart(k, x) \in Settled(D, j, {})
         /\ \A p \in Pids : Restartable(k, p) => Restartable(Restart(k, x), p)
<1>1. k \in KState(D) /\ Exact(k, {}) /\ SameTree(k, j, D) /\ DOMAIN k.pcbs = D
  BY DEF Settled, KState
<1>2. CASE x \notin D
  BY <1>1, <1>2 DEF Restart, InTable
<1>3. CASE x \in D
  <2> DEFINE b == [k.pcbs[x] EXCEPT !.state = "Ready", !.eff = k.pcbs[x].base, !.slice = 0,
                                    !.blocked_on = None, !.idle = uptime]
             u == Put(k, x, b)
             e == Enqueue(u, x, b.eff)
  <2>1. k.pcbs[x] \in Pcb
    BY <1>1, <1>3 DEF KState
  <2>2. /\ b \in Pcb /\ b.state = "Ready" /\ b.eff = k.pcbs[x].base /\ b.base = k.pcbs[x].base
        /\ b.sup = k.pcbs[x].sup /\ b.children = k.pcbs[x].children
    BY <2>1 DEF Pcb, States
  <2>3. Restart(k, x) = e
    BY <1>1, <1>3, <2>2 DEF Restart, InTable, Put
  <2> HIDE DEF b
  <2>4. /\ u \in KState(D) /\ u.pcbs[x] = b /\ SameTree(u, j, D) /\ u.current = k.current
        /\ u.queues = k.queues /\ \A p \in D \ {x} : u.pcbs[p] = k.pcbs[p]
    BY <1>1, <1>3, <2>2, PutFacts, PutTree
  <2>5. ASSUME e \in KState(D), e.pcbs = u.pcbs, e.current = k.current, Exact(e, {}), x # k.current
        PROVE  e \in Settled(D, j, {}) /\ \A p \in Pids : Restartable(k, p) => Restartable(e, p)
    <3>1. e \in Settled(D, j, {})
      BY <2>4, <2>5 DEF Settled, SameTree
    <3>2. DOMAIN e.pcbs = D
      BY <2>5 DEF KState
    <3>3. ASSUME NEW p \in Pids, Restartable(k, p) PROVE Restartable(e, p)
      BY <1>1, <2>2, <2>4, <2>5, <3>2, <3>3 DEF Restartable, InTable
    <3> QED  BY <3>1, <3>3
  <2>6. CASE k.pcbs[x].state = "Terminated"
    <3>1. Off(k, x, {})
      BY <1>1, <1>3, <2>6, OffIdle DEF Runnable
    <3>2. Off(u, x, {}) /\ x # k.current
      BY <1>1, <1>3, <2>2, <3>1, PutExactBut DEF Off
    <3> HIDE DEF u
    <3>3. e \in KState(D) /\ e.pcbs = u.pcbs /\ e.current = u.current /\ Exact(e, {})
      BY <1>3, <2>2, <2>4, <3>2, EnqueueOn DEF Runnable
    <3> HIDE DEF e
    <3> QED  BY <2>3, <2>4, <2>5, <3>2, <3>3
  <2>7. CASE k.pcbs[x].state = "Ready" /\ k.pcbs[x].eff = k.pcbs[x].base /\ x # k.current
    <3>1. Exact(u, {})
      BY <1>1, <1>3, <2>2, <2>7, PutExact
    <3> HIDE DEF u
    <3>2. b.eff \in Levels /\ Level(b.eff) = b.eff
      BY <2>2, LevelId DEF Pcb
    <3>3. Waits(u, x, b.eff)
      <4>1. DOMAIN u.pcbs = D
        BY <2>4 DEF KState
      <4> QED  BY <1>3, <2>2, <2>4, <2>7, <4>1 DEF Waits, InTable, Runnable
    <3>4. Contains(u.queues[b.eff], x)
      BY <3>1, <3>2, <3>3 DEF Exact
    <3>5. e = u
      BY <3>2, <3>4 DEF Enqueue
    <3> HIDE DEF e
    <3> QED  BY <2>3, <2>4, <2>5, <2>7, <3>1, <3>5
  <2> QED  BY <1>1, <1>3, <2>6, <2>7 DEF Restartable, InTable
<1> QED  BY <1>2, <1>3

-----------------------------------------------------------------------------
(* Loops *)

(* Priority inheritance along a chain of waiting processes. *)
LEMMA InheritSettled ==
  ASSUME NEW D \in SUBSET Pids, NEW j, NEW k \in Settled(D, j, {}), NEW target \in Pids \cup {None},
         NEW prio \in Levels
  PROVE  Inherit(k, target, prio) \in Settled(D, j, {})
<1> DEFINE n == MaxDepth
           A == [k: Settled(D, j, {}), target: Pids \cup {None}]
           first == [k |-> k, target |-> target]
           F == [p \in A \X (1 .. n) |-> Boost(p[1], prio)]
           IsChain(f) == f = [i \in 0 .. n |-> IF i = 0 THEN first ELSE Boost(f[i - 1], prio)]
<1>1. n \in Nat /\ first \in A
  BY BoundsAssumption
<1>2. ASSUME NEW acc \in A PROVE Boost(acc, prio) \in A
  <2>1. acc.k \in Settled(D, j, {}) /\ acc.target \in Pids \cup {None}
    OBVIOUS
  <2>2. [acc EXCEPT !.target = None] \in A
    OBVIOUS
  <2>3. DOMAIN acc.k.pcbs = D
    BY <2>1 DEF Settled, KState
  <2>4. ASSUME acc.target \in D
        PROVE  [k |-> Reprioritise(acc.k, acc.target, prio), target |-> acc.k.pcbs[acc.target].blocked_on] \in A
    <3>1. Reprioritise(acc.k, acc.target, prio) \in Settled(D, j, {})
      BY <2>1, <2>4, ReprioritiseSettled
    <3>2. acc.k.pcbs[acc.target].blocked_on \in Pids \cup {None}
      BY <2>1, <2>4 DEF Settled, KState, Pcb
    <3> QED  BY <3>1, <3>2
  <2> HIDE DEF A
  <2> QED  BY <2>2, <2>3, <2>4 DEF Boost, InTable
<1> HIDE DEF n, A, first
<1>3. F \in [A \X (1 .. n) -> A]
  BY <1>2
<1>4. \E f : IsChain(f)
  <2> HIDE DEF F, IsChain
  <2>1. PICK f : IsRun(f, n, A, first, F)
    BY <1>1, <1>3, FiniteRun
  <2>2. ASSUME NEW i \in 1 .. n PROVE f[i] = Boost(f[i - 1], prio)
    <3>1. f[i - 1] \in A
      BY <1>1, <2>1 DEF IsRun
    <3>2. <<f[i - 1], i>> \in A \X (1 .. n)
      BY <3>1
    <3>3. F[<<f[i - 1], i>>] = Boost(f[i - 1], prio)
      BY <3>2 DEF F
    <3> QED  BY <2>1, <3>3 DEF IsRun
  <2>3. f = [i \in 0 .. n |-> IF i = 0 THEN first ELSE Boost(f[i - 1], prio)]
    BY <1>1, <2>1, <2>2 DEF IsRun
  <2> QED  BY <2>3 DEF IsChain
<1>5. PICK f : IsChain(f) /\ Inherit(k, target, prio) = f[n].k
  <2>1. Inherit(k, target, prio) = (CHOOSE f : IsChain(f))[n].k
    BY DEF Inherit, n, first
  <2> HIDE DEF IsChain
  <2> QED  BY <1>4, <2>1
<1>6. f[0] = first /\ \A i \in 1 .. n : f[i] = Boost(f[i - 1], prio)
  <2>1. 0 \in 0 .. n /\ \A i \in 1 .. n : i \in 0 .. n /\ i # 0
    BY <1>1
  <2> QED  BY <1>5, <2>1
<1>7. \A i \in 0 .. n : f[i] \in A
  <2>1. \A i \in 1 .. n : f[i - 1] \in A => f[i] \in A
    BY <1>2, <1>6
  <2> QED  BY <1>1, <1>6, <2>1, RunStays
<1>8. f[n] \in A
  BY <1>1, <1>7
<1> QED  BY <1>5, <1>8 DEF A

(* The loop that terminates a group. *)
LEMMA KillAllSettled ==
  ASSUME NEW D \in SUBSET Pids, NEW j, NEW k \in Settled(D, j, {}), NEW group \in Seq(Pids)
  PROVE  /\ KillAll(k, group) \in Settled(D, j, {})
         /\ \A i \in 1 .. Len(group) : Restartable(KillAll(k, group), group[i])
<1> DEFINE n == Len(group)
           A == Settled(D, j, {})
           F == [p \in A \X (1 .. n) |-> Kill(p[1], group[p[2]])]
           IsLoop(f) == f = [i \in 0 .. n |-> IF i = 0 THEN k ELSE Kill(f[i - 1], group[i])]
           Dead(m, p) == p \in D => m.pcbs[p].state = "Terminated"
<1>1. n \in Nat /\ k \in A /\ \A i \in 1 .. n : group[i] \in Pids
  OBVIOUS
<1>2. ASSUME NEW m \in A, NEW x \in Pids
      PROVE  Kill(m, x) \in A /\ Dead(Kill(m, x), x) /\ \A p : Dead(m, p) => Dead(Kill(m, x), p)
  <2>1. DOMAIN m.pcbs = D
    BY DEF Settled, KState
  <2>2. CASE x \notin D \/ m.pcbs[x].state = "Terminated"
    BY <2>1, <2>2 DEF Kill, InTable
  <2>3. CASE x \in D /\ m.pcbs[x].state # "Terminated"
    <3>1. Kill(m, x) = Stop(m, x)
      BY <2>1, <2>3 DEF Kill, InTable
    <3>2. Stop(m, x) \in Settled(D, j, {}) /\ Ended(Stop(m, x), x) /\ Leaves(Stop(m, x), m, D \ {x})
      BY <2>3, StopSettled
    <3> QED  BY <3>1, <3>2 DEF Ended, Leaves
  <2> QED  BY <2>2, <2>3
<1> HIDE DEF n, A
<1>3. F \in [A \X (1 .. n) -> A]
  <2> HIDE DEF Dead
  <2> QED  BY <1>1, <1>2
<1>4. \E f : IsLoop(f)
  <2> HIDE DEF F, IsLoop
  <2>1. PICK f : IsRun(f, n, A, k, F)
    BY <1>1, <1>3, FiniteRun
  <2>2. ASSUME NEW i \in 1 .. n PROVE f[i] = Kill(f[i - 1], group[i])
    <3>1. f[i - 1] \in A
      BY <1>1, <2>1 DEF IsRun
    <3>2. <<f[i - 1], i>> \in A \X (1 .. n)
      BY <3>1
    <3>3. F[<<f[i - 1], i>>] = Kill(f[i - 1], group[i])
      BY <3>2 DEF F
    <3> QED  BY <2>1, <3>3 DEF IsRun
  <2>3. f = [i \in 0 .. n |-> IF i = 0 THEN k ELSE Kill(f[i - 1], group[i])]
    BY <1>1, <2>1, <2>2 DEF IsRun
  <2> QED  BY <2>3 DEF IsLoop
<1>5. PICK f : IsLoop(f) /\ KillAll(k, group) = f[n]
  <2>1. KillAll(k, group) = (CHOOSE f : IsLoop(f))[n]
    BY DEF KillAll, n
  <2> HIDE DEF IsLoop
  <2> QED  BY <1>4, <2>1
<1>6. f[0] = k /\ \A i \in 1 .. n : f[i] = Kill(f[i - 1], group[i])
  <2>1. 0 \in 0 .. n /\ \A i \in 1 .. n : i \in 0 .. n /\ i # 0
    BY <1>1
  <2> QED  BY <1>5, <2>1
<1> DEFINE T == {i \in 0 .. n : f[i] \in A /\ \A h \in 1 .. i : Dead(f[i], group[h])}
<1> HIDE DEF IsLoop, Dead
<1>7. 0 \in T
  BY <1>1, <1>6
<1>8. ASSUME NEW i \in 1 .. n, i - 1 \in T PROVE i \in T
  <2>1. f[i - 1] \in A /\ \A h \in 1 .. i - 1 : Dead(f[i - 1], group[h])
    BY <1>8
  <2>2. group[i] \in Pids /\ f[i] = Kill(f[i - 1], group[i])
    BY <1>1, <1>6
  <2>3. f[i] \in A /\ Dead(f[i], group[i]) /\ \A p : Dead(f[i - 1], p) => Dead(f[i], p)
    BY <1>2, <2>1, <2>2
  <2>4. \A h \in 1 .. i : h \in 1 .. i - 1 \/ h = i
    BY <1>1
  <2>5. \A h \in 1 .. i : Dead(f[i], group[h])
    BY <2>1, <2>3, <2>4
  <2> QED  BY <1>1, <2>3, <2>5
<1>9. n \in T
  <2> HIDE DEF T
  <2>1. \A i \in 0 .. n : i \in T
    BY <1>1, <1>7, <1>8, CountUp
  <2> QED  BY <1>1, <2>1
<1>10. f[n] \in A /\ \A h \in 1 .. n : Dead(f[n], group[h])
  BY <1>9
<1>11. DOMAIN f[n].pcbs = D
  BY <1>10 DEF A, Settled, KState
<1> QED  BY <1>5, <1>10, <1>11 DEF Restartable, InTable, Dead, A, n

(* The loop that restarts it. *)
LEMMA RestartAllSettled ==
  ASSUME NEW D \in SUBSET Pids, NEW j, NEW k \in Settled(D, j, {}), NEW group \in Seq(Pids),
         uptime \in Nat, \A i \in 1 .. Len(group) : Restartable(k, group[i])
  PROVE  RestartAll(k, group) \in Settled(D, j, {})
<1> DEFINE n == Len(group)
           A == {m \in Settled(D, j, {}) : \A i \in 1 .. n : Restartable(m, group[i])}
           F == [p \in A \X (1 .. n) |-> Restart(p[1], group[p[2]])]
           IsLoop(f) == f = [i \in 0 .. n |-> IF i = 0 THEN k ELSE Restart(f[i - 1], group[i])]
<1>1. n \in Nat /\ k \in A /\ \A i \in 1 .. n : group[i] \in Pids
  OBVIOUS
<1>2. ASSUME NEW m \in A, NEW i \in 1 .. n PROVE Restart(m, group[i]) \in A
  <2>1. m \in Settled(D, j, {}) /\ group[i] \in Pids /\ Restartable(m, group[i])
    BY <1>1
  <2>2. /\ Restart(m, group[i]) \in Settled(D, j, {})
        /\ \A p \in Pids : Restartable(m, p) => Restartable(Restart(m, group[i]), p)
    BY <2>1, RestartSettled
  <2> HIDE DEF n
  <2> QED  BY <1>1, <2>2
<1> HIDE DEF n, A
<1>3. F \in [A \X (1 .. n) -> A]
  BY <1>2
<1>4. \E f : IsLoop(f)
  <2> HIDE DEF F, IsLoop
  <2>1. PICK f : IsRun(f, n, A, k, F)
    BY <1>1, <1>3, FiniteRun
  <2>2. ASSUME NEW i \in 1 .. n PROVE f[i] = Restart(f[i - 1], group[i])
    <3>1. f[i - 1] \in A
      BY <1>1, <2>1 DEF IsRun
    <3>2. <<f[i - 1], i>> \in A \X (1 .. n)
      BY <3>1
    <3>3. F[<<f[i - 1], i>>] = Restart(f[i - 1], group[i])
      BY <3>2 DEF F
    <3> QED  BY <2>1, <3>3 DEF IsRun
  <2>3. f = [i \in 0 .. n |-> IF i = 0 THEN k ELSE Restart(f[i - 1], group[i])]
    BY <1>1, <2>1, <2>2 DEF IsRun
  <2> QED  BY <2>3 DEF IsLoop
<1>5. PICK f : IsLoop(f) /\ RestartAll(k, group) = f[n]
  <2>1. RestartAll(k, group) = (CHOOSE f : IsLoop(f))[n]
    BY DEF RestartAll, n
  <2> HIDE DEF IsLoop
  <2> QED  BY <1>4, <2>1
<1>6. f[0] = k /\ \A i \in 1 .. n : f[i] = Restart(f[i - 1], group[i])
  <2>1. 0 \in 0 .. n /\ \A i \in 1 .. n : i \in 0 .. n /\ i # 0
    BY <1>1
  <2> QED  BY <1>5, <2>1
<1>7. \A i \in 1 .. n : f[i - 1] \in A => f[i] \in A
  BY <1>2, <1>6
<1>8. f[n] \in A
  <2>1. \A i \in 0 .. n : f[i] \in A
    BY <1>1, <1>6, <1>7, RunStays
  <2> QED  BY <1>1, <2>1
<1> QED  BY <1>5, <1>8 DEF A

(* The crash of a child at one supervisor: a counted restart and a stopped *)
(* supervisor, or a restarted group.                                       *)
LEMMA RecordRestartSettled ==
  ASSUME NEW D \in SUBSET Pids, NEW j, NEW k \in Settled(D, j, {}), NEW x \in D
  PROVE  RecordRestart(k, x) \in Settled(D, j, {})
<1> DEFINE all == Append(k.pcbs[x].restarts, 0)
           r == IF Len(all) > k.pcbs[x].max_restarts + 1 THEN Tail(all) ELSE all
           b == [k.pcbs[x] EXCEPT !.restarts = r]
<1>1. k \in KState(D) /\ Exact(k, {}) /\ SameTree(k, j, D) /\ k.pcbs[x] \in Pcb
  BY DEF Settled, KState
<1>2. r \in Seq(Nat)
  <2>1. PICK old \in Seq(Nat) : old = k.pcbs[x].restarts
    BY <1>1 DEF Pcb
  <2>2. Append(old, 0) \in Seq(Nat) /\ Append(old, 0) # << >>
    OBVIOUS
  <2>3. Tail(Append(old, 0)) \in Seq(Nat)
    BY <2>2
  <2> QED  BY <2>1, <2>2, <2>3
<1>3. RecordRestart(k, x) = Put(k, x, b)
  BY <1>1 DEF RecordRestart, KState, Put
<1> HIDE DEF r
<1>4. /\ b \in Pcb /\ b.state = k.pcbs[x].state /\ b.eff = k.pcbs[x].eff
      /\ b.sup = k.pcbs[x].sup /\ b.children = k.pcbs[x].children
  BY <1>1, <1>2 DEF Pcb
<1> HIDE DEF b
<1>5. Put(k, x, b) \in KState(D) /\ Exact(Put(k, x, b), {}) /\ SameTree(Put(k, x, b), j, D)
  BY <1>1, <1>4, PutFacts, PutExact, PutTree
<1> QED  BY <1>3, <1>5 DEF Settled

(* The escalation of a crash. *)
LEMMA HandleChildCrashSettled ==
  ASSUME NEW D \in SUBSET Pids, NEW j, NEW k \in Settled(D, j, {}), NEW crashed \in D, uptime \in Nat
  PROVE  HandleChildCrash(k, crashed) \in Settled(D, j, {})
<1> DEFINE n == MaxPids
           A == [k: Settled(D, j, {}), crashed: D, handled: BOOLEAN]
           first == [k |-> k, crashed |-> crashed, handled |-> FALSE]
           F == [p \in A \X (1 .. n) |-> HandleCrash(p[1])]
           IsLoop(f) == f = [i \in 0 .. n |-> IF i = 0 THEN first ELSE HandleCrash(f[i - 1])]
<1>1. n \in Nat /\ first \in A
  BY BoundsAssumption
<1>2. ASSUME NEW acc \in A PROVE HandleCrash(acc) \in A
  <2> DEFINE sup == acc.k.pcbs[acc.crashed].sup
             r == RecordRestart(acc.k, sup)
             group == Group(r, sup, acc.crashed)
  <2>1. acc.k \in Settled(D, j, {}) /\ acc.crashed \in D
    OBVIOUS
  <2>2. DOMAIN acc.k.pcbs = D
    BY <2>1 DEF Settled, KState
  <2>3. CASE acc.handled \/ sup \notin D
    BY <2>2, <2>3 DEF HandleCrash, InTable
  <2>4. CASE ~acc.handled /\ sup \in D
    <3> HIDE DEF A, sup
    <3>1. r \in Settled(D, j, {})
      BY <2>1, <2>4, RecordRestartSettled
    <3> HIDE DEF r
    <3>2. Stop(r, sup) \in Settled(D, j, {})
      BY <2>4, <3>1, StopSettled
    <3>3. group \in Seq(Pids)
      <4>1. PICK s \in Seq(Pids) : s = r.pcbs[sup].children
        BY <2>4, <3>1 DEF Settled, KState, Pcb
      <4>2. r.pcbs[sup].strategy \in {"OneForOne", "OneForAll", "RestForOne"}
        BY <2>4, <3>1 DEF Settled, KState, Pcb
      <4>3. \A T : Keep(s, T) \in Seq(Pids)
        <5> TAKE T
        <5>1. Keep(s, T) \in Seq(Pids \cap T)
          BY KeepContains
        <5>2. Seq(Pids \cap T) \subseteq Seq(Pids)
          OBVIOUS
        <5> QED  BY <5>1, <5>2
      <4>4. <<acc.crashed>> \in Seq(Pids)
        BY <2>1
      <4> QED  BY <4>1, <4>2, <4>3, <4>4 DEF Group
    <3> HIDE DEF group
    <3>4. RestartGroup(r, group) \in Settled(D, j, {})
      <4>1. /\ KillAll(r, group) \in Settled(D, j, {})
            /\ \A i \in 1 .. Len(group) : Restartable(KillAll(r, group), group[i])
        BY <3>1, <3>3, KillAllSettled
      <4> QED  BY <3>3, <4>1, RestartAllSettled DEF RestartGroup
    <3>5. HandleCrash(acc) =
            IF Exceeded(r, sup) THEN [k |-> Stop(r, sup), crashed |-> sup, handled |-> FALSE]
            ELSE [k |-> RestartGroup(r, group), crashed |-> acc.crashed, handled |-> TRUE]
      BY <2>2, <2>4 DEF HandleCrash, InTable, r, group, sup
    <3> QED  BY <2>1, <2>4, <3>2, <3>4, <3>5 DEF A
  <2> QED  BY <2>3, <2>4
<1> HIDE DEF n, A, first
<1>3. F \in [A \X (1 .. n) -> A]
  BY <1>2
<1>4. \E f : IsLoop(f)
  <2> HIDE DEF F, IsLoop
  <2>1. PICK f : IsRun(f, n, A, first, F)
    BY <1>1, <1>3, FiniteRun
  <2>2. ASSUME NEW i \in 1 .. n PROVE f[i] = HandleCrash(f[i - 1])
    <3>1. f[i - 1] \in A
      BY <1>1, <2>1 DEF IsRun
    <3>2. <<f[i - 1], i>> \in A \X (1 .. n)
      BY <3>1
    <3>3. F[<<f[i - 1], i>>] = HandleCrash(f[i - 1])
      BY <3>2 DEF F
    <3> QED  BY <2>1, <3>3 DEF IsRun
  <2>3. f = [i \in 0 .. n |-> IF i = 0 THEN first ELSE HandleCrash(f[i - 1])]
    BY <1>1, <2>1, <2>2 DEF IsRun
  <2> QED  BY <2>3 DEF IsLoop
<1>5. PICK f : IsLoop(f) /\ HandleChildCrash(k, crashed) = f[n].k
  <2>1. HandleChildCrash(k, crashed) = (CHOOSE f : IsLoop(f))[n].k
    BY DEF HandleChildCrash, n, first
  <2> HIDE DEF IsLoop
  <2> QED  BY <1>4, <2>1
<1>6. f[0] = first /\ \A i \in 1 .. n : f[i] = HandleCrash(f[i - 1])
  <2>1. 0 \in 0 .. n /\ \A i \in 1 .. n : i \in 0 .. n /\ i # 0
    BY <1>1
  <2> QED  BY <1>5, <2>1
<1>7. \A i \in 1 .. n : f[i - 1] \in A => f[i] \in A
  BY <1>2, <1>6
<1>8. f[n] \in A
  <2>1. \A i \in 0 .. n : f[i] \in A
    BY <1>1, <1>6, <1>7, RunStays
  <2> QED  BY <1>1, <2>1
<1> QED  BY <1>5, <1>8 DEF A

-----------------------------------------------------------------------------
(* The scheduler *)

(* Nothing moves when queues, current process, states and priorities stay. *)
LEMMA StaysExact ==
  ASSUME NEW D \in SUBSET Pids, NEW X, NEW k \in KState(D), NEW m \in KState(D), Exact(k, X),
         m.queues = k.queues, m.current = k.current,
         \A p \in D : m.pcbs[p].state = k.pcbs[p].state /\ m.pcbs[p].eff = k.pcbs[p].eff
  PROVE  Exact(m, X)
<1>1. DOMAIN k.pcbs = D /\ DOMAIN m.pcbs = D
  BY DEF KState
<1>2. \A p, l : Waits(m, p, l) <=> Waits(k, p, l)
  BY <1>1 DEF Waits, InTable
<1>3. CurrentRuns(m, X)
  BY <1>1 DEF Exact, CurrentRuns, InTable
<1> QED  BY <1>2, <1>3 DEF Exact

(* The clock. *)
LEMMA TickedSettled ==
  ASSUME NEW D \in SUBSET Pids, NEW j, NEW k \in Settled(D, j, {})
  PROVE  LET m == Ticked(k)
         IN  m \in Settled(D, j, {}) /\ m.current = k.current /\ SameStates(m, k, D)
<1> DEFINE m == Ticked(k)
<1>1. k \in KState(D) /\ Exact(k, {}) /\ SameTree(k, j, D) /\ DOMAIN k.pcbs = D
  BY DEF Settled, KState
<1>2. ASSUME NEW b \in Pcb
      PROVE  /\ AgedPcb(b) \in Pcb /\ AgedPcb(b).state = b.state /\ AgedPcb(b).eff = b.eff
             /\ AgedPcb(b).sup = b.sup /\ AgedPcb(b).children = b.children
  <2> DEFINE idle == Older(b.idle, Aging)
             due == IF b.deadline = None \/ b.deadline = 0 THEN b.deadline ELSE b.deadline - 1
             old == [i \in DOMAIN b.restarts |-> b.restarts[i] + 1]
             left == Keep(old, 0 .. RestartWindow - 1)
  <2>1. idle \in Nat /\ due \in Nat \cup {None}
    BY TimesAssumption DEF Pcb, Older
  <2>2. old \in Seq(Nat)
    <3>1. PICK s \in Seq(Nat) : s = b.restarts
      BY DEF Pcb
    <3>2. [i \in DOMAIN s |-> s[i] + 1] \in Seq(Nat)
      OBVIOUS
    <3> QED  BY <3>1, <3>2
  <2> HIDE DEF old
  <2>3. left \in Seq(Nat)
    <3>1. \A T : Keep(old, T) \in Seq(Nat \cap T)
      <4> TAKE T
      <4> QED  BY <2>2, KeepContains
    <3>2. \A T : Seq(Nat \cap T) \subseteq Seq(Nat)
      OBVIOUS
    <3> QED  BY <3>1, <3>2
  <2>4. AgedPcb(b) = [b EXCEPT !.idle = idle, !.deadline = due, !.restarts = left]
    BY DEF AgedPcb, old, Pcb
  <2> HIDE DEF idle, due, left
  <2> QED  BY <2>1, <2>3, <2>4, ZenonT(40) DEF Pcb
<1>3. m.pcbs = [p \in D |-> AgedPcb(k.pcbs[p])] /\ m.queues = k.queues /\ m.current = k.current
  BY <1>1 DEF Ticked, KState
<1>4. \A p \in D : k.pcbs[p] \in Pcb /\ m.pcbs[p] = AgedPcb(k.pcbs[p])
  BY <1>1, <1>3 DEF KState
<1>5. m \in KState(D)
  <2>1. [p \in D |-> AgedPcb(k.pcbs[p])] \in [D -> Pcb]
    BY <1>2, <1>4
  <2> QED  BY <1>1, <2>1 DEF Ticked, KState
<1> HIDE DEF m
<1>6. Exact(m, {})
  BY <1>1, <1>2, <1>3, <1>4, <1>5, StaysExact
<1> QED  BY <1>1, <1>2, <1>3, <1>4, <1>5, <1>6 DEF Settled, SameTree, SameStates, m

(* A tick of the slice. *)
LEMMA ConsumedSettled ==
  ASSUME NEW D \in SUBSET Pids, NEW j, NEW k \in Settled(D, j, {})
  PROVE  LET m == Consumed(k)
         IN  m \in Settled(D, j, {}) /\ m.current = k.current /\ SameStates(m, k, D)
<1>1. /\ k \in KState(D) /\ Exact(k, {}) /\ SameTree(k, j, D) /\ DOMAIN k.pcbs = D
      /\ k.current # 0 => k.current \in D
  BY DEF Settled, KState, Exact, CurrentRuns, InTable
<1>2. CASE k.current = 0 \/ k.pcbs[k.current].slice = 0
  BY <1>1, <1>2 DEF Consumed, SameStates
<1>3. CASE k.current # 0 /\ k.pcbs[k.current].slice # 0
  <2> DEFINE x == k.current
             b == [k.pcbs[x] EXCEPT !.slice = @ - 1]
  <2>1. k.pcbs[x] \in Pcb /\ x \in D
    BY <1>1, <1>3 DEF KState
  <2>2. /\ b \in Pcb /\ b.state = k.pcbs[x].state /\ b.eff = k.pcbs[x].eff
        /\ b.sup = k.pcbs[x].sup /\ b.children = k.pcbs[x].children
    <3>1. PICK left \in Nat : left = k.pcbs[x].slice /\ left # 0
      BY <1>3, <2>1 DEF Pcb
    <3>2. left - 1 \in Nat /\ b = [k.pcbs[x] EXCEPT !.slice = left - 1]
      BY <2>1, <3>1 DEF Pcb
    <3> HIDE DEF b
    <3> QED  BY <2>1, <3>2 DEF Pcb
  <2>3. Consumed(k) = Put(k, x, b)
    BY <1>1, <1>3, <2>1 DEF Consumed, Put, KState
  <2> HIDE DEF b, x
  <2>4. Put(k, x, b) \in KState(D) /\ Exact(Put(k, x, b), {}) /\ SameTree(Put(k, x, b), j, D)
    BY <1>1, <2>1, <2>2, PutFacts, PutExact, PutTree
  <2>5. Put(k, x, b).current = k.current /\ \A p \in D : Put(k, x, b).pcbs[p].state = k.pcbs[p].state
    BY <1>1, <2>1, <2>2, PutFacts
  <2> QED  BY <2>3, <2>4, <2>5 DEF Settled, SameStates
<1> QED  BY <1>2, <1>3

(* The process that was running goes back. *)
LEMMA PutBackSettled ==
  ASSUME NEW D \in SUBSET Pids, NEW X, NEW j, NEW k \in Settled(D, j, X)
  PROVE  LET m == PutBack(k)
         IN  m \in Settled(D, j, X) /\ m.current = 0 /\ Leaves(m, k, Resting(k, X))
<1>1. /\ k \in KState(D) /\ Exact(k, X) /\ SameTree(k, j, D) /\ DOMAIN k.pcbs = D
      /\ k.current # 0 => k.current \in D /\ k.pcbs[k.current].state = "Running" /\ k.current \notin X
  BY DEF Settled, KState, Exact, CurrentRuns, InTable
<1>2. CASE k.current = 0
  BY <1>2 DEF PutBack, Leaves
<1>3. CASE k.current # 0
  <2> DEFINE x == k.current
             b == [k.pcbs[x] EXCEPT !.state = "Ready"]
             u == Put(k, x, b)
             v == [u EXCEPT !.current = 0]
             e == Enqueue(v, x, b.eff)
  <2>1. x \in D /\ k.pcbs[x] \in Pcb /\ k.pcbs[x].state = "Running" /\ x # 0 /\ x \in Pids /\ x \notin X
    BY <1>1, <1>3 DEF KState
  <2>2. /\ b \in Pcb /\ b.state = "Ready" /\ b.eff = k.pcbs[x].eff
        /\ b.sup = k.pcbs[x].sup /\ b.children = k.pcbs[x].children
    BY <2>1 DEF Pcb, States
  <2>3. PutBack(k) = e
    <3>1. [k EXCEPT !.current = 0, !.pcbs[x].state = "Ready"] = v
      BY <1>1, <2>1 DEF Put, KState
    <3> QED  BY <2>1, <2>2, <3>1 DEF PutBack
  <2> HIDE DEF b, x
  <2>4. /\ u \in KState(D) /\ u.pcbs[x] = b /\ SameTree(u, j, D) /\ u.current = x
        /\ u.queues = k.queues /\ ExactBut(u, x, X) /\ \A p \in D \ {x} : u.pcbs[p] = k.pcbs[p]
    <3>1. k.current = x
      BY DEF x
    <3> QED  BY <1>1, <2>1, <2>2, <3>1, PutFacts, PutTree, PutExactBut
  <2> HIDE DEF u
  <2>5. v \in KState(D) /\ v.pcbs = u.pcbs /\ v.queues = u.queues /\ v.current = 0
    BY <2>4 DEF KState
  <2> HIDE DEF v
  <2>6. Off(v, x, X)
    <3>1. \A p \in Pids \ {x}, l \in Levels : Waits(v, p, l) <=> Waits(u, p, l)
      <4>1. \A p \in Pids : p # 0
        BY PidsPositive
      <4> QED  BY <2>4, <2>5, <4>1 DEF Waits, InTable
    <3>2. CurrentRuns(v, X) /\ v.current # x
      BY <2>1, <2>5 DEF CurrentRuns
    <3>3. \A l \in Levels : ~Contains(v.queues[l], x)
      BY <1>1, <2>1, <2>4, <2>5 DEF Exact, Waits, x
    <3> QED  BY <2>4, <2>5, <3>1, <3>2, <3>3 DEF Off, ExactBut
  <2>7. e \in KState(D) /\ e.pcbs = v.pcbs /\ e.current = 0 /\ Exact(e, X)
    BY <2>1, <2>2, <2>4, <2>5, <2>6, EnqueueOn DEF Runnable
  <2> HIDE DEF e
  <2> QED  BY <1>1, <2>1, <2>3, <2>4, <2>5, <2>7 DEF Settled, SameTree, Runnable, Leaves, Resting
<1> QED  BY <1>2, <1>3

(* The choice of the next process. *)
LEMMA ScheduleNextSettled ==
  ASSUME NEW D \in SUBSET Pids, NEW X, NEW j, NEW k \in Settled(D, j, X)
  PROVE  LET m == ScheduleNext(k)
         IN  m \in Settled(D, j, X) /\ Leaves(m, k, Resting(k, X))
<1> DEFINE back == PutBack(k)
           busy == {l \in Levels : back.queues[l] # << >>}
           top == CHOOSE l \in busy : \A m \in busy : m <= l
           x == Head(back.queues[top])
           m == ScheduleNext(k)
<1>1. CASE KeepsRunning(k)
  BY <1>1 DEF ScheduleNext, Leaves
<1>2. CASE ~KeepsRunning(k) /\ busy = {}
  <2>1. m = back
    BY <1>2 DEF ScheduleNext
  <2>2. back \in Settled(D, j, X) /\ Leaves(back, k, Resting(k, X))
    BY PutBackSettled
  <2> QED  BY <2>1, <2>2
<1>3. CASE ~KeepsRunning(k) /\ busy # {}
  <2> DEFINE b == [back.pcbs[x] EXCEPT !.state = "Running", !.idle = 0, !.slice = Slice(back.pcbs[x].eff)]
  <2>1. /\ back \in KState(D) /\ Exact(back, X) /\ SameTree(back, j, D) /\ back.current = 0
        /\ DOMAIN back.pcbs = D
        /\ Leaves(back, k, Resting(k, X))
    <3>1. back \in Settled(D, j, X) /\ back.current = 0 /\ Leaves(back, k, Resting(k, X))
      BY PutBackSettled, SMTT(30)
    <3> HIDE DEF back
    <3> QED  BY <3>1 DEF Settled, KState
  <2>2. m = [back EXCEPT !.queues[top] = Tail(@), !.current = x, !.pcbs[x] = b]
    BY <1>3, ZenonT(40) DEF ScheduleNext
  <2> HIDE DEF back
  <2>3. top \in Levels /\ back.queues[top] # << >>
    <3>1. \E l \in busy : \A i \in busy : i <= l
      <4>1. busy \in SUBSET Nat /\ \A l \in busy : l <= Top
        BY LevelId DEF Levels
      <4> HIDE DEF busy
      <4> QED  BY <1>3, <4>1, GreatestNat, LevelId
    <3>2. top \in busy
      <4> HIDE DEF busy
      <4> QED  BY <3>1
    <3> HIDE DEF top
    <3> QED  BY <3>2
  <2> HIDE DEF top
  <2> DEFINE q == back.queues[top]
  <2>4. q \in Seq(Pids) /\ IsInjective(q) /\ q # << >>
    BY <2>1, <2>3 DEF KState, Exact
  <2>5. /\ Tail(q) \in Seq(Pids) /\ x \in Pids /\ Contains(q, x) /\ IsInjective(Tail(q))
        /\ \A y : Contains(Tail(q), y) <=> Contains(q, y) /\ y # x
    <3> HIDE DEF q
    <3>1. /\ Tail(q) \in Seq(Pids) /\ Head(q) \in Pids /\ Contains(q, Head(q)) /\ IsInjective(Tail(q))
          /\ \A y : Contains(Tail(q), y) <=> Contains(q, y) /\ y # Head(q)
      BY <2>4, TailContains
    <3> QED  BY <3>1 DEF q
  <2> HIDE DEF x
  <2>6. Waits(back, x, top) /\ x \notin X
    BY <2>1, <2>3, <2>5 DEF Exact
  <2>7. x \in D /\ back.pcbs[x].eff = top /\ Runnable(back.pcbs[x].state) /\ x # 0 /\ x \notin X
    BY <2>1, <2>5, <2>6 DEF Waits, InTable, Pids
  <2>8. /\ b \in Pcb /\ b.state = "Running" /\ b.eff = top
        /\ b.sup = back.pcbs[x].sup /\ b.children = back.pcbs[x].children
    <3>1. back.pcbs[x] \in Pcb /\ Slice(back.pcbs[x].eff) \in Nat
      BY <2>1, <2>3, <2>7, SliceAssumption DEF KState
    <3> QED  BY <2>7, <3>1 DEF Pcb, States
  <2> HIDE DEF b, q
  <2>9. /\ m \in KState(D) /\ m.current = x /\ m.pcbs[x] = b /\ DOMAIN m.pcbs = D
        /\ \A p \in D \ {x} : m.pcbs[p] = back.pcbs[p]
        /\ m.queues[top] = Tail(q) /\ \A l \in Levels \ {top} : m.queues[l] = back.queues[l]
    <3>1. PICK P \in [D -> Pcb], Q \in [Levels -> Seq(Pids)] :
             back = [pcbs |-> P, queues |-> Q, current |-> 0]
      BY <2>1 DEF KState
    <3>2. m = [pcbs |-> [P EXCEPT ![x] = b], queues |-> [Q EXCEPT ![top] = Tail(q)], current |-> x]
      <4>1. q = Q[top]
        BY <3>1 DEF q
      <4> QED  BY <2>2, <3>1, <4>1
    <3> HIDE DEF m
    <3>3. [P EXCEPT ![x] = b] \in [D -> Pcb] /\ [Q EXCEPT ![top] = Tail(q)] \in [Levels -> Seq(Pids)]
      BY <2>3, <2>5, <2>7, <2>8
    <3>4. m \in KState(D)
      BY <2>5, <3>2, <3>3 DEF KState
    <3> QED  BY <2>3, <2>7, <3>1, <3>2, <3>4
  <2> HIDE DEF m
  <2>10. \A p \in Pids, l \in Levels : Waits(m, p, l) <=> Waits(back, p, l) /\ p # x
    <3>1. \A p \in Pids : p # 0
      BY PidsPositive
    <3> QED  BY <2>1, <2>9, <3>1 DEF Waits, InTable
  <2>11. ASSUME NEW l \in Levels
         PROVE  /\ IsInjective(m.queues[l])
                /\ \A p \in Pids : Contains(m.queues[l], p) <=> Waits(m, p, l) /\ p \notin X
    <3>1. CASE l = top
      BY <2>1, <2>5, <2>9, <2>10, <3>1 DEF Exact, q
    <3>2. CASE l # top
      <4>1. ~Waits(back, x, l)
        BY <2>7, <3>2 DEF Waits
      <4>2. /\ m.queues[l] = back.queues[l]
            /\ \A p \in Pids : Contains(back.queues[l], p) <=> Waits(back, p, l) /\ p \notin X
        BY <2>1, <2>9, <3>2 DEF Exact
      <4> QED  BY <2>1, <2>10, <4>1, <4>2 DEF Exact
    <3> QED  BY <3>1, <3>2
  <2>12. CurrentRuns(m, X)
    BY <2>7, <2>8, <2>9 DEF CurrentRuns, InTable
  <2>13. SameTree(m, j, D)
    BY <2>1, <2>8, <2>9 DEF SameTree
  <2>14. m \in Settled(D, j, X)
    BY <2>9, <2>11, <2>12, <2>13 DEF Settled, Exact
  <2>15. Leaves(m, k, Resting(k, X))
    <3>1. DOMAIN k.pcbs = D
      BY DEF Settled, KState
    <3> QED  BY <2>1, <2>7, <2>9, <3>1 DEF Leaves, Resting
  <2> QED  BY <2>14, <2>15 DEF m
<1> QED  BY <1>1, <1>2, <1>3

(* Starved processes move up a level. *)
LEMMA AgeSettled ==
  ASSUME NEW D \in SUBSET Pids, NEW j, NEW k \in Settled(D, j, {})
  PROVE  Age(k) \in Settled(D, j, {})
<1> DEFINE starved == {p \in DOMAIN k.pcbs : /\ k.pcbs[p].state = "Ready" /\ k.pcbs[p].idle >= Aging
                                               /\ \E l \in 0 .. Top - 1 : Contains(k.queues[l], p)}
           stay(l) == Keep(k.queues[l], Pids \ starved)
           rise(l) == IF l = 0 THEN << >> ELSE Keep(k.queues[l - 1], starved)
           up(b) == [b EXCEPT !.eff = @ + 1]
           m == Age(k)
<1>1. k \in KState(D) /\ Exact(k, {}) /\ SameTree(k, j, D) /\ DOMAIN k.pcbs = D
  BY DEF Settled, KState
<1>2. /\ m.pcbs = [p \in D |-> IF p \in starved THEN up(k.pcbs[p]) ELSE k.pcbs[p]]
      /\ m.queues = [l \in Levels |-> stay(l) \o rise(l)] /\ m.current = k.current
      /\ m = [pcbs |-> m.pcbs, queues |-> m.queues, current |-> m.current]
  <2> DEFINE P == [p \in D |-> IF p \in starved THEN up(k.pcbs[p]) ELSE k.pcbs[p]]
             Q == [l \in Levels |-> stay(l) \o rise(l)]
  <2>1. m = [k EXCEPT !.queues = Q, !.pcbs = P]
    <3> DEFINE R == [p \in DOMAIN k.pcbs |-> IF p \in starved THEN up(k.pcbs[p]) ELSE k.pcbs[p]]
    <3>1. m = [k EXCEPT !.queues = Q, !.pcbs = R]
      BY DEF Age
    <3>2. R = P
      BY <1>1
    <3> HIDE DEF R, P, Q, m
    <3> QED  BY <3>1, <3>2
  <2> HIDE DEF P, Q, m
  <2>2. m = [pcbs |-> P, queues |-> Q, current |-> k.current]
    BY <1>1, <2>1 DEF KState
  <2> QED  BY <2>2 DEF P, Q
<1>3. ASSUME NEW p \in starved
      PROVE  /\ p \in D /\ p \in Pids /\ k.pcbs[p].state = "Ready"
             /\ k.pcbs[p].eff \in 0 .. Top - 1 /\ k.pcbs[p] \in Pcb
  <2>1. p \in D /\ p \in Pids /\ k.pcbs[p].state = "Ready" /\ k.pcbs[p] \in Pcb
    BY <1>1 DEF KState
  <2>2. PICK l \in 0 .. Top - 1 : Contains(k.queues[l], p)
    OBVIOUS
  <2>3. l \in Levels
    BY LevelId DEF Levels
  <2>4. Waits(k, p, l)
    BY <1>1, <2>1, <2>2, <2>3 DEF Exact
  <2> QED  BY <2>1, <2>4 DEF Waits
<1>4. starved \subseteq D
  BY <1>3
<1> HIDE DEF m, starved
<1>5. ASSUME NEW p \in starved
      PROVE  /\ up(k.pcbs[p]) \in Pcb /\ up(k.pcbs[p]).state = k.pcbs[p].state
             /\ up(k.pcbs[p]).eff = k.pcbs[p].eff + 1
             /\ up(k.pcbs[p]).sup = k.pcbs[p].sup /\ up(k.pcbs[p]).children = k.pcbs[p].children
  <2>1. PICK e \in 0 .. Top - 1 : e = k.pcbs[p].eff
    BY <1>3
  <2>2. PICK f \in Levels : f = e + 1
    BY LevelId DEF Levels
  <2>3. up(k.pcbs[p]) = [k.pcbs[p] EXCEPT !.eff = f]
    BY <1>3, <2>1, <2>2 DEF Pcb
  <2>4. PICK b \in Pcb : b = k.pcbs[p]
    BY <1>3
  <2>5. [b EXCEPT !.eff = f] \in Pcb
    BY DEF Pcb
  <2> HIDE DEF up
  <2> QED  BY <2>1, <2>2, <2>3, <2>4, <2>5 DEF Pcb
<1>6. \A p \in D : m.pcbs[p] = IF p \in starved THEN up(k.pcbs[p]) ELSE k.pcbs[p]
  BY <1>2
<1> HIDE DEF up
<1>7. ASSUME NEW l \in Levels
      PROVE  /\ stay(l) \in Seq(Pids) /\ IsInjective(stay(l))
             /\ \A y : Contains(stay(l), y) <=> Contains(k.queues[l], y) /\ y \in Pids /\ y \notin starved
  <2>1. k.queues[l] \in Seq(Pids) /\ IsInjective(k.queues[l])
    BY <1>1 DEF KState, Exact
  <2>2. Seq(Pids \cap (Pids \ starved)) \subseteq Seq(Pids)
    OBVIOUS
  <2>3. /\ stay(l) \in Seq(Pids \cap (Pids \ starved)) /\ IsInjective(stay(l))
        /\ \A y : Contains(stay(l), y) <=> Contains(k.queues[l], y) /\ y \in Pids \ starved
    BY <2>1, KeepContains
  <2> HIDE DEF stay
  <2> QED  BY <2>2, <2>3
<1>8. ASSUME NEW l \in Levels
      PROVE  /\ rise(l) \in Seq(Pids) /\ IsInjective(rise(l))
             /\ \A y : Contains(rise(l), y) <=> l # 0 /\ Contains(k.queues[l - 1], y) /\ y \in starved
  <2>1. CASE l = 0
    <3>1. rise(l) = << >> /\ << >> \in Seq(Pids)
      BY <2>1
    <3>2. IsInjective(<< >>) /\ \A y : ~Contains(<< >>, y)
      BY DEF IsInjective, Contains
    <3> HIDE DEF rise
    <3> QED  BY <2>1, <3>1, <3>2
  <2>2. CASE l # 0
    <3>1. l - 1 \in Levels
      BY <2>2, LevelId DEF Levels
    <3> DEFINE q == k.queues[l - 1]
    <3>2. q \in Seq(Pids) /\ IsInjective(q)
      BY <1>1, <3>1 DEF KState, Exact
    <3>3. Seq(Pids \cap starved) \subseteq Seq(Pids)
      OBVIOUS
    <3>4. rise(l) = Keep(q, starved)
      BY <2>2
    <3> HIDE DEF q, rise
    <3>5. /\ Keep(q, starved) \in Seq(Pids \cap starved) /\ IsInjective(Keep(q, starved))
          /\ \A y : Contains(Keep(q, starved), y) <=> Contains(q, y) /\ y \in starved
      BY <3>2, KeepContains
    <3> QED  BY <2>2, <3>3, <3>4, <3>5 DEF q
  <2> QED  BY <2>1, <2>2
<1> HIDE DEF stay, rise
<1>9. ASSUME NEW l \in Levels
      PROVE  /\ m.queues[l] \in Seq(Pids) /\ IsInjective(m.queues[l])
             /\ \A y : Contains(m.queues[l], y) <=> Contains(stay(l), y) \/ Contains(rise(l), y)
  <2>1. m.queues[l] = stay(l) \o rise(l)
    BY <1>2
  <2>2. \A y \in Pids : ~(Contains(stay(l), y) /\ Contains(rise(l), y))
    BY <1>7, <1>8
  <2> QED  BY <1>7, <1>8, <2>1, <2>2, ConcatContains
<1>10. m \in KState(D)
  <2>1. m.pcbs \in [D -> Pcb]
    <3>1. \A p \in D : k.pcbs[p] \in Pcb
      BY <1>1 DEF KState
    <3> QED  BY <1>2, <1>5, <3>1
  <2>2. m.queues \in [Levels -> Seq(Pids)]
    BY <1>2, <1>9
  <2>3. m.current \in Pids \cup {0}
    BY <1>1, <1>2 DEF KState
  <2> QED  BY <1>2, <2>1, <2>2, <2>3 DEF KState
<1>11. ASSUME NEW l \in Levels, NEW p \in Pids PROVE Contains(m.queues[l], p) <=> Waits(m, p, l)
  <2>1. Contains(m.queues[l], p) <=>
          \/ Waits(k, p, l) /\ p \notin starved
          \/ l # 0 /\ Waits(k, p, l - 1) /\ p \in starved
    <3>1. l # 0 => l - 1 \in Levels
      BY LevelId DEF Levels
    <3> QED  BY <1>1, <1>7, <1>8, <1>9, <3>1 DEF Exact
  <2>2. DOMAIN m.pcbs = D
    BY <1>10 DEF KState
  <2>3. CASE p \notin starved
    <3>1. Waits(m, p, l) <=> Waits(k, p, l)
      BY <1>1, <1>2, <1>6, <2>2, <2>3 DEF Waits, InTable
    <3> QED  BY <2>1, <2>3, <3>1
  <2>4. CASE p \in starved
    <3>1. PICK e \in 0 .. Top - 1 : e = k.pcbs[p].eff
      BY <1>3, <2>4
    <3>2. p \in D /\ m.pcbs[p].state = "Ready" /\ m.pcbs[p].eff = e + 1 /\ k.pcbs[p].state = "Ready"
      BY <1>3, <1>5, <1>6, <2>4, <3>1
    <3>3. Waits(m, p, l) <=> p # k.current /\ e + 1 = l
      BY <1>2, <2>2, <3>2 DEF Waits, InTable, Runnable
    <3>4. Waits(k, p, l - 1) <=> p # k.current /\ e = l - 1
      BY <1>1, <3>1, <3>2 DEF Waits, InTable, Runnable
    <3>5. e = l - 1 <=> e + 1 = l
      BY LevelId DEF Levels
    <3>6. e + 1 = l => l # 0
      BY LevelId DEF Levels
    <3> QED  BY <2>1, <2>4, <3>3, <3>4, <3>5, <3>6
  <2> QED  BY <2>3, <2>4
<1>12. CurrentRuns(m, {})
  <2>1. DOMAIN m.pcbs = D
    BY <1>10 DEF KState
  <2>2. \A p \in D : m.pcbs[p].state = k.pcbs[p].state
    BY <1>5, <1>6
  <2> QED  BY <1>1, <1>2, <2>1, <2>2 DEF Exact, CurrentRuns, InTable
<1>13. SameTree(m, j, D)
  <2>1. \A p \in D : m.pcbs[p].sup = k.pcbs[p].sup /\ m.pcbs[p].children = k.pcbs[p].children
    BY <1>5, <1>6
  <2> QED  BY <1>1, <2>1 DEF SameTree
<1>14. Exact(m, {})
  BY <1>9, <1>11, <1>12 DEF Exact
<1> QED  BY <1>10, <1>13, <1>14 DEF Settled, m

-----------------------------------------------------------------------------
(* The inductive invariant *)

(* The lists of children and the bus registrations. *)
Family(k, reg) ==
  \A p \in DOMAIN k.pcbs :
    LET b == k.pcbs[p]
    IN  /\ IsInjective(b.children)
        /\ \A c \in Pids : Contains(b.children, c) => InTable(k, c) /\ k.pcbs[c].sup = p
        /\ p # BUTLER => /\ InTable(k, b.sup)
                         /\ ~Contains(k.pcbs[b.sup].children, p) => p \notin reg

(* With the next pid, the clock and the registrations. *)
Sound(k, next, time, reg) ==
  /\ DOMAIN k.pcbs \subseteq Pids /\ k \in KState(DOMAIN k.pcbs)
  /\ Exact(k, {}) /\ Family(k, reg)
  /\ next \in Nat /\ \A p \in DOMAIN k.pcbs : p < next
  /\ time \in Nat /\ reg \subseteq DOMAIN k.pcbs

Inv == Sound(Kernel, next_pid, uptime, registered)

(* The family is that of any other state with the same tree. *)
LEMMA SettledSound ==
  ASSUME NEW j, NEW k, NEW next, NEW time, NEW later \in Nat, NEW reg,
         Sound(j, next, time, reg), k \in Settled(DOMAIN j.pcbs, j, {})
  PROVE  Sound(k, next, later, reg)
<1> DEFINE D == DOMAIN j.pcbs
<1>1. k \in KState(D) /\ Exact(k, {}) /\ SameTree(k, j, D)
  BY DEF Settled
<1>2. DOMAIN k.pcbs = D
  BY <1>1 DEF KState
<1> HIDE DEF D
<1>3. DOMAIN j.pcbs = D
  BY DEF D
<1>4. \A p \in D : k.pcbs[p].sup = j.pcbs[p].sup /\ k.pcbs[p].children = j.pcbs[p].children
  BY <1>1 DEF SameTree
<1>5. Family(k, reg)
  BY <1>2, <1>3, <1>4 DEF Family, Sound, InTable
<1> QED  BY <1>1, <1>2, <1>3, <1>5 DEF Sound

(* What Becomes says of the state as a record. *)
LEMMA BecomesKernel ==
  ASSUME NEW D, NEW k \in KState(D), Becomes(k)
  PROVE  Kernel' = k
BY DEF Becomes, Kernel, KState

(* An operation that keeps the tree. *)
LEMMA SettledStep ==
  ASSUME Inv, NEW k \in Settled(DOMAIN pcbs, Kernel, {}), Becomes(k), uptime' \in Nat,
         UNCHANGED <<next_pid, registered>>
  PROVE  Inv'
<1>1. Kernel.pcbs = pcbs
  BY DEF Kernel
<1>2. k \in Settled(DOMAIN Kernel.pcbs, Kernel, {})
  BY <1>1
<1>3. Sound(k, next_pid, uptime', registered)
  BY <1>2, SettledSound DEF Inv
<1>4. Kernel' = k
  BY BecomesKernel DEF Settled
<1> QED  BY <1>3, <1>4 DEF Inv

(* What the invariant says of the state before a step. *)
LEMMA InvFacts ==
  ASSUME Inv
  PROVE  /\ Kernel.pcbs = pcbs /\ Kernel.queues = queues /\ Kernel.current = current
         /\ DOMAIN pcbs \in SUBSET Pids /\ Kernel \in Settled(DOMAIN pcbs, Kernel, {})
         /\ Kernel \in KState(DOMAIN pcbs) /\ Exact(Kernel, {}) /\ uptime \in Nat
         /\ \A p \in DOMAIN pcbs : pcbs[p] \in Pcb
<1>1. Kernel.pcbs = pcbs /\ Kernel.queues = queues /\ Kernel.current = current
  BY DEF Kernel
<1>2. /\ DOMAIN pcbs \subseteq Pids /\ Kernel \in KState(DOMAIN pcbs) /\ Exact(Kernel, {}) /\ uptime \in Nat
  BY <1>1 DEF Inv, Sound
<1>3. SameTree(Kernel, Kernel, DOMAIN pcbs)
  BY DEF SameTree
<1>4. \A p \in DOMAIN pcbs : pcbs[p] \in Pcb
  BY <1>1, <1>2 DEF KState
<1> QED  BY <1>1, <1>2, <1>3, <1>4 DEF Settled

(* The boot state. *)
LEMMA InitInv == Init => Inv
<1> SUFFICES ASSUME Init PROVE Inv
  OBVIOUS
<1> DEFINE b == NewPcb([base |-> Top, cat |-> "Compute", deadline |-> None], KERNEL, "OneForOne", 0,
                       ButlerRestarts)
<1>1. BUTLER \in Pids /\ BUTLER # 0
  BY BoundsAssumption DEF Pids, BUTLER
<1>2. /\ b \in Pcb /\ b.state = "Ready" /\ b.eff = Top /\ b.children = << >>
  BY LevelId, BoundsAssumption DEF Init, NewPcb, Pcb, States, Categories, KERNEL
<1>3. pcbs = [p \in {BUTLER} |-> b] /\ uptime = 0 /\ next_pid = 2 /\ registered = {BUTLER} /\ current = 0
      /\ queues = [l \in Levels |-> IF l = Top THEN <<BUTLER>> ELSE << >>]
  BY DEF Init, BUTLER
<1> HIDE DEF b
<1>4. /\ Kernel.pcbs = pcbs /\ Kernel.queues = queues /\ Kernel.current = 0 /\ DOMAIN pcbs = {BUTLER}
      /\ pcbs[BUTLER] = b
  BY <1>3 DEF Kernel
<1>5. Kernel \in KState({BUTLER})
  BY <1>1, <1>2, <1>3 DEF KState, Kernel
<1>6. IsInjective(<< >>) /\ (\A y : ~Contains(<< >>, y)) /\ IsInjective(<<BUTLER>>)
      /\ \A y : Contains(<<BUTLER>>, y) <=> y = BUTLER
  BY DEF IsInjective, Contains
<1>7. Exact(Kernel, {})
  <2>1. CurrentRuns(Kernel, {})
    BY <1>4 DEF CurrentRuns
  <2>2. \A p \in Pids, l \in Levels : Waits(Kernel, p, l) <=> p = BUTLER /\ l = Top
    BY <1>1, <1>2, <1>4 DEF Waits, InTable, Runnable
  <2>3. \A l \in Levels : Kernel.queues[l] = IF l = Top THEN <<BUTLER>> ELSE << >>
    BY <1>3, <1>4
  <2> QED  BY <1>6, <2>1, <2>2, <2>3 DEF Exact
<1>8. Family(Kernel, registered)
  BY <1>2, <1>4, <1>6 DEF Family
<1>9. \A p \in {BUTLER} : p < 2
  BY DEF BUTLER
<1> QED  BY <1>1, <1>3, <1>4, <1>5, <1>7, <1>8, <1>9 DEF Inv, Sound

-----------------------------------------------------------------------------
(* One lemma per action *)

(* spawn: a new process in the table, in its queue and in its supervisor's  *)
(* list, and perhaps on the bus.                                           *)
LEMMA SpawnInv ==
  ASSUME Inv, NEW sup \in Pids, NEW intent \in [base: Levels, cat: Categories, deadline: Nat \cup {None}],
         NEW strategy \in {"OneForOne", "OneForAll", "RestForOne"}, Spawn(sup, intent, strategy)
  PROVE  Inv'
<1> DEFINE D == DOMAIN pcbs
           pid == next_pid
           new == NewPcb(intent, sup, strategy, Len(pcbs[sup].children), MaxRestarts)
           old == [pcbs[sup] EXCEPT !.children = Append(@, pid)]
           P == [p \in D \cup {pid} |-> IF p = pid THEN new ELSE IF p = sup THEN old ELSE pcbs[p]]
           u == [pcbs |-> P, queues |-> queues, current |-> current]
           e == Enqueue(u, pid, new.eff)
<1>1. /\ sup \in D /\ pid <= MaxPids /\ next_pid' = pid + 1 /\ uptime' = uptime
  BY DEF Spawn
<1>2. /\ Kernel.pcbs = pcbs /\ Kernel.queues = queues /\ Kernel.current = current
      /\ D \in SUBSET Pids /\ Kernel \in KState(D) /\ Exact(Kernel, {}) /\ uptime \in Nat
      /\ \A p \in D : pcbs[p] \in Pcb
  BY InvFacts
<1>3. /\ next_pid \in Nat /\ (\A p \in D : p < next_pid) /\ registered \subseteq D
      /\ Family(Kernel, registered)
  BY <1>2 DEF Inv, Sound
<1>4. pid \in Pids /\ pid \notin D /\ pid # sup /\ pid # 0 /\ pid # BUTLER
  <2>1. sup < pid /\ 1 <= sup
    BY <1>1, <1>3, BoundsAssumption DEF Pids
  <2> QED  BY <1>1, <1>3, <2>1 DEF Pids, BUTLER
<1>5. CASE UNCHANGED <<pcbs, queues, current, registered>>
  <2>1. Kernel' = Kernel
    BY <1>5 DEF Kernel
  <2>2. \A p \in D : p < next_pid + 1
    BY <1>2, <1>3, PidsPositive
  <2>3. DOMAIN Kernel.pcbs = D
    BY <1>2
  <2> HIDE DEF D
  <2> QED  BY <1>1, <1>2, <1>3, <1>5, <2>1, <2>2, <2>3 DEF Inv, Sound
<1>6. CASE /\ Becomes(e)
           /\ registered' = registered \/ registered' = registered \cup {pid}
  <2>1. /\ new \in Pcb /\ new.state = "Ready" /\ new.children = << >> /\ new.sup = sup
    <3>1. /\ intent.base \in Levels /\ intent.cat \in Categories /\ intent.deadline \in Nat \cup {None}
      OBVIOUS
    <3>2. Len(pcbs[sup].children) \in Nat
      <4>1. pcbs[sup].children \in Seq(Pids)
        BY <1>1, <1>2 DEF Pcb
      <4> QED  BY <4>1
    <3> QED  BY <1>2, <3>1, <3>2, BoundsAssumption DEF NewPcb, Pcb, States
  <2>2. PICK list \in Seq(Pids) : list = pcbs[sup].children
    BY <1>1, <1>2 DEF Pcb
  <2>3. /\ Append(list, pid) \in Seq(Pids)
        /\ \A y : Contains(Append(list, pid), y) <=> Contains(list, y) \/ y = pid
        /\ IsInjective(list) /\ ~Contains(list, pid) => IsInjective(Append(list, pid))
    BY <1>4, AppendContains
  <2>4. /\ old \in Pcb /\ old.state = pcbs[sup].state /\ old.eff = pcbs[sup].eff
        /\ old.sup = pcbs[sup].sup /\ old.children = Append(list, pid)
    <3>1. old = [pcbs[sup] EXCEPT !.children = Append(list, pid)]
      BY <1>1, <1>2, <2>2 DEF Pcb
    <3>2. PICK c \in Pcb : c = pcbs[sup]
      BY <1>1, <1>2
    <3>3. old = [c EXCEPT !.children = Append(list, pid)]
      BY <3>1, <3>2
    <3> HIDE DEF old
    <3> QED  BY <2>3, <3>2, <3>3 DEF Pcb
  <2> HIDE DEF new, old, D, pid
  <2>5. /\ DOMAIN P = D \cup {pid} /\ P \in [D \cup {pid} -> Pcb] /\ P[pid] = new /\ P[sup] = old
        /\ \A p \in D \ {sup} : P[p] = pcbs[p]
    BY <1>1, <1>2, <1>4, <2>1, <2>4
  <2> HIDE DEF P
  <2>6. u \in KState(D \cup {pid}) /\ u.pcbs = P /\ u.queues = queues /\ u.current = current
    BY <1>2, <2>5 DEF KState
  <2> HIDE DEF u
  <2>7. Off(u, pid, {})
    <3>1. /\ CurrentRuns(Kernel, {}) /\ DOMAIN Kernel.pcbs = D
          /\ \A l \in Levels : /\ IsInjective(queues[l])
                               /\ \A p \in Pids : Contains(queues[l], p) <=> Waits(Kernel, p, l)
      BY <1>2 DEF Exact, D
    <3>2. \A p \in Pids \ {pid}, l \in Levels : Waits(u, p, l) <=> Waits(Kernel, p, l)
      BY <1>1, <1>2, <2>4, <2>5, <2>6, <3>1 DEF Waits, InTable
    <3>3. \A l \in Levels : ~Contains(queues[l], pid)
      BY <1>4, <3>1 DEF Waits, InTable
    <3>4. CurrentRuns(u, {}) /\ current # pid
      BY <1>1, <1>2, <1>4, <2>4, <2>5, <2>6, <3>1 DEF CurrentRuns, InTable
    <3> QED  BY <2>6, <3>1, <3>2, <3>3, <3>4 DEF Off, ExactBut
  <2>8. D \cup {pid} \in SUBSET Pids
    BY <1>2, <1>4
  <2>9. e \in KState(D \cup {pid}) /\ e.pcbs = P /\ Exact(e, {})
    <3>1. Runnable(u.pcbs[pid].state) /\ u.pcbs[pid].eff = new.eff
      BY <2>1, <2>5, <2>6 DEF Runnable
    <3>2. LET f == Enqueue(u, pid, u.pcbs[pid].eff)
          IN  f \in KState(D \cup {pid}) /\ f.pcbs = u.pcbs /\ f.current = u.current /\ Exact(f, {})
      BY <2>6, <2>7, <2>8, <3>1, EnqueueOn
    <3> QED  BY <2>6, <3>1, <3>2
  <2> HIDE DEF e
  <2>10. Kernel' = e
    BY <1>6, <2>9, BecomesKernel
  <2>11. Family(e, registered')
    <3>1. \A p \in D : IsInjective(pcbs[p].children)
      BY <1>2, <1>3 DEF Family, D
    <3>2. \A p \in D : \A c \in Pids : Contains(pcbs[p].children, c) => c \in D /\ pcbs[c].sup = p
      BY <1>2, <1>3 DEF Family, InTable, D
    <3>3. \A p \in D : p # BUTLER => /\ pcbs[p].sup \in D
                                     /\ ~Contains(pcbs[pcbs[p].sup].children, p) => p \notin registered
      BY <1>2, <1>3 DEF Family, InTable, D
    <3>4. ~Contains(list, pid)
      BY <1>1, <1>4, <2>2, <3>2
    <3>5. IsInjective(<< >>) /\ \A y : ~Contains(<< >>, y)
      BY DEF IsInjective, Contains
    <3>6. \A p \in D \cup {pid} : P[p].sup = IF p = pid THEN sup ELSE pcbs[p].sup
      BY <2>1, <2>4, <2>5
    <3>7. \A p \in D \cup {pid} :
            P[p].children = IF p = pid THEN << >> ELSE IF p = sup THEN Append(list, pid) ELSE pcbs[p].children
      BY <2>1, <2>4, <2>5
    <3> SUFFICES ASSUME NEW p \in D \cup {pid}
                 PROVE  /\ IsInjective(P[p].children)
                        /\ \A c \in Pids : Contains(P[p].children, c) => c \in D \cup {pid} /\ P[c].sup = p
                        /\ p # BUTLER => /\ P[p].sup \in D \cup {pid}
                                         /\ ~Contains(P[P[p].sup].children, p) => p \notin registered'
      BY <2>5, <2>9 DEF Family, InTable
    <3>8. IsInjective(P[p].children)
      BY <1>1, <2>2, <2>3, <3>1, <3>4, <3>5, <3>7
    <3>9. ASSUME NEW c \in Pids, Contains(P[p].children, c) PROVE c \in D \cup {pid} /\ P[c].sup = p
      <4>1. CASE p = pid
        BY <3>5, <3>7, <3>9, <4>1
      <4>2. CASE p = sup
        BY <1>1, <1>4, <2>2, <2>3, <3>2, <3>6, <3>7, <3>9, <4>2
      <4>3. CASE p # pid /\ p # sup
        BY <1>4, <3>2, <3>6, <3>7, <3>9, <4>3
      <4> QED  BY <4>1, <4>2, <4>3
    <3>10. ASSUME p # BUTLER
          PROVE  /\ P[p].sup \in D \cup {pid}
                 /\ ~Contains(P[P[p].sup].children, p) => p \notin registered'
      <4>1. CASE p = pid
        BY <1>1, <1>4, <2>3, <3>6, <3>7, <4>1
      <4>2. CASE p # pid
        <5>1. p \in D /\ P[p].sup = pcbs[p].sup /\ pcbs[p].sup \in D
          BY <3>3, <3>6, <3>10, <4>2
        <5>2. Contains(pcbs[pcbs[p].sup].children, p) => Contains(P[pcbs[p].sup].children, p)
          BY <1>4, <2>2, <2>3, <3>7, <5>1
        <5> QED  BY <1>6, <3>3, <3>10, <4>2, <5>1, <5>2
      <4> QED  BY <4>1, <4>2
    <3> QED  BY <3>8, <3>9, <3>10
  <2>12. DOMAIN e.pcbs = D \cup {pid}
    BY <2>5, <2>9
  <2>13. next_pid' \in Nat /\ \A p \in D \cup {pid} : p < next_pid'
    <3>1. \A p \in D : p < next_pid + 1
      BY <1>2, <1>3, PidsPositive
    <3> QED  BY <1>1, <1>3, <3>1 DEF pid
  <2> QED  BY <1>1, <1>2, <1>3, <1>6, <2>8, <2>9, <2>10, <2>11, <2>12, <2>13 DEF Inv, Sound
<1>7. e = Enqueue([[Kernel EXCEPT !.pcbs = [p \in DOMAIN pcbs \cup {pid} |-> IF p = pid THEN new ELSE pcbs[p]]]
                     EXCEPT !.pcbs[sup].children = Append(@, pid)], pid, intent.base)
  <2>1. new.eff = intent.base
    BY DEF NewPcb
  <2> DEFINE Q == [p \in D \cup {pid} |-> IF p = pid THEN new ELSE pcbs[p]]
  <2>2. [Kernel EXCEPT !.pcbs = Q] = [pcbs |-> Q, queues |-> queues, current |-> current]
    BY DEF Kernel
  <2>3. [Q EXCEPT ![sup].children = Append(@, pid)] = P
    <3> HIDE DEF new, pid, D
    <3> QED  BY <1>1, <1>4
  <2> HIDE DEF Q, P, pid, D, new
  <2>4. [[pcbs |-> Q, queues |-> queues, current |-> current] EXCEPT !.pcbs[sup].children = Append(@, pid)] = u
    BY <2>3, SMTT(30)
  <2> QED  BY <2>1, <2>2, <2>4 DEF Q, D
<1> QED  BY <1>5, <1>6, <1>7 DEF Spawn

(* terminate: the process leaves the queues, the list and the bus. *)
LEMMA TerminateInv ==
  ASSUME Inv, NEW pid \in Pids, Terminate(pid)
  PROVE  Inv'
<1> DEFINE D == DOMAIN pcbs
           k == Stop(Kernel, pid)
           sup == pcbs[pid].sup
<1>1. /\ pid \in D /\ registered' = registered \ {pid} /\ next_pid' = next_pid /\ uptime' = uptime
      /\ Becomes(IF InTable(k, sup) THEN [k EXCEPT !.pcbs[sup].children = Without(@, pid)] ELSE k)
  BY DEF Terminate
<1>2. /\ Kernel.pcbs = pcbs /\ D \in SUBSET Pids /\ Kernel \in Settled(D, Kernel, {}) /\ uptime \in Nat
      /\ Kernel \in KState(D) /\ \A p \in D : pcbs[p] \in Pcb
  BY InvFacts
<1>3. /\ next_pid \in Nat /\ (\A p \in D : p < next_pid) /\ registered \subseteq D
      /\ Family(Kernel, registered)
  BY <1>2 DEF Inv, Sound
<1> HIDE DEF D
<1>4. k \in Settled(D, Kernel, {})
  BY <1>1, <1>2, StopSettled
<1> HIDE DEF k
<1>5. /\ k \in KState(D) /\ Exact(k, {}) /\ DOMAIN k.pcbs = D
      /\ \A p \in D : k.pcbs[p].sup = pcbs[p].sup /\ k.pcbs[p].children = pcbs[p].children
  BY <1>2, <1>4 DEF Settled, SameTree, KState
<1>6. \A p \in D : IsInjective(pcbs[p].children)
  BY <1>2, <1>3 DEF Family, D
<1>7. \A p \in D : \A c \in Pids : Contains(pcbs[p].children, c) => c \in D /\ pcbs[c].sup = p
  BY <1>2, <1>3 DEF Family, InTable, D
<1>8. \A p \in D : p # BUTLER => /\ pcbs[p].sup \in D
                                 /\ ~Contains(pcbs[pcbs[p].sup].children, p) => p \notin registered
  BY <1>2, <1>3 DEF Family, InTable, D
<1>9. \A m : /\ m \in KState(D) /\ Exact(m, {}) /\ Becomes(m)
             /\ \A p \in D : m.pcbs[p].sup = pcbs[p].sup
             /\ \A p \in D : IsInjective(m.pcbs[p].children)
             /\ \A p \in D, c \in Pids : Contains(m.pcbs[p].children, c) => Contains(pcbs[p].children, c)
             /\ \A p \in D, c \in Pids : Contains(pcbs[p].children, c) /\ c # pid
                                        => Contains(m.pcbs[p].children, c)
             => Inv'
  <2> SUFFICES ASSUME NEW m, m \in KState(D), Exact(m, {}), Becomes(m),
                      \A p \in D : m.pcbs[p].sup = pcbs[p].sup,
                      \A p \in D : IsInjective(m.pcbs[p].children),
                      \A p \in D, c \in Pids : Contains(m.pcbs[p].children, c) => Contains(pcbs[p].children, c),
                      \A p \in D, c \in Pids : Contains(pcbs[p].children, c) /\ c # pid
                                             => Contains(m.pcbs[p].children, c)
               PROVE  Inv'
    OBVIOUS
  <2>1. Kernel' = m
    BY BecomesKernel
  <2>2. DOMAIN m.pcbs = D
    BY DEF KState
  <2>3. Family(m, registered')
    <3> SUFFICES ASSUME NEW p \in D
                 PROVE  /\ \A c \in Pids : Contains(m.pcbs[p].children, c) => c \in D /\ m.pcbs[c].sup = p
                        /\ p # BUTLER => /\ m.pcbs[p].sup \in D
                                         /\ ~Contains(m.pcbs[m.pcbs[p].sup].children, p) => p \notin registered'
      BY <2>2 DEF Family, InTable
    <3>1. p \in Pids
      BY <1>2
    <3>2. ASSUME NEW c \in Pids, Contains(m.pcbs[p].children, c) PROVE c \in D /\ m.pcbs[c].sup = p
      BY <1>7, <3>2
    <3>3. ASSUME p # BUTLER
          PROVE  /\ m.pcbs[p].sup \in D
                 /\ ~Contains(m.pcbs[m.pcbs[p].sup].children, p) => p \notin registered'
      <4>1. m.pcbs[p].sup = pcbs[p].sup /\ pcbs[p].sup \in D
        BY <1>8, <3>3
      <4>2. CASE p = pid
        BY <1>1, <4>1, <4>2
      <4>3. CASE p # pid
        BY <1>1, <1>8, <3>1, <3>3, <4>1, <4>3
      <4> QED  BY <4>2, <4>3
    <3> QED  BY <3>2, <3>3
  <2>4. registered' \subseteq D
    BY <1>1, <1>3
  <2> QED  BY <1>1, <1>2, <1>3, <2>1, <2>2, <2>3, <2>4 DEF Inv, Sound
<1>10. CASE sup \notin D
  <2>1. Becomes(k)
    BY <1>1, <1>5, <1>10 DEF InTable
  <2> QED  BY <1>5, <1>6, <1>9, <2>1
<1>11. CASE sup \in D
  <2> DEFINE list == Without(k.pcbs[sup].children, pid)
             b == [k.pcbs[sup] EXCEPT !.children = list]
             m == Put(k, sup, b)
  <2>1. k.pcbs[sup] \in Pcb
    BY <1>5, <1>11 DEF KState
  <2>2. PICK s \in Seq(Pids) : s = k.pcbs[sup].children
    BY <2>1 DEF Pcb
  <2>3. /\ list \in Seq(Pids)
        /\ IsInjective(s) => IsInjective(list)
        /\ \A y : Contains(list, y) <=> Contains(s, y) /\ y \in Pids \ {pid}
    <3>1. Seq(Pids \cap (Pids \ {pid})) \subseteq Seq(Pids)
      OBVIOUS
    <3>2. /\ Keep(s, Pids \ {pid}) \in Seq(Pids \cap (Pids \ {pid}))
          /\ IsInjective(s) => IsInjective(Keep(s, Pids \ {pid}))
          /\ \A y : Contains(Keep(s, Pids \ {pid}), y) <=> Contains(s, y) /\ y \in Pids \ {pid}
      BY KeepContains
    <3>3. list = Keep(s, Pids \ {pid})
      BY <2>2 DEF Without
    <3> HIDE DEF list
    <3> QED  BY <3>1, <3>2, <3>3
  <2>4. Becomes(m)
    <3>1. [k EXCEPT !.pcbs[sup].children = Without(@, pid)] = m
      BY <1>5, <1>11, <2>1 DEF Put, KState
    <3> QED  BY <1>1, <1>5, <1>11, <3>1 DEF InTable
  <2> HIDE DEF list
  <2>5. /\ b \in Pcb /\ b.state = k.pcbs[sup].state /\ b.eff = k.pcbs[sup].eff
        /\ b.sup = k.pcbs[sup].sup /\ b.children = list
    <3>1. PICK c \in Pcb : c = k.pcbs[sup]
      BY <2>1
    <3>2. [c EXCEPT !.children = list] \in Pcb
      BY <2>3 DEF Pcb
    <3> QED  BY <3>1, <3>2 DEF Pcb
  <2> HIDE DEF b, sup
  <2>6. /\ m \in KState(D) /\ Exact(m, {}) /\ m.pcbs[sup] = b /\ \A p \in D \ {sup} : m.pcbs[p] = k.pcbs[p]
    BY <1>2, <1>5, <1>11, <2>5, PutFacts, PutExact
  <2> HIDE DEF m
  <2>7. \A p \in D : m.pcbs[p].sup = pcbs[p].sup
    BY <1>5, <2>5, <2>6
  <2>8. m.pcbs[sup].children = list /\ s = pcbs[sup].children
    BY <1>5, <1>11, <2>2, <2>5, <2>6
  <2>9. \A p \in D \ {sup} : m.pcbs[p].children = pcbs[p].children
    BY <1>5, <2>6
  <2>10. \A p \in D : IsInjective(m.pcbs[p].children)
    BY <1>6, <1>11, <2>3, <2>8, <2>9
  <2>11. /\ \A p \in D, c \in Pids : Contains(m.pcbs[p].children, c) => Contains(pcbs[p].children, c)
         /\ \A p \in D, c \in Pids : Contains(pcbs[p].children, c) /\ c # pid
                                    => Contains(m.pcbs[p].children, c)
    BY <2>3, <2>8, <2>9
  <2> QED  BY <1>9, <2>4, <2>6, <2>7, <2>10, <2>11
<1> QED  BY <1>10, <1>11

(* block, with the boost of those waited for. *)
LEMMA BlockInv ==
  ASSUME Inv, NEW pid \in Pids, NEW waiting_on \in DOMAIN pcbs \cup {None}, Block(pid, waiting_on)
  PROVE  Inv'
<1> DEFINE D == DOMAIN pcbs
           b == [pcbs[pid] EXCEPT !.state = "Blocked", !.blocked_on = waiting_on]
           u == Put(Kernel, pid, b)
           m == Dequeue(u, pid)
<1>1. /\ Kernel.pcbs = pcbs /\ D \in SUBSET Pids /\ Kernel \in KState(D) /\ Exact(Kernel, {})
      /\ uptime \in Nat /\ SameTree(Kernel, Kernel, D) /\ \A p \in D : pcbs[p] \in Pcb
  BY InvFacts DEF SameTree
<1>2. pid \in D /\ UNCHANGED <<next_pid, uptime, registered>> /\ waiting_on \in Pids \cup {None}
  BY <1>1 DEF Block
<1>3. Becomes(Inherit(m, waiting_on, pcbs[pid].eff))
  <2>1. [Kernel EXCEPT !.pcbs[pid].state = "Blocked", !.pcbs[pid].blocked_on = waiting_on] = u
    BY <1>1, <1>2 DEF Kernel, Put, Pcb
  <2> QED  BY <2>1 DEF Block
<1>4. /\ b \in Pcb /\ b.state = "Blocked" /\ b.sup = pcbs[pid].sup /\ b.children = pcbs[pid].children
  <2>1. PICK c \in Pcb : c = pcbs[pid]
    BY <1>1, <1>2
  <2>2. [c EXCEPT !.state = "Blocked", !.blocked_on = waiting_on] \in Pcb
    BY <1>2 DEF Pcb, States
  <2> QED  BY <2>1, <2>2 DEF Pcb
<1> HIDE DEF b, D
<1>5. u \in KState(D) /\ ExactBut(u, pid, {}) /\ u.pcbs[pid] = b /\ SameTree(u, Kernel, D)
  BY <1>1, <1>2, <1>4, PutFacts, PutExactBut, PutTree
<1> HIDE DEF u
<1>6. m \in KState(D) /\ m.pcbs = u.pcbs /\ Off(m, pid, {})
  BY <1>1, <1>2, <1>5, DequeueOff
<1> HIDE DEF m
<1>7. Exact(m, {})
  BY <1>1, <1>2, <1>4, <1>5, <1>6, OffIdle DEF Runnable
<1>8. m \in Settled(D, Kernel, {})
  BY <1>5, <1>6, <1>7 DEF Settled, SameTree
<1>9. pcbs[pid].eff \in Levels
  BY <1>1, <1>2 DEF Pcb
<1>10. Inherit(m, waiting_on, pcbs[pid].eff) \in Settled(D, Kernel, {})
  BY <1>1, <1>2, <1>8, <1>9, InheritSettled
<1> QED  BY <1>1, <1>2, <1>3, <1>10, SettledStep DEF D

(* The boost at a wake-up stays within the levels. *)
LEMMA IntentBoostLevel ==
  ASSUME NEW b \in Pcb
  PROVE  IntentBoost(b) \in Levels
<1>1. PICK e \in Levels : e = b.eff
  BY DEF Pcb
<1>2. PICK c \in Levels : c = IF b.cat = "Compute" /\ b.base = 0 /\ b.eff > 1 THEN 1 ELSE b.eff
  BY <1>1, LevelId
<1>3. c + 1 \in Nat
  BY LevelId DEF Levels
<1>4. Level(c + 1) \in Levels
  BY <1>3, LevelId
<1> QED  BY <1>2, <1>4, LevelId DEF IntentBoost

(* unblock, with the end of the boost of the process waited for. *)
LEMMA UnblockInv ==
  ASSUME Inv, NEW pid \in Pids, Unblock(pid)
  PROVE  Inv'
<1> DEFINE D == DOMAIN pcbs
           eff == IntentBoost(pcbs[pid])
           b == [pcbs[pid] EXCEPT !.state = "Ready", !.eff = eff, !.blocked_on = None]
           u == Put(Kernel, pid, b)
           m == Enqueue(u, pid, eff)
           target == pcbs[pid].blocked_on
<1>1. /\ Kernel.pcbs = pcbs /\ D \in SUBSET Pids /\ Kernel \in KState(D) /\ Exact(Kernel, {})
      /\ uptime \in Nat /\ SameTree(Kernel, Kernel, D) /\ \A p \in D : pcbs[p] \in Pcb
  BY InvFacts DEF SameTree
<1>2. pid \in D /\ pcbs[pid].state = "Blocked" /\ UNCHANGED <<next_pid, uptime, registered>>
  BY DEF Unblock
<1>3. Becomes(Revert(m, target))
  <2>1. [Kernel EXCEPT !.pcbs[pid] = [@ EXCEPT !.state = "Ready", !.eff = eff, !.blocked_on = None]] = u
    BY <1>1 DEF Put
  <2> QED  BY <2>1 DEF Unblock
<1>4. eff \in Levels
  BY <1>1, <1>2, IntentBoostLevel
<1> HIDE DEF eff
<1>5. /\ b \in Pcb /\ b.state = "Ready" /\ b.eff = eff
      /\ b.sup = pcbs[pid].sup /\ b.children = pcbs[pid].children
  <2>1. PICK c \in Pcb : c = pcbs[pid]
    BY <1>1, <1>2
  <2>2. [c EXCEPT !.state = "Ready", !.eff = eff, !.blocked_on = None] \in Pcb
    BY <1>4 DEF Pcb, States
  <2> QED  BY <2>1, <2>2 DEF Pcb
<1> HIDE DEF b, D
<1>6. Off(Kernel, pid, {})
  BY <1>1, <1>2, OffIdle DEF Runnable
<1>7. u \in KState(D) /\ Off(u, pid, {}) /\ u.pcbs[pid] = b /\ SameTree(u, Kernel, D)
  BY <1>1, <1>2, <1>5, <1>6, PutFacts, PutExactBut, PutTree
<1> HIDE DEF u
<1>8. m \in KState(D) /\ m.pcbs = u.pcbs /\ Exact(m, {})
  <2>1. LET e == Enqueue(u, pid, u.pcbs[pid].eff)
        IN  e \in KState(D) /\ e.pcbs = u.pcbs /\ e.current = u.current /\ Exact(e, {})
    BY <1>1, <1>2, <1>5, <1>7, EnqueueOn DEF Runnable
  <2> QED  BY <1>5, <1>7, <2>1
<1> HIDE DEF m
<1>9. m \in Settled(D, Kernel, {}) /\ DOMAIN m.pcbs = D
  BY <1>7, <1>8 DEF Settled, SameTree, KState
<1>10. Revert(m, target) \in Settled(D, Kernel, {})
  <2> HIDE DEF target
  <2>1. CASE target \in D
    <3>1. m.pcbs[target].base \in Levels
      BY <1>8, <2>1 DEF KState, Pcb
    <3>2. Reprioritise(m, target, m.pcbs[target].base) \in Settled(D, Kernel, {})
      BY <1>1, <1>9, <2>1, <3>1, ReprioritiseSettled
    <3> QED  BY <1>9, <3>2 DEF Revert
  <2>2. CASE target \notin D
    BY <1>9, <2>2 DEF Revert, InTable
  <2> QED  BY <2>1, <2>2
<1> QED  BY <1>1, <1>2, <1>3, <1>10, SettledStep DEF D

(* The other operations. *)
LEMMA CrashInv ==
  ASSUME Inv, NEW pid \in Pids, Crash(pid)
  PROVE  Inv'
<1>1. DOMAIN pcbs \in SUBSET Pids /\ Kernel \in Settled(DOMAIN pcbs, Kernel, {}) /\ uptime \in Nat
  BY InvFacts
<1>2. pid \in DOMAIN pcbs /\ Becomes(HandleChildCrash(Stop(Kernel, pid), pid))
      /\ UNCHANGED <<next_pid, uptime, registered>>
  BY DEF Crash
<1>3. Stop(Kernel, pid) \in Settled(DOMAIN pcbs, Kernel, {})
  BY <1>1, <1>2, StopSettled
<1>4. HandleChildCrash(Stop(Kernel, pid), pid) \in Settled(DOMAIN pcbs, Kernel, {})
  BY <1>1, <1>2, <1>3, HandleChildCrashSettled
<1> QED  BY <1>1, <1>2, <1>4, SettledStep

(* The steps of the scheduler. *)
LEMMA LoopInv ==
  ASSUME Inv, LoopNext
  PROVE  Inv'
<1>1. DOMAIN pcbs \in SUBSET Pids /\ Kernel \in Settled(DOMAIN pcbs, Kernel, {}) /\ uptime \in Nat
  BY InvFacts
<1>2. CASE Schedule
  <2>1. ScheduleNext(Kernel) \in Settled(DOMAIN pcbs, Kernel, {})
    BY <1>1, ScheduleNextSettled
  <2> QED  BY <1>1, <1>2, <2>1, SettledStep DEF Schedule
<1>3. CASE RunAging
  <2>1. Age(Kernel) \in Settled(DOMAIN pcbs, Kernel, {})
    BY <1>1, AgeSettled
  <2> QED  BY <1>1, <1>3, <2>1, SettledStep DEF RunAging
<1>4. CASE Tick
  <2>1. Ticked(Kernel) \in Settled(DOMAIN pcbs, Kernel, {})
    BY <1>1, TickedSettled
  <2>2. uptime' \in Nat
    BY <1>1, <1>4, TimesAssumption DEF Tick, Older
  <2> QED  BY <1>1, <1>4, <2>1, <2>2, SettledStep DEF Tick
<1>5. CASE ConsumeTick
  <2>1. Consumed(Kernel) \in Settled(DOMAIN pcbs, Kernel, {})
    BY <1>1, ConsumedSettled
  <2> QED  BY <1>1, <1>5, <2>1, SettledStep DEF ConsumeTick
<1> QED  BY <1>2, <1>3, <1>4, <1>5 DEF LoopNext

(* Every step keeps the invariant. *)
LEMMA NextInv == Inv /\ [Next]_vars => Inv'
<1> SUFFICES ASSUME Inv, [Next]_vars PROVE Inv'
  OBVIOUS
<1>1. CASE SpawnAny
  BY <1>1, SpawnInv, IntentsAssumption, StrategiesAssumption DEF SpawnAny
<1>2. CASE \E p \in Pids : Terminate(p) \/ Crash(p)
  BY <1>2, TerminateInv, CrashInv
<1>3. CASE \E p \in Pids, q \in DOMAIN pcbs \cup {None} : Block(p, q)
  BY <1>3, BlockInv
<1>4. CASE \E p \in Pids : Unblock(p)
  BY <1>4, UnblockInv
<1>5. CASE LoopNext
  BY <1>5, LoopInv
<1>6. CASE UNCHANGED vars
  BY <1>6 DEF vars, Inv, Kernel
<1> QED  BY <1>1, <1>2, <1>3, <1>4, <1>5, <1>6 DEF Next, TreeNext, WaitNext

(* What the invariant says of the variables. *)
LEMMA InvTableExact == Inv => TableExact
<1> SUFFICES ASSUME Inv PROVE TableExact
  OBVIOUS
<1> DEFINE D == DOMAIN pcbs
<1>1. /\ Kernel.pcbs = pcbs /\ Kernel.queues = queues /\ Kernel.current = current
      /\ D \in SUBSET Pids /\ Kernel \in KState(D) /\ Exact(Kernel, {}) /\ Family(Kernel, registered)
      /\ \A p \in D : pcbs[p] \in Pcb
  BY InvFacts DEF Inv, Sound
<1>2. \A l \in Levels : queues[l] \in Seq(Pids) /\ IsInjective(queues[l])
  BY <1>1 DEF KState, Exact
<1>3. \A l \in Levels, p \in D :
        Contains(queues[l], p) <=> Runnable(pcbs[p].state) /\ p # current /\ pcbs[p].eff = l
  BY <1>1 DEF Exact, Waits, InTable
<1>4. current # 0 => pcbs[current].state = "Running"
  BY <1>1 DEF Exact, CurrentRuns
<1>5. \A at \in Levels \X (1 .. MaxPids) : at[1] \in Levels /\ at[2] \in 1 .. MaxPids /\ at = <<at[1], at[2]>>
  OBVIOUS
<1>6. ASSUME NEW p \in D, Runnable(pcbs[p].state) /\ p # current
      PROVE  \E i \in 1 .. MaxPids : Places(p) = {<<Level(pcbs[p].eff), i>>}
  <2>1. PICK m \in Levels : m = pcbs[p].eff /\ Level(pcbs[p].eff) = m
    BY <1>1, LevelId DEF Pcb
  <2>2. PICK i \in 1 .. Len(queues[m]) : queues[m][i] = p
    BY <1>3, <1>6, <2>1 DEF Contains
  <2>3. Len(queues[m]) <= MaxPids /\ Len(queues[m]) \in Nat
    BY <1>2, ListFits
  <2>4. i \in 1 .. MaxPids
    BY <2>3, BoundsAssumption
  <2>5. <<m, i>> \in Places(p)
    BY <2>2, <2>3, <2>4 DEF Places
  <2>6. ASSUME NEW at \in Places(p) PROVE at = <<m, i>>
    <3>1. /\ at \in Levels \X (1 .. MaxPids) /\ at[2] <= Len(queues[at[1]]) /\ queues[at[1]][at[2]] = p
      BY DEF Places
    <3>2. PICK l \in Levels, h \in 1 .. MaxPids : at = <<l, h>>
      BY <3>1
    <3>3. h <= Len(queues[l]) /\ queues[l][h] = p
      BY <3>1, <3>2
    <3>4. h \in 1 .. Len(queues[l])
      BY <1>2, <3>3, BoundsAssumption
    <3>5. l = m
      BY <1>3, <2>1, <3>3, <3>4 DEF Contains
    <3>6. h = i
      <4>1. h \in DOMAIN queues[m] /\ i \in DOMAIN queues[m]
        BY <1>2, <3>4, <3>5
      <4> QED  BY <1>2, <2>2, <3>3, <3>5, <4>1 DEF IsInjective
    <3> QED  BY <3>2, <3>5, <3>6
  <2> QED  BY <2>1, <2>4, <2>5, <2>6
<1>7. ASSUME NEW p \in D, ~(Runnable(pcbs[p].state) /\ p # current)
      PROVE  Places(p) = {}
  <2> SUFFICES ASSUME NEW at \in Places(p) PROVE FALSE
    OBVIOUS
  <2>1. /\ at \in Levels \X (1 .. MaxPids) /\ at[2] <= Len(queues[at[1]]) /\ queues[at[1]][at[2]] = p
    BY DEF Places
  <2>2. PICK l \in Levels, h \in 1 .. MaxPids : at = <<l, h>>
    BY <2>1
  <2>3. h <= Len(queues[l]) /\ queues[l][h] = p
    BY <2>1, <2>2
  <2>4. h \in 1 .. Len(queues[l])
    BY <1>2, <2>3, BoundsAssumption
  <2> QED  BY <1>3, <1>7, <2>3, <2>4 DEF Contains
<1>8. QueuesExact
  BY <1>4, <1>6, <1>7 DEF QueuesExact
<1>9. FamilyExact
  <2> SUFFICES ASSUME NEW p \in D
               PROVE  /\ IsInjective(pcbs[p].children)
                      /\ \A c \in Range(pcbs[p].children) : c \in DOMAIN pcbs /\ pcbs[c].sup = p
                      /\ p # BUTLER /\ ~Contains(pcbs[pcbs[p].sup].children, p) => p \notin registered
    BY DEF FamilyExact
  <2>1. IsInjective(pcbs[p].children)
    BY <1>1 DEF Family
  <2>2. \A c \in Pids : Contains(pcbs[p].children, c) => c \in D /\ pcbs[c].sup = p
    BY <1>1 DEF Family, InTable
  <2>3. p # BUTLER /\ ~Contains(pcbs[pcbs[p].sup].children, p) => p \notin registered
    BY <1>1 DEF Family
  <2>4. ASSUME NEW c \in Range(pcbs[p].children) PROVE c \in D /\ pcbs[c].sup = p
    <3>1. PICK s \in Seq(Pids) : s = pcbs[p].children
      BY <1>1 DEF Pcb
    <3>2. PICK i \in 1 .. Len(s) : c = s[i]
      BY <3>1 DEF Range
    <3>3. c \in Pids /\ Contains(s, c)
      BY <3>2 DEF Contains
    <3> QED  BY <2>2, <3>1, <3>3
  <2> QED  BY <2>1, <2>2, <2>3, <2>4
<1> QED  BY <1>8, <1>9 DEF TableExact

(* TableExact: after every sequence of spawns, terminations, crashes,      *)
(* waits, wake-ups, ticks, aging and scheduling, each runnable process is  *)
(* in exactly one place of one run queue, that of its priority, nothing    *)
(* else is queued, and supervision lists, table and bus agree.             *)
THEOREM TableExactEver == Spec => []TableExact
<1>1. Init => Inv
  BY InitInv
<1>2. Inv /\ [Next]_vars => Inv'
  BY NextInv
<1>3. Inv => TableExact
  BY InvTableExact
<1> QED  BY <1>1, <1>2, <1>3, PTL DEF Spec

-----------------------------------------------------------------------------
(* Preemption *)

(* What a step of the kernel keeps for the frames: no process leaves the   *)
(* table or comes back to life, and the current process is only given up   *)
(* by its end.                                                             *)
Carries(k, m) ==
  /\ \A p \in Pids : InTable(k, p) => InTable(m, p) /\ (Ended(k, p) => Ended(m, p))
  /\ m.current # k.current => m.current = 0 /\ Ended(m, k.current)

(* The frame that runs, over kernel state k. *)
CpuRight(k, frame) ==
  /\ frame \in Pids \cup {IDLE, DEAD}
  /\ k.current # 0 => frame = k.current
  /\ frame \in Pids => InTable(k, frame) /\ (frame # k.current => Ended(k, frame))

(* A frame that is out of date belongs to the process that runs or to one  *)
(* that has ended.                                                         *)
FramesRight(k, frame, frames) ==
  /\ frames \in [Pids -> {"none", "saved", "live"}]
  /\ \A p \in Pids : frames[p] = "live" => InTable(k, p) /\ (frame = p \/ Ended(k, p))

(* Besides the boot context, something runs only while the idle frame is   *)
(* kept.                                                                   *)
IdleRight(frame, rsp) == rsp \in {NOFRAME, IDLE} /\ (frame # IDLE => rsp = IDLE)

PInv ==
  /\ Inv
  /\ CpuRight(Kernel, cpu)
  /\ FramesRight(Kernel, cpu, stack)
  /\ IdleRight(cpu, idle_rsp)

(* A process taken off the queues may be counted among those put aside, ... *)
LEMMA OffAside ==
  ASSUME NEW D \in SUBSET Pids, NEW X, NEW k \in KState(D), NEW x \in D, Off(k, x, X)
  PROVE  Exact(k, X \cup {x})
<1>1. CurrentRuns(k, X \cup {x})
  BY DEF Off, ExactBut, CurrentRuns
<1> QED  BY <1>1 DEF Off, ExactBut, Exact

(* ... and one put aside is off them. *)
LEMMA AsideOff ==
  ASSUME NEW D \in SUBSET Pids, NEW X, NEW k \in KState(D), NEW x \in D, Exact(k, X \cup {x}), x \notin X
  PROVE  Off(k, x, X)
<1>1. x # 0 /\ x \in Pids
  BY PidsPositive
<1>2. CurrentRuns(k, X) /\ k.current # x
  BY <1>1 DEF Exact, CurrentRuns
<1> QED  BY <1>1, <1>2 DEF Off, ExactBut, Exact

(* Enqueueing, whatever the state of the process. *)
LEMMA EnqueueType ==
  ASSUME NEW D \in SUBSET Pids, NEW k \in KState(D), NEW x \in Pids, NEW prio \in Levels
  PROVE  Enqueue(k, x, prio) \in KState(D)
<1>1. Level(prio) \in Levels
  BY LevelId
<1>2. PICK l \in Levels : l = Level(prio)
  BY <1>1
<1>3. k.queues[l] \in Seq(Pids)
  BY DEF KState
<1>4. Append(k.queues[l], x) \in Seq(Pids)
  BY <1>3
<1>5. [k EXCEPT !.queues[l] = Append(@, x)] \in KState(D)
  BY <1>4 DEF KState
<1> QED  BY <1>2, <1>5 DEF Enqueue

(* A list of processes put aside, each with its priority. *)
Skips(D) == Seq([pid: D, prio: Levels])
Later(s, i) == {s[h].pid : h \in i + 1 .. Len(s)}
Apart(s) == \A g, h \in 1 .. Len(s) : s[g].pid = s[h].pid => g = h
(* They are ready, at that priority. *)
Skippable(k, s) ==
  \A h \in 1 .. Len(s) : k.pcbs[s[h].pid].state = "Ready" /\ k.pcbs[s[h].pid].eff = s[h].prio

(* The members of such a list. *)
LEMMA SkipsFacts ==
  ASSUME NEW D, NEW s \in Skips(D)
  PROVE  Len(s) \in Nat /\ \A i \in 1 .. Len(s) : s[i].pid \in D /\ s[i].prio \in Levels
<1>1. PICK R : R = [pid: D, prio: Levels]
  OBVIOUS
<1>2. s \in Seq(R)
  BY <1>1 DEF Skips
<1>3. Len(s) \in Nat /\ \A i \in 1 .. Len(s) : s[i] \in R
  BY <1>2
<1> QED  BY <1>1, <1>3

(* The loop that gives them back. *)
LEMMA EnqueueSkippedSettled ==
  ASSUME NEW D \in SUBSET Pids, NEW j, NEW s \in Skips(D), NEW k \in Settled(D, j, Later(s, 0)),
         Apart(s), Skippable(k, s)
  PROVE  LET m == EnqueueSkipped(k, s)
         IN  m \in Settled(D, j, {}) /\ m.pcbs = k.pcbs /\ m.current = k.current
<1> DEFINE n == Len(s)
           A == KState(D)
           F == [p \in A \X (1 .. n) |-> Enqueue(p[1], s[p[2]].pid, s[p[2]].prio)]
           IsLoop(f) == f = [i \in 0 .. n |-> IF i = 0 THEN k ELSE Enqueue(f[i - 1], s[i].pid, s[i].prio)]
           Back(m, i) == m \in Settled(D, j, Later(s, i)) /\ m.pcbs = k.pcbs /\ m.current = k.current
<1>1. n \in Nat /\ k \in A /\ \A i \in 1 .. n : s[i].pid \in D /\ s[i].prio \in Levels
  <2>1. k \in A
    BY DEF Settled
  <2> QED  BY <2>1, SkipsFacts
<1> HIDE DEF n, A
<1>2. F \in [A \X (1 .. n) -> A]
  <2>1. ASSUME NEW m \in A, NEW i \in 1 .. n PROVE Enqueue(m, s[i].pid, s[i].prio) \in A
    <3>1. s[i].pid \in Pids /\ s[i].prio \in Levels
      BY <1>1
    <3> QED  BY <3>1, EnqueueType DEF A
  <2> QED  BY <2>1
<1>3. \E f : IsLoop(f)
  <2> HIDE DEF F, IsLoop
  <2>1. PICK f : IsRun(f, n, A, k, F)
    BY <1>1, <1>2, FiniteRun
  <2>2. ASSUME NEW i \in 1 .. n PROVE f[i] = Enqueue(f[i - 1], s[i].pid, s[i].prio)
    <3>1. f[i - 1] \in A
      BY <1>1, <2>1 DEF IsRun
    <3>2. <<f[i - 1], i>> \in A \X (1 .. n)
      BY <3>1
    <3>3. F[<<f[i - 1], i>>] = Enqueue(f[i - 1], s[i].pid, s[i].prio)
      BY <3>2 DEF F
    <3> QED  BY <2>1, <3>3 DEF IsRun
  <2>3. f = [i \in 0 .. n |-> IF i = 0 THEN k ELSE Enqueue(f[i - 1], s[i].pid, s[i].prio)]
    BY <1>1, <2>1, <2>2 DEF IsRun
  <2> QED  BY <2>3 DEF IsLoop
<1>4. PICK f : IsLoop(f) /\ EnqueueSkipped(k, s) = f[n]
  <2>1. EnqueueSkipped(k, s) = (CHOOSE f : IsLoop(f))[n]
    BY DEF EnqueueSkipped, n
  <2> HIDE DEF IsLoop
  <2> QED  BY <1>3, <2>1
<1>5. f[0] = k /\ \A i \in 1 .. n : f[i] = Enqueue(f[i - 1], s[i].pid, s[i].prio)
  <2>1. 0 \in 0 .. n /\ \A i \in 1 .. n : i \in 0 .. n /\ i # 0
    BY <1>1
  <2> QED  BY <1>4, <2>1
<1> HIDE DEF IsLoop
<1>6. Back(f[0], 0)
  BY <1>5
<1>7. ASSUME NEW i \in 1 .. n, Back(f[i - 1], i - 1) PROVE Back(f[i], i)
  <2> DEFINE x == s[i].pid
             X == Later(s, i)
             m == f[i - 1]
  <2>1. Later(s, i - 1) = X \cup {x} /\ x \notin X
    <3>1. \A h : h \in (i - 1) + 1 .. Len(s) <=> h \in i + 1 .. Len(s) \/ h = i
      BY <1>1 DEF n
    <3>2. \A h \in i + 1 .. Len(s) : h \in 1 .. Len(s) /\ h # i
      BY <1>1 DEF n
    <3>3. i \in 1 .. Len(s)
      BY DEF n
    <3> QED  BY <3>1, <3>2, <3>3 DEF Later, Apart
  <2>2. /\ m \in KState(D) /\ Exact(m, X \cup {x}) /\ SameTree(m, j, D)
        /\ m.pcbs = k.pcbs /\ m.current = k.current
    BY <1>7, <2>1 DEF Settled
  <2>3. x \in D /\ m.pcbs[x].state = "Ready" /\ m.pcbs[x].eff = s[i].prio
    BY <1>1, <2>2 DEF Skippable, n
  <2>4. f[i] = Enqueue(m, x, m.pcbs[x].eff)
    BY <1>5, <2>3
  <2> HIDE DEF m, x, X
  <2>5. Off(m, x, X)
    BY <2>1, <2>2, <2>3, AsideOff
  <2>6. LET e == Enqueue(m, x, m.pcbs[x].eff)
        IN  e \in KState(D) /\ e.pcbs = m.pcbs /\ e.current = m.current /\ Exact(e, X)
    BY <2>1, <2>2, <2>3, <2>5, EnqueueOn DEF Runnable
  <2>7. f[i] \in KState(D) /\ f[i].pcbs = m.pcbs /\ f[i].current = m.current /\ Exact(f[i], X)
    BY <2>4, <2>6
  <2> QED  BY <2>2, <2>7 DEF Settled, SameTree, X
<1>8. Back(f[n], n)
  <2> DEFINE T == {i \in 0 .. n : Back(f[i], i)}
  <2> HIDE DEF Back
  <2>1. 0 \in T /\ \A i \in 1 .. n : i - 1 \in T => i \in T
    BY <1>1, <1>6, <1>7
  <2>2. \A i \in 0 .. n : i \in T
    <3> HIDE DEF T
    <3> QED  BY <1>1, <2>1, CountUp
  <2> QED  BY <1>1, <2>2
<1>9. Later(s, n) = {}
  BY <1>1 DEF Later, n
<1> QED  BY <1>4, <1>8, <1>9

(* No process comes back to life. *)
EndsStay(k, m, D) == \A p \in D : Ended(k, p) => Ended(m, p)

(* The loop of try_switch_next from kernel state k: some processes are     *)
(* aside, the rest is settled.                                             *)
Tries(D, j, k) ==
  {acc \in [k: KState(D), stop: BOOLEAN, found: Pids \cup {0}, skipped: Skips(D)] :
     /\ acc.k \in Settled(D, j, Later(acc.skipped, 0)) /\ Apart(acc.skipped)
     /\ Skippable(acc.k, acc.skipped) /\ EndsStay(k, acc.k, D)
     /\ acc.found = IF acc.stop THEN acc.k.current ELSE 0}

(* One more process aside. *)
LEMMA LaterAppend ==
  ASSUME NEW D \in SUBSET Pids, NEW s \in Skips(D), NEW x \in D, NEW prio \in Levels
  PROVE  LET t == Append(s, [pid |-> x, prio |-> prio])
         IN  /\ t \in Skips(D) /\ Later(t, 0) = Later(s, 0) \cup {x}
             /\ Apart(s) /\ x \notin Later(s, 0) => Apart(t)
             /\ \A k : /\ Skippable(k, s) /\ k.pcbs[x].state = "Ready" /\ k.pcbs[x].eff = prio
                       => Skippable(k, t)
<1> DEFINE r == [pid |-> x, prio |-> prio]
           t == Append(s, r)
<1>1. r \in [pid: D, prio: Levels] /\ r.pid = x /\ r.prio = prio
  OBVIOUS
<1> HIDE DEF r
<1>2. PICK n \in Nat : n = Len(s)
  BY DEF Skips
<1>3. t \in Skips(D) /\ Len(t) = n + 1 /\ t[n + 1] = r /\ \A h \in 1 .. n : t[h] = s[h]
  BY <1>1, <1>2 DEF Skips
<1> HIDE DEF t
<1>4. \A h : h \in 1 .. n + 1 <=> h \in 1 .. n \/ h = n + 1
  OBVIOUS
<1>5. Later(t, 0) = {t[h].pid : h \in 1 .. n + 1} /\ Later(s, 0) = {s[h].pid : h \in 1 .. n}
  BY <1>2, <1>3 DEF Later
<1>6. Later(t, 0) = Later(s, 0) \cup {x}
  BY <1>1, <1>3, <1>4, <1>5
<1>7. ASSUME Apart(s), x \notin Later(s, 0) PROVE Apart(t)
  <2> SUFFICES ASSUME NEW g \in 1 .. n + 1, NEW h \in 1 .. n + 1, t[g].pid = t[h].pid PROVE g = h
    BY <1>3 DEF Apart
  <2>1. \A i \in 1 .. n : t[i].pid # x
    BY <1>3, <1>5, <1>7
  <2> QED  BY <1>1, <1>2, <1>3, <1>4, <1>7, <2>1 DEF Apart
<1>8. ASSUME NEW k, Skippable(k, s), k.pcbs[x].state = "Ready", k.pcbs[x].eff = prio
      PROVE  Skippable(k, t)
  BY <1>1, <1>2, <1>3, <1>4, <1>8 DEF Skippable
<1> QED  BY <1>3, <1>6, <1>7, <1>8 DEF t, r

(* A round of the loop.  From the first on, found is the current process.  *)
LEMMA TryNextTries ==
  ASSUME NEW D \in SUBSET Pids, NEW j, NEW k, NEW acc \in Tries(D, j, k), NEW frames
  PROVE  LET t == TryNext(acc, frames) IN t \in Tries(D, j, k) /\ t.found = t.k.current
<1> DEFINE s == acc.skipped
           X == Later(s, 0)
           m == ScheduleNext(acc.k)
           x == m.current
<1>1. /\ acc \in [k: KState(D), stop: BOOLEAN, found: Pids \cup {0}, skipped: Skips(D)]
      /\ acc.k \in Settled(D, j, X) /\ Apart(s) /\ Skippable(acc.k, s) /\ EndsStay(k, acc.k, D)
      /\ acc.found = IF acc.stop THEN acc.k.current ELSE 0
  BY DEF Tries
<1>2. CASE acc.stop
  <2>1. TryNext(acc, frames) = acc
    BY <1>2 DEF TryNext
  <2> QED  BY <1>1, <1>2, <2>1
<1>3. CASE ~acc.stop
  <2>1. m \in Settled(D, j, X) /\ Leaves(m, acc.k, Resting(acc.k, X))
    BY <1>1, ScheduleNextSettled
  <2>2. TryNext(acc, frames) =
          IF x = 0 THEN [acc EXCEPT !.k = m, !.stop = TRUE]
          ELSE IF frames[x] # "none" THEN [acc EXCEPT !.k = m, !.stop = TRUE, !.found = x]
          ELSE [acc EXCEPT !.k = Dequeue([m EXCEPT !.pcbs[x].state = "Ready"], x),
                           !.skipped = Append(@, [pid |-> x, prio |-> m.pcbs[x].eff])]
    BY <1>3 DEF TryNext, SwitchToProcess
  <2> HIDE DEF m
  <2>3. /\ m \in KState(D) /\ Exact(m, X) /\ SameTree(m, j, D) /\ DOMAIN m.pcbs = D /\ DOMAIN acc.k.pcbs = D
        /\ x \in Pids \cup {0} /\ (x # 0 => x \in D /\ x \notin X)
    BY <1>1, <2>1 DEF Settled, KState, Exact, CurrentRuns, InTable
  <2>4. EndsStay(k, m, D)
    <3>1. \A p \in D : Ended(acc.k, p) => m.pcbs[p] = acc.k.pcbs[p]
      BY <2>1, <2>3 DEF Leaves, Resting, Ended, Runnable
    <3> QED  BY <1>1, <3>1 DEF EndsStay, Ended
  <2>5. PICK n \in Nat : n = Len(s) /\ \A h \in 1 .. n : s[h].pid \in D /\ s[h].pid \in X
    <3>1. s \in Skips(D)
      BY <1>1
    <3>2. PICK n \in Nat : n = Len(s) /\ \A h \in 1 .. n : s[h].pid \in D
      BY <3>1, SkipsFacts
    <3>3. \A h \in 1 .. n : s[h].pid \in X
      BY <3>2 DEF Later
    <3> QED  BY <3>2, <3>3
  <2>6. Skippable(m, s)
    <3>1. \A h \in 1 .. n : m.pcbs[s[h].pid] = acc.k.pcbs[s[h].pid]
      BY <2>1, <2>3, <2>5 DEF Leaves, Resting
    <3> QED  BY <1>1, <2>5, <3>1 DEF Skippable
  <2>7. ASSUME x = 0 \/ frames[x] # "none"
        PROVE  LET t == TryNext(acc, frames) IN t \in Tries(D, j, k) /\ t.found = t.k.current
    <3> DEFINE t == TryNext(acc, frames)
    <3>1. /\ t.k = m /\ t.stop = TRUE /\ t.found = x /\ t.skipped = s
          /\ t \in [k: KState(D), stop: BOOLEAN, found: Pids \cup {0}, skipped: Skips(D)]
      BY <1>1, <1>3, <2>2, <2>3, <2>7
    <3> HIDE DEF t
    <3> QED  BY <1>1, <2>1, <2>4, <2>6, <3>1 DEF Tries, t
  <2>8. ASSUME x # 0, frames[x] = "none"
        PROVE  LET t == TryNext(acc, frames) IN t \in Tries(D, j, k) /\ t.found = t.k.current
    <3> DEFINE b == [m.pcbs[x] EXCEPT !.state = "Ready"]
               u == Put(m, x, b)
               d == Dequeue(u, x)
               l == Append(s, [pid |-> x, prio |-> m.pcbs[x].eff])
               t == TryNext(acc, frames)
    <3>1. m.pcbs[x] \in Pcb
      BY <2>3, <2>8 DEF KState
    <3>2. /\ b \in Pcb /\ b.state = "Ready" /\ b.eff = m.pcbs[x].eff /\ b.eff \in Levels
          /\ b.sup = m.pcbs[x].sup /\ b.children = m.pcbs[x].children
      BY <3>1 DEF Pcb, States
    <3>3. [m EXCEPT !.pcbs[x].state = "Ready"] = u
      BY <2>3, <2>8 DEF KState, Put
    <3>4. /\ t.k = d /\ t.stop = FALSE /\ t.found = 0 /\ t.skipped = l
          /\ t = [acc EXCEPT !.k = d, !.skipped = l]
      <4>1. t = [acc EXCEPT !.k = d, !.skipped = l]
        BY <1>1, <2>2, <2>8, <3>3
      <4> HIDE DEF t, d, l
      <4> QED  BY <1>1, <1>3, <4>1
    <3> HIDE DEF b, t
    <3>5. /\ u \in KState(D) /\ ExactBut(u, x, X) /\ u.pcbs[x] = b /\ SameTree(u, j, D) /\ u.current = x
          /\ \A p \in D \ {x} : u.pcbs[p] = m.pcbs[p]
      BY <2>3, <2>8, <3>2, PutFacts, PutExactBut, PutTree
    <3> HIDE DEF u
    <3>6. d \in KState(D) /\ d.pcbs = u.pcbs /\ Off(d, x, X)
      BY <2>3, <2>8, <3>5, DequeueOff
    <3>7. d.current = 0
      BY <3>5 DEF Dequeue, KState
    <3> HIDE DEF d
    <3>8. Exact(d, X \cup {x})
      BY <2>3, <2>8, <3>6, OffAside
    <3>9. EndsStay(k, d, D)
      <4>1. m.pcbs[x].state = "Running"
        BY <2>3, <2>8 DEF Exact, CurrentRuns
      <4> QED  BY <2>4, <3>5, <3>6, <4>1 DEF EndsStay, Ended
    <3>10. Skippable(d, s) /\ d.pcbs[x].state = "Ready" /\ d.pcbs[x].eff = m.pcbs[x].eff
      <4>1. \A h \in 1 .. n : d.pcbs[s[h].pid] = m.pcbs[s[h].pid]
        BY <2>3, <2>5, <2>8, <3>5, <3>6
      <4> QED  BY <2>5, <2>6, <3>2, <3>5, <3>6, <4>1 DEF Skippable
    <3>11. s \in Skips(D) /\ x \in D /\ m.pcbs[x].eff \in Levels /\ x \notin X
      BY <1>1, <2>3, <2>8, <3>2
    <3>12. l \in Skips(D) /\ Later(l, 0) = X \cup {x} /\ Apart(l) /\ Skippable(d, l)
      <4> HIDE DEF s, X, x
      <4>1. Apart(s) /\ X = Later(s, 0)
        BY <1>1 DEF X
      <4> QED  BY <3>10, <3>11, <4>1, LaterAppend
    <3>13. d \in Settled(D, j, Later(l, 0))
      BY <3>5, <3>6, <3>8, <3>12 DEF Settled, SameTree
    <3>14. t \in [k: KState(D), stop: BOOLEAN, found: Pids \cup {0}, skipped: Skips(D)]
      <4> HIDE DEF l
      <4> QED  BY <1>1, <3>4, <3>6, <3>12
    <3> QED  BY <3>4, <3>7, <3>9, <3>12, <3>13, <3>14 DEF Tries, t
  <2> QED  BY <2>7, <2>8
<1> QED  BY <1>2, <1>3

(* All rounds, and the return of what was put aside: the kernel state is   *)
(* settled and found is its current process.                               *)
LEMMA TryLoopSettled ==
  ASSUME NEW D \in SUBSET Pids, NEW j, NEW k \in Settled(D, j, {}), NEW frames
  PROVE  LET t == TryLoop(k, frames)
             m == EnqueueSkipped(t.k, t.skipped)
         IN  m \in Settled(D, j, {}) /\ m.current = t.found /\ EndsStay(k, m, D)
<1> DEFINE n == SkipMax
           A == Tries(D, j, k)
           first == [k |-> k, stop |-> FALSE, found |-> 0, skipped |-> << >>]
           F == [p \in A \X (1 .. n) |-> TryNext(p[1], frames)]
           IsLoop(f) == f = [i \in 0 .. n |-> IF i = 0 THEN first ELSE TryNext(f[i - 1], frames)]
<1>1. n \in Nat /\ n >= 1
  BY SkipAssumption
<1>2. first \in A
  <2>1. << >> \in Skips(D) /\ Later(<< >>, 0) = {} /\ Apart(<< >>) /\ Skippable(k, << >>)
    BY DEF Skips, Later, Apart, Skippable
  <2>2. k \in KState(D) /\ EndsStay(k, k, D)
    BY DEF Settled, EndsStay
  <2>3. first \in [k: KState(D), stop: BOOLEAN, found: Pids \cup {0}, skipped: Skips(D)]
    BY <2>1, <2>2
  <2> QED  BY <2>1, <2>2, <2>3 DEF Tries
<1>3. ASSUME NEW acc \in A PROVE TryNext(acc, frames) \in A /\ TryNext(acc, frames).found = TryNext(acc, frames).k.current
  BY TryNextTries
<1> HIDE DEF n, A, first
<1>4. F \in [A \X (1 .. n) -> A]
  BY <1>3
<1>5. \E f : IsLoop(f)
  <2> HIDE DEF F, IsLoop
  <2>1. PICK f : IsRun(f, n, A, first, F)
    BY <1>1, <1>2, <1>4, FiniteRun
  <2>2. ASSUME NEW i \in 1 .. n PROVE f[i] = TryNext(f[i - 1], frames)
    <3>1. f[i - 1] \in A
      BY <1>1, <2>1 DEF IsRun
    <3>2. <<f[i - 1], i>> \in A \X (1 .. n)
      BY <3>1
    <3>3. F[<<f[i - 1], i>>] = TryNext(f[i - 1], frames)
      BY <3>2 DEF F
    <3> QED  BY <2>1, <3>3 DEF IsRun
  <2>3. f = [i \in 0 .. n |-> IF i = 0 THEN first ELSE TryNext(f[i - 1], frames)]
    BY <1>1, <2>1, <2>2 DEF IsRun
  <2> QED  BY <2>3 DEF IsLoop
<1>6. PICK f : IsLoop(f) /\ TryLoop(k, frames) = f[n]
  <2>1. TryLoop(k, frames) = (CHOOSE f : IsLoop(f))[n]
    BY DEF TryLoop, n, first
  <2> HIDE DEF IsLoop
  <2> QED  BY <1>5, <2>1
<1>7. f[0] = first /\ \A i \in 1 .. n : f[i] = TryNext(f[i - 1], frames)
  <2>1. 0 \in 0 .. n /\ \A i \in 1 .. n : i \in 0 .. n /\ i # 0
    BY <1>1
  <2> QED  BY <1>6, <2>1
<1> HIDE DEF IsLoop
<1>8. \A i \in 0 .. n : f[i] \in A
  <2>1. \A i \in 1 .. n : f[i - 1] \in A => f[i] \in A
    BY <1>3, <1>7
  <2> QED  BY <1>1, <1>2, <1>7, <2>1, RunStays
<1> DEFINE t == f[n]
           m == EnqueueSkipped(t.k, t.skipped)
<1>9. t \in A /\ t.found = t.k.current
  <2>1. n \in 1 .. n /\ n - 1 \in 0 .. n
    BY <1>1
  <2> QED  BY <1>3, <1>7, <1>8, <2>1
<1> HIDE DEF t
<1>10. /\ t.skipped \in Skips(D) /\ t.k \in Settled(D, j, Later(t.skipped, 0)) /\ Apart(t.skipped)
       /\ Skippable(t.k, t.skipped) /\ EndsStay(k, t.k, D)
  BY <1>9 DEF A, Tries
<1>11. m \in Settled(D, j, {}) /\ m.pcbs = t.k.pcbs /\ m.current = t.k.current
  BY <1>10, EnqueueSkippedSettled
<1> HIDE DEF m
<1>12. EndsStay(k, m, D)
  BY <1>10, <1>11 DEF EndsStay, Ended
<1>13. TryLoop(k, frames) = t
  BY <1>6 DEF t
<1> QED  BY <1>9, <1>11, <1>12, <1>13 DEF m

(* try_switch_next when every frame that is out of date is that of a       *)
(* process that has ended, and the idle frame is kept.                     *)
LEMMA TrySwitchNextInv ==
  ASSUME Inv, NEW k \in Settled(DOMAIN pcbs, Kernel, {}), NEW frames \in [Pids -> {"none", "saved", "live"}],
         \A p \in Pids : frames[p] = "live" => p \in DOMAIN pcbs /\ Ended(k, p),
         TrySwitchNext(k, frames, IDLE), uptime' \in Nat, UNCHANGED <<next_pid, registered>>
  PROVE  PInv'
<1> DEFINE D == DOMAIN pcbs
           t == TryLoop(k, frames)
           m == EnqueueSkipped(t.k, t.skipped)
<1>1. D \in SUBSET Pids
  BY InvFacts
<1>2. m \in Settled(D, Kernel, {}) /\ m.current = t.found /\ EndsStay(k, m, D)
  BY <1>1, TryLoopSettled
<1>3. /\ Becomes(m)
      /\ t.found # 0 => cpu' = t.found /\ stack' = [frames EXCEPT ![t.found] = "live"] /\ idle_rsp' = IDLE
      /\ t.found = 0 => cpu' = IDLE /\ stack' = frames /\ idle_rsp' = NOFRAME
  BY DEF TrySwitchNext, IDLE, NOFRAME
<1> HIDE DEF m, t
<1>4. Inv'
  BY <1>2, <1>3, SettledStep
<1>5. m \in KState(D) /\ Exact(m, {}) /\ DOMAIN m.pcbs = D
  BY <1>2 DEF Settled, KState
<1>6. Kernel' = m
  BY <1>3, <1>5, BecomesKernel
<1>7. t.found # 0 => t.found \in D /\ t.found \in Pids
  BY <1>1, <1>2, <1>5 DEF Exact, CurrentRuns, InTable
<1>8. 0 \notin Pids
  BY PidsPositive
<1>9. CpuRight(m, cpu')
  BY <1>2, <1>3, <1>5, <1>7, <1>8 DEF CpuRight, InTable, IDLE
<1>10. FramesRight(m, cpu', stack')
  <2>1. CASE t.found = 0
    BY <1>2, <1>3, <1>5, <2>1 DEF FramesRight, InTable, EndsStay
  <2>2. CASE t.found # 0
    BY <1>2, <1>3, <1>5, <1>7, <2>2 DEF FramesRight, InTable, EndsStay
  <2> QED  BY <2>1, <2>2
<1>11. IdleRight(cpu', idle_rsp')
  BY <1>3 DEF IdleRight
<1> QED  BY <1>4, <1>6, <1>9, <1>10, <1>11 DEF PInv

(* A step that leaves the processor alone. *)
LEMMA CarriedStep ==
  ASSUME PInv, Inv', Carries(Kernel, Kernel'), cpu' = cpu, idle_rsp' = idle_rsp,
         stack' \in [Pids -> {"none", "saved", "live"}], \A p \in Pids : stack'[p] = "live" => stack[p] = "live"
  PROVE  PInv'
<1>1. CpuRight(Kernel, cpu) /\ FramesRight(Kernel, cpu, stack) /\ IdleRight(cpu, idle_rsp)
  BY DEF PInv
<1>2. PICK k : k = Kernel
  OBVIOUS
<1>3. PICK m : m = Kernel'
  OBVIOUS
<1>4. Carries(k, m) /\ CpuRight(k, cpu) /\ FramesRight(k, cpu, stack)
  BY <1>1, <1>2, <1>3
<1>5. CpuRight(m, cpu)
  BY <1>4 DEF CpuRight, Carries
<1>6. FramesRight(m, cpu, stack')
  BY <1>4 DEF FramesRight, Carries
<1> QED  BY <1>1, <1>3, <1>5, <1>6 DEF PInv

(* The new child in its supervisor's list. *)
LEMMA ListUpdate ==
  ASSUME NEW Q, NEW q, NEW c, NEW x, NEW y
  PROVE  [[pcbs |-> Q, queues |-> q, current |-> c] EXCEPT !.pcbs[x].children = Append(@, y)]
           = [pcbs |-> [Q EXCEPT ![x].children = Append(@, y)], queues |-> q, current |-> c]
OBVIOUS

(* spawn touches the state of no other process. *)
LEMMA SpawnCarries ==
  ASSUME Inv, NEW sup \in Pids, NEW intent, NEW strategy, Spawn(sup, intent, strategy)
  PROVE  Carries(Kernel, Kernel')
<1> DEFINE D == DOMAIN pcbs
           pid == next_pid
           new == NewPcb(intent, sup, strategy, Len(pcbs[sup].children), MaxRestarts)
           Q == [p \in D \cup {pid} |-> IF p = pid THEN new ELSE pcbs[p]]
           u == [[Kernel EXCEPT !.pcbs = Q] EXCEPT !.pcbs[sup].children = Append(@, pid)]
<1>1. sup \in D /\ pid \notin D /\ Kernel.pcbs = pcbs /\ \A p \in D : pcbs[p] \in Pcb
  <2>1. Kernel.pcbs = pcbs /\ D \in SUBSET Pids /\ \A p \in D : pcbs[p] \in Pcb
    BY InvFacts
  <2>2. next_pid \in Nat /\ \A p \in D : p < next_pid
    BY <2>1 DEF Inv, Sound
  <2>3. pid \notin D
    BY <2>2
  <2> QED  BY <2>1, <2>3 DEF Spawn
<1>2. CASE UNCHANGED <<pcbs, queues, current>>
  BY <1>2 DEF Kernel, Carries
<1>3. CASE Becomes(Enqueue(u, pid, intent.base))
  <2> HIDE DEF D, pid, new
  <2>1. \A p \in D : Q[p] = pcbs[p] /\ Q \in [D \cup {pid} -> {new} \cup Pcb]
    BY <1>1
  <2> DEFINE old == [pcbs[sup] EXCEPT !.children = Append(@, pid)]
             P == [Q EXCEPT ![sup].children = Append(@, pid)]
  <2>2. P = [Q EXCEPT ![sup] = old]
    BY <1>1, <2>1
  <2>3. old.state = pcbs[sup].state
    BY <1>1 DEF Pcb
  <2>4. u = [pcbs |-> P, queues |-> queues, current |-> current]
    <3>1. [Kernel EXCEPT !.pcbs = Q] = [pcbs |-> Q, queues |-> queues, current |-> current]
      BY DEF Kernel
    <3> HIDE DEF Q
    <3>2. u = [[pcbs |-> Q, queues |-> queues, current |-> current] EXCEPT !.pcbs[sup].children = Append(@, pid)]
      BY <3>1
    <3> HIDE DEF u
    <3> QED  BY <3>2, ListUpdate
  <2> HIDE DEF Q, old
  <2>5. DOMAIN P = D \cup {pid} /\ \A p \in D : P[p].state = pcbs[p].state
    <3> HIDE DEF P
    <3> QED  BY <1>1, <2>1, <2>2, <2>3
  <2> HIDE DEF P, u
  <2>6. Enqueue(u, pid, intent.base).pcbs = P /\ Enqueue(u, pid, intent.base).current = current
    BY <2>4 DEF Enqueue
  <2>7. Kernel'.pcbs = P /\ Kernel'.current = current /\ Kernel.current = current
    BY <1>3, <2>6 DEF Becomes, Kernel
  <2> QED  BY <1>1, <2>5, <2>7 DEF Carries, InTable, Ended, D
<1> QED  BY <1>2, <1>3 DEF Spawn

(* A stopped process is not current any more. *)
LEMMA StopCurrent ==
  ASSUME NEW D, NEW k \in KState(D), NEW x
  PROVE  Stop(k, x).current = IF k.current = x THEN 0 ELSE k.current
BY DEF Stop, Dequeue, KState

(* terminate ends one process and no other. *)
LEMMA TerminateCarries ==
  ASSUME Inv, NEW pid \in Pids, Terminate(pid)
  PROVE  Carries(Kernel, Kernel')
<1> DEFINE D == DOMAIN pcbs
           k == Stop(Kernel, pid)
           sup == pcbs[pid].sup
<1>1. /\ Kernel.pcbs = pcbs /\ Kernel.current = current /\ D \in SUBSET Pids
      /\ Kernel \in Settled(D, Kernel, {}) /\ Kernel \in KState(D) /\ pid \in D
  BY InvFacts DEF Terminate
<1>2. k \in Settled(D, Kernel, {}) /\ Ended(k, pid) /\ Leaves(k, Kernel, D \ {pid})
  BY <1>1, StopSettled
<1>3. k.current = IF current = pid THEN 0 ELSE current
  BY <1>1, StopCurrent
<1>4. Becomes(IF InTable(k, sup) THEN [k EXCEPT !.pcbs[sup].children = Without(@, pid)] ELSE k)
  BY DEF Terminate
<1> HIDE DEF k, sup, D
<1>5. k \in KState(D) /\ DOMAIN k.pcbs = D
  BY <1>2 DEF Settled, KState
<1>6. ASSUME NEW P, P \in [D -> Pcb], pcbs' = P, current' = k.current,
             \A p \in D : P[p].state = k.pcbs[p].state
      PROVE  Carries(Kernel, Kernel')
  <2>1. Kernel'.pcbs = P /\ Kernel'.current = k.current
    BY <1>6 DEF Kernel
  <2> QED  BY <1>1, <1>2, <1>3, <1>6, <2>1 DEF Carries, InTable, Ended, Leaves, D
<1>7. CASE sup \notin D
  BY <1>4, <1>5, <1>6, <1>7 DEF Becomes, InTable, KState
<1>8. CASE sup \in D
  <2> DEFINE P == [k.pcbs EXCEPT ![sup].children = Without(@, pid)]
  <2>1. PICK s \in Seq(Pids) : s = k.pcbs[sup].children
    BY <1>5, <1>8 DEF KState, Pcb
  <2>2. Without(s, pid) \in Seq(Pids)
    <3>1. Seq(Pids \cap (Pids \ {pid})) \subseteq Seq(Pids)
      OBVIOUS
    <3>2. Keep(s, Pids \ {pid}) \in Seq(Pids \cap (Pids \ {pid}))
      BY KeepContains
    <3> QED  BY <3>1, <3>2 DEF Without
  <2>3. PICK c \in Pcb : c = k.pcbs[sup]
    BY <1>5, <1>8 DEF KState
  <2>4. PICK b : b = [c EXCEPT !.children = Without(s, pid)]
    OBVIOUS
  <2>5. b \in Pcb /\ b.state = c.state
    BY <2>2, <2>4 DEF Pcb
  <2>6. P = [k.pcbs EXCEPT ![sup] = b]
    BY <1>5, <1>8, <2>1, <2>3, <2>4 DEF KState
  <2>7. pcbs' = P /\ current' = k.current
    BY <1>4, <1>5, <1>8 DEF Becomes, InTable, KState
  <2> HIDE DEF P
  <2>8. P \in [D -> Pcb] /\ \A p \in D : P[p].state = k.pcbs[p].state
    BY <1>5, <2>3, <2>5, <2>6 DEF KState
  <2> QED  BY <1>6, <2>7, <2>8
<1> QED  BY <1>7, <1>8

(* Creation of processes, for the kernel and for users. *)
LEMMA SpawnPInv ==
  ASSUME PInv, SpawnKernel \/ SpawnUser
  PROVE  PInv'
<1>1. BUTLER \in Pids /\ UserIntent \in [base: Levels, cat: Categories, deadline: Nat \cup {None}]
  BY LevelId, BoundsAssumption DEF Pids, BUTLER, UserIntent, Categories
<1>2. PICK i \in [base: Levels, cat: Categories, deadline: Nat \cup {None}] : Spawn(BUTLER, i, "OneForOne")
  BY <1>1, IntentsAssumption DEF SpawnKernel, SpawnUser
<1>3. Inv' /\ Carries(Kernel, Kernel')
  BY <1>1, <1>2, SpawnInv, SpawnCarries DEF PInv
<1>4. cpu' = cpu /\ idle_rsp' = idle_rsp /\ stack' = stack
  BY DEF SpawnKernel, SpawnUser
<1>5. stack \in [Pids -> {"none", "saved", "live"}]
  BY DEF PInv, FramesRight
<1> QED  BY <1>3, <1>4, <1>5, CarriedStep

(* The second half of spawn_user. *)
LEMMA AttachStackPInv ==
  ASSUME PInv, NEW pid \in Pids, AttachStack(pid)
  PROVE  PInv'
<1>1. /\ UNCHANGED <<vars, cpu, idle_rsp>> /\ stack' = [stack EXCEPT ![pid] = "saved"]
      /\ stack \in [Pids -> {"none", "saved", "live"}] /\ Inv
  BY DEF AttachStack, PInv, FramesRight
<1>2. Kernel' = Kernel /\ Inv'
  BY <1>1 DEF vars, Inv, Kernel
<1>3. Carries(Kernel, Kernel')
  BY <1>2 DEF Carries
<1>4. stack' \in [Pids -> {"none", "saved", "live"}] /\ \A p \in Pids : stack'[p] = "live" => stack[p] = "live"
  BY <1>1
<1> QED  BY <1>1, <1>2, <1>3, <1>4, CarriedStep

(* terminate. *)
LEMMA TerminatePInv ==
  ASSUME PInv, TerminateAny
  PROVE  PInv'
<1>1. PICK p \in Pids : Terminate(p)
  BY DEF TerminateAny
<1>2. Inv' /\ Carries(Kernel, Kernel')
  BY <1>1, TerminateInv, TerminateCarries DEF PInv
<1>3. cpu' = cpu /\ idle_rsp' = idle_rsp /\ stack' = stack
  BY DEF TerminateAny
<1>4. stack \in [Pids -> {"none", "saved", "live"}]
  BY DEF PInv, FramesRight
<1> QED  BY <1>2, <1>3, <1>4, CarriedStep

(* sys_exit: the process that runs ends, and the dead loop runs. *)
LEMMA SysExitPInv ==
  ASSUME PInv, SysExit
  PROVE  PInv'
<1> DEFINE D == DOMAIN pcbs
           k == IF current = 0 THEN Kernel ELSE Stop(Kernel, current)
<1>1. /\ Kernel.pcbs = pcbs /\ Kernel.current = current /\ D \in SUBSET Pids /\ uptime \in Nat
      /\ Kernel \in Settled(D, Kernel, {}) /\ Kernel \in KState(D) /\ Exact(Kernel, {})
  BY InvFacts DEF PInv
<1>2. /\ cpu > 0 /\ cpu' = DEAD /\ Becomes(k) /\ UNCHANGED <<next_pid, uptime, registered, idle_rsp, stack>>
  BY DEF SysExit
<1>3. CpuRight(Kernel, cpu) /\ FramesRight(Kernel, cpu, stack) /\ IdleRight(cpu, idle_rsp) /\ Inv
  BY DEF PInv
<1>4. cpu \in Pids
  BY <1>2, <1>3 DEF CpuRight, IDLE, DEAD
<1>5. /\ k \in Settled(D, Kernel, {}) /\ k.current = 0
      /\ \A p \in D : Ended(Kernel, p) \/ p = cpu => Ended(k, p)
  <2>1. CASE current = 0
    <3>1. k = Kernel
      BY <2>1
    <3>2. Ended(Kernel, cpu)
      BY <1>1, <1>3, <1>4, <2>1, PidsPositive DEF CpuRight
    <3> HIDE DEF k
    <3> QED  BY <1>1, <2>1, <3>1, <3>2
  <2>2. CASE current # 0
    <3>1. k = Stop(Kernel, current) /\ current \in D /\ cpu = current
      BY <1>1, <1>3, <2>2 DEF Exact, CurrentRuns, InTable, CpuRight
    <3> HIDE DEF k
    <3>2. k \in Settled(D, Kernel, {}) /\ Ended(k, current) /\ Leaves(k, Kernel, D \ {current})
      BY <1>1, <3>1, StopSettled
    <3>3. k.current = 0
      BY <1>1, <3>1, StopCurrent
    <3> QED  BY <3>1, <3>2, <3>3 DEF Ended, Leaves
  <2> QED  BY <2>1, <2>2
<1> HIDE DEF k
<1>6. Inv'
  BY <1>1, <1>2, <1>3, <1>5, SettledStep
<1>7. Kernel' = k /\ DOMAIN k.pcbs = D
  BY <1>2, <1>5, BecomesKernel DEF Settled, KState
<1>8. CpuRight(k, DEAD)
  <2>1. DEAD \notin Pids
    BY PidsPositive DEF DEAD
  <2> QED  BY <1>5, <2>1 DEF CpuRight
<1>9. FramesRight(k, DEAD, stack)
  BY <1>1, <1>3, <1>5, <1>7 DEF FramesRight, InTable
<1>10. IdleRight(DEAD, idle_rsp)
  BY <1>2, <1>3 DEF IdleRight, IDLE
<1> QED  BY <1>2, <1>6, <1>7, <1>8, <1>9, <1>10 DEF PInv

(* A kernel state with the same states and the same current process. *)
LEMMA SameStatesCarries ==
  ASSUME NEW D \in SUBSET Pids, NEW k \in KState(D), NEW m \in KState(D), m.current = k.current,
         SameStates(m, k, D)
  PROVE  Carries(k, m)
<1>1. DOMAIN k.pcbs = D /\ DOMAIN m.pcbs = D
  BY DEF KState
<1> QED  BY <1>1 DEF Carries, InTable, Ended, SameStates

(* sys_yield: the rest of the slice is given up. *)
LEMMA SysYieldPInv ==
  ASSUME PInv, SysYield
  PROVE  PInv'
<1> DEFINE D == DOMAIN pcbs
           k == IF current = 0 THEN Kernel ELSE [Kernel EXCEPT !.pcbs[current].slice = 0]
<1>1. /\ Kernel.pcbs = pcbs /\ Kernel.current = current /\ D \in SUBSET Pids /\ uptime \in Nat
      /\ Kernel \in Settled(D, Kernel, {}) /\ Kernel \in KState(D) /\ Exact(Kernel, {})
      /\ SameTree(Kernel, Kernel, D) /\ \A p \in D : pcbs[p] \in Pcb
  BY InvFacts DEF PInv, Settled
<1>2. Becomes(k) /\ UNCHANGED <<next_pid, uptime, registered, cpu, idle_rsp, stack>>
  BY DEF SysYield
<1>3. k \in Settled(D, Kernel, {}) /\ k.current = Kernel.current /\ SameStates(k, Kernel, D)
  <2>1. CASE current = 0
    <3>1. k = Kernel
      BY <2>1
    <3> HIDE DEF k
    <3> QED  BY <1>1, <3>1 DEF SameStates
  <2>2. CASE current # 0
    <3> DEFINE b == [pcbs[current] EXCEPT !.slice = 0]
    <3>1. current \in D
      BY <1>1, <2>2 DEF Exact, CurrentRuns, InTable
    <3>2. /\ b \in Pcb /\ b.state = pcbs[current].state /\ b.eff = pcbs[current].eff
          /\ b.sup = pcbs[current].sup /\ b.children = pcbs[current].children
      BY <1>1, <3>1, SMTT(30) DEF Pcb
    <3>3. k = Put(Kernel, current, b)
      BY <1>1, <2>2, <3>1 DEF Put, KState
    <3> HIDE DEF b, k
    <3>4. /\ k \in KState(D) /\ k.current = Kernel.current /\ k.pcbs[current] = b
          /\ \A p \in D \ {current} : k.pcbs[p] = Kernel.pcbs[p]
      BY <1>1, <3>1, <3>2, <3>3, PutFacts
    <3>5. Exact(k, {}) /\ SameTree(k, Kernel, D)
      BY <1>1, <3>1, <3>2, <3>3, PutExact, PutTree
    <3> QED  BY <1>1, <3>2, <3>4, <3>5 DEF Settled, SameStates
  <2> QED  BY <2>1, <2>2
<1> HIDE DEF k
<1>4. k \in KState(D)
  BY <1>3 DEF Settled
<1>5. Kernel' = k
  BY <1>2, <1>4, BecomesKernel
<1>6. Inv'
  BY <1>1, <1>2, <1>3, SettledStep DEF PInv
<1>7. Carries(Kernel, Kernel')
  BY <1>1, <1>3, <1>4, <1>5, SameStatesCarries
<1>8. stack \in [Pids -> {"none", "saved", "live"}]
  BY DEF PInv, FramesRight
<1> QED  BY <1>2, <1>6, <1>7, <1>8, CarriedStep

(* The timer: in each of its cases the frames that are out of date belong  *)
(* to processes that have ended, and the idle frame is kept.               *)
LEMMA TimerTickPInv ==
  ASSUME PInv, TimerTick
  PROVE  PInv'
<1> DEFINE D == DOMAIN pcbs
           ticked == Ticked(Kernel)
           spent == Consumed(ticked)
           saved == SaveFrame(current)
<1>1. /\ Kernel.pcbs = pcbs /\ Kernel.current = current /\ D \in SUBSET Pids /\ uptime \in Nat
      /\ Kernel \in Settled(D, Kernel, {}) /\ Kernel \in KState(D) /\ Exact(Kernel, {})
  BY InvFacts DEF PInv
<1>2. CpuRight(Kernel, cpu) /\ FramesRight(Kernel, cpu, stack) /\ IdleRight(cpu, idle_rsp) /\ Inv
  BY DEF PInv
<1>3. ticked \in Settled(D, Kernel, {}) /\ ticked.current = current /\ SameStates(ticked, Kernel, D)
  BY <1>1, TickedSettled
<1>4. /\ uptime' = Older(uptime, Aging) /\ UNCHANGED <<next_pid, registered>>
      /\ \/ current = 0 /\ TrySwitchNext(ticked, stack, IdleFrame)
         \/ current # 0 /\ pcbs[current].state = "Terminated"
         \/ current # 0 /\ Becomes(spent) /\ UNCHANGED <<cpu, idle_rsp, stack>>
         \/ current # 0 /\ TrySwitchNext(spent, saved, idle_rsp)
  BY DEF TimerTick
<1> HIDE DEF ticked
<1>5. spent \in Settled(D, Kernel, {}) /\ spent.current = current /\ SameStates(spent, Kernel, D)
  <2>1. spent \in Settled(D, Kernel, {}) /\ spent.current = ticked.current /\ SameStates(spent, ticked, D)
    BY <1>1, <1>3, ConsumedSettled
  <2> HIDE DEF spent
  <2> QED  BY <1>3, <2>1 DEF SameStates
<1> HIDE DEF spent, saved
<1>6. uptime' \in Nat
  BY <1>1, <1>4, TimesAssumption DEF Older
<1>7. stack \in [Pids -> {"none", "saved", "live"}]
  BY <1>2 DEF FramesRight
<1>8. CASE current = 0 /\ TrySwitchNext(ticked, stack, IdleFrame)
  <2>1. IdleFrame = IDLE
    BY <1>2 DEF IdleFrame, IdleRight, IDLE, NOFRAME
  <2>2. \A p \in Pids : stack[p] = "live" => p \in D /\ Ended(Kernel, p)
    BY <1>1, <1>2, <1>8, PidsPositive DEF FramesRight, CpuRight, InTable
  <2>3. \A p \in Pids : stack[p] = "live" => p \in D /\ Ended(ticked, p)
    BY <1>3, <2>2 DEF SameStates, Ended
  <2> QED  BY <1>2, <1>3, <1>4, <1>6, <1>7, <1>8, <2>1, <2>3, TrySwitchNextInv
<1>9. ASSUME current # 0 PROVE pcbs[current].state = "Running" /\ current \in D /\ cpu = current
  BY <1>1, <1>2, <1>9 DEF Exact, CurrentRuns, InTable, CpuRight
<1>10. CASE current # 0 /\ Becomes(spent) /\ UNCHANGED <<cpu, idle_rsp, stack>>
  <2>1. Inv'
    BY <1>2, <1>4, <1>5, <1>6, <1>10, SettledStep
  <2>2. spent \in KState(D)
    BY <1>5 DEF Settled
  <2>3. Kernel' = spent
    BY <1>10, <2>2, BecomesKernel
  <2>4. Carries(Kernel, Kernel')
    BY <1>1, <1>5, <2>2, <2>3, SameStatesCarries
  <2> QED  BY <1>7, <1>10, <2>1, <2>4, CarriedStep
<1>11. CASE current # 0 /\ TrySwitchNext(spent, saved, idle_rsp)
  <2>1. idle_rsp = IDLE
    BY <1>1, <1>2, <1>9, <1>11, PidsPositive DEF IdleRight, IDLE
  <2>2. saved \in [Pids -> {"none", "saved", "live"}]
    BY <1>7 DEF saved, SaveFrame
  <2>3. \A p \in Pids : saved[p] = "live" => p # current /\ stack[p] = "live"
    BY <1>1, <1>7, <1>9, <1>11 DEF saved, SaveFrame
  <2>4. \A p \in Pids : saved[p] = "live" => p \in D /\ Ended(Kernel, p)
    BY <1>1, <1>2, <1>9, <1>11, <2>3 DEF FramesRight, InTable
  <2>5. \A p \in Pids : saved[p] = "live" => p \in D /\ Ended(spent, p)
    BY <1>5, <2>4 DEF SameStates, Ended
  <2> QED  BY <1>2, <1>4, <1>5, <1>6, <1>11, <2>1, <2>2, <2>5, TrySwitchNextInv
<1> QED  BY <1>4, <1>8, <1>9, <1>10, <1>11

(* The boot state and every step. *)
LEMMA PInitInv == PInit => PInv
<1> SUFFICES ASSUME PInit PROVE PInv
  OBVIOUS
<1>1. /\ Init /\ current = 0 /\ cpu = 0 /\ idle_rsp = NOFRAME /\ stack = [p \in Pids |-> "none"]
  BY DEF PInit, Init, IDLE
<1>2. Inv /\ Kernel.current = 0
  BY <1>1, InitInv DEF Kernel
<1>3. CpuRight(Kernel, cpu)
  BY <1>1, <1>2, PidsPositive DEF CpuRight, IDLE
<1>4. FramesRight(Kernel, cpu, stack)
  BY <1>1 DEF FramesRight
<1>5. IdleRight(cpu, idle_rsp)
  BY <1>1 DEF IdleRight, IDLE
<1> QED  BY <1>2, <1>3, <1>4, <1>5 DEF PInv

(* Every step keeps the invariant. *)
LEMMA PNextInv == PInv /\ [PNext]_pvars => PInv'
<1> SUFFICES ASSUME PInv, [PNext]_pvars PROVE PInv'
  OBVIOUS
<1>1. CASE SpawnKernel \/ SpawnUser
  BY <1>1, SpawnPInv
<1>2. CASE TerminateAny
  BY <1>2, TerminatePInv
<1>3. CASE \E p \in Pids : AttachStack(p)
  BY <1>3, AttachStackPInv
<1>4. CASE SysExit
  BY <1>4, SysExitPInv
<1>5. CASE SysYield
  BY <1>5, SysYieldPInv
<1>6. CASE TimerTick
  BY <1>6, TimerTickPInv
<1>7. CASE UNCHANGED pvars
  BY <1>7 DEF pvars, vars, PInv, Inv, Kernel
<1> QED  BY <1>1, <1>2, <1>3, <1>4, <1>5, <1>6, <1>7 DEF PNext

(* What the invariant says of the processor and of the frames. *)
LEMMA PInvSafe == PInv => CpuFollowsScheduler /\ FramesIntact
<1> SUFFICES ASSUME PInv PROVE CpuFollowsScheduler /\ FramesIntact
  OBVIOUS
<1>1. /\ Kernel.pcbs = pcbs /\ Kernel.current = current /\ DOMAIN pcbs \in SUBSET Pids
  BY InvFacts DEF PInv
<1>2. CpuRight(Kernel, cpu) /\ FramesRight(Kernel, cpu, stack) /\ IdleRight(cpu, idle_rsp)
  BY DEF PInv
<1>3. cpu > 0 => cpu \in Pids
  BY <1>2 DEF CpuRight, IDLE, DEAD
<1>4. CpuFollowsScheduler
  BY <1>1, <1>2, <1>3 DEF CpuFollowsScheduler, CpuRight, Ended
<1>5. FramesIntact
  BY <1>1, <1>2 DEF FramesIntact, FramesRight, IdleRight, Ended
<1> QED  BY <1>4, <1>5

(* CpuFollowsScheduler: whenever the timer comes, in spawn_user, after     *)
(* sys_exit or in the dead loop, the current process is the one that runs, *)
(* and a process that runs without being current has been terminated.      *)
THEOREM CpuFollowsSchedulerEver == PSpec => []CpuFollowsScheduler
<1>1. PInit => PInv
  BY PInitInv
<1>2. PInv /\ [PNext]_pvars => PInv'
  BY PNextInv
<1>3. PInv => CpuFollowsScheduler
  BY PInvSafe
<1> QED  BY <1>1, <1>2, <1>3, PTL DEF PSpec

(* FramesIntact: no process that may still run is ever without its latest  *)
(* frame unless it is running, and the idle frame is kept as long as       *)
(* anything else runs, however many processes without a kernel stack       *)
(* try_switch_next has to put aside.                                       *)
THEOREM FramesIntactEver == PSpec => []FramesIntact
<1>1. PInit => PInv
  BY PInitInv
<1>2. PInv /\ [PNext]_pvars => PInv'
  BY PNextInv
<1>3. PInv => FramesIntact
  BY PInvSafe
<1> QED  BY <1>1, <1>2, <1>3, PTL DEF PSpec
=============================================================================
