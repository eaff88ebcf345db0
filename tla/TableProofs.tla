---------------------------- MODULE TableProofs ----------------------------
(***************************************************************************)
(* Proofs about the components that are a table of their own: the hash     *)
(* table, the handle table, the TLS sessions, Butler's state page, the     *)
(* frame allocator and the resolver, for every size they may have.         *)
(***************************************************************************)
EXTENDS FixedMap, HandleTable, Tls, ButlerState, FrameAllocator, Resolver,
        FiniteSetTheorems, SequenceTheorems, NatLemmas, TLAPS

-----------------------------------------------------------------------------
(* The hash table *)

(* It implements the bounded map, for every capacity and every hash        *)
(* function.  Slots are compared by their distance, going up and around,   *)
(* from the home of an entry: the table is sound when no slot nearer to    *)
(* the home than the entry is empty, and the loop of a removal keeps this  *)
(* for every slot but the gap it is moving.                                *)

(* What is asked of the constants. *)
MapSizes == Capacity \in Nat \ {0} /\ Homes \subseteq Index /\ Nothing \notin Entry

Table == [Index -> Entry \cup {Nothing}]

(* How far b is from a, going up and around. *)
Dist(a, b) == IF a <= b THEN b - a ELSE b - a + Capacity

(* The layout in terms of distances: a search that starts at the home of   *)
(* an entry meets no empty slot before the entry.                          *)
Full(T, h) ==
  \A s, q \in Index : T[s] # Nothing /\ Dist(h[T[s].key], q) < Dist(h[T[s].key], s) => T[q] # Nothing
Unique(T) ==
  \A s, q \in Index : T[s] # Nothing /\ T[q] # Nothing /\ T[s].key = T[q].key => s = q
Filled(T) == {s \in Index : T[s] # Nothing}

(* Slots wrap around. *)
LEMMA AtWraps ==
  ASSUME MapSizes, NEW x \in Nat, x < 2 * Capacity
  PROVE  At(x) = IF x < Capacity THEN x ELSE x - Capacity
<1>1. PICK c \in Nat : c = Capacity /\ c > 0
  BY DEF MapSizes
<1>2. CASE x < c
  BY <1>1, <1>2 DEF At
<1>3. CASE x >= c
  <2>1. PICK r \in Nat : x = c + r /\ r < c
    BY <1>1, <1>3
  <2>2. (c + r) % c = r
    BY <1>1, <2>1
  <2> QED  BY <1>1, <1>3, <2>1, <2>2 DEF At
<1> QED  BY <1>1, <1>2, <1>3

(* A slot is given by its distance from another one, and the other way     *)
(* around.                                                                 *)
LEMMA Distances ==
  ASSUME MapSizes, NEW a \in Index
  PROVE  /\ \A b \in Index : Dist(a, b) \in Index /\ At(a + Dist(a, b)) = b
         /\ \A d \in Index : At(a + d) \in Index /\ Dist(a, At(a + d)) = d
         /\ \A b, c \in Index : Dist(a, b) = Dist(a, c) => b = c
<1>1. Capacity \in Nat /\ Capacity > 0 /\ a \in Nat /\ a < Capacity
  BY DEF MapSizes, Index
<1>2. ASSUME NEW d \in Index
      PROVE  At(a + d) = IF a + d < Capacity THEN a + d ELSE a + d - Capacity
  BY <1>1, AtWraps DEF Index
<1>3. ASSUME NEW b \in Index PROVE Dist(a, b) \in Index /\ At(a + Dist(a, b)) = b
  <2>1. Dist(a, b) \in Index
    BY <1>1 DEF Dist, Index
  <2> QED  BY <1>1, <1>2, <2>1 DEF Dist, Index
<1>4. ASSUME NEW d \in Index PROVE At(a + d) \in Index /\ Dist(a, At(a + d)) = d
  BY <1>1, <1>2 DEF Dist, Index
<1>5. ASSUME NEW b \in Index, NEW c \in Index, Dist(a, b) = Dist(a, c) PROVE b = c
  BY <1>1, <1>5 DEF Dist, Index
<1> QED  BY <1>3, <1>4, <1>5

(* What lies on the way. *)
LEMMA Ways ==
  ASSUME MapSizes, NEW a \in Index, NEW b \in Index, NEW c \in Index, NEW d \in Index
  PROVE  /\ Dist(a, b) < Dist(a, d) /\ Dist(b, c) < Dist(b, d) => Dist(a, c) < Dist(a, d)
         /\ Dist(a, b) < Dist(a, c) /\ Dist(a, c) < Dist(a, d) => Dist(b, c) < Dist(b, d)
         /\ Dist(a, d) < Dist(a, b) /\ Dist(a, b) < Dist(a, c) => Dist(b, c) < Dist(b, d)
BY DEF MapSizes, Index, Dist

(* An entry fills the gap when the gap is on its way. *)
LEMMA MoveIsOnPath ==
  ASSUME MapSizes, NEW home \in Index, NEW empty \in Index, NEW scan \in Index
  PROVE  ShouldMove(home, empty, scan) <=> Dist(home, empty) < Dist(home, scan)
BY DEF MapSizes, Index, Dist, ShouldMove

(* A probe ends at the first slot that is empty or holds the key, ... *)
LEMMA ProbeEnds ==
  ASSUME MapSizes, slots \in Table, hash \in [Keys -> Homes], NEW k \in Keys,
         NEW z \in Index, slots[z] = Nothing
  PROVE  /\ Stops(k) # {} /\ Probe(k) \in Index
         /\ slots[Probe(k)] = Nothing \/ slots[Probe(k)].key = k
         /\ \A q \in Index : Dist(hash[k], q) < Dist(hash[k], Probe(k)) => slots[q] # Nothing /\ slots[q].key # k
<1>1. hash[k] \in Index
  BY DEF MapSizes
<1> DEFINE h == hash[k]
<1> HIDE DEF h
<1>2. Stops(k) = {d \in Index : slots[At(h + d)] = Nothing \/ slots[At(h + d)].key = k}
  BY DEF Stops, h
<1>3. h \in Index
  BY <1>1 DEF h
<1>4. Dist(h, z) \in Stops(k)
  BY <1>2, <1>3, Distances
<1>5. Stops(k) \in SUBSET Nat
  BY <1>2 DEF Index
<1> DEFINE first == CHOOSE d \in Stops(k) : \A e \in Stops(k) : d <= e
<1>6. first \in Stops(k) /\ \A e \in Stops(k) : first <= e
  <2>1. \E m \in Stops(k) : \A y \in Stops(k) : m <= y
    BY <1>4, <1>5, LeastNat
  <2> QED  BY <2>1
<1>7. Probe(k) = At(h + first)
  BY DEF Probe, h
<1> HIDE DEF first
<1>8. first \in Index /\ Probe(k) \in Index /\ Dist(h, Probe(k)) = first
  BY <1>2, <1>3, <1>6, <1>7, Distances
<1>9. slots[Probe(k)] = Nothing \/ slots[Probe(k)].key = k
  BY <1>2, <1>6, <1>7
<1>10. ASSUME NEW q \in Index, Dist(h, q) < Dist(h, Probe(k))
       PROVE  slots[q] # Nothing /\ slots[q].key # k
  <2>1. Dist(h, q) \in Index /\ At(h + Dist(h, q)) = q
    BY <1>3, Distances
  <2>2. Dist(h, q) \notin Stops(k)
    BY <1>6, <1>8, <1>10, <2>1 DEF Index
  <2> QED  BY <1>2, <2>1, <2>2
<1> QED  BY <1>4, <1>8, <1>9, <1>10 DEF h

(* ... which is the slot of the key when it is in the table. *)
LEMMA ProbeFinds ==
  ASSUME MapSizes, slots \in Table, hash \in [Keys -> Homes], NEW k \in Keys,
         NEW z \in Index, slots[z] = Nothing, Full(slots, hash), Unique(slots),
         NEW j \in Index, slots[j] # Nothing, slots[j].key = k
  PROVE  Probe(k) = j
<1>1. /\ Probe(k) \in Index /\ hash[k] \in Index
      /\ slots[Probe(k)] = Nothing \/ slots[Probe(k)].key = k
      /\ \A q \in Index : Dist(hash[k], q) < Dist(hash[k], Probe(k)) => slots[q] # Nothing /\ slots[q].key # k
  BY ProbeEnds DEF MapSizes
<1>2. ~(Dist(hash[k], j) < Dist(hash[k], Probe(k)))
  BY <1>1
<1>3. CASE Dist(hash[k], Probe(k)) < Dist(hash[k], j)
  <2>1. slots[Probe(k)] # Nothing
    BY <1>1, <1>3 DEF Full
  <2> QED  BY <1>1, <2>1 DEF Unique
<1>4. CASE Dist(hash[k], Probe(k)) = Dist(hash[k], j)
  BY <1>1, <1>4, Distances
<1>5. Dist(hash[k], Probe(k)) \in Nat /\ Dist(hash[k], j) \in Nat
  <2>1. Dist(hash[k], Probe(k)) \in Index /\ Dist(hash[k], j) \in Index
    BY <1>1, Distances
  <2> QED  BY <2>1 DEF Index
<1> QED  BY <1>2, <1>3, <1>4, <1>5

(* The states of the loop that fills a gap. *)
Shift == [tab: Table, empty: Index, done: BOOLEAN]
(* Two tables with the same entries, in other slots. *)
Same(T, U) ==
  /\ \A x \in Entry : (\E s \in Index : T[s] = x) <=> (\E s \in Index : U[s] = x)
  /\ IsFiniteSet(Filled(T)) /\ Cardinality(Filled(T)) = Cardinality(Filled(U))
(* The loop invariant after i turns.  The gap is the only empty slot on a  *)
(* way to an entry, and only to entries that the scan has still to meet;   *)
(* the scan has not met the empty slot z.                                  *)
Filling(p, i, table, idx, z) ==
  /\ p \in Shift /\ Unique(p.tab) /\ Same(p.tab, table)
  /\ p.done => Full(p.tab, hash)
  /\ ~p.done =>
       /\ p.tab[p.empty] = Nothing /\ p.tab[z] = Nothing
       /\ Dist(idx, p.empty) <= i /\ i < Dist(idx, z)
       /\ \A s, q \in Index :
            LET h == hash[p.tab[s].key]
            IN  p.tab[s] # Nothing /\ Dist(h, q) < Dist(h, s)
                  => p.tab[q] # Nothing \/ (q = p.empty /\ i < Dist(idx, s))

(* A step stays among the states of the loop. *)
LEMMA ShiftStepType ==
  ASSUME NEW p \in Shift, NEW scan \in Index
  PROVE  ShiftStep(p, scan) \in Shift
<1>1. p.tab \in Table /\ p.empty \in Index
  BY DEF Shift
<1>2. CASE p.done \/ p.tab[scan] = Nothing
  <2>1. [p EXCEPT !.done = TRUE] \in Shift
    BY DEF Shift
  <2> QED  BY <1>2, <2>1 DEF ShiftStep
<1>3. CASE ~(p.done \/ p.tab[scan] = Nothing) /\ ShouldMove(hash[p.tab[scan].key], p.empty, scan)
  <2>1. Moved(p.tab, p.empty, scan) \in Table
    BY <1>1 DEF Table, Moved
  <2>2. ShiftStep(p, scan) = [tab |-> Moved(p.tab, p.empty, scan), empty |-> scan, done |-> FALSE]
    BY <1>3 DEF ShiftStep
  <2> QED  BY <2>1, <2>2 DEF Shift
<1>4. CASE ~(p.done \/ p.tab[scan] = Nothing) /\ ~ShouldMove(hash[p.tab[scan].key], p.empty, scan)
  BY <1>4 DEF ShiftStep
<1> QED  BY <1>2, <1>3, <1>4

(* Moving an entry into an empty slot. *)
LEMMA MoveKeeps ==
  ASSUME NEW T \in Table, NEW e \in Index, NEW s \in Index, T[e] = Nothing, T[s] # Nothing, Nothing \notin Entry,
         NEW U, U = Moved(T, e, s), Unique(T), IsFiniteSet(Filled(T))
  PROVE  /\ U \in Table /\ U[e] = T[s] /\ U[s] = Nothing
         /\ \A q \in Index : q # e /\ q # s => U[q] = T[q]
         /\ Unique(U) /\ Same(U, T)
<1>1. U \in Table /\ U[e] = T[s] /\ U[s] = Nothing /\ e # s
  BY DEF Table, Moved
<1>2. \A q \in Index : q # e /\ q # s => U[q] = T[q]
  BY DEF Table, Moved
<1>3. Unique(U)
  <2> SUFFICES ASSUME NEW a \in Index, NEW b \in Index, U[a] # Nothing, U[b] # Nothing, U[a].key = U[b].key
               PROVE  a = b
    BY DEF Unique
  <2> DEFINE From(q) == IF q = e THEN s ELSE q
  <2>1. a # s /\ b # s
    BY <1>1
  <2>2. From(a) \in Index /\ U[a] = T[From(a)] /\ From(b) \in Index /\ U[b] = T[From(b)]
    BY <1>1, <1>2, <2>1
  <2>3. From(a) = From(b)
    BY <2>2 DEF Unique
  <2> QED  BY <2>1, <2>3
<1>4. Filled(U) = (Filled(T) \ {s}) \cup {e} /\ s \in Filled(T) /\ e \notin Filled(T) \ {s}
  BY <1>1, <1>2 DEF Filled
<1>5. IsFiniteSet(Filled(T) \ {s}) /\ Cardinality(Filled(T) \ {s}) = Cardinality(Filled(T)) - 1
  BY <1>4, FS_RemoveElement
<1>6. IsFiniteSet(Filled(U)) /\ Cardinality(Filled(U)) = Cardinality(Filled(T))
  <2>1. PICK X : X = Filled(T) \ {s}
    OBVIOUS
  <2>2. IsFiniteSet(X \cup {e}) /\ Cardinality(X \cup {e}) = Cardinality(X) + 1
    BY <1>4, <1>5, <2>1, FS_AddElement
  <2>3. PICK n \in Nat : n = Cardinality(Filled(T))
    BY FS_CardinalityType
  <2>4. Cardinality(X) = n - 1
    BY <1>5, <2>1, <2>3
  <2>5. Filled(U) = X \cup {e}
    BY <1>4, <2>1
  <2>6. Cardinality(X) + 1 = n
    BY <2>4
  <2> QED  BY <2>2, <2>3, <2>5, <2>6
<1>7. ASSUME NEW x \in Entry PROVE (\E q \in Index : U[q] = x) <=> (\E q \in Index : T[q] = x)
  <2>1. ASSUME NEW q \in Index, U[q] = x PROVE \E r \in Index : T[r] = x
    BY <1>1, <1>2, <2>1
  <2>2. ASSUME NEW q \in Index, T[q] = x PROVE \E r \in Index : U[r] = x
    <3>1. q # e
      BY <2>2
    <3>2. CASE q = s
      BY <1>1, <2>2, <3>2
    <3>3. CASE q # s
      BY <1>2, <2>2, <3>1, <3>3
    <3> QED  BY <3>2, <3>3
  <2> QED  BY <2>1, <2>2
<1>8. Same(U, T)
  BY <1>6, <1>7 DEF Same
<1> QED  BY <1>1, <1>2, <1>3, <1>8

(* A turn of the loop keeps its invariant. *)
LEMMA ShiftStepKeeps ==
  ASSUME MapSizes, hash \in [Keys -> Homes], NEW i \in Nat, i + 1 < Capacity, NEW table, NEW idx \in Index,
         NEW z \in Index, NEW p, Filling(p, i, table, idx, z)
  PROVE  Filling(ShiftStep(p, At(idx + (i + 1))), i + 1, table, idx, z)
<1> DEFINE scan == At(idx + (i + 1))
           T == p.tab
           e == p.empty
           Home(s) == hash[T[s].key]
<1>1. /\ p \in Shift /\ T \in Table /\ e \in Index /\ p.done \in BOOLEAN /\ Unique(T) /\ Same(T, table)
      /\ Nothing \notin Entry
  BY DEF Filling, Shift, MapSizes
<1>2. scan \in Index /\ Dist(idx, scan) = i + 1
  <2>1. i + 1 \in Index
    BY DEF Index, MapSizes
  <2> QED  BY <2>1, Distances
<1>3. \A s \in Index : T[s] # Nothing => Home(s) \in Index
  BY <1>1 DEF Table, Entry, MapSizes
<1>4. \A s, q \in Index : Dist(s, q) \in Nat
  <2>1. \A s, q \in Index : Dist(s, q) \in Index
    BY Distances
  <2> QED  BY <2>1 DEF Index
<1> HIDE DEF scan
<1>5. CASE p.done
  <2>1. ShiftStep(p, scan) = [p EXCEPT !.done = TRUE] /\ [p EXCEPT !.done = TRUE] = p
    BY <1>1, <1>5 DEF ShiftStep, Shift
  <2> QED  BY <1>5, <2>1 DEF Filling, scan
<1>6. CASE ~p.done
  <2>1. /\ T[e] = Nothing /\ T[z] = Nothing /\ Dist(idx, e) <= i /\ i < Dist(idx, z)
        /\ \A s, q \in Index : T[s] # Nothing /\ Dist(Home(s), q) < Dist(Home(s), s)
             => T[q] # Nothing \/ (q = e /\ i < Dist(idx, s))
    BY <1>6 DEF Filling
  <2>2. Dist(idx, e) \in Nat /\ Dist(idx, z) \in Nat /\ scan # e
    BY <1>1, <1>2, <1>4, <2>1
  <2> HIDE DEF T, e, Home
  <2>3. CASE T[scan] = Nothing
    <3>1. ShiftStep(p, scan) = [p EXCEPT !.done = TRUE]
      BY <2>3 DEF ShiftStep, T
    <3>2. /\ [p EXCEPT !.done = TRUE] \in Shift /\ [p EXCEPT !.done = TRUE].tab = T
          /\ [p EXCEPT !.done = TRUE].done = TRUE
      BY <1>1 DEF Shift, T
    <3>3. ASSUME NEW s \in Index, NEW q \in Index, T[s] # Nothing, Dist(Home(s), q) < Dist(Home(s), s)
          PROVE  T[q] # Nothing
      <4> SUFFICES ASSUME q = e, i < Dist(idx, s) PROVE FALSE
        BY <2>1, <3>3
      <4>1. Dist(idx, scan) < Dist(idx, s)
        <5>1. Dist(idx, s) # Dist(idx, scan)
          BY <1>2, <2>3, <3>3, Distances
        <5> QED  BY <1>2, <1>4, <5>1
      <4>2. Dist(e, scan) < Dist(e, s)
        BY <1>1, <1>2, <2>1, <2>2, <4>1, Ways DEF e
      <4>3. Home(s) \in Index /\ e \in Index
        BY <1>1, <1>3, <3>3 DEF e
      <4>4. Dist(Home(s), scan) < Dist(Home(s), s)
        BY <1>2, <3>3, <4>2, <4>3, Ways
      <4> QED  BY <1>2, <2>1, <2>2, <2>3, <3>3, <4>4
    <3>4. Full(T, hash)
      BY <3>3 DEF Full, Home
    <3> QED  BY <1>1, <3>1, <3>2, <3>4 DEF Filling, scan
  <2>4. CASE T[scan] # Nothing /\ ~ShouldMove(Home(scan), e, scan)
    <3>1. ShiftStep(p, scan) = p
      BY <1>6, <2>4 DEF ShiftStep, T, e, Home
    <3>2. Home(scan) \in Index /\ e \in Index /\ ~(Dist(Home(scan), e) < Dist(Home(scan), scan))
      BY <1>1, <1>2, <1>3, <2>4, MoveIsOnPath DEF e
    <3>3. Dist(idx, e) <= i + 1 /\ i + 1 < Dist(idx, z)
      <4>1. Dist(idx, z) # Dist(idx, scan)
        BY <1>2, <2>1, <2>4, Distances
      <4> QED  BY <1>2, <2>1, <2>2, <4>1
    <3>4. ASSUME NEW s \in Index, NEW q \in Index, T[s] # Nothing, Dist(Home(s), q) < Dist(Home(s), s)
          PROVE  T[q] # Nothing \/ (q = e /\ i + 1 < Dist(idx, s))
      <4> SUFFICES ASSUME q = e, i < Dist(idx, s) PROVE i + 1 < Dist(idx, s)
        BY <2>1, <3>4
      <4>1. s # scan
        BY <3>2, <3>4
      <4>2. Dist(idx, s) # Dist(idx, scan)
        BY <1>2, <4>1, Distances
      <4> QED  BY <1>2, <1>4, <4>2
    <3> QED  BY <1>1, <1>6, <2>1, <3>1, <3>3, <3>4 DEF Filling, scan, T, e, Home
  <2>5. CASE T[scan] # Nothing /\ ShouldMove(Home(scan), e, scan)
    <3> DEFINE U == Moved(T, e, scan)
               r == [tab |-> U, empty |-> scan, done |-> FALSE]
    <3>1. ShiftStep(p, scan) = r
      BY <1>6, <2>5 DEF ShiftStep, T, e, Home
    <3>2. /\ U \in Table /\ U[e] = T[scan] /\ U[scan] = Nothing /\ Unique(U) /\ Same(U, T)
          /\ \A q \in Index : q # e /\ q # scan => U[q] = T[q]
      <4>1. IsFiniteSet(Filled(T)) /\ T \in Table /\ e \in Index
        BY <1>1 DEF Same, T, e
      <4>2. Unique(T) /\ Nothing \notin Entry
        BY <1>1 DEF T
      <4>3. U = Moved(T, e, scan)
        OBVIOUS
      <4> HIDE DEF U
      <4>4. T[e] = Nothing /\ T[scan] # Nothing /\ scan \in Index
        BY <1>2, <2>1, <2>5
      <4> QED  BY <4>1, <4>2, <4>3, <4>4, MoveKeeps
    <3> HIDE DEF U
    <3>3. Home(scan) \in Index /\ e \in Index /\ Dist(Home(scan), e) < Dist(Home(scan), scan)
      BY <1>1, <1>2, <1>3, <2>5, MoveIsOnPath DEF e
    <3>4. Same(U, table)
      BY <1>1, <3>2 DEF Same, T
    <3>5. U[z] = Nothing /\ i + 1 < Dist(idx, z) /\ z # e /\ z # scan
      <4>1. Dist(idx, z) # Dist(idx, scan) /\ z # scan
        BY <1>2, <2>1, <2>5, Distances
      <4>2. z # e
        BY <2>1, <2>2
      <4> QED  BY <1>2, <2>1, <2>2, <3>2, <4>1, <4>2
    <3>6. ASSUME NEW s \in Index, NEW q \in Index, U[s] # Nothing, Dist(hash[U[s].key], q) < Dist(hash[U[s].key], s)
          PROVE  U[q] # Nothing \/ (q = scan /\ i + 1 < Dist(idx, s))
      <4>1. CASE s = e
        <5>1. hash[U[s].key] = Home(scan)
          BY <3>2, <4>1 DEF Home
        <5>2. /\ Dist(Home(scan), q) < Dist(Home(scan), e)
          BY <3>6, <4>1, <5>1
        <5>3. Dist(Home(scan), q) < Dist(Home(scan), scan) /\ q # e /\ q # scan
          BY <1>2, <1>4, <3>3, <5>2
        <5>4. T[q] # Nothing
          BY <1>2, <2>1, <2>5, <5>3
        <5> QED  BY <3>2, <5>3, <5>4
      <4>2. CASE s # e
        <5>1. s # scan /\ U[s] = T[s] /\ T[s] # Nothing /\ Dist(Home(s), q) < Dist(Home(s), s) /\ Home(s) \in Index
          BY <1>3, <3>2, <3>6, <4>2 DEF Home
        <5>2. T[q] # Nothing \/ (q = e /\ i < Dist(idx, s))
          BY <2>1, <5>1
        <5>3. CASE q = e
          BY <2>5, <3>2, <5>3
        <5>4. CASE q # e /\ q # scan
          BY <3>2, <5>2, <5>4
        <5>5. CASE q # e /\ q = scan
          <6>1. Dist(idx, s) # Dist(idx, scan)
            BY <1>2, <5>1, Distances
          <6>2. CASE Dist(idx, scan) < Dist(idx, s)
            BY <1>2, <5>5, <6>2
          <6>3. CASE Dist(idx, s) < Dist(idx, scan)
            <7>1. Dist(scan, z) < Dist(scan, s)
              BY <1>2, <3>5, <6>3, Ways
            <7>2. Dist(Home(s), z) < Dist(Home(s), s)
              BY <1>2, <5>1, <5>5, <7>1, Ways
            <7> QED  BY <2>1, <3>5, <5>1, <7>2
          <6> QED  BY <1>2, <1>4, <6>1, <6>2, <6>3
        <5> QED  BY <5>3, <5>4, <5>5
      <4> QED  BY <4>1, <4>2
    <3>7. r \in Shift /\ r.tab = U /\ r.empty = scan /\ r.done = FALSE
      BY <1>2, <3>2 DEF Shift
    <3> HIDE DEF r
    <3>8. Dist(idx, scan) <= i + 1
      BY <1>2
    <3>9. Filling(r, i + 1, table, idx, z)
      BY <3>2, <3>4, <3>5, <3>6, <3>7, <3>8 DEF Filling
    <3> QED  BY <3>1, <3>9 DEF scan
  <2> QED  BY <2>3, <2>4, <2>5
<1> QED  BY <1>1, <1>5, <1>6

(* The loop as a whole leaves the entries in place and no gap on a way. *)
LEMMA ShiftFills ==
  ASSUME MapSizes, hash \in [Keys -> Homes], NEW table \in Table, NEW idx \in Index, NEW z \in Index,
         table[idx] = Nothing, table[z] = Nothing, z # idx, Unique(table), IsFiniteSet(Filled(table)),
         \A s, q \in Index : table[s] # Nothing /\ Dist(hash[table[s].key], q) < Dist(hash[table[s].key], s)
           => table[q] # Nothing \/ q = idx
  PROVE  LET U == BackwardShift(table, idx)
         IN  U \in Table /\ Full(U, hash) /\ Unique(U) /\ Same(U, table)
<1> DEFINE n == Capacity - 1
           first == [tab |-> table, empty |-> idx, done |-> FALSE]
           F == [a \in Shift \X (1 .. n) |-> ShiftStep(a[1], At(idx + a[2]))]
           IsLoop(f) == f = [i \in Index |-> IF i = 0 THEN first ELSE ShiftStep(f[i - 1], At(idx + i))]
<1>1. n \in Nat /\ Index = 0 .. n /\ n < Capacity
  BY DEF MapSizes, Index
<1>2. first \in Shift
  BY DEF Shift
<1>3. \A i \in 1 .. n : At(idx + i) \in Index
  BY <1>1, Distances
<1>4. F \in [Shift \X (1 .. n) -> Shift]
  BY <1>3, ShiftStepType
<1>5. \A a \in Shift, i \in 1 .. n : F[<<a, i>>] = ShiftStep(a, At(idx + i))
  OBVIOUS
<1> HIDE DEF n, first, F
<1>6. \E f : IsLoop(f)
  <2>1. PICK run : IsRun(run, n, Shift, first, F)
    BY <1>1, <1>2, <1>4, FiniteRun
  <2>2. /\ run \in [0 .. n -> Shift] /\ run[0] = first
        /\ \A i \in 1 .. n : run[i] = F[<<run[i - 1], i>>]
    BY <2>1 DEF IsRun
  <2>3. ASSUME NEW i \in 0 .. n, i # 0 PROVE run[i] = ShiftStep(run[i - 1], At(idx + i))
    <3>1. i \in 1 .. n /\ i - 1 \in 0 .. n
      BY <1>1, <2>3
    <3>2. run[i - 1] \in Shift
      BY <2>2, <3>1
    <3> QED  BY <1>5, <2>2, <3>1, <3>2
  <2>4. run = [i \in Index |-> IF i = 0 THEN first ELSE ShiftStep(run[i - 1], At(idx + i))]
    BY <1>1, <2>2, <2>3
  <2> QED  BY <2>4
<1>7. PICK f : IsLoop(f) /\ BackwardShift(table, idx) = f[n].tab
  <2>1. BackwardShift(table, idx) = (CHOOSE f : IsLoop(f))[n].tab
    BY DEF BackwardShift, n, first
  <2> HIDE DEF IsLoop
  <2> QED  BY <1>6, <2>1
<1>8. /\ f[0] = first
      /\ \A i \in Index : i # 0 => f[i] = ShiftStep(f[i - 1], At(idx + i))
  BY <1>1, <1>7
<1> HIDE DEF IsLoop
<1>9. Filling(first, 0, table, idx, z)
  <2>1. first.tab = table /\ first.empty = idx /\ first.done = FALSE
    BY DEF first
  <2>2. Same(table, table)
    BY DEF Same
  <2>3. \A s \in Index : s # idx => 0 < Dist(idx, s)
    BY DEF Dist, Index, MapSizes
  <2>4. Dist(idx, idx) <= 0
    BY DEF Dist, Index, MapSizes
  <2>5. \A s, q \in Index : table[s] # Nothing /\ Dist(hash[table[s].key], q) < Dist(hash[table[s].key], s)
           => table[q] # Nothing \/ (q = idx /\ 0 < Dist(idx, s))
    BY <2>3
  <2> QED  BY <1>2, <2>1, <2>2, <2>3, <2>4, <2>5 DEF Filling
<1>10. \A i \in Index : Filling(f[i], i, table, idx, z)
  <2> DEFINE Bad == {i \in Index : ~Filling(f[i], i, table, idx, z)}
  <2> SUFFICES ASSUME Bad # {} PROVE FALSE
    OBVIOUS
  <2>1. Bad \in SUBSET Nat
    BY <1>1
  <2>2. PICK m \in Bad : \A y \in Bad : m <= y
    BY <2>1, LeastNat
  <2>3. m \in Index /\ m # 0
    BY <1>8, <1>9
  <2>4. PICK i \in Nat : m = i + 1 /\ i \in Index /\ i + 1 < Capacity
    <3>1. m - 1 \in Nat /\ m = (m - 1) + 1 /\ m - 1 \in Index /\ (m - 1) + 1 < Capacity
      BY <1>1, <2>3 DEF MapSizes
    <3> QED  BY <3>1
  <2>5. Filling(f[i], i, table, idx, z)
    <3>1. i \notin Bad
      BY <2>2, <2>4
    <3> QED  BY <2>4, <3>1
  <2>6. f[m] = ShiftStep(f[i], At(idx + (i + 1)))
    BY <1>8, <2>3, <2>4
  <2>7. Filling(f[m], m, table, idx, z)
    BY <2>4, <2>5, <2>6, ShiftStepKeeps
  <2> QED  BY <2>7
<1>11. Filling(f[n], n, table, idx, z)
  BY <1>1, <1>10
<1>12. f[n].done
  <2>1. Dist(idx, z) \in 0 .. n
    BY <1>1, Distances
  <2>2. ~(n < Dist(idx, z))
    BY <1>1, <2>1
  <2> QED  BY <1>11, <2>2 DEF Filling
<1>13. f[n].tab \in Table /\ Full(f[n].tab, hash) /\ Unique(f[n].tab) /\ Same(f[n].tab, table)
  BY <1>11, <1>12 DEF Filling, Shift
<1> QED  BY <1>7, <1>13

-----------------------------------------------------------------------------
(* The map that a table stands for. *)
Map(T) ==
  [k \in {T[i].key : i \in Filled(T)} |-> T[CHOOSE i \in Filled(T) : T[i].key = k].val]

(* The refinement mapping is the map of the table. *)
LEMMA ContentsIsMap == Contents = Map(slots) /\ Occupied = Filled(slots)
BY DEF Contents, Map, Occupied, Filled

(* What is in it. *)
LEMMA MapHolds ==
  ASSUME NEW T \in Table, Nothing \notin Entry, Unique(T)
  PROVE  /\ DOMAIN Map(T) = {k \in Keys : \E i \in Index : T[i] # Nothing /\ T[i].key = k}
         /\ \A i \in Index : T[i] # Nothing => T[i].key \in DOMAIN Map(T) /\ Map(T)[T[i].key] = T[i].val
<1>1. \A i \in Index : T[i] # Nothing => T[i] \in Entry /\ T[i].key \in Keys
  BY DEF Table, Entry
<1>2. DOMAIN Map(T) = {T[i].key : i \in Filled(T)}
  BY DEF Map
<1>3. {T[i].key : i \in Filled(T)} = {k \in Keys : \E i \in Index : T[i] # Nothing /\ T[i].key = k}
  BY <1>1 DEF Filled
<1>4. ASSUME NEW i \in Index, T[i] # Nothing
      PROVE  T[i].key \in DOMAIN Map(T) /\ Map(T)[T[i].key] = T[i].val
  <2>1. i \in Filled(T) /\ T[i].key \in {T[j].key : j \in Filled(T)}
    BY <1>4 DEF Filled
  <2>2. Map(T)[T[i].key] = T[CHOOSE j \in Filled(T) : T[j].key = T[i].key].val
    BY <2>1 DEF Map
  <2>3. (CHOOSE j \in Filled(T) : T[j].key = T[i].key) = i
    <3>1. \A j \in Filled(T) : T[j].key = T[i].key <=> j = i
      BY <1>4 DEF Unique, Filled
    <3> QED  BY <2>1, <3>1
  <2> QED  BY <1>2, <2>1, <2>2, <2>3
<1> QED  BY <1>2, <1>3, <1>4

(* Keys and filled slots are equally many. *)
LEMMA MapSize ==
  ASSUME NEW T \in Table, Nothing \notin Entry, Unique(T), IsFiniteSet(Filled(T))
  PROVE  Cardinality(DOMAIN Map(T)) = Cardinality(Filled(T))
<1> DEFINE D == DOMAIN Map(T)
           f == [i \in Filled(T) |-> T[i].key]
<1>1. \A i \in Filled(T) : i \in Index /\ T[i] # Nothing
  BY DEF Filled
<1>2. f \in [Filled(T) -> D]
  BY <1>1, MapHolds
<1>3. \A k \in D : \E i \in Filled(T) : f[i] = k
  <2>1. D = {k \in Keys : \E i \in Index : T[i] # Nothing /\ T[i].key = k}
    BY MapHolds
  <2>2. ASSUME NEW k \in D PROVE \E i \in Filled(T) : f[i] = k
    <3>1. PICK i \in Index : T[i] # Nothing /\ T[i].key = k
      BY <2>1
    <3>2. i \in Filled(T)
      BY <3>1 DEF Filled
    <3> QED  BY <3>1, <3>2
  <2> QED  BY <2>2
<1>4. \A i, j \in Filled(T) : f[i] = f[j] => i = j
  BY <1>1 DEF Unique
<1> HIDE DEF D, f
<1>5. f \in Bijection(Filled(T), D)
  BY <1>2, <1>3, <1>4 DEF Bijection, Injection, Surjection, IsInjective
<1>6. ExistsBijection(Filled(T), D)
  BY <1>5 DEF ExistsBijection
<1>7. Cardinality(D) = Cardinality(Filled(T))
  BY <1>6, FS_Bijection
<1> QED  BY <1>7 DEF D

(* A table with the entries of a map stands for that map. *)
TableLists(T, D, f) ==
  /\ f = [k \in D |-> f[k]]
  /\ \A k \in D : \E i \in Index : T[i] # Nothing /\ T[i].key = k
  /\ \A i \in Index : T[i] # Nothing => T[i].key \in D /\ T[i].val = f[T[i].key]

(* It is determined by its entries. *)
LEMMA MapEqual ==
  ASSUME NEW T \in Table, Nothing \notin Entry, Unique(T), NEW D, NEW f, TableLists(T, D, f)
  PROVE  Map(T) = f
<1> USE DEF TableLists
<1>1. DOMAIN Map(T) = D
  <2>1. \A k \in D : k \in Keys
    BY DEF Table, Entry
  <2>2. DOMAIN Map(T) = {k \in Keys : \E i \in Index : T[i] # Nothing /\ T[i].key = k}
    BY MapHolds
  <2> QED  BY <2>1, <2>2
<1>2. ASSUME NEW k \in D PROVE Map(T)[k] = f[k]
  <2>1. PICK i \in Index : T[i] # Nothing /\ T[i].key = k
    OBVIOUS
  <2>2. Map(T)[T[i].key] = T[i].val
    BY <2>1, MapHolds
  <2> QED  BY <2>1, <2>2
<1>3. Map(T) = [k \in DOMAIN Map(T) |-> Map(T)[k]]
  BY DEF Map
<1> QED  BY <1>1, <1>2, <1>3

-----------------------------------------------------------------------------
(* The inductive invariant. *)
MapInv ==
  /\ slots \in Table /\ hash \in [Keys -> Homes]
  /\ Full(slots, hash) /\ Unique(slots)
  /\ IsFiniteSet(Filled(slots)) /\ len = Cardinality(Filled(slots)) /\ len <= Limit

(* A quarter of the slots is kept free. *)
LEMMA LimitBelow ==
  ASSUME MapSizes
  PROVE  Limit \in Nat /\ Limit < Capacity /\ 4 * Limit <= 3 * Capacity
BY DEF MapSizes, Limit

(* There are as many slots as the capacity says. *)
LEMMA IndexSize ==
  ASSUME MapSizes
  PROVE  IsFiniteSet(Index) /\ Cardinality(Index) = Capacity
<1>1. Capacity - 1 \in Int /\ 0 \in Int /\ (Capacity - 1) - 0 + 1 = Capacity /\ 0 <= Capacity - 1
  BY DEF MapSizes
<1> QED  BY <1>1, FS_Interval DEF Index

(* There is a free slot; a search ends there at the latest. *)
LEMMA FreeSlot ==
  ASSUME MapSizes, MapInv
  PROVE  \E z \in Index : slots[z] = Nothing
<1> SUFFICES ASSUME \A z \in Index : slots[z] # Nothing PROVE FALSE
  OBVIOUS
<1>1. Filled(slots) = Index
  BY DEF Filled
<1>2. len = Capacity
  BY <1>1, IndexSize DEF MapInv
<1> QED  BY <1>2, LimitBelow DEF MapInv, MapSizes

(* Where a search for k ends, and whether k is in the map. *)
LEMMA ProbeDecides ==
  ASSUME MapSizes, MapInv, NEW k \in Keys
  PROVE  /\ Probe(k) \in Index
         /\ slots[Probe(k)] = Nothing => k \notin DOMAIN Contents
         /\ slots[Probe(k)] # Nothing => /\ slots[Probe(k)] \in Entry /\ slots[Probe(k)].key = k
                                      /\ k \in DOMAIN Contents /\ Contents[k] = slots[Probe(k)].val
<1>1. /\ slots \in Table /\ hash \in [Keys -> Homes] /\ Full(slots, hash) /\ Unique(slots) /\ Nothing \notin Entry
  BY DEF MapInv, MapSizes
<1>2. PICK z \in Index : slots[z] = Nothing
  BY FreeSlot
<1>3. Probe(k) \in Index /\ (slots[Probe(k)] = Nothing \/ slots[Probe(k)].key = k)
  BY <1>1, <1>2, ProbeEnds
<1>4. DOMAIN Contents = {x \in Keys : \E i \in Index : slots[i] # Nothing /\ slots[i].key = x}
  BY <1>1, MapHolds, ContentsIsMap
<1>5. ASSUME slots[Probe(k)] = Nothing PROVE k \notin DOMAIN Contents
  <2> SUFFICES ASSUME k \in DOMAIN Contents PROVE FALSE
    OBVIOUS
  <2>1. PICK j \in Index : slots[j] # Nothing /\ slots[j].key = k
    BY <1>4
  <2>2. Probe(k) = j
    BY <1>1, <1>2, <2>1, ProbeFinds
  <2> QED  BY <1>5, <2>1, <2>2
<1>6. ASSUME slots[Probe(k)] # Nothing
      PROVE  /\ slots[Probe(k)] \in Entry /\ slots[Probe(k)].key = k
             /\ k \in DOMAIN Contents /\ Contents[k] = slots[Probe(k)].val
  <2>1. slots[Probe(k)].key = k /\ slots[Probe(k)] \in Entry
    BY <1>1, <1>3, <1>6 DEF Table
  <2>2. slots[Probe(k)].key \in DOMAIN Map(slots) /\ Map(slots)[slots[Probe(k)].key] = slots[Probe(k)].val
    BY <1>1, <1>3, <1>6, MapHolds
  <2> QED  BY <2>1, <2>2, ContentsIsMap
<1> QED  BY <1>3, <1>5, <1>6

(* Writing an entry where its search ended. *)
LEMMA PutKeeps ==
  ASSUME MapSizes, MapInv, NEW k \in Keys, NEW v \in Values, hash' = hash,
         slots' = [slots EXCEPT ![Probe(k)] = [key |-> k, val |-> v]]
  PROVE  /\ slots' \in Table /\ Full(slots', hash') /\ Unique(slots')
         /\ Filled(slots') = Filled(slots) \cup {Probe(k)}
         /\ Map(slots') = Abstract!Put(k, v)
<1> DEFINE i == Probe(k)
           x == [key |-> k, val |-> v]
<1>1. /\ slots \in Table /\ hash \in [Keys -> Homes] /\ Full(slots, hash) /\ Unique(slots) /\ Nothing \notin Entry
  BY DEF MapInv, MapSizes
<1>2. PICK z \in Index : slots[z] = Nothing
  BY FreeSlot
<1>3. /\ i \in Index /\ (slots[i] = Nothing \/ slots[i].key = k)
      /\ \A q \in Index : Dist(hash[k], q) < Dist(hash[k], i) => slots[q] # Nothing /\ slots[q].key # k
  BY <1>1, <1>2, ProbeEnds
<1>4. x \in Entry /\ x # Nothing /\ x.key = k /\ x.val = v
  BY <1>1 DEF Entry
<1> HIDE DEF i, x
<1>5. /\ slots' \in Table /\ slots'[i] = x /\ \A q \in Index : q # i => slots'[q] = slots[q]
  BY <1>1, <1>3, <1>4 DEF Table, i, x
<1>6. Full(slots', hash')
  <2> SUFFICES ASSUME NEW s \in Index, NEW q \in Index, slots'[s] # Nothing,
                      Dist(hash[slots'[s].key], q) < Dist(hash[slots'[s].key], s)
               PROVE  slots'[q] # Nothing
    BY DEF Full
  <2>1. CASE q = i
    BY <1>4, <1>5, <2>1
  <2>2. CASE q # i /\ s = i
    BY <1>3, <1>4, <1>5, <2>2
  <2>3. CASE q # i /\ s # i
    BY <1>1, <1>5, <2>3 DEF Full
  <2> QED  BY <2>1, <2>2, <2>3
<1>7. \A q \in Index : slots[q] # Nothing /\ slots[q].key = k => q = i
  <2> SUFFICES ASSUME NEW q \in Index, slots[q] # Nothing, slots[q].key = k PROVE q = i
    OBVIOUS
  <2> QED  BY <1>1, <1>2, ProbeFinds DEF i
<1>8. Unique(slots')
  <2> SUFFICES ASSUME NEW s \in Index, NEW q \in Index, slots'[s] # Nothing, slots'[q] # Nothing,
                      slots'[s].key = slots'[q].key
               PROVE  s = q
    BY DEF Unique
  <2>1. CASE s = i \/ q = i
    BY <1>4, <1>5, <1>7, <2>1
  <2>2. CASE s # i /\ q # i
    BY <1>1, <1>5, <2>2 DEF Unique
  <2> QED  BY <2>1, <2>2
<1>9. Filled(slots') = Filled(slots) \cup {i}
  BY <1>3, <1>4, <1>5 DEF Filled
<1>10. Map(slots') = Abstract!Put(k, v)
  <2> DEFINE D == DOMAIN Contents \cup {k}
             f == Abstract!Put(k, v)
  <2>1. f = [y \in D |-> IF y = k THEN v ELSE Contents[y]]
    BY DEF Abstract!Put
  <2>2. DOMAIN Contents = {y \in Keys : \E j \in Index : slots[j] # Nothing /\ slots[j].key = y}
    BY <1>1, MapHolds, ContentsIsMap
  <2>3. \A j \in Index : slots[j] # Nothing => slots[j].key \in DOMAIN Contents /\ Contents[slots[j].key] = slots[j].val
    BY <1>1, MapHolds, ContentsIsMap
  <2> HIDE DEF D, f
  <2>4. ASSUME NEW y \in D PROVE \E j \in Index : slots'[j] # Nothing /\ slots'[j].key = y
    <3>1. CASE y = k
      BY <1>3, <1>4, <1>5, <3>1
    <3>2. CASE y # k
      <4>1. y \in DOMAIN Contents
        BY <3>2 DEF D
      <4>2. PICK j \in Index : slots[j] # Nothing /\ slots[j].key = y
        BY <2>2, <4>1
      <4>3. j # i
        BY <1>3, <3>2, <4>2
      <4> QED  BY <1>5, <4>2, <4>3
    <3> QED  BY <3>1, <3>2
  <2>5. ASSUME NEW j \in Index, slots'[j] # Nothing PROVE slots'[j].key \in D /\ slots'[j].val = f[slots'[j].key]
    <3>1. CASE j = i
      <4>1. slots'[j].key = k /\ slots'[j].val = v /\ k \in D
        BY <1>4, <1>5, <3>1 DEF D
      <4> QED  BY <2>1, <4>1
    <3>2. CASE j # i
      <4>1. slots'[j] = slots[j] /\ slots[j] # Nothing /\ slots[j].key # k
        BY <1>5, <1>7, <2>5, <3>2
      <4>2. slots[j].key \in D /\ Contents[slots[j].key] = slots[j].val
        BY <2>3, <4>1 DEF D
      <4> QED  BY <2>1, <4>1, <4>2
    <3> QED  BY <3>1, <3>2
  <2>6. f = [y \in D |-> f[y]]
    BY <2>1
  <2>7. Map(slots') = f
    <3>1. TableLists(slots', D, f)
      BY <2>4, <2>5, <2>6 DEF TableLists
    <3> QED  BY <1>1, <1>5, <1>8, <3>1, MapEqual
  <2> QED  BY <2>7 DEF f
<1> QED  BY <1>5, <1>6, <1>8, <1>9, <1>10 DEF i

(* Taking an entry out. *)
LEMMA RemoveKeeps ==
  ASSUME MapSizes, MapInv, NEW k \in Keys, slots[Probe(k)] # Nothing, hash' = hash,
         slots' = BackwardShift([slots EXCEPT ![Probe(k)] = Nothing], Probe(k))
  PROVE  /\ slots' \in Table /\ Full(slots', hash') /\ Unique(slots')
         /\ IsFiniteSet(Filled(slots')) /\ Cardinality(Filled(slots')) = len - 1
         /\ Map(slots') = [x \in DOMAIN Contents \ {k} |-> Contents[x]]
<1> DEFINE i == Probe(k)
           T == [slots EXCEPT ![i] = Nothing]
<1>1. /\ slots \in Table /\ hash \in [Keys -> Homes] /\ Full(slots, hash) /\ Unique(slots) /\ Nothing \notin Entry
      /\ IsFiniteSet(Filled(slots)) /\ len = Cardinality(Filled(slots))
  BY DEF MapInv, MapSizes
<1>2. PICK z \in Index : slots[z] = Nothing
  BY FreeSlot
<1>3. i \in Index /\ slots[i] # Nothing /\ slots[i].key = k
  BY ProbeDecides
<1> HIDE DEF i
<1>4. T \in Table /\ T[i] = Nothing /\ \A q \in Index : q # i => T[q] = slots[q]
  BY <1>1, <1>3 DEF Table
<1>5. slots' = BackwardShift(T, i)
  BY DEF i
<1> HIDE DEF T
<1>6. Unique(T)
  BY <1>1, <1>4 DEF Unique
<1>7. Filled(T) = Filled(slots) \ {i} /\ i \in Filled(slots)
  BY <1>3, <1>4 DEF Filled
<1>8. IsFiniteSet(Filled(T)) /\ Cardinality(Filled(T)) = len - 1
  BY <1>1, <1>7, FS_RemoveElement
<1>9. ASSUME NEW s \in Index, NEW q \in Index, T[s] # Nothing, Dist(hash[T[s].key], q) < Dist(hash[T[s].key], s)
      PROVE  T[q] # Nothing \/ q = i
  <2>1. s # i /\ T[s] = slots[s]
    BY <1>4, <1>9
  <2>2. slots[q] # Nothing
    BY <1>1, <1>9, <2>1 DEF Full
  <2> QED  BY <1>4, <2>2
<1>10. slots' \in Table /\ Full(slots', hash) /\ Unique(slots') /\ Same(slots', T)
  <2>1. T[z] = Nothing /\ z # i
    BY <1>2, <1>3, <1>4
  <2> QED  BY <1>1, <1>3, <1>4, <1>5, <1>6, <1>8, <1>9, <2>1, ShiftFills
<1>11. IsFiniteSet(Filled(slots')) /\ Cardinality(Filled(slots')) = len - 1
  BY <1>8, <1>10 DEF Same
<1>12. \A x \in Entry : (\E s \in Index : slots'[s] = x) <=> (\E s \in Index : T[s] = x)
  BY <1>10 DEF Same
<1>13. Map(slots') = [x \in DOMAIN Contents \ {k} |-> Contents[x]]
  <2> DEFINE D == DOMAIN Contents \ {k}
             f == [x \in D |-> Contents[x]]
  <2>1. \A j \in Index : slots[j] # Nothing => slots[j].key \in DOMAIN Contents /\ Contents[slots[j].key] = slots[j].val
    BY <1>1, MapHolds, ContentsIsMap
  <2>2. DOMAIN Contents = {y \in Keys : \E j \in Index : slots[j] # Nothing /\ slots[j].key = y}
    BY <1>1, MapHolds, ContentsIsMap
  <2>3. ASSUME NEW y \in D PROVE \E j \in Index : slots'[j] # Nothing /\ slots'[j].key = y
    <3>1. PICK j \in Index : slots[j] # Nothing /\ slots[j].key = y
      BY <2>2
    <3>2. j # i /\ T[j] = slots[j] /\ T[j] \in Entry
      BY <1>1, <1>3, <1>4, <2>3, <3>1 DEF Table
    <3>3. PICK s \in Index : slots'[s] = T[j]
      BY <1>12, <3>2
    <3> QED  BY <1>1, <3>1, <3>2, <3>3
  <2>4. ASSUME NEW j \in Index, slots'[j] # Nothing PROVE slots'[j].key \in D /\ slots'[j].val = f[slots'[j].key]
    <3>1. slots'[j] \in Entry
      BY <1>10, <2>4 DEF Table
    <3>2. PICK s \in Index : T[s] = slots'[j]
      BY <1>12, <3>1
    <3>3. s # i /\ slots[s] = slots'[j] /\ slots[s] # Nothing
      BY <1>4, <2>4, <3>2
    <3>4. slots[s].key # k
      BY <1>1, <1>3, <3>3 DEF Unique
    <3>5. slots[s].key \in D
      BY <2>1, <3>3, <3>4
    <3> QED  BY <2>1, <3>3, <3>5
  <2> HIDE DEF D
  <2>5. f = [y \in D |-> f[y]]
    OBVIOUS
  <2> HIDE DEF f
  <2>6. Map(slots') = f
    <3>1. TableLists(slots', D, f)
      BY <2>3, <2>4, <2>5 DEF TableLists
    <3> QED  BY <1>1, <1>10, <3>1, MapEqual
  <2> QED  BY <2>6 DEF f, D
<1> QED  BY <1>10, <1>11, <1>13

(* Every call keeps the invariant and does to the map what the abstract    *)
(* call does.                                                              *)
LEMMA InsertRefines ==
  ASSUME MapSizes, MapInv, NEW k \in Keys, NEW v \in Values, MapInsert(k, v) \/ GetOrInsert(k, v)
  PROVE  MapInv' /\ (Abstract!Insert(k, v) \/ Abstract!GetOrInsert(k, v))
<1> DEFINE i == Probe(k)
<1>1. /\ i \in Index
      /\ slots[i] = Nothing => k \notin DOMAIN Contents
      /\ slots[i] # Nothing => k \in DOMAIN Contents /\ Contents[k] = slots[i].val
  BY ProbeDecides
<1>2. len \in Nat /\ Cardinality(DOMAIN Contents) = len /\ hash' = hash
  <2>1. IsFiniteSet(Filled(slots)) /\ len = Cardinality(Filled(slots)) /\ slots \in Table /\ Unique(slots)
        /\ Nothing \notin Entry
    BY DEF MapInv, MapSizes
  <2>2. len \in Nat
    BY <2>1, FS_CardinalityType
  <2>3. Cardinality(DOMAIN Contents) = len
    BY <2>1, MapSize, ContentsIsMap
  <2> QED  BY <2>2, <2>3 DEF MapInsert, GetOrInsert
<1>3. Limit \in Nat
  BY LimitBelow
<1>4. Contents = Map(slots) /\ Contents' = Map(slots')
  BY ContentsIsMap DEF Contents, Map, Occupied, Filled
<1>5. Abstract!HasRoom(k) <=> slots[i] # Nothing \/ len < Limit
  <2>1. Abstract!HasRoom(k) <=> k \in DOMAIN Contents \/ len < Limit
    BY <1>2 DEF Abstract!HasRoom, Abstract!Cardinality, Cardinality
  <2>2. k \in DOMAIN Contents <=> slots[i] # Nothing
    BY <1>1
  <2> QED  BY <2>1, <2>2
<1>6. ASSUME UNCHANGED <<slots, len>>
      PROVE  MapInv' /\ Contents' = Contents
  BY <1>2, <1>4, <1>6 DEF MapInv
<1>7. ASSUME slots' = [slots EXCEPT ![i] = [key |-> k, val |-> v]],
             (slots[i] = Nothing /\ len < Limit /\ len' = len + 1) \/ (slots[i] # Nothing /\ len' = len)
      PROVE  MapInv' /\ Contents' = Abstract!Put(k, v)
  <2>1. /\ slots' \in Table /\ Full(slots', hash') /\ Unique(slots')
        /\ Filled(slots') = Filled(slots) \cup {i} /\ Map(slots') = Abstract!Put(k, v)
    BY <1>2, <1>7, PutKeeps
  <2>2. IsFiniteSet(Filled(slots)) /\ len = Cardinality(Filled(slots)) /\ len <= Limit /\ hash \in [Keys -> Homes]
    BY DEF MapInv
  <2>3. /\ IsFiniteSet(Filled(slots'))
        /\ Cardinality(Filled(slots')) = IF i \in Filled(slots) THEN len ELSE len + 1
    BY <2>1, <2>2, FS_AddElement
  <2>4. i \in Filled(slots) <=> slots[i] # Nothing
    BY <1>1 DEF Filled
  <2>5. len' = Cardinality(Filled(slots')) /\ len' <= Limit
    BY <1>2, <1>3, <1>7, <2>2, <2>3, <2>4
  <2> QED  BY <1>2, <1>4, <2>1, <2>2, <2>3, <2>5 DEF MapInv
<1> HIDE DEF i
<1>8. CASE MapInsert(k, v)
  <2>1. CASE slots[i] = Nothing /\ len >= Limit
    <3>1. UNCHANGED <<slots, len>> /\ out' = "full"
      BY <1>8, <2>1, <1>2, <1>3 DEF MapInsert, i
    <3>2. ~Abstract!HasRoom(k)
      BY <1>2, <1>3, <1>5, <2>1
    <3> QED  BY <1>6, <3>1, <3>2 DEF Abstract!Insert
  <2>2. CASE slots[i] # Nothing \/ len < Limit
    <3>1. /\ slots' = [slots EXCEPT ![i] = [key |-> k, val |-> v]] /\ out' = "ok"
          /\ (slots[i] = Nothing /\ len < Limit /\ len' = len + 1) \/ (slots[i] # Nothing /\ len' = len)
      BY <1>8, <2>2, <1>2, <1>3 DEF MapInsert, i
    <3>2. MapInv' /\ Contents' = Abstract!Put(k, v)
      BY <1>7, <3>1
    <3> QED  BY <1>5, <2>2, <3>1, <3>2 DEF Abstract!Insert
  <2> QED  BY <1>2, <1>3, <2>1, <2>2
<1>9. CASE GetOrInsert(k, v)
  <2>1. CASE slots[i] # Nothing
    <3>1. UNCHANGED <<slots, len>> /\ out' = slots[i].val
      BY <1>9, <2>1 DEF GetOrInsert, i
    <3> QED  BY <1>1, <1>6, <2>1, <3>1 DEF Abstract!GetOrInsert
  <2>2. CASE slots[i] = Nothing /\ len >= Limit
    <3>1. UNCHANGED <<slots, len>> /\ out' = "panic"
      BY <1>9, <2>2, <1>2, <1>3 DEF GetOrInsert, i
    <3>2. ~Abstract!HasRoom(k)
      BY <1>2, <1>3, <1>5, <2>2
    <3> QED  BY <1>1, <1>6, <2>2, <3>1, <3>2 DEF Abstract!GetOrInsert
  <2>3. CASE slots[i] = Nothing /\ len < Limit
    <3>1. /\ slots' = [slots EXCEPT ![i] = [key |-> k, val |-> v]] /\ out' = v /\ len' = len + 1
      BY <1>9, <2>3, <1>2, <1>3 DEF GetOrInsert, i
    <3>2. MapInv' /\ Contents' = Abstract!Put(k, v)
      BY <1>7, <2>3, <3>1
    <3> QED  BY <1>1, <1>5, <2>3, <3>1, <3>2 DEF Abstract!GetOrInsert
  <2> QED  BY <1>2, <1>3, <2>1, <2>2, <2>3
<1> QED  BY <1>8, <1>9

(* remove, with its backward shift, takes one key out of the map. *)
LEMMA RemoveRefines ==
  ASSUME MapSizes, MapInv, NEW k \in Keys, MapRemove(k)
  PROVE  MapInv' /\ Abstract!Remove(k)
<1> DEFINE i == Probe(k)
<1>1. /\ i \in Index
      /\ slots[i] = Nothing => k \notin DOMAIN Contents
      /\ slots[i] # Nothing => k \in DOMAIN Contents /\ Contents[k] = slots[i].val
  BY ProbeDecides
<1>2. Contents = Map(slots) /\ Contents' = Map(slots') /\ hash' = hash
  BY ContentsIsMap DEF Contents, Map, Occupied, Filled, MapRemove
<1>3. CASE slots[i] = Nothing
  <2>1. UNCHANGED <<slots, len>> /\ out' = Nothing
    BY <1>3 DEF MapRemove
  <2>2. DOMAIN Contents \ {k} = DOMAIN Contents /\ Contents = [x \in DOMAIN Contents |-> Contents[x]]
    BY <1>1, <1>3 DEF Contents
  <2>3. Contents' = [x \in DOMAIN Contents \ {k} |-> Contents[x]]
    BY <1>2, <2>1, <2>2
  <2>4. MapInv'
    BY <1>2, <2>1 DEF MapInv
  <2> QED  BY <1>1, <1>3, <2>1, <2>3, <2>4 DEF Abstract!Remove, Abstract!Lookup
<1>4. CASE slots[i] # Nothing
  <2>1. /\ slots' = BackwardShift([slots EXCEPT ![i] = Nothing], i) /\ len' = len - 1 /\ out' = slots[i].val
    BY <1>4 DEF MapRemove
  <2>2. /\ slots' \in Table /\ Full(slots', hash') /\ Unique(slots')
        /\ IsFiniteSet(Filled(slots')) /\ Cardinality(Filled(slots')) = len - 1
        /\ Map(slots') = [x \in DOMAIN Contents \ {k} |-> Contents[x]]
    BY <1>2, <1>4, <2>1, RemoveKeeps
  <2>3. len <= Limit /\ len \in Nat /\ hash \in [Keys -> Homes] /\ Limit \in Nat
    BY FS_CardinalityType, LimitBelow DEF MapInv
  <2>4. MapInv'
    BY <1>2, <2>1, <2>2, <2>3 DEF MapInv
  <2> QED  BY <1>1, <1>2, <1>4, <2>1, <2>2, <2>4 DEF Abstract!Remove, Abstract!Lookup
<1> QED  BY <1>3, <1>4

(* The start, also after clear. *)
LEMMA EmptyMap ==
  ASSUME MapSizes, NEW T, T = [i \in Index |-> Nothing], NEW h \in [Keys -> Homes]
  PROVE  /\ T \in Table /\ Full(T, h) /\ Unique(T) /\ Filled(T) = {}
         /\ IsFiniteSet(Filled(T)) /\ Cardinality(Filled(T)) = 0 /\ 0 <= Limit
         /\ Map(T) = [x \in {} |-> Nothing]
<1>1. T \in Table /\ Full(T, h) /\ Unique(T)
  BY DEF Table, Full, Unique
<1>2. Filled(T) = {}
  BY DEF Filled
<1>3. IsFiniteSet(Filled(T)) /\ Cardinality(Filled(T)) = 0
  BY <1>2, FS_EmptySet
<1>4. Map(T) = [x \in {} |-> Nothing]
  <2>1. {T[i].key : i \in Filled(T)} = {}
    BY <1>2
  <2> QED  BY <2>1 DEF Map
<1>5. 0 <= Limit
  BY LimitBelow
<1> QED  BY <1>1, <1>2, <1>3, <1>4, <1>5

(* A new table is the empty map. *)
LEMMA MapStart ==
  ASSUME MapSizes
  PROVE  (MapInit => MapInv /\ Abstract!Init)
<1> SUFFICES ASSUME MapInit PROVE MapInv /\ Abstract!Init
  OBVIOUS
<1>1. slots = [i \in Index |-> Nothing] /\ len = 0 /\ hash \in [Keys -> Homes] /\ out = Nothing
  BY DEF MapInit
<1> QED  BY <1>1, EmptyMap, ContentsIsMap DEF MapInv, Abstract!Init

(* Every step of the table keeps the invariant and is a step of the map. *)
LEMMA MapStep ==
  ASSUME MapSizes
  PROVE  (MapInv /\ [MapNext]_mapVars => MapInv' /\ [Abstract!Next]_<<Contents, out>>)
<1> SUFFICES ASSUME MapInv, [MapNext]_mapVars PROVE MapInv' /\ [Abstract!Next]_<<Contents, out>>
  OBVIOUS
<1>1. Contents = Map(slots) /\ Contents' = Map(slots')
  BY ContentsIsMap DEF Contents, Map, Occupied, Filled
<1>2. ASSUME UNCHANGED <<slots, len, hash>> PROVE MapInv' /\ Contents' = Contents
  BY <1>1, <1>2 DEF MapInv
<1>3. CASE UNCHANGED mapVars
  BY <1>2, <1>3 DEF mapVars
<1>4. ASSUME NEW k \in Keys, NEW v \in Values, MapInsert(k, v) \/ GetOrInsert(k, v)
      PROVE  MapInv' /\ [Abstract!Next]_<<Contents, out>>
  BY <1>4, InsertRefines DEF Abstract!Next
<1>5. ASSUME NEW k \in Keys, Get(k) PROVE MapInv' /\ [Abstract!Next]_<<Contents, out>>
  <2>1. /\ slots[Probe(k)] = Nothing => k \notin DOMAIN Contents
        /\ slots[Probe(k)] # Nothing => k \in DOMAIN Contents /\ Contents[k] = slots[Probe(k)].val
    BY ProbeDecides
  <2>2. MapInv' /\ Contents' = Contents
    BY <1>2, <1>5 DEF Get
  <2>3. out' = Abstract!Lookup(k)
    BY <1>5, <2>1 DEF Get, Abstract!Lookup
  <2> QED  BY <2>2, <2>3 DEF Abstract!Next, Abstract!Get
<1>6. ASSUME NEW k \in Keys, MapRemove(k) PROVE MapInv' /\ [Abstract!Next]_<<Contents, out>>
  BY <1>6, RemoveRefines DEF Abstract!Next
<1>7. CASE ClearMap
  <2>1. slots' = [i \in Index |-> Nothing] /\ len' = 0 /\ out' = Nothing /\ hash' = hash
    BY <1>7 DEF ClearMap
  <2>2. hash \in [Keys -> Homes]
    BY DEF MapInv
  <2> QED  BY <1>1, <2>1, <2>2, EmptyMap DEF MapInv, Abstract!Next, Abstract!Clear
<1> QED  BY <1>3, <1>4, <1>5, <1>6, <1>7 DEF MapNext

(* The hash table implements the bounded map, whatever its capacity and    *)
(* whatever the hash function: every call of it, the backward shift of a   *)
(* removal and the refusal at three quarters included, changes and returns *)
(* what the map would.                                                     *)
THEOREM ImplementsMapEver ==
  ASSUME MapSizes
  PROVE  MapSpec => ImplementsMap
BY MapStart, MapStep, PTL DEF MapSpec, ImplementsMap, Abstract!Spec

(* Every search ends: a quarter of the slots stays free, so the unbounded  *)
(* loops of get, insert and remove always find an empty slot or the key.   *)
THEOREM ProbeStopsEver ==
  ASSUME MapSizes
  PROVE  MapSpec => []ProbeStops
<1>1. MapInv => ProbeStops
  <2> SUFFICES ASSUME MapInv PROVE ProbeStops
    OBVIOUS
  <2>1. slots \in Table /\ hash \in [Keys -> Homes] /\ len = Cardinality(Occupied) /\ len \in Nat /\ len <= Limit
    BY ContentsIsMap, FS_CardinalityType DEF MapInv
  <2>2. 4 * len <= 3 * Capacity
    BY <2>1, LimitBelow DEF MapSizes
  <2>3. ASSUME NEW k \in Keys PROVE Stops(k) # {}
    BY <2>1, FreeSlot, ProbeEnds
  <2> QED  BY <2>1, <2>2, <2>3 DEF ProbeStops, MapTyped, Table
<1> QED  BY <1>1, MapStart, MapStep, PTL DEF MapSpec

(* The layout that searches rely on: an entry is reached from its home     *)
(* without an empty slot in between, and no key is in the table twice,     *)
(* however removals have shifted the entries.                              *)
THEOREM ProbePathsFullEver ==
  ASSUME MapSizes
  PROVE  MapSpec => []ProbePathsFull
<1>1. MapInv => ProbePathsFull
  <2> SUFFICES ASSUME MapInv, NEW i \in Occupied
               PROVE  /\ \A d \in Index : At(hash[slots[i].key] + d) = i =>
                           \A e \in 0 .. d : slots[At(hash[slots[i].key] + e)] # Nothing
                      /\ \A j \in Occupied : slots[i].key = slots[j].key => i = j
    BY DEF ProbePathsFull
  <2> DEFINE h == hash[slots[i].key]
  <2>1. i \in Index /\ slots[i] # Nothing /\ h \in Index
    BY DEF Occupied, MapInv, Table, Entry, MapSizes
  <2>2. ASSUME NEW d \in Index, At(h + d) = i, NEW e \in 0 .. d PROVE slots[At(h + e)] # Nothing
    <3>1. e \in Index
      BY DEF Index, MapSizes
    <3>2. Dist(h, i) = d /\ At(h + e) \in Index /\ Dist(h, At(h + e)) = e
      <4> HIDE DEF h
      <4>1. \A c \in Index : At(h + c) \in Index /\ Dist(h, At(h + c)) = c
        BY <2>1, Distances
      <4> QED  BY <2>2, <3>1, <4>1
    <3>3. CASE e = d
      BY <2>1, <2>2, <3>3
    <3>4. CASE e # d
      <4>1. e < d
        BY <3>4 DEF Index
      <4> QED  BY <2>1, <3>2, <4>1 DEF MapInv, Full
    <3> QED  BY <3>3, <3>4
  <2>3. ASSUME NEW j \in Occupied, slots[i].key = slots[j].key PROVE i = j
    BY <2>1, <2>3 DEF MapInv, Unique, Occupied
  <2> QED  BY <2>2, <2>3
<1> QED  BY <1>1, MapStart, MapStep, PTL DEF MapSpec

(* Both together: the loops end, and find what is in the table.            *)
THEOREM SearchSoundEver ==
  ASSUME MapSizes
  PROVE  MapSpec => []SearchSound
BY ProbeStopsEver, ProbePathsFullEver, PTL DEF SearchSound

-----------------------------------------------------------------------------
(* The handle table *)

ActiveSlots == {s \in Slots : entries[s].active}
HandleType == [slot: Slots, generation: 0 .. Generations - 1, cap: Caps, released: Nat, cleared: BOOLEAN]

(* Where the generation of its slot stands after some releases. *)
Later(generation, releases) ==
  IF generation + releases < Generations THEN generation + releases
  ELSE generation + releases - Generations

(* What keeps a handle that was not cleared faithful: the generation of    *)
(* its slot moves on with the releases, and before the first one the slot  *)
(* holds its capability.                                                   *)
Follows(handle) ==
  /\ ~handle.cleared /\ handle.released < Generations =>
       entries[handle.slot].generation = Later(handle.generation, handle.released)
  /\ ~handle.cleared /\ handle.released = 0 =>
       entries[handle.slot].active /\ entries[handle.slot].cap_id = handle.cap

(* The inductive invariant. *)
HandleInv ==
  /\ HandlesTyped
  /\ issued \in Seq(HandleType)
  /\ \A i \in DOMAIN issued : Follows(issued[i])

(* A generation moves on by one and wraps around. *)
LEMMA BumpNext ==
  ASSUME Generations \in Nat \ {0}, NEW g \in 0 .. Generations - 1
  PROVE  Bump(g) = IF g + 1 < Generations THEN g + 1 ELSE 0
<1>1. PICK n \in Nat, k \in Nat : n = Generations /\ k = g + 1 /\ n > 0 /\ k \in 1 .. n
  OBVIOUS
<1>2. k < n => k % n = k
  BY <1>1
<1>3. n % n = 0
  BY <1>1
<1> QED  BY <1>1, <1>2, <1>3 DEF Bump

(* There are finitely many slots. *)
LEMMA ActiveFinite ==
  ASSUME MaxHandles \in Nat
  PROVE  IsFiniteSet(Slots) /\ IsFiniteSet(ActiveSlots)
<1>1. IsFiniteSet(Slots)
  BY FS_Interval DEF Slots
<1> QED  BY <1>1, FS_Subset DEF ActiveSlots

(* The first idle slot is an idle slot. *)
LEMMA FirstIdle ==
  ASSUME MaxHandles \in Nat, NEW idle \in SUBSET Slots, idle # {}
  PROVE  Min(idle) \in idle
<1>1. idle \in SUBSET Nat
  BY DEF Slots
<1>2. \E m \in idle : \A y \in idle : m <= y
  BY <1>1, LeastNat
<1> QED  BY <1>2 DEF Min

(* The invariant holds at the start. *)
LEMMA HandlesStart ==
  ASSUME MaxHandles \in Nat, Generations \in Nat \ {0}
  PROVE  HandlesInit => HandleInv
<1> SUFFICES ASSUME HandlesInit PROVE HandleInv
  OBVIOUS
<1>1. entries = [s \in Slots |-> Empty] /\ count = 0 /\ issued = << >>
  BY DEF HandlesInit
<1>2. ActiveSlots = {}
  BY <1>1 DEF ActiveSlots, Empty
<1>3. HandlesTyped
  <2>1. 0 \in 0 .. Generations - 1
    OBVIOUS
  <2>2. entries \in [Slots -> [cap_id: Caps \cup {0}, active: BOOLEAN, generation: 0 .. Generations - 1]]
    BY <1>1, <2>1 DEF Empty
  <2> QED  BY <1>1, <1>2, <2>2, FS_EmptySet DEF HandlesTyped, ActiveSlots
<1> QED  BY <1>1, <1>3 DEF HandleInv

(* Every step keeps it. *)
LEMMA HandlesStep ==
  ASSUME MaxHandles \in Nat, Generations \in Nat \ {0}
  PROVE  (HandleInv /\ [HandlesNext]_handleVars => HandleInv')
<1> SUFFICES ASSUME HandleInv, [HandlesNext]_handleVars PROVE HandleInv'
  OBVIOUS
<1> DEFINE HandleEntry == [cap_id: Caps \cup {0}, active: BOOLEAN, generation: 0 .. Generations - 1]
<1>1. /\ entries \in [Slots -> HandleEntry] /\ count = Cardinality(ActiveSlots)
      /\ issued \in Seq(HandleType) /\ \A i \in DOMAIN issued : issued[i] \in HandleType /\ Follows(issued[i])
  BY DEF HandleInv, HandlesTyped, ActiveSlots
<1>2. SUFFICES /\ entries' \in [Slots -> HandleEntry] /\ count' = Cardinality(ActiveSlots')
               /\ issued' \in Seq(HandleType) /\ \A i \in DOMAIN issued' : Follows(issued[i])'
  BY DEF HandleInv, HandlesTyped, ActiveSlots, HandleType
<1>3. IsFiniteSet(ActiveSlots) /\ Cardinality(ActiveSlots) \in Nat
  BY ActiveFinite, FS_CardinalityType
<1>4. CASE UNCHANGED handleVars
  <2>1. entries' = entries /\ count' = count /\ issued' = issued
    BY <1>4 DEF handleVars
  <2> QED  BY <1>1, <2>1 DEF ActiveSlots, Follows
<1>5. ASSUME NEW c \in Caps, Alloc(c), ~ UNCHANGED handleVars
      PROVE  /\ entries' \in [Slots -> HandleEntry] /\ count' = Cardinality(ActiveSlots')
             /\ issued' \in Seq(HandleType) /\ \A i \in DOMAIN issued' : Follows(issued[i])'
  <2> DEFINE idle == {s \in Slots : ~entries[s].active}
             slot == Min(idle)
             new == [slot |-> slot, generation |-> entries[slot].generation,
                     cap |-> c, released |-> 0, cleared |-> FALSE]
  <2>1. /\ idle # {} /\ count' = count + 1 /\ issued' = Append(issued, new)
        /\ entries' = [entries EXCEPT ![slot].cap_id = c, ![slot].active = TRUE]
    BY <1>5 DEF Alloc
  <2>2. slot \in Slots /\ ~entries[slot].active
    <3>1. slot \in idle
      BY <2>1, FirstIdle
    <3> QED  BY <3>1
  <2> HIDE DEF slot, idle
  <2>3. /\ entries' \in [Slots -> HandleEntry]
        /\ entries'[slot].cap_id = c /\ entries'[slot].active = TRUE
        /\ entries'[slot].generation = entries[slot].generation
        /\ \A s \in Slots : s # slot => entries'[s] = entries[s]
    BY <1>1, <2>1, <2>2
  <2>4. ActiveSlots' = ActiveSlots \cup {slot} /\ slot \notin ActiveSlots
    BY <2>2, <2>3 DEF ActiveSlots
  <2>5. count' = Cardinality(ActiveSlots')
    BY <1>1, <1>3, <2>1, <2>4, FS_AddElement
  <2>6. new \in HandleType
    BY <1>1, <2>2 DEF HandleType
  <2>7. issued' \in Seq(HandleType)
    BY <1>1, <2>1, <2>6
  <2>8. ASSUME NEW i \in DOMAIN issued' PROVE Follows(issued[i])'
    <3>1. CASE i \in DOMAIN issued
      <4>1. issued'[i] = issued[i] /\ issued[i] \in HandleType /\ Follows(issued[i])
        BY <1>1, <2>1, <3>1
      <4>2. CASE issued[i].slot = slot
        <5>1. issued[i].cleared \/ issued[i].released # 0
          BY <2>2, <4>1, <4>2 DEF Follows
        <5> QED  BY <2>3, <4>1, <4>2, <5>1 DEF Follows
      <4>3. CASE issued[i].slot # slot
        <5>1. entries'[issued[i].slot] = entries[issued[i].slot]
          BY <2>3, <4>1, <4>3 DEF HandleType
        <5> QED  BY <4>1, <5>1 DEF Follows
      <4> QED  BY <4>2, <4>3
    <3>2. CASE i \notin DOMAIN issued
      <4>1. issued'[i] = new
        BY <1>1, <2>1, <2>8, <3>2
      <4>2. Later(entries[slot].generation, 0) = entries[slot].generation
        BY <1>1, <2>2 DEF Later
      <4> QED  BY <2>3, <4>1, <4>2 DEF Follows
    <3> QED  BY <3>1, <3>2
  <2> QED  BY <2>3, <2>5, <2>7, <2>8
<1>6. ASSUME NEW k \in DOMAIN issued, Release(issued[k]), ~ UNCHANGED handleVars
      PROVE  /\ entries' \in [Slots -> HandleEntry] /\ count' = Cardinality(ActiveSlots')
             /\ issued' \in Seq(HandleType) /\ \A i \in DOMAIN issued' : Follows(issued[i])'
  <2> DEFINE slot == issued[k].slot
             g == issued[k].generation
  <2>1. /\ entries[slot].active /\ entries[slot].generation = g /\ count' = count - 1
        /\ entries' = [entries EXCEPT ![slot] = [cap_id |-> 0, active |-> FALSE, generation |-> Bump(g)]]
        /\ issued' = [i \in DOMAIN issued |->
                        IF issued[i].slot = slot
                        THEN [issued[i] EXCEPT !.released = @ + 1] ELSE issued[i]]
    BY <1>6 DEF Release, Accepts
  <2>2. slot \in Slots /\ g \in 0 .. Generations - 1
    BY <1>1, <1>6 DEF HandleType
  <2>3. Bump(g) = (IF g + 1 < Generations THEN g + 1 ELSE 0) /\ Bump(g) \in 0 .. Generations - 1
    BY <2>2, BumpNext
  <2> HIDE DEF slot, g
  <2>4. /\ entries' \in [Slots -> HandleEntry]
        /\ entries'[slot].generation = Bump(g) /\ entries'[slot].active = FALSE
        /\ \A s \in Slots : s # slot => entries'[s] = entries[s]
    BY <1>1, <2>1, <2>2, <2>3
  <2>5. ActiveSlots' = ActiveSlots \ {slot} /\ slot \in ActiveSlots
    BY <2>1, <2>2, <2>4 DEF ActiveSlots
  <2>6. count' = Cardinality(ActiveSlots')
    BY <1>1, <1>3, <2>1, <2>5, FS_RemoveElement
  <2>7. ASSUME NEW i \in DOMAIN issued
        PROVE  issued'[i] \in HandleType /\ Follows(issued[i])'
    <3>1. issued[i] \in HandleType /\ Follows(issued[i])
      BY <1>1
    <3>2. CASE issued[i].slot = slot
      <4>1. issued'[i] = [issued[i] EXCEPT !.released = @ + 1]
        BY <2>1, <3>2
      <4>2. PICK r \in Nat, h \in 0 .. Generations - 1 : r = issued[i].released /\ h = issued[i].generation
        BY <3>1 DEF HandleType
      <4>3. /\ issued'[i] \in HandleType /\ issued'[i].released = r + 1 /\ issued'[i].generation = h
            /\ issued'[i].slot = slot /\ issued'[i].cleared = issued[i].cleared
        BY <3>1, <3>2, <4>1, <4>2 DEF HandleType
      <4>4. ~issued[i].cleared /\ r < Generations => g = Later(h, r)
        BY <2>1, <3>1, <3>2, <4>2 DEF Follows
      <4>5. ASSUME ~issued[i].cleared, r + 1 < Generations
            PROVE  Bump(g) = Later(h, r + 1)
        <5>1. r < Generations
          BY <4>5
        <5>2. g = Later(h, r)
          BY <4>4, <4>5, <5>1
        <5> QED  BY <2>2, <2>3, <4>5, <5>2 DEF Later
      <4> QED  BY <2>4, <4>3, <4>5 DEF Follows
    <3>3. CASE issued[i].slot # slot
      <4>1. issued'[i] = issued[i]
        BY <2>1, <3>3
      <4>2. entries'[issued[i].slot] = entries[issued[i].slot]
        BY <2>4, <3>1, <3>3 DEF HandleType
      <4> QED  BY <3>1, <4>1, <4>2 DEF Follows
    <3> QED  BY <3>2, <3>3
  <2>8. issued' \in Seq(HandleType) /\ DOMAIN issued' = DOMAIN issued
    <3>1. issued' \in [1 .. Len(issued) -> HandleType] /\ Len(issued) \in Nat
      BY <1>1, <2>1, <2>7
    <3> QED  BY <1>1, <3>1, IsASeq
  <2> QED  BY <2>4, <2>6, <2>7, <2>8
<1>7. ASSUME ClearHandles
      PROVE  /\ entries' \in [Slots -> HandleEntry] /\ count' = Cardinality(ActiveSlots')
             /\ issued' \in Seq(HandleType) /\ \A i \in DOMAIN issued' : Follows(issued[i])'
  <2>1. /\ entries' = [s \in Slots |-> Empty] /\ count' = 0
        /\ issued' = [i \in DOMAIN issued |-> [issued[i] EXCEPT !.cleared = TRUE]]
    BY <1>7 DEF ClearHandles
  <2>2. entries' \in [Slots -> HandleEntry] /\ ActiveSlots' = {}
    BY <2>1 DEF Empty, ActiveSlots
  <2>3. \A i \in DOMAIN issued : issued'[i] \in HandleType /\ issued'[i].cleared = TRUE
    BY <1>1, <2>1 DEF HandleType
  <2>4. issued' \in Seq(HandleType) /\ DOMAIN issued' = DOMAIN issued
    <3>1. issued' \in [1 .. Len(issued) -> HandleType] /\ Len(issued) \in Nat
      BY <1>1, <2>1, <2>3
    <3> QED  BY <1>1, <3>1, IsASeq
  <2> QED  BY <2>1, <2>2, <2>3, <2>4, FS_EmptySet DEF Follows
<1> QED  BY <1>4, <1>5, <1>6, <1>7 DEF HandlesNext

(* Fewer releases than generations leave no two handles alike. *)
LEMMA FollowsFaithful ==
  ASSUME MaxHandles \in Nat, Generations \in Nat \ {0}
  PROVE  (HandleInv => HandlesFaithful)
<1> SUFFICES ASSUME HandleInv, NEW i \in DOMAIN issued, ~issued[i].cleared, issued[i].released < Generations
             PROVE  HandleSound(issued[i])
  BY DEF HandleInv, HandlesFaithful
<1>1. issued[i] \in HandleType /\ Follows(issued[i])
  BY DEF HandleInv
<1>2. PICK r \in Nat, h \in 0 .. Generations - 1 : r = issued[i].released /\ h = issued[i].generation
  BY <1>1 DEF HandleType
<1>3. entries[issued[i].slot].generation = Later(h, r)
  BY <1>1, <1>2 DEF Follows
<1>4. CASE r = 0
  <2>1. Later(h, r) = h
    BY <1>4 DEF Later
  <2> QED  BY <1>1, <1>2, <1>3, <1>4, <2>1 DEF Follows, HandleSound, Resolve, Accepts
<1>5. CASE r # 0
  <2>1. r < Generations
    BY <1>2
  <2>2. Later(h, r) # h
    BY <1>2, <1>5, <2>1 DEF Later
  <2> QED  BY <1>2, <1>3, <1>5, <2>2 DEF HandleSound, Accepts
<1> QED  BY <1>4, <1>5

(* Handles stay faithful for any number of slots, generations and handles: *)
(* each resolves to its own capability until it is released and to nothing *)
(* afterwards, until the generation of its slot comes round again or the   *)
(* process is restarted.                                                   *)
THEOREM HandlesFaithfulEver ==
  ASSUME MaxHandles \in Nat, Generations \in Nat \ {0}
  PROVE  HandlesSpec => []HandlesFaithful
BY HandlesStart, HandlesStep, FollowsFaithful, PTL DEF HandlesSpec

-----------------------------------------------------------------------------
(* Butler's state page *)

IsBlock(b) ==
  \E k, r, s, l : b = StateBlock(k, r, s, l) /\ r \in [Children -> Nat]

(* A block with the restarts of a history, up to the limit of a count. *)
Counts(b, history) ==
  \A c \in Children : b.restart_counts[c] = IF history[c] < MaxCount THEN history[c] ELSE MaxCount

(* The page is what was saved, the copy what Butler has recorded since. *)
ButlerInv ==
  /\ saved \in [Children -> Nat] /\ recorded \in [Children -> Nat]
  /\ page = NoBlock => copy = NoBlock /\ saved = Zeros
  /\ page # NoBlock => IsBlock(page) /\ Loads(page) /\ Counts(page, saved)
  /\ copy # NoBlock => IsBlock(copy) /\ Counts(copy, recorded)

(* The fields of a block. *)
LEMMA BlockFields ==
  ASSUME NEW k, NEW r, NEW s, NEW l
  PROVE  LET b == StateBlock(k, r, s, l)
         IN  /\ b # NoBlock /\ b.valid /\ b.checksum = k
             /\ b.restart_counts = r /\ b.strategies = s /\ b.last_crash_tick = l
BY DEF StateBlock, NoBlock

(* The checksum is not part of what it is taken of. *)
LEMMA ChecksumTaken ==
  ASSUME NEW b, IsBlock(b), NEW history, Counts(b, history)
  PROVE  /\ IsBlock(UpdateChecksum(b)) /\ Counts(UpdateChecksum(b), history)
         /\ UpdateChecksum(b) # NoBlock /\ Loads(UpdateChecksum(b))
<1>1. PICK x, r, s, l : /\ x = ComputeChecksum(b) /\ r = b.restart_counts /\ r \in [Children -> Nat]
                        /\ s = b.strategies /\ l = b.last_crash_tick
  BY BlockFields DEF IsBlock
<1>2. PICK d : d = StateBlock(x, r, s, l) /\ d = UpdateChecksum(b)
  BY <1>1 DEF UpdateChecksum
<1>3. /\ d # NoBlock /\ d.valid /\ d.checksum = x
      /\ d.restart_counts = r /\ d.strategies = s /\ d.last_crash_tick = l
  BY <1>2 DEF StateBlock, NoBlock
<1>4. ComputeChecksum(d) = x
  BY <1>1, <1>3 DEF ComputeChecksum
<1>5. Counts(d, history) /\ IsBlock(d)
  BY <1>1, <1>2, <1>3 DEF Counts, IsBlock
<1> QED  BY <1>2, <1>3, <1>4, <1>5 DEF Loads

LEMMA ButlerInvInit == ButlerInit => ButlerInv
BY DEF ButlerInit, ButlerInv, Zeros

LEMMA ButlerInvNext == ButlerInv /\ [ButlerNext]_butlerVars => ButlerInv'
<1> SUFFICES ASSUME ButlerInv, [ButlerNext]_butlerVars PROVE ButlerInv'
  OBVIOUS
<1> USE ButlerAssumption
<1>1. CASE InitPage
  <2>1. Zeros \in [Children -> Nat] /\ FreshBlock.restart_counts = Zeros
    BY BlockFields DEF FreshBlock, Zeros
  <2>2. IsBlock(FreshBlock)
    BY <2>1 DEF FreshBlock, IsBlock
  <2>3. saved = Zeros /\ copy = NoBlock
    BY <1>1 DEF InitPage, ButlerInv
  <2>4. Counts(FreshBlock, saved)
    BY <2>1, <2>3 DEF Counts, Zeros
  <2> QED  BY <1>1, <2>2, <2>3, <2>4, ChecksumTaken DEF InitPage, ButlerInv
<1>2. CASE Load
  BY <1>2 DEF Load, ButlerInv, Loads
<1>3. CASE Save
  BY <1>3, ChecksumTaken DEF Save, ButlerInv
<1>4. CASE Crash
  BY <1>4 DEF Crash, ButlerInv
<1>5. ASSUME NEW c \in Children, NEW tick, RecordRestart(c, tick) PROVE ButlerInv'
  <2>1. /\ copy # NoBlock /\ IsBlock(copy) /\ Counts(copy, recorded) /\ recorded \in [Children -> Nat]
        /\ recorded' = [recorded EXCEPT ![c] = @ + 1] /\ UNCHANGED <<page, saved>>
    BY <1>5 DEF RecordRestart, ButlerInv
  <2>2. copy.restart_counts \in [Children -> Nat]
    BY <2>1, BlockFields DEF IsBlock
  <2>3. PICK r, q, s, h : /\ r = copy.restart_counts /\ r \in [Children -> Nat]
                          /\ q = [r EXCEPT ![c] = IF r[c] < MaxCount THEN r[c] + 1 ELSE r[c]]
                          /\ s = copy.strategies /\ h = [copy.last_crash_tick EXCEPT ![c] = tick]
    BY <2>2
  <2>4. copy' = StateBlock(copy.checksum, q, s, h) /\ q \in [Children -> Nat]
    BY <1>5, <2>3 DEF RecordRestart
  <2>5. copy'.restart_counts = q /\ IsBlock(copy') /\ copy' # NoBlock
    BY <2>4, BlockFields DEF IsBlock
  <2>6. Counts(copy', recorded')
    BY <2>1, <2>3, <2>5 DEF Counts
  <2> QED  BY <2>1, <2>5, <2>6 DEF ButlerInv
<1>6. ASSUME NEW c \in Children, SetStrategy(c, 1) PROVE ButlerInv'
  <2>1. copy # NoBlock /\ IsBlock(copy) /\ Counts(copy, recorded) /\ UNCHANGED <<page, saved, recorded>>
    BY <1>6 DEF SetStrategy, ButlerInv
  <2>2. copy.restart_counts \in [Children -> Nat]
    BY <2>1, BlockFields DEF IsBlock
  <2>3. PICK r, h, l : /\ r = copy.restart_counts /\ r \in [Children -> Nat]
                       /\ h = [copy.strategies EXCEPT ![c] = 1] /\ l = copy.last_crash_tick
    BY <2>2
  <2>4. copy' = StateBlock(copy.checksum, r, h, l)
    BY <1>6, <2>3 DEF SetStrategy
  <2>5. copy'.restart_counts = copy.restart_counts /\ IsBlock(copy') /\ copy' # NoBlock
    BY <2>3, <2>4, BlockFields DEF IsBlock
  <2> QED  BY <2>1, <2>5 DEF ButlerInv, Counts
<1>7. CASE UNCHANGED butlerVars
  BY <1>7 DEF butlerVars, ButlerInv, Loads, IsBlock, Counts
<1> QED  BY <1>1, <1>2, <1>3, <1>4, <1>5, <1>6, <1>7 DEF ButlerNext

(* At whatever point Butler crashes, and for any number of children, the   *)
(* page has a block that load accepts, with the restarts of the last save  *)
(* and no others, up to the limit of a count.                              *)
THEOREM StateSurvivesEver == ButlerSpec => []StateSurvives
<1>1. ButlerInit => ButlerInv
  BY ButlerInvInit
<1>2. ButlerInv /\ [ButlerNext]_butlerVars => ButlerInv'
  BY ButlerInvNext
<1>3. ButlerInv => StateSurvives
  BY DEF ButlerInv, StateSurvives, Counts
<1> QED  BY <1>1, <1>2, <1>3, PTL DEF ButlerSpec

-----------------------------------------------------------------------------
(* TLS sessions *)

SessionType == [state: {"Initial", "ApplicationData", "Closed"}, key: Nat, cseq: Nat, sseq: Nat, birth: Nat]
ShakeType == [stage: {"hello", "serverHello", "flight", "ccs", "finished", "store"},
              idx: SessionIds, key: Nat, left: Nat]
IoType == [stage: {"read", "count", "close"}, idx: SessionIds]
TlsTyped ==
  /\ sessions \in [SessionIds -> SessionType \cup {NoSession}]
  /\ shake \in [Clients -> ShakeType \cup {NoShake}]
  /\ io \in [Clients -> IoType \cup {NoIo}]
  /\ known \in [Clients -> [SessionIds -> Nat]]
  /\ started \in Nat /\ failures \in Nat /\ sealed \in SUBSET (Nat \X Nat)

Open(i) == sessions[i] # NoSession
Shaking(c) == shake[c] # NoShake
LostIds == {i \in SessionIds : Lost(i)}

(* Every session has a birth of its own, which is its key once the         *)
(* handshake is done.                                                      *)
Births ==
  \A i \in SessionIds : Open(i) =>
    /\ sessions[i].birth \in 1 .. started
    /\ sessions[i].key = IF sessions[i].state = "Initial" THEN 0 ELSE sessions[i].birth
    /\ \A j \in SessionIds : Open(j) /\ sessions[j].birth = sessions[i].birth => i = j
(* A handshake has a key of its own, and its session waits for it. *)
Shakes ==
  \A c \in Clients : Shaking(c) =>
    /\ Open(shake[c].idx) /\ sessions[shake[c].idx].birth = shake[c].key
    /\ sessions[shake[c].idx].state = "Initial"
    /\ \A d \in Clients : Shaking(d) /\ shake[d].key = shake[c].key => c = d
(* What a process knows of are sessions whose handshake is done. *)
Knowns ==
  \A c \in Clients, i \in SessionIds :
    /\ known[c][i] <= started
    /\ \A d \in Clients : Shaking(d) => shake[d].key # known[c][i]
    /\ \A j \in SessionIds : Open(j) /\ sessions[j].birth = known[c][i] => sessions[j].state # "Initial"
(* Records are sealed with the key of one session, below its next number. *)
Sealings ==
  \A r \in sealed :
    /\ r[1] \in 1 .. started
    /\ \A i \in SessionIds : Open(i) /\ sessions[i].birth = r[1] =>
         sessions[i].state # "Initial" /\ r[2] < sessions[i].cseq
(* A session is closed by one process, and stays until that one frees it.  *)
Closings ==
  \A c \in Clients, i \in SessionIds : Closing(c, i) =>
    /\ Open(i) /\ sessions[i].state = "Closed"
    /\ \A d \in Clients : Closing(d, i) => c = d

TlsSound ==
  /\ Births /\ Shakes /\ Knowns /\ Sealings /\ Closings
  /\ ~reused /\ down # "gone" /\ Cardinality(LostIds) = failures
TlsInv == TlsTyped /\ (~stale => TlsSound)

(* The two kinds of entries can be told apart. *)
LEMMA EntriesApart ==
  /\ \A s \in SessionType : s # NoSession
  /\ \A k \in ShakeType : k # NoShake /\ k.stage # "none"
  /\ \A k \in IoType : k # NoIo /\ k.stage # "none"
  /\ NoIo.stage = "none"
BY DEF SessionType, ShakeType, IoType, NoSession, NoShake, NoIo

LEMMA LeastMember ==
  ASSUME NEW S \in SUBSET Nat, S # {}
  PROVE  Min(S) \in S
BY LeastNat DEF Min

LEMMA LostFinite == IsFiniteSet(LostIds)
<1>1. IsFiniteSet(SessionIds)
  BY TlsAssumption, FS_Interval DEF SessionIds
<1> QED  BY <1>1, FS_Subset DEF LostIds

(* What a process may use without being stale is a session that is done,   *)
(* which no handshake has.                                                 *)
LEMMA OwnSession ==
  ASSUME TlsInv, ~stale, NEW c \in Clients, NEW i \in SessionIds, Open(i), sessions[i].birth = known[c][i]
  PROVE  /\ sessions[i] \in SessionType /\ sessions[i].state # "Initial"
         /\ sessions[i].key = sessions[i].birth
         /\ sessions[i].state = "ApplicationData" => ~Lost(i)
         /\ \A d \in Clients : Shaking(d) => shake[d].idx # i
<1>1. sessions[i] \in SessionType
  BY DEF TlsInv, TlsTyped, Open
<1>2. sessions[i].state # "Initial"
  BY DEF TlsInv, TlsSound, Knowns
<1>3. sessions[i].key = sessions[i].birth
  BY <1>2 DEF TlsInv, TlsSound, Births
<1>4. sessions[i].state = "ApplicationData" => ~Lost(i)
  BY DEF Lost
<1>5. \A d \in Clients : Shaking(d) => shake[d].idx # i
  BY <1>2 DEF TlsInv, TlsSound, Shakes
<1> QED  BY <1>1, <1>2, <1>3, <1>4, <1>5

(* A step of a handshake that changes no session. *)
LEMMA StageKeeps ==
  ASSUME TlsInv, NEW c \in Clients, Shaking(c), NEW k \in ShakeType,
         k.idx = shake[c].idx, k.key = shake[c].key, shake' = [shake EXCEPT ![c] = k],
         UNCHANGED <<sessions, io, known, started, sealed, reused, failures, stale, down>>
  PROVE  TlsInv'
<1>1. TlsTyped'
  BY DEF TlsInv, TlsTyped
<1>2. \A d \in Clients : /\ Shaking(d)' <=> Shaking(d)
                         /\ Shaking(d) => shake'[d].idx = shake[d].idx /\ shake'[d].key = shake[d].key
  BY EntriesApart DEF TlsInv, TlsTyped, Shaking
<1>3. \A i \in SessionIds : Open(i)' <=> Open(i)
  BY DEF Open
<1>4. ASSUME ~stale PROVE TlsSound'
  <2>1. Births' /\ Sealings'
    BY <1>4 DEF TlsInv, TlsSound, Births, Sealings, Open
  <2>2. Shakes'
    BY <1>2, <1>4 DEF TlsInv, TlsSound, Shakes, Open
  <2>3. Knowns'
    BY <1>2, <1>4 DEF TlsInv, TlsSound, Knowns, Open
  <2>4. LostIds' = LostIds
    BY <1>2 DEF LostIds, Lost, Shaking, Closing
  <2>5. Closings'
    BY <1>4 DEF TlsInv, TlsSound, Closings, Closing, Open
  <2> QED  BY <1>4, <2>1, <2>2, <2>3, <2>4, <2>5 DEF TlsInv, TlsSound
<1> QED  BY <1>1, <1>4 DEF TlsInv

LEMMA ConnectKeeps ==
  ASSUME TlsInv, NEW c \in Clients, TlsConnect(c)
  PROVE  TlsInv'
<1> DEFINE i == Min(FreeIds)
<1>1. FreeIds \in SUBSET Nat /\ FreeIds \subseteq SessionIds /\ FreeIds # {}
  BY TlsAssumption DEF TlsConnect, FreeIds, SessionIds
<1>2. PICK f \in SessionIds : f = i /\ ~Open(f)
  BY <1>1, LeastMember DEF FreeIds, Open
<1>3. PICK s \in SessionType :
         /\ s = [state |-> "Initial", key |-> 0, cseq |-> 0, sseq |-> 0, birth |-> started + 1]
         /\ s.state = "Initial" /\ s.key = 0 /\ s.birth = started + 1
  <2>1. PICK n \in Nat : n = started + 1
    BY DEF TlsInv, TlsTyped
  <2>2. PICK s : s = [state |-> "Initial", key |-> 0, cseq |-> 0, sseq |-> 0, birth |-> n]
    OBVIOUS
  <2>3. s \in SessionType /\ s.state = "Initial" /\ s.key = 0 /\ s.birth = n
    BY <2>2 DEF SessionType
  <2> QED  BY <2>1, <2>2, <2>3
<1>4. PICK k \in ShakeType :
         /\ k = [stage |-> "hello", idx |-> f, key |-> started + 1, left |-> MaxRecords]
         /\ k.idx = f /\ k.key = started + 1
  <2>1. PICK n \in Nat : n = started + 1
    BY DEF TlsInv, TlsTyped
  <2>2. PICK k : k = [stage |-> "hello", idx |-> f, key |-> n, left |-> MaxRecords]
    OBVIOUS
  <2>3. k \in ShakeType /\ k.idx = f /\ k.key = n
    BY <2>2, TlsAssumption DEF ShakeType
  <2> QED  BY <2>1, <2>2, <2>3
<1>5. /\ sessions' = [sessions EXCEPT ![f] = s] /\ shake' = [shake EXCEPT ![c] = k] /\ ~Shaking(c)
      /\ started' = started + 1 /\ UNCHANGED <<io, known, sealed, reused, failures, stale, down>>
  BY <1>2, <1>3, <1>4 DEF TlsConnect, Shaking, Busy
<1>6. TlsTyped'
  BY <1>5 DEF TlsInv, TlsTyped
<1>7. \A d \in Clients : /\ Shaking(d)' <=> d = c \/ Shaking(d)
                         /\ shake'[d] = IF d = c THEN k ELSE shake[d]
  BY <1>5, EntriesApart DEF TlsInv, TlsTyped, Shaking
<1>8. \A j \in SessionIds : /\ Open(j)' <=> j = f \/ Open(j)
                            /\ sessions'[j] = IF j = f THEN s ELSE sessions[j]
  BY <1>5, EntriesApart DEF TlsInv, TlsTyped, Open
<1>9. ASSUME ~stale PROVE TlsSound'
  <2>1. started \in Nat /\ Births /\ Shakes /\ Knowns /\ Sealings /\ Closings /\ ~reused /\ down # "gone" /\ Cardinality(LostIds) = failures
    BY <1>9 DEF TlsInv, TlsTyped, TlsSound
  <2>2. \A j \in SessionIds : Open(j) => sessions[j].birth \in 1 .. started
    BY <2>1 DEF Births
  <2>3. \A d \in Clients : Shaking(d) => shake[d].idx \in SessionIds /\ shake[d].idx # f /\ shake[d].key \in 1 .. started
    BY <1>2, <2>1, <2>2 DEF Shakes, TlsInv, TlsTyped, Shaking, ShakeType
  <2>4. Births'
    BY <1>2, <1>3, <1>5, <1>8, <2>1, <2>2 DEF Births
  <2>5. Shakes'
    BY <1>2, <1>3, <1>4, <1>5, <1>7, <1>8, <2>1, <2>3 DEF Shakes
  <2>6. Knowns'
    <3>1. \A d \in Clients, j \in SessionIds : known[d][j] \in Nat
      BY DEF TlsInv, TlsTyped
    <3> QED  BY <1>2, <1>3, <1>4, <1>5, <1>7, <1>8, <2>1, <2>3, <3>1 DEF Knowns
  <2>7. Sealings'
    BY <1>2, <1>3, <1>5, <1>8, <2>1 DEF Sealings
  <2>8. \A j \in SessionIds : Lost(j)' <=> Lost(j)
    <3> SUFFICES ASSUME NEW j \in SessionIds PROVE Lost(j)' <=> Lost(j)
      OBVIOUS
    <3>1. CASE j = f
      BY <1>2, <1>4, <1>7, <3>1 DEF Lost, Open, Shaking
    <3>2. CASE j # f
      BY <1>4, <1>5, <1>7, <1>8, <3>2 DEF Lost, Open, Shaking, Closing
    <3> QED  BY <3>1, <3>2
  <2>9. LostIds' = LostIds
    BY <2>8 DEF LostIds
  <2>10. Closings'
    BY <1>2, <1>5, <1>8, <2>1 DEF Closings, Closing
  <2> QED  BY <1>5, <2>1, <2>4, <2>5, <2>6, <2>7, <2>9, <2>10 DEF TlsSound
<1> QED  BY <1>5, <1>6, <1>9 DEF TlsInv

(* A process leaves a handshake; others stay in theirs. *)
LEMMA ShakeLeft ==
  ASSUME TlsInv, NEW c \in Clients, Leave(c)
  PROVE  /\ shake' \in [Clients -> ShakeType \cup {NoShake}]
         /\ \A d \in Clients : (Shaking(d)' <=> d # c /\ Shaking(d)) /\ (d # c => shake'[d] = shake[d])
BY DEF TlsInv, TlsTyped, Leave, Shaking

(* The sessions of two handshakes are different. *)
LEMMA ShakesApart ==
  ASSUME TlsInv, ~stale, NEW c \in Clients, Shaking(c)
  PROVE  /\ shake[c].idx \in SessionIds /\ Open(shake[c].idx) /\ sessions[shake[c].idx].state = "Initial"
         /\ \A d \in Clients : d # c /\ Shaking(d) => shake[d].idx # shake[c].idx
<1>1. shake[c].idx \in SessionIds
  BY DEF TlsInv, TlsTyped, Shaking, ShakeType
<1> QED  BY <1>1 DEF TlsInv, TlsSound, Shakes

LEMMA SocketFailsKeeps ==
  ASSUME TlsInv, NEW c \in Clients, SocketFails(c)
  PROVE  TlsInv'
<1>1. /\ Leave(c) /\ Shaking(c) /\ failures' = failures + 1
      /\ UNCHANGED <<sessions, io, known, started, sealed, reused, stale, down>>
  BY DEF SocketFails, NoShake, Shaking
<1>2. /\ shake' \in [Clients -> ShakeType \cup {NoShake}]
      /\ \A d \in Clients : (Shaking(d)' <=> d # c /\ Shaking(d)) /\ (d # c => shake'[d] = shake[d])
  BY <1>1, ShakeLeft
<1>3. TlsTyped'
  BY <1>1, <1>2 DEF TlsInv, TlsTyped
<1>4. ASSUME ~stale PROVE TlsSound'
  <2>1. Births /\ Shakes /\ Knowns /\ Sealings /\ Closings /\ ~reused /\ down # "gone" /\ Cardinality(LostIds) = failures
    BY <1>4 DEF TlsInv, TlsSound
  <2>2. Births' /\ Sealings'
    BY <1>1, <2>1 DEF Births, Sealings, Open
  <2>3. Shakes'
    BY <1>1, <1>2, <2>1 DEF Shakes, Open
  <2>4. Knowns'
    BY <1>1, <1>2, <2>1 DEF Knowns, Open
  <2>5. PICK i \in SessionIds : i = shake[c].idx /\ Open(i) /\ sessions[i].state = "Initial"
                                /\ \A d \in Clients : d # c /\ Shaking(d) => shake[d].idx # i
    BY <1>1, <1>4, ShakesApart
  <2>6. ~Lost(i) /\ Lost(i)'
    BY <1>1, <1>2, <2>5 DEF Lost, Open, Shaking
  <2>7. \A j \in SessionIds : j # i => (Lost(j)' <=> Lost(j))
    BY <1>1, <1>2, <2>5 DEF Lost, Open, Shaking, Closing
  <2>8. LostIds' = LostIds \cup {i} /\ i \notin LostIds
    BY <2>6, <2>7 DEF LostIds
  <2>9. Cardinality(LostIds') = Cardinality(LostIds) + 1
    BY <2>8, LostFinite, FS_AddElement
  <2>10. Closings'
    BY <1>1, <2>1 DEF Closings, Closing, Open
  <2> QED  BY <1>1, <2>1, <2>2, <2>3, <2>4, <2>9, <2>10 DEF TlsSound
<1> QED  BY <1>1, <1>3, <1>4 DEF TlsInv

(* A session is freed that is not lost and no other handshake has. *)
LEMMA FreedKeeps ==
  ASSUME TlsInv, NEW i \in SessionIds, sessions' = Freed(i)
  PROVE  /\ sessions' \in [SessionIds -> SessionType \cup {NoSession}]
         /\ \A j \in SessionIds : (Open(j)' <=> j # i /\ Open(j)) /\ (j # i => sessions'[j] = sessions[j])
BY DEF TlsInv, TlsTyped, Freed, Open

LEMMA HandshakeFailsKeeps ==
  ASSUME TlsInv, NEW c \in Clients, HandshakeFails(c)
  PROVE  TlsInv'
<1>1. /\ Leave(c) /\ Shaking(c) /\ sessions' = Freed(shake[c].idx)
      /\ UNCHANGED <<io, known, started, sealed, reused, failures, stale, down>>
  BY DEF HandshakeFails, NoShake, Shaking
<1>2. /\ shake' \in [Clients -> ShakeType \cup {NoShake}]
      /\ \A d \in Clients : (Shaking(d)' <=> d # c /\ Shaking(d)) /\ (d # c => shake'[d] = shake[d])
  BY <1>1, ShakeLeft
<1>3. PICK i \in SessionIds : i = shake[c].idx
  BY <1>1 DEF TlsInv, TlsTyped, Shaking, ShakeType
<1>4. /\ sessions' \in [SessionIds -> SessionType \cup {NoSession}]
      /\ \A j \in SessionIds : (Open(j)' <=> j # i /\ Open(j)) /\ (j # i => sessions'[j] = sessions[j])
  BY <1>1, <1>3, FreedKeeps
<1>5. TlsTyped'
  BY <1>1, <1>2, <1>4 DEF TlsInv, TlsTyped
<1>6. ASSUME ~stale PROVE TlsSound'
  <2>1. Births /\ Shakes /\ Knowns /\ Sealings /\ Closings /\ ~reused /\ down # "gone" /\ Cardinality(LostIds) = failures
    BY <1>6 DEF TlsInv, TlsSound
  <2>2. /\ \A d \in Clients : d # c /\ Shaking(d) => shake[d].idx # i
        /\ \A d \in Clients : Shaking(d) => shake[d].idx \in SessionIds
        /\ sessions[i].state = "Initial"
    BY <1>1, <1>3, <1>6, ShakesApart
  <2>3. Births'
    BY <1>1, <1>4, <2>1 DEF Births
  <2>4. Sealings'
    BY <1>1, <1>4, <2>1 DEF Sealings
  <2>5. Shakes'
    BY <1>1, <1>2, <1>4, <2>1, <2>2 DEF Shakes
  <2>6. Knowns'
    BY <1>1, <1>2, <1>4, <2>1 DEF Knowns
  <2>7. \A j \in SessionIds : Lost(j)' <=> Lost(j)
    <3> SUFFICES ASSUME NEW j \in SessionIds PROVE Lost(j)' <=> Lost(j)
      OBVIOUS
    <3>1. CASE j = i
      BY <1>1, <1>3, <1>4, <3>1 DEF Lost, Open, Shaking
    <3>2. CASE j # i
      BY <1>1, <1>2, <1>3, <1>4, <3>2 DEF Lost, Open, Shaking, Closing
    <3> QED  BY <3>1, <3>2
  <2>8. LostIds' = LostIds
    BY <2>7 DEF LostIds
  <2>9. Closings'
    BY <1>1, <1>4, <2>1, <2>2 DEF Closings, Closing
  <2> QED  BY <1>1, <2>1, <2>3, <2>4, <2>5, <2>6, <2>8, <2>9 DEF TlsSound
<1> QED  BY <1>1, <1>5, <1>6 DEF TlsInv

LEMMA HandshakeDoneKeeps ==
  ASSUME TlsInv, NEW c \in Clients, HandshakeDone(c)
  PROVE  TlsInv'
<1>1. Leave(c) /\ Shaking(c) /\ UNCHANGED <<io, started, sealed, reused, failures, stale, down>>
  BY DEF HandshakeDone, NoShake, Shaking
<1>2. /\ shake' \in [Clients -> ShakeType \cup {NoShake}]
      /\ \A d \in Clients : (Shaking(d)' <=> d # c /\ Shaking(d)) /\ (d # c => shake'[d] = shake[d])
  BY <1>1, ShakeLeft
<1>3. PICK i \in SessionIds, n \in Nat : i = shake[c].idx /\ n = shake[c].key
  BY <1>1 DEF TlsInv, TlsTyped, Shaking, ShakeType
<1>4. PICK k : k = [known[c] EXCEPT ![i] = n]
  OBVIOUS
<1>5. /\ k \in [SessionIds -> Nat] /\ \A j \in SessionIds : k[j] = IF j = i THEN n ELSE known[c][j]
      /\ known' = [known EXCEPT ![c] = k]
  BY <1>3, <1>4 DEF HandshakeDone, TlsInv, TlsTyped
<1>6. known' \in [Clients -> [SessionIds -> Nat]]
      /\ \A d \in Clients, j \in SessionIds : known'[d][j] = IF d = c /\ j = i THEN n ELSE known[d][j]
  BY <1>5 DEF TlsInv, TlsTyped
<1>7. CASE ~Open(i)
  <2>1. sessions' = sessions
    BY <1>3, <1>7 DEF HandshakeDone, Open
  <2>2. TlsTyped'
    BY <1>1, <1>2, <1>6, <2>1 DEF TlsInv, TlsTyped
  <2>3. stale
    BY <1>1, <1>3, <1>7, ShakesApart
  <2> QED  BY <1>1, <2>2, <2>3 DEF TlsInv
<1>8. CASE Open(i)
  <2>1. PICK s \in SessionType :
           /\ s.state = "ApplicationData" /\ s.key = n /\ s.birth = sessions[i].birth /\ s.cseq = 0
           /\ sessions' = [sessions EXCEPT ![i] = s]
    <3>1. PICK b \in Nat : b = sessions[i].birth
      BY <1>8 DEF TlsInv, TlsTyped, Open, SessionType
    <3>2. PICK s : s = [state |-> "ApplicationData", key |-> n, cseq |-> 0, sseq |-> 0, birth |-> b]
      OBVIOUS
    <3>3. s \in SessionType /\ s.state = "ApplicationData" /\ s.key = n /\ s.birth = b /\ s.cseq = 0
      BY <3>2 DEF SessionType
    <3>4. sessions' = [sessions EXCEPT ![i] = s]
      BY <1>3, <1>8, <3>1, <3>2 DEF HandshakeDone, Open
    <3> QED  BY <3>1, <3>3, <3>4
  <2>2. /\ sessions' \in [SessionIds -> SessionType \cup {NoSession}]
        /\ \A j \in SessionIds : /\ Open(j)' <=> Open(j)
                                 /\ sessions'[j] = IF j = i THEN s ELSE sessions[j]
    BY <1>8, <2>1, EntriesApart DEF TlsInv, TlsTyped, Open
  <2>3. TlsTyped'
    BY <1>1, <1>2, <1>6, <2>2 DEF TlsInv, TlsTyped
  <2>4. ASSUME ~stale PROVE TlsSound'
    <3>1. /\ Births /\ Shakes /\ Knowns /\ Sealings /\ Closings /\ ~reused /\ down # "gone" /\ Cardinality(LostIds) = failures
          /\ started \in Nat
      BY <2>4 DEF TlsInv, TlsSound, TlsTyped
    <3>2. /\ \A d \in Clients : d # c /\ Shaking(d) => shake[d].idx # i /\ shake[d].key # n
          /\ \A d \in Clients : Shaking(d) => shake[d].idx \in SessionIds
          /\ sessions[i].state = "Initial" /\ sessions[i].birth = n
      <4>1. \A d \in Clients : d # c /\ Shaking(d) => shake[d].idx # i
        BY <1>1, <1>3, <2>4, ShakesApart
      <4>2. \A d \in Clients : Shaking(d) => shake[d].idx \in SessionIds
        BY <2>4, ShakesApart
      <4>3. /\ sessions[i].state = "Initial" /\ sessions[i].birth = n
            /\ \A d \in Clients : d # c /\ Shaking(d) => shake[d].key # n
        BY <1>1, <1>3, <3>1 DEF Shakes
      <4> QED  BY <4>1, <4>2, <4>3
    <3>3. n \in 1 .. started /\ \A j \in SessionIds : Open(j) /\ sessions[j].birth = n => j = i
      BY <1>8, <3>1, <3>2 DEF Births
    <3>4. Births'
      BY <1>1, <2>1, <2>2, <3>1, <3>2, <3>3 DEF Births
    <3>5. Sealings'
      BY <1>1, <1>8, <2>1, <2>2, <3>1, <3>2 DEF Sealings
    <3>6. Shakes'
      BY <1>2, <2>2, <3>1, <3>2 DEF Shakes
    <3>7. Knowns'
      <4>1. ASSUME NEW d \in Clients, NEW j \in SessionIds
            PROVE  /\ known'[d][j] <= started
                   /\ \A h \in Clients : Shaking(h)' => shake'[h].key # known'[d][j]
                   /\ \A l \in SessionIds : Open(l)' /\ sessions'[l].birth = known'[d][j]
                                              => sessions'[l].state # "Initial"
        <5>1. CASE d = c /\ j = i
          <6>1. known'[d][j] = n
            BY <1>6, <5>1
          <6>2. \A h \in Clients : Shaking(h)' => shake'[h].key # n
            BY <1>2, <3>2
          <6>3. \A l \in SessionIds : Open(l)' /\ sessions'[l].birth = n => sessions'[l].state # "Initial"
            BY <2>1, <2>2, <3>3
          <6> QED  BY <3>3, <6>1, <6>2, <6>3
        <5>2. CASE ~(d = c /\ j = i)
          <6>1. known'[d][j] = known[d][j]
            BY <1>6, <5>2
          <6>2. /\ known[d][j] <= started
                /\ \A h \in Clients : Shaking(h) => shake[h].key # known[d][j]
                /\ \A l \in SessionIds : Open(l) /\ sessions[l].birth = known[d][j]
                                           => sessions[l].state # "Initial"
            BY <3>1 DEF Knowns
          <6>3. \A h \in Clients : Shaking(h)' => shake'[h].key # known[d][j]
            BY <1>2, <6>2
          <6>4. \A l \in SessionIds : Open(l)' /\ sessions'[l].birth = known[d][j]
                                       => sessions'[l].state # "Initial"
            BY <2>1, <2>2, <6>2
          <6> QED  BY <6>1, <6>2, <6>3, <6>4
        <5> QED  BY <5>1, <5>2
      <4> QED  BY <1>1, <4>1 DEF Knowns
    <3>8. \A j \in SessionIds : Lost(j)' <=> Lost(j)
      <4> SUFFICES ASSUME NEW j \in SessionIds PROVE Lost(j)' <=> Lost(j)
        OBVIOUS
      <4>1. CASE j = i
        <5>1. ~Lost(j)
          BY <1>1, <1>3, <4>1 DEF Lost, Shaking
        <5>2. sessions'[j].state = "ApplicationData" /\ known'[c][j] = sessions'[j].birth
          BY <1>6, <2>1, <2>2, <3>2, <4>1
        <5> QED  BY <5>1, <5>2 DEF Lost
      <4>2. CASE j # i
        BY <1>1, <1>2, <1>3, <1>6, <2>2, <4>2 DEF Lost, Open, Shaking, Closing
      <4> QED  BY <4>1, <4>2
    <3>9. LostIds' = LostIds
      BY <3>8 DEF LostIds
    <3>10. Closings'
      BY <1>1, <2>1, <2>2, <3>1, <3>2 DEF Closings, Closing
    <3> QED  BY <1>1, <3>1, <3>4, <3>5, <3>6, <3>7, <3>9, <3>10 DEF TlsSound
  <2> QED  BY <1>1, <2>3, <2>4 DEF TlsInv
<1> QED  BY <1>7, <1>8

(* A record is sealed in a session by the process whose session it is: its *)
(* number was never used with its key.                                     *)
LEMMA SealKeeps ==
  ASSUME TlsInv, ~stale, NEW c \in Clients, NEW i \in SessionIds, Open(i), sessions[i].birth = known[c][i],
         NEW s \in SessionType, s.state # "Initial", s.key = sessions[i].key, s.birth = sessions[i].birth,
         s.cseq = sessions[i].cseq + 1, sessions' = [sessions EXCEPT ![i] = s],
         Seal(sessions[i].key, sessions[i].cseq), UNCHANGED <<shake, known, started>>
  PROVE  /\ sessions' \in [SessionIds -> SessionType \cup {NoSession}]
         /\ sealed' \in SUBSET (Nat \X Nat)
         /\ \A j \in SessionIds : /\ Open(j)' <=> Open(j)
                                  /\ sessions'[j] = IF j = i THEN s ELSE sessions[j]
         /\ Births' /\ Shakes' /\ Knowns' /\ Sealings' /\ ~reused'
<1>1. PICK key \in Nat, seq \in Nat : key = sessions[i].key /\ seq = sessions[i].cseq
  BY DEF TlsInv, TlsTyped, Open, SessionType
<1>2. sealed' = sealed \cup {<<key, seq>>} /\ (reused' <=> reused \/ <<key, seq>> \in sealed)
  BY <1>1 DEF Seal
<1>3. /\ sessions' \in [SessionIds -> SessionType \cup {NoSession}]
      /\ \A j \in SessionIds : /\ Open(j)' <=> Open(j)
                               /\ sessions'[j] = IF j = i THEN s ELSE sessions[j]
  BY EntriesApart DEF TlsInv, TlsTyped, Open
<1>4. Births /\ Shakes /\ Knowns /\ Sealings /\ ~reused /\ started \in Nat /\ sealed \in SUBSET (Nat \X Nat)
  BY DEF TlsInv, TlsSound, TlsTyped
<1>5. /\ sessions[i].state # "Initial" /\ key = sessions[i].birth
      /\ \A d \in Clients : Shaking(d) => shake[d].idx # i
  BY <1>1, OwnSession
<1>6. key \in 1 .. started /\ \A j \in SessionIds : Open(j) /\ sessions[j].birth = key => j = i
  BY <1>4, <1>5 DEF Births
<1>7. \A r \in sealed : r[1] = key => r[2] < seq
  BY <1>1, <1>4, <1>5 DEF Sealings
<1>8. ~reused'
  <2>1. <<key, seq>> \notin sealed
    BY <1>1, <1>7
  <2> QED  BY <1>2, <1>4, <2>1
<1>9. Sealings'
  <2>1. ASSUME NEW r \in sealed PROVE /\ r[1] \in 1 .. started'
                                      /\ \A j \in SessionIds : Open(j)' /\ sessions'[j].birth = r[1] =>
                                           sessions'[j].state # "Initial" /\ r[2] < sessions'[j].cseq
    <3>1. /\ r[1] \in 1 .. started
          /\ \A j \in SessionIds : Open(j) /\ sessions[j].birth = r[1] =>
               sessions[j].state # "Initial" /\ r[2] < sessions[j].cseq
      BY <1>4 DEF Sealings
    <3>2. r[2] \in Nat
      BY <1>4
    <3> QED  BY <1>1, <1>3, <3>1, <3>2
  <2>2. /\ key \in 1 .. started'
        /\ \A j \in SessionIds : Open(j)' /\ sessions'[j].birth = key =>
             sessions'[j].state # "Initial" /\ seq < sessions'[j].cseq
    BY <1>1, <1>3, <1>5, <1>6
  <2>3. ASSUME NEW r \in sealed', r \notin sealed PROVE r = <<key, seq>> /\ r[1] = key /\ r[2] = seq
    BY <1>2, <2>3
  <2> QED  BY <2>1, <2>2, <2>3 DEF Sealings
<1>10. Births'
  BY <1>3, <1>4, <1>5 DEF Births
<1>11. Shakes'
  BY <1>3, <1>4, <1>5 DEF Shakes, Shaking, TlsInv, TlsTyped, ShakeType
<1>12. Knowns'
  BY <1>3, <1>4 DEF Knowns, Shaking
<1>13. sealed' \in SUBSET (Nat \X Nat)
  BY <1>2, <1>4
<1> QED  BY <1>3, <1>8, <1>9, <1>10, <1>11, <1>12, <1>13

(* What a record leaves of the types when the process is stale. *)
LEMMA SealTyped ==
  ASSUME TlsInv, NEW i \in SessionIds, Open(i), NEW s \in SessionType, sessions' = [sessions EXCEPT ![i] = s],
         Seal(sessions[i].key, sessions[i].cseq)
  PROVE  sessions' \in [SessionIds -> SessionType \cup {NoSession}] /\ sealed' \in SUBSET (Nat \X Nat)
<1>1. PICK key \in Nat, seq \in Nat : key = sessions[i].key /\ seq = sessions[i].cseq
  BY DEF TlsInv, TlsTyped, Open, SessionType
<1>2. sealed' = sealed \cup {<<key, seq>>}
  BY <1>1 DEF Seal
<1> QED  BY <1>2 DEF TlsInv, TlsTyped

LEMMA SendKeeps ==
  ASSUME TlsInv, NEW c \in Clients, NEW i \in SessionIds, TlsSend(c, i)
  PROVE  TlsInv'
<1>1. /\ Open(i) /\ (stale' <=> stale \/ sessions[i].birth # known[c][i])
      /\ Seal(sessions[i].key, sessions[i].cseq) /\ sessions[i].state = "ApplicationData"
      /\ UNCHANGED <<shake, io, known, started, failures, down>>
  BY DEF TlsSend, Use, Open
<1>2. PICK s \in SessionType : s = sessions[i]
  BY <1>1 DEF TlsInv, TlsTyped, Open
<1>3. PICK n \in Nat : n = s.cseq + 1
  BY DEF SessionType
<1>4. PICK q : q = [s EXCEPT !.cseq = n]
  OBVIOUS
<1>5. q \in SessionType /\ q.state = s.state /\ q.key = s.key /\ q.birth = s.birth /\ q.cseq = n
  BY <1>4 DEF SessionType
<1>6. sessions' = [sessions EXCEPT ![i] = q]
  BY <1>2, <1>3, <1>4 DEF TlsSend, Counted
<1>7. TlsTyped'
  <2>1. sessions' \in [SessionIds -> SessionType \cup {NoSession}] /\ sealed' \in SUBSET (Nat \X Nat)
    BY <1>1, <1>5, <1>6, SealTyped
  <2> QED  BY <1>1, <2>1 DEF TlsInv, TlsTyped
<1>8. ASSUME ~stale' PROVE TlsSound'
  <2>1. ~stale /\ sessions[i].birth = known[c][i]
    BY <1>1, <1>8
  <2>2. q.state # "Initial" /\ q.key = sessions[i].key /\ q.birth = sessions[i].birth /\ q.cseq = sessions[i].cseq + 1
    BY <1>1, <1>2, <1>3, <1>5
  <2>3. /\ \A j \in SessionIds : /\ Open(j)' <=> Open(j)
                                 /\ sessions'[j] = IF j = i THEN q ELSE sessions[j]
        /\ Births' /\ Shakes' /\ Knowns' /\ Sealings' /\ ~reused'
    BY <1>1, <1>5, <1>6, <2>1, <2>2, SealKeeps
  <2>4. \A j \in SessionIds : (Open(j) => sessions'[j].state = sessions[j].state /\ sessions'[j].birth = sessions[j].birth)
    BY <1>2, <1>5, <2>3
  <2>5. Closings'
    BY <1>1, <2>1, <2>3, <2>4 DEF TlsInv, TlsSound, Closings, Closing
  <2>6. \A j \in SessionIds : Lost(j)' <=> Lost(j)
    BY <1>1, <2>3, <2>4 DEF Lost, Open, Closing
  <2>7. LostIds' = LostIds
    BY <2>6 DEF LostIds
  <2> QED  BY <1>1, <2>1, <2>3, <2>5, <2>7 DEF TlsInv, TlsSound
<1> QED  BY <1>7, <1>8 DEF TlsInv

LEMMA CloseKeeps ==
  ASSUME TlsInv, NEW c \in Clients, NEW i \in SessionIds, TlsClose(c, i)
  PROVE  TlsInv'
<1>1. /\ Open(i) /\ (stale' <=> stale \/ sessions[i].birth # known[c][i])
      /\ Seal(sessions[i].key, sessions[i].cseq) /\ sessions[i].state # "Closed"
      /\ UNCHANGED <<shake, known, started, failures, down>>
  BY DEF TlsClose, Use, Open
<1>2. PICK s \in SessionType : s = sessions[i]
  BY <1>1 DEF TlsInv, TlsTyped, Open
<1>3. PICK n \in Nat : n = s.cseq + 1
  BY DEF SessionType
<1>4. PICK q : q = [s EXCEPT !.cseq = n, !.state = "Closed"]
  OBVIOUS
<1>5. q \in SessionType /\ q.state = "Closed" /\ q.key = s.key /\ q.birth = s.birth /\ q.cseq = n
  BY <1>4 DEF SessionType
<1>6. sessions' = [sessions EXCEPT ![i] = q]
  BY <1>2, <1>3, <1>4 DEF TlsClose
<1>7. PICK w \in IoType : w = [stage |-> "close", idx |-> i] /\ w.stage = "close" /\ w.idx = i
  <2>1. PICK w : w = [stage |-> "close", idx |-> i]
    OBVIOUS
  <2>2. w \in IoType /\ w.stage = "close" /\ w.idx = i
    BY <2>1 DEF IoType
  <2> QED  BY <2>1, <2>2
<1>8. io' \in [Clients -> IoType \cup {NoIo}] /\ ~Closing(c, i) /\ (\A j \in SessionIds : ~Closing(c, j))
      /\ \A d \in Clients, j \in SessionIds : Closing(d, j)' <=> Closing(d, j) \/ (d = c /\ j = i)
  <2>1. io[c] = NoIo /\ io' = [io EXCEPT ![c] = w]
    BY <1>7 DEF TlsClose, Use, Busy
  <2>2. io \in [Clients -> IoType \cup {NoIo}] /\ NoIo.stage = "none"
    BY EntriesApart DEF TlsInv, TlsTyped
  <2>3. io' \in [Clients -> IoType \cup {NoIo}] /\ \A d \in Clients : io'[d] = IF d = c THEN w ELSE io[d]
    BY <2>1, <2>2
  <2> QED  BY <1>7, <2>1, <2>2, <2>3 DEF Closing
<1>9. TlsTyped'
  <2>1. sessions' \in [SessionIds -> SessionType \cup {NoSession}] /\ sealed' \in SUBSET (Nat \X Nat)
    BY <1>1, <1>5, <1>6, SealTyped
  <2> QED  BY <1>1, <1>8, <2>1 DEF TlsInv, TlsTyped
<1>10. ASSUME ~stale' PROVE TlsSound'
  <2>1. ~stale /\ sessions[i].birth = known[c][i]
    BY <1>1, <1>10
  <2>2. q.state # "Initial" /\ q.key = sessions[i].key /\ q.birth = sessions[i].birth /\ q.cseq = sessions[i].cseq + 1
    BY <1>2, <1>3, <1>5
  <2>3. /\ \A j \in SessionIds : /\ Open(j)' <=> Open(j)
                                 /\ sessions'[j] = IF j = i THEN q ELSE sessions[j]
        /\ Births' /\ Shakes' /\ Knowns' /\ Sealings' /\ ~reused'
    BY <1>1, <1>5, <1>6, <2>1, <2>2, SealKeeps
  <2>4. \A d \in Clients : ~Closing(d, i)
    BY <1>1, <2>1 DEF TlsInv, TlsSound, Closings
  <2>5. Closings'
    <3>1. \A d \in Clients, j \in SessionIds : Closing(d, j) =>
            /\ Open(j) /\ sessions[j].state = "Closed"
            /\ \A e \in Clients : Closing(e, j) => d = e
      BY <2>1 DEF TlsInv, TlsSound, Closings
    <3> QED  BY <1>1, <1>5, <1>8, <2>3, <2>4, <3>1 DEF Closings
  <2>6. ~Lost(i) /\ ~Lost(i)'
    <3>1. ~Lost(i)
      BY <1>1, <1>2, <2>1, OwnSession DEF SessionType
    <3>2. Closing(c, i)' /\ sessions'[i].state = "Closed"
      BY <1>5, <1>8, <2>3
    <3> QED  BY <3>1, <3>2 DEF Lost
  <2>7. \A j \in SessionIds : j # i => (Lost(j)' <=> Lost(j))
    BY <1>1, <1>8, <2>3 DEF Lost
  <2>8. LostIds' = LostIds
    BY <2>6, <2>7 DEF LostIds
  <2> QED  BY <1>1, <2>1, <2>3, <2>5, <2>8 DEF TlsInv, TlsSound
<1> QED  BY <1>9, <1>10 DEF TlsInv

(* tls_recv waits, decrypts or gives up: no session changes. *)
LEMMA WaitKeeps ==
  ASSUME TlsInv, NEW c \in Clients, (\E i \in SessionIds : TlsRecv(c, i)) \/ RecvRecord(c) \/ RecvFails(c)
  PROVE  TlsInv'
<1>1. /\ UNCHANGED <<sessions, shake, known, started, sealed, reused, failures, down>>
      /\ stale => stale'
  <2>1. ASSUME NEW i \in SessionIds, TlsRecv(c, i)
        PROVE  UNCHANGED <<sessions, shake, known, started, sealed, reused, failures, down>> /\ (stale => stale')
    BY <2>1, Zenon DEF TlsRecv, Use
  <2>2. ASSUME RecvRecord(c) \/ RecvFails(c)
        PROVE  UNCHANGED <<sessions, shake, known, started, sealed, reused, failures, down>> /\ (stale => stale')
    <3>1. CASE RecvRecord(c)
      BY <3>1 DEF RecvRecord
    <3>2. CASE RecvFails(c)
      BY <3>2 DEF RecvFails
    <3> QED  BY <2>2, <3>1, <3>2
  <2> QED  BY <2>1, <2>2, Zenon
<1>2. io \in [Clients -> IoType \cup {NoIo}] /\ NoIo.stage = "none" /\ NoIo \notin IoType
  BY EntriesApart DEF TlsInv, TlsTyped
<1>3. PICK w \in IoType \cup {NoIo} : io' = [io EXCEPT ![c] = w] /\ w.stage # "close" /\ io[c].stage # "close"
  <2>1. ASSUME NEW i \in SessionIds, TlsRecv(c, i)
        PROVE  \E w \in IoType \cup {NoIo} : io' = [io EXCEPT ![c] = w] /\ w.stage # "close" /\ io[c].stage # "close"
    <3>1. PICK w \in IoType : w = [stage |-> "read", idx |-> i] /\ w.stage = "read"
      <4>1. PICK w : w = [stage |-> "read", idx |-> i]
        OBVIOUS
      <4>2. w \in IoType /\ w.stage = "read"
        BY <4>1 DEF IoType
      <4> QED  BY <4>1, <4>2
    <3>2. io[c] = NoIo /\ io' = [io EXCEPT ![c] = w]
      BY <2>1, <3>1 DEF TlsRecv, Use, Busy
    <3> QED  BY <1>2, <3>1, <3>2
  <2>2. CASE RecvRecord(c)
    <3>1. PICK v \in IoType : v = io[c] /\ v.stage = "read"
      BY <1>2, <2>2 DEF RecvRecord
    <3>2. PICK w : w = [v EXCEPT !.stage = "count"]
      OBVIOUS
    <3>3. w \in IoType /\ w.stage = "count"
      BY <3>2 DEF IoType
    <3>4. io' = [io EXCEPT ![c] = w]
      BY <2>2, <3>1, <3>2 DEF RecvRecord
    <3> QED  BY <3>1, <3>3, <3>4
  <2>3. CASE RecvFails(c)
    BY <1>2, <2>3 DEF RecvFails
  <2> QED  BY <2>1, <2>2, <2>3
<1>4. io' \in [Clients -> IoType \cup {NoIo}] /\ \A d \in Clients : io'[d] = IF d = c THEN w ELSE io[d]
  BY <1>2, <1>3
<1>5. \A d \in Clients, j \in SessionIds : Closing(d, j)' <=> Closing(d, j)
  BY <1>3, <1>4 DEF Closing
<1>6. TlsTyped'
  BY <1>1, <1>4 DEF TlsInv, TlsTyped
<1>7. ASSUME ~stale' PROVE TlsSound'
  <2>1. TlsSound
    BY <1>1, <1>7 DEF TlsInv
  <2>2. Births' /\ Shakes' /\ Knowns' /\ Sealings'
    BY <1>1, <2>1 DEF TlsSound, Births, Shakes, Knowns, Sealings, Open, Shaking
  <2>3. Closings'
    BY <1>1, <1>5, <2>1 DEF TlsSound, Closings, Open
  <2>4. LostIds' = LostIds
    BY <1>1, <1>5 DEF LostIds, Lost
  <2> QED  BY <1>1, <2>1, <2>2, <2>3, <2>4 DEF TlsSound
<1> QED  BY <1>6, <1>7 DEF TlsInv

(* A received record is counted in whatever session has the index. *)
LEMMA CountsKeeps ==
  ASSUME TlsInv, NEW c \in Clients, RecvCounts(c)
  PROVE  TlsInv'
<1>1. UNCHANGED <<shake, known, started, sealed, reused, failures, stale, down>>
  BY DEF RecvCounts
<1>2. io \in [Clients -> IoType \cup {NoIo}] /\ NoIo.stage = "none" /\ NoIo \notin IoType
  BY EntriesApart DEF TlsInv, TlsTyped
<1>3. PICK v \in IoType : v = io[c] /\ v.stage = "count"
  BY <1>2 DEF RecvCounts
<1>4. PICK i \in SessionIds : i = io[c].idx
  BY <1>3 DEF IoType
<1>5. io' \in [Clients -> IoType \cup {NoIo}] /\ \A d \in Clients : io'[d] = IF d = c THEN NoIo ELSE io[d]
  BY <1>2 DEF RecvCounts
<1>6. \A d \in Clients, j \in SessionIds : Closing(d, j)' <=> Closing(d, j)
  BY <1>2, <1>3, <1>5 DEF Closing
<1>7. /\ sessions' \in [SessionIds -> SessionType \cup {NoSession}]
      /\ \A j \in SessionIds :
           /\ Open(j)' <=> Open(j)
           /\ Open(j) => /\ sessions'[j].state = sessions[j].state /\ sessions'[j].key = sessions[j].key
                         /\ sessions'[j].birth = sessions[j].birth /\ sessions'[j].cseq = sessions[j].cseq
  <2>1. CASE ~Open(i)
    <3>1. sessions' = sessions
      BY <1>4, <2>1 DEF RecvCounts, Open
    <3> QED  BY <3>1 DEF TlsInv, TlsTyped, Open
  <2>2. CASE Open(i)
    <3>1. PICK s \in SessionType : s = sessions[i]
      BY <2>2 DEF TlsInv, TlsTyped, Open
    <3>2. PICK n \in Nat : n = s.sseq + 1
      BY DEF SessionType
    <3>3. PICK q : q = [s EXCEPT !.sseq = n]
      OBVIOUS
    <3>4. q \in SessionType /\ q.state = s.state /\ q.key = s.key /\ q.birth = s.birth /\ q.cseq = s.cseq
      BY <3>3 DEF SessionType
    <3>5. sessions' = [sessions EXCEPT ![i] = q]
      BY <1>4, <2>2, <3>1, <3>2, <3>3 DEF RecvCounts, Open
    <3>6. sessions \in [SessionIds -> SessionType \cup {NoSession}]
      BY DEF TlsInv, TlsTyped
    <3>7. /\ sessions' \in [SessionIds -> SessionType \cup {NoSession}]
          /\ \A j \in SessionIds : sessions'[j] = IF j = i THEN q ELSE sessions[j]
      BY <3>4, <3>5, <3>6
    <3> QED  BY <2>2, <3>1, <3>4, <3>7, EntriesApart DEF Open
  <2> QED  BY <2>1, <2>2
<1>8. TlsTyped'
  BY <1>1, <1>5, <1>7 DEF TlsInv, TlsTyped
<1>9. ASSUME ~stale' PROVE TlsSound'
  <2>1. TlsSound
    BY <1>1, <1>9 DEF TlsInv
  <2>2. Births' /\ Knowns' /\ Sealings' /\ Closings'
    BY <1>1, <1>6, <1>7, <2>1 DEF TlsSound, Births, Knowns, Sealings, Closings, Shaking
  <2>3. Shakes'
    BY <1>1, <1>7, <2>1 DEF TlsSound, Shakes, Shaking, TlsInv, TlsTyped, ShakeType
  <2>4. \A j \in SessionIds : Lost(j)' <=> Lost(j)
    BY <1>1, <1>6, <1>7 DEF Lost, Open
  <2>5. LostIds' = LostIds
    BY <2>4 DEF LostIds
  <2> QED  BY <1>1, <2>1, <2>2, <2>3, <2>5 DEF TlsSound
<1> QED  BY <1>8, <1>9 DEF TlsInv

(* The closed session is freed: it is still the one that was closed. *)
LEMMA FreesKeeps ==
  ASSUME TlsInv, NEW c \in Clients, CloseFrees(c)
  PROVE  TlsInv'
<1>1. /\ sessions' = Freed(io[c].idx)
      /\ UNCHANGED <<shake, known, started, sealed, reused, failures, stale, down>>
  BY DEF CloseFrees
<1>2. io \in [Clients -> IoType \cup {NoIo}] /\ NoIo.stage = "none" /\ NoIo \notin IoType
  BY EntriesApart DEF TlsInv, TlsTyped
<1>3. PICK v \in IoType : v = io[c] /\ v.stage = "close"
  BY <1>2 DEF CloseFrees
<1>4. PICK i \in SessionIds : i = io[c].idx /\ Closing(c, i)
  BY <1>3 DEF IoType, Closing
<1>5. io' \in [Clients -> IoType \cup {NoIo}] /\ \A d \in Clients : io'[d] = IF d = c THEN NoIo ELSE io[d]
  BY <1>2 DEF CloseFrees
<1>6. \A d \in Clients, j \in SessionIds : Closing(d, j)' <=> d # c /\ Closing(d, j)
  BY <1>2, <1>5 DEF Closing
<1>7. /\ sessions' \in [SessionIds -> SessionType \cup {NoSession}]
      /\ \A j \in SessionIds : (Open(j)' <=> j # i /\ Open(j)) /\ (j # i => sessions'[j] = sessions[j])
  BY <1>1, <1>4, FreedKeeps
<1>8. TlsTyped'
  BY <1>1, <1>5, <1>7 DEF TlsInv, TlsTyped
<1>9. ASSUME ~stale' PROVE TlsSound'
  <2>1. Births /\ Shakes /\ Knowns /\ Sealings /\ Closings /\ ~reused /\ down # "gone" /\ Cardinality(LostIds) = failures
    BY <1>1, <1>9 DEF TlsInv, TlsSound
  <2>2. /\ Open(i) /\ sessions[i].state = "Closed"
        /\ \A d \in Clients : Closing(d, i) => d = c
    BY <1>4, <2>1 DEF Closings
  <2>3. \A d \in Clients : Shaking(d) => shake[d].idx # i /\ shake[d].idx \in SessionIds
    BY <2>1, <2>2 DEF Shakes, Shaking, TlsInv, TlsTyped, ShakeType
  <2>4. Births' /\ Sealings'
    BY <1>1, <1>7, <2>1 DEF Births, Sealings
  <2>5. Shakes'
    BY <1>1, <1>7, <2>1, <2>3 DEF Shakes, Shaking
  <2>6. Knowns'
    BY <1>1, <1>7, <2>1 DEF Knowns, Shaking
  <2>7. Closings'
    BY <1>6, <1>7, <2>1, <2>2 DEF Closings
  <2>8. \A j \in SessionIds : Lost(j)' <=> Lost(j)
    <3> SUFFICES ASSUME NEW j \in SessionIds PROVE Lost(j)' <=> Lost(j)
      OBVIOUS
    <3>1. CASE j = i
      BY <1>4, <1>7, <2>2, <3>1 DEF Lost, Open
    <3>2. CASE j # i
      <4>1. \A d \in Clients : Closing(d, j)' <=> Closing(d, j)
        BY <1>4, <1>6, <3>2 DEF Closing
      <4> QED  BY <1>1, <1>7, <3>2, <4>1 DEF Lost, Open
    <3> QED  BY <3>1, <3>2
  <2>9. LostIds' = LostIds
    BY <2>8 DEF LostIds
  <2> QED  BY <1>1, <2>1, <2>4, <2>5, <2>6, <2>7, <2>9 DEF TlsSound
<1> QED  BY <1>1, <1>8, <1>9 DEF TlsInv

(* A step of a handshake, which finds its session. *)
LEMMA StageMoves ==
  ASSUME TlsInv, NEW c \in Clients, Shaking(c),
         NEW stage \in {"hello", "serverHello", "flight", "ccs", "finished", "store"},
         (Go(c, stage) /\ UNCHANGED down) \/ Unwrap(c, stage),
         UNCHANGED <<sessions, io, known, started, sealed, reused, failures, stale>>
  PROVE  TlsInv'
<1>1. PICK k \in ShakeType : k = shake[c]
  BY DEF TlsInv, TlsTyped, Shaking
<1>2. PICK h : h = [k EXCEPT !.stage = stage]
  OBVIOUS
<1>3. h \in ShakeType /\ h.idx = k.idx /\ h.key = k.key
  BY <1>2 DEF ShakeType
<1>4. CASE Go(c, stage) /\ UNCHANGED down
  <2>1. shake' = [shake EXCEPT ![c] = h]
    BY <1>1, <1>2, <1>4 DEF Go
  <2> QED  BY <1>1, <1>3, <1>4, <2>1, StageKeeps
<1>5. CASE sessions[shake[c].idx] = NoSession /\ UNCHANGED shake
  <2>1. TlsTyped'
    BY <1>5 DEF TlsInv, TlsTyped
  <2>2. stale
    BY <1>5, ShakesApart DEF Open
  <2> QED  BY <2>1, <2>2 DEF TlsInv
<1> QED  BY <1>4, <1>5 DEF Unwrap

LEMMA TlsInvInit == TlsInit => TlsInv
<1> SUFFICES ASSUME TlsInit PROVE TlsInv
  OBVIOUS
<1>1. TlsTyped
  BY DEF TlsInit, TlsTyped
<1>2. (\A i \in SessionIds : ~Open(i)) /\ (\A c \in Clients : ~Shaking(c)) /\ sealed = {} /\ started = 0
  BY DEF TlsInit, Open, Shaking
<1>3. \A c \in Clients, i \in SessionIds : known[c][i] = 0
  BY DEF TlsInit
<1>4. Births /\ Shakes /\ Knowns /\ Sealings
  BY <1>2, <1>3 DEF Births, Shakes, Knowns, Sealings
<1>7. Closings
  BY DEF TlsInit, Closings, Closing, NoIo
<1>5. LostIds = {}
  BY <1>2 DEF LostIds, Lost, Open
<1>6. Cardinality(LostIds) = 0
  BY <1>5, FS_EmptySet
<1> QED  BY <1>1, <1>4, <1>6, <1>7 DEF TlsInv, TlsSound, TlsInit

LEMMA TlsInvNext == TlsInv /\ [TlsNext]_tlsVars => TlsInv'
<1> SUFFICES ASSUME TlsInv, [TlsNext]_tlsVars PROVE TlsInv'
  OBVIOUS
<1>1. ASSUME NEW c \in Clients, HelloSent(c) PROVE TlsInv'
  BY <1>1, StageMoves DEF HelloSent, Shaking, NoShake
<1>2. ASSUME NEW c \in Clients, ServerHello(c) PROVE TlsInv'
  BY <1>2, StageMoves DEF ServerHello, Shaking, NoShake
<1>3. ASSUME NEW c \in Clients, FlightRecord(c) PROVE TlsInv'
  <2>1. Shaking(c) /\ UNCHANGED <<sessions, io, known, started, sealed, reused, failures, stale, down>>
    BY <1>3 DEF FlightRecord, Shaking, NoShake
  <2>2. PICK k \in ShakeType : k = shake[c] /\ k.left > 1
    BY <1>3, <2>1 DEF FlightRecord, TlsInv, TlsTyped, Shaking
  <2>3. PICK n \in Nat : n = k.left - 1
    BY <2>2 DEF ShakeType
  <2>4. PICK h : h = [k EXCEPT !.left = n]
    OBVIOUS
  <2>5. h \in ShakeType /\ h.idx = k.idx /\ h.key = k.key
    BY <2>4 DEF ShakeType
  <2>6. shake' = [shake EXCEPT ![c] = h]
    BY <1>3, <2>2, <2>3, <2>4 DEF FlightRecord
  <2> QED  BY <2>1, <2>2, <2>5, <2>6, StageKeeps
<1>4. ASSUME NEW c \in Clients, ServerFinished(c) PROVE TlsInv'
  BY <1>4, StageMoves DEF ServerFinished, Shaking, NoShake
<1>5. ASSUME NEW c \in Clients, ClientFinished(c) PROVE TlsInv'
  BY <1>5, StageMoves DEF ClientFinished, Shaking, NoShake
<1>6. CASE UNCHANGED tlsVars
  <2>1. UNCHANGED <<sessions, shake, io, known, started, sealed, reused, failures, stale, down>>
    BY <1>6 DEF tlsVars
  <2>2. LostIds' = LostIds
    BY <2>1 DEF LostIds, Lost, Closing
  <2> QED  BY <2>1, <2>2 DEF TlsInv, TlsTyped, TlsSound, Births, Shakes, Knowns, Sealings, Closings, Closing, Open, Shaking
<1>7. ASSUME NEW c \in Clients, ServerHelloShort(c) PROVE TlsInv'
  <2>1. down' = "short" /\ UNCHANGED <<sessions, shake, io, known, started, sealed, reused, failures, stale>>
    BY <1>7 DEF ServerHelloShort
  <2>2. LostIds' = LostIds
    BY <2>1 DEF LostIds, Lost, Closing
  <2> QED  BY <2>1, <2>2 DEF TlsInv, TlsTyped, TlsSound, Births, Shakes, Knowns, Sealings, Closings, Closing, Open, Shaking
<1> QED  BY <1>1, <1>2, <1>3, <1>4, <1>5, <1>6, <1>7, ConnectKeeps, SocketFailsKeeps, HandshakeFailsKeeps,
           HandshakeDoneKeeps, SendKeeps, CloseKeeps, CountsKeeps, FreesKeeps, WaitKeeps DEF TlsNext

(* As long as processes use their own sessions, for any number of          *)
(* processes and sessions: no two records are sealed with the same key and *)
(* number, none with the initial key, no handshake loses its session, and  *)
(* a socket error during a handshake costs exactly one entry of the table. *)
THEOREM NonceUniqueEver == TlsSpec => []NonceUnique
<1>1. TlsInit => TlsInv
  BY TlsInvInit
<1>2. TlsInv /\ [TlsNext]_tlsVars => TlsInv'
  BY TlsInvNext
<1>3. TlsInv => NonceUnique
  <2>1. TlsSound => \A r \in sealed : r[1] # 0
    BY DEF TlsSound, Sealings
  <2> QED  BY <2>1 DEF TlsInv, TlsSound, NonceUnique, LostIds
<1> QED  BY <1>1, <1>2, <1>3, PTL DEF TlsSpec

-----------------------------------------------------------------------------
(* The frame allocator *)

(* The sizes of blocks are the powers of two. *)
LEMMA Sizes ==
  /\ BlockSize \in [Orders -> Nat]
  /\ BlockSize[0] = 1
  /\ \A o \in 1 .. MaxOrder : BlockSize[o] = 2 * BlockSize[o - 1]
  /\ \A o \in Orders : BlockSize[o] >= 1
<1> DEFINE F == [p \in Nat \X (1 .. MaxOrder) |-> 2 * p[1]]
           IsLoop(f) == f = [i \in Orders |-> IF i = 0 THEN 1 ELSE 2 * f[i - 1]]
<1>1. MaxOrder \in Nat /\ Orders = 0 .. MaxOrder /\ 1 \in Nat
  BY MemoryAssumption DEF Orders
<1>2. F \in [Nat \X (1 .. MaxOrder) -> Nat]
  OBVIOUS
<1>3. \E f : IsLoop(f)
  <2> HIDE DEF F, IsLoop
  <2>1. PICK f : IsRun(f, MaxOrder, Nat, 1, F)
    BY <1>1, <1>2, FiniteRun
  <2>2. ASSUME NEW i \in 1 .. MaxOrder PROVE f[i] = 2 * f[i - 1]
    <3>1. f[i - 1] \in Nat
      BY <1>1, <2>1 DEF IsRun
    <3>2. <<f[i - 1], i>> \in Nat \X (1 .. MaxOrder)
      BY <3>1
    <3>3. F[<<f[i - 1], i>>] = 2 * f[i - 1]
      BY <3>2 DEF F
    <3> QED  BY <2>1, <3>3 DEF IsRun
  <2>3. f = [i \in Orders |-> IF i = 0 THEN 1 ELSE 2 * f[i - 1]]
    BY <1>1, <2>1, <2>2 DEF IsRun
  <2> QED  BY <2>3 DEF IsLoop
<1>4. IsLoop(BlockSize)
  <2>1. BlockSize = (CHOOSE f : IsLoop(f))
    BY DEF BlockSize
  <2> HIDE DEF IsLoop
  <2> QED  BY <1>3, <2>1
<1>5. /\ BlockSize[0] = 1 /\ \A o \in 1 .. MaxOrder : BlockSize[o] = 2 * BlockSize[o - 1]
      /\ DOMAIN BlockSize = Orders /\ BlockSize = [i \in Orders |-> BlockSize[i]]
  <2>1. 0 \in Orders /\ \A i \in 1 .. MaxOrder : i \in Orders /\ i # 0
    BY <1>1
  <2> QED  BY <1>4, <2>1
<1> DEFINE A == {n \in Nat : n >= 1}
<1>6. BlockSize[0] \in A /\ \A i \in 1 .. MaxOrder : BlockSize[i - 1] \in A => BlockSize[i] \in A
  BY <1>5
<1>7. \A i \in 0 .. MaxOrder : BlockSize[i] \in A
  <2> HIDE DEF A
  <2> QED  BY <1>1, <1>6, RunStays
<1>8. BlockSize \in [Orders -> Nat] /\ \A o \in Orders : BlockSize[o] >= 1
  BY <1>1, <1>5, <1>7
<1> QED  BY <1>5, <1>8

(* A block of a lower order fits into half of a block. *)
LEMMA SizesGrow ==
  ASSUME NEW o \in Orders, NEW p \in Orders, o < p
  PROVE  2 * BlockSize[o] <= BlockSize[p] /\ BlockSize[o + 1] = 2 * BlockSize[o] /\ o + 1 \in Orders
<1>1. MaxOrder \in Nat /\ Orders = 0 .. MaxOrder
  BY MemoryAssumption DEF Orders
<1>2. o + 1 \in 1 .. MaxOrder /\ (o + 1) - 1 = o
  BY <1>1
<1>3. BlockSize[o + 1] = 2 * BlockSize[o]
  BY <1>2, Sizes
<1> DEFINE T == {i \in 0 .. p - o - 1 : BlockSize[o + 1 + i] >= BlockSize[o + 1]}
<1>4. 0 \in T
  <2>1. BlockSize[o + 1] \in Nat /\ o + 1 + 0 = o + 1 /\ p - o - 1 \in Nat
    BY <1>1, <1>2, Sizes
  <2> QED  BY <2>1
<1>5. ASSUME NEW i \in 1 .. p - o - 1, i - 1 \in T PROVE i \in T
  <2>1. o + 1 + i \in 1 .. MaxOrder /\ (o + 1 + i) - 1 = o + 1 + (i - 1) /\ o + 1 + (i - 1) \in Orders /\ i \in 0 .. p - o - 1
    BY <1>1
  <2>2. BlockSize[o + 1 + i] = 2 * BlockSize[o + 1 + (i - 1)]
    BY <2>1, Sizes
  <2>3. BlockSize[o + 1 + (i - 1)] >= BlockSize[o + 1]
    BY <1>5
  <2>4. PICK a \in Nat, b \in Nat : a = BlockSize[o + 1 + (i - 1)] /\ b = BlockSize[o + 1]
    BY <1>1, <1>2, <2>1, Sizes
  <2>5. 2 * a >= b
    BY <2>3, <2>4
  <2> QED  BY <2>1, <2>2, <2>4, <2>5
<1>6. \A i \in 0 .. p - o - 1 : i \in T
  <2>1. p - o - 1 \in Nat
    BY <1>1
  <2> HIDE DEF T
  <2> QED  BY <1>4, <1>5, <2>1, CountUp
<1>7. p - o - 1 \in 0 .. p - o - 1 /\ o + 1 + (p - o - 1) = p
  BY <1>1
<1>8. BlockSize[p] >= BlockSize[o + 1]
  BY <1>6, <1>7
<1>9. PICK a \in Nat, b \in Nat : a = BlockSize[p] /\ b = BlockSize[o]
  BY Sizes
<1>10. a >= 2 * b
  BY <1>3, <1>8, <1>9
<1> QED  BY <1>1, <1>2, <1>3, <1>9, <1>10

(* The frames of a block. *)
LEMMA BlockIs ==
  ASSUME NEW f \in Nat, NEW o \in Orders
  PROVE  /\ Block(f, o) \subseteq Nat /\ f \in Block(f, o)
         /\ \A x \in Nat : x \in Block(f, o) <=> f <= x /\ x < f + BlockSize[o]
         /\ IsFiniteSet(Block(f, o)) /\ Cardinality(Block(f, o)) = BlockSize[o]
<1>1. PICK n \in Nat : n = BlockSize[o] /\ n >= 1
  BY Sizes
<1>2. Block(f, o) = f .. f + n - 1
  BY <1>1 DEF Block
<1>3. IsFiniteSet(f .. f + n - 1) /\ Cardinality(f .. f + n - 1) = n
  <2>1. f \in Int /\ f + n - 1 \in Int /\ ~(f > f + n - 1) /\ (f + n - 1) - f + 1 = n
    BY <1>1
  <2> QED  BY <2>1, FS_Interval
<1> QED  BY <1>1, <1>2, <1>3

(* What a set of blocks covers. *)
LEMMA CoveredIs ==
  ASSUME NEW S, NEW x
  PROVE  x \in Covered(S) <=> \E b \in S : x \in Block(b.frame, b.order)
BY DEF Covered

(* A block is taken out of a tiling. *)
LEMMA CutOut ==
  ASSUME NEW A, Disjoint(A), NEW b \in A
  PROVE  /\ Disjoint(A \ {b}) /\ Covered(A \ {b}) = Covered(A) \ Block(b.frame, b.order)
         /\ Block(b.frame, b.order) \subseteq Covered(A)
<1>1. Disjoint(A \ {b})
  BY DEF Disjoint
<1>2. Block(b.frame, b.order) \subseteq Covered(A)
  BY CoveredIs
<1>3. ASSUME NEW x PROVE x \in Covered(A \ {b}) <=> x \in Covered(A) /\ x \notin Block(b.frame, b.order)
  <2>1. ASSUME NEW c \in A \ {b}, x \in Block(c.frame, c.order) PROVE x \notin Block(b.frame, b.order)
    BY <2>1 DEF Disjoint
  <2>2. ASSUME NEW c \in A, x \in Block(c.frame, c.order), x \notin Block(b.frame, b.order) PROVE c \in A \ {b}
    BY <2>2
  <2> QED  BY <2>1, <2>2, CoveredIs
<1> QED  BY <1>1, <1>2, <1>3

(* Two tilings of different frames make one. *)
LEMMA PutIn ==
  ASSUME NEW A, NEW P, Disjoint(A), Disjoint(P), Covered(A) \cap Covered(P) = {}
  PROVE  Disjoint(A \cup P) /\ Covered(A \cup P) = Covered(A) \cup Covered(P)
<1>1. ASSUME NEW x PROVE x \in Covered(A \cup P) <=> x \in Covered(A) \cup Covered(P)
  BY CoveredIs
<1>2. ASSUME NEW b \in A \cup P, NEW c \in A \cup P, b # c,
             NEW x, x \in Block(b.frame, b.order), x \in Block(c.frame, c.order)
      PROVE  FALSE
  <2>1. CASE b \in A /\ c \in A
    BY <1>2, <2>1 DEF Disjoint
  <2>2. CASE b \in P /\ c \in P
    BY <1>2, <2>2 DEF Disjoint
  <2>3. CASE b \in A /\ c \in P
    BY <1>2, <2>3, CoveredIs
  <2>4. CASE b \in P /\ c \in A
    BY <1>2, <2>4, CoveredIs
  <2> QED  BY <2>1, <2>2, <2>3, <2>4
<1>3. Disjoint(A \cup P)
  BY <1>2 DEF Disjoint
<1> QED  BY <1>1, <1>3

(* One block. *)
LEMMA OneBlock ==
  ASSUME NEW b
  PROVE  Disjoint({b}) /\ Covered({b}) = Block(b.frame, b.order)
<1>1. \A x : x \in Covered({b}) <=> x \in Block(b.frame, b.order)
  BY CoveredIs
<1> QED  BY <1>1 DEF Disjoint

(* The upper halves that splitting a block leaves. *)
UpperHalves(f, from, to) == {b \in Blocks : to <= b.order /\ b.order < from /\ b.frame = f + BlockSize[b.order]}

LEMMA SplitParts ==
  ASSUME NEW f \in Nat, NEW from \in Orders, NEW to \in Orders, to <= from, Block(f, from) \subseteq Frames
  PROVE  /\ Disjoint(UpperHalves(f, from, to))
         /\ Covered(UpperHalves(f, from, to)) = Block(f, from) \ Block(f, to)
         /\ Block(f, to) \subseteq Block(f, from)
<1> DEFINE P == UpperHalves(f, from, to)
<1>1. MaxOrder \in Nat /\ Orders = 0 .. MaxOrder /\ MaxFrames \in Nat /\ Frames = 0 .. MaxFrames - 1
  BY MemoryAssumption DEF Orders, Frames
<1>2. ASSUME NEW b \in P
      PROVE  /\ b.order \in Orders /\ to <= b.order /\ b.order < from /\ b.frame = f + BlockSize[b.order]
             /\ b.frame \in Nat
  BY <1>1 DEF UpperHalves, Blocks
<1>3. ASSUME NEW o \in Orders, to <= o, o < from, NEW x \in Nat
      PROVE  /\ x \in Block(f + BlockSize[o], o) <=> f + BlockSize[o] <= x /\ x < f + 2 * BlockSize[o]
             /\ 2 * BlockSize[o] <= BlockSize[from] /\ BlockSize[to] <= BlockSize[o]
  <2>1. PICK n \in Nat : n = BlockSize[o]
    BY Sizes
  <2>2. f + n \in Nat /\ (f + n) + n = f + 2 * n
    OBVIOUS
  <2>3. x \in Block(f + n, o) <=> f + n <= x /\ x < f + 2 * n
    BY <2>1, <2>2, BlockIs
  <2>4. 2 * n <= BlockSize[from]
    BY <1>3, <2>1, SizesGrow
  <2>5. BlockSize[to] <= n
    <3>1. CASE to = o
      BY <2>1, <3>1
    <3>2. CASE to < o
      <4>1. 2 * BlockSize[to] <= BlockSize[o] /\ BlockSize[to] \in Nat
        BY <3>2, SizesGrow, Sizes
      <4> QED  BY <2>1, <4>1
    <3> QED  BY <1>1, <1>3, <3>1, <3>2
  <2> QED  BY <2>1, <2>3, <2>4, <2>5
<1>4. Disjoint(P)
  <2>1. ASSUME NEW b \in P, NEW c \in P, b.order < c.order, NEW x \in Nat,
               x \in Block(b.frame, b.order), x \in Block(c.frame, c.order)
        PROVE  FALSE
    <3>1. PICK m \in Nat, n \in Nat : m = BlockSize[b.order] /\ n = BlockSize[c.order]
      BY <1>2, Sizes
    <3>2. x < f + 2 * m /\ f + n <= x
      BY <1>2, <1>3, <2>1, <3>1
    <3>3. 2 * m <= n
      BY <1>2, <2>1, <3>1, SizesGrow
    <3> QED  BY <3>2, <3>3
  <2>2. ASSUME NEW b \in P, NEW c \in P, b # c PROVE b.order < c.order \/ c.order < b.order
    <3>1. b \in Blocks /\ c \in Blocks
      BY DEF UpperHalves
    <3>2. b.order # c.order
      BY <1>2, <2>2, <3>1 DEF Blocks
    <3> QED  BY <1>1, <1>2, <3>2
  <2>3. \A b \in P : Block(b.frame, b.order) \subseteq Nat
    BY <1>2, BlockIs
  <2> HIDE DEF P
  <2> QED  BY <2>1, <2>2, <2>3 DEF Disjoint
<1>5. Block(f, to) \subseteq Block(f, from)
  <2>1. BlockSize[to] <= BlockSize[from] /\ BlockSize[to] \in Nat /\ BlockSize[from] \in Nat
    <3>1. CASE to = from
      BY <3>1, Sizes
    <3>2. CASE to < from
      <4>1. 2 * BlockSize[to] <= BlockSize[from] /\ BlockSize[to] \in Nat /\ BlockSize[from] \in Nat
        BY <3>2, SizesGrow, Sizes
      <4> QED  BY <4>1
    <3> QED  BY <1>1, <3>1, <3>2
  <2>2. ASSUME NEW x \in Block(f, to) PROVE x \in Block(f, from)
    <3>1. x \in Nat /\ f <= x /\ x < f + BlockSize[to]
      BY BlockIs
    <3>2. x < f + BlockSize[from]
      BY <2>1, <3>1
    <3> QED  BY <3>1, <3>2, BlockIs
  <2> QED  BY <2>2
<1>6. ASSUME NEW x \in Covered(P) PROVE x \in Block(f, from) /\ x \notin Block(f, to)
  <2> HIDE DEF P
  <2>1. PICK b \in P : x \in Block(b.frame, b.order)
    BY CoveredIs
  <2>2. PICK m \in Nat, n \in Nat, l \in Nat : m = BlockSize[b.order] /\ n = BlockSize[from] /\ l = BlockSize[to]
    BY <1>2, Sizes
  <2>3. x \in Nat
    BY <1>2, <2>1, BlockIs
  <2>4. f + m <= x /\ x < f + 2 * m /\ 2 * m <= n /\ l <= m
    BY <1>2, <1>3, <2>1, <2>2, <2>3
  <2>5. f <= x /\ x < f + n /\ ~(x < f + l)
    BY <2>3, <2>4
  <2> QED  BY <2>2, <2>3, <2>5, BlockIs
<1>7. ASSUME NEW x \in Block(f, from), x \notin Block(f, to) PROVE x \in Covered(P)
  <2>1. x \in Nat /\ f <= x /\ x < f + BlockSize[from]
    BY BlockIs
  <2>2. ~(x < f + BlockSize[to])
    BY <1>7, <2>1, BlockIs
  <2> DEFINE T == {o \in Orders : to <= o /\ f + BlockSize[o] <= x}
  <2>3. to \in T
    <3>1. BlockSize[to] \in Nat
      BY Sizes
    <3>2. f + BlockSize[to] <= x /\ to <= to
      BY <1>1, <2>1, <2>2, <3>1
    <3> QED  BY <3>2
  <2>4. PICK o \in T : \A y \in T : y <= o
    <3>1. T \in SUBSET Nat /\ T # {} /\ \A t \in T : t <= MaxOrder
      BY <1>1, <2>3
    <3> HIDE DEF T
    <3> QED  BY <1>1, <3>1, GreatestNat
  <2>5. o \in Orders /\ to <= o /\ f + BlockSize[o] <= x
    OBVIOUS
  <2>6. o < from
    <3>1. CASE o = from
      <4>1. BlockSize[from] \in Nat
        BY Sizes
      <4> QED  BY <2>1, <2>5, <3>1, <4>1
    <3>2. CASE from < o
      <4>1. 2 * BlockSize[from] <= BlockSize[o] /\ BlockSize[from] \in Nat /\ BlockSize[o] \in Nat
        BY <2>5, <3>2, SizesGrow, Sizes
      <4> QED  BY <2>1, <2>5, <4>1
    <3> QED  BY <1>1, <2>5, <3>1, <3>2
  <2>7. x < f + 2 * BlockSize[o]
    <3>1. o + 1 \in Orders /\ BlockSize[o + 1] = 2 * BlockSize[o] /\ BlockSize[o] \in Nat
      BY <2>5, <2>6, SizesGrow, Sizes
    <3>2. o + 1 \notin T
      <4>1. ~(o + 1 <= o)
        BY <1>1, <2>5
      <4> HIDE DEF T
      <4> QED  BY <2>4, <4>1
    <3>3. to <= o + 1
      BY <1>1, <2>5
    <3>4. ~(f + BlockSize[o + 1] <= x)
      BY <3>1, <3>2, <3>3
    <3> QED  BY <2>1, <3>1, <3>4
  <2>8. PICK n \in Nat : n = BlockSize[o] /\ n >= 1
    BY <2>5, Sizes
  <2>9. x \in Block(f + n, o)
    BY <1>3, <2>1, <2>5, <2>6, <2>7, <2>8
  <2>10. f + n \in Frames
    <3>1. x \in Frames
      BY <1>7
    <3> QED  BY <1>1, <2>5, <2>8, <3>1
  <2>11. PICK b \in Blocks : b = [frame |-> f + n, order |-> o] /\ b.frame = f + n /\ b.order = o
    <3>1. [frame |-> f + n, order |-> o] \in Blocks
      BY <2>5, <2>10 DEF Blocks
    <3> QED  BY <3>1
  <2>12. b \in P
    BY <2>5, <2>6, <2>8, <2>11 DEF UpperHalves
  <2> QED  BY <2>9, <2>11, <2>12, CoveredIs
<1> QED  BY <1>4, <1>5, <1>6, <1>7

(* What the free lists are made of. *)
Lists(lists) == lists \in [Orders -> Seq(Frames)] /\ \A o \in Orders : IsInjective(lists[o])

(* The blocks of the lists, one by one. *)
LEMMA BlocksInIs ==
  ASSUME NEW lists, Lists(lists), NEW f, NEW o
  PROVE  [frame |-> f, order |-> o] \in BlocksIn(lists) <=> o \in Orders /\ f \in ToSet(lists[o])
<1>1. ASSUME o \in Orders, f \in ToSet(lists[o]) PROVE f \in Frames
  <2>1. lists[o] \in Seq(Frames)
    BY <1>1 DEF Lists
  <2> QED  BY <1>1, <2>1 DEF ToSet
<1>2. [frame |-> f, order |-> o] \in Blocks <=> f \in Frames /\ o \in Orders
  BY DEF Blocks
<1> QED  BY <1>1, <1>2 DEF BlocksIn

(* A block is a frame and an order. *)
LEMMA BlockPair ==
  ASSUME NEW b \in Blocks
  PROVE  b = [frame |-> b.frame, order |-> b.order] /\ b.frame \in Frames /\ b.order \in Orders
BY DEF Blocks

(* One list is replaced. *)
Replaced(lists, new, o, q) == new = [lists EXCEPT ![o] = q]
LEMMA ListReplaced ==
  ASSUME NEW lists, Lists(lists), NEW o \in Orders, NEW q \in Seq(Frames), IsInjective(q),
         NEW new, Replaced(lists, new, o, q)
  PROVE  /\ Lists(new)
         /\ \A b \in Blocks : b \in BlocksIn(new)
                             <=> IF b.order = o THEN b.frame \in ToSet(q) ELSE b \in BlocksIn(lists)
<1>1. lists \in [Orders -> Seq(Frames)] /\ \A p \in Orders : IsInjective(lists[p])
  BY DEF Lists
<1>2. new = [lists EXCEPT ![o] = q]
  BY DEF Replaced
<1>3. new \in [Orders -> Seq(Frames)] /\ new[o] = q /\ \A p \in Orders \ {o} : new[p] = lists[p]
  BY <1>1, <1>2
<1>4. Lists(new)
  BY <1>1, <1>3 DEF Lists
<1>5. ASSUME NEW b \in Blocks
      PROVE  b \in BlocksIn(new) <=> IF b.order = o THEN b.frame \in ToSet(q) ELSE b \in BlocksIn(lists)
  BY <1>3, BlockPair DEF BlocksIn
<1> QED  BY <1>2, <1>4, <1>5

(* The elements of a sequence with one put in front. *)
LEMMA PrependElements ==
  ASSUME NEW A, NEW s \in Seq(A), NEW e \in A, IsInjective(s), e \notin ToSet(s)
  PROVE  /\ <<e>> \o s \in Seq(A) /\ ToSet(<<e>> \o s) = ToSet(s) \cup {e} /\ IsInjective(<<e>> \o s)
<1>1. PICK n \in Nat : n = Len(s) /\ DOMAIN s = 1 .. n
  OBVIOUS
<1>2. <<e>> \in Seq(A) /\ Len(<<e>>) = 1 /\ <<e>>[1] = e
  OBVIOUS
<1>3. PICK t : t = <<e>> \o s
  OBVIOUS
<1>4. t \in Seq(A) /\ Len(t) = n + 1 /\ DOMAIN t = 1 .. n + 1 /\ t[1] = e /\ \A i \in 1 .. n : t[i + 1] = s[i]
  <2>1. t \in Seq(A) /\ Len(t) = 1 + n
    BY <1>1, <1>2, <1>3, ConcatProperties
  <2>2. t[1] = e
    BY <1>1, <1>2, <1>3, ConcatProperties
  <2>3. ASSUME NEW i \in 1 .. n PROVE t[i + 1] = s[i]
    BY <1>1, <1>2, <1>3
  <2> QED  BY <1>1, <2>1, <2>2, <2>3
<1>5. \A j \in 1 .. n + 1 : j = 1 \/ (j - 1 \in 1 .. n /\ t[j] = s[j - 1])
  <2> SUFFICES ASSUME NEW j \in 1 .. n + 1, j # 1 PROVE j - 1 \in 1 .. n /\ t[j] = s[j - 1]
    OBVIOUS
  <2>1. j - 1 \in 1 .. n /\ (j - 1) + 1 = j
    OBVIOUS
  <2> QED  BY <1>4, <2>1
<1>6. \A i \in 1 .. n : i + 1 \in 1 .. n + 1
  OBVIOUS
<1>7. ToSet(t) = ToSet(s) \cup {e}
  <2>1. ToSet(t) = {t[j] : j \in 1 .. n + 1} /\ ToSet(s) = {s[i] : i \in 1 .. n}
    BY <1>1, <1>4 DEF ToSet
  <2>2. 1 \in 1 .. n + 1
    OBVIOUS
  <2> QED  BY <1>4, <1>5, <1>6, <2>1, <2>2
<1>8. IsInjective(t)
  <2> SUFFICES ASSUME NEW j \in 1 .. n + 1, NEW k \in 1 .. n + 1, t[j] = t[k] PROVE j = k
    BY <1>4 DEF IsInjective
  <2>1. \A i \in 1 .. n : s[i] # e
    BY <1>1 DEF ToSet
  <2>2. CASE j = 1 \/ k = 1
    BY <1>4, <1>5, <2>1, <2>2
  <2>3. CASE j # 1 /\ k # 1
    <3>1. j - 1 \in 1 .. n /\ k - 1 \in 1 .. n /\ s[j - 1] = s[k - 1]
      BY <1>5, <2>3
    <3>2. j - 1 = k - 1
      BY <1>1, <3>1 DEF IsInjective
    <3> QED  BY <3>2
  <2> QED  BY <2>2, <2>3
<1> QED  BY <1>3, <1>4, <1>7, <1>8

(* A block is pushed. *)
LEMMA PushBlocks ==
  ASSUME NEW lists, Lists(lists), NEW f \in Frames, NEW o \in Orders, f \notin ToSet(lists[o])
  PROVE  /\ Lists(Push(lists, f, o))
         /\ BlocksIn(Push(lists, f, o)) = BlocksIn(lists) \cup {[frame |-> f, order |-> o]}
<1>1. PICK s \in Seq(Frames) : s = lists[o] /\ IsInjective(s) /\ lists \in [Orders -> Seq(Frames)]
  BY DEF Lists
<1>2. PICK q : q = <<f>> \o s
  OBVIOUS
<1>3. q \in Seq(Frames) /\ ToSet(q) = ToSet(s) \cup {f} /\ IsInjective(q)
  BY <1>1, <1>2, PrependElements
<1>4. Push(lists, f, o) = [lists EXCEPT ![o] = q]
  BY <1>1, <1>2 DEF Push
<1>5. PICK new : new = [lists EXCEPT ![o] = q] /\ Replaced(lists, new, o, q)
  BY DEF Replaced
<1>6. Lists(new) /\ \A b \in Blocks : b \in BlocksIn(new)
                        <=> IF b.order = o THEN b.frame \in ToSet(q) ELSE b \in BlocksIn(lists)
  BY <1>3, <1>5, ListReplaced
<1>7. PICK c \in Blocks : c = [frame |-> f, order |-> o] /\ c.frame = f /\ c.order = o
  <2>1. [frame |-> f, order |-> o] \in Blocks
    BY DEF Blocks
  <2> QED  BY <2>1
<1>8. ASSUME NEW b \in Blocks PROVE b \in BlocksIn(new) <=> b \in BlocksIn(lists) \cup {c}
  <2>1. b = [frame |-> b.frame, order |-> b.order]
    BY BlockPair
  <2>2. b = c <=> b.frame = f /\ b.order = o
    BY <1>7, <2>1
  <2>3. b.order = o => (b \in BlocksIn(lists) <=> b.frame \in ToSet(s))
    BY <1>1 DEF BlocksIn
  <2> QED  BY <1>3, <1>6, <2>2, <2>3
<1>9. BlocksIn(new) \subseteq Blocks /\ BlocksIn(lists) \subseteq Blocks
  BY DEF BlocksIn
<1> QED  BY <1>4, <1>5, <1>6, <1>7, <1>8, <1>9

(* A block leaves its list. *)
Without(q, list, f) == ToSet(q) = ToSet(list) \ {f}
BlockGone(lists, new, f, o) == Lists(new) /\ BlocksIn(new) = BlocksIn(lists) \ {[frame |-> f, order |-> o]}
LEMMA BlockLeaves ==
  ASSUME NEW lists, Lists(lists), NEW f, NEW o \in Orders, NEW q \in Seq(Frames), IsInjective(q),
         Without(q, lists[o], f), NEW new, Replaced(lists, new, o, q)
  PROVE  BlockGone(lists, new, f, o)
<1>1. Replaced(lists, new, o, q) /\ ToSet(q) = ToSet(lists[o]) \ {f}
  BY DEF Without
<1>2. Lists(new) /\ \A b \in Blocks : b \in BlocksIn(new)
                        <=> IF b.order = o THEN b.frame \in ToSet(q) ELSE b \in BlocksIn(lists)
  BY <1>1, ListReplaced
<1>3. PICK c : c = [frame |-> f, order |-> o] /\ c.frame = f /\ c.order = o
  <2>1. [frame |-> f, order |-> o].frame = f /\ [frame |-> f, order |-> o].order = o
    OBVIOUS
  <2> QED  BY <2>1
<1>4. ASSUME NEW b \in Blocks PROVE b \in BlocksIn(new) <=> b \in BlocksIn(lists) \ {c}
  <2>1. b = [frame |-> b.frame, order |-> b.order]
    BY BlockPair
  <2>2. b = c <=> b.frame = f /\ b.order = o
    BY <1>3, <2>1
  <2>3. b.order = o => (b \in BlocksIn(lists) <=> b.frame \in ToSet(lists[o]))
    BY DEF BlocksIn
  <2> QED  BY <1>1, <1>2, <2>2, <2>3
<1>5. BlocksIn(new) \subseteq Blocks /\ BlocksIn(lists) \subseteq Blocks
  BY DEF BlocksIn
<1> QED  BY <1>2, <1>3, <1>4, <1>5 DEF BlockGone

(* What RemoveAt of the community modules does, by position. *)
LEMMA RemoveAtElements ==
  ASSUME NEW A, NEW t \in Seq(A), NEW p \in 1 .. Len(t)
  PROVE  /\ RemoveAt(t, p) \in Seq(A) /\ Len(RemoveAt(t, p)) = Len(t) - 1
         /\ \A k \in 1 .. Len(t) - 1 : RemoveAt(t, p)[k] = IF k < p THEN t[k] ELSE t[k + 1]
<1> DEFINE a == SubSeq(t, 1, p - 1)
           b == SubSeq(t, p + 1, Len(t))
<1>1. Len(t) \in Nat /\ p \in Nat /\ p >= 1 /\ p <= Len(t)
  OBVIOUS
<1>2. a \in Seq(A) /\ Len(a) = p - 1 /\ \A i \in 1 .. p - 1 : a[i] = t[i]
  BY <1>1
<1>3. b \in Seq(A) /\ Len(b) = Len(t) - p /\ \A i \in 1 .. Len(t) - p : b[i] = t[p + i]
  BY <1>1
<1>4. RemoveAt(t, p) = a \o b
  BY DEF RemoveAt
<1> HIDE DEF a, b
<1>5. a \o b \in Seq(A) /\ Len(a \o b) = Len(t) - 1
  <2>1. a \o b \in Seq(A) /\ Len(a \o b) = Len(a) + Len(b)
    BY <1>2, <1>3, ConcatProperties
  <2> QED  BY <1>1, <1>2, <1>3, <2>1
<1>6. ASSUME NEW k \in 1 .. Len(t) - 1
      PROVE  (a \o b)[k] = IF k < p THEN t[k] ELSE t[k + 1]
  <2>1. CASE k < p
    <3>1. (a \o b)[k] = a[k]
      BY <1>1, <1>2, <1>3, <2>1
    <3> QED  BY <1>1, <1>2, <2>1, <3>1
  <2>2. CASE k >= p
    <3>1. (a \o b)[k] = b[k - (p - 1)]
      BY <1>1, <1>2, <1>3, <2>2
    <3>2. k - (p - 1) \in 1 .. Len(t) - p /\ p + (k - (p - 1)) = k + 1
      BY <1>1, <2>2
    <3>3. b[k - (p - 1)] = t[k + 1]
      BY <1>3, <3>2
    <3> QED  BY <1>1, <2>2, <3>1, <3>3
  <2>3. k < p \/ k >= p
    BY <1>1
  <2> QED  BY <2>1, <2>2, <2>3
<1> QED  BY <1>4, <1>5, <1>6

(* The elements of a sequence of different ones without one of them. *)
LEMMA RemoveElements ==
  ASSUME NEW A, NEW s \in Seq(A), NEW p \in 1 .. Len(s), IsInjective(s)
  PROVE  /\ RemoveAt(s, p) \in Seq(A) /\ IsInjective(RemoveAt(s, p))
         /\ ToSet(RemoveAt(s, p)) = ToSet(s) \ {s[p]}
<1>1. PICK n \in Nat : n = Len(s) /\ DOMAIN s = 1 .. n /\ n >= 1
  OBVIOUS
<1>2. PICK t : t = RemoveAt(s, p)
  OBVIOUS
<1>3. t \in Seq(A) /\ Len(t) = n - 1 /\ \A k \in 1 .. n - 1 : t[k] = IF k < p THEN s[k] ELSE s[k + 1]
  BY <1>1, <1>2, RemoveAtElements
<1>4. DOMAIN t = 1 .. n - 1
  BY <1>3
<1> DEFINE From(k) == IF k < p THEN k ELSE k + 1
<1>5. \A k \in 1 .. n - 1 : From(k) \in 1 .. n /\ From(k) # p /\ t[k] = s[From(k)]
  BY <1>1, <1>3
<1>6. \A j, k \in 1 .. n - 1 : From(j) = From(k) => j = k
  BY <1>1
<1>7. \A i \in 1 .. n : i # p => \E k \in 1 .. n - 1 : i = From(k)
  <2> SUFFICES ASSUME NEW i \in 1 .. n, i # p PROVE \E k \in 1 .. n - 1 : i = From(k)
    OBVIOUS
  <2>1. CASE i < p
    <3>1. i \in 1 .. n - 1 /\ i = From(i)
      BY <1>1, <2>1
    <3> QED  BY <3>1
  <2>2. CASE i > p
    <3>1. i - 1 \in 1 .. n - 1 /\ i = From(i - 1)
      BY <1>1, <2>2
    <3> QED  BY <3>1
  <2> QED  BY <1>1, <2>1, <2>2
<1> HIDE DEF From
<1>8. IsInjective(t)
  BY <1>1, <1>4, <1>5, <1>6 DEF IsInjective
<1>9. ToSet(t) = ToSet(s) \ {s[p]}
  <2>1. ToSet(t) = {t[k] : k \in 1 .. n - 1} /\ ToSet(s) = {s[i] : i \in 1 .. n}
    BY <1>1, <1>4 DEF ToSet
  <2>2. ASSUME NEW k \in 1 .. n - 1 PROVE t[k] \in ToSet(s) /\ t[k] # s[p]
    BY <1>1, <1>5, <2>1 DEF IsInjective
  <2>3. ASSUME NEW i \in 1 .. n, s[i] # s[p] PROVE s[i] \in ToSet(t)
    BY <1>5, <1>7, <2>1, <2>3
  <2> QED  BY <2>1, <2>2, <2>3
<1> QED  BY <1>2, <1>3, <1>8, <1>9

(* The head of a list is popped. *)
LEMMA TailElements ==
  ASSUME NEW A, NEW s \in Seq(A), s # << >>, IsInjective(s)
  PROVE  Tail(s) \in Seq(A) /\ IsInjective(Tail(s)) /\ ToSet(Tail(s)) = ToSet(s) \ {Head(s)} /\ Head(s) \in ToSet(s)
<1>1. PICK n \in Nat : n = Len(s) /\ DOMAIN s = 1 .. n /\ n >= 1
  OBVIOUS
<1>2. /\ Tail(s) \in Seq(A) /\ Len(Tail(s)) = n - 1 /\ DOMAIN Tail(s) = 1 .. n - 1 /\ Head(s) = s[1]
      /\ \A k \in 1 .. n - 1 : Tail(s)[k] = s[k + 1]
  BY <1>1
<1>3. IsInjective(Tail(s))
  <2> SUFFICES ASSUME NEW j \in 1 .. n - 1, NEW k \in 1 .. n - 1, Tail(s)[j] = Tail(s)[k] PROVE j = k
    BY <1>2 DEF IsInjective
  <2>1. j + 1 \in 1 .. n /\ k + 1 \in 1 .. n /\ s[j + 1] = s[k + 1]
    BY <1>1, <1>2
  <2>2. j + 1 = k + 1
    BY <1>1, <2>1 DEF IsInjective
  <2> QED  BY <2>2
<1>4. ToSet(Tail(s)) = ToSet(s) \ {s[1]}
  <2>1. ToSet(Tail(s)) = {Tail(s)[k] : k \in 1 .. n - 1} /\ ToSet(s) = {s[i] : i \in 1 .. n}
    BY <1>1, <1>2 DEF ToSet
  <2>2. ASSUME NEW k \in 1 .. n - 1 PROVE Tail(s)[k] \in ToSet(s) /\ Tail(s)[k] # s[1]
    <3>1. k + 1 \in 1 .. n /\ k + 1 # 1 /\ 1 \in 1 .. n
      BY <1>1
    <3> QED  BY <1>1, <1>2, <2>1, <3>1 DEF IsInjective
  <2>3. ASSUME NEW i \in 1 .. n, s[i] # s[1] PROVE s[i] \in ToSet(Tail(s))
    <3>1. i - 1 \in 1 .. n - 1 /\ (i - 1) + 1 = i
      BY <1>1, <2>3
    <3> QED  BY <1>2, <2>1, <3>1
  <2> QED  BY <2>1, <2>2, <2>3
<1>5. s[1] \in ToSet(s)
  BY <1>1 DEF ToSet
<1> QED  BY <1>2, <1>3, <1>4, <1>5

(* Sets of frames are finite. *)
LEMMA FramesFinite ==
  ASSUME NEW S \in SUBSET Frames
  PROVE  IsFiniteSet(S) /\ Cardinality(S) \in Nat /\ Frames \subseteq Nat
<1>1. 0 \in Int /\ MaxFrames - 1 \in Int /\ Frames = 0 .. MaxFrames - 1
  BY MemoryAssumption DEF Frames
<1>2. IsFiniteSet(Frames)
  BY <1>1, FS_Interval
<1>3. IsFiniteSet(S)
  BY <1>2, FS_Subset
<1> QED  BY <1>1, <1>3, FS_CardinalityType

(* A block and its buddy are the block of the next order. *)
LEMMA Halves ==
  ASSUME NEW f \in Nat, NEW o \in Orders, o < MaxOrder
  PROVE  /\ o + 1 \in Orders
         /\ Block(f, o + 1) = Block(f, o) \cup Block(f + BlockSize[o], o)
<1>1. MaxOrder \in Nat /\ Orders = 0 .. MaxOrder
  BY MemoryAssumption DEF Orders
<1>2. o + 1 \in Orders /\ o < o + 1
  BY <1>1
<1>3. PICK n \in Nat : n = BlockSize[o] /\ n >= 1 /\ BlockSize[o + 1] = 2 * n
  BY <1>2, Sizes, SizesGrow
<1>4. f + n \in Nat /\ (f + n) + n = f + 2 * n
  OBVIOUS
<1>5. ASSUME NEW x \in Nat PROVE x \in Block(f, o + 1) <=> x \in Block(f, o) \cup Block(f + n, o)
  <2>1. x \in Block(f, o) <=> f <= x /\ x < f + n
    BY <1>3, BlockIs
  <2>2. x \in Block(f + n, o) <=> f + n <= x /\ x < f + 2 * n
    BY <1>3, <1>4, BlockIs
  <2>3. x \in Block(f, o + 1) <=> f <= x /\ x < f + 2 * n
    BY <1>2, <1>3, BlockIs
  <2> QED  BY <1>3, <2>1, <2>2, <2>3
<1>6. Block(f, o) \subseteq Nat /\ Block(f + n, o) \subseteq Nat /\ Block(f, o + 1) \subseteq Nat
  BY <1>2, <1>4, BlockIs
<1> QED  BY <1>2, <1>3, <1>5, <1>6

(* A block starts at a multiple of its size. *)
Aligned(f, o) == \E q \in Nat : f = q * BlockSize[o]

LEMMA AlignedIs ==
  ASSUME NEW f \in Nat, NEW o \in Orders
  PROVE  Aligned(f, o) <=> f % BlockSize[o] = 0
<1>1. PICK n \in Nat : n = BlockSize[o] /\ n >= 1
  BY Sizes
<1>2. ASSUME f % n = 0 PROVE \E q \in Nat : f = q * n
  <2>1. f = (f \div n) * n + (f % n)
    BY <1>1
  <2>2. f \div n \in Nat
    BY <1>1
  <2> QED  BY <1>2, <2>1, <2>2
<1>3. ASSUME NEW q \in Nat, f = q * n PROVE f % n = 0
  <2>1. (q * n) % n = 0
    BY <1>1
  <2> QED  BY <1>3, <2>1
<1> QED  BY <1>1, <1>2, <1>3 DEF Aligned

(* A larger size is a multiple of a smaller one. *)
LEMMA SizeMultiple ==
  ASSUME NEW o \in Orders, NEW p \in Orders, o <= p
  PROVE  \E t \in Nat : BlockSize[p] = t * BlockSize[o]
<1>1. MaxOrder \in Nat /\ Orders = 0 .. MaxOrder
  BY MemoryAssumption DEF Orders
<1>2. PICK n \in Nat : n = BlockSize[o]
  BY Sizes
<1>3. PICK d \in Nat : d = p - o /\ o + d = p
  BY <1>1
<1> DEFINE T == {i \in 0 .. d : \E t \in Nat : BlockSize[o + i] = t * n}
<1>4. 0 \in T
  <2>1. o + 0 = o /\ n = 1 * n /\ 0 \in 0 .. d
    BY <1>1
  <2> QED  BY <1>2, <2>1
<1>5. ASSUME NEW i \in 1 .. d, i - 1 \in T PROVE i \in T
  <2>1. o + i \in 1 .. MaxOrder /\ (o + i) - 1 = o + (i - 1) /\ i \in 0 .. d
    BY <1>1, <1>3
  <2>2. BlockSize[o + i] = 2 * BlockSize[o + (i - 1)]
    BY <2>1, Sizes
  <2>3. PICK t \in Nat : BlockSize[o + (i - 1)] = t * n
    BY <1>5
  <2>4. 2 * (t * n) = (2 * t) * n /\ 2 * t \in Nat
    OBVIOUS
  <2> QED  BY <2>1, <2>2, <2>3, <2>4
<1>6. \A i \in 0 .. d : i \in T
  <2> HIDE DEF T
  <2> QED  BY <1>4, <1>5, CountUp
<1>7. d \in 0 .. d
  OBVIOUS
<1> QED  BY <1>2, <1>3, <1>6, <1>7

LEMMA AlignedDown ==
  ASSUME NEW f \in Nat, NEW o \in Orders, NEW p \in Orders, o <= p, Aligned(f, p)
  PROVE  Aligned(f, o)
<1>1. PICK n \in Nat : n = BlockSize[o]
  BY Sizes
<1>2. PICK t \in Nat : BlockSize[p] = t * n
  BY <1>1, SizeMultiple
<1>3. PICK q \in Nat : f = q * BlockSize[p]
  BY DEF Aligned
<1>4. q * (t * n) = (q * t) * n /\ q * t \in Nat
  OBVIOUS
<1> QED  BY <1>1, <1>2, <1>3, <1>4 DEF Aligned

(* Multiples of a number are at least that number apart. *)
LEMMA Apart ==
  ASSUME NEW q \in Nat, NEW r \in Nat, NEW s \in Nat, s >= 1, q * s < r * s
  PROVE  q * s + s <= r * s
<1>1. q < r
  OBVIOUS
<1>2. (q + 1) * s <= r * s
  BY <1>1
<1>3. (q + 1) * s = q * s + s
  OBVIOUS
<1> QED  BY <1>2, <1>3

(* Two aligned blocks that meet are one inside the other. *)
LEMMA Nested ==
  ASSUME NEW f \in Nat, NEW o \in Orders, NEW g \in Nat, NEW p \in Orders, o <= p,
         Aligned(f, o), Aligned(g, p), NEW x, x \in Block(f, o), x \in Block(g, p)
  PROVE  Block(f, o) \subseteq Block(g, p) /\ (o = p => f = g)
<1>1. PICK a \in Nat, b \in Nat : a = BlockSize[o] /\ b = BlockSize[p] /\ a >= 1
  BY Sizes
<1>2. PICK t \in Nat : b = t * a
  BY <1>1, SizeMultiple
<1>3. PICK q \in Nat : f = q * a
  BY <1>1 DEF Aligned
<1>4. PICK r \in Nat : g = r * a
  BY <1>1, AlignedDown DEF Aligned
<1>5. x \in Nat /\ f <= x /\ x < f + a /\ g <= x /\ x < g + b
  BY <1>1, BlockIs
<1>6. g <= f
  <2> SUFFICES ASSUME f < g PROVE FALSE
    OBVIOUS
  <2>1. q * a + a <= r * a
    BY <1>1, <1>3, <1>4, Apart
  <2> QED  BY <1>1, <1>3, <1>4, <1>5, <2>1
<1>7. f + a <= g + b
  <2>1. r * a + t * a = (r + t) * a /\ r + t \in Nat
    OBVIOUS
  <2>2. q * a < (r + t) * a
    BY <1>1, <1>2, <1>3, <1>4, <1>5, <2>1
  <2>3. q * a + a <= (r + t) * a
    BY <1>1, <2>1, <2>2, Apart
  <2> QED  BY <1>2, <1>3, <1>4, <2>1, <2>3
<1>8. ASSUME NEW y \in Block(f, o) PROVE y \in Block(g, p)
  <2>1. y \in Nat /\ f <= y /\ y < f + a
    BY <1>1, BlockIs
  <2>2. g <= y /\ y < g + b
    BY <1>1, <1>6, <1>7, <2>1
  <2> QED  BY <1>1, <2>1, <2>2, BlockIs
<1>9. o = p => f = g
  BY <1>1, <1>6, <1>7
<1> QED  BY <1>8, <1>9

(* The buddy of an aligned block, and the block the two of them are. *)
LEMMA BuddyIs ==
  ASSUME NEW f \in Nat, NEW o \in Orders, o < MaxOrder, Aligned(f, o),
         NEW u, u = Buddy(f, o), NEW g, g = IF u < f THEN u ELSE f
  PROVE  /\ u \in Nat /\ u # f /\ Aligned(u, o) /\ Buddy(u, o) = f
         /\ o + 1 \in Orders /\ g \in Nat /\ Aligned(g, o + 1) /\ Block(g, o + 1) = Block(f, o) \cup Block(u, o)
<1>1. PICK n \in Nat : n = BlockSize[o] /\ n >= 1
  BY Sizes
<1>2. o + 1 \in Orders /\ BlockSize[o + 1] = 2 * n
  BY <1>1, Halves, SizesGrow, MemoryAssumption DEF Orders
<1>3. PICK q \in Nat : f = q * n
  BY <1>1 DEF Aligned
<1>4. \A k \in Nat : (k * n) \div n = k
  BY <1>1
<1>5. q = 2 * (q \div 2) + (q % 2) /\ q \div 2 \in Nat /\ q % 2 \in 0 .. 1
  OBVIOUS
<1>6. PICK h \in Nat : q = 2 * h \/ q = 2 * h + 1
  BY <1>5
<1>7. (2 * h) * n = h * (2 * n) /\ (2 * h + 1) * n = (2 * h) * n + n /\ (2 * h + 1) * n \in Nat /\ (2 * h) * n \in Nat
  OBVIOUS
<1>8. 2 * h \in Nat /\ 2 * h + 1 \in Nat /\ (2 * h) % 2 = 0 /\ (2 * h + 1) % 2 = 1
  OBVIOUS
<1>9. Buddy((2 * h) * n, o) = (2 * h) * n + n
  BY <1>1, <1>4, <1>8 DEF Buddy
<1>10. Buddy((2 * h + 1) * n, o) = (2 * h) * n
  <2>1. Buddy((2 * h + 1) * n, o) = (2 * h + 1) * n - n
    BY <1>1, <1>4, <1>8 DEF Buddy
  <2> QED  BY <1>7, <2>1
<1>11. Aligned((2 * h) * n, o) /\ Aligned((2 * h + 1) * n, o)
  BY <1>1, <1>8 DEF Aligned
<1>12. Aligned((2 * h) * n, o + 1)
  BY <1>2, <1>7 DEF Aligned
<1>13. PICK v \in Nat, w \in Nat : v = (2 * h) * n /\ w = (2 * h + 1) * n /\ w = v + n
  BY <1>7
<1>14. Block(v, o + 1) = Block(v, o) \cup Block(w, o)
  BY <1>1, <1>13, Halves
<1>15. Buddy(v, o) = w /\ Buddy(w, o) = v /\ Aligned(v, o) /\ Aligned(w, o) /\ Aligned(v, o + 1)
  BY <1>9, <1>10, <1>11, <1>12, <1>13
<1>16. CASE f = v
  <2>1. u = w /\ g = v
    BY <1>1, <1>13, <1>15, <1>16
  <2> QED  BY <1>1, <1>2, <1>13, <1>14, <1>15, <1>16, <2>1
<1>17. CASE f = w
  <2>1. u = v /\ g = v
    BY <1>1, <1>13, <1>15, <1>17
  <2> QED  BY <1>1, <1>2, <1>13, <1>14, <1>15, <1>17, <2>1
<1> QED  BY <1>3, <1>6, <1>13, <1>16, <1>17

(* Blocks that do not overlap and are aligned, no two of them buddies. *)
Merged(S) ==
  /\ S \subseteq Blocks /\ Disjoint(S)
  /\ \A b \in S : Aligned(b.frame, b.order)
  /\ \A b, c \in S : b.order = c.order /\ b.order < MaxOrder => c.frame # Buddy(b.frame, b.order)

(* Then an aligned run of that many free frames is inside one block. *)
LEMMA MergedCovers ==
  ASSUME NEW S, Merged(S), NEW f \in Nat, NEW o \in Orders, Aligned(f, o), Block(f, o) \subseteq Covered(S)
  PROVE  \E b \in S : o <= b.order /\ f \in Block(b.frame, b.order)
<1> SUFFICES ASSUME \A b \in S : ~(o <= b.order /\ f \in Block(b.frame, b.order)) PROVE FALSE
  OBVIOUS
<1>1. MaxOrder \in Nat /\ Orders = 0 .. MaxOrder
  BY MemoryAssumption DEF Orders
<1>2. ASSUME NEW b \in S
      PROVE  b.order \in Orders /\ b.order \in Nat /\ b.frame \in Nat /\ Aligned(b.frame, b.order)
  BY <1>1, BlockPair, FramesFinite DEF Merged
<1>3. f \in Block(f, o)
  BY BlockIs
<1>4. ASSUME NEW b \in S, NEW x \in Block(f, o), x \in Block(b.frame, b.order) PROVE b.order < o
  <2> SUFFICES ASSUME o <= b.order PROVE FALSE
    BY <1>1, <1>2
  <2>1. Block(f, o) \subseteq Block(b.frame, b.order)
    BY <1>2, <1>4, Nested
  <2> QED  BY <1>3, <2>1
<1> DEFINE T == {k \in Nat : \E b \in S : b.order = k /\ \E x \in Block(f, o) : x \in Block(b.frame, b.order)}
<1>5. PICK m \in T : \A k \in T : m <= k
  <2>1. f \in Covered(S)
    BY <1>3
  <2>2. PICK b \in S : f \in Block(b.frame, b.order)
    BY <2>1, CoveredIs
  <2>3. b.order \in T
    BY <1>2, <1>3, <2>2
  <2>4. T \in SUBSET Nat /\ T # {}
    BY <2>3
  <2> HIDE DEF T
  <2> QED  BY <2>4, LeastNat
<1>6. PICK c \in S, x \in Block(f, o) : c.order = m /\ x \in Block(c.frame, c.order)
  BY <1>5
<1>7. m < o /\ m < MaxOrder /\ m \in Orders
  BY <1>1, <1>2, <1>4, <1>6
<1>8. PICK e \in Nat : e = c.frame /\ Aligned(e, m)
  BY <1>2, <1>6
<1>9. PICK u : u = Buddy(e, m)
  OBVIOUS
<1>10. PICK g : g = IF u < e THEN u ELSE e
  OBVIOUS
<1>11. /\ u \in Nat /\ u # e /\ Aligned(u, m)
       /\ m + 1 \in Orders /\ g \in Nat /\ Aligned(g, m + 1) /\ Block(g, m + 1) = Block(e, m) \cup Block(u, m)
  BY <1>7, <1>8, <1>9, <1>10, BuddyIs
<1>12. Block(g, m + 1) \subseteq Block(f, o)
  <2>1. m + 1 <= o /\ x \in Block(g, m + 1)
    BY <1>1, <1>6, <1>7, <1>8, <1>11
  <2> QED  BY <1>11, <2>1, Nested
<1>13. u \in Block(u, m) /\ u \in Block(f, o)
  BY <1>7, <1>11, <1>12, BlockIs
<1>14. PICK d \in S : u \in Block(d.frame, d.order)
  BY <1>13, CoveredIs
<1>15. m <= d.order
  BY <1>2, <1>5, <1>13, <1>14
<1>16. CASE d.order = m
  <2>1. d.frame = u
    BY <1>2, <1>7, <1>11, <1>13, <1>14, <1>16, Nested
  <2> QED  BY <1>6, <1>7, <1>8, <1>9, <1>16, <2>1 DEF Merged
<1>17. CASE m < d.order
  <2>1. m + 1 <= d.order /\ u \in Block(g, m + 1)
    BY <1>1, <1>2, <1>7, <1>11, <1>13, <1>17
  <2>2. Block(g, m + 1) \subseteq Block(d.frame, d.order)
    BY <1>2, <1>11, <1>14, <2>1, Nested
  <2>3. e \in Block(c.frame, c.order) /\ e \in Block(d.frame, d.order)
    BY <1>6, <1>7, <1>8, <1>11, <2>2, BlockIs
  <2>4. c # d
    BY <1>1, <1>6, <1>7, <1>17
  <2> QED  BY <2>3, <2>4 DEF Merged, Disjoint
<1> QED  BY <1>1, <1>2, <1>7, <1>15, <1>16, <1>17

(* There is one way to tile free memory with such blocks. *)
LEMMA MergedOnce ==
  ASSUME NEW S, NEW T, Merged(S), Merged(T), Covered(S) = Covered(T)
  PROVE  S \subseteq T
<1> SUFFICES ASSUME NEW b \in S PROVE b \in T
  OBVIOUS
<1>1. ASSUME NEW U, Merged(U), NEW c \in U
      PROVE  /\ c.order \in Orders /\ c.order \in Nat /\ c.frame \in Nat /\ Aligned(c.frame, c.order)
             /\ c.frame \in Block(c.frame, c.order) /\ Block(c.frame, c.order) \subseteq Covered(U) /\ c \in Blocks
  <2>1. c \in Blocks
    BY <1>1 DEF Merged
  <2>2. c.order \in Orders /\ c.frame \in Nat
    BY <2>1, BlockPair, FramesFinite
  <2>3. c.order \in Nat
    BY <2>2 DEF Orders
  <2> QED  BY <1>1, <2>1, <2>2, <2>3, BlockIs, CoveredIs DEF Merged
<1>2. PICK f \in Nat, o \in Orders : f = b.frame /\ o = b.order /\ Aligned(f, o) /\ Block(f, o) \subseteq Covered(T)
  BY <1>1
<1>3. PICK c \in T : o <= c.order /\ f \in Block(c.frame, c.order)
  BY <1>2, MergedCovers
<1>4. PICK g \in Nat, p \in Orders : g = c.frame /\ p = c.order /\ Aligned(g, p) /\ Block(g, p) \subseteq Covered(S)
  BY <1>1
<1>5. PICK d \in S : p <= d.order /\ g \in Block(d.frame, d.order)
  BY <1>4, MergedCovers
<1>6. Block(g, p) \subseteq Block(d.frame, d.order)
  <2>1. g \in Block(g, p)
    BY BlockIs
  <2> QED  BY <1>1, <1>4, <1>5, <2>1, Nested
<1>7. d = b
  <2>1. f \in Block(b.frame, b.order) /\ f \in Block(d.frame, d.order)
    BY <1>1, <1>2, <1>3, <1>4, <1>6
  <2> QED  BY <2>1 DEF Merged, Disjoint
<1>8. o = p
  <2>1. o <= p /\ p <= o /\ o \in Nat /\ p \in Nat
    BY <1>1, <1>2, <1>3, <1>4, <1>5, <1>7
  <2> QED  BY <2>1
<1>9. f = g
  <2>1. f \in Block(f, o) /\ f \in Block(g, p) /\ o <= p
    BY <1>1, <1>2, <1>3, <1>4
  <2> QED  BY <1>2, <1>4, <1>8, <2>1, Nested
<1>10. b = [frame |-> f, order |-> o] /\ c = [frame |-> g, order |-> p]
  BY <1>1, <1>2, <1>4, BlockPair
<1> QED  BY <1>8, <1>9, <1>10

(* A block joins whose buddy is not there. *)
LEMMA JoinMerged ==
  ASSUME NEW S, Merged(S), NEW c \in Blocks, Aligned(c.frame, c.order), Disjoint(S \cup {c}),
         c.order < MaxOrder => \A b \in S : b.order = c.order => b.frame # Buddy(c.frame, c.order)
  PROVE  Merged(S \cup {c})
<1> SUFFICES ASSUME NEW a \in S \cup {c}, NEW b \in S \cup {c}, a.order = b.order, a.order < MaxOrder,
                    b.frame = Buddy(a.frame, a.order)
             PROVE  FALSE
  BY DEF Merged
<1>1. a \in Blocks /\ b \in Blocks /\ Aligned(a.frame, a.order)
  BY DEF Merged
<1>2. a.frame \in Nat /\ a.order \in Orders
  BY <1>1, BlockPair, FramesFinite
<1>3. b.frame # a.frame /\ Buddy(b.frame, b.order) = a.frame
  <2>1. PICK f, o, u, g : f \in Nat /\ o \in Orders /\ f = a.frame /\ o = a.order /\ u = Buddy(f, o) /\ g = IF u < f THEN u ELSE f
    BY <1>2
  <2>2. u # f /\ Buddy(u, o) = f
    BY <1>1, <2>1, BuddyIs
  <2> QED  BY <2>1, <2>2
<1> QED  BY <1>3 DEF Merged

(* A block leaves. *)
LEMMA LeaveMerged ==
  ASSUME NEW S, Merged(S), NEW T \in SUBSET S
  PROVE  Merged(T)
BY DEF Merged, Disjoint

(* What splitting pushes. *)
LEMMA SplitBlocks ==
  ASSUME NEW lists, Lists(lists), NEW f \in Nat, NEW from \in Orders, NEW to \in Orders,
         Block(f, from) \subseteq Frames,
         \A o \in Orders : to <= o /\ o < from => f + BlockSize[o] \notin ToSet(lists[o])
  PROVE  /\ Lists(Split(lists, f, from, to))
         /\ BlocksIn(Split(lists, f, from, to)) = BlocksIn(lists) \cup UpperHalves(f, from, to)
<1>1. lists \in [Orders -> Seq(Frames)] /\ \A o \in Orders : IsInjective(lists[o])
  BY DEF Lists
<1>2. PICK new : new = Split(lists, f, from, to)
  OBVIOUS
<1>3. new = [o \in Orders |-> IF to <= o /\ o < from THEN <<f + BlockSize[o]>> \o lists[o] ELSE lists[o]]
  BY <1>2 DEF Split
<1>4. ASSUME NEW o \in Orders, to <= o, o < from
      PROVE  f + BlockSize[o] \in Frames
  <2>1. PICK m \in Nat, n \in Nat : m = BlockSize[o] /\ n = BlockSize[from] /\ 2 * m <= n /\ m >= 1
    BY <1>4, Sizes, SizesGrow
  <2>2. f + m \in Nat /\ f <= f + m /\ f + m < f + n
    BY <2>1
  <2>3. f + m \in Block(f, from)
    BY <2>1, <2>2, BlockIs
  <2> QED  BY <2>1, <2>3
<1>5. ASSUME NEW o \in Orders
      PROVE  /\ new[o] \in Seq(Frames) /\ IsInjective(new[o])
             /\ ToSet(new[o]) = IF to <= o /\ o < from THEN ToSet(lists[o]) \cup {f + BlockSize[o]} ELSE ToSet(lists[o])
  <2>1. CASE to <= o /\ o < from
    <3>1. PICK e \in Frames : e = f + BlockSize[o]
      BY <1>4, <2>1
    <3>2. PICK s \in Seq(Frames) : s = lists[o] /\ IsInjective(s)
      BY <1>1
    <3>3. e \notin ToSet(s)
      BY <2>1, <3>1, <3>2
    <3>4. <<e>> \o s \in Seq(Frames) /\ ToSet(<<e>> \o s) = ToSet(s) \cup {e} /\ IsInjective(<<e>> \o s)
      BY <3>2, <3>3, PrependElements
    <3>5. new[o] = <<e>> \o s
      BY <1>3, <2>1, <3>1, <3>2
    <3> QED  BY <2>1, <3>1, <3>2, <3>4, <3>5
  <2>2. CASE ~(to <= o /\ o < from)
    BY <1>1, <1>3, <2>2
  <2> QED  BY <2>1, <2>2
<1>6. Lists(new)
  BY <1>3, <1>5 DEF Lists
<1>7. ASSUME NEW b \in Blocks PROVE b \in BlocksIn(new) <=> b \in BlocksIn(lists) \cup UpperHalves(f, from, to)
  <2>1. b.order \in Orders
    BY BlockPair
  <2> QED  BY <1>5, <2>1 DEF BlocksIn, UpperHalves
<1>8. BlocksIn(new) \subseteq Blocks /\ BlocksIn(lists) \cup UpperHalves(f, from, to) \subseteq Blocks
  BY DEF BlocksIn, UpperHalves
<1> QED  BY <1>2, <1>6, <1>7, <1>8

(* Nothing that splitting pushes has its buddy in the lists. *)
LEMMA SplitMerged ==
  ASSUME NEW S, Merged(S), NEW f \in Nat, NEW from \in Orders, NEW to \in Orders, Aligned(f, from),
         NEW b \in S, b.frame = f, b.order = from, Disjoint((S \ {b}) \cup UpperHalves(f, from, to))
  PROVE  Merged((S \ {b}) \cup UpperHalves(f, from, to))
<1> DEFINE P == UpperHalves(f, from, to)
<1>1. MaxOrder \in Nat /\ Orders = 0 .. MaxOrder
  BY MemoryAssumption DEF Orders
<1>2. ASSUME NEW h \in P
      PROVE  /\ h \in Blocks /\ h.order \in Orders /\ h.order < MaxOrder /\ h.frame \in Nat
             /\ Aligned(h.frame, h.order) /\ Buddy(h.frame, h.order) = f
  <2>1. h \in Blocks /\ h.order \in Orders /\ h.order < from /\ h.frame = f + BlockSize[h.order]
    BY BlockPair DEF UpperHalves
  <2>2. PICK o \in Orders, n \in Nat : o = h.order /\ n = BlockSize[o] /\ n >= 1
    BY <2>1, Sizes
  <2>3. o < MaxOrder /\ o + 1 \in Orders /\ o + 1 <= from /\ BlockSize[o + 1] = 2 * n
    BY <1>1, <2>1, <2>2, SizesGrow
  <2>4. PICK q \in Nat : f = q * (2 * n)
    <3>1. Aligned(f, o + 1)
      BY <2>3, AlignedDown
    <3> QED  BY <2>3, <3>1 DEF Aligned
  <2>5. q * (2 * n) = (2 * q) * n /\ (2 * q) * n + n = (2 * q + 1) * n /\ 2 * q \in Nat /\ 2 * q + 1 \in Nat
    OBVIOUS
  <2>6. Aligned(f, o) /\ Aligned(f + n, o)
    BY <2>2, <2>4, <2>5 DEF Aligned
  <2>7. (f \div n) % 2 = 0
    <3>1. ((2 * q) * n) \div n = 2 * q
      BY <2>2, <2>5
    <3>2. (2 * q) % 2 = 0
      OBVIOUS
    <3> QED  BY <2>4, <2>5, <3>1, <3>2
  <2>8. PICK u, g : u = Buddy(f, o) /\ g = IF u < f THEN u ELSE f
    OBVIOUS
  <2>9. u = f + n /\ Buddy(u, o) = f
    BY <2>2, <2>3, <2>6, <2>7, <2>8, BuddyIs DEF Buddy
  <2> QED  BY <2>1, <2>2, <2>3, <2>6, <2>9
<1>3. ASSUME NEW h \in P, NEW c \in P, c.order = h.order PROVE c.frame # Buddy(h.frame, h.order)
  <2>1. c.frame = f + BlockSize[h.order] /\ BlockSize[h.order] \in Nat /\ BlockSize[h.order] >= 1
    BY <1>2, <1>3, Sizes DEF UpperHalves
  <2>2. c.frame # f
    BY <2>1
  <2> QED  BY <1>2, <2>2
<1>4. ASSUME NEW c \in S \ {b} PROVE c.frame # f
  <2>1. c \in Blocks /\ b \in Blocks
    BY DEF Merged
  <2>2. c.frame \in Nat /\ c.order \in Orders
    BY <2>1, BlockPair, FramesFinite
  <2>3. c.frame \in Block(c.frame, c.order) /\ f \in Block(b.frame, b.order)
    BY <2>2, BlockIs
  <2> QED  BY <2>3 DEF Merged, Disjoint
<1>5. ASSUME NEW h \in P, NEW c \in S \ {b}, c.order = h.order PROVE h.frame # Buddy(c.frame, c.order)
  <2> SUFFICES ASSUME h.frame = Buddy(c.frame, c.order) PROVE FALSE
    OBVIOUS
  <2>1. c \in Blocks /\ Aligned(c.frame, c.order)
    BY DEF Merged
  <2>2. PICK e, o, u, g : e \in Nat /\ o \in Orders /\ e = c.frame /\ o = c.order /\ u = Buddy(e, o) /\ g = IF u < e THEN u ELSE e
    BY <2>1, BlockPair, FramesFinite
  <2>3. Buddy(u, o) = e
    BY <1>2, <1>5, <2>1, <2>2, BuddyIs
  <2> QED  BY <1>2, <1>4, <1>5, <2>2, <2>3
<1> HIDE DEF P
<1>6. Disjoint((S \ {b}) \cup P)
  BY DEF P
<1>7. Merged((S \ {b}) \cup P)
  BY <1>2, <1>3, <1>4, <1>5, <1>6 DEF Merged
<1> QED  BY <1>7 DEF P

(* The invariant of the allocator. *)
MemoryInv ==
  /\ usable \subseteq Frames /\ held \subseteq Blocks /\ Lists(free_lists)
  /\ Disjoint(held) /\ \A b \in held : Aligned(b.frame, b.order)
  /\ Merged(FreeBlocks)
  /\ free = Covered(FreeBlocks)
  /\ Covered(held) \cap free = {} /\ usable = free \cup Covered(held)
  /\ free_frames = Cardinality(free)

(* Two disjoint sets of frames count together. *)
LEMMA FramesCount ==
  ASSUME NEW S \in SUBSET Frames, NEW T \in SUBSET Frames, S \cap T = {}
  PROVE  Cardinality(S \cup T) = Cardinality(S) + Cardinality(T)
<1>1. IsFiniteSet(S) /\ IsFiniteSet(T) /\ Cardinality(S) \in Nat /\ Cardinality(T) \in Nat
  BY FramesFinite
<1>2. Cardinality(S \cup T) = Cardinality(S) + Cardinality(T) - Cardinality(S \cap T)
  BY <1>1, FS_Union
<1>3. Cardinality(S \cap T) = 0
  BY FS_EmptySet
<1> QED  BY <1>1, <1>2, <1>3

(* A request that is met splits one free block. *)
LEMMA AllocateKeeps ==
  ASSUME MemoryInv, NEW order \in Orders, Available(order) # {},
         NEW from, from = Min(Available(order)), NEW frame, frame = Head(free_lists[from]),
         free_lists' = Split([free_lists EXCEPT ![from] = Tail(@)], frame, from, order),
         free' = free \ Block(frame, order), held' = held \cup {[frame |-> frame, order |-> order]},
         free_frames' = free_frames - BlockSize[order], usable' = usable
  PROVE  MemoryInv'
<1>1. from \in Orders /\ order <= from /\ free_lists[from] # << >>
  <2>1. Orders \subseteq Nat
    BY DEF Orders
  <2>2. Available(order) \in SUBSET Nat
    BY <2>1 DEF Available
  <2>3. \E m \in Available(order) : \A y \in Available(order) : m <= y
    BY <2>2, LeastNat
  <2>4. from \in Available(order)
    BY <2>3 DEF Min
  <2> QED  BY <2>1, <2>4 DEF Available
<1>2. /\ Lists(free_lists) /\ Disjoint(FreeBlocks) /\ free = Covered(FreeBlocks) /\ free \subseteq Frames
      /\ Merged(FreeBlocks)
  BY DEF MemoryInv, Merged
<1>3. PICK s \in Seq(Frames) : s = free_lists[from] /\ IsInjective(s) /\ s # << >>
  BY <1>1, <1>2 DEF Lists
<1>4. PICK rest : rest = [free_lists EXCEPT ![from] = Tail(s)]
  OBVIOUS
<1>5. Tail(s) \in Seq(Frames) /\ IsInjective(Tail(s)) /\ ToSet(Tail(s)) = ToSet(s) \ {frame} /\ frame \in ToSet(s)
  BY <1>3, TailElements
<1>6. frame \in Frames /\ frame \in Nat
  <2>1. frame \in Frames
    BY <1>3, <1>5 DEF ToSet
  <2> QED  BY <2>1, FramesFinite
<1>7. PICK b \in Blocks : b = [frame |-> frame, order |-> from] /\ b.frame = frame /\ b.order = from
  <2>1. [frame |-> frame, order |-> from] \in Blocks
    BY <1>1, <1>6 DEF Blocks
  <2> QED  BY <2>1
<1>8. b \in FreeBlocks
  BY <1>3, <1>5, <1>7 DEF FreeBlocks, BlocksIn
<1>9. Lists(rest) /\ BlocksIn(rest) = FreeBlocks \ {b}
  <2>1. PICK q \in Seq(Frames) : q = Tail(s) /\ IsInjective(q) /\ ToSet(q) = ToSet(free_lists[from]) \ {frame}
    BY <1>3, <1>5
  <2>2. Replaced(free_lists, rest, from, q)
    BY <1>4, <2>1 DEF Replaced
  <2>3. Without(q, free_lists[from], frame)
    BY <2>1 DEF Without
  <2>4. BlockGone(free_lists, rest, frame, from)
    BY <1>1, <1>2, <2>1, <2>2, <2>3, BlockLeaves
  <2> QED  BY <1>7, <2>4 DEF FreeBlocks, BlockGone
<1>10. /\ Disjoint(FreeBlocks \ {b}) /\ Covered(FreeBlocks \ {b}) = free \ Block(frame, from)
       /\ Block(frame, from) \subseteq free
  BY <1>2, <1>7, <1>8, CutOut, ZenonT(40)
<1> DEFINE P == UpperHalves(frame, from, order)
<1>11. Disjoint(P) /\ Covered(P) = Block(frame, from) \ Block(frame, order) /\ Block(frame, order) \subseteq Block(frame, from)
  BY <1>1, <1>2, <1>6, <1>10, SplitParts
<1>12. ASSUME NEW o \in Orders, order <= o, o < from, frame + BlockSize[o] \in ToSet(rest[o])
       PROVE  FALSE
  <2>1. PICK x \in Nat : x = frame + BlockSize[o]
    BY <1>6, Sizes
  <2>2. PICK c \in BlocksIn(rest) : c = [frame |-> x, order |-> o] /\ c.frame = x /\ c.order = o
    <3>1. [frame |-> x, order |-> o] \in BlocksIn(rest)
      BY <1>9, <1>12, <2>1, BlocksInIs
    <3> QED  BY <3>1
  <2>3. x \in Block(x, o)
    BY <2>1, BlockIs
  <2>4. x \in Covered(BlocksIn(rest))
    BY <2>2, <2>3, CoveredIs
  <2>5. x \notin Block(frame, from)
    BY <1>9, <1>10, <2>4
  <2>6. PICK m \in Nat, n \in Nat : m = BlockSize[o] /\ n = BlockSize[from] /\ 2 * m <= n /\ m >= 1
    BY <1>1, <1>12, Sizes, SizesGrow
  <2>7. frame <= x /\ x < frame + n
    BY <1>6, <2>1, <2>6, SMTT(30)
  <2> QED  BY <1>1, <1>6, <2>5, <2>6, <2>7, BlockIs
<1>13. free_lists' = Split(rest, frame, from, order)
  BY <1>3, <1>4
<1>14. Lists(free_lists') /\ FreeBlocks' = (FreeBlocks \ {b}) \cup P
  <2>1. Block(frame, from) \subseteq Frames
    BY <1>2, <1>10
  <2>2. Lists(Split(rest, frame, from, order)) /\ BlocksIn(Split(rest, frame, from, order)) = BlocksIn(rest) \cup P
    BY <1>1, <1>6, <1>9, <1>12, <2>1, SplitBlocks
  <2> QED  BY <1>9, <1>13, <2>2 DEF FreeBlocks
<1> HIDE DEF P
<1>15. Disjoint(FreeBlocks') /\ Covered(FreeBlocks') = free'
  <2>1. Covered(FreeBlocks \ {b}) \cap Covered(P) = {}
    BY <1>10, <1>11
  <2>2. /\ Disjoint((FreeBlocks \ {b}) \cup P)
        /\ Covered((FreeBlocks \ {b}) \cup P) = Covered(FreeBlocks \ {b}) \cup Covered(P)
    BY <1>10, <1>11, <2>1, PutIn
  <2>3. Covered(FreeBlocks \ {b}) \cup Covered(P) = free \ Block(frame, order)
    BY <1>10, <1>11
  <2> QED  BY <1>14, <2>2, <2>3
<1>16. PICK h \in Blocks : h = [frame |-> frame, order |-> order] /\ h.frame = frame /\ h.order = order
  <2>1. [frame |-> frame, order |-> order] \in Blocks
    BY <1>6 DEF Blocks
  <2> QED  BY <2>1
<1>17. Disjoint(held') /\ Covered(held') = Covered(held) \cup Block(frame, order) /\ held' \subseteq Blocks
  <2>1. Disjoint({h}) /\ Covered({h}) = Block(frame, order)
    BY <1>16, OneBlock
  <2>2. Covered(held) \cap Covered({h}) = {} /\ Disjoint(held) /\ held \subseteq Blocks
    BY <1>10, <1>11, <2>1 DEF MemoryInv
  <2>3. Disjoint(held \cup {h}) /\ Covered(held \cup {h}) = Covered(held) \cup Covered({h})
    BY <2>1, <2>2, PutIn
  <2> QED  BY <1>16, <2>1, <2>2, <2>3
<1>18. Covered(held') \cap free' = {} /\ usable' = free' \cup Covered(held')
  BY <1>10, <1>11, <1>17 DEF MemoryInv
<1>19. free_frames' = Cardinality(free')
  <2>1. free = free' \cup Block(frame, order) /\ free' \cap Block(frame, order) = {}
    BY <1>10, <1>11
  <2>2. free' \in SUBSET Frames /\ Block(frame, order) \in SUBSET Frames
    BY <1>2, <1>10, <1>11
  <2>3. Cardinality(free) = Cardinality(free') + Cardinality(Block(frame, order))
    BY <2>1, <2>2, FramesCount
  <2>4. Cardinality(Block(frame, order)) = BlockSize[order] /\ BlockSize[order] \in Nat
    BY <1>6, BlockIs, Sizes
  <2>5. Cardinality(free') \in Nat
    BY <2>2, FramesFinite
  <2>6. free_frames = Cardinality(free)
    BY DEF MemoryInv
  <2> QED  BY <2>3, <2>4, <2>5, <2>6
<1>20. Aligned(frame, from)
  BY <1>2, <1>7, <1>8 DEF Merged
<1>21. Merged(FreeBlocks')
  <2>1. Disjoint((FreeBlocks \ {b}) \cup P)
    BY <1>14, <1>15
  <2>2. Merged((FreeBlocks \ {b}) \cup P)
    BY <1>1, <1>2, <1>6, <1>7, <1>8, <1>20, <2>1, SplitMerged DEF P
  <2> QED  BY <1>14, <2>2
<1>22. \A c \in held' : Aligned(c.frame, c.order)
  <2>1. Aligned(frame, order)
    BY <1>1, <1>6, <1>20, AlignedDown
  <2> QED  BY <1>16, <2>1 DEF MemoryInv
<1> QED  BY <1>14, <1>15, <1>17, <1>18, <1>19, <1>21, <1>22 DEF MemoryInv

(* deallocate's loop: the lists and the block at hand tile what is free. *)
Loose == [lists: [Orders -> Seq(Frames)], frame: Frames, order: Orders]
Tiles(frames, acc) ==
  /\ acc \in Loose /\ Lists(acc.lists) /\ Merged(BlocksIn(acc.lists)) /\ Aligned(acc.frame, acc.order)
  /\ Covered(BlocksIn(acc.lists)) \cap Block(acc.frame, acc.order) = {}
  /\ Covered(BlocksIn(acc.lists)) \cup Block(acc.frame, acc.order) = frames

(* After some climbs the block at hand is of that order, or stays. *)
Climbed(frames, acc, i) == acc.order >= i \/ ~Merges(frames, acc.lists, acc.frame, acc.order)

LEMMA ClimbTiles ==
  ASSUME NEW frames, NEW acc, Tiles(frames, acc)
  PROVE  Tiles(frames, Climb(frames, acc))
<1>1. CASE ~Merges(frames, acc.lists, acc.frame, acc.order)
  BY <1>1 DEF Climb
<1>2. CASE Merges(frames, acc.lists, acc.frame, acc.order)
  <2>1. PICK lists, f, o : lists = acc.lists /\ f = acc.frame /\ o = acc.order
    OBVIOUS
  <2>2. /\ Lists(lists) /\ Disjoint(BlocksIn(lists)) /\ f \in Frames /\ f \in Nat /\ o \in Orders
        /\ lists \in [Orders -> Seq(Frames)] /\ Merged(BlocksIn(lists)) /\ Aligned(f, o)
        /\ Covered(BlocksIn(lists)) \cap Block(f, o) = {}
        /\ Covered(BlocksIn(lists)) \cup Block(f, o) = frames
    BY <2>1, FramesFinite DEF Tiles, Loose, Merged
  <2>3. PICK u : u = Buddy(f, o)
    OBVIOUS
  <2>4. o < MaxOrder /\ Contains(lists[o], u)
    BY <1>2, <2>1, <2>3 DEF Merges
  <2>5. PICK s \in Seq(Frames) : s = lists[o] /\ IsInjective(s)
    BY <2>2 DEF Lists
  <2>6. PICK p \in 1 .. Len(s) : s[p] = u /\ Unlink(s, u) = RemoveAt(s, p)
    <3>1. \E i \in DOMAIN s : s[i] = u
      BY <2>4, <2>5 DEF Contains
    <3>2. PICK p : p = CHOOSE i \in DOMAIN s : s[i] = u
      OBVIOUS
    <3>3. p \in DOMAIN s /\ s[p] = u
      BY <3>1, <3>2
    <3>4. p \in 1 .. Len(s) /\ Unlink(s, u) = RemoveAt(s, p)
      BY <3>2, <3>3 DEF Unlink
    <3> QED  BY <3>3, <3>4
  <2>7. PICK q \in Seq(Frames) : q = Unlink(s, u) /\ IsInjective(q) /\ ToSet(q) = ToSet(s) \ {u}
    BY <2>5, <2>6, RemoveElements
  <2>8. PICK new : new = [lists EXCEPT ![o] = q] /\ Replaced(lists, new, o, q)
    BY DEF Replaced
  <2>9. Lists(new) /\ BlocksIn(new) = BlocksIn(lists) \ {[frame |-> u, order |-> o]} /\ new \in [Orders -> Seq(Frames)]
    <3>1. Without(q, lists[o], u) /\ IsInjective(q)
      BY <2>5, <2>7 DEF Without
    <3>2. BlockGone(lists, new, u, o)
      BY <2>2, <2>8, <3>1, BlockLeaves
    <3> QED  BY <3>2 DEF Lists, BlockGone
  <2>10. PICK b \in BlocksIn(lists) : b = [frame |-> u, order |-> o] /\ b.frame = u /\ b.order = o
    <3>1. u \in ToSet(lists[o])
      BY <2>5, <2>6 DEF ToSet
    <3>2. [frame |-> u, order |-> o] \in BlocksIn(lists)
      BY <2>2, <3>1, BlocksInIs
    <3> QED  BY <3>2
  <2>11. /\ Disjoint(BlocksIn(new)) /\ Covered(BlocksIn(new)) = Covered(BlocksIn(lists)) \ Block(u, o)
         /\ Block(u, o) \subseteq Covered(BlocksIn(lists)) /\ u \in Frames /\ u \in Nat
    <3>1. u \in Frames
      BY <2>10, BlockPair DEF BlocksIn
    <3>2. u \in Nat
      BY <3>1, FramesFinite
    <3>3. /\ Disjoint(BlocksIn(lists) \ {b})
          /\ Covered(BlocksIn(lists) \ {b}) = Covered(BlocksIn(lists)) \ Block(b.frame, b.order)
          /\ Block(b.frame, b.order) \subseteq Covered(BlocksIn(lists))
      BY <2>2, CutOut
    <3>4. BlocksIn(new) = BlocksIn(lists) \ {b}
      BY <2>9, <2>10
    <3> QED  BY <2>10, <3>1, <3>2, <3>3, <3>4
  <2>12. PICK g : g = IF u < f THEN u ELSE f
    OBVIOUS
  <2>13. o + 1 \in Orders /\ g \in Frames /\ Aligned(g, o + 1) /\ Block(g, o + 1) = Block(f, o) \cup Block(u, o)
    BY <2>2, <2>3, <2>4, <2>11, <2>12, BuddyIs
  <2>14. Climb(frames, acc) = [lists |-> new, frame |-> g, order |-> o + 1]
    BY <1>2, <2>1, <2>2, <2>3, <2>5, <2>7, <2>8, <2>12 DEF Climb
  <2>15. /\ Covered(BlocksIn(new)) \cap Block(g, o + 1) = {}
         /\ Covered(BlocksIn(new)) \cup Block(g, o + 1) = frames
    BY <2>2, <2>11, <2>13
  <2>16. PICK end \in Loose : end = [lists |-> new, frame |-> g, order |-> o + 1]
    <3>1. [lists |-> new, frame |-> g, order |-> o + 1] \in Loose
      BY <2>9, <2>13 DEF Loose
    <3> QED  BY <3>1
  <2>17. end.lists = new /\ end.frame = g /\ end.order = o + 1
    BY <2>16
  <2>18. Merged(BlocksIn(new))
    BY <2>2, <2>9, LeaveMerged
  <2>19. Tiles(frames, end)
    BY <2>9, <2>13, <2>15, <2>17, <2>18 DEF Tiles
  <2> QED  BY <2>14, <2>16, <2>19
<1> QED  BY <1>1, <1>2

(* A climb goes up one order or ends the climb. *)
LEMMA ClimbEnds ==
  ASSUME NEW frames, NEW acc, Tiles(frames, acc), NEW i \in Nat \ {0}
  PROVE  Climbed(frames, acc, i - 1) => Climbed(frames, Climb(frames, acc), i)
<1> SUFFICES ASSUME Climbed(frames, acc, i - 1) PROVE Climbed(frames, Climb(frames, acc), i)
  OBVIOUS
<1>1. CASE ~Merges(frames, acc.lists, acc.frame, acc.order)
  BY <1>1 DEF Climb, Climbed
<1>2. CASE Merges(frames, acc.lists, acc.frame, acc.order)
  <2>1. acc.order \in Nat
    BY DEF Tiles, Loose, Orders
  <2>2. acc.order >= i - 1
    BY <1>2 DEF Climbed
  <2>3. Climb(frames, acc).order = acc.order + 1
    BY <1>2 DEF Climb
  <2>4. acc.order + 1 >= i
    BY <2>1, <2>2
  <2> QED  BY <2>3, <2>4 DEF Climbed
<1> QED  BY <1>1, <1>2

(* However far it climbs. *)
LEMMA CoalesceTiles ==
  ASSUME NEW frames, NEW lists, NEW f \in Frames, NEW o \in Orders, Lists(lists), Merged(BlocksIn(lists)), Aligned(f, o),
         Covered(BlocksIn(lists)) \cap Block(f, o) = {}, Covered(BlocksIn(lists)) \cup Block(f, o) = frames
  PROVE  \E acc \in Loose : /\ Tiles(frames, acc) /\ ~Merges(frames, acc.lists, acc.frame, acc.order)
                            /\ Coalesce(frames, lists, f, o) = Push(acc.lists, acc.frame, acc.order)
<1> DEFINE A == {acc \in Loose : Tiles(frames, acc)}
           first == [lists |-> lists, frame |-> f, order |-> o]
           F == [p \in A \X (1 .. MaxOrder) |-> Climb(frames, p[1])]
           IsLoop(c) == c = [i \in 0 .. MaxOrder |-> IF i = 0 THEN first ELSE Climb(frames, c[i - 1])]
<1>1. MaxOrder \in Nat
  BY MemoryAssumption
<1>2. first \in A
  <2>1. first \in Loose /\ first.lists = lists /\ first.frame = f /\ first.order = o
    BY DEF Loose, Lists
  <2> HIDE DEF first
  <2> QED  BY <2>1 DEF Tiles
<1>3. ASSUME NEW a \in A PROVE Climb(frames, a) \in A
  <2>1. Tiles(frames, Climb(frames, a))
    BY ClimbTiles
  <2>2. Climb(frames, a) \in Loose
    BY <2>1 DEF Tiles
  <2> QED  BY <2>1, <2>2
<1> HIDE DEF A, first
<1>4. F \in [A \X (1 .. MaxOrder) -> A]
  BY <1>3
<1>5. \E c : IsLoop(c)
  <2> HIDE DEF F, IsLoop
  <2>1. PICK c : IsRun(c, MaxOrder, A, first, F)
    BY <1>1, <1>2, <1>4, FiniteRun
  <2>2. ASSUME NEW i \in 1 .. MaxOrder PROVE c[i] = Climb(frames, c[i - 1])
    <3>1. c[i - 1] \in A
      BY <1>1, <2>1 DEF IsRun
    <3>2. <<c[i - 1], i>> \in A \X (1 .. MaxOrder)
      BY <3>1
    <3>3. F[<<c[i - 1], i>>] = Climb(frames, c[i - 1])
      BY <3>2 DEF F
    <3> QED  BY <2>1, <3>3 DEF IsRun
  <2>3. c = [i \in 0 .. MaxOrder |-> IF i = 0 THEN first ELSE Climb(frames, c[i - 1])]
    BY <1>1, <2>1, <2>2 DEF IsRun
  <2> QED  BY <2>3 DEF IsLoop
<1>6. PICK c : IsLoop(c) /\ Coalesce(frames, lists, f, o) = Push(c[MaxOrder].lists, c[MaxOrder].frame, c[MaxOrder].order)
  <2>1. PICK d : d = CHOOSE c : IsLoop(c)
    OBVIOUS
  <2>2. Coalesce(frames, lists, f, o) = Push(d[MaxOrder].lists, d[MaxOrder].frame, d[MaxOrder].order)
    BY <2>1 DEF Coalesce, first
  <2> HIDE DEF IsLoop
  <2>3. IsLoop(d)
    BY <1>5, <2>1
  <2> QED  BY <2>2, <2>3
<1>7. c[0] = first /\ \A i \in 1 .. MaxOrder : c[i] = Climb(frames, c[i - 1])
  <2>1. 0 \in 0 .. MaxOrder /\ \A i \in 1 .. MaxOrder : i \in 0 .. MaxOrder /\ i # 0
    BY <1>1
  <2> QED  BY <1>6, <2>1
<1> HIDE DEF IsLoop
<1>8. c[MaxOrder] \in A
  <2>1. c[0] \in A /\ \A i \in 1 .. MaxOrder : c[i - 1] \in A => c[i] \in A
    BY <1>2, <1>3, <1>7
  <2>2. \A i \in 0 .. MaxOrder : c[i] \in A
    BY <1>1, <2>1, RunStays
  <2> QED  BY <1>1, <2>2
<1>9. ~Merges(frames, c[MaxOrder].lists, c[MaxOrder].frame, c[MaxOrder].order)
  <2> DEFINE T == {i \in 0 .. MaxOrder : c[i] \in A /\ Climbed(frames, c[i], i)}
  <2>1. 0 \in T
    <3>1. first.order \in Nat
      BY DEF first, Orders
    <3>2. Climbed(frames, first, 0)
      BY <3>1 DEF Climbed
    <3> QED  BY <1>1, <1>2, <1>7, <3>2
  <2>2. ASSUME NEW i \in 1 .. MaxOrder, i - 1 \in T PROVE i \in T
    <3>1. c[i - 1] \in A /\ Climbed(frames, c[i - 1], i - 1) /\ c[i] = Climb(frames, c[i - 1]) /\ i \in Nat \ {0}
      BY <1>1, <1>7, <2>2
    <3>2. Tiles(frames, c[i - 1])
      BY <3>1 DEF A
    <3>3. Climbed(frames, c[i], i)
      BY <3>1, <3>2, ClimbEnds
    <3>4. c[i] \in A
      BY <1>3, <3>1
    <3> QED  BY <1>1, <3>3, <3>4
  <2>3. MaxOrder \in T
    <3> HIDE DEF T
    <3>1. \A i \in 0 .. MaxOrder : i \in T
      BY <1>1, <2>1, <2>2, CountUp
    <3> QED  BY <1>1, <3>1
  <2>4. c[MaxOrder].order \in Nat
    BY <1>8 DEF A, Loose, Orders
  <2> QED  BY <1>1, <2>3, <2>4 DEF Climbed, Merges
<1> QED  BY <1>6, <1>8, <1>9 DEF A

(* The block at hand is pushed. *)
BlockCame(lists, new, f, o) == BlocksIn(new) = BlocksIn(lists) \cup {[frame |-> f, order |-> o]}
LEMMA PushTiles ==
  ASSUME NEW frames, NEW lists, NEW f \in Frames, NEW o \in Orders, Lists(lists), Disjoint(BlocksIn(lists)),
         Covered(BlocksIn(lists)) \cap Block(f, o) = {}, Covered(BlocksIn(lists)) \cup Block(f, o) = frames
  PROVE  /\ Lists(Push(lists, f, o)) /\ Disjoint(BlocksIn(Push(lists, f, o)))
         /\ Covered(BlocksIn(Push(lists, f, o))) = frames
         /\ BlockCame(lists, Push(lists, f, o), f, o)
<1>1. f \in Nat
  BY FramesFinite
<1>2. PICK c \in Blocks : c = [frame |-> f, order |-> o] /\ c.frame = f /\ c.order = o
  <2>1. [frame |-> f, order |-> o] \in Blocks
    BY DEF Blocks
  <2> QED  BY <2>1
<1>3. f \notin ToSet(lists[o])
  <2> SUFFICES ASSUME f \in ToSet(lists[o]) PROVE FALSE
    OBVIOUS
  <2>1. c \in BlocksIn(lists)
    BY <1>2 DEF BlocksIn
  <2>2. f \in Block(f, o)
    BY <1>1, BlockIs
  <2>3. f \in Covered(BlocksIn(lists))
    BY <1>2, <2>1, <2>2, CoveredIs
  <2> QED  BY <2>2, <2>3
<1>4. Lists(Push(lists, f, o)) /\ BlocksIn(Push(lists, f, o)) = BlocksIn(lists) \cup {c}
  BY <1>2, <1>3, PushBlocks
<1>5. Disjoint({c}) /\ Covered({c}) = Block(f, o)
  BY <1>2, OneBlock
<1>6. Disjoint(BlocksIn(lists) \cup {c}) /\ Covered(BlocksIn(lists) \cup {c}) = Covered(BlocksIn(lists)) \cup Covered({c})
  <2>1. Covered(BlocksIn(lists)) \cap Covered({c}) = {}
    BY <1>5
  <2> QED  BY <1>5, <2>1, PutIn
<1> QED  BY <1>2, <1>4, <1>5, <1>6 DEF BlockCame

(* Its buddy is not in the lists, or it would have been merged. *)
LEMMA PushMerged ==
  ASSUME NEW frames, NEW acc, Tiles(frames, acc), ~Merges(frames, acc.lists, acc.frame, acc.order),
         NEW new, new = Push(acc.lists, acc.frame, acc.order)
  PROVE  Lists(new) /\ Merged(BlocksIn(new)) /\ Covered(BlocksIn(new)) = frames
<1>1. PICK lists, f, o : lists = acc.lists /\ f = acc.frame /\ o = acc.order
  OBVIOUS
<1>2. /\ f \in Frames /\ o \in Orders /\ Lists(lists) /\ Merged(BlocksIn(lists)) /\ Aligned(f, o) /\ Disjoint(BlocksIn(lists))
      /\ Covered(BlocksIn(lists)) \cap Block(f, o) = {} /\ Covered(BlocksIn(lists)) \cup Block(f, o) = frames
  BY <1>1 DEF Tiles, Loose, Merged
<1>3. /\ Lists(Push(lists, f, o)) /\ Disjoint(BlocksIn(Push(lists, f, o)))
      /\ Covered(BlocksIn(Push(lists, f, o))) = frames
      /\ BlockCame(lists, Push(lists, f, o), f, o)
  BY <1>2, PushTiles
<1>4. PICK c \in Blocks : c = [frame |-> f, order |-> o] /\ c.frame = f /\ c.order = o
  <2>1. [frame |-> f, order |-> o] \in Blocks
    BY <1>2 DEF Blocks
  <2> QED  BY <2>1
<1>5. ASSUME o < MaxOrder, NEW b \in BlocksIn(lists), b.order = o, b.frame = Buddy(f, o) PROVE FALSE
  <2>1. PICK s \in Seq(Frames) : s = lists[o]
    BY <1>2 DEF Lists
  <2>2. Buddy(f, o) \in ToSet(s)
    BY <1>5, <2>1 DEF BlocksIn
  <2>3. Contains(s, Buddy(f, o))
    BY <2>2 DEF ToSet, Contains
  <2>4. Block(b.frame, b.order) \subseteq frames
    BY <1>2, CoveredIs
  <2> QED  BY <1>1, <1>5, <2>1, <2>3, <2>4 DEF Merges
<1>6. Merged(BlocksIn(lists) \cup {c})
  <2>1. Disjoint(BlocksIn(lists) \cup {c})
    BY <1>3, <1>4 DEF BlockCame
  <2> QED  BY <1>2, <1>4, <1>5, <2>1, JoinMerged
<1> QED  BY <1>1, <1>3, <1>4, <1>6 DEF BlockCame

(* A block is given back. *)
LEMMA DeallocateKeeps ==
  ASSUME MemoryInv, NEW b \in held, Deallocate(b)
  PROVE  MemoryInv'
<1>1. PICK f \in Frames, o \in Orders : f = b.frame /\ o = b.order
  <2>1. b \in Blocks
    BY DEF MemoryInv
  <2> QED  BY <2>1, BlockPair
<1>2. f \in Nat
  BY FramesFinite
<1>3. PICK freed : freed = free \cup Block(f, o)
  OBVIOUS
<1>4. /\ free' = freed /\ free_lists' = Coalesce(freed, free_lists, f, o)
      /\ free_frames' = free_frames + BlockSize[o] /\ held' = held \ {b} /\ usable' = usable
  BY <1>1, <1>3 DEF Deallocate
<1>5. /\ Disjoint(held') /\ Covered(held') = Covered(held) \ Block(f, o) /\ Block(f, o) \subseteq Covered(held)
      /\ held' \subseteq Blocks /\ Aligned(f, o) /\ \A h \in held' : Aligned(h.frame, h.order)
  BY <1>1, <1>4, CutOut DEF MemoryInv
<1>6. free \cap Block(f, o) = {} /\ freed \subseteq usable /\ usable \subseteq Frames /\ free = Covered(BlocksIn(free_lists))
  BY <1>3, <1>5 DEF MemoryInv, FreeBlocks
<1>7. PICK acc \in Loose : /\ Tiles(freed, acc) /\ ~Merges(freed, acc.lists, acc.frame, acc.order)
                           /\ free_lists' = Push(acc.lists, acc.frame, acc.order)
  <2>1. /\ Lists(free_lists) /\ Merged(BlocksIn(free_lists))
        /\ Covered(BlocksIn(free_lists)) \cap Block(f, o) = {}
        /\ Covered(BlocksIn(free_lists)) \cup Block(f, o) = freed
    BY <1>3, <1>6 DEF MemoryInv, FreeBlocks
  <2> QED  BY <1>4, <1>5, <2>1, CoalesceTiles
<1>8. Lists(free_lists') /\ Merged(BlocksIn(free_lists')) /\ Covered(BlocksIn(free_lists')) = freed
  BY <1>7, PushMerged
<1>9. Covered(held') \cap free' = {} /\ usable' = free' \cup Covered(held')
  BY <1>3, <1>4, <1>5, <1>6 DEF MemoryInv
<1>10. free_frames' = Cardinality(free')
  <2>1. Cardinality(free \cup Block(f, o)) = Cardinality(free) + Cardinality(Block(f, o))
    BY <1>3, <1>6, FramesCount
  <2>2. Cardinality(Block(f, o)) = BlockSize[o]
    BY <1>2, BlockIs
  <2> QED  BY <1>3, <1>4, <2>1, <2>2 DEF MemoryInv
<1> QED  BY <1>4, <1>5, <1>6, <1>8, <1>9, <1>10 DEF MemoryInv, FreeBlocks

(* The largest aligned block of free frames at a free frame. *)
LEMMA MaxBlock ==
  ASSUME NEW frames \in SUBSET Frames, NEW f \in frames
  PROVE  LET o == MaxBlockOrder(frames, f)
         IN  /\ o \in Orders /\ f % BlockSize[o] = 0 /\ Block(f, o) \subseteq frames
             /\ \A p \in Orders : f % BlockSize[p] = 0 /\ Block(f, p) \subseteq frames => p <= o
<1> DEFINE S == {o \in Orders : f % BlockSize[o] = 0 /\ Block(f, o) \subseteq frames}
<1>1. MaxOrder \in Nat /\ Orders = 0 .. MaxOrder /\ f \in Nat
  BY MemoryAssumption, FramesFinite DEF Orders
<1>2. 0 \in S
  <2>1. 0 \in Orders /\ BlockSize[0] = 1 /\ f % 1 = 0
    BY <1>1, Sizes
  <2>2. ASSUME NEW x \in Block(f, 0) PROVE x \in frames
    <3>1. x \in Nat /\ f <= x /\ x < f + 1
      BY <1>1, <2>1, BlockIs
    <3>2. x = f
      BY <1>1, <3>1
    <3> QED  BY <3>2
  <2> QED  BY <2>1, <2>2
<1>3. \E m \in S : \A y \in S : y <= m
  <2>1. S \in SUBSET Nat /\ S # {} /\ \A t \in S : t <= MaxOrder
    BY <1>1, <1>2
  <2> HIDE DEF S
  <2> QED  BY <1>1, <2>1, GreatestNat
<1>4. PICK o : o = MaxBlockOrder(frames, f)
  OBVIOUS
<1>5. o \in S /\ \A y \in S : y <= o
  <2>1. o = CHOOSE x \in S : \A y \in S : x >= y
    BY <1>4 DEF MaxBlockOrder, Max
  <2>2. \E x \in S : \A y \in S : x >= y
    <3>1. \A y \in S : y \in Nat
      BY <1>1
    <3> HIDE DEF S
    <3> QED  BY <1>3, <3>1
  <2>3. S \subseteq Nat
    BY <1>1
  <2> HIDE DEF S
  <2>4. o \in S /\ \A y \in S : o >= y
    BY <2>1, <2>2
  <2> QED  BY <2>3, <2>4
<1> QED  BY <1>4, <1>5

(* build_free_lists, up to a frame. *)
Scan == [lists: [Orders -> Seq(Frames)], next: Nat]
Scanned(frames, i, acc) ==
  /\ acc \in Scan /\ Lists(acc.lists) /\ Disjoint(BlocksIn(acc.lists))
  /\ \A b \in BlocksIn(acc.lists) : b.order = MaxBlockOrder(frames, b.frame)
  /\ Covered(BlocksIn(acc.lists)) \subseteq frames
  /\ \A x \in Covered(BlocksIn(acc.lists)) : x < acc.next
  /\ \A x \in frames : x < i \/ x < acc.next => x \in Covered(BlocksIn(acc.lists))

(* A step of the scan has a result, ... *)
LEMMA ScanTyped ==
  ASSUME NEW frames \in SUBSET Frames, NEW acc \in Scan, NEW f \in Frames
  PROVE  ScanFrame(frames, acc, f) \in Scan
<1>1. CASE f < acc.next \/ f \notin frames
  BY <1>1 DEF ScanFrame
<1>2. CASE ~(f < acc.next \/ f \notin frames)
  <2>1. PICK o \in Orders : o = MaxBlockOrder(frames, f)
    BY <1>2, MaxBlock
  <2>2. PICK lists \in [Orders -> Seq(Frames)] : lists = acc.lists
    BY DEF Scan
  <2>3. <<f>> \o lists[o] \in Seq(Frames)
    <3>1. <<f>> \in Seq(Frames) /\ lists[o] \in Seq(Frames)
      OBVIOUS
    <3> QED  BY <3>1, ConcatProperties
  <2>4. Push(lists, f, o) \in [Orders -> Seq(Frames)]
    BY <2>3 DEF Push
  <2>5. f + BlockSize[o] \in Nat
    <3>1. f \in Nat /\ BlockSize[o] \in Nat
      BY FramesFinite, Sizes
    <3> QED  BY <3>1
  <2>6. ScanFrame(frames, acc, f) = [lists |-> Push(lists, f, o), next |-> f + BlockSize[o]]
    BY <1>2, <2>1, <2>2 DEF ScanFrame
  <2> QED  BY <2>4, <2>5, <2>6 DEF Scan
<1> QED  BY <1>1, <1>2

(* ... which covers one frame more. *)
LEMMA ScanStep ==
  ASSUME NEW frames \in SUBSET Frames, NEW f \in Frames, NEW acc, Scanned(frames, f, acc)
  PROVE  Scanned(frames, f + 1, ScanFrame(frames, acc, f))
<1>1. f \in Nat /\ frames \subseteq Nat /\ acc.next \in Nat /\ acc \in Scan
  BY FramesFinite DEF Scanned, Scan
<1>2. CASE f < acc.next \/ f \notin frames
  <2>1. ScanFrame(frames, acc, f) = acc
    BY <1>2 DEF ScanFrame
  <2>2. ASSUME NEW x \in frames, x < f + 1 \/ x < acc.next PROVE x \in Covered(BlocksIn(acc.lists))
    <3>1. x < f \/ x = f \/ x < acc.next
      BY <1>1, <2>2
    <3> QED  BY <1>2, <3>1 DEF Scanned
  <2> QED  BY <2>1, <2>2 DEF Scanned
<1>3. CASE ~(f < acc.next \/ f \notin frames)
  <2>1. PICK o \in Orders : o = MaxBlockOrder(frames, f) /\ Block(f, o) \subseteq frames
    BY <1>3, MaxBlock
  <2>2. PICK lists : lists = acc.lists
    OBVIOUS
  <2>3. PICK n \in Nat : n = BlockSize[o] /\ n >= 1
    BY Sizes
  <2>4. /\ Lists(lists) /\ Disjoint(BlocksIn(lists)) /\ Covered(BlocksIn(lists)) \subseteq frames
        /\ \A x \in Covered(BlocksIn(lists)) : x < acc.next
        /\ \A x \in frames : x < f \/ x < acc.next => x \in Covered(BlocksIn(lists))
        /\ \A b \in BlocksIn(lists) : b.order = MaxBlockOrder(frames, b.frame)
    BY <2>2 DEF Scanned
  <2>5. \A x \in Nat : x \in Block(f, o) <=> f <= x /\ x < f + n
    BY <1>1, <2>3, BlockIs
  <2>6. Covered(BlocksIn(lists)) \cap Block(f, o) = {}
    <3>1. ASSUME NEW x \in Covered(BlocksIn(lists)) PROVE x \notin Block(f, o)
      <4>1. x \in Nat /\ x < acc.next /\ acc.next <= f
        <5>1. x \in frames /\ x < acc.next
          BY <2>4
        <5>2. acc.next <= f
          BY <1>1, <1>3
        <5> QED  BY <1>1, <5>1, <5>2
      <4>2. ~(f <= x)
        BY <1>1, <4>1
      <4> QED  BY <2>5, <4>1, <4>2
    <3> QED  BY <3>1
  <2>7. PICK new : new = Push(lists, f, o)
    OBVIOUS
  <2>8. /\ Lists(new) /\ Disjoint(BlocksIn(new)) /\ Covered(BlocksIn(new)) = Covered(BlocksIn(lists)) \cup Block(f, o)
        /\ BlockCame(lists, new, f, o)
    BY <2>4, <2>6, <2>7, PushTiles, ZenonT(40)
  <2>9. PICK end \in Scan : end = ScanFrame(frames, acc, f)
    BY <1>1, ScanTyped
  <2>10. end.lists = new /\ end.next = f + n
    BY <1>3, <2>1, <2>2, <2>3, <2>7, <2>9 DEF ScanFrame
  <2>11. ASSUME NEW x \in Covered(BlocksIn(new)) PROVE x \in frames /\ x < f + n
    <3>1. x \in frames
      BY <2>1, <2>4, <2>8
    <3>2. CASE x \in Covered(BlocksIn(lists))
      BY <1>1, <1>3, <2>3, <2>4, <3>1, <3>2
    <3>3. CASE x \in Block(f, o)
      BY <1>1, <2>5, <3>1, <3>3
    <3> QED  BY <2>8, <3>1, <3>2, <3>3
  <2>12. ASSUME NEW x \in frames, x < f + 1 \/ x < f + n PROVE x \in Covered(BlocksIn(new))
    <3>1. x < f \/ (f <= x /\ x < f + n)
      BY <1>1, <2>3, <2>12
    <3>2. CASE x < f
      BY <2>4, <2>8, <3>2
    <3>3. CASE f <= x /\ x < f + n
      BY <1>1, <2>5, <2>8, <3>3
    <3> QED  BY <3>1, <3>2, <3>3
  <2>13. ASSUME NEW b \in BlocksIn(new) PROVE b.order = MaxBlockOrder(frames, b.frame)
    <3>1. CASE b \in BlocksIn(lists)
      BY <2>4, <3>1
    <3>2. CASE b = [frame |-> f, order |-> o]
      BY <2>1, <3>2
    <3> QED  BY <2>8, <3>1, <3>2 DEF BlockCame
  <2>14. Scanned(frames, f + 1, end)
    BY <2>8, <2>10, <2>11, <2>12, <2>13 DEF Scanned
  <2> QED  BY <2>9, <2>14
<1> QED  BY <1>2, <1>3

(* The free lists at boot tile the usable memory. *)
LEMMA BuildTiles ==
  ASSUME NEW frames \in SUBSET Frames
  PROVE  \E acc : Scanned(frames, MaxFrames, acc) /\ BuildFreeLists(frames) = acc.lists
<1> DEFINE none == [o \in Orders |-> << >>]
           first == [lists |-> none, next |-> 0]
           F == [p \in Scan \X (1 .. MaxFrames) |-> ScanFrame(frames, p[1], p[2] - 1)]
           IsLoop(c) == c = [i \in 0 .. MaxFrames |-> IF i = 0 THEN first ELSE ScanFrame(frames, c[i - 1], i - 1)]
<1>1. MaxFrames \in Nat /\ Frames = 0 .. MaxFrames - 1 /\ \A i \in 1 .. MaxFrames : i - 1 \in Frames
  BY MemoryAssumption DEF Frames
<1>2. none \in [Orders -> Seq(Frames)] /\ \A o \in Orders : none[o] = << >>
  <2>1. << >> \in Seq(Frames)
    OBVIOUS
  <2> QED  BY <2>1
<1>3. first \in Scan /\ first.lists = none /\ first.next = 0
  BY <1>2 DEF Scan
<1>4. BlocksIn(none) = {} /\ Lists(none)
  <2>1. ToSet(<< >>) = {} /\ IsInjective(<< >>)
    BY DEF ToSet, IsInjective
  <2>2. \A b \in Blocks : none[b.order] = << >>
    BY <1>2, BlockPair
  <2> HIDE DEF none
  <2>3. BlocksIn(none) = {}
    BY <2>1, <2>2 DEF BlocksIn
  <2> QED  BY <1>2, <2>1, <2>3 DEF Lists
<1> HIDE DEF none, first
<1>5. Scanned(frames, 0, first)
  <2>1. Covered({}) = {} /\ Disjoint({})
    BY DEF Covered, Disjoint
  <2>2. frames \subseteq Nat
    BY FramesFinite
  <2> QED  BY <1>3, <1>4, <2>1, <2>2 DEF Scanned
<1>6. F \in [Scan \X (1 .. MaxFrames) -> Scan]
  BY <1>1, ScanTyped
<1>7. \E c : IsLoop(c)
  <2> HIDE DEF F, IsLoop
  <2>1. PICK c : IsRun(c, MaxFrames, Scan, first, F)
    BY <1>1, <1>3, <1>6, FiniteRun
  <2>2. ASSUME NEW i \in 1 .. MaxFrames PROVE c[i] = ScanFrame(frames, c[i - 1], i - 1)
    <3>1. c[i - 1] \in Scan
      BY <1>1, <2>1 DEF IsRun
    <3>2. <<c[i - 1], i>> \in Scan \X (1 .. MaxFrames)
      BY <3>1
    <3>3. F[<<c[i - 1], i>>] = ScanFrame(frames, c[i - 1], i - 1)
      BY <3>2 DEF F
    <3> QED  BY <2>1, <3>3 DEF IsRun
  <2>3. c = [i \in 0 .. MaxFrames |-> IF i = 0 THEN first ELSE ScanFrame(frames, c[i - 1], i - 1)]
    BY <1>1, <2>1, <2>2 DEF IsRun
  <2> QED  BY <2>3 DEF IsLoop
<1>8. PICK c : IsLoop(c) /\ BuildFreeLists(frames) = c[MaxFrames].lists
  <2>1. PICK d : d = CHOOSE c : IsLoop(c)
    OBVIOUS
  <2>2. BuildFreeLists(frames) = d[MaxFrames].lists
    BY <2>1 DEF BuildFreeLists, first, none
  <2> HIDE DEF IsLoop
  <2>3. IsLoop(d)
    BY <1>7, <2>1
  <2> QED  BY <2>2, <2>3
<1>9. c[0] = first /\ \A i \in 1 .. MaxFrames : c[i] = ScanFrame(frames, c[i - 1], i - 1)
  <2>1. 0 \in 0 .. MaxFrames /\ \A i \in 1 .. MaxFrames : i \in 0 .. MaxFrames /\ i # 0
    BY <1>1
  <2> QED  BY <1>8, <2>1
<1> HIDE DEF IsLoop
<1> DEFINE T == {i \in 0 .. MaxFrames : Scanned(frames, i, c[i])}
<1>10. 0 \in T
  BY <1>1, <1>5, <1>9
<1>11. ASSUME NEW i \in 1 .. MaxFrames, i - 1 \in T PROVE i \in T
  <2>1. Scanned(frames, i - 1, c[i - 1]) /\ i - 1 \in Frames /\ (i - 1) + 1 = i
    BY <1>1, <1>11
  <2>2. Scanned(frames, (i - 1) + 1, ScanFrame(frames, c[i - 1], i - 1))
    BY <2>1, ScanStep
  <2>3. Scanned(frames, i, c[i])
    BY <1>9, <2>1, <2>2
  <2> QED  BY <1>1, <2>3
<1>12. MaxFrames \in T
  <2> HIDE DEF T
  <2>1. \A i \in 0 .. MaxFrames : i \in T
    BY <1>1, <1>10, <1>11, CountUp
  <2> QED  BY <1>1, <2>1
<1> QED  BY <1>8, <1>12

(* They are merged: a block at hand for the next order is taken as such. *)
LEMMA ScannedMerged ==
  ASSUME NEW frames \in SUBSET Frames, NEW acc, Scanned(frames, MaxFrames, acc)
  PROVE  Merged(BlocksIn(acc.lists)) /\ Covered(BlocksIn(acc.lists)) = frames
<1>1. PICK S : S = BlocksIn(acc.lists)
  OBVIOUS
<1>2. MaxOrder \in Nat /\ Orders = 0 .. MaxOrder /\ MaxFrames \in Nat /\ Frames = 0 .. MaxFrames - 1
  BY MemoryAssumption DEF Orders, Frames
<1>3. /\ S \subseteq Blocks /\ Disjoint(S) /\ Covered(S) \subseteq frames
      /\ \A b \in S : b.order = MaxBlockOrder(frames, b.frame)
  BY <1>1 DEF Scanned, BlocksIn
<1>4. frames \subseteq Covered(S)
  <2>1. \A x \in frames : x < MaxFrames
    BY <1>2
  <2> QED  BY <1>1, <2>1 DEF Scanned
<1>5. ASSUME NEW b \in S
      PROVE  /\ b.frame \in Nat /\ b.order \in Orders /\ Block(b.frame, b.order) \subseteq frames
             /\ Aligned(b.frame, b.order)
             /\ \A p \in Orders : Aligned(b.frame, p) /\ Block(b.frame, p) \subseteq frames => p <= b.order
  <2>1. b.frame \in Nat /\ b.order \in Orders
    BY <1>3, BlockPair, FramesFinite
  <2>2. Block(b.frame, b.order) \subseteq frames
    BY <1>3, CoveredIs
  <2>3. b.frame \in frames
    BY <2>1, <2>2, BlockIs
  <2>4. /\ b.frame % BlockSize[b.order] = 0
        /\ \A p \in Orders : b.frame % BlockSize[p] = 0 /\ Block(b.frame, p) \subseteq frames => p <= b.order
    BY <1>3, <2>3, MaxBlock, SMTT(30)
  <2> QED  BY <2>1, <2>2, <2>4, AlignedIs
<1>6. ASSUME NEW b \in S, NEW c \in S, b.order = c.order, b.order < MaxOrder, c.frame = Buddy(b.frame, b.order)
      PROVE  FALSE
  <2>1. PICK f, o, u, g : f \in Nat /\ o \in Orders /\ f = b.frame /\ o = b.order /\ u = c.frame /\ u = Buddy(f, o) /\ g = IF u < f THEN u ELSE f
    BY <1>5, <1>6
  <2>2. o + 1 \in Orders /\ Aligned(g, o + 1) /\ Block(g, o + 1) = Block(f, o) \cup Block(u, o)
    BY <1>5, <1>6, <2>1, BuddyIs
  <2>3. Block(g, o + 1) \subseteq frames
    BY <1>5, <1>6, <2>1, <2>2
  <2>4. o + 1 <= o
    <3>1. CASE g = f
      BY <1>5, <2>1, <2>2, <2>3, <3>1
    <3>2. CASE g = u
      BY <1>5, <1>6, <2>1, <2>2, <2>3, <3>2
    <3> QED  BY <2>1, <3>1, <3>2
  <2>5. o \in Nat
    BY <1>2, <2>1
  <2> QED  BY <2>4, <2>5
<1>7. Merged(S)
  BY <1>3, <1>5, <1>6 DEF Merged
<1> QED  BY <1>1, <1>3, <1>4, <1>7

(* The invariant holds after boot, ... *)
LEMMA MemoryStart == MemoryInit => MemoryInv
<1> SUFFICES ASSUME MemoryInit PROVE MemoryInv
  OBVIOUS
<1>1. /\ usable \in SUBSET Frames /\ free = usable /\ free_lists = BuildFreeLists(usable)
      /\ free_frames = Cardinality(usable) /\ held = {}
  BY DEF MemoryInit
<1>2. PICK acc : Scanned(usable, MaxFrames, acc) /\ free_lists = acc.lists
  BY <1>1, BuildTiles
<1>3. Lists(free_lists) /\ Merged(FreeBlocks) /\ Covered(FreeBlocks) = usable
  <2>1. Lists(acc.lists)
    BY <1>2 DEF Scanned
  <2>2. Merged(BlocksIn(acc.lists)) /\ Covered(BlocksIn(acc.lists)) = usable
    BY <1>1, <1>2, ScannedMerged
  <2> QED  BY <1>2, <2>1, <2>2 DEF FreeBlocks
<1>4. Covered(held) = {} /\ Disjoint(held)
  BY <1>1 DEF Covered, Disjoint
<1> QED  BY <1>1, <1>3, <1>4 DEF MemoryInv

(* ... and every request and release keeps it. *)
LEMMA MemoryStep == MemoryInv /\ [MemoryNext]_memoryVars => MemoryInv'
<1> SUFFICES ASSUME MemoryInv, [MemoryNext]_memoryVars PROVE MemoryInv'
  OBVIOUS
<1>1. CASE UNCHANGED memoryVars
  BY <1>1 DEF memoryVars, MemoryInv, FreeBlocks
<1>2. ASSUME NEW o \in Orders, Allocate(o) PROVE MemoryInv'
  <2>1. CASE Available(o) = {}
    BY <1>1, <1>2, <2>1 DEF Allocate
  <2>2. CASE Available(o) # {}
    BY <1>2, <2>2, AllocateKeeps DEF Allocate
  <2> QED  BY <2>1, <2>2
<1>3. ASSUME NEW b \in held, Deallocate(b) PROVE MemoryInv'
  BY <1>3, DeallocateKeeps
<1> QED  BY <1>1, <1>2, <1>3 DEF MemoryNext

(* What the invariant says. *)
LEMMA MemorySays == MemoryInv => MemoryPartitioned
<1> SUFFICES ASSUME MemoryInv PROVE MemoryPartitioned
  OBVIOUS
<1>1. Disjoint(held \cup FreeBlocks)
  BY PutIn DEF MemoryInv, Merged
<1>2. ASSUME NEW b \in held, b \in FreeBlocks PROVE FALSE
  <2>1. b.frame \in Nat /\ b.order \in Orders
    BY BlockPair, FramesFinite DEF MemoryInv
  <2>2. b.frame \in Block(b.frame, b.order)
    BY <2>1, BlockIs
  <2>3. b.frame \in Covered(held) /\ b.frame \in Covered(FreeBlocks)
    BY <1>2, <2>2, CoveredIs
  <2> QED  BY <2>3 DEF MemoryInv
<1>3. MemoryTyped
  BY DEF MemoryInv, MemoryTyped, Lists
<1> QED  BY <1>1, <1>2, <1>3 DEF MemoryInv, MemoryPartitioned, Lists

(* A request that fails found no aligned run of free frames to fail on. *)
LEMMA NeverFalse == MemoryInv => NoFalseExhaustion
<1> SUFFICES ASSUME MemoryInv, NEW o \in Orders, Available(o) = {}, NEW f \in Frames,
                    f % BlockSize[o] = 0, Block(f, o) \subseteq free
             PROVE  FALSE
  BY DEF NoFalseExhaustion
<1>1. f \in Nat
  BY FramesFinite
<1>2. Aligned(f, o)
  BY <1>1, AlignedIs
<1>3. Merged(FreeBlocks) /\ Block(f, o) \subseteq Covered(FreeBlocks)
  BY DEF MemoryInv
<1>4. PICK b \in FreeBlocks : o <= b.order
  BY <1>1, <1>2, <1>3, MergedCovers
<1>5. b.order \in Orders /\ b.frame \in ToSet(free_lists[b.order])
  BY <1>4, BlockPair DEF FreeBlocks, BlocksIn
<1>6. free_lists[b.order] # << >>
  BY <1>5 DEF ToSet
<1>7. b.order >= o
  <2>1. o \in Nat /\ b.order \in Nat
    BY <1>5 DEF Orders
  <2> QED  BY <1>4, <2>1
<1> QED  BY <1>5, <1>6, <1>7 DEF Available

(* Released memory is what it was at boot. *)
LEMMA Restored == MemoryInv => FullyRestored
<1> SUFFICES ASSUME MemoryInv, held = {} PROVE FreeBlocks = BlocksIn(BuildFreeLists(usable))
  BY DEF FullyRestored
<1>1. usable \in SUBSET Frames /\ Merged(FreeBlocks) /\ Covered(FreeBlocks) = usable
  BY DEF MemoryInv, Covered
<1>2. PICK acc : Scanned(usable, MaxFrames, acc) /\ BuildFreeLists(usable) = acc.lists
  BY <1>1, BuildTiles
<1>3. Merged(BlocksIn(acc.lists)) /\ Covered(BlocksIn(acc.lists)) = usable
  BY <1>1, <1>2, ScannedMerged
<1>4. FreeBlocks \subseteq BlocksIn(acc.lists) /\ BlocksIn(acc.lists) \subseteq FreeBlocks
  BY <1>1, <1>3, MergedOnce
<1> QED  BY <1>2, <1>4

(* For every memory map, number of frames and orders, and every sequence   *)
(* of requests and releases: splitting and merging keep the free lists,    *)
(* the bitmap, the counter and the blocks handed out a partition of the    *)
(* usable memory, no request fails while an aligned run of its size is     *)
(* free, and when everything was given back the blocks are those of boot.  *)
THEOREM MemorySoundEver == MemorySpec => []MemorySound
<1>1. MemoryInv => MemorySound
  BY MemorySays, NeverFalse, Restored DEF MemorySound
<1> QED  BY <1>1, MemoryStart, MemoryStep, PTL DEF MemorySpec

-----------------------------------------------------------------------------
(* The resolver *)

(* own says which name the query of each identifier asked for.  Frames,    *)
(* wherever they are, resolutions and the response buffer agree with it.   *)
Answer(own, id) == {<< >>} \cup {AddressOf(own[i]) : i \in {id} \ {0}}
NoIps == {<< >>} \cup {AddressOf(n) : n \in Names}
DnsFrames(own, n) == {f \in [kind: {"dns"}, id: 0 .. n, ip: NoIps] : f.ip \in Answer(own, f.id)}
OwnFrames(own, n) == [kind: {"arp"}] \cup DnsFrames(own, n)
Holdings(own, n) == {<< >>} \cup {<<f>> : f \in OwnFrames(own, n)}
ArpTasks(own, n) == [op: {"arp"}, left: Nat, held: Holdings(own, n)]
DnsTasks(own, n) ==
  {t \in [op: {"dns"}, name: Names, attempt: Nat, id: 0 .. n, left: Nat, held: Holdings(own, n), ip: NoIps] :
     (t.id # 0 => own[t.id] = t.name) /\ t.ip \in {<< >>, AddressOf(t.name)}}
Tasks(own, n) == {NoTask} \cup ArpTasks(own, n) \cup DnsTasks(own, n)

Cached == [valid: BOOLEAN, name: {<< >>} \cup {Trunc(n) : n \in Names}, ip: NoIps, expiry: Nat, last: Nat]
RightEntry(e) == e.valid => \E host \in Names : e.name = Trunc(host) /\ e.ip = AddressOf(host)
RightAnswer(a) == \E host \in Names : AskedAs(a[1], host) /\ a[2] = AddressOf(host)

Buffers == [ready: BOOLEAN, id: Nat, ip: NoIps]
Owned(own) ==
  /\ used \in Nat /\ own \in [1 .. used -> Names]
  /\ wire \subseteq OwnFrames(own, used)
  /\ task \in [Resolvers -> Tasks(own, used)]
  /\ buffer \in Buffers
  /\ buffer.ready => buffer.id \in 0 .. used /\ buffer.ip \in Answer(own, buffer.id)

ResolverInv ==
  /\ clash \in BOOLEAN /\ now \in Nat /\ accessSeq \in Nat
  /\ ~clash => \E own : Owned(own)
  /\ ~clash => cache \in [CacheSlots -> Cached] /\ \A i \in CacheSlots : RightEntry(cache[i])
  /\ ~clash => \A a \in answers : RightAnswer(a)

(* A new query leaves what the earlier ones asked for as it is. *)
LEMMA OwnGrows ==
  ASSUME NEW n \in Nat, NEW own \in [1 .. n -> Names], NEW m \in Nat, n <= m,
         NEW new \in [1 .. m -> Names], \A i \in 1 .. n : new[i] = own[i]
  PROVE  OwnFrames(own, n) \subseteq OwnFrames(new, m) /\ Tasks(own, n) \subseteq Tasks(new, m)
<1>1. ASSUME NEW f \in DnsFrames(own, n) PROVE f \in DnsFrames(new, m)
  BY DEF DnsFrames, Answer
<1>2. OwnFrames(own, n) \subseteq OwnFrames(new, m)
  BY <1>1 DEF OwnFrames
<1>3. Holdings(own, n) \subseteq Holdings(new, m)
  BY <1>2 DEF Holdings
<1>4. ArpTasks(own, n) \subseteq ArpTasks(new, m)
  BY <1>3 DEF ArpTasks
<1>5. ASSUME NEW t \in DnsTasks(own, n) PROVE t \in DnsTasks(new, m)
  BY <1>3 DEF DnsTasks
<1> QED  BY <1>2, <1>4, <1>5 DEF Tasks

(* What a task can be. *)
LEMMA TaskIs ==
  ASSUME NEW own, NEW n, NEW t \in Tasks(own, n)
  PROVE  /\ t.op = "dns" => t \in DnsTasks(own, n)
         /\ t.op = "arp" => t \in ArpTasks(own, n)
         /\ t.op # "idle" => t \in DnsTasks(own, n) \cup ArpTasks(own, n)
         /\ NoTask \in Tasks(own, n)
<1>1. NoTask.op = "idle" /\ NoTask \in Tasks(own, n)
  BY DEF NoTask, Tasks
<1>2. \A x \in ArpTasks(own, n) : x.op = "arp"
  BY DEF ArpTasks
<1>3. \A x \in DnsTasks(own, n) : x.op = "dns"
  BY DEF DnsTasks
<1> QED  BY <1>1, <1>2, <1>3 DEF Tasks

(* Changes of one resolution. *)
LEMMA DnsChanges ==
  ASSUME NEW own, NEW n \in Nat, NEW t \in DnsTasks(own, n)
  PROVE  /\ \A l \in Nat : [t EXCEPT !.left = l] \in DnsTasks(own, n)
         /\ \A h \in Holdings(own, n) : [t EXCEPT !.held = h] \in DnsTasks(own, n)
         /\ [t EXCEPT !.ip = AddressOf(t.name), !.left = 0] \in DnsTasks(own, n)
         /\ \A id \in 1 .. n, l \in Nat : own[id] = t.name =>
              [t EXCEPT !.attempt = t.attempt + 1, !.id = id, !.left = l] \in DnsTasks(own, n)
<1>1. \A l \in Nat : [t EXCEPT !.left = l] \in DnsTasks(own, n)
  BY DEF DnsTasks
<1>2. \A h \in Holdings(own, n) : [t EXCEPT !.held = h] \in DnsTasks(own, n)
  BY DEF DnsTasks
<1>3. [t EXCEPT !.ip = AddressOf(t.name), !.left = 0] \in DnsTasks(own, n)
  BY DEF DnsTasks, NoIps
<1>4. ASSUME NEW id \in 1 .. n, NEW l \in Nat, own[id] = t.name
      PROVE  [t EXCEPT !.attempt = t.attempt + 1, !.id = id, !.left = l] \in DnsTasks(own, n)
  <2>1. t.attempt \in Nat
    BY DEF DnsTasks
  <2>2. PICK a \in Nat, i \in 0 .. n : a = t.attempt + 1 /\ i = id
    BY <2>1
  <2>3. [t EXCEPT !.attempt = a, !.id = i, !.left = l] \in DnsTasks(own, n)
    BY <1>4, <2>2 DEF DnsTasks
  <2> QED  BY <2>2, <2>3
<1> QED  BY <1>1, <1>2, <1>3, <1>4

LEMMA ArpChanges ==
  ASSUME NEW own, NEW n \in Nat, NEW t \in ArpTasks(own, n)
  PROVE  /\ \A l \in Nat : [t EXCEPT !.left = l] \in ArpTasks(own, n)
         /\ \A h \in Holdings(own, n) : [t EXCEPT !.held = h] \in ArpTasks(own, n)
  BY DEF ArpTasks

(* A frame that is held is one of those sent. *)
LEMMA HeldIs ==
  ASSUME NEW own, NEW n, NEW h \in Holdings(own, n)
  PROVE  h # << >> => h[1] \in OwnFrames(own, n)
  BY DEF Holdings

LEMMA FrameIs ==
  ASSUME NEW own, NEW n, NEW f \in OwnFrames(own, n)
  PROVE  f.kind = "dns" => f.id \in 0 .. n /\ f.ip \in NoIps /\ f.ip \in Answer(own, f.id)
<1>1. \A x \in [kind: {"arp"}] : x.kind = "arp"
  OBVIOUS
<1> QED  BY <1>1 DEF OwnFrames, DnsFrames

(* Changes of one entry of the cache. *)
LEMMA CacheChanges ==
  ASSUME NEW e \in Cached, RightEntry(e)
  PROVE  /\ \A l \in Nat : [e EXCEPT !.last = l] \in Cached /\ RightEntry([e EXCEPT !.last = l])
         /\ [e EXCEPT !.valid = FALSE] \in Cached /\ RightEntry([e EXCEPT !.valid = FALSE])
<1>1. ASSUME NEW l \in Nat PROVE [e EXCEPT !.last = l] \in Cached /\ RightEntry([e EXCEPT !.last = l])
  <2>1. [e EXCEPT !.last = l] \in Cached
    BY DEF Cached
  <2>2. /\ [e EXCEPT !.last = l].valid = e.valid /\ [e EXCEPT !.last = l].name = e.name
        /\ [e EXCEPT !.last = l].ip = e.ip
    BY DEF Cached
  <2> QED  BY <2>1, <2>2, Zenon DEF RightEntry
<1>2. [e EXCEPT !.valid = FALSE] \in Cached
  BY DEF Cached
<1>3. ~[e EXCEPT !.valid = FALSE].valid
  BY DEF Cached
<1>4. RightEntry([e EXCEPT !.valid = FALSE])
  BY <1>3, Zenon DEF RightEntry
<1> QED  BY <1>1, <1>2, <1>4

(* Steps of the resolutions, the network and the buffer, with the queries  *)
(* there are.                                                              *)
LEMMA OwnedStep ==
  ASSUME NEW own, Owned(own), NEW p \in Resolvers, used' = used
  PROVE  /\ UNCHANGED <<wire, task, buffer>> => Owned(own)'
         /\ \A t \in Tasks(own, used) :
              UNCHANGED <<wire, buffer>> /\ task' = [task EXCEPT ![p] = t] => Owned(own)'
  BY DEF Owned

LEMMA OwnedArp ==
  ASSUME NEW own, Owned(own), NEW p \in Resolvers, ArpResolve(p)
  PROVE  Owned(own)'
<1> DEFINE t == [op |-> "arp", left |-> Polls, held |-> << >>]
<1>1. << >> \in Holdings(own, used)
  BY DEF Holdings
<1>2. t \in Tasks(own, used)
  BY <1>1, ResolverAssumption DEF Tasks, ArpTasks
<1>3. task' = [task EXCEPT ![p] = t] /\ wire' = wire \cup {[kind |-> "arp"]} /\ UNCHANGED <<buffer, used>>
  BY DEF ArpResolve
<1>4. wire' \subseteq OwnFrames(own, used)
  BY <1>3 DEF Owned, OwnFrames
<1> HIDE DEF t
<1> QED  BY <1>2, <1>3, <1>4 DEF Owned

LEMMA OwnedFrame ==
  ASSUME NEW own, Owned(own), NEW p \in Resolvers, NEW frame \in wire, NEW again \in BOOLEAN,
         ReceiveFrame(p, frame, again)
  PROVE  Owned(own)'
<1>1. /\ task[p].op # "idle" /\ task' = [task EXCEPT ![p].held = <<frame>>] /\ wire' \subseteq wire
      /\ UNCHANGED <<buffer, used>>
  BY DEF ReceiveFrame
<1>2. <<frame>> \in Holdings(own, used) /\ task[p] \in Tasks(own, used) /\ used \in Nat
  BY DEF Owned, Holdings
<1>3. PICK t : t = [task[p] EXCEPT !.held = <<frame>>]
  OBVIOUS
<1>4. t \in Tasks(own, used)
  <2>1. CASE task[p] \in DnsTasks(own, used)
    BY <1>2, <1>3, <2>1, DnsChanges DEF Tasks
  <2>2. CASE task[p] \in ArpTasks(own, used)
    BY <1>2, <1>3, <2>2, ArpChanges DEF Tasks
  <2> QED  BY <1>1, <1>2, <2>1, <2>2, TaskIs
<1>5. task' = [task EXCEPT ![p] = t]
  BY <1>1, <1>3
<1> QED  BY <1>1, <1>4, <1>5 DEF Owned

LEMMA OwnedDispatch ==
  ASSUME NEW own, Owned(own), NEW p \in Resolvers, DispatchFrame(p)
  PROVE  Owned(own)'
<1>1. PICK h : h = task[p].held
  OBVIOUS
<1>2. /\ task[p].op # "idle" /\ h # << >> /\ task' = [task EXCEPT ![p].held = << >>]
      /\ buffer' = (IF h[1].kind = "dns" THEN [ready |-> TRUE, id |-> h[1].id, ip |-> h[1].ip] ELSE buffer)
      /\ UNCHANGED <<wire, used>>
  BY <1>1 DEF DispatchFrame
<1>3. << >> \in Holdings(own, used) /\ task[p] \in Tasks(own, used) /\ used \in Nat
  BY DEF Owned, Holdings
<1>4. PICK t : t = [task[p] EXCEPT !.held = << >>]
  OBVIOUS
<1>5. task[p] \in DnsTasks(own, used) \/ task[p] \in ArpTasks(own, used)
  BY <1>2, <1>3, TaskIs
<1>6. t \in Tasks(own, used)
  <2>1. CASE task[p] \in DnsTasks(own, used)
    BY <1>3, <1>4, <2>1, DnsChanges DEF Tasks
  <2>2. CASE task[p] \in ArpTasks(own, used)
    BY <1>3, <1>4, <2>2, ArpChanges DEF Tasks
  <2> QED  BY <1>5, <2>1, <2>2
<1>7. task' = [task EXCEPT ![p] = t]
  BY <1>2, <1>4
<1>8. h \in Holdings(own, used)
  BY <1>1, <1>5 DEF DnsTasks, ArpTasks
<1>9. PICK f \in OwnFrames(own, used) : f = h[1]
  BY <1>2, <1>8, HeldIs
<1>10. buffer'.ready => buffer'.id \in 0 .. used /\ buffer'.ip \in Answer(own, buffer'.id)
  <2>1. CASE f.kind = "dns"
    <3>1. f.id \in 0 .. used /\ f.ip \in Answer(own, f.id)
      BY <2>1, FrameIs
    <3>2. buffer' = [ready |-> TRUE, id |-> f.id, ip |-> f.ip]
      BY <1>2, <1>9, <2>1
    <3>3. buffer'.id = f.id /\ buffer'.ip = f.ip
      BY <3>2
    <3> QED  BY <3>1, <3>3
  <2>2. CASE f.kind # "dns"
    <3>1. buffer' = buffer
      BY <1>2, <1>9, <2>2
    <3>2. buffer.ready => buffer.id \in 0 .. used /\ buffer.ip \in Answer(own, buffer.id)
      BY DEF Owned
    <3> QED  BY <3>1, <3>2, Zenon
  <2> QED  BY <2>1, <2>2
<1>11. buffer' \in Buffers
  <2>1. CASE f.kind = "dns"
    <3>1. f.id \in Nat /\ f.ip \in NoIps
      BY <2>1, FrameIs, <1>3
    <3>2. buffer' = [ready |-> TRUE, id |-> f.id, ip |-> f.ip]
      BY <1>2, <1>9, <2>1
    <3> QED  BY <3>1, <3>2 DEF Buffers
  <2>2. CASE f.kind # "dns"
    <3>1. buffer' = buffer
      BY <1>2, <1>9, <2>2
    <3> QED  BY <3>1 DEF Owned
  <2> QED  BY <2>1, <2>2
<1> QED  BY <1>2, <1>6, <1>7, <1>10, <1>11 DEF Owned

LEMMA OwnedCheck ==
  ASSUME NEW own, Owned(own), NEW p \in Resolvers, CheckResponse(p)
  PROVE  Owned(own)'
<1>1. task[p].op = "dns" /\ task[p].left > 0 /\ UNCHANGED <<wire, buffer, used>>
  BY DEF CheckResponse
<1>2. task[p] \in DnsTasks(own, used) /\ used \in Nat
  BY <1>1, TaskIs DEF Owned
<1>3. task[p].left - 1 \in Nat
  BY <1>1, <1>2 DEF DnsTasks
<1>4. CASE task' = [task EXCEPT ![p].left = @ - 1]
  <2>1. PICK t : t = [task[p] EXCEPT !.left = task[p].left - 1]
    OBVIOUS
  <2>2. t \in Tasks(own, used)
    BY <1>2, <1>3, <2>1, DnsChanges DEF Tasks
  <2>3. task' = [task EXCEPT ![p] = t]
    BY <1>4, <2>1
  <2> QED  BY <1>1, <2>2, <2>3, OwnedStep
<1>5. CASE buffer.ready /\ Mine(p) /\ buffer.ip # << >> /\ task' = [task EXCEPT ![p].ip = buffer.ip, ![p].left = 0]
  <2>1. buffer.id # 0 /\ buffer.ip = AddressOf(own[buffer.id]) /\ buffer.id = task[p].id
    BY <1>5 DEF Owned, Answer, Mine
  <2>2. own[buffer.id] = task[p].name
    BY <1>2, <2>1 DEF DnsTasks
  <2>3. PICK t : t = [task[p] EXCEPT !.ip = AddressOf(task[p].name), !.left = 0]
    OBVIOUS
  <2>4. t \in Tasks(own, used)
    BY <1>2, <2>3, DnsChanges DEF Tasks
  <2>5. task' = [task EXCEPT ![p] = t]
    <3>1. buffer.ip = AddressOf(task[p].name)
      BY <2>1, <2>2
    <3> QED  BY <1>5, <2>3, <3>1
  <2> QED  BY <1>1, <2>4, <2>5, OwnedStep
<1>6. CASE task' = [task EXCEPT ![p] = NoTask]
  <2>1. NoTask \in Tasks(own, used)
    BY DEF Tasks
  <2> QED  BY <1>1, <1>6, <2>1, OwnedStep
<1> QED  BY <1>4, <1>5, <1>6 DEF CheckResponse, Finish

(* A query with an identifier of its own. *)
LEMMA OwnedQuery ==
  ASSUME NEW own, Owned(own), NEW p \in Resolvers, SendQuery(p), ~clash'
  PROVE  \E new : Owned(new)'
<1>1. PICK id \in NextTxnIds, as \in Replies :
        /\ task' = [task EXCEPT ![p] = [task[p] EXCEPT !.attempt = @ + 1, !.id = id, !.left = Polls]]
        /\ wire' = wire \cup {Response(id, task[p].name, as)}
        /\ used' = Max({used, id}) /\ clash' = (clash \/ id <= used)
  BY DEF SendQuery
<1>2. task[p].op = "dns" /\ buffer' = [buffer EXCEPT !.ready = FALSE]
  BY DEF SendQuery
<1>3. PICK n \in Nat : n = used /\ own \in [1 .. n -> Names]
  BY DEF Owned
<1>4. id = n + 1 /\ used' = n + 1
  <2>1. id \in 1 .. n + 1 /\ ~(id <= n)
    BY <1>1, <1>3 DEF NextTxnIds
  <2>2. id = n + 1
    BY <2>1
  <2>3. Max({n, n + 1}) = n + 1
    BY DEF Max
  <2> QED  BY <1>1, <1>3, <2>2, <2>3
<1>5. PICK m \in Nat : m = n + 1 /\ m = id /\ used' = m
  BY <1>4
<1>6. task[p] \in DnsTasks(own, n)
  BY <1>2, <1>3, TaskIs DEF Owned
<1>7. PICK name \in Names : name = task[p].name
  BY <1>6 DEF DnsTasks
<1>8. PICK new \in [1 .. m -> Names] : new[m] = name /\ \A i \in 1 .. n : new[i] = own[i]
  <2> DEFINE f == [i \in 1 .. m |-> IF i = m THEN name ELSE own[i]]
  <2>1. \A i \in 1 .. m : i # m => i \in 1 .. n
    BY <1>5
  <2>2. f \in [1 .. m -> Names]
    BY <1>3, <2>1
  <2>3. f[m] = name /\ \A i \in 1 .. n : f[i] = own[i]
    BY <1>5
  <2> HIDE DEF f
  <2> QED  BY <2>2, <2>3
<1>9. OwnFrames(own, n) \subseteq OwnFrames(new, m) /\ Tasks(own, n) \subseteq Tasks(new, m)
  BY <1>3, <1>5, <1>8, OwnGrows
<1>10. wire' \subseteq OwnFrames(new, m)
  <2>1. PICK f : f = Response(m, name, as)
    OBVIOUS
  <2>2. f \in DnsFrames(new, m)
    <3>1. PICK ip \in NoIps : ip = (IF as = "address" THEN AddressOf(name) ELSE << >>)
      BY <1>8 DEF NoIps
    <3>2. PICK i \in 0 .. m : i = (IF as = "short" THEN 0 ELSE m)
      <4>1. 0 \in 0 .. m /\ m \in 0 .. m
        BY <1>5
      <4> QED  BY <4>1, Zenon
    <3>3. f = [kind |-> "dns", id |-> i, ip |-> ip]
      BY <2>1, <3>1, <3>2 DEF Response
    <3>4. ip \in Answer(new, i)
      <4>1. CASE as = "address"
        <5>1. i = m /\ i # 0 /\ ip = AddressOf(new[i])
          BY <1>5, <1>8, <3>1, <3>2, <4>1
        <5> QED  BY <5>1 DEF Answer
      <4>2. CASE as # "address"
        BY <3>1, <4>2 DEF Answer
      <4> QED  BY <4>1, <4>2
    <3> QED  BY <3>1, <3>2, <3>3, <3>4 DEF DnsFrames
  <2>3. wire \subseteq OwnFrames(own, n)
    BY <1>3 DEF Owned
  <2>4. wire' = wire \cup {f}
    BY <1>1, <1>5, <1>7, <2>1
  <2> QED  BY <1>9, <2>2, <2>3, <2>4 DEF OwnFrames
<1>11. task' \in [Resolvers -> Tasks(new, m)]
  <2>1. PICK t \in DnsTasks(new, m) : t = task[p]
    <3>1. task[p] \in Tasks(new, m)
      BY <1>6, <1>9 DEF Tasks
    <3> QED  BY <1>2, <3>1, TaskIs
  <2>2. PICK u : u = [t EXCEPT !.attempt = t.attempt + 1, !.id = m, !.left = Polls]
    OBVIOUS
  <2>3. u \in DnsTasks(new, m)
    <3>1. m \in 1 .. m /\ Polls \in Nat /\ new[m] = t.name
      BY <1>5, <1>7, <1>8, <2>1, ResolverAssumption
    <3> QED  BY <2>2, <3>1, DnsChanges
  <2>4. task' = [task EXCEPT ![p] = u]
    BY <1>1, <1>5, <2>1, <2>2
  <2>5. task \in [Resolvers -> Tasks(new, m)]
    BY <1>3, <1>9 DEF Owned
  <2> QED  BY <2>3, <2>4, <2>5 DEF Tasks
<1>12. ~buffer'.ready
  <2>1. buffer \in Buffers
    BY DEF Owned
  <2> QED  BY <1>2, <2>1 DEF Buffers
<1>13. buffer' \in Buffers
  <2>1. buffer \in Buffers
    BY DEF Owned
  <2> QED  BY <1>2, <2>1 DEF Buffers
<1> QED  BY <1>5, <1>8, <1>10, <1>11, <1>12, <1>13 DEF Owned

(* The look-up finds an entry of the name. *)
LEMMA HitIs ==
  ASSUME NEW name, Hits(name) # {}
  PROVE  Min(Hits(name)) \in CacheSlots /\ cache[Min(Hits(name))].valid /\ cache[Min(Hits(name))].name = name
<1>1. PICK H \in SUBSET Nat : H = Hits(name) /\ H # {}
  <2>1. CacheSlots \subseteq Nat
    BY ResolverAssumption DEF CacheSlots
  <2>2. Hits(name) \subseteq CacheSlots
    BY DEF Hits
  <2> QED  BY <2>1, <2>2
<1>2. \E m \in H : \A y \in H : m <= y
  BY <1>1, LeastNat
<1>3. Min(H) \in H
  BY <1>2 DEF Min
<1> QED  BY <1>1, <1>3 DEF Hits

LEMMA LookupKeeps ==
  ASSUME ResolverInv, ~clash, NEW p \in Resolvers, NEW name \in Names, ResolveLookup(p, name)
  PROVE  /\ cache' \in [CacheSlots -> Cached] /\ \A j \in CacheSlots : RightEntry(cache'[j])
         /\ \A a \in answers' : RightAnswer(a)
<1>1. /\ accessSeq \in Nat /\ cache \in [CacheSlots -> Cached]
      /\ \A j \in CacheSlots : cache[j] \in Cached /\ RightEntry(cache[j])
      /\ \A a \in answers : RightAnswer(a)
  BY DEF ResolverInv
<1>2. PICK i : i = Min(Hits(name))
  OBVIOUS
<1>3. CASE Hits(name) # {} /\ cache' = [cache EXCEPT ![i].last = accessSeq + 1]
           /\ answers' = answers \cup {<<name, cache[i].ip>>}
  <2>1. i \in CacheSlots /\ cache[i].valid /\ cache[i].name = name
    BY <1>2, <1>3, HitIs
  <2>2. PICK e : e = [cache[i] EXCEPT !.last = accessSeq + 1]
    OBVIOUS
  <2>3. e \in Cached /\ RightEntry(e)
    <3>1. accessSeq + 1 \in Nat
      BY <1>1
    <3> QED  BY <1>1, <2>1, <2>2, <3>1, CacheChanges
  <2>4. cache' = [cache EXCEPT ![i] = e]
    BY <1>3, <2>2
  <2>5. PICK host \in Names : cache[i].name = Trunc(host) /\ cache[i].ip = AddressOf(host)
    BY <1>1, <2>1 DEF RightEntry
  <2>6. PICK ip : ip = cache[i].ip
    OBVIOUS
  <2>7. RightAnswer(<<name, ip>>)
    <3>1. <<name, ip>>[1] = name /\ <<name, ip>>[2] = ip
      OBVIOUS
    <3>2. AskedAs(name, host) /\ ip = AddressOf(host)
      BY <2>1, <2>5, <2>6 DEF AskedAs
    <3> QED  BY <3>1, <3>2 DEF RightAnswer
  <2>8. \A a \in answers' : RightAnswer(a)
    BY <1>1, <1>3, <2>6, <2>7
  <2> QED  BY <1>1, <2>3, <2>4, <2>8
<1>4. CASE /\ cache' = [j \in CacheSlots |-> IF Hits(name) # {} /\ i = j
                                             THEN [cache[j] EXCEPT !.valid = FALSE] ELSE cache[j]]
           /\ answers' = answers
  <2>1. ASSUME NEW j \in CacheSlots PROVE cache'[j] \in Cached /\ RightEntry(cache'[j])
    <3>1. PICK e : e = [cache[j] EXCEPT !.valid = FALSE] /\ e \in Cached /\ RightEntry(e)
      BY <1>1, CacheChanges
    <3>2. cache'[j] = e \/ cache'[j] = cache[j]
      BY <1>4, <3>1
    <3>3. cache[j] \in Cached /\ RightEntry(cache[j])
      BY <1>1
    <3> QED  BY <3>1, <3>2, <3>3, Zenon
  <2>2. cache' \in [CacheSlots -> Cached]
    <3>1. cache' = [j \in CacheSlots |-> cache'[j]]
      BY <1>4
    <3> QED  BY <2>1, <3>1
  <2> QED  BY <1>1, <1>4, <2>1, <2>2
<1> QED  BY <1>2, <1>3, <1>4 DEF ResolveLookup

LEMMA InsertKeeps ==
  ASSUME ResolverInv, ~clash, NEW p \in Resolvers, CacheInsert(p)
  PROVE  /\ cache' \in [CacheSlots -> Cached] /\ \A j \in CacheSlots : RightEntry(cache'[j])
         /\ \A a \in answers' : RightAnswer(a)
<1>1. /\ accessSeq \in Nat /\ now \in Nat /\ cache \in [CacheSlots -> Cached]
      /\ \A j \in CacheSlots : cache[j] \in Cached /\ RightEntry(cache[j])
      /\ \A a \in answers : RightAnswer(a)
  BY DEF ResolverInv
<1>2. PICK own : Owned(own)
  BY DEF ResolverInv
<1>3. task[p].op = "dns" /\ task[p].ip # << >>
  BY DEF CacheInsert
<1>4. task[p] \in DnsTasks(own, used)
  BY <1>2, <1>3, TaskIs DEF Owned
<1>5. PICK name, ip : name \in Names /\ name = task[p].name /\ ip = task[p].ip /\ ip = AddressOf(name)
  BY <1>3, <1>4 DEF DnsTasks
<1>6. PICK x \in Nat, l \in Nat : x = now + Ttl /\ l = accessSeq + 1
  BY <1>1, ResolverAssumption
<1>7. PICK e : e = [valid |-> TRUE, name |-> Trunc(name), ip |-> ip, expiry |-> x, last |-> l]
  OBVIOUS
<1>8. e \in Cached
  BY <1>5, <1>6, <1>7 DEF Cached, NoIps
<1>9. RightEntry(e)
  <2>1. e.name = Trunc(name) /\ e.ip = ip
    BY <1>7
  <2> QED  BY <1>5, <2>1 DEF RightEntry
<1>10. cache' = [cache EXCEPT ![SlotFor(name)] = e] /\ answers' = answers \cup {<<name, ip>>}
  BY <1>5, <1>6, <1>7 DEF CacheInsert
<1>11. PICK k : cache' = [cache EXCEPT ![k] = e]
  BY <1>10
<1>12. cache' \in [CacheSlots -> Cached] /\ \A j \in CacheSlots : cache'[j] = e \/ cache'[j] = cache[j]
  BY <1>1, <1>8, <1>11
<1>13. \A j \in CacheSlots : RightEntry(cache'[j])
  BY <1>1, <1>9, <1>12, Zenon
<1>14. RightAnswer(<<name, ip>>)
  <2>1. <<name, ip>>[1] = name /\ <<name, ip>>[2] = ip
    OBVIOUS
  <2>2. AskedAs(name, name)
    BY DEF AskedAs
  <2> QED  BY <1>5, <2>1, <2>2 DEF RightAnswer
<1>15. \A a \in answers' : RightAnswer(a)
  BY <1>1, <1>10, <1>14
<1> QED  BY <1>12, <1>13, <1>15

(* The resolutions that do not touch the network. *)
LEMMA OwnedLookup ==
  ASSUME NEW own, Owned(own), NEW p \in Resolvers, NEW name \in Names, ResolveLookup(p, name)
  PROVE  Owned(own)'
<1>1. UNCHANGED <<wire, buffer, used>>
  BY DEF ResolveLookup
<1>2. PICK t : t = [op |-> "dns", name |-> name, attempt |-> 0, id |-> 0, left |-> 0, held |-> << >>, ip |-> << >>]
  OBVIOUS
<1>3. t \in DnsTasks(own, used)
  <2>1. << >> \in Holdings(own, used) /\ << >> \in NoIps /\ 0 \in 0 .. used
    BY DEF Owned, Holdings, NoIps
  <2> QED  BY <1>2, <2>1 DEF DnsTasks
<1>4. task' = task \/ task' = [task EXCEPT ![p] = t]
  BY <1>2 DEF ResolveLookup
<1>5. t \in Tasks(own, used)
  BY <1>3 DEF Tasks
<1> QED  BY <1>1, <1>4, <1>5, OwnedStep

LEMMA OwnedDone ==
  ASSUME NEW own, Owned(own), NEW p \in Resolvers, GiveUp(p) \/ CacheInsert(p)
  PROVE  Owned(own)'
<1>1. UNCHANGED <<wire, buffer, used>> /\ task' = [task EXCEPT ![p] = NoTask]
  BY DEF GiveUp, CacheInsert, Finish
<1>2. NoTask \in Tasks(own, used)
  BY DEF Tasks
<1> QED  BY <1>1, <1>2, OwnedStep

LEMMA OwnedPoll ==
  ASSUME NEW own, Owned(own), NEW p \in Resolvers, ArpPoll(p)
  PROVE  Owned(own)'
<1>1. task[p].op = "arp" /\ UNCHANGED <<wire, buffer, used>>
  BY DEF ArpPoll
<1>2. task[p] \in ArpTasks(own, used) /\ used \in Nat
  BY <1>1, TaskIs DEF Owned
<1>3. CASE task' = [task EXCEPT ![p] = NoTask]
  <2>1. NoTask \in Tasks(own, used)
    BY DEF Tasks
  <2> QED  BY <1>1, <1>3, <2>1, OwnedStep
<1>4. CASE task[p].left > 0 /\ task' = [task EXCEPT ![p].left = @ - 1]
  <2>1. task[p].left - 1 \in Nat
    BY <1>2, <1>4 DEF ArpTasks
  <2>2. PICK t : t = [task[p] EXCEPT !.left = task[p].left - 1]
    OBVIOUS
  <2>3. t \in Tasks(own, used)
    BY <1>2, <2>1, <2>2, ArpChanges DEF Tasks
  <2>4. task' = [task EXCEPT ![p] = t]
    BY <1>4, <2>2
  <2> QED  BY <1>1, <2>3, <2>4, OwnedStep
<1> QED  BY <1>3, <1>4 DEF ArpPoll, Finish

LEMMA ResolverStart == ResolverInit => ResolverInv
<1> SUFFICES ASSUME ResolverInit PROVE ResolverInv
  OBVIOUS
<1>1. /\ now = 0 /\ wire = {} /\ buffer = [ready |-> FALSE, id |-> 0, ip |-> << >>]
      /\ cache = [i \in CacheSlots |-> NoEntry] /\ accessSeq = 0
      /\ task = [p \in Resolvers |-> NoTask] /\ used = 0 /\ answers = {}
  BY Zenon DEF ResolverInit
<1>2. clash \in BOOLEAN
  BY DEF ResolverInit
<1>3. \E own : Owned(own)
  <2>1. PICK own : own \in [1 .. 0 -> Names]
    <3>1. [i \in 1 .. 0 |-> CHOOSE n \in Names : TRUE] \in [1 .. 0 -> Names]
      OBVIOUS
    <3> QED  BY <3>1
  <2>2. wire \subseteq OwnFrames(own, 0) /\ task \in [Resolvers -> Tasks(own, 0)]
    BY <1>1 DEF Tasks
  <2>3. buffer \in Buffers
    BY <1>1 DEF Buffers, NoIps
  <2>4. ~buffer.ready
    BY <1>1
  <2> QED  BY <1>1, <2>1, <2>2, <2>3, <2>4 DEF Owned
<1>4. NoEntry \in Cached
  BY DEF NoEntry, Cached, NoIps
<1>5. RightEntry(NoEntry)
  BY DEF NoEntry, RightEntry
<1>6. cache \in [CacheSlots -> Cached] /\ \A i \in CacheSlots : RightEntry(cache[i])
  BY <1>1, <1>4, <1>5
<1> QED  BY <1>1, <1>2, <1>3, <1>6 DEF ResolverInv

LEMMA ResolverStep == ResolverInv /\ [ResolverNext]_rvars => ResolverInv'
<1> SUFFICES ASSUME ResolverInv, [ResolverNext]_rvars PROVE ResolverInv'
  OBVIOUS
<1>1. clash \in BOOLEAN /\ now \in Nat /\ accessSeq \in Nat
  BY DEF ResolverInv
<1> DEFINE Kept == UNCHANGED <<cache, answers>>
<1>2. ASSUME ~clash PROVE \E own : Owned(own)
  BY <1>2 DEF ResolverInv
<1>3. ASSUME Kept, ~clash
      PROVE  /\ cache' \in [CacheSlots -> Cached] /\ \A j \in CacheSlots : RightEntry(cache'[j])
             /\ \A a \in answers' : RightAnswer(a)
  BY <1>3 DEF ResolverInv
<1>4. CASE ClockTick
  <2>1. now' = now + 1 /\ UNCHANGED <<wire, buffer, cache, accessSeq, task, used, clash, answers>>
    BY <1>4 DEF ClockTick
  <2> QED  BY <1>1, <2>1 DEF ResolverInv, Owned
<1>5. CASE UNCHANGED rvars
  <2>1. UNCHANGED <<now, wire, buffer, cache, accessSeq, task, used, clash, answers>>
    BY <1>5 DEF rvars
  <2> QED  BY <1>1, <2>1 DEF ResolverInv, Owned
<1>6. ASSUME NEW p \in Resolvers, NEW name \in Names, ResolveLookup(p, name) PROVE ResolverInv'
  <2>1. now' = now /\ clash' = clash /\ accessSeq' = accessSeq + 1
    BY <1>6 DEF ResolveLookup
  <2>2. ASSUME ~clash PROVE \E own : Owned(own)'
    BY <1>2, <1>6, <2>2, OwnedLookup
  <2> QED  BY <1>1, <1>6, <2>1, <2>2, LookupKeeps DEF ResolverInv
<1>7. ASSUME NEW p \in Resolvers, CacheInsert(p) PROVE ResolverInv'
  <2>1. now' = now /\ clash' = clash /\ accessSeq' = accessSeq + 1
    BY <1>7 DEF CacheInsert
  <2>2. ASSUME ~clash PROVE \E own : Owned(own)'
    BY <1>2, <1>7, <2>2, OwnedDone
  <2> QED  BY <1>1, <1>7, <2>1, <2>2, InsertKeeps DEF ResolverInv
<1>8. ASSUME NEW p \in Resolvers, SendQuery(p) PROVE ResolverInv'
  <2>1. now' = now /\ accessSeq' = accessSeq /\ Kept
    BY <1>8 DEF SendQuery
  <2>2. clash' \in BOOLEAN /\ (~clash' => ~clash)
    BY <1>1, <1>8 DEF SendQuery
  <2>3. ASSUME ~clash' PROVE \E own : Owned(own)'
    BY <1>2, <1>8, <2>2, <2>3, OwnedQuery
  <2> QED  BY <1>1, <1>3, <2>1, <2>2, <2>3 DEF ResolverInv
<1>9. ASSUME NEW p \in Resolvers,
             \/ GiveUp(p) \/ DispatchFrame(p) \/ CheckResponse(p) \/ ArpResolve(p) \/ ArpPoll(p)
             \/ \E frame \in wire, again \in BOOLEAN : ReceiveFrame(p, frame, again)
      PROVE  ResolverInv'
  <2>1. now' = now /\ accessSeq' = accessSeq /\ clash' = clash /\ Kept
    BY <1>9 DEF GiveUp, DispatchFrame, CheckResponse, ArpResolve, ArpPoll, ReceiveFrame
  <2>2. ASSUME ~clash PROVE \E own : Owned(own)'
    BY <1>2, <1>9, <2>2, OwnedDone, OwnedDispatch, OwnedCheck, OwnedArp, OwnedPoll, OwnedFrame
  <2> QED  BY <1>1, <1>3, <2>1, <2>2 DEF ResolverInv
<1> HIDE DEF Kept
<1> QED  BY <1>4, <1>5, <1>6, <1>7, <1>8, <1>9 DEF ResolverNext

(* For any number of resolutions, names and cache entries, dns_resolve     *)
(* returns addresses of the name asked for until next_txn_id repeats an    *)
(* identifier, whatever frames are lost, delayed, repeated or reordered.   *)
THEOREM ResolvedRightEver == ResolverSpec => []ResolvedRight
<1>1. ResolverInv => ResolvedRight
  BY DEF ResolverInv, ResolvedRight, RightAnswer
<1> QED  BY <1>1, ResolverStart, ResolverStep, PTL DEF ResolverSpec
=============================================================================
