----------------------------- MODULE BoundedMap -----------------------------
(***************************************************************************)
(* What a FixedMap promises to the capability store and its trackers: a    *)
(* map with at most Limit entries.  out is what the last call returned.    *)
(***************************************************************************)
EXTENDS Integers, FiniteSets

CONSTANTS Keys, Values, Limit, None

VARIABLES map, out

Put(k, v) == [x \in DOMAIN map \cup {k} |-> IF x = k THEN v ELSE map[x]]

Lookup(k) == IF k \in DOMAIN map THEN map[k] ELSE None

HasRoom(k) == k \in DOMAIN map \/ Cardinality(DOMAIN map) < Limit

Init == map = [x \in {} |-> None] /\ out = None

Insert(k, v) ==
  /\ map' = IF HasRoom(k) THEN Put(k, v) ELSE map
  /\ out' = IF HasRoom(k) THEN "ok" ELSE "full"

Get(k) == out' = Lookup(k) /\ UNCHANGED map

Remove(k) ==
  /\ map' = [x \in DOMAIN map \ {k} |-> map[x]]
  /\ out' = Lookup(k)

GetOrInsert(k, v) ==
  /\ map' = IF HasRoom(k) /\ k \notin DOMAIN map THEN Put(k, v) ELSE map
  /\ out' = IF k \in DOMAIN map THEN map[k] ELSE IF HasRoom(k) THEN v ELSE "panic"

Clear == map' = [x \in {} |-> None] /\ out' = None

Next ==
  \/ \E k \in Keys, v \in Values : Insert(k, v) \/ GetOrInsert(k, v)
  \/ \E k \in Keys : Get(k) \/ Remove(k)
  \/ Clear

Spec == Init /\ [][Next]_<<map, out>>
=============================================================================
