------------------------------ MODULE FixedMap ------------------------------
(***************************************************************************)
(* The hash table under the capability store: kernel/src/capability/       *)
(* slab.rs.  Open addressing with linear probing over Capacity slots and   *)
(* backward-shift deletion, no tombstones.  The hash of a key is an        *)
(* arbitrary slot: fib_hash at the real capacity spreads consecutive ids,  *)
(* and what must hold whatever it does is checked for every choice.        *)
(***************************************************************************)
EXTENDS Integers, FiniteSets

CONSTANTS
  Keys,
  Values,
  Capacity,  \* DEFAULT_CAPACITY, a power of two
  Homes,     \* the slots the hash may yield
  Nothing

VARIABLES
  slots,  \* [0 .. Capacity - 1 -> entry or Nothing]; all Nothing until first use
  len,
  hash,   \* fib_hash, fixed for the life of the map
  out     \* what the last call returned

mapVars == <<slots, len, hash, out>>

Index == 0 .. Capacity - 1
Entry == [key: Keys, val: Values]
(* A load factor of one. *)
LimitWhole == Capacity
Limit == (Capacity * 3) \div 4

At(i) == i % Capacity

MapInit ==
  /\ slots = [i \in Index |-> Nothing]
  /\ len = 0
  /\ hash \in [Keys -> Homes]
  /\ out = Nothing

(* The probe distances at which a search for k stops: an empty slot or k.  *)
Stops(k) ==
  {d \in Index : LET s == slots[At(hash[k] + d)] IN s = Nothing \/ s.key = k}

(* The slot a probe for k ends in.  Without a stop the loop of the code    *)
(* runs for ever; ProbeStops says there always is one.                     *)
Probe(k) == At(hash[k] + CHOOSE d \in Stops(k) : \A e \in Stops(k) : d <= e)

Get(k) ==
  /\ out' = IF slots[Probe(k)] = Nothing THEN Nothing ELSE slots[Probe(k)].val
  /\ UNCHANGED <<slots, len, hash>>

MapInsert(k, v) ==
  LET i == Probe(k)
  IN  /\ \/ /\ slots[i] = Nothing /\ len >= Limit
            /\ out' = "full"
            /\ UNCHANGED <<slots, len>>
         \/ /\ slots[i] = Nothing /\ len < Limit
            /\ slots' = [slots EXCEPT ![i] = [key |-> k, val |-> v]]
            /\ len' = len + 1
            /\ out' = "ok"
         \/ /\ slots[i] # Nothing
            /\ slots' = [slots EXCEPT ![i] = [key |-> k, val |-> v]]
            /\ out' = "ok"
            /\ UNCHANGED len
      /\ UNCHANGED hash

(* get_or_insert: the insert of an absent key, then the expect. *)
GetOrInsert(k, default) ==
  LET i == Probe(k)
  IN  /\ \/ /\ slots[i] # Nothing
            /\ out' = slots[i].val
            /\ UNCHANGED <<slots, len>>
         \/ /\ slots[i] = Nothing /\ len >= Limit
            /\ out' = "panic"
            /\ UNCHANGED <<slots, len>>
         \/ /\ slots[i] = Nothing /\ len < Limit
            /\ slots' = [slots EXCEPT ![i] = [key |-> k, val |-> default]]
            /\ len' = len + 1
            /\ out' = default
      /\ UNCHANGED hash

(* Whether the entry at scan, with home natural, may fill the gap. *)
ShouldMove(natural, empty, scan) ==
  IF natural <= scan THEN empty >= natural /\ empty < scan
                     ELSE empty >= natural \/ empty < scan

(* A removal that leaves the gap. *)
LeaveGap(table, idx) == table

(* The entry at scan goes to the empty slot. *)
Moved(table, empty, scan) == [table EXCEPT ![empty] = table[scan], ![scan] = Nothing]

(* One turn of the loop that fills the gap: the entry at scan moves into   *)
(* it, or stays, or there is none and the loop is done.                    *)
ShiftStep(p, scan) ==
  IF p.done \/ p.tab[scan] = Nothing THEN [p EXCEPT !.done = TRUE]
  ELSE IF ShouldMove(hash[p.tab[scan].key], p.empty, scan)
  THEN [tab |-> Moved(p.tab, p.empty, scan), empty |-> scan, done |-> FALSE]
  ELSE p

(* The table after the gap at idx has been filled: the scan moves on from  *)
(* idx one slot at a time until it meets an empty slot.                    *)
BackwardShift(table, idx) ==
  LET st[i \in Index] ==
        IF i = 0 THEN [tab |-> table, empty |-> idx, done |-> FALSE]
        ELSE ShiftStep(st[i - 1], At(idx + i))
  IN  st[Capacity - 1].tab

MapRemove(k) ==
  LET i == Probe(k)
  IN  /\ \/ /\ slots[i] = Nothing
            /\ out' = Nothing
            /\ UNCHANGED <<slots, len>>
         \/ /\ slots[i] # Nothing
            /\ out' = slots[i].val
            /\ len' = len - 1
            /\ slots' = BackwardShift([slots EXCEPT ![i] = Nothing], i)
      /\ UNCHANGED hash

ClearMap ==
  /\ slots' = [i \in Index |-> Nothing]
  /\ len' = 0
  /\ out' = Nothing
  /\ UNCHANGED hash

MapNext ==
  \/ \E k \in Keys, v \in Values : MapInsert(k, v) \/ GetOrInsert(k, v)
  \/ \E k \in Keys : Get(k) \/ MapRemove(k)
  \/ ClearMap

MapSpec == MapInit /\ [][MapNext]_mapVars
-----------------------------------------------------------------------------
Occupied == {i \in Index : slots[i] # Nothing}

MapTyped ==
  /\ slots \in [Index -> Entry \cup {Nothing}]
  /\ len \in Nat
  /\ hash \in [Keys -> Homes]

(* Every probe stops: insert keeps a quarter of the slots empty, so the    *)
(* unbounded loops of get, insert and remove end; len counts the entries.  *)
ProbeStops ==
  /\ MapTyped
  /\ len = Cardinality(Occupied) /\ 4 * len <= 3 * Capacity
  /\ \A k \in Keys : Stops(k) # {}

(* The layout that backward-shift deletion must preserve: no slot between  *)
(* the home of an entry and the entry itself is empty, and no key occurs   *)
(* twice.                                                                  *)
ProbePathsFull ==
  \A i \in Occupied :
    /\ \A d \in Index : At(hash[slots[i].key] + d) = i =>
         \A e \in 0 .. d : slots[At(hash[slots[i].key] + e)] # Nothing
    /\ \A j \in Occupied : slots[i].key = slots[j].key => i = j

(* The loops end and find what is there.                                   *)
SearchSound == ProbeStops /\ ProbePathsFull

(* The table implements the map it replaces: each call changes the set of  *)
(* entries and returns what the map would.                                 *)
Contents ==
  [k \in {slots[i].key : i \in Occupied} |->
     slots[CHOOSE i \in Occupied : slots[i].key = k].val]

Abstract == INSTANCE BoundedMap WITH map <- Contents, None <- Nothing

ImplementsMap == Abstract!Spec
=============================================================================
