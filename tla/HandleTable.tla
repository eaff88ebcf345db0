----------------------------- MODULE HandleTable -----------------------------
(***************************************************************************)
(* The handle table of a process (kernel/src/handle/table.rs): a slab of   *)
(* slots with generation counters, together with every handle it has given *)
(* out.  A handle is the pair of a slot and a generation that the code     *)
(* packs into 64 bits.                                                     *)
(***************************************************************************)
EXTENDS Integers, Sequences, FiniteSets, FiniteSetsExt

CONSTANTS
  MaxHandles,     \* MAX_HANDLES
  Generations,    \* 2^16: generations wrap around here
  Caps,           \* capability ids, none of them 0
  MaxIssued       \* bound: handles given out

VARIABLES
  entries,  \* slot -> [cap_id, active, generation]
  count,    \* number of active slots
  issued    \* the handles given out: number -> [slot, generation, cap, released, cleared],
            \* released counts the releases of the slot since

handleVars == <<entries, count, issued>>

Slots == 0 .. MaxHandles - 1
Empty == [cap_id |-> 0, active |-> FALSE, generation |-> 0]

HandlesInit ==
  /\ entries = [s \in Slots |-> Empty]
  /\ count = 0
  /\ issued = << >>

(* alloc takes the first slot that is not active. *)
Alloc(cap_id) ==
  LET idle == {s \in Slots : ~entries[s].active}
      slot == Min(idle)
  IN  /\ Len(issued) < MaxIssued
      /\ \/ /\ idle = {}
            /\ UNCHANGED handleVars
         \/ /\ idle # {}
            /\ entries' = [entries EXCEPT ![slot].cap_id = cap_id, ![slot].active = TRUE]
            /\ count' = count + 1
            /\ issued' = Append(issued, [slot |-> slot, generation |-> entries[slot].generation,
                                         cap |-> cap_id, released |-> 0, cleared |-> FALSE])

(* The checks that resolve and release share. *)
Accepts(handle) ==
  /\ entries[handle.slot].active
  /\ entries[handle.slot].generation = handle.generation

Resolve(handle) == IF Accepts(handle) THEN entries[handle.slot].cap_id ELSE 0

BumpNothing(generation) == generation
Bump(generation) == (generation + 1) % Generations

Release(handle) ==
  \/ /\ ~Accepts(handle)
     /\ UNCHANGED handleVars
  \/ /\ Accepts(handle)
     /\ entries' = [entries EXCEPT ![handle.slot] =
                      [cap_id |-> 0, active |-> FALSE, generation |-> Bump(handle.generation)]]
     /\ count' = count - 1
     /\ issued' = [i \in DOMAIN issued |->
                     IF issued[i].slot = handle.slot
                     THEN [issued[i] EXCEPT !.released = @ + 1] ELSE issued[i]]

(* clear, which reset_for_restart calls: the generations start over. *)
ClearHandles ==
  /\ entries' = [s \in Slots |-> Empty]
  /\ count' = 0
  /\ issued' = [i \in DOMAIN issued |-> [issued[i] EXCEPT !.cleared = TRUE]]

(* A process may present any handle it was ever given. *)
HandlesNext ==
  \/ \E c \in Caps : Alloc(c)
  \/ \E i \in DOMAIN issued : Release(issued[i])
  \/ ClearHandles

HandlesSpec == HandlesInit /\ [][HandlesNext]_handleVars
-----------------------------------------------------------------------------
(* Properties *)

(* Type invariant.  The counter counts the active slots. *)
HandlesTyped ==
  /\ entries \in [Slots -> [cap_id: Caps \cup {0}, active: BOOLEAN,
                            generation: 0 .. Generations - 1]]
  /\ count = Cardinality({s \in Slots : entries[s].active})

HandleSound(handle) ==
  IF handle.released = 0 /\ ~handle.cleared THEN Resolve(handle) = handle.cap
  ELSE ~Accepts(handle)

(* A handle resolves to the capability it was given out for until its      *)
(* release, and to nothing from then on, as long as the process was not    *)
(* restarted since and its slot was released fewer times than there are    *)
(* generations; the table is well typed and counts its active slots.       *)
HandlesFaithful ==
  /\ HandlesTyped
  /\ \A i \in DOMAIN issued :
       ~issued[i].cleared /\ issued[i].released < Generations => HandleSound(issued[i])
=============================================================================
