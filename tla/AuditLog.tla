------------------------------ MODULE AuditLog ------------------------------
(***************************************************************************)
(* The hash-chained audit log of the bus (kernel/src/bus/audit.rs): a ring *)
(* that overwrites its oldest entry, and the check of the chain that is    *)
(* left.  A hash is taken to be free of collisions: it is what was hashed. *)
(***************************************************************************)
EXTENDS Integers, Sequences

CONSTANTS
  Events,      \* what an entry records
  Capacity,    \* AUDIT_CAPACITY
  MaxAppends   \* bound: entries ever written

ASSUME RingAssumption == Capacity \in Nat \ {0}

VARIABLES entries, write_pos, total_count, prev_hash

auditVars == <<entries, write_pos, total_count, prev_hash>>

RingSlots == 0 .. Capacity - 1
NoEntry == [vacant |-> TRUE]

(* hashable_bytes and the two fields hashed after them. *)
HashOf(sequence, event, prev) == Append(prev, <<sequence, event>>)

AuditInit ==
  /\ entries = [i \in RingSlots |-> NoEntry]
  /\ write_pos = 0 /\ total_count = 0 /\ prev_hash = << >>

AppendEvent(event) ==
  LET entry == [sequence |-> total_count, event |-> event, prev_hash |-> prev_hash,
                hash |-> HashOf(total_count, event, prev_hash)]
  IN  /\ total_count < MaxAppends
      /\ entries' = [entries EXCEPT ![write_pos] = entry]
      /\ prev_hash' = entry.hash
      /\ write_pos' = (write_pos + 1) % Capacity
      /\ total_count' = total_count + 1

ClearLog ==
  /\ entries' = [i \in RingSlots |-> NoEntry]
  /\ write_pos' = 0 /\ total_count' = 0 /\ prev_hash' = << >>

AuditNext == (\E e \in Events : AppendEvent(e)) \/ ClearLog

AuditSpec == AuditInit /\ [][AuditNext]_auditVars
-----------------------------------------------------------------------------
RingCount == IF total_count <= Capacity THEN total_count ELSE Capacity

(* Where verify_chain starts: the oldest entry, about to be overwritten.    *)
StartZero == 0
Start == IF total_count <= Capacity THEN 0 ELSE write_pos

(* The slot that verify_chain visits in round i. *)
Visited(i) == (Start + i) % Capacity
Rounds == 0 .. RingCount - 1

(* verify_chain passes over empty slots.  The hash of each entry is         *)
(* recomputed, and each names the hash of the entry visited before it; of   *)
(* the first one the predecessor is trusted.                                *)
HashRight(entry) == entry.hash = HashOf(entry.sequence, entry.event, entry.prev_hash)
VerifyChain(ring) ==
  /\ \A i \in Rounds : ring[Visited(i)] # NoEntry => HashRight(ring[Visited(i)])
  /\ \A i, j \in Rounds :
       /\ i < j /\ ring[Visited(i)] # NoEntry /\ ring[Visited(j)] # NoEntry
       /\ \A k \in Rounds : i < k /\ k < j => ring[Visited(k)] = NoEntry
       => ring[Visited(j)].prev_hash = ring[Visited(i)].hash

(* After any number of wrap-arounds the log verifies, and damage done to it *)
(* does not go unnoticed: an entry that records another event, one moved    *)
(* over another, or one erased anywhere but at the two ends.                *)
TamperingShows ==
  /\ VerifyChain(entries)
  /\ \A i \in RingSlots : entries[i] # NoEntry =>
       /\ \A e \in Events \ {entries[i].event} : ~VerifyChain([entries EXCEPT ![i].event = e])
       /\ \A j \in RingSlots \ {i} : entries[j] # NoEntry => ~VerifyChain([entries EXCEPT ![i] = entries[j]])
       /\ entries[i].sequence > total_count - RingCount /\ entries[i].sequence < total_count - 1
            => ~VerifyChain([entries EXCEPT ![i] = NoEntry])
=============================================================================
