----------------------------- MODULE VirtioNet -----------------------------
(***************************************************************************)
(* The virtio network card: split virtqueues (kernel/src/virtio/mod.rs),   *)
(* the driver on top of them (virtio/net.rs) and the adapter that the      *)
(* network stack calls under the ACTIVE_NIC lock (network/virtio_nic_      *)
(* adapter.rs).  The device is external: it takes the entries of the       *)
(* available ring in order, at any time, gives them back through the used  *)
(* ring in the same order, and receives nothing more once the rings it     *)
(* receives by are overwritten.                                            *)
(***************************************************************************)
EXTENDS Naturals, Sequences, FiniteSets

CONSTANTS
  Size,        \* descriptors of a queue
  Wrap,        \* values of a ring index: 2^16, a multiple of Size
  Frames,      \* page frames there are
  MaxPackets   \* bound: packets in each direction

VARIABLES
  up,                            \* DRIVER_OK
  free,                          \* page frames left
  memory,                        \* frame -> packet written to it, 0 for none
  rxq, txq,                      \* Virtqueue and the rings it points to
  rx_buffers,                    \* descriptor -> frame
  last_rx_desc, has_pending_rx,  \* VirtioNicAdapter
  rxDone, txDone, broken,        \* device: available entries used up; the rings to receive by are overwritten
  queued, wire, arrived, taken,  \* history: packets accepted, sent, received, handed to the stack
  polled                         \* history: descriptor of the frame last polled

virtio == <<up, free, memory, rxq, txq, rx_buffers, last_rx_desc, has_pending_rx, rxDone, txDone, broken,
            queued, wire, arrived, taken, polled>>
device == <<rxDone, txDone, broken>>
history == <<queued, wire, arrived, taken, polled>>

Descs == 0 .. Size - 1
Smallest(s) == CHOOSE x \in s : \A y \in s : x <= y

(* Virtqueue::new: all descriptors are chained into the free list.          *)
NewQueue ==
  [next |-> [d \in Descs |-> IF d + 1 < Size THEN d + 1 ELSE 0], addr |-> [d \in Descs |-> 0],
   free_head |-> 0, num_free |-> Size,
   avail |-> [d \in Descs |-> 0], avail_idx |-> 0,
   used |-> [d \in Descs |-> 0], used_idx |-> 0, last_used_idx |-> 0]

(* alloc_desc and free_desc *)
CanAlloc(q) == q.num_free > 0
Alloc(q) == [q EXCEPT !.free_head = q.next[q.free_head], !.num_free = @ - 1]
Free(q, d) == [q EXCEPT !.next[d] = q.free_head, !.free_head = d, !.num_free = @ + 1]

(* The descriptor is filled in, and linked to nothing. *)
Fill(q, d, frame) == [q EXCEPT !.addr[d] = frame, !.next[d] = 0]

(* submit *)
Submit(q, head) == [q EXCEPT !.avail[q.avail_idx % Size] = head, !.avail_idx = (@ + 1) % Wrap]

(* poll_used *)
HasUsed(q) == q.last_used_idx # q.used_idx
UsedDesc(q) == q.used[q.last_used_idx % Size]
Polled(q) == [q EXCEPT !.last_used_idx = (@ + 1) % Wrap]

-----------------------------------------------------------------------------
Init ==
  /\ up = FALSE /\ free = Frames /\ memory = [f \in Frames |-> 0]
  /\ rxq = NewQueue /\ txq = NewQueue /\ rx_buffers = [d \in Descs |-> 0]
  /\ last_rx_desc = 0 /\ has_pending_rx = FALSE
  /\ rxDone = 0 /\ txDone = 0 /\ broken = FALSE
  /\ queued = 0 /\ wire = << >> /\ arrived = 0 /\ taken = << >> /\ polled = 0

(* VirtioNet::init gives one frame to each receive descriptor; frames taken *)
(* before there are none left stay taken.                                   *)
InitDevice ==
  /\ ~up /\ free = Frames
  /\ \E got \in {s \in SUBSET Frames : Cardinality(s) = IF Cardinality(Frames) < Size THEN Cardinality(Frames) ELSE Size} :
       /\ free' = Frames \ got
       /\ up' = (Cardinality(got) = Size)
       /\ LET frame(d) == CHOOSE f \in got : Cardinality({g \in got : g < f}) = d
              filled == [NewQueue EXCEPT !.addr = [d \in Descs |-> frame(d)], !.next = [d \in Descs |-> 0],
                                         !.num_free = 0, !.avail = [d \in Descs |-> d], !.avail_idx = Size % Wrap]
          IN  IF up' THEN rxq' = filled /\ rx_buffers' = [d \in Descs |-> frame(d)]
              ELSE UNCHANGED <<rxq, rx_buffers>>
  /\ UNCHANGED <<memory, txq, last_rx_desc, has_pending_rx, device, history>>

(* send_packet: a descriptor, then a frame; without one the descriptor goes *)
(* back.  Nothing takes them back once they are sent.                       *)
SendPacket ==
  /\ up /\ queued < MaxPackets /\ CanAlloc(txq)
  /\ LET d == txq.free_head IN
     IF free = {}
     THEN txq' = Free(Alloc(txq), d) /\ UNCHANGED <<free, memory, queued>>
     ELSE LET f == Smallest(free) IN
          /\ free' = free \ {f}
          /\ memory' = [memory EXCEPT ![f] = queued + 1]
          /\ txq' = Submit(Fill(Alloc(txq), d, f), d)
          /\ queued' = queued + 1
  /\ UNCHANGED <<up, rxq, rx_buffers, last_rx_desc, has_pending_rx, device, wire, arrived, taken, polled>>

(* nic_receive_one: poll_rx of the adapter, which takes the position in the *)
(* used ring for the descriptor, ...                                        *)
LastRxDesc(q) == (q.last_used_idx + Wrap - 1) % Wrap
PollRx ==
  /\ up /\ ~has_pending_rx /\ HasUsed(rxq)
  /\ taken' = Append(taken, memory[rx_buffers[UsedDesc(rxq)]])
  /\ polled' = UsedDesc(rxq)
  /\ rxq' = Polled(rxq)
  /\ last_rx_desc' = LastRxDesc(Polled(rxq))
  /\ has_pending_rx' = TRUE
  /\ UNCHANGED <<up, free, memory, txq, rx_buffers, device, queued, wire, arrived>>

(* ... and recycle_rx, which writes to what it takes for the descriptor and *)
(* submits it.  A position is never reduced to the size of the ring: from   *)
(* the first wrap-around on it is no descriptor, the length and the flags   *)
(* go into the available ring, which lies behind the table of descriptors,  *)
(* and a head that does not exist is submitted.                             *)
RecycleRx ==
  /\ has_pending_rx
  /\ rxq' = Submit(rxq, last_rx_desc)
  /\ has_pending_rx' = FALSE
  /\ broken' = (broken \/ last_rx_desc \notin Descs)
  /\ UNCHANGED <<up, free, memory, txq, rx_buffers, last_rx_desc, rxDone, txDone, history>>

-----------------------------------------------------------------------------
(* The device. *)
Use(q, done) == [q EXCEPT !.used[q.used_idx % Size] = q.avail[done % Size], !.used_idx = (@ + 1) % Wrap]

DeviceSends ==
  /\ up /\ txDone # txq.avail_idx
  /\ txDone' = (txDone + 1) % Wrap
  /\ wire' = Append(wire, memory[txq.addr[txq.avail[txDone % Size]]])
  /\ txq' = Use(txq, txDone)
  /\ UNCHANGED <<up, free, memory, rxq, rx_buffers, last_rx_desc, has_pending_rx, rxDone, broken, queued, arrived, taken, polled>>

DeviceReceives ==
  /\ up /\ ~broken /\ rxDone # rxq.avail_idx /\ arrived < MaxPackets
  /\ arrived' = arrived + 1
  /\ memory' = [memory EXCEPT ![rxq.addr[rxq.avail[rxDone % Size]]] = arrived + 1]
  /\ rxDone' = (rxDone + 1) % Wrap
  /\ rxq' = Use(rxq, rxDone)
  /\ UNCHANGED <<up, free, txq, rx_buffers, last_rx_desc, has_pending_rx, txDone, broken, queued, wire, taken, polled>>

Next == InitDevice \/ SendPacket \/ PollRx \/ RecycleRx \/ DeviceSends \/ DeviceReceives

Spec == Init /\ [][Next]_virtio
-----------------------------------------------------------------------------
(* Packets leave in the order in which send_packet accepted them and reach  *)
(* the stack in the order in which they arrived, none of them overwritten   *)
(* in its frame before it has been copied, also when descriptors or frames  *)
(* have run out; but the receive ring is used once: it is whole until the   *)
(* frame after the first Size ones is recycled, and never after.            *)
VirtioInOrder ==
  /\ wire = [i \in 1 .. Len(wire) |-> i] /\ Len(wire) <= queued
  /\ taken = [i \in 1 .. Len(taken) |-> i] /\ Len(taken) <= arrived
  /\ broken <=> Len(taken) > Size + (IF has_pending_rx THEN 1 ELSE 0)
=============================================================================
