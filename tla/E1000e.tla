------------------------------- MODULE E1000e -------------------------------
(***************************************************************************)
(* The descriptor rings of the Ethernet driver (kernel/src/drivers/        *)
(* e1000e.rs) between the network stack, which holds the ACTIVE_NIC lock,  *)
(* and the device, which takes steps of its own at any time.  The device   *)
(* is external: it works on the descriptors from its head up to the tail   *)
(* that the driver has written, and finds nothing to do when they are      *)
(* equal.                                                                  *)
(***************************************************************************)
EXTENDS Naturals, Sequences

CONSTANTS
  TxRing, RxRing,  \* TX_RING_SIZE, RX_RING_SIZE
  DmaBlocks,       \* the DMA buffers that init_from_pci asks for
  MaxPackets       \* bound: packets in each direction

ASSUME NicAssumption == TxRing \in Nat \ {0} /\ RxRing \in Nat \ {0, 1}

VARIABLES
  up, dma,                       \* initialized; DMA buffers taken
  tx, tx_tail, tdh, tdt,         \* transmit descriptors, driver's tail; device's head and tail
  rx, rx_head_sw, rdh, rdt,      \* receive descriptors, driver's head; device's head and tail
  polled,                        \* a frame is copied and not yet recycled
  link_up, link, icr,            \* what the driver knows of the link, the link, interrupt causes
  queued, wire, arrived, taken   \* history: packets accepted, sent, received, handed to the stack

e1000e == <<up, dma, tx, tx_tail, tdh, tdt, rx, rx_head_sw, rdh, rdt, polled, link_up, link, icr, queued, wire, arrived, taken>>
driverTx == <<tx, tx_tail, tdt, queued>>
driverRx == <<rx_head_sw, polled, taken>>
history == <<queued, wire, arrived, taken>>

Slots(n) == 0 .. n - 1

(* init_from_pci: four DMA buffers; the ones taken before a failure stay    *)
(* taken.  All transmit descriptors are done, all but one of the receive    *)
(* descriptors belong to the device.                                        *)
NicInit ==
  /\ dma \in 0 .. DmaBlocks
  /\ up = (dma = DmaBlocks)
  /\ tx = [i \in Slots(TxRing) |-> [dd |-> TRUE, buf |-> 0]] /\ tx_tail = 0 /\ tdh = 0 /\ tdt = 0
  /\ rx = [i \in Slots(RxRing) |-> [dd |-> FALSE, buf |-> 0]] /\ rx_head_sw = 0 /\ rdh = 0 /\ rdt = RxRing - 1
  /\ polled = FALSE /\ link_up \in BOOLEAN /\ link = link_up /\ icr = {}
  /\ queued = 0 /\ wire = << >> /\ arrived = << >> /\ taken = << >>

(* send_packet: the descriptor at the tail must be done. *)
Available(idx) == tx[idx].dd
SendPacket ==
  /\ up /\ queued < MaxPackets
  /\ Available(tx_tail)
  /\ tx' = [tx EXCEPT ![tx_tail] = [dd |-> FALSE, buf |-> queued + 1]]
  /\ tx_tail' = (tx_tail + 1) % TxRing
  /\ tdt' = (tx_tail + 1) % TxRing
  /\ queued' = queued + 1
  /\ UNCHANGED <<up, dma, tdh, wire, rx, rdh, rdt, driverRx, link_up, link, icr, arrived>>

(* poll_rx: the descriptor at the software head is copied out by            *)
(* nic_receive_one ...                                                      *)
PollRx ==
  /\ up /\ ~polled /\ rx[rx_head_sw].dd
  /\ taken' = Append(taken, rx[rx_head_sw].buf)
  /\ rx_head_sw' = (rx_head_sw + 1) % RxRing
  /\ polled' = TRUE
  /\ UNCHANGED <<up, dma, driverTx, tdh, wire, rx, rdh, rdt, link_up, link, icr, arrived>>

(* ... and recycle_rx gives the one before the head back to the device. *)
RecycledAtHead == rx_head_sw
Recycled == IF rx_head_sw = 0 THEN RxRing - 1 ELSE rx_head_sw - 1
RecycleRx ==
  /\ polled
  /\ rx' = [rx EXCEPT ![Recycled].dd = FALSE]
  /\ rdt' = Recycled
  /\ polled' = FALSE
  /\ UNCHANGED <<up, dma, driverTx, tdh, wire, rdh, rx_head_sw, taken, link_up, link, icr, arrived>>

(* handle_irq: reading the causes clears them. *)
HandleIrq ==
  /\ up /\ icr # {}
  /\ link_up' = IF "LSC" \in icr THEN link ELSE link_up
  /\ icr' = {}
  /\ UNCHANGED <<up, dma, driverTx, tdh, wire, rx, rdh, rdt, driverRx, link, arrived>>

-----------------------------------------------------------------------------
DeviceSends ==
  /\ up /\ tdh # tdt
  /\ wire' = Append(wire, tx[tdh].buf)
  /\ tx' = [tx EXCEPT ![tdh].dd = TRUE]
  /\ tdh' = (tdh + 1) % TxRing
  /\ icr' = icr \cup {"TXDW"}
  /\ UNCHANGED <<up, dma, tx_tail, tdt, queued, rx, rdh, rdt, driverRx, link_up, link, arrived>>

(* Without a descriptor the device drops what it receives. *)
DeviceReceives ==
  /\ up /\ rdh # rdt /\ Len(arrived) < MaxPackets
  /\ arrived' = Append(arrived, Len(arrived) + 1)
  /\ rx' = [rx EXCEPT ![rdh] = [dd |-> TRUE, buf |-> Len(arrived) + 1]]
  /\ rdh' = (rdh + 1) % RxRing
  /\ icr' = icr \cup {"RXT0"}
  /\ UNCHANGED <<up, dma, driverTx, tdh, wire, rdt, driverRx, link_up, link>>

LinkChanges ==
  /\ up /\ "LSC" \notin icr
  /\ link' = ~link
  /\ icr' = icr \cup {"LSC"}
  /\ UNCHANGED <<up, dma, driverTx, tdh, wire, rx, rdh, rdt, driverRx, link_up, arrived>>

NicNext == SendPacket \/ PollRx \/ RecycleRx \/ HandleIrq \/ DeviceSends \/ DeviceReceives \/ LinkChanges

NicSpec == NicInit /\ [][NicNext]_e1000e
-----------------------------------------------------------------------------
(* Across wrap-arounds of both rings no packet overtakes another or is      *)
(* doubled or overwritten: the wire carries a first part of what            *)
(* send_packet accepted, the stack gets a first part of what the device     *)
(* received, and what it has not got is still in a descriptor.  That        *)
(* packets leave in the end is not said: once the transmit ring is full,    *)
(* tail is at head, the device finds nothing to send, and send_packet       *)
(* refuses every further packet, so that none ever does.                    *)
PacketsInOrder ==
  /\ wire = [i \in 1 .. Len(wire) |-> i] /\ Len(wire) <= queued
  /\ taken = SubSeq(arrived, 1, Len(taken)) /\ Len(taken) <= Len(arrived)
  /\ \A n \in Len(taken) + 1 .. Len(arrived) :
       \E i \in Slots(RxRing) : rx[i].dd /\ rx[i].buf = n

=============================================================================
