---------------------------- MODULE DeviceProofs ----------------------------
(***************************************************************************)
(* Proofs about the hardware that the kernel drives: the ends of           *)
(* interrupts, and the rings of the Ethernet card for every size they may  *)
(* have.                                                                   *)
(***************************************************************************)
EXTENDS Interrupts, E1000e, SequenceTheorems, TLAPS

-----------------------------------------------------------------------------
(* Interrupts *)

(* What keeps the keyboard's vector the only one in service: all three     *)
(* vectors have one priority, so that none interrupts another, and no scan *)
(* code is requested before one was sent.                                  *)
IrqInv ==
  /\ pending \subseteq Vectors /\ keys \in Nat
  /\ KEYBOARD \in pending => keys > 0
  /\ ServiceEnds

LEMMA VectorsIs ==
  /\ TIMER \in Vectors /\ KEYBOARD \in Vectors /\ NIC \in Vectors
  /\ TIMER # KEYBOARD /\ TIMER # NIC /\ KEYBOARD # NIC
  /\ \A v \in Vectors : v \in Int /\ Class(v) = 2
<1>1. TIMER \in Vectors /\ KEYBOARD \in Vectors /\ NIC \in Vectors
  BY DEF Vectors
<1>2. TIMER # KEYBOARD /\ TIMER # NIC /\ KEYBOARD # NIC
  BY DEF TIMER, KEYBOARD, NIC
<1>3. Class(TIMER) = 2 /\ Class(KEYBOARD) = 2 /\ Class(NIC) = 2
  BY DEF Class, TIMER, KEYBOARD, NIC
<1>4. TIMER \in Int /\ KEYBOARD \in Int /\ NIC \in Int
  BY DEF TIMER, KEYBOARD, NIC
<1> QED  BY <1>1, <1>2, <1>3, <1>4 DEF Vectors

(* The end of an interrupt takes a vector off, never puts one on. *)
LEMMA EoiIs ==
  /\ \A s : SendEoi(s) \subseteq s
  /\ \A v \in Vectors : SendEoi({v}) = {}
<1>1. \A s : SendEoi(s) \subseteq s
  BY DEF SendEoi
<1>2. ASSUME NEW v \in Vectors PROVE SendEoi({v}) = {}
  <2>1. v \in Int
    BY VectorsIs
  <2>2. Max({v}) = v
    BY <2>1 DEF Max
  <2> QED  BY <2>2 DEF SendEoi
<1> QED  BY <1>1, <1>2

LEMMA IrqStep == IrqInv /\ [IrqNext]_interrupts => IrqInv'
<1> SUFFICES ASSUME IrqInv, [IrqNext]_interrupts PROVE IrqInv'
  OBVIOUS
<1>1. /\ pending \subseteq Vectors /\ keys \in Nat /\ (KEYBOARD \in pending => keys > 0)
      /\ inService \subseteq {KEYBOARD} /\ (keys = 0 => inService = {}) /\ (scancode => KEYBOARD \in pending)
  BY DEF IrqInv, ServiceEnds
<1>2. CASE StartTimer
  <2>1. /\ inService' \subseteq inService
        /\ UNCHANGED <<pending, keys, scancode>>
    BY <1>2, EoiIs DEF StartTimer
  <2> QED  BY <1>1, <2>1 DEF IrqInv, ServiceEnds
<1>3. CASE TimerExpires
  <2>1. pending' = pending \cup {TIMER} /\ UNCHANGED <<inService, keys, scancode>>
    BY <1>3 DEF TimerExpires
  <2> QED  BY <1>1, <2>1, VectorsIs DEF IrqInv, ServiceEnds
<1>4. CASE SendScancode
  <2>1. pending' = pending \cup {KEYBOARD} /\ keys' = keys + 1 /\ UNCHANGED inService
    BY <1>4 DEF SendScancode
  <2>2. keys' \in Nat /\ keys' > 0 /\ keys' # 0
    BY <1>1, <2>1
  <2> QED  BY <1>1, <2>1, <2>2, VectorsIs DEF IrqInv, ServiceEnds
<1>5. CASE AssertLine
  <2>1. pending' = pending \cup {NIC} /\ UNCHANGED <<inService, keys, scancode>>
    BY <1>5 DEF AssertLine
  <2> QED  BY <1>1, <2>1, VectorsIs DEF IrqInv, ServiceEnds
<1>6. CASE Kick
  <2>1. inService' \subseteq inService /\ UNCHANGED <<pending, keys, scancode>>
    BY <1>6, EoiIs DEF Kick
  <2> QED  BY <1>1, <2>1 DEF IrqInv, ServiceEnds
<1>7. ASSUME NEW v \in Vectors, Deliver(v) PROVE IrqInv'
  <2>1. v \in pending /\ pending' = pending \ {v} /\ \A s \in inService : Class(v) > Class(s)
    BY <1>7 DEF Deliver, MayInterrupt
  <2>2. inService = {}
    <3>1. KEYBOARD \notin inService
      BY <2>1, VectorsIs
    <3> QED  BY <1>1, <3>1
  <2>3. interrupt_dispatch(v, {v})
    <3>1. inService \cup {v} = {v}
      BY <2>2
    <3> QED  BY <1>7, <3>1 DEF Deliver
  <2>4. CASE v = KEYBOARD
    <3>1. KeyboardHandler({KEYBOARD})
      BY <2>3, <2>4, VectorsIs DEF interrupt_dispatch
    <3>2. ~scancode' /\ inService' = {KEYBOARD} /\ keys' = keys /\ keys > 0
      BY <1>1, <2>1, <2>4, <3>1 DEF KeyboardHandler
    <3> QED  BY <1>1, <2>1, <3>2 DEF IrqInv, ServiceEnds
  <2>5. CASE v # KEYBOARD
    <3>1. inService' = {} /\ UNCHANGED <<keys, scancode>>
      BY <2>3, <2>5, EoiIs DEF interrupt_dispatch, TimerHandler, NicHandler
    <3> QED  BY <1>1, <2>1, <2>5, <3>1 DEF IrqInv, ServiceEnds
  <2> QED  BY <2>4, <2>5
<1>8. ASSUME NEW l \in Locks, Take(l) \/ Release(l) PROVE IrqInv'
  <2>1. UNCHANGED <<pending, inService, keys, scancode>>
    BY <1>8 DEF Take, Release
  <2> QED  BY <1>1, <2>1 DEF IrqInv, ServiceEnds
<1>9. CASE UNCHANGED interrupts
  BY <1>1, <1>9 DEF IrqInv, ServiceEnds, interrupts
<1> QED  BY <1>2, <1>3, <1>4, <1>5, <1>6, <1>7, <1>8, <1>9 DEF IrqNext

(* Whatever the interrupted code has locked and however many keys are      *)
(* pressed, every handler but the keyboard's leaves no vector in service.  *)
THEOREM ServiceEndsEver == IrqSpec => []ServiceEnds
<1>1. IrqInit => IrqInv
  BY DEF IrqInit, IrqInv, ServiceEnds
<1>2. IrqInv => ServiceEnds
  BY DEF IrqInv
<1> QED  BY <1>1, <1>2, IrqStep, PTL DEF IrqSpec

-----------------------------------------------------------------------------
(* The rings of the Ethernet card *)

(* The place j steps behind h in a ring of n. *)
Around(n, h, j) == IF h + j < n THEN h + j ELSE h + j - n

(* Places are distinct, are all there are, and follow each other.          *)
RingOf(n, h) ==
  /\ \A j \in 0 .. n : Around(n, h, j) \in 0 .. n - 1
  /\ Around(n, h, 0) = h /\ Around(n, h, n) = h
  /\ \A i, j \in 0 .. n - 1 : Around(n, h, i) = Around(n, h, j) => i = j
  /\ \A j \in 0 .. n - 1 : (Around(n, h, j) + 1) % n = Around(n, h, j + 1)
  /\ \A j \in 0 .. n - 1 : Around(n, (h + 1) % n, j) = Around(n, h, j + 1)
  /\ Around(n, h, n - 1) = IF h = 0 THEN n - 1 ELSE h - 1

LEMMA RingPlaces ==
  ASSUME NEW n \in Nat \ {0}, NEW h \in 0 .. n - 1
  PROVE  RingOf(n, h)
<1>1. ASSUME NEW x \in 0 .. n - 1 PROVE (x + 1) % n = IF x + 1 = n THEN 0 ELSE x + 1
  <2>1. CASE x + 1 = n
    BY <2>1
  <2>2. CASE x + 1 # n
    <3>1. PICK y \in 0 .. n - 1 : y = x + 1
      BY <2>2
    <3> QED  BY <2>2, <3>1
  <2> QED  BY <2>1, <2>2
<1>2. \A j \in 0 .. n : Around(n, h, j) \in 0 .. n - 1
  BY DEF Around
<1>3. Around(n, h, 0) = h /\ Around(n, h, n) = h
  BY DEF Around
<1>4. \A i, j \in 0 .. n - 1 : Around(n, h, i) = Around(n, h, j) => i = j
  BY DEF Around
<1>6. ASSUME NEW j \in 0 .. n - 1 PROVE (Around(n, h, j) + 1) % n = Around(n, h, j + 1)
  <2>1. PICK x \in 0 .. n - 1 : x = Around(n, h, j)
    BY <1>2
  <2>2. Around(n, h, j + 1) = IF x + 1 = n THEN 0 ELSE x + 1
    BY <2>1 DEF Around
  <2> QED  BY <1>1, <2>1, <2>2
<1>7. ASSUME NEW j \in 0 .. n - 1 PROVE Around(n, (h + 1) % n, j) = Around(n, h, j + 1)
  <2>1. PICK g : g = (h + 1) % n /\ g = IF h + 1 = n THEN 0 ELSE h + 1
    BY <1>1
  <2>2. Around(n, g, j) = Around(n, h, j + 1)
    BY <2>1 DEF Around
  <2> QED  BY <2>1, <2>2
<1>8. Around(n, h, n - 1) = IF h = 0 THEN n - 1 ELSE h - 1
  BY DEF Around
<1> QED  BY <1>2, <1>3, <1>4, <1>6, <1>7, <1>8, Zenon DEF RingOf

LEMMA RingFacts ==
  ASSUME NEW n, NEW h, RingOf(n, h)
  PROVE  /\ \A j \in 0 .. n : Around(n, h, j) \in 0 .. n - 1
         /\ Around(n, h, 0) = h /\ Around(n, h, n) = h
         /\ \A i, j \in 0 .. n - 1 : Around(n, h, i) = Around(n, h, j) => i = j
  BY Zenon DEF RingOf

LEMMA RingNext ==
  ASSUME NEW n, NEW h, RingOf(n, h)
  PROVE  /\ \A j \in 0 .. n - 1 : (Around(n, h, j) + 1) % n = Around(n, h, j + 1)
         /\ \A j \in 0 .. n - 1 : Around(n, (h + 1) % n, j) = Around(n, h, j + 1)
         /\ Around(n, h, n - 1) = IF h = 0 THEN n - 1 ELSE h - 1
  BY Zenon DEF RingOf

(* The transmit ring: the descriptors from the device's head to the tail   *)
(* hold the packets that are not on the wire yet, all others are done.     *)
Descriptor == [dd: BOOLEAN, buf: Nat]
Waiting == queued - Len(wire)
TxPlace(j) == Around(TxRing, tdh, j)
TxInv ==
  /\ tx \in [Slots(TxRing) -> Descriptor] /\ tdh \in Slots(TxRing)
  /\ queued \in Nat /\ wire \in Seq(Nat) /\ \A i \in 1 .. Len(wire) : wire[i] = i
  /\ Waiting \in 0 .. TxRing
  /\ tx_tail = TxPlace(Waiting) /\ tdt = tx_tail
  /\ \A j \in Slots(TxRing) :
       IF j < Waiting THEN tx[TxPlace(j)] = [dd |-> FALSE, buf |-> Len(wire) + j + 1]
       ELSE tx[TxPlace(j)].dd

(* The receive ring: the descriptors from the software head to the         *)
(* device's head hold the frames that the stack has not taken; behind it   *)
(* only the one just copied, not yet given back, is still marked.          *)
Unread == Len(arrived) - Len(taken)
Kept == IF polled THEN 2 ELSE 1
RxPlace(j) == Around(RxRing, rx_head_sw, j)
RxInv ==
  /\ rx \in [Slots(RxRing) -> Descriptor] /\ rx_head_sw \in Slots(RxRing) /\ polled \in BOOLEAN
  /\ arrived \in Seq(Nat) /\ \A i \in 1 .. Len(arrived) : arrived[i] = i
  /\ taken \in Seq(Nat) /\ \A i \in 1 .. Len(taken) : taken[i] = i
  /\ Unread \in Nat /\ Unread + Kept <= RxRing
  /\ rdh = RxPlace(Unread) /\ rdt = RxPlace(RxRing - Kept)
  /\ \A j \in Slots(RxRing) :
       IF j < Unread THEN rx[RxPlace(j)] = [dd |-> TRUE, buf |-> Len(taken) + j + 1]
       ELSE rx[RxPlace(j)].dd => polled /\ j = RxRing - 1

(* A sequence of numbers goes on counting. *)
LEMMA CountOn ==
  ASSUME NEW s \in Seq(Nat), \A i \in 1 .. Len(s) : s[i] = i, NEW t, t = Append(s, Len(s) + 1)
  PROVE  t \in Seq(Nat) /\ Len(t) = Len(s) + 1 /\ \A i \in 1 .. Len(t) : t[i] = i
<1>1. Len(s) \in Nat
  BY LenProperties
<1>2. t \in Seq(Nat) /\ Len(t) = Len(s) + 1
  BY <1>1, AppendProperties
<1>3. ASSUME NEW i \in 1 .. Len(t) PROVE t[i] = i
  <2>1. CASE i = Len(s) + 1
    BY <1>1, <2>1, AppendProperties
  <2>2. CASE i # Len(s) + 1
    <3>1. i \in 1 .. Len(s)
      BY <1>1, <1>2, <2>2
    <3> QED  BY <3>1
  <2> QED  BY <2>1, <2>2
<1> QED  BY <1>2, <1>3

(* Marking a descriptor changes nothing else in it. *)
LEMMA Mark ==
  ASSUME NEW d \in Descriptor, NEW mark \in BOOLEAN
  PROVE  /\ [d EXCEPT !.dd = mark] = [dd |-> mark, buf |-> d.buf]
         /\ [d EXCEPT !.dd = mark] \in Descriptor
<1>1. [d EXCEPT !.dd = mark] = [dd |-> mark, buf |-> d.buf]
  BY DEF Descriptor
<1>2. [d EXCEPT !.dd = mark] \in Descriptor
  BY DEF Descriptor
<1> QED  BY <1>1, <1>2

LEMMA NicStart == NicInit => TxInv /\ RxInv
<1> SUFFICES ASSUME NicInit PROVE TxInv /\ RxInv
  OBVIOUS
<1>1. /\ TxRing \in Nat \ {0} /\ RxRing \in Nat \ {0, 1}
      /\ Slots(TxRing) = 0 .. TxRing - 1 /\ Slots(RxRing) = 0 .. RxRing - 1
  BY NicAssumption DEF Slots
<1>2. Len(<< >>) = 0 /\ << >> \in Seq(Nat)
  OBVIOUS
<1>3. 0 \in 0 .. TxRing - 1 /\ 0 \in 0 .. RxRing - 1
  BY <1>1
<1>4. /\ queued = 0 /\ wire = << >> /\ arrived = << >> /\ taken = << >> /\ ~polled
      /\ tdh = 0 /\ tx_tail = 0 /\ tdt = 0 /\ rx_head_sw = 0 /\ rdh = 0 /\ rdt = RxRing - 1
  BY Zenon DEF NicInit
<1>7. Waiting = 0 /\ Unread = 0 /\ Kept = 1
  <2>1. Len(wire) = 0 /\ Len(arrived) = 0 /\ Len(taken) = 0
    BY <1>2, <1>4
  <2>2. Waiting = 0 /\ Unread = 0
    <3>1. queued = 0
      BY <1>4
    <3> QED  BY <2>1, <3>1 DEF Waiting, Unread
  <2>3. Kept = 1
    BY <1>4, Zenon DEF Kept
  <2> QED  BY <2>2, <2>3
<1>8. /\ Around(TxRing, 0, 0) = 0 /\ \A j \in 0 .. TxRing - 1 : Around(TxRing, 0, j) \in 0 .. TxRing - 1
      /\ Around(RxRing, 0, 0) = 0 /\ \A j \in 0 .. RxRing - 1 : Around(RxRing, 0, j) \in 0 .. RxRing - 1
      /\ Around(RxRing, 0, RxRing - 1) = RxRing - 1
  BY <1>1 DEF Around
<1>5. TxInv
  <2>1. tdh = 0 /\ TxPlace(0) = 0 /\ \A j \in 0 .. TxRing - 1 : TxPlace(j) \in 0 .. TxRing - 1
    BY <1>4, <1>8 DEF TxPlace
  <2>2. tx \in [Slots(TxRing) -> Descriptor] /\ \A j \in Slots(TxRing) : tx[j].dd
    BY DEF NicInit, Descriptor
  <2>3. /\ queued \in Nat /\ wire \in Seq(Nat) /\ \A i \in 1 .. Len(wire) : wire[i] = i
        /\ tx_tail = 0 /\ tdt = 0
    BY <1>2, <1>4
  <2> QED  BY <1>1, <1>3, <1>4, <1>7, <2>1, <2>2, <2>3 DEF TxInv
<1>6. RxInv
  <2>1. /\ rx_head_sw = 0 /\ RxPlace(0) = 0 /\ \A j \in 0 .. RxRing - 1 : RxPlace(j) \in 0 .. RxRing - 1
        /\ RxPlace(RxRing - 1) = RxRing - 1
    BY <1>4, <1>8 DEF RxPlace
  <2>2. rx \in [Slots(RxRing) -> Descriptor] /\ \A j \in Slots(RxRing) : ~rx[j].dd
    BY DEF NicInit, Descriptor
  <2>3. /\ arrived \in Seq(Nat) /\ \A i \in 1 .. Len(arrived) : arrived[i] = i
        /\ taken \in Seq(Nat) /\ \A i \in 1 .. Len(taken) : taken[i] = i
        /\ rdh = 0 /\ rdt = RxRing - 1
    BY <1>2, <1>4
  <2>4. polled \in BOOLEAN
    BY DEF NicInit
  <2> QED  BY <1>1, <1>3, <1>4, <1>7, <2>1, <2>2, <2>3, <2>4 DEF RxInv
<1> QED  BY <1>5, <1>6

LEMMA TxLen == TxInv => Len(wire) \in Nat /\ queued = Len(wire) + Waiting
<1> SUFFICES ASSUME TxInv PROVE Len(wire) \in Nat /\ queued = Len(wire) + Waiting
  OBVIOUS
<1>1. wire \in Seq(Nat) /\ queued \in Nat
  BY DEF TxInv
<1>2. Len(wire) \in Nat
  BY <1>1, LenProperties
<1> QED  BY <1>1, <1>2 DEF Waiting

LEMMA TxSend == TxInv /\ SendPacket => TxInv'
<1> SUFFICES ASSUME TxInv, SendPacket PROVE TxInv'
  OBVIOUS
<1>1. PICK n \in Nat \ {0} : n = TxRing /\ Slots(n) = 0 .. n - 1
  BY NicAssumption DEF Slots
<1>2. PICK h \in 0 .. n - 1, k \in 0 .. n, s \in Nat : h = tdh /\ k = Waiting /\ s = Len(wire) /\ queued = s + k
  BY <1>1, TxLen DEF TxInv, Waiting
<1>3. /\ tx_tail = Around(n, h, k) /\ tx[Around(n, h, k)].dd
      /\ \A j \in 0 .. n - 1 : IF j < k THEN tx[Around(n, h, j)] = [dd |-> FALSE, buf |-> s + j + 1]
                               ELSE tx[Around(n, h, j)].dd
  BY <1>1, <1>2 DEF TxInv, TxPlace, SendPacket, Available
<1>15. RingOf(n, h)
  BY <1>1, <1>2, RingPlaces
<1>4. /\ \A j \in 0 .. n : Around(n, h, j) \in 0 .. n - 1
      /\ Around(n, h, 0) = h /\ Around(n, h, n) = h
      /\ \A i, j \in 0 .. n - 1 : Around(n, h, i) = Around(n, h, j) => i = j
  BY <1>15, RingFacts
<1>16. /\ \A j \in 0 .. n - 1 : (Around(n, h, j) + 1) % n = Around(n, h, j + 1)
       /\ \A j \in 0 .. n - 1 : Around(n, (h + 1) % n, j) = Around(n, h, j + 1)
  BY <1>15, RingNext
<1>5. k < n
  <2> SUFFICES ASSUME k = n PROVE FALSE
    OBVIOUS
  <2>1. 0 \in 0 .. n - 1 /\ 0 < k
    OBVIOUS
  <2>2. tx[h] = [dd |-> FALSE, buf |-> s + 0 + 1] /\ tx[h].dd
    BY <1>3, <1>4, <2>1
  <2> QED  BY <2>2
<1>17. k \in 0 .. n - 1
  BY <1>1, <1>2, <1>5
<1>6. PICK e \in Descriptor : e = [dd |-> FALSE, buf |-> queued + 1]
  <2>1. queued + 1 \in Nat
    BY <1>2
  <2>2. [dd |-> FALSE, buf |-> queued + 1] \in Descriptor
    BY <2>1 DEF Descriptor
  <2> QED  BY <2>2
<1>7. PICK p \in 0 .. n - 1 : p = Around(n, h, k) /\ p = tx_tail
  BY <1>3, <1>4
<1>8. /\ tx' = [tx EXCEPT ![p] = e] /\ tx_tail' = Around(n, h, k + 1) /\ tdt' = tx_tail'
      /\ queued' = s + (k + 1) /\ wire' = wire /\ tdh' = h /\ tx \in [0 .. n - 1 -> Descriptor]
  <2>1. /\ tx' = [tx EXCEPT ![tx_tail] = e] /\ tx_tail' = (tx_tail + 1) % TxRing
        /\ tdt' = (tx_tail + 1) % TxRing /\ queued' = queued + 1 /\ wire' = wire /\ tdh' = tdh
    BY <1>6 DEF SendPacket
  <2>2. (p + 1) % n = Around(n, h, k + 1)
    BY <1>7, <1>16, <1>17
  <2>3. tx \in [0 .. n - 1 -> Descriptor]
    BY <1>1 DEF TxInv
  <2> QED  BY <1>1, <1>2, <1>7, <2>1, <2>2, <2>3
<1>9. tx' \in [0 .. n - 1 -> Descriptor] /\ tx'[p] = e /\ \A q \in 0 .. n - 1 : q # p => tx'[q] = tx[q]
  BY <1>8
<1>10. Waiting' = k + 1
  BY <1>2, <1>8 DEF Waiting
<1>11. ASSUME NEW j \in 0 .. n - 1
       PROVE  IF j < k + 1 THEN tx'[Around(n, h, j)] = [dd |-> FALSE, buf |-> s + j + 1]
              ELSE tx'[Around(n, h, j)].dd
  <2>1. CASE j = k
    <3>1. j < k + 1 /\ queued + 1 = s + j + 1 /\ Around(n, h, j) = p
      <4>1. queued + 1 = s + j + 1 /\ j < k + 1
        BY <1>2, <2>1
      <4> QED  BY <1>7, <2>1, <4>1
    <3> QED  BY <1>6, <1>9, <3>1
  <2>2. CASE j # k
    <3>1. Around(n, h, j) # p /\ Around(n, h, j) \in 0 .. n - 1
      <4>1. Around(n, h, j) \in 0 .. n - 1
        BY <1>4
      <4>2. Around(n, h, j) # p
        BY <1>4, <1>7, <1>17, <2>2, Zenon
      <4> QED  BY <4>1, <4>2
    <3>2. tx'[Around(n, h, j)] = tx[Around(n, h, j)]
      BY <1>9, <3>1
    <3>3. j < k + 1 <=> j < k
      BY <2>2
    <3> QED  BY <1>3, <3>2, <3>3
  <2> QED  BY <2>1, <2>2
<1>12. wire \in Seq(Nat) /\ \A i \in 1 .. Len(wire) : wire[i] = i
  BY DEF TxInv
<1>13. k + 1 \in 0 .. n /\ s + (k + 1) \in Nat
  BY <1>5
<1> QED  BY <1>1, <1>2, <1>8, <1>9, <1>10, <1>11, <1>12, <1>13 DEF TxInv, TxPlace

LEMMA TxDevice == TxInv /\ DeviceSends => TxInv'
<1> SUFFICES ASSUME TxInv, DeviceSends PROVE TxInv'
  OBVIOUS
<1>1. PICK n \in Nat \ {0} : n = TxRing /\ Slots(n) = 0 .. n - 1
  BY NicAssumption DEF Slots
<1>2. PICK h \in 0 .. n - 1, k \in 0 .. n, s \in Nat : h = tdh /\ k = Waiting /\ s = Len(wire) /\ queued = s + k
  BY <1>1, TxLen DEF TxInv, Waiting
<1>3. /\ tx_tail = Around(n, h, k) /\ tdt = tx_tail /\ h # tdt
      /\ \A j \in 0 .. n - 1 : IF j < k THEN tx[Around(n, h, j)] = [dd |-> FALSE, buf |-> s + j + 1]
                               ELSE tx[Around(n, h, j)].dd
  BY <1>1, <1>2 DEF TxInv, TxPlace, DeviceSends
<1>15. RingOf(n, h)
  BY <1>1, <1>2, RingPlaces
<1>4. /\ \A j \in 0 .. n : Around(n, h, j) \in 0 .. n - 1
      /\ Around(n, h, 0) = h /\ Around(n, h, n) = h
      /\ \A i, j \in 0 .. n - 1 : Around(n, h, i) = Around(n, h, j) => i = j
  BY <1>15, RingFacts
<1>16. /\ \A j \in 0 .. n - 1 : (Around(n, h, j) + 1) % n = Around(n, h, j + 1)
       /\ \A j \in 0 .. n - 1 : Around(n, (h + 1) % n, j) = Around(n, h, j + 1)
  BY <1>15, RingNext
<1>5. k > 0 /\ k < n
  <2>1. h # Around(n, h, k) /\ Around(n, h, 0) = h /\ Around(n, h, n) = h
    BY <1>3, <1>4, Zenon
  <2>2. k # 0 /\ k # n
    BY <2>1, Zenon
  <2> QED  BY <1>2, <2>2
<1>6. tx[h] \in Descriptor /\ tx[h].buf = s + 1
  <2>1. 0 \in 0 .. n - 1 /\ 0 < k
    BY <1>5
  <2>2. tx[h] = [dd |-> FALSE, buf |-> s + 0 + 1]
    BY <1>3, <1>4, <2>1
  <2>3. s + 0 + 1 = s + 1 /\ s + 1 \in Nat
    OBVIOUS
  <2>4. tx \in [0 .. n - 1 -> Descriptor]
    BY <1>1 DEF TxInv
  <2>5. tx[h] \in Descriptor
    BY <1>2, <2>4
  <2> QED  BY <2>2, <2>3, <2>5
<1>7. PICK e \in Descriptor : e = [tx[h] EXCEPT !.dd = TRUE] /\ e.dd
  <2>1. /\ [tx[h] EXCEPT !.dd = TRUE] = [dd |-> TRUE, buf |-> tx[h].buf]
        /\ [tx[h] EXCEPT !.dd = TRUE] \in Descriptor
    BY <1>6, Mark
  <2>2. [dd |-> TRUE, buf |-> tx[h].buf].dd
    OBVIOUS
  <2> QED  BY <2>1, <2>2
<1>8. PICK g \in 0 .. n - 1 : g = (h + 1) % n /\ \A j \in 0 .. n - 1 : Around(n, g, j) = Around(n, h, j + 1)
  <2>1. (h + 1) % n \in 0 .. n - 1
    OBVIOUS
  <2> QED  BY <1>16, <2>1
<1>9. /\ tx' = [tx EXCEPT ![h] = e] /\ tx_tail' = tx_tail /\ tdt' = tdt /\ queued' = queued /\ tdh' = g
      /\ wire' = Append(wire, s + 1) /\ tx \in [0 .. n - 1 -> Descriptor]
      /\ wire \in Seq(Nat) /\ \A i \in 1 .. Len(wire) : wire[i] = i
  BY <1>1, <1>2, <1>6, <1>7, <1>8 DEF DeviceSends, TxInv
<1>10. tx' \in [0 .. n - 1 -> Descriptor] /\ tx'[h] = e /\ \A q \in 0 .. n - 1 : q # h => tx'[q] = tx[q]
  BY <1>9
<1>11. wire' \in Seq(Nat) /\ Len(wire') = s + 1 /\ \A i \in 1 .. Len(wire') : wire'[i] = i
  BY <1>2, <1>9, CountOn
<1>12. Waiting' = k - 1 /\ k - 1 \in 0 .. n - 1
  BY <1>2, <1>5, <1>9, <1>11 DEF Waiting
<1>13. tx_tail' = Around(n, g, k - 1)
  BY <1>3, <1>8, <1>9, <1>12
<1>14. ASSUME NEW j \in 0 .. n - 1
       PROVE  IF j < k - 1 THEN tx'[Around(n, g, j)] = [dd |-> FALSE, buf |-> (s + 1) + j + 1]
              ELSE tx'[Around(n, g, j)].dd
  <2>1. Around(n, g, j) = Around(n, h, j + 1)
    BY <1>8
  <2>2. CASE j + 1 = n
    <3>1. Around(n, g, j) = h /\ ~(j < k - 1)
      <4>1. Around(n, h, j + 1) = h
        BY <1>4, <2>2
      <4>2. ~(j < k - 1)
        BY <1>5, <2>2
      <4> QED  BY <2>1, <4>1, <4>2
    <3> QED  BY <1>7, <1>10, <3>1
  <2>3. CASE j + 1 # n
    <3>1. PICK i \in 0 .. n - 1 : i = j + 1
      BY <2>3
    <3>2. Around(n, h, i) # h /\ Around(n, h, i) \in 0 .. n - 1
      <4>1. 0 \in 0 .. n - 1 /\ i # 0
        BY <3>1
      <4> QED  BY <1>4, <4>1
    <3>3. tx'[Around(n, g, j)] = tx[Around(n, h, i)]
      BY <1>10, <2>1, <3>1, <3>2
    <3>4. (j < k - 1 <=> i < k) /\ (s + 1) + j + 1 = s + i + 1
      BY <3>1
    <3> QED  BY <1>3, <3>3, <3>4
  <2> QED  BY <2>2, <2>3
<1>17. queued' \in Nat /\ tdh' = g /\ tdt' = tx_tail' /\ k - 1 \in 0 .. n
  BY <1>2, <1>3, <1>9, <1>12
<1> QED  BY <1>1, <1>10, <1>11, <1>12, <1>13, <1>14, <1>17 DEF TxInv, TxPlace

LEMMA RxLen == RxInv => Len(taken) \in Nat /\ Unread \in Nat /\ Len(arrived) = Len(taken) + Unread
<1> SUFFICES ASSUME RxInv PROVE Len(taken) \in Nat /\ Unread \in Nat /\ Len(arrived) = Len(taken) + Unread
  OBVIOUS
<1>1. taken \in Seq(Nat) /\ arrived \in Seq(Nat) /\ Unread \in Nat
  BY DEF RxInv
<1>2. Len(taken) \in Nat /\ Len(arrived) \in Nat
  BY <1>1, LenProperties
<1> QED  BY <1>1, <1>2 DEF Unread

LEMMA RxPoll == RxInv /\ PollRx => RxInv'
<1> SUFFICES ASSUME RxInv, PollRx PROVE RxInv'
  OBVIOUS
<1>1. PICK n \in Nat \ {0, 1} : n = RxRing /\ Slots(n) = 0 .. n - 1
  BY NicAssumption DEF Slots
<1>2. PICK h \in 0 .. n - 1, u \in Nat, t \in Nat : h = rx_head_sw /\ u = Unread /\ t = Len(taken) /\ Len(arrived) = t + u
  BY <1>1, RxLen DEF RxInv
<1>3. /\ rdh = Around(n, h, u) /\ rdt = Around(n, h, n - Kept) /\ u + Kept <= n
      /\ \A j \in 0 .. n - 1 : IF j < u THEN rx[Around(n, h, j)] = [dd |-> TRUE, buf |-> t + j + 1]
                               ELSE rx[Around(n, h, j)].dd => polled /\ j = n - 1
  BY <1>1, <1>2 DEF RxInv, RxPlace
<1>4. RingOf(n, h)
  BY <1>1, <1>2, RingPlaces
<1>5. /\ \A j \in 0 .. n : Around(n, h, j) \in 0 .. n - 1
      /\ Around(n, h, 0) = h /\ Around(n, h, n) = h
      /\ \A i, j \in 0 .. n - 1 : Around(n, h, i) = Around(n, h, j) => i = j
  BY <1>4, RingFacts
<1>6. /\ \A j \in 0 .. n - 1 : (Around(n, h, j) + 1) % n = Around(n, h, j + 1)
      /\ \A j \in 0 .. n - 1 : Around(n, (h + 1) % n, j) = Around(n, h, j + 1)
      /\ Around(n, h, n - 1) = IF h = 0 THEN n - 1 ELSE h - 1
  BY <1>4, RingNext
<1>7. /\ rx \in [0 .. n - 1 -> Descriptor] /\ polled \in BOOLEAN
      /\ arrived \in Seq(Nat) /\ \A i \in 1 .. Len(arrived) : arrived[i] = i
      /\ taken \in Seq(Nat) /\ \A i \in 1 .. Len(taken) : taken[i] = i
  BY <1>1 DEF RxInv
<1>8. /\ ~polled /\ polled' = TRUE /\ rx[h].dd /\ taken' = Append(taken, rx[h].buf)
      /\ rx_head_sw' = (h + 1) % n /\ rx' = rx /\ rdh' = rdh /\ rdt' = rdt /\ arrived' = arrived
  BY <1>1, <1>2 DEF PollRx
<1>9. Kept = 1 /\ Kept' = 2
  BY <1>8, Zenon DEF Kept
<1>10. u > 0 /\ u + 1 <= n
  <2>1. 0 \in 0 .. n - 1
    OBVIOUS
  <2>2. 0 < u
    BY <1>3, <1>5, <1>8, <2>1
  <2> QED  BY <1>3, <1>9, <2>2
<1>11. rx[h].buf = t + 1
  <2>1. 0 \in 0 .. n - 1 /\ 0 < u /\ t + 0 + 1 = t + 1
    BY <1>10
  <2>2. rx[h] = [dd |-> TRUE, buf |-> t + 0 + 1]
    BY <1>3, <1>5, <2>1
  <2> QED  BY <2>1, <2>2
<1>12. taken' \in Seq(Nat) /\ Len(taken') = t + 1 /\ \A i \in 1 .. Len(taken') : taken'[i] = i
  BY <1>2, <1>7, <1>8, <1>11, CountOn
<1>13. Unread' = u - 1 /\ u - 1 \in Nat
  BY <1>2, <1>8, <1>10, <1>12 DEF Unread
<1>14. PICK g \in 0 .. n - 1 : g = (h + 1) % n /\ \A j \in 0 .. n - 1 : Around(n, g, j) = Around(n, h, j + 1)
  <2>1. (h + 1) % n \in 0 .. n - 1
    OBVIOUS
  <2> QED  BY <1>6, <2>1
<1>15. rdh' = Around(n, g, u - 1) /\ rdt' = Around(n, g, n - 2)
  <2>1. PICK a \in 0 .. n - 1, b \in 0 .. n - 1 : a = u - 1 /\ b = n - 2 /\ a + 1 = u /\ b + 1 = n - 1
    BY <1>10
  <2>2. rdh' = Around(n, h, a + 1) /\ rdt' = Around(n, h, b + 1)
    BY <1>3, <1>8, <1>9, <2>1
  <2> QED  BY <1>14, <2>1, <2>2
<1>16. ASSUME NEW j \in 0 .. n - 1
       PROVE  IF j < u - 1 THEN rx'[Around(n, g, j)] = [dd |-> TRUE, buf |-> (t + 1) + j + 1]
              ELSE rx'[Around(n, g, j)].dd => polled' /\ j = n - 1
  <2>1. Around(n, g, j) = Around(n, h, j + 1)
    BY <1>14
  <2>2. CASE j = n - 1
    <3>1. ~(j < u - 1)
      BY <1>10, <2>2
    <3> QED  BY <1>8, <2>2, <3>1
  <2>3. CASE j # n - 1
    <3>1. PICK i \in 0 .. n - 1 : i = j + 1
      BY <2>3
    <3>2. (j < u - 1 <=> i < u) /\ (t + 1) + j + 1 = t + i + 1
      BY <3>1
    <3>3. rx'[Around(n, g, j)] = rx[Around(n, h, i)]
      BY <1>8, <2>1, <3>1
    <3> QED  BY <1>3, <1>8, <3>2, <3>3
  <2> QED  BY <2>2, <2>3
<1>17. (u - 1) + 2 <= n /\ rx_head_sw' = g
  BY <1>8, <1>10, <1>14
<1> QED  BY <1>1, <1>7, <1>8, <1>9, <1>12, <1>13, <1>15, <1>16, <1>17 DEF RxInv, RxPlace

LEMMA RxRecycle == RxInv /\ RecycleRx => RxInv'
<1> SUFFICES ASSUME RxInv, RecycleRx PROVE RxInv'
  OBVIOUS
<1>1. PICK n \in Nat \ {0, 1} : n = RxRing /\ Slots(n) = 0 .. n - 1
  BY NicAssumption DEF Slots
<1>2. PICK h \in 0 .. n - 1, u \in Nat, t \in Nat : h = rx_head_sw /\ u = Unread /\ t = Len(taken) /\ Len(arrived) = t + u
  BY <1>1, RxLen DEF RxInv
<1>3. /\ rdh = Around(n, h, u) /\ rdt = Around(n, h, n - Kept) /\ u + Kept <= n
      /\ \A j \in 0 .. n - 1 : IF j < u THEN rx[Around(n, h, j)] = [dd |-> TRUE, buf |-> t + j + 1]
                               ELSE rx[Around(n, h, j)].dd => polled /\ j = n - 1
  BY <1>1, <1>2 DEF RxInv, RxPlace
<1>4. RingOf(n, h)
  BY <1>1, <1>2, RingPlaces
<1>5. /\ \A j \in 0 .. n : Around(n, h, j) \in 0 .. n - 1
      /\ Around(n, h, 0) = h /\ Around(n, h, n) = h
      /\ \A i, j \in 0 .. n - 1 : Around(n, h, i) = Around(n, h, j) => i = j
  BY <1>4, RingFacts
<1>6. /\ \A j \in 0 .. n - 1 : (Around(n, h, j) + 1) % n = Around(n, h, j + 1)
      /\ \A j \in 0 .. n - 1 : Around(n, (h + 1) % n, j) = Around(n, h, j + 1)
      /\ Around(n, h, n - 1) = IF h = 0 THEN n - 1 ELSE h - 1
  BY <1>4, RingNext
<1>7. /\ rx \in [0 .. n - 1 -> Descriptor] /\ polled \in BOOLEAN
      /\ arrived \in Seq(Nat) /\ \A i \in 1 .. Len(arrived) : arrived[i] = i
      /\ taken \in Seq(Nat) /\ \A i \in 1 .. Len(taken) : taken[i] = i
  BY <1>1 DEF RxInv
<1>8. PICK p \in 0 .. n - 1 : p = Recycled /\ p = Around(n, h, n - 1)
  <2>1. n - 1 \in 0 .. n
    OBVIOUS
  <2>2. Around(n, h, n - 1) \in 0 .. n - 1
    BY <1>5, <2>1
  <2> QED  BY <1>1, <1>2, <1>6, <2>2 DEF Recycled
<1>9. PICK e \in Descriptor : e = [rx[p] EXCEPT !.dd = FALSE] /\ ~e.dd
  <2>1. rx[p] \in Descriptor
    BY <1>7
  <2>2. /\ [rx[p] EXCEPT !.dd = FALSE] = [dd |-> FALSE, buf |-> rx[p].buf]
        /\ [rx[p] EXCEPT !.dd = FALSE] \in Descriptor
    BY <2>1, Mark
  <2>3. ~[dd |-> FALSE, buf |-> rx[p].buf].dd
    OBVIOUS
  <2> QED  BY <2>2, <2>3
<1>10. /\ polled /\ polled' = FALSE /\ rx' = [rx EXCEPT ![p] = e] /\ rdt' = p /\ rdh' = rdh
       /\ rx_head_sw' = h /\ taken' = taken /\ arrived' = arrived
  BY <1>2, <1>8, <1>9 DEF RecycleRx
<1>11. Kept = 2 /\ Kept' = 1
  BY <1>10, Zenon DEF Kept
<1>12. rx' \in [0 .. n - 1 -> Descriptor] /\ rx'[p] = e /\ \A q \in 0 .. n - 1 : q # p => rx'[q] = rx[q]
  BY <1>7, <1>10
<1>13. Unread' = u /\ u + 2 <= n
  BY <1>2, <1>3, <1>10, <1>11 DEF Unread
<1>14. ASSUME NEW j \in 0 .. n - 1
       PROVE  IF j < u THEN rx'[Around(n, h, j)] = [dd |-> TRUE, buf |-> t + j + 1]
              ELSE ~rx'[Around(n, h, j)].dd
  <2>1. CASE j = n - 1
    <3>1. ~(j < u) /\ Around(n, h, j) = p
      BY <1>8, <1>13, <2>1
    <3> QED  BY <1>9, <1>12, <3>1
  <2>2. CASE j # n - 1
    <3>1. n - 1 \in 0 .. n - 1
      OBVIOUS
    <3>2. Around(n, h, j) # p
      BY <1>5, <1>8, <2>2, <3>1, Zenon
    <3>3. Around(n, h, j) \in 0 .. n - 1
      BY <1>5
    <3>4. rx'[Around(n, h, j)] = rx[Around(n, h, j)]
      BY <1>12, <3>2, <3>3
    <3> QED  BY <1>3, <2>2, <3>4
  <2> QED  BY <2>1, <2>2
<1>15. u + 1 <= n
  BY <1>13
<1>16. rdh' = Around(n, h, u) /\ rdt' = Around(n, h, n - 1)
  BY <1>3, <1>8, <1>10
<1> QED  BY <1>1, <1>2, <1>7, <1>10, <1>11, <1>12, <1>13, <1>14, <1>15, <1>16 DEF RxInv, RxPlace

LEMMA RxDevice == RxInv /\ DeviceReceives => RxInv'
<1> SUFFICES ASSUME RxInv, DeviceReceives PROVE RxInv'
  OBVIOUS
<1>1. PICK n \in Nat \ {0, 1} : n = RxRing /\ Slots(n) = 0 .. n - 1
  BY NicAssumption DEF Slots
<1>2. PICK h \in 0 .. n - 1, u \in Nat, t \in Nat : h = rx_head_sw /\ u = Unread /\ t = Len(taken) /\ Len(arrived) = t + u
  BY <1>1, RxLen DEF RxInv
<1>3. /\ rdh = Around(n, h, u) /\ rdt = Around(n, h, n - Kept) /\ u + Kept <= n
      /\ \A j \in 0 .. n - 1 : IF j < u THEN rx[Around(n, h, j)] = [dd |-> TRUE, buf |-> t + j + 1]
                               ELSE rx[Around(n, h, j)].dd => polled /\ j = n - 1
  BY <1>1, <1>2 DEF RxInv, RxPlace
<1>4. RingOf(n, h)
  BY <1>1, <1>2, RingPlaces
<1>5. /\ \A j \in 0 .. n : Around(n, h, j) \in 0 .. n - 1
      /\ Around(n, h, 0) = h /\ Around(n, h, n) = h
      /\ \A i, j \in 0 .. n - 1 : Around(n, h, i) = Around(n, h, j) => i = j
  BY <1>4, RingFacts
<1>6. /\ \A j \in 0 .. n - 1 : (Around(n, h, j) + 1) % n = Around(n, h, j + 1)
      /\ \A j \in 0 .. n - 1 : Around(n, (h + 1) % n, j) = Around(n, h, j + 1)
      /\ Around(n, h, n - 1) = IF h = 0 THEN n - 1 ELSE h - 1
  BY <1>4, RingNext
<1>7. /\ rx \in [0 .. n - 1 -> Descriptor] /\ polled \in BOOLEAN
      /\ arrived \in Seq(Nat) /\ \A i \in 1 .. Len(arrived) : arrived[i] = i
      /\ taken \in Seq(Nat) /\ \A i \in 1 .. Len(taken) : taken[i] = i
  BY <1>1 DEF RxInv
<1>8. Kept \in {1, 2} /\ Kept' = Kept /\ polled' = polled
  <2>1. polled' = polled
    BY DEF DeviceReceives, driverRx
  <2> QED  BY <2>1 DEF Kept
<1>9. u + Kept < n
  <2> SUFFICES ASSUME u = n - Kept PROVE FALSE
    BY <1>3, <1>8
  <2>1. rdh = rdt
    BY <1>3
  <2> QED  BY <2>1 DEF DeviceReceives
<1>10. u \in 0 .. n - 1 /\ u + 1 \in 0 .. n - 1
  BY <1>8, <1>9
<1>11. PICK p \in 0 .. n - 1 : p = Around(n, h, u) /\ p = rdh
  <2>1. Around(n, h, u) \in 0 .. n - 1
    BY <1>5, <1>10
  <2> QED  BY <1>3, <2>1
<1>12. PICK e \in Descriptor : e = [dd |-> TRUE, buf |-> t + u + 1]
  <2>1. t + u + 1 \in Nat
    BY <1>2
  <2>2. [dd |-> TRUE, buf |-> t + u + 1] \in Descriptor
    BY <2>1 DEF Descriptor
  <2> QED  BY <2>2
<1>13. /\ rx' = [rx EXCEPT ![p] = e] /\ arrived' = Append(arrived, Len(arrived) + 1)
       /\ rdh' = (p + 1) % n /\ rdt' = rdt /\ rx_head_sw' = h /\ taken' = taken
  BY <1>1, <1>2, <1>11, <1>12 DEF DeviceReceives, driverRx
<1>14. rx' \in [0 .. n - 1 -> Descriptor] /\ rx'[p] = e /\ \A q \in 0 .. n - 1 : q # p => rx'[q] = rx[q]
  BY <1>7, <1>13
<1>15. arrived' \in Seq(Nat) /\ Len(arrived') = t + u + 1 /\ \A i \in 1 .. Len(arrived') : arrived'[i] = i
  BY <1>2, <1>7, <1>13, CountOn
<1>16. Unread' = u + 1
  BY <1>2, <1>13, <1>15 DEF Unread
<1>17. rdh' = Around(n, h, u + 1) /\ rdt' = Around(n, h, n - Kept)
  BY <1>3, <1>6, <1>10, <1>11, <1>13
<1>18. ASSUME NEW j \in 0 .. n - 1
       PROVE  IF j < u + 1 THEN rx'[Around(n, h, j)] = [dd |-> TRUE, buf |-> t + j + 1]
              ELSE rx'[Around(n, h, j)].dd => polled /\ j = n - 1
  <2>1. CASE j = u
    <3>1. j < u + 1 /\ Around(n, h, j) = p
      <4>1. j < u + 1
        BY <2>1
      <4>2. Around(n, h, j) = p
        BY <1>11, <2>1, Zenon
      <4> QED  BY <4>1, <4>2
    <3> QED  BY <1>12, <1>14, <2>1, <3>1
  <2>2. CASE j # u
    <3>1. Around(n, h, j) # p
      BY <1>5, <1>10, <1>11, <2>2, Zenon
    <3>2. Around(n, h, j) \in 0 .. n - 1
      BY <1>5
    <3>3. rx'[Around(n, h, j)] = rx[Around(n, h, j)]
      BY <1>14, <3>1, <3>2
    <3>4. j < u + 1 <=> j < u
      BY <2>2
    <3> QED  BY <1>3, <3>3, <3>4
  <2> QED  BY <2>1, <2>2
<1>19. u + 1 \in Nat /\ (u + 1) + Kept <= n
  BY <1>8, <1>9
<1> QED  BY <1>1, <1>2, <1>7, <1>8, <1>13, <1>14, <1>15, <1>16, <1>17, <1>18, <1>19 DEF RxInv, RxPlace

LEMMA NicStep == TxInv /\ RxInv /\ [NicNext]_e1000e => TxInv' /\ RxInv'
<1> SUFFICES ASSUME TxInv, RxInv, [NicNext]_e1000e PROVE TxInv' /\ RxInv'
  OBVIOUS
<1> DEFINE TxSame == UNCHANGED <<tx, tdh, queued, wire, tx_tail, tdt>>
           RxSame == UNCHANGED <<rx, rx_head_sw, polled, arrived, taken, rdh, rdt>>
<1>1. ASSUME TxSame PROVE TxInv'
  BY <1>1 DEF TxInv, TxPlace, Waiting
<1>2. ASSUME RxSame PROVE RxInv'
  BY <1>2 DEF RxInv, RxPlace, Unread, Kept
<1>3. CASE SendPacket
  <2>1. RxSame
    BY <1>3 DEF SendPacket, driverRx
  <2> QED  BY <1>2, <1>3, <2>1, TxSend
<1>4. CASE PollRx
  <2>1. TxSame
    BY <1>4 DEF PollRx, driverTx
  <2> QED  BY <1>1, <1>4, <2>1, RxPoll
<1>5. CASE RecycleRx
  <2>1. TxSame
    BY <1>5 DEF RecycleRx, driverTx
  <2> QED  BY <1>1, <1>5, <2>1, RxRecycle
<1>6. CASE HandleIrq
  <2>1. TxSame /\ RxSame
    BY <1>6 DEF HandleIrq, driverTx, driverRx
  <2> QED  BY <1>1, <1>2, <2>1
<1>7. CASE DeviceSends
  <2>1. RxSame
    BY <1>7 DEF DeviceSends, driverRx
  <2> QED  BY <1>2, <1>7, <2>1, TxDevice
<1>8. CASE DeviceReceives
  <2>1. TxSame
    BY <1>8 DEF DeviceReceives, driverTx
  <2> QED  BY <1>1, <1>8, <2>1, RxDevice
<1>9. CASE LinkChanges
  <2>1. TxSame /\ RxSame
    BY <1>9 DEF LinkChanges, driverTx, driverRx
  <2> QED  BY <1>1, <1>2, <2>1
<1>10. CASE UNCHANGED e1000e
  <2>1. TxSame /\ RxSame
    BY <1>10 DEF e1000e
  <2> QED  BY <1>1, <1>2, <2>1
<1> HIDE DEF TxSame, RxSame
<1> QED  BY <1>3, <1>4, <1>5, <1>6, <1>7, <1>8, <1>9, <1>10 DEF NicNext

LEMMA NicSays == TxInv /\ RxInv => PacketsInOrder
<1> SUFFICES ASSUME TxInv, RxInv PROVE PacketsInOrder
  OBVIOUS
<1>1. wire = [i \in 1 .. Len(wire) |-> i] /\ Len(wire) <= queued
  <2>1. wire \in Seq(Nat) /\ (\A i \in 1 .. Len(wire) : wire[i] = i) /\ Waiting \in Nat
    BY NicAssumption DEF TxInv
  <2>2. wire = [i \in 1 .. Len(wire) |-> wire[i]]
    BY <2>1, LenProperties
  <2> QED  BY <2>1, <2>2, TxLen
<1>2. taken \in Seq(Nat) /\ arrived \in Seq(Nat) /\ Len(taken) <= Len(arrived) /\ Len(taken) \in Nat /\ Len(arrived) \in Nat
  BY RxLen DEF RxInv
<1>3. taken = SubSeq(arrived, 1, Len(taken))
  <2>1. PICK q \in Seq(Nat) : q = SubSeq(arrived, 1, Len(taken)) /\ Len(q) = Len(taken)
                              /\ \A i \in 1 .. Len(taken) : q[i] = arrived[i]
    <3>1. \A x \in 1 .. Len(taken) : x \in 1 .. Len(arrived)
      BY <1>2
    <3>4. PICK k \in 0 .. Len(arrived) : k = Len(taken)
      BY <1>2
    <3>5. /\ SubSeq(arrived, 1, k) \in Seq(Nat) /\ Len(SubSeq(arrived, 1, k)) = k
          /\ \A i \in 1 .. k : SubSeq(arrived, 1, k)[i] = arrived[i]
      BY <1>2, <3>1, <3>4
    <3> QED  BY <3>4, <3>5
  <2>2. \A i \in 1 .. Len(taken) : q[i] = taken[i]
    <3>1. \A i \in 1 .. Len(taken) : taken[i] = i /\ i \in 1 .. Len(arrived)
      BY <1>2 DEF RxInv
    <3>2. \A i \in 1 .. Len(arrived) : arrived[i] = i
      BY DEF RxInv
    <3> QED  BY <2>1, <3>1, <3>2
  <2> QED  BY <1>2, <2>1, <2>2, SeqEqual
<1>4. ASSUME NEW x \in Len(taken) + 1 .. Len(arrived) PROVE \E i \in Slots(RxRing) : rx[i].dd /\ rx[i].buf = x
  <2>1. PICK n \in Nat \ {0, 1} : n = RxRing /\ Slots(n) = 0 .. n - 1
    BY NicAssumption DEF Slots
  <2>2. PICK h \in 0 .. n - 1, u \in Nat, t \in Nat : h = rx_head_sw /\ u = Unread /\ t = Len(taken) /\ Len(arrived) = t + u
    BY <2>1, RxLen DEF RxInv
  <2>3. Kept \in {1, 2} /\ u + Kept <= n
    BY <2>1, <2>2 DEF RxInv, Kept
  <2>4. PICK j \in 0 .. n - 1 : j < u /\ t + j + 1 = x
    <3>1. x - t - 1 \in 0 .. n - 1 /\ x - t - 1 < u /\ t + (x - t - 1) + 1 = x
      BY <2>2, <2>3
    <3> QED  BY <3>1
  <2>5. rx[Around(n, h, j)] = [dd |-> TRUE, buf |-> x]
    BY <2>1, <2>2, <2>4 DEF RxInv, RxPlace
  <2>6. Around(n, h, j) \in 0 .. n - 1
    BY DEF Around
  <2> QED  BY <2>1, <2>5, <2>6
<1> QED  BY <1>1, <1>2, <1>3, <1>4 DEF PacketsInOrder

(* For every size of the rings and any number of packets, the driver of    *)
(* drivers/e1000e.rs and its device never lose, double, overwrite or       *)
(* reorder a packet, however sending, polling, recycling and interrupts    *)
(* interleave.                                                             *)
THEOREM PacketsInOrderEver == NicSpec => []PacketsInOrder
<1> QED  BY NicStart, NicStep, NicSays, PTL DEF NicSpec
=============================================================================
