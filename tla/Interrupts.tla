----------------------------- MODULE Interrupts -----------------------------
(***************************************************************************)
(* Interrupt delivery on the one processor: the local APIC as the kernel   *)
(* programs it (kernel/src/x86/apic.rs), the routes of the IO APIC         *)
(* (ioapic.rs), interrupt_dispatch (idt.rs) and what each handler does     *)
(* with the locks the interrupted code may hold.  A handler runs with      *)
(* interrupts disabled, so that delivery, handler and end of interrupt are *)
(* one step.  Exceptions panic; what the timer schedules is Preemption,    *)
(* and what a scan code does to the windows is WindowManager.              *)
(***************************************************************************)
EXTENDS Integers, FiniteSets, FiniteSetsExt

CONSTANT MaxKeys   \* bound: scan codes sent by the keyboard

VARIABLES
  routed,     \* vectors the IO APIC and the timer may raise
  pending,    \* the local APIC's request register
  inService,  \* its in-service register
  enabled,    \* RFLAGS.IF outside handlers
  held,       \* locks of the interrupted code
  nicLine,    \* the card asserts its level-triggered line
  scancode,   \* the controller's output buffer is full
  keys,       \* scan codes sent
  kicked,     \* the software interrupt that ends boot has been executed
  beat        \* TICK_COUNT, modulo 2

interrupts == <<routed, pending, inService, enabled, held, nicLine, scancode, keys, kicked, beat>>

TIMER == 32
KEYBOARD == 33
NIC == 43
Vectors == {TIMER, KEYBOARD, NIC}
Locks == {"SCHEDULER", "TABLE", "ACTIVE_NIC", "WINDOW_TABLE"}

(* A vector's priority is its upper half; the highest vector goes first.   *)
Class(v) == v \div 16
MayInterrupt(v) ==
  /\ v \in pending /\ \A w \in pending : w <= v
  /\ \A s \in inService : Class(v) > Class(s)

(* send_eoi: the highest vector in service is done, whoever sends it.      *)
SendEoi(s) == IF s = {} THEN {} ELSE s \ {Max(s)}
-----------------------------------------------------------------------------
(* apic::init leaves the timer masked; ioapic::init masks all lines and    *)
(* then routes two; both run with interrupts disabled.                     *)
IrqInit ==
  /\ routed = {KEYBOARD, NIC} /\ pending = {} /\ inService = {}
  /\ enabled = FALSE /\ held = {}
  /\ nicLine = FALSE /\ scancode = FALSE /\ keys = 0 /\ kicked = FALSE /\ beat = 0

(* The end of _start: send_eoi, start_timer, sti. *)
StartTimer ==
  /\ ~enabled
  /\ inService' = SendEoi(inService)
  /\ routed' = routed \cup {TIMER}
  /\ enabled' = TRUE
  /\ UNCHANGED <<pending, held, nicLine, scancode, keys, kicked, beat>>

TimerExpires ==
  /\ TIMER \in routed /\ TIMER \notin pending
  /\ pending' = pending \cup {TIMER}
  /\ UNCHANGED <<routed, inService, enabled, held, nicLine, scancode, keys, kicked, beat>>

(* Edge-triggered: one request for each scan code that becomes readable.   *)
SendScancode ==
  /\ keys < MaxKeys /\ ~scancode
  /\ keys' = keys + 1 /\ scancode' = TRUE
  /\ pending' = pending \cup {KEYBOARD}
  /\ UNCHANGED <<routed, inService, enabled, held, nicLine, kicked, beat>>

(* Level-triggered: requested for as long as the line is asserted and the  *)
(* vector is not in service.                                               *)
AssertLine ==
  /\ NIC \notin pending \cup inService
  /\ nicLine' = TRUE
  /\ pending' = pending \cup {NIC}
  /\ UNCHANGED <<routed, inService, enabled, held, scancode, keys, kicked, beat>>

(* timer_handler sends the end of interrupt on its three ways out: either  *)
(* lock busy, or after the switch.                                         *)
TimerHandler(s) ==
  /\ beat' = 1 - beat
  /\ inService' = SendEoi(s)
  /\ UNCHANGED <<routed, enabled, held, nicLine, scancode, keys, kicked>>

(* keyboard_irq_handler reads the byte and returns; nothing on the way     *)
(* sends an end of interrupt.                                              *)
KeyboardHandler(s) ==
  /\ scancode' = FALSE
  /\ inService' = s
  /\ UNCHANGED <<routed, enabled, held, nicLine, keys, kicked, beat>>

(* nic_irq_handler: reading the cause deasserts the line. *)
NicHandlerReturns(s) ==
  /\ nicLine' = (nicLine /\ "ACTIVE_NIC" \in held)
  /\ inService' = IF "ACTIVE_NIC" \in held THEN s ELSE SendEoi(s)
  /\ UNCHANGED <<routed, enabled, held, scancode, keys, kicked, beat>>
NicHandler(s) ==
  /\ nicLine' = (nicLine /\ "ACTIVE_NIC" \in held)
  /\ inService' = SendEoi(s)
  /\ UNCHANGED <<routed, enabled, held, scancode, keys, kicked, beat>>

interrupt_dispatch(v, s) ==
  \/ v = TIMER /\ TimerHandler(s)
  \/ v = KEYBOARD /\ KeyboardHandler(s)
  \/ v = NIC /\ NicHandler(s)

Deliver(v) ==
  /\ enabled /\ MayInterrupt(v)
  /\ pending' = pending \ {v}
  /\ interrupt_dispatch(v, inService \cup {v})

(* int 32 at the end of boot: the timer's handler, without the APIC.       *)
Kick ==
  /\ enabled /\ ~kicked
  /\ beat' = 1 - beat /\ inService' = SendEoi(inService) /\ kicked' = TRUE
  /\ UNCHANGED <<routed, pending, enabled, held, nicLine, scancode, keys>>

(* System calls run with interrupts enabled and take locks. *)
Take(l) ==
  /\ kicked /\ l \notin held
  /\ held' = held \cup {l}
  /\ UNCHANGED <<routed, pending, inService, enabled, nicLine, scancode, keys, kicked, beat>>

Release(l) ==
  /\ l \in held
  /\ held' = held \ {l}
  /\ UNCHANGED <<routed, pending, inService, enabled, nicLine, scancode, keys, kicked, beat>>

IrqNext ==
  \/ StartTimer \/ TimerExpires \/ SendScancode \/ AssertLine \/ Kick
  \/ \E v \in Vectors : Deliver(v)
  \/ \E l \in Locks : Take(l) \/ Release(l)

IrqSpec == IrqInit /\ [][IrqNext]_interrupts

(* The boot code runs on; the timer's counter expires again and again, and *)
(* the APIC delivers what nothing of the same priority holds up for ever.  *)
FairSpec ==
  /\ IrqSpec
  /\ WF_interrupts(StartTimer) /\ WF_interrupts(Kick) /\ WF_interrupts(TimerExpires)
  /\ \A v \in Vectors : SF_interrupts(Deliver(v))
  /\ \A l \in Locks : SF_interrupts(Release(l))
-----------------------------------------------------------------------------
(* Every interrupt taken is ended, whatever the interrupted code has       *)
(* locked, except the keyboard's, so that nothing but a key can hold up    *)
(* the vectors of the same priority (all three have one priority); and a   *)
(* scan code that has not been read is still requested.                    *)
ServiceEnds ==
  /\ inService \subseteq {KEYBOARD}
  /\ keys = 0 => inService = {}
  /\ scancode => KEYBOARD \in pending

(* The timer keeps interrupting, which is what preemption rests on.        *)
TimerTicksOn == []<>(beat = 0) /\ []<>(beat = 1)
=============================================================================
