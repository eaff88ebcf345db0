-------------------------------- MODULE Boot --------------------------------
(***************************************************************************)
(* Booting (kernel/src/main.rs): the phases in their order, what each      *)
(* brings up and relies on, the self tests that stop the machine when they *)
(* fail, the stress gates that only report and may leave anything in the   *)
(* tables they exercise, and the moments at which interrupts are enabled.  *)
(***************************************************************************)
EXTENDS Integers, Sequences, FiniteSets, SequencesExt

VARIABLES
  given,    \* what the boot loader and the buses offer
  pc,       \* steps taken
  up,       \* what has been brought up
  dirty,    \* tables with leftovers of tests
  ints,     \* interrupts are enabled
  timer, ticked, \* the APIC timer runs; it has interrupted the boot
  failed    \* an assertion has failed

boot == <<given, pc, up, dirty, ints, timer, ticked, failed>>

(* The tables that tests write to, and the part that each belongs to.       *)
Part == [TABLE |-> "process", SCHEDULER |-> "process", BUS |-> "bus", STORE |-> "capability",
         GOVERNANCE |-> "governance", COUNCIL |-> "council"]
Tables == DOMAIN Part
Offers == {"framebuffer", "modules", "loom", "e1000e", "virtio", "xhci"}

(* Steps: bring up what, from needs, when offered; a self test of needs and *)
(* of clean tables; a gate; clear tables; switch interrupts or the timer.   *)
Step(op, what, needs) == [op |-> op, what |-> what, needs |-> needs, offer |-> "any"]
Up(what, needs) == Step("init", {what}, needs)
Offered(offer, what, needs) == [Step("init", {what}, needs) EXCEPT !.offer = offer]
Test(needs, clean) == Step("test", clean, needs)
Gate == Step("gate", {}, {})
Clear(tables) == Step("clear", tables, {})

ClearFour == <<Clear({"TABLE", "SCHEDULER", "BUS", "STORE"})>>
Processes == <<Up("process", {"bus"})>>
Fresh == <<Clear(Tables \ {"COUNCIL"})>> \o Processes \o <<Up("governance", {})>>
FreshAll == <<Clear(Tables)>> \o Processes \o <<Up("governance", {}), Up("council", {"heap"})>>

(* The self tests: what each asserts to be up and which tables it asserts   *)
(* to be as a fresh start leaves them; two clear what they wrote.           *)
VmemTest == <<Test({"frames", "hhdm"}, {})>>
HeapTest == <<Test({"heap"}, {})>>
CapabilityTest == <<Test({"capability"}, {"STORE"})>>
BusTest == <<Test({"bus", "capability"}, {"BUS"}), Clear({"BUS", "STORE"})>>
ProcessTest == <<Test({"process"}, {"TABLE"})>> \o ClearFour \o Processes
DriverTest == <<Test({"hal"}, {"BUS", "STORE"})>>
GovernanceTest == <<Test({"governance"}, {"GOVERNANCE"})>>
CouncilTest == <<Test({"council"}, {"COUNCIL"})>>
IsolationTest == <<Test({"butler_state", "process", "frames"}, {"GOVERNANCE", "TABLE"})>>
HardwareTest == <<Test({"gdt", "tss", "idt", "apic", "syscall", "tick"}, {})>>
VfsTest == <<Test({"vfs"}, {})>>
NetworkTest == <<Test({"network"}, {})>>
DisplayTest == <<Test({"display"}, {})>>

Memory ==
  <<Up("hhdm", {}), Up("frames", {"hhdm"})>> \o VmemTest \o <<Up("heap", {"frames"})>> \o HeapTest \o <<Gate>>
Kernel ==
  <<Up("capability", {})>> \o CapabilityTest \o <<Gate, Up("bus", {"heap"})>> \o BusTest \o <<Gate>>
  \o Processes \o ProcessTest \o <<Gate>>
  \o ClearFour \o Processes \o <<Up("hal", {"process", "bus", "capability"})>> \o DriverTest \o <<Gate>>
Governed ==
  ClearFour \o Processes \o <<Up("governance", {})>> \o GovernanceTest \o <<Gate>>
  \o Fresh \o <<Up("council", {"heap"})>> \o CouncilTest \o <<Gate>>
  \o FreshAll \o <<Up("butler_state", {"frames"})>> \o IsolationTest \o <<Gate>>

(* x86::init, init_syscall; interrupts are on for a moment.                 *)
X86 == <<Up("gdt", {}), Up("tss", {"gdt"}), Up("idt", {"gdt"}), Up("apic", {"hhdm", "idt"}), Up("syscall", {"gdt"})>>
Hardware ==
  FreshAll \o X86 \o <<Step("timer", {}, {"apic"}), Step("sti", {}, {}), Step("cli", {}, {})>> \o HardwareTest \o <<Gate>>
Services ==
  FreshAll \o <<Up("vfs", {"heap"}), Offered("modules", "initramfs", {"vfs"})>> \o VfsTest \o <<Gate>>
  \o <<Up("network", {})>> \o NetworkTest \o <<Gate, Offered("framebuffer", "display", {"heap"})>> \o DisplayTest \o <<Gate>>
Devices ==
  <<Up("ioapic", {"hhdm", "apic"}), Up("keyboard", {}), Up("pci", {"heap"}),
    Offered("e1000e", "nic", {"pci", "frames"}), Offered("virtio", "nic", {"pci", "frames"}), Gate, Gate>>
Extras ==
  <<Gate, Gate, Gate, Up("vmx", {}), Gate, Up("gaming", {}), Gate, Up("driver_framework", {}), Gate, Gate,
    Offered("xhci", "usb", {"pci", "frames"})>>

(* What the first process finds. *)
LaunchStale ==
  Processes \o <<Offered("loom", "loom", {"process", "frames", "heap"}),
                 Step("timer", {}, {"apic"}), Step("sti", {}, {})>>
Launch ==
  ClearFour \o Processes
  \o <<Offered("loom", "loom", {"process", "frames", "heap"}),
       Step("timer", {}, {"apic"}), Step("sti", {}, {})>>

Steps == Memory \o Kernel \o Governed \o Hardware \o Services \o Devices \o Extras \o Launch
-----------------------------------------------------------------------------
Init ==
  /\ given \in {g \in SUBSET Offers : "loom" \in g => "modules" \in g}
  /\ pc = 0 /\ up = {} /\ dirty = {}
  /\ ints = FALSE /\ timer = FALSE /\ ticked = FALSE /\ failed = FALSE

Running == ~failed /\ pc < Len(Steps)
Now == Steps[pc + 1]
Have == up \cup (IF ticked THEN {"tick"} ELSE {})

(* init: virtio is tried when there is no e1000e or it does not come up;    *)
(* devices may not answer, and spawn_elf may refuse the file.               *)
BringUp ==
  /\ Running /\ Now.op = "init" /\ pc' = pc + 1
  /\ LET wanted == (Now.offer = "any" \/ Now.offer \in given) /\ (Now.offer = "virtio" => "nic" \notin up)
     IN  /\ failed' = (wanted /\ ~(Now.needs \subseteq up))
         /\ up' \in IF ~wanted THEN {up}
                    ELSE IF Now.offer \in {"e1000e", "virtio", "xhci", "loom"} THEN {up, up \cup Now.what}
                    ELSE {up \cup Now.what}
  /\ UNCHANGED <<given, dirty, ints, timer, ticked>>

SelfTest ==
  /\ Running /\ Now.op = "test" /\ pc' = pc + 1
  /\ failed' = ~(Now.needs \subseteq Have /\ Now.what \cap dirty = {})
  /\ UNCHANGED <<given, up, dirty, ints, timer, ticked>>

(* run_phase0_gate and the others: a score is printed, and boot goes on.    *)
RunGate ==
  /\ Running /\ Now.op = "gate" /\ pc' = pc + 1
  /\ dirty' \in {dirty, dirty \cup {t \in Tables : Part[t] \in up}}
  /\ UNCHANGED <<given, up, ints, timer, ticked, failed>>

ClearTables ==
  /\ Running /\ Now.op = "clear" /\ pc' = pc + 1
  /\ dirty' = dirty \ Now.what
  /\ UNCHANGED <<given, up, ints, timer, ticked, failed>>

(* The wait before cli is long enough for a tick.                           *)
Switch ==
  /\ Running /\ Now.op \in {"sti", "cli", "timer"} /\ pc' = pc + 1
  /\ Now.op = "cli" => ticked
  /\ ints' = IF Now.op = "timer" THEN ints ELSE Now.op = "sti"
  /\ timer' = (timer \/ Now.op = "timer")
  /\ UNCHANGED <<given, up, dirty, ticked, failed>>

(* timer_handler during boot: no process has a stack to switch to.          *)
Tick ==
  /\ ints /\ timer /\ ~ticked /\ ticked' = TRUE
  /\ UNCHANGED <<given, pc, up, dirty, ints, timer, failed>>

Next == BringUp \/ SelfTest \/ RunGate \/ ClearTables \/ Switch \/ Tick

Spec == Init /\ [][Next]_boot
-----------------------------------------------------------------------------
(* Whatever devices there are, whichever of them fail and whatever the      *)
(* gates leave behind: interrupts are never enabled before every table that *)
(* an interrupt goes through is loaded; nothing relies on a part that is    *)
(* not up, and no self test meets leftovers, so that boot stops early only  *)
(* for want of a framebuffer; and the first process starts on process,      *)
(* scheduler, bus and capability tables with no trace of the tests, with    *)
(* the timer on and with the parts that its system calls use.  The last     *)
(* gates may have left their traces in governance and council, which main   *)
(* does not clear again; tables other than these six are not in this model. *)
BootReady ==
  /\ ints => {"gdt", "tss", "idt", "apic"} \subseteq up
  /\ failed => "framebuffer" \notin given
  /\ (pc = Len(Steps) /\ ~failed) =>
       /\ dirty \cap {"TABLE", "SCHEDULER", "BUS", "STORE"} = {}
       /\ {"syscall", "vfs", "network", "process", "display"} \subseteq up
       /\ ints /\ timer
=============================================================================
