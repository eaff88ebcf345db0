-------------------------------- MODULE Vmx --------------------------------
(***************************************************************************)
(* Virtual machines (kernel/src/vmx): the table of machines, their memory  *)
(* behind extended page tables, and the emulator that runs their code for  *)
(* a number of steps.  Calls are made under the lock of the table.  Memory *)
(* is counted in instructions: a page holds PageSize of them, each of one  *)
(* unit; what a page holds besides code is who wrote to it.                *)
(***************************************************************************)
EXTENDS Integers, Sequences, FiniteSets, SequencesExt

CONSTANTS
  Frames,       \* physical frames
  MaxVms,       \* MAX_VMS
  PageSize,     \* instructions in a page
  FetchSize,    \* what decode_at fetches at once
  Codes,        \* programs: sequences of instructions [op, arg]
  MaxSteps,     \* largest limit given to run
  MaxId, MaxCalls, \* bounds: machines ever created, calls of load_code, run and write
  None

VARIABLES
  free, content,   \* frames left; frame -> who wrote to it (0: someone before), None when zeroed
  vms, next_id,    \* VmTable
  calls,
  lost,            \* history: frames taken by a create that failed
  sent             \* history: machine -> what its runs have written to ports, since its code was loaded

vmx == <<free, content, vms, next_id, calls, lost, sent>>

Live == {i \in DOMAIN vms : vms[i] # None}
SlotOf(id) == CHOOSE i \in Live : vms[i].id = id
Exists(id) == \E i \in Live : vms[i].id = id
Smallest(s) == CHOOSE x \in s : \A y \in s : x <= y

(* The n first frames, as the allocator hands them out. *)
Take(n, s) == {f \in s : Cardinality({g \in s : g < f}) < n}

Init ==
  /\ free = Frames /\ content = [f \in Frames |-> 0]   \* whatever was there before
  /\ vms = [i \in 1 .. MaxVms |-> None] /\ next_id = 1 /\ calls = 0
  /\ lost = {} /\ sent = [id \in 1 .. MaxId |-> << >>]

-----------------------------------------------------------------------------
(* EptContext: the tables on the way to the pages of a small machine are    *)
(* one of each level, the first made by create, the others by walk_or_create *)
(* for the first page.                                                      *)
Levels == 4
TablesFor(pages) == IF pages = 0 THEN 1 ELSE Levels

(* create takes data frames, then tables; when one is missing, all that     *)
(* were taken are lost.                                                     *)
Zeroed(fs) == [f \in Frames |-> IF f \in fs THEN None ELSE content[f]]
Create(pages) ==
  /\ Live # DOMAIN vms /\ next_id <= MaxId
  /\ LET need == pages + TablesFor(pages)
         data == Take(pages, free)
         tables == Take(need - pages, free \ data)
     IN  /\ free' = free \ (data \cup tables)
         /\ content' = Zeroed(data)
         /\ IF Cardinality(data \cup tables) = need
            THEN /\ vms' = [vms EXCEPT ![Smallest(DOMAIN vms \ Live)] =
                      [id |-> next_id, data |-> data, tables |-> tables, pages |-> pages, state |-> "Created",
                       code |-> << >>, rip |-> 0, al |-> 0, al0 |-> 0]]
                 /\ next_id' = next_id + 1
                 /\ UNCHANGED lost
            ELSE lost' = lost \cup data \cup tables /\ UNCHANGED <<vms, next_id>>
  /\ UNCHANGED <<calls, sent>>

(* destroy gives data and tables back as they are. *)
Destroy(id) ==
  /\ Exists(id)
  /\ free' = free \cup vms[SlotOf(id)].data \cup vms[SlotOf(id)].tables
  /\ vms' = [vms EXCEPT ![SlotOf(id)] = None]
  /\ UNCHANGED <<content, next_id, calls, lost, sent>>

-----------------------------------------------------------------------------
Call(id) == Exists(id) /\ calls < MaxCalls /\ calls' = calls + 1

(* translate: pages of the machine and nothing else. *)
Mapped(vm, at) == at >= 0 /\ at < vm.pages * PageSize
FrameAt(vm, page) == CHOOSE f \in vm.data : Cardinality({g \in vm.data : g < f}) = page

(* load_code: the code must fit; registers other than rip stay, and so does *)
(* what lies behind the code.                                               *)
LoadCode(id, code) ==
  /\ Call(id)
  /\ LET vm == vms[SlotOf(id)]
         needed == (Len(code) + PageSize - 1) \div PageSize
     IN  /\ code # << >> /\ needed <= vm.pages
         /\ content' = [f \in Frames |-> IF \E p \in 0 .. needed - 1 : f = FrameAt(vm, p) THEN id ELSE content[f]]
         /\ vms' = [vms EXCEPT ![SlotOf(id)] =
               [vm EXCEPT !.code = code \o SubSeq(@, Len(code) + 1, Len(@)),
                          !.rip = 0, !.state = "Created", !.al0 = vm.al]]
         /\ sent' = [sent EXCEPT ![id] = << >>]
  /\ UNCHANGED <<free, next_id, lost>>

(* The host writes data, on a page that holds no code. *)
WriteGuest(id, page) ==
  /\ Call(id)
  /\ Mapped(vms[SlotOf(id)], page * PageSize)
  /\ page * PageSize >= Len(vms[SlotOf(id)].code)
  /\ content' = [content EXCEPT ![FrameAt(vms[SlotOf(id)], page)] = id]
  /\ UNCHANGED <<free, vms, next_id, lost, sent>>

(* decode_at: the whole window must be mapped; past the code is zero, which *)
(* is no instruction.                                                       *)
Bad == [op |-> "bad", arg |-> 0]
DecodeAt(vm, at) ==
  IF \E i \in 0 .. FetchSize - 1 : ~Mapped(vm, at + i) THEN Bad
  ELSE IF at < Len(vm.code) THEN vm.code[at + 1] ELSE Bad

(* What the processor answers to CPUID in AL. *)
CpuidAl == 13

(* step, with the handlers of the exits that a guest can cause.             *)
Advance(run) == run.vm.rip + 1
Step(run) ==
  LET insn == DecodeAt(run.vm, run.vm.rip)
      moved == [run EXCEPT !.vm.rip = Advance(run)]
  IN  CASE insn.op \in {"nop", "cli", "sti"} -> moved
        [] insn.op = "cpuid" -> [moved EXCEPT !.vm.al = CpuidAl]
        [] insn.op = "mov" -> [moved EXCEPT !.vm.al = insn.arg]
        [] insn.op = "in" -> [moved EXCEPT !.vm.al = 255]
        [] insn.op = "jmp" -> [moved EXCEPT !.vm.rip = @ + insn.arg]
        [] insn.op \in {"hlt", "ret"} -> [moved EXCEPT !.exit = "Hlt"]
        [] insn.op = "out" -> [moved EXCEPT !.exit = "Io", !.out = Append(@, run.vm.al)]
        [] OTHER -> [run EXCEPT !.exit = "Fatal"]

(* run_guest: until an exit or the limit of steps.                          *)
RunGuest(vm, limit) ==
  FoldLeft(LAMBDA run, i : IF run.exit = None THEN Step(run) ELSE run,
           [vm |-> vm, exit |-> None, out |-> << >>], [i \in 1 .. limit |-> i])

Run(id, limit) ==
  /\ Call(id)
  /\ LET run == RunGuest(vms[SlotOf(id)], limit) IN
     /\ vms' = [vms EXCEPT ![SlotOf(id)] =
                  [run.vm EXCEPT !.state = IF run.exit = "Hlt" THEN "Halted" ELSE "Running"]]
     /\ sent' = [sent EXCEPT ![id] = @ \o run.out]
  /\ UNCHANGED <<free, content, next_id, lost>>

Next ==
  \/ \E pages \in 0 .. 2 : Create(pages)
  \/ \E id \in 1 .. MaxId :
       \/ Destroy(id)
       \/ \E code \in Codes : LoadCode(id, code)
       \/ \E page \in 0 .. 2 : WriteGuest(id, page)
       \/ \E limit \in 1 .. MaxSteps : Run(id, limit)

Spec == Init /\ [][Next]_vmx
-----------------------------------------------------------------------------
(* What the code would write if it were never interrupted.                  *)
AllSent(vm) ==
  FoldLeft(LAMBDA run, i : IF run.exit \in {None, "Io"} THEN Step(run) ELSE run,
           [vm |-> [vm EXCEPT !.rip = 0, !.al = vm.al0], exit |-> None, out |-> << >>],
           [i \in 1 .. MaxCalls * MaxSteps |-> i]).out

(* Machines that come and go, creations that fail included: every frame is  *)
(* free, lost or held by one machine; the pages of a machine hold zeroes    *)
(* and what was written for it; and its code, run in portions of any size   *)
(* and stopped at any port access, writes what it would write in one run,   *)
(* nothing twice and nothing left out.                                      *)
VmsApart ==
  /\ \A f \in Frames : Cardinality({i \in Live : f \in vms[i].data \cup vms[i].tables})
                         = IF f \in free \cup lost THEN 0 ELSE 1
  /\ free \cap lost = {}
  /\ \A i \in Live : \A f \in vms[i].data : content[f] \in {None, vms[i].id}
  /\ \A i \in Live : IsPrefix(sent[vms[i].id], AllSent(vms[i]))
=============================================================================
