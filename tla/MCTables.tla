------------------------------ MODULE MCTables ------------------------------
(***************************************************************************)
(* One instance of each component that is a table of its own: the hash     *)
(* table, the handle table, the frame allocator, address spaces, the       *)
(* budgets of the capability store, the resolver, the TLS sessions, the    *)
(* driver tables, virtual machines, the threads and the memory of the      *)
(* JavaScript engine and Butler's state page.  They share no state:        *)
(* `which' is the one that a behaviour is about, the others stay in an     *)
(* initial state.                                                          *)
(***************************************************************************)
EXTENDS CapabilityHistory, FixedMap, HandleTable, FrameAllocator, Resolver, Tls, ButlerState, TLC

CONSTANTS hostA, hostB, c1, c2

VARIABLES which,
  memory, frames, cur, todo, live, pcbs, stacks, lost, spawns,       \* AddressSpace
  dma, dma_count, handlers, shared, drivers, driver_count, registered,   \* DriverTables
  table, counter, active, create,                                    \* V8Platform
  blocks, total_allocated, total_freed, current_used, peak_used, allocation_count, op, made, highest, drift, \* V8Platform
  left, content, vms, next_vm, calls, leaked, sent                   \* Vmx

(* Budgets for CapabilityHistory: two uses in a window of two ticks, one   *)
(* use per tick, no use at all, and the unlimited interval of zero.        *)
MCBudgets == {[max_uses |-> 2, interval_ticks |-> 2],
              [max_uses |-> 1, interval_ticks |-> 1],
              [max_uses |-> 0, interval_ticks |-> 3],
              [max_uses |-> 1, interval_ticks |-> 0]}

(* Two pages share all tables, a third has a page table of its own, the     *)
(* stack is in another quarter of the space; the heap meets one image, and  *)
(* one image reaches into the kernel's half.                                *)
Segment(pages, w, x) == [pages |-> pages, w |-> w, x |-> x]
Images == {<<Segment(<<1>>, FALSE, TRUE)>>,
           <<Segment(<<1, 2>>, FALSE, TRUE), Segment(<<2>>, TRUE, FALSE)>>,
           <<Segment(<<3>>, TRUE, FALSE)>>,
           <<Segment(<<2, 5>>, TRUE, FALSE)>>}
Spaces == INSTANCE AddressSpace WITH
  free <- frames, MaxFrames <- 26, KernelPages <- {5}, Images <- Images, StackPages <- <<4>>, HeapPages <- <<3>>,
  Path <- <<<<0, 0, 0>>, <<0, 0, 0>>, <<0, 0, 1>>, <<1, 0, 0>>>>, MaxPcbs <- 2, MaxSpawns <- 3

(* All names fit into the cache. *)
SameName(n) == n

(* Functions of two devices, and one device that does not answer. *)
Function(kind, multi) == [kind |-> kind, multi |-> multi]
Hardware == INSTANCE DriverTables WITH
  Pages <- 4, MaxBuffers <- 2, Sizes <- {1, 2}, Owners <- {c1, c2}, MaxShared <- 2, MaxDrivers <- 2,
  Devices <- <<<<Function("nic", TRUE), Function(None, FALSE), Function("usb", FALSE)>>, None,
               <<Function("usb", FALSE), Function("nic", FALSE)>>>>,
  Supports <- [e1000e |-> {"nic"}, any |-> {"*"}, gpu |-> {"gpu"}], Resources <- {"timer", "nic"}

Engine == INSTANCE V8Platform WITH
  MaxThreads <- 2, MaxId <- 4, Creators <- {c1, c2, "main"}, Threads <- {c1, c2}, Page <- 2, LargePage <- 4, Requests <- {1, 3}, MaxBlocks <- 3

(* A program with a loop over two pages, and one that stops at once. *)
Instruction(o, arg) == [op |-> o, arg |-> arg]
Machines == INSTANCE Vmx WITH
  free <- left, next_id <- next_vm, lost <- leaked, Frames <- 1 .. 11, MaxVms <- 2, PageSize <- 4, FetchSize <- 2,
  MaxSteps <- 4, MaxId <- 3, MaxCalls <- 3,
  Codes <- {<<Instruction("mov", 1), Instruction("out", 0), Instruction("in", 0), Instruction("jmp", 1),
              Instruction("nop", 0), Instruction("out", 0), Instruction("hlt", 0)>>, <<Instruction("cpuid", 0)>>}

spaceVars == <<memory, frames, cur, todo, live, pcbs, stacks, lost, spawns>>
driverVars == <<dma, dma_count, handlers, shared, drivers, driver_count, registered>>
threadVars == <<table, counter, active, create>>
v8Vars == <<blocks, total_allocated, total_freed, current_used, peak_used, allocation_count, op, made, highest, drift>>
vmVars == <<left, content, vms, next_vm, calls, leaked, sent>>
tablesVars == <<which, mapVars, handleVars, memoryVars, spaceVars, hvars, rvars, tlsVars,
                driverVars, threadVars, v8Vars, vmVars, butlerVars>>

(* The components with many initial states rest in one of them. *)
MapAtRest == slots = [i \in Index |-> Nothing] /\ len = 0 /\ hash = [k \in Keys |-> 0] /\ out = Nothing
MemoryAtRest ==
  /\ usable = {} /\ free = {} /\ free_lists = [o \in Orders |-> << >>]
  /\ free_frames = 0 /\ held = {}
SpacesAtRest ==
  /\ memory = {} /\ frames = {} /\ cur = Spaces!NoSpace /\ todo = << >> /\ live = {} /\ pcbs = 0
  /\ stacks = {} /\ lost = {} /\ spawns = 0

TablesInit ==
  /\ which \in {"map", "handles", "memory", "spaces", "budgets", "dns", "tls",
               "drivers", "threads", "v8", "vms", "butler"}
  /\ IF which = "map" THEN MapInit ELSE MapAtRest
  /\ IF which = "memory" THEN MemoryInit ELSE MemoryAtRest
  /\ IF which = "spaces" THEN Spaces!Init ELSE SpacesAtRest
  /\ HandlesInit /\ HInit /\ ResolverInit /\ TlsInit
  /\ Hardware!Init /\ Engine!Init /\ Machines!Init /\ ButlerInit

TablesNext ==
  /\ UNCHANGED which
  /\ \/ /\ which = "map" /\ MapNext
        /\ UNCHANGED <<handleVars, memoryVars, spaceVars, hvars, rvars, tlsVars,
                        driverVars, threadVars, v8Vars, vmVars, butlerVars>>
     \/ /\ which = "handles" /\ HandlesNext
        /\ UNCHANGED <<mapVars, memoryVars, spaceVars, hvars, rvars, tlsVars,
                        driverVars, threadVars, v8Vars, vmVars, butlerVars>>
     \/ /\ which = "memory" /\ MemoryNext
        /\ UNCHANGED <<mapVars, handleVars, spaceVars, hvars, rvars, tlsVars,
                        driverVars, threadVars, v8Vars, vmVars, butlerVars>>
     \/ /\ which = "spaces" /\ Spaces!Next
        /\ UNCHANGED <<mapVars, handleVars, memoryVars, hvars, rvars, tlsVars,
                        driverVars, threadVars, v8Vars, vmVars, butlerVars>>
     \/ /\ which = "budgets" /\ HNext
        /\ UNCHANGED <<mapVars, handleVars, memoryVars, spaceVars, rvars, tlsVars,
                        driverVars, threadVars, v8Vars, vmVars, butlerVars>>
     \/ /\ which = "dns" /\ ResolverNext
        /\ UNCHANGED <<mapVars, handleVars, memoryVars, spaceVars, hvars, tlsVars,
                        driverVars, threadVars, v8Vars, vmVars, butlerVars>>
     \/ /\ which = "tls" /\ TlsNext
        /\ UNCHANGED <<mapVars, handleVars, memoryVars, spaceVars, hvars, rvars,
                        driverVars, threadVars, v8Vars, vmVars, butlerVars>>
     \/ /\ which = "drivers" /\ Hardware!Next
        /\ UNCHANGED <<mapVars, handleVars, memoryVars, spaceVars, hvars, rvars, tlsVars, threadVars, v8Vars, vmVars, butlerVars>>
     \/ /\ which = "threads" /\ Engine!ThreadsNext
        /\ UNCHANGED <<mapVars, handleVars, memoryVars, spaceVars, hvars, rvars, tlsVars,
                        driverVars, v8Vars, vmVars, butlerVars>>
     \/ /\ which = "v8" /\ Engine!MemoryNext
        /\ UNCHANGED <<mapVars, handleVars, memoryVars, spaceVars, hvars, rvars, tlsVars,
                        driverVars, threadVars, vmVars, butlerVars>>
     \/ /\ which = "vms" /\ Machines!Next
        /\ UNCHANGED <<mapVars, handleVars, memoryVars, spaceVars, hvars, rvars, tlsVars,
                        driverVars, threadVars, v8Vars, butlerVars>>
     \/ /\ which = "butler" /\ ButlerNext
        /\ UNCHANGED <<mapVars, handleVars, memoryVars, spaceVars, hvars, rvars, tlsVars,
                        driverVars, threadVars, v8Vars, vmVars>>

TablesSpec == TablesInit /\ [][TablesNext]_tablesVars

(* What a repeated transaction identifier leads to is not followed. *)
NoClash == ~clash
ClientSymmetry == Permutations({c1, c2}) \cup Permutations({hostA, hostB})

(* AddressSpace: however a load ends, no frame is in two places and the    *)
(* page tables come back; the pages of an abandoned load do not, and they  *)
(* are all that is missing.  DriverTables: buffers, interrupt handlers and *)
(* bound drivers are counted exactly; whether their driver still exists    *)
(* the tables do not know.  V8Platform: no entry outlives the calls that   *)
(* race for the thread table, and the statistics are those of the blocks   *)
(* there are.  Vmx: a machine sees nothing that another one, or one before *)
(* it, wrote.                                                              *)
ResourcesAccounted ==
  /\ which = "spaces" => Spaces!FramesAccounted
  /\ which = "drivers" => Hardware!TablesExact
  /\ which = "threads" => Engine!ThreadsAccounted
  /\ which = "v8" => Engine!StatsExact
  /\ which = "vms" => Machines!VmsApart
=============================================================================
