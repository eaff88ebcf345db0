---------------------------- MODULE DriverTables ----------------------------
(***************************************************************************)
(* The driver framework (kernel/src/hal: dma.rs, irq_router.rs,            *)
(* pci_bind.rs, and pci/mod.rs): DMA buffers, interrupt handlers that      *)
(* share a vector, and drivers bound to the devices the scan has found.    *)
(* Each table has a lock of its own, so a call is one step.                *)
(***************************************************************************)
EXTENDS Integers, Sequences, FiniteSets, SequencesExt

CONSTANTS
  Pages,        \* pages that the buddy allocator can hand out, a power of two
  MaxBuffers,   \* MAX_DMA_BUFFERS
  Sizes,        \* sizes asked for, in pages
  Owners,       \* processes that own buffers
  MaxShared,    \* MAX_SHARED
  Devices,      \* the bus: device number -> sequence of functions, None where nothing answers
  MaxDrivers,   \* MAX_PCI_DRIVERS
  Supports,     \* driver -> kinds of device it supports; "*" is the wildcard
  Resources,    \* resource ids of handlers
  None

VARIABLES
  dma, dma_count,     \* DmaManager
  handlers, shared,   \* IrqSlot of one vector: handlers and their count
  drivers, driver_count,     \* PciDriverTable
  registered          \* history: handlers that drivers have registered and not taken back, as often

driverTables == <<dma, dma_count, handlers, shared, drivers, driver_count, registered>>

First(s) == CHOOSE x \in s : \A y \in s : x <= y

-----------------------------------------------------------------------------
(* Blocks of the buddy allocator: runs of 2^order pages at a multiple of    *)
(* their length.  Which free block is handed out is left open.              *)
Block(phys, order) == phys .. phys + 2^order - 1
Used == UNION {Block(dma[i].phys, dma[i].order) : i \in {j \in DOMAIN dma : dma[j] # None}}
FreeBlocks(order) == {p \in 0 .. Pages - 1 : p % 2^order = 0 /\ Block(p, order) \subseteq (0 .. Pages - 1) \ Used}

SizeToOrder(size) == First({o \in 0 .. Pages : 2^o >= size})

Alloc(size, owner) ==
  LET order == SizeToOrder(size) IN
  /\ dma_count < MaxBuffers
  /\ \E phys \in FreeBlocks(order) :
       dma' = [dma EXCEPT ![First({i \in DOMAIN dma : dma[i] = None})] =
                 [phys |-> phys, order |-> order, owner |-> owner, asked |-> size]]
  /\ dma_count' = dma_count + 1
  /\ UNCHANGED <<handlers, shared, drivers, driver_count, registered>>

Free(phys) ==
  LET at == {i \in DOMAIN dma : dma[i] # None /\ dma[i].phys = phys} IN
  /\ at # {}
  /\ dma' = [dma EXCEPT ![First(at)] = None]
  /\ dma_count' = dma_count - 1
  /\ UNCHANGED <<handlers, shared, drivers, driver_count, registered>>

CountFreed(owned) == Cardinality(owned)
FreeAllForProcess(pid) ==
  LET owned == {i \in DOMAIN dma : dma[i] # None /\ dma[i].owner = pid} IN
  /\ owned # {}
  /\ dma' = [i \in DOMAIN dma |-> IF i \in owned THEN None ELSE dma[i]]
  /\ dma_count' = dma_count - CountFreed(owned)
  /\ UNCHANGED <<handlers, shared, drivers, driver_count, registered>>

-----------------------------------------------------------------------------
(* IrqRouter, one vector of it: first inactive entry, first entry with the  *)
(* id.                                                                      *)
RegisterHandler(r) ==
  /\ shared < MaxShared
  /\ handlers' = [handlers EXCEPT ![First({i \in DOMAIN handlers : handlers[i] = None})] = r]
  /\ shared' = shared + 1
  /\ registered' = [registered EXCEPT ![r] = @ + 1]
  /\ UNCHANGED <<dma, dma_count, drivers, driver_count>>

UnregisterHandler(r) ==
  /\ \E i \in DOMAIN handlers : handlers[i] = r
  /\ handlers' = [handlers EXCEPT ![First({i \in DOMAIN handlers : handlers[i] = r})] = None]
  /\ shared' = shared - 1
  /\ registered' = [registered EXCEPT ![r] = @ - 1]
  /\ UNCHANGED <<dma, dma_count, drivers, driver_count>>

(* dispatch: whom an interrupt on the vector reaches. *)
Dispatch == [r \in Resources |-> Cardinality({i \in DOMAIN handlers : handlers[i] = r})]

-----------------------------------------------------------------------------
(* scan_bus: where function 0 answers, the other functions are asked when   *)
(* it says that there are more.                                             *)
Functions(d) == IF Devices[d] = None \/ Devices[d][1].kind = None THEN {}
                ELSE {f \in DOMAIN Devices[d] : (f = 1 \/ Devices[d][1].multi) /\ Devices[d][f].kind # None}
ScanBus == {<<d, f>> : d \in DOMAIN Devices, f \in 1 .. 8} \cap UNION {{d} \X Functions(d) : d \in DOMAIN Devices}
KindOf(bdf) == Devices[bdf[1]][bdf[2]].kind
InOrder(a, b) == a[1] < b[1] \/ (a[1] = b[1] /\ a[2] <= b[2])

Matches(driver, bdf) == "*" \in Supports[driver] \/ KindOf(bdf) \in Supports[driver]

RegisterDriver(driver) ==
  /\ driver_count < MaxDrivers
  /\ drivers' = [drivers EXCEPT ![First({i \in DOMAIN drivers : drivers[i] = None})] =
                   [name |-> driver, bound |-> None]]
  /\ driver_count' = driver_count + 1
  /\ UNCHANGED <<dma, dma_count, handlers, shared, registered>>

UnregisterDriver(i) ==
  /\ drivers[i] # None
  /\ drivers' = [drivers EXCEPT ![i] = None]
  /\ driver_count' = driver_count - 1
  /\ UNCHANGED <<dma, dma_count, handlers, shared, registered>>

(* bind_all: every driver without a device takes the first that matches,    *)
(* whoever else has it.                                                     *)
BindAll ==
  /\ drivers' = [i \in DOMAIN drivers |->
       IF drivers[i] = None THEN None
       ELSE LET fit == {bdf \in ScanBus : Matches(drivers[i].name, bdf)}
            IN  IF drivers[i].bound # None \/ fit = {} THEN drivers[i]
                ELSE [drivers[i] EXCEPT !.bound = CHOOSE a \in fit : \A b \in fit : InOrder(a, b)]]
  /\ UNCHANGED <<dma, dma_count, handlers, shared, driver_count, registered>>

Unbind(i) ==
  /\ drivers[i] # None
  /\ drivers' = [drivers EXCEPT ![i].bound = None]
  /\ UNCHANGED <<dma, dma_count, handlers, shared, driver_count, registered>>

Init ==
  /\ dma = [i \in 1 .. MaxBuffers |-> None] /\ dma_count = 0
  /\ handlers = [i \in 1 .. MaxShared |-> IF i = 1 THEN "timer" ELSE None] /\ shared = 1
  /\ drivers = [i \in 1 .. MaxDrivers |-> None] /\ driver_count = 0
  /\ registered = [r \in Resources |-> IF r = "timer" THEN 1 ELSE 0]

Next ==
  \/ \E size \in Sizes, owner \in Owners : Alloc(size, owner)
  \/ \E phys \in 0 .. Pages - 1 : Free(phys)
  \/ \E pid \in Owners : FreeAllForProcess(pid)
  \/ \E r \in Resources : RegisterHandler(r) \/ UnregisterHandler(r)
  \/ \E driver \in DOMAIN Supports : RegisterDriver(driver)
  \/ \E i \in 1 .. MaxDrivers : UnregisterDriver(i) \/ Unbind(i)
  \/ BindAll

Spec == Init /\ [][Next]_driverTables
-----------------------------------------------------------------------------
(* However buffers, handlers and drivers come and go: buffers are as large  *)
(* as asked for and share no page; the three counts, on which alone a table *)
(* decides that it is full, are the numbers of entries, so that a free      *)
(* entry is always found; an interrupt reaches each registered handler as   *)
(* often as it is registered; and a driver is bound to a function that      *)
(* answers and that it supports.                                            *)
TablesExact ==
  /\ \A i, j \in DOMAIN dma : dma[i] # None /\ dma[j] # None =>
       /\ 2^dma[i].order >= dma[i].asked
       /\ i # j => Block(dma[i].phys, dma[i].order) \cap Block(dma[j].phys, dma[j].order) = {}
  /\ dma_count = Cardinality({i \in DOMAIN dma : dma[i] # None})
  /\ shared = Cardinality({i \in DOMAIN handlers : handlers[i] # None})
  /\ driver_count = Cardinality({i \in DOMAIN drivers : drivers[i] # None})
  /\ Dispatch = registered
  /\ \A i \in DOMAIN drivers : drivers[i] # None =>
       (drivers[i].bound # None =>
         Devices[drivers[i].bound[1]] # None /\ KindOf(drivers[i].bound) # None /\ Matches(drivers[i].name, drivers[i].bound))
=============================================================================
