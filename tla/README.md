# TLA+ verification of Fabric OS

Fabric OS is a capability microkernel in Rust: no ambient authority, typed
messages as the only way between processes, a supervised process tree and a
governance engine that may forbid any message. This directory holds TLA+ models
of its core, the TLC runs that check them on small instances, and theorems that
TLAPS proves for every instance. `PROJECT.json` maps every definition to the
lines it models, and lists the runs, mutants, hazards and theorems.

All paths below are relative to the repository root.

## 1. Inventory

The kernel runs on one processor. Almost every component is a static behind an
`OrderedMutex` (`kernel/src/sync`), so an operation of one component is atomic
towards the others, and what interleaves is (a) operations of different
components, because callers release one lock before they take the next, and
(b) the timer interrupt with whatever it interrupts.

| Component | State | Operations | Interacts with |
|---|---|---|---|
| Capability store (`capability/store.rs`, `budget`, `nonce`, `hmac_engine`) | token map with intrusive parent/first-child/next-sibling links, nonce and budget trackers, tick | create, delegate, validate, revoke (cascading), advance_ticks, clear | validate is called by bus::send and the file and socket system calls |
| Hash table (`capability/slab.rs`) | slots, count | insert, get, remove (backward shift), get_or_insert, clear | holds tokens and trackers |
| Message bus (`bus/router.rs`, `queue`, `sequence`, `arena`, `monitor`) | inboxes, last sequence numbers, payload arena, taps, counters | register, unregister, send, receive, taps, clear | spawn registers, terminate unregisters, drivers receive |
| Bus send pipeline (`bus/mod.rs`) | none | policy, capability, owner, router, each under its own lock | governance, store, bus |
| Audit log (`bus/audit.rs`) | ring of hash-chained entries | append, verify_chain | every routed or refused message |
| Process table, scheduler, supervision (`process/`) | PCBs, run queues, current process, restart histories | spawn, terminate, crash, block, unblock, schedule_next, tick, run_aging | timer, bus, supervision tree |
| Timer and context switch (`x86/idt.rs`, `x86/context.rs`) | frames on kernel stacks, IDLE_RSP, TICK_COUNT | timer_handler, try_switch_next | scheduler, system calls |
| System calls (`x86/syscall.rs`) | scratch | exit, yield, files, sockets, windows, memory | everything |
| Governance (`governance/`) | safety state, signal buffer, authority state, break-glass, amendments | reports, heartbeat, tick, evaluate_policy | every bus::send |
| AI council (`council/`) | weights, golden snapshots, drift windows, overrides | evaluate, train, rollback, override | governance (no genesis rule asks it) |
| Frame allocator (`memory/frame.rs`) | bitmap, free lists by order | init, allocate, deallocate | page tables, DMA, stacks |
| Page tables, address spaces, ELF loader, heap | page tables, owned frames | map, unmap, load, drop | frame allocator, spawn_user |
| Handle table (`handle/`) | slots with generations | alloc, resolve, release, clear | PCB, file and socket calls |
| VFS (`vfs/`) | inodes, open files, mounts, tmpfs contents | open, read, write, seek, close, readdir | handles, capabilities |
| Network (`network/`) | sockets, TCP connections, the loopback queue, ARP and DNS caches, TLS sessions, headers and checksums | socket API, delivery by whoever calls, resolve, handshake, records | NIC drivers, terminate |
| HAL (`hal/`) | registry, DMA buffers, interrupt handlers, bound drivers | register, dispatch, bind, alloc, free | bus, PCI, interrupts |
| Drivers (`drivers/`, `virtio/`) | descriptor rings, virtqueues, port states, TRB rings, key states | transmit, poll, recycle, port events, reports | devices, network stack |
| Interrupt controllers (`x86/apic.rs`, `ioapic.rs`) | requests, vectors in service | route, start_timer, send_eoi | every handler |
| Keyboard, window manager, display | key ring, windows, focus, events, surfaces | events, create, focus, present | interrupts, system calls |
| Gaming (`gaming/`) | sources, stream clients, pads, frames | mix, decode, press | callers |
| Virtual machines (`vmx/`) | guests, their frames and page tables | create, load, run, destroy | frame allocator |
| JavaScript platform (`v8_platform/`) | thread table, blocks, counters | create, join, allocate, free | frame allocator, heap |
| Butler state page (`butler_state/`) | one persistent block | save, restore | Butler restarts |
| Boot and self tests (`main.rs`, `stress/`) | none | straight-line | everything |

What is hard here:

* long sequences of legal calls on linked structures: delegation trees, buddy
  lists, run queues, probe paths;
* the timer interrupt between any two steps of spawning and exiting;
* checks made under one lock and used under another (`bus::send`);
* ring buffers that wrap over what is still referenced;
* limits: full tables, full inboxes, full signal buffers, wrapping generations;
* what must happen in the end: aging, the idle loop, the dead-man switch, the end
  of every interrupt;
* devices that take steps of their own: descriptors handed over by an index or a
  bit, change bits cleared while they are set again, lost and repeated packets;
* partial failure: a crash that escalates, a send refused after it consumed a
  sequence number.

`PROJECT.json` lists these as hazards, at their lines, with the properties that
would catch them.

## 2. Modules

| Module | Models | Properties |
|---|---|---|
| `CapabilityStore` | the store; the links are the code's, walked as the code walks them | child lists exact, no orphan, attenuation, confinement, exact revocation, no replay, trackers bounded |
| `CapabilityHistory` | the store with the sequence of ticks at which each token was accepted | what a budget bounds, lifetimes |
| `FixedMap`, `BoundedMap` | the hash table; the map it implements | probe paths, refinement |
| `Bus` | the router under its lock, and the same with a log of accepted messages | conservation, order, taps, payload lifetime |
| `AuditLog` | ring of chained entries and the check of the chain | changes show, an untouched log passes |
| `Hal` | requests to drivers and `bus::send` as four locks in a row, with revocation, exit and faults in between | answers in order, none lost without a cause |
| `Process` | table, scheduler, supervision | queues and families exact, restart groups, escalation, starvation, inversion |
| `Preemption` (extends `Process`) | timer, context switch, spawn_user, exit, yield | frames intact, processor follows scheduler, every user process runs |
| `LockOrder` | paths of the kernel as sequences of locks, under the timer | no circular wait; who stops the timer |
| `Governance` | the four governance state machines and the policy | policy, lockdown, dead-man switch, bypass, signals |
| `RuleEngine` | the table of rules | the highest matching rule decides |
| `Council` | three models, training, drift, overrides | weights and hashes, rationing, who may allow |
| `FrameAllocator` | the buddy allocator | memory partitioned, no false exhaustion, healing |
| `AddressSpace` | spaces, page tables, ELF loading, spawn_elf | no frame in two places, what a failed load leaves behind |
| `HandleTable` | handles with generations | what a handle resolves to, at any later time |
| `Files` | file system calls over descriptors, open files, inodes, tmpfs, devfs, initramfs | descriptors, sizes, listings |
| `Sockets` | socket calls, UDP, TCP, loopback queue, delivery by callers | streams intact but for what was thrown away, ends agree |
| `Resolver` | DNS cache, retries, shared response buffer, ARP | the address belongs to the name |
| `Tls` | session table, handshake, records | no key and nonce twice, sessions lost counted |
| `Wire` | headers as bytes, checksum, padding, damage | what goes in comes out, a standard receiver agrees |
| `DriverTables` | DMA buffers, interrupt handlers, PCI binding | counts and tables agree |
| `Interrupts` | vectors, requests, service, ends | what stays in service, the timer |
| `E1000e`, `VirtioNet` | descriptor rings and virtqueues against their devices | packets in order, none overwritten |
| `Xhci`, `Hid` | root hub, rings and keyboards on USB | a stale cache shows as a change, no half-written command, keys followed |
| `WindowManager`, `Surfaces` | windows, focus, events, composition; surfaces and their copies | focus told, screen follows, pictures shown |
| `Audio`, `GameStream` | mixer; stream clients, pads, frames, codec | samples once, frames and codes exact |
| `Vmx` | guests, their frames, a small emulator | guests apart, execution in portions |
| `V8Platform` | thread table; blocks and atomic counters | threads and bytes accounted |
| `ButlerState` | the persistent page and crashes of Butler | what was saved survives |
| `Boot` | the phases of boot with the self tests | parts up and four tables clean when the first process starts |
| `MC...` | instances: see section 3 | |
| `...Proofs`, `NatLemmas` | theorems: see section 5 | |

How state corresponds to code:

* **CapabilityStore.** `tokens` is the map of `StoredToken`; `UnlinkChild`,
  `SiblingChain` and `Cascade` follow `unlink_child`, `collect_children` and the
  explicit stack of `revoke`. HMAC is an injective function of key and content.
  `result` is the last call's answer. Identifiers are never reused.
* **FixedMap.** Open addressing with linear probing; `hash` is arbitrary and
  fixed in Init, which covers every collision pattern. The abstract map refuses
  a new key at three quarters of the capacity, as the code does.
* **Bus.** `Send` checks in the code's order (version, sender, receiver, lengths,
  sequence, payload, inbox); the sequence number and the arena bytes are consumed
  before the inbox may refuse. The arena is bytes at offsets, with the wrap-around
  of `allocate`. The actions whose names begin with H add `log`, never read by the bus.
* **Hal.** `call` holds how far each caller of `bus::send` has come: `Policy`,
  `Validate`, `Owner` and `Route` are its four locks. A dispatcher is a caller of
  `dispatch_pending`; a driver is its class and its data. What governance, store
  and router refuse for is cut down to a mode, the set of valid tokens and the
  inboxes. `refused` records every answer the pipeline refused, with the cause.
* **Process.** Ticks are ages, saturated where the code stops telling them apart.
  One action per public function of `process/mod.rs`; `Crash` includes the whole
  of `handle_child_crash` with its escalation. Terminated PCBs stay in the table,
  as in the code. Loops are recursive functions of the round; `run_aging`, which
  collects all candidates before it moves the first, is written in closed form.
* **Preemption.** `cpu` is the frame that runs, `stack[p]` whether `saved_rsp` is
  the process's latest frame. `spawn_user` is two steps because the code takes
  the lock twice.
* **LockOrder.** A path is the sequence of locks and drops of one call, read off
  the code; threads are switched by the timer unless TABLE or SCHEDULER is held.
  `Debug` selects the check of levels; the build of the Makefile has none. The
  error path of `syscall_open`, which closes the file again under TABLE, is a path
  of its own; the nesting of `vfs::init` and `load_initramfs` is `BootVfs`, which only
  the boot code runs, before any other thread.
* **Governance.** Ages instead of ticks. The rules are the ten genesis rules, by
  priority. `evaluate_policy` changes the modelled state only when it escalates,
  so its action is guarded by that; the verdict of the other calls is `Allowed`.
  `recent` is a history of light signals for one property.
* **Council.** Weights are a count of changes; whether the suite passes, an update
  drifts or a model votes yes is any choice. `tainted` remembers what memory
  corruption touched.
* **FrameAllocator.** Free lists are sequences; the canaries are left out, they
  detect corruption from outside. Init covers every memory map of the instance.
* **AddressSpace.** A load is one step per page, so that memory may run out at
  each; an image that is refused before or at a page (header, kernel address) ends it
  as well. Frames are handed out in the order of the buddy lists, and a kernel stack
  is an aligned pair. `lost` are the frames that nothing names any more.
* **Files.** A call is cut where it changes locks: the offset is read under
  OPEN_FILES, the inode under INODES, the contents under TMPFS. Paths are sequences
  of components, contents short sequences.
* **Sockets.** `pend[u]` is what the call of user `u` still has to do; a packet
  taken from the queue is held by its taker until it is applied. `lost` are the
  bytes that were answered Ok and thrown away: by a send longer than a packet, a full
  queue, a full receive buffer, a connection not yet established. `trouble` records
  overtaking and reuse of a port pair, beyond which the stack promises nothing. The
  scan for an ephemeral port is one step that takes the next free one; its 1000 tries
  and the wrap-around of the range are beyond the bound.
* **Resolver, Tls.** One action per stretch under one lock. Frames are a set that
  may lose, repeat and reorder; a DNS reply may lack an address, or be too short to
  carry an identifier, which `dns_resolve` then does not check. `tls_recv` is three
  steps and `tls_close` two, between which the table belongs to anybody. Where the
  code would panic (a ServerHello shorter than the slices of `tls.rs:604`, an unwrap
  of a session that is gone) `down` says why, and the kernel stops. Keys are named
  by their handshake.
* **V8Platform.** `v8_thread_create` takes no lock over its table: fetching the
  identifier, finding a slot, writing it and counting are steps of their own, and
  callers race. `thread_create` of the stubs always answers 1, which the code takes
  for a failure, so every call ends by clearing its slot; no thread ever starts.
* **Wire.** Bytes have eight values, so that words and carries wrap as 16-bit sums
  do, with every carry reached. Headers keep their fields' order and lengths.
* **Device modules.** The device is external: it does what the driver relies on,
  at any time. In `E1000e` and `VirtioNet` histories of queued, sent, arrived and
  taken packets are compared. `VirtioNet` sets `broken` when `recycle_rx` writes past
  the descriptor table; the driver goes on, the device receives nothing more. In
  `Xhci` a port register is its bits, with write-one-to-clear semantics; the handler
  and the resume of a USB 2 port are several steps, between which ports change.
* **WindowManager.** A call changes the table, then composes, then presents, each
  under its own locks; the keyboard interrupt comes in between and may fail to get
  the lock. System call 20 draws a surface over the same frame buffer (`DisplayPresent`):
  the screen shows it until windows are presented again.
* **Boot.** `Program` is the sequence of phases with what each needs, brings up and
  clears; a gate may leave anything in the tables it works on. Six tables are
  followed: process, scheduler, bus, capabilities, governance, council.

## 3. Runs

A run is a question; where components share no state, a run holds several of
them side by side, and the variable `which`, chosen in Init, says which one a
behaviour is about: state spaces add up instead of multiplying. An MC module
extends the components that theorems are about, so that the run checks the very
definitions that are proved, and instantiates the others: `MCPolicy` extends
`Governance`, `LockOrder`, `Council` and `RuleEngine`; `MCTables` extends
`CapabilityHistory`, `FixedMap`, `HandleTable`, `FrameAllocator`, `Resolver`, `Tls`
and `ButlerState`; `MCMessaging` extends `Bus`, `AuditLog` and `Files`; `MCDevices` extends
`Interrupts` and `E1000e`.

`ResourcesAccounted` of `tables` is one property for five instantiated components:
address spaces, driver tables, threads and memory of the JavaScript platform,
guests. `DevicesFaithful` of `devices` is one for the instantiated devices and what
they show and play: virtqueues, root hub, command ring, USB keyboards, windows,
mixer, game streams, surfaces.

| Run | Question | Bounds |
|---|---|---|
| `capability_tree` | any sequence of create, delegate, validate, revoke, clear | 3 live tokens, 4 identifiers (trees of depth 3, a reused place, siblings), one nonce |
| `process_sched` | table, queues, families agree under every operation | 3 processes, table of 3, bus of 2 (one registration fails) |
| `preemption` | timer interrupts everywhere; liveness of user processes | 4 processes, a loop of 3 skips, 1 process without stack besides the Butler |
| `messaging` | what is handed over arrives as it was sent | bus: 2 processes, inbox of 2, arena of 5, a tap; hal: 2 clients, 2 dispatchers, 2 requests, 1 fault; audit: ring of 3, 7 entries; files: 2 processes, 4 handles, 4 calls, every kind of path; wire: one message of each kind, payloads of 0 to 3 bytes, a short frame, one damaged byte |
| `policy` | who may do what, and in which order | thresholds in the order of the code's, buffer of 2 signals; council: one update per period of 2, an override; rules: table of 3 with equal priorities; locks: 3 threads, 3 paths of 10 |
| `sockets` | two processes, every call, one packet queue | 2 sockets besides accepted ones (table of 3), queue of 2, rings of 3, 2 sends, one of which may be longer than a packet |
| `tables` | every bounded table under every sequence of its calls | hash table of 4 with homes at both ends, 2 slots and 3 generations, 8 frames of every memory map, spaces in memories of up to 26 frames, budgets to tick 3, 2 resolvers with 2 names and 2 attempts, 2 TLS sessions, 2 buffers and 2 drivers, 3 callers for 2 thread slots, 3 blocks, 2 guests in 11 frames, counts to 2 |
| `devices` | the kernel against its hardware | every boot, 2 keys, rings of 3 with 5 packets, 2 ports with 3 changes, TRB ring of 4 with 7 commands, configurations of up to 3 descriptors, 2 windows of 2 processes, surfaces up to 4 on a screen of 2 by 2, 2 audio sources, codes of up to 5; supervision trees of 4, intensity 1 (Butler 2) |
| `process_inversion` | expected violation, see section 6 | 3 levels, 4 processes |
| `process_aging` | expected violation, see section 6 | 3 levels, 3 processes, one of the top level |
| `lock_timer` | expected violation, see section 6 | 2 threads, 2 paths |
| `timer_keyboard` | expected violation, see section 6 | one key |

Each bound is the smallest at which the interesting case occurs: a cascade that
goes down two levels and back to a sibling, an inbox and a table that fill, an
arena that wraps over a queued payload, a generation that wraps, an escalation
whose supervisor is at its own limit, rings that go round twice, a frame that
passes from one guest to the next, an answer to a former attempt that arrives
during the next. Where a run has `CHECK_DEADLOCK FALSE`, the bound on
identifiers, ticks, calls or log entries ends the behaviour, not the code.

Two constraints cut behaviours short: `sockets` does not follow a behaviour
beyond an overtaken packet or a port pair that is used again (`Undisturbed`, after
which both properties say nothing; lost packets and bytes are followed), `tables`
not beyond two queries with the same identifier
(`NoClash`: the identifiers are 16 bits of the clock). Symmetry is over clients,
processes, names, threads and payload contents, in runs without liveness.

Every property of a passing run has a mutant: a plausible bug in one definition
that makes TLC find the property violated.

### Fairness

* `preemption` assumes weak fairness of the timer interrupt alone. `UserRuns` needs
  nothing else; that the timer does keep interrupting is what `timer_keyboard`
  asks.
* `process_aging` assumes weak fairness of `Schedule`, `Tick` and `ConsumeTick`, which
  the timer handler calls. `run_aging` does not happen in that loop: nothing in the
  repository calls it.
* `timer_keyboard` assumes that the boot code runs on, the counter of the timer
  expires again and again, locks are released, and the APIC delivers, for each
  vector, what it could deliver infinitely often (strong fairness: a vector may be
  held up by others in between).

## 4. What the runs show

* Cascading revocation removes exactly the delegation subtree, for every order
  of delegations and revocations, and what `validate` accepts is confined by
  every ancestor; no nonce is accepted twice. The trackers never hold more entries
  than the store, which is what keeps `get_or_insert` from panicking.
* A budget is a fixed window: within any stretch as long as the interval up to
  twice `max_uses` less one are accepted (`BurstBound` states the true bound).
* Backward-shift deletion keeps every probe path, also over the wrap-around.
* The bus neither loses nor reorders an accepted message; a refused one
  (full inbox) still consumes its sequence number. A payload survives until the
  arena has gone round once; nothing protects it longer.
* Answers of a driver arrive at whom they are for, in order and with what the driver
  holds. A request that it handled is being answered, was answered once, or its one
  answer was refused; and a refusal has a cause: a full inbox, a fault (client gone,
  token revoked, policy, driver restarted), a later answer that came first, or an
  earlier answer that did not reach the router (see section 6 for what this does to
  all later ones).
* The audit chain shows every changed entry and passes every untouched log,
  however often it has wrapped; entries missing at its two ends do not show.
* Run queues hold each runnable process exactly once, at its priority, after any
  mix of boosting, waking, aging and terminating.
* A ready user process runs as long as the skip loop can pass all processes
  without a kernel stack (fewer of them than the loop has rounds: the case of eight is
  outside the bound, see section 6).
* The paths of the kernel that run after boot do not follow the levels of `sync`, but
  no two of them nest two locks the other way round; boot nests INODES and TMPFS the
  other way round than `vfs_readdir`, alone. A thread that spins leaves the timer free
  to run the holder of its lock, except in the error path of `syscall_open`, which waits
  for OPEN_FILES with TABLE held (`lock_timer`, section 6).
* The allocator never loses memory and merges back to the initial state. A failed
  load gives its tables back; the pages it placed and the one in hand are lost, and
  they are all that is lost: this is what the code does, and `FramesAccounted` says how
  much it is.
* A handle names what it was issued for while its process is not restarted and
  its slot was released fewer times than there are generations. The size in an inode
  never exceeds the contents, and is their length where writes to the file do not
  overlap; where they do, a smaller size may stay. Until a file call is made on a
  socket descriptor, no descriptor is lost or shared.
* What a connection receives is, in order, what its peer was answered Ok for, without
  the bytes thrown away: by a full loopback queue, a full receive buffer, a connection
  not yet established, or a send of more than 1460 bytes, which moves the sequence
  number on, builds no packet and answers Ok. Nothing is ever retransmitted. The two
  ends agree on the state of the connection even then. A delivery that overtakes
  another is excluded, not ruled out.
* A resolved address belongs to the name although all resolutions share a buffer; a
  reply too short for an identifier can only end a resolution. A nonce is never used
  twice under one key and no unwrap of the handshake panics, as long as processes use
  the sessions that are theirs; each handshake that a socket error ends loses one
  session.
* The genesis rules amount to: the Butler always, the kernel's pid never, others
  by a priority floor per safety state and not in Emergency; no message can end a
  Lockdown, although `evaluate_policy` forces Chaos, a milder state: it is the
  order of two rule priorities that prevents it.
* Both network drivers keep packets in order. That of the e1000e does so over any
  number of wrap-arounds; that packets leave at all is not said (section 6). The
  virtio receive ring works once: the first frame beyond its size that is recycled
  breaks it, and `VirtioInOrder` says that it is this frame and none before.
* Where the hub's cache of a port is out of date in what is plugged in or in an
  over-current, the port still shows a change, or its event is being handled. That
  the hub comes to look is not said.
* Every event of a USB keyboard's report arrives unless one report has more than the
  16 that the buffer holds.
* When the first process starts, the process, scheduler, bus and capability tables
  hold nothing of the tests; governance and council may, and further tables are not
  followed.
* Guests never see what a former guest wrote, and a guest run in portions does
  what it would do in one run.

## 5. Proofs

Each theorem holds for every value of the constants within the named
assumptions. Each safety theorem rests on an inductive invariant, proved to hold
initially and to be kept by every action; the temporal step is the last line.

| Module | Theorems | Inductive invariant |
|---|---|---|
| `CapabilityStoreProofs` | `TypeCorrect`, `NoOrphansEver`, `ListsExactEver`, `AttenuationEver`, `AcceptedIsConfinedEver`, `RevokeIsExactEver`, `TrackersWithinStoreEver`, `NonceAdvancesEver` | `IInv` |
| | `BudgetsKeptEver` | `BudgetInv` |
| `TableProofs` | `ImplementsMapEver` (refinement of `BoundedMap`), `SearchSoundEver` | `MapInv` |
| | `HandlesFaithfulEver` | `HandleInv` |
| | `StateSurvivesEver` | `ButlerInv` |
| | `NonceUniqueEver` | `TlsInv` |
| | `MemorySoundEver` | `MemoryInv` |
| | `ResolvedRightEver` | `ResolverInv` |
| `BusProofs` | `PerSenderOrderEver`, `PayloadSurvivesEver`, `TrackerFollowsEver` | `BusInv` |
| | `BusFaithfulEver` | `BusInv`, `QueueInv`, `TapInv` |
| | `TamperingShowsEver` | `RingInv` |
| | `FilesExactEver` | `FilesInv` |
| `PolicyProofs` | `DeadManSwitchEver`, `PolicySoundEver`, `EscalationSoundEver` | `EngineInv` |
| | `SignalsCountedEver` | `EngineInv`, `SignalInv` |
| | `NoCircularWaitEver` | `LockInv` |
| | `HighestRuleDecidesEver` | `RuleInv` |
| | `CouncilSoundEver` | `CouncilInv` |
| `ProcessProofs` | `TableExactEver` | `Inv` |
| | `CpuFollowsSchedulerEver`, `FramesIntactEver` | `PInv` |
| `DeviceProofs` | `ServiceEndsEver` | `IrqInv` |
| | `PacketsInOrderEver` | `TxInv`, `RxInv` |

**Assumptions.** The ASSUMEs are evaluated by TLC in the runs of their modules.

* `CapabilityStore`: permissions include GRANT and WRITE, lifetimes and nonces are
  naturals, budgets are pairs of naturals, `None` is none of them.
* `Bus`: pids are positive, sizes and lengths are naturals, queues and taps have at
  least one place, a payload is at most as large as the arena, `None` is no arena.
  `AuditLog`: the ring has at least one place. `Files`: a process has at least the
  three handles of its standard streams; names, contents and lengths have their types.
* `Governance`: times and weights are naturals and the thresholds are in the order of
  the code's. `RuleEngine`: priorities are naturals, and every genesis rule has a name
  of its own. `Council`: the trained models and the sentinel are models; at least one
  update in a period of at least one tick.
* `Process`: there are at least two levels and one pid, times, limits and slices are
  naturals, intents have a base priority that is a level and one of the code's
  categories, strategies are the code's three. `Preemption`: the loop of
  `try_switch_next` has at least one round.
* `FrameAllocator`, `Tls`, `ButlerState`, `Resolver`: sizes and times are naturals.
  `E1000e`: the transmit ring has a descriptor, the receive ring two (with one, the
  descriptor that `init_from_pci` keeps back would leave the device none).
* The theorems of `FixedMap` and `HandleTable` state theirs: a capacity of at least
  one, homes that are slots, an entry that is not `None`; a natural number of slots
  and at least one generation.

**The capability store.** `IInv` is `TypeOK`, `NoOrphans`, `ChildListsExact` and
`Attenuation` together. None is inductive alone. That revocation leaves no
orphan needs the lists to be exact, since the cascade walks them; that
unlinking keeps the lists exact needs every parent to be stored; and exactness
is stated locally (the first child is the youngest child, and each sibling link
leads to the next older one), which is what makes one link update
provable. The argument:

1. `ChainExact`, `WalkFindsChildren`: in such a list, walking from the first
   child visits exactly the children. Identifiers fall along the walk, so the
   least set closed under the links is the set of children.
2. `UnlinkExact`: unlinking one child keeps the other lists exact.
3. `CascadeIsDescendants`: the cascade after the unlinking collects exactly the
   descendants; `DescendantsClosed`: what remains is closed under parents.
4. `GrowTree` for create and delegate, `PruneTree` for revoke, `InvStep` for all
   actions.
5. `AncestorsConfine` leads from one delegation to the whole chain.

`BudgetInv` relates the tracker's two numbers to the history: the last `used` uses
are those of the current window, the first of them opened it, and at most
`max_uses - 1` of the earlier ones fell into the interval before its start. From
that the bound of `BudgetsKept` on every stretch, not only on the tracker's own
windows, follows by arithmetic.

**The hash table.** Slots are compared by their distance from the home of an
entry, going up and around (`Dist`), so that the two cases of `should_move` become
one: the gap is on the way to the entry (`MoveIsOnPath`). `MapInv` says that no slot
nearer to the home than the entry is empty, that keys are unique, and that at most
three quarters of the slots are filled; so a probe meets the key or an empty slot,
and an empty slot proves the key absent (`ProbeDecides`). The loop of a removal has
the invariant `Filling`: the moving gap is the only empty slot on a way, and only to
entries the scan has still to meet. The refinement mapping is `Contents`, the
function from the keys in the table to their values.

**The bus.** `BusInv` adds two facts about every logged message. `Tracked`: the
sequence tracker is at or past each message of the current registration of its
sender, so that the next one is larger. `Survives`: seen from a payload after which
`a` bytes were allocated, the cursor is `Behind` it, with nothing lost in between,
or `Before` it, with fewer than `MaxPayload` bytes lost at the wrap-around, or enough
bytes were allocated to say nothing. `Geometry` is the arithmetic of one more
allocation.

`BusFaithful` is about four things that one call changes together: counters, inboxes,
taps and the log. `QueueInv` says that each accepted message is queued once or gone,
and that an inbox is the rest of the positions of the log that were sent to it since
its registration; `TapInv` says the same of a tap and the messages since it was added,
up to what its buffer has pushed out. `Recent` states both as a strictly increasing
choice of positions, so that appending to the log and to a queue, or taking the head
off, is one step each, and no selection over sequences has to be computed.

**The audit log.** A hash is modelled as the sequence of everything hashed into it, so
it is one longer than the hash before. `RingInv` says that the k-th entry that
`verify_chain` visits was written as number `total_count - RingCount + k` (`Entered`) and
holds the hash of the one before it, over any number of wrap-arounds. What a change of
one entry breaks follows from the lengths: a copy of another entry has a hash of the
wrong length, whatever its event.

**The file system.** `FilesInv` adds to the types what calls under way rely on while
other processes run. `SizesKept`: a size on its way from TMPFS to the inode is never more
than the file's length, and while no two writes overlapped (`raced`) there is at most one,
the right one. `Matched` is `FdsExact` over tables given as parameters, so that one lemma
(`MatchedOpened`, `MatchedClosed`) serves every call that gives or takes a descriptor.
`CallsOwn`: the open file of a call in progress still has a handle of the caller and the
inode the call found; it is what keeps an offset stored at the end of a call from landing
in a file that another process opened meanwhile. `Listed` bounds offsets by their
directory, and `NewQuiet` says a process that has not started has neither handles nor
calls. `Matched`, `CallsOwn` and `Listed` need `~confused`: a file call on a socket
descriptor loses the socket flag in `resolve_fd` and acts on an unrelated open file, and
then nothing is promised.

**Governance.** `EngineInv` adds to the types `SilenceBounded` (how long silence lasts in
each state of the authority) and `BypassNotInNormal`. `PolicyFollows` leads from the
ten rules and their priorities to the intended policy, for every context.

`SignalInv` relates the signal buffer, which drops the new signal when it is full, to
the history of the latest signals. Their ends agree from some point on; what is
before it, in either, is at least `e` ticks old, where `e` is the age of the latest
dropped signal, and while that one is within the window the history is full. So with
room in the history nothing in the window was dropped, and the buffer is the last
window of the history. Ages fall along both, so that the aging of `tick` takes off a
front part (`AgedSuffix`).

**Rules.** `RuleInv` says that the table is sorted by descending priority, holds no name
twice and is, as a set, what the callers asked for. `InsertedSound` is one round of the
insertion sort, `SortedSound` all of them (`RunStays`).

**The council.** `LoopFollows` relates the learning loop of a model to the history of its
updates: the updates of the current period, counted as pairs, are as many as the loop
has counted, and all of them before the period ran out. A period that has ended had at
most `MaxUpdates`, and the history of it does not change any more.

**Locks.** The levels of `sync` are not respected by the code, so they prove
nothing. `Rank` is another order of the same locks, which every path that runs after
boot respects wherever it nests two of them; the path of boot runs first and alone
(`BootRank`). `LockInv` says that each thread is at some point of a
path, with the locks held that the path holds there. A set of threads that wait for
each other would need a lock of the highest rank waited for to be held by a thread
that waits for a higher one.

**Handles.** `Follows` gives the generation of a slot as a function of the handle's
own and of the number of releases since, modulo the generations: this is why
a handle is stale until exactly that many releases have come round.

**Butler's page.** `ButlerInv`: the page is what was last saved, and its checksum is right;
the copy is what Butler has recorded since. Both are compared with histories that do
not saturate, up to the limit of a count.

**TLS.** Every session has a birth, the number of its handshake, and once the handshake is
done this is its key (`Births`). Sealed records belong to one birth and are below the
next number of its session (`Sealings`); a process knows only sessions whose handshake
is done (`Knowns`), so no record is sealed with a key of a handshake still running; a
session that `tls_close` has marked stays until the same process frees it (`Closings`),
although the table is unlocked in between. All of this holds until a process uses an index of a session closed before (`stale`), from
where the code promises nothing.

**The frame allocator.** Held and free blocks are sets of aligned intervals. `MemoryInv`
says that they do not overlap and cover the usable frames, and that the free blocks are
`Merged`: no two of them are the halves of a block. Two aligned blocks are disjoint or
one contains the other (`Nested`: each size is a multiple of the smaller ones), so a run of free
frames that is aligned and of the size of a block lies within one free block: this is
why a request fails only if there is none. That memory all given back is the free
lists of boot follows from the uniqueness of a merged cover.

**The resolver.** `ResolverInv` says that there is a function `own` from the identifiers used
to names, with which all frames on the wire, all resolutions and the response buffer
agree. A new query extends it. It is a function as long as no identifier is used twice
(`clash`); after that an answer may belong to either name. The cache compares the
first 64 bytes of a name: a longer one is never found again, but the name that those
bytes make is, with the address of the longer one. `ResolvedRight` says so (`AskedAs`).

**Processes.** `TableExact` counts places in queues; `Inv` says the same in a form that
one update at a time can keep. `Exact`: each list is without repetition, a process is
in the queue of its level exactly when it is runnable and not current, and in no
other. In the middle of an operation one process is out of step: `Off` says that it is
in no queue and not current, everything else being exact. `DequeueOff` leads from `Exact`
to `Off` and `EnqueueOn` back, and every update of a PCB happens in between. `Settled` adds
types, a table that keeps its pids, and unchanged supervisors and lists, so that the
loops (inheritance, the killing and restarting of a group, escalation) need one lemma
each: a round leaves the state settled, so all rounds do (`RunStays`). `Family` ties
the lists of children to the supervisors and to the bus: a process not on its
supervisor's list has been unregistered.

**Preemption.** `PInv` adds to `Inv` that the frame that runs is the current process's,
or that of a process that has ended, the boot context or the dead loop (`CpuRight`);
that a frame out of date belongs to the process that runs or to one that has ended
(`FramesRight`); and that the idle frame is kept unless the boot context runs
(`IdleRight`). The last is what makes `IDLE_RSP` safe: where the timer stores the
interrupted frame as the idle one, it is the boot context's. `Exact` takes the set of
processes that `try_switch_next` has put aside, so that `schedule_next` is one lemma for
every round of its loop; `EnqueueSkippedSettled` empties that set again, which needs the
processes in it to be distinct, ready and unchanged in priority (`Apart`, `Skippable`).

**Devices.** `IrqInv` adds to `ServiceEnds` that a request of the keyboard means a key: all
three vectors have one priority class, so none interrupts another, and each handler
but the keyboard's ends what it began. The rings of the network card are described from
the device's side (`Around` counts places from its head): `TxInv` says that the
descriptors from head to tail are the packets not yet on the wire and all others are
done, also when the ring is full and head meets tail; `RxInv` that the descriptors from
the software's head to the device's are the frames not yet taken, and that a mark of
the device is left behind only on the one just copied. That `recycle_rx` computes the
descriptor from the head, without remembering which was polled, is right because it
is the one before it, whichever way the ring has turned.

Walks and cascades of the store are defined as least closed sets rather than by
recursion. Where a model uses a recursive function (the loop of `BackwardShift`,
the loops of `Process` and `Preemption`), `NatLemmas` proves that it exists, and properties of its values follow from
the least natural number at which one would fail; induction over data is not needed.

**Only model-checked.**

* Liveness: `UserRuns`; it needs fairness, which is out of the prover's reach.
* `BootReady`: `Boot` has no parameters, so the run is about all of it and a proof would
  add nothing.
* `WireFaithful`: what encoders, decoders and checksums compute for every length of
  payload needs induction over data.
* `AnswersInOrder`, `StreamsIntact`, `EndsAgree`, `ResourcesAccounted`,
  `DevicesFaithful`: several parties with calls in progress or a device each; no proof
  has been attempted.
* `CrashHandled`: it holds for one-for-one and one-for-all only (section 6), so it is no
  theorem for every set of strategies.

## 6. Where code and documentation disagree

Four are kept as runs, the others were met while modelling and, where a model
shows them, confirmed by TLC.

* `process_inversion` (run): `unblock` takes the boost from the process waited
  for even when others still wait for it, so a process of the highest priority
  waits behind one of the lowest. README.md:561 lists "no priority inversion".
* `process_aging` (run): `scheduler.rs:4` says "Aging prevents starvation" and
  README.md:561 "no starvation"; `run_aging` has no caller, so in the loop that the
  timer runs `schedule_next` picks the highest priority for ever. What saves the user
  processes of today is that `try_switch_next` passes over the Butler, which has no
  stack, and that all of them have one priority (`UserRuns`).
* `lock_timer` (run): `idt.rs:306` says of a held TABLE "skip context switch this tick".
  `syscall_open` with a full handle table calls `vfs_close` under TABLE
  (`syscall.rs:818`), which spins on OPEN_FILES; if the holder of that was preempted, no
  tick ever switches to it. `sync/mod.rs:7` asks for the other order.
* `timer_keyboard` (run): neither `keyboard_irq_handler` nor its arm in
  `interrupt_dispatch` (`x86/idt.rs:221`) sends an end of interrupt. Vector 33 stays
  in service, and the timer (32) and the NIC (43), of the same priority class, are
  never delivered again after the first key. `main.rs:271` says "Start APIC timer
  (enables preemptive scheduling)".
* `capability/store.rs:148` says "Child expiration must not exceed parent's";
  a requested lifetime of zero (never) passes the clamp, and lifetimes count from
  each token's own creation.
* `bus/queue.rs:18` documents an envelope's HMAC over its payload; the arena
  wraps over payloads that are still queued, and nothing checks on receive.
* README.md:547 says of rest-for-one "restart it and all children started after
  it"; `spawn_order` is the length of a list that shrinks, so orders repeat after
  a termination and an older sibling may be restarted.
* The comment on the skip loop in `x86/idt.rs` says that skipping prevents
  starvation; eight processes without a kernel stack above a user process use
  up the loop at every tick.
* `handle/table.rs:5` says that generations prevent stale use; `clear`, called
  when a process restarts, resets them, and a handle from before may resolve to a new
  capability. `HandlesFaithful` leaves such handles out (`cleared`).
* `governance/safety.rs` says of signals that they "are accumulated in a sliding
  window. If the weighted sum exceeds the threshold, the state escalates"; a full
  buffer keeps the oldest signals and drops the new one, so after the old ones
  expire the sum lacks signals of the window (`SignalsCounted` states what is
  left). The header counts alarms "in window", but alarms have no window.
* `governance/break_glass.rs` says "Auto-expires after 60 seconds"; while Lockdown
  and Emergency last it opens again one tick after it expired.
* `governance/constitution.rs:7` requires the Normal state for amendments;
  `propose` checks it, `apply` does not.
* `sync/mod.rs:7` asks for strictly ascending levels; `capability/store.rs:107`
  takes HMAC_KEY, of the same level as STORE, under STORE, and a debug build panics
  there (`LockOrder` with `Debug` TRUE).
* `elf/mod.rs:125` promises pages mapped "with merged flags"; `map_user_page`
  (`address_space/per_process.rs`) makes every user page writable.
* `hal/dma.rs:112` says "Called during process teardown"; only a self test calls it.
* `drivers/usb/xhci/port.rs:330` keeps the change bits out of writes to a port
  register, but `PORTSC_CHANGE_BITS` (`regs.rs:265`) lacks the enable bit, which is
  cleared by writing a one as well: acknowledging a reset disables the port.
* `ip.rs` has a payload length "(total - header)"; `nic_dispatch.rs:168` and
  `tcp.rs:171` take everything to the end of the frame, so the padding of a short
  frame becomes data of the stream. TCP options are taken for data, too. No checksum
  is verified on receipt.
* `virtio_nic_adapter.rs:14` speaks of the descriptor "from the most recent
  poll_rx()"; it keeps the position in the ring, which is another number once
  descriptors come back out of order. It is not reduced modulo the size of the queue
  either (`virtio_nic_adapter.rs:48`): even with the in-order device modelled, the
  first frame after as many as the queue has descriptors makes `recycle_rx`
  (`virtio/net.rs:247`) write past the descriptor table. `VirtioInOrder` says so; what
  that write destroys is not modelled.
* `drivers/e1000e.rs` fills the transmit ring to the last descriptor: when tail meets
  head the device finds nothing to do, and `send_packet` refuses every further packet,
  because its descriptor is not done (`e1000e.rs:503`). Nothing moves the tail again, so
  transmission stops for good.
* `hid_input.rs:137` says that 16 entries are the worst case of a report; six releases,
  six presses and eight modifiers are 20. What does not fit is dropped, and the parser
  takes the report as seen. `KeysFollow` leaves such reports out (`lost`).
* `network/ops.rs:233` moves `send_seq` on before the packet is built, and
  `build_tcp_packet` (`tcp.rs:121`) builds none for more than 1460 bytes, although the
  system call takes 65536 (`syscall.rs:336`): `socket_send` answers Ok and nothing leaves.
* `network/tls.rs:604` slices the payload of a ServerHello before it looks at its
  length: a short one panics the kernel (`down` in `Tls`).
* `v8_platform/stubs.rs:161` answers 1 for every thread, which `threads.rs:176` takes for
  a failure.
* The command ring of `Xhci` writes the cycle bit of its Link TRB once: a controller that checks it
  stops there in the second round, and commands after it are not executed.
* `dispatch_pending` numbers an answer under the lock of the registry and sends it
  after releasing it: of two dispatchers the later may send first; its answer is then
  refused for a gap, or that of the other for its nonce. The number of an answer that
  the router has not taken (policy, token, client gone) is used up all the same: from
  then on every answer of that driver is a gap and refused, also after a restart, which
  does not reset `response_seq`.
* `wm/compositor.rs` says that it is called after any visual change; focus moved by
  Alt+Tab is drawn with the next call.
* `tcp_recv_exact` (`network/tls.rs:508`) takes `available()` for the bytes there are
  to read; it is the space left to write ("Available space for writing",
  `buffer.rs:45`), so a full receive buffer is never read.

Smaller ones: nobody wakes the processes that wait for a terminated one
(`process/mod.rs:121`). A creation of a guest that fails half way leaks its frames.
The emulator needs all 15 bytes of an instruction window mapped. `bind_all` binds a
driver twice when called twice. `check_bounds` of DMA buffers wraps. The checksum
that Butler's page calls CRC16 is a sum. The mixer clamps per source rather than
per sum. Releasing one of two opposite keys centres a pad. Boot clears the bus
after drivers were registered for self tests, and the registry keeps their names;
governance and council keep what the gates left. Surfaces are never freed and not
owned. The statistics of the V8 platform drift when large pages are freed, and two
callers that find the same free slot overwrite each other's entry. A routine that
registered an interrupt handler or a DMA buffer and goes away leaves it behind: the
tables do not know their drivers.

## 7. Plan

1. Proofs: the parts of `CrashHandled` that hold for every strategy (escalation, and the
   groups of one-for-one and one-for-all) over the loop lemmas of `ProcessProofs`;
   `FramesAccounted` of the address spaces.
2. A lossy NIC under `Sockets`, once the code retransmits: today `deliver_one` asks
   `tcp_timer.rs` (`ops.rs:447`), whose queues nothing fills.
3. Larger instances of `files` and `usb`, the two components whose state spaces
   bound their runs.

## 8. Not modelled, and why

* Cryptographic primitives (HMAC, SHA3, ChaCha20, X25519) are functions with the
  property their users rely on; their arithmetic is data.
* Page-table entries and the kernel mapper (`memory/mapper.rs`) run before there is
  a second thread of control; the heap is an external crate.
* `network/tcp_timer.rs` is called after every delivery that found no packet
  (`ops.rs:447`), but only self tests put a segment into its queues, so the call has
  nothing to do; `network/http.rs` formats and parses text.
* The write past the table of the virtio driver, and what a panic leaves behind.
* USB descriptor requests and the list of supported protocols, PCI enumeration,
  VMCS fields and model-specific registers are register access.
* `js_engine`, FPU state, clocks, file stubs and `v8_shim` belong to an external
  engine; what the kernel adds of its own, threads and memory, is modelled.
* The stress gates are tests of what the runs check; `Boot` models what they leave.
* Drawing, fonts, formatting and logging.
