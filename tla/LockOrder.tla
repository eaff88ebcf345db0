----------------------------- MODULE LockOrder -----------------------------
(***************************************************************************)
(* The ordered spin locks (kernel/src/sync/mod.rs) and the paths of the    *)
(* kernel that hold more than one of them.  One CPU: the timer hands it to *)
(* another thread at any point, except while the process table or the      *)
(* scheduler is locked, whose locks it only tries for; a thread that finds *)
(* a lock taken spins.  In debug builds every lock() is first checked      *)
(* against the levels held, which all threads keep in one array.           *)
(*                                                                         *)
(* A path is the order in which a function takes locks and lets go of      *)
(* them: a name takes the lock, "TRY_TABLE" takes TABLE by try_lock, which *)
(* the levels do not see, and "drop" gives back the one taken last.  Tries *)
(* under which nothing else is locked never wait and are left out, and so  *)
(* are MOUNTS and DEVFS, which only boot nests.  Boot is a path as well;   *)
(* there are other threads once it has ended.                              *)
(***************************************************************************)
EXTENDS Naturals, Sequences, SequencesExt, FiniteSets

CONSTANTS
  Threads,
  Debug,      \* cfg(debug_assertions)
  MaxHeld,    \* MAX_HELD
  MaxPaths    \* bound: calls

VARIABLES
  todo,         \* thread -> steps left of its call
  held,         \* thread -> locks it holds, the last one taken last
  running,      \* the thread on the CPU
  lock_stack,   \* LOCK_STACK
  panicked,     \* push_level panicked
  paths         \* counter of calls

lockVars == <<todo, held, running, lock_stack, panicked, paths>>

(* levels, and the locks that the paths below use.                          *)
Level ==
  [REGISTRY |-> 0, NIC |-> 0, WINDOW_TABLE |-> 1, ARP_TABLE |-> 2, SOCKETS |-> 2, LOOPBACK |-> 2, DISPLAY |-> 3,
   INODES |-> 4, OPEN_FILES |-> 4, TMPFS |-> 4, GOVERNANCE |-> 5, TABLE |-> 6, STORE |-> 7, HMAC_KEY |-> 7,
   SCHEDULER |-> 8, BUS |-> 9]
OrderedLocks == DOMAIN Level

-----------------------------------------------------------------------------
(* deliver_one: a segment from the loopback is answered under SOCKETS, ...  *)
DeliverLoopback == <<"LOOPBACK", "drop", "SOCKETS", "LOOPBACK", "drop", "drop">>
(* ... or one from the NIC, through get_nic_mac, arp_lookup and send_packet. *)
DeliverNic == <<"LOOPBACK", "drop", "NIC", "drop", "SOCKETS", "NIC", "drop", "ARP_TABLE", "drop", "NIC", "drop", "drop">>
(* A window call and compose_and_present after it. *)
WindowCall == <<"WINDOW_TABLE", "drop", "DISPLAY", "WINDOW_TABLE", "drop", "WINDOW_TABLE", "drop", "drop">>
(* bus::send: evaluate_policy, validate, owner, router. *)
BusSend == <<"GOVERNANCE", "TABLE", "drop", "STORE", "drop", "drop", "STORE", "HMAC_KEY", "drop", "drop",
             "STORE", "drop", "BUS", "drop">>
(* dispatch_pending up to the answer, which is a BusSend. *)
DriverDispatch == <<"REGISTRY", "drop", "BUS", "drop", "BUS", "drop", "REGISTRY", "drop", "TABLE", "drop">> \o BusSend
(* terminate, with the sockets of the process before it; spawn is part of it. *)
Terminate == <<"SOCKETS", "drop", "TABLE", "SCHEDULER", "drop", "drop", "BUS", "drop">>
CreateCapability == <<"STORE", "HMAC_KEY", "drop", "drop">>
(* vfs_readdir looks at the inode of every entry under TMPFS, ... *)
ReadDir == <<"OPEN_FILES", "drop", "INODES", "drop", "TMPFS", "INODES", "drop", "drop", "OPEN_FILES", "drop">>
(* ... vfs::init and load_initramfs nest the two the other way round, ...  *)
BootVfs == <<"INODES", "TMPFS", "drop", "drop", "INODES", "TMPFS", "drop", "drop", "INODES", "drop",
             "INODES", "TMPFS", "drop", "drop">>
(* ... and vfs_write lets go of the one before it takes the other.          *)
WriteKeeps == <<"OPEN_FILES", "drop", "INODES", "TMPFS", "drop", "drop", "OPEN_FILES", "drop">>
Write == <<"OPEN_FILES", "drop", "INODES", "drop", "TMPFS", "drop", "INODES", "drop", "OPEN_FILES", "drop">>

(* syscall_open with a full handle table closes the file under TABLE.       *)
OpenFails == <<"TMPFS", "drop", "INODES", "drop", "OPEN_FILES", "drop", "TRY_TABLE", "OPEN_FILES", "drop", "drop">>

Paths == {DeliverLoopback, DeliverNic, WindowCall, BusSend, DriverDispatch, Terminate, CreateCapability, ReadDir, Write,
          OpenFails}

-----------------------------------------------------------------------------
LocksInit ==
  /\ running \in Threads
  /\ todo = [t \in Threads |-> IF t = running THEN BootVfs ELSE << >>]
  /\ held = [t \in Threads |-> << >>]
  /\ lock_stack = << >> /\ panicked = FALSE /\ paths = 0

Taken(l) == \E t \in Threads : l \in ToSet(held[t])

Enter(path) ==
  /\ ~panicked /\ todo[running] = << >> /\ paths < MaxPaths
  /\ todo' = [todo EXCEPT ![running] = path]
  /\ paths' = paths + 1
  /\ UNCHANGED <<held, running, lock_stack, panicked>>

(* push_level: panics when a level as high or higher is in the array, or    *)
(* when the array is full.                                                  *)
Refused(level) == (\E i \in DOMAIN lock_stack : level <= lock_stack[i]) \/ Len(lock_stack) >= MaxHeld

(* lock(): the level goes into the array before the thread spins; in a      *)
(* debug build that is one step, for a lock that is taken has its level in  *)
(* the array and is refused.  A try finds TABLE free, as whoever holds it   *)
(* is on the processor.                                                     *)
LockOf(step) == IF step = "TRY_TABLE" THEN "TABLE" ELSE step
Waits(t) == todo[t] # << >> /\ Head(todo[t]) \in OrderedLocks /\ Taken(Head(todo[t]))
Lock ==
  /\ ~panicked /\ todo[running] # << >> /\ Head(todo[running]) # "drop"
  /\ LET l == LockOf(Head(todo[running]))
         checked == Debug /\ Head(todo[running]) # "TRY_TABLE"
     IN
     IF checked /\ Refused(Level[l])
     THEN panicked' = TRUE /\ UNCHANGED <<todo, held, lock_stack>>
     ELSE /\ ~Taken(l)
          /\ todo' = [todo EXCEPT ![running] = Tail(@)]
          /\ held' = [held EXCEPT ![running] = Append(@, l)]
          /\ lock_stack' = IF checked THEN Append(lock_stack, Level[l]) ELSE lock_stack
          /\ UNCHANGED panicked
  /\ UNCHANGED <<running, paths>>

(* Drop of the guard: pop_level takes the first entry of that level out.    *)
PopLevel(level) ==
  LET at == {i \in DOMAIN lock_stack : lock_stack[i] = level}
  IN  IF at = {} THEN lock_stack
      ELSE RemoveAt(lock_stack, CHOOSE i \in at : \A j \in at : i <= j)
Drop ==
  /\ ~panicked /\ todo[running] # << >> /\ Head(todo[running]) = "drop"
  /\ lock_stack' = PopLevel(Level[Last(held[running])])
  /\ held' = [held EXCEPT ![running] = Front(@)]
  /\ todo' = [todo EXCEPT ![running] = Tail(@)]
  /\ UNCHANGED <<running, panicked, paths>>

(* The timer interrupt: schedule_from_interrupt gives up when it cannot     *)
(* have TABLE and SCHEDULER.  At boot there is no other thread.             *)
Preempt(t) ==
  /\ ~panicked /\ t # running /\ paths > 0
  /\ ~Taken("TABLE") /\ ~Taken("SCHEDULER")
  /\ running' = t
  /\ UNCHANGED <<todo, held, lock_stack, panicked, paths>>

LocksNext == (\E p \in Paths : Enter(p)) \/ Lock \/ Drop \/ \E t \in Threads : Preempt(t)

LocksSpec == LocksInit /\ [][LocksNext]_lockVars
-----------------------------------------------------------------------------
WaitsFor(t, u) == Waits(t) /\ Head(todo[t]) \in ToSet(held[u])

TimerGivesUp == Taken("TABLE") \/ Taken("SCHEDULER")

(* No circle of threads that wait for each other: whatever paths meet after *)
(* boot, the locks they nest are nested one way round, although not in the  *)
(* order of the levels.  And a thread that spins leaves the timer free to   *)
(* run the holder of the lock, but for one that wants OPEN_FILES.           *)
NoCircularWait ==
  /\ \A ts \in (SUBSET Threads) \ {{}} : \E t \in ts : \A u \in ts : ~WaitsFor(t, u)
  /\ \A t \in Threads : WaitsFor(running, t) /\ TimerGivesUp => Head(todo[running]) = "OPEN_FILES"

(* timer_handler skips the context switch "this tick" when TABLE or         *)
(* SCHEDULER is held: a later tick finds them free, because who holds them  *)
(* never waits for a thread that is not on the processor.                   *)
TimerSkipsInPassing == \A t \in Threads : WaitsFor(running, t) => ~TimerGivesUp

=============================================================================
