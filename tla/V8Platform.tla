----------------------------- MODULE V8Platform -----------------------------
(***************************************************************************)
(* What the kernel offers to the JavaScript engine (kernel/src/            *)
(* v8_platform/threads.rs and memory.rs).                                  *)
(*                                                                         *)
(* Threads: a table without a lock in which callers enter the threads they *)
(* ask for.  The system call behind it is a stub that answers 1, which the *)
(* caller takes for a failure: every call takes its entry back, no thread  *)
(* ever runs, and the trampoline and the join are never reached.  The      *)
(* table is read and written in single steps; of an entry only the         *)
(* identifier is kept.                                                     *)
(*                                                                         *)
(* Memory: page-aligned blocks, and statistics that threads update with    *)
(* separate atomic operations.  Whether a block comes from the DMA manager *)
(* or from the heap makes no difference to them.                           *)
(***************************************************************************)
EXTENDS Naturals, FiniteSets, FiniteSetsExt

CONSTANTS
  MaxThreads,       \* MAX_V8_THREADS
  MaxId,            \* bound: threads ever asked for
  Creators,         \* callers of v8_create_thread
  Threads,          \* threads that allocate
  Page, LargePage,  \* V8_PAGE_SIZE, V8_LARGE_PAGE_SIZE
  Requests,         \* sizes asked for
  MaxBlocks,        \* bound: blocks ever allocated
  None

VARIABLES
  table,          \* THREAD_TABLE: slot -> identifier or None
  counter,        \* THREAD_COUNTER, from 0
  active,         \* ACTIVE_THREAD_COUNT
  create          \* caller -> its call of v8_create_thread: [at, id, slot], or None

v8threads == <<table, counter, active, create>>

Slots == 1 .. MaxThreads
At(t, step) == create[t] # None /\ create[t].at = step
Proceed(t, step) == create' = [create EXCEPT ![t].at = step]

(* init_threading *)
ThreadsInit ==
  /\ table = [s \in Slots |-> None] /\ counter = 0 /\ active = 0
  /\ create = [t \in Creators |-> None]

(* v8_create_thread_with_priority: an identifier, ... *)
NextThreadId(t) ==
  /\ create[t] = None /\ counter < MaxId
  /\ counter' = counter + 1
  /\ create' = [create EXCEPT ![t] = [at |-> "find", id |-> counter + 1, slot |-> 1]]
  /\ UNCHANGED <<table, active>>

(* ... a free slot, looked for one by one: without it the call fails, ...   *)
FindFreeThreadSlot(t) ==
  /\ At(t, "find")
  /\ LET s == create[t].slot IN
     create' = [create EXCEPT ![t] = IF s > MaxThreads THEN None
                                     ELSE IF table[s] = None THEN [@ EXCEPT !.at = "store"]
                                     ELSE [@ EXCEPT !.slot = s + 1]]
  /\ UNCHANGED <<table, counter, active>>

(* ... the entry, whoever has used the slot meanwhile, ...                  *)
StoreThreadInfo(t) ==
  /\ At(t, "store")
  /\ table' = [table EXCEPT ![create[t].slot] = create[t].id]
  /\ Proceed(t, "count")
  /\ UNCHANGED <<counter, active>>

CountThread(t) ==
  /\ At(t, "count")
  /\ active' = active + 1
  /\ Proceed(t, "create")
  /\ UNCHANGED <<table, counter>>

(* ... and the system call, which fails: the slot is cleared, whoever's     *)
(* entry is in it, and the count goes down again.                           *)
ThreadCreateFails(t) ==
  /\ At(t, "create")
  /\ table' = [table EXCEPT ![create[t].slot] = None]
  /\ Proceed(t, "uncount")
  /\ UNCHANGED <<counter, active>>

UncountThread(t) ==
  /\ At(t, "uncount")
  /\ active' = active - 1
  /\ create' = [create EXCEPT ![t] = None]
  /\ UNCHANGED <<table, counter>>

ThreadsNext ==
  \E t \in Creators :
    \/ NextThreadId(t) \/ FindFreeThreadSlot(t) \/ StoreThreadInfo(t)
    \/ CountThread(t) \/ ThreadCreateFails(t) \/ UncountThread(t)

-----------------------------------------------------------------------------
(* Although callers may choose the same slot and overwrite or clear each    *)
(* other's entry: an entry always belongs to a slot that a call under way   *)
(* will clear, so that none outlives the calls, and the count, which no     *)
(* lock protects either, is that of the calls between their two updates.    *)
ThreadsAccounted ==
  /\ \A s \in Slots : table[s] # None =>
       \E t \in Creators : (At(t, "count") \/ At(t, "create")) /\ create[t].slot = s
  /\ active = Cardinality({t \in Creators : At(t, "create") \/ At(t, "uncount")})

-----------------------------------------------------------------------------
VARIABLES
  blocks,                               \* live blocks: [id, size, got]
  total_allocated, total_freed, current_used, peak_used, allocation_count,
  op,                                   \* thread -> what is left of its call
  made,                                 \* history: blocks made
  highest,                              \* history: largest value current_used has had
  drift                                 \* history: bytes taken for a block beyond what is given back

v8memory == <<blocks, total_allocated, total_freed, current_used, peak_used, allocation_count, op, made, highest, drift>>
stats == <<total_allocated, total_freed, current_used, peak_used, allocation_count>>

AlignUp(size, align) == ((size + align - 1) \div align) * align

MemoryInit ==
  /\ blocks = {}
  /\ total_allocated = 0 /\ total_freed = 0 /\ current_used = 0 /\ peak_used = 0 /\ allocation_count = 0
  /\ op = [t \in Threads |-> None] /\ made = 0 /\ highest = 0 /\ drift = 0

Idle(t) == op[t] = None
Then(t, next) == op' = [op EXCEPT ![t] = next]

(* v8_alloc, v8_alloc_executable and v8_alloc_large_pages: pages of the DMA *)
(* manager or, failing that, of the heap; without either nothing changes.   *)
(* record_alloc follows, one step for each atomic operation on current_used *)
(* and on peak_used.  `old' is the block that v8_realloc frees afterwards.  *)
Allocate(t, size, align, old) ==
  /\ Idle(t) /\ made < MaxBlocks
  /\ made' = made + 1
  /\ Then(t, [step |-> "add", block |-> [id |-> made + 1, size |-> size, got |-> AlignUp(size, align)],
              old |-> old, peak |-> 0, seen |-> 0])
  /\ UNCHANGED <<stats, highest, drift>>

AddCurrent(t) ==
  /\ ~Idle(t) /\ op[t].step = "add"
  /\ LET b == op[t].block current == current_used + b.got IN
     /\ total_allocated' = total_allocated + b.got
     /\ current_used' = current
     /\ allocation_count' = allocation_count + 1
     /\ highest' = IF current > highest THEN current ELSE highest
     /\ Then(t, [op[t] EXCEPT !.step = "peak", !.seen = current, !.peak = peak_used])
  /\ UNCHANGED <<blocks, total_freed, peak_used, made, drift>>

(* The loop around compare_exchange.                                        *)
ExchangeBlindly(seen, peak) == IF seen > peak THEN [peak |-> seen, done |-> TRUE] ELSE [peak |-> peak_used, done |-> TRUE]
Exchange(seen, peak) ==
  CASE seen <= peak -> [peak |-> peak_used, done |-> TRUE]
    [] seen > peak /\ peak_used = peak -> [peak |-> seen, done |-> TRUE]
    [] OTHER -> [peak |-> peak_used, done |-> FALSE]
UpdatePeak(t) ==
  /\ ~Idle(t) /\ op[t].step = "peak"
  /\ LET x == Exchange(op[t].seen, op[t].peak) IN
     /\ peak_used' = x.peak
     /\ IF x.done
        THEN /\ blocks' = blocks \cup {op[t].block}
             /\ Then(t, IF op[t].old = None THEN None ELSE [step |-> "free", block |-> op[t].old])
        ELSE Then(t, [op[t] EXCEPT !.peak = peak_used]) /\ UNCHANGED blocks
  /\ UNCHANGED <<total_allocated, total_freed, current_used, allocation_count, made, highest, drift>>

(* v8_free, with the size that was asked for. *)
StartFree(t, b) ==
  /\ Idle(t) /\ b \in blocks
  /\ blocks' = blocks \ {b}
  /\ Then(t, [step |-> "free", block |-> b])
  /\ UNCHANGED <<stats, made, highest, drift>>

Free(t) ==
  /\ ~Idle(t) /\ op[t].step = "free"
  /\ LET back == AlignUp(op[t].block.size, Page) IN
     /\ total_freed' = total_freed + back
     /\ current_used' = current_used - back
     /\ drift' = drift + op[t].block.got - back
  /\ Then(t, None)
  /\ UNCHANGED <<blocks, total_allocated, peak_used, allocation_count, made, highest>>

(* v8_realloc: a new block, then the old one is freed; to size 0 it is only *)
(* freed, and without memory the old block stays.                           *)
Realloc(t, b, size) ==
  /\ b \in blocks
  /\ Allocate(t, size, Page, b)
  /\ blocks' = blocks \ {b}

MemoryNext ==
  \E t \in Threads :
    \/ \E size \in Requests, align \in {Page, LargePage} : Allocate(t, size, align, None) /\ UNCHANGED blocks
    \/ AddCurrent(t) \/ UpdatePeak(t) \/ Free(t)
    \/ \E b \in blocks : StartFree(t, b) \/ \E size \in Requests : Realloc(t, b, size)

-----------------------------------------------------------------------------
Bytes(bs) == MapThenSumSet(LAMBDA b : b.got, bs)

(* Between calls the statistics agree with the blocks, whatever allocations *)
(* overlapped: used is what the live blocks take, up to what large pages    *)
(* lose when they are freed, and the peak is the largest it has ever been.  *)
StatsExact ==
  (\A t \in Threads : Idle(t)) =>
    /\ current_used = total_allocated - total_freed
    /\ current_used = Bytes(blocks) + drift
    /\ peak_used = highest
    /\ allocation_count = made

-----------------------------------------------------------------------------
(* The two parts share no state. *)
Init == ThreadsInit /\ MemoryInit
Next == (ThreadsNext /\ UNCHANGED v8memory) \/ (MemoryNext /\ UNCHANGED v8threads)

Spec == Init /\ [][Next]_<<v8threads, v8memory>>
=============================================================================
