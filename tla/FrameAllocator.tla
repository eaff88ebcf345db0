--------------------------- MODULE FrameAllocator ---------------------------
(***************************************************************************)
(* The buddy allocator of physical frames (kernel/src/memory/frame.rs).    *)
(* Every operation holds the ALLOCATOR lock.  A free list, which the code  *)
(* threads through the free blocks themselves, is a sequence of frames,    *)
(* head first.                                                             *)
(***************************************************************************)
EXTENDS Integers, FiniteSets, SequencesExt

CONSTANTS
  MaxOrder,   \* MAX_ORDER
  MaxFrames   \* MAX_FRAMES

ASSUME MemoryAssumption == MaxOrder \in Nat /\ MaxFrames \in Nat

VARIABLES
  usable,       \* the frames of the usable regions
  free,         \* the frames whose bit in the bitmap is clear
  free_lists,   \* order -> frames of the free blocks
  free_frames,  \* the free frame counter
  held          \* the blocks handed out and not given back

memoryVars == <<usable, free, free_lists, free_frames, held>>

Orders == 0 .. MaxOrder
Frames == 0 .. MaxFrames - 1

(* 1 << order, the frames of a block. *)
BlockSize[order \in Orders] == IF order = 0 THEN 1 ELSE 2 * BlockSize[order - 1]

Block(frame, order) == frame .. frame + BlockSize[order] - 1

(* The block's buddy: frame XOR its size. *)
Buddy(frame, order) ==
  IF (frame \div BlockSize[order]) % 2 = 0 THEN frame + BlockSize[order]
  ELSE frame - BlockSize[order]

(* max_block_order: the largest aligned block of free frames at frame. *)
MaxBlockOrder(frames, frame) ==
  Max({o \in Orders : frame % BlockSize[o] = 0 /\ Block(frame, o) \subseteq frames})

(* push_free_list *)
Push(lists, frame, order) == [lists EXCEPT ![order] = <<frame>> \o @]

(* build_free_lists: a scan upwards that skips over each block it pushes. *)
ScanFrame(frames, acc, frame) ==
  IF frame < acc.next \/ frame \notin frames THEN acc
  ELSE LET order == MaxBlockOrder(frames, frame)
       IN  [lists |-> Push(acc.lists, frame, order), next |-> frame + BlockSize[order]]

BuildFreeLists(frames) ==
  LET scan[i \in 0 .. MaxFrames] ==
        IF i = 0 THEN [lists |-> [o \in Orders |-> << >>], next |-> 0]
        ELSE ScanFrame(frames, scan[i - 1], i - 1)
  IN  scan[MaxFrames].lists

(* The address of frame 0 is the null pointer of the free lists; the boot  *)
(* loader never reports that frame as usable.                              *)
MemoryInit ==
  /\ usable \in SUBSET (Frames \ {0})
  /\ free = usable
  /\ free_lists = BuildFreeLists(usable)
  /\ free_frames = Cardinality(usable)
  /\ held = {}

-----------------------------------------------------------------------------
(* Splitting a block of order from at frame down to order to: the upper    *)
(* halves go back to the lists.                                            *)
SplitKeepsNothing(lists, frame, from, to) == lists
Split(lists, frame, from, to) ==
  [o \in Orders |-> IF to <= o /\ o < from THEN <<frame + BlockSize[o]>> \o lists[o] ELSE lists[o]]

Available(order) == {o \in Orders : o >= order /\ free_lists[o] # << >>}

Allocate(order) ==
  \/ /\ Available(order) = {}
     /\ UNCHANGED memoryVars
  \/ /\ Available(order) # {}
     /\ LET from  == Min(Available(order))
            frame == Head(free_lists[from])
            rest  == [free_lists EXCEPT ![from] = Tail(@)]
        IN  /\ free_lists' = Split(rest, frame, from, order)
            /\ free' = free \ Block(frame, order)
            /\ held' = held \cup {[frame |-> frame, order |-> order]}
     /\ free_frames' = free_frames - BlockSize[order]
     /\ UNCHANGED usable

(* The merge test: the buddy is inside memory, free, and a block of the    *)
(* same order, so that remove_from_free_list finds it.                     *)
Merges(frames, lists, frame, order) ==
  /\ order < MaxOrder
  /\ Block(Buddy(frame, order), order) \subseteq frames
  /\ Contains(lists[order], Buddy(frame, order))

(* remove_from_free_list *)
Unlink(list, frame) == RemoveAt(list, CHOOSE i \in DOMAIN list : list[i] = frame)

(* deallocate's loop, which climbs at most MaxOrder times: the block and   *)
(* its buddy become one block of the next order.                           *)
Climb(frames, acc) ==
  LET buddy == Buddy(acc.frame, acc.order)
  IN  IF ~Merges(frames, acc.lists, acc.frame, acc.order) THEN acc
      ELSE [lists |-> [acc.lists EXCEPT ![acc.order] = Unlink(@, buddy)],
            frame |-> IF buddy < acc.frame THEN buddy ELSE acc.frame,
            order |-> acc.order + 1]

Coalesce(frames, lists, frame, order) ==
  LET climb[i \in 0 .. MaxOrder] ==
        IF i = 0 THEN [lists |-> lists, frame |-> frame, order |-> order]
        ELSE Climb(frames, climb[i - 1])
      end == climb[MaxOrder]
  IN  Push(end.lists, end.frame, end.order)

Deallocate(block) ==
  LET freed == free \cup Block(block.frame, block.order)
  IN  /\ free' = freed
      /\ free_lists' = Coalesce(freed, free_lists, block.frame, block.order)
      /\ free_frames' = free_frames + BlockSize[block.order]
      /\ held' = held \ {block}
      /\ UNCHANGED usable

(* Callers give back the blocks they were given. *)
MemoryNext ==
  \/ \E o \in Orders : Allocate(o)
  \/ \E b \in held : Deallocate(b)

MemorySpec == MemoryInit /\ [][MemoryNext]_memoryVars
-----------------------------------------------------------------------------
(* Properties *)

Blocks == [frame: Frames, order: Orders]
BlocksIn(lists) == {b \in Blocks : b.frame \in ToSet(lists[b.order])}
FreeBlocks == BlocksIn(free_lists)

Disjoint(blocks) ==
  \A b, c \in blocks : b # c => Block(b.frame, b.order) \cap Block(c.frame, c.order) = {}

Covered(blocks) == UNION {Block(b.frame, b.order) : b \in blocks}

(* Type invariant. *)
MemoryTyped ==
  /\ free \subseteq usable /\ usable \subseteq Frames /\ held \subseteq Blocks
  /\ free_lists \in [Orders -> Seq(Frames)]

(* No memory is handed out twice and none is lost: held and free blocks do *)
(* not overlap and together are the usable memory, the bitmap is clear on  *)
(* exactly the free blocks, no list names a block twice, and the counter   *)
(* is their size.                                                          *)
MemoryPartitioned ==
  /\ MemoryTyped
  /\ Disjoint(held \cup FreeBlocks) /\ held \cap FreeBlocks = {}
  /\ \A o \in Orders : IsInjective(free_lists[o])
  /\ free = Covered(FreeBlocks)
  /\ usable = free \cup Covered(held)
  /\ free_frames = Cardinality(free)

(* A request fails only if no aligned run of that many frames is free,    *)
(* whatever sequence of requests and releases came before: freed memory is *)
(* merged as far as it goes.                                               *)
NoFalseExhaustion ==
  \A o \in Orders :
    Available(o) = {} =>
      ~ \E f \in Frames : f % BlockSize[o] = 0 /\ Block(f, o) \subseteq free

(* When everything was given back the free lists hold the blocks they had  *)
(* at boot: no fragmentation remains.                                      *)
FullyRestored == held = {} => FreeBlocks = BlocksIn(BuildFreeLists(usable))

(* Memory is neither handed out twice nor lost, and it does not fragment   *)
(* beyond what is held.                                                    *)
MemorySound == MemoryPartitioned /\ NoFalseExhaustion /\ FullyRestored
=============================================================================
