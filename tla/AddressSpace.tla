---------------------------- MODULE AddressSpace ----------------------------
(***************************************************************************)
(* Loading a program into its own address space (kernel/src/               *)
(* address_space, kernel/src/elf, spawn_elf and spawn_user of              *)
(* kernel/src/process): page tables, segments, stack and heap are built    *)
(* frame by frame, and any allocation on the way may be the one that       *)
(* fails.  The upper half of the tables is shared with the kernel and is   *)
(* neither built nor freed here.                                           *)
(***************************************************************************)
EXTENDS Integers, Sequences, FiniteSets, FiniteSetsExt, SequencesExt

CONSTANTS
  MaxFrames,   \* bound: the largest memory
  KernelPages, \* virtual pages of the upper half, which an image may name
  Path,        \* page of the user half -> <<PML4 index, PDPT index, PD index>>
  Images,      \* ELF images: sequences of segments [pages, w, x]
  StackPages,  \* the pages of the user stack
  HeapPages,   \* the pages of the user heap
  MaxPcbs,     \* MAX_PROCESSES: terminated processes count too
  MaxSpawns    \* bound: calls of spawn_elf

VARIABLES
  memory,  \* frames that the machine has, numbers
  free,    \* frames in the allocator
  cur,     \* the address space under construction, or NoSpace
  todo,    \* pages that spawn_elf still has to place
  live,    \* address spaces held by process control blocks
  pcbs,    \* process control blocks in the table
  stacks,  \* frames of kernel stacks
  lost,    \* history: frames that nothing refers to any more
  spawns

avars == <<memory, free, cur, todo, live, pcbs, stacks, lost, spawns>>

NoSpace == [root |-> -1]
(* A table is named by the indices that lead to it: a PDPT by one, a PD by  *)
(* two, a PT by three.                                                      *)
TablesOf(page) == <<SubSeq(Path[page], 1, 1), SubSeq(Path[page], 1, 2), Path[page]>>

(* The buddy allocator (FrameAllocator): a single frame comes from a pair    *)
(* only when no frame is free whose buddy is not.  In which order it takes  *)
(* them otherwise does not matter here.                                     *)
Buddy(f) == IF f % 2 = 0 THEN f + 1 ELSE f - 1
Lone(frames, f) == Buddy(f) \notin frames
Before(frames, f, g) == IF Lone(frames, f) = Lone(frames, g) THEN f < g ELSE Lone(frames, f)
Kth(frames, k) == CHOOSE f \in frames : Cardinality({g \in frames : Before(frames, g, f)}) = k - 1
Pairs(frames) == {f \in frames : f % 2 = 0 /\ f + 1 \in frames}

RangeOf(f) == {f[x] : x \in DOMAIN f}
TableFrames(space) == {space.root} \cup RangeOf(space.tables)
DataFrames(space) == {space.pages[p].frame : p \in DOMAIN space.pages}

(* AddressSpace::destroy, run by Drop: the tables of the lower half and the *)
(* root go back, the data frames do not.                                    *)
Destroy(space) == TableFrames(space)

(* load_elf, first pass: the permissions of a page are the union of those   *)
(* of the segments that share it.                                           *)
Loadable(image, page) == {i \in 1 .. Len(image) : page \in Range(image[i].pages)}
Permissions(image, page) ==
  [w |-> \E i \in Loadable(image, page) : image[i].w, x |-> \E i \in Loadable(image, page) : image[i].x]

(* load_elf, second pass, then the stack and the heap of spawn_elf: the     *)
(* pages in the order in which they are placed.                             *)
Plan(image) ==
  LET elf == FlattenSeq([i \in 1 .. Len(image) |->
                [k \in 1 .. Len(image[i].pages) |->
                  [page |-> image[i].pages[k], elf |-> TRUE, perm |-> Permissions(image, image[i].pages[k])]]])
      data(ps) == [k \in 1 .. Len(ps) |-> [page |-> ps[k], elf |-> FALSE, perm |-> [w |-> TRUE, x |-> FALSE]]]
  IN  elf \o data(StackPages) \o data(HeapPages)

Init ==
  /\ \E n \in 1 .. MaxFrames : memory = 1 .. n
  /\ free = memory /\ cur = NoSpace /\ todo = << >> /\ live = {} /\ pcbs = 0
  /\ stacks = {} /\ lost = {} /\ spawns = 0

(* spawn_elf and AddressSpace::create. *)
SpawnElf(image) ==
  /\ cur = NoSpace /\ spawns < MaxSpawns
  /\ spawns' = spawns + 1
  /\ IF free = {} THEN UNCHANGED <<free, cur, todo>>
     ELSE /\ cur' = [root |-> Kth(free, 1), tables |-> [t \in {} |-> 0], pages |-> [p \in {} |-> 0]]
          /\ free' = free \ {Kth(free, 1)}
          /\ todo' = Plan(image)
  /\ UNCHANGED <<memory, live, pcbs, stacks, lost>>

(* An error returned with ?: the space is dropped. *)
Abandon(space, extra) ==
  /\ free' = (free \ (TableFrames(space) \cup extra)) \cup Destroy(space)
  /\ lost' = lost \cup DataFrames(space) \cup extra
  /\ cur' = NoSpace /\ todo' = << >>

(* load_elf: parse_header or program_headers refuses the image, which is    *)
(* known only once the space exists.                                        *)
RefuseImage ==
  /\ cur # NoSpace /\ DOMAIN cur.pages = {} /\ todo # << >>
  /\ Abandon(cur, {})
  /\ UNCHANGED <<memory, live, pcbs, stacks, spawns>>

(* walk_or_create_and_map: the missing tables on the way are created one    *)
(* after the other from the frames given, as far as these last.             *)
Walk(space, page, frames) ==
  LET missing == SelectSeq(TablesOf(page), LAMBDA t : t \notin DOMAIN space.tables)
      n == Min({Len(missing), Cardinality(frames)})
      made == [t \in {missing[k] : k \in 1 .. n} |-> Kth(frames, CHOOSE k \in 1 .. n : missing[k] = t)]
  IN  [ok |-> n = Len(missing),
       tables |-> [t \in DOMAIN space.tables \cup DOMAIN made |->
                     IF t \in DOMAIN made THEN made[t] ELSE space.tables[t]]]

(* map_user_page, which makes every user page writable. *)
MapFlags(perm) == [w |-> TRUE, x |-> perm.x]

(* One page: a frame is allocated and cleared, the page is mapped, the      *)
(* contents copied.  A page that a former segment has mapped is used again; *)
(* map_user_page refuses a page of the kernel's half before it walks, one   *)
(* that is mapped already after it.                                         *)
PlacePage ==
  LET next == Head(todo)
      frame == Kth(free, 1)
      walk == Walk(cur, next.page, free \ {frame})
      walked == [cur EXCEPT !.tables = walk.tables]
      mapped == [walked EXCEPT !.pages =
                   [p \in DOMAIN @ \cup {next.page} |->
                      IF p = next.page THEN [frame |-> frame, flags |-> MapFlags(next.perm)]
                      ELSE @[p]]]
  IN  /\ cur # NoSpace /\ todo # << >>
      /\ \/ /\ next.elf /\ next.page \in DOMAIN cur.pages
            /\ todo' = Tail(todo)
            /\ UNCHANGED <<free, cur, lost>>
         \/ /\ ~(next.elf /\ next.page \in DOMAIN cur.pages)
            /\ free = {}
            /\ Abandon(cur, {})
         \/ /\ ~(next.elf /\ next.page \in DOMAIN cur.pages)
            /\ free # {} /\ next.page \in KernelPages
            /\ Abandon(cur, {frame})
         \/ /\ ~(next.elf /\ next.page \in DOMAIN cur.pages)
            /\ free # {} /\ next.page \notin KernelPages
            /\ ~walk.ok \/ next.page \in DOMAIN cur.pages
            /\ Abandon(walked, {frame})
         \/ /\ free # {} /\ next.page \notin KernelPages /\ walk.ok /\ next.page \notin DOMAIN cur.pages
            /\ cur' = mapped
            /\ free' = free \ ({frame} \cup RangeOf(walk.tables))
            /\ todo' = Tail(todo)
            /\ UNCHANGED lost
      /\ UNCHANGED <<memory, live, pcbs, stacks, spawns>>

(* spawn_user: the process control block, the kernel stack, which is two    *)
(* adjacent frames, and the space goes to the block.  Without a stack the process is         *)
(* terminated, which leaves its block in the table.                         *)
SpawnUser ==
  /\ cur # NoSpace /\ todo = << >>
  /\ \/ /\ pcbs = MaxPcbs
        /\ Abandon(cur, {})
        /\ UNCHANGED <<live, pcbs, stacks>>
     \/ /\ pcbs < MaxPcbs /\ Pairs(free) = {}
        /\ pcbs' = pcbs + 1
        /\ Abandon(cur, {})
        /\ UNCHANGED <<live, stacks>>
     \/ /\ pcbs < MaxPcbs /\ Pairs(free) # {}
        /\ LET pair == {Min(Pairs(free)), Min(Pairs(free)) + 1}
           IN  stacks' = stacks \cup pair /\ free' = free \ pair
        /\ pcbs' = pcbs + 1
        /\ live' = live \cup {cur}
        /\ cur' = NoSpace
        /\ UNCHANGED <<todo, lost>>
  /\ UNCHANGED <<memory, spawns>>

Next == (\E image \in Images : SpawnElf(image)) \/ RefuseImage \/ PlacePage \/ SpawnUser

Spec == Init /\ [][Next]_avars
-----------------------------------------------------------------------------
Spaces == live \cup {s \in {cur} : s # NoSpace}

(* However far a load gets before it is given up: no frame is in two        *)
(* places, every page table of the space is back in the allocator, and the  *)
(* frames that nothing refers to any more are exactly those the code gives  *)
(* up with the space, the pages placed so far and the one in hand.  That    *)
(* these are never given back is what the code does, not an error of the    *)
(* account.                                                                 *)
FramesAccounted ==
  LET uses == <<Cardinality(free), Cardinality(stacks), Cardinality(lost),
                MapThenSumSet(LAMBDA s : 1 + Cardinality(DOMAIN s.tables) + Cardinality(DOMAIN s.pages), Spaces)>>
      all == free \cup stacks \cup lost \cup UNION {TableFrames(s) \cup DataFrames(s) : s \in Spaces}
  IN  /\ all = memory
      /\ uses[1] + uses[2] + uses[3] + uses[4] = Cardinality(memory)
=============================================================================
