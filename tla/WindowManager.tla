--------------------------- MODULE WindowManager ---------------------------
(***************************************************************************)
(* Windows, their event queues and what is on the screen (kernel/src/wm,   *)
(* kernel/src/keyboard, kernel/src/display and the system calls 20, 21 and *)
(* 29-34).  A system call changes the window table under its lock, lets go *)
(* of it and composes the screen under the lock of the display, where the  *)
(* windows and the taskbar are drawn under two separate holds of the       *)
(* table's lock; the keyboard interrupt comes at any time and only tries   *)
(* for the lock.  Pixels are left out: a surface is the size and the       *)
(* content that was last copied to it.  The surfaces of the system calls   *)
(* 18 to 20 are those of module Surfaces: here only that the last of these *)
(* draws over the windows.                                                 *)
(***************************************************************************)
EXTENDS Naturals, Sequences, FiniteSets, SequencesExt

CONSTANTS
  Procs,        \* processes
  MaxWindows,   \* MAX_WINDOWS
  QueueSize,    \* EVENT_QUEUE_SIZE, BUFFER_SIZE: one entry stays free
  Sizes,        \* window sizes
  MaxCreated, MaxKeys, MaxCalls, \* bounds: windows, keys, other system calls
  None

VARIABLES
  slots, next_id, focused_id,  \* WINDOW_TABLE
  alt, kb,                     \* ALT_HELD, KEYBOARD_BUFFER
  call,                        \* process -> what is left of its system call
  drawn, screen,               \* the surface of DISPLAY under way, the frame buffer
  display,                     \* holder of the lock of DISPLAY
  tabbed,                      \* history: focus was moved by Alt+Tab since the last picture
  keys, calls

wm == <<slots, next_id, focused_id, alt, kb, call, drawn, screen, display, tabbed, keys, calls>>
table == <<slots, next_id, focused_id>>
picture == <<drawn, screen, display>>

Windows == {i \in DOMAIN slots : slots[i] # None}
SlotOf(id) == CHOOSE i \in Windows : slots[i].id = id
Exists(id) == \E i \in Windows : slots[i].id = id
Largest(s) == IF s = {} THEN 0 ELSE CHOOSE x \in s : \A y \in s : y <= x
Smallest(s) == CHOOSE x \in s : \A y \in s : x <= y
TopZ == Largest({slots[i].z : i \in Windows})

(* WmEventQueue::push drops an event when the queue is full.                *)
Push(w, e) ==
  IF Len(w.queue) < QueueSize - 1 THEN [w EXCEPT !.queue = Append(@, e)] ELSE [w EXCEPT !.lost = TRUE]

(* set_focus: the window that had the focus is told, the new one raised.    *)
Blurred(w, old, id) == IF w.id = old /\ old # id THEN [Push(w, "blur") EXCEPT !.focused = FALSE] ELSE w
Raised(w, id) == IF w.id = id THEN [Push(w, "focus") EXCEPT !.focused = TRUE, !.z = TopZ + 1] ELSE w
SetFocus(id) ==
  /\ slots' = [i \in DOMAIN slots |-> IF slots[i] = None THEN None ELSE Raised(Blurred(slots[i], focused_id, id), id)]
  /\ focused_id' = id
  /\ UNCHANGED next_id

(* sorted_by_z: bottom to top, ties in the order of the slots.              *)
SortedByZ ==
  LET below(i, j) == slots[i].z < slots[j].z \/ (slots[i].z = slots[j].z /\ i < j)
  IN  [n \in 1 .. Cardinality(Windows) |->
         CHOOSE i \in Windows : Cardinality({j \in Windows : below(j, i)}) = n - 1]

(* What draw_window shows of the windows, and draw_taskbar of their titles. *)
WindowView == [n \in DOMAIN SortedByZ |->
  LET w == slots[SortedByZ[n]] IN [id |-> w.id, size |-> w.size, content |-> w.content, focused |-> w.focused]]
TaskbarView(focus) == [n \in DOMAIN SortedByZ |-> <<slots[SortedByZ[n]].id, slots[SortedByZ[n]].id = focus>>]

Init ==
  /\ slots = [i \in 1 .. MaxWindows |-> None] /\ next_id = 1 /\ focused_id = None
  /\ alt = FALSE /\ kb = 0
  /\ call = [p \in Procs |-> "none"]
  /\ drawn = None /\ screen = [windows |-> << >>, taskbar |-> << >>] /\ display = None
  /\ tabbed = FALSE /\ keys = 0 /\ calls = 0

-----------------------------------------------------------------------------
(* What the calls have in common: one at a time for a process, and a        *)
(* picture afterwards when something was changed.                           *)
Call(p) ==
  /\ call[p] = "none" /\ calls < MaxCalls /\ calls' = calls + 1
  /\ UNCHANGED <<alt, kb, picture, tabbed, keys>>
ThenCompose(p) == call' = [call EXCEPT ![p] = "compose"]
Owned(p, id) == Exists(id) /\ slots[SlotOf(id)].owner = p

(* SYS_WM_CREATE: on top of the others, without the focus.                  *)
Create(p, size) ==
  /\ call[p] = "none" /\ next_id <= MaxCreated /\ Cardinality(Windows) < MaxWindows
  /\ LET i == Smallest(DOMAIN slots \ Windows) IN
     slots' = [slots EXCEPT ![i] = [id |-> next_id, owner |-> p, z |-> TopZ + 1, focused |-> FALSE, size |-> size,
                                    content |-> "zero", queue |-> << >>, seen |-> "none", lost |-> FALSE]]
  /\ next_id' = next_id + 1
  /\ ThenCompose(p)
  /\ UNCHANGED <<focused_id, alt, kb, picture, tabbed, keys, calls>>

(* SYS_WM_DESTROY *)
ForgetFocus(id) == IF focused_id = id THEN None ELSE focused_id
Destroy(p, id) ==
  /\ Call(p) /\ Owned(p, id)
  /\ slots' = [slots EXCEPT ![SlotOf(id)] = None]
  /\ focused_id' = ForgetFocus(id)
  /\ ThenCompose(p)
  /\ UNCHANGED next_id

(* SYS_WM_BLIT: the whole client area at once.                              *)
Blit(p, id, size) ==
  /\ Call(p) /\ Owned(p, id)
  /\ slots[SlotOf(id)].size = size
  /\ slots' = [slots EXCEPT ![SlotOf(id)].content = "pixels"]
  /\ ThenCompose(p)
  /\ UNCHANGED <<next_id, focused_id>>

(* SYS_WM_MOVE_RESIZE: another size means an empty surface.                 *)
MoveResize(p, id, size) ==
  /\ Call(p) /\ Owned(p, id)
  /\ slots' = [slots EXCEPT ![SlotOf(id)].size = size,
                            ![SlotOf(id)].content = IF slots[SlotOf(id)].size = size THEN @ ELSE "zero"]
  /\ ThenCompose(p)
  /\ UNCHANGED <<next_id, focused_id>>

(* SYS_WM_FOCUS: any window, whoever it belongs to.                         *)
Focus(p, id) ==
  /\ Call(p) /\ Exists(id)
  /\ SetFocus(id)
  /\ ThenCompose(p)

(* SYS_WM_EVENT *)
Event(p, id) ==
  /\ call[p] = "none" /\ Owned(p, id)
  /\ LET w == slots[SlotOf(id)] IN
     /\ w.queue # << >>
     /\ slots' = [slots EXCEPT ![SlotOf(id)] =
          [w EXCEPT !.queue = Tail(@), !.seen = IF Head(w.queue) \in {"focus", "blur"} THEN Head(w.queue) ELSE @]]
  /\ UNCHANGED <<next_id, focused_id, alt, kb, call, picture, tabbed, keys, calls>>

(* SYS_KB_READ *)
KbRead ==
  /\ kb > 0 /\ kb' = kb - 1
  /\ UNCHANGED <<table, alt, call, picture, tabbed, keys, calls>>

(* compose_and_present: all windows,                                        *)
Compose(p) ==
  /\ call[p] = "compose" /\ display = None
  /\ display' = p
  /\ drawn' = [windows |-> WindowView, focus |-> focused_id]
  /\ call' = [call EXCEPT ![p] = "taskbar"]
  /\ tabbed' = FALSE
  /\ UNCHANGED <<table, alt, kb, screen, keys, calls>>

(* then the taskbar, with the focus as it was for the windows, and present. *)
Present(p) ==
  /\ call[p] = "taskbar"
  /\ screen' = [windows |-> drawn.windows, taskbar |-> TaskbarView(drawn.focus)]
  /\ display' = None /\ drawn' = None
  /\ call' = [call EXCEPT ![p] = "none"]
  /\ UNCHANGED <<table, alt, kb, tabbed, keys, calls>>

(* SYS_DISPLAY_PRESENT: a surface is copied over whatever is on the screen, *)
(* unless the display is locked.                                            *)
Covered == [windows |-> None, taskbar |-> << >>]
DisplayPresent(p) ==
  /\ call[p] = "none" /\ calls < MaxCalls /\ calls' = calls + 1
  /\ display = None
  /\ screen' = Covered
  /\ UNCHANGED <<table, alt, kb, call, drawn, display, tabbed, keys>>

-----------------------------------------------------------------------------
(* keyboard_irq_handler.  When the lock of the table is taken the handler   *)
(* does without the windows.                                                *)
Key ==
  /\ keys < MaxKeys /\ keys' = keys + 1
  /\ UNCHANGED <<call, picture, calls>>

AltKey ==
  /\ Key /\ alt' = ~alt
  /\ UNCHANGED <<table, kb, tabbed>>

(* cycle_focus: the next window by identifier.                              *)
Cycled ==
  LET ids == {slots[i].id : i \in Windows}
      above == {id \in ids : focused_id # None /\ id > focused_id}
  IN  IF above = {} THEN Smallest(ids) ELSE Smallest(above)
AltTab(free) ==
  /\ Key /\ alt
  /\ IF free /\ Windows # {} THEN SetFocus(Cycled) /\ tabbed' = TRUE ELSE UNCHANGED <<table, tabbed>>
  /\ UNCHANGED <<alt, kb>>

ToFocused(e) == slots' = [slots EXCEPT ![SlotOf(focused_id)] = Push(@, e)] /\ UNCHANGED <<next_id, focused_id>>
AltF4(free) ==
  /\ Key /\ alt
  /\ IF free /\ focused_id # None THEN ToFocused("close") ELSE UNCHANGED table
  /\ UNCHANGED <<alt, kb, tabbed>>

Type(e, free) ==
  /\ Key
  /\ IF free /\ focused_id # None
     THEN ToFocused(e) /\ UNCHANGED kb
     ELSE /\ kb' = IF e = "press" /\ kb < QueueSize - 1 THEN kb + 1 ELSE kb
          /\ UNCHANGED table
  /\ UNCHANGED <<alt, tabbed>>

Next ==
  \/ \E p \in Procs :
       \/ \E s \in Sizes : Create(p, s)
       \/ \E id \in 1 .. MaxCreated :
            \/ Destroy(p, id) \/ Focus(p, id) \/ Event(p, id)
            \/ \E s \in Sizes : Blit(p, id, s) \/ MoveResize(p, id, s)
       \/ Compose(p) \/ Present(p) \/ DisplayPresent(p)
  \/ KbRead \/ AltKey
  \/ \E free \in BOOLEAN : AltTab(free) \/ AltF4(free) \/ \E e \in {"press", "release"} : Type(e, free)

Spec == Init /\ [][Next]_wm
-----------------------------------------------------------------------------
(* What a window was last told of the focus: the newest such event in its   *)
(* queue or, if there is none, the last one its owner took out of it.       *)
Told(w) ==
  LET news == SelectSeq(w.queue, LAMBDA e : e \in {"focus", "blur"})
  IN  IF news = << >> THEN w.seen ELSE Last(news)

(* At most one window has the focus, it exists, keys go to it, and every    *)
(* window whose queue never overflowed knows whether it is the one, through *)
(* any mixture of destroyed windows, Alt+Tab and calls of other processes.  *)
FocusTold ==
  /\ focused_id # None => Exists(focused_id)
  /\ \A i \in Windows :
       /\ slots[i].focused = (slots[i].id = focused_id)
       /\ ~slots[i].lost => (slots[i].focused <=> Told(slots[i]) = "focus")

(* Once every call has ended the screen shows the windows and the taskbar   *)
(* as they are, although two calls may compose in either order; only        *)
(* Alt+Tab leaves the old picture, and a surface presented since covers it. *)
ScreenFollows ==
  (\A p \in Procs : call[p] = "none") /\ ~tabbed /\ screen # Covered
    => screen = [windows |-> WindowView, taskbar |-> TaskbarView(focused_id)]

=============================================================================
