------------------------------ MODULE Surfaces ------------------------------
(***************************************************************************)
(* The surfaces that processes draw on (kernel/src/display/mod.rs and      *)
(* compositor.rs, with the system calls 18 to 20): a table whose slots are *)
(* never freed, pixels kept row after row, and a copy to the framebuffer,  *)
(* whose rows are Pitch apart and of which Size is mapped.  Offsets count  *)
(* pixels.                                                                 *)
(***************************************************************************)
EXTENDS Naturals, Sequences, FiniteSets, SequencesExt

CONSTANTS
  MaxSurfaces,         \* MAX_SURFACES
  MaxSide,             \* 4096, the limit on either side of a surface
  Sides,               \* sides that processes ask for
  Width, Height, Pitch, Size,  \* the framebuffer
  Pictures,            \* what a process may draw: a colour for every <<x, y>>
  MaxCalls             \* bound: system calls

VARIABLES
  slots,               \* surfaces [w, h, buffer, dirty], by identifier + 1
  framebuffer,         \* the mapped framebuffer
  drawn, shown,        \* history: picture of every surface, and of the screen
  calls

surfaces == <<slots, framebuffer, drawn, shown, calls>>

Black == 0
Points(w, h) == (0 .. w - 1) \X (0 .. h - 1)
Least(a, b) == IF a < b THEN a ELSE b

(* Surface::new *)
NewSurface(w, h) == [w |-> w, h |-> h, buffer |-> [i \in 1 .. w * h |-> Black], dirty |-> FALSE]

Init ==
  /\ slots = << >> /\ drawn = << >> /\ calls = 0
  /\ framebuffer = [i \in 0 .. Size - 1 |-> Black]
  /\ shown = [p \in Points(Width, Height) |-> Black]

Call == calls < MaxCalls /\ calls' = calls + 1
Fails == Call /\ UNCHANGED <<slots, framebuffer, drawn, shown>>

(* syscall_display_alloc_surface *)
Alloc(w, h) ==
  /\ Call
  /\ w \in 1 .. MaxSide /\ h \in 1 .. MaxSide /\ Len(slots) < MaxSurfaces
  /\ slots' = Append(slots, NewSurface(w, h))
  /\ drawn' = Append(drawn, [p \in Points(w, h) |-> Black])
  /\ UNCHANGED <<framebuffer, shown>>
AllocFails(w, h) == (w = 0 \/ h = 0 \/ w > MaxSide \/ h > MaxSide \/ Len(slots) = MaxSurfaces) /\ Fails

(* What a process passes: its picture, row after row. *)
Rows(picture, w, h) == [i \in 1 .. w * h |-> picture[<<(i - 1) % w, (i - 1) \div w>>]]

(* syscall_display_blit: only a buffer of exactly the right length.        *)
Blit(id, picture, len) ==
  /\ Call /\ id \in DOMAIN slots
  /\ len = Len(slots[id].buffer)
  /\ slots' = [slots EXCEPT ![id].buffer = Rows(picture, slots[id].w, slots[id].h), ![id].dirty = TRUE]
  /\ drawn' = [drawn EXCEPT ![id] = [p \in DOMAIN @ |-> picture[p]]]
  /\ UNCHANGED <<framebuffer, shown>>
BlitFails(id, len) == (id \in DOMAIN slots => len # Len(slots[id].buffer)) /\ Fails

(* present: the common part of surface and screen; the framebuffer is never *)
(* written past what is mapped.                                             *)
Target(p) == p[2] * Pitch + p[1]
SourceOf(s, p) == s.buffer[p[2] * s.w + p[1] + 1]
Copied(s) ==
  [i \in DOMAIN framebuffer |->
     LET from == {p \in Points(Least(s.w, Width), Least(s.h, Height)) : Target(p) = i}
     IN  IF from = {} THEN framebuffer[i] ELSE SourceOf(s, CHOOSE p \in from : TRUE)]

(* syscall_display_present: the dirty flag is left as it is.                *)
Present(id) ==
  /\ Call /\ id \in DOMAIN slots
  /\ framebuffer' = Copied(slots[id])
  /\ shown' = [p \in DOMAIN shown |-> IF p \in DOMAIN drawn[id] THEN drawn[id][p] ELSE shown[p]]
  /\ UNCHANGED <<slots, drawn>>
PresentFails(id) == id \notin DOMAIN slots /\ Fails

(* try_lock: any call fails while another one is under way.                *)
Ids == 1 .. MaxSurfaces + 1
Next ==
  \/ \E w, h \in Sides : Alloc(w, h) \/ AllocFails(w, h)
  \/ \E id \in Ids, len \in {w * h : w, h \in Sides} :
       BlitFails(id, len) \/ \E picture \in Pictures : Blit(id, picture, len)
  \/ \E id \in Ids : Present(id) \/ PresentFails(id)

Spec == Init /\ [][Next]_surfaces
-----------------------------------------------------------------------------
(* What processes drew is what is on the screen, point for point, whatever  *)
(* the sizes of their surfaces and the gap between the rows of the          *)
(* framebuffer, in which nothing is written; points beyond the mapped part  *)
(* are left out and everything else shows the surface presented last.       *)
PicturesShown ==
  /\ \A p \in DOMAIN shown : Target(p) < Size => framebuffer[Target(p)] = shown[p]
  /\ \A i \in DOMAIN framebuffer : i % Pitch >= Width => framebuffer[i] = Black
  /\ \A id \in DOMAIN slots : Len(slots[id].buffer) = slots[id].w * slots[id].h
=============================================================================
