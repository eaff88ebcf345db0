------------------------------ MODULE MCDevices ------------------------------
(***************************************************************************)
(* Instances of the parts that answer to what happens around them: boot,   *)
(* interrupts, the two network cards, the USB controller with its command  *)
(* ring and its keyboard, windows, surfaces, sound, streams, and the       *)
(* supervisors, which answer to crashes.  The instances share no state:    *)
(* `which' is the one that a behaviour is about, the others stay in an     *)
(* initial state.                                                          *)
(***************************************************************************)
EXTENDS Interrupts, E1000e, Integers, Sequences, FiniteSets, SequencesExt, TLC

CONSTANTS None, p1, p2

VARIABLES which,
  given, pc, parts, dirty, ints, timer, ticked, failed,                              \* Boot
  ready, free, memory, rxq, txq, rx_buffers, last_rx_desc, has_pending_rx, rxDone, txDone, broken,
  vqueued, vcable, varrived, vtaken, vpolled,                                       \* VirtioNet
  phase, blocks, portsc, ports, events, dequeue_index, work, changes, requests,    \* Xhci
  commands, enqueue_index, cycle, half, fetch, fetch_cycle, done, issued,          \* its rings
  config, state, keyboard_info, prev_keys, prev_modifiers, down, lost, steps,      \* Hid
  slots, next_id, focused_id, alt, kb, call, drawn, screen, display, tabbed, typed, calls, \* WindowManager
  surfaces, framebuffer, painted, shown, scalls,                                   \* Surfaces
  sources, next_source, out, accepted, heard,                                      \* Audio
  clients, pad, pressed, frame, pixels, text, coded, whole, part, gcalls,          \* GameStream
  pcbs, next_pid, queues, current, uptime, registered                              \* Process

Start == INSTANCE Boot WITH up <- parts
Virtual == INSTANCE VirtioNet WITH
  up <- ready, queued <- vqueued, wire <- vcable, arrived <- varrived, taken <- vtaken, polled <- vpolled,
  Size <- 3, Wrap <- 6, Frames <- 1 .. 5, MaxPackets <- 5
Usb == INSTANCE Xhci WITH
  boot <- phase, dma <- blocks, Protocols <- <<"usb2", "usb3">>, RingSize <- 4, MaxChanges <- 3, MaxRequests <- 2,
  MaxOutstanding <- 2, MaxCommands <- 7

(* Every configuration of up to three descriptors, and one cut short. *)
Descriptors == {"keyboard", "interface", "interrupt_in", "endpoint", "bad_length"}
Keyboard == INSTANCE Hid WITH
  Configs <- [short: {FALSE}, descs: SeqOf(Descriptors, 3)]
               \cup {[short |-> TRUE, descs |-> <<"keyboard", "interrupt_in">>]},
  Modifiers <- {1, 2}, Keys <- {3, 4, 5, 6}, MaxPressed <- 2, EventBuffer <- 4, MaxSteps <- 3

Windows == INSTANCE WindowManager WITH
  keys <- typed, Procs <- {p1, p2}, MaxWindows <- 2, QueueSize <- 3, Sizes <- {1, 2},
  MaxCreated <- 2, MaxKeys <- 2, MaxCalls <- 2

(* Surfaces larger and smaller than the framebuffer, whose rows are padded. *)
Screen == (0 .. 2) \X (0 .. 2)
Painting == INSTANCE Surfaces WITH
  slots <- surfaces, drawn <- painted, calls <- scalls, MaxSurfaces <- 2, MaxSide <- 3, Sides <- {0, 1, 3, 4},
  Width <- 2, Height <- 2, Pitch <- 3, Size <- 5, MaxCalls <- 5,
  Pictures <- {[p \in Screen |-> IF p[1] > p[2] THEN 1 ELSE 2], [p \in Screen |-> IF p[1] = p[2] THEN 1 ELSE 3]}

(* Samples of three bits. *)
Mixer == INSTANCE Audio WITH
  next_id <- next_source, MaxSources <- 2, BufferSize <- 2, Chunk <- 1, Lo <- -4, Hi <- 3, Full <- 2,
  Samples <- {-4, 3}, MaxId <- 2, MaxWritten <- 3
Streams == INSTANCE GameStream WITH
  held <- pressed, drawn <- pixels, calls <- gcalls, MaxClients <- 2, MaxRun <- 2, Width <- 2, Height <- 2,
  Colours <- {7, 8}, Strings <- SeqOf({1, 2}, 5), MaxCalls <- 5

(* Trees of up to four processes. *)
OneTick(prio) == 1
Tree == INSTANCE Process WITH
  NumLevels <- 2, Slice <- OneTick, Strategies <- {"OneForOne", "OneForAll"},
  Intents <- {[base |-> 0, cat |-> "Compute", deadline |-> None]}, Aging <- 0, Urgency <- 0, MaxRestarts <- 1,
  ButlerRestarts <- 2, RestartWindow <- 1, MaxDepth <- 1, TableMax <- 4, BusMax <- 4, MaxPids <- 4

bootVars == <<given, pc, parts, dirty, ints, timer, ticked, failed>>
virtioVars == <<ready, free, memory, rxq, txq, rx_buffers, last_rx_desc, has_pending_rx, rxDone, txDone, broken,
                vqueued, vcable, varrived, vtaken, vpolled>>
usbVars == <<phase, blocks, portsc, ports, events, dequeue_index, work, changes, requests>>
ringVars == <<commands, enqueue_index, cycle, half, fetch, fetch_cycle, done, issued>>
hidVars == <<config, state, keyboard_info, prev_keys, prev_modifiers, down, lost, steps>>
windowVars == <<slots, next_id, focused_id, alt, kb, call, drawn, screen, display, tabbed, typed, calls>>
surfaceVars == <<surfaces, framebuffer, painted, shown, scalls>>
audioVars == <<sources, next_source, out, accepted, heard>>
streamVars == <<clients, pad, pressed, frame, pixels, text, coded, whole, part, gcalls>>
treeVars == <<pcbs, next_pid, queues, current, uptime, registered>>
netVars == <<e1000e, virtioVars>>
usbAllVars == <<usbVars, ringVars, hidVars>>
deskVars == <<windowVars, surfaceVars>>
mediaVars == <<audioVars, streamVars>>
platformVars == <<bootVars, interrupts>>
devicesVars == <<which, platformVars, netVars, usbAllVars, deskVars, mediaVars, treeVars>>

DevicesInit ==
  /\ which \in {"boot", "irq", "intel", "virtio", "usb", "ring", "hid", "windows", "surfaces", "audio", "stream", "tree"}
  /\ Start!Init /\ IrqInit /\ NicInit /\ Virtual!Init /\ Usb!Init /\ Usb!RingInit /\ Keyboard!Init
  /\ Windows!Init /\ Painting!Init /\ Mixer!Init /\ Streams!Init /\ Tree!Init
  /\ which # "boot" => given = {}
  /\ which # "intel" => dma = 0 /\ ~link_up
  /\ which # "stream" => part = "clients" /\ frame = Streams!NewFrame("rgb")

DevicesNext ==
  /\ UNCHANGED which
  /\ \/ /\ which = "boot" /\ Start!Next
        /\ UNCHANGED <<interrupts, netVars, usbAllVars, deskVars, mediaVars, treeVars>>
     \/ /\ which = "irq" /\ IrqNext
        /\ UNCHANGED <<bootVars, netVars, usbAllVars, deskVars, mediaVars, treeVars>>
     \/ /\ which = "intel" /\ NicNext
        /\ UNCHANGED <<platformVars, virtioVars, usbAllVars, deskVars, mediaVars, treeVars>>
     \/ /\ which = "virtio" /\ Virtual!Next
        /\ UNCHANGED <<platformVars, e1000e, usbAllVars, deskVars, mediaVars, treeVars>>
     \/ /\ which = "usb" /\ Usb!Next
        /\ UNCHANGED <<platformVars, netVars, ringVars, hidVars, deskVars, mediaVars, treeVars>>
     \/ /\ which = "ring" /\ Usb!RingNext
        /\ UNCHANGED <<platformVars, netVars, usbVars, hidVars, deskVars, mediaVars, treeVars>>
     \/ /\ which = "hid" /\ Keyboard!Next
        /\ UNCHANGED <<platformVars, netVars, usbVars, ringVars, deskVars, mediaVars, treeVars>>
     \/ /\ which = "windows" /\ Windows!Next
        /\ UNCHANGED <<platformVars, netVars, usbAllVars, surfaceVars, mediaVars, treeVars>>
     \/ /\ which = "surfaces" /\ Painting!Next
        /\ UNCHANGED <<platformVars, netVars, usbAllVars, windowVars, mediaVars, treeVars>>
     \/ /\ which = "audio" /\ Mixer!Next
        /\ UNCHANGED <<platformVars, netVars, usbAllVars, deskVars, streamVars, treeVars>>
     \/ /\ which = "stream" /\ Streams!Next
        /\ UNCHANGED <<platformVars, netVars, usbAllVars, deskVars, audioVars, treeVars>>
     \/ /\ which = "tree" /\ (Tree!TreeNext \/ Tree!Tick)
        /\ UNCHANGED <<platformVars, netVars, usbAllVars, deskVars, mediaVars>>

DevicesSpec == DevicesInit /\ [][DevicesNext]_devicesVars

(* A crash restarts the processes that the strategy names and no others,    *)
(* until the restart intensity is exceeded: then it escalates.              *)
CrashHandled ==
  [][which = "tree" => Tree!CrashRestartsGroup /\ Tree!IntensityEscalates]_devicesVars

(* The processes with windows may be renamed. *)
ProcSymmetry == Permutations({p1, p2})

(* Boot: the shell starts with everything it needs brought up, on process,  *)
(* scheduler, bus and capability tables without leftovers of the gates; the *)
(* gates that run after the last reset may have changed governance and      *)
(* council.                                                                 *)
BootReady == which = "boot" => Start!BootReady
(* VirtioNet: packets leave in the order in which they were accepted and    *)
(* are handed to the stack once, in the order of arrival, until the receive *)
(* ring, which does not survive its first wrap-around, is used up.  Xhci,   *)
(* Hid: where the hub's cache of a port is out of date the port shows a     *)
(* change, the controller sees no command half written, the keyboard is     *)
(* found where there is one, and its events follow its keys as long as they *)
(* fit into the buffer.  WindowManager: windows are told when they gain and *)
(* lose the focus, and the screen shows the windows as they are once the    *)
(* calls are done.  Audio, GameStream, Surfaces: samples are heard once and in order, *)
(* frames and streams come out as they went in, pictures are shown as drawn. *)
DevicesFaithful ==
  /\ which = "virtio" => Virtual!VirtioInOrder
  /\ which = "usb" => Usb!CacheFollows
  /\ which = "ring" => Usb!CommandsWhole
  /\ which = "hid" => Keyboard!KeyboardFound /\ Keyboard!KeysFollow
  /\ which = "windows" => Windows!FocusTold /\ Windows!ScreenFollows
  /\ which = "audio" => Mixer!SamplesHeardOnce
  /\ which = "stream" => Streams!MediaFaithful
  /\ which = "surfaces" => Painting!PicturesShown
=============================================================================
