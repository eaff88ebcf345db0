-------------------------------- MODULE Xhci --------------------------------
(***************************************************************************)
(* The USB host controller driver (kernel/src/drivers/usb/xhci): bringing  *)
(* the controller up and the root hub with its cached port states.  The    *)
(* controller takes steps of its own between any two updates of a register *)
(* (what is read for an update belongs to its step); it is external and    *)
(* does what the driver relies on:                                         *)
(* change bits and the enable bit of a port register are cleared by        *)
(* writing a one, a port event is put into the event ring when the first   *)
(* change bit of a port is set, and no event is written past the dequeue   *)
(* pointer that the driver last reported.                                  *)
(***************************************************************************)
EXTENDS Naturals, Sequences, FiniteSets

CONSTANTS
  Protocols,               \* port -> "usb2", "usb3" or "unknown"
  RingSize,                \* RING_SIZE of the event ring and the command ring
  MaxChanges, MaxRequests, \* bounds: steps of the controller, requests
  MaxOutstanding,          \* bound: TRBs the caller leaves unfinished; enqueue does not check
  MaxCommands,             \* bound: TRBs ever enqueued
  None

VARIABLES
  boot, dma,                  \* phases of init_from_pci done; DMA buffers taken
  portsc,                     \* port registers
  ports,                      \* RootHub::ports: what the hub knows
  events, dequeue_index,      \* event ring: ports reported; consumer position
  work,                       \* handler or reset under way
  changes, requests           \* counters

xhci == <<boot, dma, portsc, ports, events, dequeue_index, work, changes, requests>>
bootVars == <<boot, dma>>

Ports == DOMAIN Protocols
(* The order in which handle_port_status_change looks at the change bits. *)
ChangeBits == <<"CSC", "PRC", "PEC", "OCC", "WRC", "PLC", "CEC">>

(* read_port_status: the snapshot that the hub keeps, with derive_state.    *)
DeriveState(r) ==
  CASE r.OCA -> "Error"
    [] ~r.OCA /\ ~r.PP -> "PoweredOff"
    [] ~r.OCA /\ r.PP /\ r.PR -> "Resetting"
    [] ~r.OCA /\ r.PP /\ ~r.PR /\ ~r.CCS -> "Disconnected"
    [] ~r.OCA /\ r.PP /\ ~r.PR /\ r.CCS /\ r.PED -> IF r.pls = "U3" THEN "Suspended" ELSE "Enabled"
    [] OTHER -> "Disabled"
ReadPortStatus(r) ==
  [connected |-> r.CCS, enabled |-> r.PED, overcurrent |-> r.OCA, state |-> DeriveState(r), changes |-> r.chg]

Empty == [PP |-> TRUE, CCS |-> FALSE, PED |-> FALSE, PR |-> FALSE, WPR |-> FALSE, OCA |-> FALSE, pls |-> "RxDetect", chg |-> {}]

(* init_from_pci up to the start of the controller; each phase may fail,    *)
(* and what it has taken by then stays taken.  A controller that does not   *)
(* start is kept without a root hub.                                        *)
Phases == <<"map", "caps", "cnr", "halt", "reset", "dcbaa", "command_ring", "event_ring", "erst", "start">>
TakesDma == {"dcbaa", "command_ring", "event_ring", "erst"}
Running == boot = Len(Phases)
Failed == Len(Phases) + 1
NoHub == Len(Phases) + 2

Init ==
  /\ boot = 0 /\ dma = {}
  /\ portsc = [p \in Ports |-> Empty]
  /\ ports = [p \in Ports |-> None]
  /\ events = << >> /\ dequeue_index = 0 /\ work = None
  /\ changes = 0 /\ requests = 0

(* The last phase is followed by RootHub::init, which scans all ports.      *)
InitPhase(ok) ==
  /\ boot \in 0 .. Len(Phases) - 1
  /\ LET phase == Phases[boot + 1] IN
     /\ dma' = IF ok /\ phase \in TakesDma THEN dma \cup {phase} ELSE dma
     /\ boot' = CASE ok -> boot + 1
                  [] ~ok -> IF phase = "start" THEN NoHub ELSE Failed
     /\ ports' = IF ok /\ phase = "start" THEN [p \in Ports |-> ReadPortStatus(portsc[p])] ELSE ports
  /\ UNCHANGED <<portsc, events, dequeue_index, work, changes, requests>>

-----------------------------------------------------------------------------
(* What a write to a port register does.  All writes of the driver keep     *)
(* what they read but for the change bits, the enable bit included: where   *)
(* it was set it is written as a one and so cleared.                        *)
Write(r, set, ack, pls) ==
  [r EXCEPT !.PED = FALSE,
            !.PP = set # "power_off" /\ (@ \/ set = "power_on"),
            !.CCS = @ /\ set # "power_off",
            !.PR = @ \/ (set \in {"reset", "warm"} /\ r.PP /\ r.CCS),
            !.WPR = @ \/ set = "warm",
            !.pls = IF pls = None THEN @ ELSE pls,
            !.chg = (@ \ ack) \cup (IF set = "power_off" /\ r.CCS THEN {"CSC"} ELSE {})]

(* port.rs: what is written for each purpose.  resume_port and disable_port *)
(* depend on the protocol of the port: a USB 2 port is resumed in two steps.*)
PowerOn(r) == Write(r, "power_on", {}, None)
PowerOff(r) == Write(r, "power_off", {}, None)
SetLinkState(r, pls) == Write(r, "none", {}, pls)
SuspendPort(r) == SetLinkState(r, "U3")
ResumePort(r, protocol) == SetLinkState(r, IF protocol = "usb3" THEN "U0" ELSE "Resume")
DisablePort(r, protocol) == Write(r, "none", {}, IF protocol = "usb3" THEN "Disabled" ELSE None)

(* clear_change_bit *)
ClearChangeBit(r, bit) == Write(r, "none", {bit}, None)

(* A port event is written when the first change bit of a port is set, as   *)
(* long as there is room before the dequeue pointer, which the driver never *)
(* moves on from the start of the ring.                                     *)
Report(p, r) ==
  IF portsc[p].chg = {} /\ r.chg # {} /\ Len(events) < RingSize - 1 THEN Append(events, p) ELSE events
Set(p, r) == portsc' = [portsc EXCEPT ![p] = r] /\ events' = Report(p, r)

(* refresh_port *)
RefreshPort(p, r) == ports' = [ports EXCEPT ![p] = ReadPortStatus(r)]

(* process_pending_events takes the next event, and                         *)
(* handle_port_status_change reads the port,                                *)
TakeEvent ==
  /\ Running /\ work = None /\ dequeue_index < Len(events)
  /\ dequeue_index' = dequeue_index + 1
  /\ LET p == events[dequeue_index + 1] IN
     work' = [kind |-> "event", port |-> p, info |-> ReadPortStatus(portsc[p]),
              left |-> SelectSeq(ChangeBits, LAMBDA b : b \in portsc[p].chg)]
  /\ UNCHANGED <<portsc, ports, events, changes, requests, bootVars>>

(* acknowledges one change after the other,                                 *)
ClearNext ==
  /\ work # None /\ work.kind = "event" /\ work.left # << >>
  /\ Set(work.port, ClearChangeBit(portsc[work.port], Head(work.left)))
  /\ work' = [work EXCEPT !.left = Tail(@)]
  /\ UNCHANGED <<ports, dequeue_index, changes, requests, bootVars>>

(* and reads the port again for the cache.                                  *)
UpdatedStale(w) == w.info
Updated(w) == ReadPortStatus(portsc[w.port])
Finish ==
  /\ work # None /\ work.kind = "event" /\ work.left = << >>
  /\ ports' = [ports EXCEPT ![work.port] = Updated(work)]
  /\ work' = None
  /\ UNCHANGED <<portsc, events, dequeue_index, changes, requests, bootVars>>

(* reset_port: start the reset that the link needs, wait, and give up after *)
(* RESET_TIMEOUT polls.                                                     *)
UseWarmReset(p) == Protocols[p] = "usb3" /\ portsc[p].pls \in {"Inactive", "Compliance"}
ResetPort(p) ==
  /\ Running /\ work = None /\ requests < MaxRequests /\ portsc[p].CCS
  /\ requests' = requests + 1
  /\ Set(p, Write(portsc[p], IF UseWarmReset(p) THEN "warm" ELSE "reset", {}, None))
  /\ work' = [kind |-> "reset", port |-> p]
  /\ UNCHANGED <<ports, dequeue_index, changes, bootVars>>

ResetComplete ==
  /\ work # None /\ work.kind = "reset"
  /\ LET p == work.port IN
     /\ ~portsc[p].PR /\ "PRC" \in portsc[p].chg
     /\ Set(p, ClearChangeBit(portsc[p], "PRC"))
     /\ RefreshPort(p, ClearChangeBit(portsc[p], "PRC"))
  /\ work' = None
  /\ UNCHANGED <<dequeue_index, changes, requests, bootVars>>

ResetTimeout ==
  /\ work # None /\ work.kind = "reset"
  /\ work' = None
  /\ UNCHANGED <<portsc, ports, events, dequeue_index, changes, requests, bootVars>>

(* handle_hub_request: features are set and cleared in the register; only   *)
(* the acknowledgement of a change reads the port again.                    *)
Request(p) ==
  /\ Running /\ work = None /\ requests < MaxRequests
  /\ requests' = requests + 1
  /\ UNCHANGED <<dequeue_index, changes, bootVars>>

SetFeature(p, feature) ==
  /\ Request(p)
  /\ Set(p, CASE feature = "PORT_POWER" -> PowerOn(portsc[p])
              [] feature = "PORT_RESET" -> Write(portsc[p], "reset", {}, None)
              [] feature = "BH_PORT_RESET" -> Write(portsc[p], "warm", {}, None)
              [] feature = "PORT_SUSPEND" -> SuspendPort(portsc[p])
              [] feature = "PORT_LINK_STATE" -> SetLinkState(portsc[p], "U0"))
  /\ UNCHANGED <<ports, work>>

ClearFeature(p, feature) ==
  /\ Request(p)
  /\ Set(p, CASE feature = "PORT_ENABLE" -> DisablePort(portsc[p], Protocols[p])
              [] feature = "PORT_SUSPEND" -> ResumePort(portsc[p], Protocols[p])
              [] feature = "PORT_POWER" -> PowerOff(portsc[p]))
  /\ work' = IF feature = "PORT_SUSPEND" /\ Protocols[p] # "usb3" THEN [kind |-> "resume", port |-> p] ELSE None
  /\ UNCHANGED ports

(* resume_port of a USB 2 port, 20 ms later. *)
ResumeEnds ==
  /\ work # None /\ work.kind = "resume"
  /\ Set(work.port, SetLinkState(portsc[work.port], "U0"))
  /\ work' = None
  /\ UNCHANGED <<ports, dequeue_index, changes, requests, bootVars>>

Acknowledge(p, bit) ==
  /\ Request(p)
  /\ Set(p, ClearChangeBit(portsc[p], bit))
  /\ RefreshPort(p, ClearChangeBit(portsc[p], bit))
  /\ UNCHANGED work

(* GET_STATUS changes nothing: the hub answers from its cache, a port from  *)
(* its register, with the bits that its protocol has.                       *)
PortChange(protocol, bit) ==
  CASE bit \in {"WRC", "CEC"} -> IF protocol = "usb3" THEN {bit} ELSE {}
    [] bit = "PLC" -> IF protocol = "usb3" THEN {bit} ELSE {"SUSPEND"}
    [] OTHER -> {bit}
PortStatus(r, protocol) ==
  [connection |-> r.CCS, enable |-> r.PED, overcurrent |-> r.OCA, reset |-> r.PR, power |-> r.PP,
   link |-> IF protocol = "usb3" \/ r.pls = "U3" THEN r.pls ELSE "none",
   change |-> UNION {PortChange(protocol, b) : b \in r.chg}]
GetPortStatus(p) == PortStatus(portsc[p], Protocols[p])
HubOverCurrent == \E p \in Ports : ports[p].overcurrent

-----------------------------------------------------------------------------
(* The controller: devices come and go, over-current, resets end, a link    *)
(* changes its state.                                                       *)
Hardware(p, r) ==
  /\ Running /\ changes < MaxChanges
  /\ changes' = changes + 1
  /\ Set(p, r)
  /\ UNCHANGED <<ports, dequeue_index, work, requests, bootVars>>

Plug(p) ==
  /\ portsc[p].PP
  /\ Hardware(p, [portsc[p] EXCEPT !.CCS = ~@, !.PED = FALSE, !.PR = FALSE, !.WPR = FALSE, !.chg = @ \cup {"CSC"}])
OverCurrent(p) ==
  Hardware(p, [portsc[p] EXCEPT !.OCA = ~@, !.PED = FALSE,
                                !.chg = @ \cup {"OCC"} \cup (IF portsc[p].PED THEN {"PEC"} ELSE {})])
ResetEnds(p) ==
  /\ portsc[p].PR
  /\ Hardware(p, [portsc[p] EXCEPT !.PR = FALSE, !.WPR = FALSE, !.PED = TRUE, !.pls = "U0",
                                   !.chg = @ \cup {"PRC"} \cup (IF portsc[p].WPR THEN {"WRC"} ELSE {})])
LinkFails(p, pls) ==
  /\ Protocols[p] = "usb3" /\ portsc[p].CCS
  /\ Hardware(p, [portsc[p] EXCEPT !.pls = pls, !.chg = @ \cup {"PLC", "CEC"}])

Next ==
  \/ \E ok \in BOOLEAN : InitPhase(ok)
  \/ TakeEvent \/ ClearNext \/ Finish \/ ResetComplete \/ ResetTimeout \/ ResumeEnds
  \/ \E p \in Ports :
       \/ ResetPort(p)
       \/ \E f \in {"PORT_POWER", "PORT_RESET", "BH_PORT_RESET", "PORT_SUSPEND", "PORT_LINK_STATE"} : SetFeature(p, f)
       \/ \E f \in {"PORT_ENABLE", "PORT_SUSPEND", "PORT_POWER"} : ClearFeature(p, f)
       \/ \E i \in DOMAIN ChangeBits : Acknowledge(p, ChangeBits[i])
       \/ Plug(p) \/ OverCurrent(p) \/ ResetEnds(p) \/ \E pls \in {"Inactive", "Compliance"} : LinkFails(p, pls)

Spec == Init /\ [][Next]_xhci
-----------------------------------------------------------------------------
(* No difference without a trace: where the hub's cache and the port differ *)
(* in what is plugged in or in an over-current, the port still has a change *)
(* bit set, however changes fall between the accesses of the handler, or    *)
(* the handler has yet to read the port again.  So GET_STATUS of the hub    *)
(* denies an over-current only while GET_STATUS of the port shows a change, *)
(* whatever its protocol hides.  That the hub ever looks is not said: the   *)
(* event ring fills up, as its dequeue pointer is never reported, and the   *)
(* change is then seen only by who asks the port.                           *)
CacheFollows ==
  LET Told(p) == GetPortStatus(p).change # {} \/ (work # None /\ work.kind = "event" /\ work.port = p)
  IN Running =>
       /\ \A p \in Ports : Told(p) \/ (ports[p].connected = portsc[p].CCS /\ ports[p].overcurrent = portsc[p].OCA)
       /\ HubOverCurrent \/ \A p \in Ports : Told(p) \/ ~GetPortStatus(p).overcurrent

-----------------------------------------------------------------------------
(* The command ring (TrbRing of context.rs).  The controller polls memory   *)
(* while the driver is still writing: the cycle bit of a TRB is what hands  *)
(* it over.  The last TRB is a link to the first; its cycle bit is written  *)
(* once.                                                                    *)

VARIABLES
  commands, enqueue_index, cycle, half, \* the ring, producer state, TRB half written
  fetch, fetch_cycle, done,             \* controller: next TRB, its cycle state, TRBs executed
  issued                                \* TRBs enqueued

ring == <<commands, enqueue_index, cycle, half, fetch, fetch_cycle, done, issued>>

(* init_producer *)
RingInit ==
  /\ commands = [i \in 0 .. RingSize - 1 |-> [body |-> 0, cycle |-> i = RingSize - 1]]
  /\ enqueue_index = 0 /\ cycle = TRUE /\ half = FALSE
  /\ fetch = 0 /\ fetch_cycle = TRUE /\ done = << >> /\ issued = 0

-----------------------------------------------------------------------------
(* enqueue with write_trb_safe: parameter and status first, the control     *)
(* word with the cycle bit last.                                            *)
WriteBody ==
  /\ ~half /\ issued < MaxCommands /\ issued - Len(done) < MaxOutstanding
  /\ commands' = [commands EXCEPT ![enqueue_index].body = issued + 1]
  /\ half' = TRUE
  /\ UNCHANGED <<enqueue_index, cycle, fetch, fetch_cycle, done, issued>>

WriteControl ==
  /\ half /\ half' = FALSE
  /\ commands' = [commands EXCEPT ![enqueue_index] = [body |-> issued + 1, cycle |-> cycle]]
  /\ issued' = issued + 1
  /\ enqueue_index' = (enqueue_index + 1) % (RingSize - 1)
  /\ cycle' = IF enqueue_index + 1 = RingSize - 1 THEN ~cycle ELSE cycle
  /\ UNCHANGED <<fetch, fetch_cycle, done>>

(* The controller takes a TRB whose cycle bit is its own; the link TRB at   *)
(* the end takes it back to the start with the other one.                   *)
Fetch ==
  /\ commands[fetch].cycle = fetch_cycle
  /\ IF fetch = RingSize - 1
     THEN fetch' = 0 /\ fetch_cycle' = ~fetch_cycle /\ UNCHANGED done
     ELSE fetch' = fetch + 1 /\ done' = Append(done, commands[fetch].body) /\ UNCHANGED fetch_cycle
  /\ UNCHANGED <<commands, enqueue_index, cycle, half, issued>>

RingNext == WriteBody \/ WriteControl \/ Fetch

-----------------------------------------------------------------------------
(* The controller never executes a TRB that is only half written, nor one   *)
(* twice, nor passes one over, whenever it looks: the cycle bit comes last. *)
CommandsWhole == done = [i \in 1 .. Len(done) |-> i]
=============================================================================
