-------------------------------- MODULE Hid --------------------------------
(***************************************************************************)
(* The USB boot keyboard (kernel/src/drivers/usb/hid): enumeration of a    *)
(* device, the search for a keyboard in its configuration descriptor, and  *)
(* the reports that become key events.  Descriptors are cut down to what   *)
(* the search tells apart; a key is a number, and so is a modifier.        *)
(***************************************************************************)
EXTENDS Naturals, Sequences, FiniteSets, SequencesExt

CONSTANTS
  Configs,     \* configuration descriptors: [short, descs], see Find
  Modifiers, Keys,
  MaxPressed,  \* MAX_KEYS: keys of one report
  EventBuffer, \* length of the event buffer
  MaxSteps,    \* bound: devices, errors and reports
  None

VARIABLES
  config,                    \* descriptor of the attached device
  state, keyboard_info,      \* HidBootDriver
  prev_keys, prev_modifiers, \* BootKeyboardParser
  down, lost,                \* history: keys down by the events given; an event was dropped
  steps

hid == <<config, state, keyboard_info, prev_keys, prev_modifiers, down, lost, steps>>
parser == <<prev_keys, prev_modifiers, down, lost>>

(* find_hid_boot_keyboard: the walk over the descriptors after the header   *)
(* of the configuration.  An interface starts the search anew or ends it, a *)
(* length below 2 or past the end ends the walk.                            *)
Visit(walk, d) ==
  CASE walk.stop -> walk
    [] ~walk.stop /\ d = "bad_length" -> [walk EXCEPT !.stop = TRUE]
    [] ~walk.stop /\ d = "keyboard" -> [walk EXCEPT !.at = @ + 1, !.iface = walk.at + 1]
    [] ~walk.stop /\ d = "interface" -> [walk EXCEPT !.at = @ + 1, !.iface = None]
    [] ~walk.stop /\ d = "interrupt_in" /\ walk.iface # None ->
         [walk EXCEPT !.stop = TRUE, !.info = [iface |-> walk.iface, ep |-> walk.at + 1]]
    [] OTHER -> [walk EXCEPT !.at = @ + 1]
Find(c) ==
  IF c.short THEN None
  ELSE FoldLeft(Visit, [at |-> 0, iface |-> None, info |-> None, stop |-> FALSE], c.descs).info

-----------------------------------------------------------------------------
Init ==
  /\ config = None /\ state = "Disconnected" /\ keyboard_info = None
  /\ prev_keys = {} /\ prev_modifiers = {} /\ down = {} /\ lost = FALSE /\ steps = 0

Step == steps < MaxSteps /\ steps' = steps + 1

(* A device is attached and enumeration starts, whatever the state: what    *)
(* was known of an earlier device is kept.                                  *)
StartEnumeration(c) ==
  /\ Step
  /\ config' = c /\ state' = "GetDeviceDescriptor"
  /\ UNCHANGED <<keyboard_info, parser>>

(* advance, one handler per state; data that is too short is an error.      *)
Advance(from, to) ==
  /\ state = from /\ state' = to
  /\ UNCHANGED <<config, parser, steps>>
DeviceDescriptor ==
  /\ \E to \in {"GetConfigDescriptor", "Error"} : Advance("GetDeviceDescriptor", to)
  /\ UNCHANGED keyboard_info
ConfigDescriptor ==
  \/ Advance("GetConfigDescriptor", "Error") /\ UNCHANGED keyboard_info
  \/ /\ Advance("GetConfigDescriptor", "SetConfiguration")
     /\ Find(config) # None
     /\ keyboard_info' = Find(config)
SetConfiguration ==
  /\ Advance("SetConfiguration", IF keyboard_info = None THEN "Error" ELSE "SetProtocol")
  /\ UNCHANGED keyboard_info
SetProtocol ==
  /\ Advance("SetProtocol", IF keyboard_info = None THEN "Error" ELSE "SetIdle")
  /\ UNCHANGED keyboard_info
SetIdle == Advance("SetIdle", "Active") /\ UNCHANGED keyboard_info

SignalError ==
  /\ Step /\ state \notin {"Disconnected", "Error"}
  /\ state' = "Error"
  /\ UNCHANGED <<config, keyboard_info, parser>>

(* disconnect of the driver, and reset of the parser: nothing ties the two  *)
(* together.  Who reads the keys forgets them with the reset.               *)
Disconnect ==
  /\ Step /\ state # "Disconnected"
  /\ state' = "Disconnected" /\ keyboard_info' = None /\ config' = None
  /\ UNCHANGED parser
Reset ==
  /\ Step /\ prev_keys \cup prev_modifiers # {}
  /\ prev_keys' = {} /\ prev_modifiers' = {} /\ down' = {} /\ lost' = FALSE
  /\ UNCHANGED <<config, state, keyboard_info>>

-----------------------------------------------------------------------------
(* process_report: modifiers, releases, presses, as many as there is room   *)
(* for.                                                                     *)
Events(mods, keys) ==
  SetToSeq((prev_modifiers \ mods) \cup (mods \ prev_modifiers)) \o SetToSeq(prev_keys \ keys) \o SetToSeq(keys \ prev_keys)
Room(n, events) == IF Len(events) < n THEN Len(events) ELSE n
Pushed(events) == SubSeq(events, 1, Room(EventBuffer, events))

Toggle(keys, k) == IF k \in keys THEN keys \ {k} ELSE keys \cup {k}

ProcessReport(mods, keys) ==
  LET events == Events(mods, keys)
  IN  /\ Step /\ state = "Active"
      /\ down' = FoldLeft(Toggle, down, Pushed(events))
      /\ lost' = (lost \/ Len(events) > EventBuffer)
      /\ prev_keys' = keys /\ prev_modifiers' = mods
      /\ UNCHANGED <<config, state, keyboard_info>>

(* Too many keys are down for a report: it says so and is ignored.          *)
Rollover == Step /\ state = "Active" /\ UNCHANGED <<config, state, keyboard_info, parser>>

Next ==
  \/ \E c \in Configs : StartEnumeration(c)
  \/ DeviceDescriptor \/ ConfigDescriptor \/ SetConfiguration \/ SetProtocol \/ SetIdle
  \/ SignalError \/ Disconnect \/ Reset \/ Rollover
  \/ \E mods \in SUBSET Modifiers, keys \in {s \in SUBSET Keys : Cardinality(s) <= MaxPressed} : ProcessReport(mods, keys)

Spec == Init /\ [][Next]_hid
-----------------------------------------------------------------------------
IsInterface(d) == d \in {"keyboard", "interface"}

(* An endpoint that belongs to a keyboard: the last interface before it is  *)
(* one, and the descriptors up to it are sound.                             *)
Belongs(descs, i, e) ==
  /\ i < e /\ descs[i] = "keyboard" /\ descs[e] = "interrupt_in"
  /\ \A j \in i + 1 .. e : ~IsInterface(descs[j])
  /\ \A j \in 1 .. e : descs[j] # "bad_length"

(* Whatever devices come and go and whichever transfer fails, a keyboard    *)
(* that is being set up or in use is the first one of the device that is    *)
(* attached now: its interface and the first endpoint that belongs to it.   *)
KeyboardFound ==
  state \in {"SetConfiguration", "SetProtocol", "SetIdle", "Active"} =>
    LET info == keyboard_info descs == config.descs
    IN  /\ ~config.short
        /\ Belongs(descs, info.iface, info.ep)
        /\ \A i, e \in DOMAIN descs : Belongs(descs, i, e) => info.ep <= e

(* Unless one report changed more than the buffer holds, the events of all  *)
(* reports so far leave down exactly the keys of the last one, through      *)
(* roll-over reports and reconnections.  The exception is real: the buffer  *)
(* of 16 is said to be the worst case (hid_input.rs:137), which is 20, six  *)
(* releases, six presses and eight modifiers, and what does not fit is lost *)
(* although the parser takes the report as seen.                            *)
KeysFollow == ~lost => down = prev_keys \cup prev_modifiers
=============================================================================
