---------------------------- MODULE MCMessaging ----------------------------
(***************************************************************************)
(* Instances of what carries data between processes: the bus, the drivers  *)
(* that answer messages, the audit log, files, and packets on a link.  The *)
(* instances share no state: `which' is the one that a behaviour is about, *)
(* the others stay in an initial state.                                    *)
(***************************************************************************)
EXTENDS Bus, AuditLog, Files, TLC

CONSTANTS a, b

VARIABLES which,
  class, entry, mode, token, seen, inbox, call, job, requests, faults, handled, answers, refused,   \* Hal
  sent, packet, spoiled, padded, count                                                              \* Wire

(* A monitor filter for the bus: the messages of process 1. *)
MCFilters == {[sender |-> 1, receiver |-> None, msg_type |-> None]}

(* Requests with and without a token, and the interrupt of the timer. *)
Input(k, op, tokened) == [class |-> k, op |-> op, fits |-> TRUE, tokened |-> tokened]
Drivers == INSTANCE Hal WITH
  last_seen <- seen, Clients <- {a, b}, Driver <- "driver", Dispatchers <- {"d1", "d2"}, Kernel <- "kernel",
  InboxSize <- 2, MaxRequests <- 2, MaxFaults <- 1,
  Inputs <- {Input("ramdisk", "write", TRUE), Input("ramdisk", "read", FALSE),
             Input("serial", "write", TRUE), Input("timer", "interrupt", TRUE)}

(* A file, a directory and a file in it; a device and a name that is too long. *)
Item(name, is_directory, data) == [name |-> name, is_directory |-> is_directory, data |-> data]
MCArchive == <<Item(<<"a">>, FALSE, <<1>>), Item(<<"bin">>, TRUE, << >>), Item(<<"bin", "b">>, FALSE, << >>)>>
MCPaths == {<<"a">>, <<"">>, <<"dev", "zero">>, <<"bin", "b">>, <<"long">>}
MCWrites == {<<1>>}

(* Bytes of three bits: sums of words carry over, also more than once. *)
Link == INSTANCE Wire WITH
  Base <- 8, Bytes <- {0, 1, 6, 7}, Addresses <- {<<0, 1>>, <<7, 7>>}, Ports <- {5, 62},
  Payloads <- {<< >>, <<7>>, <<1, 7>>, <<0, 7, 7>>}, MinPayload <- 21, MaxMessages <- 1

halVars == <<class, entry, mode, token, seen, inbox, call, job, requests, faults, handled, answers, refused>>
wireVars == <<sent, packet, spoiled, padded, count>>
messagingVars == <<which, hvars, halVars, auditVars, fvars, wireVars>>

MessagingInit ==
  /\ which \in {"bus", "hal", "audit", "files", "wire"}
  /\ HInit /\ AuditInit /\ FilesInit /\ Link!Init
  /\ Drivers!Init /\ (which # "hal" => class = "serial")

MessagingNext ==
  /\ UNCHANGED which
  /\ \/ /\ which = "bus" /\ HNext
        /\ UNCHANGED <<halVars, auditVars, fvars, wireVars>>
     \/ /\ which = "hal" /\ Drivers!Next
        /\ UNCHANGED <<hvars, auditVars, fvars, wireVars>>
     \/ /\ which = "audit" /\ AuditNext
        /\ UNCHANGED <<hvars, halVars, fvars, wireVars>>
     \/ /\ which = "files" /\ FilesNext
        /\ UNCHANGED <<hvars, halVars, auditVars, wireVars>>
     \/ /\ which = "wire" /\ Link!Next
        /\ UNCHANGED <<hvars, halVars, auditVars, fvars>>

MessagingSpec == MessagingInit /\ [][MessagingNext]_messagingVars

(* Payload contents, clients, events and processes may be renamed. *)
Renaming == Permutations({a, b})

(* Hal: the answers of a driver arrive at whom they are for, in order and   *)
(* with what the driver holds; a request that it handled is being answered, *)
(* was answered once, or its answer was refused for a cause that is known.  *)
AnswersInOrder == which = "hal" => Drivers!AnswersInOrder /\ Drivers!AnswersAccounted
(* Wire: every message comes out of its packet as it went in, and a         *)
(* standard receiver accepts it unless it was damaged.                      *)
WireFaithful == which = "wire" => Link!WireFaithful
=============================================================================
