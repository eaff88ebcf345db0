--------------------------------- MODULE Bus ---------------------------------
(***************************************************************************)
(* The message bus under its lock: kernel/src/bus/router.rs with the       *)
(* inbox queues, the sequence tracker, the payload arena and the monitor   *)
(* taps.  Every operation locks BUS, so each is one atomic action; what    *)
(* bus::send does before it takes that lock (policy, capability, owner) is *)
(* not part of this module.                                                *)
(*                                                                         *)
(* Inboxes and tap buffers are sequences here, ring buffers in the code.   *)
(* The audit log is its entry count; timestamps are left out.  A call that *)
(* returns an error and changes nothing else leaves the state alone.       *)
(***************************************************************************)
EXTENDS Integers, Sequences, FiniteSets, SequencesExt

CONSTANTS
  Pids,           \* process ids that use the bus
  Types,          \* message types
  Tags,           \* payload contents
  Lens,           \* payload lengths offered, in bytes
  MaxProcesses,   \* MAX_PROCESSES
  QueueCapacity,  \* QUEUE_CAPACITY
  ArenaCapacity,  \* ARENA_CAPACITY
  MaxPayload,     \* MAX_PAYLOAD_SIZE
  MaxMonitors,    \* MAX_MONITORS
  MonitorBuffer,  \* MONITOR_BUFFER_SIZE
  Versions,       \* whether a header carries the protocol version
  Filters,        \* monitor filters offered
  MaxSeq,         \* bound: sequence numbers presented
  MaxTaps,        \* bound: tap ids allocated
  MaxAudit,       \* bound: audit entries written
  None

ASSUME PidsAssumption == Pids \subseteq Nat \ {0}
ASSUME SizeAssumption == /\ MaxPayload \in Nat /\ ArenaCapacity \in Nat
                         /\ MaxPayload <= ArenaCapacity
                         /\ QueueCapacity \in Nat \ {0} /\ MonitorBuffer \in Nat \ {0}
                         /\ Lens \subseteq Nat /\ MaxSeq \in Nat /\ MaxProcesses \in Nat
(* The arena before init is not an arena of bytes. *)
ASSUME NoneAssumption == None \notin [0 .. ArenaCapacity - 1 -> {0} \cup (Tags \X Nat)]

VARIABLES
  inboxes,    \* registered pid -> queued envelopes, oldest first
  last_seen,  \* SequenceTracker: sender -> last accepted sequence number
  buffer,     \* the arena's bytes, None before init
  cursor,     \* the arena's write_cursor
  taps,       \* the monitor slots: None or [id, filter, buffer]
  next_tap,   \* MonitorRegistry::next_id
  counts      \* total_sent, total_rejected and the audit log's total_count

vars == <<inboxes, last_seen, buffer, cursor, taps, next_tap, counts>>

Registered == DOMAIN inboxes

(* A payload is a tag and a length; byte i of it is <<tag, i>>. *)
Payload == [tag: Tags, len: Lens \ {0}]
Byte(data, i) == <<data.tag, i>>

Header == [sender: Pids \cup {0}, receiver: Pids, sequence: 0 .. MaxSeq,
           msg_type: Types, payload_len: Lens, version_ok: Versions]

(* The HMAC of an envelope covers the header and the payload: it is what   *)
(* was signed.                                                             *)
Envelope(header, data, slice) ==
  [header |-> header, hmac |-> [header |-> header, data |-> data], payload |-> slice]

Init ==
  /\ inboxes = [p \in {} |-> << >>]
  /\ last_seen = [p \in {} |-> 0]
  /\ buffer = None
  /\ cursor = 0
  /\ taps = [s \in 1 .. MaxMonitors |-> None]
  /\ next_tap = 1
  /\ counts = [sent |-> 0, rejected |-> 0, audited |-> 0]

-----------------------------------------------------------------------------
(* init, register_process, unregister_process *)

InitArena ==
  /\ buffer = None
  /\ buffer' = [i \in 0 .. ArenaCapacity - 1 |-> 0]
  /\ cursor' = 0
  /\ UNCHANGED <<inboxes, last_seen, taps, next_tap, counts>>

RegisterError(pid) ==
  IF pid = 0 THEN "InvalidSender"
  ELSE IF pid \in Registered THEN "ProcessAlreadyRegistered"
  ELSE IF Cardinality(Registered) >= MaxProcesses THEN "ProcessLimitReached"
  ELSE "Ok"

RegisterProcess(pid) ==
  /\ inboxes' = IF RegisterError(pid) = "Ok"
                THEN [p \in Registered \cup {pid} |-> IF p = pid THEN << >> ELSE inboxes[p]]
                ELSE inboxes
  /\ UNCHANGED <<last_seen, buffer, cursor, taps, next_tap, counts>>

(* The sequence tracker of an unregistered process is forgotten. *)
DropSequence(pid) == last_seen' = [p \in DOMAIN last_seen \ {pid} |-> last_seen[p]]

UnregisterProcess(pid) ==
  /\ \/ /\ pid \notin Registered
        /\ UNCHANGED <<inboxes, last_seen>>
     \/ /\ pid \in Registered
        /\ inboxes' = [p \in Registered \ {pid} |-> inboxes[p]]
        /\ DropSequence(pid)
  /\ UNCHANGED <<buffer, cursor, taps, next_tap, counts>>

-----------------------------------------------------------------------------
(* The arena *)

(* An allocation that always starts over. *)
PlaceAtZero(len) == 0

(* The offset at which allocate places len bytes: the cursor, or 0 when    *)
(* they would not fit before the end.                                      *)
Place(len) == IF cursor + len > ArenaCapacity THEN 0 ELSE cursor

Allocate(data) ==
  LET at == Place(data.len)
  IN  /\ buffer' = [i \in DOMAIN buffer |->
                      IF at <= i /\ i < at + data.len THEN Byte(data, i - at) ELSE buffer[i]]
      /\ cursor' = at + data.len

-----------------------------------------------------------------------------
(* Monitor taps *)

Matches(filter, header) ==
  \A f \in {"sender", "receiver", "msg_type"} : filter[f] = None \/ filter[f] = header[f]

(* MonitorTap::push overwrites the oldest event of a full buffer. *)
TapPush(buf, env) == Append(IF Len(buf) >= MonitorBuffer THEN Tail(buf) ELSE buf, env)

Notify(env) ==
  taps' = [s \in DOMAIN taps |->
             IF taps[s] # None /\ Matches(taps[s].filter, env.header)
             THEN [taps[s] EXCEPT !.buffer = TapPush(@, env)]
             ELSE taps[s]]

RegisterMonitor(filter) ==
  LET free == {s \in DOMAIN taps : taps[s] = None}
  IN  /\ next_tap <= MaxTaps
      /\ \/ /\ free = {}
            /\ UNCHANGED <<taps, next_tap>>
         \/ \E s \in free :
              /\ \A r \in free : s <= r
              /\ taps' = [taps EXCEPT ![s] = [id |-> next_tap, filter |-> filter,
                                              buffer |-> << >>]]
              /\ next_tap' = next_tap + 1
      /\ UNCHANGED <<inboxes, last_seen, buffer, cursor, counts>>

SlotsOf(tap_id) == {s \in DOMAIN taps : taps[s] # None /\ taps[s].id = tap_id}

UnregisterMonitor(tap_id) ==
  /\ taps' = [s \in DOMAIN taps |-> IF s \in SlotsOf(tap_id) THEN None ELSE taps[s]]
  /\ UNCHANGED <<inboxes, last_seen, buffer, cursor, next_tap, counts>>

MonitorDrain(tap_id) ==
  /\ \/ /\ \A s \in SlotsOf(tap_id) : taps[s].buffer = << >>
        /\ UNCHANGED taps
     \/ \E s \in SlotsOf(tap_id) :
          /\ taps[s].buffer # << >>
          /\ taps' = [taps EXCEPT ![s].buffer = Tail(@)]
  /\ UNCHANGED <<inboxes, last_seen, buffer, cursor, next_tap, counts>>

-----------------------------------------------------------------------------
(* send, the part under the BUS lock *)

LastSeq(sender) == IF sender \in DOMAIN last_seen THEN last_seen[sender] ELSE 0

(* SequenceTracker::check *)
SequenceErrorLastPasses(header) ==
  IF header.sequence < LastSeq(header.sender) THEN "SequenceReplay" ELSE "Ok"

SequenceError(header) ==
  IF header.sequence = LastSeq(header.sender) + 1 THEN "Ok"
  ELSE IF header.sequence <= LastSeq(header.sender) THEN "SequenceReplay"
  ELSE "SequenceGap"

(* Checks 1 to 7 and the uninitialised arena of step 8, in the order of    *)
(* the code; data is None or a payload.                                    *)
RoutingError(header, data) ==
  IF ~header.version_ok THEN "InvalidVersion"
  ELSE IF header.sender = 0 THEN "InvalidSender"
  ELSE IF header.sender \notin Registered THEN "SenderNotRegistered"
  ELSE IF header.receiver \notin Registered THEN "ReceiverNotRegistered"
  ELSE IF header.sender = header.receiver THEN "SelfSendDenied"
  ELSE IF header.payload_len # (IF data = None THEN 0 ELSE data.len)
       THEN "PayloadLengthMismatch"
  ELSE IF data # None /\ data.len > MaxPayload THEN "PayloadTooLarge"
  ELSE "Ok"

SendError(header, data) ==
  IF RoutingError(header, data) # "Ok" THEN RoutingError(header, data)
  ELSE IF SequenceError(header) # "Ok" THEN SequenceError(header)
  ELSE IF data # None /\ buffer = None THEN "ArenaFull"
  ELSE "Ok"

(* The error codes raised after the sequence number was recorded. *)
AfterSequence == {"ArenaFull", "ReceiverQueueFull", "Ok"}

RecordSequence(header, code) ==
  last_seen' = IF code \in AfterSequence
               THEN [p \in DOMAIN last_seen \cup {header.sender} |->
                       IF p = header.sender THEN header.sequence ELSE last_seen[p]]
               ELSE last_seen

(* Rejections that are audited and not counted. *)
CountSentOnly(field) ==
  counts' = [counts EXCEPT ![field] = IF field = "sent" THEN @ + 1 ELSE @,
                           !.audited = @ + 1]

(* Each call under the lock appends one audit entry and counts once. *)
Count(field) == counts' = [counts EXCEPT ![field] = @ + 1, !.audited = @ + 1]

(* InboxQueue::push: a full queue refuses. *)
HasRoom(pid) == Len(inboxes[pid]) < QueueCapacity

Enqueue(queue, env) == Append(queue, env)

Send(header, data) ==
  LET code  == SendError(header, data)
      slice == IF data = None THEN None ELSE [offset |-> Place(data.len), len |-> data.len]
      env   == Envelope(header, data, slice)
  IN  /\ counts.audited < MaxAudit
      /\ UNCHANGED next_tap
      /\ \/ /\ code # "Ok"
            /\ RecordSequence(header, code)
            /\ Count("rejected")
            /\ UNCHANGED <<inboxes, buffer, cursor, taps>>
         \/ /\ code = "Ok"
            /\ RecordSequence(header, code)
            /\ IF data = None THEN UNCHANGED <<buffer, cursor>> ELSE Allocate(data)
            /\ \/ /\ ~HasRoom(header.receiver)
                  /\ Count("rejected")
                  /\ UNCHANGED <<inboxes, taps>>
               \/ /\ HasRoom(header.receiver)
                  /\ inboxes' = [inboxes EXCEPT ![header.receiver] = Enqueue(@, env)]
                  /\ Notify(env)
                  /\ Count("sent")

(* The queue of pid, empty when there is none. *)
Pending(pid) == IF pid \in Registered THEN inboxes[pid] ELSE << >>

Receive(pid) ==
  /\ \/ /\ Pending(pid) = << >>
        /\ UNCHANGED inboxes
     \/ /\ Pending(pid) # << >>
        /\ inboxes' = [inboxes EXCEPT ![pid] = Tail(@)]
  /\ UNCHANGED <<last_seen, buffer, cursor, taps, next_tap, counts>>

(* clear: every part is emptied, the arena keeps its bytes. *)
Clear ==
  /\ inboxes' = [p \in {} |-> << >>]
  /\ last_seen' = [p \in {} |-> 0]
  /\ cursor' = 0
  /\ taps' = [s \in 1 .. MaxMonitors |-> None]
  /\ next_tap' = 1
  /\ counts' = [sent |-> 0, rejected |-> 0, audited |-> 0]
  /\ UNCHANGED buffer

Next ==
  \/ InitArena
  \/ \E p \in Pids \cup {0} : RegisterProcess(p)
  \/ \E p \in Pids : UnregisterProcess(p)
  \/ \E f \in Filters : RegisterMonitor(f)
  \/ \E t \in 1 .. MaxTaps : UnregisterMonitor(t) \/ MonitorDrain(t)
  \/ \E h \in Header, d \in Payload \cup {None} : Send(h, d)
  \/ \E p \in Pids : Receive(p)
  \/ Clear

Spec == Init /\ [][Next]_vars
-----------------------------------------------------------------------------
(* Properties *)

(* Type invariant.  Queues and taps stay within their capacities, and the  *)
(* cursor within the arena.                                                *)
TypeOK ==
  /\ Registered \subseteq Pids /\ Cardinality(Registered) <= MaxProcesses
  /\ \A p \in Registered : Len(inboxes[p]) <= QueueCapacity
  /\ \A p \in DOMAIN last_seen : last_seen[p] \in 1 .. MaxSeq
  /\ cursor \in 0 .. ArenaCapacity
  /\ \A s \in DOMAIN taps : taps[s] # None =>
       Len(taps[s].buffer) <= MonitorBuffer /\ taps[s].id < next_tap
  /\ \A f \in DOMAIN counts : counts[f] \in Nat

(* The bytes of a slice are the payload that was signed. *)
Intact(env) ==
  env.payload = None \/
    \A i \in 0 .. env.payload.len - 1 :
      buffer[env.payload.offset + i] = Byte(env.hmac.data, i)

-----------------------------------------------------------------------------
(* The bus with history variables, never read by it: every message sent,   *)
(* the registration epochs they belong to, and what became of them.        *)
VARIABLES
  log,    \* the messages sent: whether the sender is still registered since,
          \* and the payload bytes written after them
  gone,   \* messages received, and messages lost with a dropped inbox
  since   \* tap slot -> length of log when the tap was registered

hvars == <<vars, log, gone, since>>

HInit ==
  /\ Init
  /\ log = << >>
  /\ gone = 0
  /\ since = [s \in 1 .. MaxMonitors |-> 0]

(* The payload bytes a call of send writes to the arena. *)
BytesWritten(header, data) ==
  IF data # None /\ SendError(header, data) = "Ok" THEN data.len ELSE 0

Aged(header, data) ==
  [k \in DOMAIN log |-> [log[k] EXCEPT !.after = @ + BytesWritten(header, data)]]

HSend(header, data) ==
  /\ Send(header, data)
  /\ log' = IF counts'.sent = counts.sent THEN Aged(header, data)
            ELSE Append(Aged(header, data),
                        [env |-> Last(inboxes'[header.receiver]), after |-> 0,
                         current |-> TRUE])
  /\ UNCHANGED <<gone, since>>

HUnregister(pid) ==
  /\ UnregisterProcess(pid)
  /\ log' = [k \in DOMAIN log |->
               [log[k] EXCEPT !.current = @ /\ log[k].env.header.sender # pid]]
  /\ gone' = gone + Len(Pending(pid))
  /\ UNCHANGED since

HReceive(pid) ==
  /\ Receive(pid)
  /\ gone' = gone + (IF Pending(pid) = << >> THEN 0 ELSE 1)
  /\ UNCHANGED <<log, since>>

HMonitor ==
  /\ \/ \E f \in Filters : RegisterMonitor(f)
     \/ \E t \in 1 .. MaxTaps : UnregisterMonitor(t) \/ MonitorDrain(t)
  /\ since' = [s \in DOMAIN since |->
                 IF taps[s] = None /\ taps'[s] # None THEN Len(log)
                 ELSE IF taps'[s] = None THEN 0 ELSE since[s]]
  /\ UNCHANGED <<log, gone>>

HClear ==
  /\ Clear
  /\ log' = << >>
  /\ gone' = 0
  /\ since' = [s \in 1 .. MaxMonitors |-> 0]

HNext ==
  \/ \E h \in Header, d \in Payload \cup {None} : HSend(h, d)
  \/ \E p \in Pids : HUnregister(p) \/ HReceive(p)
  \/ HMonitor
  \/ HClear
  \/ /\ InitArena \/ \E p \in Pids \cup {0} : RegisterProcess(p)
     /\ UNCHANGED <<log, gone, since>>

HSpec == HInit /\ [][HNext]_hvars

(* The places of the inboxes that hold a message. *)
Queued == {q \in Registered \X (1 .. QueueCapacity) : q[2] <= Len(inboxes[q[1]])}

(* Conservation: every accepted message is in an inbox, was received, or   *)
(* was dropped with the inbox of an unregistered process; each call under  *)
(* the lock left one audit entry and was counted once.  All within the     *)
(* capacities of the type invariant.                                       *)
Conservation ==
  /\ TypeOK
  /\ counts.sent = Len(log)
  /\ counts.audited = counts.sent + counts.rejected
  /\ Cardinality(Queued) + gone = counts.sent

(* The messages of one registration of a sender carry increasing sequence  *)
(* numbers: none is accepted twice or out of order.                        *)
PerSenderOrder ==
  \A j, k \in DOMAIN log :
    (j < k /\ log[j].env.header.sender = log[k].env.header.sender
           /\ log[j].current /\ log[k].current)
      => log[j].env.header.sequence < log[k].env.header.sequence

(* A queue holds the most recent of the messages at some positions of a    *)
(* log, oldest first.                                                      *)
Recent(messages, queue, positions) ==
  \A i \in 1 .. Len(queue) : \E k \in positions :
    /\ queue[i] = messages[k].env
    /\ Cardinality({j \in positions : j > k}) = Len(queue) - i

(* An inbox holds the most recent of the messages accepted for it, oldest  *)
(* first: receive takes them in the order of acceptance and loses none.    *)
AcceptedFor(p) == {k \in DOMAIN log : log[k].env.header.receiver = p}
InboxesFollowLog == \A p \in Registered : Recent(log, inboxes[p], AcceptedFor(p))

(* A monitor tap holds the most recent of the messages that were delivered *)
(* since it was registered and match its filter: it sees none that was     *)
(* refused and loses only the oldest.                                      *)
SeenBy(s) == {k \in DOMAIN log : k > since[s] /\ Matches(taps[s].filter, log[k].env.header)}
TapsFollowLog == \A s \in DOMAIN taps : taps[s] # None => Recent(log, taps[s].buffer, SeenBy(s))

(* How long a payload survives: its bytes are intact as long as at most    *)
(* ArenaCapacity - MaxPayload + 1 - (its own length) further bytes were    *)
(* allocated, wherever the wrap-around falls.                              *)
PayloadSurvives ==
  \A k \in DOMAIN log :
    log[k].env.payload # None =>
      (log[k].after <= ArenaCapacity - MaxPayload + 1 - log[k].env.payload.len
         => Intact(log[k].env))

(* The sequence tracker follows registration: a number is remembered only  *)
(* for a registered sender, so a process that registers again starts at 1  *)
(* and is not refused as a replay.                                         *)
TrackerFollowsRegistration == DOMAIN last_seen \subseteq Registered

(* No accepted message is lost or duplicated, every call is counted and    *)
(* audited once, an inbox holds what was sent to it, oldest first, and a   *)
(* tap what passed it; a process that registers again is not taken for a   *)
(* replay of the one before.                                               *)
BusFaithful == Conservation /\ InboxesFollowLog /\ TapsFollowLog /\ TrackerFollowsRegistration
=============================================================================
