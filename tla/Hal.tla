-------------------------------- MODULE Hal --------------------------------
(***************************************************************************)
(* Drivers behind the message bus (kernel/src/hal, its reference drivers   *)
(* and the send pipeline of kernel/src/bus/mod.rs).  A driver never        *)
(* touches a lock: the kernel takes a request out of the inbox of the      *)
(* driver, lets the driver answer it under the lock of the registry and    *)
(* sends the answer on.  bus::send consults governance, the capability     *)
(* store (twice) and the router under four separate locks, so that steps   *)
(* of other processes come in between.                                     *)
(*                                                                         *)
(* Policy, tokens and router are cut down to what they refuse a message    *)
(* for; they are modelled in full in Governance, CapabilityStore and Bus.  *)
(***************************************************************************)
EXTENDS Naturals, Sequences, FiniteSets, SequencesExt

CONSTANTS
  Clients,      \* processes that send requests
  Driver,       \* the process of the driver
  Dispatchers,  \* callers of dispatch_pending and dispatch_one
  Kernel,       \* ProcessId::KERNEL
  Inputs,       \* requests that are sent: [class, op, fits, tokened]
  InboxSize,    \* QUEUE_CAPACITY
  MaxRequests,  \* bound: requests and interrupts sent
  MaxFaults,    \* bound: restarts, revocations, mode changes, exits
  None

VARIABLES
  class,       \* which reference driver it is
  entry,       \* DriverEntry of the registry
  mode,        \* what governance allows at the moment
  token,       \* process -> its capability
  last_seen,   \* sender -> last sequence number accepted by the router
  inbox,       \* registered process -> messages
  call,        \* caller -> bus::send under way
  job,         \* dispatcher -> message it has received
  requests, faults,
  handled,     \* history: requests in the order in which the driver saw them
  answers,     \* history: answers in the order in which they were delivered
  refused      \* history: the answers that bus::send refused, and why

hal == <<class, entry, mode, token, last_seen, inbox, call, job, requests, faults, handled, answers, refused>>

Processes == Clients \cup {Driver}
Callers == Clients \cup Dispatchers \cup {Kernel}

-----------------------------------------------------------------------------
(* Driver::init of the reference drivers clears what they hold. *)
DriverInitKeeps(data) == data
DriverInit(data) == 0

(* Driver::handle_message.  What a driver holds is a number: the bytes      *)
(* written, the ticks, or for a disk or frame buffer who wrote last.        *)
Error(data) == [ok |-> FALSE, data |-> data, out |-> 0]
SerialMessage(data, req) ==
  CASE req.op = "write" -> [ok |-> TRUE, data |-> data + 1, out |-> 1]
    [] req.op = "status" -> [ok |-> TRUE, data |-> data, out |-> data]
    [] OTHER -> Error(data)
TimerMessage(data, req) ==
  CASE req.op = "interrupt" -> [ok |-> TRUE, data |-> data + 1, out |-> data + 1]
    [] req.op \in {"status", "read"} -> [ok |-> TRUE, data |-> data, out |-> data]
    [] OTHER -> Error(data)
BlockMessage(data, req) ==
  CASE req.op = "write" /\ req.fits -> [ok |-> TRUE, data |-> req.id, out |-> 1]
    [] req.op = "read" /\ req.fits -> [ok |-> TRUE, data |-> data, out |-> data]
    [] req.op = "status" -> [ok |-> TRUE, data |-> data, out |-> 0]
    [] OTHER -> Error(data)
HandleMessage(data, req) ==
  CASE class = "serial" -> SerialMessage(data, req)
    [] class = "timer" -> TimerMessage(data, req)
    [] class \in {"ramdisk", "framebuffer"} -> BlockMessage(data, req)

-----------------------------------------------------------------------------
(* evaluate_policy: the kernel may not send, in lockdown nobody may (the    *)
(* clients are not Butler), under break-glass everybody may.                *)
PolicyAllows(sender) == mode = "break_glass" \/ (mode = "normal" /\ sender # Kernel)

(* CapabilityStore::validate with its nonce. *)
Valid(c) == token[c.cap].live /\ c.nonce > token[c.cap].nonce

(* BusRouter::send up to the sequence number: the refusals that leave the   *)
(* sequence of the sender as it is.                                         *)
RouterRefuses(c) ==
  \/ c.from = Kernel
  \/ c.from \notin DOMAIN inbox
  \/ c.to \notin DOMAIN inbox
InSequence(c) == c.seq = last_seen[c.from] + 1

Ended(k) == call' = [call EXCEPT ![k] = None]

(* Where the driver saw a request, and whether an answer before it has not  *)
(* been delivered (yet).                                                    *)
Position(id) == CHOOSE i \in DOMAIN handled : handled[i].req.id = id
Undelivered(id) ==
  \E i \in 1 .. Position(id) - 1 : \A n \in DOMAIN answers : answers[n].id # handled[i].req.id
Refuse(k, c, why) ==
  /\ Ended(k)
  /\ refused' = IF c.from # Driver THEN refused
                ELSE refused \cup {[id |-> c.msg.id, why |-> why, after |-> Undelivered(c.msg.id),
                                    passed |-> Position(c.msg.id) < Len(handled)]}

Init ==
  /\ class \in {i.class : i \in Inputs}
  /\ entry = [initialized |-> TRUE, response_seq |-> 0, data |-> 0]
  /\ mode = "normal"
  /\ token = [p \in Processes |-> [live |-> TRUE, nonce |-> 0]]
  /\ last_seen = [p \in Processes |-> 0]
  /\ inbox = [p \in Processes |-> << >>]
  /\ call = [k \in Callers |-> None] /\ job = [d \in Dispatchers |-> None]
  /\ requests = 0 /\ faults = 0
  /\ handled = << >> /\ answers = << >> /\ refused = {}

(* A client sends a request, with its own token or without one; it counts   *)
(* its messages as the router does.                                         *)
Request(c, op, fits, cap) ==
  /\ call[c] = None /\ c \in DOMAIN inbox /\ requests < MaxRequests
  /\ requests' = requests + 1
  /\ call' = [call EXCEPT ![c] =
       [step |-> "policy", from |-> c, to |-> Driver, cap |-> cap,
        seq |-> last_seen[c] + 1, nonce |-> token[c].nonce + 1,
        msg |-> [id |-> requests + 1, op |-> op, fits |-> fits, from |-> c, out |-> 0]]]
  /\ UNCHANGED <<class, entry, mode, token, last_seen, inbox, job, faults, handled, answers, refused>>

(* dispatch_synthetic: the kernel sends with the token of the driver.       *)
DispatchSynthetic ==
  /\ call[Kernel] = None /\ entry # None /\ requests < MaxRequests
  /\ requests' = requests + 1
  /\ call' = [call EXCEPT ![Kernel] =
       [step |-> "policy", from |-> Kernel, to |-> Driver, cap |-> Driver, seq |-> 1, nonce |-> 1,
        msg |-> [id |-> requests + 1, op |-> "interrupt", fits |-> TRUE, from |-> Kernel, out |-> 0]]]
  /\ UNCHANGED <<class, entry, mode, token, last_seen, inbox, job, faults, handled, answers, refused>>

(* bus::send, one step per lock. *)
Policy(k) ==
  /\ call[k] # None /\ call[k].step = "policy"
  /\ LET c == call[k] IN
     IF PolicyAllows(c.from)
     THEN /\ call' = [call EXCEPT ![k].step = IF c.cap = None THEN "route" ELSE "validate"]
          /\ UNCHANGED refused
     ELSE Refuse(k, c, "policy")
  /\ UNCHANGED <<class, entry, mode, token, last_seen, inbox, job, requests, faults, handled, answers>>

Validate(k) ==
  /\ call[k] # None /\ call[k].step = "validate"
  /\ LET c == call[k] IN
     IF Valid(c)
     THEN /\ token' = [token EXCEPT ![c.cap].nonce = c.nonce]
          /\ call' = [call EXCEPT ![k].step = "owner"]
          /\ UNCHANGED refused
     ELSE Refuse(k, c, "token") /\ UNCHANGED token
  /\ UNCHANGED <<class, entry, mode, last_seen, inbox, job, requests, faults, handled, answers>>

Owner(k) ==
  /\ call[k] # None /\ call[k].step = "owner"
  /\ LET c == call[k] IN
     IF token[c.cap].live /\ c.cap = c.from
     THEN call' = [call EXCEPT ![k].step = "route"] /\ UNCHANGED refused
     ELSE Refuse(k, c, "owner")
  /\ UNCHANGED <<class, entry, mode, token, last_seen, inbox, job, requests, faults, handled, answers>>

(* The router: a full inbox refuses the message after its sequence number   *)
(* has been taken.                                                          *)
Route(k) ==
  /\ call[k] # None /\ call[k].step = "route"
  /\ LET c == call[k] IN
     \/ /\ RouterRefuses(c) /\ Refuse(k, c, "router")
        /\ UNCHANGED <<last_seen, inbox, answers>>
     \/ /\ ~RouterRefuses(c) /\ ~InSequence(c) /\ Refuse(k, c, "sequence")
        /\ UNCHANGED <<last_seen, inbox, answers>>
     \/ /\ ~RouterRefuses(c) /\ InSequence(c)
        /\ last_seen' = [last_seen EXCEPT ![c.from] = c.seq]
        /\ IF Len(inbox[c.to]) >= InboxSize
           THEN Refuse(k, c, "full") /\ UNCHANGED <<inbox, answers>>
           ELSE /\ inbox' = [inbox EXCEPT ![c.to] = Append(@, c.msg)]
                /\ answers' = IF c.from = Driver THEN Append(answers, c.msg @@ [to |-> c.to]) ELSE answers
                /\ Ended(k) /\ UNCHANGED refused
  /\ UNCHANGED <<class, entry, mode, token, job, requests, faults, handled>>

-----------------------------------------------------------------------------
(* dispatch_pending and dispatch_one, one message: receive under the lock   *)
(* of the bus ...                                                           *)
Receive(d) ==
  /\ job[d] = None /\ call[d] = None
  /\ inbox[Driver] # << >>
  /\ job' = [job EXCEPT ![d] = Head(inbox[Driver])]
  /\ inbox' = [inbox EXCEPT ![Driver] = Tail(@)]
  /\ UNCHANGED <<class, entry, mode, token, last_seen, call, requests, faults, handled, answers, refused>>

Receiver(msg) == msg.from
(* ... handle it under that of the registry, after an init if the driver    *)
(* was restarted, and start to send the answer with the next response_seq   *)
(* as its sequence and its nonce.                                           *)
Dispatch(d) ==
  /\ job[d] # None
  /\ job' = [job EXCEPT ![d] = None]
  /\ IF entry = None THEN UNCHANGED <<entry, call, handled>>
     ELSE LET req == job[d]
              data == IF entry.initialized THEN entry.data ELSE DriverInit(entry.data)
              resp == HandleMessage(data, req)
              seq == entry.response_seq + 1
          IN  /\ entry' = [initialized |-> TRUE, response_seq |-> seq, data |-> resp.data]
              /\ handled' = Append(handled, [req |-> req, fresh |-> ~entry.initialized])
              /\ call' = [call EXCEPT ![d] =
                   [step |-> "policy", from |-> Driver, to |-> Receiver(req), cap |-> Driver,
                    seq |-> seq, nonce |-> seq,
                    msg |-> [id |-> req.id, op |-> req.op, fits |-> resp.ok, from |-> Driver, out |-> resp.out]]]
  /\ UNCHANGED <<class, mode, token, last_seen, inbox, requests, faults, answers, refused>>

(* bus::receive by a client. *)
Take(c) ==
  /\ c \in DOMAIN inbox /\ inbox[c] # << >>
  /\ inbox' = [inbox EXCEPT ![c] = Tail(@)]
  /\ UNCHANGED <<class, entry, mode, token, last_seen, call, job, requests, faults, handled, answers, refused>>

-----------------------------------------------------------------------------
Fault ==
  /\ faults < MaxFaults /\ faults' = faults + 1
  /\ UNCHANGED <<class, job, call, requests, handled, answers, refused>>

(* The supervisor restarted the driver. *)
MarkNeedsReinit ==
  /\ Fault /\ entry # None
  /\ entry' = [entry EXCEPT !.initialized = FALSE]
  /\ UNCHANGED <<mode, token, last_seen, inbox>>

Unregister ==
  /\ Fault /\ entry # None
  /\ entry' = None
  /\ UNCHANGED <<mode, token, last_seen, inbox>>

Revoke(p) ==
  /\ Fault /\ token[p].live
  /\ token' = [token EXCEPT ![p].live = FALSE]
  /\ UNCHANGED <<entry, mode, last_seen, inbox>>

SetMode(m) ==
  /\ Fault /\ mode # m
  /\ mode' = m
  /\ UNCHANGED <<entry, token, last_seen, inbox>>

(* terminate: the client loses its inbox. *)
Exit(c) ==
  /\ Fault /\ c \in DOMAIN inbox
  /\ inbox' = [p \in DOMAIN inbox \ {c} |-> inbox[p]]
  /\ last_seen' = [last_seen EXCEPT ![c] = 0]
  /\ UNCHANGED <<entry, mode, token>>

Next ==
  \/ \E c \in Clients, i \in {x \in Inputs : x.class = class} :
       Request(c, i.op, i.fits, IF i.tokened THEN c ELSE None)
  \/ DispatchSynthetic
  \/ \E k \in Callers : Policy(k) \/ Validate(k) \/ Owner(k) \/ Route(k)
  \/ \E d \in Dispatchers : Receive(d) \/ Dispatch(d)
  \/ \E c \in Clients : Take(c) \/ Exit(c)
  \/ MarkNeedsReinit \/ Unregister
  \/ \E p \in Processes : Revoke(p)
  \/ \E m \in {"normal", "lockdown", "break_glass"} : SetMode(m)

Spec == Init /\ [][Next]_hal
-----------------------------------------------------------------------------
(* What the driver holds when it sees the request at position i: the        *)
(* effect of the requests before it since the last restart.                 *)
Since(i) == {j \in 1 .. i : handled[j].fresh}
DataAt(i) ==
  LET start == IF Since(i) = {} THEN 1 ELSE CHOOSE j \in Since(i) : \A k \in Since(i) : k <= j
      before == SubSeq(handled, start, i - 1)
      effect(h, data) == HandleMessage(data, h.req).data
  IN  FoldLeft(LAMBDA data, h : effect(h, data), 0, before)

(* However dispatchers, restarts, revocations and exits interleave, an      *)
(* answer goes to the process that asked, carries what the driver holds at  *)
(* that point and nothing from before a restart, and the answers of a       *)
(* driver arrive in the order in which it gave them.                        *)
AnswersInOrder ==
  \E at \in [DOMAIN answers -> DOMAIN handled] :
    /\ \A a, b \in DOMAIN answers : a < b => at[a] < at[b]
    /\ \A a \in DOMAIN answers :
         LET req == handled[at[a]].req
             resp == HandleMessage(DataAt(at[a]), req)
         IN  /\ answers[a].id = req.id /\ answers[a].to = req.from
             /\ answers[a].fits = resp.ok /\ answers[a].out = resp.out

(* No answer is lost without a trace: what the driver handled is being      *)
(* answered, or it was answered once, or its one answer was refused.  A     *)
(* refusal has a cause: a full inbox, a fault (revocation, mode change,     *)
(* exit), or two dispatchers, when a later answer took the token first or   *)
(* an earlier one did not get to the router.                                *)
UnderWay(id) == {k \in Dispatchers : call[k] # None /\ call[k].msg.id = id}
AnswersAccounted ==
  /\ \A i \in DOMAIN handled :
       LET id == handled[i].req.id
       IN  Cardinality(UnderWay(id)) + Cardinality({n \in DOMAIN answers : answers[n].id = id})
             + Cardinality({r \in refused : r.id = id}) = 1
  /\ \A r \in refused : faults = 0 => \/ r.why = "full"
                                      \/ r.why = "token" /\ r.passed
                                      \/ r.why = "sequence" /\ r.after
=============================================================================
