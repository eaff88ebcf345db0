------------------------------- MODULE Process -------------------------------
(***************************************************************************)
(* The process model: the process table, the priority scheduler, priority  *)
(* inheritance and the supervision tree (kernel/src/process).  Every       *)
(* operation holds the TABLE and SCHEDULER locks from its first access to  *)
(* its last, so each is one atomic action.  spawn and terminate call the   *)
(* bus after they released both locks; the kernel calls them from its one  *)
(* boot context, and what can run in between (the timer, sys_exit,         *)
(* sys_yield) leaves registrations alone, so that call is part of the      *)
(* action.                                                                 *)
(*                                                                         *)
(* Time is kept as ages: the code only ever compares now - last_scheduled  *)
(* with AGING_INTERVAL, now - restart with the intensity window and        *)
(* deadline - now with DEADLINE_URGENCY, so an age is saturated at the     *)
(* largest value that a comparison tells apart and the clock needs no      *)
(* bound.  wake_tick is read only by the call that has just set it.        *)
(***************************************************************************)
EXTENDS Integers, FiniteSets, SequencesExt

CONSTANTS
  NumLevels,       \* NUM_LEVELS
  Intents,         \* the intents offered to spawn: [base, cat, deadline]
  Strategies,      \* the supervision strategies offered to spawn
  Slice(_),        \* slice_for_priority
  Aging,           \* AGING_INTERVAL
  Urgency,         \* DEADLINE_URGENCY
  MaxRestarts,     \* DEFAULT_MAX_RESTARTS
  ButlerRestarts,  \* BUTLER_MAX_RESTARTS
  RestartWindow,   \* the intensity window, in ticks
  MaxDepth,        \* MAX_INHERITANCE_DEPTH
  TableMax,        \* table::MAX_PROCESSES
  BusMax,          \* router::MAX_PROCESSES
  MaxPids,         \* bound: pids allocated
  None

ASSUME LevelsAssumption == NumLevels \in Nat /\ NumLevels >= 2
ASSUME TimesAssumption == Aging \in Nat /\ RestartWindow \in Nat /\ Urgency \in Nat
ASSUME BoundsAssumption == MaxPids \in Nat \ {0} /\ MaxDepth \in Nat
                           /\ MaxRestarts \in Nat /\ ButlerRestarts \in Nat

VARIABLES
  pcbs,        \* the process table: pid -> control block
  next_pid,    \* ProcessTable::next_pid
  queues,      \* run_queues, one sequence of pids per level
  current,     \* Scheduler::current, 0 for None
  uptime,      \* current_tick, saturated at Aging
  registered   \* the pids registered on the bus

vars == <<pcbs, next_pid, queues, current, uptime, registered>>

KERNEL == 0
BUTLER == 1
Top == NumLevels - 1
Levels == 0 .. Top
Pids == 1 .. MaxPids
Level(prio) == IF prio > Top THEN Top ELSE prio

Categories == {"Compute", "Io", "Network", "Storage", "Display", "Ai"}
ASSUME IntentsAssumption == Intents \subseteq [base: Levels, cat: Categories, deadline: Nat \cup {None}]
ASSUME StrategiesAssumption == Strategies \subseteq {"OneForOne", "OneForAll", "RestForOne"}
ASSUME SliceAssumption == \A prio \in Levels : Slice(prio) \in Nat

(* ProcessControlBlock::new *)
NewPcb(intent, sup, strategy, order, max_restarts) ==
  [state |-> "Ready", eff |-> intent.base, base |-> intent.base, cat |-> intent.cat,
   deadline |-> intent.deadline, slice |-> 0, blocked_on |-> None, idle |-> uptime,
   sup |-> sup, children |-> << >>, strategy |-> strategy, order |-> order,
   restarts |-> << >>, max_restarts |-> max_restarts]

-----------------------------------------------------------------------------
(* The operations are sequences of updates; each update is a function of   *)
(* the kernel state k = [pcbs, queues, current].                           *)

Kernel == [pcbs |-> pcbs, queues |-> queues, current |-> current]
Becomes(k) == pcbs' = k.pcbs /\ queues' = k.queues /\ current' = k.current

(* The members of a list that are in T, in their order: Vec::retain.       *)
Keep(s, T) ==
  LET kept[i \in 0 .. Len(s)] ==
        IF i = 0 THEN << >>
        ELSE IF s[i] \in T THEN Append(kept[i - 1], s[i]) ELSE kept[i - 1]
  IN  kept[Len(s)]
Without(s, pid) == Keep(s, Pids \ {pid})

InTable(k, pid) == pid \in DOMAIN k.pcbs
Runnable(state) == state \in {"Ready", "Running"}

Enqueue(k, pid, prio) ==
  IF Contains(k.queues[Level(prio)], pid) THEN k
  ELSE [k EXCEPT !.queues[Level(prio)] = Append(@, pid)]

DequeueKeepsCurrent(k, pid) ==
  [k EXCEPT !.queues = [l \in Levels |-> Without(@[l], pid)]]

Dequeue(k, pid) ==
  [k EXCEPT !.queues = [l \in Levels |-> Without(@[l], pid)],
            !.current = IF @ = pid THEN 0 ELSE @]

(* Requeue a process at the level of its new effective priority. *)
Reprioritise(k, pid, prio) ==
  LET moved == Dequeue([k EXCEPT !.pcbs[pid].eff = prio], pid)
  IN  IF Runnable(k.pcbs[pid].state) THEN Enqueue(moved, pid, prio) ELSE moved

(* The pcb leaves the processor for good. *)
Stop(k, pid) == Dequeue([k EXCEPT !.pcbs[pid].state = "Terminated"], pid)

(* reset_for_restart, then enqueue *)
Restart(k, pid) ==
  IF ~InTable(k, pid) THEN k
  ELSE Enqueue([k EXCEPT !.pcbs[pid] =
                  [@ EXCEPT !.state = "Ready", !.eff = k.pcbs[pid].base, !.slice = 0,
                            !.blocked_on = None, !.idle = uptime]],
               pid, k.pcbs[pid].base)

Init ==
  /\ uptime = 0
  /\ pcbs = [p \in {BUTLER} |->
               NewPcb([base |-> Top, cat |-> "Compute", deadline |-> None], KERNEL,
                      "OneForOne", 0, ButlerRestarts)]
  /\ next_pid = BUTLER + 1
  /\ queues = [l \in Levels |-> IF l = Top THEN <<BUTLER>> ELSE << >>]
  /\ current = 0
  /\ registered = {BUTLER}

-----------------------------------------------------------------------------
(* spawn and terminate *)

(* spawn_order is the length of the supervisor's list of children. *)
Spawn(sup, intent, strategy) ==
  LET pid == next_pid
      pcb == NewPcb(intent, sup, strategy, Len(pcbs[sup].children), MaxRestarts)
      k   == [Kernel EXCEPT
                !.pcbs = [p \in DOMAIN pcbs \cup {pid} |-> IF p = pid THEN pcb ELSE pcbs[p]]]
  IN  /\ sup \in DOMAIN pcbs
      /\ pid <= MaxPids
      /\ next_pid' = pid + 1
      /\ \/ /\ Cardinality(DOMAIN pcbs) >= TableMax
            /\ UNCHANGED <<pcbs, queues, current, registered>>
         \/ /\ Cardinality(DOMAIN pcbs) < TableMax
            /\ Becomes(Enqueue([k EXCEPT !.pcbs[sup].children = Append(@, pid)],
                               pid, intent.base))
            /\ registered' = IF Cardinality(registered) < BusMax
                             THEN registered \cup {pid} ELSE registered
      /\ UNCHANGED uptime

Terminate(pid) ==
  LET k   == Stop(Kernel, pid)
      sup == pcbs[pid].sup
  IN  /\ pid \in DOMAIN pcbs
      /\ Becomes(IF InTable(k, sup)
                 THEN [k EXCEPT !.pcbs[sup].children = Without(@, pid)]
                 ELSE k)
      /\ registered' = registered \ {pid}
      /\ UNCHANGED <<next_pid, uptime>>

-----------------------------------------------------------------------------
(* block, unblock and priority inheritance *)

(* apply_priority_inheritance: boost along the chain of blocked_on links,  *)
(* as long as it raises a priority and at most MaxDepth times.             *)
Boost(acc, prio) ==
  LET target == acc.target
  IN  IF target = None \/ ~InTable(acc.k, target) THEN [acc EXCEPT !.target = None]
      ELSE IF acc.k.pcbs[target].eff >= prio THEN [acc EXCEPT !.target = None]
      ELSE [k |-> Reprioritise(acc.k, target, prio),
            target |-> acc.k.pcbs[target].blocked_on]

Inherit(k, target, prio) ==
  LET chain[depth \in 0 .. MaxDepth] ==
        IF depth = 0 THEN [k |-> k, target |-> target] ELSE Boost(chain[depth - 1], prio)
  IN  chain[MaxDepth].k

Block(pid, waiting_on) ==
  LET k == Dequeue([Kernel EXCEPT !.pcbs[pid].state = "Blocked",
                                  !.pcbs[pid].blocked_on = waiting_on], pid)
  IN  /\ pid \in DOMAIN pcbs
      /\ Runnable(pcbs[pid].state)
      /\ Becomes(Inherit(k, waiting_on, pcbs[pid].eff))
      /\ UNCHANGED <<next_pid, uptime, registered>>

(* apply_intent_boost, called at the tick of waking. *)
IntentBoost(pcb) ==
  LET capped == IF pcb.cat = "Compute" /\ pcb.base = 0 /\ pcb.eff > 1 THEN 1 ELSE pcb.eff
      woken  == IF pcb.cat \in {"Io", "Network", "Storage", "Display"}
                THEN Level(capped + 1) ELSE capped
  IN  IF pcb.deadline # None /\ pcb.deadline <= Urgency THEN Top ELSE woken

(* revert_priority_inheritance *)
Revert(k, target) ==
  IF target = None \/ ~InTable(k, target) THEN k
  ELSE IF k.pcbs[target].eff = k.pcbs[target].base THEN k
  ELSE Reprioritise(k, target, k.pcbs[target].base)

Unblock(pid) ==
  LET eff == IntentBoost(pcbs[pid])
      k   == [Kernel EXCEPT !.pcbs[pid] =
                [@ EXCEPT !.state = "Ready", !.eff = eff, !.blocked_on = None]]
  IN  /\ pid \in DOMAIN pcbs
      /\ pcbs[pid].state = "Blocked"
      /\ Becomes(Revert(Enqueue(k, pid, eff), pcbs[pid].blocked_on))
      /\ UNCHANGED <<next_pid, uptime, registered>>

-----------------------------------------------------------------------------
(* Supervision *)

(* RestartTracker::record_restart.  Ages that reach the window are dropped *)
(* by Tick, as the code drops them before it counts; of the others the     *)
(* youngest max_restarts + 1 decide every later count.                     *)
RecordRestart(k, sup) ==
  [k EXCEPT !.pcbs[sup].restarts =
     LET all == Append(@, 0)
     IN  IF Len(all) > k.pcbs[sup].max_restarts + 1 THEN Tail(all) ELSE all]
Exceeded(k, sup) == Len(k.pcbs[sup].restarts) > k.pcbs[sup].max_restarts

(* The children a supervisor restarts when one of them crashed, in the     *)
(* order of its list.                                                      *)
GroupCrashedOnly(k, sup, crashed) == <<crashed>>
Group(k, sup, crashed) ==
  CASE k.pcbs[sup].strategy = "OneForOne" -> <<crashed>>
    [] k.pcbs[sup].strategy = "OneForAll" -> k.pcbs[sup].children
    [] k.pcbs[sup].strategy = "RestForOne" ->
         Keep(k.pcbs[sup].children,
              {c \in DOMAIN k.pcbs : k.pcbs[c].order >= k.pcbs[crashed].order})

Kill(k, pid) ==
  IF ~InTable(k, pid) \/ k.pcbs[pid].state = "Terminated" THEN k ELSE Stop(k, pid)

KillAll(k, group) ==
  LET st[i \in 0 .. Len(group)] == IF i = 0 THEN k ELSE Kill(st[i - 1], group[i])
  IN  st[Len(group)]
RestartAll(k, group) ==
  LET st[i \in 0 .. Len(group)] == IF i = 0 THEN k ELSE Restart(st[i - 1], group[i])
  IN  st[Len(group)]
RestartGroup(k, group) == RestartAll(KillAll(k, group), group)

(* One level of handle_child_crash; handled stops the escalation, as does  *)
(* a process without a supervisor in the table.                            *)
HandleCrash(acc) ==
  LET sup == acc.k.pcbs[acc.crashed].sup
      k   == RecordRestart(acc.k, sup)
  IN  IF acc.handled \/ ~InTable(acc.k, sup) THEN acc
      ELSE IF Exceeded(k, sup)
           THEN [k |-> Stop(k, sup), crashed |-> sup, handled |-> FALSE]
           ELSE [k |-> RestartGroup(k, Group(k, sup, acc.crashed)), crashed |-> acc.crashed,
                 handled |-> TRUE]

(* A supervisor is older than its children, so that the escalation ends    *)
(* after at most as many levels as there are pids.                         *)
HandleChildCrash(k, crashed) ==
  LET st[i \in 0 .. MaxPids] ==
        IF i = 0 THEN [k |-> k, crashed |-> crashed, handled |-> FALSE] ELSE HandleCrash(st[i - 1])
  IN  st[MaxPids].k

Crash(pid) ==
  /\ pid \in DOMAIN pcbs
  /\ Becomes(HandleChildCrash(Stop(Kernel, pid), pid))
  /\ UNCHANGED <<next_pid, uptime, registered>>

-----------------------------------------------------------------------------
(* The scheduler *)

(* The process that was running goes back to its queue. *)
PutBack(k) ==
  LET pid == k.current
  IN  IF pid = 0 THEN k
      ELSE IF k.pcbs[pid].state # "Running" THEN [k EXCEPT !.current = 0]
      ELSE Enqueue([k EXCEPT !.current = 0, !.pcbs[pid].state = "Ready"],
                   pid, k.pcbs[pid].eff)

KeepsRunning(k) ==
  k.current # 0 /\ k.pcbs[k.current].state = "Running" /\ k.pcbs[k.current].slice > 0

(* schedule_next: the current process while its slice lasts, or else the   *)
(* head of the highest queue that has one.  A queued pid is in the table:  *)
(* nothing is ever removed from it.                                        *)
ScheduleNext(k) ==
  LET back == PutBack(k)
      busy == {l \in Levels : back.queues[l] # << >>}
      top  == CHOOSE l \in busy : \A m \in busy : m <= l
      pid  == Head(back.queues[top])
  IN  IF KeepsRunning(k) THEN k
      ELSE IF busy = {} THEN back
      ELSE [back EXCEPT !.queues[top] = Tail(@), !.current = pid,
                        !.pcbs[pid] = [@ EXCEPT !.state = "Running", !.idle = 0,
                                                !.slice = Slice(back.pcbs[pid].eff)]]

Schedule ==
  /\ Becomes(ScheduleNext(Kernel))
  /\ UNCHANGED <<next_pid, uptime, registered>>

(* run_aging: the candidates are collected first, queue by queue, and then *)
(* moved up one level each.  A queued process is in one queue, that of its *)
(* effective priority (QueuesExact), so a queue loses its starved members  *)
(* and gains, at its end, those of the level below.                        *)
Age(k) ==
  LET starved == {p \in DOMAIN k.pcbs : /\ k.pcbs[p].state = "Ready" /\ k.pcbs[p].idle >= Aging
                                         /\ \E l \in 0 .. Top - 1 : Contains(k.queues[l], p)}
      stay(l) == Keep(k.queues[l], Pids \ starved)
      rise(l) == IF l = 0 THEN << >> ELSE Keep(k.queues[l - 1], starved)
      up(pcb) == [pcb EXCEPT !.eff = @ + 1]
  IN  [k EXCEPT !.queues = [l \in Levels |-> stay(l) \o rise(l)],
                !.pcbs = [p \in DOMAIN k.pcbs |->
                           IF p \in starved THEN up(k.pcbs[p]) ELSE k.pcbs[p]]]

RunAging ==
  /\ Becomes(Age(Kernel))
  /\ UNCHANGED <<next_pid, uptime, registered>>

(* The clock, and the slice of the current process. *)
Older(age, cap) == IF age >= cap THEN cap ELSE age + 1

AgedPcb(pcb) ==
  [pcb EXCEPT
     !.idle = Older(@, Aging),
     !.deadline = IF @ = None \/ @ = 0 THEN @ ELSE @ - 1,
     !.restarts = Keep([i \in DOMAIN @ |-> @[i] + 1], 0 .. RestartWindow - 1)]

Ticked(k) == [k EXCEPT !.pcbs = [p \in DOMAIN @ |-> AgedPcb(@[p])]]

Tick ==
  /\ Becomes(Ticked(Kernel))
  /\ uptime' = Older(uptime, Aging)
  /\ UNCHANGED <<next_pid, registered>>

Consumed(k) ==
  IF k.current = 0 \/ k.pcbs[k.current].slice = 0 THEN k
  ELSE [k EXCEPT !.pcbs[k.current].slice = @ - 1]

ConsumeTick ==
  /\ current # 0
  /\ Becomes(Consumed(Kernel))
  /\ UNCHANGED <<next_pid, uptime, registered>>

SpawnAny == \E sup \in Pids, i \in Intents, s \in Strategies : Spawn(sup, i, s)

(* What changes the tree and the table. *)
TreeNext == SpawnAny \/ \E p \in Pids : Terminate(p) \/ Crash(p)

(* What the scheduler does. *)
LoopNext == Schedule \/ RunAging \/ Tick \/ ConsumeTick

WaitNext ==
  \/ \E p \in Pids, q \in DOMAIN pcbs \cup {None} : Block(p, q)
  \/ \E p \in Pids : Unblock(p)

Next == TreeNext \/ WaitNext \/ LoopNext

Spec == Init /\ [][Next]_vars

(* Waiting processes that do not crash and do not wait for themselves. *)
WaitSpec ==
  Init /\ [][\/ SpawnAny
             \/ \E p \in Pids, q \in DOMAIN pcbs : p # q /\ Block(p, q)
             \/ \E p \in Pids : Unblock(p)]_vars

(* The scheduling loop as timer_handler runs it: the clock ticks, the      *)
(* slice is consumed, the next process is picked.  Nothing in the kernel   *)
(* calls run_aging, so the loop may not count on it; the timer keeps the   *)
(* other three going.                                                      *)
LoopSpec ==
  /\ Init /\ [][SpawnAny \/ Schedule \/ Tick \/ ConsumeTick]_vars
  /\ WF_vars(Schedule) /\ WF_vars(Tick) /\ WF_vars(ConsumeTick)
-----------------------------------------------------------------------------
(* Properties *)

States == {"Ready", "Running", "Blocked", "Terminated"}

(* Type invariant.  Effective priorities stay between the base priority    *)
(* and the top level, ages within the values the code compares.            *)
TypeOK ==
  /\ DOMAIN pcbs \subseteq 1 .. next_pid - 1 /\ Cardinality(DOMAIN pcbs) <= TableMax
  /\ current \in DOMAIN pcbs \cup {0} /\ uptime \in 0 .. Aging
  /\ registered \subseteq DOMAIN pcbs /\ Cardinality(registered) <= BusMax
  /\ \A p \in DOMAIN pcbs :
       LET b == pcbs[p]
       IN  /\ b.state \in States /\ b.base <= b.eff /\ b.eff <= Top
           /\ b.idle \in 0 .. Aging /\ b.sup < p
           /\ \A i \in DOMAIN b.restarts : b.restarts[i] < RestartWindow

(* The places of pid in the run queues. *)
Places(pid) ==
  {at \in Levels \X (1 .. MaxPids) : at[2] <= Len(queues[at[1]]) /\ queues[at[1]][at[2]] = pid}

(* The run queues agree with the table: a process that is Ready, or that   *)
(* is Running and was displaced by a change of its priority, is queued     *)
(* once, at the level of its effective priority; the current process and   *)
(* those that are Blocked or Terminated are not queued at all.             *)
QueuesExact ==
  /\ current # 0 => pcbs[current].state = "Running"
  /\ \A p \in DOMAIN pcbs :
       IF Runnable(pcbs[p].state) /\ p # current
       THEN \E i \in 1 .. MaxPids : Places(p) = {<<Level(pcbs[p].eff), i>>}
       ELSE Places(p) = {}

(* A supervisor's list holds each of its children at most once, and no     *)
(* process of another supervisor; a process missing from the list was      *)
(* taken off it by terminate and is off the bus.                           *)
FamilyExact ==
  \A p \in DOMAIN pcbs :
    /\ IsInjective(pcbs[p].children)
    /\ \A c \in Range(pcbs[p].children) : c \in DOMAIN pcbs /\ pcbs[c].sup = p
    /\ p # BUTLER /\ ~Contains(pcbs[pcbs[p].sup].children, p) => p \notin registered

(* Who is restarted when p crashed, from the supervision rules of the      *)
(* README; children are started in the order of their pids.                *)
RuledGroup(p) ==
  LET sup == pcbs[pcbs[p].sup]
  IN  CASE sup.strategy = "OneForOne" -> {p}
        [] sup.strategy = "OneForAll" -> Range(sup.children)
        [] sup.strategy = "RestForOne" -> {c \in Range(sup.children) : c >= p}

Supervised(p) == p # BUTLER /\ p \in DOMAIN pcbs /\ Contains(pcbs[pcbs[p].sup].children, p)
AtIntensity(s) == Len(pcbs[s].restarts) >= pcbs[s].max_restarts

(* A crash below the restart intensity: the group the strategy names is    *)
(* running again, at its base priority and waiting for nobody, and every   *)
(* other process is as it was.                                             *)
CrashRestartsGroup ==
  \A p \in Pids :
    Supervised(p) /\ ~AtIntensity(pcbs[p].sup) /\ Crash(p) =>
      \A c \in DOMAIN pcbs :
        IF c \in RuledGroup(p)
        THEN /\ pcbs'[c].state = "Ready" /\ pcbs'[c].eff = pcbs[c].base
             /\ pcbs'[c].blocked_on = None
        ELSE c # p => /\ pcbs'[c].state = pcbs[c].state /\ pcbs'[c].eff = pcbs[c].eff
                      /\ pcbs'[c].blocked_on = pcbs[c].blocked_on

(* A crash at the restart intensity escalates: the supervisor is           *)
(* terminated, its parent counts a restart and restarts it unless the      *)
(* parent is at its own limit; the crashed child is left terminated.       *)
IntensityEscalates ==
  \A p \in Pids :
    LET s == pcbs[p].sup
        t == pcbs[s].sup
    IN  p \in DOMAIN pcbs /\ p # BUTLER /\ AtIntensity(s) /\ Crash(p) =>
          /\ s = BUTLER => pcbs'[s].state = "Terminated"
          /\ s # BUTLER => Contains(pcbs'[t].restarts, 0)
          /\ s # BUTLER /\ ~AtIntensity(t) =>
               Len(pcbs'[t].restarts) = Len(pcbs[t].restarts) + 1
          /\ Supervised(s) /\ ~AtIntensity(t) =>
               pcbs'[s].state = "Ready" /\ pcbs'[p].state = "Terminated"

(* README.md: "Scheduler (no starvation, no priority inversion)".  A       *)
(* process that others wait for has at least the priority of each of them. *)
NoPriorityInversion ==
  \A p \in DOMAIN pcbs :
    LET q == pcbs[p].blocked_on
    IN  pcbs[p].state = "Blocked" /\ q # None /\ q \in DOMAIN pcbs
          => pcbs[p].eff <= pcbs[q].eff

(* scheduler.rs: "Aging prevents starvation".  A process that is ready is  *)
(* picked sooner or later, whatever its priority.                          *)
NoStarvation ==
  \A p \in Pids :
    (p \in DOMAIN pcbs /\ pcbs[p].state = "Ready") ~>
      (p \in DOMAIN pcbs /\ pcbs[p].state = "Running")

(* Run queues, process table, bus inboxes and supervision lists agree.     *)
TableExact == QueuesExact /\ FamilyExact

-----------------------------------------------------------------------------
(* Small intents and slices for model checking. *)
Plain(b) == [base |-> b, cat |-> "Compute", deadline |-> None]
MCSlice(prio) == 1
MCIoIntent == {[base |-> 0, cat |-> "Io", deadline |-> None]}
MCIntents == {Plain(0), [base |-> 1, cat |-> "Io", deadline |-> None]}
=============================================================================
