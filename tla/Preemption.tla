----------------------------- MODULE Preemption -----------------------------
(***************************************************************************)
(* Preemptive execution on the one processor: the timer interrupt with its *)
(* context switch (kernel/src/x86/idt.rs), sys_exit and sys_yield          *)
(* (kernel/src/x86/syscall.rs) and the creation of user processes          *)
(* (process::spawn_user), over the scheduler of module Process.            *)
(*                                                                         *)
(* The timer returns at once when it finds TABLE or SCHEDULER locked, a    *)
(* step that changes nothing here.  Kernel code outside the self tests     *)
(* calls spawn and terminate, never block, unblock, crash or run_aging.    *)
(***************************************************************************)
EXTENDS Process

CONSTANTS
  SkipMax,       \* the length of try_switch_next's loop and of its array
  KernelSpawns   \* bound: processes spawned without a kernel stack

ASSUME SkipAssumption == SkipMax \in Nat \ {0}

VARIABLES
  cpu,       \* the frame that runs: a pid, IDLE or DEAD
  idle_rsp,  \* IDLE_RSP: the frame it points to, NOFRAME for 0
  stack,     \* pid -> "none", "saved" (saved_rsp is its frame) or "live"
  starting,  \* pids between spawn_user's spawn and the update of the pcb
  beat       \* TICK_COUNT, modulo 2

pvars == <<vars, cpu, idle_rsp, stack, starting, beat>>

IDLE == 0       \* the boot context
DEAD == -1      \* syscall_dead_loop
NOFRAME == -2

PInit ==
  /\ Init
  /\ cpu = IDLE
  /\ idle_rsp = NOFRAME
  /\ stack = [p \in Pids |-> "none"]
  /\ starting = {}
  /\ beat = 0

UserIntent == [base |-> 0, cat |-> "Compute", deadline |-> None]

SpawnKernel ==
  /\ Cardinality({p \in DOMAIN pcbs \ starting : stack[p] = "none"}) <= KernelSpawns
  /\ \E i \in Intents : Spawn(BUTLER, i, "OneForOne")
  /\ UNCHANGED <<cpu, idle_rsp, stack, starting, beat>>

(* spawn_user runs spawn, which queues the process, and stores the kernel  *)
(* stack and the first frame in its pcb under a second lock.               *)
SpawnUser ==
  /\ Cardinality(DOMAIN pcbs) < TableMax
  /\ Spawn(BUTLER, UserIntent, "OneForOne")
  /\ starting' = starting \cup {next_pid}
  /\ UNCHANGED <<cpu, idle_rsp, stack, beat>>

AttachStack(pid) ==
  /\ pid \in starting
  /\ starting' = starting \ {pid}
  /\ stack' = [stack EXCEPT ![pid] = "saved"]
  /\ UNCHANGED <<vars, cpu, idle_rsp, beat>>

TerminateAny ==
  /\ \E p \in Pids \ {BUTLER} : Terminate(p)
  /\ UNCHANGED <<cpu, idle_rsp, stack, starting, beat>>

-----------------------------------------------------------------------------
(* System calls of the process that runs *)

SysExit ==
  /\ cpu > 0
  /\ cpu' = DEAD
  /\ Becomes(IF current = 0 THEN Kernel ELSE Stop(Kernel, current))
  /\ UNCHANGED <<next_pid, uptime, registered, idle_rsp, stack, starting, beat>>

SysYield ==
  /\ cpu > 0
  /\ Becomes(IF current = 0 THEN Kernel ELSE [Kernel EXCEPT !.pcbs[current].slice = 0])
  /\ UNCHANGED <<next_pid, uptime, registered, cpu, idle_rsp, stack, starting, beat>>

-----------------------------------------------------------------------------
(* The timer *)

(* A loop that gives up at the first process without a kernel stack. *)
TryNextGivesUp(acc, frames) ==
  LET k == ScheduleNext(acc.k)
  IN  IF acc.stop THEN acc
      ELSE IF k.current # 0 /\ frames[k.current] # "none"
      THEN [acc EXCEPT !.k = k, !.stop = TRUE, !.found = k.current]
      ELSE [acc EXCEPT !.k = k, !.stop = TRUE]

(* switch_to_process succeeds for a process with a kernel stack and a      *)
(* frame on it.                                                            *)
SwitchToProcess(frames, pid) == frames[pid] # "none"

(* One round of try_switch_next's loop: schedule_next, and a process       *)
(* without a kernel stack is put aside.                                    *)
TryNext(acc, frames) ==
  LET k   == ScheduleNext(acc.k)
      pid == k.current
  IN  IF acc.stop THEN acc
      ELSE IF pid = 0 THEN [acc EXCEPT !.k = k, !.stop = TRUE]
      ELSE IF SwitchToProcess(frames, pid) THEN [acc EXCEPT !.k = k, !.stop = TRUE, !.found = pid]
      ELSE [acc EXCEPT !.k = Dequeue([k EXCEPT !.pcbs[pid].state = "Ready"], pid),
                       !.skipped = Append(@, [pid |-> pid, prio |-> k.pcbs[pid].eff])]

(* The loop, at most SkipMax rounds, and the return of the processes that  *)
(* were put aside to their queues.                                         *)
TryLoop(k, frames) ==
  LET try[i \in 0 .. SkipMax] ==
        IF i = 0 THEN [k |-> k, stop |-> FALSE, found |-> 0, skipped |-> << >>]
        ELSE TryNext(try[i - 1], frames)
  IN  try[SkipMax]

EnqueueSkipped(k, skipped) ==
  LET st[i \in 0 .. Len(skipped)] ==
        IF i = 0 THEN k ELSE Enqueue(st[i - 1], skipped[i].pid, skipped[i].prio)
  IN  st[Len(skipped)]

(* try_switch_next over kernel state k, with the frames saved and rsp as   *)
(* IDLE_RSP: the process found runs, or else the idle frame if there is    *)
(* one.                                                                    *)
TrySwitchNext(k, frames, rsp) ==
  LET try == TryLoop(k, frames)
  IN  /\ Becomes(EnqueueSkipped(try.k, try.skipped))
      /\ IF try.found # 0
         THEN /\ cpu' = try.found
              /\ stack' = [frames EXCEPT ![try.found] = "live"]
              /\ idle_rsp' = rsp
         ELSE /\ cpu' = IF rsp # NOFRAME THEN rsp ELSE cpu
              /\ idle_rsp' = NOFRAME
              /\ stack' = frames

(* The frame of the process whose slice ended. *)
SaveNothing(pid) == stack
SaveFrame(pid) == IF stack[pid] = "none" THEN stack ELSE [stack EXCEPT ![pid] = "saved"]

(* With no current process the interrupted frame is kept as the idle one,  *)
(* unless one is kept already.                                             *)
IdleFrame == IF idle_rsp = NOFRAME THEN cpu ELSE idle_rsp

TimerFires == beat' = 1 - beat

TimerTick ==
  LET ticked == Ticked(Kernel)
      spent  == Consumed(ticked)
  IN  /\ TimerFires
      /\ uptime' = Older(uptime, Aging)
      /\ \/ /\ current = 0
            /\ TrySwitchNext(ticked, stack, IdleFrame)
         \/ /\ current # 0
            /\ IF pcbs[current].state = "Terminated"
               THEN TrySwitchNext(ticked, stack, idle_rsp)
               ELSE IF spent.pcbs[current].slice > 0
               THEN Becomes(spent) /\ UNCHANGED <<cpu, idle_rsp, stack>>
               ELSE TrySwitchNext(spent, SaveFrame(current), idle_rsp)
      /\ UNCHANGED <<next_pid, registered, starting>>

PNext ==
  \/ SpawnKernel \/ SpawnUser \/ TerminateAny
  \/ \E p \in Pids : AttachStack(p)
  \/ SysExit \/ SysYield
  \/ TimerTick

(* The timer is periodic hardware: ticks keep coming, and only TimerTick   *)
(* changes beat.                                                           *)
PSpec == PInit /\ [][PNext]_pvars /\ WF_beat(TimerFires)
-----------------------------------------------------------------------------
(* Properties *)

(* The processor runs the scheduler's choice: when there is a current      *)
(* process it is the one that runs, and a process that runs without being  *)
(* current has been terminated.                                            *)
CpuFollowsScheduler ==
  /\ current # 0 => cpu = current
  /\ cpu > 0 /\ cpu # current => pcbs[cpu].state = "Terminated"

(* No process is ever resumed from a frame that is out of date: saved_rsp  *)
(* is the last frame of every process that may run again and is not        *)
(* running, so its registers and its kernel stack are intact; and the idle *)
(* frame is saved "only once", so that nothing overwrites it.              *)
FramesIntact ==
  /\ \A p \in DOMAIN pcbs : stack[p] = "live" => cpu = p \/ pcbs[p].state = "Terminated"
  /\ cpu # IDLE => idle_rsp = IDLE

InState(p, state) == p \in DOMAIN pcbs /\ pcbs[p].state = state

(* try_switch_next: skipping "prevents a high-priority non-runnable        *)
(* process from starving lower-priority runnable processes".  A user       *)
(* process that is ready gets the processor, or is terminated.             *)
UserRuns ==
  \A p \in Pids :
    (InState(p, "Ready") /\ stack[p] # "none") ~> (cpu = p \/ InState(p, "Terminated"))

-----------------------------------------------------------------------------
(* The intents and slices of the instance that TLC checks. *)

SmallSlice(prio) == prio + 1
SmallIntents == {[base |-> b, cat |-> "Compute", deadline |-> None] : b \in {0, 1}}
=============================================================================
