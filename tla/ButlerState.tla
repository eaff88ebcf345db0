---------------------------- MODULE ButlerState ----------------------------
(***************************************************************************)
(* The page on which Butler keeps its supervision state across restarts    *)
(* (kernel/src/butler_state): loaded as a copy, changed, saved whole.      *)
(* Butler may crash between any two calls and is then started again; save  *)
(* and load run under the lock of BUTLER_STATE, so a reader sees a save as *)
(* one step.  A count wraps where u16 would.                               *)
(***************************************************************************)
EXTENDS Integers, FiniteSets, Sequences, Folds, Functions

CONSTANTS
  Children,     \* indices below MAX_CHILDREN
  MaxCount,     \* u16::MAX, where a count saturates
  Modulus,      \* 2^16, of the checksum
  LastTick,     \* bound: ticks at which children crash
  MaxSteps      \* bound: calls and crashes

ASSUME ButlerAssumption == MaxCount \in Nat

VARIABLES
  page,         \* the block on the page, NoBlock before init
  copy,         \* Butler's copy, NoBlock when it has none
  steps,
  saved,        \* history: child -> restarts recorded in what was last saved
  recorded      \* history: child -> restarts that the copy knows of

butlerVars == <<page, copy, steps, saved, recorded>>

(* No page, no copy. *)
NoBlock == [valid |-> FALSE]
StateBlock(checksum, restart_counts, strategies, last_crash_tick) ==
  [valid |-> TRUE, checksum |-> checksum, restart_counts |-> restart_counts,
   strategies |-> strategies, last_crash_tick |-> last_crash_tick]
Zeros == [c \in Children |-> 0]
FreshBlock == StateBlock(0, Zeros, Zeros, Zeros)

(* compute_checksum: the sum of the bytes after the header.                 *)
SumOf(f) == FoldFunction(+, 0, f)
ComputeChecksum(b) == (SumOf(b.restart_counts) + SumOf(b.strategies) + SumOf(b.last_crash_tick)) % Modulus
ChecksumKept(b) == b
UpdateChecksum(b) == StateBlock(ComputeChecksum(b), b.restart_counts, b.strategies, b.last_crash_tick)

ButlerInit ==
  /\ page = NoBlock /\ copy = NoBlock /\ steps = 0
  /\ saved = Zeros /\ recorded = Zeros

Step == steps < MaxSteps /\ steps' = steps + 1

(* init: a page with a fresh block, or none when memory is short. *)
InitPage ==
  /\ Step /\ page = NoBlock
  /\ page' = UpdateChecksum(FreshBlock)
  /\ UNCHANGED <<copy, saved, recorded>>

(* load: a copy of a valid block, or nothing. *)
Loads(b) == b # NoBlock /\ b.valid /\ b.checksum = ComputeChecksum(b)
Load ==
  /\ Step /\ copy = NoBlock
  /\ Loads(page)
  /\ copy' = page /\ recorded' = saved
  /\ UNCHANGED <<page, saved>>

RecordRestart(c, tick) ==
  /\ Step /\ copy # NoBlock
  /\ copy' = StateBlock(copy.checksum, [copy.restart_counts EXCEPT ![c] = IF @ < MaxCount THEN @ + 1 ELSE @],
                   copy.strategies, [copy.last_crash_tick EXCEPT ![c] = tick])
  /\ recorded' = [recorded EXCEPT ![c] = @ + 1]
  /\ UNCHANGED <<page, saved>>

SetStrategy(c, strategy) ==
  /\ Step /\ copy # NoBlock
  /\ copy' = StateBlock(copy.checksum, copy.restart_counts, [copy.strategies EXCEPT ![c] = strategy], copy.last_crash_tick)
  /\ UNCHANGED <<page, saved, recorded>>

Save ==
  /\ Step /\ copy # NoBlock
  /\ copy' = UpdateChecksum(copy) /\ page' = copy'
  /\ saved' = recorded
  /\ UNCHANGED recorded

(* Butler crashes; the next one has no copy. *)
Crash ==
  /\ Step /\ copy # NoBlock
  /\ copy' = NoBlock
  /\ UNCHANGED <<page, saved, recorded>>

ButlerNext ==
  \/ InitPage \/ Load \/ Save \/ Crash
  \/ \E c \in Children : (\E tick \in 1 .. LastTick : RecordRestart(c, tick)) \/ SetStrategy(c, 1)

ButlerSpec == ButlerInit /\ [][ButlerNext]_butlerVars
-----------------------------------------------------------------------------
(* At whatever point Butler crashes, the next one can load the page, and    *)
(* what it loads are the restarts of the last save: none that was saved is  *)
(* forgotten, none that was not appears, and counts stop at their limit.    *)
StateSurvives ==
  page # NoBlock =>
    /\ Loads(page)
    /\ \A c \in Children : page.restart_counts[c] = IF saved[c] < MaxCount THEN saved[c] ELSE MaxCount
=============================================================================
