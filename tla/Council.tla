------------------------------ MODULE Council ------------------------------
(***************************************************************************)
(* The three-model council (kernel/src/council): verdicts of tier 2 and    *)
(* tier 3, training with a regression suite, drift detection and rollback, *)
(* and overrides that run out.  Weights are numbers that say how often     *)
(* they were changed; what a model answers, whether the golden suite       *)
(* passes and whether an update drifts too far is any choice.              *)
(***************************************************************************)
EXTENDS Naturals, FiniteSets

CONSTANTS
  Models,      \* sentinel, arbiter, oracle
  Sentinel,    \* the model that tier 2 asks
  Trained,     \* the models that are given examples
  Senders,     \* context keys of overrides
  BufferSize,  \* MAX_TRAINING_BUFFER
  MaxUpdates,  \* MAX_UPDATES_PER_PERIOD
  Period,      \* TRAINING_PERIOD_TICKS
  MaxOverrides, Ttl,
  MaxTick, MaxChanges,  \* bounds: ticks, updates and faults of memory
  None

ASSUME CouncilAssumption ==
  /\ Trained \subseteq Models /\ Sentinel \in Models /\ MaxTick \in Nat
  /\ MaxUpdates \in Nat \ {0} /\ Period \in Nat \ {0}

VARIABLES
  weights, weight_hash,  \* model -> its weights, and those the hash was taken of
  golden,                \* model -> golden_snapshot of its drift detector
  learning,              \* model -> LearningLoop
  overrides,             \* slot -> OverrideEntry
  throttled, current_tick,
  tainted,               \* history: models whose weights memory has changed
  changes, applied       \* history: changes of weights; updates: <<model, tick>> -> how many

councilVars == <<weights, weight_hash, golden, learning, overrides, throttled, current_tick, tainted, changes, applied>>

FreshLoop == [active |-> TRUE, buffer_count |-> 0, updates |-> 0, start |-> 0]

CouncilInit ==
  /\ weights = [m \in Models |-> 0] /\ weight_hash = weights /\ golden = weights
  /\ learning = [m \in Models |-> FreshLoop]
  /\ overrides = [s \in 1 .. MaxOverrides |-> None]
  /\ throttled = FALSE /\ current_tick = 0
  /\ tainted = {} /\ changes = 0 /\ applied = [m \in Models |-> [t \in 0 .. MaxTick |-> 0]]

Minus(a, b) == IF a > b THEN a - b ELSE 0

-----------------------------------------------------------------------------
(* verify_integrity *)
Intact(m) == weight_hash[m] = weights[m]

(* Majority of three, a tie cannot be. *)
Majority(votes) == Cardinality({m \in Models : votes[m]}) * 2 > Cardinality(Models)

(* evaluate_tier3: a model whose hash is wrong is not asked, and denies all. *)
Tier3(votes) ==
  [tier |-> 3, allow |-> (\A m \in Models : Intact(m)) /\ Majority(votes),
   votes |-> [m \in Models |-> Intact(m) /\ votes[m]]]

(* evaluate_tier2: an overloaded council denies, so does a sentinel with a  *)
(* wrong hash; one that is not sure asks the others.  Verdicts change no    *)
(* state but counters.                                                      *)
Tier2(votes, sure) ==
  CASE throttled -> [tier |-> 1, allow |-> FALSE, votes |-> [m \in Models |-> FALSE]]
    [] ~throttled /\ ~Intact(Sentinel) -> [tier |-> 2, allow |-> FALSE, votes |-> [m \in Models |-> FALSE]]
    [] ~throttled /\ Intact(Sentinel) /\ ~sure -> Tier3(votes)
    [] OTHER -> [tier |-> 2, allow |-> votes[Sentinel], votes |-> [m \in Models |-> m # Sentinel \/ votes[m]]]

UpdateLoadMetrics(deep, slow) ==
  /\ throttled' = (deep /\ slow)
  /\ UNCHANGED <<weights, weight_hash, golden, learning, overrides, current_tick, tainted, changes, applied>>

-----------------------------------------------------------------------------
RecordExample(m) ==
  /\ learning[m].active /\ learning[m].buffer_count < BufferSize
  /\ learning' = [learning EXCEPT ![m].buffer_count = @ + 1]
  /\ UNCHANGED <<weights, weight_hash, golden, overrides, throttled, current_tick, tainted, changes, applied>>

NewPeriod(l) == Minus(current_tick, l.start) >= Period
CanUpdateLate(l) == l.active /\ (NewPeriod(l) \/ l.updates <= MaxUpdates)
CanUpdate(l) == l.active /\ (NewPeriod(l) \/ l.updates < MaxUpdates)

MarkUpdate(l) ==
  [active |-> l.active, buffer_count |-> 0,
   updates |-> IF NewPeriod(l) THEN 1 ELSE l.updates + 1,
   start |-> IF NewPeriod(l) THEN current_tick ELSE l.start]

(* train_step: snapshot, gradient, golden suite, drift.  rollback_all puts  *)
(* back every model and takes its hash anew, whatever its weights are.      *)
TrainStep(m, moved, suite, drifts) ==
  LET before == weights
      after == [weights EXCEPT ![m] = IF moved THEN changes + 1 ELSE @]
      rolled == /\ weights' = before /\ weight_hash' = before
                /\ learning' = [learning EXCEPT ![m].active = FALSE]
                /\ UNCHANGED <<golden, applied>>
      kept == /\ weights' = after /\ weight_hash' = [weight_hash EXCEPT ![m] = after[m]]
              /\ golden' = [golden EXCEPT ![m] = after[m]]
              /\ learning' = [learning EXCEPT ![m] = MarkUpdate(@)]
              /\ applied' = [applied EXCEPT ![m][current_tick] = @ + 1]
  IN  /\ CanUpdate(learning[m])
      /\ moved => learning[m].buffer_count > 0 /\ changes < MaxChanges
      /\ drifts => after[m] # golden[m]
      /\ IF suite /\ ~drifts THEN kept ELSE rolled
      /\ changes' = IF moved THEN changes + 1 ELSE changes
      /\ UNCHANGED <<overrides, throttled, current_tick, tainted>>

(* Unfreezing is left to whoever has looked at the model. *)
Unfreeze(m) ==
  /\ ~learning[m].active
  /\ learning' = [learning EXCEPT ![m].active = TRUE]
  /\ UNCHANGED <<weights, weight_hash, golden, overrides, throttled, current_tick, tainted, changes, applied>>

(* Memory changes under a model: what the hashes are there to find. *)
Corrupt(m) ==
  /\ changes < MaxChanges
  /\ changes' = changes + 1
  /\ weights' = [weights EXCEPT ![m] = changes + 1]
  /\ tainted' = tainted \cup {m}
  /\ UNCHANGED <<weight_hash, golden, learning, overrides, throttled, current_tick, applied>>

-----------------------------------------------------------------------------
Running(e) == e # None /\ current_tick < e.expiry

(* OverrideManager::add takes the first slot that is free or has run out. *)
AddOverride(sender, tier) ==
  LET free == {s \in DOMAIN overrides : overrides[s] = None \/ current_tick >= overrides[s].expiry}
  IN  /\ free # {}
      /\ overrides' = [overrides EXCEPT ![CHOOSE s \in free : \A t \in free : s <= t] =
           [sender |-> sender, tier |-> tier, expiry |-> current_tick + Ttl]]
      /\ UNCHANGED <<weights, weight_hash, golden, learning, throttled, current_tick, tainted, changes, applied>>

(* check: the first entry that runs and matches; those that have run out    *)
(* are removed on the way.                                                  *)
MatchingOverrides(sender) == {s \in DOMAIN overrides : Running(overrides[s]) /\ overrides[s].sender = sender}
CheckOverride(sender) ==
  LET found == IF MatchingOverrides(sender) = {} THEN MaxOverrides + 1
               ELSE CHOOSE s \in MatchingOverrides(sender) : \A t \in MatchingOverrides(sender) : s <= t
  IN  /\ overrides' = [s \in DOMAIN overrides |->
                         IF s < found /\ ~Running(overrides[s]) THEN None ELSE overrides[s]]
      /\ UNCHANGED <<weights, weight_hash, golden, learning, throttled, current_tick, tainted, changes, applied>>

ClearTier(tier) ==
  /\ overrides' = [s \in DOMAIN overrides |-> IF overrides[s] # None /\ overrides[s].tier = tier THEN None ELSE overrides[s]]
  /\ UNCHANGED <<weights, weight_hash, golden, learning, throttled, current_tick, tainted, changes, applied>>

SyncTick ==
  /\ current_tick < MaxTick
  /\ current_tick' = current_tick + 1
  /\ UNCHANGED <<weights, weight_hash, golden, learning, overrides, throttled, tainted, changes, applied>>

CouncilNext ==
  \/ \E deep, slow \in BOOLEAN : UpdateLoadMetrics(deep, slow)
  \/ \E m \in Models : Corrupt(m)
  \/ \E m \in Trained : RecordExample(m) \/ Unfreeze(m)
                          \/ \E moved, suite, drifts \in BOOLEAN : TrainStep(m, moved, suite, drifts)
  \/ \E s \in Senders : CheckOverride(s) \/ \E tier \in {2, 3} : AddOverride(s, tier)
  \/ ClearTier(2) \/ ClearTier(3) \/ SyncTick

CouncilSpec == CouncilInit /\ [][CouncilNext]_councilVars
-----------------------------------------------------------------------------
(* The updates of m since tick first; one more than allowed is enough to see. *)
UpdatesFrom(m, first) ==
  Cardinality({u \in (first .. MaxTick) \X (1 .. MaxUpdates + 1) : u[2] <= applied[m][u[1]]})

(* Through failed updates, rollbacks and freezes: a model that memory has   *)
(* left alone has the weights that its drift detector accepted last and the *)
(* hash of them, so that its votes count, and no period sees more updates   *)
(* than allowed; while the hash of any model is wrong, the panel of three   *)
(* allows nothing, and the sentinel alone nothing without its own vote.     *)
CouncilSound ==
  /\ \A m \in Models \ tainted : weights[m] = golden[m] /\ Intact(m)
  /\ \A m \in Models : UpdatesFrom(m, learning[m].start) = learning[m].updates /\ learning[m].updates <= MaxUpdates
  /\ \A votes \in [Models -> BOOLEAN], sure \in BOOLEAN :
       LET verdict == Tier2(votes, sure)
       IN  verdict.allow => /\ ~throttled /\ Intact(Sentinel)
                            /\ verdict.tier = 2 => votes[Sentinel]
                            /\ verdict.tier = 3 => Majority(votes) /\ \A m \in Models : Intact(m)
=============================================================================
