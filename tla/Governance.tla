----------------------------- MODULE Governance -----------------------------
(***************************************************************************)
(* The governance engine (kernel/src/governance): the safety state         *)
(* machine, the authority continuity system with its dead-man switch, the  *)
(* break-glass bypass, amendments and the policy check of every message.   *)
(* All of it is behind the GOVERNANCE lock.                                *)
(*                                                                         *)
(* Ticks are kept as ages, saturated where no comparison of the code tells *)
(* them apart any more, so the clock needs no bound.  The counters that    *)
(* only statistics read are left out.  No rule of the constitution asks    *)
(* the council, so EscalateToTier2 does not occur.                         *)
(***************************************************************************)
EXTENDS Integers, FiniteSets, SequencesExt

CONSTANTS
  ElevatedClear,      \* ELEVATED_CLEAR_TICKS
  SafeBurndown,       \* SAFE_BURNDOWN_TICKS
  AnomalyWindow,      \* ANOMALY_WINDOW_TICKS
  AnomalyBurst,       \* ANOMALY_BURST_THRESHOLD
  AlarmBurst,         \* ALARM_BURST_THRESHOLD
  Weights,            \* the weights of the safety signals
  SignalWindow,       \* HYSTERESIS_WINDOW_TICKS
  ElevatedThreshold,  \* HYSTERESIS_ELEVATED_THRESHOLD
  ChaosThreshold,     \* HYSTERESIS_CHAOS_THRESHOLD
  InstantThreshold,   \* HYSTERESIS_INSTANT_THRESHOLD
  Cooldown,           \* TRANSITION_COOLDOWN_TICKS
  MaxSignals,         \* MAX_SIGNALS
  DegradedTicks,      \* DEGRADED_THRESHOLD_TICKS
  ContingencyTicks,   \* CONTINGENCY_THRESHOLD_TICKS
  EmergencyTicks,     \* EMERGENCY_THRESHOLD_TICKS
  GlassTicks,         \* BREAK_GLASS_EXPIRY_TICKS
  CoolingTicks        \* AMENDMENT_COOLING_TICKS

ASSUME ThresholdAssumption ==
  /\ DegradedTicks \in Nat /\ ContingencyTicks \in Nat /\ EmergencyTicks \in Nat
  /\ 0 < DegradedTicks /\ DegradedTicks < ContingencyTicks /\ ContingencyTicks < EmergencyTicks
  /\ GlassTicks \in Nat \ {0} /\ AnomalyBurst \in Nat \ {0} /\ AlarmBurst \in Nat \ {0}

ASSUME TimesAssumption ==
  /\ ElevatedClear \in Nat /\ SafeBurndown \in Nat /\ AnomalyWindow \in Nat /\ SignalWindow \in Nat
  /\ Cooldown \in Nat /\ CoolingTicks \in Nat /\ MaxSignals \in Nat /\ Weights \subseteq Nat
  /\ InstantThreshold \in Nat

VARIABLES
  safety,     \* SafetyStateMachine
  acs,        \* AcsStateMachine
  glass,      \* BreakGlass: the ticks until it expires, 0 while it is not active
  amendment,  \* AmendmentTracker: the age of the cooling proposal, or NONE
  recent      \* history: the latest MaxSignals light signals of the last two
              \* windows, since the buffer was last emptied

NONE == -1

gvars == <<safety, acs, glass, amendment, recent>>

Older(age, cap) == IF age >= cap THEN cap ELSE age + 1
AgeCap == IF ElevatedClear > SafeBurndown THEN ElevatedClear ELSE SafeBurndown

InitialSafety ==
  [state |-> "Normal", age |-> 0, anomalies |-> 0, window |-> 0,
   alarms |-> 0, signals |-> << >>, cooldown |-> 0]
InitialAcs == [state |-> "Active", silence |-> 0, alternate |-> FALSE]

GovernanceInit ==
  /\ safety = InitialSafety
  /\ acs = InitialAcs
  /\ glass = 0
  /\ amendment = NONE
  /\ recent = << >>

-----------------------------------------------------------------------------
(* The safety state machine *)

TransitionTo(s, new) ==
  IF s.state = new THEN s ELSE [s EXCEPT !.state = new, !.age = 0]

(* Reports beyond the threshold are not told apart. *)
Counted(n, threshold) == IF n + 1 > threshold THEN threshold ELSE n + 1

ReportAnomaly ==
  LET fresh == IF safety.window >= AnomalyWindow
               THEN [safety EXCEPT !.anomalies = 0, !.window = 0] ELSE safety
      more  == [fresh EXCEPT !.anomalies = Counted(@, AnomalyBurst)]
  IN  /\ safety' = IF more.state = "Normal" /\ more.anomalies >= AnomalyBurst
                   THEN [TransitionTo(more, "Elevated") EXCEPT !.anomalies = 0]
                   ELSE more
      /\ UNCHANGED <<acs, glass, amendment, recent>>

ReportAlarm ==
  LET more == [safety EXCEPT !.alarms = Counted(@, AlarmBurst)]
  IN  /\ safety' = IF more.state = "Elevated" /\ more.alarms >= AlarmBurst
                   THEN [TransitionTo(more, "Chaos") EXCEPT !.alarms = 0]
                   ELSE more
      /\ UNCHANGED <<acs, glass, amendment, recent>>

ForceLockdown ==
  /\ safety' = TransitionTo(safety, "Lockdown")
  /\ UNCHANGED <<acs, glass, amendment, recent>>

HumanConfirm ==
  /\ safety.state = "Lockdown"
  /\ safety' = TransitionTo(safety, "Safe")
  /\ UNCHANGED <<acs, glass, amendment, recent>>

(* The sums of the first n signals. *)
Sums(signals) ==
  LET sum[n \in 0 .. Len(signals)] == IF n = 0 THEN 0 ELSE sum[n - 1] + signals[n].weight
  IN  sum
Sum(signals) == Sums(signals)[Len(signals)]

(* One step up the ladder, where a signal may take it. *)
Escalated(s) ==
  IF s.cooldown < Cooldown THEN s
  ELSE IF s.state = "Normal" THEN [TransitionTo(s, "Elevated") EXCEPT !.cooldown = 0]
  ELSE IF s.state = "Elevated" THEN [TransitionTo(s, "Chaos") EXCEPT !.cooldown = 0]
  ELSE s

(* The sum a state must reach to be left; no sum leaves the others. *)
Reached(s, sum) ==
  \/ s.state = "Normal" /\ sum >= ElevatedThreshold
  \/ s.state = "Elevated" /\ sum >= ChaosThreshold

(* A buffer that never uses its last place. *)
StoreOffByOne(signals, weight) ==
  IF Len(signals) + 1 < MaxSignals THEN Append(signals, [age |-> 0, weight |-> weight]) ELSE signals
(* A full buffer drops the new signal. *)
Store(signals, weight) ==
  IF Len(signals) < MaxSignals THEN Append(signals, [age |-> 0, weight |-> weight]) ELSE signals

Remembered(weight) ==
  LET all == Append(recent, [age |-> 0, weight |-> weight])
  IN  IF Len(all) > MaxSignals THEN Tail(all) ELSE all

(* report_signal: a heavy signal escalates at once; a light one is put in  *)
(* the buffer, whose sum may.  Expired signals are evicted when the next   *)
(* one arrives; here they leave at the tick at which they expire.          *)
ReportSignal(weight) ==
  LET stored == [safety EXCEPT !.signals = Store(@, weight)]
      due    == Reached(stored, Sum(stored.signals)) /\ stored.cooldown >= Cooldown
  IN  /\ \/ /\ weight >= InstantThreshold
            /\ safety' = Escalated(safety)
            /\ UNCHANGED recent
         \/ /\ weight < InstantThreshold
            /\ safety' = IF due THEN [Escalated(stored) EXCEPT !.signals = << >>] ELSE stored
            /\ recent' = IF due THEN << >> ELSE Remembered(weight)
      /\ UNCHANGED <<acs, glass, amendment>>

-----------------------------------------------------------------------------
(* The dead-man switch, break-glass and amendments *)

Heartbeat ==
  /\ acs' = [acs EXCEPT !.state = "Active", !.silence = 0]
  /\ UNCHANGED <<safety, glass, amendment, recent>>

SetAlternateExists(exists) ==
  /\ acs' = [acs EXCEPT !.alternate = exists]
  /\ UNCHANGED <<safety, glass, amendment, recent>>

Activate ==
  /\ glass' = GlassTicks
  /\ UNCHANGED <<safety, acs, amendment, recent>>

Propose ==
  /\ safety.state = "Normal"
  /\ amendment = NONE \/ amendment >= CoolingTicks
  /\ amendment' = 0
  /\ UNCHANGED <<safety, acs, glass, recent>>

Apply ==
  /\ amendment # NONE /\ amendment >= CoolingTicks
  /\ amendment' = NONE
  /\ UNCHANGED <<safety, acs, glass, recent>>

-----------------------------------------------------------------------------
(* tick *)

(* The signals one tick later, without those that left the window: what is *)
(* kept of the first n.                                                    *)
Kept(signals, window) ==
  LET kept[n \in 0 .. Len(signals)] ==
        IF n = 0 THEN << >>
        ELSE IF signals[n].age < window
        THEN Append(kept[n - 1], [signals[n] EXCEPT !.age = @ + 1])
        ELSE kept[n - 1]
  IN  kept
SignalsAged(signals, window) == Kept(signals, window)[Len(signals)]

(* Only Elevated and Safe read the time at which they were entered. *)
SafetyAged(s) ==
  [s EXCEPT !.age = IF s.state \in {"Elevated", "Safe"} THEN Older(@, AgeCap) ELSE 0, !.window = Older(@, AnomalyWindow),
            !.cooldown = Older(@, Cooldown), !.signals = SignalsAged(@, SignalWindow)]

(* The de-escalation of SafetyStateMachine::tick. *)
Settled(s) ==
  IF \/ s.state = "Elevated" /\ s.age >= ElevatedClear
     \/ s.state = "Safe" /\ s.age >= SafeBurndown
  THEN TransitionTo(s, "Normal") ELSE s

(* A switch that stays in contingency once an alternate took over. *)
AcsTickedTrustsAlternate(a) ==
  LET elapsed == Older(a.silence, EmergencyTicks + 1)
  IN  [a EXCEPT !.silence = elapsed,
         !.state = CASE a.state = "Active" /\ elapsed >= DegradedTicks -> "Degraded"
                     [] a.state = "Degraded" /\ elapsed >= ContingencyTicks /\ a.alternate
                          -> "Contingency"
                     [] a.state = "Degraded" /\ elapsed >= EmergencyTicks /\ ~a.alternate
                          -> "Emergency"
                     [] OTHER -> a.state]

AcsTicked(a) ==
  LET elapsed == Older(a.silence, EmergencyTicks + 1)
      next    == CASE a.state = "Active" /\ elapsed >= DegradedTicks -> "Degraded"
                   [] a.state = "Degraded" /\ elapsed >= ContingencyTicks /\ a.alternate
                        -> "Contingency"
                   [] a.state = "Degraded" /\ elapsed >= EmergencyTicks /\ ~a.alternate
                        -> "Emergency"
                   [] a.state = "Contingency" /\ elapsed >= EmergencyTicks -> "Emergency"
                   [] OTHER -> a.state
  IN  [a EXCEPT !.silence = elapsed, !.state = next]

(* check_recovery *)
Recovers(g, state) == IF state \in {"Normal", "Elevated"} THEN 0 ELSE g

(* check_and_activate and check_expiry: a bypass that expires is not       *)
(* renewed before the next tick.                                           *)
GlassTicked(g, state, authority) ==
  IF g > 0 THEN g - 1
  ELSE IF state = "Lockdown" /\ authority = "Emergency" THEN GlassTicks ELSE 0

(* An emergency that nobody acts on. *)
LocksNothing(s, before, after) == s

(* Emergency locks the system down. *)
Locks(s, before, after) ==
  IF after = "Emergency" /\ before # "Emergency" THEN TransitionTo(s, "Lockdown") ELSE s

Tick ==
  /\ acs' = AcsTicked(acs)
  /\ safety' = Locks(Settled(SafetyAged(safety)), acs.state, acs'.state)
  /\ glass' = Recovers(GlassTicked(glass, safety'.state, acs'.state), safety'.state)
  /\ amendment' = IF amendment = NONE THEN NONE ELSE Older(amendment, CoolingTicks)
  /\ recent' = SignalsAged(recent, 2 * SignalWindow)

-----------------------------------------------------------------------------
(* The policy check *)

BUTLER == 1
Severity == [Normal |-> 0, Elevated |-> 1, Safe |-> 2, Chaos |-> 3, Lockdown |-> 4]
DEVICE == 3
AI     == 6

(* What the rules see of a message: the kernel (0), the Butler or another  *)
(* process (2) as its sender, the effective priority of the sender and the *)
(* kind of the capability's resource; priorities on both sides of the bounds. *)
Context == [sender: 0 .. 2, priority: 1 .. 4, kind: {0, DEVICE, AI}]

(* The genesis rules that match, by priority; the last always does. *)
Matching(c, state, authority) ==
  LET atLeast(s) == Severity[state] >= Severity[s]
      other      == c.sender # BUTLER
      rule(priority, action, conditions) ==
        IF conditions THEN {[priority |-> priority, action |-> action]} ELSE {}
  IN  UNION {rule(1000, "Allow", ~other),
             rule(950, "DenyAndLog", c.sender = 0),
             rule(900, "DenyAndLog", atLeast("Lockdown") /\ other),
             rule(850, "EscalateToChaos", authority = "Emergency"),
             rule(800, "DenyAndLog", atLeast("Chaos") /\ other /\ c.priority < 4),
             rule(700, "Deny", atLeast("Elevated") /\ c.priority < 2),
             rule(650, "AllowIfCapValid", atLeast("Safe") /\ other),
             rule(600, "AllowIfCapValid", c.kind = DEVICE /\ other),
             rule(550, "AllowIfCapValid", c.kind = AI /\ other),
             rule(100, "Allow", TRUE)}

(* A list of rules sorted the wrong way round. *)
FirstMatchAscending(c, state, authority) ==
  LET rules == Matching(c, state, authority)
  IN  (CHOOSE r \in rules : \A o \in rules : r.priority <= o.priority).action
(* evaluate_with_action, for every context and state at once *)
Authority == {"Active", "Degraded", "Contingency", "Emergency"}
Verdicts ==
  [x \in Context \X (DOMAIN Severity) \X Authority |->
     LET rules == Matching(x[1], x[2], x[3])
     IN  (CHOOSE r \in rules : \A o \in rules : r.priority >= o.priority).action]
FirstMatch(c, state, authority) == Verdicts[<<c, state, authority>>]

Permits(action) == action \in {"Allow", "AllowIfCapValid"}

(* Whether evaluating c takes the system to Chaos, and the verdict: after  *)
(* an escalation the rules are evaluated once more, in Chaos.              *)
Escalates(c) == glass = 0 /\ FirstMatch(c, safety.state, acs.state) = "EscalateToChaos"
Allowed(c) ==
  \/ glass > 0
  \/ Permits(FirstMatch(c, IF Escalates(c) THEN "Chaos" ELSE safety.state, acs.state))

(* Only an escalation changes the state the model keeps. *)
EvaluatePolicy(c) ==
  /\ Escalates(c)
  /\ safety' = TransitionTo(safety, "Chaos")
  /\ UNCHANGED <<acs, glass, amendment, recent>>

ClearEngine ==
  /\ safety' = InitialSafety
  /\ acs' = InitialAcs
  /\ glass' = 0
  /\ amendment' = NONE
  /\ recent' = << >>

GovernanceNext ==
  \/ ReportAnomaly
  \/ ReportAlarm
  \/ ForceLockdown
  \/ HumanConfirm
  \/ \E w \in Weights : ReportSignal(w)
  \/ Heartbeat
  \/ \E exists \in BOOLEAN : SetAlternateExists(exists)
  \/ Activate
  \/ Propose
  \/ Apply
  \/ Tick
  \/ \E c \in Context : EvaluatePolicy(c)
  \/ ClearEngine

GovernanceSpec == GovernanceInit /\ [][GovernanceNext]_gvars

-----------------------------------------------------------------------------
(* Properties *)

Signal == [age: 0 .. SignalWindow, weight: Weights]

(* The state machines stay within their states, and the signal buffer      *)
(* within its capacity and its window.                                     *)
GovernanceTypeOK ==
  /\ safety \in [state: DOMAIN Severity, age: 0 .. AgeCap, anomalies: 0 .. AnomalyBurst,
                 window: 0 .. AnomalyWindow, alarms: 0 .. AlarmBurst, signals: Seq(Signal),
                 cooldown: 0 .. Cooldown]
  /\ Len(safety.signals) <= MaxSignals
  /\ acs \in [state: Authority, silence: 0 .. EmergencyTicks + 1, alternate: BOOLEAN]
  /\ glass \in 0 .. GlassTicks
  /\ amendment \in {NONE} \union 0 .. CoolingTicks

(* The least priority of a sender that each safety state lets through. *)
Floor == [Normal |-> 0, Elevated |-> 2, Safe |-> 2, Chaos |-> 4, Lockdown |-> 5]

(* What the ten rules, their priorities and the second evaluation after an *)
(* escalation amount to (evaluate_policy, genesis_rules): the Butler is    *)
(* always heard, a sender claiming to be the kernel never, and any other   *)
(* only while the authority is not in Emergency and its priority suffices  *)
(* for the safety state; an open break-glass lets everything through.      *)
PolicyHolds ==
  \A c \in Context :
    Allowed(c) <=> \/ glass > 0
                   \/ c.sender = BUTLER
                   \/ /\ c.sender # 0
                      /\ acs.state # "Emergency"
                      /\ c.priority >= Floor[safety.state]

(* Nothing but human_confirm (or clear, between self tests) ends a         *)
(* Lockdown: no de-escalation of tick, no signal, and not the escalation   *)
(* to Chaos, a milder state, that evaluate_policy makes in Emergency.      *)
LockdownHeld ==
  [][safety.state = "Lockdown" /\ safety'.state # "Lockdown"
     => HumanConfirm \/ ClearEngine]_gvars

(* The dead-man switch (AcsStateMachine::tick) fires at most one tick late *)
(* whatever alternates come and go meanwhile: the late tick is the one     *)
(* spent in Contingency when an alternate is named at the last moment.     *)
DeadManSwitch == acs.silence > EmergencyTicks => acs.state = "Emergency"

(* The tick that enters Emergency locks the system down and, unless a      *)
(* bypass is open already, opens break-glass (the order of                 *)
(* GovernanceEngine::tick).                                                *)
EmergencyLocks ==
  [][acs.state # "Emergency" /\ acs'.state = "Emergency"
     => safety'.state = "Lockdown" /\ (glass = 0 => glass' = GlassTicks)]_gvars

(* A bypass opened in Normal or Elevated, or open when the system recovers *)
(* to them, ends at the next tick (check_recovery).  The type invariant    *)
(* bounds how long a bypass lasts.                                         *)
BypassNotInNormal ==
  /\ GovernanceTypeOK
  /\ 0 < glass /\ glass < GlassTicks => safety.state \in {"Safe", "Chaos", "Lockdown"}

(* The rules amount to the intended policy in every state of the engine,   *)
(* and a bypass does not outlive the emergency.                            *)
PolicySound == PolicyHolds /\ BypassNotInNormal

(* Nothing but a human ends a Lockdown (tick, report_signal and            *)
(* evaluate_policy do not), and entering Emergency starts one.             *)
EscalationSound == LockdownHeld /\ EmergencyLocks

(* What the signal buffer of report_signal guarantees: with fewer signals  *)
(* than its capacity in the last two windows, a report escalates as soon   *)
(* as the signals of the last window reach the threshold of the state and  *)
(* the cooldown is over.  With more, a full buffer of old signals may have *)
(* kept out the very signals that matter now.  Signals are in the order of *)
(* their ages: the first k of the history have left the window.            *)
SignalsCounted ==
  [][\A w \in Weights, k \in 0 .. Len(recent) :
       /\ w < InstantThreshold /\ ReportSignal(w)
       /\ Len(recent) < MaxSignals
       /\ safety.cooldown >= Cooldown
       /\ \A i \in 1 .. Len(recent) : recent[i].age > SignalWindow <=> i <= k
       /\ Reached(safety, w + Sum(SubSeq(recent, k + 1, Len(recent))))
       => safety'.state # safety.state]_gvars
=============================================================================
