---------------------------- MODULE PolicyProofs ----------------------------
(***************************************************************************)
(* Proofs about what decides on a message, for every choice of thresholds, *)
(* models, rules, threads and calls: the governance engine with its        *)
(* dead-man switch, what starts and ends a Lockdown and its buffer of      *)
(* signals, the ordered locks, which never form a circle of waiting        *)
(* threads, the rule table and the council.                                *)
(***************************************************************************)
EXTENDS Governance, LockOrder, Council, RuleEngine, NatLemmas, SequenceTheorems, FiniteSetTheorems, TLAPS

-----------------------------------------------------------------------------
(* The dead-man switch *)

AcsType == [state: Authority, silence: 0 .. EmergencyTicks + 1, alternate: BOOLEAN]

(* The longest silence that each authority state can have seen.            *)
SilenceBounded ==
  /\ acs.state = "Active" => acs.silence < DegradedTicks
  /\ acs.state = "Degraded" => acs.silence < EmergencyTicks
  /\ acs.state = "Contingency" => acs.silence <= EmergencyTicks

(* A tick keeps the type of the authority state and the bounds on silence. *)
LEMMA AcsTickedSound ==
  ASSUME acs \in AcsType, SilenceBounded, acs' = AcsTicked(acs)
  PROVE  acs' \in AcsType /\ SilenceBounded'
<1> USE ThresholdAssumption
<1>1. PICK st \in Authority, n \in 0 .. EmergencyTicks + 1, b \in BOOLEAN :
        st = acs.state /\ n = acs.silence /\ b = acs.alternate
  BY DEF AcsType
<1> DEFINE elapsed == Older(n, EmergencyTicks + 1)
<1>2. elapsed \in 0 .. EmergencyTicks + 1 /\ elapsed <= n + 1
  BY DEF Older
<1>3. acs' = [acs EXCEPT !.silence = elapsed, !.state =
                CASE st = "Active" /\ elapsed >= DegradedTicks -> "Degraded"
                  [] st = "Degraded" /\ elapsed >= ContingencyTicks /\ b -> "Contingency"
                  [] st = "Degraded" /\ elapsed >= EmergencyTicks /\ ~b -> "Emergency"
                  [] st = "Contingency" /\ elapsed >= EmergencyTicks -> "Emergency"
                  [] OTHER -> st]
  BY <1>1 DEF AcsTicked
<1> HIDE DEF elapsed
<1>4. PICK new \in Authority :
        /\ acs' = [acs EXCEPT !.silence = elapsed, !.state = new]
        /\ st = "Active" => new = IF elapsed >= DegradedTicks THEN "Degraded" ELSE "Active"
        /\ st = "Degraded" => \/ new = "Emergency"
                              \/ new = "Contingency"
                              \/ new = "Degraded" /\ elapsed < EmergencyTicks
        /\ st = "Contingency" => new = IF elapsed >= EmergencyTicks THEN "Emergency" ELSE "Contingency"
        /\ st = "Emergency" => new = "Emergency"
  <2>1. CASE st = "Active"
    BY <1>2, <1>3, <2>1 DEF Authority
  <2>2. CASE st = "Degraded"
    <3>1. CASE b = TRUE /\ elapsed >= ContingencyTicks
      <4>1. acs' = [acs EXCEPT !.silence = elapsed, !.state = "Contingency"]
        BY <1>2, <1>3, <2>2, <3>1
      <4> QED  BY <2>2, <4>1 DEF Authority
    <3>2. CASE b = FALSE /\ elapsed >= EmergencyTicks
      <4>1. acs' = [acs EXCEPT !.silence = elapsed, !.state = "Emergency"]
        BY <1>2, <1>3, <2>2, <3>2
      <4> QED  BY <2>2, <4>1 DEF Authority
    <3>3. CASE ~(b = TRUE /\ elapsed >= ContingencyTicks) /\ ~(b = FALSE /\ elapsed >= EmergencyTicks)
      <4>1. acs' = [acs EXCEPT !.silence = elapsed, !.state = "Degraded"]
        BY <1>2, <1>3, <2>2, <3>3
      <4>2. elapsed < EmergencyTicks
        BY <1>2, <3>3
      <4> QED  BY <2>2, <4>1, <4>2 DEF Authority
    <3> QED  BY <3>1, <3>2, <3>3
  <2>3. CASE st = "Contingency"
    BY <1>2, <1>3, <2>3 DEF Authority
  <2>4. CASE st = "Emergency"
    BY <1>2, <1>3, <2>4 DEF Authority
  <2> QED  BY <2>1, <2>2, <2>3, <2>4 DEF Authority
<1>5. acs'.silence = elapsed /\ acs'.state = new /\ acs' \in AcsType
  BY <1>2, <1>4 DEF AcsType
<1>6. /\ st = "Active" => n < DegradedTicks
      /\ st = "Degraded" => n < EmergencyTicks
  BY <1>1 DEF SilenceBounded
<1>7. SilenceBounded'
  BY <1>2, <1>4, <1>5, <1>6 DEF SilenceBounded, Authority
<1> QED  BY <1>5, <1>7

(* Every step keeps them; only a tick prolongs the silence. *)
LEMMA AcsStep ==
  acs \in AcsType /\ SilenceBounded /\ [GovernanceNext]_gvars => (acs \in AcsType /\ SilenceBounded)'
<1> SUFFICES ASSUME acs \in AcsType, SilenceBounded, [GovernanceNext]_gvars
             PROVE  acs' \in AcsType /\ SilenceBounded'
  OBVIOUS
<1> USE ThresholdAssumption
<1>1. CASE acs' = acs
  BY <1>1 DEF SilenceBounded
<1>2. CASE Heartbeat
  <2>1. acs' = [acs EXCEPT !.state = "Active", !.silence = 0] /\ 0 \in 0 .. EmergencyTicks + 1
    BY <1>2 DEF Heartbeat
  <2>2. acs' \in AcsType /\ acs'.state = "Active" /\ acs'.silence = 0
    BY <2>1 DEF AcsType, Authority
  <2> QED  BY <2>2 DEF SilenceBounded
<1>3. ASSUME NEW exists \in BOOLEAN, SetAlternateExists(exists)
      PROVE  acs' \in AcsType /\ SilenceBounded'
  BY <1>3 DEF SetAlternateExists, AcsType, SilenceBounded, Authority
<1>4. CASE Tick
  BY <1>4, AcsTickedSound DEF Tick
<1>5. CASE ClearEngine
  BY <1>5 DEF ClearEngine, InitialAcs, AcsType, SilenceBounded, Authority
<1>6. \/ acs' = acs \/ Heartbeat \/ (\E exists \in BOOLEAN : SetAlternateExists(exists))
      \/ Tick \/ ClearEngine
  BY DEF GovernanceNext, gvars, ReportAnomaly, ReportAlarm, ForceLockdown, HumanConfirm, ReportSignal,
         Activate, Propose, Apply, EvaluatePolicy
<1> QED  BY <1>1, <1>2, <1>3, <1>4, <1>5, <1>6

(* The dead-man switch (AcsStateMachine::tick) fires at most one tick late *)
(* whatever heartbeats and alternates come and go, for all thresholds in   *)
(* ascending order.                                                        *)
THEOREM DeadManSwitchEver == GovernanceSpec => []DeadManSwitch
<1> USE ThresholdAssumption
<1>1. GovernanceInit => acs \in AcsType /\ SilenceBounded
  BY DEF GovernanceInit, InitialAcs, AcsType, SilenceBounded, Authority
<1>2. acs \in AcsType /\ SilenceBounded => DeadManSwitch
  BY DEF AcsType, SilenceBounded, Authority, DeadManSwitch
<1> QED  BY <1>1, <1>2, AcsStep, PTL DEF GovernanceSpec

-----------------------------------------------------------------------------
(* The genesis rules *)

GenesisRule(priority, action) == [priority |-> priority, action |-> action]

(* The rules that match, one by one. *)
LEMMA RuleMatches ==
  ASSUME NEW c \in Context, NEW s \in DOMAIN Severity, NEW a \in Authority, NEW r
  PROVE  r \in Matching(c, s, a) <=>
           \/ r = GenesisRule(1000, "Allow") /\ c.sender = BUTLER
           \/ r = GenesisRule(950, "DenyAndLog") /\ c.sender = 0
           \/ r = GenesisRule(900, "DenyAndLog") /\ Severity[s] >= Severity["Lockdown"] /\ c.sender # BUTLER
           \/ r = GenesisRule(850, "EscalateToChaos") /\ a = "Emergency"
           \/ r = GenesisRule(800, "DenyAndLog") /\ Severity[s] >= Severity["Chaos"] /\ c.sender # BUTLER /\ c.priority < 4
           \/ r = GenesisRule(700, "Deny") /\ Severity[s] >= Severity["Elevated"] /\ c.priority < 2
           \/ r = GenesisRule(650, "AllowIfCapValid") /\ Severity[s] >= Severity["Safe"] /\ c.sender # BUTLER
           \/ r = GenesisRule(600, "AllowIfCapValid") /\ c.kind = DEVICE /\ c.sender # BUTLER
           \/ r = GenesisRule(550, "AllowIfCapValid") /\ c.kind = AI /\ c.sender # BUTLER
           \/ r = GenesisRule(100, "Allow")
BY DEF Matching, GenesisRule

(* A matching rule above all others decides. *)
LEMMA TopRuleDecides ==
  ASSUME NEW c \in Context, NEW s \in DOMAIN Severity, NEW a \in Authority,
         NEW p \in Nat, NEW act, GenesisRule(p, act) \in Matching(c, s, a),
         \A o \in Matching(c, s, a) : o = GenesisRule(p, act) \/ (o.priority \in Nat /\ o.priority < p)
  PROVE  FirstMatch(c, s, a) = act
<1> DEFINE matching == Matching(c, s, a)
           top == CHOOSE r \in matching : \A o \in matching : r.priority >= o.priority
<1>1. FirstMatch(c, s, a) = top.action
  BY DEF FirstMatch, Verdicts
<1>2. GenesisRule(p, act).priority = p /\ GenesisRule(p, act).action = act
  BY DEF GenesisRule
<1>3. \A o \in matching : GenesisRule(p, act).priority >= o.priority
  BY <1>2
<1>4. top \in matching /\ \A o \in matching : top.priority >= o.priority
  <2> HIDE DEF matching
  <2>1. GenesisRule(p, act) \in matching
    BY DEF matching
  <2> QED  BY <1>3, <2>1
<1>5. top = GenesisRule(p, act)
  <2> HIDE DEF top
  <2> QED  BY <1>2, <1>4
<1> QED  BY <1>1, <1>2, <1>5

(* What the ten rules decide, by sender, authority, safety state and       *)
(* priority.                                                               *)
LEMMA Decisions ==
  ASSUME NEW c \in Context, NEW s \in DOMAIN Severity, NEW a \in Authority
  PROVE  /\ c.sender = BUTLER => FirstMatch(c, s, a) = "Allow"
         /\ c.sender = 0 => FirstMatch(c, s, a) = "DenyAndLog"
         /\ c.sender = 2 /\ s = "Lockdown" => FirstMatch(c, s, a) = "DenyAndLog"
         /\ c.sender = 2 /\ s # "Lockdown" /\ a = "Emergency" => FirstMatch(c, s, a) = "EscalateToChaos"
         /\ c.sender = 2 /\ a # "Emergency" =>
              /\ Permits(FirstMatch(c, s, a)) <=> c.priority >= Floor[s]
              /\ FirstMatch(c, s, a) # "EscalateToChaos"
<1>1. /\ DOMAIN Severity = {"Normal", "Elevated", "Safe", "Chaos", "Lockdown"}
      /\ Severity["Normal"] = 0 /\ Severity["Elevated"] = 1 /\ Severity["Safe"] = 2
      /\ Severity["Chaos"] = 3 /\ Severity["Lockdown"] = 4
  BY DEF Severity
<1>2. c.sender \in 0 .. 2 /\ c.priority \in 1 .. 4 /\ c.kind \in {0, 3, 6} /\ BUTLER = 1 /\ DEVICE = 3 /\ AI = 6
  BY DEF Context, BUTLER, DEVICE, AI
<1>3. \A p, act : GenesisRule(p, act).priority = p
  BY DEF GenesisRule
<1>4. CASE c.sender = 1
  <2>1. FirstMatch(c, s, a) = "Allow"
    <3>1. GenesisRule(1000, "Allow") \in Matching(c, s, a)
      BY <1>2, <1>4, RuleMatches
    <3>2. \A o \in Matching(c, s, a) : o = GenesisRule(1000, "Allow") \/ (o.priority \in Nat /\ o.priority < 1000)
      BY <1>2, <1>3, <1>4, RuleMatches
    <3> QED  BY <3>1, <3>2, TopRuleDecides
  <2> QED  BY <1>2, <1>4, <2>1
<1>5. CASE c.sender = 0
  <2>1. FirstMatch(c, s, a) = "DenyAndLog"
    <3>1. GenesisRule(950, "DenyAndLog") \in Matching(c, s, a)
      BY <1>2, <1>5, RuleMatches
    <3>2. \A o \in Matching(c, s, a) : o = GenesisRule(950, "DenyAndLog") \/ (o.priority \in Nat /\ o.priority < 950)
      BY <1>2, <1>3, <1>5, RuleMatches
    <3> QED  BY <3>1, <3>2, TopRuleDecides
  <2> QED  BY <1>2, <1>5, <2>1
<1>6. Floor["Normal"] = 0 /\ Floor["Elevated"] = 2 /\ Floor["Safe"] = 2 /\ Floor["Chaos"] = 4 /\ Floor["Lockdown"] = 5
  BY DEF Floor
<1>7. CASE c.sender = 2
  <2>1. CASE s = "Lockdown"
    <3>1. GenesisRule(900, "DenyAndLog") \in Matching(c, s, a)
      BY <1>1, <1>2, <1>3, <1>6, <1>7, <2>1, RuleMatches
    <3>2. \A o \in Matching(c, s, a) : o = GenesisRule(900, "DenyAndLog") \/ (o.priority \in Nat /\ o.priority < 900)
      BY <1>1, <1>2, <1>3, <1>6, <1>7, <2>1, RuleMatches
    <3>3. FirstMatch(c, s, a) = "DenyAndLog"
      BY <3>1, <3>2, TopRuleDecides
    <3> QED  BY <1>1, <1>2, <1>3, <1>6, <1>7, <2>1, <3>3 DEF Permits
  <2>2. CASE s # "Lockdown" /\ a = "Emergency"
    <3>1. GenesisRule(850, "EscalateToChaos") \in Matching(c, s, a)
      BY <1>1, <1>2, <1>3, <1>6, <1>7, <2>2, RuleMatches
    <3>2. \A o \in Matching(c, s, a) : o = GenesisRule(850, "EscalateToChaos") \/ (o.priority \in Nat /\ o.priority < 850)
      BY <1>1, <1>2, <1>3, <1>6, <1>7, <2>2, RuleMatches
    <3>3. FirstMatch(c, s, a) = "EscalateToChaos"
      BY <3>1, <3>2, TopRuleDecides
    <3> QED  BY <1>1, <1>2, <1>3, <1>6, <1>7, <2>2, <3>3 DEF Permits
  <2>3. CASE s # "Lockdown" /\ a # "Emergency"
    <3>1. CASE s = "Chaos" /\ c.priority < 4
      <4>1. GenesisRule(800, "DenyAndLog") \in Matching(c, s, a)
        BY <1>1, <1>2, <1>3, <1>6, <1>7, <2>3, <3>1, RuleMatches
      <4>2. \A o \in Matching(c, s, a) : o = GenesisRule(800, "DenyAndLog") \/ (o.priority \in Nat /\ o.priority < 800)
        BY <1>1, <1>2, <1>3, <1>6, <1>7, <2>3, <3>1, RuleMatches
      <4>3. FirstMatch(c, s, a) = "DenyAndLog"
        BY <4>1, <4>2, TopRuleDecides
      <4> QED  BY <1>1, <1>2, <1>3, <1>6, <1>7, <2>3, <3>1, <4>3 DEF Permits
    <3>2. CASE s \in {"Elevated", "Safe"} /\ c.priority < 2
      <4>1. GenesisRule(700, "Deny") \in Matching(c, s, a)
        BY <1>1, <1>2, <1>3, <1>6, <1>7, <2>3, <3>2, RuleMatches
      <4>2. \A o \in Matching(c, s, a) : o = GenesisRule(700, "Deny") \/ (o.priority \in Nat /\ o.priority < 700)
        BY <1>1, <1>2, <1>3, <1>6, <1>7, <2>3, <3>2, RuleMatches
      <4>3. FirstMatch(c, s, a) = "Deny"
        BY <4>1, <4>2, TopRuleDecides
      <4> QED  BY <1>1, <1>2, <1>3, <1>6, <1>7, <2>3, <3>2, <4>3 DEF Permits
    <3>3. CASE (s = "Chaos" /\ c.priority >= 4) \/ (s = "Safe" /\ c.priority >= 2)
      <4>1. GenesisRule(650, "AllowIfCapValid") \in Matching(c, s, a)
        BY <1>1, <1>2, <1>3, <1>6, <1>7, <2>3, <3>3, RuleMatches
      <4>2. \A o \in Matching(c, s, a) : o = GenesisRule(650, "AllowIfCapValid") \/ (o.priority \in Nat /\ o.priority < 650)
        BY <1>1, <1>2, <1>3, <1>6, <1>7, <2>3, <3>3, RuleMatches
      <4>3. FirstMatch(c, s, a) = "AllowIfCapValid"
        BY <4>1, <4>2, TopRuleDecides
      <4> QED  BY <1>1, <1>2, <1>3, <1>6, <1>7, <2>3, <3>3, <4>3 DEF Permits
    <3>4. CASE (s = "Normal" \/ (s = "Elevated" /\ c.priority >= 2)) /\ c.kind = 3
      <4>1. GenesisRule(600, "AllowIfCapValid") \in Matching(c, s, a)
        BY <1>1, <1>2, <1>3, <1>6, <1>7, <2>3, <3>4, RuleMatches
      <4>2. \A o \in Matching(c, s, a) : o = GenesisRule(600, "AllowIfCapValid") \/ (o.priority \in Nat /\ o.priority < 600)
        BY <1>1, <1>2, <1>3, <1>6, <1>7, <2>3, <3>4, RuleMatches
      <4>3. FirstMatch(c, s, a) = "AllowIfCapValid"
        BY <4>1, <4>2, TopRuleDecides
      <4> QED  BY <1>1, <1>2, <1>3, <1>6, <1>7, <2>3, <3>4, <4>3 DEF Permits
    <3>5. CASE (s = "Normal" \/ (s = "Elevated" /\ c.priority >= 2)) /\ c.kind = 6
      <4>1. GenesisRule(550, "AllowIfCapValid") \in Matching(c, s, a)
        BY <1>1, <1>2, <1>3, <1>6, <1>7, <2>3, <3>5, RuleMatches
      <4>2. \A o \in Matching(c, s, a) : o = GenesisRule(550, "AllowIfCapValid") \/ (o.priority \in Nat /\ o.priority < 550)
        BY <1>1, <1>2, <1>3, <1>6, <1>7, <2>3, <3>5, RuleMatches
      <4>3. FirstMatch(c, s, a) = "AllowIfCapValid"
        BY <4>1, <4>2, TopRuleDecides
      <4> QED  BY <1>1, <1>2, <1>3, <1>6, <1>7, <2>3, <3>5, <4>3 DEF Permits
    <3>6. CASE (s = "Normal" \/ (s = "Elevated" /\ c.priority >= 2)) /\ c.kind = 0
      <4>1. GenesisRule(100, "Allow") \in Matching(c, s, a)
        BY <1>1, <1>2, <1>3, <1>6, <1>7, <2>3, <3>6, RuleMatches
      <4>2. \A o \in Matching(c, s, a) : o = GenesisRule(100, "Allow") \/ (o.priority \in Nat /\ o.priority < 100)
        BY <1>1, <1>2, <1>3, <1>6, <1>7, <2>3, <3>6, RuleMatches
      <4>3. FirstMatch(c, s, a) = "Allow"
        BY <4>1, <4>2, TopRuleDecides
      <4> QED  BY <1>1, <1>2, <1>3, <1>6, <1>7, <2>3, <3>6, <4>3 DEF Permits
    <3>7. \/ s = "Chaos" /\ c.priority < 4
          \/ s \in {"Elevated", "Safe"} /\ c.priority < 2
          \/ (s = "Chaos" /\ c.priority >= 4) \/ (s = "Safe" /\ c.priority >= 2)
          \/ (s = "Normal" \/ (s = "Elevated" /\ c.priority >= 2))
      <4>1. PICK p \in 1 .. 4 : p = c.priority
        BY <1>2
      <4>2. s \in {"Normal", "Elevated", "Safe", "Chaos"}
        BY <1>1, <2>3
      <4>3. (p < 4 \/ p >= 4) /\ (p < 2 \/ p >= 2)
        OBVIOUS
      <4> QED  BY <4>1, <4>2, <4>3
    <3>8. c.kind = 3 \/ c.kind = 6 \/ c.kind = 0
      BY <1>2
    <3> QED  BY <3>1, <3>2, <3>3, <3>4, <3>5, <3>6, <3>7, <3>8
  <2> QED  BY <2>1, <2>2, <2>3
<1> QED  BY <1>2, <1>4, <1>5, <1>7

-----------------------------------------------------------------------------
(* The type of the engine *)

(* Signals of any age. *)
Aging == [age: Nat, weight: Weights]
OneOlder(x) == [x EXCEPT !.age = @ + 1]

(* What is known of a signal. *)
LEMMA SignalOf ==
  ASSUME NEW s \in Seq(Aging)
  PROVE  \A i \in 1 .. Len(s) : s[i] \in Aging /\ s[i].age \in Nat /\ s[i].weight \in Nat
<1>1. \A i \in 1 .. Len(s) : s[i] \in Aging
  OBVIOUS
<1> QED  BY <1>1, TimesAssumption DEF Aging

(* The loop of SignalsAged, round by round. *)
LEMMA KeptRounds ==
  ASSUME NEW signals \in Seq(Aging), NEW window \in Nat
  PROVE  \E f : /\ f[0] = << >>
                /\ \A i \in 1 .. Len(signals) :
                     f[i] = IF signals[i].age < window THEN Append(f[i - 1], OneOlder(signals[i])) ELSE f[i - 1]
                /\ SignalsAged(signals, window) = f[Len(signals)]
<1> DEFINE n == Len(signals)
           Next(kept, i) == IF signals[i].age < window THEN Append(kept, OneOlder(signals[i])) ELSE kept
           IsKept(f) == f = [i \in 0 .. n |-> IF i = 0 THEN << >> ELSE Next(f[i - 1], i)]
           F == [p \in Seq(Aging) \X (1 .. n) |-> Next(p[1], p[2])]
<1>1. n \in Nat
  OBVIOUS
<1>2. \A k \in Seq(Aging), i \in 1 .. n : Next(k, i) \in Seq(Aging)
  <2> TAKE k \in Seq(Aging), i \in 1 .. n
  <2>1. PICK g \in Nat, w \in Weights : signals[i] = [age |-> g, weight |-> w]
    <3>1. signals[i] \in Aging
      OBVIOUS
    <3> QED  BY <3>1 DEF Aging
  <2>2. OneOlder(signals[i]) = [age |-> g + 1, weight |-> w]
    BY <2>1 DEF OneOlder
  <2>3. OneOlder(signals[i]) \in Aging
    BY <2>2 DEF Aging
  <2> QED  BY <2>3
<1>3. F \in [Seq(Aging) \X (1 .. n) -> Seq(Aging)]
  <2> HIDE DEF Next
  <2> QED  BY <1>2
<1>4. PICK f : IsKept(f) /\ SignalsAged(signals, window) = f[n]
  <2>1. \E f : IsKept(f)
    <3>1. << >> \in Seq(Aging)
      OBVIOUS
    <3> HIDE DEF F, n, Next, IsKept
    <3>2. PICK f : IsRun(f, n, Seq(Aging), << >>, F)
      BY <1>1, <1>3, <3>1, FiniteRun
    <3>3. ASSUME NEW i \in 1 .. n PROVE f[i] = Next(f[i - 1], i)
      <4>1. f[i - 1] \in Seq(Aging)
        BY <1>1, <3>2 DEF IsRun
      <4>2. <<f[i - 1], i>> \in Seq(Aging) \X (1 .. n)
        BY <4>1
      <4>3. F[<<f[i - 1], i>>] = Next(f[i - 1], i)
        BY <4>2 DEF F
      <4> QED  BY <3>2, <4>3 DEF IsRun
    <3>4. f = [i \in 0 .. n |-> IF i = 0 THEN << >> ELSE Next(f[i - 1], i)]
      BY <1>1, <3>2, <3>3 DEF IsRun
    <3> QED  BY <3>4 DEF IsKept
  <2>2. SignalsAged(signals, window) = (CHOOSE f : IsKept(f))[n]
    BY DEF SignalsAged, Kept, OneOlder
  <2> HIDE DEF IsKept
  <2> QED  BY <2>1, <2>2
<1> HIDE DEF n, Next
<1>5. f[0] = << >> /\ \A i \in 1 .. n : f[i] = Next(f[i - 1], i)
  BY <1>1, <1>4
<1> QED  BY <1>4, <1>5 DEF n, Next

(* Ageing a buffer of signals keeps their type and never adds one.         *)
LEMMA SignalsAgedType ==
  ASSUME NEW signals \in Seq(Signal)
  PROVE  /\ SignalsAged(signals, SignalWindow) \in Seq(Signal)
         /\ Len(SignalsAged(signals, SignalWindow)) <= Len(signals)
<1>1. PICK n \in Nat : n = Len(signals)
  BY LenProperties
<1>2. \A i \in 1 .. n : signals[i] \in Signal
  BY <1>1
<1>3. signals \in Seq(Aging)
  <2>1. \A i \in 1 .. n : signals[i] \in Aging
    BY <1>2, TimesAssumption DEF Signal, Aging
  <2>2. signals \in [1 .. n -> Aging]
    BY <1>1, <2>1
  <2> QED  BY <2>2
<1>4. PICK f : /\ f[0] = << >>
               /\ \A i \in 1 .. n :
                    f[i] = IF signals[i].age < SignalWindow THEN Append(f[i - 1], OneOlder(signals[i])) ELSE f[i - 1]
               /\ SignalsAged(signals, SignalWindow) = f[n]
  BY <1>1, <1>3, KeptRounds, TimesAssumption
<1> DEFINE T == {i \in 0 .. n : f[i] \in Seq(Signal) /\ Len(f[i]) <= i}
<1>5. 0 \in T
  <2>1. << >> \in Seq(Signal) /\ Len(<< >>) = 0
    OBVIOUS
  <2>2. f[0] \in Seq(Signal) /\ Len(f[0]) <= 0 /\ 0 \in 0 .. n
    BY <1>4, <2>1
  <2> QED  BY <2>2
<1>6. ASSUME NEW i \in 1 .. n, i - 1 \in T PROVE i \in T
  <2>1. PICK g : g = f[i - 1] /\ g \in Seq(Signal) /\ Len(g) <= i - 1 /\ Len(g) \in Nat
    BY <1>6, LenProperties
  <2>2. CASE signals[i].age < SignalWindow
    <3>1. OneOlder(signals[i]) \in Signal
      <4>1. PICK a \in 0 .. SignalWindow, w \in Weights : signals[i] = [age |-> a, weight |-> w]
        BY <1>2 DEF Signal
      <4>2. a + 1 \in 0 .. SignalWindow
        BY <2>2, <4>1, TimesAssumption
      <4>3. OneOlder(signals[i]) = [age |-> a + 1, weight |-> w]
        BY <4>1 DEF OneOlder
      <4> QED  BY <4>2, <4>3 DEF Signal
    <3>2. f[i] = Append(g, OneOlder(signals[i]))
      BY <1>4, <2>1, <2>2
    <3>3. f[i] \in Seq(Signal) /\ Len(f[i]) = Len(g) + 1
      BY <2>1, <3>1, <3>2, AppendProperties
    <3> QED  BY <2>1, <3>3
  <2>3. CASE ~(signals[i].age < SignalWindow)
    <3>1. f[i] = g
      BY <1>4, <2>1, <2>3
    <3> QED  BY <2>1, <3>1
  <2> QED  BY <2>2, <2>3
<1>7. n \in T
  <2>1. n \in 0 .. n
    OBVIOUS
  <2> HIDE DEF T
  <2> QED  BY <1>5, <1>6, <2>1, CountUp
<1> QED  BY <1>1, <1>4, <1>7

SafetyType == [state: DOMAIN Severity, age: 0 .. AgeCap, anomalies: 0 .. AnomalyBurst,
               window: 0 .. AnomalyWindow, alarms: 0 .. AlarmBurst, signals: Seq(Signal),
               cooldown: 0 .. Cooldown]

(* The states of the safety machine that fit its buffer. *)
Machines == {s \in SafetyType : Len(s.signals) <= MaxSignals}

(* The limit on ages is a natural number. *)
LEMMA CapType == AgeCap \in Nat
BY TimesAssumption DEF AgeCap

(* Saturated counting stays within its bound. *)
LEMMA Saturates ==
  /\ \A cap \in Nat : \A n \in 0 .. cap : Older(n, cap) \in 0 .. cap
  /\ \A cap \in Nat \ {0} : \A n \in 0 .. cap : Counted(n, cap) \in 0 .. cap
BY DEF Older, Counted

(* A transition changes the state and the time it was entered, no more. *)
LEMMA TransitionToType ==
  ASSUME NEW s \in Machines, NEW new \in DOMAIN Severity
  PROVE  TransitionTo(s, new) \in Machines /\ TransitionTo(s, new).state = new
<1>1. 0 \in 0 .. AgeCap
  BY CapType
<1> QED  BY <1>1 DEF Machines, SafetyType, TransitionTo

(* The states of the safety machine. *)
LEMMA SafetyStates == DOMAIN Severity = {"Normal", "Elevated", "Safe", "Chaos", "Lockdown"}
BY DEF Severity

(* A signal that is reported leaves the machine within its type. *)
LEMMA EscalatedType ==
  ASSUME NEW s \in Machines
  PROVE  /\ Escalated(s) \in Machines
         /\ Escalated(s).state = s.state \/ (s.state \in {"Normal", "Elevated"} /\ Escalated(s).state \in {"Elevated", "Chaos"})
<1>1. 0 \in 0 .. Cooldown
  BY TimesAssumption
<1>2. \A t \in Machines : [t EXCEPT !.cooldown = 0] \in Machines /\ [t EXCEPT !.cooldown = 0].state = t.state
  BY <1>1 DEF Machines, SafetyType
<1>3. \A new \in DOMAIN Severity : TransitionTo(s, new) \in Machines /\ TransitionTo(s, new).state = new
  BY TransitionToType
<1> QED  BY <1>2, <1>3, SafetyStates DEF Escalated

(* One tick of the machine: types are kept, and the state either stays,    *)
(* settles from Elevated or Safe to Normal, or is locked.                  *)
LEMMA TickedType ==
  ASSUME NEW s \in Machines, NEW before, NEW after
  PROVE  /\ Locks(Settled(SafetyAged(s)), before, after) \in Machines
         /\ \/ Locks(Settled(SafetyAged(s)), before, after).state = s.state
            \/ Locks(Settled(SafetyAged(s)), before, after).state = "Lockdown"
            \/ /\ s.state \in {"Elevated", "Safe"}
               /\ Locks(Settled(SafetyAged(s)), before, after).state = "Normal"
         /\ (after = "Emergency" /\ before # "Emergency")
              => Locks(Settled(SafetyAged(s)), before, after).state = "Lockdown"
<1> USE TimesAssumption, CapType
<1>1. SafetyAged(s) \in Machines /\ SafetyAged(s).state = s.state
  <2>1. /\ s.age \in 0 .. AgeCap /\ s.window \in 0 .. AnomalyWindow /\ s.cooldown \in 0 .. Cooldown
        /\ s.signals \in Seq(Signal) /\ Len(s.signals) <= MaxSignals /\ Len(s.signals) \in Nat
    BY DEF Machines, SafetyType
  <2> DEFINE aged == IF s.state \in {"Elevated", "Safe"} THEN Older(s.age, AgeCap) ELSE 0
             wind == Older(s.window, AnomalyWindow)
             cool == Older(s.cooldown, Cooldown)
             left == SignalsAged(s.signals, SignalWindow)
  <2>2. aged \in 0 .. AgeCap /\ wind \in 0 .. AnomalyWindow /\ cool \in 0 .. Cooldown
    <3>1. wind \in 0 .. AnomalyWindow /\ cool \in 0 .. Cooldown /\ Older(s.age, AgeCap) \in 0 .. AgeCap
      BY <2>1, Saturates
    <3>2. 0 \in 0 .. AgeCap
      OBVIOUS
    <3> QED  BY <3>1, <3>2
  <2>3. left \in Seq(Signal) /\ Len(left) <= Len(s.signals) /\ Len(left) \in Nat
    BY <2>1, SignalsAgedType
  <2>4. SafetyAged(s) = [s EXCEPT !.age = aged, !.window = wind, !.cooldown = cool, !.signals = left]
    BY DEF SafetyAged, Machines, SafetyType
  <2> HIDE DEF aged, wind, cool, left
  <2>5. SafetyAged(s) \in SafetyType /\ SafetyAged(s).state = s.state /\ SafetyAged(s).signals = left
    BY <2>2, <2>3, <2>4 DEF Machines, SafetyType
  <2>6. Len(left) <= MaxSignals
    BY <2>1, <2>3
  <2> QED  BY <2>5, <2>6 DEF Machines
<1>2. /\ Settled(SafetyAged(s)) \in Machines
      /\ \/ Settled(SafetyAged(s)).state = s.state
         \/ s.state \in {"Elevated", "Safe"} /\ Settled(SafetyAged(s)).state = "Normal"
  BY <1>1, TransitionToType, SafetyStates DEF Settled
<1>3. \A t \in Machines : TransitionTo(t, "Lockdown") \in Machines /\ TransitionTo(t, "Lockdown").state = "Lockdown"
  BY TransitionToType, SafetyStates
<1> QED  BY <1>2, <1>3 DEF Locks

(* What a step may do to the safety machine. *)
LEMMA SafetyStep ==
  ASSUME safety \in Machines, acs \in AcsType, GovernanceNext
  PROVE  /\ safety' \in Machines
         /\ \/ safety'.state = safety.state
            \/ safety.state \in {"Normal", "Elevated"} /\ safety'.state # "Safe" /\ safety'.state # "Normal"
            \/ ForceLockdown /\ safety'.state = "Lockdown"
            \/ HumanConfirm /\ safety'.state = "Safe"
            \/ Tick
            \/ safety.state # "Lockdown" /\ safety'.state = "Chaos"
            \/ ClearEngine
<1> USE TimesAssumption, ThresholdAssumption, CapType, SafetyStates
<1>1. CASE ReportAnomaly
  <2> DEFINE fresh == IF safety.window >= AnomalyWindow
                      THEN [safety EXCEPT !.anomalies = 0, !.window = 0] ELSE safety
             more == [fresh EXCEPT !.anomalies = Counted(@, AnomalyBurst)]
  <2>1. fresh \in Machines /\ fresh.state = safety.state
    <3>1. 0 \in 0 .. AnomalyBurst /\ 0 \in 0 .. AnomalyWindow
      OBVIOUS
    <3> QED  BY <3>1 DEF Machines, SafetyType
  <2>2. safety' = IF more.state = "Normal" /\ more.anomalies >= AnomalyBurst
                  THEN [TransitionTo(more, "Elevated") EXCEPT !.anomalies = 0] ELSE more
    BY <1>1 DEF ReportAnomaly
  <2>3. more \in Machines /\ more.state = safety.state
    <3> HIDE DEF fresh
    <3>1. Counted(fresh.anomalies, AnomalyBurst) \in 0 .. AnomalyBurst
      BY <2>1, Saturates DEF Machines, SafetyType
    <3> QED  BY <2>1, <3>1 DEF Machines, SafetyType
  <2> HIDE DEF more, fresh
  <2>4. CASE ~(more.state = "Normal" /\ more.anomalies >= AnomalyBurst)
    BY <2>2, <2>3, <2>4
  <2>5. CASE more.state = "Normal" /\ more.anomalies >= AnomalyBurst
    <3>1. TransitionTo(more, "Elevated") \in Machines /\ TransitionTo(more, "Elevated").state = "Elevated"
      BY <2>3, TransitionToType
    <3>2. 0 \in 0 .. AnomalyBurst
      OBVIOUS
    <3>3. safety' \in Machines /\ safety'.state = "Elevated"
      BY <2>2, <2>5, <3>1, <3>2 DEF Machines, SafetyType
    <3> QED  BY <2>3, <2>5, <3>3
  <2> QED  BY <2>4, <2>5
<1>2. CASE ReportAlarm
  <2> DEFINE more == [safety EXCEPT !.alarms = Counted(@, AlarmBurst)]
  <2>1. safety' = IF more.state = "Elevated" /\ more.alarms >= AlarmBurst
                  THEN [TransitionTo(more, "Chaos") EXCEPT !.alarms = 0] ELSE more
    BY <1>2 DEF ReportAlarm
  <2>2. more \in Machines /\ more.state = safety.state
    <3>1. Counted(safety.alarms, AlarmBurst) \in 0 .. AlarmBurst
      BY Saturates DEF Machines, SafetyType
    <3> QED  BY <3>1 DEF Machines, SafetyType
  <2> HIDE DEF more
  <2>3. CASE ~(more.state = "Elevated" /\ more.alarms >= AlarmBurst)
    BY <2>1, <2>2, <2>3
  <2>4. CASE more.state = "Elevated" /\ more.alarms >= AlarmBurst
    <3>1. TransitionTo(more, "Chaos") \in Machines /\ TransitionTo(more, "Chaos").state = "Chaos"
      BY <2>2, TransitionToType
    <3>2. 0 \in 0 .. AlarmBurst
      OBVIOUS
    <3>3. safety' \in Machines /\ safety'.state = "Chaos"
      BY <2>1, <2>4, <3>1, <3>2 DEF Machines, SafetyType
    <3> QED  BY <2>2, <2>4, <3>3
  <2> QED  BY <2>3, <2>4
<1>3. CASE ForceLockdown
  BY <1>3, TransitionToType DEF ForceLockdown
<1>4. CASE HumanConfirm
  BY <1>4, TransitionToType DEF HumanConfirm
<1>5. ASSUME NEW w \in Weights, ReportSignal(w)
      PROVE  /\ safety' \in Machines
             /\ \/ safety'.state = safety.state
                \/ safety.state \in {"Normal", "Elevated"} /\ safety'.state \in {"Elevated", "Chaos"}
  <2> DEFINE stored == [safety EXCEPT !.signals = Store(@, w)]
  <2>1. \/ safety' = Escalated(safety)
        \/ safety' = [Escalated(stored) EXCEPT !.signals = << >>]
        \/ safety' = stored
    BY <1>5 DEF ReportSignal
  <2>2. stored \in Machines /\ stored.state = safety.state
    <3>1. safety.signals \in Seq(Signal) /\ Len(safety.signals) <= MaxSignals
      BY DEF Machines, SafetyType
    <3>2. [age |-> 0, weight |-> w] \in Signal
      BY DEF Signal
    <3>3. Store(safety.signals, w) \in Seq(Signal) /\ Len(Store(safety.signals, w)) <= MaxSignals
      <4>1. CASE Len(safety.signals) < MaxSignals
        BY <3>1, <3>2, <4>1 DEF Store
      <4>2. CASE ~(Len(safety.signals) < MaxSignals)
        BY <3>1, <4>2 DEF Store
      <4> QED  BY <4>1, <4>2
    <3> QED  BY <3>3 DEF Machines, SafetyType
  <2> HIDE DEF stored
  <2>3. \A s \in Machines : [s EXCEPT !.signals = << >>] \in Machines /\ [s EXCEPT !.signals = << >>].state = s.state
    <3>1. << >> \in Seq(Signal) /\ Len(<< >>) <= MaxSignals
      OBVIOUS
    <3> QED  BY <3>1 DEF Machines, SafetyType
  <2>4. /\ Escalated(safety) \in Machines
        /\ Escalated(safety).state = safety.state
            \/ (safety.state \in {"Normal", "Elevated"} /\ Escalated(safety).state \in {"Elevated", "Chaos"})
    BY EscalatedType
  <2>5. /\ Escalated(stored) \in Machines
        /\ Escalated(stored).state = safety.state
            \/ (safety.state \in {"Normal", "Elevated"} /\ Escalated(stored).state \in {"Elevated", "Chaos"})
    BY <2>2, EscalatedType
  <2> QED  BY <2>1, <2>2, <2>3, <2>4, <2>5
<1>6. CASE Tick
  BY <1>6, TickedType DEF Tick
<1>7. ASSUME NEW c \in Context, EvaluatePolicy(c)
      PROVE  safety' \in Machines /\ safety.state # "Lockdown" /\ safety'.state = "Chaos"
  <2>1. safety' \in Machines /\ safety'.state = "Chaos"
    BY <1>7, TransitionToType DEF EvaluatePolicy
  <2>2. safety.state \in DOMAIN Severity /\ acs.state \in Authority
    BY DEF Machines, SafetyType, AcsType
  <2>3. FirstMatch(c, safety.state, acs.state) = "EscalateToChaos"
    BY <1>7 DEF EvaluatePolicy, Escalates
  <2>4. c.sender \in 0 .. 2 /\ BUTLER = 1
    BY DEF Context, BUTLER
  <2> QED  BY <2>1, <2>2, <2>3, <2>4, Decisions
<1>8. CASE ClearEngine
  <2>1. 0 \in 0 .. AgeCap /\ 0 \in 0 .. AnomalyBurst /\ 0 \in 0 .. AnomalyWindow /\ 0 \in 0 .. AlarmBurst /\ 0 \in 0 .. Cooldown
    OBVIOUS
  <2> QED  BY <1>8, <2>1 DEF ClearEngine, InitialSafety, Machines, SafetyType
<1>9. CASE safety' = safety
  BY <1>9
<1>10. \/ ReportAnomaly \/ ReportAlarm \/ ForceLockdown \/ HumanConfirm \/ Tick \/ ClearEngine
       \/ safety' = safety
       \/ (\E w \in Weights : ReportSignal(w)) \/ (\E c \in Context : EvaluatePolicy(c))
  BY DEF GovernanceNext, Heartbeat, SetAlternateExists, Activate, Propose, Apply
<1> QED  BY <1>1, <1>2, <1>3, <1>4, <1>5, <1>6, <1>7, <1>8, <1>9, <1>10

(* The rest of the state: the bypass and the amendment. *)
LEMMA GlassStep ==
  ASSUME GovernanceTypeOK, GovernanceNext
  PROVE  /\ glass' \in 0 .. GlassTicks
         /\ amendment' \in {NONE} \union 0 .. CoolingTicks
<1> USE TimesAssumption, ThresholdAssumption DEF GovernanceTypeOK, NONE
<1>1. CASE Tick
  <2>1. glass' \in 0 .. GlassTicks
    BY <1>1 DEF Tick, Recovers, GlassTicked
  <2>2. amendment' \in {NONE} \union 0 .. CoolingTicks
    BY <1>1, Saturates DEF Tick
  <2> QED  BY <2>1, <2>2
<1>2. CASE Activate
  BY <1>2 DEF Activate
<1>3. CASE Propose
  BY <1>3 DEF Propose
<1>4. CASE Apply
  BY <1>4 DEF Apply
<1>5. CASE ClearEngine
  BY <1>5 DEF ClearEngine
<1>6. CASE UNCHANGED <<glass, amendment>>
  BY <1>6
<1> QED
  BY <1>1, <1>2, <1>3, <1>4, <1>5, <1>6
     DEF GovernanceNext, ReportAnomaly, ReportAlarm, ForceLockdown, HumanConfirm, ReportSignal,
         Heartbeat, SetAlternateExists, EvaluatePolicy

(* The inductive invariant of the engine. *)
EngineInv == GovernanceTypeOK /\ SilenceBounded /\ BypassNotInNormal

(* The engine starts in the invariant, ... *)
LEMMA EngineInit == GovernanceInit => EngineInv
<1> SUFFICES ASSUME GovernanceInit PROVE EngineInv
  OBVIOUS
<1> USE TimesAssumption, ThresholdAssumption, CapType, SafetyStates
<1>1. /\ 0 \in 0 .. AgeCap /\ 0 \in 0 .. AnomalyBurst /\ 0 \in 0 .. AnomalyWindow /\ 0 \in 0 .. AlarmBurst
      /\ 0 \in 0 .. Cooldown /\ 0 \in 0 .. EmergencyTicks + 1 /\ 0 \in 0 .. GlassTicks
  OBVIOUS
<1>2. safety \in SafetyType /\ safety.signals = << >>
  BY <1>1 DEF GovernanceInit, InitialSafety, SafetyType
<1>3. acs \in AcsType /\ SilenceBounded
  BY <1>1 DEF GovernanceInit, InitialAcs, AcsType, SilenceBounded, Authority
<1>4. GovernanceTypeOK
  BY <1>1, <1>2, <1>3 DEF GovernanceInit, GovernanceTypeOK, SafetyType, AcsType
<1> QED  BY <1>3, <1>4 DEF EngineInv, BypassNotInNormal, GovernanceInit

(* ... and every step of it keeps the invariant. *)
LEMMA EngineStep == EngineInv /\ [GovernanceNext]_gvars => EngineInv'
<1> SUFFICES ASSUME EngineInv, [GovernanceNext]_gvars PROVE EngineInv'
  OBVIOUS
<1> USE TimesAssumption, ThresholdAssumption, SafetyStates
<1>1. CASE UNCHANGED gvars
  BY <1>1 DEF gvars, EngineInv, GovernanceTypeOK, SilenceBounded, BypassNotInNormal
<1>2. CASE GovernanceNext
  <2>1. safety \in Machines /\ acs \in AcsType /\ SilenceBounded
    BY DEF EngineInv, GovernanceTypeOK, Machines, SafetyType, AcsType
  <2>2. acs' \in AcsType /\ SilenceBounded'
    BY <2>1, AcsStep
  <2>3. safety' \in Machines
    BY <1>2, <2>1, SafetyStep
  <2>4. GovernanceTypeOK'
    <3>1. glass' \in 0 .. GlassTicks /\ amendment' \in {NONE} \union 0 .. CoolingTicks
      BY <1>2, GlassStep DEF EngineInv
    <3> QED  BY <2>2, <2>3, <3>1 DEF GovernanceTypeOK, Machines, SafetyType, AcsType
  <2>5. 0 < glass' /\ glass' < GlassTicks => safety'.state \in {"Safe", "Chaos", "Lockdown"}
    <3>1. glass \in 0 .. GlassTicks /\ safety.state \in DOMAIN Severity /\ safety'.state \in DOMAIN Severity
      BY <2>3 DEF EngineInv, GovernanceTypeOK, Machines, SafetyType
    <3>2. CASE Tick
      BY <3>1, <3>2 DEF Tick, Recovers
    <3>3. CASE ClearEngine
      BY <3>3 DEF ClearEngine
    <3>4. CASE Activate
      BY <3>1, <3>4 DEF Activate
    <3>5. CASE glass' = glass /\ ~Tick /\ ~ClearEngine
      <4>1. SUFFICES ASSUME 0 < glass, glass < GlassTicks
                     PROVE  safety'.state \in {"Safe", "Chaos", "Lockdown"}
        BY <3>5
      <4>2. safety.state \in {"Safe", "Chaos", "Lockdown"}
        BY <4>1 DEF EngineInv, BypassNotInNormal
      <4> QED  BY <1>2, <2>1, <3>5, <4>2, SafetyStep
    <3>6. Tick \/ ClearEngine \/ Activate \/ glass' = glass
      BY <1>2 DEF GovernanceNext, ReportAnomaly, ReportAlarm, ForceLockdown, HumanConfirm, ReportSignal,
                  Heartbeat, SetAlternateExists, EvaluatePolicy, Propose, Apply
    <3> QED  BY <3>2, <3>3, <3>4, <3>5, <3>6
  <2> QED  BY <2>2, <2>4, <2>5 DEF EngineInv, BypassNotInNormal
<1> QED  BY <1>1, <1>2

(* The rules, the bypass and the second evaluation amount to the policy.   *)
LEMMA PolicyFollows == EngineInv => PolicyHolds
<1> SUFFICES ASSUME EngineInv, NEW c \in Context
             PROVE  Allowed(c) <=> \/ glass > 0
                                   \/ c.sender = BUTLER
                                   \/ /\ c.sender # 0
                                      /\ acs.state # "Emergency"
                                      /\ c.priority >= Floor[safety.state]
  BY DEF PolicyHolds
<1> USE SafetyStates
<1>1. safety.state \in DOMAIN Severity /\ acs.state \in Authority /\ glass \in Nat /\ "Chaos" \in DOMAIN Severity
  BY DEF EngineInv, GovernanceTypeOK
<1>2. c.sender \in 0 .. 2 /\ BUTLER = 1
  BY DEF Context, BUTLER
<1>3. CASE glass > 0
  BY <1>3 DEF Allowed
<1>4. CASE glass = 0
  <2>1. glass > 0 <=> FALSE
    BY <1>4
  <2>2. CASE c.sender = 1
    <3>1. FirstMatch(c, safety.state, acs.state) = "Allow"
      BY <1>1, <1>2, <2>2, Decisions
    <3> QED  BY <1>2, <2>1, <2>2, <3>1 DEF Allowed, Escalates, Permits
  <2>3. CASE c.sender = 0
    <3>1. FirstMatch(c, safety.state, acs.state) = "DenyAndLog"
      BY <1>1, <1>2, <2>3, Decisions
    <3> QED  BY <1>2, <2>1, <2>3, <3>1 DEF Allowed, Escalates, Permits
  <2>4. CASE c.sender = 2 /\ acs.state = "Emergency"
    <3>1. FirstMatch(c, "Chaos", acs.state) = "EscalateToChaos"
      BY <1>1, <2>4, Decisions
    <3>2. FirstMatch(c, safety.state, acs.state) \in {"DenyAndLog", "EscalateToChaos"}
      BY <1>1, <2>4, Decisions
    <3> QED  BY <1>2, <2>1, <2>4, <3>1, <3>2 DEF Allowed, Escalates, Permits
  <2>5. CASE c.sender = 2 /\ acs.state # "Emergency"
    <3>1. Permits(FirstMatch(c, safety.state, acs.state)) <=> c.priority >= Floor[safety.state]
      BY <1>1, <2>5, Decisions
    <3>2. FirstMatch(c, safety.state, acs.state) # "EscalateToChaos"
      BY <1>1, <2>5, Decisions
    <3> QED  BY <1>2, <2>1, <2>5, <3>1, <3>2 DEF Allowed, Escalates
  <2> QED  BY <1>2, <2>2, <2>3, <2>4, <2>5
<1> QED  BY <1>1, <1>3, <1>4

(* The type of the engine, and the two policy properties: in every         *)
(* reachable state the decision on every message is the one intended, and  *)
(* no bypass outlives the emergency.                                       *)
THEOREM PolicySoundEver == GovernanceSpec => []PolicySound
<1>1. EngineInv => PolicySound
  BY PolicyFollows DEF EngineInv, PolicySound
<1> QED  BY <1>1, EngineInit, EngineStep, PTL DEF GovernanceSpec

(* Nothing but human_confirm or clear ends a Lockdown, and the step that   *)
(* enters Emergency starts one and opens break-glass.                      *)
THEOREM EscalationSoundEver == GovernanceSpec => EscalationSound
<1> USE SafetyStates
<1>1. EngineInv /\ [GovernanceNext]_gvars =>
        [safety.state = "Lockdown" /\ safety'.state # "Lockdown" => HumanConfirm \/ ClearEngine]_gvars
  <2> SUFFICES ASSUME EngineInv, GovernanceNext, safety.state = "Lockdown", safety'.state # "Lockdown"
               PROVE  HumanConfirm \/ ClearEngine
    OBVIOUS
  <2>1. safety \in Machines /\ acs \in AcsType
    BY DEF EngineInv, GovernanceTypeOK, Machines, SafetyType, AcsType
  <2>2. ~Tick
    BY <2>1, TickedType DEF Tick
  <2> QED  BY <2>1, <2>2, SafetyStep
<1>2. EngineInv /\ [GovernanceNext]_gvars =>
        [acs.state # "Emergency" /\ acs'.state = "Emergency"
           => safety'.state = "Lockdown" /\ (glass = 0 => glass' = GlassTicks)]_gvars
  <2> SUFFICES ASSUME EngineInv, GovernanceNext, acs.state # "Emergency", acs'.state = "Emergency"
               PROVE  safety'.state = "Lockdown" /\ (glass = 0 => glass' = GlassTicks)
    OBVIOUS
  <2>1. safety \in Machines /\ acs \in AcsType
    BY DEF EngineInv, GovernanceTypeOK, Machines, SafetyType, AcsType
  <2>2. Tick
    <3>1. acs' # acs
      OBVIOUS
    <3>2. ~Heartbeat
      BY <2>1 DEF Heartbeat, AcsType
    <3>3. \A exists \in BOOLEAN : ~SetAlternateExists(exists)
      BY <2>1 DEF SetAlternateExists, AcsType
    <3>4. ~ClearEngine
      BY DEF ClearEngine, InitialAcs
    <3> QED  BY <3>1, <3>2, <3>3, <3>4
                DEF GovernanceNext, ReportAnomaly, ReportAlarm, ForceLockdown, HumanConfirm, ReportSignal,
                    Activate, Propose, Apply, EvaluatePolicy
  <2>3. safety'.state = "Lockdown"
    BY <2>1, <2>2, TickedType DEF Tick
  <2>4. glass = 0 => glass' = GlassTicks
    BY <2>2, <2>3 DEF Tick, Recovers, GlassTicked
  <2> QED  BY <2>3, <2>4
<1> QED  BY <1>1, <1>2, EngineInit, EngineStep, PTL DEF GovernanceSpec, EscalationSound, LockdownHeld, EmergencyLocks

-----------------------------------------------------------------------------
(* The signal buffer *)

(* The oldest first. *)
Descend(s) == \A i, j \in 1 .. Len(s) : i <= j => s[j].age <= s[i].age

(* Of signals in the order of their ages, a tick takes off the first ones. *)
AgedSuffixOf(s, window, t, k) ==
  /\ k \in 0 .. Len(s) /\ \A i \in 1 .. Len(s) : i <= k <=> s[i].age >= window
  /\ t \in Seq(Aging) /\ Len(t) = Len(s) - k
  /\ \A i \in 1 .. Len(t) : t[i].age = s[k + i].age + 1 /\ t[i].weight = s[k + i].weight
LEMMA AgedSuffix ==
  ASSUME NEW s \in Seq(Aging), NEW window \in Nat, Descend(s)
  PROVE  \E k : AgedSuffixOf(s, window, SignalsAged(s, window), k)
<1>1. PICK n \in Nat : n = Len(s)
  OBVIOUS
<1>2. \A i \in 1 .. n : s[i] \in Aging /\ s[i].age \in Nat
  BY <1>1, SignalOf
<1>3. PICK k \in 0 .. n : \A i \in 1 .. n : i <= k <=> s[i].age >= window
  <2> DEFINE T == {i \in 1 .. n : s[i].age >= window}
  <2>1. CASE T = {}
    <3>1. 0 \in 0 .. n /\ \A i \in 1 .. n : ~(i <= 0) /\ ~(s[i].age >= window)
      BY <2>1
    <3> QED  BY <3>1, Zenon
  <2>2. CASE T # {}
    <3>1. T \in SUBSET Nat /\ \A t \in T : t <= n
      OBVIOUS
    <3>2. PICK m \in T : \A y \in T : y <= m
      <4> HIDE DEF T
      <4> QED  BY <2>2, <3>1, GreatestNat
    <3>3. ASSUME NEW i \in 1 .. n PROVE i <= m <=> s[i].age >= window
      <4>1. m \in 1 .. n /\ s[m].age >= window /\ s[m].age \in Nat /\ s[i].age \in Nat
        BY <1>2
      <4>2. i <= m => s[m].age <= s[i].age
        BY <1>1, <4>1 DEF Descend
      <4>3. s[i].age >= window => i <= m
        <5>1. s[i].age >= window => i \in T
          OBVIOUS
        <5> HIDE DEF T
        <5> QED  BY <3>2, <5>1
      <4> QED  BY <4>1, <4>2, <4>3
    <3>4. m \in 0 .. n
      OBVIOUS
    <3> QED  BY <3>3, <3>4
  <2> QED  BY <2>1, <2>2
<1>4. PICK f : /\ f[0] = << >>
               /\ \A i \in 1 .. n :
                    f[i] = IF s[i].age < window THEN Append(f[i - 1], OneOlder(s[i])) ELSE f[i - 1]
               /\ SignalsAged(s, window) = f[n]
  BY <1>1, KeptRounds
<1> DEFINE P(i) == /\ f[i] \in Seq(Aging) /\ Len(f[i]) = (IF i <= k THEN 0 ELSE i - k)
                   /\ \A j \in 1 .. i : j > k => f[i][j - k] = OneOlder(s[j])
           T == {i \in 0 .. n : P(i)}
<1>5. 0 \in T
  <2>1. f[0] \in Seq(Aging) /\ Len(f[0]) = 0 /\ 0 <= k
    BY <1>3, <1>4
  <2> QED  BY <2>1
<1>6. ASSUME NEW i \in 1 .. n, i - 1 \in T PROVE i \in T
  <2>1. P(i - 1) /\ i \in 0 .. n
    BY <1>6
  <2>2. PICK g, h : g = f[i - 1] /\ h = f[i] /\ g \in Seq(Aging)
    BY <2>1
  <2>3. Len(g) = (IF i - 1 <= k THEN 0 ELSE i - 1 - k) /\ \A j \in 1 .. i - 1 : j > k => g[j - k] = OneOlder(s[j])
    BY <2>1, <2>2
  <2>4. CASE i <= k
    <3>1. h = g
      BY <1>2, <1>3, <1>4, <2>2, <2>4
    <3>2. Len(h) = 0 /\ \A j \in 1 .. i : ~(j > k)
      BY <2>3, <2>4, <3>1
    <3> QED  BY <2>1, <2>2, <2>4, <3>1, <3>2
  <2>5. CASE i > k
    <3>1. h = Append(g, OneOlder(s[i]))
      <4>1. ~(i <= k) /\ s[i].age \in Nat
        BY <1>2, <2>5
      <4>2. ~(s[i].age >= window)
        BY <1>3, <4>1
      <4>3. s[i].age < window
        BY <4>1, <4>2
      <4> QED  BY <1>4, <2>2, <4>3
    <3>2. OneOlder(s[i]) \in Aging
      <4>1. PICK a \in Nat, w \in Weights : s[i] = [age |-> a, weight |-> w]
        BY <1>2 DEF Aging
      <4>2. OneOlder(s[i]) = [age |-> a + 1, weight |-> w]
        BY <4>1 DEF OneOlder
      <4> QED  BY <4>2 DEF Aging
    <3>3. Len(g) = i - 1 - k
      BY <2>3, <2>5
    <3>4. /\ h \in Seq(Aging) /\ Len(h) = i - k /\ h[i - k] = OneOlder(s[i])
          /\ \A j \in 1 .. i - 1 - k : h[j] = g[j]
      BY <2>2, <3>1, <3>2, <3>3, AppendProperties
    <3>5. ASSUME NEW j \in 1 .. i, j > k PROVE h[j - k] = OneOlder(s[j])
      <4>1. CASE j = i
        BY <3>4, <4>1
      <4>2. CASE j # i
        <5>1. j \in 1 .. i - 1 /\ j - k \in 1 .. i - 1 - k
          BY <3>5, <4>2
        <5>2. h[j - k] = g[j - k]
          BY <3>4, <5>1
        <5> QED  BY <2>3, <3>5, <5>1, <5>2
      <4> QED  BY <4>1, <4>2
    <3>6. Len(h) = (IF i <= k THEN 0 ELSE i - k)
      BY <2>5, <3>4
    <3> QED  BY <2>1, <2>2, <3>4, <3>5, <3>6
  <2> QED  BY <2>4, <2>5
<1>7. P(n)
  <2>1. n \in 0 .. n
    OBVIOUS
  <2>2. n \in T
    <3> HIDE DEF T
    <3> QED  BY <1>5, <1>6, <2>1, CountUp
  <2> QED  BY <2>2
<1>8. PICK t : t = f[n] /\ t \in Seq(Aging) /\ Len(t) = n - k
  BY <1>3, <1>7
<1>9. ASSUME NEW i \in 1 .. Len(t) PROVE t[i].age = s[k + i].age + 1 /\ t[i].weight = s[k + i].weight
  <2>1. k + i \in 1 .. n /\ k + i > k /\ (k + i) - k = i
    BY <1>3, <1>8
  <2>2. t[i] = OneOlder(s[k + i])
    BY <1>7, <1>8, <2>1
  <2>3. s[k + i] \in Aging
    BY <1>2, <2>1
  <2> QED  BY <2>2, <2>3 DEF OneOlder, Aging
<1>10. AgedSuffixOf(s, window, t, k)
  BY <1>1, <1>3, <1>8, <1>9 DEF AgedSuffixOf
<1> QED  BY <1>4, <1>8, <1>10

(* The sum of a buffer grows by the weight of what is appended. *)
LEMMA SumRounds ==
  ASSUME NEW s \in Seq(Aging)
  PROVE  \E f : /\ f[0] = 0 /\ \A i \in 0 .. Len(s) : f[i] \in Nat
                /\ \A i \in 1 .. Len(s) : f[i] = f[i - 1] + s[i].weight
                /\ Sum(s) = f[Len(s)]
<1> DEFINE n == Len(s)
           IsSum(f) == f = [i \in 0 .. n |-> IF i = 0 THEN 0 ELSE f[i - 1] + s[i].weight]
           F == [p \in Nat \X (1 .. n) |-> p[1] + s[p[2]].weight]
<1>1. n \in Nat
  OBVIOUS
<1>2. \A i \in 1 .. n : s[i].weight \in Nat
  BY SignalOf
<1>3. F \in [Nat \X (1 .. n) -> Nat]
  BY <1>2
<1> HIDE DEF n
<1>4. PICK f : IsRun(f, n, Nat, 0, F)
  <2>1. 0 \in Nat
    OBVIOUS
  <2> HIDE DEF F
  <2> QED  BY <1>1, <1>3, <2>1, FiniteRun
<1>5. f \in [0 .. n -> Nat] /\ f[0] = 0
  BY <1>4 DEF IsRun
<1>6. ASSUME NEW i \in 1 .. n PROVE f[i] = f[i - 1] + s[i].weight
  <2>1. f[i - 1] \in Nat
    BY <1>1, <1>5
  <2>2. <<f[i - 1], i>> \in Nat \X (1 .. n)
    BY <2>1
  <2>3. F[<<f[i - 1], i>>] = f[i - 1] + s[i].weight
    BY <2>2
  <2>4. f[i] = F[<<f[i - 1], i>>]
    BY <1>4 DEF IsRun
  <2> QED  BY <2>3, <2>4
<1>7. IsSum(f)
  BY <1>1, <1>5, <1>6
<1>8. Sum(s) = (CHOOSE g : IsSum(g))[n]
  BY DEF Sum, Sums, n
<1>9. PICK g : IsSum(g) /\ Sum(s) = g[n]
  <2> HIDE DEF IsSum
  <2> QED  BY <1>7, <1>8
<1>10. g[0] = 0 /\ \A i \in 1 .. n : g[i] = g[i - 1] + s[i].weight
  BY <1>1, <1>9
<1>11. \A i \in 0 .. n : g[i] \in Nat
  <2>1. \A i \in 1 .. n : g[i - 1] \in Nat => g[i] \in Nat
    BY <1>2, <1>10
  <2>2. g[0] \in Nat
    BY <1>10
  <2> QED  BY <1>1, <2>1, <2>2, RunStays
<1> QED  BY <1>9, <1>10, <1>11 DEF n

LEMMA SumAppend ==
  ASSUME NEW s \in Seq(Aging), NEW x \in Aging
  PROVE  Sum(s) \in Nat /\ Sum(Append(s, x)) = Sum(s) + x.weight
<1>1. PICK n \in Nat : n = Len(s)
  OBVIOUS
<1>2. PICK t : t = Append(s, x)
  OBVIOUS
<1>3. t \in Seq(Aging) /\ Len(t) = n + 1 /\ t[n + 1] = x /\ \A i \in 1 .. n : t[i] = s[i]
  BY <1>1, <1>2, AppendProperties
<1>4. PICK f : /\ f[0] = 0 /\ \A i \in 0 .. n : f[i] \in Nat
               /\ \A i \in 1 .. n : f[i] = f[i - 1] + s[i].weight /\ Sum(s) = f[n]
               /\ Sum(s) = f[n]
  BY <1>1, SumRounds
<1>5. PICK g : /\ g[0] = 0 /\ \A i \in 1 .. n + 1 : g[i] = g[i - 1] + t[i].weight
               /\ Sum(t) = g[n + 1]
  BY <1>3, SumRounds
<1> DEFINE T == {i \in 0 .. n : g[i] = f[i]}
<1>6. 0 \in T
  BY <1>4, <1>5
<1>7. ASSUME NEW i \in 1 .. n, i - 1 \in T PROVE i \in T
  <2>1. g[i] = g[i - 1] + s[i].weight /\ g[i - 1] = f[i - 1] /\ f[i] = f[i - 1] + s[i].weight
    BY <1>3, <1>4, <1>5, <1>7
  <2> QED  BY <2>1
<1>8. n \in T
  <2>1. n \in 0 .. n
    OBVIOUS
  <2> HIDE DEF T
  <2> QED  BY <1>6, <1>7, <2>1, CountUp
<1>9. g[n] = f[n] /\ f[n] \in Nat
  BY <1>4, <1>8
<1>10. g[n + 1] = g[n] + x.weight
  <2>1. n + 1 \in 1 .. n + 1 /\ (n + 1) - 1 = n
    OBVIOUS
  <2> QED  BY <1>3, <1>5, <2>1
<1> QED  BY <1>2, <1>4, <1>5, <1>9, <1>10

(* The history R of the latest signals and the buffer B.  From some place  *)
(* on they are the same; what is before it in either is at least as old as *)
(* the latest signal that the full buffer dropped, which is of age e, and  *)
(* while that one is in the window the history is full of signals that     *)
(* were in the window when it came.                                        *)
Tracks(R, B, e, p, q) ==
  /\ Len(R) - p = Len(B) - q
  /\ \A i \in 1 .. Len(R) - p : R[p + i] = B[q + i]
  /\ \A i \in 1 .. p : R[i].age >= e
  /\ \A i \in 1 .. q : B[i].age >= e
  /\ e <= SignalWindow => Len(R) = MaxSignals /\ \A i \in 1 .. Len(R) : R[i].age <= SignalWindow + e

(* Counted from the end, the signals of the history are no older.          *)
Newer(R, B) ==
  /\ Len(B) <= Len(R) /\ Len(R) <= MaxSignals
  /\ \A i \in 1 .. Len(B) : R[Len(R) - Len(B) + i].age <= B[i].age
InOrder(s, window) == s \in Seq(Aging) /\ Descend(s) /\ \A i \in 1 .. Len(s) : s[i].age <= window
Tracked(R, B) ==
  \E e \in 0 .. SignalWindow + 1, p \in 0 .. Len(R), q \in 0 .. Len(B) : Tracks(R, B, e, p, q)
SignalInv ==
  /\ InOrder(recent, 2 * SignalWindow) /\ InOrder(safety.signals, SignalWindow)
  /\ Newer(recent, safety.signals) /\ Tracked(recent, safety.signals)

LEMMA SameSignal ==
  ASSUME NEW x \in Aging, NEW y \in Aging, x.age = y.age, x.weight = y.weight
  PROVE  x = y
<1>1. x = [age |-> x.age, weight |-> x.weight] /\ y = [age |-> y.age, weight |-> y.weight]
  BY DEF Aging
<1> QED  BY <1>1

(* A sequence t that is s without its first c, and a new signal. *)
Moved(s, x, t, c) ==
  /\ t \in Seq(Aging) /\ Len(t) = Len(s) + 1 - c
  /\ \A i \in 1 .. Len(t) : t[i] = IF i = Len(t) THEN x ELSE s[i + c]
LEMMA AppendMoves ==
  ASSUME NEW s \in Seq(Aging), NEW x \in Aging
  PROVE  Moved(s, x, Append(s, x), 0) /\ Moved(s, x, Tail(Append(s, x)), 1)
<1>1. PICK n \in Nat : n = Len(s)
  OBVIOUS
<1>2. PICK t : t = Append(s, x)
  OBVIOUS
<1>3. t \in Seq(Aging) /\ Len(t) = n + 1 /\ t[n + 1] = x /\ \A i \in 1 .. n : t[i] = s[i]
  BY <1>1, <1>2, AppendProperties
<1>4. \A i \in 1 .. n + 1 : t[i] = IF i = n + 1 THEN x ELSE s[i + 0]
  BY <1>3
<1>5. t # << >>
  BY <1>3
<1>6. PICK u : u = Tail(t) /\ u \in Seq(Aging) /\ Len(u) = n /\ \A i \in 1 .. n : u[i] = t[i + 1]
  <2>1. Tail(t) \in Seq(Aging) /\ Len(Tail(t)) = Len(t) - 1 /\ \A i \in 1 .. Len(Tail(t)) : Tail(t)[i] = t[i + 1]
    BY <1>3, <1>5, HeadTailProperties
  <2>2. Len(Tail(t)) = n
    BY <1>3, <2>1
  <2> QED  BY <2>1, <2>2
<1>7. \A i \in 1 .. n : u[i] = IF i = n THEN x ELSE s[i + 1]
  BY <1>3, <1>6
<1> QED  BY <1>1, <1>2, <1>3, <1>4, <1>6, <1>7 DEF Moved

LEMMA MovedInOrder ==
  ASSUME NEW s, NEW window \in Nat, InOrder(s, window), NEW x \in Aging, x.age = 0,
         NEW t, NEW c \in {0, 1}, Moved(s, x, t, c)
  PROVE  InOrder(t, window)
<1>1. s \in Seq(Aging) /\ t \in Seq(Aging) /\ Descend(s)
  BY DEF InOrder, Moved
<1>2. PICK n \in Nat, m \in Nat : n = Len(s) /\ m = Len(t) /\ m = n + 1 - c
  BY <1>1 DEF Moved
<1>3. \A i \in 1 .. n : s[i].age \in Nat /\ s[i].age <= window
  BY <1>1, <1>2, SignalOf DEF InOrder
<1>4. \A i \in 1 .. m : t[i] = IF i = m THEN x ELSE s[i + c]
  BY <1>2 DEF Moved
<1>5. \A i \in 1 .. m : i # m => i + c \in 1 .. n
  BY <1>2
<1>6. \A i \in 1 .. m : t[i].age <= window
  BY <1>3, <1>4, <1>5
<1>7. ASSUME NEW i \in 1 .. m, NEW j \in 1 .. m, i <= j PROVE t[j].age <= t[i].age
  <2>1. CASE j = m
    <3>1. t[j].age = 0
      BY <1>4, <2>1
    <3>2. CASE i = m
      BY <2>1, <3>1, <3>2
    <3>3. CASE i # m
      <4>1. t[i] = s[i + c] /\ i + c \in 1 .. n
        BY <1>4, <1>5, <3>3
      <4>2. t[i].age \in Nat
        BY <1>3, <4>1
      <4> QED  BY <3>1, <4>2
    <3> QED  BY <3>2, <3>3
  <2>2. CASE j # m
    <3>1. i # m
      BY <1>7, <2>2
    <3>2. t[i] = s[i + c] /\ t[j] = s[j + c] /\ i + c \in 1 .. n /\ j + c \in 1 .. n /\ i + c <= j + c
      BY <1>4, <1>5, <1>7, <2>2, <3>1
    <3> QED  BY <1>1, <1>2, <3>2 DEF Descend
  <2> QED  BY <2>1, <2>2
<1> QED  BY <1>1, <1>2, <1>6, <1>7 DEF InOrder, Descend

(* A signal that finds room is in both. *)
LEMMA StoredTracked ==
  ASSUME NEW R \in Seq(Aging), NEW B \in Seq(Aging), Newer(R, B), Tracked(R, B), Len(B) < MaxSignals,
         NEW x \in Aging, x.age = 0, NEW c \in {0, 1}, c = 1 <=> Len(R) = MaxSignals,
         NEW S, Moved(R, x, S, c), NEW C, Moved(B, x, C, 0)
  PROVE  Newer(S, C) /\ Tracked(S, C)
<1>1. PICK n \in Nat, m \in Nat, max \in Nat, w \in Nat :
        n = Len(R) /\ m = Len(B) /\ max = MaxSignals /\ w = SignalWindow /\ m <= n /\ n <= max /\ m < max
  BY TimesAssumption DEF Newer
<1>2. /\ \A i \in 1 .. n : R[i].age \in Nat
      /\ \A i \in 1 .. m : B[i].age \in Nat /\ R[n - m + i].age <= B[i].age
  BY <1>1, SignalOf DEF Newer
<1>3. PICK e, p, q : /\ e \in 0 .. w + 1 /\ p \in 0 .. n /\ q \in 0 .. m
                     /\ n - p = m - q
                     /\ \A i \in 1 .. n - p : R[p + i] = B[q + i]
                     /\ \A i \in 1 .. p : R[i].age >= e
                     /\ \A i \in 1 .. q : B[i].age >= e
                     /\ e <= w => n = max /\ \A i \in 1 .. n : R[i].age <= w + e
  BY <1>1 DEF Tracked, Tracks
<1>15. p \in Nat /\ q \in Nat /\ e \in Nat /\ p <= n /\ q <= m /\ n - p = m - q /\ c \in Nat /\ c <= 1
  BY <1>1, <1>3
<1>4. /\ Len(S) = n + 1 - c /\ Len(C) = m + 1
      /\ \A i \in 1 .. n + 1 - c : S[i] = IF i = n + 1 - c THEN x ELSE R[i + c]
      /\ \A i \in 1 .. m + 1 : C[i] = IF i = m + 1 THEN x ELSE B[i]
  <2>1. \A i \in 1 .. m + 1 : i + 0 = i
    OBVIOUS
  <2> QED  BY <1>1, <2>1 DEF Moved
<1>5. c = 1 => n = max
  BY <1>1
<1>6. p - c \in 0 .. n + 1 - c /\ q \in 0 .. m + 1 /\ m + 1 <= n + 1 - c /\ n + 1 - c <= max
  BY <1>1, <1>3, <1>5
<1>7. Newer(S, C)
  <2>1. ASSUME NEW i \in 1 .. m + 1 PROVE S[(n + 1 - c) - (m + 1) + i].age <= C[i].age
    <3>1. CASE i = m + 1
      <4>1. (n + 1 - c) - (m + 1) + i = n + 1 - c /\ n + 1 - c \in 1 .. n + 1 - c
        BY <1>1, <1>6, <3>1
      <4>2. S[n + 1 - c] = x /\ C[i] = x
        BY <1>4, <3>1, <4>1
      <4> QED  BY <4>1, <4>2
    <3>2. CASE i # m + 1
      <4>4. (n + 1 - c) - (m + 1) + i \in Int
        BY <1>15
      <4>1. PICK j \in Int : j = (n + 1 - c) - (m + 1) + i
        BY <4>4, Zenon
      <4>3. j \in 1 .. n + 1 - c /\ j # n + 1 - c /\ j + c = n - m + i
        BY <1>1, <1>6, <1>15, <3>2, <4>1, SMTT(20)
      <4>2. S[j] = R[n - m + i] /\ C[i] = B[i] /\ i \in 1 .. m
        BY <1>4, <3>2, <4>3
      <4> QED  BY <1>2, <4>1, <4>2
    <3> QED  BY <3>1, <3>2
  <2> QED  BY <1>1, <1>4, <1>6, <2>1 DEF Newer
<1>8. (n + 1 - c) - (p - c) = (m + 1) - q /\ (n + 1 - c) - (p - c) = n - p + 1
  BY <1>1, <1>15
<1>9. ASSUME NEW i \in 1 .. n - p + 1 PROVE S[p - c + i] = C[q + i]
  <2>1. CASE i = n - p + 1
    <3>1. p - c + i = n + 1 - c /\ q + i = m + 1 /\ n + 1 - c \in 1 .. n + 1 - c /\ m + 1 \in 1 .. m + 1
      BY <1>1, <1>6, <1>15, <2>1
    <3>2. S[n + 1 - c] = x /\ C[m + 1] = x
      BY <1>4, <3>1
    <3> QED  BY <3>1, <3>2
  <2>2. CASE i # n - p + 1
    <3>4. i \in 1 .. n - p
      BY <1>1, <1>15, <2>2
    <3>1. i \in 1 .. n - p /\ R[p + i] = B[q + i]
      BY <1>3, <3>4
    <3>2. PICK j : j = p - c + i /\ j \in 1 .. n + 1 - c /\ j # n + 1 - c /\ j + c = p + i
      BY <1>3, <1>6, <3>1
    <3>3. q + i \in 1 .. m + 1 /\ q + i # m + 1
      BY <1>1, <1>15, <3>4
    <3> QED  BY <1>4, <3>1, <3>2, <3>3
  <2> QED  BY <2>1, <2>2
<1>10. ASSUME NEW i \in 1 .. p - c PROVE S[i].age >= e
  <2>1. i \in 1 .. n + 1 - c /\ i # n + 1 - c /\ i + c \in 1 .. p
    BY <1>3, <1>6
  <2> QED  BY <1>3, <1>4, <2>1
<1>11. ASSUME NEW i \in 1 .. q PROVE C[i].age >= e
  <2>1. i \in 1 .. m + 1 /\ i # m + 1
    BY <1>3
  <2> QED  BY <1>3, <1>4, <2>1
<1>12. ASSUME e <= w PROVE n + 1 - c = max /\ \A i \in 1 .. n + 1 - c : S[i].age <= w + e
  <2>1. n = max /\ c = 1
    BY <1>1, <1>3, <1>12
  <2>2. ASSUME NEW i \in 1 .. n PROVE S[i].age <= w + e
    <3>1. CASE i = n
      BY <1>3, <1>4, <2>1, <3>1
    <3>2. CASE i # n
      <4>1. i + 1 \in 1 .. n /\ S[i] = R[i + 1]
        BY <1>4, <2>1, <3>2
      <4> QED  BY <1>3, <1>12, <4>1
    <3> QED  BY <3>1, <3>2
  <2> QED  BY <2>1, <2>2
<1>13. Tracks(S, C, e, p - c, q)
  BY <1>1, <1>4, <1>8, <1>9, <1>10, <1>11, <1>12 DEF Tracks
<1>14. e \in 0 .. SignalWindow + 1 /\ p - c \in 0 .. Len(S) /\ q \in 0 .. Len(C)
  BY <1>1, <1>3, <1>4, <1>6
<1> QED  BY <1>7, <1>13, <1>14 DEF Tracked

(* A signal that a full buffer drops is in the history only. *)
LEMMA DroppedTracked ==
  ASSUME NEW R \in Seq(Aging), NEW B, InOrder(B, SignalWindow), Descend(R), Newer(R, B), Len(B) >= MaxSignals,
         NEW x \in Aging, x.age = 0, NEW S, Moved(R, x, S, 1)
  PROVE  Newer(S, B) /\ Tracked(S, B)
<1>1. PICK n \in Nat, w \in Nat :
        n = Len(R) /\ n = Len(B) /\ n = MaxSignals /\ w = SignalWindow
  <2>1. B \in Seq(Aging) /\ Len(B) \in Nat /\ Len(R) \in Nat
    BY DEF InOrder
  <2> QED  BY <2>1, TimesAssumption DEF Newer
<1>2. \A i \in 1 .. n : /\ R[i].age \in Nat /\ B[i].age \in Nat /\ R[i].age <= B[i].age /\ B[i].age <= w
  <2>1. \A i \in 1 .. n : R[i].age \in Nat /\ B[i].age \in Nat /\ B[i].age <= w
    BY <1>1, SignalOf DEF InOrder
  <2>2. \A i \in 1 .. n : n - n + i = i
    OBVIOUS
  <2> QED  BY <1>1, <2>1, <2>2 DEF Newer
<1>3. Len(S) = n /\ \A i \in 1 .. n : S[i] = IF i = n THEN x ELSE R[i + 1]
  BY <1>1 DEF Moved
<1>4. \A i \in 1 .. n : S[i].age \in Nat /\ S[i].age <= B[i].age /\ S[i].age <= w
  <2> TAKE i \in 1 .. n
  <2>1. CASE i = n
    BY <1>2, <1>3, <2>1
  <2>2. CASE i # n
    <3>1. i + 1 \in 1 .. n /\ S[i] = R[i + 1] /\ R[i + 1].age <= R[i].age
      BY <1>1, <1>3, <2>2 DEF Descend
    <3> QED  BY <1>2, <3>1
  <2> QED  BY <2>1, <2>2
<1>5. \A i \in 1 .. n : n - n + i = i
  OBVIOUS
<1>6. Newer(S, B)
  BY <1>1, <1>3, <1>4, <1>5 DEF Newer
<1>7. Tracks(S, B, 0, n, n)
  <2>1. \A i \in 1 .. n - n : FALSE
    OBVIOUS
  <2>2. \A i \in 1 .. n : S[i].age >= 0 /\ B[i].age >= 0 /\ S[i].age <= w + 0
    BY <1>2, <1>4
  <2> QED  BY <1>1, <1>3, <2>1, <2>2 DEF Tracks
<1>8. 0 \in 0 .. SignalWindow + 1 /\ n \in 0 .. Len(S) /\ n \in 0 .. Len(B)
  BY <1>1, <1>3
<1> QED  BY <1>6, <1>7, <1>8 DEF Tracked

(* A tick takes signals off the front of both. *)
LEMMA AgedInOrder ==
  ASSUME NEW s, NEW window \in Nat, InOrder(s, window)
  PROVE  InOrder(SignalsAged(s, window), window)
<1>1. s \in Seq(Aging) /\ Descend(s)
  BY DEF InOrder
<1>2. PICK t, k : t = SignalsAged(s, window) /\ AgedSuffixOf(s, window, t, k)
  BY <1>1, AgedSuffix
<1>3. PICK n \in Nat, m \in Nat : n = Len(s) /\ m = Len(t) /\ k \in 0 .. n /\ m = n - k
  BY <1>1, <1>2 DEF AgedSuffixOf
<1>4. /\ t \in Seq(Aging) /\ \A i \in 1 .. n : i <= k <=> s[i].age >= window
      /\ \A i \in 1 .. m : t[i].age = s[k + i].age + 1
  BY <1>2, <1>3 DEF AgedSuffixOf
<1>5. \A i \in 1 .. n : s[i].age \in Nat
  BY <1>1, <1>3, SignalOf
<1>6. \A i \in 1 .. m : k + i \in 1 .. n /\ ~(k + i <= k)
  BY <1>3
<1>7. ASSUME NEW i \in 1 .. m PROVE t[i].age <= window
  <2>1. ~(s[k + i].age >= window) /\ s[k + i].age \in Nat
    BY <1>4, <1>5, <1>6
  <2> QED  BY <1>4, <2>1
<1>8. ASSUME NEW i \in 1 .. m, NEW j \in 1 .. m, i <= j PROVE t[j].age <= t[i].age
  <2>1. k + i \in 1 .. n /\ k + j \in 1 .. n /\ k + i <= k + j
    BY <1>3, <1>6, <1>8
  <2>2. s[k + j].age <= s[k + i].age /\ s[k + j].age \in Nat /\ s[k + i].age \in Nat
    BY <1>1, <1>3, <1>5, <2>1 DEF Descend
  <2> QED  BY <1>4, <2>2
<1> QED  BY <1>2, <1>3, <1>4, <1>7, <1>8 DEF InOrder, Descend

LEMMA AgedTracked ==
  ASSUME NEW R, NEW B, InOrder(R, 2 * SignalWindow), InOrder(B, SignalWindow), Newer(R, B), Tracked(R, B),
         NEW S, S = SignalsAged(R, 2 * SignalWindow), NEW C, C = SignalsAged(B, SignalWindow)
  PROVE  Newer(S, C) /\ Tracked(S, C)
<1>1. PICK w \in Nat, w2 \in Nat : w = SignalWindow /\ w2 = 2 * SignalWindow /\ w2 = w + w
  BY TimesAssumption
<1>2. R \in Seq(Aging) /\ B \in Seq(Aging) /\ Descend(R) /\ Descend(B)
  BY DEF InOrder
<1>3. PICK a, b : AgedSuffixOf(R, w2, S, a) /\ AgedSuffixOf(B, w, C, b)
  BY <1>1, <1>2, AgedSuffix
<1>4. PICK n \in Nat, m \in Nat, max \in Nat :
        n = Len(R) /\ m = Len(B) /\ max = MaxSignals /\ m <= n /\ n <= max
  BY <1>2, TimesAssumption DEF Newer
<1>5. a \in Nat /\ b \in Nat /\ a <= n /\ b <= m /\ Len(S) = n - a /\ Len(C) = m - b
  BY <1>3, <1>4 DEF AgedSuffixOf
<1>6. S \in Seq(Aging) /\ C \in Seq(Aging)
  BY <1>3 DEF AgedSuffixOf
<1>7. /\ \A i \in 1 .. n - a : S[i].age = R[a + i].age + 1 /\ S[i].weight = R[a + i].weight
      /\ \A i \in 1 .. m - b : C[i].age = B[b + i].age + 1 /\ C[i].weight = B[b + i].weight
  BY <1>3, <1>5 DEF AgedSuffixOf
<1>8. /\ \A i \in 1 .. n : i <= a <=> R[i].age >= w2
      /\ \A i \in 1 .. m : i <= b <=> B[i].age >= w
  BY <1>3, <1>4 DEF AgedSuffixOf
<1>9. /\ \A i \in 1 .. n : R[i].age \in Nat
      /\ \A i \in 1 .. m : B[i].age \in Nat /\ R[n - m + i].age <= B[i].age
  BY <1>2, <1>4, SignalOf DEF Newer
<1>10. m - b <= n - a
  <2> SUFFICES ASSUME a > (n - m) + b PROVE FALSE
    BY <1>4, <1>5
  <2>1. PICK i \in Nat : i = a - (n - m)
    <3>1. a - (n - m) \in Nat
      BY <1>4, <1>5
    <3> QED  BY <3>1, Zenon
  <2>2. i \in 1 .. m /\ ~(i <= b) /\ n - m + i = a /\ a \in 1 .. n /\ a <= a
    BY <1>4, <1>5, <2>1
  <2>3. ~(B[i].age >= w) /\ R[a].age >= w2 /\ R[a].age <= B[i].age /\ B[i].age \in Nat /\ R[a].age \in Nat
    BY <1>8, <1>9, <2>2
  <2> QED  BY <1>1, <2>3
<1>11. Newer(S, C)
  <2>1. ASSUME NEW i \in 1 .. m - b PROVE S[(n - a) - (m - b) + i].age <= C[i].age
    <3>1. PICK j \in Int : j = (n - a) - (m - b) + i
      <4>1. (n - a) - (m - b) + i \in Int
        BY <1>4, <1>5
      <4> QED  BY <4>1, Zenon
    <3>2. j \in 1 .. n - a /\ a + j = n - m + (b + i) /\ b + i \in 1 .. m /\ a + j \in 1 .. n
      BY <1>4, <1>5, <1>10, <3>1
    <3>3. R[a + j].age <= B[b + i].age /\ R[a + j].age \in Nat /\ B[b + i].age \in Nat
      BY <1>9, <3>2
    <3>4. S[j].age = R[a + j].age + 1 /\ C[i].age = B[b + i].age + 1
      BY <1>7, <3>2
    <3> QED  BY <3>1, <3>3, <3>4
  <2>2. n - a <= max
    BY <1>4, <1>5
  <2> QED  BY <1>4, <1>5, <1>10, <2>1, <2>2 DEF Newer
<1>12. PICK e, p, q : /\ e \in 0 .. w + 1 /\ p \in 0 .. n /\ q \in 0 .. m
                      /\ n - p = m - q
                      /\ \A i \in 1 .. n - p : R[p + i] = B[q + i]
                      /\ \A i \in 1 .. p : R[i].age >= e
                      /\ \A i \in 1 .. q : B[i].age >= e
                      /\ e <= w => n = max /\ \A i \in 1 .. n : R[i].age <= w + e
  BY <1>1, <1>4 DEF Tracked, Tracks
<1>13. p \in Nat /\ q \in Nat /\ e \in Nat /\ p <= n /\ q <= m /\ n - p = m - q /\ e <= w + 1
  BY <1>1, <1>12
<1>14. PICK f \in Nat : f = (IF e >= w THEN w + 1 ELSE e + 1) /\ f <= e + 1 /\ f <= w + 1
  <2>1. (IF e >= w THEN w + 1 ELSE e + 1) \in Nat
    BY <1>1, <1>13
  <2>2. PICK f \in Nat : f = (IF e >= w THEN w + 1 ELSE e + 1)
    BY <2>1, Zenon
  <2> QED  BY <1>13, <2>2
(* d more than the q that differed have left the buffer. *)
<1>15. PICK d \in Nat : d = (IF b <= q THEN 0 ELSE b - q)
  <2>1. (IF b <= q THEN 0 ELSE b - q) \in Nat
    BY <1>5, <1>13
  <2> QED  BY <2>1, Zenon
<1>16. PICK x \in Int, y \in Nat : x = p + d - a /\ y = q + d - b
  <2>1. p + d - a \in Int /\ q + d - b \in Nat
    BY <1>5, <1>13, <1>15
  <2> QED  BY <2>1, Zenon
<1>17. x \in 0 .. n - a /\ y \in 0 .. m - b /\ (n - a) - x = (m - b) - y
  BY <1>4, <1>5, <1>10, <1>13, <1>15, <1>16
<1>18. ASSUME NEW i \in 1 .. (n - a) - x PROVE S[x + i] = C[y + i]
  <2>1. x + i \in 1 .. n - a /\ y + i \in 1 .. m - b /\ d + i \in 1 .. n - p
    BY <1>4, <1>5, <1>13, <1>15, <1>16, <1>17
  <2>2. a + (x + i) = p + (d + i) /\ b + (y + i) = q + (d + i)
    BY <1>5, <1>13, <1>16
  <2>3. R[a + (x + i)] = B[b + (y + i)]
    BY <1>12, <2>1, <2>2
  <2>4. S[x + i].age = C[y + i].age /\ S[x + i].weight = C[y + i].weight
    BY <1>7, <2>1, <2>3
  <2>5. S[x + i] \in Aging /\ C[y + i] \in Aging
    BY <1>5, <1>6, <2>1
  <2> QED  BY <2>4, <2>5, SameSignal
<1>19. ASSUME NEW i \in 1 .. x PROVE S[i].age >= f
  <2>1. i \in 1 .. n - a /\ a + i \in 1 .. n /\ a + i <= p + d
    BY <1>4, <1>5, <1>13, <1>16, <1>17
  <2>2. S[i].age = R[a + i].age + 1 /\ R[a + i].age \in Nat
    BY <1>7, <1>9, <2>1
  <2>3. CASE a + i <= p
    <3>1. R[a + i].age >= e
      BY <1>12, <2>1, <2>3
    <3> QED  BY <1>13, <1>14, <2>2, <3>1
  <2>4. CASE a + i > p
    <3>1. PICK j \in Nat : j = a + i - p
      <4>1. a + i - p \in Nat
        BY <1>5, <1>13, <2>4
      <4> QED  BY <4>1, Zenon
    <3>2. j \in 1 .. n - p /\ p + j = a + i /\ q + j \in 1 .. m /\ q + j <= b
      BY <1>4, <1>5, <1>13, <1>15, <2>1, <2>4, <3>1
    <3>3. R[a + i] = B[q + j] /\ B[q + j].age >= w
      BY <1>8, <1>12, <3>2
    <3> QED  BY <1>1, <1>14, <2>2, <3>3
  <2> QED  BY <1>5, <1>13, <2>3, <2>4
<1>20. ASSUME NEW i \in 1 .. y PROVE C[i].age >= f
  <2>1. i \in 1 .. m - b /\ b + i \in 1 .. q /\ b + i \in 1 .. m
    BY <1>4, <1>5, <1>13, <1>15, <1>16, <1>17
  <2>2. C[i].age = B[b + i].age + 1 /\ B[b + i].age >= e /\ B[b + i].age \in Nat
    BY <1>7, <1>9, <1>12, <2>1
  <2> QED  BY <1>13, <1>14, <2>2
<1>21. ASSUME f <= w PROVE n - a = max /\ \A i \in 1 .. n - a : S[i].age <= w + f
  <2>1. e < w /\ f = e + 1
    BY <1>1, <1>13, <1>14, <1>21
  <2>2. n = max /\ \A i \in 1 .. n : R[i].age <= w + e
    BY <1>1, <1>12, <1>13, <2>1
  <2>3. a = 0
    <3> SUFFICES ASSUME a > 0 PROVE FALSE
      BY <1>5
    <3>1. a \in 1 .. n /\ a <= a
      BY <1>5
    <3>2. R[a].age >= w2 /\ R[a].age <= w + e /\ R[a].age \in Nat
      BY <1>8, <1>9, <2>2, <3>1
    <3> QED  BY <1>1, <1>13, <2>1, <3>2
  <2>4. \A i \in 1 .. n : S[i].age = R[i].age + 1
    <3>1. \A i \in 1 .. n : a + i = i /\ i \in 1 .. n - a
      BY <2>3
    <3> QED  BY <1>7, <3>1
  <2>5. ASSUME NEW i \in 1 .. n PROVE S[i].age <= w + f
    <3>1. R[i].age <= w + e /\ R[i].age \in Nat /\ S[i].age = R[i].age + 1
      BY <1>9, <2>2, <2>4
    <3> QED  BY <1>13, <2>1, <3>1
  <2> QED  BY <2>2, <2>3, <2>5
<1>22. Tracks(S, C, f, x, y)
  BY <1>1, <1>4, <1>5, <1>17, <1>18, <1>19, <1>20, <1>21 DEF Tracks
<1>23. f \in 0 .. SignalWindow + 1 /\ x \in 0 .. Len(S) /\ y \in 0 .. Len(C)
  BY <1>1, <1>5, <1>14, <1>17
<1> QED  BY <1>11, <1>22, <1>23 DEF Tracked

(* The buffer and the history start empty and agree. *)
LEMMA EmptyTracked ==
  ASSUME NEW R, NEW B, R = << >>, B = << >>
  PROVE  InOrder(R, 2 * SignalWindow) /\ InOrder(B, SignalWindow) /\ Newer(R, B) /\ Tracked(R, B)
<1>1. PICK w \in Nat, max \in Nat : w = SignalWindow /\ max = MaxSignals
  BY TimesAssumption
<1>2. R \in Seq(Aging) /\ B \in Seq(Aging) /\ Len(R) = 0 /\ Len(B) = 0
  OBVIOUS
<1>3. Tracks(R, B, w + 1, 0, 0) /\ Newer(R, B)
  BY <1>1, <1>2 DEF Tracks, Newer
<1>4. w + 1 \in 0 .. SignalWindow + 1 /\ 0 \in 0 .. Len(R) /\ 0 \in 0 .. Len(B)
  BY <1>1, <1>2
<1> QED  BY <1>2, <1>3, <1>4 DEF InOrder, Descend, Tracked

LEMMA SignalStart == GovernanceInit => SignalInv
<1> SUFFICES ASSUME GovernanceInit PROVE SignalInv
  OBVIOUS
<1>1. recent = << >> /\ safety.signals = << >>
  BY DEF GovernanceInit, InitialSafety
<1> QED  BY <1>1, EmptyTracked DEF SignalInv

(* Transitions leave the buffer alone. *)
LEMMA SignalsStay ==
  ASSUME NEW s \in Machines
  PROVE  /\ \A new : TransitionTo(s, new).signals = s.signals
         /\ Escalated(s).signals = s.signals
         /\ \A x : [s EXCEPT !.signals = x].signals = x
<1>1. \A new : [s EXCEPT !.state = new, !.age = 0].signals = s.signals
  BY DEF Machines, SafetyType
<1>2. \A new : TransitionTo(s, new).signals = s.signals
  BY <1>1 DEF TransitionTo
<1>3. \A new \in DOMAIN Severity : [TransitionTo(s, new) EXCEPT !.cooldown = 0].signals = TransitionTo(s, new).signals
  <2> TAKE new \in DOMAIN Severity
  <2>1. TransitionTo(s, new) \in Machines
    BY TransitionToType
  <2> QED  BY <2>1 DEF Machines, SafetyType
<1>4. Escalated(s).signals = s.signals
  BY <1>2, <1>3, SafetyStates DEF Escalated
<1>5. \A x : [s EXCEPT !.signals = x].signals = x
  BY DEF Machines, SafetyType
<1> QED  BY <1>2, <1>4, <1>5

(* A light signal comes. *)
LEMMA ReportTracked ==
  ASSUME SignalInv, safety \in Machines, NEW weight \in Weights, ReportSignal(weight)
  PROVE  SignalInv'
<1>1. CASE weight >= InstantThreshold /\ safety' = Escalated(safety) /\ UNCHANGED recent
  <2>1. safety'.signals = safety.signals /\ recent' = recent
    BY <1>1, SignalsStay
  <2> QED  BY <2>1 DEF SignalInv
<1>2. CASE weight < InstantThreshold
  <2>1. PICK x : x = [age |-> 0, weight |-> weight] /\ x \in Aging /\ x.age = 0
    <3>1. [age |-> 0, weight |-> weight] \in Aging
      BY DEF Aging
    <3> QED  BY <3>1
  <2>2. PICK B, C : B = safety.signals /\ C = Store(B, weight)
    OBVIOUS
  <2>3. PICK R, S : R = recent /\ S = Remembered(weight)
    OBVIOUS
  <2>4. /\ InOrder(R, 2 * SignalWindow) /\ InOrder(B, SignalWindow) /\ Newer(R, B) /\ Tracked(R, B)
        /\ R \in Seq(Aging) /\ B \in Seq(Aging)
    BY <2>2, <2>3 DEF SignalInv, InOrder
  <2>5. C = IF Len(B) < MaxSignals THEN Append(B, x) ELSE B
    BY <2>1, <2>2 DEF Store
  <2>6. S = IF Len(Append(R, x)) > MaxSignals THEN Tail(Append(R, x)) ELSE Append(R, x)
    BY <2>1, <2>3 DEF Remembered
  <2>7. PICK c \in {0, 1} : (c = 1 <=> Len(R) = MaxSignals) /\ Moved(R, x, S, c)
    <3>1. Len(Append(R, x)) = Len(R) + 1 /\ Len(R) \in Nat /\ Len(R) <= MaxSignals /\ MaxSignals \in Nat
      BY <2>1, <2>4, TimesAssumption DEF Newer
    <3>2. Moved(R, x, Append(R, x), 0) /\ Moved(R, x, Tail(Append(R, x)), 1)
      BY <2>1, <2>4, AppendMoves
    <3>3. CASE Len(R) = MaxSignals
      <4>1. S = Tail(Append(R, x))
        BY <2>6, <3>1, <3>3
      <4> QED  BY <3>2, <3>3, <4>1
    <3>4. CASE Len(R) # MaxSignals
      <4>1. S = Append(R, x)
        BY <2>6, <3>1, <3>4
      <4> QED  BY <3>2, <3>4, <4>1
    <3> QED  BY <3>3, <3>4
  <2>8. InOrder(S, 2 * SignalWindow)
    <3>1. 2 * SignalWindow \in Nat
      BY TimesAssumption
    <3> QED  BY <2>1, <2>4, <2>7, <3>1, MovedInOrder
  <2>9. InOrder(C, SignalWindow) /\ Newer(S, C) /\ Tracked(S, C)
    <3>1. CASE Len(B) < MaxSignals
      <4>1. C = Append(B, x) /\ Moved(B, x, C, 0)
        BY <2>1, <2>4, <2>5, <3>1, AppendMoves
      <4>2. InOrder(C, SignalWindow)
        BY <2>1, <2>4, <4>1, MovedInOrder, TimesAssumption
      <4>3. Newer(S, C) /\ Tracked(S, C)
        BY <2>1, <2>4, <2>7, <3>1, <4>1, StoredTracked
      <4> QED  BY <4>2, <4>3
    <3>2. CASE ~(Len(B) < MaxSignals)
      <4>1. C = B /\ Len(B) >= MaxSignals /\ Len(R) = MaxSignals /\ c = 1
        <5>1. Len(B) \in Nat /\ Len(R) \in Nat /\ Len(B) <= Len(R) /\ Len(R) <= MaxSignals /\ MaxSignals \in Nat
          BY <2>4, TimesAssumption DEF Newer
        <5> QED  BY <2>5, <2>7, <3>2, <5>1
      <4>2. Newer(S, B) /\ Tracked(S, B)
        <5>1. Descend(R) /\ Moved(R, x, S, 1)
          BY <2>4, <2>7, <4>1 DEF InOrder
        <5> QED  BY <2>1, <2>4, <4>1, <5>1, DroppedTracked
      <4> QED  BY <2>4, <4>1, <4>2
    <3> QED  BY <3>1, <3>2
  <2>10. PICK due, stored :
           /\ due \in BOOLEAN /\ stored = [safety EXCEPT !.signals = C]
           /\ safety' = IF due THEN [Escalated(stored) EXCEPT !.signals = << >>] ELSE stored
           /\ recent' = IF due THEN << >> ELSE S
    <3>1. PICK stored : stored = [safety EXCEPT !.signals = Store(@, weight)]
      OBVIOUS
    <3>2. stored = [safety EXCEPT !.signals = C]
      BY <2>2, <3>1
    <3>3. PICK due \in BOOLEAN : due <=> Reached(stored, Sum(stored.signals)) /\ stored.cooldown >= Cooldown
      OBVIOUS
    <3>4. ~(weight >= InstantThreshold)
      BY <1>2, TimesAssumption
    <3>5. /\ safety' = IF due THEN [Escalated(stored) EXCEPT !.signals = << >>] ELSE stored
          /\ recent' = IF due THEN << >> ELSE Remembered(weight)
      BY <3>1, <3>3, <3>4 DEF ReportSignal
    <3> QED  BY <2>3, <3>2, <3>5
  <2>11. stored \in Machines /\ stored.signals = C
    <3>1. C \in Seq(Signal) /\ Len(C) <= MaxSignals
      <4>1. B \in Seq(Signal) /\ Len(B) \in Nat /\ Len(B) <= MaxSignals /\ MaxSignals \in Nat
        BY <2>2, TimesAssumption DEF Machines, SafetyType
      <4>2. x \in Signal
        BY <2>1, TimesAssumption DEF Signal
      <4> QED  BY <2>5, <4>1, <4>2
    <3> QED  BY <2>10, <3>1, SignalsStay DEF Machines, SafetyType
  <2>12. CASE due
    <3>1. Escalated(stored) \in Machines
      BY <2>11, EscalatedType
    <3>2. safety'.signals = << >> /\ recent' = << >>
      BY <2>10, <2>12, <3>1, SignalsStay
    <3> QED  BY <3>2, EmptyTracked DEF SignalInv
  <2>13. CASE ~due
    <3>1. safety'.signals = C /\ recent' = S
      BY <2>10, <2>11, <2>13
    <3> QED  BY <2>8, <2>9, <3>1 DEF SignalInv
  <2> QED  BY <2>12, <2>13
<1> QED  BY <1>1, <1>2 DEF ReportSignal

(* Every step keeps buffer and history in step. *)
LEMMA SignalStep == EngineInv /\ SignalInv /\ [GovernanceNext]_gvars => SignalInv'
<1> SUFFICES ASSUME EngineInv, SignalInv, [GovernanceNext]_gvars PROVE SignalInv'
  OBVIOUS
<1>1. safety \in Machines
  BY DEF EngineInv, GovernanceTypeOK, Machines, SafetyType
<1>2. CASE UNCHANGED <<safety, recent>>
  BY <1>2 DEF SignalInv
<1>3. ASSUME safety'.signals = safety.signals, recent' = recent PROVE SignalInv'
  BY <1>3 DEF SignalInv
<1>4. CASE ReportAnomaly
  <2> DEFINE fresh == IF safety.window >= AnomalyWindow
                      THEN [safety EXCEPT !.anomalies = 0, !.window = 0] ELSE safety
             more == [fresh EXCEPT !.anomalies = Counted(@, AnomalyBurst)]
  <2>1. fresh.signals = safety.signals /\ DOMAIN fresh = DOMAIN safety
    BY <1>1 DEF Machines, SafetyType
  <2>2. DOMAIN safety = {"state", "age", "anomalies", "window", "alarms", "signals", "cooldown"}
    BY <1>1 DEF Machines, SafetyType
  <2>3. more.signals = fresh.signals
    OBVIOUS
  <2>4. safety' = IF more.state = "Normal" /\ more.anomalies >= AnomalyBurst
                  THEN [TransitionTo(more, "Elevated") EXCEPT !.anomalies = 0] ELSE more
    BY <1>4 DEF ReportAnomaly
  <2> HIDE DEF fresh, more
  <2>5. [TransitionTo(more, "Elevated") EXCEPT !.anomalies = 0].signals = more.signals
    BY DEF TransitionTo
  <2>6. safety'.signals = safety.signals /\ recent' = recent
    BY <1>4, <2>1, <2>3, <2>4, <2>5 DEF ReportAnomaly
  <2> QED  BY <1>3, <2>6
<1>5. CASE ReportAlarm
  <2> DEFINE more == [safety EXCEPT !.alarms = Counted(@, AlarmBurst)]
  <2>1. more.signals = safety.signals
    OBVIOUS
  <2>2. safety' = IF more.state = "Elevated" /\ more.alarms >= AlarmBurst
                  THEN [TransitionTo(more, "Chaos") EXCEPT !.alarms = 0] ELSE more
    BY <1>5 DEF ReportAlarm
  <2> HIDE DEF more
  <2>3. [TransitionTo(more, "Chaos") EXCEPT !.alarms = 0].signals = more.signals
    BY DEF TransitionTo
  <2>4. safety'.signals = safety.signals /\ recent' = recent
    BY <1>5, <2>1, <2>2, <2>3 DEF ReportAlarm
  <2> QED  BY <1>3, <2>4
<1>6. CASE ForceLockdown \/ HumanConfirm \/ \E c \in Context : EvaluatePolicy(c)
  <2>1. safety'.signals = safety.signals /\ recent' = recent
    BY <1>1, <1>6, SignalsStay DEF ForceLockdown, HumanConfirm, EvaluatePolicy
  <2> QED  BY <1>3, <2>1
<1>7. CASE \E w \in Weights : ReportSignal(w)
  BY <1>1, <1>7, ReportTracked
<1>8. CASE Tick
  <2>1. safety'.signals = SignalsAged(safety.signals, SignalWindow)
    <3>1. PICK aged : aged = SafetyAged(safety)
      OBVIOUS
    <3>2. aged.signals = SignalsAged(safety.signals, SignalWindow)
      BY <1>1, <3>1 DEF SafetyAged, Machines, SafetyType
    <3>3. \A s, new : TransitionTo(s, new).signals = s.signals
      BY DEF TransitionTo
    <3> QED  BY <1>8, <3>1, <3>2, <3>3 DEF Tick, Locks, Settled
  <2>2. recent' = SignalsAged(recent, 2 * SignalWindow)
    BY <1>8 DEF Tick
  <2>3. SignalWindow \in Nat /\ 2 * SignalWindow \in Nat
    BY TimesAssumption
  <2>4. InOrder(recent', 2 * SignalWindow) /\ InOrder(safety'.signals, SignalWindow)
    BY <2>1, <2>2, <2>3, AgedInOrder DEF SignalInv
  <2>5. Newer(recent', safety'.signals) /\ Tracked(recent', safety'.signals)
    BY <2>1, <2>2, AgedTracked DEF SignalInv
  <2> QED  BY <2>4, <2>5 DEF SignalInv
<1>9. CASE ClearEngine
  <2>1. recent' = << >> /\ safety'.signals = << >>
    BY <1>9 DEF ClearEngine, InitialSafety
  <2> QED  BY <2>1, EmptyTracked DEF SignalInv
<1> QED  BY <1>2, <1>4, <1>5, <1>6, <1>7, <1>8, <1>9
            DEF GovernanceNext, gvars, Heartbeat, SetAlternateExists, Activate, Propose, Apply

(* With room in the history, the buffer is the last window of it. *)
LEMMA NothingDropped ==
  ASSUME SignalInv, Len(recent) < MaxSignals, NEW k \in 0 .. Len(recent),
         \A i \in 1 .. Len(recent) : recent[i].age > SignalWindow <=> i <= k
  PROVE  safety.signals = SubSeq(recent, k + 1, Len(recent)) /\ Len(safety.signals) < MaxSignals
<1>1. PICK R, B : R = recent /\ B = safety.signals /\ R \in Seq(Aging) /\ B \in Seq(Aging)
  BY DEF SignalInv, InOrder
<1>2. PICK n \in Nat, m \in Nat, max \in Nat, w \in Nat :
        n = Len(R) /\ m = Len(B) /\ max = MaxSignals /\ w = SignalWindow /\ n < max /\ m <= n
  BY <1>1, TimesAssumption DEF SignalInv, Newer
<1>3. PICK e, p, q : /\ e \in 0 .. w + 1 /\ p \in 0 .. n /\ q \in 0 .. m
                     /\ n - p = m - q
                     /\ \A i \in 1 .. n - p : R[p + i] = B[q + i]
                     /\ \A i \in 1 .. p : R[i].age >= e
                     /\ \A i \in 1 .. q : B[i].age >= e
                     /\ e <= w => n = max
  BY <1>1, <1>2 DEF SignalInv, Tracked, Tracks
<1>4. e = w + 1 /\ p \in Nat /\ q \in Nat /\ p <= n /\ q <= m /\ n - p = m - q
  BY <1>2, <1>3
<1>5. /\ \A i \in 1 .. n : R[i].age \in Nat
      /\ \A i \in 1 .. m : B[i].age \in Nat /\ B[i].age <= w
  BY <1>1, <1>2, SignalOf DEF SignalInv, InOrder
<1>6. q = 0
  <2> SUFFICES ASSUME q > 0 PROVE FALSE
    BY <1>4
  <2>1. 1 \in 1 .. q /\ 1 \in 1 .. m
    BY <1>4
  <2>2. B[1].age >= e /\ B[1].age <= w /\ B[1].age \in Nat
    BY <1>3, <1>5, <2>1
  <2> QED  BY <1>4, <2>2
<1>7. k \in Nat /\ k <= n
  BY <1>1, <1>2
<1>8. k = p
  <2>1. ASSUME p < k PROVE FALSE
    <3>1. 1 \in 1 .. n - p /\ p + 1 \in 1 .. n /\ p + 1 <= k /\ 1 \in 1 .. m /\ 0 + 1 = 1
      BY <1>4, <1>6, <1>7, <2>1
    <3>2. R[p + 1].age > w
      BY <1>1, <1>2, <3>1
    <3>3. R[p + 1] = B[1]
      BY <1>3, <1>6, <3>1
    <3> QED  BY <1>5, <3>1, <3>2, <3>3
  <2>2. ASSUME k < p PROVE FALSE
    <3>1. p \in 1 .. n /\ p \in 1 .. p /\ ~(p <= k)
      BY <1>4, <1>7, <2>2
    <3>2. ~(R[p].age > w) /\ R[p].age >= e /\ R[p].age \in Nat
      BY <1>1, <1>2, <1>3, <1>5, <3>1
    <3> QED  BY <1>4, <3>2
  <2> QED  BY <1>4, <1>7, <2>1, <2>2
<1>9. m = n - k /\ \A i \in 1 .. m : B[i] = R[k + i]
  <2>1. m = n - k /\ \A i \in 1 .. m : i \in 1 .. n - p /\ 0 + i = i
    BY <1>4, <1>6, <1>8
  <2> QED  BY <1>3, <1>6, <1>8, <2>1
<1>10. PICK t : t = SubSeq(R, k + 1, n) /\ t \in Seq(Aging) /\ Len(t) = m /\ \A i \in 1 .. m : t[i] = B[i]
  <2>1. k + 1 \in 1 .. n + 1 /\ n \in (k + 1) - 1 .. n /\ n - (k + 1) + 1 = m
    BY <1>7, <1>9
  <2>2. /\ SubSeq(R, k + 1, n) \in Seq(Aging)
        /\ Len(SubSeq(R, k + 1, n)) = m
        /\ \A i \in 1 .. m : SubSeq(R, k + 1, n)[i] = R[(k + 1) + i - 1]
    <3>1. CASE k + 1 <= n
      <4>1. \A i \in k + 1 .. n : R[i] \in Aging
        BY <1>1, <1>2, <1>7
      <4> QED  BY <1>1, <1>2, <1>7, <2>1, <3>1, <4>1
    <3>2. CASE k + 1 > n
      BY <1>1, <1>2, <1>7, <2>1, <3>2
    <3> QED  BY <1>7, <3>1, <3>2
  <2>3. \A i \in 1 .. m : (k + 1) + i - 1 = k + i
    BY <1>7
  <2>4. \A i \in 1 .. m : SubSeq(R, k + 1, n)[i] = B[i]
    BY <1>9, <2>2, <2>3
  <2> QED  BY <2>2, <2>4
<1>11. t = B
  <2>1. Len(t) = Len(B) /\ \A i \in 1 .. Len(t) : t[i] = B[i]
    BY <1>2, <1>10
  <2> QED  BY <1>1, <1>10, <2>1, SeqEqual
<1>12. m < max
  BY <1>2
<1> QED  BY <1>1, <1>2, <1>10, <1>11, <1>12

(* With fewer signals than places in the last two windows, report_signal   *)
(* escalates as soon as those of the last window reach the threshold of    *)
(* the state and the cooldown is over, for every size of the buffer and    *)
(* the window: the full buffer that drops new signals has recovered.       *)
THEOREM SignalsCountedEver == GovernanceSpec => SignalsCounted
<1> DEFINE Counts ==
      \A w \in Weights, k \in 0 .. Len(recent) :
        /\ w < InstantThreshold /\ ReportSignal(w)
        /\ Len(recent) < MaxSignals
        /\ safety.cooldown >= Cooldown
        /\ \A i \in 1 .. Len(recent) : recent[i].age > SignalWindow <=> i <= k
        /\ Reached(safety, w + Sum(SubSeq(recent, k + 1, Len(recent))))
        => safety'.state # safety.state
<1>1. EngineInv /\ SignalInv => Counts
  <2> SUFFICES ASSUME EngineInv, SignalInv, NEW w \in Weights, NEW k \in 0 .. Len(recent),
                      w < InstantThreshold, ReportSignal(w), Len(recent) < MaxSignals,
                      safety.cooldown >= Cooldown,
                      \A i \in 1 .. Len(recent) : recent[i].age > SignalWindow <=> i <= k,
                      Reached(safety, w + Sum(SubSeq(recent, k + 1, Len(recent))))
               PROVE  safety'.state # safety.state
    OBVIOUS
  <2>1. safety \in Machines /\ safety.cooldown \in Nat
    BY TimesAssumption DEF EngineInv, GovernanceTypeOK, Machines, SafetyType
  <2>2. PICK B : B = safety.signals /\ B = SubSeq(recent, k + 1, Len(recent)) /\ Len(B) < MaxSignals /\ B \in Seq(Aging)
    BY NothingDropped DEF SignalInv, InOrder
  <2>3. PICK x : x = [age |-> 0, weight |-> w] /\ x \in Aging /\ x.weight = w /\ w \in Nat
    <3>1. [age |-> 0, weight |-> w] \in Aging /\ w \in Nat
      BY TimesAssumption DEF Aging
    <3> QED  BY <3>1
  <2>4. PICK C : C = Store(B, w) /\ C = Append(B, x)
    BY <2>2, <2>3 DEF Store
  <2>5. Sum(C) = w + Sum(B)
    <3>1. Sum(B) \in Nat /\ Sum(C) = Sum(B) + w
      BY <2>2, <2>3, <2>4, SumAppend
    <3> QED  BY <2>3, <3>1
  <2>6. PICK stored : stored = [safety EXCEPT !.signals = Store(@, w)]
    OBVIOUS
  <2>7. stored.signals = C /\ stored.state = safety.state /\ stored.cooldown = safety.cooldown
    BY <2>1, <2>2, <2>4, <2>6 DEF Machines, SafetyType
  <2>8. Reached(stored, Sum(stored.signals)) /\ stored.cooldown >= Cooldown
    BY <2>2, <2>5, <2>7 DEF Reached
  <2>9. safety' = [Escalated(stored) EXCEPT !.signals = << >>]
    <3>1. ~(w >= InstantThreshold)
      BY <2>3, TimesAssumption
    <3> QED  BY <2>6, <2>8, <3>1 DEF ReportSignal
  <2>10. Escalated(stored).state # stored.state /\ "signals" # "state"
    <3>1. stored.state \in {"Normal", "Elevated"}
      BY <2>8 DEF Reached
    <3>2. ~(stored.cooldown < Cooldown)
      BY <2>1, <2>7, <2>8, TimesAssumption
    <3>3. stored \in Machines
      <4>1. C \in Seq(Signal) /\ Len(C) <= MaxSignals
        <5>3. safety.signals \in Seq(Signal)
          BY <2>1 DEF Machines, SafetyType
        <5>1. B \in Seq(Signal) /\ Len(B) \in Nat /\ MaxSignals \in Nat
          BY <2>2, <5>3, TimesAssumption, LenProperties
        <5>2. x \in Signal
          BY <2>3, TimesAssumption DEF Signal
        <5>4. C \in Seq(Signal) /\ Len(C) = Len(B) + 1
          BY <2>4, <5>1, <5>2, AppendProperties
        <5>5. Len(C) <= MaxSignals
          BY <2>2, <5>1, <5>4
        <5> QED  BY <5>4, <5>5
      <4>2. stored = [safety EXCEPT !.signals = C]
        BY <2>2, <2>4, <2>6
      <4> QED  BY <2>1, <4>1, <4>2 DEF Machines, SafetyType
    <3>4. \A new \in DOMAIN Severity : [TransitionTo(stored, new) EXCEPT !.cooldown = 0].state = new
      <4> TAKE new \in DOMAIN Severity
      <4>1. TransitionTo(stored, new) \in Machines /\ TransitionTo(stored, new).state = new
        BY <3>3, TransitionToType
      <4> QED  BY <4>1 DEF Machines, SafetyType
    <3> QED  BY <3>1, <3>2, <3>4, SafetyStates DEF Escalated
  <2> QED  BY <2>7, <2>9, <2>10
<1>2. EngineInv /\ SignalInv /\ [GovernanceNext]_gvars => [Counts]_gvars
  BY <1>1
<1>3. GovernanceInit => EngineInv /\ SignalInv
  BY EngineInit, SignalStart
<1>4. (EngineInv /\ SignalInv) /\ [GovernanceNext]_gvars => (EngineInv /\ SignalInv)'
  BY EngineStep, SignalStep
<1> QED  BY <1>2, <1>3, <1>4, PTL DEF GovernanceSpec, SignalsCounted

-----------------------------------------------------------------------------
(* The ordered locks.  They are ranked by how the paths nest them; each    *)
(* path is laid out beside what is held before each of its steps, and from *)
(* there the argument is about ranks only.                                 *)

(* An order of the locks that every path respects when it nests them; the  *)
(* levels are not one.                                                     *)
Rank ==
  [REGISTRY |-> 0, BUS |-> 0, SOCKETS |-> 0, DISPLAY |-> 0, GOVERNANCE |-> 0, TMPFS |-> 0,
   LOOPBACK |-> 1, NIC |-> 1, ARP_TABLE |-> 1, WINDOW_TABLE |-> 1, STORE |-> 1, INODES |-> 1,
   TABLE |-> 2, HMAC_KEY |-> 2, SCHEDULER |-> 3, OPEN_FILES |-> 3]
(* The one of boot, which nests TMPFS in INODES. *)
BootRank == [l \in OrderedLocks |-> IF l = "INODES" THEN 0 ELSE 1]

LockSteps == OrderedLocks \cup {"drop", "TRY_TABLE"}

(* A step of a path, with the locks held before and after it: at most two  *)
(* are held at a time, the second of a higher rank.                        *)
Step(R, step, before, after) ==
  \/ \E l \in OrderedLocks : step = l /\ before = << >> /\ after = <<l>>
  \/ step = "TRY_TABLE" /\ before = << >> /\ after = <<"TABLE">>
  \/ \E o, l \in OrderedLocks : R[o] < R[l] /\ step = l /\ before = <<o>> /\ after = <<o, l>>
  \/ \E o \in OrderedLocks : step = "drop" /\ before = <<o>> /\ after = << >>
  \/ \E o, l \in OrderedLocks : step = "drop" /\ before = <<o, l>> /\ after = <<o>>

(* h lists what is held before each step of p and at its end. *)
Nested(R, p, h) ==
  /\ p \in Seq(LockSteps) /\ h \in Seq(Seq(OrderedLocks)) /\ Len(h) = Len(p) + 1
  /\ h[1] = << >> /\ h[Len(h)] = << >>
  /\ \A k \in 1 .. Len(p) : Step(R, p[k], h[k], h[k + 1])

(* The steps there are, one by one. *)
LEMMA Steps ==
  ASSUME NEW R
  PROVE  /\ \A l \in OrderedLocks : Step(R, l, << >>, <<l>>) /\ Step(R, "drop", <<l>>, << >>)
         /\ \A o, l \in OrderedLocks : Step(R, "drop", <<o, l>>, <<o>>)
         /\ \A o, l \in OrderedLocks : R[o] < R[l] => Step(R, l, <<o>>, <<o, l>>)
         /\ Step(R, "TRY_TABLE", << >>, <<"TABLE">>)
BY DEF Step

(* The locks, by name. *)
LEMMA LockNames ==
  OrderedLocks = {"REGISTRY", "NIC", "WINDOW_TABLE", "ARP_TABLE", "SOCKETS", "LOOPBACK", "DISPLAY", "INODES",
           "OPEN_FILES", "TMPFS", "GOVERNANCE", "TABLE", "STORE", "HMAC_KEY", "SCHEDULER", "BUS"}
BY SMTT(30) DEF OrderedLocks, Level

(* The nestings there are after boot. *)
LEMMA RankSteps ==
  /\ \A l \in OrderedLocks : Step(Rank, l, << >>, <<l>>) /\ Step(Rank, "drop", <<l>>, << >>)
  /\ \A o, l \in OrderedLocks : Step(Rank, "drop", <<o, l>>, <<o>>)
  /\ Step(Rank, "LOOPBACK", <<"SOCKETS">>, <<"SOCKETS", "LOOPBACK">>)
  /\ Step(Rank, "NIC", <<"SOCKETS">>, <<"SOCKETS", "NIC">>)
  /\ Step(Rank, "ARP_TABLE", <<"SOCKETS">>, <<"SOCKETS", "ARP_TABLE">>)
  /\ Step(Rank, "WINDOW_TABLE", <<"DISPLAY">>, <<"DISPLAY", "WINDOW_TABLE">>)
  /\ Step(Rank, "TABLE", <<"GOVERNANCE">>, <<"GOVERNANCE", "TABLE">>)
  /\ Step(Rank, "STORE", <<"GOVERNANCE">>, <<"GOVERNANCE", "STORE">>)
  /\ Step(Rank, "HMAC_KEY", <<"STORE">>, <<"STORE", "HMAC_KEY">>)
  /\ Step(Rank, "SCHEDULER", <<"TABLE">>, <<"TABLE", "SCHEDULER">>)
  /\ Step(Rank, "INODES", <<"TMPFS">>, <<"TMPFS", "INODES">>)
  /\ Step(Rank, "OPEN_FILES", <<"TABLE">>, <<"TABLE", "OPEN_FILES">>)
  /\ Step(Rank, "TRY_TABLE", << >>, <<"TABLE">>)
<1>1. /\ Rank["SOCKETS"] < Rank["LOOPBACK"] /\ Rank["SOCKETS"] < Rank["NIC"]
      /\ Rank["SOCKETS"] < Rank["ARP_TABLE"] /\ Rank["DISPLAY"] < Rank["WINDOW_TABLE"]
      /\ Rank["GOVERNANCE"] < Rank["TABLE"] /\ Rank["GOVERNANCE"] < Rank["STORE"]
      /\ Rank["STORE"] < Rank["HMAC_KEY"] /\ Rank["TABLE"] < Rank["SCHEDULER"]
      /\ Rank["TMPFS"] < Rank["INODES"] /\ Rank["TABLE"] < Rank["OPEN_FILES"]
  BY DEF Rank
<1> QED  BY <1>1, Steps, LockNames

(* Every path nests its locks in the order of their ranks. *)
LEMMA DeliverLoopbackNested == \E h : Nested(Rank, DeliverLoopback, h)
<1> DEFINE h == << << >>, <<"LOOPBACK">>, << >>, <<"SOCKETS">>, <<"SOCKETS", "LOOPBACK">>,
                  <<"SOCKETS">>, << >> >>
<1>1. DeliverLoopback \in Seq(LockSteps) /\ h \in Seq(Seq(OrderedLocks)) /\ Len(DeliverLoopback) = 6 /\ Len(h) = 7
  BY DEF DeliverLoopback, LockSteps, OrderedLocks, Level
<1>2. h[1] = << >> /\ h[7] = << >>
  OBVIOUS
<1>3. /\ Step(Rank, DeliverLoopback[1], h[1], h[2]) /\ Step(Rank, DeliverLoopback[2], h[2], h[3])
      /\ Step(Rank, DeliverLoopback[3], h[3], h[4]) /\ Step(Rank, DeliverLoopback[4], h[4], h[5])
      /\ Step(Rank, DeliverLoopback[5], h[5], h[6]) /\ Step(Rank, DeliverLoopback[6], h[6], h[7])
  BY RankSteps, LockNames DEF DeliverLoopback
<1>4. ASSUME NEW k \in 1 .. 6 PROVE Step(Rank, DeliverLoopback[k], h[k], h[k + 1])
  <2> HIDE DEF h
  <2>1. k \in {1, 2, 3, 4, 5, 6}
    OBVIOUS
  <2> QED  BY <1>3, <2>1
<1> HIDE DEF h
<1>5. Nested(Rank, DeliverLoopback, h)
  BY <1>1, <1>2, <1>4 DEF Nested
<1> QED  BY <1>5

(* A segment of the NIC nests NIC and ARP_TABLE in SOCKETS. *)
LEMMA DeliverNicNested == \E h : Nested(Rank, DeliverNic, h)
<1> DEFINE h == << << >>, <<"LOOPBACK">>, << >>, <<"NIC">>, << >>, <<"SOCKETS">>,
                  <<"SOCKETS", "NIC">>, <<"SOCKETS">>, <<"SOCKETS", "ARP_TABLE">>, <<"SOCKETS">>,
                  <<"SOCKETS", "NIC">>, <<"SOCKETS">>, << >> >>
<1>1. DeliverNic \in Seq(LockSteps) /\ h \in Seq(Seq(OrderedLocks)) /\ Len(DeliverNic) = 12 /\ Len(h) = 13
  BY DEF DeliverNic, LockSteps, OrderedLocks, Level
<1>2. h[1] = << >> /\ h[13] = << >>
  OBVIOUS
<1>3. /\ Step(Rank, DeliverNic[1], h[1], h[2]) /\ Step(Rank, DeliverNic[2], h[2], h[3])
      /\ Step(Rank, DeliverNic[3], h[3], h[4]) /\ Step(Rank, DeliverNic[4], h[4], h[5])
      /\ Step(Rank, DeliverNic[5], h[5], h[6]) /\ Step(Rank, DeliverNic[6], h[6], h[7])
      /\ Step(Rank, DeliverNic[7], h[7], h[8]) /\ Step(Rank, DeliverNic[8], h[8], h[9])
      /\ Step(Rank, DeliverNic[9], h[9], h[10]) /\ Step(Rank, DeliverNic[10], h[10], h[11])
      /\ Step(Rank, DeliverNic[11], h[11], h[12]) /\ Step(Rank, DeliverNic[12], h[12], h[13])
  BY RankSteps, LockNames DEF DeliverNic
<1>4. ASSUME NEW k \in 1 .. 12 PROVE Step(Rank, DeliverNic[k], h[k], h[k + 1])
  <2> HIDE DEF h
  <2>1. k \in {1, 2, 3, 4, 5, 6, 7, 8, 9, 10, 11, 12}
    OBVIOUS
  <2> QED  BY <1>3, <2>1
<1> HIDE DEF h
<1>5. Nested(Rank, DeliverNic, h)
  BY <1>1, <1>2, <1>4 DEF Nested
<1> QED  BY <1>5

(* A window call nests WINDOW_TABLE in DISPLAY. *)
LEMMA WindowCallNested == \E h : Nested(Rank, WindowCall, h)
<1> DEFINE h == << << >>, <<"WINDOW_TABLE">>, << >>, <<"DISPLAY">>, <<"DISPLAY", "WINDOW_TABLE">>,
                  <<"DISPLAY">>, <<"DISPLAY", "WINDOW_TABLE">>, <<"DISPLAY">>, << >> >>
<1>1. WindowCall \in Seq(LockSteps) /\ h \in Seq(Seq(OrderedLocks)) /\ Len(WindowCall) = 8 /\ Len(h) = 9
  BY DEF WindowCall, LockSteps, OrderedLocks, Level
<1>2. h[1] = << >> /\ h[9] = << >>
  OBVIOUS
<1>3. /\ Step(Rank, WindowCall[1], h[1], h[2]) /\ Step(Rank, WindowCall[2], h[2], h[3])
      /\ Step(Rank, WindowCall[3], h[3], h[4]) /\ Step(Rank, WindowCall[4], h[4], h[5])
      /\ Step(Rank, WindowCall[5], h[5], h[6]) /\ Step(Rank, WindowCall[6], h[6], h[7])
      /\ Step(Rank, WindowCall[7], h[7], h[8]) /\ Step(Rank, WindowCall[8], h[8], h[9])
  BY RankSteps, LockNames DEF WindowCall
<1>4. ASSUME NEW k \in 1 .. 8 PROVE Step(Rank, WindowCall[k], h[k], h[k + 1])
  <2> HIDE DEF h
  <2>1. k \in {1, 2, 3, 4, 5, 6, 7, 8}
    OBVIOUS
  <2> QED  BY <1>3, <2>1
<1> HIDE DEF h
<1>5. Nested(Rank, WindowCall, h)
  BY <1>1, <1>2, <1>4 DEF Nested
<1> QED  BY <1>5

(* A send nests TABLE or STORE in GOVERNANCE, and HMAC_KEY in STORE. *)
LEMMA BusSendNested == \E h : Nested(Rank, BusSend, h)
<1> DEFINE h == << << >>, <<"GOVERNANCE">>, <<"GOVERNANCE", "TABLE">>, <<"GOVERNANCE">>,
                  <<"GOVERNANCE", "STORE">>, <<"GOVERNANCE">>, << >>, <<"STORE">>,
                  <<"STORE", "HMAC_KEY">>, <<"STORE">>, << >>, <<"STORE">>, << >>, <<"BUS">>, << >> >>
<1>1. BusSend \in Seq(LockSteps) /\ h \in Seq(Seq(OrderedLocks)) /\ Len(BusSend) = 14 /\ Len(h) = 15
  BY DEF BusSend, LockSteps, OrderedLocks, Level
<1>2. h[1] = << >> /\ h[15] = << >>
  OBVIOUS
<1>3. /\ Step(Rank, BusSend[1], h[1], h[2]) /\ Step(Rank, BusSend[2], h[2], h[3]) /\ Step(Rank, BusSend[3], h[3], h[4])
      /\ Step(Rank, BusSend[4], h[4], h[5]) /\ Step(Rank, BusSend[5], h[5], h[6]) /\ Step(Rank, BusSend[6], h[6], h[7])
      /\ Step(Rank, BusSend[7], h[7], h[8]) /\ Step(Rank, BusSend[8], h[8], h[9]) /\ Step(Rank, BusSend[9], h[9], h[10])
      /\ Step(Rank, BusSend[10], h[10], h[11]) /\ Step(Rank, BusSend[11], h[11], h[12]) /\ Step(Rank, BusSend[12], h[12], h[13])
      /\ Step(Rank, BusSend[13], h[13], h[14]) /\ Step(Rank, BusSend[14], h[14], h[15])
  BY RankSteps, LockNames DEF BusSend
<1>4. ASSUME NEW k \in 1 .. 14 PROVE Step(Rank, BusSend[k], h[k], h[k + 1])
  <2> HIDE DEF h
  <2>1. k \in {1, 2, 3, 4, 5, 6, 7, 8, 9, 10, 11, 12, 13, 14}
    OBVIOUS
  <2> QED  BY <1>3, <2>1
<1> HIDE DEF h
<1>5. Nested(Rank, BusSend, h)
  BY <1>1, <1>2, <1>4 DEF Nested
<1> QED  BY <1>5

(* A dispatch ends in a send. *)
LEMMA DriverDispatchNested == \E h : Nested(Rank, DriverDispatch, h)
<1> DEFINE h == << << >>, <<"REGISTRY">>, << >>, <<"BUS">>, << >>, <<"BUS">>, << >>, <<"REGISTRY">>,
                  << >>, <<"TABLE">>, << >>, <<"GOVERNANCE">>, <<"GOVERNANCE", "TABLE">>,
                  <<"GOVERNANCE">>, <<"GOVERNANCE", "STORE">>, <<"GOVERNANCE">>, << >>,
                  <<"STORE">>, <<"STORE", "HMAC_KEY">>, <<"STORE">>, << >>, <<"STORE">>, << >>,
                  <<"BUS">>, << >> >>
           a == <<"REGISTRY", "drop", "BUS", "drop", "BUS", "drop", "REGISTRY", "drop", "TABLE", "drop">>
<1>0. /\ DriverDispatch \in Seq(LockSteps) /\ Len(DriverDispatch) = 24
      /\ \A i \in 1 .. 10 : DriverDispatch[i] = a[i]
      /\ \A i \in 1 .. 14 : DriverDispatch[10 + i] = BusSend[i]
  <2>1. /\ DriverDispatch = a \o BusSend
        /\ a \in Seq(LockSteps) /\ Len(a) = 10
        /\ BusSend \in Seq(LockSteps) /\ Len(BusSend) = 14
    BY DEF DriverDispatch, BusSend, LockSteps, OrderedLocks, Level
  <2> DEFINE S == LockSteps
             b == BusSend
  <2>2. DriverDispatch = a \o b /\ a \in Seq(S) /\ b \in Seq(S) /\ Len(a) = 10 /\ Len(b) = 14
    BY <2>1
  <2> HIDE DEF S, a, b
  <2>3. /\ DriverDispatch \in Seq(S) /\ Len(DriverDispatch) = 24
        /\ \A i \in 1 .. 24 : DriverDispatch[i] = IF i <= 10 THEN a[i] ELSE b[i - 10]
    <3>1. /\ a \o b \in Seq(S) /\ Len(a \o b) = Len(a) + Len(b)
          /\ \A i \in 1 .. Len(a) + Len(b) : (a \o b)[i] = IF i <= Len(a) THEN a[i] ELSE b[i - Len(a)]
      BY <2>2, ConcatProperties
    <3>2. Len(a) + Len(b) = 24
      BY <2>2
    <3> QED  BY <2>2, <3>1, <3>2
  <2>4. \A i \in 1 .. 10 : DriverDispatch[i] = a[i]
    BY <2>3, SMTT(20)
  <2>5. ASSUME NEW i \in 1 .. 14 PROVE DriverDispatch[10 + i] = BusSend[i]
    <3>1. PICK j \in 1 .. 24 : j = 10 + i /\ ~(j <= 10) /\ j - 10 = i
      OBVIOUS
    <3>2. DriverDispatch[j] = b[i]
      BY <2>3, <3>1
    <3> QED  BY <3>1, <3>2 DEF b
  <2> QED  BY <2>3, <2>4, <2>5 DEF S
<1>6. /\ DriverDispatch[1] = "REGISTRY" /\ DriverDispatch[2] = "drop"
      /\ DriverDispatch[3] = "BUS" /\ DriverDispatch[4] = "drop"
      /\ DriverDispatch[5] = "BUS" /\ DriverDispatch[6] = "drop"
      /\ DriverDispatch[7] = "REGISTRY" /\ DriverDispatch[8] = "drop"
      /\ DriverDispatch[9] = "TABLE" /\ DriverDispatch[10] = "drop"
      /\ DriverDispatch[11] = "GOVERNANCE" /\ DriverDispatch[12] = "TABLE"
      /\ DriverDispatch[13] = "drop" /\ DriverDispatch[14] = "STORE"
      /\ DriverDispatch[15] = "drop" /\ DriverDispatch[16] = "drop"
      /\ DriverDispatch[17] = "STORE" /\ DriverDispatch[18] = "HMAC_KEY"
      /\ DriverDispatch[19] = "drop" /\ DriverDispatch[20] = "drop"
      /\ DriverDispatch[21] = "STORE" /\ DriverDispatch[22] = "drop"
      /\ DriverDispatch[23] = "BUS" /\ DriverDispatch[24] = "drop"
  <2>1. /\ DriverDispatch[1] = a[1] /\ DriverDispatch[2] = a[2] /\ DriverDispatch[3] = a[3]
        /\ DriverDispatch[4] = a[4] /\ DriverDispatch[5] = a[5] /\ DriverDispatch[6] = a[6]
        /\ DriverDispatch[7] = a[7] /\ DriverDispatch[8] = a[8] /\ DriverDispatch[9] = a[9]
        /\ DriverDispatch[10] = a[10]
    BY <1>0
  <2>2. /\ DriverDispatch[11] = BusSend[1] /\ DriverDispatch[12] = BusSend[2]
        /\ DriverDispatch[13] = BusSend[3] /\ DriverDispatch[14] = BusSend[4]
        /\ DriverDispatch[15] = BusSend[5] /\ DriverDispatch[16] = BusSend[6]
        /\ DriverDispatch[17] = BusSend[7] /\ DriverDispatch[18] = BusSend[8]
        /\ DriverDispatch[19] = BusSend[9] /\ DriverDispatch[20] = BusSend[10]
        /\ DriverDispatch[21] = BusSend[11] /\ DriverDispatch[22] = BusSend[12]
        /\ DriverDispatch[23] = BusSend[13] /\ DriverDispatch[24] = BusSend[14]
    BY <1>0
  <2> QED  BY <2>1, <2>2 DEF BusSend
<1>1. DriverDispatch \in Seq(LockSteps) /\ h \in Seq(Seq(OrderedLocks)) /\ Len(DriverDispatch) = 24 /\ Len(h) = 25
  BY <1>0 DEF OrderedLocks, Level
<1>2. h[1] = << >> /\ h[25] = << >>
  OBVIOUS
<1>3. /\ Step(Rank, DriverDispatch[1], h[1], h[2]) /\ Step(Rank, DriverDispatch[2], h[2], h[3])
      /\ Step(Rank, DriverDispatch[3], h[3], h[4]) /\ Step(Rank, DriverDispatch[4], h[4], h[5])
      /\ Step(Rank, DriverDispatch[5], h[5], h[6]) /\ Step(Rank, DriverDispatch[6], h[6], h[7])
      /\ Step(Rank, DriverDispatch[7], h[7], h[8]) /\ Step(Rank, DriverDispatch[8], h[8], h[9])
      /\ Step(Rank, DriverDispatch[9], h[9], h[10]) /\ Step(Rank, DriverDispatch[10], h[10], h[11])
      /\ Step(Rank, DriverDispatch[11], h[11], h[12]) /\ Step(Rank, DriverDispatch[12], h[12], h[13])
      /\ Step(Rank, DriverDispatch[13], h[13], h[14]) /\ Step(Rank, DriverDispatch[14], h[14], h[15])
      /\ Step(Rank, DriverDispatch[15], h[15], h[16]) /\ Step(Rank, DriverDispatch[16], h[16], h[17])
      /\ Step(Rank, DriverDispatch[17], h[17], h[18]) /\ Step(Rank, DriverDispatch[18], h[18], h[19])
      /\ Step(Rank, DriverDispatch[19], h[19], h[20]) /\ Step(Rank, DriverDispatch[20], h[20], h[21])
      /\ Step(Rank, DriverDispatch[21], h[21], h[22]) /\ Step(Rank, DriverDispatch[22], h[22], h[23])
      /\ Step(Rank, DriverDispatch[23], h[23], h[24]) /\ Step(Rank, DriverDispatch[24], h[24], h[25])
  BY <1>6, RankSteps, LockNames
<1>4. ASSUME NEW k \in 1 .. 24 PROVE Step(Rank, DriverDispatch[k], h[k], h[k + 1])
  <2> HIDE DEF h
  <2>1. k \in {1, 2, 3, 4, 5, 6, 7, 8, 9, 10, 11, 12, 13, 14, 15, 16, 17, 18, 19, 20, 21, 22, 23, 24}
    OBVIOUS
  <2> QED  BY <1>3, <2>1
<1> HIDE DEF h
<1>5. Nested(Rank, DriverDispatch, h)
  BY <1>1, <1>2, <1>4 DEF Nested
<1> QED  BY <1>5

(* Terminate nests SCHEDULER in TABLE. *)
LEMMA TerminateNested == \E h : Nested(Rank, Terminate, h)
<1> DEFINE h == << << >>, <<"SOCKETS">>, << >>, <<"TABLE">>, <<"TABLE", "SCHEDULER">>, <<"TABLE">>,
                  << >>, <<"BUS">>, << >> >>
<1>1. Terminate \in Seq(LockSteps) /\ h \in Seq(Seq(OrderedLocks)) /\ Len(Terminate) = 8 /\ Len(h) = 9
  BY DEF Terminate, LockSteps, OrderedLocks, Level
<1>2. h[1] = << >> /\ h[9] = << >>
  OBVIOUS
<1>3. /\ Step(Rank, Terminate[1], h[1], h[2]) /\ Step(Rank, Terminate[2], h[2], h[3])
      /\ Step(Rank, Terminate[3], h[3], h[4]) /\ Step(Rank, Terminate[4], h[4], h[5])
      /\ Step(Rank, Terminate[5], h[5], h[6]) /\ Step(Rank, Terminate[6], h[6], h[7])
      /\ Step(Rank, Terminate[7], h[7], h[8]) /\ Step(Rank, Terminate[8], h[8], h[9])
  BY RankSteps, LockNames DEF Terminate
<1>4. ASSUME NEW k \in 1 .. 8 PROVE Step(Rank, Terminate[k], h[k], h[k + 1])
  <2> HIDE DEF h
  <2>1. k \in {1, 2, 3, 4, 5, 6, 7, 8}
    OBVIOUS
  <2> QED  BY <1>3, <2>1
<1> HIDE DEF h
<1>5. Nested(Rank, Terminate, h)
  BY <1>1, <1>2, <1>4 DEF Nested
<1> QED  BY <1>5

(* A new capability is signed under STORE. *)
LEMMA CreateCapabilityNested == \E h : Nested(Rank, CreateCapability, h)
<1> DEFINE h == << << >>, <<"STORE">>, <<"STORE", "HMAC_KEY">>, <<"STORE">>, << >> >>
<1>1. CreateCapability \in Seq(LockSteps) /\ h \in Seq(Seq(OrderedLocks)) /\ Len(CreateCapability) = 4 /\ Len(h) = 5
  BY DEF CreateCapability, LockSteps, OrderedLocks, Level
<1>2. h[1] = << >> /\ h[5] = << >>
  OBVIOUS
<1>3. /\ Step(Rank, CreateCapability[1], h[1], h[2]) /\ Step(Rank, CreateCapability[2], h[2], h[3])
      /\ Step(Rank, CreateCapability[3], h[3], h[4]) /\ Step(Rank, CreateCapability[4], h[4], h[5])
  BY RankSteps, LockNames DEF CreateCapability
<1>4. ASSUME NEW k \in 1 .. 4 PROVE Step(Rank, CreateCapability[k], h[k], h[k + 1])
  <2> HIDE DEF h
  <2>1. k \in {1, 2, 3, 4}
    OBVIOUS
  <2> QED  BY <1>3, <2>1
<1> HIDE DEF h
<1>5. Nested(Rank, CreateCapability, h)
  BY <1>1, <1>2, <1>4 DEF Nested
<1> QED  BY <1>5

(* vfs_readdir nests INODES in TMPFS. *)
LEMMA ReadDirNested == \E h : Nested(Rank, ReadDir, h)
<1> DEFINE h == << << >>, <<"OPEN_FILES">>, << >>, <<"INODES">>, << >>, <<"TMPFS">>,
                  <<"TMPFS", "INODES">>, <<"TMPFS">>, << >>, <<"OPEN_FILES">>, << >> >>
<1>1. ReadDir \in Seq(LockSteps) /\ h \in Seq(Seq(OrderedLocks)) /\ Len(ReadDir) = 10 /\ Len(h) = 11
  BY DEF ReadDir, LockSteps, OrderedLocks, Level
<1>2. h[1] = << >> /\ h[11] = << >>
  OBVIOUS
<1>3. /\ Step(Rank, ReadDir[1], h[1], h[2]) /\ Step(Rank, ReadDir[2], h[2], h[3]) /\ Step(Rank, ReadDir[3], h[3], h[4])
      /\ Step(Rank, ReadDir[4], h[4], h[5]) /\ Step(Rank, ReadDir[5], h[5], h[6]) /\ Step(Rank, ReadDir[6], h[6], h[7])
      /\ Step(Rank, ReadDir[7], h[7], h[8]) /\ Step(Rank, ReadDir[8], h[8], h[9]) /\ Step(Rank, ReadDir[9], h[9], h[10])
      /\ Step(Rank, ReadDir[10], h[10], h[11])
  BY RankSteps, LockNames DEF ReadDir
<1>4. ASSUME NEW k \in 1 .. 10 PROVE Step(Rank, ReadDir[k], h[k], h[k + 1])
  <2> HIDE DEF h
  <2>1. k \in {1, 2, 3, 4, 5, 6, 7, 8, 9, 10}
    OBVIOUS
  <2> QED  BY <1>3, <2>1
<1> HIDE DEF h
<1>5. Nested(Rank, ReadDir, h)
  BY <1>1, <1>2, <1>4 DEF Nested
<1> QED  BY <1>5

(* vfs_write nests nothing. *)
LEMMA WriteNested == \E h : Nested(Rank, Write, h)
<1> DEFINE h == << << >>, <<"OPEN_FILES">>, << >>, <<"INODES">>, << >>, <<"TMPFS">>, << >>,
                  <<"INODES">>, << >>, <<"OPEN_FILES">>, << >> >>
<1>1. Write \in Seq(LockSteps) /\ h \in Seq(Seq(OrderedLocks)) /\ Len(Write) = 10 /\ Len(h) = 11
  BY DEF Write, LockSteps, OrderedLocks, Level
<1>2. h[1] = << >> /\ h[11] = << >>
  OBVIOUS
<1>3. /\ Step(Rank, Write[1], h[1], h[2]) /\ Step(Rank, Write[2], h[2], h[3]) /\ Step(Rank, Write[3], h[3], h[4])
      /\ Step(Rank, Write[4], h[4], h[5]) /\ Step(Rank, Write[5], h[5], h[6]) /\ Step(Rank, Write[6], h[6], h[7])
      /\ Step(Rank, Write[7], h[7], h[8]) /\ Step(Rank, Write[8], h[8], h[9]) /\ Step(Rank, Write[9], h[9], h[10])
      /\ Step(Rank, Write[10], h[10], h[11])
  BY RankSteps, LockNames DEF Write
<1>4. ASSUME NEW k \in 1 .. 10 PROVE Step(Rank, Write[k], h[k], h[k + 1])
  <2> HIDE DEF h
  <2>1. k \in {1, 2, 3, 4, 5, 6, 7, 8, 9, 10}
    OBVIOUS
  <2> QED  BY <1>3, <2>1
<1> HIDE DEF h
<1>5. Nested(Rank, Write, h)
  BY <1>1, <1>2, <1>4 DEF Nested
<1> QED  BY <1>5

(* syscall_open nests OPEN_FILES in TABLE. *)
LEMMA OpenFailsNested == \E h : Nested(Rank, OpenFails, h)
<1> DEFINE h == << << >>, <<"TMPFS">>, << >>, <<"INODES">>, << >>, <<"OPEN_FILES">>, << >>, <<"TABLE">>,
                  <<"TABLE", "OPEN_FILES">>, <<"TABLE">>, << >> >>
<1>1. OpenFails \in Seq(LockSteps) /\ h \in Seq(Seq(OrderedLocks)) /\ Len(OpenFails) = 10 /\ Len(h) = 11
  BY DEF OpenFails, LockSteps, OrderedLocks, Level
<1>2. h[1] = << >> /\ h[11] = << >>
  OBVIOUS
<1>3. /\ Step(Rank, OpenFails[1], h[1], h[2]) /\ Step(Rank, OpenFails[2], h[2], h[3])
      /\ Step(Rank, OpenFails[3], h[3], h[4]) /\ Step(Rank, OpenFails[4], h[4], h[5])
      /\ Step(Rank, OpenFails[5], h[5], h[6]) /\ Step(Rank, OpenFails[6], h[6], h[7])
      /\ Step(Rank, OpenFails[7], h[7], h[8]) /\ Step(Rank, OpenFails[8], h[8], h[9])
      /\ Step(Rank, OpenFails[9], h[9], h[10]) /\ Step(Rank, OpenFails[10], h[10], h[11])
  BY RankSteps, LockNames DEF OpenFails
<1>4. ASSUME NEW k \in 1 .. 10 PROVE Step(Rank, OpenFails[k], h[k], h[k + 1])
  <2> HIDE DEF h
  <2>1. k \in {1, 2, 3, 4, 5, 6, 7, 8, 9, 10}
    OBVIOUS
  <2> QED  BY <1>3, <2>1
<1> HIDE DEF h
<1>5. Nested(Rank, OpenFails, h)
  BY <1>1, <1>2, <1>4 DEF Nested
<1> QED  BY <1>5

(* Boot nests TMPFS in INODES. *)
LEMMA BootVfsNested == \E h : Nested(BootRank, BootVfs, h)
<1> DEFINE h == << << >>, <<"INODES">>, <<"INODES", "TMPFS">>, <<"INODES">>, << >>, <<"INODES">>,
                  <<"INODES", "TMPFS">>, <<"INODES">>, << >>, <<"INODES">>, << >>, <<"INODES">>,
                  <<"INODES", "TMPFS">>, <<"INODES">>, << >> >>
<1>1. BootVfs \in Seq(LockSteps) /\ h \in Seq(Seq(OrderedLocks)) /\ Len(BootVfs) = 14 /\ Len(h) = 15
  BY SMTT(30) DEF BootVfs, LockSteps, OrderedLocks, Level
<1>2. h[1] = << >> /\ h[15] = << >>
  BY SMTT(30)
<1>3. /\ Step(BootRank, BootVfs[1], h[1], h[2]) /\ Step(BootRank, BootVfs[2], h[2], h[3])
      /\ Step(BootRank, BootVfs[3], h[3], h[4]) /\ Step(BootRank, BootVfs[4], h[4], h[5])
      /\ Step(BootRank, BootVfs[5], h[5], h[6]) /\ Step(BootRank, BootVfs[6], h[6], h[7])
      /\ Step(BootRank, BootVfs[7], h[7], h[8]) /\ Step(BootRank, BootVfs[8], h[8], h[9])
      /\ Step(BootRank, BootVfs[9], h[9], h[10]) /\ Step(BootRank, BootVfs[10], h[10], h[11])
      /\ Step(BootRank, BootVfs[11], h[11], h[12]) /\ Step(BootRank, BootVfs[12], h[12], h[13])
      /\ Step(BootRank, BootVfs[13], h[13], h[14]) /\ Step(BootRank, BootVfs[14], h[14], h[15])
  BY Steps, LockNames, SMTT(40) DEF BootVfs, BootRank
<1>4. ASSUME NEW k \in 1 .. 14 PROVE Step(BootRank, BootVfs[k], h[k], h[k + 1])
  <2> HIDE DEF h
  <2>1. k \in {1, 2, 3, 4, 5, 6, 7, 8, 9, 10, 11, 12, 13, 14}
    OBVIOUS
  <2> QED  BY <1>3, <2>1
<1> HIDE DEF h
<1>5. Nested(BootRank, BootVfs, h)
  BY <1>1, <1>2, <1>4 DEF Nested
<1> QED  BY <1>5

(* So every path of the model is nested. *)
LEMMA PathsNested == \A p \in Paths : \E h : Nested(Rank, p, h)
BY DeliverLoopbackNested, DeliverNicNested, WindowCallNested, BusSendNested, DriverDispatchNested,
   TerminateNested, CreateCapabilityNested, ReadDirNested, WriteNested, OpenFailsNested DEF Paths

(* Where a thread is: somewhere on a nested path, holding what the path    *)
(* has taken so far.                                                       *)
On(R, steps, locked, p, h, k) ==
  /\ Nested(R, p, h) /\ k \in 1 .. Len(p) + 1
  /\ steps = SubSeq(p, k, Len(p)) /\ locked = h[k]
Staged(R, steps, locked) == \E p, h, k : On(R, steps, locked, p, h, k)

(* The order that the threads respect, at boot and after it. *)
Order == IF paths = 0 THEN BootRank ELSE Rank

(* The inductive invariant: every thread is on a nested path, who holds    *)
(* the process table or the scheduler is on the processor, and at boot     *)
(* there is one thread only.                                               *)
LockInv ==
  /\ running \in Threads /\ paths \in Nat
  /\ todo \in [Threads -> Seq(LockSteps)]
  /\ held \in [Threads -> Seq(OrderedLocks)]
  /\ \A t \in Threads : Staged(Order, todo[t], held[t])
  /\ \A t \in Threads : "TABLE" \in ToSet(held[t]) \/ "SCHEDULER" \in ToSet(held[t]) => t = running
  /\ paths = 0 => \A t \in Threads \ {running} : todo[t] = << >> /\ held[t] = << >>

(* The locks held, as a set. *)
LEMMA HeldSets ==
  /\ ToSet(<< >>) = {}
  /\ \A o : ToSet(<<o>>) = {o}
  /\ \A o, l : ToSet(<<o, l>>) = {o, l}
BY DEF ToSet

(* The next step of a thread, and where it leads. *)
LEMMA StageStep ==
  ASSUME NEW R, NEW steps, NEW locked, Staged(R, steps, locked), steps # << >>
  PROVE  \E after : /\ Step(R, Head(steps), locked, after)
                    /\ Staged(R, Tail(steps), after)
<1>1. PICK p, h, k : On(R, steps, locked, p, h, k)
  BY DEF Staged
<1> DEFINE n == Len(p)
<1>2. /\ n \in Nat /\ k \in 1 .. n + 1 /\ p \in Seq(LockSteps)
      /\ steps = SubSeq(p, k, n) /\ locked = h[k]
      /\ \A i \in 1 .. n : Step(R, p[i], h[i], h[i + 1])
  BY <1>1 DEF On, Nested
<1> HIDE DEF n
<1>3. k \in 1 .. n
  <2>1. k = n + 1 => steps = << >>
    BY <1>2
  <2> QED  BY <1>2, <2>1
<1>4. Head(steps) = p[k] /\ Tail(steps) = SubSeq(p, k + 1, n)
  BY <1>2, <1>3 DEF n
<1>5. k + 1 \in 1 .. n + 1 /\ Nested(R, p, h)
  BY <1>1, <1>2, <1>3 DEF On
<1>6. On(R, Tail(steps), h[k + 1], p, h, k + 1)
  BY <1>4, <1>5 DEF On, n
<1>7. Step(R, Head(steps), locked, h[k + 1])
  BY <1>2, <1>3, <1>4
<1> QED  BY <1>6, <1>7 DEF Staged

(* A nested path starts with nothing held, and ends so. *)
LEMMA StageEnds ==
  ASSUME NEW R, NEW p, NEW h, Nested(R, p, h)
  PROVE  Staged(R, p, << >>) /\ p \in Seq(LockSteps) /\ Staged(R, << >>, << >>)
<1>1. /\ p \in Seq(LockSteps) /\ Len(p) \in Nat
      /\ h[1] = << >> /\ h[Len(p) + 1] = << >>
  BY DEF Nested
<1>2. SubSeq(p, 1, Len(p)) = p /\ SubSeq(p, Len(p) + 1, Len(p)) = << >>
  BY <1>1
<1>3. 1 \in 1 .. Len(p) + 1 /\ Len(p) + 1 \in 1 .. Len(p) + 1
  BY <1>1
<1>4. On(R, p, << >>, p, h, 1) /\ On(R, << >>, << >>, p, h, Len(p) + 1)
  BY <1>1, <1>2, <1>3 DEF On
<1> QED  BY <1>1, <1>4 DEF Staged

(* The paths of the kernel after boot, and boot. *)
LEMMA StageStarts ==
  /\ \A p \in Paths : Staged(Rank, p, << >>) /\ p \in Seq(LockSteps)
  /\ Staged(BootRank, BootVfs, << >>) /\ BootVfs \in Seq(LockSteps)
  /\ Staged(Rank, << >>, << >>) /\ Staged(BootRank, << >>, << >>)
<1>1. ASSUME NEW p \in Paths
      PROVE  Staged(Rank, p, << >>) /\ p \in Seq(LockSteps) /\ Staged(Rank, << >>, << >>)
  BY PathsNested, StageEnds
<1>2. Write \in Paths
  BY DEF Paths
<1> QED  BY <1>1, <1>2, BootVfsNested, StageEnds

(* Two short sequences with the same elements are equal. *)
LEMMA ShortEqual ==
  ASSUME NEW S, NEW s \in Seq(S), NEW r \in Seq(S), Len(s) = Len(r), Len(s) \in 1 .. 2,
         s[1] = r[1], Len(s) = 2 => s[2] = r[2]
  PROVE  s = r
<1>1. \A i \in 1 .. Len(s) : s[i] = r[i]
  OBVIOUS
<1> QED  BY <1>1, SeqEqual

(* A step takes its lock, or gives back the last one taken. *)
LEMMA StepEffect ==
  ASSUME NEW R, NEW step, NEW before, NEW after, Step(R, step, before, after)
  PROVE  /\ after \in Seq(OrderedLocks)
         /\ step # "drop" => after = Append(before, LockOf(step))
         /\ step = "drop" => after = Front(before)
<1>1. "drop" \notin OrderedLocks /\ \A l \in OrderedLocks : LockOf(l) = l
  BY LockNames DEF LockOf
<1>2. CASE \E l \in OrderedLocks : step = l /\ before = << >> /\ after = <<l>>
  <2>1. PICK l \in OrderedLocks : step = l /\ before = << >> /\ after = <<l>>
    BY <1>2
  <2>2. Append(<< >>, l) = <<l>> /\ <<l>> \in Seq(OrderedLocks)
    OBVIOUS
  <2> QED  BY <1>1, <2>1, <2>2
<1>3. CASE \E o, l \in OrderedLocks : step = l /\ before = <<o>> /\ after = <<o, l>>
  <2>1. PICK o, l \in OrderedLocks : step = l /\ before = <<o>> /\ after = <<o, l>>
    BY <1>3
  <2>2. Append(<<o>>, l) = <<o, l>>
    <3> DEFINE a == Append(<<o>>, l)
               b == <<o, l>>
    <3>1. /\ <<o>> \in Seq({o}) /\ Len(<<o>>) = 1 /\ <<o>>[1] = o
          /\ a \in Seq({o, l}) /\ b \in Seq({o, l})
      OBVIOUS
    <3>2. Len(a) = 2 /\ a[1] = o /\ a[2] = l
      BY <3>1
    <3>3. Len(b) = 2 /\ b[1] = o /\ b[2] = l
      OBVIOUS
    <3> HIDE DEF a, b
    <3>4. a = b
      BY <3>1, <3>2, <3>3, ShortEqual
    <3> QED  BY <3>4 DEF a, b
  <2>3. <<o, l>> \in Seq(OrderedLocks)
    OBVIOUS
  <2> QED  BY <1>1, <2>1, <2>2, <2>3
<1>4. CASE \E o \in OrderedLocks : step = "drop" /\ before = <<o>> /\ after = << >>
  <2>1. PICK o \in OrderedLocks : step = "drop" /\ before = <<o>> /\ after = << >>
    BY <1>4
  <2>2. Front(<<o>>) = << >> /\ << >> \in Seq(OrderedLocks)
    BY DEF Front
  <2> QED  BY <2>1, <2>2
<1>5. CASE \E o, l \in OrderedLocks : step = "drop" /\ before = <<o, l>> /\ after = <<o>>
  <2>1. PICK o, l \in OrderedLocks : step = "drop" /\ before = <<o, l>> /\ after = <<o>>
    BY <1>5
  <2>2. Front(<<o, l>>) = <<o>> /\ <<o>> \in Seq(OrderedLocks)
    <3> DEFINE a == SubSeq(<<o, l>>, 1, 1)
               b == <<o>>
    <3>1. Front(<<o, l>>) = a
      BY DEF Front
    <3>2. Len(a) = 1 /\ a[1] = o /\ a \in Seq(OrderedLocks)
      OBVIOUS
    <3>3. Len(b) = 1 /\ b[1] = o /\ b \in Seq(OrderedLocks)
      OBVIOUS
    <3> HIDE DEF a, b
    <3>4. a = b
      BY <3>2, <3>3, ShortEqual
    <3> QED  BY <3>1, <3>3, <3>4 DEF b
  <2> QED  BY <2>1, <2>2
<1>6. CASE step = "TRY_TABLE" /\ before = << >> /\ after = <<"TABLE">>
  <2>1. LockOf(step) = "TABLE" /\ "TABLE" \in OrderedLocks /\ step # "drop"
    BY <1>6, LockNames DEF LockOf
  <2>2. Append(<< >>, "TABLE") = <<"TABLE">> /\ <<"TABLE">> \in Seq(OrderedLocks)
    BY <2>1
  <2> QED  BY <1>6, <2>1, <2>2
<1> QED  BY <1>2, <1>3, <1>4, <1>5, <1>6 DEF Step

(* A thread with no steps left holds nothing. *)
LEMMA StageOver ==
  ASSUME NEW R, NEW locked, Staged(R, << >>, locked)
  PROVE  locked = << >>
<1>1. PICK q, h, k : On(R, << >>, locked, q, h, k)
  BY DEF Staged
<1>2. /\ Len(q) \in Nat /\ k \in 1 .. Len(q) + 1 /\ q \in Seq(LockSteps) /\ << >> = SubSeq(q, k, Len(q))
      /\ locked = h[k] /\ h[Len(q) + 1] = << >>
  BY <1>1 DEF On, Nested
<1>3. k = Len(q) + 1
  <2>1. PICK n \in Nat, i \in Nat : n = Len(q) /\ i = k
    BY <1>2
  <2>2. i \in 1 .. n + 1 /\ (i \in 1 .. n => Len(SubSeq(q, i, n)) = n - i + 1)
    BY <1>2, <2>1
  <2>3. Len(SubSeq(q, i, n)) = 0
    BY <1>2, <2>1
  <2>4. i \notin 1 .. n
    BY <2>2, <2>3
  <2> QED  BY <2>1, <2>2, <2>4
<1> QED  BY <1>2, <1>3

(* Every step keeps the invariant. *)
LEMMA LockStep == LockInv /\ [LocksNext]_lockVars => LockInv'
<1> SUFFICES ASSUME LockInv, [LocksNext]_lockVars PROVE LockInv'
  OBVIOUS
<1> DEFINE Pinned(t) == "TABLE" \in ToSet(held[t]) \/ "SCHEDULER" \in ToSet(held[t]) => t = running
           Alone == paths = 0 => \A t \in Threads \ {running} : todo[t] = << >> /\ held[t] = << >>
           Typed == /\ running \in Threads /\ paths \in Nat
                    /\ todo \in [Threads -> Seq(LockSteps)] /\ held \in [Threads -> Seq(OrderedLocks)]
           Placed == \A t \in Threads : Staged(Order, todo[t], held[t]) /\ Pinned(t)
<1>1. Typed /\ Placed /\ Alone
  BY DEF LockInv
<1>2. SUFFICES Typed' /\ Placed' /\ Alone'
  BY DEF LockInv
<1>3. CASE UNCHANGED lockVars
  <2>1. Order' = Order
    BY <1>3 DEF lockVars, Order
  <2> QED  BY <1>1, <1>3, <2>1 DEF lockVars
<1>4. ASSUME NEW p \in Paths, Enter(p)
      PROVE  Typed' /\ Placed' /\ Alone'
  <2>1. /\ todo' = [todo EXCEPT ![running] = p] /\ UNCHANGED <<held, running>> /\ todo[running] = << >>
        /\ paths' = paths + 1
    BY <1>4 DEF Enter
  <2>2. p \in Seq(LockSteps) /\ Staged(Rank, p, << >>) /\ Staged(Rank, << >>, << >>)
    BY StageStarts
  <2>3. held[running] = << >>
    BY <1>1, <2>1, StageOver
  <2>4. paths' \in Nat /\ paths' # 0 /\ Order' = Rank
    BY <1>1, <2>1 DEF Order
  <2>5. Typed' /\ Alone'
    BY <1>1, <2>1, <2>2, <2>4
  <2>6. ASSUME NEW t \in Threads PROVE Staged(Order', todo'[t], held'[t]) /\ Pinned(t)'
    <3>1. CASE t = running
      BY <1>1, <2>1, <2>2, <2>3, <2>4, <3>1
    <3>2. CASE t # running
      <4>1. todo'[t] = todo[t] /\ held'[t] = held[t]
        BY <1>1, <2>1, <3>2
      <4>2. CASE paths = 0
        BY <1>1, <2>1, <2>2, <2>4, <3>2, <4>1, <4>2
      <4>3. CASE paths # 0
        BY <1>1, <2>1, <2>4, <4>1, <4>3 DEF Order
      <4> QED  BY <4>2, <4>3
    <3> QED  BY <3>1, <3>2
  <2> QED  BY <2>5, <2>6
<1>5. ASSUME NEW after, Staged(Order, Tail(todo[running]), after), after \in Seq(OrderedLocks), todo[running] # << >>,
             todo' = [todo EXCEPT ![running] = Tail(@)], held' = [held EXCEPT ![running] = after],
             UNCHANGED <<running, paths>>
      PROVE  Typed' /\ Placed' /\ Alone'
  <2>1. Tail(todo[running]) \in Seq(LockSteps) /\ Order' = Order
    BY <1>1, <1>5 DEF Order
  <2>2. Typed' /\ Alone'
    BY <1>1, <1>5, <2>1
  <2>3. Placed'
    BY <1>1, <1>5, <2>1
  <2> QED  BY <2>2, <2>3
<1>6. CASE Lock
  <2>1. CASE UNCHANGED <<todo, held>>
    <3>1. UNCHANGED <<running, paths>> /\ Order' = Order
      BY <1>6 DEF Lock, Order
    <3> QED  BY <1>1, <2>1, <3>1
  <2>2. CASE ~ UNCHANGED <<todo, held>>
    <3>1. /\ todo[running] # << >> /\ Head(todo[running]) # "drop" /\ UNCHANGED <<running, paths>>
          /\ todo' = [todo EXCEPT ![running] = Tail(@)]
          /\ held' = [held EXCEPT ![running] = Append(@, LockOf(Head(todo[running])))]
      BY <1>6, <2>2 DEF Lock
    <3>2. PICK after : Step(Order, Head(todo[running]), held[running], after) /\ Staged(Order, Tail(todo[running]), after)
      BY <1>1, <3>1, StageStep
    <3>3. after = Append(held[running], LockOf(Head(todo[running]))) /\ after \in Seq(OrderedLocks)
      BY <3>1, <3>2, StepEffect
    <3>4. held' = [held EXCEPT ![running] = after]
      BY <3>1, <3>3
    <3> QED  BY <1>5, <3>1, <3>2, <3>3, <3>4
  <2> QED  BY <2>1, <2>2
<1>7. CASE Drop
  <2>1. /\ todo[running] # << >> /\ Head(todo[running]) = "drop" /\ UNCHANGED <<running, paths>>
        /\ todo' = [todo EXCEPT ![running] = Tail(@)]
        /\ held' = [held EXCEPT ![running] = Front(@)]
    BY <1>7 DEF Drop
  <2>2. PICK after : Step(Order, Head(todo[running]), held[running], after) /\ Staged(Order, Tail(todo[running]), after)
    BY <1>1, <2>1, StageStep
  <2>3. after = Front(held[running]) /\ after \in Seq(OrderedLocks)
    BY <2>1, <2>2, StepEffect
  <2>4. held' = [held EXCEPT ![running] = after]
    BY <2>1, <2>3
  <2> QED  BY <1>5, <2>1, <2>2, <2>3, <2>4
<1>8. ASSUME NEW t \in Threads, Preempt(t)
      PROVE  Typed' /\ Placed' /\ Alone'
  <2>1. Order' = Order /\ UNCHANGED <<todo, held, paths>> /\ running' = t /\ paths # 0
    BY <1>1, <1>8 DEF Preempt, Order
  <2>2. ~Taken("TABLE") /\ ~Taken("SCHEDULER")
    BY <1>8 DEF Preempt
  <2> QED  BY <1>1, <2>1, <2>2 DEF Taken
<1> HIDE DEF Typed, Placed, Alone
<1> QED  BY <1>3, <1>4, <1>6, <1>7, <1>8 DEF LocksNext

(* It holds at the start. *)
LEMMA LockStart == LocksInit => LockInv
<1> SUFFICES ASSUME LocksInit PROVE LockInv
  OBVIOUS
<1>1. /\ running \in Threads /\ paths = 0 /\ held = [t \in Threads |-> << >>]
      /\ todo = [t \in Threads |-> IF t = running THEN BootVfs ELSE << >>]
  BY DEF LocksInit
<1>2. << >> \in Seq(LockSteps) /\ << >> \in Seq(OrderedLocks) /\ Order = BootRank
  BY <1>1 DEF Order
<1>3. \A t \in Threads : Staged(Order, todo[t], held[t])
  BY <1>1, <1>2, StageStarts
<1>4. todo \in [Threads -> Seq(LockSteps)]
  BY <1>1, <1>2, StageStarts
<1> QED  BY <1>1, <1>2, <1>3, <1>4, HeldSets DEF LockInv

(* Who waits holds at most one lock, of a lower rank than the one it waits *)
(* for.                                                                    *)
LEMMA WaitsAbove ==
  ASSUME LockInv, NEW t \in Threads, Waits(t)
  PROVE  /\ Head(todo[t]) \in OrderedLocks
         /\ \A o \in ToSet(held[t]) : o \in OrderedLocks /\ Order[o] < Order[Head(todo[t])]
<1>1. Staged(Order, todo[t], held[t]) /\ todo[t] # << >> /\ Head(todo[t]) \in OrderedLocks
  BY DEF LockInv, Waits
<1>2. PICK after : Step(Order, Head(todo[t]), held[t], after)
  BY <1>1, StageStep
<1>3. Head(todo[t]) # "drop" /\ Head(todo[t]) # "TRY_TABLE"
  BY <1>1, LockNames
<1>4. CASE held[t] = << >>
  BY <1>1, <1>4, HeldSets
<1>5. CASE \E o, l \in OrderedLocks : Order[o] < Order[l] /\ Head(todo[t]) = l /\ held[t] = <<o>>
  <2>1. PICK o, l \in OrderedLocks : Order[o] < Order[l] /\ Head(todo[t]) = l /\ held[t] = <<o>>
    BY <1>5
  <2>2. ToSet(held[t]) = {o}
    BY <2>1, HeldSets
  <2> QED  BY <2>1, <2>2
<1> QED  BY <1>2, <1>3, <1>4, <1>5 DEF Step

(* There are four ranks, and nothing but the scheduler and the open files  *)
(* ranks above the process table.                                          *)
LEMMA RankType ==
  ASSUME NEW l \in OrderedLocks
  PROVE  /\ Order[l] \in 0 .. 3
         /\ ~(Order["SCHEDULER"] < Order[l])
         /\ Order["TABLE"] < Order[l] => l = "SCHEDULER" \/ l = "OPEN_FILES"
<1>1. CASE paths = 0
  BY <1>1, LockNames DEF Order, BootRank
<1>2. CASE paths # 0
  <2>1. Rank[l] \in 0 .. 3 /\ Rank["SCHEDULER"] = 3 /\ Rank["TABLE"] = 2
    BY LockNames DEF Rank
  <2>2. Rank[l] = 3 => l = "SCHEDULER" \/ l = "OPEN_FILES"
    BY LockNames DEF Rank
  <2> QED  BY <1>2, <2>1, <2>2 DEF Order
<1> QED  BY <1>1, <1>2

(* The invariant excludes circles: in a set of threads that all wait, the  *)
(* holder of the lock of the highest rank that is waited for would wait    *)
(* for a lock of a still higher one.                                       *)
LEMMA RanksExcludeCircles == LockInv => NoCircularWait
<1> SUFFICES ASSUME LockInv PROVE NoCircularWait
  OBVIOUS
<1>1. ASSUME NEW ts \in SUBSET Threads, ts # {}
      PROVE  \E t \in ts : \A u \in ts : ~WaitsFor(t, u)
  <2>1. SUFFICES ASSUME \A t \in ts : \E u \in ts : WaitsFor(t, u)
                 PROVE  FALSE
    OBVIOUS
  <2> DEFINE Wanted(r) == \E t \in ts : Waits(t) /\ Order[Head(todo[t])] = r
  <2>2. ASSUME NEW t \in ts
        PROVE  Waits(t) /\ Head(todo[t]) \in OrderedLocks /\ Order[Head(todo[t])] \in 0 .. 3
    BY <2>1, <2>2, WaitsAbove, RankType DEF WaitsFor
  <2>3. \A r \in 0 .. 3 : Wanted(r) => \E s \in 0 .. 3 : s > r /\ Wanted(s)
    <3> SUFFICES ASSUME NEW r \in 0 .. 3, Wanted(r)
                 PROVE  \E s \in 0 .. 3 : s > r /\ Wanted(s)
      OBVIOUS
    <3>1. PICK t \in ts : Waits(t) /\ Order[Head(todo[t])] = r
      OBVIOUS
    <3>2. PICK u \in ts : Head(todo[t]) \in ToSet(held[u])
      BY <2>1 DEF WaitsFor
    <3>3. Order[Head(todo[t])] < Order[Head(todo[u])]
      BY <2>2, <3>2, WaitsAbove
    <3>4. PICK s \in 0 .. 3 : s = Order[Head(todo[u])]
      BY <2>2
    <3>5. s > r
      BY <3>1, <3>3, <3>4
    <3>6. Wanted(s)
      BY <2>2, <3>4
    <3> QED  BY <3>5, <3>6
  <2>4. \E r \in 0 .. 3 : Wanted(r)
    <3>1. PICK t : t \in ts
      BY <1>1
    <3> QED  BY <2>2, <3>1
  <2> HIDE DEF Wanted
  <2>5. ~Wanted(3) /\ ~Wanted(2) /\ ~Wanted(1) /\ ~Wanted(0)
    <3>1. ~Wanted(3)
      BY <2>3
    <3>2. ~Wanted(2)
      <4>1. \A s \in 0 .. 3 : s > 2 => s = 3
        OBVIOUS
      <4> QED  BY <2>3, <3>1, <4>1
    <3>3. ~Wanted(1)
      <4>1. \A s \in 0 .. 3 : s > 1 => s = 2 \/ s = 3
        OBVIOUS
      <4> QED  BY <2>3, <3>1, <3>2, <4>1
    <3>4. ~Wanted(0)
      <4>1. \A s \in 0 .. 3 : s > 0 => s = 1 \/ s = 2 \/ s = 3
        OBVIOUS
      <4> QED  BY <2>3, <3>1, <3>2, <3>3, <4>1
    <3> QED  BY <3>1, <3>2, <3>3, <3>4
  <2>6. \A s \in 0 .. 3 : s = 0 \/ s = 1 \/ s = 2 \/ s = 3
    OBVIOUS
  <2> QED  BY <2>4, <2>5, <2>6
<1>2. ASSUME NEW u \in Threads, WaitsFor(running, u), TimerGivesUp
      PROVE  Head(todo[running]) = "OPEN_FILES"
  <2>1. running \in Threads /\ \A t \in Threads : "TABLE" \in ToSet(held[t]) \/ "SCHEDULER" \in ToSet(held[t]) => t = running
    BY DEF LockInv
  <2>2. Waits(running) /\ Head(todo[running]) \in ToSet(held[u])
    BY <1>2 DEF WaitsFor
  <2>3. /\ Head(todo[running]) \in OrderedLocks
        /\ \A o \in ToSet(held[running]) : o \in OrderedLocks /\ Order[o] < Order[Head(todo[running])]
    BY <2>1, <2>2, WaitsAbove
  <2>4. "SCHEDULER" \notin ToSet(held[running])
    BY <2>3, RankType
  <2>5. ~Taken("SCHEDULER")
    BY <2>1, <2>4 DEF Taken
  <2>6. "TABLE" \in ToSet(held[running])
    BY <1>2, <2>1, <2>5 DEF Taken, TimerGivesUp
  <2>7. Head(todo[running]) = "SCHEDULER" \/ Head(todo[running]) = "OPEN_FILES"
    BY <2>3, <2>6, RankType
  <2> QED  BY <2>2, <2>5, <2>7 DEF Taken
<1>3. \A ts \in (SUBSET Threads) \ {{}} : ts \in SUBSET Threads /\ ts # {}
  BY Zenon
<1> QED  BY <1>1, <1>2, <1>3 DEF NoCircularWait

(* No circle of threads that wait for each other, ever: for any number of  *)
(* threads and calls, in debug builds and others, at boot and whichever of *)
(* the paths meet after it.  And a thread that spins leaves the timer free *)
(* to run the holder of the lock, unless it spins for OPEN_FILES.          *)
THEOREM NoCircularWaitEver == LocksSpec => []NoCircularWait
BY LockStart, LockStep, RanksExcludeCircles, PTL DEF LocksSpec

-----------------------------------------------------------------------------
(* The rule table *)

AllRules == Rules \cup ToSet(Genesis)

(* Rules in the order of the table, and rules with names of their own.     *)
Descending(t) == \A i, j \in 1 .. Len(t) : i < j => t[i].priority >= t[j].priority
OwnNames(t) == \A i, j \in 1 .. Len(t) : t[i].name = t[j].name => i = j

(* The members of a sequence, by position. *)
LEMMA Members ==
  ASSUME NEW A, NEW t \in Seq(A)
  PROVE  ToSet(t) = {t[k] : k \in 1 .. Len(t)} /\ ToSet(t) \subseteq A
BY DEF ToSet

(* What InsertAt of the community modules does, by position. *)
LEMMA InsertAtElements ==
  ASSUME NEW A, NEW t \in Seq(A), NEW p \in 1 .. Len(t) + 1, NEW e \in A
  PROVE  /\ InsertAt(t, p, e) \in Seq(A) /\ Len(InsertAt(t, p, e)) = Len(t) + 1
         /\ \A k \in 1 .. Len(t) + 1 :
              InsertAt(t, p, e)[k] = IF k < p THEN t[k] ELSE IF k = p THEN e ELSE t[k - 1]
<1> DEFINE a == SubSeq(t, 1, p - 1)
           b == SubSeq(t, p, Len(t))
<1>1. Len(t) \in Nat /\ p \in Nat /\ p >= 1 /\ p <= Len(t) + 1
  OBVIOUS
<1>2. a \in Seq(A) /\ Len(a) = p - 1 /\ \A i \in 1 .. p - 1 : a[i] = t[i]
  BY <1>1
<1>3. b \in Seq(A) /\ Len(b) = Len(t) - p + 1 /\ \A i \in 1 .. Len(t) - p + 1 : b[i] = t[p + i - 1]
  BY <1>1
<1>4. InsertAt(t, p, e) = a \o <<e>> \o b
  BY DEF InsertAt
<1> HIDE DEF a, b
<1>5. (a \o <<e>>) \in Seq(A) /\ Len(a \o <<e>>) = p
      /\ \A i \in 1 .. p : (a \o <<e>>)[i] = IF i < p THEN t[i] ELSE e
  BY <1>1, <1>2
<1>6. PICK c \in Seq(A) : c = a \o <<e>>
  BY <1>5
<1>7. Len(c \o b) = Len(t) + 1 /\ c \o b \in Seq(A)
  <2>1. c \o b \in Seq(A) /\ Len(c \o b) = Len(c) + Len(b) /\ Len(c) = p
    BY <1>3, <1>5, <1>6, ConcatProperties
  <2> QED  BY <1>1, <1>3, <2>1
<1>8. ASSUME NEW k \in 1 .. Len(t) + 1
      PROVE  (c \o b)[k] = IF k < p THEN t[k] ELSE IF k = p THEN e ELSE t[k - 1]
  <2>1. CASE k <= p
    <3>1. (c \o b)[k] = c[k]
      BY <1>1, <1>3, <1>5, <1>6, <2>1
    <3> QED  BY <1>1, <1>5, <1>6, <2>1, <3>1
  <2>2. CASE k > p
    <3>1. (c \o b)[k] = b[k - p]
      BY <1>1, <1>3, <1>5, <1>6, <2>2
    <3>2. k - p \in 1 .. Len(t) - p + 1 /\ p + (k - p) - 1 = k - 1
      BY <1>1, <2>2
    <3>3. b[k - p] = t[k - 1]
      BY <1>3, <3>2
    <3> QED  BY <1>1, <2>2, <3>1, <3>3
  <2>3. k <= p \/ k > p
    BY <1>1
  <2> QED  BY <2>1, <2>2, <2>3
<1> QED  BY <1>4, <1>6, <1>7, <1>8

(* There is a place for every rule. *)
LEMMA PlaceFound ==
  ASSUME NEW A, \A a \in A : a.priority \in Nat, NEW t \in Seq(A), NEW r \in A
  PROVE  /\ Place(t, r) \in 1 .. Len(t) + 1
         /\ Place(t, r) = 1 \/ t[Place(t, r) - 1].priority >= r.priority
         /\ \A k \in Place(t, r) .. Len(t) : t[k].priority < r.priority
<1> DEFINE Fits(p) == /\ p = 1 \/ t[p - 1].priority >= r.priority
                      /\ \A k \in p .. Len(t) : t[k].priority < r.priority
           H == {k \in 1 .. Len(t) : t[k].priority >= r.priority}
<1>1. Len(t) \in Nat /\ r.priority \in Nat /\ \A k \in 1 .. Len(t) : t[k].priority \in Nat
  OBVIOUS
<1>2. \E p \in 1 .. Len(t) + 1 : Fits(p)
  <2>1. CASE H = {}
    <3>1. Fits(1) /\ 1 \in 1 .. Len(t) + 1
      BY <1>1, <2>1
    <3> QED  BY <3>1
  <2>2. CASE H # {}
    <3>1. H \in SUBSET Nat /\ \A h \in H : h <= Len(t)
      BY <1>1
    <3>2. PICK m \in H : \A y \in H : y <= m
      <4> HIDE DEF H
      <4> QED  BY <1>1, <2>2, <3>1, GreatestNat
    <3>3. Fits(m + 1) /\ m + 1 \in 1 .. Len(t) + 1
      BY <1>1, <3>2
    <3> QED  BY <3>3
  <2> QED  BY <2>1, <2>2
<1>3. Place(t, r) = CHOOSE p \in 1 .. Len(t) + 1 : Fits(p)
  BY DEF Place
<1>4. Fits(Place(t, r)) /\ Place(t, r) \in 1 .. Len(t) + 1
  <2> HIDE DEF Fits
  <2> QED  BY <1>2, <1>3
<1> QED  BY <1>4

(* One round of the sort: nothing is lost, the order is kept. *)
LEMMA InsertedSound ==
  ASSUME NEW A, \A a \in A : a.priority \in Nat, NEW t \in Seq(A), NEW r \in A
  PROVE  /\ Inserted(t, r) \in Seq(A) /\ Len(Inserted(t, r)) = Len(t) + 1
         /\ ToSet(Inserted(t, r)) = ToSet(t) \cup {r}
         /\ Descending(t) => Descending(Inserted(t, r))
         /\ OwnNames(t) /\ (\A k \in 1 .. Len(t) : t[k].name # r.name) => OwnNames(Inserted(t, r))
<1> DEFINE n == Len(t)
<1>1. PICK p \in 1 .. n + 1 : /\ p = Place(t, r)
                              /\ p = 1 \/ t[p - 1].priority >= r.priority
                              /\ \A k \in p .. n : t[k].priority < r.priority
  BY PlaceFound
<1>2. PICK u \in Seq(A) : /\ u = Inserted(t, r) /\ Len(u) = n + 1
                          /\ \A k \in 1 .. n + 1 : u[k] = IF k < p THEN t[k] ELSE IF k = p THEN r ELSE t[k - 1]
  BY <1>1, InsertAtElements DEF Inserted
<1>3. n \in Nat /\ r.priority \in Nat /\ \A k \in 1 .. n : t[k].priority \in Nat
  OBVIOUS
<1>4. ToSet(u) = ToSet(t) \cup {r}
  <2>1. ToSet(u) = {u[k] : k \in 1 .. n + 1} /\ ToSet(t) = {t[k] : k \in 1 .. n}
    BY <1>2, Members
  <2>2. ASSUME NEW x \in ToSet(u) PROVE x \in ToSet(t) \cup {r}
    <3>1. PICK k \in 1 .. n + 1 : x = u[k]
      BY <2>1
    <3>2. k < p => k \in 1 .. n
      BY <1>3
    <3>3. k > p => k - 1 \in 1 .. n
      BY <1>3
    <3>4. x = IF k < p THEN t[k] ELSE IF k = p THEN r ELSE t[k - 1]
      BY <1>2, <3>1
    <3>5. k < p \/ k = p \/ k > p
      BY <1>3
    <3> QED  BY <2>1, <3>2, <3>3, <3>4, <3>5
  <2>3. ASSUME NEW k \in 1 .. n PROVE t[k] \in ToSet(u)
    <3>1. CASE k < p
      <4>1. k \in 1 .. n + 1 /\ u[k] = t[k]
        BY <1>2, <1>3, <3>1
      <4> QED  BY <2>1, <4>1
    <3>2. CASE k >= p
      <4>1. k + 1 \in 1 .. n + 1 /\ ~(k + 1 < p) /\ k + 1 # p /\ k + 1 - 1 = k
        BY <1>3, <3>2
      <4>2. u[k + 1] = t[k]
        BY <1>2, <4>1
      <4> QED  BY <2>1, <4>1, <4>2
    <3> QED  BY <1>3, <3>1, <3>2
  <2>4. r \in ToSet(u)
    BY <1>2, <2>1
  <2> QED  BY <2>1, <2>2, <2>3, <2>4
<1>5. ASSUME Descending(t) PROVE Descending(u)
  <2> SUFFICES ASSUME NEW i \in 1 .. n + 1, NEW j \in 1 .. n + 1, i < j PROVE u[i].priority >= u[j].priority
    BY <1>2 DEF Descending
  <2>1. \A k, m \in 1 .. n : k < m => t[k].priority >= t[m].priority
    BY <1>5 DEF Descending
  <2>2. \A k \in 1 .. n : k < p => t[k].priority >= r.priority
    <3> SUFFICES ASSUME NEW k \in 1 .. n, k < p PROVE t[k].priority >= r.priority
      OBVIOUS
    <3>1. p - 1 \in 1 .. n /\ t[p - 1].priority >= r.priority /\ (k = p - 1 \/ k < p - 1)
      BY <1>1, <1>3
    <3>2. t[k].priority >= t[p - 1].priority
      BY <1>3, <2>1, <3>1
    <3> QED  BY <1>3, <3>1, <3>2
  <2>3. \A k \in 1 .. n : k >= p => r.priority >= t[k].priority
    BY <1>1, <1>3
  <2>4. CASE j < p
    <3>1. i < p /\ i \in 1 .. n /\ j \in 1 .. n
      BY <1>3, <2>4
    <3>2. u[i] = t[i] /\ u[j] = t[j]
      BY <1>2, <2>4, <3>1
    <3> QED  BY <2>1, <3>1, <3>2
  <2>5. CASE j = p
    <3>1. i < p /\ i \in 1 .. n
      BY <1>3, <2>5
    <3>2. u[i] = t[i] /\ u[j] = r
      BY <1>2, <2>5, <3>1
    <3> QED  BY <2>2, <3>1, <3>2
  <2>6. CASE j > p /\ i < p
    <3>1. u[i] = t[i] /\ u[j] = t[j - 1] /\ i \in 1 .. n /\ j - 1 \in 1 .. n /\ i < j - 1
      BY <1>2, <1>3, <2>6
    <3> QED  BY <2>1, <3>1
  <2>7. CASE j > p /\ i = p
    <3>1. u[i] = r /\ u[j] = t[j - 1] /\ j - 1 \in 1 .. n /\ j - 1 >= p
      BY <1>2, <1>3, <2>7
    <3> QED  BY <2>3, <3>1
  <2>8. CASE j > p /\ i > p
    <3>1. u[i] = t[i - 1] /\ u[j] = t[j - 1] /\ i - 1 \in 1 .. n /\ j - 1 \in 1 .. n /\ i - 1 < j - 1
      BY <1>2, <1>3, <2>8
    <3> QED  BY <2>1, <3>1
  <2> QED  BY <1>3, <2>4, <2>5, <2>6, <2>7, <2>8
<1>6. ASSUME OwnNames(t), \A k \in 1 .. n : t[k].name # r.name PROVE OwnNames(u)
  <2> DEFINE at(k) == IF k < p THEN k ELSE k - 1
  <2>1. \A k \in 1 .. n + 1 : k # p => at(k) \in 1 .. n /\ u[k] = t[at(k)]
    BY <1>2, <1>3
  <2>2. u[p] = r
    BY <1>2
  <2>3. \A k, m \in 1 .. n + 1 : k # p /\ m # p /\ at(k) = at(m) => k = m
    BY <1>3
  <2>4. \A k, m \in 1 .. n : t[k].name = t[m].name => k = m
    BY <1>6 DEF OwnNames
  <2> HIDE DEF at
  <2>5. ASSUME NEW k \in 1 .. n + 1, NEW m \in 1 .. n + 1, u[k].name = u[m].name PROVE k = m
    <3>1. CASE k = p
      BY <1>6, <2>1, <2>2, <2>5, <3>1
    <3>2. CASE m = p
      BY <1>6, <2>1, <2>2, <2>5, <3>2
    <3>3. CASE k # p /\ m # p
      <4>1. at(k) \in 1 .. n /\ at(m) \in 1 .. n /\ u[k] = t[at(k)] /\ u[m] = t[at(m)]
        BY <2>1, <3>3, Zenon
      <4>2. t[at(k)].name = t[at(m)].name
        BY <2>5, <4>1, Zenon
      <4>3. at(k) = at(m)
        BY <2>4, <4>1, <4>2, Zenon
      <4> QED  BY <2>3, <3>3, <4>3, Zenon
    <3> QED  BY <3>1, <3>2, <3>3
  <2> QED  BY <1>2, <2>5 DEF OwnNames
<1> QED  BY <1>2, <1>4, <1>5, <1>6

(* The insertion sort: nothing is lost, the rules are in order. *)
LEMMA SortedSound ==
  ASSUME NEW A, \A a \in A : a.priority \in Nat, NEW s \in Seq(A)
  PROVE  /\ Sorted(s) \in Seq(A) /\ Len(Sorted(s)) = Len(s) /\ ToSet(Sorted(s)) = ToSet(s)
         /\ Descending(Sorted(s)) /\ (OwnNames(s) => OwnNames(Sorted(s)))
<1> DEFINE n == Len(s)
           B == Seq(A)
           F == [p \in B \X (1 .. n) |-> Inserted(p[1], s[p[2]])]
           IsLoop(f) == f = [i \in 0 .. n |-> IF i = 0 THEN << >> ELSE Inserted(f[i - 1], s[i])]
<1>1. n \in Nat /\ << >> \in B /\ \A i \in 1 .. n : s[i] \in A
  OBVIOUS
<1>2. ASSUME NEW t \in B, NEW r \in A PROVE Inserted(t, r) \in B
  BY InsertedSound
<1> HIDE DEF n, B
<1>3. F \in [B \X (1 .. n) -> B]
  BY <1>1, <1>2
<1>4. \E f : IsLoop(f)
  <2> HIDE DEF F, IsLoop
  <2>1. PICK f : IsRun(f, n, B, << >>, F)
    BY <1>1, <1>3, FiniteRun
  <2>2. ASSUME NEW i \in 1 .. n PROVE f[i] = Inserted(f[i - 1], s[i])
    <3>1. f[i - 1] \in B
      BY <1>1, <2>1 DEF IsRun
    <3>2. <<f[i - 1], i>> \in B \X (1 .. n)
      BY <3>1
    <3>3. F[<<f[i - 1], i>>] = Inserted(f[i - 1], s[i])
      BY <3>2 DEF F
    <3> QED  BY <2>1, <3>3 DEF IsRun
  <2>3. f = [i \in 0 .. n |-> IF i = 0 THEN << >> ELSE Inserted(f[i - 1], s[i])]
    BY <1>1, <2>1, <2>2 DEF IsRun
  <2> QED  BY <2>3 DEF IsLoop
<1>5. PICK f : IsLoop(f) /\ Sorted(s) = f[n]
  <2>1. Sorted(s) = (CHOOSE f : IsLoop(f))[n]
    BY DEF Sorted, n
  <2> HIDE DEF IsLoop
  <2> QED  BY <1>4, <2>1
<1>6. f[0] = << >> /\ \A i \in 1 .. n : f[i] = Inserted(f[i - 1], s[i])
  <2>1. 0 \in 0 .. n /\ \A i \in 1 .. n : i \in 0 .. n /\ i # 0
    BY <1>1
  <2> QED  BY <1>5, <2>1
<1> DEFINE Done(i) == /\ f[i] \in B /\ Len(f[i]) = i /\ ToSet(f[i]) = {s[k] : k \in 1 .. i}
                      /\ Descending(f[i]) /\ (OwnNames(s) => OwnNames(f[i]))
           T == {i \in 0 .. n : Done(i)}
<1> HIDE DEF IsLoop
<1>7. 0 \in T
  BY <1>1, <1>6 DEF Descending, OwnNames, ToSet
<1>8. ASSUME NEW i \in 1 .. n, i - 1 \in T PROVE i \in T
  <2>1. Done(i - 1)
    BY <1>8
  <2>2. PICK t \in B : /\ t = f[i - 1] /\ Len(t) = i - 1 /\ ToSet(t) = {s[k] : k \in 1 .. i - 1}
                       /\ Descending(t) /\ (OwnNames(s) => OwnNames(t))
    BY <2>1
  <2>3. PICK u : u = f[i] /\ u = Inserted(t, s[i])
    BY <1>6, <2>2
  <2>4. /\ u \in B /\ Len(u) = i /\ ToSet(u) = ToSet(t) \cup {s[i]} /\ Descending(u)
        /\ OwnNames(t) /\ (\A k \in 1 .. Len(t) : t[k].name # s[i].name) => OwnNames(u)
    <3>1. s[i] \in A /\ t \in Seq(A)
      BY <1>1 DEF B
    <3>2. PICK r \in A : r = s[i]
      BY <3>1
    <3>3. u = Inserted(t, r) /\ Descending(t)
      BY <2>2, <2>3, <3>2
    <3>4. /\ u \in Seq(A) /\ Len(u) = Len(t) + 1 /\ ToSet(u) = ToSet(t) \cup {r} /\ Descending(u)
          /\ OwnNames(t) /\ (\A k \in 1 .. Len(t) : t[k].name # r.name) => OwnNames(u)
      BY <3>1, <3>3, InsertedSound, ZenonT(40)
    <3> QED  BY <1>1, <2>2, <3>2, <3>4 DEF B
  <2>5. ToSet(u) = {s[k] : k \in 1 .. i}
    <3>1. \A k \in 1 .. i : k = i \/ k \in 1 .. i - 1
      BY <1>1
    <3>2. \A k \in 1 .. i - 1 : k \in 1 .. i
      BY <1>1
    <3> QED  BY <1>1, <2>2, <2>4, <3>1, <3>2
  <2>6. OwnNames(s) => OwnNames(u)
    <3> SUFFICES ASSUME OwnNames(s) PROVE OwnNames(u)
      OBVIOUS
    <3>1. ASSUME NEW k \in 1 .. Len(t) PROVE t[k].name # s[i].name
      <4>1. t[k] \in ToSet(t)
        BY <2>2 DEF B, ToSet
      <4>2. PICK h \in 1 .. i - 1 : t[k] = s[h]
        BY <2>2, <4>1
      <4>3. h \in 1 .. n /\ h # i
        BY <1>1
      <4> QED  BY <4>2, <4>3 DEF OwnNames, n
    <3> QED  BY <2>2, <2>4, <3>1
  <2>7. i \in 0 .. n
    BY <1>1
  <2>8. Done(i)
    BY <2>3, <2>4, <2>5, <2>6
  <2> HIDE DEF Done
  <2> QED  BY <2>7, <2>8
<1>9. n \in T
  <2> HIDE DEF T
  <2>1. \A i \in 0 .. n : i \in T
    BY <1>1, <1>7, <1>8, CountUp
  <2> QED  BY <1>1, <2>1
<1>10. Done(n)
  BY <1>9
<1>11. ToSet(s) = {s[k] : k \in 1 .. n}
  BY Members DEF n
<1> QED  BY <1>5, <1>10, <1>11 DEF B, n

(* The least index of a set. *)
LEMMA FirstIs ==
  ASSUME NEW T \in SUBSET Nat, T # {}
  PROVE  First(T) \in T /\ \A j \in T : First(T) <= j
BY LeastNat DEF First

(* Rules with names of their own are as many as the table is long. *)
LEMMA TableCounts ==
  ASSUME NEW A, NEW t \in Seq(A), OwnNames(t)
  PROVE  Len(t) = Cardinality(ToSet(t))
<1>1. ToSet(t) = {t[k] : k \in 1 .. Len(t)} /\ Len(t) \in Nat
  BY Members
<1> DEFINE f == [k \in 1 .. Len(t) |-> t[k]]
<1>2. f \in [1 .. Len(t) -> ToSet(t)]
  BY <1>1
<1>3. f \in Injection(1 .. Len(t), ToSet(t))
  <2>1. ASSUME NEW i \in 1 .. Len(t), NEW j \in 1 .. Len(t), f[i] = f[j] PROVE i = j
    BY <2>1 DEF OwnNames
  <2> QED  BY <1>2, <2>1 DEF Injection, IsInjective
<1>4. f \in Surjection(1 .. Len(t), ToSet(t))
  BY <1>1, <1>2 DEF Surjection
<1>5. ExistsBijection(1 .. Len(t), ToSet(t))
  BY <1>3, <1>4 DEF ExistsBijection, Bijection
<1> QED  BY <1>1, <1>5, FS_CountingElements

(* What RemoveAt of the community modules does, by position. *)
LEMMA RemoveAtElements ==
  ASSUME NEW A, NEW t \in Seq(A), NEW p \in 1 .. Len(t)
  PROVE  /\ RemoveAt(t, p) \in Seq(A) /\ Len(RemoveAt(t, p)) = Len(t) - 1
         /\ \A k \in 1 .. Len(t) - 1 : RemoveAt(t, p)[k] = IF k < p THEN t[k] ELSE t[k + 1]
<1> DEFINE a == SubSeq(t, 1, p - 1)
           b == SubSeq(t, p + 1, Len(t))
<1>1. Len(t) \in Nat /\ p \in Nat /\ p >= 1 /\ p <= Len(t)
  OBVIOUS
<1>2. a \in Seq(A) /\ Len(a) = p - 1 /\ \A i \in 1 .. p - 1 : a[i] = t[i]
  BY <1>1
<1>3. b \in Seq(A) /\ Len(b) = Len(t) - p /\ \A i \in 1 .. Len(t) - p : b[i] = t[p + i]
  BY <1>1
<1>4. RemoveAt(t, p) = a \o b
  BY DEF RemoveAt
<1> HIDE DEF a, b
<1>5. a \o b \in Seq(A) /\ Len(a \o b) = Len(t) - 1
  <2>1. a \o b \in Seq(A) /\ Len(a \o b) = Len(a) + Len(b)
    BY <1>2, <1>3, ConcatProperties
  <2> QED  BY <1>1, <1>2, <1>3, <2>1
<1>6. ASSUME NEW k \in 1 .. Len(t) - 1
      PROVE  (a \o b)[k] = IF k < p THEN t[k] ELSE t[k + 1]
  <2>1. CASE k < p
    <3>1. (a \o b)[k] = a[k]
      BY <1>1, <1>2, <1>3, <2>1
    <3> QED  BY <1>1, <1>2, <2>1, <3>1
  <2>2. CASE k >= p
    <3>1. (a \o b)[k] = b[k - (p - 1)]
      BY <1>1, <1>2, <1>3, <2>2
    <3>2. k - (p - 1) \in 1 .. Len(t) - p /\ p + (k - (p - 1)) = k + 1
      BY <1>1, <2>2
    <3>3. b[k - (p - 1)] = t[k + 1]
      BY <1>3, <3>2
    <3> QED  BY <1>1, <2>2, <3>1, <3>3
  <2>3. k < p \/ k >= p
    BY <1>1
  <2> QED  BY <2>1, <2>2, <2>3
<1> QED  BY <1>4, <1>5, <1>6

(* The table: sorted, without a rule twice, and what the callers asked for. *)
RuleInv ==
  /\ rules \in Seq(AllRules) /\ Len(rules) <= MaxRules
  /\ Descending(rules) /\ OwnNames(rules) /\ wanted = ToSet(rules)

LEMMA RulePriorities ==
  \A r \in AllRules : r.priority \in Nat
BY RulesAssumption DEF AllRules

(* What load_rules leaves. *)
LEMMA LoadedSound ==
  /\ Loaded(Genesis) \in Seq(AllRules) /\ Len(Loaded(Genesis)) <= MaxRules
  /\ Descending(Loaded(Genesis)) /\ OwnNames(Loaded(Genesis))
<1> DEFINE n == IF Len(Genesis) < MaxRules THEN Len(Genesis) ELSE MaxRules
           s == SubSeq(Genesis, 1, n)
<1>1. Genesis \in Seq(AllRules) /\ MaxRules \in Nat /\ n \in Nat /\ n <= MaxRules /\ n <= Len(Genesis)
  BY RulesAssumption DEF AllRules
<1>2. s \in Seq(AllRules) /\ Len(s) = n /\ \A i \in 1 .. n : s[i] = Genesis[i]
  BY <1>1
<1>3. OwnNames(s)
  BY <1>1, <1>2, GenesisAssumption DEF OwnNames
<1> HIDE DEF n
<1>4. /\ Sorted(s) \in Seq(AllRules) /\ Len(Sorted(s)) = n
      /\ Descending(Sorted(s)) /\ OwnNames(Sorted(s))
  <2> HIDE DEF s
  <2> QED  BY <1>2, <1>3, RulePriorities, SortedSound
<1>5. Loaded(Genesis) = Sorted(s)
  BY DEF Loaded, n
<1> QED  BY <1>1, <1>4, <1>5

LEMMA RuleInvInit == RulesInit => RuleInv
BY LoadedSound DEF RulesInit, RuleInv

(* Where First(Named) points. *)
LEMMA NamedAt ==
  ASSUME RuleInv, NEW name, Named(name) # {}
  PROVE  First(Named(name)) \in 1 .. Len(rules) /\ rules[First(Named(name))].name = name
<1>1. Named(name) \in SUBSET Nat /\ \A i \in Named(name) : i \in 1 .. Len(rules) /\ rules[i].name = name
  BY DEF Named, RuleInv
<1>2. First(Named(name)) \in Named(name)
  BY <1>1, FirstIs
<1> QED  BY <1>1, <1>2

LEMMA RuleInvNext == RuleInv /\ [RulesNext]_ruleVars => RuleInv'
<1> SUFFICES ASSUME RuleInv, [RulesNext]_ruleVars PROVE RuleInv'
  OBVIOUS
<1> DEFINE n == Len(rules)
<1>1. /\ rules \in Seq(AllRules) /\ n \in Nat /\ n <= MaxRules /\ MaxRules \in Nat
      /\ Descending(rules) /\ OwnNames(rules) /\ wanted = ToSet(rules)
  BY RulesAssumption DEF RuleInv
<1>2. \A i \in 1 .. n : rules[i] \in AllRules
  BY <1>1
<1>3. \A i, j \in 1 .. n : rules[i].name = rules[j].name => i = j
  BY <1>1 DEF OwnNames
<1>4. CASE Load
  BY <1>4, LoadedSound DEF Load, RuleInv
<1>5. ASSUME NEW r \in Rules, Fresh(r), AddRule(r) PROVE RuleInv'
  <2>1. CASE n >= MaxRules
    BY <1>1, <1>5, <2>1 DEF AddRule, RuleInv
  <2>2. CASE n < MaxRules
    <3> DEFINE s == Append(rules, r)
    <3>1. r \in AllRules /\ rules' = Sorted(s) /\ wanted' = wanted \cup {r}
      BY <1>1, <1>5, <2>2 DEF AddRule, AllRules
    <3>2. s \in Seq(AllRules) /\ Len(s) = n + 1 /\ s[n + 1] = r /\ \A i \in 1 .. n : s[i] = rules[i]
      BY <1>1, <3>1
    <3>3. \A i \in 1 .. n : rules[i].name # r.name
      BY <1>1, <1>5 DEF Fresh, Named
    <3> HIDE DEF s
    <3>4. OwnNames(s)
      <4>1. \A i \in 1 .. n + 1 : i \in 1 .. n \/ i = n + 1
        BY <1>1
      <4> QED  BY <1>3, <3>2, <3>3, <4>1 DEF OwnNames
    <3>5. ToSet(s) = ToSet(rules) \cup {r}
      <4>1. ToSet(s) = {s[k] : k \in 1 .. n + 1} /\ ToSet(rules) = {rules[k] : k \in 1 .. n}
        BY <1>1, <3>2, Members
      <4>2. 1 .. n + 1 = (1 .. n) \cup {n + 1}
        BY <1>1
      <4> QED  BY <3>2, <4>1, <4>2
    <3>6. /\ Sorted(s) \in Seq(AllRules) /\ Len(Sorted(s)) = Len(s) /\ ToSet(Sorted(s)) = ToSet(s)
          /\ Descending(Sorted(s)) /\ OwnNames(Sorted(s))
      BY <3>2, <3>4, RulePriorities, SortedSound
    <3>7. Len(rules') <= MaxRules
      BY <1>1, <2>2, <3>1, <3>2, <3>6
    <3> QED  BY <1>1, <3>1, <3>5, <3>6, <3>7 DEF RuleInv
  <2> QED  BY <1>1, <2>1, <2>2
<1>6. ASSUME NEW name, RemoveRule(name) PROVE RuleInv'
  <2>1. CASE Named(name) = {}
    BY <1>1, <1>6, <2>1 DEF RemoveRule, RuleInv
  <2>2. CASE Named(name) # {}
    <3>1. PICK p \in 1 .. n : /\ rules' = RemoveAt(rules, p) /\ wanted' = wanted \ {rules[p]}
      BY <1>6, <2>2, NamedAt DEF RemoveRule
    <3>2. PICK u \in Seq(AllRules) : /\ u = rules' /\ Len(u) = n - 1
                                     /\ \A k \in 1 .. n - 1 : u[k] = IF k < p THEN rules[k] ELSE rules[k + 1]
      BY <1>1, <3>1, RemoveAtElements
    <3> DEFINE at(k) == IF k < p THEN k ELSE k + 1
    <3>3. /\ \A k \in 1 .. n - 1 : at(k) \in 1 .. n /\ at(k) # p /\ u[k] = rules[at(k)]
          /\ \A i, j \in 1 .. n - 1 : (i < j => at(i) < at(j)) /\ (at(i) = at(j) => i = j)
      BY <1>1, <3>2
    <3>4. \A k \in 1 .. n : k # p => \E i \in 1 .. n - 1 : at(i) = k
      <4> SUFFICES ASSUME NEW k \in 1 .. n, k # p PROVE \E i \in 1 .. n - 1 : at(i) = k
        OBVIOUS
      <4>1. CASE k < p
        <5>1. k \in 1 .. n - 1 /\ at(k) = k
          BY <1>1, <4>1
        <5> QED  BY <5>1
      <4>2. CASE k > p
        <5>1. k - 1 \in 1 .. n - 1 /\ at(k - 1) = k
          BY <1>1, <4>2
        <5> QED  BY <5>1
      <4> QED  BY <4>1, <4>2
    <3> HIDE DEF at
    <3>5. Descending(u)
      <4> SUFFICES ASSUME NEW i \in 1 .. n - 1, NEW j \in 1 .. n - 1, i < j
                   PROVE  u[i].priority >= u[j].priority
        BY <3>2 DEF Descending
      <4>1. PICK k \in 1 .. n, m \in 1 .. n : k < m /\ u[i] = rules[k] /\ u[j] = rules[m]
        BY <3>3
      <4>2. rules[k].priority >= rules[m].priority
        BY <1>1, <4>1 DEF Descending
      <4> QED  BY <4>1, <4>2
    <3>6. OwnNames(u)
      BY <1>3, <3>2, <3>3 DEF OwnNames
    <3>7. ToSet(u) = ToSet(rules) \ {rules[p]}
      <4>1. ToSet(u) = {u[k] : k \in 1 .. n - 1} /\ ToSet(rules) = {rules[k] : k \in 1 .. n}
        BY <1>1, <3>2, Members
      <4>2. \A k \in 1 .. n : rules[k] = rules[p] => k = p
        BY <1>3
      <4>3. ASSUME NEW x \in ToSet(u) PROVE x \in ToSet(rules) \ {rules[p]}
        BY <3>3, <4>1, <4>2
      <4>4. ASSUME NEW x \in ToSet(rules) \ {rules[p]} PROVE x \in ToSet(u)
        <5>1. PICK k \in 1 .. n : x = rules[k] /\ k # p
          BY <4>1
        <5>2. PICK i \in 1 .. n - 1 : at(i) = k
          BY <3>4, <5>1
        <5> QED  BY <3>3, <4>1, <5>1, <5>2
      <4> QED  BY <4>3, <4>4
    <3>8. Len(u) <= MaxRules
      BY <1>1, <3>2
    <3> QED  BY <1>1, <3>1, <3>2, <3>5, <3>6, <3>7, <3>8 DEF RuleInv
  <2> QED  BY <2>1, <2>2
<1>7. ASSUME NEW name, NEW r \in Rules, Fresh(r) \/ r.name = name, ReplaceRule(name, r) PROVE RuleInv'
  <2>1. CASE Named(name) = {}
    BY <1>1, <1>7, <2>1 DEF ReplaceRule, RuleInv
  <2>2. CASE Named(name) # {}
    <3> DEFINE q == First(Named(name))
    <3>1. PICK p \in 1 .. n : p = q /\ rules[p].name = name
      BY <2>2, NamedAt
    <3> DEFINE s == [rules EXCEPT ![p] = r]
    <3>2. r \in AllRules /\ rules' = Sorted(s) /\ wanted' = (wanted \ {rules[p]}) \cup {r}
      BY <1>7, <2>2, <3>1 DEF ReplaceRule, AllRules
    <3>3. s \in Seq(AllRules) /\ Len(s) = n /\ \A i \in 1 .. n : s[i] = IF i = p THEN r ELSE rules[i]
      BY <1>1, <3>2
    <3>4. \A i \in 1 .. n : i # p => rules[i].name # r.name
      <4>1. CASE Fresh(r)
        BY <1>1, <4>1 DEF Fresh, Named
      <4>2. CASE r.name = name
        BY <1>3, <3>1, <4>2
      <4> QED  BY <1>7, <4>1, <4>2
    <3> HIDE DEF s, q
    <3>5. OwnNames(s)
      BY <1>3, <3>3, <3>4 DEF OwnNames
    <3>6. ToSet(s) = (ToSet(rules) \ {rules[p]}) \cup {r}
      <4>1. ToSet(s) = {s[k] : k \in 1 .. n} /\ ToSet(rules) = {rules[k] : k \in 1 .. n}
        BY <1>1, <3>3, Members
      <4>2. \A k \in 1 .. n : rules[k] = rules[p] => k = p
        BY <1>3
      <4> QED  BY <3>3, <4>1, <4>2
    <3>7. /\ Sorted(s) \in Seq(AllRules) /\ Len(Sorted(s)) = Len(s) /\ ToSet(Sorted(s)) = ToSet(s)
          /\ Descending(Sorted(s)) /\ OwnNames(Sorted(s))
      BY <3>3, <3>5, RulePriorities, SortedSound
    <3> QED  BY <1>1, <3>2, <3>3, <3>6, <3>7 DEF RuleInv
  <2> QED  BY <2>1, <2>2
<1>8. CASE UNCHANGED ruleVars
  BY <1>8 DEF ruleVars, RuleInv
<1> QED  BY <1>4, <1>5, <1>6, <1>7, <1>8 DEF RulesNext

(* What the invariant says of an evaluation. *)
LEMMA RuleDecides == RuleInv => HighestRuleDecides
<1> SUFFICES ASSUME RuleInv PROVE HighestRuleDecides
  OBVIOUS
<1> DEFINE n == Len(rules)
<1>1. /\ rules \in Seq(AllRules) /\ n \in Nat /\ n <= MaxRules
      /\ Descending(rules) /\ wanted = ToSet(rules) /\ n = Cardinality(wanted)
  BY TableCounts DEF RuleInv
<1>2. wanted = {rules[k] : k \in 1 .. n}
  BY <1>1, Members
<1>3. \A i \in 1 .. n : rules[i].priority \in Nat
  BY <1>1, RulePriorities
<1>4. ASSUME NEW ctx \in Contexts, \A r \in wanted : ~Matches(r, ctx)
      PROVE  Evaluate(ctx) = "Allow"
  <2>1. \A i \in 1 .. n : ~Matches(rules[i], ctx)
    BY <1>2, <1>4
  <2>2. DOMAIN rules = 1 .. n
    BY <1>1
  <2>3. Hits(ctx) = {}
    BY <2>1, <2>2 DEF Hits
  <2> QED  BY <2>3 DEF Evaluate
<1>5. ASSUME NEW ctx \in Contexts, NEW w \in wanted, Matches(w, ctx)
      PROVE  \E r \in wanted : /\ Matches(r, ctx) /\ r.action = Evaluate(ctx)
                               /\ \A q \in wanted : Matches(q, ctx) => q.priority <= r.priority
  <2>1. Hits(ctx) \in SUBSET Nat /\ \A i : i \in Hits(ctx) <=> i \in 1 .. n /\ Matches(rules[i], ctx)
    BY <1>1 DEF Hits
  <2>2. Hits(ctx) # {}
    BY <1>2, <1>5, <2>1
  <2>3. PICK m : m \in Hits(ctx) /\ m = First(Hits(ctx)) /\ \A j \in Hits(ctx) : m <= j
    BY <2>1, <2>2, FirstIs
  <2>4. m \in 1 .. n /\ Matches(rules[m], ctx) /\ Evaluate(ctx) = rules[m].action
    BY <2>1, <2>2, <2>3 DEF Evaluate
  <2>5. ASSUME NEW q \in wanted, Matches(q, ctx) PROVE q.priority <= rules[m].priority
    <3>1. PICK k \in 1 .. n : q = rules[k]
      BY <1>2
    <3>2. k \in Hits(ctx) /\ (m = k \/ m < k)
      BY <2>1, <2>3, <2>4, <2>5, <3>1
    <3>3. rules[m].priority >= rules[k].priority
      BY <1>1, <1>3, <2>4, <3>2 DEF Descending
    <3> QED  BY <1>3, <2>4, <3>1, <3>3
  <2>6. rules[m] \in wanted
    BY <1>2, <2>4
  <2> QED  BY <2>4, <2>5, <2>6
<1> QED  BY <1>1, <1>4, <1>5 DEF HighestRuleDecides

(* `Rules are evaluated in priority-descending order; first match wins': for *)
(* every genesis table, every size of the table and every sequence of       *)
(* loads, additions, removals and replacements, a context gets the action   *)
(* of a matching rule of the highest priority among the rules in force, and *)
(* the sort has lost or doubled none.                                       *)
THEOREM HighestRuleDecidesEver == RulesSpec => []HighestRuleDecides
<1>1. RulesInit => RuleInv
  BY RuleInvInit
<1>2. RuleInv /\ [RulesNext]_ruleVars => RuleInv'
  BY RuleInvNext
<1>3. RuleInv => HighestRuleDecides
  BY RuleDecides
<1> QED  BY <1>1, <1>2, <1>3, PTL DEF RulesSpec

-----------------------------------------------------------------------------
(* The council *)

LoopType == [active: BOOLEAN, buffer_count: Nat, updates: Nat, start: Nat]

(* The updates of one model since a tick, one pair for each. *)
UpdatePairs(a, first) == {u \in (first .. MaxTick) \X (1 .. MaxUpdates + 1) : u[2] <= a[u[1]]}

(* The learning loop of a model against the updates a that it has made by  *)
(* tick `now': its period has seen what it has counted, each of them before *)
(* the period ran out, and none is in the future.                          *)
LoopFollows(l, a, now) ==
  /\ l.start <= now /\ l.updates <= MaxUpdates
  /\ \A t \in 0 .. MaxTick : /\ t > now => a[t] = 0
                             /\ t >= l.start => a[t] <= l.updates
                             /\ t >= l.start /\ a[t] > 0 => t < l.start + Period
  /\ Cardinality(UpdatePairs(a, l.start)) = l.updates

CouncilTyped ==
  /\ weights \in [Models -> Nat] /\ weight_hash \in [Models -> Nat] /\ golden \in [Models -> Nat]
  /\ learning \in [Models -> LoopType] /\ applied \in [Models -> [0 .. MaxTick -> Nat]]
  /\ current_tick \in 0 .. MaxTick /\ changes \in Nat

(* The weights of a model that memory has left alone. *)
WeightsKept == \A m \in Models \ tainted : weights[m] = golden[m] /\ weight_hash[m] = weights[m]

CouncilInv ==
  /\ CouncilTyped /\ WeightsKept
  /\ \A m \in Models : LoopFollows(learning[m], applied[m], current_tick)

(* What the operations change in a loop. *)
LEMMA LoopFields ==
  ASSUME NEW B, NEW l \in [active: B, buffer_count: Nat, updates: Nat, start: Nat], NEW x \in Nat, NEW on \in B
  PROVE  /\ [l EXCEPT !.buffer_count = x] \in [active: B, buffer_count: Nat, updates: Nat, start: Nat]
         /\ [l EXCEPT !.buffer_count = x].updates = l.updates /\ [l EXCEPT !.buffer_count = x].start = l.start
         /\ [l EXCEPT !.active = on] \in [active: B, buffer_count: Nat, updates: Nat, start: Nat]
         /\ [l EXCEPT !.active = on].updates = l.updates /\ [l EXCEPT !.active = on].start = l.start
<1>1. PICK k : k = [l EXCEPT !.buffer_count = x]
  OBVIOUS
<1>2. k \in [active: B, buffer_count: Nat, updates: Nat, start: Nat] /\ k.updates = l.updates /\ k.start = l.start
  BY <1>1
<1>3. PICK h : h = [l EXCEPT !.active = on]
  OBVIOUS
<1>4. h \in [active: B, buffer_count: Nat, updates: Nat, start: Nat] /\ h.updates = l.updates /\ h.start = l.start
  BY <1>3
<1> QED  BY <1>1, <1>2, <1>3, <1>4

LEMMA LoopMade ==
  ASSUME NEW B, NEW on \in B, NEW n \in Nat, NEW t \in Nat,
         NEW k, k = [active |-> on, buffer_count |-> 0, updates |-> n, start |-> t]
  PROVE  k \in [active: B, buffer_count: Nat, updates: Nat, start: Nat] /\ k.updates = n /\ k.start = t
OBVIOUS

LEMMA PairsFinite ==
  ASSUME NEW a, NEW first \in Nat
  PROVE  IsFiniteSet(UpdatePairs(a, first))
<1>1. IsFiniteSet(first .. MaxTick) /\ IsFiniteSet(1 .. MaxUpdates + 1)
  BY CouncilAssumption, FS_Interval
<1>2. IsFiniteSet((first .. MaxTick) \X (1 .. MaxUpdates + 1))
  BY <1>1, FS_Product
<1> QED  BY <1>2, FS_Subset DEF UpdatePairs

(* One update more is one pair more. *)
Updated(b, a, t) == b = [a EXCEPT ![t] = a[t] + 1] /\ a[t] <= MaxUpdates
LEMMA OneUpdateMore ==
  ASSUME NEW a \in [0 .. MaxTick -> Nat], NEW t \in 0 .. MaxTick, NEW first \in 0 .. t,
         NEW b, Updated(b, a, t)
  PROVE  Cardinality(UpdatePairs(b, first)) = Cardinality(UpdatePairs(a, first)) + 1
<1> USE CouncilAssumption
<1> DEFINE P == UpdatePairs(a, first)
           u == <<t, a[t] + 1>>
<1>1. b = [a EXCEPT ![t] = a[t] + 1] /\ a[t] <= MaxUpdates
  BY DEF Updated
<1>2. u \in (first .. MaxTick) \X (1 .. MaxUpdates + 1) /\ ~(a[t] + 1 <= a[t])
  BY <1>1
<1>3. u \notin P
  BY <1>2 DEF UpdatePairs
<1>4. \A v \in (first .. MaxTick) \X (1 .. MaxUpdates + 1) :
         v[2] <= b[v[1]] <=> v[2] <= a[v[1]] \/ v = u
  <2> SUFFICES ASSUME NEW x \in first .. MaxTick, NEW y \in 1 .. MaxUpdates + 1
               PROVE  y <= b[x] <=> y <= a[x] \/ <<x, y>> = u
    OBVIOUS
  <2>1. x \in 0 .. MaxTick /\ b[x] = IF x = t THEN a[t] + 1 ELSE a[x]
    BY <1>1
  <2>2. CASE x = t
    BY <2>1, <2>2
  <2>3. CASE x # t
    BY <2>1, <2>3
  <2> QED  BY <2>2, <2>3
<1>5. UpdatePairs(b, first) = P \cup {u}
  <2> HIDE DEF u
  <2> QED  BY <1>2, <1>4 DEF UpdatePairs
<1>6. IsFiniteSet(P)
  BY PairsFinite
<1> QED  BY <1>3, <1>5, <1>6, FS_AddElement

(* No updates are no pairs. *)
LEMMA NoUpdates ==
  ASSUME NEW a \in [0 .. MaxTick -> Nat], NEW first \in 0 .. MaxTick, \A t \in first .. MaxTick : a[t] = 0
  PROVE  Cardinality(UpdatePairs(a, first)) = 0
<1>1. UpdatePairs(a, first) = {}
  BY CouncilAssumption DEF UpdatePairs
<1> QED  BY <1>1, FS_EmptySet

(* mark_update, in the period of the loop or in a new one. *)
LEMMA UpdateMarked ==
  ASSUME CouncilInv, NEW m \in Models, CanUpdate(learning[m]),
         NEW b, b = [applied[m] EXCEPT ![current_tick] = applied[m][current_tick] + 1]
  PROVE  MarkUpdate(learning[m]) \in LoopType /\ LoopFollows(MarkUpdate(learning[m]), b, current_tick)
<1> USE CouncilAssumption
<1>1. PICK l, a, now :
         /\ now \in 0 .. MaxTick /\ l = learning[m] /\ a = applied[m] /\ now = current_tick
         /\ l \in LoopType /\ a \in [0 .. MaxTick -> Nat] /\ LoopFollows(l, a, now)
  BY DEF CouncilInv, CouncilTyped
<1>2. /\ l.start \in Nat /\ l.updates \in Nat /\ l.active \in BOOLEAN /\ l.start <= now /\ l.updates <= MaxUpdates
      /\ Cardinality(UpdatePairs(a, l.start)) = l.updates
  BY <1>1 DEF LoopType, LoopFollows
<1>3. b = [a EXCEPT ![now] = a[now] + 1] /\ b \in [0 .. MaxTick -> Nat]
      /\ \A t \in 0 .. MaxTick : b[t] = IF t = now THEN a[t] + 1 ELSE a[t]
  BY <1>1
<1>4. /\ \A t \in 0 .. MaxTick : t > now => a[t] = 0
      /\ \A t \in 0 .. MaxTick : t >= l.start => a[t] <= l.updates
      /\ \A t \in 0 .. MaxTick : t >= l.start /\ a[t] > 0 => t < l.start + Period
  BY <1>1 DEF LoopFollows
<1>5. CASE NewPeriod(l)
  <2>1. a[now] = 0
    <3>1. now >= l.start + Period
      BY <1>1, <1>2, <1>5 DEF NewPeriod, Minus
    <3>2. a[now] \in Nat /\ ~(now < l.start + Period) /\ now >= l.start
      BY <1>1, <1>2, <3>1
    <3>3. ~(a[now] > 0)
      BY <1>1, <1>4, <3>2
    <3> QED  BY <3>2, <3>3
  <2>2. PICK k \in LoopType : k = MarkUpdate(l) /\ k.start = now /\ k.updates = 1
    <3>1. MarkUpdate(l) = [active |-> l.active, buffer_count |-> 0, updates |-> 1, start |-> now]
      BY <1>1, <1>5 DEF MarkUpdate
    <3> QED  BY <1>1, <1>2, <3>1, LoopMade DEF LoopType
  <2>3. \A t \in now .. MaxTick : a[t] = 0
    BY <1>1, <1>4, <2>1
  <2>4. Cardinality(UpdatePairs(a, now)) = 0
    BY <1>1, <2>3, NoUpdates
  <2>5. Cardinality(UpdatePairs(b, now)) = 1
    <3>1. now \in 0 .. now /\ a[now] <= MaxUpdates
      BY <1>1, <2>1
    <3>2. Cardinality(UpdatePairs(b, now)) = Cardinality(UpdatePairs(a, now)) + 1
      <4>1. a \in [0 .. MaxTick -> Nat] /\ now \in 0 .. MaxTick /\ Updated(b, a, now)
        BY <1>1, <1>3, <3>1 DEF Updated
      <4> HIDE CouncilAssumption
      <4> QED  BY <3>1, <4>1, OneUpdateMore
    <3> QED  BY <2>4, <3>2
  <2>6. LoopFollows(k, b, now)
    BY <1>1, <1>3, <1>4, <2>1, <2>2, <2>5 DEF LoopFollows
  <2> QED  BY <1>1, <2>2, <2>6
<1>6. CASE ~NewPeriod(l)
  <2>1. now < l.start + Period /\ l.updates < MaxUpdates
    BY <1>1, <1>2, <1>6 DEF NewPeriod, Minus, CanUpdate
  <2>2. PICK k \in LoopType : k = MarkUpdate(l) /\ k.start = l.start /\ k.updates = l.updates + 1
    <3>1. MarkUpdate(l) = [active |-> l.active, buffer_count |-> 0, updates |-> l.updates + 1, start |-> l.start]
      BY <1>6 DEF MarkUpdate
    <3>2. l.updates + 1 \in Nat
      BY <1>2
    <3> QED  BY <1>2, <3>1, <3>2, LoopMade DEF LoopType
  <2>3. Cardinality(UpdatePairs(b, l.start)) = l.updates + 1
    <3>1. l.start \in 0 .. now /\ a[now] <= MaxUpdates
      BY <1>1, <1>2, <1>4
    <3>2. Cardinality(UpdatePairs(b, l.start)) = Cardinality(UpdatePairs(a, l.start)) + 1
      <4>1. a \in [0 .. MaxTick -> Nat] /\ now \in 0 .. MaxTick /\ Updated(b, a, now)
        BY <1>1, <1>3, <3>1 DEF Updated
      <4> HIDE CouncilAssumption
      <4> QED  BY <3>1, <4>1, OneUpdateMore
    <3> QED  BY <1>2, <3>2
  <2>4. LoopFollows(k, b, now)
    <3>1. PICK st \in Nat, up \in Nat : st = l.start /\ up = l.updates
      BY <1>2
    <3>2. ASSUME NEW t \in 0 .. MaxTick
          PROVE  /\ t > now => b[t] = 0
                 /\ t >= st => b[t] <= up + 1
                 /\ t >= st /\ b[t] > 0 => t < st + Period
      <4>1. a[t] \in Nat /\ b[t] = (IF t = now THEN a[t] + 1 ELSE a[t])
        BY <1>1, <1>3
      <4>2. (t > now => a[t] = 0) /\ (t >= st => a[t] <= up) /\ (t >= st /\ a[t] > 0 => t < st + Period)
        BY <1>4, <3>1
      <4> QED  BY <1>1, <2>1, <3>1, <4>1, <4>2, SMTT(20)
    <3> QED  BY <1>2, <2>1, <2>2, <2>3, <3>1, <3>2 DEF LoopFollows
  <2> QED  BY <1>1, <2>2, <2>4
<1> QED  BY <1>5, <1>6

LEMMA CouncilInvInit == CouncilInit => CouncilInv
<1> SUFFICES ASSUME CouncilInit PROVE CouncilInv
  OBVIOUS
<1> USE CouncilAssumption
<1>1. CouncilTyped /\ WeightsKept
  BY DEF CouncilInit, CouncilTyped, WeightsKept, FreshLoop, LoopType
<1>2. ASSUME NEW m \in Models PROVE LoopFollows(learning[m], applied[m], current_tick)
  <2>1. PICK a \in [0 .. MaxTick -> Nat] : a = applied[m] /\ \A t \in 0 .. MaxTick : a[t] = 0
    BY DEF CouncilInit
  <2>2. Cardinality(UpdatePairs(a, 0)) = 0
    BY <2>1, NoUpdates
  <2>3. learning[m].start = 0 /\ learning[m].updates = 0 /\ current_tick = 0
    BY DEF CouncilInit, FreshLoop
  <2> QED  BY <2>1, <2>2, <2>3 DEF LoopFollows
<1> QED  BY <1>1, <1>2 DEF CouncilInv

(* A change of a loop that keeps its period. *)
LEMMA PeriodKept ==
  ASSUME NEW k, NEW l, NEW a, NEW now, LoopFollows(l, a, now), k.start = l.start, k.updates = l.updates
  PROVE  LoopFollows(k, a, now)
BY DEF LoopFollows

LEMMA TrainStepKeeps ==
  ASSUME CouncilInv, NEW m \in Trained, NEW moved \in BOOLEAN, NEW suite \in BOOLEAN, NEW drifts \in BOOLEAN,
         TrainStep(m, moved, suite, drifts)
  PROVE  CouncilInv'
<1> USE CouncilAssumption
<1>1. m \in Models /\ CanUpdate(learning[m]) /\ changes' = (IF moved THEN changes + 1 ELSE changes)
      /\ UNCHANGED <<current_tick, tainted>>
  BY DEF TrainStep
<1>2. PICK after \in [Models -> Nat] : after = [weights EXCEPT ![m] = IF moved THEN changes + 1 ELSE @]
  <2>1. weights \in [Models -> Nat] /\ changes \in Nat
    BY DEF CouncilInv, CouncilTyped
  <2>2. PICK w \in Nat : w = IF moved THEN changes + 1 ELSE weights[m]
    BY <1>1, <2>1
  <2>3. [weights EXCEPT ![m] = IF moved THEN changes + 1 ELSE @] = [weights EXCEPT ![m] = w]
    BY <1>1, <2>1, <2>2
  <2> QED  BY <1>1, <2>1, <2>2, <2>3
<1>3. CASE suite /\ ~drifts
  <2>1. /\ weights' = after /\ weight_hash' = [weight_hash EXCEPT ![m] = after[m]]
        /\ golden' = [golden EXCEPT ![m] = after[m]]
    BY <1>2, <1>3 DEF TrainStep
  <2>2. /\ learning' = [learning EXCEPT ![m] = MarkUpdate(learning[m])]
        /\ applied' = [applied EXCEPT ![m] = [applied[m] EXCEPT ![current_tick] = applied[m][current_tick] + 1]]
    BY <1>3 DEF TrainStep
  <2>3. PICK b : b = [applied[m] EXCEPT ![current_tick] = applied[m][current_tick] + 1]
    OBVIOUS
  <2>4. MarkUpdate(learning[m]) \in LoopType /\ LoopFollows(MarkUpdate(learning[m]), b, current_tick)
    BY <1>1, <2>3, UpdateMarked
  <2>5. b \in [0 .. MaxTick -> Nat]
    <3>1. PICK a \in [0 .. MaxTick -> Nat] : a = applied[m]
      BY <1>1 DEF CouncilInv, CouncilTyped
    <3>2. PICK z \in 0 .. MaxTick : z = current_tick
      BY <1>1 DEF CouncilInv, CouncilTyped
    <3>3. b = [a EXCEPT ![z] = a[z] + 1]
      BY <2>3, <3>1, <3>2
    <3>4. a[z] + 1 \in Nat
      OBVIOUS
    <3> QED  BY <3>3, <3>4
  <2>6. CouncilTyped'
    BY <1>1, <1>2, <2>1, <2>2, <2>3, <2>4, <2>5 DEF CouncilInv, CouncilTyped
  <2>7. WeightsKept'
    BY <1>1, <1>2, <2>1 DEF CouncilInv, CouncilTyped, WeightsKept
  <2>8. \A n \in Models : LoopFollows(learning'[n], applied'[n], current_tick')
    BY <1>1, <2>2, <2>3, <2>4 DEF CouncilInv, CouncilTyped
  <2> QED  BY <2>6, <2>7, <2>8 DEF CouncilInv
<1>4. CASE ~(suite /\ ~drifts)
  <2>1. /\ weights' = weights /\ weight_hash' = weights /\ UNCHANGED <<golden, applied>>
        /\ learning' = [learning EXCEPT ![m].active = FALSE]
    BY <1>4 DEF TrainStep
  <2>2. PICK k \in LoopType : k = [learning[m] EXCEPT !.active = FALSE]
                              /\ k.start = learning[m].start /\ k.updates = learning[m].updates
    <3>1. PICK l \in LoopType : l = learning[m]
      BY <1>1 DEF CouncilInv, CouncilTyped
    <3>2. FALSE \in BOOLEAN
      OBVIOUS
    <3>3. PICK B : B = BOOLEAN
      OBVIOUS
    <3>4. l \in [active: B, buffer_count: Nat, updates: Nat, start: Nat] /\ FALSE \in B
      BY <3>1, <3>2, <3>3 DEF LoopType
    <3>5. PICK k : k = [l EXCEPT !.active = FALSE]
      OBVIOUS
    <3>6. k \in [active: B, buffer_count: Nat, updates: Nat, start: Nat] /\ k.updates = l.updates /\ k.start = l.start
      BY <3>4, <3>5, LoopFields
    <3> QED  BY <3>1, <3>3, <3>5, <3>6 DEF LoopType
  <2>3. learning' = [learning EXCEPT ![m] = k]
    BY <2>1, <2>2
  <2>4. /\ learning' \in [Models -> LoopType]
        /\ \A n \in Models : learning'[n].start = learning[n].start /\ learning'[n].updates = learning[n].updates
    BY <1>1, <2>2, <2>3 DEF CouncilInv, CouncilTyped
  <2>5. \A n \in Models : LoopFollows(learning'[n], applied'[n], current_tick')
    BY <1>1, <2>1, <2>4, PeriodKept DEF CouncilInv
  <2>6. changes' \in Nat
    BY <1>1 DEF CouncilInv, CouncilTyped
  <2>7. CouncilTyped' /\ WeightsKept'
    BY <1>1, <2>1, <2>4, <2>6 DEF CouncilInv, CouncilTyped, WeightsKept
  <2> QED  BY <2>5, <2>7 DEF CouncilInv
<1> QED  BY <1>3, <1>4

(* What the other operations of a loop change. *)
LEMMA LoopChanged ==
  ASSUME CouncilInv, NEW m \in Models,
         \/ learning' = [learning EXCEPT ![m].buffer_count = @ + 1]
         \/ learning' = [learning EXCEPT ![m].active = TRUE],
         UNCHANGED <<weights, weight_hash, golden, current_tick, tainted, changes, applied>>
  PROVE  CouncilInv'
<1>1. PICK k \in LoopType : /\ k.start = learning[m].start /\ k.updates = learning[m].updates
                           /\ learning' = [learning EXCEPT ![m] = k]
  <2>1. PICK l \in LoopType : l = learning[m]
    BY DEF CouncilInv, CouncilTyped
  <2>2. PICK x \in Nat : x = l.buffer_count + 1
    BY <2>1 DEF LoopType
  <2>3. CASE learning' = [learning EXCEPT ![m].buffer_count = @ + 1]
    <3>1. learning' = [learning EXCEPT ![m] = [l EXCEPT !.buffer_count = x]]
      BY <2>1, <2>2, <2>3
    <3> QED  BY <2>1, <2>2, <3>1, LoopFields DEF LoopType
  <2>4. CASE learning' = [learning EXCEPT ![m].active = TRUE]
    <3>1. learning' = [learning EXCEPT ![m] = [l EXCEPT !.active = TRUE]]
      BY <2>1, <2>4
    <3> QED  BY <2>1, <3>1, LoopFields DEF LoopType
  <2> QED  BY <2>3, <2>4
<1>2. /\ learning' \in [Models -> LoopType]
      /\ \A n \in Models : learning'[n].start = learning[n].start /\ learning'[n].updates = learning[n].updates
  BY <1>1 DEF CouncilInv, CouncilTyped
<1>3. CouncilTyped' /\ WeightsKept'
  BY <1>2 DEF CouncilInv, CouncilTyped, WeightsKept
<1>4. \A n \in Models : LoopFollows(learning'[n], applied'[n], current_tick')
  BY <1>2, PeriodKept DEF CouncilInv
<1> QED  BY <1>3, <1>4 DEF CouncilInv

LEMMA CouncilInvNext == CouncilInv /\ [CouncilNext]_councilVars => CouncilInv'
<1> SUFFICES ASSUME CouncilInv, [CouncilNext]_councilVars PROVE CouncilInv'
  OBVIOUS
<1> USE CouncilAssumption
<1> DEFINE Else == UNCHANGED <<weights, weight_hash, golden, learning, current_tick, tainted, changes, applied>>
<1>1. ASSUME Else PROVE CouncilInv'
  BY <1>1 DEF CouncilInv, CouncilTyped, WeightsKept
<1>2. ASSUME NEW m \in Models, Corrupt(m) PROVE CouncilInv'
  <2>1. CouncilTyped'
    <3>1. changes' \in Nat /\ weights' \in [Models -> Nat]
      BY <1>2 DEF Corrupt, CouncilInv, CouncilTyped
    <3> QED  BY <1>2, <3>1 DEF Corrupt, CouncilInv, CouncilTyped
  <2>2. WeightsKept'
    BY <1>2 DEF Corrupt, CouncilInv, CouncilTyped, WeightsKept
  <2>3. UNCHANGED <<learning, applied, current_tick>>
    BY <1>2 DEF Corrupt
  <2> QED  BY <2>1, <2>2, <2>3 DEF CouncilInv
<1>3. CASE SyncTick
  <2>1. CouncilTyped' /\ WeightsKept'
    BY <1>3 DEF SyncTick, CouncilInv, CouncilTyped, WeightsKept
  <2>2. ASSUME NEW m \in Models PROVE LoopFollows(learning[m], applied[m], current_tick + 1)
    <3>1. PICK l, a, now :
             /\ now \in 0 .. MaxTick /\ l = learning[m] /\ a = applied[m] /\ now = current_tick
             /\ l \in LoopType /\ LoopFollows(l, a, now)
      BY DEF CouncilInv, CouncilTyped
    <3>2. LoopFollows(l, a, now + 1)
      BY <3>1 DEF LoopFollows, LoopType
    <3> QED  BY <3>1, <3>2
  <2>3. current_tick' = current_tick + 1 /\ UNCHANGED <<learning, applied>>
    BY <1>3 DEF SyncTick
  <2> QED  BY <2>1, <2>2, <2>3 DEF CouncilInv
<1>4. ASSUME NEW m \in Trained, RecordExample(m) \/ Unfreeze(m) PROVE CouncilInv'
  BY <1>4, LoopChanged DEF RecordExample, Unfreeze
<1>5. ASSUME NEW m \in Trained, NEW moved \in BOOLEAN, NEW suite \in BOOLEAN, NEW drifts \in BOOLEAN,
             TrainStep(m, moved, suite, drifts)
      PROVE  CouncilInv'
  BY <1>5, TrainStepKeeps
<1>6. ASSUME NEW deep, NEW slow, UpdateLoadMetrics(deep, slow) PROVE Else
  BY <1>6 DEF UpdateLoadMetrics
<1>7. ASSUME NEW s, CheckOverride(s) \/ AddOverride(s, 2) \/ AddOverride(s, 3) PROVE Else
  BY <1>7 DEF CheckOverride, AddOverride
<1>8. ASSUME ClearTier(2) \/ ClearTier(3) PROVE Else
  BY <1>8 DEF ClearTier
<1>9. ASSUME UNCHANGED councilVars PROVE Else
  BY <1>9 DEF councilVars
<1> HIDE DEF Else
<1>10. CASE CouncilNext
  BY <1>1, <1>2, <1>3, <1>4, <1>5, <1>6, <1>7, <1>8, <1>10 DEF CouncilNext
<1> QED  BY <1>1, <1>9, <1>10

(* Who may allow what. *)
LEMMA VerdictSound ==
  ASSUME NEW votes \in [Models -> BOOLEAN], NEW sure \in BOOLEAN, Tier2(votes, sure).allow
  PROVE  /\ ~throttled /\ Intact(Sentinel)
         /\ Tier2(votes, sure).tier = 2 => votes[Sentinel]
         /\ Tier2(votes, sure).tier = 3 => Majority(votes) /\ \A m \in Models : Intact(m)
<1>1. CASE throttled
  BY <1>1 DEF Tier2
<1>2. CASE ~throttled /\ ~Intact(Sentinel)
  BY <1>2 DEF Tier2
<1>3. CASE ~throttled /\ Intact(Sentinel) /\ ~sure
  BY <1>3 DEF Tier2, Tier3
<1>4. CASE ~throttled /\ Intact(Sentinel) /\ sure
  BY <1>4 DEF Tier2
<1> QED  BY <1>1, <1>2, <1>3, <1>4

(* Through failed updates, rollbacks, freezes and faults of memory, for    *)
(* any number of models and any limits: a model that memory has left alone *)
(* has the weights that its drift detector accepted last and the hash of   *)
(* them, no period sees more updates than allowed, and while a hash is     *)
(* wrong the panel allows nothing.                                         *)
THEOREM CouncilSoundEver == CouncilSpec => []CouncilSound
<1>1. CouncilInit => CouncilInv
  BY CouncilInvInit
<1>2. CouncilInv /\ [CouncilNext]_councilVars => CouncilInv'
  BY CouncilInvNext
<1>3. CouncilInv => CouncilSound
  <2> SUFFICES ASSUME CouncilInv PROVE CouncilSound
    OBVIOUS
  <2>1. \A m \in Models \ tainted : weights[m] = golden[m] /\ Intact(m)
    BY DEF CouncilInv, WeightsKept, Intact
  <2>2. \A m \in Models : UpdatesFrom(m, learning[m].start) = learning[m].updates /\ learning[m].updates <= MaxUpdates
    BY DEF CouncilInv, LoopFollows, UpdatesFrom, UpdatePairs
  <2> QED  BY <2>1, <2>2, VerdictSound DEF CouncilSound
<1> QED  BY <1>1, <1>2, <1>3, PTL DEF CouncilSpec
=============================================================================
