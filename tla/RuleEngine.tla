----------------------------- MODULE RuleEngine -----------------------------
(***************************************************************************)
(* The policy rules (kernel/src/governance/rules.rs): a table of at most   *)
(* MaxRules rules that is sorted by insertion after every change, and an   *)
(* evaluation in which the first rule whose conditions all hold decides.   *)
(* A context is a set of the conditions that hold in it.                   *)
(***************************************************************************)
EXTENDS Naturals, Sequences, FiniteSets, SequencesExt

CONSTANTS
  MaxRules,      \* MAX_RULES
  Rules,         \* records [name, priority, conditions, action] to choose from
  Genesis,       \* the sequence of rules that init loads
  Contexts       \* sets of conditions

ASSUME RulesAssumption ==
  /\ MaxRules \in Nat /\ Genesis \in Seq(ToSet(Genesis))
  /\ \A r \in Rules \cup ToSet(Genesis) : r.priority \in Nat
(* Every genesis rule has a name of its own. *)
ASSUME GenesisAssumption ==
  \A i, j \in DOMAIN Genesis : Genesis[i].name = Genesis[j].name => i = j

VARIABLES
  rules,         \* the rules in the order of the table
  wanted         \* history: the rules that were accepted and not removed

ruleVars == <<rules, wanted>>

(* A round of the insertion sort that swaps nothing. *)
InsertedLast(sorted, r) == Append(sorted, r)

(* One round of the insertion sort: down past the rules of a smaller        *)
(* priority, and not past those of the same.                                *)
Place(sorted, r) ==
  CHOOSE p \in 1 .. Len(sorted) + 1 :
    /\ p = 1 \/ sorted[p - 1].priority >= r.priority
    /\ \A k \in p .. Len(sorted) : sorted[k].priority < r.priority
Inserted(sorted, r) == InsertAt(sorted, Place(sorted, r), r)
Sorted(s) ==
  LET st[i \in 0 .. Len(s)] == IF i = 0 THEN << >> ELSE Inserted(st[i - 1], s[i])
  IN  st[Len(s)]

(* Evaluation, with the default of a table in which nothing matches.       *)
Matches(r, ctx) == r.conditions \subseteq ctx
First(s) == CHOOSE i \in s : \A j \in s : i <= j
Hits(ctx) == {i \in DOMAIN rules : Matches(rules[i], ctx)}
Evaluate(ctx) == IF Hits(ctx) = {} THEN "Allow" ELSE rules[First(Hits(ctx))].action

Named(name) == {i \in DOMAIN rules : rules[i].name = name}
-----------------------------------------------------------------------------
(* load_rules copies what fits *)
Loaded(s) == Sorted(SubSeq(s, 1, IF Len(s) < MaxRules THEN Len(s) ELSE MaxRules))

RulesInit ==
  /\ rules = Loaded(Genesis)
  /\ wanted = ToSet(rules)

Load ==
  /\ rules' = Loaded(Genesis)
  /\ wanted' = ToSet(rules')

AddRule(r) ==
  /\ IF Len(rules) >= MaxRules
     THEN UNCHANGED <<rules, wanted>>
     ELSE rules' = Sorted(Append(rules, r)) /\ wanted' = wanted \cup {r}

RemoveRule(name) ==
  IF Named(name) = {}
  THEN UNCHANGED <<rules, wanted>>
  ELSE /\ rules' = RemoveAt(rules, First(Named(name)))
       /\ wanted' = wanted \ {rules[First(Named(name))]}

ReplaceRule(name, r) ==
  IF Named(name) = {}
  THEN UNCHANGED <<rules, wanted>>
  ELSE /\ rules' = Sorted([rules EXCEPT ![First(Named(name))] = r])
       /\ wanted' = (wanted \ {rules[First(Named(name))]}) \cup {r}

(* The callers give every rule a name of its own. *)
Fresh(r) == Named(r.name) = {}

RulesNext ==
  \/ Load
  \/ \E r \in Rules : Fresh(r) /\ AddRule(r)
  \/ \E r \in Rules : RemoveRule(r.name)
  \/ \E r, s \in Rules : (Fresh(s) \/ s.name = r.name) /\ ReplaceRule(r.name, s)

RulesSpec == RulesInit /\ [][RulesNext]_ruleVars
-----------------------------------------------------------------------------
(* `Rules are evaluated in priority-descending order; first match wins':    *)
(* after any sequence of changes to the table, every context gets the       *)
(* action of a matching rule of the highest priority among all rules that   *)
(* are in force, and no rule has been lost or counted twice by a shift.     *)
HighestRuleDecides ==
  /\ ToSet(rules) = wanted /\ Len(rules) = Cardinality(wanted) /\ Len(rules) <= MaxRules
  /\ \A ctx \in Contexts :
       LET hits == {r \in wanted : Matches(r, ctx)}
       IN  IF hits = {} THEN Evaluate(ctx) = "Allow"
           ELSE \E r \in hits : r.action = Evaluate(ctx) /\ \A q \in hits : q.priority <= r.priority
=============================================================================
