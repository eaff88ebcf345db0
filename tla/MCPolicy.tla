------------------------------ MODULE MCPolicy ------------------------------
(***************************************************************************)
(* One instance of what decides about a message: the governance engine,    *)
(* its rules, the council, and the locks under which all of it happens.    *)
(* They share no state: `which' is the one that a behaviour is about, the  *)
(* others stay in an initial state.                                        *)
(***************************************************************************)
EXTENDS Governance, LockOrder, Council, RuleEngine, TLC

CONSTANTS t1, t2, t3

VARIABLE which

(* Rules with equal and different priorities; some apply to the same messages. *)
Rule(name, priority, conditions, action) ==
  [name |-> name, priority |-> priority, conditions |-> conditions, action |-> action]
MCRules ==
  {Rule(n, p, c, "Deny") : n \in {"a", "b", "c"}, p \in {1, 2, 3}, c \in {{}, {1}}}
    \cup {Rule(n, p, {2}, "EscalateToTier2") : n \in {"a", "c"}, p \in {1, 3}}
MCGenesis == <<Rule("a", 1, {1}, "Deny"), Rule("g", 2, {1, 2}, "Allow")>>
MCContexts == SUBSET {1, 2}

policyVars == <<which, gvars, councilVars, ruleVars, lockVars>>

PolicyInit ==
  /\ which \in {"governance", "council", "rules", "locks"}
  /\ GovernanceInit /\ CouncilInit /\ RulesInit
  /\ LocksInit /\ (which # "locks" => running = t1)

PolicyNext ==
  /\ UNCHANGED which
  /\ \/ /\ which = "governance" /\ GovernanceNext
        /\ UNCHANGED <<councilVars, ruleVars, lockVars>>
     \/ /\ which = "council" /\ CouncilNext
        /\ UNCHANGED <<gvars, ruleVars, lockVars>>
     \/ /\ which = "rules" /\ RulesNext
        /\ UNCHANGED <<gvars, councilVars, lockVars>>
     \/ /\ which = "locks" /\ LocksNext
        /\ UNCHANGED <<gvars, councilVars, ruleVars>>

PolicySpec == PolicyInit /\ [][PolicyNext]_policyVars

(* A thread at rest has no name that matters. *)
ThreadSymmetry == Permutations({t1, t2, t3})
=============================================================================
