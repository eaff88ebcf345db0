--------------------------- MODULE CapabilityStore ---------------------------
(***************************************************************************)
(* The capability engine of the kernel: kernel/src/capability/store.rs     *)
(* with its budget and nonce trackers.  Every operation runs under the     *)
(* STORE lock (capability/mod.rs), so each is one atomic action.           *)
(*                                                                         *)
(* A stored token carries the signed wire token, its HMAC, and the kernel- *)
(* private fields.  The children of a token form an intrusive singly       *)
(* linked list: first_child of the parent, then next_sibling; 0 ends the   *)
(* list.  FixedMap is a partial function here; module FixedMap models the  *)
(* hash table itself.                                                      *)
(***************************************************************************)
EXTENDS Integers, FiniteSets

CONSTANTS
  Procs,      \* process ids that may own a token
  Resources,  \* resource ids
  Perms,      \* permission bits; a Perm is a set of them
  Budgets,    \* budget configurations offered to create and delegate
  Expiries,   \* lifetimes offered to create and delegate, in ticks
  Nonces,     \* nonces a caller may present
  HmacKey,    \* the boot-time HMAC key
  MaxTokens,  \* MAX_TOKENS
  MaxId,      \* bound: ids allocated in a run
  MaxTick,    \* bound: ticks of a run
  None        \* Option::None, for expires and budget

ASSUME PermsAssumption    == {"GRANT", "WRITE"} \subseteq Perms
ASSUME ExpiriesAssumption == Expiries \subseteq Nat
ASSUME NoncesAssumption   == Nonces \subseteq Nat
ASSUME BudgetsAssumption  == Budgets \subseteq [max_uses: Nat, interval_ticks: Nat]
ASSUME NoneAssumption     == None \notin Expiries /\ None \notin Budgets
ASSUME BoundsAssumption   == MaxTokens \in Nat /\ MaxId \in Nat /\ MaxTick \in Nat

VARIABLES
  tokens,        \* FixedMap<StoredToken>: a function on the live ids
  next_id,
  usage,         \* BudgetTracker: id -> [used, start]
  last_seen,     \* NonceTracker: id -> highest accepted nonce
  current_tick,
  result         \* what the last operation was asked and what it returned

vars == <<tokens, next_id, usage, last_seen, current_tick, result>>

(* The 40 signed bytes of CapabilityToken. *)
WireToken == [id: Nat, permissions: SUBSET Perms, owner: Procs,
              resource: Resources, delegated_from: Nat, expires: Nat]

(* HMAC-SHA3-256 as an injective, keyed function of the bytes. *)
Sign(data) == [key |-> HmacKey, data |-> data]
Verify(data, expected) == expected = Sign(data)
Hmac == [key: {HmacKey}, data: WireToken]

StoredToken == [token: WireToken, hmac: Hmac, budget: Budgets \cup {None},
                created_at: Nat, first_child: Nat, next_sibling: Nat]

Live == DOMAIN tokens

(* FixedMap::get_or_insert: a map with a default for an absent key. *)
OrInsert(map, id, default) ==
  [x \in DOMAIN map \cup {id} |-> IF x \in DOMAIN map THEN map[x] ELSE default]

(* FixedMap::remove, for every id of a set. *)
Without(map, ids) == [x \in DOMAIN map \ ids |-> map[x]]

Returns(op, id, perm, code) ==
  result' = [op |-> op, id |-> id, perm |-> perm, code |-> code]

Init ==
  /\ tokens = [x \in {} |-> 0]
  /\ next_id = 1
  /\ usage = [x \in {} |-> 0]
  /\ last_seen = [x \in {} |-> 0]
  /\ current_tick = 0
  /\ result = [op |-> "init", id |-> 0, perm |-> {}, code |-> "Ok"]

-----------------------------------------------------------------------------
(* create and delegate *)

NewToken(id, parent, owner, resource, permissions, expires, budget, sibling) ==
  LET wire == [id |-> id, permissions |-> permissions, owner |-> owner,
               resource |-> resource, delegated_from |-> parent,
               expires |-> expires]
  IN  [token |-> wire, hmac |-> Sign(wire), budget |-> budget,
       created_at |-> current_tick, first_child |-> 0, next_sibling |-> sibling]

(* alloc_id *)
AllocId == next_id' = next_id + 1

Insert(map, id, stored) ==
  [x \in DOMAIN map \cup {id} |-> IF x = id THEN stored ELSE map[x]]

Create(resource, permissions, owner, expires, budget) ==
  /\ next_id <= MaxId
  /\ \/ /\ Cardinality(Live) >= MaxTokens
        /\ Returns("create", 0, permissions, "StoreFull")
        /\ UNCHANGED <<tokens, next_id>>
     \/ /\ Cardinality(Live) < MaxTokens
        /\ tokens' = Insert(tokens, next_id,
                       NewToken(next_id, 0, owner, resource, permissions,
                                IF expires = None THEN 0 ELSE expires,
                                budget, 0))
        /\ AllocId
        /\ Returns("create", next_id, permissions, "Ok")
  /\ UNCHANGED <<usage, last_seen, current_tick>>

(* The lifetime of a child asked for e under a parent with lifetime pe. *)
ChildExpires(e, pe) ==
  IF e = None THEN pe ELSE IF pe > 0 /\ e > pe THEN pe ELSE e


DelegateError(parent_id, permissions) ==
  IF Cardinality(Live) >= MaxTokens THEN "StoreFull"
  ELSE IF parent_id \notin Live THEN "NotFound"
  ELSE IF "GRANT" \notin tokens[parent_id].token.permissions THEN "DelegationDenied"
  ELSE IF ~(permissions \subseteq tokens[parent_id].token.permissions)
       THEN "PermissionEscalation"
  ELSE "Ok"

Delegate(parent_id, new_owner, permissions, expires, budget) ==
  LET code   == DelegateError(parent_id, permissions)
      parent == tokens[parent_id]
      child  == NewToken(next_id, parent_id, new_owner, parent.token.resource,
                         permissions, ChildExpires(expires, parent.token.expires),
                         budget, parent.first_child)
  IN  /\ next_id <= MaxId
      /\ \/ /\ code # "Ok"
            /\ Returns("delegate", parent_id, permissions, code)
            /\ UNCHANGED <<tokens, next_id>>
         \/ /\ code = "Ok"
            /\ tokens' = [Insert(tokens, next_id, child)
                            EXCEPT ![parent_id].first_child = next_id]
            /\ AllocId
            /\ Returns("delegate", next_id, permissions, "Ok")
      /\ UNCHANGED <<usage, last_seen, current_tick>>

-----------------------------------------------------------------------------
(* validate *)


Expired(stored) ==
  /\ stored.token.expires > 0
  /\ current_tick >= stored.created_at + stored.token.expires

(* Steps 1 to 4 of validate: the checks that leave the trackers alone. *)
PreCheck(id, required) ==
  IF id \notin Live THEN "NotFound"
  ELSE IF ~Verify(tokens[id].token, tokens[id].hmac) THEN "InvalidHmac"
  ELSE IF Expired(tokens[id]) THEN "Expired"
  ELSE IF ~(required \subseteq tokens[id].token.permissions)
       THEN "InsufficientPermission"
  ELSE "Ok"

(* NonceTracker::check_and_advance: only a nonce above the last accepted   *)
(* one is fresh; an unknown token starts at 0.                             *)
Seen(t) == IF t \in DOMAIN last_seen THEN last_seen[t] ELSE 0

FreshOrEqual(id, nonce) == nonce >= Seen(id)
Fresh(id, nonce) == nonce > Seen(id)

(* BudgetTracker::check_and_consume: the window in force at the current    *)
(* tick, restarted when its interval has elapsed.                          *)
WindowKeepsStart(entry, budget) ==
  IF current_tick - entry.start >= budget.interval_ticks
  THEN [entry EXCEPT !.used = 0]
  ELSE entry

Window(entry, budget) ==
  IF current_tick - entry.start >= budget.interval_ticks
  THEN [used |-> 0, start |-> current_tick]
  ELSE entry

Validate(id, required, nonce) ==
  LET code   == PreCheck(id, required)
      seen   == OrInsert(last_seen, id, 0)
      budget == tokens[id].budget
      counts == OrInsert(usage, id, [used |-> 0, start |-> current_tick])
      window == Window(counts[id], budget)
  IN  /\ UNCHANGED <<tokens, next_id, current_tick>>
      /\ \/ /\ code # "Ok"
            /\ Returns("validate", id, required, code)
            /\ UNCHANGED <<usage, last_seen>>
         \/ /\ code = "Ok" /\ ~Fresh(id, nonce)
            /\ last_seen' = seen
            /\ UNCHANGED usage
            /\ Returns("validate", id, required, "NonceReplay")
         \/ /\ code = "Ok" /\ Fresh(id, nonce)
            /\ last_seen' = [seen EXCEPT ![id] = nonce]
            /\ \/ /\ budget = None
                  /\ UNCHANGED usage
                  /\ Returns("validate", id, required, "Ok")
               \/ /\ budget # None /\ window.used < budget.max_uses
                  /\ usage' = [counts EXCEPT ![id] =
                                 [window EXCEPT !.used = @ + 1]]
                  /\ Returns("validate", id, required, "Ok")
               \/ /\ budget # None /\ window.used >= budget.max_uses
                  /\ usage' = [counts EXCEPT ![id] = window]
                  /\ Returns("validate", id, required, "BudgetExhausted")

-----------------------------------------------------------------------------
(* revoke *)

(* The ids a walk along next_sibling visits from start: the least set that *)
(* holds start and is closed under next_sibling.                           *)
SiblingChain(map, start) ==
  {d \in DOMAIN map : \A S \in SUBSET DOMAIN map :
     /\ start \in DOMAIN map => start \in S
     /\ \A x \in S : map[x].next_sibling \in DOMAIN map => map[x].next_sibling \in S
     => d \in S}

(* The walk that stops at the first child. *)
FirstChildOnly(map, id) == {map[id].first_child} \cap DOMAIN map

CollectChildren(map, id) == SiblingChain(map, map[id].first_child)

(* A revocation that does not unlink the token from its parent. *)
UnlinkNothing(map, parent, child) == map

(* unlink_child: drop child from the list of parent. *)
UnlinkChild(map, parent, child) ==
  LET next  == map[child].next_sibling
      first == IF parent \in DOMAIN map THEN map[parent].first_child ELSE 0
      preds == {x \in SiblingChain(map, first) : map[x].next_sibling = child}
  IN  IF first = child THEN [map EXCEPT ![parent].first_child = next]
      ELSE [x \in DOMAIN map |->
              IF x \in preds THEN [map[x] EXCEPT !.next_sibling = next] ELSE map[x]]

(* A removal that does not follow the children of the children. *)
CascadeOneLevel(map, id) == {id} \cup CollectChildren(map, id)

(* The ids the depth-first removal pops: the least set that holds id and   *)
(* the children of each of its members.                                    *)
Cascade(map, id) ==
  {d \in DOMAIN map : \A S \in SUBSET DOMAIN map :
     /\ id \in S
     /\ \A x \in S : CollectChildren(map, x) \subseteq S
     => d \in S}

(* A revoke that leaves the trackers of the removed tokens behind. *)
RevokeKeepsTrackers(id) ==
  LET doomed == IF id \in Live THEN Cascade(tokens, id) ELSE {}
  IN  /\ id \in Live
      /\ tokens' = Without(UnlinkChild(tokens, tokens[id].token.delegated_from, id), doomed)
      /\ Returns("revoke", id, {}, "Ok")
      /\ UNCHANGED <<next_id, usage, last_seen, current_tick>>

Revoke(id) ==
  LET parent   == tokens[id].token.delegated_from
      unlinked == IF parent # 0 THEN UnlinkChild(tokens, parent, id) ELSE tokens
      doomed   == Cascade(unlinked, id)
  IN  /\ \/ /\ id \notin Live
            /\ Returns("revoke", id, {}, "NotFound")
            /\ UNCHANGED <<tokens, usage, last_seen>>
         \/ /\ id \in Live
            /\ tokens' = Without(unlinked, doomed)
            /\ usage' = Without(usage, doomed)
            /\ last_seen' = Without(last_seen, doomed)
            /\ Returns("revoke", id, {}, "Ok")
      /\ UNCHANGED <<next_id, current_tick>>

-----------------------------------------------------------------------------
(* tick and advance_ticks *)
AdvanceTicks(n) ==
  /\ current_tick + n <= MaxTick
  /\ current_tick' = current_tick + n
  /\ Returns("tick", 0, {}, "Ok")
  /\ UNCHANGED <<tokens, next_id, usage, last_seen>>

(* clear: the boot sequence empties the store between its phases. *)
Clear ==
  /\ tokens' = Without(tokens, Live)
  /\ usage' = Without(usage, DOMAIN usage)
  /\ last_seen' = Without(last_seen, DOMAIN last_seen)
  /\ next_id' = 1
  /\ current_tick' = 0
  /\ Returns("clear", 0, {}, "Ok")

CreateAny ==
  \E r \in Resources, q \in SUBSET Perms, o \in Procs,
     e \in Expiries \cup {None}, b \in Budgets \cup {None} : Create(r, q, o, e, b)

DelegateAny ==
  \E p \in 1 .. MaxId, o \in Procs, q \in SUBSET Perms,
     e \in Expiries \cup {None}, b \in Budgets \cup {None} : Delegate(p, o, q, e, b)

ValidateAny ==
  \E i \in 1 .. MaxId, q \in SUBSET Perms, n \in Nonces : Validate(i, q, n)

Next ==
  \/ CreateAny
  \/ DelegateAny
  \/ ValidateAny
  \/ \E i \in 1 .. MaxId : Revoke(i)
  \/ \E n \in 1 .. MaxTick : AdvanceTicks(n)
  \/ Clear

Spec == Init /\ [][Next]_vars
-----------------------------------------------------------------------------
(* Properties *)

Parent(id) == tokens[id].token.delegated_from
ChildrenOf(id) == {c \in Live : Parent(c) = id}

(* The proper descendants-or-self of id by delegated_from alone: what a    *)
(* revocation is meant to remove, stated without the sibling lists.        *)
Descendants(id) ==
  {d \in Live : \A S \in SUBSET Live :
     (id \in S /\ \A x \in Live : Parent(x) \in S => x \in S) => d \in S}

(* id and the tokens it was delegated from, up to a root. *)
AncestorsOf(id) ==
  {a \in Live : \A S \in SUBSET Live :
     (id \in S /\ \A x \in S : Parent(x) \in Live => Parent(x) \in S) => a \in S}

(* Type invariant: ids are below next_id, the trackers hold well-typed     *)
(* entries, and a usage window never starts in the future.                 *)
TypeOK ==
  /\ next_id \in Nat \ {0}
  /\ current_tick \in Nat
  /\ Live \subseteq 1 .. (next_id - 1)
  /\ tokens \in [Live -> StoredToken]
  /\ \A t \in Live : tokens[t].token.id = t
  /\ usage \in [DOMAIN usage -> [used: Nat, start: Nat]]
  /\ \A t \in DOMAIN usage : usage[t].start <= current_tick
  /\ last_seen \in [DOMAIN last_seen -> Nat]

(* The intrusive lists are exact: first_child is the youngest child and    *)
(* next_sibling the next older child of the same parent, 0 when there is   *)
(* none.  Delegation prepends and unlink_child splices, so a walk of the   *)
(* list meets every child once, youngest first.                            *)
IsYoungest(m, S) == IF S = {} THEN m = 0 ELSE m \in S /\ \A x \in S : x <= m

OlderSiblings(c) == {s \in Live : Parent(s) = Parent(c) /\ s < c}

ChildListsExact ==
  \A t \in Live :
    /\ IsYoungest(tokens[t].first_child, ChildrenOf(t))
    /\ Parent(t) # 0 => IsYoungest(tokens[t].next_sibling, OlderSiblings(t))
    /\ Parent(t) = 0 => tokens[t].next_sibling = 0

(* Revocation is complete: a delegated token never outlives the token it   *)
(* was delegated from (the cascade of revoke reaches every descendant).    *)
NoOrphans == \A t \in Live : Parent(t) # 0 => Parent(t) \in Live /\ Parent(t) < t

(* Delegation attenuates: a child holds no permission its parent lacks,    *)
(* names the same resource, and its parent may grant.                      *)
Attenuation ==
  \A t \in Live : Parent(t) \in Live =>
    /\ tokens[t].token.permissions \subseteq tokens[Parent(t)].token.permissions
    /\ tokens[t].token.resource = tokens[Parent(t)].token.resource
    /\ "GRANT" \in tokens[Parent(t)].token.permissions

(* When validate accepts, every token of the delegation chain is still     *)
(* live up to a root created by the kernel, and each of them carries the   *)
(* required permission: no sequence of delegations and revocations lets a  *)
(* holder do what some ancestor could not.                                 *)
AcceptedIsConfined ==
  (result.op = "validate" /\ result.code = "Ok") =>
    /\ \E a \in AncestorsOf(result.id) : Parent(a) = 0
    /\ \A a \in AncestorsOf(result.id) : result.perm \subseteq tokens[a].token.permissions

(* The trackers track live tokens only, and there are never more tokens    *)
(* than MAX_TOKENS: the three FixedMaps never exceed their load factor, so *)
(* the expect in get_or_insert cannot fire.                                *)
TrackersWithinStore ==
  /\ DOMAIN usage \cup DOMAIN last_seen \subseteq Live
  /\ Cardinality(Live) <= MaxTokens

(* revoke(id) removes exactly the descendants of id by delegation and      *)
(* leaves the wire token of every other token as it was.                   *)
RevokeIsExact ==
  [][(result' # result /\ result'.op = "revoke" /\ result'.code = "Ok") =>
       /\ Live' = Live \ Descendants(result'.id)
       /\ \A t \in Live' : tokens'[t].token = tokens[t].token]_vars

(* The replay window of a live token only moves forward, and each accepted *)
(* validate moves it: no nonce is accepted twice in the life of a token.   *)
NonceAdvances ==
  [][/\ \A t \in Live \cap Live' : Seen(t) <= Seen(t)'
     /\ (result' # result /\ result'.op = "validate" /\ result'.code = "Ok")
          => \A t \in Live : t = result'.id => Seen(t) < Seen(t)']_vars
=============================================================================
