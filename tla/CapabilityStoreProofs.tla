------------------------ MODULE CapabilityStoreProofs ------------------------
(***************************************************************************)
(* Proofs about the capability store, for every set of processes,          *)
(* resources and budgets and every number of tokens.                       *)
(***************************************************************************)
EXTENDS CapabilityHistory, NatLemmas, FiniteSetTheorems, TLAPS

(* A new stored token has its type when its arguments have theirs. *)
LEMMA NewTokenType ==
  ASSUME NEW id \in Nat, NEW parent \in Nat, NEW owner \in Procs,
         NEW resource \in Resources, NEW permissions \in SUBSET Perms,
         NEW expires \in Nat, NEW budget \in Budgets \cup {None}, NEW sibling \in Nat,
         current_tick \in Nat
  PROVE  LET n == NewToken(id, parent, owner, resource, permissions, expires, budget, sibling)
         IN  n \in StoredToken /\ n.token.id = id
BY DEF NewToken, StoredToken, WireToken, Hmac, Sign

(* Two entries that differ in their list pointers at most. *)
SameGrant(x, y) ==
  x.token = y.token /\ x.budget = y.budget /\ x.created_at = y.created_at

(* unlink_child rewrites list pointers only: the domain, the types and the *)
(* grant of every entry stay as they are.                                  *)
LEMMA UnlinkChildType ==
  ASSUME NEW D \in SUBSET Nat, NEW map \in [D -> StoredToken],
         NEW parent \in Nat, NEW child \in D
  PROVE  LET u == UnlinkChild(map, parent, child)
         IN  u \in [D -> StoredToken] /\ \A x \in D : SameGrant(u[x], map[x])
<1> DEFINE next  == map[child].next_sibling
           first == IF parent \in DOMAIN map THEN map[parent].first_child ELSE 0
           preds == {x \in SiblingChain(map, first) : map[x].next_sibling = child}
<1>1. next \in Nat
  BY DEF StoredToken
<1>2. \A x \in D : /\ [map[x] EXCEPT !.next_sibling = next] \in StoredToken
                   /\ SameGrant([map[x] EXCEPT !.next_sibling = next], map[x])
                   /\ [map[x] EXCEPT !.first_child = next] \in StoredToken
                   /\ SameGrant([map[x] EXCEPT !.first_child = next], map[x])
  BY <1>1 DEF StoredToken, SameGrant
<1>3. \A x \in D : SameGrant(map[x], map[x])
  BY DEF SameGrant
<1>4. CASE first = child
  <2>1. UnlinkChild(map, parent, child) = [map EXCEPT ![parent].first_child = next]
    BY <1>4 DEF UnlinkChild
  <2> QED  BY <2>1, <1>2, <1>3, ZenonT(40)
<1>5. CASE first # child
  <2>1. UnlinkChild(map, parent, child) =
          [x \in D |-> IF x \in preds THEN [map[x] EXCEPT !.next_sibling = next] ELSE map[x]]
    BY <1>5 DEF UnlinkChild
  <2> QED  BY <2>1, <1>2, <1>3
<1> QED  BY <1>4, <1>5

(* The type invariant is inductive on its own. *)
LEMMA TypeStep == TypeOK /\ [Next]_vars => TypeOK'
<1> SUFFICES ASSUME TypeOK, [Next]_vars PROVE TypeOK'
  OBVIOUS
<1> USE ExpiriesAssumption, BudgetsAssumption, NoneAssumption, BoundsAssumption,
        NoncesAssumption
<1>1. ASSUME NEW r \in Resources, NEW q \in SUBSET Perms, NEW o \in Procs,
             NEW e \in Expiries \cup {None}, NEW b \in Budgets \cup {None},
             Create(r, q, o, e, b)
      PROVE  TypeOK'
  <2> DEFINE x == IF e = None THEN 0 ELSE e
             n == NewToken(next_id, 0, o, r, q, x, b, 0)
  <2>1. CASE UNCHANGED <<tokens, next_id>>
    BY <1>1, <2>1 DEF Create, TypeOK, Live
  <2>2. CASE tokens' = Insert(tokens, next_id, n) /\ AllocId
    <3>1. n \in StoredToken /\ n.token.id = next_id
      <4>1. x \in Nat /\ next_id \in Nat /\ current_tick \in Nat
        BY DEF TypeOK
      <4>2. 0 \in Nat
        OBVIOUS
      <4> HIDE DEF x
      <4> QED  BY <4>1, <4>2, NewTokenType
    <3> HIDE DEF n
    <3> QED  BY <1>1, <2>2, <3>1 DEF Create, TypeOK, Live, Insert, AllocId
  <2> QED  BY <1>1, <2>1, <2>2 DEF Create
<1>2. ASSUME NEW p \in 1 .. MaxId, NEW o \in Procs, NEW q \in SUBSET Perms,
             NEW e \in Expiries \cup {None}, NEW b \in Budgets \cup {None},
             Delegate(p, o, q, e, b)
      PROVE  TypeOK'
  <2> DEFINE parent == tokens[p]
             n == NewToken(next_id, p, o, parent.token.resource, q,
                           ChildExpires(e, parent.token.expires), b, parent.first_child)
  <2>1. CASE UNCHANGED <<tokens, next_id>>
    BY <1>2, <2>1 DEF Delegate, TypeOK, Live
  <2>2. CASE /\ DelegateError(p, q) = "Ok"
             /\ tokens' = [Insert(tokens, next_id, n) EXCEPT ![p].first_child = next_id]
             /\ AllocId
    <3>1. p \in Live
      BY <2>2 DEF DelegateError
    <3>2. parent \in StoredToken
      BY <3>1 DEF TypeOK
    <3>3. ChildExpires(e, parent.token.expires) \in Nat
      BY <3>2 DEF ChildExpires, StoredToken, WireToken
    <3>4. parent.token.resource \in Resources /\ parent.first_child \in Nat
      BY <3>2 DEF StoredToken, WireToken
    <3>5. n \in StoredToken /\ n.token.id = next_id
      BY <3>3, <3>4, NewTokenType DEF TypeOK
    <3>6. /\ [parent EXCEPT !.first_child = next_id] \in StoredToken
          /\ [parent EXCEPT !.first_child = next_id].token = parent.token
      BY <3>2 DEF TypeOK, StoredToken
    <3> HIDE DEF n, parent
    <3>7. tokens' = [x \in Live \cup {next_id} |->
                       IF x = next_id THEN n
                       ELSE IF x = p THEN [parent EXCEPT !.first_child = next_id]
                       ELSE tokens[x]]
      <4>1. p # next_id
        BY <3>1 DEF TypeOK
      <4>2. Insert(tokens, next_id, n) = [x \in Live \cup {next_id} |->
                                            IF x = next_id THEN n ELSE tokens[x]]
        BY DEF Insert, Live
      <4>3. Insert(tokens, next_id, n)[p] = parent
        BY <3>1, <4>1, <4>2 DEF parent
      <4> QED  BY <2>2, <3>1, <4>1, <4>2, <4>3
    <3>8. /\ tokens' \in [Live' -> StoredToken]
          /\ Live' = Live \cup {next_id}
          /\ \A t \in Live' : tokens'[t].token.id = t
      BY <3>1, <3>5, <3>6, <3>7 DEF TypeOK, Live, parent
    <3> QED  BY <1>2, <2>2, <3>8 DEF Delegate, TypeOK, AllocId
  <2> QED  BY <1>2, <2>1, <2>2 DEF Delegate
<1>3. ASSUME NEW i \in 1 .. MaxId, NEW q \in SUBSET Perms, NEW n \in Nonces,
             Validate(i, q, n)
      PROVE  TypeOK'
  <2> DEFINE seen   == OrInsert(last_seen, i, 0)
             counts == OrInsert(usage, i, [used |-> 0, start |-> current_tick])
             window == Window(counts[i], tokens[i].budget)
  <2>1. seen \in [DOMAIN seen -> Nat] /\ i \in DOMAIN seen
    BY DEF OrInsert, TypeOK
  <2>2. [seen EXCEPT ![i] = n] \in [DOMAIN seen -> Nat]
    BY <2>1
  <2>3. /\ counts \in [DOMAIN counts -> [used: Nat, start: Nat]]
        /\ i \in DOMAIN counts
        /\ \A t \in DOMAIN counts : counts[t].start <= current_tick
    BY DEF OrInsert, TypeOK
  <2>4. window \in [used: Nat, start: Nat] /\ window.start <= current_tick
    BY <2>3 DEF Window, TypeOK
  <2>5. \A w \in [used: Nat, start: Nat] : w.start <= current_tick =>
          /\ [counts EXCEPT ![i] = w] \in [DOMAIN counts -> [used: Nat, start: Nat]]
          /\ \A t \in DOMAIN counts : [counts EXCEPT ![i] = w][t].start <= current_tick
    BY <2>3
  <2>6. [window EXCEPT !.used = @ + 1] \in [used: Nat, start: Nat]
        /\ [window EXCEPT !.used = @ + 1].start <= current_tick
    BY <2>4
  <2>7. /\ last_seen' \in [DOMAIN last_seen' -> Nat]
    BY <1>3, <2>1, <2>2 DEF Validate, TypeOK
  <2>8. /\ usage' \in [DOMAIN usage' -> [used: Nat, start: Nat]]
        /\ \A t \in DOMAIN usage' : usage'[t].start <= current_tick
    BY <1>3, <2>4, <2>5, <2>6 DEF Validate, TypeOK
  <2> QED  BY <1>3, <2>7, <2>8 DEF Validate, TypeOK, Live
<1>4. ASSUME NEW i \in 1 .. MaxId, Revoke(i) PROVE TypeOK'
  <2>1. CASE i \notin Live
    BY <1>4, <2>1 DEF Revoke, TypeOK, Live
  <2>2. CASE i \in Live
    <3> DEFINE parent   == tokens[i].token.delegated_from
               unlinked == IF parent # 0 THEN UnlinkChild(tokens, parent, i) ELSE tokens
    <3>1. parent \in Nat
      BY <2>2 DEF TypeOK, StoredToken, WireToken
    <3>2. unlinked \in [Live -> StoredToken] /\ \A x \in Live : unlinked[x].token = tokens[x].token
      <4>1. Live \in SUBSET Nat /\ tokens \in [Live -> StoredToken]
        BY DEF TypeOK
      <4>2. ASSUME NEW p \in Nat
            PROVE  /\ UnlinkChild(tokens, p, i) \in [Live -> StoredToken]
                   /\ \A x \in Live : UnlinkChild(tokens, p, i)[x].token = tokens[x].token
        BY ONLY <2>2, <4>1, p \in Nat, UnlinkChildType DEF SameGrant
      <4>3. /\ UnlinkChild(tokens, parent, i) \in [Live -> StoredToken]
            /\ \A x \in Live : UnlinkChild(tokens, parent, i)[x].token = tokens[x].token
        BY ONLY <3>1, <4>2
      <4> QED  BY <4>1, <4>3
    <3>3. PICK doomed : /\ tokens' = Without(unlinked, doomed)
                        /\ usage' = Without(usage, doomed)
                        /\ last_seen' = Without(last_seen, doomed)
                        /\ UNCHANGED <<next_id, current_tick>>
      BY <1>4, <2>2 DEF Revoke
    <3> HIDE DEF unlinked
    <3>4. /\ Live' = Live \ doomed
          /\ \A t \in Live' : tokens'[t] = unlinked[t]
          /\ tokens' \in [Live' -> StoredToken]
      BY <3>2, <3>3 DEF Live, Without
    <3> QED  BY <3>2, <3>3, <3>4 DEF TypeOK, Without
  <2> QED  BY <2>1, <2>2
<1>5. ASSUME NEW n \in 1 .. MaxTick, AdvanceTicks(n) PROVE TypeOK'
  <2>1. current_tick' \in Nat /\ current_tick <= current_tick'
    BY <1>5 DEF AdvanceTicks, TypeOK
  <2>2. \A t \in DOMAIN usage : usage[t].start <= current_tick'
    BY <2>1 DEF TypeOK
  <2> QED  BY <1>5, <2>1, <2>2 DEF AdvanceTicks, TypeOK, Live
<1>6. CASE Clear
  BY <1>6 DEF Clear, TypeOK, Live, Without
<1>7. CASE UNCHANGED vars
  BY <1>7 DEF TypeOK, vars, Live
<1> QED
  BY <1>1, <1>2, <1>3, <1>4, <1>5, <1>6, <1>7
     DEF Next, CreateAny, DelegateAny, ValidateAny

(* Type correctness of the capability store. *)
THEOREM TypeCorrect == Spec => []TypeOK
<1>1. Init => TypeOK
  BY DEF Init, TypeOK, Live
<1> QED  BY <1>1, TypeStep, PTL DEF Spec

-----------------------------------------------------------------------------
(* The youngest member is unique. *)
LEMMA YoungestUnique ==
  ASSUME NEW S \in SUBSET Nat, NEW m, IsYoungest(m, S),
         NEW b \in S, \A s \in S : s <= b
  PROVE  m = b
<1>1. m \in S /\ b <= m
  BY DEF IsYoungest
<1>2. m <= b
  BY <1>1
<1> QED  BY <1>1, <1>2

(* The walk along next_sibling from the youngest member of a list that     *)
(* links every member to the next older one visits exactly the members.    *)
LEMMA ChainExact ==
  ASSUME NEW D \in SUBSET (Nat \ {0}), NEW N \in Nat, \A d \in D : d <= N,
         NEW map, DOMAIN map = D, NEW first, NEW C \in SUBSET D,
         IsYoungest(first, C),
         \A c \in C : IsYoungest(map[c].next_sibling, {s \in C : s < c})
  PROVE  SiblingChain(map, first) = C
<1> DEFINE Closed(S) == /\ first \in D => first \in S
                        /\ \A x \in S : map[x].next_sibling \in D =>
                                         map[x].next_sibling \in S
<1>1. SiblingChain(map, first) = {d \in D : \A S \in SUBSET D : Closed(S) => d \in S}
  BY DEF SiblingChain
<1>2. Closed(C)
  BY DEF IsYoungest
<1>3. ASSUME NEW S \in SUBSET D, Closed(S) PROVE C \subseteq S
  <2> SUFFICES ASSUME C \ S # {} PROVE FALSE
    OBVIOUS
  <2>1. PICK b \in C \ S : \A y \in C \ S : y <= b
    BY GreatestNat
  <2>2. CASE \A y \in C : y <= b
    <3>1. first = b
      BY <2>2, YoungestUnique
    <3> QED  BY <1>3, <2>1, <3>1
  <2>3. CASE \E y \in C : y > b
    <3> DEFINE U == {y \in C : y > b}
    <3>1. U \in SUBSET Nat /\ U # {}
      BY <2>3
    <3>2. PICK c \in U : \A y \in U : c <= y
      <4> HIDE DEF U
      <4> QED  BY <3>1, LeastNat
    <3>3. map[c].next_sibling = b
      <4>1. b \in {s \in C : s < c} /\ \A s \in {s \in C : s < c} : s <= b
        BY <2>1, <3>2
      <4>2. IsYoungest(map[c].next_sibling, {s \in C : s < c})
        BY <3>2
      <4>3. {s \in C : s < c} \in SUBSET Nat
        OBVIOUS
      <4> QED  BY <4>1, <4>2, <4>3, YoungestUnique
    <3>4. c \in S
      BY <2>1, <3>2
    <3> QED  BY <1>3, <2>1, <3>3, <3>4
  <2> QED  BY <2>2, <2>3
<1> QED  BY <1>1, <1>2, <1>3

Lists == TypeOK /\ NoOrphans /\ ChildListsExact

(* In a state with exact lists the walk of collect_children visits the     *)
(* children.                                                               *)
LEMMA WalkFindsChildren ==
  ASSUME Lists, NEW p \in Live
  PROVE  SiblingChain(tokens, tokens[p].first_child) = ChildrenOf(p)
<1>1. /\ Live \in SUBSET (Nat \ {0}) /\ next_id \in Nat /\ \A d \in Live : d <= next_id
      /\ DOMAIN tokens = Live /\ ChildrenOf(p) \in SUBSET Live
  BY DEF Lists, TypeOK, Live, ChildrenOf
<1>2. IsYoungest(tokens[p].first_child, ChildrenOf(p))
  BY DEF Lists, ChildListsExact
<1>3. ASSUME NEW c \in ChildrenOf(p)
      PROVE  IsYoungest(tokens[c].next_sibling, {s \in ChildrenOf(p) : s < c})
  <2>1. OlderSiblings(c) = {s \in ChildrenOf(p) : s < c}
    BY DEF OlderSiblings, ChildrenOf
  <2>2. c \in Live /\ Parent(c) # 0
    BY <1>1 DEF ChildrenOf
  <2> QED  BY <2>1, <2>2 DEF Lists, ChildListsExact
<1> QED  BY <1>1, <1>2, <1>3, ChainExact

(* The token map of revoke after unlink_child. *)
Unlinked(i) == IF Parent(i) # 0 THEN UnlinkChild(tokens, Parent(i), i) ELSE tokens

(* The children a token keeps once i is unlinked. *)
Rest(i, p) == ChildrenOf(p) \ {i}

(* unlink_child splices i out of its list and disturbs no other list. *)
LEMMA UnlinkExact ==
  ASSUME Lists, NEW i \in Live
  PROVE  /\ \A p \in Live : IsYoungest(Unlinked(i)[p].first_child, Rest(i, p))
         /\ \A c \in Live : Parent(c) # 0 /\ c # i =>
              IsYoungest(Unlinked(i)[c].next_sibling, OlderSiblings(c) \ {i})
         /\ \A c \in Live : Parent(c) = 0 => Unlinked(i)[c].next_sibling = 0
<1> DEFINE P == Parent(i)
           next == tokens[i].next_sibling
           first == tokens[P].first_child
           preds == {x \in ChildrenOf(P) : tokens[x].next_sibling = i}
<1>1. /\ Live \in SUBSET (Nat \ {0}) /\ tokens \in [Live -> StoredToken]
      /\ \A p \in Live : ChildrenOf(p) \in SUBSET Live
      /\ \A c \in Live : OlderSiblings(c) \in SUBSET Live
  BY DEF Lists, TypeOK, ChildrenOf, OlderSiblings
<1>2. /\ \A p \in Live : IsYoungest(tokens[p].first_child, ChildrenOf(p))
      /\ \A c \in Live : Parent(c) # 0 => IsYoungest(tokens[c].next_sibling, OlderSiblings(c))
      /\ \A c \in Live : Parent(c) = 0 => tokens[c].next_sibling = 0
  BY DEF Lists, ChildListsExact
<1>3. CASE P = 0
  <2>1. Unlinked(i) = tokens
    BY <1>3 DEF Unlinked
  <2>2. \A p \in Live : Rest(i, p) = ChildrenOf(p)
    BY <1>1, <1>3 DEF Rest, ChildrenOf
  <2>3. \A c \in Live : Parent(c) # 0 => OlderSiblings(c) \ {i} = OlderSiblings(c)
    BY <1>3 DEF OlderSiblings
  <2> QED  BY <1>2, <2>1, <2>2, <2>3
<1>4. CASE P # 0
  <2>1. P \in Live /\ P < i
    BY <1>4 DEF Lists, NoOrphans
  <2>2. SiblingChain(tokens, first) = ChildrenOf(P)
    BY <2>1, WalkFindsChildren
  <2>3. Unlinked(i) = UnlinkChild(tokens, P, i)
    BY <1>4 DEF Unlinked
  <2>4. i \in ChildrenOf(P)
    BY DEF ChildrenOf
  <2>5. \A x \in Live : x # P => Rest(i, x) = ChildrenOf(x)
    BY DEF Rest, ChildrenOf
  <2>6. IsYoungest(next, OlderSiblings(i))
    BY <1>2, <1>4
  <2>7. CASE first = i
    <3>1. Unlinked(i) = [tokens EXCEPT ![P].first_child = next]
      BY <1>1, <2>1, <2>3, <2>7 DEF UnlinkChild
    <3>2. /\ \A x \in Live : Unlinked(i)[x].next_sibling = tokens[x].next_sibling
          /\ \A x \in Live : x # P => Unlinked(i)[x].first_child = tokens[x].first_child
          /\ Unlinked(i)[P].first_child = next
      BY <1>1, <2>1, <3>1 DEF StoredToken
    <3>3. \A x \in ChildrenOf(P) : x <= i
      BY <1>2, <2>1, <2>4, <2>7 DEF IsYoungest
    <3>4. Rest(i, P) = OlderSiblings(i)
      <4>1. \A x \in Live : (Parent(x) = P /\ x # i) <=> (Parent(x) = P /\ x < i)
        <5>1. \A x \in Live : Parent(x) = P => x <= i
          BY <3>3 DEF ChildrenOf
        <5>2. \A x \in Live : x \in Nat
          BY <1>1
        <5> HIDE DEF P
        <5> QED  BY <5>1, <5>2
      <4> QED  BY <4>1 DEF Rest, ChildrenOf, OlderSiblings
    <3>5. \A c \in Live : c # i => OlderSiblings(c) \ {i} = OlderSiblings(c)
      BY <1>1, <2>4, <3>3 DEF ChildrenOf, OlderSiblings
    <3> HIDE DEF P, next, first
    <3> QED  BY <1>2, <2>5, <2>6, <3>2, <3>4, <3>5
  <2>8. CASE first # i
    <3>1. Unlinked(i) =
            [x \in Live |-> IF x \in preds THEN [tokens[x] EXCEPT !.next_sibling = next]
                           ELSE tokens[x]]
      BY <1>1, <2>1, <2>2, <2>3, <2>8 DEF UnlinkChild
    <3>2. /\ \A x \in Live : Unlinked(i)[x].first_child = tokens[x].first_child
          /\ \A x \in Live : x \notin preds =>
                Unlinked(i)[x].next_sibling = tokens[x].next_sibling
          /\ \A x \in Live : x \in preds => Unlinked(i)[x].next_sibling = next
      BY <1>1, <3>1 DEF StoredToken
    <3>3. IsYoungest(first, Rest(i, P))
      <4>1. first \in ChildrenOf(P) /\ \A x \in ChildrenOf(P) : x <= first
        BY <1>2, <2>1, <2>4 DEF IsYoungest
      <4> QED  BY <2>8, <4>1 DEF IsYoungest, Rest
    <3>4. \A p \in Live : IsYoungest(Unlinked(i)[p].first_child, Rest(i, p))
      BY <1>2, <2>5, <3>2, <3>3
    <3>5. ASSUME NEW c \in Live, Parent(c) # 0, c # i
          PROVE  IsYoungest(Unlinked(i)[c].next_sibling, OlderSiblings(c) \ {i})
      <4>1. IsYoungest(tokens[c].next_sibling, OlderSiblings(c))
        BY <1>2, <3>5
      <4>2. CASE c \in preds
        <5>1. /\ i \in OlderSiblings(c) /\ \A s \in OlderSiblings(c) : s <= i
              /\ Parent(c) = P
          BY <4>1, <4>2, <1>1 DEF IsYoungest, ChildrenOf
        <5>2. OlderSiblings(c) \ {i} = OlderSiblings(i)
          <6>1. \A x \in Live : (Parent(x) = P /\ x < c) => x <= i
            BY <5>1 DEF OlderSiblings
          <6>2. i < c
            BY <5>1 DEF OlderSiblings
          <6>3. \A x \in Live : x \in Nat
            BY <1>1
          <6>4. \A x \in Live : (Parent(x) = P /\ x < c /\ x # i) <=> (Parent(x) = P /\ x < i)
            <7> HIDE DEF P
            <7> QED  BY <6>1, <6>2, <6>3
          <6> QED  BY <5>1, <6>4 DEF OlderSiblings
        <5> QED  BY <2>6, <3>2, <4>2, <5>2
      <4>3. CASE c \notin preds
        <5>1. Unlinked(i)[c].next_sibling = tokens[c].next_sibling
          BY <3>2, <4>3
        <5>2. CASE i \notin OlderSiblings(c)
          <6>1. OlderSiblings(c) \ {i} = OlderSiblings(c)
            BY <5>2
          <6> QED  BY <4>1, <5>1, <6>1
        <5>3. CASE i \in OlderSiblings(c)
          <6>1. c \in ChildrenOf(P)
            BY <5>3 DEF OlderSiblings, ChildrenOf
          <6>2. tokens[c].next_sibling # i
            BY <4>3, <6>1
          <6>3. /\ tokens[c].next_sibling \in OlderSiblings(c)
                /\ \A s \in OlderSiblings(c) : s <= tokens[c].next_sibling
            BY <4>1, <5>3 DEF IsYoungest
          <6> QED  BY <5>1, <6>2, <6>3 DEF IsYoungest
        <5> QED  BY <5>2, <5>3
      <4> QED  BY <4>2, <4>3
    <3>6. ASSUME NEW c \in Live, Parent(c) = 0 PROVE Unlinked(i)[c].next_sibling = 0
      <4>1. c \notin preds
        BY <1>4, <3>6 DEF ChildrenOf
      <4> QED  BY <1>2, <3>2, <3>6, <4>1
    <3> QED  BY <3>4, <3>5, <3>6
  <2> QED  BY <2>7, <2>8
<1> QED  BY <1>3, <1>4

(* collect_children after the unlinking finds the children other than i. *)
LEMMA WalkFindsRest ==
  ASSUME Lists, NEW i \in Live, NEW p \in Live
  PROVE  CollectChildren(Unlinked(i), p) = Rest(i, p)
<1> DEFINE u == Unlinked(i)
<1>1. /\ Live \in SUBSET (Nat \ {0}) /\ next_id \in Nat /\ \A d \in Live : d <= next_id
      /\ Rest(i, p) \in SUBSET Live
  BY DEF Lists, TypeOK, Rest, ChildrenOf
<1>2. DOMAIN u = Live
  <2>1. Live \in SUBSET Nat /\ tokens \in [Live -> StoredToken] /\ Parent(i) \in Nat
    BY DEF Lists, TypeOK, Parent, StoredToken, WireToken
  <2>2. UnlinkChild(tokens, Parent(i), i) \in [Live -> StoredToken]
    BY <2>1, UnlinkChildType
  <2> QED  BY <2>1, <2>2 DEF Unlinked
<1>3. IsYoungest(u[p].first_child, Rest(i, p))
  BY UnlinkExact
<1>4. ASSUME NEW c \in Rest(i, p)
      PROVE  IsYoungest(u[c].next_sibling, {s \in Rest(i, p) : s < c})
  <2>1. OlderSiblings(c) \ {i} = {s \in Rest(i, p) : s < c}
    BY DEF OlderSiblings, Rest, ChildrenOf
  <2>2. c \in Live /\ Parent(c) # 0 /\ c # i
    BY <1>1 DEF Rest, ChildrenOf
  <2> QED  BY <2>1, <2>2, UnlinkExact
<1> HIDE DEF u
<1>5. SiblingChain(u, u[p].first_child) = Rest(i, p)
  BY <1>1, <1>2, <1>3, <1>4, ChainExact
<1> QED  BY <1>5 DEF CollectChildren, u

(* The cascade removes exactly the descendants by delegation. *)
LEMMA CascadeIsDescendants ==
  ASSUME Lists, NEW i \in Live
  PROVE  Cascade(Unlinked(i), i) = Descendants(i)
<1> DEFINE u == Unlinked(i)
<1>1. DOMAIN u = Live
  <2>1. Live \in SUBSET Nat /\ tokens \in [Live -> StoredToken] /\ Parent(i) \in Nat
    BY DEF Lists, TypeOK, Parent, StoredToken, WireToken
  <2>2. UnlinkChild(tokens, Parent(i), i) \in [Live -> StoredToken]
    BY <2>1, UnlinkChildType
  <2> QED  BY <2>1, <2>2 DEF Unlinked
<1>2. \A x \in Live : CollectChildren(u, x) = Rest(i, x)
  BY WalkFindsRest
<1> HIDE DEF u
<1>3. ASSUME NEW S \in SUBSET Live
      PROVE  (i \in S /\ \A x \in S : CollectChildren(u, x) \subseteq S)
               <=> (i \in S /\ \A x \in Live : Parent(x) \in S => x \in S)
  <2>1. \A x \in S : CollectChildren(u, x) = Rest(i, x)
    BY <1>2
  <2> QED  BY <2>1 DEF Rest, ChildrenOf
<1>4. Cascade(u, i) = {d \in Live : \A S \in SUBSET Live :
                         (i \in S /\ \A x \in S : CollectChildren(u, x) \subseteq S) => d \in S}
  BY <1>1 DEF Cascade
<1> QED  BY <1>3, <1>4 DEF Descendants, u

(* The descendants of i: i, every child of a descendant, and nothing else. *)
LEMMA DescendantsClosed ==
  ASSUME NEW i \in Live
  PROVE  /\ i \in Descendants(i)
         /\ \A x \in Live : Parent(x) \in Descendants(i) => x \in Descendants(i)
         /\ \A x \in Descendants(i) : x \in Live /\ (x = i \/ Parent(x) \in Descendants(i))
<1> DEFINE D == Descendants(i)
           Up(S) == i \in S /\ \A x \in Live : Parent(x) \in S => x \in S
<1>1. D = {d \in Live : \A S \in SUBSET Live : Up(S) => d \in S}
  BY DEF Descendants
<1> HIDE DEF D
<1>2. Up(D)
  BY <1>1
<1> DEFINE T == {x \in D : x = i \/ Parent(x) \in D}
<1>3. Up(T)
  BY <1>2
<1>4. T \in SUBSET Live
  BY <1>1
<1>5. \A d \in D : d \in T
  <2> HIDE DEF T, Up
  <2> QED  BY <1>1, <1>3, <1>4
<1> QED  BY <1>1, <1>2, <1>5 DEF D

-----------------------------------------------------------------------------
(* The inductive invariant: exact lists make the cascade complete, which   *)
(* keeps parents live, and live older parents make a new token fresh.      *)
IInv == Lists /\ Attenuation

(* What the invariant says of the token map, apart from its type. *)
Tree == NoOrphans /\ ChildListsExact /\ Attenuation

(* A step that leaves the token map alone leaves the tree alone. *)
LEMMA SameTokens == Tree /\ UNCHANGED tokens => Tree'
BY DEF Tree, NoOrphans, ChildListsExact, Attenuation, IsYoungest, OlderSiblings,
       ChildrenOf, Parent, Live

(* Adding a token n with a fresh id under a live parent, or none, at the   *)
(* head of the parent's list.                                              *)
LEMMA GrowTree ==
  ASSUME IInv, NEW n, NEW p, NEW k, k = next_id,
         p = 0 \/ p \in Live,
         n.token.delegated_from = p,
         n.first_child = 0,
         n.next_sibling = IF p = 0 THEN 0 ELSE tokens[p].first_child,
         p # 0 => /\ n.token.permissions \subseteq tokens[p].token.permissions
                  /\ n.token.resource = tokens[p].token.resource
                  /\ "GRANT" \in tokens[p].token.permissions,
         Live' = Live \cup {k},
         tokens'[k] = n,
         \A t \in Live : /\ tokens'[t].token = tokens[t].token
                        /\ tokens'[t].next_sibling = tokens[t].next_sibling
                        /\ tokens'[t].first_child =
                             IF t = p THEN k ELSE tokens[t].first_child
  PROVE  Tree'
<1>1. /\ k \in Nat \ {0} /\ Live \in SUBSET (Nat \ {0})
      /\ \A t \in Live : t < k
  BY DEF IInv, Lists, TypeOK
<1>2. /\ \A t \in Live : Parent(t)' = Parent(t)
      /\ Parent(k)' = p
  BY DEF Parent
<1>3. \A t \in Live : Parent(t) = 0 \/ (Parent(t) \in Live /\ Parent(t) < t)
  BY DEF IInv, Lists, NoOrphans
<1>4. NoOrphans'
  <2> SUFFICES ASSUME NEW t \in Live', Parent(t)' # 0
               PROVE  Parent(t)' \in Live' /\ Parent(t)' < t
    BY DEF NoOrphans
  <2>1. CASE t \in Live
    BY <1>2, <1>3, <2>1
  <2>2. CASE t = k
    <3>1. Parent(t)' = p
      BY <1>2, <2>2
    <3>2. p \in Live
      BY <3>1
    <3> QED  BY <1>1, <2>2, <3>1, <3>2
  <2> QED  BY <2>1, <2>2
<1>5. Attenuation'
  <2> SUFFICES ASSUME NEW t \in Live', Parent(t)' \in Live'
               PROVE  /\ tokens'[t].token.permissions \subseteq tokens'[Parent(t)'].token.permissions
                      /\ tokens'[t].token.resource = tokens'[Parent(t)'].token.resource
                      /\ "GRANT" \in tokens'[Parent(t)'].token.permissions
    BY DEF Attenuation
  <2>1. CASE t \in Live
    <3>1. Parent(t)' = Parent(t) /\ Parent(t) \in Live
      BY <1>1, <1>2, <1>3, <2>1
    <3> QED  BY <2>1, <3>1 DEF IInv, Attenuation
  <2>2. CASE t = k
    <3>1. Parent(t)' = p /\ p \in Live
      BY <1>1, <1>2, <2>2
    <3> QED  BY <1>1, <2>2, <3>1
  <2> QED  BY <2>1, <2>2
<1>6. \A t \in Live : ChildrenOf(t)' = IF t = p THEN ChildrenOf(t) \cup {k}
                                                ELSE ChildrenOf(t)
  BY <1>2 DEF ChildrenOf
<1>7. ChildrenOf(k)' = {}
  <2>1. \A c \in Live : Parent(c) # k
    <3> SUFFICES ASSUME NEW c \in Live, Parent(c) = k PROVE FALSE
      OBVIOUS
    <3>1. k < c /\ c < k
      BY <1>1, <1>3
    <3> QED  BY <1>1, <3>1
  <2>2. p # k
    BY <1>1
  <2>3. \A c \in Live' : Parent(c)' # k
    BY <1>2, <2>1, <2>2
  <2> QED  BY <2>3 DEF ChildrenOf
<1>8. \A t \in Live : OlderSiblings(t)' = OlderSiblings(t)
  <2>1. \A t \in Live : ~(k < t)
    BY <1>1
  <2> QED  BY <1>2, <2>1 DEF OlderSiblings
<1>9. OlderSiblings(k)' = {s \in Live : Parent(s) = p}
  <2>1. \A s \in Live' : (Parent(s)' = p /\ s < k) <=> (s \in Live /\ Parent(s) = p)
    BY <1>1, <1>2
  <2>2. OlderSiblings(k)' = {s \in Live' : Parent(s)' = p /\ s < k}
    BY <1>2 DEF OlderSiblings
  <2> QED  BY <2>1, <2>2
<1>10. ASSUME NEW t \in Live
       PROVE  /\ IsYoungest(tokens'[t].first_child, ChildrenOf(t)')
              /\ Parent(t)' # 0 => IsYoungest(tokens'[t].next_sibling, OlderSiblings(t)')
              /\ Parent(t)' = 0 => tokens'[t].next_sibling = 0
  <2>1. /\ IsYoungest(tokens[t].first_child, ChildrenOf(t))
        /\ Parent(t) # 0 => IsYoungest(tokens[t].next_sibling, OlderSiblings(t))
        /\ Parent(t) = 0 => tokens[t].next_sibling = 0
    BY DEF IInv, Lists, ChildListsExact
  <2>2. IsYoungest(tokens'[t].first_child, ChildrenOf(t)')
    <3>1. CASE t = p
      <4>1. \A x \in ChildrenOf(t) \cup {k} : x <= k
        BY <1>1 DEF ChildrenOf
      <4>2. tokens'[t].first_child = k /\ ChildrenOf(t)' = ChildrenOf(t) \cup {k}
        BY <1>6, <3>1
      <4> QED  BY <4>1, <4>2 DEF IsYoungest
    <3>2. CASE t # p
      <4>1. tokens'[t].first_child = tokens[t].first_child /\ ChildrenOf(t)' = ChildrenOf(t)
        BY <1>6, <3>2
      <4> QED  BY <2>1, <4>1
    <3> QED  BY <3>1, <3>2
  <2> QED  BY <1>2, <1>8, <2>1, <2>2
<1>11. /\ IsYoungest(tokens'[k].first_child, ChildrenOf(k)')
       /\ p # 0 => IsYoungest(tokens'[k].next_sibling, OlderSiblings(k)')
       /\ p = 0 => tokens'[k].next_sibling = 0
  <2>1. IsYoungest(tokens'[k].first_child, ChildrenOf(k)')
    BY <1>7 DEF IsYoungest
  <2>2. ASSUME p # 0 PROVE IsYoungest(tokens'[k].next_sibling, OlderSiblings(k)')
    <3>1. IsYoungest(tokens[p].first_child, ChildrenOf(p))
      BY <2>2 DEF IInv, Lists, ChildListsExact
    <3>2. OlderSiblings(k)' = ChildrenOf(p) /\ tokens'[k].next_sibling = tokens[p].first_child
      BY <1>9, <2>2 DEF ChildrenOf
    <3> QED  BY <3>1, <3>2
  <2> QED  BY <2>1, <2>2
<1>12. ChildListsExact'
  <2> SUFFICES ASSUME NEW t \in Live'
               PROVE  /\ IsYoungest(tokens'[t].first_child, ChildrenOf(t)')
                      /\ Parent(t)' # 0 => IsYoungest(tokens'[t].next_sibling, OlderSiblings(t)')
                      /\ Parent(t)' = 0 => tokens'[t].next_sibling = 0
    BY DEF ChildListsExact, IsYoungest
  <2>1. CASE t \in Live
    BY <1>10, <2>1
  <2>2. CASE t = k
    BY <1>2, <1>11, <2>2
  <2> QED  BY <2>1, <2>2
<1> QED  BY <1>4, <1>5, <1>12 DEF Tree

(* A revocation leaves a tree: what remains is closed under parents, and   *)
(* its lists are those of the unlinked map.                                *)
LEMMA PruneTree ==
  ASSUME IInv, NEW i \in Live,
         tokens' = Without(Unlinked(i), Cascade(Unlinked(i), i))
  PROVE  /\ Live' = Live \ Descendants(i)
         /\ \A t \in Live' : tokens'[t].token = tokens[t].token
         /\ Tree'
<1> DEFINE D == Descendants(i)
<1>1. Lists
  BY DEF IInv
<1>2. /\ i \in D
      /\ \A x \in Live : Parent(x) \in D => x \in D
      /\ \A x \in D : x = i \/ Parent(x) \in D
  BY DescendantsClosed
<1>3. Unlinked(i) \in [Live -> StoredToken] /\ \A x \in Live : Unlinked(i)[x].token = tokens[x].token
  <2>1. Live \in SUBSET Nat /\ tokens \in [Live -> StoredToken] /\ Parent(i) \in Nat
    BY <1>1 DEF Lists, TypeOK, Parent, StoredToken, WireToken
  <2>2. /\ UnlinkChild(tokens, Parent(i), i) \in [Live -> StoredToken]
        /\ \A x \in Live : UnlinkChild(tokens, Parent(i), i)[x].token = tokens[x].token
    BY <2>1, UnlinkChildType DEF SameGrant
  <2> QED  BY <2>1, <2>2 DEF Unlinked
<1>4. tokens' = [x \in Live \ D |-> Unlinked(i)[x]]
  BY <1>1, <1>3, CascadeIsDescendants DEF Without
<1>5. Live' = Live \ D /\ \A t \in Live' : tokens'[t] = Unlinked(i)[t]
  BY <1>4 DEF Live
<1>6. \A t \in Live' : tokens'[t].token = tokens[t].token /\ Parent(t)' = Parent(t)
  BY <1>3, <1>5 DEF Parent
<1> HIDE DEF D
<1>7. NoOrphans'
  BY <1>1, <1>2, <1>5, <1>6 DEF Lists, NoOrphans
<1>8. Attenuation'
  BY <1>5, <1>6 DEF IInv, Attenuation
<1>9. \A t \in Live' : ChildrenOf(t)' = Rest(i, t)
  BY <1>2, <1>5, <1>6 DEF ChildrenOf, Rest
<1>10. \A t \in Live' : Parent(t) # 0 => OlderSiblings(t)' = OlderSiblings(t) \ {i}
  <2> SUFFICES ASSUME NEW t \in Live', Parent(t) # 0
               PROVE  OlderSiblings(t)' = OlderSiblings(t) \ {i}
    OBVIOUS
  <2>1. \A s \in Live : Parent(s) = Parent(t) /\ s # i => s \in Live'
    BY <1>2, <1>5
  <2> QED  BY <1>2, <1>5, <1>6, <2>1 DEF OlderSiblings
<1>11. ChildListsExact'
  <2> SUFFICES ASSUME NEW t \in Live'
               PROVE  /\ IsYoungest(tokens'[t].first_child, ChildrenOf(t)')
                      /\ Parent(t)' # 0 => IsYoungest(tokens'[t].next_sibling, OlderSiblings(t)')
                      /\ Parent(t)' = 0 => tokens'[t].next_sibling = 0
    BY DEF ChildListsExact, IsYoungest
  <2>1. t \in Live /\ t # i
    BY <1>2, <1>5
  <2>2. /\ IsYoungest(Unlinked(i)[t].first_child, Rest(i, t))
        /\ Parent(t) # 0 => IsYoungest(Unlinked(i)[t].next_sibling, OlderSiblings(t) \ {i})
        /\ Parent(t) = 0 => Unlinked(i)[t].next_sibling = 0
    BY <1>1, <2>1, UnlinkExact
  <2> QED  BY <1>5, <1>6, <1>9, <1>10, <2>2
<1> QED  BY <1>5, <1>6, <1>7, <1>8, <1>11 DEF Tree, D

(* The invariant is inductive. *)
LEMMA InvStep == IInv /\ [Next]_vars => IInv'
<1> SUFFICES ASSUME IInv, [Next]_vars PROVE IInv'
  OBVIOUS
<1>1. TypeOK /\ Tree /\ TypeOK'
  BY TypeStep DEF IInv, Lists, Tree
<1> SUFFICES Tree'
  BY <1>1 DEF IInv, Lists, Tree
<1>2. ASSUME UNCHANGED tokens PROVE Tree'
  BY <1>1, <1>2, SameTokens
<1>3. ASSUME NEW r \in Resources, NEW q \in SUBSET Perms, NEW o \in Procs,
             NEW e \in Expiries \cup {None}, NEW b \in Budgets \cup {None},
             Create(r, q, o, e, b)
      PROVE  Tree'
  <2>1. PICK k : k = next_id
    OBVIOUS
  <2>2. PICK n : n = NewToken(k, 0, o, r, q, IF e = None THEN 0 ELSE e, b, 0)
    OBVIOUS
  <2>3. CASE UNCHANGED tokens
    BY <1>2, <2>3
  <2>4. CASE tokens' = Insert(tokens, k, n)
    <3>1. n.token.delegated_from = 0 /\ n.first_child = 0 /\ n.next_sibling = 0
      BY <2>2 DEF NewToken
    <3>2. k \notin Live /\ 0 \notin Live
      BY <1>1, <2>1 DEF TypeOK
    <3>3. /\ Live' = Live \cup {k} /\ tokens'[k] = n
          /\ \A t \in Live : tokens'[t] = tokens[t] /\ t # 0
      BY <2>4, <3>2 DEF Insert, Live
    <3>4. \A t \in Live : /\ tokens'[t].token = tokens[t].token
                         /\ tokens'[t].next_sibling = tokens[t].next_sibling
                         /\ tokens'[t].first_child = IF t = 0 THEN k ELSE tokens[t].first_child
      BY <3>3
    <3> QED  BY <2>1, <3>1, <3>3, <3>4, GrowTree
  <2> QED  BY <1>3, <2>1, <2>2, <2>3, <2>4 DEF Create
<1>4. ASSUME NEW p \in 1 .. MaxId, NEW o \in Procs, NEW q \in SUBSET Perms,
             NEW e \in Expiries \cup {None}, NEW b \in Budgets \cup {None},
             Delegate(p, o, q, e, b)
      PROVE  Tree'
  <2>1. PICK k : k = next_id
    OBVIOUS
  <2>2. PICK n : n = NewToken(k, p, o, tokens[p].token.resource, q,
                              ChildExpires(e, tokens[p].token.expires), b,
                              tokens[p].first_child)
    OBVIOUS
  <2>3. CASE UNCHANGED tokens
    BY <1>2, <2>3
  <2>4. CASE /\ DelegateError(p, q) = "Ok"
             /\ tokens' = [Insert(tokens, k, n) EXCEPT ![p].first_child = k]
    <3>1. /\ n.token.delegated_from = p /\ n.first_child = 0
          /\ n.next_sibling = tokens[p].first_child
          /\ n.token.permissions = q /\ n.token.resource = tokens[p].token.resource
      BY <2>2 DEF NewToken
    <3>2. /\ p \in Live /\ q \subseteq tokens[p].token.permissions
          /\ "GRANT" \in tokens[p].token.permissions
      BY <2>4 DEF DelegateError
    <3>3. k \notin Live /\ k # p /\ p # 0
      BY <1>1, <2>1, <3>2 DEF TypeOK
    <3>4. Insert(tokens, k, n) = [x \in Live \cup {k} |-> IF x = k THEN n ELSE tokens[x]]
      BY DEF Insert, Live
    <3>5. /\ Live' = Live \cup {k} /\ tokens'[k] = n
          /\ \A t \in Live : t # p => tokens'[t] = tokens[t]
          /\ tokens'[p] = [tokens[p] EXCEPT !.first_child = k]
      BY <2>4, <3>2, <3>3, <3>4 DEF Live
    <3>6. tokens[p] \in StoredToken
      BY <1>1, <3>2 DEF TypeOK
    <3>7. /\ tokens'[p].token = tokens[p].token
          /\ tokens'[p].next_sibling = tokens[p].next_sibling
          /\ tokens'[p].first_child = k
      BY <3>5, <3>6 DEF StoredToken
    <3>8. \A t \in Live : /\ tokens'[t].token = tokens[t].token
                         /\ tokens'[t].next_sibling = tokens[t].next_sibling
                         /\ tokens'[t].first_child = IF t = p THEN k ELSE tokens[t].first_child
      BY <3>5, <3>7
    <3> QED  BY <2>1, <3>1, <3>2, <3>3, <3>5, <3>8, GrowTree
  <2> QED  BY <1>4, <2>1, <2>2, <2>3, <2>4 DEF Delegate
<1>5. ASSUME NEW i \in 1 .. MaxId, Revoke(i) PROVE Tree'
  <2>1. CASE i \notin Live
    BY <1>2, <1>5, <2>1 DEF Revoke
  <2>2. CASE i \in Live
    <3>1. tokens' = Without(Unlinked(i), Cascade(Unlinked(i), i))
      BY <1>5, <2>2 DEF Revoke, Unlinked, Parent
    <3> QED  BY <2>2, <3>1, PruneTree
  <2> QED  BY <2>1, <2>2
<1>6. CASE Clear
  BY <1>6 DEF Clear, Without, Tree, NoOrphans, ChildListsExact, Attenuation, Live
<1>7. ASSUME NEW i \in 1 .. MaxId, NEW q \in SUBSET Perms, NEW n \in Nonces, Validate(i, q, n)
      PROVE  Tree'
  BY <1>2, <1>7 DEF Validate
<1>8. ASSUME NEW n \in 1 .. MaxTick, AdvanceTicks(n) PROVE Tree'
  BY <1>2, <1>8 DEF AdvanceTicks
<1>9. CASE UNCHANGED vars
  BY <1>2, <1>9 DEF vars
<1> QED
  BY <1>3, <1>4, <1>5, <1>6, <1>7, <1>8, <1>9
     DEF Next, CreateAny, DelegateAny, ValidateAny

(* The inductive invariant holds in every reachable state. *)
LEMMA InvHolds == Spec => []IInv
<1>1. Init => IInv
  BY DEF Init, IInv, Lists, TypeOK, NoOrphans, ChildListsExact, Attenuation, Live
<1> QED  BY <1>1, InvStep, PTL DEF Spec

(* Revocation is complete whatever was delegated before: no token outlives *)
(* the token it was delegated from.                                        *)
THEOREM NoOrphansEver == Spec => []NoOrphans
<1>1. IInv => NoOrphans
  BY DEF IInv, Lists
<1> QED  BY <1>1, InvHolds, PTL

(* The intrusive child lists of the store are exact in every state. *)
THEOREM ListsExactEver == Spec => []ChildListsExact
<1>1. IInv => ChildListsExact
  BY DEF IInv, Lists
<1> QED  BY <1>1, InvHolds, PTL

(* No chain of delegations ever widens a permission or changes resource. *)
THEOREM AttenuationEver == Spec => []Attenuation
<1>1. IInv => Attenuation
  BY DEF IInv
<1> QED  BY <1>1, InvHolds, PTL

-----------------------------------------------------------------------------
(* Every ancestor of a token carries the permissions the token carries,    *)
(* and the chain of ancestors ends in a root.                              *)
LEMMA AncestorsConfine ==
  ASSUME IInv, NEW i \in Live, NEW q, q \subseteq tokens[i].token.permissions
  PROVE  /\ \E a \in AncestorsOf(i) : Parent(a) = 0
         /\ \A a \in AncestorsOf(i) : q \subseteq tokens[a].token.permissions
<1> DEFINE A == AncestorsOf(i)
           Down(S) == i \in S /\ \A x \in S : Parent(x) \in Live => Parent(x) \in S
           Q == {a \in Live : q \subseteq tokens[a].token.permissions}
<1>1. A = {a \in Live : \A S \in SUBSET Live : Down(S) => a \in S}
  BY DEF AncestorsOf
<1> HIDE DEF A
<1>2. Down(Q)
  BY DEF IInv, Attenuation
<1>3. Down(A)
  BY <1>1
<1>4. \A a \in A : q \subseteq tokens[a].token.permissions
  <2>1. \A a \in A : a \in Q
    <3> HIDE DEF Down
    <3> QED  BY <1>1, <1>2
  <2> QED  BY <2>1
<1>5. A \in SUBSET Nat /\ A # {}
  BY <1>1, <1>3 DEF IInv, Lists, TypeOK
<1>6. PICK r \in A : \A a \in A : r <= a
  BY <1>5, LeastNat
<1>7. Parent(r) = 0
  <2> SUFFICES ASSUME Parent(r) # 0 PROVE FALSE
    OBVIOUS
  <2>1. r \in Live
    BY <1>1
  <2>2. Parent(r) \in Live /\ Parent(r) < r
    BY <2>1 DEF IInv, Lists, NoOrphans
  <2>3. Parent(r) \in A
    BY <1>3, <2>2
  <2>4. r <= Parent(r)
    BY <1>6, <2>3
  <2>5. r \in Nat /\ Parent(r) \in Nat
    BY <1>5, <1>6, <2>3
  <2> QED  BY <2>2, <2>4, <2>5
<1> QED  BY <1>4, <1>6, <1>7 DEF A

(* validate never accepts more than the whole delegation chain allows. *)
THEOREM AcceptedIsConfinedEver == Spec => []AcceptedIsConfined
<1>1. Init => AcceptedIsConfined
  BY DEF Init, AcceptedIsConfined
<1>2. IInv /\ IInv' /\ AcceptedIsConfined /\ [Next]_vars => AcceptedIsConfined'
  <2> SUFFICES ASSUME IInv, IInv', AcceptedIsConfined, [Next]_vars
               PROVE  AcceptedIsConfined'
    OBVIOUS
  <2>1. ASSUME NEW i \in 1 .. MaxId, NEW q \in SUBSET Perms, NEW n \in Nonces,
               Validate(i, q, n)
        PROVE  AcceptedIsConfined'
    <3>1. CASE result'.code # "Ok"
      BY <3>1 DEF AcceptedIsConfined
    <3>2. CASE result'.code = "Ok"
      <4>1. PreCheck(i, q) = "Ok" /\ result' = [op |-> "validate", id |-> i, perm |-> q, code |-> "Ok"]
        BY <2>1, <3>2 DEF Validate, Returns
      <4>2. i \in Live /\ q \subseteq tokens[i].token.permissions /\ tokens' = tokens
        BY <2>1, <4>1 DEF PreCheck, Validate
      <4>3. /\ \E a \in AncestorsOf(i) : Parent(a) = 0
            /\ \A a \in AncestorsOf(i) : q \subseteq tokens[a].token.permissions
        BY <4>2, AncestorsConfine
      <4>4. AncestorsOf(i)' = AncestorsOf(i) /\ \A a : Parent(a)' = Parent(a)
        BY <4>2 DEF AncestorsOf, Parent, Live
      <4>5. result'.id = i /\ result'.perm = q
        BY <4>1
      <4>6. AncestorsOf(result.id)' = AncestorsOf(i)
        BY <4>2, <4>5 DEF AncestorsOf, Parent, Live
      <4> QED  BY <4>2, <4>3, <4>4, <4>5, <4>6 DEF AcceptedIsConfined
    <3> QED  BY <3>1, <3>2
  <2>2. CASE CreateAny \/ DelegateAny
    BY <2>2 DEF CreateAny, DelegateAny, Create, Delegate, Returns, AcceptedIsConfined
  <2>3. CASE Clear \/ (\E i \in 1 .. MaxId : Revoke(i)) \/ (\E n \in 1 .. MaxTick : AdvanceTicks(n))
    BY <2>3 DEF Clear, Revoke, AdvanceTicks, Returns, AcceptedIsConfined
  <2>4. CASE UNCHANGED vars
    BY <2>4 DEF vars, AcceptedIsConfined, AncestorsOf, Parent, Live
  <2> QED  BY <2>1, <2>2, <2>3, <2>4 DEF Next, ValidateAny
<1> QED  BY <1>1, <1>2, InvHolds, PTL DEF Spec

(* A revocation removes the delegation subtree, all of it and nothing      *)
(* else, and leaves the signed fields of the other tokens alone.           *)
THEOREM RevokeIsExactEver == Spec => RevokeIsExact
<1> DEFINE A == (result' # result /\ result'.op = "revoke" /\ result'.code = "Ok") =>
                  /\ Live' = Live \ Descendants(result'.id)
                  /\ \A t \in Live' : tokens'[t].token = tokens[t].token
<1>1. IInv /\ [Next]_vars => [A]_vars
  <2> SUFFICES ASSUME IInv, Next, result'.op = "revoke", result'.code = "Ok"
               PROVE  /\ Live' = Live \ Descendants(result'.id)
                      /\ \A t \in Live' : tokens'[t].token = tokens[t].token
    OBVIOUS
  <2>1. ASSUME NEW i \in 1 .. MaxId, Revoke(i)
        PROVE  /\ Live' = Live \ Descendants(result'.id)
               /\ \A t \in Live' : tokens'[t].token = tokens[t].token
    <3>1. i \in Live /\ result'.id = i
      BY <2>1 DEF Revoke, Returns
    <3>2. tokens' = Without(Unlinked(i), Cascade(Unlinked(i), i))
      BY <2>1, <3>1 DEF Revoke, Unlinked, Parent
    <3> QED  BY <3>1, <3>2, PruneTree
  <2>2. ~CreateAny /\ ~DelegateAny
    BY DEF CreateAny, DelegateAny, Create, Delegate, Returns
  <2>3. ~ValidateAny
    BY DEF ValidateAny, Validate, Returns
  <2>4. ~Clear /\ ~\E n \in 1 .. MaxTick : AdvanceTicks(n)
    BY DEF Clear, AdvanceTicks, Returns
  <2> QED  BY <2>1, <2>2, <2>3, <2>4 DEF Next
<1> QED  BY <1>1, InvHolds, PTL DEF Spec, RevokeIsExact

-----------------------------------------------------------------------------
(* The live tokens after a revocation that finds its token. *)
LEMMA RevokeDomains ==
  ASSUME TypeOK, NEW i \in Live, Revoke(i)
  PROVE  \E doomed : /\ Live' = Live \ doomed
                     /\ DOMAIN usage' = DOMAIN usage \ doomed
                     /\ DOMAIN last_seen' = DOMAIN last_seen \ doomed
                     /\ \A t \in DOMAIN last_seen' : last_seen'[t] = last_seen[t]
                     /\ \A t \in DOMAIN usage' : usage'[t] = usage[t]
                     /\ \A t \in Live' : SameGrant(tokens'[t], tokens[t])
<1>1. Live \in SUBSET Nat /\ tokens \in [Live -> StoredToken] /\ Parent(i) \in Nat
  BY DEF TypeOK, Parent, StoredToken, WireToken
<1>2. /\ UnlinkChild(tokens, Parent(i), i) \in [Live -> StoredToken]
      /\ \A x \in Live : SameGrant(UnlinkChild(tokens, Parent(i), i)[x], tokens[x])
  BY <1>1, UnlinkChildType
<1>3. DOMAIN Unlinked(i) = Live /\ \A x \in Live : SameGrant(Unlinked(i)[x], tokens[x])
  BY <1>1, <1>2 DEF Unlinked, SameGrant
<1>4. PICK doomed : /\ tokens' = Without(Unlinked(i), doomed)
                    /\ usage' = Without(usage, doomed)
                    /\ last_seen' = Without(last_seen, doomed)
  BY DEF Revoke, Unlinked, Parent
<1> QED  BY <1>3, <1>4 DEF Without, Live

(* There are finitely many tokens. *)
LEMMA LiveFinite == ASSUME TypeOK PROVE IsFiniteSet(Live)
<1>1. 1 \in Int /\ next_id - 1 \in Int /\ Live \in SUBSET (1 .. (next_id - 1))
  BY DEF TypeOK
<1>2. IsFiniteSet(1 .. (next_id - 1))
  BY <1>1, FS_Interval
<1> QED  BY <1>1, <1>2, FS_Subset

(* A token is added only while there is room for it. *)
LEMMA RoomForOne ==
  ASSUME TypeOK, Cardinality(Live) < MaxTokens
  PROVE  Cardinality(Live \cup {next_id}) <= MaxTokens
<1>1. IsFiniteSet(Live) /\ next_id \notin Live
  BY LiveFinite DEF TypeOK
<1>2. Cardinality(Live) \in Nat /\ Cardinality(Live \cup {next_id}) = Cardinality(Live) + 1
  BY <1>1, FS_AddElement, FS_CardinalityType
<1> QED  BY <1>2, BoundsAssumption

(* The trackers stay within the store, and the store within its capacity. *)
LEMMA TrackersStep == TypeOK /\ TrackersWithinStore /\ [Next]_vars => TrackersWithinStore'
<1> SUFFICES ASSUME TypeOK, TrackersWithinStore, [Next]_vars PROVE TrackersWithinStore'
  OBVIOUS
<1>1. ASSUME UNCHANGED <<tokens, usage, last_seen>> PROVE TrackersWithinStore'
  BY <1>1 DEF TrackersWithinStore, Live
<1>2. ASSUME UNCHANGED <<usage, last_seen>>, Cardinality(Live) < MaxTokens,
             Live' = Live \cup {next_id}
      PROVE  TrackersWithinStore'
  BY <1>2, RoomForOne DEF TrackersWithinStore
<1>3. CASE CreateAny
  <2>1. CASE UNCHANGED tokens
    BY <1>1, <1>3, <2>1 DEF CreateAny, Create
  <2>2. CASE ~ UNCHANGED tokens
    BY <1>2, <1>3, <2>2 DEF CreateAny, Create, Insert, Live
  <2> QED  BY <2>1, <2>2
<1>4. CASE DelegateAny
  <2>1. CASE UNCHANGED tokens
    BY <1>1, <1>4, <2>1 DEF DelegateAny, Delegate
  <2>2. CASE ~ UNCHANGED tokens
    <3>1. PICK p, n : /\ tokens' = [Insert(tokens, next_id, n) EXCEPT ![p].first_child = next_id]
                      /\ Cardinality(Live) < MaxTokens
                      /\ UNCHANGED <<usage, last_seen>>
      <4>1. PICK p, o, q, e, b : Delegate(p, o, q, e, b)
        BY <1>4 DEF DelegateAny
      <4>2. DelegateError(p, q) = "Ok" => ~ (Cardinality(Live) >= MaxTokens)
        BY DEF DelegateError
      <4>3. Cardinality(Live) \in Nat
        BY LiveFinite, FS_CardinalityType
      <4> QED  BY <2>2, <4>1, <4>2, <4>3, BoundsAssumption DEF Delegate
    <3>2. DOMAIN tokens' = DOMAIN Insert(tokens, next_id, n)
      BY <3>1
    <3> QED  BY <1>2, <3>1, <3>2 DEF Insert, Live
  <2> QED  BY <2>1, <2>2
<1>5. ASSUME NEW i \in 1 .. MaxId, NEW q \in SUBSET Perms, NEW n \in Nonces, Validate(i, q, n)
      PROVE  TrackersWithinStore'
  <2>1. CASE i \notin Live
    BY <1>1, <1>5, <2>1 DEF Validate, PreCheck
  <2>2. CASE i \in Live
    BY <1>5, <2>2 DEF Validate, OrInsert, TrackersWithinStore, Live
  <2> QED  BY <2>1, <2>2
<1>6. ASSUME NEW i \in 1 .. MaxId, Revoke(i) PROVE TrackersWithinStore'
  <2>1. CASE i \notin Live
    BY <1>1, <1>6, <2>1 DEF Revoke
  <2>2. CASE i \in Live
    <3>1. PICK doomed : /\ Live' = Live \ doomed
                        /\ DOMAIN usage' = DOMAIN usage \ doomed
                        /\ DOMAIN last_seen' = DOMAIN last_seen \ doomed
      BY <1>6, <2>2, RevokeDomains
    <3>2. IsFiniteSet(Live) /\ Live' \in SUBSET Live
      BY <3>1, LiveFinite
    <3>3. /\ Cardinality(Live') <= Cardinality(Live)
          /\ Cardinality(Live) \in Nat /\ Cardinality(Live') \in Nat
      BY <3>2, FS_Subset, FS_CardinalityType
    <3>4. Cardinality(Live') <= MaxTokens
      BY <3>3, BoundsAssumption DEF TrackersWithinStore
    <3> QED  BY <3>1, <3>4 DEF TrackersWithinStore
  <2> QED  BY <2>1, <2>2
<1>7. CASE Clear
  BY <1>7, FS_EmptySet, BoundsAssumption DEF Clear, Without, Live, TrackersWithinStore
<1>8. CASE \E n \in 1 .. MaxTick : AdvanceTicks(n)
  BY <1>1, <1>8 DEF AdvanceTicks
<1>9. CASE UNCHANGED vars
  BY <1>1, <1>9 DEF vars
<1> QED  BY <1>3, <1>4, <1>5, <1>6, <1>7, <1>8, <1>9 DEF Next, ValidateAny

(* Nonce and budget entries exist for live tokens only and there are never *)
(* more tokens than MAX_TOKENS, so the maps under the trackers never       *)
(* overflow and the expect in get_or_insert cannot fire.                   *)
THEOREM TrackersWithinStoreEver == Spec => []TrackersWithinStore
<1>1. Init => TrackersWithinStore
  BY FS_EmptySet, BoundsAssumption DEF Init, TrackersWithinStore, Live
<1> QED  BY <1>1, TypeCorrect, TrackersStep, PTL DEF Spec

(* No nonce is accepted twice in the life of a token: the last nonce seen  *)
(* never goes back while the token lives, and each accepted validate moves *)
(* it forward (NonceTracker::check_and_advance, remove in revoke).         *)
THEOREM NonceAdvancesEver == Spec => NonceAdvances
<1> DEFINE A == /\ \A t \in Live \cap Live' : Seen(t) <= Seen(t)'
                /\ (result' # result /\ result'.op = "validate" /\ result'.code = "Ok")
                     => \A t \in Live : t = result'.id => Seen(t) < Seen(t)'
<1>1. TypeOK /\ [Next]_vars => [A]_vars
  <2> SUFFICES ASSUME TypeOK, Next PROVE A
    OBVIOUS
  <2>1. \A t : Seen(t) \in Nat
    BY DEF TypeOK, Seen
  <2>2. ASSUME UNCHANGED last_seen, result'.op # "validate" PROVE A
    BY <2>1, <2>2 DEF Seen
  <2>3. CASE CreateAny \/ DelegateAny
    BY <2>2, <2>3 DEF CreateAny, DelegateAny, Create, Delegate, Returns
  <2>4. ASSUME NEW i \in 1 .. MaxId, NEW q \in SUBSET Perms, NEW n \in Nonces, Validate(i, q, n)
        PROVE  A
    <3>1. CASE UNCHANGED last_seen /\ result'.code # "Ok"
      BY <2>1, <3>1 DEF Seen
    <3>2. CASE last_seen' = OrInsert(last_seen, i, 0) /\ result'.code # "Ok"
      BY <2>1, <3>2 DEF Seen, OrInsert
    <3>3. CASE last_seen' = [OrInsert(last_seen, i, 0) EXCEPT ![i] = n] /\ Fresh(i, n)
      <4>1. \A t : Seen(t)' = IF t = i THEN n ELSE Seen(t)
        BY <3>3 DEF Seen, OrInsert
      <4>2. result'.id = i
        BY <2>4 DEF Validate, Returns
      <4>3. n \in Nat
        BY NoncesAssumption
      <4> QED  BY <2>1, <3>3, <4>1, <4>2, <4>3 DEF Fresh
    <3> QED  BY <2>4, <3>1, <3>2, <3>3 DEF Validate, Returns
  <2>5. ASSUME NEW i \in 1 .. MaxId, Revoke(i) PROVE A
    <3>1. CASE i \notin Live
      BY <2>2, <2>5, <3>1 DEF Revoke, Returns
    <3>2. CASE i \in Live
      <4>1. PICK doomed : /\ Live' = Live \ doomed
                          /\ DOMAIN last_seen' = DOMAIN last_seen \ doomed
                          /\ \A t \in DOMAIN last_seen' : last_seen'[t] = last_seen[t]
        BY <2>5, <3>2, RevokeDomains
      <4>2. \A t \in Live' : Seen(t)' = Seen(t)
        BY <4>1 DEF Seen
      <4>3. result'.op = "revoke"
        BY <2>5 DEF Revoke, Returns
      <4> QED  BY <2>1, <4>2, <4>3
    <3> QED  BY <3>1, <3>2
  <2>6. CASE Clear
    BY <2>6 DEF Clear, Without, Live, Returns
  <2>7. CASE \E n \in 1 .. MaxTick : AdvanceTicks(n)
    BY <2>2, <2>7 DEF AdvanceTicks, Returns
  <2> QED  BY <2>3, <2>4, <2>5, <2>6, <2>7 DEF Next, ValidateAny
<1> QED  BY <1>1, TypeCorrect, PTL DEF Spec, NonceAdvances

-----------------------------------------------------------------------------
(* Budgets.  What ties the two numbers of BudgetTracker to the uses a      *)
(* token has had: the last w.used of them are those of the current window, *)
(* the first of these opened it, and at most max_uses - 1 of the uses      *)
(* before it fell into the interval_ticks ticks before its start.          *)
WindowOk(s, w, b) ==
  /\ 1 <= w.used /\ w.used <= b.max_uses /\ w.used <= Len(s)
  /\ s[Len(s) - w.used + 1] = w.start
  /\ \A i \in 1 .. Len(s) : s[i] < w.start + b.interval_ticks
  /\ \A i \in 1 .. Len(s) - w.used : s[i] < w.start
  /\ \A i \in 1 .. Len(s) - w.used - b.max_uses + 1 : s[i] + b.interval_ticks <= w.start

(* The bound on the uses of one token, as BurstBound states it. *)
Spaced(s, b) ==
  \A i, j \in 1 .. Len(s) : j >= i + MostUses(b) => s[j] >= s[i] + b.interval_ticks

Ordered(s) == \A i, j \in 1 .. Len(s) : i <= j => s[i] <= s[j]

Budget == [max_uses: Nat, interval_ticks: Nat]

(* A use within the current window. *)
LEMMA SameWindow ==
  ASSUME NEW s \in Seq(Nat), NEW w \in [used: Nat, start: Nat], NEW b \in Budget, NEW now \in Nat,
         b.max_uses > 0, b.interval_ticks > 0,
         WindowOk(s, w, b), Spaced(s, b), \A i \in 1 .. Len(s) : s[i] <= now,
         w.start <= now, now - w.start < b.interval_ticks, w.used < b.max_uses
  PROVE  /\ WindowOk(Append(s, now), [w EXCEPT !.used = @ + 1], b)
         /\ Spaced(Append(s, now), b)
<1> DEFINE v == [w EXCEPT !.used = @ + 1]
           r == Append(s, now)
<1>1. PICK n \in Nat, M \in Nat, I \in Nat, u \in Nat, st \in Nat :
        n = Len(s) /\ M = b.max_uses /\ I = b.interval_ticks /\ u = w.used /\ st = w.start
  BY DEF Budget
<1>2. /\ Len(r) = n + 1 /\ r[n + 1] = now /\ \A i \in 1 .. n : r[i] = s[i] /\ s[i] \in Nat
      /\ v.used = u + 1 /\ v.start = st
  BY <1>1
<1>3. /\ 1 <= u /\ u <= M /\ u <= n /\ s[n - u + 1] = st
      /\ \A i \in 1 .. n : s[i] < st + I
      /\ \A i \in 1 .. n - u : s[i] < st
      /\ \A i \in 1 .. n - u - M + 1 : s[i] + I <= st
  BY <1>1 DEF WindowOk
<1>4. M > 0 /\ I > 0 /\ st <= now /\ now < st + I /\ u < M
  BY <1>1
<1> HIDE DEF v, r
<1>5. WindowOk(r, v, b)
  <2>1. Len(r) - v.used = n - u /\ Len(r) - v.used - M + 1 = n - u - M + 1
    BY <1>2
  <2>2. 1 <= v.used /\ v.used <= M /\ v.used <= Len(r) /\ r[n - u + 1] = v.start
    BY <1>2, <1>3, <1>4
  <2>3. \A i \in 1 .. n + 1 : r[i] < st + I
    BY <1>2, <1>3, <1>4
  <2>4. ASSUME NEW i \in 1 .. n - u PROVE r[i] < st
    <3>1. i \in 1 .. n
      BY ONLY n \in Nat, u \in Nat, i \in 1 .. n - u
    <3> QED  BY <1>2, <1>3, <3>1
  <2>5. ASSUME NEW i \in 1 .. n - u - M + 1 PROVE r[i] + I <= st
    <3>1. i \in 1 .. n
      BY ONLY n \in Nat, u \in Nat, M \in Nat, i \in 1 .. n - u - M + 1, <1>4
    <3> QED  BY <1>2, <1>3, <3>1
  <2> QED  BY <1>1, <1>2, <2>1, <2>2, <2>3, <2>4, <2>5 DEF WindowOk
<1>6. PICK m \in Nat \ {0} : m = MostUses(b) /\ m = IF I = 1 THEN M ELSE 2 * M - 1
  BY <1>1, <1>4 DEF MostUses
<1>7. ASSUME NEW i \in 1 .. n, n + 1 >= i + m PROVE now >= s[i] + I
  <2>1. CASE I = 1
    BY <1>2, <1>3, <1>4, <1>6, <1>7, <2>1, SMTT(30)
  <2>2. CASE I # 1
    BY <1>2, <1>3, <1>4, <1>6, <1>7, <2>2, SMTT(30)
  <2> QED  BY <2>1, <2>2
<1>8. Spaced(r, b)
  <2>1. ASSUME NEW i \in 1 .. n + 1, NEW j \in 1 .. n + 1, j >= i + m
        PROVE  r[j] >= r[i] + I
    <3>1. i \in 1 .. n
      BY <1>6, <2>1
    <3>2. CASE j \in 1 .. n
      BY <1>1, <1>2, <1>6, <2>1, <3>1, <3>2 DEF Spaced
    <3>3. CASE j = n + 1
      BY <1>2, <1>7, <2>1, <3>1, <3>3
    <3> QED  BY <3>2, <3>3
  <2> QED  BY <1>1, <1>2, <1>6, <2>1 DEF Spaced
<1> QED  BY <1>5, <1>8 DEF r, v

(* A use that opens a new window. *)
LEMMA NewWindow ==
  ASSUME NEW s \in Seq(Nat), NEW w \in [used: Nat, start: Nat], NEW b \in Budget, NEW now \in Nat,
         b.max_uses > 0, b.interval_ticks > 0,
         WindowOk(s, w, b), Spaced(s, b), Ordered(s),
         now - w.start >= b.interval_ticks
  PROVE  /\ WindowOk(Append(s, now), [used |-> 1, start |-> now], b)
         /\ Spaced(Append(s, now), b)
<1> DEFINE v == [used |-> 1, start |-> now]
           r == Append(s, now)
<1>1. PICK n \in Nat, M \in Nat, I \in Nat, u \in Nat, st \in Nat :
        n = Len(s) /\ M = b.max_uses /\ I = b.interval_ticks /\ u = w.used /\ st = w.start
  BY DEF Budget
<1>2. /\ Len(r) = n + 1 /\ r[n + 1] = now /\ \A i \in 1 .. n : r[i] = s[i] /\ s[i] \in Nat
      /\ v.used = 1 /\ v.start = now
  BY <1>1
<1>3. /\ 1 <= u /\ u <= M /\ u <= n /\ s[n - u + 1] = st
      /\ \A i \in 1 .. n : s[i] < st + I
      /\ \A i, j \in 1 .. n : i <= j => s[i] <= s[j]
  BY <1>1 DEF WindowOk, Ordered
<1>4. M > 0 /\ I > 0 /\ st + I <= now
  BY <1>1
<1> HIDE DEF v, r
<1>5. \A i \in 1 .. n : s[i] < now
  BY <1>2, <1>3, <1>4
<1>6. ASSUME NEW i \in 1 .. n - M + 1 PROVE i \in 1 .. n /\ s[i] + I <= now
  <2>1. i \in 1 .. n /\ n - u + 1 \in 1 .. n /\ i <= n - u + 1
    BY <1>3, <1>4
  <2>2. s[i] <= st
    BY <1>3, <2>1
  <2> QED  BY <1>2, <1>4, <2>1, <2>2
<1>7. WindowOk(r, v, b)
  <2>1. Len(r) - v.used = n /\ Len(r) - v.used - M + 1 = n - M + 1
    BY <1>2
  <2>2. \A i \in 1 .. n - M + 1 : r[i] + I <= now
    BY <1>2, <1>6
  <2>3. \A i \in 1 .. n : r[i] < now
    BY <1>2, <1>5
  <2>4. \A i \in 1 .. n + 1 : r[i] < now + I
    BY <1>2, <1>4, <1>5
  <2>5. 1 <= v.used /\ v.used <= M /\ v.used <= Len(r) /\ r[Len(r) - v.used + 1] = now
    BY <1>2, <1>4
  <2> QED  BY <1>1, <1>2, <2>1, <2>2, <2>3, <2>4, <2>5 DEF WindowOk
<1>8. PICK m \in Nat \ {0} : m = MostUses(b) /\ m >= M
  BY <1>1, <1>4 DEF MostUses
<1>9. Spaced(r, b)
  <2>1. ASSUME NEW i \in 1 .. n + 1, NEW j \in 1 .. n + 1, j >= i + m
        PROVE  r[j] >= r[i] + I
    <3>1. i \in 1 .. n
      BY <1>8, <2>1
    <3>2. CASE j \in 1 .. n
      BY <1>1, <1>2, <1>8, <2>1, <3>1, <3>2 DEF Spaced
    <3>3. CASE j = n + 1
      <4>1. i \in 1 .. n - M + 1
        BY <1>8, <2>1, <3>1, <3>3
      <4> QED  BY <1>2, <1>6, <3>1, <3>3, <4>1
    <3> QED  BY <3>2, <3>3
  <2> QED  BY <1>1, <1>2, <1>8, <2>1 DEF Spaced
<1> QED  BY <1>7, <1>9 DEF r, v

(* The first use. *)
LEMMA FirstWindow ==
  ASSUME NEW b \in Budget, NEW now \in Nat, b.max_uses > 0, b.interval_ticks > 0
  PROVE  /\ WindowOk(Append(<< >>, now), [used |-> 1, start |-> now], b)
         /\ Spaced(Append(<< >>, now), b)
<1>1. b.max_uses \in Nat /\ b.interval_ticks \in Nat
  BY DEF Budget
<1>2. MostUses(b) \in Nat \ {0}
  BY <1>1 DEF MostUses
<1>3. Len(Append(<< >>, now)) = 1 /\ Append(<< >>, now)[1] = now
  OBVIOUS
<1> QED  BY <1>1, <1>2, <1>3 DEF WindowOk, Spaced

(* What a step leaves of the entry of a token that lives on. *)
LEMMA GrantsKept ==
  ASSUME TypeOK, Next, NEW t \in Live, t \in Live'
  PROVE  SameGrant(tokens'[t], tokens[t])
<1>1. ASSUME UNCHANGED tokens PROVE SameGrant(tokens'[t], tokens[t])
  BY <1>1 DEF SameGrant
<1>2. next_id \notin Live
  BY DEF TypeOK
<1>3. CASE CreateAny
  BY <1>1, <1>2, <1>3 DEF CreateAny, Create, Insert, SameGrant, Live
<1>4. CASE DelegateAny
  <2>1. PICK p, o, q, e, b : Delegate(p, o, q, e, b)
    BY <1>4 DEF DelegateAny
  <2>2. CASE UNCHANGED tokens
    BY <1>1, <2>2
  <2>3. CASE ~ UNCHANGED tokens
    <3>1. PICK n : tokens' = [Insert(tokens, next_id, n) EXCEPT ![p].first_child = next_id]
      BY <2>1, <2>3 DEF Delegate
    <3>2. t \in DOMAIN Insert(tokens, next_id, n) /\ Insert(tokens, next_id, n)[t] = tokens[t]
      BY <1>2 DEF Insert, Live
    <3>3. tokens'[t] = tokens[t] \/ tokens'[t] = [tokens[t] EXCEPT !.first_child = next_id]
      BY <3>1, <3>2
    <3>4. tokens[t] \in StoredToken
      BY DEF TypeOK
    <3> QED  BY <3>3, <3>4 DEF StoredToken, SameGrant
  <2> QED  BY <2>2, <2>3
<1>5. ASSUME NEW i \in 1 .. MaxId, Revoke(i) PROVE SameGrant(tokens'[t], tokens[t])
  <2>1. CASE i \notin Live
    BY <1>1, <1>5, <2>1 DEF Revoke
  <2>2. CASE i \in Live
    BY <1>5, <2>2, RevokeDomains
  <2> QED  BY <2>1, <2>2
<1>6. CASE ValidateAny \/ \E n \in 1 .. MaxTick : AdvanceTicks(n)
  BY <1>1, <1>6 DEF ValidateAny, Validate, AdvanceTicks
<1>7. CASE Clear
  BY <1>7 DEF Clear, Without, Live
<1> QED  BY <1>3, <1>4, <1>5, <1>6, <1>7 DEF Next

(* The uses of a live token lie in its lifetime and keep its budget. *)
UsesOk(t) ==
  LET s == uses[t]
      b == tokens[t].budget
  IN  /\ \A i \in 1 .. Len(s) :
           s[i] >= tokens[t].created_at /\ (tokens[t].token.expires > 0 => s[i] < Deadline(t))
      /\ b # None /\ b.max_uses = 0 => s = << >>
      /\ b # None /\ b.max_uses > 0 /\ b.interval_ticks > 0 =>
           IF t \in DOMAIN usage THEN WindowOk(s, usage[t], b) /\ Spaced(s, b) ELSE s = << >>

(* The history is well formed: ordered, not in the future, and empty for   *)
(* identifiers that were not given out yet.                                *)
HistoryOk ==
  /\ next_id <= MaxId + 1
  /\ uses \in [1 .. MaxId -> Seq(Nat)]
  /\ \A t \in 1 .. MaxId : t >= next_id => uses[t] = << >>
  /\ \A t \in 1 .. MaxId : Ordered(uses[t]) /\ \A i \in 1 .. Len(uses[t]) : uses[t][i] <= current_tick

BudgetInv == HistoryOk /\ \A t \in Live : UsesOk(t) /\ tokens[t].created_at <= current_tick

(* A step that does not concern t. *)
LEMMA UsesKept ==
  ASSUME NEW t, UsesOk(t), SameGrant(tokens'[t], tokens[t]), uses'[t] = uses[t],
         t \in DOMAIN usage' <=> t \in DOMAIN usage,
         t \in DOMAIN usage => usage'[t] = usage[t]
  PROVE  UsesOk(t)'
<1>1. /\ tokens'[t].budget = tokens[t].budget /\ tokens'[t].created_at = tokens[t].created_at
      /\ tokens'[t].token = tokens[t].token
  BY DEF SameGrant
<1>2. Deadline(t)' = Deadline(t)
  BY <1>1 DEF Deadline
<1> QED  BY <1>1, <1>2 DEF UsesOk

(* The history of a token grows at its end. *)
LEMMA HistoryGrows ==
  ASSUME HistoryOk, current_tick \in Nat, next_id \in Nat, NEW t \in 1 .. MaxId, t < next_id,
         uses' = [uses EXCEPT ![t] = Append(@, current_tick)], UNCHANGED <<next_id, current_tick>>
  PROVE  HistoryOk'
<1> DEFINE s == uses[t]
           r == Append(s, current_tick)
<1>1. s \in Seq(Nat) /\ Ordered(s) /\ \A i \in 1 .. Len(s) : s[i] <= current_tick
  BY DEF HistoryOk
<1>2. /\ r \in Seq(Nat) /\ Len(s) \in Nat /\ Len(r) = Len(s) + 1 /\ r[Len(s) + 1] = current_tick
      /\ \A i \in 1 .. Len(s) : r[i] = s[i] /\ s[i] \in Nat
  BY <1>1
<1>3. /\ uses'[t] = r
      /\ \A u \in 1 .. MaxId : u # t => uses'[u] = uses[u]
      /\ uses' \in [1 .. MaxId -> Seq(Nat)]
  BY <1>2 DEF HistoryOk
<1> HIDE DEF r
<1>4. ASSUME NEW i \in 1 .. Len(r) PROVE r[i] <= current_tick
  <2>1. CASE i \in 1 .. Len(s)
    BY <1>1, <1>2, <2>1
  <2>2. CASE i = Len(s) + 1
    BY <1>2, <2>2
  <2> QED  BY <1>2, <2>1, <2>2
<1>5. Ordered(r)
  <2> SUFFICES ASSUME NEW i \in 1 .. Len(r), NEW j \in 1 .. Len(r), i <= j PROVE r[i] <= r[j]
    BY DEF Ordered
  <2>1. CASE j \in 1 .. Len(s)
    <3>1. i \in 1 .. Len(s)
      BY <1>2, <2>1
    <3> QED  BY <1>1, <1>2, <2>1, <3>1 DEF Ordered
  <2>2. CASE j = Len(r)
    BY <1>2, <1>4, <2>2
  <2> QED  BY <1>2, <2>1, <2>2
<1>6. \A u \in 1 .. MaxId : Ordered(uses'[u]) /\ \A i \in 1 .. Len(uses'[u]) : uses'[u][i] <= current_tick
  BY <1>3, <1>4, <1>5 DEF HistoryOk
<1>7. \A u \in 1 .. MaxId : u >= next_id => uses'[u] = << >>
  <2>1. \A u \in 1 .. MaxId : u >= next_id => u # t
    OBVIOUS
  <2> QED  BY <1>3, <2>1 DEF HistoryOk
<1> QED  BY <1>3, <1>6, <1>7 DEF HistoryOk

(* A validate call on token i with the history that goes with it. *)
LEMMA ValidateKeepsBudget ==
  ASSUME TypeOK, BudgetInv, NEW i \in 1 .. MaxId, NEW q \in SUBSET Perms, NEW n \in Nonces,
         Validate(i, q, n), Record
  PROVE  BudgetInv'
<1> USE BudgetsAssumption, NoneAssumption, BoundsAssumption
<1> DEFINE now == current_tick
           b == tokens[i].budget
           s == uses[i]
           counts == OrInsert(usage, i, [used |-> 0, start |-> now])
           window == Window(counts[i], b)
<1>1. /\ UNCHANGED <<tokens, next_id, current_tick>> /\ Live' = Live
      /\ result'.op = "validate" /\ result'.id = i
  BY DEF Validate, Returns, Live
<1>2. now \in Nat /\ next_id \in Nat /\ Live \subseteq 1 .. (next_id - 1) /\ HistoryOk
  BY DEF TypeOK, BudgetInv
<1>3. CASE i \notin Live
  <2>1. UNCHANGED <<usage, uses>>
    BY <1>1, <1>3 DEF Validate, PreCheck, Returns, Record
  <2>2. HistoryOk'
    BY <1>1, <1>2, <2>1 DEF HistoryOk, Ordered
  <2>3. \A t \in Live : UsesOk(t)'
    BY <1>1, <2>1, UsesKept DEF BudgetInv, SameGrant
  <2> QED  BY <1>1, <2>2, <2>3 DEF BudgetInv
<1>4. CASE i \in Live
  <2>1. /\ tokens[i] \in StoredToken /\ i < next_id /\ s \in Seq(Nat) /\ UsesOk(i) /\ Ordered(s)
        /\ \A j \in 1 .. Len(s) : s[j] <= now
    BY <1>2, <1>4 DEF TypeOK, BudgetInv, HistoryOk
  <2>2. /\ counts \in [DOMAIN counts -> [used: Nat, start: Nat]] /\ i \in DOMAIN counts
        /\ counts[i] = IF i \in DOMAIN usage THEN usage[i] ELSE [used |-> 0, start |-> now]
        /\ \A t \in DOMAIN usage : t # i => t \in DOMAIN counts /\ counts[t] = usage[t]
        /\ \A t \in DOMAIN counts : t # i => t \in DOMAIN usage
        /\ counts[i].start <= now
    BY <1>2 DEF TypeOK, OrInsert
  <2>3. ASSUME NEW t \in Live, t # i PROVE UsesOk(t)'
    <3>1. /\ t \in DOMAIN usage' <=> t \in DOMAIN usage
          /\ t \in DOMAIN usage => usage'[t] = usage[t]
      BY <2>2, <2>3 DEF Validate
    <3>2. uses'[t] = uses[t]
      BY <1>1, <1>2, <2>3 DEF Record, HistoryOk, TypeOK
    <3> QED  BY <1>1, <3>1, <3>2, UsesKept DEF BudgetInv, SameGrant
  <2>4. CASE result'.code # "Ok"
    <3>1. uses' = uses
      BY <1>1, <2>4 DEF Record
    <3>2. HistoryOk'
      BY <1>1, <1>2, <3>1 DEF HistoryOk, Ordered
    <3>3. UsesOk(i)'
      <4>1. CASE UNCHANGED usage
        BY <1>1, <2>1, <3>1, <4>1, UsesKept DEF SameGrant
      <4>2. CASE b # None /\ window.used >= b.max_uses /\ usage' = [counts EXCEPT ![i] = window]
        <5>1. b \in Budget
          BY <2>1, <4>2 DEF StoredToken, Budget
        <5>2. CASE b.max_uses > 0
          <6>1. window = counts[i]
            BY <5>1, <5>2, <4>2, <2>2 DEF Window, Budget
          <6>2. i \in DOMAIN usage
            BY <2>2, <4>2, <5>1, <5>2, <6>1 DEF Budget
          <6>3. i \in DOMAIN usage' /\ usage'[i] = usage[i]
            BY <2>2, <4>2, <6>1, <6>2
          <6> QED  BY <1>1, <2>1, <3>1, <6>2, <6>3, UsesKept DEF SameGrant
        <5>3. CASE ~ (b.max_uses > 0)
          <6>1. /\ tokens'[i] = tokens[i] /\ uses'[i] = uses[i] /\ Deadline(i)' = Deadline(i)
            BY <1>1, <3>1 DEF Deadline
          <6> QED  BY <2>1, <5>3, <6>1 DEF UsesOk
        <5> QED  BY <5>2, <5>3
      <4> QED  BY <2>4, <4>1, <4>2 DEF Validate, Returns
    <3> QED  BY <1>1, <2>3, <3>2, <3>3 DEF BudgetInv
  <2>5. CASE result'.code = "Ok"
    <3>1. uses' = [uses EXCEPT ![i] = Append(@, now)]
      BY <1>1, <2>5 DEF Record
    <3>2. HistoryOk'
      BY <1>1, <1>2, <2>1, <3>1, HistoryGrows
    <3>3. uses'[i] = Append(s, now)
      BY <1>2, <3>1 DEF HistoryOk
    <3>4. ~Expired(tokens[i]) /\ tokens[i].created_at <= now
      BY <1>1, <1>4, <2>1, <2>5 DEF Validate, PreCheck, Returns, BudgetInv
    <3>5. /\ tokens'[i] = tokens[i] /\ Deadline(i)' = Deadline(i)
      BY <1>1 DEF Deadline
    <3>6. \A j \in 1 .. Len(uses'[i]) :
            /\ uses'[i][j] >= tokens[i].created_at
            /\ tokens[i].token.expires > 0 => uses'[i][j] < Deadline(i)
      <4>1. \A j \in 1 .. Len(s) :
              /\ s[j] >= tokens[i].created_at
              /\ tokens[i].token.expires > 0 => s[j] < Deadline(i)
        BY <2>1 DEF UsesOk
      <4>2. /\ Len(Append(s, now)) = Len(s) + 1 /\ Append(s, now)[Len(s) + 1] = now
            /\ Len(s) \in Nat /\ \A j \in 1 .. Len(s) : Append(s, now)[j] = s[j]
        BY <1>2, <2>1
      <4>3. /\ now >= tokens[i].created_at
            /\ tokens[i].token.expires > 0 => now < Deadline(i)
        BY <1>2, <2>1, <3>4 DEF Expired, Deadline, StoredToken, WireToken
      <4> QED  BY <3>3, <4>1, <4>2, <4>3
    <3>7. ASSUME b = None PROVE UsesOk(i)'
      BY <3>5, <3>6, <3>7 DEF UsesOk
    <3>8. ASSUME b # None PROVE UsesOk(i)'
      <4>1. /\ window.used < b.max_uses
            /\ usage' = [counts EXCEPT ![i] = [window EXCEPT !.used = @ + 1]]
        BY <1>1, <2>5, <3>8 DEF Validate, Returns
      <4>2. b \in Budget
        BY <2>1, <3>8 DEF StoredToken, Budget
      <4>3. window \in [used: Nat, start: Nat]
        BY <1>2, <2>2 DEF Window
      <4>4. i \in DOMAIN usage' /\ usage'[i] = [window EXCEPT !.used = @ + 1]
        BY <2>2, <4>1
      <4>5. b.max_uses > 0
        BY <4>1, <4>2, <4>3 DEF Budget
      <4>6. ASSUME b.interval_ticks > 0
            PROVE  WindowOk(Append(s, now), usage'[i], b) /\ Spaced(Append(s, now), b)
        <5>1. CASE i \notin DOMAIN usage
          <6>1. s = << >>
            BY <2>1, <3>8, <4>5, <4>6, <5>1 DEF UsesOk
          <6>2. usage'[i] = [used |-> 1, start |-> now]
            BY <1>2, <2>2, <4>2, <4>4, <4>6, <5>1 DEF Window, Budget
          <6> QED  BY <1>2, <4>2, <4>5, <4>6, <6>1, <6>2, FirstWindow
        <5>2. CASE i \in DOMAIN usage
          <6> DEFINE w == usage[i]
          <6>1. WindowOk(s, w, b) /\ Spaced(s, b)
            BY <2>1, <3>8, <4>5, <4>6, <5>2 DEF UsesOk
          <6>2. counts[i] = w /\ w \in [used: Nat, start: Nat] /\ w.start <= now
            BY <2>2, <5>2
          <6>3. CASE now - w.start >= b.interval_ticks
            <7>1. usage'[i] = [used |-> 1, start |-> now]
              BY <4>4, <6>2, <6>3 DEF Window
            <7> HIDE DEF w, b, s, now
            <7> QED  BY <1>2, <2>1, <4>2, <4>5, <4>6, <6>1, <6>2, <6>3, <7>1, NewWindow
          <6>4. CASE ~ (now - w.start >= b.interval_ticks)
            <7>1. window = w
              BY <6>2, <6>4 DEF Window
            <7>2. usage'[i] = [w EXCEPT !.used = @ + 1] /\ w.used < b.max_uses
              BY <4>1, <4>4, <7>1
            <7>3. now - w.start < b.interval_ticks
              BY <1>2, <4>2, <6>2, <6>4 DEF Budget
            <7>4. \A j \in 1 .. Len(s) : s[j] <= now
              BY <2>1
            <7> HIDE DEF w, b, s, now
            <7>5. /\ WindowOk(Append(s, now), [w EXCEPT !.used = @ + 1], b)
                  /\ Spaced(Append(s, now), b)
              BY <1>2, <2>1, <4>2, <4>5, <4>6, <6>1, <6>2, <7>2, <7>3, <7>4, SameWindow
            <7> QED  BY <7>2, <7>5
          <6> QED  BY <6>3, <6>4
        <5> QED  BY <5>1, <5>2
      <4> HIDE DEF window, counts
      <4> QED  BY <3>3, <3>5, <3>6, <4>4, <4>5, <4>6 DEF UsesOk
    <3>9. UsesOk(i)'
      BY <3>7, <3>8
    <3> QED  BY <1>1, <2>3, <3>2, <3>9 DEF BudgetInv
  <2> QED  BY <2>4, <2>5
<1> QED  BY <1>3, <1>4

(* The budget invariant is inductive, given the type of the store and that *)
(* the trackers hold live tokens only.                                     *)
LEMMA BudgetStep ==
  (TypeOK /\ TypeOK' /\ TrackersWithinStore /\ TrackersWithinStore' /\ BudgetInv /\ [HNext]_hvars)
    => BudgetInv'
<1> SUFFICES ASSUME TypeOK, TypeOK', TrackersWithinStore, TrackersWithinStore', BudgetInv, [HNext]_hvars
             PROVE  BudgetInv'
  OBVIOUS
<1> USE BoundsAssumption
<1>1. /\ next_id \in Nat /\ current_tick \in Nat /\ Live \subseteq 1 .. (next_id - 1) /\ HistoryOk
      /\ \A t \in Live : t \in 1 .. MaxId
  BY DEF TypeOK, BudgetInv, HistoryOk
<1>2. CASE UNCHANGED hvars
  <2>1. UNCHANGED <<tokens, usage, uses, next_id, current_tick>> /\ Live' = Live
    BY <1>2 DEF hvars, vars, Live
  <2>2. HistoryOk'
    BY <1>1, <2>1 DEF HistoryOk, Ordered
  <2>3. \A t \in Live : UsesOk(t)'
    BY <2>1, UsesKept DEF BudgetInv, SameGrant
  <2> QED  BY <2>1, <2>2, <2>3 DEF BudgetInv
<1>3. ASSUME Next, uses' = uses, \A t \in Live \cap Live' : t \in DOMAIN usage' <=> t \in DOMAIN usage,
             \A t \in DOMAIN usage' : t \in DOMAIN usage /\ usage'[t] = usage[t],
             next_id' \in {next_id, next_id + 1}, next_id' <= MaxId + 1, current_tick <= current_tick',
             \A t \in Live' : t \notin Live =>
               t = next_id /\ next_id' = next_id + 1 /\ tokens'[t].created_at = current_tick
      PROVE  BudgetInv'
  <2>1. current_tick' \in Nat /\ next_id' \in Nat
    BY DEF TypeOK
  <2>2. HistoryOk'
    <3>1. /\ \A t \in 1 .. MaxId : t >= next_id' => uses'[t] = << >>
          /\ uses' \in [1 .. MaxId -> Seq(Nat)]
      BY <1>1, <1>3, <2>1 DEF HistoryOk
    <3>2. ASSUME NEW t \in 1 .. MaxId
          PROVE  Ordered(uses'[t]) /\ \A i \in 1 .. Len(uses'[t]) : uses'[t][i] <= current_tick'
      <4>1. uses[t] \in Seq(Nat) /\ Ordered(uses[t]) /\ \A i \in 1 .. Len(uses[t]) : uses[t][i] <= current_tick
        BY <1>1 DEF HistoryOk
      <4>2. \A i \in 1 .. Len(uses[t]) : uses[t][i] \in Nat
        BY <4>1
      <4> QED  BY <1>1, <1>3, <2>1, <4>1, <4>2
    <3> QED  BY <1>3, <3>1, <3>2 DEF HistoryOk
  <2>3. ASSUME NEW t \in Live' PROVE UsesOk(t)' /\ tokens'[t].created_at <= current_tick'
    <3>1. CASE t \in Live
      <4>1. SameGrant(tokens'[t], tokens[t])
        BY <1>3, <3>1, GrantsKept
      <4>2. UsesOk(t) /\ tokens[t].created_at <= current_tick
        BY <3>1 DEF BudgetInv
      <4>3. tokens[t].created_at \in Nat
        BY <3>1 DEF TypeOK, StoredToken
      <4>4. UsesOk(t)'
        BY <1>3, <3>1, <4>1, <4>2, UsesKept
      <4> QED  BY <1>1, <1>3, <2>1, <4>1, <4>2, <4>3, <4>4 DEF SameGrant
    <3>2. CASE t \notin Live
      <4>1. t = next_id /\ t <= MaxId /\ t \in 1 .. MaxId /\ tokens'[t].created_at = current_tick
        BY <1>1, <1>3, <3>2 DEF TypeOK
      <4>2. uses'[t] = << >>
        BY <1>1, <1>3, <4>1 DEF HistoryOk
      <4>3. t \notin DOMAIN usage'
        BY <1>3, <3>2 DEF TrackersWithinStore
      <4> QED  BY <1>3, <4>1, <4>2, <4>3 DEF UsesOk
    <3> QED  BY <3>1, <3>2
  <2> QED  BY <2>2, <2>3 DEF BudgetInv
<1>4. CASE Next /\ Record
  <2>1. CASE CreateAny
    <3>1. uses' = uses /\ UNCHANGED <<usage, current_tick>>
      BY <1>4, <2>1 DEF CreateAny, Create, Returns, Record
    <3>2. CASE UNCHANGED <<tokens, next_id>>
      BY <1>1, <1>3, <1>4, <3>1, <3>2 DEF Live, HistoryOk
    <3>3. CASE ~ UNCHANGED <<tokens, next_id>>
      <4>1. next_id <= MaxId /\ next_id' = next_id + 1
        BY <2>1, <3>3 DEF CreateAny, Create, AllocId
      <4>2. PICK n : tokens' = Insert(tokens, next_id, n) /\ n.created_at = current_tick
        BY <2>1, <3>3 DEF CreateAny, Create, NewToken
      <4>3. \A t \in Live' : t \notin Live => t = next_id /\ tokens'[t].created_at = current_tick
        BY <4>2 DEF Insert, Live
      <4> QED  BY <1>1, <1>3, <1>4, <3>1, <4>1, <4>3
    <3> QED  BY <3>2, <3>3
  <2>2. CASE DelegateAny
    <3>1. uses' = uses /\ UNCHANGED <<usage, current_tick>>
      BY <1>4, <2>2 DEF DelegateAny, Delegate, Returns, Record
    <3>2. CASE UNCHANGED <<tokens, next_id>>
      BY <1>1, <1>3, <1>4, <3>1, <3>2 DEF Live, HistoryOk
    <3>3. CASE ~ UNCHANGED <<tokens, next_id>>
      <4>1. next_id <= MaxId /\ next_id' = next_id + 1
        BY <2>2, <3>3 DEF DelegateAny, Delegate, AllocId
      <4>2. PICK p, n : /\ tokens' = [Insert(tokens, next_id, n) EXCEPT ![p].first_child = next_id]
                        /\ n.created_at = current_tick /\ p \in Live
        <5>1. PICK p, o, q, e, b : Delegate(p, o, q, e, b)
          BY <2>2 DEF DelegateAny
        <5>2. DelegateError(p, q) = "Ok" => p \in Live
          BY DEF DelegateError
        <5> QED  BY <3>3, <5>1, <5>2 DEF Delegate, NewToken
      <4>3. p # next_id
        BY <1>1, <4>2
      <4>4. \A t \in Live' : t \notin Live => t = next_id /\ tokens'[t].created_at = current_tick
        BY <4>2, <4>3 DEF Insert, Live
      <4> QED  BY <1>1, <1>3, <1>4, <3>1, <4>1, <4>4
    <3> QED  BY <3>2, <3>3
  <2>3. CASE ValidateAny
    BY <1>4, <2>3, ValidateKeepsBudget DEF ValidateAny
  <2>4. ASSUME NEW i \in 1 .. MaxId, Revoke(i) PROVE BudgetInv'
    <3>1. uses' = uses /\ UNCHANGED <<next_id, current_tick>>
      BY <1>4, <2>4 DEF Revoke, Returns, Record
    <3>2. CASE i \notin Live
      <4>1. UNCHANGED <<tokens, usage>>
        BY <2>4, <3>2 DEF Revoke
      <4> QED  BY <1>1, <1>3, <1>4, <3>1, <4>1 DEF Live, HistoryOk
    <3>3. CASE i \in Live
      <4>1. PICK doomed : /\ Live' = Live \ doomed
                          /\ DOMAIN usage' = DOMAIN usage \ doomed
                          /\ \A t \in DOMAIN usage' : usage'[t] = usage[t]
        BY <2>4, <3>3, RevokeDomains
      <4> QED  BY <1>1, <1>3, <1>4, <3>1, <4>1 DEF HistoryOk
    <3> QED  BY <3>2, <3>3
  <2>5. ASSUME NEW n \in 1 .. MaxTick, AdvanceTicks(n) PROVE BudgetInv'
    <3>1. uses' = uses /\ UNCHANGED <<tokens, usage, next_id>> /\ current_tick <= current_tick'
      BY <1>1, <1>4, <2>5 DEF AdvanceTicks, Returns, Record
    <3> QED  BY <1>1, <1>3, <1>4, <3>1 DEF Live, HistoryOk
  <2>6. CASE Clear
    <3>1. uses' = NoUses /\ next_id' = 1 /\ Live' = {}
      BY <1>4, <2>6 DEF Clear, Returns, Record, Without, Live
    <3>2. \A t \in 1 .. MaxId : uses'[t] = << >>
      BY <3>1 DEF NoUses
    <3> QED  BY <3>1, <3>2 DEF BudgetInv, HistoryOk, Ordered, NoUses
  <2> QED  BY <1>4, <2>1, <2>2, <2>3, <2>4, <2>5, <2>6 DEF Next
<1> QED  BY <1>2, <1>4 DEF HNext

(* Whatever a holder presents and whenever, a token is accepted at most    *)
(* 2 * max_uses - 1 times in any interval_ticks consecutive ticks, never   *)
(* with a budget of zero, and only between its creation and its deadline.  *)
THEOREM BudgetsKeptEver == HSpec => []BudgetsKept
<1>1. HInit => Init /\ BudgetInv
  BY BoundsAssumption DEF HInit, Init, BudgetInv, HistoryOk, NoUses, Ordered, Live
<1>2. [HNext]_hvars => [Next]_vars
  BY DEF HNext, hvars
<1>3. BudgetInv /\ TypeOK => BudgetsKept
  <2> SUFFICES ASSUME BudgetInv, TypeOK, NEW t \in Live
               PROVE  /\ tokens[t].budget # None =>
                           LET b == tokens[t].budget
                           IN  /\ b.max_uses = 0 => uses[t] = << >>
                               /\ b.max_uses > 0 /\ b.interval_ticks > 0 =>
                                    \A i, j \in DOMAIN uses[t] :
                                      j >= i + MostUses(b) => uses[t][j] >= uses[t][i] + b.interval_ticks
                      /\ \A i \in DOMAIN uses[t] :
                           /\ uses[t][i] >= tokens[t].created_at
                           /\ tokens[t].token.expires > 0 => uses[t][i] < Deadline(t)
    BY DEF BudgetsKept, BurstBound, AcceptedInLifetime
  <2>1. uses[t] \in Seq(Nat) /\ DOMAIN uses[t] = 1 .. Len(uses[t])
    BY BoundsAssumption DEF BudgetInv, HistoryOk, TypeOK
  <2>2. UsesOk(t)
    BY DEF BudgetInv
  <2>3. uses[t] = << >> => Spaced(uses[t], tokens[t].budget)
    BY DEF Spaced
  <2> QED  BY <2>1, <2>2, <2>3 DEF UsesOk, Spaced
<1>4. HSpec => [](TypeOK /\ TrackersWithinStore)
  BY <1>1, <1>2, TypeCorrect, TrackersWithinStoreEver, PTL DEF HSpec, Spec
<1> QED  BY <1>1, <1>3, <1>4, BudgetStep, PTL DEF HSpec
=============================================================================
