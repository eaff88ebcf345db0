------------------------------ MODULE Resolver ------------------------------
(***************************************************************************)
(* Names and hardware addresses (kernel/src/network: dns, arp,             *)
(* nic_dispatch): the DNS cache, dns_resolve with its retries, the single  *)
(* response buffer that every resolution shares, the ARP table.  Frames    *)
(* are polled from the network card by whichever process is waiting, and   *)
(* the network may lose, delay, reorder and repeat them.                   *)
(***************************************************************************)
EXTENDS Integers, Sequences, FiniteSets, FiniteSetsExt

CONSTANTS
  Resolvers,   \* processes that resolve names
  Names,       \* host names
  Trunc(_),    \* the first 64 bytes of a name, which is what the cache stores
  CacheSize,   \* DNS_CACHE_SIZE
  Attempts,    \* attempts of dns_resolve: 3
  Polls,       \* poll_iterations
  Ttl,         \* lifetime of a cache entry, in ticks
  MaxTicks,    \* bound: ticks of the clock
  MaxQueries,  \* bound: queries sent
  MaxAccess    \* bound: look-ups

ASSUME ResolverAssumption == CacheSize \in Nat /\ Polls \in Nat /\ Ttl \in Nat

VARIABLES
  now,      \* tick_count
  wire,     \* frames that may still arrive
  arp,      \* ARP_TABLE knows the gateway
  buffer,   \* DNS_RESPONSE
  cache,    \* DNS_CACHE.entries
  accessSeq,\* DNS_CACHE.access_seq
  task,     \* process -> the resolution it is in
  used,     \* transaction identifiers of the queries sent: 1 .. used
  clash,    \* history: an identifier was used twice
  answers   \* history: <<name, address>> returned by dns_resolve

rvars == <<now, wire, arp, buffer, cache, accessSeq, task, used, clash, answers>>

CacheSlots == 1 .. CacheSize
NoEntry == [valid |-> FALSE, name |-> << >>, ip |-> << >>, expiry |-> 0, last |-> 0]
NoTask == [op |-> "idle"]

(* The address of a host is its own name: an answer is right when it is the *)
(* address of the name that was asked for.                                  *)
AddressOf(name) == <<name>>

(* A reply to a query, as parse_response reads it: with the address, with   *)
(* no A record, or too short to have an identifier (0).  It does not look   *)
(* at the question that the reply repeats.                                  *)
Replies == {"address", "none", "short"}
Response(id, name, as) ==
  [kind |-> "dns", id |-> IF as = "short" THEN 0 ELSE id,
   ip |-> IF as = "address" THEN AddressOf(name) ELSE << >>]

ResolverInit ==
  /\ now = 0 /\ wire = {} /\ arp = FALSE
  /\ buffer = [ready |-> FALSE, id |-> 0, ip |-> << >>]
  /\ cache = [i \in CacheSlots |-> NoEntry]
  /\ accessSeq = 0
  /\ task = [p \in Resolvers |-> NoTask]
  /\ used = 0 /\ clash = FALSE /\ answers = {}

ClockTick == now < MaxTicks /\ now' = now + 1
             /\ UNCHANGED <<wire, arp, buffer, cache, accessSeq, task, used, clash, answers>>

Finish(p) == task' = [task EXCEPT ![p] = NoTask]

(* DnsCache::lookup, with the whole name. *)
Hits(name) == {i \in CacheSlots : cache[i].valid /\ cache[i].name = name}

(* dns_resolve, first lock: a hit answers, an expired entry is dropped. *)
ResolveLookup(p, name) ==
  LET i == Min(Hits(name))
  IN  /\ task[p] = NoTask /\ accessSeq < MaxAccess
      /\ accessSeq' = accessSeq + 1
      /\ \/ /\ Hits(name) # {} /\ now < cache[i].expiry
            /\ cache' = [cache EXCEPT ![i].last = accessSeq + 1]
            /\ answers' = answers \cup {<<name, cache[i].ip>>}
            /\ UNCHANGED task
         \/ /\ Hits(name) # {} => now >= cache[i].expiry
            /\ cache' = [j \in CacheSlots |-> IF Hits(name) # {} /\ i = j
                                              THEN [cache[j] EXCEPT !.valid = FALSE] ELSE cache[j]]
            /\ task' = [task EXCEPT ![p] = [op |-> "dns", name |-> name, attempt |-> 0, id |-> 0,
                                            left |-> 0, held |-> << >>, ip |-> << >>]]
            /\ UNCHANGED answers
      /\ UNCHANGED <<now, wire, arp, buffer, used, clash>>

(* next_txn_id mixes a counter with the clock: a new identifier, or, by     *)
(* chance, that of an earlier query.                                        *)
NextTxnIds == 1 .. used + 1

(* An attempt: an identifier, the buffer cleared (whoever's answer it    *)
(* holds), the query sent.  The server answers in one of the three ways.    *)
SendQuery(p) ==
  /\ task[p].op = "dns" /\ task[p].left = 0 /\ task[p].held = << >> /\ task[p].ip = << >>
  /\ task[p].attempt < Attempts /\ used < MaxQueries
  /\ \E id \in NextTxnIds, as \in Replies :
       /\ task' = [task EXCEPT ![p] = [task[p] EXCEPT !.attempt = @ + 1, !.id = id, !.left = Polls]]
       /\ wire' = wire \cup {Response(id, task[p].name, as)}
       /\ used' = Max({used, id})
       /\ clash' = (clash \/ id <= used)
  /\ buffer' = [buffer EXCEPT !.ready = FALSE]
  /\ UNCHANGED <<now, arp, cache, accessSeq, answers>>

(* Timeout resolving: no attempt is left. *)
GiveUp(p) ==
  /\ task[p].op = "dns" /\ task[p].left = 0 /\ task[p].held = << >> /\ task[p].ip = << >>
  /\ task[p].attempt = Attempts
  /\ Finish(p)
  /\ UNCHANGED <<now, wire, arp, buffer, cache, accessSeq, used, clash, answers>>

(* nic_receive_one, lock of the card: a frame is copied out and its         *)
(* descriptor recycled.  A frame that stays on the wire arrives again.      *)
ReceiveFrame(p, frame, again) ==
  /\ task[p].op # "idle" /\ task[p].left > 0 /\ task[p].held = << >>
  /\ task' = [task EXCEPT ![p].held = <<frame>>]
  /\ wire' = IF again THEN wire ELSE wire \ {frame}
  /\ UNCHANGED <<now, arp, buffer, cache, accessSeq, used, clash, answers>>

(* nic_receive_one, dispatch: ARP replies fill the table, what comes from   *)
(* the DNS port replaces the response buffer.                               *)
DispatchFrame(p) ==
  /\ task[p].op # "idle" /\ task[p].held # << >>
  /\ LET frame == task[p].held[1]
     IN  /\ arp' = (arp \/ frame.kind = "arp")
         /\ buffer' = IF frame.kind = "dns"
                      THEN [ready |-> TRUE, id |-> frame.id, ip |-> frame.ip] ELSE buffer
  /\ task' = [task EXCEPT ![p].held = << >>]
  /\ UNCHANGED <<now, wire, cache, accessSeq, used, clash, answers>>

(* Whether the buffer answers this query: its transaction identifier.  A    *)
(* reply without one passes, and ends the resolution with no address.       *)
MineAny(p) == TRUE
Mine(p) == buffer.id \in {0, task[p].id}

(* The check that follows every poll: someone else's answer is left where   *)
(* it is.                                                                   *)
CheckResponse(p) ==
  /\ task[p].op = "dns" /\ task[p].left > 0 /\ task[p].held = << >>
  /\ \/ /\ ~buffer.ready \/ ~Mine(p)
        /\ task' = [task EXCEPT ![p].left = @ - 1]
     \/ /\ buffer.ready /\ Mine(p) /\ buffer.ip # << >>
        /\ task' = [task EXCEPT ![p].ip = buffer.ip, ![p].left = 0]
     \/ /\ buffer.ready /\ Mine(p) /\ buffer.ip = << >>
        /\ Finish(p)
  /\ UNCHANGED <<now, wire, arp, buffer, cache, accessSeq, used, clash, answers>>

(* DnsCache::insert and find_slot: the entry of the (shortened) name, else  *)
(* a free one, else the least recently used.                                *)
SlotFor(name) ==
  LET same == {i \in CacheSlots : cache[i].valid /\ cache[i].name = Trunc(name)}
      free == {i \in CacheSlots : ~cache[i].valid}
  IN  IF same # {} THEN Min(same)
      ELSE IF free # {} THEN Min(free)
      ELSE CHOOSE i \in CacheSlots : \A j \in CacheSlots : cache[i].last <= cache[j].last

CacheInsert(p) ==
  /\ task[p].op = "dns" /\ task[p].ip # << >>
  /\ accessSeq' = accessSeq + 1
  /\ cache' = [cache EXCEPT ![SlotFor(task[p].name)] =
                 [valid |-> TRUE, name |-> Trunc(task[p].name), ip |-> task[p].ip,
                  expiry |-> now + Ttl, last |-> accessSeq + 1]]
  /\ answers' = answers \cup {<<task[p].name, task[p].ip>>}
  /\ Finish(p)
  /\ UNCHANGED <<now, wire, arp, buffer, used, clash>>

(* arp_resolve: the table, else a request and polls.  Until the gateway is  *)
(* known transmit_ip broadcasts.                                            *)
ArpResolve(p) ==
  /\ task[p] = NoTask /\ ~arp
  /\ task' = [task EXCEPT ![p] = [op |-> "arp", left |-> Polls, held |-> << >>]]
  /\ wire' = wire \cup {[kind |-> "arp"]}
  /\ UNCHANGED <<now, arp, buffer, cache, accessSeq, used, clash, answers>>

ArpPoll(p) ==
  /\ task[p].op = "arp" /\ task[p].held = << >>
  /\ \/ (arp \/ task[p].left = 0) /\ Finish(p)
     \/ ~arp /\ task[p].left > 0 /\ task' = [task EXCEPT ![p].left = @ - 1]
  /\ UNCHANGED <<now, wire, arp, buffer, cache, accessSeq, used, clash, answers>>

ResolverNext ==
  \/ ClockTick
  \/ \E p \in Resolvers :
       \/ \E name \in Names : ResolveLookup(p, name)
       \/ SendQuery(p)
       \/ GiveUp(p)
       \/ \E frame \in wire, again \in BOOLEAN : ReceiveFrame(p, frame, again)
       \/ DispatchFrame(p)
       \/ CheckResponse(p)
       \/ CacheInsert(p)
       \/ ArpResolve(p)
       \/ ArpPoll(p)

ResolverSpec == ResolverInit /\ [][ResolverNext]_rvars
-----------------------------------------------------------------------------
(* The answers that dns_resolve returns, from the network or from the       *)
(* cache, are addresses of the name asked for, although the resolutions     *)
(* share one response buffer and frames come late, twice or out of order.   *)
(* Only the transaction identifier tells answers apart, so this holds until *)
(* next_txn_id repeats one; and of a long name the cache keeps the first    *)
(* bytes, and answers the name that they make with the address of the long  *)
(* one.                                                                     *)
AskedAs(name, host) == name = host \/ name = Trunc(host)
ResolvedRight == ~clash => \A a \in answers : \E host \in Names : AskedAs(a[1], host) /\ a[2] = AddressOf(host)
=============================================================================
