------------------------------ MODULE BusProofs ------------------------------
(***************************************************************************)
(* Order, payload lifetime and sequence tracking of the bus, for every     *)
(* number of processes and every size of queues and arena, and what the    *)
(* check of its audit log notices, for every size of the ring; and what    *)
(* the file system keeps exact, for every archive and every table size.    *)
(***************************************************************************)
EXTENDS Bus, AuditLog, Files, NatLemmas, SequenceTheorems, FiniteSetTheorems, TLAPS

(* What the variables hold; taps and counters of monitors play no part.    *)
Cells == 0 .. ArenaCapacity - 1
Arena == [Cells -> {0} \cup (Tags \X Nat)]
Slice == {p \in [offset: Nat, len: 1 .. MaxPayload] : p.offset + p.len <= ArenaCapacity}
Env == [header: Header, hmac: [header: Header, data: Payload \cup {None}], payload: Slice \cup {None}]
Message == [env: Env, after: Nat, current: BOOLEAN]

BusTypes ==
  /\ inboxes \in [Registered -> Seq(Env)]
  /\ last_seen \in [DOMAIN last_seen -> Nat]
  /\ buffer # None => buffer \in Arena
  /\ cursor \in 0 .. ArenaCapacity
  /\ counts \in [sent: Nat, rejected: Nat, audited: Nat]
  /\ log \in Seq(Message)

(* The tracker is at or past every current message of a sender. *)
Tracked(m) ==
  m.current => /\ m.env.header.sender \in DOMAIN last_seen
               /\ m.env.header.sequence <= last_seen[m.env.header.sender]

(* Where the cursor is, seen from a payload at offset o of n bytes after   *)
(* which a bytes were allocated: behind it, with nothing lost in between,  *)
(* or before it, with less than MaxPayload bytes lost at the wrap-around.  *)
Behind(o, n, a, c) == o + n <= c /\ a = c - (o + n)
Before(o, n, a, c) == c <= o /\ a + MaxPayload - 1 + o + n >= ArenaCapacity + c
Spent(n, a) == a > ArenaCapacity - MaxPayload + 1 - n

Survives(m) ==
  m.env.payload # None =>
    /\ buffer # None
    /\ \/ Spent(m.env.payload.len, m.after)
       \/ /\ Intact(m.env)
          /\ \/ Behind(m.env.payload.offset, m.env.payload.len, m.after, cursor)
             \/ Before(m.env.payload.offset, m.env.payload.len, m.after, cursor)

(* The inductive invariant. *)
BusInv ==
  /\ BusTypes
  /\ TrackerFollowsRegistration
  /\ PerSenderOrder
  /\ \A k \in DOMAIN log : Tracked(log[k]) /\ Survives(log[k])

(* Where m more bytes go, and what they leave of an earlier payload. *)
LEMMA Geometry ==
  ASSUME NEW o \in Nat, NEW n \in Nat, NEW a \in Nat, NEW c \in Nat, NEW m \in Nat, NEW at,
         n >= 1, m >= 1, m <= MaxPayload, o + n <= ArenaCapacity, c <= ArenaCapacity,
         at = IF c + m > ArenaCapacity THEN 0 ELSE c,
         Behind(o, n, a, c) \/ Before(o, n, a, c)
  PROVE  \/ Spent(n, a + m)
         \/ /\ o + n <= at \/ at + m <= o
            /\ Behind(o, n, a + m, at + m) \/ Before(o, n, a + m, at + m)
<1>1. ArenaCapacity \in Nat /\ MaxPayload \in Nat /\ MaxPayload <= ArenaCapacity
  BY SizeAssumption
<1>2. CASE c + m > ArenaCapacity /\ Behind(o, n, a, c)
  <2>1. at = 0 /\ o + n <= c /\ a = c - (o + n)
    BY <1>2 DEF Behind
  <2>2. CASE m <= o
    BY <1>1, <1>2, <2>1, <2>2 DEF Before
  <2>3. CASE m > o
    BY <1>1, <1>2, <2>1, <2>3 DEF Spent
  <2> QED  BY <2>2, <2>3
<1>3. CASE c + m > ArenaCapacity /\ Before(o, n, a, c)
  BY <1>1, <1>3 DEF Before, Spent
<1>4. CASE c + m <= ArenaCapacity /\ Behind(o, n, a, c)
  BY <1>1, <1>4 DEF Behind
<1>5. CASE c + m <= ArenaCapacity /\ Before(o, n, a, c)
  <2>1. at = c /\ c <= o /\ a + MaxPayload - 1 + o + n >= ArenaCapacity + c
    BY <1>1, <1>5 DEF Before
  <2>2. CASE c + m <= o
    BY <1>1, <2>1, <2>2 DEF Before
  <2>3. CASE c + m > o
    BY <1>1, <2>1, <2>3 DEF Spent
  <2> QED  BY <2>2, <2>3
<1> QED  BY <1>1, <1>2, <1>3, <1>4, <1>5

(* The checks that an accepted message has passed. *)
LEMMA ChecksPassed ==
  ASSUME NEW h \in Header, NEW d \in Payload \cup {None}, SendError(h, d) \in AfterSequence
  PROVE  /\ h.sender \in Registered /\ h.receiver \in Registered
         /\ h.sequence = LastSeq(h.sender) + 1
         /\ d # None => d.len <= MaxPayload
         /\ SendError(h, d) = "Ok" /\ d # None => buffer # None
<1>1. RoutingError(h, d) = "Ok"
  BY DEF SendError, RoutingError, AfterSequence
<1>2. SequenceError(h) = "Ok"
  BY <1>1 DEF SendError, SequenceError, AfterSequence
<1>3. h.sender \in Registered /\ h.receiver \in Registered /\ ~(d # None /\ d.len > MaxPayload)
  BY <1>1 DEF RoutingError
<1>4. h.sequence = LastSeq(h.sender) + 1
  BY <1>2 DEF SequenceError
<1>5. d # None => d.len \in Nat
  BY SizeAssumption DEF Payload
<1>6. SendError(h, d) = "Ok" /\ d # None => buffer # None
  BY <1>1, <1>2 DEF SendError
<1> QED  BY <1>3, <1>4, <1>5, <1>6, SizeAssumption

(* What send does to the arena, ... *)
Written(m) ==
  \/ m = 0 /\ UNCHANGED <<buffer, cursor>>
  \/ \E data \in Payload : m = data.len /\ m <= MaxPayload /\ buffer # None /\ Allocate(data)
(* What an accepted payload does to the arena. *)
LEMMA SendArena ==
  ASSUME NEW h \in Header, NEW d \in Payload \cup {None}, Send(h, d)
  PROVE  Written(BytesWritten(h, d))
<1>1. CASE SendError(h, d) # "Ok"
  BY <1>1 DEF Send, Written, BytesWritten
<1>2. CASE SendError(h, d) = "Ok" /\ d = None
  BY <1>2 DEF Send, Written, BytesWritten
<1>3. CASE SendError(h, d) = "Ok" /\ d # None
  <2>1. Allocate(d) /\ d \in Payload /\ BytesWritten(h, d) = d.len
    BY <1>3 DEF Send, BytesWritten
  <2>2. d.len <= MaxPayload /\ buffer # None
    BY <1>3, ChecksPassed DEF AfterSequence
  <2> QED  BY <2>1, <2>2 DEF Written
<1> QED  BY <1>1, <1>2, <1>3

(* ... and to the sequence tracker. *)
Recorded(h) ==
  /\ h.sender \in Registered /\ h.sequence = LastSeq(h.sender) + 1
  /\ last_seen' = [p \in DOMAIN last_seen \cup {h.sender} |->
                     IF p = h.sender THEN h.sequence ELSE last_seen[p]]
(* What a send does to the sequence tracker. *)
LEMMA SendSequence ==
  ASSUME NEW h \in Header, NEW d \in Payload \cup {None}, Send(h, d)
  PROVE  /\ last_seen' = last_seen \/ Recorded(h)
         /\ SendError(h, d) = "Ok" => Recorded(h)
<1>1. RecordSequence(h, SendError(h, d))
  BY DEF Send
<1>2. CASE SendError(h, d) \in AfterSequence
  BY <1>1, <1>2, ChecksPassed DEF RecordSequence, Recorded
<1>3. CASE SendError(h, d) \notin AfterSequence
  BY <1>1, <1>3 DEF RecordSequence, AfterSequence
<1> QED  BY <1>2, <1>3

(* What it does to the inboxes and the log: the message is appended to     *)
(* both, or to neither.                                                    *)
Counted(s, r) ==
  /\ counts'.sent = counts.sent + s /\ counts'.rejected = counts.rejected + r
  /\ counts'.audited = counts.audited + 1
Logged(h, d) ==
  \E slice \in Slice \cup {None} :
    /\ slice # None => d # None /\ slice = [offset |-> Place(d.len), len |-> d.len]
    /\ SendError(h, d) = "Ok"
    /\ inboxes' = [inboxes EXCEPT ![h.receiver] = Append(@, Envelope(h, d, slice))]
    /\ log' = Append(Aged(h, d), [env |-> Envelope(h, d, slice), after |-> 0, current |-> TRUE])
    /\ HasRoom(h.receiver) /\ Notify(Envelope(h, d, slice)) /\ Counted(1, 0)
(* A send that is counted appends its envelope to the log. *)
LEMMA SendLogs ==
  ASSUME BusTypes, NEW h \in Header, NEW d \in Payload \cup {None}, HSend(h, d)
  PROVE  /\ counts' \in [sent: Nat, rejected: Nat, audited: Nat]
         /\ \/ inboxes' = inboxes /\ log' = Aged(h, d) /\ taps' = taps /\ Counted(0, 1)
            \/ Logged(h, d)
<1> DEFINE slice == IF d = None THEN None ELSE [offset |-> Place(d.len), len |-> d.len]
           env == Envelope(h, d, slice)
<1>1. counts \in [sent: Nat, rejected: Nat, audited: Nat] /\ inboxes \in [Registered -> Seq(Env)]
      /\ cursor \in 0 .. ArenaCapacity
  BY DEF BusTypes
<1>2. Send(h, d)
  BY DEF HSend
<1>3. CASE Count("rejected") /\ inboxes' = inboxes /\ taps' = taps
  <2>1. counts'.sent = counts.sent /\ counts' \in [sent: Nat, rejected: Nat, audited: Nat] /\ Counted(0, 1)
    <3>1. counts' = [counts EXCEPT !.rejected = @ + 1, !.audited = @ + 1]
      BY <1>3 DEF Count
    <3>2. PICK s \in Nat, r \in Nat, a \in Nat : counts = [sent |-> s, rejected |-> r, audited |-> a]
      BY <1>1
    <3>3. counts' = [sent |-> s, rejected |-> r + 1, audited |-> a + 1]
      BY <3>1, <3>2
    <3> QED  BY <3>2, <3>3 DEF Counted
  <2> QED  BY <1>3, <2>1 DEF HSend
<1>4. CASE /\ SendError(h, d) = "Ok" /\ Count("sent") /\ HasRoom(h.receiver) /\ Notify(env)
           /\ inboxes' = [inboxes EXCEPT ![h.receiver] = Enqueue(@, env)]
  <2>1. counts'.sent = counts.sent + 1 /\ counts' \in [sent: Nat, rejected: Nat, audited: Nat] /\ Counted(1, 0)
    <3>1. counts' = [counts EXCEPT !.sent = @ + 1, !.audited = @ + 1]
      BY <1>4 DEF Count
    <3>2. PICK s \in Nat, r \in Nat, a \in Nat : counts = [sent |-> s, rejected |-> r, audited |-> a]
      BY <1>1
    <3>3. counts' = [sent |-> s + 1, rejected |-> r, audited |-> a + 1]
      BY <3>1, <3>2
    <3> QED  BY <3>2, <3>3 DEF Counted
  <2>2. counts'.sent # counts.sent
    BY <1>1, <2>1
  <2>3. h.receiver \in Registered /\ (d # None => d.len <= MaxPayload)
    BY <1>4, ChecksPassed DEF AfterSequence
  <2>4. slice \in Slice \cup {None}
    <3>1. CASE d = None
      BY <3>1
    <3>2. CASE d # None
      <4>1. PICK n \in Nat : n = d.len /\ n >= 1 /\ n <= MaxPayload
        <5>1. d.len \in Lens \ {0} /\ d.len <= MaxPayload
          BY <2>3, <3>2 DEF Payload
        <5>2. d.len \in Nat /\ d.len # 0
          BY <5>1, SizeAssumption
        <5> QED  BY <5>1, <5>2
      <4>2. Place(n) \in Nat /\ Place(n) + n <= ArenaCapacity
        BY <1>1, <4>1, SizeAssumption DEF Place
      <4>3. [offset |-> Place(n), len |-> n] \in Slice
        BY <4>1, <4>2, SizeAssumption DEF Slice
      <4> QED  BY <3>2, <4>1, <4>3
    <3> QED  BY <3>1, <3>2
  <2>5. slice # None => d # None /\ slice = [offset |-> Place(d.len), len |-> d.len]
    OBVIOUS
  <2> HIDE DEF slice
  <2>6. env \in Env
    BY <2>4 DEF Env, Envelope
  <2> HIDE DEF env
  <2>7. inboxes'[h.receiver] = Append(inboxes[h.receiver], env) /\ inboxes[h.receiver] \in Seq(Env)
    BY <1>1, <1>4, <2>3 DEF Enqueue
  <2>8. Last(inboxes'[h.receiver]) = env
    BY <2>6, <2>7 DEF Last
  <2>9. log' = Append(Aged(h, d), [env |-> env, after |-> 0, current |-> TRUE])
    BY <2>2, <2>8 DEF HSend
  <2>10. inboxes' = [inboxes EXCEPT ![h.receiver] = Append(@, env)]
    BY <1>4 DEF Enqueue
  <2> QED  BY <1>4, <2>1, <2>4, <2>5, <2>9, <2>10 DEF Logged, env
<1> QED  BY <1>2, <1>3, <1>4 DEF Send

(* The bytes that send writes spare a payload, or spend it. *)
LEMMA WriteSpares ==
  ASSUME BusTypes, NEW m \in Nat, Written(m), NEW old \in Message, Survives(old),
         NEW new \in Message, new.env = old.env, new.after = old.after + m
  PROVE  Survives(new)'
<1> SUFFICES ASSUME old.env.payload # None
             PROVE  Survives(new)'
  BY DEF Survives
<1> DEFINE o == old.env.payload.offset
           n == old.env.payload.len
           a == old.after
           c == cursor
<1>1. /\ o \in Nat /\ n \in Nat /\ n >= 1 /\ n <= MaxPayload /\ o + n <= ArenaCapacity /\ a \in Nat
      /\ c \in Nat /\ c <= ArenaCapacity
  <2>1. old.env.payload \in Slice /\ a \in Nat
    BY DEF Message, Env
  <2> QED  BY <2>1, SizeAssumption, SMTT(30) DEF Slice, BusTypes
<1>2. buffer # None /\ buffer \in Arena
  BY DEF Survives, BusTypes
<1>3. CASE m = 0 /\ UNCHANGED <<buffer, cursor>>
  <2>1. new.after = a
    BY <1>1, <1>3
  <2> QED  BY <1>3, <2>1 DEF Survives, Intact
<1>4. ASSUME NEW data \in Payload, m = data.len, m <= MaxPayload, Allocate(data)
      PROVE  Survives(new)'
  <2> DEFINE at == Place(m)
  <2>1. m >= 1
    <3>1. data.len \in Lens \ {0}
      BY DEF Payload
    <3> QED  BY <1>4, <3>1
  <2>2. at \in Nat /\ at + m <= ArenaCapacity /\ at = IF c + m > ArenaCapacity THEN 0 ELSE c
    BY <1>1, <1>4, SizeAssumption DEF Place
  <2>3. /\ buffer' = [i \in Cells |-> IF at <= i /\ i < at + m THEN Byte(data, i - at) ELSE buffer[i]]
        /\ cursor' = at + m
    BY <1>2, <1>4 DEF Allocate, Arena
  <2> HIDE DEF at
  <2>4. buffer' # None
    <3>1. \A i \in Cells : at <= i /\ i < at + m => Byte(data, i - at) \in Tags \X Nat
      BY <2>2 DEF Byte, Payload, Cells
    <3>2. \A i \in Cells : buffer[i] \in {0} \cup (Tags \X Nat)
      BY <1>2 DEF Arena
    <3>3. buffer' \in Arena
      BY <2>3, <3>1, <3>2 DEF Arena
    <3> QED  BY <3>3, NoneAssumption DEF Arena, Cells
  <2> HIDE DEF o, n, a, c
  <2>5. CASE Spent(n, a)
    <3>1. Spent(n, a + m)
      BY <1>1, <2>5, SizeAssumption DEF Spent
    <3> QED  BY <2>4, <3>1 DEF Survives, n, a
  <2>6. CASE ~Spent(n, a)
    <3>1. Intact(old.env) /\ (Behind(o, n, a, c) \/ Before(o, n, a, c))
      BY <2>6 DEF Survives, o, n, a, c
    <3>2. \/ Spent(n, a + m)
          \/ /\ o + n <= at \/ at + m <= o
             /\ Behind(o, n, a + m, at + m) \/ Before(o, n, a + m, at + m)
      BY <1>1, <1>4, <2>1, <2>2, <3>1, Geometry
    <3>3. CASE Spent(n, a + m)
      BY <2>4, <3>3 DEF Survives, n, a
    <3>4. CASE /\ o + n <= at \/ at + m <= o
               /\ Behind(o, n, a + m, at + m) \/ Before(o, n, a + m, at + m)
      <4>1. \A i \in 0 .. n - 1 : o + i \in Cells /\ ~(at <= o + i /\ o + i < at + m)
        BY <1>1, <2>2, <3>4, SizeAssumption DEF Cells
      <4>2. \A i \in 0 .. n - 1 : buffer'[o + i] = buffer[o + i]
        BY <2>3, <4>1
      <4>3. Intact(new.env)'
        <5>1. \A i \in 0 .. n - 1 : buffer[o + i] = Byte(old.env.hmac.data, i)
          BY <3>1 DEF Intact, n, o
        <5>2. \A i \in 0 .. n - 1 : buffer'[o + i] = Byte(old.env.hmac.data, i)
          BY <4>2, <5>1
        <5> QED  BY <5>2 DEF Intact, n, o
      <4> QED  BY <2>3, <2>4, <3>4, <4>3 DEF Survives, n, a, o
    <3> QED  BY <3>2, <3>3, <3>4
  <2> QED  BY <2>5, <2>6
<1> QED  BY <1>3, <1>4 DEF Written

(* A new message is intact where it was written. *)
LEMMA NewSurvives ==
  ASSUME BusTypes, NEW h \in Header, NEW d \in Payload \cup {None}, SendError(h, d) = "Ok", Send(h, d),
         NEW slice \in Slice \cup {None}, slice # None => d # None /\ slice = [offset |-> Place(d.len), len |-> d.len],
         NEW new, new = [env |-> Envelope(h, d, slice), after |-> 0, current |-> TRUE]
  PROVE  Survives(new)'
<1> SUFFICES ASSUME slice # None
             PROVE  Survives(new)'
  BY DEF Survives, Envelope
<1>1. d \in Payload /\ Allocate(d) /\ buffer # None
  BY ChecksPassed DEF Send, AfterSequence
<1> DEFINE at == Place(d.len)
           n == d.len
<1>2. slice = [offset |-> at, len |-> n] /\ slice.offset = at /\ slice.len = n
  OBVIOUS
<1>3. n \in Nat /\ n >= 1 /\ n <= MaxPayload /\ at \in Nat /\ at + n <= ArenaCapacity
  <2>1. slice \in Slice
    OBVIOUS
  <2> QED  BY <1>2, <2>1, SizeAssumption DEF Slice
<1>4. /\ buffer' = [i \in Cells |-> IF at <= i /\ i < at + n THEN Byte(d, i - at) ELSE buffer[i]]
      /\ cursor' = at + n /\ buffer \in Arena
  BY <1>1 DEF Allocate, Arena, BusTypes
<1> HIDE DEF at, n
<1>5. buffer' \in Arena /\ buffer' # None
  <2>1. \A i \in Cells : at <= i /\ i < at + n => Byte(d, i - at) \in Tags \X Nat
    BY <1>1, <1>3 DEF Byte, Payload, Cells
  <2>2. \A i \in Cells : buffer[i] \in {0} \cup (Tags \X Nat)
    BY <1>4 DEF Arena
  <2>3. buffer' \in Arena
    BY <1>4, <2>1, <2>2 DEF Arena
  <2> QED  BY <2>3, NoneAssumption DEF Arena, Cells
<1>6. \A i \in 0 .. n - 1 : buffer'[at + i] = Byte(d, i)
  <2> SUFFICES ASSUME NEW i \in 0 .. n - 1 PROVE buffer'[at + i] = Byte(d, i)
    OBVIOUS
  <2>1. at + i \in Cells /\ at <= at + i /\ at + i < at + n /\ (at + i) - at = i
    BY <1>3, SizeAssumption DEF Cells
  <2> QED  BY <1>4, <2>1
<1>7. Intact(new.env)'
  BY <1>2, <1>6 DEF Intact, Envelope
<1>8. Behind(at, n, 0, at + n)
  BY <1>3 DEF Behind
<1> QED  BY <1>2, <1>4, <1>5, <1>7, <1>8 DEF Survives, Envelope

(* Messages that were logged grow older, and nothing else. *)
LEMMA AgedLog ==
  ASSUME BusTypes, NEW h \in Header, NEW d \in Payload \cup {None}
  PROVE  /\ BytesWritten(h, d) \in Nat
         /\ Aged(h, d) \in Seq(Message) /\ DOMAIN Aged(h, d) = DOMAIN log /\ Len(Aged(h, d)) = Len(log)
         /\ \A k \in DOMAIN log : /\ Aged(h, d)[k].env = log[k].env
                                  /\ Aged(h, d)[k].current = log[k].current
                                  /\ Aged(h, d)[k].after = log[k].after + BytesWritten(h, d)
<1>1. BytesWritten(h, d) \in Nat
  <2>1. d # None => d.len \in Lens
    BY DEF Payload
  <2> QED  BY <2>1, SizeAssumption DEF BytesWritten
<1>2. PICK m \in Nat : m = BytesWritten(h, d)
  BY <1>1
<1>3. log \in Seq(Message) /\ Aged(h, d) = [k \in DOMAIN log |-> [log[k] EXCEPT !.after = @ + m]]
  BY <1>2 DEF Aged, BusTypes
<1>4. \A k \in DOMAIN log : /\ Aged(h, d)[k] \in Message /\ Aged(h, d)[k].env = log[k].env
                            /\ Aged(h, d)[k].current = log[k].current
                            /\ Aged(h, d)[k].after = log[k].after + m
  <2> SUFFICES ASSUME NEW k \in DOMAIN log
               PROVE  /\ Aged(h, d)[k] \in Message /\ Aged(h, d)[k].env = log[k].env
                      /\ Aged(h, d)[k].current = log[k].current
                      /\ Aged(h, d)[k].after = log[k].after + m
    OBVIOUS
  <2>1. PICK x \in Message : x = log[k]
    BY <1>3
  <2>2. Aged(h, d)[k] = [x EXCEPT !.after = @ + m]
    BY <1>3, <2>1
  <2>3. /\ [x EXCEPT !.after = @ + m] \in Message /\ [x EXCEPT !.after = @ + m].env = x.env
        /\ [x EXCEPT !.after = @ + m].current = x.current /\ [x EXCEPT !.after = @ + m].after = x.after + m
    BY DEF Message
  <2> QED  BY <2>1, <2>2, <2>3
<1>5. Aged(h, d) \in [1 .. Len(log) -> Message] /\ Len(log) \in Nat /\ DOMAIN log = 1 .. Len(log)
  <2>1. Len(log) \in Nat /\ DOMAIN log = 1 .. Len(log)
    BY <1>3, LenProperties
  <2> QED  BY <1>3, <1>4, <2>1
<1>6. Aged(h, d) \in Seq(Message) /\ Len(Aged(h, d)) = Len(log)
  BY <1>5, IsASeq, LenProperties
<1> QED  BY <1>1, <1>2, <1>4, <1>5, <1>6

(* A message keeps being tracked when send records a number. *)
LEMMA RecordTracks ==
  ASSUME BusTypes, NEW h \in Header, last_seen' = last_seen \/ Recorded(h),
         NEW old \in Message, Tracked(old), NEW new \in Message, new.env = old.env, new.current = old.current
  PROVE  Tracked(new)'
<1> SUFFICES ASSUME old.current PROVE Tracked(new)'
  BY DEF Tracked
<1> DEFINE s == old.env.header.sender
<1>1. s \in DOMAIN last_seen /\ old.env.header.sequence <= last_seen[s] /\ last_seen[s] \in Nat
  BY DEF Tracked, BusTypes
<1>2. old.env.header.sequence \in Nat /\ h.sequence \in Nat
  BY SizeAssumption DEF Message, Env, Header
<1>3. CASE last_seen' = last_seen
  BY <1>1, <1>3 DEF Tracked
<1>4. CASE Recorded(h) /\ s = h.sender
  <2>1. h.sequence = last_seen[s] + 1 /\ s \in DOMAIN last_seen' /\ last_seen'[s] = h.sequence
    BY <1>1, <1>4 DEF Recorded, LastSeq
  <2>2. old.env.header.sequence <= last_seen'[s]
    BY <1>1, <1>2, <2>1
  <2> QED  BY <2>1, <2>2 DEF Tracked
<1>5. CASE Recorded(h) /\ s # h.sender
  <2>1. s \in DOMAIN last_seen' /\ last_seen'[s] = last_seen[s]
    BY <1>1, <1>5 DEF Recorded
  <2> QED  BY <1>1, <2>1 DEF Tracked
<1> QED  BY <1>3, <1>4, <1>5

(* Types after a send. *)
LEMMA SendTypes ==
  ASSUME BusInv, NEW h \in Header, NEW d \in Payload \cup {None}, HSend(h, d)
  PROVE  BusTypes' /\ TrackerFollowsRegistration'
<1>1. BusTypes /\ TrackerFollowsRegistration /\ Send(h, d)
  BY DEF BusInv, HSend
<1>2. counts' \in [sent: Nat, rejected: Nat, audited: Nat]
  BY <1>1, SendLogs
<1>3. /\ inboxes' \in [Registered' -> Seq(Env)] /\ Registered' = Registered
      /\ log' \in Seq(Message)
  <2>1. inboxes \in [Registered -> Seq(Env)] /\ Aged(h, d) \in Seq(Message)
    BY <1>1, AgedLog DEF BusTypes
  <2>2. CASE inboxes' = inboxes /\ log' = Aged(h, d)
    BY <2>1, <2>2 DEF Registered
  <2>3. CASE Logged(h, d)
    <3>1. PICK slice \in Slice \cup {None} :
            /\ inboxes' = [inboxes EXCEPT ![h.receiver] = Append(@, Envelope(h, d, slice))]
            /\ log' = Append(Aged(h, d), [env |-> Envelope(h, d, slice), after |-> 0, current |-> TRUE])
      BY <2>3 DEF Logged
    <3> DEFINE env == Envelope(h, d, slice)
    <3>2. env \in Env
      BY DEF Env, Envelope
    <3> HIDE DEF env
    <3>3. [env |-> env, after |-> 0, current |-> TRUE] \in Message
      BY <3>2 DEF Message
    <3>4. log' \in Seq(Message)
      BY <2>1, <3>1, <3>3 DEF env
    <3>5. inboxes' = [inboxes EXCEPT ![h.receiver] = Append(@, env)]
      BY <3>1 DEF env
    <3>6. inboxes' \in [Registered -> Seq(Env)]
      <4>1. \A q \in Seq(Env) : Append(q, env) \in Seq(Env)
        BY <3>2
      <4> QED  BY <2>1, <3>5, <4>1
    <3> QED  BY <3>4, <3>6 DEF Registered
  <2> QED  BY <1>1, <2>2, <2>3, SendLogs
<1>4. last_seen' \in [DOMAIN last_seen' -> Nat] /\ DOMAIN last_seen' \subseteq Registered
  <2>1. last_seen \in [DOMAIN last_seen -> Nat] /\ DOMAIN last_seen \subseteq Registered
    BY <1>1 DEF BusTypes, TrackerFollowsRegistration
  <2>2. h.sequence \in Nat
    BY SizeAssumption DEF Header
  <2>3. last_seen' = last_seen \/ Recorded(h)
    BY <1>1, SendSequence
  <2>4. CASE last_seen' = last_seen
    BY <2>1, <2>4
  <2>5. CASE Recorded(h)
    BY <2>1, <2>2, <2>5 DEF Recorded
  <2> QED  BY <2>3, <2>4, <2>5
<1>5. (buffer' # None => buffer' \in Arena) /\ cursor' \in 0 .. ArenaCapacity
  <2>1. PICK m : m = BytesWritten(h, d) /\ Written(m)
    BY <1>1, SendArena
  <2>2. m \in Nat /\ cursor \in 0 .. ArenaCapacity /\ (buffer # None => buffer \in Arena)
    BY <1>1, <2>1, AgedLog DEF BusTypes
  <2>3. CASE UNCHANGED <<buffer, cursor>>
    BY <2>2, <2>3
  <2>4. ASSUME NEW data \in Payload, m = data.len, m <= MaxPayload, buffer # None, Allocate(data)
        PROVE  buffer' \in Arena /\ cursor' \in 0 .. ArenaCapacity
    <3> DEFINE at == Place(m)
    <3>1. at \in Nat /\ at + m <= ArenaCapacity
      BY <2>2, <2>4, SizeAssumption DEF Place
    <3>2. /\ buffer' = [i \in Cells |-> IF at <= i /\ i < at + m THEN Byte(data, i - at) ELSE buffer[i]]
          /\ cursor' = at + m
      BY <2>2, <2>4 DEF Allocate, Arena
    <3> HIDE DEF at
    <3>3. \A i \in Cells : at <= i /\ i < at + m => Byte(data, i - at) \in Tags \X Nat
      BY <3>1 DEF Byte, Payload, Cells
    <3>4. \A i \in Cells : buffer[i] \in {0} \cup (Tags \X Nat)
      BY <2>2, <2>4 DEF Arena
    <3>5. buffer' \in Arena
      BY <3>2, <3>3, <3>4 DEF Arena
    <3> QED  BY <2>2, <3>1, <3>2, <3>5, SizeAssumption
  <2> QED  BY <2>1, <2>3, <2>4 DEF Written
<1> QED  BY <1>2, <1>3, <1>4, <1>5 DEF BusTypes, TrackerFollowsRegistration

(* Order and payloads after a send. *)
LEMMA SendOrder ==
  ASSUME BusInv, NEW h \in Header, NEW d \in Payload \cup {None}, HSend(h, d)
  PROVE  PerSenderOrder' /\ \A k \in DOMAIN log' : Tracked(log[k])' /\ Survives(log[k])'
<1> DEFINE old == Aged(h, d)
           m == BytesWritten(h, d)
<1>1. /\ BusTypes /\ PerSenderOrder /\ Send(h, d)
      /\ \A k \in DOMAIN log : Tracked(log[k]) /\ Survives(log[k]) /\ log[k] \in Message
  BY DEF BusInv, HSend, BusTypes
<1>2. /\ m \in Nat /\ old \in Seq(Message) /\ DOMAIN old = DOMAIN log /\ Len(old) = Len(log)
      /\ Written(m) /\ (last_seen' = last_seen \/ Recorded(h))
      /\ \A k \in DOMAIN log : /\ old[k].env = log[k].env /\ old[k].current = log[k].current
                               /\ old[k].after = log[k].after + m /\ old[k] \in Message
  BY <1>1, AgedLog, SendArena, SendSequence
<1> HIDE DEF old, m
<1>3. ASSUME NEW k \in DOMAIN log, log'[k] = old[k]
      PROVE  Tracked(log[k])' /\ Survives(log[k])'
  <2>1. PICK x \in Message : x = old[k]
    BY <1>2
  <2>2. PICK y \in Message : y = log[k]
    BY <1>1
  <2>3. x.env = y.env /\ x.current = y.current /\ x.after = y.after + m /\ Tracked(y) /\ Survives(y)
    BY <1>1, <1>2, <2>1, <2>2
  <2>4. Tracked(x)' /\ Survives(x)'
    BY <1>1, <1>2, <2>3, RecordTracks, WriteSpares
  <2>5. log'[k] = x
    BY <1>3, <2>1
  <2> QED  BY <2>4, <2>5 DEF Tracked, Survives, Intact
<1>4. ASSUME NEW i \in DOMAIN log, NEW j \in DOMAIN log, i < j, log'[i] = old[i], log'[j] = old[j],
             log'[i].env.header.sender = log'[j].env.header.sender, log'[i].current, log'[j].current
      PROVE  log'[i].env.header.sequence < log'[j].env.header.sequence
  BY <1>1, <1>2, <1>4 DEF PerSenderOrder
<1>5. CASE log' = old
  <2>1. DOMAIN log' = DOMAIN log /\ \A k \in DOMAIN log : log'[k] = old[k]
    BY <1>2, <1>5
  <2>2. PerSenderOrder'
    BY <1>4, <2>1 DEF PerSenderOrder
  <2> QED  BY <1>3, <2>1, <2>2
<1>6. CASE Logged(h, d)
  <2>1. PICK slice \in Slice \cup {None} :
          /\ slice # None => d # None /\ slice = [offset |-> Place(d.len), len |-> d.len]
          /\ SendError(h, d) = "Ok"
          /\ log' = Append(old, [env |-> Envelope(h, d, slice), after |-> 0, current |-> TRUE])
    BY <1>6 DEF Logged, old
  <2>2. PICK new : new = [env |-> Envelope(h, d, slice), after |-> 0, current |-> TRUE]
    OBVIOUS
  <2>3. PICK n \in Nat : n = Len(log)
    BY <1>1 DEF BusTypes
  <2>4. /\ DOMAIN log = 1 .. n /\ DOMAIN log' = 1 .. n + 1 /\ log'[n + 1] = new
        /\ \A k \in 1 .. n : log'[k] = old[k]
    BY <1>1, <1>2, <2>1, <2>2, <2>3 DEF BusTypes
  <2>5. Recorded(h)
    BY <1>1, <2>1, SendSequence
  <2>6. /\ new.env.header = h /\ new.current = TRUE
        /\ h.sender \in DOMAIN last_seen' /\ last_seen'[h.sender] = h.sequence
        /\ h.sequence = LastSeq(h.sender) + 1 /\ h.sequence \in Nat
    BY <2>2, <2>5, SizeAssumption DEF Recorded, Envelope, Header
  <2>7. Tracked(log[n + 1])'
    BY <2>4, <2>6 DEF Tracked
  <2>8. Survives(log[n + 1])'
    <3>1. Survives(new)'
      BY <1>1, <2>1, <2>2, NewSurvives
    <3> QED  BY <2>4, <3>1 DEF Survives, Intact
  <2>9. ASSUME NEW i \in 1 .. n, log'[i].env.header.sender = h.sender, log'[i].current
        PROVE  log'[i].env.header.sequence < h.sequence
    <3>1. log[i] \in Message /\ Tracked(log[i]) /\ log[i].current /\ log[i].env.header.sender = h.sender
      BY <1>1, <1>2, <2>4, <2>9
    <3>2. h.sender \in DOMAIN last_seen /\ log[i].env.header.sequence <= last_seen[h.sender]
      BY <3>1 DEF Tracked
    <3>3. PICK a \in Nat, b \in Nat : a = log[i].env.header.sequence /\ b = last_seen[h.sender]
      <4>1. log[i].env.header.sequence \in 0 .. MaxSeq
        BY <3>1 DEF Message, Env, Header
      <4>2. last_seen[h.sender] \in Nat
        BY <1>1, <3>2 DEF BusTypes
      <4> QED  BY <4>1, <4>2, SizeAssumption
    <3>4. h.sequence = b + 1 /\ a <= b
      BY <2>6, <3>2, <3>3 DEF LastSeq
    <3>5. log'[i].env.header.sequence = a
      BY <1>2, <2>4, <3>3
    <3> QED  BY <3>4, <3>5
  <2>10. PerSenderOrder'
    <3> SUFFICES ASSUME NEW i \in DOMAIN log', NEW j \in DOMAIN log', i < j,
                        log'[i].env.header.sender = log'[j].env.header.sender,
                        log'[i].current, log'[j].current
                 PROVE  log'[i].env.header.sequence < log'[j].env.header.sequence
      BY DEF PerSenderOrder
    <3>1. i \in 1 .. n /\ (j \in 1 .. n \/ j = n + 1)
      BY <2>4
    <3>2. CASE j \in 1 .. n
      BY <1>4, <2>4, <3>1, <3>2
    <3>3. CASE j = n + 1
      BY <2>4, <2>6, <2>9, <3>1, <3>3
    <3> QED  BY <3>1, <3>2, <3>3
  <2>11. \A k \in 1 .. n : Tracked(log[k])' /\ Survives(log[k])'
    BY <1>3, <2>4
  <2>12. ASSUME NEW k \in DOMAIN log' PROVE Tracked(log[k])' /\ Survives(log[k])'
    <3>1. k \in 1 .. n \/ k = n + 1
      BY <2>4
    <3> QED  BY <2>7, <2>8, <2>11, <3>1
  <2> QED  BY <2>10, <2>12
<1> QED  BY <1>1, <1>5, <1>6, SendLogs DEF old

(* Every step keeps the invariant. *)
LEMMA BusStep == BusInv /\ [HNext]_hvars => BusInv'
<1> SUFFICES ASSUME BusInv, [HNext]_hvars PROVE BusInv'
  OBVIOUS
<1>1. /\ BusTypes /\ TrackerFollowsRegistration /\ PerSenderOrder
      /\ \A k \in DOMAIN log : log[k] \in Message /\ Tracked(log[k]) /\ Survives(log[k])
  BY DEF BusInv, BusTypes
<1>2. ASSUME UNCHANGED <<last_seen, buffer, cursor, log>>,
             inboxes' \in [Registered' -> Seq(Env)], counts' = counts, Registered \subseteq Registered'
      PROVE  BusInv'
  <2>1. BusTypes'
    BY <1>1, <1>2 DEF BusTypes
  <2>2. TrackerFollowsRegistration' /\ PerSenderOrder'
    BY <1>1, <1>2 DEF TrackerFollowsRegistration, PerSenderOrder
  <2>3. \A k \in DOMAIN log' : Tracked(log[k])' /\ Survives(log[k])'
    BY <1>1, <1>2 DEF Tracked, Survives, Intact
  <2> QED  BY <2>1, <2>2, <2>3 DEF BusInv
<1>3. CASE UNCHANGED hvars
  BY <1>1, <1>2, <1>3 DEF hvars, vars, BusTypes, Registered
<1>4. ASSUME NEW h \in Header, NEW d \in Payload \cup {None}, HSend(h, d) PROVE BusInv'
  BY <1>4, SendTypes, SendOrder DEF BusInv
<1>5. ASSUME NEW p \in Pids, HUnregister(p) PROVE BusInv'
  <2>1. /\ UNCHANGED <<buffer, cursor, counts>> /\ log \in Seq(Message) /\ last_seen \in [DOMAIN last_seen -> Nat]
        /\ log' = [k \in DOMAIN log |-> [log[k] EXCEPT !.current = @ /\ log[k].env.header.sender # p]]
        /\ inboxes \in [Registered -> Seq(Env)]
    BY <1>1, <1>5 DEF HUnregister, UnregisterProcess, BusTypes
  <2>2. ASSUME NEW k \in DOMAIN log
        PROVE  /\ log'[k] \in Message /\ log'[k].env = log[k].env /\ log'[k].after = log[k].after
               /\ log'[k].current => log[k].current /\ log[k].env.header.sender # p
    <3>1. PICK x \in Message : x = log[k]
      BY <1>1
    <3>2. PICK c \in BOOLEAN : c = (x.current /\ x.env.header.sender # p)
      OBVIOUS
    <3>3. log'[k] = [x EXCEPT !.current = c]
      BY <2>1, <3>1, <3>2
    <3>4. /\ [x EXCEPT !.current = c] \in Message /\ [x EXCEPT !.current = c].env = x.env
          /\ [x EXCEPT !.current = c].after = x.after /\ [x EXCEPT !.current = c].current = c
      BY DEF Message
    <3> QED  BY <3>1, <3>2, <3>3, <3>4
  <2>3. log' \in Seq(Message) /\ DOMAIN log' = DOMAIN log
    <3>1. Len(log) \in Nat /\ DOMAIN log = 1 .. Len(log)
      BY <2>1, LenProperties
    <3>2. log' \in [1 .. Len(log) -> Message]
      BY <2>1, <2>2, <3>1
    <3> QED  BY <3>1, <3>2, IsASeq
  <2>4. \/ p \notin Registered /\ UNCHANGED <<inboxes, last_seen>>
        \/ /\ p \in Registered /\ inboxes' = [q \in Registered \ {p} |-> inboxes[q]]
           /\ last_seen' = [q \in DOMAIN last_seen \ {p} |-> last_seen[q]]
    BY <1>5 DEF HUnregister, UnregisterProcess, DropSequence
  <2>5. /\ inboxes' \in [Registered' -> Seq(Env)] /\ last_seen' \in [DOMAIN last_seen' -> Nat]
        /\ TrackerFollowsRegistration'
        /\ \A q \in DOMAIN last_seen : q # p => q \in DOMAIN last_seen' /\ last_seen'[q] = last_seen[q]
    BY <1>1, <2>1, <2>4 DEF Registered, TrackerFollowsRegistration
  <2>6. BusTypes'
    BY <1>1, <2>1, <2>3, <2>5 DEF BusTypes
  <2>7. ASSUME NEW k \in DOMAIN log PROVE Tracked(log[k])' /\ Survives(log[k])'
    <3>1. Tracked(log[k])'
      BY <1>1, <2>2, <2>5 DEF Tracked
    <3>2. Survives(log[k])'
      BY <1>1, <2>1, <2>2, ZenonT(40) DEF Survives, Intact
    <3> QED  BY <3>1, <3>2
  <2>8. PerSenderOrder'
    BY <1>1, <2>2, <2>3 DEF PerSenderOrder
  <2> QED  BY <2>3, <2>5, <2>6, <2>7, <2>8 DEF BusInv
<1>6. ASSUME NEW p \in Pids, HReceive(p) PROVE BusInv'
  <2>1. UNCHANGED <<last_seen, buffer, cursor, log, counts>> /\ inboxes \in [Registered -> Seq(Env)]
    BY <1>1, <1>6 DEF HReceive, Receive, BusTypes
  <2>2. inboxes' \in [Registered' -> Seq(Env)] /\ Registered' = Registered
    <3>1. CASE Pending(p) = << >>
      BY <1>6, <2>1, <3>1 DEF HReceive, Receive, Registered
    <3>2. CASE Pending(p) # << >>
      <4>1. p \in Registered /\ inboxes[p] # << >> /\ inboxes' = [inboxes EXCEPT ![p] = Tail(@)]
        BY <1>6, <3>2 DEF HReceive, Receive, Pending
      <4>2. Tail(inboxes[p]) \in Seq(Env)
        BY <2>1, <4>1
      <4> QED  BY <2>1, <4>1, <4>2 DEF Registered
    <3> QED  BY <3>1, <3>2
  <2> QED  BY <1>2, <2>1, <2>2
<1>7. CASE HMonitor
  <2>1. UNCHANGED <<inboxes, last_seen, buffer, cursor, counts, log>>
    BY <1>7 DEF HMonitor, RegisterMonitor, UnregisterMonitor, MonitorDrain
  <2> QED  BY <1>1, <1>2, <2>1 DEF BusTypes, Registered
<1>8. CASE HClear
  <2>1. /\ inboxes' = [p \in {} |-> << >>] /\ last_seen' = [p \in {} |-> 0] /\ cursor' = 0 /\ buffer' = buffer
        /\ counts' = [sent |-> 0, rejected |-> 0, audited |-> 0] /\ log' = << >>
    BY <1>8 DEF HClear, Clear
  <2>2. BusTypes' /\ TrackerFollowsRegistration'
    BY <1>1, <2>1, SizeAssumption DEF BusTypes, Registered, TrackerFollowsRegistration
  <2> QED  BY <2>1, <2>2 DEF BusInv, PerSenderOrder
<1>9. CASE InitArena /\ UNCHANGED log
  <2>1. /\ buffer = None /\ buffer' = [i \in Cells |-> 0] /\ cursor' = 0
        /\ UNCHANGED <<inboxes, last_seen, counts, log>>
    BY <1>9 DEF InitArena, Cells
  <2>2. BusTypes' /\ TrackerFollowsRegistration' /\ PerSenderOrder'
    BY <1>1, <2>1, SizeAssumption DEF BusTypes, Registered, TrackerFollowsRegistration, PerSenderOrder, Arena
  <2>3. \A k \in DOMAIN log' : Tracked(log[k])' /\ Survives(log[k])'
    BY <1>1, <2>1 DEF Tracked, Survives
  <2> QED  BY <2>2, <2>3 DEF BusInv
<1>10. ASSUME NEW p \in Pids \cup {0}, RegisterProcess(p), UNCHANGED log PROVE BusInv'
  <2>1. UNCHANGED <<last_seen, buffer, cursor, counts>> /\ inboxes \in [Registered -> Seq(Env)]
    BY <1>1, <1>10 DEF RegisterProcess, BusTypes
  <2>2. inboxes' = inboxes \/ inboxes' = [q \in Registered \cup {p} |-> IF q = p THEN << >> ELSE inboxes[q]]
    BY <1>10 DEF RegisterProcess
  <2>3. inboxes' \in [Registered' -> Seq(Env)] /\ Registered \subseteq Registered'
    <3>1. << >> \in Seq(Env)
      OBVIOUS
    <3>2. CASE inboxes' = inboxes
      BY <2>1, <3>2 DEF Registered
    <3>3. CASE inboxes' = [q \in Registered \cup {p} |-> IF q = p THEN << >> ELSE inboxes[q]]
      <4>1. Registered' = Registered \cup {p}
        BY <3>3 DEF Registered
      <4>2. inboxes' \in [Registered \cup {p} -> Seq(Env)]
        BY <2>1, <3>1, <3>3
      <4> QED  BY <4>1, <4>2
    <3> QED  BY <2>2, <3>2, <3>3
  <2> QED  BY <1>2, <1>10, <2>1, <2>3
<1> QED  BY <1>3, <1>4, <1>5, <1>6, <1>7, <1>8, <1>9, <1>10 DEF HNext

(* The invariant holds at the start. *)
LEMMA BusStart == HInit => BusInv
BY SizeAssumption DEF HInit, Init, BusInv, BusTypes, Registered, TrackerFollowsRegistration, PerSenderOrder

(* What the invariant says of payloads. *)
LEMMA SurvivesLong == BusInv => PayloadSurvives
<1> SUFFICES ASSUME BusInv, NEW k \in DOMAIN log, log[k].env.payload # None,
                    log[k].after <= ArenaCapacity - MaxPayload + 1 - log[k].env.payload.len
             PROVE  Intact(log[k].env)
  BY DEF PayloadSurvives
<1>1. Survives(log[k]) /\ log[k] \in Message
  BY DEF BusInv, BusTypes
<1>2. PICK a \in Nat, n \in Nat : a = log[k].after /\ n = log[k].env.payload.len
  <2>1. log[k].env.payload \in Slice /\ log[k].after \in Nat
    BY <1>1 DEF Message, Env
  <2> QED  BY <2>1, SizeAssumption DEF Slice
<1>3. ~Spent(n, a)
  BY <1>2, SizeAssumption DEF Spent
<1> QED  BY <1>1, <1>2, <1>3 DEF Survives

(* The messages of one registration of a sender are accepted in the order  *)
(* of their sequence numbers, none twice, whoever registers, unregisters   *)
(* and registers again in between.                                         *)
THEOREM PerSenderOrderEver == HSpec => []PerSenderOrder
<1>1. BusInv => PerSenderOrder
  BY DEF BusInv
<1> QED  BY <1>1, BusStart, BusStep, PTL DEF HSpec

(* A payload stays as it was signed until the arena has handed out as many *)
(* further bytes as it keeps for sure, for every capacity and every limit  *)
(* on the size of a payload, wherever the cursor wraps around.             *)
THEOREM PayloadSurvivesEver == HSpec => []PayloadSurvives
BY BusStart, BusStep, SurvivesLong, PTL DEF HSpec

(* A sequence number is remembered only for a registered sender: a process *)
(* that registers again is not refused as a replay of the one before.      *)
THEOREM TrackerFollowsEver == HSpec => []TrackerFollowsRegistration
<1>1. BusInv => TrackerFollowsRegistration
  BY DEF BusInv
<1> QED  BY <1>1, BusStart, BusStep, PTL DEF HSpec

-----------------------------------------------------------------------------
(* Queues, taps and counters against the log *)

(* What the queues hold, within their capacities; every accepted message   *)
(* is in one of them or gone.                                              *)
QueueInv ==
  /\ IsFiniteSet(Registered) /\ Registered \subseteq Pids
  /\ Cardinality(Registered) <= MaxProcesses
  /\ \A p \in Registered : Len(inboxes[p]) <= QueueCapacity
  /\ \A p \in DOMAIN last_seen : last_seen[p] \in 1 .. MaxSeq
  /\ gone \in Nat
  /\ counts.sent = Len(log) /\ counts.audited = counts.sent + counts.rejected
  /\ Cardinality(Queued) + gone = counts.sent
  /\ InboxesFollowLog

(* What the monitor slots hold. *)
Tap == [id: Nat, filter: Filters, buffer: Seq(Env)]
SlotSound(s) ==
  taps[s] # None =>
    /\ taps[s] \in Tap /\ Len(taps[s].buffer) <= MonitorBuffer /\ taps[s].id < next_tap
    /\ Recent(log, taps[s].buffer, SeenBy(s))
TapInv ==
  /\ next_tap \in Nat
  /\ DOMAIN taps = 1 .. MaxMonitors
  /\ since \in [1 .. MaxMonitors -> Nat]
  /\ \A s \in 1 .. MaxMonitors : since[s] <= Len(log) /\ SlotSound(s)

(* A queue that loses its oldest message still holds the most recent. *)
LEMMA RecentTail ==
  ASSUME NEW messages, NEW queue \in Seq(Env), NEW positions, queue # << >>,
         Recent(messages, queue, positions)
  PROVE  Recent(messages, Tail(queue), positions)
<1>1. PICK n \in Nat : n = Len(queue) /\ n >= 1
  OBVIOUS
<1>2. Len(Tail(queue)) = n - 1 /\ \A i \in 1 .. n - 1 : Tail(queue)[i] = queue[i + 1]
  BY <1>1
<1> SUFFICES ASSUME NEW i \in 1 .. n - 1
             PROVE  \E k \in positions : /\ Tail(queue)[i] = messages[k].env
                                         /\ Cardinality({j \in positions : j > k}) = (n - 1) - i
  BY <1>2 DEF Recent
<1>3. i + 1 \in 1 .. n /\ n - (i + 1) = (n - 1) - i
  BY <1>1
<1>4. PICK k \in positions : /\ queue[i + 1] = messages[k].env
                             /\ Cardinality({j \in positions : j > k}) = n - (i + 1)
  BY <1>1, <1>3 DEF Recent
<1> QED  BY <1>2, <1>3, <1>4

(* The same messages at the same positions. *)
LEMMA RecentSame ==
  ASSUME NEW before, NEW after, NEW queue, NEW positions, Recent(before, queue, positions),
         \A k \in positions : after[k].env = before[k].env
  PROVE  Recent(after, queue, positions)
BY DEF Recent

(* A message is appended to the log and to the queue. *)
LEMMA RecentLonger ==
  ASSUME NEW n \in Nat, NEW positions \in SUBSET (1 .. n), NEW queue \in Seq(Env), NEW env \in Env,
         NEW before, NEW after, Recent(before, queue, positions),
         \A k \in positions : after[k].env = before[k].env, after[n + 1].env = env
  PROVE  Recent(after, Append(queue, env), positions \cup {n + 1})
<1> DEFINE more == positions \cup {n + 1}
           longer == Append(queue, env)
           Later(k) == {j \in positions : j > k}
<1>1. PICK m \in Nat : m = Len(queue)
  OBVIOUS
<1>2. /\ Len(longer) = m + 1 /\ longer[m + 1] = env
      /\ \A i \in 1 .. m : longer[i] = queue[i]
  BY <1>1
<1> HIDE DEF longer
<1>3. ASSUME NEW i \in 1 .. m + 1
      PROVE  \E k \in more : /\ longer[i] = after[k].env
                             /\ Cardinality({j \in more : j > k}) = (m + 1) - i
  <2>1. CASE i = m + 1
    <3>1. \A j \in more : ~(j > n + 1)
      <4>1. \A j \in positions : j \in Nat /\ j <= n
        OBVIOUS
      <4> QED  BY <4>1
    <3>2. {j \in more : j > n + 1} = {}
      BY <3>1
    <3>3. Cardinality({j \in more : j > n + 1}) = 0
      BY <3>2, FS_EmptySet
    <3>4. (m + 1) - i = 0 /\ n + 1 \in more
      BY <2>1
    <3> QED  BY <1>2, <2>1, <3>3, <3>4
  <2>2. CASE i \in 1 .. m
    <3>1. PICK k \in positions : queue[i] = before[k].env /\ Cardinality(Later(k)) = m - i
      BY <1>1, <2>2 DEF Recent
    <3>2. {j \in more : j > k} = Later(k) \cup {n + 1} /\ n + 1 \notin Later(k)
      OBVIOUS
    <3>3. IsFiniteSet(Later(k))
      <4>1. IsFiniteSet(1 .. n) /\ Later(k) \in SUBSET (1 .. n)
        <5>1. 1 \in Int /\ n \in Int
          OBVIOUS
        <5> QED  BY <5>1, FS_Interval
      <4> QED  BY <4>1, FS_Subset
    <3> HIDE DEF Later
    <3>4. Cardinality(Later(k) \cup {n + 1}) = (m - i) + 1
      BY <3>1, <3>2, <3>3, FS_AddElement
    <3>5. (m - i) + 1 = (m + 1) - i
      BY <2>2
    <3>6. Cardinality({j \in more : j > k}) = (m + 1) - i
      BY <3>2, <3>4, <3>5
    <3>7. k \in more
      OBVIOUS
    <3> QED  BY <1>2, <2>2, <3>1, <3>6, <3>7
  <2>3. i = m + 1 \/ i \in 1 .. m
    OBVIOUS
  <2> QED  BY <2>1, <2>2, <2>3
<1> HIDE DEF more
<1>4. Recent(after, longer, more)
  BY <1>2, <1>3 DEF Recent
<1> QED  BY <1>4 DEF longer, more

(* An empty queue. *)
LEMMA RecentEmpty ==
  ASSUME NEW messages, NEW positions
  PROVE  Recent(messages, << >>, positions)
BY DEF Recent

(* What a send leaves behind: a count, or a message in the log, in the     *)
(* inbox of its receiver and at the taps.                                  *)
SameMessages == \A k \in DOMAIN log : log'[k].env = log[k].env
Refused ==
  /\ inboxes' = inboxes /\ taps' = taps /\ Counted(0, 1)
  /\ DOMAIN log' = DOMAIN log /\ Len(log') = Len(log) /\ SameMessages
Delivered(h, env) ==
  /\ env.header = h /\ h.receiver \in Registered /\ HasRoom(h.receiver)
  /\ inboxes' = [inboxes EXCEPT ![h.receiver] = Append(@, env)]
  /\ Notify(env) /\ Counted(1, 0)
  /\ Len(log') = Len(log) + 1 /\ DOMAIN log' = DOMAIN log \cup {Len(log) + 1}
  /\ log'[Len(log) + 1].env = env /\ SameMessages

(* A send is refused or delivered. *)
LEMMA SendOutcome ==
  ASSUME BusInv, NEW h \in Header, NEW d \in Payload \cup {None}, HSend(h, d)
  PROVE  Refused \/ \E env \in Env : Delivered(h, env)
<1> DEFINE old == Aged(h, d)
<1>1. BusTypes /\ log \in Seq(Message)
  BY DEF BusInv, BusTypes
<1>2. /\ old \in Seq(Message) /\ DOMAIN old = DOMAIN log /\ Len(old) = Len(log)
      /\ \A k \in DOMAIN log : old[k].env = log[k].env
  BY <1>1, AgedLog
<1>3. CASE inboxes' = inboxes /\ log' = old /\ taps' = taps /\ Counted(0, 1)
  BY <1>2, <1>3 DEF Refused, SameMessages
<1>4. CASE Logged(h, d)
  <2>1. PICK slice \in Slice \cup {None} :
          /\ SendError(h, d) = "Ok"
          /\ inboxes' = [inboxes EXCEPT ![h.receiver] = Append(@, Envelope(h, d, slice))]
          /\ log' = Append(old, [env |-> Envelope(h, d, slice), after |-> 0, current |-> TRUE])
          /\ HasRoom(h.receiver) /\ Notify(Envelope(h, d, slice)) /\ Counted(1, 0)
    BY <1>4 DEF Logged
  <2>2. PICK env \in Env : env = Envelope(h, d, slice) /\ env.header = h
    <3>1. Envelope(h, d, slice) \in Env
      BY DEF Env, Envelope
    <3>2. Envelope(h, d, slice).header = h
      BY DEF Envelope
    <3> QED  BY <3>1, <3>2
  <2>3. h.receiver \in Registered
    BY <2>1, ChecksPassed DEF AfterSequence
  <2>4. PICK new \in Message : new = [env |-> env, after |-> 0, current |-> TRUE] /\ new.env = env
    <3>1. [env |-> env, after |-> 0, current |-> TRUE] \in Message
      BY DEF Message
    <3>2. [env |-> env, after |-> 0, current |-> TRUE].env = env
      OBVIOUS
    <3> QED  BY <3>1, <3>2
  <2>5. PICK n \in Nat : n = Len(log) /\ DOMAIN log = 1 .. n
    BY <1>1
  <2>6. log' = Append(old, new)
    BY <2>1, <2>2, <2>4
  <2> HIDE DEF old
  <2>7. /\ Len(log') = n + 1 /\ DOMAIN log' = 1 .. n + 1 /\ log'[n + 1] = new
        /\ \A k \in 1 .. n : log'[k] = old[k]
    BY <1>2, <2>5, <2>6
  <2>8. 1 .. n + 1 = (1 .. n) \cup {n + 1}
    OBVIOUS
  <2> QED  BY <1>2, <2>1, <2>2, <2>3, <2>4, <2>5, <2>7, <2>8 DEF Delivered, SameMessages
<1> QED  BY <1>1, <1>3, <1>4, SendLogs

(* The places that hold a message are finitely many. *)
LEMMA QueuedFinite == QueueInv => IsFiniteSet(Queued) /\ Cardinality(Queued) \in Nat
<1> SUFFICES ASSUME QueueInv PROVE IsFiniteSet(Queued) /\ Cardinality(Queued) \in Nat
  OBVIOUS
<1>1. QueueCapacity \in Int /\ 1 \in Int
  BY SizeAssumption
<1>2. IsFiniteSet(Registered) /\ IsFiniteSet(1 .. QueueCapacity)
  BY <1>1, FS_Interval DEF QueueInv
<1>3. IsFiniteSet(Registered \X (1 .. QueueCapacity))
  BY <1>2, FS_Product
<1>4. Queued \in SUBSET (Registered \X (1 .. QueueCapacity))
  BY DEF Queued
<1>5. IsFiniteSet(Queued)
  BY <1>3, <1>4, FS_Subset
<1> QED  BY <1>5, FS_CardinalityType

(* A place is a process and a position of its inbox. *)
LEMMA QueuedPlace ==
  ASSUME BusTypes, NEW p, NEW i
  PROVE  <<p, i>> \in Queued <=> p \in Registered /\ i \in 1 .. QueueCapacity /\ i <= Len(inboxes[p])
BY DEF Queued

(* The messages for a process, after a step that keeps the log or appends. *)
LEMMA AcceptedSame ==
  ASSUME NEW p, DOMAIN log' = DOMAIN log, SameMessages
  PROVE  AcceptedFor(p)' = AcceptedFor(p)
BY DEF AcceptedFor, SameMessages

(* A refused send leaves the queues as they were. *)
LEMMA RefusedKeeps ==
  ASSUME BusInv, QueueInv, Refused, gone' = gone,
         \A p \in DOMAIN last_seen' : last_seen'[p] \in 1 .. MaxSeq
  PROVE  QueueInv'
<1>1. Registered' = Registered /\ Queued' = Queued
  BY DEF Refused, Registered, Queued
<1>2. InboxesFollowLog'
  <2> SUFFICES ASSUME NEW p \in Registered' PROVE Recent(log', inboxes'[p], AcceptedFor(p)')
    BY DEF InboxesFollowLog
  <2>1. Recent(log, inboxes[p], AcceptedFor(p)) /\ inboxes'[p] = inboxes[p]
    BY <1>1 DEF QueueInv, InboxesFollowLog, Refused
  <2>2. AcceptedFor(p)' = AcceptedFor(p)
    BY AcceptedSame DEF Refused
  <2>3. \A k \in AcceptedFor(p) : log'[k].env = log[k].env
    BY DEF Refused, SameMessages, AcceptedFor
  <2>4. Recent(log', inboxes[p], AcceptedFor(p))
    BY <2>1, <2>3, RecentSame
  <2> QED  BY <2>1, <2>2, <2>4
<1>3. PICK s \in Nat, r \in Nat, a \in Nat : s = counts.sent /\ r = counts.rejected /\ a = counts.audited
  BY DEF BusInv, BusTypes
<1>4. counts'.sent = s /\ counts'.rejected = r + 1 /\ counts'.audited = a + 1
  BY <1>3 DEF Refused, Counted
<1>5. counts'.sent = Len(log') /\ counts'.audited = counts'.sent + counts'.rejected
  BY <1>3, <1>4 DEF QueueInv, Refused
<1>6. Cardinality(Queued') + gone' = counts'.sent
  BY <1>1, <1>3, <1>4 DEF QueueInv
<1>7. \A p \in Registered' : Len(inboxes'[p]) <= QueueCapacity
  BY <1>1 DEF QueueInv, Refused
<1> QED  BY <1>1, <1>2, <1>5, <1>6, <1>7 DEF QueueInv

(* A delivered message is one more place, one more count and one more      *)
(* position for its receiver.                                              *)
LEMMA DeliveredKeeps ==
  ASSUME BusInv, QueueInv, NEW h \in Header, NEW env \in Env, Delivered(h, env), gone' = gone, BusTypes',
         \A p \in DOMAIN last_seen' : last_seen'[p] \in 1 .. MaxSeq
  PROVE  QueueInv'
<1> DEFINE r == h.receiver
<1>1. /\ inboxes \in [Registered -> Seq(Env)] /\ r \in Registered /\ env.header = h
      /\ inboxes' = [inboxes EXCEPT ![r] = Append(@, env)] /\ BusTypes
  BY DEF BusInv, BusTypes, Delivered
<1> HIDE DEF r
<1>2. Registered' = Registered
  BY <1>1 DEF Registered
<1>3. PICK n \in Nat : n = Len(inboxes[r])
  BY <1>1
<1>4. n < QueueCapacity /\ QueueCapacity \in Nat
  BY <1>3, SizeAssumption DEF Delivered, HasRoom, r
<1>5. inboxes'[r] = Append(inboxes[r], env) /\ \A p \in Registered \ {r} : inboxes'[p] = inboxes[p]
  BY <1>1
<1>6. Len(inboxes'[r]) = n + 1
  BY <1>1, <1>3, <1>5
<1>7. \A p \in Registered' : Len(inboxes'[p]) <= QueueCapacity
  BY <1>2, <1>4, <1>5, <1>6 DEF QueueInv
<1>8. Cardinality(Queued') = Cardinality(Queued) + 1
  <2>1. <<r, n + 1>> \notin Queued
    BY <1>1, <1>3, QueuedPlace
  <2>2. ASSUME NEW p, NEW i
        PROVE  <<p, i>> \in Queued' <=> <<p, i>> \in Queued \cup {<<r, n + 1>>}
    <3>1. <<p, i>> \in Queued' <=> p \in Registered' /\ i \in 1 .. QueueCapacity /\ i <= Len(inboxes'[p])
      BY DEF Queued
    <3>2. <<p, i>> \in Queued <=> p \in Registered /\ i \in 1 .. QueueCapacity /\ i <= Len(inboxes[p])
      BY <1>1, QueuedPlace
    <3>3. CASE p \in Registered \ {r}
      BY <1>2, <1>5, <3>1, <3>2, <3>3
    <3>4. CASE p = r
      <4>1. i \in 1 .. QueueCapacity => (i <= n + 1 <=> i <= n \/ i = n + 1)
        OBVIOUS
      <4>2. n + 1 \in 1 .. QueueCapacity
        BY <1>4
      <4> QED  BY <1>1, <1>2, <1>3, <1>6, <3>1, <3>2, <3>4, <4>1, <4>2
    <3>5. CASE p \notin Registered
      BY <1>1, <1>2, <3>1, <3>2, <3>5
    <3> QED  BY <3>3, <3>4, <3>5
  <2>3. Queued' = Queued \cup {<<r, n + 1>>}
    <3>1. \A q \in Queued' : q = <<q[1], q[2]>>
      BY DEF Queued
    <3>2. \A q \in Queued : q = <<q[1], q[2]>>
      BY DEF Queued
    <3> QED  BY <2>2, <3>1, <3>2
  <2>4. IsFiniteSet(Queued)
    BY QueuedFinite
  <2> QED  BY <2>1, <2>3, <2>4, FS_AddElement
<1>9. InboxesFollowLog'
  <2> SUFFICES ASSUME NEW p \in Registered PROVE Recent(log', inboxes'[p], AcceptedFor(p)')
    BY <1>2 DEF InboxesFollowLog
  <2>1. PICK m \in Nat : m = Len(log) /\ DOMAIN log = 1 .. m
    <3>1. log \in Seq(Message)
      BY <1>1 DEF BusTypes
    <3> QED  BY <3>1
  <2>2. /\ DOMAIN log' = (1 .. m) \cup {m + 1} /\ log'[m + 1].env = env
        /\ \A k \in 1 .. m : log'[k].env = log[k].env
    BY <2>1 DEF Delivered, SameMessages
  <2>3. Recent(log, inboxes[p], AcceptedFor(p)) /\ inboxes[p] \in Seq(Env)
    BY <1>1 DEF QueueInv, InboxesFollowLog
  <2>4. AcceptedFor(p) \in SUBSET (1 .. m)
    BY <2>1 DEF AcceptedFor
  <2>5. \A k \in AcceptedFor(p) : log'[k].env = log[k].env
    BY <2>2, <2>4
  <2>6. CASE p = r
    <3>1. AcceptedFor(p)' = AcceptedFor(p) \cup {m + 1}
      BY <1>1, <2>1, <2>2, <2>6 DEF AcceptedFor, r
    <3>2. Recent(log', Append(inboxes[p], env), AcceptedFor(p) \cup {m + 1})
      BY <2>2, <2>3, <2>4, <2>5, RecentLonger
    <3> QED  BY <1>5, <2>6, <3>1, <3>2
  <2>7. CASE p # r
    <3>1. AcceptedFor(p)' = AcceptedFor(p)
      BY <1>1, <2>1, <2>2, <2>7 DEF AcceptedFor, r
    <3>2. Recent(log', inboxes[p], AcceptedFor(p))
      BY <2>3, <2>5, RecentSame
    <3> QED  BY <1>5, <2>7, <3>1, <3>2
  <2> QED  BY <2>6, <2>7
<1>10. PICK s \in Nat, j \in Nat, a \in Nat : s = counts.sent /\ j = counts.rejected /\ a = counts.audited
  BY DEF BusInv, BusTypes
<1>11. counts'.sent = s + 1 /\ counts'.rejected = j /\ counts'.audited = a + 1
  BY <1>10 DEF Delivered, Counted
<1>12. counts'.sent = Len(log') /\ counts'.audited = counts'.sent + counts'.rejected
  BY <1>10, <1>11 DEF QueueInv, Delivered
<1>13. Cardinality(Queued') + gone' = counts'.sent
  <2>1. PICK c \in Nat : c = Cardinality(Queued)
    BY QueuedFinite
  <2>2. gone \in Nat /\ c + gone = s
    BY <1>10, <2>1 DEF QueueInv
  <2> QED  BY <1>8, <1>11, <2>1, <2>2
<1> QED  BY <1>2, <1>7, <1>9, <1>12, <1>13 DEF QueueInv

(* The inboxes that stay hold what they held. *)
LEMMA InboxesStay ==
  ASSUME QueueInv, DOMAIN log' = DOMAIN log, SameMessages,
         \A p \in Registered' : inboxes'[p] = << >> \/ (p \in Registered /\ inboxes'[p] = inboxes[p])
  PROVE  InboxesFollowLog'
<1> SUFFICES ASSUME NEW p \in Registered' PROVE Recent(log', inboxes'[p], AcceptedFor(p)')
  BY DEF InboxesFollowLog
<1>1. CASE inboxes'[p] = << >>
  BY <1>1, RecentEmpty
<1>2. CASE p \in Registered /\ inboxes'[p] = inboxes[p]
  <2>1. Recent(log, inboxes[p], AcceptedFor(p))
    BY <1>2 DEF QueueInv, InboxesFollowLog
  <2>2. \A k \in AcceptedFor(p) : log'[k].env = log[k].env
    BY DEF SameMessages, AcceptedFor
  <2>3. Recent(log', inboxes[p], AcceptedFor(p))
    BY <2>1, <2>2, RecentSame
  <2>4. AcceptedFor(p)' = AcceptedFor(p)
    BY AcceptedSame
  <2> QED  BY <1>2, <2>3, <2>4
<1> QED  BY <1>1, <1>2

(* A process is registered. *)
LEMMA RegisterKeeps ==
  ASSUME BusInv, QueueInv, NEW p \in Pids \cup {0}, RegisterProcess(p), UNCHANGED <<log, gone>>
  PROVE  QueueInv'
<1>1. /\ UNCHANGED <<last_seen, counts, log, gone>>
      /\ inboxes' = IF RegisterError(p) = "Ok"
                    THEN [q \in Registered \cup {p} |-> IF q = p THEN << >> ELSE inboxes[q]]
                    ELSE inboxes
  BY DEF RegisterProcess
<1>2. DOMAIN log' = DOMAIN log /\ SameMessages
  BY <1>1 DEF SameMessages
<1>3. CASE inboxes' = inboxes
  <2>1. Registered' = Registered /\ Queued' = Queued
    BY <1>3 DEF Registered, Queued
  <2>2. InboxesFollowLog'
    BY <1>2, <1>3, <2>1, InboxesStay
  <2> QED  BY <1>1, <1>3, <2>1, <2>2 DEF QueueInv
<1>4. CASE RegisterError(p) = "Ok"
  <2>1. p # 0 /\ p \notin Registered /\ ~(Cardinality(Registered) >= MaxProcesses)
    BY <1>4 DEF RegisterError
  <2>2. /\ Registered' = Registered \cup {p} /\ inboxes'[p] = << >>
        /\ \A q \in Registered : inboxes'[q] = inboxes[q]
    BY <1>1, <1>4, <2>1 DEF Registered
  <2>3. IsFiniteSet(Registered) /\ Cardinality(Registered) \in Nat
    BY FS_CardinalityType DEF QueueInv
  <2>4. IsFiniteSet(Registered') /\ Cardinality(Registered') = Cardinality(Registered) + 1
    BY <2>1, <2>2, <2>3, FS_AddElement
  <2>5. Cardinality(Registered') <= MaxProcesses
    BY <2>1, <2>3, <2>4, SizeAssumption
  <2>6. Registered' \subseteq Pids
    BY <2>1, <2>2 DEF QueueInv
  <2>7. \A q \in Registered' : Len(inboxes'[q]) <= QueueCapacity
    BY <2>2, SizeAssumption DEF QueueInv
  <2>8. Queued' = Queued
    <3>1. \A i \in 1 .. QueueCapacity : ~(i <= Len(inboxes'[p]))
      BY <2>2
    <3>2. Queued' = {q \in (Registered \cup {p}) \X (1 .. QueueCapacity) : q[2] <= Len(inboxes'[q[1]])}
      BY <2>2 DEF Queued
    <3>3. ASSUME NEW q \in (Registered \cup {p}) \X (1 .. QueueCapacity), q[2] <= Len(inboxes'[q[1]])
          PROVE  q \in Queued
      BY <2>2, <3>1, <3>3 DEF Queued
    <3>4. ASSUME NEW q \in Queued
          PROVE  q \in (Registered \cup {p}) \X (1 .. QueueCapacity) /\ q[2] <= Len(inboxes'[q[1]])
      BY <2>2, <3>4 DEF Queued
    <3> QED  BY <3>2, <3>3, <3>4
  <2>9. InboxesFollowLog'
    BY <1>2, <2>2, InboxesStay
  <2> QED  BY <1>1, <2>4, <2>5, <2>6, <2>7, <2>8, <2>9 DEF QueueInv
<1> QED  BY <1>1, <1>3, <1>4

(* The places of an inbox that is dropped. *)
LEMMA PlacesOf ==
  ASSUME NEW p, NEW n \in Nat
  PROVE  IsFiniteSet({p} \X (1 .. n)) /\ Cardinality({p} \X (1 .. n)) = n
<1>1. IsFiniteSet({p}) /\ Cardinality({p}) = 1
  BY FS_Singleton
<1>2. 1 \in Int /\ n \in Int /\ (IF 1 > n THEN 0 ELSE n - 1 + 1) = n
  OBVIOUS
<1>3. IsFiniteSet(1 .. n) /\ Cardinality(1 .. n) = n
  BY <1>2, FS_Interval
<1>4. IsFiniteSet({p} \X (1 .. n)) /\ Cardinality({p} \X (1 .. n)) = Cardinality({p}) * Cardinality(1 .. n)
  BY <1>1, <1>3, FS_Product
<1> QED  BY <1>1, <1>3, <1>4

(* Unregistering a process leaves the messages of the log. *)
LEMMA UnregisterLog ==
  ASSUME BusInv, NEW p \in Pids, HUnregister(p)
  PROVE  DOMAIN log' = DOMAIN log /\ SameMessages /\ Len(log') = Len(log)
<1>1. /\ log \in Seq(Message)
      /\ log' = [k \in DOMAIN log |-> [log[k] EXCEPT !.current = @ /\ log[k].env.header.sender # p]]
  BY DEF HUnregister, BusInv, BusTypes
<1>2. DOMAIN log' = DOMAIN log /\ SameMessages
  <2>1. DOMAIN log' = DOMAIN log
    BY <1>1
  <2>2. ASSUME NEW k \in DOMAIN log PROVE log'[k].env = log[k].env
    <3>1. PICK x \in Message : x = log[k]
      BY <1>1
    <3>2. PICK c : c = (x.current /\ x.env.header.sender # p)
      OBVIOUS
    <3>3. log'[k] = [x EXCEPT !.current = c]
      BY <1>1, <3>1, <3>2
    <3>4. [x EXCEPT !.current = c].env = x.env
      BY DEF Message
    <3> QED  BY <3>1, <3>3, <3>4
  <2> QED  BY <2>1, <2>2 DEF SameMessages
<1>3. Len(log') = Len(log)
  <2>1. Len(log) \in Nat /\ DOMAIN log = 1 .. Len(log)
    BY <1>1, LenProperties
  <2>2. log' \in Seq(Message)
    <3>1. BusTypes'
      <4>1. [HNext]_hvars
        BY DEF HNext
      <4> QED  BY <4>1, BusStep DEF BusInv
    <3> QED  BY <3>1 DEF BusTypes
  <2> QED  BY <1>2, <2>1, <2>2, LenProperties
<1> QED  BY <1>2, <1>3

(* A process is unregistered: its queue is gone. *)
LEMMA UnregisterKeeps ==
  ASSUME BusInv, QueueInv, NEW p \in Pids, HUnregister(p)
  PROVE  QueueInv'
<1>1. /\ UNCHANGED counts
      /\ inboxes \in [Registered -> Seq(Env)] /\ gone' = gone + Len(Pending(p)) /\ gone \in Nat
  BY DEF HUnregister, UnregisterProcess, BusInv, BusTypes, QueueInv
<1>2. DOMAIN log' = DOMAIN log /\ SameMessages
  BY UnregisterLog
<1>3. Len(log') = Len(log)
  BY UnregisterLog
<1>4. \/ p \notin Registered /\ UNCHANGED <<inboxes, last_seen>>
      \/ /\ p \in Registered /\ inboxes' = [q \in Registered \ {p} |-> inboxes[q]]
         /\ last_seen' = [q \in DOMAIN last_seen \ {p} |-> last_seen[q]]
  BY DEF HUnregister, UnregisterProcess, DropSequence
<1>5. CASE p \notin Registered /\ UNCHANGED <<inboxes, last_seen>>
  <2>1. Registered' = Registered /\ Queued' = Queued
    BY <1>5 DEF Registered, Queued
  <2>2. gone' = gone
    BY <1>1, <1>5 DEF Pending
  <2>3. InboxesFollowLog'
    BY <1>2, <1>5, <2>1, InboxesStay
  <2> QED  BY <1>1, <1>3, <1>5, <2>1, <2>2, <2>3 DEF QueueInv
<1>6. CASE /\ p \in Registered /\ inboxes' = [q \in Registered \ {p} |-> inboxes[q]]
           /\ last_seen' = [q \in DOMAIN last_seen \ {p} |-> last_seen[q]]
  <2>1. Registered' = Registered \ {p} /\ \A q \in Registered' : inboxes'[q] = inboxes[q]
    BY <1>6 DEF Registered
  <2>2. PICK n \in Nat : n = Len(inboxes[p]) /\ n <= QueueCapacity
    BY <1>1, <1>6 DEF QueueInv
  <2>3. gone' = gone + n
    BY <1>1, <1>6, <2>2 DEF Pending
  <2>4. /\ IsFiniteSet(Registered') /\ Registered' \subseteq Pids /\ Cardinality(Registered') <= MaxProcesses
    <3>1. IsFiniteSet(Registered) /\ Cardinality(Registered) \in Nat
      BY FS_CardinalityType DEF QueueInv
    <3>2. IsFiniteSet(Registered') /\ Cardinality(Registered') = Cardinality(Registered) - 1
      BY <1>6, <2>1, <3>1, FS_RemoveElement
    <3> QED  BY <2>1, <3>1, <3>2, SizeAssumption DEF QueueInv
  <2>5. \A q \in DOMAIN last_seen' : last_seen'[q] \in 1 .. MaxSeq
    BY <1>6 DEF QueueInv
  <2>6. \A q \in Registered' : Len(inboxes'[q]) <= QueueCapacity
    BY <2>1 DEF QueueInv
  <2>7. InboxesFollowLog'
    BY <1>2, <2>1, InboxesStay
  <2>8. Cardinality(Queued) = Cardinality(Queued') + n /\ Cardinality(Queued') \in Nat
    <3> DEFINE dropped == {p} \X (1 .. n)
    <3>1. \A q \in Queued' : q \in Queued /\ q[1] # p
      BY <2>1 DEF Queued
    <3>2. \A q \in dropped : q \in Queued /\ q[1] = p
      BY <1>6, <2>2, SizeAssumption DEF Queued
    <3>3. \A q \in Queued : q \in Queued' \/ q \in dropped
      <4> SUFFICES ASSUME NEW q \in Queued PROVE q \in Queued' \/ q \in dropped
        OBVIOUS
      <4>1. PICK o \in Registered, i \in 1 .. QueueCapacity : q = <<o, i>> /\ i <= Len(inboxes[o])
        BY DEF Queued
      <4>2. CASE o = p
        <5>1. i \in 1 .. n
          BY <2>2, <4>1, <4>2
        <5> QED  BY <4>1, <4>2, <5>1
      <4>3. CASE o # p
        BY <2>1, <4>1, <4>3 DEF Queued
      <4> QED  BY <4>2, <4>3
    <3>4. Queued = Queued' \cup dropped /\ Queued' \cap dropped = {}
      BY <3>1, <3>2, <3>3
    <3>5. IsFiniteSet(dropped) /\ Cardinality(dropped) = n
      BY PlacesOf
    <3> HIDE DEF dropped
    <3>6. IsFiniteSet(Queued') /\ Cardinality(Queued') \in Nat
      <4>1. IsFiniteSet(Queued) /\ Queued' \in SUBSET Queued
        BY <3>1, QueuedFinite
      <4> QED  BY <4>1, FS_Subset, FS_CardinalityType
    <3>7. Cardinality(Queued' \cup dropped)
            = Cardinality(Queued') + Cardinality(dropped) - Cardinality(Queued' \cap dropped)
      BY <3>5, <3>6, FS_Union
    <3>8. Cardinality(Queued' \cap dropped) = 0
      BY <3>4, FS_EmptySet
    <3> QED  BY <3>4, <3>5, <3>6, <3>7, <3>8
  <2>9. Cardinality(Queued') + gone' = counts'.sent
    <3>1. Cardinality(Queued) + gone = counts.sent
      BY DEF QueueInv
    <3>2. PICK c \in Nat : c = Cardinality(Queued')
      BY <2>8
    <3>3. (c + n) + gone = c + (gone + n)
      BY <1>1
    <3> QED  BY <1>1, <2>3, <2>8, <3>1, <3>2, <3>3
  <2>10. gone' \in Nat /\ counts'.sent = Len(log') /\ counts'.audited = counts'.sent + counts'.rejected
    BY <1>1, <1>3, <2>3 DEF QueueInv
  <2> QED  BY <2>4, <2>5, <2>6, <2>7, <2>9, <2>10 DEF QueueInv
<1> QED  BY <1>4, <1>5, <1>6

(* A message is received: it leaves its queue. *)
LEMMA ReceiveKeeps ==
  ASSUME BusInv, QueueInv, NEW p \in Pids, HReceive(p)
  PROVE  QueueInv'
<1>1. /\ UNCHANGED <<last_seen, counts, log>> /\ inboxes \in [Registered -> Seq(Env)] /\ BusTypes
      /\ gone' = gone + (IF Pending(p) = << >> THEN 0 ELSE 1) /\ gone \in Nat
  BY DEF HReceive, Receive, BusInv, BusTypes, QueueInv
<1>2. DOMAIN log' = DOMAIN log /\ SameMessages
  BY <1>1 DEF SameMessages
<1>3. CASE Pending(p) = << >>
  <2>1. inboxes' = inboxes /\ gone' = gone
    BY <1>1, <1>3 DEF HReceive, Receive
  <2>2. Registered' = Registered /\ Queued' = Queued
    BY <2>1 DEF Registered, Queued
  <2>3. InboxesFollowLog'
    BY <1>2, <2>1, <2>2, InboxesStay
  <2> QED  BY <1>1, <2>1, <2>2, <2>3 DEF QueueInv
<1>4. CASE Pending(p) # << >>
  <2>1. /\ p \in Registered /\ inboxes[p] # << >> /\ inboxes' = [inboxes EXCEPT ![p] = Tail(@)]
        /\ gone' = gone + 1
    BY <1>1, <1>4 DEF HReceive, Receive, Pending
  <2>2. PICK queue \in Seq(Env) : queue = inboxes[p] /\ queue # << >>
    BY <1>1, <2>1
  <2>3. PICK n \in Nat : n = Len(queue) /\ n >= 1 /\ n <= QueueCapacity
    BY <2>1, <2>2 DEF QueueInv
  <2>4. Len(Tail(queue)) = n - 1
    BY <2>2, <2>3
  <2>5. /\ Registered' = Registered /\ inboxes'[p] = Tail(queue)
        /\ \A q \in Registered \ {p} : inboxes'[q] = inboxes[q]
    BY <1>1, <2>1, <2>2 DEF Registered
  <2>6. \A q \in Registered' : Len(inboxes'[q]) <= QueueCapacity
    BY <2>3, <2>4, <2>5, SizeAssumption DEF QueueInv
  <2>7. Queued' = Queued \ {<<p, n>>} /\ <<p, n>> \in Queued
    <3>1. <<p, n>> \in Queued
      BY <1>1, <2>1, <2>2, <2>3, QueuedPlace, SizeAssumption
    <3>2. ASSUME NEW q, NEW i
          PROVE  <<q, i>> \in Queued' <=> <<q, i>> \in Queued /\ <<q, i>> # <<p, n>>
      <4>1. <<q, i>> \in Queued' <=> q \in Registered' /\ i \in 1 .. QueueCapacity /\ i <= Len(inboxes'[q])
        BY DEF Queued
      <4>2. <<q, i>> \in Queued <=> q \in Registered /\ i \in 1 .. QueueCapacity /\ i <= Len(inboxes[q])
        BY <1>1, QueuedPlace
      <4>3. CASE q = p
        <5>1. i \in 1 .. QueueCapacity => (i <= n - 1 <=> i <= n /\ i # n)
          BY <2>3, SizeAssumption
        <5> QED  BY <2>1, <2>2, <2>3, <2>4, <2>5, <4>1, <4>2, <4>3, <5>1
      <4>4. CASE q \in Registered \ {p}
        BY <2>5, <4>1, <4>2, <4>4
      <4>5. CASE q \notin Registered
        BY <2>5, <4>1, <4>2, <4>5
      <4> QED  BY <4>3, <4>4, <4>5
    <3>3. \A q \in Queued' : q = <<q[1], q[2]>>
      BY DEF Queued
    <3>4. \A q \in Queued : q = <<q[1], q[2]>>
      BY DEF Queued
    <3> QED  BY <3>1, <3>2, <3>3, <3>4
  <2>8. IsFiniteSet(Queued) /\ Cardinality(Queued) \in Nat
    BY QueuedFinite
  <2>9. Cardinality(Queued') = Cardinality(Queued) - 1
    BY <2>7, <2>8, FS_RemoveElement
  <2>10. Cardinality(Queued') + gone' = counts'.sent /\ gone' \in Nat
    <3>1. Cardinality(Queued) + gone = counts.sent
      BY DEF QueueInv
    <3>2. PICK c \in Nat : c = Cardinality(Queued)
      BY <2>8
    <3>3. (c - 1) + (gone + 1) = c + gone /\ gone + 1 \in Nat
      BY <1>1
    <3> QED  BY <1>1, <2>1, <2>9, <3>1, <3>2, <3>3
  <2>11. InboxesFollowLog'
    <3> SUFFICES ASSUME NEW q \in Registered PROVE Recent(log', inboxes'[q], AcceptedFor(q)')
      BY <2>5 DEF InboxesFollowLog
    <3>1. Recent(log, inboxes[q], AcceptedFor(q)) /\ log' = log /\ AcceptedFor(q)' = AcceptedFor(q)
      BY <1>1, <1>2, AcceptedSame DEF QueueInv, InboxesFollowLog
    <3>2. CASE q = p
      <4>1. Recent(log, Tail(queue), AcceptedFor(q))
        BY <2>2, <3>1, <3>2, RecentTail
      <4> QED  BY <2>5, <3>1, <3>2, <4>1
    <3>3. CASE q # p
      BY <2>5, <3>1, <3>3
    <3> QED  BY <3>2, <3>3
  <2> QED  BY <1>1, <2>5, <2>6, <2>10, <2>11 DEF QueueInv
<1> QED  BY <1>3, <1>4

(* A recorded sequence number is one of those presented. *)
LEMMA SendNumbers ==
  ASSUME BusInv, QueueInv, NEW h \in Header, NEW d \in Payload \cup {None}, HSend(h, d)
  PROVE  \A p \in DOMAIN last_seen' : last_seen'[p] \in 1 .. MaxSeq
<1>1. \A p \in DOMAIN last_seen : last_seen[p] \in 1 .. MaxSeq
  BY DEF QueueInv
<1>2. last_seen' = last_seen \/ Recorded(h)
  BY SendSequence DEF HSend
<1>3. CASE Recorded(h)
  <2>1. h.sequence \in 0 .. MaxSeq /\ h.sequence = LastSeq(h.sender) + 1 /\ LastSeq(h.sender) \in Nat
    BY <1>1, <1>3, SizeAssumption DEF Recorded, Header, LastSeq
  <2>2. h.sequence \in 1 .. MaxSeq
    BY <2>1, SizeAssumption
  <2> QED  BY <1>1, <1>3, <2>2 DEF Recorded
<1> QED  BY <1>1, <1>2, <1>3

(* Every step keeps what the queues hold. *)
LEMMA QueueStep == BusInv /\ QueueInv /\ [HNext]_hvars => QueueInv'
<1> SUFFICES ASSUME BusInv, QueueInv, [HNext]_hvars PROVE QueueInv'
  OBVIOUS
<1>1. BusInv'
  BY BusStep
<1>2. ASSUME UNCHANGED <<inboxes, last_seen, counts, log, gone>> PROVE QueueInv'
  <2>1. Registered' = Registered /\ Queued' = Queued
    BY <1>2 DEF Registered, Queued
  <2>2. DOMAIN log' = DOMAIN log /\ SameMessages
    BY <1>2 DEF SameMessages
  <2>3. InboxesFollowLog'
    BY <1>2, <2>1, <2>2, InboxesStay
  <2> QED  BY <1>2, <2>1, <2>3 DEF QueueInv
<1>3. ASSUME NEW h \in Header, NEW d \in Payload \cup {None}, HSend(h, d) PROVE QueueInv'
  <2>1. gone' = gone /\ BusTypes'
    BY <1>1, <1>3 DEF HSend, BusInv
  <2>2. \A p \in DOMAIN last_seen' : last_seen'[p] \in 1 .. MaxSeq
    BY <1>3, SendNumbers
  <2> QED  BY <1>3, <2>1, <2>2, SendOutcome, RefusedKeeps, DeliveredKeeps
<1>4. CASE HMonitor
  <2>1. UNCHANGED <<inboxes, last_seen, counts, log, gone>>
    BY <1>4 DEF HMonitor, RegisterMonitor, UnregisterMonitor, MonitorDrain
  <2> QED  BY <1>2, <2>1
<1>5. CASE HClear
  <2>1. /\ inboxes' = [p \in {} |-> << >>] /\ last_seen' = [p \in {} |-> 0]
        /\ counts' = [sent |-> 0, rejected |-> 0, audited |-> 0] /\ log' = << >> /\ gone' = 0
    BY <1>5 DEF HClear, Clear
  <2>2. Registered' = {} /\ Queued' = {}
    BY <2>1 DEF Registered, Queued
  <2>3. Cardinality(Registered') = 0 /\ Cardinality(Queued') = 0 /\ IsFiniteSet(Registered')
    BY <2>2, FS_EmptySet
  <2> QED  BY <2>1, <2>2, <2>3, SizeAssumption DEF QueueInv, InboxesFollowLog
<1>6. CASE InitArena /\ UNCHANGED <<log, gone>>
  BY <1>2, <1>6 DEF InitArena
<1>7. CASE UNCHANGED hvars
  BY <1>2, <1>7 DEF hvars, vars
<1> QED  BY <1>3, <1>4, <1>5, <1>6, <1>7, RegisterKeeps, UnregisterKeeps, ReceiveKeeps DEF HNext

(* What the queues hold at the start. *)
LEMMA QueueStart == HInit => QueueInv
<1> SUFFICES ASSUME HInit PROVE QueueInv
  OBVIOUS
<1>1. /\ inboxes = [p \in {} |-> << >>] /\ last_seen = [p \in {} |-> 0]
      /\ counts = [sent |-> 0, rejected |-> 0, audited |-> 0] /\ log = << >> /\ gone = 0
  BY DEF HInit, Init
<1>2. Registered = {} /\ Queued = {}
  BY <1>1 DEF Registered, Queued
<1>3. Cardinality(Registered) = 0 /\ Cardinality(Queued) = 0 /\ IsFiniteSet(Registered)
  BY <1>2, FS_EmptySet
<1> QED  BY <1>1, <1>2, <1>3, SizeAssumption DEF QueueInv, InboxesFollowLog

(* A tap that sees a message holds it last; the oldest makes room. *)
LEMMA PushKeeps ==
  ASSUME NEW n \in Nat, NEW positions \in SUBSET (1 .. n), NEW queue \in Seq(Env), NEW env \in Env,
         NEW before, NEW after, Recent(before, queue, positions), Len(queue) <= MonitorBuffer,
         \A k \in positions : after[k].env = before[k].env, after[n + 1].env = env
  PROVE  /\ Recent(after, TapPush(queue, env), positions \cup {n + 1})
         /\ TapPush(queue, env) \in Seq(Env) /\ Len(TapPush(queue, env)) <= MonitorBuffer
<1>1. MonitorBuffer \in Nat /\ MonitorBuffer >= 1
  BY SizeAssumption
<1>2. CASE Len(queue) >= MonitorBuffer
  <2>1. queue # << >>
    BY <1>1, <1>2
  <2>2. Tail(queue) \in Seq(Env) /\ Len(Tail(queue)) = Len(queue) - 1 /\ Recent(before, Tail(queue), positions)
    BY <2>1, RecentTail, SMTT(30)
  <2>3. PICK rest \in Seq(Env) : rest = Tail(queue) /\ Len(rest) = Len(queue) - 1
    BY <2>2
  <2>4. TapPush(queue, env) = Append(rest, env)
    BY <1>2, <2>3 DEF TapPush
  <2>5. Recent(after, Append(rest, env), positions \cup {n + 1})
    BY <2>2, <2>3, RecentLonger
  <2>6. Append(rest, env) \in Seq(Env) /\ Len(Append(rest, env)) <= MonitorBuffer
    BY <1>1, <2>3
  <2> QED  BY <2>4, <2>5, <2>6
<1>3. CASE ~(Len(queue) >= MonitorBuffer)
  <2>1. TapPush(queue, env) = Append(queue, env)
    BY <1>3 DEF TapPush
  <2>2. Recent(after, Append(queue, env), positions \cup {n + 1})
    BY RecentLonger
  <2>3. Append(queue, env) \in Seq(Env) /\ Len(Append(queue, env)) <= MonitorBuffer
    BY <1>1, <1>3
  <2> QED  BY <2>1, <2>2, <2>3
<1> QED  BY <1>2, <1>3

(* The messages a tap has seen, after a step that leaves its slot alone. *)
LEMMA SeenSame ==
  ASSUME NEW s, DOMAIN log' = DOMAIN log, SameMessages, since'[s] = since[s],
         taps'[s].filter = taps[s].filter
  PROVE  SeenBy(s)' = SeenBy(s)
BY DEF SeenBy, SameMessages, Matches

(* A slot that is left alone stays sound. *)
LEMMA SlotStays ==
  ASSUME NEW s, SlotSound(s), DOMAIN log' = DOMAIN log, SameMessages, next_tap \in Nat,
         next_tap' \in Nat, next_tap <= next_tap', taps'[s] = taps[s], since'[s] = since[s]
  PROVE  SlotSound(s)'
<1> SUFFICES ASSUME taps[s] # None
             PROVE  /\ taps[s] \in Tap /\ Len(taps[s].buffer) <= MonitorBuffer /\ taps[s].id < next_tap'
                    /\ Recent(log', taps[s].buffer, SeenBy(s)')
  BY DEF SlotSound
<1>1. /\ taps[s] \in Tap /\ Len(taps[s].buffer) <= MonitorBuffer /\ taps[s].id < next_tap
      /\ Recent(log, taps[s].buffer, SeenBy(s))
  BY DEF SlotSound
<1>2. taps[s].id < next_tap'
  <2>1. taps[s].id \in Nat
    BY <1>1 DEF Tap
  <2> QED  BY <1>1, <2>1
<1>3. \A k \in SeenBy(s) : log'[k].env = log[k].env
  BY DEF SeenBy, SameMessages
<1>4. Recent(log', taps[s].buffer, SeenBy(s))
  BY <1>1, <1>3, RecentSame
<1>5. SeenBy(s)' = SeenBy(s)
  BY SeenSame
<1> QED  BY <1>1, <1>2, <1>4, <1>5

(* A delivered message reaches the taps whose filter it matches. *)
LEMMA DeliveredSeen ==
  ASSUME BusInv, TapInv, NEW h \in Header, NEW env \in Env, Delivered(h, env), UNCHANGED <<next_tap, since>>
  PROVE  TapInv'
<1>1. PICK m \in Nat : m = Len(log) /\ DOMAIN log = 1 .. m
  <2>1. log \in Seq(Message)
    BY DEF BusInv, BusTypes
  <2> QED  BY <2>1
<1>2. /\ DOMAIN log' = (1 .. m) \cup {m + 1} /\ log'[m + 1].env = env /\ Len(log') = m + 1
      /\ \A k \in 1 .. m : log'[k].env = log[k].env
  BY <1>1 DEF Delivered, SameMessages
<1>3. /\ next_tap \in Nat /\ DOMAIN taps = 1 .. MaxMonitors /\ since \in [1 .. MaxMonitors -> Nat]
      /\ \A s \in 1 .. MaxMonitors : since[s] <= m /\ SlotSound(s)
  BY <1>1 DEF TapInv
<1>4. taps' = [s \in 1 .. MaxMonitors |->
                 IF taps[s] # None /\ Matches(taps[s].filter, env.header)
                 THEN [taps[s] EXCEPT !.buffer = TapPush(@, env)]
                 ELSE taps[s]]
  BY <1>3 DEF Delivered, Notify
<1>5. ASSUME NEW s \in 1 .. MaxMonitors PROVE SlotSound(s)'
  <2> SUFFICES ASSUME taps'[s] # None PROVE SlotSound(s)'
    BY DEF SlotSound
  <2>1. taps[s] # None
    BY <1>4
  <2>2. /\ taps[s] \in Tap /\ Len(taps[s].buffer) <= MonitorBuffer /\ taps[s].id < next_tap
        /\ Recent(log, taps[s].buffer, SeenBy(s)) /\ since[s] \in Nat /\ since[s] <= m
    BY <1>3, <2>1 DEF SlotSound
  <2>3. PICK x \in Tap : x = taps[s]
    BY <2>2
  <2>4. SeenBy(s) = {k \in 1 .. m : k > since[s] /\ Matches(x.filter, log[k].env.header)}
    BY <1>1, <2>3 DEF SeenBy
  <2>5. SeenBy(s) \in SUBSET (1 .. m) /\ \A k \in SeenBy(s) : log'[k].env = log[k].env
    BY <1>2, <2>4
  <2>6. CASE Matches(x.filter, env.header)
    <3>1. PICK queue \in Seq(Env) : queue = x.buffer
      BY DEF Tap
    <3>2. taps'[s] = [x EXCEPT !.buffer = TapPush(queue, env)]
      BY <1>4, <2>1, <2>3, <2>6, <3>1
    <3>3. /\ Recent(log', TapPush(queue, env), SeenBy(s) \cup {m + 1})
          /\ TapPush(queue, env) \in Seq(Env) /\ Len(TapPush(queue, env)) <= MonitorBuffer
      BY <1>2, <2>2, <2>3, <2>5, <3>1, PushKeeps
    <3>4. PICK longer \in Seq(Env) : longer = TapPush(queue, env)
      BY <3>3
    <3>5. /\ [x EXCEPT !.buffer = longer] \in Tap /\ [x EXCEPT !.buffer = longer].buffer = longer
          /\ [x EXCEPT !.buffer = longer].filter = x.filter /\ [x EXCEPT !.buffer = longer].id = x.id
      BY DEF Tap
    <3>6. taps'[s] \in Tap /\ taps'[s].buffer = longer /\ taps'[s].filter = x.filter /\ taps'[s].id = x.id
      BY <3>2, <3>4, <3>5
    <3>7. SeenBy(s)' = {k \in (1 .. m) \cup {m + 1} : k > since[s] /\ Matches(x.filter, log'[k].env.header)}
      BY <1>2, <3>6 DEF SeenBy, Matches
    <3>8. m + 1 > since[s]
      BY <2>2
    <3>9. SeenBy(s)' = SeenBy(s) \cup {m + 1}
      BY <1>2, <2>4, <2>6, <3>7, <3>8
    <3> QED  BY <2>2, <2>3, <3>3, <3>4, <3>6, <3>9 DEF SlotSound
  <2>7. CASE ~Matches(x.filter, env.header)
    <3>1. taps'[s] = x
      BY <1>4, <2>3, <2>7
    <3>2. SeenBy(s)' = {k \in (1 .. m) \cup {m + 1} : k > since[s] /\ Matches(x.filter, log'[k].env.header)}
      BY <1>2, <3>1 DEF SeenBy, Matches
    <3>3. SeenBy(s)' = SeenBy(s)
      BY <1>2, <2>4, <2>7, <3>2
    <3>4. Recent(log', x.buffer, SeenBy(s))
      BY <2>2, <2>3, <2>5, RecentSame
    <3> QED  BY <2>2, <2>3, <3>1, <3>3, <3>4 DEF SlotSound
  <2> QED  BY <2>6, <2>7
<1>6. \A s \in 1 .. MaxMonitors : since[s] <= m + 1
  BY <1>3
<1> QED  BY <1>2, <1>3, <1>4, <1>5, <1>6 DEF TapInv

(* A monitor call leaves the log alone and touches one slot. *)
LEMMA MonitorKeeps ==
  ASSUME BusInv, TapInv, HMonitor
  PROVE  TapInv'
<1>1. PICK m \in Nat : m = Len(log)
  <2>1. log \in Seq(Message)
    BY DEF BusInv, BusTypes
  <2> QED  BY <2>1
<1>2. /\ next_tap \in Nat /\ DOMAIN taps = 1 .. MaxMonitors /\ since \in [1 .. MaxMonitors -> Nat]
      /\ \A s \in 1 .. MaxMonitors : since[s] <= m /\ SlotSound(s)
  BY <1>1 DEF TapInv
<1>3. /\ log' = log /\ DOMAIN log' = DOMAIN log /\ SameMessages
      /\ since' = [s \in 1 .. MaxMonitors |->
                     IF taps[s] = None /\ taps'[s] # None THEN m
                     ELSE IF taps'[s] = None THEN 0 ELSE since[s]]
  BY <1>1, <1>2 DEF HMonitor, SameMessages
<1>4. since' \in [1 .. MaxMonitors -> Nat] /\ \A s \in 1 .. MaxMonitors : since'[s] <= m
  BY <1>1, <1>2, <1>3
<1>5. ASSUME NEW s \in 1 .. MaxMonitors, taps'[s] = taps[s], next_tap' \in Nat, next_tap <= next_tap'
      PROVE  SlotSound(s)'
  <2>1. CASE taps[s] = None
    BY <1>5, <2>1 DEF SlotSound
  <2>2. CASE taps[s] # None
    <3>1. since'[s] = since[s]
      BY <1>3, <1>5, <2>2
    <3> QED  BY <1>2, <1>3, <1>5, <3>1, SlotStays
  <2> QED  BY <2>1, <2>2
<1>6. ASSUME NEW f \in Filters, RegisterMonitor(f) PROVE TapInv'
  <2>1. CASE UNCHANGED <<taps, next_tap>>
    <3>1. \A s \in 1 .. MaxMonitors : SlotSound(s)'
      BY <1>2, <1>5, <2>1
    <3> QED  BY <1>1, <1>2, <1>3, <1>4, <2>1, <3>1 DEF TapInv
  <2>2. CASE ~UNCHANGED <<taps, next_tap>>
    <3>1. PICK t \in DOMAIN taps :
            /\ taps' = [taps EXCEPT ![t] = [id |-> next_tap, filter |-> f, buffer |-> << >>]]
            /\ next_tap' = next_tap + 1
      BY <1>6, <2>2 DEF RegisterMonitor
    <3>2. PICK x \in Tap : x = [id |-> next_tap, filter |-> f, buffer |-> << >>]
      <4>1. << >> \in Seq(Env)
        OBVIOUS
      <4>2. [id |-> next_tap, filter |-> f, buffer |-> << >>] \in Tap
        BY <1>2, <4>1 DEF Tap
      <4> QED  BY <4>2
    <3>3. x.id = next_tap /\ x.buffer = << >>
      BY <3>2
    <3>4. DOMAIN taps' = 1 .. MaxMonitors /\ taps'[t] = x /\ \A s \in 1 .. MaxMonitors : s # t => taps'[s] = taps[s]
      BY <1>2, <3>1, <3>2
    <3>5. next_tap' \in Nat /\ next_tap <= next_tap' /\ next_tap < next_tap'
      BY <1>2, <3>1
    <3>6. SlotSound(t)'
      <4>1. Len(x.buffer) <= MonitorBuffer
        BY <3>3, SizeAssumption
      <4>2. Recent(log', x.buffer, SeenBy(t)')
        BY <3>3, RecentEmpty
      <4> QED  BY <3>3, <3>4, <3>5, <4>1, <4>2 DEF SlotSound
    <3>7. \A s \in 1 .. MaxMonitors : SlotSound(s)'
      BY <1>5, <3>4, <3>5, <3>6
    <3> QED  BY <1>1, <1>3, <1>4, <3>4, <3>5, <3>7 DEF TapInv
  <2> QED  BY <2>1, <2>2
<1>7. ASSUME NEW t \in 1 .. MaxTaps, UnregisterMonitor(t) PROVE TapInv'
  <2>1. /\ next_tap' = next_tap /\ DOMAIN taps' = 1 .. MaxMonitors
        /\ \A s \in 1 .. MaxMonitors : taps'[s] = None \/ taps'[s] = taps[s]
    BY <1>2, <1>7 DEF UnregisterMonitor
  <2>2. ASSUME NEW s \in 1 .. MaxMonitors PROVE SlotSound(s)'
    <3>1. CASE taps'[s] = None
      BY <3>1 DEF SlotSound
    <3>2. CASE taps'[s] = taps[s]
      BY <1>2, <1>5, <2>1, <3>2
    <3> QED  BY <2>1, <3>1, <3>2
  <2> QED  BY <1>1, <1>2, <1>3, <1>4, <2>1, <2>2 DEF TapInv
<1>8. ASSUME NEW t \in 1 .. MaxTaps, MonitorDrain(t) PROVE TapInv'
  <2>1. next_tap' = next_tap
    BY <1>8 DEF MonitorDrain
  <2>2. CASE taps' = taps
    <3>1. \A s \in 1 .. MaxMonitors : SlotSound(s)'
      BY <1>2, <1>5, <2>1, <2>2
    <3> QED  BY <1>1, <1>2, <1>3, <1>4, <2>1, <2>2, <3>1 DEF TapInv
  <2>3. CASE taps' # taps
    <3>1. PICK s \in 1 .. MaxMonitors :
            taps[s] # None /\ taps[s].buffer # << >> /\ taps' = [taps EXCEPT ![s].buffer = Tail(@)]
      BY <1>2, <1>8, <2>3 DEF MonitorDrain, SlotsOf
    <3>2. /\ taps[s] \in Tap /\ Len(taps[s].buffer) <= MonitorBuffer /\ taps[s].id < next_tap
          /\ Recent(log, taps[s].buffer, SeenBy(s))
      BY <1>2, <3>1 DEF SlotSound
    <3>3. PICK x \in Tap : x = taps[s]
      BY <3>2
    <3>4. PICK queue \in Seq(Env) : queue = x.buffer /\ queue # << >>
      BY <3>1, <3>3 DEF Tap
    <3>5. PICK rest \in Seq(Env) : rest = Tail(queue) /\ Len(rest) <= Len(queue)
      <4>1. Tail(queue) \in Seq(Env) /\ Len(Tail(queue)) = Len(queue) - 1
        BY <3>4
      <4>2. Len(Tail(queue)) <= Len(queue)
        BY <4>1
      <4> QED  BY <4>1, <4>2
    <3>6. taps' = [taps EXCEPT ![s] = [x EXCEPT !.buffer = rest]]
      BY <3>1, <3>3, <3>4, <3>5
    <3>7. /\ [x EXCEPT !.buffer = rest] \in Tap /\ [x EXCEPT !.buffer = rest].buffer = rest
          /\ [x EXCEPT !.buffer = rest].filter = x.filter /\ [x EXCEPT !.buffer = rest].id = x.id
      BY DEF Tap
    <3>8. /\ DOMAIN taps' = 1 .. MaxMonitors /\ taps'[s] \in Tap /\ taps'[s].buffer = rest
          /\ taps'[s].filter = x.filter /\ taps'[s].id = x.id
          /\ \A r \in 1 .. MaxMonitors : r # s => taps'[r] = taps[r]
      BY <1>2, <3>6, <3>7
    <3>9. SlotSound(s)'
      <4> SUFFICES ASSUME taps'[s] # None PROVE SlotSound(s)'
        BY DEF SlotSound
      <4>1. since'[s] = since[s]
        BY <1>3, <3>1
      <4>2. SeenBy(s)' = SeenBy(s)
        BY <1>3, <3>3, <3>8, <4>1, SeenSame
      <4>3. Recent(log, rest, SeenBy(s))
        BY <3>2, <3>3, <3>4, <3>5, RecentTail
      <4>4. Len(rest) <= MonitorBuffer
        BY <3>2, <3>3, <3>4, <3>5, SizeAssumption
      <4> QED  BY <1>3, <2>1, <3>2, <3>3, <3>8, <4>2, <4>3, <4>4 DEF SlotSound
    <3>10. \A r \in 1 .. MaxMonitors : SlotSound(r)'
      BY <1>2, <1>5, <2>1, <3>8, <3>9
    <3> QED  BY <1>1, <1>2, <1>3, <1>4, <2>1, <3>8, <3>10 DEF TapInv
  <2> QED  BY <2>2, <2>3
<1> QED  BY <1>6, <1>7, <1>8 DEF HMonitor

(* Every step keeps what the taps hold. *)
LEMMA TapStep == BusInv /\ TapInv /\ [HNext]_hvars => TapInv'
<1> SUFFICES ASSUME BusInv, TapInv, [HNext]_hvars PROVE TapInv'
  OBVIOUS
<1>1. /\ next_tap \in Nat /\ DOMAIN taps = 1 .. MaxMonitors /\ since \in [1 .. MaxMonitors -> Nat]
      /\ \A s \in 1 .. MaxMonitors : since[s] <= Len(log) /\ SlotSound(s)
  BY DEF TapInv
<1>2. ASSUME UNCHANGED <<taps, next_tap, since>>, DOMAIN log' = DOMAIN log, Len(log') = Len(log), SameMessages
      PROVE  TapInv'
  <2>1. \A s \in 1 .. MaxMonitors : SlotSound(s)'
    BY <1>1, <1>2, SlotStays
  <2> QED  BY <1>1, <1>2, <2>1 DEF TapInv
<1>3. ASSUME UNCHANGED <<taps, next_tap, since, log>> PROVE TapInv'
  BY <1>2, <1>3 DEF SameMessages
<1>4. ASSUME NEW h \in Header, NEW d \in Payload \cup {None}, HSend(h, d) PROVE TapInv'
  <2>1. UNCHANGED <<next_tap, since>>
    BY <1>4 DEF HSend, Send
  <2>2. CASE Refused
    BY <1>2, <2>1, <2>2 DEF Refused
  <2> QED  BY <1>4, <2>1, <2>2, SendOutcome, DeliveredSeen
<1>5. ASSUME NEW p \in Pids, HUnregister(p) PROVE TapInv'
  <2>1. /\ UNCHANGED <<taps, next_tap, since>>
    BY <1>5 DEF HUnregister, UnregisterProcess
  <2>2. DOMAIN log' = DOMAIN log /\ SameMessages /\ Len(log') = Len(log)
    BY <1>5, UnregisterLog
  <2> QED  BY <1>2, <2>1, <2>2
<1>6. ASSUME NEW p \in Pids, HReceive(p) PROVE TapInv'
  BY <1>3, <1>6 DEF HReceive, Receive
<1>7. CASE HClear
  <2>1. /\ taps' = [s \in 1 .. MaxMonitors |-> None] /\ next_tap' = 1 /\ log' = << >>
        /\ since' = [s \in 1 .. MaxMonitors |-> 0]
    BY <1>7 DEF HClear, Clear
  <2> QED  BY <2>1 DEF TapInv, SlotSound
<1>8. CASE (InitArena \/ \E p \in Pids \cup {0} : RegisterProcess(p)) /\ UNCHANGED <<log, gone, since>>
  BY <1>3, <1>8 DEF InitArena, RegisterProcess
<1>9. CASE UNCHANGED hvars
  BY <1>3, <1>9 DEF hvars, vars
<1> QED  BY <1>4, <1>5, <1>6, <1>7, <1>8, <1>9, MonitorKeeps DEF HNext

(* The taps at the start. *)
LEMMA TapStart == HInit => TapInv
BY DEF HInit, Init, TapInv, SlotSound

(* What the three invariants say together. *)
LEMMA FaithfulParts == BusInv /\ QueueInv /\ TapInv => BusFaithful
<1> SUFFICES ASSUME BusInv, QueueInv, TapInv PROVE BusFaithful
  OBVIOUS
<1>1. TypeOK
  <2>1. \A s \in DOMAIN taps : taps[s] # None =>
          Len(taps[s].buffer) <= MonitorBuffer /\ taps[s].id < next_tap
    BY DEF TapInv, SlotSound
  <2>2. cursor \in 0 .. ArenaCapacity /\ \A f \in DOMAIN counts : counts[f] \in Nat
    BY DEF BusInv, BusTypes
  <2> QED  BY <2>1, <2>2 DEF TypeOK, QueueInv
<1>2. Conservation
  BY <1>1 DEF Conservation, QueueInv
<1>3. TapsFollowLog
  BY DEF TapsFollowLog, TapInv, SlotSound
<1> QED  BY <1>2, <1>3 DEF BusFaithful, QueueInv, BusInv

(* No accepted message is lost, duplicated or reordered on its way through *)
(* an inbox, every call is counted and audited once, and a tap holds the   *)
(* last messages that passed it, for every number of processes, taps and   *)
(* places, whoever registers, unregisters or drains in between.            *)
THEOREM BusFaithfulEver == HSpec => []BusFaithful
<1>1. HInit => BusInv /\ QueueInv /\ TapInv
  BY BusStart, QueueStart, TapStart
<1>2. (BusInv /\ QueueInv /\ TapInv) /\ [HNext]_hvars => (BusInv /\ QueueInv /\ TapInv)'
  BY BusStep, QueueStep, TapStep
<1> QED  BY <1>1, <1>2, FaithfulParts, PTL DEF HSpec

-----------------------------------------------------------------------------
(* The audit log *)

Hashes == Seq(Nat \X Events)
EntryType == [sequence: Nat, event: Events, prev_hash: Hashes, hash: Hashes]

(* An entry as AppendEvent writes it: its hash is one longer than the one  *)
(* before it, which tells entries apart.                                   *)
Entered(entry, n) ==
  /\ entry \in EntryType /\ entry.sequence = n /\ Len(entry.prev_hash) = n
  /\ HashRight(entry)

(* The ring as verify_chain visits it. *)
RingInv ==
  /\ entries \in [RingSlots -> EntryType \cup {NoEntry}]
  /\ write_pos \in RingSlots /\ total_count \in Nat /\ prev_hash \in Hashes /\ Len(prev_hash) = total_count
  /\ total_count < Capacity => write_pos = total_count
  /\ total_count = Capacity => write_pos = 0
  /\ \A i \in RingSlots : total_count <= i => entries[i] = NoEntry
  /\ \A k \in Rounds : Entered(entries[Visited(k)], total_count - RingCount + k)
  /\ \A k \in Rounds : k > 0 => entries[Visited(k)].prev_hash = entries[Visited(k - 1)].hash
  /\ total_count > 0 => prev_hash = entries[Visited(RingCount - 1)].hash

(* Once around. *)
LEMMA WrapOnce ==
  ASSUME NEW n \in Nat \ {0}, NEW x \in Nat, x < 2 * n
  PROVE  x % n = IF x < n THEN x ELSE x - n
<1>1. ASSUME x < n PROVE x % n = x
  BY <1>1
<1>2. ASSUME n <= x PROVE x % n = x - n
  BY <1>2
<1> QED  BY <1>1, <1>2

(* A hash determines what was hashed. *)
LEMMA HashTells ==
  ASSUME NEW n \in Nat, NEW e \in Events, NEW p \in Hashes
  PROVE  /\ HashOf(n, e, p) \in Hashes /\ Len(HashOf(n, e, p)) = Len(p) + 1
         /\ \A m, d : HashOf(m, d, p) = HashOf(n, e, p) => d = e
<1>1. <<n, e>> \in Nat \X Events
  OBVIOUS
<1>2. p \in Seq(Nat \X Events)
  BY DEF Hashes
<1>3. Append(p, <<n, e>>) \in Seq(Nat \X Events) /\ Len(Append(p, <<n, e>>)) = Len(p) + 1
  BY <1>1, <1>2
<1>4. ASSUME NEW m, NEW d, Append(p, <<m, d>>) = Append(p, <<n, e>>) PROVE d = e
  <2>1. Append(p, <<m, d>>)[Len(p) + 1] = <<m, d>> /\ Append(p, <<n, e>>)[Len(p) + 1] = <<n, e>>
    BY <1>2
  <2>2. <<m, d>> = <<n, e>>
    BY <1>4, <2>1
  <2> QED  BY <2>2
<1> QED  BY <1>3, <1>4 DEF HashOf, Hashes

LEMMA EnteredIs ==
  ASSUME NEW n \in Nat, NEW entry, Entered(entry, n)
  PROVE  /\ entry # NoEntry /\ entry.prev_hash \in Hashes /\ Len(entry.hash) = n + 1 /\ entry.event \in Events
         /\ \A d \in Events : HashOf(n, d, entry.prev_hash) = entry.hash => d = entry.event
<1>1. entry \in EntryType /\ entry.sequence = n /\ entry.hash = HashOf(n, entry.event, entry.prev_hash)
      /\ Len(entry.prev_hash) = n
  BY DEF Entered, HashRight
<1>2. entry.event \in Events /\ entry.prev_hash \in Hashes
  BY <1>1 DEF EntryType
<1>3. entry # NoEntry
  <2>1. "sequence" \in DOMAIN entry
    BY <1>1 DEF EntryType
  <2>2. "sequence" \notin DOMAIN NoEntry
    BY DEF NoEntry
  <2> QED  BY <2>1, <2>2
<1>4. Len(entry.hash) = n + 1 /\ \A d \in Events : HashOf(n, d, entry.prev_hash) = entry.hash => d = entry.event
  BY <1>1, <1>2, HashTells, SMTT(30)
<1> QED  BY <1>2, <1>3, <1>4

(* The slots that are visited. *)
LEMMA VisitedIs ==
  ASSUME RingInv
  PROVE  /\ RingCount \in Nat /\ RingCount <= Capacity /\ RingCount <= total_count /\ Start \in RingSlots
         /\ \A k \in Rounds : /\ Visited(k) \in RingSlots
                              /\ Visited(k) = IF Start + k < Capacity THEN Start + k ELSE Start + k - Capacity
         /\ \A i \in RingSlots : entries[i] # NoEntry => \E k \in Rounds : Visited(k) = i
<1>1. PICK n \in Nat \ {0} : n = Capacity /\ RingSlots = 0 .. n - 1
  BY RingAssumption DEF RingSlots
<1>2. PICK t \in Nat, w \in 0 .. n - 1 : t = total_count /\ w = write_pos
  BY <1>1 DEF RingInv
<1>3. PICK c \in Nat, s \in 0 .. n - 1 : /\ c = RingCount /\ s = Start /\ c <= n /\ c <= t
                                         /\ t <= n => c = t /\ s = 0
                                         /\ t > n => c = n /\ s = w
  <2>1. CASE t <= n
    BY <1>1, <1>2, <2>1 DEF RingCount, Start
  <2>2. CASE t > n
    BY <1>1, <1>2, <2>2 DEF RingCount, Start
  <2> QED  BY <2>1, <2>2
<1>4. Rounds = 0 .. c - 1
  BY <1>3 DEF Rounds
<1>5. ASSUME NEW k \in 0 .. c - 1 PROVE Visited(k) = IF s + k < n THEN s + k ELSE s + k - n
  <2>1. PICK x \in Nat : x = s + k /\ x < 2 * n
    BY <1>3
  <2>2. x % n = IF x < n THEN x ELSE x - n
    BY <2>1, WrapOnce
  <2> QED  BY <1>1, <1>3, <2>1, <2>2 DEF Visited
<1>6. ASSUME NEW k \in 0 .. c - 1 PROVE Visited(k) \in 0 .. n - 1
  BY <1>3, <1>5
<1>7. ASSUME NEW i \in 0 .. n - 1, entries[i] # NoEntry PROVE \E k \in 0 .. c - 1 : Visited(k) = i
  <2>1. i < t
    BY <1>1, <1>2, <1>7 DEF RingInv
  <2>2. CASE t <= n
    <3>1. i \in 0 .. c - 1 /\ (IF s + i < n THEN s + i ELSE s + i - n) = i
      BY <1>3, <2>1, <2>2
    <3> QED  BY <1>5, <3>1
  <2>3. CASE t > n /\ i >= s
    <3>1. i - s \in 0 .. c - 1 /\ (IF s + (i - s) < n THEN s + (i - s) ELSE s + (i - s) - n) = i
      BY <1>3, <2>3
    <3> QED  BY <1>5, <3>1
  <2>4. CASE t > n /\ i < s
    <3>1. i - s + n \in 0 .. c - 1 /\ (IF s + (i - s + n) < n THEN s + (i - s + n) ELSE s + (i - s + n) - n) = i
      BY <1>3, <2>4
    <3> QED  BY <1>5, <3>1
  <2> QED  BY <1>3, <2>2, <2>3, <2>4
<1> QED  BY <1>1, <1>2, <1>3, <1>4, <1>5, <1>6, <1>7

(* The new entry follows the last one; a full ring loses its oldest. *)
LEMMA AppendKeeps ==
  ASSUME RingInv, NEW e \in Events, AppendEvent(e)
  PROVE  RingInv'
<1>1. PICK n \in Nat \ {0} : n = Capacity /\ RingSlots = 0 .. n - 1
  BY RingAssumption DEF RingSlots
<1>2. PICK t \in Nat, w \in 0 .. n - 1, p \in Hashes : t = total_count /\ w = write_pos /\ p = prev_hash /\ Len(p) = t
  BY <1>1 DEF RingInv
<1>3. PICK new : /\ new = [sequence |-> t, event |-> e, prev_hash |-> p, hash |-> HashOf(t, e, p)]
                 /\ entries' = [entries EXCEPT ![w] = new] /\ prev_hash' = new.hash
                 /\ write_pos' = (w + 1) % n /\ total_count' = t + 1
  BY <1>1, <1>2 DEF AppendEvent
<1>4. HashOf(t, e, p) \in Hashes /\ Len(HashOf(t, e, p)) = t + 1
  BY <1>2, HashTells
<1>5. /\ Entered(new, t) /\ new \in EntryType /\ new.prev_hash = p /\ new.hash \in Hashes /\ Len(new.hash) = t + 1
  <2>1. new \in EntryType
    BY <1>3, <1>4 DEF EntryType
  <2>2. new.sequence = t /\ new.event = e /\ new.prev_hash = p /\ new.hash = HashOf(t, e, p)
    BY <1>3
  <2> QED  BY <1>2, <1>4, <2>1, <2>2 DEF Entered, HashRight
<1>6. /\ entries \in [RingSlots -> EntryType \cup {NoEntry}] /\ entries' \in [RingSlots -> EntryType \cup {NoEntry}]
      /\ entries'[w] = new /\ \A i \in RingSlots : i # w => entries'[i] = entries[i]
  <2>1. entries \in [RingSlots -> EntryType \cup {NoEntry}] /\ w \in RingSlots
    BY <1>1 DEF RingInv
  <2> QED  BY <1>3, <1>5, <2>1
<1>7. PICK v \in 0 .. n - 1 : v = write_pos' /\ v = IF w + 1 < n THEN w + 1 ELSE 0
  <2>1. PICK x \in Nat : x = w + 1 /\ x < 2 * n /\ x <= n
    BY <1>2
  <2>2. x % n = IF x < n THEN x ELSE x - n
    BY <2>1, WrapOnce
  <2> QED  BY <1>2, <1>3, <2>1, <2>2
<1>8. CASE t < n
  <2>1. w = t
    BY <1>1, <1>2, <1>8 DEF RingInv
  <2>2. RingCount = t /\ Start = 0 /\ Rounds = 0 .. t - 1
    BY <1>1, <1>2, <1>8 DEF RingCount, Start, Rounds
  <2>3. RingCount' = t + 1 /\ Start' = 0 /\ Rounds' = 0 .. t
    BY <1>1, <1>3, <1>8 DEF RingCount, Start, Rounds
  <2>4. ASSUME NEW k \in 0 .. n - 1 PROVE (0 + k) % n = k
    BY <1>1
  <2>5. \A k \in 0 .. t - 1 : Visited(k) = k
    BY <1>1, <1>8, <2>2, <2>4 DEF Visited
  <2>6. \A k \in 0 .. t : Visited(k)' = k
    BY <1>1, <1>8, <2>3, <2>4 DEF Visited
  <2>7. \A k \in 0 .. t - 1 : entries'[k] = entries[k] /\ Entered(entries[k], k)
    <3>1. ASSUME NEW k \in 0 .. t - 1 PROVE k \in RingSlots /\ k # w /\ t - t + k = k
      BY <1>1, <1>8, <2>1
    <3>2. ASSUME NEW k \in 0 .. t - 1 PROVE Entered(entries[Visited(k)], t - t + k)
      BY <1>2, <2>2 DEF RingInv
    <3> QED  BY <1>6, <2>5, <3>1, <3>2
  <2>8. ASSUME NEW k \in 0 .. t PROVE Entered(entries'[k], (t + 1) - (t + 1) + k)
    <3>1. (t + 1) - (t + 1) + k = k
      OBVIOUS
    <3>2. CASE k = t
      BY <1>5, <1>6, <2>1, <3>1, <3>2
    <3>3. CASE k # t
      <4>1. k \in 0 .. t - 1
        BY <3>3
      <4> QED  BY <2>7, <3>1, <4>1
    <3> QED  BY <3>2, <3>3
  <2>9. ASSUME NEW k \in 0 .. t, k > 0 PROVE entries'[k].prev_hash = entries'[k - 1].hash
    <3>1. CASE k = t
      <4>1. t - 1 \in 0 .. t - 1
        BY <2>9, <3>1
      <4>2. p = entries[t - 1].hash
        BY <1>2, <2>2, <2>5, <2>9, <3>1, <4>1 DEF RingInv
      <4> QED  BY <1>5, <1>6, <2>1, <2>7, <3>1, <4>1, <4>2
    <3>2. CASE k # t
      <4>1. k \in 0 .. t - 1 /\ k - 1 \in 0 .. t - 1
        BY <2>9, <3>2
      <4>2. entries[k].prev_hash = entries[k - 1].hash
        BY <2>2, <2>5, <2>9, <4>1 DEF RingInv
      <4> QED  BY <2>7, <4>1, <4>2
    <3> QED  BY <3>1, <3>2
  <2>10. ASSUME NEW i \in RingSlots, t + 1 <= i PROVE entries'[i] = NoEntry
    <3>1. i # w /\ t <= i
      BY <1>1, <2>1, <2>10
    <3> QED  BY <1>2, <1>6, <3>1 DEF RingInv
  <2>11. t \in 0 .. t /\ (t + 1) - 1 = t
    OBVIOUS
  <2>12. \A k \in Rounds' : Entered(entries'[Visited(k)'], total_count' - RingCount' + k)
    BY <1>3, <2>3, <2>6, <2>8
  <2>13. \A k \in Rounds' : k > 0 => entries'[Visited(k)'].prev_hash = entries'[Visited(k - 1)'].hash
    <3>1. \A k \in 0 .. t : k > 0 => k - 1 \in 0 .. t
      OBVIOUS
    <3> QED  BY <2>3, <2>6, <2>9, <3>1
  <2>14. prev_hash' = entries'[Visited(RingCount - 1)'].hash
    <3>1. Visited(RingCount - 1)' = t
      <4>1. Visited(RingCount - 1)' = (0 + ((t + 1) - 1)) % n
        BY <1>1, <2>3 DEF Visited
      <4> QED  BY <1>8, <2>4, <2>11, <4>1
    <3> QED  BY <1>3, <1>6, <2>1, <3>1
  <2>15. total_count' < Capacity => write_pos' = total_count'
    BY <1>1, <1>3, <1>7, <2>1
  <2>16. total_count' = Capacity => write_pos' = 0
    BY <1>1, <1>3, <1>7, <2>1
  <2> QED  BY <1>1, <1>3, <1>5, <1>6, <1>7, <2>10, <2>12, <2>13, <2>14, <2>15, <2>16 DEF RingInv
<1>9. CASE t >= n
  <2>1. RingCount = n /\ Start = w /\ Rounds = 0 .. n - 1
    BY <1>1, <1>2, <1>9 DEF RingCount, Start, Rounds, RingInv
  <2>2. RingCount' = n /\ Start' = v /\ Rounds' = 0 .. n - 1
    BY <1>1, <1>3, <1>7, <1>9 DEF RingCount, Start, Rounds
  <2>3. ASSUME NEW s \in 0 .. n - 1, NEW k \in 0 .. n - 1
        PROVE  (s + k) % n = IF s + k < n THEN s + k ELSE s + k - n
    <3>1. PICK x \in Nat : x = s + k /\ x < 2 * n
      OBVIOUS
    <3>2. x % n = IF x < n THEN x ELSE x - n
      BY <3>1, WrapOnce
    <3> QED  BY <3>1, <3>2
  <2>4. \A k \in 0 .. n - 1 : Visited(k) = IF w + k < n THEN w + k ELSE w + k - n
    BY <1>1, <2>1, <2>3 DEF Visited
  <2>5. \A k \in 0 .. n - 1 : Visited(k)' = IF v + k < n THEN v + k ELSE v + k - n
    BY <1>1, <2>2, <2>3 DEF Visited
  <2>6. n - 1 \in 0 .. n - 1 /\ Visited(n - 1)' = w
    BY <1>7, <2>5
  <2>7. ASSUME NEW k \in 0 .. n - 2
        PROVE  /\ k \in 0 .. n - 1 /\ k + 1 \in 0 .. n - 1 /\ Visited(k)' = Visited(k + 1) /\ Visited(k + 1) # w
               /\ Visited(k + 1) \in RingSlots
    <3>1. k \in 0 .. n - 1 /\ k + 1 \in 0 .. n - 1
      OBVIOUS
    <3>2. /\ Visited(k + 1) = IF w + (k + 1) < n THEN w + (k + 1) ELSE w + (k + 1) - n
          /\ Visited(k)' = IF v + k < n THEN v + k ELSE v + k - n
      BY <2>4, <2>5, <3>1
    <3> QED  BY <1>1, <1>7, <3>1, <3>2
  <2>8. \A k \in 0 .. n - 2 : entries'[Visited(k)'] = entries[Visited(k + 1)]
    BY <1>6, <2>7
  <2>9. \A k \in 0 .. n - 1 : k = n - 1 \/ k \in 0 .. n - 2
    OBVIOUS
  <2>10. ASSUME NEW k \in 0 .. n - 1 PROVE Entered(entries'[Visited(k)'], (t + 1) - n + k)
    <3>1. CASE k = n - 1
      <4>1. (t + 1) - n + k = t
        BY <3>1
      <4> QED  BY <1>5, <1>6, <2>6, <3>1, <4>1
    <3>2. CASE k \in 0 .. n - 2
      <4>1. (t + 1) - n + k = t - n + (k + 1)
        OBVIOUS
      <4>2. Entered(entries[Visited(k + 1)], t - n + (k + 1))
        BY <1>2, <2>1, <2>7, <3>2 DEF RingInv
      <4> QED  BY <2>8, <3>2, <4>1, <4>2
    <3> QED  BY <2>9, <3>1, <3>2
  <2>11. ASSUME NEW k \in 0 .. n - 1, k > 0 PROVE entries'[Visited(k)'].prev_hash = entries'[Visited(k - 1)'].hash
    <3>1. k - 1 \in 0 .. n - 2 /\ (k - 1) + 1 = k
      BY <2>11
    <3>2. entries'[Visited(k - 1)'] = entries[Visited(k)]
      BY <2>8, <3>1
    <3>3. CASE k = n - 1
      <4>1. p = entries[Visited(k)].hash
        BY <1>1, <1>2, <1>9, <2>1, <3>3 DEF RingInv
      <4> QED  BY <1>5, <1>6, <2>6, <3>2, <3>3, <4>1
    <3>4. CASE k \in 0 .. n - 2
      <4>1. k + 1 \in 0 .. n - 1 /\ k + 1 > 0 /\ (k + 1) - 1 = k
        BY <3>4
      <4>2. entries[Visited(k + 1)].prev_hash = entries[Visited((k + 1) - 1)].hash
        BY <2>1, <4>1 DEF RingInv
      <4> QED  BY <2>8, <3>2, <3>4, <4>1, <4>2
    <3> QED  BY <2>9, <3>3, <3>4
  <2>12. \A k \in Rounds' : Entered(entries'[Visited(k)'], total_count' - RingCount' + k)
    BY <1>3, <2>2, <2>10
  <2>13. \A k \in Rounds' : k > 0 => entries'[Visited(k)'].prev_hash = entries'[Visited(k - 1)'].hash
    BY <2>2, <2>11
  <2>14. prev_hash' = entries'[Visited(RingCount - 1)'].hash
    <3>1. Visited(RingCount - 1)' = Visited(n - 1)'
      BY <2>2 DEF Visited
    <3> QED  BY <1>3, <1>6, <2>6, <3>1
  <2>15. ~(total_count' < Capacity) /\ ~(total_count' = Capacity)
    BY <1>1, <1>3, <1>9
  <2>16. \A i \in RingSlots : ~(total_count' <= i)
    BY <1>1, <1>3, <1>9
  <2> QED  BY <1>1, <1>3, <1>5, <1>6, <1>7, <2>12, <2>13, <2>14, <2>15, <2>16 DEF RingInv
<1> QED  BY <1>2, <1>8, <1>9

(* The empty ring. *)
LEMMA EmptyRing ==
  ASSUME total_count = 0, write_pos = 0, entries = [i \in RingSlots |-> NoEntry], prev_hash = << >>
  PROVE  RingInv
<1>1. PICK n \in Nat \ {0} : n = Capacity /\ RingSlots = 0 .. n - 1
  BY RingAssumption DEF RingSlots
<1>2. << >> \in Hashes /\ Len(<< >>) = 0 /\ 0 \in RingSlots
  BY <1>1 DEF Hashes
<1>3. RingCount = 0 /\ Rounds = {}
  BY <1>1 DEF RingCount, Rounds
<1> QED  BY <1>1, <1>2, <1>3 DEF RingInv

LEMMA RingStart == AuditInit => RingInv
<1> SUFFICES ASSUME AuditInit PROVE RingInv
  OBVIOUS
<1> QED  BY EmptyRing DEF AuditInit

LEMMA RingStep == RingInv /\ [AuditNext]_auditVars => RingInv'
<1> SUFFICES ASSUME RingInv, [AuditNext]_auditVars PROVE RingInv'
  OBVIOUS
<1>1. CASE UNCHANGED auditVars
  BY <1>1 DEF auditVars, RingInv, Rounds, Visited, Start, RingCount
<1>2. CASE ClearLog
  <2>1. PICK n \in Nat \ {0} : n = Capacity /\ RingSlots = 0 .. n - 1
    BY RingAssumption DEF RingSlots
  <2>2. total_count' = 0 /\ write_pos' = 0 /\ entries' = [i \in RingSlots |-> NoEntry] /\ prev_hash' = << >>
    BY <1>2 DEF ClearLog
  <2>3. << >> \in Hashes /\ Len(<< >>) = 0 /\ 0 \in RingSlots
    BY <2>1 DEF Hashes
  <2>4. RingCount' = 0 /\ Rounds' = {}
    BY <2>1, <2>2 DEF RingCount, Rounds
  <2> QED  BY <2>1, <2>2, <2>3, <2>4 DEF RingInv
<1>3. ASSUME NEW e \in Events, AppendEvent(e) PROVE RingInv'
  BY <1>3, AppendKeeps
<1> QED  BY <1>1, <1>2, <1>3 DEF AuditNext

(* Any damage breaks a link of the chain or the hash of an entry. *)
LEMMA RingSays == RingInv => TamperingShows
<1> SUFFICES ASSUME RingInv PROVE TamperingShows
  OBVIOUS
<1>1. PICK n \in Nat \ {0} : n = Capacity /\ RingSlots = 0 .. n - 1
  BY RingAssumption DEF RingSlots
<1>2. PICK c \in Nat, t \in Nat : c = RingCount /\ t = total_count /\ c <= t /\ c <= n /\ Rounds = 0 .. c - 1
  BY <1>1, VisitedIs DEF RingInv, Rounds
<1>3. \A i \in RingSlots : entries[i] # NoEntry => \E k \in Rounds : Visited(k) = i
  BY VisitedIs
<1>4. \A k \in Rounds : Visited(k) \in RingSlots
  BY VisitedIs
<1>5. ASSUME NEW k \in Rounds, NEW l \in Rounds, k # l PROVE Visited(k) # Visited(l)
  <2>1. PICK s \in 0 .. n - 1 : s = Start
    BY <1>1, VisitedIs
  <2>2. /\ Visited(k) = IF s + k < n THEN s + k ELSE s + k - n
        /\ Visited(l) = IF s + l < n THEN s + l ELSE s + l - n
    BY <1>1, <2>1, VisitedIs
  <2> QED  BY <1>2, <1>5, <2>1, <2>2
<1>6. ASSUME NEW k \in Rounds
      PROVE  /\ t - c + k \in Nat /\ Entered(entries[Visited(k)], t - c + k) /\ entries[Visited(k)] # NoEntry
             /\ Len(entries[Visited(k)].hash) = t - c + k + 1 /\ Len(entries[Visited(k)].prev_hash) = t - c + k
             /\ entries[Visited(k)].sequence = t - c + k
  <2>1. PICK m \in Nat : m = t - c + k
    BY <1>2
  <2>2. Entered(entries[Visited(k)], m)
    BY <1>2, <2>1 DEF RingInv
  <2>3. entries[Visited(k)] # NoEntry /\ Len(entries[Visited(k)].hash) = m + 1
    BY <2>2, EnteredIs
  <2> QED  BY <2>1, <2>2, <2>3 DEF Entered
<1>7. VerifyChain(entries)
  <2>1. ASSUME NEW i \in Rounds PROVE HashRight(entries[Visited(i)])
    BY <1>6 DEF Entered
  <2>2. ASSUME NEW i \in Rounds, NEW j \in Rounds, i < j,
               \A k \in Rounds : i < k /\ k < j => entries[Visited(k)] = NoEntry
        PROVE  entries[Visited(j)].prev_hash = entries[Visited(i)].hash
    <3>1. j - 1 \in Rounds /\ j > 0
      BY <1>2, <2>2
    <3>2. ~(i < j - 1 /\ j - 1 < j)
      BY <1>6, <2>2, <3>1
    <3>3. i = j - 1
      BY <1>2, <2>2, <3>2
    <3> QED  BY <3>1, <3>3 DEF RingInv
  <2> QED  BY <2>1, <2>2 DEF VerifyChain
<1>8. ASSUME NEW i \in RingSlots, entries[i] # NoEntry, NEW e \in Events \ {entries[i].event},
             VerifyChain([entries EXCEPT ![i].event = e])
      PROVE  FALSE
  <2>1. PICK k \in Rounds : Visited(k) = i
    BY <1>3, <1>8
  <2>2. PICK m, old : m \in Nat /\ m = t - c + k /\ old = entries[i] /\ Entered(old, m)
    BY <1>6, <2>1
  <2>3. PICK ring : ring = [entries EXCEPT ![i].event = e]
    OBVIOUS
  <2>4. ring[i] = [old EXCEPT !.event = e]
    BY <2>2, <2>3 DEF RingInv
  <2>5. old \in EntryType /\ old.sequence = m
    BY <2>2 DEF Entered
  <2>6. ring[i] \in EntryType /\ ring[i].sequence = m /\ ring[i].event = e /\ ring[i].prev_hash = old.prev_hash /\ ring[i].hash = old.hash
    BY <2>4, <2>5 DEF EntryType
  <2>7. ring[i] # NoEntry
    <3>1. "sequence" \in DOMAIN ring[i]
      BY <2>6 DEF EntryType
    <3>2. "sequence" \notin DOMAIN NoEntry
      BY DEF NoEntry
    <3> QED  BY <3>1, <3>2
  <2>8. HashRight(ring[i])
    BY <1>8, <2>1, <2>3, <2>7 DEF VerifyChain
  <2>9. HashOf(m, e, old.prev_hash) = old.hash
    BY <2>6, <2>8 DEF HashRight
  <2>10. e = old.event
    BY <2>2, <2>9, EnteredIs
  <2> QED  BY <2>2, <2>10
<1>9. ASSUME NEW i \in RingSlots, entries[i] # NoEntry, NEW j \in RingSlots \ {i}, entries[j] # NoEntry,
             VerifyChain([entries EXCEPT ![i] = entries[j]])
      PROVE  FALSE
  <2>1. PICK k \in Rounds, l \in Rounds : Visited(k) = i /\ Visited(l) = j
    BY <1>3, <1>9
  <2>2. k # l
    BY <2>1
  <2>3. PICK ring : ring = [entries EXCEPT ![i] = entries[j]]
    OBVIOUS
  <2>4. ring[i] = entries[j] /\ \A r \in Rounds : r # k => ring[Visited(r)] = entries[Visited(r)]
    BY <1>4, <1>5, <2>1, <2>3 DEF RingInv
  <2>5. ASSUME NEW a \in Rounds, NEW b \in Rounds, b = a + 1
        PROVE  ring[Visited(b)].prev_hash = ring[Visited(a)].hash
    <3>1. ring[Visited(a)] # NoEntry /\ ring[Visited(b)] # NoEntry
      BY <1>6, <1>9, <2>1, <2>4
    <3>2. a < b /\ \A r \in Rounds : ~(a < r /\ r < b)
      BY <1>2, <2>5
    <3> QED  BY <1>9, <2>3, <3>1, <3>2 DEF VerifyChain
  <2>6. CASE k > 0
    <3>1. k - 1 \in Rounds /\ k = (k - 1) + 1 /\ k - 1 # k
      BY <1>2, <2>6
    <3>2. entries[j].prev_hash = entries[Visited(k - 1)].hash
      BY <2>1, <2>4, <2>5, <3>1
    <3>3. Len(entries[j].prev_hash) = t - c + l /\ Len(entries[Visited(k - 1)].hash) = t - c + (k - 1) + 1
      BY <1>6, <2>1, <3>1
    <3> QED  BY <1>2, <2>2, <3>2, <3>3
  <2>7. CASE k = 0
    <3>1. 1 \in Rounds /\ 1 = k + 1
      BY <1>2, <2>2, <2>7
    <3>2. entries[Visited(1)].prev_hash = entries[j].hash
      BY <2>1, <2>4, <2>5, <2>7, <3>1
    <3>3. Len(entries[Visited(1)].prev_hash) = t - c + 1 /\ Len(entries[j].hash) = t - c + l + 1
      BY <1>6, <2>1, <3>1
    <3> QED  BY <1>2, <2>2, <2>7, <3>2, <3>3
  <2> QED  BY <1>2, <2>6, <2>7
<1>10. ASSUME NEW i \in RingSlots, entries[i] # NoEntry, entries[i].sequence > t - c, entries[i].sequence < t - 1,
              VerifyChain([entries EXCEPT ![i] = NoEntry])
       PROVE  FALSE
  <2>1. PICK k \in Rounds : Visited(k) = i
    BY <1>3, <1>10
  <2>2. entries[i].sequence = t - c + k
    BY <1>6, <2>1
  <2>3. k - 1 \in Rounds /\ k + 1 \in Rounds
    BY <1>2, <1>10, <2>2
  <2>4. PICK ring : ring = [entries EXCEPT ![i] = NoEntry]
    OBVIOUS
  <2>5. ring[i] = NoEntry /\ \A r \in Rounds : r # k => ring[Visited(r)] = entries[Visited(r)]
    BY <1>4, <1>5, <2>1, <2>4 DEF RingInv
  <2>6. k - 1 # k /\ k + 1 # k /\ k - 1 < k + 1 /\ \A r \in Rounds : k - 1 < r /\ r < k + 1 => r = k
    BY <1>2
  <2>7. ring[Visited(k - 1)] = entries[Visited(k - 1)] /\ ring[Visited(k + 1)] = entries[Visited(k + 1)]
    BY <2>3, <2>5, <2>6
  <2>8. ring[Visited(k + 1)].prev_hash = ring[Visited(k - 1)].hash
    <3>1. ring[Visited(k - 1)] # NoEntry /\ ring[Visited(k + 1)] # NoEntry
      BY <1>6, <2>3, <2>7
    <3>2. \A r \in Rounds : k - 1 < r /\ r < k + 1 => ring[Visited(r)] = NoEntry
      BY <2>1, <2>5, <2>6
    <3> QED  BY <1>10, <2>3, <2>4, <2>6, <3>1, <3>2 DEF VerifyChain
  <2>9. Len(entries[Visited(k + 1)].prev_hash) = t - c + (k + 1) /\ Len(entries[Visited(k - 1)].hash) = t - c + (k - 1) + 1
    BY <1>6, <2>3
  <2> QED  BY <1>2, <2>7, <2>8, <2>9
<1> QED  BY <1>2, <1>7, <1>8, <1>9, <1>10 DEF TamperingShows

(* However often the ring has wrapped around or was cleared, for every     *)
(* capacity and set of events, the chain verifies and no entry can be      *)
(* changed, moved over another, or erased between two others unnoticed.    *)
THEOREM TamperingShowsEver == AuditSpec => []TamperingShows
BY RingStart, RingStep, RingSays, PTL DEF AuditSpec

-----------------------------------------------------------------------------
(* The file system *)

(* What the variables hold. *)
Item == [name: Seq(STRING), is_directory: BOOLEAN, data: Seq(Nat)]
Dirent == [name: Seq(STRING) \cup {<<"dev">>}, inode_id: Nat]
FdValue == [sock: BOOLEAN, id: OpenIds \cup SocketIds \cup {0}]
Handle == [value: FdValue, active: BOOLEAN, generation: Nat]
OpenFile == [inode_id: {ResolvePath(path) : path \in Paths} \cup {Null, Serial}, offset: Nat,
             flags: FlagSets \cup {{}, {"READ"}, {"WRITE"}}, active: BOOLEAN]
Reading == [op: {"read"}, id: OpenIds, inode: Inodes, offset: Nat, len: Nat]
Writing == [op: {"write"}, id: OpenIds, inode: Inodes, data: Seq(Nat), offset: Nat]
Updating == [op: {"update"}, id: OpenIds, inode: Inodes, written: Nat, new_size: Nat]

FilesTyped ==
  /\ life \in [Procs -> {"new", "live", "exited"}]
  /\ handles \in [Procs -> [Slots -> Handle]]
  /\ openfiles \in [OpenIds -> OpenFile]
  /\ files \in [FileInodes -> Seq(Nat)] /\ isize \in [Inodes -> Nat]
  /\ syscall \in [Procs -> Reading \cup Writing \cup Updating \cup {Idle}]
  /\ listing \in [OpenIds -> Seq(Dirent)]
  /\ confused \in BOOLEAN

(* A handle of a file, and its number. *)
IsFile(h) == h.active /\ ~h.value.sock
IsFileOf(h, i) == IsFile(h) /\ h.value.id = i

(* FdsExact, of the handle tables H, the open files O and those left L. *)
Matched(H, O, L) ==
  /\ \A p \in Procs, s \in Slots : IsFile(H[p][s]) => H[p][s].value.id \in OpenIds /\ O[H[p][s].value.id].active
  /\ \A p, q \in Procs, s, t \in Slots :
       IsFile(H[p][s]) /\ IsFile(H[q][t]) /\ H[p][s].value.id = H[q][t].value.id => p = q /\ s = t
  /\ \A i \in OpenIds : O[i].active => i \in L \/ \E p \in Procs, s \in Slots : IsFileOf(H[p][s], i)

(* A call under way works on an open file of its own process, still open on *)
(* the inode that the call found there; only reads go to directories.      *)
InOrderOf(c, h, O) ==
  c # Idle => /\ \E s \in Slots : IsFileOf(h[s], c.id)
              /\ O[c.id].inode_id = c.inode
              /\ c.op # "read" => InodeType(c.inode) # "Directory"
CallsOwn(C, H, O) == \A p \in Procs : InOrderOf(C[p], H[p], O)

(* ListingExact, with offsets that stay within their directory. *)
Listed(o, l) ==
  o.active /\ o.inode_id \in TmpfsDirs =>
    o.offset <= Len(DirEntries(o.inode_id)) /\ l = SubSeq(DirEntries(o.inode_id), 1, o.offset)

(* The size on its way into an inode is at most the length of the file; if *)
(* no two writes overlapped there is one on its way at most, the right one. *)
SizesKept ==
  \A i \in FileInodes :
    /\ isize[i] <= Len(files[i])
    /\ \A p \in Procs : InUpdate(p, i) => syscall[p].new_size <= Len(files[i])
    /\ i \notin raced =>
         /\ \A p, q \in Procs : InUpdate(p, i) /\ InUpdate(q, i) => p = q
         /\ \A p \in Procs : InUpdate(p, i) => syscall[p].new_size = Len(files[i])
         /\ (\A p \in Procs : ~InUpdate(p, i)) => isize[i] = Len(files[i])

NewQuiet ==
  \A p \in Procs : life[p] = "new" => syscall[p] = Idle /\ \A s \in Slots : ~handles[p][s].active

(* The inductive invariant. *)
FilesInv ==
  /\ FilesTyped /\ NewQuiet /\ SizesKept
  /\ ~confused => /\ Matched(handles, openfiles, lost)
                  /\ CallsOwn(syscall, handles, openfiles)
                  /\ \A i \in OpenIds : Listed(openfiles[i], listing[i])

(* What load_initramfs keeps are entries of the archive. *)
LEMMA LoadedType == Loaded \in Seq(Item)
<1> DEFINE n == Len(Archive)
<1>1. n \in Nat /\ \A i \in 1 .. n : Archive[i] \in Item
  <2>1. Archive \in Seq(Item)
    BY FilesAssumption DEF Item
  <2> QED  BY <2>1
<1> DEFINE Keep(f, i) == IF i = 0 THEN << >>
                         ELSE IF Archive[i].name = << >> THEN f[i - 1] ELSE Append(f[i - 1], Archive[i])
           IsKept(f) == f = [i \in 0 .. n |-> Keep(f, i)]
           A == Seq(Item)
           F == [x \in A \X (1 .. n) |-> IF Archive[x[2]].name = << >> THEN x[1] ELSE Append(x[1], Archive[x[2]])]
<1>2. F \in [A \X (1 .. n) -> A]
  <2> SUFFICES ASSUME NEW s \in A, NEW i \in 1 .. n PROVE F[<<s, i>>] \in A
    OBVIOUS
  <2>1. Append(s, Archive[i]) \in A
    BY <1>1, AppendProperties
  <2> QED  BY <2>1
<1>3. << >> \in A
  OBVIOUS
<1> HIDE DEF n, A
<1>4. PICK f : IsRun(f, n, A, << >>, F)
  <2> HIDE DEF F
  <2> QED  BY <1>1, <1>2, <1>3, FiniteRun
<1>5. f \in [0 .. n -> A] /\ f[0] = << >>
  BY <1>4 DEF IsRun
<1>6. ASSUME NEW i \in 1 .. n
      PROVE  f[i] = IF Archive[i].name = << >> THEN f[i - 1] ELSE Append(f[i - 1], Archive[i])
  <2>1. i - 1 \in 0 .. n
    BY <1>1
  <2>2. <<f[i - 1], i>> \in A \X (1 .. n)
    BY <1>5, <2>1
  <2>3. f[i] = F[<<f[i - 1], i>>]
    BY <1>4 DEF IsRun
  <2> QED  BY <2>2, <2>3
<1>7. IsKept(f)
  <2>1. \A i \in 0 .. n : f[i] = Keep(f, i)
    <3> SUFFICES ASSUME NEW i \in 0 .. n PROVE f[i] = Keep(f, i)
      OBVIOUS
    <3>1. CASE i = 0
      BY <1>5, <3>1
    <3>2. CASE i # 0
      <4>1. i \in 1 .. n
        BY <1>1, <3>2
      <4>2. f[i] = IF Archive[i].name = << >> THEN f[i - 1] ELSE Append(f[i - 1], Archive[i])
        BY <1>6, <4>1
      <4> QED  BY <3>2, <4>2
    <3> QED  BY <3>1, <3>2
  <2> HIDE DEF Keep
  <2> QED  BY <1>5, <2>1
<1>8. Loaded = (CHOOSE g : IsKept(g))[n]
  BY DEF Loaded, n
<1>9. PICK g : IsKept(g) /\ Loaded = g[n]
  <2> HIDE DEF IsKept
  <2> QED  BY <1>7, <1>8
<1>10. g[0] = << >> /\ \A i \in 1 .. n : g[i] = IF Archive[i].name = << >> THEN g[i - 1] ELSE Append(g[i - 1], Archive[i])
  <2>1. \A i \in 0 .. n : g[i] = Keep(g, i)
    <3> HIDE DEF Keep
    <3> QED  BY <1>9
  <2> QED  BY <1>1, <2>1
<1>11. \A i \in 1 .. n : g[i - 1] \in A => g[i] \in A
  BY <1>1, <1>10, AppendProperties, ZenonT(40) DEF A
<1>12. \A i \in 0 .. n : g[i] \in A
  BY <1>1, <1>3, <1>10, <1>11, RunStays
<1> QED  BY <1>1, <1>9, <1>12 DEF A

(* The inodes of boot: directories are no files, files have contents. *)
LEMMA BootInodes ==
  /\ \A d \in TmpfsDirs : InodeType(d) = "Directory" /\ d \notin FileInodes \cup {Null, Zero, Random, Serial}
  /\ \A d : DirEntries(d) \in Seq(Dirent)
  /\ \A i \in FileInodes : i \in Inodes /\ BootData(i) \in Seq(Nat)
<1>1. PICK n \in Nat : n = Len(Loaded) /\ DOMAIN Loaded = 1 .. n
  BY LoadedType
<1>2. \A i \in 1 .. n : Loaded[i] \in Item
  BY <1>1, LoadedType
<1>3. ASSUME NEW d \in TmpfsDirs
      PROVE  InodeType(d) = "Directory" /\ d \notin FileInodes \cup {Null, Zero, Random, Serial}
  <2>1. CASE d = Root
    <3>1. InodeType(d) = "Directory"
      BY <2>1 DEF InodeType, Root, DevDir, Null, Zero, Random
    <3>2. d # Null /\ d # Zero /\ d # Random /\ d # Serial
      BY <2>1 DEF Root, Null, Zero, Random, Serial
    <3> QED  BY <3>1, <3>2 DEF FileInodes
  <2>2. CASE d # Root
    <3>1. PICK i \in 1 .. n : Loaded[i].is_directory /\ d = 5 + i
      BY <1>1, <2>2 DEF TmpfsDirs, InodeOf, Random
    <3>2. d - 5 = i /\ d # 1 /\ d # 2 /\ d # 3 /\ d # 4 /\ d # 5 /\ d # 0
      BY <1>1, <3>1
    <3>3. InodeType(d) = "Directory"
      BY <3>1, <3>2 DEF InodeType, Root, DevDir, Null, Zero, Random
    <3> QED  BY <3>2, <3>3 DEF FileInodes, Null, Zero, Random, Serial
  <2> QED  BY <2>1, <2>2
<1>4. ASSUME NEW d PROVE DirEntries(d) \in Seq(Dirent)
  <2> DEFINE a == <<[name |-> <<"dev">>, inode_id |-> DevDir]>>
             b == [i \in DOMAIN Loaded |-> [name |-> Loaded[i].name, inode_id |-> InodeOf(i)]]
  <2>1. a \in Seq(Dirent)
    <3>1. [name |-> <<"dev">>, inode_id |-> DevDir] \in Dirent
      BY DEF Dirent, DevDir
    <3> QED  BY <3>1
  <2>2. \A i \in 1 .. n : [name |-> Loaded[i].name, inode_id |-> InodeOf(i)] \in Dirent
    BY <1>2 DEF Item, Dirent, InodeOf, Random
  <2>3. b \in [1 .. n -> Dirent]
    BY <1>1, <2>2
  <2>4. b \in Seq(Dirent)
    <3> HIDE DEF b
    <3> QED  BY <2>3
  <2>5. << >> \in Seq(Dirent)
    OBVIOUS
  <2>6. DirEntries(d) = IF d # Root THEN << >> ELSE a \o b
    BY DEF DirEntries
  <2> HIDE DEF a, b
  <2>7. a \o b \in Seq(Dirent)
    BY <2>1, <2>4, ConcatProperties
  <2> QED  BY <2>5, <2>6, <2>7
<1>5. ASSUME NEW i \in FileInodes PROVE i \in Inodes /\ BootData(i) \in Seq(Nat)
  <2>1. i \in 1 .. 5 + n /\ InodeType(i) = "File"
    BY <1>1 DEF FileInodes, Inodes, Random
  <2>2. i # 1 /\ i # 2 /\ i # 3 /\ i # 4 /\ i # 5
    BY <2>1 DEF InodeType, Root, DevDir, Null, Zero, Random
  <2>3. i - 5 \in 1 .. n
    BY <2>1, <2>2
  <2>4. Loaded[i - 5].data \in Seq(Nat)
    BY <1>2, <2>3 DEF Item
  <2> QED  BY <2>4 DEF BootData, Random, FileInodes
<1> QED  BY <1>3, <1>4, <1>5

(* The greater and the lesser of two, and the least of some naturals. *)
LEMMA OfTwo ==
  ASSUME NEW x \in Int, NEW y \in Int
  PROVE  /\ Max({x, y}) = IF x >= y THEN x ELSE y
         /\ Min({x, y}) = IF x <= y THEN x ELSE y
BY DEF Max, Min

LEMMA LeastOf ==
  ASSUME NEW T \in SUBSET Nat, T # {}
  PROVE  Min(T) \in T
<1>1. PICK m \in T : \A y \in T : m <= y
  BY LeastNat
<1> QED  BY <1>1 DEF Min

(* Tmpfs::write never shortens a file. *)
LEMMA SpliceGrows ==
  ASSUME NEW old \in Seq(Nat), NEW offset \in Nat, NEW data \in Seq(Nat)
  PROVE  Splice(old, offset, data) \in Seq(Nat) /\ Len(Splice(old, offset, data)) >= Len(old)
<1>1. PICK m \in Nat, k \in Nat : m = Len(old) /\ k = Len(data)
  OBVIOUS
<1>2. PICK n \in Nat : n = Max({m, offset + k}) /\ n >= m /\ n >= offset + k
  BY OfTwo
<1> DEFINE new == [i \in 1 .. n |-> IF i > offset /\ i <= offset + k THEN data[i - offset]
                                    ELSE IF i <= m THEN old[i] ELSE 0]
<1>3. Splice(old, offset, data) = new
  BY <1>1, <1>2 DEF Splice
<1>4. ASSUME NEW i \in 1 .. n PROVE new[i] \in Nat
  <2>1. CASE i > offset /\ i <= offset + k
    <3>1. i - offset \in 1 .. k
      BY <2>1
    <3>2. data[i - offset] \in Nat
      BY <1>1, <3>1
    <3> QED  BY <2>1, <3>2
  <2>2. CASE ~(i > offset /\ i <= offset + k)
    <3>1. i <= m => old[i] \in Nat
      BY <1>1
    <3> QED  BY <2>2, <3>1
  <2> QED  BY <2>1, <2>2
<1>5. new \in [1 .. n -> Nat]
  BY <1>4
<1> HIDE DEF new
<1>6. new \in Seq(Nat) /\ Len(new) = n
  BY <1>5
<1> QED  BY <1>1, <1>2, <1>3, <1>6

(* A listing goes on where it ended. *)
LEMMA ListingGoesOn ==
  ASSUME NEW s \in Seq(Dirent), NEW from \in Nat, NEW to \in Nat, from <= to, to <= Len(s)
  PROVE  SubSeq(s, 1, from) \o SubSeq(s, from + 1, to) = SubSeq(s, 1, to) /\ SubSeq(s, 1, to) \in Seq(Dirent)
<1>1. PICK n \in Nat : n = Len(s)
  OBVIOUS
<1> DEFINE a == SubSeq(s, 1, from)
           b == SubSeq(s, from + 1, to)
           c == SubSeq(s, 1, to)
<1>2. a \in Seq(Dirent) /\ Len(a) = from /\ \A i \in 1 .. from : a[i] = s[i]
  BY <1>1, SubSeqProperties
<1>3. b \in Seq(Dirent) /\ Len(b) = to - from /\ \A i \in 1 .. to - from : b[i] = s[from + i]
  BY <1>1, SubSeqProperties
<1>4. c \in Seq(Dirent) /\ Len(c) = to /\ \A i \in 1 .. to : c[i] = s[i]
  BY <1>1, SubSeqProperties
<1> HIDE DEF a, b, c
<1>5. /\ a \o b \in Seq(Dirent) /\ Len(a \o b) = to
      /\ \A i \in 1 .. to : (a \o b)[i] = IF i <= from THEN a[i] ELSE b[i - from]
  <2>1. /\ a \o b \in Seq(Dirent) /\ Len(a \o b) = Len(a) + Len(b)
        /\ \A i \in 1 .. Len(a) + Len(b) : (a \o b)[i] = IF i <= Len(a) THEN a[i] ELSE b[i - Len(a)]
    <3>1. a \in Seq(Dirent) /\ b \in Seq(Dirent)
      BY <1>2, <1>3
    <3> QED  BY <3>1, ConcatProperties, ZenonT(40)
  <2>2. Len(a) + Len(b) = to
    BY <1>2, <1>3
  <2> QED  BY <1>2, <2>1, <2>2
<1>6. ASSUME NEW i \in 1 .. to PROVE (a \o b)[i] = c[i]
  <2>1. CASE i <= from
    <3>1. i \in 1 .. from /\ (a \o b)[i] = a[i]
      BY <1>5, <2>1
    <3> QED  BY <1>2, <1>4, <3>1
  <2>2. CASE ~(i <= from)
    <3>1. PICK j \in 1 .. to - from : j = i - from /\ from + j = i
      BY <2>2
    <3> QED  BY <1>3, <1>4, <1>5, <2>2, <3>1
  <2> QED  BY <2>1, <2>2
<1>7. a \o b = c
  BY <1>4, <1>5, <1>6, SeqEqual
<1> QED  BY <1>4, <1>7 DEF a, b, c

(* Opening, closing and clearing keep the handles and open files matched. *)
LEMMA MatchedOpened ==
  ASSUME NEW H, NEW O, NEW L, Matched(H, O, L), NEW H2, NEW O2, NEW h,
         NEW p \in Procs, NEW s \in Slots, NEW i \in OpenIds,
         ~IsFile(H[p][s]), ~O[i].active, IsFileOf(h, i),
         \A q \in Procs, t \in Slots : H2[q][t] = IF q = p /\ t = s THEN h ELSE H[q][t],
         \A j \in OpenIds : O2[j].active <=> j = i \/ O[j].active
  PROVE  Matched(H2, O2, L)
<1>1. H2[p][s] = h /\ IsFile(h) /\ h.value.id = i
  BY DEF IsFileOf
<1>2. \A q \in Procs, t \in Slots : ~(q = p /\ t = s) => H2[q][t] = H[q][t]
  OBVIOUS
<1>3. \A q \in Procs, t \in Slots : IsFile(H[q][t]) =>
        ~(q = p /\ t = s) /\ H[q][t].value.id \in OpenIds /\ O[H[q][t].value.id].active /\ H[q][t].value.id # i
  BY DEF Matched
<1>4. \A q \in Procs, t \in Slots : IsFile(H2[q][t]) => H2[q][t].value.id \in OpenIds /\ O2[H2[q][t].value.id].active
  BY <1>1, <1>2, <1>3
<1>5. ASSUME NEW q \in Procs, NEW r \in Procs, NEW t \in Slots, NEW u \in Slots,
             IsFile(H2[q][t]), IsFile(H2[r][u]), H2[q][t].value.id = H2[r][u].value.id
      PROVE  q = r /\ t = u
  <2>1. CASE q = p /\ t = s
    BY <1>1, <1>2, <1>3, <1>5, <2>1
  <2>2. CASE r = p /\ u = s
    BY <1>1, <1>2, <1>3, <1>5, <2>2
  <2>3. CASE ~(q = p /\ t = s) /\ ~(r = p /\ u = s)
    <3>1. H2[q][t] = H[q][t] /\ H2[r][u] = H[r][u]
      BY <1>2, <2>3
    <3> QED  BY <1>5, <3>1 DEF Matched
  <2> QED  BY <2>1, <2>2, <2>3
<1>6. ASSUME NEW j \in OpenIds, O2[j].active
      PROVE  j \in L \/ \E q \in Procs, t \in Slots : IsFileOf(H2[q][t], j)
  <2>1. CASE j = i
    BY <1>1, <2>1 DEF IsFileOf
  <2>2. CASE j # i
    <3>1. O[j].active
      BY <1>6, <2>2
    <3>2. j \in L \/ \E q \in Procs, t \in Slots : IsFileOf(H[q][t], j)
      BY <3>1 DEF Matched
    <3>3. ASSUME NEW q \in Procs, NEW t \in Slots, IsFileOf(H[q][t], j) PROVE IsFileOf(H2[q][t], j)
      <4>1. IsFile(H[q][t])
        BY <3>3 DEF IsFileOf
      <4>2. H2[q][t] = H[q][t]
        BY <1>2, <1>3, <4>1
      <4> QED  BY <3>3, <4>2
    <3> QED  BY <3>2, <3>3
  <2> QED  BY <2>1, <2>2
<1> QED  BY <1>4, <1>5, <1>6 DEF Matched

LEMMA MatchedClosed ==
  ASSUME NEW H, NEW O, NEW L, Matched(H, O, L), NEW H2, NEW O2, NEW h,
         NEW p \in Procs, NEW s \in Slots, NEW i \in OpenIds,
         IsFileOf(H[p][s], i), ~IsFile(h),
         \A q \in Procs, t \in Slots : H2[q][t] = IF q = p /\ t = s THEN h ELSE H[q][t],
         \A j \in OpenIds : O2[j].active <=> j # i /\ O[j].active
  PROVE  Matched(H2, O2, L)
<1>1. ASSUME NEW q \in Procs, NEW t \in Slots, IsFile(H2[q][t])
      PROVE  H2[q][t] = H[q][t] /\ H[q][t].value.id # i
  <2>1. ~(q = p /\ t = s)
    BY <1>1
  <2>2. H2[q][t] = H[q][t]
    BY <2>1
  <2> QED  BY <1>1, <2>1, <2>2 DEF Matched, IsFileOf
<1>2. \A q \in Procs, t \in Slots : IsFile(H2[q][t]) => H2[q][t].value.id \in OpenIds /\ O2[H2[q][t].value.id].active
  BY <1>1 DEF Matched
<1>3. ASSUME NEW q \in Procs, NEW r \in Procs, NEW t \in Slots, NEW u \in Slots,
             IsFile(H2[q][t]), IsFile(H2[r][u]), H2[q][t].value.id = H2[r][u].value.id
      PROVE  q = r /\ t = u
  <2>1. H2[q][t] = H[q][t] /\ H2[r][u] = H[r][u]
    BY <1>1, <1>3
  <2> QED  BY <1>3, <2>1 DEF Matched
<1>4. ASSUME NEW j \in OpenIds, O2[j].active
      PROVE  j \in L \/ \E q \in Procs, t \in Slots : IsFileOf(H2[q][t], j)
  <2>1. j # i /\ O[j].active
    BY <1>4
  <2>2. j \in L \/ \E q \in Procs, t \in Slots : IsFileOf(H[q][t], j)
    BY <2>1 DEF Matched
  <2>3. ASSUME NEW q \in Procs, NEW t \in Slots, IsFileOf(H[q][t], j) PROVE IsFileOf(H2[q][t], j)
    <3>1. ~(q = p /\ t = s)
      BY <2>1, <2>3 DEF IsFileOf
    <3> QED  BY <2>3, <3>1
  <2> QED  BY <2>2, <2>3
<1> QED  BY <1>2, <1>3, <1>4 DEF Matched

LEMMA MatchedCleared ==
  ASSUME NEW H, NEW O, NEW L, Matched(H, O, L), NEW H2, NEW L2, NEW p \in Procs,
         \A q \in Procs, t \in Slots : q # p => H2[q][t] = H[q][t],
         \A t \in Slots : ~IsFile(H2[p][t]),
         \A t \in Slots : IsFile(H[p][t]) => H[p][t].value.id \in L2,
         L \subseteq L2
  PROVE  Matched(H2, O, L2)
<1>1. \A q \in Procs, t \in Slots : IsFile(H2[q][t]) => q # p /\ H2[q][t] = H[q][t]
  OBVIOUS
<1>2. \A q \in Procs, t \in Slots : IsFile(H2[q][t]) => H2[q][t].value.id \in OpenIds /\ O[H2[q][t].value.id].active
  BY <1>1 DEF Matched
<1>3. ASSUME NEW q \in Procs, NEW r \in Procs, NEW t \in Slots, NEW u \in Slots,
             IsFile(H2[q][t]), IsFile(H2[r][u]), H2[q][t].value.id = H2[r][u].value.id
      PROVE  q = r /\ t = u
  <2>1. H2[q][t] = H[q][t] /\ H2[r][u] = H[r][u]
    BY <1>1, <1>3
  <2> QED  BY <1>3, <2>1 DEF Matched
<1>4. ASSUME NEW j \in OpenIds, O[j].active
      PROVE  j \in L2 \/ \E q \in Procs, t \in Slots : IsFileOf(H2[q][t], j)
  <2>1. j \in L \/ \E q \in Procs, t \in Slots : IsFileOf(H[q][t], j)
    BY <1>4 DEF Matched
  <2>2. ASSUME NEW q \in Procs, NEW t \in Slots, IsFileOf(H[q][t], j) PROVE j \in L2 \/ IsFileOf(H2[q][t], j)
    BY <2>2 DEF IsFileOf
  <2> QED  BY <2>1, <2>2
<1> QED  BY <1>2, <1>3, <1>4 DEF Matched

(* What is no handle of a file, and where an open file is, play no part. *)
LEMMA MatchedSame ==
  ASSUME NEW H, NEW O, NEW L, Matched(H, O, L), NEW H2, NEW O2,
         \A q \in Procs, t \in Slots : /\ IsFile(H2[q][t]) <=> IsFile(H[q][t])
                                       /\ IsFile(H[q][t]) => H2[q][t].value.id = H[q][t].value.id,
         \A j \in OpenIds : O2[j].active <=> O[j].active
  PROVE  Matched(H2, O2, L)
<1>1. \A q \in Procs, t \in Slots : IsFile(H2[q][t]) => H2[q][t].value.id \in OpenIds /\ O2[H2[q][t].value.id].active
  BY DEF Matched
<1>2. ASSUME NEW q \in Procs, NEW r \in Procs, NEW t \in Slots, NEW u \in Slots,
             IsFile(H2[q][t]), IsFile(H2[r][u]), H2[q][t].value.id = H2[r][u].value.id
      PROVE  q = r /\ t = u
  <2>1. IsFile(H[q][t]) /\ IsFile(H[r][u]) /\ H[q][t].value.id = H[r][u].value.id
    BY <1>2
  <2> QED  BY <2>1 DEF Matched
<1>3. \A j \in OpenIds : O2[j].active => j \in L \/ \E q \in Procs, t \in Slots : IsFileOf(H2[q][t], j)
  BY DEF Matched, IsFileOf
<1> QED  BY <1>1, <1>2, <1>3 DEF Matched

(* alloc takes a free slot. *)
LEMMA SlotTaken ==
  ASSUME NEW table \in [Slots -> Handle], NEW v \in FdValue, \E s \in Slots : ~table[s].active
  PROVE  \E s \in Slots, h \in Handle :
           /\ ~table[s].active /\ h.active /\ h.value = v
           /\ GiveHandle(table, v) \in [Slots -> Handle]
           /\ \A t \in Slots : GiveHandle(table, v)[t] = IF t = s THEN h ELSE table[t]
<1> DEFINE free == {s \in Slots : ~table[s].active}
<1>1. free \in SUBSET Nat /\ free # {}
  BY FilesAssumption DEF Slots
<1>2. PICK s \in free : s = Min(free)
  <2> HIDE DEF free
  <2> QED  BY <1>1, LeastOf
<1>3. s \in Slots /\ ~table[s].active
  OBVIOUS
<1>4. GiveHandle(table, v) = [table EXCEPT ![s].value = v, ![s].active = TRUE]
  BY <1>2 DEF GiveHandle
<1>5. PICK h \in Handle : h = [[table[s] EXCEPT !.value = v] EXCEPT !.active = TRUE]
  <2>1. table[s] \in Handle
    BY <1>3
  <2> QED  BY <2>1 DEF Handle
<1>6. h.active /\ h.value = v
  BY <1>3, <1>5 DEF Handle
<1>7. GiveHandle(table, v) = [table EXCEPT ![s] = h]
  BY <1>3, <1>4, <1>5
<1> HIDE DEF free
<1> QED  BY <1>3, <1>6, <1>7

LEMMA FilesStart == FilesInit => FilesInv
<1> SUFFICES ASSUME FilesInit PROVE FilesInv
  OBVIOUS
<1>1. NoHandle \in Handle /\ ~NoHandle.active /\ NoFile \in OpenFile /\ ~NoFile.active
  BY DEF NoHandle, Handle, FdValue, NoFile, OpenFile, Serial
<1>2. files \in [FileInodes -> Seq(Nat)] /\ \A i \in FileInodes : isize[i] = Len(files[i])
  BY BootInodes DEF FilesInit
<1>3. isize \in [Inodes -> Nat]
  <2>1. \A i \in FileInodes : Len(BootData(i)) \in Nat
    BY BootInodes
  <2> QED  BY <2>1 DEF FilesInit
<1>4. listing \in [OpenIds -> Seq(Dirent)]
  <2>1. << >> \in Seq(Dirent)
    OBVIOUS
  <2> QED  BY <2>1 DEF FilesInit
<1>5. FilesTyped
  BY <1>1, <1>2, <1>3, <1>4 DEF FilesInit, FilesTyped
<1>6. \A p \in Procs : syscall[p] = Idle /\ Idle.op = "none" /\ \A s \in Slots : ~handles[p][s].active
  BY <1>1 DEF FilesInit, Idle
<1>7. \A i \in FileInodes : isize[i] <= Len(files[i])
  BY <1>2
<1>8. NewQuiet /\ SizesKept
  BY <1>2, <1>6, <1>7 DEF NewQuiet, SizesKept, InUpdate
<1>9. \A i \in OpenIds : ~openfiles[i].active
  BY <1>1 DEF FilesInit
<1>10. Matched(handles, openfiles, lost) /\ CallsOwn(syscall, handles, openfiles)
  BY <1>6, <1>9 DEF Matched, CallsOwn, InOrderOf, IsFile
<1> QED  BY <1>5, <1>8, <1>9, <1>10 DEF FilesInv, Listed

LEMMA FilesSays == FilesInv => FilesExact
<1> SUFFICES ASSUME FilesInv PROVE FilesExact
  OBVIOUS
<1>1. SizeFollows
  BY DEF FilesInv, SizesKept, SizeFollows
<1>2. ListingExact
  BY DEF FilesInv, Listed, ListingExact
<1>3. ASSUME ~confused PROVE FdsExact
  <2>1. Matched(handles, openfiles, lost)
    BY <1>3 DEF FilesInv
  <2>2. \A h \in FileHandles : \E p \in Procs, s \in Slots :
          h = <<p, s>> /\ IsFile(handles[p][s]) /\ Names(h) = handles[p][s].value.id
    BY DEF FileHandles, HandleAt, IsFile, Names
  <2>3. \A h \in FileHandles : openfiles[Names(h)].active
    BY <2>1, <2>2 DEF Matched
  <2>4. ASSUME NEW h \in FileHandles, NEW g \in FileHandles, Names(h) = Names(g) PROVE h = g
    BY <2>1, <2>2, <2>4 DEF Matched
  <2>5. ASSUME NEW i \in OpenIds, openfiles[i].active PROVE i \in lost \/ \E h \in FileHandles : Names(h) = i
    <3>1. CASE \E p \in Procs, s \in Slots : IsFileOf(handles[p][s], i)
      <4>1. PICK p \in Procs, s \in Slots : IsFileOf(handles[p][s], i)
        BY <3>1
      <4>2. <<p, s>> \in FileHandles /\ Names(<<p, s>>) = i
        BY <4>1 DEF IsFileOf, IsFile, FileHandles, HandleAt, Names
      <4> QED  BY <4>2
    <3> QED  BY <2>1, <2>5, <3>1 DEF Matched
  <2> QED  BY <2>3, <2>4, <2>5 DEF FdsExact
<1>4. FdsExact
  BY <1>3 DEF FdsExact
<1> QED  BY <1>1, <1>2, <1>4 DEF FilesExact

(* What the invariant is about is left alone. *)
LEMMA FilesUntouched ==
  ASSUME FilesInv, UNCHANGED <<life, handles, openfiles, files, isize, syscall, lost, confused, raced, listing>>
  PROVE  FilesInv'
BY DEF FilesInv, FilesTyped, NewQuiet, SizesKept, InUpdate

(* A call of p leaves the others' calls in order. *)
LEMMA CallsUndisturbed ==
  ASSUME NEW C, NEW H, NEW O, CallsOwn(C, H, O), NEW p \in Procs, NEW C2, NEW H2, NEW O2,
         \A q \in Procs \ {p} : H2[q] = H[q] /\ C2[q] = C[q],
         \A q \in Procs \ {p}, s \in Slots :
           IsFile(H[q][s]) => O2[H[q][s].value.id].inode_id = O[H[q][s].value.id].inode_id,
         InOrderOf(C2[p], H2[p], O2)
  PROVE  CallsOwn(C2, H2, O2)
<1> SUFFICES ASSUME NEW q \in Procs, q # p PROVE InOrderOf(C2[q], H2[q], O2)
  BY DEF CallsOwn
<1>1. C2[q] = C[q] /\ H2[q] = H[q] /\ InOrderOf(C[q], H[q], O)
  BY DEF CallsOwn
<1>2. ASSUME C[q] # Idle PROVE O2[C[q].id].inode_id = O[C[q].id].inode_id
  BY <1>1, <1>2 DEF InOrderOf, IsFileOf
<1> QED  BY <1>1, <1>2 DEF InOrderOf

(* Sizes are kept by a call that neither begins nor ends an update. *)
LEMMA SizesUntouched ==
  ASSUME SizesKept, UNCHANGED <<files, isize, raced>>, NEW p \in Procs,
         \A q \in Procs \ {p} : syscall'[q] = syscall[q],
         syscall[p].op # "update", syscall'[p].op # "update"
  PROVE  SizesKept'
<1>1. \A q \in Procs, i \in FileInodes :
        /\ InUpdate(q, i)' <=> InUpdate(q, i)
        /\ InUpdate(q, i) => syscall'[q] = syscall[q]
  BY DEF InUpdate
<1>2. ASSUME NEW i \in FileInodes
      PROVE  /\ isize'[i] <= Len(files'[i])
             /\ \A q \in Procs : InUpdate(q, i)' => syscall'[q].new_size <= Len(files'[i])
             /\ i \notin raced' =>
                  /\ \A q, r \in Procs : InUpdate(q, i)' /\ InUpdate(r, i)' => q = r
                  /\ \A q \in Procs : InUpdate(q, i)' => syscall'[q].new_size = Len(files'[i])
                  /\ (\A q \in Procs : ~InUpdate(q, i)') => isize'[i] = Len(files'[i])
  BY <1>1 DEF SizesKept
<1> QED  BY <1>2 DEF SizesKept, InUpdate

(* The open file moves on. *)
LEMMA Advanced ==
  ASSUME openfiles \in [OpenIds -> OpenFile], NEW i \in OpenIds, NEW n \in Nat, Advance(i, n)
  PROVE  /\ openfiles' \in [OpenIds -> OpenFile]
         /\ \A j \in OpenIds : /\ openfiles'[j].active <=> openfiles[j].active
                               /\ openfiles'[j].inode_id = openfiles[j].inode_id
                               /\ j # i \/ n = 0 => openfiles'[j] = openfiles[j]
<1>1. CASE ~openfiles[i].active
  BY <1>1 DEF Advance
<1>2. CASE openfiles[i].active
  <2>1. PICK o \in OpenFile : o = openfiles[i]
    OBVIOUS
  <2>2. PICK k \in Nat : k = o.offset + n
    BY DEF OpenFile
  <2>3. PICK m : m = [o EXCEPT !.offset = k]
    OBVIOUS
  <2>4. m \in OpenFile /\ m.active = o.active /\ m.inode_id = o.inode_id
    BY <2>3 DEF OpenFile
  <2>5. n = 0 => m = o
    BY <2>2, <2>3 DEF OpenFile
  <2>6. openfiles' = [openfiles EXCEPT ![i] = m]
    BY <1>2, <2>1, <2>2, <2>3 DEF Advance
  <2> QED  BY <2>1, <2>4, <2>5, <2>6
<1> QED  BY <1>1, <1>2

(* An open file that no handle names may be replaced. *)
LEMMA CallsNotOn ==
  ASSUME NEW H, NEW O, NEW L, Matched(H, O, L), NEW i \in OpenIds, ~O[i].active, NEW O2,
         \A j \in OpenIds \ {i} : O2[j] = O[j]
  PROVE  \A q \in Procs, s \in Slots :
           IsFile(H[q][s]) => O2[H[q][s].value.id].inode_id = O[H[q][s].value.id].inode_id
BY DEF Matched

LEMMA NothingListed ==
  ASSUME NEW o, o.offset = 0
  PROVE  Listed(o, << >>)
<1>1. PICK s \in Seq(Dirent) : s = DirEntries(o.inode_id)
  BY BootInodes
<1>2. SubSeq(s, 1, 0) = << >> /\ 0 <= Len(s)
  OBVIOUS
<1> QED  BY <1>1, <1>2 DEF Listed

(* A process p is given a free slot for the open file e at a free place i. *)
Gives(p, i, e, H, O, H2, O2) ==
  /\ H[p] \in [Slots -> Handle] /\ (\E s \in Slots : ~H[p][s].active) /\ ~O[i].active /\ e.active
  /\ \A q \in Procs : H2[q] = IF q = p THEN GiveHandle(H[p], FileValue(i)) ELSE H[q]
  /\ \A j \in OpenIds : O2[j] = IF j = i THEN e ELSE O[j]

LEMMA FileGiven ==
  ASSUME NEW p \in Procs, NEW i \in OpenIds, NEW e \in OpenFile,
         NEW H, NEW O, NEW L, NEW H2, NEW O2, Gives(p, i, e, H, O, H2, O2)
  PROVE  /\ H2[p] \in [Slots -> Handle]
         /\ Matched(H, O, L) => Matched(H2, O2, L)
<1> USE DEF Gives
<1>1. PICK table \in [Slots -> Handle] : table = H[p]
  OBVIOUS
<1>2. FileValue(i) \in FdValue /\ ~FileValue(i).sock /\ FileValue(i).id = i /\ \E s \in Slots : ~table[s].active
  BY <1>1 DEF FileValue, FdValue
<1>3. PICK s \in Slots, h \in Handle :
        /\ ~table[s].active /\ h.active /\ h.value = FileValue(i)
        /\ GiveHandle(table, FileValue(i)) \in [Slots -> Handle]
        /\ \A t \in Slots : GiveHandle(table, FileValue(i))[t] = IF t = s THEN h ELSE table[t]
  BY <1>2, SlotTaken
<1>4. H2[p] \in [Slots -> Handle]
  BY <1>1, <1>3
<1>5. \A q \in Procs, t \in Slots : H2[q][t] = IF q = p /\ t = s THEN h ELSE H[q][t]
  BY <1>1, <1>3
<1>6. IsFileOf(h, i) /\ ~IsFile(H[p][s])
  BY <1>1, <1>2, <1>3 DEF IsFileOf, IsFile
<1>7. \A j \in OpenIds : O2[j].active <=> j = i \/ O[j].active
  OBVIOUS
<1>8. Matched(H, O, L) => Matched(H2, O2, L)
  <2> SUFFICES ASSUME Matched(H, O, L) PROVE Matched(H2, O2, L)
    OBVIOUS
  <2> QED  BY <1>5, <1>6, <1>7, MatchedOpened
<1> QED  BY <1>4, <1>5, <1>8

(* The handle given takes one slot: the others hold what they held. *)
LEMMA OtherSlotsKept ==
  ASSUME NEW p \in Procs, NEW i \in OpenIds, NEW e \in OpenFile,
         NEW H, NEW O, NEW H2, NEW O2, Gives(p, i, e, H, O, H2, O2)
  PROVE  \E s \in Slots : \A t \in Slots \ {s} : H2[p][t] = H[p][t]
<1> USE DEF Gives
<1>1. PICK table \in [Slots -> Handle] : table = H[p]
  OBVIOUS
<1>2. FileValue(i) \in FdValue /\ \E s \in Slots : ~table[s].active
  BY <1>1 DEF FileValue, FdValue
<1>3. PICK s \in Slots, h \in Handle :
        /\ ~table[s].active /\ h.active /\ h.value = FileValue(i)
        /\ GiveHandle(table, FileValue(i)) \in [Slots -> Handle]
        /\ \A t \in Slots : GiveHandle(table, FileValue(i))[t] = IF t = s THEN h ELSE table[t]
  BY <1>2, SlotTaken
<1> QED  BY <1>1, <1>3

LEMMA OpenKeeps ==
  ASSUME FilesInv, NEW p \in Procs, NEW path \in Paths, NEW flags \in FlagSets, SysOpen(p, path, flags)
  PROVE  FilesInv'
<1>1. FilesTyped /\ ~confused /\ life[p] = "live" /\ syscall[p] = Idle
  BY DEF FilesInv, SysOpen, Enter
<1>2. /\ Matched(handles, openfiles, lost) /\ CallsOwn(syscall, handles, openfiles)
      /\ \A i \in OpenIds : Listed(openfiles[i], listing[i])
  BY <1>1 DEF FilesInv
<1>3. CASE Overflows(path)
  <2>1. Panic
    BY <1>3 DEF SysOpen
  <2> QED  BY <2>1, FilesUntouched DEF Panic
<1>4. CASE ~Overflows(path)
  <2>1. PICK inode : inode = ResolvePath(path)
    OBVIOUS
  <2>2. FreeOpen(openfiles) # {} /\ FreeOpen(openfiles) \in SUBSET Nat
    BY <1>4 DEF SysOpen, FreeOpen, OpenIds
  <2>3. PICK id \in OpenIds : id = Min(FreeOpen(openfiles)) /\ ~openfiles[id].active
    BY <2>2, LeastOf DEF FreeOpen
  <2>4. PICK e \in OpenFile : e = OpenEntry(inode, flags) /\ e.offset = 0 /\ e.active
    <3>1. OpenEntry(inode, flags) \in OpenFile
      BY <2>1 DEF OpenEntry, OpenFile
    <3> QED  BY <3>1 DEF OpenEntry
  <2>5. /\ listing' = [listing EXCEPT ![id] = << >>]
        /\ UNCHANGED <<life, files, isize, syscall, lost, confused, raced>>
    BY <1>4, <2>3 DEF SysOpen
  <2>6. SizesKept'
    BY <2>5 DEF FilesInv, SizesKept, InUpdate
  <2>7. listing' \in [OpenIds -> Seq(Dirent)]
    <3>1. << >> \in Seq(Dirent)
      OBVIOUS
    <3> QED  BY <1>1, <2>5, <3>1 DEF FilesTyped
  <2>8. \A q \in Procs : life'[q] = "new" => q # p
    BY <1>1, <2>5
  <2>9. InOrderOf(syscall'[p], handles'[p], openfiles')
    BY <1>1, <2>5 DEF InOrderOf
  <2>10. CASE FreeSlots(p) # {}
    <3>1. /\ openfiles' = [openfiles EXCEPT ![id] = e]
          /\ handles' = [handles EXCEPT ![p] = GiveHandle(handles[p], FileValue(id))]
      BY <1>4, <2>1, <2>3, <2>4, <2>10 DEF SysOpen
    <3>2. /\ \E s \in Slots : ~handles[p][s].active
          /\ handles \in [Procs -> [Slots -> Handle]] /\ openfiles \in [OpenIds -> OpenFile]
      BY <1>1, <2>10 DEF FilesTyped, FreeSlots
    <3>3. /\ handles' \in [Procs -> [Slots -> Handle]] /\ openfiles' \in [OpenIds -> OpenFile]
          /\ Matched(handles', openfiles', lost)
      <4>1. PICK H, O, L, H2, O2 : H = handles /\ O = openfiles /\ L = lost /\ H2 = handles' /\ O2 = openfiles'
        OBVIOUS
      <4>2. Gives(p, id, e, H, O, H2, O2) /\ Matched(H, O, L)
        BY <1>2, <2>3, <2>4, <3>1, <3>2, <4>1 DEF Gives
      <4>3. H2[p] \in [Slots -> Handle] /\ Matched(H2, O2, L)
        BY <4>2, FileGiven
      <4> QED  BY <2>4, <3>1, <3>2, <4>1, <4>3
    <3>5. FilesTyped'
      BY <1>1, <2>5, <2>7, <3>3 DEF FilesTyped
    <3>8. \A j \in OpenIds : openfiles'[j] = IF j = id THEN e ELSE openfiles[j]
      BY <1>1, <3>1 DEF FilesTyped
    <3>10. CallsOwn(syscall', handles', openfiles')
      <4>1. \A q \in Procs \ {p} : handles'[q] = handles[q] /\ syscall'[q] = syscall[q]
        BY <1>1, <2>5, <3>1 DEF FilesTyped
      <4>2. \A q \in Procs, t \in Slots : IsFile(handles[q][t]) =>
              openfiles'[handles[q][t].value.id].inode_id = openfiles[handles[q][t].value.id].inode_id
        BY <1>2, <2>3, <3>8, CallsNotOn
      <4> QED  BY <1>2, <2>9, <4>1, <4>2, CallsUndisturbed
    <3>11. \A j \in OpenIds : Listed(openfiles'[j], listing'[j])
      BY <1>1, <1>2, <2>4, <2>5, <3>8, NothingListed DEF FilesTyped
    <3>12. NewQuiet'
      <4>1. \A q \in Procs \ {p} : handles'[q] = handles[q]
        BY <3>1, <3>2
      <4> QED  BY <2>5, <2>8, <4>1 DEF FilesInv, NewQuiet
    <3> QED  BY <2>5, <2>6, <3>3, <3>5, <3>10, <3>11, <3>12 DEF FilesInv
  <2>11. CASE FreeSlots(p) = {}
    <3>1. PICK d : d = [e EXCEPT !.active = FALSE, !.inode_id = 0]
      OBVIOUS
    <3>2. d \in OpenFile /\ ~d.active
      BY <3>1 DEF OpenFile, Serial
    <3>3. openfiles' = [openfiles EXCEPT ![id] = d] /\ handles' = handles
      BY <1>4, <2>1, <2>3, <2>4, <2>11, <3>1 DEF SysOpen
    <3>4. \A j \in OpenIds : openfiles'[j] = IF j = id THEN d ELSE openfiles[j]
      BY <1>1, <3>3 DEF FilesTyped
    <3>5. FilesTyped' /\ NewQuiet'
      BY <1>1, <2>5, <2>7, <3>2, <3>3 DEF FilesTyped, FilesInv, NewQuiet
    <3>6. Matched(handles', openfiles', lost)
      <4>1. \A j \in OpenIds : openfiles'[j].active <=> openfiles[j].active
        BY <2>3, <3>2, <3>4
      <4> QED  BY <1>2, <3>3, <4>1, MatchedSame
    <3>7. CallsOwn(syscall', handles', openfiles')
      <4>1. \A q \in Procs, t \in Slots : IsFile(handles[q][t]) =>
              openfiles'[handles[q][t].value.id].inode_id = openfiles[handles[q][t].value.id].inode_id
        BY <1>2, <2>3, <3>4, CallsNotOn
      <4>2. \A q \in Procs \ {p} : handles'[q] = handles[q] /\ syscall'[q] = syscall[q]
        BY <2>5, <3>3
      <4> QED  BY <1>2, <2>9, <4>1, <4>2, CallsUndisturbed
    <3>8. \A j \in OpenIds : Listed(openfiles'[j], listing'[j])
      BY <1>1, <1>2, <2>5, <3>2, <3>4 DEF FilesTyped, Listed
    <3> QED  BY <2>5, <2>6, <3>5, <3>6, <3>7, <3>8 DEF FilesInv
  <2> QED  BY <2>10, <2>11
<1> QED  BY <1>3, <1>4

LEMMA BeginKeeps ==
  ASSUME FilesInv, NEW p \in Procs, NEW fd \in Slots, FileCall(p, fd), NEW c \in Reading \cup Writing,
         c.id = FdTarget(p, fd), c.inode = openfiles[c.id].inode_id,
         c.op # "read" => InodeType(c.inode) # "Directory",
         syscall' = [syscall EXCEPT ![p] = c],
         UNCHANGED <<life, handles, openfiles, files, isize, lost, raced, listing>>
  PROVE  FilesInv'
<1>1. FilesTyped /\ ~confused /\ life[p] = "live" /\ syscall[p] = Idle /\ handles[p][fd].active
  BY DEF FilesInv, FileCall, Enter, Resolves
<1>2. handles[p][fd].value.sock \in BOOLEAN /\ confused' = handles[p][fd].value.sock
  BY <1>1 DEF FilesTyped, Handle, FdValue, FileCall
<1>3. FilesTyped'
  BY <1>1, <1>2 DEF FilesTyped
<1>4. Idle.op = "none" /\ c.op \in {"read", "write"}
  BY DEF Idle, Reading, Writing
<1>5. \A q \in Procs : syscall'[q] = IF q = p THEN c ELSE syscall[q]
  BY <1>1 DEF FilesTyped
<1>6. SizesKept'
  BY <1>1, <1>4, <1>5, SizesUntouched DEF FilesInv
<1>7. NewQuiet'
  BY <1>1, <1>5 DEF FilesInv, NewQuiet
<1>8. ASSUME ~confused' PROVE CallsOwn(syscall', handles', openfiles')
  <2>1. IsFileOf(handles[p][fd], c.id)
    BY <1>1, <1>2, <1>8 DEF IsFileOf, IsFile, FdTarget
  <2>2. InOrderOf(c, handles[p], openfiles)
    BY <2>1 DEF InOrderOf
  <2>3. CallsOwn(syscall, handles, openfiles)
    BY <1>1 DEF FilesInv
  <2> QED  BY <1>5, <2>2, <2>3 DEF CallsOwn
<1>9. /\ Matched(handles', openfiles', lost')
      /\ \A i \in OpenIds : Listed(openfiles'[i], listing'[i])
  BY <1>1 DEF FilesInv
<1> QED  BY <1>3, <1>6, <1>7, <1>8, <1>9 DEF FilesInv

LEMMA ReadBeginKeeps ==
  ASSUME FilesInv, NEW p \in Procs, NEW fd \in Slots, NEW len \in ReadLens, ReadBegin(p, fd, len)
  PROVE  FilesInv'
<1>1. PICK id \in OpenIds : id = FdTarget(p, fd) /\ openfiles[id].inode_id \in Inodes
  BY DEF ReadBegin
<1>2. openfiles[id].offset \in Nat /\ len \in Nat
  BY FilesAssumption DEF FilesInv, FilesTyped, OpenFile
<1>3. PICK c : c = [op |-> "read", id |-> id, inode |-> openfiles[id].inode_id,
                    offset |-> openfiles[id].offset, len |-> len]
  OBVIOUS
<1>4. c \in Reading /\ c.id = id /\ c.inode = openfiles[id].inode_id /\ c.op = "read"
  BY <1>1, <1>2, <1>3 DEF Reading
<1>5. /\ FileCall(p, fd) /\ syscall' = [syscall EXCEPT ![p] = c]
      /\ UNCHANGED <<life, handles, openfiles, files, isize, lost, raced, listing>>
  BY <1>1, <1>3 DEF ReadBegin
<1> QED  BY <1>1, <1>4, <1>5, BeginKeeps

LEMMA WriteBeginKeeps ==
  ASSUME FilesInv, NEW p \in Procs, NEW fd \in Slots, NEW data \in Writes, WriteBegin(p, fd, data)
  PROVE  FilesInv'
<1>1. PICK id \in OpenIds : /\ id = FdTarget(p, fd) /\ openfiles[id].inode_id \in Inodes
                            /\ InodeType(openfiles[id].inode_id) # "Directory"
  BY DEF WriteBegin
<1>2. PICK inode \in Inodes : inode = openfiles[id].inode_id
  BY <1>1
<1>3. openfiles[id].offset \in Nat /\ data \in Seq(Nat) /\ (inode \in FileInodes => Len(files[inode]) \in Nat)
  BY FilesAssumption DEF FilesInv, FilesTyped, OpenFile
<1>4. PICK o \in Nat : o = IF "APPEND" \in openfiles[id].flags /\ inode \in FileInodes
                           THEN Len(files[inode]) ELSE openfiles[id].offset
  BY <1>3
<1>5. PICK c : c = [op |-> "write", id |-> id, inode |-> inode, data |-> data, offset |-> o]
  OBVIOUS
<1>6. c \in Writing /\ c.id = id /\ c.inode = inode
  BY <1>3, <1>5 DEF Writing
<1>7. FileCall(p, fd) /\ UNCHANGED <<life, handles, openfiles, files, isize, lost, raced, listing>>
  BY DEF WriteBegin
<1>8. syscall' = [syscall EXCEPT ![p] = c]
  BY <1>1, <1>2, <1>4, <1>5 DEF WriteBegin
<1> QED  BY <1>1, <1>2, <1>6, <1>7, <1>8, BeginKeeps

(* A call ends: the open file moves on, by nothing if it is a directory. *)
LEMMA EndKeeps ==
  ASSUME FilesInv, NEW p \in Procs, NEW c \in Reading \cup Updating, c = syscall[p],
         NEW n \in Nat, Advance(c.id, n), ~confused /\ c.inode \in TmpfsDirs => n = 0,
         syscall' = [syscall EXCEPT ![p] = Idle],
         UNCHANGED <<life, handles, files, lost, confused, raced, listing>>,
         isize' \in [Inodes -> Nat], SizesKept'
  PROVE  FilesInv'
<1>1. FilesTyped /\ c.id \in OpenIds /\ c # Idle
  BY DEF FilesInv, Reading, Updating, Idle
<1>2. /\ openfiles' \in [OpenIds -> OpenFile]
      /\ \A j \in OpenIds : /\ openfiles'[j].active <=> openfiles[j].active
                            /\ openfiles'[j].inode_id = openfiles[j].inode_id
                            /\ j # c.id \/ n = 0 => openfiles'[j] = openfiles[j]
  BY <1>1, Advanced DEF FilesTyped
<1>3. FilesTyped'
  BY <1>1, <1>2 DEF FilesTyped
<1>4. \A q \in Procs : syscall'[q] = IF q = p THEN Idle ELSE syscall[q]
  BY <1>1 DEF FilesTyped
<1>5. NewQuiet'
  BY <1>4 DEF FilesInv, NewQuiet
<1>6. ASSUME ~confused
      PROVE  /\ Matched(handles', openfiles', lost') /\ CallsOwn(syscall', handles', openfiles')
             /\ \A j \in OpenIds : Listed(openfiles'[j], listing'[j])
  <2>1. /\ Matched(handles, openfiles, lost) /\ CallsOwn(syscall, handles, openfiles)
        /\ \A i \in OpenIds : Listed(openfiles[i], listing[i])
    BY <1>6 DEF FilesInv
  <2>2. Matched(handles, openfiles', lost)
    BY <1>2, <2>1, MatchedSame
  <2>3. CallsOwn(syscall', handles, openfiles')
    <3>1. \A q \in Procs, t \in Slots : IsFile(handles[q][t]) =>
            openfiles'[handles[q][t].value.id].inode_id = openfiles[handles[q][t].value.id].inode_id
      BY <1>2, <2>1 DEF Matched
    <3>2. InOrderOf(syscall'[p], handles'[p], openfiles')
      BY <1>4 DEF InOrderOf
    <3>3. \A q \in Procs \ {p} : handles'[q] = handles[q] /\ syscall'[q] = syscall[q]
      BY <1>4
    <3>4. PICK C, H, O, C2, H2, O2 :
            C = syscall /\ H = handles /\ O = openfiles /\ C2 = syscall' /\ H2 = handles' /\ O2 = openfiles'
      OBVIOUS
    <3>5. CallsOwn(C2, H2, O2)
      <4>1. CallsOwn(C, H, O) /\ InOrderOf(C2[p], H2[p], O2)
        BY <2>1, <3>2, <3>4
      <4>2. /\ \A q \in Procs \ {p} : H2[q] = H[q] /\ C2[q] = C[q]
            /\ \A q \in Procs \ {p}, s \in Slots :
                 IsFile(H[q][s]) => O2[H[q][s].value.id].inode_id = O[H[q][s].value.id].inode_id
        BY <3>1, <3>3, <3>4
      <4> QED  BY <4>1, <4>2, CallsUndisturbed
    <3> QED  BY <3>4, <3>5
  <2>4. ASSUME NEW j \in OpenIds PROVE Listed(openfiles'[j], listing[j])
    <3>1. CASE j # c.id \/ n = 0
      BY <1>2, <2>1, <3>1
    <3>2. CASE j = c.id /\ n # 0
      <4>1. openfiles'[j].inode_id = c.inode
        BY <1>1, <1>2, <2>1, <3>2 DEF CallsOwn, InOrderOf
      <4> QED  BY <1>6, <3>2, <4>1 DEF Listed
    <3> QED  BY <3>1, <3>2
  <2> QED  BY <2>2, <2>3, <2>4
<1> QED  BY <1>3, <1>5, <1>6 DEF FilesInv

(* A directory is read without result. *)
LEMMA BytesReadIs ==
  ASSUME files \in [FileInodes -> Seq(Nat)], NEW inode \in Inodes, NEW offset \in Nat, NEW len \in Nat
  PROVE  BytesRead(inode, offset, len) \in Nat /\ (inode \in TmpfsDirs => BytesRead(inode, offset, len) = 0)
<1>1. CASE inode \in FileInodes
  <2>1. PICK n \in Nat : n = Len(files[inode])
    BY <1>1
  <2>2. PICK m \in Nat : m = Max({0, n - offset})
    <3>1. PICK k \in Int : k = n - offset
      OBVIOUS
    <3>2. Max({0, k}) \in Nat
      BY OfTwo
    <3> QED  BY <3>1, <3>2
  <2>3. Min({len, m}) \in Nat
    <3>1. len \in Int /\ m \in Int
      OBVIOUS
    <3>2. Min({len, m}) = IF len <= m THEN len ELSE m
      BY <3>1, OfTwo
    <3> QED  BY <3>2
  <2>4. inode # Zero /\ inode # Random
    BY <1>1 DEF FileInodes, InodeType, Root, DevDir, Null, Zero, Random
  <2>5. BytesRead(inode, offset, len) = Min({len, m})
    BY <1>1, <2>1, <2>2, <2>4 DEF BytesRead
  <2> QED  BY <1>1, <2>3, <2>5, BootInodes
<1>2. CASE inode \notin FileInodes
  BY <1>2, BootInodes DEF BytesRead
<1> QED  BY <1>1, <1>2

LEMMA ReadFinishKeeps ==
  ASSUME FilesInv, NEW p \in Procs, ReadFinish(p)
  PROVE  FilesInv'
<1>1. PICK c \in Reading : c = syscall[p]
  <2>1. syscall[p] \in Reading \cup Writing \cup Updating \cup {Idle} /\ syscall[p].op = "read"
    BY DEF FilesInv, FilesTyped, ReadFinish
  <2>2. \A c \in Writing \cup Updating \cup {Idle} : c.op # "read"
    BY DEF Writing, Updating, Idle
  <2> QED  BY <2>1, <2>2
<1>2. c.id \in OpenIds /\ c.inode \in Inodes /\ c.offset \in Nat /\ c.len \in Nat /\ c.op = "read"
  BY DEF Reading
<1>3. PICK n : n = BytesRead(c.inode, c.offset, c.len)
  OBVIOUS
<1>4. n \in Nat /\ (c.inode \in TmpfsDirs => n = 0)
  BY <1>2, <1>3, BytesReadIs DEF FilesInv, FilesTyped
<1>5. /\ Advance(c.id, n) /\ syscall' = [syscall EXCEPT ![p] = Idle]
      /\ UNCHANGED <<life, handles, files, isize, lost, confused, raced, listing>>
  BY <1>1, <1>3 DEF ReadFinish
<1>6. \A q \in Procs : syscall'[q] = IF q = p THEN Idle ELSE syscall[q]
  BY <1>5 DEF FilesInv, FilesTyped
<1>7. SizesKept'
  <2>1. syscall[p].op # "update" /\ syscall'[p].op # "update"
    BY <1>1, <1>2, <1>6 DEF Idle
  <2> QED  BY <1>5, <1>6, <2>1, SizesUntouched DEF FilesInv
<1>8. isize' \in [Inodes -> Nat]
  BY <1>5 DEF FilesInv, FilesTyped
<1> QED  BY <1>1, <1>4, <1>5, <1>7, <1>8, EndKeeps

LEMMA WriteApplyKeeps ==
  ASSUME FilesInv, NEW p \in Procs, WriteApply(p)
  PROVE  FilesInv'
<1>1. PICK c \in Writing : c = syscall[p]
  <2>1. syscall[p] \in Reading \cup Writing \cup Updating \cup {Idle} /\ syscall[p].op = "write"
    BY DEF FilesInv, FilesTyped, WriteApply
  <2>2. \A c \in Reading \cup Updating \cup {Idle} : c.op # "write"
    BY DEF Reading, Updating, Idle
  <2> QED  BY <2>1, <2>2
<1>2. c.id \in OpenIds /\ c.inode \in Inodes /\ c.data \in Seq(Nat) /\ c.offset \in Nat /\ c.op = "write" /\ c # Idle
  BY DEF Writing, Idle
<1>3. FilesTyped /\ SizesKept /\ NewQuiet /\ UNCHANGED <<life, handles, openfiles, isize, lost, confused, listing>>
  BY DEF FilesInv, WriteApply
<1>4. ASSUME NEW d \in Updating, d.id = c.id, d.inode = c.inode, syscall' = [syscall EXCEPT ![p] = d],
             files' \in [FileInodes -> Seq(Nat)], SizesKept'
      PROVE  FilesInv'
  <2>1. FilesTyped'
    BY <1>3, <1>4 DEF FilesTyped
  <2>2. \A q \in Procs : syscall'[q] = IF q = p THEN d ELSE syscall[q]
    BY <1>3, <1>4 DEF FilesTyped
  <2>3. NewQuiet'
    BY <1>1, <1>2, <1>3, <2>2 DEF NewQuiet
  <2>4. ASSUME ~confused PROVE CallsOwn(syscall', handles, openfiles)
    <3>1. CallsOwn(syscall, handles, openfiles)
      BY <2>4 DEF FilesInv
    <3>2. InOrderOf(d, handles[p], openfiles)
      BY <1>1, <1>2, <1>4, <3>1 DEF CallsOwn, InOrderOf
    <3> QED  BY <2>2, <3>1, <3>2 DEF CallsOwn
  <2> QED  BY <1>3, <1>4, <2>1, <2>3, <2>4 DEF FilesInv
<1>5. CASE c.inode \in FileInodes
  <2>1. PICK old \in Seq(Nat) : old = files[c.inode]
    BY <1>3, <1>5 DEF FilesTyped
  <2>2. PICK new \in Seq(Nat) : new = Splice(old, c.offset, c.data) /\ Len(new) >= Len(old)
    BY <1>2, SpliceGrows
  <2>3. PICK d : d = [op |-> "update", id |-> c.id, inode |-> c.inode, written |-> Len(c.data), new_size |-> Len(new)]
    OBVIOUS
  <2>4. d \in Updating /\ d.id = c.id /\ d.inode = c.inode /\ d.new_size = Len(new) /\ d.op = "update"
    <3>1. Len(c.data) \in Nat /\ Len(new) \in Nat
      BY <1>2
    <3> QED  BY <1>2, <2>3, <3>1 DEF Updating
  <2>5. /\ files' = [files EXCEPT ![c.inode] = new] /\ syscall' = [syscall EXCEPT ![p] = d]
        /\ raced' = IF \E q \in Procs \ {p} : InUpdate(q, c.inode) THEN raced \cup {c.inode} ELSE raced
    BY <1>1, <1>5, <2>1, <2>2, <2>3 DEF WriteApply, NewSize
  <2>6. files' \in [FileInodes -> Seq(Nat)] /\ \A i \in FileInodes : files'[i] = IF i = c.inode THEN new ELSE files[i]
    BY <1>3, <1>5, <2>5 DEF FilesTyped
  <2>7. \A q \in Procs : syscall'[q] = IF q = p THEN d ELSE syscall[q]
    BY <1>3, <2>5 DEF FilesTyped
  <2>8. \A q \in Procs, i \in FileInodes :
          InUpdate(q, i)' <=> IF q = p THEN i = c.inode ELSE InUpdate(q, i)
    BY <2>4, <2>7 DEF InUpdate
  <2>9. ASSUME NEW i \in FileInodes
        PROVE  /\ isize'[i] <= Len(files'[i])
               /\ \A q \in Procs : InUpdate(q, i)' => syscall'[q].new_size <= Len(files'[i])
               /\ i \notin raced' =>
                    /\ \A q, r \in Procs : InUpdate(q, i)' /\ InUpdate(r, i)' => q = r
                    /\ \A q \in Procs : InUpdate(q, i)' => syscall'[q].new_size = Len(files'[i])
                    /\ (\A q \in Procs : ~InUpdate(q, i)') => isize'[i] = Len(files'[i])
    <3>1. CASE i # c.inode
      <4>1. files'[i] = files[i] /\ isize'[i] = isize[i] /\ (i \notin raced' => i \notin raced)
        BY <1>3, <2>5, <2>6, <3>1
      <4>2. ~InUpdate(p, i)
        BY <1>1, <1>2 DEF InUpdate
      <4>3. \A q \in Procs : /\ InUpdate(q, i)' <=> InUpdate(q, i)
                             /\ InUpdate(q, i) => syscall'[q] = syscall[q]
        BY <2>7, <2>8, <3>1, <4>2
      <4> QED  BY <1>3, <4>1, <4>3 DEF SizesKept
    <3>2. CASE i = c.inode
      <4>1. PICK m \in Nat, n \in Nat : m = Len(files[i]) /\ n = Len(files'[i]) /\ n = Len(new) /\ m <= n
        <5>1. files[i] = old /\ files'[i] = new
          BY <2>1, <2>6, <3>2
        <5>2. Len(old) \in Nat /\ Len(new) \in Nat
          OBVIOUS
        <5> QED  BY <2>2, <5>1, <5>2
      <4>2. isize[i] \in Nat /\ isize[i] <= m
        BY <1>2, <1>3, <3>2, <4>1 DEF SizesKept, FilesTyped
      <4>3. ASSUME NEW q \in Procs, q # p, InUpdate(q, i) PROVE syscall[q].new_size \in Nat /\ syscall[q].new_size <= m
        <5>1. syscall[q].new_size <= m
          BY <1>3, <4>1, <4>3 DEF SizesKept
        <5>2. syscall[q] \in Reading \cup Writing \cup Updating \cup {Idle} /\ syscall[q].op = "update"
          BY <1>3, <4>3 DEF FilesTyped, InUpdate
        <5>3. \A x \in Reading \cup Writing \cup {Idle} : x.op # "update"
          BY DEF Reading, Writing, Idle
        <5>4. syscall[q] \in Updating
          BY <5>2, <5>3
        <5> QED  BY <5>1, <5>4 DEF Updating
      <4>4. ASSUME NEW q \in Procs, InUpdate(q, i)' PROVE syscall'[q].new_size <= n
        <5>1. CASE q = p
          BY <2>4, <2>7, <4>1, <5>1
        <5>2. CASE q # p
          <6>1. InUpdate(q, i) /\ syscall'[q] = syscall[q]
            BY <2>7, <2>8, <4>4, <5>2
          <6> QED  BY <4>1, <4>3, <5>2, <6>1
        <5> QED  BY <5>1, <5>2
      <4>5. i \notin raced' => \A q \in Procs : InUpdate(q, i)' => q = p
        BY <2>5, <2>8, <3>2
      <4>6. i \notin raced' => \A q \in Procs : InUpdate(q, i)' => syscall'[q].new_size = n
        BY <2>4, <2>7, <4>1, <4>5
      <4>7. InUpdate(p, i)'
        BY <2>8, <3>2
      <4>8. isize'[i] <= n
        BY <1>3, <4>1, <4>2
      <4> QED  BY <4>1, <4>4, <4>5, <4>6, <4>7, <4>8
    <3> QED  BY <3>1, <3>2
  <2>10. SizesKept'
    BY <2>9 DEF SizesKept, InUpdate
  <2> QED  BY <1>4, <2>4, <2>5, <2>6, <2>10
<1>6. CASE c.inode \notin FileInodes
  <2>1. PICK d : d = [op |-> "update", id |-> c.id, inode |-> c.inode, written |-> Len(c.data), new_size |-> 0]
    OBVIOUS
  <2>2. d \in Updating /\ d.id = c.id /\ d.inode = c.inode
    BY <1>2, <2>1 DEF Updating
  <2>3. syscall' = [syscall EXCEPT ![p] = d] /\ UNCHANGED <<files, raced>>
    BY <1>1, <1>6, <2>1 DEF WriteApply
  <2>4. \A q \in Procs : syscall'[q] = IF q = p THEN d ELSE syscall[q]
    BY <1>3, <2>3 DEF FilesTyped
  <2>5. \A q \in Procs, i \in FileInodes : /\ InUpdate(q, i)' <=> InUpdate(q, i)
                                           /\ InUpdate(q, i) => syscall'[q] = syscall[q]
    BY <1>1, <1>2, <1>6, <2>2, <2>4 DEF InUpdate
  <2>6. ASSUME NEW i \in FileInodes
        PROVE  /\ isize'[i] <= Len(files'[i])
               /\ \A q \in Procs : InUpdate(q, i)' => syscall'[q].new_size <= Len(files'[i])
               /\ i \notin raced' =>
                    /\ \A q, r \in Procs : InUpdate(q, i)' /\ InUpdate(r, i)' => q = r
                    /\ \A q \in Procs : InUpdate(q, i)' => syscall'[q].new_size = Len(files'[i])
                    /\ (\A q \in Procs : ~InUpdate(q, i)') => isize'[i] = Len(files'[i])
    BY <1>3, <2>3, <2>5 DEF SizesKept
  <2>7. SizesKept'
    BY <2>6 DEF SizesKept, InUpdate
  <2>8. files' \in [FileInodes -> Seq(Nat)]
    BY <1>3, <2>3 DEF FilesTyped
  <2> QED  BY <1>4, <2>2, <2>3, <2>7, <2>8
<1> QED  BY <1>5, <1>6

LEMMA WriteFinishKeeps ==
  ASSUME FilesInv, NEW p \in Procs, WriteFinish(p)
  PROVE  FilesInv'
<1>1. PICK c \in Updating : c = syscall[p]
  <2>1. syscall[p] \in Reading \cup Writing \cup Updating \cup {Idle} /\ syscall[p].op = "update"
    BY DEF FilesInv, FilesTyped, WriteFinish
  <2>2. \A c \in Reading \cup Writing \cup {Idle} : c.op # "update"
    BY DEF Reading, Writing, Idle
  <2> QED  BY <2>1, <2>2
<1>2. c.id \in OpenIds /\ c.inode \in Inodes /\ c.written \in Nat /\ c.new_size \in Nat /\ c.op = "update" /\ c # Idle
  BY DEF Updating, Idle
<1>3. FilesTyped /\ SizesKept
  BY DEF FilesInv
<1>4. /\ Advance(c.id, c.written) /\ syscall' = [syscall EXCEPT ![p] = Idle]
      /\ isize' = (IF c.inode \in FileInodes THEN [isize EXCEPT ![c.inode] = c.new_size] ELSE isize)
      /\ UNCHANGED <<life, handles, files, lost, confused, raced, listing>>
  BY <1>1 DEF WriteFinish
<1>5. ~confused /\ c.inode \in TmpfsDirs => c.written = 0
  <2>1. ~confused => InodeType(c.inode) # "Directory"
    BY <1>1, <1>2 DEF FilesInv, CallsOwn, InOrderOf
  <2> QED  BY <2>1, BootInodes
<1>6. isize' \in [Inodes -> Nat] /\ \A i \in FileInodes : isize'[i] = IF i = c.inode THEN c.new_size ELSE isize[i]
  BY <1>2, <1>3, <1>4, BootInodes DEF FilesTyped
<1>7. \A q \in Procs : syscall'[q] = IF q = p THEN Idle ELSE syscall[q]
  BY <1>3, <1>4 DEF FilesTyped
<1>8. \A q \in Procs, i \in FileInodes : InUpdate(q, i)' <=> q # p /\ InUpdate(q, i)
  BY <1>7 DEF InUpdate, Idle
<1>9. \A i \in FileInodes : InUpdate(p, i) <=> i = c.inode
  BY <1>1, <1>2 DEF InUpdate
<1>10. ASSUME NEW i \in FileInodes
      PROVE  /\ isize'[i] <= Len(files'[i])
             /\ \A q \in Procs : InUpdate(q, i)' => syscall'[q].new_size <= Len(files'[i])
             /\ i \notin raced' =>
                  /\ \A q, r \in Procs : InUpdate(q, i)' /\ InUpdate(r, i)' => q = r
                  /\ \A q \in Procs : InUpdate(q, i)' => syscall'[q].new_size = Len(files'[i])
                  /\ (\A q \in Procs : ~InUpdate(q, i)') => isize'[i] = Len(files'[i])
  <2>1. files'[i] = files[i] /\ (i \notin raced' <=> i \notin raced)
    BY <1>4
  <2>2. \A q \in Procs : InUpdate(q, i)' => InUpdate(q, i) /\ q # p /\ syscall'[q] = syscall[q]
    BY <1>7, <1>8
  <2>3. \A q \in Procs : InUpdate(q, i)' => syscall'[q].new_size <= Len(files'[i])
    BY <1>3, <2>1, <2>2 DEF SizesKept
  <2>4. i \notin raced' => /\ \A q, r \in Procs : InUpdate(q, i)' /\ InUpdate(r, i)' => q = r
                           /\ \A q \in Procs : InUpdate(q, i)' => syscall'[q].new_size = Len(files'[i])
    BY <1>3, <2>1, <2>2 DEF SizesKept
  <2>5. CASE i = c.inode
    <3>1. c.new_size <= Len(files[i]) /\ (i \notin raced => c.new_size = Len(files[i]))
      BY <1>1, <1>3, <1>9, <2>5 DEF SizesKept
    <3> QED  BY <1>6, <2>1, <2>3, <2>4, <2>5, <3>1
  <2>6. CASE i # c.inode
    <3>1. isize'[i] = isize[i] /\ \A q \in Procs : InUpdate(q, i)' <=> InUpdate(q, i)
      BY <1>6, <1>8, <1>9, <2>6
    <3>2. isize'[i] <= Len(files'[i]) /\ (i \notin raced' /\ (\A q \in Procs : ~InUpdate(q, i)') => isize'[i] = Len(files'[i]))
      BY <1>3, <2>1, <3>1 DEF SizesKept
    <3> QED  BY <2>3, <2>4, <3>2
  <2> QED  BY <2>5, <2>6
<1>11. SizesKept'
  BY <1>10 DEF SizesKept, InUpdate
<1> QED  BY <1>1, <1>2, <1>4, <1>5, <1>6, <1>11, EndKeeps

LEMMA CloseKeeps ==
  ASSUME FilesInv, NEW p \in Procs, NEW fd \in Slots, SysClose(p, fd)
  PROVE  FilesInv'
<1>1. FilesTyped /\ ~confused /\ life[p] = "live" /\ syscall[p] = Idle /\ handles[p][fd].active
  BY DEF FilesInv, SysClose, FileCall, Enter, Resolves
<1>2. /\ Matched(handles, openfiles, lost) /\ CallsOwn(syscall, handles, openfiles)
      /\ \A i \in OpenIds : Listed(openfiles[i], listing[i])
  BY <1>1 DEF FilesInv
<1>3. UNCHANGED <<life, files, isize, syscall, lost, raced, listing>>
  BY DEF SysClose
<1>4. PICK g \in Handle : g = handles[p][fd]
  BY <1>1 DEF FilesTyped
<1>5. g.value.sock \in BOOLEAN /\ confused' = g.value.sock
  BY <1>1, <1>4 DEF Handle, FdValue, SysClose, FileCall
<1>6. PICK h \in Handle : h = ReleaseHandle(g) /\ ~h.active
  <2>1. PICK k \in Nat : k = g.generation + 1
    BY DEF Handle
  <2>2. [sock |-> FALSE, id |-> 0] \in FdValue
    BY DEF FdValue
  <2>3. ReleaseHandle(g) = [value |-> [sock |-> FALSE, id |-> 0], active |-> FALSE, generation |-> k]
    BY <2>1 DEF ReleaseHandle, NoHandle
  <2>4. ReleaseHandle(g) \in Handle /\ ~ReleaseHandle(g).active
    BY <2>2, <2>3 DEF Handle
  <2> QED  BY <2>4
<1>7. handles' = [handles EXCEPT ![p] = [handles[p] EXCEPT ![fd] = h]]
  BY <1>1, <1>4, <1>6 DEF SysClose, FilesTyped
<1>8. /\ handles' \in [Procs -> [Slots -> Handle]]
      /\ \A q \in Procs, t \in Slots : handles'[q][t] = IF q = p /\ t = fd THEN h ELSE handles[q][t]
      /\ \A q \in Procs \ {p} : handles'[q] = handles[q]
  BY <1>1, <1>7 DEF FilesTyped
<1>9. PICK id : id = FdTarget(p, fd) /\ id = g.value.id
  BY <1>4 DEF FdTarget
<1>10. openfiles' \in [OpenIds -> OpenFile] /\ \A j \in OpenIds :
         /\ j # id => openfiles'[j] = openfiles[j]
         /\ j = id => ~openfiles'[j].active
  <2>1. CASE id \in OpenIds /\ openfiles[id].active
    <3>1. PICK o \in OpenFile : o = openfiles[id]
      BY <1>1, <2>1 DEF FilesTyped
    <3>2. PICK d \in OpenFile : d = [[o EXCEPT !.active = FALSE] EXCEPT !.inode_id = 0] /\ ~d.active
      <4>1. PICK d : d = [[o EXCEPT !.active = FALSE] EXCEPT !.inode_id = 0]
        OBVIOUS
      <4>2. d \in OpenFile /\ ~d.active
        BY <4>1 DEF OpenFile, Serial
      <4> QED  BY <4>1, <4>2
    <3>3. openfiles' = [openfiles EXCEPT ![id].active = FALSE, ![id].inode_id = 0]
      BY <1>9, <2>1 DEF SysClose
    <3>4. openfiles' = [openfiles EXCEPT ![id] = d]
      BY <1>1, <2>1, <3>1, <3>2, <3>3 DEF FilesTyped
    <3> QED  BY <1>1, <2>1, <3>2, <3>4 DEF FilesTyped
  <2>2. CASE ~(id \in OpenIds /\ openfiles[id].active)
    BY <1>1, <1>9, <2>2 DEF SysClose, FilesTyped
  <2> QED  BY <2>1, <2>2
<1>11. FilesTyped'
  BY <1>1, <1>3, <1>5, <1>8, <1>10 DEF FilesTyped
<1>12. NewQuiet' /\ SizesKept'
  BY <1>1, <1>3, <1>8 DEF FilesInv, NewQuiet, SizesKept, InUpdate
<1>13. ASSUME ~confused'
       PROVE  /\ Matched(handles', openfiles', lost') /\ CallsOwn(syscall', handles', openfiles')
              /\ \A j \in OpenIds : Listed(openfiles'[j], listing'[j])
  <2>1. IsFileOf(handles[p][fd], id) /\ ~IsFile(h)
    BY <1>1, <1>4, <1>5, <1>6, <1>9, <1>13 DEF IsFileOf, IsFile
  <2>2. id \in OpenIds
    BY <1>2, <2>1 DEF Matched, IsFileOf
  <2>3. PICK C, H, O, L, C2, H2, O2 :
          /\ C = syscall /\ H = handles /\ O = openfiles /\ L = lost
          /\ C2 = syscall' /\ H2 = handles' /\ O2 = openfiles'
    OBVIOUS
  <2>4. /\ Matched(H, O, L) /\ IsFileOf(H[p][fd], id)
        /\ \A q \in Procs, t \in Slots : H2[q][t] = IF q = p /\ t = fd THEN h ELSE H[q][t]
        /\ \A j \in OpenIds : O2[j].active <=> j # id /\ O[j].active
    BY <1>2, <1>8, <1>10, <2>1, <2>3
  <2>5. Matched(H2, O2, L)
    BY <2>1, <2>2, <2>4, MatchedClosed
  <2>6. CallsOwn(C2, H2, O2)
    <3>1. ASSUME NEW q \in Procs \ {p}, NEW t \in Slots, IsFile(H[q][t])
          PROVE  O2[H[q][t].value.id].inode_id = O[H[q][t].value.id].inode_id
      <4>1. H[q][t].value.id \in OpenIds /\ H[q][t].value.id # id
        BY <2>4, <3>1 DEF Matched, IsFileOf
      <4> QED  BY <1>10, <2>3, <4>1
    <3>2. CallsOwn(C, H, O) /\ InOrderOf(C2[p], H2[p], O2) /\ \A q \in Procs \ {p} : H2[q] = H[q] /\ C2[q] = C[q]
      BY <1>1, <1>2, <1>3, <1>8, <2>3 DEF InOrderOf
    <3> QED  BY <3>1, <3>2, CallsUndisturbed
  <2>7. \A j \in OpenIds : Listed(openfiles'[j], listing'[j])
    BY <1>2, <1>3, <1>10 DEF Listed
  <2> QED  BY <1>3, <2>3, <2>5, <2>6, <2>7
<1> QED  BY <1>11, <1>12, <1>13 DEF FilesInv

LEMMA GetdentsKeeps ==
  ASSUME FilesInv, NEW p \in Procs, NEW fd \in Slots, NEW room \in DirentRooms, SysGetdents(p, fd, room)
  PROVE  FilesInv'
<1>1. FilesTyped /\ ~confused /\ life[p] = "live" /\ syscall[p] = Idle /\ handles[p][fd].active
  BY DEF FilesInv, SysGetdents, FileCall, Enter, Resolves
<1>2. /\ Matched(handles, openfiles, lost) /\ CallsOwn(syscall, handles, openfiles)
      /\ \A i \in OpenIds : Listed(openfiles[i], listing[i])
  BY <1>1 DEF FilesInv
<1>3. UNCHANGED <<life, handles, files, isize, syscall, lost, raced>> /\ confused' \in BOOLEAN
  <2>1. handles[p][fd].value.sock \in BOOLEAN
    BY <1>1 DEF FilesTyped, Handle, FdValue
  <2> QED  BY <1>1, <2>1 DEF SysGetdents, FileCall
<1>4. PICK id \in OpenIds : id = FdTarget(p, fd) /\ openfiles[id].active /\ openfiles[id].inode_id \in TmpfsDirs
  BY DEF SysGetdents
<1>5. PICK o \in OpenFile, l \in Seq(Dirent), all \in Seq(Dirent) :
        o = openfiles[id] /\ l = listing[id] /\ all = DirEntries(o.inode_id)
  BY <1>1, BootInodes DEF FilesTyped
<1>6. PICK from \in Nat, n \in Nat, r \in Nat : from = o.offset /\ n = Len(all) /\ r = room
  BY FilesAssumption DEF OpenFile
<1>7. from <= n /\ l = SubSeq(all, 1, from)
  BY <1>2, <1>4, <1>5, <1>6 DEF Listed
<1>8. PICK m \in Nat : m = Min({n, from + r}) /\ m <= n /\ m >= from
  <2>1. PICK k \in Nat : k = from + r /\ k >= from
    OBVIOUS
  <2>3. n \in Int /\ k \in Int
    OBVIOUS
  <2>2. Min({n, k}) = IF n <= k THEN n ELSE k
    BY <2>3, OfTwo
  <2> QED  BY <1>7, <2>1, <2>2
<1>9. PICK to \in Nat : to = Max({from, m}) /\ from <= to /\ to <= n
  <2>1. Max({from, m}) = IF from >= m THEN from ELSE m
    BY OfTwo
  <2> QED  BY <1>7, <1>8, <2>1
<1>10. NextDirent(all, to) = to
  <2>2. n \in Int /\ to \in Int
    OBVIOUS
  <2>1. Min({to, n}) = IF to <= n THEN to ELSE n
    BY <2>2, OfTwo
  <2> QED  BY <1>6, <1>9, <2>1 DEF NextDirent
<1>11. /\ openfiles' = [openfiles EXCEPT ![id].offset = to]
       /\ listing' = [listing EXCEPT ![id] = l \o SubSeq(all, from + 1, to)]
  BY <1>4, <1>5, <1>6, <1>8, <1>9, <1>10 DEF SysGetdents
<1>12. PICK new \in Seq(Dirent) : new = SubSeq(all, 1, to) /\ listing' = [listing EXCEPT ![id] = new]
  <2>1. l \o SubSeq(all, from + 1, to) = SubSeq(all, 1, to) /\ SubSeq(all, 1, to) \in Seq(Dirent)
    BY <1>6, <1>7, <1>9, ListingGoesOn, ZenonT(40)
  <2> QED  BY <1>11, <2>1
<1>13. PICK e \in OpenFile : e = [o EXCEPT !.offset = to] /\ e.offset = to /\ e.active = o.active /\ e.inode_id = o.inode_id
  <2>1. PICK e : e = [o EXCEPT !.offset = to]
    OBVIOUS
  <2>2. e \in OpenFile /\ e.offset = to /\ e.active = o.active /\ e.inode_id = o.inode_id
    BY <2>1 DEF OpenFile
  <2> QED  BY <2>1, <2>2
<1>14. openfiles' = [openfiles EXCEPT ![id] = e]
  BY <1>1, <1>5, <1>11, <1>13 DEF FilesTyped
<1>15. /\ openfiles' \in [OpenIds -> OpenFile] /\ listing' \in [OpenIds -> Seq(Dirent)]
       /\ \A j \in OpenIds : openfiles'[j] = IF j = id THEN e ELSE openfiles[j]
       /\ \A j \in OpenIds : listing'[j] = IF j = id THEN new ELSE listing[j]
  BY <1>1, <1>12, <1>14 DEF FilesTyped
<1>16. FilesTyped'
  BY <1>1, <1>3, <1>15 DEF FilesTyped
<1>17. NewQuiet' /\ SizesKept'
  BY <1>3 DEF FilesInv, NewQuiet, SizesKept, InUpdate
<1>18. \A j \in OpenIds : /\ openfiles'[j].active <=> openfiles[j].active
                          /\ openfiles'[j].inode_id = openfiles[j].inode_id
  BY <1>5, <1>13, <1>15
<1>19. Matched(handles, openfiles', lost)
  BY <1>2, <1>18, MatchedSame
<1>20. CallsOwn(syscall, handles, openfiles')
  <2> SUFFICES ASSUME NEW q \in Procs, syscall[q] # Idle PROVE InOrderOf(syscall[q], handles[q], openfiles')
    BY DEF CallsOwn, InOrderOf
  <2>1. syscall[q].id \in OpenIds
    BY <1>1 DEF FilesTyped, Reading, Writing, Updating
  <2>2. InOrderOf(syscall[q], handles[q], openfiles)
    BY <1>2 DEF CallsOwn
  <2> QED  BY <1>18, <2>1, <2>2 DEF InOrderOf
<1>21. Listed(e, new)
  BY <1>5, <1>6, <1>9, <1>12, <1>13 DEF Listed
<1>22. \A j \in OpenIds : Listed(openfiles'[j], listing'[j])
  BY <1>2, <1>15, <1>21
<1> QED  BY <1>3, <1>16, <1>17, <1>19, <1>20, <1>22 DEF FilesInv

LEMMA SocketKeeps ==
  ASSUME FilesInv, NEW p \in Procs, NEW id \in SocketIds, SysSocket(p, id)
  PROVE  FilesInv'
<1>1. FilesTyped /\ ~confused /\ life[p] = "live" /\ syscall[p] = Idle
  BY DEF FilesInv, SysSocket, Enter
<1>2. /\ Matched(handles, openfiles, lost) /\ CallsOwn(syscall, handles, openfiles)
      /\ \A i \in OpenIds : Listed(openfiles[i], listing[i])
  BY <1>1 DEF FilesInv
<1>3. UNCHANGED <<life, openfiles, files, isize, syscall, lost, confused, raced, listing>>
  BY DEF SysSocket
<1>4. CASE FreeSlots(p) = {}
  BY <1>3, <1>4, FilesUntouched DEF SysSocket
<1>5. CASE FreeSlots(p) # {}
  <2>1. PICK v \in FdValue : v = [sock |-> TRUE, id |-> id] /\ v.sock
    <3>1. [sock |-> TRUE, id |-> id] \in FdValue
      BY DEF FdValue
    <3> QED  BY <3>1
  <2>2. PICK table \in [Slots -> Handle] : table = handles[p]
    BY <1>1 DEF FilesTyped
  <2>3. PICK s \in Slots, h \in Handle :
          /\ ~table[s].active /\ h.active /\ h.value = v
          /\ GiveHandle(table, v) \in [Slots -> Handle]
          /\ \A t \in Slots : GiveHandle(table, v)[t] = IF t = s THEN h ELSE table[t]
    <3>1. \E s \in Slots : ~table[s].active
      BY <1>5, <2>2 DEF FreeSlots
    <3> QED  BY <3>1, SlotTaken
  <2>4. handles' = [handles EXCEPT ![p] = GiveHandle(table, v)]
    BY <1>5, <2>1, <2>2 DEF SysSocket
  <2>5. /\ handles' \in [Procs -> [Slots -> Handle]]
        /\ \A q \in Procs, t \in Slots : handles'[q][t] = IF q = p /\ t = s THEN h ELSE handles[q][t]
        /\ \A q \in Procs \ {p} : handles'[q] = handles[q]
    BY <1>1, <2>2, <2>3, <2>4 DEF FilesTyped
  <2>6. FilesTyped' /\ SizesKept'
    BY <1>1, <1>3, <2>5 DEF FilesInv, FilesTyped, SizesKept, InUpdate
  <2>7. NewQuiet'
    BY <1>1, <1>3, <2>5 DEF FilesInv, NewQuiet
  <2>8. Matched(handles', openfiles, lost)
    <3>1. ~IsFile(h) /\ ~IsFile(handles[p][s])
      BY <2>1, <2>2, <2>3 DEF IsFile
    <3>2. \A q \in Procs, t \in Slots : /\ IsFile(handles'[q][t]) <=> IsFile(handles[q][t])
                                        /\ IsFile(handles[q][t]) => handles'[q][t].value.id = handles[q][t].value.id
      BY <2>5, <3>1
    <3> QED  BY <1>2, <3>2, MatchedSame
  <2>9. CallsOwn(syscall, handles', openfiles)
    <3> SUFFICES ASSUME NEW q \in Procs PROVE InOrderOf(syscall[q], handles'[q], openfiles)
      BY DEF CallsOwn
    <3>1. CASE q = p
      BY <1>1, <3>1 DEF InOrderOf
    <3>2. CASE q # p
      <4>1. handles'[q] = handles[q]
        BY <2>5, <3>2
      <4> QED  BY <1>2, <4>1 DEF CallsOwn
    <3> QED  BY <3>1, <3>2
  <2> QED  BY <1>2, <1>3, <2>6, <2>7, <2>8, <2>9 DEF FilesInv
<1> QED  BY <1>4, <1>5

LEMMA ExitKeeps ==
  ASSUME FilesInv, NEW p \in Procs, SysExit(p)
  PROVE  FilesInv'
<1>1. /\ life' = [life EXCEPT ![p] = "exited"]
      /\ UNCHANGED <<handles, openfiles, files, isize, syscall, lost, confused, raced, listing>>
  BY DEF SysExit
<1>2. life' \in [Procs -> {"new", "live", "exited"}] /\ \A q \in Procs : life'[q] = IF q = p THEN "exited" ELSE life[q]
  BY <1>1 DEF FilesInv, FilesTyped
<1>3. FilesTyped' /\ SizesKept'
  BY <1>1, <1>2 DEF FilesInv, FilesTyped, SizesKept, InUpdate
<1>4. NewQuiet'
  BY <1>1, <1>2 DEF FilesInv, NewQuiet
<1> QED  BY <1>1, <1>3, <1>4 DEF FilesInv

LEMMA RestartKeeps ==
  ASSUME FilesInv, NEW p \in Procs, Restart(p)
  PROVE  FilesInv'
<1>1. FilesTyped /\ ~confused /\ life[p] = "live" /\ syscall[p] = Idle
  BY DEF FilesInv, Restart, Enter
<1>2. /\ Matched(handles, openfiles, lost) /\ CallsOwn(syscall, handles, openfiles)
      /\ \A i \in OpenIds : Listed(openfiles[i], listing[i])
  BY <1>1 DEF FilesInv
<1>3. UNCHANGED <<life, openfiles, files, isize, syscall, confused, raced, listing>>
  BY DEF Restart
<1>4. NoHandle \in Handle /\ ~NoHandle.active
  BY DEF NoHandle, Handle, FdValue
<1>5. PICK table \in [Slots -> Handle] : table = [s \in Slots |-> NoHandle] /\ \A s \in Slots : ~table[s].active
  <2>1. PICK table : table = [s \in Slots |-> NoHandle]
    OBVIOUS
  <2>2. table \in [Slots -> Handle] /\ \A s \in Slots : ~table[s].active
    BY <1>4, <2>1
  <2> QED  BY <2>1, <2>2
<1>6. /\ handles' \in [Procs -> [Slots -> Handle]] /\ handles'[p] = table
      /\ \A q \in Procs \ {p} : handles'[q] = handles[q]
  BY <1>1, <1>5 DEF Restart, FilesTyped
<1>7. lost \subseteq lost' /\ \A s \in Slots : IsFile(handles[p][s]) => handles[p][s].value.id \in lost'
  BY DEF Restart, FdTarget, IsFile
<1>8. FilesTyped' /\ SizesKept'
  BY <1>1, <1>3, <1>6 DEF FilesInv, FilesTyped, SizesKept, InUpdate
<1>9. NewQuiet'
  BY <1>1, <1>3, <1>6 DEF FilesInv, NewQuiet
<1>10. Matched(handles', openfiles, lost')
  <2>1. \A s \in Slots : ~IsFile(handles'[p][s])
    BY <1>5, <1>6 DEF IsFile
  <2>2. \A q \in Procs, t \in Slots : q # p => handles'[q][t] = handles[q][t]
    BY <1>6
  <2> QED  BY <1>2, <1>7, <2>1, <2>2, MatchedCleared
<1>11. CallsOwn(syscall, handles', openfiles)
  <2> SUFFICES ASSUME NEW q \in Procs PROVE InOrderOf(syscall[q], handles'[q], openfiles)
    BY DEF CallsOwn
  <2>1. CASE q = p
    BY <1>1, <2>1 DEF InOrderOf
  <2>2. CASE q # p
    <3>1. handles'[q] = handles[q]
      BY <1>6, <2>2
    <3> QED  BY <1>2, <3>1 DEF CallsOwn
  <2> QED  BY <2>1, <2>2
<1> QED  BY <1>2, <1>3, <1>8, <1>9, <1>10, <1>11 DEF FilesInv

(* Three free places, the first ones, if there are three. *)
LEMMA FirstThree ==
  ASSUME NEW T \in SUBSET Nat, IsFiniteSet(T), Cardinality(T) >= 3
  PROVE  \E s \in [1 .. 3 -> T] : /\ s[1] < s[2] /\ s[2] < s[3]
                                  /\ \A i \in T : i <= s[3] => i \in {s[1], s[2], s[3]}
<1>1. ASSUME NEW U \in SUBSET Nat, IsFiniteSet(U), NEW k \in Nat, Cardinality(U) >= k + 1
      PROVE  \E m \in U : /\ \A y \in U : m <= y
                          /\ IsFiniteSet(U \ {m}) /\ Cardinality(U \ {m}) >= k
  <2>1. U # {} /\ Cardinality(U) \in Nat
    BY <1>1, FS_EmptySet, FS_CardinalityType
  <2>2. PICK m \in U : \A y \in U : m <= y
    BY <2>1, LeastNat
  <2>3. IsFiniteSet(U \ {m}) /\ Cardinality(U \ {m}) = Cardinality(U) - 1
    BY <1>1, FS_RemoveElement
  <2>4. Cardinality(U \ {m}) >= k
    <3>1. PICK c \in Nat : c = Cardinality(U) /\ c >= k + 1
      BY <1>1, <2>1
    <3> QED  BY <2>3, <3>1
  <2> QED  BY <2>2, <2>3, <2>4
<1>2. PICK x \in T : (\A i \in T : x <= i) /\ IsFiniteSet(T \ {x}) /\ Cardinality(T \ {x}) >= 2
  <2>1. Cardinality(T) >= 2 + 1
    OBVIOUS
  <2> QED  BY <1>1, <2>1
<1>3. PICK A \in SUBSET Nat : A = T \ {x} /\ IsFiniteSet(A) /\ Cardinality(A) >= 1 + 1
  BY <1>2
<1>4. PICK y \in A : (\A i \in A : y <= i) /\ IsFiniteSet(A \ {y}) /\ Cardinality(A \ {y}) >= 1
  BY <1>1, <1>3
<1>5. PICK B \in SUBSET Nat : B = A \ {y} /\ IsFiniteSet(B) /\ Cardinality(B) >= 0 + 1
  BY <1>4
<1>6. PICK z \in B : \A i \in B : z <= i
  BY <1>1, <1>5
<1>7. x \in Nat /\ y \in Nat /\ z \in Nat /\ y \in T /\ z \in T /\ x < y /\ y < z
  BY <1>2, <1>3, <1>4, <1>5, <1>6
<1>8. \A i \in T : i <= z => i = x \/ i = y \/ i = z
  BY <1>3, <1>5, <1>6, <1>7
<1>9. PICK s : s = [n \in 1 .. 3 |-> IF n = 1 THEN x ELSE IF n = 2 THEN y ELSE z]
  BY Zenon
<1>10. s \in [1 .. 3 -> T] /\ s[1] = x /\ s[2] = y /\ s[3] = z
  BY <1>7, <1>9
<1> QED  BY <1>7, <1>8, <1>10

LEMMA StdioKeeps ==
  ASSUME FilesInv, NEW p \in Procs, SetupStdio(p)
  PROVE  FilesInv'
<1>1. FilesTyped /\ life[p] = "new" /\ syscall[p] = Idle /\ \A s \in Slots : ~handles[p][s].active
  BY ZenonT(40) DEF FilesInv, NewQuiet, SetupStdio
<1>4. PICK T \in SUBSET Nat, c \in Nat : T = FreeOpen(openfiles) /\ IsFiniteSet(T) /\ c = Cardinality(T)
  <2>1. IsFiniteSet(OpenIds) /\ FreeOpen(openfiles) \in SUBSET OpenIds /\ OpenIds \in SUBSET Nat
    BY FilesAssumption, FS_Interval DEF OpenIds, FreeOpen
  <2>2. IsFiniteSet(FreeOpen(openfiles))
    BY <2>1, FS_Subset
  <2>3. Cardinality(FreeOpen(openfiles)) \in Nat
    BY <2>2, FS_CardinalityType
  <2> QED  BY <2>1, <2>2, <2>3
<1>2. CASE ~(c >= 3)
  <2>1. Panic
    BY <1>2, <1>4, Zenon DEF SetupStdio
  <2> QED  BY <2>1, FilesUntouched DEF Panic
<1>3. CASE c >= 3
  <2> DEFINE Right(s) == s[1] < s[2] /\ s[2] < s[3] /\ \A i \in T : i <= s[3] => i \in {s[1], s[2], s[3]}
  <2>2. PICK ids \in [1 .. 3 -> T] : ids = (CHOOSE s \in [1 .. 3 -> T] : Right(s)) /\ Right(ids)
    <3>1. \E s \in [1 .. 3 -> T] : Right(s)
      BY <1>3, <1>4, FirstThree
    <3> HIDE DEF Right
    <3> QED  BY <3>1
  <2>3. PICK x \in OpenIds, y \in OpenIds, z \in OpenIds :
          /\ x = ids[1] /\ y = ids[2] /\ z = ids[3] /\ x # y /\ x # z /\ y # z
          /\ ~openfiles[x].active /\ ~openfiles[y].active /\ ~openfiles[z].active
    <3>1. ids[1] \in T /\ ids[2] \in T /\ ids[3] \in T /\ ids[1] < ids[2] /\ ids[2] < ids[3]
      BY <2>2
    <3>2. ids[1] \in Nat /\ ids[2] \in Nat /\ ids[3] \in Nat
      BY <3>1
    <3>3. ids[1] # ids[2] /\ ids[1] # ids[3] /\ ids[2] # ids[3]
      BY <3>1, <3>2
    <3> QED  BY <1>4, <3>1, <3>3 DEF FreeOpen
  <2>4. PICK r \in OpenFile, w \in OpenFile :
          /\ r = OpenEntry(Null, {"READ"}) /\ r.active /\ r.offset = 0
          /\ w = OpenEntry(Serial, {"WRITE"}) /\ w.active /\ w.offset = 0
    <3>1. OpenEntry(Null, {"READ"}) \in OpenFile /\ OpenEntry(Serial, {"WRITE"}) \in OpenFile
      BY DEF OpenEntry, OpenFile
    <3> QED  BY <3>1 DEF OpenEntry
  <2>5. 0 \in Slots /\ 1 \in Slots /\ 2 \in Slots
    BY FilesAssumption DEF Slots
  <2>6. PICK H \in [Procs -> [Slots -> Handle]], O \in [OpenIds -> OpenFile] : H = handles /\ O = openfiles
    BY <1>1 DEF FilesTyped
  <2>7. PICK t1, t2, t3 : /\ t1 = GiveHandle(H[p], FileValue(x)) /\ t2 = GiveHandle(t1, FileValue(y))
                          /\ t3 = GiveHandle(t2, FileValue(z))
    OBVIOUS
  <2>8. PICK H1, H2, H3, O1, O2, O3 :
          /\ H1 = [H EXCEPT ![p] = t1] /\ H2 = [H EXCEPT ![p] = t2] /\ H3 = [H EXCEPT ![p] = t3]
          /\ O1 = [O EXCEPT ![x] = r] /\ O2 = [O1 EXCEPT ![y] = w] /\ O3 = [O2 EXCEPT ![z] = w]
    OBVIOUS
  <2>9. \A s \in Slots : ~H[p][s].active
    BY <1>1, <2>6
  <2>10. \A j \in OpenIds : /\ O1[j] = IF j = x THEN r ELSE O[j]
                            /\ O2[j] = IF j = y THEN w ELSE O1[j]
                            /\ O3[j] = IF j = z THEN w ELSE O2[j]
    BY <2>8
  <2>11. \A q \in Procs : /\ H1[q] = IF q = p THEN t1 ELSE H[q]
                          /\ H2[q] = IF q = p THEN t2 ELSE H[q]
                          /\ H3[q] = IF q = p THEN t3 ELSE H[q]
    BY <2>8
  <2>12. Gives(p, x, r, H, O, H1, O1)
    BY <2>3, <2>4, <2>5, <2>6, <2>7, <2>9, <2>10, <2>11 DEF Gives
  <2>13. /\ t1 \in [Slots -> Handle] /\ (Matched(H, O, lost) => Matched(H1, O1, lost))
         /\ \E s \in Slots : \A t \in Slots \ {s} : ~t1[t].active
    <3>1. H1[p] \in [Slots -> Handle] /\ (Matched(H, O, lost) => Matched(H1, O1, lost))
      BY <2>12, FileGiven
    <3>2. \E s \in Slots : \A t \in Slots \ {s} : H1[p][t] = H[p][t]
      BY <2>3, <2>4, <2>12, OtherSlotsKept
    <3> QED  BY <2>9, <2>11, <3>1, <3>2
  <2>14. Gives(p, y, w, H1, O1, H2, O2)
    <3>1. \E s \in Slots : ~t1[s].active
      BY <2>5, <2>13
    <3> QED  BY <2>3, <2>4, <2>6, <2>7, <2>10, <2>11, <2>13, <3>1 DEF Gives
  <2>15. /\ t2 \in [Slots -> Handle] /\ (Matched(H1, O1, lost) => Matched(H2, O2, lost))
         /\ \E s \in Slots, u \in Slots : \A t \in Slots \ {s, u} : ~t2[t].active
    <3>1. H2[p] \in [Slots -> Handle] /\ (Matched(H1, O1, lost) => Matched(H2, O2, lost))
      BY <2>14, FileGiven
    <3>2. H2[p] = t2 /\ H1[p] = t1
      BY <2>11
    <3>3. \E s \in Slots : \A t \in Slots \ {s} : H2[p][t] = H1[p][t]
      BY <2>3, <2>4, <2>14, OtherSlotsKept
    <3>4. PICK s \in Slots, u \in Slots :
            (\A t \in Slots \ {s} : ~t1[t].active) /\ (\A t \in Slots \ {u} : t2[t] = t1[t])
      BY <2>13, <3>2, <3>3
    <3>5. \A t \in Slots \ {s, u} : ~t2[t].active
      BY <3>4
    <3> QED  BY <3>1, <3>2, <3>5
  <2>16. Gives(p, z, w, H2, O2, H3, O3)
    <3>1. \E s \in Slots : ~t2[s].active
      <4>1. PICK s \in Slots, u \in Slots : \A t \in Slots \ {s, u} : ~t2[t].active
        BY <2>15
      <4>2. 0 \in Slots \ {s, u} \/ 1 \in Slots \ {s, u} \/ 2 \in Slots \ {s, u}
        BY <2>5
      <4> QED  BY <4>1, <4>2
    <3> QED  BY <2>3, <2>4, <2>6, <2>7, <2>10, <2>11, <2>15, <3>1 DEF Gives
  <2>17. t3 \in [Slots -> Handle] /\ (Matched(H2, O2, lost) => Matched(H3, O3, lost))
    <3>1. H3[p] \in [Slots -> Handle] /\ (Matched(H2, O2, lost) => Matched(H3, O3, lost))
      BY <2>16, FileGiven
    <3> QED  BY <2>11, <3>1
  <2>18. /\ openfiles' = O3 /\ life' = [life EXCEPT ![p] = "live"]
         /\ listing' = [listing EXCEPT ![x] = << >>, ![y] = << >>, ![z] = << >>]
         /\ UNCHANGED <<files, isize, syscall, lost, confused, raced>>
    <3>1. ids = CHOOSE s \in [1 .. 3 -> FreeOpen(openfiles)] : s[1] < s[2] /\ s[2] < s[3]
                  /\ \A i \in FreeOpen(openfiles) : i <= s[3] => i \in {s[1], s[2], s[3]}
      BY <1>4, <2>2
    <3>2. ~(Cardinality(FreeOpen(openfiles)) < 3)
      BY <1>3, <1>4
    <3>3. /\ openfiles' = [openfiles EXCEPT ![ids[1]] = OpenEntry(Null, {"READ"}),
                                            ![ids[2]] = OpenEntry(Serial, {"WRITE"}),
                                            ![ids[3]] = OpenEntry(Serial, {"WRITE"})]
          /\ listing' = [listing EXCEPT ![ids[1]] = << >>, ![ids[2]] = << >>, ![ids[3]] = << >>]
          /\ life' = [life EXCEPT ![p] = "live"]
          /\ UNCHANGED <<files, isize, syscall, lost, confused, raced>>
      BY <3>1, <3>2, Zenon DEF SetupStdio
    <3>4. openfiles' = O3
      BY <2>3, <2>4, <2>6, <2>8, <3>3
    <3> QED  BY <2>3, <3>3, <3>4
  <2>19. handles' = H3
    <3>1. (\E s \in Slots : ~H[p][s].active) /\ (\E s \in Slots : ~t1[s].active) /\ (\E s \in Slots : ~t2[s].active)
      BY <2>12, <2>14, <2>16, <2>11 DEF Gives
    <3> DEFINE give(table, k) == IF \E s \in Slots : ~table[s].active
                                 THEN GiveHandle(table, FileValue(ids[k])) ELSE table
    <3>2. ids = CHOOSE s \in [1 .. 3 -> FreeOpen(openfiles)] : s[1] < s[2] /\ s[2] < s[3]
                  /\ \A i \in FreeOpen(openfiles) : i <= s[3] => i \in {s[1], s[2], s[3]}
      BY <1>4, <2>2
    <3>3. ~(Cardinality(FreeOpen(openfiles)) < 3)
      BY <1>3, <1>4
    <3>4. handles' = [handles EXCEPT ![p] = give(give(give(handles[p], 1), 2), 3)]
      BY <3>2, <3>3, Zenon DEF SetupStdio
    <3>5. give(H[p], 1) = t1
      BY <2>3, <2>7, <3>1
    <3>6. give(t1, 2) = t2
      BY <2>3, <2>7, <3>1
    <3>7. give(t2, 3) = t3
      BY <2>3, <2>7, <3>1
    <3> HIDE DEF give
    <3> QED  BY <2>6, <2>8, <3>4, <3>5, <3>6, <3>7
  <2>20. /\ openfiles' \in [OpenIds -> OpenFile] /\ handles' \in [Procs -> [Slots -> Handle]]
         /\ life' \in [Procs -> {"new", "live", "exited"}]
         /\ \A q \in Procs : life'[q] = "new" => q # p /\ life[q] = "new"
    BY <1>1, <2>6, <2>8, <2>17, <2>18, <2>19 DEF FilesTyped
  <2>21. /\ listing' \in [OpenIds -> Seq(Dirent)]
         /\ \A j \in OpenIds : listing'[j] = IF j \in {x, y, z} THEN << >> ELSE listing[j]
    <3>1. << >> \in Seq(Dirent)
      OBVIOUS
    <3> QED  BY <1>1, <2>18, <3>1 DEF FilesTyped
  <2>22. \A j \in OpenIds : openfiles'[j] = IF j \in {y, z} THEN w ELSE IF j = x THEN r ELSE openfiles[j]
    BY <2>3, <2>6, <2>10, <2>18
  <2>23. \A q \in Procs \ {p} : handles'[q] = handles[q] /\ syscall'[q] = syscall[q]
    BY <2>6, <2>11, <2>18, <2>19
  <2>24. FilesTyped' /\ SizesKept'
    <3>1. FilesTyped'
      BY <1>1, <2>18, <2>20, <2>21 DEF FilesTyped
    <3>2. SizesKept'
      BY <2>18 DEF FilesInv, SizesKept, InUpdate
    <3> QED  BY <3>1, <3>2
  <2>25. NewQuiet'
    BY <2>18, <2>20, <2>23 DEF FilesInv, NewQuiet
  <2>26. ASSUME ~confused
         PROVE  /\ Matched(handles', openfiles', lost') /\ CallsOwn(syscall', handles', openfiles')
                /\ \A j \in OpenIds : Listed(openfiles'[j], listing'[j])
    <3>1. /\ Matched(H, O, lost) /\ CallsOwn(syscall, H, O)
          /\ \A i \in OpenIds : Listed(openfiles[i], listing[i])
      BY <2>6, <2>26 DEF FilesInv
    <3>2. Matched(H3, O3, lost)
      BY <2>13, <2>15, <2>17, <3>1
    <3>3. CallsOwn(syscall, H3, O3)
      <4> SUFFICES ASSUME NEW q \in Procs, syscall[q] # Idle PROVE InOrderOf(syscall[q], H3[q], O3)
        BY DEF CallsOwn, InOrderOf
      <4>1. H3[q] = H[q] /\ InOrderOf(syscall[q], H[q], O)
        BY <1>1, <2>11, <3>1 DEF CallsOwn
      <4>2. syscall[q].id \in OpenIds /\ O[syscall[q].id].active
        BY <3>1, <4>1 DEF InOrderOf, IsFileOf, Matched
      <4>3. O3[syscall[q].id] = O[syscall[q].id]
        BY <2>3, <2>6, <2>10, <4>2
      <4> QED  BY <4>1, <4>3 DEF InOrderOf
    <3>4. ASSUME NEW j \in OpenIds PROVE Listed(openfiles'[j], listing'[j])
      <4>1. CASE j \in {x, y, z}
        <5>1. listing'[j] = << >> /\ openfiles'[j].offset = 0
          BY <2>4, <2>21, <2>22, <4>1
        <5> QED  BY <5>1, NothingListed
      <4>2. CASE j \notin {x, y, z}
        <5>1. listing'[j] = listing[j] /\ openfiles'[j] = openfiles[j]
          BY <2>21, <2>22, <4>2
        <5> QED  BY <3>1, <5>1
      <4> QED  BY <4>1, <4>2
    <3> QED  BY <2>18, <2>19, <3>2, <3>3, <3>4
  <2> QED  BY <2>18, <2>24, <2>25, <2>26 DEF FilesInv
<1> QED  BY <1>2, <1>3

LEMMA FilesStep == FilesInv /\ [FilesNext]_fvars => FilesInv'
<1> SUFFICES ASSUME FilesInv, [FilesNext]_fvars PROVE FilesInv'
  OBVIOUS
<1>1. CASE UNCHANGED fvars
  BY <1>1, FilesUntouched DEF fvars
<1>2. CASE FilesNext
  <2>1. PICK p \in Procs :
          \/ SetupStdio(p) \/ ReadFinish(p) \/ WriteApply(p) \/ WriteFinish(p) \/ SysExit(p) \/ Restart(p)
          \/ \E path \in Paths, flags \in FlagSets : SysOpen(p, path, flags)
          \/ \E fd \in Slots, len \in ReadLens : ReadBegin(p, fd, len)
          \/ \E fd \in Slots, data \in Writes : WriteBegin(p, fd, data)
          \/ \E fd \in Slots : SysClose(p, fd)
          \/ \E fd \in Slots, room \in DirentRooms : SysGetdents(p, fd, room)
          \/ \E id \in SocketIds : SysSocket(p, id)
    BY <1>2 DEF FilesNext
  <2> QED
    BY <2>1, StdioKeeps, ReadFinishKeeps, WriteApplyKeeps, WriteFinishKeeps, ExitKeeps, RestartKeeps,
       OpenKeeps, ReadBeginKeeps, WriteBeginKeeps, CloseKeeps, GetdentsKeeps, SocketKeeps
<1> QED  BY <1>1, <1>2

(* For any number of processes, handles, open files and entries of the     *)
(* archive, wherever system calls are interleaved: until a file call is    *)
(* made on a socket descriptor, handles and open files match and listings  *)
(* are exact; the size in an inode follows the file unless writes overlap. *)
THEOREM FilesExactEver == FilesSpec => []FilesExact
BY FilesStart, FilesStep, FilesSays, PTL DEF FilesSpec
=============================================================================
