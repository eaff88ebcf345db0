------------------------------- MODULE Sockets -------------------------------
(***************************************************************************)
(* Sockets over the loopback interface: the socket table, UDP, the TCP     *)
(* state machine, and the packet queue (kernel/src/network: socket, ops,   *)
(* tcp, udp, loopback, nic_dispatch).  There is no network thread: a       *)
(* packet is delivered by whichever process calls into the stack, one per  *)
(* deliver_one.  deliver_one takes the packet under one lock and applies   *)
(* it under another, and system calls are preempted, so two processes may  *)
(* hold packets at the same time.                                          *)
(* Addresses are the loopback address, so ports identify endpoints, and    *)
(* initial sequence numbers are 0.  The retransmission queues stay empty:  *)
(* nothing outside the tests puts a segment into one.  A send is one byte, *)
(* or more than a packet holds.                                            *)
(***************************************************************************)
EXTENDS Integers, Sequences, FiniteSets, FiniteSetsExt, SequencesExt, TLC

CONSTANTS
  Users,         \* processes
  MaxSockets,    \* MAX_SOCKETS
  MaxBacklog,    \* MAX_BACKLOG
  QueueSize,     \* LOOPBACK_QUEUE_SIZE
  RingSize,      \* RING_BUF_SIZE, in bytes
  Iters,         \* deliveries attempted by connect, accept and shutdown
  BindPorts,     \* ports given to bind and connect
  Ephemeral,     \* first ephemeral port
  Protocols,     \* "Tcp", "Udp"
  MaxCreated,    \* bound: sockets created by processes
  MaxSends       \* bound: sends, sequence of the bytes they carry

VARIABLES
  socks,    \* SOCKETS: slot -> socket; birth, peer and got (what recv has read) are history
  queue,    \* LOOPBACK
  pend,     \* process -> the call it is in
  nextPort, \* PORT_COUNTER
  created,  \* sockets created by processes
  sent,     \* history: birth -> bytes whose send returned Ok
  births,   \* history: sockets allocated, also the name of the next one
  lost,     \* history: bytes of sends that were dropped on the way
  trouble   \* history: deliveries that went wrong

svars == <<socks, queue, pend, nextPort, created, sent, births, lost, trouble>>

SockSlots == 0 .. MaxSockets - 1
EmptySocket == [active |-> FALSE, generation |-> 0, protocol |-> "Tcp", port |-> 0, remote |-> 0,
                state |-> "Closed", owner |-> 0, rx |-> << >>, send_seq |-> 0, recv_seq |-> 0,
                backlog |-> << >>, birth |-> 0, peer |-> 0, got |-> << >>]
NoCall == [op |-> "none"]
MaxBirths == 2 * MaxCreated
-----------------------------------------------------------------------------
(* The socket table *)

(* SocketTable::alloc: the first inactive slot, with the next generation. *)
FreeSockets(tbl) == {s \in SockSlots : ~tbl[s].active}
AllocIn(tbl, protocol, owner, birth) ==
  LET s == Min(FreeSockets(tbl))
  IN  [tbl EXCEPT ![s] = [EmptySocket EXCEPT !.active = TRUE, !.generation = tbl[s].generation + 1,
                                             !.protocol = protocol, !.owner = owner, !.birth = birth]]

(* release: alloc overwrites all of an inactive slot but its generation and *)
(* nobody reads it before, so the rest is cleared here.                     *)
Released(sock) == [EmptySocket EXCEPT !.generation = sock.generation]

Id(tbl, s) == [slot |-> s, generation |-> tbl[s].generation]
(* SocketTable::get: the slot is active and of the generation of the id. *)
Valid(tbl, id) == tbl[id.slot].active /\ tbl[id.slot].generation = id.generation
Ids == {Id(socks, s) : s \in {t \in SockSlots : socks[t].active}}

PortInUse(port, protocol) ==
  \E s \in SockSlots : socks[s].active /\ socks[s].protocol = protocol /\ socks[s].port = port

(* find_by_local, find_tcp_connection, find_listener: the first slot. *)
FindByLocal(tbl, port) == {s \in SockSlots : tbl[s].active /\ tbl[s].protocol = "Udp" /\ tbl[s].port = port}
FindConnection(tbl, port, remote) ==
  {s \in SockSlots : tbl[s].active /\ tbl[s].protocol = "Tcp" /\ tbl[s].port = port /\ tbl[s].remote = remote}
FindListener(tbl, port) ==
  {s \in SockSlots : tbl[s].active /\ tbl[s].protocol = "Tcp" /\ tbl[s].state = "Listen" /\ tbl[s].port = port}
-----------------------------------------------------------------------------
(* Packets.  from is the birth of the sending socket, a history value. *)

Segment(sock, flags, seq, ack, data) ==
  [protocol |-> "Tcp", src |-> sock.port, dst |-> sock.remote, flags |-> flags,
   seq |-> seq, ack |-> ack, data |-> data, from |-> sock.birth]
Datagram(sock, dst, data) ==
  [protocol |-> "Udp", src |-> sock.port, dst |-> dst, data |-> data, from |-> sock.birth]

(* transmit_ip into the loopback queue, which drops what does not fit. *)
Transmit(q, packets) == IF Len(q) + Len(packets) <= QueueSize THEN q \o packets ELSE q
Dropped(q, packets) ==
  IF Len(q) + Len(packets) > QueueSize THEN UNION {Range(packets[i].data) : i \in DOMAIN packets} ELSE {}

(* RingBuffer::write keeps what fits. *)
RingWrite(rx, data) == rx \o SubSeq(data, 1, Min({Len(data), RingSize - Len(rx)}))
Overflow(rx, data) == Range(SubSeq(data, RingSize - Len(rx) + 1, Len(data)))

(* What a packet does to the table: what it is answered with, the sockets   *)
(* it allocates, the bytes that are lost, and what went wrong.              *)
Ignored(tbl) == [tbl |-> tbl, reply |-> << >>, new |-> 0, lost |-> {}, note |-> {}]

(* udp_receive_packet: the datagram is queued behind its header of sender   *)
(* and length.  One cell stands for the header.                             *)
UdpReceive(tbl, pkt) ==
  LET hits == FindByLocal(tbl, pkt.dst)
      s == Min(hits)
      record == <<Len(pkt.data)>> \o pkt.data
  IN  IF hits = {} THEN Ignored(tbl)
      ELSE [Ignored(tbl) EXCEPT !.tbl = [tbl EXCEPT ![s].rx = RingWrite(@, record)]]

(* handle_syn: a connection is allocated and answered even when the backlog *)
(* is full and it can never be accepted.                                    *)
HandleSyn(tbl, l, pkt) ==
  LET c == Min(FreeSockets(tbl))
      conn == [AllocIn(tbl, "Tcp", tbl[l].owner, births + 1)[c] EXCEPT
                 !.port = pkt.dst, !.remote = pkt.src, !.state = "SynReceived",
                 !.recv_seq = pkt.seq + 1, !.peer = pkt.from]
      full == Len(tbl[l].backlog) >= MaxBacklog
  IN  IF FreeSockets(tbl) = {} THEN Ignored(tbl)
      ELSE [tbl |-> [tbl EXCEPT ![c] = conn,
                       ![l].backlog = IF full THEN @
                                      ELSE Append(@, [slot |-> c, generation |-> conn.generation])],
            reply |-> <<Segment(conn, {"SYN", "ACK"}, 0, pkt.seq + 1, << >>)>>,
            new |-> 1, lost |-> {}, note |-> {}]

(* tcp_state_machine.  No state looks at the sequence number of a segment.  *)
Ack(sock) == <<Segment(sock, {"ACK"}, sock.send_seq, sock.recv_seq, << >>)>>
Outcome(sock, reply, missed) == [sock |-> sock, reply |-> reply, lost |-> missed]
FinReceived(sock, pkt, state) ==
  LET new == [sock EXCEPT !.recv_seq = pkt.seq + 1, !.state = state]
  IN  Outcome(new, Ack(new), {})

InSynSent(sock, pkt) ==
  LET new == [sock EXCEPT !.recv_seq = pkt.seq + 1, !.state = "Established", !.peer = pkt.from]
  IN  IF {"SYN", "ACK"} \subseteq pkt.flags THEN Outcome(new, Ack(new), {})
      ELSE Outcome(sock, << >>, {})

InEstablished(sock, pkt) ==
  LET new == [sock EXCEPT !.rx = RingWrite(@, pkt.data), !.recv_seq = pkt.seq + Len(pkt.data)]
  IN  IF "FIN" \in pkt.flags THEN FinReceived(sock, pkt, "CloseWait")
      ELSE IF "ACK" \in pkt.flags /\ pkt.data # << >>
      THEN Outcome(new, Ack(new), Overflow(sock.rx, pkt.data))
      ELSE Outcome(sock, << >>, {})

InFinWait1Short(sock, pkt) ==
  IF "ACK" \in pkt.flags THEN FinReceived(sock, pkt, "TimeWait") ELSE Outcome(sock, << >>, {})
InFinWait1(sock, pkt) ==
  CASE {"ACK", "FIN"} \subseteq pkt.flags -> FinReceived(sock, pkt, "TimeWait")
    [] "ACK" \in pkt.flags -> Outcome([sock EXCEPT !.state = "FinWait2"], << >>, {})
    [] "FIN" \in pkt.flags -> FinReceived(sock, pkt, "Closing")
    [] OTHER -> Outcome(sock, << >>, {})

StateMachine(sock, pkt) ==
  CASE sock.state = "SynSent" -> InSynSent(sock, pkt)
    [] sock.state = "SynReceived" /\ "ACK" \in pkt.flags ->
         Outcome([sock EXCEPT !.send_seq = @ + 1, !.state = "Established"], << >>,
                 Range(pkt.data))
    [] sock.state = "Established" -> InEstablished(sock, pkt)
    [] sock.state = "FinWait1" -> InFinWait1(sock, pkt)
    [] sock.state = "FinWait2" /\ "FIN" \in pkt.flags -> FinReceived(sock, pkt, "TimeWait")
    [] sock.state = "LastAck" /\ "ACK" \in pkt.flags ->
         Outcome(Released(sock), << >>, {})
    [] sock.state = "Closing" /\ "ACK" \in pkt.flags ->
         Outcome([sock EXCEPT !.state = "TimeWait"], << >>, {})
    [] sock.state = "TimeWait" -> Outcome(Released(sock), << >>, {})
    [] OTHER -> Outcome(sock, << >>, {})

(* tcp_receive_packet: a connection first, then a listener for a bare SYN. *)
TcpReceive(tbl, pkt) ==
  LET hits == FindConnection(tbl, pkt.dst, pkt.src)
      s == Min(hits)
      step == StateMachine(tbl[s], pkt)
      listeners == FindListener(tbl, pkt.dst)
      stranger == tbl[s].peer \notin {0, pkt.from}
  IN  IF hits # {}
      THEN [tbl |-> [tbl EXCEPT ![s] = step.sock], reply |-> step.reply, new |-> 0, lost |-> step.lost,
            note |-> IF stranger THEN {"stranger"} ELSE {}]
      ELSE IF "SYN" \in pkt.flags /\ "ACK" \notin pkt.flags /\ listeners # {}
      THEN HandleSyn(tbl, Min(listeners), pkt)
      ELSE Ignored(tbl)

Receive(tbl, pkt) == IF pkt.protocol = "Udp" THEN UdpReceive(tbl, pkt) ELSE TcpReceive(tbl, pkt)
-----------------------------------------------------------------------------
Init ==
  /\ socks = [s \in SockSlots |-> EmptySocket]
  /\ queue = << >>
  /\ pend = [u \in Users |-> NoCall]
  /\ nextPort = Ephemeral
  /\ created = 0
  /\ sent = [b \in 1 .. MaxBirths |-> << >>]
  /\ births = 0
  /\ lost = {} /\ trouble = {}

(* The socket that a process may name: one it owns. *)
Owned(u) == {id \in Ids : socks[id.slot].owner = u}
Free(u) == pend[u] = NoCall

(* After its own work under the lock of the table a call sends packets and  *)
(* then delivers some, at most n.                                           *)
Continue(u, op, id, packets, n) ==
  pend' = [pend EXCEPT ![u] = [op |-> op, id |-> id, out |-> packets, held |-> << >>, behind |-> {}, left |-> n]]

SocketCreate(u, protocol) ==
  /\ Free(u) /\ created < MaxCreated /\ births < MaxBirths
  /\ FreeSockets(socks) # {}
  /\ socks' = AllocIn(socks, protocol, u, births + 1)
  /\ births' = births + 1 /\ created' = created + 1
  /\ UNCHANGED <<queue, pend, nextPort, sent, lost, trouble>>

SocketBind(u, id, port) ==
  /\ Free(u)
  /\ PortInUse(port, socks[id.slot].protocol) => socks[id.slot].port = port
  /\ socks[id.slot].state = "Closed"
  /\ socks' = [socks EXCEPT ![id.slot].port = port, ![id.slot].state = "Bound"]
  /\ UNCHANGED <<queue, pend, nextPort, created, sent, births, lost, trouble>>

(* socket_listen *)
SocketListen(u, id) ==
  /\ Free(u)
  /\ socks[id.slot].protocol = "Tcp" /\ socks[id.slot].state = "Bound"
  /\ socks' = [socks EXCEPT ![id.slot].state = "Listen", ![id.slot].backlog = << >>]
  /\ UNCHANGED <<queue, pend, nextPort, created, sent, births, lost, trouble>>

(* socket_connect: a datagram socket remembers its peer; a stream socket    *)
(* takes an ephemeral port if it has none, sends a SYN and delivers until   *)
(* it is connected or gives up, and stays in SynSent then.                  *)
EphemeralPort ==
  Min({p \in nextPort .. nextPort + 2 * MaxSockets : ~PortInUse(p, "Tcp") /\ ~PortInUse(p, "Udp")})
SocketConnect(u, id, remote) ==
  LET sock == socks[id.slot]
      port == IF sock.port = 0 THEN EphemeralPort ELSE sock.port
      new == [sock EXCEPT !.port = port, !.remote = remote, !.send_seq = 0, !.state = "SynSent"]
      syn == <<Segment(new, {"SYN"}, 0, 0, << >>)>>
  IN  /\ Free(u)
      /\ \/ /\ sock.protocol = "Udp"
            /\ socks' = [socks EXCEPT ![id.slot].remote = remote,
                                      ![id.slot].state = IF @ = "Closed" THEN "Bound" ELSE @]
            /\ UNCHANGED <<pend, nextPort>>
         \/ /\ sock.protocol = "Tcp" /\ sock.state \in {"Closed", "Bound"}
            /\ nextPort' = IF sock.port = 0 THEN port + 1 ELSE nextPort
            /\ socks' = [socks EXCEPT ![id.slot] = new]
            /\ Continue(u, "connect", id, syn, Iters)
      /\ UNCHANGED <<queue, created, sent, births, lost, trouble>>

(* socket_accept: the oldest connection of the backlog, connected or not. *)
SocketAccept(u, id) ==
  LET backlog == socks[id.slot].backlog
  IN  /\ Free(u)
      /\ socks[id.slot].state = "Listen" /\ backlog # << >>
      /\ socks' = [socks EXCEPT ![id.slot].backlog = Tail(@)]
      /\ Continue(u, "accept", Head(backlog), << >>, Iters)
      /\ UNCHANGED <<queue, nextPort, created, sent, births, lost, trouble>>

(* socket_send, and socket_sendto for datagrams.  The call answers Ok       *)
(* whatever became of the packet.  What does not fit into a packet is       *)
(* counted as sent and thrown away (build_tcp_packet returns 0).            *)
Byte == MapThenSumSet(LAMBDA b : Len(sent[b]), 1 .. MaxBirths) + 1
SendPacket(u, id, pkt, new, fits) ==
  /\ Free(u)
  /\ Byte <= MaxSends
  /\ socks' = [socks EXCEPT ![id.slot] = new]
  /\ sent' = [sent EXCEPT ![new.birth] = Append(@, Byte)]
  /\ IF fits THEN Continue(u, "send", id, <<pkt>>, 1) /\ UNCHANGED lost
     ELSE lost' = lost \cup {Byte} /\ UNCHANGED pend
  /\ UNCHANGED <<queue, nextPort, created, births, trouble>>

SocketSend(u, id, fits) ==
  LET sock == socks[id.slot]
  IN  \/ /\ sock.protocol = "Udp" /\ sock.remote # 0
         /\ SendPacket(u, id, Datagram(sock, sock.remote, <<Byte>>), sock, fits)
      \/ /\ sock.protocol = "Tcp" /\ sock.state = "Established"
         /\ SendPacket(u, id, Segment(sock, {"ACK"}, sock.send_seq, sock.recv_seq, <<Byte>>),
                       [sock EXCEPT !.send_seq = @ + 1], fits)

SocketSendTo(u, id, dst, fits) ==
  /\ socks[id.slot].protocol = "Udp"
  /\ SendPacket(u, id, Datagram(socks[id.slot], dst, <<Byte>>), socks[id.slot], fits)

(* socket_recv delivers one packet first. *)
SocketRecv(u, id) ==
  /\ Free(u)
  /\ Continue(u, "recv", id, << >>, 1)
  /\ UNCHANGED <<socks, queue, nextPort, created, sent, births, lost, trouble>>

(* socket_poll: deliver, then look, until ready or out of time. *)
SocketPoll(u, id) ==
  /\ Free(u)
  /\ Continue(u, "poll", id, << >>, Iters)
  /\ UNCHANGED <<socks, queue, nextPort, created, sent, births, lost, trouble>>

(* socket_shutdown; socket_close does the same and then releases the socket *)
(* (op "close").                                                            *)
SocketShutdown(u, id, op) ==
  LET sock == socks[id.slot]
      fin == <<Segment(sock, {"FIN", "ACK"}, sock.send_seq, sock.recv_seq, << >>)>>
      next == IF sock.state = "Established" THEN "FinWait1" ELSE "LastAck"
  IN  /\ Free(u)
      /\ \/ /\ sock.protocol = "Tcp" /\ sock.state \in {"Established", "CloseWait"}
            /\ socks' = [socks EXCEPT ![id.slot].send_seq = @ + 1, ![id.slot].state = next]
            /\ Continue(u, op, id, fin, Iters)
         \/ /\ op = "shutdown" /\ sock.protocol = "Udp"
            /\ socks' = [socks EXCEPT ![id.slot].state = "Closed"]
            /\ UNCHANGED pend
         \/ /\ op = "close"
            /\ ~(sock.protocol = "Tcp" /\ sock.state \in {"Established", "CloseWait"})
            /\ Continue(u, op, id, << >>, 0)
            /\ UNCHANGED socks
      /\ UNCHANGED <<queue, nextPort, created, sent, births, lost, trouble>>

(* cleanup_process_sockets, called by terminate. *)
Cleanup(u) ==
  /\ Free(u)
  /\ \E s \in SockSlots : socks[s].active /\ socks[s].owner = u
  /\ socks' = [s \in SockSlots |-> IF socks[s].active /\ socks[s].owner = u
                                   THEN Released(socks[s]) ELSE socks[s]]
  /\ UNCHANGED <<queue, pend, nextPort, created, sent, births, lost, trouble>>
-----------------------------------------------------------------------------
(* transmit_ip, with its own lock. *)
TransmitIp(u) ==
  /\ ~Free(u) /\ pend[u].out # << >>
  /\ queue' = Transmit(queue, pend[u].out)
  /\ lost' = lost \cup Dropped(queue, pend[u].out)
  /\ pend' = [pend EXCEPT ![u].out = << >>]
  /\ UNCHANGED <<socks, nextPort, created, sent, births, trouble>>

(* deliver_one, first lock: the packet is taken from the queue.  behind is  *)
(* history: who holds a packet that was before it in the queue.             *)
Holding(v) == pend[v].op # "none" /\ pend[v].held # << >>
Dequeue(u) ==
  /\ ~Free(u) /\ pend[u].out = << >> /\ pend[u].left > 0 /\ pend[u].held = << >>
  /\ queue # << >>
  /\ queue' = Tail(queue)
  /\ pend' = [pend EXCEPT ![u].held = <<Head(queue)>>, ![u].behind = {v \in Users : Holding(v)}]
  /\ UNCHANGED <<socks, nextPort, created, sent, births, lost, trouble>>

(* Second lock: the packet is applied and answered. *)
Apply(u) ==
  LET r == Receive(socks, pend[u].held[1])
  IN  /\ ~Free(u) /\ pend[u].held # << >>
      /\ births + r.new <= MaxBirths
      /\ socks' = r.tbl
      /\ queue' = Transmit(queue, r.reply)
      /\ trouble' = trouble \cup r.note \cup IF pend[u].behind # {} THEN {"overtaken"} ELSE {}
      /\ lost' = lost \cup r.lost
      /\ births' = births + r.new
      /\ pend' = [v \in Users |->
                   IF v = u THEN [pend[u] EXCEPT !.held = << >>, !.behind = {}, !.left = @ - 1]
                   ELSE IF pend[v] = NoCall THEN NoCall ELSE [pend[v] EXCEPT !.behind = @ \ {u}]]
      /\ UNCHANGED <<nextPort, created, sent>>

(* The reading half of socket_recv: for a datagram the header and the data, *)
(* for a stream what there is.                                              *)
TakeAgain(u, sock) ==
  socks' = [socks EXCEPT ![pend[u].id.slot].got = @ \o sock.rx]
Take(u, sock) ==
  LET n == IF sock.protocol = "Udp" THEN Min({Len(sock.rx), 1 + Head(sock.rx)}) ELSE Len(sock.rx)
      data == SubSeq(sock.rx, IF sock.protocol = "Udp" THEN 2 ELSE 1, n)
  IN  socks' = [socks EXCEPT ![pend[u].id.slot].rx = SubSeq(@, n + 1, Len(@)),
                             ![pend[u].id.slot].got = @ \o data]

(* A call is out of rounds; an empty queue costs a round and delivers       *)
(* nothing.                                                                 *)
Delivered(u) ==
  /\ ~Free(u) /\ pend[u].out = << >> /\ pend[u].held = << >>
  /\ queue = << >> \/ pend[u].left = 0
Return(u) ==
  /\ pend' = [pend EXCEPT ![u] = NoCall]
  /\ UNCHANGED <<queue, nextPort, created, sent, births, lost, trouble>>

(* connect and accept return when the connection is there or they are out   *)
(* of rounds, poll when a socket is ready, send and shutdown at the end.    *)
CallReturns(u) ==
  LET c == pend[u]
      early == \/ c.op = "poll"
               \/ c.op \in {"connect", "accept"} /\ Valid(socks, c.id) /\ socks[c.id.slot].state = "Established"
  IN  /\ ~Free(u) /\ c.op \notin {"recv", "close"}
      /\ Delivered(u) \/ (early /\ c.out = << >> /\ c.held = << >> /\ c.left < Iters)
      /\ Return(u)
      /\ UNCHANGED socks

(* socket_recv reads what there is, if the socket still exists. *)
RecvReturns(u) ==
  LET c == pend[u]
  IN  /\ c.op = "recv" /\ Delivered(u)
      /\ Return(u)
      /\ IF Valid(socks, c.id) /\ socks[c.id.slot].rx # << >> THEN Take(u, socks[c.id.slot]) ELSE UNCHANGED socks

(* socket_close releases the socket, in whatever state its shutdown left it. *)
CloseReturns(u) ==
  LET c == pend[u]
  IN  /\ c.op = "close" /\ Delivered(u)
      /\ Return(u)
      /\ socks' = IF Valid(socks, c.id) THEN [socks EXCEPT ![c.id.slot] = Released(@)] ELSE socks

Next ==
  \E u \in Users :
    \/ \E protocol \in Protocols : SocketCreate(u, protocol)
    \/ \E id \in Owned(u) :
         \/ \E port \in BindPorts : SocketBind(u, id, port)
         \/ \E port \in BindPorts : SocketConnect(u, id, port)
         \/ \E port \in BindPorts, fits \in BOOLEAN : SocketSendTo(u, id, port, fits)
         \/ SocketListen(u, id)
         \/ SocketAccept(u, id)
         \/ \E fits \in BOOLEAN : SocketSend(u, id, fits)
         \/ SocketRecv(u, id)
         \/ SocketPoll(u, id)
         \/ \E op \in {"shutdown", "close"} : SocketShutdown(u, id, op)
    \/ Cleanup(u)
    \/ TransmitIp(u)
    \/ Dequeue(u)
    \/ Apply(u)
    \/ CallReturns(u) \/ RecvReturns(u) \/ CloseReturns(u)

Spec == Init /\ [][Next]_svars
-----------------------------------------------------------------------------
(* Properties *)

(* Behaviours are not followed beyond a delivery that overtakes another or  *)
(* reaches a socket of another connection.  Users may be renamed.           *)
Undisturbed == trouble = {}
UserSymmetry == Permutations(Users)

Received(s) == socks[s].got \o socks[s].rx

(* The bytes that a connection has received are, in order, those that its   *)
(* peer's sends were answered Ok for, but for the ones that were thrown     *)
(* away on the way: by a send that is longer than a packet, by a full       *)
(* queue, by a full receive buffer, or because the connection was not yet   *)
(* established.  This holds whatever calls the two processes make, until a  *)
(* delivery overtakes another or a port pair is used again.                 *)
StreamsIntact ==
  Undisturbed =>
    \A s \in SockSlots : socks[s].protocol = "Tcp" /\ socks[s].peer # 0 =>
      IsPrefix(Received(s), SelectSeq(sent[socks[s].peer], LAMBDA b : b \notin lost))

(* The two ends of a connection agree: an end that is established faces an  *)
(* end that knows of it, even when packets are lost, until one overtakes    *)
(* another.                                                                 *)
EndsAgree ==
  Undisturbed =>
    \A s, t \in SockSlots :
      socks[s].active /\ socks[t].active /\ socks[s].peer # 0 /\ socks[t].birth = socks[s].peer =>
        /\ socks[s].state = "Established" => socks[t].state \notin {"Closed", "LastAck", "TimeWait"}
        /\ socks[s].state = "CloseWait" => socks[t].state \in {"FinWait1", "FinWait2"}

=============================================================================
