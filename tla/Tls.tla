--------------------------------- MODULE Tls ---------------------------------
(***************************************************************************)
(* TLS sessions (kernel/src/network/tls.rs): the table of sessions, the    *)
(* client handshake, records in and out, close.  The handshake runs over   *)
(* many locks and the socket may fail at each of its steps; tls_recv and   *)
(* tls_close take the lock several times as well.  A stretch under the     *)
(* lock is an action, but for the ones that only feed the transcript.      *)
(* Sessions are named by their index alone: an index outlives its session. *)
(* The cryptography is abstract: a key is named by the handshake that      *)
(* derived it, the initial keys of a session are 0.                        *)
(***************************************************************************)
EXTENDS Integers, FiniteSets, FiniteSetsExt

CONSTANTS
  Clients,       \* processes
  MaxSessions,   \* MAX_TLS_SESSIONS
  MaxRecords,    \* records read before the handshake is given up: 20
  MaxHandshakes, \* bound: handshakes started
  MaxSealed,     \* bound: records sealed with application keys
  MaxReceived    \* bound: records received in a session

ASSUME TlsAssumption == MaxSessions \in Nat /\ MaxRecords \in Nat

VARIABLES
  sessions,  \* TLS_SESSIONS: index -> session or NoSession
  shake,     \* process -> the handshake it is in
  io,        \* process -> the tls_recv or tls_close it is in
  known,     \* process -> index -> the session it was given for, 0 if none
  started,   \* handshakes started, the name of the next key
  sealed,    \* history: <<key, sequence number>> of the records sealed
  reused,    \* history: two records were sealed with the same pair
  failures,  \* history: handshakes ended by a socket error
  stale,     \* history: a process used an index whose session it had closed
  down       \* the kernel panicked: "gone", unwrap of a session that is gone, or "short"

tlsVars == <<sessions, shake, io, known, started, sealed, reused, failures, stale, down>>

SessionIds == 0 .. MaxSessions - 1
NoSession == [state |-> "None"]
NoShake == [stage |-> "none"]
NoIo == [stage |-> "none"]
FreeIds == {i \in SessionIds : sessions[i] = NoSession}

TlsInit ==
  /\ sessions = [i \in SessionIds |-> NoSession]
  /\ shake = [c \in Clients |-> NoShake] /\ io = [c \in Clients |-> NoIo]
  /\ known = [c \in Clients |-> [i \in SessionIds |-> 0]]
  /\ started = 0 /\ sealed = {} /\ reused = FALSE /\ failures = 0 /\ stale = FALSE /\ down = "no"

(* build_encrypted_record: the nonce is the sequence number. *)
Seal(key, seq) ==
  /\ sealed' = sealed \cup {<<key, seq>>}
  /\ reused' = (reused \/ <<key, seq>> \in sealed)

Freed(i) == [sessions EXCEPT ![i] = NoSession]
Leave(c) == shake' = [shake EXCEPT ![c] = NoShake]
Busy(c) == shake[c] # NoShake \/ io[c] # NoIo
(* The handshake goes on. *)
Go(c, stage) == shake' = [shake EXCEPT ![c].stage = stage]

(* alloc_session: the first free index. *)
TlsConnect(c) ==
  LET i == Min(FreeIds)
  IN  /\ down = "no" /\ ~Busy(c) /\ started < MaxHandshakes
      /\ FreeIds # {}
      /\ started' = started + 1
      /\ sessions' = [sessions EXCEPT ![i] = [state |-> "Initial", key |-> 0, cseq |-> 0, sseq |-> 0, birth |-> started + 1]]
      /\ shake' = [shake EXCEPT ![c] = [stage |-> "hello", idx |-> i, key |-> started + 1, left |-> MaxRecords]]
      /\ UNCHANGED <<io, known, sealed, reused, failures, stale, down>>

(* tcp_send_raw and read_tls_record failing: the error is returned with ?   *)
(* and the session stays in the table.                                      *)
SocketFails(c) ==
  /\ down = "no" /\ shake[c].stage \in {"hello", "serverHello", "flight", "ccs", "finished"}
  /\ failures' = failures + 1
  /\ Leave(c)
  /\ UNCHANGED <<sessions, io, known, started, sealed, reused, stale, down>>

(* Wrong message, ServerHello that cannot be parsed, unknown cipher, record *)
(* that does not decrypt, no Finished in MaxRecords records: the session is *)
(* freed.                                                                   *)
HandshakeFails(c) ==
  /\ down = "no" /\ shake[c].stage \in {"serverHello", "flight"}
  /\ sessions' = Freed(shake[c].idx)
  /\ Leave(c)
  /\ UNCHANGED <<io, known, started, sealed, reused, failures, stale, down>>

(* A ServerHello shorter than its header says is sliced all the same. *)
ServerHelloShort(c) ==
  /\ down = "no" /\ shake[c].stage = "serverHello"
  /\ down' = "short"
  /\ UNCHANGED <<sessions, shake, io, known, started, sealed, reused, failures, stale>>

(* The ClientHello is sent. *)
HelloSent(c) ==
  /\ down = "no" /\ shake[c].stage = "hello"
  /\ Go(c, "serverHello")
  /\ UNCHANGED <<sessions, io, known, started, sealed, reused, failures, stale, down>>

(* The transcript of the session is unwrapped: it must still be there. *)
Unwrap(c, stage) ==
  IF sessions[shake[c].idx] = NoSession
  THEN down' = "gone" /\ UNCHANGED shake
  ELSE Go(c, stage) /\ UNCHANGED down

(* ServerHello accepted: shared secret and key schedule. *)
ServerHello(c) ==
  /\ down = "no" /\ shake[c].stage = "serverHello"
  /\ Unwrap(c, "flight")
  /\ UNCHANGED <<sessions, io, known, started, sealed, reused, failures, stale>>

(* A record of the server's flight that does not hold its Finished. *)
FlightRecord(c) ==
  /\ down = "no" /\ shake[c].stage = "flight" /\ shake[c].left > 1
  /\ shake' = [shake EXCEPT ![c].left = @ - 1]
  /\ UNCHANGED <<sessions, io, known, started, sealed, reused, failures, stale, down>>

(* The server's Finished: application keys are derived from the transcript. *)
ServerFinished(c) ==
  /\ down = "no" /\ shake[c].stage = "flight"
  /\ Unwrap(c, "ccs")
  /\ UNCHANGED <<sessions, io, known, started, sealed, reused, failures, stale>>

(* ChangeCipherSpec, then the client's Finished, sealed with the handshake  *)
(* key and number 0.                                                        *)
ClientFinished(c) ==
  /\ down = "no" /\ shake[c].stage \in {"ccs", "finished"}
  /\ Go(c, IF shake[c].stage = "ccs" THEN "finished" ELSE "store")
  /\ UNCHANGED <<sessions, io, known, started, sealed, reused, failures, stale, down>>

(* The keys go into the session, if there is one, and the index to the      *)
(* caller.                                                                  *)
HandshakeDone(c) ==
  LET i == shake[c].idx
  IN  /\ down = "no" /\ shake[c].stage = "store"
      /\ sessions' = IF sessions[i] = NoSession THEN sessions
                     ELSE [sessions EXCEPT ![i] = [state |-> "ApplicationData", key |-> shake[c].key, cseq |-> 0,
                                                   sseq |-> 0, birth |-> sessions[i].birth]]
      /\ known' = [known EXCEPT ![c][i] = shake[c].key]
      /\ Leave(c)
      /\ UNCHANGED <<io, started, sealed, reused, failures, stale, down>>

(* A process uses an index that it was given, its session's or another's. *)
Use(c, i) ==
  /\ down = "no" /\ ~Busy(c) /\ known[c][i] # 0
  /\ sessions[i] # NoSession
  /\ stale' = (stale \/ sessions[i].birth # known[c][i])

(* client_seq of a session after a record. *)
CountedNot(i) == sessions
Counted(i) == [sessions EXCEPT ![i].cseq = @ + 1]

(* tls_send: sealed and counted under one lock; whether the socket then     *)
(* takes the record does not matter to the session.                         *)
TlsSend(c, i) ==
  /\ Use(c, i) /\ sessions[i].state = "ApplicationData"
  /\ Cardinality(sealed) < MaxSealed
  /\ Seal(sessions[i].key, sessions[i].cseq)
  /\ sessions' = Counted(i)
  /\ UNCHANGED <<shake, io, known, started, failures, down>>

(* tls_recv looks the session up and waits for a record ... *)
TlsRecv(c, i) ==
  /\ Use(c, i) /\ sessions[i].state = "ApplicationData"
  /\ sessions[i].sseq < MaxReceived
  /\ io' = [io EXCEPT ![c] = [stage |-> "read", idx |-> i]]
  /\ UNCHANGED <<sessions, shake, known, started, sealed, reused, failures, down>>

(* ... takes key and number from the session, if it is still there, and     *)
(* decrypts ...                                                             *)
RecvRecord(c) ==
  /\ down = "no" /\ io[c].stage = "read" /\ sessions[io[c].idx] # NoSession
  /\ io' = [io EXCEPT ![c].stage = "count"]
  /\ UNCHANGED <<sessions, shake, known, started, sealed, reused, failures, stale, down>>

(* ... and counts the record.                                               *)
RecvCounts(c) ==
  LET i == io[c].idx
  IN  /\ down = "no" /\ io[c].stage = "count"
      /\ sessions' = IF sessions[i] = NoSession THEN sessions ELSE [sessions EXCEPT ![i].sseq = @ + 1]
      /\ io' = [io EXCEPT ![c] = NoIo]
      /\ UNCHANGED <<shake, known, started, sealed, reused, failures, stale, down>>

(* The socket fails, the record is of another type or does not decrypt, or  *)
(* the session is gone: the caller is told, the number stays.               *)
RecvFails(c) ==
  /\ down = "no" /\ io[c].stage = "read"
  /\ io' = [io EXCEPT ![c] = NoIo]
  /\ UNCHANGED <<sessions, shake, known, started, sealed, reused, failures, stale, down>>

(* tls_close: close_notify is sealed in whatever state the session is but   *)
(* Closed; the lock is released to send it, and taken again to free the     *)
(* index, whoever has it then.                                              *)
TlsClose(c, i) ==
  /\ Use(c, i) /\ sessions[i].state # "Closed"
  /\ Seal(sessions[i].key, sessions[i].cseq)
  /\ sessions' = [sessions EXCEPT ![i].cseq = @ + 1, ![i].state = "Closed"]
  /\ io' = [io EXCEPT ![c] = [stage |-> "close", idx |-> i]]
  /\ UNCHANGED <<shake, known, started, failures, down>>

CloseFrees(c) ==
  /\ down = "no" /\ io[c].stage = "close"
  /\ sessions' = Freed(io[c].idx)
  /\ io' = [io EXCEPT ![c] = NoIo]
  /\ UNCHANGED <<shake, known, started, sealed, reused, failures, stale, down>>

TlsNext ==
  \E c \in Clients :
    \/ TlsConnect(c) \/ SocketFails(c) \/ HandshakeFails(c) \/ ServerHelloShort(c) \/ HelloSent(c) \/ ServerHello(c)
    \/ FlightRecord(c) \/ ServerFinished(c) \/ ClientFinished(c) \/ HandshakeDone(c)
    \/ RecvRecord(c) \/ RecvCounts(c) \/ RecvFails(c) \/ CloseFrees(c)
    \/ \E i \in SessionIds : TlsSend(c, i) \/ TlsRecv(c, i) \/ TlsClose(c, i)

TlsSpec == TlsInit /\ [][TlsNext]_tlsVars
-----------------------------------------------------------------------------
(* A session is in the table because its handshake is under way, because    *)
(* its owner has the index, because it is being closed, or because a socket *)
(* error ended its handshake.                                               *)
Closing(c, i) == io[c].stage = "close" /\ io[c].idx = i
Lost(i) ==
  /\ sessions[i] # NoSession
  /\ ~\E c \in Clients : shake[c] # NoShake /\ shake[c].idx = i
  /\ ~(sessions[i].state = "ApplicationData" /\ \E c \in Clients : known[c][i] = sessions[i].birth)
  /\ ~(sessions[i].state = "Closed" /\ \E c \in Clients : Closing(c, i))

(* As long as processes use their own sessions: no two records are sealed   *)
(* with the same key and number, none with the initial key, the handshake   *)
(* finds its session where it left it, so that no unwrap of it panics, and  *)
(* exactly one of the MAX_TLS_SESSIONS is lost per handshake that a socket  *)
(* error ends.                                                              *)
NonceUnique ==
  ~stale => /\ ~reused /\ down # "gone" /\ \A r \in sealed : r[1] # 0
            /\ Cardinality({i \in SessionIds : Lost(i)}) = failures
=============================================================================
