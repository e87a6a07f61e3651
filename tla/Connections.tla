---------------------------- MODULE Connections ----------------------------
(***************************************************************************)
(* Network connections: CONNECT, SEND, RECV and CLOSE of wapi_host_net.c   *)
(* over a TCP socket, a TLS session (wapi_host_net_tls.c) or a QUIC        *)
(* session (wapi_host_net_quic.c), whose callbacks run on threads of       *)
(* msquic while the guest's thread waits for the events they set.          *)
(*                                                                         *)
(* The bytes a peer sends are 1, 2, 3 ...; on a TLS connection they travel *)
(* in records of RecordSize and can be read when the record is complete.   *)
(* What the guest sends over a socket is not followed.                     *)
(*                                                                         *)
(* msquic's part: CONNECTED at most once; a stream that was started says   *)
(* so, and says SHUTDOWN_COMPLETE once and last; SHUTDOWN_COMPLETE of a    *)
(* connection comes after those of its stream, and last; every accepted    *)
(* send completes; StreamClose and ConnectionClose return when no callback *)
(* of the object runs any more.                                            *)
(***************************************************************************)
EXTENDS OsObjects

CONSTANTS Transports,  \* of "tcp", "tls", "quic": those the guest asks for
          MaxSent,     \* bound: bytes a peer sends
          MaxCap,      \* bound: length of the guest's buffer
          RingSize,    \* bytes the QUIC ring can hold
          RecordSize   \* bytes of a TLS record

ASSUME ConnectionAssumption ==
    /\ Transports \subseteq {"tcp", "tls", "quic"}
    /\ MaxSent \in Nat /\ MaxCap \in Nat \ {0}
    /\ RingSize \in Nat \ {0} /\ RecordSize \in Nat \ {0}

VARIABLES net,         \* per creation: what went over the connection
          tls,         \* wapi_tls_session_t: ciphertext and plaintext left over
          quic         \* wapi_quic_session_t and msquic's state

connVars == <<net, tls, quic>>

(* kind; the peer's bytes not yet received by the host; the peer is done;  *)
(* bytes sent; bytes given to the guest; the guest was told of the end;    *)
(* bytes were dropped.                                                     *)
NewNet(kind) == [kind |-> kind, wire |-> <<>>, fin |-> FALSE, sent |-> 0,
                 got |-> <<>>, told |-> FALSE, lost |-> FALSE]
NewTls  == [rx |-> <<>>, plain |-> <<>>]
NewQuic == [conn |-> "none", strm |-> "none", sending |-> FALSE, cb |-> FALSE,
            signals |-> {}, connected |-> FALSE, failed |-> FALSE,
            ring |-> <<>>, shutdown |-> FALSE]

ConnInit == net = <<>> /\ tls = <<>> /\ quic = <<>>   \* no creation yet

Least(a, b)   == IF a <= b THEN a ELSE b
Front(q, n)   == SubSeq(q, 1, Least(n, Len(q)))
Beyond(q, n)  == SubSeq(q, n + 1, Len(q))
IsConn(h, kind) == IsA(h, "conn") /\ net[data[h].n].kind = kind

Sock(n)     == Object("socket", n)
Tls(n)      == Object("tls", n)
Session(n)  == {Object("session", n), Object("events", n)}
Conn(n)     == Object("conn", n)
Strm(n)     == Object("stream", n)

(* What the host keeps of n while the connection is there.                 *)
ObjectsOf(n) ==
    CASE net[n].kind = "tcp"  -> {Sock(n)}
      [] net[n].kind = "tls"  -> {Sock(n), Tls(n)}
      [] net[n].kind = "quic" -> Session(n) \cup {Conn(n), Strm(n)}

-----------------------------------------------------------------------------
(* CONNECT.                                                                *)

ConnectCall(kind) ==
    /\ Spend("connect") /\ Create("connect", IF kind = "quic" THEN "quic" ELSE "socket")
    /\ net' = Extended(net, made + 1, NewNet(kind))
    /\ tls' = Extended(tls, made + 1, NewTls)
    /\ quic' = Extended(quic, made + 1, NewQuic)
    /\ UNCHANGED <<htype, next, data, os, misused>>

(* Resolving, socket and connect, with the roll-back between them in one.  *)
OpenSocket ==
    /\ In("connect", "socket")
    /\ \/ Open({Sock(op.n)}) /\ Goto(IF net[op.n].kind = "tls" THEN "handshake" ELSE "entry")
       \/ Return /\ UNCHANGED <<os, misused>>
    /\ UNCHANGED <<htype, next, data, made, left, connVars>>

Handshake ==
    /\ In("connect", "handshake") /\ Uses({Sock(op.n)})
    /\ \/ os' = os \cup {Tls(op.n)} /\ Goto("entry")
       \/ os' = os \ {Sock(op.n)} /\ Return
    /\ UNCHANGED <<htype, next, data, made, left, connVars>>

EnterConn ==
    /\ In("connect", "entry")
    /\ \/ /\ \E h \in Handle : Entry(h, "conn", [Blank EXCEPT !.n = op.n])
          /\ Return /\ UNCHANGED <<os, misused>>
       \/ /\ TableFull /\ UNCHANGED <<htype, next, data>>
          /\ IF net[op.n].kind = "quic" THEN Goto("close stream") /\ UNCHANGED <<os, misused>>
                                        ELSE Close(ObjectsOf(op.n)) /\ Return
    /\ UNCHANGED <<made, left, connVars>>

(* wapi_host_net_quic_connect: msquic missing, or up to ConnectionStart.   *)
QuicOpen ==
    LET n == op.n
    IN  /\ In("connect", "quic")
        /\ \/ Return /\ UNCHANGED <<os, misused, quic>>
           \/ Open(Session(n)) /\ Goto("free") /\ UNCHANGED quic
           \/ Open(Session(n) \cup {Conn(n)}) /\ Goto("close conn") /\ UNCHANGED quic
           \/ /\ Open(Session(n) \cup {Conn(n)}) /\ Goto("connected")
              /\ quic' = [quic EXCEPT ![n].conn = "starting"]
        /\ UNCHANGED <<htype, next, data, made, left, net, tls>>

(* The wait for connected_ev, ended by it or by the time-out.              *)
QuicConnected ==
    LET n == op.n
        up == "connected" \in quic[n].signals /\ ~quic[n].failed
    IN  /\ In("connect", "connected")
        /\ \/ Goto("close conn") /\ Uses(Session(n)) /\ UNCHANGED <<os, quic>>
           \/ up /\ Open({Strm(n)}) /\ Goto("close stream") /\ UNCHANGED quic
           \/ /\ up /\ Open({Strm(n)}) /\ Goto("ready")
              /\ quic' = [quic EXCEPT ![n].strm = "starting"]
        /\ UNCHANGED <<htype, next, data, made, left, net, tls>>

QuicReady ==
    /\ In("connect", "ready") /\ Uses(Session(op.n))
    /\ \/ "ready" \in quic[op.n].signals /\ Goto("entry")
       \/ Goto("close stream")
    /\ UNCHANGED <<htype, next, data, os, made, left, connVars>>

-----------------------------------------------------------------------------
(* CLOSE, and the roll-back of a QUIC connection.                          *)

CloseCall(h) ==
    LET quick == net[data[h].n].kind # "quic"
    IN  /\ Idle /\ IsA(h, "conn")
        /\ IF quick THEN Close(ObjectsOf(data[h].n)) /\ FreeAll({h}) /\ UNCHANGED op
                    ELSE Begin("close", "close stream", h)
                         /\ UNCHANGED <<os, misused, htype, next, data>>
        /\ UNCHANGED <<made, left, connVars>>

CloseStream ==
    /\ op.at = "close stream" /\ ~quic[op.n].cb
    /\ Close({Strm(op.n)}) /\ Goto("close conn")
    /\ UNCHANGED <<htype, next, data, made, left, connVars>>

CloseConn ==
    /\ op.at = "close conn" /\ Close({Conn(op.n)}) /\ Goto("free")
    /\ UNCHANGED <<htype, next, data, made, left, connVars>>

FreeSession ==
    /\ op.at = "free" /\ Close(Session(op.n)) /\ Return
    /\ FreeAll({op.h} \ {0})
    /\ UNCHANGED <<made, left, connVars>>

-----------------------------------------------------------------------------
(* RECV.                                                                   *)

Give(n, bytes) == net' = [net EXCEPT ![n].got = @ \o bytes]
TellEnd(n)     == net' = [net EXCEPT ![n].told = TRUE]

RecvCall(h, cap) ==
    /\ IsA(h, "conn") /\ Idle
    /\ op' = [NoOp EXCEPT !.call = "recv", !.at = net[data[h].n].kind, !.h = h,
                          !.n = data[h].n, !.cap = cap]
    /\ UNCHANGED <<htype, next, data, os, misused, made, left, connVars>>

(* The socket is asked again every millisecond.                            *)
TcpRecv ==
    LET n == op.n
        wire == net[n].wire
    IN  /\ In("recv", "tcp") /\ Uses({Sock(n)}) /\ Return
        /\ \/ \E k \in 1 .. Least(op.cap, Len(wire)) :
                net' = [net EXCEPT ![n].got = @ \o Front(wire, k), ![n].wire = Beyond(wire, k)]
           \/ wire = <<>> /\ net[n].fin /\ TellEnd(n)
        /\ UNCHANGED <<htype, next, data, os, made, left, tls, quic>>

(* Mutant: the plaintext that does not fit is not kept.                    *)
Spill_none(record, cap) == <<>>

Spill(record, cap) == Beyond(record, cap)

(* One record of buf is decrypted; unread stays in the socket.             *)
Decrypt(n, buf, unread) ==
    LET record == Front(buf, RecordSize)
    IN  /\ tls' = [tls EXCEPT ![n] = [rx |-> Beyond(buf, RecordSize),
                                      plain |-> Spill(record, op.cap)]]
        /\ net' = [net EXCEPT ![n].got = @ \o Front(record, op.cap), ![n].wire = unread]

(* wapi_host_net_tls_recv: what is left of the last record; else a record  *)
(* from the ciphertext at hand, after reading more if it is not complete.  *)
(* With too little to read the call ends with an error or the end, and     *)
(* what there is stays.                                                    *)
TlsRecv ==
    LET n == op.n
        plain == tls[n].plain
        rx == tls[n].rx
        wire == net[n].wire
    IN  /\ In("recv", "tls") /\ Uses({Sock(n), Tls(n)}) /\ Return
        /\ \/ /\ plain # <<>> /\ Give(n, Front(plain, op.cap))
              /\ tls' = [tls EXCEPT ![n].plain = Beyond(plain, op.cap)]
           \/ plain = <<>> /\ Len(rx) >= RecordSize /\ Decrypt(n, rx, wire)
           \/ /\ plain = <<>> /\ Len(rx) < RecordSize
              /\ \E k \in 1 .. Len(wire) :
                   Len(rx) + k >= RecordSize /\ Decrypt(n, rx \o Front(wire, k), Beyond(wire, k))
           \/ /\ plain = <<>> /\ Len(rx \o wire) < RecordSize
              /\ tls' = [tls EXCEPT ![n].rx = rx \o wire]
              /\ net' = [net EXCEPT ![n].wire = <<>>, ![n].told = @ \/ net[n].fin]
        /\ UNCHANGED <<htype, next, data, os, made, left, quic>>

AtEnd(s) == s.shutdown /\ s.ring = <<>>

(* wapi_host_net_quic_recv: the part under the lock, then the wait.        *)
QuicRecv ==
    LET n == op.n
        s == quic[n]
    IN  /\ In("recv", "quic") /\ Uses(Session(n))
        /\ \/ AtEnd(s) /\ TellEnd(n) /\ Return /\ UNCHANGED quic
           \/ /\ ~AtEnd(s) /\ s.ring # <<>> /\ Give(n, Front(s.ring, op.cap)) /\ Return
              /\ quic' = [quic EXCEPT ![n].ring = Beyond(s.ring, op.cap)]
           \/ /\ ~AtEnd(s) /\ s.ring = <<>> /\ Goto("wait") /\ UNCHANGED <<net, quic>>
        /\ UNCHANGED <<htype, next, data, os, made, left, tls>>

QuicWait ==
    /\ In("recv", "wait") /\ "rx" \in quic[op.n].signals
    /\ quic' = [quic EXCEPT ![op.n].signals = @ \ {"rx"}]
    /\ Goto("quic") /\ Uses(Session(op.n))
    /\ UNCHANGED <<htype, next, data, os, made, left, net, tls>>

(* SEND on a QUIC connection: StreamSend, then the wait for its end.       *)
QuicSendCall(h) ==
    /\ Spend("send") /\ IsConn(h, "quic") /\ Idle
    /\ quic' = [quic EXCEPT ![data[h].n].signals = @ \ {"sent"}, ![data[h].n].sending = TRUE]
    /\ quic[data[h].n].strm = "up"
    /\ Begin("send", "wait", h)
    /\ UNCHANGED <<htype, next, data, os, misused, made, net, tls>>

QuicSent ==
    /\ op.call = "send" /\ "sent" \in quic[op.n].signals /\ Return
    /\ quic' = [quic EXCEPT ![op.n].signals = @ \ {"sent"}]
    /\ Uses(Session(op.n))
    /\ UNCHANGED <<htype, next, data, os, made, left, net, tls>>

-----------------------------------------------------------------------------
(* The peers, and the callbacks on msquic's threads.                       *)

PeerStep(n) ==
    /\ Sock(n) \in os /\ ~net[n].fin
    /\ \/ /\ net[n].sent < MaxSent
          /\ net' = [net EXCEPT ![n].sent = @ + 1, ![n].wire = Append(@, net[n].sent + 1)]
       \/ net' = [net EXCEPT ![n].fin = TRUE]
    /\ UNCHANGED <<objectVars, tls, quic>>

Signal(n, new) == quic' = [quic EXCEPT ![n] = new] /\ Uses(Session(n))
With(s, event) == [s EXCEPT !.signals = @ \cup {event}]
callbackOnly   == <<htype, next, data, os, op, made, left, tls>>

ConnCallback(n) ==
    LET s == quic[n]
    IN  /\ Conn(n) \in os /\ UNCHANGED <<callbackOnly, net>>
        /\ \/ /\ s.conn = "starting"
              /\ Signal(n, With([s EXCEPT !.conn = "up", !.connected = TRUE], "connected"))
           \/ /\ s.conn \in {"starting", "up"} /\ s.strm \in {"none", "down"}
              /\ Signal(n, [s EXCEPT !.conn = "down", !.failed = @ \/ ~s.connected,
                                     !.signals = @ \cup {"connected", "rx"}])

(* Mutant: the ring takes everything.                                      *)
Pushed_all(ring, new) == ring \o new

(* rx_push of the buffers of a RECEIVE.                                    *)
Pushed(ring, new) == ring \o Front(new, RingSize - Len(ring))

(* A callback that sets rx_ev does so after it has left the lock.          *)
Receive(n) ==
    \E k \in 1 .. 2 :
      LET s == quic[n]
          new == [i \in 1 .. k |-> net[n].sent + i]
      IN  /\ Strm(n) \in os /\ s.strm = "up" /\ ~net[n].fin /\ ~s.cb
          /\ net[n].sent + k <= MaxSent
          /\ Signal(n, [s EXCEPT !.ring = Pushed(s.ring, new), !.cb = TRUE])
          /\ net' = [net EXCEPT ![n].sent = @ + k,
                                ![n].lost = @ \/ Len(s.ring) + k > RingSize]
          /\ UNCHANGED callbackOnly

StreamEnds(n) ==
    LET s == quic[n]
    IN  /\ Strm(n) \in os /\ s.strm = "up" /\ ~s.cb
        /\ \/ ~net[n].fin /\ Signal(n, [s EXCEPT !.shutdown = TRUE, !.cb = TRUE])
           \/ ~s.sending /\ Signal(n, [s EXCEPT !.shutdown = TRUE, !.cb = TRUE, !.strm = "down"])
        /\ net' = [net EXCEPT ![n].fin = TRUE]
        /\ UNCHANGED callbackOnly

(* Mutant: the callback leaves without setting the event.                  *)
SetRx_silent(n) ==
    /\ quic[n].cb /\ Signal(n, [quic[n] EXCEPT !.cb = FALSE])
    /\ UNCHANGED <<callbackOnly, net>>

SetRx(n) ==
    /\ quic[n].cb /\ Signal(n, With([quic[n] EXCEPT !.cb = FALSE], "rx"))
    /\ UNCHANGED <<callbackOnly, net>>

StreamCallback(n) ==
    LET s == quic[n]
    IN  /\ Strm(n) \in os /\ UNCHANGED <<callbackOnly, net>>
        /\ \/ s.strm = "starting" /\ Signal(n, With([s EXCEPT !.strm = "up"], "ready"))
           \/ s.sending /\ Signal(n, With([s EXCEPT !.sending = FALSE], "sent"))

ConnectStep ==
    \/ OpenSocket \/ Handshake \/ EnterConn \/ QuicOpen \/ QuicConnected \/ QuicReady
    \/ CloseStream \/ CloseConn \/ FreeSession

RecvStep == TcpRecv \/ TlsRecv \/ QuicRecv \/ QuicWait

ConnectionStep ==
    \/ \E kind \in Transports : ConnectCall(kind)
    \/ ConnectStep \/ RecvStep \/ QuicSent
    \/ \E h \in Handle :
         CloseCall(h) \/ QuicSendCall(h) \/ \E cap \in 1 .. MaxCap : RecvCall(h, cap)
    \/ \E n \in DOMAIN net :
         PeerStep(n) \/ ConnCallback(n) \/ Receive(n) \/ StreamEnds(n) \/ SetRx(n) \/ StreamCallback(n)

ConnTypeOK ==
    /\ DOMAIN net \subseteq 1 .. made /\ DOMAIN tls = DOMAIN net /\ DOMAIN quic = DOMAIN net
    /\ \A n \in DOMAIN net :
         /\ net[n].sent \in 0 .. MaxSent /\ net[n].wire \in Seq(1 .. MaxSent)
         /\ net[n].got \in Seq(1 .. MaxSent)
         /\ tls[n].rx \in Seq(1 .. MaxSent) /\ Len(tls[n].plain) < RecordSize
         /\ quic[n].conn \in {"none", "starting", "up", "down"}
         /\ quic[n].strm \in {"none", "starting", "up", "down"}
         /\ Len(quic[n].ring) <= RingSize
         /\ quic[n].signals \subseteq {"connected", "ready", "rx", "sent"}
=============================================================================
