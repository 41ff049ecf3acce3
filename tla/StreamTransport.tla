--------------------------- MODULE StreamTransport ---------------------------
(***************************************************************************)
(* Stream transports, stream-transport.c, on top of transport.c and the    *)
(* sockets of the kernel: TCP and local stream sockets.                    *)
(*                                                                         *)
(* A callback is the stretch of steps in which cur says what was called    *)
(* for which transport: the user calls the API, for that transport and     *)
(* for others, until the callback returns and strm_recv_cb() goes on with  *)
(* what is left of its transport.  What is written to a socket reaches the *)
(* peer in pieces: an event finds any number of the bytes that are on the  *)
(* way.                                                                    *)
(*                                                                         *)
(* The API is called the way the launcher, its client and the application  *)
(* library call it: a transport is connected, or bound and listened on, at *)
(* most once, and a connection callback accepts its connection.            *)
(***************************************************************************)
EXTENDS Transport

CONSTANTS
  Message,        \* what users send: sequences of bytes, none of them empty
  MaxConns,       \* bounds the connections made
  MaxSent,        \* bounds the messages to the ends of either side
  SockBuf         \* bytes the kernel buffers for an end of a connection

Listening == <<0, "listener">>
End == (1 .. MaxConns) \X {"client", "server"}
Callbacks == [t : Transports, at : {"connection", "accepted", "recv", "closed"}, hup : BOOLEAN]

ASSUME StreamAssumption ==
  /\ Message \subseteq Seq(Byte) \ {<<>>}
  /\ \A m \in Message : \E ds \in [1 .. HeaderLen -> Byte] : Be32(ds) = Len(m)
  /\ {MaxConns, SockBuf} \subseteq Nat
  /\ MaxSent \in [{"client", "server"} -> Nat]
  /\ Fd \subseteq Nat
  /\ None \notin End \cup {Listening} \cup Callbacks /\ None \notin Buffer

VARIABLES
  tr,             \* the transports
  watch,          \* watch[f]: the transport of the I/O watch on f, or None
  sock,           \* sock[f]: the end f refers to, Listening, or None
  pipe,           \* pipe[e]: bytes written to e and not read
  shut,           \* shut[e]: e has been shut down or closed
  pending,        \* connections nobody has accepted
  conns,          \* connections made
  cur,            \* the callback that runs, or None
  sent, got,      \* history: messages sent to an end, and given to its user
  state           \* history: "open", "closed" (reported) or "over"

netVars == <<sock, pipe, shut, pending, conns>>
historyVars == <<sent, got, state>>
strmVars == <<tr, watch, netVars, cur, historyVars>>

Peer(e) == <<e[1], IF e[2] = "client" THEN "server" ELSE "client">>

\* The kernel hands out the lowest descriptor that is free.
FreeFds ==
  {f \in Fd : sock[f] = None /\ \A g \in Fd : sock[g] = None => f <= g}
EndOf(t) == sock[tr[t].sock]
Connected(t) == tr[t].sock # None /\ EndOf(t) \in End

WithWatch(f, t) == [watch EXCEPT ![f] = t]
WithoutWatch(t) == [f \in Fd |-> IF watch[f] = t THEN None ELSE watch[f]]

\* The ends that go when a descriptor is closed.
Closing(f) ==
  IF sock[f] = Listening THEN {<<c, "server">> : c \in Range(pending)}
                         ELSE {sock[f]}

Shut(es) == [e \in End |-> shut[e] \/ e \in es]
Over(es) == [e \in End |-> IF e \in es /\ state[e] = "open" THEN "over" ELSE state[e]]
Drained(es) == [e \in End |-> IF e \in es THEN <<>> ELSE pipe[e]]

-----------------------------------------------------------------------------
(* The requests of the API.                                                *)

Fresh(t) == Usable(tr[t]) /\ tr[t].sock = None /\ ~tr[t].connected

\* Users use a transport before they create the next one.
IotTransportCreate(t) ==
  /\ tr[t].life # "live"
  /\ \A u \in Transports : ~Fresh(u)
  /\ tr' = [tr EXCEPT ![t] = Opened]
  /\ UNCHANGED <<watch, netVars, cur, historyVars>>

\* iot_transport_bind() and iot_transport_listen().
StrmListen(t) ==
  /\ Fresh(t)
  /\ \A f \in Fd : sock[f] # Listening
  /\ \E f \in FreeFds :
       /\ sock' = [sock EXCEPT ![f] = Listening]
       /\ watch' = WithWatch(f, t)
       /\ tr' = [tr EXCEPT ![t].sock = f, ![t].listened = TRUE]
  /\ UNCHANGED <<pipe, shut, pending, conns, cur, historyVars>>

StrmConnect(t) ==
  /\ Fresh(t)
  /\ conns < MaxConns
  /\ \E f \in Fd : sock[f] = Listening
  /\ conns' = conns + 1
  /\ pending' = Append(pending, conns')
  /\ \E f \in FreeFds :
       /\ sock' = [sock EXCEPT ![f] = <<conns', "client">>]
       /\ watch' = WithWatch(f, t)
       /\ tr' = [tr EXCEPT ![t].sock = f, ![t].connected = TRUE,
                           ![t].buf = FragbufCreate(TRUE)]
  /\ UNCHANGED <<pipe, shut, cur, historyVars>>

\* The connection callback of cur.t: iot_transport_accept() into t.
StrmAccept(t) ==
  /\ cur # None /\ cur.at = "connection" /\ Usable(tr[cur.t])
  /\ tr[t].life # "live"
  /\ \E f \in FreeFds :
       /\ sock' = [sock EXCEPT ![f] = <<Head(pending), "server">>]
       /\ watch' = WithWatch(f, t)
       /\ tr' = [tr EXCEPT ![t] = [Opened EXCEPT !.sock = f, !.connected = TRUE,
                                                 !.buf = FragbufCreate(TRUE)]]
  /\ pending' = Tail(pending)
  /\ cur' = [cur EXCEPT !.at = "accepted"]
  /\ UNCHANGED <<pipe, shut, conns, historyVars>>

\* accept() fails for want of descriptors: iot_reject_connection() gives up the
\* descriptor it holds in reserve to accept the connection, and closes it.
IotRejectConnection ==
  /\ cur # None /\ cur.at = "connection" /\ Usable(tr[cur.t])
  /\ FreeFds = {}
  /\ pending' = Tail(pending)
  /\ shut' = Shut({<<Head(pending), "server">>})
  /\ pipe' = Drained({<<Head(pending), "server">>})
  /\ state' = Over({<<Head(pending), "server">>})
  /\ cur' = [cur EXCEPT !.at = "accepted"]
  /\ UNCHANGED <<tr, watch, sock, conns, sent, got>>

\* writev() of a frame.  What does not fit into the socket is dropped.
StrmSendjson(t, m) ==
  LET e == EndOf(t)
      n == Min({Len(Frame(m)), SockBuf - Len(pipe[Peer(e)])})
  IN  /\ Usable(tr[t]) /\ tr[t].connected
      /\ ~shut[e] /\ ~shut[Peer(e)]
      /\ Len(sent[Peer(e)]) < MaxSent[Peer(e)[2]]
      /\ n > 0
      /\ pipe' = [pipe EXCEPT ![Peer(e)] = @ \o SubSeq(Frame(m), 1, n)]
      /\ sent' = IF n = Len(Frame(m))
                   THEN [sent EXCEPT ![Peer(e)] = Append(@, m)] ELSE sent
      /\ UNCHANGED <<tr, watch, sock, shut, pending, conns, cur, got, state>>

\* strm_disconnect(): the descriptor stays open.
StrmDisconnect(t) ==
  IF tr[t].connected
    THEN /\ watch' = WithoutWatch(t)
         /\ shut' = Shut({EndOf(t)})
    ELSE UNCHANGED <<watch, shut>>

Disconnected(r) == IF r.connected THEN [r EXCEPT !.buf = None] ELSE r

IotTransportDisconnect(t) ==
  /\ Usable(tr[t]) /\ tr[t].connected
  /\ StrmDisconnect(t)
  /\ tr' = [tr EXCEPT ![t] =
              Requested(@, LAMBDA r : [Disconnected(r) EXCEPT !.connected = FALSE])]
  /\ state' = Over({EndOf(t)})
  /\ UNCHANGED <<sock, pipe, pending, conns, cur, sent, got>>

\* strm_disconnect() and strm_close().
StrmClose(t) ==
  IF tr[t].sock = None THEN UNCHANGED <<watch, netVars, state>>
  ELSE LET f == tr[t].sock IN
       /\ watch' = WithoutWatch(t)
       /\ sock' = [sock EXCEPT ![f] = None]
       /\ shut' = Shut(Closing(f))
       /\ pipe' = Drained(Closing(f))
       /\ pending' = IF sock[f] = Listening THEN <<>> ELSE pending
       /\ state' = Over(Closing(f))
       /\ UNCHANGED conns

IotTransportDestroy(t) ==
  /\ Usable(tr[t])
  /\ StrmClose(t)
  /\ tr' = [tr EXCEPT ![t] =
              Requested([@ EXCEPT !.destroyed = TRUE],
                        LAMBDA r : [r EXCEPT !.buf = None, !.sock = None])]
  /\ UNCHANGED <<cur, sent, got>>

-----------------------------------------------------------------------------
(* strm_recv_cb().                                                         *)

Callback(t, at, hup) == [t |-> t, at |-> at, hup |-> hup]

\* The closed: label.
Close(t, r, error) ==
  /\ StrmDisconnect(t)
  /\ tr' = [tr EXCEPT ![t] = Enter(Disconnected(r))]
  /\ cur' = Callback(t, "closed", FALSE)
  /\ state' = [state EXCEPT ![EndOf(t)] =
                 IF @ # "open" THEN @ ELSE IF error THEN "over" ELSE "closed"]
  /\ UNCHANGED <<sock, pending, conns, sent, got>>

M_Receive(t, r, p, hup) ==
  IF hup
    THEN Close(t, [r EXCEPT !.buf = p.buf], FALSE)
  ELSE IF p.ok
    THEN /\ tr' = [tr EXCEPT ![t] = Enter([r EXCEPT !.buf = p.buf])]
         /\ cur' = Callback(t, "recv", hup)
         /\ got' = [got EXCEPT ![EndOf(t)] = Append(@, p.msg)]
         /\ UNCHANGED <<watch, sock, shut, pending, conns, sent, state>>
    ELSE /\ tr' = [tr EXCEPT ![t] = [r EXCEPT !.buf = p.buf]]
         /\ cur' = None
         /\ UNCHANGED <<watch, sock, shut, pending, conns, historyVars>>

\* What comes of a call of iot_fragbuf_pull().
Receive(t, r, p, hup) ==
  IF p.ok
    THEN /\ tr' = [tr EXCEPT ![t] = Enter([r EXCEPT !.buf = p.buf])]
         /\ cur' = Callback(t, "recv", hup)
         /\ got' = [got EXCEPT ![EndOf(t)] = Append(@, p.msg)]
         /\ UNCHANGED <<watch, sock, shut, pending, conns, sent, state>>
  ELSE IF hup
    THEN Close(t, [r EXCEPT !.buf = p.buf], FALSE)
    ELSE /\ tr' = [tr EXCEPT ![t] = [r EXCEPT !.buf = p.buf]]
         /\ cur' = None
         /\ UNCHANGED <<watch, sock, shut, pending, conns, historyVars>>

ConnectionEvent(f) ==
  /\ cur = None /\ watch[f] # None
  /\ sock[f] = Listening /\ pending # <<>>
  /\ tr' = [tr EXCEPT ![watch[f]] = Enter(@)]
  /\ cur' = Callback(watch[f], "connection", FALSE)
  /\ UNCHANGED <<watch, netVars, historyVars>>

\* FIONREAD, read() and the first iot_fragbuf_pull().  The peer's end is seen
\* only behind all the bytes it wrote.
DataEvent(f) ==
  LET t == watch[f]
      e == sock[f]
  IN  /\ cur = None /\ t # None /\ e \in End
      /\ \E n \in 0 .. Len(pipe[e]), hup \in BOOLEAN :
           LET buf == FragbufFill(tr[t].buf, n, SubSeq(pipe[e], 1, n)) IN
           /\ n > 0 \/ hup
           /\ hup => shut[Peer(e)] /\ n = Len(pipe[e])
           /\ pipe' = [pipe EXCEPT ![e] = SubSeq(@, n + 1, Len(@))]
           /\ Receive(t, tr[t], FragbufPull(buf, FALSE), hup)

\* read() fails, or there is no memory for what it would read.
ErrorEvent(f) ==
  /\ cur = None /\ watch[f] # None
  /\ sock[f] \in End /\ pipe[sock[f]] # <<>>
  /\ Close(watch[f], tr[watch[f]], TRUE)
  /\ UNCHANGED pipe

M_CheckDestroy(r) == Purged(r)

CheckDestroy(r) == Purged(Leave(r))

\* A callback of a connection or of its end returns.
CallbackReturn ==
  /\ cur # None
  /\ cur.at \in {"accepted", "closed"} \/ (cur.at = "connection" /\ tr[cur.t].destroyed)
  /\ tr' = [tr EXCEPT ![cur.t] = CheckDestroy(@)]
  /\ cur' = None
  /\ UNCHANGED <<watch, netVars, historyVars>>

M_RecvReturn ==
  /\ cur # None /\ cur.at = "recv"
  /\ tr' = [tr EXCEPT ![cur.t] = CheckDestroy(@)]
  /\ cur' = None
  /\ UNCHANGED <<watch, netVars, historyVars>>

\* A receive callback returns: check_destroy(), and the next message.
RecvReturn ==
  /\ cur # None /\ cur.at = "recv"
  /\ LET t == cur.t
         r == CheckDestroy(tr[t])
     IN  IF r.life = "freed"
           THEN /\ tr' = [tr EXCEPT ![t] = r]
                /\ cur' = None
                /\ UNCHANGED <<watch, netVars, historyVars>>
           ELSE /\ Receive(t, r,
                           IF r.buf = None THEN NotPulled(None)
                                           ELSE FragbufPull(r.buf, TRUE), cur.hup)
                /\ UNCHANGED pipe

-----------------------------------------------------------------------------

StrmInit ==
  /\ tr = [t \in Transports |-> Freed]
  /\ watch = [f \in Fd |-> None]
  /\ sock = [f \in Fd |-> None]
  /\ pipe = [e \in End |-> <<>>]
  /\ shut = [e \in End |-> FALSE]
  /\ pending = <<>>
  /\ conns = 0
  /\ cur = None
  /\ sent = [e \in End |-> <<>>]
  /\ got = [e \in End |-> <<>>]
  /\ state = [e \in End |-> "open"]

Request(t) ==
  \/ IotTransportCreate(t)
  \/ StrmListen(t)
  \/ StrmConnect(t)
  \/ StrmAccept(t)
  \/ \E m \in Message : StrmSendjson(t, m)
  \/ IotTransportDisconnect(t)
  \/ IotTransportDestroy(t)

StrmNext ==
  \/ \E t \in Transports : Request(t)
  \/ IotRejectConnection
  \/ \E f \in Fd : ConnectionEvent(f) \/ DataEvent(f) \/ ErrorEvent(f)
  \/ CallbackReturn
  \/ RecvReturn

\* The mainloop polls for what is watched, callbacks return, and a connection
\* callback accepts its connection.
StrmFairness ==
  /\ \A f \in Fd : WF_strmVars(ConnectionEvent(f)) /\ WF_strmVars(DataEvent(f))
  /\ WF_strmVars(IotRejectConnection \/ \E t \in Transports : StrmAccept(t))
  /\ WF_strmVars(CallbackReturn)
  /\ WF_strmVars(RecvReturn)

StrmSpec == StrmInit /\ [][StrmNext]_strmVars /\ StrmFairness

-----------------------------------------------------------------------------
(* Properties.                                                             *)

StrmTypeOK ==
  /\ \A t \in Transports :
       /\ tr[t].life \in {"live", "freed"}
       /\ tr[t].busy \in 0 .. 1
       /\ tr[t].sock \in Fd \cup {None}
       /\ tr[t].buf = None \/ tr[t].buf \in Buffer
  /\ watch \in [Fd -> Transports \cup {None}]
  /\ sock \in [Fd -> End \cup {Listening, None}]
  /\ pipe \in [End -> Seq(Byte)]
  /\ {sent, got} \subseteq [End -> Seq(Message)]

(* Nothing that still refers to a transport refers to one that has been    *)
(* freed, although any callback may destroy any transport, the one it is   *)
(* called for included: neither a callback that is to return to            *)
(* strm_recv_cb(), nor the I/O watch of a descriptor, which is that of the *)
(* transport's own socket even when the kernel has given the number to     *)
(* another one.  And what has been destroyed is freed, not forgotten.      *)
NoDanglingTransport ==
  /\ cur # None => tr[cur.t].life = "live"
  /\ \A f \in Fd : watch[f] # None =>
       tr[watch[f]].life = "live" /\ tr[watch[f]].sock = f /\ sock[f] # None
  /\ \A t \in Transports : tr[t].life = "live" /\ tr[t].destroyed =>
       cur # None /\ cur.t = t

(* However the bytes were cut into pieces and whichever messages were      *)
(* pulled so far, the buffer of a connection and the bytes on the way to   *)
(* it are, framed, exactly the messages its user has not been given, the   *)
(* one whose callback runs in front of them.                               *)
Undelivered(t) ==
  LET e == EndOf(t)
      n == Len(got[e])
      from == IF cur # None /\ cur.t = t /\ cur.at = "recv" THEN n ELSE n + 1
  IN  SubSeq(sent[e], from, Len(sent[e]))

StreamIntact ==
  \A t \in Transports : tr[t].buf # None =>
    tr[t].buf.data \o pipe[EndOf(t)] = Frames(Undelivered(t))

(* The transport is the channel its users take it for: messages arrive     *)
(* whole, once, in order, all of them before the closed callback and none  *)
(* after it.                                                               *)
Users == INSTANCE Channel
ImplementsChannel == Users!Spec

(* What was sent is delivered, and that the peer has closed the connection *)
(* is noticed, unless the user gives the connection up first.              *)
Delivered ==
  \A e \in End :
    /\ [](sent[e] # <<>> => <>(Len(got[e]) = Len(sent[e]) \/ state[e] = "over"))
    /\ shut[Peer(e)] ~> state[e] # "open"

(* fragbuf.h:78 on iot_fragbuf_missing(): "Return the amount of bytes      *)
(* missing from the last message", once all of its length is there.        *)
MissingFromLast ==
  \A t \in Transports : tr[t].buf # None =>
    LET ms   == Undelivered(t)
        used == Len(tr[t].buf.data)
        ends == {Len(Frames(SubSeq(ms, 1, i))) : i \in 0 .. Len(ms)}
        last == Min({n \in ends : n >= used})
        from == Max({n \in ends : n < used})
    IN  used > 0 /\ used - from >= HeaderLen =>
          FragbufMissing(tr[t].buf) = last - used
=============================================================================
