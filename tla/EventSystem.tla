---------------------------- MODULE EventSystem ----------------------------
(***************************************************************************)
(* Applications that exchange events through the daemon: contexts of the   *)
(* application library (AppLib), the daemon's event service (EventRouter), *)
(* and the stream sockets between them.                                    *)
(*                                                                         *)
(* The library connects when it has a request to make and no connection.   *)
(* When the daemon goes away what it wrote can still be read, then the     *)
(* application is told that the connection is down.                        *)
(*                                                                         *)
(* asked, confirmed and owed are history: they record what the properties  *)
(* speak of and no action depends on them.                                 *)
(***************************************************************************)
EXTENDS EventRouter, AppLib

CONSTANTS
  Ident,       \* the identity of each context's process
  Subscribed,  \* lists of names contexts subscribe to: bounds the inputs
  Sent,        \* events with the targets they are sent to: bounds the inputs
  MaxRestarts  \* how often the daemon may die and be started again

ASSUME EventSystemAssumption ==
  /\ NoConn \notin Conn
  /\ Ident \in [Ctx -> Identity]
  /\ Subscribed \subseteq Seq(Event)
  /\ Sent \subseteq Event \X Target
  /\ MaxSeq \in Nat /\ MaxRestarts \in Nat

VARIABLES
  backlog,    \* connections the daemon did not accept yet
  restarts,   \* times the daemon was restarted
  asked,      \* names each context asked for on its connection
  confirmed,  \* those whose subscription it was told has succeeded
  owed        \* events sent that a confirmed subscriber did not receive yet

historyVars == <<asked, confirmed, owed>>

vars == <<clientVars, routerVars, libVars, backlog, restarts, historyVars>>

Open == Range(clients) \cup backlog

Holders(c) == {p \in Ctx : link[p] = c}

FreeConn == {c \in Conn \ Open : Holders(c) = {}}

(* What a context sends as the data of its events, for the properties to   *)
(* tell them apart: the request it belongs to and whom it is meant for.    *)
Data(p, target) == [from |-> p, seqno |-> seqno[p], to |-> target]

(* transport_connect(), when there is no connection yet.                   *)
Connect(p, req) ==
  \E c \in {CHOOSE c \in FreeConn : TRUE} :
    /\ link' = [link EXCEPT ![p] = c]
    /\ id' = [id EXCEPT ![c] = Ident[p]]
    /\ inq' = [inq EXCEPT ![c] = <<req>>]
    /\ out' = [out EXCEPT ![c] = <<>>]
    /\ backlog' = backlog \cup {c}

(* A request: it is sent and becomes pending, or it fails because the      *)
(* daemon has closed the connection and the library was not told yet.      *)
Request(p, req) ==
  /\ p \notin gone /\ seqno[p] <= MaxSeq
  /\ seqno' = [seqno EXCEPT ![p] = @ + 1]
  /\ \/ /\ link[p] = NoConn /\ FreeConn # {}
        /\ Connect(p, req)
        /\ PendingEnq(p, req)
     \/ /\ link[p] \in Open
        /\ inq' = [inq EXCEPT ![link[p]] = Append(@, req)]
        /\ PendingEnq(p, req)
        /\ UNCHANGED <<link, id, out, backlog>>
     \/ /\ link[p] \notin Open \cup {NoConn}
        /\ UNCHANGED <<link, id, out, inq, pendq, backlog>>
  /\ UNCHANGED <<clients, events, mask, notified, gone, restarts>>

(* iot_app_event_subscribe().                                              *)
AppEventSubscribe(p) ==
  \E names \in Subscribed :
    /\ Request(p, SubscribeReq(seqno[p], names))
    /\ asked' = [asked EXCEPT ![p] = @ \cup Range(names)]
    /\ UNCHANGED <<confirmed, owed>>

(* iot_app_event_send(): it is owed to the contexts that know that they    *)
(* are subscribed, if the daemon can still be reached and lets it through. *)
Subscribers(event, target) ==
  {q \in Ctx : /\ event \in confirmed[q] \cap Range(events)
               /\ link[q] \in Open
               /\ target.uid \in {NoUid, Ident[q].uid}
               /\ target.pid \in {NoPid, Ident[q].pid}}

AppEventSend(p) ==
  \E sent \in Sent :
    LET event == sent[1]
        target == sent[2]
        data == Data(p, target)
    IN  /\ Request(p, SendReq(seqno[p], event, target, data))
        /\ owed' = owed \cup
             (IF pendq' # pendq /\ Ident[p] \in Senders
              THEN {[to |-> q, data |-> data] : q \in Subscribers(event, target)}
              ELSE {})
        /\ UNCHANGED <<asked, confirmed>>

(* iot_app_list_running(), iot_app_list_all().                             *)
AppList(p) ==
  /\ Request(p, ListReq(seqno[p]))
  /\ UNCHANGED historyVars

(* recv_cb() of app.c: a status goes to the request it answers, an event   *)
(* to the application.                                                     *)
Confirm(p, m) ==
  confirmed' =
    [confirmed EXCEPT ![p] = @ \cup
       UNION {Range(r.events) : r \in {r \in Range(pendq[p]) :
                /\ r.type = "subscribe-events"
                /\ r.seqno = m.seqno /\ m.status = "0"}}]

RecvCb(p) ==
  /\ link[p] # NoConn /\ out[link[p]] # <<>>
  /\ out' = [out EXCEPT ![link[p]] = Tail(@)]
  /\ LET m == Head(out[link[p]])
     IN  \/ /\ m.type = "status"
            /\ PendingNotify(p, {m.seqno})
            /\ Confirm(p, m)
            /\ owed' = owed
         \/ /\ m.type = "event"
            /\ owed' = owed \ {[to |-> p, data |-> m.data]}
            /\ UNCHANGED <<pendq, notified, confirmed>>
  /\ UNCHANGED <<clients, id, routerVars, link, seqno, gone, backlog, restarts,
                 asked>>

(* Whatever ends the connection of p ends what was asked for on it.        *)
Forget(p) ==
  /\ asked' = [asked EXCEPT ![p] = {}]
  /\ confirmed' = [confirmed EXCEPT ![p] = {}]
  /\ owed' = {o \in owed : o.to # p}

ClosedCb(p) ==
  /\ link[p] \notin Open \cup {NoConn} /\ out[link[p]] = <<>>
  /\ ConnectionDown(p)
  /\ Forget(p)
  /\ UNCHANGED <<clientVars, routerVars, backlog, restarts>>

Destroy(p) ==
  /\ p \notin gone
  /\ AppDestroy(p)
  /\ Forget(p)
  /\ UNCHANGED <<clientVars, routerVars, backlog, restarts>>
-----------------------------------------------------------------------------
(* lnc_connect(): a client is created, or the connection is dropped, with  *)
(* what was sent on it, when the process is gone and its cgroup cannot be  *)
(* looked up.                                                              *)
LncConnect(c) ==
  /\ c \in backlog
  /\ backlog' = backlog \ {c}
  /\ \/ /\ ClientCreate(c) /\ MaskInit(c)
        /\ UNCHANGED <<id, inq, owed>>
     \/ /\ Holders(c) = {}
        /\ id' = [id EXCEPT ![c] = NoIdentity]
        /\ inq' = [inq EXCEPT ![c] = <<>>]
        /\ owed' = {o \in owed : \A r \in Range(inq[c]) :
                                r.type = "send-event" => r.data # o.data}
        /\ UNCHANGED <<clients, mask>>
  /\ UNCHANGED <<out, events, libVars, restarts, asked, confirmed>>

LncClosed(c) ==
  /\ c \in Range(clients) /\ Holders(c) = {} /\ inq[c] = <<>>
  /\ ClientDestroy(c)
  /\ UNCHANGED <<routerVars, libVars, backlog, restarts, historyVars>>

Serve(c) == LncRecv(c) /\ UNCHANGED <<libVars, backlog, restarts, historyVars>>

(* The daemon dies and is started again: clients, registry and masks are   *)
(* gone, every connection is cut, requests it did not read are lost.       *)
Restart ==
  /\ restarts < MaxRestarts
  /\ restarts' = restarts + 1
  /\ clients' = <<>> /\ backlog' = {}
  /\ id' = [c \in Conn |-> NoIdentity]
  /\ inq' = [c \in Conn |-> <<>>]
  /\ events' = <<StoppedEvent>>
  /\ mask' = [c \in Conn |-> {}]
  /\ owed' = {}
  /\ UNCHANGED <<out, libVars, asked, confirmed>>

Init ==
  /\ RouterInit /\ LibInit
  /\ backlog = {} /\ restarts = 0
  /\ asked = [p \in Ctx |-> {}] /\ confirmed = [p \in Ctx |-> {}]
  /\ owed = {}

Next ==
  \/ \E p \in Ctx : \/ AppEventSubscribe(p) \/ AppEventSend(p) \/ AppList(p)
                    \/ RecvCb(p) \/ ClosedCb(p) \/ Destroy(p)
  \/ \E c \in Conn : LncConnect(c) \/ LncClosed(c) \/ Serve(c)
  \/ Restart

(* The daemon serves every connection, and every application's mainloop    *)
(* its own.                                                                *)
Fairness ==
  /\ \A c \in Conn : WF_vars(LncConnect(c)) /\ WF_vars(LncClosed(c))
                     /\ WF_vars(Serve(c))
  /\ \A p \in Ctx : WF_vars(RecvCb(p)) /\ WF_vars(ClosedCb(p))

Spec == Init /\ [][Next]_vars /\ Fairness
-----------------------------------------------------------------------------
Requests ==
  {SubscribeReq(s, names) : s \in 1 .. MaxSeq, names \in Subscribed} \cup
  {SendReq(s, et[1], et[2], [from |-> p, seqno |-> s, to |-> et[2]]) :
     s \in 1 .. MaxSeq, et \in Sent, p \in Ctx} \cup
  {ListReq(s) : s \in 1 .. MaxSeq}

Replies ==
  [type : {"status"}, seqno : 1 .. MaxSeq, status : {"0", "EINVAL", "EPERM"}]

Payloads == [from : Ctx, seqno : 1 .. MaxSeq, to : Target]

Messages == Replies \cup {EventMsg(e, data) : e \in Event, data \in Payloads}

(* The shape of the state: the registry knows a name once and keeps within *)
(* its bound, and masks have bits for possible ids only.                   *)
TypeOK ==
  /\ clients \in Seq(Conn) /\ IsInjective(clients)
  /\ backlog \subseteq Conn \ Range(clients)
  /\ id \in [Conn -> Identity \cup {NoIdentity}]
  /\ inq \in [Conn -> Seq(Requests)] /\ out \in [Conn -> Seq(Messages)]
  /\ events \in Seq(Event) /\ IsInjective(events) /\ Len(events) \in 1 .. MaxEvents
  /\ mask \in [Conn -> SUBSET (0 .. MaxEvents - 1)]
  /\ link \in [Ctx -> Conn \cup {NoConn}]
  /\ seqno \in [Ctx -> 1 .. MaxSeq + 1]
  /\ pendq \in [Ctx -> Seq(Requests)] /\ notified \in [Ctx -> Seq(1 .. MaxSeq)]
  /\ gone \subseteq Ctx /\ restarts \in Nat
  /\ asked \in [Ctx -> SUBSET Event] /\ confirmed \in [Ctx -> SUBSET Event]
  /\ owed \subseteq [to : Ctx, data : Payloads]

(* The library's queue and the connection agree: what is pending is what   *)
(* the daemon answered but was not read yet, then what it did not get to,  *)
(* in the order the requests were made.                                    *)
PendingInOrder ==
  \A p \in Ctx : link[p] \in Open =>
    Seqnos(pendq[p]) = Seqnos(Keep(out[link[p]], Replies)) \o Seqnos(inq[link[p]])

Increasing(s) == \A i, j \in DOMAIN s : i < j => s[i] < s[j]

(* No request gets two callbacks, and callbacks come in request order,     *)
(* over any number of connections.                                         *)
CallbacksInOrder ==
  \A p \in Ctx : Increasing(notified[p] \o Seqnos(pendq[p]))

(* An application is sent no event it did not ask for on the connection it *)
(* has, unless a name it asked for did not fit into the registry: then it  *)
(* may have been subscribed to the event with the id ShiftedBit instead.   *)
OnlyAskedFor ==
  \A p \in Ctx : link[p] \in Open =>
    \A m \in Range(out[link[p]]) :
      m.type = "event" => m.event \in asked[p] \/ ~(asked[p] \subseteq Range(events))

(* An application that was told it is subscribed misses no event: one that *)
(* it is owed is still on its way to the daemon or to the application.     *)
OwedInFlight ==
  \A o \in owed :
    \/ \E c \in Conn : \E r \in Range(inq[c]) :
         r.type = "send-event" /\ r.data = o.data
    \/ \E m \in Range(out[link[o.to]]) : m.type = "event" /\ m.data = o.data

(* Every request is called back for in the end, or its context destroyed.  *)
RequestsAnswered ==
  \A p \in Ctx, s \in 1 .. MaxSeq :
    s \in Range(Seqnos(pendq[p])) ~> s \notin Range(Seqnos(pendq[p]))

(* An event owed to a subscriber is delivered, unless a connection ends.   *)
OwedDelivered ==
  \A p, q \in Ctx, s \in 1 .. MaxSeq, t \in {et[2] : et \in Sent} :
    LET o == [to |-> q, data |-> [from |-> p, seqno |-> s, to |-> t]]
    IN  o \in owed ~> o \notin owed

(* Stated of client_subscribe() by its error message: a subscription that  *)
(* was reported to have succeeded is one for every name in it.             *)
ConfirmedSubscribed ==
  \A p \in Ctx : link[p] \in Open =>
    \A name \in confirmed[p] : EventId(events, name) \in mask[link[p]]

(* Stated of iot_app_event_send() by app.h: an event goes to applications  *)
(* that match the target, its label included.                              *)
TargetHonoured ==
  \A p \in Ctx : link[p] # NoConn =>
    \A m \in Range(out[link[p]]) :
      m.type = "event" => m.data.to.label \in {NoLabel, Ident[p].label}
=============================================================================
