---------------------------- MODULE EventRouter ----------------------------
(***************************************************************************)
(* The daemon's event service: the registry of event names and the routing *)
(* of event.c, the subscriptions of client.c, and the dispatch of          *)
(* transport.c for the requests of the application library.                *)
(*                                                                         *)
(* An event is known by its place in the registry, and a client's          *)
(* subscriptions are a bit mask over these ids (iot_mask_t).  A request is *)
(* answered with a status that repeats its sequence number.                *)
(***************************************************************************)
EXTENDS Clients

CONSTANTS
  Event,         \* names of events
  StoppedEvent,  \* the one the daemon registers when it starts
  MaxEvents,     \* MAX_EVENTS
  ShiftedBit,    \* the bit that 1ULL << -1 sets: 63 on the usual processors
  Senders,       \* identities the IOT_PRIV_SEND_EVENT check lets through
  Target,        \* event destinations, with the fields label, uid and pid
  NoLabel, NoUid, NoPid  \* the field does not restrict the destination

ASSUME EventRouterAssumption ==
  /\ StoppedEvent \in Event
  /\ MaxEvents \in Nat \ {0}
  /\ ShiftedBit \in 0 .. MaxEvents - 1
  /\ Senders \subseteq Identity

VARIABLES
  inq,     \* requests sent on each connection, not read by the daemon yet
  events,  \* the registered names, by id
  mask     \* c->mask

routerVars == <<inq, events, mask>>

SubscribeReq(seq, names) ==
  [type |-> "subscribe-events", seqno |-> seq, events |-> names]
SendReq(seq, event, target, data) ==
  [type |-> "send-event", seqno |-> seq, event |-> event, target |-> target,
   data |-> data]
ListReq(seq) == [type |-> "list", seqno |-> seq]

Status(req, status) ==
  [type |-> "status", seqno |-> req.seqno, status |-> status]

(* event_id(): ids count from 0, and -1 is no event.                       *)
EventId(known, name) == SelectInSeq(known, LAMBDA e : e = name) - 1

(* event_register(): a full registry takes no further names.               *)
EventRegister(known, name) ==
  IF name \in Range(known) \/ Len(known) >= MaxEvents THEN known
  ELSE Append(known, name)

(* iot_mask_set() for each of the bits.                                    *)
M_SetBits(c, bits) == mask' = [mask EXCEPT ![c] = bits]
SetBits(c, bits) == mask' = [mask EXCEPT ![c] = @ \cup bits]

(* client_subscribe(): registers each name and sets its bit.  When the     *)
(* registry is full iot_mask_set() is called for the bit -1, succeeds, and *)
(* shifts by -1: it sets ShiftedBit or, undefined as it is, no bit.        *)
ClientSubscribe(c, req) ==
  LET known == FoldLeft(EventRegister, events, req.events)
      ids == {EventId(known, name) : name \in Range(req.events)}
  IN  /\ events' = known
      /\ \E stray \in {{}, IF -1 \in ids THEN {ShiftedBit} ELSE {}} :
           SetBits(c, (ids \ {-1}) \cup stray)
      /\ out' = TransportSend(out, c, Status(req, "0"))

(* event_route(): the clients an event is sent to.  The library sends no   *)
(* group, and neither the label nor the application id is compared.        *)
M_Recipients(event, to) ==
  {c \in Range(clients) :
     /\ EventId(events, event) \in mask[c]
     /\ to.uid \in {NoUid, id[c].uid} /\ to.pid \in {NoPid, id[c].pid}
     /\ SelectInSeq(clients, LAMBDA d : d = c) = 1}

Recipients(event, to) ==
  {c \in Range(clients) :
     /\ EventId(events, event) \in mask[c]
     /\ to.uid \in {NoUid, id[c].uid}
     /\ to.pid \in {NoPid, id[c].pid}}

EventRoute(c, req) ==
  LET Refuse(errno) == out' = TransportSend(out, c, Status(req, errno))
      routed == [d \in Conn |->
                   IF d \in Recipients(req.event, req.target)
                   THEN Append(out[d], EventMsg(req.event, req.data)) ELSE out[d]]
  IN  /\ UNCHANGED <<events, mask>>
      /\ \/ /\ EventId(events, req.event) = -1
            /\ Refuse("EINVAL")
         \/ /\ EventId(events, req.event) # -1
            /\ id[c] \notin Senders
            /\ Refuse("EPERM")
         \/ /\ EventId(events, req.event) # -1
            /\ id[c] \in Senders
            /\ out' = TransportSend(routed, c, Status(req, "0"))

(* application_list(): the list is read off the applications tracked and   *)
(* installed, which events have no part in.                                *)
ApplicationList(c, req) ==
  /\ out' = TransportSend(out, c, Status(req, "0"))
  /\ UNCHANGED <<events, mask>>

(* lnc_recv(): the handler of the request's type.                          *)
LncRecv(c) ==
  /\ c \in Range(clients) /\ inq[c] # <<>>
  /\ inq' = [inq EXCEPT ![c] = Tail(@)]
  /\ LET req == Head(inq[c])
     IN  \/ req.type = "subscribe-events" /\ ClientSubscribe(c, req)
         \/ req.type = "send-event" /\ EventRoute(c, req)
         \/ req.type = "list" /\ ApplicationList(c, req)
  /\ UNCHANGED <<clients, id>>

(* client_create() starts a client with an empty mask.                     *)
M_MaskInit(c) == mask' = mask
MaskInit(c) == mask' = [mask EXCEPT ![c] = {}]

(* application_init() registers the event that stopped applications cause. *)
RouterInit ==
  /\ ClientsInit
  /\ inq = [c \in Conn |-> <<>>]
  /\ events = <<StoppedEvent>>
  /\ mask = [c \in Conn |-> {}]
=============================================================================
