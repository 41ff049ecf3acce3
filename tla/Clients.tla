------------------------------ MODULE Clients ------------------------------
(***************************************************************************)
(* The daemon's client list (launcher_t.clients) and the sockets behind    *)
(* it: client.c, and transport_send() of transport.c.                      *)
(*                                                                         *)
(* A connection is a slot c of Conn.  The kernel fixes the identity of the *)
(* process at the other end when it connects; the daemon reads it when it  *)
(* accepts.  out[c] is what the daemon wrote to c and nobody read yet: a   *)
(* stream socket, so nothing in it is lost, repeated or reordered, and it  *)
(* vanishes with the connection.  transport_send() has no other effect     *)
(* and its callers ignore its result.                                      *)
(*                                                                         *)
(* Here and in the other modules a definition M_X is X as a bug would have *)
(* it.  No specification uses one; see the README.                         *)
(***************************************************************************)
EXTENDS SequencesExt

CONSTANTS
  Conn,       \* connection slots
  Identity,   \* records with the fields uid and pid at least
  NoIdentity  \* the slot is not connected

ASSUME NoIdentityAssumption == NoIdentity \notin Identity

VARIABLES
  clients,  \* l->clients: the accepted connections, oldest first
  id,       \* the peer's credentials, NoIdentity when not connected
  out       \* messages written to each connection, not read by its peer

clientVars == <<clients, id, out>>

(* iot_list_foreach() with a break: the first element that passes Test, of *)
(* those that do.                                                          *)
FirstThat(s, Test(_)) == s[SelectInSeq(s, Test)]

StatusMsg(status, text, data) ==
  [type |-> "status", status |-> status, text |-> text, data |-> data]

EventMsg(event, data) == [type |-> "event", event |-> event, data |-> data]

(* Status messages: msg_status_ok(), msg_status_error().                   *)
OK == StatusMsg("0", "OK", {})
Error(errno) == StatusMsg(errno, "error", {})

TransportSend(o, c, msg) == [o EXCEPT ![c] = Append(@, msg)]

(* event_send(): the event goes to the first client whose process id is    *)
(* pid, whatever it subscribed to, and nowhere when there is none.         *)
M_HasPid(c, pid) == TRUE
HasPid(c, pid) == id[c].pid = pid

EventSend(o, pid, event, data) ==
  LET Match(c) == HasPid(c, pid)
  IN  IF \E c \in Range(clients) : Match(c)
      THEN TransportSend(o, FirstThat(clients, Match), EventMsg(event, data))
      ELSE o

(* The tail of client_create(), and client_destroy().                      *)
ClientCreate(c) == clients' = Append(clients, c)

ClientDestroy(c) ==
  /\ clients' = RemoveFirst(clients, c)
  /\ id' = [id EXCEPT ![c] = NoIdentity]
  /\ out' = [out EXCEPT ![c] = <<>>]

ClientsInit ==
  /\ clients = <<>>
  /\ id = [c \in Conn |-> NoIdentity]
  /\ out = [c \in Conn |-> <<>>]

(* The list names each connection once, and its identity is known.         *)
ClientsOK ==
  /\ clients \in Seq(Conn) /\ IsInjective(clients)
  /\ id \in [Conn -> Identity \cup {NoIdentity}]
  /\ \A c \in Range(clients) : id[c] # NoIdentity
=============================================================================
