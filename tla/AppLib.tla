------------------------------- MODULE AppLib -------------------------------
(***************************************************************************)
(* The application library, app.c: what an application context            *)
(* (iot_app_t) keeps, and its queue of requests that wait for a status.    *)
(*                                                                         *)
(* Each member of Ctx is one context, from iot_app_create() to             *)
(* iot_app_destroy(); a process that creates another is another member     *)
(* with the same identity.  A callback that makes a request of its own is  *)
(* modelled by the request as a step after the callback: the context is    *)
(* single threaded and the request only appends to the queue.  A context   *)
(* is not destroyed inside one of its callbacks, which frees what          *)
(* pending_notify() goes on to use.                                        *)
(***************************************************************************)
EXTENDS Lists

CONSTANTS
  Ctx,     \* application contexts
  NoConn,  \* app->t == NULL
  MaxSeq   \* bound: requests a context makes

VARIABLES
  link,      \* app->t, the connection slot it stands for
  seqno,     \* app->seqno
  pendq,     \* app->pendq: requests not answered yet, oldest first
  notified,  \* history: the sequence numbers callbacks were made for
  gone       \* destroyed contexts

libVars == <<link, seqno, pendq, notified, gone>>

Seqnos(s) == [i \in DOMAIN s |-> s[i].seqno]

(* pending_enq() of a request that was sent.                               *)
M_PendingEnq(p, req) == pendq' = [pendq EXCEPT ![p] = <<req>> \o @]
PendingEnq(p, req) == pendq' = [pendq EXCEPT ![p] = Append(@, req)]

(* The pending requests with sequence numbers in S.                        *)
Numbered(p, S) == {r \in Range(pendq[p]) : r.seqno \in S}

(* pending_deq() of the requests with the sequence numbers of S.           *)
M_PendingDeq(p, S) == pendq' = pendq
PendingDeq(p, S) ==
  pendq' = [pendq EXCEPT ![p] = Keep(@, Range(@) \ Numbered(p, S))]

(* pending_notify(): calls back for the pending requests with sequence     *)
(* numbers in S, oldest first, and takes them off the queue.               *)
PendingNotify(p, S) ==
  /\ notified' = [notified EXCEPT ![p] =
                    @ \o Seqnos(Keep(pendq[p], Numbered(p, S)))]
  /\ PendingDeq(p, S)

(* closed_cb(): everything pending fails, the transport is destroyed.      *)
M_ConnectionDown(p) ==
  /\ link' = [link EXCEPT ![p] = NoConn]
  /\ UNCHANGED <<seqno, pendq, notified, gone>>

ConnectionDown(p) ==
  /\ PendingNotify(p, 1 .. MaxSeq)
  /\ link' = [link EXCEPT ![p] = NoConn]
  /\ UNCHANGED <<seqno, gone>>

(* iot_app_destroy(): pending requests are dropped without a callback.     *)
AppDestroy(p) ==
  /\ link' = [link EXCEPT ![p] = NoConn]
  /\ pendq' = [pendq EXCEPT ![p] = <<>>]
  /\ gone' = gone \cup {p}
  /\ UNCHANGED <<seqno, notified>>

(* iot_app_create().                                                       *)
LibInit ==
  /\ link = [p \in Ctx |-> NoConn]
  /\ seqno = [p \in Ctx |-> 1]
  /\ pendq = [p \in Ctx |-> <<>>]
  /\ notified = [p \in Ctx |-> <<>>]
  /\ gone = {}
=============================================================================
