------------------------------ MODULE Transport ------------------------------
(***************************************************************************)
(* What all transports share, transport.c: the record of a transport and   *)
(* the two rules that let a callback destroy the transport it is called    *)
(* for.  Everything that may end up in a callback is enclosed in           *)
(* IOT_TRANSPORT_BUSY, and whoever leaves it calls purge_destroyed(),      *)
(* which frees a transport that is destroyed and not busy any more.        *)
(***************************************************************************)
EXTENDS Fragbuf

CONSTANTS Transports,     \* transports that can be allocated
          Fd,             \* file descriptors
          None

ASSUME TransportAssumption == None \notin Transports \cup Fd

\* A transport as iot_allocz() and req.open() leave it.
Opened == [life |-> "live", destroyed |-> FALSE, busy |-> 0,
           connected |-> FALSE, listened |-> FALSE, sock |-> None, buf |-> None]

\* Memory that is no transport, or not one any more.
Freed == [Opened EXCEPT !.life = "freed"]

Enter(r) == [r EXCEPT !.busy = @ + 1]
Leave(r) == [r EXCEPT !.busy = @ - 1]

M_Purged(r) == IF r.destroyed THEN Freed ELSE r

Purged(r) ==
  IF r.destroyed /\ r.busy = 0 THEN Freed ELSE r

\* Users keep no pointer to a transport they have destroyed.
Usable(r) == r.life = "live" /\ ~r.destroyed

\* IOT_TRANSPORT_BUSY around a request, and purge_destroyed() after it.
Requested(r, req(_)) == Purged(Leave(req(Enter(r))))
=============================================================================
