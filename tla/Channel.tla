------------------------------- MODULE Channel -------------------------------
(***************************************************************************)
(* What the users of a connection-oriented transport rely on, the          *)
(* launcher, its client and the application library among them: a message  *)
(* arrives whole, once and in order; that the peer closed the connection   *)
(* is reported once, after every message the peer managed to send, and     *)
(* nothing arrives after it.  An end may also give up, or be told of an    *)
(* error, at any time; a listener that goes takes the connections nobody   *)
(* has accepted with it.                                                   *)
(***************************************************************************)
EXTENDS Naturals, Sequences

CONSTANTS End,          \* the ends of connections
          Message

VARIABLES sent,         \* sent[e]: the messages sent to e
          got,          \* got[e]: the messages e was given
          state         \* "open", "closed" (reported) or "over" to its user

Init ==
  /\ sent = [e \in End |-> <<>>]
  /\ got = [e \in End |-> <<>>]
  /\ state = [e \in End |-> "open"]

Send(e, m) ==
  /\ sent' = [sent EXCEPT ![e] = Append(@, m)]
  /\ UNCHANGED <<got, state>>

Receive(e) ==
  /\ state[e] = "open"
  /\ Len(got[e]) < Len(sent[e])
  /\ got' = [got EXCEPT ![e] = Append(@, sent[e][Len(@) + 1])]
  /\ UNCHANGED <<sent, state>>

Closed(e) ==
  /\ state[e] = "open"
  /\ got[e] = sent[e]
  /\ state' = [state EXCEPT ![e] = "closed"]
  /\ UNCHANGED <<sent, got>>

Over(es) ==
  /\ state' = [e \in End |-> IF e \in es THEN "over" ELSE state[e]]
  /\ UNCHANGED <<sent, got>>

Next ==
  \/ \E e \in End, m \in Message : Send(e, m)
  \/ \E e \in End : Receive(e) \/ Closed(e)
  \/ \E es \in SUBSET End : Over(es)

Spec == Init /\ [][Next]_<<sent, got, state>>
=============================================================================
