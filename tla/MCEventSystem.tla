--------------------------- MODULE MCEventSystem ---------------------------
(***************************************************************************)
(* Values for the constants of EventSystem: two processes of two users     *)
(* with labels of their own, of which only the first may send, and         *)
(* destinations that restrict nothing, the process, and the label.         *)
(***************************************************************************)
EXTENDS EventSystem

CONSTANTS a1, a2, e1, e2

Process(n) == [label |-> <<"label", n>>, uid |-> <<"uid", n>>, pid |-> n]

MCIdentity == {Process(1), Process(2)}

MCIdent == [p \in Ctx |-> IF p = a1 THEN Process(1) ELSE Process(2)]

Anyone == [label |-> NoLabel, uid |-> NoUid, pid |-> NoPid]

ToOne == [Anyone EXCEPT !.uid = <<"uid", 2>>, !.pid = 2]
ToLabel == [Anyone EXCEPT !.label = <<"label", 1>>]

MCTarget == {Anyone, ToOne, ToLabel}

MCSent == {<<e1, Anyone>>, <<e2, ToOne>>}
SentToAnyone == {<<e1, Anyone>>}
SentToLabel == {<<e1, ToLabel>>}

MCSenders == {Process(1)}

MCSubscribed == {<<e1>>, <<e2, e1>>}
SubscribedSingly == {<<e1>>, <<e2>>}

=============================================================================
