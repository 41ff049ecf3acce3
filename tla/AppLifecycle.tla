---------------------------- MODULE AppLifecycle ----------------------------
(***************************************************************************)
(* What the launcher promises about the applications it tracks, without    *)
(* its requests, replies, timers and agents: an instance starts with one   *)
(* process, no process belongs to two instances, only an instance somebody *)
(* asked to stop has processes taken away in bulk, an instance is          *)
(* forgotten only once it has no process, and a stopped one is forgotten   *)
(* in the end.                                                             *)
(***************************************************************************)
CONSTANTS Handle, Pid

VARIABLES
  phase,  \* where each instance is in its life
  procs   \* the processes of each instance

lifecycleVars == <<phase, procs>>

Free(p) == \A h \in Handle : p \notin procs[h]

Launch(h, p) ==
  /\ phase[h] = "free" /\ Free(p)
  /\ phase' = [phase EXCEPT ![h] = "running"]
  /\ procs' = [procs EXCEPT ![h] = {p}]

Fork(h, q) ==
  /\ procs[h] # {} /\ Free(q)
  /\ procs' = [procs EXCEPT ![h] = @ \cup {q}]
  /\ phase' = phase

End(h, p) ==
  /\ procs' = [procs EXCEPT ![h] = @ \ {p}]
  /\ phase' = phase

Stop(h) ==
  /\ phase[h] = "running"
  /\ phase' = [phase EXCEPT ![h] = "stopping"]
  /\ procs' = procs

(* The processes of S are killed; one of them may just have had a child.   *)
Kill(h, S) ==
  /\ phase[h] = "stopping" /\ procs[h] # {}
  /\ \E C \in {{}} \cup {{q} : q \in {p \in Pid : Free(p)}} :
       procs' = [procs EXCEPT ![h] = (@ \ S) \cup C]
  /\ phase' = phase

Forget(h) ==
  /\ phase[h] # "free" /\ procs[h] = {}
  /\ phase' = [phase EXCEPT ![h] = "free"]
  /\ procs' = procs

Init ==
  /\ phase = [h \in Handle |-> "free"]
  /\ procs = [h \in Handle |-> {}]

Next ==
  \E h \in Handle :
    \/ \E p \in Pid : Launch(h, p) \/ Fork(h, p) \/ End(h, p)
    \/ Stop(h) \/ Forget(h)
    \/ \E S \in SUBSET procs[h] : Kill(h, S)

StoppedAreForgotten ==
  \A h \in Handle : phase[h] = "stopping" ~> phase[h] = "free"

Spec == Init /\ [][Next]_lifecycleVars /\ StoppedAreForgotten
=============================================================================
