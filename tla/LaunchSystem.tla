---------------------------- MODULE LaunchSystem ----------------------------
(***************************************************************************)
(* The launcher daemon with its clients: the iot-launch processes that     *)
(* set up, stop, clean up after and list applications (launch.c), the      *)
(* applications they turn into, and the kernel that starts a cleanup agent *)
(* for each cgroup that becomes empty.                                     *)
(*                                                                         *)
(* An iot-launch process connects, sends the one request of its mode, and  *)
(* acts on what it receives.  Its socket is not close-on-exec, so the      *)
(* application it becomes, and every child, keeps the connection open.     *)
(***************************************************************************)
EXTENDS Launcher

CONSTANTS
  NoConn,     \* the process has no connection to the daemon
  SetupPids,  \* pids for iot-launch (LAUNCHER_SETUP): bounds the launches
  StopPids,   \* pids for iot-launch --stop
  ListPids,   \* pids for iot-launch --list-running
  AgentPids,  \* pids for iot-launch-agent (LAUNCHER_CLEANUP)
  ChildPids,  \* pids for what a launched application forks
  MaxRestarts \* how often the daemon may die and be started again

ASSUME LaunchSystemAssumption ==
  /\ NoConn \notin Conn
  /\ SetupPids \cup StopPids \cup ListPids \cup AgentPids \cup ChildPids \subseteq Pid
  /\ MaxRestarts \in Nat

VARIABLES
  st,       \* what each process is doing, "none" when there is no process
  conn,     \* the connection each process holds
  backlog,  \* connections the daemon did not accept yet
  restarts  \* times the daemon was restarted

systemVars == <<st, conn, backlog, restarts>>

vars == <<clientVars, cgroupVars, launcherVars, systemVars>>

Waiting == {"setup", "stop", "signalled", "list", "agent"}

Holders(c) == {p \in alive : conn[p] = c}

FreeConn == {c \in Conn \ (Range(clients) \cup backlog) : Holders(c) = {}}

(* main() up to the mainloop: the process starts, connects and sends req.  *)
(* The kernel records who it is for SO_PEERCRED.                           *)
Start(p, mode, uid, req) ==
  /\ FreeConn # {}
  /\ KernelSpawn(p, NoCgrp)
  /\ st' = [st EXCEPT ![p] = mode]
  /\ LET c == CHOOSE c \in FreeConn : TRUE
     IN  /\ conn' = [conn EXCEPT ![p] = c]
         /\ id' = [id EXCEPT ![c] = [uid |-> uid, pid |-> p]]
         /\ inq' = [inq EXCEPT ![c] = <<req>>]
         /\ out' = [out EXCEPT ![c] = <<>>]
         /\ backlog' = backlog \cup {c}
  /\ UNCHANGED <<clients, apps, rec, timers, dirs, restarts>>

StartSetup(p) ==
  /\ p \in SetupPids
  /\ \E uid \in Uid, app \in App : Start(p, "setup", uid, SetupReq(app, uid))
  /\ UNCHANGED released

StartStop(p) ==
  /\ p \in StopPids
  /\ \E uid \in Uid, app \in App : Start(p, "stop", uid, StopReq(app))
  /\ UNCHANGED released

StartList(p) ==
  /\ p \in ListPids
  /\ \E uid \in Uid : Start(p, "list", uid, ListReq)
  /\ UNCHANGED released

(* The kernel runs the release agent, as root, with the path of the cgroup *)
(* that became empty.                                                      *)
StartAgent(d) ==
  /\ d \in released
  /\ released' = released \ {d}
  /\ \E p \in AgentPids : Start(p, "agent", Root, CleanupReq(d))

(* A process ends: its connection loses a holder, its cgroup a member.     *)
Exit(p) ==
  /\ KernelExit({p}, {}, NoCgrp)
  /\ st' = [st EXCEPT ![p] = "none"]
  /\ conn' = [conn EXCEPT ![p] = NoConn]
  /\ UNCHANGED <<clients, id, launcherVars, dirs, backlog, restarts>>

(* A child of p starts in p's cgroup and shares p's connection.            *)
ForkChild(p, q) ==
  /\ q \in ChildPids
  /\ KernelSpawn(q, cg[p])
  /\ conn' = [conn EXCEPT ![q] = conn[p]]
  /\ UNCHANGED <<clients, id, launcherVars, dirs, released, backlog, restarts>>

(* launch_process(): the process becomes the application, or a child of it *)
(* does and the process is left to exit.                                   *)
LaunchProcess(p) ==
  \/ /\ st' = [st EXCEPT ![p] = "app"]
     /\ UNCHANGED <<clients, id, cgroupVars, launcherVars, conn, backlog, restarts>>
  \/ \E q \in ChildPids :
       /\ ForkChild(p, q)
       /\ st' = [st EXCEPT ![q] = "app", ![p] = "exiting"]

Ignore == UNCHANGED <<clients, id, cgroupVars, launcherVars, st, conn, backlog,
                      restarts>>

(* recv_cb() of launch.c: a failed request ends the process; otherwise the *)
(* status completes the request, except for a stop that was signalled: it  *)
(* stays until the stopped event arrives.  Other events are ignored.       *)
RecvStatus(p, m) ==
  \/ m.status # "0" /\ Exit(p)
  \/ m.status = "0" /\ st[p] = "setup" /\ LaunchProcess(p)
  \/ m.status = "0" /\ st[p] \in {"agent", "list"} /\ Exit(p)
  \/ /\ m.status = "0" /\ st[p] = "stop" /\ m.text = "SIGNALLED"
     /\ st' = [st EXCEPT ![p] = "signalled"]
     /\ UNCHANGED <<clients, id, cgroupVars, launcherVars, conn, backlog, restarts>>

RecvEvent(p, m) ==
  \/ m.event = "stopped" /\ st[p] \in {"stop", "signalled"} /\ Exit(p)
  \/ ~(m.event = "stopped" /\ st[p] \in {"stop", "signalled"}) /\ Ignore

Recv(p) ==
  /\ p \in alive /\ st[p] \in Waiting /\ conn[p] # NoConn
  /\ out[conn[p]] # <<>>
  /\ out' = [out EXCEPT ![conn[p]] = Tail(@)]
  /\ LET m == Head(out[conn[p]])
     IN  \/ m.type = "status" /\ RecvStatus(p, m)
         \/ m.type = "event" /\ RecvEvent(p, m)

(* closed_cb() of launch.c, without an error: the connection is dropped    *)
(* and the mainloop goes on with nothing left to wait for.                 *)
LostConnection(p) ==
  /\ p \in alive /\ st[p] \in Waiting /\ conn[p] # NoConn
  /\ conn[p] \notin Range(clients) \cup backlog
  /\ out[conn[p]] = <<>>
  /\ st' = [st EXCEPT ![p] = "hung"]
  /\ conn' = [conn EXCEPT ![p] = NoConn]
  /\ UNCHANGED <<clientVars, cgroupVars, launcherVars, backlog, restarts>>

(* The user interrupts an iot-launch; an application ends or forks when it *)
(* likes, whether or not it was sent SIGTERM.                              *)
Quit(p) ==
  /\ p \in alive /\ st[p] \in {"setup", "stop", "signalled", "list", "hung", "app"}
  /\ Exit(p) /\ UNCHANGED out

ParentExit(p) ==
  /\ p \in alive /\ st[p] = "exiting"
  /\ Exit(p) /\ UNCHANGED out

AppFork(p) ==
  /\ p \in alive /\ st[p] = "app"
  /\ \E q \in ChildPids : ForkChild(p, q) /\ st' = [st EXCEPT ![q] = "app"]
  /\ UNCHANGED out
-----------------------------------------------------------------------------
(* lnc_connect(): client_create() accepts the connection; it fails, and    *)
(* drops the connection with what was sent on it, when the process is gone *)
(* and its cgroup cannot be looked up.                                     *)
LncConnect(c) ==
  /\ c \in backlog
  /\ backlog' = backlog \ {c}
  /\ \/ /\ id[c].pid \in alive
        /\ ClientCreate(c)
        /\ UNCHANGED <<id, inq>>
     \/ /\ id[c].pid \notin alive
        /\ id' = [id EXCEPT ![c] = NoIdentity]
        /\ inq' = [inq EXCEPT ![c] = <<>>]
        /\ UNCHANGED clients
  /\ UNCHANGED <<out, cgroupVars, apps, rec, timers, st, conn, restarts>>

(* lnc_closed(): the last holder of the connection is gone and everything  *)
(* it sent was read.                                                       *)
LncClosed(c) ==
  /\ c \in Range(clients) /\ Holders(c) = {} /\ inq[c] = <<>>
  /\ ClientDestroy(c)
  /\ UNCHANGED <<cgroupVars, launcherVars, systemVars>>

Serve(c) == LncRecv(c) /\ UNCHANGED systemVars

Sigkill(h) ==
  /\ ApplicationSigkill(h)
  /\ alive' \ alive \subseteq ChildPids
  /\ st' = [p \in Pid |-> IF p \notin alive' THEN "none"
                          ELSE IF p \notin alive THEN "app" ELSE st[p]]
  /\ conn' = [p \in Pid |->
                IF p \notin alive' THEN NoConn
                ELSE IF p \notin alive
                     THEN conn[CHOOSE q \in Tasks(rec[h].cgrp) : TRUE]
                     ELSE conn[p]]
  /\ UNCHANGED <<backlog, restarts>>

(* The daemon dies and is started again: it forgets its clients and its    *)
(* applications, and every connection is cut.  The cgroups stay.           *)
Restart ==
  /\ restarts < MaxRestarts
  /\ restarts' = restarts + 1
  /\ clients' = <<>> /\ backlog' = {}
  /\ id' = [c \in Conn |-> NoIdentity]
  /\ inq' = [c \in Conn |-> <<>>]
  /\ apps' = <<>> /\ timers' = {}
  /\ rec' = [h \in Handle |-> NoApp]
  /\ UNCHANGED <<out, cgroupVars, st, conn>>

Init ==
  /\ LauncherInit
  /\ st = [p \in Pid |-> "none"]
  /\ conn = [p \in Pid |-> NoConn]
  /\ backlog = {} /\ restarts = 0

Next ==
  \/ \E p \in Pid : \/ StartSetup(p) \/ StartStop(p) \/ StartList(p)
                    \/ Recv(p) \/ LostConnection(p)
                    \/ Quit(p) \/ ParentExit(p) \/ AppFork(p)
  \/ \E d \in Cgrp : StartAgent(d)
  \/ \E c \in Conn : LncConnect(c) \/ LncClosed(c) \/ Serve(c)
  \/ \E h \in Handle : Sigkill(h)
  \/ Restart

(* The daemon's mainloop serves every ready socket and every due timer; a  *)
(* client reads what it is sent; the kernel runs every release agent.      *)
Fairness ==
  /\ \A c \in Conn : WF_vars(LncConnect(c)) /\ WF_vars(LncClosed(c))
                     /\ WF_vars(Serve(c))
  /\ \A h \in Handle : WF_vars(Sigkill(h))
  /\ \A p \in Pid : WF_vars(Recv(p)) /\ WF_vars(ParentExit(p))
  /\ \A d \in Cgrp : WF_vars(StartAgent(d))

Spec == Init /\ [][Next]_vars /\ Fairness
-----------------------------------------------------------------------------
(* What the processes do, and the connections they hold.                   *)
ProcessesOK ==
  /\ st \in [Pid -> Waiting \cup {"none", "app", "exiting", "hung"}]
  /\ conn \in [Pid -> Conn \cup {NoConn}]
  /\ backlog \subseteq Conn \ Range(clients)
  /\ \A c \in backlog : id[c] # NoIdentity
  /\ restarts \in Nat

(* The shape of the state, with what each list and set promises about its  *)
(* members: accepted connections have an identity, tracked handles a       *)
(* record, and no connection is accepted twice.                            *)
TypeOK == ClientsOK /\ CgroupsOK /\ ChannelsOK /\ TrackingOK /\ ProcessesOK

(* A kill timer is armed for exactly the tracked applications that were    *)
(* asked to stop: none outlives its application, none is missing.          *)
KillTimers == timers = {h \in Tracked : rec[h].killer # NoPid}

(* The daemon loses track of no running application: as long as it is not  *)
(* restarted, every process in a cgroup belongs to a tracked application,  *)
(* and the cgroup of a tracked application exists.                         *)
NoAppLost ==
  /\ \A p \in alive : cg[p] # NoCgrp => \E h \in Tracked : rec[h].cgrp = cg[p]
  /\ \A h \in Tracked : rec[h].cgrp \in dirs

(* An agent is on its way to the daemon for the cgroup d.                  *)
CleanupUnderway(d) ==
  \E c \in Conn : inq[c] = <<CleanupReq(d)>>

(* A tracked application without a process is about to be cleaned up: its  *)
(* release agent is due, or the agent's request is on its way.             *)
ReleaseNotLost ==
  \A h \in Tracked :
    Tasks(rec[h].cgrp) = {}
      => rec[h].cgrp \in released \/ CleanupUnderway(rec[h].cgrp)

(* Whoever stops an application owns it or is root.                        *)
StopByOwner ==
  \A h \in Tracked, c \in Conn :
    id[c] # NoIdentity /\ id[c].pid = rec[h].killer
      => id[c].uid \in {rec[h].uid, Root}

(* A client that waits for its status has its request queued or the status *)
(* on its way, never both and never neither, while its connection lasts.   *)
RequestOrReply ==
  \A p \in alive :
    st[p] \in Waiting \ {"signalled"} /\ conn[p] \in Range(clients) \cup backlog
      => (inq[conn[p]] # <<>>)
           # (\E i \in DOMAIN out[conn[p]] : out[conn[p]][i].type = "status")

(* Nobody is told that an application has stopped before being told that   *)
(* it was signalled: on the way to a process whose stop request was not    *)
(* answered yet the stopped event comes after the answer, and no other     *)
(* process is sent one.                                                    *)
StoppedAfterSignalled ==
  \A p \in alive : conn[p] # NoConn =>
    \A i \in DOMAIN out[conn[p]] :
      out[conn[p]][i].type = "event" =>
        \/ st[p] = "signalled"
        \/ /\ st[p] = "stop"
           /\ \E j \in 1 .. i - 1 : out[conn[p]][j].type = "status"
                                  /\ out[conn[p]][j].text = "SIGNALLED"

(* Every stop request ends: iot-launch --stop is told no, or waits for the *)
(* application to be gone, and exits.                                      *)
StopCompletes ==
  \A p \in StopPids : st[p] \in {"stop", "signalled"} ~> st[p] = "none"

(* An application without a process is forgotten in the end.               *)
DeadAppsForgotten ==
  \A h \in Handle :
    (h \in Tracked /\ Tasks(rec[h].cgrp) = {}) ~> h \notin Tracked

(* The daemon's applications as the instances of AppLifecycle: a tracked   *)
(* record is a running instance until a killer is noted in it, and its     *)
(* processes are those of its cgroup.                                      *)
Lifecycle == INSTANCE AppLifecycle WITH
  phase <- [h \in Handle |-> IF h \notin Tracked THEN "free"
                             ELSE IF rec[h].killer = NoPid THEN "running"
                             ELSE "stopping"],
  procs <- [h \in Handle |-> IF h \in Tracked THEN Tasks(rec[h].cgrp) ELSE {}]

(* What the daemon does to its applications is what AppLifecycle promises: *)
(* application_setup(), application_stop(), application_sigkill() and      *)
(* application_cleanup(), in any order with what the processes do, are its *)
(* steps, and an application asked to stop is forgotten in the end.        *)
ImplementsLifecycle == Lifecycle!Spec
=============================================================================
