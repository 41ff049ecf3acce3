------------------------------ MODULE Launcher ------------------------------
(***************************************************************************)
(* The launcher daemon: the tracking of applications of application.c and  *)
(* the request dispatch of transport.c, over its client list (Clients) and *)
(* the cgroups it keeps applications in (Cgroups).                         *)
(*                                                                         *)
(* The daemon is one thread: each callback of its mainloop is one action,  *)
(* from a request to everything it changes and the reply it writes.  The   *)
(* application_t records are the elements of Handle, named by their        *)
(* address; a timer that application_sigterm() armed is named by the       *)
(* record it was armed for.  Allocation failures are not modelled.         *)
(***************************************************************************)
EXTENDS Clients, Cgroups

CONSTANTS
  Handle,    \* application_t records
  NoApp,     \* the record is not in use
  App,       \* application ids, <pkg>:<app>
  ExecBase,  \* the base name of argv[0] of each application
  Root,      \* the uid 0
  NoUid,     \* NO_UID
  NoPid      \* NO_PID, the killer of an application nobody stops

ASSUME LauncherAssumption ==
  /\ Root \in Uid /\ NoUid \notin Uid /\ NoPid \notin Pid
  /\ ExecBase \in [App -> Base]
  /\ Identity = [uid : Uid, pid : Pid]

VARIABLES
  inq,    \* requests sent on each connection, not read by the daemon yet
  apps,   \* l->apps: the tracked applications, oldest first
  rec,    \* the record of each handle
  timers  \* handles an armed application_sigkill() timer refers to

launcherVars == <<inq, apps, rec, timers>>

AppRec == [app : App, uid : Uid, cgrp : Cgrp, killer : Pid \cup {NoPid}]

ASSUME NoAppAssumption == NoApp \notin AppRec

Tracked == Range(apps)

FreeHandles == Handle \ (Tracked \cup timers)

(* The requests of iot-launch, one per mode.                               *)
SetupReq(app, uid) == [type |-> "setup", app |-> app, uid |-> uid]
StopReq(app) == [type |-> "stop", app |-> app]
CleanupReq(d) == [type |-> "cleanup", cgrp |-> d]
ListReq == [type |-> "list"]

Request ==
  [type : {"setup"}, app : App, uid : Uid \cup {NoUid}] \cup
  [type : {"stop"}, app : App] \cup
  [type : {"cleanup"}, cgrp : Cgrp] \cup
  [type : {"list"}]

Errno == {"EINVAL", "EEXIST", "ENOENT", "EBUSY"}

Message ==
  [type : {"status"}, status : Errno \cup {"0"},
   text : {"OK", "SIGNALLED", "error"}, data : SUBSET App] \cup
  [type : {"event"}, event : {"stopped"}, data : SUBSET App]

(* lnc_recv() takes the request and, but for the handler's changes, writes *)
(* its status back to the client that sent it.                             *)
M_Reply(c, o, status) ==
  /\ inq' = [inq EXCEPT ![c] = Tail(@)]
  /\ UNCHANGED clientVars

Reply(c, o, status) ==
  /\ inq' = [inq EXCEPT ![c] = Tail(@)]
  /\ out' = TransportSend(o, c, status)
  /\ UNCHANGED <<clients, id>>

(* application_setup(): the manifest may fail to load, the cgroup may be   *)
(* there already or the process may be gone; otherwise the application is  *)
(* tracked.  The identity is the user's unless the request overrides it.   *)
SetupCgrp(c, req) ==
  <<IF req.uid # NoUid THEN req.uid ELSE id[c].uid,
    ExecBase[req.app], id[c].pid>>

Track(h, app, d) ==
  /\ apps' = Append(apps, h)
  /\ rec' = [rec EXCEPT ![h] = [app |-> app, uid |-> d[1], cgrp |-> d,
                                killer |-> NoPid]]
  /\ timers' = timers

ApplicationSetup(c, req) ==
  LET d == SetupCgrp(c, req)
  IN  \/ /\ Reply(c, out, Error("EINVAL"))
         /\ UNCHANGED <<apps, rec, timers, cgroupVars>>
      \/ /\ ~CgroupMkdirOk(d)
         /\ CgroupMkdirFailed(d)
         /\ Reply(c, out, Error("EEXIST"))
         /\ UNCHANGED <<apps, rec, timers>>
      \/ /\ CgroupMkdirOk(d)
         /\ CgroupMkdirDone(d)
         /\ \E h \in FreeHandles : Track(h, req.app, d)
         /\ Reply(c, out, OK)

(* A client sees its own applications, root sees everybody's.              *)
M_Visible(c, h) == TRUE
Visible(c, h) == id[c].uid \in {rec[h].uid, Root}

(* application_stop(): the oldest visible instance is the one stopped.     *)
Stoppable(c, app, h) == Visible(c, h) /\ rec[h].app = app

(* application_sigterm(): arms the timer.  The SIGTERM it then sends to    *)
(* the cgroup is no change of state: its receivers exit when they like.    *)
ApplicationSigterm(h, pid) ==
  /\ rec' = [rec EXCEPT ![h].killer = pid]
  /\ timers' = timers \cup {h}
  /\ apps' = apps

ApplicationStop(c, req) ==
  LET Match(h) == Stoppable(c, req.app, h)
      h == FirstThat(apps, Match)
  IN  /\ UNCHANGED cgroupVars
      /\ \/ /\ \A a \in Tracked : ~Match(a)
            /\ Reply(c, out, Error("ENOENT"))
            /\ UNCHANGED <<apps, rec, timers>>
         \/ /\ \E a \in Tracked : Match(a)
            /\ rec[h].killer # NoPid
            /\ Reply(c, out, Error("EBUSY"))
            /\ UNCHANGED <<apps, rec, timers>>
         \/ /\ \E a \in Tracked : Match(a)
            /\ rec[h].killer = NoPid
            /\ ApplicationSigterm(h, id[c].pid)
            /\ Reply(c, out, StatusMsg("0", "SIGNALLED", {}))

(* application_sigkill(): the timer of a stop request goes off, and again  *)
(* every three seconds until it is deleted.  It changes nothing when the   *)
(* cgroup has no process.                                                  *)
M_SigkillRearmed(h) == timers' = timers \ {h}
SigkillRearmed(h) == timers' = timers

ApplicationSigkill(h) ==
  /\ h \in timers
  /\ \E S \in Killable(rec[h].cgrp) :
       \E C \in {{}} \cup {{q} : q \in FreshPids} :
         /\ S # {}
         /\ KernelExit(S, C, rec[h].cgrp)
  /\ SigkillRearmed(h)
  /\ UNCHANGED <<clientVars, inq, apps, rec, dirs>>

(* application_cleanup() of a tracked application: the timer goes, the     *)
(* record leaves the list, whoever stopped it is told, and the cgroup is   *)
(* removed.                                                                *)
M_Untrack(h) ==
  /\ apps' = RemoveFirst(apps, h)
  /\ rec' = [rec EXCEPT ![h] = NoApp]
  /\ timers' = timers

Untrack(h) ==
  /\ apps' = RemoveFirst(apps, h)
  /\ rec' = [rec EXCEPT ![h] = NoApp]
  /\ timers' = timers \ {h}

M_SendStoppedEvent(h) == out
SendStoppedEvent(h) == EventSend(out, rec[h].killer, "stopped", {rec[h].app})

M_InCgrp(d, h) == rec[h].cgrp[1] = d[1] /\ rec[h].cgrp[2] = d[2]
InCgrp(d, h) == rec[h].cgrp = d

ApplicationCleanup(c, req) ==
  LET Match(h) == InCgrp(req.cgrp, h)
      h == FirstThat(apps, Match)
  IN  \/ /\ \A a \in Tracked : ~Match(a)
         /\ Reply(c, out, OK)
         /\ UNCHANGED <<apps, rec, timers, cgroupVars>>
      \/ /\ \E a \in Tracked : Match(a)
         /\ Untrack(h)
         /\ Reply(c, SendStoppedEvent(h), OK)
         /\ CgroupRmdir(req.cgrp)

(* list_running(): what the client may see of the tracked applications.    *)
ListRunning(c) ==
  /\ Reply(c, out,
           StatusMsg("0", "OK", {rec[h].app : h \in {a \in Tracked : Visible(c, a)}}))
  /\ UNCHANGED <<apps, rec, timers, cgroupVars>>

(* lnc_recv(): the handler of the request's type.                          *)
LncRecv(c) ==
  /\ c \in Range(clients) /\ inq[c] # <<>>
  /\ LET req == Head(inq[c])
     IN  \/ req.type = "setup" /\ ApplicationSetup(c, req)
         \/ req.type = "stop" /\ ApplicationStop(c, req)
         \/ req.type = "cleanup" /\ ApplicationCleanup(c, req)
         \/ req.type = "list" /\ ListRunning(c)

LauncherInit ==
  /\ ClientsInit /\ CgroupsInit
  /\ inq = [c \in Conn |-> <<>>]
  /\ apps = <<>>
  /\ rec = [h \in Handle |-> NoApp]
  /\ timers = {}

(* The requests and messages on the connections.                           *)
ChannelsOK ==
  /\ inq \in [Conn -> Seq(Request)]
  /\ out \in [Conn -> Seq(Message)]

(* The list names each record once, and its record is in use.              *)
TrackingOK ==
  /\ apps \in Seq(Handle) /\ IsInjective(apps)
  /\ rec \in [Handle -> AppRec \cup {NoApp}]
  /\ \A h \in Tracked : rec[h] # NoApp
  /\ timers \subseteq Handle
=============================================================================
