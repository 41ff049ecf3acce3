---------------------------- MODULE LaunchProofs ----------------------------
(***************************************************************************)
(* What is proved of the launcher daemon, its clients and the kernel for   *)
(* every number of processes, users, applications, connections, records    *)
(* and restarts.                                                           *)
(*                                                                         *)
(* First the shape of the state, and that kill timers are armed for        *)
(* exactly the applications being stopped.  Neither fact is inductive      *)
(* alone: application_sigkill() follows the timer's pointer to a record,   *)
(* which is one only because KillTimers holds, and KillTimers survives     *)
(* application_cleanup() only because the list names every record once,    *)
(* which is part of TypeOK.  IInv is the two together.                     *)
(*                                                                         *)
(* Then what is beyond the shape: that whoever waits is answered once,     *)
(* that stopped events follow the answers they belong to and reach nobody  *)
(* else, that only owners and root stop applications, that no application  *)
(* and no release of a cgroup is lost, and that each step is one of        *)
(* AppLifecycle.  The argument is in three layers on IInv, each inductive  *)
(* given those before it.  ConnInv is about connections: whose they are,   *)
(* who else holds them, and that a request is alone on its connection      *)
(* until it is answered.  KillInv is about the process noted as the killer *)
(* of an application.  CgroupInv is about cgroups: they are made for       *)
(* processes that never had one, and stay empty once they are.             *)
(***************************************************************************)
EXTENDS LaunchSystem, SeqFacts


(* The search of application_stop(): when some tracked application is the  *)
(* client's to stop and has the requested id, the one it finds is such a   *)
(* one.                                                                    *)
LEMMA StopTarget ==
  ASSUME apps \in Seq(Handle), NEW c, NEW app,
         \E a \in Tracked : Stoppable(c, app, a)
  PROVE  LET Match(h) == Stoppable(c, app, h)
         IN  FirstThat(apps, Match) \in Tracked /\ Match(FirstThat(apps, Match))
<1> DEFINE I == {i \in 1 .. Len(apps) : Stoppable(c, app, apps[i])}
<1>1. DOMAIN apps = 1 .. Len(apps) /\ Len(apps) \in Nat
  BY LenProperties
<1>2. I \in SUBSET Nat /\ I # {}
  BY <1>1 DEF Tracked, Range
<1>3. Min(I) \in I
  <2>. HIDE DEF I
  <2>. QED BY <1>2, MinInSet
<1>. QED BY <1>1, <1>2, <1>3 DEF FirstThat, SelectInSeq, Tracked, Range

(* The search of application_for_cgroup(): when some tracked application   *)
(* has the path, the one it finds is tracked and has it.                   *)
LEMMA CleanupTarget ==
  ASSUME apps \in Seq(Handle), NEW d, \E a \in Tracked : InCgrp(d, a)
  PROVE  LET Match(h) == InCgrp(d, h)
         IN  FirstThat(apps, Match) \in Tracked /\ Match(FirstThat(apps, Match))
<1> DEFINE I == {i \in 1 .. Len(apps) : InCgrp(d, apps[i])}
<1>1. DOMAIN apps = 1 .. Len(apps) /\ Len(apps) \in Nat
  BY LenProperties
<1>2. I \in SUBSET Nat /\ I # {}
  BY <1>1 DEF Tracked, Range
<1>3. Min(I) \in I
  <2>. HIDE DEF I
  <2>. QED BY <1>2, MinInSet
<1>. QED BY <1>1, <1>2, <1>3 DEF FirstThat, SelectInSeq, Tracked, Range

(* The search of event_send(): when some client is the process asked for,  *)
(* the one it finds is a client.                                           *)
LEMMA EventTarget ==
  ASSUME clients \in Seq(Conn), NEW pid, \E a \in Range(clients) : HasPid(a, pid)
  PROVE  LET Match(c) == HasPid(c, pid)
         IN  FirstThat(clients, Match) \in Conn
<1> DEFINE I == {i \in 1 .. Len(clients) : HasPid(clients[i], pid)}
<1>1. DOMAIN clients = 1 .. Len(clients) /\ Len(clients) \in Nat
  BY LenProperties
<1>2. I \in SUBSET Nat /\ I # {}
  BY <1>1 DEF Range
<1>3. Min(I) \in I
  <2>. HIDE DEF I
  <2>. QED BY <1>2, MinInSet
<1>. QED BY <1>1, <1>2, <1>3, ElementOfSeq DEF FirstThat, SelectInSeq

(* Whatever msg_status_ok(), msg_status_error() and the event constructor  *)
(* make is a message.                                                      *)
LEMMA StatusTypes ==
  ASSUME NEW d \in SUBSET App
  PROVE  /\ OK \in Message
         /\ \A e \in Errno : Error(e) \in Message
         /\ StatusMsg("0", "OK", d) \in Message
         /\ StatusMsg("0", "SIGNALLED", d) \in Message
         /\ EventMsg("stopped", d) \in Message
<1>1. \A s \in Errno \cup {"0"}, t \in {"OK", "SIGNALLED", "error"}, x \in SUBSET App :
        StatusMsg(s, t, x) \in Message
  BY DEF StatusMsg, Message
<1>2. EventMsg("stopped", d) \in Message
  BY DEF EventMsg, Message
<1>. QED BY <1>1, <1>2 DEF OK, Error

(* transport_send() leaves messages, and nothing else, on every            *)
(* connection.                                                             *)
LEMMA SendType ==
  ASSUME NEW o \in [Conn -> Seq(Message)], NEW c \in Conn, NEW m \in Message
  PROVE  TransportSend(o, c, m) \in [Conn -> Seq(Message)]
<1>1. Append(o[c], m) \in Seq(Message)
  BY AppendFacts
<1>. QED BY <1>1 DEF TransportSend

(* event_send() of the stopped event leaves messages on every connection,  *)
(* whether or not the process asked for is still a client.                 *)
LEMMA EventSendType ==
  ASSUME NEW o \in [Conn -> Seq(Message)], NEW pid, NEW d \in SUBSET App,
         clients \in Seq(Conn)
  PROVE  EventSend(o, pid, "stopped", d) \in [Conn -> Seq(Message)]
<1> DEFINE Match(c) == HasPid(c, pid)
           c == FirstThat(clients, Match)
<1>1. CASE \E a \in Range(clients) : HasPid(a, pid)
  <2>1. c \in Conn
    BY <1>1, EventTarget DEF FirstThat, SelectInSeq
  <2>2. TransportSend(o, c, EventMsg("stopped", d)) \in [Conn -> Seq(Message)]
    <3>. HIDE DEF c
    <3>. QED BY <2>1, SendType, StatusTypes
  <2>. QED BY <1>1, <2>2 DEF EventSend
<1>2. CASE ~ \E a \in Range(clients) : HasPid(a, pid)
  BY <1>2 DEF EventSend
<1>. QED BY <1>1, <1>2

(* Taking a request off a connection and answering it, as lnc_recv() does  *)
(* for every request, keeps the client list and the channels in shape.     *)
LEMMA ReplyOK ==
  ASSUME ClientsOK, ChannelsOK, NEW c \in Range(clients), inq[c] # <<>>,
         NEW o \in [Conn -> Seq(Message)], NEW m \in Message, Reply(c, o, m)
  PROVE  ClientsOK' /\ ChannelsOK'
<1>1. c \in Conn
  BY RangeOfSeq DEF ClientsOK
<1>2. Tail(inq[c]) \in Seq(Request)
  BY <1>1, HeadTailProperties DEF ChannelsOK
<1>3. inq' \in [Conn -> Seq(Request)]
  BY <1>1, <1>2 DEF ChannelsOK, Reply
<1>4. out' \in [Conn -> Seq(Message)]
  BY <1>1, SendType DEF Reply
<1>. QED BY <1>3, <1>4 DEF Reply, ClientsOK, ChannelsOK

-----------------------------------------------------------------------------
(* The parts of a cgroup's name: a user, a base name and a process id.     *)
LEMMA CgrpType == \A d \in Cgrp : d[1] \in Uid /\ d[2] \in Base /\ d[3] \in Pid
BY DEF Cgrp

(* A new process keeps the cgroups in shape.                               *)
LEMMA KernelSpawnOK ==
  ASSUME CgroupsOK, NEW q \in Pid, NEW d \in Cgrp \cup {NoCgrp},
         KernelSpawn(q, d), released' \subseteq released, dirs' = dirs
  PROVE  CgroupsOK'
BY DEF CgroupsOK, KernelSpawn

(* Processes that end, with a child left behind or not, keep the cgroups   *)
(* in shape: only directories that exist become due for release.           *)
LEMMA KernelExitOK ==
  ASSUME CgroupsOK, NEW S, NEW C \in SUBSET FreshPids, NEW d \in Cgrp \cup {NoCgrp},
         KernelExit(S, C, d), dirs' = dirs
  PROVE  CgroupsOK'
<1>1. alive' \subseteq used' /\ used' \subseteq Pid
  BY DEF CgroupsOK, KernelExit, FreshPids
<1>2. cg' \in [Pid -> Cgrp \cup {NoCgrp}]
  BY DEF CgroupsOK, KernelExit
<1>3. released' \subseteq dirs' /\ dirs' \subseteq Cgrp
  BY DEF CgroupsOK, KernelExit, Emptied
<1>. QED BY <1>1, <1>2, <1>3 DEF CgroupsOK

(* cgroup_mkdir() that succeeds keeps the cgroups in shape.                *)
LEMMA MkdirOK ==
  ASSUME CgroupsOK, NEW d \in Cgrp, CgroupMkdirDone(d)
  PROVE  CgroupsOK'
BY CgrpType DEF CgroupsOK, CgroupMkdirDone, Emptied

(* cgroup_rmdir(), and the cleanup of a failed cgroup_mkdir(), keep the    *)
(* cgroups in shape: a directory that is removed is not due for release.   *)
LEMMA RmdirOK ==
  ASSUME CgroupsOK, NEW d, CgroupRmdir(d) \/ CgroupMkdirFailed(d)
  PROVE  CgroupsOK'
BY DEF CgroupsOK, CgroupRmdir, CgroupMkdirFailed, DirsAfterRmdir
-----------------------------------------------------------------------------
(* The inductive invariant.                                                *)
IInv == TypeOK /\ KillTimers

(* application_setup(): a refused setup changes no application; a granted  *)
(* one tracks a record that was free and has no timer armed.               *)
LEMMA SetupOK ==
  ASSUME IInv, NEW c \in Range(clients), inq[c] # <<>>,
         NEW req \in Request, req.type = "setup", ApplicationSetup(c, req)
  PROVE  ClientsOK' /\ ChannelsOK' /\ CgroupsOK' /\ TrackingOK' /\ KillTimers'
<1> DEFINE d == SetupCgrp(c, req)
<1> USE DEF IInv, TypeOK
<1>1. c \in Conn /\ id[c] \in Identity
  BY RangeOfSeq DEF ClientsOK
<1>2. req.app \in App /\ req.uid \in Uid \cup {NoUid}
  BY DEF Request
<1>3. d \in Cgrp
  BY <1>1, <1>2, LauncherAssumption DEF SetupCgrp, Cgrp
<1>4. out \in [Conn -> Seq(Message)]
  BY DEF ChannelsOK
<1> HIDE DEF d
<1>5. CASE Reply(c, out, Error("EINVAL")) /\ UNCHANGED <<apps, rec, timers, cgroupVars>>
  <2>1. ClientsOK' /\ ChannelsOK'
    BY <1>4, <1>5, ReplyOK, StatusTypes DEF Errno
  <2>. QED BY <1>5, <2>1 DEF CgroupsOK, cgroupVars, TrackingOK, KillTimers, Tracked
<1>6. CASE /\ CgroupMkdirFailed(d)
           /\ Reply(c, out, Error("EEXIST"))
           /\ UNCHANGED <<apps, rec, timers>>
  <2>1. ClientsOK' /\ ChannelsOK'
    BY <1>4, <1>6, ReplyOK, StatusTypes DEF Errno
  <2>2. CgroupsOK'
    BY <1>6, RmdirOK
  <2>. QED BY <1>6, <2>1, <2>2 DEF TrackingOK, KillTimers, Tracked
<1>7. ASSUME CgroupMkdirDone(d), Reply(c, out, OK), NEW h \in FreeHandles, Track(h, req.app, d)
      PROVE  ClientsOK' /\ ChannelsOK' /\ CgroupsOK' /\ TrackingOK' /\ KillTimers'
  <2>1. ClientsOK' /\ ChannelsOK'
    BY <1>4, <1>7, ReplyOK, StatusTypes
  <2>2. CgroupsOK'
    BY <1>3, <1>7, MkdirOK
  <2>3. h \in Handle /\ h \notin Range(apps) /\ h \notin timers
    BY <1>7 DEF FreeHandles, Tracked
  <2>4. /\ apps' \in Seq(Handle) /\ IsInjective(apps')
        /\ Range(apps') = Range(apps) \cup {h}
    BY <1>7, <2>3, AppendFacts DEF Track, TrackingOK
  <2>5. [app |-> req.app, uid |-> d[1], cgrp |-> d, killer |-> NoPid] \in AppRec
    BY <1>2, <1>3, CgrpType DEF AppRec
  <2>6. /\ rec' \in [Handle -> AppRec \cup {NoApp}]
        /\ rec'[h] = [app |-> req.app, uid |-> d[1], cgrp |-> d, killer |-> NoPid]
        /\ \A g \in Handle : g # h => rec'[g] = rec[g]
    BY <1>7, <2>3, <2>5 DEF Track, TrackingOK
  <2>7. TrackingOK'
    BY <1>7, <2>3, <2>4, <2>5, <2>6, NoAppAssumption DEF Track, TrackingOK, Tracked
  <2>8. KillTimers'
    <3>1. Range(apps) \subseteq Handle
      BY RangeOfSeq DEF TrackingOK
    <3>. QED BY <1>7, <2>3, <2>4, <2>6, <3>1 DEF Track, KillTimers, Tracked
  <2>. QED BY <2>1, <2>2, <2>7, <2>8
<1>. QED BY <1>5, <1>6, <1>7 DEF ApplicationSetup, d

(* application_stop(): a refused stop changes no application; a granted    *)
(* one arms the timer of a tracked record and sets its killer, both at     *)
(* once.                                                                   *)
LEMMA StopOK ==
  ASSUME IInv, NEW c \in Range(clients), inq[c] # <<>>,
         NEW req \in Request, req.type = "stop", ApplicationStop(c, req)
  PROVE  ClientsOK' /\ ChannelsOK' /\ CgroupsOK' /\ TrackingOK' /\ KillTimers'
<1> DEFINE Match(a) == Stoppable(c, req.app, a)
           h == FirstThat(apps, Match)
<1> USE DEF IInv, TypeOK
<1>1. c \in Conn /\ id[c] \in Identity
  BY RangeOfSeq DEF ClientsOK
<1>2. out \in [Conn -> Seq(Message)]
  BY DEF ChannelsOK
<1>3. CgroupsOK'
  BY DEF ApplicationStop, CgroupsOK, cgroupVars
<1>4. ASSUME NEW e \in Errno, Reply(c, out, Error(e)), UNCHANGED <<apps, rec, timers>>
      PROVE  ClientsOK' /\ ChannelsOK' /\ TrackingOK' /\ KillTimers'
  <2>1. ClientsOK' /\ ChannelsOK'
    BY <1>2, <1>4, ReplyOK, StatusTypes
  <2>. QED BY <1>4, <2>1 DEF TrackingOK, KillTimers, Tracked
<1>5. ASSUME \E a \in Tracked : Match(a), ApplicationSigterm(h, id[c].pid),
             Reply(c, out, StatusMsg("0", "SIGNALLED", {}))
      PROVE  ClientsOK' /\ ChannelsOK' /\ TrackingOK' /\ KillTimers'
  <2>1. ClientsOK' /\ ChannelsOK'
    BY <1>2, <1>5, ReplyOK, StatusTypes
  <2>2. h \in Tracked
    BY <1>5, StopTarget DEF TrackingOK, FirstThat, SelectInSeq
  <2>3. Tracked \subseteq Handle
    BY RangeOfSeq DEF TrackingOK, Tracked
  <2> HIDE DEF h
  <2>4. id[c].pid \in Pid /\ id[c].pid # NoPid
    BY <1>1, LauncherAssumption
  <2>5. rec[h] \in AppRec
    BY <2>2, <2>3 DEF TrackingOK
  <2>6. [rec[h] EXCEPT !.killer = id[c].pid] \in AppRec
    BY <2>4, <2>5 DEF AppRec
  <2>7. /\ rec' = [rec EXCEPT ![h] = [rec[h] EXCEPT !.killer = id[c].pid]]
        /\ timers' = timers \cup {h} /\ apps' = apps
    BY <1>5 DEF ApplicationSigterm
  <2>8. TrackingOK'
    BY <2>2, <2>3, <2>6, <2>7, NoAppAssumption DEF TrackingOK, Tracked
  <2>9. rec'[h].killer = id[c].pid /\ \A g \in Handle : g # h => rec'[g] = rec[g]
    BY <2>2, <2>3, <2>5, <2>7 DEF TrackingOK, AppRec
  <2>10. KillTimers'
    BY <2>2, <2>3, <2>4, <2>7, <2>9 DEF KillTimers, Tracked
  <2>. QED BY <2>1, <2>8, <2>10
<1>. QED BY <1>3, <1>4, <1>5 DEF ApplicationStop, Errno

(* application_cleanup(): the record it drops takes its kill timer along,  *)
(* and the stopped event is sent to the killer noted in it.                *)
LEMMA CleanupOK ==
  ASSUME IInv, NEW c \in Range(clients), inq[c] # <<>>,
         NEW req \in Request, req.type = "cleanup", ApplicationCleanup(c, req)
  PROVE  ClientsOK' /\ ChannelsOK' /\ CgroupsOK' /\ TrackingOK' /\ KillTimers'
<1> DEFINE Match(a) == InCgrp(req.cgrp, a)
           h == FirstThat(apps, Match)
<1> USE DEF IInv, TypeOK
<1>1. c \in Conn
  BY RangeOfSeq DEF ClientsOK
<1>2. out \in [Conn -> Seq(Message)]
  BY DEF ChannelsOK
<1>3. CASE Reply(c, out, OK) /\ UNCHANGED <<apps, rec, timers, cgroupVars>>
  <2>1. ClientsOK' /\ ChannelsOK'
    BY <1>2, <1>3, ReplyOK, StatusTypes
  <2>. QED BY <1>3, <2>1 DEF CgroupsOK, cgroupVars, TrackingOK, KillTimers, Tracked
<1>4. ASSUME \E a \in Tracked : Match(a), Untrack(h),
             Reply(c, SendStoppedEvent(h), OK), CgroupRmdir(req.cgrp)
      PROVE  ClientsOK' /\ ChannelsOK' /\ CgroupsOK' /\ TrackingOK' /\ KillTimers'
  <2>1. h \in Range(apps)
    BY <1>4, CleanupTarget DEF TrackingOK, Tracked, FirstThat, SelectInSeq
  <2>2. Range(apps) \subseteq Handle
    BY RangeOfSeq DEF TrackingOK
  <2> HIDE DEF h
  <2>3. rec[h] \in AppRec
    BY <2>1, <2>2 DEF TrackingOK, Tracked
  <2>4. SendStoppedEvent(h) \in [Conn -> Seq(Message)]
    BY <1>2, <2>3, EventSendType DEF SendStoppedEvent, AppRec, ClientsOK
  <2>5. ClientsOK' /\ ChannelsOK'
    BY <1>4, <2>4, ReplyOK, StatusTypes
  <2>6. CgroupsOK'
    BY <1>4, RmdirOK
  <2>7. /\ apps' \in Seq(Handle) /\ IsInjective(apps')
        /\ Range(apps') = Range(apps) \ {h}
    BY <1>4, <2>1, RemoveFirstFacts DEF Untrack, TrackingOK
  <2>8. TrackingOK'
    BY <1>4, <2>1, <2>2, <2>7 DEF Untrack, TrackingOK, Tracked
  <2>9. KillTimers'
    BY <1>4, <2>1, <2>2, <2>7 DEF Untrack, TrackingOK, KillTimers, Tracked
  <2>. QED BY <2>5, <2>6, <2>8, <2>9
<1>. QED BY <1>3, <1>4 DEF ApplicationCleanup

(* list_running() answers with applications and changes nothing else.      *)
LEMMA ListOK ==
  ASSUME IInv, NEW c \in Range(clients), inq[c] # <<>>, ListRunning(c)
  PROVE  ClientsOK' /\ ChannelsOK' /\ CgroupsOK' /\ TrackingOK' /\ KillTimers'
<1> DEFINE d == {rec[h].app : h \in {a \in Tracked : Visible(c, a)}}
<1> USE DEF IInv, TypeOK
<1>1. d \in SUBSET App
  <2>1. Tracked \subseteq Handle
    BY RangeOfSeq DEF TrackingOK, Tracked
  <2>2. \A h \in Tracked : rec[h] \in AppRec
    BY <2>1 DEF TrackingOK
  <2>. QED BY <2>2 DEF AppRec
<1>2. Reply(c, out, StatusMsg("0", "OK", d))
  BY DEF ListRunning
<1> HIDE DEF d
<1>3. ClientsOK' /\ ChannelsOK'
  BY <1>1, <1>2, ReplyOK, StatusTypes DEF ChannelsOK
<1>. QED BY <1>3 DEF ListRunning, CgroupsOK, cgroupVars, TrackingOK, KillTimers, Tracked

(* lnc_recv(), whatever the request, preserves the invariant.              *)
LEMMA ServeStep ==
  ASSUME IInv, NEW c \in Conn, Serve(c)
  PROVE  IInv'
<1> USE DEF IInv, TypeOK
<1>1. c \in Range(clients) /\ inq[c] # <<>> /\ Head(inq[c]) \in Request
  BY HeadTailProperties DEF Serve, LncRecv, ChannelsOK
<1>2. ClientsOK' /\ ChannelsOK' /\ CgroupsOK' /\ TrackingOK' /\ KillTimers'
  BY <1>1, SetupOK, StopOK, CleanupOK, ListOK DEF Serve, LncRecv
<1>3. clients' = clients /\ id' = id
  BY <1>1 DEF Serve, LncRecv, ApplicationSetup, ApplicationStop, ApplicationCleanup,
              ListRunning, Reply
<1>4. ProcessesOK'
  BY <1>3 DEF Serve, systemVars, ProcessesOK
<1>. QED BY <1>2, <1>4
-----------------------------------------------------------------------------
(* What iot-launch sends in each of its modes is a request.                *)
LEMMA ReqTypes ==
  /\ \A app \in App, uid \in Uid : SetupReq(app, uid) \in Request
  /\ \A app \in App : StopReq(app) \in Request
  /\ \A d \in Cgrp : CleanupReq(d) \in Request
  /\ ListReq \in Request
BY DEF SetupReq, StopReq, CleanupReq, ListReq, Request

(* A new iot-launch process that connects preserves the invariant: its     *)
(* connection is neither accepted nor waiting to be.                       *)
LEMMA StartStep ==
  ASSUME IInv, NEW p \in Pid, NEW mode \in Waiting, NEW uid \in Uid,
         NEW req \in Request, Start(p, mode, uid, req), released' \subseteq released
  PROVE  IInv'
<1> DEFINE c == CHOOSE c \in FreeConn : TRUE
<1> USE DEF IInv, TypeOK
<1>1. c \in FreeConn
  BY DEF Start
<1> HIDE DEF c
<1>2. c \in Conn /\ c \notin Range(clients) /\ c \notin backlog
  BY <1>1 DEF FreeConn
<1>3. /\ id' = [id EXCEPT ![c] = [uid |-> uid, pid |-> p]]
      /\ inq' = [inq EXCEPT ![c] = <<req>>]
      /\ out' = [out EXCEPT ![c] = <<>>]
      /\ conn' = [conn EXCEPT ![p] = c]
      /\ backlog' = backlog \cup {c}
  BY DEF Start, c
<1>4. [uid |-> uid, pid |-> p] \in Identity /\ [uid |-> uid, pid |-> p] # NoIdentity
  BY LauncherAssumption, NoIdentityAssumption
<1>5. ClientsOK'
  <2>1. Range(clients) \subseteq Conn
    BY RangeOfSeq DEF ClientsOK
  <2>2. clients' = clients
    BY DEF Start
  <2>3. id' \in [Conn -> Identity \cup {NoIdentity}]
    BY <1>2, <1>3, <1>4 DEF ClientsOK
  <2>4. \A x \in Range(clients) : id'[x] # NoIdentity
    BY <1>2, <1>3, <2>1 DEF ClientsOK
  <2>. QED BY <2>2, <2>3, <2>4 DEF ClientsOK
<1>6. ChannelsOK'
  <2>1. <<req>> \in Seq(Request) /\ <<>> \in Seq(Message)
    OBVIOUS
  <2>. QED BY <1>2, <1>3, <2>1 DEF ChannelsOK
<1>7. CgroupsOK'
  BY KernelSpawnOK DEF Start
<1>8. TrackingOK' /\ KillTimers'
  BY DEF Start, TrackingOK, KillTimers, Tracked
<1>9. ProcessesOK'
  BY <1>2, <1>3, <1>4 DEF ProcessesOK, ClientsOK, Start
<1>. QED BY <1>5, <1>6, <1>7, <1>8, <1>9

(* The end of a process preserves the invariant; the daemon learns of it   *)
(* later.                                                                  *)
LEMMA ExitStep ==
  ASSUME IInv, NEW p \in Pid, Exit(p), ChannelsOK'
  PROVE  IInv'
<1> USE DEF IInv, TypeOK
<1>1. CgroupsOK'
  BY KernelExitOK DEF Exit
<1>2. ClientsOK' /\ TrackingOK' /\ KillTimers'
  BY DEF Exit, launcherVars, ClientsOK, TrackingOK, KillTimers, Tracked
<1>3. ProcessesOK'
  BY DEF Exit, ProcessesOK
<1>. QED BY <1>1, <1>2, <1>3

(* A new child of an application, or of iot-launch, preserves the          *)
(* invariant.                                                              *)
LEMMA ForkStep ==
  ASSUME IInv, NEW p \in Pid, NEW q \in Pid, ForkChild(p, q), ChannelsOK',
         st' \in [Pid -> Waiting \cup {"none", "app", "exiting", "hung"}]
  PROVE  IInv'
<1> USE DEF IInv, TypeOK
<1>1. CgroupsOK'
  BY KernelSpawnOK DEF ForkChild, CgroupsOK
<1>2. ClientsOK' /\ TrackingOK' /\ KillTimers'
  BY DEF ForkChild, launcherVars, ClientsOK, TrackingOK, KillTimers, Tracked
<1>3. ProcessesOK'
  BY DEF ForkChild, ProcessesOK
<1>. QED BY <1>1, <1>2, <1>3

(* So does every step in which a process changes only what it is doing.    *)
LEMMA IdleStep ==
  ASSUME IInv, ChannelsOK',
         UNCHANGED <<clients, id, cgroupVars, apps, rec, timers, backlog, restarts>>,
         st' \in [Pid -> Waiting \cup {"none", "app", "exiting", "hung"}],
         conn' \in [Pid -> Conn \cup {NoConn}]
  PROVE  IInv'
BY DEF IInv, TypeOK, ClientsOK, CgroupsOK, cgroupVars, TrackingOK, KillTimers, Tracked,
       ProcessesOK

(* recv_cb() of iot-launch preserves the invariant.                        *)
LEMMA RecvStep ==
  ASSUME IInv, NEW p \in Pid, Recv(p)
  PROVE  IInv'
<1> USE DEF IInv, TypeOK
<1>1. st \in [Pid -> Waiting \cup {"none", "app", "exiting", "hung"}]
      /\ conn \in [Pid -> Conn \cup {NoConn}]
  BY DEF ProcessesOK
<1>2. ChannelsOK'
  <2>1. conn[p] \in Conn
    BY <1>1 DEF Recv
  <2>2. out[conn[p]] \in Seq(Message) /\ out[conn[p]] # <<>>
    BY <2>1 DEF Recv, ChannelsOK
  <2>3. Tail(out[conn[p]]) \in Seq(Message)
    BY <2>2, HeadTailProperties
  <2>4. inq' = inq
    BY DEF Recv, RecvStatus, RecvEvent, Exit, LaunchProcess, ForkChild, Ignore, launcherVars
  <2>. QED BY <2>1, <2>3, <2>4 DEF Recv, ChannelsOK
<1>3. ASSUME Exit(p) PROVE IInv'
  BY <1>2, <1>3, ExitStep
<1>4. ASSUME st' = [st EXCEPT ![p] = "app"] \/ st' = [st EXCEPT ![p] = "signalled"],
             UNCHANGED <<clients, id, cgroupVars, launcherVars, conn, backlog, restarts>>
      PROVE  IInv'
  BY <1>1, <1>2, <1>4, IdleStep DEF launcherVars, Waiting
<1>5. ASSUME NEW q \in ChildPids, ForkChild(p, q),
             st' = [st EXCEPT ![q] = "app", ![p] = "exiting"]
      PROVE  IInv'
  <2>1. q \in Pid
    BY LaunchSystemAssumption
  <2>. QED BY <1>1, <1>2, <1>5, <2>1, ForkStep
<1>6. ASSUME Ignore PROVE IInv'
  BY <1>1, <1>2, <1>6, IdleStep DEF Ignore, launcherVars
<1>. QED BY <1>3, <1>4, <1>5, <1>6 DEF Recv, RecvStatus, RecvEvent, LaunchProcess

(* application_sigkill() preserves the invariant: the record its timer     *)
(* refers to is one of a tracked application.                              *)
LEMMA SigkillStep ==
  ASSUME IInv, NEW h \in Handle, Sigkill(h)
  PROVE  IInv'
<1> USE DEF IInv, TypeOK
<1>1. PICK S \in Killable(rec[h].cgrp), C \in {{}} \cup {{q} : q \in FreshPids} :
        S # {} /\ KernelExit(S, C, rec[h].cgrp)
  BY DEF Sigkill, ApplicationSigkill
<1>2. C \in SUBSET FreshPids
  OBVIOUS
<1>3. rec[h].cgrp \in Cgrp
  BY DEF Sigkill, ApplicationSigkill, KillTimers, Tracked, TrackingOK, AppRec
<1>4. CgroupsOK'
  BY <1>1, <1>2, <1>3, KernelExitOK DEF Sigkill, ApplicationSigkill
<1>5. ClientsOK' /\ ChannelsOK' /\ TrackingOK' /\ KillTimers'
  BY DEF Sigkill, ApplicationSigkill, SigkillRearmed, clientVars, ClientsOK,
         ChannelsOK, TrackingOK, KillTimers, Tracked
<1>6. ProcessesOK'
  <2>1. st' \in [Pid -> Waiting \cup {"none", "app", "exiting", "hung"}]
    BY DEF Sigkill, ProcessesOK
  <2>2. conn' \in [Pid -> Conn \cup {NoConn}]
    <3>1. Tasks(rec[h].cgrp) \subseteq Pid /\ Tasks(rec[h].cgrp) # {}
      BY <1>1 DEF Killable, Tasks, CgroupsOK
    <3>2. (CHOOSE q \in Tasks(rec[h].cgrp) : TRUE) \in Pid
      BY <3>1
    <3>. QED BY <3>2 DEF Sigkill, ProcessesOK
  <2>. QED BY <2>1, <2>2 DEF Sigkill, ApplicationSigkill, clientVars, ProcessesOK
<1>. QED BY <1>4, <1>5, <1>6

(* lnc_connect() preserves the invariant: no connection is accepted twice. *)
LEMMA ConnectStep ==
  ASSUME IInv, NEW c \in Conn, LncConnect(c)
  PROVE  IInv'
<1> USE DEF IInv, TypeOK
<1>1. c \notin Range(clients) /\ id[c] # NoIdentity
  BY DEF LncConnect, ProcessesOK
<1>2. CgroupsOK' /\ TrackingOK' /\ KillTimers'
  BY DEF LncConnect, CgroupsOK, cgroupVars, TrackingOK, KillTimers, Tracked
<1>3. CASE ClientCreate(c) /\ UNCHANGED <<id, inq>>
  <2>1. /\ clients' \in Seq(Conn) /\ IsInjective(clients')
        /\ Range(clients') = Range(clients) \cup {c}
    BY <1>1, <1>3, AppendFacts DEF ClientCreate, ClientsOK
  <2>. QED BY <1>1, <1>2, <1>3, <2>1 DEF LncConnect, ClientsOK, ChannelsOK, ProcessesOK
<1>4. CASE /\ id' = [id EXCEPT ![c] = NoIdentity]
           /\ inq' = [inq EXCEPT ![c] = <<>>]
           /\ UNCHANGED clients
  <2>1. ClientsOK'
    BY <1>1, <1>4 DEF ClientsOK
  <2>2. ChannelsOK'
    BY <1>4 DEF LncConnect, ChannelsOK
  <2>3. ProcessesOK'
    BY <1>4 DEF LncConnect, ProcessesOK, ClientsOK
  <2>. QED BY <1>2, <2>1, <2>2, <2>3
<1>. QED BY <1>3, <1>4 DEF LncConnect

(* lnc_closed() preserves the invariant: the client is gone from the list  *)
(* together with its identity.                                             *)
LEMMA ClosedStep ==
  ASSUME IInv, NEW c \in Conn, LncClosed(c)
  PROVE  IInv'
<1> USE DEF IInv, TypeOK
<1>1. /\ clients' \in Seq(Conn) /\ IsInjective(clients')
      /\ Range(clients') = Range(clients) \ {c}
  BY RemoveFirstFacts DEF LncClosed, ClientDestroy, ClientsOK
<1>2. ClientsOK'
  BY <1>1 DEF LncClosed, ClientDestroy, ClientsOK
<1>3. ChannelsOK'
  BY DEF LncClosed, ClientDestroy, ChannelsOK, launcherVars
<1>4. CgroupsOK' /\ TrackingOK' /\ KillTimers'
  BY DEF LncClosed, cgroupVars, launcherVars, CgroupsOK, TrackingOK, KillTimers, Tracked
<1>5. ProcessesOK'
  BY <1>1 DEF LncClosed, ClientDestroy, systemVars, ProcessesOK, ClientsOK
<1>. QED BY <1>2, <1>3, <1>4, <1>5

(* A restart of the daemon preserves the invariant.                        *)
LEMMA RestartStep ==
  ASSUME IInv, Restart
  PROVE  IInv'
<1> USE DEF IInv, TypeOK
<1>1. clients' = <<>> /\ apps' = <<>> /\ Range(clients') = {} /\ Range(apps') = {}
  BY DEF Restart, Range
<1>2. ClientsOK' /\ TrackingOK'
  BY <1>1 DEF Restart, ClientsOK, TrackingOK, Tracked, IsInjective
<1>3. ChannelsOK' /\ CgroupsOK'
  BY DEF Restart, ChannelsOK, CgroupsOK, cgroupVars
<1>4. KillTimers'
  BY <1>1 DEF Restart, KillTimers, Tracked
<1>5. ProcessesOK'
  BY <1>1 DEF Restart, ProcessesOK
<1>. QED BY <1>2, <1>3, <1>4, <1>5

(* The invariant holds when the daemon starts.                             *)
LEMMA InitIInv == Init => IInv
<1> SUFFICES ASSUME Init PROVE IInv
  OBVIOUS
<1> USE DEF Init, LauncherInit, ClientsInit, CgroupsInit
<1>1. Range(clients) = {} /\ Range(apps) = {} /\ IsInjective(clients) /\ IsInjective(apps)
  BY DEF Range, IsInjective
<1>2. ClientsOK /\ TrackingOK /\ KillTimers
  BY <1>1 DEF ClientsOK, TrackingOK, KillTimers, Tracked
<1>3. ChannelsOK /\ CgroupsOK
  BY DEF ChannelsOK, CgroupsOK
<1>4. ProcessesOK
  BY <1>1 DEF ProcessesOK
<1>. QED BY <1>2, <1>3, <1>4 DEF IInv, TypeOK

(* The invariant is preserved by every step, one action of Next at a time. *)
LEMMA NextIInv == IInv /\ [Next]_vars => IInv'
<1> SUFFICES ASSUME IInv, [Next]_vars PROVE IInv'
  OBVIOUS
<1>1. CASE UNCHANGED vars
  BY <1>1 DEF vars, clientVars, cgroupVars, launcherVars, systemVars, IInv, TypeOK,
     ClientsOK, ChannelsOK, CgroupsOK, TrackingOK, KillTimers, Tracked, ProcessesOK
<1>2. ASSUME NEW p \in Pid, StartSetup(p) PROVE IInv'
  BY <1>2, StartStep, ReqTypes DEF StartSetup, Waiting
<1>3. ASSUME NEW p \in Pid, StartStop(p) PROVE IInv'
  BY <1>3, StartStep, ReqTypes DEF StartStop, Waiting
<1>4. ASSUME NEW p \in Pid, StartList(p) PROVE IInv'
  BY <1>4, StartStep, ReqTypes DEF StartList, Waiting
<1>5. ASSUME NEW d \in Cgrp, StartAgent(d) PROVE IInv'
  <2>1. PICK p \in AgentPids : Start(p, "agent", Root, CleanupReq(d))
    BY <1>5 DEF StartAgent
  <2>. QED BY <1>5, <2>1, StartStep, ReqTypes, LauncherAssumption, LaunchSystemAssumption
           DEF StartAgent, Waiting
<1>6. ASSUME NEW p \in Pid, Recv(p) PROVE IInv'
  BY <1>6, RecvStep
<1>7. ASSUME NEW p \in Pid, LostConnection(p) PROVE IInv'
  BY <1>7, IdleStep DEF LostConnection, clientVars, launcherVars, IInv, TypeOK,
     ChannelsOK, ProcessesOK
<1>8. ASSUME NEW p \in Pid, Quit(p) \/ ParentExit(p) PROVE IInv'
  BY <1>8, ExitStep DEF Quit, ParentExit, Exit, launcherVars, IInv, TypeOK, ChannelsOK
<1>9. ASSUME NEW p \in Pid, AppFork(p) PROVE IInv'
  <2>1. PICK q \in ChildPids : ForkChild(p, q) /\ st' = [st EXCEPT ![q] = "app"]
    BY <1>9 DEF AppFork
  <2>2. q \in Pid
    BY LaunchSystemAssumption
  <2>. QED BY <1>9, <2>1, <2>2, ForkStep DEF AppFork, ForkChild, launcherVars, IInv,
           TypeOK, ChannelsOK, ProcessesOK
<1>. QED BY <1>1, <1>2, <1>3, <1>4, <1>5, <1>6, <1>7, <1>8, <1>9, ConnectStep, ClosedStep,
     ServeStep, SigkillStep, RestartStep DEF Next

(* The state of the daemon and its clients keeps its shape: accepted       *)
(* connections have an identity and are listed once, tracked handles have  *)
(* a record and are listed once, only existing cgroups are due for         *)
(* release.                                                                *)
THEOREM TypeCorrect == Spec => []TypeOK
<1>1. IInv => TypeOK
  BY DEF IInv
<1>. QED BY <1>1, InitIInv, NextIInv, PTL DEF Spec

(* application_sigkill() timers are armed for exactly the tracked          *)
(* applications somebody asked to stop: a timer never outlives the record  *)
(* it points to (application_cleanup() deletes it), and no stop request is *)
(* left without one.                                                       *)
THEOREM KillTimersCorrect == Spec => []KillTimers
<1>1. IInv => KillTimers
  BY DEF IInv
<1>. QED BY <1>1, InitIInv, NextIInv, PTL DEF Spec

-----------------------------------------------------------------------------
(* Connections.  A process that holds one without having made it is a      *)
(* child of an application; the one that made it holds it until it ends,   *)
(* or until the daemon has dropped it.                                     *)

Live == Range(clients) \cup backlog

PeersKnown ==
  /\ \A c \in Conn : id[c] # NoIdentity <=> c \in Live
  /\ \A c \in Live : id[c].pid \in used
  /\ \A c, e \in Live : id[c].pid = id[e].pid => c = e

PeersHold ==
  /\ \A c \in Live : id[c].pid \in alive => conn[id[c].pid] = c
  /\ \A p \in alive : st[p] \in Waiting /\ conn[p] \in Live => id[conn[p]].pid = p

(* Only a process that was set up has children; only it is put in a        *)
(* cgroup, and its children with it.                                       *)
Heirs == {"setup", "app", "exiting"}

SharedByHeirs ==
  /\ \A p, q \in alive : p # q /\ conn[p] = conn[q] /\ conn[p] # NoConn => st[p] \in Heirs
  /\ \A p \in alive : cg[p] # NoCgrp => st[p] \in Heirs \cup {"hung"}
  /\ \A p \in alive : st[p] = "hung" => conn[p] = NoConn

(* The mode of the iot-launch that sends a request.                        *)
Mode(req) == IF req.type = "cleanup" THEN "agent" ELSE req.type

RequestAlone ==
  \A c \in Conn : inq[c] # <<>> =>
    /\ c \in Live /\ Len(inq[c]) = 1 /\ out[c] = <<>>
    /\ \A p \in Holders(c) :
         p = id[c].pid /\ st[p] = Mode(Head(inq[c])) /\ cg[p] = NoCgrp

ConnInv ==
  PeersKnown /\ PeersHold /\ SharedByHeirs /\ RequestAlone /\ RequestOrReply

-----------------------------------------------------------------------------
(* Killers.  While a killer's connection lasts nobody but the killer holds *)
(* it, and it has been told, or is about to read, that its stop was        *)
(* signalled.                                                              *)

ToldSignalled(p) ==
  \/ st[p] = "signalled"
  \/ /\ st[p] = "stop"
     /\ \E i \in DOMAIN out[conn[p]] : /\ out[conn[p]][i].type = "status"
                                       /\ out[conn[p]][i].text = "SIGNALLED"

KillersTold ==
  \A h \in Tracked : rec[h].killer # NoPid =>
    /\ rec[h].killer \in used
    /\ \A c \in Live : id[c].pid = rec[h].killer =>
         /\ c \notin backlog /\ inq[c] = <<>>
         /\ \A p \in Holders(c) : p = rec[h].killer /\ ToldSignalled(p)

KillInv == KillersTold /\ StopByOwner /\ StoppedAfterSignalled

-----------------------------------------------------------------------------
(* Cgroups.  A cgroup is named after the process it was made for, which    *)
(* asks once; when the last process has left it, nobody comes back.        *)

Made(d) == d \in dirs \/ CleanupUnderway(d)

NamesUsed ==
  \A d \in Cgrp : Made(d) =>
    /\ d[3] \in used
    /\ \A c \in Conn : inq[c] # <<>> => id[c].pid # d[3]

EmptyStays ==
  \A d \in Cgrp : d \in released \/ CleanupUnderway(d) => Tasks(d) = {}

CgroupsDiffer ==
  /\ \A h \in Tracked : rec[h].cgrp \in dirs
  /\ \A g, h \in Tracked : rec[g].cgrp = rec[h].cgrp => g = h

AgentsWait ==
  \A c \in Conn : inq[c] # <<>> /\ Head(inq[c]).type = "cleanup" => id[c].pid \in alive

(* A daemon that was never restarted.                                      *)
NoRestart == restarts = 0

CgroupInv ==
  /\ NamesUsed /\ EmptyStays /\ CgroupsDiffer /\ AgentsWait /\ ReleaseNotLost
  /\ NoRestart => NoAppLost

SafetyInv == ConnInv /\ KillInv /\ CgroupInv
-----------------------------------------------------------------------------
(* What the steps do, said once for the layers that follow.                *)

(* A new iot-launch p connects over a connection c that nobody holds, and  *)
(* is a process that never was.                                            *)
Connected(p, mode, uid, req, c) ==
  /\ c \in Conn /\ c \notin Live /\ Holders(c) = {} /\ inq[c] = <<>>
  /\ p \notin used /\ p \notin alive
  /\ alive' = alive \cup {p} /\ used' = used \cup {p}
  /\ cg' = [cg EXCEPT ![p] = NoCgrp]
  /\ st' = [st EXCEPT ![p] = mode]
  /\ conn' = [conn EXCEPT ![p] = c]
  /\ id' = [id EXCEPT ![c] = [uid |-> uid, pid |-> p]]
  /\ inq' = [inq EXCEPT ![c] = <<req>>]
  /\ out' = [out EXCEPT ![c] = <<>>]
  /\ backlog' = backlog \cup {c} /\ Live' = Live \cup {c}
  /\ UNCHANGED <<clients, apps, rec, timers, dirs, restarts>>

(* An iot-launch that starts takes a free connection and has its request   *)
(* on it.                                                                  *)
LEMMA StartEffect ==
  ASSUME IInv, ConnInv, NEW p \in Pid, NEW mode, NEW uid, NEW req,
         Start(p, mode, uid, req)
  PROVE  \E c : Connected(p, mode, uid, req, c)
<1> DEFINE c == CHOOSE c \in FreeConn : TRUE
<1>1. c \in FreeConn
  BY DEF Start
<1> HIDE DEF c
<1>2. c \in Conn /\ c \notin Live /\ Holders(c) = {}
  BY <1>1 DEF FreeConn, Live
<1>3. inq[c] = <<>>
  BY <1>2 DEF ConnInv, RequestAlone
<1>4. /\ conn' = [conn EXCEPT ![p] = c]
      /\ id' = [id EXCEPT ![c] = [uid |-> uid, pid |-> p]]
      /\ inq' = [inq EXCEPT ![c] = <<req>>]
      /\ out' = [out EXCEPT ![c] = <<>>]
      /\ backlog' = backlog \cup {c}
  BY DEF Start, c
<1>5. p \notin used /\ p \notin alive
  BY DEF Start, KernelSpawn, FreshPids, IInv, TypeOK, CgroupsOK
<1>6. Connected(p, mode, uid, req, c)
  BY <1>2, <1>3, <1>4, <1>5 DEF Connected, Start, KernelSpawn, Live
<1>. QED BY <1>6

(* The connection of a request has one request, which is for what its      *)
(* process does, and nothing else on it.                                   *)
LEMMA PendingFacts ==
  ASSUME IInv, ConnInv, NEW c \in Conn, inq[c] # <<>>
  PROVE  /\ c \in Live /\ out[c] = <<>> /\ Tail(inq[c]) = <<>>
         /\ Head(inq[c]) \in Request /\ Mode(Head(inq[c])) \in Waiting \ {"signalled"}
         /\ inq[c] = <<Head(inq[c])>>
         /\ id[c].pid \in Pid
         /\ \A p \in Holders(c) :
              p = id[c].pid /\ st[p] = Mode(Head(inq[c])) /\ cg[p] = NoCgrp
<1>1. inq[c] \in Seq(Request) /\ Len(inq[c]) = 1
  BY DEF IInv, TypeOK, ChannelsOK, ConnInv, RequestAlone
<1>2. Head(inq[c]) \in Request /\ Tail(inq[c]) = <<>>
  <2>1. Head(inq[c]) \in Request /\ Tail(inq[c]) \in Seq(Request)
    BY <1>1, HeadTailProperties
  <2>2. Len(Tail(inq[c])) = 0
    BY <1>1, HeadTailProperties
  <2>. QED BY <2>1, <2>2, EmptySeq
<1>3. Mode(Head(inq[c])) \in Waiting \ {"signalled"}
  <2>1. Head(inq[c]).type \in {"setup", "stop", "cleanup", "list"}
    BY <1>2 DEF Request
  <2>. QED BY <2>1 DEF Mode, Waiting
<1>4. inq[c] = <<Head(inq[c])>>
  BY <1>1
<1>5. c \in Live /\ id[c] # NoIdentity
  BY DEF ConnInv, PeersKnown, RequestAlone
<1>6. id[c].pid \in Pid
  BY <1>5, LauncherAssumption DEF IInv, TypeOK, ClientsOK
<1>. QED BY <1>2, <1>3, <1>4, <1>5, <1>6 DEF ConnInv, RequestAlone

(* The types that the steps below need, without the sequences.             *)
LEMMA Shape ==
  ASSUME IInv
  PROVE  /\ st \in [Pid -> Waiting \cup {"none", "app", "exiting", "hung"}]
         /\ conn \in [Pid -> Conn \cup {NoConn}] /\ NoConn \notin Conn
         /\ id \in [Conn -> Identity \cup {NoIdentity}] /\ NoIdentity \notin Identity
         /\ inq \in [Conn -> Seq(Request)] /\ out \in [Conn -> Seq(Message)]
         /\ alive \subseteq used /\ used \subseteq Pid
         /\ cg \in [Pid -> Cgrp \cup {NoCgrp}] /\ NoCgrp \notin Cgrp
         /\ Live \subseteq Conn /\ Range(clients) \cap backlog = {}
         /\ released \subseteq dirs /\ dirs \subseteq Cgrp
         /\ Tracked \subseteq Handle /\ \A h \in Tracked : rec[h] \in AppRec
         /\ ChildPids \subseteq Pid
<1> USE DEF IInv, TypeOK
<1>1. Live \subseteq Conn /\ Range(clients) \cap backlog = {}
  BY RangeOfSeq DEF Live, ClientsOK, ProcessesOK
<1>2. Tracked \subseteq Handle
  BY RangeOfSeq DEF Tracked, TrackingOK
<1>3. \A h \in Tracked : rec[h] \in AppRec
  BY <1>2 DEF TrackingOK
<1>. QED BY <1>1, <1>2, <1>3, LaunchSystemAssumption, NoIdentityAssumption,
     CgroupsAssumption DEF ClientsOK, ChannelsOK, CgroupsOK, ProcessesOK

-----------------------------------------------------------------------------
(* The layer of the connections, one action at a time.                     *)

(* The daemon has answered the request of connection c.                    *)
Answered(c) == \E i \in DOMAIN out[c] : out[c][i].type = "status"

(* A new iot-launch: its connection is its own, with its request on it.    *)
LEMMA ConnStart ==
  ASSUME IInv, ConnInv, NEW p \in Pid, NEW uid \in Uid, NEW req \in Request,
         Mode(req) \in Waiting \ {"signalled"}, Start(p, Mode(req), uid, req)
  PROVE  ConnInv'
<1>1. PICK c : Connected(p, Mode(req), uid, req, c)
  BY StartEffect
<1> USE DEF Connected
<1> DEFINE who == [uid |-> uid, pid |-> p]
<1>2. who # NoIdentity /\ who.pid = p
  BY LauncherAssumption, NoIdentityAssumption
<1>3. id'[c] = who /\ \A e \in Conn : e # c => id'[e] = id[e]
  BY <1>1, Shape
<1> HIDE DEF who
<1>4. /\ st'[p] = Mode(req) /\ conn'[p] = c /\ cg'[p] = NoCgrp
      /\ \A q \in Pid : q # p => st'[q] = st[q] /\ conn'[q] = conn[q] /\ cg'[q] = cg[q]
  BY <1>1, Shape
<1>5. /\ inq'[c] = <<req>> /\ out'[c] = <<>>
      /\ \A e \in Conn : e # c => inq'[e] = inq[e] /\ out'[e] = out[e]
  BY <1>1, Shape
<1>6. \A q \in alive : conn[q] # c /\ q # p /\ q \in Pid
  BY <1>1, Shape DEF Holders
<1>7. PeersKnown'
  BY <1>1, <1>2, <1>3, Shape DEF PeersKnown, ConnInv
<1>8. PeersHold'
  BY <1>1, <1>2, <1>3, <1>4, <1>6, Shape DEF PeersKnown, PeersHold, ConnInv
<1>9. SharedByHeirs'
  BY <1>1, <1>4, <1>6, Shape DEF SharedByHeirs, ConnInv, Waiting
<1>10. RequestAlone'
  <2> SUFFICES ASSUME NEW e \in Conn, inq'[e] # <<>>
               PROVE  /\ e \in Live' /\ Len(inq'[e]) = 1 /\ out'[e] = <<>>
                      /\ \A q \in Holders(e)' :
                           q = id'[e].pid /\ st'[q] = Mode(Head(inq'[e])) /\ cg'[q] = NoCgrp
    BY DEF RequestAlone, Mode
  <2>1. CASE e = c
    <3>1. Holders(e)' = {p}
      BY <2>1, <1>1, <1>4, <1>6 DEF Holders
    <3>2. Len(<<req>>) = 1 /\ Head(<<req>>) = req
      OBVIOUS
    <3>. QED BY <2>1, <3>1, <3>2, <1>1, <1>2, <1>3, <1>4, <1>5
  <2>2. CASE e # c
    <3>1. Holders(e)' = Holders(e)
      BY <2>2, <1>1, <1>4, <1>6 DEF Holders
    <3>. QED BY <2>2, <3>1, <1>1, <1>3, <1>4, <1>5, <1>6 DEF RequestAlone, ConnInv, Holders
  <2>. QED BY <2>1, <2>2
<1>11. RequestOrReply'
  <2> SUFFICES ASSUME NEW q \in alive', st'[q] \in Waiting \ {"signalled"},
                      conn'[q] \in Live'
               PROVE  (inq'[conn'[q]] # <<>>) # Answered(conn[q])'
    BY DEF RequestOrReply, Live, Answered
  <2>1. CASE q = p
    <3>1. inq'[conn'[q]] # <<>> /\ out'[conn'[q]] = <<>>
      BY <2>1, <1>4, <1>5
    <3>2. ~Answered(conn[q])'
      BY <3>1 DEF Answered
    <3>. QED BY <3>1, <3>2
  <2>2. CASE q # p
    <3>1. q \in alive /\ conn[q] # c /\ conn'[q] = conn[q] /\ st'[q] = st[q] /\ conn[q] \in Live
      BY <2>2, <1>1, <1>4, <1>6
    <3>2. (inq[conn[q]] # <<>>) # Answered(conn[q])
      BY <3>1 DEF ConnInv, RequestOrReply, Live, Answered
    <3>3. conn[q] \in Conn /\ inq'[conn[q]] = inq[conn[q]] /\ out'[conn[q]] = out[conn[q]]
      BY <3>1, <1>5, Shape
    <3>. QED BY <3>1, <3>2, <3>3 DEF Answered
  <2>. QED BY <2>1, <2>2
<1>. QED BY <1>7, <1>8, <1>9, <1>10, <1>11 DEF ConnInv

(* What a process does with its own socket: it reads the message that is   *)
(* first on it, or nothing.                                                *)
ReadBy(p) ==
  /\ out' \in [Conn -> Seq(Message)]
  /\ \A e \in Conn : e # conn[p] => out'[e] = out[e]
  /\ \/ out' = out
     \/ /\ conn[p] \in Conn /\ out[conn[p]] # <<>> /\ st[p] \in Waiting
        /\ out'[conn[p]] = Tail(out[conn[p]])

(* A process that reads has no request pending.                            *)
LEMMA ReadFacts ==
  ASSUME IInv, ConnInv, NEW p \in alive, ReadBy(p)
  PROVE  /\ \A e \in Conn : inq[e] # <<>> => out'[e] = out[e]
         /\ \A q \in alive : /\ q # p /\ st[q] \in Waiting \ {"signalled"}
                             /\ conn[q] \in Live
                             => out'[conn[q]] = out[conn[q]]
<1>1. \A e \in Conn : inq[e] # <<>> => out'[e] = out[e]
  BY DEF ReadBy, ConnInv, RequestAlone
<1>2. ASSUME NEW q \in alive, q # p, st[q] \in Waiting \ {"signalled"}, conn[q] \in Live,
             out'[conn[q]] # out[conn[q]]
      PROVE  FALSE
  <2>1. conn[q] = conn[p] /\ st[p] \in Waiting
    BY <1>2, Shape DEF ReadBy
  <2>. QED BY <2>1, <1>2 DEF ConnInv, PeersHold
<1>. QED BY <1>1, <1>2

(* A process ends.                                                         *)
LEMMA ConnExit ==
  ASSUME IInv, ConnInv, NEW p \in alive, Exit(p), ReadBy(p)
  PROVE  ConnInv'
<1>1. /\ alive' = alive \ {p} /\ used' = used /\ Live' = Live
      /\ UNCHANGED <<clients, id, inq, backlog>>
  BY DEF Exit, KernelExit, Live, launcherVars
<1>2. p \in Pid /\ conn'[p] = NoConn
      /\ \A q \in alive' : q \in Pid /\ q # p /\ st'[q] = st[q] /\ conn'[q] = conn[q]
                        /\ cg'[q] = cg[q]
  BY <1>1, Shape DEF Exit, KernelExit
<1>3. PeersKnown' /\ PeersHold' /\ SharedByHeirs'
  BY <1>1, <1>2 DEF PeersKnown, PeersHold, SharedByHeirs, ConnInv
<1>4. RequestAlone'
  <2>1. \A e \in Conn : Holders(e)' \subseteq Holders(e)
    BY <1>1, <1>2 DEF Holders
  <2>. QED BY <1>1, <1>2, <2>1, ReadFacts DEF RequestAlone, ConnInv, Mode, Holders
<1>5. RequestOrReply'
  <2> SUFFICES ASSUME NEW q \in alive', st'[q] \in Waiting \ {"signalled"},
                      conn'[q] \in Live'
               PROVE  (inq'[conn'[q]] # <<>>) # Answered(conn[q])'
    BY DEF RequestOrReply, Live, Answered
  <2>1. out'[conn[q]] = out[conn[q]] /\ inq' = inq /\ conn'[q] = conn[q]
    BY <1>1, <1>2, ReadFacts
  <2>2. (inq[conn[q]] # <<>>) # Answered(conn[q])
    BY <1>1, <1>2 DEF ConnInv, RequestOrReply, Live, Answered
  <2>. QED BY <2>1, <2>2 DEF Answered
<1>. QED BY <1>3, <1>4, <1>5 DEF ConnInv

(* An application, or the iot-launch that becomes one, has a child.        *)
LEMMA ConnFork ==
  ASSUME IInv, ConnInv, NEW p \in alive, NEW q \in Pid, ForkChild(p, q), ReadBy(p),
         \/ st[p] = "app" /\ st' = [st EXCEPT ![q] = "app"]
         \/ /\ st[p] = "setup" /\ st' = [st EXCEPT ![q] = "app", ![p] = "exiting"]
            /\ out' # out
  PROVE  ConnInv'
<1>1. /\ q \notin used /\ alive' = alive \cup {q} /\ used' = used \cup {q} /\ Live' = Live
      /\ UNCHANGED <<clients, id, inq, backlog>>
  BY DEF ForkChild, KernelSpawn, FreshPids, Live, launcherVars
<1>2. q \notin alive /\ q # p /\ \A r \in alive : r # q /\ r \in Pid
  BY <1>1, Shape
<1>3. /\ conn'[q] = conn[p] /\ cg'[q] = cg[p] /\ st'[q] = "app"
      /\ \A r \in alive : conn'[r] = conn[r] /\ cg'[r] = cg[r] /\ (r # p => st'[r] = st[r])
      /\ st[p] \in {"app", "setup"} /\ st'[p] \in {"app", "exiting"}
  BY <1>2, Shape DEF ForkChild, KernelSpawn
<1>4. conn[p] \in Conn => inq[conn[p]] = <<>>
  <2>1. CASE out' # out
    BY <2>1 DEF ReadBy, ConnInv, RequestAlone
  <2>2. ASSUME st[p] = "app", conn[p] \in Conn, inq[conn[p]] # <<>> PROVE FALSE
    <3>1. st[p] = Mode(Head(inq[conn[p]]))
      BY <2>2 DEF ConnInv, RequestAlone, Holders
    <3>. QED BY <2>2, <3>1, PendingFacts DEF Waiting
  <2>. QED BY <2>1, <2>2
<1>5. PeersKnown'
  BY <1>1 DEF PeersKnown, ConnInv
<1>6. PeersHold'
  BY <1>1, <1>2, <1>3, Shape DEF PeersKnown, PeersHold, ConnInv, Waiting
<1>7. SharedByHeirs'
  BY <1>1, <1>2, <1>3 DEF SharedByHeirs, ConnInv, Heirs
<1>8. RequestAlone'
  <2>1. \A e \in Conn : inq[e] # <<>> => Holders(e)' = Holders(e) /\ p \notin Holders(e)
    BY <1>1, <1>2, <1>3, <1>4 DEF Holders
  <2>2. \A e \in Conn : Holders(e) \subseteq alive
    BY DEF Holders
  <2>. QED BY <1>1, <1>2, <1>3, <2>1, <2>2, ReadFacts DEF RequestAlone, ConnInv, Mode
<1>9. RequestOrReply'
  <2> SUFFICES ASSUME NEW r \in alive', st'[r] \in Waiting \ {"signalled"},
                      conn'[r] \in Live'
               PROVE  (inq'[conn'[r]] # <<>>) # Answered(conn[r])'
    BY DEF RequestOrReply, Live, Answered
  <2>1. r \in alive /\ r # p /\ st[r] \in Waiting \ {"signalled"}
    BY <1>1, <1>3 DEF Waiting
  <2>2. out'[conn[r]] = out[conn[r]] /\ inq' = inq /\ conn'[r] = conn[r]
    BY <1>1, <1>3, <2>1, ReadFacts
  <2>3. (inq[conn[r]] # <<>>) # Answered(conn[r])
    BY <1>1, <1>3, <2>1 DEF ConnInv, RequestOrReply, Live, Answered
  <2>. QED BY <2>2, <2>3 DEF Answered
<1>. QED BY <1>5, <1>6, <1>7, <1>8, <1>9 DEF ConnInv

(* A process reads a message and goes on, as an application, as one whose  *)
(* stop was signalled, or as before when it ignores an event.              *)
LEMMA ConnRead ==
  ASSUME IInv, ConnInv, NEW p \in alive, ReadBy(p), out' # out,
         UNCHANGED <<clients, id, cgroupVars, launcherVars, conn, backlog>>,
         \/ st[p] = "setup" /\ st' = [st EXCEPT ![p] = "app"]
         \/ st[p] = "stop" /\ st' = [st EXCEPT ![p] = "signalled"]
         \/ st' = st /\ Head(out[conn[p]]).type # "status"
  PROVE  ConnInv'
<1>1. Live' = Live /\ UNCHANGED <<clients, id, alive, used, cg, inq, conn, backlog>>
  BY DEF Live, cgroupVars, launcherVars
<1>2. /\ \A q \in alive : q # p => st'[q] = st[q]
      /\ st'[p] = st[p] \/ (st[p] = "setup" /\ st'[p] = "app")
           \/ (st[p] = "stop" /\ st'[p] = "signalled")
      /\ st[p] \in Waiting
  BY Shape DEF ReadBy
<1>3. PeersKnown' /\ PeersHold' /\ SharedByHeirs'
  <2>1. PeersKnown'
    BY <1>1 DEF PeersKnown, ConnInv
  <2>2. PeersHold'
    BY <1>1, <1>2 DEF PeersHold, ConnInv, Waiting
  <2>3. SharedByHeirs'
    BY <1>1, <1>2 DEF SharedByHeirs, ConnInv, Heirs
  <2>. QED BY <2>1, <2>2, <2>3
<1>4. RequestAlone'
  <2>1. \A e \in Conn : inq[e] # <<>> => p \notin Holders(e)
    BY DEF ReadBy, ConnInv, RequestAlone, Holders
  <2>2. \A e \in Conn : Holders(e) \subseteq alive /\ Holders(e)' = Holders(e)
    BY <1>1 DEF Holders
  <2>. QED BY <1>1, <1>2, <2>1, <2>2, ReadFacts DEF RequestAlone, ConnInv, Mode
<1>5. RequestOrReply'
  <2> SUFFICES ASSUME NEW r \in alive', st'[r] \in Waiting \ {"signalled"},
                      conn'[r] \in Live'
               PROVE  (inq'[conn'[r]] # <<>>) # Answered(conn[r])'
    BY DEF RequestOrReply, Live, Answered
  <2>1. r \in alive /\ st[r] \in Waiting \ {"signalled"} /\ conn[r] \in Live
    BY <1>1, <1>2 DEF Waiting
  <2>2. (inq[conn[r]] # <<>>) # Answered(conn[r])
    BY <2>1 DEF ConnInv, RequestOrReply, Live, Answered
  <2>3. CASE r # p
    <3>1. out'[conn[r]] = out[conn[r]] /\ inq' = inq /\ conn' = conn
      BY <1>1, <2>1, <2>3, ReadFacts
    <3>. QED BY <2>2, <3>1 DEF Answered
  <2>4. CASE r = p
    <3> DEFINE s == out[conn[p]]
    <3>1. st' = st /\ Head(s).type # "status"
      BY <2>4, Shape DEF Waiting
    <3>2. s \in Seq(Message) /\ s # <<>> /\ out'[conn[p]] = Tail(s) /\ conn[p] \in Conn
      BY Shape DEF ReadBy
    <3> HIDE DEF s
    <3>3. Head(s) = s[1] /\ Len(Tail(s)) = Len(s) - 1 /\ Len(s) \in Nat /\ Len(s) # 0
          /\ \A i \in 1 .. Len(s) - 1 : Tail(s)[i] = s[i + 1]
      BY <3>2, HeadTailProperties, LenProperties, EmptySeq
    <3>4. DOMAIN s = 1 .. Len(s) /\ DOMAIN Tail(s) = 1 .. Len(s) - 1
      BY <3>2, <3>3, HeadTailProperties, LenProperties
    <3>5. (\E i \in DOMAIN s : s[i].type = "status")
            <=> (\E i \in DOMAIN Tail(s) : Tail(s)[i].type = "status")
      <4>1. ASSUME NEW i \in 1 .. Len(s), s[i].type = "status"
            PROVE  \E j \in 1 .. Len(s) - 1 : Tail(s)[j].type = "status"
        <5>1. i # 1 /\ i - 1 \in 1 .. Len(s) - 1 /\ (i - 1) + 1 = i
          BY <3>1, <3>3, <4>1
        <5>. QED BY <3>3, <4>1, <5>1
      <4>2. ASSUME NEW j \in 1 .. Len(s) - 1, Tail(s)[j].type = "status"
            PROVE  \E i \in 1 .. Len(s) : s[i].type = "status"
        <5>1. j + 1 \in 1 .. Len(s) /\ s[j + 1].type = "status"
          BY <3>3, <4>2
        <5>. QED BY <5>1
      <4>. QED BY <3>4, <4>1, <4>2
    <3>6. Answered(conn[r]) <=> Answered(conn[r])'
      BY <2>4, <3>2, <3>5, <1>1 DEF Answered, s
    <3>7. inq'[conn'[r]] = inq[conn[r]]
      BY <1>1
    <3>. QED BY <2>2, <3>6, <3>7 DEF Answered
  <2>. QED BY <2>3, <2>4
<1>. QED BY <1>3, <1>4, <1>5 DEF ConnInv

(* An iot-launch finds that the daemon has dropped its connection.         *)
LEMMA ConnLost ==
  ASSUME IInv, ConnInv, NEW p \in Pid, LostConnection(p)
  PROVE  ConnInv'
<1>1. /\ p \in alive /\ conn[p] \notin Live /\ Live' = Live
      /\ UNCHANGED <<clients, id, out, alive, used, cg, inq, backlog>>
  BY DEF LostConnection, clientVars, cgroupVars, launcherVars, Live
<1>2. /\ st'[p] = "hung" /\ conn'[p] = NoConn
      /\ \A q \in alive : q \in Pid /\ (q # p => st'[q] = st[q] /\ conn'[q] = conn[q])
  BY Shape DEF LostConnection
<1>3. PeersKnown' /\ PeersHold'
  <2>1. PeersKnown'
    BY <1>1 DEF PeersKnown, ConnInv
  <2>2. \A c \in Live : id[c].pid # p \/ p \notin alive
    BY <1>1 DEF PeersHold, ConnInv
  <2>3. "hung" \notin Waiting
    BY DEF Waiting
  <2>4. PeersHold'
    BY <1>1, <1>2, <2>2, <2>3 DEF PeersHold, ConnInv
  <2>. QED BY <2>1, <2>4
<1>4. SharedByHeirs'
  <2>1. alive' = alive /\ cg' = cg /\ SharedByHeirs /\ p \in alive
    BY <1>1 DEF ConnInv
  <2>2. ASSUME NEW q \in alive, NEW r \in alive, q # r, conn'[q] = conn'[r], conn'[q] # NoConn
        PROVE  st'[q] \in Heirs
    <3>1. q # p /\ r # p
      BY <1>2, <2>2
    <3>2. conn[q] = conn[r] /\ conn[q] # NoConn /\ st'[q] = st[q]
      BY <1>2, <2>2, <3>1
    <3>. QED BY <2>1, <2>2, <3>2 DEF SharedByHeirs
  <2>3. ASSUME NEW q \in alive, cg[q] # NoCgrp PROVE st'[q] \in Heirs \cup {"hung"}
    BY <1>2, <2>1, <2>3 DEF SharedByHeirs
  <2>4. ASSUME NEW q \in alive, st'[q] = "hung" PROVE conn'[q] = NoConn
    BY <1>2, <2>1, <2>4 DEF SharedByHeirs
  <2>. QED BY <2>1, <2>2, <2>3, <2>4 DEF SharedByHeirs
<1>5. RequestAlone'
  <2>1. \A e \in Conn : inq[e] # <<>> => p \notin Holders(e)
    BY <1>1 DEF ConnInv, RequestAlone, Holders
  <2>2. \A e \in Conn : Holders(e) \subseteq alive /\ Holders(e)' \subseteq Holders(e)
    BY <1>1, <1>2, Shape DEF Holders
  <2>. QED BY <1>1, <1>2, <2>1, <2>2 DEF RequestAlone, ConnInv, Mode
<1>6. RequestOrReply'
  <2> SUFFICES ASSUME NEW r \in alive', st'[r] \in Waiting \ {"signalled"},
                      conn'[r] \in Live'
               PROVE  (inq'[conn'[r]] # <<>>) # Answered(conn[r])'
    BY DEF RequestOrReply, Live, Answered
  <2>1. r \in alive /\ r # p /\ conn'[r] = conn[r] /\ st'[r] = st[r] /\ out' = out /\ inq' = inq
    BY <1>1, <1>2, Shape
  <2>2. (inq[conn[r]] # <<>>) # Answered(conn[r])
    BY <1>1, <2>1 DEF ConnInv, RequestOrReply, Live, Answered
  <2>. QED BY <2>1, <2>2 DEF Answered
<1>. QED BY <1>3, <1>4, <1>5, <1>6 DEF ConnInv

(* The daemon accepts a connection, or drops it, or learns that it is      *)
(* closed: whoever is left holding one it drops cannot be waited for.      *)
LEMMA ConnDrop ==
  ASSUME IInv, ConnInv, NEW c \in Conn, Live' = Live \ {c},
         id' = [id EXCEPT ![c] = NoIdentity],
         inq' = [inq EXCEPT ![c] = <<>>],
         \A e \in Conn : e # c => out'[e] = out[e],
         UNCHANGED <<alive, used, cg, st, conn>>
  PROVE  ConnInv'
<1>1. /\ id'[c] = NoIdentity /\ inq'[c] = <<>>
      /\ \A e \in Conn : e # c => id'[e] = id[e] /\ inq'[e] = inq[e]
  BY Shape
<1>2. PeersKnown' /\ PeersHold' /\ SharedByHeirs'
  <2>1. PeersKnown'
    BY <1>1, Shape DEF PeersKnown, ConnInv
  <2>2. PeersHold'
    BY <1>1, Shape DEF PeersHold, ConnInv
  <2>3. SharedByHeirs'
    BY DEF SharedByHeirs, ConnInv
  <2>. QED BY <2>1, <2>2, <2>3
<1>3. RequestAlone'
  BY <1>1 DEF RequestAlone, ConnInv, Mode, Holders
<1>4. RequestOrReply'
  <2> SUFFICES ASSUME NEW r \in alive', st'[r] \in Waiting \ {"signalled"},
                      conn'[r] \in Live'
               PROVE  (inq'[conn'[r]] # <<>>) # Answered(conn[r])'
    BY DEF RequestOrReply, Live, Answered
  <2>1. /\ r \in alive /\ conn[r] # c /\ conn[r] \in Live /\ conn[r] \in Conn
        /\ st'[r] = st[r] /\ conn'[r] = conn[r]
    BY Shape
  <2>2. (inq[conn[r]] # <<>>) # Answered(conn[r])
    BY <2>1 DEF ConnInv, RequestOrReply, Live, Answered
  <2>3. inq'[conn[r]] = inq[conn[r]] /\ out'[conn[r]] = out[conn[r]]
    BY <1>1, <2>1
  <2>. QED BY <2>1, <2>2, <2>3 DEF Answered
<1>. QED BY <1>2, <1>3, <1>4 DEF ConnInv

(* lnc_connect().                                                          *)
LEMMA ConnConnect ==
  ASSUME IInv, ConnInv, NEW c \in Conn, LncConnect(c)
  PROVE  ConnInv'
<1>1. c \in backlog /\ c \notin Range(clients)
  BY Shape DEF LncConnect
<1>2. CASE ClientCreate(c) /\ UNCHANGED <<id, inq>>
  <2>1. Range(clients') = Range(clients) \cup {c}
    BY <1>2, AppendFacts DEF ClientCreate, IInv, TypeOK, ClientsOK
  <2>2. Live' = Live /\ UNCHANGED <<id, inq, out, alive, used, cg, st, conn>>
    BY <1>1, <1>2, <2>1 DEF LncConnect, Live, cgroupVars
  <2>3. PeersKnown' /\ PeersHold' /\ SharedByHeirs'
    BY <2>2 DEF PeersKnown, PeersHold, SharedByHeirs, ConnInv
  <2>4. RequestAlone'
    BY <2>2 DEF RequestAlone, ConnInv, Mode, Holders
  <2>5. RequestOrReply'
    <3>1. Range(clients') \cup backlog' = Range(clients) \cup backlog
      BY <2>2 DEF Live
    <3>. QED BY <2>2, <3>1 DEF RequestOrReply, ConnInv
  <2>. QED BY <2>3, <2>4, <2>5 DEF ConnInv
<1>3. CASE /\ id' = [id EXCEPT ![c] = NoIdentity]
           /\ inq' = [inq EXCEPT ![c] = <<>>]
           /\ UNCHANGED clients
  <2>1. Live' = Live \ {c} /\ UNCHANGED <<out, alive, used, cg, st, conn>>
    BY <1>1, <1>3 DEF LncConnect, Live, cgroupVars
  <2>. QED BY <1>3, <2>1, ConnDrop
<1>. QED BY <1>2, <1>3 DEF LncConnect

(* lnc_closed().                                                           *)
LEMMA ConnClosed ==
  ASSUME IInv, ConnInv, NEW c \in Conn, LncClosed(c)
  PROVE  ConnInv'
<1>1. Range(clients') = Range(clients) \ {c} /\ c \notin backlog
  BY RemoveFirstFacts, Shape DEF LncClosed, ClientDestroy, IInv, TypeOK, ClientsOK
<1>2. Live' = Live \ {c} /\ UNCHANGED <<alive, used, cg, st, conn, inq>>
  BY <1>1 DEF LncClosed, Live, cgroupVars, launcherVars, systemVars
<1>3. inq' = [inq EXCEPT ![c] = <<>>]
  BY <1>2, Shape DEF LncClosed
<1>4. id' = [id EXCEPT ![c] = NoIdentity] /\ \A e \in Conn : e # c => out'[e] = out[e]
  BY Shape DEF LncClosed, ClientDestroy
<1>. QED BY <1>2, <1>3, <1>4, ConnDrop

(* A restart of the daemon.                                                *)
LEMMA ConnRestart ==
  ASSUME IInv, ConnInv, Restart
  PROVE  ConnInv'
<1>1. Range(clients') = {} /\ backlog' = {} /\ Live' = {}
  BY DEF Restart, Range, Live
<1>2. id' = [c \in Conn |-> NoIdentity] /\ inq' = [c \in Conn |-> <<>>]
      /\ UNCHANGED <<alive, used, cg, st, conn>>
  BY DEF Restart, cgroupVars
<1>3. PeersKnown' /\ PeersHold' /\ SharedByHeirs'
  BY <1>1, <1>2 DEF PeersKnown, PeersHold, SharedByHeirs, ConnInv
<1>4. RequestAlone' /\ RequestOrReply'
  BY <1>1, <1>2 DEF RequestAlone, RequestOrReply
<1>. QED BY <1>3, <1>4 DEF ConnInv

(* application_sigkill(): the processes S of h's cgroup are killed, the    *)
(* child in C that one of them forked, if any, escapes, with the           *)
(* connection of x.                                                        *)
Killed(h, S, C, x) ==
  /\ h \in Tracked /\ rec[h].killer # NoPid /\ rec[h].cgrp \in Cgrp
  /\ S \subseteq Tasks(rec[h].cgrp) /\ S # {}
  /\ C \subseteq ChildPids /\ C \cap used = {} /\ (C = {} \/ \E q \in C : C = {q})
  /\ x \in alive /\ x \in Tasks(rec[h].cgrp)
  /\ alive' = (alive \ S) \cup C /\ used' = used \cup C
  /\ \A q \in C : st'[q] = "app" /\ conn'[q] = conn[x] /\ cg'[q] = rec[h].cgrp
  /\ \A p \in alive \ S : st'[p] = st[p] /\ conn'[p] = conn[p] /\ cg'[p] = cg[p]
  /\ released' = released \cup Emptied(alive', cg')
  /\ UNCHANGED <<clients, id, out, inq, apps, rec, timers, dirs, backlog, restarts>>

(* The kill timer kills a part of a cgroup, or all of it, with at most one *)
(* child left behind.                                                      *)
LEMMA SigkillEffect ==
  ASSUME IInv, ConnInv, NEW h \in Handle, Sigkill(h)
  PROVE  \E S, C, x : Killed(h, S, C, x)
<1> DEFINE d == rec[h].cgrp
           x == CHOOSE q \in Tasks(d) : TRUE
<1>1. PICK S \in Killable(d), C \in {{}} \cup {{q} : q \in FreshPids} :
        S # {} /\ KernelExit(S, C, d)
  BY DEF Sigkill, ApplicationSigkill
<1>2. h \in Tracked /\ rec[h].killer # NoPid
  BY DEF Sigkill, ApplicationSigkill, IInv, KillTimers
<1>3. d \in Cgrp
  BY <1>2, Shape DEF AppRec
<1>4. S \in SUBSET Tasks(d) /\ Tasks(d) # {} /\ Tasks(d) \subseteq alive
  BY <1>1 DEF Killable, Tasks
<1>5. x \in Tasks(d) /\ x \in alive
  BY <1>4
<1>6. C \cap used = {} /\ C \subseteq Pid /\ C \cap alive = {}
      /\ (C = {} \/ \E q \in C : C = {q})
  BY Shape DEF FreshPids
<1>7. /\ alive' = (alive \ S) \cup C /\ used' = used \cup C
      /\ cg' = [p \in Pid |-> IF p \in C THEN d
                              ELSE IF p \in S THEN NoCgrp ELSE cg[p]]
      /\ released' = released \cup Emptied(alive', cg')
  BY <1>1 DEF KernelExit
<1>8. C \subseteq ChildPids
  BY <1>6, <1>7 DEF Sigkill
<1>9. \A q \in C : st'[q] = "app" /\ conn'[q] = conn[x] /\ cg'[q] = d
  BY <1>6, <1>7 DEF Sigkill
<1>10. \A p \in alive \ S : st'[p] = st[p] /\ conn'[p] = conn[p] /\ cg'[p] = cg[p]
  BY <1>6, <1>7, Shape DEF Sigkill
<1>11. UNCHANGED <<clients, id, out, inq, apps, rec, timers, dirs, backlog, restarts>>
  BY DEF Sigkill, ApplicationSigkill, SigkillRearmed, clientVars
<1> HIDE DEF x
<1>12. Killed(h, S, C, x)
  BY <1>1, <1>2, <1>3, <1>4, <1>5, <1>6, <1>7, <1>8, <1>9, <1>10, <1>11 DEF Killed
<1>. QED BY <1>12

(* A kill changes no connection but for the holder that a child becomes.   *)
LEMMA ConnSigkill ==
  ASSUME IInv, ConnInv, NEW h \in Handle, Sigkill(h)
  PROVE  ConnInv'
<1> USE DEF Killed
<1>1. PICK S, C, x : Killed(h, S, C, x)
  BY SigkillEffect
<1>2. Live' = Live
  BY <1>1 DEF Live
<1>3. x \in alive /\ cg[x] # NoCgrp /\ (conn[x] # NoConn => st[x] \in Heirs)
  BY <1>1, Shape DEF Tasks, ConnInv, SharedByHeirs
<1>4. C \cap alive = {}
  BY <1>1, Shape
<1>5. PeersKnown'
  BY <1>1, <1>2 DEF PeersKnown, ConnInv
<1>6. PeersHold'
  BY <1>1, <1>2, <1>4 DEF PeersKnown, PeersHold, ConnInv, Waiting
<1>7. SharedByHeirs'
  <2>1. ASSUME NEW p \in alive', NEW q \in alive', p # q, conn'[p] = conn'[q], conn'[p] # NoConn
        PROVE  st'[p] \in Heirs
    <3>1. CASE p \in C
      BY <3>1, <1>1 DEF Heirs
    <3>2. CASE p \notin C /\ q \notin C
      BY <3>2, <2>1, <1>1 DEF ConnInv, SharedByHeirs
    <3>3. CASE p \notin C /\ q \in C
      <4>1. conn[p] = conn[x] /\ p \in alive /\ st'[p] = st[p] /\ conn[x] # NoConn
        BY <3>3, <2>1, <1>1
      <4>. QED BY <4>1, <1>3 DEF ConnInv, SharedByHeirs
    <3>. QED BY <3>1, <3>2, <3>3
  <2>2. \A p \in alive' : cg'[p] # NoCgrp => st'[p] \in Heirs \cup {"hung"}
    BY <1>1 DEF ConnInv, SharedByHeirs, Heirs
  <2>3. \A p \in alive' : st'[p] = "hung" => conn'[p] = NoConn
    BY <1>1 DEF ConnInv, SharedByHeirs
  <2>. QED BY <2>1, <2>2, <2>3 DEF SharedByHeirs
<1>8. RequestAlone'
  <2>1. \A e \in Conn : inq[e] # <<>> => Holders(e)' \subseteq Holders(e) \ (S \cup C)
    <3>1. ASSUME NEW e \in Conn, inq[e] # <<>>, NEW p \in Holders(e)'
          PROVE  p \in Holders(e) /\ p \notin S /\ p \notin C
      <4>1. conn[x] # e
        BY <3>1, <1>3 DEF ConnInv, RequestAlone, Holders
      <4>2. p \in alive' /\ conn'[p] = e
        BY <3>1 DEF Holders
      <4>3. p \notin C
        BY <4>1, <4>2, <1>1
      <4>. QED BY <4>2, <4>3, <1>1 DEF Holders
    <3>. QED BY <3>1
  <2>2. \A e \in Conn : Holders(e) \subseteq alive
    BY DEF Holders
  <2>. QED BY <1>1, <1>2, <2>1, <2>2 DEF RequestAlone, ConnInv, Mode
<1>9. RequestOrReply'
  <2> SUFFICES ASSUME NEW r \in alive', st'[r] \in Waiting \ {"signalled"},
                      conn'[r] \in Live'
               PROVE  (inq'[conn'[r]] # <<>>) # Answered(conn[r])'
    BY DEF RequestOrReply, Live, Answered
  <2>1. r \in alive \ S
    BY <1>1 DEF Waiting
  <2>2. conn'[r] = conn[r] /\ st'[r] = st[r] /\ out' = out /\ inq' = inq
    BY <1>1, <2>1
  <2>3. (inq[conn[r]] # <<>>) # Answered(conn[r])
    BY <1>2, <2>1, <2>2 DEF ConnInv, RequestOrReply, Live, Answered
  <2>. QED BY <2>2, <2>3 DEF Answered
<1>. QED BY <1>5, <1>6, <1>7, <1>8, <1>9 DEF ConnInv

-----------------------------------------------------------------------------
(* What lnc_recv() does with the request of client c, by its outcome: the  *)
(* reply is m, and nothing else happens; an application is set up, told to *)
(* stop, or cleaned up after.                                              *)

Replied(c, m) ==
  /\ c \in Range(clients) /\ inq[c] # <<>>
  /\ m \in Message /\ m.type = "status"
  /\ inq' = [inq EXCEPT ![c] = <<>>]
  /\ out' \in [Conn -> Seq(Message)] /\ out'[c] = <<m>>
  /\ UNCHANGED <<clients, id, alive, used, systemVars>>

OthersQuiet(c) == \A e \in Conn : e # c => out'[e] = out[e]

NothingDone(c, m) ==
  /\ Replied(c, m) /\ m.text # "SIGNALLED" /\ OthersQuiet(c)
  /\ \A h \in Tracked : inq[c] # <<CleanupReq(rec[h].cgrp)>>
  /\ UNCHANGED <<apps, rec, timers, cgroupVars>>

SetUp(c, m, h, app, d) ==
  /\ Replied(c, m) /\ m.text # "SIGNALLED" /\ OthersQuiet(c)
  /\ Head(inq[c]).type = "setup"
  /\ h \in Handle /\ h \notin Tracked /\ app \in App
  /\ d \in Cgrp /\ d \notin dirs /\ d[3] = id[c].pid /\ d[3] \in alive
  /\ Tracked' = Tracked \cup {h} /\ Track(h, app, d)
  /\ CgroupMkdirDone(d)

StopGranted(c, m, h) ==
  /\ Replied(c, m) /\ m.text = "SIGNALLED" /\ OthersQuiet(c)
  /\ Head(inq[c]).type = "stop"
  /\ h \in Tracked /\ rec[h].killer = NoPid /\ id[c].uid \in {rec[h].uid, Root}
  /\ rec' = [rec EXCEPT ![h].killer = id[c].pid] /\ Tracked' = Tracked
  /\ UNCHANGED <<apps, cgroupVars>>

ToldOnly(pid, c) ==
  \/ OthersQuiet(c)
  \/ /\ pid # NoPid
     /\ \E e \in Range(clients) : \E d :
          /\ e # c /\ id[e].pid = pid
          /\ out'[e] = Append(out[e], EventMsg("stopped", d))
          /\ \A f \in Conn : f # c /\ f # e => out'[f] = out[f]

CleanedUp(c, m, h, d) ==
  /\ Replied(c, m) /\ m.text # "SIGNALLED" /\ ToldOnly(rec[h].killer, c)
  /\ h \in Tracked /\ d \in Cgrp /\ rec[h].cgrp = d /\ inq[c] = <<CleanupReq(d)>>
  /\ Tracked' = Tracked \ {h} /\ rec' = [rec EXCEPT ![h] = NoApp]
  /\ Tasks(d) = {} /\ dirs' = dirs \ {d} /\ released' = released \ {d}
  /\ UNCHANGED <<cg>>

(* lnc_recv() writes the status on an empty connection.                    *)
LEMMA ReplyEffect ==
  ASSUME IInv, ConnInv, NEW c \in Range(clients), inq[c] # <<>>,
         NEW o \in [Conn -> Seq(Message)], o[c] = out[c], NEW m \in Message,
         m.type = "status", Reply(c, o, m), UNCHANGED <<alive, used, systemVars>>
  PROVE  Replied(c, m) /\ \A e \in Conn : e # c => out'[e] = o[e]
<1>1. c \in Conn
  BY RangeOfSeq DEF IInv, TypeOK, ClientsOK
<1>2. o[c] = <<>> /\ Tail(inq[c]) = <<>>
  BY <1>1, PendingFacts
<1>3. Append(o[c], m) = <<m>> /\ Append(o[c], m) \in Seq(Message)
  BY <1>2
<1>4. out' = [o EXCEPT ![c] = <<m>>] /\ out' \in [Conn -> Seq(Message)]
  BY <1>1, <1>3, SendType DEF Reply, TransportSend
<1>. QED BY <1>1, <1>2, <1>4 DEF Reply, Replied

(* A request of another type is no cleanup request.                        *)
LEMMA NotCleanup ==
  ASSUME NEW c, Head(inq[c]).type # "cleanup"
  PROVE  \A d : inq[c] # <<CleanupReq(d)>>
<1>1. \A d : Head(<<CleanupReq(d)>>).type = "cleanup"
  BY DEF CleanupReq
<1>. QED BY <1>1

(* The kinds of replies.                                                   *)
LEMMA ReplyKinds ==
  /\ OK.type = "status" /\ OK.text # "SIGNALLED" /\ OK \in Message
  /\ \A e \in Errno : /\ Error(e).type = "status" /\ Error(e).text # "SIGNALLED"
                      /\ Error(e) \in Message
  /\ \A d \in SUBSET App :
       LET m == StatusMsg("0", "OK", d)
       IN  m.type = "status" /\ m.text # "SIGNALLED" /\ m \in Message
  /\ LET m == StatusMsg("0", "SIGNALLED", {})
     IN  m.type = "status" /\ m.text = "SIGNALLED" /\ m \in Message
BY StatusTypes DEF OK, Error, StatusMsg

(* application_setup(): the cgroup it makes is not there yet, since it is  *)
(* named after a process that asks for the first time; it fails only when  *)
(* that process is gone.                                                   *)
LEMMA SetupEffect ==
  ASSUME IInv, SafetyInv, NEW c \in Range(clients), inq[c] # <<>>,
         NEW req \in Request, req = Head(inq[c]), req.type = "setup",
         ApplicationSetup(c, req), UNCHANGED systemVars
  PROVE  \E m : NothingDone(c, m) \/ \E h, app, d : SetUp(c, m, h, app, d)
<1> DEFINE d == SetupCgrp(c, req)
<1>1. c \in Conn /\ id[c] \in Identity
  BY RangeOfSeq DEF IInv, TypeOK, ClientsOK
<1>2. req.app \in App /\ req.uid \in Uid \cup {NoUid}
  BY DEF Request
<1>3. d \in Cgrp /\ d[3] = id[c].pid
  BY <1>1, <1>2, LauncherAssumption DEF SetupCgrp, Cgrp
<1> HIDE DEF d
<1>4. d \notin dirs
  BY <1>1, <1>3 DEF SafetyInv, CgroupInv, NamesUsed, Made
<1>5. \A a \in Tracked : inq[c] # <<CleanupReq(rec[a].cgrp)>>
  BY NotCleanup
<1>6. ASSUME Reply(c, out, Error("EINVAL")) /\ UNCHANGED <<apps, rec, timers, cgroupVars>>
      PROVE  NothingDone(c, Error("EINVAL"))
  BY <1>1, <1>6, <1>5, ReplyEffect, ReplyKinds, Shape
     DEF NothingDone, OthersQuiet, cgroupVars, SafetyInv, Errno
<1>7. ASSUME /\ CgroupMkdirFailed(d)
             /\ Reply(c, out, Error("EEXIST"))
             /\ UNCHANGED <<apps, rec, timers>>
      PROVE  NothingDone(c, Error("EEXIST"))
  <2>1. DirsAfterRmdir(d) = dirs
    BY <1>4 DEF DirsAfterRmdir
  <2>2. UNCHANGED cgroupVars
    BY <1>7, <2>1 DEF CgroupMkdirFailed, cgroupVars
  <2>. QED BY <1>1, <1>7, <1>5, <2>2, ReplyEffect, ReplyKinds, Shape
           DEF NothingDone, OthersQuiet, cgroupVars, SafetyInv, Errno
<1>8. ASSUME CgroupMkdirOk(d), CgroupMkdirDone(d), Reply(c, out, OK),
             NEW h \in FreeHandles, Track(h, req.app, d)
      PROVE  SetUp(c, OK, h, req.app, d)
  <2>1. h \in Handle /\ h \notin Tracked
    BY <1>8 DEF FreeHandles
  <2>2. Tracked' = Tracked \cup {h}
    BY <1>8, <2>1, AppendFacts DEF Track, Tracked, IInv, TypeOK, TrackingOK
  <2>3. Replied(c, OK) /\ OthersQuiet(c)
    BY <1>1, <1>8, ReplyEffect, ReplyKinds, Shape DEF OthersQuiet, CgroupMkdirDone, SafetyInv
  <2>. QED BY <1>2, <1>3, <1>4, <1>8, <2>1, <2>2, <2>3, ReplyKinds DEF SetUp, CgroupMkdirOk
<1>. QED BY <1>6, <1>7, <1>8 DEF ApplicationSetup, d

(* application_stop(): refused, or granted to the owner or root.           *)
LEMMA StopEffect ==
  ASSUME IInv, SafetyInv, NEW c \in Range(clients), inq[c] # <<>>,
         NEW req \in Request, req = Head(inq[c]), req.type = "stop",
         ApplicationStop(c, req), UNCHANGED systemVars
  PROVE  \E m : NothingDone(c, m) \/ \E h : StopGranted(c, m, h)
<1> DEFINE Match(a) == Stoppable(c, req.app, a)
           h == FirstThat(apps, Match)
           m == StatusMsg("0", "SIGNALLED", {})
<1>1. c \in Conn /\ UNCHANGED cgroupVars
  BY RangeOfSeq DEF IInv, TypeOK, ClientsOK, ApplicationStop
<1>2. \A a \in Tracked : inq[c] # <<CleanupReq(rec[a].cgrp)>>
  BY NotCleanup
<1>3. ASSUME NEW e \in Errno, Reply(c, out, Error(e)), UNCHANGED <<apps, rec, timers>>
      PROVE  NothingDone(c, Error(e))
  BY <1>1, <1>3, <1>2, ReplyEffect, ReplyKinds, Shape
     DEF NothingDone, OthersQuiet, cgroupVars, SafetyInv
<1>4. ASSUME \E a \in Tracked : Match(a), rec[h].killer = NoPid,
             ApplicationSigterm(h, id[c].pid), Reply(c, out, m)
      PROVE  StopGranted(c, m, h)
  <2>1. h \in Tracked /\ Match(h)
    BY <1>4, StopTarget DEF IInv, TypeOK, TrackingOK, FirstThat, SelectInSeq
  <2>2. id[c].uid \in {rec[h].uid, Root}
    BY <2>1 DEF Stoppable, Visible
  <2> HIDE DEF h
  <2>3. Replied(c, m) /\ OthersQuiet(c) /\ m.text = "SIGNALLED"
    BY <1>1, <1>4, ReplyEffect, ReplyKinds, Shape DEF OthersQuiet, cgroupVars, SafetyInv
  <2>4. /\ rec' = [rec EXCEPT ![h].killer = id[c].pid] /\ apps' = apps
    BY <1>4 DEF ApplicationSigterm
  <2>. QED BY <1>1, <1>4, <2>1, <2>2, <2>3, <2>4 DEF StopGranted, Tracked
<1>. QED BY <1>3, <1>4 DEF ApplicationStop, Errno

(* event_send() of the stopped event writes to one client that is the      *)
(* process asked for, if there is any.                                     *)
LEMMA StoppedEventTo ==
  ASSUME IInv, NEW pid, NEW d
  PROVE  \/ EventSend(out, pid, "stopped", d) = out
         \/ \E e \in Range(clients) :
              /\ id[e].pid = pid
              /\ EventSend(out, pid, "stopped", d)
                   = [out EXCEPT ![e] = Append(out[e], EventMsg("stopped", d))]
<1> DEFINE Match(c) == HasPid(c, pid)
           e == FirstThat(clients, Match)
<1>1. CASE ~ \E a \in Range(clients) : HasPid(a, pid)
  BY <1>1 DEF EventSend
<1>2. CASE \E a \in Range(clients) : HasPid(a, pid)
  <2> DEFINE I == {i \in 1 .. Len(clients) : HasPid(clients[i], pid)}
  <2>1. DOMAIN clients = 1 .. Len(clients) /\ Len(clients) \in Nat
    BY LenProperties DEF IInv, TypeOK, ClientsOK
  <2>2. I \in SUBSET Nat /\ I # {}
    BY <1>2, <2>1 DEF Range
  <2>3. Min(I) \in I
    <3>. HIDE DEF I
    <3>. QED BY <2>2, MinInSet
  <2>4. e \in Range(clients) /\ id[e].pid = pid
    BY <2>1, <2>2, <2>3 DEF FirstThat, SelectInSeq, HasPid, Range
  <2>5. EventSend(out, pid, "stopped", d) = TransportSend(out, e, EventMsg("stopped", d))
    BY <1>2 DEF EventSend
  <2> HIDE DEF e
  <2>. QED BY <2>4, <2>5 DEF TransportSend
<1>. QED BY <1>1, <1>2

(* application_cleanup(): the cgroup is empty and goes, the record too,    *)
(* and the killer is told if there is one.                                 *)
LEMMA CleanupEffect ==
  ASSUME IInv, SafetyInv, NEW c \in Range(clients), inq[c] # <<>>,
         NEW req \in Request, req = Head(inq[c]), req.type = "cleanup",
         ApplicationCleanup(c, req), UNCHANGED systemVars
  PROVE  \E m : NothingDone(c, m) \/ \E h, d : CleanedUp(c, m, h, d)
<1> DEFINE d == req.cgrp
           Match(a) == InCgrp(d, a)
           h == FirstThat(apps, Match)
<1>1. c \in Conn
  BY RangeOfSeq DEF IInv, TypeOK, ClientsOK
<1>2. d \in Cgrp /\ req = CleanupReq(d) /\ inq[c] = <<req>>
  <2>1. inq[c] = <<req>>
    BY <1>1, PendingFacts DEF SafetyInv
  <2>2. d \in Cgrp /\ req = CleanupReq(d)
    BY DEF Request, CleanupReq
  <2>. QED BY <2>1, <2>2
<1>3. ASSUME \A a \in Tracked : ~Match(a), Reply(c, out, OK),
             UNCHANGED <<apps, rec, timers, cgroupVars>>
      PROVE  NothingDone(c, OK)
  <2>1. \A e : CleanupReq(d) = CleanupReq(e) => d = e
    BY DEF CleanupReq
  <2>2. \A a \in Tracked : inq[c] # <<CleanupReq(rec[a].cgrp)>>
    BY <1>2, <1>3, <2>1 DEF InCgrp
  <2>. QED BY <1>1, <1>3, <2>2, ReplyEffect, ReplyKinds, Shape
           DEF NothingDone, OthersQuiet, cgroupVars, SafetyInv
<1>4. ASSUME \E a \in Tracked : Match(a), Untrack(h),
             Reply(c, SendStoppedEvent(h), OK), CgroupRmdir(d)
      PROVE  CleanedUp(c, OK, h, d)
  <2>1. h \in Tracked /\ rec[h].cgrp = d
    BY <1>4, CleanupTarget DEF IInv, TypeOK, TrackingOK, Tracked, FirstThat, SelectInSeq, InCgrp
  <2> HIDE DEF h
  <2>2. rec[h] \in AppRec /\ h \in Handle
    BY <2>1, Shape
  <2>3. Tracked' = Tracked \ {h} /\ rec' = [rec EXCEPT ![h] = NoApp]
    BY <1>4, <2>1, RemoveFirstFacts DEF Untrack, IInv, TypeOK, TrackingOK, Tracked
  <2>4. Tasks(d) = {}
    BY <1>1, <1>2 DEF SafetyInv, CgroupInv, EmptyStays, CleanupUnderway
  <2>5. dirs' = dirs \ {d} /\ released' = released \ {d} /\ UNCHANGED <<alive, used, cg>>
    BY <1>4, <2>4, Shape DEF CgroupRmdir, DirsAfterRmdir
  <2> DEFINE o == SendStoppedEvent(h)
             k == rec[h].killer
  <2>6. o \in [Conn -> Seq(Message)]
    BY <2>2, Shape, EventSendType DEF SendStoppedEvent, AppRec, IInv, TypeOK, ClientsOK
  <2>7. \/ o = out
        \/ \E e \in Range(clients) :
             /\ id[e].pid = k
             /\ o = [out EXCEPT ![e] = Append(out[e], EventMsg("stopped", {rec[h].app}))]
    BY StoppedEventTo DEF SendStoppedEvent
  <2>8. \A e \in Range(clients) :
          id[e].pid = k => e \in Conn /\ e # c /\ k # NoPid
    <3>1. \A e \in Range(clients) : e \in Conn /\ e \in Live /\ id[e] \in Identity
      BY Shape DEF Live, IInv, TypeOK, ClientsOK
    <3>2. \A e \in Range(clients) : id[e].pid # NoPid
      BY <3>1, LauncherAssumption
    <3>3. \A e \in Range(clients) : id[e].pid = k => inq[e] = <<>>
      BY <3>1, <3>2, <2>1 DEF SafetyInv, KillInv, KillersTold
    <3>. QED BY <3>1, <3>2, <3>3
  <2> HIDE DEF o, k
  <2>9. o[c] = out[c]
    BY <1>1, <2>7, <2>8, Shape
  <2>10. Replied(c, OK) /\ \A e \in Conn : e # c => out'[e] = o[e]
    BY <1>1, <1>4, <2>5, <2>6, <2>9, ReplyEffect, ReplyKinds DEF SafetyInv, o
  <2>11. ToldOnly(k, c)
    <3>1. CASE o = out
      BY <2>10, <3>1 DEF ToldOnly, OthersQuiet
    <3>2. ASSUME NEW e \in Range(clients), id[e].pid = k,
                 o = [out EXCEPT ![e] = Append(out[e], EventMsg("stopped", {rec[h].app}))]
          PROVE  ToldOnly(k, c)
      <4>1. e \in Conn /\ e # c /\ k # NoPid
        BY <2>8, <3>2
      <4>2. o[e] = Append(out[e], EventMsg("stopped", {rec[h].app}))
            /\ \A f \in Conn : f # e => o[f] = out[f]
        BY <3>2, <4>1, Shape
      <4>3. out'[e] = Append(out[e], EventMsg("stopped", {rec[h].app}))
            /\ \A f \in Conn : f # c /\ f # e => out'[f] = out[f]
        BY <2>10, <4>1, <4>2
      <4>. QED BY <3>2, <4>1, <4>3, Zenon DEF ToldOnly
    <3>. QED BY <2>7, <3>1, <3>2
  <2>. QED BY <1>2, <2>1, <2>3, <2>4, <2>5, <2>10, <2>11, ReplyKinds DEF CleanedUp, k
<1>. QED BY <1>3, <1>4 DEF ApplicationCleanup

(* list_running() only replies.                                            *)
LEMMA ListEffect ==
  ASSUME IInv, SafetyInv, NEW c \in Range(clients), inq[c] # <<>>,
         Head(inq[c]).type = "list", ListRunning(c), UNCHANGED systemVars
  PROVE  \E m : NothingDone(c, m)
<1> DEFINE d == {rec[h].app : h \in {a \in Tracked : Visible(c, a)}}
           m == StatusMsg("0", "OK", d)
<1>1. d \in SUBSET App
  BY Shape DEF AppRec
<1>2. Reply(c, out, m) /\ UNCHANGED <<apps, rec, timers, cgroupVars>>
  BY DEF ListRunning
<1> HIDE DEF d
<1>3. m \in Message /\ m.type = "status" /\ m.text # "SIGNALLED"
  BY <1>1, ReplyKinds
<1> HIDE DEF m
<1>4. NothingDone(c, m)
  BY <1>2, <1>3, ReplyEffect, NotCleanup, Shape DEF NothingDone, OthersQuiet, cgroupVars, SafetyInv
<1>. QED BY <1>4

(* lnc_recv() has one of these outcomes.                                   *)
LEMMA ServeEffect ==
  ASSUME IInv, SafetyInv, NEW c \in Conn, Serve(c)
  PROVE  \E m : \/ NothingDone(c, m)
                \/ \E h, app, d : SetUp(c, m, h, app, d)
                \/ \E h : StopGranted(c, m, h)
                \/ \E h, d : CleanedUp(c, m, h, d)
<1>1. c \in Range(clients) /\ inq[c] # <<>> /\ Head(inq[c]) \in Request
  BY PendingFacts DEF Serve, LncRecv, SafetyInv
<1>. QED BY <1>1, SetupEffect, StopEffect, CleanupEffect, ListEffect DEF Serve, LncRecv

(* Every outcome is a reply, and nobody else's connection changes but by   *)
(* an event to one without a pending request.                              *)
LEMMA OutcomeFacts ==
  ASSUME IInv, SafetyInv, NEW c \in Conn, NEW m,
         \/ NothingDone(c, m)
         \/ \E h, app, d : SetUp(c, m, h, app, d)
         \/ \E h : StopGranted(c, m, h)
         \/ \E h, d : CleanedUp(c, m, h, d)
  PROVE  /\ Replied(c, m)
         /\ \A e \in Conn : e # c =>
              \/ out'[e] = out[e]
              \/ /\ inq[e] = <<>>
                 /\ \E d : out'[e] = Append(out[e], EventMsg("stopped", d))
         /\ \A p \in alive : cg'[p] = cg[p]
                            \/ (p = id[c].pid /\ Head(inq[c]).type = "setup")
<1>1. ASSUME NothingDone(c, m)
      PROVE  Replied(c, m) /\ OthersQuiet(c) /\ cg' = cg
  BY <1>1 DEF NothingDone, cgroupVars
<1>2. ASSUME NEW h, NEW app, NEW d, SetUp(c, m, h, app, d)
      PROVE  /\ Replied(c, m) /\ OthersQuiet(c)
             /\ \A p \in alive : cg'[p] = cg[p]
                            \/ (p = id[c].pid /\ Head(inq[c]).type = "setup")
  BY <1>2, Shape DEF SetUp, CgroupMkdirDone
<1>3. ASSUME NEW h, StopGranted(c, m, h)
      PROVE  Replied(c, m) /\ OthersQuiet(c) /\ cg' = cg
  BY <1>3 DEF StopGranted, cgroupVars
<1>4. ASSUME NEW h, NEW d, CleanedUp(c, m, h, d)
      PROVE  /\ Replied(c, m) /\ cg' = cg
             /\ \A e \in Conn : e # c =>
                  \/ out'[e] = out[e]
                  \/ /\ inq[e] = <<>>
                     /\ \E x : out'[e] = Append(out[e], EventMsg("stopped", x))
  <2>1. \A e \in Range(clients) : id[e].pid = rec[h].killer /\ rec[h].killer # NoPid
          => inq[e] = <<>>
    BY <1>4 DEF CleanedUp, SafetyInv, KillInv, KillersTold, Live
  <2>. QED BY <1>4, <2>1 DEF CleanedUp, ToldOnly, OthersQuiet
<1>5. Replied(c, m)
  BY <1>1, <1>2, <1>3, <1>4
<1>6. \A e \in Conn : e # c =>
        \/ out'[e] = out[e]
        \/ /\ inq[e] = <<>>
           /\ \E d : out'[e] = Append(out[e], EventMsg("stopped", d))
  BY <1>1, <1>2, <1>3, <1>4, Zenon DEF OthersQuiet
<1>7. \A p \in alive : cg'[p] = cg[p]
                            \/ (p = id[c].pid /\ Head(inq[c]).type = "setup")
  BY <1>1, <1>2, <1>3, <1>4, Zenon
<1>. QED BY <1>5, <1>6, <1>7

(* An event changes nothing about who was answered.                        *)
LEMMA EventNoAnswer ==
  ASSUME NEW s \in Seq(Message), NEW d
  PROVE  LET t == Append(s, EventMsg("stopped", d))
         IN  (\E i \in DOMAIN s : s[i].type = "status")
               <=> (\E i \in DOMAIN t : t[i].type = "status")
<1> DEFINE m == EventMsg("stopped", d)
           t == Append(s, m)
<1>1. m.type = "event"
  BY DEF EventMsg
<1> HIDE DEF m
<1>2. /\ Len(t) = Len(s) + 1 /\ Len(s) \in Nat /\ DOMAIN s = 1 .. Len(s)
      /\ DOMAIN t = 1 .. Len(s) + 1
      /\ \A i \in 1 .. Len(s) : t[i] = s[i]
      /\ t[Len(s) + 1] = m
  BY LenProperties
<1> HIDE DEF t
<1>. QED BY <1>1, <1>2 DEF t, m

(* lnc_recv().                                                             *)
LEMMA ConnServe ==
  ASSUME IInv, SafetyInv, NEW c \in Conn, Serve(c)
  PROVE  ConnInv'
<1>1. PICK m : \/ NothingDone(c, m)
               \/ \E h, app, d : SetUp(c, m, h, app, d)
               \/ \E h : StopGranted(c, m, h)
               \/ \E h, d : CleanedUp(c, m, h, d)
  BY ServeEffect
<1>2. /\ Replied(c, m)
      /\ \A e \in Conn : e # c =>
           \/ out'[e] = out[e]
           \/ /\ inq[e] = <<>>
              /\ \E d : out'[e] = Append(out[e], EventMsg("stopped", d))
      /\ \A p \in alive : cg'[p] = cg[p]
                            \/ (p = id[c].pid /\ Head(inq[c]).type = "setup")
  BY <1>1, OutcomeFacts
<1>3. /\ UNCHANGED <<clients, id, alive, used, st, conn, backlog>> /\ Live' = Live
      /\ inq[c] # <<>> /\ inq'[c] = <<>> /\ out'[c] = <<m>> /\ m.type = "status"
      /\ \A e \in Conn : e # c => inq'[e] = inq[e]
  BY <1>2, Shape DEF Replied, systemVars, Live
<1>4. ASSUME NEW p \in alive, cg'[p] # cg[p]
      PROVE  conn[p] = c /\ st[p] = "setup"
  <2>1. p = id[c].pid /\ Head(inq[c]).type = "setup" /\ c \in Live
    BY <1>2, <1>3, <1>4 DEF SafetyInv, ConnInv, RequestAlone
  <2>2. conn[p] = c
    BY <2>1 DEF SafetyInv, ConnInv, PeersHold
  <2>3. st[p] = Mode(Head(inq[c]))
    BY <1>3, <2>2 DEF SafetyInv, ConnInv, RequestAlone, Holders
  <2>. QED BY <2>1, <2>2, <2>3 DEF Mode
<1>5. PeersKnown' /\ PeersHold'
  BY <1>3 DEF PeersKnown, PeersHold, SafetyInv, ConnInv
<1>6. SharedByHeirs'
  BY <1>3, <1>4 DEF SharedByHeirs, SafetyInv, ConnInv, Heirs
<1>7. RequestAlone'
  <2> SUFFICES ASSUME NEW e \in Conn, inq'[e] # <<>>
               PROVE  /\ e \in Live' /\ Len(inq'[e]) = 1 /\ out'[e] = <<>>
                      /\ \A q \in Holders(e)' :
                           q = id'[e].pid /\ st'[q] = Mode(Head(inq'[e])) /\ cg'[q] = NoCgrp
    BY DEF RequestAlone, Mode
  <2>1. e # c /\ inq'[e] = inq[e] /\ inq[e] # <<>>
    BY <1>3
  <2>2. out'[e] = out[e]
    BY <1>2, <2>1
  <2>3. Holders(e)' = Holders(e) /\ \A q \in Holders(e) : q \in alive /\ cg'[q] = cg[q]
    BY <1>3, <1>4, <2>1 DEF Holders
  <2>. QED BY <1>3, <2>1, <2>2, <2>3 DEF SafetyInv, ConnInv, RequestAlone
<1>8. RequestOrReply'
  <2> SUFFICES ASSUME NEW r \in alive', st'[r] \in Waiting \ {"signalled"},
                      conn'[r] \in Live'
               PROVE  (inq'[conn'[r]] # <<>>) # Answered(conn[r])'
    BY DEF RequestOrReply, Live, Answered
  <2>1. r \in alive /\ st[r] \in Waiting \ {"signalled"} /\ conn[r] \in Live /\ conn'[r] = conn[r]
        /\ conn[r] \in Conn
    BY <1>3, Shape
  <2>2. (inq[conn[r]] # <<>>) # Answered(conn[r])
    BY <2>1 DEF SafetyInv, ConnInv, RequestOrReply, Live, Answered
  <2>3. CASE conn[r] = c
    <3>1. Answered(conn[r])'
      <4>1. 1 \in DOMAIN <<m>> /\ <<m>>[1] = m
        OBVIOUS
      <4>. QED BY <1>3, <2>1, <2>3, <4>1 DEF Answered
    <3>. QED BY <1>3, <2>1, <2>3, <3>1 DEF Answered
  <2>4. CASE conn[r] # c
    <3>1. inq'[conn[r]] = inq[conn[r]] /\ out[conn[r]] \in Seq(Message)
      BY <1>3, <2>1, <2>4, Shape
    <3>2. Answered(conn[r]) <=> Answered(conn[r])'
      <4>1. CASE out'[conn[r]] = out[conn[r]]
        BY <4>1, <2>1 DEF Answered
      <4>2. ASSUME NEW d, out'[conn[r]] = Append(out[conn[r]], EventMsg("stopped", d))
            PROVE  Answered(conn[r]) <=> Answered(conn[r])'
        <5> DEFINE s == out[conn[r]]
                   t == Append(s, EventMsg("stopped", d))
        <5>1. (\E i \in DOMAIN s : s[i].type = "status")
                <=> (\E i \in DOMAIN t : t[i].type = "status")
          BY <3>1, EventNoAnswer
        <5>2. out'[conn'[r]] = t
          BY <4>2, <2>1
        <5> HIDE DEF t
        <5>. QED BY <5>1, <5>2, <2>1 DEF Answered
      <4>. QED BY <4>1, <4>2, <1>2, <2>1, <2>4
    <3>. QED BY <2>1, <2>2, <3>1, <3>2 DEF Answered
  <2>. QED BY <2>3, <2>4
<1>. QED BY <1>5, <1>6, <1>7, <1>8 DEF ConnInv

-----------------------------------------------------------------------------
(* The layer of the killers, one action at a time.                         *)

NoEvents(e) == \A i \in DOMAIN out[e] : out[e][i].type # "event"

(* No event is on its way to a process that asked for no stop.             *)
LEMMA NobodyElseTold ==
  ASSUME IInv, SafetyInv, NEW p \in alive, conn[p] # NoConn,
         st[p] \notin {"stop", "signalled"}
  PROVE  NoEvents(conn[p])
BY DEF SafetyInv, KillInv, StoppedAfterSignalled, NoEvents

(* Reading shifts what is left on a connection.                            *)
LEMMA TailShift ==
  ASSUME NEW s \in Seq(Message), s # <<>>
  PROVE  \A i \in DOMAIN Tail(s) : i + 1 \in DOMAIN s /\ Tail(s)[i] = s[i + 1]
<1>1. /\ Len(Tail(s)) = Len(s) - 1 /\ Len(s) \in Nat /\ Len(s) # 0
      /\ \A i \in 1 .. Len(s) - 1 : Tail(s)[i] = s[i + 1]
  BY HeadTailProperties, LenProperties, EmptySeq
<1>2. DOMAIN s = 1 .. Len(s) /\ DOMAIN Tail(s) = 1 .. Len(s) - 1
  BY <1>1, HeadTailProperties, LenProperties
<1>. QED BY <1>1, <1>2

(* Reading brings no events.                                               *)
LEMMA ReadNoEvents ==
  ASSUME IInv, NEW p \in alive, ReadBy(p), NEW e \in Conn, NoEvents(e)
  PROVE  NoEvents(e)'
<1>1. CASE out'[e] = out[e]
  BY <1>1 DEF NoEvents
<1>2. CASE out[e] # <<>> /\ out'[e] = Tail(out[e])
  BY <1>2, TailShift, Shape DEF NoEvents
<1>. QED BY <1>1, <1>2 DEF ReadBy

(* Killers stay told when no more applications are being stopped, a new    *)
(* connection is that of a new process, and nobody new comes to hold a     *)
(* killer's connection.                                                    *)
LEMMA KillersStayTold ==
  ASSUME IInv, SafetyInv, Tracked' \subseteq Tracked, used \subseteq used',
         \A h \in Tracked' : rec'[h].killer # NoPid => rec'[h].killer = rec[h].killer,
         \A c \in Live' : id'[c].pid \in used =>
           /\ c \in Live /\ id'[c].pid = id[c].pid
           /\ c \in backlog' => c \in backlog
           /\ inq[c] = <<>> => inq'[c] = <<>>,
         \A c \in Live' : \A p \in Holders(c)' :
           /\ id'[c].pid \in used /\ inq[c] = <<>>
           /\ \A q \in Holders(c) : q = id[c].pid /\ ToldSignalled(q)
           => p \in Holders(c) /\ ToldSignalled(p)'
  PROVE  KillersTold'
<1> SUFFICES ASSUME NEW h \in Tracked', rec'[h].killer # NoPid
             PROVE  /\ rec'[h].killer \in used'
                    /\ \A c \in Live' : id'[c].pid = rec'[h].killer =>
                         /\ c \notin backlog' /\ inq'[c] = <<>>
                         /\ \A p \in Holders(c)' : p = rec'[h].killer /\ ToldSignalled(p)'
  BY DEF KillersTold
<1>1. h \in Tracked /\ rec'[h].killer = rec[h].killer /\ rec[h].killer \in used
  BY DEF SafetyInv, KillInv, KillersTold
<1>2. ASSUME NEW c \in Live', id'[c].pid = rec'[h].killer
      PROVE  /\ c \notin backlog' /\ inq'[c] = <<>>
             /\ \A p \in Holders(c)' : p = rec'[h].killer /\ ToldSignalled(p)'
  <2>1. c \in Live /\ id[c].pid = rec[h].killer
    BY <1>1, <1>2
  <2>2. /\ c \notin backlog /\ inq[c] = <<>>
        /\ \A p \in Holders(c) : p = rec[h].killer /\ ToldSignalled(p)
    BY <1>1, <2>1 DEF SafetyInv, KillInv, KillersTold
  <2>. QED BY <1>1, <1>2, <2>1, <2>2
<1>. QED BY <1>1, <1>2

(* The order of what a process reads is kept where what it reads and what  *)
(* it does stay the same, it knows by now, or no event is on its way.      *)
ToldInOrder(p) ==
  conn[p] # NoConn =>
    \A i \in DOMAIN out[conn[p]] :
      out[conn[p]][i].type = "event" =>
        \/ st[p] = "signalled"
        \/ /\ st[p] = "stop"
           /\ \E j \in 1 .. i - 1 : out[conn[p]][j].type = "status"
                                  /\ out[conn[p]][j].text = "SIGNALLED"

(* The stopped event stays behind its reply if each process keeps its      *)
(* messages, has been signalled, or has no event to read.                  *)
LEMMA OrderKept ==
  ASSUME IInv, SafetyInv,
         \A p \in alive' :
           \/ /\ p \in alive /\ conn'[p] = conn[p] /\ st'[p] = st[p]
              /\ conn[p] # NoConn => out'[conn[p]] = out[conn[p]]
           \/ st'[p] = "signalled"
           \/ conn'[p] = NoConn
           \/ NoEvents(conn[p])'
  PROVE  StoppedAfterSignalled'
<1>1. \A p \in alive : ToldInOrder(p)
  BY DEF SafetyInv, KillInv, StoppedAfterSignalled, ToldInOrder
<1>2. ASSUME NEW p \in alive' PROVE ToldInOrder(p)'
  <2>1. CASE /\ p \in alive /\ conn'[p] = conn[p] /\ st'[p] = st[p]
             /\ conn[p] # NoConn => out'[conn[p]] = out[conn[p]]
    BY <1>1, <2>1 DEF ToldInOrder
  <2>2. CASE st'[p] = "signalled" \/ conn'[p] = NoConn
    BY <2>2 DEF ToldInOrder
  <2>3. CASE NoEvents(conn[p])'
    BY <2>3 DEF ToldInOrder, NoEvents
  <2>. QED BY <2>1, <2>2, <2>3 DEF NoEvents
<1>. QED BY <1>2 DEF StoppedAfterSignalled, ToldInOrder

(* Killers stay who they were when only new processes connect.             *)
LEMMA OwnersKept ==
  ASSUME IInv, SafetyInv, Tracked' = Tracked, rec' = rec,
         \A c \in Conn : id'[c] # NoIdentity =>
           id'[c] = id[c] \/ (id'[c].pid \in Pid /\ id'[c].pid \notin used)
  PROVE  StopByOwner'
<1>1. \A h \in Tracked : rec[h].killer \in used \/ rec[h].killer \notin Pid
  BY LauncherAssumption DEF SafetyInv, KillInv, KillersTold
<1>. QED BY <1>1 DEF StopByOwner, SafetyInv, KillInv

(* A new iot-launch is nobody's killer: its process id is new.             *)
LEMMA KillStart ==
  ASSUME IInv, SafetyInv, NEW p \in Pid, NEW mode, NEW uid, NEW req,
         Start(p, mode, uid, req)
  PROVE  KillInv'
<1>1. PICK c : Connected(p, mode, uid, req, c)
  BY StartEffect DEF SafetyInv
<1> USE DEF Connected
<1> DEFINE who == [uid |-> uid, pid |-> p]
<1>2. who.pid = p
  OBVIOUS
<1>3. id'[c] = who /\ \A e \in Conn : e # c => id'[e] = id[e]
  BY <1>1, Shape
<1> HIDE DEF who
<1>4. /\ conn'[p] = c /\ inq'[c] = <<req>> /\ out'[c] = <<>>
      /\ \A q \in Pid : q # p => st'[q] = st[q] /\ conn'[q] = conn[q]
      /\ \A e \in Conn : e # c => inq'[e] = inq[e] /\ out'[e] = out[e]
  BY <1>1, Shape
<1>5. \A q \in alive : conn[q] # c /\ q # p /\ q \in Pid
  BY <1>1, Shape DEF Holders
<1>6. Tracked' = Tracked /\ rec' = rec
  BY <1>1 DEF Tracked
<1>7. KillersTold'
  <2>1. \A e \in Live' : id'[e].pid \in used => e # c /\ e \in Live /\ e \in Conn
                                                /\ id'[e] = id[e] /\ inq'[e] = inq[e]
    BY <1>1, <1>2, <1>3, <1>4, Shape
  <2>2. \A e \in Live : e # c => \A q \in Holders(e)' :
           /\ q \in Holders(e)
           /\ ToldSignalled(q) => ToldSignalled(q)'
    BY <1>1, <1>4, <1>5, Shape DEF Holders, ToldSignalled
  <2>3. \A e \in Live' : \A q \in Holders(e)' :
           /\ id'[e].pid \in used /\ inq[e] = <<>>
           /\ \A r \in Holders(e) : r = id[e].pid /\ ToldSignalled(r)
           => q \in Holders(e) /\ ToldSignalled(q)'
    BY <2>1, <2>2
  <2>4. \A e \in Live' : id'[e].pid \in used =>
           /\ e \in Live /\ id'[e].pid = id[e].pid
           /\ e \in backlog' => e \in backlog
           /\ inq[e] = <<>> => inq'[e] = <<>>
    BY <1>1, <2>1
  <2>. QED BY <1>1, <1>6, <2>3, <2>4, KillersStayTold
<1>8. StopByOwner'
  BY <1>1, <1>2, <1>3, <1>6, OwnersKept
<1>9. StoppedAfterSignalled'
  <2>1. NoEvents(c)'
    BY <1>4 DEF NoEvents
  <2>2. \A q \in alive : conn[q] # NoConn => conn[q] \in Conn /\ out'[conn[q]] = out[conn[q]]
    BY <1>4, <1>5, Shape
  <2>. QED BY <1>1, <1>4, <1>5, <2>1, <2>2, OrderKept
<1>. QED BY <1>7, <1>8, <1>9 DEF KillInv

(* A process ends: if a killer's connection loses a holder it is the       *)
(* killer itself.                                                          *)
LEMMA KillExit ==
  ASSUME IInv, SafetyInv, NEW p \in alive, Exit(p), ReadBy(p)
  PROVE  KillInv'
<1>1. /\ alive' = alive \ {p} /\ used' = used /\ Live' = Live /\ Tracked' = Tracked
      /\ UNCHANGED <<clients, id, inq, rec, backlog>>
  BY DEF Exit, KernelExit, Live, Tracked, launcherVars
<1>2. \A q \in alive' : q \in alive /\ q # p /\ st'[q] = st[q] /\ conn'[q] = conn[q]
  BY <1>1, Shape DEF Exit, KernelExit
<1>3. \A e \in Conn : e # conn[p] => out'[e] = out[e]
  BY DEF ReadBy
<1>4. KillersTold'
  <2>1. ASSUME NEW c \in Live', NEW q \in Holders(c)',
               \A r \in Holders(c) : r = id[c].pid /\ ToldSignalled(r)
        PROVE  q \in Holders(c) /\ ToldSignalled(q)'
    <3>1. q \in Holders(c) /\ conn[q] = c /\ c \in Conn
      BY <1>1, <1>2, Shape DEF Holders
    <3>2. conn[p] # c
      BY <1>2, <2>1, <3>1 DEF Holders
    <3>. QED BY <1>2, <1>3, <2>1, <3>1, <3>2 DEF ToldSignalled, Holders
  <2>. QED BY <1>1, <2>1, KillersStayTold
<1>5. StopByOwner'
  BY <1>1, OwnersKept
<1>6. StoppedAfterSignalled'
  <2>1. ASSUME NEW q \in alive', conn[q] # NoConn, out'[conn[q]] # out[conn[q]]
        PROVE  NoEvents(conn[q])'
    <3>1. conn[q] = conn[p] /\ conn[q] \in Conn /\ q \in alive /\ q # p
      BY <1>2, <1>3, <2>1, Shape
    <3>2. st[q] \in Heirs
      BY <2>1, <3>1 DEF SafetyInv, ConnInv, SharedByHeirs
    <3>3. NoEvents(conn[q])
      BY <2>1, <3>1, <3>2, NobodyElseTold DEF Heirs
    <3>4. PICK e \in Conn : e = conn[q]
      BY <3>1
    <3>5. NoEvents(e)'
      BY <3>3, <3>4, ReadNoEvents
    <3>. QED BY <1>2, <3>4, <3>5 DEF NoEvents
  <2>. QED BY <1>2, <2>1, OrderKept
<1>. QED BY <1>4, <1>5, <1>6 DEF KillInv

(* A child is born: its parent is no killer, since a killer was never set  *)
(* up.                                                                     *)
LEMMA KillFork ==
  ASSUME IInv, SafetyInv, NEW p \in alive, NEW q \in Pid, ForkChild(p, q), ReadBy(p),
         \/ st[p] = "app" /\ st' = [st EXCEPT ![q] = "app"]
         \/ st[p] = "setup" /\ st' = [st EXCEPT ![q] = "app", ![p] = "exiting"]
  PROVE  KillInv'
<1>1. /\ q \notin used /\ alive' = alive \cup {q} /\ used' = used \cup {q} /\ Live' = Live
      /\ Tracked' = Tracked /\ UNCHANGED <<clients, id, inq, rec, backlog>>
  BY DEF ForkChild, KernelSpawn, FreshPids, Live, Tracked, launcherVars
<1>2. q \notin alive /\ q # p /\ \A r \in alive : r # q /\ r \in Pid
  BY <1>1, Shape
<1>3. /\ conn'[q] = conn[p] /\ st'[q] = "app"
      /\ \A r \in alive : conn'[r] = conn[r] /\ (r # p => st'[r] = st[r])
      /\ st[p] \in {"app", "setup"}
  BY <1>2, Shape DEF ForkChild
<1>4. conn[p] # NoConn => NoEvents(conn[p])
  BY <1>3, NobodyElseTold
<1>5. \A e \in Conn : e # conn[p] => out'[e] = out[e]
  BY DEF ReadBy
<1>6. KillersTold'
  <2>1. ASSUME NEW c \in Live', NEW r \in Holders(c)',
               \A s \in Holders(c) : s = id[c].pid /\ ToldSignalled(s)
        PROVE  r \in Holders(c) /\ ToldSignalled(r)'
    <3>1. c \in Conn /\ conn[p] # c
      BY <1>1, <1>3, <2>1, Shape DEF Holders, ToldSignalled
    <3>2. r \in Holders(c) /\ conn[r] = c /\ r # p /\ r \in alive
      BY <1>1, <1>3, <2>1, <3>1 DEF Holders
    <3>. QED BY <1>3, <1>5, <2>1, <3>1, <3>2 DEF ToldSignalled
  <2>. QED BY <1>1, <2>1, KillersStayTold
<1>7. StopByOwner'
  BY <1>1, OwnersKept
<1>8. StoppedAfterSignalled'
  <2>1. ASSUME NEW r \in alive', conn'[r] # NoConn, conn'[r] = conn[p]
        PROVE  NoEvents(conn[r])'
    <3>1. PICK e \in Conn : e = conn[p]
      BY <1>1, <2>1, Shape
    <3>2. NoEvents(e)'
      BY <1>4, <2>1, <3>1, ReadNoEvents
    <3>. QED BY <2>1, <3>1, <3>2 DEF NoEvents
  <2>2. ASSUME NEW r \in alive', conn'[r] # NoConn, conn'[r] # conn[p]
        PROVE  r \in alive /\ conn'[r] = conn[r] /\ st'[r] = st[r] /\ out'[conn[r]] = out[conn[r]]
    BY <1>1, <1>2, <1>3, <1>5, <2>2, Shape
  <2>. QED BY <2>1, <2>2, OrderKept
<1>. QED BY <1>6, <1>7, <1>8 DEF KillInv

(* A process reads a message and goes on: a killer reads that its stop was *)
(* signalled.                                                              *)
LEMMA KillRead ==
  ASSUME IInv, SafetyInv, NEW p \in alive, ReadBy(p), conn[p] # NoConn,
         UNCHANGED <<clients, id, cgroupVars, launcherVars, conn, backlog>>,
         \/ st[p] = "setup" /\ st' = [st EXCEPT ![p] = "app"]
         \/ st[p] = "stop" /\ st' = [st EXCEPT ![p] = "signalled"]
         \/ st' = st /\ st[p] \notin {"stop", "signalled"}
  PROVE  KillInv'
<1>1. /\ Live' = Live /\ Tracked' = Tracked
      /\ UNCHANGED <<clients, id, alive, used, inq, rec, conn, backlog>>
  BY DEF Live, Tracked, cgroupVars, launcherVars
<1>2. /\ \A q \in alive : q # p => st'[q] = st[q]
      /\ st'[p] = "signalled" \/ st[p] \notin {"stop", "signalled"}
  BY Shape
<1>3. conn[p] \in Conn /\ \A e \in Conn : e # conn[p] => out'[e] = out[e]
  BY Shape DEF ReadBy
<1>4. KillersTold'
  <2>1. ASSUME NEW c \in Live', NEW r \in Holders(c)',
               \A s \in Holders(c) : s = id[c].pid /\ ToldSignalled(s)
        PROVE  r \in Holders(c) /\ ToldSignalled(r)'
    <3>1. c \in Conn /\ r \in Holders(c) /\ conn[r] = c /\ r \in alive /\ ToldSignalled(r)
      BY <1>1, <2>1, Shape DEF Holders
    <3>2. CASE r = p
      BY <1>2, <3>1, <3>2 DEF ToldSignalled
    <3>3. CASE r # p
      <4>1. conn[p] # c
        BY <2>1, <3>1, <3>3 DEF Holders
      <4>. QED BY <1>1, <1>2, <1>3, <3>1, <3>3, <4>1 DEF ToldSignalled
    <3>. QED BY <3>1, <3>2, <3>3
  <2>. QED BY <1>1, <2>1, KillersStayTold
<1>5. StopByOwner'
  BY <1>1, OwnersKept
<1>6. StoppedAfterSignalled'
  <2>1. ASSUME NEW r \in alive, conn[r] = conn[p], st'[r] # "signalled"
        PROVE  NoEvents(conn[r])'
    <3>1. PICK e \in Conn : e = conn[p]
      BY <1>3
    <3>2. NoEvents(e)
      <4>1. CASE st[p] \notin {"stop", "signalled"}
        BY <3>1, <4>1, NobodyElseTold
      <4>2. CASE r # p
        <5>1. st[r] \in Heirs
          BY <2>1, <4>2 DEF SafetyInv, ConnInv, SharedByHeirs
        <5>. QED BY <2>1, <3>1, <5>1, NobodyElseTold DEF Heirs
      <4>. QED BY <1>2, <2>1, <4>1, <4>2
    <3>3. NoEvents(e)'
      BY <3>2, ReadNoEvents
    <3>. QED BY <1>1, <2>1, <3>1, <3>3 DEF NoEvents
  <2>2. ASSUME NEW r \in alive, conn[r] # NoConn, conn[r] # conn[p]
        PROVE  st'[r] = st[r] /\ out'[conn[r]] = out[conn[r]]
    BY <1>2, <1>3, <2>2, Shape
  <2>. QED BY <1>1, <2>1, <2>2, OrderKept
<1>. QED BY <1>4, <1>5, <1>6 DEF KillInv

(* A process gives up a connection that is gone.                           *)
LEMMA KillLost ==
  ASSUME IInv, SafetyInv, NEW p \in Pid, LostConnection(p)
  PROVE  KillInv'
<1>1. /\ p \in alive /\ conn[p] \notin Live /\ Live' = Live /\ Tracked' = Tracked
      /\ UNCHANGED <<clients, id, out, alive, used, inq, rec, backlog>>
  BY DEF LostConnection, clientVars, cgroupVars, launcherVars, Live, Tracked
<1>2. /\ conn'[p] = NoConn
      /\ \A q \in alive : q # p => st'[q] = st[q] /\ conn'[q] = conn[q]
  BY Shape DEF LostConnection
<1>3. KillersTold'
  <2>1. ASSUME NEW c \in Live', NEW r \in Holders(c)',
               \A s \in Holders(c) : s = id[c].pid /\ ToldSignalled(s)
        PROVE  r \in Holders(c) /\ ToldSignalled(r)'
    <3>1. r # p /\ r \in Holders(c) /\ conn[r] = c /\ conn'[r] = c /\ st'[r] = st[r]
      BY <1>1, <1>2, <2>1, Shape DEF Holders
    <3>2. ToldSignalled(r)
      BY <2>1, <3>1
    <3>. QED BY <1>1, <3>1, <3>2 DEF ToldSignalled
  <2>. QED BY <1>1, <2>1, KillersStayTold
<1>4. StopByOwner'
  BY <1>1, OwnersKept
<1>5. StoppedAfterSignalled'
  <2>1. \A q \in alive' : q \in alive /\ (q = p \/ (st'[q] = st[q] /\ conn'[q] = conn[q]))
    BY <1>1, <1>2
  <2>. QED BY <1>1, <1>2, <2>1, OrderKept
<1>. QED BY <1>3, <1>4, <1>5 DEF KillInv

(* A connection is dropped by the daemon.                                  *)
LEMMA KillDrop ==
  ASSUME IInv, SafetyInv, NEW c \in Conn, Live' = Live \ {c}, backlog' \subseteq backlog,
         id' = [id EXCEPT ![c] = NoIdentity],
         inq' = [inq EXCEPT ![c] = <<>>],
         \A e \in Conn : e # c => out'[e] = out[e],
         out'[c] = out[c] \/ Holders(c) = {},
         Tracked' = Tracked, UNCHANGED <<alive, used, rec, st, conn>>
  PROVE  KillInv'
<1>1. /\ id'[c] = NoIdentity
      /\ \A e \in Conn : e # c => id'[e] = id[e] /\ inq'[e] = inq[e]
  BY Shape
<1>2. KillersTold'
  <2>1. ASSUME NEW e \in Live', NEW r \in Holders(e)',
               \A s \in Holders(e) : s = id[e].pid /\ ToldSignalled(s)
        PROVE  r \in Holders(e) /\ ToldSignalled(r)'
    <3>1. e \in Conn /\ e # c /\ r \in Holders(e) /\ conn[r] = e
      BY <2>1, Shape DEF Holders
    <3>2. ToldSignalled(r)
      BY <2>1, <3>1
    <3>. QED BY <3>1, <3>2 DEF ToldSignalled
  <2>2. \A e \in Live' : e \in Live /\ id'[e] = id[e] /\ inq'[e] = inq[e]
    BY <1>1, Shape
  <2>. QED BY <2>1, <2>2, KillersStayTold
<1>3. StopByOwner'
  BY <1>1, OwnersKept
<1>4. StoppedAfterSignalled'
  <2>1. \A q \in alive : conn[q] # NoConn => out'[conn[q]] = out[conn[q]]
    BY Shape DEF Holders
  <2>. QED BY <2>1, OrderKept
<1>. QED BY <1>2, <1>3, <1>4 DEF KillInv

(* lnc_connect(): a connection that waits to be accepted is no killer's.   *)
LEMMA KillConnect ==
  ASSUME IInv, SafetyInv, NEW c \in Conn, LncConnect(c)
  PROVE  KillInv'
<1>1. c \in backlog /\ c \notin Range(clients) /\ backlog' = backlog \ {c}
      /\ Tracked' = Tracked /\ UNCHANGED <<out, alive, used, rec, st, conn>>
  BY Shape DEF LncConnect, Tracked, cgroupVars
<1>2. CASE ClientCreate(c) /\ UNCHANGED <<id, inq>>
  <2>1. Range(clients') = Range(clients) \cup {c}
    BY <1>2, AppendFacts DEF ClientCreate, IInv, TypeOK, ClientsOK
  <2>2. Live' = Live
    BY <1>1, <2>1 DEF Live
  <2>3. KillersTold'
    <3>1. ASSUME NEW e \in Live', NEW r \in Holders(e)',
                 \A s \in Holders(e) : s = id[e].pid /\ ToldSignalled(s)
          PROVE  r \in Holders(e) /\ ToldSignalled(r)'
      BY <1>1, <3>1 DEF Holders, ToldSignalled
    <3>. QED BY <1>1, <1>2, <2>2, <3>1, KillersStayTold
  <2>4. StopByOwner'
    BY <1>1, <1>2, OwnersKept
  <2>5. StoppedAfterSignalled'
    BY <1>1, OrderKept
  <2>. QED BY <2>3, <2>4, <2>5 DEF KillInv
<1>3. CASE /\ id' = [id EXCEPT ![c] = NoIdentity]
           /\ inq' = [inq EXCEPT ![c] = <<>>]
           /\ UNCHANGED clients
  <2>1. Live' = Live \ {c}
    BY <1>1, <1>3 DEF Live
  <2>. QED BY <1>1, <1>3, <2>1, KillDrop
<1>. QED BY <1>2, <1>3 DEF LncConnect

(* lnc_closed().                                                           *)
LEMMA KillClosed ==
  ASSUME IInv, SafetyInv, NEW c \in Conn, LncClosed(c)
  PROVE  KillInv'
<1>1. Range(clients') = Range(clients) \ {c} /\ c \notin backlog
  BY RemoveFirstFacts, Shape DEF LncClosed, ClientDestroy, IInv, TypeOK, ClientsOK
<1>2. /\ Live' = Live \ {c} /\ Tracked' = Tracked
      /\ UNCHANGED <<alive, used, rec, st, conn, inq, backlog>>
  BY <1>1 DEF LncClosed, Live, Tracked, cgroupVars, launcherVars, systemVars
<1>3. inq' = [inq EXCEPT ![c] = <<>>]
  BY <1>2, Shape DEF LncClosed
<1>4. /\ id' = [id EXCEPT ![c] = NoIdentity] /\ \A e \in Conn : e # c => out'[e] = out[e]
      /\ Holders(c) = {}
  BY Shape DEF LncClosed, ClientDestroy
<1>. QED BY <1>2, <1>3, <1>4, KillDrop

(* A restarted daemon tracks nothing.                                      *)
LEMMA KillRestart ==
  ASSUME IInv, SafetyInv, Restart
  PROVE  KillInv'
<1>1. Tracked' = {} /\ UNCHANGED <<out, alive, st, conn>>
  BY DEF Restart, Range, Tracked, cgroupVars
<1>2. StoppedAfterSignalled'
  BY <1>1, OrderKept
<1>. QED BY <1>1, <1>2 DEF KillInv, KillersTold, StopByOwner

(* application_sigkill(): the child that escapes is that of a process in a *)
(* cgroup, and so shares no killer's connection.                           *)
LEMMA KillSigkill ==
  ASSUME IInv, SafetyInv, NEW h \in Handle, Sigkill(h)
  PROVE  KillInv'
<1> USE DEF Killed
<1>1. PICK S, C, x : Killed(h, S, C, x)
  BY SigkillEffect DEF SafetyInv
<1>2. Live' = Live /\ Tracked' = Tracked
  BY <1>1 DEF Live, Tracked
<1>3. conn[x] # NoConn => st[x] \in Heirs
  BY <1>1, Shape DEF Tasks, SafetyInv, ConnInv, SharedByHeirs
<1>4. KillersTold'
  <2>1. ASSUME NEW c \in Live', NEW r \in Holders(c)',
               \A s \in Holders(c) : s = id[c].pid /\ ToldSignalled(s)
        PROVE  r \in Holders(c) /\ ToldSignalled(r)'
    <3>1. c \in Conn /\ conn[x] # c
      BY <1>1, <1>2, <1>3, <2>1, Shape DEF Holders, ToldSignalled, Heirs
    <3>2. r \in alive \ S /\ r \in Holders(c) /\ conn[r] = c
      BY <1>1, <2>1, <3>1 DEF Holders
    <3>. QED BY <1>1, <2>1, <3>1, <3>2 DEF ToldSignalled
  <2>. QED BY <1>1, <1>2, <2>1, KillersStayTold
<1>5. StopByOwner'
  BY <1>1, <1>2, OwnersKept
<1>6. StoppedAfterSignalled'
  <2>1. ASSUME NEW q \in C, conn[x] # NoConn
        PROVE  NoEvents(conn[q])'
    <3>1. NoEvents(conn[x])
      BY <1>1, <1>3, <2>1, NobodyElseTold DEF Heirs
    <3>. QED BY <1>1, <3>1 DEF NoEvents
  <2>2. \A q \in alive' : q \in C \/ q \in alive \ S
    BY <1>1
  <2>. QED BY <1>1, <2>1, <2>2, OrderKept
<1>. QED BY <1>4, <1>5, <1>6 DEF KillInv

(* lnc_recv(): the one who is granted a stop becomes a killer, with the    *)
(* reply that says so on its connection; an application that is cleaned up *)
(* after has its killer told last.                                         *)
LEMMA KillServe ==
  ASSUME IInv, SafetyInv, NEW c \in Conn, Serve(c)
  PROVE  KillInv'
<1>1. PICK m : \/ NothingDone(c, m)
               \/ \E h, app, d : SetUp(c, m, h, app, d)
               \/ \E h : StopGranted(c, m, h)
               \/ \E h, d : CleanedUp(c, m, h, d)
  BY ServeEffect
<1>2. Replied(c, m)
  BY <1>1, OutcomeFacts
<1>3. /\ UNCHANGED <<clients, id, alive, used, st, conn, backlog>> /\ Live' = Live
      /\ c \in Range(clients) /\ c \in Live /\ c \notin backlog
      /\ inq[c] # <<>> /\ inq'[c] = <<>> /\ out'[c] = <<m>>
      /\ \A e \in Conn : e # c => inq'[e] = inq[e]
  BY <1>2, Shape DEF Replied, systemVars, Live
<1>4. \A p \in Holders(c) : p = id[c].pid /\ st[p] = Mode(Head(inq[c]))
  BY <1>3, PendingFacts DEF SafetyInv
<1>5. \A h \in Tracked : rec[h].killer # NoPid =>
        rec[h].killer \in used /\ rec[h].killer # id[c].pid
  BY <1>3 DEF SafetyInv, KillInv, KillersTold
<1>6. NoEvents(c)'
  <2>1. m.type = "status"
    BY <1>2 DEF Replied
  <2>2. \A i \in DOMAIN <<m>> : <<m>>[i] = m
    OBVIOUS
  <2>. QED BY <1>3, <2>1, <2>2 DEF NoEvents
<1>7. ASSUME OthersQuiet(c) PROVE StoppedAfterSignalled'
  <2>1. \A p \in alive : /\ conn[p] # NoConn /\ conn[p] # c
                         => out'[conn[p]] = out[conn[p]]
    BY <1>7, Shape DEF OthersQuiet
  <2>2. \A p \in alive : conn[p] = c => NoEvents(conn[p])'
    BY <1>3, <1>6 DEF NoEvents
  <2>. QED BY <1>3, <2>1, <2>2, OrderKept
<1>8. \A e \in Live' : \A p \in Holders(e)' :
         OthersQuiet(c) /\ inq[e] = <<>> /\ ToldSignalled(p)
           => p \in Holders(e) /\ ToldSignalled(p)'
  <2> SUFFICES ASSUME NEW e \in Live', NEW p \in Holders(e)',
                      OthersQuiet(c), inq[e] = <<>>, ToldSignalled(p)
               PROVE  p \in Holders(e) /\ ToldSignalled(p)'
    OBVIOUS
  <2>1. e # c /\ e \in Conn /\ conn[p] = e /\ p \in Holders(e)
    BY <1>3, Shape DEF Holders
  <2>. QED BY <1>3, <2>1 DEF ToldSignalled, OthersQuiet
<1>9. ASSUME NothingDone(c, m) PROVE KillInv'
  <2>1. Tracked' = Tracked /\ UNCHANGED rec /\ OthersQuiet(c)
    BY <1>9 DEF NothingDone, Tracked
  <2>2. KillersTold'
    <3>1. \A e \in Live' : \A p \in Holders(e)' :
           /\ id'[e].pid \in used /\ inq[e] = <<>>
           /\ \A q \in Holders(e) : q = id[e].pid /\ ToldSignalled(q)
           => p \in Holders(e) /\ ToldSignalled(p)'
      BY <1>3, <1>8, <2>1 DEF Holders
    <3>2. \A e \in Live' : e \in Live /\ (inq[e] = <<>> => inq'[e] = <<>>)
      BY <1>3, Shape
    <3>. QED BY <1>3, <2>1, <3>1, <3>2, KillersStayTold
  <2>3. StopByOwner'
    BY <1>3, <2>1, OwnersKept
  <2>. QED BY <1>7, <2>1, <2>2, <2>3 DEF KillInv
<1>10. ASSUME NEW h, NEW app, NEW d, SetUp(c, m, h, app, d) PROVE KillInv'
  <2>1. /\ OthersQuiet(c) /\ Tracked' = Tracked \cup {h} /\ h \notin Tracked /\ h \in Handle
        /\ rec' = [rec EXCEPT ![h] = [app |-> app, uid |-> d[1], cgrp |-> d,
                                      killer |-> NoPid]]
    BY <1>10 DEF SetUp, Track
  <2>2. /\ rec'[h].killer = NoPid
        /\ \A g \in Tracked : rec'[g] = rec[g]
    BY <2>1, Shape DEF IInv, TypeOK, TrackingOK
  <2>3. KillersTold'
    <3> SUFFICES ASSUME NEW g \in Tracked', rec'[g].killer # NoPid
                 PROVE  /\ rec'[g].killer \in used'
                        /\ \A e \in Live' : id'[e].pid = rec'[g].killer =>
                             /\ e \notin backlog' /\ inq'[e] = <<>>
                             /\ \A p \in Holders(e)' : p = rec'[g].killer /\ ToldSignalled(p)'
      BY DEF KillersTold
    <3>1. g \in Tracked /\ rec'[g] = rec[g]
      BY <2>1, <2>2
    <3>2. ASSUME NEW e \in Live', id'[e].pid = rec'[g].killer
          PROVE  /\ e \notin backlog' /\ inq'[e] = <<>>
                 /\ \A p \in Holders(e)' : p = rec'[g].killer /\ ToldSignalled(p)'
      <4>1. /\ e \in Live /\ e \in Conn /\ e # c /\ e \notin backlog /\ inq[e] = <<>>
            /\ \A p \in Holders(e) : p = rec[g].killer /\ ToldSignalled(p)
        BY <1>3, <3>1, <3>2, Shape DEF SafetyInv, KillInv, KillersTold
      <4>2. Holders(e)' = Holders(e)
        BY <1>3 DEF Holders
      <4>. QED BY <1>3, <1>8, <2>1, <3>1, <4>1, <4>2
    <3>. QED BY <1>3, <1>5, <3>1, <3>2
  <2>4. StopByOwner'
    <3>1. \A e \in Conn : id[e] # NoIdentity => id[e].pid # NoPid
      BY Shape, LauncherAssumption
    <3>. QED BY <1>3, <2>1, <2>2, <3>1 DEF StopByOwner, SafetyInv, KillInv
  <2>. QED BY <1>7, <2>1, <2>3, <2>4 DEF KillInv
<1>11. ASSUME NEW h, StopGranted(c, m, h) PROVE KillInv'
  <2>1. /\ OthersQuiet(c) /\ Tracked' = Tracked /\ h \in Tracked /\ m.text = "SIGNALLED"
        /\ m.type = "status" /\ Head(inq[c]).type = "stop"
        /\ rec[h].killer = NoPid /\ id[c].uid \in {rec[h].uid, Root}
    BY <1>2, <1>11 DEF StopGranted, Replied
  <2>2. h \in Handle /\ rec[h] \in AppRec
    BY <2>1, Shape
  <2>3. rec' = [rec EXCEPT ![h] = [rec[h] EXCEPT !.killer = id[c].pid]]
    BY <1>11 DEF StopGranted
  <2>4. /\ rec'[h].killer = id[c].pid /\ rec'[h].uid = rec[h].uid
        /\ \A g \in Tracked : g # h => rec'[g] = rec[g]
    BY <2>2, <2>3, Shape DEF AppRec, IInv, TypeOK, TrackingOK
  <2>5. \A e \in Live : id[e].pid = id[c].pid => e = c
    BY <1>3 DEF SafetyInv, ConnInv, PeersKnown
  <2>6. KillersTold'
    <3> SUFFICES ASSUME NEW g \in Tracked', rec'[g].killer # NoPid
                 PROVE  /\ rec'[g].killer \in used'
                        /\ \A e \in Live' : id'[e].pid = rec'[g].killer =>
                             /\ e \notin backlog' /\ inq'[e] = <<>>
                             /\ \A p \in Holders(e)' : p = rec'[g].killer /\ ToldSignalled(p)'
      BY DEF KillersTold
    <3>1. CASE g = h
      <4>1. rec'[g].killer \in used'
        BY <1>3, <2>4, <3>1 DEF SafetyInv, ConnInv, PeersKnown
      <4>2. \A p \in Holders(c)' : p = id[c].pid /\ ToldSignalled(p)'
        <5>1. ASSUME NEW p \in Holders(c)' PROVE p = id[c].pid /\ ToldSignalled(p)'
          <6>1. p \in Holders(c) /\ conn[p] = c
            BY <1>3, <5>1 DEF Holders
          <6>2. p = id[c].pid /\ st[p] = "stop"
            BY <1>4, <2>1, <6>1 DEF Mode
          <6>3. 1 \in DOMAIN <<m>> /\ <<m>>[1] = m
            OBVIOUS
          <6>. QED BY <1>3, <2>1, <6>1, <6>2, <6>3 DEF ToldSignalled
        <5>. QED BY <5>1
      <4>3. \A e \in Live' : id'[e].pid = rec'[g].killer => e = c
        BY <1>3, <2>4, <2>5, <3>1
      <4>. QED BY <1>3, <2>4, <3>1, <4>1, <4>2, <4>3
    <3>2. CASE g # h
      <4>1. g \in Tracked /\ rec'[g] = rec[g]
        BY <2>1, <2>4, <3>2
      <4>2. ASSUME NEW e \in Live', id'[e].pid = rec'[g].killer
            PROVE  /\ e \notin backlog' /\ inq'[e] = <<>>
                   /\ \A p \in Holders(e)' : p = rec'[g].killer /\ ToldSignalled(p)'
        <5>1. /\ e \in Live /\ e \in Conn /\ e # c /\ e \notin backlog /\ inq[e] = <<>>
              /\ \A p \in Holders(e) : p = rec[g].killer /\ ToldSignalled(p)
          BY <1>3, <4>1, <4>2, Shape DEF SafetyInv, KillInv, KillersTold
        <5>2. Holders(e)' = Holders(e)
          BY <1>3 DEF Holders
        <5>. QED BY <1>3, <1>8, <2>1, <4>1, <5>1, <5>2
      <4>. QED BY <1>3, <1>5, <4>1, <4>2
    <3>. QED BY <3>1, <3>2
  <2>7. StopByOwner'
    <3> SUFFICES ASSUME NEW g \in Tracked, NEW e \in Conn, id[e] # NoIdentity,
                        id[e].pid = rec'[g].killer
                 PROVE  id[e].uid \in {rec'[g].uid, Root}
      BY <1>3, <2>1 DEF StopByOwner
    <3>1. CASE g # h
      BY <2>4, <3>1 DEF SafetyInv, KillInv, StopByOwner
    <3>2. CASE g = h
      BY <2>1, <2>4, <2>5, <3>2 DEF SafetyInv, ConnInv, PeersKnown
    <3>. QED BY <3>1, <3>2
  <2>. QED BY <1>7, <2>1, <2>6, <2>7 DEF KillInv
<1>12. ASSUME NEW h, NEW d, CleanedUp(c, m, h, d) PROVE KillInv'
  <2>1. /\ ToldOnly(rec[h].killer, c) /\ h \in Tracked /\ Tracked' = Tracked \ {h}
        /\ \A g \in Tracked' : rec'[g] = rec[g]
    BY <1>12, Shape DEF CleanedUp, IInv, TypeOK, TrackingOK
  <2>2. StopByOwner'
    BY <1>3, <2>1 DEF StopByOwner, SafetyInv, KillInv
  <2>3. CASE OthersQuiet(c)
    <3>1. KillersTold'
      <4>1. \A e \in Live' : \A p \in Holders(e)' :
             /\ id'[e].pid \in used /\ inq[e] = <<>>
             /\ \A q \in Holders(e) : q = id[e].pid /\ ToldSignalled(q)
             => p \in Holders(e) /\ ToldSignalled(p)'
        BY <1>3, <1>8, <2>3 DEF Holders
      <4>2. \A e \in Live' : e \in Live /\ (inq[e] = <<>> => inq'[e] = <<>>)
        BY <1>3, Shape
      <4>. QED BY <1>3, <2>1, <4>1, <4>2, KillersStayTold
    <3>. QED BY <1>7, <2>2, <2>3, <3>1 DEF KillInv
  <2>4. ASSUME NEW e \in Range(clients), NEW x, rec[h].killer # NoPid,
               e # c, id[e].pid = rec[h].killer,
               out'[e] = Append(out[e], EventMsg("stopped", x)),
               \A f \in Conn : f # c /\ f # e => out'[f] = out[f]
        PROVE  KillInv'
    <3> DEFINE t == Append(out[e], EventMsg("stopped", x))
               n == Len(out[e])
    <3>1. e \in Live /\ e \in Conn /\ out[e] \in Seq(Message)
      BY Shape DEF Live
    <3>2. \A p \in Holders(e) : p = rec[h].killer /\ ToldSignalled(p)
      BY <2>1, <2>4, <3>1 DEF SafetyInv, KillInv, KillersTold
    <3>3. /\ n \in Nat /\ DOMAIN out[e] = 1 .. n /\ DOMAIN t = 1 .. n + 1
          /\ \A i \in 1 .. n : t[i] = out[e][i]
      BY <3>1, LenProperties, AppendProperties
    <3>4. out'[e] = t
      BY <2>4
    <3> HIDE DEF t, n
    <3>5. \A p \in alive : ToldSignalled(p) /\ conn[p] = e => ToldSignalled(p)'
      BY <1>3, <3>3, <3>4 DEF ToldSignalled
    <3>6. KillersTold'
      <4>1. ASSUME NEW f \in Live', NEW p \in Holders(f)', inq[f] = <<>>,
                   \A q \in Holders(f) : q = id[f].pid /\ ToldSignalled(q)
            PROVE  p \in Holders(f) /\ ToldSignalled(p)'
        <5>1. f # c /\ f \in Conn /\ p \in Holders(f) /\ p \in alive /\ conn[p] = f
          BY <1>3, <4>1, Shape DEF Holders
        <5>2. ToldSignalled(p)
          BY <4>1, <5>1
        <5>3. CASE f = e
          BY <3>5, <5>1, <5>2, <5>3
        <5>4. CASE f # e
          BY <1>3, <2>4, <5>1, <5>2, <5>4 DEF ToldSignalled
        <5>. QED BY <5>1, <5>3, <5>4
      <4>2. \A f \in Live' : f \in Live /\ (inq[f] = <<>> => inq'[f] = <<>>)
        BY <1>3, Shape
      <4>. QED BY <1>3, <2>1, <4>1, <4>2, KillersStayTold
    <3>7. StoppedAfterSignalled'
      <4>1. \A p \in alive : ToldInOrder(p)
        BY DEF SafetyInv, KillInv, StoppedAfterSignalled, ToldInOrder
      <4>2. ASSUME NEW p \in alive PROVE ToldInOrder(p)'
        <5>1. CASE conn[p] = NoConn
          BY <1>3, <5>1 DEF ToldInOrder
        <5>2. CASE conn[p] = c
          BY <1>3, <1>6, <5>2 DEF ToldInOrder, NoEvents
        <5>3. CASE conn[p] \in Conn /\ conn[p] # c /\ conn[p] # e
          <6>1. /\ out'[conn[p]] = out[conn[p]] /\ conn'[p] = conn[p]
                /\ st'[p] = st[p] /\ ToldInOrder(p)
            BY <1>3, <2>4, <4>1, <5>3
          <6>. QED BY <6>1 DEF ToldInOrder
        <5>4. CASE conn[p] = e
          <6>1. p \in Holders(e)
            BY <5>4 DEF Holders
          <6>2. ToldSignalled(p)
            BY <3>2, <6>1
          <6>3. CASE st[p] = "signalled"
            BY <1>3, <6>3 DEF ToldInOrder
          <6>4. CASE st[p] = "stop"
            <7>1. PICK j \in 1 .. n : /\ out[e][j].type = "status"
                                      /\ out[e][j].text = "SIGNALLED"
              BY <3>3, <5>4, <6>2, <6>4 DEF ToldSignalled
            <7>2. ASSUME NEW i \in 1 .. n + 1, t[i].type = "event"
                  PROVE  \E k \in 1 .. i - 1 : /\ t[k].type = "status"
                                               /\ t[k].text = "SIGNALLED"
              <8>1. CASE i = n + 1
                BY <3>3, <7>1, <8>1
              <8>2. CASE i # n + 1
                <9>1. i \in 1 .. n /\ out[e][i].type = "event"
                  BY <3>3, <7>2, <8>2
                <9>2. PICK k \in 1 .. i - 1 : /\ out[e][k].type = "status"
                                              /\ out[e][k].text = "SIGNALLED"
                  <10>1. e # NoConn /\ i \in DOMAIN out[e]
                    BY <3>1, <3>3, <9>1, Shape
                  <10>. QED BY <4>1, <5>4, <6>4, <9>1, <10>1 DEF ToldInOrder
                <9>3. k \in 1 .. n
                  BY <3>3, <9>1, <9>2
                <9>. QED BY <3>3, <9>2, <9>3
              <8>. QED BY <8>1, <8>2
            <7>. QED BY <1>3, <3>3, <3>4, <5>4, <6>4, <7>2 DEF ToldInOrder
          <6>. QED BY <6>2, <6>3, <6>4 DEF ToldSignalled
        <5>. QED BY <5>1, <5>2, <5>3, <5>4, Shape
      <4>. QED BY <1>3, <4>2 DEF StoppedAfterSignalled, ToldInOrder
    <3>. QED BY <2>2, <3>6, <3>7 DEF KillInv
  <2>. QED BY <2>1, <2>3, <2>4 DEF ToldOnly
<1>. QED BY <1>1, <1>9, <1>10, <1>11, <1>12

-----------------------------------------------------------------------------
(* The layer of the cgroups, one action at a time.                         *)

(* The release of d is due, or the agent is on its way.                    *)
Due(d) == d \in released \/ CleanupUnderway(d)

(* A step that takes no process, no cgroup and no cleanup request away,    *)
(* and brings none.                                                        *)
LEMMA CgroupSame ==
  ASSUME IInv, SafetyInv, Tracked' = Tracked,
         \A h \in Tracked : rec'[h].cgrp = rec[h].cgrp,
         UNCHANGED <<alive, used, cg, dirs, released, restarts>>,
         \A c \in Conn : inq'[c] # <<>> => inq'[c] = inq[c] /\ id'[c] = id[c],
         \A c \in Conn, d \in Cgrp : inq[c] = <<CleanupReq(d)>> => inq'[c] = inq[c]
  PROVE  CgroupInv'
<1> USE DEF SafetyInv, CgroupInv
<1>1. \A d \in Cgrp : CleanupUnderway(d)' <=> CleanupUnderway(d)
  <2>1. \A d : <<CleanupReq(d)>> # <<>>
    OBVIOUS
  <2>. QED BY <2>1 DEF CleanupUnderway
<1>2. \A d : Tasks(d)' = Tasks(d)
  BY DEF Tasks
<1>3. NamesUsed'
  BY <1>1 DEF NamesUsed, Made
<1>4. EmptyStays'
  BY <1>1, <1>2 DEF EmptyStays
<1>5. CgroupsDiffer' /\ AgentsWait'
  BY DEF CgroupsDiffer, AgentsWait
<1>6. ReleaseNotLost'
  <2>1. \A h \in Tracked : rec[h].cgrp \in Cgrp
    BY Shape DEF AppRec
  <2>. QED BY <1>1, <1>2, <2>1 DEF ReleaseNotLost
<1>7. (NoRestart => NoAppLost)'
  BY DEF NoRestart, NoAppLost
<1>. QED BY <1>3, <1>4, <1>5, <1>6, <1>7

(* A new iot-launch, the cleanup agent included: the agent takes over what *)
(* was due.                                                                *)
LEMMA CgroupStart ==
  ASSUME IInv, SafetyInv, NEW p \in Pid, NEW uid, NEW req \in Request,
         Start(p, Mode(req), uid, req),
         \/ req.type # "cleanup" /\ released' = released
         \/ \E d \in released : req = CleanupReq(d) /\ released' = released \ {d}
  PROVE  CgroupInv'
<1>1. PICK c : Connected(p, Mode(req), uid, req, c)
  BY StartEffect DEF SafetyInv
<1> USE DEF SafetyInv, CgroupInv, Connected
<1> DEFINE who == [uid |-> uid, pid |-> p]
<1>2. who.pid = p
  OBVIOUS
<1>3. id'[c] = who /\ \A e \in Conn : e # c => id'[e] = id[e]
  BY <1>1, Shape
<1> HIDE DEF who
<1>4. /\ inq'[c] = <<req>> /\ \A e \in Conn : e # c => inq'[e] = inq[e]
      /\ cg'[p] = NoCgrp /\ \A q \in Pid : q # p => cg'[q] = cg[q]
      /\ Tracked' = Tracked /\ rec' = rec
  BY <1>1, Shape DEF Tracked
<1>5. \A d \in Cgrp : Tasks(d)' = Tasks(d)
  BY <1>1, <1>4, Shape DEF Tasks
<1>6. \A d \in Cgrp : Due(d)' <=> Due(d)
  <2>1. \A d, e : /\ <<CleanupReq(d)>> = <<CleanupReq(e)>> => d = e
                  /\ CleanupReq(d).type = "cleanup" /\ <<CleanupReq(d)>> # <<>>
    <3>1. \A d : CleanupReq(d).cgrp = d /\ CleanupReq(d).type = "cleanup"
      BY DEF CleanupReq
    <3>2. \A x, y : <<x>> = <<y>> => x = y
      OBVIOUS
    <3>. QED BY <3>1, <3>2
  <2>2. \A d \in Cgrp : CleanupUnderway(d)' <=> CleanupUnderway(d) \/ req = CleanupReq(d)
    <3>1. ASSUME NEW d \in Cgrp, NEW e \in Conn, inq'[e] = <<CleanupReq(d)>>, e = c
          PROVE  req = CleanupReq(d)
      BY <1>4, <3>1
    <3>2. ASSUME NEW d \in Cgrp, NEW e \in Conn, inq[e] = <<CleanupReq(d)>>
          PROVE  inq'[e] = <<CleanupReq(d)>>
      BY <1>1, <1>4, <2>1, <3>2
    <3>. QED BY <1>1, <1>4, <3>1, <3>2 DEF CleanupUnderway
  <2>3. CASE req.type # "cleanup" /\ released' = released
    BY <2>1, <2>2, <2>3 DEF Due
  <2>4. ASSUME NEW x \in released, req = CleanupReq(x), released' = released \ {x}
        PROVE  \A d \in Cgrp : Due(d)' <=> Due(d)
    BY <2>1, <2>2, <2>4 DEF Due
  <2>. QED BY <2>3, <2>4
<1>7. \A d \in Cgrp : Made(d)' <=> Made(d)
  <2>1. released' \subseteq released
    OBVIOUS
  <2>2. \A d \in Cgrp : Made(d) <=> d \in dirs \/ Due(d)
    BY Shape DEF Made, Due
  <2>3. \A d \in Cgrp : Made(d)' <=> d \in dirs \/ Due(d)'
    BY <1>1, <2>1, Shape DEF Made, Due
  <2>. QED BY <1>6, <2>2, <2>3
<1>8. NamesUsed'
  BY <1>1, <1>2, <1>3, <1>4, <1>7 DEF NamesUsed
<1>9. EmptyStays'
  BY <1>5, <1>6 DEF EmptyStays, Due
<1>10. CgroupsDiffer'
  BY <1>1, <1>4 DEF CgroupsDiffer
<1>11. AgentsWait'
  BY <1>1, <1>2, <1>3, <1>4 DEF AgentsWait
<1>12. ReleaseNotLost'
  <2>1. \A h \in Tracked : rec[h].cgrp \in Cgrp
    BY Shape DEF AppRec
  <2>. QED BY <1>4, <1>5, <1>6, <2>1 DEF ReleaseNotLost, Due
<1>13. (NoRestart => NoAppLost)'
  BY <1>1, <1>4, Shape DEF NoRestart, NoAppLost
<1>. QED BY <1>8, <1>9, <1>10, <1>11, <1>12, <1>13

(* Processes end, and a child may be left behind in a cgroup that was not  *)
(* empty: what becomes empty is due for release.                           *)
LEMMA CgroupExit ==
  ASSUME IInv, SafetyInv, NEW S \in SUBSET alive, NEW C, C \cap used = {},
         NEW d, C = {} \/ ((\E h \in Tracked : rec[h].cgrp = d) /\ Tasks(d) # {}),
         alive' = (alive \ S) \cup C, used' = used \cup C,
         \A q \in C : cg'[q] = d,
         \A q \in alive \ S : cg'[q] = cg[q],
         released' = released \cup Emptied(alive', cg'),
         UNCHANGED <<id, inq, dirs, rec, restarts>>, Tracked' = Tracked,
         \A c \in Conn : inq[c] # <<>> /\ Head(inq[c]).type = "cleanup"
           => id[c].pid \notin S
  PROVE  CgroupInv'
<1> USE DEF SafetyInv, CgroupInv
<1>1. \A e : CleanupUnderway(e)' <=> CleanupUnderway(e)
  BY DEF CleanupUnderway
<1>2. \A g \in Tracked : rec[g].cgrp \in Cgrp /\ rec[g].cgrp \in dirs
  BY Shape DEF AppRec, CgroupsDiffer
<1>3. /\ \A e \in Cgrp : Tasks(e)' \subseteq Tasks(e) \/ (C # {} /\ e = d)
      /\ \A e \in Cgrp : e \in Emptied(alive', cg')
           <=> (e \in dirs /\ Tasks(e) # {} /\ Tasks(e)' = {})
  BY DEF Tasks, Emptied
<1>4. NamesUsed'
  BY <1>1 DEF NamesUsed, Made
<1>5. EmptyStays'
  BY <1>1, <1>3 DEF EmptyStays
<1>6. CgroupsDiffer' /\ AgentsWait'
  BY DEF CgroupsDiffer, AgentsWait
<1>7. ReleaseNotLost'
  BY <1>1, <1>2, <1>3 DEF ReleaseNotLost
<1>8. (NoRestart => NoAppLost)'
  BY DEF NoRestart, NoAppLost
<1>. QED BY <1>4, <1>5, <1>6, <1>7, <1>8

(* An agent whose request is pending is a process outside the cgroups that *)
(* has nothing to read.                                                    *)
LEMMA AgentPending ==
  ASSUME IInv, SafetyInv, NEW c \in Conn, inq[c] # <<>>,
         Head(inq[c]).type = "cleanup"
  PROVE  LET a == id[c].pid
         IN  a \in alive /\ conn[a] = c /\ st[a] = "agent" /\ out[c] = <<>> /\ cg[a] = NoCgrp
<1> DEFINE a == id[c].pid
<1>1. a \in alive /\ c \in Live
  BY DEF SafetyInv, ConnInv, RequestAlone, CgroupInv, AgentsWait
<1>2. conn[a] = c
  BY <1>1 DEF SafetyInv, ConnInv, PeersHold
<1>3. st[a] = "agent" /\ out[c] = <<>> /\ cg[a] = NoCgrp
  BY <1>1, <1>2 DEF SafetyInv, ConnInv, RequestAlone, Holders, Mode
<1>. QED BY <1>1, <1>2, <1>3

(* A process that exits leaves its cgroup, whose release is due if it was  *)
(* the last.                                                               *)
LEMMA CgroupProcessExit ==
  ASSUME IInv, SafetyInv, NEW p \in alive, Exit(p),
         st[p] # "agent" \/ (conn[p] \in Conn /\ out[conn[p]] # <<>>)
  PROVE  CgroupInv'
<1>1. /\ alive' = (alive \ {p}) \cup {} /\ used' = used \cup {}
      /\ released' = released \cup Emptied(alive', cg') /\ Tracked' = Tracked
      /\ UNCHANGED <<id, inq, dirs, rec, restarts>>
  BY DEF Exit, KernelExit, launcherVars, Tracked
<1>2. /\ \A q \in {} : cg'[q] = NoCgrp
      /\ \A q \in alive \ {p} : cg'[q] = cg[q]
  BY Shape DEF Exit, KernelExit
<1>3. \A c \in Conn : inq[c] # <<>> /\ Head(inq[c]).type = "cleanup" => id[c].pid \notin {p}
  BY AgentPending
<1>4. {p} \in SUBSET alive /\ {} \cap used = {}
  OBVIOUS
<1>. QED BY <1>1, <1>2, <1>3, <1>4, CgroupExit

(* What application_sigkill() kills leaves its cgroup, and a child stays   *)
(* in it.                                                                  *)
LEMMA CgroupSigkill ==
  ASSUME IInv, SafetyInv, NEW h \in Handle, Sigkill(h)
  PROVE  CgroupInv'
<1> USE DEF Killed
<1>1. PICK S, C, x : Killed(h, S, C, x)
  BY SigkillEffect DEF SafetyInv
<1>2. S \subseteq alive /\ \A q \in S : cg[q] # NoCgrp
  BY <1>1, Shape DEF Tasks
<1>3. \A c \in Conn : inq[c] # <<>> /\ Head(inq[c]).type = "cleanup" => id[c].pid \notin S
  BY <1>2, AgentPending
<1>4. Tracked' = Tracked /\ Tasks(rec[h].cgrp) # {} /\ (\E g \in Tracked : rec[g].cgrp = rec[h].cgrp)
  BY <1>1 DEF Tracked
<1>5. /\ \A q \in C : cg'[q] = rec[h].cgrp
      /\ \A q \in alive \ S : cg'[q] = cg[q]
  BY <1>1
<1>6. S \in SUBSET alive
  BY <1>2
<1>7. /\ C \cap used = {} /\ (C = {} \/ ((\E g \in Tracked : rec[g].cgrp = rec[h].cgrp) /\ Tasks(rec[h].cgrp) # {}))
      /\ alive' = (alive \ S) \cup C /\ used' = used \cup C
      /\ released' = released \cup Emptied(alive', cg')
      /\ UNCHANGED <<id, inq, dirs, rec, restarts>> /\ Tracked' = Tracked
  BY <1>1, <1>4
<1> HIDE DEF Killed
<1>. QED BY <1>3, <1>5, <1>6, <1>7, CgroupExit

(* A child starts where its parent is.                                     *)
LEMMA CgroupFork ==
  ASSUME IInv, SafetyInv, NEW p \in alive, NEW q \in Pid, ForkChild(p, q)
  PROVE  CgroupInv'
<1> USE DEF SafetyInv, CgroupInv
<1>1. /\ q \notin used /\ alive' = alive \cup {q} /\ used' = used \cup {q}
      /\ Tracked' = Tracked
      /\ UNCHANGED <<id, inq, rec, dirs, released, restarts>>
  BY DEF ForkChild, KernelSpawn, FreshPids, Tracked, launcherVars
<1>2. cg'[q] = cg[p] /\ \A r \in alive : r # q /\ cg'[r] = cg[r]
  BY <1>1, Shape DEF ForkChild, KernelSpawn
<1>3. \A d : CleanupUnderway(d)' <=> CleanupUnderway(d)
  BY <1>1 DEF CleanupUnderway
<1>4. \A d : Tasks(d) \subseteq Tasks(d)' /\ (Tasks(d) = {} => Tasks(d)' = {})
  BY <1>1, <1>2 DEF Tasks
<1>5. NamesUsed'
  BY <1>1, <1>3 DEF NamesUsed, Made
<1>6. EmptyStays'
  BY <1>1, <1>3, <1>4 DEF EmptyStays
<1>7. CgroupsDiffer' /\ AgentsWait'
  BY <1>1 DEF CgroupsDiffer, AgentsWait
<1>8. ReleaseNotLost'
  BY <1>1, <1>3, <1>4 DEF ReleaseNotLost
<1>9. (NoRestart => NoAppLost)'
  BY <1>1, <1>2 DEF NoRestart, NoAppLost
<1>. QED BY <1>5, <1>6, <1>7, <1>8, <1>9

(* A restarted daemon tracks nothing, and nobody's request is pending.     *)
LEMMA CgroupRestart ==
  ASSUME IInv, SafetyInv, Restart
  PROVE  CgroupInv'
<1> USE DEF SafetyInv, CgroupInv
<1>1. /\ Tracked' = {} /\ \A c \in Conn : inq'[c] = <<>>
      /\ UNCHANGED <<alive, used, cg, dirs, released>> /\ restarts' = restarts + 1
  BY DEF Restart, Range, Tracked, cgroupVars
<1>2. \A d : ~CleanupUnderway(d)'
  <2>1. \A d : <<CleanupReq(d)>> # <<>>
    OBVIOUS
  <2>. QED BY <1>1, <2>1 DEF CleanupUnderway
<1>3. NamesUsed' /\ EmptyStays'
  BY <1>1, <1>2 DEF NamesUsed, EmptyStays, Made, Tasks
<1>4. CgroupsDiffer' /\ AgentsWait' /\ ReleaseNotLost'
  BY <1>1 DEF CgroupsDiffer, AgentsWait, ReleaseNotLost
<1>5. ~NoRestart'
  BY <1>1 DEF NoRestart, IInv, TypeOK, ProcessesOK
<1>. QED BY <1>3, <1>4, <1>5

(* lnc_recv(): a cgroup is made for a process that has none and asks for   *)
(* the first time, and removed with the application it was made for.       *)
LEMMA CgroupServe ==
  ASSUME IInv, SafetyInv, NEW c \in Conn, Serve(c)
  PROVE  CgroupInv'
<1> USE DEF SafetyInv, CgroupInv
<1>1. PICK m : \/ NothingDone(c, m)
               \/ \E h, app, d : SetUp(c, m, h, app, d)
               \/ \E h : StopGranted(c, m, h)
               \/ \E h, d : CleanedUp(c, m, h, d)
  BY ServeEffect
<1>2. Replied(c, m)
  BY <1>1, OutcomeFacts
<1>3. /\ UNCHANGED <<clients, id, alive, used, st, conn, backlog, restarts>> /\ c \in Live
      /\ inq[c] # <<>> /\ inq'[c] = <<>> /\ \A e \in Conn : e # c => inq'[e] = inq[e]
  BY <1>2, Shape DEF Replied, systemVars, Live
<1>4. \A d : CleanupUnderway(d)' => CleanupUnderway(d)
  <2>1. \A d : <<CleanupReq(d)>> # <<>>
    OBVIOUS
  <2>. QED BY <1>3, <2>1 DEF CleanupUnderway
<1>5. \A d : CleanupUnderway(d) /\ inq[c] # <<CleanupReq(d)>> => CleanupUnderway(d)'
  BY <1>3 DEF CleanupUnderway
<1>6. AgentsWait'
  BY <1>3 DEF AgentsWait
<1>7. ASSUME UNCHANGED <<cg, dirs, released>>, Tracked' = Tracked,
             \A h \in Tracked : rec'[h].cgrp = rec[h].cgrp,
             \A h \in Tracked : inq[c] # <<CleanupReq(rec[h].cgrp)>>
      PROVE  CgroupInv'
  <2>1. NamesUsed'
    BY <1>3, <1>4, <1>7 DEF NamesUsed, Made
  <2>2. \A d : Tasks(d)' = Tasks(d)
    BY <1>3, <1>7 DEF Tasks
  <2>3. EmptyStays'
    BY <1>4, <1>7, <2>2 DEF EmptyStays
  <2>4. CgroupsDiffer'
    BY <1>7 DEF CgroupsDiffer
  <2>5. ReleaseNotLost'
    BY <1>5, <1>7, <2>2 DEF ReleaseNotLost
  <2>6. (NoRestart => NoAppLost)'
    BY <1>3, <1>7 DEF NoRestart, NoAppLost
  <2>. QED BY <1>6, <2>1, <2>3, <2>4, <2>5, <2>6
<1>8. CASE NothingDone(c, m)
  BY <1>7, <1>8 DEF NothingDone, Tracked, cgroupVars
<1>9. ASSUME NEW h, StopGranted(c, m, h) PROVE CgroupInv'
  <2>1. /\ UNCHANGED <<cg, dirs, released>> /\ Tracked' = Tracked /\ h \in Tracked
        /\ Head(inq[c]).type = "stop" /\ rec' = [rec EXCEPT ![h].killer = id[c].pid]
    BY <1>9 DEF StopGranted, cgroupVars
  <2>2. \A g \in Tracked : g \in Handle /\ rec[g] \in AppRec
    BY Shape
  <2>3. \A g \in Tracked : rec'[g].cgrp = rec[g].cgrp
    BY <2>1, <2>2 DEF AppRec, IInv, TypeOK, TrackingOK
  <2>. QED BY <1>7, <2>1, <2>3, NotCleanup
<1>10. ASSUME NEW h, NEW app, NEW d, SetUp(c, m, h, app, d) PROVE CgroupInv'
  <2> DEFINE p == d[3]
  <2>1. /\ Tracked' = Tracked \cup {h} /\ h \notin Tracked /\ h \in Handle
        /\ d \in Cgrp /\ d \notin dirs /\ p = id[c].pid /\ p \in alive /\ p \in Pid
        /\ Head(inq[c]).type = "setup"
        /\ dirs' = dirs \cup {d} /\ cg' = [cg EXCEPT ![p] = d]
        /\ released' = released \cup Emptied(alive, cg')
        /\ rec' = [rec EXCEPT ![h] = [app |-> app, uid |-> d[1], cgrp |-> d,
                                      killer |-> NoPid]]
    BY <1>10, Shape DEF SetUp, Track, CgroupMkdirDone
  <2> HIDE DEF p
  <2>2. cg[p] = NoCgrp
    BY <1>3, <2>1 DEF ConnInv, PeersHold, RequestAlone, Holders
  <2>3. /\ rec'[h].cgrp = d /\ \A g \in Tracked : rec'[g] = rec[g] /\ rec[g].cgrp \in Cgrp
    BY <2>1, Shape DEF IInv, TypeOK, TrackingOK, AppRec
  <2>4. /\ p \in Tasks(d)'
        /\ \A e \in Cgrp : e # d => Tasks(e)' = Tasks(e)
    BY <1>3, <2>1, <2>2, Shape DEF Tasks
  <2>5. released' = released
    <3>1. \A e \in dirs : \A q \in Tasks(e) : q \in alive /\ cg'[q] = e
      BY <2>1, <2>2, Shape DEF Tasks
    <3>2. Emptied(alive, cg') = {}
      BY <3>1 DEF Emptied
    <3>. QED BY <2>1, <3>2
  <2>6. ~Made(d)
    BY <1>3, <2>1 DEF NamesUsed, p
  <2>7. NamesUsed'
    <3>1. ASSUME NEW e \in Cgrp, Made(e)'
          PROVE  e[3] \in used /\ \A f \in Conn : inq'[f] # <<>> => id[f].pid # e[3]
      <4>1. CASE e = d
        <5>1. \A f \in Conn : inq'[f] # <<>> => f \in Live /\ f # c
          BY <1>3 DEF ConnInv, RequestAlone
        <5>. QED BY <1>3, <2>1, <4>1, <5>1, Shape DEF ConnInv, PeersKnown, p
      <4>2. CASE e # d
        <5>1. Made(e)
          BY <1>4, <2>1, <3>1, <4>2 DEF Made
        <5>. QED BY <1>3, <5>1 DEF NamesUsed
      <4>. QED BY <4>1, <4>2
    <3>. QED BY <1>3, <3>1 DEF NamesUsed
  <2>8. EmptyStays'
    <3>1. ASSUME NEW e \in Cgrp, e \in released' \/ CleanupUnderway(e)'
          PROVE  Tasks(e)' = {}
      <4>1. e \in released \/ CleanupUnderway(e)
        BY <1>4, <2>5, <3>1
      <4>2. e # d
        BY <2>6, <4>1, Shape DEF Made
      <4>. QED BY <2>4, <4>1, <4>2 DEF EmptyStays
    <3>. QED BY <3>1 DEF EmptyStays
  <2>9. CgroupsDiffer'
    BY <2>1, <2>3 DEF CgroupsDiffer
  <2>10. ReleaseNotLost'
    <3>1. ASSUME NEW g \in Tracked', Tasks(rec[g].cgrp)' = {}
          PROVE  rec'[g].cgrp \in released' \/ CleanupUnderway(rec[g].cgrp)'
      <4>1. g # h
        BY <2>3, <2>4, <3>1 DEF Tasks
      <4>2. /\ g \in Tracked /\ rec'[g] = rec[g] /\ rec[g].cgrp # d /\ rec[g].cgrp \in Cgrp
            /\ rec[g].cgrp \in dirs
        BY <2>1, <2>3, <4>1 DEF CgroupsDiffer
      <4>3. Tasks(rec[g].cgrp) = {}
        BY <2>4, <3>1, <4>2 DEF Tasks
      <4>4. rec[g].cgrp \in released \/ CleanupUnderway(rec[g].cgrp)
        BY <4>2, <4>3 DEF ReleaseNotLost
      <4>5. \A e : CleanupUnderway(e) => CleanupUnderway(e)'
        BY <1>5, <2>1, NotCleanup
      <4>. QED BY <2>5, <4>2, <4>4, <4>5 DEF CleanupUnderway
    <3>. QED BY <3>1 DEF ReleaseNotLost, Tasks
  <2>11. (NoRestart => NoAppLost)'
    <3>1. \A q \in alive : q # p => cg'[q] = cg[q]
      BY <2>1, Shape
    <3>2. cg'[p] = d
      BY <2>1, Shape
    <3>. QED BY <1>3, <2>1, <2>3, <3>1, <3>2 DEF NoRestart, NoAppLost
  <2>. QED BY <1>6, <2>7, <2>8, <2>9, <2>10, <2>11
<1>11. ASSUME NEW h, NEW d, CleanedUp(c, m, h, d) PROVE CgroupInv'
  <2>1. /\ h \in Tracked /\ Tracked' = Tracked \ {h} /\ rec[h].cgrp = d /\ d \in Cgrp
        /\ inq[c] = <<CleanupReq(d)>> /\ Tasks(d) = {} /\ cg' = cg
        /\ dirs' = dirs \ {d} /\ released' = released \ {d}
        /\ \A g \in Tracked' : rec'[g] = rec[g]
    BY <1>11, Shape DEF CleanedUp, IInv, TypeOK, TrackingOK
  <2>2. \A e : Tasks(e)' = Tasks(e)
    BY <1>3, <2>1 DEF Tasks
  <2>3. NamesUsed'
    BY <1>3, <1>4, <2>1 DEF NamesUsed, Made
  <2>4. EmptyStays'
    BY <1>4, <2>1, <2>2 DEF EmptyStays
  <2>5. \A g \in Tracked' : g \in Tracked /\ g # h /\ rec[g].cgrp # d
    BY <2>1 DEF CgroupsDiffer
  <2>6. CgroupsDiffer'
    BY <2>1, <2>5 DEF CgroupsDiffer
  <2>7. ReleaseNotLost'
    <3>1. \A e : e # d /\ CleanupUnderway(e) => CleanupUnderway(e)'
      <4>1. \A e : <<CleanupReq(d)>> = <<CleanupReq(e)>> => d = e
        <5>1. \A e : CleanupReq(e).cgrp = e
          BY DEF CleanupReq
        <5>2. \A x, y : <<x>> = <<y>> => x = y
          OBVIOUS
        <5>. QED BY <5>1, <5>2
      <4>. QED BY <1>5, <2>1, <4>1
    <3>. QED BY <2>1, <2>2, <2>5, <3>1 DEF ReleaseNotLost
  <2>8. (NoRestart => NoAppLost)'
    <3>1. \A q \in alive : cg[q] # d
      BY <2>1 DEF Tasks
    <3>. QED BY <1>3, <2>1, <2>5, <3>1 DEF NoRestart, NoAppLost
  <2>. QED BY <1>6, <2>3, <2>4, <2>6, <2>7, <2>8
<1>. QED BY <1>1, <1>8, <1>9, <1>10, <1>11

-----------------------------------------------------------------------------
(* The three layers together.                                              *)

(* They hold when the daemon starts: nobody is connected and no cgroup is  *)
(* there.                                                                  *)
LEMMA InitSafety == Init => SafetyInv
<1> SUFFICES ASSUME Init PROVE SafetyInv
  OBVIOUS
<1>1. /\ Live = {} /\ Tracked = {} /\ alive = {} /\ dirs = {} /\ released = {} /\ restarts = 0
      /\ id = [c \in Conn |-> NoIdentity] /\ inq = [c \in Conn |-> <<>>]
  BY DEF Init, LauncherInit, ClientsInit, CgroupsInit, Range, Live, Tracked
<1>2. ConnInv
  BY <1>1 DEF ConnInv, PeersKnown, PeersHold, SharedByHeirs, RequestAlone, RequestOrReply
<1>3. KillInv
  BY <1>1 DEF KillInv, KillersTold, StopByOwner, StoppedAfterSignalled
<1>4. CgroupInv
  <2>1. \A d : ~CleanupUnderway(d)
    <3>1. \A d : <<CleanupReq(d)>> # <<>>
      OBVIOUS
    <3>. QED BY <1>1, <3>1 DEF CleanupUnderway
  <2>. QED BY <1>1, <2>1 DEF CgroupInv, NamesUsed, EmptyStays, CgroupsDiffer, AgentsWait,
              ReleaseNotLost, NoAppLost, Made, Tasks
<1>. QED BY <1>2, <1>3, <1>4 DEF SafetyInv

(* A step that changes nothing keeps them.                                 *)
LEMMA StutterSafety ==
  ASSUME IInv, SafetyInv, UNCHANGED vars
  PROVE  SafetyInv'
<1>1. /\ UNCHANGED <<clients, id, out, alive, used, cg, dirs, released, inq, apps, rec,
                     st, conn, backlog, restarts>>
      /\ Live' = Live /\ Tracked' = Tracked
  BY DEF vars, clientVars, cgroupVars, launcherVars, systemVars, Live, Tracked
<1>2. ConnInv'
  <2>1. PeersKnown' /\ PeersHold' /\ SharedByHeirs'
    BY <1>1 DEF PeersKnown, PeersHold, SharedByHeirs, SafetyInv, ConnInv
  <2>2. RequestAlone'
    BY <1>1 DEF RequestAlone, SafetyInv, ConnInv, Mode, Holders
  <2>3. RequestOrReply'
    BY <1>1 DEF RequestOrReply, SafetyInv, ConnInv
  <2>. QED BY <2>1, <2>2, <2>3 DEF ConnInv
<1>3. KillInv'
  <2>1. KillersTold'
    BY <1>1 DEF KillersTold, SafetyInv, KillInv, Holders, ToldSignalled
  <2>2. StopByOwner' /\ StoppedAfterSignalled'
    BY <1>1 DEF StopByOwner, StoppedAfterSignalled, SafetyInv, KillInv
  <2>. QED BY <2>1, <2>2 DEF KillInv
<1>4. CgroupInv'
  BY <1>1, CgroupSame
<1>. QED BY <1>2, <1>3, <1>4 DEF SafetyInv

(* A new iot-launch in the mode of its request.                            *)
LEMMA StartSafety ==
  ASSUME IInv, SafetyInv, NEW p \in Pid, NEW uid \in Uid, NEW req \in Request,
         Mode(req) \in Waiting \ {"signalled"}, Start(p, Mode(req), uid, req),
         \/ req.type # "cleanup" /\ released' = released
         \/ \E d \in released : req = CleanupReq(d) /\ released' = released \ {d}
  PROVE  SafetyInv'
BY ConnStart, KillStart, CgroupStart DEF SafetyInv

(* Which kind of process sends which request.                              *)
LEMMA RequestModes ==
  /\ \A app, uid : Mode(SetupReq(app, uid)) = "setup" /\ SetupReq(app, uid).type # "cleanup"
  /\ \A app : Mode(StopReq(app)) = "stop" /\ StopReq(app).type # "cleanup"
  /\ \A d : Mode(CleanupReq(d)) = "agent"
  /\ Mode(ListReq) = "list" /\ ListReq.type # "cleanup"
BY DEF Mode, SetupReq, StopReq, CleanupReq, ListReq

(* recv_cb() of launch.c.                                                  *)
LEMMA RecvSafety ==
  ASSUME IInv, SafetyInv, NEW p \in Pid, Recv(p)
  PROVE  SafetyInv'
<1> DEFINE s == out[conn[p]]
           m == Head(s)
<1>1. /\ p \in alive /\ st[p] \in Waiting /\ conn[p] \in Conn /\ s \in Seq(Message) /\ s # <<>>
      /\ out' = [out EXCEPT ![conn[p]] = Tail(s)]
  BY Shape DEF Recv
<1>2. Tail(s) \in Seq(Message) /\ Tail(s) # s /\ m \in Message
  <2> HIDE DEF s, m
  <2>1. Len(s) \in Nat
    BY <1>1, LenProperties
  <2>2. Head(s) \in Message /\ Tail(s) \in Seq(Message) /\ Len(Tail(s)) = Len(s) - 1
    BY <1>1, HeadTailProperties
  <2>3. ASSUME Tail(s) = s PROVE FALSE
    <3>1. Len(s) = Len(s) - 1
      BY <2>2, <2>3, Zenon
    <3>. QED BY <2>1, <3>1
  <2>. QED BY <2>2, <2>3 DEF m
<1>3. ReadBy(p) /\ out' # out
  BY <1>1, <1>2, Shape DEF ReadBy
<1>4. ASSUME Exit(p) PROVE SafetyInv'
  BY <1>1, <1>3, <1>4, ConnExit, KillExit, CgroupProcessExit DEF SafetyInv
<1>5. ASSUME UNCHANGED <<clients, id, cgroupVars, launcherVars, conn, backlog, restarts>>
      PROVE  CgroupInv'
  BY <1>5, CgroupSame DEF cgroupVars, launcherVars, Tracked
<1>6. ASSUME st[p] = "setup", LaunchProcess(p) PROVE SafetyInv'
  <2>1. CASE /\ st' = [st EXCEPT ![p] = "app"]
             /\ UNCHANGED <<clients, id, cgroupVars, launcherVars, conn, backlog, restarts>>
    BY <1>1, <1>3, <1>5, <1>6, <2>1, Shape, ConnRead, KillRead DEF SafetyInv
  <2>2. ASSUME NEW q \in ChildPids, ForkChild(p, q),
               st' = [st EXCEPT ![q] = "app", ![p] = "exiting"]
        PROVE  SafetyInv'
    <3>1. q \in Pid
      BY Shape
    <3>. QED BY <1>1, <1>3, <1>6, <2>2, <3>1, ConnFork, KillFork, CgroupFork DEF SafetyInv
  <2>. QED BY <1>6, <2>1, <2>2 DEF LaunchProcess
<1>7. ASSUME st[p] = "stop", st' = [st EXCEPT ![p] = "signalled"],
             UNCHANGED <<clients, id, cgroupVars, launcherVars, conn, backlog, restarts>>
      PROVE  SafetyInv'
  BY <1>1, <1>3, <1>5, <1>7, Shape, ConnRead, KillRead DEF SafetyInv
<1>8. ASSUME m.type = "event", ~(m.event = "stopped" /\ st[p] \in {"stop", "signalled"}), Ignore
      PROVE  SafetyInv'
  <2>1. m.event = "stopped"
    BY <1>2, <1>8 DEF Message
  <2>2. st' = st /\ st[p] \notin {"stop", "signalled"} /\ m.type # "status"
    BY <1>8, <2>1 DEF Ignore
  <2>3. UNCHANGED <<clients, id, cgroupVars, launcherVars, conn, backlog, restarts>>
    BY <1>8 DEF Ignore
  <2>. QED BY <1>1, <1>3, <1>5, <2>2, <2>3, Shape, ConnRead, KillRead DEF SafetyInv
<1>. QED BY <1>4, <1>6, <1>7, <1>8 DEF Recv, RecvStatus, RecvEvent

(* Every step keeps them, one action of Next at a time.                    *)
LEMMA NextSafety == IInv /\ SafetyInv /\ [Next]_vars => SafetyInv'
<1> SUFFICES ASSUME IInv, SafetyInv, [Next]_vars PROVE SafetyInv'
  OBVIOUS
<1>1. CASE UNCHANGED vars
  BY <1>1, StutterSafety
<1>2. ASSUME NEW p \in Pid, StartSetup(p) PROVE SafetyInv'
  BY <1>2, StartSafety, ReqTypes, RequestModes DEF StartSetup, Waiting
<1>3. ASSUME NEW p \in Pid, StartStop(p) PROVE SafetyInv'
  BY <1>3, StartSafety, ReqTypes, RequestModes DEF StartStop, Waiting
<1>4. ASSUME NEW p \in Pid, StartList(p) PROVE SafetyInv'
  BY <1>4, StartSafety, ReqTypes, RequestModes DEF StartList, Waiting
<1>5. ASSUME NEW d \in Cgrp, StartAgent(d) PROVE SafetyInv'
  <2>1. PICK p \in AgentPids : Start(p, "agent", Root, CleanupReq(d))
    BY <1>5 DEF StartAgent
  <2>2. d \in released /\ released' = released \ {d} /\ p \in Pid
    BY <1>5, LaunchSystemAssumption DEF StartAgent
  <2>. QED BY <2>1, <2>2, StartSafety, ReqTypes, RequestModes, LauncherAssumption DEF Waiting
<1>6. ASSUME NEW p \in Pid, Recv(p) PROVE SafetyInv'
  BY <1>6, RecvSafety
<1>7. ASSUME NEW p \in Pid, LostConnection(p) PROVE SafetyInv'
  <2>1. CgroupInv'
    BY <1>7, CgroupSame DEF LostConnection, clientVars, cgroupVars, launcherVars, Tracked
  <2>. QED BY <1>7, <2>1, ConnLost, KillLost DEF SafetyInv
<1>8. ASSUME NEW p \in Pid, Quit(p) \/ ParentExit(p) PROVE SafetyInv'
  <2>1. p \in alive /\ Exit(p) /\ st[p] # "agent" /\ out' = out
    BY <1>8 DEF Quit, ParentExit
  <2>2. ReadBy(p)
    BY <2>1, Shape DEF ReadBy
  <2>. QED BY <2>1, <2>2, ConnExit, KillExit, CgroupProcessExit DEF SafetyInv
<1>9. ASSUME NEW p \in Pid, AppFork(p) PROVE SafetyInv'
  <2>1. PICK q \in ChildPids : ForkChild(p, q) /\ st' = [st EXCEPT ![q] = "app"]
    BY <1>9 DEF AppFork
  <2>2. q \in Pid /\ p \in alive /\ st[p] = "app" /\ out' = out
    BY <1>9, Shape DEF AppFork
  <2>3. ReadBy(p)
    BY <2>2, Shape DEF ReadBy
  <2>. QED BY <2>1, <2>2, <2>3, ConnFork, KillFork, CgroupFork DEF SafetyInv
<1>10. ASSUME NEW c \in Conn, LncConnect(c) PROVE SafetyInv'
  <2>1. CgroupInv'
    <3>1. /\ UNCHANGED <<alive, used, cg, dirs, released, restarts, rec>> /\ Tracked' = Tracked
          /\ \A e \in Conn : e # c => id'[e] = id[e] /\ inq'[e] = inq[e]
      BY <1>10, Shape DEF LncConnect, cgroupVars, Tracked
    <3>2. \/ inq'[c] = inq[c] /\ id'[c] = id[c]
          \/ inq'[c] = <<>> /\ id[c].pid \notin alive
      BY <1>10, Shape DEF LncConnect
    <3>3. \A d : <<CleanupReq(d)>> # <<>> /\ Head(<<CleanupReq(d)>>).type = "cleanup"
      BY DEF CleanupReq
    <3>4. \A d : inq[c] = <<CleanupReq(d)>> => id[c].pid \in alive
      BY <3>3 DEF SafetyInv, CgroupInv, AgentsWait
    <3>. QED BY <3>1, <3>2, <3>4, CgroupSame
  <2>. QED BY <1>10, <2>1, ConnConnect, KillConnect DEF SafetyInv
<1>11. ASSUME NEW c \in Conn, LncClosed(c) PROVE SafetyInv'
  <2>1. CgroupInv'
    <3>1. /\ UNCHANGED <<alive, used, cg, dirs, released, restarts, rec, inq>>
          /\ Tracked' = Tracked /\ inq[c] = <<>>
          /\ \A e \in Conn : e # c => id'[e] = id[e]
      BY <1>11, Shape DEF LncClosed, ClientDestroy, cgroupVars, launcherVars, systemVars, Tracked
    <3>. QED BY <3>1, CgroupSame
  <2>. QED BY <1>11, <2>1, ConnClosed, KillClosed DEF SafetyInv
<1>12. ASSUME NEW c \in Conn, Serve(c) PROVE SafetyInv'
  BY <1>12, ConnServe, KillServe, CgroupServe DEF SafetyInv
<1>13. ASSUME NEW h \in Handle, Sigkill(h) PROVE SafetyInv'
  BY <1>13, ConnSigkill, KillSigkill, CgroupSigkill DEF SafetyInv
<1>14. CASE Restart
  BY <1>14, ConnRestart, KillRestart, CgroupRestart DEF SafetyInv
<1>. QED BY <1>1, <1>2, <1>3, <1>4, <1>5, <1>6, <1>7, <1>8, <1>9, <1>10, <1>11, <1>12,
     <1>13, <1>14 DEF Next

(* Every reachable state satisfies them.                                   *)
LEMMA SafetyHolds == Spec => [](IInv /\ SafetyInv)
BY InitIInv, NextIInv, InitSafety, NextSafety, PTL DEF Spec

(* lnc_recv() answers every request exactly once: a client that waits for  *)
(* its status has its request queued or the status on its way, never both  *)
(* and never neither, however many clients, stops and restarts there are.  *)
THEOREM RequestOrReplyCorrect == Spec => []RequestOrReply
<1>1. SafetyInv => RequestOrReply
  BY DEF SafetyInv, ConnInv
<1>. QED BY <1>1, SafetyHolds, PTL

(* application_stop() and application_cleanup() send the status and the    *)
(* event in the order iot-launch --stop relies on, and event_send()        *)
(* reaches nobody else, although it picks its client by process id.        *)
THEOREM StoppedAfterSignalledCorrect == Spec => []StoppedAfterSignalled
<1>1. SafetyInv => StoppedAfterSignalled
  BY DEF SafetyInv, KillInv
<1>. QED BY <1>1, SafetyHolds, PTL

(* Whoever is noted as the killer of an application owns it or is root,    *)
(* for as long as the killer is connected.                                 *)
THEOREM StopByOwnerCorrect == Spec => []StopByOwner
<1>1. SafetyInv => StopByOwner
  BY DEF SafetyInv, KillInv
<1>. QED BY <1>1, SafetyHolds, PTL

(* The release of an application's cgroup is not lost between the kernel,  *)
(* the agent and the daemon: a tracked application without a process is    *)
(* about to be cleaned up.                                                 *)
THEOREM ReleaseNotLostCorrect == Spec => []ReleaseNotLost
<1>1. SafetyInv => ReleaseNotLost
  BY DEF SafetyInv, CgroupInv
<1>. QED BY <1>1, SafetyHolds, PTL

(* A daemon that was not restarted loses track of no application: every    *)
(* process in a cgroup belongs to a tracked application, whose cgroup      *)
(* exists.                                                                 *)
THEOREM NoAppLostCorrect == Spec => [](restarts = 0 => NoAppLost)
<1>1. SafetyInv => (restarts = 0 => NoAppLost)
  BY DEF SafetyInv, CgroupInv, NoRestart
<1>. QED BY <1>1, SafetyHolds, PTL

-----------------------------------------------------------------------------
(* The refinement.  PhaseOf and ProcsOf are what Lifecycle puts for the    *)
(* variables of AppLifecycle.                                              *)

PhaseOf == [h \in Handle |-> IF h \notin Tracked THEN "free"
                             ELSE IF rec[h].killer = NoPid THEN "running"
                             ELSE "stopping"]

ProcsOf == [h \in Handle |-> IF h \in Tracked THEN Tasks(rec[h].cgrp) ELSE {}]

FreeProcess(p) == \A h \in Handle : p \notin ProcsOf[h]

LifecycleStep == [Lifecycle!Next]_(Lifecycle!lifecycleVars)

(* Whatever leaves phases and processes alone is a stutter of              *)
(* AppLifecycle.                                                           *)
LEMMA LifecycleStutter ==
  ASSUME PhaseOf' = PhaseOf, ProcsOf' = ProcsOf
  PROVE  LifecycleStep
BY Zenon DEF LifecycleStep, PhaseOf, ProcsOf, Lifecycle!lifecycleVars

(* What a step of the launcher has to do to be one of AppLifecycle.        *)
LEMMA LifecycleActions ==
  ASSUME NEW h \in Handle
  PROVE  /\ \A p \in Pid :
              /\ PhaseOf[h] = "free" /\ FreeProcess(p)
              /\ PhaseOf' = [PhaseOf EXCEPT ![h] = "running"]
              /\ ProcsOf' = [ProcsOf EXCEPT ![h] = {p}]
              => LifecycleStep
         /\ \A p \in Pid :
              /\ ProcsOf[h] # {} /\ FreeProcess(p)
              /\ ProcsOf' = [ProcsOf EXCEPT ![h] = @ \cup {p}] /\ PhaseOf' = PhaseOf
              => LifecycleStep
         /\ \A p \in Pid :
              ProcsOf' = [ProcsOf EXCEPT ![h] = @ \ {p}] /\ PhaseOf' = PhaseOf
              => LifecycleStep
         /\ /\ PhaseOf[h] = "running" /\ ProcsOf' = ProcsOf
            /\ PhaseOf' = [PhaseOf EXCEPT ![h] = "stopping"]
            => LifecycleStep
         /\ /\ PhaseOf[h] # "free" /\ ProcsOf[h] = {} /\ ProcsOf' = ProcsOf
            /\ PhaseOf' = [PhaseOf EXCEPT ![h] = "free"]
            => LifecycleStep
         /\ \A S \in SUBSET ProcsOf[h] :
              \A C \in {{}} \cup {{q} : q \in {p \in Pid : FreeProcess(p)}} :
                /\ PhaseOf[h] = "stopping" /\ ProcsOf[h] # {} /\ PhaseOf' = PhaseOf
                /\ ProcsOf' = [ProcsOf EXCEPT ![h] = (@ \ S) \cup C]
                => LifecycleStep
<1>1. ASSUME NEW p \in Pid, PhaseOf[h] = "free", FreeProcess(p),
             PhaseOf' = [PhaseOf EXCEPT ![h] = "running"],
             ProcsOf' = [ProcsOf EXCEPT ![h] = {p}]
      PROVE  LifecycleStep
  <2>1. Lifecycle!Launch(h, p)
    BY <1>1, Zenon DEF FreeProcess, PhaseOf, ProcsOf, Lifecycle!Launch, Lifecycle!Free
  <2>. QED BY <2>1, Zenon DEF LifecycleStep, Lifecycle!Next
<1>2. ASSUME NEW p \in Pid, ProcsOf[h] # {}, FreeProcess(p), PhaseOf' = PhaseOf,
             ProcsOf' = [ProcsOf EXCEPT ![h] = @ \cup {p}]
      PROVE  LifecycleStep
  <2>1. Lifecycle!Fork(h, p)
    BY <1>2, Zenon DEF FreeProcess, PhaseOf, ProcsOf, Lifecycle!Fork, Lifecycle!Free
  <2>. QED BY <2>1, Zenon DEF LifecycleStep, Lifecycle!Next
<1>3. ASSUME NEW p \in Pid, ProcsOf' = [ProcsOf EXCEPT ![h] = @ \ {p}], PhaseOf' = PhaseOf
      PROVE  LifecycleStep
  <2>1. Lifecycle!End(h, p)
    BY <1>3, Zenon DEF PhaseOf, ProcsOf, Lifecycle!End
  <2>. QED BY <2>1, Zenon DEF LifecycleStep, Lifecycle!Next
<1>4. ASSUME PhaseOf[h] = "running", ProcsOf' = ProcsOf,
             PhaseOf' = [PhaseOf EXCEPT ![h] = "stopping"]
      PROVE  LifecycleStep
  <2>1. Lifecycle!Stop(h)
    BY <1>4, Zenon DEF PhaseOf, ProcsOf, Lifecycle!Stop
  <2>. QED BY <2>1, Zenon DEF LifecycleStep, Lifecycle!Next
<1>5. ASSUME PhaseOf[h] # "free", ProcsOf[h] = {}, ProcsOf' = ProcsOf,
             PhaseOf' = [PhaseOf EXCEPT ![h] = "free"]
      PROVE  LifecycleStep
  <2>1. Lifecycle!Forget(h)
    BY <1>5, Zenon DEF PhaseOf, ProcsOf, Lifecycle!Forget
  <2>. QED BY <2>1, Zenon DEF LifecycleStep, Lifecycle!Next
<1>6. ASSUME NEW S \in SUBSET ProcsOf[h],
             NEW C \in {{}} \cup {{q} : q \in {p \in Pid : FreeProcess(p)}},
             PhaseOf[h] = "stopping", ProcsOf[h] # {}, PhaseOf' = PhaseOf,
             ProcsOf' = [ProcsOf EXCEPT ![h] = (@ \ S) \cup C]
      PROVE  LifecycleStep
  <2>1. Lifecycle!Kill(h, S)
    BY <1>6, Zenon DEF FreeProcess, PhaseOf, ProcsOf, Lifecycle!Kill, Lifecycle!Free
  <2>. QED BY <2>1, Zenon DEF LifecycleStep, Lifecycle!Next, ProcsOf
<1>. QED BY <1>1, <1>2, <1>3, <1>4, <1>5, <1>6

(* A step that changes neither what is tracked and stopped nor where its   *)
(* processes are is no step of AppLifecycle.                               *)
LEMMA LifecycleSame ==
  ASSUME Tracked' = Tracked,
         \A h \in Tracked : rec'[h].killer = rec[h].killer /\ rec'[h].cgrp = rec[h].cgrp,
         \A h \in Tracked : Tasks(rec[h].cgrp)' = Tasks(rec[h].cgrp)
  PROVE  PhaseOf' = PhaseOf /\ ProcsOf' = ProcsOf
BY DEF PhaseOf, ProcsOf, Tasks

(* Processes come and go in the cgroup of one application at a time.       *)
LEMMA LifecycleProcs ==
  ASSUME IInv, SafetyInv, NEW h \in Tracked, Tracked' = Tracked, rec' = rec,
         \A d : d # rec[h].cgrp => Tasks(d)' = Tasks(d)
  PROVE  /\ PhaseOf' = PhaseOf /\ h \in Handle /\ ProcsOf[h] = Tasks(rec[h].cgrp)
         /\ ProcsOf' = [ProcsOf EXCEPT ![h] = Tasks(rec[h].cgrp)']
<1>1. h \in Handle /\ PhaseOf' = PhaseOf /\ ProcsOf[h] = Tasks(rec[h].cgrp)
  BY Shape DEF PhaseOf, ProcsOf
<1>2. \A g \in Tracked : g # h => rec[g].cgrp # rec[h].cgrp
  BY DEF SafetyInv, CgroupInv, CgroupsDiffer
<1>3. ASSUME NEW g \in Handle PROVE ProcsOf'[g] = [ProcsOf EXCEPT ![h] = Tasks(rec[h].cgrp)'][g]
  <2>1. CASE g = h
    BY <2>1 DEF ProcsOf, Tasks
  <2>2. CASE g # h /\ g \in Tracked
    BY <1>2, <2>2 DEF ProcsOf, Tasks
  <2>3. CASE g \notin Tracked
    BY <2>3 DEF ProcsOf
  <2>. QED BY <2>1, <2>2, <2>3
<1>. QED BY <1>1, <1>3 DEF ProcsOf

(* A process outside the cgroups of the applications is a process of none. *)
LEMMA LifecycleFree ==
  ASSUME IInv, NEW p \in Pid, p \notin alive \/ cg[p] = NoCgrp
  PROVE  FreeProcess(p)
<1>1. \A h \in Tracked : rec[h].cgrp \in Cgrp
  BY Shape DEF AppRec
<1>. QED BY <1>1, Shape DEF FreeProcess, ProcsOf, Tasks

(* A process in a cgroup belongs to the application it was made for.       *)
LEMMA LifecycleHome ==
  ASSUME IInv, SafetyInv, restarts = 0, NEW p \in alive, cg[p] # NoCgrp
  PROVE  \E h \in Tracked : rec[h].cgrp = cg[p]
BY DEF SafetyInv, CgroupInv, NoRestart, NoAppLost

(* A process ends.                                                         *)
LEMMA LifecycleExit ==
  ASSUME IInv, SafetyInv, restarts = 0, NEW p \in alive, Exit(p)
  PROVE  LifecycleStep
<1>1. /\ alive' = alive \ {p} /\ \A q \in alive \ {p} : cg'[q] = cg[q]
      /\ Tracked' = Tracked /\ rec' = rec /\ p \in Pid
  BY Shape DEF Exit, KernelExit, Tracked, launcherVars
<1>2. \A d : Tasks(d)' = Tasks(d) \ {p}
  BY <1>1 DEF Tasks
<1>3. ASSUME NEW h \in Tracked, rec[h].cgrp = cg[p] PROVE LifecycleStep
  <2>1. \A d : d # rec[h].cgrp => Tasks(d)' = Tasks(d)
    BY <1>2, <1>3 DEF Tasks
  <2>2. /\ PhaseOf' = PhaseOf /\ h \in Handle
        /\ ProcsOf' = [ProcsOf EXCEPT ![h] = ProcsOf[h] \ {p}]
    BY <1>1, <1>2, <2>1, LifecycleProcs
  <2>. QED BY <1>1, <2>2, LifecycleActions
<1>4. ASSUME cg[p] = NoCgrp PROVE LifecycleStep
  <2>1. \A h \in Tracked : Tasks(rec[h].cgrp)' = Tasks(rec[h].cgrp)
    <3>1. \A h \in Tracked : rec[h].cgrp \in Cgrp /\ p \notin Tasks(rec[h].cgrp)
      BY <1>4, Shape DEF Tasks, AppRec
    <3>2. \A h \in Tracked : Tasks(rec[h].cgrp)' = Tasks(rec[h].cgrp) \ {p}
      BY <1>1, <3>1 DEF Tasks
    <3>. QED BY <3>1, <3>2
  <2>2. PhaseOf' = PhaseOf /\ ProcsOf' = ProcsOf
    BY <1>1, <2>1, LifecycleSame
  <2>. QED BY <2>2, LifecycleStutter
<1>. QED BY <1>3, <1>4, LifecycleHome

(* A child starts.                                                         *)
LEMMA LifecycleFork ==
  ASSUME IInv, SafetyInv, restarts = 0, NEW p \in alive, NEW q \in Pid, ForkChild(p, q)
  PROVE  LifecycleStep
<1>1. /\ q \notin used /\ q \notin alive /\ alive' = alive \cup {q} /\ p \in Pid
      /\ cg'[q] = cg[p] /\ \A r \in alive : cg'[r] = cg[r]
      /\ Tracked' = Tracked /\ rec' = rec
  BY Shape DEF ForkChild, KernelSpawn, FreshPids, Tracked, launcherVars
<1>2. \A d : Tasks(d)' = IF d = cg[p] THEN Tasks(d) \cup {q} ELSE Tasks(d)
  BY <1>1 DEF Tasks
<1>3. ASSUME NEW h \in Tracked, rec[h].cgrp = cg[p] PROVE LifecycleStep
  <2>1. \A d : d # rec[h].cgrp => Tasks(d)' = Tasks(d)
    BY <1>2, <1>3
  <2>2. Tasks(rec[h].cgrp)' = Tasks(rec[h].cgrp) \cup {q}
    BY <1>1, <1>2, <1>3 DEF Tasks
  <2>3. /\ PhaseOf' = PhaseOf /\ h \in Handle /\ ProcsOf[h] # {}
        /\ ProcsOf' = [ProcsOf EXCEPT ![h] = ProcsOf[h] \cup {q}]
    BY <1>1, <1>3, <2>1, <2>2, LifecycleProcs DEF Tasks
  <2>. QED BY <1>1, <2>3, LifecycleFree, LifecycleActions
<1>4. ASSUME cg[p] = NoCgrp PROVE LifecycleStep
  <2>1. \A h \in Tracked : Tasks(rec[h].cgrp)' = Tasks(rec[h].cgrp)
    BY <1>1, <1>4, Shape DEF Tasks, AppRec
  <2>2. PhaseOf' = PhaseOf /\ ProcsOf' = ProcsOf
    BY <1>1, <2>1, LifecycleSame
  <2>. QED BY <2>2, LifecycleStutter
<1>. QED BY <1>3, <1>4, LifecycleHome

(* application_sigkill(): the processes the kill reaches are those of an   *)
(* application with a killer.                                              *)
LEMMA LifecycleSigkill ==
  ASSUME IInv, SafetyInv, NEW h \in Handle, Sigkill(h)
  PROVE  LifecycleStep
<1> USE DEF Killed
<1>1. PICK S, C, x : Killed(h, S, C, x)
  BY SigkillEffect DEF SafetyInv
<1>2. /\ h \in Tracked /\ Tracked' = Tracked /\ rec' = rec
      /\ \A q \in C : cg'[q] = rec[h].cgrp
      /\ \A q \in alive \ S : cg'[q] = cg[q]
      /\ alive' = (alive \ S) \cup C /\ S \subseteq Tasks(rec[h].cgrp)
      /\ C \cap alive = {} /\ S # {}
  BY <1>1, Shape DEF Tracked
<1>3. \A d : d # rec[h].cgrp => Tasks(d)' = Tasks(d)
  BY <1>2 DEF Tasks
<1>4. Tasks(rec[h].cgrp)' = (Tasks(rec[h].cgrp) \ S) \cup C
  BY <1>2 DEF Tasks
<1>5. /\ PhaseOf' = PhaseOf /\ ProcsOf[h] = Tasks(rec[h].cgrp)
      /\ ProcsOf' = [ProcsOf EXCEPT ![h] = (ProcsOf[h] \ S) \cup C]
  BY <1>2, <1>3, <1>4, LifecycleProcs
<1>6. PhaseOf[h] = "stopping" /\ ProcsOf[h] # {} /\ S \in SUBSET ProcsOf[h]
  BY <1>1, <1>2, <1>5 DEF PhaseOf
<1>7. C \in {{}} \cup {{q} : q \in {p \in Pid : FreeProcess(p)}}
  <2>1. \A q \in C : q \in Pid /\ FreeProcess(q)
    BY <1>1, <1>2, Shape, LifecycleFree
  <2>. QED BY <1>1, <2>1
<1>. QED BY <1>5, <1>6, <1>7, LifecycleActions

(* lnc_recv(): a request sets an application up, has one stopped, forgets  *)
(* one without processes, or changes nothing about them.                   *)
LEMMA LifecycleServe ==
  ASSUME IInv, SafetyInv, restarts = 0, NEW c \in Conn, Serve(c)
  PROVE  LifecycleStep
<1> USE DEF Replied
<1>1. PICK m : \/ NothingDone(c, m)
               \/ \E h, app, d : SetUp(c, m, h, app, d)
               \/ \E h : StopGranted(c, m, h)
               \/ \E h, d : CleanedUp(c, m, h, d)
  BY ServeEffect, Zenon
<1>2. ASSUME NothingDone(c, m) PROVE LifecycleStep
  <2>1. Tracked' = Tracked /\ rec' = rec /\ \A d : Tasks(d)' = Tasks(d)
    BY <1>2 DEF NothingDone, Tracked, cgroupVars, Tasks
  <2>2. PhaseOf' = PhaseOf /\ ProcsOf' = ProcsOf
    BY <2>1, LifecycleSame
  <2>. QED BY <2>2, LifecycleStutter
<1>3. ASSUME NEW h, NEW app, NEW d, SetUp(c, m, h, app, d) PROVE LifecycleStep
  <2>1. /\ h \in Handle /\ h \notin Tracked /\ Tracked' = Tracked \cup {h}
        /\ d \in Cgrp /\ d \notin dirs /\ d[3] \in alive /\ d[3] \in Pid /\ alive' = alive
        /\ cg' = [cg EXCEPT ![d[3]] = d] /\ d[3] = id[c].pid /\ inq[c] # <<>>
    BY <1>3, Shape DEF SetUp, CgroupMkdirDone
  <2>2. /\ rec' = [rec EXCEPT ![h] = [app |-> app, uid |-> d[1], cgrp |-> d, killer |-> NoPid]]
        /\ rec'[h].cgrp = d /\ rec'[h].killer = NoPid
        /\ \A g \in Tracked : rec'[g] = rec[g]
    BY <1>3, <2>1 DEF SetUp, Track, IInv, TypeOK, TrackingOK
  <2>3. cg[d[3]] = NoCgrp
    <3>1. c \in Live /\ conn[id[c].pid] = c
      BY <2>1, PendingFacts DEF SafetyInv, ConnInv, PeersHold
    <3>. QED BY <2>1, <3>1, PendingFacts DEF SafetyInv, Holders
  <2>4. Tasks(d) = {}
    <3>1. d # NoCgrp /\ \A g \in Tracked : rec[g].cgrp # d
      BY <2>1, Shape DEF SafetyInv, CgroupInv, CgroupsDiffer
    <3>. QED BY <3>1, LifecycleHome DEF Tasks
  <2>5. Tasks(d)' = {d[3]}
    BY <2>1, <2>4, Shape DEF Tasks
  <2>6. \A g \in Tracked : Tasks(rec[g].cgrp)' = Tasks(rec[g].cgrp)
    <3>1. \A g \in Tracked : rec[g].cgrp \in dirs /\ rec[g].cgrp # NoCgrp
      BY <2>1, Shape DEF SafetyInv, CgroupInv, CgroupsDiffer
    <3>2. \A q \in alive : cg'[q] = cg[q] \/ (q = d[3] /\ cg'[q] = d /\ cg[q] = NoCgrp)
      BY <2>1, <2>3, Shape
    <3>3. \A g \in Tracked : rec[g].cgrp # d /\ rec'[g].cgrp = rec[g].cgrp
      BY <2>1, <2>2, <3>1
    <3>. QED BY <2>1, <3>1, <3>2, <3>3 DEF Tasks
  <2>7. PhaseOf[h] = "free" /\ PhaseOf' = [PhaseOf EXCEPT ![h] = "running"]
    BY <2>1, <2>2 DEF PhaseOf
  <2>8. ProcsOf' = [ProcsOf EXCEPT ![h] = {d[3]}]
    <3>1. Tasks(rec[h].cgrp)' = {d[3]}
      BY <2>2, <2>5 DEF Tasks
    <3>2. \A g \in Handle : ProcsOf'[g] = [ProcsOf EXCEPT ![h] = {d[3]}][g]
      BY <2>1, <2>6, <3>1 DEF ProcsOf
    <3>. QED BY <3>2 DEF ProcsOf
  <2>9. FreeProcess(d[3])
    BY <2>1, <2>3, LifecycleFree
  <2>. QED BY <2>1, <2>7, <2>8, <2>9, LifecycleActions
<1>4. ASSUME NEW h, StopGranted(c, m, h) PROVE LifecycleStep
  <2>1. /\ h \in Tracked /\ h \in Handle /\ rec[h].killer = NoPid /\ Tracked' = Tracked
        /\ id[c].pid # NoPid /\ \A d : Tasks(d)' = Tasks(d)
        /\ rec' = [rec EXCEPT ![h].killer = id[c].pid]
    BY <1>4, Shape, PendingFacts, LauncherAssumption
       DEF StopGranted, cgroupVars, Tasks, SafetyInv
  <2>2. /\ rec'[h].killer = id[c].pid /\ rec'[h].cgrp = rec[h].cgrp
        /\ \A g \in Tracked : g # h => rec'[g] = rec[g]
    BY <2>1, Shape DEF IInv, TypeOK, TrackingOK, AppRec
  <2>3. PhaseOf[h] = "running" /\ PhaseOf' = [PhaseOf EXCEPT ![h] = "stopping"]
    BY <2>1, <2>2 DEF PhaseOf
  <2>4. ProcsOf' = ProcsOf
    <3>1. \A g \in Tracked : Tasks(rec[g].cgrp)' = Tasks(rec[g].cgrp)
      BY <1>4, <2>2 DEF StopGranted, cgroupVars, Tasks
    <3>. QED BY <2>1, <3>1 DEF ProcsOf
  <2>. QED BY <2>1, <2>3, <2>4, LifecycleActions
<1>5. ASSUME NEW h, NEW d, CleanedUp(c, m, h, d) PROVE LifecycleStep
  <2>1. /\ h \in Tracked /\ h \in Handle /\ rec[h].cgrp = d /\ Tracked' = Tracked \ {h}
        /\ Tasks(d) = {} /\ alive' = alive /\ cg' = cg
        /\ rec' = [rec EXCEPT ![h] = NoApp]
    BY <1>5, Shape DEF CleanedUp
  <2>2. /\ \A g \in Tracked' : rec'[g] = rec[g]
        /\ \A e : Tasks(e)' = Tasks(e)
    BY <2>1, Shape DEF IInv, TypeOK, TrackingOK, Tasks
  <2>3. PhaseOf[h] # "free" /\ PhaseOf' = [PhaseOf EXCEPT ![h] = "free"]
    BY <2>1, <2>2 DEF PhaseOf
  <2>4. ProcsOf[h] = {} /\ ProcsOf' = ProcsOf
    BY <2>1, <2>2 DEF ProcsOf, Tasks
  <2>. QED BY <2>1, <2>3, <2>4, LifecycleActions
<1>. QED BY <1>1, <1>2, <1>3, <1>4, <1>5

(* recv_cb(): what iot-launch does with a message.                         *)
LEMMA LifecycleRecv ==
  ASSUME IInv, SafetyInv, restarts = 0, NEW p \in Pid, Recv(p)
  PROVE  LifecycleStep
<1>1. p \in alive
  BY DEF Recv
<1>2. ASSUME NEW q \in ChildPids, ForkChild(p, q) PROVE LifecycleStep
  BY <1>1, <1>2, LifecycleFork, Shape
<1>3. ASSUME UNCHANGED <<cgroupVars, launcherVars>> PROVE LifecycleStep
  <2>1. Tracked' = Tracked /\ rec' = rec /\ \A d : Tasks(d)' = Tasks(d)
    BY <1>3 DEF launcherVars, Tracked, cgroupVars, Tasks
  <2>2. PhaseOf' = PhaseOf /\ ProcsOf' = ProcsOf
    BY <2>1, LifecycleSame
  <2>. QED BY <2>2, LifecycleStutter
<1>. QED BY <1>1, <1>2, <1>3, LifecycleExit
     DEF Recv, RecvStatus, RecvEvent, LaunchProcess, Ignore

(* Every step of a launcher that is not restarted.                         *)
LEMMA LifecycleNext ==
  ASSUME IInv, SafetyInv, [Next]_vars, restarts' = 0
  PROVE  LifecycleStep
<1>1. ASSUME Tracked' = Tracked, rec' = rec, \A d \in Cgrp : Tasks(d)' = Tasks(d)
      PROVE  LifecycleStep
  <2>1. \A h \in Tracked : Tasks(rec[h].cgrp)' = Tasks(rec[h].cgrp)
    BY <1>1, Shape DEF AppRec
  <2>2. PhaseOf' = PhaseOf /\ ProcsOf' = ProcsOf
    BY <1>1, <2>1, LifecycleSame
  <2>. QED BY <2>2, LifecycleStutter
<1>2. CASE UNCHANGED vars
  <2>1. Tracked' = Tracked /\ rec' = rec /\ \A d \in Cgrp : Tasks(d)' = Tasks(d)
    BY <1>2 DEF vars, launcherVars, cgroupVars, Tracked, Tasks
  <2>. QED BY <1>1, <2>1
<1>3. ASSUME NEW p \in Pid, NEW mode, NEW uid, NEW req, Start(p, mode, uid, req)
      PROVE  LifecycleStep
  <2>1. /\ Tracked' = Tracked /\ rec' = rec
        /\ alive' = alive \cup {p} /\ cg' = [cg EXCEPT ![p] = NoCgrp] /\ p \notin alive
    BY <1>3, Shape DEF Start, KernelSpawn, FreshPids, Tracked
  <2>2. \A d \in Cgrp : Tasks(d)' = Tasks(d)
    BY <2>1, Shape DEF Tasks
  <2>. QED BY <1>1, <2>1, <2>2
<1>4. ASSUME NEW p \in Pid, StartSetup(p) \/ StartStop(p) \/ StartList(p) PROVE LifecycleStep
  BY <1>3, <1>4 DEF StartSetup, StartStop, StartList
<1>5. ASSUME NEW d \in Cgrp, StartAgent(d) PROVE LifecycleStep
  BY <1>3, <1>5, LaunchSystemAssumption DEF StartAgent
<1>6. CASE Restart
  BY <1>6 DEF Restart, IInv, TypeOK, ProcessesOK
<1>7. ASSUME ~Restart, Next PROVE restarts = 0
  BY <1>7 DEF Next, StartSetup, StartStop, StartList, StartAgent, Start, Recv, RecvStatus,
     RecvEvent, LaunchProcess, Ignore, Exit, ForkChild, LostConnection, Quit, ParentExit,
     AppFork, LncConnect, LncClosed, Serve, Sigkill, systemVars
<1>8. ASSUME restarts = 0, NEW p \in Pid, Recv(p) PROVE LifecycleStep
  BY <1>8, LifecycleRecv
<1>9. ASSUME NEW p \in Pid, LostConnection(p) PROVE LifecycleStep
  <2>1. Tracked' = Tracked /\ rec' = rec /\ \A d \in Cgrp : Tasks(d)' = Tasks(d)
    BY <1>9 DEF LostConnection, launcherVars, cgroupVars, Tracked, Tasks
  <2>. QED BY <1>1, <2>1
<1>10. ASSUME restarts = 0, NEW p \in Pid, Quit(p) \/ ParentExit(p) PROVE LifecycleStep
  BY <1>10, LifecycleExit DEF Quit, ParentExit
<1>11. ASSUME restarts = 0, NEW p \in Pid, AppFork(p) PROVE LifecycleStep
  BY <1>11, LifecycleFork, Shape DEF AppFork
<1>12. ASSUME NEW c \in Conn, LncConnect(c) \/ LncClosed(c) PROVE LifecycleStep
  <2>1. Tracked' = Tracked /\ rec' = rec /\ \A d \in Cgrp : Tasks(d)' = Tasks(d)
    BY <1>12 DEF LncConnect, LncClosed, launcherVars, cgroupVars, Tracked, Tasks
  <2>. QED BY <1>1, <2>1
<1>13. ASSUME restarts = 0, NEW c \in Conn, Serve(c) PROVE LifecycleStep
  BY <1>13, LifecycleServe
<1>14. ASSUME NEW h \in Handle, Sigkill(h) PROVE LifecycleStep
  BY <1>14, LifecycleSigkill
<1>. QED BY <1>2, <1>4, <1>5, <1>6, <1>7, <1>8, <1>9, <1>10, <1>11, <1>12, <1>13, <1>14
     DEF Next

(* What the launcher does to its applications is what AppLifecycle says,   *)
(* for as long as the daemon is not restarted.                             *)
THEOREM LifecycleUntilRestart ==
  Spec => Lifecycle!Init
          /\ [][restarts' = 0 => [Lifecycle!Next]_(Lifecycle!lifecycleVars)]_vars
<1>1. Init => Lifecycle!Init
  BY DEF Init, LauncherInit, Tracked, Range, Lifecycle!Init
<1>2. IInv /\ SafetyInv /\ [Next]_vars
        => [restarts' = 0 => [Lifecycle!Next]_(Lifecycle!lifecycleVars)]_vars
  BY LifecycleNext DEF LifecycleStep
<1>. QED BY <1>1, <1>2, SafetyHolds, PTL DEF Spec

(* A launcher whose daemon does not die implements AppLifecycle: its       *)
(* initial states and its steps map to those of AppLifecycle.              *)
THEOREM LifecycleRefined ==
  Spec /\ MaxRestarts = 0
    => Lifecycle!Init /\ [][Lifecycle!Next]_(Lifecycle!lifecycleVars)
<1> DEFINE NeverDies == restarts = 0 /\ MaxRestarts = 0
<1>1. Init => Lifecycle!Init /\ restarts = 0
  BY DEF Init, LauncherInit, Tracked, Range, Lifecycle!Init
<1>2. NeverDies /\ [Next]_vars => NeverDies'
  <2>1. ASSUME Restart, NeverDies PROVE FALSE
    BY <2>1 DEF Restart
  <2>2. ASSUME Next, ~Restart PROVE restarts' = restarts
    BY <2>2 DEF Next, StartSetup, StartStop, StartList, StartAgent, Start, Recv, RecvStatus,
       RecvEvent, LaunchProcess, Ignore, Exit, ForkChild, LostConnection, Quit, ParentExit,
       AppFork, LncConnect, LncClosed, Serve, Sigkill, systemVars
  <2>. QED BY <2>1, <2>2 DEF vars, systemVars
<1>3. IInv /\ SafetyInv /\ NeverDies /\ [Next]_vars
        => [Lifecycle!Next]_(Lifecycle!lifecycleVars)
  BY <1>2, LifecycleNext DEF LifecycleStep
<1>. HIDE DEF NeverDies
<1>4. Init /\ MaxRestarts = 0 => NeverDies
  BY <1>1 DEF NeverDies
<1>. QED BY <1>1, <1>2, <1>3, <1>4, SafetyHolds, PTL DEF Spec
=============================================================================
