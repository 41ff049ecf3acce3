---------------------------- MODULE LaunchClient ----------------------------
(***************************************************************************)
(* How iot-launch becomes the application it starts: the identities it     *)
(* takes on, the credentials it gives up and the signals it blocks on the  *)
(* way from main() to execv().  LaunchSystem has what it says to the       *)
(* daemon meanwhile; here the daemon is a reply that may come, and a       *)
(* SIGTERM that may come at any time.                                      *)
(*                                                                         *)
(* iot-launch may be installed setuid root.  What it does depends on two   *)
(* options of the build, the Security-Manager and the development mode,    *)
(* and in the latter on overrides root gives on the command line.          *)
(***************************************************************************)
EXTENDS Sequences, SequencesExt

CONSTANTS
  Ids, RootId,    \* user ids, which serve as group ids, too
  OwnGroups,      \* supplementary groups of the one who runs it
  OtherGroups     \* those that the privileges of an application stand for

ASSUME LaunchClientAssumption ==
  /\ RootId \in Ids
  /\ {OwnGroups, OtherGroups} \subseteq Seq(Ids)

None == "none"

VARIABLES
  build,      \* the options of the build that are on
  override,   \* what is overridden on the command line
  forks,      \* --fork
  at,         \* what iot-launch does next
  uids, gids, \* real, effective and saved ids
  saved,      \* _iot_suid and _iot_ruid, which save_userid() keeps
  groups,     \* supplementary groups
  permitted,  \* the process may use its capabilities
  smack,      \* its label
  lUid, lGids,       \* l->uid and l->gids
  blocks, pends,     \* SIGTERM is blocked, and pending
  quits,             \* ml->quit
  termed             \* history: a SIGTERM has been sent

idVars == <<uids, gids, groups, permitted, smack>>
optVars == <<build, override, forks, saved>>
sigVars == <<blocks, pends, quits, termed>>
clientVars == <<optVars, at, idVars, lUid, lGids, sigVars>>

----------------------------------------------------------------------------
\* The kernel.

Capable == permitted /\ uids.eff = RootId

MaySet(ids, id) == Capable \/ id \in {ids.real, ids.eff, ids.saved}

\* Capabilities go with the last id that is root's.
KeepCaps(ids) == permitted' = (permitted /\ RootId \in {ids.real, ids.eff, ids.saved})

\* setreuid(-1, id)
SetEffective(ids, id) ==
  [ids EXCEPT !.eff = id, !.saved = IF id # ids.real THEN id ELSE @]

All(id) == [real |-> id, eff |-> id, saved |-> id]

----------------------------------------------------------------------------

ClientInit ==
  /\ build \in SUBSET {"security-manager", "devel"}
  /\ override = {} /\ forks = FALSE
  /\ at = "main"
  /\ \E user \in Ids, setuid \in BOOLEAN :
       LET suid == IF setuid THEN RootId ELSE user
       IN  /\ uids = [real |-> user, eff |-> suid, saved |-> suid]
           /\ gids = All(user)
           /\ saved = [suid |-> suid, ruid |-> user]
           /\ permitted = (RootId \in {user, suid})
  /\ groups = OwnGroups
  /\ smack = None
  /\ lUid = uids.real /\ lGids = <<>>
  /\ blocks = FALSE /\ pends = FALSE /\ quits = FALSE /\ termed = FALSE

GoOn(step) == at' = step

\* launch_fail(), and the exit() after a failed launch_process()
Fail ==
  /\ GoOn("exited")
  /\ UNCHANGED <<optVars, idVars, lUid, lGids, sigVars>>

\* main(): run as the real user for now, with the signals handled.
SwitchReal ==
  /\ at = "main"
  /\ uids' = SetEffective(uids, saved.ruid)
  /\ KeepCaps(uids')
  /\ blocks' = TRUE
  /\ GoOn("options")
  /\ UNCHANGED <<optVars, gids, groups, smack, lUid, lGids, pends, quits, termed>>

\* parse_cmdline(): only root in development mode has overrides.
ParseCmdline ==
  /\ at = "options"
  /\ forks' \in BOOLEAN
  /\ override' \in IF "devel" \in build /\ uids.real = RootId
                   THEN SUBSET {"user", "groups", "label", "privileges", "manifest"} ELSE {{}}
  /\ GoOn("identities")
  /\ UNCHANGED <<build, saved, idVars, lUid, lGids, sigVars>>

\* resolve_identities(): iot_get_groups() takes the length of the last group
\* named from a null pointer, so that no list of groups is survived.
ResolveIdentities ==
  /\ at = "identities"
  /\ IF "groups" \in override
     THEN /\ GoOn("killed")
          /\ UNCHANGED <<lUid, lGids>>
     ELSE /\ lUid' \in IF "user" \in override THEN Ids ELSE {uids.real}
          /\ lGids' = <<gids.real>> \o groups
          /\ GoOn("manifest")
  /\ UNCHANGED <<optVars, idVars, sigVars>>

\* resolve_manifest() or override_manifest(), resolve_appid(), the request,
\* and the connection
SendRequest ==
  /\ at = "manifest"
  /\ GoOn("wait")
  /\ UNCHANGED <<optVars, idVars, lUid, lGids, sigVars>>

\* Any of these may fail.
GiveUp == at \in {"identities", "manifest"} /\ Fail

\* recv_cb(): a mainloop that has quit dispatches nothing more.
M_RecvReply ==
  /\ at = "wait"
  /\ \/ GoOn("suid") /\ UNCHANGED <<optVars, idVars, lUid, lGids, sigVars>>
     \/ Fail
RecvReply ==
  /\ at = "wait" /\ ~quits
  /\ \/ GoOn("suid") /\ UNCHANGED <<optVars, idVars, lUid, lGids, sigVars>>
     \/ Fail

\* signal_handler(): read from the signalfd in the mainloop only
HandleSignal ==
  /\ at = "wait" /\ pends
  /\ pends' = FALSE
  /\ quits' = TRUE
  /\ UNCHANGED <<optVars, at, idVars, lUid, lGids, blocks, termed>>

RunReturns == at = "wait" /\ quits /\ Fail

----------------------------------------------------------------------------
\* security_setup()

SecurityManager == "security-manager" \in build

\* The development mode's own setup, which needs the Security-Manager.
Overridden ==
  SecurityManager /\ override \cap {"label", "user", "groups", "privileges"} # {}

\* iot_switch_userid(IOT_USERID_SUID)
SwitchSuid ==
  /\ at = "suid"
  /\ uids' = SetEffective(uids, saved.suid)
  /\ UNCHANGED <<permitted, gids>>
  /\ GoOn(IF SecurityManager THEN "label" ELSE "groups")
  /\ UNCHANGED <<optVars, groups, smack, lUid, lGids, sigVars>>

\* set_smack_label(), security_manager_set_process_label_from_appid(): both
\* set the label of the application.
SetLabel ==
  /\ at = "label"
  /\ IF Capable
     THEN /\ smack' = "application"
          /\ GoOn("groups")
          /\ UNCHANGED <<optVars, uids, gids, groups, permitted, lUid, lGids, sigVars>>
     ELSE Fail

\* set_groups(): without the right to, they must be those there are.
SetGroups ==
  /\ at = "groups" /\ (SecurityManager => Overridden)
  /\ IF Capable \/ <<gids.real>> \o groups = lGids
     THEN /\ groups' = IF Capable THEN lGids ELSE groups
          /\ GoOn("user")
          /\ UNCHANGED <<optVars, uids, gids, permitted, smack, lUid, lGids, sigVars>>
     ELSE Fail

\* security_manager_set_process_groups_from_appid(): those of the
\* application's privileges are added.
SetGroupsFromAppid ==
  /\ at = "groups" /\ SecurityManager /\ ~Overridden
  /\ IF Capable
     THEN /\ groups' \in {groups, groups \o OtherGroups}
          /\ GoOn("user")
          /\ UNCHANGED <<optVars, uids, gids, permitted, smack, lUid, lGids, sigVars>>
     ELSE Fail

\* set_user() of the development mode
SetUser ==
  /\ at = "user" /\ Overridden
  /\ IF MaySet(uids, lUid)
     THEN /\ uids' = All(lUid)
          /\ KeepCaps(uids')
          /\ GoOn("drop")
          /\ UNCHANGED <<optVars, gids, groups, smack, lUid, lGids, sigVars>>
     ELSE Fail

\* iot_switch_userid(IOT_USERID_DROP): setresuid(), then setresgid()
M_SwitchDrop ==
  /\ at = "user" /\ ~Overridden
  /\ uids' = SetEffective(uids, saved.ruid)
  /\ KeepCaps(uids')
  /\ gids' = All(gids.real)
  /\ saved' = [saved EXCEPT !.suid = saved.ruid]
  /\ GoOn("drop")
  /\ UNCHANGED <<build, override, forks, groups, smack, lUid, lGids, sigVars>>
SwitchDrop ==
  /\ at = "user" /\ ~Overridden
  /\ uids' = All(saved.ruid)
  /\ KeepCaps(uids')
  /\ gids' = All(gids.real)
  /\ saved' = [saved EXCEPT !.suid = saved.ruid]
  /\ GoOn("drop")
  /\ UNCHANGED <<build, override, forks, groups, smack, lUid, lGids, sigVars>>

\* drop_privileges(), security_manager_drop_process_privileges()
DropPrivileges ==
  /\ at = "drop"
  /\ permitted' = FALSE
  /\ GoOn("unblock")
  /\ UNCHANGED <<optVars, uids, gids, groups, smack, lUid, lGids, sigVars>>

SetupFails == at \in {"label", "groups", "user", "drop"} /\ Fail

----------------------------------------------------------------------------
\* launch_process()

\* remove_signal_handlers(): a SIGTERM that is pending kills.
RemoveSignalHandlers ==
  /\ at = "unblock"
  /\ blocks' = FALSE /\ pends' = FALSE
  /\ GoOn(IF pends THEN "killed" ELSE "exec")
  /\ UNCHANGED <<optVars, idVars, lUid, lGids, quits, termed>>

\* The parent's exit() is not followed here, nor is a failed fork().
Execv ==
  /\ at = "exec"
  /\ GoOn("running") /\ UNCHANGED <<optVars, idVars, lUid, lGids, sigVars>>

ExecFails == at = "exec" /\ Fail

\* application_sigterm() of the daemon, or anybody else: the child of a fork
\* has a life of its own.
Sigterm ==
  /\ at \notin {"exited", "killed", "running"} /\ ~(at = "exec" /\ forks)
  /\ termed' = TRUE
  /\ IF blocks THEN pends' = TRUE /\ UNCHANGED at ELSE GoOn("killed") /\ UNCHANGED pends
  /\ UNCHANGED <<optVars, idVars, lUid, lGids, blocks, quits>>

ClientNext ==
  \/ SwitchReal \/ ParseCmdline \/ ResolveIdentities \/ SendRequest \/ GiveUp
  \/ RecvReply \/ HandleSignal \/ RunReturns
  \/ SwitchSuid \/ SetLabel \/ SetGroups \/ SetGroupsFromAppid \/ SetUser
  \/ SwitchDrop \/ DropPrivileges \/ SetupFails
  \/ RemoveSignalHandlers \/ Execv \/ ExecFails \/ Sigterm

----------------------------------------------------------------------------
\* However iot-launch was installed and built, and whichever of its calls was
\* refused: what it executes has one user id, with no way back to another, the
\* groups and the label resolved for it, no capability, and no signal blocked.
\* The id is the one its request and its application id were made for, but in
\* a build without the Security-Manager, where the -U of a developer changes
\* the request only.
RunsAsUser ==
  at = "running" =>
    /\ uids = All(IF SecurityManager THEN lUid ELSE uids.real)
    /\ uids.real # lUid => "user" \in override
    /\ \A i \in DOMAIN lGids \ {1} : lGids[i] \in Range(groups)
    /\ SecurityManager => smack = "application"
    /\ ~permitted /\ ~blocks

\* A SIGTERM, by which the daemon stops an application it has just set up, is
\* not lost wherever it finds iot-launch: the application does not start.
TermHonoured == at = "running" => ~termed
=============================================================================
