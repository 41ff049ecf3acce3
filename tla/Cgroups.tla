------------------------------ MODULE Cgroups ------------------------------
(***************************************************************************)
(* cgroup.c over the part of the kernel it drives: a cgroup-v1 hierarchy   *)
(* mounted with notify_on_release and a release agent.  An application     *)
(* runs in the directory user-<uid>/<base>-<pid>, written <<uid, base,     *)
(* pid>> here, where pid is the process that asked for its setup.  The     *)
(* user-<uid> directories are left out: cgroup_mkdir() makes a missing one *)
(* and nothing else depends on them.                                       *)
(*                                                                         *)
(* Kernel side (external): a process is in exactly one cgroup and a child  *)
(* starts in its parent's; when the last process of a directory exits or   *)
(* moves away the release agent is due to be run for it, once; a           *)
(* directory with a process in it cannot be removed, and removing one      *)
(* cancels a release that is due but whose agent was not started yet.      *)
(***************************************************************************)
EXTENDS Naturals, FiniteSets

CONSTANTS
  Pid,        \* process ids
  Uid,        \* user ids
  Base,       \* base names of executables
  NoCgrp,     \* outside the hierarchy: every process that is no application
  SignalCap   \* process ids that fit the 4095 bytes cgroup_signal() reads

Cgrp == Uid \X Base \X Pid

ASSUME CgroupsAssumption ==
  /\ NoCgrp \notin Cgrp
  /\ SignalCap \in Nat \ {0}

VARIABLES
  alive,     \* processes that exist
  used,      \* process ids given out so far
  cg,        \* the cgroup of each process
  dirs,      \* application directories that exist
  released   \* directories whose release agent is due but not started yet

cgroupVars == <<alive, used, cg, dirs, released>>

Tasks(d) == {p \in alive : cg[p] = d}

(* The kernel hands out process ids in turn: an id does not come back as   *)
(* long as anybody remembers it.                                           *)
FreshPids == Pid \ used

(* The kernel's check_for_release(): the directories that lose their last  *)
(* process when the processes alive become a2, each in its cgroup of cg2.  *)
Emptied(a2, cg2) ==
  {d \in dirs : Tasks(d) # {} /\ \A p \in a2 : cg2[p] # d}

(* A process q starts in cgroup d.                                         *)
KernelSpawn(q, d) ==
  /\ q \in FreshPids
  /\ alive' = alive \cup {q}
  /\ used' = used \cup {q}
  /\ cg' = [cg EXCEPT ![q] = d]

(* The processes of S end, and the children C that one of them forked in   *)
(* the same cgroup d just before stay behind.                              *)
KernelExit(S, C, d) ==
  LET left == (alive \ S) \cup C
      place == [p \in Pid |-> IF p \in C THEN d
                              ELSE IF p \in S THEN NoCgrp ELSE cg[p]]
  IN  /\ alive' = left
      /\ used' = used \cup C
      /\ cg' = place
      /\ released' = released \cup Emptied(left, place)

(* rmdir() of the directory d: what is left of dirs, and of released.      *)
DirsAfterRmdir(d) == IF Tasks(d) = {} THEN dirs \ {d} ELSE dirs

(* cgroup_mkdir(): makes the leaf and moves the process into it.           *)
M_CgroupMkdirOk(d) == d \notin dirs
CgroupMkdirOk(d) == d \notin dirs /\ d[3] \in alive

CgroupMkdirDone(d) ==
  /\ dirs' = dirs \cup {d}
  /\ cg' = [cg EXCEPT ![d[3]] = d]
  /\ released' = released \cup Emptied(alive, [cg EXCEPT ![d[3]] = d])
  /\ UNCHANGED <<alive, used>>

(* Its cleanup label: the leaf may be one that was there before (EEXIST),  *)
(* or the new one when the process is gone and cannot be written to tasks. *)
CgroupMkdirFailed(d) ==
  /\ dirs' = DirsAfterRmdir(d)
  /\ released' = released \ (dirs \ DirsAfterRmdir(d))
  /\ UNCHANGED <<alive, used, cg>>

(* cgroup_rmdir(): fails when there still is a process in the directory.   *)
CgroupRmdir(d) ==
  /\ dirs' = DirsAfterRmdir(d)
  /\ released' = released \ (dirs \ DirsAfterRmdir(d))
  /\ UNCHANGED <<alive, used, cg>>

(* cgroup_signal() with SIGKILL: it reads the task list, then kills what   *)
(* it read, at most SignalCap processes; a child forked in between is not  *)
(* on the list and survives.                                               *)
Killable(d) ==
  {S \in SUBSET Tasks(d) :
     \/ Cardinality(S) = SignalCap
     \/ S = Tasks(d) /\ Cardinality(S) < SignalCap}

CgroupsInit ==
  /\ alive = {} /\ used = {}
  /\ cg = [p \in Pid |-> NoCgrp]
  /\ dirs = {} /\ released = {}

(* Only directories that exist are due for release.                        *)
CgroupsOK ==
  /\ alive \subseteq used /\ used \subseteq Pid
  /\ cg \in [Pid -> Cgrp \cup {NoCgrp}]
  /\ released \subseteq dirs /\ dirs \subseteq Cgrp
=============================================================================
