--------------------------- MODULE MCLaunchSystem ---------------------------
(***************************************************************************)
(* Values for the constants of LaunchSystem that a configuration cannot    *)
(* write, and the symmetry of its model values: launches are alike, and so *)
(* are stoppers, agents and records.                                       *)
(***************************************************************************)
EXTENDS LaunchSystem

MCIdentity == [uid : Uid, pid : Pid]

MCExecBase == [a \in App |-> CHOOSE b \in Base : TRUE]

MCSymmetry ==
  Permutations(SetupPids) \cup Permutations(StopPids) \cup
  Permutations(AgentPids) \cup Permutations(Handle)
=============================================================================
