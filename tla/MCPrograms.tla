----------------------------- MODULE MCPrograms -----------------------------
(***************************************************************************)
(* The manifests in memory, the map of one manifest from paths to types,   *)
(* the package manager, iot-launch on its way to execv(), and iot_mkdir(). *)
(* They share no state here (the manifest of a package is part of its      *)
(* contents), so a behaviour is one of one of them.                        *)
(***************************************************************************)
EXTENDS Manifests, PathMap, PackageManager, LaunchClient, DirTree, TLC

CONSTANTS f1, g1, g2, d1, d2, p1, p2, p3, p4, u0, u1, c1, c2, n1, n2, n3

VARIABLE machine

vars == <<machine, manVars, pmVars, pmgrVars, clientVars, treeVars>>

-----------------------------------------------------------------------------
\* One pattern matches the file, and the other does not; the file is in the
\* directory of the second application.
Globs == g1 :> {f1} @@ g2 :> {}
SecondDir == f1 :> d2

FileTypes == {
  <<[type |-> "rw", paths |-> <<f1>>]>>,
  <<[type |-> "rw", paths |-> <<g2>>], [type |-> "ro", paths |-> <<g1>>]>>,
  <<[type |-> "rw", paths |-> <<g1>>], [type |-> "ro", paths |-> <<g1, f1>>]>>,
  <<[type |-> "ro", paths |-> <<g2>>]>> }

OneOrTwo ==
  {<<[dir |-> d1, fileTypes |-> x]>> : x \in FileTypes} \cup
  {<<[dir |-> d1, fileTypes |-> x], [dir |-> d2, fileTypes |-> y]>> : x, y \in FileTypes}

-----------------------------------------------------------------------------
\* A package with two applications, one whose manifest is refused, one with a
\* script, and one with a file that changes the user.
PkgFile(place, dir, owner) ==
  [place |-> place, dir |-> dir, owner |-> owner, othersWrite |-> FALSE, setid |-> FALSE]

GoodFiles ==
  << PkgFile("above", TRUE, "root"), PkgFile("apps", TRUE, "user"),
     PkgFile("own", FALSE, "user"), PkgFile("manifest", FALSE, "root") >>

Setid == [PkgFile("own", FALSE, "user") EXCEPT !.setid = TRUE]

Needed == {"application", "description", "privileges", "execute"}

FourPackages ==
  p1 :> [files |-> GoodFiles, scripts |-> {}, apps |-> <<Needed, Needed \cup {"desktop"}>>] @@
  p2 :> [files |-> GoodFiles, scripts |-> {}, apps |-> <<Needed \cup {"file-types"}>>] @@
  p3 :> [files |-> GoodFiles, scripts |-> {"post-install"}, apps |-> <<Needed>>] @@
  p4 :> [files |-> Append(GoodFiles, Setid), scripts |-> {}, apps |-> <<Needed>>]

FourFiles ==
  << [name |-> "Packages", database |-> TRUE], [name |-> "__db.001", database |-> FALSE],
     [name |-> "Name", database |-> TRUE], [name |-> "notes", database |-> FALSE] >>

-----------------------------------------------------------------------------
\* The groups of the user, and one more of the application's privileges.
TheirGroups == <<u1>>
PrivilegeGroups == <<u0>>

\* Two paths that part below their first component.
TwoPaths == c1 :> <<n1, n2, n3>> @@ c2 :> <<n1, n3>>

-----------------------------------------------------------------------------
\* A machine that does not run stays in one of its initial states.

Init ==
  /\ machine \in {"manifests", "pathmap", "iotpm", "iot-launch", "mkdir"}
  /\ ManInit /\ PmInit /\ PmgrInit /\ ClientInit /\ TreeInit
  /\ machine # "manifests" => \A f \in File : files[f] = "none"
  /\ machine # "pathmap" => apps = CHOOSE as \in Apps : TRUE
  /\ machine # "iotpm" => backend = "rpm4" /\ ~enabled
  /\ machine # "iot-launch" => build = {} /\ uids = All(RootId)
  /\ machine # "mkdir" => dirs = {}

Stays(name, vs) == IF machine = name THEN TRUE ELSE UNCHANGED vs

OthersStay ==
  /\ UNCHANGED machine
  /\ Stays("manifests", manVars)
  /\ Stays("pathmap", pmVars)
  /\ Stays("iotpm", pmgrVars)
  /\ Stays("iot-launch", clientVars)
  /\ Stays("mkdir", treeVars)

Next ==
  \/ machine = "manifests" /\ ManNext /\ OthersStay
  \/ machine = "pathmap" /\ PmNext /\ OthersStay
  \/ machine = "iotpm" /\ PmgrNext /\ OthersStay
  \/ machine = "iot-launch" /\ ClientNext /\ OthersStay
  \/ machine = "mkdir" /\ TreeNext /\ OthersStay

Spec == Init /\ [][Next]_vars

Symmetry == Permutations(Manifest)
=============================================================================
