------------------------------- MODULE PathMap -------------------------------
(***************************************************************************)
(* The map of a manifest from paths to an application and a file type:     *)
(* explicit paths, regular expressions, and the applications' directories  *)
(* with the permissions of the file.  Applications and types are numbers,  *)
(* packed into one, of tables that grow while the map is used.             *)
(*                                                                         *)
(* An application is its directory and the members of its "file-types": a  *)
(* type and a sequence of paths, some of them patterns.                    *)
(***************************************************************************)
EXTENDS Integers, Lists, FiniteSetsExt

CONSTANTS
  Path,           \* files
  Pattern,        \* regular expressions
  Matches,        \* Matches[g]: the paths that g matches
  DirOf,          \* DirOf[f]: the directory of applications that has file f
  Apps,           \* the sequences of applications manifests may have
  Shift,          \* 2^16
  NoAnswer

\* An application is a directory and members, a member a type and paths.
ASSUME PathMapAssumption ==
  /\ Shift \in Nat \ {0} /\ Path \cap Pattern = {}
  /\ \A as \in Apps :
       /\ as \in Seq(Range(as))
       /\ \A app \in Range(as) :
            /\ app.fileTypes \in Seq(Range(app.fileTypes))
            /\ \A member \in Range(app.fileTypes) : member.paths \in Seq(Path \cup Pattern)

VARIABLES
  apps,           \* the applications of the manifest
  types, fileMap, regexps, roots,   \* its pathmap_t
  mapped,         \* applications that are in the map
  mode,           \* the permissions of each file, "none" if it is not there
  answer          \* the last one of iot_manifest_filetype(), and for what

pmVars == <<apps, types, fileMap, regexps, roots, mapped, mode, answer>>

Permission == {"gr", "gw", "or", "ow", "x"}
Modes == (SUBSET Permission) \cup {{"none"}}

PathmapEntry(a, t) == a * Shift + t
PathmapApp(id) == id \div Shift
PathmapType(id) == id % Shift

\* The table, and the number the type has in it, from 0 on.
M_PathmapTypeInsert(table, type) ==
  IF type \in Range(table) THEN <<table, 0>> ELSE <<Append(table, type), Len(table)>>

PathmapTypeInsert(table, type) ==
  IF type \in Range(table)
  THEN <<table, (CHOOSE i \in DOMAIN table : table[i] = type) - 1>>
  ELSE <<Append(table, type), Len(table)>>

Entries(names, f) == [i \in DOMAIN names |-> [name |-> names[i], entry |-> f]]

\* One member of "file-types" of application number a.
InsertMember(pm, a, member) ==
  LET ins == PathmapTypeInsert(pm.types, member.type)
      f   == PathmapEntry(a, ins[2])
  IN  [types   |-> ins[1],
       files   |-> pm.files \o Entries(Keep(member.paths, Path), f),
       regexps |-> pm.regexps \o Entries(Keep(member.paths, Pattern), f)]

InsertMembers(pm, a, members) ==
  FoldLeft(LAMBDA acc, member : InsertMember(acc, a, member), pm, members)

\* pathmap_insert() of the next application.
PathmapInsert ==
  /\ mapped < Len(apps)
  /\ LET app == apps[mapped + 1]
         pm  == InsertMembers([types |-> types, files |-> fileMap, regexps |-> regexps],
                              mapped, app.fileTypes)
     IN  /\ roots' = Append(roots, app.dir)
         /\ types' = pm.types
         /\ fileMap' = pm.files
         /\ regexps' = pm.regexps
  /\ mapped' = mapped + 1
  /\ UNCHANGED <<apps, mode, answer>>

-----------------------------------------------------------------------------
(* Looking a path up.                                                      *)

FirstEntry(list, names) ==
  LET found == {i \in DOMAIN list : list[i].name \in names} IN
  IF found = {} THEN -1 ELSE list[Min(found)].entry

Matching(f) == {g \in Pattern : f \in Matches[g]}

PathmapFileLookup(f) == FirstEntry(fileMap, {f})

PathmapRegexLookup(f) == FirstEntry(regexps, Matching(f))

\* The type for permissions, of files no entry is for.
M_DefaultType(st) ==
  CASE {"gr", "gw", "or", "ow"} \subseteq st -> "public"
    [] "or" \in st /\ ~({"gr", "gw", "or", "ow"} \subseteq st) -> "public-ro"
    [] OTHER -> "private"

DefaultType(st) ==
  IF "x" \in st
  THEN IF "or" \in st THEN "public-ro"
       ELSE IF "gr" \in st THEN "ro" ELSE "private"
  ELSE IF {"gr", "gw", "or", "ow"} \subseteq st THEN "public"
       ELSE IF {"gr", "or"} \subseteq st THEN "public-ro"
       ELSE IF {"gr", "gw"} \subseteq st THEN "rw"
       ELSE IF "gr" \in st THEN "ro" ELSE "private"

\* The first application in whose directory the file is, or the first one.
RootApp(f) ==
  LET in == {i \in DOMAIN roots : roots[i] = DirOf[f]} IN IF in = {} THEN 0 ELSE Min(in) - 1

Explicit(f) ==
  IF PathmapFileLookup(f) # -1 THEN PathmapFileLookup(f) ELSE PathmapRegexLookup(f)

Missing(f) == mode[f] = {"none"}

Answer(f, id, table) ==
  [path |-> f, app |-> PathmapApp(id), type |-> table[PathmapType(id) + 1]]

IotManifestFiletype(f) ==
  /\ mapped = Len(apps)
  /\ \/ /\ Explicit(f) # -1
        /\ answer' = Answer(f, Explicit(f), types)
        /\ UNCHANGED types
     \/ /\ Explicit(f) = -1 /\ Missing(f)
        /\ answer' = [path |-> f, app |-> -1, type |-> "none"]
        /\ UNCHANGED types
     \/ /\ Explicit(f) = -1 /\ ~Missing(f)
        /\ LET ins == PathmapTypeInsert(types, DefaultType(mode[f])) IN
           /\ types' = ins[1]
           /\ answer' = Answer(f, PathmapEntry(RootApp(f), ins[2]), ins[1])
  /\ UNCHANGED <<apps, fileMap, regexps, roots, mapped, mode>>

Chmod(f, st) ==
  /\ mapped = Len(apps)
  /\ mode' = [mode EXCEPT ![f] = st]
  /\ answer' = NoAnswer
  /\ UNCHANGED <<apps, types, fileMap, regexps, roots, mapped>>

PmInit ==
  /\ apps \in Apps
  /\ types = <<>> /\ fileMap = <<>> /\ regexps = <<>> /\ roots = <<>>
  /\ mapped = 0
  /\ mode = [f \in Path |-> {"none"}]
  /\ answer = NoAnswer

PmNext ==
  \/ PathmapInsert
  \/ \E f \in Path : IotManifestFiletype(f)
  \/ \E f \in Path, st \in Modes : Chmod(f, st)

PmSpec == PmInit /\ [][PmNext]_pmVars

-----------------------------------------------------------------------------
(* Properties.                                                             *)

\* The members of the manifest by application and place, in their order.
Members == UNION {{<<a, i>> : i \in DOMAIN apps[a].fileTypes} : a \in DOMAIN apps}
MemberAt(x) == apps[x[1]].fileTypes[x[2]]
NotAfter(x, y) == x[1] < y[1] \/ (x[1] = y[1] /\ x[2] <= y[2])

\* What it says of any of the names.
SaidOf(names) == {x \in Members : Range(MemberAt(x).paths) \cap names # {}}
FirstSaid(S) == CHOOSE x \in S : \A y \in S : NotAfter(x, y)
Said(x) == [app |-> x[1] - 1, type |-> MemberAt(x).type]

(* The answer for a path is the first thing the manifest says of it, what  *)
(* it says of the very path before what it says with a pattern, whatever   *)
(* was looked up before and added to the table of types.  For a file the   *)
(* manifest says nothing of, an executable is never of a type its package  *)
(* or others may write, and no file is of a type that lets others read or  *)
(* write it when they may not, nor the package write it.                   *)
FiletypeRight ==
  answer # NoAnswer =>
    LET f  == answer.path
        st == mode[f]
        exact == SaidOf({f})
        glob  == SaidOf(Matching(f))
        got == [app |-> answer.app, type |-> answer.type]
    IN  CASE exact # {} -> got = Said(FirstSaid(exact))
          [] exact = {} /\ glob # {} -> got = Said(FirstSaid(glob))
          [] OTHER ->
               /\ "x" \in st => answer.type \notin {"rw", "public"}
               /\ answer.type \in {"public", "public-ro"} => "or" \in st
               /\ answer.type = "public" => "ow" \in st
               /\ answer.type \in {"public", "rw"} => "gw" \in st
               /\ answer.type = "none" <=> st = {"none"}
               /\ answer.app >= 0 /\ DirOf[f] \in Range(roots) =>
                    apps[answer.app + 1].dir = DirOf[f]
=============================================================================
