--------------------------- MODULE PackageManager ---------------------------
(***************************************************************************)
(* iotpm installs, registers and removes packages of one user.  What it    *)
(* knows of a package is in four places: the user's copy of the RPM        *)
(* database, the seeds (headers that the database can be planted with      *)
(* again), the security manager, and the manifest.  A command changes one  *)
(* after the other; any call may fail, and iotpm may be killed between     *)
(* any two of them.                                                        *)
(*                                                                         *)
(* A file of a package is a record of its place relative to the home       *)
(* directory, /etc and the manifests, and of what is checked of it.        *)
(***************************************************************************)
EXTENDS Integers, FiniteSetsExt, Lists

CONSTANTS
  Pkg,
  Contents,       \* Contents[p]: files, scripts, manifest, applications
  DbFile,         \* the files of the system's database: name, and if it is one of Berkeley DB
  MaxFaults       \* how many calls of one command may fail (bound)

\* What a package's file, and a file of the database, are known by.
PackageFile == [place : STRING, dir : BOOLEAN, owner : STRING,
                othersWrite : BOOLEAN, setid : BOOLEAN]
DatabaseFile == [name : STRING, database : BOOLEAN]

ASSUME PackageManagerAssumption ==
  /\ MaxFaults \in Nat
  /\ DbFile \in Seq(DatabaseFile)
  /\ [name |-> "Packages", database |-> TRUE] \in Range(DbFile)
  /\ \A p \in Pkg : /\ Contents[p].files \in Seq(PackageFile)
                   /\ Contents[p].apps \in Seq(SUBSET STRING)

VARIABLES
  backend,        \* rpm4 or rpm5
  enabled,        \* ENABLE_SECURITY_MANAGER
  dbfiles, fresh, \* files of the user's database; those whose ids were reset
  rpm,            \* the packages in it
  seeds,          \* none, part or whole
  registered,     \* <<package, application>>
  cmd,            \* the command that runs, and where it is
  last,           \* history: the last command and what it returned
  before          \* history: packages, seeds and registrations when it began

store == <<dbfiles, fresh, rpm, seeds, registered>>
pmgrVars == <<backend, enabled, store, cmd, last, before>>

Idle == [mode |-> "none"]

-----------------------------------------------------------------------------
(* What a package may contain.                                             *)

\* verify_files(), but for root.  Whether files are of the home directory or of
\* the package's own is remembered from the file before.
VerifyFile(acc, f) ==
  LET in == CASE f.place \in {"above", "apps"} -> "home"
              [] f.place = "own" -> "local"
              [] OTHER -> acc.in
      byPlace ==
        CASE f.place = "manifest" -> ~f.dir /\ f.owner = "root" /\ ~f.othersWrite
          [] f.place = "mandir" -> f.dir
          [] OTHER ->
               /\ in # "none" \/ f.place = "etc"
               /\ in = "home" => f.dir /\ (f.place # "above" => f.owner = "user")
               /\ in = "local" => f.owner = "user"
               /\ ~f.othersWrite
  IN  [in |-> IF f.place \in {"manifest", "mandir"} THEN acc.in ELSE in,
       ok |-> acc.ok /\ byPlace /\ ~f.setid]

HasManifest(p) == \E f \in Range(Contents[p].files) : f.place = "manifest"

VerifyFiles(p) ==
  HasManifest(p) /\ FoldLeft(VerifyFile, [in |-> "none", ok |-> TRUE], Contents[p].files).ok

VerifyScripts(p) == Contents[p].scripts = {}

IotpmPkginfoVerify(p) == VerifyFiles(p) /\ VerifyScripts(p)

\* iot_manifest_validate(), for each application: an unknown member is an error,
\* and "file-types" is not known.
Known == {"application", "description", "privileges", "execute", "desktop"}

ValidateManifestData(members) ==
  /\ members \subseteq Known
  /\ {"application", "description", "privileges", "execute"} \subseteq members

IotpmManifestLoad(p) ==
  HasManifest(p) /\ \A app \in DOMAIN Contents[p].apps : ValidateManifestData(Contents[p].apps[app])

\* iotpm_pkginfo_create() of an installed package.
Queryable(p) == p \in rpm

App(p) == DOMAIN Contents[p].apps

-----------------------------------------------------------------------------
(* The steps of a command.                                                 *)

At(mode, pc) == cmd.mode = mode /\ cmd.at = pc
Goto(pc) == cmd' = [cmd EXCEPT !.at = pc, !.app = 1] /\ UNCHANGED <<last, before>>

ReturnAfter(faults, rc) ==
  /\ cmd' = Idle
  /\ last' = [mode |-> cmd.mode, pkg |-> cmd.pkg, rc |-> rc, faults |-> faults,
              copied |-> cmd.copied]
  /\ UNCHANGED before
Return(rc) == ReturnAfter(cmd.faults, rc)

\* A call fails, and the command goes on at pc, or returns.
MayFail == Cardinality(cmd.faults) < MaxFaults
FailTo(call, pc) ==
  /\ MayFail
  /\ cmd' = [cmd EXCEPT !.at = pc, !.app = 1, !.faults = @ \cup {call}]
  /\ UNCHANGED <<last, before>>
FailReturn(call) == MayFail /\ ReturnAfter(cmd.faults \cup {call}, "EIO")

Same(vars) == UNCHANGED <<backend, enabled, vars>>

\* The options of a command: set_mode() refuses a second one, and how many
\* arguments a mode takes is checked after all of them.
ModeOf(options) == IF Len(options) = 1 THEN options[1] ELSE "none"

Takes(mode) ==
  CASE mode \in {"post-install", "pre-install", "upgrade", "remove", "files"} -> {1}
    [] mode \in {"db-check", "db-plant"} -> {0}
    [] mode = "list" -> {0, 1}
    [] OTHER -> {}

CheckConfiguration(options, args) == Cardinality(args) \in Takes(ModeOf(options))

Main(options, args) ==
  /\ cmd = Idle
  /\ IF CheckConfiguration(options, args)
       THEN /\ \E p \in IF args = {} THEN Pkg ELSE args :
                 cmd' = [mode |-> ModeOf(options), pkg |-> p, at |-> "start", app |-> 1,
                         faults |-> {}, info |-> TRUE, copied |-> FALSE, planted |-> TRUE]
            /\ last' = Idle
            /\ before' = [rpm |-> rpm, seeds |-> seeds, registered |-> registered]
       ELSE UNCHANGED <<cmd, last, before>>
  /\ Same(store)

\* The account, and that HOME is its directory.
IotpmInit ==
  /\ cmd # Idle /\ cmd.at = "start"
  /\ Goto("init") \/ FailReturn("account")
  /\ Same(store)

Killed ==
  /\ cmd # Idle
  /\ cmd' = Idle
  /\ last' = Idle
  /\ UNCHANGED before
  /\ Same(store)

FirstStep ==
  CASE cmd.mode = "post-install" -> "verify"
    [] cmd.mode \in {"pre-install", "remove"} -> "query"
    [] cmd.mode = "db-check" -> "check"
    [] cmd.mode = "db-plant" -> "plant"
    [] OTHER -> "show"

\* A database that has Packages is taken as it is.
HasPackages == "Packages" \in dbfiles

IotpmBackendInit ==
  /\ cmd # Idle /\ cmd.at = "init"
  /\ \/ HasPackages /\ Goto("manifests")
     \/ ~HasPackages /\ Goto("prepare")
     \/ FailReturn("mkdir")
  /\ Same(store)

\* dbdir_copy_prepare(): the files of the system's database that are copied.  One
\* that is no database is copied now, the others when all are synchronised.
Copied(f) == f.name \notin {"DB_CONFIG", "__db.001", "log.1", ".hidden"}
Later == Keep(DbFile, {f \in Range(DbFile) : Copied(f) /\ f.database})
Now == {f.name : f \in {g \in Range(DbFile) : Copied(g) /\ ~g.database}}

\* A file that is there already is an error, and the files that were copied
\* before an error stay.
CopyPrepare ==
  /\ cmd # Idle /\ cmd.at = "prepare"
  /\ \/ /\ Now \cap dbfiles = {}
        /\ dbfiles' = dbfiles \cup Now
        /\ cmd' = [cmd EXCEPT !.at = "copy", !.app = 1, !.copied = TRUE]
        /\ UNCHANGED <<last, before>>
     \/ /\ Now \cap dbfiles # {}
        /\ Return("EINVAL") /\ UNCHANGED dbfiles
     \/ \E some \in SUBSET (Now \ dbfiles) :
          FailReturn("prepare") /\ dbfiles' = dbfiles \cup some
  /\ Same(<<fresh, rpm, seeds, registered>>)

\* file_copy() takes back the file that it could not copy to its end.
DatabaseCopy ==
  /\ cmd # Idle /\ cmd.at = "copy"
  /\ LET f == Later[cmd.app].name IN
     \/ /\ f \notin dbfiles
        /\ dbfiles' = dbfiles \cup {f}
        /\ cmd' = [cmd EXCEPT !.at = IF cmd.app = Len(Later) THEN "reset" ELSE "copy",
                              !.app = @ + 1]
        /\ UNCHANGED <<last, before>>
     \/ f \in dbfiles /\ Return("EINVAL") /\ UNCHANGED dbfiles
     \/ FailReturn("copy") /\ UNCHANGED dbfiles
  /\ Same(<<fresh, rpm, seeds, registered>>)

\* dbfile_reset() of every file.  When the environment cannot be joined the copy
\* is reported as a success without it.
DatabaseReset ==
  /\ cmd # Idle /\ cmd.at = "reset"
  /\ \/ Goto("manifests") /\ fresh' = {f.name : f \in Range(Later)}
     \/ FailTo("join", "manifests") /\ UNCHANGED fresh
     \/ FailReturn("reset") /\ UNCHANGED fresh
  /\ Same(<<dbfiles, rpm, seeds, registered>>)

IotpmManifestInit ==
  /\ cmd # Idle /\ cmd.at = "manifests"
  /\ Goto(FirstStep) \/ FailReturn("manifests")
  /\ Same(store)

-----------------------------------------------------------------------------
(* post_install_package() and pre_install_package().                       *)

VerifyStep ==
  /\ At("post-install", "verify")
  /\ IF IotpmPkginfoVerify(cmd.pkg)
       THEN Goto("install") \/ FailReturn("query-file")
       ELSE Return("EIO")
  /\ Same(store)

IotpmBackendInstallPackage ==
  /\ At("post-install", "install")
  /\ \/ cmd.pkg \notin rpm /\ rpm' = rpm \cup {cmd.pkg} /\ Goto("query")
     \/ cmd.pkg \in rpm /\ Return("EIO") /\ UNCHANGED rpm
     \/ FailReturn("install") /\ UNCHANGED rpm
  /\ Same(<<dbfiles, fresh, seeds, registered>>)

\* A package that cannot be queried has no name, so it is not removed.
QueryStep ==
  /\ At("post-install", "query")
  /\ \/ Goto(IF IotpmManifestLoad(cmd.pkg) THEN "seed" ELSE "undo")
     \/ FailReturn("query")
     \/ FailTo("load", "undo")
  /\ Same(store)

\* The second half of iotpm_backend_seed_create(), which may be killed halfway.
IotpmBackendSeedCreate ==
  /\ At("post-install", "seed")
  /\ IF seeds[cmd.pkg] = "none"
       THEN \/ seeds' = [seeds EXCEPT ![cmd.pkg] = "part"] /\ Goto("write")
            \/ FailTo("seed", "undo") /\ UNCHANGED seeds
       ELSE Goto("undo") /\ UNCHANGED seeds
  /\ Same(<<dbfiles, fresh, rpm, registered>>)

SeedWrite ==
  /\ At("post-install", "write")
  /\ \/ seeds' = [seeds EXCEPT ![cmd.pkg] = "whole"] /\ Goto("register")
     \/ FailTo("write", "undo") /\ seeds' = [seeds EXCEPT ![cmd.pkg] = "none"]
  /\ Same(<<dbfiles, fresh, rpm, registered>>)

\* One application of iotpm_register_package(), with nothing to undo those before.
IotpmRegisterPackage(undo) ==
  /\ cmd # Idle /\ cmd.at = "register"
  /\ IF cmd.app > Cardinality(App(cmd.pkg)) \/ ~enabled
       THEN Return("OK") /\ UNCHANGED registered
       ELSE \/ /\ registered' = registered \cup {<<cmd.pkg, cmd.app>>}
               /\ cmd' = [cmd EXCEPT !.app = @ + 1]
               /\ UNCHANGED <<last, before>>
            \/ /\ UNCHANGED registered
               /\ IF undo THEN FailTo("register", "undo-seed") ELSE FailReturn("register")
  /\ Same(<<dbfiles, fresh, rpm, seeds>>)

UndoSeed ==
  /\ At("post-install", "undo-seed")
  /\ \/ seeds' = [seeds EXCEPT ![cmd.pkg] = "none"] /\ Goto("undo")
     \/ FailTo("unseed", "undo") /\ UNCHANGED seeds
  /\ Same(<<dbfiles, fresh, rpm, registered>>)

M_Undo == At("post-install", "undo") /\ Return("EIO") /\ Same(store)

Undo ==
  /\ At("post-install", "undo")
  /\ \/ rpm' = rpm \ {cmd.pkg} /\ Return("EIO")
     \/ FailReturn("erase") /\ UNCHANGED rpm
  /\ Same(<<dbfiles, fresh, seeds, registered>>)

PreInstallPackage ==
  /\ At("pre-install", "query")
  /\ IF Queryable(cmd.pkg) /\ IotpmManifestLoad(cmd.pkg)
       THEN Goto("register") \/ FailReturn("query")
       ELSE Return("EIO")
  /\ Same(store)

-----------------------------------------------------------------------------
(* remove_package().                                                       *)

RemoveQuery ==
  /\ At("remove", "query")
  /\ IF Queryable(cmd.pkg)
       THEN \/ Goto(IF IotpmManifestLoad(cmd.pkg) THEN "unregister" ELSE "erase")
            \/ /\ MayFail
               /\ cmd' = [cmd EXCEPT !.at = "erase", !.faults = @ \cup {"query"}, !.info = FALSE]
               /\ UNCHANGED <<last, before>>
       ELSE /\ cmd' = [cmd EXCEPT !.at = "erase", !.info = FALSE]
            /\ UNCHANGED <<last, before>>
  /\ Same(store)

\* One application of iotpm_unregister_package(), whose result is not looked at:
\* the first that fails ends it.
IotpmUnregisterPackage ==
  /\ At("remove", "unregister")
  /\ \/ /\ cmd.app > Cardinality(App(cmd.pkg)) \/ ~enabled
        /\ Goto("erase") /\ UNCHANGED registered
     \/ /\ cmd.app <= Cardinality(App(cmd.pkg)) /\ enabled
        /\ \/ /\ <<cmd.pkg, cmd.app>> \in registered
              /\ registered' = registered \ {<<cmd.pkg, cmd.app>>}
              /\ cmd' = [cmd EXCEPT !.app = @ + 1]
              /\ UNCHANGED <<last, before>>
           \/ <<cmd.pkg, cmd.app>> \notin registered /\ Goto("erase") /\ UNCHANGED registered
           \/ FailTo("unregister", "erase") /\ UNCHANGED registered
  /\ Same(<<dbfiles, fresh, rpm, seeds>>)

IotpmBackendRemovePackage ==
  /\ At("remove", "erase")
  /\ \/ cmd.pkg \in rpm /\ rpm' = rpm \ {cmd.pkg} /\ Goto("unseed")
     \/ cmd.pkg \notin rpm /\ Return("EIO") /\ UNCHANGED rpm
     \/ FailReturn("erase") /\ UNCHANGED rpm
  /\ Same(<<dbfiles, fresh, seeds, registered>>)

M_IotpmBackendSeedDestroy ==
  /\ At("remove", "unseed")
  /\ IF seeds[cmd.pkg] # "none" /\ cmd.info
       THEN seeds' = [seeds EXCEPT ![cmd.pkg] = "none"] /\ Return("OK")
       ELSE Return("OK") /\ UNCHANGED seeds
  /\ Same(<<dbfiles, fresh, rpm, registered>>)

IotpmBackendSeedDestroy ==
  /\ At("remove", "unseed")
  /\ IF seeds[cmd.pkg] # "none" /\ cmd.info
       THEN \/ seeds' = [seeds EXCEPT ![cmd.pkg] = "none"] /\ Return("OK")
            \/ FailReturn("unseed") /\ UNCHANGED seeds
       ELSE Return("EIO") /\ UNCHANGED seeds
  /\ Same(<<dbfiles, fresh, rpm, registered>>)

-----------------------------------------------------------------------------
(* The other commands.  A seed that was not written to its end is refused. *)

Seeded == {p \in Pkg : seeds[p] # "none"}
SeedRead(p) == seeds[p] = "whole"

\* Every seed for itself; the database that cannot be opened is no failure.
PlantRpm4 ==
  \/ /\ rpm' = rpm \cup {p \in Seeded : SeedRead(p)}
     /\ cmd' = [cmd EXCEPT !.at = "check", !.planted =
                  Seeded # {} /\ \A p \in Seeded : SeedRead(p) /\ p \notin rpm]
  \/ /\ MayFail
     /\ cmd' = [cmd EXCEPT !.at = "check", !.faults = @ \cup {"open"}, !.planted = Seeded # {}]
     /\ UNCHANGED rpm

\* All seeds or none, in one transaction.
PlantRpm5 ==
  \/ /\ Seeded # {} /\ \A p \in Seeded : SeedRead(p) /\ p \notin rpm
     /\ rpm' = rpm \cup Seeded
     /\ cmd' = [cmd EXCEPT !.at = "check"]
  \/ /\ Seeded = {} \/ \E p \in Seeded : ~SeedRead(p) \/ p \in rpm
     /\ cmd' = [cmd EXCEPT !.at = "check", !.planted = FALSE]
     /\ UNCHANGED rpm
  \/ /\ MayFail
     /\ cmd' = [cmd EXCEPT !.at = "check", !.faults = @ \cup {"plant"}, !.planted = FALSE]
     /\ UNCHANGED rpm

IotpmBackendSeedPlant ==
  /\ At("db-plant", "plant")
  /\ IF backend = "rpm4" THEN PlantRpm4 ELSE PlantRpm5
  /\ Same(<<dbfiles, fresh, seeds, registered, last, before>>)

\* db_check(), of which db_plant() is the other user.
DbCheck ==
  /\ cmd # Idle /\ cmd.mode \in {"db-check", "db-plant"} /\ cmd.at = "check"
  /\ \/ cmd.planted /\ Return("OK")
     \/ ~cmd.planted /\ Return("EIO")
     \/ FailReturn("check")
  /\ Same(store)

UpgradePackage == At("upgrade", "show") /\ Return("OK") /\ Same(store)

ListPackages == At("list", "show") /\ (Return("OK") \/ FailReturn("list")) /\ Same(store)

Files ==
  /\ At("files", "show")
  /\ IF Queryable(cmd.pkg) THEN Return("OK") \/ FailReturn("query") ELSE Return("EIO")
  /\ Same(store)

-----------------------------------------------------------------------------

PmgrInit ==
  /\ backend \in {"rpm4", "rpm5"}
  /\ enabled \in BOOLEAN
  /\ dbfiles = {} /\ fresh = {}
  /\ rpm = {}
  /\ seeds = [p \in Pkg |-> "none"]
  /\ registered = {}
  /\ cmd = Idle /\ last = Idle
  /\ before = [rpm |-> {}, seeds |-> seeds, registered |-> {}]

Mode == {"post-install", "pre-install", "upgrade", "remove", "db-check", "db-plant",
         "list", "files"}

PmgrNext ==
  \/ \E mode \in Mode, args \in {{}} \cup {{p} : p \in Pkg} : Main(<<mode>>, args)
  \/ Main(<<"post-install", "remove">>, {})
  \/ Killed
  \/ IotpmInit \/ IotpmBackendInit \/ CopyPrepare \/ DatabaseCopy \/ DatabaseReset \/ IotpmManifestInit
  \/ VerifyStep \/ IotpmBackendInstallPackage \/ QueryStep
  \/ IotpmBackendSeedCreate \/ SeedWrite \/ UndoSeed \/ Undo
  \/ PreInstallPackage
  \/ \E undo \in {cmd # Idle /\ cmd.mode = "post-install"} : IotpmRegisterPackage(undo)
  \/ RemoveQuery \/ IotpmUnregisterPackage
  \/ IotpmBackendRemovePackage \/ IotpmBackendSeedDestroy
  \/ IotpmBackendSeedPlant \/ DbCheck \/ UpgradePackage \/ ListPackages \/ Files

-----------------------------------------------------------------------------
(* Properties.                                                             *)

Returned(mode, rc) == last # Idle /\ last.mode = mode /\ last.rc = rc

(* A command that reports success has done all of what it is for, whatever *)
(* failed, or was left by a command that was killed, before it: an         *)
(* installed package is verified, in the database, has a whole seed and    *)
(* every application registered; a removed one is in no database and has   *)
(* no seed; planting puts every package that has a seed in the database,   *)
(* unless it is rpm4's and cannot be opened;                               *)
(* and a database that was copied for it is whole, and has new file ids    *)
(* unless its environment could not be joined.                             *)
OkMeansDone ==
  LET p == last.pkg IN
  /\ Returned("post-install", "OK") =>
       /\ p \in rpm /\ seeds[p] = "whole"
       /\ VerifyScripts(p) /\ IotpmManifestLoad(p)
       /\ \A f \in Range(Contents[p].files) : ~f.setid
  /\ (Returned("post-install", "OK") \/ Returned("pre-install", "OK")) /\ enabled =>
       \A app \in App(p) : <<p, app>> \in registered
  /\ Returned("remove", "OK") => p \notin rpm /\ seeds[p] = "none"
  /\ Returned("db-plant", "OK") => Seeded \subseteq rpm \/ "open" \in last.faults
  /\ last # Idle /\ last.rc = "OK" /\ last.copied =>
       LET ids == {f.name : f \in Range(Later)} IN
       dbfiles = Now \cup ids /\ (fresh = ids \/ "join" \in last.faults)

(* An installation that fails in one of its steps leaves the database and  *)
(* the seeds as they were, unless the new package could not be queried, or *)
(* a call that undoes a step failed itself.                                *)
FailedUndone ==
  /\ last # Idle /\ last.rc # "OK" /\ last.mode = "post-install"
  /\ last.faults \cap {"query", "erase", "unseed"} = {}
  =>
    rpm = before.rpm /\ seeds = before.seeds
=============================================================================
