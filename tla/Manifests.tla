------------------------------ MODULE Manifests ------------------------------
(***************************************************************************)
(* Manifests as manifest.c reads, counts, caches and lists them.  Other    *)
(* processes write and delete the files they are read from.  The cache is  *)
(* a hash table, so that it may have several entries with one key, and the *)
(* first one added is found.                                               *)
(***************************************************************************)
EXTENDS Integers, FiniteSetsExt, Lists

CONSTANTS
  User, Root,     \* user ids; Root is one of them
  Common,         \* (uid_t)-1
  Package,
  Manifest,       \* memory for manifests
  NoManifest,
  MaxHold,        \* references a user holds at once (bound)
  CacheLimit,     \* cfg.nlimit of the cache
  ResetWhileHeld  \* users may hold cached manifests when the cache is reset

ASSUME ManifestsAssumption ==
  /\ Root \in User /\ Common \notin User
  /\ NoManifest \notin Manifest
  /\ NoManifest \notin [usr : User \cup {Common}, pkg : Package, owner : User \cup {Common},
                        ref : Nat]
  /\ \A S \in {User, Package, Manifest} : IsFiniteSet(S)
  /\ {MaxHold, CacheLimit} \subseteq Nat \ {0}
  /\ ResetWhileHeld \in BOOLEAN

VARIABLES
  files,          \* what each manifest file has: nothing readable, good or bad
  man,            \* the manifests in memory, NoManifest where there is none
  caching,        \* cache # NULL
  cache,          \* the entries, in the order they were added in
  holds,          \* references held, by the user they were asked for
  listed          \* the last reply to list-installed, while the files are those

manVars == <<files, man, caching, cache, holds, listed>>

Owner == User \cup {Common}
File == Owner \X Package

Holders(x) == {u \in Owner : holds[x][u] > 0}

\* manifest_read(), with the map of paths it makes: what is not a JSON object
\* or array of objects with paths to execute is refused.
ManifestRead(f) == files[f] = "good"

\* manifest_path(): the file can be accessed.
ManifestPath(f) == files[f] # "none"

NewManifest(u, f, ref) == [usr |-> u, pkg |-> f[2], owner |-> f[1], ref |-> ref]

M_EntryComp(x, u, p) == man[x].pkg = p

EntryComp(x, u, p) == man[x].usr = u /\ man[x].pkg = p

CacheLookup(u, p) ==
  LET found == {i \in DOMAIN cache : EntryComp(cache[i], u, p)} IN
  IF ~caching \/ found = {} THEN NoManifest ELSE cache[Min(found)]

Took(x, u) == holds' = [holds EXCEPT ![x][u] = @ + 1]

IotManifestGet(u, p) ==
  LET own == CacheLookup(u, p)
      hit == IF own # NoManifest THEN own ELSE CacheLookup(Common, p)
      f   == IF ManifestPath(<<u, p>>) THEN <<u, p>> ELSE <<Common, p>>
  IN  /\ IF hit # NoManifest
         THEN /\ holds[hit][u] < MaxHold
              /\ man' = [man EXCEPT ![hit].ref = @ + 1]
              /\ Took(hit, u)
              /\ UNCHANGED cache
         ELSE \E x \in {y \in Manifest : man[y] = NoManifest} :
              /\ ManifestRead(f)
              /\ IF caching /\ Len(cache) = CacheLimit
                 THEN /\ man' = [man EXCEPT ![x] = NewManifest(u, f, 1)]
                      /\ UNCHANGED <<cache, holds>>
                 ELSE /\ man' = [man EXCEPT ![x] = NewManifest(u, f, 2)]
                      /\ cache' = IF caching THEN Append(cache, x) ELSE cache
                      /\ Took(x, u)
      /\ UNCHANGED <<files, caching, listed>>

\* Of a path: whose file it is, is not looked at.
IotManifestRead(f) ==
  \E x \in {y \in Manifest : man[y] = NoManifest} :
    /\ ManifestPath(f) /\ ManifestRead(f)
    /\ man' = [man EXCEPT ![x] = NewManifest(Common, f, 2)]
    /\ Took(x, f[1])
    /\ UNCHANGED <<files, caching, cache, listed>>

ManifestFree(x) == IF man[x].ref = 1 THEN NoManifest ELSE [man[x] EXCEPT !.ref = @ - 1]

\* The entry that is deleted with the last reference is the first one of the key.
IotManifestUnref(x, u) ==
  /\ holds[x][u] > 0
  /\ man' = [man EXCEPT ![x] = ManifestFree(x)]
  /\ cache' = IF man'[x] = NoManifest /\ caching
              THEN RemoveFirst(cache, CacheLookup(man[x].usr, man[x].pkg)) ELSE cache
  /\ holds' = [holds EXCEPT ![x][u] = @ - 1]
  /\ UNCHANGED <<files, caching, listed>>

CacheDestroy ==
  /\ \A x \in Range(cache) : Holders(x) # {} => ResetWhileHeld
  /\ caching' = FALSE
  /\ cache' = <<>>
  /\ man' = [x \in Manifest |-> IF x \in Range(cache) THEN NoManifest ELSE man[x]]

IotManifestCaching(enable) ==
  /\ IF enable THEN caching' = TRUE /\ UNCHANGED <<man, cache>> ELSE CacheDestroy
  /\ UNCHANGED <<files, holds, listed>>

-----------------------------------------------------------------------------
(* Scanning directories.                                                   *)

Among(fs, has) == {f \in fs : files[f] = has}

CommonDir == {Common} \X Package
UserDirs == User \X Package

\* The sets of files cache_populate() may have read from directories: it stops
\* at the first one it cannot read.
Scanned(dirs) ==
  IF Among(dirs, "bad") = {} THEN {Among(dirs, "good")} ELSE SUBSET Among(dirs, "good")

CachePopulate(read, ok) ==
  /\ ok = (Among(File, "bad") = {})
  /\ \/ Among(CommonDir, "bad") # {} /\ read \in Scanned(CommonDir)
     \/ /\ Among(CommonDir, "bad") = {}
        /\ \E own \in Scanned(UserDirs) : read = Among(CommonDir, "good") \cup own

\* A manifest that does not fit the cache stays in memory.
IotManifestPopulateCache ==
  \E read \in SUBSET Among(File, "good"), ok \in BOOLEAN :
    \E new \in kSubset(Cardinality(read), {y \in Manifest : man[y] = NoManifest}) :
      LET xs == SetToSeq(new)
          fs == SetToSeq(read)
          at(x) == fs[CHOOSE i \in DOMAIN xs : xs[i] = x]
      IN  /\ CachePopulate(read, ok)
          /\ caching' = TRUE
          /\ man' = [x \in Manifest |->
                       IF x \in new THEN NewManifest(at(x)[1], at(x), 1) ELSE man[x]]
          /\ cache' = SubSeq(cache \o xs, 1, Min({CacheLimit, Len(cache \o xs)}))
          /\ UNCHANGED <<files, holds, listed>>

M_MaySee(client, u) == u = Common \/ u = client

MaySee(client, u) == u = Common \/ client = Root \/ u = client

\* list_installed() of the daemon, which has no cache but this one.
ListInstalled(client) ==
  /\ ~caching
  /\ \E read \in SUBSET Among(File, "good"), ok \in BOOLEAN :
       /\ CachePopulate(read, ok)
       /\ listed' = [client |-> client, ok |-> ok,
                     reply |-> {f \in read : ok /\ MaySee(client, f[1])}]
  /\ UNCHANGED <<files, man, caching, cache, holds>>

FileChanges(f, has) ==
  /\ files' = [files EXCEPT ![f] = has]
  /\ listed' = NoManifest
  /\ UNCHANGED <<man, caching, cache, holds>>

ManInit ==
  /\ files \in [File -> {"none", "good"}]
  /\ man = [x \in Manifest |-> NoManifest]
  /\ caching = FALSE
  /\ cache = <<>>
  /\ holds = [x \in Manifest |-> [u \in Owner |-> 0]]
  /\ listed = NoManifest

ManNext ==
  \/ \E u \in Owner, p \in Package : IotManifestGet(u, p)
  \/ \E f \in File : IotManifestRead(f)
  \/ \E x \in Manifest, u \in Owner : IotManifestUnref(x, u)
  \/ \E enable \in BOOLEAN : IotManifestCaching(enable)
  \/ IotManifestPopulateCache
  \/ \E u \in User : ListInstalled(u)
  \/ \E f \in File, has \in {"none", "good", "bad"} : FileChanges(f, has)

ManSpec == ManInit /\ [][ManNext]_manVars

-----------------------------------------------------------------------------
(* Properties.                                                             *)

(* Whoever holds a manifest, got from the cache or the disk, with other    *)
(* manifests of the same name cached or not, and files that come and go:   *)
(* the manifest is in memory for as long, and is of the user it was asked  *)
(* for or a common one.  What is cached is in memory, too.                 *)
ManifestsHeld ==
  /\ \A x \in Manifest, u \in Owner :
       holds[x][u] > 0 => man[x] # NoManifest /\ man[x].owner \in {u, Common}
  /\ \A x \in Range(cache) : man[x] # NoManifest
  /\ IsInjective(cache)

Visible(client) == IF client = Root THEN Owner ELSE {client, Common}

(* A client is told of every manifest it may see and of no other, those    *)
(* of other users included, or is told that this failed; one bad manifest, *)
(* of any user, is what makes it fail.                                     *)
ListedRight ==
  listed # NoManifest =>
    /\ listed.ok = (\A f \in File : files[f] # "bad")
    /\ listed.ok => listed.reply =
         {f \in File : files[f] = "good" /\ f[1] \in Visible(listed.client)}

(* manifest.h: "If the last reference is gone the manifest will be freed." *)
FreedWhenReleased ==
  \A x \in Manifest : man[x] # NoManifest => x \in Range(cache) \/ Holders(x) # {}
=============================================================================
