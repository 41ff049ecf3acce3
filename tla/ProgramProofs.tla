---------------------------- MODULE ProgramProofs ----------------------------
(***************************************************************************)
(* What is proved of the manifests, the package manager, iot-launch,       *)
(* mkdir.c and the path map, each a machine of its own here as in          *)
(* MCPrograms.                                                             *)
(*                                                                         *)
(* Manifests, for any users, packages and files: who holds a manifest has  *)
(* one in memory that it may see, and who lists what is installed is told  *)
(* of what it may see.  ManInv counts the references.                      *)
(*                                                                         *)
(* The package manager, for any packages, whatever they contain, any files *)
(* of the system's database, and any number of failing calls: a command    *)
(* that reports success has done what it is for, and an installation that  *)
(* fails has undone what it did.  Both are about what a command returns.   *)
(* They hold because of what each of its steps leaves for the ones behind  *)
(* it: CopyKept of the copy of the database, InstallKept and UndoKept of   *)
(* an installation, OthersKept of the other commands.                      *)
(*                                                                         *)
(* iot-launch on its way from main() to execv(), for any ids and groups,   *)
(* however it was installed and built, whatever it was asked for and       *)
(* wherever a call of it fails: the application runs as the user it        *)
(* should, and not after a SIGTERM.  Both are about the last step, and     *)
(* hold because of what every earlier step leaves behind: TermKept and     *)
(* UserKept say what that is.                                              *)
(*                                                                         *)
(* iot_mkdir(), for any number of callers at a time and any paths: a call  *)
(* that fails leaves none of its directories behind but what another       *)
(* path needs or it could not label, and takes away nobody else's.         *)
(* TreeInv says what a call has made on its way down and still has to take *)
(* back on its way up.                                                     *)
(*                                                                         *)
(* The map from paths to file types, for any manifest whose types 16 bits  *)
(* can count: what is looked up is what the manifest says first.  PmInv    *)
(* says whose each entry of the two lists is, and that they are in the     *)
(* order of the manifest.                                                  *)
(***************************************************************************)
EXTENDS Manifests, PackageManager, LaunchClient, DirTree, PathMap,
        SeqFacts

-----------------------------------------------------------------------------
(* The inductive invariant of manifests.                                   *)

ManifestRecord == [usr : Owner, pkg : Package, owner : Owner, ref : Nat \ {0}]

ManTyped ==
  /\ files \in [File -> {"none", "good", "bad"}]
  /\ man \in [Manifest -> ManifestRecord \cup {NoManifest}]
  /\ holds \in [Manifest -> [Owner -> Nat]]
  /\ cache \in Seq(Manifest) /\ IsInjective(cache)

(* The references that are held, one by one.                               *)
RefsIn(held) == {r \in Owner \X Nat : r[2] \in 1 .. held[r[1]]}

(* A manifest has a reference for everybody who holds it and one for being *)
(* cached; who holds it may see it, and so may who can look it up.         *)
ManifestKept(m, held, cached) ==
  /\ IsFiniteSet(RefsIn(held))
  /\ m = NoManifest => RefsIn(held) = {} /\ ~cached
  /\ m # NoManifest =>
       /\ m.ref >= Cardinality(RefsIn(held)) + (IF cached THEN 1 ELSE 0)
       /\ cached => m.owner \in {m.usr, Common}
       /\ \A u \in Owner : held[u] > 0 => m.owner \in {u, Common}

ManInv ==
  /\ ManTyped
  /\ \A x \in Manifest : ManifestKept(man[x], holds[x], x \in Range(cache))

(* NULL is no manifest.                                                    *)
LEMMA NoManifestIsNone == NoManifest \notin ManifestRecord /\ NoManifest \notin Manifest
BY ManifestsAssumption DEF ManifestRecord, Owner

(* Taking and giving back a reference.                                     *)
LEMMA RefTaken ==
  ASSUME NEW held \in [Owner -> Nat], NEW u \in Owner, IsFiniteSet(RefsIn(held))
  PROVE  LET now == [held EXCEPT ![u] = @ + 1]
         IN  /\ now \in [Owner -> Nat] /\ IsFiniteSet(RefsIn(now))
             /\ Cardinality(RefsIn(now)) = Cardinality(RefsIn(held)) + 1
<1>1. PICK now : now = [held EXCEPT ![u] = @ + 1] OBVIOUS
<1>2. /\ now \in [Owner -> Nat] /\ now[u] = held[u] + 1 /\ held[u] \in Nat
      /\ \A v \in Owner : v # u => now[v] = held[v]
  BY <1>1
<1>3. PICK new : new = <<u, held[u] + 1>> OBVIOUS
<1>4. new \in Owner \X Nat /\ new[1] = u /\ new[2] = held[u] + 1 BY <1>2, <1>3
<1>5. new \notin RefsIn(held) BY <1>2, <1>4 DEF RefsIn
<1>6. ASSUME NEW r \in Owner \X Nat PROVE r \in RefsIn(now) <=> r \in RefsIn(held) \cup {new}
  <2>1. r[1] \in Owner /\ r[2] \in Nat /\ r = <<r[1], r[2]>> OBVIOUS
  <2>2. r = new <=> r[1] = u /\ r[2] = held[u] + 1 BY <2>1, <1>3
  <2>3. CASE r[1] = u
    <3>1. r[2] \in 1 .. now[u] <=> r[2] \in 1 .. held[u] \/ r[2] = held[u] + 1
      BY <1>2, <2>1
    <3>. QED BY <2>2, <2>3, <3>1 DEF RefsIn
  <2>4. CASE r[1] # u BY <1>2, <2>1, <2>2, <2>4 DEF RefsIn
  <2>. QED BY <2>3, <2>4
<1>7. RefsIn(now) = RefsIn(held) \cup {new} BY <1>4, <1>6 DEF RefsIn
<1>8. IsFiniteSet(RefsIn(now)) /\ Cardinality(RefsIn(now)) = Cardinality(RefsIn(held)) + 1
  BY <1>5, <1>7, FS_AddElement
<1>. QED BY <1>1, <1>2, <1>8

(* Giving one back that is held.                                           *)
LEMMA RefGiven ==
  ASSUME NEW held \in [Owner -> Nat], NEW u \in Owner, held[u] > 0, IsFiniteSet(RefsIn(held))
  PROVE  LET now == [held EXCEPT ![u] = @ - 1]
         IN  /\ now \in [Owner -> Nat] /\ IsFiniteSet(RefsIn(now))
             /\ Cardinality(RefsIn(held)) = Cardinality(RefsIn(now)) + 1
<1>1. PICK now : now = [held EXCEPT ![u] = @ - 1] OBVIOUS
<1>2. now \in [Owner -> Nat] /\ now[u] = held[u] - 1 /\ held[u] \in Nat \ {0}
  BY <1>1
<1>3. [now EXCEPT ![u] = @ + 1] = held
  <2>1. now[u] + 1 = held[u] BY <1>2
  <2>. QED BY <1>1, <2>1
<1>4. RefsIn(now) \subseteq RefsIn(held)
  <2>1. \A v \in Owner : now[v] \in Nat /\ held[v] \in Nat /\ now[v] <= held[v] BY <1>1, <1>2
  <2>2. \A r \in Owner \X Nat : r[1] \in Owner /\ r[2] \in Nat OBVIOUS
  <2>. QED BY <2>1, <2>2 DEF RefsIn
<1>5. IsFiniteSet(RefsIn(now)) BY <1>4, FS_Subset
<1>. QED BY <1>1, <1>2, <1>3, <1>5, RefTaken

(* Nobody holds anything.                                                  *)
LEMMA NoRefs ==
  ASSUME NEW held \in [Owner -> Nat]
  PROVE  RefsIn(held) = {} <=> \A u \in Owner : ~(held[u] > 0)
<1>1. ASSUME NEW u \in Owner, held[u] > 0 PROVE RefsIn(held) # {}
  <2>1. held[u] \in Nat /\ 1 \in 1 .. held[u] BY <1>1
  <2>2. <<u, 1>> \in Owner \X Nat /\ <<u, 1>>[1] = u /\ <<u, 1>>[2] = 1 OBVIOUS
  <2>3. <<u, 1>> \in RefsIn(held) BY <2>1, <2>2 DEF RefsIn
  <2>. QED BY <2>3
<1>2. ASSUME NEW r \in RefsIn(held) PROVE \E u \in Owner : held[u] > 0
  <2>1. r[1] \in Owner /\ r[2] \in Nat /\ r[2] \in 1 .. held[r[1]] BY DEF RefsIn
  <2>2. held[r[1]] \in Nat BY <2>1
  <2>3. held[r[1]] > 0 BY <2>1, <2>2
  <2>. QED BY <2>1, <2>3
<1>. QED BY <1>1, <1>2

(* What the operations do to one manifest.                                 *)
LEMMA ManifestTaken ==
  ASSUME NEW m \in ManifestRecord, NEW held \in [Owner -> Nat], NEW x, NEW S, NEW u \in Owner,
         ManifestKept(m, held, x \in S), m # NoManifest, m.owner \in {u, Common}
  PROVE  /\ [m EXCEPT !.ref = @ + 1] \in ManifestRecord
         /\ [held EXCEPT ![u] = @ + 1] \in [Owner -> Nat]
         /\ ManifestKept([m EXCEPT !.ref = @ + 1], [held EXCEPT ![u] = @ + 1], x \in S)
<1>1. PICK now : now = [held EXCEPT ![u] = @ + 1] OBVIOUS
<1>2. PICK n : n = [m EXCEPT !.ref = @ + 1] OBVIOUS
<1>3. /\ n \in ManifestRecord /\ n.ref = m.ref + 1 /\ n.owner = m.owner /\ n.usr = m.usr /\ m.ref \in Nat
  BY <1>2 DEF ManifestRecord
<1>4. /\ now \in [Owner -> Nat] /\ IsFiniteSet(RefsIn(now)) /\ IsFiniteSet(RefsIn(held))
      /\ Cardinality(RefsIn(now)) = Cardinality(RefsIn(held)) + 1
  BY <1>1, RefTaken DEF ManifestKept
<1>5. Cardinality(RefsIn(held)) \in Nat BY <1>4, FS_CardinalityType
<1>6. \A v \in Owner : now[v] > 0 => v = u \/ held[v] > 0
  BY <1>1
<1>7. m.ref >= Cardinality(RefsIn(held)) + (IF x \in S THEN 1 ELSE 0) BY DEF ManifestKept
<1>8. n.ref >= Cardinality(RefsIn(now)) + (IF x \in S THEN 1 ELSE 0)
  BY <1>3, <1>4, <1>5, <1>7
<1>9. \A v \in Owner : now[v] > 0 => n.owner \in {v, Common}
  BY <1>3, <1>6 DEF ManifestKept
<1>10. x \in S => n.owner \in {n.usr, Common} BY <1>3 DEF ManifestKept
<1>11. ManifestKept(n, now, x \in S)
  BY NoManifestIsNone, <1>3, <1>4, <1>8, <1>9, <1>10 DEF ManifestKept
<1>. QED BY <1>1, <1>2, <1>3, <1>4, <1>11

(* The last reference that is given back is not the cache's.               *)
LEMMA ManifestGiven ==
  ASSUME NEW m \in ManifestRecord, NEW held \in [Owner -> Nat], NEW x, NEW S, NEW u \in Owner,
         held[u] > 0, ManifestKept(m, held, x \in S), m # NoManifest
  PROVE  LET n == IF m.ref = 1 THEN NoManifest ELSE [m EXCEPT !.ref = @ - 1]
         IN  /\ n \in ManifestRecord \cup {NoManifest}
             /\ [held EXCEPT ![u] = @ - 1] \in [Owner -> Nat]
             /\ ManifestKept(n, [held EXCEPT ![u] = @ - 1], x \in S)
             /\ m.ref = 1 => x \notin S
<1>1. PICK now : now = [held EXCEPT ![u] = @ - 1] OBVIOUS
<1>2. PICK n : n = IF m.ref = 1 THEN NoManifest ELSE [m EXCEPT !.ref = @ - 1] OBVIOUS
<1>3. /\ now \in [Owner -> Nat] /\ IsFiniteSet(RefsIn(now)) /\ IsFiniteSet(RefsIn(held))
      /\ Cardinality(RefsIn(held)) = Cardinality(RefsIn(now)) + 1
  BY <1>1, RefGiven DEF ManifestKept
<1>4. Cardinality(RefsIn(held)) \in Nat /\ Cardinality(RefsIn(now)) \in Nat BY <1>3, FS_CardinalityType
<1>5. \A v \in Owner : now[v] > 0 => held[v] > 0 BY <1>1
<1>6. m.ref \in Nat /\ m.ref # 0 BY DEF ManifestRecord
<1>7. m.ref >= Cardinality(RefsIn(held)) + (IF x \in S THEN 1 ELSE 0) BY DEF ManifestKept
<1>8. CASE m.ref = 1
  <2>1. Cardinality(RefsIn(now)) = 0 /\ x \notin S BY <1>3, <1>4, <1>7, <1>8
  <2>2. RefsIn(now) = {} BY <2>1, <1>3, FS_EmptySet
  <2>. QED BY <1>1, <1>2, <1>3, <1>8, <2>1, <2>2 DEF ManifestKept
<1>9. CASE m.ref # 1
  <2>1. n \in ManifestRecord /\ n.ref = m.ref - 1 /\ n.owner = m.owner /\ n.usr = m.usr
    BY <1>2, <1>6, <1>9 DEF ManifestRecord
  <2>2. n.ref >= Cardinality(RefsIn(now)) + (IF x \in S THEN 1 ELSE 0)
    BY <2>1, <1>3, <1>4, <1>6, <1>7
  <2>3. n # NoManifest
    BY <2>1, NoManifestIsNone
  <2>4. ManifestKept(n, now, x \in S)
    BY <2>1, <2>2, <2>3, <1>3, <1>5 DEF ManifestKept
  <2>. QED BY <1>1, <1>2, <1>3, <1>9, <2>1, <2>4
<1>. QED BY <1>8, <1>9

(* A manifest that has just been read.                                     *)
LEMMA NewManifestKept ==
  ASSUME NEW held \in [Owner -> Nat], RefsIn(held) = {}, NEW u \in Owner, NEW f \in File, NEW n \in {1, 2},
         NEW x, NEW S, x \in S => f[1] \in {u, Common}
  PROVE  /\ NewManifest(u, f, n) \in ManifestRecord
         /\ ManifestKept(NewManifest(u, f, n), held, x \in S)
         /\ \A v \in Owner : f[1] \in {v, Common} =>
              /\ [held EXCEPT ![v] = @ + 1] \in [Owner -> Nat]
              /\ ManifestKept(NewManifest(u, f, 2), [held EXCEPT ![v] = @ + 1], x \in S)
<1>1. f[1] \in Owner /\ f[2] \in Package BY DEF File
<1>2. \A i \in {1, 2} : /\ NewManifest(u, f, i) \in ManifestRecord
                        /\ NewManifest(u, f, i).ref = i /\ NewManifest(u, f, i).owner = f[1]
                        /\ NewManifest(u, f, i).usr = u
  BY <1>1 DEF NewManifest, ManifestRecord
<1>3. IsFiniteSet(RefsIn(held)) /\ RefsIn(held) = {} /\ \A v \in Owner : ~(held[v] > 0)
  BY NoRefs, FS_EmptySet
<1>4. Cardinality(RefsIn(held)) = 0 BY <1>3, FS_EmptySet
<1>5. ASSUME NEW i \in {1, 2} PROVE ManifestKept(NewManifest(u, f, i), held, x \in S)
  <2>1. i >= 0 + (IF x \in S THEN 1 ELSE 0) OBVIOUS
  <2>2. NewManifest(u, f, i) # NoManifest BY <1>2, NoManifestIsNone
  <2>. QED BY <1>2, <1>3, <1>4, <2>1, <2>2 DEF ManifestKept
<1>6. ASSUME NEW v \in Owner, f[1] \in {v, Common}
      PROVE  /\ [held EXCEPT ![v] = @ + 1] \in [Owner -> Nat]
             /\ ManifestKept(NewManifest(u, f, 2), [held EXCEPT ![v] = @ + 1], x \in S)
  <2>1. PICK m1 \in ManifestRecord : m1 = NewManifest(u, f, 1) BY <1>2
  <2>2. m1 # NoManifest /\ m1.owner = f[1] BY <1>2, <2>1, NoManifestIsNone
  <2>3. NewManifest(u, f, 2) = [m1 EXCEPT !.ref = @ + 1] BY <2>1 DEF NewManifest
  <2>4. ManifestKept(m1, held, x \in S) BY <2>1, <1>5
  <2>5. /\ [held EXCEPT ![v] = @ + 1] \in [Owner -> Nat]
        /\ ManifestKept([m1 EXCEPT !.ref = @ + 1], [held EXCEPT ![v] = @ + 1], x \in S)
    <3>1. m1.owner \in {v, Common} BY <1>6, <2>2
    <3>. QED BY <2>1, <2>2, <2>4, <3>1, ManifestTaken
  <2>. QED BY <2>3, <2>5
<1>. QED BY <1>2, <1>5, <1>6

(* What the lookup finds.                                                  *)
LEMMA LookupFinds ==
  ASSUME ManTyped, NEW u, NEW p
  PROVE  CacheLookup(u, p) # NoManifest =>
           CacheLookup(u, p) \in Range(cache) /\ man[CacheLookup(u, p)].usr = u
<1>1. PICK found : found = {i \in DOMAIN cache : EntryComp(cache[i], u, p)} OBVIOUS
<1>2. DOMAIN cache = 1 .. Len(cache) /\ Len(cache) \in Nat BY LenProperties DEF ManTyped
<1>3. found \in SUBSET Nat BY <1>1, <1>2
<1>4. CASE found # {}
  <2>1. Min(found) \in found BY <1>3, <1>4, MinInSet
  <2>2. Min(found) \in DOMAIN cache /\ man[cache[Min(found)]].usr = u BY <1>1, <2>1 DEF EntryComp
  <2>3. cache[Min(found)] \in Range(cache) BY <2>2 DEF Range
  <2>. QED BY <1>1, <1>4, <2>2, <2>3 DEF CacheLookup
<1>5. CASE found = {} BY <1>1, <1>5 DEF CacheLookup
<1>. QED BY <1>4, <1>5

(* There are no manifests at first.                                        *)
LEMMA ManInitKept == ASSUME ManInit PROVE ManInv
<1>1. PICK none \in [Owner -> Nat] : none = [u \in Owner |-> 0] OBVIOUS
<1>2. \A u \in Owner : ~(none[u] > 0) BY <1>1
<1>3. RefsIn(none) = {} BY <1>2, NoRefs
<1>4. ManifestKept(NoManifest, none, FALSE) BY <1>3, FS_EmptySet DEF ManifestKept
<1>5. cache = <<>> /\ man = [x \in Manifest |-> NoManifest] /\ holds = [x \in Manifest |-> none]
  BY <1>1 DEF ManInit
<1>6. cache \in Seq(Manifest) /\ IsInjective(cache) /\ Range(cache) = {}
  BY <1>5 DEF IsInjective, Range
<1>7. ManTyped BY <1>5, <1>6 DEF ManInit, ManTyped
<1>8. ASSUME NEW x \in Manifest PROVE ManifestKept(man[x], holds[x], x \in Range(cache))
  <2>1. man[x] = NoManifest /\ holds[x] = none /\ (x \in Range(cache)) = FALSE BY <1>5, <1>6
  <2>. QED BY <2>1, <1>4
<1>. QED BY <1>7, <1>8 DEF ManInv

(* One that is cached no more has a reference too many.                    *)
LEMMA KeptUncached ==
  ASSUME NEW m \in ManifestRecord \cup {NoManifest}, NEW held, NEW x, NEW S, NEW T,
         ManifestKept(m, held, x \in S), x \in T => x \in S
  PROVE  ManifestKept(m, held, x \in T)
<1>1. CASE m = NoManifest BY <1>1 DEF ManifestKept
<1>2. CASE m # NoManifest
  <2>1. Cardinality(RefsIn(held)) \in Nat /\ m.ref \in Nat
    BY <1>2, FS_CardinalityType DEF ManifestKept, ManifestRecord
  <2>2. m.ref >= Cardinality(RefsIn(held)) + (IF x \in S THEN 1 ELSE 0)
    BY <1>2 DEF ManifestKept
  <2>3. m.ref >= Cardinality(RefsIn(held)) + (IF x \in T THEN 1 ELSE 0)
    BY <2>1, <2>2
  <2>. QED BY <1>2, <2>3 DEF ManifestKept
<1>. QED BY <1>1, <1>2

(* A step of one manifest keeps what is kept of the others.                *)
LEMMA OneChanges ==
  ASSUME ManInv, NEW x \in Manifest, NEW m \in ManifestRecord \cup {NoManifest},
         NEW held \in [Owner -> Nat],
         files' = files, man' = [man EXCEPT ![x] = m], holds' = [holds EXCEPT ![x] = held],
         cache' \in Seq(Manifest), IsInjective(cache'),
         Range(cache') \subseteq Range(cache) \cup {x},
         ManifestKept(m, held, x \in Range(cache'))
  PROVE  ManInv'
<1>1. ManTyped' BY DEF ManTyped, ManInv
<1>2. ASSUME NEW y \in Manifest PROVE ManifestKept(man'[y], holds'[y], y \in Range(cache'))
  <2>1. CASE y = x BY <2>1 DEF ManInv, ManTyped
  <2>2. CASE y # x
    <3>1. man'[y] = man[y] /\ holds'[y] = holds[y] BY <2>2 DEF ManInv, ManTyped
    <3>2. holds[y] \in [Owner -> Nat] /\ man[y] \in ManifestRecord \cup {NoManifest} BY DEF ManInv, ManTyped
    <3>3. ManifestKept(man[y], holds[y], y \in Range(cache)) BY DEF ManInv
    <3>4. y \in Range(cache') => y \in Range(cache) BY <2>2
    <3>5. PICK m1, h1, S, T : m1 = man[y] /\ h1 = holds[y] /\ S = Range(cache) /\ T = Range(cache')
      OBVIOUS
    <3>6. ManifestKept(m1, h1, y \in S) /\ (y \in T => y \in S) /\ m1 \in ManifestRecord \cup {NoManifest}
      BY <3>2, <3>3, <3>4, <3>5
    <3>7. ManifestKept(m1, h1, y \in T) BY <3>6, KeptUncached
    <3>. QED BY <3>1, <3>5, <3>7
  <2>. QED BY <2>1, <2>2
<1>. QED BY <1>1, <1>2 DEF ManInv
(* One that is not in memory is nobody's.                                  *)
LEMMA FreeManifest ==
  ASSUME ManInv, NEW x \in Manifest, man[x] = NoManifest
  PROVE  x \notin Range(cache) /\ RefsIn(holds[x]) = {} /\ holds[x] \in [Owner -> Nat]
BY DEF ManInv, ManifestKept, ManTyped

(* One that is cached is in memory, and of who it is found for.            *)
LEMMA CachedManifest ==
  ASSUME ManInv, NEW x \in Range(cache)
  PROVE  /\ x \in Manifest /\ man[x] # NoManifest /\ man[x] \in ManifestRecord
         /\ man[x].owner \in {man[x].usr, Common}
<1>1. x \in Manifest BY MembersOf DEF ManInv, ManTyped
<1>. QED BY <1>1 DEF ManInv, ManifestKept, ManTyped

(* A manifest that is got is found in the cache, or read; when the cache is *)
(* full it is not held.                                                    *)
LEMMA GetKeeps ==
  ASSUME ManInv, NEW u \in Owner, NEW p \in Package, IotManifestGet(u, p)
  PROVE  ManInv'
<1>1. PICK own : own = CacheLookup(u, p) OBVIOUS
<1>2. PICK hit : hit = IF own # NoManifest THEN own ELSE CacheLookup(Common, p) OBVIOUS
<1>3. PICK f : f = IF ManifestPath(<<u, p>>) THEN <<u, p>> ELSE <<Common, p>> OBVIOUS
<1>4. f \in File /\ f[1] \in {u, Common} BY <1>3 DEF File, Owner
<1>5. /\ IF hit # NoManifest
         THEN /\ man' = [man EXCEPT ![hit].ref = @ + 1] /\ Took(hit, u)
              /\ UNCHANGED cache
         ELSE \E x \in {y \in Manifest : man[y] = NoManifest} :
              /\ ManifestRead(f)
              /\ IF caching /\ Len(cache) = CacheLimit
                 THEN /\ man' = [man EXCEPT ![x] = NewManifest(u, f, 1)]
                      /\ UNCHANGED <<cache, holds>>
                 ELSE /\ man' = [man EXCEPT ![x] = NewManifest(u, f, 2)]
                      /\ cache' = IF caching THEN Append(cache, x) ELSE cache
                      /\ Took(x, u)
      /\ files' = files
  BY <1>1, <1>2, <1>3 DEF IotManifestGet
<1>6. cache \in Seq(Manifest) /\ IsInjective(cache) /\ ManTyped BY DEF ManInv, ManTyped
<1>7. CASE hit # NoManifest
  <2>1. hit \in Range(cache) /\ man[hit].usr \in {u, Common}
    BY <1>1, <1>2, <1>6, <1>7, LookupFinds
  <2>2. hit \in Manifest /\ man[hit] # NoManifest /\ man[hit] \in ManifestRecord /\ man[hit].owner \in {u, Common}
    BY <2>1, CachedManifest
  <2>3. PICK m, held, S : m = man[hit] /\ held = holds[hit] /\ S = Range(cache) OBVIOUS
  <2>4. held \in [Owner -> Nat] /\ ManifestKept(m, held, hit \in S)
    BY <2>2, <2>3 DEF ManInv, ManTyped
  <2>5. /\ [m EXCEPT !.ref = @ + 1] \in ManifestRecord /\ [held EXCEPT ![u] = @ + 1] \in [Owner -> Nat]
        /\ ManifestKept([m EXCEPT !.ref = @ + 1], [held EXCEPT ![u] = @ + 1], hit \in S)
    BY <2>2, <2>3, <2>4, ManifestTaken
  <2>6. PICK m2 \in ManifestRecord, held2 \in [Owner -> Nat] :
          /\ m2 = [m EXCEPT !.ref = @ + 1] /\ held2 = [held EXCEPT ![u] = @ + 1]
          /\ ManifestKept(m2, held2, hit \in S)
    BY <2>5
  <2>7. man' = [man EXCEPT ![hit] = m2] /\ holds' = [holds EXCEPT ![hit] = held2] /\ cache' = cache
    BY <1>5, <1>7, <2>3, <2>6 DEF Took
  <2>8. ManifestKept(m2, held2, hit \in Range(cache')) BY <2>3, <2>6, <2>7
  <2>. QED BY <1>5, <1>6, <2>2, <2>6, <2>7, <2>8, OneChanges
<1>8. CASE hit = NoManifest
  <2>1. PICK x \in {y \in Manifest : man[y] = NoManifest} :
          IF caching /\ Len(cache) = CacheLimit
          THEN /\ man' = [man EXCEPT ![x] = NewManifest(u, f, 1)]
               /\ UNCHANGED <<cache, holds>>
          ELSE /\ man' = [man EXCEPT ![x] = NewManifest(u, f, 2)]
               /\ cache' = IF caching THEN Append(cache, x) ELSE cache
               /\ Took(x, u)
    BY <1>5, <1>8
  <2>2. x \notin Range(cache) /\ RefsIn(holds[x]) = {} /\ holds[x] \in [Owner -> Nat] /\ x \in Manifest
    BY <2>1, FreeManifest
  <2>3. PICK held \in [Owner -> Nat] : held = holds[x] /\ RefsIn(held) = {} BY <2>2
  <2>4. PICK S : S = Range(cache') OBVIOUS
  <2>5. /\ NewManifest(u, f, 1) \in ManifestRecord /\ NewManifest(u, f, 2) \in ManifestRecord
        /\ ManifestKept(NewManifest(u, f, 1), held, x \in S)
        /\ [held EXCEPT ![u] = @ + 1] \in [Owner -> Nat]
        /\ ManifestKept(NewManifest(u, f, 2), [held EXCEPT ![u] = @ + 1], x \in S)
    BY <1>4, <2>3, NewManifestKept
  <2>6. CASE caching /\ Len(cache) = CacheLimit
    <3>1. man' = [man EXCEPT ![x] = NewManifest(u, f, 1)] /\ holds' = [holds EXCEPT ![x] = held] /\ cache' = cache
      BY <2>1, <2>3, <2>6, <1>6 DEF ManTyped
    <3>. QED BY <1>5, <1>6, <2>2, <2>4, <2>5, <3>1, OneChanges
  <2>7. CASE ~(caching /\ Len(cache) = CacheLimit)
    <3>1. /\ man' = [man EXCEPT ![x] = NewManifest(u, f, 2)]
          /\ holds' = [holds EXCEPT ![x] = [held EXCEPT ![u] = @ + 1]]
          /\ cache' \in {cache, Append(cache, x)}
      BY <2>1, <2>3, <2>7 DEF Took
    <3>2. cache' \in Seq(Manifest) /\ IsInjective(cache') /\ Range(cache') \subseteq Range(cache) \cup {x}
      <4>1. PICK s \in Seq(Manifest) : s = cache BY <1>6
      <4>2. /\ Append(s, x) \in Seq(Manifest) /\ Range(Append(s, x)) = Range(s) \cup {x}
            /\ IsInjective(Append(s, x))
        BY <1>6, <2>2, <4>1, AppendFacts
      <4>. QED BY <1>6, <3>1, <4>1, <4>2
    <3>. QED BY <1>5, <2>2, <2>4, <2>5, <3>1, <3>2, OneChanges
  <2>. QED BY <2>6, <2>7
<1>. QED BY <1>7, <1>8

(* A manifest that is read on its own is not cached.                       *)
LEMMA ReadKeeps ==
  ASSUME ManInv, NEW f \in File, IotManifestRead(f)
  PROVE  ManInv'
<1>1. PICK x \in {y \in Manifest : man[y] = NoManifest} :
        /\ man' = [man EXCEPT ![x] = NewManifest(Common, f, 2)]
        /\ Took(x, f[1]) /\ UNCHANGED <<files, cache>>
  BY DEF IotManifestRead
<1>2. x \notin Range(cache) /\ RefsIn(holds[x]) = {} /\ holds[x] \in [Owner -> Nat] /\ x \in Manifest
  BY <1>1, FreeManifest
<1>3. PICK held \in [Owner -> Nat] : held = holds[x] /\ RefsIn(held) = {} BY <1>2
<1>4. PICK S : S = Range(cache') OBVIOUS
<1>5. x \notin S BY <1>1, <1>2, <1>4
<1>6. f[1] \in Owner /\ Common \in Owner BY DEF File, Owner
<1>7. /\ NewManifest(Common, f, 2) \in ManifestRecord
      /\ [held EXCEPT ![f[1]] = @ + 1] \in [Owner -> Nat]
      /\ ManifestKept(NewManifest(Common, f, 2), [held EXCEPT ![f[1]] = @ + 1], x \in S)
  BY <1>3, <1>5, <1>6, NewManifestKept
<1>8. holds' = [holds EXCEPT ![x] = [held EXCEPT ![f[1]] = @ + 1]]
  BY <1>1, <1>3 DEF Took
<1>9. cache' = cache /\ cache \in Seq(Manifest) /\ IsInjective(cache) BY <1>1 DEF ManInv, ManTyped
<1>. QED BY <1>1, <1>2, <1>4, <1>7, <1>8, <1>9, OneChanges

(* A manifest that is freed is not cached: what is taken out of the cache, *)
(* if anything is, is another one of the same name.                        *)
LEMMA UnrefKeeps ==
  ASSUME ManInv, NEW x \in Manifest, NEW u \in Owner, IotManifestUnref(x, u)
  PROVE  ManInv'
<1>1. /\ holds[x][u] > 0 /\ files' = files
      /\ man' = [man EXCEPT ![x] = ManifestFree(x)]
      /\ cache' \in {cache, RemoveFirst(cache, CacheLookup(man[x].usr, man[x].pkg))}
      /\ holds' = [holds EXCEPT ![x][u] = @ - 1]
  BY DEF IotManifestUnref
<1>2. cache \in Seq(Manifest) /\ IsInjective(cache) BY DEF ManInv, ManTyped
<1>3. cache' \in Seq(Manifest) /\ IsInjective(cache') /\ Range(cache') \subseteq Range(cache)
  BY <1>1, <1>2, RemovedFacts
<1>4. PICK m, held, S, T : m = man[x] /\ held = holds[x] /\ S = Range(cache) /\ T = Range(cache') OBVIOUS
<1>5. held \in [Owner -> Nat] /\ ManifestKept(m, held, x \in S) /\ held[u] > 0 /\ m \in ManifestRecord \cup {NoManifest}
  BY <1>1, <1>4 DEF ManInv, ManTyped
<1>6. m # NoManifest BY <1>5, NoRefs DEF ManifestKept
<1>7. PICK n : n = IF m.ref = 1 THEN NoManifest ELSE [m EXCEPT !.ref = @ - 1] OBVIOUS
<1>8. n \in ManifestRecord \cup {NoManifest} /\ [held EXCEPT ![u] = @ - 1] \in [Owner -> Nat]
      /\ ManifestKept(n, [held EXCEPT ![u] = @ - 1], x \in S)
  BY <1>5, <1>6, <1>7, ManifestGiven
<1>9. PICK held2 \in [Owner -> Nat] : held2 = [held EXCEPT ![u] = @ - 1] BY <1>8
<1>10. man' = [man EXCEPT ![x] = n] /\ holds' = [holds EXCEPT ![x] = held2]
  BY <1>1, <1>4, <1>7, <1>9 DEF ManifestFree
<1>11. ManifestKept(n, held2, x \in T)
  <2>1. ManifestKept(n, held2, x \in S) /\ (x \in T => x \in S) BY <1>3, <1>4, <1>8, <1>9
  <2>. QED BY <1>8, <2>1, KeptUncached
<1>. QED BY <1>1, <1>3, <1>4, <1>8, <1>10, <1>11, OneChanges

(* What is thrown away with the cache is held by nobody.                   *)
LEMMA CachingKeeps ==
  ASSUME ManInv, ~ResetWhileHeld, NEW enable \in BOOLEAN, IotManifestCaching(enable)
  PROVE  ManInv'
<1>1. CASE enable
  <2>1. UNCHANGED <<files, man, cache, holds>> BY <1>1 DEF IotManifestCaching
  <2>. QED BY <2>1 DEF ManInv, ManTyped
<1>2. CASE ~enable
  <2>1. /\ \A x \in Range(cache) : Holders(x) = {}
        /\ cache' = <<>> /\ UNCHANGED <<files, holds>>
        /\ man' = [x \in Manifest |-> IF x \in Range(cache) THEN NoManifest ELSE man[x]]
    BY <1>2 DEF IotManifestCaching, CacheDestroy
  <2>2. cache' \in Seq(Manifest) /\ IsInjective(cache') /\ Range(cache') = {}
    BY <2>1 DEF IsInjective, Range
  <2>3. ManTyped' BY <2>1, <2>2 DEF ManInv, ManTyped
  <2>4. ASSUME NEW x \in Manifest PROVE ManifestKept(man'[x], holds'[x], x \in Range(cache'))
    <3>1. PICK m, held, S, T : m = man[x] /\ held = holds[x] /\ S = Range(cache) /\ T = Range(cache') OBVIOUS
    <3>2. held \in [Owner -> Nat] /\ m \in ManifestRecord \cup {NoManifest} /\ ManifestKept(m, held, x \in S)
      BY <3>1 DEF ManInv, ManTyped
    <3>3. CASE x \in S
      <4>1. \A u \in Owner : ~(held[u] > 0) BY <2>1, <3>1, <3>3 DEF Holders
      <4>2. RefsIn(held) = {} BY <3>2, <4>1, NoRefs
      <4>3. ManifestKept(NoManifest, held, x \in T)
        BY <2>2, <3>1, <4>2, FS_EmptySet DEF ManifestKept
      <4>. QED BY <2>1, <3>1, <3>3, <4>3
    <3>4. CASE x \notin S
      <4>1. ManifestKept(m, held, x \in T) BY <2>2, <3>1, <3>2, KeptUncached
      <4>. QED BY <2>1, <3>1, <3>4, <4>1
    <3>. QED BY <3>3, <3>4
  <2>. QED BY <2>3, <2>4 DEF ManInv
<1>. QED BY <1>1, <1>2

(* Manifests that are read from directories belong to who is looked up.    *)
LEMMA PopulateKeeps == ASSUME ManInv, IotManifestPopulateCache PROVE ManInv'
<1>0. \A k : kSubset(k, {y \in Manifest : man[y] = NoManifest}) \subseteq SUBSET Manifest
  BY DEF kSubset
<1>1. PICK read \in SUBSET Among(File, "good"), new \in SUBSET Manifest :
        LET xs == SetToSeq(new)
            fs == SetToSeq(read)
            its(x) == fs[CHOOSE i \in DOMAIN xs : xs[i] = x]
        IN  /\ new \in kSubset(Cardinality(read), {y \in Manifest : man[y] = NoManifest})
            /\ man' = [x \in Manifest |->
                         IF x \in new THEN NewManifest(its(x)[1], its(x), 1) ELSE man[x]]
            /\ cache' = SubSeq(cache \o xs, 1, Min({CacheLimit, Len(cache \o xs)}))
            /\ UNCHANGED <<files, holds>>
  BY <1>0 DEF IotManifestPopulateCache
<1>2. PICK xs, fs : xs = SetToSeq(new) /\ fs = SetToSeq(read) OBVIOUS
<1>3. read \subseteq File /\ new \subseteq Manifest /\ (\A x \in new : man[x] = NoManifest)
      /\ Cardinality(new) = Cardinality(read)
  BY <1>1 DEF Among, kSubset
<1>4. IsFiniteSet(read) /\ IsFiniteSet(new)
  <2>1. IsFiniteSet(User) /\ IsFiniteSet(Package) /\ IsFiniteSet(Manifest) BY ManifestsAssumption
  <2>2. IsFiniteSet(Owner) BY <2>1, FS_AddElement DEF Owner
  <2>3. IsFiniteSet(File) BY <2>1, <2>2, FS_Product DEF File
  <2>. QED BY <1>3, <2>1, <2>3, FS_Subset
<1>5. /\ xs \in Seq(new) /\ IsInjective(xs) /\ DOMAIN xs = 1 .. Cardinality(new)
      /\ \A x \in new : \E i \in DOMAIN xs : xs[i] = x
      /\ fs \in [1 .. Cardinality(read) -> read]
  BY <1>2, <1>4, SetToSeqFacts
<1>6. PICK its : its = [x \in new |-> fs[CHOOSE i \in DOMAIN xs : xs[i] = x]] OBVIOUS
<1>7. \A x \in new : its[x] \in File
  <2>1. ASSUME NEW x \in new PROVE (CHOOSE i \in DOMAIN xs : xs[i] = x) \in DOMAIN xs
    BY <1>5
  <2>. QED BY <2>1, <1>3, <1>5, <1>6
<1>8. /\ man' = [x \in Manifest |-> IF x \in new THEN NewManifest(its[x][1], its[x], 1) ELSE man[x]]
      /\ cache' = SubSeq(cache \o xs, 1, Min({CacheLimit, Len(cache \o xs)}))
      /\ files' = files /\ holds' = holds
  BY <1>1, <1>2, <1>6
<1>9. cache \in Seq(Manifest) /\ IsInjective(cache) /\ ManTyped BY DEF ManInv, ManTyped
<1>10. Range(xs) \subseteq new BY <1>5, MembersOf
<1>11. \A x \in new : x \notin Range(cache) BY <1>3, FreeManifest
<1>12. cache' \in Seq(Manifest) /\ IsInjective(cache') /\ Range(cache') \subseteq Range(cache) \cup new
  <2>1. xs \in Seq(Manifest) /\ Range(cache) \cap Range(xs) = {}
    BY <1>3, <1>5, <1>10, <1>11
  <2>2. PICK c, x : c = cache /\ x = xs OBVIOUS
  <2>3. /\ c \o x \in Seq(Manifest) /\ IsInjective(c \o x)
        /\ Range(c \o x) = Range(c) \cup Range(x)
    BY <1>5, <1>9, <2>1, <2>2, ConcatFacts
  <2>4. PICK all \in Seq(Manifest) : all = cache \o xs /\ IsInjective(all) /\ Range(all) = Range(cache) \cup Range(xs)
    BY <2>2, <2>3
  <2>5. PICK k : k = Min({CacheLimit, Len(all)}) OBVIOUS
  <2>6. Len(all) \in Nat /\ CacheLimit \in Nat BY LenProperties, ManifestsAssumption
  <2>7. k \in {CacheLimit, Len(all)} /\ \A y \in {CacheLimit, Len(all)} : k <= y
    BY <2>5, <2>6, MinInSet
  <2>8. k \in 0 .. Len(all) BY <2>6, <2>7
  <2>. QED BY <1>8, <1>10, <2>4, <2>5, <2>8, FrontFacts
<1>13. ASSUME NEW x \in Manifest
       PROVE  /\ man'[x] \in ManifestRecord \cup {NoManifest}
              /\ ManifestKept(man'[x], holds'[x], x \in Range(cache'))
  <2>1. PICK m, held, S, T : m = man[x] /\ held = holds[x] /\ S = Range(cache) /\ T = Range(cache') OBVIOUS
  <2>2. held \in [Owner -> Nat] /\ m \in ManifestRecord \cup {NoManifest} /\ ManifestKept(m, held, x \in S)
    BY <2>1 DEF ManInv, ManTyped
  <2>3. CASE x \in new
    <3>1. its[x] \in File /\ its[x][1] \in Owner BY <1>7, <2>3 DEF File
    <3>2. RefsIn(held) = {} BY <1>3, <2>1, <2>3, FreeManifest
    <3>3. /\ NewManifest(its[x][1], its[x], 1) \in ManifestRecord
          /\ ManifestKept(NewManifest(its[x][1], its[x], 1), held, x \in T)
      BY <2>2, <3>1, <3>2, NewManifestKept
    <3>4. man'[x] = NewManifest(its[x][1], its[x], 1) /\ holds'[x] = held BY <1>8, <2>1, <2>3
    <3>. QED BY <2>1, <3>3, <3>4
  <2>4. CASE x \notin new
    <3>1. x \in T => x \in S BY <1>12, <2>1, <2>4
    <3>2. ManifestKept(m, held, x \in T) BY <2>2, <3>1, KeptUncached
    <3>3. man'[x] = m /\ holds'[x] = held BY <1>8, <2>1, <2>4
    <3>. QED BY <2>1, <2>2, <3>2, <3>3
  <2>. QED BY <2>3, <2>4
<1>14. man' \in [Manifest -> ManifestRecord \cup {NoManifest}]
  <2>1. man' = [x \in Manifest |-> man'[x]] BY <1>8
  <2>. QED BY <2>1, <1>13
<1>15. ManTyped' BY <1>8, <1>9, <1>12, <1>14 DEF ManTyped
<1>. QED BY <1>13, <1>15 DEF ManInv

(* Every step keeps the invariant.                                         *)
LEMMA ManStep == ASSUME ManInv, ~ResetWhileHeld, [ManNext]_manVars PROVE ManInv'
<1>1. ASSUME NEW client \in User, ListInstalled(client) PROVE ManInv'
  <2>1. UNCHANGED <<files, man, cache, holds>> BY <1>1 DEF ListInstalled
  <2>. QED BY <2>1 DEF ManInv, ManTyped
<1>2. ASSUME NEW f \in File, NEW has \in {"none", "good", "bad"}, FileChanges(f, has) PROVE ManInv'
  <2>1. files' = [files EXCEPT ![f] = has] /\ UNCHANGED <<man, cache, holds>> BY <1>2 DEF FileChanges
  <2>2. files' \in [File -> {"none", "good", "bad"}] BY <2>1 DEF ManInv, ManTyped
  <2>. QED BY <2>1, <2>2 DEF ManInv, ManTyped
<1>3. CASE UNCHANGED manVars
  BY <1>3 DEF manVars, ManInv, ManTyped
<1>. QED
  BY GetKeeps, ReadKeeps, UnrefKeeps, CachingKeeps, PopulateKeeps, <1>1, <1>2, <1>3 DEF ManNext

(* THEOREM ManifestsSafety: however often a manifest is got, read and      *)
(* given back, and the cache made, filled and thrown away, while files     *)
(* come and go: as long as nobody throws the cache away while cached       *)
(* manifests are held, a manifest that is held is in memory and of the     *)
(* user it was asked for, or a common one.                                 *)
THEOREM ManifestsSafety == ManSpec /\ ~ResetWhileHeld => []ManifestsHeld
<1>. SUFFICES ASSUME ~ResetWhileHeld PROVE ManSpec => []ManifestsHeld
  OBVIOUS
<1>1. ManInv => ManifestsHeld
  <2>. SUFFICES ASSUME ManInv PROVE ManifestsHeld OBVIOUS
  <2>1. ASSUME NEW x \in Manifest, NEW u \in Owner, holds[x][u] > 0
        PROVE  man[x] # NoManifest /\ man[x].owner \in {u, Common}
    <3>1. holds[x] \in [Owner -> Nat] /\ ManifestKept(man[x], holds[x], x \in Range(cache))
      BY DEF ManInv, ManTyped
    <3>2. man[x] # NoManifest BY <2>1, <3>1, NoRefs DEF ManifestKept
    <3>. QED BY <2>1, <3>1, <3>2 DEF ManifestKept
  <2>2. \A x \in Range(cache) : man[x] # NoManifest BY CachedManifest
  <2>. QED BY <2>1, <2>2 DEF ManifestsHeld, ManInv, ManTyped
<1>. QED BY <1>1, ManInitKept, ManStep, PTL DEF ManSpec

(* What a client was told is what the files say, while they say it.        *)
LEMMA ListingRight ==
  ASSUME NEW client \in User, ListInstalled(client)
  PROVE  ListedRight'
<1>1. PICK read \in SUBSET Among(File, "good"), ok \in BOOLEAN :
        /\ CachePopulate(read, ok)
        /\ listed' = [client |-> client, ok |-> ok,
                      reply |-> {f \in read : ok /\ MaySee(client, f[1])}]
        /\ files' = files
  BY DEF ListInstalled
<1>2. ok = (\A f \in File : files[f] # "bad")
  <2>1. Among(File, "bad") = {} <=> \A f \in File : files[f] # "bad" BY DEF Among
  <2>2. ok = (Among(File, "bad") = {}) BY <1>1 DEF CachePopulate
  <2>. QED BY <2>1, <2>2
<1>3. ASSUME ok PROVE read = Among(File, "good")
  <2>1. Among(CommonDir, "bad") = {} /\ Among(UserDirs, "bad") = {}
    BY <1>2, <1>3 DEF Among, CommonDir, UserDirs, File, Owner
  <2>2. read = Among(CommonDir, "good") \cup Among(UserDirs, "good")
    BY <1>1, <2>1 DEF CachePopulate, Scanned
  <2>3. File = CommonDir \cup UserDirs BY DEF File, Owner, CommonDir, UserDirs
  <2>. QED BY <2>2, <2>3 DEF Among
<1>4. \A f \in File : MaySee(client, f[1]) <=> f[1] \in Visible(client)
  BY DEF MaySee, Visible, File, Owner
<1>5. ASSUME ok PROVE listed'.reply = {f \in File : files[f] = "good" /\ f[1] \in Visible(client)}
  BY <1>1, <1>3, <1>4, <1>5 DEF Among
<1>6. listed'.ok = ok /\ listed'.client = client BY <1>1
<1>7. (\A f \in File : files'[f] # "bad") = (\A f \in File : files[f] # "bad") BY <1>1
<1>. QED BY <1>1, <1>2, <1>5, <1>6, <1>7 DEF ListedRight, Visible

(* THEOREM ListingSafety: whatever files there are, of any owners and      *)
(* packages and however they come and go, a client that lists what is      *)
(* installed is told of all it may see and of nothing else, or that a bad  *)
(* file made the listing fail.                                             *)
THEOREM ListingSafety == ManSpec => []ListedRight
<1>1. ManInit => ListedRight BY DEF ManInit, ListedRight
<1>2. ListedRight /\ [ManNext]_manVars => ListedRight'
  <2>. SUFFICES ASSUME ListedRight, [ManNext]_manVars PROVE ListedRight' OBVIOUS
  <2>1. ASSUME NEW client \in User, ListInstalled(client) PROVE ListedRight' BY <2>1, ListingRight
  <2>2. ASSUME NEW f \in File, NEW has \in {"none", "good", "bad"}, FileChanges(f, has) PROVE ListedRight'
    BY <2>2 DEF FileChanges, ListedRight
  <2>3. CASE UNCHANGED <<files, listed>> BY <2>3 DEF ListedRight, Visible
  <2>4. \/ \E client \in User : ListInstalled(client)
        \/ \E f \in File, has \in {"none", "good", "bad"} : FileChanges(f, has)
        \/ UNCHANGED <<files, listed>>
    <3>1. ASSUME NEW u \in Owner, NEW p \in Package, IotManifestGet(u, p) PROVE UNCHANGED <<files, listed>>
      BY <3>1 DEF IotManifestGet
    <3>2. ASSUME NEW f \in File, IotManifestRead(f) PROVE UNCHANGED <<files, listed>>
      BY <3>2 DEF IotManifestRead
    <3>3. ASSUME NEW x \in Manifest, NEW u \in Owner, IotManifestUnref(x, u) PROVE UNCHANGED <<files, listed>>
      BY <3>3 DEF IotManifestUnref
    <3>4. ASSUME NEW enable \in BOOLEAN, IotManifestCaching(enable) PROVE UNCHANGED <<files, listed>>
      BY <3>4 DEF IotManifestCaching
    <3>5. IotManifestPopulateCache => UNCHANGED <<files, listed>> BY DEF IotManifestPopulateCache
    <3>6. UNCHANGED manVars => UNCHANGED <<files, listed>> BY DEF manVars
    <3>. QED BY <3>1, <3>2, <3>3, <3>4, <3>5, <3>6 DEF ManNext
  <2>. QED BY <2>1, <2>2, <2>3, <2>4
<1>. QED BY <1>1, <1>2, PTL DEF ManSpec
-----------------------------------------------------------------------------
(* The package manager.                                                    *)

PmgrSpec == PmgrInit /\ [][PmgrNext]_pmgrVars

-----------------------------------------------------------------------------
\* The inductive invariant.

Steps == {"start", "init", "prepare", "copy", "reset", "manifests", "verify", "install",
          "query", "seed", "write", "register", "undo-seed", "undo", "unregister",
          "erase", "unseed", "plant", "check", "show"}
Calls == {"account", "mkdir", "prepare", "copy", "join", "reset", "manifests",
          "query-file", "install", "query", "load", "seed", "write", "register",
          "unseed", "erase", "unregister", "open", "plant", "check", "list"}
Command == [mode : Mode, pkg : Pkg, at : Steps, app : Nat \ {0}, faults : SUBSET Calls,
            info : BOOLEAN, copied : BOOLEAN, planted : BOOLEAN]
Codes == {"OK", "EIO", "EINVAL"}
Result == [mode : Mode, pkg : Pkg, rc : Codes, faults : SUBSET Calls, copied : BOOLEAN]

\* Nothing is returned yet while a command runs.
PmgrTypeOK ==
  /\ cmd = Idle \/ (cmd \in Command /\ last = Idle)
  /\ last = Idle \/ last \in Result
  /\ rpm \subseteq Pkg
  /\ seeds \in [Pkg -> {"none", "part", "whole"}]

LaterNames == {f.name : f \in Range(Later)}

\* The steps of the copy; those behind them find it whole.
NotCopied == {"start", "init", "prepare"}
Copies == {"copy", "reset"}

CopyKept ==
  /\ dbfiles \subseteq Now \cup LaterNames
  /\ cmd # Idle =>
       /\ cmd.at \in NotCopied => ~cmd.copied
       /\ cmd.at = "copy" => /\ Now \subseteq dbfiles /\ cmd.app <= Len(Later)
                             /\ \A i \in 1 .. cmd.app - 1 : Later[i].name \in dbfiles
       /\ cmd.at = "reset" => dbfiles = Now \cup LaterNames
       /\ cmd.copied /\ cmd.at \notin Copies =>
            dbfiles = Now \cup LaterNames /\ (fresh = LaterNames \/ "join" \in cmd.faults)

\* What has been established of the package that is installed.
Installed == {"query", "seed", "write", "register", "undo-seed", "undo"}

InstallKept ==
  cmd # Idle /\ cmd.mode = "post-install" =>
    /\ cmd.at \in Installed \cup {"install"} => IotpmPkginfoVerify(cmd.pkg)
    /\ cmd.at \in Installed => cmd.pkg \in rpm
    /\ cmd.at \in {"seed", "write", "register"} => IotpmManifestLoad(cmd.pkg)
    /\ cmd.at = "register" => seeds[cmd.pkg] = "whole"

\* What there was before the command can be told from what there is.
UndoKept ==
  cmd # Idle /\ cmd.mode = "post-install" =>
    LET p == cmd.pkg
        was == before.seeds
        having(seed) == was[p] = "none" /\ seeds = [was EXCEPT ![p] = seed]
    IN  /\ was \in [Pkg -> {"none", "part", "whole"}]
        /\ cmd.at \notin Installed => rpm = before.rpm
        /\ cmd.at \in Installed => p \notin before.rpm /\ rpm = before.rpm \cup {p}
        /\ cmd.at \notin {"write", "register", "undo-seed", "undo"} => seeds = was
        /\ cmd.at = "write" => having("part")
        /\ cmd.at \in {"register", "undo-seed"} => having("whole")
        /\ cmd.at = "undo" => seeds = was \/ "unseed" \in cmd.faults

OthersKept ==
  cmd # Idle =>
    /\ cmd.at = "register" =>
         /\ cmd.mode \in {"post-install", "pre-install"}
         /\ \A i \in 1 .. cmd.app - 1 : <<cmd.pkg, i>> \in registered
    /\ cmd.mode = "remove" /\ cmd.at = "unseed" => cmd.pkg \notin rpm
    /\ cmd.mode = "db-plant" /\ cmd.at = "check" /\ cmd.planted =>
         Seeded \subseteq rpm \/ "open" \in cmd.faults

PmgrInv ==
  /\ PmgrTypeOK /\ CopyKept /\ InstallKept /\ UndoKept /\ OthersKept
  /\ OkMeansDone /\ FailedUndone

USE PackageManagerAssumption

-----------------------------------------------------------------------------
(* What the packages and the files of the database give.                   *)

(* The files to copy are a list of at least one, Packages.                 *)
LEMMA LaterFacts ==
  /\ Later \in Seq(DatabaseFile) /\ Len(Later) \in Nat \ {0}
  /\ LaterNames = {Later[i].name : i \in 1 .. Len(Later)}
<1> DEFINE T == {f \in Range(DbFile) : Copied(f) /\ f.database}
           packages == [name |-> "Packages", database |-> TRUE]
<1>1. Later \in Seq(DatabaseFile) /\ Range(Later) = Range(DbFile) \cap T
  BY KeepFacts DEF Later
<1>2. packages \in T
  BY DEF Copied
<1>3. packages \in Range(Later)
  BY <1>1, <1>2
<1>4. Len(Later) \in Nat /\ DOMAIN Later = 1 .. Len(Later)
  BY <1>1, LenProperties
<1>5. Range(Later) = {Later[i] : i \in 1 .. Len(Later)}
  BY <1>4 DEF Range
<1>6. Len(Later) # 0
  <2>1. PICK i \in 1 .. Len(Later) : Later[i] = packages
    BY <1>3, <1>5
  <2>. QED BY <1>4, <2>1
<1>7. LaterNames = {Later[i].name : i \in 1 .. Len(Later)}
  BY <1>5 DEF LaterNames
<1>. QED BY <1>1, <1>4, <1>6, <1>7

(* The applications of a package are numbered from one on.                 *)
LEMMA AppsNumbered ==
  ASSUME NEW p \in Pkg
  PROVE  \E n \in Nat : App(p) = 1 .. n /\ Cardinality(App(p)) = n
<1> DEFINE n == Len(Contents[p].apps)
<1>1. n \in Nat /\ App(p) = 1 .. n
  BY LenProperties DEF App
<1>2. Cardinality(1 .. n) = n
  <2> HIDE DEF n
  <2>1. Cardinality(1 .. n) = IF 1 > n THEN 0 ELSE n - 1 + 1
    BY <1>1, FS_Interval
  <2>. QED BY <1>1, <2>1
<1>. QED BY <1>1, <1>2

\* What verify_files() has found when it is through with the first i fs.
VerifiedBy(fs, h) ==
  /\ FoldLeft(VerifyFile, [in |-> "none", ok |-> TRUE], fs) = h[Len(fs)]
  /\ \A i \in 1 .. Len(fs) : h[i] = VerifyFile(h[i - 1], fs[i])

(* verify_files() goes through the files one at a time, with what it has   *)
(* found so far.                                                           *)
LEMMA VerifyUnrolled ==
  ASSUME NEW fs \in Seq(PackageFile)
  PROVE  \E h : VerifiedBy(fs, h)
<1> DEFINE n == Len(fs)
           V == [in : {"none", "home", "local"}, ok : BOOLEAN]
           base == [in |-> "none", ok |-> TRUE]
           Iter(f) == f = [D \in SUBSET (1 .. n) |->
                             IF D = {} THEN base
                             ELSE VerifyFile(f[D \ {Max(D)}], fs[Max(D)])]
           verify == [i \in 1 .. n |-> [acc \in V |-> VerifyFile(acc, fs[i])]]
<1>1. n \in Nat /\ DOMAIN fs = 1 .. n /\ \A i \in 1 .. n : fs[i] \in PackageFile
  BY LenProperties, ElementOfSeq
<1>2. verify \in [1 .. n -> [V -> V]]
  <2>1. ASSUME NEW acc \in V, NEW f \in PackageFile PROVE VerifyFile(acc, f) \in V
    <3>1. VerifyFile(acc, f).ok \in BOOLEAN
      BY DEF VerifyFile
    <3>2. VerifyFile(acc, f).in \in {"none", "home", "local"}
      BY DEF VerifyFile
    <3>3. VerifyFile(acc, f) = [in |-> VerifyFile(acc, f).in, ok |-> VerifyFile(acc, f).ok]
      BY DEF VerifyFile
    <3>. QED BY <3>1, <3>2, <3>3
  <2> HIDE DEF V, n
  <2>. QED BY <1>1, <2>1
<1>3. PICK f \in [SUBSET (1 .. n) -> V] : FoldedBy(n, base, verify, f)
  <2>1. base \in V
    OBVIOUS
  <2> HIDE DEF verify, n, V, base
  <2>. QED BY <1>1, <1>2, <2>1, FoldExists
<1>4. Iter(f)
  <2> HIDE DEF base, V
  <2>1. ASSUME NEW D \in SUBSET (1 .. n), D # {}
        PROVE  f[D] = VerifyFile(f[D \ {Max(D)}], fs[Max(D)])
    <3>1. Max(D) \in 1 .. n /\ f[D \ {Max(D)}] \in V
      BY <1>1, <2>1, MaxInSet
    <3>2. f[D] = verify[Max(D)][f[D \ {Max(D)}]]
      BY <1>3, <2>1 DEF FoldedBy
    <3>. QED BY <3>1, <3>2
  <2>2. f[{}] = base
    BY <1>3 DEF FoldedBy
  <2>. QED BY <2>1, <2>2
<1> DEFINE it == CHOOSE g : Iter(g)
           h == [i \in 0 .. n |-> it[1 .. i]]
<1>5. FoldLeft(VerifyFile, base, fs) = it[1 .. n]
  BY <1>1, Zenon DEF FoldLeft, MapThenFoldSet
<1>6. it = [D \in SUBSET (1 .. n) |->
              IF D = {} THEN base ELSE VerifyFile(it[D \ {Max(D)}], fs[Max(D)])]
  BY <1>4, Zenon
<1> HIDE DEF it, n
<1>7. h[n] = FoldLeft(VerifyFile, base, fs)
  BY <1>1, <1>5
<1>8. ASSUME NEW i \in 1 .. n PROVE h[i] = VerifyFile(h[i - 1], fs[i])
  <2>1. it[1 .. i] = VerifyFile(it[1 .. (i - 1)], fs[i])
    <3>1. /\ 1 .. i \in SUBSET (1 .. n) /\ 1 .. i # {} /\ Max(1 .. i) = i
          /\ (1 .. i) \ {i} = 1 .. (i - 1)
      BY <1>1, FirstPlaces
    <3> HIDE DEF base
    <3>. QED BY <1>6, <3>1
  <2>2. i \in 0 .. n /\ i - 1 \in 0 .. n
    BY <1>1
  <2>. QED BY <2>1, <2>2
<1>9. VerifiedBy(fs, h)
  BY <1>7, <1>8 DEF n, VerifiedBy
<1>. QED BY <1>9

(* One file that is refused is enough.                                     *)
LEMMA NoneSetid ==
  ASSUME NEW p \in Pkg, VerifyFiles(p)
  PROVE  \A f \in Range(Contents[p].files) : ~f.setid
<1> DEFINE fs == Contents[p].files
           n == Len(fs)
<1>1. fs \in Seq(PackageFile) /\ n \in Nat /\ DOMAIN fs = 1 .. n
  BY LenProperties
<1>2. PICK h : VerifiedBy(fs, h)
  BY <1>1, VerifyUnrolled
<1>3. h[n].ok
  BY <1>2 DEF VerifyFiles, VerifiedBy
<1>4. ASSUME NEW i \in 1 .. n PROVE h[i].ok => h[i - 1].ok /\ ~fs[i].setid
  <2>1. ASSUME NEW acc, NEW f PROVE VerifyFile(acc, f).ok => acc.ok /\ ~f.setid
    BY DEF VerifyFile
  <2>2. h[i] = VerifyFile(h[i - 1], fs[i])
    BY <1>2 DEF VerifiedBy
  <2>. QED BY <2>1, <2>2
<1> DEFINE Good == {k \in Nat : k <= n => h[n - k].ok}
<1>5. Good = Nat
  <2>1. 0 \in Good
    <3>1. n - 0 = n
      BY <1>1
    <3>. QED BY <1>3, <3>1
  <2>2. ASSUME NEW k \in Good PROVE k + 1 \in Good
    <3>1. k \in Nat /\ (k <= n => h[n - k].ok)
      OBVIOUS
    <3> HIDE DEF n
    <3>2. ASSUME k + 1 <= n PROVE h[n - (k + 1)].ok
      <4>1. n - k \in 1 .. n /\ (n - k) - 1 = n - (k + 1) /\ k <= n
        BY <1>1, <3>1, <3>2
      <4>. QED BY <1>4, <3>1, <4>1
    <3>. QED BY <3>1, <3>2
  <2>3. Good \in SUBSET Nat
    OBVIOUS
  <2> HIDE DEF Good
  <2>. QED BY <2>1, <2>2, <2>3, UpFromZero
<1>6. ASSUME NEW i \in 1 .. n PROVE ~fs[i].setid
  <2>1. n - i \in Good /\ n - i <= n /\ n - (n - i) = i
    <3>1. n - i \in Nat /\ n - i <= n /\ n - (n - i) = i
      BY <1>1
    <3> HIDE DEF Good
    <3>. QED BY <1>5, <3>1
  <2>2. h[i].ok
    BY <2>1
  <2>. QED BY <1>4, <2>2
<1>7. Range(fs) = {fs[i] : i \in 1 .. n}
  BY <1>1 DEF Range
<1>. QED BY <1>6, <1>7
-----------------------------------------------------------------------------
\* The two ways a step of a command ends: it goes on, or returns.

Stored ==
  /\ rpm \subseteq Pkg
  /\ seeds \in [Pkg -> {"none", "part", "whole"}]

(* While a command goes on nothing is reported.                            *)
LEMMA GoesOn ==
  ASSUME cmd' \in Command, last' = Idle, Stored',
         CopyKept', InstallKept', UndoKept', OthersKept'
  PROVE  PmgrInv'
<1>1. PmgrTypeOK'
  BY DEF PmgrTypeOK, Stored
<1>2. OkMeansDone' /\ FailedUndone'
  BY DEF OkMeansDone, FailedUndone, Returned
<1>. QED BY <1>1, <1>2 DEF PmgrInv

(* When it returns, only its report is left to be right.                   *)
LEMMA Returns ==
  ASSUME cmd \in Command,
         NEW faults \in SUBSET Calls, NEW rc \in Codes, ReturnAfter(faults, rc),
         Stored', dbfiles' \subseteq Now \cup LaterNames, OkMeansDone', FailedUndone'
  PROVE  PmgrInv'
<1>1. cmd' = Idle /\ last' \in Result
  BY DEF ReturnAfter, Command, Result
<1>2. PmgrTypeOK'
  BY <1>1 DEF PmgrTypeOK, Stored
<1>3. CopyKept' /\ InstallKept' /\ UndoKept' /\ OthersKept'
  BY <1>1 DEF CopyKept, InstallKept, UndoKept, OthersKept, Now, LaterNames, Later, Copied
<1>. QED BY <1>2, <1>3 DEF PmgrInv

(* A failure reports nothing to be done, and of an installation only       *)
(* whether it is undone matters.                                           *)
LEMMA Fails ==
  ASSUME cmd \in Command,
         NEW faults \in SUBSET Calls, NEW rc \in Codes \ {"OK"}, ReturnAfter(faults, rc),
         Stored', dbfiles' \subseteq Now \cup LaterNames,
         \/ cmd.mode # "post-install"
         \/ {"query", "erase", "unseed"} \cap faults # {}
         \/ rpm' = before'.rpm /\ seeds' = before'.seeds
  PROVE  PmgrInv'
<1>1. /\ last'.mode = cmd.mode /\ last'.rc = rc /\ last'.faults = faults
      /\ rc \in Codes
  BY DEF ReturnAfter
<1>2. OkMeansDone'
  BY <1>1 DEF OkMeansDone, Returned
<1>3. FailedUndone'
  BY <1>1 DEF FailedUndone
<1>. QED BY <1>1, <1>2, <1>3, Returns

(* A command that is somewhere else is a command.                          *)
LEMMA CommandAt ==
  ASSUME NEW c \in Command, NEW pc \in Steps, NEW n \in Nat \ {0}, NEW faults \in SUBSET Calls,
         NEW b \in BOOLEAN
  PROVE  /\ [c EXCEPT !.at = pc, !.app = n] \in Command
         /\ [c EXCEPT !.at = pc, !.app = n, !.faults = faults] \in Command
         /\ [c EXCEPT !.at = pc, !.app = n, !.copied = b] \in Command
         /\ [c EXCEPT !.at = pc, !.faults = faults, !.info = b] \in Command
         /\ [c EXCEPT !.at = pc, !.info = b] \in Command
         /\ [c EXCEPT !.at = pc, !.faults = faults, !.planted = b] \in Command
         /\ [c EXCEPT !.at = pc, !.planted = b] \in Command
         /\ [c EXCEPT !.at = pc] \in Command
  BY DEF Command

(* A command that is at another application is a command still.            *)
LEMMA CommandWith ==
  ASSUME NEW c \in Command, NEW n \in Nat \ {0}
  PROVE  [c EXCEPT !.app = n] \in Command
  BY DEF Command

(* What a step of a command starts from.                                   *)
LEMMA Runs ==
  ASSUME PmgrInv, cmd # Idle
  PROVE  /\ cmd \in Command /\ last = Idle /\ Stored
         /\ cmd.faults \in SUBSET Calls /\ cmd.at \in Steps
         /\ CopyKept /\ InstallKept /\ UndoKept /\ OthersKept
<1>1. cmd \in Command /\ last = Idle /\ Stored
  BY DEF PmgrInv, PmgrTypeOK, Stored
<1>. QED BY <1>1 DEF PmgrInv, Command

(* An error that is returned, and what had failed until then.              *)
LEMMA FailedWith ==
  ASSUME PmgrInv, cmd # Idle, NEW calls \in SUBSET Calls, NEW rc \in Codes \ {"OK"},
         ReturnAfter(cmd.faults \cup calls, rc),
         UNCHANGED <<rpm, seeds>>, dbfiles' = dbfiles \/ dbfiles' \subseteq Now \cup LaterNames,
         \/ cmd.mode # "post-install" \/ cmd.at \notin Installed
         \/ {"query", "erase", "unseed"} \cap calls # {}
  PROVE  PmgrInv'
<1>1. cmd \in Command /\ Stored /\ CopyKept /\ UndoKept /\ cmd.faults \in SUBSET Calls
  BY Runs
<1> DEFINE faults == cmd.faults \cup calls
<1>2. faults \in SUBSET Calls /\ ReturnAfter(faults, rc) /\ before' = before
  BY <1>1 DEF ReturnAfter
<1>3. Stored' /\ dbfiles' \subseteq Now \cup LaterNames
  BY <1>1 DEF Stored, CopyKept
<1>5. \/ cmd.mode # "post-install"
      \/ {"query", "erase", "unseed"} \cap faults # {}
      \/ rpm' = before'.rpm /\ seeds' = before'.seeds
  BY <1>1, <1>2 DEF UndoKept, Installed
<1> HIDE DEF faults
<1>. QED BY <1>1, <1>2, <1>3, <1>5, Fails

(* A call that fails.                                                      *)
LEMMA FailedCall ==
  ASSUME PmgrInv, cmd # Idle, NEW call \in Calls, FailReturn(call),
         UNCHANGED <<rpm, seeds>>, dbfiles' = dbfiles \/ dbfiles' \subseteq Now \cup LaterNames,
         \/ cmd.mode # "post-install" \/ cmd.at \notin Installed
         \/ call \in {"query", "erase", "unseed"}
  PROVE  PmgrInv'
<1>1. "EIO" \in Codes \ {"OK"} /\ {call} \in SUBSET Calls
  BY DEF Codes
<1>2. ReturnAfter(cmd.faults \cup {call}, "EIO")
  BY DEF FailReturn
<1>3. \/ cmd.mode # "post-install" \/ cmd.at \notin Installed
      \/ {"query", "erase", "unseed"} \cap {call} # {}
  OBVIOUS
<1>. QED BY <1>1, <1>2, <1>3, FailedWith

(* An error that is not one of a call.                                     *)
LEMMA Refused ==
  ASSUME PmgrInv, cmd # Idle, NEW rc \in Codes \ {"OK"}, Return(rc),
         UNCHANGED <<rpm, seeds>>, dbfiles' = dbfiles \/ dbfiles' \subseteq Now \cup LaterNames,
         cmd.mode # "post-install" \/ cmd.at \notin Installed
  PROVE  PmgrInv'
<1>1. ReturnAfter(cmd.faults \cup {}, rc) /\ {} \in SUBSET Calls
  <2>1. cmd.faults \cup {} = cmd.faults
    OBVIOUS
  <2>. QED BY <2>1 DEF Return
<1>. QED BY <1>1, FailedWith

-----------------------------------------------------------------------------
\* The steps all commands begin with.

(* There is nothing in the database and no command, and no report.         *)
LEMMA InitStep == PmgrInit => PmgrInv
<1> SUFFICES ASSUME PmgrInit PROVE PmgrInv
  OBVIOUS
<1>1. PmgrTypeOK
  BY DEF PmgrInit, PmgrTypeOK
<1>2. CopyKept /\ InstallKept /\ UndoKept /\ OthersKept
  BY DEF PmgrInit, CopyKept, InstallKept, UndoKept, OthersKept
<1>3. OkMeansDone /\ FailedUndone
  BY DEF PmgrInit, OkMeansDone, FailedUndone, Returned
<1>. QED BY <1>1, <1>2, <1>3 DEF PmgrInv

(* A step that changes nothing.                                            *)
LEMMA Stutter == ASSUME PmgrInv, UNCHANGED pmgrVars PROVE PmgrInv'
<1>1. /\ cmd' = cmd /\ last' = last /\ before' = before /\ enabled' = enabled
      /\ dbfiles' = dbfiles /\ fresh' = fresh /\ rpm' = rpm /\ seeds' = seeds
      /\ registered' = registered
  BY DEF pmgrVars, store
<1>2. PmgrTypeOK'
  BY <1>1 DEF PmgrInv, PmgrTypeOK
<1>3. CopyKept' /\ InstallKept'
  BY <1>1 DEF PmgrInv, CopyKept, InstallKept, Now, LaterNames, Later, Copied
<1>4. UndoKept' /\ OthersKept'
  BY <1>1 DEF PmgrInv, UndoKept, OthersKept, Seeded
<1>5. OkMeansDone'
  BY <1>1 DEF PmgrInv, OkMeansDone, Returned, Now, Later, Copied, Seeded
<1>6. FailedUndone'
  BY <1>1 DEF PmgrInv, FailedUndone
<1>. QED BY <1>2, <1>3, <1>4, <1>5, <1>6 DEF PmgrInv

(* A command of one mode starts, with what there is now before it.         *)
LEMMA MainStep ==
  ASSUME PmgrInv, NEW asked \in Mode, NEW args, args \subseteq Pkg, Main(<<asked>>, args)
  PROVE  PmgrInv'
<1>1. CASE UNCHANGED <<cmd, last, before>>
  BY <1>1, Stutter DEF Main, Same, pmgrVars
<1>2. CASE ~UNCHANGED <<cmd, last, before>>
  <2>1. PICK p \in Pkg :
          cmd' = [mode |-> asked, pkg |-> p, at |-> "start", app |-> 1,
                  faults |-> {}, info |-> TRUE, copied |-> FALSE, planted |-> TRUE]
    <3>1. Len(<<asked>>) = 1 /\ <<asked>>[1] = asked
      OBVIOUS
    <3>. QED BY <1>2, <3>1 DEF Main, ModeOf
  <2>2. /\ last' = Idle /\ UNCHANGED store
        /\ before' = [rpm |-> rpm, seeds |-> seeds, registered |-> registered]
    BY <1>2 DEF Main, Same
  <2>3. cmd' \in Command
    BY <2>1 DEF Command, Steps
  <2>4. Stored' /\ dbfiles \subseteq Now \cup LaterNames
    BY <2>2 DEF PmgrInv, PmgrTypeOK, CopyKept, Stored, store
  <2>5. CopyKept'
    BY <2>1, <2>2, <2>4 DEF CopyKept, store, NotCopied, Copies, Now, LaterNames, Later, Copied
  <2>6. UndoKept'
    BY <2>1, <2>2, <2>4 DEF UndoKept, store, Installed, Stored
  <2>7. InstallKept' /\ OthersKept'
    BY <2>1 DEF InstallKept, OthersKept, Installed
  <2>. QED BY <2>2, <2>3, <2>4, <2>5, <2>6, <2>7, GoesOn
<1>. QED BY <1>1, <1>2

(* Two modes at once are refused, and change nothing.                      *)
LEMMA TwoModes ==
  ASSUME Main(<<"post-install", "remove">>, {})
  PROVE  UNCHANGED pmgrVars
<1>1. Len(<<"post-install", "remove">>) # 1
  OBVIOUS
<1>2. ~CheckConfiguration(<<"post-install", "remove">>, {})
  BY <1>1 DEF CheckConfiguration, ModeOf, Takes
<1>. QED BY <1>2 DEF Main, Same, pmgrVars

(* iotpm can be killed anywhere: then it reports nothing.                  *)
LEMMA KilledStep == ASSUME PmgrInv, Killed PROVE PmgrInv'
<1>1. Stored /\ dbfiles \subseteq Now \cup LaterNames
  BY DEF PmgrInv, PmgrTypeOK, CopyKept, Stored
<1>2. PmgrTypeOK'
  BY <1>1 DEF Killed, Same, store, PmgrTypeOK, Stored
<1>3. CopyKept' /\ InstallKept' /\ UndoKept' /\ OthersKept'
  BY <1>1 DEF Killed, Same, store, CopyKept, InstallKept, UndoKept, OthersKept,
              Now, LaterNames, Later, Copied
<1>4. OkMeansDone' /\ FailedUndone'
  BY DEF Killed, OkMeansDone, FailedUndone, Returned
<1>. QED BY <1>2, <1>3, <1>4 DEF PmgrInv

(* A step that only moves on, before anything is done for the package.     *)
LEMMA Moves ==
  ASSUME PmgrInv, cmd # Idle, NEW pc \in Steps, Goto(pc), UNCHANGED store,
         pc \notin Copies \cup {"unseed"},
         \/ cmd.mode # "post-install"
         \/ cmd.at \notin Installed /\ pc \notin Installed \cup {"install"},
         pc = "check" => cmd.mode # "db-plant", pc = "register" => cmd.mode = "pre-install",
         cmd.at \in NotCopied \/ pc \notin NotCopied, cmd.at \notin Copies
  PROVE  PmgrInv'
<1>1. /\ cmd \in Command /\ Stored /\ CopyKept /\ UndoKept /\ last' = Idle /\ before' = before
  BY Runs DEF Goto
<1>2. /\ cmd' \in Command /\ cmd'.mode = cmd.mode /\ cmd'.pkg = cmd.pkg /\ cmd'.at = pc
      /\ cmd'.faults = cmd.faults /\ cmd'.copied = cmd.copied
  <2>1. cmd' = [cmd EXCEPT !.at = pc, !.app = 1]
    BY DEF Goto
  <2>2. cmd \in Command
    BY <1>1
  <2>3. cmd' \in Command
    <3>1. 1 \in Nat \ {0}
      OBVIOUS
    <3>. QED BY <2>1, <2>2, <3>1, CommandAt
  <2>. QED BY <2>1, <2>2, <2>3 DEF Command
<1>3. Stored'
  BY <1>1 DEF Stored, store
<1>4. CopyKept'
  BY <1>1, <1>2 DEF CopyKept, store, NotCopied, Copies, Now, LaterNames, Later, Copied
<1>5. UndoKept'
  BY <1>1, <1>2 DEF UndoKept, Installed, store
<1>6. InstallKept' /\ OthersKept'
    <2>1. cmd'.app = 1 /\ 1 .. 1 - 1 = {}
    BY <1>1 DEF Goto, Command
  <2>. QED BY <1>1, <1>2, <2>1 DEF InstallKept, OthersKept, Installed
<1>. QED BY <1>1, <1>2, <1>3, <1>4, <1>5, <1>6, GoesOn

(* iotpm_init() goes on to the backend, or fails with the store as it was. *)
LEMMA IotpmInitStep == ASSUME PmgrInv, IotpmInit PROVE PmgrInv'
<1>1. cmd # Idle /\ cmd.at = "start" /\ UNCHANGED store
  BY DEF IotpmInit, Same
<1>2. CASE Goto("init")
  BY <1>1, <1>2, Moves DEF Steps, Installed, NotCopied, Copies
<1>3. CASE FailReturn("account")
  BY <1>1, <1>3, FailedCall DEF Calls, Installed, store
<1>. QED BY <1>2, <1>3 DEF IotpmInit

(* iotpm_backend_init() goes on to the copy or the manifests, or fails.    *)
LEMMA BackendInitStep == ASSUME PmgrInv, IotpmBackendInit PROVE PmgrInv'
<1>1. cmd # Idle /\ cmd.at = "init" /\ UNCHANGED store
  BY DEF IotpmBackendInit, Same
<1>2. CASE Goto("manifests") \/ Goto("prepare")
  BY <1>1, <1>2, Moves DEF Steps, Installed, NotCopied, Copies
<1>3. CASE FailReturn("mkdir")
  BY <1>1, <1>3, FailedCall DEF Calls, Installed, store
<1>. QED BY <1>2, <1>3 DEF IotpmBackendInit

(* Files are copied: those that are no databases at once.                  *)
LEMMA CopyPrepareStep == ASSUME PmgrInv, CopyPrepare PROVE PmgrInv'
<1>1. /\ cmd # Idle /\ cmd.at = "prepare"
      /\ UNCHANGED <<enabled, fresh, rpm, seeds, registered>>
  BY DEF CopyPrepare, Same
<1>2. cmd \in Command /\ last = Idle /\ Stored /\ CopyKept /\ UndoKept /\ cmd.faults \in SUBSET Calls
  BY <1>1, Runs
<1>3. CASE /\ dbfiles' = dbfiles \cup Now
           /\ cmd' = [cmd EXCEPT !.at = "copy", !.app = 1, !.copied = TRUE]
           /\ UNCHANGED <<last, before>>
  <2>1. cmd' \in Command
    <3>1. "copy" \in Steps /\ 1 \in Nat \ {0} /\ TRUE \in BOOLEAN
      BY DEF Steps
    <3>. QED BY <1>2, <1>3, <3>1, CommandAt
  <2>2. /\ cmd'.mode = cmd.mode /\ cmd'.pkg = cmd.pkg /\ cmd'.at = "copy" /\ cmd'.app = 1
    BY <1>2, <1>3 DEF Command
  <2>3. Stored' /\ last' = Idle
    BY <1>1, <1>2, <1>3 DEF Stored
  <2>4. CopyKept'
    <3>1. 1 <= Len(Later) /\ 1 .. 1 - 1 = {}
      BY LaterFacts
    <3>2. dbfiles' \subseteq Now \cup LaterNames /\ Now \subseteq dbfiles'
      BY <1>2, <1>3 DEF CopyKept
    <3>. QED BY <2>2, <3>1, <3>2 DEF CopyKept, NotCopied, Copies, Now, LaterNames, Later, Copied
  <2>5. InstallKept' /\ OthersKept'
    BY <2>2 DEF InstallKept, OthersKept, Installed
  <2>6. UndoKept'
    BY <1>1, <1>2, <1>3, <2>2 DEF UndoKept, Installed
  <2>. QED BY <2>1, <2>3, <2>4, <2>5, <2>6, GoesOn
<1>4. CASE Return("EINVAL") /\ UNCHANGED dbfiles
  BY <1>1, <1>4, Refused DEF Codes, Installed
<1>5. CASE \E some \in SUBSET (Now \ dbfiles) : FailReturn("prepare") /\ dbfiles' = dbfiles \cup some
  <2>1. dbfiles' \subseteq Now \cup LaterNames
    BY <1>2, <1>5 DEF CopyKept
  <2>. QED BY <1>1, <1>5, <2>1, FailedCall DEF Calls, Installed
<1>. QED BY <1>3, <1>4, <1>5 DEF CopyPrepare

(* The databases are copied one after the other.                           *)
LEMMA DatabaseCopyStep == ASSUME PmgrInv, DatabaseCopy PROVE PmgrInv'
<1> DEFINE f == Later[cmd.app].name
           pc == IF cmd.app = Len(Later) THEN "reset" ELSE "copy"
<1>1. /\ cmd # Idle /\ cmd.at = "copy"
      /\ UNCHANGED <<enabled, fresh, rpm, seeds, registered>>
  BY DEF DatabaseCopy, Same
<1>2. cmd \in Command /\ last = Idle /\ Stored /\ CopyKept /\ UndoKept /\ cmd.faults \in SUBSET Calls
  BY <1>1, Runs
<1>3. CASE /\ dbfiles' = dbfiles \cup {f}
           /\ cmd' = [cmd EXCEPT !.at = pc, !.app = @ + 1]
           /\ UNCHANGED <<last, before>>
  <2>0. cmd.app \in Nat \ {0}
    BY <1>2 DEF Command
  <2>1. cmd' \in Command
    <3>1. pc \in Steps /\ cmd.app + 1 \in Nat \ {0} /\ TRUE \in BOOLEAN
      BY <2>0 DEF Steps
    <3> HIDE DEF pc
    <3>. QED BY <1>2, <1>3, <3>1, CommandAt
  <2>2. /\ cmd'.mode = cmd.mode /\ cmd'.pkg = cmd.pkg /\ cmd'.at = pc
        /\ cmd'.app = cmd.app + 1 /\ pc \in {"copy", "reset"}
    BY <1>2, <1>3 DEF Command
  <2>3. Stored' /\ last' = Idle
    BY <1>1, <1>2, <1>3 DEF Stored
  <2>4. CopyKept'
    <3>1. /\ Len(Later) \in Nat \ {0} /\ cmd.app \in 1 .. Len(Later)
          /\ LaterNames = {Later[i].name : i \in 1 .. Len(Later)}
      BY <1>1, <1>2, <2>0, LaterFacts DEF CopyKept
    <3>2. \A i \in 1 .. cmd.app : Later[i].name \in dbfiles'
      <4>1. \A i \in 1 .. cmd.app : i = cmd.app \/ i \in 1 .. cmd.app - 1
        BY <2>0
      <4>. QED BY <1>1, <1>2, <1>3, <4>1 DEF CopyKept
    <3>3. Now \subseteq dbfiles' /\ dbfiles' \subseteq Now \cup LaterNames
      <4>1. f \in LaterNames
        BY <3>1
      <4> HIDE DEF f
      <4>. QED BY <1>1, <1>2, <1>3, <4>1 DEF CopyKept
    <3>4. pc = "copy" => cmd.app + 1 <= Len(Later)
      BY <3>1
    <3>5. pc = "reset" => dbfiles' = Now \cup LaterNames
      <4>1. pc = "reset" => LaterNames \subseteq dbfiles'
        BY <3>1, <3>2
      <4>. QED BY <3>3, <4>1
    <3> HIDE DEF pc, f
    <3>6. /\ Now' = Now /\ LaterNames' = LaterNames /\ Later' = Later
          /\ cmd'.at \notin NotCopied /\ cmd'.at \in Copies
      BY <2>2 DEF Now, LaterNames, Later, Copied, NotCopied, Copies
    <3>7. cmd'.at = "copy" =>
            /\ Now \subseteq dbfiles' /\ cmd'.app <= Len(Later)
            /\ \A i \in 1 .. cmd'.app - 1 : Later[i].name \in dbfiles'
      <4>1. cmd'.app - 1 = cmd.app
        <5>1. cmd'.app = cmd.app + 1 /\ cmd.app \in Nat
          BY <2>0, <2>2
        <5>. QED BY <5>1
      <4>2. 1 .. cmd'.app - 1 = 1 .. cmd.app
        BY <4>1
      <4>3. cmd'.at = "copy" => cmd'.app <= Len(Later)
        BY <2>2, <3>4
      <4>. QED BY <3>2, <3>3, <4>2, <4>3
    <3>. QED BY <2>2, <3>3, <3>5, <3>6, <3>7 DEF CopyKept
  <2>5. InstallKept' /\ OthersKept'
    <3> HIDE DEF pc
    <3>. QED BY <2>2 DEF InstallKept, OthersKept, Installed
  <2>6. UndoKept'
    <3> HIDE DEF pc
    <3>. QED BY <1>1, <1>2, <1>3, <2>2 DEF UndoKept, Installed
  <2>. QED BY <2>1, <2>3, <2>4, <2>5, <2>6, GoesOn
<1>4. CASE Return("EINVAL") /\ UNCHANGED dbfiles
  BY <1>1, <1>4, Refused DEF Codes, Installed
<1>5. CASE FailReturn("copy") /\ UNCHANGED dbfiles
  BY <1>1, <1>5, FailedCall DEF Calls, Installed
<1>. QED BY <1>3, <1>4, <1>5 DEF DatabaseCopy

(* The copy is whole, and has its new ids, or the environment not joined.  *)
LEMMA DatabaseResetStep == ASSUME PmgrInv, DatabaseReset PROVE PmgrInv'
<1>1. /\ cmd # Idle /\ cmd.at = "reset"
      /\ UNCHANGED <<enabled, dbfiles, rpm, seeds, registered>>
  BY DEF DatabaseReset, Same
<1>2. cmd \in Command /\ last = Idle /\ Stored /\ CopyKept /\ UndoKept /\ cmd.faults \in SUBSET Calls
  BY <1>1, Runs
<1>3. CASE (Goto("manifests") /\ fresh' = LaterNames) \/ FailTo("join", "manifests")
  <2>1. /\ cmd' \in Command /\ cmd'.mode = cmd.mode /\ cmd'.pkg = cmd.pkg
        /\ cmd'.at = "manifests" /\ (fresh' = LaterNames \/ "join" \in cmd'.faults)
    <3>1. "manifests" \in Steps /\ 1 \in Nat \ {0} /\ TRUE \in BOOLEAN
          /\ cmd.faults \cup {"join"} \in SUBSET Calls
      BY <1>2 DEF Steps, Calls
    <3>2. CASE Goto("manifests") /\ fresh' = LaterNames
      <4>1. cmd' = [cmd EXCEPT !.at = "manifests", !.app = 1]
        BY <3>2 DEF Goto
      <4>2. cmd' \in Command
        BY <1>2, <3>1, <4>1, CommandAt
      <4>. QED BY <1>2, <3>2, <4>1, <4>2 DEF Command
    <3>3. CASE FailTo("join", "manifests")
      <4>1. cmd' = [cmd EXCEPT !.at = "manifests", !.app = 1, !.faults = cmd.faults \cup {"join"}]
        BY <3>3 DEF FailTo
      <4>2. cmd' \in Command
        BY <1>2, <3>1, <4>1, CommandAt
      <4>. QED BY <1>2, <4>1, <4>2 DEF Command
    <3>. QED BY <1>3, <3>2, <3>3
  <2>2. last' = last /\ before' = before
    BY <1>3 DEF Goto, FailTo
  <2>3. Stored'
    BY <1>1, <1>2 DEF Stored
  <2>4. CopyKept'
    <3>1. dbfiles' = Now \cup LaterNames
      BY <1>1, <1>2 DEF CopyKept
    <3>2. fresh' = LaterNames \/ "join" \in cmd'.faults
      BY <2>1
    <3>. QED BY <2>1, <3>1, <3>2 DEF CopyKept, NotCopied, Copies, Now, LaterNames, Later, Copied
  <2>5. InstallKept' /\ OthersKept'
    BY <2>1 DEF InstallKept, OthersKept, Installed
  <2>6. UndoKept'
    BY <1>1, <1>2, <2>1, <2>2 DEF UndoKept, Installed
  <2>. QED BY <1>2, <2>1, <2>2, <2>3, <2>4, <2>5, <2>6, GoesOn
<1>4. CASE FailReturn("reset")
  BY <1>1, <1>4, FailedCall DEF Calls, Installed
<1>. QED BY <1>3, <1>4 DEF DatabaseReset, LaterNames

(* iotpm_manifest_init() leads to the first step that is the mode's own.   *)
LEMMA ManifestInitStep == ASSUME PmgrInv, IotpmManifestInit PROVE PmgrInv'
<1>1. cmd # Idle /\ cmd.at = "manifests" /\ UNCHANGED store
  BY DEF IotpmManifestInit, Same
<1>2. cmd \in Command
  BY <1>1, Runs
<1>3. CASE FailReturn("manifests")
  BY <1>1, <1>3, FailedCall DEF Calls, Installed, store
<1>4. CASE Goto(FirstStep)
  <2>1. /\ FirstStep \in Steps \ (Copies \cup NotCopied \cup {"unseed", "register"})
        /\ cmd.mode = "post-install" => FirstStep = "verify"
        /\ FirstStep = "check" => cmd.mode = "db-check"
    BY DEF FirstStep, Steps, Copies, NotCopied
  <2> DEFINE pc == FirstStep
  <2>2. Goto(pc)
    BY <1>4
  <2> HIDE DEF pc
  <2>. QED BY <1>1, <2>1, <2>2, Moves DEF Installed, NotCopied, Copies, pc
<1>. QED BY <1>3, <1>4 DEF IotpmManifestInit

-----------------------------------------------------------------------------
\* The steps for the package, behind those all commands begin with.

(* What a command still is when it has gone on at pc.                      *)
WentOn(pc) ==
  /\ cmd' \in Command /\ cmd'.at = pc /\ cmd'.mode = cmd.mode /\ cmd'.pkg = cmd.pkg
  /\ cmd'.copied = cmd.copied /\ cmd.faults \subseteq cmd'.faults
  /\ last' = last /\ before' = before

(* Where a step goes on, nothing but the position of the command changes.  *)
LEMMA Goes ==
  ASSUME cmd \in Command, NEW pc \in Steps, Goto(pc)
  PROVE  WentOn(pc) /\ cmd'.app = 1 /\ cmd'.info = cmd.info /\ cmd'.faults = cmd.faults
<1>1. 1 \in Nat \ {0} /\ cmd' = [cmd EXCEPT !.at = pc, !.app = 1]
  BY DEF Goto
<1>2. cmd' \in Command
  BY <1>1, CommandAt
<1>. QED BY <1>1, <1>2 DEF WentOn, Goto, Command

(* A failure that is undone or passed over goes on, and is remembered.     *)
LEMMA GoesFailed ==
  ASSUME cmd \in Command, NEW pc \in Steps, NEW call \in Calls, FailTo(call, pc)
  PROVE  WentOn(pc) /\ cmd'.app = 1 /\ cmd'.info = cmd.info /\ call \in cmd'.faults
<1>1. cmd' = [cmd EXCEPT !.at = pc, !.app = 1, !.faults = cmd.faults \cup {call}]
  BY DEF FailTo
<1>2. 1 \in Nat \ {0} /\ cmd.faults \cup {call} \in SUBSET Calls
  BY DEF Command
<1>3. cmd' \in Command
  BY <1>1, <1>2, CommandAt
<1>. QED BY <1>1, <1>3 DEF WentOn, FailTo, Command

(* Then the copy is as it was.                                             *)
LEMMA PackageStep ==
  ASSUME PmgrInv, cmd # Idle, cmd.at \notin NotCopied \cup Copies,
         NEW pc \in Steps \ (NotCopied \cup Copies), WentOn(pc), UNCHANGED <<dbfiles, fresh>>,
         Stored', InstallKept', UndoKept', OthersKept'
  PROVE  PmgrInv'
<1>1. CopyKept /\ last = Idle
  BY Runs
<1>2. CopyKept'
  <2>1. Now' = Now /\ LaterNames' = LaterNames
    BY DEF Now, LaterNames, Later, Copied
  <2>2. /\ dbfiles \subseteq Now \cup LaterNames
        /\ cmd.copied => dbfiles = Now \cup LaterNames /\ (fresh = LaterNames \/ "join" \in cmd.faults)
    BY <1>1 DEF CopyKept
  <2>. QED BY <2>1, <2>2 DEF CopyKept, WentOn, Copies
<1>. QED BY <1>1, <1>2, GoesOn DEF WentOn

\* What a step of post-install starts from.
Installs(pcs) ==
  /\ PmgrInv /\ cmd # Idle /\ cmd.mode = "post-install" /\ cmd.at \in pcs

(* A step of post-install: the invariants of the other commands hold.      *)
LEMMA InstallStep ==
  ASSUME Installs(Installed \cup {"verify", "install"}),
         NEW pc \in Installed \cup {"install"}, WentOn(pc), UNCHANGED <<dbfiles, fresh>>,
         Stored', InstallKept', UndoKept', pc = "register" => cmd'.app = 1
  PROVE  PmgrInv'
<1>1. pc \in Steps \ (NotCopied \cup Copies) /\ cmd.at \notin NotCopied \cup Copies
  BY DEF Installs, Installed, Steps, NotCopied, Copies
<1>2. OthersKept'
  <2>1. 1 .. 1 - 1 = {}
    OBVIOUS
  <2>. QED BY <2>1 DEF OthersKept, WentOn, Installed, Installs
<1>. QED BY <1>1, <1>2, PackageStep DEF Installs

(* A package that is not as the rules have it is never installed.          *)
LEMMA VerifyPackage == ASSUME PmgrInv, VerifyStep PROVE PmgrInv'
<1>1. Installs({"verify"}) /\ UNCHANGED store /\ cmd \in Command /\ Stored /\ UndoKept
  BY Runs DEF VerifyStep, Same, At, Idle, Installs
<1>2. CASE Goto("install") /\ IotpmPkginfoVerify(cmd.pkg)
  <2>1. WentOn("install") /\ "install" \in Installed \cup {"install"}
    BY <1>1, <1>2, Goes DEF Steps
  <2>2. Stored' /\ Installs(Installed \cup {"verify", "install"}) /\ UNCHANGED <<dbfiles, fresh>>
    BY <1>1 DEF Stored, store, Installs
  <2>3. InstallKept'
    BY <1>2, <2>1 DEF InstallKept, WentOn, Installed
  <2>4. UndoKept'
    BY <1>1, <2>1 DEF UndoKept, WentOn, Installed, Installs, store
  <2>. QED BY <2>1, <2>2, <2>3, <2>4, InstallStep
<1>3. CASE FailReturn("query-file")
  BY <1>1, <1>3, FailedCall DEF Calls, Installed, Installs, store
<1>4. CASE Return("EIO")
  BY <1>1, <1>4, Refused DEF Codes, Installed, Installs, store
<1>. QED BY <1>2, <1>3, <1>4 DEF VerifyStep

(* An installation adds the package, which was not there, or nothing.      *)
LEMMA InstallPackage == ASSUME PmgrInv, IotpmBackendInstallPackage PROVE PmgrInv'
<1>1. /\ Installs({"install"}) /\ UNCHANGED <<dbfiles, fresh, seeds, registered>>
      /\ cmd \in Command /\ Stored /\ UndoKept /\ InstallKept /\ cmd # Idle
  BY Runs DEF IotpmBackendInstallPackage, Same, At, Idle, Installs
<1>2. CASE cmd.pkg \notin rpm /\ rpm' = rpm \cup {cmd.pkg} /\ Goto("query")
  <2>1. WentOn("query") /\ "query" \in Installed \cup {"install"}
    BY <1>1, <1>2, Goes DEF Steps, Installed
  <2>2. Stored' /\ Installs(Installed \cup {"verify", "install"})
    BY <1>1, <1>2 DEF Stored, Installs, Command
  <2>3. InstallKept'
    BY <1>1, <1>2, <2>1 DEF InstallKept, WentOn, Installed, Installs
  <2>4. UndoKept'
    BY <1>1, <1>2, <2>1 DEF UndoKept, WentOn, Installed, Installs
  <2>. QED BY <1>1, <2>1, <2>2, <2>3, <2>4, InstallStep
<1>3. CASE FailReturn("install") /\ UNCHANGED rpm
  BY <1>1, <1>3, FailedCall DEF Calls, Installed, Installs
<1>4. CASE Return("EIO") /\ UNCHANGED rpm
  BY <1>1, <1>4, Refused DEF Codes, Installed, Installs
<1>. QED BY <1>2, <1>3, <1>4 DEF IotpmBackendInstallPackage

(* The query of what was installed leads to its seed, or to undoing.       *)
LEMMA QueryPackage == ASSUME PmgrInv, QueryStep PROVE PmgrInv'
<1>1. /\ Installs({"query"}) /\ UNCHANGED store
      /\ cmd \in Command /\ Stored /\ UndoKept /\ InstallKept /\ cmd # Idle
  BY Runs DEF QueryStep, Same, At, Idle, Installs
<1>2. ASSUME NEW pc \in {"seed", "undo"}, pc = "seed" => IotpmManifestLoad(cmd.pkg),
             Goto(pc) \/ FailTo("load", pc)
      PROVE  PmgrInv'
  <2>1. WentOn(pc) /\ pc \in Installed \cup {"install"}
    BY <1>1, <1>2, Goes, GoesFailed DEF Steps, Calls, Installed
  <2>2. Stored' /\ Installs(Installed \cup {"verify", "install"}) /\ UNCHANGED <<dbfiles, fresh>>
    BY <1>1 DEF Stored, Installs, Installed, store
  <2>3. InstallKept'
    BY <1>1, <1>2, <2>1 DEF InstallKept, WentOn, Installed, Installs, store
  <2>4. UndoKept'
    BY <1>1, <1>2, <2>1 DEF UndoKept, WentOn, Installed, Installs, store
  <2>. QED BY <1>2, <2>1, <2>2, <2>3, <2>4, InstallStep
<1>3. CASE FailReturn("query")
  BY <1>1, <1>3, FailedCall DEF Calls, store
<1>. QED BY <1>2, <1>3 DEF QueryStep

(* A seed is begun where there was none, or the installation is undone.    *)
LEMMA SeedCreate == ASSUME PmgrInv, IotpmBackendSeedCreate PROVE PmgrInv'
<1>1. /\ Installs({"seed"}) /\ UNCHANGED <<dbfiles, fresh, rpm, registered>>
      /\ cmd \in Command /\ Stored /\ UndoKept /\ InstallKept /\ cmd # Idle /\ cmd.pkg \in Pkg
  BY Runs DEF IotpmBackendSeedCreate, Same, At, Idle, Installs, Command
<1>2. CASE seeds[cmd.pkg] = "none" /\ seeds' = [seeds EXCEPT ![cmd.pkg] = "part"] /\ Goto("write")
  <2>1. WentOn("write") /\ "write" \in Installed \cup {"install"}
    BY <1>1, <1>2, Goes DEF Steps, Installed
  <2>2. Stored' /\ Installs(Installed \cup {"verify", "install"})
    BY <1>1, <1>2 DEF Stored, Installs, Installed
  <2>3. InstallKept'
    BY <1>1, <1>2, <2>1 DEF InstallKept, WentOn, Installed, Installs
  <2>4. UndoKept'
    BY <1>1, <1>2, <2>1 DEF UndoKept, WentOn, Installed, Installs
  <2>. QED BY <1>1, <2>1, <2>2, <2>3, <2>4, InstallStep
<1>3. CASE (Goto("undo") \/ FailTo("seed", "undo")) /\ UNCHANGED seeds
  <2>1. WentOn("undo") /\ "undo" \in Installed \cup {"install"}
    BY <1>1, <1>3, Goes, GoesFailed DEF Steps, Calls, Installed
  <2>2. Stored' /\ Installs(Installed \cup {"verify", "install"})
    BY <1>1, <1>3 DEF Stored, Installs, Installed
  <2>3. InstallKept'
    BY <1>1, <1>3, <2>1 DEF InstallKept, WentOn, Installed, Installs
  <2>4. UndoKept'
    BY <1>1, <1>3, <2>1 DEF UndoKept, WentOn, Installed, Installs
  <2>. QED BY <1>1, <2>1, <2>2, <2>3, <2>4, InstallStep
<1>. QED BY <1>2, <1>3 DEF IotpmBackendSeedCreate

(* Writing the seed, and unlinking what was written of it.                 *)
LEMMA WriteSeed == ASSUME PmgrInv, SeedWrite PROVE PmgrInv'
<1>1. /\ Installs({"write"}) /\ UNCHANGED <<dbfiles, fresh, rpm, registered>>
      /\ cmd \in Command /\ Stored /\ UndoKept /\ InstallKept /\ cmd # Idle /\ cmd.pkg \in Pkg
  BY Runs DEF SeedWrite, Same, At, Idle, Installs, Command
<1>2. before.seeds[cmd.pkg] = "none" /\ seeds = [before.seeds EXCEPT ![cmd.pkg] = "part"]
      /\ cmd.pkg \notin before.rpm /\ rpm = before.rpm \cup {cmd.pkg}
  BY <1>1 DEF UndoKept, Installs, Installed
<1>3. CASE seeds' = [seeds EXCEPT ![cmd.pkg] = "whole"] /\ Goto("register")
  <2>1. WentOn("register") /\ "register" \in Installed \cup {"install"} /\ cmd'.app = 1
    BY <1>1, <1>3, Goes DEF Steps, Installed
  <2>2. Stored' /\ Installs(Installed \cup {"verify", "install"})
    BY <1>1, <1>3 DEF Stored, Installs, Installed
  <2>3. InstallKept'
    BY <1>1, <1>3, <2>1 DEF InstallKept, WentOn, Installed, Installs, Stored
  <2>4. seeds' = [before.seeds EXCEPT ![cmd.pkg] = "whole"]
    BY <1>2, <1>3
  <2>5. UndoKept'
    BY <1>1, <1>2, <2>1, <2>4 DEF UndoKept, WentOn, Installed, Installs
  <2>. QED BY <1>1, <2>1, <2>2, <2>3, <2>5, InstallStep
<1>4. CASE FailTo("write", "undo") /\ seeds' = [seeds EXCEPT ![cmd.pkg] = "none"]
  <2>1. WentOn("undo") /\ "undo" \in Installed \cup {"install"}
    BY <1>1, <1>4, GoesFailed DEF Steps, Calls, Installed
  <2>2. Stored' /\ Installs(Installed \cup {"verify", "install"})
    BY <1>1, <1>4 DEF Stored, Installs, Installed
  <2>3. InstallKept'
    BY <1>1, <1>4, <2>1 DEF InstallKept, WentOn, Installed, Installs
  <2>4. seeds' = before.seeds
    <3>1. before.seeds \in [Pkg -> {"none", "part", "whole"}]
      BY <1>1 DEF UndoKept, Installs
    <3>. QED BY <1>1, <1>2, <1>4, <3>1
  <2>5. UndoKept'
    BY <1>1, <1>2, <2>1, <2>4 DEF UndoKept, WentOn, Installed, Installs
  <2>. QED BY <1>1, <2>1, <2>2, <2>3, <2>5, InstallStep
<1>. QED BY <1>3, <1>4 DEF SeedWrite

(* Registering one application leaves those before it registered, and the  *)
(* last one ends an installation, or an upgrade's check of it.             *)
LEMMA RegisterPackage ==
  ASSUME PmgrInv, IotpmRegisterPackage(cmd # Idle /\ cmd.mode = "post-install")
  PROVE  PmgrInv'
<1> DEFINE p == cmd.pkg
           undoes == cmd # Idle /\ cmd.mode = "post-install"
           last_app == cmd.app > Cardinality(App(p)) \/ ~enabled
<1>1. /\ cmd # Idle /\ cmd.at = "register"
      /\ UNCHANGED <<enabled, dbfiles, fresh, rpm, seeds>>
  BY DEF IotpmRegisterPackage, Same
<1>2. /\ cmd \in Command /\ Stored /\ CopyKept /\ UndoKept /\ InstallKept /\ OthersKept /\ p \in Pkg
      /\ cmd.mode \in {"post-install", "pre-install"} /\ cmd.app \in Nat \ {0}
      /\ \A i \in 1 .. cmd.app - 1 : <<p, i>> \in registered
  <2>1. cmd \in Command /\ Stored /\ CopyKept /\ UndoKept /\ InstallKept /\ OthersKept
    BY <1>1, Runs
  <2>. QED BY <1>1, <2>1 DEF Command, OthersKept
<1>3. CASE last_app /\ Return("OK") /\ UNCHANGED registered
  <2>1. /\ ReturnAfter(cmd.faults, "OK") /\ cmd.faults \in SUBSET Calls /\ "OK" \in Codes
    BY <1>2, <1>3 DEF Return, Command, Codes
  <2>2. /\ last'.mode = cmd.mode /\ last'.pkg = p /\ last'.rc = "OK"
        /\ last'.faults = cmd.faults /\ last'.copied = cmd.copied
    BY <2>1 DEF ReturnAfter
  <2>3. Stored' /\ dbfiles' \subseteq Now \cup LaterNames
    BY <1>1, <1>2 DEF Stored, CopyKept
  <2>4. FailedUndone'
    BY <2>2 DEF FailedUndone
  <2>5. enabled => \A app \in App(p) : <<p, app>> \in registered
    <3>1. PICK n \in Nat : App(p) = 1 .. n /\ Cardinality(App(p)) = n
      BY <1>2, AppsNumbered
    <3>2. enabled => cmd.app > n
      BY <1>3, <3>1
    <3>3. enabled => 1 .. n \subseteq 1 .. cmd.app - 1
      BY <1>2, <3>2
    <3> HIDE DEF p
    <3>. QED BY <1>2, <3>1, <3>3
  <2>6. cmd.mode = "post-install" =>
          /\ p \in rpm /\ seeds[p] = "whole" /\ VerifyScripts(p) /\ IotpmManifestLoad(p)
          /\ \A f \in Range(Contents[p].files) : ~f.setid
    <3>1. cmd.mode = "post-install" =>
            p \in rpm /\ seeds[p] = "whole" /\ IotpmPkginfoVerify(p) /\ IotpmManifestLoad(p)
      BY <1>1, <1>2 DEF InstallKept, Installed
    <3>. QED BY <1>2, <3>1, NoneSetid DEF IotpmPkginfoVerify
  <2>7. cmd.copied => dbfiles = Now \cup LaterNames /\ (fresh = LaterNames \/ "join" \in cmd.faults)
    BY <1>1, <1>2 DEF CopyKept, Copies
  <2>8. OkMeansDone'
    <3>1. (last # Idle /\ last.rc = "OK" /\ last.copied)' =>
            dbfiles' = Now' \cup LaterNames' /\ (fresh' = LaterNames' \/ "join" \in last'.faults)
      <4>1. Now' = Now /\ LaterNames' = LaterNames
        BY DEF Now, LaterNames, Later, Copied
      <4>. QED BY <1>1, <2>2, <2>7, <4>1
    <3>2. (Returned("post-install", "OK") \/ Returned("pre-install", "OK"))' /\ enabled' =>
            \A app \in App(last'.pkg) : <<last'.pkg, app>> \in registered'
      BY <1>1, <1>3, <2>2, <2>5
    <3>3. Returned("post-install", "OK")' =>
            /\ last'.pkg \in rpm' /\ seeds'[last'.pkg] = "whole"
            /\ VerifyScripts(last'.pkg) /\ IotpmManifestLoad(last'.pkg)
            /\ \A f \in Range(Contents[last'.pkg].files) : ~f.setid
      BY <1>1, <2>2, <2>6 DEF Returned
    <3>4. ~Returned("remove", "OK")' /\ ~Returned("db-plant", "OK")'
      BY <1>2, <2>2 DEF Returned
    <3>. QED BY <3>1, <3>2, <3>3, <3>4 DEF OkMeansDone, LaterNames
  <2>. QED BY <1>2, <2>1, <2>3, <2>4, <2>8, Returns
<1>4. CASE /\ registered' = registered \cup {<<p, cmd.app>>}
           /\ cmd' = [cmd EXCEPT !.app = cmd.app + 1] /\ UNCHANGED <<last, before>>
  <2>1. cmd.app + 1 \in Nat \ {0}
    BY <1>2
  <2>2. cmd' \in Command
    BY <1>2, <1>4, <2>1, CommandWith
  <2>3. /\ cmd'.at = "register" /\ cmd'.mode = cmd.mode /\ cmd'.pkg = p
        /\ cmd'.app = cmd.app + 1 /\ cmd'.copied = cmd.copied /\ cmd'.faults = cmd.faults
    BY <1>1, <1>2, <1>4 DEF Command
  <2>4. WentOn("register")
    BY <1>4, <2>2, <2>3 DEF WentOn
  <2>5. Stored'
    BY <1>1, <1>2 DEF Stored
  <2>6. InstallKept'
    BY <1>1, <1>2, <2>3 DEF InstallKept, Installed
  <2>7. UndoKept'
    BY <1>1, <1>2, <1>4, <2>3 DEF UndoKept, Installed
  <2>8. OthersKept'
    <3>1. \A i \in 1 .. cmd.app : i = cmd.app \/ i \in 1 .. cmd.app - 1
      BY <1>2
    <3>2. \A i \in 1 .. cmd.app : <<p, i>> \in registered'
      BY <1>2, <1>4, <3>1
    <3>3. 1 .. cmd'.app - 1 = 1 .. cmd.app
      BY <1>2, <2>3
    <3>. QED BY <1>2, <2>3, <3>2, <3>3 DEF OthersKept
  <2>9. "register" \in Steps \ (NotCopied \cup Copies) /\ cmd.at \notin NotCopied \cup Copies
    BY <1>1 DEF Steps, NotCopied, Copies
  <2>. QED BY <1>1, <2>4, <2>5, <2>6, <2>7, <2>8, <2>9, PackageStep
<1>5. CASE UNCHANGED registered /\ undoes /\ FailTo("register", "undo-seed")
  <2>1. WentOn("undo-seed") /\ "undo-seed" \in Installed \cup {"install"}
    BY <1>2, <1>5, GoesFailed DEF Steps, Calls, Installed
  <2>2. Stored' /\ Installs(Installed \cup {"verify", "install"})
    BY <1>1, <1>2, <1>5 DEF Stored, Installs, Installed
  <2>3. InstallKept'
    BY <1>1, <1>2, <1>5, <2>1 DEF InstallKept, WentOn, Installed
  <2>4. UndoKept'
    BY <1>1, <1>2, <1>5, <2>1 DEF UndoKept, WentOn, Installed
  <2>. QED BY <1>1, <2>1, <2>2, <2>3, <2>4, InstallStep
<1>6. CASE UNCHANGED registered /\ ~undoes /\ FailReturn("register")
  BY <1>1, <1>6, FailedCall DEF Calls
<1>. QED BY <1>3, <1>4, <1>5, <1>6 DEF IotpmRegisterPackage

(* Undoing takes a whole seed away, or the failure to do so is noted.      *)
LEMMA SeedUndone == ASSUME PmgrInv, UndoSeed PROVE PmgrInv'
<1>1. /\ Installs({"undo-seed"}) /\ UNCHANGED <<dbfiles, fresh, rpm, registered>>
      /\ cmd \in Command /\ Stored /\ UndoKept /\ InstallKept /\ cmd # Idle /\ cmd.pkg \in Pkg
  BY Runs DEF UndoSeed, Same, At, Idle, Installs, Command
<1>2. CASE \/ seeds' = [seeds EXCEPT ![cmd.pkg] = "none"] /\ Goto("undo")
           \/ FailTo("unseed", "undo") /\ UNCHANGED seeds
  <2>1. WentOn("undo") /\ "undo" \in Installed \cup {"install"}
        /\ (UNCHANGED seeds => "unseed" \in cmd'.faults \/ Goto("undo"))
    BY <1>1, <1>2, Goes, GoesFailed DEF Steps, Calls, Installed
  <2>2. Stored' /\ Installs(Installed \cup {"verify", "install"})
    BY <1>1, <1>2 DEF Stored, Installs, Installed
  <2>3. InstallKept'
    BY <1>1, <2>1 DEF InstallKept, WentOn, Installed, Installs
  <2>4. seeds' = before.seeds \/ "unseed" \in cmd'.faults
    <3>1. CASE seeds' = [seeds EXCEPT ![cmd.pkg] = "none"]
      <4>1. /\ before.seeds \in [Pkg -> {"none", "part", "whole"}]
            /\ before.seeds[cmd.pkg] = "none"
            /\ seeds = [before.seeds EXCEPT ![cmd.pkg] = "whole"]
        BY <1>1 DEF UndoKept, Installs
      <4>. QED BY <1>1, <3>1, <4>1
    <3>2. CASE FailTo("unseed", "undo")
      BY <1>1, <3>2, GoesFailed DEF Steps, Calls
    <3>. QED BY <1>2, <3>1, <3>2
  <2>5. UndoKept'
    BY <1>1, <2>1, <2>4 DEF UndoKept, WentOn, Installed, Installs
  <2>. QED BY <1>1, <2>1, <2>2, <2>3, <2>5, InstallStep
<1>. QED BY <1>2 DEF UndoSeed

(* The package leaves the database again, and the installation has failed. *)
LEMMA PackageUndone == ASSUME PmgrInv, Undo PROVE PmgrInv'
<1>1. /\ Installs({"undo"}) /\ UNCHANGED <<dbfiles, fresh, seeds, registered>>
      /\ cmd \in Command /\ Stored /\ UndoKept /\ CopyKept /\ cmd # Idle
  BY Runs DEF Undo, Same, At, Idle, Installs
<1>2. CASE rpm' = rpm \ {cmd.pkg} /\ Return("EIO")
  <2>1. /\ ReturnAfter(cmd.faults, "EIO") /\ cmd.faults \in SUBSET Calls
        /\ "EIO" \in Codes \ {"OK"} /\ before' = before
    BY <1>1, <1>2 DEF Return, Command, Codes, ReturnAfter
  <2>2. Stored' /\ dbfiles' \subseteq Now \cup LaterNames
    BY <1>1, <1>2 DEF Stored, CopyKept
  <2>3. rpm' = before'.rpm /\ (seeds' = before'.seeds \/ "unseed" \in cmd.faults)
    BY <1>1, <1>2, <2>1 DEF UndoKept, Installs, Installed
  <2>4. \/ {"query", "erase", "unseed"} \cap cmd.faults # {}
        \/ rpm' = before'.rpm /\ seeds' = before'.seeds
    BY <2>3
  <2>. QED BY <1>1, <2>1, <2>2, <2>4, Fails
<1>3. CASE FailReturn("erase") /\ UNCHANGED rpm
  BY <1>1, <1>3, FailedCall DEF Calls
<1>. QED BY <1>2, <1>3 DEF Undo

-----------------------------------------------------------------------------
\* The steps of the other commands.

(* A package that is only registered is queried first.                     *)
LEMMA PreInstall == ASSUME PmgrInv, PreInstallPackage PROVE PmgrInv'
<1>1. /\ cmd # Idle /\ cmd.mode = "pre-install" /\ cmd.at = "query" /\ UNCHANGED store
  BY DEF PreInstallPackage, Same, At, Idle
<1>2. CASE Goto("register")
  BY <1>1, <1>2, Moves DEF Steps, NotCopied, Copies
<1>3. CASE FailReturn("query")
  BY <1>1, <1>3, FailedCall DEF Calls, store
<1>4. CASE Return("EIO")
  BY <1>1, <1>4, Refused DEF Codes, store
<1>. QED BY <1>2, <1>3, <1>4 DEF PreInstallPackage

(* A step of a command that is neither an installation nor its check.      *)
LEMMA OtherStep ==
  ASSUME PmgrInv, cmd # Idle, cmd.mode \in {"remove", "db-plant"},
         cmd.at \notin NotCopied \cup Copies,
         NEW pc \in Steps \ (NotCopied \cup Copies \cup {"register"}),
         WentOn(pc), UNCHANGED <<dbfiles, fresh>>, Stored',
         pc = "unseed" => cmd'.pkg \notin rpm',
         cmd.mode = "db-plant" /\ cmd'.planted => Seeded' \subseteq rpm' \/ "open" \in cmd'.faults
  PROVE  PmgrInv'
<1>1. InstallKept' /\ UndoKept' /\ OthersKept'
  BY DEF InstallKept, UndoKept, OthersKept, WentOn
<1>. QED BY <1>1, PackageStep

(* A removal leads to the registrations, or past them if the manifest is   *)
(* gone.                                                                   *)
LEMMA QueryRemoved == ASSUME PmgrInv, RemoveQuery PROVE PmgrInv'
<1>1. /\ cmd # Idle /\ cmd.mode = "remove" /\ cmd.at = "query" /\ UNCHANGED store
      /\ cmd \in Command /\ Stored
  BY Runs DEF RemoveQuery, Same, At, Idle
<1>2. \E pc \in {"unregister", "erase"} : WentOn(pc)
  <2>1. CASE \E pc \in {"unregister", "erase"} : Goto(pc)
    BY <1>1, <2>1, Goes DEF Steps
  <2>2. CASE /\ cmd' = [cmd EXCEPT !.at = "erase", !.faults = cmd.faults \cup {"query"}, !.info = FALSE]
             /\ UNCHANGED <<last, before>>
    <3>1. cmd' \in Command
      <4>1. "erase" \in Steps /\ 1 \in Nat \ {0} /\ cmd.faults \cup {"query"} \in SUBSET Calls
            /\ FALSE \in BOOLEAN
        BY <1>1 DEF Command, Steps, Calls
      <4>. QED BY <1>1, <2>2, <4>1, CommandAt
    <3>. QED BY <1>1, <2>2, <3>1 DEF WentOn, Command
  <2>3. CASE cmd' = [cmd EXCEPT !.at = "erase", !.info = FALSE] /\ UNCHANGED <<last, before>>
    <3>1. cmd' \in Command
      <4>1. "erase" \in Steps /\ 1 \in Nat \ {0} /\ {} \in SUBSET Calls /\ FALSE \in BOOLEAN
        BY DEF Steps
      <4>. QED BY <1>1, <2>3, <4>1, CommandAt
    <3>. QED BY <1>1, <2>3, <3>1 DEF WentOn, Command
  <2>. QED BY <2>1, <2>2, <2>3 DEF RemoveQuery
<1>3. Stored' /\ UNCHANGED <<dbfiles, fresh>>
  BY <1>1 DEF Stored, store
<1>. QED BY <1>1, <1>2, <1>3, OtherStep DEF Steps, NotCopied, Copies

(* Registrations go one by one, and one that cannot be taken back ends     *)
(* only that.                                                              *)
LEMMA Unregister == ASSUME PmgrInv, IotpmUnregisterPackage PROVE PmgrInv'
<1>1. /\ cmd # Idle /\ cmd.mode = "remove" /\ cmd.at = "unregister"
      /\ UNCHANGED <<dbfiles, fresh, rpm, seeds>>
      /\ cmd \in Command /\ Stored
  BY Runs DEF IotpmUnregisterPackage, Same, At, Idle
<1>2. \E pc \in {"unregister", "erase"} : WentOn(pc)
  <2>1. CASE Goto("erase") \/ FailTo("unregister", "erase")
    BY <1>1, <2>1, Goes, GoesFailed DEF Steps, Calls
  <2>2. CASE cmd' = [cmd EXCEPT !.app = cmd.app + 1] /\ UNCHANGED <<last, before>>
    <3>1. cmd.app + 1 \in Nat \ {0}
      BY <1>1 DEF Command
    <3>2. cmd' \in Command
      BY <1>1, <2>2, <3>1, CommandWith
    <3>. QED BY <1>1, <2>2, <3>2 DEF WentOn, Command
  <2>. QED BY <2>1, <2>2 DEF IotpmUnregisterPackage
<1>3. Stored'
  BY <1>1 DEF Stored
<1>. QED BY <1>1, <1>2, <1>3, OtherStep DEF Steps, NotCopied, Copies

(* A package is taken from the database, or the removal fails.             *)
LEMMA Erase == ASSUME PmgrInv, IotpmBackendRemovePackage PROVE PmgrInv'
<1>1. /\ cmd # Idle /\ cmd.mode = "remove" /\ cmd.at = "erase"
      /\ UNCHANGED <<dbfiles, fresh, seeds, registered>>
      /\ cmd \in Command /\ Stored
  BY Runs DEF IotpmBackendRemovePackage, Same, At, Idle
<1>2. CASE rpm' = rpm \ {cmd.pkg} /\ Goto("unseed")
  <2>1. WentOn("unseed")
    BY <1>1, <1>2, Goes DEF Steps
  <2>2. Stored' /\ cmd'.pkg \notin rpm'
    BY <1>1, <1>2, <2>1 DEF Stored, WentOn
  <2>. QED BY <1>1, <2>1, <2>2, OtherStep DEF Steps, NotCopied, Copies
<1>3. CASE Return("EIO") /\ UNCHANGED rpm
  BY <1>1, <1>3, Refused DEF Codes
<1>4. CASE FailReturn("erase") /\ UNCHANGED rpm
  BY <1>1, <1>4, FailedCall DEF Calls
<1>. QED BY <1>2, <1>3, <1>4 DEF IotpmBackendRemovePackage

(* A command that reports success: what it reports is what is left to      *)
(* show, the copy of the database aside.                                   *)
LEMMA Succeeds ==
  ASSUME PmgrInv, cmd # Idle, Return("OK"), Stored', UNCHANGED <<dbfiles, fresh>>,
         cmd.mode \notin {"post-install", "pre-install"},
         cmd.at \notin NotCopied \cup Copies,
         cmd.mode = "remove" => cmd.pkg \notin rpm' /\ seeds'[cmd.pkg] = "none",
         cmd.mode = "db-plant" => Seeded' \subseteq rpm' \/ "open" \in cmd.faults
  PROVE  PmgrInv'
<1>1. /\ cmd \in Command /\ CopyKept /\ cmd.faults \in SUBSET Calls
      /\ ReturnAfter(cmd.faults, "OK") /\ "OK" \in Codes
  BY Runs DEF Return, Codes
<1>2. /\ last'.mode = cmd.mode /\ last'.pkg = cmd.pkg /\ last'.rc = "OK"
      /\ last'.faults = cmd.faults /\ last'.copied = cmd.copied
  BY <1>1 DEF ReturnAfter
<1>3. dbfiles' \subseteq Now \cup LaterNames
  BY <1>1 DEF CopyKept
<1>4. FailedUndone'
  BY <1>2 DEF FailedUndone
<1>5. OkMeansDone'
  <2>1. last'.copied => dbfiles' = Now' \cup LaterNames' /\ (fresh' = LaterNames' \/ "join" \in last'.faults)
    <3>1. Now' = Now /\ LaterNames' = LaterNames
      BY DEF Now, LaterNames, Later, Copied
    <3>2. cmd.copied => dbfiles = Now \cup LaterNames /\ (fresh = LaterNames \/ "join" \in cmd.faults)
      BY <1>1 DEF CopyKept
    <3>. QED BY <1>2, <3>1, <3>2
  <2>2. ~Returned("post-install", "OK")' /\ ~Returned("pre-install", "OK")'
    BY <1>2 DEF Returned
  <2>3. Returned("remove", "OK")' => last'.pkg \notin rpm' /\ seeds'[last'.pkg] = "none"
    BY <1>2 DEF Returned
  <2>4. Returned("db-plant", "OK")' => Seeded' \subseteq rpm' \/ "open" \in last'.faults
    BY <1>2 DEF Returned
  <2>. QED BY <2>1, <2>2, <2>3, <2>4 DEF OkMeansDone, LaterNames
<1>. QED BY <1>1, <1>3, <1>4, <1>5, Returns

(* A removal reports success when the seed is gone, the package already    *)
(* being.                                                                  *)
LEMMA SeedDestroy == ASSUME PmgrInv, IotpmBackendSeedDestroy PROVE PmgrInv'
<1>1. /\ cmd # Idle /\ cmd.mode = "remove" /\ cmd.at = "unseed"
      /\ UNCHANGED <<dbfiles, fresh, rpm, registered>>
      /\ cmd \in Command /\ Stored /\ OthersKept /\ cmd.pkg \in Pkg
  BY Runs DEF IotpmBackendSeedDestroy, Same, At, Idle, Command
<1>2. CASE seeds' = [seeds EXCEPT ![cmd.pkg] = "none"] /\ Return("OK")
  <2>1. Stored' /\ cmd.pkg \notin rpm' /\ seeds'[cmd.pkg] = "none"
    BY <1>1, <1>2 DEF Stored, OthersKept
  <2>. QED BY <1>1, <1>2, <2>1, Succeeds DEF NotCopied, Copies
<1>3. CASE FailReturn("unseed") /\ UNCHANGED seeds
  BY <1>1, <1>3, FailedCall DEF Calls
<1>4. CASE Return("EIO") /\ UNCHANGED seeds
  BY <1>1, <1>4, Refused DEF Codes
<1>. QED BY <1>2, <1>3, <1>4 DEF IotpmBackendSeedDestroy

(* Planting says that it planted all seeds only when it did, or could not  *)
(* open the database.                                                      *)
LEMMA SeedPlant == ASSUME PmgrInv, IotpmBackendSeedPlant PROVE PmgrInv'
<1>1. /\ cmd # Idle /\ cmd.mode = "db-plant" /\ cmd.at = "plant"
      /\ UNCHANGED <<dbfiles, fresh, seeds, registered, last, before>>
      /\ cmd \in Command /\ Stored
  BY Runs DEF IotpmBackendSeedPlant, Same, At, Idle
<1>2. Seeded' = Seeded /\ Seeded \subseteq Pkg
  BY <1>1 DEF Seeded
<1>3. ASSUME NEW planted \in BOOLEAN, rpm' \subseteq Pkg,
             cmd' \in Command, WentOn("check"), cmd'.planted = planted,
             planted => Seeded \subseteq rpm' \/ "open" \in cmd'.faults
      PROVE  PmgrInv'
  <2>1. Stored'
    BY <1>1, <1>3 DEF Stored
  <2>. QED BY <1>1, <1>2, <1>3, <2>1, OtherStep DEF Steps, NotCopied, Copies
<1>4. ASSUME NEW planted \in BOOLEAN, rpm' \subseteq Pkg,
             cmd' = [cmd EXCEPT !.at = "check", !.planted = planted],
             planted => Seeded \subseteq rpm'
      PROVE  PmgrInv'
  <2>1. cmd' \in Command
    <3>1. "check" \in Steps /\ 1 \in Nat \ {0} /\ {} \in SUBSET Calls
      BY DEF Steps
    <3>. QED BY <1>1, <1>4, <3>1, CommandAt
  <2>2. WentOn("check") /\ cmd'.planted = planted
    BY <1>1, <1>4, <2>1 DEF WentOn, Command
  <2>. QED BY <1>3, <1>4, <2>1, <2>2
<1>5. ASSUME NEW call \in {"open", "plant"}, NEW planted \in BOOLEAN, UNCHANGED rpm,
             cmd' = [cmd EXCEPT !.at = "check", !.faults = cmd.faults \cup {call},
                                !.planted = planted],
             planted => call = "open"
      PROVE  PmgrInv'
  <2>1. cmd' \in Command
    <3>1. "check" \in Steps /\ 1 \in Nat \ {0} /\ cmd.faults \cup {call} \in SUBSET Calls
      BY <1>1, <1>5 DEF Steps, Calls, Command
    <3>. QED BY <1>1, <1>5, <3>1, CommandAt
  <2>2. WentOn("check") /\ cmd'.planted = planted /\ call \in cmd'.faults
    BY <1>1, <1>5, <2>1 DEF WentOn, Command
  <2>3. rpm' \subseteq Pkg
    BY <1>1, <1>5 DEF Stored
  <2>. QED BY <1>3, <1>5, <2>1, <2>2, <2>3
<1>6. CASE PlantRpm4
  <2> DEFINE planted == Seeded # {} /\ \A p \in Seeded : SeedRead(p) /\ p \notin rpm
  <2>1. CASE /\ rpm' = rpm \cup {p \in Seeded : SeedRead(p)}
             /\ cmd' = [cmd EXCEPT !.at = "check", !.planted = planted]
    <3>1. rpm' \subseteq Pkg /\ planted \in BOOLEAN /\ (planted => Seeded \subseteq rpm')
      BY <1>1, <1>2, <2>1 DEF Stored
    <3> HIDE DEF planted
    <3>. QED BY <1>4, <2>1, <3>1
  <2>2. CASE /\ cmd' = [cmd EXCEPT !.at = "check", !.faults = cmd.faults \cup {"open"},
                                   !.planted = (Seeded # {})]
             /\ UNCHANGED rpm
    <3>1. (Seeded # {}) \in BOOLEAN
      OBVIOUS
    <3>. QED BY <1>5, <2>2, <3>1
  <2>. QED BY <1>6, <2>1, <2>2 DEF PlantRpm4
<1>7. CASE PlantRpm5
  <2>1. CASE /\ Seeded # {} /\ \A p \in Seeded : SeedRead(p) /\ p \notin rpm
             /\ rpm' = rpm \cup Seeded /\ cmd' = [cmd EXCEPT !.at = "check"]
    <3>1. cmd' \in Command
      <4>1. "check" \in Steps /\ 1 \in Nat \ {0} /\ {} \in SUBSET Calls /\ TRUE \in BOOLEAN
        BY DEF Steps
      <4>. QED BY <1>1, <2>1, <4>1, CommandAt
    <3>2. WentOn("check") /\ cmd'.planted \in BOOLEAN
      BY <1>1, <2>1, <3>1 DEF WentOn, Command
    <3>3. rpm' \subseteq Pkg /\ Seeded \subseteq rpm'
      BY <1>1, <1>2, <2>1 DEF Stored
    <3>. QED BY <1>3, <3>1, <3>2, <3>3
  <2>2. CASE cmd' = [cmd EXCEPT !.at = "check", !.planted = FALSE] /\ UNCHANGED rpm
    <3>1. rpm' \subseteq Pkg /\ FALSE \in BOOLEAN
      BY <1>1, <2>2 DEF Stored
    <3>. QED BY <1>4, <2>2, <3>1
  <2>3. CASE /\ cmd' = [cmd EXCEPT !.at = "check", !.faults = cmd.faults \cup {"plant"},
                                   !.planted = FALSE]
             /\ UNCHANGED rpm
    BY <1>5, <2>3
  <2>. QED BY <1>7, <2>1, <2>2, <2>3 DEF PlantRpm5
<1>. QED BY <1>6, <1>7 DEF IotpmBackendSeedPlant

(* Planting is reported as a success only if the database was planted.     *)
LEMMA Check == ASSUME PmgrInv, DbCheck PROVE PmgrInv'
<1>1. /\ cmd # Idle /\ cmd.mode \in {"db-check", "db-plant"} /\ cmd.at = "check"
      /\ UNCHANGED store /\ cmd \in Command /\ Stored /\ OthersKept
  BY Runs DEF DbCheck, Same
<1>2. CASE cmd.planted /\ Return("OK")
  <2>1. Stored' /\ UNCHANGED <<dbfiles, fresh, rpm, seeds>> /\ Seeded' = Seeded
    BY <1>1 DEF Stored, store, Seeded
  <2>2. cmd.mode = "db-plant" => Seeded' \subseteq rpm' \/ "open" \in cmd.faults
    BY <1>1, <1>2, <2>1 DEF OthersKept
  <2>. QED BY <1>1, <1>2, <2>1, <2>2, Succeeds DEF NotCopied, Copies
<1>3. CASE Return("EIO")
  BY <1>1, <1>3, Refused DEF Codes, store
<1>4. CASE FailReturn("check")
  BY <1>1, <1>4, FailedCall DEF Calls, store
<1>. QED BY <1>2, <1>3, <1>4 DEF DbCheck

(* The commands that change nothing.                                       *)
LEMMA Show == ASSUME PmgrInv, UpgradePackage \/ ListPackages \/ Files PROVE PmgrInv'
<1>1. /\ cmd # Idle /\ cmd.mode \in {"upgrade", "list", "files"} /\ cmd.at = "show"
      /\ UNCHANGED store /\ Stored
  BY Runs DEF UpgradePackage, ListPackages, Files, Same, At, Idle
<1>2. CASE Return("OK")
  <2>1. Stored' /\ UNCHANGED <<dbfiles, fresh>>
    BY <1>1 DEF Stored, store
  <2>. QED BY <1>1, <1>2, <2>1, Succeeds DEF NotCopied, Copies
<1>3. CASE Return("EIO")
  BY <1>1, <1>3, Refused DEF Codes, store
<1>4. CASE FailReturn("list") \/ FailReturn("query")
  BY <1>1, <1>4, FailedCall DEF Calls, store
<1>. QED BY <1>2, <1>3, <1>4 DEF UpgradePackage, ListPackages, Files

-----------------------------------------------------------------------------

(* Every step of iotpm, and a step of none, leaves the invariant.          *)
LEMMA PackagesKept == ASSUME PmgrInv, [PmgrNext]_pmgrVars PROVE PmgrInv'
<1>1. CASE UNCHANGED pmgrVars
  BY <1>1, Stutter
<1>2. ASSUME NEW asked \in Mode, NEW args \in {{}} \cup {{p} : p \in Pkg}, Main(<<asked>>, args)
      PROVE  PmgrInv'
  BY <1>2, MainStep
<1>3. CASE Main(<<"post-install", "remove">>, {})
  BY <1>3, TwoModes, Stutter
<1>4. CASE \/ Killed \/ IotpmInit \/ IotpmBackendInit \/ CopyPrepare
           \/ DatabaseCopy \/ DatabaseReset \/ IotpmManifestInit
  BY <1>4, KilledStep, IotpmInitStep, BackendInitStep, CopyPrepareStep,
     DatabaseCopyStep, DatabaseResetStep, ManifestInitStep
<1>5. CASE \/ VerifyStep \/ IotpmBackendInstallPackage \/ QueryStep
           \/ IotpmBackendSeedCreate \/ SeedWrite \/ UndoSeed \/ Undo
  BY <1>5, VerifyPackage, InstallPackage, QueryPackage, SeedCreate, WriteSeed,
     SeedUndone, PackageUndone
<1>6. CASE \/ PreInstallPackage \/ RemoveQuery \/ IotpmUnregisterPackage
           \/ IotpmBackendRemovePackage \/ IotpmBackendSeedDestroy
  BY <1>6, PreInstall, QueryRemoved, Unregister, Erase, SeedDestroy
<1>7. CASE IotpmRegisterPackage(cmd # Idle /\ cmd.mode = "post-install")
  BY <1>7, RegisterPackage
<1>8. CASE IotpmBackendSeedPlant \/ DbCheck \/ UpgradePackage \/ ListPackages \/ Files
  BY <1>8, SeedPlant, Check, Show
<1>. QED BY <1>1, <1>2, <1>3, <1>4, <1>5, <1>6, <1>7, <1>8 DEF PmgrNext

(* PmgrInv holds always: whichever calls of a command fail, and wherever   *)
(* iotpm is killed, what a step finds is what those before it have         *)
(* established.                                                            *)
THEOREM PackageInvariant == PmgrSpec => []PmgrInv
<1>1. PmgrInit => PmgrInv
  BY InitStep
<1>2. PmgrInv /\ [PmgrNext]_pmgrVars => PmgrInv'
  BY PackagesKept
<1>. QED BY <1>1, <1>2, PTL DEF PmgrSpec

(* A command that reports success has done what it is for: an installed    *)
(* package was verified, is in the database, has a whole seed and every    *)
(* application registered; a removed one is in no database and has no      *)
(* seed; a copied database is whole.                                       *)
THEOREM OkMeansDoneCorrect == PmgrSpec => []OkMeansDone
<1>1. PmgrInv => OkMeansDone
  BY DEF PmgrInv
<1>. QED BY <1>1, PackageInvariant, PTL

(* An installation that fails leaves the database and the seeds as they    *)
(* were, unless the new package could not be queried or undoing failed.    *)
THEOREM FailedUndoneCorrect == PmgrSpec => []FailedUndone
<1>1. PmgrInv => FailedUndone
  BY DEF PmgrInv
<1>. QED BY <1>1, PackageInvariant, PTL

-----------------------------------------------------------------------------
(* iot-launch.                                                             *)

ClientSpec == ClientInit /\ [][ClientNext]_clientVars

----------------------------------------------------------------------------
\* The inductive invariant.

SetupSteps == {"suid", "label", "groups", "user", "drop"}
LaunchSteps == SetupSteps \cup {"main", "options", "identities", "manifest", "wait",
                          "unblock", "exec", "running", "exited", "killed"}

ClientTypeOK ==
  /\ at \in LaunchSteps
  /\ uids \in [real : Ids, eff : Ids, saved : Ids]
  /\ gids \in [real : Ids, eff : Ids, saved : Ids]
  /\ saved \in [suid : Ids, ruid : Ids]
  /\ groups \in Seq(Ids)
  /\ lUid \in Ids /\ lGids \in Seq(Ids)
  /\ {permitted, blocks, pends, quits, termed} \subseteq BOOLEAN

\* A SIGTERM has ended iot-launch, is pending, or made its mainloop quit; and
\* once signals are unblocked there has been none.
TermKept ==
  /\ termed => at \in {"exited", "killed"} \/ pends \/ (at = "wait" /\ quits)
  /\ at \in {"exec", "running"} => ~blocks /\ ~termed

\* The groups of the application include those resolved for it.
GroupsKept == \A i \in DOMAIN lGids \ {1} : lGids[i] \in Range(groups)

\* What each step of the setup has established for those behind it.
UserKept ==
  /\ at \notin {"drop", "unblock", "exec", "running", "exited", "killed"} =>
       saved.ruid = uids.real
  /\ at \in {"main", "options"} => lUid = uids.real
  /\ uids.real # lUid => "user" \in override
  /\ at \in {"manifest", "wait", "unblock", "exec", "running"} \cup SetupSteps =>
       GroupsKept
  /\ at \in {"groups", "user", "drop", "unblock", "exec", "running"} =>
       (SecurityManager => smack = "application")
  /\ at \in {"drop", "unblock", "exec", "running"} =>
       uids = All(IF SecurityManager THEN lUid ELSE uids.real)
  /\ at \in {"unblock", "exec", "running"} => ~permitted

ClientInv == ClientTypeOK /\ TermKept /\ UserKept

USE LaunchClientAssumption

\* iot-launch starts in the invariant: nothing has been sent, and the id it
\* saved as the real one is the real one.
LEMMA InitInv == ClientInit => ClientInv
<1>. SUFFICES ASSUME ClientInit PROVE ClientInv
  OBVIOUS
<1>. PICK user \in Ids, suid \in Ids :
            /\ uids = [real |-> user, eff |-> suid, saved |-> suid]
            /\ gids = All(user)
            /\ saved = [suid |-> suid, ruid |-> user]
            /\ permitted = (RootId \in {user, suid})
  BY DEF ClientInit
<1>1. ClientTypeOK
  <2>1. permitted \in BOOLEAN
    OBVIOUS
  <2>2. uids \in [real : Ids, eff : Ids, saved : Ids]
    OBVIOUS
  <2>3. gids \in [real : Ids, eff : Ids, saved : Ids]
    BY DEF All
  <2>4. saved \in [suid : Ids, ruid : Ids]
    OBVIOUS
  <2>5. lUid = uids.real
    BY Zenon DEF ClientInit
  <2>6. lUid \in Ids
    BY <2>2, <2>5
  <2>7. at = "main" /\ groups = OwnGroups /\ lGids = <<>>
    BY Zenon DEF ClientInit
  <2>8. {blocks, pends, quits, termed} \subseteq BOOLEAN
    BY DEF ClientInit
  <2>. QED BY <2>1, <2>2, <2>3, <2>4, <2>6, <2>7, <2>8 DEF ClientTypeOK, LaunchSteps
<1>2. TermKept
  BY DEF ClientInit, TermKept
<1>3. UserKept
  BY DEF ClientInit, UserKept, SetupSteps
<1>. QED BY <1>1, <1>2, <1>3 DEF ClientInv

\* Every step keeps the types.
LEMMA TypeStep == ClientTypeOK /\ [ClientNext]_clientVars => ClientTypeOK'
<1>. SUFFICES ASSUME ClientTypeOK, [ClientNext]_clientVars PROVE ClientTypeOK'
  OBVIOUS
<1>. USE DEF ClientTypeOK, LaunchSteps, SetupSteps, GoOn, optVars, idVars, sigVars
<1>0. CASE UNCHANGED clientVars
  BY <1>0 DEF clientVars
<1>1. CASE SwitchReal
  BY <1>1 DEF SwitchReal, SetEffective, KeepCaps
<1>2. CASE ParseCmdline
  BY <1>2 DEF ParseCmdline
<1>3. CASE ResolveIdentities
  <2>1. <<gids.real>> \o groups \in Seq(Ids)
    BY ConcatProperties
  <2>. QED BY <1>3, <2>1 DEF ResolveIdentities
<1>4. CASE SendRequest
  BY <1>4 DEF SendRequest
<1>5. CASE GiveUp \/ RunReturns \/ SetupFails \/ ExecFails
  BY <1>5 DEF GiveUp, RunReturns, SetupFails, ExecFails, Fail
<1>6. CASE RecvReply
  BY <1>6 DEF RecvReply, Fail
<1>7. CASE HandleSignal
  BY <1>7 DEF HandleSignal
<1>8. CASE SwitchSuid
  BY <1>8 DEF SwitchSuid, SetEffective
<1>9. CASE SetLabel
  BY <1>9 DEF SetLabel, Fail
<1>10. CASE SetGroups
  BY <1>10 DEF SetGroups, Fail
<1>11. CASE SetGroupsFromAppid
  <2>1. groups \o OtherGroups \in Seq(Ids)
    BY ConcatProperties
  <2>. QED BY <1>11, <2>1 DEF SetGroupsFromAppid, Fail
<1>12. CASE SetUser
  <2>1. CASE uids' = All(lUid) /\ KeepCaps(uids')
    <3>1. uids' \in [real : Ids, eff : Ids, saved : Ids]
      BY <2>1 DEF All
    <3>2. permitted' \in BOOLEAN
      BY <2>1 DEF KeepCaps
    <3>. QED BY <1>12, <3>1, <3>2 DEF SetUser, Fail
  <2>2. CASE Fail
    BY <2>2 DEF Fail
  <2>. QED BY <1>12, <2>1, <2>2 DEF SetUser
<1>13. CASE SwitchDrop
  BY <1>13 DEF SwitchDrop, KeepCaps, All
<1>14. CASE DropPrivileges
  BY <1>14 DEF DropPrivileges
<1>15. CASE RemoveSignalHandlers
  BY <1>15 DEF RemoveSignalHandlers
<1>16. CASE Execv
  BY <1>16 DEF Execv
<1>17. CASE Sigterm
  BY <1>17 DEF Sigterm
<1>. QED
  BY <1>0, <1>1, <1>2, <1>3, <1>4, <1>5, <1>6, <1>7, <1>8, <1>9, <1>10, <1>11,
     <1>12, <1>13, <1>14, <1>15, <1>16, <1>17 DEF ClientNext

\* No step loses a SIGTERM.
LEMMA TermStep == ClientTypeOK /\ TermKept /\ [ClientNext]_clientVars => TermKept'
<1>. SUFFICES ASSUME ClientTypeOK, TermKept, [ClientNext]_clientVars PROVE TermKept'
  OBVIOUS
<1>. USE DEF TermKept, GoOn, optVars, idVars, sigVars
<1>0. CASE UNCHANGED clientVars
  BY <1>0 DEF clientVars
<1>1. CASE SwitchReal \/ ParseCmdline \/ ResolveIdentities \/ SendRequest
  BY <1>1 DEF SwitchReal, ParseCmdline, ResolveIdentities, SendRequest
<1>2. CASE GiveUp \/ RunReturns \/ SetupFails \/ ExecFails
  BY <1>2 DEF GiveUp, RunReturns, SetupFails, ExecFails, Fail
<1>3. CASE RecvReply
  BY <1>3 DEF RecvReply, Fail
<1>4. CASE HandleSignal
  BY <1>4 DEF HandleSignal
<1>5. CASE SwitchSuid \/ SetLabel \/ SetGroups \/ SetGroupsFromAppid
  BY <1>5 DEF SwitchSuid, SetLabel, SetGroups, SetGroupsFromAppid, Fail
<1>6. CASE SetUser \/ SwitchDrop \/ DropPrivileges
  BY <1>6 DEF SetUser, SwitchDrop, DropPrivileges, Fail
<1>7. CASE RemoveSignalHandlers
  BY <1>7 DEF RemoveSignalHandlers, ClientTypeOK
<1>8. CASE Execv
  BY <1>8 DEF Execv
<1>9. CASE Sigterm
  BY <1>9 DEF Sigterm, ClientTypeOK
<1>. QED
  BY <1>0, <1>1, <1>2, <1>3, <1>4, <1>5, <1>6, <1>7, <1>8, <1>9 DEF ClientNext

\* A list put behind one more group has, but for its first, groups of the list.
LEMMA BehindOwn ==
  ASSUME NEW g \in Ids, NEW s \in Seq(Ids)
  PROVE  \A i \in DOMAIN (<<g>> \o s) \ {1} : (<<g>> \o s)[i] \in Range(s)
<1>. SUFFICES ASSUME NEW i \in DOMAIN (<<g>> \o s) \ {1}
              PROVE  (<<g>> \o s)[i] \in Range(s)
  OBVIOUS
<1>1. i - 1 \in DOMAIN s /\ (<<g>> \o s)[i] = s[i - 1]
  BY ConcatProperties, LenProperties
<1>. QED BY <1>1 DEF Range

\* Groups that are added take none away.
LEMMA Added ==
  ASSUME NEW s \in Seq(Ids), NEW t \in Seq(Ids)
  PROVE  Range(s) \subseteq Range(s \o t)
<1>. SUFFICES ASSUME NEW i \in DOMAIN s PROVE s[i] \in Range(s \o t)
  BY DEF Range
<1>1. i \in DOMAIN (s \o t) /\ (s \o t)[i] = s[i]
  BY ConcatProperties, LenProperties
<1>. QED BY <1>1 DEF Range

\* Every step leaves behind what the later ones need.
LEMMA UserStep ==
  ClientTypeOK /\ UserKept /\ [ClientNext]_clientVars => UserKept'
<1>. SUFFICES ASSUME ClientTypeOK, UserKept, [ClientNext]_clientVars PROVE UserKept'
  OBVIOUS
<1>. USE DEF UserKept, SetupSteps, GoOn, optVars, idVars, sigVars
<1>a. ASSUME UNCHANGED <<groups, lGids>> PROVE GroupsKept' <=> GroupsKept
  BY <1>a DEF GroupsKept
<1>b. ASSUME UNCHANGED build PROVE SecurityManager' <=> SecurityManager
  BY <1>b DEF SecurityManager
<1>0. CASE UNCHANGED clientVars
  BY <1>0, <1>a, <1>b DEF clientVars
<1>1. CASE SwitchReal
  BY <1>1 DEF SwitchReal, SetEffective
<1>2. CASE ParseCmdline
  BY <1>2 DEF ParseCmdline
<1>3. CASE ResolveIdentities
  <2>1. ASSUME lGids' = <<gids.real>> \o groups, UNCHANGED groups
        PROVE  GroupsKept'
    <3>1. gids.real \in Ids /\ groups \in Seq(Ids)
      BY DEF ClientTypeOK
    <3>. QED BY <2>1, <3>1, BehindOwn DEF GroupsKept
  <2>. QED BY <1>3, <2>1 DEF ResolveIdentities
<1>4. CASE SendRequest \/ Execv
  BY <1>4, <1>a, <1>b DEF SendRequest, Execv
<1>5. CASE GiveUp \/ RunReturns \/ SetupFails \/ ExecFails
  BY <1>5 DEF GiveUp, RunReturns, SetupFails, ExecFails, Fail
<1>6. CASE RecvReply
  BY <1>6, <1>a DEF RecvReply, Fail
<1>7. CASE HandleSignal
  BY <1>7, <1>a DEF HandleSignal
<1>8. CASE SwitchSuid
  BY <1>8, <1>a, <1>b DEF SwitchSuid, SetEffective, ClientTypeOK
<1>9. CASE SetLabel
  BY <1>9, <1>a DEF SetLabel, Fail
<1>10. CASE SetGroups
  <2>1. ASSUME groups' = lGids, UNCHANGED lGids PROVE GroupsKept'
    BY <2>1 DEF GroupsKept, Range
  <2>. QED BY <1>10, <1>a, <1>b, <2>1 DEF SetGroups, Fail
<1>11. CASE SetGroupsFromAppid
  <2>1. ASSUME groups' = groups \o OtherGroups, UNCHANGED lGids, GroupsKept
        PROVE  GroupsKept'
    <3>1. Range(groups) \subseteq Range(groups')
      BY <2>1, Added DEF ClientTypeOK
    <3>. QED BY <2>1, <3>1 DEF GroupsKept
  <2>. QED BY <1>11, <1>a, <1>b, <2>1 DEF SetGroupsFromAppid, Fail
<1>12. CASE SetUser
  <2>1. (uids' = All(lUid) /\ uids'.real = lUid) \/ Fail
    BY <1>12 DEF SetUser, All
  <2>. QED BY <1>12, <2>1, <1>a, <1>b DEF SetUser, Overridden, Fail
<1>13. CASE SwitchDrop
  <2>1. saved.ruid = uids.real /\ uids' = All(uids.real) /\ uids'.real = uids.real
    BY <1>13 DEF SwitchDrop, All
  <2>2. SecurityManager => uids.real = lUid
    BY <1>13 DEF SwitchDrop, Overridden
  <2>. QED BY <1>13, <2>1, <2>2, <1>a, <1>b DEF SwitchDrop
<1>14. CASE DropPrivileges
  BY <1>14, <1>a, <1>b DEF DropPrivileges
<1>15. CASE RemoveSignalHandlers
  BY <1>15, <1>a, <1>b DEF RemoveSignalHandlers
<1>16. CASE Sigterm
  BY <1>16, <1>a, <1>b DEF Sigterm
<1>. QED
  BY <1>0, <1>1, <1>2, <1>3, <1>4, <1>5, <1>6, <1>7, <1>8, <1>9, <1>10, <1>11,
     <1>12, <1>13, <1>14, <1>15, <1>16 DEF ClientNext

----------------------------------------------------------------------------
\* The invariant holds in every state iot-launch gets to.
LEMMA ClientInvariant == ClientSpec => []ClientInv
<1>1. ClientInv /\ [ClientNext]_clientVars => ClientInv'
  BY TypeStep, TermStep, UserStep DEF ClientInv
<1>. QED BY InitInv, <1>1, PTL DEF ClientSpec

\* An application iot-launch becomes after all its steps has the user id, the
\* groups and the label resolved for it, and no way back (launch_process()).
THEOREM RunsAsUserCorrect == ClientSpec => []RunsAsUser
<1>1. ClientInv => RunsAsUser
  BY DEF ClientInv, TermKept, UserKept, GroupsKept, RunsAsUser
<1>. QED BY ClientInvariant, <1>1, PTL

\* iot-launch does not become the application once a SIGTERM was sent to it,
\* at whatever step (remove_signal_handlers()).
THEOREM TermHonouredCorrect == ClientSpec => []TermHonoured
<1>1. ClientInv => TermHonoured
  BY DEF ClientInv, TermKept, TermHonoured
<1>. QED BY ClientInvariant, <1>1, PTL
-----------------------------------------------------------------------------
(* iot_mkdir().                                                            *)

Way(c, n) == SubSeq(PathOf[c], 1, n)
Ways == UNION {DirsOf(c) : c \in Caller}

TreeTyped ==
  /\ dirs \in SUBSET Ways /\ unlabelled \in SUBSET Ways
  /\ maker \in [dirs -> Caller \cup {"nobody"}]
  /\ step \in [Caller -> {"stat", "mkdir", "label", "cleanup", "made", "failed"}]
  /\ depth \in [Caller -> Nat] /\ \A c \in Caller : depth[c] \in 1 .. Len(PathOf[c])
  /\ undo \in [Caller -> Seq(Nat)] /\ \A c \in Caller : undo[c] \in Seq(1 .. Len(PathOf[c]))

(* Nothing is without what it is in.                                       *)
Rooted == \A e \in dirs, d \in Ways : IsPrefix(d, e) => d \in dirs

(* What a call has noted goes down its path, and is there and its own; so  *)
(* is what it is about to label.                                           *)
Noted(c) ==
  /\ \A i \in 1 .. Len(undo[c]), j \in 1 .. Len(undo[c]) : i < j => undo[c][i] < undo[c][j]
  /\ step[c] \in {"stat", "mkdir", "label"} => \A i \in 1 .. Len(undo[c]) : undo[c][i] < depth[c]
  /\ \A i \in 1 .. Len(undo[c]) : Way(c, undo[c][i]) \in dirs /\ maker[Way(c, undo[c][i])] = c
  /\ step[c] = "label" => Buf(c) \in dirs /\ maker[Buf(c)] = c

Excused(c, d) ==
  \/ \E e \in unlabelled : IsPrefix(d, e)
  \/ \E o \in Caller \ {c} : d \in DirsOf(o)

(* What was there before is in nothing that was made; what a call has made *)
(* it has noted, or is about to, or it may stay.                           *)
Accounted(d) ==
  /\ maker[d] = "nobody" => \A e \in dirs : IsPrefix(e, d) => maker[e] = "nobody"
  /\ \A c \in Caller : maker[d] = c =>
       /\ d \in DirsOf(c)
       /\ \/ \E i \in 1 .. Len(undo[c]) : d = Way(c, undo[c][i])
          \/ step[c] = "label" /\ d = Buf(c)
          \/ Excused(c, d)

TreeInv ==
  TreeTyped /\ Rooted /\ (\A c \in Caller : Noted(c)) /\ (\A d \in dirs : Accounted(d))

(* The directories of a path are its beginnings.                           *)
LEMMA WayFacts ==
  ASSUME NEW c \in Caller
  PROVE  /\ Len(PathOf[c]) \in Nat \ {0}
         /\ \A n \in 1 .. Len(PathOf[c]) : Way(c, n) \in DirsOf(c) /\ Way(c, n) \in Ways
         /\ \A n \in 1 .. Len(PathOf[c]) :
              /\ Len(Way(c, n)) = n /\ DOMAIN Way(c, n) = 1 .. n
              /\ \A i \in 1 .. n : Way(c, n)[i] = PathOf[c][i]
         /\ \A d \in DirsOf(c) : \E n \in 1 .. Len(PathOf[c]) : d = Way(c, n)
<1>1. PICK p : p = PathOf[c] OBVIOUS
<1>2. PICK l \in Nat \ {0} : l = Len(p)
  BY <1>1, DirTreeAssumption, LenProperties, EmptySeq
<1>3. p \in Seq(Range(p)) /\ \A i \in 1 .. l : p[i] \in Range(p)
  BY <1>1, <1>2, DirTreeAssumption, ElementOfSeq
<1>4. ASSUME NEW n \in 1 .. l
      PROVE  /\ Len(Way(c, n)) = n /\ DOMAIN Way(c, n) = 1 .. n
             /\ \A i \in 1 .. n : Way(c, n)[i] = p[i]
  <2>1. PICK w : w = SubSeq(p, 1, n) OBVIOUS
  <2>2. 1 \in Int /\ n \in Int /\ 1 <= n /\ \A i \in 1 .. n : p[i] \in Range(p)
    BY <1>3, <1>2
  <2>3. /\ w \in Seq(Range(p)) /\ Len(w) = n - 1 + 1
        /\ \A i \in 1 .. n - 1 + 1 : w[i] = p[1 + i - 1]
    BY <2>1, <2>2, SubSeqProperties
  <2>4. n - 1 + 1 = n /\ \A i \in 1 .. n : 1 + i - 1 = i OBVIOUS
  <2>5. DOMAIN w = 1 .. n BY <2>3, <2>4, LenProperties
  <2>. QED BY <1>1, <2>1, <2>3, <2>4, <2>5 DEF Way
<1>5. \A n \in 1 .. l : Way(c, n) \in DirsOf(c)
  BY <1>1, <1>2 DEF Way, DirsOf
<1>. QED BY <1>1, <1>2, <1>4, <1>5 DEF Ways, DirsOf, Way

(* Two directories of the same length are one if they agree all the way.   *)
LEMMA WayIs ==
  ASSUME NEW c \in Caller, NEW o \in Caller, NEW n \in 1 .. Len(PathOf[c]),
         n \in 1 .. Len(PathOf[o]), \A i \in 1 .. n : PathOf[c][i] = PathOf[o][i]
  PROVE  Way(c, n) = Way(o, n)
<1>1. /\ DOMAIN Way(c, n) = 1 .. n /\ DOMAIN Way(o, n) = 1 .. n
      /\ \A i \in 1 .. n : Way(c, n)[i] = Way(o, n)[i]
  BY WayFacts
<1>2. Way(c, n) \in Seq(Range(PathOf[c])) /\ Way(o, n) \in Seq(Range(PathOf[o]))
  <2>1. ASSUME NEW q \in Caller, n \in 1 .. Len(PathOf[q]) PROVE Way(q, n) \in Seq(Range(PathOf[q]))
    <3>1. PICK p : p = PathOf[q] OBVIOUS
    <3>2. p \in Seq(Range(p)) BY <3>1, DirTreeAssumption
    <3>3. \A i \in 1 .. n : p[i] \in Range(p) BY <2>1, <3>1, <3>2, ElementOfSeq, WayFacts
    <3>4. SubSeq(p, 1, n) \in Seq(Range(p)) BY <3>3, SubSeqProperties
    <3>. QED BY <3>1, <3>4 DEF Way
  <2>. QED BY <2>1
<1>3. PICK a, b : a = Way(c, n) /\ b = Way(o, n) OBVIOUS
<1>4. a = [i \in DOMAIN a |-> a[i]] /\ b = [i \in DOMAIN b |-> b[i]]
  <2>1. ASSUME NEW q, NEW S, q \in Seq(S) PROVE q = [i \in DOMAIN q |-> q[i]]
    BY <2>1
  <2>. QED BY <1>2, <1>3, <2>1
<1>. QED BY <1>1, <1>3, <1>4

(* What a directory is in: the beginnings of its path.                     *)
LEMMA PrefixFacts ==
  ASSUME NEW c \in Caller, NEW n \in 1 .. Len(PathOf[c]), NEW d \in Ways
  PROVE  IsPrefix(d, Way(c, n)) <=> Len(d) \in 1 .. n /\ d = Way(c, Len(d))
<1>0. PICK o \in Caller : d \in DirsOf(o)
  BY DEF Ways
<1>1. PICK k \in 1 .. Len(PathOf[o]) : d = Way(o, k)
  BY <1>0, WayFacts
<1>2. Len(d) = k /\ Len(Way(c, n)) = n /\ Len(PathOf[c]) \in Nat /\ Len(PathOf[o]) \in Nat
  BY <1>1, WayFacts
<1>3. ASSUME k <= n PROVE /\ SubSeq(d, 1, k) = d
                          /\ SubSeq(Way(c, n), 1, k) = Way(c, k)
                          /\ k \in 1 .. n /\ k \in 1 .. Len(PathOf[c])
  <2>1. k \in 1 .. n /\ k \in 1 .. Len(PathOf[c]) BY <1>2, <1>3
  <2>2. ASSUME NEW q \in Caller, NEW m \in 1 .. Len(PathOf[q]), k <= m
        PROVE  SubSeq(Way(q, m), 1, k) = Way(q, k)
    <3>1. PICK p : p = PathOf[q] OBVIOUS
    <3>2. p \in Seq(Range(p)) BY <3>1, DirTreeAssumption
    <3>3. Len(p) \in Nat /\ m \in 1 .. Len(p) BY <3>1, WayFacts
    <3>4. PICK w : w = Way(q, m) OBVIOUS
    <3>5. DOMAIN w = 1 .. m /\ \A i \in 1 .. m : w[i] = p[i] BY <3>1, <3>4, WayFacts
    <3>6. \A i \in 1 .. k : w[i] \in Range(p) /\ p[i] \in Range(p)
      <4>1. \A i \in 1 .. k : i \in 1 .. m /\ i \in 1 .. Len(p) BY <1>2, <2>2, <3>3
      <4>2. \A i \in 1 .. Len(p) : p[i] \in Range(p) BY <3>2, ElementOfSeq
      <4>. QED BY <3>5, <4>1, <4>2
    <3>7. SubSeq(w, 1, k) = [i \in 1 .. k |-> w[i]]
      BY <1>2, <3>6
    <3>8. SubSeq(p, 1, k) = [i \in 1 .. k |-> p[i]]
      BY <1>2, <3>6
    <3>9. \A i \in 1 .. k : w[i] = p[i] BY <1>2, <2>2, <3>3, <3>5
    <3>. QED BY <3>1, <3>4, <3>7, <3>8, <3>9 DEF Way
  <2>. QED BY <1>1, <1>2, <1>3, <2>1, <2>2
<1>4. IsPrefix(d, Way(c, n)) <=> k <= n /\ SubSeq(d, 1, k) = SubSeq(Way(c, n), 1, k)
  BY <1>2 DEF IsPrefix
<1>. QED BY <1>2, <1>3, <1>4

(* Being in a directory, for directories of the paths.                     *)
LEMMA PrefixOrder ==
  /\ \A d \in Ways : IsPrefix(d, d) /\ Len(d) \in Nat \ {0}
  /\ \A d \in Ways, e \in Ways, f \in Ways : IsPrefix(d, e) /\ IsPrefix(e, f) => IsPrefix(d, f)
  /\ \A d \in Ways, e \in Ways : IsPrefix(d, e) => Len(d) <= Len(e) /\ (Len(e) = Len(d) => d = e)
  /\ \A c \in Caller : \A d \in Ways, e \in DirsOf(c) : IsPrefix(d, e) => d \in DirsOf(c)
<1>1. \A d \in Ways : \E c \in Caller : \E n \in 1 .. Len(PathOf[c]) : d = Way(c, n)
  BY WayFacts DEF Ways
<1>2. \A c \in Caller : Len(PathOf[c]) \in Nat BY WayFacts
<1>3. \A c \in Caller : \A n \in 1 .. Len(PathOf[c]) : Len(Way(c, n)) = n BY WayFacts
<1>4. ASSUME NEW d \in Ways PROVE IsPrefix(d, d) /\ Len(d) \in Nat \ {0}
  <2>1. PICK c \in Caller : \E n \in 1 .. Len(PathOf[c]) : d = Way(c, n) BY <1>1
  <2>2. PICK n \in 1 .. Len(PathOf[c]) : d = Way(c, n) BY <2>1
  <2>3. n \in 1 .. n /\ Len(d) = n BY <1>2, <1>3, <2>2
  <2>. QED BY <2>2, <2>3, PrefixFacts
<1>5. ASSUME NEW d \in Ways, NEW e \in Ways, NEW c \in Caller, e \in DirsOf(c), IsPrefix(d, e)
      PROVE  /\ d \in DirsOf(c) /\ Len(d) \in 1 .. Len(e) /\ d = Way(c, Len(d))
             /\ Len(e) \in 1 .. Len(PathOf[c]) /\ e = Way(c, Len(e))
  <2>1. PICK n \in 1 .. Len(PathOf[c]) : e = Way(c, n) BY <1>5, WayFacts
  <2>2. Len(e) = n BY <1>3, <2>1
  <2>3. Len(d) \in 1 .. n /\ d = Way(c, Len(d)) BY <1>5, <2>1, PrefixFacts
  <2>4. Len(d) \in 1 .. Len(PathOf[c]) BY <1>2, <2>1, <2>3
  <2>5. Way(c, Len(d)) \in DirsOf(c) BY <2>4, WayFacts
  <2>. QED BY <2>1, <2>2, <2>3, <2>5
<1>6. ASSUME NEW d \in Ways, NEW e \in Ways, NEW f \in Ways, IsPrefix(d, e), IsPrefix(e, f)
      PROVE  IsPrefix(d, f)
  <2>1. PICK c \in Caller : f \in DirsOf(c) BY DEF Ways
  <2>2. e \in DirsOf(c) /\ Len(e) \in 1 .. Len(f) /\ Len(f) \in 1 .. Len(PathOf[c]) /\ f = Way(c, Len(f))
    BY <1>5, <1>6, <2>1
  <2>3. Len(d) \in 1 .. Len(e) /\ d = Way(c, Len(d)) BY <1>5, <1>6, <2>2
  <2>4. PICK n \in 1 .. Len(PathOf[c]) : n = Len(f) /\ f = Way(c, n) BY <2>2
  <2>5. Len(d) \in 1 .. n BY <2>2, <2>3, <2>4, <1>4
  <2>. QED BY <2>3, <2>4, <2>5, PrefixFacts
<1>7. ASSUME NEW d \in Ways, NEW e \in Ways, IsPrefix(d, e)
      PROVE  Len(d) <= Len(e) /\ (Len(e) = Len(d) => d = e)
  <2>1. PICK c \in Caller : e \in DirsOf(c) BY DEF Ways
  <2>2. Len(d) \in 1 .. Len(e) /\ d = Way(c, Len(d)) /\ e = Way(c, Len(e)) BY <1>5, <1>7, <2>1
  <2>. QED BY <2>2, <1>4
<1>8. \A c \in Caller : \A d \in Ways, e \in DirsOf(c) : IsPrefix(d, e) => d \in DirsOf(c)
  BY <1>5 DEF Ways
<1>. QED BY <1>4, <1>6, <1>7, <1>8

(* What a directory is made in.                                            *)
LEMMA ParentFacts ==
  ASSUME NEW c \in Caller, NEW n \in 1 .. Len(PathOf[c]), NEW d \in Ways, IsPrefix(d, Way(c, n))
  PROVE  d = Way(c, n) \/ (n # 1 /\ Front(Way(c, n)) \in Ways /\ IsPrefix(d, Front(Way(c, n))))
<1>1. /\ Len(PathOf[c]) \in Nat /\ Len(d) \in 1 .. n /\ d = Way(c, Len(d)) /\ Len(Way(c, n)) = n
      /\ Way(c, n) \in Ways
  BY PrefixFacts, WayFacts
<1>2. ASSUME Len(d) # n
      PROVE  n # 1 /\ n - 1 \in 1 .. Len(PathOf[c]) /\ Len(d) \in 1 .. n - 1
  BY <1>1, <1>2
<1>3. ASSUME n - 1 \in 1 .. Len(PathOf[c]) PROVE Front(Way(c, n)) = Way(c, n - 1)
  <2>1. PICK m \in 1 .. Len(PathOf[c]) : m = n - 1 BY <1>3
  <2>2. Way(c, m) \in Ways /\ IsPrefix(Way(c, m), Way(c, n))
    <3>1. Way(c, m) \in Ways /\ Len(Way(c, m)) = m /\ m \in 1 .. n BY <2>1, <1>1, WayFacts
    <3>. QED BY <3>1, PrefixFacts
  <2>3. SubSeq(Way(c, m), 1, m) = SubSeq(Way(c, n), 1, m) /\ Len(Way(c, m)) = m
    BY <2>2, WayFacts DEF IsPrefix
  <2>4. IsPrefix(Way(c, m), Way(c, m)) /\ m \in Nat BY <2>2, PrefixOrder
  <2>5. SubSeq(Way(c, m), 1, m) = Way(c, m)
    <3>1. PICK p : p = PathOf[c] OBVIOUS
    <3>2. p \in Seq(Range(p)) BY <3>1, DirTreeAssumption
    <3>3. PICK w : w = Way(c, m) OBVIOUS
    <3>4. \A i \in 1 .. m : w[i] \in Range(p)
      <4>1. \A i \in 1 .. Len(p) : p[i] \in Range(p) BY <3>2, ElementOfSeq
      <4>2. Len(p) \in Nat /\ m \in 1 .. Len(p) /\ \A i \in 1 .. m : w[i] = p[i]
        BY <3>1, <3>3, WayFacts
      <4>. QED BY <4>1, <4>2
    <3>5. SubSeq(w, 1, m) = [i \in 1 .. m |-> w[i]] BY <2>4, <3>4
    <3>6. SubSeq(p, 1, m) = [i \in 1 .. m |-> p[i]]
      <4>1. \A i \in 1 .. m : p[i] \in Range(p) BY <3>1, <3>2, ElementOfSeq, WayFacts
      <4>. QED BY <2>4, <4>1
    <3>7. \A i \in 1 .. m : w[i] = p[i] BY <3>1, <3>3, WayFacts
    <3>. QED BY <3>1, <3>3, <3>5, <3>6, <3>7 DEF Way
  <2>. QED BY <2>1, <2>3, <2>5, <1>1 DEF Front
<1>4. CASE Len(d) = n BY <1>1, <1>4
<1>5. CASE Len(d) # n
  <2>1. PICK m \in 1 .. Len(PathOf[c]) : m = n - 1 /\ Front(Way(c, n)) = Way(c, m) BY <1>2, <1>3, <1>5
  <2>2. Way(c, m) \in Ways /\ IsPrefix(d, Way(c, m)) BY <1>1, <1>2, <1>5, <2>1, PrefixFacts, WayFacts
  <2>. QED BY <1>2, <1>5, <2>1, <2>2
<1>. QED BY <1>4, <1>5

LEMMA InitTree == TreeInit => TreeInv
<1> SUFFICES ASSUME TreeInit PROVE TreeInv
  OBVIOUS
<1>1. \A c \in Caller : Len(PathOf[c]) \in Nat \ {0} /\ 1 \in 1 .. Len(PathOf[c]) /\ undo[c] = <<>>
  BY WayFacts DEF TreeInit
<1>2. PICK n \in 0 .. 1 : dirs = {Way(c, n) : c \in Caller} \ {<<>>}
  BY DEF TreeInit, Way
<1>3. dirs \in SUBSET Ways /\ \A d \in dirs : Len(d) = 1
  <2>1. ASSUME NEW d \in dirs PROVE d \in Ways /\ Len(d) = 1
    <3>1. PICK c \in Caller : d = Way(c, n) BY <1>2
    <3>2. CASE n = 0
      <4>1. PICK p : p = PathOf[c] OBVIOUS
      <4>2. SubSeq(p, 1, 0) = <<>> BY SubSeqEmpty
      <4>. QED BY <1>2, <3>1, <3>2, <4>1, <4>2 DEF Way
    <3>3. CASE n = 1 BY <1>1, <3>1, <3>3, WayFacts
    <3>. QED BY <3>2, <3>3
  <2>. QED BY <2>1
<1>4. TreeTyped
  <2>1. \A c \in Caller : undo[c] \in Seq(1 .. Len(PathOf[c])) BY <1>1, EmptySeq
  <2>. QED BY <1>1, <1>3, <2>1 DEF TreeInit, TreeTyped
<1>5. Rooted
  <2>1. ASSUME NEW e \in dirs, NEW d \in Ways, IsPrefix(d, e) PROVE d \in dirs
    <3>1. Len(d) <= Len(e) /\ Len(d) \in Nat \ {0} /\ Len(e) = 1 BY <1>3, <2>1, PrefixOrder
    <3>2. Len(d) = Len(e)
      <4>1. PICK a \in Nat \ {0} : a = Len(d) BY <3>1
      <4>2. a <= 1 BY <3>1, <4>1
      <4>3. a = 1 BY <4>1, <4>2
      <4>. QED BY <3>1, <4>1, <4>3
    <3>3. d = e BY <1>3, <2>1, <3>2, PrefixOrder
    <3>. QED BY <3>3
  <2>. QED BY <2>1 DEF Rooted
<1>6. ASSUME NEW c \in Caller PROVE Noted(c)
  BY <1>1, EmptySeq DEF Noted, TreeInit
<1>7. ASSUME NEW d \in dirs PROVE Accounted(d)
  BY DirTreeAssumption DEF Accounted, TreeInit
<1>. QED BY <1>4, <1>5, <1>6, <1>7 DEF TreeInv

(* A caller that goes on looks at its path a component further.            *)
LEMMA DescendFacts ==
  ASSUME TreeInv, NEW c \in Caller, Descend(c)
  PROVE  /\ step' = [step EXCEPT ![c] = step'[c]] /\ step'[c] \in {"made", "stat"}
         /\ depth' = [depth EXCEPT ![c] = depth'[c]] /\ depth'[c] \in 1 .. Len(PathOf[c])
         /\ step'[c] = "made" => depth[c] = Len(PathOf[c])
         /\ step'[c] = "stat" => depth'[c] = depth[c] + 1
<1>1. depth[c] \in 1 .. Len(PathOf[c]) /\ Len(PathOf[c]) \in Nat
  BY WayFacts DEF TreeInv, TreeTyped
<1>. QED BY <1>1 DEF Descend, Becomes, TreeInv, TreeTyped

(* A step of c that neither makes a directory nor removes one.             *)
LEMMA SameDirs ==
  ASSUME TreeInv, NEW c \in Caller, UNCHANGED <<dirs, maker>>,
         unlabelled' \in SUBSET Ways, unlabelled \subseteq unlabelled',
         step' = [step EXCEPT ![c] = step'[c]],
         step'[c] \in {"stat", "mkdir", "cleanup", "made", "failed"},
         depth' = [depth EXCEPT ![c] = depth'[c]], depth'[c] \in 1 .. Len(PathOf[c]),
         undo' = [undo EXCEPT ![c] = undo'[c]], undo'[c] \in Seq(1 .. Len(PathOf[c])),
         Noted(c)',
         \A i \in 1 .. Len(undo[c]) : \E j \in 1 .. Len(undo'[c]) : undo'[c][j] = undo[c][i],
         step[c] = "label" => \/ Buf(c) \in unlabelled'
                              \/ \E i \in 1 .. Len(undo'[c]) : Buf(c) = Way(c, undo'[c][i])
  PROVE  TreeInv'
<1>1. TreeTyped'
  <2>1. undo'[c] \in Seq(Nat)
    <3>1. 1 .. Len(PathOf[c]) \subseteq Nat BY WayFacts
    <3>. QED BY <3>1, SeqMonotonic
  <2>2. undo' \in [Caller -> Seq(Nat)] /\ \A o \in Caller : undo'[o] \in Seq(1 .. Len(PathOf[o]))
    BY <2>1 DEF TreeInv, TreeTyped
  <2>3. step' \in [Caller -> {"stat", "mkdir", "label", "cleanup", "made", "failed"}]
    BY DEF TreeInv, TreeTyped
  <2>4. depth' \in [Caller -> Nat] /\ \A o \in Caller : depth'[o] \in 1 .. Len(PathOf[o])
    <3>1. depth'[c] \in Nat BY WayFacts
    <3>. QED BY <3>1 DEF TreeInv, TreeTyped
  <2>. QED BY <2>2, <2>3, <2>4 DEF TreeInv, TreeTyped
<1>2. Rooted' BY DEF TreeInv, Rooted
<1>3. \A o \in Caller \ {c} : step'[o] = step[o] /\ depth'[o] = depth[o] /\ undo'[o] = undo[o]
  BY DEF TreeInv, TreeTyped
<1>4. ASSUME NEW o \in Caller PROVE Noted(o)'
  <2>1. CASE o = c BY <2>1
  <2>2. CASE o # c
    <3>1. Noted(o) BY DEF TreeInv
    <3>. QED BY <1>3, <2>2, <3>1 DEF Noted, Buf
  <2>. QED BY <2>1, <2>2
<1>5. ASSUME NEW d \in dirs PROVE Accounted(d)'
  <2>1. Accounted(d) BY DEF TreeInv
  <2>2. ASSUME NEW o \in Caller, maker[d] = o
        PROVE  /\ d \in DirsOf(o)
               /\ \/ \E i \in 1 .. Len(undo'[o]) : d = Way(o, undo'[o][i])
                  \/ step'[o] = "label" /\ d = Buf(o)'
                  \/ Excused(o, d)'
    <3>1. Excused(o, d) => Excused(o, d)' BY DEF Excused
    <3>2. \/ \E i \in 1 .. Len(undo[o]) : d = Way(o, undo[o][i])
          \/ step[o] = "label" /\ d = Buf(o)
          \/ Excused(o, d)
      BY <2>1, <2>2 DEF Accounted
    <3>3. CASE o # c BY <1>3, <2>1, <2>2, <3>1, <3>2, <3>3 DEF Accounted, Buf
    <3>4. CASE o = c
      <4>1. CASE \E i \in 1 .. Len(undo[c]) : d = Way(c, undo[c][i])
        BY <2>1, <2>2, <3>4, <4>1 DEF Accounted
      <4>2. CASE step[c] = "label" /\ d = Buf(c)
        <5>1. CASE Buf(c) \in unlabelled'
          <6>1. IsPrefix(d, d) BY PrefixOrder DEF TreeInv, TreeTyped
          <6>2. Excused(o, d)' BY <4>2, <5>1, <6>1 DEF Excused
          <6>. QED BY <2>1, <2>2, <6>2 DEF Accounted
        <5>. QED BY <2>1, <2>2, <3>4, <4>2, <5>1 DEF Accounted
      <4>3. CASE Excused(c, d) BY <2>1, <2>2, <3>1, <3>4, <4>3 DEF Accounted
      <4>. QED BY <3>2, <3>4, <4>1, <4>2, <4>3
    <3>. QED BY <3>3, <3>4
  <2>3. maker[d] = "nobody" => \A e \in dirs : IsPrefix(e, d) => maker[e] = "nobody"
    BY <2>1 DEF Accounted
  <2>. QED BY <2>2, <2>3 DEF Accounted
<1>. QED BY <1>1, <1>2, <1>4, <1>5 DEF TreeInv

LEMMA StatInv ==
  ASSUME TreeInv, NEW c \in Caller, Stat(c)
  PROVE  TreeInv'
<1>1. Noted(c) /\ step[c] = "stat" /\ UNCHANGED <<dirs, maker, undo, unlabelled>> BY DEF TreeInv, Stat
<1>2. /\ step' = [step EXCEPT ![c] = step'[c]] /\ step'[c] \in {"made", "stat", "mkdir", "cleanup"}
      /\ depth' = [depth EXCEPT ![c] = depth'[c]] /\ depth'[c] \in 1 .. Len(PathOf[c])
      /\ depth'[c] >= depth[c] /\ depth[c] \in Nat
  <2>1. Len(PathOf[c]) \in Nat /\ depth[c] \in 1 .. Len(PathOf[c]) BY WayFacts DEF TreeInv, TreeTyped
  <2>2. CASE Descend(c)
    <3>1. step'[c] = "made" => depth' = depth BY <2>2 DEF Descend, Becomes, TreeInv, TreeTyped
    <3>. QED BY <2>1, <2>2, <3>1, DescendFacts
  <2>3. CASE UNCHANGED depth /\ (Becomes(c, "mkdir") \/ Becomes(c, "cleanup"))
    BY <2>1, <2>3 DEF Becomes, TreeInv, TreeTyped
  <2>. QED BY <2>2, <2>3 DEF Stat
<1>3. undo[c] \in Seq(1 .. Len(PathOf[c])) /\ undo' = [undo EXCEPT ![c] = undo'[c]] /\ unlabelled \in SUBSET Ways
  BY <1>1 DEF TreeInv, TreeTyped
<1>4. Noted(c)'
  <2>1. \A i \in 1 .. Len(undo[c]) : undo[c][i] \in Nat BY <1>3, ElementOfSeq, LenProperties, WayFacts
  <2>. QED BY <1>1, <1>2, <2>1 DEF Noted
<1>. QED BY <1>1, <1>2, <1>3, <1>4, SameDirs

LEMMA MkdirInv ==
  ASSUME TreeInv, NEW c \in Caller, Mkdir(c)
  PROVE  TreeInv'
<1>1. step[c] = "mkdir" /\ UNCHANGED <<depth, undo, unlabelled>> BY DEF Mkdir
<1>2. CASE Becomes(c, "cleanup") /\ UNCHANGED <<dirs, maker>>
  <2>1. step' = [step EXCEPT ![c] = step'[c]] /\ step'[c] = "cleanup"
    BY <1>2 DEF Becomes, TreeInv, TreeTyped
  <2>2. /\ depth[c] \in 1 .. Len(PathOf[c]) /\ undo[c] \in Seq(1 .. Len(PathOf[c]))
        /\ depth' = [depth EXCEPT ![c] = depth'[c]] /\ undo' = [undo EXCEPT ![c] = undo'[c]]
        /\ unlabelled \in SUBSET Ways
    BY <1>1 DEF TreeInv, TreeTyped
  <2>3. Noted(c)' BY <1>1, <1>2, <2>1 DEF Noted, TreeInv
  <2>. QED BY <1>1, <1>2, <2>1, <2>2, <2>3, SameDirs
<1>3. CASE /\ Makeable(Buf(c)) /\ dirs' = dirs \cup {Buf(c)}
           /\ maker' = [d \in dirs' |-> IF d = Buf(c) THEN c ELSE maker[d]]
           /\ Becomes(c, "label")
  <2>1. PICK n \in 1 .. Len(PathOf[c]) : n = depth[c] /\ Buf(c) = Way(c, n)
    BY DEF TreeInv, TreeTyped, Buf, Way
  <2>2. PICK b \in Ways : b = Buf(c) /\ b = Way(c, n) /\ b \in DirsOf(c) /\ Len(b) = n
    BY <2>1, WayFacts
  <2>3. b \notin dirs /\ (n = 1 \/ Front(b) \in dirs) BY <1>3, <2>2 DEF Makeable
  <2>4. dirs' = dirs \cup {b} /\ Buf(c)' = b /\ \A o \in Caller : Buf(o)' = Buf(o)
    BY <1>1, <1>3, <2>2 DEF Buf
  <2>5. /\ \A d \in dirs : maker'[d] = maker[d]
        /\ maker'[b] = c
    BY <1>3, <2>2, <2>3, <2>4
  <2>6. step' = [step EXCEPT ![c] = "label"] BY <1>3 DEF Becomes
  <2>7. TreeTyped'
    <3>1. maker' \in [dirs' -> Caller \cup {"nobody"}] BY <1>3, <2>4 DEF TreeInv, TreeTyped
    <3>. QED BY <1>1, <2>4, <2>6, <3>1 DEF TreeInv, TreeTyped
  <2>8. Rooted'
    <3>1. ASSUME NEW e \in dirs', NEW d \in Ways, IsPrefix(d, e) PROVE d \in dirs'
      <4>1. CASE e \in dirs BY <2>4, <3>1, <4>1 DEF TreeInv, Rooted
      <4>2. CASE e = b
        <5>1. d = b \/ (n # 1 /\ IsPrefix(d, Front(b)))
          BY <2>2, <3>1, <4>2, ParentFacts
        <5>. QED BY <2>3, <2>4, <5>1 DEF TreeInv, Rooted
      <4>. QED BY <2>4, <4>1, <4>2
    <3>. QED BY <3>1 DEF Rooted
  <2>9. ASSUME NEW o \in Caller PROVE Noted(o)'
    <3>1. Noted(o) BY DEF TreeInv
    <3>2. step' [o] = IF o = c THEN "label" ELSE step[o] BY <2>6 DEF TreeInv, TreeTyped
    <3>3. \A i \in 1 .. Len(undo[o]) : Way(o, undo[o][i]) \in dirs' /\ maker'[Way(o, undo[o][i])] = o
      BY <2>4, <2>5, <3>1 DEF Noted
    <3>4. step'[o] = "label" => Buf(o)' \in dirs' /\ maker'[Buf(o)'] = o
      BY <2>4, <2>5, <3>1, <3>2 DEF Noted
    <3>5. step'[o] \in {"stat", "mkdir", "label"} => step[o] \in {"stat", "mkdir", "label"}
      BY <1>1, <3>2
    <3>. QED BY <1>1, <3>1, <3>3, <3>4, <3>5 DEF Noted
  <2>10. ASSUME NEW d \in dirs' PROVE Accounted(d)'
    <3>1. CASE d = b
      <4>1. maker'[d] # "nobody" BY <2>5, <3>1, DirTreeAssumption
      <4>2. ASSUME NEW o \in Caller, maker'[d] = o
            PROVE  d \in DirsOf(o) /\ step'[o] = "label" /\ d = Buf(o)'
        <5>1. o = c BY <2>5, <3>1, <4>2
        <5>. QED BY <2>2, <2>4, <2>6, <3>1, <5>1 DEF TreeInv, TreeTyped
      <4>. QED BY <4>1, <4>2 DEF Accounted
    <3>2. CASE d \in dirs
      <4>1. Accounted(d) /\ maker'[d] = maker[d] BY <2>5, <3>2 DEF TreeInv
      <4>2. ASSUME maker[d] = "nobody", NEW e \in dirs', IsPrefix(e, d) PROVE maker'[e] = "nobody"
        <5>1. e \in Ways BY <2>4 DEF TreeInv, TreeTyped
        <5>2. e \in dirs BY <3>2, <4>2, <5>1 DEF TreeInv, Rooted
        <5>. QED BY <2>5, <4>1, <4>2, <5>2 DEF Accounted
      <4>3. ASSUME NEW o \in Caller, maker[d] = o
            PROVE  /\ d \in DirsOf(o)
                   /\ \/ \E i \in 1 .. Len(undo'[o]) : d = Way(o, undo'[o][i])
                      \/ step'[o] = "label" /\ d = Buf(o)'
                      \/ Excused(o, d)'
        <5>1. Excused(o, d)' <=> Excused(o, d) BY <1>1 DEF Excused
        <5>2. step[o] = "label" => step'[o] = "label" BY <2>6 DEF TreeInv, TreeTyped
        <5>. QED BY <1>1, <2>4, <4>1, <4>3, <5>1, <5>2 DEF Accounted
      <4>. QED BY <4>1, <4>2, <4>3 DEF Accounted
    <3>. QED BY <2>4, <3>1, <3>2
  <2>. QED BY <2>7, <2>8, <2>9, <2>10 DEF TreeInv
<1>. QED BY <1>2, <1>3 DEF Mkdir

LEMMA SetDirLabelInv ==
  ASSUME TreeInv, NEW c \in Caller, SetDirLabel(c)
  PROVE  TreeInv'
<1>1. step[c] = "label" /\ UNCHANGED <<dirs, maker>> /\ Noted(c) BY DEF SetDirLabel, TreeInv
<1>2. PICK n \in 1 .. Len(PathOf[c]) : n = depth[c] /\ Buf(c) = Way(c, n) /\ Way(c, n) \in Ways
  BY WayFacts DEF TreeInv, TreeTyped, Buf, Way
<1>3. PICK u \in Seq(1 .. Len(PathOf[c])) : u = undo[c] BY DEF TreeInv, TreeTyped
<1>4. n \in Nat /\ Len(u) \in Nat /\ unlabelled \in SUBSET Ways /\ \A i \in 1 .. Len(u) : u[i] \in Nat
  BY <1>2, <1>3, LenProperties, ElementOfSeq, WayFacts DEF TreeInv, TreeTyped
<1>5. CASE Descend(c) /\ undo' = [undo EXCEPT ![c] = Append(@, depth[c])] /\ UNCHANGED unlabelled
  <2>1. PICK v : v = Append(u, n) OBVIOUS
  <2>2. /\ v \in Seq(1 .. Len(PathOf[c])) /\ Len(v) = Len(u) + 1 /\ v[Len(u) + 1] = n
        /\ \A i \in 1 .. Len(u) : v[i] = u[i]
    BY <1>3, <2>1, AppendProperties
  <2>3. undo'[c] = v /\ undo' = [undo EXCEPT ![c] = undo'[c]]
    BY <1>2, <1>3, <1>5, <2>1 DEF TreeInv, TreeTyped
  <2>4. /\ step' = [step EXCEPT ![c] = step'[c]] /\ step'[c] \in {"made", "stat"}
        /\ depth' = [depth EXCEPT ![c] = depth'[c]] /\ depth'[c] \in 1 .. Len(PathOf[c])
        /\ step'[c] = "stat" => depth'[c] = n + 1
    BY <1>2, <1>5, DescendFacts
  <2>5. \A i \in 1 .. Len(v) : i \in 1 .. Len(u) \/ (i = Len(u) + 1 /\ v[i] = n)
    BY <1>4, <2>2
  <2>6. \A i \in 1 .. Len(u) : u[i] < n BY <1>1, <1>2, <1>3 DEF Noted
  <2>7. Noted(c)'
    <3>1. \A i \in 1 .. Len(v), j \in 1 .. Len(v) : i < j => v[i] < v[j]
      <4>1. ASSUME NEW i \in 1 .. Len(v), NEW j \in 1 .. Len(v), i < j PROVE v[i] < v[j]
        <5>1. i \in 1 .. Len(u) /\ v[i] = u[i] BY <1>4, <2>2, <4>1
        <5>2. CASE j \in 1 .. Len(u) BY <1>1, <1>3, <2>2, <4>1, <5>1, <5>2 DEF Noted
        <5>3. CASE v[j] = n BY <2>6, <5>1, <5>3
        <5>. QED BY <2>5, <5>2, <5>3
      <4>. QED BY <4>1
    <3>2. step'[c] = "stat" => \A i \in 1 .. Len(v) : v[i] < depth'[c]
      <4>1. ASSUME NEW i \in 1 .. Len(v) PROVE v[i] < n + 1
        <5>1. CASE i \in 1 .. Len(u)
          <6>1. v[i] = u[i] /\ u[i] \in Nat /\ u[i] < n BY <1>4, <2>2, <2>6, <5>1
          <6>. QED BY <1>4, <6>1
        <5>. QED BY <1>4, <2>5, <5>1
      <4>. QED BY <2>4, <4>1
    <3>3. \A i \in 1 .. Len(v) : Way(c, v[i]) \in dirs' /\ maker'[Way(c, v[i])] = c
      BY <1>1, <1>2, <1>3, <2>2, <2>5 DEF Noted
    <3>. QED BY <2>3, <2>4, <3>1, <3>2, <3>3 DEF Noted
  <2>8. \A i \in 1 .. Len(undo[c]) : \E j \in 1 .. Len(undo'[c]) : undo'[c][j] = undo[c][i]
    <3>1. \A i \in 1 .. Len(u) : i \in 1 .. Len(v) BY <1>4, <2>2
    <3>. QED BY <1>3, <2>2, <2>3, <3>1
  <2>9. \E i \in 1 .. Len(undo'[c]) : Buf(c) = Way(c, undo'[c][i])
    <3>1. Len(u) + 1 \in 1 .. Len(v) BY <1>4, <2>2
    <3>. QED BY <1>2, <2>2, <2>3, <3>1
  <2>10. unlabelled' = unlabelled BY <1>5
  <2>. QED BY <1>1, <1>4, <2>2, <2>3, <2>4, <2>7, <2>8, <2>9, <2>10, SameDirs
<1>6. CASE /\ Becomes(c, "cleanup") /\ unlabelled' = unlabelled \cup {Buf(c)}
           /\ UNCHANGED <<depth, undo>>
  <2>1. step' = [step EXCEPT ![c] = step'[c]] /\ step'[c] = "cleanup"
    BY <1>6 DEF Becomes, TreeInv, TreeTyped
  <2>2. /\ depth[c] \in 1 .. Len(PathOf[c]) /\ undo[c] \in Seq(1 .. Len(PathOf[c]))
        /\ depth' = [depth EXCEPT ![c] = depth'[c]] /\ undo' = [undo EXCEPT ![c] = undo'[c]]
    BY <1>6 DEF TreeInv, TreeTyped
  <2>3. Noted(c)' BY <1>1, <1>6, <2>1 DEF Noted
  <2>4. unlabelled' \in SUBSET Ways /\ Buf(c) \in unlabelled' BY <1>2, <1>4, <1>6
  <2>5. unlabelled \subseteq unlabelled' BY <1>6
  <2>. QED BY <1>1, <1>6, <2>1, <2>2, <2>3, <2>4, <2>5, SameDirs
<1>. QED BY <1>5, <1>6 DEF SetDirLabel

LEMMA CleanUpInv ==
  ASSUME TreeInv, NEW c \in Caller, CleanUp(c)
  PROVE  TreeInv'
<1>1. step[c] = "cleanup" /\ UNCHANGED <<depth, unlabelled>> /\ Noted(c) BY DEF CleanUp, CleanUpTo, TreeInv
<1>2. PICK u \in Seq(1 .. Len(PathOf[c])) : u = undo[c] BY DEF TreeInv, TreeTyped
<1>3. Len(u) \in Nat /\ \A i \in 1 .. Len(u) : u[i] \in 1 .. Len(PathOf[c])
  BY <1>2, LenProperties, ElementOfSeq
<1>4. CASE ~(Len(u) > 0)
  <2>1. Becomes(c, "failed") /\ UNCHANGED <<dirs, maker, undo>> BY <1>2, <1>4 DEF CleanUp, CleanUpTo
  <2>2. step' = [step EXCEPT ![c] = step'[c]] /\ step'[c] = "failed"
    BY <2>1 DEF Becomes, TreeInv, TreeTyped
  <2>3. /\ depth[c] \in 1 .. Len(PathOf[c]) /\ undo[c] \in Seq(1 .. Len(PathOf[c]))
        /\ depth' = [depth EXCEPT ![c] = depth'[c]] /\ undo' = [undo EXCEPT ![c] = undo'[c]]
        /\ unlabelled \in SUBSET Ways
    BY <1>1, <2>1 DEF TreeInv, TreeTyped
  <2>4. Noted(c)' BY <1>1, <2>1, <2>2 DEF Noted
  <2>. QED BY <1>1, <2>1, <2>2, <2>3, <2>4, SameDirs
<1>5. CASE Len(u) > 0
  <2>1. PICK k \in 1 .. Len(u) : k = Len(u) BY <1>3, <1>5
  <2>2. PICK d \in Ways : d = Way(c, u[k]) /\ d \in DirsOf(c) /\ Len(d) = u[k]
    BY <1>3, WayFacts
  <2>3. d \in dirs /\ maker[d] = c BY <1>1, <1>2, <2>2 DEF Noted
  <2>4. /\ Rmdir(d) /\ undo' = [undo EXCEPT ![c] = Front(@)] /\ UNCHANGED step
    BY <1>2, <1>5, <2>1, <2>2 DEF CleanUp, CleanUpTo, Last, Way
  <2>5. PICK v : v = Front(u) OBVIOUS
  <2>6. /\ v \in Seq(1 .. Len(PathOf[c])) /\ v \in Seq(Nat) /\ Len(v) = Len(u) - 1
        /\ \A i \in 1 .. Len(u) - 1 : v[i] = u[i]
    <3>1. v = SubSeq(u, 1, Len(u) - 1) BY <2>5 DEF Front
    <3>2. \A i \in 1 .. Len(u) - 1 : u[i] \in 1 .. Len(PathOf[c]) BY <1>3
    <3>3. v = [i \in 1 .. Len(u) - 1 |-> u[i]] BY <1>3, <3>1, <3>2
    <3>4. Len(u) - 1 \in Nat BY <1>3, <1>5
    <3>5. 1 .. Len(PathOf[c]) \subseteq Nat BY WayFacts
    <3>6. v \in Seq(1 .. Len(PathOf[c])) /\ Len(v) = Len(u) - 1 BY <3>2, <3>3, <3>4
    <3>. QED BY <3>3, <3>5, <3>6, SeqMonotonic
  <2>7. undo' = [undo EXCEPT ![c] = v] /\ undo'[c] = v /\ \A o \in Caller \ {c} : undo'[o] = undo[o]
    BY <1>2, <2>4, <2>5 DEF TreeInv, TreeTyped
  <2>8. /\ dirs' \subseteq dirs /\ dirs \ dirs' \subseteq {d}
        /\ \A e \in dirs' : maker'[e] = maker[e] /\ DOMAIN maker' = dirs'
        /\ d \in dirs' => \E e \in dirs : Len(e) > Len(d) /\ IsPrefix(d, e)
        /\ d \notin dirs' => ~\E e \in dirs : Len(e) > Len(d) /\ IsPrefix(d, e)
    BY <2>3, <2>4 DEF Rmdir, Restrict
  <2>9. \A i \in 1 .. Len(u) : i \in 1 .. Len(v) \/ i = k BY <1>3, <2>1, <2>6
  <2>10. \A i \in 1 .. Len(v) : i \in 1 .. Len(u) /\ i < k BY <1>3, <2>1, <2>6
  <2>11. \A i \in 1 .. Len(v) : v[i] = u[i] /\ v[i] < u[k] /\ Way(c, v[i]) # d
    <3>1. ASSUME NEW i \in 1 .. Len(v) PROVE v[i] = u[i] /\ v[i] < u[k] /\ Way(c, v[i]) # d
      <4>1. v[i] = u[i] /\ u[i] \in 1 .. Len(PathOf[c]) /\ u[i] < u[k]
        BY <1>1, <1>2, <1>3, <2>6, <2>10 DEF Noted
      <4>2. Len(Way(c, u[i])) = u[i] /\ u[k] \in Nat BY <1>3, <4>1, WayFacts
      <4>. QED BY <2>2, <4>1, <4>2
    <3>. QED BY <3>1
  <2>12. TreeTyped'
    <3>1. maker' \in [dirs' -> Caller \cup {"nobody"}]
      <4>1. maker' = [e \in dirs' |-> maker[e]] BY <2>4 DEF Rmdir, Restrict
      <4>. QED BY <2>8, <4>1 DEF TreeInv, TreeTyped
    <3>2. undo' \in [Caller -> Seq(Nat)] BY <2>6, <2>7 DEF TreeInv, TreeTyped
    <3>3. \A o \in Caller : undo'[o] \in Seq(1 .. Len(PathOf[o]))
      BY <2>6, <2>7 DEF TreeInv, TreeTyped
    <3>4. dirs' \in SUBSET Ways BY <2>8 DEF TreeInv, TreeTyped
    <3>. QED BY <1>1, <2>4, <3>1, <3>2, <3>3, <3>4 DEF TreeInv, TreeTyped
  <2>13. Rooted'
    <3>1. ASSUME NEW e \in dirs', NEW f \in Ways, IsPrefix(f, e), f \notin dirs' PROVE FALSE
      <4>1. e \in dirs /\ f \in dirs /\ f = d /\ e # d /\ e \in Ways
        BY <2>8, <3>1 DEF TreeInv, TreeTyped, Rooted
      <4>2. Len(d) <= Len(e) /\ Len(e) # Len(d) /\ Len(d) \in Nat /\ Len(e) \in Nat
        BY <3>1, <4>1, PrefixOrder
      <4>3. Len(e) > Len(d) BY <4>2
      <4>. QED BY <2>8, <3>1, <4>1, <4>3
    <3>. QED BY <3>1 DEF Rooted
  <2>14. ASSUME NEW o \in Caller PROVE Noted(o)'
    <3>1. Noted(o) BY DEF TreeInv
    <3>2. CASE o # c
      <4>1. \A e \in dirs : maker[e] = o => e \in dirs' /\ maker'[e] = o BY <2>3, <2>8, <3>2
      <4>. QED BY <1>1, <2>4, <2>7, <3>1, <3>2, <4>1 DEF Noted, Buf
    <3>3. CASE o = c
      <4>1. \A i \in 1 .. Len(v), j \in 1 .. Len(v) : i < j => v[i] < v[j]
        BY <1>2, <2>10, <2>11, <3>1, <3>3 DEF Noted
      <4>2. \A i \in 1 .. Len(v) : Way(c, v[i]) \in dirs' /\ maker'[Way(c, v[i])] = c
        <5>1. \A i \in 1 .. Len(undo[c]) : /\ Way(c, undo[c][i]) \in dirs
                                          /\ maker[Way(c, undo[c][i])] = c
          BY <3>1, <3>3 DEF Noted
        <5>2. \A i \in 1 .. Len(u) : Way(c, u[i]) \in dirs /\ maker[Way(c, u[i])] = c
          BY <1>2, <5>1
        <5>3. ASSUME NEW i \in 1 .. Len(v) PROVE Way(c, v[i]) \in dirs' /\ maker'[Way(c, v[i])] = c
          <6>1. v[i] = u[i] /\ i \in 1 .. Len(u) /\ Way(c, v[i]) # d BY <2>10, <2>11
          <6>2. Way(c, v[i]) \in dirs /\ maker[Way(c, v[i])] = c BY <5>2, <6>1
          <6>3. Way(c, v[i]) \in dirs' BY <2>8, <6>1, <6>2
          <6>. QED BY <2>8, <6>2, <6>3
        <5>. QED BY <5>3
      <4>. QED BY <1>1, <2>4, <2>7, <3>3, <4>1, <4>2 DEF Noted
    <3>. QED BY <3>2, <3>3
  <2>15. d \in dirs' => Excused(c, d)
    <3>1. SUFFICES ASSUME d \in dirs' PROVE Excused(c, d)
      OBVIOUS
    <3>2. PICK e \in dirs : Len(e) > Len(d) /\ IsPrefix(d, e) BY <2>8, <3>1
    <3>3. e \in Ways /\ Accounted(e) /\ maker[e] \in Caller \cup {"nobody"}
          /\ Len(e) \in Nat /\ Len(d) \in Nat
      BY PrefixOrder DEF TreeInv, TreeTyped
    <3>4. maker[e] # "nobody" BY <2>3, <3>2, <3>3, DirTreeAssumption DEF Accounted
    <3>5. CASE maker[e] # c
      <4>1. PICK o \in Caller \ {c} : maker[e] = o BY <3>3, <3>4, <3>5
      <4>2. e \in DirsOf(o) BY <3>3, <4>1 DEF Accounted
      <4>3. d \in DirsOf(o) BY <3>2, <4>2, PrefixOrder
      <4>. QED BY <4>1, <4>3 DEF Excused
    <3>6. CASE maker[e] = c
      <4>1. ASSUME NEW i \in 1 .. Len(u), e = Way(c, u[i]) PROVE FALSE
        <5>1. Len(e) = u[i] BY <1>3, <4>1, WayFacts
        <5>2. i = k \/ u[i] < u[k] BY <2>9, <2>11
        <5>. QED BY <1>3, <2>2, <3>2, <3>3, <5>1, <5>2
      <4>2. Excused(c, e) BY <1>1, <1>2, <3>3, <3>6, <4>1 DEF Accounted
      <4>3. CASE \E f \in unlabelled : IsPrefix(e, f)
        <5>1. PICK f \in unlabelled : IsPrefix(e, f) BY <4>3
        <5>2. f \in Ways BY DEF TreeInv, TreeTyped
        <5>3. IsPrefix(d, f) BY <3>2, <3>3, <5>1, <5>2, PrefixOrder
        <5>. QED BY <5>3 DEF Excused
      <4>4. CASE \E o \in Caller \ {c} : e \in DirsOf(o)
        BY <3>2, <4>4, PrefixOrder DEF Excused
      <4>. QED BY <4>2, <4>3, <4>4 DEF Excused
    <3>. QED BY <3>5, <3>6
  <2>16. ASSUME NEW e \in dirs' PROVE Accounted(e)'
    <3>1. e \in dirs /\ Accounted(e) /\ maker'[e] = maker[e] BY <2>8 DEF TreeInv
    <3>2. maker[e] = "nobody" => \A f \in dirs' : IsPrefix(f, e) => maker'[f] = "nobody"
      BY <2>8, <3>1 DEF Accounted
    <3>3. ASSUME NEW o \in Caller, maker[e] = o
          PROVE  /\ e \in DirsOf(o)
                 /\ \/ \E i \in 1 .. Len(undo'[o]) : e = Way(o, undo'[o][i])
                    \/ step'[o] = "label" /\ e = Buf(o)'
                    \/ Excused(o, e)'
      <4>1. Excused(o, e)' <=> Excused(o, e) BY <1>1 DEF Excused
      <4>2. /\ e \in DirsOf(o)
            /\ \/ \E i \in 1 .. Len(undo[o]) : e = Way(o, undo[o][i])
               \/ step[o] = "label" /\ e = Buf(o)
               \/ Excused(o, e)
        BY <3>1, <3>3 DEF Accounted
      <4>3. step'[o] = step[o] /\ Buf(o)' = Buf(o) BY <1>1, <2>4 DEF Buf
      <4>4. CASE o # c BY <2>7, <4>1, <4>2, <4>3, <4>4
      <4>5. CASE o = c
        <5>1. ASSUME NEW i \in 1 .. Len(u), e = Way(c, u[i])
              PROVE  Excused(c, e) \/ \E j \in 1 .. Len(v) : e = Way(c, v[j])
          <6>1. CASE i = k BY <2>2, <2>15, <5>1, <6>1
          <6>2. CASE i \in 1 .. Len(v) BY <2>11, <5>1, <6>2
          <6>. QED BY <2>9, <6>1, <6>2
        <5>. QED BY <1>2, <2>7, <4>1, <4>2, <4>3, <4>5, <5>1
      <4>. QED BY <4>4, <4>5
    <3>. QED BY <3>1, <3>2, <3>3 DEF Accounted
  <2>. QED BY <2>12, <2>13, <2>14, <2>16 DEF TreeInv
<1>. QED BY <1>4, <1>5

LEMMA TreeStep == TreeInv /\ [TreeNext]_treeVars => TreeInv'
<1> SUFFICES ASSUME TreeInv, [TreeNext]_treeVars PROVE TreeInv'
  OBVIOUS
<1>1. CASE UNCHANGED treeVars
  <2>1. TreeTyped' /\ Rooted' BY <1>1 DEF treeVars, TreeInv, TreeTyped, Rooted
  <2>2. \A c \in Caller : Noted(c)' BY <1>1 DEF treeVars, TreeInv, Noted, Buf
  <2>3. \A d \in dirs' : Accounted(d)' BY <1>1 DEF treeVars, TreeInv, Accounted, Excused, Buf
  <2>. QED BY <2>1, <2>2, <2>3 DEF TreeInv
<1>2. CASE TreeNext BY <1>2, StatInv, MkdirInv, SetDirLabelInv, CleanUpInv DEF TreeNext
<1>. QED BY <1>1, <1>2

(* Whoever else makes and gives up paths, wherever calls fail: a call that *)
(* succeeds has the whole hierarchy there; one that fails leaves nothing   *)
(* it made but what it could not label, with what that is in, and what is  *)
(* on the path of another caller; and nobody takes away what another made. *)
THEOREM MkdirSafety == TreeSpec => MkdirAllOrNothing
<1>1. TreeInit => TreeInv BY InitTree
<1>2. TreeInv /\ [TreeNext]_treeVars => TreeInv' BY TreeStep
<1> DEFINE Promise ==
      \A c \in Caller :
        /\ step'[c] = "made" /\ step[c] # "made" => DirsOf(c) \subseteq dirs'
        /\ step'[c] = "failed" /\ step[c] # "failed" =>
             \A d \in dirs' : maker'[d] = c =>
               \/ \E e \in unlabelled : IsPrefix(d, e)
               \/ \E o \in Caller \ {c} : d \in DirsOf(o)
        /\ \A d \in dirs \ dirs' : maker[d] = c => undo'[c] # undo[c]
<1>3. TreeInv /\ [TreeNext]_treeVars => [Promise]_treeVars
  <2>1. SUFFICES ASSUME TreeInv, NEW o \in Caller, Stat(o) \/ Mkdir(o) \/ SetDirLabel(o) \/ CleanUp(o)
                 PROVE  Promise
    BY DEF TreeNext
  <2>2. step \in [Caller -> {"stat", "mkdir", "label", "cleanup", "made", "failed"}] /\ TreeTyped
    BY <2>1 DEF TreeInv, TreeTyped
  <2>3. ASSUME NEW c \in Caller, step'[c] = "made", step[c] # "made" PROVE DirsOf(c) \subseteq dirs'
    <3>1. c = o /\ depth[c] = Len(PathOf[c]) /\ dirs' = dirs /\ Buf(c) \in dirs
      <4>1. CASE Stat(o)
        <5>1. c = o BY <2>2, <2>3, <4>1 DEF Stat, Descend, Becomes
        <5>2. Buf(o) \in dirs /\ Descend(o) BY <2>2, <2>3, <4>1, <5>1 DEF Stat, Becomes
        <5>. QED BY <2>1, <2>3, <4>1, <5>1, <5>2, DescendFacts DEF Stat
      <4>2. CASE SetDirLabel(o)
        <5>1. c = o BY <2>2, <2>3, <4>2 DEF SetDirLabel, Descend, Becomes
        <5>2. Descend(o) BY <2>2, <2>3, <4>2, <5>1 DEF SetDirLabel, Becomes
        <5>3. Buf(o) \in dirs BY <2>1, <4>2 DEF SetDirLabel, TreeInv, Noted
        <5>. QED BY <2>1, <2>3, <4>2, <5>1, <5>2, <5>3, DescendFacts DEF SetDirLabel
      <4>3. CASE Mkdir(o) BY <2>2, <2>3, <4>3 DEF Mkdir, Becomes
      <4>4. CASE CleanUp(o) BY <2>2, <2>3, <4>4 DEF CleanUp, CleanUpTo, Becomes
      <4>. QED BY <2>1, <4>1, <4>2, <4>3, <4>4
    <3>2. PICK l \in Nat \ {0} : l = Len(PathOf[c]) BY WayFacts
    <3>3. Way(c, l) \in dirs /\ l \in 1 .. Len(PathOf[c]) BY <3>1, <3>2 DEF Buf, Way
    <3>4. ASSUME NEW d \in DirsOf(c) PROVE d \in dirs
      <4>1. PICK n \in 1 .. l : d = Way(c, n) BY <3>2, WayFacts
      <4>2. d \in Ways /\ Len(d) = n BY <3>2, <4>1, WayFacts
      <4>3. IsPrefix(d, Way(c, l)) BY <3>2, <3>3, <4>1, <4>2, PrefixFacts
      <4>. QED BY <2>1, <3>3, <4>2, <4>3 DEF TreeInv, Rooted
    <3>. QED BY <3>1, <3>4
  <2>4. ASSUME NEW c \in Caller, step'[c] = "failed", step[c] # "failed", NEW d \in dirs', maker'[d] = c
        PROVE  \/ \E e \in unlabelled : IsPrefix(d, e)
               \/ \E q \in Caller \ {c} : d \in DirsOf(q)
    <3>1. c = o /\ CleanUp(o)
      <4>1. ASSUME Stat(o) \/ Mkdir(o) \/ SetDirLabel(o) PROVE FALSE
        BY <2>2, <2>4, <4>1 DEF Stat, Mkdir, SetDirLabel, Descend, Becomes
      <4>2. CleanUp(o) BY <2>1, <4>1
      <4>. QED BY <2>2, <2>4, <4>2 DEF CleanUp, CleanUpTo, Becomes
    <3>2. step[c] = "cleanup" /\ UNCHANGED <<dirs, maker>> /\ ~(Len(undo[c]) > 0)
      BY <2>2, <2>4, <3>1 DEF CleanUp, CleanUpTo
    <3>3. \A i \in 1 .. Len(undo[c]) : FALSE
      <4>1. undo[c] \in Seq(Nat) BY <2>2 DEF TreeTyped
      <4>2. Len(undo[c]) = 0 BY <3>2, <4>1, LenProperties
      <4>. QED BY <4>2
    <3>4. Accounted(d) BY <2>1, <3>2 DEF TreeInv
    <3>. QED BY <2>4, <3>2, <3>3, <3>4 DEF Accounted, Excused
  <2>5. ASSUME NEW c \in Caller, NEW d \in dirs \ dirs', maker[d] = c PROVE undo'[c] # undo[c]
    <3>1. CleanUp(o) /\ UNCHANGED step
      <4>1. ASSUME Stat(o) \/ Mkdir(o) \/ SetDirLabel(o) PROVE dirs \subseteq dirs'
        BY <4>1 DEF Stat, Mkdir, SetDirLabel
      <4>2. CleanUp(o) BY <2>1, <2>5, <4>1
      <4>. QED BY <2>5, <4>2 DEF CleanUp, CleanUpTo
    <3>2. PICK u \in Seq(1 .. Len(PathOf[o])) : u = undo[o] BY <2>2 DEF TreeTyped
    <3>3. /\ Len(u) > 0 /\ Rmdir(Way(o, u[Len(u)])) /\ undo' = [undo EXCEPT ![o] = Front(@)]
      BY <2>5, <3>1, <3>2 DEF CleanUp, CleanUpTo, Way, Last
    <3>4. Len(u) \in Nat /\ Len(u) \in 1 .. Len(u) BY <3>2, <3>3, LenProperties
    <3>5. d = Way(o, u[Len(u)]) BY <2>5, <3>3 DEF Rmdir
    <3>6. maker[d] = o BY <2>1, <3>2, <3>4, <3>5 DEF TreeInv, Noted
    <3>7. Len(Front(u)) = Len(u) - 1
      <4>1. Front(u) = SubSeq(u, 1, Len(u) - 1) BY DEF Front
      <4>2. \A i \in 1 .. Len(u) - 1 : u[i] \in 1 .. Len(PathOf[o]) BY <3>2, <3>4, ElementOfSeq
      <4>3. Len(u) - 1 \in Nat BY <3>3, <3>4
      <4>4. Front(u) = [i \in 1 .. Len(u) - 1 |-> u[i]] BY <4>1, <4>2, <4>3
      <4>. QED BY <4>2, <4>3, <4>4
    <3>8. undo'[o] = Front(u) BY <2>2, <3>2, <3>3 DEF TreeTyped
    <3>. QED BY <2>5, <3>2, <3>4, <3>6, <3>7, <3>8
  <2>. QED BY <2>3, <2>4, <2>5
<1>. QED BY <1>1, <1>2, <1>3, PTL DEF TreeSpec, MkdirAllOrNothing
-----------------------------------------------------------------------------
(* The types of a manifest's files.                                        *)

Defaults == {"public", "public-ro", "rw", "ro", "private"}
TypesOf(as) ==
  Defaults \cup UNION {{member.type : member \in Range(app.fileTypes)} : app \in Range(as)}

(* Types have numbers below 2^16, which they are packed into.              *)
FewTypes == \A as \in Apps : IsFiniteSet(TypesOf(as)) /\ Cardinality(TypesOf(as)) <= Shift

Entry == [name : Path \cup Pattern, entry : Nat]

(* Packing and unpacking.                                                  *)
LEMMA EntryParts ==
  ASSUME NEW a \in Nat, NEW t \in 0 .. Shift - 1
  PROVE  /\ PathmapEntry(a, t) \in Nat
         /\ PathmapApp(PathmapEntry(a, t)) = a /\ PathmapType(PathmapEntry(a, t)) = t
<1>1. PICK s \in Nat \ {0} : s = Shift BY PathMapAssumption
<1>2. t \in 0 .. s - 1 /\ t \in Nat BY <1>1
<1>3. a * s + t \in Nat
  <2>1. a * s \in Nat BY <1>1
  <2>. QED BY <1>2, <2>1
<1>4. (a * s + t) \div s = a /\ (a * s + t) % s = t BY <1>2, QuotientOf
<1>. QED BY <1>1, <1>3, <1>4 DEF PathmapEntry, PathmapApp, PathmapType

Grows(table, larger) ==
  Len(table) <= Len(larger) /\ \A i \in 1 .. Len(table) : larger[i] = table[i]

(* A type that is inserted has its number, and the others keep theirs.     *)
LEMMA TypeInserted ==
  ASSUME NEW T, NEW table \in Seq(T), IsInjective(table), NEW type \in T,
         NEW ins, ins = PathmapTypeInsert(table, type)
  PROVE  /\ ins[1] \in Seq(T) /\ IsInjective(ins[1]) /\ Grows(table, ins[1])
         /\ ins[2] \in 0 .. Len(ins[1]) - 1 /\ ins[1][ins[2] + 1] = type
<1>1. PICK n \in Nat : n = Len(table) /\ DOMAIN table = 1 .. n BY LenProperties
<1>2. CASE type \in Range(table)
  <2>1. PICK k \in 1 .. n : k = CHOOSE i \in DOMAIN table : table[i] = type
    BY <1>1, <1>2 DEF Range
  <2>2. table[k] = type BY <1>1, <1>2, <2>1 DEF Range
  <2>3. ins = <<table, k - 1>> BY <1>2, <2>1 DEF PathmapTypeInsert
  <2>4. ins[1] = table /\ ins[2] = k - 1 BY <2>3
  <2>. QED BY <1>1, <2>1, <2>2, <2>4 DEF Grows
<1>3. CASE type \notin Range(table)
  <2>1. PICK larger : larger = Append(table, type) OBVIOUS
  <2>2. ins[1] = larger /\ ins[2] = n BY <1>1, <1>3, <2>1 DEF PathmapTypeInsert
  <2>3. larger \in Seq(T) /\ IsInjective(larger) BY <1>3, <2>1, AppendFacts
  <2>4. Len(larger) = n + 1 /\ larger[n + 1] = type /\ \A i \in 1 .. n : larger[i] = table[i]
    BY <1>1, <2>1, AppendProperties
  <2>5. n \in 0 .. Len(larger) - 1 BY <1>1, <2>4
  <2>. QED BY <1>1, <2>2, <2>3, <2>4, <2>5 DEF Grows
<1>. QED BY <1>2, <1>3

-----------------------------------------------------------------------------
(* The lists of entries.                                                   *)

(* Entry e stands for member x: the type it is of has e's number.          *)
StandsFor(e, x, S, table) ==
  /\ e.name \in Range(MemberAt(x).paths) \cap S
  /\ \E t \in 0 .. Len(table) - 1 :
       e.entry = PathmapEntry(x[1] - 1, t) /\ table[t + 1] = MemberAt(x).type

(* The entries of list are those of the members in done for names in S, in *)
(* the order of the members: g says whose each of them is.                 *)
Places(list, g, done, S, table) ==
  /\ \A k \in 1 .. Len(list) : g[k] \in done /\ StandsFor(list[k], g[k], S, table)
  /\ \A k \in 1 .. Len(list), l \in 1 .. Len(list) : k < l => NotAfter(g[k], g[l])
  /\ \A x \in done : \A p \in Range(MemberAt(x).paths) \cap S :
       \E k \in 1 .. Len(list) : g[k] = x /\ list[k].name = p

Listed(list, done, S, table) == \E g : Places(list, g, done, S, table)

(* The order of members, and what members are.                             *)
LEMMA MembersAre ==
  /\ \A x \in Members : /\ x[1] \in DOMAIN apps /\ x[2] \in DOMAIN apps[x[1]].fileTypes
                        /\ x = <<x[1], x[2]>>
  /\ \A a \in DOMAIN apps : \A i \in DOMAIN apps[a].fileTypes :
       <<a, i>> \in Members /\ <<a, i>>[1] = a /\ <<a, i>>[2] = i
<1>1. ASSUME NEW x \in Members
      PROVE  x[1] \in DOMAIN apps /\ x[2] \in DOMAIN apps[x[1]].fileTypes /\ x = <<x[1], x[2]>>
  <2>1. PICK a \in DOMAIN apps : x \in {<<a, i>> : i \in DOMAIN apps[a].fileTypes}
    BY DEF Members
  <2>2. PICK i \in DOMAIN apps[a].fileTypes : x = <<a, i>> BY <2>1
  <2>. QED BY <2>2
<1>2. ASSUME NEW a \in DOMAIN apps, NEW i \in DOMAIN apps[a].fileTypes
      PROVE  <<a, i>> \in Members
  <2>1. <<a, i>> \in {<<a, j>> : j \in DOMAIN apps[a].fileTypes} OBVIOUS
  <2>. QED BY <2>1 DEF Members
<1>. QED BY <1>1, <1>2

(* The manifest's data are what they should be.                            *)
LEMMA ManifestData ==
  ASSUME apps \in Apps
  PROVE  /\ apps \in Seq(Range(apps)) /\ Len(apps) \in Nat /\ DOMAIN apps = 1 .. Len(apps)
         /\ \A a \in DOMAIN apps :
              /\ apps[a].fileTypes \in Seq(Range(apps[a].fileTypes))
              /\ Len(apps[a].fileTypes) \in Nat
              /\ DOMAIN apps[a].fileTypes = 1 .. Len(apps[a].fileTypes)
         /\ \A x \in Members : /\ MemberAt(x).paths \in Seq(Path \cup Pattern)
                               /\ MemberAt(x).type \in TypesOf(apps)
                               /\ x[1] \in Nat \ {0} /\ x[2] \in Nat \ {0}
<1>1. apps \in Seq(Range(apps)) /\ Len(apps) \in Nat /\ DOMAIN apps = 1 .. Len(apps)
  BY PathMapAssumption, LenProperties
<1>2. ASSUME NEW a \in DOMAIN apps
      PROVE  /\ apps[a] \in Range(apps)
             /\ apps[a].fileTypes \in Seq(Range(apps[a].fileTypes))
             /\ Len(apps[a].fileTypes) \in Nat
             /\ DOMAIN apps[a].fileTypes = 1 .. Len(apps[a].fileTypes)
  <2>1. apps[a] \in Range(apps) BY DEF Range
  <2>2. apps[a].fileTypes \in Seq(Range(apps[a].fileTypes)) BY <2>1, PathMapAssumption
  <2>. QED BY <2>1, <2>2, LenProperties
<1>3. ASSUME NEW x \in Members
      PROVE  /\ MemberAt(x).paths \in Seq(Path \cup Pattern)
             /\ MemberAt(x).type \in TypesOf(apps)
             /\ x[1] \in Nat \ {0} /\ x[2] \in Nat \ {0}
  <2>1. PICK app : app = apps[x[1]] /\ app \in Range(apps) BY <1>2, MembersAre
  <2>2. MemberAt(x) \in Range(app.fileTypes)
    BY <2>1, MembersAre DEF MemberAt, Range
  <2>3. MemberAt(x).paths \in Seq(Path \cup Pattern) BY <2>1, <2>2, PathMapAssumption
  <2>4. MemberAt(x).type \in TypesOf(apps)
    <3>1. MemberAt(x).type \in {member.type : member \in Range(app.fileTypes)} BY <2>2
    <3>. QED BY <2>1, <3>1 DEF TypesOf
  <2>5. x[1] \in 1 .. Len(apps) /\ x[2] \in 1 .. Len(apps[x[1]].fileTypes)
    BY <1>1, <1>2, MembersAre
  <2>. QED BY <2>3, <2>4, <2>5
<1>. QED BY <1>1, <1>2, <1>3

LEMMA EntriesAre ==
  ASSUME NEW S \in SUBSET (Path \cup Pattern), NEW names \in Seq(S), NEW e \in Nat,
         NEW new, new = Entries(names, e)
  PROVE  /\ new \in Seq(Entry) /\ Len(new) = Len(names)
         /\ \A i \in 1 .. Len(names) : new[i].name = names[i] /\ new[i].entry = e
<1>1. PICK n \in Nat : n = Len(names) /\ DOMAIN names = 1 .. n BY LenProperties
<1>2. \A i \in 1 .. n : names[i] \in Path \cup Pattern BY <1>1, ElementOfSeq
<1>3. new = [i \in 1 .. n |-> [name |-> names[i], entry |-> e]] BY <1>1 DEF Entries
<1>4. \A i \in 1 .. n : [name |-> names[i], entry |-> e] \in Entry BY <1>2 DEF Entry
<1>5. new \in [1 .. n -> Entry] BY <1>3, <1>4
<1>6. new \in Seq(Entry) /\ Len(new) = n
  <2>1. PICK E : E = Entry OBVIOUS
  <2>2. new \in [1 .. n -> E] BY <1>5, <2>1
  <2>3. new \in Seq(E) /\ Len(new) = n BY <2>2, SeqOfFunction
  <2>. QED BY <2>1, <2>3
<1>. QED BY <1>1, <1>3, <1>6

(* What stands for a member does so when types are added.                  *)
LEMMA StandsStill ==
  ASSUME NEW e, NEW x, NEW S, NEW table, NEW larger, Len(table) \in Nat, Len(larger) \in Nat,
         Grows(table, larger), StandsFor(e, x, S, table)
  PROVE  StandsFor(e, x, S, larger)
<1>1. PICK t \in 0 .. Len(table) - 1 :
        e.entry = PathmapEntry(x[1] - 1, t) /\ table[t + 1] = MemberAt(x).type
  BY DEF StandsFor
<1>2. t \in 0 .. Len(larger) - 1 /\ t + 1 \in 1 .. Len(table) BY <1>1 DEF Grows
<1>3. larger[t + 1] = table[t + 1] BY <1>2 DEF Grows
<1>. QED BY <1>1, <1>2, <1>3 DEF StandsFor

LEMMA ConcatPlaces ==
  ASSUME NEW S, NEW s \in Seq(S), NEW t \in Seq(S)
  PROVE  /\ s \o t \in Seq(S) /\ Len(s \o t) = Len(s) + Len(t)
         /\ Len(s) \in Nat /\ Len(t) \in Nat
         /\ \A i \in 1 .. Len(s) + Len(t) :
              IF i <= Len(s) THEN i \in 1 .. Len(s) /\ (s \o t)[i] = s[i]
              ELSE i - Len(s) \in 1 .. Len(t) /\ (s \o t)[i] = t[i - Len(s)]
BY ConcatProperties, LenProperties

(* What is behind the list it is appended to.                              *)
Behind(new, list, names, e) ==
  /\ new \in Seq(Entry) /\ Len(new) = Len(list) + Len(names)
  /\ Len(list) \in Nat /\ Len(names) \in Nat
  /\ \A k \in 1 .. Len(list) + Len(names) :
       IF k <= Len(list) THEN k \in 1 .. Len(list) /\ new[k] = list[k]
       ELSE /\ k - Len(list) \in 1 .. Len(names)
            /\ new[k].name = names[k - Len(list)] /\ new[k].entry = e

LEMMA EntriesBehind ==
  ASSUME NEW S \in SUBSET (Path \cup Pattern), NEW list \in Seq(Entry), NEW names \in Seq(S),
         NEW e \in Nat
  PROVE  Behind(list \o Entries(names, e), list, names, e)
<1>1. PICK more : more = Entries(names, e) OBVIOUS
<1>2. more \in Seq(Entry) /\ Len(more) = Len(names) BY <1>1, EntriesAre
<1>3. \A i \in 1 .. Len(names) : more[i].name = names[i] /\ more[i].entry = e
  BY <1>1, EntriesAre
<1>4. PICK new : new = list \o more OBVIOUS
<1>5. /\ new \in Seq(Entry) /\ Len(new) = Len(list) + Len(more)
      /\ Len(list) \in Nat /\ Len(more) \in Nat
      /\ \A i \in 1 .. Len(list) + Len(more) :
           IF i <= Len(list) THEN i \in 1 .. Len(list) /\ new[i] = list[i]
           ELSE i - Len(list) \in 1 .. Len(more) /\ new[i] = more[i - Len(list)]
  <2>1. PICK E : E = Entry OBVIOUS
  <2>2. list \in Seq(E) /\ more \in Seq(E) BY <1>2, <2>1
  <2>3. /\ list \o more \in Seq(E) /\ Len(list \o more) = Len(list) + Len(more)
        /\ Len(list) \in Nat /\ Len(more) \in Nat
        /\ \A i \in 1 .. Len(list) + Len(more) :
             IF i <= Len(list) THEN i \in 1 .. Len(list) /\ (list \o more)[i] = list[i]
             ELSE i - Len(list) \in 1 .. Len(more) /\ (list \o more)[i] = more[i - Len(list)]
    BY <2>2, ConcatPlaces
  <2>. QED BY <1>4, <2>1, <2>3
<1>. QED BY <1>1, <1>2, <1>3, <1>4, <1>5 DEF Behind

(* The entries of one more member, behind those of the members before it.  *)
LEMMA ListedMore ==
  ASSUME NEW S \in SUBSET (Path \cup Pattern), NEW list \in Seq(Entry), NEW done, NEW table, NEW larger,
         Len(table) \in Nat, Len(larger) \in Nat, Grows(table, larger),
         Listed(list, done, S, table),
         NEW x, \A y \in done : NotAfter(y, x), NotAfter(x, x),
         NEW t \in 0 .. Len(larger) - 1, larger[t + 1] = MemberAt(x).type,
         NEW names \in Seq(S), Range(names) = Range(MemberAt(x).paths) \cap S,
         NEW e \in Nat, e = PathmapEntry(x[1] - 1, t),
         NEW new, new = list \o Entries(names, e)
  PROVE  new \in Seq(Entry) /\ Listed(new, done \cup {x}, S, larger)
<1>0. Behind(new, list, names, e) BY EntriesBehind
<1>1. PICK m, n : m = Len(list) /\ n = Len(names) OBVIOUS
<1>2. new \in Seq(Entry) /\ Len(new) = m + n /\ m \in Nat /\ n \in Nat BY <1>0, <1>1 DEF Behind
<1>3. \A k \in 1 .. m + n :
        IF k <= m THEN k \in 1 .. m /\ new[k] = list[k]
        ELSE k - m \in 1 .. n /\ new[k].name = names[k - m] /\ new[k].entry = e
  BY <1>0, <1>1 DEF Behind
<1>5. PICK g : Places(list, g, done, S, table) BY DEF Listed
<1>6. PICK h : h = [k \in 1 .. m + n |-> IF k <= m THEN g[k] ELSE x] OBVIOUS
<1>7. \A k \in 1 .. m + n : IF k <= m THEN k \in 1 .. m /\ new[k] = list[k] /\ h[k] = g[k]
                            ELSE /\ k - m \in 1 .. n /\ h[k] = x
                                 /\ new[k].name = names[k - m] /\ new[k].entry = e
  BY <1>3, <1>6
<1>8. \A i \in 1 .. n : names[i] \in Range(MemberAt(x).paths) \cap S
  <2>1. DOMAIN names = 1 .. n BY <1>1, LenProperties
  <2>. QED BY <2>1 DEF Range
<1>9. ASSUME NEW k \in 1 .. m + n
      PROVE  h[k] \in done \cup {x} /\ StandsFor(new[k], h[k], S, larger)
  <2>1. CASE k <= m
    <3>1. k \in 1 .. m /\ new[k] = list[k] /\ h[k] = g[k] BY <1>7, <2>1
    <3>2. g[k] \in done /\ StandsFor(list[k], g[k], S, table) BY <1>1, <1>5, <3>1 DEF Places
    <3>. QED BY <3>1, <3>2, StandsStill
  <2>2. CASE ~(k <= m)
    <3>1. k - m \in 1 .. n /\ h[k] = x BY <1>7, <2>2
    <3>2. new[k].name = names[k - m] /\ new[k].entry = e BY <1>7, <2>2
    <3>3. new[k].name \in Range(MemberAt(x).paths) \cap S BY <1>8, <3>1, <3>2
    <3>4. StandsFor(new[k], x, S, larger) BY <3>2, <3>3 DEF StandsFor
    <3>. QED BY <3>1, <3>4
  <2>. QED BY <2>1, <2>2
<1>10. ASSUME NEW k \in 1 .. m + n, NEW l \in 1 .. m + n, k < l PROVE NotAfter(h[k], h[l])
  <2>1. CASE l <= m
    <3>1. k <= m
      <4>1. m \in Nat /\ n \in Nat BY <1>2
      <4>2. k \in Nat /\ l \in Nat BY <4>1
      <4>. QED BY <1>10, <2>1, <4>1, <4>2
    <3>2. k \in 1 .. m /\ l \in 1 .. m /\ h[k] = g[k] /\ h[l] = g[l] BY <1>7, <2>1, <3>1
    <3>. QED BY <1>1, <1>5, <1>10, <3>2 DEF Places
  <2>2. CASE ~(l <= m)
    <3>1. h[l] = x BY <1>7, <2>2
    <3>2. h[k] \in done \cup {x} BY <1>9
    <3>. QED BY <3>1, <3>2
  <2>. QED BY <2>1, <2>2
<1>11. ASSUME NEW y \in done \cup {x}, NEW p \in Range(MemberAt(y).paths) \cap S
       PROVE  \E k \in 1 .. m + n : h[k] = y /\ new[k].name = p
  <2>1. CASE y \in done
    <3>1. PICK k \in 1 .. m : g[k] = y /\ list[k].name = p BY <1>1, <1>5, <2>1 DEF Places
    <3>2. k \in 1 .. m + n /\ k <= m BY <1>2
    <3>. QED BY <1>7, <3>1, <3>2
  <2>2. CASE y = x
    <3>1. PICK i \in 1 .. n : names[i] = p
      <4>1. DOMAIN names = 1 .. n BY <1>1, LenProperties
      <4>2. p \in Range(names) BY <2>2
      <4>. QED BY <4>1, <4>2 DEF Range
    <3>2. m + i \in 1 .. m + n /\ ~(m + i <= m) /\ (m + i) - m = i BY <1>2
    <3>3. h[m + i] = x /\ new[m + i].name = names[i] BY <1>7, <3>2
    <3>. QED BY <2>2, <3>1, <3>2, <3>3
  <2>. QED BY <2>1, <2>2
<1>12. PICK all : all = done \cup {x} OBVIOUS
<1>13. Places(new, h, all, S, larger)
  <2>1. Len(new) = m + n BY <1>2
  <2>2. \A k \in 1 .. Len(new) : h[k] \in all /\ StandsFor(new[k], h[k], S, larger)
    BY <1>9, <1>12, <2>1
  <2>3. \A k \in 1 .. Len(new), l \in 1 .. Len(new) : k < l => NotAfter(h[k], h[l])
    BY <1>10, <2>1
  <2>4. ASSUME NEW y \in all, NEW p \in Range(MemberAt(y).paths) \cap S
        PROVE  \E k \in 1 .. Len(new) : h[k] = y /\ new[k].name = p
    <3>1. y \in done \cup {x} BY <1>12
    <3>2. \E k \in 1 .. m + n : h[k] = y /\ new[k].name = p BY <1>11, <3>1
    <3>. QED BY <2>1, <3>2
  <2>. QED BY <2>2, <2>3, <2>4 DEF Places
<1>. QED BY <1>2, <1>12, <1>13 DEF Listed

(* The types may grow, too, without a member.                              *)
LEMMA ListedStill ==
  ASSUME NEW list, NEW done, NEW S, NEW table, NEW larger, Len(table) \in Nat, Len(larger) \in Nat,
         Grows(table, larger), Listed(list, done, S, table)
  PROVE  Listed(list, done, S, larger)
<1>1. PICK g : Places(list, g, done, S, table) BY DEF Listed
<1>2. \A k \in 1 .. Len(list) : g[k] \in done /\ StandsFor(list[k], g[k], S, larger)
  BY <1>1, StandsStill DEF Places
<1>3. Places(list, g, done, S, larger) BY <1>1, <1>2 DEF Places
<1>. QED BY <1>3 DEF Listed

(* The first entry for some names is of the first member that says         *)
(* something of one of them.                                               *)
LEMMA FirstListed ==
  ASSUME apps \in Apps, NEW S, NEW list, Len(list) \in Nat, DOMAIN list = 1 .. Len(list),
         NEW table, Listed(list, Members, S, table),
         NEW names \in SUBSET S
  PROVE  /\ SaidOf(names) = {} => FirstEntry(list, names) = -1
         /\ SaidOf(names) # {} =>
              /\ FirstSaid(SaidOf(names)) \in SaidOf(names)
              /\ \E t \in 0 .. Len(table) - 1 :
                   /\ FirstEntry(list, names) = PathmapEntry(FirstSaid(SaidOf(names))[1] - 1, t)
                   /\ table[t + 1] = MemberAt(FirstSaid(SaidOf(names))).type
<1>1. PICK g : Places(list, g, Members, S, table) BY DEF Listed
<1>2. PICK found : found = {i \in DOMAIN list : list[i].name \in names} OBVIOUS
<1>3. ASSUME NEW k \in found PROVE g[k] \in SaidOf(names)
  <2>1. /\ g[k] \in Members /\ list[k].name \in Range(MemberAt(g[k]).paths)
        /\ list[k].name \in names
    BY <1>1, <1>2 DEF Places, StandsFor
  <2>. QED BY <2>1 DEF SaidOf
<1>4. ASSUME NEW y \in SaidOf(names) PROVE \E k \in found : g[k] = y
  <2>1. PICK p \in names : y \in Members /\ p \in Range(MemberAt(y).paths) BY DEF SaidOf
  <2>2. p \in Range(MemberAt(y).paths) \cap S BY <2>1
  <2>3. PICK k \in 1 .. Len(list) : g[k] = y /\ list[k].name = p BY <1>1, <2>1, <2>2 DEF Places
  <2>. QED BY <1>2, <2>3
<1>5. CASE SaidOf(names) = {}
  <2>1. found = {} BY <1>3, <1>5
  <2>. QED BY <1>2, <1>5, <2>1 DEF FirstEntry
<1>6. CASE SaidOf(names) # {}
  <2>1. found # {} /\ found \in SUBSET Nat BY <1>2, <1>4, <1>6
  <2>2. PICK m \in found : m = Min(found) /\ \A k \in found : m <= k BY <2>1, MinInSet
  <2>3. m \in 1 .. Len(list) /\ FirstEntry(list, names) = list[m].entry
    BY <1>2, <2>1, <2>2 DEF FirstEntry
  <2>4. PICK x \in SaidOf(names) : x = g[m] BY <1>3
  <2>5. x \in Members /\ x = <<x[1], x[2]>> /\ x[1] \in Nat /\ x[2] \in Nat
    BY MembersAre, ManifestData DEF SaidOf
  <2>6. ASSUME NEW y \in SaidOf(names) PROVE NotAfter(x, y)
    <3>1. PICK k \in found : g[k] = y BY <1>4
    <3>2. m <= k /\ k \in 1 .. Len(list) /\ m \in Nat /\ k \in Nat BY <1>2, <2>1, <2>2
    <3>3. CASE m = k BY <2>4, <2>5, <3>1, <3>3 DEF NotAfter
    <3>4. CASE m # k
      <4>1. m < k BY <3>2, <3>4
      <4>. QED BY <1>1, <2>3, <2>4, <3>1, <3>2, <4>1 DEF Places
    <3>. QED BY <3>3, <3>4
  <2>7. ASSUME NEW y \in SaidOf(names), \A z \in SaidOf(names) : NotAfter(y, z) PROVE y = x
    <3>1. NotAfter(x, y) /\ NotAfter(y, x) BY <2>6, <2>7
    <3>2. y = <<y[1], y[2]>> /\ y[1] \in Nat /\ y[2] \in Nat
      BY MembersAre, ManifestData DEF SaidOf
    <3>3. x[1] = y[1] /\ x[2] = y[2] BY <2>5, <3>1, <3>2 DEF NotAfter
    <3>. QED BY <2>5, <3>2, <3>3
  <2>8. FirstSaid(SaidOf(names)) = x BY <2>6, <2>7 DEF FirstSaid
  <2>9. StandsFor(list[m], x, S, table) BY <1>1, <2>3, <2>4 DEF Places
  <2>. QED BY <1>6, <2>3, <2>4, <2>8, <2>9 DEF StandsFor
<1>. QED BY <1>5, <1>6

-----------------------------------------------------------------------------
(* Inserting an application.                                               *)

Maps == {pm \in [types : Seq(TypesOf(apps)), files : Seq(Entry), regexps : Seq(Entry)] :
          IsInjective(pm.types)}

PmTyped(pm) == pm \in Maps

(* The maps have the members in done, in their order.                      *)
PmHas(pm, done) ==
  /\ PmTyped(pm)
  /\ Listed(pm.files, done, Path, pm.types) /\ Listed(pm.regexps, done, Pattern, pm.types)

Upto(a, i) == {x \in Members : x[1] < a \/ (x[1] = a /\ x[2] <= i)}

(* What the members before are, one member later.                          *)
LEMMA UptoNext ==
  ASSUME apps \in Apps, NEW a \in DOMAIN apps, NEW i \in DOMAIN apps[a].fileTypes,
         NEW x, x = <<a, i>>
  PROVE  /\ Upto(a, i) = Upto(a, i - 1) \cup {x} /\ x \in Members /\ x[1] = a
         /\ MemberAt(x) = apps[a].fileTypes[i]
         /\ NotAfter(x, x) /\ \A y \in Upto(a, i - 1) : NotAfter(y, x)
<1>1. x \in Members /\ x[1] = a /\ x[2] = i BY MembersAre
<1>2. a \in Nat /\ i \in Nat
  <2>1. DOMAIN apps = 1 .. Len(apps) BY ManifestData
  <2>2. DOMAIN apps[a].fileTypes = 1 .. Len(apps[a].fileTypes) BY ManifestData
  <2>. QED BY <2>1, <2>2
<1>3. \A y \in Members : y[1] \in Nat /\ y[2] \in Nat /\ y = <<y[1], y[2]>>
  BY ManifestData, MembersAre
<1>4. ASSUME NEW y \in Members PROVE y \in Upto(a, i) <=> y \in Upto(a, i - 1) \/ y = x
  <2>1. y[1] \in Nat /\ y[2] \in Nat BY <1>3
  <2>2. y = x <=> y[1] = a /\ y[2] = i BY <1>1, <1>3
  <2>3. y[1] = a /\ y[2] <= i <=> y[1] = a /\ (y[2] <= i - 1 \/ y[2] = i) BY <1>2, <2>1
  <2>. QED BY <2>2, <2>3 DEF Upto
<1>5. Upto(a, i) = Upto(a, i - 1) \cup {x}
  <2>1. \A y : y \in Upto(a, i) => y \in Members BY DEF Upto
  <2>2. \A y : y \in Upto(a, i - 1) \cup {x} => y \in Members BY <1>1 DEF Upto
  <2>. QED BY <1>4, <2>1, <2>2
<1>6. ASSUME NEW y \in Upto(a, i - 1) PROVE NotAfter(y, x)
  <2>1. y \in Members /\ (y[1] < a \/ (y[1] = a /\ y[2] <= i - 1)) BY DEF Upto
  <2>2. y[1] \in Nat /\ y[2] \in Nat BY <1>3, <2>1
  <2>. QED BY <1>1, <1>2, <2>1, <2>2 DEF NotAfter
<1>7. NotAfter(x, x) BY <1>1, <1>2 DEF NotAfter
<1>8. MemberAt(x) = apps[a].fileTypes[i] BY <1>1 DEF MemberAt
<1>. QED BY <1>1, <1>5, <1>6, <1>7, <1>8

OneMore(pm, a, member, new) ==
  /\ PmTyped(new) /\ Grows(pm.types, new.types)
  /\ \E t \in 0 .. Len(new.types) - 1 :
       /\ new.types[t + 1] = member.type
       /\ PathmapEntry(a, t) \in Nat
       /\ new.files = pm.files \o Entries(Keep(member.paths, Path), PathmapEntry(a, t))
       /\ new.regexps = pm.regexps \o Entries(Keep(member.paths, Pattern), PathmapEntry(a, t))

(* What a member's insertion does to well-formed maps.                     *)
LEMMA InsertTyped ==
  ASSUME NEW pm, PmTyped(pm), NEW a \in Nat, NEW member, member.type \in TypesOf(apps),
         member.paths \in Seq(Path \cup Pattern)
  PROVE  OneMore(pm, a, member, InsertMember(pm, a, member))
<1>0. PICK new : new = InsertMember(pm, a, member) OBVIOUS
<1>1. /\ pm.types \in Seq(TypesOf(apps)) /\ IsInjective(pm.types)
      /\ pm.files \in Seq(Entry) /\ pm.regexps \in Seq(Entry)
  BY DEF PmTyped, Maps
<1>2. PICK ins : ins = PathmapTypeInsert(pm.types, member.type) OBVIOUS
<1>3. /\ ins[1] \in Seq(TypesOf(apps)) /\ IsInjective(ins[1]) /\ Grows(pm.types, ins[1])
      /\ ins[2] \in 0 .. Len(ins[1]) - 1 /\ ins[1][ins[2] + 1] = member.type
  BY <1>1, <1>2, TypeInserted
<1>4. PICK f : f = PathmapEntry(a, ins[2]) OBVIOUS
<1>5. f \in Nat
  <2>1. PICK t \in Nat : t = ins[2] BY <1>3, LenProperties
  <2>2. PICK s \in Nat : s = Shift BY PathMapAssumption
  <2>3. a * s \in Nat BY <2>2
  <2>. QED BY <1>4, <2>1, <2>2, <2>3 DEF PathmapEntry
<1>6. PICK types2, files2, regexps2 :
        /\ types2 = ins[1]
        /\ files2 = pm.files \o Entries(Keep(member.paths, Path), f)
        /\ regexps2 = pm.regexps \o Entries(Keep(member.paths, Pattern), f)
        /\ new = [types |-> types2, files |-> files2, regexps |-> regexps2]
  BY <1>0, <1>2, <1>4 DEF InsertMember
<1>7. new.types = types2 /\ new.files = files2 /\ new.regexps = regexps2 BY <1>6, Zenon
<1>8. ASSUME NEW S \in SUBSET (Path \cup Pattern), NEW list \in Seq(Entry)
      PROVE  list \o Entries(Keep(member.paths, S), f) \in Seq(Entry)
  <2>1. Keep(member.paths, S) \in Seq((Path \cup Pattern) \cap S) BY KeepType
  <2>2. (Path \cup Pattern) \cap S = S OBVIOUS
  <2>3. PICK names \in Seq(S) : names = Keep(member.paths, S) BY <2>1, <2>2
  <2>4. Behind(list \o Entries(names, f), list, names, f) BY <1>5, EntriesBehind
  <2>. QED BY <2>3, <2>4 DEF Behind
<1>9. new.files \in Seq(Entry) /\ new.regexps \in Seq(Entry)
  <2>1. Path \in SUBSET (Path \cup Pattern) /\ Pattern \in SUBSET (Path \cup Pattern) OBVIOUS
  <2>. QED BY <1>1, <1>6, <1>7, <1>8, <2>1
<1>10. PmTyped(new)
  <2>1. new = [types |-> new.types, files |-> new.files, regexps |-> new.regexps]
    BY <1>6, <1>7, Zenon
  <2>2. new.types \in Seq(TypesOf(apps)) /\ IsInjective(new.types) BY <1>3, <1>6, <1>7
  <2>. QED BY <1>9, <2>1, <2>2 DEF PmTyped, Maps
<1>. QED BY <1>0, <1>3, <1>4, <1>5, <1>6, <1>7, <1>10 DEF OneMore

(* One member more in the maps.                                            *)
LEMMA InsertOne ==
  ASSUME apps \in Apps, NEW a \in DOMAIN apps, NEW i \in DOMAIN apps[a].fileTypes,
         NEW pm, PmHas(pm, Upto(a, i - 1)),
         NEW new, new = InsertMember(pm, a - 1, apps[a].fileTypes[i])
  PROVE  PmHas(new, Upto(a, i))
<1>1. PICK x : x = <<a, i>> OBVIOUS
<1>2. /\ Upto(a, i) = Upto(a, i - 1) \cup {x} /\ x \in Members /\ x[1] = a
      /\ MemberAt(x) = apps[a].fileTypes[i]
      /\ NotAfter(x, x) /\ \A y \in Upto(a, i - 1) : NotAfter(y, x)
  BY <1>1, UptoNext
<1>3. PICK member : member = apps[a].fileTypes[i] OBVIOUS
<1>4. MemberAt(x) = member /\ member.paths \in Seq(Path \cup Pattern) /\ member.type \in TypesOf(apps)
  BY <1>2, <1>3, ManifestData
<1>5. a - 1 \in Nat
  <2>1. x[1] \in Nat \ {0} BY <1>2, ManifestData
  <2>. QED BY <1>2, <2>1
<1>6. PmTyped(pm) /\ Listed(pm.files, Upto(a, i - 1), Path, pm.types)
      /\ Listed(pm.regexps, Upto(a, i - 1), Pattern, pm.types)
  BY DEF PmHas
<1>7. new = InsertMember(pm, a - 1, member) BY <1>3
<1>70. OneMore(pm, a - 1, member, new) BY <1>4, <1>5, <1>6, <1>7, InsertTyped
<1>8. PmTyped(new) /\ Grows(pm.types, new.types) BY <1>70 DEF OneMore
<1>9. PICK t \in 0 .. Len(new.types) - 1 :
        /\ new.types[t + 1] = member.type
        /\ PathmapEntry(a - 1, t) \in Nat
        /\ new.files = pm.files \o Entries(Keep(member.paths, Path), PathmapEntry(a - 1, t))
        /\ new.regexps = pm.regexps \o Entries(Keep(member.paths, Pattern), PathmapEntry(a - 1, t))
  BY <1>70 DEF OneMore
<1>10. PICK e \in Nat : e = PathmapEntry(a - 1, t) BY <1>9
<1>11. Len(pm.types) \in Nat /\ Len(new.types) \in Nat /\ pm.files \in Seq(Entry) /\ pm.regexps \in Seq(Entry)
  BY <1>6, <1>8, LenProperties DEF PmTyped, Maps
<1>12. ASSUME NEW S \in SUBSET (Path \cup Pattern), NEW list \in Seq(Entry),
              Listed(list, Upto(a, i - 1), S, pm.types)
       PROVE  Listed(list \o Entries(Keep(member.paths, S), e), Upto(a, i), S, new.types)
  <2>1. Keep(member.paths, S) \in Seq((Path \cup Pattern) \cap S) BY <1>4, KeepType
  <2>2. (Path \cup Pattern) \cap S = S OBVIOUS
  <2>3. PICK names \in Seq(S) : names = Keep(member.paths, S) BY <2>1, <2>2
  <2>4. Range(names) = Range(MemberAt(x).paths) \cap S BY <1>4, <2>3, KeepFacts
  <2>5. PICK table, larger : table = pm.types /\ larger = new.types OBVIOUS
  <2>6. PICK done : done = Upto(a, i - 1) OBVIOUS
  <2>7. Listed(list \o Entries(names, e), done \cup {x}, S, larger)
    <3>1. /\ Len(table) \in Nat /\ Len(larger) \in Nat /\ Grows(table, larger)
          /\ Listed(list, done, S, table)
      BY <1>8, <1>11, <1>12, <2>5, <2>6
    <3>2. (\A y \in done : NotAfter(y, x)) /\ NotAfter(x, x) BY <1>2, <2>6
    <3>3. t \in 0 .. Len(larger) - 1 /\ larger[t + 1] = MemberAt(x).type /\ e = PathmapEntry(x[1] - 1, t)
      BY <1>2, <1>4, <1>9, <1>10, <2>5
    <3>. QED BY <2>4, <3>1, <3>2, <3>3, ListedMore
  <2>. QED BY <1>2, <2>3, <2>5, <2>6, <2>7
<1>13. Listed(new.files, Upto(a, i), Path, new.types)
  <2>1. Path \in SUBSET (Path \cup Pattern) OBVIOUS
  <2>. QED BY <1>6, <1>9, <1>10, <1>11, <1>12, <2>1
<1>14. Listed(new.regexps, Upto(a, i), Pattern, new.types)
  <2>1. Pattern \in SUBSET (Path \cup Pattern) OBVIOUS
  <2>. QED BY <1>6, <1>9, <1>10, <1>11, <1>12, <2>1
<1>. QED BY <1>8, <1>13, <1>14 DEF PmHas

InsertedBy(pm, a, members, h) ==
  /\ InsertMembers(pm, a, members) = h[Len(members)] /\ h[0] = pm
  /\ \A i \in 1 .. Len(members) : h[i] = InsertMember(h[i - 1], a, members[i])

(* pathmap_insert() inserts the members one at a time, into the maps with  *)
(* the members before.                                                     *)
LEMMA InsertUnrolled ==
  ASSUME NEW pm \in Maps, NEW a \in Nat, NEW members, members \in Seq(Range(members)),
         \A i \in DOMAIN members : /\ members[i].type \in TypesOf(apps)
                                   /\ members[i].paths \in Seq(Path \cup Pattern)
  PROVE  \E h : InsertedBy(pm, a, members, h)
<1> DEFINE n == Len(members)
           Iter(f) == f = [D \in SUBSET (1 .. n) |->
                             IF D = {} THEN pm
                             ELSE InsertMember(f[D \ {Max(D)}], a, members[Max(D)])]
           insert == [i \in 1 .. n |-> [acc \in Maps |-> InsertMember(acc, a, members[i])]]
<1>1. n \in Nat /\ DOMAIN members = 1 .. n
  BY LenProperties
<1>2. insert \in [1 .. n -> [Maps -> Maps]]
  <2>1. ASSUME NEW acc \in Maps, NEW i \in 1 .. n PROVE InsertMember(acc, a, members[i]) \in Maps
    <3>1. PICK member : member = members[i] OBVIOUS
    <3>2. member.type \in TypesOf(apps) /\ member.paths \in Seq(Path \cup Pattern) BY <1>1, <3>1
    <3>3. PmTyped(acc) BY DEF PmTyped
    <3>4. OneMore(acc, a, member, InsertMember(acc, a, member)) BY <3>2, <3>3, InsertTyped
    <3>. QED BY <3>1, <3>4 DEF OneMore, PmTyped
  <2> HIDE DEF n
  <2>. QED BY <1>1, <2>1
<1>3. PICK f \in [SUBSET (1 .. n) -> Maps] : FoldedBy(n, pm, insert, f)
  <2> HIDE DEF insert, n
  <2>. QED BY <1>1, <1>2, FoldExists
<1>4. Iter(f)
  <2>1. ASSUME NEW D \in SUBSET (1 .. n), D # {}
        PROVE  f[D] = InsertMember(f[D \ {Max(D)}], a, members[Max(D)])
    <3>1. Max(D) \in 1 .. n /\ f[D \ {Max(D)}] \in Maps
      BY <1>1, <2>1, MaxInSet
    <3>2. f[D] = insert[Max(D)][f[D \ {Max(D)}]]
      BY <1>3, <2>1 DEF FoldedBy
    <3>. QED BY <3>1, <3>2
  <2>2. f[{}] = pm
    BY <1>3 DEF FoldedBy
  <2>. QED BY <2>1, <2>2
<1> DEFINE it == CHOOSE g : Iter(g)
           h == [i \in 0 .. n |-> it[1 .. i]]
<1>5. InsertMembers(pm, a, members) = it[1 .. n]
  BY <1>1, Zenon DEF InsertMembers, FoldLeft, MapThenFoldSet
<1>6. it = [D \in SUBSET (1 .. n) |->
              IF D = {} THEN pm ELSE InsertMember(it[D \ {Max(D)}], a, members[Max(D)])]
  BY <1>4, Zenon
<1> HIDE DEF it, n
<1>7. h[n] = InsertMembers(pm, a, members) BY <1>1, <1>5
<1>8. ASSUME NEW i \in 1 .. n PROVE h[i] = InsertMember(h[i - 1], a, members[i])
  <2>1. it[1 .. i] = InsertMember(it[1 .. (i - 1)], a, members[i])
    <3>1. /\ 1 .. i \in SUBSET (1 .. n) /\ 1 .. i # {} /\ Max(1 .. i) = i
          /\ (1 .. i) \ {i} = 1 .. (i - 1)
      BY <1>1, FirstPlaces
    <3>. QED BY <1>6, <3>1
  <2>2. i \in 0 .. n /\ i - 1 \in 0 .. n BY <1>1
  <2>. QED BY <2>1, <2>2
<1>9. h[0] = pm
  <2>1. 1 .. 0 = {} /\ {} \in SUBSET (1 .. n) /\ 0 \in 0 .. n BY <1>1
  <2>. QED BY <1>6, <2>1
<1>10. InsertedBy(pm, a, members, h) BY <1>7, <1>8, <1>9 DEF n, InsertedBy
<1>. QED BY <1>10

(* The members of an application are all that are between the first and    *)
(* the next one's.                                                         *)
LEMMA UptoAll ==
  ASSUME apps \in Apps, NEW a \in DOMAIN apps
  PROVE  Upto(a, Len(apps[a].fileTypes)) = Upto(a + 1, 0)
<1>1. PICK n \in Nat : n = Len(apps[a].fileTypes) /\ DOMAIN apps[a].fileTypes = 1 .. n
  BY ManifestData
<1>2. a \in Nat
  <2>1. DOMAIN apps = 1 .. Len(apps) BY ManifestData
  <2>. QED BY <2>1
<1>3. ASSUME NEW y \in Members
      PROVE  y[1] < a \/ (y[1] = a /\ y[2] <= n) <=> y[1] < a + 1 \/ (y[1] = a + 1 /\ y[2] <= 0)
  <2>1. y[1] \in Nat /\ y[2] \in Nat \ {0} BY ManifestData
  <2>2. y[1] = a => y[2] \in 1 .. n BY <1>1, MembersAre
  <2>. QED BY <1>2, <2>1, <2>2
<1>. QED BY <1>1, <1>3 DEF Upto

(* After pathmap_insert(), the maps have the application's members too.    *)
LEMMA AppInserted ==
  ASSUME apps \in Apps, NEW a \in DOMAIN apps, NEW pm, PmHas(pm, Upto(a, 0))
  PROVE  PmHas(InsertMembers(pm, a - 1, apps[a].fileTypes), Upto(a + 1, 0))
<1>1. PICK members : members = apps[a].fileTypes OBVIOUS
<1>2. PICK n \in Nat : n = Len(members) /\ DOMAIN members = 1 .. n BY <1>1, ManifestData
<1>3. a - 1 \in Nat
  <2>1. DOMAIN apps = 1 .. Len(apps) /\ Len(apps) \in Nat BY ManifestData
  <2>. QED BY <2>1
<1>4. \A i \in DOMAIN members : /\ members[i].type \in TypesOf(apps)
                                /\ members[i].paths \in Seq(Path \cup Pattern)
  <2>1. ASSUME NEW i \in DOMAIN members
        PROVE  /\ members[i].type \in TypesOf(apps) /\ members[i].paths \in Seq(Path \cup Pattern)
    <3>1. PICK x : x = <<a, i>> OBVIOUS
    <3>2. x \in Members /\ x[1] = a /\ x[2] = i BY <1>1, <3>1, MembersAre
    <3>3. MemberAt(x) = members[i] BY <1>1, <3>2 DEF MemberAt
    <3>. QED BY <3>2, <3>3, ManifestData
  <2>. QED BY <2>1
<1>5. pm \in Maps /\ members \in Seq(Range(members)) BY <1>1, ManifestData DEF PmHas, PmTyped
<1>6. PICK h : InsertedBy(pm, a - 1, members, h) BY <1>3, <1>4, <1>5, InsertUnrolled
<1> DEFINE Good == {i \in Nat : i <= n => PmHas(h[i], Upto(a, i))}
<1>7. 0 \in Good BY <1>6 DEF InsertedBy
<1>8. ASSUME NEW i \in Good PROVE i + 1 \in Good
  <2>1. i + 1 \in Nat OBVIOUS
  <2>2. ASSUME i + 1 <= n PROVE PmHas(h[i + 1], Upto(a, i + 1))
    <3>1. PICK j \in 1 .. n : j = i + 1 /\ j - 1 = i BY <1>2, <2>2
    <3>2. PmHas(h[j - 1], Upto(a, j - 1)) BY <2>2, <3>1
    <3>3. PICK base, new : base = h[j - 1] /\ new = h[j] OBVIOUS
    <3>4. new = InsertMember(base, a - 1, apps[a].fileTypes[j])
      BY <1>1, <1>2, <1>6, <3>3 DEF InsertedBy
    <3>5. PmHas(new, Upto(a, j))
      <4>1. j \in DOMAIN apps[a].fileTypes /\ PmHas(base, Upto(a, j - 1)) BY <1>1, <1>2, <3>2, <3>3
      <4> HIDE DEF Good
      <4>. QED BY <3>4, <4>1, InsertOne
    <3>. QED BY <3>1, <3>3, <3>5
  <2>. QED BY <2>1, <2>2
<1>9. n \in Good
  <2>1. Good \in SUBSET Nat OBVIOUS
  <2> HIDE DEF Good
  <2>. QED BY <1>7, <1>8, <2>1, UpFromZero
<1>10. PmHas(h[n], Upto(a, n)) BY <1>9
<1>11. InsertMembers(pm, a - 1, members) = h[n] BY <1>2, <1>6 DEF InsertedBy
<1>12. Upto(a, n) = Upto(a + 1, 0) BY <1>1, <1>2, UptoAll
<1>. QED BY <1>1, <1>10, <1>11, <1>12

-----------------------------------------------------------------------------
(* The map and its answers.                                                *)

MapsNow == [types |-> types, files |-> fileMap, regexps |-> regexps]

(* The map has what the manifest says of the applications that are in it,  *)
(* in the manifest's order, and nothing is looked up before they all are.  *)
PmInv ==
  /\ apps \in Apps /\ mapped \in 0 .. Len(apps)
  /\ PmHas(MapsNow, Upto(mapped + 1, 0))
  /\ roots \in Seq({app.dir : app \in Range(apps)}) /\ Len(roots) = mapped
  /\ \A i \in 1 .. mapped : roots[i] = apps[i].dir
  /\ mode \in [Path -> Modes]
  /\ mapped < Len(apps) => answer = NoAnswer
  /\ FiletypeRight

(* What FiletypeRight says of an answer. *)
RightAnswer(ans) ==
  LET f   == ans.path
      st  == mode[f]
      got == [app |-> ans.app, type |-> ans.type]
  IN  /\ SaidOf({f}) # {} => got = Said(FirstSaid(SaidOf({f})))
      /\ SaidOf({f}) = {} /\ SaidOf(Matching(f)) # {} =>
           got = Said(FirstSaid(SaidOf(Matching(f))))
      /\ SaidOf({f}) = {} /\ SaidOf(Matching(f)) = {} =>
           /\ "x" \in st => ans.type \notin {"rw", "public"}
           /\ ans.type \in {"public", "public-ro"} => "or" \in st
           /\ ans.type = "public" => "ow" \in st
           /\ ans.type \in {"public", "rw"} => "gw" \in st
           /\ ans.type = "none" <=> st = {"none"}
           /\ ans.app >= 0 /\ DirOf[f] \in Range(roots) => apps[ans.app + 1].dir = DirOf[f]

LEMMA RightIs == FiletypeRight <=> (answer # NoAnswer => RightAnswer(answer))
<1>1. PICK f, ans : ans = answer /\ f = answer.path OBVIOUS
<1>2. PICK exact, glob : exact = SaidOf({f}) /\ glob = SaidOf(Matching(f)) OBVIOUS
<1>3. CASE exact # {} BY <1>1, <1>2, <1>3, Zenon DEF FiletypeRight, RightAnswer
<1>4. CASE exact = {} /\ glob # {} BY <1>1, <1>2, <1>4, Zenon DEF FiletypeRight, RightAnswer
<1>5. CASE exact = {} /\ glob = {} BY <1>1, <1>2, <1>5, Zenon DEF FiletypeRight, RightAnswer
<1>. QED BY <1>3, <1>4, <1>5

LEMMA RightNext == FiletypeRight' <=> (answer' # NoAnswer => RightAnswer(answer)')
<1>1. PICK f, ans : ans = answer' /\ f = ans.path OBVIOUS
<1>2. PICK exact, glob : exact = SaidOf({f})' /\ glob = SaidOf(Matching(f))' OBVIOUS
<1>3. CASE exact # {} BY <1>1, <1>2, <1>3, Zenon DEF FiletypeRight, RightAnswer
<1>4. CASE exact = {} /\ glob # {} BY <1>1, <1>2, <1>4, Zenon DEF FiletypeRight, RightAnswer
<1>5. CASE exact = {} /\ glob = {} BY <1>1, <1>2, <1>5, Zenon DEF FiletypeRight, RightAnswer
<1>. QED BY <1>3, <1>4, <1>5

(* The members are the same as long as the manifest is.                    *)
LEMMA SameMembers ==
  ASSUME UNCHANGED apps
  PROVE  /\ Members' = Members /\ \A x : MemberAt(x)' = MemberAt(x) /\ Said(x)' = Said(x)
         /\ \A names : SaidOf(names)' = SaidOf(names)
         /\ \A a, i : Upto(a, i)' = Upto(a, i)
<1>1. Members' = Members BY DEF Members
<1>2. \A x : MemberAt(x)' = MemberAt(x) /\ Said(x)' = Said(x) BY DEF MemberAt, Said
<1>3. \A names : SaidOf(names)' = SaidOf(names) BY <1>1, <1>2 DEF SaidOf
<1>4. \A a, i : Upto(a, i)' = Upto(a, i) BY <1>1 DEF Upto
<1>. QED BY <1>1, <1>2, <1>3, <1>4

LEMMA RightStill ==
  ASSUME UNCHANGED <<apps, mode, roots>>, NEW ans, RightAnswer(ans)
  PROVE  RightAnswer(ans)'
<1>1. PICK f : f = ans.path OBVIOUS
<1>2. /\ SaidOf({f})' = SaidOf({f}) /\ SaidOf(Matching(f))' = SaidOf(Matching(f))
      /\ \A x : Said(x)' = Said(x)
  BY SameMembers
<1>3. PICK exact, glob : exact = SaidOf({f}) /\ glob = SaidOf(Matching(f)) OBVIOUS
<1>4. exact = SaidOf({f})' /\ glob = SaidOf(Matching(f))' BY <1>2, <1>3
<1>5. Said(FirstSaid(exact))' = Said(FirstSaid(exact)) /\ Said(FirstSaid(glob))' = Said(FirstSaid(glob))
  BY <1>2
<1>. QED BY <1>1, <1>3, <1>4, <1>5, Zenon DEF RightAnswer

LEMMA HasStill ==
  ASSUME UNCHANGED apps, NEW pm, NEW done, PmHas(pm, done)
  PROVE  PmHas(pm, done)'
<1>1. PmTyped(pm)' BY DEF PmHas, PmTyped, Maps
<1>2. ASSUME NEW list, NEW S, NEW table, Listed(list, done, S, table)
      PROVE  Listed(list, done, S, table)'
  <2>1. PICK g : Places(list, g, done, S, table) BY <1>2 DEF Listed
  <2>2. \A x : MemberAt(x)' = MemberAt(x) BY SameMembers
  <2>3. \A e, x : StandsFor(e, x, S, table)' <=> StandsFor(e, x, S, table)
    BY <2>2 DEF StandsFor
  <2>4. Places(list, g, done, S, table)' BY <2>1, <2>2, <2>3 DEF Places
  <2>. QED BY <2>4 DEF Listed
<1>. QED BY <1>1, <1>2 DEF PmHas

(* When all applications are in the map, it has all members.               *)
LEMMA AllMembers ==
  ASSUME apps \in Apps
  PROVE  Upto(Len(apps) + 1, 0) = Members /\ Upto(1, 0) = {}
<1>1. PICK n \in Nat : n = Len(apps) /\ DOMAIN apps = 1 .. n BY ManifestData
<1>2. \A x \in Members : x[1] \in 1 .. n /\ x[1] \in Nat \ {0} /\ x[2] \in Nat \ {0}
  BY <1>1, ManifestData, MembersAre
<1>3. \A x \in Members : x[1] < n + 1 /\ ~(x[1] < 1) /\ ~(x[2] <= 0) BY <1>1, <1>2
<1>. QED BY <1>1, <1>3 DEF Upto

(* There are numbers for all types.                                        *)
LEMMA TypesFit ==
  ASSUME FewTypes, apps \in Apps, NEW table \in Seq(TypesOf(apps)), IsInjective(table)
  PROVE  Len(table) \in Nat /\ Len(table) <= Shift
<1>1. PICK T : T = TypesOf(apps) /\ IsFiniteSet(T) /\ Cardinality(T) <= Shift BY DEF FewTypes
<1>2. IsFiniteSet(Range(table)) /\ Cardinality(Range(table)) = Len(table) BY LengthOf
<1>3. Range(table) \subseteq T BY <1>1, ElementOfSeq, LenProperties DEF Range
<1>4. Cardinality(Range(table)) <= Cardinality(T) BY <1>1, <1>3, FS_Subset
<1>5. Cardinality(T) \in Nat /\ Len(table) \in Nat /\ Shift \in Nat
  BY <1>1, FS_CardinalityType, LenProperties, PathMapAssumption
<1>. QED BY <1>1, <1>2, <1>4, <1>5

(* The answer for what an entry says.                                      *)
LEMMA EntryAnswer ==
  ASSUME FewTypes, apps \in Apps, NEW table \in Seq(TypesOf(apps)), IsInjective(table),
         NEW f, NEW a \in Nat, NEW t \in 0 .. Len(table) - 1,
         NEW id, id = PathmapEntry(a, t)
  PROVE  Answer(f, id, table) = [path |-> f, app |-> a, type |-> table[t + 1]]
<1>1. Len(table) \in Nat /\ Len(table) <= Shift BY TypesFit
<1>2. t \in 0 .. Shift - 1
  <2>1. PICK s \in Nat : s = Shift BY PathMapAssumption
  <2>. QED BY <1>1, <2>1
<1>3. PathmapApp(id) = a /\ PathmapType(id) = t BY <1>2, EntryParts
<1>. QED BY <1>3 DEF Answer

Finds(list, table, names, f) ==
  /\ SaidOf(names) = {} => FirstEntry(list, names) = -1
  /\ SaidOf(names) # {} =>
       \E ans : /\ FirstEntry(list, names) # -1
                /\ ans = Answer(f, FirstEntry(list, names), table)
                /\ ans.path = f
                /\ [app |-> ans.app, type |-> ans.type] = Said(FirstSaid(SaidOf(names)))

(* A lookup in one of the lists finds what the manifest says first, with   *)
(* its number, or nothing if it says nothing.                              *)
LEMMA LookedUp ==
  ASSUME FewTypes, apps \in Apps, NEW S, NEW list \in Seq(Entry), NEW table \in Seq(TypesOf(apps)),
         IsInjective(table), Listed(list, Members, S, table), NEW names \in SUBSET S, NEW f
  PROVE  Finds(list, table, names, f)
<1>1. Len(list) \in Nat /\ DOMAIN list = 1 .. Len(list) BY LenProperties
<1>2. SaidOf(names) = {} => FirstEntry(list, names) = -1 BY <1>1, FirstListed
<1>3. ASSUME SaidOf(names) # {}
      PROVE  \E ans : /\ FirstEntry(list, names) # -1
                      /\ ans = Answer(f, FirstEntry(list, names), table)
                      /\ ans.path = f
                      /\ [app |-> ans.app, type |-> ans.type] = Said(FirstSaid(SaidOf(names)))
  <2>1. PICK x : x = FirstSaid(SaidOf(names)) OBVIOUS
  <2>2. x \in SaidOf(names) BY <1>1, <1>3, <2>1, FirstListed
  <2>3. PICK t \in 0 .. Len(table) - 1 :
          FirstEntry(list, names) = PathmapEntry(x[1] - 1, t) /\ table[t + 1] = MemberAt(x).type
    BY <1>1, <1>3, <2>1, FirstListed
  <2>4. x \in Members BY <2>2 DEF SaidOf
  <2>5. PICK a \in Nat : a = x[1] - 1
    <3>1. x[1] \in Nat \ {0} BY <2>4, ManifestData
    <3>. QED BY <3>1
  <2>6. PICK id : id = FirstEntry(list, names) /\ id = PathmapEntry(a, t) BY <2>3, <2>5
  <2>7. id \in Nat
    <3>1. Len(table) \in Nat /\ Len(table) <= Shift BY TypesFit
    <3>2. PICK s \in Nat : s = Shift BY PathMapAssumption
    <3>3. t \in 0 .. Shift - 1 BY <3>1, <3>2
    <3>. QED BY <2>6, <3>3, EntryParts
  <2>8. PICK ans : ans = Answer(f, id, table) OBVIOUS
  <2>9. ans = [path |-> f, app |-> a, type |-> table[t + 1]] BY <2>6, <2>8, EntryAnswer
  <2>10. Said(x) = [app |-> a, type |-> table[t + 1]] BY <2>3, <2>5 DEF Said
  <2>11. ans.path = f /\ ans.app = a /\ ans.type = table[t + 1] BY <2>9
  <2>12. id # -1 BY <2>7
  <2>. QED BY <2>1, <2>6, <2>8, <2>10, <2>11, <2>12
<1>. QED BY <1>2, <1>3 DEF Finds

(* The type of a file the manifest does not name is one its permissions    *)
(* allow.                                                                  *)
LEMMA DefaultRight ==
  ASSUME NEW st \in SUBSET Permission
  PROVE  LET type == DefaultType(st) IN
         /\ type \in Defaults /\ type # "none" /\ st # {"none"}
         /\ "x" \in st => type \notin {"rw", "public"}
         /\ type \in {"public", "public-ro"} => "or" \in st
         /\ type = "public" => "ow" \in st
         /\ type \in {"public", "rw"} => "gw" \in st
BY DEF DefaultType, Defaults, Permission

LEMMA RootRight ==
  ASSUME PmInv, NEW f
  PROVE  /\ RootApp(f) \in Nat
         /\ DirOf[f] \in Range(roots) => apps[RootApp(f) + 1].dir = DirOf[f]
<1>1. PICK in : in = {i \in DOMAIN roots : roots[i] = DirOf[f]} OBVIOUS
<1>2. DOMAIN roots = 1 .. mapped /\ \A i \in 1 .. mapped : roots[i] = apps[i].dir
  BY LenProperties DEF PmInv
<1>3. CASE in = {} BY <1>1, <1>3 DEF RootApp, Range
<1>4. CASE in # {}
  <2>1. in \in SUBSET Nat BY <1>1, <1>2
  <2>2. PICK m \in in : m = Min(in) BY <1>4, <2>1, MinInSet
  <2>3. m \in 1 .. mapped /\ roots[m] = DirOf[f] BY <1>1, <1>2, <2>2
  <2>4. RootApp(f) = m - 1 BY <1>1, <1>4, <2>2 DEF RootApp
  <2>. QED BY <1>2, <2>3, <2>4
<1>. QED BY <1>3, <1>4

LEMMA PmInvInit == PmInit => PmInv
<1> SUFFICES ASSUME PmInit PROVE PmInv OBVIOUS
<1>1. apps \in Apps /\ mapped = 0 /\ Len(apps) \in Nat BY ManifestData DEF PmInit
<1>2. PmTyped(MapsNow)
  <2>1. <<>> \in Seq(TypesOf(apps)) /\ <<>> \in Seq(Entry) OBVIOUS
  <2>2. PICK t, f, r : t = types /\ f = fileMap /\ r = regexps OBVIOUS
  <2>3. t \in Seq(TypesOf(apps)) /\ f \in Seq(Entry) /\ r \in Seq(Entry) BY <2>1, <2>2 DEF PmInit
  <2>4. IsInjective(t) BY <2>2 DEF PmInit, IsInjective
  <2>5. [types |-> t, files |-> f, regexps |-> r] \in Maps BY <2>3, <2>4 DEF Maps
  <2>. QED BY <2>2, <2>5 DEF MapsNow, PmTyped
<1>3. ASSUME NEW S, NEW table PROVE Listed(<<>>, {}, S, table)
  <2>1. Places(<<>>, [x \in {} |-> x], {}, S, table) BY DEF Places
  <2>. QED BY <2>1 DEF Listed
<1>4. MapsNow.files = <<>> /\ MapsNow.regexps = <<>> BY DEF MapsNow, PmInit
<1>5. Upto(1, 0) = {} BY <1>1, AllMembers
<1>6. PmHas(MapsNow, Upto(mapped + 1, 0))
  <2>1. mapped + 1 = 1 BY <1>1
  <2>. QED BY <1>2, <1>3, <1>4, <1>5, <2>1 DEF PmHas
<1>7. roots \in Seq({app.dir : app \in Range(apps)}) /\ Len(roots) = mapped
  <2>1. PICK D : D = {app.dir : app \in Range(apps)} OBVIOUS
  <2>2. <<>> \in Seq(D) /\ Len(<<>>) = 0 OBVIOUS
  <2>. QED BY <1>1, <2>1, <2>2 DEF PmInit
<1>8. mode \in [Path -> Modes]
  <2>1. {"none"} \in Modes BY DEF Modes
  <2>. QED BY <2>1 DEF PmInit
<1>9. FiletypeRight /\ answer = NoAnswer BY DEF PmInit, FiletypeRight
<1>. QED BY <1>1, <1>6, <1>7, <1>8, <1>9 DEF PmInv

(* FiletypeRight is about the manifest, the roots, the modes and answer.   *)
LEMMA FiletypeStill ==
  ASSUME PmInv, UNCHANGED <<apps, mode, roots, answer>>
  PROVE  FiletypeRight'
<1>1. PICK ans : ans = answer OBVIOUS
<1>2. answer' = ans /\ (ans # NoAnswer => RightAnswer(ans)) BY <1>1, RightIs DEF PmInv
<1>3. ans # NoAnswer => RightAnswer(ans)' BY <1>2, RightStill
<1>4. FiletypeRight' <=> (answer' # NoAnswer => RightAnswer(answer)') BY RightNext
<1>. QED BY <1>1, <1>2, <1>3, <1>4

LEMMA InsertKeeps == ASSUME PmInv, PathmapInsert PROVE PmInv'
<1>1. apps' = apps /\ mode' = mode /\ answer' = answer /\ mapped' = mapped + 1 /\ mapped < Len(apps)
      /\ apps \in Apps
  BY DEF PathmapInsert, PmInv
<1>2. Len(apps) \in Nat /\ DOMAIN apps = 1 .. Len(apps) /\ mapped \in Nat
  BY <1>1, ManifestData DEF PmInv
<1>3. PICK a \in DOMAIN apps : a = mapped + 1 /\ a - 1 = mapped /\ mapped' + 1 = a + 1
  BY <1>1, <1>2
<1>4. PICK pm : pm = InsertMembers(MapsNow, a - 1, apps[a].fileTypes) OBVIOUS
<1>5. roots' = Append(roots, apps[a].dir) /\ types' = pm.types /\ fileMap' = pm.files
      /\ regexps' = pm.regexps
  BY <1>3, <1>4 DEF PathmapInsert, MapsNow
<1>6. PmHas(pm, Upto(a + 1, 0))
  <2>1. PmHas(MapsNow, Upto(a, 0)) BY <1>3 DEF PmInv
  <2>. QED BY <1>1, <1>4, <2>1, AppInserted
<1>7. pm = MapsNow'
  <2>1. pm \in [types : Seq(TypesOf(apps)), files : Seq(Entry), regexps : Seq(Entry)]
    BY <1>6 DEF PmHas, PmTyped, Maps
  <2>2. pm = [types |-> pm.types, files |-> pm.files, regexps |-> pm.regexps] BY <2>1
  <2>. QED BY <1>5, <2>2, Zenon DEF MapsNow
<1>8. PmHas(MapsNow, Upto(mapped + 1, 0))'
  <2>1. PICK done : done = Upto(a + 1, 0) OBVIOUS
  <2>2. PmHas(pm, done)' BY <1>1, <1>6, <2>1, HasStill
  <2>3. Upto(mapped + 1, 0)' = done BY <1>1, <1>3, <2>1, SameMembers DEF Upto
  <2>. QED BY <1>7, <2>2, <2>3 DEF PmHas, PmTyped
<1>9. /\ roots' \in Seq({app.dir : app \in Range(apps)}) /\ Len(roots') = mapped'
      /\ \A i \in 1 .. mapped' : roots'[i] = apps'[i].dir
  <2>1. PICK D : D = {app.dir : app \in Range(apps)} OBVIOUS
  <2>2. PICK dir \in D : dir = apps[a].dir BY <2>1 DEF Range
  <2>3. roots \in Seq(D) /\ Len(roots) = mapped /\ \A i \in 1 .. mapped : roots[i] = apps[i].dir
    BY <2>1 DEF PmInv
  <2>4. roots' = Append(roots, dir) BY <1>5, <2>2
  <2>5. roots' \in Seq(D) /\ Len(roots') = mapped + 1
        /\ \A i \in 1 .. mapped + 1 : roots'[i] = IF i <= mapped THEN roots[i] ELSE dir
    BY <1>2, <2>3, <2>4, AppendProperties
  <2>6. ASSUME NEW i \in 1 .. mapped' PROVE roots'[i] = apps'[i].dir
    <3>1. i \in 1 .. mapped + 1 BY <1>1
    <3>2. CASE i <= mapped BY <1>1, <1>2, <2>3, <2>5, <3>1, <3>2
    <3>3. CASE ~(i <= mapped)
      <4>1. i = a BY <1>2, <1>3, <3>1, <3>3
      <4>. QED BY <1>1, <2>2, <2>5, <3>1, <3>3, <4>1
    <3>. QED BY <3>2, <3>3
  <2>. QED BY <1>1, <2>1, <2>5, <2>6
<1>10. FiletypeRight'
  <2>1. answer = NoAnswer BY <1>1 DEF PmInv
  <2>. QED BY <1>1, <2>1 DEF FiletypeRight
<1>11. mapped' \in 0 .. Len(apps') /\ (mapped' < Len(apps') => answer' = NoAnswer)
  BY <1>1, <1>2 DEF PmInv
<1>12. mode' \in [Path -> Modes] BY <1>1 DEF PmInv
<1>. QED BY <1>1, <1>8, <1>9, <1>10, <1>11, <1>12 DEF PmInv

LEMMA ChmodKeeps ==
  ASSUME PmInv, NEW f \in Path, NEW st \in Modes, Chmod(f, st)
  PROVE  PmInv'
<1>1. /\ apps' = apps /\ roots' = roots /\ mapped' = mapped /\ mapped = Len(apps)
      /\ types' = types /\ fileMap' = fileMap /\ regexps' = regexps
      /\ answer' = NoAnswer /\ mode' = [mode EXCEPT ![f] = st]
  BY DEF Chmod
<1>2. PICK pm, done : pm = MapsNow /\ done = Upto(mapped + 1, 0) OBVIOUS
<1>3. MapsNow' = pm BY <1>1, <1>2 DEF MapsNow
<1>4. Upto(mapped + 1, 0)' = done BY <1>1, <1>2, SameMembers DEF Upto
<1>5. PmHas(pm, done) BY <1>2 DEF PmInv
<1>6. PmHas(pm, done)' BY <1>1, <1>5, HasStill
<1>7. PmHas(MapsNow, Upto(mapped + 1, 0))' BY <1>3, <1>4, <1>6 DEF PmHas, PmTyped
<1>8. mode' \in [Path -> Modes] BY <1>1 DEF PmInv
<1>9. FiletypeRight' BY <1>1 DEF FiletypeRight
<1>. QED BY <1>1, <1>7, <1>8, <1>9 DEF PmInv

LEMMA StutterKeeps == ASSUME PmInv, UNCHANGED pmVars PROVE PmInv'
<1>1. /\ apps' = apps /\ roots' = roots /\ mapped' = mapped /\ answer' = answer /\ mode' = mode
      /\ types' = types /\ fileMap' = fileMap /\ regexps' = regexps
  BY DEF pmVars
<1>2. PICK pm, done : pm = MapsNow /\ done = Upto(mapped + 1, 0) OBVIOUS
<1>3. MapsNow' = pm BY <1>1, <1>2 DEF MapsNow
<1>4. Upto(mapped + 1, 0)' = done BY <1>1, <1>2, SameMembers DEF Upto
<1>5. PmHas(pm, done) BY <1>2 DEF PmInv
<1>6. PmHas(pm, done)' BY <1>1, <1>5, HasStill
<1>7. PmHas(MapsNow, Upto(mapped + 1, 0))' BY <1>3, <1>4, <1>6 DEF PmHas, PmTyped
<1>8. FiletypeRight' BY <1>1, FiletypeStill
<1>. QED BY <1>1, <1>7, <1>8 DEF PmInv

(* The type of a file in the manifest: by the very path, or by a pattern,  *)
(* or by its permissions.                                                  *)
LEMMA AnswerNow ==
  ASSUME FewTypes, PmInv, NEW f \in Path, IotManifestFiletype(f)
  PROVE  RightAnswer(answer')
<1>1. apps \in Apps /\ mapped = Len(apps) BY DEF PmInv, IotManifestFiletype
<1>2. /\ types \in Seq(TypesOf(apps)) /\ IsInjective(types)
      /\ fileMap \in Seq(Entry) /\ regexps \in Seq(Entry)
      /\ Listed(fileMap, Members, Path, types) /\ Listed(regexps, Members, Pattern, types)
  <2>1. PmHas(MapsNow, Members) BY <1>1, AllMembers DEF PmInv
  <2>2. PICK t, l, r : t = types /\ l = fileMap /\ r = regexps OBVIOUS
  <2>3. MapsNow.types = t /\ MapsNow.files = l /\ MapsNow.regexps = r BY <2>2 DEF MapsNow
  <2>. QED BY <2>1, <2>2, <2>3 DEF PmHas, PmTyped, Maps
<1>3. PICK exact, glob : exact = SaidOf({f}) /\ glob = SaidOf(Matching(f)) OBVIOUS
<1>4. {f} \in SUBSET Path /\ Matching(f) \in SUBSET Pattern BY DEF Matching
<1>10. Finds(fileMap, types, {f}, f) BY <1>1, <1>2, <1>4, LookedUp
<1>11. Finds(regexps, types, Matching(f), f) BY <1>1, <1>2, <1>4, LookedUp
<1>5. exact = {} => PathmapFileLookup(f) = -1 BY <1>3, <1>10 DEF Finds, PathmapFileLookup
<1>6. glob = {} => PathmapRegexLookup(f) = -1 BY <1>3, <1>11 DEF Finds, PathmapRegexLookup
<1>7. CASE exact # {}
  <2>1. PICK ans : /\ PathmapFileLookup(f) # -1
                   /\ ans = Answer(f, PathmapFileLookup(f), types) /\ ans.path = f
                   /\ [app |-> ans.app, type |-> ans.type] = Said(FirstSaid(exact))
    BY <1>3, <1>7, <1>10 DEF Finds, PathmapFileLookup
  <2>2. Explicit(f) = PathmapFileLookup(f) BY <2>1 DEF Explicit
  <2>3. answer' = ans BY <2>1, <2>2 DEF IotManifestFiletype
  <2>. QED BY <1>3, <1>7, <2>1, <2>3, Zenon DEF RightAnswer
<1>8. CASE exact = {} /\ glob # {}
  <2>1. PICK ans : /\ PathmapRegexLookup(f) # -1
                   /\ ans = Answer(f, PathmapRegexLookup(f), types) /\ ans.path = f
                   /\ [app |-> ans.app, type |-> ans.type] = Said(FirstSaid(glob))
    BY <1>3, <1>8, <1>11 DEF Finds, PathmapRegexLookup
  <2>2. Explicit(f) = PathmapRegexLookup(f) BY <1>5, <1>8 DEF Explicit
  <2>3. answer' = ans BY <2>1, <2>2 DEF IotManifestFiletype
  <2>. QED BY <1>3, <1>8, <2>1, <2>3, Zenon DEF RightAnswer
<1>9. CASE exact = {} /\ glob = {}
  <2>1. Explicit(f) = -1 BY <1>5, <1>6, <1>9 DEF Explicit
  <2>2. PICK st : st = mode[f] /\ st \in Modes BY DEF PmInv
  <2>3. CASE Missing(f)
    <3>1. PICK ans : ans = answer' /\ ans = [path |-> f, app |-> -1, type |-> "none"]
      BY <2>1, <2>3 DEF IotManifestFiletype
    <3>2. ans.path = f /\ ans.app = -1 /\ ans.type = "none" BY <3>1
    <3>3. st = {"none"} BY <2>2, <2>3 DEF Missing
    <3>4. /\ "x" \notin st /\ ~(ans.app >= 0)
          /\ ans.type \notin {"public", "public-ro"} /\ ans.type # "public"
          /\ ans.type \notin {"public", "rw"}
      BY <3>2, <3>3
    <3>. QED BY <1>3, <1>9, <2>2, <3>1, <3>2, <3>3, <3>4, Zenon DEF RightAnswer
  <2>4. CASE ~Missing(f)
    <3>0. st # {"none"} BY <2>2, <2>4 DEF Missing
    <3>1. st \in SUBSET Permission BY <2>2, <3>0 DEF Modes
    <3>2. PICK type : type = DefaultType(st) OBVIOUS
    <3>3. /\ type \in Defaults /\ type # "none" /\ st # {"none"}
          /\ "x" \in st => type \notin {"rw", "public"}
          /\ type \in {"public", "public-ro"} => "or" \in st
          /\ type = "public" => "ow" \in st
          /\ type \in {"public", "rw"} => "gw" \in st
      BY <3>1, <3>2, DefaultRight
    <3>4. PICK ins : ins = PathmapTypeInsert(types, type) OBVIOUS
    <3>5. type \in TypesOf(apps) BY <3>3 DEF TypesOf
    <3>6. /\ ins[1] \in Seq(TypesOf(apps)) /\ IsInjective(ins[1])
          /\ ins[2] \in 0 .. Len(ins[1]) - 1 /\ ins[1][ins[2] + 1] = type
      BY <1>2, <3>4, <3>5, TypeInserted
    <3>7. PICK a \in Nat : a = RootApp(f) BY RootRight
    <3>8. PICK id : id = PathmapEntry(a, ins[2]) OBVIOUS
    <3>9. PICK ans : ans = answer' /\ ans = Answer(f, id, ins[1])
      BY <2>1, <2>2, <2>4, <3>2, <3>4, <3>7, <3>8 DEF IotManifestFiletype
    <3>10. ans = [path |-> f, app |-> a, type |-> type] BY <1>1, <3>6, <3>8, <3>9, EntryAnswer
    <3>11. ans.path = f /\ ans.app = a /\ ans.type = type BY <3>10
    <3>12. ans.app >= 0 /\ DirOf[f] \in Range(roots) => apps[ans.app + 1].dir = DirOf[f]
      BY <3>7, <3>11, RootRight
    <3>13. ans.type = "none" <=> st = {"none"} BY <3>3, <3>11
    <3>. QED BY <1>3, <1>9, <2>2, <3>3, <3>9, <3>11, <3>12, <3>13, Zenon DEF RightAnswer
  <2>. QED BY <2>3, <2>4
<1>. QED BY <1>7, <1>8, <1>9

LEMMA FiletypeKeeps ==
  ASSUME FewTypes, PmInv, NEW f \in Path, IotManifestFiletype(f)
  PROVE  PmInv'
<1>1. /\ apps' = apps /\ roots' = roots /\ mapped' = mapped /\ mode' = mode
      /\ fileMap' = fileMap /\ regexps' = regexps /\ mapped = Len(apps) /\ apps \in Apps
  BY DEF IotManifestFiletype, PmInv
<1>2. PICK t, l, r, n : t = types /\ l = fileMap /\ r = regexps /\ n = types' OBVIOUS
<1>3. PICK done : done = Upto(mapped + 1, 0) OBVIOUS
<1>4. /\ t \in Seq(TypesOf(apps)) /\ IsInjective(t) /\ l \in Seq(Entry) /\ r \in Seq(Entry)
      /\ Listed(l, done, Path, t) /\ Listed(r, done, Pattern, t)
  <2>1. PmHas(MapsNow, done) BY <1>3 DEF PmInv
  <2>2. MapsNow.types = t /\ MapsNow.files = l /\ MapsNow.regexps = r BY <1>2 DEF MapsNow
  <2>. QED BY <2>1, <2>2 DEF PmHas, PmTyped, Maps
<1>5. n \in Seq(TypesOf(apps)) /\ IsInjective(n) /\ Grows(t, n)
  <2>1. CASE types' = types
    <3>1. n = t /\ Len(t) \in Nat BY <1>2, <1>4, <2>1, LenProperties
    <3>. QED BY <1>4, <3>1 DEF Grows
  <2>2. CASE ~Missing(f) /\ types' = PathmapTypeInsert(types, DefaultType(mode[f]))[1]
    <3>0. mode[f] # {"none"} /\ mode[f] \in Modes BY <2>2 DEF Missing, PmInv
    <3>1. mode[f] \in SUBSET Permission BY <3>0 DEF Modes
    <3>2. PICK type : type = DefaultType(mode[f]) OBVIOUS
    <3>3. type \in TypesOf(apps) BY <3>1, <3>2, DefaultRight DEF TypesOf
    <3>4. PICK ins : ins = PathmapTypeInsert(t, type) OBVIOUS
    <3>5. n = ins[1] BY <1>2, <2>2, <3>2, <3>4
    <3>. QED BY <1>4, <3>3, <3>4, <3>5, TypeInserted
  <2>. QED BY <2>1, <2>2 DEF IotManifestFiletype
<1>6. PICK pm : pm = [types |-> n, files |-> l, regexps |-> r] OBVIOUS
<1>7. MapsNow' = pm BY <1>1, <1>2, <1>6 DEF MapsNow
<1>8. pm.types = n /\ pm.files = l /\ pm.regexps = r BY <1>6
<1>9. PmTyped(pm) BY <1>4, <1>5, <1>6, <1>8 DEF PmTyped, Maps
<1>10. Len(t) \in Nat /\ Len(n) \in Nat BY <1>4, <1>5, LenProperties
<1>11. Listed(l, done, Path, n) BY <1>4, <1>5, <1>10, ListedStill
<1>12. Listed(r, done, Pattern, n) BY <1>4, <1>5, <1>10, ListedStill
<1>13. PmHas(pm, done) BY <1>8, <1>9, <1>11, <1>12 DEF PmHas
<1>14. PmHas(pm, done)' BY <1>1, <1>13, HasStill
<1>15. Upto(mapped + 1, 0)' = done BY <1>1, <1>3, SameMembers DEF Upto
<1>16. PmHas(MapsNow, Upto(mapped + 1, 0))' BY <1>7, <1>14, <1>15 DEF PmHas, PmTyped
<1>17. FiletypeRight'
  <2>1. PICK ans : ans = answer' OBVIOUS
  <2>2. RightAnswer(ans) BY <2>1, AnswerNow
  <2>3. RightAnswer(ans)' BY <1>1, <2>2, RightStill
  <2>. QED BY <2>1, <2>3, RightNext
<1>18. ~(mapped' < Len(apps'))
  <2>1. Len(apps) \in Nat BY <1>1, ManifestData
  <2>. QED BY <1>1, <2>1
<1>. QED BY <1>1, <1>16, <1>17, <1>18 DEF PmInv

LEMMA PmInvStep == ASSUME FewTypes, PmInv, [PmNext]_pmVars PROVE PmInv'
<1>1. CASE PathmapInsert BY <1>1, InsertKeeps
<1>2. ASSUME NEW f \in Path, IotManifestFiletype(f) PROVE PmInv' BY <1>2, FiletypeKeeps
<1>3. ASSUME NEW f \in Path, NEW st \in Modes, Chmod(f, st) PROVE PmInv'
  BY <1>3, ChmodKeeps
<1>4. CASE UNCHANGED pmVars BY <1>4, StutterKeeps
<1>. QED BY <1>1, <1>2, <1>3, <1>4 DEF PmNext

(* If the types of a manifest can be told apart by 16 bits, the answer for *)
(* a path is what iot_manifest_filetype() should say: the first thing the  *)
(* manifest says of it, the very path before patterns, or a type that the  *)
(* file's permissions allow, of the application it is in the directory of. *)
THEOREM FiletypeSafety == ASSUME FewTypes PROVE PmSpec => []FiletypeRight
<1>1. PmInv => FiletypeRight BY DEF PmInv
<1>2. PmInv /\ [PmNext]_pmVars => PmInv' BY PmInvStep
<1>. QED BY <1>1, <1>2, PmInvInit, PTL DEF PmSpec
=============================================================================
