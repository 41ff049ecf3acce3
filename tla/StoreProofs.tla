----------------------------- MODULE StoreProofs ----------------------------
(***************************************************************************)
(* What is proved of the containers of common/, for any keys, hash         *)
(* function, sizes and limits.                                             *)
(*                                                                         *)
(* The hash table: its parts agree, an iteration misses nothing and comes  *)
(* to nothing twice, and it implements the map of Multimap.  StoreInv is   *)
(* inductive whatever users do; an iteration's position is good, and what  *)
(* is ahead of it unvisited, as long as a table is not reset with entries  *)
(* in it and the entry a loop is at is not replaced, which findings show   *)
(* the code not to bear.                                                   *)
(*                                                                         *)
(* The object pool: PoolInv, that masks, caches and lists of the chunks    *)
(* agree with what is held, is inductive.  The mask: Holds(m, want), that  *)
(* its bits are the ones asked for and nothing is set outside its size.    *)
(*                                                                         *)
(* The allocator: MmInv, that its list and totals are those of the blocks  *)
(* held, is inductive when what is allocated at one place stays below the  *)
(* 4 GiB that a dump's sums count to.  The sums are over a set, and what a *)
(* sum is, is proved first.                                                *)
(***************************************************************************)
EXTENDS Stores, SeqFacts

-----------------------------------------------------------------------------
(* The invariants.                                                         *)

Home(e) == Hash[key[e]]

(* The values of the variables.                                            *)
TableTyped ==
  /\ key \in [Entry -> Key \cup {Nil}] /\ object \in [Entry -> Object \cup {Nil}]
  /\ chain \in [Bucket -> Seq(Entry)] /\ used \in Seq(Bucket)
  /\ nalloc \in 0 .. Limit /\ nchunk \in Nat /\ nentry \in Nat
  /\ mask \in [Chunk -> SUBSET Entry] /\ space \in Seq(Chunk)

(* Each entry is in the chain of its key's bucket, once, and each bucket   *)
(* with entries among the used ones.                                       *)
Chained ==
  /\ \A b \in Bucket :
       IsInjective(chain[b]) /\ Range(chain[b]) = {e \in Live : Home(e) = b}
  /\ IsInjective(used) /\ \A b \in Bucket : chain[b] # <<>> => b \in Range(used)

(* The masks and the count are those of the entries in use, which are in   *)
(* chunks that there are; a chunk with a free entry is on the space list.  *)
Counted ==
  /\ \A c \in Chunk : mask[c] = Live \cap InChunk(c)
  /\ Cardinality(Live) = nentry /\ Live \subseteq 1 .. nalloc
  /\ \A e \in (1 .. nalloc) \ Live : ChunkOf(e) \in Range(space)
  /\ nalloc = nchunk * PerChunk \/ nalloc = Limit

StoreInv == TableTyped /\ Chained /\ Counted

(* The position of an iteration is an entry of the table.                  *)
Placed ==
  /\ hung = FALSE
  /\ \A b \in Range(used) : chain[b] # <<>>
  /\ it \in [b : Bucket \cup {Nil}, e : Entry \cup {Nil}, d : {-1, 0, 1}]
  /\ IF it.b = Nil THEN it.e = Nil
     ELSE it.e \in Range(chain[it.b]) /\ it.d \in {-1, 1}
  /\ loop \in {"on", "off", "ended"} /\ (loop = "on" => it.d \in {-1, 1})

(* The order of an iteration: x is before y in a list in direction d, and  *)
(* an entry before another one in the table.                               *)
Toward(s, d, x, y) == IF d = 1 THEN Before(s, x, y) ELSE Before(s, y, x)

Beyond(x, d, y) ==
  \/ Toward(used, d, Home(x), Home(y))
  \/ Home(x) = Home(y) /\ Toward(chain[Home(x)], d, x, y)

Ahead(e) == it.b = Nil \/ Beyond(it.e, it.d, e)

(* What is ahead in a loop is unvisited, and what is behind it and was     *)
(* there from the start has been visited.                                  *)
Walked ==
  /\ stable \in SUBSET Live /\ visits \in [Entry -> {0, 1}]
  /\ \A e \in Entry \ Live : visits[e] = 0
  /\ loop = "on" => \A e \in Live : Ahead(e) => visits[e] = 0
  /\ loop = "on" => \A e \in stable : ~Ahead(e) => visits[e] = 1
  /\ loop = "ended" => \A e \in stable : visits[e] = 1

WalkInv == StoreInv /\ Placed /\ Walked

-----------------------------------------------------------------------------
(* Lists in both directions.                                               *)

(* The order of a list in direction d is a total one.                      *)
LEMMA TowardOrder ==
  ASSUME NEW S, NEW s \in Seq(S), IsInjective(s), NEW d \in {-1, 1}
  PROVE  /\ \A x, y : Toward(s, d, x, y) => x # y /\ x \in Range(s) /\ y \in Range(s)
         /\ \A x \in Range(s), y \in Range(s) : x = y \/ Toward(s, d, x, y) \/ Toward(s, d, y, x)
         /\ \A x, y : Toward(s, d, x, y) => ~Toward(s, d, y, x)
         /\ \A x, y, z : Toward(s, d, x, y) /\ Toward(s, d, y, z) => Toward(s, d, x, z)
         /\ \A x, y : Toward(s, d, x, y) <=> Toward(s, -d, y, x)
<1>1. (d = 1 /\ -d # 1) \/ (d # 1 /\ -d = 1)
  OBVIOUS
<1>. QED BY <1>1, BeforeOrder DEF Toward

(* Neighbour() is the next member in direction d, and Nil at the end.      *)
LEMMA NeighbourFacts ==
  ASSUME NEW S, NEW s \in Seq(S), Nil \notin S, IsInjective(s), NEW x \in Range(s), NEW d \in {-1, 1}
  PROVE  LET n == Neighbour(s, x, d)
         IN  /\ n = Nil => \A y : ~Toward(s, d, x, y)
             /\ n # Nil => /\ n \in Range(s) /\ Toward(s, d, x, n)
                           /\ \A y : Toward(s, d, x, y) => y = n \/ Toward(s, d, n, y)
<1> DEFINE i == CHOOSE p \in DOMAIN s : s[p] = x
           l == Len(s)
<1>1. l \in Nat /\ DOMAIN s = 1 .. l /\ \A p \in 1 .. l : s[p] \in S
  BY LenProperties, ElementOfSeq
<1>2. i \in 1 .. l /\ s[i] = x
  BY <1>1 DEF Range
<1>3. PICK n : n = Neighbour(s, x, d)
  OBVIOUS
<1>4. n = IF i + d \in 1 .. l THEN s[i + d] ELSE Nil
  BY <1>1, <1>3 DEF Neighbour
<1> HIDE DEF i, l
<1>5. \A p \in 1 .. l : s[p] = x => p = i
  BY <1>1, <1>2 DEF IsInjective
<1>6. ASSUME NEW y, Toward(s, d, x, y)
      PROVE  \E j \in 1 .. l : s[j] = y /\ (IF d = 1 THEN i < j ELSE j < i)
  <2>1. CASE d = 1
    BY <1>1, <1>5, <1>6, <2>1 DEF Toward, Before
  <2>2. CASE d # 1
    BY <1>1, <1>5, <1>6, <2>2 DEF Toward, Before
  <2>. QED BY <2>1, <2>2
<1>7. CASE i + d \notin 1 .. l
  <2>1. \A y : ~Toward(s, d, x, y)
    BY <1>1, <1>2, <1>6, <1>7
  <2>. QED BY <1>3, <1>4, <1>7, <2>1
<1>8. CASE i + d \in 1 .. l
  <2>1. n = s[i + d] /\ n \in Range(s) /\ n # Nil
    BY <1>1, <1>4, <1>8 DEF Range
  <2>2. Toward(s, d, x, n)
    BY <1>1, <1>2, <1>8, <2>1 DEF Toward, Before
  <2>3. ASSUME NEW y, Toward(s, d, x, y) PROVE y = n \/ Toward(s, d, n, y)
    <3>1. PICK j \in 1 .. l : s[j] = y /\ (IF d = 1 THEN i < j ELSE j < i)
      BY <1>6, <2>3
    <3>2. j = i + d \/ (IF d = 1 THEN i + d < j ELSE j < i + d)
      BY <1>1, <1>2, <3>1
    <3>3. CASE d = 1
      BY <1>1, <1>8, <2>1, <3>1, <3>2, <3>3 DEF Toward, Before
    <3>4. CASE d # 1
      BY <1>1, <1>8, <2>1, <3>1, <3>2, <3>4 DEF Toward, Before
    <3>. QED BY <3>3, <3>4
  <2>. QED BY <1>3, <2>1, <2>2, <2>3
<1>. QED BY <1>7, <1>8

(* FirstIn() is the member all others are behind in direction d.           *)
LEMMA FirstInFacts ==
  ASSUME NEW S, NEW s \in Seq(S), Nil \notin S, NEW d \in {-1, 1}
  PROVE  LET f == FirstIn(s, d)
         IN  /\ f = Nil <=> s = <<>>
             /\ f # Nil => f \in Range(s) /\ \A y \in Range(s) : y = f \/ Toward(s, d, f, y)
<1> DEFINE l == Len(s)
<1>1. l \in Nat /\ DOMAIN s = 1 .. l /\ (\A p \in 1 .. l : s[p] \in S) /\ (l = 0 <=> s = <<>>)
  BY LenProperties, ElementOfSeq, EmptySeq
<1>2. FirstIn(s, d) = IF s = <<>> THEN Nil ELSE IF d > 0 THEN s[1] ELSE s[l]
  BY DEF FirstIn
<1> HIDE DEF l
<1>3. CASE s = <<>>
  BY <1>2, <1>3
<1>4. ASSUME s # <<>>, NEW k \in 1 .. l, k = (IF d > 0 THEN 1 ELSE l)
      PROVE  s[k] \in Range(s) /\ s[k] # Nil /\ \A y \in Range(s) : y = s[k] \/ Toward(s, d, s[k], y)
  <2>1. ASSUME NEW j \in 1 .. l PROVE j = k \/ (IF d = 1 THEN k < j ELSE j < k)
    BY <1>1, <1>4
  <2>2. ASSUME NEW j \in 1 .. l PROVE s[j] = s[k] \/ Toward(s, d, s[k], s[j])
    BY <1>1, <2>1 DEF Toward, Before
  <2>. QED BY <1>1, <2>2 DEF Range
<1>5. CASE s # <<>>
  <2>1. PICK k \in 1 .. l : k = IF d > 0 THEN 1 ELSE l
    BY <1>1, <1>5
  <2>2. FirstIn(s, d) = s[k]
    BY <1>2, <1>5, <2>1
  <2>. QED BY <1>4, <1>5, <2>1, <2>2
<1>. QED BY <1>3, <1>5

-----------------------------------------------------------------------------
(* The order of the entries.                                               *)

(* An entry in use is in the chain of its bucket, which is a used one.     *)
LEMMA LiveFacts ==
  ASSUME TableTyped, Chained
  PROVE  /\ \A e \in Live : /\ key[e] \in Key /\ Home(e) \in Bucket /\ Home(e) \in Range(used)
                            /\ e \in Range(chain[Home(e)])
         /\ \A b \in Bucket : \A e \in Range(chain[b]) : e \in Live /\ Home(e) = b
         /\ \A b \in Bucket : chain[b] \in Seq(Entry) /\ IsInjective(chain[b])
         /\ \A b \in Bucket : chain[b] = <<>> <=> Range(chain[b]) = {}
<1>1. \A b \in Bucket : chain[b] \in Seq(Entry) /\ IsInjective(chain[b])
  BY DEF TableTyped, Chained
<1>2. ASSUME NEW b \in Bucket PROVE chain[b] = <<>> <=> Range(chain[b]) = {}
  <2>1. Len(chain[b]) \in Nat /\ DOMAIN chain[b] = 1 .. Len(chain[b]) /\ (Len(chain[b]) = 0 <=> chain[b] = <<>>)
    BY <1>1, LenProperties, EmptySeq
  <2>2. chain[b] # <<>> => 1 \in DOMAIN chain[b]
    BY <2>1
  <2>3. chain[b] = <<>> => DOMAIN chain[b] = {}
    BY <2>1
  <2>. QED BY <2>2, <2>3 DEF Range
<1>3. \A b \in Bucket : \A e \in Range(chain[b]) : e \in Live /\ Home(e) = b
  BY DEF Chained
<1>4. ASSUME NEW e \in Live
      PROVE  key[e] \in Key /\ Home(e) \in Bucket /\ Home(e) \in Range(used) /\ e \in Range(chain[Home(e)])
  <2>1. key[e] \in Key /\ Home(e) \in Bucket
    BY DEF Live, TableTyped, Home, Bucket
  <2>2. e \in Range(chain[Home(e)])
    BY <2>1 DEF Chained
  <2>. QED BY <1>2, <2>1, <2>2 DEF Chained
<1>. QED BY <1>1, <1>2, <1>3, <1>4

(* The order of the entries is total, and turns with the direction.        *)
LEMMA OrderFacts ==
  ASSUME TableTyped, Chained, NEW d \in {-1, 1}
  PROVE  /\ \A x \in Live, y \in Live : x = y \/ Beyond(x, d, y) \/ Beyond(y, d, x)
         /\ \A x \in Live, y \in Live : Beyond(x, d, y) => x # y /\ ~Beyond(y, d, x)
         /\ \A x \in Live, y \in Live, z \in Live :
              Beyond(x, d, y) /\ Beyond(y, d, z) => Beyond(x, d, z)
         /\ \A x \in Live, y \in Live : Beyond(x, d, y) <=> Beyond(y, -d, x)
<1>1. used \in Seq(Bucket) /\ IsInjective(used)
  BY DEF TableTyped, Chained
<1>2. /\ \A x, y : Toward(used, d, x, y) => x # y
      /\ \A x \in Range(used), y \in Range(used) : x = y \/ Toward(used, d, x, y) \/ Toward(used, d, y, x)
      /\ \A x, y : Toward(used, d, x, y) => ~Toward(used, d, y, x)
      /\ \A x, y, z : Toward(used, d, x, y) /\ Toward(used, d, y, z) => Toward(used, d, x, z)
      /\ \A x, y : Toward(used, d, x, y) <=> Toward(used, -d, y, x)
  BY <1>1, TowardOrder
<1>3. ASSUME NEW b \in Bucket
      PROVE  /\ \A x, y : Toward(chain[b], d, x, y) => x # y
             /\ \A x \in Range(chain[b]), y \in Range(chain[b]) :
                  x = y \/ Toward(chain[b], d, x, y) \/ Toward(chain[b], d, y, x)
             /\ \A x, y : Toward(chain[b], d, x, y) => ~Toward(chain[b], d, y, x)
             /\ \A x, y, z : Toward(chain[b], d, x, y) /\ Toward(chain[b], d, y, z)
                               => Toward(chain[b], d, x, z)
             /\ \A x, y : Toward(chain[b], d, x, y) <=> Toward(chain[b], -d, y, x)
  BY LiveFacts, TowardOrder
<1>4. \A e \in Live : Home(e) \in Bucket /\ Home(e) \in Range(used) /\ e \in Range(chain[Home(e)])
  BY LiveFacts
<1>5. \A x \in Live, y \in Live : x = y \/ Beyond(x, d, y) \/ Beyond(y, d, x)
  BY <1>2, <1>3, <1>4 DEF Beyond
<1>6. \A x \in Live, y \in Live : Beyond(x, d, y) => x # y /\ ~Beyond(y, d, x)
  BY <1>2, <1>3, <1>4 DEF Beyond
<1>7. ASSUME NEW x \in Live, NEW y \in Live, NEW z \in Live, Beyond(x, d, y), Beyond(y, d, z)
      PROVE  Beyond(x, d, z)
  <2>1. CASE Home(x) = Home(y) /\ Home(y) = Home(z)
    BY <1>2, <1>3, <1>4, <1>7, <2>1 DEF Beyond
  <2>2. CASE Home(x) # Home(y) \/ Home(y) # Home(z)
    BY <1>2, <1>7, <2>2 DEF Beyond
  <2>. QED BY <2>1, <2>2
<1>8. \A x \in Live, y \in Live : Beyond(x, d, y) <=> Beyond(y, -d, x)
  BY <1>2, <1>3, <1>4 DEF Beyond
<1>. QED BY <1>5, <1>6, <1>7, <1>8

(* One step of an iteration: to the next entry in its direction, with none *)
(* in between, or past the last one.                                       *)
LEMMA StepFacts ==
  ASSUME TableTyped, Chained, Placed, NEW d \in {-1, 1}
  PROVE  /\ Hangs(d) = FALSE
         /\ \/ /\ Step(d) = Nowhere(0)
               /\ \A z \in Live : it.b # Nil /\ ~Beyond(it.e, d, z)
            \/ \E y \in Live :
                 /\ Step(d) = [b |-> Home(y), e |-> y, d |-> it.d]
                 /\ it.b # Nil => Beyond(it.e, d, y)
                 /\ \A z \in Live :
                      (it.b = Nil \/ Beyond(it.e, d, z)) => z = y \/ Beyond(y, d, z)
<1> DEFINE inBucket == IF it.b = Nil THEN Nil ELSE Neighbour(chain[it.b], it.e, d)
           b == IF it.b = Nil THEN FirstIn(used, d) ELSE Neighbour(used, it.b, d)
<1>1. /\ used \in Seq(Bucket) /\ IsInjective(used) /\ Nil \notin Bucket /\ Nil \notin Entry
      /\ \A c \in Range(used) : chain[c] # <<>>
  BY NilAssumption DEF TableTyped, Chained, Placed
<1>2. /\ \A e \in Live : Home(e) \in Bucket /\ Home(e) \in Range(used) /\ e \in Range(chain[Home(e)])
      /\ \A c \in Bucket : \A e \in Range(chain[c]) : e \in Live /\ Home(e) = c
      /\ \A c \in Bucket : chain[c] \in Seq(Entry) /\ IsInjective(chain[c])
  BY LiveFacts
<1>3. Range(used) \subseteq Bucket
  BY <1>1, MembersOf
<1>4. it = [b |-> it.b, e |-> it.e, d |-> it.d]
  BY DEF Placed
<1>5. it.b # Nil => it.b \in Bucket /\ it.e \in Range(chain[it.b]) /\ it.e \in Live /\ Home(it.e) = it.b
                    /\ it.b \in Range(used)
  <2>1. it.b # Nil => it.b \in Bucket /\ it.e \in Range(chain[it.b])
    BY DEF Placed
  <2>2. it.b # Nil => it.e \in Live /\ Home(it.e) = it.b
    BY <1>2, <2>1
  <2>3. it.e \in Live => Home(it.e) \in Range(used)
    BY <1>2
  <2>. QED BY <2>1, <2>2, <2>3
<1>6. Step(d) = IF inBucket # Nil THEN [it EXCEPT !.e = inBucket]
                ELSE IF b = Nil THEN Nowhere(0)
                ELSE [it EXCEPT !.b = b, !.e = FirstIn(chain[b], d)]
  BY DEF Step
<1>7. Hangs(d) = ((it.b # Nil => inBucket = Nil) /\ b # Nil /\ chain[b] = <<>>)
  BY DEF Hangs
<1>8. it.b # Nil => /\ inBucket = Nil => \A y : ~Toward(chain[it.b], d, it.e, y)
                    /\ inBucket # Nil => /\ inBucket \in Range(chain[it.b])
                                         /\ Toward(chain[it.b], d, it.e, inBucket)
                                         /\ \A y : Toward(chain[it.b], d, it.e, y) =>
                                              y = inBucket \/ Toward(chain[it.b], d, inBucket, y)
  BY <1>1, <1>2, <1>5, NeighbourFacts
<1>9. it.b # Nil => /\ b = Nil => \A y : ~Toward(used, d, it.b, y)
                    /\ b # Nil => /\ b \in Range(used) /\ Toward(used, d, it.b, b)
                                  /\ \A y : Toward(used, d, it.b, y) => y = b \/ Toward(used, d, b, y)
  BY <1>1, <1>5, NeighbourFacts
<1>10. it.b = Nil => /\ b = Nil <=> used = <<>>
                     /\ b # Nil => b \in Range(used) /\ \A y \in Range(used) : y = b \/ Toward(used, d, b, y)
  BY <1>1, FirstInFacts
<1>11. used = <<>> => Live = {}
  BY <1>2 DEF Range
<1>12. b # Nil => b \in Range(used) /\ b \in Bucket /\ chain[b] # <<>>
  BY <1>1, <1>3, <1>9, <1>10
<1>13. it.b = Nil => inBucket = Nil
  OBVIOUS
<1> HIDE DEF b, inBucket
<1>14. Hangs(d) = FALSE
  BY <1>7, <1>12
<1>15. CASE inBucket # Nil
  <2>1. it.b # Nil /\ inBucket \in Live /\ Home(inBucket) = it.b
    BY <1>2, <1>5, <1>8, <1>13, <1>15
  <2>2. Step(d) = [b |-> Home(inBucket), e |-> inBucket, d |-> it.d]
    BY <1>4, <1>6, <1>15, <2>1
  <2>3. Beyond(it.e, d, inBucket)
    BY <1>5, <1>8, <1>15, <2>1 DEF Beyond
  <2>4. ASSUME NEW z \in Live, Beyond(it.e, d, z) PROVE z = inBucket \/ Beyond(inBucket, d, z)
    BY <1>5, <1>8, <1>15, <2>1, <2>4 DEF Beyond
  <2>. QED BY <1>14, <2>1, <2>2, <2>3, <2>4
<1>16. CASE inBucket = Nil /\ b # Nil
  <2>1. PICK y : y = FirstIn(chain[b], d)
    OBVIOUS
  <2>2. y \in Range(chain[b]) /\ \A z \in Range(chain[b]) : z = y \/ Toward(chain[b], d, y, z)
    BY <1>1, <1>2, <1>12, <1>16, <2>1, FirstInFacts
  <2>3. y \in Live /\ Home(y) = b
    BY <1>2, <1>12, <1>16, <2>2
  <2>4. Step(d) = [b |-> Home(y), e |-> y, d |-> it.d]
    BY <1>4, <1>6, <1>16, <2>1, <2>3
  <2>5. it.b # Nil => Beyond(it.e, d, y)
    BY <1>5, <1>9, <1>16, <2>3 DEF Beyond
  <2>6. ASSUME NEW z \in Live, Home(z) = b \/ Toward(used, d, b, Home(z)) PROVE z = y \/ Beyond(y, d, z)
    BY <1>2, <2>2, <2>3, <2>6 DEF Beyond
  <2>7. ASSUME NEW z \in Live, it.b = Nil \/ Beyond(it.e, d, z) PROVE z = y \/ Beyond(y, d, z)
    <3>1. CASE it.b = Nil
      BY <1>2, <1>10, <1>16, <2>6, <3>1
    <3>2. CASE it.b # Nil
      <4>1. Toward(used, d, it.b, Home(z))
        BY <1>5, <1>8, <1>16, <2>7, <3>2 DEF Beyond
      <4>. QED BY <1>9, <1>16, <2>6, <3>2, <4>1
    <3>. QED BY <3>1, <3>2
  <2>. QED BY <1>14, <2>3, <2>4, <2>5, <2>7
<1>17. CASE inBucket = Nil /\ b = Nil
  <2>1. Step(d) = Nowhere(0)
    BY <1>6, <1>17
  <2>2. ASSUME NEW z \in Live PROVE it.b # Nil /\ ~Beyond(it.e, d, z)
    BY <1>5, <1>8, <1>9, <1>10, <1>11, <1>17, <2>2 DEF Beyond
  <2>. QED BY <1>14, <2>1, <2>2
<1>. QED BY <1>15, <1>16, <1>17

-----------------------------------------------------------------------------
(* Chunks.                                                                 *)

(* Division as the chunks need it.                                         *)
LEMMA DivFacts ==
  ASSUME NEW P \in Nat \ {0}, NEW x \in Nat
  PROVE  /\ x \div P \in Nat /\ x % P \in 0 .. P - 1 /\ x = P * (x \div P) + (x % P)
         /\ x < P => x \div P = 0 /\ x % P = x
         /\ P \div P = 1 /\ P % P = 0
OBVIOUS

(* The next multiple of P is one P further.                                *)
LEMMA NextMultiple ==
  ASSUME NEW P \in Nat, NEW a \in Nat, NEW b \in Nat, a < b
  PROVE  a * P + P <= b * P
OBVIOUS

(* A quotient is known from the multiples around the number.               *)
LEMMA QuotientIs ==
  ASSUME NEW P \in Nat \ {0}, NEW k \in Nat, NEW x \in Nat, k * P <= x, x < k * P + P
  PROVE  x \div P = k
<1>1. x \div P \in Nat /\ x % P \in 0 .. P - 1 /\ x = P * (x \div P) + (x % P)
  BY DivFacts
<1>2. ~(x \div P < k)
  BY <1>1, NextMultiple
<1>3. ~(k < x \div P)
  BY <1>1, NextMultiple
<1>. QED BY <1>1, <1>2, <1>3

(* There are no more chunks than entries.                                  *)
LEMMA ChunkFacts ==
  /\ PerChunk \in Nat \ {0} /\ Limit \in Nat \ {0}
  /\ Chunk \subseteq 1 .. Limit /\ IsFiniteSet(Chunk)
  /\ IsFiniteSet(Entry)
<1>1. PerChunk \in Nat \ {0} /\ Limit \in Nat \ {0}
  BY HashTableAssumption
<1>2. ASSUME NEW e \in Entry PROVE ChunkOf(e) \in 1 .. Limit
  <2>1. PICK x \in Nat : x = e - 1 /\ x < Limit
    BY <1>1 DEF Entry
  <2>2. x \div PerChunk \in Nat /\ x % PerChunk \in Nat /\ x = PerChunk * (x \div PerChunk) + (x % PerChunk)
    BY <1>1, DivFacts
  <2>3. PICK q \in Nat, r \in Nat : q = x \div PerChunk /\ r = x % PerChunk
    BY <2>2
  <2>4. q <= PerChunk * q
    BY <1>1, <2>3
  <2>5. q <= x
    BY <1>1, <2>2, <2>3, <2>4
  <2>. QED BY <1>1, <2>1, <2>3, <2>5 DEF ChunkOf
<1>3. Chunk \subseteq 1 .. Limit
  BY <1>2 DEF Chunk
<1>4. IsFiniteSet(1 .. Limit)
  BY <1>1, FS_Interval
<1>. QED BY <1>1, <1>3, <1>4, FS_Subset DEF Entry

(* What iot_hashtbl_add() allocates before it takes an entry: nothing as   *)
(* long as there is a free one, else one chunk, behind full-sized ones,    *)
(* that holds the new entries.                                             *)
LEMMA MoreFacts ==
  ASSUME TableTyped, Counted, nentry < Limit
  PROVE  /\ More.chunks \in {0, 1} /\ More.entries \in Nat
         /\ nalloc + More.entries \in 0 .. Limit /\ nentry < nalloc + More.entries
         /\ \/ nalloc + More.entries = (nchunk + More.chunks) * PerChunk
            \/ nalloc + More.entries = Limit
         /\ \A i \in 1 .. More.chunks : nchunk + i \in Chunk
         /\ \A e \in (nalloc + 1) .. (nalloc + More.entries) :
              More.chunks = 1 /\ ChunkOf(e) = nchunk + 1
<1>1. /\ PerChunk \in Nat \ {0} /\ Limit \in Nat \ {0}
      /\ nalloc \in Nat /\ nalloc <= Limit /\ nchunk \in Nat /\ nentry \in Nat
  BY ChunkFacts DEF TableTyped
<1>2. nentry <= nalloc
  <2>1. IsFiniteSet(1 .. nalloc) /\ Cardinality(1 .. nalloc) = nalloc
    BY <1>1, FS_Interval
  <2>2. Live \in SUBSET (1 .. nalloc) /\ Cardinality(Live) = nentry
    BY DEF Counted
  <2>. QED BY <2>1, <2>2, FS_Subset
<1>3. ChunksFor(0) = [chunks |-> 0, entries |-> 0]
  BY <1>1, DivFacts DEF ChunksFor
<1>4. CASE nentry < nalloc
  <2>1. More = ChunksFor(0)
    BY <1>1, <1>4 DEF More
  <2>2. nalloc = nchunk * PerChunk \/ nalloc = Limit
    BY DEF Counted
  <2>3. More.chunks = 0 /\ More.entries = 0
    BY <1>3, <2>1
  <2>. QED BY <1>1, <1>4, <2>2, <2>3
<1>5. CASE nalloc <= nentry
  <2>1. nalloc < Limit /\ nalloc = nchunk * PerChunk /\ More = AllocateChunks(Wanted)
    BY <1>1, <1>5 DEF Counted, More
  <2>2. PICK n \in 1 .. PerChunk : /\ n = Wanted /\ nalloc + n <= Limit
                                   /\ n = PerChunk \/ nalloc + n = Limit
    <3>1. nalloc < Limit
      BY <2>1
    <3>2. /\ Wanted \in 1 .. PerChunk /\ nalloc + Wanted <= Limit
          /\ Wanted = PerChunk \/ nalloc + Wanted = Limit
      BY <1>1, <3>1 DEF Wanted
    <3>. QED BY <3>2
  <2>3. PerChunk \div PerChunk = 1 /\ PerChunk % PerChunk = 0
        /\ (n < PerChunk => n \div PerChunk = 0 /\ n % PerChunk = n)
    BY <1>1, DivFacts
  <2>4. ChunksFor(n) = [chunks |-> 1, entries |-> n]
    <3>1. CASE n = PerChunk
      BY <1>1, <2>3, <3>1 DEF ChunksFor
    <3>2. CASE n < PerChunk
      BY <1>1, <2>3, <3>2 DEF ChunksFor
    <3>. QED BY <1>1, <2>2, <3>1, <3>2
  <2>5. AllocateChunks(n) = ChunksFor(n)
    <3>1. CASE n = PerChunk
      BY <1>1, <2>3, <3>1 DEF AllocateChunks
    <3>2. CASE n < PerChunk
      <4>1. n % PerChunk # 0 /\ (n \div PerChunk + 1) * PerChunk = PerChunk
        BY <1>1, <2>3, <3>2
      <4>2. Limit - nalloc = n /\ ~(nalloc + PerChunk <= Limit)
        BY <1>1, <2>2, <3>2
      <4>. QED BY <4>1, <4>2 DEF AllocateChunks
    <3>. QED BY <1>1, <2>2, <3>1, <3>2
  <2>6. More.chunks = 1 /\ More.entries = n
    BY <2>1, <2>2, <2>4, <2>5
  <2>7. n = PerChunk => nalloc + n = (nchunk + 1) * PerChunk
    BY <1>1, <2>1
  <2>8. ASSUME NEW e \in (nalloc + 1) .. (nalloc + n) PROVE e \in Entry /\ ChunkOf(e) = nchunk + 1
    <3>1. PICK x \in Nat : x = e - 1 /\ nchunk * PerChunk <= x /\ x < nchunk * PerChunk + PerChunk
      BY <1>1, <2>1, <2>2
    <3>2. x \div PerChunk = nchunk
      BY <1>1, <3>1, QuotientIs
    <3>. QED BY <1>1, <2>2, <3>1, <3>2 DEF ChunkOf, Entry
  <2>9. nalloc + 1 \in (nalloc + 1) .. (nalloc + n)
    BY <1>1, <2>2
  <2>10. nchunk + 1 \in Chunk
    BY <2>8, <2>9 DEF Chunk
  <2>11. \/ nalloc + More.entries = (nchunk + More.chunks) * PerChunk
         \/ nalloc + More.entries = Limit
    BY <2>2, <2>6, <2>7
  <2>12. \A i \in 1 .. More.chunks : nchunk + i \in Chunk
    BY <2>6, <2>10
  <2>13. nalloc + More.entries \in 0 .. Limit /\ nentry < nalloc + More.entries
    BY <1>1, <1>5, <1>2, <2>2, <2>6
  <2>. QED BY <2>2, <2>6, <2>8, <2>11, <2>12, <2>13
<1>. QED BY <1>1, <1>4, <1>5

(* The rest of a sequence from a place on.                                 *)
LEMMA SuffixFacts ==
  ASSUME NEW S, NEW s \in Seq(S), NEW i \in 1 .. Len(s)
  PROVE  /\ SubSeq(s, i, Len(s)) \in Seq(S)
         /\ \A j \in i .. Len(s) : s[j] \in Range(SubSeq(s, i, Len(s)))
<1>1. PICK n \in Nat : n = Len(s) /\ DOMAIN s = 1 .. n /\ \A j \in 1 .. n : s[j] \in S
  BY LenProperties, ElementOfSeq
<1>2. PICK w : w = SubSeq(s, i, n)
  OBVIOUS
<1>3. w = [j \in 1 .. n - i + 1 |-> s[i + j - 1]]
  BY <1>1, <1>2
<1>4. \A j \in 1 .. n - i + 1 : i + j - 1 \in 1 .. n
  BY <1>1
<1>5. w \in Seq(S)
  BY <1>1, <1>3, <1>4
<1>6. ASSUME NEW j \in i .. n PROVE s[j] \in Range(w)
  <2>1. j - i + 1 \in 1 .. n - i + 1 /\ i + (j - i + 1) - 1 = j
    BY <1>1
  <2>2. w[j - i + 1] = s[j] /\ DOMAIN w = 1 .. n - i + 1
    BY <1>3, <2>1
  <2>. QED BY <2>1, <2>2 DEF Range
<1>. QED BY <1>1, <1>2, <1>5, <1>6

-----------------------------------------------------------------------------
(* What the operations do to the table.                                    *)

(* A free entry is found whenever one of the n that are allocated is free, *)
(* and the chunks behind the one it is in keep their place.                *)
LEMMA SpaceFacts ==
  ASSUME TableTyped, Counted, NEW n \in 0 .. Limit, nentry < n, Live \subseteq 1 .. n,
         NEW list \in Seq(Chunk), \A e \in (1 .. n) \ Live : ChunkOf(e) \in Range(list)
  PROVE  LET i == FirstSpace(list, n)
             e == Min(Free(list[i], n))
         IN  /\ i \in 1 .. Len(list)
             /\ e \in Entry \ Live /\ e <= n /\ ChunkOf(e) = list[i]
             /\ \A f \in (1 .. n) \ Live : ChunkOf(f) \in Range(SubSeq(list, i, Len(list)))
<1> DEFINE roomy == {j \in DOMAIN list : Free(list[j], n) # {}}
           i == FirstSpace(list, n)
<1>1. /\ Limit \in Nat /\ n \in Nat /\ n <= Limit /\ Len(list) \in Nat /\ DOMAIN list = 1 .. Len(list)
      /\ \A j \in 1 .. Len(list) : list[j] \in Chunk
  BY ChunkFacts, LenProperties, ElementOfSeq
<1>2. \A c \in Chunk : Free(c, n) = {e \in (1 .. n) \ Live : ChunkOf(e) = c}
  BY <1>1 DEF Counted, Free, InChunk, Entry
<1>3. \E e \in 1 .. n : e \notin Live
  <2>1. IsFiniteSet(1 .. n) /\ Cardinality(1 .. n) = n
    BY <1>1, FS_Interval
  <2>2. 1 .. n # Live
    BY <1>1, <2>1 DEF Counted, TableTyped
  <2>. QED BY <2>2
<1>4. \A f \in (1 .. n) \ Live : \E j \in 1 .. Len(list) : list[j] = ChunkOf(f) /\ j \in roomy
  <2>1. SUFFICES ASSUME NEW f \in (1 .. n) \ Live
                 PROVE  \E j \in 1 .. Len(list) : list[j] = ChunkOf(f) /\ j \in roomy
    OBVIOUS
  <2>2. PICK j \in 1 .. Len(list) : list[j] = ChunkOf(f)
    BY <1>1 DEF Range
  <2>3. f \in Free(list[j], n)
    BY <1>1, <1>2, <2>2
  <2>. QED BY <1>1, <2>2, <2>3
<1>5. roomy # {} /\ roomy \in SUBSET Nat /\ i = Min(roomy)
  <2>1. roomy # {}
    BY <1>3, <1>4
  <2>2. roomy \in SUBSET Nat
    BY <1>1
  <2>. QED BY <2>1, <2>2 DEF FirstSpace
<1>6. i \in roomy /\ \A j \in roomy : i <= j
  BY <1>5, MinInSet
<1>7. i \in 1 .. Len(list) /\ list[i] \in Chunk /\ Free(list[i], n) # {}
  BY <1>1, <1>6
<1>8. Free(list[i], n) \in SUBSET Nat
  BY <1>1, <1>2, <1>7
<1>9. PICK e : e = Min(Free(list[i], n))
  OBVIOUS
<1>10. e \in Free(list[i], n)
  BY <1>7, <1>8, <1>9, MinInSet
<1>11. e \in Entry \ Live /\ e <= n /\ ChunkOf(e) = list[i]
  BY <1>1, <1>2, <1>7, <1>10 DEF Entry
<1> HIDE DEF roomy, i
<1>12. ASSUME NEW f \in (1 .. n) \ Live PROVE ChunkOf(f) \in Range(SubSeq(list, i, Len(list)))
  <2>1. PICK j \in 1 .. Len(list) : list[j] = ChunkOf(f) /\ j \in roomy
    BY <1>4
  <2>2. j \in i .. Len(list)
    BY <1>1, <1>6, <1>7, <2>1
  <2>. QED BY <1>7, <2>1, <2>2, SuffixFacts
<1>. QED BY <1>7, <1>9, <1>11, <1>12 DEF i

(* iot_hashtbl_add() takes a free entry for the key and appends it to the  *)
(* chain of its bucket.                                                    *)
Added(e, k, o) ==
  /\ e \in Entry \ Live /\ Live' = Live \cup {e}
  /\ key' = [key EXCEPT ![e] = k] /\ object' = [object EXCEPT ![e] = o]
  /\ chain' = [chain EXCEPT ![Hash[k]] = Append(@, e)]
  /\ used' = IF Hash[k] \in Range(used) THEN used ELSE Append(used, Hash[k])
  /\ UNCHANGED <<it, hung, loop, stable, visits>>

(* That is what a call that finds a free entry does.                       *)
LEMMA AddFacts ==
  ASSUME StoreInv, NEW k \in Key, NEW o \in Object, IotHashtblAdd(k, o)
  PROVE  \E e : Added(e, k, o) /\ TableTyped' /\ Counted'
<1> DEFINE n == nalloc + More.entries
           new == [i \in 1 .. More.chunks |-> nchunk + i]
           list == space \o new
           i == FirstSpace(list, n)
<1>1. /\ TableTyped /\ Chained /\ Counted /\ nentry < Limit
      /\ nalloc \in Nat /\ nchunk \in Nat /\ nentry \in Nat /\ space \in Seq(Chunk)
  BY DEF StoreInv, TableTyped, IotHashtblAdd
<1>2. /\ More.chunks \in {0, 1} /\ More.entries \in Nat
      /\ n \in 0 .. Limit /\ nentry < n
      /\ n = (nchunk + More.chunks) * PerChunk \/ n = Limit
      /\ \A j \in 1 .. More.chunks : nchunk + j \in Chunk
      /\ \A e \in (nalloc + 1) .. n : More.chunks = 1 /\ ChunkOf(e) = nchunk + 1
  BY <1>1, MoreFacts
<1>3. /\ nalloc' = n /\ nchunk' = nchunk + More.chunks
      /\ IF i > Len(list) THEN TRUE ELSE AddTo(list, n, k, o)
      /\ UNCHANGED <<it, hung, loopVars>>
  BY DEF IotHashtblAdd
<1> HIDE DEF n
<1>4. new \in Seq(Chunk) /\ Len(new) = More.chunks /\ (More.chunks = 1 => new[1] = nchunk + 1)
  BY <1>2
<1> HIDE DEF new
<1>5. /\ list \in Seq(Chunk) /\ \A x \in Range(space) : x \in Range(list)
      /\ More.chunks = 1 => nchunk + 1 \in Range(list)
  <2>1. PICK a \in Nat, b \in Nat : a = Len(space) /\ b = Len(new) /\ b = More.chunks
    BY <1>1, <1>4, LenProperties
  <2>2. /\ list \in Seq(Chunk) /\ Len(list) = a + b
        /\ \A j \in 1 .. a + b : list[j] = IF j <= a THEN space[j] ELSE new[j - a]
    <3>1. space \in Seq(Chunk) /\ new \in Seq(Chunk)
      BY <1>1, <1>4
    <3> HIDE DEF list
    <3>2. /\ space \o new \in Seq(Chunk) /\ Len(space \o new) = Len(space) + Len(new)
          /\ \A j \in 1 .. Len(space) + Len(new) :
               (space \o new)[j] = IF j <= Len(space) THEN space[j] ELSE new[j - Len(space)]
      BY <3>1, ConcatProperties
    <3>. QED BY <2>1, <3>2 DEF list
  <2>3. DOMAIN list = 1 .. a + b /\ DOMAIN space = 1 .. a
    BY <1>1, <2>1, <2>2, LenProperties
  <2> HIDE DEF list
  <2>4. ASSUME NEW x \in Range(space) PROVE x \in Range(list)
    <3>1. PICK j \in 1 .. a : space[j] = x
      BY <2>3 DEF Range
    <3>2. j \in 1 .. a + b /\ list[j] = x
      BY <2>2, <3>1
    <3>. QED BY <2>3, <3>2 DEF Range
  <2>5. ASSUME More.chunks = 1 PROVE nchunk + 1 \in Range(list)
    <3>1. b = 1 /\ a + 1 \in 1 .. a + b /\ ~(a + 1 <= a) /\ (a + 1) - a = 1
      BY <2>1, <2>5
    <3>2. list[a + 1] = nchunk + 1
      BY <1>4, <2>2, <2>5, <3>1
    <3>. QED BY <2>3, <3>1, <3>2 DEF Range
  <2>. QED BY <2>2, <2>4, <2>5
<1> HIDE DEF list
<1>6. /\ nalloc <= n /\ Live \subseteq 1 .. nalloc /\ Live \subseteq 1 .. n
      /\ \A e \in (1 .. nalloc) \ Live : ChunkOf(e) \in Range(space)
  BY <1>1, <1>2 DEF Counted, n
<1>7. \A e \in (1 .. n) \ Live : ChunkOf(e) \in Range(list)
  <2>1. \A e \in 1 .. n : e \in 1 .. nalloc \/ e \in (nalloc + 1) .. n
    BY <1>1, <1>2
  <2>. QED BY <1>2, <1>5, <1>6, <2>1
<1>8. PICK e : e = Min(Free(list[i], n))
  OBVIOUS
<1>9. /\ i \in 1 .. Len(list)
      /\ e \in Entry \ Live /\ e <= n /\ ChunkOf(e) = list[i]
      /\ \A f \in (1 .. n) \ Live : ChunkOf(f) \in Range(SubSeq(list, i, Len(list)))
  BY <1>1, <1>2, <1>5, <1>6, <1>7, <1>8, SpaceFacts
<1>10. AddTo(list, n, k, o)
  BY <1>3, <1>5, <1>9, LenProperties
<1>11. /\ key' = [key EXCEPT ![e] = k] /\ object' = [object EXCEPT ![e] = o]
       /\ mask' = [mask EXCEPT ![ChunkOf(e)] = @ \cup {e}]
       /\ space' = SubSeq(list, i, Len(list))
       /\ chain' = [chain EXCEPT ![Hash[k]] = Append(@, e)]
       /\ used' = IF Hash[k] \in Range(used) THEN used ELSE Append(used, Hash[k])
       /\ nentry' = nentry + 1
  BY <1>8, <1>9, <1>10 DEF AddTo
<1>12. Live' = Live \cup {e}
  BY <1>1, <1>9, <1>11, NilAssumption DEF Live, TableTyped
<1>13. Added(e, k, o)
  BY <1>3, <1>9, <1>11, <1>12 DEF Added, loopVars
<1>14. Hash[k] \in Bucket /\ ChunkOf(e) \in Chunk
  BY <1>9 DEF Bucket, Chunk
<1>15. TableTyped'
  <2>1. space' \in Seq(Chunk)
    BY <1>5, <1>9, <1>11, SuffixFacts
  <2>2. Append(chain[Hash[k]], e) \in Seq(Entry) /\ Append(used, Hash[k]) \in Seq(Bucket)
    BY <1>1, <1>9, <1>14, AppendProperties DEF TableTyped
  <2>3. key' \in [Entry -> Key \cup {Nil}] /\ object' \in [Entry -> Object \cup {Nil}]
    BY <1>1, <1>11 DEF TableTyped
  <2>4. chain' \in [Bucket -> Seq(Entry)] /\ used' \in Seq(Bucket)
    BY <1>1, <1>11, <2>2 DEF TableTyped
  <2>5. mask' \in [Chunk -> SUBSET Entry]
    BY <1>1, <1>9, <1>11 DEF TableTyped
  <2>6. nalloc' \in 0 .. Limit /\ nchunk' \in Nat /\ nentry' \in Nat
    BY <1>1, <1>2, <1>3, <1>11
  <2>. QED BY <2>1, <2>3, <2>4, <2>5, <2>6 DEF TableTyped
<1>16. Counted'
  <2>1. ASSUME NEW c \in Chunk PROVE mask'[c] = Live' \cap InChunk(c)
    <3>1. mask[c] = Live \cap InChunk(c) /\ mask'[c] = IF c = ChunkOf(e) THEN mask[c] \cup {e} ELSE mask[c]
      BY <1>1, <1>11 DEF Counted, TableTyped
    <3>. QED BY <1>9, <1>12, <3>1 DEF InChunk
  <2>2. Cardinality(Live') = nentry'
    <3>1. IsFiniteSet(1 .. nalloc)
      BY <1>1, FS_Interval
    <3>2. IsFiniteSet(Live)
      BY <1>6, <3>1, FS_Subset
    <3>3. Cardinality(Live) = nentry
      BY <1>1 DEF Counted
    <3>. QED BY <1>9, <1>11, <1>12, <3>2, <3>3, FS_AddElement
  <2>3. Live' \subseteq 1 .. nalloc'
    BY <1>1, <1>2, <1>3, <1>6, <1>9, <1>12 DEF Entry
  <2>4. \A f \in (1 .. nalloc') \ Live' : ChunkOf(f) \in Range(space')
    BY <1>3, <1>9, <1>11, <1>12
  <2>5. nalloc' = nchunk' * PerChunk \/ nalloc' = Limit
    BY <1>2, <1>3
  <2>6. \A c \in Chunk : (InChunk(c))' = InChunk(c)
    BY DEF InChunk
  <2>. QED BY <2>1, <2>2, <2>3, <2>4, <2>5, <2>6 DEF Counted
<1>. QED BY <1>13, <1>15, <1>16

(* The new entry comes behind the others of its bucket.                    *)
LEMMA AddChained ==
  ASSUME TableTyped, Chained, NEW k \in Key, NEW o, NEW e, Added(e, k, o)
  PROVE  Chained'
<1>1. /\ e \in Entry \ Live /\ Live' = Live \cup {e} /\ key' = [key EXCEPT ![e] = k]
      /\ chain' = [chain EXCEPT ![Hash[k]] = Append(@, e)]
      /\ used' = IF Hash[k] \in Range(used) THEN used ELSE Append(used, Hash[k])
  BY DEF Added
<1>2. Hash[k] \in Bucket
  BY DEF Bucket
<1>3. Home(e)' = Hash[k] /\ \A f \in Live : Home(f)' = Home(f)
  <2>1. key'[e] = k /\ \A f \in Live : key'[f] = key[f]
    BY <1>1 DEF TableTyped, Live
  <2>. QED BY <2>1 DEF Home
<1>4. ASSUME NEW b \in Bucket
      PROVE  IsInjective(chain'[b]) /\ Range(chain'[b]) = {f \in Live' : Home(f)' = b}
  <2>1. chain[b] \in Seq(Entry) /\ IsInjective(chain[b]) /\ Range(chain[b]) = {f \in Live : Home(f) = b}
    BY DEF Chained, TableTyped
  <2>2. CASE b = Hash[k]
    <3>1. chain'[b] = Append(chain[b], e) /\ e \notin Range(chain[b])
      BY <1>1, <2>1, <2>2 DEF TableTyped
    <3>2. IsInjective(chain'[b]) /\ Range(chain'[b]) = Range(chain[b]) \cup {e}
      BY <1>1, <2>1, <3>1, AppendFacts
    <3>. QED BY <1>1, <1>3, <2>1, <2>2, <3>2
  <2>3. CASE b # Hash[k]
    <3>1. chain'[b] = chain[b]
      BY <1>1, <2>3 DEF TableTyped
    <3>. QED BY <1>1, <1>3, <2>1, <2>3, <3>1
  <2>. QED BY <2>2, <2>3
<1>5. used \in Seq(Bucket) /\ IsInjective(used)
  BY DEF Chained, TableTyped
<1>6. IsInjective(used') /\ Range(used') = Range(used) \cup {Hash[k]}
  <2>1. CASE Hash[k] \in Range(used)
    BY <1>1, <1>5, <2>1
  <2>2. CASE Hash[k] \notin Range(used)
    BY <1>1, <1>2, <1>5, <2>2, AppendFacts
  <2>. QED BY <2>1, <2>2
<1>7. \A b \in Bucket : chain'[b] # <<>> => b \in Range(used')
  <2>1. \A b \in Bucket : b # Hash[k] => chain'[b] = chain[b]
    BY <1>1 DEF TableTyped
  <2>. QED BY <1>6, <2>1 DEF Chained
<1>. QED BY <1>4, <1>6, <1>7 DEF Chained

(* Entries that are freed: the masks and the space list follow.            *)
LEMMA FreeFacts ==
  ASSUME TableTyped, Counted, NEW es \in SUBSET Live, FreeEntries(es),
         nentry' = Cardinality(Live \ es), UNCHANGED <<nalloc, nchunk>>
  PROVE  /\ Live' = Live \ es /\ Counted'
         /\ key' \in [Entry -> Key \cup {Nil}] /\ object' \in [Entry -> Object \cup {Nil}]
         /\ mask' \in [Chunk -> SUBSET Entry] /\ space' \in Seq(Chunk)
         /\ \A e \in Entry \ es : key'[e] = key[e] /\ object'[e] = object[e]
<1> DEFINE freed == {ChunkOf(e) : e \in es} \ Range(space)
<1>1. /\ key' = [e \in Entry |-> IF e \in es THEN Nil ELSE key[e]]
      /\ object' = [e \in Entry |-> IF e \in es THEN Nil ELSE object[e]]
      /\ mask' = [c \in Chunk |-> mask[c] \ es]
      /\ space' = space \o SetToSeq(freed)
  BY DEF FreeEntries
<1>2. Live' = Live \ es
  BY <1>1 DEF Live
<1>3. es \subseteq Entry
  BY DEF Live
<1>4. freed \in SUBSET Chunk /\ IsFiniteSet(freed)
  <2>1. freed \in SUBSET Chunk
    BY <1>3 DEF Chunk
  <2>. QED BY <2>1, ChunkFacts, FS_Subset
<1>5. \A e \in es : ChunkOf(e) \in Range(space) \/ ChunkOf(e) \in freed
  OBVIOUS
<1> HIDE DEF freed
<1>6. PICK t : t = SetToSeq(freed)
  OBVIOUS
<1>7. t \in Seq(freed) /\ \A x \in freed : x \in Range(t)
  BY <1>4, <1>6, SetToSeqFacts DEF Range
<1>8. t \in Seq(Chunk) /\ space \in Seq(Chunk)
  BY <1>4, <1>7 DEF TableTyped
<1>9. PICK w : w = space \o t
  OBVIOUS
<1>10. w \in Seq(Chunk) /\ \A x : x \in Range(space) \/ x \in Range(t) => x \in Range(w)
  <2>1. PICK a \in Nat, b \in Nat : a = Len(space) /\ b = Len(t)
    BY <1>8, LenProperties
  <2>2. /\ w \in Seq(Chunk) /\ Len(w) = a + b
        /\ \A j \in 1 .. a + b : w[j] = IF j <= a THEN space[j] ELSE t[j - a]
    BY <1>8, <1>9, <2>1, ConcatProperties
  <2>3. DOMAIN w = 1 .. a + b /\ DOMAIN space = 1 .. a /\ DOMAIN t = 1 .. b
    BY <1>8, <2>1, <2>2, LenProperties
  <2>4. ASSUME NEW j \in 1 .. a PROVE space[j] \in Range(w)
    <3>1. j \in 1 .. a + b /\ w[j] = space[j]
      BY <2>2, <2>4
    <3>. QED BY <2>3, <3>1 DEF Range
  <2>5. ASSUME NEW j \in 1 .. b PROVE t[j] \in Range(w)
    <3>1. a + j \in 1 .. a + b /\ ~(a + j <= a) /\ (a + j) - a = j
      BY <2>1
    <3>2. w[a + j] = t[j]
      BY <2>2, <3>1
    <3>. QED BY <2>3, <3>1, <3>2 DEF Range
  <2>. QED BY <2>2, <2>3, <2>4, <2>5 DEF Range
<1>11. space' \in Seq(Chunk) /\ \A x : x \in Range(space) \/ x \in freed => x \in Range(space')
  BY <1>1, <1>6, <1>7, <1>9, <1>10
<1>12. Counted'
  <2>1. \A c \in Chunk : (InChunk(c))' = InChunk(c) /\ mask'[c] = Live' \cap InChunk(c)
    BY <1>1, <1>2 DEF Counted, InChunk
  <2>2. Cardinality(Live') = nentry' /\ Live' \subseteq 1 .. nalloc'
    BY <1>2 DEF Counted
  <2>3. \A e \in (1 .. nalloc') \ Live' : ChunkOf(e) \in Range(space')
    BY <1>2, <1>5, <1>11 DEF Counted
  <2>. QED BY <2>1, <2>2, <2>3 DEF Counted
<1>13. /\ key' \in [Entry -> Key \cup {Nil}] /\ object' \in [Entry -> Object \cup {Nil}]
       /\ mask' \in [Chunk -> SUBSET Entry]
       /\ \A e \in Entry \ es : key'[e] = key[e] /\ object'[e] = object[e]
  BY <1>1 DEF TableTyped
<1>. QED BY <1>2, <1>11, <1>12, <1>13

(* hash_entry() finds entries of the key, in the order of their chain.     *)
LEMMA FoundFacts ==
  ASSUME TableTyped, Chained, NEW k \in Key
  PROVE  /\ HashEntry(k) \in Seq(Entry) /\ IsInjective(HashEntry(k))
         /\ Range(HashEntry(k)) = {e \in Live : key[e] = k}
         /\ HashEntry(k) # <<>> => /\ HashEntry(k)[1] \in Live /\ key[HashEntry(k)[1]] = k
                                   /\ 1 \in DOMAIN HashEntry(k)
<1>1. Hash[k] \in Bucket /\ k # Nil
  BY NilAssumption DEF Bucket
<1>2. chain[Hash[k]] \in Seq(Entry) /\ IsInjective(chain[Hash[k]])
      /\ Range(chain[Hash[k]]) = {e \in Live : Home(e) = Hash[k]}
  BY <1>1 DEF TableTyped, Chained
<1>3. /\ HashEntry(k) \in Seq(Entry) /\ IsInjective(HashEntry(k))
      /\ Range(HashEntry(k)) = Range(chain[Hash[k]]) \cap {e \in Entry : key[e] = k}
  BY <1>2, KeepFacts DEF HashEntry
<1>4. Range(HashEntry(k)) = {e \in Live : key[e] = k}
  BY <1>2, <1>3 DEF Live, Home
<1>5. ASSUME HashEntry(k) # <<>> PROVE 1 \in DOMAIN HashEntry(k)
  BY <1>3, <1>5, LenProperties, EmptySeq
<1>6. \A i \in DOMAIN HashEntry(k) : HashEntry(k)[i] \in Range(HashEntry(k))
  BY DEF Range
<1>. QED BY <1>3, <1>4, <1>5, <1>6

(* iot_hashtbl_del() frees an entry of the key and takes it off its chain, *)
(* and the bucket off the used ones when it was the last.                  *)
Deleted(e) ==
  /\ e \in Live /\ Live' = Live \ {e}
  /\ \A f \in Live \ {e} : key'[f] = key[f] /\ object'[f] = object[f]
  /\ chain' = [chain EXCEPT ![Home(e)] = RemoveFirst(@, e)]
  /\ used' = IF chain'[Home(e)] = <<>> THEN RemoveFirst(used, Home(e)) ELSE used
  /\ hung' = (it.e = e /\ Hangs(-it.d))
  /\ it' = IF hung' THEN it ELSE PositionAfter(e)
  /\ stable' = stable \ {e} /\ visits' = [visits EXCEPT ![e] = 0]
  /\ loop' = loop

(* That is what a call for a key of the table does.                        *)
LEMMA DelFacts ==
  ASSUME TableTyped, Chained, Counted, NEW k \in Key, IotHashtblDel(k)
  PROVE  \E e : e = HashEntry(k)[1] /\ key[e] = k /\ Deleted(e) /\ TableTyped' /\ Counted'
<1> DEFINE e == HashEntry(k)[1]
<1>1. /\ HashEntry(k) # <<>> /\ FreeEntries({e})
      /\ chain' = [chain EXCEPT ![Hash[k]] = RemoveFirst(@, e)]
      /\ used' = IF chain'[Hash[k]] = <<>> THEN RemoveFirst(used, Hash[k]) ELSE used
      /\ nentry' = nentry - 1 /\ UNCHANGED <<nalloc, nchunk>>
      /\ hung' = (it.e = e /\ Hangs(-it.d))
      /\ it' = IF hung' THEN it ELSE PositionAfter(e)
      /\ stable' = stable \ {e} /\ visits' = [visits EXCEPT ![e] = 0]
      /\ loop' = loop
  BY DEF IotHashtblDel
<1>2. e \in Live /\ key[e] = k /\ Home(e) = Hash[k]
  BY <1>1, FoundFacts DEF Home
<1> HIDE DEF e
<1>3. nentry' = Cardinality(Live \ {e}) /\ nentry' \in Nat
  <2>1. IsFiniteSet(Live)
    BY ChunkFacts, FS_Subset DEF Live
  <2>2. Cardinality(Live) = nentry
    BY DEF Counted
  <2>3. IsFiniteSet(Live \ {e}) /\ Cardinality(Live \ {e}) = nentry - 1
    BY <1>2, <2>1, <2>2, FS_RemoveElement
  <2>. QED BY <1>1, <2>3, FS_CardinalityType
<1>4. /\ Live' = Live \ {e} /\ Counted'
      /\ key' \in [Entry -> Key \cup {Nil}] /\ object' \in [Entry -> Object \cup {Nil}]
      /\ mask' \in [Chunk -> SUBSET Entry] /\ space' \in Seq(Chunk)
      /\ \A f \in Entry \ {e} : key'[f] = key[f] /\ object'[f] = object[f]
  <2>1. {e} \in SUBSET Live
    BY <1>2
  <2>. QED BY <1>1, <1>3, <2>1, FreeFacts
<1>5. Hash[k] \in Bucket /\ chain \in [Bucket -> Seq(Entry)] /\ used \in Seq(Bucket)
  BY DEF Bucket, TableTyped
<1>6. RemoveFirst(chain[Hash[k]], e) \in Seq(Entry) /\ RemoveFirst(used, Hash[k]) \in Seq(Bucket)
  BY <1>5, RemovedFacts DEF Chained
<1>7. TableTyped'
  <2>1. chain' \in [Bucket -> Seq(Entry)] /\ used' \in Seq(Bucket)
    BY <1>1, <1>5, <1>6
  <2>2. nalloc' \in 0 .. Limit /\ nchunk' \in Nat
    BY <1>1 DEF TableTyped
  <2>. QED BY <1>3, <1>4, <2>1, <2>2 DEF TableTyped
<1>8. Deleted(e)
  BY <1>1, <1>2, <1>4 DEF Deleted, Live
<1>. QED BY <1>2, <1>4, <1>7, <1>8 DEF e

(* Deleting keeps the chains and the list of used buckets right.           *)
LEMMA DelChained ==
  ASSUME TableTyped, Chained, NEW e, Deleted(e)
  PROVE  /\ Chained'
         /\ \A b \in Bucket : Range(chain'[b]) = Range(chain[b]) \ {e}
         /\ Range(used') = IF Range(chain[Home(e)]) = {e} THEN Range(used) \ {Home(e)} ELSE Range(used)
         /\ chain'[Home(e)] = <<>> <=> Range(chain[Home(e)]) = {e}
         /\ \A f \in Live \ {e} : Home(f)' = Home(f)
<1>1. /\ e \in Live /\ Live' = Live \ {e}
      /\ \A f \in Live \ {e} : key'[f] = key[f]
      /\ chain' = [chain EXCEPT ![Home(e)] = RemoveFirst(@, e)]
      /\ used' = IF chain'[Home(e)] = <<>> THEN RemoveFirst(used, Home(e)) ELSE used
  BY DEF Deleted
<1>2. Home(e) \in Bucket /\ e \in Range(chain[Home(e)]) /\ Home(e) \in Range(used)
  BY <1>1, LiveFacts
<1>3. \A f \in Live \ {e} : Home(f)' = Home(f)
  BY <1>1 DEF Home
<1>4. ASSUME NEW b \in Bucket
      PROVE  /\ chain'[b] \in Seq(Entry) /\ IsInjective(chain'[b])
             /\ Range(chain'[b]) = Range(chain[b]) \ {e}
  <2>1. chain[b] \in Seq(Entry) /\ IsInjective(chain[b]) /\ Range(chain[b]) = {f \in Live : Home(f) = b}
    BY DEF Chained, TableTyped
  <2>2. CASE b = Home(e)
    <3>1. chain'[b] = RemoveFirst(chain[b], e)
      BY <1>1, <1>2, <2>2 DEF TableTyped
    <3>. QED BY <2>1, <3>1, RemovedFacts
  <2>3. CASE b # Home(e)
    <3>1. chain'[b] = chain[b]
      BY <1>1, <2>3 DEF TableTyped
    <3>. QED BY <2>1, <2>3, <3>1
  <2>. QED BY <2>2, <2>3
<1>5. chain'[Home(e)] = <<>> <=> Range(chain[Home(e)]) = {e}
  <2>1. PICK t \in Seq(Entry) : t = chain'[Home(e)] /\ Range(t) = Range(chain[Home(e)]) \ {e}
    BY <1>2, <1>4
  <2>2. Len(t) \in Nat /\ DOMAIN t = 1 .. Len(t) /\ (Len(t) = 0 <=> t = <<>>)
    BY LenProperties, EmptySeq
  <2>3. t # <<>> => 1 \in DOMAIN t
    BY <2>2
  <2>4. t = <<>> => DOMAIN t = {}
    BY <2>2
  <2>5. t = <<>> <=> Range(t) = {}
    BY <2>3, <2>4 DEF Range
  <2>. QED BY <1>2, <2>1, <2>5
<1>6. used \in Seq(Bucket) /\ IsInjective(used)
  BY DEF Chained, TableTyped
<1>7. /\ IsInjective(used')
      /\ Range(used') = IF Range(chain[Home(e)]) = {e} THEN Range(used) \ {Home(e)} ELSE Range(used)
  <2>1. PICK h : h = Home(e)
    OBVIOUS
  <2>2. /\ RemoveFirst(used, h) \in Seq(Bucket) /\ IsInjective(RemoveFirst(used, h))
        /\ Range(RemoveFirst(used, h)) = Range(used) \ {h}
    BY <1>6, RemovedFacts
  <2>3. used' = IF Range(chain[h]) = {e} THEN RemoveFirst(used, h) ELSE used
    BY <1>1, <1>5, <2>1
  <2>4. CASE Range(chain[h]) = {e}
    BY <2>1, <2>2, <2>3, <2>4
  <2>5. CASE Range(chain[h]) # {e}
    BY <1>6, <2>1, <2>3, <2>5
  <2>. QED BY <2>4, <2>5
<1>8. \A b \in Bucket : Range(chain'[b]) = {f \in Live' : Home(f)' = b}
  BY <1>1, <1>3, <1>4 DEF Chained
<1>9. \A b \in Bucket : chain'[b] # <<>> => b \in Range(used')
  <2>1. \A b \in Bucket : b # Home(e) => chain'[b] = chain[b]
    BY <1>1 DEF TableTyped
  <2>2. \A b \in Bucket : chain[b] # <<>> => b \in Range(used)
    BY DEF Chained
  <2>. QED BY <1>2, <1>5, <1>7, <2>1, <2>2
<1>. QED BY <1>3, <1>4, <1>5, <1>7, <1>8, <1>9 DEF Chained

(* Nothing a user does makes the parts of the table disagree.              *)
LEMMA InitStore == HtblInit => WalkInv
<1> SUFFICES ASSUME HtblInit PROVE WalkInv
  OBVIOUS
<1> USE DEF HtblInit
<1>1. Live = {}
  BY DEF Live
<1>2. /\ Range(<<>>) = {} /\ IsInjective(<<>>)
  BY DEF Range, IsInjective
<1>3. TableTyped
  BY ChunkFacts DEF TableTyped
<1>4. Chained
  BY <1>1, <1>2 DEF Chained
<1>5. Counted
  <2>1. Cardinality(Live) = 0
    BY <1>1, FS_EmptySet
  <2>2. nalloc = nchunk * PerChunk
    BY ChunkFacts
  <2>. QED BY <1>1, <2>1, <2>2 DEF Counted, InChunk
<1>6. Placed
  BY <1>2 DEF Placed, Nowhere
<1>7. Walked
  BY <1>1 DEF Walked
<1>. QED BY <1>3, <1>4, <1>5, <1>6, <1>7 DEF WalkInv, StoreInv

(* iot_hashtbl_reset() frees what is in the buckets in use: everything.    *)
LEMMA ResetFacts ==
  ASSUME StoreInv, IotHashtblReset
  PROVE  StoreInv' /\ Live' = {}
<1>1. TableTyped /\ Chained /\ Counted
  BY DEF StoreInv
<1>2. Live = UNION {Range(chain[b]) : b \in Range(used)}
  <2>1. ASSUME NEW e \in Live PROVE Home(e) \in Range(used) /\ e \in Range(chain[Home(e)])
    BY <1>1, LiveFacts
  <2>2. Range(used) \subseteq Bucket
    BY <1>1, MembersOf DEF TableTyped
  <2>3. ASSUME NEW b \in Range(used), NEW e \in Range(chain[b]) PROVE e \in Live
    BY <1>1, <2>2, LiveFacts
  <2>. QED BY <2>1, <2>3
<1>3. /\ FreeEntries(Live) /\ chain' = [b \in Bucket |-> <<>>] /\ nentry' = 0
      /\ UNCHANGED <<used, nalloc, nchunk>>
  BY <1>2 DEF IotHashtblReset
<1>4. nentry' = Cardinality(Live \ Live)
  <2>1. Live \ Live = {}
    OBVIOUS
  <2>. QED BY <1>3, <2>1, FS_EmptySet
<1>5. Live \in SUBSET Live
  OBVIOUS
<1>6. /\ Live' = Live \ Live /\ Counted'
      /\ key' \in [Entry -> Key \cup {Nil}] /\ object' \in [Entry -> Object \cup {Nil}]
      /\ mask' \in [Chunk -> SUBSET Entry] /\ space' \in Seq(Chunk)
  BY <1>1, <1>3, <1>4, <1>5, FreeFacts
<1>7. TableTyped'
  BY <1>1, <1>3, <1>6 DEF TableTyped
<1>8. Chained'
  <2>1. /\ Range(<<>>) = {} /\ IsInjective(<<>>)
    BY DEF Range, IsInjective
  <2>2. IsInjective(used) /\ used' = used
    BY <1>1, <1>3 DEF Chained
  <2>3. Live' = {} /\ \A b \in Bucket : chain'[b] = <<>>
    BY <1>3, <1>6
  <2>. QED BY <2>1, <2>2, <2>3 DEF Chained
<1>. QED BY <1>6, <1>7, <1>8 DEF StoreInv

(* iot_hashtbl_replace() of a key that is there changes an object only.    *)
LEMMA ReplaceFacts ==
  ASSUME TableTyped, Chained, NEW k \in Key, NEW o \in Object,
         IotHashtblReplace(k, o), HashEntry(k) # <<>>
  PROVE  \E e : /\ e = HashEntry(k)[1] /\ e \in Live
                /\ loop = "on" /\ it.e = e => ReplaceInLoop
                /\ hung' = (it.e = e /\ Hangs(-it.d))
                /\ it' = IF hung' THEN it ELSE PositionAfter(e)
                /\ object' = [object EXCEPT ![e] = o] /\ object' \in [Entry -> Object \cup {Nil}]
                /\ UNCHANGED <<key, chain, used, nalloc, nchunk, mask, space, nentry, loopVars>>
<1>1. PICK e : e = HashEntry(k)[1]
  OBVIOUS
<1>2. e \in Live /\ e \in Entry
  BY <1>1, FoundFacts DEF Live
<1>3. /\ loop = "on" /\ it.e = e => ReplaceInLoop
      /\ hung' = (it.e = e /\ Hangs(-it.d))
      /\ it' = IF hung' THEN it ELSE PositionAfter(e)
      /\ object' = [object EXCEPT ![e] = o]
      /\ UNCHANGED <<key, chain, used, nalloc, nchunk, mask, space, nentry, loopVars>>
  BY <1>1 DEF IotHashtblReplace
<1>4. object' \in [Entry -> Object \cup {Nil}]
  BY <1>2, <1>3 DEF TableTyped
<1>. QED BY <1>1, <1>2, <1>3, <1>4

(* The parts of the table stay as they are.                                *)
LEMMA SameStore ==
  ASSUME StoreInv, UNCHANGED <<key, chain, used, nalloc, nchunk, mask, space, nentry>>,
         object' \in [Entry -> Object \cup {Nil}]
  PROVE  StoreInv' /\ Live' = Live
<1>1. Live' = Live
  BY DEF Live
<1>2. \A e : Home(e)' = Home(e)
  BY DEF Home
<1>3. TableTyped'
  BY DEF StoreInv, TableTyped
<1>4. Chained'
  BY <1>1, <1>2 DEF StoreInv, Chained
<1>5. Counted'
  <2>1. \A c \in Chunk : (InChunk(c))' = InChunk(c)
    BY DEF InChunk
  <2>. QED BY <1>1, <2>1 DEF StoreInv, Counted
<1>. QED BY <1>1, <1>3, <1>4, <1>5 DEF StoreInv

(* Whichever step it is, the table's parts agree after it.                 *)
LEMMA StoreStep == StoreInv /\ [HtblNext]_htblVars => StoreInv'
<1> SUFFICES ASSUME StoreInv, [HtblNext]_htblVars PROVE StoreInv'
  OBVIOUS
<1>1. TableTyped /\ Chained /\ Counted
  BY DEF StoreInv
<1>2. ASSUME NEW k \in Key, NEW o \in Object, IotHashtblAdd(k, o) PROVE StoreInv'
  <2>1. PICK e : Added(e, k, o) /\ TableTyped' /\ Counted'
    BY <1>2, AddFacts
  <2>. QED BY <1>1, <2>1, AddChained DEF StoreInv
<1>3. ASSUME UNCHANGED <<tableVars>> PROVE StoreInv'
  <2>1. object' \in [Entry -> Object \cup {Nil}]
    BY <1>1, <1>3 DEF TableTyped, tableVars
  <2>. QED BY <1>3, <2>1, SameStore DEF tableVars
<1>4. CASE \E d \in {1, -1} : IotHashtblBegin(d)
  BY <1>3, <1>4 DEF IotHashtblBegin
<1>5. CASE IotHashtblIter
  BY <1>3, <1>5 DEF IotHashtblIter
<1>6. CASE Break
  BY <1>3, <1>6 DEF Break
<1>7. ASSUME NEW k \in Key, NEW o \in Object, IotHashtblReplace(k, o) PROVE StoreInv'
  <2>1. CASE HashEntry(k) = <<>>
    BY <1>2, <1>7, <2>1 DEF IotHashtblReplace
  <2>2. CASE HashEntry(k) # <<>>
    BY <1>1, <1>7, <2>2, ReplaceFacts, SameStore
  <2>. QED BY <2>1, <2>2
<1>8. ASSUME NEW k \in Key, IotHashtblDel(k) PROVE StoreInv'
  <2>1. PICK e : Deleted(e) /\ TableTyped' /\ Counted'
    BY <1>1, <1>8, DelFacts
  <2>. QED BY <1>1, <2>1, DelChained DEF StoreInv
<1>9. CASE IotHashtblReset
  BY <1>9, ResetFacts
<1>10. CASE UNCHANGED htblVars
  BY <1>3, <1>10 DEF htblVars
<1>. QED BY <1>2, <1>4, <1>5, <1>6, <1>7, <1>8, <1>9, <1>10 DEF HtblNext

-----------------------------------------------------------------------------
(* Iterations.                                                             *)

(* Entries that come do not change the order of those that were there.     *)
LEMMA AddOrder ==
  ASSUME TableTyped, Chained, NEW k \in Key, NEW o, NEW e, Added(e, k, o),
         NEW d \in {-1, 1}, NEW x \in Live, NEW y \in Live
  PROVE  Beyond(x, d, y)' <=> Beyond(x, d, y)
<1>1. /\ e \in Entry \ Live /\ key' = [key EXCEPT ![e] = k]
      /\ chain' = [chain EXCEPT ![Hash[k]] = Append(@, e)]
      /\ used' = IF Hash[k] \in Range(used) THEN used ELSE Append(used, Hash[k])
  BY DEF Added
<1>2. Home(x)' = Home(x) /\ Home(y)' = Home(y)
  BY <1>1 DEF TableTyped, Live, Home
<1>3. /\ Home(x) \in Bucket /\ Home(x) \in Range(used) /\ Home(y) \in Range(used) /\ x # e /\ y # e
  BY <1>1, LiveFacts
<1>4. Hash[k] \in Bucket /\ used \in Seq(Bucket) /\ chain \in [Bucket -> Seq(Entry)]
  BY DEF Bucket, TableTyped
<1>5. Toward(used', d, Home(x), Home(y)) <=> Toward(used, d, Home(x), Home(y))
  <2>1. CASE Hash[k] \in Range(used)
    BY <1>1, <2>1
  <2>2. CASE Hash[k] \notin Range(used)
    BY <1>1, <1>3, <1>4, <2>2, AppendBefore DEF Toward
  <2>. QED BY <2>1, <2>2
<1>6. Toward(chain'[Home(x)], d, x, y) <=> Toward(chain[Home(x)], d, x, y)
  <2>1. chain'[Home(x)] = IF Home(x) = Hash[k] THEN Append(chain[Home(x)], e) ELSE chain[Home(x)]
    BY <1>1, <1>3, <1>4
  <2>2. chain[Home(x)] \in Seq(Entry)
    BY <1>3, <1>4
  <2>. QED BY <1>1, <1>3, <2>1, <2>2, AppendBefore DEF Toward
<1>. QED BY <1>2, <1>5, <1>6 DEF Beyond

(* Nor does one that goes.                                                 *)
LEMMA DelOrder ==
  ASSUME TableTyped, Chained, NEW e, Deleted(e),
         NEW d \in {-1, 1}, NEW x \in Live \ {e}, NEW y \in Live \ {e}
  PROVE  Beyond(x, d, y)' <=> Beyond(x, d, y)
<1>1. /\ e \in Live
      /\ chain' = [chain EXCEPT ![Home(e)] = RemoveFirst(@, e)]
      /\ used' = IF chain'[Home(e)] = <<>> THEN RemoveFirst(used, Home(e)) ELSE used
  BY DEF Deleted
<1>2. Home(x)' = Home(x) /\ Home(y)' = Home(y)
  BY DelChained
<1>3. /\ Home(x) \in Bucket /\ x \in Range(chain[Home(x)]) /\ Home(y) \in Bucket /\ y \in Range(chain[Home(y)])
      /\ Home(e) \in Bucket
      /\ chain[Home(x)] \in Seq(Entry) /\ IsInjective(chain[Home(x)])
  BY <1>1, LiveFacts
<1>4. used \in Seq(Bucket) /\ IsInjective(used) /\ chain \in [Bucket -> Seq(Entry)]
  BY DEF Chained, TableTyped
<1>5. Toward(used', d, Home(x), Home(y)) <=> Toward(used, d, Home(x), Home(y))
  <2>1. CASE chain'[Home(e)] # <<>>
    BY <1>1, <2>1
  <2>2. CASE chain'[Home(e)] = <<>>
    <3>1. Range(chain[Home(e)]) = {e}
      BY <2>2, DelChained
    <3>2. Home(x) # Home(e) /\ Home(y) # Home(e)
      BY <1>3, <3>1
    <3>3. used' = RemoveFirst(used, Home(e))
      BY <1>1, <2>2
    <3>4. \A a, b : Before(used', a, b) <=> Before(used, a, b) /\ a # Home(e) /\ b # Home(e)
      BY <1>4, <3>3, RemoveFirstBefore
    <3>. QED BY <3>2, <3>4 DEF Toward
  <2>. QED BY <2>1, <2>2
<1>6. Toward(chain'[Home(x)], d, x, y) <=> Toward(chain[Home(x)], d, x, y)
  <2>1. chain'[Home(x)] = IF Home(x) = Home(e) THEN RemoveFirst(chain[Home(x)], e) ELSE chain[Home(x)]
    BY <1>1, <1>3, <1>4
  <2>2. \A a, b : Before(RemoveFirst(chain[Home(x)], e), a, b)
                    <=> Before(chain[Home(x)], a, b) /\ a # e /\ b # e
    BY <1>3, RemoveFirstBefore
  <2>3. x # e /\ y # e
    OBVIOUS
  <2>. QED BY <2>1, <2>2, <2>3 DEF Toward
<1>. QED BY <1>2, <1>5, <1>6 DEF Beyond

(* An iteration moved back from the entry it is at has the same entries    *)
(* ahead of it as before, that one but for.                                *)
LEMMA BackFacts ==
  ASSUME TableTyped, Chained, Placed, it.e \in Entry
  PROVE  /\ it.d \in {-1, 1} /\ it.e \in Live /\ Hangs(-it.d) = FALSE
         /\ \/ /\ MovedBack = Nowhere(it.d)
               /\ \A z \in Live : z # it.e => Beyond(it.e, it.d, z)
            \/ \E y \in Live :
                 /\ y # it.e /\ MovedBack = [b |-> Home(y), e |-> y, d |-> it.d]
                 /\ \A z \in Live : z # it.e => (Beyond(y, it.d, z) <=> Beyond(it.e, it.d, z))
<1>1. Nil \notin Entry /\ it.b # Nil
  BY NilAssumption DEF Placed
<1>2. it.d \in {-1, 1} /\ it.e \in Live /\ -it.d \in {-1, 1}
  <2>1. it.d \in {-1, 1} /\ it.b \in Bucket /\ it.e \in Range(chain[it.b])
    BY <1>1 DEF Placed
  <2>. QED BY <2>1, LiveFacts
<1>3. PICK d \in {-1, 1} : d = it.d
  BY <1>2
<1>4. PICK x \in Live : x = it.e
  BY <1>2
<1>5. /\ \A a \in Live, b \in Live : a = b \/ Beyond(a, d, b) \/ Beyond(b, d, a)
      /\ \A a \in Live, b \in Live : Beyond(a, d, b) => a # b /\ ~Beyond(b, d, a)
      /\ \A a \in Live, b \in Live, c \in Live : Beyond(a, d, b) /\ Beyond(b, d, c) => Beyond(a, d, c)
      /\ \A a \in Live, b \in Live : Beyond(a, d, b) <=> Beyond(b, -d, a)
  BY OrderFacts
<1>6. /\ Hangs(-d) = FALSE
      /\ \/ /\ Step(-d) = Nowhere(0)
            /\ \A z \in Live : ~Beyond(x, -d, z)
         \/ \E y \in Live :
              /\ Step(-d) = [b |-> Home(y), e |-> y, d |-> d]
              /\ Beyond(x, -d, y)
              /\ \A z \in Live : Beyond(x, -d, z) => z = y \/ Beyond(y, -d, z)
  BY <1>1, <1>2, <1>3, <1>4, StepFacts
<1>7. MovedBack = IF Step(-d).b = Nil THEN Nowhere(d) ELSE Step(-d)
  BY <1>3 DEF MovedBack
<1>8. CASE Step(-d) = Nowhere(0) /\ \A z \in Live : ~Beyond(x, -d, z)
  <2>1. MovedBack = Nowhere(d)
    BY <1>7, <1>8 DEF Nowhere
  <2>2. \A z \in Live : z # x => Beyond(x, d, z)
    BY <1>5, <1>8
  <2>. QED BY <1>2, <1>3, <1>4, <1>6, <2>1, <2>2
<1>9. ASSUME NEW y \in Live, Step(-d) = [b |-> Home(y), e |-> y, d |-> d], Beyond(x, -d, y),
             \A z \in Live : Beyond(x, -d, z) => z = y \/ Beyond(y, -d, z)
      PROVE  /\ y # x /\ MovedBack = [b |-> Home(y), e |-> y, d |-> d]
             /\ \A z \in Live : z # x => (Beyond(y, d, z) <=> Beyond(x, d, z))
  <2>1. Home(y) # Nil
    BY LiveFacts, NilAssumption
  <2>2. MovedBack = [b |-> Home(y), e |-> y, d |-> d]
    BY <1>7, <1>9, <2>1
  <2>3. Beyond(y, d, x) /\ y # x
    BY <1>5, <1>9
  <2>4. ASSUME NEW z \in Live, z # x, Beyond(x, d, z) PROVE Beyond(y, d, z)
    BY <1>5, <2>3, <2>4
  <2>5. ASSUME NEW z \in Live, z # x, ~Beyond(x, d, z) PROVE ~Beyond(y, d, z)
    <3>1. Beyond(x, -d, z)
      BY <1>5, <2>5
    <3>2. z = y \/ Beyond(z, d, y)
      BY <1>5, <1>9, <3>1
    <3>. QED BY <1>5, <3>2
  <2>. QED BY <2>2, <2>3, <2>4, <2>5
<1>. QED BY <1>2, <1>3, <1>4, <1>6, <1>8, <1>9

(* An entry that is added is unvisited, and ahead of an iteration or not.  *)
LEMMA AddWalk ==
  ASSUME StoreInv, Placed, NEW k \in Key, NEW o \in Object, IotHashtblAdd(k, o)
  PROVE  Placed' /\ (Walked => Walked')
<1>1. TableTyped /\ Chained /\ Counted /\ Placed
  BY DEF StoreInv
<1>2. PICK e : Added(e, k, o) /\ TableTyped' /\ Counted'
  BY AddFacts
<1>3. /\ e \in Entry \ Live /\ Live' = Live \cup {e}
      /\ key' = [key EXCEPT ![e] = k]
      /\ chain' = [chain EXCEPT ![Hash[k]] = Append(@, e)]
      /\ used' = IF Hash[k] \in Range(used) THEN used ELSE Append(used, Hash[k])
      /\ UNCHANGED <<it, hung, loop, stable, visits>>
  BY <1>2 DEF Added
<1>4. Hash[k] \in Bucket /\ used \in Seq(Bucket) /\ Range(used) \subseteq Bucket
  BY <1>1, MembersOf DEF Bucket, TableTyped
<1>5. \A b \in Bucket : /\ Range(chain[b]) \subseteq Range(chain'[b])
                        /\ chain'[b] # chain[b] => b = Hash[k]
                        /\ b = Hash[k] => e \in Range(chain'[b])
  <2>1. ASSUME NEW b \in Bucket
        PROVE  /\ Range(chain[b]) \subseteq Range(chain'[b])
               /\ chain'[b] # chain[b] => b = Hash[k]
               /\ b = Hash[k] => e \in Range(chain'[b])
    <3>1. chain[b] \in Seq(Entry) /\ chain'[b] = IF b = Hash[k] THEN Append(chain[b], e) ELSE chain[b]
      BY <1>1, <1>3 DEF TableTyped
    <3>. QED BY <1>3, <3>1, AppendFacts
  <2>. QED BY <2>1
<1>6. Placed'
  <2>1. Range(used') \subseteq Range(used) \cup {Hash[k]}
    BY <1>3, <1>4, AppendFacts
  <2>2. \A b \in Range(used') : chain'[b] # <<>>
    <3>1. Range(<<>>) = {}
      BY DEF Range
    <3>2. \A b \in Range(used) : chain[b] # <<>>
      BY <1>1 DEF Placed
    <3>. QED BY <1>4, <1>5, <2>1, <3>1, <3>2
  <2>3. it.b # Nil => it.b \in Bucket /\ it.e \in Range(chain'[it.b])
    BY <1>1, <1>5 DEF Placed
  <2>. QED BY <1>1, <1>3, <2>2, <2>3 DEF Placed
<1>7. \A f \in Live : Ahead(f)' <=> Ahead(f)
  <2>1. ASSUME NEW f \in Live PROVE Ahead(f)' <=> Ahead(f)
    <3>1. CASE it.b = Nil
      BY <1>3, <3>1 DEF Ahead
    <3>2. CASE it.b # Nil
      <4>1. it.d \in {-1, 1} /\ it.e \in Live
        BY <1>1, <3>2, LiveFacts DEF Placed
      <4>2. PICK d \in {-1, 1}, x \in Live : d = it.d /\ x = it.e
        BY <4>1
      <4>3. Beyond(x, d, f)' <=> Beyond(x, d, f)
        BY <1>1, <1>2, AddOrder
      <4>. QED BY <1>3, <3>2, <4>2, <4>3 DEF Ahead
    <3>. QED BY <3>1, <3>2
  <2>. QED BY <2>1
<1>8. ASSUME Walked PROVE Walked'
  <2>1. stable' \in SUBSET Live' /\ visits' \in [Entry -> {0, 1}] /\ \A f \in Entry \ Live' : visits'[f] = 0
    BY <1>3, <1>8 DEF Walked
  <2>2. visits[e] = 0 /\ e \notin stable /\ stable \subseteq Live
    BY <1>3, <1>8 DEF Walked
  <2>. QED BY <1>3, <1>7, <1>8, <2>1, <2>2 DEF Walked
<1>. QED BY <1>6, <1>8

(* An entry that is deleted is not waited for, and the others stay ahead   *)
(* or behind.                                                              *)
LEMMA DelWalk ==
  ASSUME StoreInv, Placed, NEW k \in Key, IotHashtblDel(k)
  PROVE  Placed' /\ (Walked => Walked')
<1>1. TableTyped /\ Chained /\ Counted /\ Placed
  BY DEF StoreInv
<1>2. PICK e : Deleted(e) /\ TableTyped' /\ Counted'
  BY <1>1, DelFacts
<1>3. /\ e \in Live /\ e \in Entry /\ Live' = Live \ {e}
      /\ hung' = (it.e = e /\ Hangs(-it.d))
      /\ it' = IF hung' THEN it ELSE PositionAfter(e)
      /\ stable' = stable \ {e} /\ visits' = [visits EXCEPT ![e] = 0]
      /\ loop' = loop
  BY <1>2 DEF Deleted, Live
<1>4. /\ \A b \in Bucket : Range(chain'[b]) = Range(chain[b]) \ {e}
      /\ Range(used') = IF Range(chain[Home(e)]) = {e} THEN Range(used) \ {Home(e)} ELSE Range(used)
      /\ \A f \in Live \ {e} : Home(f)' = Home(f)
  BY <1>1, <1>2, DelChained
<1>5. \A b \in Range(used') : chain'[b] # <<>>
  <2>1. SUFFICES ASSUME NEW b \in Range(used'), chain'[b] = <<>> PROVE FALSE
    OBVIOUS
  <2>2. Range(<<>>) = {} /\ Range(used) \subseteq Bucket /\ b \in Range(used)
    <3>1. Range(<<>>) = {}
      BY DEF Range
    <3>2. Range(used) \subseteq Bucket
      BY <1>1, MembersOf DEF TableTyped
    <3>. QED BY <1>4, <3>1, <3>2
  <2>3. chain[b] # <<>> /\ Range(chain[b]) \subseteq {e}
    BY <1>1, <1>4, <2>1, <2>2 DEF Placed
  <2>4. Range(chain[b]) = {e}
    BY <1>1, <2>2, <2>3, LiveFacts
  <2>5. Home(e) = b
    BY <1>1, <2>2, <2>4, LiveFacts
  <2>. QED BY <1>4, <2>4, <2>5
<1>6. Nil \notin Entry /\ Nil \notin Bucket
  BY NilAssumption
<1>7. /\ hung' = FALSE /\ it' \in [b : Bucket \cup {Nil}, e : Entry \cup {Nil}, d : {-1, 0, 1}]
      /\ it'.d = it.d
      /\ IF it'.b = Nil THEN it'.e = Nil
         ELSE it'.e \in Range(chain'[it'.b]) /\ it'.d \in {-1, 1} /\ it'.e \in Live \ {e}
      /\ \A f \in Live \ {e} : Ahead(f)' <=> Ahead(f)
  <2>1. CASE it.e # e
    <3>1. hung' = FALSE /\ it' = it
      BY <1>3, <2>1 DEF PositionAfter
    <3>2. it.b # Nil => it.e \in Range(chain[it.b]) /\ it.b \in Bucket /\ it.e \in Live /\ it.d \in {-1, 1}
      BY <1>1, LiveFacts DEF Placed
    <3>3. it.b # Nil => it.e \in Range(chain'[it.b])
      BY <1>4, <2>1, <3>2
    <3>4. ASSUME NEW f \in Live \ {e} PROVE Ahead(f)' <=> Ahead(f)
      <4>1. CASE it.b = Nil
        BY <3>1, <4>1 DEF Ahead
      <4>2. CASE it.b # Nil
        <5>1. PICK d \in {-1, 1}, x \in Live \ {e} : d = it.d /\ x = it.e
          BY <2>1, <3>2, <4>2
        <5>2. Beyond(x, d, f)' <=> Beyond(x, d, f)
          BY <1>1, <1>2, DelOrder
        <5>. QED BY <3>1, <4>2, <5>1, <5>2 DEF Ahead
      <4>. QED BY <4>1, <4>2
    <3>. QED BY <1>1, <2>1, <3>1, <3>2, <3>3, <3>4 DEF Placed
  <2>2. CASE it.e = e
    <3>1. it.d \in {-1, 1} /\ it.b # Nil /\ hung' = FALSE /\ it' = MovedBack
      BY <1>1, <1>3, <1>6, <2>2, BackFacts DEF PositionAfter, Placed
    <3>2. \/ /\ MovedBack = Nowhere(it.d)
             /\ \A z \in Live : z # e => Beyond(e, it.d, z)
          \/ \E y \in Live :
               /\ y # e /\ MovedBack = [b |-> Home(y), e |-> y, d |-> it.d]
               /\ \A z \in Live : z # e => (Beyond(y, it.d, z) <=> Beyond(e, it.d, z))
      BY <1>1, <1>3, <2>2, BackFacts
    <3>3. CASE MovedBack = Nowhere(it.d) /\ \A z \in Live : z # e => Beyond(e, it.d, z)
      <4>1. it' = [b |-> Nil, e |-> Nil, d |-> it.d]
        BY <3>1, <3>3 DEF Nowhere
      <4>2. \A f \in Live \ {e} : Ahead(f)' <=> Ahead(f)
        BY <2>2, <3>3, <4>1 DEF Ahead
      <4>. QED BY <3>1, <4>1, <4>2
    <3>4. ASSUME NEW y \in Live, y # e, MovedBack = [b |-> Home(y), e |-> y, d |-> it.d],
                 \A z \in Live : z # e => (Beyond(y, it.d, z) <=> Beyond(e, it.d, z))
          PROVE  /\ hung' = FALSE /\ it' \in [b : Bucket \cup {Nil}, e : Entry \cup {Nil}, d : {-1, 0, 1}]
                 /\ it'.d = it.d /\ it'.b # Nil
                 /\ it'.e \in Range(chain'[it'.b]) /\ it'.d \in {-1, 1} /\ it'.e \in Live \ {e}
                 /\ \A f \in Live \ {e} : Ahead(f)' <=> Ahead(f)
      <4>1. it' = [b |-> Home(y), e |-> y, d |-> it.d]
        BY <3>1, <3>4
      <4>2. Home(y) \in Bucket /\ y \in Entry /\ y \in Range(chain[Home(y)])
        BY <1>1, LiveFacts DEF Live
      <4>3. y \in Range(chain'[Home(y)])
        BY <1>4, <3>4, <4>2
      <4>4. ASSUME NEW f \in Live \ {e} PROVE Ahead(f)' <=> Ahead(f)
        <5>1. PICK d \in {-1, 1} : d = it.d
          BY <3>1
        <5>2. Beyond(y, d, f)' <=> Beyond(y, d, f)
          BY <1>1, <1>2, <3>4, DelOrder
        <5>3. Beyond(y, d, f) <=> Beyond(e, d, f)
          BY <3>4, <5>1
        <5>4. it'.b # Nil /\ it'.e = y /\ it'.d = d
          BY <1>6, <4>1, <4>2, <5>1
        <5>. QED BY <2>2, <3>1, <5>1, <5>2, <5>3, <5>4 DEF Ahead
      <4>. QED BY <1>6, <3>1, <3>4, <4>1, <4>2, <4>3, <4>4
    <3>. QED BY <3>2, <3>3, <3>4
  <2>. QED BY <2>1, <2>2
<1>8. Placed'
  BY <1>1, <1>3, <1>5, <1>7 DEF Placed
<1>9. ASSUME Walked PROVE Walked'
  <2>1. stable' \in SUBSET Live' /\ visits' \in [Entry -> {0, 1}] /\ \A f \in Entry \ Live' : visits'[f] = 0
    BY <1>3, <1>9 DEF Walked
  <2>2. \A f \in Live \ {e} : visits'[f] = visits[f]
    BY <1>3, <1>9 DEF Walked, Live
  <2>3. stable \subseteq Live
    BY <1>9 DEF Walked
  <2>. QED BY <1>3, <1>9, <1>7, <2>1, <2>2, <2>3 DEF Walked
<1>. QED BY <1>8, <1>9

(* An iteration comes to the next entry ahead of it, and ends when there   *)
(* is none.                                                                *)
LEMMA IterWalk ==
  ASSUME StoreInv, Placed, IotHashtblIter
  PROVE  Placed' /\ (Walked => Walked')
<1>1. TableTyped /\ Chained /\ Placed
  BY DEF StoreInv
<1>2. /\ loop = "on" /\ hung' = Hangs(it.d)
      /\ it' = IF hung' THEN it ELSE Step(it.d)
      /\ loop' = IF it'.b = Nil /\ ~hung' THEN "ended" ELSE "on"
      /\ visits' = IF it'.e = Nil \/ hung' THEN visits ELSE [visits EXCEPT ![it'.e] = @ + 1]
      /\ stable' = stable /\ UNCHANGED <<key, chain, used>>
  BY DEF IotHashtblIter, tableVars
<1>3. PICK d \in {-1, 1} : d = it.d
  BY <1>1, <1>2 DEF Placed
<1>4. Nil \notin Entry /\ Nil \notin Bucket
  BY NilAssumption
<1>5. hung' = FALSE /\ it' = Step(d)
  BY <1>1, <1>2, <1>3, StepFacts
<1>6. Live' = Live /\ \A e : Home(e)' = Home(e)
  BY <1>2 DEF Live, Home
<1>7. \A x, y : Beyond(x, d, y)' <=> Beyond(x, d, y)
  BY <1>2, <1>6 DEF Beyond, Toward
<1>8. CASE Step(d) = Nowhere(0) /\ \A z \in Live : it.b # Nil /\ ~Beyond(it.e, d, z)
  <2>1. it' = [b |-> Nil, e |-> Nil, d |-> 0] /\ loop' = "ended" /\ visits' = visits
    BY <1>2, <1>5, <1>8 DEF Nowhere
  <2>2. Placed'
    BY <1>1, <1>2, <1>5, <2>1 DEF Placed
  <2>3. \A z \in Live : ~Ahead(z)
    BY <1>3, <1>8 DEF Ahead
  <2>4. ASSUME Walked PROVE Walked'
    <3>1. \A e \in stable : e \in Live /\ visits[e] = 1
      BY <1>2, <2>3, <2>4 DEF Walked
    <3>. QED BY <1>2, <1>6, <2>1, <2>4, <3>1 DEF Walked
  <2>. QED BY <2>2, <2>4
<1>9. ASSUME NEW y \in Live, Step(d) = [b |-> Home(y), e |-> y, d |-> it.d],
             it.b # Nil => Beyond(it.e, d, y),
             \A z \in Live : (it.b = Nil \/ Beyond(it.e, d, z)) => z = y \/ Beyond(y, d, z)
      PROVE  Placed' /\ (Walked => Walked')
  <2>1. Home(y) \in Bucket /\ y \in Range(chain[Home(y)]) /\ y \in Entry
    BY <1>1, LiveFacts DEF Live
  <2>2. it' = [b |-> Home(y), e |-> y, d |-> d]
    BY <1>3, <1>5, <1>9
  <2>3. it'.b = Home(y) /\ it'.e = y /\ it'.d = d /\ it'.b # Nil /\ it'.e # Nil
    BY <1>4, <2>1, <2>2
  <2>4. loop' = "on" /\ visits' = [visits EXCEPT ![y] = @ + 1]
    BY <1>2, <1>5, <2>3
  <2>5. Placed'
    BY <1>1, <1>2, <1>5, <2>1, <2>2, <2>3, <2>4 DEF Placed
  <2>6. Ahead(y)
    BY <1>3, <1>9 DEF Ahead
  <2>7. \A z \in Live : Ahead(z)' <=> Beyond(y, d, z)
    BY <1>7, <2>3 DEF Ahead
  <2>8. /\ \A a \in Live, b \in Live : Beyond(a, d, b) => a # b /\ ~Beyond(b, d, a)
        /\ \A a \in Live, b \in Live, c \in Live : Beyond(a, d, b) /\ Beyond(b, d, c) => Beyond(a, d, c)
    BY <1>1, OrderFacts
  <2>9. ASSUME NEW z \in Live PROVE Ahead(z)' <=> Ahead(z) /\ z # y
    <3>1. CASE it.b = Nil
      BY <1>9, <2>7, <2>8, <3>1 DEF Ahead
    <3>2. CASE it.b # Nil
      <4>1. it.e \in Live
        BY <1>1, <3>2, LiveFacts DEF Placed
      <4>. QED BY <1>3, <1>9, <2>7, <2>8, <3>2, <4>1 DEF Ahead
    <3>. QED BY <3>1, <3>2
  <2>10. ASSUME Walked PROVE Walked'
    <3>1. /\ stable \in SUBSET Live /\ visits \in [Entry -> {0, 1}] /\ visits[y] = 0
          /\ \A e \in Entry \ Live : visits[e] = 0
          /\ \A e \in Live : Ahead(e) => visits[e] = 0
          /\ \A e \in stable : ~Ahead(e) => visits[e] = 1
      BY <1>2, <2>6, <2>10 DEF Walked
    <3>2. visits' \in [Entry -> {0, 1}] /\ visits'[y] = 1 /\ \A e \in Entry \ {y} : visits'[e] = visits[e]
      BY <2>1, <2>4, <3>1
    <3>3. \A e \in Live : Ahead(e)' => visits'[e] = 0
      BY <2>9, <3>1, <3>2 DEF Live
    <3>4. \A e \in stable : ~(Ahead(e)') => visits'[e] = 1
      BY <2>9, <3>1, <3>2 DEF Live
    <3>. QED BY <1>2, <1>6, <2>4, <3>1, <3>2, <3>3, <3>4 DEF Walked
  <2>. QED BY <2>5, <2>10
<1>. QED BY <1>1, <1>8, <1>9, StepFacts

(* iot_hashtbl_replace() moves no iteration but one that nobody is in.     *)
LEMMA ReplaceWalk ==
  ASSUME StoreInv, Placed, NEW k \in Key, NEW o \in Object,
         IotHashtblReplace(k, o), HashEntry(k) # <<>>
  PROVE  Placed' /\ (~ReplaceInLoop /\ Walked => Walked')
<1>1. TableTyped /\ Chained /\ Placed
  BY DEF StoreInv
<1>2. PICK e : /\ e = HashEntry(k)[1] /\ e \in Live
               /\ loop = "on" /\ it.e = e => ReplaceInLoop
               /\ hung' = (it.e = e /\ Hangs(-it.d))
               /\ it' = IF hung' THEN it ELSE PositionAfter(e)
               /\ object' \in [Entry -> Object \cup {Nil}]
               /\ UNCHANGED <<key, chain, used, nalloc, nchunk, mask, space, nentry, loopVars>>
  BY <1>1, ReplaceFacts
<1>3. Live' = Live /\ \A f : Home(f)' = Home(f)
  BY <1>2 DEF Live, Home
<1>4. CASE it.e # e
  <2>1. it' = it /\ hung' = FALSE
    BY <1>2, <1>4 DEF PositionAfter
  <2>2. \A f : Ahead(f)' <=> Ahead(f)
    BY <1>2, <1>3, <2>1 DEF Ahead, Beyond, Toward
  <2>3. Placed'
    BY <1>1, <1>2, <2>1 DEF Placed, loopVars
  <2>4. ASSUME Walked PROVE Walked'
    BY <1>2, <1>3, <2>2, <2>4 DEF Walked, loopVars
  <2>. QED BY <2>3, <2>4
<1>5. CASE it.e = e
  <2>1. /\ it.d \in {-1, 1} /\ hung' = FALSE /\ it' = MovedBack
        /\ \/ MovedBack = Nowhere(it.d)
           \/ \E y \in Live : MovedBack = [b |-> Home(y), e |-> y, d |-> it.d]
    BY <1>1, <1>2, <1>5, BackFacts DEF PositionAfter, Live
  <2>2. /\ it' \in [b : Bucket \cup {Nil}, e : Entry \cup {Nil}, d : {-1, 0, 1}]
        /\ it'.d = it.d
        /\ IF it'.b = Nil THEN it'.e = Nil ELSE it'.e \in Range(chain[it'.b])
    <3>1. CASE MovedBack = Nowhere(it.d)
      BY <2>1, <3>1 DEF Nowhere
    <3>2. ASSUME NEW y \in Live, MovedBack = [b |-> Home(y), e |-> y, d |-> it.d]
          PROVE  /\ it' \in [b : Bucket \cup {Nil}, e : Entry \cup {Nil}, d : {-1, 0, 1}]
                 /\ it'.d = it.d
                 /\ IF it'.b = Nil THEN it'.e = Nil ELSE it'.e \in Range(chain[it'.b])
      <4>1. Home(y) \in Bucket /\ y \in Range(chain[Home(y)]) /\ y \in Entry /\ Home(y) # Nil
        BY <1>1, LiveFacts, NilAssumption DEF Live
      <4>. QED BY <2>1, <3>2, <4>1
    <3>. QED BY <2>1, <3>1, <3>2
  <2>3. Placed'
    BY <1>1, <1>2, <2>1, <2>2 DEF Placed, loopVars
  <2>4. ASSUME Walked, ~ReplaceInLoop PROVE Walked'
    BY <1>2, <1>3, <1>5, <2>4 DEF Walked, loopVars
  <2>. QED BY <2>3, <2>4
<1>. QED BY <1>4, <1>5

(* A table that is reset only when empty leaves an iteration nowhere.      *)
LEMMA ResetWalk ==
  ASSUME StoreInv, Placed, IotHashtblReset, ~ResetUsed
  PROVE  Placed' /\ (Walked => Walked')
<1>1. TableTyped /\ Chained /\ Counted /\ Placed
  BY DEF StoreInv
<1>2. /\ loop # "on" /\ ~(nentry > 0)
      /\ UNCHANGED <<used, it, hung, loop>>
      /\ stable' = {} /\ visits' = [e \in Entry |-> 0]
  BY DEF IotHashtblReset
<1>3. Live = {}
  <2>1. Cardinality(Live) = 0
    BY <1>1, <1>2 DEF Counted, TableTyped
  <2>2. IsFiniteSet(Live)
    BY ChunkFacts, FS_Subset DEF Live
  <2>. QED BY <2>1, <2>2, FS_EmptySet
<1>4. \A b \in Bucket : Range(chain[b]) = {} /\ chain[b] = <<>>
  BY <1>1, <1>3, LiveFacts
<1>5. Range(used) = {}
  <2>1. Range(used) \subseteq Bucket
    BY <1>1, MembersOf DEF TableTyped
  <2>. QED BY <1>1, <1>4, <2>1 DEF Placed
<1>6. it.b = Nil
  BY <1>1, <1>4 DEF Placed
<1>7. Placed'
  BY <1>1, <1>2, <1>5, <1>6 DEF Placed
<1>8. Live' = {}
  BY ResetFacts
<1>9. Walked'
  BY <1>2, <1>8 DEF Walked
<1>. QED BY <1>7, <1>9

(* Whichever step it is, an iteration is at an entry of the table and has  *)
(* visited what it should.                                                 *)
LEMMA WalkStep ==
  ASSUME StoreInv, Placed, [HtblNext]_htblVars, ~ResetUsed
  PROVE  Placed' /\ (~ReplaceInLoop /\ Walked => Walked')
<1>1. TableTyped /\ Chained /\ Counted
  BY DEF StoreInv
<1>2. ASSUME UNCHANGED <<key, chain, used>>
      PROVE  Live' = Live /\ (\A e : Home(e)' = Home(e)) /\ \A x, d, y : Beyond(x, d, y)' <=> Beyond(x, d, y)
  BY <1>2 DEF Live, Home, Beyond, Toward
<1>3. ASSUME NEW k \in Key, NEW o \in Object, IotHashtblAdd(k, o) \/ IotHashtblReplace(k, o)
      PROVE  Placed' /\ (~ReplaceInLoop /\ Walked => Walked')
  <2>1. CASE HashEntry(k) = <<>> \/ IotHashtblAdd(k, o)
    <3>1. IotHashtblAdd(k, o)
      BY <1>3, <2>1 DEF IotHashtblReplace
    <3>. QED BY <3>1, AddWalk
  <2>2. CASE HashEntry(k) # <<>> /\ IotHashtblReplace(k, o)
    BY <2>2, ReplaceWalk
  <2>. QED BY <1>3, <2>1, <2>2
<1>4. CASE \E d \in {1, -1} : IotHashtblBegin(d)
  <2>1. PICK d \in {-1, 1} : IotHashtblBegin(d)
    BY <1>4
  <2>2. /\ it' = [b |-> Nil, e |-> Nil, d |-> d] /\ loop' = "on" /\ hung' = hung
        /\ stable' = Live /\ visits' = [e \in Entry |-> 0] /\ UNCHANGED <<key, chain, used>>
    BY <2>1 DEF IotHashtblBegin, Nowhere, tableVars
  <2>3. Placed'
    BY <2>2 DEF Placed
  <2>4. \A e : Ahead(e)'
    BY <2>2 DEF Ahead
  <2>5. Live \subseteq Entry /\ Live' = Live
    BY <1>2, <2>2 DEF Live
  <2>6. Walked'
    BY <2>2, <2>4, <2>5 DEF Walked
  <2>. QED BY <2>3, <2>6
<1>5. CASE IotHashtblIter
  BY <1>5, IterWalk
<1>6. CASE Break
  <2>1. /\ loop' = "off" /\ stable' = {} /\ visits' = [e \in Entry |-> 0]
        /\ UNCHANGED <<key, chain, used, it, hung>>
    BY <1>6 DEF Break, tableVars
  <2>2. Placed'
    BY <2>1 DEF Placed
  <2>3. Walked'
    BY <1>2, <2>1 DEF Walked
  <2>. QED BY <2>2, <2>3
<1>7. CASE \E k \in Key : IotHashtblDel(k)
  BY <1>7, DelWalk
<1>8. CASE IotHashtblReset
  BY <1>8, ResetWalk
<1>9. CASE UNCHANGED htblVars
  <2>1. UNCHANGED <<key, chain, used, it, hung, loop, stable, visits>>
    BY <1>9 DEF htblVars, tableVars, loopVars
  <2>2. Placed'
    BY <2>1 DEF Placed
  <2>3. \A e : Ahead(e)' <=> Ahead(e)
    BY <1>2, <2>1 DEF Ahead
  <2>4. ASSUME Walked PROVE Walked'
    BY <1>2, <2>1, <2>3, <2>4 DEF Walked
  <2>. QED BY <2>2, <2>4
<1>. QED BY <1>3, <1>4, <1>5, <1>6, <1>7, <1>8, <1>9 DEF HtblNext

(* The parts of a table agree, whatever its users do, as long as none is   *)
(* reset with entries in it.                                               *)
THEOREM TableSafety ==
  ASSUME ~ResetUsed
  PROVE  HtblSpec => []TableConsistent
<1>1. HtblInit => StoreInv /\ Placed
  BY InitStore DEF WalkInv
<1>2. StoreInv /\ Placed /\ [HtblNext]_htblVars => (StoreInv /\ Placed)'
  BY StoreStep, WalkStep
<1>3. StoreInv /\ Placed => TableConsistent
  <2> SUFFICES ASSUME StoreInv, Placed PROVE TableConsistent
    OBVIOUS
  <2>1. TableTyped /\ Chained /\ Counted
    BY DEF StoreInv
  <2>2. \A b \in Bucket : /\ IsInjective(chain[b])
                          /\ Range(chain[b]) = {e \in Live : Hash[key[e]] = b}
    BY <2>1 DEF Chained, Home
  <2>3. IsInjective(used) /\ Range(used) = {b \in Bucket : chain[b] # <<>>}
    <3>1. Range(used) \subseteq Bucket
      BY <2>1, MembersOf DEF TableTyped
    <3>. QED BY <2>1, <3>1 DEF Chained, Placed
  <2>4. UNION {mask[c] : c \in Chunk} = Live
    <3>1. \A e \in Live : ChunkOf(e) \in Chunk /\ e \in InChunk(ChunkOf(e))
      BY DEF Live, Chunk, InChunk
    <3>. QED BY <2>1, <3>1 DEF Counted
  <2>5. Cardinality(Live) = nentry /\ (nalloc = nchunk * PerChunk \/ nalloc = Limit)
    BY <2>1 DEF Counted
  <2>6. nentry < nalloc => FirstSpace(space, nalloc) <= Len(space)
    <3>1. ASSUME nentry < nalloc PROVE FirstSpace(space, nalloc) \in 1 .. Len(space)
      BY <2>1, <3>1, SpaceFacts DEF TableTyped, Counted
    <3>2. Len(space) \in Nat
      BY <2>1, LenProperties DEF TableTyped
    <3>. QED BY <3>1, <3>2
  <2>7. it.b # Nil => it.e \in Range(chain[it.b])
    BY DEF Placed
  <2>. QED BY <2>2, <2>3, <2>4, <2>5, <2>6, <2>7 DEF TableConsistent
<1>. QED BY <1>1, <1>2, <1>3, PTL DEF HtblSpec

(* An iteration comes to every entry that is there from its beginning to   *)
(* its end and to none twice, whatever is added and deleted on the way, as *)
(* long as the entry it is at is not replaced.                             *)
THEOREM IterationSafety ==
  ASSUME ~ResetUsed, ~ReplaceInLoop
  PROVE  HtblSpec => []VisitedOnce
<1>1. HtblInit => WalkInv
  BY InitStore
<1>2. WalkInv /\ [HtblNext]_htblVars => WalkInv'
  BY StoreStep, WalkStep DEF WalkInv
<1>3. WalkInv => VisitedOnce
  BY DEF WalkInv, Walked, VisitedOnce
<1>. QED BY <1>1, <1>2, <1>3, PTL DEF HtblSpec

-----------------------------------------------------------------------------
(* Searches of lists that change.                                          *)

(* A loop takes the same members for two sets that agree on the list.      *)
LEMMA KeepSame ==
  ASSUME NEW S, NEW s \in Seq(S), NEW T, NEW U, \A x \in Range(s) : x \in T <=> x \in U
  PROVE  Keep(s, T) = Keep(s, U)
<1> DEFINE Good == {t \in Seq(S) : (\A x \in Range(t) : x \in T <=> x \in U) => Keep(t, T) = Keep(t, U)}
<1>1. <<>> \in Good
  BY KeepEmpty
<1>2. ASSUME NEW t \in Good, NEW x \in S PROVE Append(t, x) \in Good
  <2>1. t \in Seq(S) /\ Append(t, x) \in Seq(S) /\ Range(Append(t, x)) = Range(t) \cup {x}
    BY AppendFacts
  <2>2. /\ Keep(Append(t, x), T) = IF x \in T THEN Append(Keep(t, T), x) ELSE Keep(t, T)
        /\ Keep(Append(t, x), U) = IF x \in U THEN Append(Keep(t, U), x) ELSE Keep(t, U)
    BY <2>1, KeepAppend
  <2>. QED BY <2>1, <2>2
<1>3. Good = Seq(S)
  <2>1. Good \in SUBSET Seq(S)
    OBVIOUS
  <2> HIDE DEF Good
  <2>. QED BY <1>1, <1>2, <2>1, GrownByAppend
<1>4. s \in Good
  <2> HIDE DEF Good
  <2>. QED BY <1>3
<1>. QED BY <1>4

(* Deleting from a list with one more member behind.                       *)
LEMMA RemoveFromAppended ==
  ASSUME NEW S, NEW s \in Seq(S), IsInjective(s), NEW y \in S, y \notin Range(s), NEW x
  PROVE  /\ x \notin Range(s) => RemoveFirst(s, x) = s
         /\ RemoveFirst(Append(s, y), x) =
              IF x = y THEN s ELSE Append(RemoveFirst(s, x), y)
<1>1. PICK n \in Nat : n = Len(s) /\ DOMAIN s = 1 .. n /\ \A i \in 1 .. n : s[i] \in S
  BY LenProperties, ElementOfSeq
<1>2. PICK u : u = Append(s, y)
  OBVIOUS
<1>3. /\ u \in Seq(S) /\ Len(u) = n + 1 /\ (\A i \in 1 .. n : u[i] = s[i]) /\ u[n + 1] = y
      /\ IsInjective(u) /\ Range(u) = Range(s) \cup {y}
  <2>1. /\ u \in Seq(S) /\ Len(u) = n + 1 /\ (\A i \in 1 .. n : u[i] = s[i]) /\ u[n + 1] = y
    BY <1>1, <1>2, AppendProperties
  <2>. QED BY <1>2, <2>1, AppendFacts
<1>4. DOMAIN u = 1 .. n + 1
  BY <1>3, LenProperties
<1>5. \A i \in 1 .. n : s[i] \in Range(s)
  BY <1>1 DEF Range
<1>6. x \notin Range(s) => RemoveFirst(s, x) = s
  BY <1>1, <1>5 DEF RemoveFirst
<1>7. CASE x \notin Range(u)
  <2>1. \A i \in 1 .. n + 1 : u[i] \in Range(u)
    BY <1>4 DEF Range
  <2>2. RemoveFirst(u, x) = u
    BY <1>3, <1>7, <2>1 DEF RemoveFirst
  <2>. QED BY <1>2, <1>3, <1>6, <1>7, <2>2
<1>8. CASE x \in Range(u)
  <2>1. PICK t : t = RemoveFirst(u, x)
    OBVIOUS
  <2>2. PICK k \in 1 .. n + 1 :
          /\ u[k] = x /\ t \in Seq(S) /\ Len(t) = n
          /\ \A i \in 1 .. n : t[i] = IF i < k THEN u[i] ELSE u[i + 1]
    <3>1. PICK k \in 1 .. Len(u) :
            /\ u[k] = x /\ t \in Seq(S) /\ Len(t) = Len(u) - 1
            /\ \A i \in 1 .. Len(u) - 1 : t[i] = IF i < k THEN u[i] ELSE u[i + 1]
      <4>1. u \in Seq(S) /\ x \in Range(u)
        BY <1>3, <1>8
      <4>2. \E k \in 1 .. Len(u) :
              /\ u[k] = x
              /\ RemoveFirst(u, x) \in Seq(S) /\ Len(RemoveFirst(u, x)) = Len(u) - 1
              /\ \A i \in 1 .. Len(u) - 1 :
                   RemoveFirst(u, x)[i] = IF i < k THEN u[i] ELSE u[i + 1]
        BY <4>1, RemoveFirstPlaces
      <4>. QED BY <2>1, <4>2
    <3>. QED BY <1>1, <1>3, <3>1
  <2>3. CASE x = y
    <3>1. k = n + 1
      BY <1>1, <1>3, <1>4, <2>2, <2>3 DEF IsInjective
    <3>2. \A i \in 1 .. n : t[i] = s[i]
      BY <1>1, <1>3, <2>2, <3>1
    <3>3. t = s
      BY <1>1, <2>2, <3>2, SeqEqual
    <3>. QED BY <1>2, <1>6, <2>1, <2>3, <3>3
  <2>4. CASE x # y
    <3>1. x \in Range(s) /\ k \in 1 .. n
      BY <1>1, <1>3, <1>8, <2>2, <2>4
    <3>2. PICK v : v = RemoveFirst(s, x)
      OBVIOUS
    <3>3. PICK j \in 1 .. n :
            /\ s[j] = x /\ v \in Seq(S) /\ Len(v) = n - 1
            /\ \A i \in 1 .. n - 1 : v[i] = IF i < j THEN s[i] ELSE s[i + 1]
      <4>1. \E j \in 1 .. Len(s) :
              /\ s[j] = x
              /\ RemoveFirst(s, x) \in Seq(S) /\ Len(RemoveFirst(s, x)) = Len(s) - 1
              /\ \A i \in 1 .. Len(s) - 1 :
                   RemoveFirst(s, x)[i] = IF i < j THEN s[i] ELSE s[i + 1]
        BY <3>1, RemoveFirstPlaces
      <4>. QED BY <1>1, <3>2, <4>1
    <3>4. j = k
      BY <1>1, <1>3, <2>2, <3>1, <3>3 DEF IsInjective
    <3>5. PICK w : w = Append(v, y)
      OBVIOUS
    <3>6. w \in Seq(S) /\ Len(w) = n /\ (\A i \in 1 .. n - 1 : w[i] = v[i]) /\ w[n] = y
      <4>1. Len(v) + 1 = n
        BY <1>1, <3>3
      <4>. QED BY <3>3, <3>5, <4>1, AppendProperties
    <3>7. ASSUME NEW i \in 1 .. n PROVE t[i] = w[i]
      <4>1. CASE i = n
        <5>1. ~(n < k)
          BY <1>1, <3>1
        <5>. QED BY <1>3, <2>2, <3>6, <4>1, <5>1
      <4>2. CASE i # n
        <5>1. i \in 1 .. n - 1 /\ i + 1 \in 1 .. n
          BY <1>1, <4>2
        <5>2. w[i] = IF i < k THEN s[i] ELSE s[i + 1]
          BY <3>3, <3>4, <3>6, <5>1
        <5>. QED BY <1>3, <2>2, <5>1, <5>2
      <4>. QED BY <4>1, <4>2
    <3>8. t = w
      BY <2>2, <3>6, <3>7, SeqEqual
    <3>. QED BY <1>2, <1>6, <2>1, <2>4, <3>2, <3>5, <3>8
  <2>. QED BY <2>3, <2>4
<1>. QED BY <1>6, <1>7, <1>8

(* A search after a deletion finds what was found before, less what is     *)
(* deleted.                                                                *)
LEMMA KeepRemoved ==
  ASSUME NEW S, NEW s \in Seq(S), IsInjective(s), NEW T, NEW x
  PROVE  Keep(RemoveFirst(s, x), T) = RemoveFirst(Keep(s, T), x)
<1> DEFINE Good == {t \in Seq(S) : IsInjective(t) =>
                      Keep(RemoveFirst(t, x), T) = RemoveFirst(Keep(t, T), x)}
<1>1. <<>> \in Good
  <2>1. RemoveFirst(<<>>, x) = <<>>
    BY DEF RemoveFirst
  <2>. QED BY <2>1, KeepEmpty
<1>2. ASSUME NEW t \in Good, NEW y \in S PROVE Append(t, y) \in Good
  <2>1. t \in Seq(S) /\ Append(t, y) \in Seq(S)
    BY AppendFacts
  <2>2. SUFFICES ASSUME IsInjective(Append(t, y))
                 PROVE  Keep(RemoveFirst(Append(t, y), x), T) = RemoveFirst(Keep(Append(t, y), T), x)
    BY <2>1
  <2>3. IsInjective(t) /\ y \notin Range(t)
    <3>1. PICK n \in Nat : n = Len(t)
      BY <2>1, LenProperties
    <3>2. DOMAIN t = 1 .. n /\ DOMAIN Append(t, y) = 1 .. n + 1
      BY <2>1, <3>1, LenProperties, AppendProperties
    <3>3. (\A i \in 1 .. n : Append(t, y)[i] = t[i]) /\ Append(t, y)[n + 1] = y
      BY <2>1, <3>1, AppendProperties
    <3>4. \A i, j \in 1 .. n + 1 : Append(t, y)[i] = Append(t, y)[j] => i = j
      BY <2>2, <3>2 DEF IsInjective
    <3>5. \A i \in 1 .. n : i \in 1 .. n + 1 /\ n + 1 \in 1 .. n + 1 /\ i # n + 1
      BY <3>1
    <3>6. IsInjective(t)
      BY <3>2, <3>3, <3>4, <3>5 DEF IsInjective
    <3>7. \A i \in 1 .. n : t[i] # y
      BY <3>3, <3>4, <3>5
    <3>. QED BY <3>2, <3>6, <3>7 DEF Range
  <2>4. PICK r : r = RemoveFirst(t, x)
    OBVIOUS
  <2>5. PICK h : h = Keep(t, T)
    OBVIOUS
  <2>6. /\ r \in Seq(S) /\ IsInjective(r) /\ Range(r) = Range(t) \ {x}
        /\ h \in Seq(S) /\ IsInjective(h) /\ Range(h) = Range(t) \cap T
    BY <2>1, <2>3, <2>4, <2>5, RemovedFacts, KeepFacts
  <2>7. /\ Keep(Append(t, y), T) = IF y \in T THEN Append(h, y) ELSE h
        /\ Keep(Append(r, y), T) = IF y \in T THEN Append(Keep(r, T), y) ELSE Keep(r, T)
    BY <2>1, <2>5, <2>6, KeepAppend
  <2>8. Keep(r, T) = RemoveFirst(h, x)
    BY <2>3, <2>4, <2>5
  <2>9. RemoveFirst(Append(t, y), x) = IF x = y THEN t ELSE Append(r, y)
    BY <2>1, <2>3, <2>4, RemoveFromAppended
  <2>10. /\ x \notin Range(h) => RemoveFirst(h, x) = h
         /\ RemoveFirst(Append(h, y), x) = IF x = y THEN h ELSE Append(RemoveFirst(h, x), y)
    BY <2>3, <2>6, RemoveFromAppended
  <2>11. CASE x = y
    BY <2>3, <2>5, <2>6, <2>7, <2>9, <2>10, <2>11
  <2>12. CASE x # y
    BY <2>7, <2>8, <2>9, <2>10, <2>12
  <2>. QED BY <2>11, <2>12
<1>3. Good = Seq(S)
  <2>1. Good \in SUBSET Seq(S)
    OBVIOUS
  <2> HIDE DEF Good
  <2>. QED BY <1>1, <1>2, <2>1, GrownByAppend
<1>4. s \in Good
  <2> HIDE DEF Good
  <2>. QED BY <1>3
<1>. QED BY <1>4

(* Deleting the first member leaves the rest.                              *)
LEMMA RemoveHead ==
  ASSUME NEW S, NEW s \in Seq(S), s # <<>>, IsInjective(s)
  PROVE  RemoveFirst(s, s[1]) = Tail(s)
<1>1. PICK n \in Nat : n = Len(s) /\ n # 0 /\ DOMAIN s = 1 .. n
  BY LenProperties, EmptySeq
<1>2. s[1] \in Range(s)
  BY <1>1 DEF Range
<1>3. PICK t : t = RemoveFirst(s, s[1])
  OBVIOUS
<1>4. PICK k \in 1 .. n : /\ s[k] = s[1] /\ t \in Seq(S) /\ Len(t) = n - 1
                          /\ \A i \in 1 .. n - 1 : t[i] = IF i < k THEN s[i] ELSE s[i + 1]
  BY <1>1, <1>2, <1>3, RemoveFirstPlaces
<1>5. k = 1
  BY <1>1, <1>4 DEF IsInjective
<1>6. /\ Tail(s) \in Seq(S) /\ Len(Tail(s)) = n - 1 /\ \A i \in 1 .. n - 1 : Tail(s)[i] = s[i + 1]
  BY <1>1, HeadTailProperties
<1>7. \A i \in 1 .. n - 1 : t[i] = Tail(s)[i]
  BY <1>1, <1>4, <1>5, <1>6
<1>. QED BY <1>3, <1>4, <1>6, <1>7, SeqEqual

-----------------------------------------------------------------------------
(* The map of the users.                                                   *)

(* The objects of a key, in the order of their entries.                    *)
LEMMA ObjectsTyped ==
  ASSUME TableTyped, Chained, NEW k \in Key
  PROVE  /\ HashEntry(k) \in Seq(Entry) /\ IsInjective(HashEntry(k))
         /\ Len(HashEntry(k)) \in Nat /\ DOMAIN HashEntry(k) = 1 .. Len(HashEntry(k))
         /\ ObjectsOf(k) \in Seq(Object \cup {Nil}) /\ Len(ObjectsOf(k)) = Len(HashEntry(k))
         /\ \A i \in 1 .. Len(HashEntry(k)) : /\ HashEntry(k)[i] \in Entry /\ key[HashEntry(k)[i]] = k
                                              /\ ObjectsOf(k)[i] = object[HashEntry(k)[i]]
         /\ HashEntry(k) = <<>> <=> Len(HashEntry(k)) = 0
<1>1. PICK h \in Seq(Entry) : h = HashEntry(k) /\ IsInjective(h) /\ Range(h) = {e \in Live : key[e] = k}
  BY FoundFacts
<1>2. PICK n \in Nat : n = Len(h) /\ DOMAIN h = 1 .. n /\ (\A i \in 1 .. n : h[i] \in Entry)
                       /\ (h = <<>> <=> n = 0)
  BY LenProperties, ElementOfSeq, EmptySeq
<1>3. \A i \in 1 .. n : key[h[i]] = k
  BY <1>1, <1>2 DEF Range
<1>4. ObjectsOf(k) = [i \in 1 .. n |-> object[h[i]]]
  BY <1>1, <1>2 DEF ObjectsOf
<1>5. ObjectsOf(k) \in Seq(Object \cup {Nil}) /\ Len(ObjectsOf(k)) = n
      /\ \A i \in 1 .. n : ObjectsOf(k)[i] = object[h[i]]
  <2>1. \A i \in 1 .. n : object[h[i]] \in Object \cup {Nil}
    BY <1>2 DEF TableTyped
  <2>. QED BY <1>4, <2>1
<1>. QED BY <1>1, <1>2, <1>3, <1>5

(* Adding an object appends it to those of its key.                        *)
LEMMA AddMap ==
  ASSUME TableTyped, Chained, NEW k \in Key, NEW o \in Object, NEW e, Added(e, k, o)
  PROVE  Contents' = [Contents EXCEPT ![k] = Append(@, o)]
<1>1. /\ e \in Entry \ Live /\ e \in Entry
      /\ key' = [key EXCEPT ![e] = k] /\ object' = [object EXCEPT ![e] = o]
      /\ chain' = [chain EXCEPT ![Hash[k]] = Append(@, e)]
  BY DEF Added
<1>2. ASSUME NEW j \in Key PROVE HashEntry(j)' = IF j = k THEN Append(HashEntry(j), e) ELSE HashEntry(j)
  <2>1. Hash[j] \in Bucket
    BY DEF Bucket
  <2>2. PICK c : c = chain[Hash[j]]
    OBVIOUS
  <2>3. c \in Seq(Entry) /\ (\A x \in Range(c) : x \in Live)
    BY <2>1, <2>2, LiveFacts
  <2>4. PICK T, U : T = {f \in Entry : key[f] = j} /\ U = {f \in Entry : key'[f] = j}
    OBVIOUS
  <2>5. (\A x \in Range(c) : x \in U <=> x \in T) /\ (e \in U <=> j = k)
    <3>1. \A x \in Range(c) : x \in Entry /\ x # e /\ key'[x] = key[x]
      BY <1>1, <2>3 DEF TableTyped, Live
    <3>2. key'[e] = k
      BY <1>1 DEF TableTyped
    <3>. QED BY <1>1, <2>4, <3>1, <3>2
  <2>6. Keep(c, U) = Keep(c, T)
    BY <2>3, <2>5, KeepSame
  <2>7. Keep(Append(c, e), U) = IF j = k THEN Append(Keep(c, U), e) ELSE Keep(c, U)
    BY <1>1, <2>3, <2>5, KeepAppend
  <2>8. chain'[Hash[j]] = IF Hash[j] = Hash[k] THEN Append(c, e) ELSE c
    BY <1>1, <2>1, <2>2 DEF TableTyped
  <2>9. HashEntry(j)' = Keep(chain'[Hash[j]], U) /\ HashEntry(j) = Keep(c, T)
    BY <2>2, <2>4 DEF HashEntry
  <2>. QED BY <2>6, <2>7, <2>8, <2>9
<1>3. ASSUME NEW j \in Key, j # k PROVE ObjectsOf(j)' = ObjectsOf(j)
  <2>1. /\ DOMAIN HashEntry(j) = 1 .. Len(HashEntry(j))
        /\ \A i \in 1 .. Len(HashEntry(j)) : HashEntry(j)[i] \in Entry /\ key[HashEntry(j)[i]] = j
    BY ObjectsTyped
  <2>2. key[e] = Nil /\ j # Nil
    BY <1>1, NilAssumption DEF Live
  <2>3. \A i \in DOMAIN HashEntry(j) : object'[HashEntry(j)[i]] = object[HashEntry(j)[i]]
    BY <1>1, <2>1, <2>2 DEF TableTyped
  <2>4. HashEntry(j)' = HashEntry(j)
    BY <1>2, <1>3
  <2>. QED BY <2>3, <2>4 DEF ObjectsOf
<1>4. ObjectsOf(k)' = Append(ObjectsOf(k), o)
  <2>1. PICK h, n : h = HashEntry(k) /\ n = Len(h)
    OBVIOUS
  <2>2. /\ h \in Seq(Entry) /\ n \in Nat /\ DOMAIN h = 1 .. n
        /\ ObjectsOf(k) \in Seq(Object \cup {Nil}) /\ Len(ObjectsOf(k)) = n
        /\ \A i \in 1 .. n : h[i] \in Entry /\ key[h[i]] = k /\ ObjectsOf(k)[i] = object[h[i]]
    BY <2>1, ObjectsTyped
  <2>3. PICK g : g = Append(h, e)
    OBVIOUS
  <2>4. g \in Seq(Entry) /\ Len(g) = n + 1 /\ (\A i \in 1 .. n : g[i] = h[i]) /\ g[n + 1] = e
    BY <1>1, <2>1, <2>2, <2>3, AppendProperties
  <2>5. DOMAIN g = 1 .. n + 1
    BY <2>4, LenProperties
  <2>6. ObjectsOf(k)' = [i \in 1 .. n + 1 |-> object'[g[i]]]
    BY <1>2, <2>1, <2>3, <2>5 DEF ObjectsOf
  <2>7. key[e] = Nil /\ k # Nil /\ object'[e] = o
    BY <1>1, NilAssumption DEF Live, TableTyped
  <2>8. \A i \in 1 .. n : object'[g[i]] = ObjectsOf(k)[i]
    BY <1>1, <2>2, <2>4, <2>7 DEF TableTyped
  <2>9. PICK w : w = Append(ObjectsOf(k), o)
    OBVIOUS
  <2>10. /\ w \in Seq(Object \cup {Nil}) /\ Len(w) = n + 1
         /\ (\A i \in 1 .. n : w[i] = ObjectsOf(k)[i]) /\ w[n + 1] = o
    BY <2>2, <2>9, AppendProperties
  <2>11. PICK v : v = [i \in 1 .. n + 1 |-> object'[g[i]]]
    OBVIOUS
  <2>12. \A i \in 1 .. n + 1 : v[i] = w[i]
    <3>1. \A i \in 1 .. n + 1 : i = n + 1 \/ i \in 1 .. n
      BY <2>2
    <3>. QED BY <2>4, <2>7, <2>8, <2>10, <2>11, <3>1
  <2>13. v \in Seq(Object \cup {Nil}) /\ Len(v) = n + 1
    <3>1. \A i \in 1 .. n + 1 : w[i] \in Object \cup {Nil}
      BY <2>10, ElementOfSeq
    <3>2. \A i \in 1 .. n + 1 : object'[g[i]] \in Object \cup {Nil}
      BY <2>11, <2>12, <3>1
    <3>. QED BY <2>2, <2>11, <3>2
  <2>14. v = w
    BY <2>10, <2>12, <2>13, SeqEqual
  <2>. QED BY <2>6, <2>9, <2>11, <2>14
<1>. QED BY <1>3, <1>4 DEF Contents

(* Deleting takes the first object of the key.                             *)
LEMMA DelMap ==
  ASSUME TableTyped, Chained, NEW k \in Key, HashEntry(k) # <<>>, Deleted(HashEntry(k)[1])
  PROVE  /\ Contents[k] # <<>>
         /\ Contents' = [Contents EXCEPT ![k] = Tail(@)]
<1>1. PICK e : e = HashEntry(k)[1]
  OBVIOUS
<1>2. /\ e \in Live /\ e \in Entry /\ key[e] = k /\ Home(e) = Hash[k]
      /\ \A f \in Live \ {e} : key'[f] = key[f] /\ object'[f] = object[f]
      /\ Live' = Live \ {e}
      /\ chain' = [chain EXCEPT ![Hash[k]] = RemoveFirst(@, e)]
  BY <1>1, FoundFacts DEF Deleted, Live, Home
<1>3. ASSUME NEW j \in Key PROVE HashEntry(j)' = RemoveFirst(HashEntry(j), e)
  <2>1. Hash[j] \in Bucket
    BY DEF Bucket
  <2>2. PICK c, r : c = chain[Hash[j]] /\ r = RemoveFirst(c, e)
    OBVIOUS
  <2>3. c \in Seq(Entry) /\ IsInjective(c) /\ (\A x \in Range(c) : x \in Live)
    BY <2>1, <2>2, LiveFacts
  <2>4. r \in Seq(Entry) /\ Range(r) = Range(c) \ {e}
    BY <2>2, <2>3, RemovedFacts
  <2>5. PICK T, U : T = {f \in Entry : key[f] = j} /\ U = {f \in Entry : key'[f] = j}
    OBVIOUS
  <2>6. \A x \in Range(r) : x \in U <=> x \in T
    BY <1>2, <2>3, <2>4, <2>5
  <2>7. Keep(r, U) = Keep(r, T)
    BY <2>4, <2>6, KeepSame
  <2>8. Keep(r, T) = RemoveFirst(Keep(c, T), e)
    BY <2>2, <2>3, KeepRemoved
  <2>9. chain'[Hash[j]] = r
    <3>1. CASE Hash[j] = Hash[k]
      BY <1>2, <2>1, <2>2, <3>1 DEF TableTyped
    <3>2. CASE Hash[j] # Hash[k]
      <4>1. chain'[Hash[j]] = c
        BY <1>2, <2>1, <2>2, <3>2 DEF TableTyped
      <4>2. e \notin Range(c)
        BY <1>2, <2>1, <2>2, <3>2, LiveFacts
      <4>3. r = c
        BY <2>2, <2>3, <4>2, LenProperties DEF RemoveFirst, Range
      <4>. QED BY <4>1, <4>3
    <3>. QED BY <3>1, <3>2
  <2>10. HashEntry(j)' = Keep(chain'[Hash[j]], U) /\ HashEntry(j) = Keep(c, T)
    BY <2>2, <2>5 DEF HashEntry
  <2>. QED BY <2>7, <2>8, <2>9, <2>10
<1>4. ASSUME NEW j \in Key, j # k PROVE ObjectsOf(j)' = ObjectsOf(j)
  <2>1. /\ HashEntry(j) \in Seq(Entry) /\ DOMAIN HashEntry(j) = 1 .. Len(HashEntry(j))
        /\ \A i \in 1 .. Len(HashEntry(j)) : HashEntry(j)[i] \in Entry /\ key[HashEntry(j)[i]] = j
    BY ObjectsTyped
  <2>2. \A i \in DOMAIN HashEntry(j) : HashEntry(j)[i] # e /\ HashEntry(j)[i] \in Live
    BY <1>2, <1>4, <2>1, NilAssumption DEF Live
  <2>3. HashEntry(j)' = HashEntry(j)
    BY <1>3, <2>1, <2>2 DEF RemoveFirst
  <2>4. \A i \in DOMAIN HashEntry(j) : object'[HashEntry(j)[i]] = object[HashEntry(j)[i]]
    BY <1>2, <2>2
  <2>. QED BY <2>3, <2>4 DEF ObjectsOf
<1>5. PICK h, n : h = HashEntry(k) /\ n = Len(h)
  OBVIOUS
<1>6. /\ h \in Seq(Entry) /\ IsInjective(h) /\ n \in Nat /\ DOMAIN h = 1 .. n
      /\ ObjectsOf(k) \in Seq(Object \cup {Nil}) /\ Len(ObjectsOf(k)) = n /\ n # 0
      /\ \A i \in 1 .. n : h[i] \in Entry /\ key[h[i]] = k /\ ObjectsOf(k)[i] = object[h[i]]
  BY <1>5, ObjectsTyped
<1>7. ObjectsOf(k)' = Tail(ObjectsOf(k))
  <2>1. PICK g : g = Tail(h)
    OBVIOUS
  <2>2. HashEntry(k)' = g
    BY <1>1, <1>3, <1>5, <1>6, <2>1, RemoveHead
  <2>3. g \in Seq(Entry) /\ Len(g) = n - 1 /\ \A i \in 1 .. n - 1 : g[i] = h[i + 1]
    BY <1>5, <1>6, <2>1, EmptySeq, HeadTailProperties
  <2>4. DOMAIN g = 1 .. n - 1
    BY <2>3, LenProperties
  <2>5. PICK v : v = ObjectsOf(k)' /\ v = [i \in 1 .. n - 1 |-> object'[g[i]]]
    BY <2>2, <2>4 DEF ObjectsOf
  <2>6. PICK w : w = Tail(ObjectsOf(k))
    OBVIOUS
  <2>7. /\ w \in Seq(Object \cup {Nil}) /\ Len(w) = n - 1
        /\ \A i \in 1 .. n - 1 : w[i] = ObjectsOf(k)[i + 1]
    BY <1>6, <2>6, EmptySeq, HeadTailProperties
  <2>8. ASSUME NEW i \in 1 .. n - 1 PROVE v[i] = w[i]
    <3>1. i + 1 \in 1 .. n /\ i + 1 # 1 /\ 1 \in 1 .. n
      BY <1>6
    <3>2. h[i + 1] # e
      BY <1>1, <1>5, <1>6, <3>1 DEF IsInjective
    <3>3. h[i + 1] \in Live
      BY <1>6, <3>1, NilAssumption DEF Live
    <3>4. object'[h[i + 1]] = object[h[i + 1]]
      BY <1>2, <3>2, <3>3
    <3>. QED BY <1>6, <2>3, <2>5, <2>7, <3>1, <3>4
  <2>9. v \in Seq(Object \cup {Nil}) /\ Len(v) = n - 1
    <3>1. \A i \in 1 .. n - 1 : object'[g[i]] = w[i] /\ w[i] \in Object \cup {Nil}
      BY <2>5, <2>7, <2>8, ElementOfSeq
    <3>. QED BY <1>6, <2>5, <3>1
  <2>10. v = w
    BY <2>7, <2>8, <2>9, SeqEqual
  <2>. QED BY <2>5, <2>6, <2>10
<1>8. Contents[k] # <<>>
  BY <1>6, EmptySeq DEF Contents
<1>. QED BY <1>4, <1>7, <1>8 DEF Contents

(* Replacing changes the first object of the key.                          *)
LEMMA ReplaceMap ==
  ASSUME TableTyped, Chained, NEW k \in Key, HashEntry(k) # <<>>, NEW o \in Object,
         object' = [object EXCEPT ![HashEntry(k)[1]] = o], UNCHANGED <<key, chain>>
  PROVE  /\ Contents[k] # <<>>
         /\ Contents' = [Contents EXCEPT ![k][1] = o]
<1>1. PICK e : e = HashEntry(k)[1]
  OBVIOUS
<1>2. e \in Entry /\ key[e] = k
  BY <1>1, FoundFacts DEF Live
<1>3. \A j \in Key : HashEntry(j)' = HashEntry(j)
  BY DEF HashEntry
<1>4. \A f \in Entry : object'[f] = IF f = e THEN o ELSE object[f]
  BY <1>1, <1>2 DEF TableTyped
<1>5. ASSUME NEW j \in Key, j # k PROVE ObjectsOf(j)' = ObjectsOf(j)
  <2>1. /\ DOMAIN HashEntry(j) = 1 .. Len(HashEntry(j))
        /\ \A i \in 1 .. Len(HashEntry(j)) : HashEntry(j)[i] \in Entry /\ key[HashEntry(j)[i]] = j
    BY ObjectsTyped
  <2>2. \A i \in DOMAIN HashEntry(j) : object'[HashEntry(j)[i]] = object[HashEntry(j)[i]]
    BY <1>2, <1>4, <1>5, <2>1
  <2>. QED BY <1>3, <2>2 DEF ObjectsOf
<1>6. PICK h, n : h = HashEntry(k) /\ n = Len(h)
  OBVIOUS
<1>7. /\ h \in Seq(Entry) /\ IsInjective(h) /\ n \in Nat /\ DOMAIN h = 1 .. n
      /\ ObjectsOf(k) \in Seq(Object \cup {Nil}) /\ Len(ObjectsOf(k)) = n /\ n # 0
      /\ \A i \in 1 .. n : h[i] \in Entry /\ key[h[i]] = k /\ ObjectsOf(k)[i] = object[h[i]]
  BY <1>6, ObjectsTyped
<1>8. ObjectsOf(k)' = [ObjectsOf(k) EXCEPT ![1] = o]
  <2>1. ObjectsOf(k)' = [i \in 1 .. n |-> object'[h[i]]]
    BY <1>3, <1>6, <1>7 DEF ObjectsOf
  <2>2. ASSUME NEW i \in 1 .. n PROVE object'[h[i]] = IF i = 1 THEN o ELSE ObjectsOf(k)[i]
    <3>1. 1 \in 1 .. n
      BY <1>7
    <3>2. h[i] = e <=> i = 1
      BY <1>1, <1>6, <1>7, <3>1 DEF IsInjective
    <3>. QED BY <1>4, <1>7, <3>2
  <2>3. ObjectsOf(k) = [i \in 1 .. n |-> object[h[i]]]
    BY <1>6, <1>7 DEF ObjectsOf
  <2>4. DOMAIN ObjectsOf(k) = 1 .. n
    BY <2>3
  <2>. QED BY <2>1, <2>2, <2>4
<1>9. Contents[k] # <<>>
  BY <1>7, EmptySeq DEF Contents
<1>. QED BY <1>5, <1>8, <1>9 DEF Contents

(* A table implements the map of its users, whatever they do.              *)
THEOREM MultimapRefined == HtblSpec => ImplementsMultimap
<1>1. HtblInit => StoreInv
  BY InitStore DEF WalkInv
<1>2. StoreInv /\ [HtblNext]_htblVars => StoreInv'
  BY StoreStep
<1>3. HtblInit => Map!Init
  <2>1. SUFFICES ASSUME HtblInit, NEW k \in Key PROVE ObjectsOf(k) = <<>>
    BY DEF Map!Init, Contents
  <2>2. TableTyped /\ Chained /\ chain[Hash[k]] = <<>>
    BY <1>1, <2>1 DEF StoreInv, HtblInit, Bucket
  <2>3. HashEntry(k) = <<>>
    BY <2>2, KeepEmpty DEF HashEntry
  <2>4. ObjectsOf(k) \in Seq(Object \cup {Nil}) /\ Len(ObjectsOf(k)) = 0
    BY <2>2, <2>3, ObjectsTyped
  <2>. QED BY <2>4, EmptySeq
<1>4. StoreInv /\ [HtblNext]_htblVars => [Map!Next]_Contents
  <2> SUFFICES ASSUME StoreInv, [HtblNext]_htblVars PROVE Map!Next \/ Contents' = Contents
    OBVIOUS
  <2>1. TableTyped /\ Chained /\ Counted
    BY DEF StoreInv
  <2>2. ASSUME UNCHANGED <<key, object, chain>> PROVE Contents' = Contents
    <3>1. \A k : HashEntry(k)' = HashEntry(k)
      BY <2>2 DEF HashEntry
    <3>2. \A k : ObjectsOf(k)' = ObjectsOf(k)
      BY <2>2, <3>1 DEF ObjectsOf
    <3>. QED BY <3>2 DEF Contents
  <2>3. ASSUME NEW k \in Key, NEW o \in Object, IotHashtblAdd(k, o) PROVE Map!Next
    <3>1. PICK e : Added(e, k, o)
      BY <2>3, AddFacts
    <3>2. Map!Add(k, o)
      BY <2>1, <3>1, AddMap DEF Map!Add
    <3>. QED BY <3>2 DEF Map!Next
  <2>4. ASSUME NEW k \in Key, NEW o \in Object, IotHashtblReplace(k, o) PROVE Map!Next
    <3>1. CASE HashEntry(k) = <<>>
      BY <2>3, <2>4, <3>1 DEF IotHashtblReplace
    <3>2. CASE HashEntry(k) # <<>>
      <4>1. object' = [object EXCEPT ![HashEntry(k)[1]] = o] /\ UNCHANGED <<key, chain>>
        BY <2>1, <2>4, <3>2, ReplaceFacts
      <4>2. Map!Replace(k, o)
        BY <2>1, <3>2, <4>1, ReplaceMap DEF Map!Replace
      <4>. QED BY <4>2 DEF Map!Next
    <3>. QED BY <3>1, <3>2
  <2>5. ASSUME NEW k \in Key, IotHashtblDel(k) PROVE Map!Next
    <3>1. HashEntry(k) # <<>> /\ Deleted(HashEntry(k)[1])
      BY <2>1, <2>5, DelFacts DEF IotHashtblDel
    <3>2. Map!Delete(k)
      BY <2>1, <3>1, DelMap DEF Map!Delete
    <3>. QED BY <3>2 DEF Map!Next
  <2>6. CASE IotHashtblReset
    <3>1. \A b \in Bucket : chain'[b] = <<>>
      BY <2>6 DEF IotHashtblReset
    <3>2. ASSUME NEW k \in Key PROVE ObjectsOf(k)' = <<>>
      <4>1. HashEntry(k)' = <<>>
        BY <3>1, KeepEmpty DEF HashEntry, Bucket
      <4>2. DOMAIN <<>> = {}
        OBVIOUS
      <4>3. PICK v : v = ObjectsOf(k)' /\ v = [i \in DOMAIN <<>> |-> object'[<<>>[i]]]
        BY <4>1 DEF ObjectsOf
      <4>. QED BY <4>2, <4>3
    <3>3. Map!Reset
      BY <3>2 DEF Map!Reset, Contents
    <3>. QED BY <3>3 DEF Map!Next
  <2>7. CASE \/ \E d \in {1, -1} : IotHashtblBegin(d)
             \/ IotHashtblIter \/ Break \/ UNCHANGED htblVars
    <3>1. UNCHANGED <<key, object, chain>>
      BY <2>7 DEF IotHashtblBegin, IotHashtblIter, Break, htblVars, tableVars
    <3>. QED BY <2>2, <3>1
  <2>. QED BY <2>3, <2>4, <2>5, <2>6, <2>7 DEF HtblNext
<1>. QED BY <1>1, <1>2, <1>3, <1>4, PTL DEF HtblSpec, ImplementsMultimap, Map!Spec
-----------------------------------------------------------------------------
(* The object pool.                                                        *)

(* The values of its variables.                                            *)
PoolTyped ==
  /\ chunkCache \in [Chunks -> SUBSET Word]
  /\ free \in [Chunks -> [Word -> SUBSET (0 .. B - 1)]]
  /\ poolSpace \in Seq(Chunks) /\ full \in Seq(Chunks)
  /\ nobj \in Nat /\ held \in SUBSET (Chunks \X Slot)

(* A chunk is on one of the lists, once, if it is there at all.            *)
Listed ==
  /\ IsInjective(poolSpace) /\ IsInjective(full)
  /\ Range(poolSpace) \cap Range(full) = {}
  /\ \A x \in held : x[1] \in Allocated

(* The masks of a chunk are its free objects, its cache is of the masks,   *)
(* and it is on the list of full ones when the cache is empty.             *)
Marked(c) ==
  /\ \A s \in Slot : <<c, s>> \in held <=> UIdx(s) \notin free[c][CIdx(s)]
  /\ \A w \in Word : free[c][w] \subseteq Unused(w)
  /\ chunkCache[c] = {w \in Word : free[c][w] # {}}
  /\ c \in Range(full) <=> chunkCache[c] = {}

Tallied ==
  /\ IsFiniteSet(held) /\ nobj = Cardinality(held)
  /\ PoolLimit > 0 => nobj <= PoolLimit

PoolInv == PoolTyped /\ Listed /\ (\A c \in Allocated : Marked(c)) /\ Tallied

(* A slot is a bit of a word of its mask, and the other way round.         *)
LEMMA SlotFacts ==
  /\ DataIdx \in Nat \ {0} /\ Word \subseteq Nat /\ 0 \in Word /\ Slot \subseteq Nat /\ PoolLimit \in Nat
  /\ \A w \in Word : Unused(w) \subseteq 0 .. B - 1 /\ 0 \in Unused(w)
  /\ \A s \in Slot : CIdx(s) \in Word /\ UIdx(s) \in Unused(CIdx(s))
  /\ \A s, t \in Slot : CIdx(s) = CIdx(t) /\ UIdx(s) = UIdx(t) => s = t
  /\ \A w \in Word : \A u \in Unused(w) :
       w * B + u \in Slot /\ CIdx(w * B + u) = w /\ UIdx(w * B + u) = u
<1> DEFINE N == NPerChunk
           D == DataIdx
<1>1. N \in Nat \ {0} /\ B \in Nat \ {0} /\ N + B - 1 \in Nat /\ LimitAsked \in Nat
  BY ObjPoolAssumption
<1>2. D = (N + B - 1) \div B
  BY DEF DataIdx
<1>3. PICK r \in 0 .. B - 1 : N + B - 1 = B * D + r /\ D \in Nat
  BY <1>1, <1>2, DivFacts
<1>4. Word = 0 .. D - 1 /\ Slot = 0 .. N - 1
  BY DEF Word, Slot
<1>5. \A w \in Word : Unused(w) = {u \in 0 .. B - 1 : w * B + u < N}
  BY DEF Unused
<1>6. PoolLimit \in Nat
  <2>1. PICK over \in 0 .. N - 1 : over = LimitAsked % N
    BY <1>1, DivFacts
  <2>. QED BY <1>1, <2>1 DEF PoolLimit
<1> HIDE DEF N, D
<1>7. B * D = D * B /\ D * B \in Nat
  BY <1>1, <1>3
<1>8. D # 0
  BY <1>1, <1>3
<1>9. ASSUME NEW w \in Word PROVE w \in Nat /\ w * B + 0 < N
  <2>1. w \in Nat /\ w < D
    BY <1>3, <1>4
  <2>2. w * B + B <= D * B
    BY <1>1, <1>3, <2>1, NextMultiple
  <2>3. w * B \in Nat
    BY <1>1, <2>1
  <2>. QED BY <1>1, <1>3, <1>7, <2>1, <2>2, <2>3
<1>10. ASSUME NEW s \in Slot
       PROVE  /\ s \in Nat /\ CIdx(s) \in Word /\ UIdx(s) \in 0 .. B - 1
              /\ s = CIdx(s) * B + UIdx(s) /\ UIdx(s) \in Unused(CIdx(s))
  <2>1. s \in Nat /\ s < N
    BY <1>1, <1>4
  <2>2. PICK q : q = CIdx(s)
    OBVIOUS
  <2>3. PICK u : u = UIdx(s)
    OBVIOUS
  <2>4. q \in Nat /\ u \in 0 .. B - 1 /\ s = B * q + u
    BY <1>1, <2>1, <2>2, <2>3, DivFacts DEF CIdx, UIdx
  <2>5. B * q = q * B /\ q * B \in Nat
    BY <1>1, <2>4
  <2>6. ~(D < q) /\ D # q
    <3>1. ASSUME D < q PROVE FALSE
      <4>1. D * B + B <= q * B
        BY <1>1, <1>3, <2>4, <3>1, NextMultiple
      <4>. QED BY <1>1, <1>3, <1>7, <2>1, <2>4, <2>5, <4>1
    <3>2. ASSUME D = q PROVE FALSE
      BY <1>1, <1>3, <1>7, <2>1, <2>4, <2>5, <3>2
    <3>. QED BY <3>1, <3>2
  <2>7. q \in Word
    BY <1>3, <1>4, <2>4, <2>6
  <2>8. u \in Unused(q)
    BY <1>1, <1>5, <2>1, <2>4, <2>5, <2>7
  <2>. QED BY <2>1, <2>2, <2>3, <2>4, <2>5, <2>7, <2>8
<1>11. ASSUME NEW w \in Word, NEW u \in Unused(w)
       PROVE  w * B + u \in Slot /\ CIdx(w * B + u) = w /\ UIdx(w * B + u) = u
  <2>1. u \in 0 .. B - 1 /\ w * B + u < N /\ w \in Nat /\ w * B \in Nat
    BY <1>1, <1>5, <1>9
  <2>2. w * B + u \in Slot
    BY <1>1, <1>4, <2>1
  <2>. QED BY <1>1, <2>1, <2>2, QuotientOf DEF CIdx, UIdx
<1>12. \A w \in Word : Unused(w) \subseteq 0 .. B - 1 /\ 0 \in Unused(w)
  BY <1>1, <1>5, <1>9
<1>13. DataIdx \in Nat \ {0} /\ Word \subseteq Nat /\ 0 \in Word /\ Slot \subseteq Nat
  BY <1>1, <1>3, <1>4, <1>8 DEF D
<1>. QED BY <1>6, <1>10, <1>11, <1>12, <1>13

(* The count of objects follows the set of them.                           *)
LEMMA TallyFacts ==
  ASSUME PoolTyped, Tallied
  PROVE  /\ \A x : x \notin held => IsFiniteSet(held \cup {x}) /\ Cardinality(held \cup {x}) = nobj + 1
         /\ \A x \in held : IsFiniteSet(held \ {x}) /\ Cardinality(held \ {x}) = nobj - 1
BY FS_AddElement, FS_RemoveElement DEF Tallied, PoolTyped

(* iot_objpool_alloc() takes a free slot of the first chunk on the list.   *)
LEMMA TakeInv ==
  ASSUME PoolTyped, Tallied, PoolLimit > 0 => nobj < PoolLimit,
         NEW c \in Chunks, NEW words, NEW slots \in [Word -> SUBSET (0 .. B - 1)],
         words = {w \in Word : slots[w] # {}}, words # {},
         \A w \in Word : slots[w] \subseteq Unused(w),
         \A s \in Slot : <<c, s>> \in held <=> UIdx(s) \notin slots[CIdx(s)],
         NEW list \in Seq(Chunks), list # <<>>, list[1] = c,
         IsInjective(list), IsInjective(full), Range(list) \cap Range(full) = {},
         \A x \in held : x[1] \in Range(list) \cup Range(full),
         \A d \in (Range(list) \cup Range(full)) \ {c} : Marked(d),
         TakeFrom(c, words, slots, list)
  PROVE  PoolInv'
<1>1. words \in SUBSET Nat
  BY SlotFacts
<1>2. PICK w : w = Min(words)
  OBVIOUS
<1>3. w \in Word /\ slots[w] # {} /\ slots[w] \in SUBSET Nat
  BY <1>1, <1>2, MinInSet
<1>4. PICK u : u = Min(slots[w])
  OBVIOUS
<1>5. u \in slots[w] /\ u \in Unused(w) /\ u \in 0 .. B - 1
  BY <1>3, <1>4, MinInSet
<1>6. PICK s : s = w * B + u
  OBVIOUS
<1>7. s \in Slot /\ CIdx(s) = w /\ UIdx(s) = u /\ <<c, s>> \notin held
  BY <1>3, <1>5, <1>6, SlotFacts
<1>8. PICK left : left = IF slots[w] = {u} THEN words \ {w} ELSE words
  OBVIOUS
<1>9. /\ free' = [free EXCEPT ![c] = [slots EXCEPT ![w] = slots[w] \ {u}]]
      /\ chunkCache' = [chunkCache EXCEPT ![c] = left]
      /\ poolSpace' = IF left = {} THEN Tail(list) ELSE list
      /\ full' = IF left = {} THEN Append(full, c) ELSE full
      /\ nobj' = nobj + 1
      /\ held' = held \cup {<<c, s>>}
  BY <1>2, <1>4, <1>6, <1>8 DEF TakeFrom
<1>10. /\ chunkCache \in [Chunks -> SUBSET Word] /\ free \in [Chunks -> [Word -> SUBSET (0 .. B - 1)]]
       /\ full \in Seq(Chunks) /\ nobj \in Nat /\ held \in SUBSET (Chunks \X Slot)
  BY DEF PoolTyped
<1>11. /\ chunkCache'[c] = left /\ left \in SUBSET Word
       /\ free'[c] \in [Word -> SUBSET (0 .. B - 1)]
       /\ \A v \in Word : free'[c][v] = IF v = w THEN slots[w] \ {u} ELSE slots[v]
  BY <1>3, <1>5, <1>8, <1>9, <1>10
<1>12. \A d \in Chunks \ {c} : chunkCache'[d] = chunkCache[d] /\ free'[d] = free[d]
  BY <1>9, <1>10
<1>13. left = {v \in Word : free'[c][v] # {}}
  <2>1. \A v \in Word : v \in left <=> free'[c][v] # {}
    <3>1. slots[w] = {u} <=> slots[w] \ {u} = {}
      BY <1>5
    <3>2. \A v \in Word : v \in words <=> slots[v] # {}
      OBVIOUS
    <3>. QED BY <1>3, <1>8, <1>11, <3>1, <3>2
  <2>. QED BY <1>11, <2>1
<1>14. c \in Range(list) /\ c \notin Range(full) /\ c = Head(list)
  BY TailFacts
<1>15. /\ poolSpace' \in Seq(Chunks) /\ IsInjective(poolSpace')
       /\ Range(poolSpace') = IF left = {} THEN Range(list) \ {c} ELSE Range(list)
  BY <1>9, <1>14, TailFacts
<1>16. /\ full' \in Seq(Chunks) /\ IsInjective(full')
       /\ Range(full') = IF left = {} THEN Range(full) \cup {c} ELSE Range(full)
  <2>1. CASE left = {}
    <3>1. full' = Append(full, c)
      BY <1>9, <2>1
    <3>. QED BY <1>10, <1>14, <2>1, <3>1, AppendFacts
  <2>2. CASE left # {}
    BY <1>9, <1>10, <2>2
  <2>. QED BY <2>1, <2>2
<1>17. Range(poolSpace') \cap Range(full') = {}
  BY <1>14, <1>15, <1>16
<1>18. Range(poolSpace') \cup Range(full') = Range(list) \cup Range(full)
  BY <1>14, <1>15, <1>16
<1>19. PoolTyped'
  <2>1. chunkCache' \in [Chunks -> SUBSET Word] /\ free' \in [Chunks -> [Word -> SUBSET (0 .. B - 1)]]
    <3>1. [slots EXCEPT ![w] = slots[w] \ {u}] \in [Word -> SUBSET (0 .. B - 1)]
      BY <1>3
    <3>. QED BY <1>9, <1>10, <1>11, <3>1
  <2>. QED BY <1>7, <1>9, <1>10, <1>15, <1>16, <2>1 DEF PoolTyped
<1>20. Listed'
  <2>1. \A x \in held' : x[1] \in Range(list) \cup Range(full)
    BY <1>9, <1>14
  <2>. QED BY <1>15, <1>16, <1>17, <1>18, <2>1 DEF Listed, Allocated
<1>21. ASSUME NEW d \in Allocated' PROVE Marked(d)'
  <2>1. d \in Range(list) \cup Range(full)
    BY <1>18 DEF Allocated
  <2>2. CASE d = c
    <3>1. ASSUME NEW t \in Slot PROVE <<c, t>> \in held' <=> UIdx(t) \notin free'[c][CIdx(t)]
      <4>1. CASE t = s
        BY <1>7, <1>9, <1>11, <4>1, <1>3
      <4>2. CASE t # s
        <5>1. CIdx(t) \in Word /\ (CIdx(t) # w \/ UIdx(t) # u)
          BY <1>7, <4>2, SlotFacts
        <5>2. <<c, t>> \in held' <=> <<c, t>> \in held
          BY <1>9, <4>2
        <5>3. UIdx(t) \in free'[c][CIdx(t)] <=> UIdx(t) \in slots[CIdx(t)]
          BY <1>11, <5>1
        <5>. QED BY <5>2, <5>3
      <4>. QED BY <4>1, <4>2
    <3>2. \A v \in Word : free'[c][v] \subseteq Unused(v)
      BY <1>11
    <3>3. c \in Range(full') <=> left = {}
      BY <1>14, <1>16
    <3>. QED BY <1>11, <1>13, <2>2, <3>1, <3>2, <3>3 DEF Marked
  <2>3. CASE d # c
    <3>1. Marked(d) /\ d \in Chunks
      BY <1>10, <2>1, <2>3, MembersOf
    <3>2. \A t \in Slot : <<d, t>> \in held' <=> <<d, t>> \in held
      BY <1>9, <2>3
    <3>3. d \in Range(full') <=> d \in Range(full)
      BY <1>16, <2>3
    <3>. QED BY <1>12, <2>3, <3>1, <3>2, <3>3 DEF Marked
  <2>. QED BY <2>2, <2>3
<1>22. Tallied'
  <2>1. IsFiniteSet(held') /\ Cardinality(held') = nobj + 1
    BY <1>7, <1>9, TallyFacts
  <2>2. PoolLimit' = PoolLimit
    BY DEF PoolLimit
  <2>3. PoolLimit \in Nat
    BY SlotFacts
  <2>. QED BY <1>9, <1>10, <2>1, <2>2, <2>3 DEF Tallied
<1>. QED BY <1>19, <1>20, <1>21, <1>22 DEF PoolInv

(* The first chunk of the list has free objects; a new one has nothing     *)
(* else.                                                                   *)
LEMMA AllocInv ==
  ASSUME PoolInv, IotObjpoolAlloc
  PROVE  PoolInv'
<1>1. PoolTyped /\ Listed /\ Tallied /\ \A d \in Allocated : Marked(d)
  BY DEF PoolInv
<1>2. /\ chunkCache \in [Chunks -> SUBSET Word] /\ free \in [Chunks -> [Word -> SUBSET (0 .. B - 1)]]
      /\ poolSpace \in Seq(Chunks) /\ full \in Seq(Chunks) /\ held \in SUBSET (Chunks \X Slot)
  BY <1>1 DEF PoolTyped
<1>3. /\ IsInjective(poolSpace) /\ IsInjective(full) /\ Range(poolSpace) \cap Range(full) = {}
      /\ \A x \in held : x[1] \in Range(poolSpace) \cup Range(full)
  BY <1>1 DEF Listed, Allocated
<1>4. PoolLimit > 0 => nobj < PoolLimit
  BY DEF IotObjpoolAlloc
<1>5. CASE poolSpace # <<>> /\ TakeFrom(poolSpace[1], chunkCache[poolSpace[1]], free[poolSpace[1]], poolSpace)
  <2>1. PICK c : c = poolSpace[1]
    OBVIOUS
  <2>2. c \in Range(poolSpace) /\ c \in Chunks /\ c \notin Range(full)
    BY <1>2, <1>3, <1>5, <2>1, TailFacts, MembersOf
  <2>3. Marked(c)
    BY <1>1, <2>2 DEF Allocated
  <2>4. /\ chunkCache[c] = {w \in Word : free[c][w] # {}} /\ chunkCache[c] # {}
        /\ \A w \in Word : free[c][w] \subseteq Unused(w)
        /\ \A s \in Slot : <<c, s>> \in held <=> UIdx(s) \notin free[c][CIdx(s)]
    BY <2>2, <2>3 DEF Marked
  <2>5. \A d \in (Range(poolSpace) \cup Range(full)) \ {c} : Marked(d)
    BY <1>1 DEF Allocated
  <2>6. free[c] \in [Word -> SUBSET (0 .. B - 1)]
    BY <1>2, <2>2
  <2>7. TakeFrom(c, chunkCache[c], free[c], poolSpace)
    BY <1>5, <2>1
  <2>8. poolSpace # <<>>
    BY <1>5
  <2>. QED BY <1>1, <1>2, <1>3, <1>4, <2>1, <2>2, <2>4, <2>5, <2>6, <2>7, <2>8, TakeInv
<1>6. ASSUME poolSpace = <<>>, NEW c \in Chunks \ Allocated,
             TakeFrom(c, Word, [w \in Word |-> Unused(w)], <<c>>)
      PROVE  PoolInv'
  <2>1. PICK slots : slots = [w \in Word |-> Unused(w)]
    OBVIOUS
  <2>2. /\ slots \in [Word -> SUBSET (0 .. B - 1)] /\ Word = {w \in Word : slots[w] # {}} /\ Word # {}
        /\ \A w \in Word : slots[w] \subseteq Unused(w)
    BY <2>1, SlotFacts
  <2>3. \A s \in Slot : <<c, s>> \in held <=> UIdx(s) \notin slots[CIdx(s)]
    BY <1>3, <1>6, <2>1, SlotFacts DEF Allocated
  <2>4. PICK list : list = <<c>>
    OBVIOUS
  <2>5. list \in Seq(Chunks) /\ list # <<>> /\ list[1] = c /\ Len(list) = 1 /\ DOMAIN list = {1}
    BY <2>4
  <2>6. IsInjective(list) /\ Range(list) = {c}
    BY <2>5 DEF IsInjective, Range
  <2>7. Range(poolSpace) = {}
    BY <1>6 DEF Range
  <2>8. \A x \in held : x[1] \in Range(list) \cup Range(full)
    BY <1>3, <2>7
  <2>9. \A d \in (Range(list) \cup Range(full)) \ {c} : Marked(d)
    BY <1>1, <2>6 DEF Allocated
  <2>10. Range(list) \cap Range(full) = {}
    BY <1>6, <2>6 DEF Allocated
  <2>11. TakeFrom(c, Word, slots, list)
    BY <1>6, <2>1, <2>4
  <2>. QED BY <1>1, <1>2, <1>3, <1>4, <1>6, <2>2, <2>3, <2>5, <2>6, <2>8, <2>9, <2>10, <2>11, TakeInv
<1>. QED BY <1>5, <1>6 DEF IotObjpoolAlloc

(* An object that comes back is free in its mask, and its chunk on the     *)
(* list of those with space.                                               *)
LEMMA FreeInv ==
  ASSUME PoolInv, NEW c \in Chunks, NEW s \in Slot, IotObjpoolFree(c, s)
  PROVE  PoolInv'
<1>1. PoolTyped /\ Listed /\ Tallied /\ \A d \in Allocated : Marked(d)
  BY DEF PoolInv
<1>2. /\ chunkCache \in [Chunks -> SUBSET Word] /\ free \in [Chunks -> [Word -> SUBSET (0 .. B - 1)]]
      /\ poolSpace \in Seq(Chunks) /\ full \in Seq(Chunks) /\ held \in SUBSET (Chunks \X Slot)
      /\ nobj \in Nat
  BY <1>1 DEF PoolTyped
<1>3. /\ IsInjective(poolSpace) /\ IsInjective(full) /\ Range(poolSpace) \cap Range(full) = {}
      /\ \A x \in held : x[1] \in Range(poolSpace) \cup Range(full)
  BY <1>1 DEF Listed, Allocated
<1>4. PICK w : w = CIdx(s)
  OBVIOUS
<1>5. PICK u : u = UIdx(s)
  OBVIOUS
<1>6. w \in Word /\ u \in Unused(w) /\ u \in 0 .. B - 1
  BY <1>4, <1>5, SlotFacts
<1>7. c \in Range(poolSpace) \cup Range(full) /\ Marked(c)
  BY <1>1 DEF IotObjpoolFree, Allocated
<1>8. CASE UIdx(s) \in free[c][CIdx(s)]
  <2>1. UNCHANGED poolVars
    BY <1>8 DEF IotObjpoolFree
  <2>. QED BY <2>1 DEF poolVars, PoolInv, PoolTyped, Listed, Marked, Tallied, Allocated, PoolLimit
<1>9. CASE UIdx(s) \notin free[c][CIdx(s)]
  <2>1. /\ free' = [free EXCEPT ![c][w] = @ \cup {u}]
        /\ chunkCache' = [chunkCache EXCEPT ![c] = @ \cup {w}]
        /\ full' = IF chunkCache[c] = {} THEN RemoveFirst(full, c) ELSE full
        /\ poolSpace' = IF chunkCache[c] = {} THEN Append(poolSpace, c) ELSE poolSpace
        /\ nobj' = nobj - 1 /\ held' = held \ {<<c, s>>}
    BY <1>4, <1>5, <1>9 DEF IotObjpoolFree, Released
  <2>2. /\ chunkCache[c] = {v \in Word : free[c][v] # {}}
        /\ \A v \in Word : free[c][v] \subseteq Unused(v)
        /\ \A t \in Slot : <<c, t>> \in held <=> UIdx(t) \notin free[c][CIdx(t)]
        /\ c \in Range(full) <=> chunkCache[c] = {}
    BY <1>7 DEF Marked
  <2>3. <<c, s>> \in held
    BY <1>9, <2>2
  <2>4. /\ chunkCache'[c] = chunkCache[c] \cup {w} /\ free'[c] \in [Word -> SUBSET (0 .. B - 1)]
        /\ \A v \in Word : free'[c][v] = IF v = w THEN free[c][w] \cup {u} ELSE free[c][v]
    BY <1>2, <1>6, <2>1
  <2>5. \A d \in Chunks \ {c} : chunkCache'[d] = chunkCache[d] /\ free'[d] = free[d]
    BY <1>2, <2>1
  <2>6. /\ full' \in Seq(Chunks) /\ IsInjective(full') /\ Range(full') = Range(full) \ {c}
    <3>1. CASE chunkCache[c] = {}
      BY <1>2, <1>3, <2>1, <3>1, RemovedFacts
    <3>2. CASE chunkCache[c] # {}
      BY <1>2, <1>3, <2>1, <2>2, <3>2
    <3>. QED BY <3>1, <3>2
  <2>7. /\ poolSpace' \in Seq(Chunks) /\ IsInjective(poolSpace') /\ Range(poolSpace') = Range(poolSpace) \cup {c}
    <3>1. CASE chunkCache[c] = {}
      <4>1. poolSpace' = Append(poolSpace, c) /\ c \notin Range(poolSpace)
        BY <1>3, <2>1, <2>2, <3>1
      <4>. QED BY <1>2, <1>3, <4>1, AppendFacts
    <3>2. CASE chunkCache[c] # {}
      BY <1>2, <1>3, <1>7, <2>1, <2>2, <3>2
    <3>. QED BY <3>1, <3>2
  <2>8. Range(poolSpace') \cup Range(full') = Range(poolSpace) \cup Range(full)
    BY <1>7, <2>6, <2>7
  <2>9. PoolTyped'
    <3>1. nobj' \in Nat
      <4>1. nobj = Cardinality(held) /\ IsFiniteSet(held)
        BY <1>1 DEF Tallied
      <4>2. Cardinality(held \ {<<c, s>>}) \in Nat
        BY <4>1, FS_Subset, FS_CardinalityType
      <4>. QED BY <1>1, <2>1, <2>3, <4>2, TallyFacts
    <3>2. chunkCache' \in [Chunks -> SUBSET Word] /\ free' \in [Chunks -> [Word -> SUBSET (0 .. B - 1)]]
      BY <1>2, <1>6, <2>1
    <3>. QED BY <1>2, <2>1, <2>6, <2>7, <3>1, <3>2 DEF PoolTyped
  <2>10. Listed'
    <3>1. Range(poolSpace') \cap Range(full') = {}
      BY <1>3, <2>6, <2>7
    <3>. QED BY <1>3, <2>1, <2>6, <2>7, <2>8, <3>1 DEF Listed, Allocated
  <2>11. ASSUME NEW d \in Allocated' PROVE Marked(d)'
    <3>1. d \in Range(poolSpace) \cup Range(full)
      BY <2>8 DEF Allocated
    <3>2. CASE d = c
      <4>1. ASSUME NEW t \in Slot PROVE <<c, t>> \in held' <=> UIdx(t) \notin free'[c][CIdx(t)]
        <5>1. CASE t = s
          BY <1>4, <1>5, <1>6, <2>1, <2>4, <5>1
        <5>2. CASE t # s
          <6>1. CIdx(t) \in Word /\ (CIdx(t) # w \/ UIdx(t) # u)
            BY <1>4, <1>5, <5>2, SlotFacts
          <6>2. <<c, t>> \in held' <=> <<c, t>> \in held
            BY <2>1, <5>2
          <6>3. UIdx(t) \in free'[c][CIdx(t)] <=> UIdx(t) \in free[c][CIdx(t)]
            BY <2>4, <6>1
          <6>. QED BY <2>2, <6>2, <6>3
        <5>. QED BY <5>1, <5>2
      <4>2. \A v \in Word : free'[c][v] \subseteq Unused(v)
        BY <1>6, <2>2, <2>4
      <4>3. chunkCache'[c] = {v \in Word : free'[c][v] # {}}
        <5>1. \A v \in Word : v \in chunkCache'[c] <=> free'[c][v] # {}
          BY <1>6, <2>2, <2>4
        <5>. QED BY <1>6, <2>2, <2>4, <5>1
      <4>4. c \notin Range(full') /\ chunkCache'[c] # {}
        BY <2>4, <2>6
      <4>. QED BY <3>2, <4>1, <4>2, <4>3, <4>4 DEF Marked
    <3>3. CASE d # c
      <4>1. Marked(d) /\ d \in Chunks
        BY <1>1, <1>2, <3>1, <3>3, MembersOf DEF Allocated
      <4>2. \A t \in Slot : <<d, t>> \in held' <=> <<d, t>> \in held
        BY <2>1, <3>3
      <4>3. d \in Range(full') <=> d \in Range(full)
        BY <2>6, <3>3
      <4>. QED BY <2>5, <3>3, <4>1, <4>2, <4>3 DEF Marked
    <3>. QED BY <3>2, <3>3
  <2>12. Tallied'
    <3>1. IsFiniteSet(held') /\ Cardinality(held') = nobj - 1
      BY <1>1, <2>1, <2>3, TallyFacts
    <3>2. PoolLimit' = PoolLimit /\ PoolLimit \in Nat
      BY SlotFacts DEF PoolLimit
    <3>3. PoolLimit > 0 => nobj <= PoolLimit
      BY <1>1 DEF Tallied
    <3>. QED BY <1>2, <2>1, <3>1, <3>2, <3>3 DEF Tallied
  <2>. QED BY <2>9, <2>10, <2>11, <2>12 DEF PoolInv
<1>. QED BY <1>8, <1>9

(* The first n of a list of chunks are some of them.                       *)
LEMMA FirstNFacts ==
  ASSUME NEW list \in Seq(Chunks), IsInjective(list), NEW n \in Nat
  PROVE  LET some == FirstN(list, n)
         IN  some \in Seq(Chunks) /\ IsInjective(some) /\ Range(some) \subseteq Range(list)
<1>1. Len(list) \in Nat
  BY LenProperties
<1>2. PICK k : k = Min({n, Len(list)})
  OBVIOUS
<1>3. {n, Len(list)} \in SUBSET Nat /\ {n, Len(list)} # {}
  BY <1>1
<1>4. k \in 0 .. Len(list)
  <2>1. k \in {n, Len(list)} /\ \A y \in {n, Len(list)} : k <= y
    BY <1>2, <1>3, MinInSet
  <2>. QED BY <1>1, <2>1
<1>. QED BY <1>2, <1>4, FrontFacts DEF FirstN

(* Chunks that come are empty and on the list of those with space.         *)
LEMMA GrowInv ==
  ASSUME PoolInv, NEW n, IotObjpoolGrow(n)
  PROVE  PoolInv'
<1>1. PoolTyped /\ Listed /\ Tallied /\ \A d \in Allocated : Marked(d)
  BY DEF PoolInv
<1>2. /\ chunkCache \in [Chunks -> SUBSET Word] /\ free \in [Chunks -> [Word -> SUBSET (0 .. B - 1)]]
      /\ poolSpace \in Seq(Chunks) /\ full \in Seq(Chunks) /\ held \in SUBSET (Chunks \X Slot)
  BY <1>1 DEF PoolTyped
<1>3. /\ IsInjective(poolSpace) /\ IsInjective(full) /\ Range(poolSpace) \cap Range(full) = {}
      /\ \A x \in held : x[1] \in Range(poolSpace) \cup Range(full)
  BY <1>1 DEF Listed, Allocated
<1>4. PICK new \in SUBSET (Chunks \ Allocated) :
        /\ poolSpace' = poolSpace \o SetToSeq(new)
        /\ chunkCache' = [c \in Chunks |-> IF c \in new THEN Word ELSE chunkCache[c]]
        /\ free' = [c \in Chunks |-> IF c \in new THEN [w \in Word |-> Unused(w)] ELSE free[c]]
  BY DEF IotObjpoolGrow, PoolGrow
<1>5. full' = full /\ nobj' = nobj /\ held' = held
  BY DEF IotObjpoolGrow
<1>6. IsFiniteSet(new)
  BY ObjPoolAssumption, FS_Subset
<1>7. PICK s : s = SetToSeq(new)
  OBVIOUS
<1>8. s \in Seq(new) /\ IsInjective(s) /\ Range(s) = new
  <2>1. s \in Seq(new) /\ IsInjective(s) /\ \A x \in new : \E i \in DOMAIN s : s[i] = x
    BY <1>6, <1>7, SetToSeqFacts
  <2>. QED BY <2>1, MembersOf DEF Range
<1>9. s \in Seq(Chunks)
  BY <1>8, SeqDef
<1>10. Range(poolSpace) \cap Range(s) = {}
  BY <1>8 DEF Allocated
<1>11. poolSpace' \in Seq(Chunks) /\ IsInjective(poolSpace') /\ Range(poolSpace') = Range(poolSpace) \cup new
  BY <1>2, <1>3, <1>4, <1>7, <1>8, <1>9, <1>10, ConcatFacts
<1>12. Range(poolSpace') \cup Range(full') = Range(poolSpace) \cup Range(full) \cup new
  BY <1>5, <1>11
<1>13. \A w \in Word : Unused(w) \subseteq 0 .. B - 1
  BY SlotFacts
<1>14. PoolTyped'
  <2>1. free' \in [Chunks -> [Word -> SUBSET (0 .. B - 1)]]
    BY <1>2, <1>4, <1>13
  <2>2. chunkCache' \in [Chunks -> SUBSET Word]
    BY <1>2, <1>4
  <2>. QED BY <1>1, <1>2, <1>5, <1>11, <2>1, <2>2 DEF PoolTyped
<1>15. Listed'
  <2>1. Range(poolSpace') \cap Range(full') = {}
    BY <1>3, <1>5, <1>11 DEF Allocated
  <2>. QED BY <1>3, <1>5, <1>11, <1>12, <2>1 DEF Listed, Allocated
<1>16. ASSUME NEW d \in Allocated' PROVE Marked(d)'
  <2>1. d \in Range(poolSpace) \cup Range(full) \cup new
    BY <1>12 DEF Allocated
  <2>2. CASE d \in new
    <3>1. chunkCache'[d] = Word /\ \A w \in Word : free'[d][w] = Unused(w)
      BY <1>4, <2>2
    <3>2. Word = {w \in Word : free'[d][w] # {}} /\ Word # {}
      <4>1. Word # {} /\ \A w \in Word : free'[d][w] # {}
        BY <3>1, SlotFacts
      <4>. QED BY <4>1
    <3>3. \A s1 \in Slot : <<d, s1>> \in held' <=> UIdx(s1) \notin free'[d][CIdx(s1)]
      BY <1>3, <1>5, <2>2, <3>1, SlotFacts DEF Allocated
    <3>4. d \notin Range(full')
      BY <1>5, <2>2 DEF Allocated
    <3>. QED BY <3>1, <3>2, <3>3, <3>4 DEF Marked
  <2>3. CASE d \notin new
    <3>1. Marked(d) /\ d \in Chunks
      BY <1>1, <1>2, <2>1, <2>3, MembersOf DEF Allocated
    <3>2. chunkCache'[d] = chunkCache[d] /\ free'[d] = free[d]
      BY <1>4, <2>3, <3>1
    <3>. QED BY <1>5, <3>1, <3>2 DEF Marked
  <2>. QED BY <2>2, <2>3
<1>17. Tallied'
  BY <1>1, <1>5 DEF Tallied, PoolLimit
<1>. QED BY <1>14, <1>15, <1>16, <1>17 DEF PoolInv

(* Nobody holds an object of a chunk that goes.                            *)
LEMMA ShrinkInv ==
  ASSUME PoolInv, NEW n \in Nat, IotObjpoolShrink(n)
  PROVE  PoolInv'
<1>1. PoolTyped /\ Listed /\ Tallied /\ \A d \in Allocated : Marked(d)
  BY DEF PoolInv
<1>2. poolSpace \in Seq(Chunks) /\ full \in Seq(Chunks) /\ held \in SUBSET (Chunks \X Slot)
  BY <1>1 DEF PoolTyped
<1>3. /\ IsInjective(poolSpace) /\ IsInjective(full) /\ Range(poolSpace) \cap Range(full) = {}
      /\ \A x \in held : x[1] \in Range(poolSpace) \cup Range(full)
  BY <1>1 DEF Listed, Allocated
<1>4. PICK empty : empty = {c \in Chunks : ChunkEmpty(c)}
  OBVIOUS
<1>5. PICK list : list = Keep(poolSpace, empty)
  OBVIOUS
<1>6. list \in Seq(Chunks) /\ Range(list) = Range(poolSpace) \cap empty /\ IsInjective(list)
  BY <1>2, <1>3, <1>5, KeepFacts
<1>7. PICK k : k = IF n = 0 THEN 1 ELSE NChunk(n)
  OBVIOUS
<1>8. k \in Nat
  <2>1. NPerChunk \in Nat \ {0}
    BY ObjPoolAssumption
  <2>2. n # 0 => NChunk(n) \in Nat
    BY <2>1, DivFacts DEF NChunk
  <2>. QED BY <1>7, <2>2
<1>9. PICK gone : gone = FirstN(list, k)
  OBVIOUS
<1>10. Range(gone) \subseteq Range(poolSpace) \cap empty
  BY <1>6, <1>8, <1>9, FirstNFacts
<1>11. /\ poolSpace' = Keep(poolSpace, Chunks \ Range(gone))
       /\ chunkCache' = chunkCache /\ free' = free /\ full' = full /\ nobj' = nobj /\ held' = held
  BY <1>4, <1>5, <1>7, <1>9 DEF IotObjpoolShrink
<1>12. /\ poolSpace' \in Seq(Chunks) /\ IsInjective(poolSpace')
       /\ Range(poolSpace') = Range(poolSpace) \ Range(gone)
  <2>1. Range(poolSpace) \subseteq Chunks
    BY <1>2, MembersOf
  <2>. QED BY <1>2, <1>3, <1>11, <2>1, KeepFacts
<1>13. ASSUME NEW x \in held PROVE x[1] \notin Range(gone)
  <2>1. SUFFICES ASSUME x[1] \in Range(gone) PROVE FALSE
    OBVIOUS
  <2>2. PICK c \in Chunks, s \in Slot : x = <<c, s>>
    BY <1>2
  <2>3. c \in empty /\ c \in Range(poolSpace) /\ Marked(c)
    BY <1>1, <1>10, <2>1, <2>2 DEF Allocated
  <2>4. UIdx(s) \notin free[c][CIdx(s)] /\ UIdx(s) \in Unused(CIdx(s)) /\ CIdx(s) \in Word
    BY <2>2, <2>3, SlotFacts DEF Marked
  <2>. QED BY <1>4, <2>3, <2>4 DEF ChunkEmpty
<1>14. PoolTyped'
  BY <1>1, <1>11, <1>12 DEF PoolTyped
<1>15. Listed'
  <2>1. \A x \in held : x[1] \in Range(poolSpace') \cup Range(full)
    BY <1>3, <1>12, <1>13
  <2>2. Range(poolSpace') \cap Range(full) = {}
    BY <1>3, <1>12
  <2>. QED BY <1>3, <1>11, <1>12, <2>1, <2>2 DEF Listed, Allocated
<1>16. ASSUME NEW d \in Allocated' PROVE Marked(d)'
  BY <1>1, <1>11, <1>12, <1>16 DEF Allocated, Marked
<1>17. Tallied'
  BY <1>1, <1>11 DEF Tallied, PoolLimit
<1>. QED BY <1>14, <1>15, <1>16, <1>17 DEF PoolInv

(* A new pool has empty chunks or none.                                    *)
LEMMA InitPool ==
  ASSUME PoolInit
  PROVE  PoolInv
<1>1. PICK pre : pre = FirstN(SetToSeq(Chunks), NChunk(Prealloc))
  OBVIOUS
<1>2. /\ poolSpace = pre
      /\ chunkCache = [c \in Chunks |-> IF c \in Range(pre) THEN Word ELSE {}]
      /\ free = [c \in Chunks |-> [w \in Word |-> IF c \in Range(pre) THEN Unused(w) ELSE {}]]
      /\ full = <<>> /\ nobj = 0 /\ held = {}
  BY <1>1 DEF PoolInit
<1>3. NChunk(Prealloc) \in Nat
  <2>1. NPerChunk \in Nat \ {0} /\ Prealloc \in Nat
    BY ObjPoolAssumption
  <2>2. Prealloc + NPerChunk - 1 \in Nat
    BY <2>1
  <2>. QED BY <2>1, <2>2, DivFacts DEF NChunk
<1>4. pre \in Seq(Chunks) /\ IsInjective(pre)
  <2>1. PICK all : all = SetToSeq(Chunks)
    OBVIOUS
  <2>2. all \in Seq(Chunks) /\ IsInjective(all)
    BY <2>1, ObjPoolAssumption, SetToSeqFacts
  <2>. QED BY <1>1, <1>3, <2>1, <2>2, FirstNFacts
<1>5. Range(pre) \subseteq Chunks
  BY <1>4, MembersOf
<1>6. full \in Seq(Chunks) /\ IsInjective(full) /\ Range(full) = {}
  BY <1>2 DEF IsInjective, Range
<1>7. PoolTyped
  <2>1. free \in [Chunks -> [Word -> SUBSET (0 .. B - 1)]]
    BY <1>2, SlotFacts
  <2>. QED BY <1>2, <1>4, <1>6, <2>1 DEF PoolTyped
<1>8. Listed
  BY <1>2, <1>4, <1>6 DEF Listed
<1>9. ASSUME NEW d \in Allocated PROVE Marked(d)
  <2>1. d \in Range(pre) /\ d \in Chunks
    BY <1>2, <1>5, <1>6 DEF Allocated
  <2>2. chunkCache[d] = Word /\ \A w \in Word : free[d][w] = Unused(w)
    BY <1>2, <2>1
  <2>3. Word = {w \in Word : free[d][w] # {}} /\ Word # {}
    <3>1. Word # {} /\ \A w \in Word : free[d][w] # {}
      BY <2>2, SlotFacts
    <3>. QED BY <3>1
  <2>4. \A s \in Slot : UIdx(s) \in free[d][CIdx(s)]
    BY <2>2, SlotFacts
  <2>. QED BY <1>2, <1>6, <2>2, <2>3, <2>4 DEF Marked
<1>10. Tallied
  BY <1>2, SlotFacts, FS_EmptySet DEF Tallied
<1>. QED BY <1>7, <1>8, <1>9, <1>10 DEF PoolInv

(* Whatever is taken, given back, grown and shrunk: the count, the masks,  *)
(* their caches and the lists of a pool are those of the objects that are  *)
(* held.  For any sizes of chunks and words, any limit and preallocation.  *)
THEOREM PoolSafety == PoolSpec => []PoolConsistent
<1>1. PoolInit => PoolInv
  BY InitPool
<1>2. ASSUME PoolInv, [PoolNext]_poolVars PROVE PoolInv'
  <2>1. CASE UNCHANGED poolVars
    BY <1>2, <2>1 DEF poolVars, PoolInv, PoolTyped, Listed, Marked, Tallied, Allocated, PoolLimit
  <2>2. CASE PoolNext
    <3>1. ASSUME NEW n \in 0 .. NPerChunk + 1, IotObjpoolShrink(n) PROVE PoolInv'
      <4>1. n \in Nat
        BY ObjPoolAssumption
      <4>. QED BY <1>2, <3>1, <4>1, ShrinkInv
    <3>. QED BY <1>2, <2>2, <3>1, AllocInv, FreeInv, GrowInv DEF PoolNext
  <2>. QED BY <1>2, <2>1, <2>2
<1>3. ASSUME PoolInv PROVE PoolConsistent
  <2>1. PoolTyped /\ Listed /\ Tallied /\ \A d \in Allocated : Marked(d)
    BY <1>3 DEF PoolInv
  <2>2. IsInjective(poolSpace \o full)
    BY <2>1, ConcatFacts DEF PoolTyped, Listed
  <2>. QED BY <2>1, <2>2 DEF PoolConsistent, Listed, Tallied, Marked
<1>. QED BY <1>1, <1>2, <1>3, PTL DEF PoolSpec
-----------------------------------------------------------------------------
(* The bit mask.                                                           *)

(* A mask x holds the bits of S: its words are those for its size, with    *)
(* these bits in them, none beyond the size.                               *)
Places(words) == 0 .. W * Len(words) - 1
BitsOf(words) == {bit \in Places(words) : Idx(bit) \in words[Wrd(bit)]}

Holds(x, S) ==
  /\ x \in [nbit : Nat \ {0}, fixed : BOOLEAN, inlined : BOOLEAN, w : Seq(SUBSET Full)]
  /\ Len(x.w) = NWord(x.nbit)
  /\ BitsOf(x.w) = S /\ S \subseteq 0 .. x.nbit - 1

(* A bit is one of a word, in the order of the words and of those in one.  *)
LEMMA PlaceFacts ==
  ASSUME NEW a \in Nat
  PROVE  /\ Wrd(a) \in Nat \ {0} /\ Idx(a) \in Full /\ Idx(a) \in Nat
         /\ a = (Wrd(a) - 1) * W + Idx(a)
         /\ \A b \in Nat : /\ Wrd(a) < Wrd(b) => a < b
                           /\ Wrd(a) = Wrd(b) => (a < b <=> Idx(a) < Idx(b)) /\ (a = b <=> Idx(a) = Idx(b))
<1> DEFINE Q(x) == x \div W
<1>1. W \in Nat \ {0}
  BY MaskAssumption
<1>2. ASSUME NEW x \in Nat PROVE Q(x) \in Nat /\ Idx(x) \in 0 .. W - 1 /\ x = W * Q(x) + Idx(x)
  BY <1>1, DivFacts DEF Idx
<1>3. \A x : Wrd(x) = Q(x) + 1
  BY DEF Wrd
<1> HIDE DEF Q
<1>4. \A x \in Nat : W * Q(x) = Q(x) * W /\ Q(x) * W \in Nat
  BY <1>1, <1>2
<1>5. ASSUME NEW b \in Nat, Wrd(a) < Wrd(b) PROVE a < b
  <2>1. Q(a) < Q(b)
    BY <1>2, <1>3, <1>5
  <2>2. Q(a) * W + W <= Q(b) * W
    BY <1>1, <1>2, <2>1, NextMultiple
  <2>. QED BY <1>1, <1>2, <1>4, <2>2
<1>6. ASSUME NEW b \in Nat, Wrd(a) = Wrd(b)
      PROVE  (a < b <=> Idx(a) < Idx(b)) /\ (a = b <=> Idx(a) = Idx(b))
  <2>1. PICK q \in Nat : q = Q(a) /\ q = Q(b)
    BY <1>2, <1>3, <1>6
  <2>2. PICK p : p = W * q
    OBVIOUS
  <2>3. p \in Nat
    BY <1>1, <2>1, <2>2
  <2>4. W * Q(a) = p /\ W * Q(b) = p
    BY <2>1, <2>2
  <2>5. a = p + Idx(a) /\ b = p + Idx(b)
    <3>1. a = W * Q(a) + Idx(a) /\ b = W * Q(b) + Idx(b)
      BY <1>2
    <3>. QED BY <2>4, <3>1
  <2>6. Idx(a) \in Nat /\ Idx(b) \in Nat
    BY <1>1, <1>2
  <2>. QED BY <2>3, <2>5, <2>6
<1>7. Wrd(a) - 1 = Q(a)
  BY <1>2, <1>3
<1>8. Wrd(a) \in Nat \ {0} /\ Idx(a) \in Full /\ Idx(a) \in Nat /\ a = (Wrd(a) - 1) * W + Idx(a)
  <2>1. PICK q \in Nat : q = Q(a)
    BY <1>2
  <2>2. Wrd(a) = q + 1 /\ Wrd(a) - 1 = q
    BY <1>3, <1>7, <2>1
  <2>3. a = q * W + Idx(a) /\ Idx(a) \in 0 .. W - 1
    BY <1>2, <1>4, <2>1
  <2>. QED BY <1>1, <2>2, <2>3 DEF Full
<1>. QED BY <1>5, <1>6, <1>8

(* Bit u of word i.                                                        *)
LEMMA PlaceOf ==
  ASSUME NEW i \in Nat \ {0}, NEW u \in Full
  PROVE  LET a == (i - 1) * W + u
         IN  a \in Nat /\ Wrd(a) = i /\ Idx(a) = u
<1>1. W \in Nat \ {0} /\ u \in 0 .. W - 1 /\ i - 1 \in Nat
  BY MaskAssumption DEF Full
<1>2. (i - 1) * W \in Nat
  BY <1>1
<1>3. ((i - 1) * W + u) \div W = i - 1 /\ ((i - 1) * W + u) % W = u
  BY <1>1, QuotientOf
<1>. QED BY <1>1, <1>2, <1>3 DEF Wrd, Idx

(* The words for a size are as many as its bits need, and no more.         *)
LEMMA SizeFacts ==
  ASSUME NEW n \in Nat \ {0}
  PROVE  /\ NWord(n) \in Nat \ {0} /\ NWord(n) = Wrd(n - 1)
         /\ n <= W * NWord(n) /\ W * NWord(n) < n + W /\ W * NWord(n) \in Nat
         /\ n % W = 0 => W * NWord(n) = n
         /\ \A a \in Nat : Wrd(a) <= NWord(n) <=> a < W * NWord(n)
<1>1. W \in Nat \ {0} /\ n + W - 1 \in Nat
  BY MaskAssumption
<1>2. PICK k : k = NWord(n)
  OBVIOUS
<1>3. PICK r \in 0 .. W - 1 : n + W - 1 = W * k + r /\ k \in Nat
  BY <1>1, <1>2, DivFacts DEF NWord
<1>4. W * k = k * W /\ k * W \in Nat
  BY <1>1, <1>3
<1>5. k # 0
  BY <1>1, <1>3
<1>6. n <= W * k /\ W * k < n + W
  BY <1>1, <1>3, <1>4
<1>7. ASSUME NEW a \in Nat PROVE Wrd(a) <= k <=> a < W * k
  <2>1. PICK q : q = Wrd(a) - 1
    OBVIOUS
  <2>2. q \in Nat /\ Wrd(a) = q + 1 /\ Idx(a) \in 0 .. W - 1 /\ a = q * W + Idx(a)
    <3>1. Wrd(a) \in Nat \ {0} /\ Idx(a) \in Full /\ a = (Wrd(a) - 1) * W + Idx(a)
      BY PlaceFacts
    <3>2. PICK w : w = Wrd(a)
      OBVIOUS
    <3>3. w \in Nat \ {0} /\ q = w - 1
      BY <2>1, <3>1, <3>2
    <3>4. q \in Nat /\ w = q + 1
      BY <3>3
    <3>5. a = q * W + Idx(a)
      BY <2>1, <3>1
    <3>6. Idx(a) \in 0 .. W - 1
      BY <3>1 DEF Full
    <3>. QED BY <3>2, <3>4, <3>5, <3>6
  <2>3. q * W \in Nat
    BY <1>1, <2>2
  <2>4. CASE q < k
    <3>1. q * W + W <= k * W
      BY <1>1, <1>3, <2>2, <2>4, NextMultiple
    <3>. QED BY <1>1, <1>3, <1>4, <2>2, <2>3, <2>4, <3>1
  <2>5. CASE k < q
    <3>1. k * W + W <= q * W
      BY <1>1, <1>3, <2>2, <2>5, NextMultiple
    <3>. QED BY <1>1, <1>3, <1>4, <2>2, <2>3, <2>5, <3>1
  <2>6. CASE k = q
    BY <1>1, <1>3, <1>4, <2>2, <2>3, <2>6
  <2>. QED BY <1>3, <2>2, <2>4, <2>5, <2>6
<1>8. k = Wrd(n - 1)
  <2>1. n - 1 \in Nat /\ n - 1 < W * k
    BY <1>1, <1>3, <1>4, <1>6
  <2>2. Wrd(n - 1) <= k /\ Wrd(n - 1) \in Nat \ {0}
    BY <1>7, <2>1, PlaceFacts
  <2>3. PICK j : j = Wrd(n - 1)
    OBVIOUS
  <2>4. PICK u \in 0 .. W - 1 : n - 1 = (j - 1) * W + u
    BY <2>1, <2>3, PlaceFacts DEF Full
  <2>5. ~(j < k)
    <3>1. SUFFICES ASSUME j < k PROVE FALSE
      OBVIOUS
    <3>2. j * W + W <= k * W
      BY <1>1, <1>3, <2>2, <2>3, <3>1, NextMultiple
    <3>3. (j - 1) * W + W <= j * W
      BY <1>1, <2>2, <2>3, NextMultiple
    <3>4. j * W \in Nat /\ (j - 1) * W \in Nat
      BY <1>1, <2>2, <2>3
    <3>. QED BY <1>1, <1>3, <1>4, <1>6, <2>4, <3>2, <3>3, <3>4
  <2>. QED BY <1>3, <2>2, <2>3, <2>5
<1>9. n % W = 0 => W * k = n
  <2>1. SUFFICES ASSUME n % W = 0 PROVE W * k = n
    OBVIOUS
  <2>2. PICK q \in Nat : n = W * q
    <3>1. n \div W \in Nat /\ n = W * (n \div W) + (n % W)
      BY <1>1, DivFacts
    <3>2. PICK q : q = n \div W
      OBVIOUS
    <3>3. q \in Nat /\ n = W * q + 0 /\ W * q \in Nat
      BY <1>1, <2>1, <3>1, <3>2
    <3>. QED BY <3>3
  <2>3. W * q = q * W /\ q * W \in Nat
    BY <1>1, <2>2
  <2>4. CASE q < k
    <3>1. q * W + W <= k * W
      BY <1>1, <1>3, <2>2, <2>4, NextMultiple
    <3>. QED BY <1>1, <1>4, <1>6, <2>2, <2>3, <3>1
  <2>5. CASE k < q
    <3>1. k * W + W <= q * W
      BY <1>1, <1>3, <2>2, <2>5, NextMultiple
    <3>. QED BY <1>1, <1>4, <1>6, <2>2, <2>3, <3>1
  <2>. QED BY <1>3, <2>2, <2>4, <2>5
<1>. QED BY <1>1, <1>2, <1>3, <1>4, <1>5, <1>6, <1>7, <1>8, <1>9

(* More words for a larger size.                                           *)
LEMMA SizeOrder ==
  ASSUME NEW a \in Nat \ {0}, NEW b \in Nat \ {0}
  PROVE  /\ NWord(a) < NWord(b) => a < b
         /\ a <= b => NWord(a) <= NWord(b)
         /\ a % W = 0 /\ b % W = 0 /\ NWord(a) = NWord(b) => a = b
<1>1. a - 1 \in Nat /\ b - 1 \in Nat /\ NWord(a) = Wrd(a - 1) /\ NWord(b) = Wrd(b - 1)
  BY SizeFacts
<1>2. Wrd(a - 1) \in Nat /\ Wrd(b - 1) \in Nat
  BY <1>1, PlaceFacts
<1>3. Wrd(a - 1) < Wrd(b - 1) => a - 1 < b - 1
  BY <1>1, PlaceFacts
<1>4. Wrd(b - 1) < Wrd(a - 1) => b - 1 < a - 1
  BY <1>1, PlaceFacts
<1>. QED BY <1>1, <1>2, <1>3, <1>4, SizeFacts

(* What it takes to hold S, bit by bit.                                    *)
MaskRecord == [nbit : Nat \ {0}, fixed : BOOLEAN, inlined : BOOLEAN, w : Seq(SUBSET Full)]

LEMMA HoldsFacts ==
  ASSUME NEW x, NEW S, Holds(x, S)
  PROVE  /\ x \in MaskRecord /\ x.nbit \in Nat \ {0} /\ x.w \in Seq(SUBSET Full)
         /\ Len(x.w) = NWord(x.nbit) /\ Len(x.w) \in Nat \ {0} /\ DOMAIN x.w = 1 .. Len(x.w)
         /\ \A i \in 1 .. Len(x.w) : x.w[i] \in SUBSET Full
         /\ S \in SUBSET Nat
         /\ \A a \in S : a < x.nbit
         /\ \A a \in Nat : a < x.nbit => Wrd(a) \in 1 .. Len(x.w)
         /\ \A a \in Nat : Wrd(a) \in 1 .. Len(x.w) => (Idx(a) \in x.w[Wrd(a)] <=> a \in S)
         /\ \A a \in Nat : Wrd(a) \in 1 .. Len(x.w) <=> a < W * Len(x.w)
         /\ W * Len(x.w) \in Nat /\ x.nbit <= W * Len(x.w)
<1>1. /\ x \in MaskRecord /\ Len(x.w) = NWord(x.nbit)
      /\ BitsOf(x.w) = S /\ S \subseteq 0 .. x.nbit - 1
  BY DEF Holds, MaskRecord
<1>2. x.nbit \in Nat \ {0} /\ x.w \in Seq(SUBSET Full)
  BY <1>1 DEF MaskRecord
<1>3. DOMAIN x.w = 1 .. Len(x.w) /\ \A i \in 1 .. Len(x.w) : x.w[i] \in SUBSET Full
  BY <1>2, LenProperties, ElementOfSeq
<1>4. PICK k : k = Len(x.w)
  OBVIOUS
<1>5. k \in Nat \ {0} /\ W * k \in Nat /\ x.nbit <= W * k /\ \A a \in Nat : Wrd(a) <= k <=> a < W * k
  BY <1>1, <1>2, <1>4, SizeFacts
<1>6. \A a \in Nat : Wrd(a) \in 1 .. k <=> a < W * k
  BY <1>5, PlaceFacts
<1>7. ASSUME NEW a \in Nat, a < W * k PROVE Idx(a) \in x.w[Wrd(a)] <=> a \in S
  <2>1. a \in 0 .. W * k - 1
    BY <1>5, <1>7
  <2>. QED BY <1>1, <1>4, <2>1 DEF BitsOf, Places
<1>8. \A a \in S : a \in Nat /\ a < x.nbit
  BY <1>1, <1>2
<1>9. \A a \in Nat : a < x.nbit => a < W * k
  BY <1>2, <1>5
<1>. QED BY <1>1, <1>2, <1>3, <1>4, <1>5, <1>6, <1>7, <1>8, <1>9

LEMMA HoldsBy ==
  ASSUME NEW x \in MaskRecord, NEW S, Len(x.w) = NWord(x.nbit),
         S \subseteq Nat, \A a \in S : a < x.nbit,
         \A a \in Nat : Wrd(a) \in 1 .. Len(x.w) => (Idx(a) \in x.w[Wrd(a)] <=> a \in S)
  PROVE  Holds(x, S)
<1>1. x.nbit \in Nat \ {0} /\ x.w \in Seq(SUBSET Full)
  BY DEF MaskRecord
<1>2. PICK k : k = Len(x.w)
  OBVIOUS
<1>3. k \in Nat \ {0} /\ W * k \in Nat /\ x.nbit <= W * k /\ \A a \in Nat : Wrd(a) <= k <=> a < W * k
  BY <1>1, <1>2, SizeFacts
<1>4. \A a \in Nat : a < W * k => Wrd(a) \in 1 .. k
  BY <1>3, PlaceFacts
<1>5. ASSUME NEW a \in 0 .. W * k - 1 PROVE Idx(a) \in x.w[Wrd(a)] <=> a \in S
  BY <1>2, <1>3, <1>4
<1>6. \A a \in S : a \in 0 .. W * k - 1 /\ a \in 0 .. x.nbit - 1
  BY <1>1, <1>3
<1>7. BitsOf(x.w) = S
  BY <1>2, <1>5, <1>6 DEF BitsOf, Places
<1>. QED BY <1>6, <1>7 DEF Holds, MaskRecord

(* Other words of the same number.                                         *)
LEMMA Rewritten ==
  ASSUME NEW x, NEW S, Holds(x, S), NEW v \in [1 .. Len(x.w) -> SUBSET Full],
         NEW T \in SUBSET Nat, \A a \in T : a < x.nbit,
         \A a \in Nat : Wrd(a) \in 1 .. Len(x.w) => (Idx(a) \in v[Wrd(a)] <=> a \in T)
  PROVE  Holds([x EXCEPT !.w = v], T)
<1>1. /\ x \in MaskRecord /\ Len(x.w) = NWord(x.nbit) /\ Len(x.w) \in Nat
  BY HoldsFacts
<1>2. v \in Seq(SUBSET Full) /\ Len(v) = Len(x.w)
  BY <1>1
<1>3. PICK y : y = [x EXCEPT !.w = v]
  OBVIOUS
<1>4. y \in MaskRecord /\ y.w = v /\ y.nbit = x.nbit
  BY <1>1, <1>2, <1>3 DEF MaskRecord
<1>5. Holds(y, T)
  BY <1>1, <1>2, <1>4, HoldsBy
<1>. QED BY <1>3, <1>5

(* What the functions for many bits are about.                             *)
LEMMA AboveFacts ==
  ASSUME NEW a \in Nat, NEW b \in Nat
  PROVE  Idx(a) \in AboveIn(Wrd(a), b) <=> b < a
<1>1. /\ Wrd(a) \in Nat /\ Wrd(b) \in Nat /\ Idx(a) \in 0 .. W - 1 /\ Idx(b) \in 0 .. W - 1
      /\ (Wrd(a) < Wrd(b) => a < b) /\ (Wrd(b) < Wrd(a) => b < a)
      /\ (Wrd(a) = Wrd(b) => (b < a <=> Idx(b) < Idx(a)))
  BY PlaceFacts DEF Full
<1>2. W \in Nat
  BY MaskAssumption
<1>. QED BY <1>1, <1>2 DEF AboveIn, Above, Full

LEMMA BelowFacts ==
  ASSUME NEW a \in Nat, NEW b \in Nat
  PROVE  Idx(a) \in BelowIn(Wrd(a), b) <=> a < b
<1>1. /\ Wrd(a) \in Nat /\ Wrd(b) \in Nat /\ Idx(a) \in 0 .. W - 1 /\ Idx(b) \in 0 .. W - 1
      /\ (Wrd(a) < Wrd(b) => a < b) /\ (Wrd(b) < Wrd(a) => b < a)
      /\ (Wrd(a) = Wrd(b) => (a < b <=> Idx(a) < Idx(b)))
  BY PlaceFacts DEF Full
<1>2. W \in Nat
  BY MaskAssumption
<1>. QED BY <1>1, <1>2 DEF BelowIn, Below, Full

LEMMA RangeFacts ==
  ASSUME NEW a \in Nat, NEW l \in Nat, NEW h \in Nat, l <= h
  PROVE  Idx(a) \in RangeIn(Wrd(a), l, h) <=> l <= a /\ a <= h
<1>1. /\ Wrd(a) \in Nat /\ Idx(a) \in 0 .. W - 1 /\ Wrd(l) \in Nat /\ Idx(l) \in 0 .. W - 1
      /\ Wrd(h) \in Nat /\ Idx(h) \in 0 .. W - 1 /\ W \in Nat
  BY PlaceFacts, MaskAssumption DEF Full
<1>2. /\ (Wrd(a) < Wrd(l) => a < l) /\ (Wrd(l) < Wrd(a) => l < a)
      /\ (Wrd(a) = Wrd(l) => (a < l <=> Idx(a) < Idx(l)) /\ (a = l <=> Idx(a) = Idx(l)))
  BY PlaceFacts
<1>3. /\ (Wrd(a) < Wrd(h) => a < h) /\ (Wrd(h) < Wrd(a) => h < a)
      /\ (Wrd(a) = Wrd(h) => (a < h <=> Idx(a) < Idx(h)) /\ (a = h <=> Idx(a) = Idx(h)))
  BY PlaceFacts
<1>4. Wrd(l) <= Wrd(h) /\ (Wrd(l) = Wrd(h) => Idx(l) <= Idx(h))
  <2>1. (Wrd(h) < Wrd(l) => h < l) /\ (Wrd(h) = Wrd(l) => (h < l <=> Idx(h) < Idx(l)))
    BY PlaceFacts
  <2>. QED BY <1>1, <2>1
<1>5. CASE Wrd(a) \notin Wrd(l) .. Wrd(h)
  <2>1. RangeIn(Wrd(a), l, h) = {}
    BY <1>1, <1>4, <1>5 DEF RangeIn
  <2>2. Wrd(a) < Wrd(l) \/ Wrd(h) < Wrd(a)
    BY <1>1, <1>5
  <2>. QED BY <1>1, <1>2, <1>3, <2>1, <2>2
<1>6. CASE Wrd(a) = Wrd(l) /\ Wrd(a) # Wrd(h)
  <2>1. RangeIn(Wrd(a), l, h) = {Idx(l)} \cup Above(Idx(l))
    BY <1>1, <1>4, <1>6 DEF RangeIn
  <2>. QED BY <1>1, <1>2, <1>3, <1>4, <1>6, <2>1 DEF Above
<1>7. CASE Wrd(a) = Wrd(h) /\ Wrd(a) # Wrd(l)
  <2>1. RangeIn(Wrd(a), l, h) = {Idx(h)} \cup Below(Idx(h))
    BY <1>1, <1>4, <1>7 DEF RangeIn
  <2>. QED BY <1>1, <1>2, <1>3, <1>4, <1>7, <2>1 DEF Below
<1>8. CASE Wrd(a) = Wrd(l) /\ Wrd(a) = Wrd(h)
  <2>1. RangeIn(Wrd(a), l, h) = {Idx(l), Idx(h)} \cup (Above(Idx(l)) \cap Below(Idx(h)))
    BY <1>1, <1>4, <1>8 DEF RangeIn
  <2>. QED BY <1>1, <1>2, <1>3, <1>4, <1>8, <2>1 DEF Above, Below
<1>9. CASE Wrd(a) \in Wrd(l) .. Wrd(h) /\ Wrd(a) # Wrd(l) /\ Wrd(a) # Wrd(h)
  <2>1. RangeIn(Wrd(a), l, h) = Full
    BY <1>1, <1>4, <1>9 DEF RangeIn
  <2>. QED BY <1>1, <1>2, <1>3, <1>4, <1>9, <2>1 DEF Full
<1>. QED BY <1>5, <1>6, <1>7, <1>8, <1>9

-----------------------------------------------------------------------------
(* Sizes.                                                                  *)

LEMMA GrownFacts ==
  ASSUME NEW x, NEW S, Holds(x, S), NEW n \in Nat \ {0}
  PROVE  LET y == Grown(x, n)
         IN  /\ Holds(y, S) /\ NWord(n) <= Len(y.w) /\ Len(x.w) <= Len(y.w)
             /\ y.nbit = IF NWord(n) <= Len(x.w) THEN x.nbit ELSE n
             /\ Len(y.w) = IF NWord(n) <= Len(x.w) THEN Len(x.w) ELSE NWord(n)
<1>1. /\ x \in MaskRecord /\ x.nbit \in Nat \ {0} /\ x.w \in Seq(SUBSET Full)
      /\ Len(x.w) = NWord(x.nbit) /\ S \in SUBSET Nat
  BY HoldsFacts
<1>2. \A a \in Nat : Wrd(a) \in 1 .. Len(x.w) => (Idx(a) \in x.w[Wrd(a)] <=> a \in S)
  BY HoldsFacts
<1>3. PICK k : k = Len(x.w)
  OBVIOUS
<1>4. PICK l : l = NWord(n)
  OBVIOUS
<1>5. k \in Nat \ {0} /\ l \in Nat \ {0}
  BY <1>1, <1>3, <1>4, SizeFacts
<1>6. CASE l <= k
  <2>1. Grown(x, n) = x
    BY <1>1, <1>3, <1>4, <1>6 DEF Grown
  <2>. QED BY <1>3, <1>4, <1>5, <1>6, <2>1
<1>7. CASE k < l
  <2>1. PICK none : none = [i \in 1 .. l - k |-> {}]
    OBVIOUS
  <2>2. none \in Seq(SUBSET Full) /\ Len(none) = l - k /\ \A i \in 1 .. l - k : none[i] = {}
    BY <1>5, <1>7, <2>1
  <2>3. PICK v : v = x.w \o none
    OBVIOUS
  <2>4. /\ v \in Seq(SUBSET Full) /\ Len(v) = l
        /\ \A i \in 1 .. l : v[i] = IF i <= k THEN x.w[i] ELSE none[i - k]
    <3>1. Len(x.w) + Len(none) = l
      BY <1>3, <1>5, <1>7, <2>2
    <3>2. PICK u : u = x.w
      OBVIOUS
    <3>3. u \in Seq(SUBSET Full) /\ Len(u) = k
      BY <1>1, <1>3, <3>2
    <3>4. v = u \o none
      BY <2>3, <3>2
    <3>5. v \in Seq(SUBSET Full) /\ Len(v) = Len(u) + Len(none)
          /\ \A i \in 1 .. Len(u) + Len(none) : v[i] = IF i <= Len(u) THEN u[i] ELSE none[i - Len(u)]
      BY <2>2, <3>3, <3>4, ConcatProperties
    <3>. QED BY <1>3, <3>1, <3>2, <3>3, <3>5
  <2>5. PICK y : y = Grown(x, n)
    OBVIOUS
  <2>6. y = [x EXCEPT !.nbit = n, !.w = v]
    BY <1>1, <1>3, <1>4, <1>5, <1>7, <2>1, <2>3, <2>5 DEF Grown
  <2>7. y \in MaskRecord /\ y.nbit = n /\ y.w = v
    BY <1>1, <2>4, <2>6 DEF MaskRecord
  <2>8. \A a \in S : a < n /\ Wrd(a) <= k
    <3>1. \A a \in S : a < x.nbit /\ Wrd(a) \in 1 .. k
      BY <1>3, HoldsFacts
    <3>2. x.nbit < n
      BY <1>1, <1>3, <1>4, <1>7, SizeOrder
    <3>. QED BY <1>1, <1>5, <3>1, <3>2
  <2>9. ASSUME NEW a \in Nat, Wrd(a) \in 1 .. l PROVE Idx(a) \in v[Wrd(a)] <=> a \in S
    <3>1. CASE Wrd(a) <= k
      <4>1. Wrd(a) \in 1 .. k
        BY <1>5, <2>9, <3>1
      <4>. QED BY <1>2, <1>3, <2>4, <2>9, <3>1, <4>1
    <3>2. CASE ~(Wrd(a) <= k)
      <4>1. Wrd(a) - k \in 1 .. l - k
        BY <1>5, <2>9, <3>2
      <4>. QED BY <2>2, <2>4, <2>8, <2>9, <3>2, <4>1
    <3>. QED BY <3>1, <3>2
  <2>10. Holds(y, S)
    BY <1>1, <1>4, <2>4, <2>7, <2>8, <2>9, HoldsBy
  <2>. QED BY <1>3, <1>4, <1>5, <1>7, <2>4, <2>5, <2>7, <2>10
<1>. QED BY <1>5, <1>6, <1>7

(* A mask that is made smaller loses the bits of the words that go.        *)
LEMMA ShrunkFacts ==
  ASSUME NEW x, NEW S, Holds(x, S), NEW n \in Nat \ {0}, n % W = 0
  PROVE  LET y == Shrunk(x, n)
         IN  /\ Holds(y, {a \in S : a < W * Len(y.w)})
             /\ y = x \/ y.nbit = n
             /\ \A i \in 1 .. Len(y.w) : i <= Len(x.w) => y.w[i] = x.w[i]
             /\ n < x.nbit => Len(y.w) <= Len(x.w)
<1>1. /\ x \in MaskRecord /\ x.nbit \in Nat \ {0} /\ x.w \in Seq(SUBSET Full)
      /\ Len(x.w) = NWord(x.nbit) /\ S \in SUBSET Nat
  BY HoldsFacts
<1>2. \A a \in Nat : Wrd(a) \in 1 .. Len(x.w) => (Idx(a) \in x.w[Wrd(a)] <=> a \in S)
  BY HoldsFacts
<1>3. PICK k : k = Len(x.w)
  OBVIOUS
<1>4. PICK l : l = NWord(n)
  OBVIOUS
<1>5. k \in Nat \ {0} /\ l \in Nat \ {0} /\ W * l = n /\ \A a \in Nat : Wrd(a) <= l <=> a < n
  BY <1>1, <1>3, <1>4, SizeFacts
<1>6. PICK y : y = Shrunk(x, n)
  OBVIOUS
<1>7. ASSUME NEW z, Holds(z, S) PROVE {a \in S : a < W * Len(z.w)} = S
  <2>1. z.nbit \in Nat /\ W * Len(z.w) \in Nat /\ z.nbit <= W * Len(z.w) /\ \A a \in S : a < z.nbit
    BY <1>7, HoldsFacts
  <2>2. PICK p : p = W * Len(z.w)
    OBVIOUS
  <2>3. p \in Nat /\ z.nbit <= p
    BY <2>1, <2>2
  <2>4. \A a \in S : a < p
    BY <1>1, <2>1, <2>3
  <2>. QED BY <2>2, <2>4
<1>8. CASE k < l
  <2>1. y = Grown(x, n)
    <3>1. NWord(x.nbit) < NWord(n) /\ NWord(x.nbit) \in Nat /\ NWord(n) \in Nat
      BY <1>1, <1>3, <1>4, <1>5, <1>8
    <3>. QED BY <1>6, <3>1 DEF Shrunk
  <2>2. Holds(y, S) /\ y.nbit = n
    <3>1. ~(NWord(n) <= Len(x.w))
      BY <1>3, <1>4, <1>5, <1>8
    <3>. QED BY <2>1, <3>1, GrownFacts
  <2>3. ASSUME NEW i \in 1 .. Len(y.w), i <= Len(x.w) PROVE y.w[i] = x.w[i]
    <3>1. PICK none : none = [j \in 1 .. l - k |-> {}]
      OBVIOUS
    <3>2. y = [x EXCEPT !.nbit = n, !.w = x.w \o none]
      BY <1>1, <1>3, <1>4, <1>5, <1>8, <2>1, <3>1 DEF Grown
    <3>3. none \in Seq(SUBSET Full) /\ Len(none) = l - k
      BY <1>5, <1>8, <3>1
    <3>4. y.w = x.w \o none
      BY <1>1, <3>2 DEF MaskRecord
    <3>5. Len(none) \in Nat /\ i \in 1 .. Len(x.w) + Len(none)
      BY <1>3, <1>5, <1>8, <2>3, <3>3
    <3>. QED BY <1>1, <2>3, <3>3, <3>4, <3>5, ConcatProperties
  <2>4. ~(n < x.nbit)
    BY <1>1, <1>3, <1>4, <1>8, SizeOrder
  <2>. QED BY <1>6, <1>7, <2>2, <2>3, <2>4
<1>9. CASE l < k /\ Dynamic(x)
  <2>1. y = [x EXCEPT !.nbit = n, !.w = SubSeq(x.w, 1, l)]
    BY <1>1, <1>3, <1>4, <1>5, <1>6, <1>9 DEF Shrunk
  <2>2. PICK v : v = SubSeq(x.w, 1, l)
    OBVIOUS
  <2>3. v \in Seq(SUBSET Full) /\ Len(v) = l /\ \A i \in 1 .. l : v[i] = x.w[i]
    <3>1. \A i \in 1 .. l : x.w[i] \in SUBSET Full
      BY <1>1, <1>3, <1>5, <1>9, ElementOfSeq
    <3>2. v \in Seq(SUBSET Full) /\ Len(v) = l - 1 + 1 /\ \A i \in 1 .. l - 1 + 1 : v[i] = x.w[1 + i - 1]
      BY <1>5, <2>2, <3>1, SubSeqProperties
    <3>. QED BY <1>5, <3>2
  <2>4. y \in MaskRecord /\ y.nbit = n /\ y.w = v
    BY <1>1, <2>1, <2>2, <2>3 DEF MaskRecord
  <2>5. PICK T : T = {a \in S : a < W * Len(y.w)}
    OBVIOUS
  <2>6. T = {a \in S : a < n} /\ T \subseteq Nat
    BY <1>1, <1>5, <2>3, <2>4, <2>5
  <2>7. ASSUME NEW a \in Nat, Wrd(a) \in 1 .. l PROVE Idx(a) \in v[Wrd(a)] <=> a \in T
    <3>1. Wrd(a) \in 1 .. k /\ a < n
      BY <1>5, <1>9, <2>7
    <3>. QED BY <1>2, <1>3, <2>3, <2>6, <2>7, <3>1
  <2>8. Holds(y, T)
    BY <1>4, <2>3, <2>4, <2>6, <2>7, HoldsBy
  <2>9. Len(y.w) <= Len(x.w) /\ \A i \in 1 .. Len(y.w) : y.w[i] = x.w[i]
    BY <1>3, <1>5, <1>9, <2>3, <2>4
  <2>. QED BY <1>6, <2>4, <2>5, <2>8, <2>9
<1>10. CASE ~(k < l) /\ ~(l < k /\ Dynamic(x))
  <2>1. y = x
    BY <1>1, <1>3, <1>4, <1>5, <1>6, <1>10 DEF Shrunk
  <2>2. {a \in S : a < W * Len(y.w)} = S
    BY <1>7, <2>1
  <2>3. Len(x.w) <= Len(x.w)
    BY <1>3, <1>5
  <2>. QED BY <1>6, <2>1, <2>2, <2>3
<1>. QED BY <1>8, <1>9, <1>10

(* Bits within the words are kept by what changes no bit.                  *)
LEMMA AllWithin ==
  ASSUME NEW x, NEW S, Holds(x, S)
  PROVE  {a \in S : a < W * Len(x.w)} = S
<1>1. x.nbit \in Nat /\ W * Len(x.w) \in Nat /\ x.nbit <= W * Len(x.w) /\ (\A a \in S : a < x.nbit) /\ S \in SUBSET Nat
  BY HoldsFacts
<1>2. PICK p : p = W * Len(x.w)
  OBVIOUS
<1>3. p \in Nat /\ x.nbit <= p
  BY <1>1, <1>2
<1>4. \A a \in S : a < p
  BY <1>1, <1>3
<1>. QED BY <1>2, <1>4

(* A mask of another user, with the bits of S and n in all.                *)
LEMMA SizedFacts ==
  ASSUME NEW n \in Nat \ {0}, NEW S \in SUBSET (0 .. n - 1)
  PROVE  Holds(Sized(S, n), S) /\ Sized(S, n).nbit = n /\ Bits(Sized(S, n)) = S
<1>1. PICK y : y = Sized(S, n)
  OBVIOUS
<1>2. NWord(n) \in Nat
  BY SizeFacts
<1>3. y.w = [i \in 1 .. NWord(n) |-> {b \in Full : (i - 1) * W + b \in S}] /\ y.nbit = n
  BY <1>1 DEF Sized
<1>4. y.w \in Seq(SUBSET Full) /\ Len(y.w) = NWord(n)
  BY <1>2, <1>3
<1>5. y \in MaskRecord
  BY <1>1, <1>3, <1>4 DEF Sized, MaskRecord
<1>6. S \subseteq Nat /\ \A a \in S : a < n
  OBVIOUS
<1>7. ASSUME NEW a \in Nat, Wrd(a) \in 1 .. Len(y.w) PROVE Idx(a) \in y.w[Wrd(a)] <=> a \in S
  <2>1. Idx(a) \in Full /\ a = (Wrd(a) - 1) * W + Idx(a)
    BY PlaceFacts
  <2>2. Idx(a) \in y.w[Wrd(a)] <=> (Wrd(a) - 1) * W + Idx(a) \in S
    BY <1>3, <1>4, <1>7, <2>1
  <2>. QED BY <2>1, <2>2
<1>8. Holds(y, S)
  BY <1>3, <1>4, <1>5, <1>6, <1>7, HoldsBy
<1>9. Bits(y) = S
  BY <1>8 DEF Holds, BitsOf, Places, Bits
<1>. QED BY <1>1, <1>3, <1>8, <1>9

-----------------------------------------------------------------------------
(* The calls.                                                              *)

MaskInv == Holds(m, want)

(* Words and size are of the types that HoldsFacts says.                   *)
LEMMA MaskFacts ==
  ASSUME MaskInv
  PROVE  /\ m \in MaskRecord /\ m.nbit \in Nat \ {0} /\ m.w \in Seq(SUBSET Full)
         /\ Len(m.w) = NWord(m.nbit) /\ Len(m.w) \in Nat \ {0} /\ DOMAIN m.w = 1 .. Len(m.w)
         /\ \A i \in 1 .. Len(m.w) : m.w[i] \in SUBSET Full
         /\ want \in SUBSET Nat
         /\ \A a \in want : a < m.nbit
         /\ \A a \in Nat : a < m.nbit => Wrd(a) \in 1 .. Len(m.w)
         /\ \A a \in Nat : Wrd(a) \in 1 .. Len(m.w) => (Idx(a) \in m.w[Wrd(a)] <=> a \in want)
         /\ \A a \in Nat : Wrd(a) \in 1 .. Len(m.w) <=> a < W * Len(m.w)
         /\ W * Len(m.w) \in Nat /\ m.nbit <= W * Len(m.w)
         /\ Aligned(m) => W * Len(m.w) = m.nbit
<1>1. Holds(m, want)
  BY DEF MaskInv
<1>2. m.nbit \in Nat \ {0} /\ Len(m.w) = NWord(m.nbit)
  BY <1>1, HoldsFacts
<1>3. Aligned(m) => W * Len(m.w) = m.nbit
  BY <1>2, SizeFacts DEF Aligned
<1>. QED BY <1>1, <1>3, HoldsFacts

(* One bit.                                                                *)
LEMMA OneBit ==
  ASSUME NEW x, NEW S, Holds(x, S), NEW bit \in Nat, Wrd(bit) \in 1 .. Len(x.w)
  PROVE  /\ bit < x.nbit => Holds([x EXCEPT !.w[Wrd(bit)] = @ \cup {Idx(bit)}], S \cup {bit})
         /\ Holds([x EXCEPT !.w[Wrd(bit)] = @ \ {Idx(bit)}], S \ {bit})
<1>1. /\ x \in MaskRecord /\ x.nbit \in Nat /\ Len(x.w) \in Nat /\ S \in SUBSET Nat
      /\ DOMAIN x.w = 1 .. Len(x.w) /\ \A i \in 1 .. Len(x.w) : x.w[i] \in SUBSET Full
      /\ \A a \in S : a < x.nbit
      /\ \A a \in Nat : Wrd(a) \in 1 .. Len(x.w) => (Idx(a) \in x.w[Wrd(a)] <=> a \in S)
  BY HoldsFacts
<1>2. PICK i \in 1 .. Len(x.w) : i = Wrd(bit)
  OBVIOUS
<1>3. Idx(bit) \in Full /\ \A a \in Nat : Wrd(a) = i => (a = bit <=> Idx(a) = Idx(bit))
  BY <1>2, PlaceFacts
<1>4. x.w \in [1 .. Len(x.w) -> SUBSET Full]
  BY HoldsFacts, LenProperties
<1>5. ASSUME bit < x.nbit PROVE Holds([x EXCEPT !.w[Wrd(bit)] = @ \cup {Idx(bit)}], S \cup {bit})
  <2>1. PICK v : v = [x.w EXCEPT ![i] = @ \cup {Idx(bit)}]
    OBVIOUS
  <2>2. /\ v \in [1 .. Len(x.w) -> SUBSET Full]
        /\ \A j \in 1 .. Len(x.w) : v[j] = IF j = i THEN x.w[i] \cup {Idx(bit)} ELSE x.w[j]
    BY <1>3, <1>4, <2>1
  <2>3. S \cup {bit} \in SUBSET Nat /\ \A a \in S \cup {bit} : a < x.nbit
    BY <1>1, <1>5
  <2>4. ASSUME NEW a \in Nat, Wrd(a) \in 1 .. Len(x.w) PROVE Idx(a) \in v[Wrd(a)] <=> a \in S \cup {bit}
    BY <1>1, <1>2, <1>3, <2>2, <2>4
  <2>5. Holds([x EXCEPT !.w = v], S \cup {bit})
    BY <2>2, <2>3, <2>4, Rewritten
  <2>6. [x EXCEPT !.w[Wrd(bit)] = @ \cup {Idx(bit)}] = [x EXCEPT !.w = v]
    BY <1>1, <1>2, <2>1 DEF MaskRecord
  <2>. QED BY <2>5, <2>6
<1>6. Holds([x EXCEPT !.w[Wrd(bit)] = @ \ {Idx(bit)}], S \ {bit})
  <2>1. PICK v : v = [x.w EXCEPT ![i] = @ \ {Idx(bit)}]
    OBVIOUS
  <2>2. /\ v \in [1 .. Len(x.w) -> SUBSET Full]
        /\ \A j \in 1 .. Len(x.w) : v[j] = IF j = i THEN x.w[i] \ {Idx(bit)} ELSE x.w[j]
    BY <1>3, <1>4, <2>1
  <2>3. S \ {bit} \in SUBSET Nat /\ \A a \in S \ {bit} : a < x.nbit
    BY <1>1
  <2>4. ASSUME NEW a \in Nat, Wrd(a) \in 1 .. Len(x.w) PROVE Idx(a) \in v[Wrd(a)] <=> a \in S \ {bit}
    BY <1>1, <1>2, <1>3, <2>2, <2>4
  <2>5. Holds([x EXCEPT !.w = v], S \ {bit})
    BY <2>2, <2>3, <2>4, Rewritten
  <2>6. [x EXCEPT !.w[Wrd(bit)] = @ \ {Idx(bit)}] = [x EXCEPT !.w = v]
    BY <1>1, <1>2, <2>1 DEF MaskRecord
  <2>. QED BY <2>5, <2>6
<1>. QED BY <1>5, <1>6

LEMMA SetInv ==
  ASSUME MaskInv, NEW bit \in Nat, IotMaskSet(bit)
  PROVE  MaskInv'
<1>1. CASE ~Growable(m, bit + 1)
  BY <1>1 DEF IotMaskSet, maskVars, MaskInv
<1>2. CASE Growable(m, bit + 1)
  <2>1. PICK x : x = Grown(m, bit + 1)
    OBVIOUS
  <2>2. /\ m' = [x EXCEPT !.w[Wrd(bit)] = @ \cup {Idx(bit)}, !.nbit = IF x.nbit < bit + 1 THEN bit + 1 ELSE @]
        /\ want' = want \cup {bit}
    BY <1>2, <2>1 DEF IotMaskSet
  <2>3. Holds(x, want) /\ NWord(bit + 1) <= Len(x.w)
    BY <2>1, GrownFacts DEF MaskInv
  <2>4. x \in MaskRecord /\ x.nbit \in Nat \ {0} /\ Len(x.w) = NWord(x.nbit) /\ Len(x.w) \in Nat /\ x.w \in Seq(SUBSET Full)
    BY <2>3, HoldsFacts
  <2>5. PICK n : n = IF x.nbit < bit + 1 THEN bit + 1 ELSE x.nbit
    OBVIOUS
  <2>6. n \in Nat \ {0} /\ x.nbit <= n /\ bit < n
    BY <2>4, <2>5
  <2>7. NWord(n) = Len(x.w)
    <3>1. CASE x.nbit < bit + 1
      <4>1. NWord(x.nbit) <= NWord(bit + 1)
        BY <2>4, <3>1, SizeOrder
      <4>2. NWord(bit + 1) \in Nat
        BY SizeFacts
      <4>. QED BY <2>3, <2>4, <2>5, <3>1, <4>1, <4>2
    <3>. QED BY <2>4, <2>5, <3>1
  <2>8. PICK y : y = [x EXCEPT !.nbit = n]
    OBVIOUS
  <2>9. y \in MaskRecord /\ y.nbit = n /\ y.w = x.w
    BY <2>4, <2>6, <2>8 DEF MaskRecord
  <2>10. Holds(y, want)
    <3>1. /\ want \subseteq Nat /\ \A a \in want : a < x.nbit
          /\ \A a \in Nat : Wrd(a) \in 1 .. Len(x.w) => (Idx(a) \in x.w[Wrd(a)] <=> a \in want)
      BY <2>3, HoldsFacts
    <3>2. \A a \in want : a < n
      BY <2>4, <2>6, <3>1
    <3>. QED BY <2>7, <2>9, <3>1, <3>2, HoldsBy
  <2>11. Wrd(bit) \in 1 .. Len(y.w)
    BY <2>6, <2>9, <2>10, HoldsFacts
  <2>12. Holds([y EXCEPT !.w[Wrd(bit)] = @ \cup {Idx(bit)}], want \cup {bit})
    BY <2>6, <2>9, <2>10, <2>11, OneBit
  <2>13. m' = [y EXCEPT !.w[Wrd(bit)] = @ \cup {Idx(bit)}]
    BY <2>2, <2>4, <2>5, <2>8 DEF MaskRecord
  <2>. QED BY <2>2, <2>12, <2>13 DEF MaskInv
<1>. QED BY <1>1, <1>2

LEMMA ClearInv ==
  ASSUME MaskInv, NEW bit \in Nat, IotMaskClear(bit)
  PROVE  MaskInv'
<1>1. want' = want \ {bit} /\ m.nbit \in Nat
  BY MaskFacts DEF IotMaskClear
<1>2. CASE m.nbit < bit + 1
  <2>1. bit \notin want
    BY <1>1, <1>2, MaskFacts
  <2>2. m' = m
    BY <1>2 DEF IotMaskClear
  <2>. QED BY <1>1, <2>1, <2>2 DEF MaskInv
<1>3. CASE ~(m.nbit < bit + 1)
  <2>1. m' = [m EXCEPT !.w[Wrd(bit)] = @ \ {Idx(bit)}]
    BY <1>3 DEF IotMaskClear
  <2>2. Wrd(bit) \in 1 .. Len(m.w)
    BY <1>1, <1>3, MaskFacts
  <2>. QED BY <1>1, <2>1, <2>2, OneBit DEF MaskInv
<1>. QED BY <1>2, <1>3

(* The lowest clear bit of the mask is the lowest of the first word that   *)
(* has one.                                                                *)
LEMMA MaskAllocInv ==
  ASSUME MaskInv, IotMaskAlloc
  PROVE  MaskInv'
<1>1. PICK roomy : roomy = {i \in DOMAIN m.w : m.w[i] # Full}
  OBVIOUS
<1>2. PICK i : i = Min(roomy)
  OBVIOUS
<1>3. PICK bit : bit = Lowest(i, Full \ m.w[i])
  OBVIOUS
<1>4. /\ roomy # {} /\ bit < m.nbit /\ m' = [m EXCEPT !.w[Wrd(bit)] = @ \cup {Idx(bit)}]
      /\ want' = want \cup {bit}
  BY <1>1, <1>2, <1>3 DEF IotMaskAlloc
<1>5. i \in 1 .. Len(m.w) /\ m.w[i] # Full /\ Len(m.w) \in Nat
  <2>1. roomy \in SUBSET Nat
    BY <1>1, MaskFacts
  <2>. QED BY <1>1, <1>2, <1>4, <2>1, MinInSet, MaskFacts
<1>6. Full \ m.w[i] # {} /\ Full \ m.w[i] \in SUBSET Nat
  <2>1. m.w[i] \in SUBSET Full
    BY <1>5, MaskFacts
  <2>2. Full \in SUBSET Nat
    BY MaskAssumption DEF Full
  <2>. QED BY <1>5, <2>1, <2>2
<1>7. PICK u : u = Min(Full \ m.w[i])
  OBVIOUS
<1>8. u \in Full
  BY <1>6, <1>7, MinInSet
<1>9. bit = (i - 1) * W + u
  BY <1>3, <1>6, <1>7 DEF Lowest
<1>10. bit \in Nat /\ Wrd(bit) = i
  BY <1>5, <1>8, <1>9, PlaceOf
<1>. QED BY <1>4, <1>5, <1>10, OneBit DEF MaskInv

(* Many bits: words with more, or fewer, in each.                          *)
LEMMA BitsAdded ==
  ASSUME MaskInv, NEW v \in [1 .. Len(m.w) -> SUBSET Full], NEW T \in SUBSET Nat,
         \A a \in T : a < m.nbit,
         \A a \in Nat : Wrd(a) \in 1 .. Len(m.w) => (Idx(a) \in v[Wrd(a)] <=> a \in T)
  PROVE  Holds([m EXCEPT !.w = [i \in DOMAIN @ |-> @[i] \cup v[i]]], want \cup T)
<1>1. /\ m \in MaskRecord /\ DOMAIN m.w = 1 .. Len(m.w) /\ want \in SUBSET Nat
      /\ \A i \in 1 .. Len(m.w) : m.w[i] \in SUBSET Full
      /\ \A a \in want : a < m.nbit
      /\ \A a \in Nat : Wrd(a) \in 1 .. Len(m.w) => (Idx(a) \in m.w[Wrd(a)] <=> a \in want)
  BY MaskFacts
<1>2. PICK u : u = [i \in 1 .. Len(m.w) |-> m.w[i] \cup v[i]]
  OBVIOUS
<1>3. u \in [1 .. Len(m.w) -> SUBSET Full]
  BY <1>1, <1>2
<1>4. want \cup T \in SUBSET Nat /\ \A a \in want \cup T : a < m.nbit
  BY <1>1
<1>5. \A a \in Nat : Wrd(a) \in 1 .. Len(m.w) => (Idx(a) \in u[Wrd(a)] <=> a \in want \cup T)
  BY <1>1, <1>2
<1>6. Holds([m EXCEPT !.w = u], want \cup T)
  BY <1>3, <1>4, <1>5, Rewritten DEF MaskInv
<1>7. [m EXCEPT !.w = [i \in DOMAIN @ |-> @[i] \cup v[i]]] = [m EXCEPT !.w = u]
  BY <1>1, <1>2 DEF MaskRecord
<1>. QED BY <1>6, <1>7

LEMMA BitsTaken ==
  ASSUME MaskInv, NEW v, NEW T,
         \A a \in Nat : Wrd(a) \in 1 .. Len(m.w) => (Idx(a) \in v[Wrd(a)] <=> a \in T)
  PROVE  Holds([m EXCEPT !.w = [i \in DOMAIN @ |-> @[i] \ v[i]]], want \ T)
<1>1. /\ m \in MaskRecord /\ DOMAIN m.w = 1 .. Len(m.w) /\ want \in SUBSET Nat
      /\ \A i \in 1 .. Len(m.w) : m.w[i] \in SUBSET Full
      /\ \A a \in want : a < m.nbit
      /\ \A a \in Nat : Wrd(a) \in 1 .. Len(m.w) => (Idx(a) \in m.w[Wrd(a)] <=> a \in want)
  BY MaskFacts
<1>2. PICK u : u = [i \in 1 .. Len(m.w) |-> m.w[i] \ v[i]]
  OBVIOUS
<1>3. u \in [1 .. Len(m.w) -> SUBSET Full]
  BY <1>1, <1>2
<1>4. want \ T \in SUBSET Nat /\ \A a \in want \ T : a < m.nbit
  BY <1>1
<1>5. \A a \in Nat : Wrd(a) \in 1 .. Len(m.w) => (Idx(a) \in u[Wrd(a)] <=> a \in want \ T)
  BY <1>1, <1>2
<1>6. Holds([m EXCEPT !.w = u], want \ T)
  BY <1>3, <1>4, <1>5, Rewritten DEF MaskInv
<1>7. [m EXCEPT !.w = [i \in DOMAIN @ |-> @[i] \ v[i]]] = [m EXCEPT !.w = u]
  BY <1>1, <1>2 DEF MaskRecord
<1>. QED BY <1>6, <1>7

LEMMA ClearAboveInv ==
  ASSUME MaskInv, NEW bit \in Nat, IotMaskClearAbove(bit)
  PROVE  MaskInv'
<1>1. PICK p : p = W * Len(m.w)
  OBVIOUS
<1>2. p \in Nat /\ m.nbit \in Nat /\ m.nbit <= p /\ Len(m.w) \in Nat /\ want \in SUBSET Nat /\ \A a \in want : a < m.nbit
  BY <1>1, MaskFacts
<1>3. want' = want \ (bit + 1 .. p)
  BY <1>1 DEF IotMaskClearAbove
<1>4. \A a \in want : a \in bit + 1 .. p <=> bit < a
  BY <1>2
<1>5. CASE Len(m.w) < Wrd(bit)
  <2>1. ~(bit < m.nbit)
    <3>1. Wrd(bit) \in Nat /\ (bit < m.nbit => Wrd(bit) \in 1 .. Len(m.w))
      BY MaskFacts, PlaceFacts
    <3>. QED BY <1>2, <1>5, <3>1
  <2>2. want' = want
    BY <1>2, <1>3, <1>4, <2>1
  <2>3. m' = m
    BY <1>5 DEF IotMaskClearAbove
  <2>. QED BY <2>2, <2>3 DEF MaskInv
<1>6. CASE ~(Len(m.w) < Wrd(bit))
  <2>1. PICK v : v = [i \in DOMAIN m.w |-> AboveIn(i, bit)]
    OBVIOUS
  <2>2. m' = [m EXCEPT !.w = [i \in DOMAIN @ |-> @[i] \ v[i]]]
    BY <1>6, <2>1, MaskFacts DEF IotMaskClearAbove, Without, MaskRecord
  <2>3. PICK T : T = {a \in Nat : bit < a}
    OBVIOUS
  <2>4. \A a \in Nat : Wrd(a) \in 1 .. Len(m.w) => (Idx(a) \in v[Wrd(a)] <=> a \in T)
    BY <2>1, <2>3, MaskFacts, AboveFacts
  <2>5. want' = want \ T
    BY <1>2, <1>3, <1>4, <2>3
  <2>. QED BY <2>2, <2>4, <2>5, BitsTaken DEF MaskInv
<1>. QED BY <1>5, <1>6

LEMMA SetAboveInv ==
  ASSUME MaskInv, NEW bit \in Nat, IotMaskSetAbove(bit)
  PROVE  MaskInv'
<1>1. PICK p : p = W * Len(m.w)
  OBVIOUS
<1>2. p \in Nat /\ m.nbit \in Nat /\ p = m.nbit /\ Len(m.w) \in Nat /\ want \in SUBSET Nat
  BY <1>1, MaskFacts DEF IotMaskSetAbove
<1>3. PICK T : T = bit + 1 .. p - 1
  OBVIOUS
<1>4. want' = want \cup T /\ T \in SUBSET Nat /\ (\A a \in T : a < m.nbit) /\ \A a \in Nat : a < p => (a \in T <=> bit < a)
  BY <1>1, <1>2, <1>3 DEF IotMaskSetAbove
<1>5. CASE Len(m.w) < Wrd(bit)
  <2>1. ~(bit < m.nbit)
    <3>1. Wrd(bit) \in Nat /\ (bit < m.nbit => Wrd(bit) \in 1 .. Len(m.w))
      BY MaskFacts, PlaceFacts
    <3>. QED BY <1>2, <1>5, <3>1
  <2>2. T = {}
    BY <1>2, <1>3, <2>1
  <2>3. m' = m
    BY <1>5 DEF IotMaskSetAbove
  <2>. QED BY <1>4, <2>2, <2>3 DEF MaskInv
<1>6. CASE ~(Len(m.w) < Wrd(bit))
  <2>1. PICK v : v = [i \in DOMAIN m.w |-> AboveIn(i, bit)]
    OBVIOUS
  <2>2. m' = [m EXCEPT !.w = [i \in DOMAIN @ |-> @[i] \cup v[i]]]
    BY <1>6, <2>1, MaskFacts DEF IotMaskSetAbove, With, MaskRecord
  <2>3. v \in [1 .. Len(m.w) -> SUBSET Full]
    <3>1. \A i : AboveIn(i, bit) \subseteq Full
      <4>1. Idx(bit) \in 0 .. W - 1 /\ W \in Nat
        BY PlaceFacts, MaskAssumption DEF Full
      <4>. QED BY <4>1 DEF AboveIn, Above, Full
    <3>. QED BY <2>1, <3>1, MaskFacts
  <2>4. \A a \in Nat : Wrd(a) \in 1 .. Len(m.w) => (Idx(a) \in v[Wrd(a)] <=> a \in T)
    BY <1>1, <1>4, <2>1, MaskFacts, AboveFacts
  <2>. QED BY <1>4, <2>2, <2>3, <2>4, BitsAdded DEF MaskInv
<1>. QED BY <1>5, <1>6

LEMMA ClearBelowInv ==
  ASSUME MaskInv, NEW bit \in Nat, IotMaskClearBelow(bit)
  PROVE  MaskInv'
<1>1. PICK T : T = 0 .. bit - 1
  OBVIOUS
<1>2. \A a \in Nat : a \in T <=> a < bit
  BY <1>1
<1>3. PICK v : v = [i \in DOMAIN m.w |-> BelowIn(i, bit)]
  OBVIOUS
<1>4. m' = [m EXCEPT !.w = [i \in DOMAIN @ |-> @[i] \ v[i]]]
  BY <1>3, MaskFacts DEF IotMaskClearBelow, Without, MaskRecord
<1>5. \A a \in Nat : Wrd(a) \in 1 .. Len(m.w) => (Idx(a) \in v[Wrd(a)] <=> a \in T)
  BY <1>2, <1>3, MaskFacts, BelowFacts
<1>6. want' = want \ T
  BY <1>1 DEF IotMaskClearBelow
<1>. QED BY <1>4, <1>5, <1>6, BitsTaken DEF MaskInv

LEMMA SetBelowInv ==
  ASSUME MaskInv, NEW bit \in Nat, IotMaskSetBelow(bit)
  PROVE  MaskInv'
<1>1. PICK T : T = 0 .. bit - 1
  OBVIOUS
<1>2. m.nbit \in Nat /\ bit < m.nbit
  BY MaskFacts DEF IotMaskSetBelow
<1>3. T \in SUBSET Nat /\ (\A a \in T : a < m.nbit) /\ \A a \in Nat : a \in T <=> a < bit
  BY <1>1, <1>2
<1>4. PICK v : v = [i \in DOMAIN m.w |-> BelowIn(i, bit)]
  OBVIOUS
<1>5. m' = [m EXCEPT !.w = [i \in DOMAIN @ |-> @[i] \cup v[i]]]
  BY <1>4, MaskFacts DEF IotMaskSetBelow, With, MaskRecord
<1>6. v \in [1 .. Len(m.w) -> SUBSET Full]
  <2>1. \A i : BelowIn(i, bit) \subseteq Full
    <3>1. Idx(bit) \in 0 .. W - 1 /\ W \in Nat
      BY PlaceFacts, MaskAssumption DEF Full
    <3>. QED BY <3>1 DEF BelowIn, Below, Full
  <2>. QED BY <1>4, <2>1, MaskFacts
<1>7. \A a \in Nat : Wrd(a) \in 1 .. Len(m.w) => (Idx(a) \in v[Wrd(a)] <=> a \in T)
  BY <1>3, <1>4, MaskFacts, BelowFacts
<1>8. want' = want \cup T
  BY <1>1 DEF IotMaskSetBelow
<1>. QED BY <1>3, <1>5, <1>6, <1>7, <1>8, BitsAdded DEF MaskInv

(* A range of bits that begins within the size is cut at the size.         *)
LEMMA EndsFacts ==
  ASSUME NEW a \in Nat, NEW b \in Nat, NEW n \in Nat \ {0}, m.nbit = n, Least(a, b) < n
  PROVE  /\ Ends(a, b).l \in Nat /\ Ends(a, b).h \in Nat /\ Ends(a, b).l <= Ends(a, b).h
         /\ \A c \in Nat : (c \in (a .. b) \cup (b .. a)) /\ c < n
                             <=> Ends(a, b).l <= c /\ c <= Ends(a, b).h
         /\ Ends(a, b).h < n
BY DEF Ends, Least

LEMMA ClearRangeInv ==
  ASSUME MaskInv, NEW a \in Nat, NEW b \in Nat, IotMaskClearRange(a, b)
  PROVE  MaskInv'
<1>1. m.nbit \in Nat \ {0} /\ Least(a, b) < m.nbit
  BY MaskFacts DEF IotMaskClearRange
<1>2. PICK l : l = Ends(a, b).l
  OBVIOUS
<1>3. PICK h : h = Ends(a, b).h
  OBVIOUS
<1>4. PICK S : S = (a .. b) \cup (b .. a)
  OBVIOUS
<1>5. /\ l \in Nat /\ h \in Nat /\ l <= h /\ h < m.nbit
      /\ \A c \in Nat : c \in S /\ c < m.nbit <=> l <= c /\ c <= h
  BY <1>1, <1>2, <1>3, <1>4, EndsFacts
<1>6. PICK T : T = {c \in Nat : l <= c /\ c <= h}
  OBVIOUS
<1>7. PICK v : v = [i \in DOMAIN m.w |-> RangeIn(i, l, h)]
  OBVIOUS
<1>8. m' = [m EXCEPT !.w = [i \in DOMAIN @ |-> @[i] \ v[i]]]
  BY <1>2, <1>3, <1>7, MaskFacts DEF IotMaskClearRange, ClearRange, Without, MaskRecord
<1>9. \A c \in Nat : Wrd(c) \in 1 .. Len(m.w) => (Idx(c) \in v[Wrd(c)] <=> c \in T)
  BY <1>5, <1>6, <1>7, MaskFacts, RangeFacts
<1>10. want' = want \ T
  <2>1. want' = want \ S
    BY <1>4 DEF IotMaskClearRange
  <2>2. \A c \in want : c \in Nat /\ c < m.nbit
    BY MaskFacts
  <2>. QED BY <1>5, <1>6, <2>1, <2>2
<1>. QED BY <1>8, <1>9, <1>10, BitsTaken DEF MaskInv

LEMMA SetRangeInv ==
  ASSUME MaskInv, NEW a \in Nat, NEW b \in Nat, IotMaskSetRange(a, b)
  PROVE  MaskInv'
<1>1. m.nbit \in Nat \ {0} /\ Least(a, b) < m.nbit
  BY MaskFacts DEF IotMaskSetRange
<1>2. PICK l : l = Ends(a, b).l
  OBVIOUS
<1>3. PICK h : h = Ends(a, b).h
  OBVIOUS
<1>4. PICK S : S = (a .. b) \cup (b .. a)
  OBVIOUS
<1>5. /\ l \in Nat /\ h \in Nat /\ l <= h /\ h < m.nbit
      /\ \A c \in Nat : c \in S /\ c < m.nbit <=> l <= c /\ c <= h
  BY <1>1, <1>2, <1>3, <1>4, EndsFacts
<1>6. PICK T : T = {c \in Nat : l <= c /\ c <= h}
  OBVIOUS
<1>7. T \in SUBSET Nat /\ \A c \in T : c < m.nbit
  BY <1>1, <1>5, <1>6
<1>8. PICK v : v = [i \in DOMAIN m.w |-> RangeIn(i, l, h)]
  OBVIOUS
<1>9. m' = [m EXCEPT !.w = [i \in DOMAIN @ |-> @[i] \cup v[i]]]
  BY <1>2, <1>3, <1>8, MaskFacts DEF IotMaskSetRange, With, MaskRecord
<1>10. v \in [1 .. Len(m.w) -> SUBSET Full]
  <2>1. Idx(l) \in 0 .. W - 1 /\ Idx(h) \in 0 .. W - 1 /\ W \in Nat
    BY <1>5, PlaceFacts, MaskAssumption DEF Full
  <2>2. Above(Idx(l)) \subseteq Full /\ Below(Idx(h)) \subseteq Full /\ Idx(l) \in Full /\ Idx(h) \in Full
    BY <2>1 DEF Above, Below, Full
  <2>3. \A i \in Nat : RangeIn(i, l, h) \subseteq Full
    BY <2>2 DEF RangeIn
  <2>. QED BY <1>8, <2>3, MaskFacts
<1>11. \A c \in Nat : Wrd(c) \in 1 .. Len(m.w) => (Idx(c) \in v[Wrd(c)] <=> c \in T)
  BY <1>5, <1>6, <1>8, MaskFacts, RangeFacts
<1>12. want' = want \cup T
  <2>1. want' = want \cup {c \in S : c < m.nbit}
    BY <1>4 DEF IotMaskSetRange
  <2>2. S \subseteq Nat
    BY <1>4
  <2>3. {c \in S : c < m.nbit} = T
    BY <1>5, <1>6, <2>2
  <2>. QED BY <2>1, <2>3
<1>. QED BY <1>7, <1>9, <1>10, <1>11, <1>12, BitsAdded DEF MaskInv

(* A mask that was made is empty.                                          *)
LEMMA EmptyHolds ==
  /\ W \in Nat \ {0} /\ NWord(W) = 1
  /\ Holds(EmptyMask, {})
  /\ \A n \in Nat \ {0} : Holds(InlinedMask(n), {})
<1>1. W \in Nat \ {0}
  BY MaskAssumption
<1>2. NWord(W) = 1
  <2>1. W + W - 1 = 1 * W + (W - 1) /\ W - 1 \in 0 .. W - 1
    BY <1>1
  <2>. QED BY <1>1, <2>1, QuotientOf DEF NWord
<1>3. ASSUME NEW y \in MaskRecord, Len(y.w) = NWord(y.nbit), \A i \in 1 .. Len(y.w) : y.w[i] = {}
      PROVE  Holds(y, {})
  <2>1. PICK S : S = {}
    OBVIOUS
  <2>2. \A a \in Nat : Wrd(a) \in 1 .. Len(y.w) => (Idx(a) \in y.w[Wrd(a)] <=> a \in S)
    BY <1>3, <2>1
  <2>3. S \subseteq Nat /\ \A a \in S : a < y.nbit
    BY <2>1
  <2>4. Holds(y, S)
    BY <1>3, <2>2, <2>3, HoldsBy
  <2>. QED BY <2>1, <2>4
<1>4. Holds(EmptyMask, {})
  <2>1. PICK y : y = EmptyMask
    OBVIOUS
  <2>2. y \in MaskRecord /\ y.w = <<{}>> /\ Len(y.w) = 1 /\ y.nbit = W
    BY <1>1, <2>1 DEF EmptyMask, MaskRecord
  <2>3. Len(y.w) = NWord(y.nbit) /\ \A i \in 1 .. Len(y.w) : y.w[i] = {}
    BY <1>2, <2>2
  <2>. QED BY <1>3, <2>1, <2>2, <2>3
<1>5. ASSUME NEW n \in Nat \ {0} PROVE Holds(InlinedMask(n), {})
  <2>1. PICK y : y = InlinedMask(n)
    OBVIOUS
  <2>2. NWord(n) \in Nat
    BY SizeFacts
  <2>3. y.w = [i \in 1 .. NWord(n) |-> {}] /\ y.nbit = n
    BY <2>1 DEF InlinedMask
  <2>4. y.w \in Seq(SUBSET Full) /\ Len(y.w) = NWord(n)
    BY <2>2, <2>3
  <2>5. y \in MaskRecord
    BY <2>1, <2>3, <2>4 DEF InlinedMask, MaskRecord
  <2>. QED BY <1>3, <2>1, <2>3, <2>4, <2>5
<1>. QED BY <1>1, <1>2, <1>4, <1>5

(* What can be made small is made anew, what has one word is emptied.      *)
LEMMA ResetInv ==
  ASSUME MaskInv, IotMaskReset
  PROVE  MaskInv'
<1>1. want' = {}
  BY DEF IotMaskReset
<1>2. W \in Nat \ {0} /\ NWord(W) = 1
  BY EmptyHolds
<1>3. CASE Dynamic(m) /\ m.nbit > W
  BY <1>1, <1>3, EmptyHolds DEF IotMaskReset, MaskInv
<1>4. CASE ~(Dynamic(m) /\ m.nbit > W)
  <2>1. m' = [m EXCEPT !.w[1] = {}]
    BY <1>4 DEF IotMaskReset
  <2>2. Len(m.w) = 1
    <3>1. m.nbit \in Nat \ {0} /\ Len(m.w) = NWord(m.nbit)
      BY MaskFacts
    <3>2. CASE Len(m.w) # 1
      <4>1. Dynamic(m) /\ m.nbit <= W
        BY <1>2, <1>4, <3>1, <3>2 DEF IotMaskReset
      <4>2. NWord(m.nbit) <= NWord(W)
        BY <1>2, <3>1, <4>1, SizeOrder
      <4>3. NWord(m.nbit) \in Nat \ {0}
        BY <3>1, SizeFacts
      <4>. QED BY <1>2, <3>1, <3>2, <4>2, <4>3
    <3>. QED BY <3>2
  <2>3. PICK v : v = [i \in 1 .. Len(m.w) |-> {}]
    OBVIOUS
  <2>4. m' = [m EXCEPT !.w = v]
    <3>1. DOMAIN m.w = {1} /\ m \in MaskRecord /\ m.w \in [{1} -> SUBSET Full]
      BY <2>2, MaskFacts, LenProperties
    <3>2. [m.w EXCEPT ![1] = {}] = v
      BY <2>2, <2>3, <3>1
    <3>. QED BY <2>1, <3>1, <3>2 DEF MaskRecord
  <2>5. v \in [1 .. Len(m.w) -> SUBSET Full] /\ {} \in SUBSET Nat
    BY <2>3
  <2>6. \A a \in Nat : Wrd(a) \in 1 .. Len(m.w) => (Idx(a) \in v[Wrd(a)] <=> a \in {})
    BY <2>3
  <2>7. Holds([m EXCEPT !.w = v], {})
    BY <2>5, <2>6, Rewritten DEF MaskInv
  <2>. QED BY <1>1, <2>4, <2>7 DEF MaskInv
<1>. QED BY <1>3, <1>4

LEMMA GrowMaskInv ==
  ASSUME MaskInv, NEW n \in Nat \ {0}, IotMaskGrow(n)
  PROVE  MaskInv'
<1>1. Holds(Grown(m, n), want)
  BY GrownFacts DEF MaskInv
<1>. QED BY <1>1, AllWithin DEF IotMaskGrow, Resized, MaskInv

LEMMA ShrinkMaskInv ==
  ASSUME MaskInv, NEW n \in Nat \ {0}, IotMaskShrink(n)
  PROVE  MaskInv'
<1>1. n % W = 0
  BY DEF IotMaskShrink
<1>. QED BY <1>1, ShrunkFacts DEF IotMaskShrink, Resized, MaskInv

(* The size is fixed, or not: that changes no bit.                         *)
LEMMA SameBits ==
  ASSUME NEW x, NEW S, Holds(x, S), NEW b \in BOOLEAN
  PROVE  Holds([x EXCEPT !.fixed = b], S) /\ [x EXCEPT !.fixed = b].w = x.w
<1>1. PICK y : y = [x EXCEPT !.fixed = b]
  OBVIOUS
<1>2. x \in MaskRecord
  BY HoldsFacts
<1>3. y \in MaskRecord /\ y.w = x.w /\ y.nbit = x.nbit
  BY <1>1, <1>2 DEF MaskRecord
<1>. QED BY <1>1, <1>3 DEF Holds, MaskRecord

LEMMA LockInv ==
  ASSUME MaskInv, NEW n \in Nat, IotMaskLock(n)
  PROVE  MaskInv'
<1>1. PICK k : k = IF n = 0 THEN m.nbit ELSE n
  OBVIOUS
<1>2. k \in Nat \ {0} /\ m.nbit \in Nat
  BY <1>1, MaskFacts
<1>3. PICK g : g = IF m.nbit < k THEN Grown(m, k) ELSE m
  OBVIOUS
<1>4. Holds(g, want)
  BY <1>2, <1>3, GrownFacts DEF MaskInv
<1>5. PICK x : x = IF g.nbit > k THEN Shrunk(g, k) ELSE g
  OBVIOUS
<1>6. k % W = 0 /\ Resized([x EXCEPT !.fixed = TRUE])
  BY <1>1, <1>3, <1>5 DEF IotMaskLock
<1>7. Holds(x, {a \in want : a < W * Len(x.w)})
  BY <1>2, <1>4, <1>5, <1>6, ShrunkFacts, AllWithin
<1>. QED BY <1>6, <1>7, SameBits DEF Resized, MaskInv

LEMMA UnlockInv ==
  ASSUME MaskInv, IotMaskUnlock
  PROVE  MaskInv'
<1>1. Holds([m EXCEPT !.fixed = FALSE], want)
  BY SameBits DEF MaskInv
<1>. QED BY <1>1, AllWithin DEF IotMaskUnlock, Resized, MaskInv

(* The bits of another mask, word by word.                                 *)
LEMMA MixedFacts ==
  ASSUME NEW x, NEW S, Holds(x, S), NEW y, NEW Q, Holds(y, Q), Len(x.w) <= Len(y.w)
  PROVE  /\ x \in MaskRecord /\ DOMAIN x.w = 1 .. Len(x.w) /\ Len(x.w) \in Nat
         /\ \A i \in 1 .. Len(x.w) : x.w[i] \in SUBSET Full /\ y.w[i] \in SUBSET Full
         /\ S \in SUBSET Nat /\ Q \in SUBSET Nat /\ \A a \in S : a < x.nbit
         /\ \A a \in Nat : Wrd(a) \in 1 .. Len(x.w) =>
              /\ Idx(a) \in x.w[Wrd(a)] <=> a \in S
              /\ Idx(a) \in y.w[Wrd(a)] <=> a \in Q
<1>1. /\ x \in MaskRecord /\ DOMAIN x.w = 1 .. Len(x.w) /\ Len(x.w) \in Nat
      /\ \A i \in 1 .. Len(x.w) : x.w[i] \in SUBSET Full
      /\ S \in SUBSET Nat /\ \A a \in S : a < x.nbit
      /\ \A a \in Nat : Wrd(a) \in 1 .. Len(x.w) => (Idx(a) \in x.w[Wrd(a)] <=> a \in S)
  BY HoldsFacts
<1>2. /\ Len(y.w) \in Nat /\ \A i \in 1 .. Len(y.w) : y.w[i] \in SUBSET Full
      /\ Q \in SUBSET Nat
      /\ \A a \in Nat : Wrd(a) \in 1 .. Len(y.w) => (Idx(a) \in y.w[Wrd(a)] <=> a \in Q)
  BY HoldsFacts
<1>3. \A i \in 1 .. Len(x.w) : i \in 1 .. Len(y.w)
  BY <1>1, <1>2
<1>4. \A i \in 1 .. Len(x.w) : y.w[i] \in SUBSET Full
  BY <1>2, <1>3
<1>5. \A a \in Nat : Wrd(a) \in 1 .. Len(x.w) => (Idx(a) \in y.w[Wrd(a)] <=> a \in Q)
  BY <1>2, <1>3
<1>. QED BY <1>1, <1>2, <1>4, <1>5

(* The bits of either.                                                     *)
LEMMA MixedOr ==
  ASSUME NEW x, NEW S, Holds(x, S), NEW y, NEW Q, Holds(y, Q), Len(x.w) <= Len(y.w),
         \A a \in Q : a < x.nbit, NEW z, z = [x EXCEPT !.w = [i \in DOMAIN @ |-> @[i] \cup y.w[i]]],
         NEW T, T = S \cup Q
  PROVE  Holds(z, T)
<1>1. /\ x \in MaskRecord /\ DOMAIN x.w = 1 .. Len(x.w) /\ Len(x.w) \in Nat
      /\ \A i \in 1 .. Len(x.w) : x.w[i] \in SUBSET Full /\ y.w[i] \in SUBSET Full
      /\ S \in SUBSET Nat /\ Q \in SUBSET Nat /\ \A a \in S : a < x.nbit
      /\ \A a \in Nat : Wrd(a) \in 1 .. Len(x.w) =>
           /\ Idx(a) \in x.w[Wrd(a)] <=> a \in S
           /\ Idx(a) \in y.w[Wrd(a)] <=> a \in Q
  BY MixedFacts
<1>2. PICK v : v = [i \in 1 .. Len(x.w) |-> x.w[i] \cup y.w[i]]
  OBVIOUS
<1>3. v \in [1 .. Len(x.w) -> SUBSET Full]
  BY <1>1, <1>2
<1>4. T \in SUBSET Nat /\ \A a \in T : a < x.nbit
  BY <1>1
<1>5. \A a \in Nat : Wrd(a) \in 1 .. Len(x.w) => (Idx(a) \in v[Wrd(a)] <=> a \in T)
  BY <1>1, <1>2
<1>6. Holds([x EXCEPT !.w = v], T)
  BY <1>3, <1>4, <1>5, Rewritten
<1>7. z = [x EXCEPT !.w = v]
  BY <1>1, <1>2 DEF MaskRecord
<1>. QED BY <1>6, <1>7

(* The bits of one of the two.                                             *)
LEMMA MixedXor ==
  ASSUME NEW x, NEW S, Holds(x, S), NEW y, NEW Q, Holds(y, Q), Len(x.w) <= Len(y.w),
         \A a \in Q : a < x.nbit, NEW z, z = [x EXCEPT !.w = [i \in DOMAIN @ |-> (@[i] \ y.w[i]) \cup (y.w[i] \ @[i])]],
         NEW T, T = (S \ Q) \cup (Q \ S)
  PROVE  Holds(z, T)
<1>1. /\ x \in MaskRecord /\ DOMAIN x.w = 1 .. Len(x.w) /\ Len(x.w) \in Nat
      /\ \A i \in 1 .. Len(x.w) : x.w[i] \in SUBSET Full /\ y.w[i] \in SUBSET Full
      /\ S \in SUBSET Nat /\ Q \in SUBSET Nat /\ \A a \in S : a < x.nbit
      /\ \A a \in Nat : Wrd(a) \in 1 .. Len(x.w) =>
           /\ Idx(a) \in x.w[Wrd(a)] <=> a \in S
           /\ Idx(a) \in y.w[Wrd(a)] <=> a \in Q
  BY MixedFacts
<1>2. PICK v : v = [i \in 1 .. Len(x.w) |-> (x.w[i] \ y.w[i]) \cup (y.w[i] \ x.w[i])]
  OBVIOUS
<1>3. v \in [1 .. Len(x.w) -> SUBSET Full]
  BY <1>1, <1>2
<1>4. T \in SUBSET Nat /\ \A a \in T : a < x.nbit
  BY <1>1
<1>5. \A a \in Nat : Wrd(a) \in 1 .. Len(x.w) => (Idx(a) \in v[Wrd(a)] <=> a \in T)
  BY <1>1, <1>2
<1>6. Holds([x EXCEPT !.w = v], T)
  BY <1>3, <1>4, <1>5, Rewritten
<1>7. z = [x EXCEPT !.w = v]
  BY <1>1, <1>2 DEF MaskRecord
<1>. QED BY <1>6, <1>7

(* The bits of both.                                                       *)
LEMMA MixedAnd ==
  ASSUME NEW x, NEW S, Holds(x, S), NEW y, NEW Q, Holds(y, Q), Len(x.w) <= Len(y.w),
         NEW z, z = [x EXCEPT !.w = [i \in DOMAIN @ |-> @[i] \cap y.w[i]]],
         NEW T, T = S \cap Q
  PROVE  Holds(z, T)
<1>1. /\ x \in MaskRecord /\ DOMAIN x.w = 1 .. Len(x.w) /\ Len(x.w) \in Nat
      /\ \A i \in 1 .. Len(x.w) : x.w[i] \in SUBSET Full /\ y.w[i] \in SUBSET Full
      /\ S \in SUBSET Nat /\ Q \in SUBSET Nat /\ \A a \in S : a < x.nbit
      /\ \A a \in Nat : Wrd(a) \in 1 .. Len(x.w) =>
           /\ Idx(a) \in x.w[Wrd(a)] <=> a \in S
           /\ Idx(a) \in y.w[Wrd(a)] <=> a \in Q
  BY MixedFacts
<1>2. PICK v : v = [i \in 1 .. Len(x.w) |-> x.w[i] \cap y.w[i]]
  OBVIOUS
<1>3. v \in [1 .. Len(x.w) -> SUBSET Full]
  BY <1>1, <1>2
<1>4. T \in SUBSET Nat /\ \A a \in T : a < x.nbit
  BY <1>1
<1>5. \A a \in Nat : Wrd(a) \in 1 .. Len(x.w) => (Idx(a) \in v[Wrd(a)] <=> a \in T)
  BY <1>1, <1>2
<1>6. Holds([x EXCEPT !.w = v], T)
  BY <1>3, <1>4, <1>5, Rewritten
<1>7. z = [x EXCEPT !.w = v]
  BY <1>1, <1>2 DEF MaskRecord
<1>. QED BY <1>6, <1>7

(* A mask that grew to the size of the other one has just its size.        *)
LEMMA GrownTo ==
  ASSUME MaskInv, NEW n \in Nat \ {0}, NEW Q \in SUBSET (0 .. n - 1), NEW src, src = Sized(Q, n),
         Len(src.w) >= Len(m.w), Aligned(src), Aligned(m)
  PROVE  LET x == Grown(m, src.nbit)
         IN  /\ Holds(x, want) /\ Holds(src, Q) /\ Bits(src) = Q
             /\ Len(x.w) <= Len(src.w) /\ \A a \in Q : a < x.nbit
<1>1. Holds(src, Q) /\ src.nbit = n /\ Bits(src) = Q
  BY SizedFacts
<1>2. Len(src.w) = NWord(n) /\ NWord(n) \in Nat
  BY <1>1, HoldsFacts, SizeFacts
<1>3. m.nbit \in Nat \ {0} /\ Len(m.w) = NWord(m.nbit) /\ Len(m.w) \in Nat
  BY MaskFacts
<1>4. PICK x : x = Grown(m, n)
  OBVIOUS
<1>5. /\ Holds(x, want) /\ x.nbit = IF NWord(n) <= Len(m.w) THEN m.nbit ELSE n
      /\ Len(x.w) = IF NWord(n) <= Len(m.w) THEN Len(m.w) ELSE NWord(n)
  BY <1>4, GrownFacts DEF MaskInv
<1>6. Len(x.w) <= Len(src.w)
  BY <1>2, <1>3, <1>5
<1>7. x.nbit = n
  <2>1. CASE NWord(n) <= Len(m.w)
    <3>1. NWord(n) = NWord(m.nbit)
      BY <1>2, <1>3, <2>1
    <3>2. n % W = 0 /\ m.nbit % W = 0
      BY <1>1 DEF Aligned
    <3>3. n = m.nbit
      BY <1>3, <3>1, <3>2, SizeOrder
    <3>. QED BY <1>5, <2>1, <3>3
  <2>. QED BY <1>5, <2>1
<1>. QED BY <1>1, <1>4, <1>5, <1>6, <1>7

LEMMA OrInv ==
  ASSUME MaskInv, NEW n \in Nat \ {0}, NEW Q \in SUBSET (0 .. n - 1),
         IotMaskOr(Sized(Q, n)) \/ IotMaskXor(Sized(Q, n))
  PROVE  MaskInv'
<1>1. PICK src : src = Sized(Q, n)
  OBVIOUS
<1>2. PICK x : x = Grown(m, src.nbit)
  OBVIOUS
<1>3. Len(src.w) >= Len(m.w) /\ Aligned(src) /\ Aligned(m)
  BY <1>1 DEF IotMaskOr, IotMaskXor
<1>4. /\ Holds(x, want) /\ Holds(src, Q) /\ Bits(src) = Q
      /\ Len(x.w) <= Len(src.w) /\ \A a \in Q : a < x.nbit
  BY <1>1, <1>2, <1>3, GrownTo
<1>5. CASE IotMaskOr(Sized(Q, n))
  <2>1. m' = [x EXCEPT !.w = [i \in DOMAIN @ |-> @[i] \cup src.w[i]]] /\ want' = want \cup Q
    BY <1>1, <1>2, <1>4, <1>5 DEF IotMaskOr, Combined
  <2>2. Holds(m', want')
    BY <1>4, <2>1, MixedOr
  <2>. QED BY <2>2 DEF MaskInv
<1>6. CASE IotMaskXor(Sized(Q, n))
  <2>1. /\ m' = [x EXCEPT !.w = [i \in DOMAIN @ |-> (@[i] \ src.w[i]) \cup (src.w[i] \ @[i])]]
        /\ want' = (want \ Q) \cup (Q \ want)
    BY <1>1, <1>2, <1>4, <1>6 DEF IotMaskXor, Combined
  <2>2. Holds(m', want')
    BY <1>4, <2>1, MixedXor
  <2>. QED BY <2>2 DEF MaskInv
<1>. QED BY <1>5, <1>6

LEMMA AndInv ==
  ASSUME MaskInv, NEW n \in Nat \ {0}, NEW Q \in SUBSET (0 .. n - 1), IotMaskAnd(Sized(Q, n))
  PROVE  MaskInv'
<1>1. PICK src : src = Sized(Q, n)
  OBVIOUS
<1>2. PICK x : x = IF src.nbit < m.nbit THEN Shrunk(m, src.nbit) ELSE m
  OBVIOUS
<1>3. Holds(src, Q) /\ src.nbit = n /\ Bits(src) = Q
  BY <1>1, SizedFacts
<1>4. /\ Len(x.w) <= Len(src.w) /\ n % W = 0 /\ want' = want \cap Q
      /\ m' = [x EXCEPT !.w = [i \in DOMAIN @ |-> @[i] \cap src.w[i]]]
  BY <1>1, <1>2, <1>3 DEF IotMaskAnd, Combined, Aligned
<1>5. PICK S : S = {a \in want : a < W * Len(x.w)}
  OBVIOUS
<1>6. Holds(x, S) /\ (x = m \/ x.nbit = n)
  <2>1. CASE n < m.nbit
    <3>1. x = Shrunk(m, n)
      BY <1>2, <1>3, <2>1
    <3>. QED BY <1>4, <1>5, <3>1, ShrunkFacts DEF MaskInv
  <2>2. CASE ~(n < m.nbit)
    <3>1. x = m
      BY <1>2, <1>3, <2>2
    <3>. QED BY <1>5, <3>1, AllWithin DEF MaskInv
  <2>. QED BY <2>1, <2>2
<1>7. PICK T : T = S \cap Q
  OBVIOUS
<1>8. Holds(m', T)
  <2>1. Holds(x, S) /\ Holds(src, Q) /\ Len(x.w) <= Len(src.w)
    BY <1>3, <1>4, <1>6
  <2>2. m' = [x EXCEPT !.w = [i \in DOMAIN @ |-> @[i] \cap src.w[i]]]
    BY <1>4
  <2>. QED BY <1>7, <2>1, <2>2, MixedAnd
<1>9. S \cap Q = want'
  <2>1. CASE x = m
    BY <1>4, <1>5, <2>1, AllWithin DEF MaskInv
  <2>2. CASE x.nbit = n
    <3>1. PICK p : p = W * Len(x.w)
      OBVIOUS
    <3>2. p \in Nat /\ n <= p
      BY <1>6, <2>2, <3>1, HoldsFacts
    <3>3. \A a \in Q : a < p
      BY <3>2
    <3>. QED BY <1>4, <1>5, <3>1, <3>3
  <2>. QED BY <1>6, <2>1, <2>2
<1>. QED BY <1>7, <1>8, <1>9 DEF MaskInv

LEMMA NotInv ==
  ASSUME MaskInv, IotMaskNot
  PROVE  MaskInv'
<1>1. /\ m \in MaskRecord /\ m.nbit \in Nat \ {0} /\ DOMAIN m.w = 1 .. Len(m.w)
      /\ \A a \in Nat : Wrd(a) \in 1 .. Len(m.w) => (Idx(a) \in m.w[Wrd(a)] <=> a \in want)
      /\ \A a \in Nat : Wrd(a) \in 1 .. Len(m.w) <=> a < W * Len(m.w)
      /\ W * Len(m.w) = m.nbit
  BY MaskFacts DEF IotMaskNot
<1>2. PICK T : T = (0 .. m.nbit - 1) \ want
  OBVIOUS
<1>3. T \in SUBSET Nat /\ \A a \in T : a < m.nbit
  BY <1>1, <1>2
<1>4. PICK v : v = [i \in 1 .. Len(m.w) |-> Full \ m.w[i]]
  OBVIOUS
<1>5. v \in [1 .. Len(m.w) -> SUBSET Full]
  BY <1>4
<1>6. ASSUME NEW a \in Nat, Wrd(a) \in 1 .. Len(m.w) PROVE Idx(a) \in v[Wrd(a)] <=> a \in T
  <2>1. a < m.nbit
    BY <1>1, <1>6
  <2>2. Idx(a) \in v[Wrd(a)] <=> Idx(a) \notin m.w[Wrd(a)]
    BY <1>4, <1>6, PlaceFacts
  <2>. QED BY <1>1, <1>2, <1>6, <2>1, <2>2
<1>7. Holds([m EXCEPT !.w = v], T)
  BY <1>3, <1>5, <1>6, Rewritten DEF MaskInv
<1>8. m' = [m EXCEPT !.w = v] /\ want' = T
  BY <1>1, <1>2, <1>4 DEF IotMaskNot, MaskRecord
<1>. QED BY <1>7, <1>8 DEF MaskInv

-----------------------------------------------------------------------------
(* The questions.                                                          *)

(* The least element of a set is what Min() is.                            *)
LEMMA LeastIs ==
  ASSUME NEW S \in SUBSET Nat, NEW x \in S, \A y \in S : x <= y
  PROVE  Min(S) = x
<1>1. PICK k : k = Min(S)
  OBVIOUS
<1>2. k \in S /\ \A y \in S : k <= y
  BY <1>1, MinInSet
<1>3. k <= x /\ x <= k /\ k \in Nat /\ x \in Nat
  BY <1>2
<1>. QED BY <1>1, <1>3

(* The first bit from one on that is in some words.                        *)
LEMMA NextFacts ==
  ASSUME NEW v \in Seq(SUBSET Full), NEW S \in SUBSET Nat, NEW bit \in Nat,
         \A a \in Nat : Wrd(a) \in 1 .. Len(v) => (Idx(a) \in v[Wrd(a)] <=> a \in S),
         \A a \in S : Wrd(a) \in 1 .. Len(v)
  PROVE  LET after == {b \in S : b >= bit}
         IN  NextIn(v, bit) = IF after = {} THEN -1 ELSE Min(after)
<1>1. PICK after : after = {b \in S : b >= bit}
  OBVIOUS
<1>2. PICK cut : cut = [i \in Nat |-> IF i = Wrd(bit) THEN v[i] \ Below(Idx(bit)) ELSE v[i]]
  OBVIOUS
<1>3. PICK hit : hit = {i \in Wrd(bit) .. Len(v) : cut[i] # {}}
  OBVIOUS
<1>4. Len(v) \in Nat /\ \A i \in 1 .. Len(v) : v[i] \in SUBSET Full
  BY LenProperties, ElementOfSeq
<1>5. Wrd(bit) \in Nat \ {0} /\ Idx(bit) \in Nat
  BY PlaceFacts
<1>6. hit \subseteq 1 .. Len(v)
  BY <1>3, <1>4, <1>5
<1>7. NextIn(v, bit) = IF hit = {} THEN -1 ELSE Lowest(Min(hit), cut[Min(hit)])
  <2>1. \A i \in Wrd(bit) .. Len(v) : cut[i] = IF i = Wrd(bit) THEN v[i] \ Below(Idx(bit)) ELSE v[i]
    BY <1>2, <1>4, <1>5
  <2>2. hit = {i \in Wrd(bit) .. Len(v) : (IF i = Wrd(bit) THEN v[i] \ Below(Idx(bit)) ELSE v[i]) # {}}
    BY <1>3, <2>1
  <2>3. PICK i : i = Min(hit)
    OBVIOUS
  <2>4. hit # {} => i \in Wrd(bit) .. Len(v)
    <3>1. hit \in SUBSET Nat
      BY <1>4, <1>6
    <3>. QED BY <1>3, <2>3, <3>1, MinInSet
  <2>. QED BY <2>1, <2>2, <2>3, <2>4 DEF NextIn
<1>8. \A i \in 1 .. Len(v) : cut[i] \in SUBSET Full
  BY <1>2, <1>4
<1>9. ASSUME NEW a \in Nat
      PROVE  a \in after <=> Wrd(a) \in hit /\ Idx(a) \in cut[Wrd(a)]
  <2>1. /\ Wrd(a) \in Nat /\ Idx(a) \in Full /\ Idx(a) \in Nat
        /\ (Wrd(a) < Wrd(bit) => a < bit) /\ (Wrd(a) = Wrd(bit) => (a < bit <=> Idx(a) < Idx(bit)))
        /\ (Wrd(bit) < Wrd(a) => bit < a)
    BY PlaceFacts
  <2>2. Idx(a) \in Below(Idx(bit)) <=> Idx(a) < Idx(bit)
    BY <1>5, <2>1 DEF Below
  <2>3. ASSUME a \in S, a >= bit PROVE Wrd(a) \in hit /\ Idx(a) \in cut[Wrd(a)]
    <3>1. Wrd(a) \in Wrd(bit) .. Len(v) /\ Idx(a) \in v[Wrd(a)]
      BY <1>4, <1>5, <2>1, <2>3
    <3>2. Idx(a) \in cut[Wrd(a)]
      BY <1>2, <2>1, <2>2, <2>3, <3>1
    <3>. QED BY <1>3, <3>1, <3>2
  <2>4. ASSUME Wrd(a) \in hit, Idx(a) \in cut[Wrd(a)] PROVE a \in S /\ a >= bit
    <3>1. Wrd(a) \in 1 .. Len(v) /\ Wrd(a) >= Wrd(bit)
      BY <1>3, <1>4, <1>5, <1>6, <2>1, <2>4
    <3>2. Idx(a) \in v[Wrd(a)] /\ (Wrd(a) = Wrd(bit) => ~(Idx(a) < Idx(bit)))
      BY <1>2, <2>1, <2>2, <2>4
    <3>3. a \in S
      BY <3>1, <3>2
    <3>. QED BY <1>5, <2>1, <3>1, <3>2, <3>3
  <2>. QED BY <1>1, <2>3, <2>4
<1>10. after \in SUBSET Nat
  BY <1>1
<1>11. CASE hit = {}
  <2>1. after = {}
    BY <1>9, <1>10, <1>11
  <2>. QED BY <1>1, <1>7, <1>11, <2>1
<1>12. CASE hit # {}
  <2>1. PICK i : i = Min(hit)
    OBVIOUS
  <2>2. i \in hit /\ i \in 1 .. Len(v) /\ \A j \in hit : i <= j
    <3>1. hit \in SUBSET Nat
      BY <1>4, <1>6
    <3>. QED BY <1>6, <1>12, <2>1, <3>1, MinInSet
  <2>3. cut[i] # {} /\ cut[i] \in SUBSET Full /\ cut[i] \in SUBSET Nat
    <3>1. cut[i] # {} /\ cut[i] \in SUBSET Full
      BY <1>3, <1>8, <2>2
    <3>. QED BY <3>1, MaskAssumption DEF Full
  <2>4. PICK u : u = Min(cut[i])
    OBVIOUS
  <2>5. u \in cut[i] /\ u \in Full /\ \A x \in cut[i] : u <= x
    BY <2>3, <2>4, MinInSet
  <2>6. PICK a : a = (i - 1) * W + u
    OBVIOUS
  <2>7. a \in Nat /\ Wrd(a) = i /\ Idx(a) = u
    BY <1>4, <2>2, <2>5, <2>6, PlaceOf
  <2>8. a \in after
    BY <1>9, <2>2, <2>5, <2>7
  <2>9. ASSUME NEW b \in after PROVE a <= b
    <3>1. b \in Nat /\ Wrd(b) \in hit /\ Idx(b) \in cut[Wrd(b)]
      BY <1>9, <1>10, <2>9
    <3>2. i <= Wrd(b) /\ (Wrd(b) = i => u <= Idx(b))
      BY <2>2, <2>5, <3>1
    <3>3. /\ Wrd(a) < Wrd(b) => a < b
          /\ Wrd(a) = Wrd(b) => (a < b <=> Idx(a) < Idx(b)) /\ (a = b <=> Idx(a) = Idx(b))
      BY <2>7, <3>1, PlaceFacts
    <3>4. Wrd(b) \in Nat /\ Idx(b) \in Nat /\ i \in Nat /\ u \in Nat
      BY <2>7, <3>1, PlaceFacts
    <3>. QED BY <2>7, <3>1, <3>2, <3>3, <3>4
  <2>10. Min(after) = a
    BY <1>10, <2>8, <2>9, LeastIs
  <2>11. NextIn(v, bit) = a
    BY <1>7, <1>12, <2>1, <2>3, <2>4, <2>6 DEF Lowest
  <2>. QED BY <1>1, <2>8, <2>10, <2>11
<1>. QED BY <1>11, <1>12

(* What is asked of a mask that holds its bits is answered by them.        *)
LEMMA Answers ==
  ASSUME MaskInv
  PROVE  MaskHoldsBits
<1>1. /\ m.nbit \in Nat \ {0} /\ m.w \in Seq(SUBSET Full) /\ DOMAIN m.w = 1 .. Len(m.w)
      /\ Len(m.w) = NWord(m.nbit) /\ Len(m.w) \in Nat \ {0}
      /\ \A i \in 1 .. Len(m.w) : m.w[i] \in SUBSET Full
      /\ want \in SUBSET Nat
      /\ \A a \in want : a < m.nbit
      /\ \A a \in Nat : a < m.nbit => Wrd(a) \in 1 .. Len(m.w)
      /\ \A a \in Nat : Wrd(a) \in 1 .. Len(m.w) => (Idx(a) \in m.w[Wrd(a)] <=> a \in want)
  BY MaskFacts
<1>2. \A a \in Nat : Wrd(a) \in 1 .. Len(m.w) <=> a < W * Len(m.w)
  BY MaskFacts
<1>3. PICK p : p = W * Len(m.w)
  OBVIOUS
<1>4. p \in Nat /\ m.nbit <= p
  BY <1>3, MaskFacts
<1>5. Bits(m) = want
  BY DEF MaskInv, Holds, BitsOf, Places, Bits
<1>6. ASSUME NEW bit \in Bit PROVE IotMaskTest(m, bit) = (bit \in want)
  <2>1. bit \in Nat
    BY MaskAssumption DEF Bit
  <2>. QED BY <1>1, <2>1 DEF IotMaskTest
<1>7. ASSUME NEW bit \in 0 .. p - 1
      PROVE  /\ IotMaskNextSet(m, bit) =
                  IF {b \in want : b >= bit} = {} THEN -1 ELSE Min({b \in want : b >= bit})
             /\ IotMaskNextClear(m, bit) =
                  IF {b \in (0 .. p - 1) \ want : b >= bit} = {} THEN -1
                  ELSE Min({b \in (0 .. p - 1) \ want : b >= bit})
  <2>1. bit \in Nat
    BY <1>4
  <2>2. PICK v : v = m.w
    OBVIOUS
  <2>3. \A a \in want : Wrd(a) \in 1 .. Len(v)
    BY <1>1, <2>2
  <2>4. NextIn(v, bit) = IF {b \in want : b >= bit} = {} THEN -1 ELSE Min({b \in want : b >= bit})
    BY <1>1, <2>1, <2>2, <2>3, NextFacts
  <2>5. PICK u : u = [i \in 1 .. Len(m.w) |-> Full \ m.w[i]]
    OBVIOUS
  <2>6. u \in Seq(SUBSET Full) /\ Len(u) = Len(m.w)
    BY <1>1, <2>5
  <2>7. PICK S : S = (0 .. p - 1) \ want
    OBVIOUS
  <2>8. S \in SUBSET Nat /\ \A a \in S : Wrd(a) \in 1 .. Len(u)
    BY <1>2, <1>3, <1>4, <2>6, <2>7
  <2>9. ASSUME NEW a \in Nat, Wrd(a) \in 1 .. Len(u) PROVE Idx(a) \in u[Wrd(a)] <=> a \in S
    <3>1. a \in 0 .. p - 1
      BY <1>2, <1>3, <1>4, <2>6, <2>9
    <3>2. Idx(a) \in u[Wrd(a)] <=> Idx(a) \notin m.w[Wrd(a)]
      BY <2>5, <2>6, <2>9, PlaceFacts
    <3>. QED BY <1>1, <2>6, <2>7, <2>9, <3>1, <3>2
  <2>10. NextIn(u, bit) = IF {b \in S : b >= bit} = {} THEN -1 ELSE Min({b \in S : b >= bit})
    BY <2>1, <2>6, <2>8, <2>9, NextFacts
  <2>11. IotMaskNextClear(m, bit) = NextIn(u, bit)
    BY <1>1, <2>5 DEF IotMaskNextClear
  <2>. QED BY <2>2, <2>4, <2>7, <2>10, <2>11 DEF IotMaskNextSet
<1>8. \A bit \in 0 .. W * Len(m.w) - 1 :
        LET least(S) == IF S = {} THEN -1 ELSE Min(S)
            after(S) == {b \in S : b >= bit}
        IN  /\ IotMaskNextSet(m, bit) = least(after(want))
            /\ IotMaskNextClear(m, bit) = least(after(0 .. W * Len(m.w) - 1) \ want)
  <2>1. SUFFICES ASSUME NEW bit \in 0 .. p - 1
                 PROVE  /\ IotMaskNextSet(m, bit) =
                             IF {b \in want : b >= bit} = {} THEN -1 ELSE Min({b \in want : b >= bit})
                        /\ IotMaskNextClear(m, bit) =
                             IF {b \in 0 .. p - 1 : b >= bit} \ want = {} THEN -1
                             ELSE Min({b \in 0 .. p - 1 : b >= bit} \ want)
    BY <1>3
  <2>2. {b \in 0 .. p - 1 : b >= bit} \ want = {b \in (0 .. p - 1) \ want : b >= bit}
    OBVIOUS
  <2>. QED BY <1>7, <2>1, <2>2
<1>. QED BY <1>1, <1>5, <1>6, <1>8 DEF MaskHoldsBits

(* Whatever calls a user makes of those the code can bear, a mask of any   *)
(* words and sizes holds the bits its user put there, and the questions    *)
(* for one bit and for the next one that is set or clear are answered by   *)
(* them.                                                                   *)
THEOREM MaskSafety == MaskSpec => []MaskHoldsBits
<1>1. MaskInit => MaskInv
  <2>1. SUFFICES ASSUME MaskInit PROVE Holds(m, want)
    BY DEF MaskInv
  <2>2. W \in Nat \ {0} /\ W + 1 \in Nat \ {0}
    BY MaskAssumption
  <2>. QED BY <2>1, <2>2, EmptyHolds DEF MaskInit
<1>2. ASSUME MaskInv, [MaskNext]_maskVars PROVE MaskInv'
  <2>1. CASE UNCHANGED maskVars
    BY <1>2, <2>1 DEF maskVars, MaskInv
  <2>2. CASE MaskNext
    <3>1. Bit \subseteq Nat /\ \A bit \in Bit : bit + 1 \in Nat \ {0}
      BY MaskAssumption DEF Bit
    <3>2. ASSUME NEW bit \in Bit,
                 \/ IotMaskSet(bit) \/ IotMaskClear(bit)
                 \/ IotMaskClearAbove(bit) \/ IotMaskSetAbove(bit)
                 \/ IotMaskClearBelow(bit) \/ IotMaskSetBelow(bit)
                 \/ IotMaskGrow(bit + 1) \/ IotMaskShrink(bit + 1)
          PROVE  MaskInv'
      BY <1>2, <3>1, <3>2, SetInv, ClearInv, ClearAboveInv, SetAboveInv, ClearBelowInv, SetBelowInv,
         GrowMaskInv, ShrinkMaskInv
    <3>3. ASSUME NEW a \in Bit, NEW b \in Bit, IotMaskClearRange(a, b) \/ IotMaskSetRange(a, b)
          PROVE  MaskInv'
      BY <1>2, <3>1, <3>3, ClearRangeInv, SetRangeInv
    <3>4. ASSUME NEW n \in {0} \cup {bit + 1 : bit \in Bit}, IotMaskLock(n) PROVE MaskInv'
      <4>1. n \in Nat
        BY <3>1
      <4>. QED BY <1>2, <3>4, <4>1, LockInv
    <3>5. ASSUME IotMaskAlloc \/ IotMaskReset \/ IotMaskUnlock \/ IotMaskNot PROVE MaskInv'
      BY <1>2, <3>5, MaskAllocInv, ResetInv, UnlockInv, NotInv
    <3>6. ASSUME NEW n \in {W, MaxBit + 1}, NEW bits \in SUBSET (0 .. n - 1),
                 IotMaskOr(Sized(bits, n)) \/ IotMaskXor(Sized(bits, n)) \/ IotMaskAnd(Sized(bits, n))
          PROVE  MaskInv'
      <4>1. n \in Nat \ {0}
        BY MaskAssumption
      <4>. QED BY <1>2, <3>6, <4>1, OrInv, AndInv
    <3>. QED BY <2>2, <3>2, <3>3, <3>4, <3>5, <3>6 DEF MaskNext
  <2>. QED BY <1>2, <2>1, <2>2
<1>3. MaskInv => MaskHoldsBits
  BY Answers
<1>. QED BY <1>1, <1>2, <1>3, PTL DEF MaskSpec
-----------------------------------------------------------------------------
(* Sums over finite sets.                                                  *)

SumBy(f, S) == MapThenSumSet(LAMBDA b : f[b], S)

OneOf(s) == CHOOSE x \in s : TRUE
Addition(f, g, s) == IF s = {} THEN 0 ELSE f[OneOf(s)] + g[s \ {OneOf(s)}]
SummedBy(f, S, g) == g = [s \in SUBSET S |-> Addition(f, g, s)]

(* A set is added up from the sums of the smaller ones.                    *)
LEMMA SumExists ==
  ASSUME NEW U, IsFiniteSet(U), NEW f \in [U -> Nat]
  PROVE  \E g \in [SUBSET U -> Nat] : SummedBy(f, U, g)
<1> DEFINE Good == {n \in Nat : \E g \in [SUBSET U -> Nat] :
                      \A s \in SUBSET U : Cardinality(s) <= n => g[s] = Addition(f, g, s)}
<1>1. \A s \in SUBSET U : /\ IsFiniteSet(s) /\ Cardinality(s) \in Nat
                          /\ Cardinality(s) <= Cardinality(U) /\ (Cardinality(s) = 0 <=> s = {})
  BY FS_Subset, FS_CardinalityType, FS_EmptySet
<1>2. \A s \in SUBSET U : s # {} =>
        /\ OneOf(s) \in s /\ s \ {OneOf(s)} \in SUBSET U
        /\ Cardinality(s \ {OneOf(s)}) = Cardinality(s) - 1
  <2>1. ASSUME NEW s \in SUBSET U, s # {}
        PROVE  /\ OneOf(s) \in s /\ s \ {OneOf(s)} \in SUBSET U
               /\ Cardinality(s \ {OneOf(s)}) = Cardinality(s) - 1
    <3>1. PICK x : x = OneOf(s) OBVIOUS
    <3>2. x \in s BY <2>1, <3>1 DEF OneOf
    <3>3. Cardinality(s \ {x}) = Cardinality(s) - 1 BY <1>1, <3>2, FS_RemoveElement
    <3>. QED BY <3>1, <3>2, <3>3
  <2>. QED BY <2>1
<1>3. 0 \in Good
  <2>1. PICK g \in [SUBSET U -> Nat] : g = [s \in SUBSET U |-> 0] OBVIOUS
  <2>2. \A s \in SUBSET U : Cardinality(s) <= 0 => g[s] = Addition(f, g, s)
    BY <1>1, <2>1 DEF Addition
  <2>. QED BY <2>2
<1>4. ASSUME NEW n \in Good PROVE n + 1 \in Good
  <2>1. PICK g \in [SUBSET U -> Nat] :
          \A s \in SUBSET U : Cardinality(s) <= n => g[s] = Addition(f, g, s)
    OBVIOUS
  <2>2. PICK h : h = [s \in SUBSET U |-> Addition(f, g, s)] OBVIOUS
  <2>3. h \in [SUBSET U -> Nat]
    <3>1. ASSUME NEW s \in SUBSET U PROVE Addition(f, g, s) \in Nat
      <4>1. CASE s = {} BY <4>1 DEF Addition
      <4>2. CASE s # {}
        <5>1. f[OneOf(s)] \in Nat /\ g[s \ {OneOf(s)}] \in Nat BY <1>2, <4>2
        <5>. QED BY <4>2, <5>1 DEF Addition
      <4>. QED BY <4>1, <4>2
    <3>. QED BY <2>2, <3>1
  <2>4. ASSUME NEW s \in SUBSET U, Cardinality(s) <= n + 1 PROVE h[s] = Addition(f, h, s)
    <3>1. CASE s = {} BY <2>2, <3>1 DEF Addition
    <3>2. CASE s # {}
      <4>1. PICK t \in SUBSET U : t = s \ {OneOf(s)} BY <1>2, <3>2
      <4>2. Cardinality(t) <= n
        <5>1. Cardinality(t) = Cardinality(s) - 1 /\ Cardinality(s) \in Nat /\ n \in Nat
          BY <1>1, <1>2, <3>2, <4>1
        <5>. QED BY <2>4, <5>1
      <4>3. h[t] = g[t] BY <2>1, <2>2, <4>2
      <4>. QED BY <2>2, <3>2, <4>1, <4>3 DEF Addition
    <3>. QED BY <3>1, <3>2
  <2>. QED BY <2>3, <2>4
<1>5. Good = Nat
  <2>1. Good \in SUBSET Nat OBVIOUS
  <2> HIDE DEF Good
  <2>. QED BY <1>3, <1>4, <2>1, UpFromZero
<1>6. Cardinality(U) \in Good
  <2> HIDE DEF Good
  <2>. QED BY <1>5, FS_CardinalityType
<1>7. PICK g \in [SUBSET U -> Nat] :
        \A s \in SUBSET U : Cardinality(s) <= Cardinality(U) => g[s] = Addition(f, g, s)
  BY <1>6
<1>8. \A s \in SUBSET U : g[s] = Addition(f, g, s) BY <1>1, <1>7
<1>9. g = [s \in SUBSET U |-> Addition(f, g, s)] BY <1>8
<1>. QED BY <1>9 DEF SummedBy

Sums(f, U, g) == SummedBy(f, U, g) /\ \A S \in SUBSET U : SumBy(f, S) = g[S]

(* There is one way to: a sum does not depend on what else there is.       *)
LEMMA SumTable ==
  ASSUME NEW U, IsFiniteSet(U), NEW f \in [U -> Nat]
  PROVE  \E g \in [SUBSET U -> Nat] : Sums(f, U, g)
<1>1. PICK g \in [SUBSET U -> Nat] : SummedBy(f, U, g) BY SumExists
<1>2. \A s \in SUBSET U : g[s] = Addition(f, g, s) BY <1>1 DEF SummedBy
<1>3. ASSUME NEW S \in SUBSET U PROVE SumBy(f, S) = g[S]
  <2>1. PICK c : c = CHOOSE h : SummedBy(f, S, h) OBVIOUS
  <2>2. SumBy(f, S) = c[S]
    <3>1. SumBy(f, S) = (CHOOSE h : SummedBy(f, S, h))[S]
      BY Zenon DEF SumBy, MapThenSumSet, MapThenFoldSet, SummedBy, Addition, OneOf
    <3>. QED BY <2>1, <3>1
  <2>3. PICK r : r = [s \in SUBSET S |-> g[s]] OBVIOUS
  <2>4. SummedBy(f, S, r)
    <3>1. ASSUME NEW s \in SUBSET S PROVE r[s] = Addition(f, r, s)
      <4>1. CASE s = {} BY <1>2, <2>3, <4>1 DEF Addition
      <4>2. CASE s # {}
        <5>1. s \ {OneOf(s)} \in SUBSET S OBVIOUS
        <5>. QED BY <1>2, <2>3, <4>2, <5>1 DEF Addition
      <4>. QED BY <4>1, <4>2
    <3>. QED BY <2>3, <3>1 DEF SummedBy
  <2>5. SummedBy(f, S, c) BY <2>1, <2>4
  <2>6. \A s \in SUBSET S : c[s] = Addition(f, c, s) BY <2>5 DEF SummedBy
  <2> DEFINE Good == {n \in Nat : \A s \in SUBSET S : Cardinality(s) = n => c[s] = g[s]}
  <2>7. \A s \in SUBSET S : IsFiniteSet(s) /\ Cardinality(s) \in Nat /\ (Cardinality(s) = 0 <=> s = {})
    BY FS_Subset, FS_CardinalityType, FS_EmptySet
  <2>8. 0 \in Good BY <1>2, <2>6, <2>7 DEF Addition
  <2>9. ASSUME NEW n \in Good PROVE n + 1 \in Good
    <3>1. ASSUME NEW s \in SUBSET S, Cardinality(s) = n + 1 PROVE c[s] = g[s]
      <4>1. s # {} BY <2>7, <3>1
      <4>2. PICK x \in s : x = OneOf(s) BY <4>1 DEF OneOf
      <4>3. PICK t \in SUBSET S : t = s \ {x} OBVIOUS
      <4>4. Cardinality(t) = n
        <5>1. Cardinality(t) = Cardinality(s) - 1 BY <2>7, <4>3, FS_RemoveElement
        <5>. QED BY <3>1, <5>1
      <4>5. c[t] = g[t] BY <4>4
      <4>6. c[s] = f[x] + c[t] /\ g[s] = f[x] + g[t]
        BY <1>2, <2>6, <4>1, <4>2, <4>3 DEF Addition
      <4>. QED BY <4>5, <4>6
    <3>. QED BY <3>1
  <2>10. Good = Nat
    <3>1. Good \in SUBSET Nat OBVIOUS
    <3> HIDE DEF Good
    <3>. QED BY <2>8, <2>9, <3>1, UpFromZero
  <2>11. Cardinality(S) \in Good
    <3> HIDE DEF Good
    <3>. QED BY <2>7, <2>10
  <2>. QED BY <2>2, <2>11
<1>. QED BY <1>1, <1>3 DEF Sums

(* In any order: any member may be taken out first.                        *)
LEMMA SumFacts ==
  ASSUME NEW U, IsFiniteSet(U), NEW f \in [U -> Nat]
  PROVE  /\ SumBy(f, {}) = 0 /\ \A S \in SUBSET U : SumBy(f, S) \in Nat
         /\ \A S \in SUBSET U : \A b \in S : SumBy(f, S) = f[b] + SumBy(f, S \ {b})
<1>0. PICK g \in [SUBSET U -> Nat] : Sums(f, U, g) BY SumTable
<1>1. \A S \in SUBSET U : SumBy(f, S) = g[S] BY <1>0 DEF Sums
<1>2. \A s \in SUBSET U : g[s] = Addition(f, g, s) BY <1>0 DEF Sums, SummedBy
<1>3. PICK e : e = {} OBVIOUS
<1>4. SumBy(f, e) = 0
  <2>1. e \in SUBSET U BY <1>3
  <2>. QED BY <1>1, <1>2, <1>3, <2>1 DEF Addition
<1> DEFINE Good == {n \in Nat : \A S \in SUBSET U : Cardinality(S) = n =>
                                  \A b \in S : g[S] = f[b] + g[S \ {b}]}
<1>5. \A s \in SUBSET U : IsFiniteSet(s) /\ Cardinality(s) \in Nat /\ (Cardinality(s) = 0 <=> s = {})
  BY FS_Subset, FS_CardinalityType, FS_EmptySet
<1>6. 0 \in Good BY <1>5
<1>7. ASSUME NEW n \in Good PROVE n + 1 \in Good
  <2>1. ASSUME NEW S \in SUBSET U, Cardinality(S) = n + 1, NEW b \in S PROVE g[S] = f[b] + g[S \ {b}]
    <3>1. PICK x \in S : x = OneOf(S) BY DEF OneOf
    <3>2. g[S] = f[x] + g[S \ {x}] BY <1>2, <3>1 DEF Addition
    <3>3. CASE x = b BY <3>2, <3>3
    <3>4. CASE x # b
      <4>1. PICK P \in SUBSET U : P = S \ {x} OBVIOUS
      <4>2. PICK Q \in SUBSET U : Q = S \ {b} OBVIOUS
      <4>3. PICK R \in SUBSET U : R = S \ {x, b} OBVIOUS
      <4>4. Cardinality(P) = n /\ Cardinality(Q) = n
        <5>1. Cardinality(P) = Cardinality(S) - 1 /\ Cardinality(Q) = Cardinality(S) - 1
          BY <1>5, <4>1, <4>2, FS_RemoveElement
        <5>. QED BY <2>1, <5>1
      <4>5. b \in P /\ x \in Q /\ P \ {b} = R /\ Q \ {x} = R BY <3>1, <3>4, <4>1, <4>2, <4>3
      <4>6. g[P] = f[b] + g[R] BY <4>4, <4>5
      <4>7. g[Q] = f[x] + g[R] BY <4>4, <4>5
      <4>8. /\ g[R] \in Nat /\ f[x] \in Nat /\ f[b] \in Nat OBVIOUS
      <4>. QED BY <3>2, <4>1, <4>2, <4>6, <4>7, <4>8
    <3>. QED BY <3>3, <3>4
  <2>. QED BY <2>1
<1>8. Good = Nat
  <2>1. Good \in SUBSET Nat OBVIOUS
  <2> HIDE DEF Good
  <2>. QED BY <1>6, <1>7, <2>1, UpFromZero
<1>9. ASSUME NEW S \in SUBSET U, NEW b \in S PROVE SumBy(f, S) = f[b] + SumBy(f, S \ {b})
  <2>1. Cardinality(S) \in Good
    <3> HIDE DEF Good
    <3>. QED BY <1>5, <1>8
  <2>. QED BY <1>1, <2>1
<1>. QED BY <1>1, <1>3, <1>4, <1>9

(* What is added up is all that counts.                                    *)
LEMMA SumSame ==
  ASSUME NEW U, IsFiniteSet(U), NEW f \in [U -> Nat], NEW h \in [U -> Nat],
         NEW S \in SUBSET U, \A b \in S : f[b] = h[b]
  PROVE  SumBy(f, S) = SumBy(h, S)
<1> DEFINE Good == {n \in Nat : \A T \in SUBSET S : Cardinality(T) = n => SumBy(f, T) = SumBy(h, T)}
<1>1. \A T \in SUBSET S : IsFiniteSet(T) /\ Cardinality(T) \in Nat /\ (Cardinality(T) = 0 <=> T = {})
  BY FS_Subset, FS_CardinalityType, FS_EmptySet
<1>2. 0 \in Good
  <2>1. PICK e \in SUBSET S : e = {} OBVIOUS
  <2>2. SumBy(f, e) = 0 /\ SumBy(h, e) = 0 BY <2>1, SumFacts
  <2>. QED BY <1>1, <2>1, <2>2
<1>3. ASSUME NEW n \in Good PROVE n + 1 \in Good
  <2>1. ASSUME NEW T \in SUBSET S, Cardinality(T) = n + 1 PROVE SumBy(f, T) = SumBy(h, T)
    <3>1. PICK b \in T : TRUE BY <1>1, <2>1
    <3>2. PICK P \in SUBSET S : P = T \ {b} OBVIOUS
    <3>3. Cardinality(P) = n
      <4>1. Cardinality(P) = Cardinality(T) - 1 BY <1>1, <3>2, FS_RemoveElement
      <4>. QED BY <2>1, <4>1
    <3>4. SumBy(f, T) = f[b] + SumBy(f, P) BY <3>2, SumFacts
    <3>5. SumBy(h, T) = h[b] + SumBy(h, P) BY <3>2, SumFacts
    <3>. QED BY <3>3, <3>4, <3>5
  <2>. QED BY <2>1
<1>4. Good = Nat
  <2>1. Good \in SUBSET Nat OBVIOUS
  <2> HIDE DEF Good
  <2>. QED BY <1>2, <1>3, <2>1, UpFromZero
<1>5. Cardinality(S) \in Good
  <2> HIDE DEF Good
  <2>. QED BY <1>1, <1>4
<1>. QED BY <1>5

(* A bound on what is added up bounds the sum.                             *)
LEMMA SumBound ==
  ASSUME NEW U, IsFiniteSet(U), NEW f \in [U -> Nat], NEW M \in Nat, \A b \in U : f[b] <= M,
         NEW S \in SUBSET U
  PROVE  SumBy(f, S) <= M * Cardinality(U)
<1> DEFINE Good == {n \in Nat : \A T \in SUBSET U : Cardinality(T) = n => SumBy(f, T) <= M * n}
<1>1. \A T \in SUBSET U : /\ IsFiniteSet(T) /\ Cardinality(T) \in Nat /\ (Cardinality(T) = 0 <=> T = {})
                          /\ Cardinality(T) <= Cardinality(U)
  BY FS_Subset, FS_CardinalityType, FS_EmptySet
<1>2. 0 \in Good
  <2>1. PICK e \in SUBSET U : e = {} OBVIOUS
  <2>2. SumBy(f, e) = 0 BY <2>1, SumFacts
  <2>. QED BY <1>1, <2>1, <2>2
<1>3. ASSUME NEW n \in Good PROVE n + 1 \in Good
  <2>0. PICK p \in Nat : p = M * n OBVIOUS
  <2>1. ASSUME NEW T \in SUBSET U, Cardinality(T) = n + 1 PROVE SumBy(f, T) <= p + M
    <3>1. PICK b \in T : TRUE BY <1>1, <2>1
    <3>2. PICK P \in SUBSET U : P = T \ {b} OBVIOUS
    <3>3. Cardinality(P) = n
      <4>1. Cardinality(P) = Cardinality(T) - 1 BY <1>1, <3>2, FS_RemoveElement
      <4>. QED BY <2>1, <4>1
    <3>4. SumBy(f, T) = f[b] + SumBy(f, P) /\ SumBy(f, P) \in Nat BY <3>2, SumFacts
    <3>5. SumBy(f, P) <= p BY <2>0, <3>3
    <3>6. f[b] <= M /\ f[b] \in Nat OBVIOUS
    <3>. QED BY <3>4, <3>5, <3>6
  <2>2. M * (n + 1) = p + M BY <2>0
  <2>. QED BY <2>1, <2>2
<1>4. Good = Nat
  <2>1. Good \in SUBSET Nat OBVIOUS
  <2> HIDE DEF Good
  <2>. QED BY <1>2, <1>3, <2>1, UpFromZero
<1>5. Cardinality(S) \in Good
  <2> HIDE DEF Good
  <2>. QED BY <1>1, <1>4
<1>6. PICK k \in Nat, n \in Nat : k = Cardinality(S) /\ n = Cardinality(U) /\ k <= n
  BY <1>1, FS_CardinalityType
<1>7. M * k <= M * n
  <2>1. PICK d \in Nat : n = k + d
    <3>1. n - k \in Nat /\ n = k + (n - k) BY <1>6
    <3>. QED BY <3>1
  <2>2. M * n = M * k + M * d BY <2>1
  <2>3. M * d \in Nat /\ M * k \in Nat OBVIOUS
  <2>. QED BY <2>2, <2>3
<1>8. SumBy(f, S) <= M * k BY <1>5, <1>6
<1>9. SumBy(f, S) \in Nat /\ M * k \in Nat /\ M * n \in Nat BY SumFacts
<1>. QED BY <1>6, <1>7, <1>8, <1>9

(* One entry that is changed changes the sum by as much.                   *)
LEMMA SumChanged ==
  ASSUME NEW U, IsFiniteSet(U), NEW f \in [U -> Nat], NEW b \in U, NEW n \in Nat,
         NEW h \in [U -> Nat], h[b] = n, \A x \in U \ {b} : h[x] = f[x]
  PROVE  SumBy(h, U) = SumBy(f, U) - f[b] + n
<1>2. PICK R \in SUBSET U : R = U \ {b} OBVIOUS
<1>3. U \in SUBSET U OBVIOUS
<1>4. SumBy(f, U) = f[b] + SumBy(f, R) BY <1>2, <1>3, SumFacts
<1>5. SumBy(h, U) = h[b] + SumBy(h, R) BY <1>2, <1>3, SumFacts
<1>6. SumBy(f, R) = SumBy(h, R)
  <2>1. \A x \in R : f[x] = h[x] BY <1>2
  <2>. QED BY <2>1, SumSame
<1>7. SumBy(f, R) \in Nat /\ f[b] \in Nat /\ h[b] = n BY SumFacts
<1>. QED BY <1>4, <1>5, <1>6, <1>7

-----------------------------------------------------------------------------
(* The allocator.                                                          *)

(* What can be allocated at one place does not reach 4 GiB, which is what  *)
(* group_usage() counts to.                                                *)
FitsIn32 == MaxSize * Cardinality(Block) < Mod32

(* The blocks the allocator knows of: none in the passthru mode.           *)
Known == {b \in Block : asked[b] # 0 /\ mmMode = "debug"}

MmTyped ==
  /\ mmMode \in {"passthru", "debug"}
  /\ blocks \in Seq(Block)
  /\ size \in [Block -> Nat]
  /\ asked \in [Block -> 0 .. MaxSize]
  /\ site \in [Block -> Site]
  /\ maxBlocks \in Nat /\ maxAlloc \in Nat

MmListed ==
  /\ IsInjective(blocks) /\ Range(blocks) = Known
  /\ \A b \in Known : size[b] = asked[b]

MmCounted ==
  /\ curBlocks = Cardinality(Known) /\ curBlocks <= maxBlocks
  /\ curAlloc = (IF mmMode = "debug" THEN SumBy(asked, Block) ELSE 0) /\ curAlloc <= maxAlloc

MmInv == MmTyped /\ MmListed /\ MmCounted

LEMMA AskedNat ==
  ASSUME MmTyped
  PROVE  asked \in [Block -> Nat] /\ \A b \in Block : asked[b] \in Nat /\ asked[b] <= MaxSize
BY MemBlocksAssumption DEF MmTyped

(* Every order of a finite set is a list of its members.                   *)
LEMMA SetToSeqsFacts ==
  ASSUME NEW S, IsFiniteSet(S), NEW s \in SetToSeqs(S)
  PROVE  s \in Seq(S) /\ IsInjective(s) /\ Range(s) = S
<1>1. PICK n \in Nat : n = Cardinality(S) BY FS_CardinalityType
<1>2. s \in [1 .. n -> S] /\ \A i, j \in 1 .. n : i # j => s[i] # s[j]
  BY <1>1 DEF SetToSeqs
<1>3. s \in Injection(1 .. n, S) BY <1>2 DEF Injection, IsInjective
<1>4. IsFiniteSet(1 .. n) /\ Cardinality(1 .. n) = n BY FS_Interval
<1>5. s \in Surjection(1 .. n, S) BY <1>1, <1>3, <1>4, FS_Injection
<1>6. Range(s) = S BY <1>2, <1>5 DEF Surjection, Range
<1>7. IsInjective(s) BY <1>2 DEF IsInjective
<1>8. s \in Seq(S) BY <1>2
<1>. QED BY <1>6, <1>7, <1>8

LEMMA KnownFacts ==
  /\ IsFiniteSet(Block) /\ IsFiniteSet(Known) /\ Cardinality(Known) \in Nat
  /\ Known \in SUBSET Block
<1>1. Known \in SUBSET Block BY DEF Known
<1>2. IsFiniteSet(Block) BY MemBlocksAssumption
<1>. QED BY <1>1, <1>2, FS_Subset, FS_CardinalityType

LEMMA MmInitInv == ASSUME MmInit PROVE MmInv
<1>1. \A b \in Block : asked[b] = 0 BY DEF MmInit
<1>2. Known = {} BY <1>1 DEF Known
<1>3. MmTyped
  <2>1. (CHOOSE at \in Site : TRUE) \in Site BY MemBlocksAssumption
  <2>2. 0 \in 0 .. MaxSize BY MemBlocksAssumption
  <2>. QED BY <2>1, <2>2, EmptySeq DEF MmInit, MmTyped
<1>4. IsInjective(<<>>) /\ Range(<<>>) = {} BY EmptySeq DEF IsInjective, Range
<1>5. MmListed BY <1>2, <1>4 DEF MmInit, MmListed
<1>6. SumBy(asked, Block) = 0
  <2>1. asked \in [Block -> Nat] BY <1>3, AskedNat
  <2>2. SumBy(asked, Block) <= 0 * Cardinality(Block) BY <1>1, <2>1, SumBound, KnownFacts
  <2>3. SumBy(asked, Block) \in Nat BY <2>1, SumFacts, KnownFacts
  <2>4. Cardinality(Block) \in Nat BY KnownFacts, FS_CardinalityType
  <2>. QED BY <2>2, <2>3, <2>4
<1>7. MmCounted
  <2>1. Cardinality(Known) = 0 BY <1>2, FS_EmptySet
  <2>. QED BY <2>1, <1>6 DEF MmInit, MmCounted
<1>. QED BY <1>3, <1>5, <1>7 DEF MmInv

(* In the passthru mode nothing is known before or after.                  *)
LEMMA PassthruInv ==
  ASSUME MmInv, mmMode # "debug", Passthru, UNCHANGED mmMode, asked' \in [Block -> 0 .. MaxSize]
  PROVE  MmInv'
<1>1. Known = {} /\ Known' = {} BY DEF Known
<1>2. MmTyped' BY DEF MmInv, MmTyped, Passthru
<1>3. MmListed' BY <1>1 DEF MmInv, MmListed, Passthru
<1>4. MmCounted' BY <1>1 DEF MmInv, MmCounted, Passthru
<1>. QED BY <1>2, <1>3, <1>4 DEF MmInv

(* The total after a change of one block.                                  *)
LEMMA TotalChanged ==
  ASSUME MmInv, NEW b \in Block, NEW n \in 0 .. MaxSize, asked' = [asked EXCEPT ![b] = n]
  PROVE  /\ SumBy(asked', Block) = SumBy(asked, Block) - asked[b] + n
         /\ SumBy(asked, Block) \in Nat /\ SumBy(asked', Block) \in Nat
         /\ asked' \in [Block -> 0 .. MaxSize] /\ n \in Nat
<1>1. asked \in [Block -> Nat] /\ n \in Nat BY MemBlocksAssumption, AskedNat DEF MmInv
<1>2. asked' \in [Block -> Nat] BY <1>1
<1>3. SumBy(asked', Block) = SumBy(asked, Block) - asked[b] + n
  <2>1. asked'[b] = n /\ \A x \in Block \ {b} : asked'[x] = asked[x] BY <1>1
  <2>2. PICK f \in [Block -> Nat], h \in [Block -> Nat] : f = asked /\ h = asked' BY <1>1, <1>2
  <2>3. h[b] = n /\ \A x \in Block \ {b} : h[x] = f[x] BY <2>1, <2>2
  <2>4. SumBy(h, Block) = SumBy(f, Block) - f[b] + n BY <1>1, <2>3, SumChanged, KnownFacts
  <2>. QED BY <2>2, <2>4
<1>4. SumBy(asked, Block) \in Nat /\ SumBy(asked', Block) \in Nat
  BY <1>1, <1>2, SumFacts, KnownFacts
<1>5. asked' \in [Block -> 0 .. MaxSize] BY DEF MmInv, MmTyped
<1>. QED BY <1>1, <1>3, <1>4, <1>5

LEMMA MostFacts ==
  ASSUME NEW a \in Nat, NEW b \in Nat
  PROVE  Most(a, b) \in Nat /\ a <= Most(a, b) /\ b <= Most(a, b)
BY DEF Most

LEMMA BlockAllocInv ==
  ASSUME MmInv, NEW b \in Block, NEW n \in Size, NEW at \in Site, IotMmAlloc(b, n, at)
  PROVE  MmInv'
<1>1. n \in 0 .. MaxSize /\ n # 0 /\ n \in Nat /\ asked' = [asked EXCEPT ![b] = n] /\ asked[b] = 0
  BY MemBlocksAssumption DEF IotMmAlloc, Size
<1>2. /\ SumBy(asked', Block) = SumBy(asked, Block) + n
      /\ SumBy(asked, Block) \in Nat /\ SumBy(asked', Block) \in Nat
      /\ asked' \in [Block -> 0 .. MaxSize]
  <2>1. SumBy(asked', Block) = SumBy(asked, Block) - asked[b] + n
    BY <1>1, TotalChanged
  <2>2. SumBy(asked, Block) \in Nat /\ SumBy(asked', Block) \in Nat
        /\ asked' \in [Block -> 0 .. MaxSize]
    BY <1>1, TotalChanged
  <2>. QED BY <1>1, <2>1, <2>2
<1>3. CASE mmMode # "debug" BY <1>2, <1>3, PassthruInv DEF IotMmAlloc
<1>4. CASE mmMode = "debug"
  <2>1. MemblkAlloc(b, n, at) /\ mmMode' = mmMode BY <1>4 DEF IotMmAlloc
  <2>2. Known' = Known \cup {b} /\ b \notin Known BY <1>1, <1>4, <2>1 DEF Known, MmInv, MmTyped
  <2>3. /\ Cardinality(Known') = Cardinality(Known) + 1
    BY <2>2, KnownFacts, FS_AddElement
  <2>4. /\ blocks' \in Seq(Block) /\ Range(blocks') = Range(blocks) \cup {b}
        /\ b \notin Range(blocks) => IsInjective(blocks')
    BY <2>1, AppendFacts DEF MemblkAlloc, MmInv, MmTyped, MmListed
  <2>5. curBlocks \in Nat /\ curAlloc \in Nat
    BY <1>2, <1>4, KnownFacts DEF MmInv, MmCounted
  <2>6. MmTyped'
    <3>1. maxBlocks' \in Nat /\ maxAlloc' \in Nat
      BY <1>1, <2>1, <2>5, MostFacts DEF MemblkAlloc, MmInv, MmTyped
    <3>2. size' \in [Block -> Nat] /\ site' \in [Block -> Site]
      BY <1>1, <2>1 DEF MemblkAlloc, MmInv, MmTyped
    <3>. QED BY <1>2, <2>1, <2>4, <3>1, <3>2 DEF MmInv, MmTyped
  <2>7. MmListed'
    <3>1. \A x \in Known' : size'[x] = asked'[x]
      <4>1. size' = [size EXCEPT ![b] = n] BY <2>1 DEF MemblkAlloc
      <4>2. ASSUME NEW x \in Known' PROVE size'[x] = asked'[x]
        <5>1. CASE x = b BY <1>1, <4>1, <5>1 DEF MmInv, MmTyped
        <5>2. CASE x # b
          <6>1. x \in Known /\ x \in Block BY <2>2, <5>2 DEF Known
          <6>2. size[x] = asked[x] BY <6>1 DEF MmInv, MmListed
          <6>. QED BY <1>1, <4>1, <5>2, <6>1, <6>2 DEF MmInv, MmTyped
        <5>. QED BY <5>1, <5>2
      <4>. QED BY <4>2
    <3>2. Range(blocks) = Known BY DEF MmInv, MmListed
    <3>. QED BY <2>2, <2>4, <3>1, <3>2 DEF MmListed
  <2>8. MmCounted'
    <3>1. /\ curBlocks' = curBlocks + 1 /\ curAlloc' = curAlloc + n
          /\ curBlocks = Cardinality(Known) /\ curAlloc = SumBy(asked, Block)
      BY <1>4, <2>1 DEF MemblkAlloc, MmInv, MmCounted
    <3>2. curBlocks' <= maxBlocks' /\ curAlloc' <= maxAlloc'
      <4>1. curBlocks + 1 \in Nat /\ curAlloc + n \in Nat /\ maxBlocks \in Nat /\ maxAlloc \in Nat
        BY <1>1, <2>5 DEF MmInv, MmTyped
      <4>2. /\ maxBlocks' = Most(maxBlocks, curBlocks + 1)
            /\ maxAlloc' = Most(maxAlloc, curAlloc + n)
        BY <2>1 DEF MemblkAlloc
      <4>. QED BY <3>1, <4>1, <4>2, MostFacts
    <3>3. mmMode' = "debug" BY <1>4, <2>1
    <3>. QED BY <1>2, <2>3, <3>1, <3>2, <3>3 DEF MmCounted
  <2>. QED BY <2>6, <2>7, <2>8 DEF MmInv
<1>. QED BY <1>3, <1>4

(* A known block and what the totals have of it.                           *)
LEMMA KnownBlock ==
  ASSUME MmInv, mmMode = "debug", NEW b \in Block, asked[b] # 0
  PROVE  /\ b \in Known /\ b \in Range(blocks) /\ size[b] = asked[b] /\ asked[b] \in Nat
         /\ curBlocks = Cardinality(Known) /\ curBlocks \in Nat
         /\ curAlloc = SumBy(asked, Block) /\ curAlloc \in Nat
         /\ curBlocks <= maxBlocks /\ curAlloc <= maxAlloc
         /\ maxBlocks \in Nat /\ maxAlloc \in Nat
<1>1. b \in Known BY DEF Known
<1>2. b \in Range(blocks) /\ size[b] = asked[b] BY <1>1 DEF MmInv, MmListed
<1>3. asked[b] \in Nat /\ asked \in [Block -> Nat] BY AskedNat DEF MmInv
<1>4. curBlocks \in Nat /\ curBlocks = Cardinality(Known) BY KnownFacts DEF MmInv, MmCounted
<1>5. curAlloc = SumBy(asked, Block) /\ curAlloc \in Nat
  BY <1>3, SumFacts, KnownFacts DEF MmInv, MmCounted
<1>. QED BY <1>1, <1>2, <1>3, <1>4, <1>5 DEF MmInv, MmCounted, MmTyped

LEMMA BlockFreeInv ==
  ASSUME MmInv, mmMode = "debug", UNCHANGED mmMode, NEW b \in Block, asked[b] # 0,
         asked' = [asked EXCEPT ![b] = 0], MemblkFree(b)
  PROVE  MmInv'
<1>1. 0 \in 0 .. MaxSize BY MemBlocksAssumption
<1>2. /\ SumBy(asked', Block) = SumBy(asked, Block) - asked[b] + 0
      /\ SumBy(asked, Block) \in Nat /\ SumBy(asked', Block) \in Nat
      /\ asked' \in [Block -> 0 .. MaxSize]
  BY <1>1, TotalChanged
<1>3. /\ b \in Known /\ b \in Range(blocks) /\ size[b] = asked[b] /\ asked[b] \in Nat
      /\ curBlocks = Cardinality(Known) /\ curBlocks \in Nat
      /\ curAlloc = SumBy(asked, Block) /\ curAlloc \in Nat
      /\ curBlocks <= maxBlocks /\ curAlloc <= maxAlloc
      /\ maxBlocks \in Nat /\ maxAlloc \in Nat
  BY KnownBlock
<1>4. Known' = Known \ {b} BY DEF Known, MmInv, MmTyped
<1>5. Cardinality(Known') = Cardinality(Known) - 1
  BY <1>3, <1>4, KnownFacts, FS_RemoveElement
<1>6. /\ blocks' \in Seq(Block) /\ IsInjective(blocks')
      /\ Range(blocks') = Range(blocks) \ {b}
  BY RemovedFacts DEF MemblkFree, MmInv, MmTyped, MmListed
<1>7. MmTyped' BY <1>2, <1>6 DEF MemblkFree, MmInv, MmTyped
<1>8. MmListed'
  <2>1. \A x \in Known' : size'[x] = asked'[x]
    <3>1. ASSUME NEW x \in Known' PROVE size'[x] = asked'[x]
      <4>1. x \in Known /\ x # b /\ x \in Block BY <1>4 DEF Known
      <4>2. size[x] = asked[x] BY <4>1 DEF MmInv, MmListed
      <4>. QED BY <4>1, <4>2 DEF MmInv, MmTyped, MemblkFree
    <3>. QED BY <3>1
  <2>. QED BY <1>4, <1>6, <2>1 DEF MmInv, MmListed
<1>9. MmCounted'
  <2>1. /\ curBlocks' = curBlocks - 1 /\ curAlloc' = curAlloc - size[b]
        /\ maxBlocks' = maxBlocks /\ maxAlloc' = maxAlloc
    BY DEF MemblkFree
  <2>2. curBlocks' = Cardinality(Known') /\ curAlloc' = SumBy(asked', Block)
    BY <1>2, <1>3, <1>5, <2>1
  <2>3. curBlocks' <= maxBlocks' /\ curAlloc' <= maxAlloc' BY <1>3, <2>1
  <2>. QED BY <2>2, <2>3 DEF MmCounted
<1>. QED BY <1>7, <1>8, <1>9 DEF MmInv

(* The block goes to the end of the list.                                  *)
LEMMA MovedFacts ==
  ASSUME MmInv, NEW b \in Range(blocks)
  PROVE  /\ Append(RemoveFirst(blocks, b), b) \in Seq(Block)
         /\ IsInjective(Append(RemoveFirst(blocks, b), b))
         /\ Range(Append(RemoveFirst(blocks, b), b)) = Range(blocks)
<1>1. PICK s : s = RemoveFirst(blocks, b) OBVIOUS
<1>2. s \in Seq(Block) /\ IsInjective(s) /\ Range(s) = Range(blocks) \ {b}
  BY <1>1, RemovedFacts DEF MmInv, MmTyped, MmListed
<1>3. b \in Block BY DEF MmInv, MmListed, Known
<1>4. /\ Append(s, b) \in Seq(Block) /\ IsInjective(Append(s, b))
      /\ Range(Append(s, b)) = Range(s) \cup {b}
  BY <1>2, <1>3, AppendFacts
<1>. QED BY <1>1, <1>2, <1>4

LEMMA ResizeInv ==
  ASSUME MmInv, mmMode = "debug", UNCHANGED mmMode, NEW b \in Block, asked[b] # 0,
         NEW n \in 0 .. MaxSize, n # 0, NEW at \in Site,
         asked' = [asked EXCEPT ![b] = n], MemblkResize(b, n, at)
  PROVE  MmInv'
<1>2. /\ SumBy(asked', Block) = SumBy(asked, Block) - asked[b] + n
      /\ SumBy(asked, Block) \in Nat /\ SumBy(asked', Block) \in Nat
      /\ asked' \in [Block -> 0 .. MaxSize] /\ n \in Nat
  BY TotalChanged
<1>3. /\ b \in Known /\ b \in Range(blocks) /\ size[b] = asked[b] /\ asked[b] \in Nat
      /\ curBlocks = Cardinality(Known) /\ curBlocks \in Nat
      /\ curAlloc = SumBy(asked, Block) /\ curAlloc \in Nat
      /\ curBlocks <= maxBlocks /\ curAlloc <= maxAlloc
      /\ maxBlocks \in Nat /\ maxAlloc \in Nat
  BY KnownBlock
<1>4. Known' = Known BY DEF Known, MmInv, MmTyped
<1>6. /\ blocks' \in Seq(Block) /\ IsInjective(blocks') /\ Range(blocks') = Range(blocks)
  BY <1>3, MovedFacts DEF MemblkResize
<1>7. MmTyped'
  <2>1. curAlloc - size[b] + n \in Nat BY <1>2, <1>3
  <2>2. maxAlloc' \in Nat BY <2>1, <1>3, MostFacts DEF MemblkResize
  <2>3. size' \in [Block -> Nat] /\ site' \in [Block -> Site]
    BY <1>2 DEF MemblkResize, MmInv, MmTyped
  <2>. QED BY <1>2, <1>6, <2>2, <2>3 DEF MemblkResize, MmInv, MmTyped
<1>8. MmListed'
  <2>1. \A x \in Known' : size'[x] = asked'[x]
    <3>0. size' = [size EXCEPT ![b] = n] BY DEF MemblkResize
    <3>1. ASSUME NEW x \in Known' PROVE size'[x] = asked'[x]
      <4>1. x \in Known /\ x \in Block BY <1>4 DEF Known
      <4>2. size[x] = asked[x] BY <4>1 DEF MmInv, MmListed
      <4>. QED BY <3>0, <4>1, <4>2 DEF MmInv, MmTyped
    <3>. QED BY <3>1
  <2>. QED BY <1>4, <1>6, <2>1 DEF MmInv, MmListed
<1>9. MmCounted'
  <2>1. /\ curBlocks' = curBlocks /\ curAlloc' = curAlloc - size[b] + n
        /\ maxBlocks' = maxBlocks /\ maxAlloc' = Most(maxAlloc, curAlloc - size[b] + n)
    BY DEF MemblkResize
  <2>2. curBlocks' = Cardinality(Known') /\ curAlloc' = SumBy(asked', Block)
    BY <1>2, <1>3, <1>4, <2>1
  <2>3. curBlocks' <= maxBlocks' BY <1>3, <2>1
  <2>4. curAlloc' <= maxAlloc'
    <3>1. curAlloc' \in Nat BY <1>2, <2>2
    <3>. QED BY <1>3, <2>1, <3>1, MostFacts
  <2>. QED BY <2>2, <2>3, <2>4 DEF MmCounted
<1>. QED BY <1>7, <1>8, <1>9 DEF MmInv

LEMMA KeptInv ==
  ASSUME MmInv, mmMode = "debug", UNCHANGED <<mmMode, asked>>, NEW b \in Block, asked[b] # 0,
         MemblkKept(b)
  PROVE  MmInv'
<1>1. b \in Range(blocks) BY KnownBlock
<1>2. /\ blocks' \in Seq(Block) /\ IsInjective(blocks') /\ Range(blocks') = Range(blocks)
  BY <1>1, MovedFacts DEF MemblkKept
<1>3. Known' = Known BY DEF Known
<1>4. MmTyped' BY <1>2 DEF MemblkKept, MmInv, MmTyped
<1>5. MmListed' BY <1>2, <1>3 DEF MemblkKept, MmInv, MmListed
<1>6. MmCounted' BY <1>3 DEF MemblkKept, MmInv, MmCounted
<1>. QED BY <1>4, <1>5, <1>6 DEF MmInv

(* The mode is changed when nothing is allocated: both are right.          *)
LEMMA ConfigInv ==
  ASSUME MmInv, NEW new \in {"passthru", "debug"}, IotMmConfig(new)
  PROVE  MmInv'
<1>1. /\ \A b \in Block : asked[b] = 0
      /\ UNCHANGED <<blocks, size, site, curBlocks, curAlloc, maxBlocks, maxAlloc, asked>>
      /\ mmMode' \in {"passthru", "debug"}
  BY DEF IotMmConfig
<1>2. Known = {} /\ Known' = {} BY <1>1 DEF Known
<1>3. SumBy(asked, Block) = 0
  <2>1. asked \in [Block -> Nat] BY AskedNat DEF MmInv
  <2>2. SumBy(asked, Block) <= 0 * Cardinality(Block) BY <1>1, <2>1, SumBound, KnownFacts
  <2>3. SumBy(asked, Block) \in Nat BY <2>1, SumFacts, KnownFacts
  <2>4. Cardinality(Block) \in Nat BY KnownFacts, FS_CardinalityType
  <2>. QED BY <2>2, <2>3, <2>4
<1>4. MmTyped' BY <1>1 DEF MmInv, MmTyped
<1>5. MmListed' BY <1>1, <1>2 DEF MmInv, MmListed
<1>6. curAlloc = 0 BY <1>3 DEF MmInv, MmCounted
<1>7. SumBy(asked', Block) = 0
  <2>1. asked' = asked BY <1>1
  <2>. QED BY <1>3, <2>1
<1>8. curBlocks' = Cardinality(Known') /\ curBlocks' <= maxBlocks' /\ curAlloc' = 0 /\ curAlloc' <= maxAlloc'
  BY <1>1, <1>2, <1>6 DEF MmInv, MmCounted
<1>9. MmCounted' BY <1>7, <1>8 DEF MmCounted
<1>. QED BY <1>4, <1>5, <1>9 DEF MmInv

(* A dump: what a head is given for its group is taken from it again.      *)
LEMMA DumpInv ==
  ASSUME MmInv, IotMmDump, FitsIn32
  PROVE  MmInv'
<1>0. PICK R : R = Range(blocks) OBVIOUS
<1>1. /\ R = Known /\ R \in SUBSET Block /\ blocks \in Seq(Block) /\ IsInjective(blocks)
      /\ size \in [Block -> Nat] /\ \A b \in R : size[b] = asked[b]
  BY <1>0, KnownFacts DEF MmInv, MmTyped, MmListed
<1>2. asked \in [Block -> Nat] /\ \A b \in Block : asked[b] <= MaxSize
  BY AskedNat DEF MmInv
<1>3. ASSUME NEW h \in Heads PROVE h \in R /\ Gathered(h) - Rest(h) = size[h]
  <2>0. h \in R BY <1>0 DEF Heads
  <2>1. PICK G \in SUBSET Block : G = Group(h) /\ h \in G /\ G \subseteq R
    BY <1>0, <1>1, <2>0 DEF Group
  <2>2. PICK T \in SUBSET Block : T = G \ {h} OBVIOUS
  <2>3. Gathered(h) = SumBy(size, G) BY <2>1 DEF Gathered, SumBy
  <2>4. Rest(h) = SumBy(size, T) % Mod32 BY <2>1, <2>2 DEF Rest, SumBy
  <2>5. SumBy(size, G) = size[h] + SumBy(size, T) BY <1>1, <2>1, <2>2, SumFacts, KnownFacts
  <2>6. SumBy(size, T) \in Nat BY <1>1, SumFacts, KnownFacts
  <2>7. SumBy(size, T) < Mod32
    <3>1. \A b \in T : size[b] = asked[b] BY <1>1, <2>1, <2>2
    <3>2. SumBy(size, T) = SumBy(asked, T) BY <1>1, <1>2, <3>1, SumSame, KnownFacts
    <3>3. MaxSize \in Nat BY MemBlocksAssumption
    <3>4. SumBy(asked, T) <= MaxSize * Cardinality(Block) BY <1>2, <3>3, SumBound, KnownFacts
    <3>5. PICK p : p = MaxSize * Cardinality(Block) OBVIOUS
    <3>6. p \in Nat
      <4>1. PICK k \in Nat : k = Cardinality(Block) BY KnownFacts, FS_CardinalityType
      <4>. QED BY <3>3, <3>5, <4>1
    <3>. QED BY <2>6, <3>2, <3>4, <3>5, <3>6, MemBlocksAssumption DEF FitsIn32
  <2>8. PICK x \in Nat : x = SumBy(size, T) BY <2>6
  <2>9. x % Mod32 = x
    <3>1. x < Mod32 /\ Mod32 \in Nat /\ Mod32 # 0 BY <2>7, <2>8, MemBlocksAssumption
    <3>. QED BY <3>1
  <2>10. size[h] \in Nat BY <1>1, <2>0
  <2>11. Gathered(h) = size[h] + x /\ Rest(h) = x BY <2>3, <2>4, <2>5, <2>8, <2>9
  <2>. QED BY <2>0, <2>10, <2>11
<1>4. size' = size
  <2>1. size' = [b \in Block |-> IF b \in Heads THEN Gathered(b) - Rest(b) ELSE size[b]]
    BY DEF IotMmDump
  <2>2. \A b \in Block : size'[b] = size[b] BY <1>3, <2>1
  <2>. QED BY <1>1, <2>1, <2>2
<1>5. PICK H \in SUBSET R : H = Heads BY <1>3
<1>6. PICK sorted \in SetToSeqs(H) : blocks' = Keep(blocks, R \ H) \o sorted
  BY <1>0, <1>5 DEF IotMmDump
<1>7. /\ blocks' \in Seq(Block) /\ IsInjective(blocks') /\ Range(blocks') = R
  <2>1. IsFiniteSet(H)
    <3>1. H \in SUBSET Block BY <1>1
    <3>. QED BY <3>1, KnownFacts, FS_Subset
  <2>2. sorted \in Seq(H) /\ IsInjective(sorted) /\ Range(sorted) = H BY <2>1, SetToSeqsFacts
  <2>3. sorted \in Seq(Block)
    <3>1. H \subseteq Block BY <1>1
    <3>. QED BY <2>2, <3>1
  <2>4. PICK T, kept : T = R \ H /\ kept = Keep(blocks, T) OBVIOUS
  <2>5. kept \in Seq(Block) /\ Range(kept) = Range(blocks) \cap T /\ IsInjective(kept)
    BY <1>1, <2>4, KeepFacts
  <2>6. /\ kept \o sorted \in Seq(Block) /\ IsInjective(kept \o sorted)
        /\ Range(kept \o sorted) = Range(kept) \cup Range(sorted)
    <3>1. Range(kept) \cap Range(sorted) = {} BY <2>2, <2>4, <2>5
    <3>. QED BY <2>2, <2>3, <2>5, <3>1, ConcatFacts
  <2>. QED BY <1>0, <1>6, <2>2, <2>4, <2>5, <2>6
<1>8. UNCHANGED <<mmMode, site, curBlocks, curAlloc, maxBlocks, maxAlloc, asked>> BY DEF IotMmDump
<1>9. Known' = Known BY <1>8 DEF Known
<1>10. MmTyped' BY <1>4, <1>7, <1>8 DEF MmInv, MmTyped
<1>11. MmListed' BY <1>0, <1>4, <1>7, <1>8, <1>9 DEF MmInv, MmListed
<1>12. MmCounted' BY <1>8, <1>9 DEF MmInv, MmCounted
<1>. QED BY <1>10, <1>11, <1>12 DEF MmInv

LEMMA MmNextInv == ASSUME MmInv, FitsIn32, [MmNext]_mmVars PROVE MmInv'
<1>1. ASSUME NEW new \in {"passthru", "debug"}, IotMmConfig(new) PROVE MmInv' BY <1>1, ConfigInv
<1>2. ASSUME NEW b \in Block, NEW n \in Size, NEW at \in Site, IotMmAlloc(b, n, at) PROVE MmInv'
  BY <1>2, BlockAllocInv
<1>3. ASSUME NEW b \in Block, NEW n \in 0 .. MaxSize, NEW at \in Site, IotMmRealloc(b, n, at)
      PROVE MmInv'
  <2>1. asked[b] # 0 /\ asked' = [asked EXCEPT ![b] = n] /\ UNCHANGED mmMode
    BY <1>3 DEF IotMmRealloc
  <2>2. CASE mmMode # "debug"
    <3>1. asked' \in [Block -> 0 .. MaxSize] BY <2>1, TotalChanged
    <3>. QED BY <1>3, <2>1, <2>2, <3>1, PassthruInv DEF IotMmRealloc
  <2>3. CASE mmMode = "debug" /\ n = 0
    <3>1. MemblkFree(b) BY <1>3, <2>3 DEF IotMmRealloc
    <3>. QED BY <2>1, <2>3, <3>1, BlockFreeInv
  <2>4. CASE mmMode = "debug" /\ n # 0
    <3>1. MemblkResize(b, n, at) BY <1>3, <2>4 DEF IotMmRealloc
    <3>. QED BY <2>1, <2>4, <3>1, ResizeInv
  <2>. QED BY <2>2, <2>3, <2>4
<1>4. ASSUME NEW b \in Block, IotMmFree(b) PROVE MmInv'
  <2>1. asked[b] # 0 /\ asked' = [asked EXCEPT ![b] = 0] /\ UNCHANGED mmMode
    BY <1>4 DEF IotMmFree
  <2>2. CASE mmMode # "debug"
    <3>0. 0 \in 0 .. MaxSize BY MemBlocksAssumption
    <3>1. asked' \in [Block -> 0 .. MaxSize] BY <2>1, <3>0, TotalChanged
    <3>. QED BY <1>4, <2>1, <2>2, <3>1, PassthruInv DEF IotMmFree
  <2>3. CASE mmMode = "debug"
    <3>1. MemblkFree(b) BY <1>4, <2>3 DEF IotMmFree
    <3>. QED BY <2>1, <2>3, <3>1, BlockFreeInv
  <2>. QED BY <2>2, <2>3
<1>5. ASSUME NEW b \in Block, IotMmReallocFailed(b) PROVE MmInv'
  <2>1. CASE mmMode # "debug"
    <3>1. asked' \in [Block -> 0 .. MaxSize] BY <1>5 DEF IotMmReallocFailed, MmInv, MmTyped
    <3>. QED BY <1>5, <2>1, <3>1, PassthruInv DEF IotMmReallocFailed
  <2>2. CASE mmMode = "debug" BY <1>5, <2>2, KeptInv DEF IotMmReallocFailed
  <2>. QED BY <2>1, <2>2
<1>6. CASE IotMmDump BY <1>6, DumpInv
<1>7. CASE UNCHANGED mmVars
  <2>1. /\ UNCHANGED <<mmMode, blocks, size, site, asked>>
        /\ UNCHANGED <<curBlocks, curAlloc, maxBlocks, maxAlloc>>
    BY <1>7 DEF mmVars
  <2>2. Known' = Known BY <2>1 DEF Known
  <2>. QED BY <2>1, <2>2 DEF MmInv, MmTyped, MmListed, MmCounted
<1>. QED BY <1>1, <1>2, <1>3, <1>4, <1>5, <1>6, <1>7 DEF MmNext

LEMMA MmInvAccounts == ASSUME MmInv PROVE MemAccounts
<1>1. SUFFICES ASSUME mmMode = "debug" PROVE
        /\ IsInjective(blocks)
        /\ Range(blocks) = {b \in Block : asked[b] # 0}
        /\ \A b \in Range(blocks) : size[b] = asked[b]
        /\ curBlocks = Len(blocks)
        /\ curAlloc = SumBy(asked, Block)
        /\ curBlocks <= maxBlocks /\ curAlloc <= maxAlloc
  BY Zenon DEF MemAccounts, SumBy
<1>2. Known = {b \in Block : asked[b] # 0} BY <1>1 DEF Known
<1>3. blocks \in Seq(Block) /\ IsInjective(blocks) /\ Range(blocks) = Known
  BY DEF MmInv, MmTyped, MmListed
<1>4. Cardinality(Known) = Len(blocks) BY <1>3, LengthOf
<1>5. curAlloc = SumBy(asked, Block) BY <1>1 DEF MmInv, MmCounted
<1>. QED BY <1>2, <1>3, <1>4, <1>5 DEF MmInv, MmListed, MmCounted

(* What the debugging mode says of memory is true as long as what can be   *)
(* allocated at one place is below the 4 GiB that group_usage() counts to. *)
THEOREM MemSafety ==
  ASSUME MaxSize * Cardinality(Block) < Mod32
  PROVE  MmSpec => []MemAccounts
<1>0. FitsIn32 BY DEF FitsIn32
<1>1. MmInit => MmInv BY MmInitInv
<1>2. MmInv /\ [MmNext]_mmVars => MmInv' BY <1>0, MmNextInv
<1>3. MmInv => MemAccounts BY MmInvAccounts
<1>. QED BY <1>1, <1>2, <1>3, PTL DEF MmSpec

-----------------------------------------------------------------------------
(* All of them.                                                            *)

(* The stores hold what was put into them, for any keys, sizes and limits, *)
(* when no table is reset with entries in it (which a finding shows to     *)
(* lose them) and what one place allocates stays below the 4 GiB that the  *)
(* allocator's dump can add up.                                            *)
THEOREM StoresSafety ==
  ASSUME ~ResetUsed, MaxSize * Cardinality(Block) < Mod32
  PROVE  HtblSpec /\ MaskSpec /\ PoolSpec /\ MmSpec => []StoresConsistent
<1>1. HtblSpec => []TableConsistent BY TableSafety
<1>2. MaskSpec => []MaskHoldsBits BY MaskSafety
<1>3. PoolSpec => []PoolConsistent BY PoolSafety
<1>4. MmSpec => []MemAccounts BY MemSafety
<1>5. TableConsistent /\ MaskHoldsBits /\ PoolConsistent /\ MemAccounts => StoresConsistent
  BY DEF StoresConsistent
<1>. QED BY <1>1, <1>2, <1>3, <1>4, <1>5, PTL
=============================================================================
