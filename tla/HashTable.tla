------------------------------ MODULE HashTable ------------------------------
(***************************************************************************)
(* The hash table of hash-table.c: buckets of entries, a list of the       *)
(* buckets in use to iterate over, and entries allocated from chunks with  *)
(* a mask of what is used of each.  An iteration is a position in the      *)
(* table itself, which deleting the entry it is at moves back; every call  *)
(* of the user may come between two of its steps.                          *)
(*                                                                         *)
(* Entry n is entry (n - 1) % PerChunk of chunk (n - 1) \div PerChunk + 1: *)
(* n is its cookie.  Users give and keep no cookies.                       *)
(***************************************************************************)
EXTENDS Integers, Lists

CONSTANTS
  Key, Object, Nil,
  Hash,           \* the bucket of a key
  PerChunk,       \* t->nperchunk
  Limit,          \* t->nlimit
  ReplaceInLoop,  \* the entry an iteration is at may be replaced
  ResetUsed       \* a table with entries may be reset

ASSUME HashTableAssumption ==
  /\ {PerChunk, Limit} \subseteq Nat \ {0}
  /\ {ReplaceInLoop, ResetUsed} \subseteq BOOLEAN

Bucket == {Hash[k] : k \in Key}
Entry == 1 .. Limit
ChunkOf(e) == (e - 1) \div PerChunk + 1
Chunk == {ChunkOf(e) : e \in Entry}

ASSUME NilAssumption == Nil \notin Key \cup Object \cup Bucket \cup Entry

VARIABLES
  key, object,    \* e->key and e->object, Nil in a free entry
  chain,          \* b->entries
  used,           \* t->used: buckets to iterate over
  nalloc, nchunk, \* t->nalloc and t->nchunk; t->nlast is 0 if the chunks are full
  mask,           \* the used entries of each chunk
  space,          \* t->space: chunks that may have free entries
  nentry,         \* t->nentry
  it,             \* t->it: bucket, entry and direction
  hung,           \* _iot_hashtbl_iter() does not return
  loop,           \* the user is iterating
  stable,         \* history: entries there when it began, and ever since
  visits          \* history: how often the iteration came to an entry

tableVars == <<key, object, chain, used, nalloc, nchunk, mask, space, nentry>>
loopVars == <<loop, stable, visits>>
htblVars == <<tableVars, it, hung, loopVars>>

InChunk(c) == {e \in Entry : ChunkOf(e) = c}
Live == {e \in Entry : key[e] # Nil}

-----------------------------------------------------------------------------
(* Entries and chunks.                                                     *)

\* allocate_chunks(): the last chunk is full-sized unless the limit is near.
ChunksFor(n) == [chunks |-> n \div PerChunk + (IF n % PerChunk = 0 THEN 0 ELSE 1),
             entries |-> n]

AllocateChunks(n) ==
  LET full == (n \div PerChunk + 1) * PerChunk
  IN  IF n % PerChunk = 0 THEN ChunksFor(n)
      ELSE IF nalloc + full <= Limit THEN ChunksFor(full)
      ELSE ChunksFor(Limit - nalloc)

\* How many more entries iot_hashtbl_add() asks for, and what it gets.
Wanted == IF nalloc + PerChunk < Limit THEN PerChunk ELSE Limit - nalloc
More == IF nalloc <= nentry THEN AllocateChunks(Wanted) ELSE ChunksFor(0)

\* What can be taken from a chunk, of n entries in all.
Free(c, n) == {e \in InChunk(c) : e \notin mask[c] /\ e <= n}

\* alloc_entry(): the chunks found full are taken off the list.
FirstSpace(list, n) ==
  LET roomy == {i \in DOMAIN list : Free(list[i], n) # {}}
  IN  IF roomy = {} THEN Len(list) + 1 ELSE Min(roomy)

\* free_entry(), for all of a set of entries.
FreeEntries(es) ==
  /\ key' = [e \in Entry |-> IF e \in es THEN Nil ELSE key[e]]
  /\ object' = [e \in Entry |-> IF e \in es THEN Nil ELSE object[e]]
  /\ mask' = [c \in Chunk |-> mask[c] \ es]
  /\ space' = space \o SetToSeq({ChunkOf(e) : e \in es} \ Range(space))

-----------------------------------------------------------------------------
(* Iteration.                                                              *)

Nowhere(dir) == [b |-> Nil, e |-> Nil, d |-> dir]

Neighbour(list, x, d) ==
  LET i == CHOOSE n \in DOMAIN list : list[n] = x
  IN  IF i + d \in DOMAIN list THEN list[i + d] ELSE Nil

FirstIn(list, d) ==
  IF list = <<>> THEN Nil ELSE list[IF d > 0 THEN 1 ELSE Len(list)]

\* Where _iot_hashtbl_iter() comes to from t->it: the next entry of the bucket,
\* or the first one of the next bucket.  An empty bucket among the used ones is
\* looked at again and again: it->b is not moved on to it.
Step(d) ==
  LET inBucket == IF it.b = Nil THEN Nil ELSE Neighbour(chain[it.b], it.e, d)
      b == IF it.b = Nil THEN FirstIn(used, d) ELSE Neighbour(used, it.b, d)
  IN  CASE inBucket # Nil -> [it EXCEPT !.e = inBucket]
        [] inBucket = Nil /\ b = Nil -> Nowhere(0)
        [] OTHER -> [it EXCEPT !.b = b, !.e = FirstIn(chain[b], d)]

\* iot_hashtbl_del() and iot_hashtbl_replace() of the entry the iteration is at:
\* one step back.
MovedBack ==
  LET back == Step(-it.d) IN IF back.b = Nil THEN Nowhere(it.d) ELSE back

Hangs(d) ==
  LET b == IF it.b = Nil THEN FirstIn(used, d) ELSE Neighbour(used, it.b, d)
  IN  /\ it.b # Nil => Neighbour(chain[it.b], it.e, d) = Nil
      /\ b # Nil /\ chain[b] = <<>>

IotHashtblBegin(d) ==
  /\ it' = Nowhere(d)
  /\ loop' = "on"
  /\ stable' = Live
  /\ visits' = [e \in Entry |-> 0]
  /\ UNCHANGED <<tableVars, hung>>

IotHashtblIter ==
  /\ loop = "on"
  /\ hung' = Hangs(it.d)
  /\ it' = IF hung' THEN it ELSE Step(it.d)
  /\ loop' = IF it'.b = Nil /\ ~hung' THEN "ended" ELSE "on"
  /\ visits' = IF it'.e = Nil \/ hung' THEN visits
               ELSE [visits EXCEPT ![it'.e] = @ + 1]
  /\ UNCHANGED <<tableVars, stable>>

\* The user leaves the loop: the position stays where it is.
Break ==
  /\ loop = "on"
  /\ loop' = "off"
  /\ stable' = {}
  /\ visits' = [e \in Entry |-> 0]
  /\ UNCHANGED <<tableVars, it, hung>>

-----------------------------------------------------------------------------
(* The calls of the user, in a loop or not.                                *)

M_HashEntry(k) == chain[Hash[k]]

HashEntry(k) == Keep(chain[Hash[k]], {e \in Entry : key[e] = k})

M_AddTo(list, n, k, o) ==
  LET i == FirstSpace(list, n)
      e == Min(Free(list[i], n))
      b == Hash[k]
  IN  /\ key' = [key EXCEPT ![e] = k]
      /\ object' = [object EXCEPT ![e] = o]
      /\ mask' = [mask EXCEPT ![list[i]] = @ \cup {e}]
      /\ space' = SubSeq(list, i + 1, Len(list))
      /\ chain' = [chain EXCEPT ![b] = Append(@, e)]
      /\ used' = IF b \in Range(used) THEN used ELSE Append(used, b)
      /\ nentry' = nentry + 1

AddTo(list, n, k, o) ==
  LET i == FirstSpace(list, n)
      e == Min(Free(list[i], n))
      b == Hash[k]
  IN  /\ key' = [key EXCEPT ![e] = k]
      /\ object' = [object EXCEPT ![e] = o]
      /\ mask' = [mask EXCEPT ![list[i]] = @ \cup {e}]
      /\ space' = SubSeq(list, i, Len(list))
      /\ chain' = [chain EXCEPT ![b] = Append(@, e)]
      /\ used' = IF b \in Range(used) THEN used ELSE Append(used, b)
      /\ nentry' = nentry + 1

IotHashtblAdd(k, o) ==
  LET n    == nalloc + More.entries
      list == space \o [i \in 1 .. More.chunks |-> nchunk + i]
  IN  /\ nentry < Limit
      /\ nalloc' = n /\ nchunk' = nchunk + More.chunks
      /\ IF FirstSpace(list, n) > Len(list)
           THEN space' = <<>> /\ UNCHANGED <<key, object, mask, chain, used, nentry>>
           ELSE AddTo(list, n, k, o)
      /\ UNCHANGED <<it, hung, loopVars>>

M_PositionAfter(e) == IF it.e = e THEN Step(it.d) ELSE it

PositionAfter(e) == IF it.e = e THEN MovedBack ELSE it

IotHashtblDel(k) ==
  /\ HashEntry(k) # <<>>
  /\ LET e == HashEntry(k)[1]
         b == Hash[k]
     IN  /\ hung' = (it.e = e /\ Hangs(-it.d))
         /\ it' = IF hung' THEN it ELSE PositionAfter(e)
         /\ FreeEntries({e})
         /\ chain' = [chain EXCEPT ![b] = RemoveFirst(@, e)]
         /\ used' = IF chain'[b] = <<>> THEN RemoveFirst(used, b) ELSE used
         /\ nentry' = nentry - 1
         /\ stable' = stable \ {e}
         /\ visits' = [visits EXCEPT ![e] = 0]
  /\ UNCHANGED <<nalloc, nchunk, loop>>

IotHashtblReplace(k, o) ==
  \/ HashEntry(k) = <<>> /\ IotHashtblAdd(k, o)
  \/ /\ HashEntry(k) # <<>>
     /\ LET e == HashEntry(k)[1] IN
        /\ loop = "on" /\ it.e = e => ReplaceInLoop
        /\ hung' = (it.e = e /\ Hangs(-it.d))
        /\ it' = IF hung' THEN it ELSE PositionAfter(e)
        /\ object' = [object EXCEPT ![e] = o]
     /\ UNCHANGED <<key, chain, used, nalloc, nchunk, mask, space, nentry, loopVars>>

\* iot_hashtbl_reset() leaves the buckets in the list of used ones.
IotHashtblReset ==
  /\ loop # "on"
  /\ nentry > 0 => ResetUsed
  /\ FreeEntries(UNION {Range(chain[b]) : b \in Range(used)})
  /\ chain' = [b \in Bucket |-> <<>>]
  /\ nentry' = 0
  /\ UNCHANGED <<used, nalloc, nchunk, it, hung, loop>>
  /\ stable' = {}
  /\ visits' = [e \in Entry |-> 0]

HtblInit ==
  /\ key = [e \in Entry |-> Nil] /\ object = [e \in Entry |-> Nil]
  /\ chain = [b \in Bucket |-> <<>>]
  /\ used = <<>>
  /\ nalloc = 0 /\ nchunk = 0
  /\ mask = [c \in Chunk |-> {}]
  /\ space = <<>>
  /\ nentry = 0
  /\ it = Nowhere(0)
  /\ hung = FALSE
  /\ loop = "off"
  /\ stable = {}
  /\ visits = [e \in Entry |-> 0]

HtblNext ==
  /\ ~hung
  /\ \/ \E d \in {1, -1} : IotHashtblBegin(d)
     \/ IotHashtblIter
     \/ Break
     \/ \E k \in Key, o \in Object : IotHashtblAdd(k, o) \/ IotHashtblReplace(k, o)
     \/ \E k \in Key : IotHashtblDel(k)
     \/ IotHashtblReset

HtblSpec == HtblInit /\ [][HtblNext]_htblVars

-----------------------------------------------------------------------------
(* Properties.                                                             *)

(* The parts of a table agree after any calls: every entry is used by one  *)
(* bucket, its own, and marked in its chunk; the list that is iterated     *)
(* over names every bucket with entries once and no other; what iterates   *)
(* is at an entry of the table; an entry that is free can be found; and no *)
(* chunk is added behind one that is not full-sized, as allocate_chunks()  *)
(* asserts.                                                                *)
TableConsistent ==
  /\ \A b \in Bucket :
       /\ IsInjective(chain[b])
       /\ Range(chain[b]) = {e \in Live : Hash[key[e]] = b}
  /\ IsInjective(used) /\ Range(used) = {b \in Bucket : chain[b] # <<>>}
  /\ UNION {mask[c] : c \in Chunk} = Live /\ Cardinality(Live) = nentry
  /\ nalloc = nchunk * PerChunk \/ nalloc = Limit
  /\ nentry < nalloc => FirstSpace(space, nalloc) <= Len(space)
  /\ it.b # Nil => it.e \in Range(chain[it.b])

(* An iteration comes to every entry that is there from its beginning to   *)
(* its end, and to no entry twice, whatever is added and deleted on the    *)
(* way, the entry it is at and its neighbours included.                    *)
VisitedOnce ==
  /\ \A e \in Entry : visits[e] <= 1
  /\ loop = "ended" => \A e \in stable : visits[e] = 1

(* The table is the map its users take it for.                             *)
ObjectsOf(k) == [i \in DOMAIN HashEntry(k) |-> object[HashEntry(k)[i]]]
Contents == [k \in Key |-> ObjectsOf(k)]
Map == INSTANCE Multimap WITH contents <- Contents
ImplementsMultimap == Map!Spec

(* hash-table.h: "Reset the given hash hash table to its initial state":   *)
(* what can be done with a new table can be done with a reset one.         *)
ResetIsInitial == ~hung
=============================================================================
