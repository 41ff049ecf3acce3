------------------------------- MODULE ObjPool -------------------------------
(***************************************************************************)
(* An object pool of mm.c: chunks of slots, each with a mask of the slots  *)
(* that are free and a word that caches which words of the mask have any,  *)
(* and the two lists a chunk moves between.  Slot s of chunk c is object   *)
(* <<c, s>>.                                                               *)
(***************************************************************************)
EXTENDS Integers, Lists

CONSTANTS
  Chunks,         \* the memory there is for chunks
  NPerChunk,      \* pool->nperchunk
  B,              \* bits of a mask word
  LimitAsked,     \* cfg->limit, 0 for none
  Prealloc,       \* cfg->prealloc
  WideWords       \* words of the chunks that chunk_empty() can find empty

ASSUME ObjPoolAssumption ==
  /\ {NPerChunk, B, WideWords} \subseteq Nat \ {0}
  /\ {LimitAsked, Prealloc} \subseteq Nat
  /\ IsFiniteSet(Chunks)

VARIABLES
  chunkCache,     \* chunk->cache: the words with a free slot
  free,      \* chunk->used: the free slots of each word
  poolSpace, \* pool->space
  full,      \* pool->full
  nobj,      \* pool->nobj
  held       \* the objects users have

poolVars == <<chunkCache, free, poolSpace, full, nobj, held>>

DataIdx == (NPerChunk + B - 1) \div B
Word == 0 .. DataIdx - 1
Slot == 0 .. NPerChunk - 1
CIdx(s) == s \div B
UIdx(s) == s % B

\* pool_calc_sizes(): the limit is rounded up to whole chunks.
PoolLimit ==
  LET over == LimitAsked % NPerChunk IN
  IF LimitAsked = 0 \/ over = 0 THEN LimitAsked ELSE LimitAsked + NPerChunk - over

-----------------------------------------------------------------------------
(* Chunks.                                                                 *)

\* chunk_init(): the bits beyond the last slot are reserved.
Unused(w) == {u \in 0 .. B - 1 : w * B + u < NPerChunk}

Allocated == Range(poolSpace) \cup Range(full)

\* pool_grow(), as far as there is memory.
PoolGrow(n) ==
  \E new \in SUBSET (Chunks \ Allocated) :
    /\ Cardinality(new) = Min({n, Cardinality(Chunks \ Allocated)})
    /\ poolSpace' = poolSpace \o SetToSeq(new)
    /\ chunkCache' = [c \in Chunks |-> IF c \in new THEN Word ELSE chunkCache[c]]
    /\ free' = [c \in Chunks |->
                  IF c \in new THEN [w \in Word |-> Unused(w)] ELSE free[c]]

\* chunk_empty() wants a cache word of sixteen bits.
ChunkEmpty(c) ==
  /\ chunkCache[c] = 0 .. WideWords - 1
  /\ \A w \in Word : free[c][w] = Unused(w)

FirstN(list, n) == SubSeq(list, 1, Min({n, Len(list)}))

NChunk(n) == (n + NPerChunk - 1) \div NPerChunk

IotObjpoolGrow(n) == PoolGrow(NChunk(n)) /\ UNCHANGED <<full, nobj, held>>

\* The loop of pool_shrink() looks at its count after it has freed a chunk.
IotObjpoolShrink(n) ==
  LET gone == FirstN(Keep(poolSpace, {c \in Chunks : ChunkEmpty(c)}), IF n = 0 THEN 1 ELSE NChunk(n)) IN
  /\ poolSpace' = Keep(poolSpace, Chunks \ Range(gone))
  /\ UNCHANGED <<chunkCache, free, full, nobj, held>>

-----------------------------------------------------------------------------
(* Objects.                                                                *)

\* The first free slot of chunk c is taken, whose free words and slots are given.
TakeFrom(c, words, slots, list) ==
  LET w == Min(words)
      u == Min(slots[w])
      left == IF slots[w] = {u} THEN words \ {w} ELSE words
  IN  /\ free' = [free EXCEPT ![c] = [slots EXCEPT ![w] = @ \ {u}]]
      /\ chunkCache' = [chunkCache EXCEPT ![c] = left]
      /\ poolSpace' = IF left = {} THEN Tail(list) ELSE list
      /\ full' = IF left = {} THEN Append(full, c) ELSE full
      /\ nobj' = nobj + 1
      /\ held' = held \cup {<<c, w * B + u>>}

\* A setup callback never fails here: nobj would be decremented for an object
\* it was not incremented for.
IotObjpoolAlloc ==
  /\ PoolLimit > 0 => nobj < PoolLimit
  /\ \/ /\ poolSpace # <<>>
        /\ LET c == poolSpace[1] IN TakeFrom(c, chunkCache[c], free[c], poolSpace)
     \/ /\ poolSpace = <<>>
        /\ \E c \in Chunks \ Allocated :
             TakeFrom(c, Word, [w \in Word |-> Unused(w)], <<c>>)

M_Released(c, s) ==
  /\ free' = [free EXCEPT ![c][CIdx(s)] = @ \cup {UIdx(s)}]
  /\ chunkCache' = [chunkCache EXCEPT ![c] = @ \cup {CIdx(s)}]
  /\ poolSpace' = IF chunkCache[c] = {} THEN Append(poolSpace, c) ELSE poolSpace
  /\ UNCHANGED full

Released(c, s) ==
  /\ free' = [free EXCEPT ![c][CIdx(s)] = @ \cup {UIdx(s)}]
  /\ chunkCache' = [chunkCache EXCEPT ![c] = @ \cup {CIdx(s)}]
  /\ full' = IF chunkCache[c] = {} THEN RemoveFirst(full, c) ELSE full
  /\ poolSpace' = IF chunkCache[c] = {} THEN Append(poolSpace, c) ELSE poolSpace

\* Freeing what is free already is refused and changes nothing.
IotObjpoolFree(c, s) ==
  /\ c \in Allocated
  /\ IF UIdx(s) \in free[c][CIdx(s)] THEN UNCHANGED poolVars
     ELSE /\ Released(c, s)
          /\ nobj' = nobj - 1
          /\ held' = held \ {<<c, s>>}

PoolInit ==
  /\ \E pre \in {FirstN(SetToSeq(Chunks), NChunk(Prealloc))} :
       /\ poolSpace = pre
       /\ chunkCache = [c \in Chunks |-> IF c \in Range(pre) THEN Word ELSE {}]
       /\ free = [c \in Chunks |-> [w \in Word |-> IF c \in Range(pre) THEN Unused(w) ELSE {}]]
  /\ full = <<>>
  /\ nobj = 0
  /\ held = {}

PoolNext ==
  \/ IotObjpoolAlloc
  \/ \E c \in Chunks, s \in Slot : IotObjpoolFree(c, s)
  \/ \E n \in 0 .. NPerChunk + 1 : IotObjpoolGrow(n) \/ IotObjpoolShrink(n)

PoolSpec == PoolInit /\ [][PoolNext]_poolVars

-----------------------------------------------------------------------------
(* Properties.                                                             *)

(* Objects are taken and given back, chunks come and go: the count, the    *)
(* masks, their caches and the lists describe the same set of objects,     *)
(* the one users hold; an object that is free can be found; and a chunk    *)
(* that objects are held of is not given back to the system.               *)
PoolConsistent ==
  /\ nobj = Cardinality(held)
  /\ PoolLimit > 0 => nobj <= PoolLimit
  /\ IsInjective(poolSpace \o full)
  /\ \A x \in held : x[1] \in Allocated
  /\ \A c \in Allocated :
       /\ \A s \in Slot : <<c, s>> \in held <=> UIdx(s) \notin free[c][CIdx(s)]
       /\ chunkCache[c] = {w \in Word : free[c][w] # {}}
       /\ c \in Range(full) <=> chunkCache[c] = {}
=============================================================================
