------------------------------ MODULE MemBlocks ------------------------------
(***************************************************************************)
(* The allocator of mm.c in its debugging mode, in which every block is on *)
(* a list with the size and the place of its allocation, and in its        *)
(* passthru mode, in which malloc() is asked.  The mode is chosen before   *)
(* anything is allocated, which iot_mm_config() checks for blocks of the   *)
(* debugging mode only.                                                    *)
(***************************************************************************)
EXTENDS Integers, Lists, FiniteSetsExt

CONSTANTS
  Block, Site,
  MaxSize,      \* the largest size asked for
  Mod32         \* 2^32

ASSUME MemBlocksAssumption ==
  MaxSize \in Nat /\ Mod32 \in Nat \ {0} /\ IsFiniteSet(Block) /\ Site # {}

VARIABLES
  mmMode,         \* __mm.mode
  blocks,       \* __mm.blocks
  size, site,   \* blk->size and blk->bt
  curBlocks, curAlloc, maxBlocks, maxAlloc,
  asked         \* history: the size of the blocks that users hold, or 0

mmVars == <<mmMode, blocks, size, site, curBlocks, curAlloc, maxBlocks, maxAlloc, asked>>

Size == 1 .. MaxSize
Most(a, b) == IF a < b THEN b ELSE a

IotMmConfig(new) ==
  /\ curBlocks = 0
  /\ \A b \in Block : asked[b] = 0
  /\ mmMode' = new
  /\ UNCHANGED <<blocks, size, site, curBlocks, curAlloc, maxBlocks, maxAlloc, asked>>

\* memblk_alloc(): nothing is allocated for no bytes.
MemblkAlloc(b, n, at) ==
  /\ blocks' = Append(blocks, b)
  /\ size' = [size EXCEPT ![b] = n]
  /\ site' = [site EXCEPT ![b] = at]
  /\ curBlocks' = curBlocks + 1
  /\ curAlloc' = curAlloc + n
  /\ maxBlocks' = Most(maxBlocks, curBlocks + 1)
  /\ maxAlloc' = Most(maxAlloc, curAlloc + n)

MemblkFree(b) ==
  /\ blocks' = RemoveFirst(blocks, b)
  /\ curBlocks' = curBlocks - 1
  /\ curAlloc' = curAlloc - size[b]
  /\ UNCHANGED <<size, site, maxBlocks, maxAlloc>>

M_MemblkResize(b, n, at) ==
  /\ blocks' = Append(RemoveFirst(blocks, b), b)
  /\ size' = [size EXCEPT ![b] = n]
  /\ site' = [site EXCEPT ![b] = at]
  /\ curAlloc' = curAlloc + n
  /\ maxAlloc' = Most(maxAlloc, curAlloc + n)
  /\ UNCHANGED <<curBlocks, maxBlocks>>

MemblkResize(b, n, at) ==
  /\ blocks' = Append(RemoveFirst(blocks, b), b)
  /\ size' = [size EXCEPT ![b] = n]
  /\ site' = [site EXCEPT ![b] = at]
  /\ curAlloc' = curAlloc - size[b] + n
  /\ maxAlloc' = Most(maxAlloc, curAlloc - size[b] + n)
  /\ UNCHANGED <<curBlocks, maxBlocks>>

\* realloc() that fails: the block is the last one of the list now.
MemblkKept(b) ==
  /\ blocks' = Append(RemoveFirst(blocks, b), b)
  /\ UNCHANGED <<size, site, curBlocks, curAlloc, maxBlocks, maxAlloc>>

Passthru == UNCHANGED <<blocks, size, site, curBlocks, curAlloc, maxBlocks, maxAlloc>>

IotMmAlloc(b, n, at) ==
  /\ asked[b] = 0
  /\ asked' = [asked EXCEPT ![b] = n]
  /\ IF mmMode = "debug" THEN MemblkAlloc(b, n, at) ELSE Passthru
  /\ UNCHANGED mmMode

IotMmFree(b) ==
  /\ asked[b] # 0
  /\ asked' = [asked EXCEPT ![b] = 0]
  /\ IF mmMode = "debug" THEN MemblkFree(b) ELSE Passthru
  /\ UNCHANGED mmMode

IotMmRealloc(b, n, at) ==
  /\ asked[b] # 0
  /\ asked' = [asked EXCEPT ![b] = n]
  /\ CASE mmMode # "debug" -> Passthru
       [] mmMode = "debug" /\ n = 0 -> MemblkFree(b)
       [] OTHER -> MemblkResize(b, n, at)
  /\ UNCHANGED mmMode

IotMmReallocFailed(b) ==
  /\ asked[b] # 0
  /\ IF mmMode = "debug" THEN MemblkKept(b) ELSE Passthru
  /\ UNCHANGED <<mmMode, asked>>

-----------------------------------------------------------------------------
(* iot_mm_dump(): the blocks of one place are gathered under the first of  *)
(* them, which is given the size of them all; these are sorted by it,      *)
(* printed, and put back on the list.  The order of equal ones is that of  *)
(* the hashes of their places, which is any.                               *)

Group(b) == {x \in Range(blocks) : site[x] = site[b]}
Heads == {b \in Range(blocks) : b = Keep(blocks, Group(b))[1]}
Gathered(h) == MapThenSumSet(LAMBDA b : size[b], Group(h))

\* group_usage() of a group without its head, in 32 bits.
Rest(h) == MapThenSumSet(LAMBDA b : size[b], Group(h) \ {h}) % Mod32

IotMmDump ==
  /\ \E sorted \in SetToSeqs(Heads) :
       /\ \A i, j \in DOMAIN sorted : i < j => Gathered(sorted[i]) <= Gathered(sorted[j])
       /\ blocks' = Keep(blocks, Range(blocks) \ Heads) \o sorted
  /\ size' = [b \in Block |-> IF b \in Heads THEN Gathered(b) - Rest(b) ELSE size[b]]
  /\ UNCHANGED <<mmMode, site, curBlocks, curAlloc, maxBlocks, maxAlloc, asked>>

MmInit ==
  /\ mmMode \in {"passthru", "debug"}
  /\ blocks = <<>>
  /\ size = [b \in Block |-> 0]
  /\ site = [b \in Block |-> CHOOSE at \in Site : TRUE]
  /\ curBlocks = 0 /\ curAlloc = 0
  /\ maxBlocks = 0 /\ maxAlloc = 0
  /\ asked = [b \in Block |-> 0]

MmNext ==
  \/ \E new \in {"passthru", "debug"} : IotMmConfig(new)
  \/ \E b \in Block, n \in Size, at \in Site : IotMmAlloc(b, n, at)
  \/ \E b \in Block, n \in 0 .. MaxSize, at \in Site : IotMmRealloc(b, n, at)
  \/ \E b \in Block : IotMmFree(b) \/ IotMmReallocFailed(b)
  \/ IotMmDump

MmSpec == MmInit /\ [][MmNext]_mmVars

-----------------------------------------------------------------------------
(* Properties.                                                             *)

(* What the debugging mode says of memory is true: the list has the blocks *)
(* that users hold and no other, each with the size that was asked for,    *)
(* and the totals are theirs, although a dump takes the list apart, writes *)
(* other sizes into the blocks and puts both back.                         *)
MemAccounts ==
  mmMode = "debug" =>
    /\ IsInjective(blocks)
    /\ Range(blocks) = {b \in Block : asked[b] # 0}
    /\ \A b \in Range(blocks) : size[b] = asked[b]
    /\ curBlocks = Len(blocks)
    /\ curAlloc = MapThenSumSet(LAMBDA b : asked[b], Block)
    /\ curBlocks <= maxBlocks /\ curAlloc <= maxAlloc
=============================================================================
