------------------------------- MODULE Stores -------------------------------
(***************************************************************************)
(* The stores of src/common together: the hash table, the mask, the object *)
(* pool and the allocator.  They share nothing, and what is said of them   *)
(* is the same: each keeps one thing in several places.                    *)
(***************************************************************************)
EXTENDS HashTable, Mask, ObjPool, MemBlocks

\* The stores of the library hold what was put into them after any sequence of
\* calls: a table, a mask, a pool and the list of blocks each keep one thing
\* in several places (chains and chunks, words and a count, lists and masks,
\* blocks and totals), and these agree with one another and with the user.
StoresConsistent ==
  TableConsistent /\ MaskHoldsBits /\ PoolConsistent /\ MemAccounts
=============================================================================
