------------------------------ MODULE Multimap ------------------------------
(***************************************************************************)
(* What a hash table promises (hash-table.h): the objects of a key are     *)
(* kept in the order they were added in, the first one is the one that is  *)
(* looked up, deleted or replaced, and resetting the table forgets all.    *)
(***************************************************************************)
EXTENDS Naturals, Sequences

CONSTANTS Key, Object

VARIABLE contents       \* contents[k]: the objects of key k

Init == contents = [k \in Key |-> <<>>]

Add(k, o) == contents' = [contents EXCEPT ![k] = Append(@, o)]

Delete(k) ==
  /\ contents[k] # <<>>
  /\ contents' = [contents EXCEPT ![k] = Tail(@)]

Replace(k, o) ==
  /\ contents[k] # <<>>
  /\ contents' = [contents EXCEPT ![k][1] = o]

Reset == contents' = [k \in Key |-> <<>>]

Next ==
  \/ \E k \in Key, o \in Object : Add(k, o) \/ Replace(k, o)
  \/ \E k \in Key : Delete(k)
  \/ Reset

Spec == Init /\ [][Next]_contents
=============================================================================
