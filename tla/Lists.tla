-------------------------------- MODULE Lists --------------------------------
(***************************************************************************)
(* The intrusive lists of list.h, as the sequences of their members.       *)
(* Appending is Append and deleting RemoveFirst of the libraries.          *)
(***************************************************************************)
EXTENDS SequencesExt

(* iot_list_foreach() begins with the first member, and keeps the one      *)
(* behind the visited one; none is the list itself, where it ends.         *)
FirstOf(list, none) == IF list = <<>> THEN none ELSE list[1]

FollowerOf(list, x, none) ==
  LET place == CHOOSE i \in DOMAIN list : list[i] = x
  IN  IF place = Len(list) THEN none ELSE list[place + 1]

(* A loop that visits each member once and may delete the one it visits:   *)
(* what stays of s when all but those in T go.                             *)
Keep(s, T) ==
  FoldLeft(LAMBDA kept, x : IF x \in T THEN Append(kept, x) ELSE kept, <<>>, s)
=============================================================================
