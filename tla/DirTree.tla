------------------------------ MODULE DirTree ------------------------------
(***************************************************************************)
(* iot_mkdir(): a directory made with all it is in, by several processes   *)
(* at a time.  Every system call is a step of its own, because the answer  *)
(* of stat() is used after it: what was missing may be there by the time   *)
(* of mkdir(), and what was there may be taken away by a call that fails   *)
(* and cleans up.                                                          *)
(***************************************************************************)
EXTENDS Sequences, SequencesExt, Functions

CONSTANTS
  Caller,     \* those who call it
  PathOf      \* the components of the path each of them makes

\* A path of no components, as "/", is left with nothing made.
ASSUME DirTreeAssumption ==
  /\ DOMAIN PathOf = Caller /\ "nobody" \notin Caller
  /\ \A c \in Caller : PathOf[c] # <<>> /\ PathOf[c] \in Seq(Range(PathOf[c]))

VARIABLES
  dirs,       \* the directories there are
  maker,      \* history: who made them
  step,       \* the system call each caller makes next, or how it ended
  depth,      \* how much of the path there is in buf
  undo,       \* how much of it each call has made
  unlabelled  \* history: what could not be given its label

treeVars == <<dirs, maker, step, depth, undo, unlabelled>>

Buf(c) == SubSeq(PathOf[c], 1, depth[c])

DirsOf(c) == {SubSeq(PathOf[c], 1, n) : n \in 1..Len(PathOf[c])}

TreeInit ==
  /\ \E n \in 0..1 : dirs = {SubSeq(PathOf[c], 1, n) : c \in Caller} \ {<<>>}
  /\ maker = [d \in dirs |-> "nobody"]
  /\ step = [c \in Caller |-> "stat"]
  /\ depth = [c \in Caller |-> 1]
  /\ undo = [c \in Caller |-> <<>>]
  /\ unlabelled = {}

Becomes(c, s) == step' = [step EXCEPT ![c] = s]

\* The next component, if there is one.
Descend(c) ==
  IF depth[c] = Len(PathOf[c])
  THEN Becomes(c, "made") /\ UNCHANGED depth
  ELSE Becomes(c, "stat") /\ depth' = [depth EXCEPT ![c] = @ + 1]

\* The last case is a plain file, or any other error.
Stat(c) ==
  /\ step[c] = "stat"
  /\ \/ Buf(c) \in dirs /\ Descend(c)
     \/ Buf(c) \notin dirs /\ Becomes(c, "mkdir") /\ UNCHANGED depth
     \/ Becomes(c, "cleanup") /\ UNCHANGED depth
  /\ UNCHANGED <<dirs, maker, undo, unlabelled>>

Makeable(d) == d \notin dirs /\ (Len(d) = 1 \/ Front(d) \in dirs)

Mkdir(c) ==
  /\ step[c] = "mkdir"
  /\ \/ /\ Makeable(Buf(c))
        /\ dirs' = dirs \cup {Buf(c)}
        /\ maker' = [d \in dirs' |-> IF d = Buf(c) THEN c ELSE maker[d]]
        /\ Becomes(c, "label")
     \/ Becomes(c, "cleanup") /\ UNCHANGED <<dirs, maker>>
  /\ UNCHANGED <<depth, undo, unlabelled>>

\* iot_set_label(): what is made is noted only after it.
SetDirLabel(c) ==
  /\ step[c] = "label"
  /\ \/ Descend(c) /\ undo' = [undo EXCEPT ![c] = Append(@, depth[c])]
        /\ UNCHANGED unlabelled
     \/ Becomes(c, "cleanup") /\ unlabelled' = unlabelled \cup {Buf(c)}
        /\ UNCHANGED <<depth, undo>>
  /\ UNCHANGED <<dirs, maker>>

\* rmdir(), whose failure is ignored.
Rmdir(d) ==
  /\ dirs' = IF \E e \in dirs : Len(e) > Len(d) /\ IsPrefix(d, e) THEN dirs ELSE dirs \ {d}
  /\ maker' = Restrict(maker, dirs')
CleanUpTo(c, left) ==
  /\ step[c] = "cleanup"
  /\ IF Len(undo[c]) > left
     THEN /\ Rmdir(SubSeq(PathOf[c], 1, Last(undo[c])))
          /\ undo' = [undo EXCEPT ![c] = Front(@)]
          /\ UNCHANGED step
     ELSE Becomes(c, "failed") /\ UNCHANGED <<dirs, maker, undo>>
  /\ UNCHANGED <<depth, unlabelled>>
M_CleanUp(c) == CleanUpTo(c, 1)
CleanUp(c) == CleanUpTo(c, 0)

TreeNext == \E c \in Caller : Stat(c) \/ Mkdir(c) \/ SetDirLabel(c) \/ CleanUp(c)

TreeSpec == TreeInit /\ [][TreeNext]_treeVars

----------------------------------------------------------------------------
\* "Atomically, either creating the full hierarchy, or not modifying the
\* existing hierarchy at all": when a call returns, its hierarchy is there, or
\* nothing it made is left but what the path of another caller goes through,
\* and what it could not label with all that is above it; and what a call has
\* made nobody else takes away.
MkdirAllOrNothing ==
  [][\A c \in Caller :
       /\ step'[c] = "made" /\ step[c] # "made" => DirsOf(c) \subseteq dirs'
       /\ step'[c] = "failed" /\ step[c] # "failed" =>
            \A d \in dirs' : maker'[d] = c =>
              \/ \E e \in unlabelled : IsPrefix(d, e)
              \/ \E o \in Caller \ {c} : d \in DirsOf(o)
       /\ \A d \in dirs \ dirs' : maker[d] = c => undo'[c] # undo[c]]_treeVars
=============================================================================
