----------------------------- MODULE MCLibrary ------------------------------
(***************************************************************************)
(* The parts of src/common that share no state with each other: hash       *)
(* tables, masks, object pools and the memory allocator, and the I/O       *)
(* watches, signal handlers, event buses and superloop of the mainloop.    *)
(* A behaviour is one of one of them, and the others stay as they were     *)
(* made.                                                                   *)
(*                                                                         *)
(* One descriptor is enough for the I/O watches: what is done to the       *)
(* watches of one touches nothing of another's, and calls come between a   *)
(* poll and the dispatch of what it collected anyway.                      *)
(***************************************************************************)
EXTENDS Stores, IoWatches, Signals, EventBus, Superloop, TLC

CONSTANTS k1, k2, k3, o1, o2, o3

VARIABLE machine

vars == <<machine, htblVars, maskVars, poolVars, mmVars, ioVars, signalVars,
          busVars, superVars>>

-----------------------------------------------------------------------------
\* Two keys share a bucket.
TwoBuckets == k1 :> 1 @@ k2 :> 1 @@ k3 :> 2

\* Watches and handlers are alike, whichever machine it is.
Alike == Permutations({o1, o2, o3})

-----------------------------------------------------------------------------
Machines ==
  {"hashtbl", "mask", "objpool", "mm", "io", "signals", "bus", "superloop"}

\* A machine that does not run starts in one state.
Init ==
  /\ machine \in Machines
  /\ HtblInit /\ PoolInit /\ MmInit
  /\ IoInit /\ SignalsInit /\ EventBusInit /\ SuperloopInit
  /\ IF machine = "mask" THEN MaskInit ELSE m = EmptyMask /\ want = {}
  /\ machine # "mm" => mmMode = "passthru"
  /\ machine # "superloop" => glue = "uv"

Stays(name, vs) == IF machine = name THEN TRUE ELSE UNCHANGED vs

OthersStay ==
  /\ UNCHANGED machine
  /\ Stays("hashtbl", htblVars)
  /\ Stays("mask", maskVars)
  /\ Stays("objpool", poolVars)
  /\ Stays("mm", mmVars)
  /\ Stays("io", ioVars)
  /\ Stays("signals", signalVars)
  /\ Stays("bus", busVars)
  /\ Stays("superloop", superVars)

Next ==
  \/ machine = "hashtbl" /\ HtblNext /\ OthersStay
  \/ machine = "mask" /\ MaskNext /\ OthersStay
  \/ machine = "objpool" /\ PoolNext /\ OthersStay
  \/ machine = "mm" /\ MmNext /\ OthersStay
  \/ machine = "io" /\ IoNext /\ OthersStay
  \/ machine = "signals" /\ SignalsNext /\ OthersStay
  \/ machine = "bus" /\ EventBusNext /\ OthersStay
  \/ machine = "superloop" /\ SuperloopNext /\ OthersStay

Spec == Init /\ [][Next]_vars

=============================================================================
