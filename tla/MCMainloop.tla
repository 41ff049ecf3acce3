----------------------------- MODULE MCMainloop -----------------------------
(***************************************************************************)
(* Objects for Mainloop.  Timers are alike, and so are deferred callbacks. *)
(***************************************************************************)
EXTENDS Mainloop, TLC

CONSTANTS t1, t2, d1, d2, w1

Alike == Permutations({t1, t2}) \cup Permutations({d1, d2})

=============================================================================
