------------------------------ MODULE Signals -------------------------------
(***************************************************************************)
(* The signal handlers of mainloop.c: signals with a handler are blocked   *)
(* and read from a signalfd, and every handler of a signal is called.      *)
(*                                                                         *)
(* A signal that arrives while it is not blocked takes its default action, *)
(* and so does one that is pending when it is unblocked.  Signals pend     *)
(* once, however often they were sent.                                     *)
(***************************************************************************)
EXTENDS Naturals, Lists

CONSTANTS
  Signal, Handler,  \* handlers that can be allocated
  NoHandler

ASSUME SignalsAssumption == NoHandler \notin Handler /\ Signal # {}

VARIABLES
  hLife,       \* free, live or dead: deleted and not freed yet
  signum,      \* h->signum
  sighandlers, \* ml->sighandlers
  sigmask,     \* ml->sigmask
  sigfdMask,   \* what ml->sigfd reads
  blocked,     \* the signals the process blocks
  pending,     \* the signals that wait for it
  sigStage,    \* idle, in dispatch_signals() or in recalc_sigmask()
  reading, nextHandler,  \* the signal read, and n of the walk
  dueHandlers, ranHandlers,  \* history: the signal's handlers when it was read, calls made
  defaulted    \* history: signals whose default action was taken while they
               \* had a handler

handlerVars == <<hLife, signum, sighandlers>>
sigmaskVars == <<sigmask, sigfdMask, blocked>>
readVars == <<reading, nextHandler, dueHandlers, ranHandlers>>
signalVars == <<handlerVars, sigmaskVars, pending, sigStage, readVars, defaulted>>

LiveHandlers(s) == {h \in Handler : hLife[h] = "live" /\ signum[h] = s}

Handled == {s \in Signal : LiveHandlers(s) # {}}

NextHandler(h) == FollowerOf(sighandlers, h, NoHandler)

SignalsInit ==
  /\ hLife = [h \in Handler |-> "free"]
  /\ signum = [h \in Handler |-> CHOOSE s \in Signal : TRUE]
  /\ sighandlers = <<>>
  /\ sigmask = {} /\ sigfdMask = {} /\ blocked = {} /\ pending = {}
  /\ sigStage = "idle"
  /\ reading = CHOOSE s \in Signal : TRUE
  /\ nextHandler = NoHandler /\ dueHandlers = {} /\ ranHandlers = <<>>
  /\ defaulted = {}

\* A signal arrives.
Kill(s) ==
  /\ IF s \in blocked
     THEN /\ pending' = pending \cup {s}
          /\ UNCHANGED defaulted
     ELSE /\ defaulted' = defaulted \cup ({s} \cap Handled)
          /\ UNCHANGED pending
  /\ UNCHANGED <<handlerVars, sigmaskVars, sigStage, readVars>>

\* iot_add_sighandler(), also from a callback.
AddSighandler(h, s) ==
  /\ sigStage \in {"idle", "dispatch"}
  /\ hLife[h] = "free"
  /\ hLife' = [hLife EXCEPT ![h] = "live"]
  /\ signum' = [signum EXCEPT ![h] = s]
  /\ sighandlers' = Append(sighandlers, h)
  /\ sigmask' = sigmask \cup {s}
  /\ sigfdMask' = sigmask'
  /\ blocked' = blocked \cup sigmask'
  /\ UNCHANGED <<pending, sigStage, readVars, defaulted>>

\* iot_del_sighandler(): the handler is marked, and recalc_sigmask() begins
\* with unblocking every signal of the mainloop.
DelSighandler(h) ==
  /\ sigStage \in {"idle", "dispatch"}
  /\ hLife[h] = "live"
  /\ hLife' = [hLife EXCEPT ![h] = "dead"]
  /\ blocked' = blocked \ sigmask
  /\ pending' = pending \ sigmask
  /\ defaulted' = defaulted \cup {s \in pending \cap sigmask : LiveHandlers(s) \ {h} # {}}
  /\ sigStage' = IF sigStage = "idle" THEN "recalc" ELSE "recalc in dispatch"
  /\ UNCHANGED <<signum, sighandlers, sigmask, sigfdMask, readVars>>

\* recalc_sigmask(): what is left is blocked again.
RecalcSigmask ==
  /\ sigStage \in {"recalc", "recalc in dispatch"}
  /\ sigmask' = Handled
  /\ blocked' = blocked \cup sigmask'
  /\ sigStage' = IF sigStage = "recalc" THEN "idle" ELSE "dispatch"
  /\ UNCHANGED <<handlerVars, sigfdMask, pending, readVars, defaulted>>

\* dispatch_signals(): read a signal and walk the handlers; then the next.
ReadSignal(s) ==
  /\ sigStage \in {"idle", "dispatch"} /\ nextHandler = NoHandler
  /\ s \in pending \cap sigfdMask
  /\ pending' = pending \ {s}
  /\ reading' = s
  /\ sigStage' = "dispatch"
  /\ nextHandler' = FirstOf(sighandlers, NoHandler)
  /\ dueHandlers' = LiveHandlers(s)
  /\ ranHandlers' = <<>>
  /\ UNCHANGED <<handlerVars, sigmaskVars, defaulted>>

M_DispatchSignal ==
  /\ sigStage = "dispatch" /\ nextHandler # NoHandler
  /\ LET h == nextHandler
         follower == NextHandler(h)
     IN  /\ nextHandler' =
              IF follower # NoHandler /\ hLife[follower] = "dead" THEN NoHandler ELSE follower
         /\ ranHandlers' = IF hLife[h] = "live" /\ signum[h] = reading
                           THEN Append(ranHandlers, h) ELSE ranHandlers
  /\ UNCHANGED <<handlerVars, sigmaskVars, pending, sigStage, reading, dueHandlers, defaulted>>
DispatchSignal ==
  /\ sigStage = "dispatch" /\ nextHandler # NoHandler
  /\ LET h == nextHandler
     IN  /\ nextHandler' = NextHandler(h)
         /\ ranHandlers' = IF hLife[h] = "live" /\ signum[h] = reading
                           THEN Append(ranHandlers, h) ELSE ranHandlers
  /\ UNCHANGED <<handlerVars, sigmaskVars, pending, sigStage, reading, dueHandlers, defaulted>>

\* The end of the iteration: nothing is left to read, the deleted are freed.
EndSignals ==
  /\ sigStage \in {"idle", "dispatch"} /\ nextHandler = NoHandler
  /\ sigStage = "dispatch" => pending \cap sigfdMask = {}
  /\ sigStage = "idle" => \E h \in Handler : hLife[h] = "dead"
  /\ sigStage' = "idle"
  /\ sighandlers' = Keep(sighandlers, {h \in Handler : hLife[h] = "live"})
  /\ hLife' = [h \in Handler |-> IF hLife[h] = "dead" THEN "free" ELSE hLife[h]]
  /\ dueHandlers' = {} /\ ranHandlers' = <<>>
  /\ UNCHANGED <<signum, sigmaskVars, pending, reading, nextHandler, defaulted>>

SignalsNext ==
  \/ \E s \in Signal : Kill(s) \/ ReadSignal(s) \/ \E h \in Handler : AddSighandler(h, s)
  \/ \E h \in Handler : DelSighandler(h)
  \/ RecalcSigmask \/ DispatchSignal \/ EndSignals

SignalsSpec == SignalsInit /\ [][SignalsNext]_signalVars

----------------------------------------------------------------------------
\* A signal with a handler is blocked and read from the signalfd, whatever
\* was added and deleted in whichever callback, and nothing else is blocked;
\* and when all handlers have been walked, each that was there when the
\* signal was read and still is has been called, once.
SignalsHandled ==
  /\ sigStage \in {"idle", "dispatch"} =>
       Handled = blocked /\ Handled \subseteq sigfdMask
  /\ nextHandler = NoHandler =>
       \A h \in dueHandlers : hLife[h] = "live" => h \in Range(ranHandlers)
  /\ IsInjective(ranHandlers)

\* mainloop.h: each signal handler created for a signal will be called, if
\* that signal has been delivered.  So the default action of a signal that
\* has a handler is never taken.
NoDefaultAction == defaulted = {}
=============================================================================
