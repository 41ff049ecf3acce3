----------------------------- MODULE Superloop ------------------------------
(***************************************************************************)
(* The mainloop pumped by another one: the superloop of mainloop.c and the *)
(* glue for libuv, glib, PulseAudio, ecore and Qt.                         *)
(*                                                                         *)
(* The mainloop has three things in its host: a watch of its epoll         *)
(* descriptor, a timer for its next timer, and deferred work, which is     *)
(* enabled when one of the others fires and does the pumping.  Of the      *)
(* mainloop itself only what the host has to know is here: whether it has  *)
(* I/O to dispatch, deferred callbacks and queued events, and when its     *)
(* next timer expires.                                                     *)
(*                                                                         *)
(* A timer of a host is the time that is left and the interval it repeats  *)
(* with.  Never is also the interval -1: a mainloop without timers hands   *)
(* it on as an unsigned number of milliseconds.                            *)
(***************************************************************************)
EXTENDS Naturals

CONSTANTS
  MaxDelay,  \* bounds the delays of timers
  Risks      \* what the program does that the code does not bear

ASSUME SuperloopAssumption ==
  /\ MaxDelay \in Nat
  /\ Risks \subseteq {"enable outside", "host fails", "quit under uv"}

Glue == {"uv", "glib", "pulse", "ecore", "qt"}
Never == MaxDelay + 1
Delay == 0 .. MaxDelay
Time == Delay \cup {Never}

VARIABLES
  glue,       \* the host
  attached,   \* no, yes, or quit: ops are set and the host's things are gone
  hostIo,     \* the host watches the epoll descriptor
  hostTimer,  \* its timer
  hostWork,   \* its deferred work
  ioReady,    \* the epoll descriptor is readable
  dueIn,      \* time to ml->next_timer
  deferredOn, \* ml->deferred is not empty
  queued,     \* ml->eventq is not empty
  glueFreed   \* how often the glue has been freed

hostVars == <<hostIo, hostTimer, hostWork>>
pumpedVars == <<ioReady, dueIn, deferredOn, queued>>
superVars == <<glue, attached, hostVars, pumpedVars, glueFreed>>

NoTimer == [left |-> Never, every |-> Never]

\* fires: enabled, in the host's eyes.  Of Qt also: m_disabled, which the
\* constructor leaves unset, and a QTimer enable() has replaced and left.
NoWork == [fires |-> FALSE, off |-> FALSE, left |-> FALSE]

----------------------------------------------------------------------------
\* The timers of the hosts, as add_timer() and mod_timer() start them.

\* uv_timer_start(msecs, msecs): an interval of 0 does not repeat.
UvTimer(msecs) == [left |-> msecs, every |-> IF msecs = 0 THEN Never ELSE msecs]

\* g_timeout_add(), repeating since the callback returns TRUE
GlibTimer(msecs) == [left |-> msecs, every |-> msecs]

\* pa->time_new(), pa->time_restart(): once
PulseTimer(msecs) == [left |-> msecs, every |-> Never]

\* ecore_timer_interval_set() and ecore_timer_reset()
M_EcoreTimer(msecs) == IF hostTimer.left = Never THEN hostTimer ELSE [left |-> msecs, every |-> msecs]
EcoreTimer(msecs) == [left |-> msecs, every |-> msecs]

\* QtTimer::setInterval() makes 0 of what is negative as an int.
QtTimer(msecs) ==
  LET interval == IF msecs = Never THEN 0 ELSE msecs
  IN  [left |-> interval, every |-> interval]

HostTimer(msecs) ==
  CASE glue = "uv"    -> UvTimer(msecs)
    [] glue = "glib"  -> GlibTimer(msecs)
    [] glue = "pulse" -> PulseTimer(msecs)
    [] glue = "ecore" -> EcoreTimer(msecs)
    [] glue = "qt"    -> QtTimer(msecs)

----------------------------------------------------------------------------
\* mod_defer() of the hosts.

\* A timer of 0 that is started, not repeating, or stopped
UvDefer(work, enabled) == [work EXCEPT !.fires = enabled]

\* A timeout of 0 that is added or removed
GlibDefer(work, enabled) == [work EXCEPT !.fires = enabled]

\* pa->defer_enable()
PulseDefer(work, enabled) == [work EXCEPT !.fires = enabled]

\* A timer of 0 that is thawed or frozen
M_EcoreDefer(work, enabled) == [work EXCEPT !.fires = TRUE]
EcoreDefer(work, enabled) == [work EXCEPT !.fires = enabled]

\* QtTimer::enable() and disable(), which do nothing when m_disabled says so.
QtDefer(work, enabled) ==
  IF enabled = ~work.off THEN work
  ELSE IF enabled THEN [fires |-> TRUE, off |-> FALSE, left |-> work.left \/ work.fires]
  ELSE [work EXCEPT !.fires = FALSE, !.off = TRUE]

HostDefer(work, enabled) ==
  CASE glue = "uv"    -> UvDefer(work, enabled)
    [] glue = "glib"  -> GlibDefer(work, enabled)
    [] glue = "pulse" -> PulseDefer(work, enabled)
    [] glue = "ecore" -> EcoreDefer(work, enabled)
    [] glue = "qt"    -> QtDefer(work, enabled)

WorkFires == hostWork.fires \/ hostWork.left

----------------------------------------------------------------------------
\* The poll timeout of iot_mainloop_prepare(), 0 for deferred callbacks
Timeout == IF deferredOn THEN 0 ELSE dueIn

\* adjust_superloop_timer(): prepare, and set the host's timer.  After a quit
\* there is none, which all glue but libuv's checks.
AdjustSuperloopTimer ==
  hostTimer' = IF attached = "yes" THEN HostTimer(Timeout') ELSE hostTimer

SuperloopInit ==
  /\ glue \in Glue
  /\ attached = "no" /\ hostIo = FALSE /\ hostTimer = NoTimer /\ hostWork = NoWork
  /\ ioReady = FALSE /\ dueIn = Never /\ deferredOn = FALSE /\ queued = FALSE
  /\ glueFreed = 0

\* iot_set_superloop(): the work starts enabled.
SetSuperloop ==
  /\ attached = "no"
  /\ attached' = "yes"
  /\ hostIo' = TRUE
  /\ hostTimer' = HostTimer(Timeout)
  /\ \E unset \in IF glue = "qt" THEN BOOLEAN ELSE {FALSE} :
       hostWork' = [fires |-> TRUE, off |-> unset, left |-> FALSE]
  /\ glueFreed' = 0
  /\ UNCHANGED <<glue, pumpedVars>>

\* The unregister() of the glue: a constant for ecore, freed for the others
Unregister == glueFreed' = IF glue = "ecore" THEN glueFreed ELSE glueFreed + 1

\* iot_set_superloop() when the host refuses one of them: what there is is
\* deleted, and the glue freed by clear_superloop() and, in the register
\* functions of libuv, glib and PulseAudio, again.
SetSuperloopFails ==
  /\ "host fails" \in Risks \/ glue \in {"ecore", "qt"}
  /\ attached = "no"
  /\ glueFreed' = IF glue = "ecore" THEN 0 ELSE IF glue = "qt" THEN 1 ELSE 2
  /\ UNCHANGED <<glue, attached, hostVars, pumpedVars>>

\* iot_clear_superloop()
ClearSuperloop ==
  /\ attached # "no"
  /\ attached' = "no"
  /\ hostIo' = FALSE /\ hostTimer' = NoTimer /\ hostWork' = NoWork
  /\ Unregister
  /\ UNCHANGED <<glue, pumpedVars>>

----------------------------------------------------------------------------
\* The program, in callbacks of the host.

CanCall == attached = "quit" => glue # "uv"

\* iot_add_timer(), iot_mod_timer(): insert_timer() tells the host of a timer
\* that is the next to expire.
InsertTimerFrom(delay) ==
  /\ CanCall
  /\ dueIn' = IF delay <= dueIn THEN delay ELSE dueIn
  /\ UNCHANGED <<ioReady, deferredOn, queued>>
  /\ IF delay <= dueIn THEN AdjustSuperloopTimer ELSE UNCHANGED hostTimer
  /\ UNCHANGED <<glue, attached, hostIo, hostWork, glueFreed>>

\* iot_del_timer() of the next timer; a later one or none is next.
DelNextTimer ==
  /\ CanCall /\ dueIn # Never
  /\ dueIn' \in {t \in Time : t >= dueIn}
  /\ UNCHANGED <<ioReady, deferredOn, queued>>
  /\ AdjustSuperloopTimer
  /\ UNCHANGED <<glue, attached, hostIo, hostWork, glueFreed>>

\* iot_mod_timer() of the next timer to a later time: the host is not told,
\* and pumps once too often.
ModNextTimer ==
  /\ CanCall /\ dueIn # Never
  /\ dueIn' \in {t \in Delay : t >= dueIn}
  /\ UNCHANGED <<ioReady, deferredOn, queued>>
  /\ AdjustSuperloopTimer \/ UNCHANGED hostTimer
  /\ UNCHANGED <<glue, attached, hostIo, hostWork, glueFreed>>

\* iot_add_deferred()
AddDeferred ==
  /\ CanCall
  /\ deferredOn' = TRUE
  /\ UNCHANGED <<ioReady, dueIn, queued>>
  /\ AdjustSuperloopTimer
  /\ UNCHANGED <<glue, attached, hostIo, hostWork, glueFreed>>

\* iot_enable_deferred(), and iot_emit_event() through it: the host is told
\* nothing, and pumps only if it was about to.
EnableDeferred ==
  /\ "enable outside" \in Risks \/ (attached = "yes" => WorkFires \/ hostTimer.left = 0)
  /\ deferredOn' = TRUE
  /\ queued' \in {queued, TRUE}
  /\ UNCHANGED <<glue, attached, hostVars, ioReady, dueIn, glueFreed>>

----------------------------------------------------------------------------
\* Time, I/O and the host.

\* Time passes while nothing is due in the host.
Tick ==
  LET pass(t) == IF t \in {0, Never} THEN t ELSE t - 1
  IN  /\ hostTimer.left # 0
      /\ hostTimer' = [hostTimer EXCEPT !.left = pass(@)]
      /\ dueIn' = pass(dueIn)
      /\ UNCHANGED <<glue, attached, hostIo, hostWork, ioReady, deferredOn, queued, glueFreed>>

IoArrives ==
  /\ ioReady' = TRUE
  /\ UNCHANGED <<glue, attached, hostVars, dueIn, deferredOn, queued, glueFreed>>

\* super_io_cb()
SuperIo ==
  /\ hostIo /\ ioReady
  /\ hostWork' = HostDefer(hostWork, TRUE)
  /\ UNCHANGED <<glue, attached, hostIo, hostTimer, pumpedVars, glueFreed>>

\* super_timer_cb()
SuperTimer ==
  /\ attached = "yes" /\ hostTimer.left = 0
  /\ hostTimer' = [hostTimer EXCEPT !.left = hostTimer.every]
  /\ hostWork' = HostDefer(hostWork, TRUE)
  /\ UNCHANGED <<glue, attached, hostIo, pumpedVars, glueFreed>>

\* super_work_cb(): poll and dispatch, which serves what was pending and
\* leaves whatever the callbacks have added; then the host is told what is
\* next and the work is disabled.
SuperWork ==
  /\ attached = "yes" /\ WorkFires
  /\ ioReady' \in BOOLEAN /\ dueIn' \in Time
  /\ deferredOn' \in BOOLEAN /\ queued' \in (IF deferredOn' THEN BOOLEAN ELSE {FALSE})
  /\ hostTimer' = HostTimer(Timeout')
  /\ hostWork' = HostDefer(hostWork, FALSE)
  /\ UNCHANGED <<glue, attached, hostIo, glueFreed>>

\* super_work_cb() when a callback has quit the mainloop: nothing of it stays
\* in the host.  libuv's defer_cb() then reads the work it has freed.
SuperWorkQuits ==
  /\ "quit under uv" \in Risks \/ glue # "uv"
  /\ attached = "yes" /\ WorkFires
  /\ ioReady' \in BOOLEAN /\ dueIn' \in Time
  /\ deferredOn' \in BOOLEAN /\ queued' \in (IF deferredOn' THEN BOOLEAN ELSE {FALSE})
  /\ attached' = "quit"
  /\ hostIo' = FALSE /\ hostTimer' = NoTimer /\ hostWork' = NoWork
  /\ UNCHANGED <<glue, glueFreed>>

SuperloopNext ==
  \/ SetSuperloop \/ SetSuperloopFails \/ ClearSuperloop
  \/ \E delay \in Delay : InsertTimerFrom(delay)
  \/ DelNextTimer \/ ModNextTimer \/ AddDeferred \/ EnableDeferred
  \/ Tick \/ IoArrives \/ SuperIo \/ SuperTimer \/ SuperWork \/ SuperWorkQuits

SuperloopSpec == SuperloopInit /\ [][SuperloopNext]_superVars

----------------------------------------------------------------------------
\* The host owes the mainloop a pump no later than the mainloop has something
\* to do, whatever was added, modified, deleted or fired in which order; and
\* when the mainloop is detached or has quit, nothing of it is left in the
\* host, and the glue has been freed once at most.
HostPumps ==
  /\ attached = "yes" =>
       \/ WorkFires
       \/ /\ hostIo
          /\ hostTimer.left <= dueIn
          /\ deferredOn \/ queued => hostTimer.left = 0
  /\ attached # "yes" => ~hostIo /\ hostTimer = NoTimer /\ hostWork = NoWork
  /\ glueFreed <= 1

\* A mainloop that has nothing to do lets its host sleep: after a pump nothing
\* is due before the next timer.  Not so under Qt, where having no timer is a
\* timer of 0.
HostSleeps ==
  [][glue # "qt" /\ SuperWork /\ ~deferredOn' =>
       hostTimer'.left = dueIn' /\ ~WorkFires']_superVars

\* mainloop.h: asynchronous events are delivered from a deferred callback at
\* the end of the mainloop iteration.  So a queued event has an iteration due.
QueuedPumped == attached = "yes" /\ queued => WorkFires \/ hostTimer.left = 0
=============================================================================
