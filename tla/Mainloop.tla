------------------------------ MODULE Mainloop ------------------------------
(***************************************************************************)
(* The mainloop of mainloop.c: timers, deferred callbacks, wakeups and the *)
(* dispatching of them while the callbacks change what is dispatched.      *)
(*                                                                         *)
(* An iteration prepares, polls, and makes a pass over each list.  A pass  *)
(* is iot_list_foreach(): before an element is visited, nxt is set to the  *)
(* element behind it, so a callback may move or delete whatever it likes   *)
(* and the walk goes on from wherever nxt is by then.  A callback is the   *)
(* stretch of steps in which cur is its object: it makes any number of     *)
(* calls of the API, then it returns.  I/O watches are a single callback   *)
(* per iteration at most: Io.                                              *)
(*                                                                         *)
(* Time passes in ticks, in callbacks and between them.  rem is the time   *)
(* an expiry is away, and everything long overdue is alike.                *)
(***************************************************************************)
EXTENDS Integers, Lists

CONSTANTS
  Timer, Deferred, Wakeup,  \* objects that can be allocated
  Io,             \* the I/O callback
  Nil,
  Intervals,      \* timer intervals, in ticks: bounds the inputs
  MaxLag,         \* bounds the ticks during one pass over the timers
  ReenableInPass, \* deferred callbacks may enable deferred callbacks
  DeleteForced    \* wakeups with a forced interval may be deleted

ASSUME MainloopAssumption ==
  /\ Intervals \subseteq Nat \ {0}
  /\ MaxLag \in Nat
  /\ {ReenableInPass, DeleteForced} \subseteq BOOLEAN
  /\ Io # Nil /\ {Io, Nil} \cap (Timer \cup Deferred \cup Wakeup) = {}
  /\ Timer \cap Deferred = {} /\ Timer \cap Wakeup = {}
  /\ Deferred \cap Wakeup = {}

Object == Timer \cup Deferred \cup Wakeup

VARIABLES
  life,       \* free, live, or deleted but not freed yet: cb is NULL
  timers,     \* ml->timers, by expiry
  nextTimer,  \* ml->next_timer
  rem,        \* t->expire, from now
  msecs,      \* t->msecs
  owner,      \* the wakeup a timer is the forced interval of, or Nil
  deferred,   \* ml->deferred
  inactive,   \* ml->inactive_deferred
  off,        \* d->inactive
  wakeups,    \* ml->wakeups
  forced,     \* w->timer
  phase,      \* what the loop is doing
  cur,        \* the object whose callback runs, or Nil
  nxt,        \* the n of the pass' iot_list_foreach(), Nil at the end
  lag,        \* age of the now of dispatch_timers()
  timeout,    \* ml->poll_timeout
  slept,      \* ticks in this poll
  event,      \* there is an I/O event to dispatch
  quit,       \* ml->quit
  due, ran    \* history: active when the deferred pass began and ever
              \* since, and how often called in the pass

timerVars == <<timers, nextTimer, rem, msecs, owner>>
deferredVars == <<deferred, inactive, off>>
wakeupVars == <<wakeups, forced>>
pollVars == <<timeout, slept, event>>
passVars == <<phase, nxt, lag>>
historyVars == <<due, ran>>

vars == <<life, timerVars, deferredVars, wakeupVars, passVars, cur, pollVars,
          quit, historyVars>>

Overdue == -(MaxLag + 1)

Live(o) == life[o] = "live"

Active(d) == Live(d) /\ ~off[d]

Head1(list)    == FirstOf(list, Nil)
After(list, o) == FollowerOf(list, o, Nil)

-----------------------------------------------------------------------------
(* insert_timer() and find_next_timer(), with the timers as they are.      *)

LiveTimers == {t \in Timer : Live(t)}

FindNextTimer(list, alive) ==
  LET place == SelectInSeq(list, LAMBDA t : t \in alive)
  IN  IF place = 0 THEN Nil ELSE list[place]

M_InsertTimer(list, t, r) ==
  LET later == {i \in DOMAIN list : Live(list[i]) /\ r <= rem[list[i]]}
      place == IF later = {} THEN Len(list) + 1 ELSE Min(later)
      first == FindNextTimer(list, LiveTimers)
  IN  /\ timers' = InsertAt(list, place, t)
      /\ rem' = [rem EXCEPT ![t] = r]
      /\ nextTimer' = IF first # Nil /\ rem[first] < r THEN first
                      ELSE nextTimer

InsertTimer(list, t, r) ==
  LET later == {i \in DOMAIN list : Live(list[i]) /\ r <= rem[list[i]]}
      place == IF later = {} THEN Len(list) + 1 ELSE Min(later)
      first == FindNextTimer(list, LiveTimers)
  IN  /\ timers' = InsertAt(list, place, t)
      /\ rem' = [rem EXCEPT ![t] = r]
      /\ nextTimer' = IF first # Nil /\ rem[first] < r THEN first ELSE t

RearmTimer(t, r) == InsertTimer(RemoveFirst(timers, t), t, r)

-----------------------------------------------------------------------------
(* The calls callbacks make.                                               *)

InCallback == cur # Nil

AddTimer(t, m) ==
  /\ InCallback /\ life[t] = "free"
  /\ life' = [life EXCEPT ![t] = "live"]
  /\ msecs' = [msecs EXCEPT ![t] = m]
  /\ InsertTimer(timers, t, m)
  /\ UNCHANGED <<owner, deferredVars, wakeupVars, passVars, cur, pollVars,
                 quit, historyVars>>

(* Users hold no pointer to the timers of forced wakeups.                  *)
Users(t) == owner[t] = Nil

ModTimer(t, m) ==
  /\ InCallback /\ Live(t) /\ Users(t)
  /\ msecs' = [msecs EXCEPT ![t] = m]
  /\ RearmTimer(t, m)
  /\ UNCHANGED <<life, owner, deferredVars, wakeupVars, passVars, cur,
                 pollVars, quit, historyVars>>

DelTimer(t) ==
  /\ InCallback /\ Live(t) /\ Users(t)
  /\ life' = [life EXCEPT ![t] = "deleted"]
  /\ nextTimer' = IF nextTimer = t
                    THEN FindNextTimer(timers, LiveTimers \ {t})
                    ELSE nextTimer
  /\ UNCHANGED <<timers, rem, msecs, owner, deferredVars, wakeupVars,
                 passVars, cur, pollVars, quit, historyVars>>

AddDeferred(d) ==
  /\ InCallback /\ life[d] = "free"
  /\ life' = [life EXCEPT ![d] = "live"]
  /\ off' = [off EXCEPT ![d] = FALSE]
  /\ deferred' = Append(deferred, d)
  /\ UNCHANGED <<timerVars, inactive, wakeupVars, passVars, cur, pollVars,
                 quit, historyVars>>

DelDeferred(d) ==
  /\ InCallback /\ Live(d)
  /\ life' = [life EXCEPT ![d] = "deleted"]
  /\ due' = due \ {d}
  /\ UNCHANGED <<timerVars, deferredVars, wakeupVars, passVars, cur,
                 pollVars, quit, ran>>

DisableDeferred(d) ==
  /\ InCallback /\ Live(d) /\ ~off[d]
  /\ off' = [off EXCEPT ![d] = TRUE]
  /\ due' = due \ {d}
  /\ UNCHANGED <<life, timerVars, deferred, inactive, wakeupVars, passVars,
                 cur, pollVars, quit, ran>>

(* Whether it is active or not, and whichever list it is in.               *)
EnableDeferred(d) ==
  /\ InCallback /\ Live(d)
  /\ phase = "deferred" => ReenableInPass
  /\ off' = [off EXCEPT ![d] = FALSE]
  /\ inactive' = RemoveFirst(inactive, d)
  /\ deferred' = Append(RemoveFirst(deferred, d), d)
  /\ UNCHANGED <<life, timerVars, wakeupVars, passVars, cur, pollVars, quit,
                 historyVars>>

AddWakeup(w) ==
  /\ InCallback /\ life[w] = "free"
  /\ life' = [life EXCEPT ![w] = "live"]
  /\ wakeups' = Append(wakeups, w)
  /\ forced' = [forced EXCEPT ![w] = Nil]
  /\ UNCHANGED <<timerVars, deferredVars, passVars, cur, pollVars, quit,
                 historyVars>>

AddForcedWakeup(w, t, m) ==
  /\ InCallback /\ life[w] = "free" /\ life[t] = "free"
  /\ life' = [life EXCEPT ![w] = "live", ![t] = "live"]
  /\ msecs' = [msecs EXCEPT ![t] = m]
  /\ owner' = [owner EXCEPT ![t] = w]
  /\ InsertTimer(timers, t, m)
  /\ wakeups' = Append(wakeups, w)
  /\ forced' = [forced EXCEPT ![w] = t]
  /\ UNCHANGED <<deferredVars, passVars, cur, pollVars, quit, historyVars>>

DelWakeup(w) ==
  /\ InCallback /\ Live(w)
  /\ forced[w] # Nil => DeleteForced
  /\ life' = [life EXCEPT ![w] = "deleted"]
  /\ UNCHANGED <<timerVars, deferredVars, wakeupVars, passVars, cur,
                 pollVars, quit, historyVars>>

Quit ==
  /\ InCallback /\ ~quit
  /\ quit' = TRUE
  /\ UNCHANGED <<life, timerVars, deferredVars, wakeupVars, passVars, cur,
                 pollVars, historyVars>>

Call ==
  \/ \E t \in Timer : \/ \E m \in Intervals : AddTimer(t, m) \/ ModTimer(t, m)
                      \/ DelTimer(t)
  \/ \E d \in Deferred : \/ AddDeferred(d) \/ DelDeferred(d)
                         \/ DisableDeferred(d) \/ EnableDeferred(d)
  \/ \E w \in Wakeup : \/ AddWakeup(w) \/ DelWakeup(w)
                       \/ \E t \in Timer, m \in Intervals :
                            AddForcedWakeup(w, t, m)
  \/ Quit

-----------------------------------------------------------------------------
(* The passes of iot_mainloop_dispatch().                                  *)

PassOver == cur = Nil /\ (nxt = Nil \/ quit)

Visiting(p) == phase = p /\ cur = Nil /\ nxt # Nil /\ ~quit

StartPass(p, list) == phase' = p /\ nxt' = Head1(list)

(* quit ends the iteration: what follows the passes is purge_deleted().    *)
NextPass(p, list) ==
  IF quit THEN StartPass("io", <<>>) ELSE StartPass(p, list)

(* dispatch_wakeup() does nothing in an iteration that did not sleep.      *)
StartWakeups == StartPass("wakeups", IF timeout = 0 THEN <<>> ELSE wakeups)

(* Not called: deleted, of another kind of event, or filtered by w->next.  *)
SkipWakeup ==
  /\ Visiting("wakeups")
  /\ nxt' = After(wakeups, nxt)
  /\ UNCHANGED <<life, timerVars, deferredVars, wakeupVars, phase, lag, cur,
                 pollVars, quit, historyVars>>

CallWakeup ==
  /\ Visiting("wakeups") /\ Live(nxt)
  /\ cur' = nxt
  /\ nxt' = After(wakeups, nxt)
  /\ UNCHANGED <<life, timerVars, deferredVars, wakeupVars, phase, lag,
                 pollVars, quit, historyVars>>

(* The rest of wakeup_cb(): the forced interval starts again.              *)
WakeupReturns ==
  /\ phase = "wakeups" /\ cur # Nil
  /\ cur' = Nil
  /\ IF forced[cur] # Nil /\ Live(forced[cur])
       THEN RearmTimer(forced[cur], msecs[forced[cur]])
       ELSE UNCHANGED <<timers, nextTimer, rem>>
  /\ UNCHANGED <<life, msecs, owner, deferredVars, wakeupVars, passVars,
                 pollVars, quit, historyVars>>

(* The pass of wakeups is the last that asks what the poll timeout was.    *)
WakeupsDone ==
  /\ phase = "wakeups" /\ PassOver
  /\ NextPass("deferred", deferred)
  /\ timeout' = 0
  /\ due' = {d \in Deferred : Active(d)}
  /\ ran' = [d \in Deferred |-> 0]
  /\ UNCHANGED <<life, timerVars, deferredVars, wakeupVars, lag, cur, slept,
                 event, quit>>

M_Park(d) ==
  IF Live(d)
    THEN /\ deferred' = IF off[d] THEN RemoveFirst(deferred, d)
                        ELSE Append(RemoveFirst(deferred, d), d)
         /\ inactive' = IF off[d] THEN Append(inactive, d) ELSE inactive
    ELSE UNCHANGED <<deferred, inactive>>

(* disable_deferred(), called for what is not deleted.                     *)
Park(d) ==
  IF Live(d) /\ off[d]
    THEN /\ deferred' = RemoveFirst(deferred, d)
         /\ inactive' = Append(inactive, d)
    ELSE UNCHANGED <<deferred, inactive>>

SkipDeferred ==
  /\ Visiting("deferred") /\ ~Active(nxt)
  /\ nxt' = After(deferred, nxt)
  /\ Park(nxt)
  /\ UNCHANGED <<life, timerVars, off, wakeupVars, phase, lag, cur, pollVars,
                 quit, historyVars>>

CallDeferred ==
  /\ Visiting("deferred") /\ Active(nxt)
  /\ cur' = nxt
  /\ nxt' = After(deferred, nxt)
  /\ ran' = [ran EXCEPT ![nxt] = IF @ = 2 THEN 2 ELSE @ + 1]
  /\ UNCHANGED <<life, timerVars, deferredVars, wakeupVars, phase, lag,
                 pollVars, quit, due>>

DeferredReturns ==
  /\ phase = "deferred" /\ cur # Nil
  /\ cur' = Nil
  /\ Park(cur)
  /\ UNCHANGED <<life, timerVars, off, wakeupVars, passVars, pollVars, quit,
                 historyVars>>

DeferredDone ==
  /\ phase = "deferred" /\ PassOver
  /\ NextPass("timers", timers)
  /\ lag' = 0
  /\ due' = {} /\ ran' = [d \in Deferred |-> 0]
  /\ UNCHANGED <<life, timerVars, deferredVars, wakeupVars, cur, pollVars,
                 quit>>

(* Expired when dispatch_timers() looked at the clock.                     *)
Expired(t) == rem[t] <= -lag

SkipTimer ==
  /\ Visiting("timers") /\ ~Live(nxt)
  /\ nxt' = After(timers, nxt)
  /\ UNCHANGED <<life, timerVars, deferredVars, wakeupVars, phase, lag, cur,
                 pollVars, quit, historyVars>>

CallTimer ==
  /\ Visiting("timers") /\ Live(nxt) /\ Expired(nxt)
  /\ owner[nxt] # Nil => Live(owner[nxt])
  /\ cur' = nxt
  /\ nxt' = After(timers, nxt)
  /\ UNCHANGED <<life, timerVars, deferredVars, wakeupVars, phase, lag,
                 pollVars, quit, historyVars>>

(* forced_wakeup_cb() that returns early: its wakeup is deleted, or the    *)
(* low-pass filter holds it back.                                          *)
HoldBackForced ==
  /\ Visiting("timers") /\ Live(nxt) /\ Expired(nxt) /\ owner[nxt] # Nil
  /\ nxt' = After(timers, nxt)
  /\ RearmTimer(nxt, msecs[nxt])
  /\ UNCHANGED <<life, msecs, owner, deferredVars, wakeupVars, phase, lag,
                 cur, pollVars, quit, historyVars>>

TimerReturns ==
  /\ phase = "timers" /\ cur # Nil
  /\ cur' = Nil
  /\ IF Live(cur) THEN RearmTimer(cur, msecs[cur])
                  ELSE UNCHANGED <<timers, nextTimer, rem>>
  /\ UNCHANGED <<life, msecs, owner, deferredVars, wakeupVars, passVars,
                 pollVars, quit, historyVars>>

TimersDone ==
  /\ phase = "timers"
  /\ PassOver \/ (Visiting("timers") /\ Live(nxt) /\ ~Expired(nxt))
  /\ StartPass("io", <<>>)
  /\ lag' = 0
  /\ UNCHANGED <<life, timerVars, deferredVars, wakeupVars, cur, pollVars,
                 quit, historyVars>>

(* dispatch_poll_events(): a watch may be gone by now, its event ignored.  *)
CallIo ==
  /\ phase = "io" /\ cur = Nil /\ event /\ ~quit
  /\ cur' = Io
  /\ event' = FALSE
  /\ UNCHANGED <<life, timerVars, deferredVars, wakeupVars, passVars, timeout,
                 slept, quit, historyVars>>

IoReturns ==
  /\ phase = "io" /\ cur # Nil
  /\ cur' = Nil
  /\ UNCHANGED <<life, timerVars, deferredVars, wakeupVars, passVars,
                 pollVars, quit, historyVars>>

-----------------------------------------------------------------------------
(* purge_deleted(), then iot_mainloop_prepare() and the poll, or the end.  *)

M_PollTimeout ==
  IF nextTimer = Nil THEN -1
  ELSE IF rem[nextTimer] <= 0 THEN 0 ELSE rem[nextTimer]

PollTimeout ==
  IF deferred' # <<>> THEN 0
  ELSE IF nextTimer = Nil THEN -1
  ELSE IF rem[nextTimer] <= 0 THEN 0 ELSE rem[nextTimer]

Purge ==
  LET dead == {o \in Object : life[o] = "deleted"}
      left == Object \ dead
  IN  /\ life' = [o \in Object |-> IF o \in dead THEN "free" ELSE life[o]]
      /\ timers' = Keep(timers, left)
      /\ deferred' = Keep(deferred, left)
      /\ inactive' = Keep(inactive, left)
      /\ wakeups' = Keep(wakeups, left)
      /\ rem' = [t \in Timer |-> IF t \in dead THEN 0 ELSE rem[t]]
      /\ msecs' = [t \in Timer |-> IF t \in dead THEN 0 ELSE msecs[t]]
      /\ off' = [d \in Deferred |-> d \notin dead /\ off[d]]
      /\ forced' = [w \in Wakeup |-> IF w \in dead THEN Nil ELSE forced[w]]
      /\ UNCHANGED <<nextTimer, owner>>

M_Iterate ==
  /\ phase = "io" /\ cur = Nil
  /\ IF quit THEN UNCHANGED <<life, timerVars, deferredVars, wakeupVars>>
             ELSE Purge
  /\ phase' = IF quit THEN "stopped" ELSE "poll"
  /\ timeout' = IF quit THEN 0 ELSE PollTimeout
  /\ event' = FALSE
  /\ UNCHANGED <<nxt, lag, cur, slept, quit, historyVars>>

(* What is purged is never ml->next_timer: see NextTimerExpiresFirst.      *)
Iterate ==
  /\ phase = "io" /\ cur = Nil
  /\ Purge
  /\ phase' = IF quit THEN "stopped" ELSE "poll"
  /\ timeout' = IF quit THEN 0 ELSE PollTimeout
  /\ event' = FALSE
  /\ UNCHANGED <<nxt, lag, cur, slept, quit, historyVars>>

PollReturns(io) ==
  /\ phase = "poll"
  /\ event' = io
  /\ slept' = 0
  /\ StartWakeups
  /\ UNCHANGED <<life, timerVars, deferredVars, wakeupVars, lag, cur,
                 timeout, quit, historyVars>>

(* An I/O event, a signal, or EINTR, which leaves nothing to dispatch.     *)
Woken == \E io \in BOOLEAN : PollReturns(io)

TimedOut == slept = timeout /\ PollReturns(FALSE)

(* A tick of the clock, in the poll only while it has not timed out.       *)
Tick ==
  /\ phase = "poll" => timeout = -1 \/ slept < timeout
  /\ phase = "timers" => lag < MaxLag
  /\ phase # "stopped"
  /\ rem' = [t \in Timer |-> IF life[t] # "live" THEN rem[t]
                             ELSE IF rem[t] = Overdue THEN Overdue
                             ELSE rem[t] - 1]
  /\ lag' = IF phase = "timers" THEN lag + 1 ELSE 0
  /\ slept' = IF phase = "poll" /\ timeout # -1 THEN slept + 1 ELSE 0
  /\ UNCHANGED <<life, timers, nextTimer, msecs, owner, deferredVars,
                 wakeupVars, phase, nxt, cur, timeout, event, quit,
                 historyVars>>

-----------------------------------------------------------------------------
(* The program sets up its timers and callbacks before it runs the loop,   *)
(* which is as if the first iteration began in its I/O callback.           *)
Init ==
  /\ life = [o \in Object |-> "free"]
  /\ timers = <<>> /\ nextTimer = Nil
  /\ rem = [t \in Timer |-> 0] /\ msecs = [t \in Timer |-> 0]
  /\ owner = [t \in Timer |-> Nil]
  /\ deferred = <<>> /\ inactive = <<>>
  /\ off = [d \in Deferred |-> FALSE]
  /\ wakeups = <<>> /\ forced = [w \in Wakeup |-> Nil]
  /\ phase = "io" /\ cur = Io /\ nxt = Nil /\ lag = 0
  /\ timeout = 0 /\ slept = 0 /\ event = FALSE
  /\ quit = FALSE
  /\ due = {} /\ ran = [d \in Deferred |-> 0]

Return == WakeupReturns \/ DeferredReturns \/ TimerReturns \/ IoReturns

Dispatch ==
  \/ SkipWakeup \/ CallWakeup \/ WakeupsDone
  \/ SkipDeferred \/ CallDeferred \/ DeferredDone
  \/ SkipTimer \/ CallTimer \/ HoldBackForced \/ TimersDone
  \/ CallIo \/ Iterate

Next == Call \/ Return \/ Dispatch \/ Woken \/ TimedOut \/ Tick

(* Callbacks return, the loop does not stop between them, epoll_wait() does *)
(* not sleep past its timeout, and time passes.                            *)
Fairness ==
  /\ WF_vars(Return) /\ WF_vars(Dispatch) /\ WF_vars(TimedOut)
  /\ WF_vars(Tick)

Spec == Init /\ [][Next]_vars /\ Fairness

-----------------------------------------------------------------------------

(* The types of the variables, and that every object that is not freed is  *)
(* in one list, once.                                                      *)
TypeOK ==
  /\ life \in [Object -> {"free", "live", "deleted"}]
  /\ timers \in Seq(Timer) /\ nextTimer \in Timer \cup {Nil}
  /\ rem \in [Timer -> Int] /\ \A t \in Timer : rem[t] >= Overdue
  /\ msecs \in [Timer -> Intervals \cup {0}]
  /\ owner \in [Timer -> Wakeup \cup {Nil}]
  /\ deferred \in Seq(Deferred) /\ inactive \in Seq(Deferred)
  /\ off \in [Deferred -> BOOLEAN]
  /\ wakeups \in Seq(Wakeup) /\ forced \in [Wakeup -> Timer \cup {Nil}]
  /\ phase \in {"wakeups", "deferred", "timers", "io", "poll", "stopped"}
  /\ cur \in Object \cup {Io, Nil} /\ nxt \in Object \cup {Nil}
  /\ lag \in 0 .. MaxLag
  /\ timeout \in Nat \cup {-1} /\ slept \in Nat
  /\ event \in BOOLEAN /\ quit \in BOOLEAN
  /\ due \subseteq Deferred /\ ran \in [Deferred -> 0 .. 2]
  /\ IsInjective(timers) /\ IsInjective(wakeups)
  /\ IsInjective(deferred) /\ IsInjective(inactive)
  /\ Range(deferred) \cap Range(inactive) = {}
  /\ Range(timers) = {t \in Timer : life[t] # "free"}
  /\ Range(deferred) \cup Range(inactive) = {d \in Deferred : life[d] # "free"}
  /\ Range(wakeups) = {w \in Wakeup : life[w] # "free"}

(* ml->next_timer is the live timer that expires first, whatever callbacks *)
(* added, restarted or deleted (mainloop.c:655-721, 735-793).              *)
NextTimerExpiresFirst ==
  IF LiveTimers = {} THEN nextTimer = Nil
  ELSE nextTimer \in LiveTimers /\ \A t \in LiveTimers : rem[nextTimer] <= rem[t]

(* A poll that blocks leaves no deferred callback waiting and ends before  *)
(* any timer is late (iot_mainloop_prepare()): callbacks left no other     *)
(* timer in ml->next_timer than the one that expires first.                *)
NeverOversleeps ==
  /\ NextTimerExpiresFirst
  /\ phase = "poll" /\ timeout # 0 =>
       /\ \A d \in Deferred : ~Active(d)
       /\ \A t \in Timer : Live(t) => rem[t] >= 0

(* The walk goes on in the list it walks and not in freed memory, although *)
(* callbacks delete, move and park elements (the notes in iot_del_timer()  *)
(* and iot_del_deferred() say why they only mark them).                    *)
CursorValid ==
  /\ nxt # Nil => CASE phase = "wakeups" -> nxt \in Range(wakeups)
                    [] phase = "deferred" -> nxt \in Range(deferred)
                    [] phase = "timers" -> nxt \in Range(timers)
                    [] OTHER -> FALSE
  /\ cur \in Object => life[cur] # "free"

(* Each active deferred callback is called exactly once per iteration      *)
(* (mainloop.h:349-350): never twice in a pass, and not left out when it   *)
(* was active all through the pass; the walk stays in its list.            *)
ExactlyOnce ==
  /\ CursorValid
  /\ phase = "deferred" =>
       \A d \in Deferred :
         /\ ran[d] <= 1
         /\ PassOver /\ ~quit /\ d \in due => ran[d] = 1

(* The user data of a timer that can still expire is not freed:            *)
(* forced_wakeup_cb() looks at the wakeup its timer belongs to.            *)
UserDataLive ==
  \A t \in Timer : Live(t) /\ owner[t] # Nil => life[owner[t]] # "free"

(* A timer that expires is called, or restarted or deleted before it is.   *)
TimersServed ==
  \A t \in Timer :
    Live(t) /\ rem[t] <= 0 ~> ~Live(t) \/ rem[t] > 0 \/ phase = "stopped"

(* What was deleted is freed, so its memory is not kept by a loop that is  *)
(* busy with callbacks.                                                    *)
DeletedFreed ==
  \A o \in Object : life[o] = "deleted" ~> life[o] = "free"
=============================================================================
