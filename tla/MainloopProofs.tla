--------------------------- MODULE MainloopProofs ---------------------------
(***************************************************************************)
(* What is proved of the mainloop, for any number of timers, deferred      *)
(* callbacks and wakeups and any intervals: that no poll sleeps past a     *)
(* timer or a deferred callback, and that each pass stays in its list and  *)
(* calls each active deferred callback once.                               *)
(*                                                                         *)
(* LoopInv is inductive.  It adds to TypeOK the order of the live timers   *)
(* in their list, where the loop may be while a callback runs, that what   *)
(* is parked is disabled, and what a poll leaves of every timer's time.    *)
(* PassInv, for programs that do not enable deferred callbacks in a        *)
(* deferred pass, says which of them the pass has not come to yet.         *)
(***************************************************************************)
EXTENDS Mainloop, SeqFacts

(* The list of timers is in the order of expiry, but for deleted ones.     *)
Sorted ==
  \A a, b \in LiveTimers : Before(timers, a, b) => rem[a] <= rem[b]

(* Where the loop is while a callback runs or a list is walked.            *)
Places ==
  /\ cur # Nil =>
       \/ phase = "wakeups" /\ cur \in Wakeup
       \/ phase = "deferred" /\ cur \in Range(deferred)
       \/ phase = "timers" /\ cur \in Timer
       \/ phase = "io" /\ cur = Io
  /\ nxt # Nil => phase \in {"wakeups", "deferred", "timers"} /\ nxt # cur

Parked == \A d \in Range(inactive) : off[d]

(* What the poll may sleep is not more than any timer has left.            *)
PollSleeps ==
  /\ phase # "poll" => slept = 0
  /\ phase = "poll" /\ timeout # 0 => \A d \in Deferred : ~Active(d)
  /\ phase = "poll" /\ timeout # -1 => slept <= timeout
  /\ phase = "poll" /\ timeout = -1 => LiveTimers = {}
  /\ phase = "poll" /\ timeout > 0 => \A t \in LiveTimers : rem[t] >= timeout - slept

(* The timer of a forced interval is not given back.                       *)
Owned == \A t \in Timer : owner[t] # Nil => Live(t)

LoopInv ==
  /\ TypeOK /\ Sorted /\ NextTimerExpiresFirst /\ Places /\ CursorValid
  /\ Parked /\ PollSleeps /\ Owned

-----------------------------------------------------------------------------
(* Elements of lists.                                                      *)

(* What follows o in its list is behind it, and nothing is in between.     *)
LEMMA AfterFacts ==
  ASSUME NEW S, NEW s \in Seq(S), IsInjective(s), NEW o \in Range(s), Nil \notin S
  PROVE  /\ After(s, o) \in S \cup {Nil}
         /\ After(s, o) # Nil => After(s, o) \in Range(s) /\ Before(s, o, After(s, o))
         /\ \A x : Before(s, o, x) => After(s, o) # Nil /\ (x = After(s, o) \/ Before(s, After(s, o), x))
BY FollowerFacts DEF After

(* A walk starts at the element that is before all others.                 *)
LEMMA HeadFacts ==
  ASSUME NEW S, NEW s \in Seq(S), Nil \notin S
  PROVE  /\ Head1(s) \in S \cup {Nil}
         /\ Head1(s) = Nil <=> Range(s) = {}
         /\ Head1(s) # Nil => Head1(s) \in Range(s)
         /\ \A x \in Range(s) : x = Head1(s) \/ Before(s, Head1(s), x)
BY FirstFacts DEF Head1

(* find_next_timer() finds the first timer of the list that is alive.      *)
LEMMA FindFacts ==
  ASSUME NEW s \in Seq(Timer), NEW alive
  PROVE  LET t == FindNextTimer(s, alive)
         IN  /\ Range(s) \cap alive = {} => t = Nil
             /\ Range(s) \cap alive # {} =>
                  /\ t \in Range(s) \cap alive
                  /\ \A x \in Range(s) \cap alive : x = t \/ Before(s, t, x)
<1> DEFINE I == {i \in 1 .. Len(s) : s[i] \in alive}
<1>1. Len(s) \in Nat /\ DOMAIN s = 1 .. Len(s)
  BY LenProperties
<1>2. FindNextTimer(s, alive) = IF I # {} THEN s[Min(I)] ELSE Nil
  <2>1. I # {} => Min(I) \in I
    <3>1. I \in SUBSET Nat
      OBVIOUS
    <3> HIDE DEF I
    <3>. QED BY <3>1, MinInSet
  <2>2. SelectInSeq(s, LAMBDA t : t \in alive) = IF I # {} THEN Min(I) ELSE 0
    BY DEF SelectInSeq
  <2> HIDE DEF I
  <2>3. \A i \in I : i # 0
    BY DEF I
  <2>. QED BY <2>1, <2>2, <2>3 DEF FindNextTimer
<1>3. CASE I = {}
  <2>1. Range(s) \cap alive = {}
    BY <1>1, <1>3 DEF Range
  <2>. QED BY <1>2, <1>3, <2>1
<1>4. CASE I # {}
  <2> DEFINE k == Min(I)
  <2>1. k \in I /\ \A i \in I : k <= i
    <3>1. I \in SUBSET Nat
      OBVIOUS
    <3> HIDE DEF I
    <3>. QED BY <1>4, <3>1, MinInSet
  <2> HIDE DEF k
  <2>2. k \in 1 .. Len(s) /\ s[k] \in Range(s) \cap alive
    BY <1>1, <2>1 DEF Range
  <2>3. ASSUME NEW x \in Range(s) \cap alive PROVE x = s[k] \/ Before(s, s[k], x)
    <3>1. PICK i \in 1 .. Len(s) : s[i] = x
      BY <1>1 DEF Range
    <3>2. k = i \/ k < i
      BY <1>1, <2>1, <2>2, <3>1
    <3>. QED BY <1>1, <2>2, <3>1, <3>2 DEF Before
  <2>. QED BY <1>2, <1>4, <2>2, <2>3 DEF k
<1>. QED BY <1>3, <1>4

-----------------------------------------------------------------------------
(* The list of timers.                                                     *)

(* What insert_timer() leaves: the list in order, ml->next_timer right.    *)
TimersIn(list, t, r) ==
  /\ timers' \in Seq(Timer) /\ IsInjective(timers') /\ Range(timers') = Range(list) \cup {t}
  /\ rem' = [rem EXCEPT ![t] = r]
  /\ nextTimer' \in Timer
  /\ Sorted' /\ NextTimerExpiresFirst'

(* insert_timer() puts a timer where the live timers stay in order of      *)
(* expiry.                                                                 *)
LEMMA InsertFacts ==
  ASSUME NEW list \in Seq(Timer), IsInjective(list), NEW t \in Timer \ Range(list),
         NEW r \in Int, rem \in [Timer -> Int],
         \A a, b \in LiveTimers : Before(list, a, b) => rem[a] <= rem[b],
         LiveTimers \ {t} \subseteq Range(list),
         InsertTimer(list, t, r), LiveTimers' = LiveTimers \cup {t}
  PROVE  TimersIn(list, t, r)
<1> DEFINE n == Len(list)
           later == {i \in DOMAIN list : Live(list[i]) /\ r <= rem[list[i]]}
           place == IF later = {} THEN n + 1 ELSE Min(later)
           first == FindNextTimer(list, LiveTimers)
<1>1. n \in Nat /\ DOMAIN list = 1 .. n /\ \A i \in 1 .. n : list[i] \in Timer /\ list[i] # t
  BY LenProperties, ElementOfSeq DEF Range
<1>2. /\ timers' = InsertAt(list, place, t) /\ rem' = [rem EXCEPT ![t] = r]
      /\ nextTimer' = IF first # Nil /\ rem[first] < r THEN first ELSE t
  BY DEF InsertTimer
<1>3. \A x \in Timer : x \in LiveTimers <=> Live(x)
  BY DEF LiveTimers
<1>4. /\ place \in 1 .. n + 1
      /\ \A i \in 1 .. place - 1 : list[i] \in LiveTimers => rem[list[i]] < r
      /\ \A i \in place .. n : list[i] \in LiveTimers => r <= rem[list[i]]
  <2>1. CASE later = {}
    <3>1. \A i \in 1 .. n : list[i] \in LiveTimers => rem[list[i]] < r
      <4>1. ASSUME NEW i \in 1 .. n, list[i] \in LiveTimers PROVE rem[list[i]] < r
        <5>1. ~(Live(list[i]) /\ r <= rem[list[i]])
          BY <1>1, <2>1
        <5>2. Live(list[i]) /\ rem[list[i]] \in Int
          BY <1>1, <1>3, <4>1
        <5>. QED BY <5>1, <5>2
      <4>. QED BY <4>1
    <3>. QED BY <1>1, <2>1, <3>1
  <2>2. CASE later # {}
    <3>1. later \in SUBSET Nat
      BY <1>1
    <3>2. place \in later /\ \A i \in later : place <= i
      <4> HIDE DEF later
      <4>. QED BY <2>2, <3>1, MinInSet
    <3> HIDE DEF place
    <3>3. place \in 1 .. n /\ Live(list[place]) /\ r <= rem[list[place]]
      BY <1>1, <3>2
    <3>4. ASSUME NEW i \in 1 .. place - 1, list[i] \in LiveTimers PROVE rem[list[i]] < r
      <4>1. i \in 1 .. n /\ i \notin later
        BY <1>1, <3>2, <3>3
      <4>. QED BY <1>1, <1>3, <3>4, <4>1
    <3>5. ASSUME NEW i \in place .. n, list[i] \in LiveTimers PROVE r <= rem[list[i]]
      <4>1. CASE i = place
        BY <3>3, <4>1
      <4>2. CASE i # place
        <5>1. Before(list, list[place], list[i]) /\ i \in 1 .. n
          BY <1>1, <3>3, <4>2 DEF Before
        <5>2. list[place] \in LiveTimers
          BY <1>1, <1>3, <3>3
        <5>. QED BY <1>1, <3>3, <3>5, <5>1, <5>2
      <4>. QED BY <4>1, <4>2
    <3>. QED BY <1>1, <3>3, <3>4, <3>5
  <2>. QED BY <2>1, <2>2
<1> HIDE DEF later, place
<1>5. /\ timers' \in Seq(Timer) /\ Range(timers') = Range(list) \cup {t} /\ IsInjective(timers')
      /\ \A a, b : Before(timers', a, b) =>
           \/ Before(list, a, b)
           \/ b = t /\ \E i \in 1 .. place - 1 : list[i] = a
           \/ a = t /\ \E i \in place .. n : list[i] = b
  BY <1>2, <1>4, InsertAtFacts
<1>6. rem'[t] = r /\ \A x \in Timer : x # t => rem'[x] = rem[x]
  BY <1>2
<1>7. Sorted'
  <2> SUFFICES ASSUME NEW a \in LiveTimers', NEW b \in LiveTimers', Before(timers', a, b)
               PROVE  rem'[a] <= rem'[b]
    BY DEF Sorted
  <2>1. CASE Before(list, a, b)
    <3>1. a \in Range(list) /\ b \in Range(list)
      BY <2>1, BeforeOrder
    <3>2. a # t /\ b # t
      BY <3>1
    <3>. QED BY <1>6, <2>1, <3>2 DEF LiveTimers
  <2>2. CASE b = t /\ \E i \in 1 .. place - 1 : list[i] = a
    <3>1. PICK i \in 1 .. place - 1 : list[i] = a
      BY <2>2
    <3>2. a # t /\ a \in LiveTimers /\ a \in Timer
      BY <1>1, <1>4, <3>1
    <3>. QED BY <1>4, <1>6, <2>2, <3>1, <3>2
  <2>3. CASE a = t /\ \E i \in place .. n : list[i] = b
    <3>1. PICK i \in place .. n : list[i] = b
      BY <2>3
    <3>2. b # t /\ b \in LiveTimers /\ b \in Timer
      BY <1>1, <1>4, <3>1
    <3>. QED BY <1>4, <1>6, <2>3, <3>1, <3>2
  <2>. QED BY <1>5, <2>1, <2>2, <2>3
<1>8. /\ Range(list) \cap LiveTimers = LiveTimers \ {t}
      /\ LiveTimers \ {t} = {} => first = Nil
      /\ LiveTimers \ {t} # {} =>
           /\ first \in LiveTimers \ {t}
           /\ \A x \in LiveTimers \ {t} : x = first \/ Before(list, first, x)
  <2>1. Range(list) \cap LiveTimers = LiveTimers \ {t}
    OBVIOUS
  <2> HIDE DEF first
  <2>. QED BY <2>1, FindFacts DEF first
<1> HIDE DEF first
<1>9. nextTimer' \in Timer /\ NextTimerExpiresFirst'
  <2>1. CASE LiveTimers \ {t} = {}
    <3>1. nextTimer' = t /\ LiveTimers' = {t}
      BY <1>2, <1>8, <2>1
    <3>. QED BY <1>6, <3>1 DEF NextTimerExpiresFirst
  <2>2. CASE LiveTimers \ {t} # {}
    <3>1. first \in Timer /\ first # t /\ first # Nil
      BY <1>8, <2>2, MainloopAssumption DEF LiveTimers
    <3>2. \A x \in LiveTimers \ {t} : rem[first] <= rem[x] /\ x \in Timer
      BY <1>8, <2>2 DEF LiveTimers
    <3>3. nextTimer' = (IF rem[first] < r THEN first ELSE t)
      BY <1>2, <3>1
    <3>4. nextTimer' \in LiveTimers' /\ \A x \in LiveTimers' : rem'[nextTimer'] <= rem'[x]
      BY <1>6, <1>8, <2>2, <3>1, <3>2, <3>3
    <3>. QED BY <3>1, <3>3, <3>4 DEF NextTimerExpiresFirst
  <2>. QED BY <2>1, <2>2
<1>. QED BY <1>2, <1>5, <1>7, <1>9 DEF TimersIn

(* rearm_timer() moves a live timer within the list.                       *)
LEMMA RearmFacts ==
  ASSUME TypeOK, Sorted, NEW t \in LiveTimers, NEW r \in Int,
         RearmTimer(t, r), life' = life
  PROVE  TimersIn(timers, t, r) /\ Range(timers') = Range(timers) /\ nextTimer' \in Timer
<1> DEFINE list == RemoveFirst(timers, t)
<1>1. t \in Timer /\ t \in Range(timers) /\ timers \in Seq(Timer) /\ IsInjective(timers)
  BY DEF TypeOK, LiveTimers, Live
<1>2. /\ list \in Seq(Timer) /\ IsInjective(list) /\ Range(list) = Range(timers) \ {t}
      /\ \A a, b : Before(list, a, b) => Before(timers, a, b)
  BY <1>1, RemoveFirstFacts, RemoveFirstBefore
<1>3. LiveTimers' = LiveTimers \cup {t}
  BY DEF LiveTimers, Live
<1>4. LiveTimers \subseteq Range(timers) /\ rem \in [Timer -> Int]
  BY DEF TypeOK, LiveTimers, Live
<1>5. \A a, b \in LiveTimers : Before(list, a, b) => rem[a] <= rem[b]
  BY <1>2 DEF Sorted
<1>6. InsertTimer(list, t, r)
  BY DEF RearmTimer
<1> HIDE DEF list
<1>7. TimersIn(list, t, r)
  BY <1>1, <1>2, <1>3, <1>4, <1>5, <1>6, InsertFacts
<1>. QED BY <1>1, <1>2, <1>7 DEF TimersIn

(* A new timer.                                                            *)
LEMMA AddFacts ==
  ASSUME TypeOK, Sorted, NEW t \in Timer, life[t] = "free", NEW r \in Int,
         InsertTimer(timers, t, r), LiveTimers' = LiveTimers \cup {t}
  PROVE  TimersIn(timers, t, r)
<1>1. timers \in Seq(Timer) /\ IsInjective(timers) /\ t \notin Range(timers) /\ rem \in [Timer -> Int]
  BY DEF TypeOK
<1>2. LiveTimers \subseteq Range(timers)
  BY DEF TypeOK, LiveTimers, Live
<1>. QED BY <1>1, <1>2, InsertFacts DEF Sorted

(* Steps that leave the timers alone.                                      *)
LEMMA TimersSame ==
  ASSUME Sorted, NextTimerExpiresFirst, UNCHANGED <<timers, nextTimer, rem>>,
         LiveTimers' = LiveTimers
  PROVE  Sorted' /\ NextTimerExpiresFirst'
BY DEF Sorted, NextTimerExpiresFirst

(* Callbacks do not run during a poll.                                     *)
LEMMA PollSame ==
  ASSUME PollSleeps, phase # "poll", phase' # "poll", slept' = slept
  PROVE  PollSleeps'
BY DEF PollSleeps

-----------------------------------------------------------------------------
(* The calls of the API, which callbacks make.                             *)

(* What is assumed of the constants, as the steps need it.                 *)
LEMMA Constants ==
  /\ MaxLag \in Nat /\ Overdue \in Int /\ Overdue < 0
  /\ \A m \in Intervals : m \in Nat /\ m > 0 /\ m \in Int
  /\ Nil \notin Object /\ Io \notin Object /\ Io # Nil
  /\ Timer \subseteq Object /\ Deferred \subseteq Object /\ Wakeup \subseteq Object
  /\ Timer \cap Deferred = {} /\ Timer \cap Wakeup = {} /\ Deferred \cap Wakeup = {}
BY MainloopAssumption DEF Overdue, Object

(* No call moves the loop or takes an element out of memory.               *)
LEMMA CallKeeps ==
  ASSUME LoopInv, cur # Nil, UNCHANGED <<phase, cur, nxt, slept>>,
         \A o \in Object : life[o] # "free" => life'[o] # "free",
         Range(timers) \subseteq Range(timers'), Range(deferred) \subseteq Range(deferred'),
         Range(wakeups) \subseteq Range(wakeups')
  PROVE  Places' /\ CursorValid' /\ PollSleeps'
<1>1. phase # "poll"
  BY DEF LoopInv, Places
<1>2. PollSleeps'
  BY <1>1 DEF LoopInv, PollSleeps
<1>3. Places' /\ CursorValid'
  BY DEF LoopInv, Places, CursorValid
<1>. QED BY <1>2, <1>3

(* A step of which the timers are no part leaves them as they are.         *)
LEMMA TimersUntouched ==
  ASSUME LoopInv, UNCHANGED timerVars,
         \A t \in Timer : life'[t] = life[t]
  PROVE  Sorted' /\ NextTimerExpiresFirst' /\ Owned' /\ LiveTimers' = LiveTimers
<1>1. LiveTimers' = LiveTimers
  BY DEF LiveTimers, Live
<1>2. Owned'
  BY DEF LoopInv, Owned, Live, timerVars
<1>. QED BY <1>1, <1>2, TimersSame DEF LoopInv, timerVars

(* iot_add_timer() keeps LoopInv.                                          *)
LEMMA AddTimerOK ==
  ASSUME LoopInv, NEW t \in Timer, NEW m \in Intervals, AddTimer(t, m)
  PROVE  LoopInv'
<1> USE Constants
<1>1. /\ cur # Nil /\ life[t] = "free" /\ life' = [life EXCEPT ![t] = "live"]
      /\ msecs' = [msecs EXCEPT ![t] = m] /\ InsertTimer(timers, t, m)
      /\ UNCHANGED <<owner, deferredVars, wakeupVars, passVars, cur, pollVars, quit, historyVars>>
  BY DEF AddTimer, InCallback
<1> USE DEF deferredVars, wakeupVars, passVars, pollVars, historyVars
<1>2. TypeOK
  BY DEF LoopInv
<1>3. LiveTimers' = LiveTimers \cup {t}
  BY <1>1, <1>2 DEF LiveTimers, Live, TypeOK
<1>4. TimersIn(timers, t, m)
  BY <1>1, <1>2, <1>3, AddFacts DEF LoopInv
<1>5. /\ life' \in [Object -> {"free", "live", "deleted"}]
      /\ \A o \in Object : life[o] # "free" => life'[o] # "free"
      /\ \A o \in Object : o # t => life'[o] = life[o]
      /\ life'[t] = "live"
  BY <1>1, <1>2 DEF TypeOK
<1>6. TypeOK'
  <2>1. /\ timers' \in Seq(Timer) /\ nextTimer' \in Timer \cup {Nil} /\ IsInjective(timers')
        /\ rem' \in [Timer -> Int] /\ \A x \in Timer : rem'[x] >= Overdue
    BY <1>2, <1>4 DEF TypeOK, TimersIn
  <2>2. msecs' \in [Timer -> Intervals \cup {0}]
    BY <1>1, <1>2 DEF TypeOK
  <2>3. /\ Range(timers') = {x \in Timer : life'[x] # "free"}
        /\ Range(deferred') \cup Range(inactive') = {d \in Deferred : life'[d] # "free"}
        /\ Range(wakeups') = {w \in Wakeup : life'[w] # "free"}
    BY <1>1, <1>2, <1>4, <1>5 DEF TypeOK, TimersIn
  <2>. QED BY <1>1, <1>2, <1>5, <2>1, <2>2, <2>3 DEF TypeOK
<1>7. Places' /\ CursorValid' /\ PollSleeps'
  BY <1>1, <1>4, <1>5, CallKeeps DEF TimersIn
<1>8. Parked' /\ Owned'
  BY <1>1, <1>5 DEF LoopInv, Parked, Owned, Live
<1>. QED BY <1>4, <1>6, <1>7, <1>8 DEF LoopInv, TimersIn

(* iot_mod_timer() keeps LoopInv.                                          *)
LEMMA ModTimerOK ==
  ASSUME LoopInv, NEW t \in Timer, NEW m \in Intervals, ModTimer(t, m)
  PROVE  LoopInv'
<1> USE Constants
<1>1. /\ cur # Nil /\ t \in LiveTimers /\ life' = life
      /\ msecs' = [msecs EXCEPT ![t] = m] /\ RearmTimer(t, m)
      /\ UNCHANGED <<owner, deferredVars, wakeupVars, passVars, cur, pollVars, quit, historyVars>>
  BY DEF ModTimer, InCallback, LiveTimers
<1> USE DEF deferredVars, wakeupVars, passVars, pollVars, historyVars
<1>2. TypeOK
  BY DEF LoopInv
<1>4. TimersIn(timers, t, m) /\ Range(timers') = Range(timers)
  BY <1>1, <1>2, RearmFacts DEF LoopInv
<1>6. TypeOK'
  <2>1. /\ timers' \in Seq(Timer) /\ nextTimer' \in Timer \cup {Nil} /\ IsInjective(timers')
        /\ rem' \in [Timer -> Int] /\ \A x \in Timer : rem'[x] >= Overdue
    BY <1>2, <1>4 DEF TypeOK, TimersIn
  <2>2. msecs' \in [Timer -> Intervals \cup {0}]
    BY <1>1, <1>2 DEF TypeOK
  <2>. QED BY <1>1, <1>2, <1>4, <2>1, <2>2 DEF TypeOK
<1>7. Places' /\ CursorValid' /\ PollSleeps'
  BY <1>1, <1>4, CallKeeps
<1>8. Parked' /\ Owned'
  BY <1>1 DEF LoopInv, Parked, Owned, Live
<1>. QED BY <1>4, <1>6, <1>7, <1>8 DEF LoopInv, TimersIn

(* iot_del_timer(), which may have to find another ml->next_timer keeps LoopInv. *)
LEMMA DelTimerOK ==
  ASSUME LoopInv, NEW t \in Timer, DelTimer(t)
  PROVE  LoopInv'
<1> USE Constants
<1>1. /\ cur # Nil /\ t \in LiveTimers /\ owner[t] = Nil /\ life' = [life EXCEPT ![t] = "deleted"]
      /\ nextTimer' = (IF nextTimer = t THEN FindNextTimer(timers, LiveTimers \ {t}) ELSE nextTimer)
      /\ UNCHANGED <<timers, rem, msecs, owner, deferredVars, wakeupVars, passVars, cur, pollVars,
                     quit, historyVars>>
  BY DEF DelTimer, InCallback, LiveTimers, Users
<1> USE DEF deferredVars, wakeupVars, passVars, pollVars, historyVars
<1>2. TypeOK
  BY DEF LoopInv
<1>3. LiveTimers' = LiveTimers \ {t} /\ LiveTimers \subseteq Range(timers)
  BY <1>1, <1>2 DEF LiveTimers, Live, TypeOK
<1>4. Sorted'
  BY <1>1, <1>3 DEF LoopInv, Sorted
<1>5. nextTimer' \in Timer \cup {Nil} /\ NextTimerExpiresFirst'
  <2>1. nextTimer \in LiveTimers /\ \A x \in LiveTimers : rem[nextTimer] <= rem[x]
    BY <1>1 DEF LoopInv, NextTimerExpiresFirst
  <2>2. CASE nextTimer # t
    BY <1>1, <1>3, <2>1, <2>2 DEF NextTimerExpiresFirst, LiveTimers
  <2>3. CASE nextTimer = t
    <3> DEFINE f == FindNextTimer(timers, LiveTimers \ {t})
    <3>1. /\ LiveTimers' = {} => f = Nil
          /\ LiveTimers' # {} => /\ f \in LiveTimers'
                                 /\ \A x \in LiveTimers' : x = f \/ Before(timers, f, x)
      <4>1. Range(timers) \cap (LiveTimers \ {t}) = LiveTimers' /\ timers \in Seq(Timer)
        BY <1>2, <1>3 DEF TypeOK
      <4> HIDE DEF f
      <4>. QED BY <4>1, FindFacts DEF f
    <3> HIDE DEF f
    <3>2. nextTimer' = f
      BY <1>1, <2>3 DEF f
    <3>3. \A x \in LiveTimers' : x \in Timer /\ x \in LiveTimers /\ rem[x] \in Int
      BY <1>2, <1>3 DEF LiveTimers, TypeOK
    <3>4. LiveTimers' # {} => \A x \in LiveTimers' : rem[f] <= rem[x]
      BY <3>1, <3>3 DEF LoopInv, Sorted
    <3>. QED BY <1>1, <3>1, <3>2, <3>3, <3>4 DEF NextTimerExpiresFirst
  <2>. QED BY <2>2, <2>3
<1>6. /\ life' \in [Object -> {"free", "live", "deleted"}]
      /\ \A o \in Object : life[o] # "free" <=> life'[o] # "free"
      /\ \A o \in Object : o # t => life'[o] = life[o]
  BY <1>1, <1>2 DEF TypeOK, LiveTimers, Live
<1>7. TypeOK'
  BY <1>1, <1>2, <1>5, <1>6 DEF TypeOK
<1>8. Places' /\ CursorValid' /\ PollSleeps'
  BY <1>1, <1>6, CallKeeps
<1>9. Parked' /\ Owned'
  BY <1>1, <1>6 DEF LoopInv, Parked, Owned, Live
<1>. QED BY <1>4, <1>5, <1>7, <1>8, <1>9 DEF LoopInv

(* iot_add_deferred() keeps LoopInv.                                       *)
LEMMA AddDeferredOK ==
  ASSUME LoopInv, NEW d \in Deferred, AddDeferred(d)
  PROVE  LoopInv'
<1> USE Constants
<1>1. /\ cur # Nil /\ life[d] = "free" /\ life' = [life EXCEPT ![d] = "live"]
      /\ off' = [off EXCEPT ![d] = FALSE] /\ deferred' = Append(deferred, d)
      /\ UNCHANGED <<timerVars, inactive, wakeupVars, passVars, cur, pollVars, quit, historyVars>>
  BY DEF AddDeferred, InCallback
<1>2. TypeOK
  BY DEF LoopInv
<1>3. /\ life' \in [Object -> {"free", "live", "deleted"}]
      /\ \A o \in Object : life[o] # "free" => life'[o] # "free"
      /\ \A o \in Object : o # d => life'[o] = life[o]
      /\ life'[d] = "live"
  BY <1>1, <1>2 DEF TypeOK
<1>4. /\ d \notin Range(deferred) /\ d \notin Range(inactive)
      /\ deferred' \in Seq(Deferred) /\ IsInjective(deferred')
      /\ Range(deferred') = Range(deferred) \cup {d}
  <2>1. d \notin Range(deferred) /\ d \notin Range(inactive)
    BY <1>1, <1>2 DEF TypeOK
  <2>2. deferred \in Seq(Deferred) /\ IsInjective(deferred)
    BY <1>2 DEF TypeOK
  <2>. QED BY <1>1, <2>1, <2>2, AppendFacts
<1>5. Sorted' /\ NextTimerExpiresFirst' /\ Owned'
  BY <1>1, <1>3, TimersUntouched
<1> USE DEF timerVars, wakeupVars, passVars, pollVars, historyVars
<1>6. TypeOK'
  <2>1. off' \in [Deferred -> BOOLEAN]
    BY <1>1, <1>2 DEF TypeOK
  <2>2. /\ Range(timers') = {x \in Timer : life'[x] # "free"}
        /\ Range(deferred') \cup Range(inactive') = {x \in Deferred : life'[x] # "free"}
        /\ Range(wakeups') = {w \in Wakeup : life'[w] # "free"}
        /\ Range(deferred') \cap Range(inactive') = {}
    BY <1>1, <1>2, <1>3, <1>4 DEF TypeOK
  <2>. QED BY <1>1, <1>2, <1>3, <1>4, <2>1, <2>2 DEF TypeOK
<1>7. Places' /\ CursorValid' /\ PollSleeps'
  BY <1>1, <1>3, <1>4, CallKeeps
<1>8. Parked'
  BY <1>1, <1>2, <1>4 DEF LoopInv, Parked, TypeOK
<1>. QED BY <1>5, <1>6, <1>7, <1>8 DEF LoopInv

(* iot_del_deferred() keeps LoopInv.                                       *)
LEMMA DelDeferredOK ==
  ASSUME LoopInv, NEW d \in Deferred, DelDeferred(d)
  PROVE  LoopInv'
<1> USE Constants
<1>1. /\ cur # Nil /\ life[d] = "live" /\ life' = [life EXCEPT ![d] = "deleted"]
      /\ due' = due \ {d}
      /\ UNCHANGED <<timerVars, deferredVars, wakeupVars, passVars, cur, pollVars, quit, ran>>
  BY DEF DelDeferred, InCallback, Live
<1>2. TypeOK
  BY DEF LoopInv
<1>3. /\ life' \in [Object -> {"free", "live", "deleted"}]
      /\ \A o \in Object : life[o] # "free" <=> life'[o] # "free"
      /\ \A o \in Object : o # d => life'[o] = life[o]
  BY <1>1, <1>2 DEF TypeOK
<1>4. Sorted' /\ NextTimerExpiresFirst' /\ Owned'
  BY <1>1, <1>3, TimersUntouched
<1> USE DEF timerVars, deferredVars, wakeupVars, passVars, pollVars
<1>5. TypeOK'
  BY <1>1, <1>2, <1>3 DEF TypeOK
<1>6. Places' /\ CursorValid' /\ PollSleeps'
  BY <1>1, <1>3, CallKeeps
<1>. QED BY <1>1, <1>4, <1>5, <1>6 DEF LoopInv, Parked

(* iot_disable_deferred() keeps LoopInv.                                   *)
LEMMA DisableDeferredOK ==
  ASSUME LoopInv, NEW d \in Deferred, DisableDeferred(d)
  PROVE  LoopInv'
<1> USE Constants
<1>1. /\ cur # Nil /\ off' = [off EXCEPT ![d] = TRUE] /\ due' = due \ {d}
      /\ UNCHANGED <<life, timerVars, deferred, inactive, wakeupVars, passVars, cur, pollVars,
                     quit, ran>>
  BY DEF DisableDeferred, InCallback
<1>2. Sorted' /\ NextTimerExpiresFirst' /\ Owned'
  BY <1>1, TimersUntouched
<1> USE DEF timerVars, wakeupVars, passVars, pollVars
<1>3. TypeOK'
  BY <1>1 DEF LoopInv, TypeOK
<1>4. Places' /\ CursorValid' /\ PollSleeps'
  BY <1>1, CallKeeps
<1>5. Parked'
  BY <1>1 DEF LoopInv, Parked, TypeOK
<1>. QED BY <1>2, <1>3, <1>4, <1>5 DEF LoopInv

(* iot_enable_deferred(), in whichever list it finds the callback keeps LoopInv. *)
LEMMA EnableDeferredOK ==
  ASSUME LoopInv, NEW d \in Deferred, EnableDeferred(d)
  PROVE  LoopInv'
<1> USE Constants
<1> DEFINE others == RemoveFirst(deferred, d)
<1>1. /\ cur # Nil /\ life[d] = "live" /\ off' = [off EXCEPT ![d] = FALSE]
      /\ inactive' = RemoveFirst(inactive, d) /\ deferred' = Append(others, d)
      /\ UNCHANGED <<life, timerVars, wakeupVars, passVars, cur, pollVars, quit, historyVars>>
  BY DEF EnableDeferred, InCallback, Live
<1>2. TypeOK
  BY DEF LoopInv
<1>3. /\ inactive' \in Seq(Deferred) /\ IsInjective(inactive')
      /\ Range(inactive') = Range(inactive) \ {d}
  <2>1. inactive \in Seq(Deferred) /\ IsInjective(inactive)
    BY <1>2 DEF TypeOK
  <2>. QED BY <1>1, <2>1, RemovedFacts
<1>4. /\ others \in Seq(Deferred) /\ IsInjective(others) /\ Range(others) = Range(deferred) \ {d}
  <2>1. deferred \in Seq(Deferred) /\ IsInjective(deferred)
    BY <1>2 DEF TypeOK
  <2>. QED BY <2>1, RemovedFacts
<1> HIDE DEF others
<1>5. /\ deferred' \in Seq(Deferred) /\ IsInjective(deferred')
      /\ Range(deferred') = Range(deferred) \cup {d}
  <2>1. d \notin Range(others)
    BY <1>4
  <2>2. /\ Append(others, d) \in Seq(Deferred) /\ IsInjective(Append(others, d))
        /\ Range(Append(others, d)) = Range(others) \cup {d}
    BY <1>4, <2>1, AppendFacts
  <2>. QED BY <1>1, <1>4, <2>2
<1>6. Sorted' /\ NextTimerExpiresFirst' /\ Owned'
  BY <1>1, TimersUntouched
<1> USE DEF timerVars, wakeupVars, passVars, pollVars, historyVars
<1>7. TypeOK'
  <2>1. off' \in [Deferred -> BOOLEAN]
    BY <1>1, <1>2 DEF TypeOK
  <2>2. d \in Range(deferred) \cup Range(inactive)
    BY <1>1, <1>2 DEF TypeOK
  <2>3. /\ Range(deferred') \cup Range(inactive') = {x \in Deferred : life'[x] # "free"}
        /\ Range(deferred') \cap Range(inactive') = {}
    BY <1>1, <1>2, <1>3, <1>5, <2>2 DEF TypeOK
  <2>. QED BY <1>1, <1>2, <1>3, <1>5, <2>1, <2>3 DEF TypeOK
<1>8. Places' /\ CursorValid' /\ PollSleeps'
  BY <1>1, <1>5, CallKeeps
<1>9. Parked'
  BY <1>1, <1>2, <1>3 DEF LoopInv, Parked, TypeOK
<1>. QED BY <1>6, <1>7, <1>8, <1>9 DEF LoopInv

(* iot_add_wakeup() without a forced interval keeps LoopInv.               *)
LEMMA AddWakeupOK ==
  ASSUME LoopInv, NEW w \in Wakeup, AddWakeup(w)
  PROVE  LoopInv'
<1> USE Constants
<1>1. /\ cur # Nil /\ life[w] = "free" /\ life' = [life EXCEPT ![w] = "live"]
      /\ wakeups' = Append(wakeups, w) /\ forced' = [forced EXCEPT ![w] = Nil]
      /\ UNCHANGED <<timerVars, deferredVars, passVars, cur, pollVars, quit, historyVars>>
  BY DEF AddWakeup, InCallback
<1>2. TypeOK
  BY DEF LoopInv
<1>3. /\ life' \in [Object -> {"free", "live", "deleted"}]
      /\ \A o \in Object : life[o] # "free" => life'[o] # "free"
      /\ \A o \in Object : o # w => life'[o] = life[o]
      /\ life'[w] = "live"
  BY <1>1, <1>2 DEF TypeOK
<1>4. /\ wakeups' \in Seq(Wakeup) /\ IsInjective(wakeups')
      /\ Range(wakeups') = Range(wakeups) \cup {w}
  <2>1. w \notin Range(wakeups) /\ wakeups \in Seq(Wakeup) /\ IsInjective(wakeups)
    BY <1>1, <1>2 DEF TypeOK
  <2>. QED BY <1>1, <2>1, AppendFacts
<1>5. Sorted' /\ NextTimerExpiresFirst' /\ Owned'
  BY <1>1, <1>3, TimersUntouched
<1> USE DEF timerVars, deferredVars, passVars, pollVars, historyVars
<1>6. TypeOK'
  <2>1. forced' \in [Wakeup -> Timer \cup {Nil}]
    BY <1>1, <1>2 DEF TypeOK
  <2>2. /\ Range(timers') = {x \in Timer : life'[x] # "free"}
        /\ Range(deferred') \cup Range(inactive') = {x \in Deferred : life'[x] # "free"}
        /\ Range(wakeups') = {x \in Wakeup : life'[x] # "free"}
    BY <1>1, <1>2, <1>3, <1>4 DEF TypeOK
  <2>. QED BY <1>1, <1>2, <1>3, <1>4, <2>1, <2>2 DEF TypeOK
<1>7. Places' /\ CursorValid' /\ PollSleeps'
  BY <1>1, <1>3, <1>4, CallKeeps
<1>. QED BY <1>1, <1>5, <1>6, <1>7 DEF LoopInv, Parked

(* iot_add_wakeup() with a forced interval keeps LoopInv.                  *)
LEMMA AddForcedWakeupOK ==
  ASSUME LoopInv, NEW w \in Wakeup, NEW t \in Timer, NEW m \in Intervals,
         AddForcedWakeup(w, t, m)
  PROVE  LoopInv'
<1> USE Constants
<1>1. /\ cur # Nil /\ life[w] = "free" /\ life[t] = "free"
      /\ life' = [life EXCEPT ![w] = "live", ![t] = "live"]
      /\ msecs' = [msecs EXCEPT ![t] = m] /\ owner' = [owner EXCEPT ![t] = w]
      /\ InsertTimer(timers, t, m)
      /\ wakeups' = Append(wakeups, w) /\ forced' = [forced EXCEPT ![w] = t]
      /\ UNCHANGED <<deferredVars, passVars, cur, pollVars, quit, historyVars>>
  BY DEF AddForcedWakeup, InCallback
<1> USE DEF deferredVars, passVars, pollVars, historyVars
<1>2. TypeOK
  BY DEF LoopInv
<1>3. /\ life' \in [Object -> {"free", "live", "deleted"}]
      /\ \A o \in Object : life[o] # "free" => life'[o] # "free"
      /\ \A o \in Object : o # w /\ o # t => life'[o] = life[o]
      /\ life'[w] = "live" /\ life'[t] = "live" /\ w # t
  <2>1. life \in [Object -> {"free", "live", "deleted"}] /\ w \in Object /\ t \in Object /\ w # t
    BY <1>2 DEF TypeOK
  <2>2. life'[w] = "live" /\ life'[t] = "live" /\ \A o \in Object : o # w /\ o # t => life'[o] = life[o]
    BY <1>1, <2>1
  <2>. QED BY <1>1, <2>1, <2>2
<1>4. /\ wakeups' \in Seq(Wakeup) /\ IsInjective(wakeups')
      /\ Range(wakeups') = Range(wakeups) \cup {w}
  <2>1. w \notin Range(wakeups) /\ wakeups \in Seq(Wakeup) /\ IsInjective(wakeups)
    BY <1>1, <1>2 DEF TypeOK
  <2>. QED BY <1>1, <2>1, AppendFacts
<1>5. TimersIn(timers, t, m)
  <2>1. LiveTimers' = LiveTimers \cup {t}
    BY <1>1, <1>3 DEF LiveTimers, Live
  <2>. QED BY <1>1, <1>2, <2>1, AddFacts DEF LoopInv
<1>6. TypeOK'
  <2>1. /\ timers' \in Seq(Timer) /\ nextTimer' \in Timer \cup {Nil} /\ IsInjective(timers')
        /\ rem' \in [Timer -> Int] /\ \A x \in Timer : rem'[x] >= Overdue
    BY <1>2, <1>5 DEF TypeOK, TimersIn
  <2>2. /\ msecs' \in [Timer -> Intervals \cup {0}] /\ owner' \in [Timer -> Wakeup \cup {Nil}]
        /\ forced' \in [Wakeup -> Timer \cup {Nil}]
    BY <1>1, <1>2 DEF TypeOK
  <2>3. /\ Range(timers') = {x \in Timer : life'[x] # "free"}
        /\ Range(deferred') \cup Range(inactive') = {d \in Deferred : life'[d] # "free"}
        /\ Range(wakeups') = {x \in Wakeup : life'[x] # "free"}
    <3>1. Range(timers') = {x \in Timer : life'[x] # "free"}
      BY <1>2, <1>3, <1>5 DEF TypeOK, TimersIn
    <3>2. Range(wakeups') = {x \in Wakeup : life'[x] # "free"}
      BY <1>2, <1>3, <1>4 DEF TypeOK
    <3>. QED BY <1>1, <1>2, <1>3, <3>1, <3>2 DEF TypeOK
  <2>. QED BY <1>1, <1>2, <1>3, <1>4, <2>1, <2>2, <2>3 DEF TypeOK
<1>7. Places' /\ CursorValid' /\ PollSleeps'
  BY <1>1, <1>3, <1>4, <1>5, CallKeeps DEF TimersIn
<1>8. Parked' /\ Owned'
  BY <1>1, <1>2, <1>3 DEF LoopInv, Parked, Owned, Live, TypeOK
<1>. QED BY <1>5, <1>6, <1>7, <1>8 DEF LoopInv, TimersIn

(* iot_del_wakeup() keeps LoopInv.                                         *)
LEMMA DelWakeupOK ==
  ASSUME LoopInv, NEW w \in Wakeup, DelWakeup(w)
  PROVE  LoopInv'
<1> USE Constants
<1>1. /\ cur # Nil /\ life[w] = "live" /\ life' = [life EXCEPT ![w] = "deleted"]
      /\ UNCHANGED <<timerVars, deferredVars, wakeupVars, passVars, cur, pollVars, quit, historyVars>>
  BY DEF DelWakeup, InCallback, Live
<1>2. TypeOK
  BY DEF LoopInv
<1>3. /\ life' \in [Object -> {"free", "live", "deleted"}]
      /\ \A o \in Object : life[o] # "free" <=> life'[o] # "free"
      /\ \A o \in Object : o # w => life'[o] = life[o]
  BY <1>1, <1>2 DEF TypeOK
<1>4. Sorted' /\ NextTimerExpiresFirst' /\ Owned'
  BY <1>1, <1>3, TimersUntouched
<1> USE DEF timerVars, deferredVars, wakeupVars, passVars, pollVars, historyVars
<1>5. TypeOK'
  BY <1>1, <1>2, <1>3 DEF TypeOK
<1>6. Places' /\ CursorValid' /\ PollSleeps'
  BY <1>1, <1>3, CallKeeps
<1>. QED BY <1>1, <1>4, <1>5, <1>6 DEF LoopInv, Parked

(* All calls together.                                                     *)
LEMMA CallOK ==
  ASSUME LoopInv, Call
  PROVE  LoopInv'
<1>1. ASSUME Quit PROVE LoopInv'
  <2>1. /\ cur # Nil /\ quit' = TRUE
        /\ UNCHANGED <<life, timerVars, deferredVars, wakeupVars, passVars, cur, pollVars, historyVars>>
    BY <1>1 DEF Quit, InCallback
  <2>2. Sorted' /\ NextTimerExpiresFirst' /\ Owned'
    BY <2>1, TimersUntouched
  <2> USE DEF timerVars, deferredVars, wakeupVars, passVars, pollVars, historyVars
  <2>3. TypeOK'
    BY <2>1 DEF LoopInv, TypeOK
  <2>4. Places' /\ CursorValid' /\ PollSleeps'
    BY <2>1, CallKeeps
  <2>. QED BY <2>1, <2>2, <2>3, <2>4 DEF LoopInv, Parked
<1>. QED BY <1>1, AddTimerOK, ModTimerOK, DelTimerOK, AddDeferredOK, DelDeferredOK,
     DisableDeferredOK, EnableDeferredOK, AddWakeupOK, AddForcedWakeupOK, DelWakeupOK DEF Call

-----------------------------------------------------------------------------
(* The loop between the calls.                                             *)

(* The types of where the loop is.                                         *)
LoopTypes ==
  /\ phase \in {"wakeups", "deferred", "timers", "io", "poll", "stopped"}
  /\ cur \in Object \cup {Io, Nil} /\ nxt \in Object \cup {Nil}
  /\ lag \in 0 .. MaxLag
  /\ timeout \in Nat \cup {-1} /\ slept \in Nat
  /\ event \in BOOLEAN /\ quit \in BOOLEAN
  /\ due \subseteq Deferred /\ ran \in [Deferred -> 0 .. 2]

(* A step that changes no object and no list.                              *)
LEMMA LoopMoves ==
  ASSUME LoopInv, UNCHANGED <<life, timerVars, deferredVars, wakeupVars>>,
         LoopTypes', Places', CursorValid', PollSleeps'
  PROVE  LoopInv'
<1>1. Sorted' /\ NextTimerExpiresFirst' /\ Owned'
  BY TimersUntouched
<1>2. TypeOK' /\ Parked'
  BY DEF LoopInv, TypeOK, LoopTypes, Parked, timerVars, deferredVars, wakeupVars
<1>. QED BY <1>1, <1>2 DEF LoopInv

(* A pass over a list starts, at its head, and no callback runs.           *)
LEMMA PassStarts ==
  ASSUME LoopInv, UNCHANGED <<life, timerVars, deferredVars, wakeupVars, quit>>,
         cur' = Nil, slept' = 0, LoopTypes',
         NEW p, NEW list, StartPass(p, list),
         \/ list = <<>> /\ p \in {"wakeups", "deferred", "timers", "io"}
         \/ p = "wakeups" /\ list = wakeups
         \/ p = "deferred" /\ list = deferred
         \/ p = "timers" /\ list = timers
  PROVE  LoopInv'
<1> USE Constants
<1>1. phase' = p /\ nxt' = Head1(list) /\ p # "poll"
  BY DEF StartPass
<1>2. wakeups \in Seq(Object) /\ deferred \in Seq(Object) /\ timers \in Seq(Object)
  <2>1. \A S \in SUBSET Object : \A s \in Seq(S) : s \in Seq(Object)
    OBVIOUS
  <2>. QED BY <2>1 DEF LoopInv, TypeOK
<1>3. nxt' # Nil => nxt' \in Range(list) /\ list # <<>>
  BY <1>1, <1>2, HeadFacts DEF Head1, FirstOf
<1>4. Places' /\ CursorValid'
  BY <1>1, <1>3 DEF Places, CursorValid, timerVars, deferredVars, wakeupVars
<1>5. PollSleeps'
  BY <1>1 DEF PollSleeps
<1>. QED BY <1>4, <1>5, LoopMoves

(* The walk goes on behind the member it comes to, and calls it or not.    *)
LEMMA WalkGoesOn ==
  ASSUME LoopInv, UNCHANGED <<life, timerVars, deferredVars, wakeupVars, phase, lag, pollVars,
                              quit, due>>,
         ran' \in [Deferred -> 0 .. 2],
         NEW p, NEW list, Visiting(p), nxt' = After(list, nxt), cur' \in {nxt, Nil},
         \/ p = "wakeups" /\ list = wakeups
         \/ p = "deferred" /\ list = deferred
         \/ p = "timers" /\ list = timers
  PROVE  LoopInv'
<1> USE Constants
<1>1. phase = p /\ cur = Nil /\ nxt # Nil /\ nxt \in Range(list)
  BY DEF Visiting, LoopInv, CursorValid
<1>2. PICK S \in {Wakeup, Deferred, Timer} :
        /\ list \in Seq(S) /\ IsInjective(list) /\ Nil \notin S
        /\ \/ p = "wakeups" /\ S = Wakeup
           \/ p = "deferred" /\ S = Deferred
           \/ p = "timers" /\ S = Timer
  BY DEF LoopInv, TypeOK
<1>3. nxt \in S /\ S \subseteq Object /\ life[nxt] # "free"
  <2>1. Range(list) = {x \in S : life[x] # "free"} \/ (p = "deferred" /\ Range(list) \subseteq {x \in S : life[x] # "free"})
    BY <1>2 DEF LoopInv, TypeOK
  <2>. QED BY <1>1, <1>2, <2>1
<1>4. /\ nxt' \in S \cup {Nil} /\ nxt' # nxt
      /\ nxt' # Nil => nxt' \in Range(list)
  <2>1. /\ nxt' \in S \cup {Nil}
        /\ nxt' # Nil => nxt' \in Range(list) /\ Before(list, nxt, nxt')
    BY <1>1, <1>2, AfterFacts
  <2>2. \A a, b : Before(list, a, b) => a # b
    BY <1>2, BeforeOrder
  <2>. QED BY <1>1, <2>1, <2>2
<1>5. LoopTypes'
  BY <1>2, <1>3, <1>4 DEF LoopTypes, LoopInv, TypeOK, pollVars
<1>6. Places' /\ CursorValid'
  BY <1>1, <1>2, <1>3, <1>4 DEF Places, CursorValid, timerVars, deferredVars, wakeupVars
<1>7. PollSleeps'
  BY <1>1, PollSame DEF LoopInv, pollVars
<1>. QED BY <1>5, <1>6, <1>7, LoopMoves

(* A timer starts again: after its callback, with its wakeup, or because   *)
(* its wakeup holds it back.                                               *)
LEMMA TimerRestarts ==
  ASSUME LoopInv, NEW t \in LiveTimers, RearmTimer(t, msecs[t]),
         UNCHANGED <<life, msecs, owner, deferredVars, wakeupVars, phase, lag, pollVars, quit,
                     historyVars>>,
         phase \in {"wakeups", "timers"}, cur' = Nil,
         nxt' \in Object \cup {Nil},
         nxt' # Nil => \/ phase = "timers" /\ nxt' \in Range(timers)
                       \/ phase = "wakeups" /\ nxt' \in Range(wakeups)
  PROVE  LoopInv'
<1> USE Constants
<1>1. msecs[t] \in Int /\ msecs[t] >= 0
  BY DEF LoopInv, TypeOK, LiveTimers
<1>2. TimersIn(timers, t, msecs[t]) /\ Range(timers') = Range(timers)
  BY <1>1, RearmFacts DEF LoopInv
<1> USE DEF deferredVars, wakeupVars, pollVars, historyVars
<1>3. TypeOK'
  <2>1. /\ timers' \in Seq(Timer) /\ nextTimer' \in Timer \cup {Nil} /\ IsInjective(timers')
        /\ rem' \in [Timer -> Int] /\ \A x \in Timer : rem'[x] >= Overdue
    BY <1>1, <1>2 DEF LoopInv, TypeOK, TimersIn
  <2>. QED BY <1>2, <2>1 DEF LoopInv, TypeOK
<1>4. Places' /\ CursorValid' /\ PollSleeps'
  BY <1>2, PollSame DEF LoopInv, Places, CursorValid
<1>5. Parked' /\ Owned'
  BY DEF LoopInv, Parked, Owned, Live
<1>. QED BY <1>2, <1>3, <1>4, <1>5 DEF LoopInv, TimersIn

(* disable_deferred() parks the member that the pass leaves behind.        *)
LEMMA DeferredParked ==
  ASSUME LoopInv, NEW d \in Range(deferred), Park(d),
         UNCHANGED <<life, timerVars, off, wakeupVars, phase, lag, pollVars, quit, historyVars>>,
         phase = "deferred", cur' = Nil, d # nxt',
         nxt' # Nil => nxt' \in Range(deferred)
  PROVE  LoopInv'
<1> USE Constants
<1>1. TypeOK
  BY DEF LoopInv
<1>2. CASE Live(d) /\ off[d]
  <2>1. deferred' = RemoveFirst(deferred, d) /\ inactive' = Append(inactive, d)
    BY <1>2 DEF Park
  <2>2. /\ deferred' \in Seq(Deferred) /\ IsInjective(deferred')
        /\ Range(deferred') = Range(deferred) \ {d}
    <3>1. deferred \in Seq(Deferred) /\ IsInjective(deferred)
      BY <1>1 DEF TypeOK
    <3>. QED BY <2>1, <3>1, RemovedFacts
  <2>3. /\ inactive' \in Seq(Deferred) /\ IsInjective(inactive')
        /\ Range(inactive') = Range(inactive) \cup {d}
    <3>1. /\ inactive \in Seq(Deferred) /\ IsInjective(inactive)
          /\ d \notin Range(inactive) /\ d \in Deferred
      BY <1>1 DEF TypeOK
    <3>. QED BY <2>1, <3>1, AppendFacts
  <2>4. TypeOK'
    <3>1. /\ Range(deferred') \cup Range(inactive') = {x \in Deferred : life'[x] # "free"}
          /\ Range(deferred') \cap Range(inactive') = {}
      BY <1>1, <2>2, <2>3 DEF TypeOK
    <3>2. cur' \in Object \cup {Io, Nil} /\ nxt' \in Object \cup {Nil}
      BY <1>1, <2>2, <3>1 DEF TypeOK
    <3>. QED BY <1>1, <2>2, <2>3, <3>1, <3>2
         DEF TypeOK, timerVars, wakeupVars, pollVars, historyVars
  <2>5. Sorted' /\ NextTimerExpiresFirst' /\ Owned'
    BY TimersUntouched
  <2>6. Places' /\ CursorValid' /\ PollSleeps'
    BY <2>2, PollSame DEF LoopInv, Places, CursorValid, pollVars
  <2>7. Parked'
    BY <1>2, <2>3 DEF LoopInv, Parked
  <2>. QED BY <2>4, <2>5, <2>6, <2>7 DEF LoopInv
<1>3. CASE ~(Live(d) /\ off[d])
  <2>1. UNCHANGED deferredVars
    BY <1>3 DEF Park, deferredVars
  <2>2. LoopTypes'
    BY <1>1 DEF TypeOK, LoopTypes, pollVars, historyVars
  <2>3. Places' /\ CursorValid' /\ PollSleeps'
    BY <2>1, PollSame DEF LoopInv, Places, CursorValid, pollVars, deferredVars
  <2>. QED BY <2>1, <2>2, <2>3, LoopMoves
<1>. QED BY <1>2, <1>3
(* What a callback is followed by: iot_list_foreach() goes on.             *)
LEMMA ReturnOK ==
  ASSUME LoopInv, Return
  PROVE  LoopInv'
<1> USE Constants
<1>1. ASSUME UNCHANGED <<life, timerVars, deferredVars, wakeupVars, passVars, pollVars, quit,
                         historyVars>>,
             cur' = Nil, phase # "poll"
      PROVE  LoopInv'
  <2>1. LoopTypes'
    BY <1>1 DEF LoopInv, TypeOK, LoopTypes, passVars, pollVars, historyVars
  <2>2. Places' /\ CursorValid' /\ PollSleeps'
    BY <1>1, PollSame
    DEF LoopInv, Places, CursorValid, timerVars, deferredVars, wakeupVars, passVars, pollVars
  <2>. QED BY <1>1, <2>1, <2>2, LoopMoves
<1>2. ASSUME WakeupReturns PROVE LoopInv'
  <2>1. /\ phase = "wakeups" /\ cur # Nil /\ cur' = Nil
        /\ UNCHANGED <<life, msecs, owner, deferredVars, wakeupVars, passVars, pollVars, quit,
                       historyVars>>
    BY <1>2 DEF WakeupReturns
  <2>2. CASE forced[cur] # Nil /\ Live(forced[cur])
    <3>1. RearmTimer(forced[cur], msecs[forced[cur]])
      BY <1>2, <2>2 DEF WakeupReturns
    <3>2. forced[cur] \in LiveTimers
      BY <2>1, <2>2 DEF LoopInv, Places, TypeOK, LiveTimers
    <3>3. nxt' \in Object \cup {Nil} /\ (nxt' # Nil => nxt' \in Range(wakeups))
      BY <2>1 DEF LoopInv, TypeOK, CursorValid, passVars
    <3>. QED BY <2>1, <3>1, <3>2, <3>3, TimerRestarts DEF passVars
  <2>3. CASE ~(forced[cur] # Nil /\ Live(forced[cur]))
    <3>1. UNCHANGED timerVars
      BY <1>2, <2>1, <2>3 DEF WakeupReturns, timerVars
    <3>. QED BY <1>1, <2>1, <3>1
  <2>. QED BY <2>2, <2>3
<1>3. ASSUME TimerReturns PROVE LoopInv'
  <2>1. /\ phase = "timers" /\ cur # Nil /\ cur' = Nil
        /\ UNCHANGED <<life, msecs, owner, deferredVars, wakeupVars, passVars, pollVars, quit,
                       historyVars>>
    BY <1>3 DEF TimerReturns
  <2>2. CASE Live(cur)
    <3>1. RearmTimer(cur, msecs[cur])
      BY <1>3, <2>2 DEF TimerReturns
    <3>2. cur \in LiveTimers
      BY <2>1, <2>2 DEF LoopInv, Places, LiveTimers
    <3>3. nxt' \in Object \cup {Nil} /\ (nxt' # Nil => nxt' \in Range(timers))
      BY <2>1 DEF LoopInv, TypeOK, CursorValid, passVars
    <3>. QED BY <2>1, <3>1, <3>2, <3>3, TimerRestarts DEF passVars
  <2>3. CASE ~Live(cur)
    <3>1. UNCHANGED timerVars
      BY <1>3, <2>1, <2>3 DEF TimerReturns, timerVars
    <3>. QED BY <1>1, <2>1, <3>1
  <2>. QED BY <2>2, <2>3
<1>4. ASSUME DeferredReturns PROVE LoopInv'
  <2>1. /\ phase = "deferred" /\ cur # Nil /\ cur' = Nil /\ Park(cur)
        /\ UNCHANGED <<life, timerVars, off, wakeupVars, passVars, pollVars, quit, historyVars>>
    BY <1>4 DEF DeferredReturns
  <2>2. cur \in Range(deferred)
    BY <2>1 DEF LoopInv, Places
  <2>3. nxt' = nxt /\ cur # nxt' /\ (nxt' # Nil => nxt' \in Range(deferred))
    BY <2>1 DEF LoopInv, Places, CursorValid, passVars
  <2>. QED BY <2>1, <2>2, <2>3, DeferredParked DEF passVars
<1>5. ASSUME IoReturns PROVE LoopInv'
  BY <1>1, <1>5 DEF IoReturns
<1>. QED BY <1>2, <1>3, <1>4, <1>5 DEF Return

(* The member the walk is at is behind no other that it has yet to come to. *)
LEMMA NextOf ==
  ASSUME LoopInv, NEW p, NEW list, Visiting(p),
         \/ p = "wakeups" /\ list = wakeups
         \/ p = "deferred" /\ list = deferred
         \/ p = "timers" /\ list = timers
  PROVE  /\ nxt \in Range(list) /\ nxt \in Object /\ life[nxt] # "free" /\ nxt # After(list, nxt)
         /\ After(list, nxt) \in Object \cup {Nil}
         /\ After(list, nxt) # Nil => After(list, nxt) \in Range(list)
         /\ p = "deferred" => nxt \in Deferred
         /\ p = "timers" => nxt \in Timer
<1> USE Constants
<1>1. nxt # Nil /\ nxt \in Range(list)
  BY DEF Visiting, LoopInv, CursorValid
<1>2. PICK S \in {Wakeup, Deferred, Timer} :
        /\ list \in Seq(S) /\ IsInjective(list) /\ Nil \notin S /\ S \subseteq Object
        /\ Range(list) \subseteq {x \in S : life[x] # "free"}
        /\ p = "deferred" => S = Deferred
        /\ p = "timers" => S = Timer
  BY DEF LoopInv, TypeOK
<1>3. /\ After(list, nxt) \in S \cup {Nil}
      /\ After(list, nxt) # Nil => After(list, nxt) \in Range(list) /\ Before(list, nxt, After(list, nxt))
  BY <1>1, <1>2, AfterFacts
<1>4. \A a, b : Before(list, a, b) => a # b
  BY <1>2, BeforeOrder
<1>. QED BY <1>1, <1>2, <1>3, <1>4

(* The steps of the passes.                                                *)
LEMMA PassesOK ==
  ASSUME LoopInv,
         \/ SkipWakeup \/ CallWakeup \/ WakeupsDone
         \/ SkipDeferred \/ CallDeferred \/ DeferredDone
         \/ SkipTimer \/ CallTimer \/ HoldBackForced \/ TimersDone
         \/ CallIo
  PROVE  LoopInv'
<1> USE Constants
<1> DEFINE zeroes == [d \in Deferred |-> 0]
<1>1. zeroes \in [Deferred -> 0 .. 2] /\ ran \in [Deferred -> 0 .. 2] /\ due \subseteq Deferred
  BY DEF LoopInv, TypeOK
<1> HIDE DEF zeroes
<1>2. ASSUME UNCHANGED <<life, timerVars, deferredVars, wakeupVars, quit, cur, event, slept>>,
             PassOver \/ cur = Nil, phase # "poll",
             timeout' \in Nat \cup {-1}, lag' \in 0 .. MaxLag, due' \subseteq Deferred,
             ran' \in [Deferred -> 0 .. 2],
             NEW p, NEW list, StartPass(p, list),
             \/ list = <<>> /\ p \in {"wakeups", "deferred", "timers", "io"}
             \/ p = "deferred" /\ list = deferred
             \/ p = "timers" /\ list = timers
      PROVE  LoopInv'
  <2>1. cur' = Nil /\ slept' = 0
    BY <1>2 DEF PassOver, LoopInv, PollSleeps
  <2>2. phase' = p /\ nxt' = Head1(list)
    BY <1>2 DEF StartPass
  <2>3. nxt' \in Object \cup {Nil}
    <3>1. deferred \in Seq(Deferred) /\ timers \in Seq(Timer) /\ Nil \notin Deferred /\ Nil \notin Timer
      BY DEF LoopInv, TypeOK
    <3>2. Head1(<<>>) = Nil /\ Head1(deferred) \in Deferred \cup {Nil} /\ Head1(timers) \in Timer \cup {Nil}
      BY <3>1, HeadFacts DEF Head1, FirstOf
    <3>. QED BY <1>2, <2>2, <3>2
  <2>4. LoopTypes'
    BY <1>2, <2>1, <2>2, <2>3 DEF LoopTypes, LoopInv, TypeOK
  <2>. QED BY <1>2, <2>1, <2>4, PassStarts
<1>3. ASSUME SkipWakeup \/ CallWakeup PROVE LoopInv'
  <2>1. /\ Visiting("wakeups") /\ nxt' = After(wakeups, nxt) /\ cur' \in {nxt, Nil}
        /\ UNCHANGED <<life, timerVars, deferredVars, wakeupVars, phase, lag, pollVars, quit,
                       historyVars>>
    BY <1>3 DEF SkipWakeup, CallWakeup, Visiting
  <2>. QED BY <1>1, <2>1, WalkGoesOn DEF historyVars
<1>4. ASSUME WakeupsDone PROVE LoopInv'
  <2>1. /\ phase = "wakeups" /\ PassOver /\ NextPass("deferred", deferred)
        /\ timeout' = 0 /\ due' \subseteq Deferred /\ ran' = zeroes
        /\ UNCHANGED <<life, timerVars, deferredVars, wakeupVars, lag, cur, slept, event, quit>>
    BY <1>4 DEF WakeupsDone, zeroes
  <2>2. lag \in 0 .. MaxLag
    BY DEF LoopInv, TypeOK
  <2>. QED BY <1>1, <1>2, <2>1, <2>2 DEF NextPass
<1>5. ASSUME SkipDeferred PROVE LoopInv'
  <2>1. /\ Visiting("deferred") /\ nxt' = After(deferred, nxt) /\ Park(nxt)
        /\ UNCHANGED <<life, timerVars, off, wakeupVars, phase, lag, cur, pollVars, quit, historyVars>>
    BY <1>5 DEF SkipDeferred
  <2>2. phase = "deferred" /\ cur' = Nil
    BY <2>1 DEF Visiting
  <2>. QED BY <2>1, <2>2, NextOf, DeferredParked
<1>6. ASSUME CallDeferred PROVE LoopInv'
  <2>1. /\ Visiting("deferred") /\ nxt' = After(deferred, nxt) /\ cur' = nxt
        /\ ran' = [ran EXCEPT ![nxt] = IF @ = 2 THEN 2 ELSE @ + 1]
        /\ UNCHANGED <<life, timerVars, deferredVars, wakeupVars, phase, lag, pollVars, quit, due>>
    BY <1>6 DEF CallDeferred
  <2>2. ran' \in [Deferred -> 0 .. 2]
    BY <1>1, <2>1, NextOf
  <2>. QED BY <2>1, <2>2, WalkGoesOn
<1>7. ASSUME DeferredDone PROVE LoopInv'
  <2>1. /\ phase = "deferred" /\ PassOver /\ NextPass("timers", timers)
        /\ lag' = 0 /\ due' = {} /\ ran' = zeroes
        /\ UNCHANGED <<life, timerVars, deferredVars, wakeupVars, cur, pollVars, quit>>
    BY <1>7 DEF DeferredDone, zeroes
  <2>2. timeout \in Nat \cup {-1}
    BY DEF LoopInv, TypeOK
  <2>. QED BY <1>1, <1>2, <2>1, <2>2 DEF NextPass, pollVars
<1>8. ASSUME SkipTimer \/ CallTimer PROVE LoopInv'
  <2>1. /\ Visiting("timers") /\ nxt' = After(timers, nxt) /\ cur' \in {nxt, Nil}
        /\ UNCHANGED <<life, timerVars, deferredVars, wakeupVars, phase, lag, pollVars, quit,
                       historyVars>>
    BY <1>8 DEF SkipTimer, CallTimer, Visiting
  <2>. QED BY <1>1, <2>1, WalkGoesOn DEF historyVars
<1>9. ASSUME HoldBackForced PROVE LoopInv'
  <2>1. /\ Visiting("timers") /\ Live(nxt) /\ nxt' = After(timers, nxt) /\ RearmTimer(nxt, msecs[nxt])
        /\ UNCHANGED <<life, msecs, owner, deferredVars, wakeupVars, phase, lag, cur, pollVars, quit,
                       historyVars>>
    BY <1>9 DEF HoldBackForced
  <2>2. phase = "timers" /\ cur' = Nil
    BY <2>1 DEF Visiting
  <2>3. nxt \in LiveTimers
    BY <2>1, NextOf DEF LiveTimers
  <2>4. nxt' \in Object \cup {Nil} /\ (nxt' # Nil => nxt' \in Range(timers))
    BY <2>1, NextOf
  <2>. QED BY <2>1, <2>2, <2>3, <2>4, TimerRestarts
<1>10. ASSUME TimersDone PROVE LoopInv'
  <2>1. /\ phase = "timers" /\ cur = Nil /\ StartPass("io", <<>>) /\ lag' = 0
        /\ UNCHANGED <<life, timerVars, deferredVars, wakeupVars, cur, pollVars, quit, historyVars>>
    BY <1>10 DEF TimersDone, PassOver, Visiting
  <2>2. timeout \in Nat \cup {-1}
    BY DEF LoopInv, TypeOK
  <2>. QED BY <1>1, <1>2, <2>1, <2>2 DEF pollVars, historyVars
<1>11. ASSUME CallIo PROVE LoopInv'
  <2>1. /\ phase = "io" /\ cur' = Io /\ event' = FALSE
        /\ UNCHANGED <<life, timerVars, deferredVars, wakeupVars, passVars, timeout, slept, quit,
                       historyVars>>
    BY <1>11 DEF CallIo
  <2>2. LoopTypes'
    BY <2>1 DEF LoopInv, TypeOK, LoopTypes, passVars, historyVars
  <2>3. nxt = Nil
    BY <2>1 DEF LoopInv, Places
  <2>4. Places' /\ CursorValid' /\ PollSleeps'
    BY <2>1, <2>3, PollSame DEF LoopInv, Places, CursorValid, passVars
  <2>. QED BY <2>1, <2>2, <2>4, LoopMoves
<1>. QED BY <1>3, <1>4, <1>5, <1>6, <1>7, <1>8, <1>9, <1>10, <1>11

(* purge_deleted() takes what is deleted out of every list, and            *)
(* iot_mainloop_prepare() sets up the poll for what is left.               *)
LEMMA IterateOK ==
  ASSUME LoopInv, Iterate
  PROVE  LoopInv'
<1> USE Constants
<1> DEFINE dead == {o \in Object : life[o] = "deleted"}
           left == Object \ dead
<1>1. /\ phase = "io" /\ cur = Nil /\ cur' = Nil /\ event' = FALSE
      /\ phase' = (IF quit THEN "stopped" ELSE "poll")
      /\ timeout' = (IF quit THEN 0 ELSE PollTimeout)
      /\ UNCHANGED <<nxt, lag, slept, quit, historyVars>>
  BY DEF Iterate
<1>2. /\ life' = [o \in Object |-> IF o \in dead THEN "free" ELSE life[o]]
      /\ timers' = Keep(timers, left) /\ deferred' = Keep(deferred, left)
      /\ inactive' = Keep(inactive, left) /\ wakeups' = Keep(wakeups, left)
      /\ rem' = [t \in Timer |-> IF t \in dead THEN 0 ELSE rem[t]]
      /\ msecs' = [t \in Timer |-> IF t \in dead THEN 0 ELSE msecs[t]]
      /\ off' = [d \in Deferred |-> d \notin dead /\ off[d]]
      /\ forced' = [w \in Wakeup |-> IF w \in dead THEN Nil ELSE forced[w]]
      /\ UNCHANGED <<nextTimer, owner>>
  BY DEF Iterate, Purge
<1>3. TypeOK /\ nxt = Nil /\ slept = 0
  BY <1>1 DEF LoopInv, Places, PollSleeps
<1>4. /\ life' \in [Object -> {"free", "live", "deleted"}]
      /\ \A o \in Object : /\ o \in dead => life[o] = "deleted" /\ life'[o] = "free"
                           /\ o \notin dead => life'[o] = life[o] /\ life[o] # "deleted"
      /\ \A o \in Object : o \in left <=> o \notin dead
  BY <1>2, <1>3 DEF TypeOK
<1> HIDE DEF dead, left
<1>5. /\ timers' \in Seq(Timer) /\ IsInjective(timers') /\ Range(timers') = Range(timers) \cap left
      /\ \A a, b : Before(timers', a, b) => Before(timers, a, b)
  BY <1>2, <1>3, KeepFacts DEF TypeOK
<1>6. /\ deferred' \in Seq(Deferred) /\ IsInjective(deferred')
      /\ Range(deferred') = Range(deferred) \cap left
      /\ inactive' \in Seq(Deferred) /\ IsInjective(inactive')
      /\ Range(inactive') = Range(inactive) \cap left
      /\ wakeups' \in Seq(Wakeup) /\ IsInjective(wakeups') /\ Range(wakeups') = Range(wakeups) \cap left
  BY <1>2, <1>3, KeepFacts DEF TypeOK
<1>7. /\ LiveTimers' = LiveTimers
      /\ \A t \in LiveTimers : t \in Timer /\ rem'[t] = rem[t] /\ rem[t] \in Int
  BY <1>2, <1>3, <1>4 DEF LiveTimers, Live, TypeOK
<1>8. Sorted' /\ NextTimerExpiresFirst'
  BY <1>2, <1>5, <1>7 DEF LoopInv, Sorted, NextTimerExpiresFirst
<1>9. Owned' /\ Parked'
  <2>1. Owned'
    BY <1>2, <1>3, <1>4 DEF LoopInv, Owned, Live
  <2>2. ASSUME NEW d \in Range(inactive') PROVE off'[d]
    <3>1. d \in Deferred /\ d \in Range(inactive) /\ d \notin dead
      BY <1>3, <1>4, <1>6 DEF TypeOK
    <3>2. off[d]
      BY <3>1 DEF LoopInv, Parked
    <3>. QED BY <1>2, <3>1, <3>2
  <2>. QED BY <2>1, <2>2 DEF Parked
<1>10. /\ timeout' \in Nat \cup {-1}
       /\ timeout' # 0 => deferred' = <<>> /\ ~quit
       /\ timeout' = -1 => LiveTimers = {}
       /\ timeout' > 0 => \A t \in LiveTimers : rem[t] >= timeout'
  <2>1. /\ nextTimer = Nil <=> LiveTimers = {}
        /\ nextTimer # Nil => nextTimer \in Timer /\ \A t \in LiveTimers : rem[nextTimer] <= rem[t]
    <3>1. nextTimer # Nil => LiveTimers # {}
      BY DEF LoopInv, NextTimerExpiresFirst
    <3>2. LiveTimers # {} => /\ nextTimer \in LiveTimers /\ \A t \in LiveTimers : rem[nextTimer] <= rem[t]
      BY DEF LoopInv, NextTimerExpiresFirst
    <3>3. \A t \in LiveTimers : t \in Timer /\ t # Nil
      BY DEF LiveTimers
    <3>. QED BY <3>1, <3>2, <3>3
  <2>2. CASE quit \/ deferred' # <<>>
    BY <1>1, <2>2 DEF PollTimeout
  <2>3. CASE ~quit /\ deferred' = <<>>
    <3>1. timeout' = (IF nextTimer = Nil THEN -1 ELSE IF rem[nextTimer] <= 0 THEN 0 ELSE rem[nextTimer])
      BY <1>1, <2>3 DEF PollTimeout
    <3>2. nextTimer # Nil => rem[nextTimer] \in Int
      BY <1>3, <2>1 DEF TypeOK
    <3>. QED BY <1>7, <2>1, <2>3, <3>1, <3>2
  <2>. QED BY <2>2, <2>3
<1>11. TypeOK'
  <2>1. /\ rem' \in [Timer -> Int] /\ \A t \in Timer : rem'[t] >= Overdue
        /\ msecs' \in [Timer -> Intervals \cup {0}] /\ off' \in [Deferred -> BOOLEAN]
        /\ forced' \in [Wakeup -> Timer \cup {Nil}]
    BY <1>2, <1>3 DEF TypeOK
  <2>2. /\ Range(timers') = {t \in Timer : life'[t] # "free"}
        /\ Range(wakeups') = {w \in Wakeup : life'[w] # "free"}
        /\ Range(deferred') \cup Range(inactive') = {d \in Deferred : life'[d] # "free"}
        /\ Range(deferred') \cap Range(inactive') = {}
    BY <1>3, <1>4, <1>5, <1>6 DEF TypeOK
  <2>. QED BY <1>1, <1>2, <1>3, <1>4, <1>5, <1>6, <1>10, <2>1, <2>2 DEF TypeOK, historyVars
<1>12. PollSleeps'
  <2>1. phase' = "poll" /\ timeout' # 0 => \A d \in Deferred : ~Active(d)'
    <3>1. SUFFICES ASSUME timeout' # 0, NEW d \in Deferred, Active(d)' PROVE FALSE
      OBVIOUS
    <3>2. Range(deferred') = {}
      BY <1>10, <3>1, EmptySeq, LenProperties DEF Range
    <3>3. d \in Range(inactive')
      BY <1>11, <3>1, <3>2 DEF TypeOK, Active, Live
    <3>. QED BY <1>9, <3>1, <3>3 DEF Parked, Active
  <2>2. timeout' # -1 => slept' <= timeout'
    BY <1>1, <1>3, <1>10
  <2>3. timeout' > 0 => \A t \in LiveTimers' : rem'[t] >= timeout' - slept'
    BY <1>1, <1>3, <1>7, <1>10
  <2>. QED BY <1>1, <1>3, <1>7, <1>10, <2>1, <2>2, <2>3 DEF PollSleeps
<1>13. Places' /\ CursorValid'
  BY <1>1, <1>3 DEF Places, CursorValid
<1>. QED BY <1>8, <1>9, <1>11, <1>12, <1>13 DEF LoopInv

(* The poll ends, with or without an event.                                *)
LEMMA PollEnds ==
  ASSUME LoopInv, NEW io \in BOOLEAN, PollReturns(io)
  PROVE  LoopInv'
<1> USE Constants
<1> DEFINE list == IF timeout = 0 THEN <<>> ELSE wakeups
<1>1. /\ phase = "poll" /\ event' = io /\ slept' = 0 /\ StartPass("wakeups", list)
      /\ UNCHANGED <<life, timerVars, deferredVars, wakeupVars, lag, cur, timeout, quit, historyVars>>
  BY DEF PollReturns, StartWakeups
<1>2. cur' = Nil
  BY <1>1 DEF LoopInv, Places
<1>3. list = <<>> \/ list = wakeups
  OBVIOUS
<1> HIDE DEF list
<1>4. Head1(list) \in Object \cup {Nil}
  <2>1. wakeups \in Seq(Wakeup) /\ Nil \notin Wakeup
    BY DEF LoopInv, TypeOK
  <2>2. Head1(<<>>) = Nil /\ Head1(wakeups) \in Wakeup \cup {Nil}
    BY <2>1, HeadFacts DEF Head1, FirstOf
  <2>. QED BY <1>3, <2>2
<1>5. LoopTypes'
  BY <1>1, <1>4 DEF LoopInv, TypeOK, LoopTypes, StartPass, historyVars
<1>. QED BY <1>1, <1>2, <1>3, <1>5, PassStarts

(* A tick brings all live timers nearer alike, those long overdue aside.   *)
LEMMA TickOK ==
  ASSUME LoopInv, Tick
  PROVE  LoopInv'
<1> USE Constants
<1>1. /\ phase = "poll" => timeout = -1 \/ slept < timeout
      /\ phase = "timers" => lag < MaxLag
      /\ rem' = [t \in Timer |-> IF life[t] # "live" THEN rem[t]
                                 ELSE IF rem[t] = Overdue THEN Overdue ELSE rem[t] - 1]
      /\ lag' = (IF phase = "timers" THEN lag + 1 ELSE 0)
      /\ slept' = (IF phase = "poll" /\ timeout # -1 THEN slept + 1 ELSE 0)
      /\ UNCHANGED <<life, timers, nextTimer, msecs, owner, deferredVars, wakeupVars, phase, nxt,
                     cur, timeout, event, quit, historyVars>>
  BY DEF Tick
<1>2. TypeOK
  BY DEF LoopInv
<1>3. LiveTimers' = LiveTimers
  BY <1>1 DEF LiveTimers, Live
<1>4. \A t \in LiveTimers : /\ t \in Timer /\ rem[t] \in Int /\ rem[t] >= Overdue
                            /\ rem'[t] = IF rem[t] = Overdue THEN Overdue ELSE rem[t] - 1
  BY <1>1, <1>2 DEF LiveTimers, Live, TypeOK
<1>5. \A a, b \in LiveTimers : rem[a] <= rem[b] => rem'[a] <= rem'[b]
  BY <1>4
<1>6. Sorted'
  BY <1>1, <1>3, <1>5 DEF LoopInv, Sorted
<1>7. NextTimerExpiresFirst'
  BY <1>1, <1>3, <1>5 DEF LoopInv, NextTimerExpiresFirst
<1>8. TypeOK'
  <2>1. rem' \in [Timer -> Int] /\ \A t \in Timer : rem'[t] >= Overdue
    <3>1. ASSUME NEW t \in Timer PROVE rem'[t] \in Int /\ rem'[t] >= Overdue
      BY <1>1, <1>2 DEF TypeOK
    <3>2. rem' = [t \in Timer |-> rem'[t]]
      BY <1>1
    <3>. QED BY <3>1, <3>2
  <2>2. lag' \in 0 .. MaxLag /\ slept' \in Nat
    BY <1>1, <1>2 DEF TypeOK
  <2>. QED BY <1>1, <1>2, <2>1, <2>2 DEF TypeOK, deferredVars, wakeupVars, historyVars
<1>9. PollSleeps'
  <2>1. /\ phase' # "poll" => slept' = 0
        /\ phase' = "poll" /\ timeout' # -1 => slept' <= timeout'
    BY <1>1, <1>2 DEF TypeOK
  <2>2. phase' = "poll" /\ timeout' > 0 => \A t \in LiveTimers' : rem'[t] >= timeout' - slept'
    <3> SUFFICES ASSUME phase = "poll", timeout > 0, NEW t \in LiveTimers
                 PROVE  rem'[t] >= timeout - slept'
      BY <1>1, <1>3
    <3>1. timeout \in Nat /\ slept \in Nat /\ timeout # -1
      BY <1>2 DEF TypeOK
    <3>2. slept < timeout /\ slept' = slept + 1 /\ rem[t] >= timeout - slept
      BY <1>1, <3>1 DEF LoopInv, PollSleeps
    <3>. QED BY <1>4, <3>1, <3>2
  <2>3. phase' = "poll" /\ timeout' # 0 => \A d \in Deferred : ~Active(d)'
    BY <1>1 DEF LoopInv, PollSleeps, Active, Live, deferredVars
  <2>. QED BY <1>1, <1>3, <2>1, <2>2, <2>3 DEF LoopInv, PollSleeps
<1>10. Places' /\ CursorValid' /\ Parked' /\ Owned'
  BY <1>1 DEF LoopInv, Places, CursorValid, Parked, Owned, Live, deferredVars, wakeupVars
<1>. QED BY <1>6, <1>7, <1>8, <1>9, <1>10 DEF LoopInv

-----------------------------------------------------------------------------
(* LoopInv holds of a loop that has not run yet.                           *)
LEMMA LoopStarts ==
  ASSUME Init
  PROVE  LoopInv
<1> USE Constants DEF Init
<1>1. DOMAIN <<>> = {} /\ \A S : <<>> \in Seq(S)
  BY EmptySeq, LenProperties
<1>2. Range(<<>>) = {} /\ IsInjective(<<>>) /\ \A a, b : ~Before(<<>>, a, b)
  BY <1>1 DEF Range, IsInjective, Before
<1>3. LiveTimers = {}
  BY DEF LiveTimers, Live
<1>4. TypeOK
  <2>1. /\ life \in [Object -> {"free", "live", "deleted"}]
        /\ rem \in [Timer -> Int] /\ \A t \in Timer : rem[t] >= Overdue
        /\ msecs \in [Timer -> Intervals \cup {0}] /\ owner \in [Timer -> Wakeup \cup {Nil}]
        /\ off \in [Deferred -> BOOLEAN] /\ forced \in [Wakeup -> Timer \cup {Nil}]
    OBVIOUS
  <2>2. /\ Range(timers) = {t \in Timer : life[t] # "free"}
        /\ Range(deferred) \cup Range(inactive) = {d \in Deferred : life[d] # "free"}
        /\ Range(wakeups) = {w \in Wakeup : life[w] # "free"}
    BY <1>2
  <2>3. LoopTypes
    <3>1. 0 \in 0 .. MaxLag /\ 0 \in 0 .. 2
      OBVIOUS
    <3>. QED BY <3>1 DEF LoopTypes
  <2>4. Range(deferred) \cap Range(inactive) = {}
    BY <1>2
  <2>. QED BY <1>1, <1>2, <2>1, <2>2, <2>3, <2>4 DEF TypeOK, LoopTypes
<1>5. Sorted /\ NextTimerExpiresFirst /\ Owned /\ Parked
  BY <1>2, <1>3 DEF Sorted, NextTimerExpiresFirst, Owned, Parked
<1>6. Places /\ CursorValid /\ PollSleeps
  BY DEF Places, CursorValid, PollSleeps
<1>. QED BY <1>4, <1>5, <1>6 DEF LoopInv

(* Every step keeps LoopInv.                                               *)
LEMMA LoopStep ==
  ASSUME LoopInv, [Next]_vars
  PROVE  LoopInv'
<1>1. ASSUME UNCHANGED vars PROVE LoopInv'
  <2>1. UNCHANGED <<life, timerVars, deferredVars, wakeupVars, phase, nxt, lag, cur, pollVars, quit,
                    historyVars>>
    BY <1>1 DEF vars, passVars
  <2>2. LoopTypes' /\ Places' /\ CursorValid' /\ PollSleeps'
    BY <2>1 DEF LoopInv, TypeOK, LoopTypes, Places, CursorValid, PollSleeps, LiveTimers, Active, Live,
       timerVars, deferredVars, wakeupVars, pollVars, historyVars
  <2>. QED BY <2>1, <2>2, LoopMoves
<1>2. ASSUME Woken \/ TimedOut PROVE LoopInv'
  BY <1>2, PollEnds DEF Woken, TimedOut
<1>. QED BY <1>1, <1>2, CallOK, ReturnOK, PassesOK, IterateOK, TickOK DEF Next, Dispatch

(* LoopInv, the inductive invariant of the loop, holds throughout.         *)
THEOREM LoopInvariant == Spec => []LoopInv
<1>1. Init => LoopInv
  BY LoopStarts
<1>2. LoopInv /\ [Next]_vars => LoopInv'
  BY LoopStep
<1>. QED BY <1>1, <1>2, PTL DEF Spec

(* No poll oversleeps: whatever timers callbacks added, restarted and      *)
(* deleted, ml->next_timer is the one that expires first when              *)
(* iot_mainloop_prepare() asks (mainloop.c:655-793), and nothing it does   *)
(* not look at is waiting (mainloop.c:1482-1519).                          *)
THEOREM NeverOversleepsCorrect == Spec => []NeverOversleeps
<1>1. LoopInv => NeverOversleeps
  <2> SUFFICES ASSUME LoopInv, phase = "poll", timeout # 0, NEW t \in Timer, Live(t)
               PROVE  rem[t] >= 0
    BY DEF LoopInv, NeverOversleeps, PollSleeps
  <2>1. timeout \in Nat /\ slept \in Nat /\ slept <= timeout /\ rem[t] >= timeout - slept
    BY DEF LoopInv, PollSleeps, LiveTimers, TypeOK
  <2>2. rem[t] \in Int
    BY DEF LoopInv, TypeOK
  <2>. QED BY <2>1, <2>2
<1>. QED BY <1>1, LoopInvariant, PTL

-----------------------------------------------------------------------------
(* The pass over the deferred callbacks.                                   *)

(* The members of the list that the pass has not come to.                  *)
Ahead(d) == nxt # Nil /\ (d = nxt \/ Before(deferred, nxt, d))

(* What is ahead has not been called, and what was due all through the     *)
(* pass is ahead or has been called.                                       *)
PassInv ==
  /\ \A d \in Deferred : ran[d] > 0 => life[d] # "free"
  /\ phase # "deferred" => \A d \in Deferred : ran[d] = 0
  /\ \A d \in due : Active(d)
  /\ phase = "deferred" => \A d \in Deferred : /\ ran[d] <= 1
                                               /\ Ahead(d) => ran[d] = 0
                                               /\ d \in due => Ahead(d) \/ ran[d] = 1

(* A step that is no part of the pass.                                     *)
LEMMA PassSame ==
  ASSUME PassInv, UNCHANGED <<deferred, nxt, phase, ran>>, due' \subseteq due,
         \A d \in Deferred : life[d] # "free" => life'[d] # "free",
         \A d \in due' : Active(d)'
  PROVE  PassInv'
BY DEF PassInv, Ahead

(* A step outside of the pass.                                             *)
LEMMA OutsidePass ==
  ASSUME phase' # "deferred", \A d \in Deferred : ran'[d] = 0, \A d \in due' : Active(d)'
  PROVE  PassInv'
BY DEF PassInv

(* Calls of the API.  A deferred callback that is added is ahead, and was  *)
(* not called in this pass.                                                *)
LEMMA CallInPass ==
  ASSUME ~ReenableInPass, LoopInv, PassInv, Call
  PROVE  PassInv'
<1> USE Constants
<1>1. TypeOK
  BY DEF LoopInv
<1>2. ASSUME UNCHANGED <<deferredVars, passVars, historyVars>>,
             \A d \in Deferred : life'[d] = life[d]
      PROVE  PassInv'
  <2>1. \A d \in due' : Active(d)'
    BY <1>1, <1>2 DEF PassInv, Active, Live, deferredVars, historyVars, TypeOK
  <2>. QED BY <1>2, <2>1, PassSame DEF deferredVars, passVars, historyVars
<1>3. ASSUME NEW t \in Timer,
             DelTimer(t) \/ \E m \in Intervals : AddTimer(t, m) \/ ModTimer(t, m)
      PROVE  PassInv'
  <2>1. UNCHANGED <<deferredVars, passVars, historyVars>>
    BY <1>3 DEF DelTimer, AddTimer, ModTimer
  <2>2. \A d \in Deferred : life'[d] = life[d]
    BY <1>1, <1>3 DEF DelTimer, AddTimer, ModTimer, TypeOK
  <2>. QED BY <1>2, <2>1, <2>2
<1>4. ASSUME NEW w \in Wakeup,
             \/ AddWakeup(w) \/ DelWakeup(w)
             \/ \E t \in Timer, m \in Intervals : AddForcedWakeup(w, t, m)
      PROVE  PassInv'
  <2>1. UNCHANGED <<deferredVars, passVars, historyVars>>
    BY <1>4 DEF AddWakeup, DelWakeup, AddForcedWakeup
  <2>2. \A d \in Deferred : life'[d] = life[d]
    BY <1>1, <1>4 DEF AddWakeup, DelWakeup, AddForcedWakeup, TypeOK
  <2>. QED BY <1>2, <2>1, <2>2
<1>5. ASSUME Quit PROVE PassInv'
  BY <1>2, <1>5 DEF Quit
<1>6. ASSUME NEW d \in Deferred, AddDeferred(d) PROVE PassInv'
  <2>1. /\ life[d] = "free" /\ life' = [life EXCEPT ![d] = "live"] /\ off' = [off EXCEPT ![d] = FALSE]
        /\ deferred' = Append(deferred, d) /\ UNCHANGED <<phase, nxt, due, ran>>
    BY <1>6 DEF AddDeferred, passVars, historyVars
  <2>2. deferred \in Seq(Deferred) /\ ran \in [Deferred -> 0 .. 2]
    BY <1>1 DEF TypeOK
  <2>3. \A x : Before(deferred', nxt, x) <=> Before(deferred, nxt, x) \/ (nxt \in Range(deferred) /\ x = d)
    BY <2>1, <2>2, AppendBefore
  <2>4. \A x : x # d => (Ahead(x)' <=> Ahead(x))
    BY <2>1, <2>3 DEF Ahead
  <2>5. ran[d] = 0 /\ d \notin due
    BY <2>1, <2>2 DEF PassInv, Active, Live
  <2>6. \A x \in due' : Active(x)'
    BY <1>1, <2>1, <2>5 DEF PassInv, Active, Live, TypeOK
  <2>7. \A x \in Deferred : x # d => life'[x] = life[x]
    BY <1>1, <2>1 DEF TypeOK
  <2>. QED BY <2>1, <2>4, <2>5, <2>6, <2>7 DEF PassInv
<1>7. ASSUME NEW d \in Deferred, DelDeferred(d) \/ DisableDeferred(d) PROVE PassInv'
  <2>1. /\ due' = due \ {d} /\ UNCHANGED <<deferred, nxt, phase, ran>>
        /\ \A x \in Deferred : life[x] # "free" => life'[x] # "free"
        /\ \A x \in Deferred : x # d => life'[x] = life[x] /\ off'[x] = off[x]
    BY <1>1, <1>7 DEF DelDeferred, DisableDeferred, Live, deferredVars, passVars, TypeOK
  <2>2. \A x \in due' : Active(x)'
    BY <1>1, <2>1 DEF PassInv, Active, Live, TypeOK
  <2>. QED BY <2>1, <2>2, PassSame
<1>8. ASSUME NEW d \in Deferred, EnableDeferred(d) PROVE PassInv'
  <2>1. /\ phase # "deferred" /\ off' = [off EXCEPT ![d] = FALSE]
        /\ UNCHANGED <<life, phase, due, ran>>
    BY <1>8 DEF EnableDeferred, passVars, historyVars
  <2>2. \A x \in due' : Active(x)'
    BY <1>1, <2>1 DEF PassInv, Active, Live, TypeOK
  <2>3. \A x \in Deferred : ran'[x] = 0
    BY <2>1 DEF PassInv
  <2>. QED BY <2>1, <2>2, <2>3, OutsidePass
<1>. QED BY <1>3, <1>4, <1>5, <1>6, <1>7, <1>8 DEF Call

(* Parking a member other than nxt leaves the others ahead where they are. *)
LEMMA ParkedAhead ==
  ASSUME LoopInv, NEW d \in Deferred, Park(d), NEW n, n # d
  PROVE  \A x : x # d => (Before(deferred', n, x) <=> Before(deferred, n, x))
<1>1. deferred \in Seq(Deferred) /\ IsInjective(deferred)
  BY DEF LoopInv, TypeOK
<1>2. CASE Live(d) /\ off[d]
  BY <1>1, <1>2, RemoveFirstBefore DEF Park
<1>3. CASE ~(Live(d) /\ off[d])
  BY <1>3 DEF Park
<1>. QED BY <1>2, <1>3

(* Going on leaves ahead what was ahead but the member that is passed.     *)
LEMMA PassAhead ==
  ASSUME LoopInv, Visiting("deferred"), NEW n, n = After(deferred, nxt)
  PROVE  \A x : (n # Nil /\ (x = n \/ Before(deferred, n, x))) <=> Ahead(x) /\ x # nxt
<1> USE Constants
<1>1. /\ deferred \in Seq(Deferred) /\ IsInjective(deferred) /\ nxt \in Range(deferred) /\ nxt # Nil
      /\ Nil \notin Deferred
  BY NextOf DEF LoopInv, TypeOK, Visiting
<1>2. /\ n # Nil => Before(deferred, nxt, n)
      /\ \A x : Before(deferred, nxt, x) => n # Nil /\ (x = n \/ Before(deferred, n, x))
  BY <1>1, AfterFacts
<1>3. /\ \A a, b : Before(deferred, a, b) => a # b
      /\ \A a, b : Before(deferred, a, b) => ~Before(deferred, b, a)
      /\ \A a, b, c : Before(deferred, a, b) /\ Before(deferred, b, c) => Before(deferred, a, c)
  BY <1>1, BeforeOrder
<1>. QED BY <1>1, <1>2, <1>3 DEF Ahead

(* The steps of the loop, in the pass and around it.                       *)
LEMMA LoopInPass ==
  ASSUME LoopInv, LoopInv', PassInv, Return \/ Dispatch \/ Woken \/ TimedOut \/ Tick
  PROVE  PassInv'
<1> USE Constants
<1>1. TypeOK
  BY DEF LoopInv
<1>2. ASSUME UNCHANGED <<life, off, deferred, nxt, phase, historyVars>> PROVE PassInv'
  <2>1. \A d \in due' : Active(d)'
    BY <1>2 DEF PassInv, Active, Live, historyVars
  <2>. QED BY <1>2, <2>1, PassSame DEF historyVars
<1>3. ASSUME UNCHANGED <<life, off, historyVars>>, phase # "deferred", phase' # "deferred"
      PROVE  PassInv'
  <2>1. /\ \A d \in due' : Active(d)'
        /\ \A d \in Deferred : ran'[d] = 0
    BY <1>3 DEF PassInv, Active, Live, historyVars
  <2>. QED BY <1>3, <2>1, OutsidePass
<1>4. ASSUME Return PROVE PassInv'
  <2>1. CASE WakeupReturns \/ TimerReturns \/ IoReturns
    BY <1>2, <2>1 DEF WakeupReturns, TimerReturns, IoReturns, deferredVars, passVars
  <2>2. CASE DeferredReturns
    <3>1. /\ phase = "deferred" /\ cur # Nil /\ Park(cur)
          /\ UNCHANGED <<life, off, phase, nxt, due, ran>>
      BY <2>2 DEF DeferredReturns, passVars, historyVars
    <3>2. PICK d \in Deferred : d = cur
      BY <1>1, <3>1 DEF LoopInv, Places, TypeOK, Range
    <3>3. Park(d) /\ (nxt # Nil => nxt # d)
      BY <3>1, <3>2 DEF LoopInv, Places
    <3>4. \A x \in due' : Active(x)'
      BY <3>1 DEF PassInv, Active, Live
    <3>5. CASE Live(d) /\ off[d]
      <4>1. d \notin due
        BY <3>5 DEF PassInv, Active
      <4>2. ASSUME NEW x PROVE Ahead(x)' <=> Ahead(x) /\ x # d
        <5>1. deferred' = RemoveFirst(deferred, d) /\ deferred \in Seq(Deferred) /\ IsInjective(deferred)
          BY <1>1, <3>3, <3>5 DEF Park, TypeOK
        <5>2. Before(deferred', nxt, x) <=> Before(deferred, nxt, x) /\ nxt # d /\ x # d
          BY <5>1, RemoveFirstBefore
        <5>. QED BY <3>1, <3>3, <5>2 DEF Ahead
      <4>. QED BY <3>1, <3>4, <4>1, <4>2 DEF PassInv
    <3>6. CASE ~(Live(d) /\ off[d])
      <4>1. UNCHANGED deferred
        BY <3>3, <3>6 DEF Park
      <4>. QED BY <1>2, <3>1, <4>1 DEF historyVars
    <3>. QED BY <3>5, <3>6
  <2>. QED BY <1>4, <2>1, <2>2 DEF Return
<1>5. ASSUME WakeupsDone PROVE PassInv'
  <2>1. /\ PassOver /\ NextPass("deferred", deferred)
        /\ due' = {d \in Deferred : Active(d)} /\ ran' = [d \in Deferred |-> 0]
        /\ UNCHANGED <<life, deferred, inactive, off>>
    BY <1>5 DEF WakeupsDone, deferredVars
  <2>2. /\ \A d \in due' : Active(d)'
        /\ \A d \in Deferred : ran'[d] = 0
    BY <2>1 DEF Active, Live
  <2>3. CASE quit
    BY <2>1, <2>2, <2>3, OutsidePass DEF NextPass, StartPass
  <2>4. CASE ~quit
    <3>1. phase' = "deferred" /\ nxt' = Head1(deferred)
      BY <2>1, <2>4 DEF NextPass, StartPass
    <3>2. ASSUME NEW d \in due' PROVE Ahead(d)'
      <4>1. d \in Range(deferred)
        BY <1>1, <2>1 DEF TypeOK, LoopInv, Parked, Active, Live
      <4>2. deferred \in Seq(Deferred) /\ Nil \notin Deferred
        BY <1>1 DEF TypeOK
      <4>3. nxt' # Nil /\ (d = nxt' \/ Before(deferred, nxt', d))
        BY <3>1, <4>1, <4>2, HeadFacts
      <4>. QED BY <2>1, <4>3 DEF Ahead
    <3>. QED BY <2>2, <3>1, <3>2 DEF PassInv
  <2>. QED BY <2>3, <2>4
<1>6. ASSUME SkipDeferred PROVE PassInv'
  <2>1. /\ Visiting("deferred") /\ ~Active(nxt) /\ nxt' = After(deferred, nxt) /\ Park(nxt)
        /\ UNCHANGED <<life, off, phase, due, ran>>
    BY <1>6 DEF SkipDeferred, historyVars
  <2>2. nxt \in Deferred /\ nxt # nxt' /\ phase = "deferred"
    BY <2>1, NextOf DEF Visiting
  <2>3. \A x : x # nxt => (Ahead(x)' <=> Ahead(x))
    <3>1. \A x : (nxt' # Nil /\ (x = nxt' \/ Before(deferred, nxt', x))) <=> Ahead(x) /\ x # nxt
      BY <2>1, PassAhead
    <3>2. \A x : x # nxt => (Before(deferred', nxt', x) <=> Before(deferred, nxt', x))
      BY <2>1, <2>2, ParkedAhead
    <3>. QED BY <3>1, <3>2 DEF Ahead
  <2>4. nxt \notin due /\ ran[nxt] = 0
    BY <2>1, <2>2 DEF PassInv, Ahead, Visiting
  <2>5. \A d \in due' : Active(d)'
    BY <2>1 DEF PassInv, Active, Live
  <2>. QED BY <2>1, <2>2, <2>3, <2>4, <2>5 DEF PassInv
<1>7. ASSUME CallDeferred PROVE PassInv'
  <2>1. /\ Visiting("deferred") /\ Active(nxt) /\ nxt' = After(deferred, nxt)
        /\ ran' = [ran EXCEPT ![nxt] = IF @ = 2 THEN 2 ELSE @ + 1]
        /\ UNCHANGED <<life, off, deferred, phase, due>>
    BY <1>7 DEF CallDeferred, deferredVars
  <2>2. nxt \in Deferred /\ phase = "deferred" /\ Ahead(nxt) /\ life[nxt] # "free"
    BY <2>1, NextOf DEF Visiting, Ahead
  <2>3. \A x : Ahead(x)' <=> Ahead(x) /\ x # nxt
    BY <2>1, PassAhead DEF Ahead
  <2>4. ran'[nxt] = 1 /\ \A d \in Deferred : d # nxt => ran'[d] = ran[d]
    <3>1. ran[nxt] = 0 /\ ran \in [Deferred -> 0 .. 2]
      BY <1>1, <2>2 DEF PassInv, TypeOK
    <3>. QED BY <2>1, <2>2, <3>1
  <2>5. \A d \in due' : Active(d)'
    BY <2>1 DEF PassInv, Active, Live
  <2>. QED BY <2>1, <2>2, <2>3, <2>4, <2>5 DEF PassInv
<1>8. ASSUME DeferredDone PROVE PassInv'
  <2>1. due' = {} /\ ran' = [d \in Deferred |-> 0] /\ phase' # "deferred"
    BY <1>8 DEF DeferredDone, NextPass, StartPass
  <2>. QED BY <2>1, OutsidePass
<1>9. ASSUME Iterate PROVE PassInv'
  <2>1. /\ phase = "io" /\ phase' # "deferred" /\ UNCHANGED <<due, ran>>
        /\ life' = [o \in Object |-> IF life[o] = "deleted" THEN "free" ELSE life[o]]
        /\ off' = [d \in Deferred |-> life[d] # "deleted" /\ off[d]]
    BY <1>9 DEF Iterate, Purge, historyVars
  <2>2. \A d \in due' : Active(d)'
    BY <1>1, <2>1 DEF PassInv, Active, Live, TypeOK
  <2>3. \A d \in Deferred : ran'[d] = 0
    BY <2>1 DEF PassInv
  <2>. QED BY <2>1, <2>2, <2>3, OutsidePass
<1>10. ASSUME \/ SkipWakeup \/ CallWakeup \/ SkipTimer \/ CallTimer \/ HoldBackForced
              \/ TimersDone \/ CallIo
       PROVE  PassInv'
  BY <1>3, <1>10 DEF SkipWakeup, CallWakeup, SkipTimer, CallTimer, HoldBackForced, TimersDone, CallIo,
     Visiting, StartPass, deferredVars, passVars
<1>11. ASSUME Woken \/ TimedOut PROVE PassInv'
  BY <1>3, <1>11 DEF Woken, TimedOut, PollReturns, StartWakeups, StartPass, deferredVars
<1>12. ASSUME Tick PROVE PassInv'
  BY <1>2, <1>12 DEF Tick, deferredVars
<1>. QED BY <1>4, <1>5, <1>6, <1>7, <1>8, <1>9, <1>10, <1>11, <1>12 DEF Dispatch

(* Each active deferred callback is called exactly once in an iteration    *)
(* (dispatch_deferred(), mainloop.c:1641-1663), whatever callbacks add,    *)
(* disable and delete during the pass, if they enable none: one that is    *)
(* enabled moves to the end of the list, and may come up again.            *)
THEOREM ExactlyOnceCorrect ==
  ASSUME ~ReenableInPass
  PROVE  Spec => []ExactlyOnce
<1>1. Init => PassInv
  <2> SUFFICES ASSUME Init PROVE PassInv
    OBVIOUS
  <2>. QED BY DEF Init, PassInv
<1>2. LoopInv /\ LoopInv' /\ PassInv /\ [Next]_vars => PassInv'
  <2> SUFFICES ASSUME LoopInv, LoopInv', PassInv, [Next]_vars PROVE PassInv'
    OBVIOUS
  <2>1. CASE Call
    BY <2>1, CallInPass
  <2>2. CASE Return \/ Dispatch \/ Woken \/ TimedOut \/ Tick
    BY <2>2, LoopInPass
  <2>3. CASE UNCHANGED vars
    <3>1. UNCHANGED <<life, off, deferred, nxt, phase, due, ran>>
      BY <2>3 DEF vars, deferredVars, passVars, historyVars
    <3>2. \A d \in due' : Active(d)'
      BY <3>1 DEF PassInv, Active, Live
    <3>. QED BY <3>1, <3>2, PassSame
  <2>. QED BY <2>1, <2>2, <2>3 DEF Next
<1>3. LoopInv /\ PassInv => ExactlyOnce
  BY DEF LoopInv, PassInv, ExactlyOnce, PassOver, Ahead
<1>. QED BY <1>1, <1>2, <1>3, LoopInvariant, PTL DEF Spec

=============================================================================
