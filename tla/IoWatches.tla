----------------------------- MODULE IoWatches ------------------------------
(***************************************************************************)
(* The I/O watches of mainloop.c and the epoll instance behind them.       *)
(*                                                                         *)
(* The first watch of a descriptor is its master: it is in the descriptor  *)
(* table and on ml->iowatches.  Further watches are its slaves, a list     *)
(* whose head is the master.  A deleted watch stays where it is, asking    *)
(* for nothing, until the mainloop has dispatched what it collected; then  *)
(* purge_deleted() frees it and makes its first slave the master.          *)
(*                                                                         *)
(* The program may add and delete watches and close and open descriptors   *)
(* before, between and in the callbacks, so these calls are possible at    *)
(* any time but during a purge, and a callback needs no end of its own.    *)
(*                                                                         *)
(* A poll collects any of the events the kernel was asked for, and hup,    *)
(* which it reports unasked.                                               *)
(***************************************************************************)
EXTENDS Integers, Lists

CONSTANTS
  Watch, Fd,       \* watches that can be allocated, and descriptors
  NoWatch,
  Masks,           \* what watches ask for: bounds the inputs
  HupLimit,        \* hangups a watch may ignore, 5 in the code
  AddAfterHup,     \* watch a descriptor with a watch that is polled no more
  DestroyDead      \* destroy the mainloop while deleted slaves wait

ASSUME IoWatchesAssumption ==
  /\ NoWatch \notin Watch /\ IsFiniteSet(Fd) /\ Fd # {}
  /\ Masks \subseteq (SUBSET {"in", "out", "rdhup"}) \ {{}}
  /\ HupLimit \in Nat
  /\ {AddAfterHup, DestroyDead} \subseteq BOOLEAN

INOUT == {"in", "out"}

VARIABLES
  wLife,      \* free, live or dead: deleted and not freed yet
  wFd, wMask, \* w->fd, w->events
  iowatches,  \* ml->iowatches, the watches is_master() holds of
  slaves,     \* w->slave, with w as the head of the list
  fdtbl,      \* ml->fdtbl
  wDeleted,   \* the watches on ml->deleted
  wrhup,      \* w->wrhup
  hungUp,       \* polled no more after a hangup
  open,       \* descriptors that are open
  inEpoll, polled,  \* what epoll watches, and for which events
  ioStage,    \* what the mainloop is doing
  collected,  \* ml->events from the entry being dispatched on
  dispatched, \* the watch the table had for that entry
  leftOver, nextSlave, slave,  \* dispatch_slaves(): events, n and s
  there, called, served  \* history of the entry: the watches there all
              \* along, what they were called with, the events that reached
              \* a watch asking for them

watchVars == <<wLife, wFd, wMask, iowatches, slaves, fdtbl, wDeleted, wrhup, hungUp>>
kernelVars == <<open, inEpoll, polled>>
entryVars == <<dispatched, leftOver, nextSlave, slave, there, called, served>>
ioVars == <<watchVars, kernelVars, ioStage, collected, entryVars>>

LiveWatch(w) == wLife[w] = "live"

WatchesOf(fd) == {w \in Watch : LiveWatch(w) /\ wFd[w] = fd}

\* w is in the table or behind the watch that is.
InTable(w) ==
  LET m == fdtbl[wFd[w]]
  IN  m # NoWatch /\ (w = m \/ w \in Range(slaves[m]))

IoInit ==
  /\ wLife = [w \in Watch |-> "free"]
  /\ wFd = [w \in Watch |-> CHOOSE fd \in Fd : TRUE]
  /\ wMask = [w \in Watch |-> {}]
  /\ iowatches = {} /\ wDeleted = <<>> /\ hungUp = {}
  /\ slaves = [w \in Watch |-> <<>>]
  /\ fdtbl = [fd \in Fd |-> NoWatch]
  /\ wrhup = [w \in Watch |-> 0]
  /\ open = Fd /\ inEpoll = {} /\ polled = [fd \in Fd |-> {}]
  /\ ioStage = "poll" /\ collected = <<>>
  /\ dispatched = NoWatch /\ leftOver = {} /\ nextSlave = NoWatch /\ slave = NoWatch
  /\ there = {} /\ served = {} /\ called = [w \in Watch |-> {}]

\* What the watches of a master ask for without the one to ignore.
EpollEventMask(mask, m, ignore) ==
  UNION {mask[w] : w \in ({m} \cup Range(slaves[m])) \ {ignore}}

----------------------------------------------------------------------------
\* The calls of the program.

CallsPossible == ioStage \notin {"purge", "destroyed"}

\* epoll_add(): the first watch of a descriptor.
EpollAdd(w, fd, mask) ==
  /\ fdtbl[fd] = NoWatch
  /\ fdtbl' = [fdtbl EXCEPT ![fd] = w]
  /\ inEpoll' = inEpoll \cup {fd}
  /\ polled' = [polled EXCEPT ![fd] = mask]
  /\ iowatches' = iowatches \cup {w}
  /\ UNCHANGED slaves

\* epoll_add_slave(): one more, asking for what all of them ask for.
EpollAddSlave(w, fd, mask) ==
  LET m == fdtbl[fd]
  IN  /\ m # NoWatch
      /\ polled' = [polled EXCEPT ![fd] = EpollEventMask(wMask, m, NoWatch) \cup mask]
      /\ slaves' = [slaves EXCEPT ![m] = Append(@, w)]
      /\ UNCHANGED <<fdtbl, inEpoll, iowatches>>

AddIoWatch(w, fd, mask) ==
  /\ CallsPossible
  /\ wLife[w] = "free" /\ fd \in open
  /\ AddAfterHup \/ \A v \in WatchesOf(fd) : InTable(v)
  /\ wLife' = [wLife EXCEPT ![w] = "live"]
  /\ wFd' = [wFd EXCEPT ![w] = fd]
  /\ wMask' = [wMask EXCEPT ![w] = mask]
  /\ wrhup' = [wrhup EXCEPT ![w] = 0]
  /\ EpollAdd(w, fd, mask) \/ EpollAddSlave(w, fd, mask)
  /\ UNCHANGED <<wDeleted, hungUp, open, ioStage, collected, entryVars>>

\* epoll_del(): poll for the others, or take the descriptor out of the table
\* when they ask for nothing.  mask is w->events of all watches by then.
EpollDel(w, mask) ==
  LET fd == wFd[w]
      m == IF w \in iowatches THEN w ELSE fdtbl[fd]
      asked == EpollEventMask(mask, m, w)
  IN  IF m = NoWatch THEN UNCHANGED <<fdtbl, inEpoll, polled>>
      ELSE IF asked = {} THEN
        /\ fdtbl' = [fdtbl EXCEPT ![fd] = NoWatch]
        /\ inEpoll' = inEpoll \ {fd}
        /\ polled' = [polled EXCEPT ![fd] = {}]
      ELSE
        /\ polled' = IF fd \in inEpoll THEN [polled EXCEPT ![fd] = asked] ELSE polled
        /\ UNCHANGED <<fdtbl, inEpoll>>

DelIoWatch(w) ==
  /\ CallsPossible
  /\ LiveWatch(w)
  /\ wLife' = [wLife EXCEPT ![w] = "dead"]
  /\ wDeleted' = Append(wDeleted, w)
  /\ wMask' = [wMask EXCEPT ![w] = {}]
  /\ EpollDel(w, wMask')
  /\ UNCHANGED <<wFd, iowatches, slaves, wrhup, hungUp, open, ioStage, collected, entryVars>>

\* A program closes a descriptor when it has deleted its watches.
CloseFd(fd) ==
  /\ CallsPossible
  /\ fd \in open /\ WatchesOf(fd) = {}
  /\ open' = open \ {fd}
  /\ inEpoll' = inEpoll \ {fd}
  /\ polled' = [polled EXCEPT ![fd] = {}]
  /\ UNCHANGED <<watchVars, ioStage, collected, entryVars>>

\* It may come back with events of its last bearer collected.
OpenFd(fd) ==
  /\ CallsPossible
  /\ fd \notin open
  /\ open' = open \cup {fd}
  /\ UNCHANGED <<watchVars, inEpoll, polled, ioStage, collected, entryVars>>

----------------------------------------------------------------------------
\* An iteration of the mainloop.

Reports(fd) == (SUBSET (polled[fd] \cup {"hup"})) \ {{}}

\* iot_mainloop_poll()
PollIo ==
  /\ ioStage = "poll"
  /\ \E fds \in SUBSET inEpoll :
       \E order \in SetToSeqs(fds), report \in [fds -> SUBSET {"in", "out", "rdhup", "hup"}] :
         /\ \A fd \in fds : report[fd] \in Reports(fd)
         /\ collected' = [i \in DOMAIN order |-> [fd |-> order[i], events |-> report[order[i]]]]
  /\ ioStage' = "entry"
  /\ UNCHANGED <<watchVars, kernelVars, entryVars>>

IoEntry == collected[1]

\* dispatch_poll_events(): look the watch up and call it, if there is one and
\* it is not deleted, with all that was reported.
DispatchEntry ==
  /\ ioStage = "entry" /\ collected # <<>>
  /\ LET w == fdtbl[IoEntry.fd]
     IN  IF w = NoWatch THEN
           /\ collected' = Tail(collected)
           /\ UNCHANGED <<ioStage, entryVars>>
         ELSE
           /\ dispatched' = w
           /\ there' = WatchesOf(IoEntry.fd)
           /\ called' = [v \in Watch |-> IF v = w /\ LiveWatch(w) THEN IoEntry.events ELSE {}]
           /\ served' = IoEntry.events \cap wMask[w]
           /\ ioStage' = "slaves"
           /\ leftOver' = {} /\ nextSlave' = NoWatch /\ slave' = NoWatch
           /\ UNCHANGED collected
  /\ UNCHANGED <<watchVars, kernelVars>>

\* dispatch_slaves(): what the master asked for of in and out is not passed
\* on, and what a deleted one asked for is.
DispatchSlaves ==
  /\ ioStage = "slaves"
  /\ IF slaves[dispatched] = <<>> THEN
       /\ ioStage' = "hup"
       /\ UNCHANGED <<leftOver, nextSlave>>
     ELSE
       /\ leftOver' = IoEntry.events \ (INOUT \cap wMask[dispatched])
       /\ nextSlave' = slaves[dispatched][1]
       /\ ioStage' = "slave"
  /\ UNCHANGED <<watchVars, kernelVars, collected, dispatched, slave, there, called, served>>

\* What is left for the slaves behind the one just visited.
M_PassedOn(s) == leftOver \ (IF s = NoWatch THEN {} ELSE wMask[s])
PassedOn(s) == leftOver \ (IF s = NoWatch THEN {} ELSE INOUT \cap wMask[s])

DispatchSlave ==
  /\ ioStage = "slave"
  /\ leftOver' = PassedOn(slave)
  /\ IF nextSlave = NoWatch \/ leftOver' = {} THEN
       /\ ioStage' = "hup"
       /\ slave' = NoWatch
       /\ UNCHANGED <<nextSlave, called, served>>
     ELSE
       /\ slave' = nextSlave
       /\ nextSlave' = FollowerOf(slaves[dispatched], nextSlave, NoWatch)
       /\ called' = IF LiveWatch(nextSlave) THEN [called EXCEPT ![nextSlave] = leftOver'] ELSE called
       /\ served' = served \cup (leftOver' \cap wMask[nextSlave])
       /\ UNCHANGED ioStage
  /\ UNCHANGED <<watchVars, kernelVars, collected, dispatched, there>>

\* The end of an entry: a descriptor whose peer has hung up is polled no more,
\* at once, or when its watch has ignored too many hangups.  A quit leaves
\* the entries behind undispatched.
DispatchHup ==
  LET w == dispatched
      shut == "rdhup" \in IoEntry.events
      ignored == ~shut /\ "hup" \in IoEntry.events /\ LiveWatch(w)
      stop == (shut \/ (ignored /\ wrhup[w] > HupLimit)) /\ fdtbl[wFd[w]] = w
  IN  /\ ioStage = "hup"
      /\ wrhup' = IF ignored /\ wrhup[w] <= HupLimit THEN [wrhup EXCEPT ![w] = @ + 1] ELSE wrhup
      /\ IF stop THEN EpollDel(w, wMask) ELSE UNCHANGED <<fdtbl, inEpoll, polled>>
      /\ hungUp' = IF stop /\ LiveWatch(w) THEN hungUp \cup {w} ELSE hungUp
      /\ ioStage' = "entry"
      /\ \E quit \in BOOLEAN : collected' = IF quit THEN <<>> ELSE Tail(collected)
      /\ dispatched' = NoWatch /\ there' = {} /\ served' = {}
      /\ called' = [v \in Watch |-> {}]
      /\ UNCHANGED <<wLife, wFd, wMask, iowatches, slaves, wDeleted, open,
                     leftOver, nextSlave, slave>>

EndDispatch ==
  /\ ioStage = "entry" /\ collected = <<>>
  /\ ioStage' = "purge"
  /\ UNCHANGED <<watchVars, kernelVars, collected, entryVars>>

\* free_io_watch(): hand what it was the head of to its first slave.
M_FreeIoWatch(w) ==
  LET heir == FirstOf(slaves[w], NoWatch)
  IN  /\ slaves' = [v \in Watch |->
           IF v = w THEN <<>>
           ELSE IF v = heir THEN Tail(slaves[w])
           ELSE RemoveFirst(slaves[v], w)]
      /\ fdtbl' = [fd \in Fd |-> IF fdtbl[fd] = w THEN NoWatch ELSE fdtbl[fd]]
      /\ iowatches' = iowatches \ {w}
FreeIoWatch(w) ==
  LET heir == FirstOf(slaves[w], NoWatch)
  IN  /\ slaves' = [v \in Watch |->
           IF v = w THEN <<>>
           ELSE IF v = heir THEN Tail(slaves[w])
           ELSE RemoveFirst(slaves[v], w)]
      /\ fdtbl' = [fd \in Fd |-> IF fdtbl[fd] = w THEN heir ELSE fdtbl[fd]]
      /\ iowatches' = (iowatches \ {w}) \cup
           (IF fdtbl[wFd[w]] = w /\ heir # NoWatch THEN {heir} ELSE {})

\* purge_deleted()
PurgeWatch ==
  /\ ioStage \in {"purge", "destroyed"} /\ wDeleted # <<>>
  /\ LET w == Head(wDeleted)
     IN  /\ FreeIoWatch(w)
         /\ wLife' = [wLife EXCEPT ![w] = "free"]
         /\ wrhup' = [wrhup EXCEPT ![w] = 0]
         /\ hungUp' = hungUp \ {w}
  /\ wDeleted' = Tail(wDeleted)
  /\ UNCHANGED <<wFd, wMask, kernelVars, ioStage, collected, entryVars>>

EndPurge ==
  /\ ioStage = "purge" /\ wDeleted = <<>>
  /\ ioStage' = "poll"
  /\ UNCHANGED <<watchVars, kernelVars, collected, entryVars>>

\* purge_io_watches() of iot_mainloop_destroy(): the masters leave the list of
\* the deleted, their slaves do not.
DestroyWatches ==
  LET gone == iowatches \cup UNION {Range(slaves[w]) : w \in iowatches}
  IN  /\ ioStage = "poll"
      /\ DestroyDead \/ Range(wDeleted) \subseteq iowatches
      /\ wLife' = [w \in Watch |-> IF w \in gone THEN "free" ELSE wLife[w]]
      /\ wDeleted' = Keep(wDeleted, Watch \ iowatches)
      /\ iowatches' = {} /\ slaves' = [w \in Watch |-> <<>>] /\ hungUp' = {}
      /\ fdtbl' = [fd \in Fd |-> NoWatch]
      /\ wrhup' = [w \in Watch |-> 0]
      /\ inEpoll' = {} /\ polled' = [fd \in Fd |-> {}]
      /\ ioStage' = "destroyed"
      /\ UNCHANGED <<wFd, wMask, open, collected, entryVars>>

IoNext ==
  \/ \E w \in Watch : DelIoWatch(w) \/ \E fd \in Fd, mask \in Masks : AddIoWatch(w, fd, mask)
  \/ \E fd \in Fd : CloseFd(fd) \/ OpenFd(fd)
  \/ PollIo \/ DispatchEntry \/ DispatchSlaves \/ DispatchSlave \/ DispatchHup
  \/ EndDispatch \/ PurgeWatch \/ EndPurge \/ DestroyWatches

IoSpec == IoInit /\ [][IoNext]_ioVars

----------------------------------------------------------------------------
\* The kernel, the table and the lists agree, whoever was deleted in whatever
\* callback and whichever watch is purged first: a live watch that has not
\* been hung up on is found by its descriptor, the kernel polls for all of
\* what it asks and for nothing nobody asks for, and nothing that has been
\* freed can be reached.
IoConsistent ==
  /\ \A w \in Watch :
       /\ LiveWatch(w) /\ w \notin hungUp =>
            InTable(w) /\ wFd[w] \in inEpoll /\ wMask[w] \subseteq polled[wFd[w]]
       /\ \A v \in Range(slaves[w]) :
            /\ wLife[v] # "free" /\ wFd[v] = wFd[w]
            /\ \A u \in Watch \ {w} : v \notin Range(slaves[u])
       /\ ioStage = "destroyed" => wLife[w] # "live"
  /\ \A fd \in Fd :
       /\ fd \in inEpoll <=> fdtbl[fd] # NoWatch
       /\ polled[fd] \subseteq UNION {wMask[w] : w \in WatchesOf(fd)}
       /\ fdtbl[fd] # NoWatch => fdtbl[fd] \in iowatches /\ wFd[fdtbl[fd]] = fd
  /\ \A w \in iowatches \cup Range(wDeleted) : wLife[w] # "free"

\* What the kernel reports of a descriptor reaches every watch that was there
\* all along and asked for it; in and out may have been taken by one before
\* it that asked, too, and was not deleted in its callback.
EventsServed ==
  ioStage = "hup" =>
    \A w \in there : LiveWatch(w) =>
      IoEntry.events \cap wMask[w] \subseteq called[w] \cup (served \cap INOUT)
=============================================================================
