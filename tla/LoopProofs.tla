----------------------------- MODULE LoopProofs -----------------------------
(***************************************************************************)
(* What is proved of the parts of the mainloop that have no timers, for    *)
(* any watches, descriptors, signals, handlers, buses and delays: that the *)
(* I/O watches' structures agree and a poll's descriptors are served, that *)
(* each handler of a signal is called, that an emission calls each watch   *)
(* that asked for its event once, and that a host pumps the mainloop in    *)
(* time and can sleep.                                                     *)
(*                                                                         *)
(* Each part has an inductive invariant of its own, at the head of its     *)
(* section.  The theorems have the hypotheses that the code needs: what a  *)
(* program must not do with a watch, a bus or its host is what findings    *)
(* show the code not to bear.                                              *)
(***************************************************************************)
EXTENDS IoWatches, Signals, EventBus, Superloop, SeqFacts

-----------------------------------------------------------------------------
(* The inductive invariant of I/O watches.                                 *)

IoTyped ==
  /\ wLife \in [Watch -> {"free", "live", "dead"}] /\ wFd \in [Watch -> Fd]
  /\ wMask = [w \in Watch |-> wMask[w]] /\ called = [w \in Watch |-> called[w]]
  /\ iowatches \subseteq Watch /\ slaves \in [Watch -> Seq(Watch)]
  /\ fdtbl \in [Fd -> Watch \cup {NoWatch}] /\ wDeleted \in Seq(Watch)
  /\ inEpoll \subseteq Fd /\ polled = [fd \in Fd |-> polled[fd]]
  /\ collected \in Seq([fd : Fd, events : SUBSET {"in", "out", "rdhup", "hup"}])
  /\ ioStage \in {"poll", "entry", "slaves", "slave", "hup", "purge", "destroyed"}

(* A slave has one head, of its descriptor, and is the head of nothing.    *)
ListsKept ==
  /\ \A w \in Watch : IsInjective(slaves[w])
  /\ \A w, v \in Watch : v \in Range(slaves[w]) =>
       /\ wLife[v] # "free" /\ wLife[w] # "free" /\ wFd[v] = wFd[w]
       /\ v \notin iowatches /\ slaves[v] = <<>>
       /\ \A u \in Watch : v \in Range(slaves[u]) => u = w
  /\ \A w \in iowatches : wLife[w] # "free"

(* Who waits to be freed asks for nothing, and who is alive for something. *)
LivesKept ==
  /\ IsInjective(wDeleted)
  /\ \A w \in Watch : /\ w \in Range(wDeleted) <=> wLife[w] = "dead"
                      /\ wLife[w] = "dead" => wMask[w] = {}
                      /\ wLife[w] = "live" => wMask[w] # {}
  /\ ioStage = "destroyed" => \A w \in Watch : wLife[w] = "free"

(* A descriptor in the table has a live watch there; a live watch is there *)
(* unless its descriptor is polled no more.                                *)
TableKept ==
  /\ \A fd \in Fd : fdtbl[fd] # NoWatch =>
       /\ fdtbl[fd] \in iowatches /\ wFd[fdtbl[fd]] = fd
       /\ \E v \in WatchesOf(fd) : InTable(v)
  /\ \A w \in Watch : LiveWatch(w) /\ ~InTable(w) =>
       w \in iowatches /\ w \in hungUp /\ fdtbl[wFd[w]] = NoWatch

PolledKept ==
  /\ \A fd \in Fd : /\ fd \in inEpoll <=> fdtbl[fd] # NoWatch
                    /\ polled[fd] \subseteq UNION {wMask[w] : w \in WatchesOf(fd)}
  /\ \A w \in Watch : LiveWatch(w) /\ w \notin hungUp => wMask[w] \subseteq polled[wFd[w]]

(* What a watch asked for has reached it, or one before it.                *)
Reached(w) ==
  LiveWatch(w) => IoEntry.events \cap wMask[w] \subseteq called[w] \cup (served \cap INOUT)

(* The walk has not come to w yet.                                         *)
Ahead(w) ==
  nextSlave # NoWatch /\ (w = nextSlave \/ Before(slaves[dispatched], nextSlave, w))

EntryKept ==
  LET list == slaves[dispatched]
  IN  /\ collected # <<>> /\ dispatched \in Watch /\ wLife[dispatched] # "free"
      /\ there \subseteq {dispatched} \cup Range(list)
      /\ Reached(dispatched)
      /\ ioStage = "slaves" => /\ IoEntry.events \cap wMask[dispatched] \subseteq served
                               /\ slave = NoWatch
      /\ ioStage = "slave" =>
           /\ IoEntry.events \ leftOver \subseteq served \cap INOUT
           /\ nextSlave \in Range(list) \cup {NoWatch}
           /\ slave \in Range(list) \cup {NoWatch}
           /\ slave # NoWatch => leftOver \cap wMask[slave] \subseteq served
           /\ \A w \in there : Reached(w) \/ Ahead(w)
      /\ ioStage = "hup" => \A w \in there : Reached(w)

Dispatching == ioStage \in {"slaves", "slave", "hup"}

IoInv ==
  /\ IoTyped /\ ListsKept /\ LivesKept /\ TableKept /\ PolledKept
  /\ Dispatching => EntryKept


(* Initially there is no watch.                                            *)
LEMMA IoInitKept == ASSUME IoInit PROVE IoInv
<1>1. (CHOOSE fd \in Fd : TRUE) \in Fd
  BY IoWatchesAssumption
<1>2. IoTyped
  <2>1. \A S : <<>> \in Seq(S)
    BY EmptySeq
  <2>. QED BY <1>1, <2>1 DEF IoInit, IoTyped
<1>3. \A s : s = <<>> => Range(s) = {} /\ IsInjective(s)
  BY DEF Range, IsInjective
<1>4. ListsKept
  BY <1>3 DEF IoInit, ListsKept
<1>5. LivesKept
  BY <1>3 DEF IoInit, LivesKept
<1>6. TableKept /\ PolledKept
  BY DEF IoInit, TableKept, PolledKept, LiveWatch
<1>. QED BY <1>2, <1>4, <1>5, <1>6 DEF IoInv, IoInit, Dispatching

(* Steps that touch neither watches nor what the kernel polls for.         *)
LEMMA WatchesSame ==
  ASSUME IoInv, UNCHANGED <<watchVars, inEpoll, polled>>,
         ioStage' = "destroyed" => ioStage = "destroyed"
  PROVE  ListsKept' /\ LivesKept' /\ TableKept' /\ PolledKept'
<1> USE DEF IoInv, watchVars
<1>1. ListsKept'
  BY DEF ListsKept
<1>2. LivesKept'
  BY DEF LivesKept
<1>3. TableKept'
  BY DEF TableKept, WatchesOf, LiveWatch, InTable
<1>4. PolledKept'
  BY DEF PolledKept, WatchesOf, LiveWatch
<1>. QED BY <1>1, <1>2, <1>3, <1>4

(* What calls of the program may do while an entry is dispatched: watches  *)
(* lose what they asked for, and slaves are added behind the others.       *)
LEMMA CallKeepsEntry ==
  ASSUME IoInv, Dispatching, UNCHANGED <<ioStage, collected, entryVars>>,
         \A w \in Watch : wLife[w] # "free" =>
           wLife'[w] # "free" /\ (wLife'[w] = "live" => wLife[w] = "live") /\ wMask'[w] \subseteq wMask[w],
         \A w \in Watch : /\ Range(slaves[w]) \subseteq Range(slaves'[w])
                          /\ \A a, b : Before(slaves[w], a, b) => Before(slaves'[w], a, b)
  PROVE  EntryKept'
<1> USE DEF entryVars
<1>1. EntryKept /\ IoTyped
  BY DEF IoInv
<1>2. dispatched \in Watch /\ dispatched' = dispatched /\ there' = there
  BY <1>1 DEF EntryKept
<1>3. ASSUME NEW w \in {dispatched} \cup Range(slaves[dispatched])
      PROVE  w \in Watch /\ wLife[w] # "free" /\ (Reached(w) => Reached(w)')
  <2>1. Range(slaves[dispatched]) \subseteq Watch
    BY <1>1, <1>2, MembersOf DEF IoTyped
  <2>2. w \in Watch /\ wLife[w] # "free"
    BY <1>1, <1>3, <2>1 DEF EntryKept, IoInv, ListsKept
  <2>. QED BY <2>2 DEF Reached, LiveWatch, IoEntry
<1>4. \A w : Ahead(w) => Ahead(w)'
  BY <1>2 DEF Ahead
<1>5. \A w \in there : w \in {dispatched} \cup Range(slaves[dispatched])
  BY <1>1 DEF EntryKept
<1>6. /\ collected' # <<>> /\ dispatched' \in Watch /\ wLife'[dispatched'] # "free"
      /\ there' \subseteq {dispatched'} \cup Range(slaves'[dispatched'])
      /\ Reached(dispatched)'
  BY <1>1, <1>2, <1>3 DEF EntryKept
<1>7. ioStage' = "slaves" => /\ IoEntry'.events \cap wMask'[dispatched'] \subseteq served'
                             /\ slave' = NoWatch
  BY <1>1, <1>2 DEF EntryKept, IoEntry
<1>8. ASSUME ioStage' = "slave"
      PROVE  /\ IoEntry'.events \ leftOver' \subseteq served' \cap INOUT
             /\ nextSlave' \in Range(slaves'[dispatched']) \cup {NoWatch}
             /\ slave' \in Range(slaves'[dispatched']) \cup {NoWatch}
             /\ slave' # NoWatch => leftOver' \cap wMask'[slave'] \subseteq served'
             /\ \A w \in there' : Reached(w)' \/ Ahead(w)'
  <2>1. /\ IoEntry.events \ leftOver \subseteq served \cap INOUT
        /\ nextSlave \in Range(slaves[dispatched]) \cup {NoWatch}
        /\ slave \in Range(slaves[dispatched]) \cup {NoWatch}
        /\ slave # NoWatch => leftOver \cap wMask[slave] \subseteq served
        /\ \A w \in there : Reached(w) \/ Ahead(w)
    BY <1>1, <1>8 DEF EntryKept
  <2>2. \A w \in there' : Reached(w)' \/ Ahead(w)'
    BY <1>2, <1>3, <1>4, <1>5, <2>1
  <2>3. slave' # NoWatch => leftOver' \cap wMask'[slave'] \subseteq served'
    BY <1>3, <2>1
  <2>. QED BY <1>2, <2>1, <2>2, <2>3 DEF IoEntry
<1>9. ioStage' = "hup" => \A w \in there' : Reached(w)'
  BY <1>1, <1>2, <1>3, <1>5 DEF EntryKept
<1>. QED BY <1>6, <1>7, <1>8, <1>9 DEF EntryKept

-----------------------------------------------------------------------------
(* The calls of the program.                                               *)

(* All that is alive on a descriptor that is in the table is in the table. *)
LEMMA AliveInTable ==
  ASSUME IoInv, NEW fd \in Fd, fdtbl[fd] # NoWatch
  PROVE  /\ fdtbl[fd] \in Watch /\ wFd[fdtbl[fd]] = fd
         /\ \A w \in WatchesOf(fd) : w = fdtbl[fd] \/ w \in Range(slaves[fdtbl[fd]])
BY DEF IoInv, IoTyped, TableKept, WatchesOf, InTable, LiveWatch

(* The lists when watches stay in them, whatever else happens to them.     *)
LEMMA ListsStay ==
  ASSUME IoInv, UNCHANGED <<wFd, iowatches, slaves>>,
         \A w \in Watch : wLife[w] # "free" => wLife'[w] # "free"
  PROVE  ListsKept'
BY DEF IoInv, ListsKept, IoTyped

(* What a descriptor is polled for is what some watch of it asks for.      *)
LEMMA IoEvMask ==
  ASSUME NEW mask, NEW m, NEW ignore
  PROVE  \A e : e \in EpollEventMask(mask, m, ignore) <=>
                  \E w \in {m} \cup Range(slaves[m]) : w # ignore /\ e \in mask[w]
BY DEF EpollEventMask

(* A watch that is deleted asks for nothing any more; the others that are  *)
(* in the table are polled for, or nothing is.                             *)
LEMMA DelIoWatchKeeps ==
  ASSUME IoInv, NEW w \in Watch, DelIoWatch(w)
  PROVE  IoInv'
<1> DEFINE fd == wFd[w]
           m == IF w \in iowatches THEN w ELSE fdtbl[fd]
           asked == EpollEventMask(wMask', m, w)
<1>1. /\ IoTyped /\ ListsKept /\ LivesKept /\ TableKept /\ PolledKept
      /\ LiveWatch(w) /\ CallsPossible /\ NoWatch \notin Watch
  BY IoWatchesAssumption DEF IoInv, DelIoWatch
<1>2. /\ wLife' = [wLife EXCEPT ![w] = "dead"] /\ wDeleted' = Append(wDeleted, w)
      /\ wMask' = [wMask EXCEPT ![w] = {}]
      /\ UNCHANGED <<wFd, iowatches, slaves, wrhup, hungUp, open, ioStage, collected>>
      /\ UNCHANGED entryVars
      /\ EpollDel(w, wMask')
  BY DEF DelIoWatch
<1>3. /\ \A v \in Watch : /\ wLife'[v] = IF v = w THEN "dead" ELSE wLife[v]
                          /\ wMask'[v] = IF v = w THEN {} ELSE wMask[v]
      /\ \A v \in Watch : LiveWatch(v)' <=> LiveWatch(v) /\ v # w
      /\ \A v \in Watch : InTable(v)' <=> fdtbl'[wFd[v]] # NoWatch
                             /\ (v = fdtbl'[wFd[v]] \/ v \in Range(slaves[fdtbl'[wFd[v]]]))
      /\ wDeleted \in Seq(Watch) /\ w \notin Range(wDeleted)
  BY <1>1, <1>2 DEF IoTyped, LivesKept, LiveWatch, InTable
<1>4. /\ wDeleted' \in Seq(Watch) /\ Range(wDeleted') = Range(wDeleted) \cup {w}
      /\ IsInjective(wDeleted')
  BY <1>1, <1>2, <1>3, AppendFacts DEF LivesKept
<1>5. ListsKept' /\ LivesKept'
  <2>1. ListsKept'
    BY <1>1, <1>2, <1>3, ListsStay
  <2>2. LivesKept'
    BY <1>1, <1>2, <1>3, <1>4 DEF LivesKept, CallsPossible
  <2>. QED BY <2>1, <2>2
(* The watch is in the table, or it is no more but still a master.         *)
<1>6. /\ fd \in Fd /\ m \in Watch /\ wFd[m] = fd /\ wLife[m] # "free"
      /\ fdtbl[fd] # NoWatch => m = fdtbl[fd]
      /\ fdtbl[fd] = NoWatch => m = w /\ w \in iowatches
  BY <1>1 DEF IoTyped, TableKept, ListsKept, InTable, LiveWatch
<1>7. \A v \in Watch : LiveWatch(v) /\ wFd[v] = fd /\ v # w /\ fdtbl[fd] # NoWatch =>
        v \in {m} \cup Range(slaves[m])
  BY <1>1, <1>6 DEF TableKept, InTable
<1>8. /\ \A e : e \in asked => \E v \in {m} \cup Range(slaves[m]) : v # w /\ e \in wMask[v]
      /\ \A v \in {m} \cup Range(slaves[m]) : v # w => wMask[v] \subseteq asked
      /\ \A v \in {m} \cup Range(slaves[m]) : v \in Watch /\ wFd[v] = fd /\ wLife[v] # "free"
  <2>1. \A v \in {m} \cup Range(slaves[m]) : v \in Watch /\ wFd[v] = fd /\ wLife[v] # "free"
    BY <1>1, <1>6, MembersOf DEF IoTyped, ListsKept
  <2>. QED BY <1>3, <2>1, IoEvMask
<1>9. CASE asked = {}
  <2>1. /\ fdtbl' = [fdtbl EXCEPT ![fd] = NoWatch]
        /\ inEpoll' = inEpoll \ {fd}
        /\ polled' = [polled EXCEPT ![fd] = {}]
    BY <1>1, <1>2, <1>6, <1>9 DEF EpollDel
  <2>2. \A v \in Watch : LiveWatch(v) /\ wFd[v] = fd /\ v # w => fdtbl[fd] = NoWatch
    BY <1>1, <1>7, <1>8, <1>9 DEF LivesKept, LiveWatch
  <2>3. IoTyped'
    BY <1>1, <1>2, <1>4, <1>6, <2>1 DEF IoTyped, entryVars
  <2>4. TableKept'
    <3>1. ASSUME NEW g \in Fd, fdtbl'[g] # NoWatch
          PROVE  /\ fdtbl'[g] \in iowatches' /\ wFd'[fdtbl'[g]] = g
                 /\ \E v \in WatchesOf(g)' : InTable(v)'
      <4>1. g # fd /\ fdtbl'[g] = fdtbl[g]
        BY <1>1, <1>6, <2>1, <3>1 DEF IoTyped
      <4>2. PICK v \in WatchesOf(g) : InTable(v)
        BY <1>1, <3>1, <4>1 DEF TableKept
      <4>3. v \in Watch /\ LiveWatch(v) /\ wFd[v] = g
        BY DEF WatchesOf
      <4>4. v \in WatchesOf(g)' /\ InTable(v)'
        BY <1>2, <1>3, <4>1, <4>2, <4>3 DEF WatchesOf, InTable
      <4>. QED BY <1>1, <1>2, <3>1, <4>1, <4>4 DEF TableKept
    <3>2. ASSUME NEW v \in Watch, LiveWatch(v)', ~InTable(v)'
          PROVE  v \in iowatches' /\ v \in hungUp' /\ fdtbl'[wFd'[v]] = NoWatch
      <4>1. v # w /\ LiveWatch(v)
        BY <1>3, <3>2
      <4>2. CASE wFd[v] = fd
        BY <1>1, <1>2, <1>6, <2>1, <2>2, <4>1, <4>2 DEF TableKept, IoTyped, InTable
      <4>3. CASE wFd[v] # fd
        <5>1. fdtbl'[wFd[v]] = fdtbl[wFd[v]]
          BY <1>1, <1>6, <2>1, <4>3 DEF IoTyped
        <5>. QED BY <1>1, <1>2, <1>3, <3>2, <4>1, <5>1 DEF TableKept, InTable
      <4>. QED BY <4>2, <4>3
    <3>. QED BY <3>1, <3>2 DEF TableKept
  <2>5. PolledKept'
    <3>1. \A g \in Fd : g \in inEpoll' <=> fdtbl'[g] # NoWatch
      BY <1>1, <1>6, <2>1 DEF PolledKept, IoTyped
    <3>2. ASSUME NEW g \in Fd PROVE polled'[g] \subseteq UNION {wMask'[v] : v \in WatchesOf(g)'}
      <4>1. CASE g = fd
        BY <1>1, <1>6, <2>1, <4>1 DEF IoTyped
      <4>2. CASE g # fd
        <5>1. polled'[g] = polled[g] /\ WatchesOf(g)' = WatchesOf(g)
          BY <1>1, <1>2, <1>3, <2>1, <4>2 DEF IoTyped, WatchesOf
        <5>2. \A v \in WatchesOf(g) : wMask'[v] = wMask[v]
          BY <1>3, <4>2 DEF WatchesOf
        <5>. QED BY <1>1, <5>1, <5>2 DEF PolledKept
      <4>. QED BY <4>1, <4>2
    <3>3. ASSUME NEW v \in Watch, LiveWatch(v)', v \notin hungUp' PROVE wMask'[v] \subseteq polled'[wFd'[v]]
      <4>1. v # w /\ LiveWatch(v) /\ v \notin hungUp
        BY <1>2, <1>3, <3>3
      <4>2. wFd[v] # fd
        BY <1>1, <2>2, <4>1 DEF TableKept, InTable
      <4>3. polled'[wFd[v]] = polled[wFd[v]] /\ wMask'[v] = wMask[v]
        BY <1>1, <1>3, <2>1, <4>1, <4>2 DEF IoTyped
      <4>. QED BY <1>1, <1>2, <4>1, <4>3 DEF PolledKept
    <3>. QED BY <3>1, <3>2, <3>3 DEF PolledKept
  <2>6. Dispatching' => EntryKept'
    <3>1. \A v \in Watch : wMask'[v] \subseteq wMask[v]
      BY <1>3
    <3>. QED BY <1>2, <1>3, <3>1, CallKeepsEntry DEF Dispatching
  <2>. QED BY <1>5, <2>3, <2>4, <2>5, <2>6 DEF IoInv
<1>10. CASE asked # {}
  <2>1. PICK u \in {m} \cup Range(slaves[m]) : u # w /\ wMask[u] # {}
    BY <1>8, <1>10
  <2>2. u \in Watch /\ LiveWatch(u) /\ wFd[u] = fd
    BY <1>1, <1>8, <2>1 DEF LivesKept, LiveWatch, IoTyped, ListsKept
  <2>3. fdtbl[fd] # NoWatch /\ m = fdtbl[fd]
    BY <1>1, <1>6, <2>1, <2>2 DEF TableKept, InTable, ListsKept
  <2>4. fd \in inEpoll
    BY <1>1, <1>6, <2>3 DEF PolledKept
  <2>5. UNCHANGED <<fdtbl, inEpoll>> /\ polled' = [polled EXCEPT ![fd] = asked]
    BY <1>1, <1>2, <1>6, <1>10, <2>3, <2>4 DEF EpollDel
  <2>6. IoTyped'
    BY <1>1, <1>2, <1>4, <1>6, <2>5 DEF IoTyped, entryVars
  <2>7. TableKept'
    <3>1. ASSUME NEW g \in Fd, fdtbl'[g] # NoWatch
          PROVE  /\ fdtbl'[g] \in iowatches' /\ wFd'[fdtbl'[g]] = g
                 /\ \E v \in WatchesOf(g)' : InTable(v)'
      <4>1. PICK v \in WatchesOf(g) : InTable(v) /\ v # w
        <5>1. CASE g = fd
          <6>1. InTable(u) /\ u \in WatchesOf(fd)
            BY <2>1, <2>2, <2>3 DEF InTable, WatchesOf
          <6>. QED BY <2>1, <5>1, <6>1
        <5>2. CASE g # fd
          <6>1. PICK v \in WatchesOf(g) : InTable(v)
            BY <1>1, <2>5, <3>1 DEF TableKept
          <6>. QED BY <5>2, <6>1 DEF WatchesOf
        <5>. QED BY <5>1, <5>2
      <4>2. v \in WatchesOf(g)' /\ InTable(v)'
        BY <1>2, <1>3, <2>5, <4>1 DEF WatchesOf, InTable
      <4>. QED BY <1>1, <1>2, <2>5, <3>1, <4>2 DEF TableKept
    <3>2. ASSUME NEW v \in Watch, LiveWatch(v)', ~InTable(v)'
          PROVE  v \in iowatches' /\ v \in hungUp' /\ fdtbl'[wFd'[v]] = NoWatch
      BY <1>1, <1>2, <1>3, <2>5, <3>2 DEF TableKept, InTable
    <3>. QED BY <3>1, <3>2 DEF TableKept
  <2>8. PolledKept'
    <3>1. \A g \in Fd : g \in inEpoll' <=> fdtbl'[g] # NoWatch
      BY <1>1, <2>5 DEF PolledKept
    <3>2. ASSUME NEW g \in Fd PROVE polled'[g] \subseteq UNION {wMask'[v] : v \in WatchesOf(g)'}
      <4>1. CASE g = fd
        <5>1. ASSUME NEW e \in asked PROVE \E v \in WatchesOf(g)' : e \in wMask'[v]
          <6>1. PICK v \in {m} \cup Range(slaves[m]) : v # w /\ e \in wMask[v]
            BY <1>8
          <6>2. v \in Watch /\ wFd[v] = fd /\ LiveWatch(v)
            BY <1>1, <1>8, <6>1 DEF LivesKept, LiveWatch, IoTyped, ListsKept
          <6>3. v \in WatchesOf(g)' /\ wMask'[v] = wMask[v]
            BY <1>2, <1>3, <4>1, <6>1, <6>2 DEF WatchesOf
          <6>. QED BY <6>1, <6>3
        <5>2. polled'[g] = asked
          BY <1>1, <1>6, <2>5, <4>1 DEF IoTyped
        <5>. QED BY <5>1, <5>2
      <4>2. CASE g # fd
        <5>1. polled'[g] = polled[g] /\ WatchesOf(g)' = WatchesOf(g)
          BY <1>1, <1>2, <1>3, <2>5, <4>2 DEF IoTyped, WatchesOf
        <5>2. \A v \in WatchesOf(g) : wMask'[v] = wMask[v]
          BY <1>3, <4>2 DEF WatchesOf
        <5>. QED BY <1>1, <5>1, <5>2 DEF PolledKept
      <4>. QED BY <4>1, <4>2
    <3>3. ASSUME NEW v \in Watch, LiveWatch(v)', v \notin hungUp' PROVE wMask'[v] \subseteq polled'[wFd'[v]]
      <4>1. v # w /\ LiveWatch(v) /\ v \notin hungUp /\ wMask'[v] = wMask[v]
        BY <1>2, <1>3, <3>3
      <4>2. CASE wFd[v] = fd
        BY <1>1, <1>2, <1>6, <1>7, <1>8, <2>3, <2>5, <4>1, <4>2 DEF IoTyped
      <4>3. CASE wFd[v] # fd
        BY <1>1, <1>2, <2>5, <4>1, <4>3 DEF PolledKept, IoTyped
      <4>. QED BY <4>2, <4>3
    <3>. QED BY <3>1, <3>2, <3>3 DEF PolledKept
  <2>9. Dispatching' => EntryKept'
    <3>1. \A v \in Watch : wMask'[v] \subseteq wMask[v]
      BY <1>3
    <3>. QED BY <1>2, <1>3, <3>1, CallKeepsEntry DEF Dispatching
  <2>. QED BY <1>5, <2>6, <2>7, <2>8, <2>9 DEF IoInv
<1>. QED BY <1>9, <1>10

(* A watch is never added for nothing.                                     *)
LEMMA MasksAsk == \A mask \in Masks : mask # {}
<1>1. Masks \subseteq (SUBSET {"in", "out", "rdhup"}) \ {{}}
  BY IoWatchesAssumption
<1>. QED BY <1>1

(* The first watch of a descriptor, of which none is alive.                *)
LEMMA EpollAddKeeps ==
  ASSUME IoInv, ~AddAfterHup, NEW w \in Watch, NEW fd \in Fd, NEW mask \in Masks,
         AddIoWatch(w, fd, mask), EpollAdd(w, fd, mask)
  PROVE  IoInv'
<1>1. /\ IoTyped /\ ListsKept /\ LivesKept /\ TableKept /\ PolledKept
      /\ CallsPossible /\ NoWatch \notin Watch /\ mask # {}
  <2>1. mask # {}
    BY MasksAsk
  <2>. QED BY <2>1, IoWatchesAssumption DEF IoInv, AddIoWatch
<1>2. /\ wLife[w] = "free" /\ fd \in open /\ \A v \in WatchesOf(fd) : InTable(v)
      /\ wLife' = [wLife EXCEPT ![w] = "live"]
      /\ wFd' = [wFd EXCEPT ![w] = fd]
      /\ wMask' = [wMask EXCEPT ![w] = mask]
      /\ UNCHANGED <<wDeleted, hungUp, open, ioStage, collected>> /\ UNCHANGED entryVars
  BY DEF AddIoWatch
<1>3. /\ fdtbl[fd] = NoWatch
      /\ fdtbl' = [fdtbl EXCEPT ![fd] = w]
      /\ inEpoll' = inEpoll \cup {fd}
      /\ polled' = [polled EXCEPT ![fd] = mask]
      /\ iowatches' = iowatches \cup {w}
      /\ UNCHANGED slaves
  BY DEF EpollAdd
<1>4. /\ \A v \in Watch : v # w => wLife'[v] = wLife[v] /\ wFd'[v] = wFd[v] /\ wMask'[v] = wMask[v]
      /\ wLife'[w] = "live" /\ wFd'[w] = fd /\ wMask'[w] = mask
  BY <1>1, <1>2 DEF IoTyped
<1>5. /\ Range(slaves[w]) = {} /\ w \notin iowatches
      /\ \A v \in Watch : w \notin Range(slaves[v]) /\ Range(slaves[v]) \subseteq Watch
  <2>1. \A v \in Watch : Range(slaves[v]) \subseteq Watch
    BY <1>1, MembersOf DEF IoTyped
  <2>. QED BY <1>1, <1>2, <2>1 DEF ListsKept
<1>6. IoTyped'
  BY <1>1, <1>2, <1>3 DEF IoTyped, entryVars
<1>7. ListsKept'
  BY <1>1, <1>2, <1>3, <1>4, <1>5 DEF ListsKept
<1>8. LivesKept'
  BY <1>1, <1>2, <1>4 DEF LivesKept, CallsPossible
(* Nothing is alive on the descriptor but the new watch.                   *)
<1>9. /\ \A v \in Watch : LiveWatch(v)' /\ wFd'[v] = fd => v = w
      /\ \A v \in Watch : v # w => (LiveWatch(v)' <=> LiveWatch(v))
  BY <1>1, <1>2, <1>3, <1>4 DEF WatchesOf, InTable, LiveWatch
<1>10. \A g \in Fd : g # fd => /\ fdtbl'[g] = fdtbl[g] /\ polled'[g] = polled[g]
                               /\ WatchesOf(g)' = WatchesOf(g) /\ w \notin WatchesOf(g)
  <2>1. \A g \in Fd : g # fd => fdtbl'[g] = fdtbl[g] /\ polled'[g] = polled[g]
    BY <1>1, <1>3 DEF IoTyped
  <2>2. \A g \in Fd : g # fd => WatchesOf(g)' = WatchesOf(g) /\ w \notin WatchesOf(g)
    BY <1>2, <1>4, <1>9 DEF WatchesOf, LiveWatch
  <2>. QED BY <2>1, <2>2
<1>11. fdtbl'[fd] = w /\ polled'[fd] = mask /\ WatchesOf(fd)' = {w}
  <2>1. fdtbl'[fd] = w /\ polled'[fd] = mask
    BY <1>1, <1>3 DEF IoTyped
  <2>2. WatchesOf(fd)' = {w}
    BY <1>4, <1>9 DEF WatchesOf, LiveWatch
  <2>. QED BY <2>1, <2>2
<1>12. TableKept'
  <2>1. ASSUME NEW g \in Fd, fdtbl'[g] # NoWatch
        PROVE  /\ fdtbl'[g] \in iowatches' /\ wFd'[fdtbl'[g]] = g
               /\ \E v \in WatchesOf(g)' : InTable(v)'
    <3>1. CASE g = fd
      BY <1>1, <1>3, <1>4, <1>11, <3>1 DEF InTable
    <3>2. CASE g # fd
      <4>1. fdtbl[g] \in iowatches /\ wFd[fdtbl[g]] = g /\ fdtbl[g] # w
        BY <1>1, <1>5, <1>10, <2>1, <3>2 DEF TableKept
      <4>2. PICK v \in WatchesOf(g) : InTable(v)
        BY <1>1, <1>10, <2>1, <3>2 DEF TableKept
      <4>3. v \in WatchesOf(g)' /\ v # w /\ v \in Watch /\ wFd[v] = g
        BY <1>10, <3>2, <4>2 DEF WatchesOf
      <4>4. InTable(v)'
        BY <1>3, <1>4, <1>10, <3>2, <4>2, <4>3 DEF InTable
      <4>. QED BY <1>1, <1>3, <1>4, <1>10, <3>2, <4>1, <4>3, <4>4 DEF IoTyped
    <3>. QED BY <3>1, <3>2
  <2>2. ASSUME NEW v \in Watch, LiveWatch(v)', ~InTable(v)'
        PROVE  v \in iowatches' /\ v \in hungUp' /\ fdtbl'[wFd'[v]] = NoWatch
    <3>1. v # w
      BY <1>1, <1>4, <1>11, <2>2 DEF InTable
    <3>2. LiveWatch(v) /\ wFd[v] # fd /\ wFd'[v] = wFd[v] /\ wFd[v] \in Fd
      BY <1>1, <1>4, <1>9, <2>2, <3>1 DEF IoTyped
    <3>3. ~InTable(v)
      BY <1>3, <1>10, <2>2, <3>2 DEF InTable
    <3>. QED BY <1>1, <1>2, <1>3, <1>10, <3>2, <3>3 DEF TableKept
  <2>. QED BY <2>1, <2>2 DEF TableKept
<1>13. PolledKept'
  <2>1. \A g \in Fd : g \in inEpoll' <=> fdtbl'[g] # NoWatch
    BY <1>1, <1>3, <1>10, <1>11 DEF PolledKept
  <2>2. ASSUME NEW g \in Fd PROVE polled'[g] \subseteq UNION {wMask'[v] : v \in WatchesOf(g)'}
    <3>1. CASE g = fd
      BY <1>4, <1>11, <3>1
    <3>2. CASE g # fd
      <4>1. \A v \in WatchesOf(g) : wMask'[v] = wMask[v]
        BY <1>4, <1>10, <3>2 DEF WatchesOf
      <4>. QED BY <1>1, <1>10, <3>2, <4>1 DEF PolledKept
    <3>. QED BY <3>1, <3>2
  <2>3. ASSUME NEW v \in Watch, LiveWatch(v)', v \notin hungUp' PROVE wMask'[v] \subseteq polled'[wFd'[v]]
    <3>1. CASE v = w
      BY <1>4, <1>11, <3>1
    <3>2. CASE v # w
      <4>1. LiveWatch(v) /\ wFd[v] # fd /\ wFd'[v] = wFd[v] /\ wFd[v] \in Fd
        BY <1>1, <1>4, <1>9, <2>3, <3>2 DEF IoTyped
      <4>. QED BY <1>1, <1>2, <1>4, <1>10, <2>3, <3>2, <4>1 DEF PolledKept
    <3>. QED BY <3>1, <3>2
  <2>. QED BY <2>1, <2>2, <2>3 DEF PolledKept
<1>14. Dispatching' => EntryKept'
  BY <1>2, <1>3, <1>4, CallKeepsEntry DEF Dispatching
<1>. QED BY <1>6, <1>7, <1>8, <1>12, <1>13, <1>14 DEF IoInv

(* One more watch of a descriptor, behind the others.                      *)
LEMMA EpollAddSlaveKeeps ==
  ASSUME IoInv, ~AddAfterHup, NEW w \in Watch, NEW fd \in Fd, NEW mask \in Masks,
         AddIoWatch(w, fd, mask), EpollAddSlave(w, fd, mask)
  PROVE  IoInv'
<1> DEFINE m == fdtbl[fd]
           all == EpollEventMask(wMask, m, NoWatch)
<1>1. /\ IoTyped /\ ListsKept /\ LivesKept /\ TableKept /\ PolledKept
      /\ CallsPossible /\ NoWatch \notin Watch /\ mask # {}
  <2>1. mask # {}
    BY MasksAsk
  <2>. QED BY <2>1, IoWatchesAssumption DEF IoInv, AddIoWatch
<1>2. /\ wLife[w] = "free" /\ fd \in open /\ \A v \in WatchesOf(fd) : InTable(v)
      /\ wLife' = [wLife EXCEPT ![w] = "live"]
      /\ wFd' = [wFd EXCEPT ![w] = fd]
      /\ wMask' = [wMask EXCEPT ![w] = mask]
      /\ UNCHANGED <<wDeleted, hungUp, open, ioStage, collected>> /\ UNCHANGED entryVars
  BY DEF AddIoWatch
<1>3. /\ m # NoWatch
      /\ polled' = [polled EXCEPT ![fd] = all \cup mask]
      /\ slaves' = [slaves EXCEPT ![m] = Append(@, w)]
      /\ UNCHANGED <<fdtbl, inEpoll, iowatches>>
  BY DEF EpollAddSlave
<1>4. /\ \A v \in Watch : v # w => wLife'[v] = wLife[v] /\ wFd'[v] = wFd[v] /\ wMask'[v] = wMask[v]
      /\ wLife'[w] = "live" /\ wFd'[w] = fd /\ wMask'[w] = mask
  BY <1>1, <1>2 DEF IoTyped
<1>5. /\ w \notin iowatches /\ slaves[w] = <<>>
      /\ \A v \in Watch : w \notin Range(slaves[v]) /\ Range(slaves[v]) \subseteq Watch
  <2>1. \A v \in Watch : Range(slaves[v]) \subseteq Watch /\ slaves[v] \in Seq(Watch)
    BY <1>1, MembersOf DEF IoTyped
  <2>2. \A v \in Watch : w \notin Range(slaves[v])
    BY <1>1, <1>2 DEF ListsKept
  <2>3. slaves[w] = <<>>
    <3>1. ASSUME slaves[w] # <<>> PROVE FALSE
      <4>1. slaves[w][1] \in Range(slaves[w])
        BY <2>1, <3>1, EmptySeq, LenProperties DEF Range
      <4>. QED BY <1>1, <1>2, <2>1, <4>1 DEF ListsKept
    <3>. QED BY <3>1
  <2>. QED BY <1>1, <1>2, <2>1, <2>2, <2>3 DEF ListsKept
<1>6. /\ m \in Watch /\ m \in iowatches /\ wFd[m] = fd /\ m # w /\ wLife[m] # "free"
  BY <1>1, <1>2, <1>3 DEF TableKept, IoTyped, ListsKept
<1>7. /\ slaves' \in [Watch -> Seq(Watch)] /\ IsInjective(slaves'[m])
      /\ Range(slaves'[m]) = Range(slaves[m]) \cup {w}
      /\ \A a, b : Before(slaves[m], a, b) => Before(slaves'[m], a, b)
      /\ \A v \in Watch : v # m => slaves'[v] = slaves[v]
  <2>1. slaves[m] \in Seq(Watch) /\ slaves \in [Watch -> Seq(Watch)] /\ IsInjective(slaves[m])
    BY <1>1, <1>6 DEF IoTyped, ListsKept
  <2>2. slaves'[m] = Append(slaves[m], w) /\ \A v \in Watch : v # m => slaves'[v] = slaves[v]
    BY <1>3, <1>6, <2>1
  <2>3. /\ Append(slaves[m], w) \in Seq(Watch) /\ IsInjective(Append(slaves[m], w))
        /\ Range(Append(slaves[m], w)) = Range(slaves[m]) \cup {w}
    BY <1>5, <1>6, <2>1, AppendFacts
  <2>4. \A a, b : Before(slaves[m], a, b) => Before(Append(slaves[m], w), a, b)
    BY <2>1, AppendBefore
  <2>. QED BY <1>3, <1>6, <2>1, <2>2, <2>3, <2>4
<1>8. IoTyped'
  BY <1>1, <1>2, <1>3, <1>7 DEF IoTyped, entryVars
<1>9. \A v, u \in Watch : u \in Range(slaves'[v]) <=> u \in Range(slaves[v]) \/ (v = m /\ u = w)
  BY <1>7
<1>10. ListsKept'
  <2>1. \A v \in Watch : IsInjective(slaves'[v])
    BY <1>1, <1>7 DEF ListsKept
  <2>2. ASSUME NEW v \in Watch, NEW u \in Watch, u \in Range(slaves'[v])
        PROVE  /\ wLife'[u] # "free" /\ wLife'[v] # "free" /\ wFd'[u] = wFd'[v]
               /\ u \notin iowatches' /\ slaves'[u] = <<>>
               /\ \A x \in Watch : u \in Range(slaves'[x]) => x = v
    <3>1. CASE u \in Range(slaves[v])
      <4>1. u # w /\ v # w
        BY <1>1, <1>2, <1>5, <3>1 DEF ListsKept
      <4>2. u # m
        BY <1>1, <1>6, <3>1 DEF ListsKept
      <4>. QED BY <1>1, <1>3, <1>4, <1>7, <1>9, <3>1, <4>1, <4>2 DEF ListsKept
    <3>2. CASE v = m /\ u = w
      BY <1>3, <1>4, <1>5, <1>6, <1>7, <1>9, <3>2
    <3>. QED BY <1>9, <2>2, <3>1, <3>2
  <2>3. \A v \in iowatches' : wLife'[v] # "free"
    BY <1>1, <1>3, <1>4, <1>5 DEF ListsKept, IoTyped
  <2>. QED BY <2>1, <2>2, <2>3 DEF ListsKept
<1>11. LivesKept'
  BY <1>1, <1>2, <1>4 DEF LivesKept, CallsPossible
<1>12. /\ \A v \in Watch : v # w => (LiveWatch(v)' <=> LiveWatch(v)) /\ (InTable(v) => InTable(v)')
       /\ LiveWatch(w)' /\ InTable(w)'
       /\ \A v \in Watch : v # w /\ InTable(v)' => InTable(v)
  BY <1>3, <1>4, <1>6, <1>7, <1>9 DEF LiveWatch, InTable
<1>13. \A g \in Fd : WatchesOf(g)' = WatchesOf(g) \cup (IF g = fd THEN {w} ELSE {})
  BY <1>2, <1>4, <1>12 DEF WatchesOf, LiveWatch
<1>14. TableKept'
  <2>1. ASSUME NEW g \in Fd, fdtbl'[g] # NoWatch
        PROVE  /\ fdtbl'[g] \in iowatches' /\ wFd'[fdtbl'[g]] = g
               /\ \E v \in WatchesOf(g)' : InTable(v)'
    <3>1. /\ fdtbl[g] \in iowatches /\ wFd[fdtbl[g]] = g /\ fdtbl[g] \in Watch
          /\ \E v \in WatchesOf(g) : InTable(v)
      BY <1>1, <1>3, <2>1 DEF TableKept, IoTyped
    <3>2. fdtbl[g] # w
      BY <1>5, <3>1
    <3>. QED BY <1>3, <1>4, <1>12, <1>13, <3>1, <3>2 DEF WatchesOf
  <2>2. ASSUME NEW v \in Watch, LiveWatch(v)', ~InTable(v)'
        PROVE  v \in iowatches' /\ v \in hungUp' /\ fdtbl'[wFd'[v]] = NoWatch
    BY <1>1, <1>2, <1>3, <1>4, <1>12, <2>2 DEF TableKept
  <2>. QED BY <2>1, <2>2 DEF TableKept
<1>15. PolledKept'
  <2>1. \A g \in Fd : g \in inEpoll' <=> fdtbl'[g] # NoWatch
    BY <1>1, <1>3 DEF PolledKept
  <2>2. polled'[fd] = all \cup mask /\ \A g \in Fd : g # fd => polled'[g] = polled[g]
    BY <1>1, <1>3 DEF IoTyped
  <2>3. \A v \in {m} \cup Range(slaves[m]) : v \in Watch /\ wFd[v] = fd /\ v # w /\ v # NoWatch
    BY <1>1, <1>5, <1>6 DEF ListsKept
  <2>4. ASSUME NEW g \in Fd PROVE polled'[g] \subseteq UNION {wMask'[v] : v \in WatchesOf(g)'}
    <3>1. CASE g = fd
      <4>1. ASSUME NEW e \in all PROVE \E v \in WatchesOf(fd)' : e \in wMask'[v]
        <5>1. PICK v \in {m} \cup Range(slaves[m]) : e \in wMask[v]
          BY IoEvMask
        <5>2. v \in Watch /\ wFd[v] = fd /\ v # w /\ wLife[v] # "free"
          BY <1>1, <1>6, <2>3 DEF ListsKept
        <5>3. LiveWatch(v)
          BY <1>1, <5>1, <5>2 DEF LivesKept, LiveWatch, IoTyped
        <5>. QED BY <1>4, <1>13, <5>1, <5>2, <5>3 DEF WatchesOf
      <4>2. w \in WatchesOf(fd)' /\ wMask'[w] = mask
        BY <1>4, <1>13
      <4>. QED BY <2>2, <3>1, <4>1, <4>2
    <3>2. CASE g # fd
      <4>1. \A v \in WatchesOf(g) : v # w
        BY <1>2 DEF WatchesOf, LiveWatch
      <4>2. \A v \in WatchesOf(g) : wMask'[v] = wMask[v]
        BY <1>4, <4>1 DEF WatchesOf
      <4>. QED BY <1>1, <1>13, <2>2, <3>2, <4>2 DEF PolledKept
    <3>. QED BY <3>1, <3>2
  <2>5. ASSUME NEW v \in Watch, LiveWatch(v)', v \notin hungUp' PROVE wMask'[v] \subseteq polled'[wFd'[v]]
    <3>1. CASE v = w
      BY <1>4, <2>2, <3>1
    <3>2. CASE v # w
      <4>1. LiveWatch(v) /\ wFd'[v] = wFd[v] /\ wMask'[v] = wMask[v] /\ wFd[v] \in Fd /\ v \notin hungUp
        BY <1>1, <1>2, <1>4, <1>12, <2>5, <3>2 DEF IoTyped
      <4>2. CASE wFd[v] = fd
        <5>1. v \in {m} \cup Range(slaves[m])
          BY <1>2, <4>1, <4>2 DEF WatchesOf, InTable
        <5>2. wMask[v] \subseteq all
          BY <2>3, <5>1, IoEvMask
        <5>. QED BY <2>2, <4>1, <4>2, <5>2
      <4>3. CASE wFd[v] # fd
        BY <1>1, <2>2, <4>1, <4>3 DEF PolledKept
      <4>. QED BY <4>2, <4>3
    <3>. QED BY <3>1, <3>2
  <2>. QED BY <2>1, <2>4, <2>5 DEF PolledKept
<1>16. Dispatching' => EntryKept'
  <2>1. \A v \in Watch : /\ Range(slaves[v]) \subseteq Range(slaves'[v])
                         /\ \A a, b : Before(slaves[v], a, b) => Before(slaves'[v], a, b)
    BY <1>7, <1>9
  <2>. QED BY <1>2, <1>4, <2>1, CallKeepsEntry DEF Dispatching
<1>. QED BY <1>8, <1>10, <1>11, <1>14, <1>15, <1>16 DEF IoInv

(* Closing and opening descriptors.                                        *)
LEMMA OtherCallsKeep ==
  ASSUME IoInv, NEW fd \in Fd, CloseFd(fd) \/ OpenFd(fd)
  PROVE  IoInv'
<1>1. /\ IoTyped /\ ListsKept /\ LivesKept /\ TableKept /\ PolledKept
      /\ UNCHANGED <<watchVars, ioStage, collected>> /\ UNCHANGED entryVars
  BY DEF IoInv, CloseFd, OpenFd
<1>2. UNCHANGED <<wLife, wFd, wMask, iowatches, slaves, fdtbl, wDeleted, hungUp>>
  BY <1>1 DEF watchVars
<1>3. inEpoll' = inEpoll /\ polled' = polled
  <2>1. CASE CloseFd(fd)
    <3>1. /\ inEpoll' = inEpoll \ {fd} /\ polled' = [polled EXCEPT ![fd] = {}]
          /\ WatchesOf(fd) = {}
      BY <2>1 DEF CloseFd
    <3>2. fd \notin inEpoll /\ polled[fd] = {}
      BY <1>1, <3>1 DEF TableKept, PolledKept
    <3>. QED BY <1>1, <3>1, <3>2 DEF IoTyped
  <2>2. CASE OpenFd(fd)
    BY <2>2 DEF OpenFd
  <2>. QED BY <2>1, <2>2
<1>4. IoTyped'
  BY <1>1, <1>2, <1>3 DEF IoTyped, entryVars
<1>5. Dispatching' => EntryKept'
  BY <1>1, <1>2, CallKeepsEntry DEF Dispatching
<1>. QED BY <1>1, <1>3, <1>4, <1>5, WatchesSame DEF IoInv

-----------------------------------------------------------------------------
(* An iteration of the mainloop.                                           *)

(* A step of the dispatch that changes no watch keeps the types.           *)
LEMMA DispatchTyped ==
  ASSUME IoTyped, UNCHANGED <<watchVars, inEpoll, polled>>, called' = [w \in Watch |-> called'[w]],
         collected' \in Seq([fd : Fd, events : SUBSET {"in", "out", "rdhup", "hup"}]),
         ioStage' \in {"poll", "entry", "slaves", "slave", "hup", "purge", "destroyed"}
  PROVE  IoTyped'
BY DEF IoTyped, watchVars

(* epoll_wait(): an entry is of a descriptor.                              *)
LEMMA PollIoKeeps == ASSUME IoInv, PollIo PROVE IoInv'
<1> DEFINE Report == [fd : Fd, events : SUBSET {"in", "out", "rdhup", "hup"}]
<1>1. /\ ioStage = "poll" /\ ioStage' = "entry" /\ UNCHANGED <<watchVars, kernelVars>>
      /\ UNCHANGED entryVars /\ IoTyped
  BY DEF PollIo, IoInv
<1>2. PICK fds \in SUBSET inEpoll :
        \E order \in SetToSeqs(fds), report \in [fds -> SUBSET {"in", "out", "rdhup", "hup"}] :
           collected' = [i \in DOMAIN order |-> [fd |-> order[i], events |-> report[order[i]]]]
  BY DEF PollIo
<1>3. PICK order \in SetToSeqs(fds), report \in [fds -> SUBSET {"in", "out", "rdhup", "hup"}] :
        collected' = [i \in DOMAIN order |-> [fd |-> order[i], events |-> report[order[i]]]]
  BY <1>2
<1>4. fds \subseteq Fd /\ Cardinality(fds) \in Nat
  <2>1. fds \subseteq Fd
    BY <1>1 DEF IoTyped
  <2>. QED BY <2>1, IoWatchesAssumption, FS_Subset, FS_CardinalityType
<1>5. order \in [1 .. Cardinality(fds) -> fds]
  BY DEF SetToSeqs
<1>6. collected' \in Seq(Report)
  <2>1. collected' \in [1 .. Cardinality(fds) -> Report]
    BY <1>3, <1>4, <1>5
  <2>2. \A S : \A n \in Nat : [1 .. n -> S] \subseteq Seq(S)
    OBVIOUS
  <2>. HIDE DEF Report
  <2>. QED BY <1>4, <2>1, <2>2
<1>7. IoTyped'
  BY <1>1, <1>6, DispatchTyped DEF IoTyped, entryVars, kernelVars
<1>. QED BY <1>1, <1>7, WatchesSame DEF IoInv, Dispatching, kernelVars

(* The entry's watch, and all that is alive beside it, is what the walk    *)
(* has to come to.                                                         *)
LEMMA DispatchEntryKeeps == ASSUME IoInv, DispatchEntry PROVE IoInv'
<1> DEFINE w == fdtbl[IoEntry.fd]
<1>1. /\ ioStage = "entry" /\ collected # <<>> /\ UNCHANGED <<watchVars, kernelVars>>
      /\ IoTyped /\ ListsKept /\ LivesKept /\ TableKept /\ PolledKept
  BY DEF DispatchEntry, IoInv
<1>2. ListsKept' /\ LivesKept' /\ TableKept' /\ PolledKept'
  <2>1. ioStage' # "destroyed"
    BY <1>1 DEF DispatchEntry
  <2>. QED BY <1>1, <2>1, WatchesSame DEF kernelVars
<1>3. IoEntry \in [fd : Fd, events : SUBSET {"in", "out", "rdhup", "hup"}]
  <2> DEFINE Report == [fd : Fd, events : SUBSET {"in", "out", "rdhup", "hup"}]
  <2>1. collected \in Seq(Report)
    BY <1>1 DEF IoTyped
  <2>. HIDE DEF Report
  <2>2. Len(collected) \in Nat /\ Len(collected) # 0
    BY <1>1, <2>1, EmptySeq, LenProperties
  <2>3. 1 \in 1 .. Len(collected)
    BY <2>2
  <2>4. collected[1] \in Report
    BY <2>1, <2>3, ElementOfSeq
  <2>. QED BY <2>4 DEF IoEntry, Report
<1>4. CASE w = NoWatch
  <2>1. collected' = Tail(collected) /\ UNCHANGED <<ioStage, entryVars>>
    BY <1>4 DEF DispatchEntry
  <2>2. IoTyped'
    BY <1>1, <2>1, DispatchTyped, HeadTailProperties DEF IoTyped, kernelVars, entryVars
  <2>. QED BY <1>1, <1>2, <2>1, <2>2 DEF IoInv, Dispatching
<1>5. CASE w # NoWatch
  <2>1. /\ dispatched' = w /\ there' = WatchesOf(IoEntry.fd)
        /\ called' = [v \in Watch |-> IF v = w /\ LiveWatch(w) THEN IoEntry.events ELSE {}]
        /\ served' = IoEntry.events \cap wMask[w]
        /\ ioStage' = "slaves" /\ slave' = NoWatch
        /\ UNCHANGED collected
    BY <1>5 DEF DispatchEntry
  <2>2. IoTyped'
    BY <1>1, <2>1, DispatchTyped DEF IoTyped, kernelVars
  <2>3. w \in Watch /\ wLife[w] # "free"
    BY <1>1, <1>3, <1>5, AliveInTable DEF TableKept, ListsKept
  <2>4. \A v \in WatchesOf(IoEntry.fd) : v \in {w} \cup Range(slaves[w])
    BY <1>3, <1>5, AliveInTable
  <2>5. UNCHANGED <<wLife, wMask, slaves>> /\ IoEntry' = IoEntry
    BY <1>1, <2>1 DEF watchVars, IoEntry
  <2>6. Reached(dispatched)'
    BY <2>1, <2>3, <2>5 DEF Reached, LiveWatch
  <2>7. EntryKept'
    BY <1>1, <2>1, <2>3, <2>4, <2>5, <2>6 DEF EntryKept
  <2>. QED BY <1>2, <2>2, <2>7 DEF IoInv
<1>. QED BY <1>4, <1>5

(* The master is first, and leaves its slaves what it did not ask for.     *)
LEMMA DispatchSlavesKeeps == ASSUME IoInv, DispatchSlaves PROVE IoInv'
<1> DEFINE list == slaves[dispatched]
<1>1. /\ ioStage = "slaves" /\ UNCHANGED <<watchVars, kernelVars>>
      /\ UNCHANGED <<collected, dispatched, slave, there, called, served>>
      /\ IoTyped /\ EntryKept /\ NoWatch \notin Watch
  BY IoWatchesAssumption DEF DispatchSlaves, IoInv, Dispatching
<1>2. ioStage' \in {"hup", "slave"}
  BY DEF DispatchSlaves
<1>3. ListsKept' /\ LivesKept' /\ TableKept' /\ PolledKept'
  BY <1>1, <1>2, WatchesSame DEF kernelVars
<1>4. IoTyped'
  BY <1>1, <1>2, DispatchTyped DEF IoTyped, kernelVars
<1>5. /\ collected # <<>> /\ dispatched \in Watch /\ wLife[dispatched] # "free"
      /\ there \subseteq {dispatched} \cup Range(list)
      /\ Reached(dispatched) /\ IoEntry.events \cap wMask[dispatched] \subseteq served
      /\ list \in Seq(Watch) /\ IsInjective(list)
  BY <1>1 DEF EntryKept, IoTyped, IoInv, ListsKept
<1>6. /\ UNCHANGED <<wLife, wMask, slaves, served, called, there, dispatched, slave>>
      /\ IoEntry' = IoEntry /\ \A w : Reached(w)' <=> Reached(w)
  BY <1>1 DEF watchVars, IoEntry, Reached, LiveWatch
<1>7. CASE list = <<>>
  <2>1. Range(list) = {} /\ ioStage' = "hup"
    BY <1>7 DEF DispatchSlaves, Range
  <2>2. EntryKept'
    BY <1>1, <1>5, <1>6, <2>1 DEF EntryKept
  <2>. QED BY <1>3, <1>4, <2>2 DEF IoInv
<1>8. CASE list # <<>>
  <2>1. /\ leftOver' = IoEntry.events \ (INOUT \cap wMask[dispatched])
        /\ nextSlave' = FirstOf(list, NoWatch) /\ ioStage' = "slave" /\ slave' = NoWatch
    BY <1>1, <1>8 DEF DispatchSlaves, FirstOf, EntryKept
  <2>2. /\ FirstOf(list, NoWatch) \in Range(list)
        /\ \A v \in Range(list) : v = FirstOf(list, NoWatch) \/ Before(list, FirstOf(list, NoWatch), v)
    <3>1. Range(list) # {}
      <4>1. Len(list) \in Nat /\ Len(list) # 0 /\ DOMAIN list = 1 .. Len(list)
        BY <1>5, <1>8, EmptySeq, LenProperties
      <4>2. 1 \in DOMAIN list
        BY <4>1
      <4>. QED BY <4>2 DEF Range
    <3>. QED BY <1>1, <1>5, <3>1, FirstFacts
  <2>3. \A v \in there : Reached(v)' \/ Ahead(v)'
    <3>1. Range(list) \subseteq Watch
      BY <1>5, MembersOf
    <3>2. \A v \in Range(list) : Ahead(v)'
      BY <1>1, <1>6, <2>1, <2>2, <3>1 DEF Ahead
    <3>. QED BY <1>5, <1>6, <3>2
  <2>4. IoEntry.events \ leftOver' \subseteq served \cap INOUT
    BY <1>5, <2>1
  <2>5. EntryKept'
    BY <1>1, <1>5, <1>6, <2>1, <2>2, <2>3, <2>4 DEF EntryKept
  <2>. QED BY <1>3, <1>4, <2>5 DEF IoInv
<1>. QED BY <1>7, <1>8

(* The next slave is called, if it is not deleted, with what those before  *)
(* it did not ask for.                                                     *)
LEMMA DispatchSlaveKeeps == ASSUME IoInv, DispatchSlave PROVE IoInv'
<1> DEFINE list == slaves[dispatched]
<1>0. PICK n : n = nextSlave
  OBVIOUS
<1>1. /\ ioStage = "slave" /\ UNCHANGED <<watchVars, kernelVars>>
      /\ UNCHANGED <<collected, dispatched, there>>
      /\ IoTyped /\ EntryKept /\ NoWatch \notin Watch
      /\ leftOver' = PassedOn(slave)
  BY IoWatchesAssumption DEF DispatchSlave, IoInv, Dispatching
<1>2. ioStage' \in {"hup", "slave"}
  BY <1>1 DEF DispatchSlave
<1>3. ListsKept' /\ LivesKept' /\ TableKept' /\ PolledKept'
  BY <1>1, <1>2, WatchesSame DEF kernelVars
<1>4. IoTyped'
  <2>1. called' = [w \in Watch |-> called'[w]]
    BY <1>1 DEF DispatchSlave, IoTyped
  <2>. QED BY <1>1, <1>2, <2>1, DispatchTyped DEF IoTyped, kernelVars
<1>5. /\ collected # <<>> /\ dispatched \in Watch /\ wLife[dispatched] # "free"
      /\ there \subseteq {dispatched} \cup Range(list)
      /\ Reached(dispatched)
      /\ list \in Seq(Watch) /\ IsInjective(list)
      /\ Range(list) \subseteq Watch
  BY <1>1, MembersOf DEF EntryKept, IoTyped, IoInv, ListsKept
<1>6. /\ IoEntry.events \ leftOver \subseteq served \cap INOUT
      /\ n \in Range(list) \cup {NoWatch}
      /\ slave \in Range(list) \cup {NoWatch}
      /\ slave # NoWatch => leftOver \cap wMask[slave] \subseteq served
      /\ \A w \in there : Reached(w) \/ Ahead(w)
  BY <1>0, <1>1 DEF EntryKept
<1>7. UNCHANGED <<wLife, wMask, slaves, there, dispatched, collected>> /\ IoEntry' = IoEntry
  BY <1>1 DEF watchVars, IoEntry
<1>8. IoEntry.events \ leftOver' \subseteq served \cap INOUT
  BY <1>1, <1>6 DEF PassedOn
<1>9. CASE n = NoWatch \/ leftOver' = {}
  <2>1. ioStage' = "hup" /\ slave' = NoWatch /\ UNCHANGED <<nextSlave, called, served>>
    BY <1>0, <1>1, <1>9 DEF DispatchSlave
  <2>2. \A w : Reached(w)' <=> Reached(w)
    BY <1>7, <2>1 DEF Reached, LiveWatch
  <2>3. \A w \in there : Reached(w)
    <3>1. ASSUME NEW w \in there, Ahead(w) PROVE Reached(w)
      <4>1. leftOver' = {}
        BY <1>0, <1>9, <3>1 DEF Ahead
      <4>. QED BY <1>8, <4>1 DEF Reached
    <3>. QED BY <1>6, <3>1
  <2>4. EntryKept'
    BY <1>1, <1>5, <1>7, <2>1, <2>2, <2>3 DEF EntryKept
  <2>. QED BY <1>3, <1>4, <2>4 DEF IoInv
<1>10. CASE ~(n = NoWatch \/ leftOver' = {})
  <2>1. /\ ioStage' = "slave" /\ slave' = n
        /\ nextSlave' = FollowerOf(list, n, NoWatch)
        /\ called' = IF LiveWatch(n) THEN [called EXCEPT ![n] = leftOver'] ELSE called
        /\ served' = served \cup (leftOver' \cap wMask[n])
    BY <1>0, <1>1, <1>10 DEF DispatchSlave
  <2>2. /\ n \in Range(list) /\ n \in Watch /\ n # dispatched
    <3>1. n \in Range(list) /\ n \in Watch
      BY <1>5, <1>6, <1>10
    <3>2. ASSUME n = dispatched PROVE FALSE
      <4>1. list = <<>>
        BY <1>1, <1>5, <3>1, <3>2 DEF IoInv, ListsKept
      <4>. QED BY <3>1, <4>1 DEF Range
    <3>. QED BY <3>1, <3>2
  <2>3. /\ nextSlave' \in Watch \cup {NoWatch}
        /\ nextSlave' # NoWatch => nextSlave' \in Range(list)
        /\ \A x : Before(list, n, x) => nextSlave' # NoWatch /\ (x = nextSlave' \/ Before(list, nextSlave', x))
    BY <1>1, <1>5, <2>1, <2>2, FollowerFacts
  <2>4. \A w \in Watch : called'[w] = IF w = n /\ LiveWatch(n) THEN leftOver' ELSE called[w]
    BY <1>1, <2>1, <2>2 DEF IoTyped
  <2>5. Reached(n)'
    <3>1. LiveWatch(n)' => LiveWatch(n) /\ called'[n] = leftOver'
      BY <1>7, <2>2, <2>4 DEF LiveWatch
    <3>. QED BY <1>7, <1>8, <2>1, <3>1 DEF Reached
  <2>6. ASSUME NEW w \in Watch, Reached(w) PROVE Reached(w)'
    <3>1. CASE w = n
      BY <2>5, <3>1
    <3>2. CASE w # n
      BY <1>7, <2>1, <2>4, <2>6, <3>2 DEF Reached, LiveWatch
    <3>. QED BY <3>1, <3>2
  <2>7. \A w \in there' : Reached(w)' \/ Ahead(w)'
    <3>1. ASSUME NEW w \in there, Ahead(w) PROVE Reached(w)' \/ Ahead(w)'
      BY <1>0, <1>7, <2>3, <2>5, <3>1 DEF Ahead
    <3>. QED BY <1>5, <1>6, <1>7, <2>6, <3>1
  <2>8. /\ IoEntry'.events \ leftOver' \subseteq served' \cap INOUT
        /\ leftOver' \cap wMask'[slave'] \subseteq served'
    BY <1>7, <1>8, <2>1
  <2>9. EntryKept'
    BY <1>1, <1>5, <1>7, <2>1, <2>2, <2>3, <2>6, <2>7, <2>8 DEF EntryKept
  <2>. QED BY <1>3, <1>4, <2>9 DEF IoInv
<1>. QED BY <1>9, <1>10

(* The end of the dispatch.                                                *)
LEMMA EndsKeep == ASSUME IoInv, EndDispatch \/ EndPurge PROVE IoInv'
<1>1. /\ UNCHANGED <<watchVars, kernelVars>> /\ UNCHANGED collected /\ UNCHANGED entryVars
      /\ ioStage' \in {"purge", "poll"} /\ IoTyped
  BY DEF EndDispatch, EndPurge, IoInv
<1>2. ListsKept' /\ LivesKept' /\ TableKept' /\ PolledKept'
  BY <1>1, WatchesSame DEF kernelVars
<1>3. IoTyped'
  BY <1>1, DispatchTyped DEF IoTyped, kernelVars, entryVars
<1>. QED BY <1>1, <1>2, <1>3 DEF IoInv, Dispatching

(* The descriptor of a watch whose peer has hung up is polled for what its *)
(* slaves ask for.                                                         *)
LEMMA DispatchHupKeeps == ASSUME IoInv, DispatchHup PROVE IoInv'
<1> DEFINE w == dispatched
           fd == wFd[w]
           asked == EpollEventMask(wMask, w, w)
           shut == "rdhup" \in IoEntry.events
           ignored == ~shut /\ "hup" \in IoEntry.events /\ LiveWatch(w)
           stop == (shut \/ (ignored /\ wrhup[w] > HupLimit)) /\ fdtbl[fd] = w
<1>1. /\ IoTyped /\ ListsKept /\ LivesKept /\ TableKept /\ PolledKept /\ EntryKept
      /\ w \in Watch /\ collected # <<>> /\ NoWatch \notin Watch /\ fd \in Fd
  BY IoWatchesAssumption DEF DispatchHup, IoInv, Dispatching, EntryKept, IoTyped
<1>2. /\ ioStage' = "entry" /\ collected' \in {<<>>, Tail(collected)}
      /\ called' = [v \in Watch |-> {}]
      /\ UNCHANGED <<wLife, wFd, wMask, iowatches, slaves, wDeleted>>
      /\ IF stop THEN EpollDel(w, wMask) ELSE UNCHANGED <<fdtbl, inEpoll, polled>>
      /\ hungUp' = IF stop /\ LiveWatch(w) THEN hungUp \cup {w} ELSE hungUp
  BY DEF DispatchHup
<1> HIDE DEF stop
<1>3. ListsKept' /\ LivesKept' /\ (Dispatching' => EntryKept')
  BY <1>1, <1>2 DEF ListsKept, LivesKept, Dispatching
<1>4. ASSUME fdtbl' \in [Fd -> Watch \cup {NoWatch}], inEpoll' \subseteq Fd,
             polled' = [g \in Fd |-> polled'[g]]
      PROVE  IoTyped'
  <2>1. collected' \in Seq([fd : Fd, events : SUBSET {"in", "out", "rdhup", "hup"}])
    <3> DEFINE Report == [fd : Fd, events : SUBSET {"in", "out", "rdhup", "hup"}]
    <3>1. collected \in Seq(Report)
      BY <1>1 DEF IoTyped
    <3>. HIDE DEF Report
    <3>2. Tail(collected) \in Seq(Report) /\ <<>> \in Seq(Report)
      BY <1>1, <3>1, HeadTailProperties, EmptySeq
    <3>. QED BY <1>2, <3>2 DEF Report
  <2>. QED BY <1>1, <1>2, <1>4, <2>1 DEF IoTyped
<1>5. \A v \in Watch : LiveWatch(v)' <=> LiveWatch(v)
  BY <1>2 DEF LiveWatch
<1>6. \A g : WatchesOf(g)' = WatchesOf(g)
  BY <1>2, <1>5 DEF WatchesOf
<1>7. CASE ~stop
  <2>1. UNCHANGED <<fdtbl, inEpoll, polled, hungUp>>
    BY <1>2, <1>7
  <2>2. IoTyped'
    BY <1>1, <1>4, <2>1 DEF IoTyped
  <2>3. TableKept'
    BY <1>1, <1>2, <1>5, <1>6, <2>1 DEF TableKept, InTable
  <2>4. PolledKept'
    BY <1>1, <1>2, <1>5, <1>6, <2>1 DEF PolledKept
  <2>. QED BY <1>3, <2>2, <2>3, <2>4 DEF IoInv
<1>8. CASE stop
  <2>1. fdtbl[fd] = w /\ w \in iowatches /\ EpollDel(w, wMask)
    BY <1>1, <1>2, <1>8 DEF TableKept, stop
  <2>2. /\ LiveWatch(w) => w \in hungUp'
        /\ \A v : v \in hungUp => v \in hungUp'
        /\ \A v : v \in hungUp' => v \in hungUp \/ v = w
    BY <1>2, <1>8
  <2>3. \A v \in Watch : LiveWatch(v) /\ wFd[v] = fd => v = w \/ v \in Range(slaves[w])
    BY <1>1, <2>1 DEF TableKept, InTable
  <2>4. /\ \A e : e \in asked <=> \E v \in Range(slaves[w]) : v # w /\ e \in wMask[v]
        /\ \A v \in Range(slaves[w]) : v \in Watch /\ wFd[v] = fd /\ wLife[v] # "free" /\ v # w
    <3>1. \A v \in Range(slaves[w]) : v \in Watch /\ wFd[v] = fd /\ wLife[v] # "free" /\ v # w
      BY <1>1, <2>1, MembersOf DEF IoTyped, ListsKept
    <3>. QED BY <3>1, IoEvMask
  <2>5. \A v \in Range(slaves[w]) : LiveWatch(v) <=> wMask[v] # {}
    BY <1>1, <2>4 DEF LivesKept, LiveWatch, IoTyped
  <2>6. CASE asked = {}
    <3>1. /\ fdtbl' = [fdtbl EXCEPT ![fd] = NoWatch]
          /\ inEpoll' = inEpoll \ {fd}
          /\ polled' = [polled EXCEPT ![fd] = {}]
      BY <1>1, <2>1, <2>6 DEF EpollDel
    <3>2. \A v \in Watch : LiveWatch(v) /\ wFd[v] = fd => v = w
      BY <2>3, <2>4, <2>5, <2>6
    <3>3. IoTyped'
      BY <1>1, <1>4, <3>1 DEF IoTyped
    <3>4. fdtbl'[fd] = NoWatch /\ \A g \in Fd : g # fd => fdtbl'[g] = fdtbl[g] /\ polled'[g] = polled[g]
      BY <1>1, <3>1 DEF IoTyped
    <3>5. \A v \in Watch : wFd[v] # fd => (InTable(v)' <=> InTable(v))
      BY <1>1, <1>2, <3>4 DEF InTable, IoTyped
    <3>6. TableKept'
      <4>1. ASSUME NEW g \in Fd, fdtbl'[g] # NoWatch
            PROVE  /\ fdtbl'[g] \in iowatches' /\ wFd'[fdtbl'[g]] = g
                   /\ \E v \in WatchesOf(g)' : InTable(v)'
        <5>1. g # fd /\ fdtbl'[g] = fdtbl[g]
          BY <3>4, <4>1
        <5>2. PICK v \in WatchesOf(g) : InTable(v)
          BY <1>1, <4>1, <5>1 DEF TableKept
        <5>3. v \in WatchesOf(g)' /\ InTable(v)'
          BY <1>6, <3>5, <5>1, <5>2 DEF WatchesOf
        <5>. QED BY <1>1, <1>2, <4>1, <5>1, <5>3 DEF TableKept
      <4>2. ASSUME NEW v \in Watch, LiveWatch(v)', ~InTable(v)'
            PROVE  v \in iowatches' /\ v \in hungUp' /\ fdtbl'[wFd'[v]] = NoWatch
        <5>1. CASE wFd[v] = fd
          BY <1>2, <1>5, <2>1, <2>2, <3>2, <3>4, <4>2, <5>1
        <5>2. CASE wFd[v] # fd
          <6>1. wFd[v] \in Fd
            BY <1>1 DEF IoTyped
          <6>. QED BY <1>1, <1>2, <1>5, <2>2, <3>4, <3>5, <4>2, <5>2, <6>1 DEF TableKept
        <5>. QED BY <5>1, <5>2
      <4>. QED BY <4>1, <4>2 DEF TableKept
    <3>7. PolledKept'
      <4>1. \A g \in Fd : g \in inEpoll' <=> fdtbl'[g] # NoWatch
        BY <1>1, <3>1, <3>4 DEF PolledKept
      <4>2. ASSUME NEW g \in Fd PROVE polled'[g] \subseteq UNION {wMask'[v] : v \in WatchesOf(g)'}
        <5>1. CASE g = fd
          BY <1>1, <3>1, <5>1 DEF IoTyped
        <5>2. CASE g # fd
          BY <1>1, <1>2, <1>6, <3>4, <5>2 DEF PolledKept
        <5>. QED BY <5>1, <5>2
      <4>3. ASSUME NEW v \in Watch, LiveWatch(v)', v \notin hungUp' PROVE wMask'[v] \subseteq polled'[wFd'[v]]
        <5>1. v # w /\ LiveWatch(v) /\ v \notin hungUp
          BY <1>5, <2>2, <4>3
        <5>2. wFd[v] # fd /\ wFd[v] \in Fd
          BY <1>1, <3>2, <5>1 DEF IoTyped
        <5>. QED BY <1>1, <1>2, <3>4, <5>1, <5>2 DEF PolledKept
      <4>. QED BY <4>1, <4>2, <4>3 DEF PolledKept
    <3>. QED BY <1>3, <3>3, <3>6, <3>7 DEF IoInv
  <2>7. CASE asked # {}
    <3>1. fd \in inEpoll
      BY <1>1, <2>1 DEF PolledKept
    <3>2. UNCHANGED <<fdtbl, inEpoll>> /\ polled' = [polled EXCEPT ![fd] = asked]
      BY <1>1, <2>1, <2>7, <3>1 DEF EpollDel
    <3>3. polled'[fd] = asked /\ \A g \in Fd : g # fd => polled'[g] = polled[g]
      BY <1>1, <3>2 DEF IoTyped
    <3>4. IoTyped'
      BY <1>1, <1>4, <3>2 DEF IoTyped
    <3>5. TableKept'
      BY <1>1, <1>2, <1>5, <1>6, <2>2, <3>2 DEF TableKept, InTable
    <3>6. PolledKept'
      <4>1. \A g \in Fd : g \in inEpoll' <=> fdtbl'[g] # NoWatch
        BY <1>1, <3>2 DEF PolledKept
      <4>2. ASSUME NEW g \in Fd PROVE polled'[g] \subseteq UNION {wMask'[v] : v \in WatchesOf(g)'}
        <5>1. CASE g = fd
          <6>1. ASSUME NEW e \in asked PROVE \E v \in WatchesOf(fd) : e \in wMask[v]
            BY <2>4, <2>5, <6>1 DEF WatchesOf
          <6>. QED BY <1>2, <1>6, <3>3, <5>1, <6>1
        <5>2. CASE g # fd
          BY <1>1, <1>2, <1>6, <3>3, <5>2 DEF PolledKept
        <5>. QED BY <5>1, <5>2
      <4>3. ASSUME NEW v \in Watch, LiveWatch(v)', v \notin hungUp' PROVE wMask'[v] \subseteq polled'[wFd'[v]]
        <5>1. v # w /\ LiveWatch(v) /\ v \notin hungUp /\ wFd[v] \in Fd
          BY <1>1, <1>5, <2>2, <4>3 DEF IoTyped
        <5>2. CASE wFd[v] = fd
          BY <1>2, <2>3, <2>4, <3>3, <5>1, <5>2
        <5>3. CASE wFd[v] # fd
          BY <1>1, <1>2, <3>3, <5>1, <5>3 DEF PolledKept
        <5>. QED BY <5>2, <5>3
      <4>. QED BY <4>1, <4>2, <4>3 DEF PolledKept
    <3>. QED BY <1>3, <3>4, <3>5, <3>6 DEF IoInv
  <2>. QED BY <2>6, <2>7
<1>. QED BY <1>7, <1>8

(* A deleted watch leaves its list, or leaves it to its first slave.       *)
LEMMA PurgeWatchKeeps == ASSUME IoInv, PurgeWatch PROVE IoInv'
<1>0. PICK w : w = Head(wDeleted)
  OBVIOUS
<1> DEFINE heir == FirstOf(slaves[w], NoWatch)
           rest == Tail(slaves[w])
<1>1. /\ IoTyped /\ ListsKept /\ LivesKept /\ TableKept /\ PolledKept
      /\ wDeleted # <<>> /\ NoWatch \notin Watch
  BY IoWatchesAssumption DEF PurgeWatch, IoInv
<1>2. /\ wDeleted' = Tail(wDeleted)
      /\ wLife' = [wLife EXCEPT ![w] = "free"]
      /\ hungUp' = hungUp \ {w}
      /\ UNCHANGED <<wFd, wMask, ioStage, collected>> /\ UNCHANGED kernelVars /\ UNCHANGED entryVars
      /\ FreeIoWatch(w)
  BY <1>0 DEF PurgeWatch
<1>3. /\ slaves' = [v \in Watch |->
           IF v = w THEN <<>> ELSE IF v = heir THEN rest ELSE RemoveFirst(slaves[v], w)]
      /\ fdtbl' = [fd \in Fd |-> IF fdtbl[fd] = w THEN heir ELSE fdtbl[fd]]
      /\ iowatches' = (iowatches \ {w}) \cup
           (IF fdtbl[wFd[w]] = w /\ heir # NoWatch THEN {heir} ELSE {})
  BY <1>2 DEF FreeIoWatch
<1>4. /\ w \in Watch /\ wLife[w] = "dead" /\ wMask[w] = {}
      /\ wDeleted' \in Seq(Watch) /\ IsInjective(wDeleted')
      /\ Range(wDeleted') = Range(wDeleted) \ {w}
  <2>1. wDeleted \in Seq(Watch) /\ IsInjective(wDeleted)
    BY <1>1 DEF IoTyped, LivesKept
  <2>2. /\ w \in Range(wDeleted) /\ Tail(wDeleted) \in Seq(Watch) /\ IsInjective(Tail(wDeleted))
        /\ Range(Tail(wDeleted)) = Range(wDeleted) \ {w}
    BY <1>0, <1>1, <2>1, TailFacts
  <2>3. w \in Watch
    BY <2>1, <2>2, MembersOf
  <2>. QED BY <1>1, <1>2, <2>2, <2>3 DEF LivesKept
<1>5. /\ \A v \in Watch : v # w => wLife'[v] = wLife[v] /\ (LiveWatch(v)' <=> LiveWatch(v))
      /\ wLife'[w] = "free" /\ ~LiveWatch(w) /\ ~LiveWatch(w)'
  BY <1>1, <1>2, <1>4 DEF IoTyped, LiveWatch
<1>6. \A g : WatchesOf(g)' = WatchesOf(g)
  BY <1>2, <1>5 DEF WatchesOf
<1>7. ioStage' \notin {"destroyed", "slaves", "slave", "hup"}
  BY <1>1, <1>2, <1>4 DEF PurgeWatch, LivesKept
(* The lists.                                                              *)
<1>8. /\ \A v \in Watch : /\ slaves[v] \in Seq(Watch) /\ IsInjective(slaves[v])
                          /\ Range(slaves[v]) \subseteq Watch
                          /\ Range(slaves[v]) = {} <=> slaves[v] = <<>>
      /\ w \notin Range(slaves[w])
  <2>1. ASSUME NEW v \in Watch
        PROVE  /\ slaves[v] \in Seq(Watch) /\ IsInjective(slaves[v])
               /\ Range(slaves[v]) \subseteq Watch
               /\ Range(slaves[v]) = {} <=> slaves[v] = <<>>
    <3>1. slaves[v] \in Seq(Watch) /\ IsInjective(slaves[v])
      BY <1>1 DEF IoTyped, ListsKept
    <3>2. Range(<<>>) = {}
      BY DEF Range
    <3>. QED BY <3>1, <3>2, TailFacts, MembersOf
  <2>2. w \notin Range(slaves[w])
    BY <1>1, <1>4, <2>1 DEF ListsKept
  <2>. QED BY <2>1, <2>2
<1>9. /\ heir \in Watch \cup {NoWatch} /\ heir # w
      /\ heir = NoWatch <=> slaves[w] = <<>>
      /\ heir # NoWatch => /\ heir \in Range(slaves[w])
                           /\ rest \in Seq(Watch) /\ IsInjective(rest)
                           /\ Range(rest) = Range(slaves[w]) \ {heir}
  <2>1. /\ heir \in Watch \cup {NoWatch}
        /\ heir = NoWatch <=> Range(slaves[w]) = {}
        /\ heir # NoWatch => heir \in Range(slaves[w])
    BY <1>1, <1>4, <1>8, FirstFacts
  <2>2. ASSUME heir # NoWatch
        PROVE  rest \in Seq(Watch) /\ IsInjective(rest) /\ Range(rest) = Range(slaves[w]) \ {heir}
    <3>1. slaves[w] # <<>>
      BY <1>4, <1>8, <2>1, <2>2
    <3>2. heir = slaves[w][1]
      BY <3>1 DEF FirstOf
    <3>. QED BY <1>4, <1>8, <3>1, <3>2, TailFacts
  <2>. QED BY <1>1, <1>4, <1>8, <2>1, <2>2
<1> HIDE DEF heir, rest
<1>10. heir # NoWatch => /\ heir \in Watch /\ slaves[heir] = <<>> /\ wFd[heir] = wFd[w]
                         /\ heir \notin iowatches /\ wLife[heir] # "free"
  BY <1>1, <1>4, <1>8, <1>9 DEF ListsKept
<1>11. ASSUME NEW v \in Watch
       PROVE  /\ v = w => slaves'[v] = <<>> /\ Range(slaves'[v]) = {} /\ slaves'[v] \in Seq(Watch)
              /\ v = heir => slaves'[v] = rest
              /\ v # w /\ v # heir => /\ Range(slaves'[v]) = Range(slaves[v]) \ {w}
                                      /\ slaves[v] = <<>> => slaves'[v] = <<>>
              /\ slaves'[v] \in Seq(Watch) /\ IsInjective(slaves'[v])
  <2>1. CASE v = w
    BY <1>3, <1>9, <2>1, EmptySeq DEF Range, IsInjective
  <2>2. CASE v = heir
    BY <1>1, <1>3, <1>9, <2>2
  <2>3. CASE v # w /\ v # heir
    <3>1. slaves'[v] = RemoveFirst(slaves[v], w)
      BY <1>3, <2>3
    <3>2. /\ RemoveFirst(slaves[v], w) \in Seq(Watch) /\ IsInjective(RemoveFirst(slaves[v], w))
          /\ Range(RemoveFirst(slaves[v], w)) = Range(slaves[v]) \ {w}
      BY <1>8, RemovedFacts
    <3>3. ASSUME slaves[v] = <<>> PROVE RemoveFirst(slaves[v], w) = <<>>
      <4>1. Range(RemoveFirst(slaves[v], w)) = {}
        BY <1>8, <3>2, <3>3
      <4>. QED BY <3>2, <4>1, TailFacts
    <3>. QED BY <2>3, <3>1, <3>2, <3>3
  <2>. QED BY <2>1, <2>2, <2>3
<1>12. /\ \A v, u \in Watch : u \in Range(slaves'[v]) =>
            /\ u # w /\ v # w /\ u # heir
            /\ u \in Range(slaves[v]) \/ (v = heir /\ u \in Range(slaves[w]))
       /\ slaves' \in [Watch -> Seq(Watch)]
  <2>1. \A v \in Watch : v # w => w \notin Range(slaves'[v])
    BY <1>1, <1>8, <1>9, <1>11
  <2>2. \A v \in Watch : v # w /\ heir # NoWatch => heir \notin Range(slaves'[v])
    BY <1>1, <1>4, <1>9, <1>10, <1>11 DEF ListsKept
  <2>3. slaves' \in [Watch -> Seq(Watch)]
    BY <1>3, <1>11
  <2>. QED BY <1>1, <1>9, <1>11, <2>1, <2>2, <2>3
<1>13. IoTyped'
  <2>1. fdtbl' \in [Fd -> Watch \cup {NoWatch}] /\ iowatches' \subseteq Watch
    BY <1>1, <1>3, <1>9 DEF IoTyped
  <2>. QED BY <1>1, <1>2, <1>4, <1>12, <2>1 DEF IoTyped, kernelVars, entryVars
<1>14. ListsKept'
  <2>1. ASSUME NEW v \in Watch, NEW u \in Watch, u \in Range(slaves'[v])
        PROVE  /\ wLife'[u] # "free" /\ wLife'[v] # "free" /\ wFd'[u] = wFd'[v]
               /\ u \notin iowatches' /\ slaves'[u] = <<>>
               /\ \A x \in Watch : u \in Range(slaves'[x]) => x = v
    <3>1. /\ u # w /\ v # w /\ u # heir
          /\ u \in Range(slaves[v]) \/ (v = heir /\ u \in Range(slaves[w]))
      BY <1>12, <2>1
    <3>2. PICK x \in Watch : u \in Range(slaves[x]) /\ wFd[x] = wFd[v] /\ (x = w => v = heir) /\ (x # w => x = v)
      BY <1>1, <1>4, <1>10, <3>1
    <3>3. /\ wLife[u] # "free" /\ wFd[u] = wFd[x] /\ u \notin iowatches /\ slaves[u] = <<>>
          /\ \A y \in Watch : u \in Range(slaves[y]) => y = x
      BY <1>1, <3>2 DEF ListsKept
    <3>4. wLife[v] # "free"
      BY <1>1, <1>9, <1>10, <3>1 DEF ListsKept
    <3>5. \A y \in Watch : u \in Range(slaves'[y]) => y = v
      BY <1>4, <1>12, <3>1, <3>2, <3>3
    <3>6. u \notin iowatches' /\ slaves'[u] = <<>>
      BY <1>3, <1>11, <3>1, <3>3
    <3>. QED BY <1>2, <1>5, <3>1, <3>2, <3>3, <3>4, <3>5, <3>6
  <2>2. \A v \in iowatches' : wLife'[v] # "free"
    <3>1. \A v \in iowatches' : v # w /\ v \in Watch /\ wLife[v] # "free"
      BY <1>1, <1>3, <1>9, <1>10 DEF ListsKept, IoTyped
    <3>. QED BY <1>5, <3>1
  <2>. QED BY <1>11, <2>1, <2>2 DEF ListsKept
<1>15. LivesKept'
  BY <1>1, <1>2, <1>4, <1>5, <1>7 DEF LivesKept
(* The table.                                                              *)
<1>16. ASSUME NEW g \in Fd, fdtbl[g] = w
       PROVE  /\ heir # NoWatch /\ g = wFd[w] /\ fdtbl'[g] = heir /\ heir \in iowatches'
              /\ \A v \in WatchesOf(g) : v = heir \/ v \in Range(slaves'[heir])
  <2>1. /\ g = wFd[w]
        /\ \A v \in WatchesOf(g) : v = w \/ v \in Range(slaves[w])
        /\ \E v \in WatchesOf(g) : InTable(v)
    BY <1>1, <1>4, <1>16, AliveInTable DEF TableKept
  <2>2. \A v \in WatchesOf(g) : v # w
    BY <1>5 DEF WatchesOf
  <2>3. heir # NoWatch
    BY <1>4, <1>8, <1>9, <2>1, <2>2
  <2>4. Range(slaves'[heir]) = Range(slaves[w]) \ {heir}
    BY <1>9, <1>10, <1>11, <2>3
  <2>. QED BY <1>3, <1>16, <2>1, <2>2, <2>3, <2>4
<1>17. ASSUME NEW g \in Fd, fdtbl[g] # w, fdtbl[g] # NoWatch
       PROVE  /\ fdtbl'[g] = fdtbl[g] /\ fdtbl[g] \in iowatches'
              /\ \A v \in WatchesOf(g) : v = fdtbl[g] \/ v \in Range(slaves'[fdtbl[g]])
  <2>1. fdtbl[g] \in iowatches /\ fdtbl[g] \in Watch /\ fdtbl[g] # heir
    BY <1>1, <1>10, <1>17 DEF TableKept, IoTyped
  <2>2. Range(slaves'[fdtbl[g]]) = Range(slaves[fdtbl[g]]) \ {w}
    BY <1>11, <1>17, <2>1
  <2>3. \A v \in WatchesOf(g) : v # w /\ (v = fdtbl[g] \/ v \in Range(slaves[fdtbl[g]]))
    BY <1>5, <1>17, AliveInTable DEF WatchesOf
  <2>. QED BY <1>3, <1>17, <2>1, <2>2, <2>3
<1>18. \A g \in Fd : fdtbl'[g] # NoWatch <=> fdtbl[g] # NoWatch
  BY <1>1, <1>3, <1>4, <1>16
<1>19. \A g \in Fd : fdtbl[g] # NoWatch => \A v \in WatchesOf(g) : InTable(v)'
  BY <1>2, <1>9, <1>10, <1>16, <1>17 DEF InTable, WatchesOf
<1>20. TableKept'
  <2>1. ASSUME NEW g \in Fd, fdtbl'[g] # NoWatch
        PROVE  /\ fdtbl'[g] \in iowatches' /\ wFd'[fdtbl'[g]] = g
               /\ \E v \in WatchesOf(g)' : InTable(v)'
    <3>1. fdtbl[g] # NoWatch
      BY <1>18, <2>1
    <3>2. fdtbl'[g] \in iowatches' /\ wFd'[fdtbl'[g]] = g
      BY <1>1, <1>2, <1>10, <1>16, <1>17, <3>1 DEF TableKept
    <3>3. \E v \in WatchesOf(g) : InTable(v)
      BY <1>1, <3>1 DEF TableKept
    <3>. QED BY <1>6, <1>19, <3>1, <3>2, <3>3
  <2>2. ASSUME NEW v \in Watch, LiveWatch(v)', ~InTable(v)'
        PROVE  v \in iowatches' /\ v \in hungUp' /\ fdtbl'[wFd'[v]] = NoWatch
    <3>1. v # w /\ LiveWatch(v) /\ wFd[v] \in Fd
      BY <1>1, <1>5, <2>2 DEF IoTyped
    <3>2. fdtbl[wFd[v]] = NoWatch
      BY <1>19, <2>2, <3>1 DEF WatchesOf
    <3>3. v \in iowatches /\ v \in hungUp
      BY <1>1, <3>1, <3>2 DEF TableKept, InTable
    <3>. QED BY <1>2, <1>3, <1>18, <3>1, <3>2, <3>3
  <2>. QED BY <2>1, <2>2 DEF TableKept
<1>21. PolledKept'
  <2>1. UNCHANGED <<inEpoll, polled, wMask, wFd>>
    BY <1>2 DEF kernelVars
  <2>2. \A v \in Watch : LiveWatch(v)' /\ v \notin hungUp' => LiveWatch(v) /\ v \notin hungUp
    BY <1>2, <1>5
  <2>3. \A g \in Fd : g \in inEpoll' <=> fdtbl'[g] # NoWatch
    BY <1>1, <1>18, <2>1 DEF PolledKept
  <2>. QED BY <1>1, <1>6, <2>1, <2>2, <2>3 DEF PolledKept
<1>. QED BY <1>7, <1>13, <1>14, <1>15, <1>20, <1>21 DEF IoInv, Dispatching

(* A mainloop that is destroyed when no deleted slave waits frees all.     *)
LEMMA DestroyWatchesKeeps == ASSUME IoInv, ~DestroyDead, DestroyWatches PROVE IoInv'
<1> DEFINE gone == iowatches \cup UNION {Range(slaves[w]) : w \in iowatches}
<1>1. /\ IoTyped /\ ListsKept /\ LivesKept /\ TableKept /\ PolledKept
      /\ Range(wDeleted) \subseteq iowatches
  BY DEF DestroyWatches, IoInv
<1>2. /\ wLife' = [w \in Watch |-> IF w \in gone THEN "free" ELSE wLife[w]]
      /\ wDeleted' = Keep(wDeleted, Watch \ iowatches)
      /\ iowatches' = {} /\ slaves' = [w \in Watch |-> <<>>] /\ hungUp' = {}
      /\ fdtbl' = [fd \in Fd |-> NoWatch]
      /\ inEpoll' = {} /\ polled' = [fd \in Fd |-> {}]
      /\ ioStage' = "destroyed"
      /\ UNCHANGED <<wFd, wMask, collected>> /\ UNCHANGED entryVars
  BY DEF DestroyWatches
<1>3. /\ wDeleted' \in Seq(Watch) /\ IsInjective(wDeleted') /\ Range(wDeleted') = {}
  <2>1. wDeleted \in Seq(Watch) /\ IsInjective(wDeleted)
    BY <1>1 DEF IoTyped, LivesKept
  <2>. QED BY <1>1, <1>2, <2>1, KeepFacts
<1>4. \A w \in Watch : wLife'[w] = "free"
  <2>1. ASSUME NEW w \in Watch, wLife[w] # "free" PROVE w \in gone
    <3>1. CASE wLife[w] = "dead"
      BY <1>1, <3>1 DEF LivesKept
    <3>2. CASE wLife[w] = "live"
      <4>1. wFd[w] \in Fd
        BY <1>1 DEF IoTyped
      <4>. QED BY <1>1, <3>2, <4>1 DEF TableKept, InTable, LiveWatch
    <3>. QED BY <1>1, <2>1, <3>1, <3>2 DEF IoTyped
  <2>. QED BY <1>2, <2>1
<1>5. \A s : s = <<>> => Range(s) = {} /\ IsInjective(s)
  BY DEF Range, IsInjective
<1>6. IoTyped'
  <2>1. \A S : <<>> \in Seq(S)
    BY EmptySeq
  <2>. QED BY <1>1, <1>2, <1>3, <1>4, <2>1 DEF IoTyped, entryVars
<1>7. ListsKept'
  BY <1>2, <1>5 DEF ListsKept
<1>8. LivesKept'
  BY <1>3, <1>4 DEF LivesKept
<1>9. TableKept' /\ PolledKept'
  BY <1>2, <1>4 DEF TableKept, PolledKept, LiveWatch
<1>. QED BY <1>2, <1>6, <1>7, <1>8, <1>9 DEF IoInv, Dispatching

-----------------------------------------------------------------------------
(* Every step of I/O watches keeps their invariant, in a program that adds *)
(* no watch to a descriptor that is polled no more, and destroys no        *)
(* mainloop in which a deleted slave waits.                                *)
LEMMA IoStep == ASSUME IoInv, ~AddAfterHup, ~DestroyDead, [IoNext]_ioVars PROVE IoInv'
<1>1. ASSUME NEW w \in Watch, NEW fd \in Fd, NEW mask \in Masks, AddIoWatch(w, fd, mask) PROVE IoInv'
  <2>1. EpollAdd(w, fd, mask) \/ EpollAddSlave(w, fd, mask)
    BY <1>1 DEF AddIoWatch
  <2>. QED BY <1>1, <2>1, EpollAddKeeps, EpollAddSlaveKeeps
<1>2. ASSUME NEW w \in Watch, DelIoWatch(w) PROVE IoInv'
  BY <1>2, DelIoWatchKeeps
<1>3. ASSUME NEW fd \in Fd, CloseFd(fd) \/ OpenFd(fd) PROVE IoInv'
  BY <1>3, OtherCallsKeep
<1>4. CASE UNCHANGED ioVars
  <2>1. /\ UNCHANGED <<watchVars, kernelVars>> /\ UNCHANGED <<ioStage, collected>> /\ UNCHANGED entryVars
    BY <1>4 DEF ioVars
  <2>2. ListsKept' /\ LivesKept' /\ TableKept' /\ PolledKept'
    BY <2>1, WatchesSame DEF kernelVars
  <2>3. IoTyped'
    BY <2>1 DEF IoInv, IoTyped, watchVars, kernelVars, entryVars
  <2>4. Dispatching' => EntryKept'
    BY <2>1, CallKeepsEntry DEF Dispatching, watchVars
  <2>. QED BY <2>2, <2>3, <2>4 DEF IoInv
<1>. QED BY <1>1, <1>2, <1>3, <1>4, PollIoKeeps, DispatchEntryKeeps, DispatchSlavesKeeps,
            DispatchSlaveKeeps, DispatchHupKeeps, EndsKeep, PurgeWatchKeeps, DestroyWatchesKeeps
         DEF IoNext

(* The invariant is what IoConsistent says, and more.                      *)
LEMMA IoInvAgrees == ASSUME IoInv PROVE IoConsistent
<1>1. /\ IoTyped /\ ListsKept /\ LivesKept /\ TableKept /\ PolledKept
      /\ NoWatch \notin Watch
  BY IoWatchesAssumption DEF IoInv
<1>2. ASSUME NEW w \in Watch
      PROVE  /\ LiveWatch(w) /\ w \notin hungUp =>
                  InTable(w) /\ wFd[w] \in inEpoll /\ wMask[w] \subseteq polled[wFd[w]]
             /\ \A v \in Range(slaves[w]) :
                  /\ wLife[v] # "free" /\ wFd[v] = wFd[w]
                  /\ \A u \in Watch \ {w} : v \notin Range(slaves[u])
             /\ ioStage = "destroyed" => wLife[w] # "live"
  <2>1. slaves[w] \in Seq(Watch) /\ Range(slaves[w]) \subseteq Watch /\ wFd[w] \in Fd
    BY <1>1, MembersOf DEF IoTyped
  <2>2. LiveWatch(w) /\ w \notin hungUp =>
          InTable(w) /\ wFd[w] \in inEpoll /\ wMask[w] \subseteq polled[wFd[w]]
    <3>1. InTable(w) => fdtbl[wFd[w]] # NoWatch
      BY DEF InTable
    <3>. QED BY <1>1, <2>1, <3>1 DEF TableKept, PolledKept
  <2>3. \A v \in Range(slaves[w]) :
          /\ wLife[v] # "free" /\ wFd[v] = wFd[w]
          /\ \A u \in Watch \ {w} : v \notin Range(slaves[u])
    BY <1>1, <2>1 DEF ListsKept
  <2>. QED BY <1>1, <2>2, <2>3 DEF LivesKept
<1>3. \A fd \in Fd :
        /\ fd \in inEpoll <=> fdtbl[fd] # NoWatch
        /\ polled[fd] \subseteq UNION {wMask[w] : w \in WatchesOf(fd)}
        /\ fdtbl[fd] # NoWatch => fdtbl[fd] \in iowatches /\ wFd[fdtbl[fd]] = fd
  BY <1>1 DEF TableKept, PolledKept
<1>4. \A w \in iowatches \cup Range(wDeleted) : wLife[w] # "free"
  <2>1. Range(wDeleted) \subseteq Watch
    BY <1>1, MembersOf DEF IoTyped
  <2>. QED BY <1>1, <2>1 DEF ListsKept, LivesKept
<1>. QED BY <1>2, <1>3, <1>4 DEF IoConsistent

(* A program that adds no watch to a descriptor that is polled no more,    *)
(* and destroys no mainloop in which a deleted slave waits, finds kernel,  *)
(* table and lists of iot_add_io_watch(), iot_del_io_watch() and           *)
(* purge_deleted() in agreement, whatever it deletes in which callback.    *)
THEOREM IoSafety == IoSpec /\ ~AddAfterHup /\ ~DestroyDead => []IoConsistent
<1>1. IoInit => IoInv
  BY IoInitKept
<1>2. ASSUME ~AddAfterHup, ~DestroyDead PROVE IoInv /\ [IoNext]_ioVars => IoInv'
  BY <1>2, IoStep
<1>3. IoInv => IoConsistent
  BY IoInvAgrees
<1>4. CASE ~AddAfterHup /\ ~DestroyDead
  <2>1. IoInv /\ [IoNext]_ioVars => IoInv'
    BY <1>2, <1>4
  <2>. QED BY <1>1, <1>3, <2>1, PTL DEF IoSpec
<1>5. CASE ~(~AddAfterHup /\ ~DestroyDead)
  BY <1>5
<1>. QED BY <1>4, <1>5

(* In such a program dispatch_poll_events() and dispatch_slaves() give     *)
(* every watch that was there all along what it asked for, or somebody     *)
(* before it has taken it.                                                 *)
THEOREM EntryServed == IoSpec /\ ~AddAfterHup /\ ~DestroyDead => []EventsServed
<1>1. IoInit => IoInv
  BY IoInitKept
<1>2. ASSUME ~AddAfterHup, ~DestroyDead PROVE IoInv /\ [IoNext]_ioVars => IoInv'
  BY <1>2, IoStep
<1>3. IoInv => EventsServed
  BY DEF IoInv, EntryKept, Dispatching, EventsServed, Reached
<1>4. CASE ~AddAfterHup /\ ~DestroyDead
  <2>1. IoInv /\ [IoNext]_ioVars => IoInv'
    BY <1>2, <1>4
  <2>. QED BY <1>1, <1>3, <2>1, PTL DEF IoSpec
<1>5. CASE ~(~AddAfterHup /\ ~DestroyDead)
  BY <1>5
<1>. QED BY <1>4, <1>5
-----------------------------------------------------------------------------
(* The inductive invariant of signal handlers.                             *)

SignalsTyped ==
  /\ hLife \in [Handler -> {"free", "live", "dead"}] /\ signum \in [Handler -> Signal]
  /\ sighandlers \in Seq(Handler) /\ ranHandlers \in Seq(Handler)
  /\ dueHandlers \subseteq Handler /\ reading \in Signal
  /\ sigStage \in {"idle", "dispatch", "recalc", "recalc in dispatch"}

HandlersListed ==
  /\ IsInjective(sighandlers)
  /\ Range(sighandlers) = {h \in Handler : hLife[h] # "free"}

(* While the mask is calculated again nothing is blocked.                  *)
MasksKept ==
  /\ Handled \subseteq sigfdMask
  /\ sigStage \in {"idle", "dispatch"} => sigmask = Handled /\ blocked = Handled
  /\ sigStage \in {"recalc", "recalc in dispatch"} => blocked = {}

(* What was called is behind the walk; what is to be called is before it.  *)
WalkKept ==
  /\ nextHandler \in Range(sighandlers) \cup {NoHandler}
  /\ \A h \in dueHandlers :
       /\ hLife[h] # "free" /\ signum[h] = reading
       /\ hLife[h] = "live" =>
            \/ h \in Range(ranHandlers)
            \/ nextHandler # NoHandler /\ (h = nextHandler \/ Before(sighandlers, nextHandler, h))
  /\ IsInjective(ranHandlers)
  /\ nextHandler # NoHandler =>
       \A h \in Range(ranHandlers) : Before(sighandlers, h, nextHandler)

SignalsInv == SignalsTyped /\ HandlersListed /\ MasksKept /\ WalkKept

(* A mainloop begins without handlers.                                     *)
LEMMA SignalsInitKept == ASSUME SignalsInit PROVE SignalsInv
<1>1. (CHOOSE s \in Signal : TRUE) \in Signal
  BY SignalsAssumption
<1>2. SignalsTyped
  <2>1. \A S : <<>> \in Seq(S)
    BY EmptySeq
  <2>. QED BY <1>1, <2>1 DEF SignalsInit, SignalsTyped
<1>3. \A s : s = <<>> => Range(s) = {} /\ IsInjective(s)
  BY DEF Range, IsInjective
<1>4. Handled = {}
  BY DEF SignalsInit, Handled, LiveHandlers
<1>. QED BY <1>2, <1>3, <1>4 DEF SignalsInit, SignalsInv, HandlersListed, MasksKept, WalkKept

(* Who handles which signal, when handlers are not touched.                *)
LEMMA HandledSame ==
  ASSUME UNCHANGED <<hLife, signum>>
  PROVE  Handled' = Handled /\ \A s : LiveHandlers(s)' = LiveHandlers(s)
BY DEF Handled, LiveHandlers

(* A signal owes a call to the handlers that are there.                    *)
LEMMA KillKeeps == ASSUME SignalsInv, NEW s \in Signal, Kill(s) PROVE SignalsInv'
<1>1. /\ UNCHANGED <<hLife, signum, sighandlers, sigmask, sigfdMask, blocked, sigStage>>
      /\ UNCHANGED readVars
  BY DEF Kill, handlerVars, sigmaskVars
<1>2. SignalsTyped' /\ HandlersListed' /\ WalkKept'
  BY <1>1 DEF SignalsInv, SignalsTyped, HandlersListed, WalkKept, readVars
<1>3. MasksKept'
  BY <1>1, HandledSame DEF SignalsInv, MasksKept
<1>. QED BY <1>2, <1>3 DEF SignalsInv

(* A new handler is behind the others, and its signal is blocked.          *)
LEMMA AddSighandlerKeeps ==
  ASSUME SignalsInv, NEW h \in Handler, NEW s \in Signal, AddSighandler(h, s)
  PROVE  SignalsInv'
<1>1. /\ SignalsTyped /\ HandlersListed /\ MasksKept /\ WalkKept
      /\ sigStage \in {"idle", "dispatch"} /\ hLife[h] = "free"
      /\ hLife' = [hLife EXCEPT ![h] = "live"]
      /\ signum' = [signum EXCEPT ![h] = s]
      /\ sighandlers' = Append(sighandlers, h)
      /\ sigmask' = sigmask \cup {s} /\ sigfdMask' = sigmask' /\ blocked' = blocked \cup sigmask'
      /\ UNCHANGED sigStage /\ UNCHANGED <<reading, nextHandler, dueHandlers, ranHandlers>>
      /\ NoHandler \notin Handler
  BY SignalsAssumption DEF AddSighandler, SignalsInv, readVars
<1>2. /\ hLife'[h] = "live" /\ signum'[h] = s
      /\ \A g \in Handler : g # h => hLife'[g] = hLife[g] /\ signum'[g] = signum[g]
  BY <1>1 DEF SignalsTyped
<1>3. h \notin Range(sighandlers) /\ sighandlers \in Seq(Handler) /\ IsInjective(sighandlers)
  BY <1>1 DEF HandlersListed, SignalsTyped
<1>4. /\ sighandlers' \in Seq(Handler) /\ IsInjective(sighandlers')
      /\ Range(sighandlers') = Range(sighandlers) \cup {h}
      /\ \A a, b : Before(sighandlers, a, b) => Before(sighandlers', a, b)
  BY <1>1, <1>3, AppendFacts, AppendBefore
<1>5. SignalsTyped'
  BY <1>1, <1>4 DEF SignalsTyped
<1>6. HandlersListed'
  BY <1>1, <1>2, <1>4 DEF HandlersListed
<1>7. Handled' = Handled \cup {s}
  <2>1. \A r \in Signal : LiveHandlers(r)' = LiveHandlers(r) \cup (IF r = s THEN {h} ELSE {})
    BY <1>1, <1>2 DEF LiveHandlers
  <2>. QED BY <2>1 DEF Handled
<1>8. MasksKept'
  BY <1>1, <1>7 DEF MasksKept
<1>9. WalkKept'
  <2>1. \A g \in dueHandlers : g # h /\ g \in Handler
    BY <1>1 DEF WalkKept, SignalsTyped
  <2>. QED BY <1>1, <1>2, <1>4, <2>1 DEF WalkKept
<1>. QED BY <1>5, <1>6, <1>8, <1>9 DEF SignalsInv

(* A deleted handler stays on the list, and everything is unblocked.       *)
LEMMA DelSighandlerKeeps ==
  ASSUME SignalsInv, NEW h \in Handler, DelSighandler(h)
  PROVE  SignalsInv'
<1>1. /\ SignalsTyped /\ HandlersListed /\ MasksKept /\ WalkKept
      /\ sigStage \in {"idle", "dispatch"} /\ hLife[h] = "live"
      /\ hLife' = [hLife EXCEPT ![h] = "dead"]
      /\ blocked' = blocked \ sigmask
      /\ sigStage' = IF sigStage = "idle" THEN "recalc" ELSE "recalc in dispatch"
      /\ UNCHANGED <<signum, sighandlers, sigmask, sigfdMask>>
      /\ UNCHANGED <<reading, nextHandler, dueHandlers, ranHandlers>>
  BY DEF DelSighandler, SignalsInv, readVars
<1>2. hLife'[h] = "dead" /\ \A g \in Handler : g # h => hLife'[g] = hLife[g]
  BY <1>1 DEF SignalsTyped
<1>3. SignalsTyped'
  BY <1>1 DEF SignalsTyped
<1>4. HandlersListed'
  BY <1>1, <1>2 DEF HandlersListed
<1>5. Handled' \subseteq Handled
  BY <1>1, <1>2 DEF Handled, LiveHandlers
<1>6. MasksKept'
  BY <1>1, <1>5 DEF MasksKept
<1>7. WalkKept'
  <2>1. \A g \in dueHandlers : g \in Handler
    BY <1>1 DEF SignalsTyped
  <2>2. \A g \in Handler : (hLife'[g] = "live" => hLife[g] = "live") /\ (hLife[g] # "free" => hLife'[g] # "free")
    BY <1>1, <1>2
  <2>. QED BY <1>1, <2>1, <2>2 DEF WalkKept
<1>. QED BY <1>3, <1>4, <1>6, <1>7 DEF SignalsInv

(* Handlers that wait to be freed are freed, and are nobody's to call.     *)
LEMMA RecalcSigmaskKeeps == ASSUME SignalsInv, RecalcSigmask PROVE SignalsInv'
<1>1. /\ SignalsTyped /\ HandlersListed /\ MasksKept /\ WalkKept
      /\ sigStage \in {"recalc", "recalc in dispatch"}
      /\ sigmask' = Handled /\ blocked' = blocked \cup sigmask'
      /\ sigStage' = IF sigStage = "recalc" THEN "idle" ELSE "dispatch"
      /\ UNCHANGED <<hLife, signum, sighandlers, sigfdMask>>
      /\ UNCHANGED <<reading, nextHandler, dueHandlers, ranHandlers>>
  BY DEF RecalcSigmask, SignalsInv, readVars, handlerVars
<1>2. SignalsTyped' /\ HandlersListed' /\ WalkKept'
  BY <1>1 DEF SignalsTyped, HandlersListed, WalkKept
<1>3. MasksKept'
  BY <1>1, HandledSame DEF MasksKept
<1>. QED BY <1>2, <1>3 DEF SignalsInv

(* The walk starts with the first handler, with all that are due ahead.    *)
LEMMA ReadSignalKeeps == ASSUME SignalsInv, NEW s \in Signal, ReadSignal(s) PROVE SignalsInv'
<1>1. /\ SignalsTyped /\ HandlersListed /\ MasksKept
      /\ sigStage \in {"idle", "dispatch"} /\ sigStage' = "dispatch" /\ reading' = s
      /\ nextHandler' = FirstOf(sighandlers, NoHandler)
      /\ dueHandlers' = LiveHandlers(s) /\ ranHandlers' = <<>>
      /\ UNCHANGED <<hLife, signum, sighandlers, sigmask, sigfdMask, blocked>>
      /\ NoHandler \notin Handler
  BY SignalsAssumption DEF ReadSignal, SignalsInv, handlerVars, sigmaskVars
<1>2. /\ nextHandler' \in Range(sighandlers) \cup {NoHandler}
      /\ \A h \in Range(sighandlers) :
           nextHandler' # NoHandler /\ (h = nextHandler' \/ Before(sighandlers, nextHandler', h))
  BY <1>1, FirstFacts DEF SignalsTyped
<1>3. Range(ranHandlers') = {} /\ IsInjective(ranHandlers') /\ ranHandlers' \in Seq(Handler)
  BY <1>1, EmptySeq DEF Range, IsInjective
<1>4. SignalsTyped'
  BY <1>1, <1>3 DEF SignalsTyped, LiveHandlers
<1>5. HandlersListed'
  BY <1>1 DEF HandlersListed
<1>6. MasksKept'
  BY <1>1, HandledSame DEF MasksKept
<1>7. WalkKept'
  <2>1. \A h \in dueHandlers' : h \in Range(sighandlers) /\ hLife[h] = "live" /\ signum[h] = s
    BY <1>1 DEF LiveHandlers, HandlersListed
  <2>. QED BY <1>1, <1>2, <1>3, <2>1 DEF WalkKept
<1>. QED BY <1>4, <1>5, <1>6, <1>7 DEF SignalsInv

(* A turn of the walk calls the handler if it is to be called.             *)
LEMMA DispatchSignalKeeps == ASSUME SignalsInv, DispatchSignal PROVE SignalsInv'
<1>0. PICK n : n = nextHandler
  OBVIOUS
<1>1. /\ SignalsTyped /\ HandlersListed /\ MasksKept /\ WalkKept
      /\ n # NoHandler /\ n \in Range(sighandlers)
      /\ nextHandler' = NextHandler(n)
      /\ ranHandlers' = IF hLife[n] = "live" /\ signum[n] = reading
                        THEN Append(ranHandlers, n) ELSE ranHandlers
      /\ UNCHANGED <<hLife, signum, sighandlers, sigmask, sigfdMask, blocked>>
      /\ UNCHANGED <<sigStage, reading, dueHandlers>>
      /\ NoHandler \notin Handler
  BY <1>0, SignalsAssumption DEF DispatchSignal, SignalsInv, WalkKept, handlerVars, sigmaskVars
<1>2. /\ sighandlers \in Seq(Handler) /\ IsInjective(sighandlers) /\ n \in Handler
      /\ ranHandlers \in Seq(Handler) /\ IsInjective(ranHandlers)
      /\ \A h \in Range(ranHandlers) : Before(sighandlers, h, n)
  BY <1>0, <1>1, MembersOf DEF SignalsTyped, HandlersListed, WalkKept
<1>3. /\ nextHandler' \in Range(sighandlers) \cup {NoHandler}
      /\ nextHandler' # NoHandler => Before(sighandlers, n, nextHandler')
      /\ \A h : Before(sighandlers, n, h) =>
           nextHandler' # NoHandler /\ (h = nextHandler' \/ Before(sighandlers, nextHandler', h))
  BY <1>1, <1>2, FollowerFacts DEF NextHandler
<1>4. n \notin Range(ranHandlers)
  BY <1>2, BeforeOrder
<1>5. /\ ranHandlers' \in Seq(Handler) /\ IsInjective(ranHandlers')
      /\ Range(ranHandlers') = Range(ranHandlers) \cup
           (IF hLife[n] = "live" /\ signum[n] = reading THEN {n} ELSE {})
  <2>1. /\ Append(ranHandlers, n) \in Seq(Handler) /\ IsInjective(Append(ranHandlers, n))
        /\ Range(Append(ranHandlers, n)) = Range(ranHandlers) \cup {n}
    BY <1>2, <1>4, AppendFacts
  <2>. QED BY <1>1, <1>2, <2>1
<1>6. SignalsTyped'
  BY <1>1, <1>5 DEF SignalsTyped
<1>7. HandlersListed'
  BY <1>1 DEF HandlersListed
<1>8. MasksKept'
  BY <1>1, HandledSame DEF MasksKept
<1>9. WalkKept'
  <2>1. ASSUME NEW h \in dueHandlers, hLife[h] = "live"
        PROVE  \/ h \in Range(ranHandlers')
               \/ nextHandler' # NoHandler /\ (h = nextHandler' \/ Before(sighandlers, nextHandler', h))
    <3>1. signum[h] = reading /\ (h \in Range(ranHandlers) \/ h = n \/ Before(sighandlers, n, h))
      BY <1>0, <1>1, <2>1 DEF WalkKept
    <3>. QED BY <1>3, <1>5, <2>1, <3>1
  <2>2. ASSUME nextHandler' # NoHandler, NEW h \in Range(ranHandlers')
        PROVE  Before(sighandlers, h, nextHandler')
    <3>1. h = n \/ Before(sighandlers, h, n)
      BY <1>2, <1>5, <2>2
    <3>. QED BY <1>2, <1>3, <2>2, <3>1, BeforeOrder
  <2>. QED BY <1>1, <1>3, <1>5, <2>1, <2>2 DEF WalkKept
<1>. QED BY <1>6, <1>7, <1>8, <1>9 DEF SignalsInv

(* What is deleted leaves the list when nothing is walked.                 *)
LEMMA EndSignalsKeeps == ASSUME SignalsInv, EndSignals PROVE SignalsInv'
<1> DEFINE alive == {h \in Handler : hLife[h] = "live"}
<1>1. /\ SignalsTyped /\ HandlersListed /\ MasksKept /\ nextHandler = NoHandler
      /\ sigStage \in {"idle", "dispatch"} /\ sigStage' = "idle"
      /\ sighandlers' = Keep(sighandlers, alive)
      /\ hLife' = [h \in Handler |-> IF hLife[h] = "dead" THEN "free" ELSE hLife[h]]
      /\ dueHandlers' = {} /\ ranHandlers' = <<>>
      /\ UNCHANGED <<signum, sigmask, sigfdMask, blocked, reading, nextHandler>>
  BY DEF EndSignals, SignalsInv, sigmaskVars
<1>2. /\ sighandlers' \in Seq(Handler) /\ IsInjective(sighandlers')
      /\ Range(sighandlers') = Range(sighandlers) \cap alive
  <2>1. sighandlers \in Seq(Handler) /\ IsInjective(sighandlers)
    BY <1>1 DEF SignalsTyped, HandlersListed
  <2>. HIDE DEF alive
  <2>. QED BY <1>1, <2>1, KeepFacts
<1>3. \A h \in Handler : hLife'[h] = "live" <=> hLife[h] = "live"
  BY <1>1 DEF SignalsTyped
<1>4. Range(ranHandlers') = {} /\ IsInjective(ranHandlers') /\ ranHandlers' \in Seq(Handler)
  BY <1>1, EmptySeq DEF Range, IsInjective
<1>5. SignalsTyped'
  BY <1>1, <1>2, <1>4 DEF SignalsTyped
<1>6. HandlersListed'
  BY <1>1, <1>2, <1>3 DEF HandlersListed, SignalsTyped
<1>7. Handled' = Handled
  BY <1>1, <1>3 DEF Handled, LiveHandlers
<1>8. MasksKept'
  BY <1>1, <1>7 DEF MasksKept
<1>9. WalkKept'
  BY <1>1, <1>4 DEF WalkKept
<1>. QED BY <1>5, <1>6, <1>8, <1>9 DEF SignalsInv

(* Every step keeps the invariant.                                         *)
LEMMA SignalsStep == ASSUME SignalsInv, [SignalsNext]_signalVars PROVE SignalsInv'
<1>1. CASE UNCHANGED signalVars
  <2>1. /\ UNCHANGED <<hLife, signum, sighandlers, sigmask, sigfdMask, blocked, sigStage>>
        /\ UNCHANGED <<reading, nextHandler, dueHandlers, ranHandlers>>
    BY <1>1 DEF signalVars, handlerVars, sigmaskVars, readVars
  <2>2. SignalsTyped' /\ HandlersListed' /\ WalkKept'
    BY <2>1 DEF SignalsInv, SignalsTyped, HandlersListed, WalkKept
  <2>3. MasksKept'
    BY <2>1, HandledSame DEF SignalsInv, MasksKept
  <2>. QED BY <2>2, <2>3 DEF SignalsInv
<1>. QED BY <1>1, KillKeeps, ReadSignalKeeps, AddSighandlerKeeps, DelSighandlerKeeps,
            RecalcSigmaskKeeps, DispatchSignalKeeps, EndSignalsKeeps
         DEF SignalsNext

(* Exactly the signals with a handler are blocked between the calls of     *)
(* recalc_sigmask(), and dispatch_signals() calls every handler that was   *)
(* there when it read the signal and still is, once.                       *)
THEOREM SignalsSafety == SignalsSpec => []SignalsHandled
<1>1. SignalsInit => SignalsInv
  BY SignalsInitKept
<1>2. SignalsInv /\ [SignalsNext]_signalVars => SignalsInv'
  BY SignalsStep
<1>3. SignalsInv => SignalsHandled
  BY DEF SignalsInv, MasksKept, WalkKept, SignalsHandled
<1>. QED BY <1>1, <1>2, <1>3, PTL DEF SignalsSpec
-----------------------------------------------------------------------------
(* The inductive invariant of the event buses.                             *)

Emissions ==
  [bus : AnyBus, id : Nat, pumped : BOOLEAN, ran : SUBSET EvWatch,
   nxt : EvWatch \cup {NoEv}, due : SUBSET EvWatch]

Queued == [bus : Bus, id : Nat]

BusTyped ==
  /\ names \in Seq(EventNames) /\ busses \subseteq AnyBus
  /\ evWatches \in [AnyBus -> Seq(EvWatch)]
  /\ evMask \in [EvWatch -> SUBSET Nat] /\ wanted = evMask
  /\ emissions \in Seq(Emissions) /\ eventq \in Seq(Queued)

WatchesListed ==
  /\ \A b \in AnyBus : IsInjective(evWatches[b])
  /\ \A b, c \in AnyBus : b # c => WatchesOn(b) \cap WatchesOn(c) = {}

(* A watch waits to be freed only while its bus is walked.                 *)
DeadWait ==
  \A w \in evDead : \E b \in Bus : w \in WatchesOn(b) /\ Busy(b)

(* Who is owed a call has got it, or the walk has not come to it yet.      *)
EmissionKept(e, lists, dead, masks) ==
  /\ e.nxt \in Range(lists[e.bus]) \cup {NoEv}
  /\ \A w \in e.due :
       /\ w \in Range(lists[e.bus]) /\ w \notin dead /\ e.id \in masks[w]
       /\ \/ w \in e.ran
          \/ e.nxt # NoEv /\ (w = e.nxt \/ Before(lists[e.bus], e.nxt, w))

(* Only the outermost emission is of an event of the queue.                *)
PumpKept ==
  /\ \A i \in DOMAIN emissions :
       emissions[i].pumped => i = Len(emissions) /\ eventq # <<>>
  /\ eventq # <<>> => eventd

BusInv ==
  /\ BusTyped /\ WatchesListed /\ DeadWait /\ PumpKept
  /\ \A i \in DOMAIN emissions : EmissionKept(emissions[i], evWatches, evDead, evMask)

(* A watch is on one bus.                                                  *)
LEMMA OnOneBus ==
  ASSUME WatchesListed, NEW b \in AnyBus, NEW w \in WatchesOn(b)
  PROVE  BusOf(w) = b
<1>1. BusOf(w) \in AnyBus /\ w \in WatchesOn(BusOf(w))
  BY DEF BusOf
<1>. QED BY <1>1 DEF WatchesListed

(* An emission is owed the same and has the same ahead.                    *)
LEMMA EmissionCarried ==
  ASSUME NEW e, NEW lists, NEW dead, NEW masks, EmissionKept(e, lists, dead, masks),
         NEW f, NEW lists2, NEW dead2, NEW masks2,
         f.bus = e.bus, f.id = e.id, f.nxt = e.nxt, f.ran = e.ran, f.due \subseteq e.due,
         e.nxt # NoEv => e.nxt \in Range(lists2[e.bus]),
         \A w \in f.due : /\ w \in Range(lists2[e.bus]) /\ w \notin dead2 /\ masks2[w] = masks[w]
                          /\ Before(lists[e.bus], e.nxt, w) => Before(lists2[e.bus], e.nxt, w)
  PROVE  EmissionKept(f, lists2, dead2, masks2)
BY DEF EmissionKept

(* An emission under way, with what the invariant says of it.              *)
LEMMA EmissionTyped ==
  ASSUME BusInv, NEW i \in DOMAIN emissions
  PROVE  /\ emissions[i] \in Emissions /\ EmissionKept(emissions[i], evWatches, evDead, evMask)
         /\ emissions[i].bus \in AnyBus /\ emissions[i].due \subseteq EvWatch
<1>1. emissions \in Seq(Emissions)
  BY DEF BusInv, BusTyped
<1>2. emissions[i] \in Emissions
  <2>. HIDE DEF Emissions
  <2>. QED BY <1>1, LenProperties, ElementOfSeq
<1>. QED BY <1>2 DEF BusInv, Emissions

(* There are no watches and no emissions at first.                         *)
LEMMA BusInitKept == ASSUME EventBusInit PROVE BusInv
<1>1. \A S : <<>> \in Seq(S)
  BY EmptySeq
<1>2. BusTyped
  BY <1>1 DEF EventBusInit, BusTyped, AnyBus
<1>3. \A s : s = <<>> => Range(s) = {} /\ IsInjective(s) /\ DOMAIN s = {}
  BY DEF Range, IsInjective
<1>4. WatchesListed
  BY <1>3 DEF EventBusInit, WatchesListed, WatchesOn
<1>. QED BY <1>2, <1>3, <1>4 DEF EventBusInit, BusInv, DeadWait, PumpKept

(* Registering events and buses, and queueing an event.                    *)
LEMMA BusSame ==
  ASSUME BusInv, UNCHANGED <<watchesVars, emissions>>,
         names' \in Seq(EventNames), busses' \subseteq AnyBus, eventq' \in Seq(Queued),
         eventq # <<>> => eventq' # <<>>, eventq' # <<>> => eventd'
  PROVE  BusInv'
<1> USE DEF watchesVars
<1>1. BusTyped'
  BY DEF BusInv, BusTyped
<1>2. WatchesListed'
  BY DEF BusInv, WatchesListed, WatchesOn
<1>3. DeadWait'
  BY DEF BusInv, DeadWait, WatchesOn, Busy
<1>4. PumpKept'
  BY DEF BusInv, PumpKept
<1>5. \A i \in DOMAIN emissions' : EmissionKept(emissions'[i], evWatches', evDead', evMask')
  BY DEF BusInv
<1>. QED BY <1>1, <1>2, <1>3, <1>4, <1>5 DEF BusInv

(* Registering an event, making a bus and queueing an event change no      *)
(* watch and no emission.                                                  *)
LEMMA NamesKeep ==
  ASSUME BusInv, \/ \E name \in EventNames : EventId(name)
                 \/ \E b \in AnyBus : BusGet(b) \/ \E id \in DOMAIN names : QueueEvent(b, id)
  PROVE  BusInv'
<1>1. BusTyped /\ PumpKept /\ names \in Seq(EventNames) /\ eventq \in Seq(Queued) /\ busses \subseteq AnyBus
  BY DEF BusInv, BusTyped
<1>2. ASSUME NEW name \in EventNames, EventId(name) PROVE BusInv'
  <2>1. names' \in Seq(EventNames) /\ UNCHANGED <<busses, watchesVars, emissions, eventq, eventd>>
    BY <1>1, <1>2, AppendProperties DEF EventId
  <2>. QED BY <1>1, <2>1, BusSame DEF PumpKept
<1>3. ASSUME NEW b \in AnyBus, BusGet(b) PROVE BusInv'
  BY <1>1, <1>3, BusSame DEF BusGet, PumpKept
<1>4. ASSUME NEW b \in AnyBus, NEW id \in DOMAIN names, QueueEvent(b, id) PROVE BusInv'
  <2>1. [bus |-> b, id |-> id] \in Queued
    BY <1>1, <1>4, LenProperties DEF QueueEvent, Queued, AnyBus
  <2>2. Append(eventq, [bus |-> b, id |-> id]) \in Seq(Queued) /\ Append(eventq, [bus |-> b, id |-> id]) # <<>>
    BY <1>1, <2>1, AppendProperties
  <2>. QED BY <1>1, <1>4, <2>2, BusSame DEF QueueEvent
<1>. QED BY <1>2, <1>3, <1>4

(* A new watch is behind all others of its bus.                            *)
WatchAdded(w, b, ids) ==
  /\ w \notin InUse
  /\ evWatches' = [evWatches EXCEPT ![b] = Append(@, w)]
  /\ evMask' = [evMask EXCEPT ![w] = ids] /\ wanted' = [wanted EXCEPT ![w] = ids]
  /\ UNCHANGED <<names, busses, evDead, emissions, eventq, eventd>>

(* A watch that is added is due in no emission.                            *)
LEMMA AddWatchKeeps ==
  ASSUME BusInv, NEW w \in EvWatch, NEW b \in AnyBus, NEW ids \in SUBSET Nat, WatchAdded(w, b, ids)
  PROVE  BusInv'
<1>1. /\ BusTyped /\ WatchesListed /\ DeadWait /\ PumpKept
      /\ \A c \in AnyBus : w \notin WatchesOn(c)
      /\ evWatches' = [evWatches EXCEPT ![b] = Append(@, w)]
      /\ evMask' = [evMask EXCEPT ![w] = ids] /\ wanted' = [wanted EXCEPT ![w] = ids]
      /\ UNCHANGED <<names, busses, evDead, emissions, eventq, eventd>>
  BY DEF BusInv, InUse, WatchAdded
<1>2. /\ evWatches[b] \in Seq(EvWatch) /\ IsInjective(evWatches[b]) /\ w \notin Range(evWatches[b])
      /\ evWatches'[b] = Append(evWatches[b], w)
      /\ \A c \in AnyBus : c # b => evWatches'[c] = evWatches[c]
  BY <1>1 DEF BusTyped, WatchesListed, WatchesOn
<1>3. /\ evWatches'[b] \in Seq(EvWatch) /\ IsInjective(evWatches'[b])
      /\ Range(evWatches'[b]) = Range(evWatches[b]) \cup {w}
      /\ \A x, y : Before(evWatches[b], x, y) => Before(evWatches'[b], x, y)
  BY <1>2, AppendFacts, AppendBefore
<1>4. \A c \in AnyBus : WatchesOn(c)' = WatchesOn(c) \cup (IF c = b THEN {w} ELSE {})
  BY <1>2, <1>3 DEF WatchesOn
<1>5. BusTyped'
  BY <1>1, <1>2, <1>3 DEF BusTyped
<1>6. WatchesListed'
  <2>1. \A c \in AnyBus : IsInjective(evWatches'[c])
    BY <1>1, <1>2, <1>3 DEF WatchesListed
  <2>2. ASSUME NEW c \in AnyBus, NEW d \in AnyBus, c # d PROVE WatchesOn(c)' \cap WatchesOn(d)' = {}
    BY <1>1, <1>4, <2>2 DEF WatchesListed
  <2>. QED BY <2>1, <2>2 DEF WatchesListed
<1>7. DeadWait'
  <2>1. ASSUME NEW v \in evDead PROVE \E c \in Bus : v \in WatchesOn(c)' /\ Busy(c)'
    <3>1. PICK c \in Bus : v \in WatchesOn(c) /\ Busy(c)
      BY <1>1 DEF DeadWait
    <3>2. v \in WatchesOn(c)'
      BY <1>4, <3>1 DEF AnyBus
    <3>3. Busy(c)'
      BY <1>1, <3>1 DEF Busy
    <3>. QED BY <3>2, <3>3
  <2>. QED BY <1>1, <2>1 DEF DeadWait
<1>8. PumpKept'
  BY <1>1 DEF PumpKept
<1>9. ASSUME NEW i \in DOMAIN emissions
      PROVE  EmissionKept(emissions[i], evWatches', evDead, evMask')
  <2>0. PICK e : e = emissions[i]
    OBVIOUS
  <2>1. /\ e \in Emissions /\ EmissionKept(e, evWatches, evDead, evMask) /\ e.bus \in AnyBus
        /\ e.due \subseteq EvWatch
    BY <2>0, EmissionTyped
  <2>2. \A x, y : Before(evWatches[e.bus], x, y) => Before(evWatches'[e.bus], x, y)
    BY <1>2, <1>3, <2>1
  <2>3. Range(evWatches[e.bus]) \subseteq Range(evWatches'[e.bus])
    BY <1>2, <1>3, <2>1
  <2>4. \A v \in e.due : v \in Range(evWatches[e.bus]) /\ v # w /\ v \notin evDead
    BY <1>1, <2>1 DEF EmissionKept, WatchesOn
  <2>5. \A v \in e.due : evMask'[v] = evMask[v]
    BY <1>1, <2>1, <2>4 DEF BusTyped
  <2>6. e.nxt # NoEv => e.nxt \in Range(evWatches'[e.bus])
    BY <2>1, <2>3 DEF EmissionKept
  <2>7. EmissionKept(e, evWatches', evDead, evMask')
    <3>1. \A v \in e.due : /\ v \in Range(evWatches'[e.bus]) /\ v \notin evDead /\ evMask'[v] = evMask[v]
                           /\ Before(evWatches[e.bus], e.nxt, v) => Before(evWatches'[e.bus], e.nxt, v)
      BY <2>2, <2>3, <2>4, <2>5
    <3>. QED BY <2>1, <2>6, <3>1, EmissionCarried
  <2>. QED BY <2>0, <2>7
<1>. QED BY <1>1, <1>5, <1>6, <1>7, <1>8, <1>9 DEF BusInv

(* The emissions when they owe w nothing any more.                         *)
LEMMA Forgotten ==
  ASSUME BusTyped, NEW w
  PROVE  /\ Forget(w) \in Seq(Emissions)
         /\ DOMAIN Forget(w) = DOMAIN emissions /\ Len(Forget(w)) = Len(emissions)
         /\ \A i \in DOMAIN emissions :
              /\ emissions[i] \in Emissions
              /\ Forget(w)[i].bus = emissions[i].bus /\ Forget(w)[i].id = emissions[i].id
              /\ Forget(w)[i].nxt = emissions[i].nxt /\ Forget(w)[i].ran = emissions[i].ran
              /\ Forget(w)[i].pumped = emissions[i].pumped
              /\ Forget(w)[i].due = emissions[i].due \ {w}
<1> DEFINE n == Len(emissions)
           f == Forget(w)
<1>1. n \in Nat /\ DOMAIN emissions = 1 .. n /\ \A i \in 1 .. n : emissions[i] \in Emissions
  <2>. HIDE DEF Emissions
  <2>1. emissions \in Seq(Emissions)
    BY DEF BusTyped
  <2>. QED BY <2>1, LenProperties, ElementOfSeq
<1>2. f = [i \in 1 .. n |-> [emissions[i] EXCEPT !.due = @ \ {w}]]
  BY <1>1 DEF Forget
<1>. HIDE DEF n, f
<1>3. ASSUME NEW i \in 1 .. n
      PROVE  /\ f[i] \in Emissions
             /\ f[i].bus = emissions[i].bus /\ f[i].id = emissions[i].id
             /\ f[i].nxt = emissions[i].nxt /\ f[i].ran = emissions[i].ran
             /\ f[i].pumped = emissions[i].pumped /\ f[i].due = emissions[i].due \ {w}
  BY <1>1, <1>2 DEF Emissions
<1>4. f \in [1 .. n -> Emissions]
  <2>. HIDE DEF Emissions
  <2>. QED BY <1>2, <1>3
<1>5. f \in Seq(Emissions)
  <2>. HIDE DEF Emissions
  <2>. QED BY <1>1, <1>4
<1>6. DOMAIN f = 1 .. n /\ Len(f) = n
  <2>. HIDE DEF Emissions
  <2>. QED BY <1>1, <1>4, <1>5, LenProperties
<1>. QED BY <1>1, <1>3, <1>5, <1>6 DEF f, n

(* On a bus that is walked a deleted watch is marked.                      *)
LEMMA MarkWatchKeeps ==
  ASSUME BusInv, NEW w \in EvWatch, NEW b \in Bus, w \in WatchesOn(b), Busy(b),
         evDead' = evDead \cup {w}, emissions' = Forget(w),
         UNCHANGED <<evWatches, evMask, wanted, names, busses, eventq, eventd>>
  PROVE  BusInv'
<1>1. /\ BusTyped /\ WatchesListed /\ DeadWait /\ PumpKept
  BY DEF BusInv
<1>2. /\ emissions' \in Seq(Emissions) /\ DOMAIN emissions' = DOMAIN emissions
      /\ Len(emissions') = Len(emissions)
      /\ \A i \in DOMAIN emissions :
           /\ emissions[i] \in Emissions
           /\ emissions'[i].bus = emissions[i].bus /\ emissions'[i].id = emissions[i].id
           /\ emissions'[i].nxt = emissions[i].nxt /\ emissions'[i].ran = emissions[i].ran
           /\ emissions'[i].pumped = emissions[i].pumped /\ emissions'[i].due = emissions[i].due \ {w}
  BY <1>1, Forgotten
<1>3. \A c : Busy(c)' <=> Busy(c)
  BY <1>2 DEF Busy
<1>4. \A c : WatchesOn(c)' = WatchesOn(c)
  BY DEF WatchesOn
<1>5. BusTyped'
  BY <1>1, <1>2 DEF BusTyped
<1>6. WatchesListed'
  BY <1>1, <1>4 DEF WatchesListed
<1>7. DeadWait'
  BY <1>1, <1>3, <1>4 DEF DeadWait
<1>8. PumpKept'
  BY <1>1, <1>2 DEF PumpKept
<1>9. ASSUME NEW i \in DOMAIN emissions
      PROVE  EmissionKept(emissions'[i], evWatches, evDead', evMask)
  <2>0. PICK e, f : e = emissions[i] /\ f = emissions'[i]
    OBVIOUS
  <2>1. EmissionKept(e, evWatches, evDead, evMask)
    BY <2>0, EmissionTyped
  <2>2. f.bus = e.bus /\ f.id = e.id /\ f.nxt = e.nxt /\ f.ran = e.ran /\ f.due = e.due \ {w}
    BY <1>2, <2>0
  <2>3. EmissionKept(f, evWatches, evDead', evMask)
    BY <2>1, <2>2 DEF EmissionKept
  <2>. QED BY <2>0, <2>3
<1>. QED BY <1>2, <1>5, <1>6, <1>7, <1>8, <1>9 DEF BusInv

(* Elsewhere it is freed, when no walk goes on with it.                    *)
WatchFreed(w, b) ==
  /\ FreeWatch(w, b) /\ emissions' = Forget(w)
  /\ UNCHANGED <<names, busses, eventq, eventd>>

(* A watch that no emission is about to come to can be taken off.          *)
LEMMA FreeWatchKeeps ==
  ASSUME BusInv, NEW w \in EvWatch \ evDead, NEW b \in AnyBus, w \in WatchesOn(b),
         \A i \in DOMAIN emissions : emissions[i].nxt # w, WatchFreed(w, b)
  PROVE  BusInv'
<1>1. /\ BusTyped /\ WatchesListed /\ DeadWait /\ PumpKept /\ w \notin evDead
      /\ evWatches' = [evWatches EXCEPT ![b] = RemoveFirst(@, w)]
      /\ evMask' = [evMask EXCEPT ![w] = {}]
      /\ wanted' = [wanted EXCEPT ![w] = {}]
      /\ UNCHANGED <<names, busses, eventq, eventd, evDead>>
  BY DEF BusInv, WatchFreed, FreeWatch
<1>2. /\ emissions' \in Seq(Emissions) /\ DOMAIN emissions' = DOMAIN emissions
      /\ Len(emissions') = Len(emissions)
      /\ \A i \in DOMAIN emissions :
           /\ emissions[i] \in Emissions
           /\ emissions'[i].bus = emissions[i].bus /\ emissions'[i].id = emissions[i].id
           /\ emissions'[i].nxt = emissions[i].nxt /\ emissions'[i].ran = emissions[i].ran
           /\ emissions'[i].pumped = emissions[i].pumped /\ emissions'[i].due = emissions[i].due \ {w}
  BY <1>1, Forgotten DEF WatchFreed
<1>3. \A c : Busy(c)' <=> Busy(c)
  BY <1>2 DEF Busy
<1>4. /\ evWatches'[b] = RemoveFirst(evWatches[b], w)
      /\ evWatches[b] \in Seq(EvWatch) /\ IsInjective(evWatches[b])
      /\ \A c \in AnyBus : c # b => evWatches'[c] = evWatches[c]
  BY <1>1 DEF BusTyped, WatchesListed
<1>5. /\ evWatches'[b] \in Seq(EvWatch) /\ IsInjective(evWatches'[b])
      /\ Range(evWatches'[b]) = Range(evWatches[b]) \ {w}
      /\ \A x, y : Before(evWatches[b], x, y) /\ x # w /\ y # w => Before(evWatches'[b], x, y)
  BY <1>4, RemovedFacts, RemoveFirstBefore
<1>6. \A c \in AnyBus : WatchesOn(c)' = WatchesOn(c) \ {w}
  BY <1>1, <1>4, <1>5 DEF WatchesOn, WatchesListed
<1>7. BusTyped'
  BY <1>1, <1>2, <1>4, <1>5 DEF BusTyped
<1>8. WatchesListed'
  <2>1. \A c \in AnyBus : IsInjective(evWatches'[c])
    BY <1>1, <1>4, <1>5 DEF WatchesListed
  <2>2. \A c, d \in AnyBus : c # d => WatchesOn(c)' \cap WatchesOn(d)' = {}
    BY <1>1, <1>6 DEF WatchesListed
  <2>. QED BY <2>1, <2>2 DEF WatchesListed
<1>9. DeadWait'
  BY <1>1, <1>3, <1>6 DEF DeadWait, AnyBus
<1>10. PumpKept'
  BY <1>1, <1>2 DEF PumpKept
<1>11. ASSUME NEW i \in DOMAIN emissions
       PROVE  EmissionKept(emissions'[i], evWatches', evDead, evMask')
  <2>0. PICK e, f : e = emissions[i] /\ f = emissions'[i]
    OBVIOUS
  <2>1. /\ EmissionKept(e, evWatches, evDead, evMask) /\ e.bus \in AnyBus /\ e.due \subseteq EvWatch
        /\ e.nxt # w
    BY <2>0, EmissionTyped
  <2>2. f.bus = e.bus /\ f.id = e.id /\ f.nxt = e.nxt /\ f.ran = e.ran /\ f.due = e.due \ {w}
    BY <1>2, <2>0
  <2>3. /\ Range(evWatches'[e.bus]) = Range(evWatches[e.bus]) \ {w}
        /\ \A y : Before(evWatches[e.bus], e.nxt, y) /\ y # w => Before(evWatches'[e.bus], e.nxt, y)
    BY <1>4, <1>5, <1>6, <2>1 DEF WatchesOn
  <2>4. \A v \in f.due : evMask'[v] = evMask[v]
    BY <1>1, <2>1, <2>2 DEF BusTyped
  <2>5. EmissionKept(f, evWatches', evDead, evMask')
    BY <2>1, <2>2, <2>3, <2>4 DEF EmissionKept
  <2>. QED BY <2>0, <2>5
<1>. QED BY <1>1, <1>2, <1>7, <1>8, <1>9, <1>10, <1>11 DEF BusInv

(* A watch is freed at once, or waits for the emissions of its bus.        *)
LEMMA DelWatchKeeps ==
  ASSUME BusInv, ~DeleteNext, NEW w \in EvWatch, DelWatch(w)
  PROVE  BusInv'
<1>0. PICK b : b = BusOf(w)
  OBVIOUS
<1>1. /\ w \in InUse \ evDead
      /\ IF b # NullBus /\ Busy(b)
         THEN evDead' = evDead \cup {w} /\ UNCHANGED <<evWatches, evMask, wanted>>
         ELSE (\A i \in DOMAIN emissions : emissions[i].nxt # w) /\ FreeWatch(w, b)
      /\ emissions' = Forget(w)
      /\ UNCHANGED <<names, busses, eventq, eventd>>
  BY <1>0 DEF DelWatch
<1>2. b \in AnyBus /\ w \in WatchesOn(b)
  <2>1. PICK c \in AnyBus : w \in WatchesOn(c)
    BY <1>1 DEF InUse
  <2>2. b = c
    BY <1>0, <2>1, OnOneBus DEF BusInv
  <2>. QED BY <2>1, <2>2
<1>3. CASE b # NullBus /\ Busy(b)
  <2>1. b \in Bus
    BY <1>2, <1>3 DEF AnyBus
  <2>. QED BY <1>1, <1>2, <1>3, <2>1, MarkWatchKeeps
<1>4. CASE ~(b # NullBus /\ Busy(b))
  BY <1>1, <1>2, <1>4, FreeWatchKeeps DEF WatchFreed
<1>. QED BY <1>3, <1>4

(* A new emission is owed to the watches there, all ahead of its walk.     *)
LEMMA EmitKeeps ==
  ASSUME BusInv, NEW b \in AnyBus, NEW id \in Nat, NEW pumped \in BOOLEAN,
         EmitEvent(b, id, pumped), UNCHANGED <<names, busses, watchesVars, eventq, eventd>>,
         pumped => emissions = <<>> /\ eventq # <<>>
  PROVE  BusInv'
<1> DEFINE due == {w \in WatchesOn(b) \ evDead : id \in wanted[w]}
           first == FirstOf(evWatches[b], NoEv)
           e == [bus |-> b, id |-> id, pumped |-> pumped, ran |-> {}, nxt |-> first, due |-> due]
<1>1. /\ BusTyped /\ WatchesListed /\ DeadWait /\ PumpKept
      /\ emissions' = <<e>> \o emissions
      /\ UNCHANGED <<evWatches, evMask, wanted, evDead>>
      /\ NoEv \notin EvWatch
  BY EventBusAssumption DEF BusInv, EmitEvent, watchesVars
<1>2. evWatches[b] \in Seq(EvWatch) /\ Range(evWatches[b]) \subseteq EvWatch
  BY <1>1, MembersOf DEF BusTyped
<1>3. /\ first \in Range(evWatches[b]) \cup {NoEv} /\ first \in EvWatch \cup {NoEv}
      /\ \A w \in Range(evWatches[b]) : first # NoEv /\ (w = first \/ Before(evWatches[b], first, w))
  <2>. HIDE DEF e
  <2>. QED BY <1>1, <1>2, FirstFacts
<1>. HIDE DEF first
<1>4. e \in Emissions
  BY <1>2, <1>3 DEF Emissions, WatchesOn
<1>5. EmissionKept(e, evWatches, evDead, evMask)
  BY <1>1, <1>3 DEF EmissionKept, WatchesOn, BusTyped
<1>6. e.pumped = pumped /\ e.bus = b
  OBVIOUS
<1>. HIDE DEF e
<1>7. /\ emissions' \in Seq(Emissions) /\ Len(emissions') = Len(emissions) + 1
      /\ Len(emissions) \in Nat /\ DOMAIN emissions = 1 .. Len(emissions)
      /\ DOMAIN emissions' = 1 .. Len(emissions) + 1
      /\ emissions'[1] = e
      /\ \A i \in DOMAIN emissions' : i = 1 \/ (i - 1 \in DOMAIN emissions /\ emissions'[i] = emissions[i - 1])
      /\ \A i \in DOMAIN emissions : i + 1 \in DOMAIN emissions' /\ emissions'[i + 1] = emissions[i]
  <2>1. emissions \in Seq(Emissions)
    BY <1>1 DEF BusTyped
  <2>2. Len(emissions) \in Nat /\ DOMAIN emissions = 1 .. Len(emissions)
    BY <2>1, LenProperties
  <2>3. emissions' \in Seq(Emissions) /\ Len(emissions') = Len(emissions) + 1
    BY <1>1, <1>4, <2>1, PushFacts
  <2>4. DOMAIN emissions' = 1 .. Len(emissions) + 1
    BY <2>3, LenProperties
  <2>. QED BY <1>1, <1>4, <2>1, <2>2, <2>3, <2>4, PushFacts
<1>8. \A c : Busy(c) => Busy(c)'
  BY <1>7 DEF Busy
<1>9. BusTyped'
  BY <1>1, <1>7 DEF BusTyped
<1>10. WatchesListed'
  BY <1>1 DEF WatchesListed, WatchesOn
<1>11. DeadWait'
  BY <1>1, <1>8 DEF DeadWait, WatchesOn
<1>12. PumpKept'
  <2>1. ASSUME NEW i \in DOMAIN emissions', emissions'[i].pumped
        PROVE  i = Len(emissions') /\ eventq # <<>>
    <3>1. CASE i = 1
      <4>1. emissions = <<>> /\ eventq # <<>>
        BY <1>6, <1>7, <2>1, <3>1
      <4>. QED BY <1>7, <3>1, <4>1
    <3>2. CASE i # 1
      <4>1. i - 1 \in DOMAIN emissions /\ emissions[i - 1].pumped
        BY <1>7, <2>1, <3>2
      <4>2. i - 1 = Len(emissions) /\ eventq # <<>>
        BY <1>1, <4>1 DEF PumpKept
      <4>. QED BY <1>7, <2>1, <4>2
    <3>. QED BY <3>1, <3>2
  <2>. QED BY <1>1, <2>1 DEF PumpKept
<1>13. ASSUME NEW i \in DOMAIN emissions'
       PROVE  EmissionKept(emissions'[i], evWatches, evDead, evMask)
  <2>1. CASE i = 1
    BY <1>5, <1>7, <2>1
  <2>2. CASE i # 1
    <3>1. i - 1 \in DOMAIN emissions /\ emissions'[i] = emissions[i - 1]
      BY <1>7, <1>13, <2>2
    <3>. QED BY <3>1, EmissionTyped
  <2>. QED BY <2>1, <2>2
<1>. QED BY <1>1, <1>9, <1>10, <1>11, <1>12, <1>13 DEF BusInv

(* The deferred callback begins to emit what is queued.                    *)
LEMMA PumpKeeps == ASSUME BusInv, PumpEvents PROVE BusInv'
<1>1. BusTyped /\ PumpKept /\ UNCHANGED <<names, busses, watchesVars, eventq>> /\ emissions = <<>>
  BY DEF PumpEvents, BusInv
<1>2. CASE eventq = <<>>
  <2>1. UNCHANGED emissions
    BY <1>2 DEF PumpEvents
  <2>2. names' \in Seq(EventNames) /\ busses' \subseteq AnyBus /\ eventq' \in Seq(Queued)
    BY <1>1 DEF BusTyped
  <2>. QED BY <1>1, <1>2, <2>1, <2>2, BusSame
<1>3. CASE eventq # <<>>
  <2>0. PICK q : q = eventq[1]
    OBVIOUS
  <2>1. EmitEvent(q.bus, q.id, TRUE) /\ UNCHANGED eventd
    BY <1>3, <2>0 DEF PumpEvents
  <2>2. eventq \in Seq(Queued)
    BY <1>1 DEF BusTyped
  <2>3. Len(eventq) \in Nat /\ Len(eventq) # 0
    BY <1>3, <2>2, EmptySeq, LenProperties
  <2>4. q \in Queued
    <3>1. 1 \in 1 .. Len(eventq)
      BY <2>3
    <3>. HIDE DEF Queued
    <3>. QED BY <2>0, <2>2, <3>1, ElementOfSeq
  <2>5. q.bus \in AnyBus /\ q.id \in Nat
    BY <2>4 DEF Queued, AnyBus
  <2>. QED BY <1>1, <1>3, <2>1, <2>5, EmitKeeps
<1>. QED BY <1>2, <1>3

(* A turn of the walk calls who is owed a call, and goes on behind it.     *)
LEMMA EmitStepKeeps == ASSUME BusInv, EmitStep PROVE BusInv'
<1>0. PICK e, w : e = emissions[1] /\ w = e.nxt
  OBVIOUS
<1> DEFINE next == Behind(e.bus, w)
           ran == IF w \notin evDead /\ e.id \in evMask[w] THEN e.ran \cup {w} ELSE e.ran
           f == [e EXCEPT !.nxt = next, !.ran = ran]
<1>1. /\ BusTyped /\ WatchesListed /\ DeadWait /\ PumpKept
      /\ emissions # <<>> /\ w \in WatchesOn(e.bus)
      /\ emissions' = [emissions EXCEPT ![1].nxt = next,
                                        ![1].ran = IF w \notin evDead /\ e.id \in evMask[w] THEN @ \cup {w} ELSE @]
      /\ UNCHANGED <<names, busses, eventq, eventd>>
      /\ UNCHANGED <<evWatches, evMask, wanted, evDead>>
      /\ NoEv \notin EvWatch
  BY <1>0, EventBusAssumption DEF BusInv, EmitStep, watchesVars
<1>2. /\ emissions \in Seq(Emissions) /\ Len(emissions) \in Nat
      /\ DOMAIN emissions = 1 .. Len(emissions) /\ 1 \in DOMAIN emissions
      /\ emissions \in [1 .. Len(emissions) -> Emissions]
  <2>. HIDE DEF Emissions
  <2>1. emissions \in Seq(Emissions)
    BY <1>1 DEF BusTyped
  <2>2. Len(emissions) \in Nat /\ Len(emissions) # 0 /\ DOMAIN emissions = 1 .. Len(emissions)
    BY <1>1, <2>1, EmptySeq, LenProperties
  <2>3. 1 \in DOMAIN emissions
    BY <2>2
  <2>. QED BY <2>1, <2>2, <2>3, LenProperties
<1>3. /\ e \in Emissions /\ EmissionKept(e, evWatches, evDead, evMask) /\ e.bus \in AnyBus
      /\ e.due \subseteq EvWatch
  BY <1>0, <1>2, EmissionTyped
<1>4. /\ evWatches[e.bus] \in Seq(EvWatch) /\ IsInjective(evWatches[e.bus])
      /\ w \in Range(evWatches[e.bus]) /\ w \in EvWatch
  BY <1>1, <1>3, MembersOf DEF BusTyped, WatchesListed, WatchesOn
<1>5. /\ next \in Range(evWatches[e.bus]) \cup {NoEv} /\ next \in EvWatch \cup {NoEv}
      /\ \A x : Before(evWatches[e.bus], w, x) =>
           next # NoEv /\ (x = next \/ Before(evWatches[e.bus], next, x))
  BY <1>1, <1>4, FollowerFacts DEF Behind
<1>. HIDE DEF next
<1>6. /\ f \in Emissions /\ f.bus = e.bus /\ f.id = e.id /\ f.nxt = next /\ f.due = e.due
      /\ f.pumped = e.pumped /\ f.ran = ran
  BY <1>3, <1>4, <1>5 DEF Emissions
<1>7. emissions' = [emissions EXCEPT ![1] = f]
  BY <1>0, <1>1, <1>2
<1>. HIDE DEF f
<1>8. /\ emissions' \in Seq(Emissions) /\ DOMAIN emissions' = DOMAIN emissions
      /\ Len(emissions') = Len(emissions) /\ emissions'[1] = f
      /\ \A i \in DOMAIN emissions : i # 1 => emissions'[i] = emissions[i]
  <2>. HIDE DEF Emissions
  <2>1. emissions' \in [1 .. Len(emissions) -> Emissions]
    BY <1>2, <1>6, <1>7
  <2>2. emissions' \in Seq(Emissions)
    BY <1>2, <2>1
  <2>3. DOMAIN emissions' = 1 .. Len(emissions) /\ Len(emissions') = Len(emissions)
    BY <1>2, <2>1, <2>2, LenProperties
  <2>. QED BY <1>2, <1>7, <2>2, <2>3
<1>9. EmissionKept(f, evWatches, evDead, evMask)
  <2>1. ASSUME NEW v \in e.due
        PROVE  /\ v \in Range(evWatches[e.bus]) /\ v \notin evDead /\ e.id \in evMask[v]
               /\ v \in ran \/ (next # NoEv /\ (v = next \/ Before(evWatches[e.bus], next, v)))
    <3>1. /\ v \in Range(evWatches[e.bus]) /\ v \notin evDead /\ e.id \in evMask[v]
          /\ v \in e.ran \/ v = w \/ Before(evWatches[e.bus], w, v)
      BY <1>0, <1>3, <2>1 DEF EmissionKept
    <3>. QED BY <1>5, <3>1
  <2>. QED BY <1>5, <1>6, <2>1 DEF EmissionKept
<1>10. \A c : Busy(c)' <=> Busy(c)
  <2>1. \A i \in DOMAIN emissions : emissions'[i].bus = emissions[i].bus
    BY <1>0, <1>6, <1>8
  <2>. QED BY <1>8, <2>1 DEF Busy
<1>11. BusTyped'
  BY <1>1, <1>8 DEF BusTyped
<1>12. WatchesListed' /\ DeadWait'
  BY <1>1, <1>10 DEF WatchesListed, DeadWait, WatchesOn
<1>13. PumpKept'
  <2>1. \A i \in DOMAIN emissions : emissions'[i].pumped = emissions[i].pumped
    BY <1>0, <1>6, <1>8
  <2>. QED BY <1>1, <1>8, <2>1 DEF PumpKept
<1>14. \A i \in DOMAIN emissions' : EmissionKept(emissions'[i], evWatches, evDead, evMask)
  BY <1>8, <1>9, EmissionTyped
<1>. QED BY <1>1, <1>11, <1>12, <1>13, <1>14 DEF BusInv

(* The last emission of a bus frees what was marked on it.                 *)
LEMMA EmitEndKeeps == ASSUME BusInv, EmitEnd PROVE BusInv'
<1>0. PICK b : b = emissions[1].bus
  OBVIOUS
<1> DEFINE busy == \E i \in 2 .. Len(emissions) : emissions[i].bus = b
           purged == IF busy THEN {} ELSE evDead \cap WatchesOn(b)
           kept == Keep(evWatches[b], EvWatch \ purged)
<1>1. /\ BusTyped /\ WatchesListed /\ DeadWait /\ PumpKept
      /\ emissions # <<>>
      /\ evWatches' = [evWatches EXCEPT ![b] = Keep(@, EvWatch \ purged)]
      /\ evDead' = evDead \ purged
      /\ evMask' = [w \in EvWatch |-> IF w \in purged THEN {} ELSE evMask[w]]
      /\ wanted' = [w \in EvWatch |-> IF w \in purged THEN {} ELSE wanted[w]]
      /\ emissions' = Tail(emissions)
      /\ eventq' = IF emissions[1].pumped THEN Tail(eventq) ELSE eventq
      /\ UNCHANGED <<names, busses, eventd>>
  BY <1>0 DEF BusInv, EmitEnd
<1>2. /\ emissions \in Seq(Emissions) /\ Len(emissions) \in Nat
      /\ DOMAIN emissions = 1 .. Len(emissions) /\ 1 \in DOMAIN emissions
      /\ emissions' \in Seq(Emissions) /\ Len(emissions') = Len(emissions) - 1
      /\ DOMAIN emissions' = 1 .. Len(emissions) - 1
      /\ \A i \in DOMAIN emissions' : i + 1 \in DOMAIN emissions /\ i + 1 \in 2 .. Len(emissions)
                                      /\ emissions'[i] = emissions[i + 1]
  <2>. HIDE DEF Emissions
  <2>1. emissions \in Seq(Emissions)
    BY <1>1 DEF BusTyped
  <2>2. Len(emissions) \in Nat /\ Len(emissions) # 0 /\ DOMAIN emissions = 1 .. Len(emissions)
    BY <1>1, <2>1, EmptySeq, LenProperties
  <2>3. /\ emissions' \in Seq(Emissions) /\ Len(emissions') = Len(emissions) - 1
        /\ \A i \in 1 .. Len(emissions') : emissions'[i] = emissions[i + 1]
    BY <1>1, <2>1, HeadTailProperties
  <2>4. DOMAIN emissions' = 1 .. Len(emissions) - 1
    BY <2>3, LenProperties
  <2>. QED BY <2>1, <2>2, <2>3, <2>4
<1>3. b \in AnyBus
  BY <1>0, <1>2, EmissionTyped
<1>4. /\ evWatches[b] \in Seq(EvWatch) /\ IsInjective(evWatches[b])
      /\ Range(evWatches[b]) \subseteq EvWatch
  BY <1>1, <1>3, MembersOf DEF BusTyped, WatchesListed
<1>5. purged \subseteq evDead /\ purged \subseteq Range(evWatches[b]) /\ (busy => purged = {})
      /\ (~busy => purged = evDead \cap Range(evWatches[b]))
  BY DEF WatchesOn
<1>. HIDE DEF purged
<1>6. /\ kept \in Seq(EvWatch) /\ IsInjective(kept) /\ Range(kept) = Range(evWatches[b]) \ purged
      /\ \A x, y \in EvWatch \ purged : Before(evWatches[b], x, y) => Before(kept, x, y)
  <2>1. /\ kept \in Seq(EvWatch) /\ IsInjective(kept)
        /\ Range(kept) = Range(evWatches[b]) \cap (EvWatch \ purged)
    BY <1>4, KeepFacts
  <2>2. \A x \in EvWatch \ purged, y \in EvWatch \ purged : Before(evWatches[b], x, y) => Before(kept, x, y)
    BY <1>4, KeepBefore
  <2>. QED BY <1>4, <2>1, <2>2
<1>7. evWatches'[b] = kept /\ \A c \in AnyBus : c # b => evWatches'[c] = evWatches[c]
  BY <1>1, <1>3 DEF BusTyped
<1>. HIDE DEF kept
<1>8. \A c \in AnyBus : WatchesOn(c)' = WatchesOn(c) \ purged
  <2>1. \A c \in AnyBus : c # b => Range(evWatches[c]) \cap purged = {}
    BY <1>1, <1>3, <1>5 DEF WatchesListed, WatchesOn
  <2>. QED BY <1>6, <1>7, <2>1 DEF WatchesOn
<1>9. BusTyped'
  <2>1. evWatches' \in [AnyBus -> Seq(EvWatch)]
    BY <1>1, <1>3, <1>6, <1>7 DEF BusTyped
  <2>2. evMask' \in [EvWatch -> SUBSET Nat] /\ wanted' = evMask'
    BY <1>1 DEF BusTyped
  <2>3. eventq' \in Seq(Queued)
    <3>1. emissions[1].pumped => eventq # <<>>
      BY <1>1, <1>2 DEF PumpKept
    <3>2. eventq \in Seq(Queued)
      BY <1>1 DEF BusTyped
    <3>. HIDE DEF Queued
    <3>. QED BY <1>1, <3>1, <3>2, HeadTailProperties
  <2>. QED BY <1>1, <1>2, <2>1, <2>2, <2>3 DEF BusTyped
<1>10. WatchesListed'
  <2>1. \A c \in AnyBus : IsInjective(evWatches'[c])
    BY <1>1, <1>6, <1>7 DEF WatchesListed
  <2>2. \A c, d \in AnyBus : c # d => WatchesOn(c)' \cap WatchesOn(d)' = {}
    BY <1>1, <1>8 DEF WatchesListed
  <2>. QED BY <2>1, <2>2 DEF WatchesListed
<1>11. \A i \in 2 .. Len(emissions) : i - 1 \in DOMAIN emissions' /\ emissions'[i - 1] = emissions[i]
  <2>1. ASSUME NEW i \in 2 .. Len(emissions)
        PROVE  i - 1 \in DOMAIN emissions' /\ emissions'[i - 1] = emissions[i]
    <3>1. i - 1 \in DOMAIN emissions' /\ (i - 1) + 1 = i
      BY <1>2, <2>1
    <3>. QED BY <1>2, <3>1
  <2>. QED BY <2>1
<1>12. DeadWait'
  <2>1. ASSUME NEW w \in evDead, w \notin purged
        PROVE  \E c \in Bus : w \in WatchesOn(c)' /\ Busy(c)'
    <3>1. PICK c \in Bus : w \in WatchesOn(c) /\ Busy(c)
      BY <1>1 DEF DeadWait
    <3>2. w \in WatchesOn(c)'
      BY <1>8, <2>1, <3>1 DEF AnyBus
    <3>3. \E i \in 2 .. Len(emissions) : emissions[i].bus = c
      <4>1. CASE c = b
        <5>1. busy
          BY <1>5, <2>1, <3>1, <4>1 DEF WatchesOn
        <5>. QED BY <4>1, <5>1
      <4>2. CASE c # b
        <5>1. PICK i \in DOMAIN emissions : emissions[i].bus = c
          BY <3>1 DEF Busy
        <5>2. i # 1
          BY <1>0, <4>2, <5>1
        <5>3. i \in 2 .. Len(emissions)
          BY <1>2, <5>1, <5>2
        <5>. QED BY <5>1, <5>3
      <4>. QED BY <4>1, <4>2
    <3>4. Busy(c)'
      BY <1>11, <3>3 DEF Busy
    <3>. QED BY <3>2, <3>4
  <2>. QED BY <1>1, <2>1 DEF DeadWait
<1>13. PumpKept'
  <2>1. ASSUME NEW i \in DOMAIN emissions', emissions'[i].pumped
        PROVE  i = Len(emissions') /\ eventq' # <<>>
    <3>1. i + 1 = Len(emissions) /\ eventq # <<>> /\ i + 1 \in DOMAIN emissions
      BY <1>1, <1>2, <2>1 DEF PumpKept
    <3>2. ~emissions[1].pumped
      BY <1>1, <1>2, <3>1, <2>1 DEF PumpKept
    <3>. QED BY <1>1, <1>2, <2>1, <3>1, <3>2
  <2>2. eventq' # <<>> => eventd'
    <3>1. emissions[1].pumped => eventq # <<>>
      BY <1>1, <1>2 DEF PumpKept
    <3>. QED BY <1>1, <3>1 DEF PumpKept
  <2>. QED BY <2>1, <2>2 DEF PumpKept
<1>14. ASSUME NEW i \in DOMAIN emissions'
       PROVE  EmissionKept(emissions'[i], evWatches', evDead', evMask')
  <2>0. PICK e : e = emissions[i + 1]
    OBVIOUS
  <2>1. /\ EmissionKept(e, evWatches, evDead, evMask) /\ e.bus \in AnyBus /\ e.due \subseteq EvWatch
        /\ i + 1 \in 2 .. Len(emissions) /\ emissions'[i] = e
    BY <1>2, <1>14, <2>0, EmissionTyped
  <2>2. e.bus = b => busy
    BY <2>0, <2>1
  <2>3. \A w \in Range(evWatches[e.bus]) : w \in Range(evWatches'[e.bus]) /\ (e.bus = b => w \notin purged)
    BY <1>5, <1>6, <1>7, <2>1, <2>2
  <2>4. \A x, y : Before(evWatches[e.bus], x, y) => Before(evWatches'[e.bus], x, y)
    <3>1. CASE e.bus = b
      <4>1. \A x, y : Before(evWatches[b], x, y) => x \in EvWatch \ purged /\ y \in EvWatch \ purged
        BY <1>4, <1>5, <2>2, <3>1, BeforeOrder
      <4>. QED BY <1>6, <1>7, <3>1, <4>1
    <3>2. CASE e.bus # b
      BY <1>7, <2>1, <3>2
    <3>. QED BY <3>1, <3>2
  <2>5. \A w \in e.due : w \in Range(evWatches[e.bus]) /\ w \notin evDead
    BY <2>1 DEF EmissionKept
  <2>6. \A w \in e.due : w \notin evDead' /\ evMask'[w] = evMask[w]
    BY <1>1, <1>5, <2>1, <2>5
  <2>7. e.nxt \in Range(evWatches'[e.bus]) \cup {NoEv}
    BY <2>1, <2>3 DEF EmissionKept
  <2>8. EmissionKept(e, evWatches', evDead', evMask')
    BY <2>1, <2>3, <2>4, <2>6, <2>7 DEF EmissionKept
  <2>. QED BY <2>1, <2>8
<1>. QED BY <1>9, <1>10, <1>12, <1>13, <1>14 DEF BusInv

(* Every step of the buses keeps their invariant, when nobody deletes the  *)
(* watch that is up next on the NULL bus or asks for events with           *)
(* iot_event_add_watch_mask().                                             *)
LEMMA BusStep == ASSUME BusInv, ~DeleteNext, ~AddByMask, [EventBusNext]_busVars PROVE BusInv'
<1>1. ASSUME NEW b \in AnyBus, NEW id \in DOMAIN names, NEW w \in EvWatch, AddWatch(w, b, id) PROVE BusInv'
  <2>1. id \in Nat
    BY LenProperties DEF BusInv, BusTyped
  <2>. QED BY <1>1, <2>1, AddWatchKeeps DEF AddWatch, WatchAdded
<1>2. ASSUME NEW b \in AnyBus, NEW ids \in SUBSET (DOMAIN names), NEW w \in EvWatch, AddWatchMask(w, b, ids)
      PROVE  BusInv'
  BY <1>2, AddWatchKeeps DEF AddWatchMask, WatchAdded
<1>3. ASSUME NEW b \in AnyBus, NEW id \in DOMAIN names, EmitNow(b, id) PROVE BusInv'
  <2>1. id \in Nat
    BY LenProperties DEF BusInv, BusTyped
  <2>. QED BY <1>3, <2>1, EmitKeeps DEF EmitNow
<1>4. CASE UNCHANGED busVars
  <2>1. names' \in Seq(EventNames) /\ busses' \subseteq AnyBus /\ eventq' \in Seq(Queued)
    BY <1>4 DEF busVars, BusInv, BusTyped
  <2>. QED BY <1>4, <2>1, BusSame DEF busVars, BusInv, PumpKept
<1>5. ASSUME NEW w \in EvWatch, DelWatch(w) PROVE BusInv'
  BY <1>5, DelWatchKeeps
<1>. QED BY <1>1, <1>2, <1>3, <1>4, <1>5, NamesKeep, PumpKeeps, EmitStepKeeps, EmitEndKeeps DEF EventBusNext

(* What EventsDelivered says of a finished emission is what is left of     *)
(* its invariant when it has come to the end of the list.                  *)
LEMMA BusInvDelivers == ASSUME BusInv PROVE EventsDelivered
<1>1. ASSUME NEW i \in DOMAIN emissions
      PROVE  LET e == emissions[i]
             IN  /\ e.nxt # NoEv => e.nxt \in WatchesOn(e.bus)
                 /\ e.nxt = NoEv => e.due \subseteq e.ran
  BY EmissionTyped DEF EmissionKept, WatchesOn
<1>2. ASSUME NEW w \in evDead PROVE w \in InUse /\ Busy(BusOf(w))
  <2>1. PICK b \in Bus : w \in WatchesOn(b) /\ Busy(b)
    BY DEF BusInv, DeadWait
  <2>2. b \in AnyBus /\ BusOf(w) = b
    BY <2>1, OnOneBus DEF AnyBus, BusInv
  <2>. QED BY <2>1, <2>2 DEF InUse
<1>. QED BY <1>1, <1>2 DEF EventsDelivered, BusInv, PumpKept

(* An emission of emit_event() calls every watch of its bus that was there *)
(* all along and asked for the event, whatever the callbacks add, delete   *)
(* and emit, but delete the watch that is up next on the NULL bus.         *)
THEOREM BusSafety == EventBusSpec /\ ~DeleteNext /\ ~AddByMask => []EventsDelivered
<1>1. EventBusInit => BusInv
  BY BusInitKept
<1>2. ASSUME ~DeleteNext, ~AddByMask PROVE BusInv /\ [EventBusNext]_busVars => BusInv'
  BY <1>2, BusStep
<1>3. BusInv => EventsDelivered
  BY BusInvDelivers
<1>4. CASE ~DeleteNext /\ ~AddByMask
  <2>1. BusInv /\ [EventBusNext]_busVars => BusInv'
    BY <1>2, <1>4
  <2>. QED BY <1>1, <1>3, <2>1, PTL DEF EventBusSpec
<1>5. CASE ~(~DeleteNext /\ ~AddByMask)
  BY <1>5
<1>. QED BY <1>4, <1>5
-----------------------------------------------------------------------------
(* The inductive invariants of the superloop: what every glue keeps, and   *)
(* what it keeps for a program that spares it its weak points.             *)

HostTyped ==
  /\ glue \in Glue /\ attached \in {"no", "yes", "quit"}
  /\ hostTimer \in [left : Time, every : Time]
  /\ hostWork \in [fires : BOOLEAN, off : BOOLEAN, left : BOOLEAN]
  /\ dueIn \in Time /\ deferredOn \in BOOLEAN /\ queued \in BOOLEAN
  /\ glue # "qt" => ~hostWork.left

(* What Qt holds for enabled fires.                                        *)
HostHeld ==
  /\ attached = "yes" =>
       /\ hostIo
       /\ glue = "qt" /\ ~hostWork.off => hostWork.fires
       /\ \/ WorkFires
          \/ /\ hostTimer.left <= dueIn
             /\ deferredOn => hostTimer.left = 0
  /\ attached # "yes" => ~hostIo /\ hostTimer = NoTimer /\ hostWork = NoWork
  /\ queued => deferredOn

GlueHeld ==
  /\ attached # "no" => glueFreed = 0
  /\ glueFreed \in {0, 1}

(* The program enables its deferred callbacks and emits its events from    *)
(* callbacks of the mainloop, and the host does not refuse it anything.    *)
EnablesInside == "enable outside" \notin Risks
HostGrants == "host fails" \notin Risks
(* The times.                                                              *)
LEMMA TimeFacts ==
  /\ MaxDelay \in Nat /\ Time \subseteq Nat /\ 0 \in Time /\ Never \in Time /\ Delay \subseteq Time
  /\ \A t \in Time : 0 <= t /\ t <= Never
<1>1. MaxDelay \in Nat BY SuperloopAssumption
<1>2. Time = 0 .. (MaxDelay + 1) BY <1>1 DEF Time, Delay, Never
<1>. QED BY <1>1, <1>2 DEF Delay, Never

(* What a host makes of a timeout, and of enabling its work.               *)
LEMMA HostTimerFacts ==
  ASSUME glue \in Glue, NEW t \in Time
  PROVE  /\ HostTimer(t) \in [left : Time, every : Time]
         /\ HostTimer(t).left <= t /\ HostTimer(t).left \in Nat
         /\ glue # "qt" => HostTimer(t).left = t
<1>1. MaxDelay \in Nat /\ 0 \in Time /\ Never \in Time /\ t \in Nat /\ t <= Never
  BY TimeFacts
<1>. QED BY <1>1 DEF Glue, HostTimer, UvTimer, GlibTimer, PulseTimer, EcoreTimer, QtTimer

(* Enabling and disabling the deferred work of a host.  For Qt, what is    *)
(* held for enabled has to fire already.                                   *)
LEMMA HostDeferFacts ==
  ASSUME HostTyped
  PROVE  /\ \A on \in BOOLEAN :
              /\ HostDefer(hostWork, on) \in [fires : BOOLEAN, off : BOOLEAN, left : BOOLEAN]
              /\ glue # "qt" => ~HostDefer(hostWork, on).left
              /\ glue # "qt" => HostDefer(hostWork, on).fires = on
         /\ (glue = "qt" /\ ~hostWork.off => hostWork.fires) =>
              /\ HostDefer(hostWork, TRUE).fires
              /\ \A on \in BOOLEAN :
                   glue = "qt" /\ ~HostDefer(hostWork, on).off => HostDefer(hostWork, on).fires
<1>1. /\ hostWork \in [fires : BOOLEAN, off : BOOLEAN, left : BOOLEAN]
      /\ glue # "qt" => ~hostWork.left
  BY DEF HostTyped
<1>2. CASE glue # "qt"
  <2>1. ASSUME NEW on \in BOOLEAN PROVE HostDefer(hostWork, on) = [hostWork EXCEPT !.fires = on]
    BY <1>2 DEF HostTyped, Glue, HostDefer, UvDefer, GlibDefer, PulseDefer, EcoreDefer
  <2>2. ASSUME NEW on \in BOOLEAN
        PROVE  /\ HostDefer(hostWork, on) \in [fires : BOOLEAN, off : BOOLEAN, left : BOOLEAN]
               /\ ~HostDefer(hostWork, on).left
               /\ HostDefer(hostWork, on).fires = on
    BY <1>1, <1>2, <2>1
  <2>. QED BY <1>2, <2>2
<1>3. CASE glue = "qt"
  <2>1. ASSUME NEW on \in BOOLEAN PROVE HostDefer(hostWork, on) = QtDefer(hostWork, on)
    BY <1>3 DEF HostDefer
  <2>2. ASSUME NEW on \in BOOLEAN
        PROVE  QtDefer(hostWork, on) \in [fires : BOOLEAN, off : BOOLEAN, left : BOOLEAN]
    BY <1>1 DEF QtDefer
  <2>3. ASSUME ~hostWork.off => hostWork.fires
        PROVE  /\ QtDefer(hostWork, TRUE).fires
               /\ \A on \in BOOLEAN :
                    ~QtDefer(hostWork, on).off => QtDefer(hostWork, on).fires
    BY <1>1, <2>3 DEF QtDefer
  <2>. QED BY <1>3, <2>1, <2>2, <2>3
<1>. QED BY <1>2, <1>3

(* At first the mainloop has nothing in its host.                          *)
LEMMA SuperloopInitKept == ASSUME SuperloopInit PROVE HostTyped /\ HostHeld /\ GlueHeld
BY TimeFacts DEF SuperloopInit, HostTyped, HostHeld, GlueHeld, NoTimer, NoWork

(* Each operation of the program and each step of the host keeps the types. *)
LEMMA HostTypedStep == ASSUME HostTyped, [SuperloopNext]_superVars PROVE HostTyped'
<1>1. NoTimer \in [left : Time, every : Time] /\ NoWork \in [fires : BOOLEAN, off : BOOLEAN, left : BOOLEAN] /\ ~NoWork.left
  BY TimeFacts DEF NoTimer, NoWork
<1>2. \A t \in Time : HostTimer(t) \in [left : Time, every : Time]
  BY HostTimerFacts DEF HostTyped
<1>3. Timeout \in Time /\ (dueIn' \in Time => Timeout' \in Time)
  BY TimeFacts DEF Timeout, HostTyped
<1>4. ASSUME glue' = glue, dueIn' \in Time, AdjustSuperloopTimer PROVE hostTimer' \in [left : Time, every : Time]
  BY <1>2, <1>3, <1>4 DEF AdjustSuperloopTimer, HostTyped
<1>5. \A on \in BOOLEAN : /\ HostDefer(hostWork, on) \in [fires : BOOLEAN, off : BOOLEAN, left : BOOLEAN]
                          /\ glue # "qt" => ~HostDefer(hostWork, on).left
  BY HostDeferFacts
<1>6. CASE SetSuperloop
  <2>1. hostWork' \in [fires : BOOLEAN, off : BOOLEAN, left : BOOLEAN] /\ ~hostWork'.left
    <3>1. PICK unset \in BOOLEAN : hostWork' = [fires |-> TRUE, off |-> unset, left |-> FALSE]
      BY <1>6, Zenon DEF SetSuperloop
    <3>. QED BY <3>1
  <2>2. hostTimer' \in [left : Time, every : Time]
    BY <1>6, <1>2, <1>3 DEF SetSuperloop
  <2>. QED BY <1>6, <2>1, <2>2 DEF SetSuperloop, HostTyped, pumpedVars
<1>7. CASE SetSuperloopFails
  BY <1>7 DEF SetSuperloopFails, HostTyped, pumpedVars, hostVars
<1>8. CASE ClearSuperloop
  BY <1>8, <1>1 DEF ClearSuperloop, HostTyped, pumpedVars
<1>9. ASSUME NEW delay \in Delay, InsertTimerFrom(delay) PROVE HostTyped'
  <2>1. dueIn' \in Time BY <1>9, TimeFacts DEF InsertTimerFrom, HostTyped
  <2>2. hostTimer' \in [left : Time, every : Time]
    BY <1>9, <1>4, <2>1 DEF InsertTimerFrom, HostTyped
  <2>. QED BY <1>9, <2>1, <2>2 DEF InsertTimerFrom, HostTyped
<1>10. CASE DelNextTimer
  BY <1>10, <1>4 DEF DelNextTimer, HostTyped
<1>11. CASE ModNextTimer
  BY <1>11, <1>4, TimeFacts DEF ModNextTimer, HostTyped
<1>12. CASE AddDeferred
  BY <1>12, <1>4 DEF AddDeferred, HostTyped
<1>13. CASE EnableDeferred
  BY <1>13 DEF EnableDeferred, HostTyped, hostVars
<1>14. CASE Tick
  <2>1. \A t \in Time : (IF t \in {0, Never} THEN t ELSE t - 1) \in Time
    BY TimeFacts DEF Time, Delay, Never
  <2>. QED BY <1>14, <2>1 DEF Tick, HostTyped
<1>15. CASE IoArrives
  BY <1>15 DEF IoArrives, HostTyped, hostVars
<1>16. CASE SuperIo
  BY <1>16, <1>5 DEF SuperIo, HostTyped, pumpedVars
<1>17. CASE SuperTimer
  BY <1>17, <1>5 DEF SuperTimer, HostTyped, pumpedVars
<1>18. CASE SuperWork
  BY <1>18, <1>2, <1>3, <1>5 DEF SuperWork, HostTyped
<1>19. CASE SuperWorkQuits
  BY <1>19, <1>1 DEF SuperWorkQuits, HostTyped
<1>20. CASE UNCHANGED superVars
  BY <1>20 DEF superVars, HostTyped, hostVars, pumpedVars
<1>. QED
  BY <1>6, <1>7, <1>8, <1>9, <1>10, <1>11, <1>12, <1>13, <1>14, <1>15, <1>16, <1>17, <1>18, <1>19, <1>20 DEF SuperloopNext

(* A timer that has been set again is in time.                             *)
LEMMA AdjustedInTime ==
  ASSUME HostTyped, HostTyped', glue' = glue, attached = "yes", AdjustSuperloopTimer
  PROVE  hostTimer'.left <= dueIn' /\ (deferredOn' => hostTimer'.left = 0)
<1>1. Timeout' \in Time /\ Timeout' <= dueIn' /\ (deferredOn' => Timeout' = 0)
  BY TimeFacts DEF Timeout, HostTyped
<1>2. PICK t \in Time : t = Timeout' BY <1>1
<1>3. hostTimer'.left <= t /\ hostTimer'.left \in Nat
  BY <1>2, HostTimerFacts DEF AdjustSuperloopTimer, HostTyped
<1>. QED BY <1>1, <1>2, <1>3, TimeFacts DEF HostTyped

(* The host owes a pump: each call that adds work tells the host of it,    *)
(* and each callback of the host enables the work or sets the timer.       *)
LEMMA HostHeldStep ==
  ASSUME HostTyped, HostTyped', HostHeld, EnablesInside, [SuperloopNext]_superVars
  PROVE  HostHeld'
<1>1. \A on \in BOOLEAN : glue # "qt" => HostDefer(hostWork, on).fires = on
  BY HostDeferFacts
<1>2. attached = "yes" =>
        /\ HostDefer(hostWork, TRUE).fires
        /\ \A on \in BOOLEAN : glue = "qt" /\ ~HostDefer(hostWork, on).off => HostDefer(hostWork, on).fires
  BY HostDeferFacts, <1>1 DEF HostHeld
<1>3. CASE SetSuperloop
  <2>1. PICK unset \in BOOLEAN : hostWork' = [fires |-> TRUE, off |-> unset, left |-> FALSE]
    BY <1>3, Zenon DEF SetSuperloop
  <2>2. attached' = "yes" /\ hostIo' /\ UNCHANGED <<deferredOn, queued>>
    BY <1>3 DEF SetSuperloop, pumpedVars
  <2>. QED BY <2>1, <2>2 DEF HostHeld, WorkFires
<1>4. CASE SetSuperloopFails
  BY <1>4 DEF SetSuperloopFails, HostHeld, pumpedVars, hostVars, WorkFires
<1>5. CASE ClearSuperloop
  BY <1>5 DEF ClearSuperloop, HostHeld, pumpedVars, NoTimer, NoWork
<1>6. ASSUME NEW delay \in Delay, InsertTimerFrom(delay) PROVE HostHeld'
  <2>1. UNCHANGED <<glue, attached, hostIo, hostWork, queued, deferredOn>>
    BY <1>6 DEF InsertTimerFrom
  <2>2. CASE delay <= dueIn
    <3>1. AdjustSuperloopTimer BY <1>6, <2>2 DEF InsertTimerFrom
    <3>2. CASE attached = "yes"
      BY <3>1, <3>2, <2>1, AdjustedInTime DEF HostHeld, WorkFires
    <3>3. CASE attached # "yes"
      BY <3>1, <3>3, <2>1 DEF HostHeld, AdjustSuperloopTimer, NoTimer, NoWork
    <3>. QED BY <3>2, <3>3
  <2>3. CASE ~(delay <= dueIn)
    <3>1. UNCHANGED <<dueIn, hostTimer>> BY <1>6, <2>3 DEF InsertTimerFrom
    <3>. QED BY <3>1, <2>1 DEF HostHeld, WorkFires, NoTimer, NoWork
  <2>. QED BY <2>2, <2>3
<1>7. ASSUME DelNextTimer \/ ModNextTimer \/ AddDeferred PROVE HostHeld'
  <2>1. UNCHANGED <<glue, attached, hostIo, hostWork>> /\ (queued' => deferredOn')
    <3>1. CASE DelNextTimer BY <3>1 DEF DelNextTimer, HostHeld
    <3>2. CASE ModNextTimer BY <3>2 DEF ModNextTimer, HostHeld
    <3>3. CASE AddDeferred BY <3>3 DEF AddDeferred, HostHeld
    <3>. QED BY <1>7, <3>1, <3>2, <3>3
  <2>2. CASE AdjustSuperloopTimer
    <3>2. CASE attached = "yes"
      BY <2>2, <3>2, <2>1, AdjustedInTime DEF HostHeld, WorkFires
    <3>3. CASE attached # "yes"
      BY <2>2, <3>3, <2>1 DEF HostHeld, AdjustSuperloopTimer, NoTimer, NoWork
    <3>. QED BY <3>2, <3>3
  <2>3. CASE ~AdjustSuperloopTimer
    <3>1. UNCHANGED <<hostTimer, deferredOn>> /\ dueIn' >= dueIn
      BY <1>7, <2>3 DEF DelNextTimer, ModNextTimer, AddDeferred
    <3>2. dueIn \in Nat /\ dueIn' \in Nat /\ hostTimer.left \in Nat
      BY TimeFacts DEF HostTyped
    <3>3. PICK left \in Nat : left = hostTimer.left BY <3>2
    <3>4. PICK from \in Nat, to \in Nat : from = dueIn /\ to = dueIn' BY <3>2
    <3>5. left <= from => left <= to BY <3>1, <3>3, <3>4
    <3>6. hostTimer.left <= dueIn => hostTimer'.left <= dueIn' BY <3>1, <3>3, <3>4, <3>5
    <3>. QED BY <3>1, <3>6, <2>1 DEF HostHeld, WorkFires, NoTimer, NoWork
  <2>. QED BY <2>2, <2>3
<1>8. CASE EnableDeferred
  BY <1>8, TimeFacts DEF EnablesInside, EnableDeferred, HostHeld, HostTyped, hostVars, WorkFires
<1>9. CASE Tick
  <2>1. UNCHANGED <<glue, attached, hostIo, hostWork, deferredOn, queued>> BY <1>9 DEF Tick
  <2>2. CASE attached = "yes"
    <3>1. hostTimer.left # 0 BY <1>9 DEF Tick
    <3>2. hostTimer.left \in Time /\ dueIn \in Time BY DEF HostTyped
    <3>3. /\ hostTimer'.left = IF hostTimer.left \in {0, Never} THEN hostTimer.left ELSE hostTimer.left - 1
          /\ dueIn' = IF dueIn \in {0, Never} THEN dueIn ELSE dueIn - 1
      BY <1>9 DEF Tick, HostTyped
    <3>4. hostTimer.left <= dueIn => hostTimer'.left <= dueIn'
      <4>1. PICK left \in Time, from \in Time : left = hostTimer.left /\ from = dueIn BY <3>2
      <4>2. PICK left2 : left2 = hostTimer'.left OBVIOUS
      <4>3. left \in Nat /\ from \in Nat /\ Never \in Nat /\ left <= Never /\ from <= Never /\ left # 0
        BY <4>1, <3>1, TimeFacts
      <4>4. left2 = IF left = Never THEN left ELSE left - 1 BY <4>1, <4>2, <4>3, <3>3
      <4>5. dueIn' = IF from \in {0, Never} THEN from ELSE from - 1 BY <4>1, <3>3
      <4>6. PICK due2 : due2 = dueIn' OBVIOUS
      <4>7. left <= from => left2 <= due2
        <5>1. CASE left = Never BY <5>1, <4>3, <4>4, <4>5, <4>6
        <5>2. CASE left # Never /\ from = Never BY <5>2, <4>3, <4>4, <4>5, <4>6
        <5>3. CASE left # Never /\ from # Never BY <5>3, <4>3, <4>4, <4>5, <4>6
        <5>. QED BY <5>1, <5>2, <5>3
      <4>. QED BY <4>1, <4>2, <4>6, <4>7
    <3>. QED BY <2>1, <2>2, <3>1, <3>4 DEF HostHeld, WorkFires
  <2>3. CASE attached # "yes"
    <3>1. hostTimer' = NoTimer
      <4>1. hostTimer = [left |-> Never, every |-> Never] BY <2>3 DEF HostHeld, NoTimer
      <4>2. hostTimer' = [hostTimer EXCEPT !.left = hostTimer.left]
        BY <1>9, <4>1 DEF Tick
      <4>. QED BY <4>1, <4>2 DEF NoTimer
    <3>. QED BY <2>1, <2>3, <3>1 DEF HostHeld, NoTimer, NoWork
  <2>. QED BY <2>2, <2>3
<1>10. CASE IoArrives
  BY <1>10 DEF IoArrives, HostHeld, hostVars, WorkFires, NoTimer, NoWork
<1>11. CASE SuperIo
  <2>1. attached = "yes" BY <1>11 DEF SuperIo, HostHeld
  <2>. QED BY <1>11, <1>2, <2>1 DEF SuperIo, HostHeld, pumpedVars, WorkFires
<1>12. CASE SuperTimer
  BY <1>12, <1>2 DEF SuperTimer, HostHeld, pumpedVars, WorkFires
<1>13. CASE SuperWork
  <2>1. AdjustSuperloopTimer /\ UNCHANGED <<glue, attached, hostIo>> /\ attached = "yes"
    BY <1>13 DEF SuperWork, AdjustSuperloopTimer
  <2>2. (queued' => deferredOn') /\ hostWork' = HostDefer(hostWork, FALSE)
    BY <1>13 DEF SuperWork
  <2>. QED BY <2>1, <2>2, <1>2, AdjustedInTime DEF HostHeld, WorkFires
<1>14. CASE SuperWorkQuits
  BY <1>14 DEF SuperWorkQuits, HostHeld, NoTimer, NoWork
<1>15. CASE UNCHANGED superVars
  BY <1>15 DEF superVars, HostHeld, hostVars, pumpedVars, WorkFires, NoTimer, NoWork
<1>. QED
  BY <1>3, <1>4, <1>5, <1>6, <1>7, <1>8, <1>9, <1>10, <1>11, <1>12, <1>13, <1>14, <1>15 DEF SuperloopNext

(* The glue is freed by the unregister() that ends an attachment.          *)
LEMMA GlueHeldStep ==
  ASSUME HostTyped, GlueHeld, HostGrants, [SuperloopNext]_superVars
  PROVE  GlueHeld'
<1>1. CASE SetSuperloopFails \/ SetSuperloop \/ ClearSuperloop
  <2>1. CASE SetSuperloopFails BY <2>1 DEF HostGrants, SetSuperloopFails, GlueHeld, HostTyped
  <2>2. CASE SetSuperloop BY <2>2 DEF SetSuperloop, GlueHeld
  <2>3. CASE ClearSuperloop
    <3>1. glueFreed = 0 /\ glueFreed' \in {glueFreed, glueFreed + 1} /\ attached' = "no"
      BY <2>3 DEF ClearSuperloop, Unregister, GlueHeld
    <3>2. glueFreed' \in {0, 1} BY <3>1
    <3>. QED BY <3>1, <3>2, Zenon DEF GlueHeld
  <2>. QED BY <1>1, <2>1, <2>2, <2>3
<1>2. CASE SuperWorkQuits
  BY <1>2 DEF SuperWorkQuits, GlueHeld
<1>3. CASE ~(SetSuperloopFails \/ SetSuperloop \/ ClearSuperloop \/ SuperWorkQuits)
  <2>1. UNCHANGED <<attached, glueFreed>>
    BY <1>3 DEF SuperloopNext, InsertTimerFrom, DelNextTimer, ModNextTimer, AddDeferred, EnableDeferred,
                Tick, IoArrives, SuperIo, SuperTimer, SuperWork, superVars
  <2>. QED BY <2>1 DEF GlueHeld
<1>. QED BY <1>1, <1>2, <1>3

(* THEOREM HostSafety: a program that enables its deferred callbacks and   *)
(* emits its events from callbacks of the mainloop, in a host that does    *)
(* not refuse the mainloop's watch, timer or work, is pumped in time by    *)
(* every one of the five glues, and leaves nothing behind in its host.     *)
THEOREM HostSafety ==
  SuperloopSpec /\ "enable outside" \notin Risks /\ "host fails" \notin Risks => []HostPumps
<1>. SUFFICES ASSUME EnablesInside, HostGrants
              PROVE  SuperloopSpec => []HostPumps
  BY DEF EnablesInside, HostGrants
<1>. DEFINE Held == HostTyped /\ HostHeld /\ GlueHeld
<1>1. SuperloopInit => Held BY SuperloopInitKept
<1>2. Held /\ [SuperloopNext]_superVars => Held'
  BY HostTypedStep, HostHeldStep, GlueHeldStep
<1>3. Held => HostPumps
  <2>. SUFFICES ASSUME Held PROVE HostPumps OBVIOUS
  <2>1. glueFreed <= 1 BY DEF GlueHeld
  <2>2. deferredOn \/ queued => deferredOn BY DEF HostHeld
  <2>. QED BY <2>1, <2>2 DEF HostHeld, HostPumps
<1>. HIDE DEF Held
<1>. QED BY <1>1, <1>2, <1>3, PTL DEF SuperloopSpec

(* THEOREM HostRests: under every glue but Qt's, whatever the program does *)
(* and the host refuses, a pump that leaves no deferred callback lets the  *)
(* host sleep until the mainloop's next timer.                             *)
THEOREM HostRests == SuperloopSpec => HostSleeps
<1>1. SuperloopInit => HostTyped BY SuperloopInitKept
<1>2. HostTyped /\ [SuperloopNext]_superVars => HostTyped' BY HostTypedStep
<1>3. HostTyped /\ [SuperloopNext]_superVars
      => [glue # "qt" /\ SuperWork /\ ~deferredOn' => hostTimer'.left = dueIn' /\ ~WorkFires']_superVars
  <2>. SUFFICES ASSUME HostTyped, glue # "qt", SuperWork, ~deferredOn'
                PROVE  hostTimer'.left = dueIn' /\ ~WorkFires'
    OBVIOUS
  <2>1. dueIn' \in Time /\ Timeout' = dueIn' /\ hostTimer' = HostTimer(Timeout')
    BY DEF SuperWork, Timeout
  <2>2. hostTimer'.left = dueIn'
    BY <2>1, HostTimerFacts DEF HostTyped
  <2>3. ~hostWork'.fires /\ ~hostWork'.left
    BY HostDeferFacts DEF SuperWork
  <2>. QED BY <2>2, <2>3 DEF WorkFires
<1>. QED BY <1>1, <1>2, <1>3, PTL DEF SuperloopSpec, HostSleeps
=============================================================================
