------------------------------ MODULE EventBus ------------------------------
(***************************************************************************)
(* The event buses of mainloop.c.  An event is emitted on a bus, at once   *)
(* or through the queue a deferred callback pumps, and every watch of the  *)
(* bus whose mask has the event is called.  Callbacks add and delete       *)
(* watches and emit further events, on the same bus, too.                  *)
(*                                                                         *)
(* An emission is a walk with iot_list_foreach(), which keeps the element  *)
(* behind the visited one in n.  Emissions nest, so they are a stack.      *)
(***************************************************************************)
EXTENDS Naturals, Lists

CONSTANTS
  EvWatch, Bus,     \* watches that can be allocated, and the named buses
  NullBus,          \* IOT_GLOBAL_BUS
  NoEv,
  EventNames,
  MaxDepth, MaxQueue,  \* bound nested emissions and queued events
  DeleteNext,       \* delete, on the NULL bus, the watch that is up next
  AddByMask         \* ask for events with iot_event_add_watch_mask()

ASSUME EventBusAssumption ==
  /\ NoEv \notin EvWatch /\ NullBus \notin Bus
  /\ {MaxDepth, MaxQueue} \subseteq Nat
  /\ {DeleteNext, AddByMask} \subseteq BOOLEAN

AnyBus == Bus \cup {NullBus}

VARIABLES
  names,      \* the registered events: an id is a place here
  busses,     \* ml->busses
  evWatches,  \* bus->watches, and ewatches for the NULL bus
  evMask, wanted,  \* w->mask, and what the program asked for
  evDead,     \* w->dead
  emissions,  \* the emissions under way, the innermost first; busy counts them
  eventq,     \* ml->eventq
  eventd      \* ml->eventd is enabled

watchesVars == <<evWatches, evMask, wanted, evDead>>
busVars == <<names, busses, watchesVars, emissions, eventq, eventd>>

WatchesOn(b) == Range(evWatches[b])

BusOf(w) == CHOOSE b \in AnyBus : w \in WatchesOn(b)

InUse == UNION {WatchesOn(b) : b \in AnyBus}

Busy(b) == \E i \in DOMAIN emissions : emissions[i].bus = b

EventBusInit ==
  /\ names = <<>> /\ busses = {NullBus}
  /\ evWatches = [b \in AnyBus |-> <<>>]
  /\ evMask = [w \in EvWatch |-> {}] /\ wanted = [w \in EvWatch |-> {}]
  /\ evDead = {}
  /\ emissions = <<>> /\ eventq = <<>> /\ eventd = FALSE

\* iot_event_id(): the event of that name, registered if it is new.
EventId(name) ==
  /\ name \notin Range(names)
  /\ names' = Append(names, name)
  /\ UNCHANGED <<busses, watchesVars, emissions, eventq, eventd>>

\* iot_event_bus_get()
BusGet(b) ==
  /\ b \notin busses
  /\ busses' = busses \cup {b}
  /\ UNCHANGED <<names, watchesVars, emissions, eventq, eventd>>

\* iot_event_add_watch()
AddWatch(w, b, id) ==
  /\ w \notin InUse /\ b \in busses /\ id \in DOMAIN names
  /\ evWatches' = [evWatches EXCEPT ![b] = Append(@, w)]
  /\ evMask' = [evMask EXCEPT ![w] = {id}]
  /\ wanted' = [wanted EXCEPT ![w] = {id}]
  /\ UNCHANGED <<names, busses, evDead, emissions, eventq, eventd>>

\* iot_event_add_watch_mask(): iot_mask_copy() copies the empty mask of the
\* new watch into the mask of the caller.
AddWatchMask(w, b, ids) ==
  /\ AddByMask \/ ids = {}
  /\ w \notin InUse /\ b \in busses /\ ids \subseteq DOMAIN names
  /\ evWatches' = [evWatches EXCEPT ![b] = Append(@, w)]
  /\ evMask' = [evMask EXCEPT ![w] = {}]
  /\ wanted' = [wanted EXCEPT ![w] = ids]
  /\ UNCHANGED <<names, busses, evDead, emissions, eventq, eventd>>

\* The emissions under way no longer owe w anything.
Forget(w) == [i \in DOMAIN emissions |-> [emissions[i] EXCEPT !.due = @ \ {w}]]

FreeWatch(w, b) ==
  /\ evWatches' = [evWatches EXCEPT ![b] = RemoveFirst(@, w)]
  /\ evMask' = [evMask EXCEPT ![w] = {}]
  /\ wanted' = [wanted EXCEPT ![w] = {}]
  /\ UNCHANGED evDead

\* iot_event_del_watch(): on a busy bus the watch is marked, and on the NULL
\* bus, which is never busy, it is freed in the middle of an emission.
M_DelWatch(w) ==
  /\ w \in InUse \ evDead
  /\ FreeWatch(w, BusOf(w))
  /\ emissions' = Forget(w)
  /\ UNCHANGED <<names, busses, eventq, eventd>>
DelWatch(w) ==
  LET b == BusOf(w)
  IN  /\ w \in InUse \ evDead
      /\ IF b # NullBus /\ Busy(b) THEN
           /\ evDead' = evDead \cup {w}
           /\ UNCHANGED <<evWatches, evMask, wanted>>
         ELSE
           /\ DeleteNext \/ \A i \in DOMAIN emissions : emissions[i].nxt # w
           /\ FreeWatch(w, b)
      /\ emissions' = Forget(w)
      /\ UNCHANGED <<names, busses, eventq, eventd>>

----------------------------------------------------------------------------
\* Emission.

\* emit_event() begins: it owes a call to the watches there now.
EmitEvent(b, id, pumped) ==
  emissions' = <<[bus |-> b, id |-> id, pumped |-> pumped, ran |-> {},
                  nxt |-> FirstOf(evWatches[b], NoEv),
                  due |-> {w \in WatchesOn(b) \ evDead : id \in wanted[w]}]>> \o emissions

\* iot_emit_event(), synchronous
EmitNow(b, id) ==
  /\ Len(emissions) < MaxDepth /\ b \in busses /\ id \in DOMAIN names
  /\ EmitEvent(b, id, FALSE)
  /\ UNCHANGED <<names, busses, watchesVars, eventq, eventd>>

\* iot_emit_event() and queue_event(), asynchronous: not for the NULL bus
QueueEvent(b, id) ==
  /\ Len(eventq) < MaxQueue /\ b \in busses \ {NullBus} /\ id \in DOMAIN names
  /\ eventq' = Append(eventq, [bus |-> b, id |-> id])
  /\ eventd' = TRUE
  /\ UNCHANGED <<names, busses, watchesVars, emissions>>

\* pump_events(): the queue is emitted until it is empty, with what is queued
\* meanwhile; then the deferred callback is off until the next event.
PumpEvents ==
  /\ eventd /\ emissions = <<>>
  /\ IF eventq = <<>>
     THEN eventd' = FALSE /\ UNCHANGED emissions
     ELSE EmitEvent(eventq[1].bus, eventq[1].id, TRUE) /\ UNCHANGED eventd
  /\ UNCHANGED <<names, busses, watchesVars, eventq>>

Behind(b, w) == FollowerOf(evWatches[b], w, NoEv)

\* One turn of the walk of emit_event(): a dead watch is passed over.
EmitStep ==
  /\ emissions # <<>>
  /\ LET e == emissions[1]
         w == e.nxt
     IN  /\ w \in WatchesOn(e.bus)
         /\ emissions' = [emissions EXCEPT
              ![1].nxt = Behind(e.bus, w),
              ![1].ran = IF w \notin evDead /\ e.id \in evMask[w] THEN @ \cup {w} ELSE @]
  /\ UNCHANGED <<names, busses, watchesVars, eventq, eventd>>

\* The end of emit_event(), and bus_purge_dead() when no other emission is
\* busy with the bus.  A pumped event leaves the queue.
EmitEnd ==
  /\ emissions # <<>> /\ emissions[1].nxt = NoEv
  /\ LET b == emissions[1].bus
         busy == \E i \in 2 .. Len(emissions) : emissions[i].bus = b
         purged == IF busy THEN {} ELSE evDead \cap WatchesOn(b)
     IN  /\ evWatches' = [evWatches EXCEPT ![b] = Keep(@, EvWatch \ purged)]
         /\ evDead' = evDead \ purged
         /\ evMask' = [w \in EvWatch |-> IF w \in purged THEN {} ELSE evMask[w]]
         /\ wanted' = [w \in EvWatch |-> IF w \in purged THEN {} ELSE wanted[w]]
  /\ emissions' = Tail(emissions)
  /\ eventq' = IF emissions[1].pumped THEN Tail(eventq) ELSE eventq
  /\ UNCHANGED <<names, busses, eventd>>

EventBusNext ==
  \/ \E name \in EventNames : EventId(name)
  \/ \E b \in AnyBus :
       \/ BusGet(b)
       \/ \E id \in DOMAIN names :
            EmitNow(b, id) \/ QueueEvent(b, id) \/ \E w \in EvWatch : AddWatch(w, b, id)
       \/ \E ids \in SUBSET (DOMAIN names), w \in EvWatch : AddWatchMask(w, b, ids)
  \/ \E w \in EvWatch : DelWatch(w)
  \/ PumpEvents \/ EmitStep \/ EmitEnd

EventBusSpec == EventBusInit /\ [][EventBusNext]_busVars

----------------------------------------------------------------------------
\* Whatever the callbacks add, delete and emit: an emission goes on with a
\* watch that still exists, and when it ends it has called every watch that
\* was there all along and asked for the event; a deleted watch is freed when
\* nobody walks its bus any more, and what is queued will be pumped.
EventsDelivered ==
  /\ \A i \in DOMAIN emissions :
       LET e == emissions[i]
       IN  /\ e.nxt # NoEv => e.nxt \in WatchesOn(e.bus)
           /\ e.nxt = NoEv => e.due \subseteq e.ran
  /\ \A w \in evDead : w \in InUse /\ Busy(BusOf(w))
  /\ eventq # <<>> => eventd
=============================================================================
