# TLA+ models of iot-app-fw

iot-app-fw launches applications, each in a cgroup of its own, keeps track of
them, stops them on request, installs them, and lets them exchange events. This
directory holds TLA+ specifications of its core logic and of the library below it,
the TLC configurations that check them on small instances, and proofs checked by
TLAPS. Paths below are relative to the repository.

    tlc -workers 2 -config LaunchSystem.cfg MCLaunchSystem
    tlapm LaunchProofs.tla

## 1. The system

    iot-launch --setup/--stop/--list ---.                     .--- kernel: cgroups,
    iot-launch --cleanup  ---------------+-- stream sockets ---|    release agent
      ^ run by the kernel                |                     |
    application = exec'ed iot-launch ---'     iot-launch-daemon|
      with the application library -----------------'

The daemon (`src/launcher/daemon`) is one thread that runs a mainloop. Sockets,
timers and signals call back into it, one at a time. It talks JSON over local
stream sockets to two kinds of clients:

* **iot-launch** (`src/launcher/client/launch.c`) connects, sends one request
  and acts on the answer. For a launch it turns itself, or a child, into the
  application; for a stop it stays until it is told that the application is gone.
* **applications** linked with the library (`src/app/app.c`) subscribe to events,
  send them, and ask for lists of applications.

The kernel takes part too. An application runs in the cgroup
`user-<uid>/<base>-<pid>`; when the last process leaves it, the kernel runs
`iot-launch-agent`, which is `iot-launch --cleanup <cgroup>`, a client again.

| Component | State | Operations | Interacts through | What is hard | What makes it correct |
|---|---|---|---|---|---|
| Application tracking (`application.c`) | list of `application_t`: id, user, cgroup, killer, stop timer | setup, stop, kill timer, cleanup, list | requests, cgroups, events to the killer | a cleanup between two expirations of a timer, two stops, setup of a process that is gone, restart | nothing running is lost, timers match stops, everyone is answered |
| Cgroups (`cgroup.c`) | directories, tasks files | mkdir, rmdir, signal | file system of the kernel | fork while killing, EEXIST, writing a dead pid, release notification runs once | a dead application has a cleanup on the way |
| Clients (`client.c`, `transport.c`) | list of `client_t`: credentials, event mask | connect, close, subscribe, dispatch | sockets | peer is gone when accepted, close with requests in flight | one status per request, in order |
| Event routing (`event.c`) | registry name -> id, masks | register, send to pid, route | client list | registry at its limit, routing while clients come and go | subscribers miss nothing and get nothing else |
| Application library (`app.c`) | connection, sequence number, pending queue | connect, subscribe, send, list, reply, closed, destroy | socket, application callbacks | connection lost with requests pending, reconnect | every request one callback, in order |
| iot-launch (`launch.c`, `identity.c`) | mode, connection, ids, groups, capabilities, blocked signals | start, receive, set up, exec, exit | socket, exec, kernel | connection inherited by the application, daemon gone, the order of giving up rights | a stop ends when the application has, the application runs as its user |
| Mainloop (`src/common/mainloop.c`) | timers, deferreds, watches, wakeups, signal handlers, buses, event queue | add, modify, delete, dispatch, emit, purge | callbacks that call back into it | deletion during dispatch, stale poll events, signals while unblocked | nothing deleted is called, nothing due is skipped |
| Foreign mainloops (`*-glue.c`, `qt-glue.cpp`) | a timer, a piece of deferred work and a watch of the host | register, pump, unregister | callbacks of the host | every host's own idea of a timer of 0 | the host pumps in time and sleeps otherwise |
| Transports (`transport.c`, `stream-transport.c`) | connection flags, busy count, receive buffer | connect, accept, send, receive, destroy | callbacks | destroy in a callback, short writes | whole messages, in order, no use after free |
| Fragmentation buffer (`fragbuf.c`) | bytes, size of the current message | push, pull, alloc, trim | none | a length cut in two | the messages pulled are those pushed |
| Containers and memory (`hash-table.c`, `mask.h`, `mm.c`) | chains and chunks, words, free lists, blocks | add, delete, iterate, set, allocate, dump | their users | deletion while iterating, word and chunk boundaries, cached summaries | what is kept in several places agrees |
| Manifests (`src/utils/manifest.c`) | cache, reference counts, map of paths to types | get, read, ref, unref, list, file type | files, the daemon's `list-installed` | cached copies, several files, types and patterns for a path | in memory while held, shown to whom it may be, the first match decides |
| Package manager (`src/package-manager`) | copy of the RPM database, seeds, registrations | pre-install, install, remove, plant, list | librpm, Security-Manager, manifests | a step that fails, being killed in between | success means done, failure means undone |
| File utilities (`file-utils.c`) | directories | make a directory with all it is in | other processes | `stat()` and `mkdir()` apart, undoing | all or nothing |
| The rest | | | | sequential code, adapters and pure I/O | |

`PROJECT.json` lists every component with its status and, under `hazards`, what in
this code is hard to test, the line where it bites and the properties that cover it.

## 2. The plan

| | Modules | State |
|---|---|---|
| 1 | `Clients`, `Cgroups`, `Launcher`, `LaunchSystem`, abstract `AppLifecycle` | done |
| 2 | `EventRouter`, `AppLib`, `EventSystem` over `Clients` | done |
| 3 | `LaunchProofs`: type correctness, kill timers, the launcher's other safety invariants, and that its steps are those of `AppLifecycle` | done |
| 4 | `Mainloop`: timers, deferred callbacks and wakeups | done |
| 5 | `IoWatches`, `Signals`, `EventBus`, `Superloop`: the rest of the mainloop | done |
| 6 | `Fragbuf`, `Transport`, `StreamTransport`, abstract `Channel` | done |
| 7 | `HashTable` with abstract `Multimap`, `Mask`, `ObjPool`, `MemBlocks`, `Stores` over the four | done |
| 8 | `Manifests`, `PathMap`, `PackageManager`, `LaunchClient`, `DirTree` | done |
| 9 | `EventProofs`: the event system's safety invariants | done |
| 10 | `MainloopProofs`: no poll oversleeps, deferred callbacks run once | done |
| 11 | `TransportProofs`: nothing that is left refers to a freed transport, `StreamIntact`, and that stream transports implement `Channel` | done |
| 12 | `LoopProofs`: I/O watches, signals, event bus and superloop | done |
| 13 | `StoreProofs`: the stores agree with themselves, iterations miss nothing, and the hash table implements `Multimap` | done |
| 14 | `ProgramProofs`: manifests, path map, package manager, iot-launch and `iot_mkdir()` | done |
| 15 | Address resolution and options of the transports, subloops, the hooks of a launch | later |

Every safety property that a passing run checks is stated by a theorem. No module that
is proved about declares a RECURSIVE operator; loops
over lists are `Keep` of `Lists`, and `FoldLeft` and `SelectInSeq` of the community modules.

## 3. The modules

### Launching

**`Clients`** models `client.c` and the sockets. A connection is a member of
`Conn`. `clients` is `l->clients`, `id[c]` the peer's credentials as
`SO_PEERCRED` reports them, `out[c]` what was written to `c` and not read.
`transport_send()` appends to `out[c]`; its result is ignored by all callers, and
a socket buffer that fills up is not modelled. `EventSend` is `event_send()`,
which sends to the first client of a process and nowhere if there is none.

**`Cgroups`** models `cgroup.c` and the kernel below it. `dirs` are the leaf
directories, `cg[p]` the cgroup of a process, `released` the directories whose
release agent is due. `CgroupMkdirDone`, `CgroupMkdirFailed`, `CgroupRmdir` and
`Killable` are the four functions; `KernelSpawn`, `KernelExit`, `Emptied` and
`Tasks` are the kernel. `SignalCap` stands for the 4095 bytes of the tasks file
`cgroup_signal()` reads at a time: with more processes than that some survive a
SIGKILL. `KernelExit` can leave a child behind that was forked between the read
and the kills.

**`Launcher`** models `application.c` and the dispatch in daemon/`transport.c`.
`apps` is `l->apps`, `rec[h]` the `application_t` at address `h`, `timers` the
records for which an `application_sigkill()` timer is armed, and `inq[c]` the
requests sent on `c`. One request is one action, from its removal from `inq` to
the last side effect and the reply. `ApplicationSetup`, `ApplicationStop`,
`ApplicationCleanup` and `ListRunning` have a disjunct for each outcome.

**`LaunchSystem`** composes them with the processes of `launch.c`. `st[p]` is
what a process is doing (waiting for the answer to a setup, stop, list or
cleanup; `signalled`: a stop that was answered and waits for its event; `app`;
`exiting`; `hung`), `conn[p]` the connection it holds. The socket is not
close-on-exec, so an application and its children keep the connection of the
iot-launch they came from; `LncClosed` happens when no holder is left.
`Restart` is a daemon that dies and starts again.

**`AppLifecycle`** is the abstract specification: instances that run, are asked to
stop, and are forgotten, and the processes of each. `LaunchSystem` implements it
under the mapping at the end of the module: the phase of a handle is read off
`apps` and the killer of its record, its processes are those of its cgroup.

### Events

**`EventRouter`** models `event.c`, `client_subscribe()` and the dispatch for the
library's requests. `events` is the registry in order of ids, `mask[c]` the bits
of a client. `ClientSubscribe` registers and sets bits name by name. When the
registry is full, `iot_mask_set()` is called with bit -1, whose shift is
undefined: it sets `ShiftedBit` or nothing. The privilege check is the constant
`Senders`.

**`AppLib`** models `app.c` for a set of contexts: `link` (the transport), `seqno`,
`pendq`, and, as history, the callbacks made. **`EventSystem`** composes it with
the router over the same sockets. `asked`, `confirmed` and `owed` are history: what
a context asked for on its connection, what it was told it has, and what events it
must therefore get. No action depends on them.

### The mainloop

**`Lists`** has the loops of `iot_list_foreach()` that drop what they visit from a list,
for the purge of the mainloop and for the library's queue of requests.

**`Mainloop`** models timers, deferred callbacks and wakeups of `mainloop.c`, each
object being free, live or deleted (marked, not freed yet). `timers`, `deferred`,
`inactive` and `wakeups` are the loop's lists, in order. A pass is the macro
`iot_list_foreach()`: `nxt` is its `n`, read before the element is visited, so that
whatever the callback does to the lists is seen by the rest of the walk. While `cur`
is not `Nil` a callback runs, and any sequence of calls of the API may follow
(`Call`) until it returns; what the loop does after the callback is in
`WakeupReturns`, `DeferredReturns` and `TimerReturns`. `Iterate` is the end of
`iot_mainloop_dispatch()` with its purge, and the next `iot_mainloop_prepare()`.

Time is relative: `rem[t]` is how far the expiry of `t` is away, and `Tick`, at any
time, lets all of them come nearer. `lag` is the age of the clock
`dispatch_timers()` read before its pass, against which expiries are compared
while restarts use the clock as it is. Intervals are at least one tick: a timer with
interval 0 is a busy loop by its definition. In the other models each callback is
one atomic step: the loop calls one at a time and none waits.

Two constants say what callbacks may do: `ReenableInPass`, that deferred callbacks
enable deferred callbacks, and `DeleteForced`, that wakeups with a forced interval
are deleted. The passing runs exclude both; section 6 says what
happens otherwise.

### The rest of the mainloop

**`Lists`** is used here, too: a walk over an intrusive list keeps the member behind the
one it visits (`FirstOf`, `FollowerOf`).

**`IoWatches`**: the first watch of a descriptor is its master, in the descriptor
table and in epoll; the others hang off it as slaves. A poll collects events
(`collected`), the dispatch takes them one by one, and in between the program adds
and deletes watches and closes and opens descriptors, so that an event may meet
another watch than it was meant for. Deleted watches wait for the purge. The
bounds `AddAfterHup` and `DestroyDead` let the program do what section 6 lists.

**`Signals`**: handlers, the mask the mainloop keeps, the mask of the process, and
what is pending. `recalc_sigmask()` is several steps, because it unblocks
everything before it blocks what is left. **`EventBus`**: event ids, named buses and
the NULL bus, watches with masks, emissions that nest (a stack of walks over a list,
each with its saved next element), and the queue a deferred callback pumps.

**`Superloop`**: a loop pumped by a host (libuv, GLib, PulseAudio, Ecore, Qt). The
host has a timer, deferred work and a watch, with the meaning each glue file gives
them: `UvTimer`, `EcoreTimer`, `QtDefer` and their like. What is due in the pumped loop is
`dueIn`, `deferredOn`, `queued`.

### Transports

**`Fragbuf`** has the operators of the fragment collector over sequences of digits,
with the framing of `strm_sendjson()`. **`Transport`** is what all transports share: the
busy count and `purge_destroyed()`. **`StreamTransport`** is the stream backend over a
kernel with descriptors that are used again, pieces of any size, errors and
hang-ups; `cur` says which callback runs and what the code does after it.
**`Channel`** is what the launcher and the library rely on, and `StreamTransport`
implements it: this discharges, for local sockets whose buffers suffice, what
`Clients` and `AppLib` take for granted of a connection.

### Containers and memory

**`HashTable`**: chains, the list of buckets in use, chunks with their masks, the chunks
with space, `nalloc` and `nchunk`, and the position of an iteration in the table. It
implements **`Multimap`**. **`Mask`**: a word is a set of bits; all functions of `mask.h`
but copying. **`ObjPool`** and **`MemBlocks`** are the two halves of `mm.c`: pools of
chunks, and the debugging allocator whose dump takes its list apart and puts it together
again, groups of the same size in any order, which is that of the hashes of their call
stacks. **`Stores`** states of the four together that they are consistent.
All four are the code's data structures as they are used: where a function trusts
its caller, the guard of its action says so, and section 6 lists what it trusts.

### Packages, programs and files

**`Manifests`**: the files of users and the common ones, written and deleted by others
at any time; manifests in memory with their counts; the cache, a list in which a key
may occur twice; and the reply to `list-installed` of the daemon. **`PathMap`**:
`pathmap_t`, with ids that pack an application and a type into one number. An
application is its directory and its members of `file-types` in order; each is inserted
by `InsertMember`, explicit paths into one list and patterns into another. `Shift` is the
65536 of the packing.

**`PackageManager`**: one command of `iotpm` at a time, each call of it a step (`cmd`
says which is next), each of which may fail (`MaxFaults` bounds how many do), and
`Killed` between any two. The store has the user's database, the seeds and the
registrations. Verification of a package and its manifest are operators over its
contents. The rpm4 and rpm5 backends differ in planting and in what is copied.

**`LaunchClient`**: `iot-launch --setup` from `main()` to `execv()` with real, effective
and saved ids, supplementary groups, capabilities, label, and SIGTERM as blocked,
pending, read or taken. It refines nothing of `LaunchSystem`, which has what is said to
the daemon meanwhile: there, an application may exit at any time, told or not.

**`DirTree`**: `iot_mkdir()` with every system call a step and several callers.

`MCLibrary` and `MCPrograms` put these machines side by side; they share no
state, a behaviour is one of one machine, and one run checks them all.

### Conventions

A definition `M_X` is `X` as a plausible bug would have it. No specification uses
one. Each property is listed in `PROJECT.json` with such a definition, and TLC finds
the property violated when it takes the place of `X` - so the property says
something about the code, and the instance is large enough to see it.


## 4. What is checked

| Run | Instance | Distinct states | Shows |
|---|---|---|---|
| `launch_system` | 2 launches, 1 stop, 2 agents, 1 child, 1 user, no restart, up to symmetry | 638,882 | timers match stops, no application and no release is lost, every request gets one answer, the stopped event follows it |
| `launch_liveness` | 1 launch, 1 stop, 1 agent, 2 children, `SignalCap` 2 | 5,395 | stops complete, dead applications are forgotten, `AppLifecycle` is implemented |
| `launch_restart` | 2 users, 1 launch, 2 processes that stop (one may list or clean up instead), 1 restart | 675,160 | only the owner or root stops, across a restart |
| `event_system` | 2 contexts of 2 users, 2 requests each, 2 connections, registry of 2, 1 restart | 1,422,471 | replies meet requests in order, no foreign events, none missed |
| `event_liveness` | 1 context with 3 requests, 2 connections, registry of 3, 1 restart | 3,306 | every request is called back for, every owed event is delivered |
| `event_target` | 2 contexts, one event sent to a label | - | violation: the label of a target is ignored |
| `mainloop` | 2 timers, 2 deferred callbacks, 1 wakeup, intervals 1 and 2, up to symmetry | 2,447,591 | walking the lists is safe, nothing due is slept through, deferred callbacks run once |
| `mainloop_liveness` | 2 timers, 1 deferred callback | 149,421 | expired timers are called, deleted objects freed |
| `transport` | 5 transports, 3 descriptors, 2 connections, messages to the server only, header of 1, up to symmetry | 185,834 | no use after free, and `Channel` is implemented |
| `transport_liveness` | 4 transports, 1 connection, messages of two lengths, header of 2 | 148,094 | messages arrive whole and in order, all of them; a closed peer is noticed |
| `library` | `HashTable`, `Mask`, `ObjPool`, `MemBlocks`, `IoWatches`, `Signals`, `EventBus`, `Superloop`, up to symmetry | 850,883 | stores agree with themselves, iterations and dispatches miss nothing, hosts pump in time |
| `programs` | `Manifests`, `PathMap`, `PackageManager` with 2 faults, `LaunchClient`, `DirTree` with 2 callers | 377,109 | what is shown and kept in memory, what a failed command leaves, as whom and when an application runs |

**The properties of the launcher.**

* `KillTimers`: a timer is armed for exactly the tracked applications with a
  killer. This is what keeps `application_sigkill()` from acting on a record that
  left the list, and a stop from being forgotten.
* `NoAppLost`: every process in a cgroup of the hierarchy belongs to a tracked
  application, and tracked cgroups exist.
* `ReleaseNotLost`: a tracked application without a process has its release
  agent due or its cleanup request on the way. Together with fairness it gives
  `DeadAppsForgotten`.
* `RequestOrReply`: a client that waits has either its request queued or its
  status on the way, never both, never neither.
* `StoppedAfterSignalled`: the stopped event follows the answer to the stop
  request and goes to nobody else.
* `StopByOwner`: the killer of an application is its owner or root.
* `StopCompletes`, `ImplementsLifecycle`: what a user of `--stop` relies on.

**Of events.**

* `PendingInOrder`: the library's queue is what was answered and not read, then
  what the daemon did not get to. `CallbacksInOrder`: over all connections no
  request is called back for twice or before an earlier one.
* `OnlyAskedFor`, `OwedInFlight`: an application is sent no event it did not ask
  for on this connection, and an event it is owed is on its way.
* `RequestsAnswered`, `OwedDelivered`: their liveness side.

**Of the mainloop.**

* `NeverOversleeps`: the cached `ml->next_timer` is the minimum in the middle of
  callbacks too, no poll lasts beyond an expiry, and none blocks while a deferred
  callback is active.
* `ExactlyOnce`: what mainloop.h promises of deferred callbacks, with the saved
  next element of a pass always in the list that is walked, and in memory. This is
  what marking the deleted and delaying the disabled are for.
* `TimersServed`, `DeletedFreed`: no timer starves because others reorder the list
  during a pass, and memory is given back on every way out of an iteration.
* `IoConsistent`: the descriptor table, the list of slaves, what epoll watches and
  the count that sizes the event buffer agree, in the middle of a dispatch too.
  `EventsServed`: an event that was polled reaches every watch that asked for it and
  was not deleted before its turn, if not one before it took it.
* `SignalsHandled`: when a signal has been read, all its handlers are called that
  were there and are not deleted, once. `EventsDelivered`: an emission reaches the
  watches that were there when it began and that nobody deleted, once, whatever their
  callbacks add, delete or emit, and queued events keep their order.
* `HostPumps`: when the pumped loop has something due, the host's timer or work fires
  in time, and a loop that is detached leaves nothing behind. `HostSleeps`: after a pump
  nothing is due before the next timer. It is not claimed under Qt, where a timeout of -1
  becomes a timer of 0 and the host spins.

**Of transports.**

* `NoDanglingTransport`: no transport that is on a call stack or can still be called
  back, through a descriptor used again for instance, has been freed, and one that is to
  be freed is, when the last callback returns.
* `ImplementsChannel`: every message that is delivered is the next one that was sent;
  nothing is delivered to a closed end; a close is told once.
* `StreamIntact`: what is buffered and what is in the socket are the rest of the
  messages sent, digit by digit, wherever the stream was cut. `Delivered`: all that was
  sent is delivered unless one end gives up, and a close of one end ends the other.

**Of containers, packages and programs.**

* `StoresConsistent`: in a hash table, chains, chunks and their masks, and the list of
  buckets in use; in a mask, the bits set and those that were meant; in a pool, lists,
  masks and counts; in the allocator, blocks and totals. `VisitedOnce`: an iteration
  visits every entry that stays, none twice, whatever is deleted meanwhile.
  `ImplementsMultimap`: lookups find what was added, in the order of addition.
* `ManifestsHeld`: a manifest somebody holds is in memory and has a reference for each
  holder. `ListedRight`: `list-installed` shows to a user exactly the readable manifests
  of his own and the common ones, or fails because a manifest is malformed.
  `FiletypeRight`: a path has the application and type of the first member of the manifest
  that names it, or else of the first with a pattern that matches it. For a file the
  manifest is silent on, nobody gets by its type what its
  mode denies.
* `OkMeansDone`: when `iotpm` reports success, what it was asked for is there, database,
  seed and registration alike, whatever a command before it left when it failed or was
  killed. `FailedUndone`: an installation that fails leaves database and seeds as they
  were, unless the call that failed was the query of the new package, or one that
  undoes.
* `RunsAsUser`, `TermHonoured`: see section 5. `MkdirAllOrNothing`: an `iot_mkdir()`
  that fails takes back the directories it made, but those on another caller's path and
  those it could not label, and a call takes back no other's.

**Bounds and why they are enough.** Two launches of the same program by the same
user are needed for one cleanup to meet the wrong application; one stop, with its
timer, for a timer to outlive a record; two agents so that both applications can be
cleaned up; one child so that a cgroup outlives the process that was set up, and
two for a child forked while being killed to have one in turn. Restarts are kept to
a run of their own: `NoAppLost` and `StopCompletes` are about a daemon that keeps
running. Two contexts and two connections suffice for a connection to be reused by
another process; a registry of two for a name that does not fit; three requests of
one context for a subscription, a lost connection and a request on the new one.
Process ids are split by role (`SetupPids`, `StopPids`, `ListPids`, `AgentPids`,
`ChildPids`), which bounds how many of each there are, and an id is not reused
while anybody remembers it.

The mainloop needs two objects of a kind for one callback to meet another on its list,
two intervals for a restart to change the order, and `MaxLag` 1 for the clock to move
during a pass. With three timers `TimersServed` holds as well, at 734,739 states, but
takes too long to be part of the project's runs. Watches, handlers and event watches are
three on one descriptor, two signals and a bus: the one that runs, the one saved as the
next and the one behind it. `MaxDepth` and `MaxQueue` let an emission be made from
within one, and two be queued.

A listener, two pairs of ends and three descriptors let a descriptor be used again while
events for its last bearer are still expected; a header of two digits and messages of
two lengths let a length be cut in two and a message end in the middle of what is read.
Three keys of which two share a bucket, and chunks of two entries, make chains, full
chunks and chunks that come back. Masks of words of two bits have a word boundary
between any two bits at most; five bits leave an odd last word. Three blocks at two
sites make a group of several beside one of its own. `Mod32` is larger than what the run
can allocate; what happens beyond is for the hypothesis of `MemSafety` to exclude.

Two users and the common place, three manifests in memory and a cache of two make a
cached copy meet a newer file and a second user. `MaxFaults` 2 lets one step fail and
the undoing of it fail, too. `PackageManager` has a package that is fine with two
applications, one whose manifest is refused, one with a script and one with a file
that changes the user. `CHECK_DEADLOCK` is off everywhere: supplies of
processes, requests and calls are finite, and programs end.

**Fairness.** Weak fairness of each action of the daemon, because its mainloop is
one thread that polls all sockets and timers and returns to them after every
callback, none of which waits for a client; of a client's reading and of the exit
of the iot-launch that forked an application, because that is all these processes
do; of the start of a release agent, because the kernel runs it. In `Mainloop`, of
callbacks returning, of the loop's own steps, of time, and of a poll that has timed
out; not of I/O. In `StreamTransport`, of the loop serving each descriptor that is
ready, and of callbacks returning, an accepting one by accepting or rejecting. There
is no fairness on users: nobody has to launch, stop, list, fork, quit, send or close.
An application that ignores SIGTERM never exits by itself here, and `StopCompletes`
then rests on the SIGKILL timer. The runs `library` and `programs` are about safety:
each call of these machines is made or not as its user likes.

## 5. What is proved

`LaunchProofs` proves of `LaunchSystem`, for all values of the constants that
satisfy the named assumptions (any number of processes, users, programs,
connections, records and restarts):

* `TypeCorrect`: `Spec => []TypeOK`. Beyond shapes it says that the client and
  application lists name each member once, accepted connections have credentials,
  tracked records are in use, and only existing cgroups are due for release.
* `KillTimersCorrect`: `Spec => []KillTimers`.

The inductive invariant is `IInv == TypeOK /\ KillTimers`. Neither half is
inductive alone. `application_sigkill()` reads the record its timer names:
that it is one needs `KillTimers`. `application_cleanup()` deletes one record
from a list: that no second entry stays behind without a timer needs the list to
name it once, which is in `TypeOK`. There is one lemma for each action of `Next`
and, under it, one for what handlers share (`ReplyOK`, `KernelSpawnOK`,
`KernelExitOK`, `MkdirOK`, `RmdirOK`). `SeqFacts` has the facts about lists they
rest on: the minimum of a set of naturals is a member, what `Append` and
`RemoveFirst` do to the members of a sequence, and that they keep it free of
duplicates.

It also proves the other safety invariants of `LaunchSystem`, for all
values of the constants again:

* `RequestOrReplyCorrect`, `StoppedAfterSignalledCorrect`, `StopByOwnerCorrect`,
  `ReleaseNotLostCorrect`: `Spec => []RequestOrReply` and so on, over any number of
  restarts.
* `NoAppLostCorrect`: `Spec => [](restarts = 0 => NoAppLost)`. The condition is the
  code's: a daemon that is started again knows no application of before.
* `LifecycleUntilRestart`: the initial states and every step up to the first restart are
  those of `AppLifecycle` under the refinement mapping, or leave its variables alone; and
  `LifecycleRefined`, the same without the condition where `MaxRestarts` is 0. Its fairness
  stays with TLC.

None of these is inductive, and the invariant that is has three layers on `IInv`.
`ConnInv` is about connections: who holds one beside the process that made it (children
of an application do, so that an answer might be read by the wrong one), and that a
request is alone on its connection until it is answered. Without it `RequestOrReply`
fails at the step that answers. `KillInv` is about the process noted as a killer: nobody
else holds its connection, so that the event sent to a process id is read by the process
that asked, and it has been told, or is about to read, that its stop was signalled.
`CgroupInv` is about cgroups: each is made for a process that never had one, tracked
applications have different ones, and one that is empty stays so. This is what makes a
cleanup, which goes by the name of a cgroup, take the record of a dead application off
the list and no other, and what makes a release that is due once enough. The refinement
needs all three: a step of `Cleanup` must find its instance without processes.

`EventProofs` proves of `EventSystem`, for any number of contexts, connections, events,
requests and restarts, any size of the registry, and whatever a shift by -1 does:

* `CallbacksInOrderCorrect`, `PendingInOrderCorrect`, `OnlyAskedForCorrect`,
  `OwedInFlightCorrect`, and `TypeCorrect`.

`QueueInv` relates the two ends of a connection: the numbers of what a context was called
back for and waits for grow, the unread statuses answer the first of its queue, and while
the connection lasts the rest of the queue is what the daemon has still to read. A
status thus always finds its request first, and a connection that goes down calls back
exactly what was not answered. `AskInv`, on `QueueInv`, is `OnlyAskedFor` for the mask and
for the subscriptions that are queued. `SubInv`, on it too, says that a subscription that
was confirmed, or whose confirmation is unread, has its bits in the client's mask: to know
which names an unread status confirms needs `PendingInOrder`. `OweInv`, on `SubInv`, says
where an owed event is: in a request that will reach its subscriber when it is served, or
among the messages on the subscriber's connection.

The loops of these models are folds of the library, defined over sets of indices.
`SeqFacts` proves of such a fold, over any sequence, that it is the last of the results
in between (`FoldExists`), by way of the fact that a set of naturals that has 0 and the
successors of its members has them all, and `GrownByAppend` turns that into induction over a
sequence for one property. `KeepUnrolled` there and `RegisterUnrolled` of `EventProofs` are
these loops.

`MainloopProofs` proves of `Mainloop`, for any number of timers, deferred callbacks and
wakeups, any intervals, and any calls that callbacks make:

* `NeverOversleepsCorrect`: `Spec => []NeverOversleeps`.
* `ExactlyOnceCorrect`: `Spec => []ExactlyOnce`, provided that `~ReenableInPass`. The
  condition is that of section 6: with it false the property is.

`LoopInv` is inductive, and is not about `ExactlyOnce`. `ml->next_timer` is kept by two
functions that look at the list of timers only as far as they must: `insert_timer()`
compares with the first live timer, `find_next_timer()` takes it. That either finds the
minimum needs `Sorted`, that live timers are in order of expiry, deleted ones that are
still in the list wherever they are. `Places` and `CursorValid` say where the walk and
the callback are: nxt is in the list that is walked and is not the object that is called,
so that parking or restarting the latter leaves it alone. A poll that blocks found
`ml->deferred` empty, and `Parked` makes of that that no deferred callback is active.
`PollSleeps` says that a poll which has slept leaves each timer at least what is left of
its timeout. `PassInv`, on it, is about a pass: what is ahead of the walk has not been
called, and what was active all along is ahead or has been called. That a purge never
takes `ml->next_timer` is a part of the result. `SeqFacts` has the order of the members of
a list (`Before`) and what appending, deleting, inserting and `Keep` do to it.

`ProgramProofs` proves of `LaunchClient`, for any ids and groups, for an
iot-launch that is setuid root or not, for every build and every override:

* `RunsAsUserCorrect`: the application that is executed has one user id, the one
  resolved for it, none to go back to, its groups, its label, no capability and no
  blocked signal.
* `TermHonouredCorrect`: no application is executed by an iot-launch that was sent a
  SIGTERM before.

Both are about the last step only, so neither is inductive. `UserKept` says of each
step what those before it have established: that the saved id is the real one
until the ids are set, that the groups resolved are among those of the process, that
the label is set. `TermKept` says where a SIGTERM may be: it is pending, it has made
the mainloop quit, which stops the dispatch of a reply that is there as well, or
iot-launch is over; `remove_signal_handlers()`, which unblocks the signals, is where a
pending one must be met.

Of `PackageManager` it proves, for any packages and whatever they contain,
any files of the system's database, and any number of failing calls and killed commands:

* `OkMeansDoneCorrect`, `FailedUndoneCorrect`: `PmgrSpec => []OkMeansDone` and so on,
  where `PmgrSpec` is the machine that the run `programs` has beside others.

Both properties are about what a command returns, and what it returns depends on steps
long past, with failures in between and the leavings of killed commands at its start.
`CopyKept` is about the copy of the database: which files are there at which step, so
that a copy that is not whole is never passed on. `InstallKept` is what has been
established of the package when a step begins: verified before it is installed, in the
database before it is queried, with a whole seed before it is registered. `UndoKept` says
how what there was before can be read off what there is, which is what makes an undoing
that is complete one that restores. A seed that is left by a command that was killed shows
here: `UndoKept` says that a seed is written only where there was none.

`TransportProofs` proves of `StreamTransport`, for any number of transports, descriptors
and connections, any messages, and any requests that callbacks make:

* `NoDanglingTransportCorrect`: `StrmSpec => []NoDanglingTransport`;
* `StreamIntactCorrect`: `StrmSpec /\ []BuffersSuffice => []StreamIntact`;
* `ChannelRefined`: `StrmSpec /\ []BuffersSuffice => ImplementsChannel`, the whole of
  the abstract specification, for every connection.

`BuffersSuffice` says that whoever may still send finds room in the socket for the whole
frame. It is a hypothesis because the code is wrong without it: the part of a write that a
full socket took stays there, in front of the next frame (`stream-transport.c:716`, a
hazard that no property covers). Each run leaves that room by its `SockBuf`.

The first property looks at call stacks and watches only; that neither has a freed transport
depends on the busy count and on sockets. `CallbackKept` says that a transport is busy
exactly while its callback runs, so that `purge_destroyed()` frees it in
`iot_transport_destroy()` or at the return of the callback and not twice, and that what is
destroyed waits for that return. `SocketsKept` says that a descriptor is of one transport:
a descriptor that is used again while a transport still names it would have its watch taken
away by the wrong `strm_close()`. `WatchesKept` makes of both that the watch of a descriptor
goes with its transport.

The other two are about what a user is given, which depends on how every read before cut
the stream. `StreamKept` says of a transport that reads that its buffer, followed by what
is in the socket, is a concatenation of the frames of the messages sent and not yet given,
in order (`Ahead`); while a callback runs, the first of them is the one it was given. For
this to be kept, nobody else may read that end: `EndsKept` says that an end has one
descriptor or waits for one in the backlog, never both, and `BacklogKept` that nothing of an
end that waits has been read. `LeftKept` says that who is connected and has no buffer has
closed, and so is given no message any more. The lemmas on `Frames` and `Ahead`
in the first part of the module say what a framed sequence starts with, how one that grows
at its end is still framed, and when it is read up.

`LoopProofs` proves of the parts of the mainloop beside its timers, for any number of
watches, descriptors, signals, handlers, buses and delays:

* `IoSafety`, `EntryServed`: `IoSpec /\ ~AddAfterHup /\ ~DestroyDead => []IoConsistent`,
  and the same for `EventsServed`.
* `SignalsSafety`: `SignalsSpec => []SignalsHandled`.
* `BusSafety`: `EventBusSpec /\ ~DeleteNext /\ ~AddByMask => []EventsDelivered`.
* `HostSafety`: `HostPumps`, for a program that enables deferred callbacks and emits
  events from callbacks of the mainloop only, under a host that refuses nothing.
  `HostRests`: `SuperloopSpec => HostSleeps`, an action property, without a condition.

Each hypothesis excludes one of the cases of section 6, in which the property is violated.
Each part has an inductive invariant of its own. `IoInv` says that a slave hangs off one
head of its descriptor (`ListsKept`), that what is deleted waits once and asks for nothing
(`LivesKept`), that the head in the table of a descriptor stands for a live watch, and who
is in no table has hung up (`TableKept`), and that epoll is asked for what live watches
ask for and nothing that no watch does (`PolledKept`). `EntryKept` is for the middle of a
dispatch: each watch that was there has been reached by what it asked for, or is ahead of
the walk over the slaves, or is dead. `SignalsInv` and `BusInv` have the same shape, what
is owed a call has got it or is ahead. That the element a walk has saved is still in its
list when the walk comes to it is where marking the deleted matters (`DeadWait`: a deleted
watch stays until no emission of its bus is left). In `BusInv` it holds for every
emission of the stack, and `PumpKept` says that only the outermost is of a queued event,
so that it is the head of the queue that goes when it returns. `HostHeld` relates what the
host has set, as each glue understands it, to what the mainloop has due.

Of `Manifests`, `ProgramProofs` proves `ManifestsSafety`, `ManifestsHeld` provided that
`~ResetWhileHeld` (the cache is not thrown away while somebody holds what is in it), and
`ListingSafety`, `ListedRight` without a condition. `ManInv` counts: a manifest has at
least a reference for each of its holders and one for the cache, where a reference that is
held is a pair of a holder and a number, so that the count is a cardinality. A manifest is
thus not freed by an `iot_manifest_unref()` while anybody has it. That it can be more is the
reference that leaks.

Of `PathMap` it proves `FiletypeSafety`: `FewTypes` implies `PmSpec => []FiletypeRight`,
for any manifest, paths, patterns and modes. `FewTypes` says that the types that a manifest
names, with the five that modes map to, are no more than `Shift`, 65536: `PATHMAP_ENTRY()`
packs the number of a type into 16 bits and `pathmap_type_insert()` has no limit, so that
beyond it an answer would be of another application. `PmInv` says that there is, for each
of the two lists, a function from its entries to the members of the manifest they are of:
it is in the order of the manifest, it leaves out no member and no path of one, and each
entry unpacks to its member's application and type (`Places`). That the types' numbers stay
while the table grows, during lookups too, is what keeps it (`Grows`, `ListedStill`).
`AppInserted` is the induction over the members of an application. The first entry for a
path is then of the first member that names it (`FirstListed`).

Of `DirTree` it proves `MkdirSafety`: `TreeSpec => MkdirAllOrNothing`, for any number of
callers at a time, whatever directories their paths share.
`TreeInv` says that nothing is without what it is in, that what a call has noted to take back
is there, its own, and in the order of its path, and that every directory that a call has
made is one it has noted, or is about to label, or one of the two exceptions.

`StoreProofs` proves of the containers, for any keys, sizes, limits, hash functions and word
sizes:

* `TableSafety` (`~ResetUsed`): `TableConsistent`, the hash table's part of
  `StoresConsistent`. `IterationSafety` (`~ResetUsed`, `~ReplaceInLoop`): `VisitedOnce`.
* `MultimapRefined`: `HtblSpec => ImplementsMultimap`, without a condition: every operation
  does to the map what it says even where an iteration goes wrong.
* `PoolSafety` and `MaskSafety`, without a condition: `PoolConsistent` and `MaskHoldsBits`.
* `MemSafety`: `MemAccounts`, if `MaxSize * Cardinality(Block) < Mod32`. A dump gives each
  group the size of its blocks and takes all but the first away again, summed up in 32 bits
  (`src/common/mm.c:693`): with 4 GiB allocated at one place it would leave another size
  than there was.
* `StoresSafety`: the four together, `StoresConsistent`, under the hypotheses of its parts.

`StoreInv` is inductive whatever users do: each entry is in the chain of its key's bucket,
once, buckets with entries are among the used ones, and masks, count and the list of chunks
with space are those of the entries in use. `Placed` and `Walked` are on top of it. The
position of an iteration is an entry of its chain; deleting that entry moves it back by one
in its direction (`it.d`), and then what is ahead is what was ahead. `Walked` says that what
is ahead has not been visited and what is behind and was there from the start has, once,
where an entry is ahead of another in the list of buckets or in a chain, in either
direction. `PoolInv` says the same of a slot in the three places it is kept in: held by a
user, in the mask of its word, and, through that word, in the cache of its chunk. `Holds(m, want)` is that
a mask's bits are those asked for, none beyond its size, and what the size means for the
number of words; each call is a lemma about it, down to the searches of `mask.h`. `MmInv`
needs sums over sets of blocks, which the community modules define by a fold in an order
that is chosen: that such a sum is that of a set with one member less and this member,
whichever it is, is proved first (`SumFacts`).

**What the proofs assume of constants.** Only what the modules assume under names, and TLC
evaluates: that special values (`Nil`, `NoWatch`, `NoManifest`, "nobody" among callers) are
none of the ordinary ones, limits are numbers, what the code can only have finitely many of
(descriptors, chunks, blocks, users, packages) is finite, sets from which a first value is
taken are not empty, and paths, of `iot_mkdir()`, are not empty.

**Only model-checked.** Every safety property of a passing run is proved; what is left to
TLC is liveness, which is outside what the prover handles, as is `ENABLED`: `StopCompletes`,
`DeadAppsForgotten`, the fairness of `ImplementsLifecycle`, `RequestsAnswered`,
`OwedDelivered`, `TimersServed`, `DeletedFreed` and `Delivered`. `Fragbuf` computes by folds
over digits: what it computes for every input would need induction over data, which the
provers do not have as a rule (an operator as a parameter of a theorem), where it is not a
matter of one property of one fold, as in `SeqFacts` and in the lemmas on `Frames`. The
runs meet the hypotheses of the theorems by the values of their constants.

## 6. Where code and documentation disagree

One run keeps a disagreement:

* **Labels are ignored** (`event_target`). `src/app/app.h:184` promises delivery to the
  applications that match the target; `event_route()`
  (`src/launcher/daemon/event.c:194`) reads label and application and compares neither.

The following are definitions of the models that TLC refutes when the constant named
is set (or, where none is named, as it stands); no run has them. The passing runs
exclude what leads there, so that what they show holds of programs that avoid it.

* `ConfirmedSubscribed` (`EventSystem`): with `MAX_EVENTS` names registered
  `event_register()` returns -1. `iot_mask_set()` accepts it: the mask "grows" to 0
  bits, the word index -1/64 is 0, and 1 is shifted by -1. `client_subscribe()` answers
  OK, and on processors that take the shift count modulo 64 the client is subscribed to
  event 63. The error at `src/launcher/daemon/client.c:124` is never reached this way.
* `ExactlyOnce` with `ReenableInPass`: `iot_enable_deferred()`
  (`src/common/mainloop.c:868`) moves the callback to the tail of the active list even
  if it is there already, and `dispatch_deferred()` walks the list to its end. One that
  enables itself, with another behind it, is called again in the same pass; two that do
  so never let it end. `src/common/mainloop.h:349` promises exactly one call per
  iteration and that deferred callbacks do not starve the loop.
* `UserDataLive` with `DeleteForced`: `iot_del_wakeup()` does not delete the timer of
  the forced interval. The purge at the end of the iteration frees the wakeup, and when
  the timer expires `forced_wakeup_cb()` (`src/common/mainloop.c:1083`) looks at it.
  `src/common/mainloop.h:593` calls the deletion safe.
* `NoDefaultAction` (`Signals`): `recalc_sigmask()` (`src/common/mainloop.c:965`)
  unblocks everything before it blocks what is left, and a signal with a handler that is
  pending, or arrives in between, takes its default action.
* `QueuedPumped` (`Superloop`), with "enable outside" among the `Risks`: an event that a
  callback of the host emits to be delivered later, or a deferred callback it enables,
  does not wake the host.
* `MissingFromLast` (`StreamTransport`): `iot_fragbuf_missing()`
  (`src/common/fragbuf.c:81`) computes from the first message in the buffer, not the
  last (`src/common/fragbuf.h:78`).
* `FreedWhenReleased` (`Manifests`): `iot_manifest_read()` (`src/utils/manifest.c:371`)
  returns a manifest with a reference more than its caller releases.
* `IoConsistent` with `AddAfterHup`, `DestroyDead`: deleting the first of two watches of
  a descriptor takes the registration of the second away if it was added after the peer
  hung up (`src/common/mainloop.c:464`); the count of watches is lowered twice; a loop
  that is destroyed between a deletion and its purge frees slaves that are still on its
  list of the deleted.
* `EventsDelivered` with `DeleteNext`, `AddByMask`: a callback that deletes the next
  watch of the NULL bus frees the element its walk goes on with;
  `iot_event_add_watch_mask()` copies the empty mask of the watch over the caller's
  (`src/common/mask.h:810`).
* `HostPumps` with `Risks` "host fails": a registration that fails frees the glue twice
  under libuv, GLib and PulseAudio. "enable outside" violates it, too. "quit under uv"
  is excluded because the deferred work is then read after it was freed, and handles are
  freed without being closed, which is undefined, not wrong, in the model.
* `VisitedOnce` with `ReplaceInLoop`: an iteration whose entry is replaced may come to
  an entry twice, or hang. `StoresConsistent` with `ResetUsed`: `iot_hashtbl_reset()` of
  a table with entries leaves its chains on the list that is iterated over.

Met on the way, as the models' actions have it:

* *Library.* `iot_app_event_send()` is documented at `src/app/app.h:195` to return 0 on
  failure and returns -1. After a lost connection subscriptions are not renewed.
* *Daemon.* After a restart the cgroups of earlier applications are never removed.
* *iot-launch.* The short option `-u` is not accepted and `-U` takes no argument. Every
  list of groups on the command line ends the program: `iot_get_groups()` takes the
  length of its last element from a null pointer (`src/utils/identity.c:137`). The label
  given with `-L` is not the one that is set. Without the Security-Manager an override
  of the user changes the request, but not the user. One whose connection is closed
  stays in its mainloop.
* *Manifests.* The key `file-types` of `doc/example.manifest:21` is refused. Only the
  first element of `privileges` and `execute` is looked at. One malformed file makes
  `list-installed` fail for everybody. A common manifest in the cache hides a user's own
  of the same name.
* *Package manager.* With rpm4 a failing seed leaves the seeds before it, with rpm5
  none; a database that cannot be opened is reported as planted. An upgrade does nothing
  and reports success. A query that fails after an installation leaves the package
  installed; registrations made before one that fails stay; a removal that is
  interrupted leaves a seed without a package. A copy of the database that is
  interrupted is taken for whole, or makes every later command fail.
* *iot_mkdir().* `src/common/file-utils.h:139` promises all or nothing. The directory
  whose label cannot be set is not taken back, and keeps those above it.
* *Masks.* Ranges beyond the size are written all the same; reset of a fixed mask of
  several words clears one; the bits of a mask that shrinks within a word stay, and are
  seen when it grows. `iot_mask_alloc()` may return a bit beyond the size.
* *Pools.* Destroying one frees no chunk (`src/common/mm.h:109`); a setup callback that
  fails counts an object that was never there.
* *Transports.* Connecting again leaks the socket; an `accept()` that fails for another
  reason than a lack of descriptors closes the listener; sockets stay blocking, because
  close-on-exec is set with the wrong command.

## 7. What is not modelled, and why

* Failing allocations, and setup hooks (valgrind, firewall rules). What fails in
  `ApplicationSetup` is the manifest, and the cgroup.
* The `user-<uid>` directories; the mounting of the hierarchy.
* SIGTERM in `LaunchSystem`: an application may exit at any time, told or not.
  `LaunchClient` has it for iot-launch itself.
* Requests that are malformed; JSON as a text and as a tree, which `json.c` leaves to
  a library.
* Reuse of process ids while somebody remembers one, and sockets whose buffers are full:
  sending is complete or fails.
* Transports: addresses, options and the datagram backend, which the
  programs do not use by default; one connect or listen for each transport.
* Loops run under another loop of the same kind, and user-defined pollers. In
  `Superloop` the hosts are modelled from how the glue uses them.
* Manifests: scanning of directories and the contents beyond keys and types; regular
  expressions (a pattern matches a set of paths); normalization of paths.
* Package manager: librpm and the Security-Manager are calls that succeed or fail;
  what a scriptlet does; locks of the database, so that two commands at a time are
  outside the model.
* Bindings, logging, configuration, the account tool and start-up of the daemon:
  adapters and I/O without state of their own that outlives a call. Samples and tests
  were read for how the library is used.
