# TLA+ models of AndroidStudioProjects

The repository is a set of small programs that together teach how Android
reaches hardware and how its processes talk: a binder service manager with
servers and clients, a lights HAL with the LED drivers under it, demo apps, and
three examples of Linux event handling. This directory holds TLA+ models of the
parts with logic of their own, the TLC configurations that check them, and
proofs checked by TLAPS. Paths below are relative to `src/`.

## 1. Inventory

| Part | State | Operations | How it interacts |
|---|---|---|---|
| Service manager (`BinderServicemanager/c/service_manager.c`) | `svclist` of `svcinfo` (name, handle, death, allow_isolated) | find, add, list, ping, death of a service | called by every process through handle 0; holds strong references and death registrations in the driver |
| Binder library, loop and calls (`c/binder.c`) | nothing but the descriptor; the driver keeps threads, references and queues | `binder_loop`, `binder_thread_loop`, `binder_parse`, `binder_call`, `binder_send_reply`, `binder_acquire`/`release`/`link_to_death`, `binder_done` | under service manager, server and client; starts pool threads when the driver asks |
| Binder library, codec (`c/binder.c`) | a `binder_io` cursor per message | `bio_init`, `bio_put_*`, `bio_get_*` | every message of the three programs |
| Hello/goodbye server (`c/test_server.c`) | four static counters | two handlers with two functions each | pool threads run the handlers concurrently |
| Hello/goodbye client (`c/test_client.c`) | two handles | lookup, four calls, release | blocks in `binder_call` |
| C++ and Java variants (`cpp/`, `java/`) | the same counters (one for both functions in Java) | the same functions, with other codes and parcels in Java | over libbinder and the Java runtime, registered under the same two names as the C server |
| Lights HAL (`bsp/ledDriver/lights.c`) | `g_battery`, `g_notification`, `g_lock`, `g_init` | open, close, set one of three lights | called from framework threads; writes sysfs files of the LED class |
| LED class driver (`bsp/ledDriver/leds_4412.c`) | `led_devs`, the kernel's list of LEDs, four pins | init, exit, brightness | registers four LEDs, may fail half way |
| LED character driver and control chain (`leds_tiny4412.c`, `android_kernel_modify`, `led_001`) | four pins, a descriptor, check boxes | open, ioctl, check boxes, button | app, service in the system server, native code, driver |
| HardControl library (`bsp/HardControl`) | a descriptor | open, ctrl, close | an earlier form of the native code of the chain |
| Message app (`App_Addons_001_Message`) | looper, handlers, two message queues | onCreate, getLooper, click | a UI thread and two loop threads over a Java monitor |
| Light demo app (`App_Addons_002_LightDemo`) | `flashing`, delayed runnables, seek bar | click, run, move, onCreate | notification manager and settings, and through them the lights HAL |
| `epoll/epoll.c` | an epoll set, events of the last wait | add the files, wait, read | FIFOs others write to |
| `inotify/inotify.c` | a watch, a buffer and two cursors | watch, read, parse | changes of a directory |
| `socketpair/socketpair.c` | two counters and buffers | write, read | two threads over a socket pair |

What is hard here: a server may die between any two commands the manager sends
to the driver, and its death notice may be on its way while its name is taken
over; handles are reused, so an unbalanced count names another object;
`binder_parse` runs on several threads, and one of them starts the others;
handlers share unlocked counters; messages are cut silently when a buffer is
full; the shared LED is set from several threads by series of writes that may
fail; the looper handshake depends on a monitor with early wake-ups; a client of
one language meets servers of another, which replace each other and die;
runnables outlive the activity that posted them; a blocking read follows a
readiness event; events of different sizes share one buffer. The list with lines
is under `hazards` in `PROJECT.json`.

What makes each part correct: the manager's table answers with live objects
only, follows registrations and deaths, and keeps reference counts balanced; the
pool serves every call once and never exceeds its size; the codec never leaves
its buffers and what is read is what was written, or the reader can tell; a
client reports a count only when the function it asked for produced it; the LED
shows the light with priority and follows the button; the looper is there when
its handler is made; the event loops print everything once and never hang.

## 2. Modules

| Module | Models | Extended by |
|---|---|---|
| `ServiceManager` | service manager on `binder_loop`/`binder_parse`, with the driver's references, death registrations and queue | `MCServiceManager`, `ServiceManagerProofs`, `RegistryProofs` |
| `Registry` | what the manager promises: a table from names to objects | instantiated by `ServiceManager` |
| `BinderPool` | the server's thread pool and handlers, and clients in `binder_call` | `MCBinderPool`, `BinderPoolProofs` |
| `BinderIo` | the codec, a message from `bio_init` to the last `bio_get_*` | `MCBinderIo`, `BinderIoProofs` |
| `HelloClients` | the test clients and servers in C, C++ and Java, each from start to exit | `MCHelloClients`, `HelloClientsProofs` |
| `LightsHal` | `lights.c` with the LED class attributes it writes | `LightDemo`, `MCLightsHal`, `LightsHalProofs` |
| `LightDemo` | the light demo app, composed with `LightsHal` through two framework threads | `MCLightDemo`, `LightDemoProofs` |
| `MessageApp` | the message app | `MCDemos`, `DemosProofs` |
| `Epoll`, `Inotify` | the epoll and inotify examples | `MCDemos`, `DemosProofs` |
| `SeqFilter` | a sequence without some of its elements | `Epoll`, `Inotify` |
| `SocketPair` | the socket pair example | `MCDemos`, `DemosProofs` |
| `LedsClass` | the LED class driver | `MCDemos`, `DemosProofs`, its own configuration |
| `LedChain` | the LEDs from check box to pin | its own configuration |

Definitions keep the names of the functions they model where there is one;
`map` in `PROJECT.json` gives the lines. Operators commented "Mutant" are
plausible bugs: replacing the definition after them must break a property, which
shows that the property sees the code.

### ServiceManager

A process is blocked in at most one call (`request`, `buffer`), because
`binder_call` blocks. The manager's thread is at `pc`: `loop`, or between the
commands of a handler (`acquire`, `link`, `reply`). Reading a piece of work and
running the handler up to its first command is one step, since reading commutes
with what other processes do; for the override the release is that first
command, and the assignments after it are only visible to the same thread. Every
further command is a step, and callers send, exit (`Die`) and are cleaned up by
the driver (`Release`) in between.

The kernel driver is outside the repository. `ref_node`, `ref_strong`,
`ref_death`, `todo` are what `binder.c` relies on: one descriptor per object, the
smallest that is free; the last strong count deletes the reference with its
death registration and a notice that is still queued; a second registration on
a reference is refused; registering on a node that is dead queues the notice at
once, ahead of other work; a reply with a handle the driver does not know fails.

`svcinfo` structs are never freed, so a name stands for its `svcinfo` and the
death cookie is a name. The list is a sequence of names, head first. A call that
does not decode, has the wrong interface name or an unknown code is `bad`. `List`
puts a name into the reply of `binder_parse`, whose 240 bytes of data hold the
length and 117 characters: of a longer name the caller gets the length alone
(`cut`), which `BinderIo` looks at from the reader's side.
Permission hooks always agree in this code and have no branch.

`Registry` is the same service without handles, counts, lists and queues. A
registration takes effect in one step, a lookup answers with what is registered
at that moment (or with nothing, for a restricted process), a name is emptied
only after its owner's exit, and with fairness every call is answered and every
dead object disappears. `ImplementsRegistry` maps `table[n]` to the object behind
`si_handle[n]`. It holds while an object is published under one name. Under two
names the driver refuses the second death registration, so only one of the names
is cleared when the object dies, and the notice carries the cookie of the first
name even when that name has moved on to another object. The configuration for
the refinement therefore publishes each object under one accepted name, as
`test_server.c` does; the reference counts are checked, and proved, with any
publications.

### BinderPool

Threads have a `pc` along `binder_loop`/`binder_thread_loop` and `binder_parse`.
Announcing a thread (`Register`) and its first read (`Enter`) are two ioctls and two
steps. A read ends with `BR_SPAWN_LOOPER` in front when no other thread waits, no
thread was asked for and the maximum is not reached (`WantsThread`, the driver's
rule). `Spawn` starts a thread with the address of `btd` in the frame of the
running `binder_parse`; `Return` makes such descriptors stale. `SpawnFails` is
`pthread_create` failing, which the code ignores. A thread that starts with a
stale descriptor may find the old contents (`Start`) or crash the process
(`StartGarbage`); after a crash the driver answers what is queued or being
handled with `BR_DEAD_REPLY`. `cnt++` is a load and a store, the return value
another load: the program is compiled without optimisation and without locks.
`bad` is any request a handler answers with -1, whose status code the client
reads like a result.

### BinderIo

Sizes are bytes, with the 32-bit layout of the build (`BINDER_IPC_32BIT`): a word
is 4 bytes, an object 16, an offset 4. Arithmetic on sizes is modulo `WordMod`,
which stands for 2^32; TLC uses 65536, far above the sizes of the messages, the
proof any multiple of 8 that exceeds them. Memory is a set of typed cells, so a
read at another place or of another kind gives junk. A null or huge string is
its sentinel length alone; on the reading side the size wraps to 0 and a
non-null pointer with length 2^32-1 results, which `Expected` records. Handle 0
put by `bio_put_ref` has no offset and is not read back; `RoundTrip` leaves
messages with it out, and `TruncationNoticed` shows that the reader's flag goes
up for it.

### HelloClients

What `BinderPool` and `ServiceManager` look at from inside is one step here: a
server runs a call at once, the manager's table changes at once, except that the
names of a dead server go one by one (`Forget`), as each has a notice of its own
and clients look up in between. The clients are
the subject. The C client keeps its own handles, and every driver command of
`svcmgr_lookup` and `main` is a step: the reply's buffer holds a count until
`binder_done`, `binder_acquire` takes one of the client's own, and the driver
gives out the lowest free descriptor, so a count dropped early would give the
number of goodbye to hello. A goodbye service that was not found leaves handle 0,
and the call goes to the service manager, which refuses it. C++ and Java leave
handles to libbinder.

A message is a code and a parcel of items (the strict mode policy, the Java
descriptor, the name). The codes are those of the three sources: Java counts from
`FIRST_CALL_TRANSACTION`, so its code 1 is `sayhello_to` to a C or C++ server,
which reads the descriptor as the name. Each handler and each way to read a
reply is an operator of its own; `CRead` takes a status for a result as
`test_client.c` does, `BpRead` reads 0 from an empty reply, `ProxyRead` throws.

### LightsHal

A `set_light` call takes `g_lock`, stores its state and has then a fixed list of
writes (`writes`), each a step that succeeds or fails. The LED class attributes
are external: choosing a trigger resets the delays, delay files exist only under
the timer trigger, brightness 0 removes the trigger. `missed` is a history
variable, the LEDs that a write of the last update missed. `pthread_once` and
`pthread_mutex_init` are steps, the latter frees the lock whoever holds it.
Colors are whole numbers, alpha included. `malloc` in `open_lights` is taken to
succeed: its result is written to without a test.

### LightDemo

Extends `LightsHal`. The app's main thread, the user and two framework threads
interleave with the steps of the HAL. A click toggles `flashing` of its activity
and posts the runnable; all delays are equal, so they run in order and each
reads the field when it runs. The system may destroy the activity and create
another with the state of the views (`Recreate`), the user may leave and come
back (`Reopen`), the process may be killed, and the activity then be started
afresh or with the state it had saved (`KilledAndReopened`). A saved bar is put
back after `onCreate` has set the listener, which runs if that is a move
(`OnRestore`). The conversions between 0-100 and 0-255 are computed. Nobody but the
bar's listener writes `SCREEN_BRIGHTNESS`: `OnlyUserDims` is about this app, on a
board where the system's own settings are left alone.

The framework is external. The screen goes off and on (`ToggleScreen`), by the
timeout or the power button, whatever the HAL is doing; the user's touches need it
on. A thread sets a light whenever what it should show has changed (`Wanted`): with
the screen on the backlight gets the brightness and the notification light is
off; with the screen off the backlight gets 0 and the notification light blinks
if the notification is posted. That the LED needs a blank screen is what the
comment at `MainActivity.java:51` is about, which asks for a screen timeout of
15 s for a light that comes after 20 s. `LightsSettle` is stated for both.

### Epoll, Inotify, SocketPair

`Epoll`: files are opened and added one by one while others write, a wait
returns up to `EPOLL_MAX_EVENTS` ready descriptors in the kernel's round-robin
order, and each event is followed by a read that blocks. A name that cannot be
polled is skipped, as main does. A read that fills `buf` puts its terminator
behind the array; what follows is not modelled and `DataPrinted` leaves it out.
`Inotify`: sizes are bytes; events have names padded to 16 or 256 bytes or none,
a read takes as many whole events as fit in 512 bytes, and the parser moves
`res` and `event_pos` as the code does. The kernel's queue may overflow and the
directory may be removed. What the two need of sequences, the elements left by a
filter (`Without`) and the bytes of a series of events (`Bytes`), are recursive
functions, so that the proofs can speak of them. `SocketPair`: both ends, step
by step, with `cnt` modulo `CntMod` for 2^32.

### LedsClass, LedChain

`LedsClass`: the loop of `leds_init` with the failing registration, turn by turn,
`leds_exit`, and brightness changes in between. `LedChain`: one call of `ledCtrl`
passes app, service, native code and kernel in one step, since the app waits for
it; `leds_ops` is the set of entries the driver fills in.

### MessageApp

The monitor of the thread object, its wait set, the loopers and the two queues.
`wait()` may return without a notification (`WakeUp`). `HandlerThread` is
external and appears with the two states its users see. A click is two steps: it is
counted and a message sent to the first loop (`OnClick`), then a runnable is posted
to the other (`Post`), with both loops running in between.

## 3. Runs

| Run | Bounds | Checks |
|---|---|---|
| `services_compete` | 3 processes (2 mortal), 2 objects, names of length 5, 0 and 128, list indexes 0-1 | `TypeOK`, `EveryServiceWatched`, `ImplementsRegistry` with its liveness |
| `services_aliased` | 3 objects, 2 names, shared both ways | `RefsMatchHolders`, `PassMissesNone` |
| `services_isolated` | one name, two publishers with different flags, an isolated client | `IsolationRespected`: violated |
| `pool` | a client with 2 calls and one with 1, main and 2 pool threads | `TypeOK`, `PoolWithinBounds`, `CallsPlaced`, `CountsPlausible`, `CountsGrow`, `CallsEnd` |
| `pool_descriptor` | 2 clients with 1 call, main and 2 pool threads | `DescriptorAlive`: violated |
| `io_codec` | messages of up to 5 of 8 values, 256 bytes, 4 offsets | `TypeOK`, `CursorsInBounds`, `RoundTrip`, `TruncationNoticed` |
| `hello_clients` | a client of any language and arguments and a Java client, servers of 2 of the 3 languages, names "Bob" and the Java descriptor | `TypeOK`, `HandlesHeld`, `Interchangeable`, `CountsGenuine`, `ClientsExit` |
| `lights_safety` | 2 threads with 2 calls, 3 states, 1 failing write | `TypeOK`, `LockGuardsUpdate`, `SharedLightShown` |
| `light_demo` | 2 clicks, 1 move of the bar, 1 restart, 2 changes of the screen, 5 calls of the HAL, 1 failing write | `LightFollowsButton`, `OnlyUserDims`, `LightsSettle`, `CallsReturn` |
| `demos` | message app: 4 clicks, 2 early wake-ups; epoll: 4 files, 2 events a wait, 2 bytes a file; inotify: 2 names, queue of 3, 5 changes; `cnt` modulo 4; 4 LEDs, 2 failing registrations | `TypeOK` (message app), `HandlersBound`, `MessagesInOrder`, `AppStarts`, `ClicksHandled`; `ReadNeverBlocks`, `DataPrinted`; `CursorOnEvent`, `PrintedInOrder`, `ChangesPrinted`; `InStep`, `TalkGoesOn`; `FreedEmpty` |
| `leds_class` | 4 LEDs, 1 failing registration | `RegisteredAlive`: violated |
| `led_chain` | 4 LEDs, 2 calls that throw | `LedsFollowBoxes`: violated |

The five programs of `demos` share nothing; `MCDemos` picks one in the initial
state, so the run is the union of five small state spaces.

Why the bounds are enough for the cases that matter: two mortal servers are what
an override, a late notice and a reused handle need; nothing bounds how often
they call, so the manager's runs cover sequences of any length. Two clients and
two pool threads give every pair of racing handlers, a spawn during a spawn, and
a pool at its maximum; a second call of one client shows what a call leaves
behind. Five values fill the reply buffer exactly, overfill it by
one character, and use more than the four offsets. Two servers are what a
replacement during a client's lookups needs, and the second client keeps their
counters from starting at 0; the name that equals the descriptor is the one
case in which a C or C++ message passes the Java check. Two threads and one failed
write produce every mixture of an interrupted update and a later one. Two
clicks with a restart in between leave runnables of both activities in the queue,
two changes of the screen let it go off before, during or after an update and come
back, and brightness 128 and position 1 do not survive the rounding. Three ready
files against two events a wait, and three queued events against a buffer that
holds one long name and a few short ones, exercise the leftovers. The symmetry of
`lights_safety` (threads) is sound since nothing distinguishes them and its
properties are invariants; no other run uses symmetry.

The four violations:

* `services_isolated`. A name registered with `allow_isolated` and taken over by
  a service without it keeps the old flag (`service_manager.c:186` sets only the
  handle), so `do_find_service` hands the new service to an isolated process, in
  spite of the comment at `service_manager.c:147`.
* `pool_descriptor`. `binder_parse` hands a new thread the address of a local
  (`binder.c:294-297`) and may return before the thread reads it, although
  `README.md:26` announces support for several threads.
* `leds_class`. When a registration fails, `leds_init` frees the array
  (`leds_4412.c:86`) and stays in its loop, which registers freed memory from
  index 0 on, against its comments at `:56` and `:77`. Up to that moment the undo
  is right, which `FreedEmpty` of `demos` shows.
* `led_chain`. `leds_ops` (`leds_tiny4412.c:51`) has no ioctl entry, so the ioctl
  of `ledctrl` fails, its result is dropped, and the LED stays as it was, while
  `README.md:3` says that the app switches the LEDs.

### Fairness

`ServiceManager`: weak fairness of the manager's loop, which never blocks except
for work, and of the driver's deferred clean-up. Callers are not forced to do
anything. `BinderPool`: weak fairness of every server thread, of a client that
has its answer, and of the driver's clean-up. The choice between `Spawn` and
`SpawnFails`, `Start` and `StartGarbage` is free. `LightsHal`: weak fairness of a
thread inside the HAL; with a bounded number of calls an unfair mutex cannot
starve anyone for ever. `MessageApp`: weak fairness of the threads and loops, and
early wake-ups bounded in number; clicks are never forced. `HelloClients`: weak
fairness of every client until it exits, of the answer to a call (by a server
that is up, the manager, or the driver for a dead one), and of a server between
its two publications; no server has to start, to exit or to be forgotten by the
manager. `LightDemo`: weak fairness of the framework's threads; the user and the
screen are free, and so is the runnable, whose delay counts the time the board is
awake: with a blank screen it may sleep. In `demos` each program's threads run on,
while clicks, writers, users of the directory and whoever loads the driver are
free. `DataPrinted`, `ChangesPrinted` and `TalkGoesOn` need no more: the kernel's
ready list and queues are in the model.

## 4. Proofs

All are for arbitrary constants, under the assumptions named in the modules; TLC
evaluates those on every run. "Extra" is what a theorem assumes beyond them.

| Theorem | States | Extra |
|---|---|---|
| `ServiceManagerProofs!TypeCorrect` | `Spec => []TypeOK` | |
| `ServiceManagerProofs!ReferencesBalanced` | `Spec => []RefsMatchHolders` | |
| `RegistryProofs!ListNeverShrinks` | `Spec => PassMissesNone` | |
| `RegistryProofs!ServicesWatched` | `Spec => []EveryServiceWatched` | `OneName` |
| `RegistryProofs!StepsOfRegistry` | `Spec => Abs!Init /\ [][Abs!Next]_Abs!vars` | `OneName` |
| `BinderPoolProofs!PoolTypes` | `Spec => []TypeOK` | |
| `BinderPoolProofs!CallsKeepPlace` | `Spec => []CallsPlaced` | |
| `BinderPoolProofs!PoolBounded` | `Spec => []PoolWithinBounds` | |
| `BinderPoolProofs!LoneCountsGrow` | `Spec => CountsGrow` | one service |
| `BinderPoolProofs!CountsArePlausible` | `Spec => []CountsPlausible` | |
| `BinderIoProofs!IoTypes` | `Spec => []TypeOK` | |
| `BinderIoProofs!CursorsStayInBounds` | `Spec => [](TypeOK /\ CursorsInBounds)` | |
| `BinderIoProofs!RoundTripHolds` | `Spec => []RoundTrip` | |
| `BinderIoProofs!TruncationIsNoticed` | `Spec => []TruncationNoticed` | |
| `HelloClientsProofs!ClientTypes` | `Spec => []TypeOK` | |
| `HelloClientsProofs!HandlesAreHeld` | `Spec => []HandlesHeld` | |
| `HelloClientsProofs!CountsAreGenuine` | `Spec => []CountsGenuine` | |
| `HelloClientsProofs!MixesUnderstand` | `Spec => []Interchangeable` | |
| `LightsHalProofs!HalTyped` | `Spec => []TypeOK` | |
| `LightsHalProofs!UpdatesExclusive` | `Spec => []LockGuardsUpdate` | |
| `LightsHalProofs!LightShown` | `Spec => []SharedLightShown` | |
| `LightsHalProofs!BacklightInRange` | brightness in 0..255, value written in 0..127 | |
| `LightDemoProofs!ButtonFollowed` | `DemoSpec => []LightFollowsButton` | |
| `LightDemoProofs!OnlyDragsDim` | `DemoSpec => OnlyUserDims` | |
| `LightDemoProofs!HalUnderDemo` | `DemoSpec => [](LockGuardsUpdate /\ SharedLightShown)` | |
| `LightDemoProofs!DemoShownAtRest` | `DemoSpec => []RestShows` | |
| `DemosProofs!AppTypes` | `Spec => []TypeOK` (message app) | |
| `DemosProofs!LoopersReady` | `Spec => []HandlersBound` | |
| `DemosProofs!ClicksInOrder` | `Spec => []MessagesInOrder` | |
| `DemosProofs!ExchangeInStep` | `SocketSpec => []InStep` | |
| `DemosProofs!FreedListEmpty` | `LedsSpec => FreedEmpty` | |
| `DemosProofs!EpollReadsNeverBlock` | `EpollSpec => []ReadNeverBlocks` | |
| `DemosProofs!EpollForgetsNothing` | `EpollSpec => []WaitSeesAll` | |
| `DemosProofs!InotifyCursor` | `InotifySpec => []CursorOnEvent` | |
| `DemosProofs!InotifyOrder` | `InotifySpec => []PrintedInOrder` | |

The assumptions in the modules say that the sets that are counted are finite,
that constants have their types, that the special values are not members of
the sets they stand beside, that there is one thread more than `MaxThreads`,
and that `WordMod` is a multiple of 8 above `8 * MaxData`. The bounds of the runs
(`MaxCalls`, `MaxFailures`, `MaxClicks`, ...) are any natural numbers. Those of
`Inotify` say that every event has a header, that a name is not empty and that
any one event fits into the buffer, without which `read` would fail.

### Service manager

`TypeCorrect` needs more than types: that the manager's current caller is in a
call, that a registration under way has its handle both in the buffer and in the
`svcinfo`, and that a reply with a reference has one (`CallsInProgress`).
`ReferencesBalanced` adds that a name without a `svcinfo` has no handle
(`Unlisted`). The argument counts holders: changing one entry of a finite
function moves one count from the old value to the new (`CountUpdate`); an
override releases exactly the count the replaced entry held, and the count the
new entry still lacks is the one `binder_acquire` adds (`Unacquired`), during
which time the message buffer keeps the object alive.

`ListNeverShrinks`: the list only grows at its head, so an index a client has
read past never comes to mean a service it has not seen.

`ServicesWatched` is about the death registration, which belongs to a reference,
not to a `svcinfo`. The invariant `WatchInv` adds to the counts that an object has
one reference, that what is in a buffer, a `svcinfo` or a death cookie was
published under that name (`Refs`), that a notice is queued exactly while its
registration stands and the process has been cleaned up after, behind that
process's last call (`QueueOK`), and that calls are queued or being handled
(`Waiting`). The order in the queue is what the proof turns on: an override
releases the last count of the old handle, and a notice that is still queued for
it must go with it; a call of a process that has exited since is handled before
the notices of its services; and a registration made after its process has been
cleaned up queues its notice at once. `OneName` (no object is published under two
names that `do_add_service` accepts) is necessary: with two, the driver refuses
the second registration.

`StepsOfRegistry` is the safety half of `ImplementsRegistry`, step by step: a
registration takes effect where `do_add_service` assigns the handle, an answer
where `binder_send_reply` is called, an expiry where `svcinfo_death` clears the
handle, and every other command changes nothing the table shows. It adds to
`WatchInv` that the reply about to be sent is still what the table says
(`Replying`), true since one thread runs the handler and the reply. Fairness and
`ENABLED` of the abstract specification stay with TLC.

### Thread pool

`PlaceInv`: every waiting call is in one place of the queue or with one thread,
and a thread has a call exactly where its place in `binder_parse` says so; a
thread that has `BR_SPAWN_LOOPER` in front of a call has both. `PoolInv`: the
driver's count is the number of threads that have read once, and at most one
thread is on its way (a spawn, a thread that starts or one that registers), in
which time `requested` is 1; so a read asks for another thread only when the last
one has arrived. A spawn that fails leaves `requested` at 1 for good, which the
invariant allows and the bound includes.

`CountsArePlausible`: an increment may be lost, but never to 0, since a counter
that has been stored is positive (`NoZeroCounts`), and no count exceeds the
number of calls made. For the upper bound the calls made are a set of pairs of a
client and a number (`Made`), so that nothing has to be summed. A call is
counted once a thread has stored for it (`CountedCalls`), and `CountedInv` says
that every counter, and every value that a thread has loaded and not yet stored
or replied, is at most the number of calls counted. A store adds one to a value
that cannot have included its own call, and moves exactly that call into the
set; what others had loaded stays below the larger bound. `LoneCountsGrow`:
while only one client has ever called (`Alone`), no thread holds a value that
another will overwrite, and the counter stays ahead of the last result
(`GrowInv`). The condition is one service, as each has a counter of its own:
after three calls of hello the first count of goodbye is 1.

### Codec

`CursorsStayInBounds`: every put moves space from free to used and keeps the
offsets below the end (`Grows`), every get keeps the end of the reader in place
or lowers it (`Reads`), for any size at all, wrapped ones included. The invariant
adds that before the message is sent the reader has nothing.

`RoundTripHolds` and `TruncationIsNoticed` rest on one invariant, `LayoutInv`:
there is a number g and there are places p such that the first g items stand
whole at p(1), p(2), ..., one right behind the other (`Whole`: the cells of the
item, and for an object its offset), and item g + 1, if there is one, is torn
(`Torn`: the buffer ended before its word, its characters, or its offset, or it
is a reference to handle 0, which gets no offset). The reader is at the place of
the item it reads next, and what it has got so far is what was put, or its flag
is up (`ReadUpTo`). Both theorems are false as inductive statements, for they
say nothing of what lies ahead of the reader. Stating the layout with an
existential instead of computing it by a fold is what makes a proof possible: a
put extends p by one place, a get moves the reader from one place to the next,
and no induction over the message is left. `MemOK` (no cell beyond the cursor,
and one cell for a place and kind) gives that a read finds the cell of its own
item. In a message that `binder_call` lets through the writer's flag is down, so
nothing is torn.

### Hello clients

`ClientsInv` states what a client has gone through by operators on its own values
(`Handles`, `Called`), so that steps of other clients and of servers leave it alone.
`Handles` gives the references of a C client exactly: goodbye, looked up first,
has descriptor 1 if it was found, hello the next, each with the counts its place
between lookup and release implies, and every other descriptor is free. That is
why the driver's lowest free descriptor is never one that a handle still names.
`Called` says what an answer can be: none from a dead server, a refusal of the
manager, or what the handler of the server's language makes of the request.
`CountsAreGenuine` and `MixesUnderstand` then go through the languages of client and
server case by case (`ResultFacts`, `Understood`). `ClientTypes` needs that a
counter has counted no more calls than there are clients past theirs
(`CountInv`).

### Lights HAL and light demo

`UpdatesExclusive`: no thread comes to the lock before the initialisation is
over, for it needs a device that an open has returned; and only one thread ever
initialises (`LockInv`).

`LightShown`: `ShowInv` says where an update is. What is left of a thread's writes
is the rest of the plan for the state that the globals ask for (`Planned`), and
each LED that missed no write is at the stage that the writes done imply
(`Stage`): the trigger, then the delays, which the trigger has reset, then the
brightness that completes the light. A write that fails takes its LED out of the
claim until the next update of the shared LED.

`ButtonFollowed`: the last runnable in the queue is that of the button clicked
last, or the queue is empty and the notification agrees (`ButtonInv`).
`OnlyDragsDim`: of the two roundings at most one loses something, so the bar and
the setting always determine one another one way (`BarInv`); arithmetic over all
256 and 101 values is done by the prover. `HalUnderDemo`: every step of the
composition is a step of the HAL or leaves it alone (`HalStep`), so its theorems
carry over. `DemoShownAtRest` joins the layers: the pushed state is in the
argument, then in the globals or the pending write, then on the board
(`RestInv`). `RestShows` says it for both states of the screen: on, a backlight of
half of the brightness and a dark LED; off, no backlight and a LED that blinks if
and only if the notification is posted. It is the safety half of `LightsSettle`: where the system comes to
rest, the board is right. That it does come to rest stays with TLC.

### Demos

`FreedListEmpty`: what is registered lies below the index on the way up, not
above it on the way back, and not below it in `leds_exit` (`LedsInv`).
`ExchangeInStep`: one token goes round, as a message or in an end that is about to
write, and the counters differ by it (`TokenInv`), for any modulus. `ClicksInOrder`:
a click appends to the one queue and then to the other, which lags by one while
the click is between the two (`Told`), since both handlers are bound before the
first click (`AppInv`), and a dispatch moves the head of the queue to the end of what was
handled (`ConcatAppend`, `DispatchInOrder`). `LoopersReady` needs that `getLooper`
returns only with a looper, which the `while` around `wait()` gives for any
number of early wake-ups.

`EpollReadsNeverBlock`: an event that waits for its turn keeps its data, since only
the loop takes data and the events of one wait are distinct (`EventsInv`), which
in turn needs a ready list that names nothing twice (`ReadyListInv`). The property
is about command lines that name no file twice, and the same file under two
descriptors is the case it must leave out. `EpollForgetsNothing`: every descriptor
with data is on the ready list (`ReadyInv`), so a wait finds it however few events
the last ones returned, and whatever was written before the file was added.
It is the safety half of `DataPrinted`.

`InotifyCursor`: the cursor is at the first byte of event k, and `res` is what the
events from k on take (`CursorInv`). The prefix sums of the sizes grow strictly, so a
place belongs to one event and `EventsFrom` finds it. `InotifyOrder`: what was
printed, the named events behind the cursor and the named events of the queue,
one after the other, are the changes made (`OrderInv`); a read moves a prefix of the
queue to the buffer, a turn of the parser moves an event to what was printed,
and the filter distributes over both (`Without...` lemmas).

Both need to know what a recursive function computes from a sequence of any
length. The library's induction theorems take an operator, which the provers
cannot instantiate; with a set in its place the same is a first-order fact, and
follows from the least number outside that set (`LeastNumber`, `SetInduction`,
`AppendInduction`). `PrefixRecursion` derives from it that a function defined by
recursion over the positions of a sequence exists and obeys its equation.

### Only model-checked

* Liveness, all of it: it rests on fairness and `ENABLED`, which the prover does
  not handle: `CallsEnd`, `ClientsExit`, `LightsSettle`, `CallsReturn`, `AppStarts`,
  `ClicksHandled`, `DataPrinted`, `ChangesPrinted`, `TalkGoesOn`, and the liveness half of
  `ImplementsRegistry`.
* The four violations of section 3, and `LedChain`, whose only property is one.

## 5. Not modelled

* `binder_close` and `binder_become_context_manager`: set-up, no state afterwards.
  `binder_open` appears only as a client's way to exit at once. An ioctl error
  that ends `binder_loop` or `binder_call`; a system without a service manager.
* The texts of names and messages, `str8`, `hexdump` and all logging; the copy of
  a received name into a 512-byte array in the handlers, since the contents of
  names are abstracted away.
* The threads inside the C++ and Java servers: they belong to libbinder. The
  interleaving of unlocked counters is modelled for the C server, whose pool is
  in the repository.
* What else the framework does with lights: other users of the notification LED,
  a dimmed screen before it goes off, an adjustment of the brightness by itself
  (the app switches that off), and writers of `SCREEN_BRIGHTNESS` besides the app.
* `brightness_set_4412` called from the timer trigger at the moment a sysfs write
  calls it: each call is atomic.
* Loading and unloading of `leds_tiny4412.c`, and `ledclose`, which nobody calls;
  `remove_from_epoll` for the same reason.
* The HardControl library: the same three native functions as in the chain, no
  longer called by the app.
* `lights_sony.c`, which is not built, `android_filesystem_config.h`, of which
  only the `AID_*` numbers in `Isolated` matter, `linux/binder.h`, which is the
  kernel's interface, and generated and wrapper files.

## 6. What is left

Every component that carries logic of its own is modelled, and every invariant and
action property of the passing runs is a theorem; of the temporal ones, `DataPrinted`,
`LightsSettle` and `ImplementsRegistry` have their safety halves proved. What could
still be added:

1. `LedChain`: that a LED changes only when its box or the button is clicked, once
   the driver has an ioctl entry and there is something to follow.
2. The timer trigger of the LED class running against a sysfs write, should
   `brightness_set_4412` come to keep state of its own.
3. Liveness as theorems, should the prover learn `ENABLED`.
