# WAPI in TLA+

TLA+ models of the WAPI host runtimes: what the hosts keep, what every call of
a guest or of the operating system does to it, and which properties this
keeps. The modules are translated from the C and JavaScript sources; line
numbers refer to the files of `runtime/desktop/src/` unless another path is
given. `PROJECT.json` maps every definition to the lines it stands for.

Contents: 1 the system, 2 modules and code, 3 runs, 4 bounds, 5 fairness and
deadlock, 6 proofs, 7 where code and documentation disagree, 8 what is not
modelled, 9 plan.

## 1. The system

WAPI is an ABI between WebAssembly modules and hosts. A guest imports
functions (I/O bridge, windows, audio, network, module linking, ...) and
exports `wapi_main` and `wapi_frame`. The repository holds the specification
and headers, a desktop runtime in C over wasmtime, a browser runtime (in-page
shim and a service worker), a CLAP plugin host, an older SDL runtime, and
bindings.

### Inventory

| Component | State | Operations | Talks to | What is hard | Correct when |
|---|---|---|---|---|---|
| Unified event queue (`wapi_host.h:321-332, 580-619`) | ring of 256 events, head, tail, count | push, pop, flush all, flush by type | everything that produces events; `poll`/`wait` | a flush empties and refills the ring; refusal when full | it is a bounded FIFO; a flush keeps the others in order |
| I/O bridge and timers (`wapi_host_io.c`) | timer tables of I/O queues, lazily allocated default queue | submit, cancel, poll, wait, flush, namespaces | event queue, platform wake event, clock | expiry, cancellation, slot reuse and a full queue interleave; blocking | every operation completes exactly once, no timer early, every timer fires, waits end |
| Frame loop and platform pump (`main.c`, `wapi_host_input.c:322-729`, `platform/win32`) | `running`, platform ring of 256 events, modal state | pump, translate, call `wapi_frame`, quit | event queue, window messages | two queues in series that both drop; quit against a polling guest | quit is seen and honoured, order is kept, no key is lost or stuck |
| Handle table (`wapi_host.h:442-486`) | typed entries, roving index | allocate, test, free | every capability | search wraps; handles are reused | an entry in use is never handed out; type tests reject foreign handles |
| Module linking (`wapi_host_module.c`) | slots, reference counts, service registry, function entries | load, join, get_func, call, release | handle table, guest code (re-entrant) | start functions run inside load and join; roll-back | counts equal handles; no instance goes while held; no slot leaks |
| Guest memory: reactor heap (`bindings/c/wapi_reactor.c:130-230`), the page's allocator, `wasm_alloc` and shared pool (`wapi_shim.js`), the desktop's pool (`wapi_host_module.c:104-157, 604-664`) | a bump pointer each, headers or records | alloc, free, realloc | the guest; each other, through `memory.grow` | alignment, growth, headers before aligned blocks, three allocators in one memory | blocks are disjoint; a block keeps its contents, also through realloc |
| Input devices (`wapi_host_input.c`) | device slots and handles, IME buffers, key state | plug, unplug, query, translate | event queue, handle table | a device's handle is freed before its removal is popped | a handle that is given out again is told apart by its session |
| Network: TCP, UDP, TLS (`wapi_host_net.c`, `wapi_host_net_tls.c`) | a socket per handle, TLS context and two buffers | connect, send, receive, close | handle table, I/O bridge | records that arrive in parts or exceed the guest's buffer; roll-back of a connect | bytes arrive in order; the end is told last; nothing leaks |
| Network: QUIC (`wapi_host_net_quic.c`) | session, receive ring, lock, four events | connect, send, receive, close; two callbacks | msquic's threads | blocking waits against callbacks; closing against callbacks; roll-back | a receive ends when the connection does; nothing is used after it is closed |
| Processes and pipes (`wapi_host_process.c`) | process records, pipe handles | spawn, read, write, wait, kill, destroy | handle table | partial failure of spawn; handles referring to each other | failure undoes exactly what was done |
| Audio (`wapi_host_audio.c`, `wapi_plat_win32_audio.c`) | devices, streams, byte rings, one worker thread per device | open, bind, put, get, pause, close | worker threads | rings shared across threads; teardown with a time-out | no ring is used after it is freed; bytes stay in order; a put ends |
| Windows, menus, tray, files (`wapi_host_surface.c`, `_menu.c`, `_tray.c`, `_fs.c`) | handles, token bitmaps, `s_menus`, a tray's inner menu | create, use, destroy | handle table, window system | creation in steps, each of which may fail; two registries of the same menus | each object has one handle, each token one menu |
| Clipboard, storage, environment, dialogs, codecs | little or nothing between calls | one call each | operating system | - | - |
| GPU bridge (`wapi_host_wgpu.c`) | handles, per instance a list of pending callbacks | create, use, release, request, process events | wgpu-native, guest callbacks (re-entrant) | answers that arrive inside another call; callbacks that call the host; a full table | every object has one handle; every request is answered once |
| Fonts, text | handles over platform fonts | marshalling | platform | data translation, no protocol of its own | (not in reach of a model checker) |
| CLAP plugin host (`runtime/plugin`) | one wasm instance, parameter values and change flags, buffers | activate, process, parameter set, state | audio thread and main thread | (does not build, see section 8) | - |
| Browser service worker (`runtime/browser/sw.js`) | module cache in IndexedDB, services it hosts, announced rows | fetch, join, release, announce, clear | pages | every `await` is an interleaving point; worker restarts lose the maps | the maps agree with each other; a held handle leads to a service |
| Browser in-page shim (`runtime/browser/wapi_shim.js:600-830, 5680-6030`) | module cache and hosted services of the page | join, prefetch, release, heartbeat | worker, by messages that may be lost | a join that waits for a fetch; time-outs against late replies | counts equal handles; joins are settled; the worker knows who hosts what |
| The page's operations (`wapi_shim.js:1788-2120`, 9500-11125, 11555-11640, polled imports 5380-8720) | operations under way, handles, received bytes, dropped items, states of polled requests | submit, cancel, poll, flush, close; ask again | the browser's promises, timers, sockets and listeners | cancellation against late answers; rejections nobody hears; two requests at one key; drops that overlap | an operation ends once; everyone who waits is answered, and with what was asked for |
| Rest of the shim, service host, popup; SDL runtime; headers and bindings | the same ABI again | - | - | - | - |

The components interact in three ways only: calls of the guest (atomic for the
guest, since the desktop host runs on one thread, but re-entrant where the host
calls guest code), the event queue (all asynchronous results), and the handle
table (all resources). Threads other than the main one exist in audio, QUIC and
CLAP. The hazards each component is exposed to are listed, with their source
lines and the properties that cover them, under `hazards` in `PROJECT.json`.

## 2. Modules and code

```
BoundedFifo ----+-- EventFifo     what the queue promises
                |     ^ implemented by
                +-- EventQueue    the ring                ---- EventQueue_proofs
                +-- IoBridge      submit .. flush, timers ---- IoBridge_proofs
                +-- PlatformInput platform ring and state
                      |
HandleTable ----+-- FrameLoop     pump, translate, frames ---- FrameLoop_proofs
                |                 (over both)
                +-- ModuleLink    load .. release         ---- ModuleLink_proofs
                +-- OsObjects     objects behind handles
                      +-- Processes, Connections, Desktop, GpuBridge
                            +-- HostResources  (all four over one table)
                                               ---- HostResources_proofs
                                                    HostObjects_proofs
AudioDevice         guest thread and worker thread    ---- AudioDevice_proofs
                    over byte rings
ServiceWorker ----- PageServices  (pages, messages and worker together)
PageIo ------------ PageAsks      (operations and polled imports of a page)
                      \-- Browser  (PageServices, PageAsks and GuestMemory)
                                               ---- Browser_proofs
GuestMemory         the allocators of a page's guest
```

Each `MC...` module and its `.cfg` instantiate the module they name.

**BoundedFifo.** What one call on the queue does to the sequence of queued
events: `Offer` refuses the newest event when the queue is full; `IsSelection`
is the effect of a flush. A flush is stated by its defining property, without
recursion, so that it can be proved about.

**EventFifo / EventQueue.** `EventFifo` is the abstract queue: its state is the
sequence of events and what the last call returned. `EventQueue` is the code's
ring: `events`, `head`, `tail`, `count` are the fields of `wapi_event_queue_t`,
and there is one action per outcome of push, pop and flush.
`FlushType` follows the code: the ring is drained into a local array, which
leaves `head` at `tail`, and the survivors are pushed again from there.
`EventQueue` refines `EventFifo` with `contents <- Contents` (the slots from
`head`, `count` of them) and the results of the calls unchanged, so the
refinement also says that every return value is right.

**IoBridge.** The imports of `wapi_io_bridge`. The host is single-threaded, but
a call takes time: input arrives and the clock advances while it runs. A call
is therefore several steps, split where the code loops or reads the clock:

| Code | Actions |
|---|---|
| `cb_submit` (802), `dispatch` (612) | `Submit(n)`, then per operation `OpSync`, `OpLog`, `OpTimeout`, `OpTimeoutAbs`, or `ReadOpFails` |
| `op_timeout`, `op_timeout_abs` (377-409) | `TimerRefused`, `TimerArmed` |
| `push_completion_event` (312) | `Complete`, a part of every action that completes an operation |
| `cb_cancel` (822), `cb_flush` (900) | `CancelFound`, `CancelNotFound`, `FlushAll`, `FlushKind` |
| `cb_poll` (848), `cb_wait` (868) | `Poll`, `Wait(t)`; `PumpOne`, `PumpDone`; `CheckSlot`, `CheckDone`; `PopEvent`, `PopNothing`; `Unblock` |
| the frame loop's own pump (`main.c:326`) | `FrameReturns` |
| operating system | `InputArrives`, `Tick` |

`timers` is `timeouts[0 .. timeout_count-1]`, so its length is the code's
high-water mark; `wake` is the auto-reset event of the Win32 platform. A
synchronous operation (file read, HTTP request, codec, ...) runs to completion
inside `dispatch`; its effect on this state is one completion, and its result is
abstracted to `DONE`. `delivered`, `lost`, `flushed`, `silent` and the operation
numbers are history; no guard reads them.

**HandleTable / ModuleLink.** `HandleTable` is the table of typed entries with
its roving index. `ModuleLink` extends it with the module slots, the service
registry and a stack of host calls that are waiting for guest code: a start
function runs inside `instantiate_from_cache` (line 248) and an exported
function inside `cb_call` (505), and both may call the host again. Each action
is the part of a host call between two such points:

| Code | Actions |
|---|---|
| `instantiate_from_cache` up to and at the start function (202-256) | `BeginInstance`, `StartTraps` |
| `cb_load` (298) | `LoadBegin`, `LoadEnd` (with and without a free handle) |
| `cb_join` (330) | `JoinBegin`, `JoinEnd`, `JoinNoEntry`, `JoinEndNoHandle`; `JoinAttach`, `JoinAttachNoHandle` |
| `cb_get_func` (411), `cb_call` (465), `cb_release` (577) | `GetFunc`; `Call`, `CallReturns`; `ReleaseOne`, `ReleaseLast` |
| handles of other capabilities | `OtherAlloc`, `OtherFree` |

`refcount` becomes 1 only when the start function has returned, as in the code:
while a module is being built its slot is in use with a count of 0. A call that
fails before it has changed anything is no step. The model keeps one function
handle (`fn`), chosen freely among all that were ever returned; that is enough
to state what a stale one does.

**PlatformInput.** What the Win32 platform keeps of keys, buttons, fingers, the
composition and the controllers, and its ring of events. Each operator is the
window procedure on one message, or one controller's turn in a poll:

| Code | Operators |
|---|---|
| `ev_push`, `ev_pop` (`platform/win32/wapi_plat_win32.c:302-332`) | `Emit`, `Event` |
| keys and mouse buttons, `WM_KILLFOCUS` (which releases everything) | `KeyMessage`, `ButtonMessage`, `KillFocus` |
| `WM_TOUCH`, `WM_CHAR`, `WM_SIZE`, the rest | `TouchMessage` (`TouchDown`, `TouchUp`), `CharMessage`, `Size`, `PlainMessage` |
| `WM_IME_*` | `ImeStart`, `ImeComposition`, `ImeEnd` (`Abandoned`) |
| `WM_QUIT`; `wapi_plat_win32_gamepad.c` | `QuitMessage`; `PollPad` |

**FrameLoop.** The host's one thread, over `PlatformInput`, the event queue and
the handle table. The pump (`wapi_host_input.c:715-729`) runs inside a poll of
the guest (`from = "main"` or `"frame"`) or before a frame (`"loop"`); it is
split where input may arrive in between.

| Code | Actions |
|---|---|
| the pump | `StartPump`, `PollPads`, `TakeMessage`, `TakeBatch`, `Translate` |
| the translator's device part (605-635) | `HandleForPad`, `FreePad`, `Ends`, parts of `Translate` |
| `wapi_main`, the frame loop, shutdown (`main.c:295-358`) | `MainReturns`, `LoopTest`, `FrameBegins`, `FrameReturns`, `Exit`, `Stopped` |
| the guest | `Poll`, `PollReturns`, `RequestPad` (89-119), `ResizeCall` |

`view` is what a guest believes that applies the events it popped one by one:
the keys and fingers that are down, the pads that are plugged, the text. The
properties relate it to what is true. `gen` counts the sessions of a slot; the
code's `s_gen`, a byte, is `Uid(gen[p])`.

**AudioDevice.** One endpoint, the guest's streams and the worker thread. The
code's contract (comments at 47-51 and 134-139 of
`platform/win32/wapi_plat_win32_audio.c`) is a lock-free ring with one producer
and one consumer, and a list of streams copied under a lock. Every access is two
steps: the bytes, then the counter.

| Code | Actions |
|---|---|
| guest: `wapi_plat_audio_resume_device`, `_pause_device`, `_close_device` | `Resume`, `Pause`, `CloseDevice`, `CloseNext`, `CloseDone` |
| create and destroy a stream; bind, unbind (777-865) | `CreateStream`, `DestroyStream`; `BindCall`, `BindFirst`, `BindMore`, `BindFails`; `UnbindCall`, `Unbind` |
| `device_teardown_worker` | `WorkerEnded`, `WaitTimedOut` |
| put (860-890), get | `PutCall`, `PutBlock`, `PutPublish`; `GetCall`, `GetAdvance` |
| worker, playback | `Wake`, `Read`, `ReadAdvance`, `Mixed` |
| worker, capture (500-520) | `WakePacket`, `NoPacket`, `MakeRoom`, `DropAdvance`, `WritePacket`, `WritePublish`, `PacketDone` |
| worker ends; a dangling ring is freed | `Stop`; `Freed` |
| WASAPI | `Endpoint` |

**OsObjects and the four modules over it.** `OsObjects` keeps which objects of
the operating system are open, the handles over them, and the host call the
guest's thread is in. Closing an object twice, or using one that is closed, sets
`misused`. `HostResources` puts all four modules over one handle table.

| Module and code | Actions |
|---|---|
| `Processes` (`wapi_host_process.c`): create, step by step | `CreateCall`, `SetUp`, `Spawn`, `SpawnFails`, `Wrap`, `EnterProcess`, `NoEntry` |
| pipes, wait, kill, destroy | `PipeCall`, `PipeReturns`, `PipeClose`, `WaitCall`, `WaitReturns`, `Kill`, `Destroy`; `ChildStep` |
| `Connections`: connect (`wapi_host_net.c:932-1050`) | `ConnectCall`, `OpenSocket`, `Handshake`, `EnterConn`; `QuicOpen`, `QuicConnected`, `QuicReady`, `FreeSession` |
| receive (1087-1118) | `RecvCall`; `TcpRecv`; `TlsRecv` with `Decrypt` and `Spill`; `QuicRecv`, `QuicWait` |
| send, close | `QuicSendCall`, `QuicSent`; `CloseCall`, `CloseStream`, `CloseConn` |
| msquic's callbacks (`wapi_host_net_quic.c`) | `ConnCallback`, `StreamCallback` (`Receive`, `StreamEnds`), `SetRx`; `PeerStep` |
| `Desktop`: window, menu, tray, file, directory | `MakeDesk`, `EnterDesk` (`GiveBack`), `DestroyDesk`, `SetTrayMenu` |
| `GpuBridge` (`wapi_host_wgpu.c`): 15 creations, use, release | `CreateInstance`, `CreateChild`, `EnterGpu`, `UseGpu`, `ReleaseGpu` |
| requests and their callbacks (150-170, 420-480) | `RequestAdapter`, `RequestDevice`, `Answer`, `RequestReturns`; `ProcessEvents`, `NativeDone`, `Dispatch`, `CallbackReturns` |

A QUIC callback that sets an event after it has left the lock is two steps
(`StreamCallback`, `SetRx`), since the receiving thread may look in between.

**ServiceWorker / PageServices.** `ServiceWorker` is the extension's worker: one
step of a call is the code from one `await` to the next, so that handlers
interleave exactly where JavaScript lets them. `PageServices` composes it with
pages, the messages in flight and the browser's fetches.

| Code | Actions |
|---|---|
| worker: cache (`sw.js:90-195`) | `CacheFetch`; `StoreLook`, `StorePut`; `ClearCall`, `ClearMeta`, `ClearBytes` |
| worker: services (270-400) | `JoinCall`, `JoinBytes`, `JoinFetched`, `JoinCompiled`, `JoinInit`, `JoinFails`; `ReleaseCall` |
| worker: announced rows; the browser stops it | `Announce`, `Withdraw`, `Age`, `Reap`; `Restart` |
| page: join, release, prefetch (`wapi_shim.js:5739-5870`, 5995-6024) | `JoinReady`, `JoinFailed`, `JoinInstantiates`, `JoinPending`, `JoinFetches`, `Prefetch`, `Release` |
| page: a module handle closed as a file (2338-2342) | `ClosesHandle` |
| page: `_wapiFetchAndCompile` and its answer (659-689, 779-819) | `Reply`, `TimesOut`, `Network`, `Compiled` (`Settle`, `Fails`) |
| page: heartbeat, messages, the tab closes | `Beat`, `Receive`, `Close` |

**PageIo / PageAsks / Browser.** The second implementation of the I/O bridge. A
page runs one import, callback or listener to its end, and the browser settles
promises, timers and sockets in between, so a step is one of these. Most of the
shim's more than seventy opcodes have one of a dozen shapes; `Table` says for each which one
(answered at once, by a promise, with several answers, ...), which kind of handle
it needs and which it gives, and there is one action per shape.

| Code (`wapi_shim.js`) | Actions |
|---|---|
| `submit` and the handlers (1806-2085, 9530-11125) | `AtOnce`, `Logs`, `Waits` (TIMEOUT, CONNECT), `Asks`, `Scans`, `Makes`, `Unwatches`, `Takes` (RECV, SERIAL_READ, MIDI_RECV) |
| what the browser calls back | `Fulfilled`, `Rejected`, `PartSettled`, `Continues`; `Expires`; `SocketOpens`, `SocketFails`; `Watched`; `Arrives` |
| `cancel`, `poll`, `flush` (2087-2118) | `Cancel`, `Poll`, `Flush` |
| closing handles, stopping watches | `Removes`, `Stops` |
| the drop listener, `wapi_transfer.revoke` | `Drop`, `FilesLoaded`, `Revoke` |
| polled imports (`asyncOp`, `btTake`, `dlgTake`, `cryptoAsync`, ...) | `Calls` (`OnOpen`, `Starts`, `Again`, `Answered`), `AskSettles`, `Closes` |
| the object of a request leaves the table (2338-2342, 6964-6970 and the like) | `ObjectGoes` |
| wake locks (7591-7613); their handle closed as a file (2338-2342) | `WakeAcquire`, `WakeSettles`, `WakeRelease`; `WakeCloses` |

`late`, `finals`, `said`, `mixed`, `misled` and the number of a request are
history. `Browser` composes the linking of a page, its I/O and the memory of its
guest, and each behaviour does one of the three (`Lives`). They share the thread and
`self.handles`, the page's table of handles. The table has no types where it removes:
`wapi_filesystem.close`, like `wapi_module.release` and a few others, takes out an
entry of any kind and tells nobody. Each part has a step that does so to its own
entries: `Removes` (objects of operations), `ObjectGoes` (of polled requests),
`WakeCloses` (wake locks) and `ClosesHandle` (modules). A part needs no more of the
others than that, since an entry is looked up by its number and its type, and
numbers are not given twice (449-474).

**GuestMemory.** The allocators of a guest in a page: three in the guest's one
linear memory, and the pool between modules. Memory is a function from
addresses to words, so that what a header or a realloc reads is what is there.

| Code | Actions |
|---|---|
| reactor (`bindings/c/wapi_reactor.c:155-224`) | `BumpAlloc`, `BumpRealloc`, `BumpFree`, `BumpRefused` (`memory.grow` fails) |
| page (`wapi_shim.js:1046-1108, 1631-1646, 1760-1774`) | `HostAlloc`, `HostRealloc`, `WasmAlloc` |
| shared pool (`wapi_shim.js:1334-1354, 5934-5954`) | `SharedAlloc`, `SharedFree`, `SharedRealloc` |

`blocks` is history, except that it holds the keys of `_sharedAllocs`: where every
block was put and what its owner wrote. The page's `free` and free list are left
out: nothing is ever put in that list.

Definitions whose comment begins with "Mutant:" are changed forms of the
definition that follows them (a dropped test, a missing roll-back). They are not
used by any specification; `PROJECT.json` names, for each property, the one
with which TLC finds the property violated.

## 3. Runs

| Run | What it shows |
|---|---|
| `event_queue` (`MCEventQueue.cfg`) | the ring implements the FIFO with the same results, flushes by type included (`RefinesFifo`); its three counters agree (`RingOK`) |
| `io_bridge` (`MCIoBridge.cfg`) | every operation has exactly one fate (`EveryOpAccounted`, `CompletesOnce`); no timer is early unless its deadline overflowed (`NeverEarly`); under a polling guest timers fire (`TimerFires`) and calls with a finite time-out return (`CallReturns`) |
| `module_link` (`MCModuleLink.cfg`) | through nested loads, joins, traps, roll-backs and releases: counts equal handles (`RefcountExact`), a handle keeps meaning its instance (`HandlesMeanInstance`), no slot leaks or is taken from a build (`SlotsAccounted`), services are held (`ServicesHeld`), handles in use are not handed out (`HandlesStable`) |
| `frame_loop` (`MCFrameLoop.cfg`) | through two queues that both drop: events keep their order and come once (`EventsInOrder`); a guest that popped everything knows what is held and plugged, except for what an event was dropped of (`GuestCatchesUp`); no preedit text outlives its composition (`CompositionEnds`); controllers and handles agree, and a handle that was given out again is told apart by its session (`ControllersKnown`); after a QUIT at most one more frame begins (`OneFrameAfterQuit`) |
| `audio` (`MCAudioDevice.cfg`) | units come out in the order they went in and none disappears but those that the code throws away by design (`UnitsKept`); a worker runs exactly while streams are bound (`WorkerServesBound`); no ring is used after it was freed and none by two threads on one side, as long as the guest keeps to what the comments require (`SafeUse`); a put to a stream that plays returns (`PutReturns`) |
| `browser` (`MCBrowser.cfg`) | linking: the worker's maps agree with each other and no service stays locked by a join that is gone, a page's counts equal the handles it gave and were not released, and a module is fetched once at a time (`CountsAgree`); a handle leads to the service it was given for until it is released (`HeldIsServed`); a join that was told "again" is answered (`JoinSettles`); what a page hosts is shown after every restart and what no page hosts disappears (`RowsFollow`). Operations: each ends once and cancel finds exactly those it can end (`EndsOnce`); bytes, dropped items, answers and locks go to who they are for (`OwnData`); everything is answered in the end (`AllAnswered`). Memory: no two blocks share a word, and a block keeps what its owner wrote (`BlocksApart`). The exceptions the code makes are named in the properties and listed in section 7 |
| `resources` (`MCHostResources.cfg`) | whichever step of a creation fails, each open object is that of exactly one handle and nothing is closed twice or used when closed; tokens lead to their menus (`ObjectsOwned`); bytes are received in order and the end is told last, over TCP, TLS and QUIC (`ReceivedInOrder`); a WebGPU request is answered once and by its own callback (`RequestsKept`); a blocking call that can be answered returns (`CallReturns`) |
| `io_wait_forever`, `io_wait_timer`, `io_no_space`, `module_one_instance`, `module_stale_fn` | one property each that the documentation states and the code violates; see section 7 |

Each run also checks the type invariant `TypeOK` of its module.

`EveryOpAccounted` includes the set `lost`: a completion that meets a full queue
is dropped, since no caller of `wapi_event_queue_push` looks at its result. The
invariant says that this, a flush and a cancellation are the only ways for an
operation not to be delivered.

## 4. Bounds

* `event_queue`: a ring of 4 slots with 3 events of 2 types. The ring wraps at
  every position, fills, and is flushed with the flushed type first, in the
  middle and last. Nothing in the code depends on the size 256, and the proofs
  cover every size.
* `io_bridge`: a queue of one event, two timer slots and three operations, so
  that the queue refuses a completion and an input event, the table fills, and a
  slot is used again by an operation with the same `user_data`. `MaxBatch` 2
  lets a submit break off half-way; `MaxTime` 1, a short duration and one input
  event give every order of arming, expiry, cancellation and input, and timers
  that are due already (an absolute time of 1 when the clock is 1). `Tick` may
  exceed `MaxTime` only under a wait with a time-out, so that the bound never
  blocks a wait. `ClockRange` stands for 2^64; `Offset` has 15 of 16, so that the
  sum with the clock overflows and the timer fires at once.
* `module_link`: three slots, two service entries, three handles and two
  services, a stack of two host calls and three instances. The handle table and
  the registry fill, a join nests in the same or the other join or in a load,
  handles are used again. `MaxFuncs` 1 makes a table of functions fill. The slot
  pool fills with three instances; slots are used again after any release.
* `frame_loop`: both queues hold two events and a batch is one, so that either
  drops while the other has room, and a round of the pump is taken up again in
  the middle. Two controllers share two free handles (`First` 4, `Fixed` 1,
  `Limit` 6), so that a handle is given out again, to the same and to the other
  controller; one finger place and two contacts make a second touch find no
  place. Three messages (`MaxEvents`) are enough for every pair of press, loss
  and release; four were checked once, with 9 million states. `GenRange` is 2, for
  256: the byte wraps at the second session of a slot. A third session has the uid
  of the first again; that takes five events, and was checked once with one
  controller and no keys, buttons, fingers and texts (3.5 million states). The proof
  covers any number.
* `audio`: a ring that grows from one unit to two when it is bound, three units
  put by calls of at most two, two captured packets, an endpoint of one unit.
  The counters count modulo 4 (`CounterRange`), twice the size of the ring, so
  they wrap. A second stream can be bound, unbound and destroyed beside the
  first.
* `browser`: two services of one module, two pages, two simultaneous calls. Each
  behaviour draws one life. For linking that is one of six budgets, as no two of
  them interact more than pairwise: two fetches; a join beside a fetch; a fetch
  beside a restart; two joins with a tab closed and a restart; two joins with a
  handle closed as a file; three joins of
  services of the worker with a clear and a restart. For I/O it is a plan: every
  opcode once, by the kind of object it needs; two operations together where they
  may meet (a timer and a socket with the same or another `user_data`, watches,
  reads from one stream of three bytes with buffers of one and two); two drops; two
  wake locks; and two or three requests for each polled import, at two keys. A
  third operation meets nothing that two do not: operations share only the queue,
  the table of pending ones and the object they are on. For memory it is three
  calls, of one allocator or of two or three that meet: sizes of 1 and 3 words and
  alignments of 1, 2 and 4, so that there is padding before a header's block and
  none, in four pages of 8 words, so that memory grows and then does not; the page
  begins where the heap does, shortly behind it or far behind.
* `resources`: an entry table of five (4 .. 8), some of which others hold: every
  subset of them, so that each creation finds every number of free entries. A
  behaviour draws either two processes, a connection, three objects of the
  desktop, or up to three WebGPU objects with up to three requests: they share
  the table and nothing else. The QUIC ring and a TLS record are two bytes, a
  receive asks for at most two, the peer sends up to four; so the ring overflows,
  a record is larger than the buffer, and one is cut by the end. A GPU list has
  two places and calls nest two deep.
* Named bounds that are not limits of the code: `MaxBatch`, `MaxOps`, `MaxTime`,
  `MaxInput` (IoBridge), `MaxDepth`, `MaxInst` (ModuleLink), `MaxEvents`
  (FrameLoop), `MaxPut`, `MaxUnits`, `MaxPackets` (AudioDevice), `Budgets`,
  `MaxCalls`, `MaxHandle` (PageServices), `IoPlans`, `MaxCap`, `MaxQueue`, `AskKey`,
  `Lives`, `MemPlans` (Browser; a plan also bounds operations, bytes, drops, requests together
  with closes, and locks), `Starts`, `MaxSent`, `MaxCap`,
  `MaxDepth` (HostResources). All other constants are the code's own limits,
  made small.

No run uses symmetry: most check temporal properties, and the others are small
enough without.

## 5. Fairness and deadlock

`IoBridge`: weak fairness of the host's steps (`HostStep`, `SubmitOp`: the one
thread runs), weak fairness of `Tick` (time passes) and strong fairness of
`Poll`: the guest is an event loop, as the README of the repository shows it,
and polls again and again whatever it calls in between. Nothing is assumed of
the guest otherwise, of input, or of cancellation. `TimerFires` needs the
polling: the code checks timers only inside `poll` and `wait`, never in the frame
loop.

`AudioDevice`: weak fairness of the guest's steps inside a call, of the worker's
steps, and of the endpoint, which plays what it was given while it is started.
When the guest calls is free.

`Browser`: weak fairness of the steps of a page's fetch (a promise settles, a
timer fires), of each page's heartbeat, of the delivery of its messages, of each
handler in the worker and of the ageing of a row. Nothing makes the guest join
again: `JoinSettles` says that again and again no join waits. A restart is never
fair. For I/O: weak fairness of what the browser settles (`Settling`,
`AskSettling`: promises, timers and sockets end, and the user answers what he is
asked), and of the guest asking again (`AskingAgain`), which is what
WAPI_ERR_AGAIN tells it to do. Arrivals, drops and watches need never come.

`HostResources`: weak fairness of the guest's thread inside a call, of a callback
that has begun, and of msquic completing what it accepted. Children and peers
need do nothing: `CallReturns` claims an answer only where one is due.

`EventQueue`, `ModuleLink` and `FrameLoop` have safety properties alone.

Deadlock is checked except in `audio`, where a put into the full ring of a stream
that is not playing sleeps for ever (and the behaviour stops after `broken`), and
in the three I/O runs of section 7, where the guest's thread may sleep for ever
too. Where the system may really come to rest (`FrameLoop` after the exit,
`Browser` and `HostResources` when the budget is used up and no call is
open) a stuttering disjunct says so (`Stopped`, `AtRest`, `Rest`), and any other state
without a step is reported.

## 6. Proofs

`EventQueue_proofs` proves, for every ring size and every set of events,
`TypeCorrect`, `RingCorrect` and `RingRefinesFifo`, from `Size \in Nat \ {0}`.
The inductive invariant is type correctness with the ring invariant (`tail` is
`head + count` modulo the size, and the `count` slots from `head` hold events).
It rests on four lemmas about modular arithmetic in the ring (`ModOnce`,
`ModStep`, `ModShift`, `ModInjective`) and one lemma per operation on what it
does to `Contents`; the refinement is then step by step: a push maps to the
abstract push, a pop to the pop, a flush to the selection.

`ModuleLink_proofs` proves the five invariants of `module_link` and
`HandlesStable` for every size of the tables, every depth of re-entry, every set
of services and any number of instances. `IInv` is the conjunction of
the five: none is inductive alone. That a release at count 1 may free the slot
needs `RefcountExact`; that a nested call cannot free the slot of a build in
progress needs that a build has no references (`SlotsAccounted`); that an attach
finds a live slot needs `ServicesHeld`. The lemmas say what one step of the
handle table does to the set of references to each slot (`GiveHandleRefs`,
`ReleaseRefs`), what entering and leaving a host call do to the set of builds
(`EnterFrames`, `LeaveFrames`), and what the three patterns begin, end and tear
down preserve; `NextInvariant` has one step per action. The assumptions are
`HandleAssumption` and `ModuleAssumption`: the limits are natural numbers and
the markers (`NoKey`, `NoSlot`, `"free"`) are not values they mark.

`IoBridge_proofs` proves `TypeCorrect`, `OperationsAccounted` and
`OperationsCompleteOnce` for every size of the queue and of the timer table, any
number of operations, any set of durations and any interleaving. The inductive
invariant is again the conjunction of the three: a new operation has no other
fate because every number below `nextId` has one and none above
(`EveryOpAccounted`), and a timer that expires or is cancelled leaves the table
because its number is there once (`CompletesOnce`). The proof sees the fates as
six sets. Lemmas say what an offered event, a completion and a flush do to the
operations in the queue (`OfferEvent`, `CompleteEffect`, `SelectionOnce`) and
what arming and disarming do to those in the table (`Arm`, `Disarm`); three lemmas
about sets alone (`FateGiven`, `FateMoved`, `FateTaken`) then preserve the
partition, and there is one step per action. `TimersNeverEarly` proves the action
property `NeverEarly` from type correctness and `Deadlines`: a deadline is no
earlier than the time asked for, unless that is beyond `ClockRange`, and the time
that a scan compares deadlines to has been reached by the clock. The assumptions
are `SizeAssumption` and `IoBridgeAssumption`.

`AudioDevice_proofs` proves the four invariants of `audio` for any number of
streams, every size of ring that divides `CounterRange`, every length of the
device's list and any number of units, with both threads stopping between any two
steps. It comes in three layers. The arithmetic of counters that wrap
(`PlaceShift`: two counters less than a ring apart name different places) is kept
behind operators, so that the rest never divides. `Ring` then describes one
ring by its fields and its history alone: the `n` units between `tail` and `head`
and the `w` units copied in but not yet published are the last ones put, in order,
and of the units before them, with the `a` that were copied out but not yet
advanced past, each was either taken, in order, or dropped; there is a lemma for
each of the six things done to a ring (`RingEmpty`, `RingWrite`, `RingPublish`,
`RingTake`, `RingDrop`, `RingAdvance`). `IInv` says that every stream's ring is
so, with `w` and `a` read off where the two threads stand, and what the threads
rely on: the device's list holds live streams whose rings fit the endpoint, no
stream twice; every stream in the worker's copy of the list is bound, or was left,
or is the one the guest waits with in a teardown; and the two threads are never on
the same side of one ring, which is what lets each advance its counter without a
lock. `UnitsKept` follows from `RingsOK` at any step (`RingMeans`). The assumption is
`AudioAssumption`; that `CounterRange` is a multiple of every ring size is the
`2^32` and the powers of two of the code.

`FrameLoop_proofs` proves the six invariants of `frame_loop`, for every size of
ring, batch, queue and tables and any number of keys, buttons, contacts,
controllers and frames. `Types` is `TypeOK` with the types of the events on the
way. On top of it each property has an inductive invariant of its own:

- `OneFrameAfterQuit`, `QuitInv`: where the QUIT was found decides how many
  frames may still begin.
- `EventsInOrder`, `OrderInv`: ring, batch and queue, concatenated, increase, all
  after what the guest saw and none beyond the last number given.
- `ControllersKnown`, `PadsInv`: a slot and its handle name each other; for every
  slot the attaches and detaches on the way alternate and end with what the
  platform knows, and what was translated is never ahead of the slot's
  generation. The proof needs that nothing about a controller waits outside
  the pump (`Quiet`). It shows that no two announcements are of one session; two
  that share their uid are then `GenRange` sessions apart (`UidRepeats`), for any
  width of the counter.
- `GuestCatchesUp`, `CatchInv`: for every part of the state, what the platform
  knows is what the guest's view becomes once the events on the way are applied:
  the last of them that touches a member decides (`EndsIn`, `Untouched`).
- `CompositionEnds`, `TextInv`: the last word about the composition, wherever
  it is, is about a text that the end of the composition takes back.

Four of the five need of a step only what it does to the events on the way,
`WaySteps`: it pushes some, puts the translation of the oldest in its place, pops
the one the guest reads, or leaves them. What a full ring or queue refuses is a
proper suffix of what was offered (`Offered`), and then the part it was about is
marked in `lost`. There is one lemma per property for what each of those does,
and one per message for what the platform emits. The assumptions are
`InputAssumption`, `LoopAssumption` and `HandleAssumption`.

`HostResources_proofs` proves `TypeOK` and `ReceivedInOrder` of `resources`, for
every size of the table, of the lists and of the QUIC ring, any number of calls,
any peers and children. `Types` adds to `TypeOK` what every reference means: the
call in progress names an entry of the kind it works on and the connection, list
or request that it is about, an entry of the table leads to an object of its kind,
every place of a list to a request and every request to a place. It needs this of
all four parts at once, since they share the table and the call in progress;
there is one lemma per action, and what an action leaves alone is kept by
`ProcessKept`, `ConnKept`, `DeskKept` and `GpuKept`. For `ReceivedInOrder` the
invariant is `AllSound`: what the guest got from a connection and what is still to
come, in wire, record and ring, is together rising, all of it unless the ring
dropped something (`Sound`); there is one lemma for each thing that can be done
to a connection (`Becomes`). The assumptions are those of the five modules.

`HostObjects_proofs` proves `RequestsKept` and `ObjectsOwned`, for every value of
the constants. `RequestsKept` is the other half of what a place of a list of
callbacks is for. The invariant `Kept` goes both ways: a place that is not
empty is that of its request, as far as it is answered (`PlaceKept`), and a request
the guest was not told of has its place, where no callback runs and no other
request waits (`RequestKept`). Each half needs the other: an answer finds its
place through the request, the loop over a list finds the request through the
place, and a callback that returns empties a place that must not have been asked
for again. What is done to a list is one of four things, a request, an answer, the
start of a callback and its end (`Asks`, `Answers`, `Tells`, `Clears`), with one
lemma for each, and `Dispatch` inside `processEvents` and after a callback is one
lemma for both.

`ObjectsOwned` speaks of the time between two calls; its invariant `Owners` has to
say who has what in the middle of one. `Booked` is a ledger: every open object but
the null devices is in the part of exactly one holder, and every part is open. The
holders are the handles, the call in progress, and nobody (inner menus whose
pointer was cut, WebGPU objects without an entry). What the call has follows from
where it is (`InCall`): `create` has the pipe ends of the streams it has been
through, and after the spawn the thread and the host's ends; `connect` has whatever
its roll-back would close from there. The ledger alone is not inductive:

- that what a creation makes is new needs that no other open object has its number
  (`Fresh`), and that what it rolls back is open includes the null devices, which
  nobody owns (`NulsOpen`);
- that a callback of msquic finds its stream open, while another thread is closing
  the connection, is `Heard`;
- that a destroyed menu gives back its own token and empties its own place in
  `s_menus` needs that menus and trays have different tokens (`Tokens`);
- that `destroy` closes the process' own pipes, and not one that has got the entry
  of a pipe closed before, needs that a process names its own (`Piping`);
- and `~misused` follows at every close and use, because what is in a part is open.

A step passes objects on between one or two holders, closes some of theirs and
opens others (`Gives`); one lemma shows that the ledger survives that (`Rebook`),
and shapes of it are what the steps are shown to be: what the call in progress does
alone (`Mine`), an entry made from what the call had (`Enters`), entries freed and
what they had closed (`Frees`), a close that begins (`Hands`).

`Browser_proofs` proves all six invariants of `browser`: `EndsOnce`, `OwnData`,
`CountsAgree`, `HeldIsServed`, `BlocksApart` and `TypeOK`, for any opcodes of the
table, any objects, chunks and buffers of any size, any number of operations,
drops, polled requests, pages, services, calls and restarts of the worker, and any
sizes and alignments of memory. All rest on `BrowserInv`. It has four parts, whose
steps leave each other's variables alone (`BrowserKept`); only the plan of
operations and polled requests is shared.

- `IoInv`, of the operations. `OpOK` says where an operation can be by the form of
  its answer and when it has had a last completion; with `i \in pend` exactly
  while the operation can still be ended (`Pending`) that gives `EndsOnce`. A
  listener's operation ends when the listener is taken off, so `OpsOK` also says
  which operation an object's `notify` names. `StreamOK` says of every object with
  bytes that those waiting are the last `m` that came and those read came before;
  `DropsOK` that while no drop met the files of another only the last can be
  loading. There is one lemma per action; most see a step as what it does to the
  operations (`OpAppended`, `OpReplaced`), to the objects (`ObjAppended`,
  `ObjReplaced`, `ObjFlag`) and to the queue (`SaysNew`, `SaysOld`), put together
  by `GoodStep`.
- `AskInv`, of the polled imports: one request and one state at a key, and for the
  imports that answer from a state made for a request, that state is the one of
  the request that waits. The imports at a pointer that work on an object are not
  among these (`Strict`), since `ObjectGoes` leaves their state without its request.
- `LinkInv`, of worker and pages. `HeldIsServed` is not inductive alone: that the
  release of one handle leaves the others' service registered needs that a record
  counts its handles and that known handles and records name each other
  (`Tables`); that a handle given out by a join is nobody else's needs that the
  numbers of one worker are given out once (`Holds`); and that a first join takes
  the registration from no holder needs that a record which lost its registration
  while it had handles lost it to an overlapping join (the last conjunct of
  `Holds`). `Tables` has the key as a parameter whose last handle is being
  released, because a release takes the handle from the record before it removes
  the service. That no service stays locked (`MarksOK`) needs what a handler knows
  at each of its awaits (`CallOK`). Of the pages, `Hosting` says that a service
  counts the handles given and not released, which are finitely many and have
  different numbers, `ClosedHandles` that those closed as files are among them,
  and `Fetching` that each pending module of an open page has exactly one fetch.
- `MemInv`, of the allocators. Every block lies between the floor of its allocator
  and its pointer (`Placed`), and the blocks of one allocator in the order they
  were made (`Ordered`): none is ever given out again, so that a new block lies
  beyond all others of its allocator. For the heap, the page's allocator and
  `wasm_alloc` that says nothing of each other: their blocks are apart, and keep
  what they hold (`Contents`), until `Trespassed`. Growth, `realloc` and the
  headers of heap blocks are the cases where it matters that a write stays in the
  block that it is meant for.

What a read takes (`TakenFacts`) needs to know what `FlattenSeq`, `BytesIn`,
`Without` and `Kept` compute for sequences of every length. That is induction, and
the library's induction theorems cannot be instantiated here; `NatSetInduction`
does it for a set of numbers instead of a predicate, from the theorem that `<` on
the naturals is well-founded. The assumptions are `IoAssumption` and
`AskAssumption` (plans have opcodes, kinds and imports of the tables),
`WorkerAssumption` and `MemoryAssumption`: sizes are natural numbers, the guest's
data fits in memory, and the shared pool has room for the 16 bytes it begins with
(wapi_shim.js:902-903).

With that each invariant and each action property of the passing runs is stated by
a theorem. Only model-checked is liveness (`TimerFires`, both `CallReturns`,
`PutReturns`, `JoinSettles`, `RowsFollow`, `AllAnswered`), which is out of the
prover's reach. The properties of section 7 are false.

## 7. Where code and documentation disagree

* `io_wait_forever`: the event loop of the repository's README
  (`while (io->wait(io->impl, &ev, -1))`, README.md:251) takes a 0 for the end.
  `push_completion_event` signals the wake event also for completions that a
  later poll takes at once; the next `wait(-1)` on an empty queue finds the
  signal, looks once more and returns 0.
* `io_wait_timer`: wapi-spec.md:568-570 has timer completions arrive while the
  module waits. `cb_wait` sleeps for the caller's time-out, not for the nearest
  deadline, and nothing signals the wake event when a timer is due.
* `io_no_space`: `op_timeout` refuses when `timeout_count` has reached 64 before
  it looks for an inactive slot; the count is never lowered.
* `module_one_instance`: a start function that joins its own service makes a
  second instance and a second registration (wapi_module.h:220, :235).
* `module_stale_fn`: a function handle is the module handle and an index; once
  the handle is used again it calls into the new module (wapi-spec.md:263-271).

Seen while reading and modelling, not made into runs. The models follow the code
in each case; where a property would fail because of it, the property names the
exception (a history variable such as `tangled`, `orphans`, `lost`, `broken`).

I/O, modules, frame loop:

* A timer duration near 2^64, meant as "never", wraps and fires at once
  (`wapi_host_io.c:389`); the overflow flag of wapi.h:1310 is never set.
* A slot whose function table had its 64 entries used refuses `get_func` for as
  long as the module lives (`wapi_host_module.c:448`).
* QUIT leaves one frame instead of the grace period of wapi.h:1839-1861; a QUIT
  translated while `wapi_main` polls is forgotten (`main.c:324`).
* POINTER_DOWN and POINTER_UP carry the buttons at the time of translation
  (`wapi_host_input.c:508`); touch and pen events carry handle 1 (545, 582).
* A composition with a result and a new preedit ends without CANCEL
  (`wapi_plat_win32.c:1045`, wapi_input.h:959). The payload of an IME event is
  overwritten by the eighth one after it (`wapi_host_input.c:167`,
  wapi_input.h:966-970).
* The session in a controller's uid is a byte (`wapi_host_input.c:101-102`): the
  256th plugging after one has its uid again, which the comment there, "a
  distinguishable uid", does not mention.
* The comment at `wapi_host_input.c:629-632` says a REMOVED handler still sees a
  valid record; the handle is free before the guest can pop the event.

Audio (`wapi_plat_win32_audio.c`):

* Destroying a stream that is unbound while others stay bound frees a ring the
  worker may be reading (comment at 134-139). The capture worker drops the oldest
  bytes, which makes it a second consumer (47-51).
* A resume before the first bind starts the client without its event, ignores the
  failure and never starts it again. What was queued before a bind is lost if the
  ring grows. When the endpoint is unplugged the worker loops and a put hangs.

Processes, network (`wapi_host_process.c`, `wapi_host_net*.c`):

* The handles of null devices are never closed after a success, nor two of them
  when CreateProcess fails (the comment at 302 says "already closed"). With a
  full table a process runs with pipe handles of 0.
* `send_all` of TLS gives up on a non-blocking socket that is full, after a part of
  the record; a TLS receive without data returns an I/O error; the handshake has
  no time-out.
* The QUIC ring drops bytes of a reliable, ordered stream when it is full;
  `quic_ensure` reports success after an earlier partial failure.
* `recv` and `send` block the guest's thread; the `host_net_*` imports are not
  reached by the dispatch table.

Windows, menus, files:

* `LOWORD` in the handler of `WM_COMMAND` cuts off the token, so no item of a menu
  or tray is ever dispatched (against `wapi_plat_win32_menu.c:6-13`); tokens from
  128 on have no place in `s_menus`.
* The pointer to a tray's inner menu goes through 32 bits
  (`wapi_host_tray.c:193`): a negative one is leaked and stays set.
* The menu of a bar dies with its window, and is destroyed again with its handle.
  `main` closes files, surfaces, audio and GPU handles at exit, nothing else.
* Storing a key truncates the file before it is written.

GPU (`wapi_host_wgpu.c`):

* `processEvents` inside a guest's callback runs that callback again, and a request
  made then is wiped when the outer callback returns (464).
* The answer to `requestDevice` always waits with the first instance. A ninth
  instance dereferences NULL; the 33rd pending request is never answered.
* Adapters, devices and surface textures that find no entry leak, and the guest is
  told of success with handle 0. The state of an instance is never freed, and the
  next one at its address inherits the list.

Browser (`sw.js`, `wapi_shim.js`):

* `cacheStore` writes the metadata after an await in another transaction (164),
  which has ended by then: bytes without metadata, an empty list in the popup and
  an error for the first join.
* Two overlapping first joins make two instances, and the second registration
  replaces the first (376-386). A join that meets one in progress gets
  WAPI_ERR_LOOP without a cycle. After a restart handles start at 1 again.
* A join made while its module is being fetched for something else stays pending
  for ever (`wapi_shim.js:5837-5857`). A page's withdrawal removes the row of
  another page with the same service until its next heartbeat. An error reply of
  the worker fails the fetch without trying the network.
* The page's own I/O bridge: `cancel` finds timers and connecting sockets only; a
  cancelled CONNECT completes a second time when the socket opens, and so does an
  open one when it fails (1948-1957, 2087-2097). Positions and idle changes come
  without the flag MORE (10505, 10727).
* A rejection that nobody hears leaves an operation without a completion: the
  permission of the idle detector (10718), an item of the clipboard (9763).
* Comments say that repeated calls of the polled imports observe the same state
  (6651-6654), but those of `wapi_bt`, and `save_file`, `open_folder` and
  `pick_color`, return WAPI_ERR_IO to a second call while they wait, and the answer
  stays for the next request. The answer of USB and serial `open` stays after a
  close and is given to the next open, of a port that is closed (6455, 7761).
* The files of a drop are added to what the next drop brought if that one came while
  they loaded (11634); a file that fails leaves its drop untold.
* `FWATCH_ADD` makes an observer and never starts it (11040); no call stops an NFC
  scan; the two BARCODE opcodes write no results.
* `wapi_filesystem.close` removes a handle of any type (2338-2342). A wake lock whose
  handle goes so stays held. A module handle that goes so stays counted: its service
  is hosted and announced until the tab is closed, whatever else is released.
* A polled request at a pointer whose object has gone is refused from then on, and its
  answer stays for the next request at that pointer: `create_ref_space` (6973),
  `encrypt` and `decrypt` (5512), the calls of `wapi_bt` on services.

Guest memory (`bindings/c/wapi_reactor.c`, `wapi_shim.js`):

* The header that "stores the size so realloc / usable_size can work" is directly
  before the block only if there is no padding. For an alignment of 16 or more
  realloc may read padding for the size and copy too little (194, 213;
  `misread`).
* The reactor's comment says the host does not touch the guest heap (141-146). The
  page's allocator begins at `__heap_base` if that is exported, which is where the
  heap begins, or else at 1 MB, which may be amid data or heap, and neither it nor
  the heap knows of the other or of the pages `wasm_alloc` gave (`Trespassed`).
* A size near 2^32 wraps the pointer of the heap.

## 8. Not modelled

* **Data translation within one call**: descriptor and string marshalling, report
  decoding (HID, controllers), sample and pixel formats, codecs, compression,
  cryptography, fonts and text layout. No state between calls, or none that
  another call reads, and too much data for a model checker.
* **Stateless calls of the operating system**: environment, clock, random,
  permissions, dialogs, clipboard, queries of displays. Key-value storage keeps its
  state in files and none in the host.
* **The desktop's shared pool** (`wapi_host_module.c:104-157, 604-664`): the pool of
  `GuestMemory` with a table of 1024 records in place of a map.
  `wapi_host_memory.c` is not reachable: its registration defines no import (318).
* **CLAP plugin host**: it does not build at this commit. `wapi_plugin_host.h:26`
  includes `wapi/wapi_audio_plugin.h`, which is not there, and the code uses
  fields that the structures of `wapi_audioplugin.h` no longer have.
* **The rest of the browser shim**: rendering, GPU, audio, video, codecs, windows,
  memory file system, input listeners: translation of calls and events into those of
  the browser. The popup only displays. `sw_host.js`
  runs a hosted module's `_initialize` and `wapi_main` and nothing else: no call of a
  page reaches it and its tick is a placeholder. **SDL runtime**: the predecessor
  of the desktop runtime over an older ABI. **Headers and bindings**:
  declarations.

Within the modules that exist: a call that fails before it changes state is left
out. Guest memory is modelled only where it makes a call fail half-way
(`ReadOpFails`). Namespaces and capability queries, opening an audio device and
failing WASAPI calls, what a guest sends over TCP and TLS, datagrams and name
resolution, bars and submenus, and the loading of msquic.dll are left out, as is
running out of memory. What msquic and wgpu-native do is assumed as stated at the
head of `Connections` and `GpuBridge`. Only the Win32 platform is modelled, the
only one there is.

## 9. Plan

No safety or action property of a passing run is without a theorem. What the models
could still take in, in this order:

1. The synchronous operations of `IoBridge` that keep state between calls
   (HTTP, dialogs, the transfer of clipboard and drops).
2. HID devices and the mapping tables of controllers behind `PlatformInput`.
3. The remaining imports of `wapi_shim.js` with callbacks: audio and codecs.
