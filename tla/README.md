# TLA+ specifications of learning-cuda

learning-cuda streams video from browsers and cameras through GPU filters that run
on *accelerators* (a Jetson or a workstation), with a cloud API in between. The
specifications here model the concurrent core of that system: who is registered,
who talks to whom, what happens when a stream, a process or a message is lost, and
what the page in the browser makes of answers that come late, twice or not at all.
Paths below are relative to the repository root.

## 1. The system

```
 browser (TypeScript)            cloud API (Go)                 accelerator (C++)
 src/front-end                   src/go_api                     src/cpp_accelerator
 ------------------              ---------------------          ------------------------
 page: start, grid of cards,
 filter panel, dialogs, tour
   |  frame transport, health monitor, uploads, flags
 webrtc-service       --HTTP-->  WebRTC signaling handler
   StartSession/ICE/             webRTCSignalingSessionManager
   PollEvents/Close              one upstream stream per session
                                   |  AcceleratorGateway.SignalingStream
                                   v
                                 signalingStreamAdapter  (fan-out, bounded channels)
                                   |
                                 registry + ControlServer <--gRPC bidi--  AcceleratorControlClient
                                 (one session per stream)    outbound     Run / RunOnce, keepalive,
                                                                          staleness, teardown watchdog
                                                                            |
 control / data channels <---------------- WebRTC (DTLS, SCTP, RTP) ---->  WebRTCManager, CameraHub,
 framing (chunk headers)                                                  BirdWatcher, processor engine

 remote management   --HTTP-->   DeviceMonitor  <--MQTT-->  smart plug and board telemetry
```

| Component | Source | State | Operations | What is hard about it |
|---|---|---|---|---|
| Accelerator registry and control server | `src/go_api/pkg/infrastructure/processor/{registry,control_server,session}.go` | map device -> session, per-session context, last-seen clock, receive channel | Register, ack, receive loop, keepalive, watchdog, teardown | a reconnect races the old stream's teardown; four goroutines share a session; a peer may vanish without closing |
| Signaling relay | `.../processor/{signaling_adapter,accelerator_gateway,session}.go` | subscriber channels (cap 32), send mutex | subscribe, fan-out, send, unsubscribe, close all | double close of a channel, a write next to the ack, subscribing to a dead session |
| Signaling sessions | `src/go_api/pkg/interfaces/connectrpc/webrtc_session_manager.go` | map id -> session, per-session event queue with cursors, notification channel | StartSession, SendIceCandidate, PollEvents, CloseSession, receive loop | HTTP calls that overlap on one id, replacement of a session, a late termination, lost wakeups |
| Control client | `src/cpp_accelerator/adapters/grpc_control/accelerator_control_client.cpp` | context and stream pointers, generation, last-rx clock, stop flag | Run, RunOnce, Dispatch, keepalive and pump threads, Stop | three threads over one stream, a wedged dispatch after a lost stream, Stop at any moment |
| WebRTC manager | `src/cpp_accelerator/adapters/webrtc/webrtc_manager.cpp` | session map under a mutex, per-session state, callbacks of libdatachannel | create, close, candidates, frames, cleanup thread | lock order, callbacks during teardown, weak pointers |
| Bird watcher | `src/cpp_accelerator/application/bird_watch/bird_watcher.cpp` | two frame queues, worker thread, detection streaks, rate gate | frame in, worker, capture, start, stop | lost wakeup, budgets across slow and failed saves |
| Browser WebRTC service | `src/front-end/src/infrastructure/connection/webrtc-service.ts` | maps by session id, poll loops, heartbeats, one connection state | create, close, reconnect, poll, beat, unload | each await interleaves with every other ending of the session |
| Frame transport | `.../transport/webrtc-frame-transport.ts` | connect promise, session id, pending answers | ensureConnected, sendFrame, sendSingleImage, disconnect | a disconnect during an awaited connect or rasterization |
| Browser control channel, framing | `.../transport/control-channel-service.ts`, `data-channel-framing.ts` | pending calls with timers, a queue of dispatches, one reassembler with a limit | send request, attach, channel change, reject, push chunk | a channel replaced or closed under pending calls, answers of two sessions, evicted messages |
| Health monitor and status button | `.../external/accelerator-health-monitor.ts`, `AcceleratorStatusFab.tsx`, `GrpcStatusModal.tsx` | interval, timer, counters, the dialog | start, stop, check, rapid rounds, power on | checks that overlap, timers nobody names any more |
| Start of the page, logger | `bootstrap-react-dashboard.ts`, `otel-logger.ts` and the services they load | the step awaited, what was loaded, the queue of records | load in order, give up after 8 s, flush | answers after the step was given up |
| Video grid and cards | `VideoGridHost.tsx`, `hooks/use{Camera,Source}Transport*`, `useFilterApplication.ts`, `useSourceFilterSync.ts`, `CameraPreview.tsx` | the cards as dispatched and as committed, the selection, sessions, cameras | add, select, close, default source, apply filters | refs of the last commit, closing what is not up yet |
| Filter panel | `FilterPanel.tsx`, `useFilters.ts`, `useAcceleratorCapabilities.ts` | filters with order and parameters | toggle, type, step, drag, load definitions | a panel mounted anew while lists are under way |
| Picture dialog, upload, toasts | `ImageSelectorModal.tsx`, `useImageUpload.ts`, `toast-context.tsx` | pages, thumbnails, object URLs; progress, timers | scroll, open, delete, capture; drop, pick | pages of an earlier opening, a timer of an earlier upload |
| Camera size | `CameraPreview.tsx`, `VideoGrid.tsx`, `RemoteCameraVideo.tsx` | size told, size constrained, size measured | choose a resolution, render, constrain | two feedback loops through the render |
| Flags dialog, tour | `FeatureFlagsModal.tsx`, `AppTour.tsx` | rows, saves; step, places | load, edit, save; lay out, step | overlapping loads; geometry at the edges |
| Statistics, bar | `StatsPanel.tsx`, `NavbarControls.tsx` | row, interval; open, loading | read, re-arm, select, close; toggle, load | intervals of former transports; clicks kept from others |
| Streaming signaling handler | `.../connectrpc/webrtc_handler.go` | two forwarding goroutines per browser stream | forward both ways, session prefix check | one direction ends, the other must |
| Device monitor | `src/go_api/pkg/infrastructure/mqtt/device_monitor.go` | subscribers, plug and board state, auto-off | start, MQTT handlers, subscribe, stop | snapshot and registration are two steps, MQTT reconnects |
| Camera hub | `.../adapters/camera/camera_hub.cpp` | capture sources with their subscribers | subscribe, unsubscribe, dispatch | start outside the lock, last unsubscribe stops the source |

The remaining code (filters and kernels, codecs, camera drivers, file and flag
repositories, generated message classes, build files) keeps no shared state between
concurrent actors or computes numbers TLC cannot reach; section 7 lists it with the
reason, and what of the table is not modelled.

## 2. The modules

| Module | Models | Read it with |
|---|---|---|
| `AcceleratorSlot` | the promise of the registry: one slot, held by one control stream | `processor/registry.go` |
| `AcceleratorControl` | Connect handlers, receive goroutines, keepalive senders, watchdogs, the registry; implements `AcceleratorSlot` | `processor/{control_server,session,registry}.go` |
| `SignalingRelay` | `AcceleratorControl` composed with the adapters of the WebRTC gateway: fan-out, bounded channels, the send mutex and who goes past it | `processor/{signaling_adapter,accelerator_gateway,session}.go` |
| `SignalingSessions` | the unary signaling calls of browsers and the sessions behind them | `connectrpc/webrtc_session_manager.go` |
| `ControlClient` | the accelerator's end of the control stream, with its threads, its watchdog and `Stop()` | `grpc_control/accelerator_control_client.{h,cpp}` |
| `WebRTCManager` | the accelerator's session table and its mutexes | `webrtc/webrtc_manager.cpp` |
| `BirdWatcher` | the bird watcher's queues, throttles and rate gate | `bird_watch/bird_watcher*.cpp` |
| `BrowserSession` | the promise of the browser's WebRTC service: a session is created once, resolved with an open channel, and forgotten for good | what callers of `webrtc-service.ts` rely on |
| `WebRTCService` | the service itself; implements `BrowserSession` | `connection/webrtc-service.ts` |
| `FrameTransport` | a card's transport, composed with `BrowserSession` (the promise, not the service) | `transport/webrtc-frame-transport.ts` |
| `ControlChannel` | the browser's control calls over data channels, with the reassembler | `transport/control-channel-service.ts`, `data-channel-framing.ts`, parts of `webrtc-service.ts` |
| `Startup`, `AcceleratorHealth`, `ImageGallery`, `CameraSize` | the start of the page and its logger; the watch over the accelerator; the picture dialog; the size of a camera | `bootstrap-react-dashboard.ts`, `accelerator-health-monitor.ts`, `ImageSelectorModal.tsx`, `CameraPreview.tsx` |
| `Dashboard` | these four as parts of one page, with their fairness | `App.tsx` |
| `VideoGrid`, `FilterPanel`, `AppTour`, `ImageUpload`, `FlagsDialog` | the grid of cards; the panel within itself; the tour; the upload box; the flags dialog | the components of these names |
| `StatsPanel`, `NavbarControls` | what the page tells of the cards and their transports; the menu, the version tooltip and its two loads | the components of these names, `SourceDetailsBadge.tsx`, `VideoSourceCard.tsx` |
| `Views` | these seven, and `ControlChannel`, as parts of one page (safety only) | `App.tsx` |
| `Subsequence` | what `filter` keeps of an array, in a form that proofs can expand; used by `FilterPanel` and `ControlChannel` | `FilterPanel.tsx` |
| `ControlPlaneProofs` | theorems about `AcceleratorControl` and `SignalingRelay` | |
| `AcceleratorProofs` | theorems about `ControlClient` and `WebRTCManager` | |
| `PageProofs` | theorems about `Views` and its parts | |
| other `*Proofs` | theorems about the module of that name | |
| `MC*` | model values, small instances and symmetries for TLC | |

`PROJECT.json` maps every definition to the lines it stands for. Definitions whose
comment begins with *Fault* or *Mutant* are not part of a specification: each is the
way a plausible bug would change one definition, and the property it must break is
listed there. Type invariants (`...TypeOK`) were checked by TLC while a module was
written, are not repeated in the runs, and are what the proofs start from.

How states and actions correspond to the code, and what was abstracted:

* **AcceleratorControl.** One `Conns` element is one control stream in its whole life:
  the peer's half (`link`), the Connect handler (`handler`, a program counter whose
  steps are the blocking points of the function), the receive goroutine (`reader`) and
  `recvCh` of capacity one. The registry's map is `sessions`; a critical section of its
  mutex is one action. Time is `silence`, ticks since the last envelope, which
  saturates just above `StaleAfter`; one tick stands for the watchdog's period.
  Payloads are kinds. The trace and image tables beside the map are left out.
* **SignalingRelay** EXTENDS the module and runs its actions unchanged, or together
  with a step of the relay (`ServeSignaling` is `ServeEnvelope` with the fan-out,
  `FinishAndClose` is `Finish` with `closeAllSignaling`). `writing` holds who is inside
  `stream.Send`: a send is two steps. An adapter may send at any stage, after its stream was
  cancelled or closed too, as `signalingStreamAdapter.Send` asks nothing. An envelope is its number, so an adapter's
  history can be compared with what was fanned out. `since`, `received`, `lossy` and
  `closes` are history.
* **SignalingSessions.** An `Objs` element is a `webRTCSignalingSession`, a `Calls`
  element an HTTP request with its own program counter. Everything done under one
  mutex is one action; the unlock between `waitForEvents`' check and its wait, between
  `createSession`'s detach and its install, and between a match and `removeEvent` are
  places where others run. `notifyCh` is a generation number: a sleeper remembers the
  one it saw. A queue is the set of its events: cursors are given out in order and never
  twice, so they are the order. `heard` is history, the cursors of the candidates a session
  received; `from` and `got` are that of a poller, where it began and the batches it was
  given.
* **ControlClient.** `main`, `keepalive` and `pump` are threads of the cycle; `writer`
  is the holder of `write_mutex_` inside a blocking `Write`; `stream`, `draining` are
  the gRPC stream as the client sees it. A Write returns when the peer drains or the
  stream is dead, a Read when a message comes or the stream is dead, so a cancelled
  stream frees both. Watchdog threads are the generations they wait on. The calls into
  the WebRTC manager are actions that may never happen: a wedged handler.
* **WebRTCManager.** `mapLock` and `lock` are the holders of `sessions_mutex_` and of
  each session's mutex while a thread may block under them; a section in which nothing
  blocks is one step that needs the mutex free. The control thread's call in progress is a
  record, the cleanup thread is its pass (what is left to visit, what it decided to erase).
  The threads of libdatachannel (`Callbacks`) run the handlers of tracks, channels and
  messages, those of the camera hub (`Cameras`) bring frames; either is a worker that goes
  through the mutexes its handler takes, `session->mutex` in all of them. What the library's
  `close()` does about the `onClosed` handlers is not in the repository, so `Closing` has
  all three ways: they run later, before `close()` returns, or `close()` waits for handlers
  under way. `Failures` and `Ops` say what an instance lets happen. The negotiation (10 s
  at most, with the answer or without) is one step. Mutexes under which no other is taken
  (`candidates_mutex`, `session_channels_mutex_`, the hub's) and the session's buffer pool
  are left out, and so are `GetPendingLocalCandidates`, which takes `sessions_mutex_` and
  releases it before it takes `candidates_mutex`, `Shutdown` (the process ends with
  `std::_Exit` before it would run), `CreateCameraSession` and `SendToSession`, which
  nothing calls.
* **BirdWatcher.** `Init` is the point in `Start()` where `running_` is set and the
  decoder is open; `SubscribeFails` and `StopFailed` are the failed start. The wait on
  `queue_cv_` is split where the mutex does not protect it: *blocking* (predicate
  false, mutex held) and *asleep*. Whether the decoder returns a picture, what the
  detector sees and whether a save works are nondeterministic. There is one camera
  thread; spurious wakeups, which only help, are left out. On a backend without a GPU
  path `GrabStillFrame` is empty and every save fails, which is one of the cases.
* **WebRTCService.** A browser task is one action: what happens between two awaits, or
  one event with its handlers. `has[s]` is the set of the service's Maps with an entry for
  the session, so that a forgotten `delete` shows; `peer` and `dc` are the browser's
  objects, whose events may come after the service dropped them ("dying"). Time is the
  heartbeat: a beat that fails or is late counts, three failures or 20 s without one
  start a controlled reconnect. SDP and candidates are not looked at.
* **FrameTransport** EXTENDS `BrowserSession`, the promise that `WebRTCService` is shown to
  keep, instead of the service. `attempt[s]` is where the async function that creates
  session `s` awaits, `connectPromise` the attempt callers join, `on[c]` the channel a
  request captured before its image was rasterized, `label[c]` the session id written into
  it after. `overtaken` is history: a disconnect came while an attempt was in progress.
* **ControlChannel.** A channel goes through new, open, closing (close called, its event
  not yet delivered), failing (error event delivered) and closed; messages that arrive on
  a channel that is not open are discarded, as RTCDataChannel does. The accelerator may drop
  a request (one that does not parse, a response that does not serialize or is above 16 MiB)
  or stop in the middle of a response when a send fails, and it numbers statistics,
  detections and processed images with the same counter (`MaxOthers` ids between two
  answers; those messages travel on other channels). A response is its chunks; `partial` and `order` are the reassembler's map and `inFlightOrder`, so that the
  eviction of the oldest at the limit, its chunks that start it anew, the time limit,
  duplicates and count clashes are the code's. Two messages with the same id and count
  complete each other, and whether the merged bytes decode is nondeterministic; `lost` is
  the history of answers that were not sent whole or that the reassembler spoilt.
* **Startup.** `stage` is the step `runBootstrap` awaits; `withTimeout` lets a step be
  given up while its call stays under way and writes its result later. Of the logger, the
  level and the number of queued records are kept, with the flushes under way.
* **AcceleratorHealth.** Checks under way are counted by the round they belong to, armed
  timers by whether `rapidCheckTimeout` still names them (`strays` are those it does not).
  The dialog and the button that brings it back are in the same module, as the monitor
  asks the dialog whether it is open and the button asks before its await.
* **ImageGallery.** Requests go over the control channel, in order. A page is an offset
  into the accelerator's list, newest first, at the time it is served; `inView` and `seen`
  are the sentinel and what the IntersectionObserver reported of it. A closed dialog stays
  mounted: `back` is the tab it renders, `OnPage` the pictures whose thumbnails exist, and a
  page that comes late mounts some. `disturbed` is history: captures came or went, or a page
  of an earlier opening was due or had come; `broken` too: a list has failed.
* **CameraSize.** A render is one action, with the effect it runs if its dependencies
  changed. The dimensions, the rounding and the floor of 160 by 120 are those of the code;
  what a camera makes of a constraint is the mode nearest to it, or a refusal.
* **VideoGrid.** `grid` is what was dispatched, `ref` what was committed: a handler that
  reads a ref reads the second. A click is rendered before the next event, what a promise,
  timer or effect dispatches waits for a later `Commit`; a new card takes the filters of the
  last one. The effect that applies filters depends on identities and on the accelerator and
  resolution as well: `Reapplied` lets it run again with the same filters. The panel appears as the grid sees
  it, as the list of active filters it shows and the epoch of its definitions.
* **FilterPanel** has what goes on inside: definitions, order, parameters, drags. A filter
  has one number at most. An accelerator is reported as available exactly if it offers a
  filter, as the accelerator's handler makes up its list from the filters' own. `fetches` are the lists under way, each with the generation that
  makes a late one be ignored.
* **AppTour** computes with pixels: `Position` is `calculateTooltipPosition` line for line
  in its choices and clamps.
* **ImageUpload, FlagsDialog.** One state of the box and one `loading`/`savingKey` for
  whatever call they are of, as in the code; the calls under way are counted or listed. Lists
  and saves are independent calls, served and answered in any order, and the list answered
  last is the one that is shown; `crossed` is history: two lists were under way at once.
* **StatsPanel, NavbarControls.** `connections` is the row of the frames, with the transport
  it was read from, which the code does not keep: an interval is told apart by the transport
  its closure holds. Transports move as they please (`WireMoves`; `FrameTransport` has how).
  A version load is known by the run of the effect that called it; of those only the last
  is not cancelled. A click is one that the listeners on the document see or not.
* **Dashboard, Views.** The parts of each share no state as they are modelled. A behaviour of
  the sum is one of a part, the others staying put, so a property of a part holds of the
  sum exactly if it holds of the part; interleaving them would only multiply states.

## 3. What the runs check

| Run | Instance | Properties | What it shows |
|---|---|---|---|
| `control` | 3 streams, 2 devices, fair | AcceptedIsRegistered, ImplementsSlot, SilentPeerDropped | a reconnect overlapping the teardown of the old stream while a rival registers: the registry never loses a live stream and refines the slot; a silent peer is dropped |
| `relay` | 1 stream, 2 adapters, channels of 1, 2 envelopes | ChannelsCloseOnce, NothingLostInSilence | channels close once whoever comes first; a full channel hurts its owner only |
| `relay_writers` | as `relay` | SingleWriter (violated) | section 5 |
| `sessions` | 2 ids, 2 sessions, overlapping calls of every kind, 1 candidate, fair | PollLossless, WaitersWake, SessionsAreFound | waiters that take answers out of the queue never cost a poller a candidate; nobody sleeps on; replacement and late ends leak no stream |
| `client` | 2 sids, 3 cycles, fair, handlers may wedge | NoDanglingStream, AbortOnlyWedged, LostStreamLeft | reconnections, silence, wedged calls and Stop in any order |
| `manager` | 2 sessions; 1 id, a thread of the library and one of the hub, all operations, failures and ways to close; or 2 ids, and less of the rest; fair | MovesOnOrLocks, TableHasTheLiving | the table stays consistent; no deadlock but the four named ones, and they are final |
| `manager_locks` | 1 id, 1 session | CallsReturn (violated) | section 5 |
| `bird` | both backends, streaks of 2, 2 captures in a window of 3, clock to 6, fair | RateLimited, FrameWakesWorker, LooksAndCapturesAreDue | budgets and throttles under any timing, no lost wakeup for a frame |
| `webrtc` | 1 session, batches with a close in every place, fair | AllOrNothing, SingleReconnect, NoGhostConnected, BrokenIsReleased, KeepsPromises | every ending of a session against every await of it; the service implements its promise |
| `frame` | 2 sessions, an awaited and a streamed request, fair | OpenIsOwned, NamesItsSession, EveryCallSettles | connects, disconnects and requests that overtake each other |
| `dashboard` | the parts of `Dashboard`, fair | NeverBlind, OutageNoticed, DialogReachable, DialogIsTrue, LastPageReached, DashboardComesUp, SizeSettles | what the page owes its user in the end |
| `views` | the parts of `Views`; of the control channel 2 channels, 2 calls, answers of 1 or 2 chunks, whole or not, a reassembler of 1 | OnlyUnfinishedLeak, PanelMatchesSelection, FiltersAreKept, PanelListsOffered, TooltipInView, UploadUndisturbed, PageIsCurrent, SentOnce, AnswersArrive | what the page may never show or leave behind; that a call handed on by opens, fallbacks and closes is sent once, and an answer sent whole settles its call on a replaced channel too |

Some properties are conjunctions of claims that stand by themselves in the modules:
`SessionsAreFound` is
`NoOrphan` (after every step) and `LateTerminationHarmless`, `LostStreamLeft` is
`NoSilentLimbo` and `StaleOrBlocked`, `TableHasTheLiving` is `ClosedIsLeaving` (after every
step) and `OnlyClosedLeave`, `MovesOnOrLocks` is `CallsReturnOrLock`, `AbandonedReaped` and
`LockedForGood`, `LooksAndCapturesAreDue` is `IdleIsLazy` and
`StreaksDecide`, `DialogIsTrue` is `GalleryInOrder` and `NoBlobLeak`, `FiltersAreKept` is
`OthersKeepFilters` (grid) and `FiltersSurviveSelection` (panel), `PageIsCurrent` is
`RowsAreCurrent` (flags), `RowIsOfTransport` and `SelectionIsOnPage` (statistics),
`LoadingIsTrue` and `OneIsOpen` (bar).

Why these bounds are enough to be interesting.

* Two streams of a device are needed for a reconnect, a third of another device for the
  one-accelerator policy; a fourth only repeats a role. By `MCMayDial` a
  stream is dialed while at most one other was, or when all others are over: two streams
  overlap in every way, three do not run side by side. Two adapters are what a fan-out
  needs to treat one differently from the other, two envelopes fill a channel of one.
* Three cycles of the control client let a watchdog of the first be late for the second and
  see a third; two session ids let one survive the other. In the bird watcher the window
  (3) is longer than the save interval (1) and holds two captures, so the clock must pass
  the window once more for it to empty and fill again.
* The maps of the WebRTC service are per session and its only common state is one status,
  so one session meets every ending; several matter to those who use it, and `frame` has
  two: the one that a disconnect left and the next. The session table of the accelerator
  needs one id whose session is followed by another for what goes by id, with every
  operation, and two ids for a cleanup pass that visits several: `MCWebRTCManager` has the
  two as scopes of one run, the second without candidates, cameras and inline handlers, which
  do not go from one session to another.
* Two control channels are one replaced by the other, a fallback to the one that is left, and
  the close of one that is not the current one; the theorems cover any number. The
  reassembler's limit is 16 in the code and 1 here: two calls reach it.
* Two cards of the grid let one be selected while the other is closed; `Epochs` lets the
  definitions of a panel be replaced once. The limit of nine cards is not reached. In the
  grid a click finds everything rendered (a user is slower than a render), while awaited
  calls end at any point, which `Settled` tells apart.
* Two pictures and a page of one give a second page to scroll to; a page fills the dialog
  (`PageSize`), or the sentinel would stay in view and be reported no more. `MaxChecks` (2)
  lets a check of one round overlap one of another, `Requests` (2) a page one of an earlier
  opening, `Batches` (1) is the flush under way, `FlushAt` (2) the hundred records.
* `MCModes` has modes above, at and below the floor of the size, in both orientations, and
  dwindles (an ASSUME of `MCDashboard`), as `SizeSettles` asks;
  `Constraining` (2) bounds what is under way only when the *user* chooses again.
* The windows of the tour are one with ample room, the smallest with any, and one without;
  the elements force each of its four sides, the clamps, and one place out of view. The
  proof (section 6) covers all others.
* Two accelerators offer filters, in lists that share one; a third offers none and is
  therefore never reported, so that the panel may stand on one that is not there.
* `LastCard` (3): when the selected card is closed, there is a first and a last of those that
  stay. A transport has three of its states, as the rows treat the others like them.
* `UnderWay` (3) calls of the flags dialog are two saves and a list that is taken between
  them, or two lists around a save. A file dialog is
  modal: nothing is dropped while it is open.

The constants `MaxCycles`, `MaxEnvelopes`, `MaxCandidates`, `MaxClock`, `MaxParts`, `MaxOthers`,
`MaxChecks`, `Requests`, `Batches`, `Epochs`, `UnderWay`, `Constraining`, `LastCard` and the sizes of
the sets are the only artificial bounds; a model stops when they are used up, which is why
deadlock is not checked there. `control` does check it: `AllOver` is the only way to stop,
when every handler and goroutine has ended.

Assumptions on users that a run rests on: `SerialStarts` (a browser does not call
StartSession twice at once under one id: ids are fresh per session), and that `Stop()`
of the bird watcher and of the control client is called once, as `main.cpp` does.

## 4. Fairness

* *Control server:* every goroutine that can run does (weak fairness per handler and
  per receiver). `ServeCancelled` has fairness of its own because Go's `select` picks
  at random among ready cases, so a cancelled context is not starved by envelopes.
  Peers are not assumed to send, close or read anything.
* *Sessions:* the receive loop of each session and every call's own steps. Candidates,
  answers and the end of the upstream stream are not assumed.
* *Control client* (`WedgedSpec`): threads run and time passes; the server promises
  nothing and a handler of the WebRTC manager may never return. Strong fairness on the
  three `Send`s says that a thread does not wait for `write_mutex_` for ever while
  others keep taking and releasing it: the pump and the keepalive thread sleep between
  their rounds.
* *WebRTC manager:* as above for its mutexes (the cleanup thread sleeps 10 s between
  passes). Nobody is assumed to call or to send frames; what falls silent is stale after 30 s.
* *Bird watcher:* the threads run; frames, time and `Stop()` come as they please.
* *WebRTC service:* timers fire, and the HTTP requests that close a session or poll
  settle: `pollEvents` has a limit on the server and fetch fails when the connection does.
  Nothing is assumed of the peer, the channel or the answer to StartSession.
* *Frame transport:* the service settles its promises (which `BrokenIsReleased` and the
  time limits of `waitForTransportReady` justify), a rasterization ends, timers fire.
* *Page:* timers fire (`PollTick`, `RapidTick`, the 8 s limits), renders happen, and
  requests settle one way or the other. In the start this is needed of the system
  information alone, which has no limit (`bootstrap-react-dashboard.ts:132`); in the
  health monitor of its checks; in the dialog of pages, which the control channel ends
  after 15 s; in the camera of `applyConstraints`. Of the user it is assumed that he goes
  on scrolling (`LastPageReached` only).
* *Relay, control channel, Views:* safety only.

## 5. Where code and expectations part

**`manager_locks`** is a violated run: `CreateSession` holds the non-recursive
`sessions_mutex_` and calls `RemoveSession`, which locks it, when no SDP answer comes or an
exception is thrown. Independently, `CloseSession` holds a session's mutex when it takes
`sessions_mutex_`, and the cleanup pass takes them in the other order. Either way the
thread that reads the control stream stands for ever.

Two more deadlocks depend on the library. The session's channels are closed under
`session->mutex` (`CloseSession`, the cleanup pass, the timeout of `CreateSession`), and
their `onClosed` handlers lock it (lines 718, 739, 773): if `close()` runs them before it
returns, the thread locks a mutex it holds (`Relocked`); if it waits for handlers under way,
it waits for one that waits for the mutex (`DrainLocked`). If it posts them, as its callers
seem to expect, neither happens. The run `manager` shows that on
its instances, with the acquisitions of these mutexes as in the module, no call is stuck
for a fifth reason (`CallsReturnOrLock`), and that nothing ends such a deadlock
(`LockedForGood`, proved in general).

**`relay_writers`** is a violated run: `session.go:25` says that sends are serialized
because a stream has a single writer, but the `RegisterAck` is written outside `sendMu`
(`control_server.go:209`), after the session became visible to the gateway: an adapter's
message may overlap the ack, or go first. Nothing else overlaps (`OnlyAckOverlaps`, proved
in general by `OnlyTheAckBypasses`).

Met while modelling, visible in the modules, and not among the runs:

*Cloud and accelerator*

* `Stop()` of the bird watcher clears `running_` and notifies without `queue_mutex_`; a
  worker between predicate and wait misses both, and `join()` waits for it.
* A peer that neither sends nor reads leaves the keepalive thread inside `Write`, so
  nobody checks for staleness any more (`StaleOrBlocked` states what remains true).
* `Stop()` of the control client that comes before `RunOnce` has published its context
  cancels nothing; `Run` then waits for the server.
* A `CloseSession` waiting on a session that is replaced removes the replacement, as
  `removeSession` goes by id; and an answer to an earlier StartSession of an id may be
  returned as the answer to a later one, as messages are matched by id and kind only.
* `CloseSession` clears a session's buffer pool under another mutex than the one frames
  are processed under; a rejected offer leaves its peer connection open and unreachable.
* `HandleVideoFrame` refreshes `last_heartbeat` (`webrtc_manager.cpp:1086`) for frames of the
  camera hub too: a session whose browser vanished while it watched a camera is not reaped
  after the 30 s that line 112 announces, nor ever while the camera runs, and it keeps the
  camera running. `AbandonedReaped` holds of those that no camera feeds.
* A full H.264 queue drops its oldest access unit, although
  `bird_watcher.cpp:201` says that every unit is fed.

*Browser, transport*

* Every session of the accelerator counts message ids from 1, the browser keeps one
  reassembler for all channels: chunks of two answers with the same id and count are
  merged and settle a call with half of another's answer. `AnswersArrive` excepts such
  calls (`lost`).
* A request that the accelerator drops, or whose answer it stops sending midway, is not
  refused: the call waits for its 15 s timer (`webrtc_manager.cpp:941`,
  `data_channel_framing.cpp:224`).
* When a control channel closes while another is open, calls already sent on it are
  neither resent nor rejected before their 15 s timer.
* `waitForTransportReady` waits for SCTP lest Chrome tears the channel down
  (`webrtc-frame-transport.ts:322`), but `ensureConnected` returns at once when the channel
  is open (line 305), so a second request is written without that wait.
* `disconnect` during an attempt lets the continuation install its session again: nobody
  closes it. `OpenIsOwned` and `NamesItsSession` hold unless this happened (`overtaken`).
* When `createDataChannel` returns nothing (line 326), the peer connection is closed outside
  the `try`, and its entries stay in `sessions` and `peerConnections`. A close behind a
  candidate that cannot be added is lost with the rest of its batch, as the cursor moved
  past all of it.
* Only outgoing heartbeats are watched (line 553): a peer whose acks stop is not noticed.
  `setupPingChannel` is called nowhere.

*Browser, page*

* The monitor records a recovery only in a rapid round. After an outage was reported, the
  interval sees the accelerator back without noting it, and the next outage opens no
  dialog: `OutageNoticed` is about outages not reported before (`last # "failed"`).
* The row of the frames may be of another card than the details beside it: with a local
  camera selected, which has no transport, it is of the first card that has one
  (`VideoGridHost.tsx:204`). `RowIsOfTransport` is about the transport in use.
* A cancelled load of the versions that fails still reports it and sets the environment to
  "Error" (`NavbarControls.tsx:71`), also after the other one was answered.
* The status button reads whether the dialog is open before its await
  (`AcceleratorStatusFab.tsx:25`) and may hide itself after the dialog was closed, until
  its next check.
* The system information has no time limit, unlike all other steps of the start; the
  logger takes its configuration when it is initialized, so one that is answered after
  8 s is never used; the default source is picked once, from whatever list is there then.
* With observability off the logger queues what it will never send.
* Closing the image dialog resets its pictures "so the next open starts fresh"
  (`ImageSelectorModal.tsx:133`), but a page that was under way is appended to the closed
  dialog, whose thumbnails are fetched, and the next open begins with them and appends the
  first page once more (`disturbed`; `NoBlobLeak` counts the pictures of the closed dialog).
* A page of pictures is an offset: deletions and captures make the next page repeat or
  skip pictures. A list that fails ends the scrolling for good (`ImageSelectorModal.tsx:87`):
  the rest is seen only after the dialog was closed and opened (`LastPageReached` excepts
  this, `broken`). A processed
  image of the old picture may overwrite the card's new one.
* `applyStaticFilters` answers in any order, and a card closed while its session, camera
  or picture is awaited keeps what comes (`OnlyUnfinishedLeak` bounds this by `early`).
* At "half" or "quarter" the reported size is halved again with every render until it is
  160 by 120 or the camera has no smaller mode; "original" removes the constraint from the
  request only, the camera keeps its size. `SizeSettles` says that both loops end, the first
  for cameras whose sizes dwindle (`Dwindling`): one with the modes 640x480 and 480x640 only
  is switched between them for ever.
* A panel whose definitions are loaded again loses the order the user dragged and edits
  that were not reported; a filter the accelerator does not offer is dropped from the card.
* An uploaded picture is not in the drawer's list before the page is loaded again; toasts
  have no duration (`toast-context.tsx:23` passes null) and stay until clicked.
* One `savingKey` for all flags lets a second save of a flag begin before the first is
  answered; a save of one flag reloads the list and discards unsaved edits of the others. Of
  two lists under way, as after two saves, the older may be answered last and stays on the
  page: `RowsAreCurrent` excepts this (`crossed`).

## 6. What is proved

TLAPS checks these for every value of the constants (any number of streams, devices,
cycles and checks, any interval, budget, bound, window or element), from the modules' own
ASSUMEs only (the types of the constants, and that `NoConn` and its like are no members of
the sets they stand beside) and, where it is named, the hypothesis `SerialStarts`.

* **`ControlPlaneProofs`**, the control server. `TypeCorrect`: `Spec => []TypeOK`. `RegistryCorrect`:
  the three registry invariants together; none is inductive alone. `EntryHasOwner`
  survives `Add` only if the evicted stream is known to be cancelled, and
  `AcceptedIsRegistered` survives another device's `Add` only by the v1 guard and
  `EntryHasOwner`. One lemma covers all steps that leave the map alone, `AddStep` and
  `RemoveStep` the other two. `OwnerLeaves` and `Refinement` follow: of all steps only
  Add and Remove move the slot, and they map to Join, TakeOver, Leave or a stutter.
* **`AcceleratorProofs`**, the control client. `ClientTypeCorrect`, `NoUseAfterReturn`, `SessionsEnd`,
  `AbortsAreDeserved`, all from one inductive invariant: the type invariant; no more
  bumps than cycles dialed (`CycleBound`); threads exist only between ack and their
  join (`ThreadsJoined`); who holds the mutex is at a send (`WriterSends`), hence no
  cycle ends inside a Write; the pointers live exactly as long as the locals
  (`PointersLive`); every open session was noted (`SessionsNoted`), which is what makes
  the teardown complete although CreateSession may fail or throw; and a watchdog of the
  present generation means that this cycle's stream was cancelled
  (`WatchdogOfCancelled`).
* **`AcceleratorProofs`**, the session table. `TableKeepsTheLiving` needs who holds which
  mutex where (`MapLockHeld`, `SessionLockHeld`), that what a cleanup pass has to visit or
  to erase stays in the table for as long as the pass holds it (`RoundCurrent`), that a
  session is in the table once (`TableInjective`), and what a call in progress may rely on
  (`CallCurrent`): the control thread alone adds sessions, so at its id the table has its
  session or none, which is why erasing by id after the locks were released and taken again
  does no harm. `DeadlocksAreFinal`: no step of any thread leaves one of the four deadlocks.
* **`BirdWatcherProofs`.** `CapturesAreLimited`: the invariant says that
  `capture_times_` is a suffix of all captures and that those popped from it are older
  than the window, and that a worker that got past the gate still satisfies it when it
  saves, however late: time only makes the gate wider. `IdleIsThrottled`: while Idle,
  `last_idle_check_` is never older than the last inference of any kind; the end of an
  alert sets it. `LooksAndCapturesDue`: the two streak counters stand for the detections of
  the history since it was last cut (`StreakInv`), whatever frames were skipped or not
  decoded between, so a capture and the end of an alert follow full streaks.
* **`ControlPlaneProofs`**, the relay. `RelayIsControl`: the composition implements the control server
  it extends, step by step (each relay action is an action of `AcceleratorControl` with the
  relay's own effect, or leaves its variables alone), so that all that is proved of the server
  holds of the composition (`RelayKeepsRegistry`, `RelayImplementsSlot`). `ChannelsStaySafe`,
  `OnlyTheAckBypasses` and `SilenceLosesNothing` need three facts about what lies between: at which stage of its life an adapter may be
  subscribed and its channel closed (`Staged`); that whoever is inside `stream.Send` besides
  the ack holds `sendMu` (`Serialized`); and that an adapter that keeps up has received, or
  has in its channel, the numbers after the one it subscribed at (`Current`), where the
  envelope taken and the fan-out of the next may come in either order.
* **`SignalingSessionsProofs`.** `SessionsTypeCorrect` says of every call what it holds at
  which point (`BaseInv`). `PollsLoseNothing`: a poller's cursor is the one it began with or
  one its queue has reached, what it was given is exactly what its session heard between the
  two, batch after batch, and what the other calls take out of the queue are answers, never
  candidates (`PollInv`). `NoSessionIsLost` has the hypothesis `SerialStarts`, as the run has:
  what a StartSession detached stays detached until it installs its own object (`FindInv`);
  with two starts of one id at once the second install would overwrite the first.
* **`WebRTCServiceProofs`.** One invariant per session (`SessionInv`) relates where
  `createSession` stands to what the maps, the peer connection and the channel are:
  `AllOrNothing` alone says nothing of a channel that is still open when the maps forget it,
  from which the next event would fill them again. `EntriesAreWhole`, `OneReconnect` (a
  reconnect was asked for only while the flag that guards it is set or all is forgotten) and
  `NoGhosts` follow, and `ServiceKeepsPromises`: each of the service's steps is one of
  `BrowserSession` under the mapping, or a stutter; so what `FrameTransport`, which is
  composed with the promise, shows rests on the service for any number of sessions.
* **`FrameTransportProofs`.** Neither `OpenIsOwned` nor `NamesItsSession` is inductive: that
  attempts are one at a time, and the one under way is the one `connectPromise` names
  (`OneAttempt`), and that a picture being rasterized was captured for the present session
  (`RastersForIt`) hold only until a disconnect overtakes an attempt, and what a request's
  channel may be (`Provenance`) whether it does or not.
* **`PageProofs`**, the views. The grid: cards are numbered in the order they are built (`Numbering`),
  what a closed card leaves is known (`ClosedClean`), every connection and camera has its
  card (`Sessions`), the selection is a card and what was synchronised last is what its card
  carries (`Selection`); from these `ClosingReleases`, `PanelFollowsSelection` and
  the grid's half of `FiltersStayWithTheirCard`. The panel: the newest list is that
  of the selected accelerator, and it is under way, was refused, or is what the panel has
  (`Fetching`); the cards are the definitions, once each, in the order they
  were dragged to (`Listing`); and while a panel has no definitions it reports nothing, so
  the filters given to it are those of its card (`Keeping`). Hence `PanelAlwaysLists`, and the
  other half of `FiltersStayWithTheirCard`. The flags: while nothing failed and no two lists
  were under way at once, what the backend has is in a save that was taken, is what the list
  will find, is in the list, or is in the rows (`OnItsWay`). The upload:
  there is one, or the timer of one, exactly while the box says so. The statistics: one
  interval is armed and it is of the transport the row was read from (`StatsInv`), which a
  row read late cannot undo. The bar: loads are of runs there have been, and a cancelled one
  leaves the loading to the last (`NavInv`). `PageTellsTheTruth` is all of these three. The tour:
  `TooltipAlwaysInView` for every window with room for the tooltip and every element that
  shows; `PositionOnScreen` is the geometry, one clamp or one condition per side.
* **`PageProofs`**, the control channel. `CallsGoOutOnce`: a queued call has not been sent and
  is queued once (`Sending`), and a flush empties the queue it walks. `NoAnswerIsForgotten`
  is not inductive: the invariant says that while a call waits for an answer that was sent
  whole, *every* chunk of its answer is
  on the wire or kept (`Arriving`), and that of every unfinished message a chunk is missing
  (`Assembling`); when the last chunk on the wire arrives these two contradict each other
  unless the message is complete, which is counted by a bijection between the chunks kept
  and the numbers of all others (`AllPartsComplete`). Neither depends on which channel is the
  current one, nor on how many listeners a channel has.
* **`DashboardProofs`.** `NeverBlindHolds`: `NeverBlind` counts checks of the interval, but a
  good answer to one leaves everything as it is, so the inductive `Alive` leaves them out;
  the case that matters is a round that disarms the interval or the timer of another, and in
  it another rapid check or timer is left. `DialogAlwaysTrue`: while undisturbed, the list
  on the page is the accelerator's first pages and the page asked for is the next one, asked
  once (`Orderly`); a thumbnail under way, if it is not cancelled, is rendered (`Thumbs`).

Most inductive invariants were also checked by TLC on the instances of the runs, `ManagerInv` and
`ChannelInv` (with message ids up to 8) among them.

Only model-checked: everything temporal under fairness (the `~>` properties and
`FrameWakesWorker`, `EveryCallSettles` and the like), which is out of reach of the proof
system together with ENABLED. Of `MovesOnOrLocks` the action property `LockedForGood` is proved.
Every safety property of a passing run is stated by a theorem. What `filter` keeps of an array
of any length would be an induction over `SelectSeq`; it is written by positions instead (`Subsequence`), where a bijection does
(`Positions`), and the run `views` compares the two definitions on all short lists (an ASSUME
of `MCViews`).
No module uses RECURSIVE operators.

## 7. Not modelled

* Filters, kernels, inference, codecs and camera drivers (`adapters/compute`,
  `live_video_processor`, `adapters/camera/backends`): numeric or hardware work. What
  the rest of the system sees of them is nondeterministic input.
* Processing engine, pipeline, buffer pools: sequential. Cloud files, feature flags and
  configuration: stateless reads. Wiring, spans, counters and performance marks.
* Generated message classes (`src/front-end/src/gen`).
* Parts of the page that nothing mounts or calls: `VideoStreamer` with `useWebRTCStream`,
  `VideoCanvas`, `VideoSourceSelector`, `FileList`, `HealthPanel` with `useHealthMonitor`
  and `useAsyncGRPC`, `useConfig`, `useFiles`, the Videos tab with `VideoUpload` and
  `VideoSelector` (disabled), `services/feature-flags-service.ts`. Layout and drawing; the
  rows of gRPC and WebRTC in the statistics panel.
* React: when a state is rendered and effects run is modelled (a render after what was
  dispatched), what is on the screen is not.
* Not modelled although they have shared state: the streaming signaling handler, the device
  monitor, the camera hub, the accelerator's reassembler and its message dispatcher.
* Claims of earlier versions that are no longer checked, as they cost more than they say:
  that every goroutine of a cancelled stream ends, and that a dead signaling session is
  released (`sessions` states that it is not lost).

## 8. Plan

1. *Camera hub*: subscriptions, the unlocked start, frames after unsubscribe.
2. *Streaming signaling handler*: two forwarding loops, half-closed streams.
3. *Device monitor*: snapshot and registration, lossy pumps.
4. *WebRTC manager*: split the negotiation into its callbacks.
5. *End to end*: control client and control server joined by a lossy stream.

## 9. Running it

`tlc -config MCRelay.cfg MCSignalingRelay` checks a run (the pairs are in
`PROJECT.json`), `tlapm AcceleratorProofs.tla` a module of proofs. The longest runs
take three to four minutes on two cores.
