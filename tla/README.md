# TLA+ models of rn-playwright-driver

The repository drives a React Native app from Playwright tests. It has two
programs with control worth modelling:

* the **driver** (`packages/driver`), a library that a Playwright worker loads.
  It talks to the Hermes debugger through Metro over one WebSocket (the CDP
  client), and to a companion (an XCTest bundle on iOS, an instrumentation app
  on Android) that injects real touches;
* the **runner** (`packages/runner`), a command that brings the whole stack up
  for each platform (device, build, Metro, companion, app), runs Playwright
  and cleans up.

Around them are the in-app harness, the native modules, and the companions.

Paths below are relative to `src/packages/`. `PROJECT.json` maps every definition
that models code to its lines.

## Inventory

| Component | State it keeps | Operations | What makes it hard |
|---|---|---|---|
| CDP client `driver/src/cdp/client.ts` | `ws`, `pending`, `messageId`, `isReconnecting`, `reconnectAttempts`, `awaitPromiseSupported`, event handlers | `connect`, `disconnect`, `evaluate`, `ping`, `on`; socket events, timers, `attemptReconnect` | continuations that run after an `await` on a socket that has been replaced; late answers; a backoff that nobody cancels |
| RNDevice `driver/src/device.ts` | CDP client, event forwarders, exception buffer, touch backend and its description, pointer, `device.files` token | `connect`, `disconnect`, and every call a test makes | each step of `connect` can fail, and five resources have to come and go together |
| Discovery `driver/src/cdp/discovery.ts` | none | `discoverTargets`, `selectTarget` | pinning rules, polling against a deadline |
| Pointer and gestures `driver/src/pointer.ts`, `*-builder.ts` | backend, last position, "down" flag, builder steps | `down`, `move`, `up`, `tap`, `drag`, multi-touch | a position recorded after an `await`; merging of schedules |
| Touch backends `driver/src/touch/` | the socket, pending map and connect promise of the RPC client | `init`, `dispose`, the touch calls | a second request channel with different failure rules |
| `device.files` `driver/src/files/` | liveness token | `push`, `pull`, `remove`, ... | token checked, host command awaited, token checked again |
| Locators, `expect`, scrolling `driver/src/locator.ts`, `expect.ts` ... | none of their own | auto-wait loops, actions | stale handles, deadlines |
| Harness `driver/harness/` | trace ring buffer, registries | calls made through `evaluate` | buffer limits |
| Runner: plan execution `runner/src/cli.ts`, `runner/execute.ts`, `plan/*.ts` | position in the plan, handles, retries, exit code | steps, probes, Playwright, cleanup | failures in every step and in the cleanup, signals, crashes, what they leave to the next run |
| Runner: processes `runner/process-runner.ts` | map of tracked children | `spawn`, `probe`, `kill`, `killAll`, `freePort` | process groups whose leader and descendants die at different times |
| Runner: port ownership `runner/port-ownership.ts` | none | `classifyPortHolders`, `freePort` | act on an observation that is already old |
| Runner: target hooks `runner/src/target-hooks.ts` | none | `applyTargetHook`, insertion of steps | the project's processes share a map with the runner's, and only the runner's are killed by key |
| Runner: device resolution `runner/src/runner/resolve.ts` | none; the token file it makes | `resolveIosTarget`, `resolveAndroidTarget` | which of several devices is meant; each list is old when it is acted on; a failure between two files |
| Runner: configuration `runner/src/validate.ts` ... | none | parse, validate | mostly data |
| XCTest companion `xctest-companion/ios/` | one buffered path, sessions on threads of their own | answer touch requests, inject on the main thread | commands of one session handled during another |
| Instrumentation companion | a serial HTTP server, the time of the last down | answer touch requests | peer of the instrumentation backend |
| Native modules | handle registry of the view tree | query, screenshot, lifecycle, touch | platform code |

How they interact: the fixture (`driver/src/test.ts`) or a test calls RNDevice;
RNDevice awaits the CDP client, the touch backend and host commands; the CDP
client calls back through event handlers that RNDevice registers before it dials.
Locators, assertions and scrolling reach the app through `evaluate`: an expression
that calls the harness, which calls the native modules; between two of these
calls the app does what it likes. Gestures are sequences of calls of the touch
backend. The runner starts Metro and the companion as detached process groups,
hands the driver a token and a runtime configuration in files and in the
environment, and starts Playwright, in which the driver runs. Nothing is shared in
memory between the two programs.

What makes each modelled component correct:

* CDP client: a request that waits can be woken; an answer settles its own
  request only; at most one live socket; a lost connection is reported at once;
  an event is delivered once; `connect` and the reconnect loop end. `evaluate`
  returns the value of its own expression and leaves nothing behind in the app.
* Discovery: `evaluate` and `device.files` speak to the same device; a name
  decides or nothing does, whatever order Metro lists the runtimes in.
* RNDevice: a connection is there as a whole or not at all, whatever step fails;
  what was obtained on an earlier connection (a token, an exception, a pointer
  position) does not act on a later one; calls settle.
* `device.files`: what is read is the app's file, whole and within its limit, or
  an error that names the right reason, as long as the container stays where it
  was found; nothing outside the container is touched; no operation succeeds over a
  connection that is not its own.
* Touch backends and companions: a request that waits can be woken; a command that
  resolved is over on the device; a gesture is injected as it was asked for; the
  backend is the one the configuration means.
* Gestures: however pointers are merged, each does its own events at its own
  times; a finger does not turn back on its way; a gesture that returns leaves no
  finger down that it has to take up.
* Locators, assertions, scrolling: what a call says or does was right of the
  element it denotes at some moment of the call; every call ends.
* Harness: a trace is the newest events; the console stays the app's own; a fill
  lands in React's state and in the native view; frames waited for were rendered.
* Runner: cleanup runs to its end; nothing the runner tracks is alive after a signal;
  a Metro the runner does not own is neither started again nor killed; the exit
  code tells about every platform; freeing the port ends nobody else's process;
  what a project adds does not make the runner lose hold of its own; the device taken
  is one the run was told to take; a run ends.

## Modules

| Module | What it is |
|---|---|
| `RequestChannel` | What a request channel promises, without sockets, ids or timers: requests are issued once, settle at most once, and only by their own answer or locally. |
| `CdpClient` | The CDP client, one WebSocket after the other. Refines `RequestChannel`. |
| `CdpEvaluate` | `evaluate` over such a client and the app's runtime: awaiting, or stash and poll. |
| `Discovery` | The polling of Metro's list and the choice of a runtime. |
| `DeviceConnection` | `connect`, `disconnect` and `teardownConnection` of RNDevice, with the buffer of exceptions, the `device.files` token and the pointer's position. |
| `DeviceFiles` | `pull` and `push` over the three transports, the resolution of targets, roots and paths. |
| `XCTestTouch` | The XCTest backend's RPC client, one per connection of RNDevice, and the companion that serves them all. Refines `RequestChannel`. |
| `AndroidTouch` | `createTouchBackend`, the instrumentation backend with its companion, and `adb shell input`. |
| `Gestures` | The pointer, the gesture builders and the dispatch of what they build. |
| `ViewTree` | The screen of the app and the native module that queries and taps it. |
| `Locators` | Locators and assertions, polling a screen that changes. Extends `ViewTree`. |
| `ScrollIntoView` | The loop of `scrollIntoView` over the geometry of `scroll.ts`. |
| `Harness` | The harness in the app: trace buffer, console, frame counter, fill. |
| `PlanExecutor` | `main`, `runPlatform` and `executePlan` of the runner, with process groups, files and device mappings on the host. |
| `PortOwnership` | `freePort` with each of its observations, by several runs on one host. |
| `TargetHooks` | What a project adds to a plan, where it goes, and the processes under the runner's keys and its own. |
| `DeviceResolution` | Which simulator, phone or emulator a run takes, and the files it makes for it. |
| `CdpClientProofs`, `CdpEvaluateProofs`, `DeviceProofs`, `PlanExecutorProofs`, `TargetHooksProofs`, `XCTestTouchProofs` | Proofs about the modules they are named after, checked by TLAPS; `CdpEvaluateProofs` also about `Discovery` and `MCCdp`, `DeviceProofs` about the modules side by side in `MCDevice`. |
| `ScreenProofs`, `RunnerProofs` | Proofs about the modules side by side in `MCScreen`, and about `PortOwnership`, `DeviceResolution` and `MCRunner`. |
| `MCCdp`, `MCDevice`, `MCScreen`, `MCTouch`, `MCRunner`, `MCPlanExecutor` | Instances for TLC. All but the last put modules of one part of the system side by side. |

Modules are put side by side where one rests on what the other promises and not on
how it keeps the promise: `CdpEvaluate` on requests that settle by their own answer
or locally (`RequestChannel`), `DeviceFiles` on a token that ends with its connection
(`NoOrphanToken`), `Gestures` on a backend whose commands settle. In such a run the
variable `part` says which of them a behaviour is about, the others stay as they
began, and fairness is asked for only of the part that moves. What the interface
leaves open is nondeterministic on the far side: every request `CdpEvaluate` makes
may be lost, every `evaluate` of `Locators` may fail.

### CdpClient

JavaScript runs one callback at a time, and every continuation a callback made
runnable runs before the next callback. The model keeps this: actions guarded by
`Quiescent` are callbacks (socket events, answers, timers, calls of the user),
the others are continuations of `doConnect`, `detectAwaitPromiseSupport` and
`attemptReconnect` (`AfterOpen`, `AfterEnable`, `DetectAwaitPromise`, `AfterProbe`, `Finish`,
`AfterReenable`, `AfterFail`). Every WebSocket ever created has a state, the number
of times the message, close and error handlers are attached to it, and the place
(`proc`) of the `doConnect` that made it; so a stale `doConnect` that resumes after
its socket was replaced is simply another socket's `proc`, and acts on whatever
`ws` is then, as the code does.

Every request has an identity of its own (`issued`) besides its id (`messageId`);
`answer[n]` names the request whose answer settled `n`. That an id is never
mistaken for another request's is therefore a claim, not a convention. What a
request carries is left out. `send` issues its request before it returns a promise,
so an `await` on a request is `SendAndAwait` followed by an `After...` action.

### CdpEvaluate

An evaluation `e` is in a `phase`: what it awaits, or how it ended. Its request is at
the runtime (`request`), its answer under way (`reply`); a request the client gave up
on is still run, and its answer is dropped. In a runtime that does not await promises
the expression leaves a promise (`appPromise`) whose callback writes the global
(`stash`) whenever it settles, also after the client has deleted the global. The
answer of the probe (`believed`) is kept for the life of the client while a reload
may put another kind of runtime in its place (`native`).

### Discovery

A runtime has the device it runs on, which Metro does not tell; `wish` says which
device the caller means. Names are sequences of words, so that containment and
the parenthesis at the end of a title can be told apart from equality. The list
may change between any two polls. It is a function on the places the runtimes had in
Metro's answer, and what is chosen is the set of its place, empty where the code throws.

### DeviceConnection

Calls of `connect` and `disconnect` are numbered, and every resource is named by
the call that brought it up: `ws = backend` reads "the current socket was opened
by the `connect` that installed the current backend". A step is what runs between
two awaits. `Teardown` is the synchronous part of `teardownConnection`, in which
everything is dropped; `TeardownDone` is the end of its `await`, at which
`dispose()` may have failed. The CDP client is reduced to its socket: RNDevice
creates it without `autoReconnect` (`device.ts:109`).

### XCTestTouch

Both ends of the touch connection, because what the caller of a touch call is
promised depends on both. A request is named by its number (`issued`) and has an
id besides, as in `CdpClient`; a point of the path is named by the request that
brought it. `inbox` and `outbox` are the two directions of a connection, `session`
is what the thread of a session does: it handles its frames in order, and waits for
the main thread (`Hands`, `MainStarts`, `MainEnds`) when a command injects. `path` is the
companion's one `pendingPath`; `asked` is a history variable, the path each session
asked for by itself, and `crowded` marks what was handled while two sessions had
work. When the connection is lost or closed, frames that were sent before may
still be handled, in order, up to any point. Of a drag only the first and the
last point matter (`flushPendingPath`). Two threads that access `pendingPath` at once
are a data race in Swift; the model takes the accesses as atomic, so what it shows
to go wrong does so without the race.

### AndroidTouch

A session is one `createTouchBackend`: the order it builds from the configuration,
the places of it that it tried and where it stands. The companion accepts one connection
after the other: `backlog` holds those it has not accepted, in the order they were
made, among them requests that were given up or cut short (`cut`); `handling` is the
command it performs, event by event, so that an exception or the end of the process
leaves half a stroke behind. `stream` is a history of every event the device has
seen, named by the request that caused it. An `adb` that is given up does not end the
`input` process on the device (`running`).

### DeviceFiles

An operation is a record: its object, its step, what it holds, what it has touched
and why it failed (`cause`, which the code does not have). Each step ends at an
await, and each look at the token is where the code has it. Bytes are reduced to
their number, since what can go wrong is their number: a file that grows or
vanishes while it is read, output cut at the limit, a tool's words taken for
content. When the app is installed anew, its container goes and another comes, and
`found` (history) is the installation there was when the operation looked for its
container. A push that is under way then makes the old path again, as `mkdir -p` and
`writeFile` do: what stands there is the `relic`, which later operations that still have
the old path cached may find in place of the container. A path is the sequence of its
segments; `d` may be a directory or a link that leads out of the container, and is not the
name of a file
(`DirectoryAssumption`). A symbolic link in the place of the file itself is not
modelled.

### Gestures

A gesture is the sequence of its events, each with its time: what the waits of its
builder before it add up to. `Merged` sorts those of several builders as the code does, by
time and then by the order of the builders (`Before`): an event goes where as many are before it.
`Paced` makes the plan of the result, where each event waits for what its time is after the last
one's. `own` keeps what each pointer was to do by itself, so that what was dispatched can
be compared with it. Places are on a line, in units that every number
of steps in use divides, squared, so that eased points are integers. `fingers` is what
is down on the device, and by which connection: an event may get there although its call
fails, and an up over one connection may or may not lift a finger that another one put down.
`course.over` is the connection that the last event of the gesture went over.

### ViewTree, Locators

The screen is a column of elements with a testID, a height, a place, and the number
of times they were mounted: a handle names a mount. What a traversal finds is a set,
in the order of the elements' numbers: `At` and `Nth` take one of it as an index does.
Places overlap, and an element with a greater number lies in front
(`Covers`, `Covered`); a touch of a place goes to what is in front there, or through it
if it is disabled (`Takers`), and a native tap to the view of the handle or to whatever the
window finds at its centre (`NativeLandings`), by the strategy that worked.
A query and the decision on its
answer are one step; what it answered is old when the next step uses it. `scope` is
what a scoped locator keeps of its parent, the bounds at its first lookup; it has
`drifted` once the parent is no longer the one element of its testID at these
bounds, because it moved, went, or is not alone any more. `seen` is
a history of everything that was true of the denoted element during the call: a
call that polls can be held to no more than one moment, and `LocatorTold` holds it
to that.

### ScrollIntoView

Lengths are in units of 16 points. Two axes, content that is mounted only near the
window, swipes that may be swallowed, and content that moves on after a swipe
(`coasting`), half of the way or until it comes to rest. Settling samples the
position along the axis of the last swipe only, so the other axis may still move; a
blind swipe is not waited for at all (`blind`).

### Harness

One call at a time, in any order with the app's own console calls, its renders and
frames. `heard` is the history of events the trace is compared with. `console` counts
the wrappers around the app's console, so that a second patch, or a restored
wrapper, shows.

### PortOwnership

A run lists the listeners, looks at each process (its executables and its command
line, which are gone if the process is), lists the forwards, classifies, removes and
kills; between any two of these processes come and go, and a new one may get an id
that was used before (`reused`).

### PlanExecutor

`IosSteps` and `AndroidSteps` are the plans of `plan/ios.ts` and `plan/android.ts`,
reduced to what each step does to the world; consecutive foreground commands that
leave nothing behind are one step. `processes` is the map of `executePlan`,
`children` that of `NodeProcessRunner`, `group` the live members of each process
group, `held` the files, mappings and the hosted companion that are there. They
are host state: a crash of the runner clears the maps and keeps `group` and
`held`. `leaked` is what lives on of a group after its `kill()`, which sends SIGKILL only
while the leader lives and forgets the key in any case. When the next platform or the next
run begins, `group` and `leaked` become nobody's (`Abandon`). `userMetro` is a
Metro that somebody else started, `strayMetro` one that an earlier platform or run left.

### DeviceResolution

A resolution goes from step to step, each of which ends at an `await`; between any two
a device may boot, shut down, come or go. `PickSimulator`, `PickPhone` and `PickSerial` are
the three functions of `resolve.ts` that choose, as the set of what is chosen: empty
where the code throws. Texts are sequences of words, so that containing a name,
being that name and being an id are three things. `listed` and `phones` keep what
the choice was made from, `files` what is on disk, `failedAt` the step that threw.

### TargetHooks

`ApplyTargetHook` inserts the project's steps into a plan that is reduced to the steps
that start or await a process and to the anchors of the insertion; the plan of a
physical device, with the forward of its port, is one of the four. `handles` is
`executePlan`'s map and `tracked` that of `NodeProcessRunner`, as in `PlanExecutor`, but an
entry is a particular group, so that two processes under one key can be told
apart; a spawn that fails leaves an entry without a process id until its `error`
event (`erring`), which then deletes whatever is under the key. Node.js emits that event
before anything that is awaited comes back, so most steps wait for it (`Heard`). A group
dies as a whole, since `PlanExecutor` has its members.

## Runs

| Run | Configuration | States | What it shows |
|---|---|---|---|
| `cdp_plain` | no auto-reconnect, 3 sockets, 1 user request; 2 evaluations, 2 polls, 1 reload; 5 runtimes of which 3 listed, 7 wishes | 99 829 | client: `TypeOK`, `WaitingIsPending`, `SingleLiveSocket`, `NoWaitOnDeadSocket`, `EventsHeardOnce`; evaluations and discovery: `OwnAnswer`, `StashEmptied`; all: `EveryCallEnds` |
| `cdp_reconnect` | auto-reconnect, 2 attempts, 3 sockets, one request of the user | 675 073 | `NoCrossTalk`, `ReconnectEnds`, and that the client implements `RequestChannel` |
| `cdp_second_socket` | auto-reconnect | violation | `SingleLiveSocket` fails: a backoff outlives `disconnect()` |
| `device` | awaiting caller, 4 calls, buffer of 2; one file operation, 2 connections, 4 targets, 3 paths; 2 touch sessions, 4 requests, 4 configurations | 321 410 | connection: `TypeOK`, `CapabilitiesAgree`, `NoOrphanToken`, `OneSocket`, `NothingLeftBehind`, `CompanionAccountedFor`, `NoStaleException`; files and Android touches: `DoneAsTold`, `FilesNeedConnection`; all: `EveryCallEnds` |
| `device_overlap` | overlapping calls | violation | `CapabilitiesAgree` fails: `connect` is atomic only if calls do not overlap |
| `device_pointer` | awaiting caller | violation | `NoStalePosition` fails: a pointer command over a reconnect |
| `screen` | 3 elements, 2 changes of the screen, one call; 6 places and 3 lengths, 4 scrolls, 2 swallowed; 4 events in a buffer of 2, 2 frames, 1 reload | 354 098 | `LocatorTold`, `ActionLands`, `ScrollAsTold`, `HarnessKeepsFaith`, `EveryCallEnds` |
| `touch` | 2 connections, 3 commands of down, move and up, 2 waiting; 2 gestures over 2 connections | 524 319 | `TypesOK`, `WaiterHasSocket`, `ResolvedMeansInjected`, `GestureInjectedAlone`, `GestureAsAsked`, `InitSettles`, and that the client implements `RequestChannel` |
| `touch_sessions` | the same, each command awaited | violation | `UpInjectsPath` fails: two sessions share the path |
| `runner` | both platforms, Metro reuse allowed, 1 retry, 2 invocations, stubborn leader and descendant; 3 runs over one port, 2 ids, 2 starts; an iOS target of each kind and then Android, 4 contributions; 41 requests, 3 simulators, 3 phones, 2 of `adb`'s devices, 1 change among them | 993 107 | `TypesOK`, `CleanupComplete`, `SignalKillsGroups`, `ReusedMetroNotStarted`, `ExitCodeTells`, `OwnershipKept`, `RunEnds` |
| `runner_signal` | iOS, one invocation | violation | `SignalRemovesFiles` fails: files survive a signal |
| `runner_rerun` | two invocations | violation | `RerunNotRefused` fails: a killed runner's Metro refuses the next run |

`OwnAnswer`, `DoneAsTold`, `ScrollAsTold` and `TypesOK` also hold the type invariants of the
modules they are about; their parts have names of their own (`OwnValue`, `RightRuntime`,
`FilesTrue`, `AndroidTold`, `ScrollTold`). `OwnershipKept` is `PortKept` of `PortOwnership`,
`HooksKept` of `TargetHooks`, and `ResolvedAsAsked` of `DeviceResolution`. The second is
`NoneForgotten` (a live group is in the map that kills
go by, and a signal ends it), `OwnGroupsEnded` (nothing the runner started outlives its
plan) and `HooksInPlace` (the order of `SPEC.md` REQ-HOOK-006). The third is `NoneAdopted` (no
device but one that is named, or that may be adopted), `ExplicitWins` (an id in `--device`;
without `--device` an id in the destination; the very name over a part of it), `BestAdopted`, `OthersAreOthers`,
`FilesAccountedFor` and `TakenIsBooted`.

Bounds, and why they are enough:

* `MaxSockets` 3 lets a stale `doConnect` meet a second and a third connection; two
  sockets suffice for every mutant and finding. With two reconnect attempts it
  covers a connection, both of its reconnects, and giving up; a larger instance
  (4 sockets, 1.3 million states) was checked for `ReconnectEnds` as well.
* Each connection sends up to three requests of its own, so up to nine requests
  with those of the client alone; one user request adds a request that no
  `doConnect` waits on.
* Four calls of RNDevice are `connect`, `connect` (reconnect), `disconnect`,
  `connect`, in any combination and order. A buffer of two exceptions can be
  empty, partly full and full; the code's limit is 64.
* Two connections to the companion are what it takes for a command of one to meet
  the other; three commands are a gesture with a point between its ends, or one
  command left over and a gesture. `tap` was left out of the run's commands for
  size (with it and one command waiting, the run passes too): it takes the same
  way through the main thread as `up`.
* Two invocations with two platforms each: what the first leaves behind meets the
  second, and platforms meet each other. One retry is the smallest number that
  distinguishes first and last attempt; the default is one more.
* `Stubborn` holds both members of a group, so that any subset outlives SIGTERM; then
  `OnlyStubbornLeak` still says that no leader does outlive a `kill()`. What it says of
  descendants, for every `Stubborn`, is proved.
* Two evaluations are what it takes for one to meet the other's global, two polls
  for an outcome to come between them; what an evaluation that was given up leaves
  behind meets the second. One reload changes the kind of the runtime.
* The wishes of `Discovery` are one for each way to choose (id, exact name, part of a
  name, index, nothing) with and without a pinned target; three of five runtimes on
  a list are enough for two to match a name and a third not to.
* One file operation at a time: operations share only the cached container and the
  file, and what another operation does to these, the app and a reinstallation do
  as well. A limit of two bytes more than nothing (`MaxBuffer` 1, `Headroom` 1)
  has sizes below, at and beyond each of the limits the code compares with.
* Four requests on Android are a gesture of three commands with one more before it, a
  `hello` or a command that was given up; `MaxFailed` 1 allows one of those at a time.
* One call of a locator, which polls: the bounds it keeps of its parent grow stale
  within the call, between two of its queries, and no property relates two calls. Two
  changes of the screen let an element go and another come between two steps.
* The places and lengths of `ScrollIntoView` are: in view, partly in view on either
  side, out of view, not mounted, and beyond the end of the content; an element
  smaller than the window, about as tall, and taller than what the insets leave.
* A trace buffer of two over four events turns over twice; the code's limit is 1000.
* Of `Gestures`, two connections and two gestures: one that is cut and one after it.
* Two ids of processes and two starts let a listener be replaced, under its own id
  or another, between any two observations.
* Of the simulators one has a name that is part of another's, two have the same iOS; of
  the phones one has the name another has as its model, and one is no phone. The
  requests ask by id, by name, by a part of a name, by destination, and by
  nothing, with and without each permission. `MaxAltered` 1 changes one device at any
  moment of the resolution: no step compares more than two moments.
* The contributions of `TargetHooks` start a process at each of the three places, under a
  key of the runner's before and after the runner's own, and twice under one key;
  the second target starts its processes under the same keys again.

Deadlock is not checked in the CDP, device, screen and touch runs because those
systems may stop: a bound is reached and nobody calls any more. In the `runner` run
a Metro, or a process, can always come or go, and deadlock is checked; what is over
(`HookOver`, `Resolved`) stutters.

### Fairness

* `CdpClient`: the event loop runs what is runnable (`Continues`), a dial succeeds
  or fails, a timer that is armed fires, a backoff elapses. These are timers and
  the operating system. No fairness is given to answers, to calls of the user, or
  to a close by the peer.
* `DeviceConnection`: every `await` of a call ends: discovery, requests and probes
  have deadlines in the driver, a dial one in the operating system.
* `XCTestTouch`: a dial ends (it has a time-out), a request's timer fires, `init()` goes
  on once its request settled. Nothing is assumed of the companion.
* `CdpEvaluate`: the timer of a request and the deadline of the polling fire. Nothing is
  assumed of the runtime, the app's promise or the connection.
* `Discovery`: the next poll comes (`discoverTargetsUntilReady` sleeps in between).
* `DeviceFiles`: host commands end (they have time-outs), files can be read to their end.
* `AndroidTouch`: the time-out of a request and of `adb` fires; `init()`, which awaits
  one `evaluate` or one command, ends.
* `Locators`: an `evaluate` ends and a sleep ends (weak), and the deadline of a loop is
  not for ever passed over (strong: the step that finds the deadline passed is
  enabled again and again between queries).
* `ScrollIntoView`: queries and swipes end, content comes to rest. That samples which
  are equal mean rest, and rest comes within the two seconds `settleAfterScroll` waits,
  is assumed of the platform.
* `Harness`: the deadline of `waitForRaf` fires; no frame need ever be rendered.
* `PlanExecutor`: the runner goes on (`RunnerStep`): probes have deadlines, `kill`
  waits 500 ms, commands return. The last is an assumption on the tools called.

### What the properties except

* `ConnectSettles`: `disconnect()` while a socket is being opened removes the
  listeners that `doConnect` waits on (`client.ts:106-122`). That `connect()` never
  settles, and the property excepts precisely this state.
* `ReconnectEnds`: the same in the dial of a reconnect leaves `isReconnecting` up
  for good, and later closes are then not reconnected. The property excepts this
  state (`DialSilenced`), and the state in which the bound on sockets is used up.
* `OwnValue`: the probe for awaited promises is made once per client. After a reload
  into a runtime that does not await, `evaluate` returns a promise object in place of
  a value; the property excepts evaluations after a reload.
* `StashEmptied` speaks of evaluations that ended with the outcome of their expression:
  one that was given up may leave a global (`client.ts:315`).
* `SameDevice`: with a single runtime on the list and no selector, `connect` takes it,
  whichever device it is on, if the pinned device's own runtime is not listed; and
  two runtimes of one device are told apart by nothing but their order.
* `DragsWhole`: a command that was given up on `adb`, or on the companion while `adb` is
  in use, comes at any time, also in the middle of a later drag (`Stray`).
* `LocatorTold`: a scoped locator filters by the bounds its parent had when it was
  first asked for; once the parent has moved, or another element has its testID
  (`drifted`), the property says nothing. `not.toBeVisible` takes an `evaluate` that
  failed for an element that is gone (`unheard`).
* `ActionLands`: nothing looks again between the answer and the action, nor at what lies
  in front. An element that changed after it was found (`disturbed`), or whose centre another one
  covered when a tap found it (`covered`), may be missed.
* `ScrollTold`: a `scrollIntoView` that saw nothing swipes blindly and does not let such
  a swipe settle; while that motion has not come to rest (`blind`), it may return with
  the element on its way out of view.
* `GivesUpLate` (in `EveryCallEnds`): an element about as tall as the window, from which
  less is missing than the shortest swipe, is swiped to and fro (`near`).
* `FingersLifted`: a finger that an earlier connection put down than that of the gesture's
  last event may stay down: what is left of it is between the device and that connection.
* `FilesTrue`: when the app is installed anew after an operation had found its container
  (`Superseded`), the operation goes on with a path that is gone, and a push makes it again. What
  is done in such a `relic` afterwards looks like any success.
* `CleanupComplete`, `SignalKillsGroups`: of a group whose leader has ended, `kill()` leaves the
  descendants that outlive SIGTERM by 500 ms (`OnlyStubbornLeak`). What an action of the
  cleanup could not remove stays (`failed`), and so does the token file if planning threw
  anything but a `TargetHookError`.
* `ExplicitWins` says nothing of a name in `--device` beside an id in the destination.
* `OthersLeftAlone`: a process under an id that was used again after it was listed is
  ended in place of the other (`reused`).
* `TakenIsBooted`: a device that shuts down after it was asked is taken all the same.
* `NoneForgotten`, `OwnGroupsEnded`: a process under a key that is in use takes the place of
  the other in both maps; if one of the two is the project's, the first is
  `displaced` and the properties say nothing of it. Between processes of the runner
  alone it cannot happen, which is part of what is proved. What a project starts
  and does not clean up outlives its plan (`SPEC.md` REQ-HOOK-007).

Most of these are states the code accepts and nothing in the repository denies; the property
names them so that nothing else passes. Behind four of them is a disagreement with what
the repository says of itself. The passing runs except them, and they have no run of their own:

* `--device`. `runner/SPEC.md:232` (REQ-CLI-007) and `SPEC.md:280` (REQ-OWN-001) say that it takes
  precedence over what the configuration prefers. `--device <name>` gives way to an id in
  `ios.destination` (`resolve.ts:221`); and a configured `ios.destination` is what `xcodebuild` is told
  also where `--device` named another device, by name or by id (`resolve.ts:60`, `resolve.ts:76`).
* Descendants. `runner/SPEC.md:582` says that a completed run leaves no stale companion bound to the
  touch port and no orphaned Metro, and `SPEC.md:254` (REQ-METRO-004) that Metro is terminated in
  cleanup. `kill()` sends SIGKILL only while the leader lives and then forgets the
  group (`process-runner.ts:104`), so a descendant that ignores SIGTERM lives on when its
  leader does not. `killAll()` no longer knows it either.
* The container. `driver/SPEC.md:165` (REQ-FILES-007) has NOT_FOUND for a missing path and
  TRANSPORT_FAILED for failures of the tool, and `transports/simctl.ts:41` says that a container
  that vanished is the latter. `resolveInsideContainer` looks once. If the container goes after that, a
  pull says NOT_FOUND (`mapNodeFsError`), either says UNSUPPORTED if it goes while
  the path is resolved, and a push succeeds: `writeFile` (`host-fs.ts:95`) makes the path again, where
  no app reads it.
* The token file. `cli.ts:213` says that a failure to plan does not leak a file. One that is not a
  `TargetHookError` does (`cli.ts:326`). The validation of the configuration excludes what the planners
  throw, so what is left is a contribution of the project that throws when it is read.

## Findings

1. `SingleLiveSocket` (`cdp_second_socket`): `attemptReconnect` sleeps and then dials,
   whatever happened meanwhile. A close, `disconnect()`, `connect()` and the end of
   the backoff leave two open sockets. RNDevice does not turn auto-reconnect on;
   users of `CDPClient` may.
2. `CapabilitiesAgree` (`device_overlap`): `disconnect()` during platform detection
   tears the socket down, and the pending `connect()` then installs its backend,
   pointer and token over no socket.
3. `NoStalePosition` (`device_pointer`): the position is recorded after an `await`,
   on a pointer that belongs to another connection by then.
4. `UpInjectsPath` (`touch_sessions`): the path belongs to the companion, not to a
   session. A command of a session whose client gave up and was disposed of is
   handled when a new session has buffered its path, and the new session's `up`
   injects a drag nobody asked for, or none. An injection holds as long as the gesture it replays
   took, and a request times out on its own, so the overlap needs no unusual timing.
5. `SignalRemovesFiles` (`runner_signal`): `SPEC.md` says that cleanup runs on every
   exit path, signals included; the signal handler kills groups and exits.
6. `RerunNotRefused` (`runner_rerun`): `SPEC.md` says that a run after a crashed one
   needs no manual intervention; the Metro the crashed run left makes the port
   preflight fail.

## Proofs

`CdpClientProofs` proves, for every number of sockets, attempts and requests, with
or without auto-reconnect, under the assumptions of `CdpClient` on its constants:

* `TypeCorrect`: `Spec => []TypeOK`;
* `WaitersCanBeWoken`: `Spec => []WaitingIsPending`;
* `AnswersDoNotCross`: `Spec => []NoCrossTalk`;
* `ImplementsChannel`: `Spec => ChannelSpec`, the refinement of `RequestChannel`;

and, without auto-reconnect, which is how RNDevice uses the client,

* `OneLiveSocket` (`SingleLiveSocket`), `LossIsReported` (`NoWaitOnDeadSocket`) and `EventsOnce`
  (`EventsHeardOnce`).

None of these but the first is inductive as it stands. `Inductive` proves the invariant
they follow from, `IInv`: besides the types, the last id is the number of
requests issued, ids are never used twice, so that the id of a request, its index
in the map and its identity coincide; what is pending is unsettled and what is
unsettled is pending; only issued requests are owed. With ids that may repeat, an answer could meet
another request under its id and `NoCrossTalk` would not follow: that is the
mutant `SendReusingIds`. The theorems about sockets add `OneSocket`: only `connect` dials, and
only while `ws` is empty; every socket other than `ws` is unused or closed; while
an open socket waits for its handlers nothing else can run; and whoever waits,
waits for the open `ws`. With auto-reconnect its first part fails, and `cdp_second_socket` is
the counterexample to the rest. The proof has a lemma for each of the few things that can
happen to the requests (one is sent, all are rejected, one settles, nothing), and
every action is one of these as far as requests are concerned.

`DeviceProofs` proves of `DeviceConnection`, for every number of calls and every size of the
buffer, `TypeCorrect` (`Spec => []TypeOK`, for any caller) and, for a caller that
awaits one call before it makes the next (`Sequential`), each safety property of the
connection that the `device` run checks: `ConnectIsAtomic` (`CapabilitiesAgree`), `FailureLeavesNothing`
(`NothingLeftBehind`), `AtMostOneSocket` (`OneSocket`), `NoTokenSurvives`
(`NoOrphanToken`), `CompanionNotLeaked` (`CompanionAccountedFor`) and
`ExceptionsAreCurrent` (`NoStaleException`). The assumption cannot be dropped:
`device_overlap` is the counterexample. `Inductive` proves the invariant they
follow from. `OneInFlight` says that calls are made in order and all but the latest
have settled; `Stage` says what is up of a connection as a function of where the
latest call stands; `Bundled`, `OnlyCurrent` and `Disposal` tie the capabilities, the sockets
with the buffer, and the companions to it. Three lemmas cover the steps: a teardown
takes everything down whoever runs it, a call goes on, and the app, the network
or an operation of the test acts.

Of `DeviceFiles` the module proves, for any paths, targets, limits and numbers of
operations and connections, `FilesToldTrue` (`FiSpec => [](FiTypeOK /\ FilesTrue)`) and
`TokenIsChecked` (`FilesNeedConnection`). The invariant, `FiInv`, is about every operation
by itself. `Route` says what it is and by which transport it goes, as a
function of where it is. `PlaceSound` says that its place has no `..` and, once it was found inside the
container, does not lead through a link, although directories are made meanwhile;
it needs that the deepest ancestor that exists decides (`ContainedIsInside`).
`ResultSound` says that nothing is decided before the transport is done, and that a push still
holds what it was given. `ContainersKnown` says that no container is known of an installation yet to
come, and, by `SiteKnown`, that an operation which met a container that had gone is one that found it
before the app was installed anew. What a step does to one operation is one of three things, with
a lemma each: the transport goes on, concludes, or refuses (`Proceeding`, `Concluding`,
`Refusing`).

Of `AndroidTouch` the module proves, for any configurations of the backends, any
numbers of sessions and requests and any schedule of companion, `adb` and crashes,
`TouchesToldTrue` (`AnTypeOK` and `AndroidTold`): the backend selected is the first usable
one of the order, a command that resolved was injected once and whole, and a drag whose
commands all resolved is on the device in its order, with nothing between but strays of requests
that were given up. The invariant, `AnInv`, is proved in `TouchesInductive`:

* `Asked`: requests are numbered as they are made, and only the latest can be waited for.
* `Selected`: one session is being made or in use at a time; the places it tried are the
  first usable ones, and the latest request is its hello while it tries the instrumentation.
* `Queued`: the companion takes connections in the order they were made, whether or not
  somebody still waits, so whatever it still has to do is later than all it answered; an
  `adb` that still runs has not injected anything.
* `Ordered`: hence an event after one of a later request is that of a request given up. Without
  `Queued` the events of a later command could have come before.
* `Performing`, `Performed`: what is done and what is left of the command in hand make the whole
  command; so what is answered with ok is done.
* `Dragging`: as long as the latest request that is done belongs to a drag, the finger is
  down for the companion and `lastXY`, or the `lastPoint` of the `adb` backend, is where it
  was moved to last, so that an `up`, which has no place of its own, lifts there. It has to
  speak of an `up` in the backlog and in hand too, since the companion forgets the finger when
  it starts on it.

There is a lemma for each part that a step keeps it, and before those one
about what a step changes at all (`WhatChanges`). Rejected requests are what makes it
hard: they stay in the backlog and are still performed.

`DeviceIsItsParts` takes the three to the composition in `MCDevice`, where
`DoneIsDone` is `DeviceSpec => []DoneAsTold`.

`CdpEvaluateProofs` proves, for every number of evaluations, polls and reloads,
`EvTypeCorrect`, `EvaluateReturnsOwn` (`OwnValue`) and `EvaluateLeavesNothing`
(`StashEmptied`). The invariant, `EvInv`, says how far the four places of a call can be
apart: which request can be at the runtime in which phase (`Asked`), what can be under
way to it (`Answered`), and that a call has a global or a pending promise only
while it polls or after it gave up (`StashOwn`). It is needed because a request that was
given up is still run: without it a poll of a call that is over could take the
global from one that is not. Of `Discovery` the module proves `RuntimeIsRight`, for any runtimes, options
and changes of Metro's list, and with the above `AnswerIsOwn` (`OwnAnswer`) of the composition.
The argument is that what is chosen by name is the only one of a set of places (`Only`), and a
rearrangement, being onto, takes this set to the set of the rearranged list (`NamesAreMoved`).

`XCTestTouchProofs` proves, for any commands and every number of connections,
commands and commands that wait at a time, `TypeCorrect`, and each safety property of
the touch run: of client and companion `WaitersHaveSocket` (`WaiterHasSocket`), `ResolvedIsDone`
(`ResolvedMeansInjected`), `GestureAlone` (`GestureInjectedAlone`) and `ImplementsChannel`
(`ChannelSpec`). The invariant has five parts. `ReqInv` is that of the CDP client, an id
counter for each backend. `Wiring` orders the connections: one that has begun comes
after all that were disposed of. `Frames` and `Threads` say that a session has only
what its own backend sent, and that a response says of a tap or an up only that it
is done. `Paths` is what makes a gesture right over a buffer that belongs to nobody:
if the session's path began with a down that was taken up while no other session had
work, the buffer is that path, or the connection is gone and everything left to do of
it is marked as crowded; so an earlier session, which is all another session can be
to it, either had nothing left or is known to interfere. Each of the seventeen actions
then either leaves the buffer, the session and the threads alone (`PathKept`) or is one
of four with a lemma of its own (`BuffersKeepsPaths`, `HandsKeepsPaths`,
`MainStartsKeepsPaths`, `MainEndsKeepsPaths`).

Of the gestures the same module proves `GesturesAreAsAsked` (`GestureAsAsked`), for any places,
interpolations, holds and any number of gestures and connections, and with `TypeCorrect`
`TouchTypes` (`TypesOK`); `TouchIsItsParts` carries what is proved of a part over to the
module that is checked. The argument has three steps.

* Arithmetic: what an easing makes of a step goes up with the step (`EasedGoesUp`), so the points of
  a move go one way from where it begins, rounded as they may be (`MovesGoOneWay`), and what
  `down`, `moveTo` and `up` build is a stroke that goes straight (`StrokeIs`, `FingerIs`).
* The merge: `Before` is a strict total order (`BeforeIsOrder`), so counting what is earlier
  gives each event a position of its own, and all positions are taken (`PositionsOrder`, `SortedIs`).
  The k-th event of a pointer is then the k-th of that pointer in the merged sequence, and
  none is missing (`MergedIsFaithful`), for any number of builders with different pointers.
  `ProgramsAsAsked` and `MoveAsAsked` say this of every gesture there is.
* The invariant (`GeInv`): there are a faithful sequence `w` and a number `d` such that what the device has
  done is the first `d` events of `w`, the plan is the rest with its waits, and what was
  dispatched is as much, or one event more (`Course`). That a finger is up needs more than the last
  event's return: its last event so far was an up, it was put down by no connection later than
  that up's, and connections only get later. `GestureAsAsked` alone is not inductive: it says
  nothing of what is still planned.

`PlanExecutorProofs` proves, for any sequence of platforms, any number of retries and
invocations and any stubborn members, `TypeCorrect` and each safety property of the
runner's plan: `CleansUp` (`CleanupComplete`), `SignalsKill` (`SignalKillsGroups`),
`ReusedIsLeftAlone` (`ReusedMetroNotStarted`) and `ExitCodeIsTrue` (`ExitCodeTells`). `PlanInvariant`
ties what is on the host to the place in the plan: a live group is tracked, no later
step spawns under its key, and once the steps are over an action that kills it is
still to come (`GroupsTracked`); what is held during the cleanup is still to be released or
its action failed (`RestIsOwed`); what a `kill()` may leave is stubborn and not a leader, for
a group of which anything lives is tracked, and a leader that lives is sent SIGKILL (`Leaks`); a failure is in the result under way or in the exit
code (`FailureKept`). That the cleanup of each plan undoes its steps is thereby a lemma
about the two plans, and the rest is the executor's.

`TargetHooksProofs` proves `HooksAreTyped`, `NoneIsForgotten` (`NoneForgotten`), `OwnAreEnded`
(`OwnGroupsEnded`) and `HooksAreInPlace` (`HooksInPlace`) for any targets and any contributions. It first shows that a plan stays
a good one (`GoodPlan`) wherever steps of a project are inserted: what the runner starts
has a key of its own that the cleanup kills (`InsertGood`, `HookedPlanGood`). `HookInv`
then says that a handle is what is tracked unless that was deleted (`Entered`), and that a live
group of the runner's has its handle, comes from a step that is behind, and is still to be
ended (`OwnTracked`). The last two are what rules out that a spawn or a late `error` of the
runner takes the place of another process of the runner. For the order of the steps,
`HooksInv` adds how far the plan has come and that every handle is of this leg: an
anchor's place in the plan is then the place it has after an insertion, before or
behind it.

`RunnerProofs` proves, for any owners, programs, ids and number of runs,
`PortIsTyped` and `PortIsKept` (`PortKept`); for any devices and requests,
`ResolutionIsTyped` and `ResolutionIsAsAsked` (`ResolvedAsAsked`); and of their composition
with the plan and the hooks `RunnerIsTyped` (`TypesOK`) and `OwnershipIsKept`
(`OwnershipKept`), by `RunnerIsItsParts`: a behaviour of the composition is one of each of its
parts. `PortInv` says that what was seen under an id still runs there, or it exited,
or the id was used again (`Attributed`); that nothing is to be ended but what the rule of
the code allows, of what was seen (`AsRuled`); and that what was ended was that
(`EndedOwn`). The rule itself is the hard part of the data: that the words of a
command line that contain a forward to a device, in either order, are one of the
forwards the property enumerates (`ForwardWords`, `ForwardArgvStrips`). `ResInv` ties the files on disk and
the picked device to the step (`ByStep`), and to the step that failed (`ByFailure`).

`ScreenProofs` proves each safety property of the `screen` run: `LocatorsTellTheTruth`
(`LocatorTold`) and `ActionsLand` (`ActionLands`) for any elements, locators, heights and changes of
the screen; `ScrollingIsAsTold` (`ScrollAsTold`) for any window, places and lengths;
`TracesAreKept` (`HarnessKeepsFaith`) for any size of the buffer. `ScreenIsItsParts` composes the
three. The invariants are:

* `LoInv`. The answer a call acts on is what the screen was, and is until it changes
  (`AnswerIs`), so what a touch of its centre meets is in front of it, or is the element itself
  (`FrontTakes`); what holds of the denoted element during the call is in `seen`, and what a call
  is about to act on was (`SeenIs`); the bounds kept of a parent are its bounds until it
  drifts (`ScopeIs`), so that a filter by bounds is then the parent the locator means.
* `ScInv`. It ties the step of the loop to where the content will come to rest: a
  measurement sees each axis at rest, but for what a blind swipe moves or for an element that
  is already beyond measuring and moving away (`LoopIs`); a position measured twice means that a swipe
  moved nothing (`MovedNothing`), and then the container is at its limit (`AtLimit`) or a swipe was
  swallowed. Swipes stay in the safe band by the arithmetic of `SolveAxis`.
* `HaInv`. The buffer is the newest of what was heard, which appending and dropping the
  oldest keeps (`KeptIsNewest`); the console is wrapped once or not at all.

What the attempts at these proofs changed:

* `ScrollIntoView` let content come to rest in a single step. The
  exception for blind swipes was then broader than the code needs, and nothing could be seen
  half-way; content now also stops half of the way, `Settles` waits for one axis only, and
  `blind` ends with the motion. `2 * Inset < Window` is a named assumption: without it the safe
  band is empty and no swipe is safe.
* `LocatorTold` was not inductive for a parent that stayed where it was while another
  element got its testID: `drifted` covers this too.
* `DeviceFiles` left open whether the name of a directory can be asked for as a file: with that a
  file that is not there would resolve to a link that is. It is a named assumption now.
* `AndroidTouch` kept the kinds of backends tried, so that an order that names one twice was not told apart
  from one that does not; it keeps their places.
* `NoneAdopted` let any phone pass that contained the words of `--device`; it now asks that it be
  the only one. `PortKept` no longer needs a program that looks like a forward among those of the run,
  since `PortIsKept` covers every program.
* `Gestures` merged pointers by recursion, event by event; it counts now, which is closer to the sort in
  the code and can be reasoned about. `FingersLifted` then turned out to hold by a guard of `Returns`
  alone wherever it said anything: it excepted every gesture with a change of connection. Now an up over another
  connection may leave the finger where it is, and the exception is only for such a finger.

Only model-checked:

* every liveness property, and `GivesUpLate` with `EveryCallEnds`: the prover does not handle fairness.

The proofs rest on
the named assumptions about the constants only, and hold of the models: that those
follow the code is what the map is for.

## Not modelled

* The checking of what a target hook returns, and the environment it adds; the steps of
  the physical-device plan other than those of its processes, `--dry-run`, two runners
  at once beyond the port, and a companion build orphaned by a crash that finishes during the next run.
* The matching of text and roles in selectors, and what `type` does key by key: a
  selector is a testID.
* `arc`, the angle of `rotate`, and pressure: places are on a line.
* The commands of the native-module backend, `typeText`, and the conversion to pixels.
* Lifecycle, window metrics and screenshots of the whole screen: one `evaluate` each,
  without state.
* Metro and config-plugin wrappers, the `inspect` command, environment parsing,
  printing, shared types: no state of their own, or only input and output.
* The parsing of what `simctl`, `devicectl` and `adb` print, where the built products are,
  and how configuration is validated: checks of data.
* Native modules other than the view tree: platform code, seen as outcomes. The
  view tree is that of the Kotlin module; the Swift one answers the same queries. A tap may
  land where either of them sends it.

## Plan

Done: both programs' control, from the connection to the gestures and from the plan
to the port, and the proofs of every safety property that a passing run checks. What would add
most next:

1. `AndroidTouch` over a connection life cycle that overlaps: two backends alive.
2. The files and mappings of the physical-device plan in `PlanExecutor`, whose cleanup
   removes one file more.
