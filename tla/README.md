# Verification of Open Model Server

TLA+ modules, TLC configurations and TLAPS proofs for the Go server of this
repository and for its dashboard. It is a local server that
registers models, runs them (llama.cpp models in child processes, ONNX models
inside its own process), and offers them over HTTP; the dashboard is a
single-page application in the browser that talks to it. The modules are translated
from the code under `internal/` and `web/src/`. Paths below are relative to the
repository's root or to `internal/`; "runtime.go 384-409" names the lines a
definition or a property is about.

## 1. The system

| Component | State it keeps | Operations | Hard behaviours | What makes it correct |
|---|---|---|---|---|
| Port allocator, `internal/process/ports.go` | next candidate, reserved ports, under a mutex | Allocate (round robin with a bind probe), Reserve, Release | the host's other programs bind and unbind ports during a scan; wrap-around; exhaustion | no port twice; exhaustion is reported only when every candidate was taken; the loop ends |
| Process handle, `internal/process/process.go` | child, two pipes, `err`, `done` | Start, two pumps, the waiter, Terminate | exit racing SIGTERM, SIGKILL and the timer; output left in the pipes; a line too long; a helper that keeps the pipes open | done means gone, with the right error and all output; Terminate returns, and success means gone |
| llama.cpp runtime, `internal/runtime/llamacpp` | map of instances, each with state, port, base URL, handle | Load, Unload, Infer (proxy), Status, Shutdown; a monitor goroutine per process | four writers of one state field; ports released on two paths; a process that dies, hangs or answers late at any point of Load | no port leaks or is given out twice, no process is lost, requests reach the model's own process, the reported state follows a life cycle |
| ONNX runtime, `internal/runtime/onnx` | map of sessions over native memory | Load, Unload, Infer, Shutdown | a session looked up under one lock and used after it; native memory freed by hand | never used after it was destroyed, never leaked, closed at shutdown |
| Model service, `internal/service/service.go` | per-model mutexes in a map, the last runtime error | Register, Update, Delete, Load, Unload, Restart, Shutdown, boot | models are resolved before they are locked; Delete drops the mutex others wait for; three copies of one status; cancelled requests | the lock guards the row; a deleted model stays deleted and unloaded; nothing in a row is lost; statuses are right at rest and after restarts |
| Registry and database, `internal/registry`, `internal/database` | the `models` table in SQLite | Create, Get, List, Update, Delete, SetStatus, ResetStatuses, migrations | read-modify-write over two statements | an update writes what it was asked to |
| Log store, `internal/logs/logs.go` | a ring of lines per model, mirrors into a ring per runtime, subscribers with bounded channels | Append, Tail, SubscribeWithReplay, BindModel, Get, Remove | snapshot and registration; slow subscribers; two locks at a time; removed buffers still in use | the most recent lines are kept; a stream has no gap or repetition; the runtime's log has the model's lines in order |
| HTTP API, `internal/api` | none of its own | routing, authentication, error mapping, event streams, proxying | streams that outlive the drain | a request does what the service does |
| Telemetry, `internal/service/cpu.go`, `gpu.go` | last CPU sample, cached GPU answer | read | counters that go backwards; a cancelled query cached for everybody | percentages in range |
| Server process, `internal/cli/serve.go`, `internal/app` | phases: boot, serve, drain, shutdown | runServe | requests that outlive the drain of 30 s; a kill without shutdown | everything is stopped at exit; a restart begins clean |
| Dashboard's log panel, `web/src/lib/api.ts`, `RuntimeLogs.tsx` | the event source, a retry timer, the lines shown | connect, snapshot, line, error, hide, pause | the browser's own retry next to the client's timer; replays after a reconnect; servers that come and go | shows the end of the current server's log; never two streams, never none |
| Chat playground, `web/src/pages/Playground.tsx`, `lib/playgroundSessions.ts`, `lib/api.ts` streamChat | per model, outside the page: messages, composer, images, settings, an abort controller; the page: route, model list | choose a model, compose, attach, send, stop, clear; the reader of a streamed completion | a reply that outlives its panel; a stream cut anywhere; Stop racing the last line; files read while the user goes on | one thing at a time per session; a reply is its stream; nothing that was said is changed, and the next question carries all of it |
| Model pages, `pages/Models.tsx`, `pages/ModelDetail.tsx`, `components/ModelActions.tsx`, `ModelForm.tsx`, `hooks/useModels.ts` | the last answer, a poll timer, per row a busy flag and a dialog, a form | poll, refresh, filter, load, unload, restart, delete, register, edit | answers of polls, buttons and forms in any order, some for components that are gone; outages | one poll loop; no button busy for ever; the page catches up; typed text stays |
| A model's log viewer, `ModelDetail.tsx` LogViewer, `api.ts` streamLogs | an event source, the lines shown | open, hear, pause, clear, close | the browser reconnects on its own and is sent a replay again | shows what was heard, up to the end of the log |
| Console shell and telemetry pages, `components/Layout.tsx`, `hooks/useSystem.ts`, `pages/System.tsx`, `Dashboard.tsx` | API key and its dialog, connection lamp; per page the last telemetry, a pending request, a loop | key dialog, navigate, refresh, poll | a button, a loop and an effect that runs twice share one request; a refused key; outages | one query per page, never an older answer, and it goes on after failures |
| Configuration, CLI client, presentation | read once; none; none | | | precedence of the sources |

How they interact: an HTTP handler calls the service in its own goroutine. The
service locks the model, calls one runtime and writes the row. The llama.cpp
runtime takes a port, starts a process through the handle and starts a monitor
that waits for `Done`. Process output goes line by line (`OnLine`) into the log
store, from where the event streams of the API read it. `runServe` drains the
HTTP server for at most 30 s and then calls `Service.Shutdown` with the context
of the drain, which shuts the runtimes down. Nothing but the table survives the
server; at boot the statuses are reset. In the browser, pages poll the API on timers
of their own, buttons and forms send requests beside them, and two clients keep
event streams open; only the chat sessions, the API key and a few choices
outlive a page.

## 2. The modules

| Module | Models | Used by |
|---|---|---|
| `PortPool` | abstract: a set of ports taken and given back, at most once each | `PortAllocator` implements it |
| `PortAllocator` | `ports.go`, one loop iteration per step | |
| `ProcessHandle` | `process.go`, `sysproc_*.go` for one child | |
| `Lifecycle` | abstract: the states of a model that Status may report, and their order | `LlamaRuntime` implements it |
| `LlamaRuntime` | `llamacpp/runtime.go` with its processes, monitors and ports | |
| `OnnxRuntime` | `onnx/runtime.go`, `onnx/session.go` with its native sessions | |
| `ModelService` | `service.go` with the rows of `registry.go`, the lock map and what the runtimes report | |
| `LogStore` | `logs.go`, and the stream of one model in `api/server.go` | |
| `RuntimeLogStream` | the runtime's stream from `api/server.go` over `web/src/lib/api.ts` to `RuntimeLogs.tsx`, and the phases of `serve.go` | |
| `ModelLogView` | the Logs tab of a model's page over `LogStore`: `streamLogs` of `api.ts`, `LogViewer` of `ModelDetail.tsx`, the handler of `server.go` | extends `LogStore` |
| `Conversation` | abstract: a question, an answer that grows, its end, and Clear | `ChatSession` implements it for every model |
| `ChatSession` | `playgroundSessions.ts`, the chat side of `Playground.tsx`, `streamChat` of `api.ts` | |
| `ModelPages` | `Models.tsx`, `ModelDetail.tsx`, `ModelActions.tsx`, `ModelForm.tsx`, `useModels.ts` | |
| `ConsoleShell` | `Layout.tsx`, `useSystem.ts` and the key handling of `api.ts` | |
| `ProcessProofs` | theorems about `PortAllocator` and `ProcessHandle` | |
| `TelemetryPagesProofs` | theorems about `RuntimeLogStream` and `ConsoleShell` | |
| `LogStoreProofs` | theorems about `LogStore` and `ModelLogView` | |
| `*Proofs` | theorems about `LlamaRuntime`, `OnnxRuntime`, `ModelService`, `ChatSession` and `ModelPages` | |
| `MC*` | the TLC instances | |

The modules are layered as the code is. `LlamaRuntime` takes a port as
`PortPool` promises (any usable one), which `PortAllocator` is shown to
implement; its processes start, listen, exit and are terminated as the handle
promises (`ProcessHandle`: `Done` means gone, `Terminate` returns).
`ModelService` sees a runtime as the states `Lifecycle` allows. `RuntimeLogStream`
takes the log as `LogStore` promises it: the most recent lines, and every new
line for a subscriber whose channel has room; `ModelLogView` runs on `LogStore`
itself. The dashboard's other modules take the server as its API describes it:
any answer it may give, at any time.

### How state and actions correspond to the code

* **Atomicity.** A step is one critical section, or one return from a blocking
  call: the code between two of them touches nothing shared. In `PortAllocator`
  the probe of a port is a step of its own although the mutex is held, because
  the host is not bound by it. In `LogStore` an append is two steps with the
  first buffer locked, as `Append` holds both mutexes.
* **Goroutines** are program counters: API requests (`pc[<<m, "api">>]`,
  `req[r]`, `pc[c]`), the goroutines of Shutdown (`pc[<<m, "shutdown">>]`),
  monitors (`inst[i].mon`), pumps and the waiter (`pump`, `waiter`).
* **Objects** (instances, sessions, mutexes, buffers) come from a finite pool
  and may be taken anew only when nothing refers to them, so a stale pointer is
  a real possibility: the same object can be reached from the map, a request
  and a monitor. Where a name is reused by the code (a model ID as a map key),
  it is reused here: `DeleteEntry` deletes by ID whichever instance it names.
* **The environment.** `Faults` names what may go wrong (a process that does
  not start, crashes while loading or running, leaves a helper behind that has its pipes open,
  a timeout or cancelled context,
  a failing kill, an overrun drain, a killed server). A run gives the set under
  which its properties hold; it is a constant, not an assumption hidden in an
  action.
* **Health** (`Healthy`): the probe of `waitHealthy` asks a port, not a process,
  and the model has it answered by whoever listens there.
* **Start and Done.** A load starts its process and records the handle in two steps
  (`StartServer`, `RecordHandle`): in between the process runs, and may die, while the
  instance has no handle and no monitor. `Done` is the end of the process and of both its
  pipes; monitor and Terminate wait for it, so a helper holds both up.
* **Requests for a model** are two steps (`Route`, `Answered`): state and base are read
  under the locks (runtime.go 476-512), and whoever listens on base after they are
  released is dialled (546, server.go 494-499).
* **The browser** is one thread: an action is one turn of its event loop, a
  handler or what runs between two `await`s, and what it changes is rendered
  with it (`Renders`, `Shows`), effects and unmounted components included.
  Requests are records in `flight` or `calls`: sent, answered by the server with
  what it knows then, and handed over later, in any order. A component that is
  gone keeps its callbacks and has no state: a request notes whether the page
  that asked (`home`) and the row or form (`held`) are still there. EventSource is
  external: it reports an error with CONNECTING and dials again by itself, or
  with CLOSED, and nothing after close(). Both are allowed wherever it cannot
  connect or loses the connection; an HTTP error is always CLOSED.
* **Restart.** `ServerGone` drops everything in memory and keeps rows and, for
  llama.cpp, processes: `Setpgid` gives them groups of their own, so they
  survive a killed server.

## 3. The runs

Twelve runs, which all pass.

| Run | Instance | Shows |
|---|---|---|
| `ports` | 3 ports in the range and 1 outside, 2 clients, a host | `NoFalseExhaustion`, and that the allocator implements `PortPool` |
| `process` | one child, pipes of 1 line, 2 lines each, 2 callers, all faults | `AllLinesDelivered`, `TerminatedIsGone`, `ExitIsNoticed`, `TerminateReturns` |
| `llama` | 2 models that compete for 2 ports, 3 instances, processes that fail at any time but one (below) and may leave a helper behind, 1 request for a model | `DistinctPorts`, `RequestsArrive`, `ShutdownStopsAll`, `Tracked`, `NoPortLeak`, and that Status follows `Lifecycle` |
| `llama_live` | 1 model, 1 port, 2 instances, all faults | `PortsComeBack`, `OperationsReturn` |
| `service_races` | 1 model, 2 concurrent requests of any kind, 2 mutex objects, cancellations, failing runtimes, overrun drain | `LockGuardsRows`, `DeletedStaysDeleted` |
| `service_sequential` | 1 model with two columns, any sequence of single requests with failures, crashes and restarts between | `NoZombie`, `StatusHonest` (at rest, what each status allows the runtime to report: `MayReport`) |
| `model_logs` | 2 buffers of one re-registered model, 1 runtime, 1 subscriber with a channel of 1, rings of 2 lines; a viewer that is cut after 2 lines and loses its connection once | `ViewFollows`, `NoGap`, `MirrorFollows` |
| `onnx` | 2 models, one with a tokenizer, 3 sessions, 2 requests and a shutdown | `NoUseAfterDestroy`, `OpenTracked`, `ShutdownClosesAll`, `CallsReturn` |
| `log_stream` | 1 panel shown and hidden at will, 3 faults, 2 servers; a log that overflows buffer, snapshot, panel, channel and connection | `ShownIsLog`, `OneStream`, `ViewerCatchesUp`, `DrainEnds` |
| `chat` | 2 vision models, 2 completions with 2 lines between them that are cut anywhere, 1 image, 3 steps of navigation, edits and models that come and go | `OneTask`, `ReplyIsStream`, `OperationsEnd`, and that every session implements `Conversation` |
| `model_pages` | 1 model that may have to be registered first, 2 settings, 2 filters, 2 requests in flight, 3 steps of the user and 1 of others | `OneLoop`, `FormKeepsEdits`, `PagesCatchUp`, `ButtonsComeBack` |
| `shell` | 1 key, right, wrong or none, 2 requests of a kind in flight, 2 steps of the user and 1 of the server | `OneQuery`, `TelemetryForward`, `ShellCatchesUp` |

The longest are `model_pages` (2 to 4 minutes), `model_logs` (about 100 s), `chat` and
`shell` (below a minute each).

**Bounds and why they are enough.** The races are between the operations on one
model, or for one port, so one or two models and one competitor are the
smallest instances in which each can happen; a third instance (session, mutex)
object is what a previous load (unload, Delete) left behind while its goroutine
has not noticed. Two ports let a port be free and taken at the same time, and be
taken by the wrong model; the allocator's own wrap-around is checked with three.
Pipes and channels of one element are full after one step. `MaxLines` bounds how
many lines are written, enough to overflow every ring and channel. In
`RuntimeLogStream`, `MaxFaults` and `MaxBoots` bound cuts, HTTP errors, kills and
restarts: three faults let a retry fail and the retry after it, two servers let
lines of a dead one be on the screen. In the dashboard's modules two requests in flight let one answer overtake another, and
two models (sessions) let one stream while another is shown; the
steps of the user are bounded by `MaxMoves`, each enough to ask, go elsewhere and come
back, or to open, edit and save. All other counters are finite in the code.
What section 5 lists is proved for all values of these constants.
The types of the modules are proved (section 5), as are `Exclusive`, `KeepsMostRecent`, `DoneTells`,
`RunningMeansOpen` and `RunningWatched`; these are not checked by runs as well. Symmetry is used where no
liveness property is checked. Deadlock is not checked for the dashboard's three modules
`chat`, `model_pages` and `shell`: a page whose user has used up `MaxMoves` may rest.

**Fairness.** Weak fairness on every goroutine of the server: the Go scheduler
runs them. A process that was sent SIGKILL dies, timers fire. A helper may stay for ever, so
`PortsComeBack` and `OperationsReturn` exempt the time in which one holds the pipes of a dead
process; that Terminate returns an error (`KillFailure`) is possible, but not counted on, and so
`OperationsReturn` rests on SIGKILL alone. Strong fairness
where a mutex that others take again and again is waited for: a Go mutex hands
itself to a waiter that starved for a millisecond. Never assumed: that a client
calls, that a process binds its port, heeds SIGTERM, or exits, that a helper
exits. `llama_live` relies on the startup timer, which is one of its faults
(`waitEnds`). In the dashboard timers fire, a request is answered or fails, an
answer that is there is handed over and is not overtaken for ever, and a
model's load comes to an end; nothing is assumed of the user. In `log_stream` `DrainEnds` says only that the drain of the HTTP server ends; that `a.Close` returns
(app.go 57-60) is not assumed there, as it waits for Terminate and for an inference in progress. The browser's dialling, its timers, the network and
the timer of the drain are fair; nobody has to log, to show the panel, or to
start, stop or kill a server.

## 4. Where the code does not do what one might expect

Counterexamples, kept as configurations to run by hand (`tlc -config X.cfg M`), each
with one property that is violated:

| Configuration, module | What happens |
|---|---|
| `LlamaTimeout`, `MCLlamaRuntime` | monitor releases a port and leaves `in.port` set (runtime.go 392-394); when Load gave up on the process it calls `fail`, which releases it again (242-245). If another model took the port in between, its reservation is gone while its process runs (`DistinctPorts`). This is why `waitEnds` is not among the faults of the run `llama` |
| `LlamaRoutes`, `MCLlamaRuntime` | a process that exits between its health answer and the end of Load is recorded as failed by monitor and then as running by Load (312); its port is free, the next model gets it, and requests for the first are routed to the second (`RequestsArrive`) |
| `LlamaStatus`, `MCLlamaRuntime` | Status may be called for an instance whose `base` is not set yet |
| `ServiceRuntimeSwitch`, `MCModelService` | PATCH may change `runtime` while the old runtime has the model loaded; unload and delete ask the new one only (`NoZombie`) |
| `ServiceLostUpdate`, `MCModelService` | Update works on a copy read before the lock and writes all columns: one of two concurrent updates undoes the other (`NilFieldsKept`) |
| `ServiceZombie`, `MCModelService` | a load resolved before a Delete acts after it, on a mutex of its own, and loads a model that has no row |
| `OnnxTokenizer`, `MCOnnxRuntime` | two requests tokenize with one tokenizer at once; the comment at session.go 33 says runMu protects it, but it is only held around the native run |
| `ModelLogTwice`, `MCModelLogView` | `streamLogs` takes the replay that follows each of the browser's reconnects for new lines: lines are shown twice (`NoLineTwice`); with `NothingMissed` instead, the lines of a pause are never shown |
| `ModelListBack`, `MCModelPages` | an answer to a poll that was made before a change arrives after the answer that showed it: the list shows the past until the next poll (`ListStaysCurrent`) |
| `ModelDialogClosed`, `MCModelPages` | the dialog is dismissed while its save is under way and opened for another model; the answer closes it (`OwnSaveCloses`) |
| `ModelEditLost`, `MCModelPages` | on a model's page every poll makes a new model object, the form's effect runs again and what was typed is gone (`KeepsEdits`; ModelForm.tsx 45, useEffect on `model`), although docs/gguf.md 73 sends the user there to edit |
| `ModelRowTwice`, `MCModelPages` | a delete that is refused releases a row whose load goes on, and the row can be started again (`OneRunPerRow`) |
| `ShellPileUp`, `MCConsoleShell` | a page that is left does not cancel its query and the next page begins its own: slow queries do pile up, against the comment at useSystem.ts 5 (`NoPileUp`) |

More of them are variations of a listed configuration: replace the values named, drop
`SYMMETRY` and the properties, and check the one given.

| Configuration, module | Change | Property | What happens |
|---|---|---|---|
| `LlamaRuntime`, `MCLlamaRuntime` | | `NeverAstray` | a request has read the URL of its model (runtime.go 506-509, or 476-497) and is not sent yet; the model crashes or is unloaded, monitor releases the port, another model is loaded on it, and the request goes there (server.go 482: "routes /v1/* requests to the llama-server owning the "model""). `RequestsArrive` says that this is the only way |
| `LlamaRoutes`, `MCLlamaRuntime` | | `RunningWatched` | "running", and no monitor watches the process |
| `LlamaRoutes`, `MCLlamaRuntime` | `Faults <- OverrunOnly`, `Insts <- MCInsts2` | `ShutdownStopsAll` | a load that outlives the drain starts a process that Shutdown's snapshot of the map has not seen; it survives the server |
| `LlamaStatus`, `MCLlamaRuntime` | | `UnloadFreesPort` | Unload has returned and the fixed port of the model is still reserved until monitor runs, so an immediate load fails |
| `ServiceRaces`, `MCModelService` | `Ops <- CreateLoad`, `Faults <- OverrunFault` | `ShutdownMarksStopped` | after an overrun drain, Shutdown's List fails on the expired context and rows stay "running" until the next boot |
| `ProcessHandle`, `MCProcessHandle` | `Faults <- HelperOnly` | `DoneOnceExited` | a program that inherited the pipes outlives the child: done is never closed and Terminate hangs, and with it Unload, Delete and Shutdown; the port stays reserved |
| `OnnxRuntime`, `MCOnnxRuntime` | `Overrun = TRUE` | `ShutdownClosesAll` | a load that outlives the drain puts a session into the map that Shutdown has already emptied; it is never closed |
| `ProcessHandle`, `MCProcessHandle` | `Faults <- LongOnly` | `EveryLineDelivered` | after a line of more than 1 MiB the pump is gone, later lines are lost and the child blocks on the full pipe |
| `RuntimeLogStream`, `MCRuntimeLogStream` | | `ClosedInTime` | one log panel left open keeps `srv.Shutdown` waiting for its whole 30 s, as nothing but the client ends a stream, and `a.Close` gets an expired context, which is how the overrun drain comes about |
| `ShellPileUp`, `MCConsoleShell` | | `LabelIsStored` | the key button says a key is stored when one was only typed and dismissed |

Seen in the code beside these: the Retry button of
`RuntimeLogs.tsx` needs an error together with the status "closed", which the
stream client only reports when it is stopped.

`ServiceLiveness` (`MCModelService`, `RequestsReturn`, about 75 s) passes: no request waits for ever.

## 5. What is proved

With TLAPS, for every value of the constants that satisfies the named
assumptions (null values outside the sets they extend, port ranges within the
ports, finite sets where the code has them). Each proof has a named inductive
invariant, one lemma per action or group of actions, and a theorem per property.

* **`ProcessProofs`**, the allocator: `PortsTypeCorrect`, `PortsExclusive`, `PoolImplemented`
  (every step is a step of `PortPool` or none of its business) and `ExhaustionHonest`. The types and
  `Exclusive`, which already says that the reserved set is what clients hold, are inductive
  together; `ExhaustionHonest` needs `ScanInv`: the candidates tried so far are the
  ones from the first on, modulo the range, and none of them was open all the time.
  One child: `TypeCorrect`, `DoneIsTrue`, `TerminateIsTrue`,
  `OutputIsComplete`. `Stages` relates child, waiter and error; `Flow` counts the
  lines (written = delivered + in the pipe) and says that a pump at its end has
  an empty pipe and no writer left, which stays so because only a running child
  starts helpers.
* **`LlamaRuntimeProofs`**: `TypeCorrect`, `PortsNeverLeak`, `NoProcessLost`,
  `ShutdownComplete`. `PortsNeverLeak` needs no assumption about faults: that a
  freshly mapped instance is alone with its request (`FreshAlone`) and that each
  reserved port has someone who will release it are inductive together.
  `NoProcessLost` and `ShutdownComplete` hold for orderly shutdowns, kills
  that work and a server that is not killed; their invariant (`Roles`, `AtWork`, `Owned`, `LiveOwned`, `Unmapped`)
  says which worker may be where, that the instance a worker is at is the mapped
  one, and that only dead processes leave the map.
  `PortsDistinct` adds to it `PortInv`: who will release a port has it reserved, and alone, and a
  load waits for a process whose monitor waits too, or has recorded its end. It holds when beside
  these no load runs out of time and none is told of the exit late (`Calm`); without that the
  code releases a port twice (`LlamaTimeout`). `RunningIsWatched` and
  `LifecycleImplemented` (each step moves one model along one edge of `Lifecycle`, or none) add
  `LifeInv`: a model nobody works on has failed, or runs with a monitor. They hold when moreover no
  process dies in the last check of a load (`Handled`); without that a dead model is
  reported running (`LlamaRoutes`). `RequestsReachOwn`, under the same conditions, adds `RouteInv`: a request is
  routed to an instance only while a monitor watches it, and that monitor is still waiting, so that by
  `PortInv` the port is the instance's alone, or has noticed the exit; it does not vanish while the request is
  under way (`MonitorKept`). `AtStart` says what is known of an instance whose process is started and whose
  handle is not recorded yet: it is starting and nobody watches it. These are the conditions under which the run `llama`
  checks the same properties; crashes of loading and running processes, failing starts and
  concurrent requests are among what it allows.
* **`ModelServiceProofs`**: `TypeCorrect`, `DeletedForGood`, `RowsGuarded`, for any number of
  requests, mutexes and faults. `RowsMove` says all that a step does to a row, whoever takes it;
  a row that is gone is never among it. `RowsGuarded` needs, beside that a mutex is held once
  (`HeldOnce`), that the map names the mutex everybody with a registered model has
  (`MapCurrent`), which Delete breaks only after the row is gone (`LockShape`).
  `NoZombies` and `StatusesHonest` are for requests that meet no other for the same model
  (`OnePerModel`, an assumption on the behaviour: two that do meet can leave a zombie, `ServiceZombie`)
  and do not change a model's runtime (`ServiceRuntimeSwitch`). `ZombieInv` says that only the
  runtime of the row has the model; `HonestInv` says what a row may lag behind by at each step of a
  request, and at rest not at all: each status then leaves the runtime the states of `MayReport`
  (stopped: stopped; starting, which a load of a loaded model leaves behind, and running: running, failed
  behind the row's back, or stopping after a Delete that could not stop it; failed: failed or stopping;
  stopping: none, it is never left behind). It needs that a model is starting only while a request loads
  it (`Loading`), and that no runtime knows a model before it is registered (`Fresh`). `StatusesHonest` also excludes cancelled requests, whose last
  write of a status fails.
* **`LogStoreProofs`**: `RecentKept` (a buffer holds exactly the most recent
  lines, as many as it has room for) and `StreamsFollow` (a stream is the tail of
  the log until its channel was full, and never repeats or reorders lines), for
  any number of buffers and subscribers and any sizes. The invariant `Streams`
  says which tail each subscriber has. `PageStreamsFollow` carries it over to
  `ModelLogView`: no step of a page or of its connection does anything to the
  store but what one of the store's operations does, and a page that has a stream
  has a model (`Page`), so what the handler subscribes to is a buffer.
  `RuntimeLogComplete` and `PageLogComplete` (`MirrorFollows`) rest on `MirrorInv`: a buffer numbers its
  lines, a runtime's log has those of each buffer in its order up to the one that is just being mirrored
  and, since the buffer was bound there, all of them; other models' lines may come anywhere between. They
  need that the names of runtime and model buffers differ (`NamesAssumption`; logs.go 143 prefixes them).
  `ViewerFollows` is about the screen: `ViewInv` says that the end of what is shown is the end of what was
  heard since the viewer was connected, cleared or resumed, as far as a cut keeps it, that what was
  heard is the beginning of what the handler sent, and that the numbers on the
  screen fall back at most once for each lost connection.
* **`OnnxRuntimeProofs`**: `TypeCorrect`, `NoDanglingUse`, `NoSessionLost`,
  `RunningIsServed`, and `ShutdownComplete` for a drained server. `RunExclusive`
  (who runs holds runMu, alone) gives `NoDanglingUse`; the others rest on
  `OpenIffRunning`, `OwnEntries`, `Serialized` (the service's lock) and `OpenTracked`.
* **`ChatSessionProofs`**: `TypeCorrect`, `OneTaskAtATime`, `RepliesComplete` and
  `ConversationImplemented`, for any number of models and completions, any texts
  and streams of any length. The invariant adds to them that the call a session
  streams is the newest of its model (`Newest`), without which a finished call could
  write into the next answer, and that no more was read than was taken. The
  refinement maps each session's messages, flag and open call, and shows each
  step to be Ask, Hear, Close, Clear or a stutter of every `Conversation`.
* **`ModelPagesProofs`**: `PolledByOneLoop` and `EditsKept`, for any models, settings, filters and requests
  in flight. Every step but four asks for nothing in the name of the loop and ends none of its
  requests, changes neither page nor timer, and leaves what the list's form shows or closes it (`Beside`); the four are
  a page that is left, a tick, the answer to the loop, and the form being opened or typed into. Requests
  that are changed while they are under way stay the loop's or somebody else's (`Alike`).
* **`TelemetryPagesProofs`**, the log panel: `TypeCorrect`, and `OneWayToTheLog` for any number
  of faults and servers; the invariant adds that a dead connection has empty
  queues (`Quiet`). `PanelShowsTheLog` (`ShownIsLog`): what is shown, or what the snapshot under way will show, is
  followed by the lines of the events behind it and those by the channel's (`Flow`); all are in the order of one server's log
  (`Chain`) and, until a line was dropped, without a gap up to its end (`Whole`).
  The shell: `ShellTypeCorrect`, `OneQueryAtATime`, `TelemetryNeverBack`, for any number
  of requests, keys and steps. That answers never go back rests on `OneQuery`: a page
  awaits one request at most, and whatever it shows was sampled before that
  request is answered.

Every invariant and action property the runs check is stated by a theorem.
**Only model-checked** are the liveness properties (`TerminateReturns`, `PortsComeBack`, `OperationsReturn`, `CallsReturn`,
`ExitIsNoticed`, `ViewerCatchesUp`, `DrainEnds`, `OperationsEnd`, `PagesCatchUp`, `ButtonsComeBack`, `ShellCatchesUp`),
as liveness under fairness is out of the prover's reach, and what section 4 lists.

## 6. What is not modelled

* Command lines, file search, tensor conversions, wording of errors and the CLI
  client: no state that the properties are about.
* Of the dashboard: how things look (cards, charts, Markdown, toasts, theme, scroll
  position), the counts above the model list and the search field, the panel for
  single predictions, the generation settings and the statistics of a reply, the
  saved choice of showing logs. They are derived from modelled state or
  stay within one component.
* Inference results and the proxy's payload. A request for a llama.cpp model is what it
  reads, state and base URL, and where it is sent.
* Two servers on one database; migrations; a SQLite failure in the middle of a
  statement (statements are atomic).
* Authentication, routing and error mapping (pure), CPU and GPU telemetry,
  configuration precedence: see the plan.

## 7. Plan

Done, in this order of importance: ports and processes first, because what goes
wrong there survives the server (`PortPool`, `PortAllocator`, `ProcessHandle`, `Lifecycle`,
`LlamaRuntime`), then the runtimes, rows and logs of the server (`OnnxRuntime`, `ModelService`,
`LogStore`, `RuntimeLogStream`), then the dashboard (`ChatSession` over `Conversation`, `ModelPages`,
`ModelLogView`, `ConsoleShell`), and the proofs above.

What a next step would be worth:

1. `ServeProcess`: a second server on the same database, and the phases that are
   now separate in the runtimes, the service and the streams composed into one.
2. `Algorithms` (for TLC against reference definitions): configuration
   precedence, CPU deltas, padding and pooling of tokens, flattening of tensors,
   resolution of names.
3. `Telemetry`: the CPU sampler and the GPU cache with cancelled requests.
4. `Database`: migrations with crashes between statements.
5. Proofs: `NilFieldsKept` for updates that do not overlap, and the assumptions one module makes of another
   (`RuntimeLogStream` of `LogStore`, `ModelService` of `Lifecycle`) as refinements.
