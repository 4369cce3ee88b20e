# Verification of Ancia

Ancia is a local chat application: a desktop shell (Tauri, Rust) starts a Python
backend (FastAPI on uvicorn) which loads a language model with MLX, runs chats
with tool calls, and keeps users, settings, chats and messages in SQLite; a
JavaScript frontend talks to it over HTTP and server-sent events. This directory
holds TLA+ models of the backend's concurrent core, of the launcher and of the client
(its chats, its turns, its context guard, its pages and its start), the TLC runs
that check them, and proofs of the main properties of the backend, the launcher and most
of the client.
Paths below are relative to the repository.

- [Inventory](#inventory)
- [Modules and how they map to the code](#modules-and-how-they-map-to-the-code)
- [Runs](#runs), [Bounds](#bounds), [Fairness](#fairness)
- [Proofs](#proofs)
- [Disagreements found](#disagreements-found) and [observations](#observations)
- [Abstractions](#abstractions) and [what is not modelled](#what-is-not-modelled)
- [Plan](#plan)

How to run, in this directory:

    tlc -workers 2 -config loader_safety.cfg MCModelLoader
    tlapm ModelLoader_proofs.tla     # and the other modules *_proofs.tla

## Inventory

### The processes

FastAPI runs each `def` handler in a thread pool, so any two requests may
interleave anywhere outside a lock. The locks are few and small: `_state_lock` and
`_generation_lock` of the engine, a lock inside the startup snapshot
(`engine_support.py`), the `RLock` of `AppStorage` (one per storage *call*, so a
handler of several calls is not atomic), and the lock of the tool registry. On
top of the handlers there are the loader thread of the engine, one worker thread
for each open `/chat/stream`, and, outside the backend, the startup thread of the
desktop shell and the event loop of the frontend.

### Components

| Component | State | Operations | What is hard | What makes it correct |
|---|---|---|---|---|
| Model loader (`backend/engine.py`, `engine_support.py`, `routes_models.py`) | `_model`, `_runtime_backend_kind`, `_loaded_model_id`, `_pending_*`, `_load_thread`, startup snapshot, selected model in storage | `start_background_load`, `_load_model`, `unload_model`, `set_selected_model`, wait loops of the chat routes | a load, an unload and a generation change the runtime, its id and its status under three different locks; a load queued behind another; a thread that is created and not started | the snapshot tells the truth once things are quiet; "loading" ends; a generation keeps its model; a waiting chat is served |
| Generation and tools (`backend/engine.py`, stream part of `backend/routes.py`) | `_generation_lock`, `_generation_stop_event`, per call: round, tools allowed, worker thread, queue | `_iter_generation_chunks`, `_iter_model_tool_resolution`, `request_stop_generation`, stream, its cleanup, `/chat/stop` | one stop event for all chats, cleared when a generation begins and set by the cleanup of every stream; a worker whose client has left | a stop affects the generation running when it comes, no other; tool calls are bounded; every stream and every worker ends |
| Chat turns (`backend/routes.py`, `routes_chat_store.py`, `storage.py`) | rows of `chats` and `messages`; per turn: id and text of the reply, id of the running tool call | `prepare_chat_turn`, `/chat`, each packet of `/chat/stream`, delete chat, clear, delete and edit a message | each storage call is its own transaction; the user deletes what a stream is writing; retries and continuations | a turn writes only its own messages; a finished reply is in the log; nothing looks unfinished for ever |
| Chat store routes (`backend/routes_chat_store.py`) | the same rows, with owners | create, rename, duplicate, import, export, search | replacing everything while a turn runs; deleting the last chat | one chat always remains; an owner sees its own chats |
| Accounts (`backend/auth_service.py`, `access_control.py`) | users, sessions, failed logins | bootstrap, login, renew, logout, block, change password, expire | check, slow password hash, then act; sessions revoked in a transaction after the change they follow from | one bootstrap; a blocked user has no usable session; attempts are limited |
| Security middleware (`backend/main.py`, `storage.consume_api_rate_limit`) | hits and blocks for each scope | admit, refuse, block | window edges, pruning, a block that starts while requests are in flight | at most the budget in a window |
| Tools and plugins (`backend/tooling.py`, `plugin_marketplace_service.py`, `plugin_permissions.py`, `plugin_tool_runtime.py`, `plugin_host_api.py`) | registry of tools, plugin descriptors, enabled flags, plugin directory, permission policies | reload, enable, install, update, uninstall, resolve a policy, run a tool in a subprocess | registry cleared and refilled under running requests; a reload that uses flags read before a change | a disabled plugin offers no tool; a failed reload leaves the old plugins |
| Desktop launcher (`src-tauri/src/main.rs`) | child process, startup status; in the startup thread the port, the ports tried, the spawned process | pick a port, probe, spawn, store, wait, stop, retry; stop on four window and run events | the window closes during the start; ports are taken between a look and a use | the shell keeps hold of every backend it spawned, has one at most, tells its port, leaves none behind |
| Client chats (`src/chats/backendStoreSync.js`, `storeCoordinator.js`, `sessionStoreActions.js`, `sessionEventBindings.js`, `contextMenuActions.js`, `publicApi.js`) | copy of the backend's chats, active chat, id counter, rows of the stream | every call that changes the chats, its fallback when it fails, snapshots, switches of the chat | calls overlap and their snapshots carry no number; fallbacks work on what is active by then; redraws are delayed by an animation | the page shows the active chat; ids stay unique; a lone answer brings the page up to the backend |
| Client turns (`composerGeneration.js`, `assistantRuntime.js`, `backendClient.js`) | the active generation (chat, row, text, abort controller), rows that wait | submit, permission dialog, stream, tools, anti-loop retry, model fallback, plain request, stop, continuation | rows vanish with each redraw and are found again; a second submit during the awaits of the first; a stop between two requests of a turn | the stop button stops something that runs; a reply goes to its chat; no row waits for ever; every turn ends |
| Client context guard (`contextGuard.js`) | latest usage and its signature, request number, busy flags, override for each chat | refresh, prepare a message, compress by hand, choose a candidate | answers in any order; history read after awaits; requests shared or superseded | the indicator rests; its cache fits; a message is sent with its own history and is in it |
| Client pages of plugins and models (`plugins/*.js`, `models/*.js`) | copies of the backend's lists, reload under way, timer, modal windows | reload, toggle, install, rules; select, load, unload, parameters | a reload is dropped while one runs; answers of different moments; numbers typed, left blank or from a preset | at rest the page is true; "loading" goes away; parameters fit the model |
| Client settings and session (`settings/runtimeController.js`, `eventBindings.js`, `app/runtimeConfigController.js`) | configuration, client configuration, form, panel, audit revision | save, test, login, logout, bootstrap, manage users, refresh the panel | every change of the configuration starts a refresh, which may change it; refreshes overlap, and so do tests; a test replaces the client's configuration for a while; a refresh sets a box of the form | configuration, form and client agree; refreshes come to rest; older audit events do not come back |
| Client start (`app/backendStartup.js`, `appLifecycle.js`) | address, last health, outcome | poll, recover from the server mode, follow the launcher's port, give up | launcher and backends move meanwhile; the launcher names the default port until it has picked one | the start ends, on a backend that serves or for a cause |
| Settings of the backend, network guard, catalog, prompt building, parsing, bundled plugins, views | mostly none | pure functions or independent keys | little | see [what is not modelled](#what-is-not-modelled) |

### Interactions

- The frontend sends a chat; the route waits for the model loader (poll of the
  startup snapshot), then a worker thread takes the generation lock, and the
  packets it queues are turned into rows and SSE events by the route.
- The loader takes the generation lock to install weights; so does an unload.
- A stream's cleanup calls the engine's stop, whichever generation is running.
- Every mutating route of the chat store answers with a snapshot of all chats, which
  replaces the client's copy; the end of each turn asks for one more.
- The client's start asks the launcher for its port and the backend for its health.
- Tool calls go through the registry to a plugin's subprocess.
- The middleware and the access control come before every route.

All hazards that this gives rise to are listed with their lines in
`PROJECT.json`, with the properties that would catch each.

## Modules and how they map to the code

`PROJECT.json` maps every definition to its lines. A summary:

### `ModelLoader`

State: the engine fields of the first row above, a program counter for each request
thread and each loader thread, and what a thread carries between two steps (`target`,
`child`, `want`, `seen`). An action is one critical section or one access to the
snapshot.

| Actions | Code |
|---|---|
| `StartRead`, `StartQueued`, `StartNew`, `StartBoot` | `start_background_load`: resolve the model, decide under `_state_lock`, then report "loading" and start the thread |
| `LoadCheck` ... `LoadReady`, `LoadFail`, `VisionFails` | `_load_model`, up to the `finally` |
| `LoadFinish` | the `finally`: take the queued load, perhaps start again from this thread |
| `ChatBegin`, `ChatLook`, `ChatLooked`, `ChatTimeout` | `ensure_selected_model_ready` and the wait loop of `chat_stream` |
| `ChatComplete`, `GenerateBegin`, `GenerateEnd` | what a chat does to the lock and needs of the weights |
| `SelectModel`, `LoadRoute`, `UnloadBegin` ... `UnloadReport` | the `/models` routes and `unload_model` |

`WaiterServed` says what becomes of a chat in the wait loop, and names the three ways in
which it may be left there (see [Fairness](#fairness)).

`raced` is a history variable: a new writer of the runtime began while another one
had not ended. The code does not exclude such overlaps (two loader threads can exist:
a thread which is in `_load_thread` and not yet started counts as not alive); the
properties say what holds in spite of them, and what a writer that is alone
guarantees.

### `GenerationSlot` and `Generation`

`GenerationSlot` is the abstract specification: generations take turns, a stop
concerns the generation whose turn it is, an outcome is settled once.

`Generation` is the protocol of the code: lock, event, a worker for each call with
its rounds of tool calls, the SSE consumer with its cleanup, `POST /chat/stop`. The
event is set by anybody at any time, also while nobody generates, and is cleared when
the lock is taken; the refinement `asked <- stop /\ lock # None` says what that
amounts to.

### `ChatStream`

The message log of one chat and the turns on it. A storage call is an action, so any
other turn and any edit of the user may come between the calls of a turn. One
action for each kind of packet of `/chat/stream`; `Look`, `Ensure`, `Persist` are
`prepare_chat_turn`; `PlainTool` and `PlainDone` are `build_chat_response` of
`/chat`; `Edit` stands for the four routes that change the log behind a turn's back. A
message's text is abstracted to whose words it holds, its meta to what it says of its
state.

### `BackendLauncher`

The startup thread of the desktop shell, its event loop, the processes it spawns and
the ports. A call of `BackendProcessState`, a probe, or an attempt to bind is an action.

| Actions | Code |
|---|---|
| `Begin`, `CheckRunning`, `Try`, `GiveUp` | head of `start_backend_if_needed` and of its loop |
| `PickProbe`, `PickRecheck`, `PickBind`, `PickEnd` | `pick_backend_port`, port by port |
| `Select`, `Spawn`, `SpawnFails`, `StoreChild`, `AwaitBegin` | from the decision to spawn up to the wait; between `Spawn` and `StoreChild` the process is in a local (`hand`) |
| `AwaitProbe`, `AwaitAlive`, `AwaitTimeout` | `wait_for_backend_ready` |
| `StopChild`, `StopReport`, `Retry` | what follows a wait that failed |
| `CloseWindow`, `ShellKill`, `ShellReport` | the handlers of `CloseRequested`, `Destroyed`, `ExitRequested` and `Exit`, each a `stop()` in two steps; after the last one the shell is gone |
| `Query` | the two status commands, whose `running()` forgets a dead child |
| `Boot`, `Die`, `OthersChange` | the backend process, and other users of the ports (external) |

### `ChatSessions`

The client's copy of the chats, the rows drawn from it, and the calls on it. A call
goes out (`ApiCall`, `MenuCall`, `WipeCall`, `CreateCall`, `ImportCall`), is served or lost
before or after that (`Serve`, `Break`), and its answer is applied as a snapshot
(`ApplyAnswer`) or replaced by a local change (`Fallback`). `Snapshot`, `Normalize` and
`Counted` are `applyChatStoreSnapshot` with the normalisation of the store and the
rebuild of the counters; `Activate`, `CommitRender` and `Recover` are the switch of a
chat, the delayed redraw and the search for the row of the active generation. `Served`
is what the routes of `routes_chat_store.py` do to the chats.

### `ChatTurns`

The composer over `ChatSessions`. One action is the code between two awaits, or one event of
the stream.

| Actions | Code |
|---|---|
| `Submit`, `Ask`, `Regenerate`, `Continue` | `handleSubmit`, the buttons under a reply |
| `Planned`, `Allowed`, `Refuse`, `Profiled` | the context plan, the permission dialog, the model's profile |
| `Partial`, `ToolStart`, `Done`, `Interrupted` | events of the stream, its end with or without a reply |
| `AntiLoop` | a reply that repeats itself is aborted and asked for again |
| `Plainly`, `OtherModel`, `NoModel` | the plain request and the fallback to other models |
| `StopClick`, `Aborted` | `stopActiveGeneration`, the abort as the awaiting turn sees it |
| `SyncAnswered`, `SyncFailed`, `Listed` | the synchronisation after the reply |
| `Accepts`, `Taken`, `Kept`, `Failed`, `Answered` (operators) | what the backend's routes do to its log: `prepare_chat_turn`, the end of `/chat/stream` with a reply, a stop or an error, `/chat` |

`reasoned` chooses between two behaviours of `fetch`: an aborted request rejects with the
reason given to `abort`, as the standard says, or always with an `AbortError`, which is what
`backendClient.js` looks for. Both are kept as the client runs in several web views.

### `HistoryCompression`, `Compression` and `ContextGuard`

`HistoryCompression` has `compressHistory` as operators: the candidates from gentle to
harsh, the model's summary, the emergency history, and the scan that takes one of them.
`Compression` makes one choice over every small history; `ContextGuard` uses the same
operators in the protocol of requests, answers, preparations and switches of the chat.

`late` of `ContextGuard` is a history variable. It says of the last answer that it was to an older
request, or to one of a task: facts about the request, whatever is done with the
answer. `parseUsageResponse` takes the usage from such an answer too (`KeptUsage`), so what is
kept may then be of another history than its signature says.

### `PluginsPage`, `ModelsPage`, `ServerPanel`, `AppStart`

One module for each page or phase, with the backend's side (what its routes do to what it
keeps, what is lost, when it answers) in a few actions. In `ModelsPage` the loader is what the
page can see of `ModelLoader`, and `Normalized` is how `engine_model_storage.py` cuts the
parameters it is given. A request is asked, served and answered in
three steps, so that an answer may be of an earlier moment than it is applied at.
`behind`, `late` and `crossed` are history variables that say when a page may be
behind: a reload was dropped, an answer was lost, a configuration was changed or another test
begun during a test.

In `ServerPanel` the refreshes are a bag, as nothing tells two of them apart but what they have
read; the tests of a connection are a sequence, each with the client's configuration that it
found and will put back. The form is its mode, its button, and whether its box for
registrations differs from the configuration: the rules of a server set that box and not the
button (`AsksMe`). `audit` has the newest revision asked for and the one whose events are on
the screen. The list is emptied in many places (`Emptied`): by a question that fails, however
old it is, by a panel drawn for the local mode or for one who may not see the log, by rules
that cannot be read. `seen`, the newest ever shown, is history.

In `AppStart` there is a backend, another service or nothing at each port of the machine. The
launcher moves as `BackendLauncher` does, seen from outside, and `told` is the port that its
snapshot names: the default one until it has picked another, and again after it failed without
one. The client asks for that snapshot when it needs it and may not get it (`asked`).

`ClientParts` puts these four and `Compression` side by side: a behaviour is one of one part,
the others stay where they begin. In the code they have in common the configuration of the
client (the start may change its address, before the settings can be used) and the lists of
models and plugins that other parts read; each is explored here by itself.

### MC modules

`MCModelLoader`, `MCGeneration`, `MCChatStream`, `MCChatSessions`, `MCChatTurns`,
`MCContextGuard` and `MCClientParts` give values to constants that are functions or
records, and name the bound of `loader_safety`. `BackendLauncher` needs none.

## Runs

| Run | Question | Result |
|---|---|---|
| `loader_safety` | one client selects, loads and unloads two models, one of them with vision, while another one chats; two loader threads may overlap | what the snapshot says after a load or unload that overlapped no other is true (`SnapshotTruthful`); "loading" does not stay when nobody loads; a generation has a model and keeps it |
| `loader_live` | two clients chat, with and without images, so they want different runtimes of one model, and one of them also unloads | a chat waits for its timeout only if others keep starting loads, if the engine is ready with something else, or if an unload came after its load and left the engine idle |
| `generation` | two streams and a title generation share the model, under stops and disconnects | `ImplementsSlot`; every stream is closed, every worker gives the model back |
| `chat_log` | two turns, one perhaps a retry or a continuation of the other, and two edits by the user | no orphans, no foreign messages written, a finished reply is in the log, no stale spinner except in three named cases |
| `chat_continue` | does a continued reply keep its text? | no, see below |
| `launcher_start` | ports taken and released, backends that get healthy, hang or exit, and the user who quits, all during a start with retries | the shell owns every backend it spawned, has one at most, tells its port; the start ends |
| `launcher_orphan` | is a backend left when the shell is gone? | yes, see below |
| `chat_sessions` | two calls of nine kinds overlap and may be lost before or after they are served | the rows are those of the active chat, but for one fallback; ids stay unique, but for another; a lone answer is the backend's state; a failed call shortens the chat it names, but for the clear button |
| `chat_turns` | a turn with tools and a repetition; one during which a chat is deleted and another model tried; two that overlap | the active generation runs and was not stopped; no row waits after a turn that was alone; replies are stored in their chat; a stop holds but for three named ways; every turn ends |
| `chat_stop` | does a stop hold without exceptions? | no, see below |
| `context_guard` | refreshes, preparations, compressions and switches overlap, answers come in any order or fail | busy only while something will end it; a refresh that asks nothing has a reason: the usage that is kept is of what is shown, unless the last answer was a late one or one of a task, or the request that it waits for is under way and asks for what is shown; a message goes with its own history, unless another chat was shown meanwhile, and is in it |
| `client_parts` | the pages of plugins and models, the settings, the start and the choice of a compression, each for itself | see the table below |

| Property of `client_parts` | Says |
|---|---|
| `PluginsPageIsTrue` | at rest the page of the plugins shows what the backend keeps, unless a reload was dropped or an answer lost |
| `SelectedIsServed`, `BannerClears`, `SavedAsSent` | at rest the client's model is the backend's; a page that shows a load stops doing so; the backend never cuts the parameters that the window saves |
| `SettingsAgree`, `RefreshesEnd`, `NewerAuditStays` | once no test is under way, requests are sent as the configuration says, unless a change of it or another test crossed a test; a form of another mode can be saved; refreshes come to rest; the audit events on the screen are the newest that ever were, or none |
| `StartEnds` | the start ends in the application or on the failure screen, whatever the launcher says and does |
| `ChoosesBest`, `KeepsTheFrame` | the gentlest candidate that fits is taken, or the least; the system's entries stay, the history ends as it did or is cut down to the last message of the user, and only summaries are new |

Each property of a passing run has a mutant in `PROJECT.json`: a plausible mistake
in a mapped definition (written next to it, under "Faulty variants") under which
TLC finds the property violated. The type invariants of the modules are stated and
hold on these instances; those with a theorem are proved.

## Bounds

- `loader_safety`: two models are needed for a load of another model, one of
  them with vision for both backends and the fallback; one manager and one chat.
  There are two loader objects, so that one may be created and not started while a
  second start installs another, but `LoadersShareModel` cuts states in which two are in
  use and both models are in play (tens of millions of states more without it). `loader_live` has
  one loader object, so a second load is queued or waits (`StartNew` needs a free loader); of
  its two clients one only chats and the other also unloads, and both may do so again and again. The
  safety proofs cover any number of models and threads. Nothing in the loader counts, so
  there is no other bound.
- `generation`: `MaxRounds = 2` and `MaxCalls = 1` instead of the code's larger
  limits: both the step to a further round and the exhausted budget are reached. Three calls
  suffice for one that generates, one that waits and one whose cleanup asks for a stop.
- `chat_log`: two turns (one may retry or continue the other), one tool call for each
  (`MaxTools`), two edits (`MaxEdits`): enough to delete the chat and a message, or to
  clear twice around a re-created chat. Message ids are bounded by the number of steps.
  Both turns have the same `request_id`, so each may be a retry; `Look` may still
  find no duplicate because of what the log ends with. The symmetry of turns is used
  with invariants only.
- `launcher_start`: three ports (the default one, and two fallbacks so that the first
  free one is kept while the second is probed), two attempts and so two processes, two
  changes by others: one to take the port just chosen, which is what makes a retry,
  and one more to release it or to put another Ancia on a port. Two polls: one that is
  not the last and one that is.
- `chat_sessions`: two calls at a time and two operations in a behaviour (`MaxOps`), every
  kind of call in every pair of orders, with the redraw delayed. It begins with two chats,
  so that a call may be about the active one, the other, or the last. The two sets of
  ids are larger than what two operations use.
- `chat_turns`: a behaviour is bounded by its script. Two pieces of reply tell a tool before,
  between and after the text apart; one retry and one other model are the code's first of
  each; one deletion is enough for a reply whose chat is gone; two turns are enough
  for a submit during the awaits of another. While two turns overlap the backend stores what
  it says (`fails`); in the other two scripts it may store an error or nothing. A third piece,
  turn or model would reach no branch of the code that is not taken with these.
- `context_guard`: two chats, four messages in each, four requests and three acts of the
  user; the window takes three entries, so a history of four must be compressed.
- `client_parts`: one plugin with two updates under way, two models of different size with two
  requests and five clicks (a request counts twice), two users; in the settings two acts (`MaxSteps`: what the user begins, and sessions that end;
  the form may be edited at any time besides), which is what two overlapping tests, or a save
  or a login during a test, need; an act that would begin refreshes waits while that would
  make more than three (`MaxRefreshes`), enough for the two of a login beside the one before
  it. Two ports, of which the default one is one, so that the launcher may pick the one the client
  asks or the other; every history of two to six entries.

## Fairness

`FairSpec` of `ModelLoader`: each thread that can take a step does (weak fairness);
taking `_generation_lock` is strongly fair, because a thread that blocks on a Python
lock is granted it if it is released again and again, though not in order.
There is no fairness for requests, timeouts, failures, or download progress: a
client need not send anything, and no failure has to happen. The 240 s timeout has
none either, so `WaiterServed` shows when a waiting chat does depend on it. There are three cases:
others keep starting loads; the engine comes to rest with another model or runtime
(`SettledElsewhere`); or `POST /models/unload` comes between the end of the chat's load and its next
poll, and the engine stays idle, as a chat loads once and then only looks
(`routes.py:568-592`, `engine.py:392-405`). In every other case, with loads, failures and generations
of others, it is served or told of an error without its timeout. Without any one of the three
exceptions TLC finds the run violated.

`FairSpec` of `Generation`: threads run; a generation ends because it has at most
`max_tokens` chunks; a tool has a time limit; a wait for the model has one of 240 s.
Weak fairness on the lock is enough there, as calls are finitely many. Nobody has to
stop or disconnect.

`FairSpec` of `BackendLauncher`: the startup thread runs. Its probes have timeouts and
its wait a deadline, so nothing else is needed: a backend may hang for ever.

`TurnsSpec` of `ChatTurns`: weak fairness of the steps of a turn (`Progress`), because every
await of it has a timer in the client (300 s for a stream, less for the others), except
the permission dialog: the user need not answer, so `TurnEnds` starts where the reply is
requested. The formula is weak fairness written out, since a turn that is under way
always has a step: a step of it is one that changes its stage or what it has said
(`TakenOn`), as nothing else does that.

`PartsFairness`: for the page of the models, requests and the timer go on and a load ends; for
the settings, only that each request of a refresh is answered (a login or a test may
hang); for the start, the client's own steps and time. The page of the plugins and the
choice of a compression have none.

## Proofs

For every value of the constants that satisfies `LoaderAssumption`,
`GenerationAssumption`, `ChatAssumption` and `EditorAssumption`, `LauncherAssumption`,
`ModelsAssumption`, `PanelAssumption`, `StartAssumption`, `LinesAssumption` with `CompressionAssumption` or with `GuardAssumption`,
`IdsAssumption` and `TurnsAssumption`
(`PluginsPage` needs none; sets of threads are disjoint, `None` is none of
them and no message id, the user is not a turn, the limits are natural numbers, positive or
ordered where the code has them so, the messages a chat begins with bear its numbers, ids
that are not of the form `chat-n` are not numbers of chats, turns are finitely many, the
administrator has an account, the default port is one of the ports):

| Theorem | Property |
|---|---|
| `ModelLoader_proofs!TypeCorrect`, `SnapshotIsTruthful`, `LoadingEnds`, `GenerationHasModel` | `TypeOK`, `SnapshotTruthful`, `NoPhantomLoading`, `GeneratorHasModel` |
| `ModelLoader_proofs!GenerationKeepsModel` | the action property `NoSwapWhileGenerating` |
| `Generation_proofs!TypeCorrect`, `ToolsAreBounded` | `TypeOK`, `ToolsBounded` |
| `Generation_proofs!StopsDoNotLeak` | `ImplementsSlot`: the refinement of `GenerationSlot` |
| `ChatStream_proofs!TypeCorrect`, `NoOrphanMessages`, `TurnsOwnTheirMessages`, `DoneRepliesAreStored`, `SpinnersEnd` | `TypeOK`, `NoOrphans`, `OwnMessages`, `DoneIsStored`, `NoStaleSpinner` |
| `BackendLauncher_proofs!TypeCorrect`, `BackendsAreOwned`, `OneBackend`, `ReadyNamesOwnBackend`, `FailuresAreClean` | `TypeOK`, `NoLostBackend`, `AtMostOneBackend`, `ReadyIsOwnBackend`, `FailureIsClean` |
| `ClientParts_proofs!PageOfPluginsIsTrue` | `PluginsPageIsTrue` |
| `ClientParts_proofs!ChosenIsServed`, `SavesStand` | `SelectedIsServed`, and the action property `SavedAsSent` |
| `ClientParts_proofs!SettingsAlwaysAgree`, `AuditMovesForward` | `SettingsAgree`, `NewerAuditStays` |
| `ClientParts_proofs!ChoiceIsBest`, `FrameIsKept` | `ChoosesBest`, `KeepsTheFrame` |
| `ClientParts_proofs!StartIsRight` | `OpensOnTheBackend`, `FailsForCause`: proved only, no run checks them |
| `ClientParts_proofs!PartsAreRight` | all of the last five rows, of `PartsSpec`, which the run `client_parts` checks |
| `ContextGuard_proofs!RequestsMatchTasks`, `BusyMeansWaiting`, `CachedUsageIsTrue` | `GuardTypeOK`, `LoadingMeansWaiting`, `CachedUsageFits` |
| `ContextGuard_proofs!HistoriesAreOwn`, `NewestIsKept` | `HistoryOfItsChat`, `KeepsTheNewest` |
| `ChatTurns_proofs!StopsWhatRuns`, `StopIsHeld` | `GenerationRuns`, and the action property `StopHolds`, of `TurnsSpec` |
| `ChatTurns_proofs!TurnsAreTyped`, `RepliesStay` | `TurnsTypeOK`, and the action property `ReplyInItsChat`, of `TurnsSpec` |
| `ChatTurns_proofs!NoRowIsStuck` | `NoStuckRow`, of `TurnsSpec` |
| `ChatTurns_proofs!TurnsStayUnique`, `TurnsFallbacksShorten` | the action properties `StaysUnique`, `ShortensTheNamed`, of `TurnsSpec` too: turns among the calls |
| `ChatTurns_proofs!SomeChatIsActive` | `TypeOK` of `ChatSessions` |
| `ChatTurns_proofs!ShowsTheActive`, `IdsStayUnique`, `AnswersCatchUp`, `FallbacksShorten` | the action properties `ViewFollows`, `StaysUnique`, `CatchesUp`, `ShortensTheNamed`, of `Spec` of `ChatSessions` |

The loader's inductive invariant `IInv` adds to the properties: `HoldsOK` (what a
thread carries at each stage; two starters do not share a created thread),
`LoadingIsOwned` (some loader will still write the status: `NoPhantomLoading` alone says
nothing of the steps before) and `SnapshotInv`. The last one is the interesting one: a
writer that has been alone since it began knows how far it is (`LoneWriter`: weights
installed, then id published), and while nobody writes the snapshot is true. When a
writer starts while another is busy, `raced` becomes true and nothing is claimed until
one starts alone again.

Generation's `IInv` says who holds the lock (`LockInv`), that the last packet and the
end of the worker are one (`OutcomeInv`), that a stream starts one worker (`ConsumerInv`),
and the accounting behind the tool bound (`BudgetInv`: tools run plus tools to run
fit in the rounds so far). With it each step of `Generation` is a step of
`GenerationSlot` or stutters.

ChatStream's `IInv` rests on ids being given out once: the ids a turn keeps are below
`nextId` (`RefsInv`), so a row that is appended later is never taken for one of them,
and a deleted one stays deleted. `StageInv` says what a turn has done by each stage, so
that a turn which has not yet spoken owns no row. The two properties about a turn that
is over are not inductive as they stand, since "another turn shares the message" and
"the turn to blame has it under its id" could become true for a turn that has not
begun to write: `DoneInv` and `SpinnerInv` name the stage at which the sharing turn may
write, and the mark it has made. Each conjunct has a lemma of its own (`TypeStep`, `RowsStep`,
`RefsStep`, `StageStep`, `DoneStep`, `SpinnerStep`) over a few lemmas about the storage calls
(`AppendAdds`, `UpdateChanges`, `UpsertWrites`). That a log with messages has a last one
(`LastIdInLog`) comes from the well-foundedness of the natural numbers.

BackendLauncher's `IInv` says at which stages the thread has a process in its hand and
at which a child may be stored (`HandInv`: never both), so that a live backend, which
is one of the two, is one only; `PortInv` follows the child's port from the spawn to
the status, and `StatusInv` says that ready and error are the thread's last words. A
status of the event loop may come at any time, but it is neither of the two.

ModelsPage's `IInv` follows what is typed up to the backend: the window is capped whenever
it changes (`WindowInv`, by `CappedWindow`), so what it saves is safe (`RequestInv`, by
`SavesFit`): tokens within the context that is sent, or, if the context was left blank, within
the smallest context there is, since the model's own may have changed since the window was
opened. What the backend keeps fits (`ServedInv`, by `NormalizedFits`), a safe update of
it fits too (`UpdatedFits`), and what fits is kept (`FittingIsKept`).

ServerPanel's invariant `PanelInv` adds to `SettingsAgree` what the tests remember (`TestInv`):
the first of those under way will put back what the configuration says, unless the configuration
was changed since it began or another test ended before a later one. A test that ends as the
only one is the first, so the client is then what the configuration says. `SaveInv` says that
a save is an action under way. `AuditInv` says that no revision was shown that was not
asked for, so that an answer to the newest question is newer than all that was on the screen;
an emptied list stays empty until then. These two theorems hold for any accounts and any
number of refreshes, tests and steps.

The choice of a model needs `ChosenInv` besides: the client's model, and the one in an answer
that is waiting to be applied, is the backend's choice unless something the page has not heard
of is under way or came late (`Settled`); a list that was asked for and not answered says
nothing, so there need be nothing to say of it.

PluginsPage's invariant follows the three answers of a reload (`ReloadInv`): each is what the
backend keeps now or is missing where the code lets it be missing, unless an update was
served in between, and then that update is one the page was not told of (`Untold`), which will
mark the page as behind when its answer comes or is lost. `ScriptInv` has the scripts that
run besides those that draw, since a script may end after its plugin was switched off.

`HistoryCompression_proofs` is about the operators, for every history, and used by the two
modules that compress. The candidates are all of one of three shapes (`Shapes`: a tail behind the
system's entries, with a summary between or not; or the emergency history), so what is true of a
shape (`ShapeFrame`, `ShapeIds`, `ShapeNewest`) is true of whatever is chosen, and
`CompressedIsBest` says which is. The loops of the code are folds over sequences, and a fact
about a fold needs an induction; the library's theorems of induction cannot be instantiated
here, so `Induct` derives what is needed from the well-foundedness of the natural numbers, for
the set of the numbers of which a fact is true.

ContextGuard's `GuardInv` has, besides the types, three parts. `IndicatorInv` strengthens the
two properties of the indicator: an exact usage that is kept belongs to the latest signature
unless the last answer was late (`LastIsKept`), whatever is shown, while `CachedUsageFits` speaks of
what is shown only; and the request that others may wait for is under way, with the signature
that they were told (`SharedInv`), since requests have numbers of their own. What an answer leaves,
by each way in which a caller of `requestExactUsage` deals with it, is in `Leaves`: an answer to the
indicator's own request leaves its usage, a failure leaves what was there or nothing exact.
`Matched` ties requests to tasks: they bear numbers of their own, a task that waits for an answer has
one request and the others none, and the request of a forced evaluation is for the history of
its task and not for the indicator (`Serves`). `Numbered`, `OverridesOwn` and, for each task, `Holds` say what is kept across the
awaits: the task reads the chat that is shown, which is its own unless `moved`; the
message it prepares is in its chat; and as long as nothing was said after it, the
history that was read ends in it. That last one is what a compression needs to keep
it (`ShapeNewest`). The proof has a lemma for each kind of step and part
(`PrepareTypes`, `PrepareKeeps` and so on). It also says that `KeepsTheNewest` needs `Quiet`:
with several tasks, a message may be followed by another's before it is sent.

`ChatTurns_proofs` is about two specifications. In both, an action hands the page from one
function of the code to the next (`Recover`, `Activate`, `Snapshot`, `Amended`...), and each
function has a lemma. For the turns the lemmas say what a function does to the active
generation: `KeepsGen`, that it is still about the same turn and chat, or still none.
`TurnsInv` adds that a turn which is preparing was not stopped (`Asked`), as it has no
generation yet that a stop could name; so when `Ask` makes it the active one, it runs. A turn
that leaves the streaming stages clears the generation if it is its own (`Final`), and one that
is another's is about a turn that runs still. `StopIsHeld` goes through the ways in which a turn
can stop waiting.

For the chats the lemmas say which list of chats results: `Sound` pages (the list is of chats, the
active one is in it, the counter is not behind the ids), and relations for what the functions do
to them (`Activated`, `Persisted`, `Snapped`, `AmendedFor`). The lists are changed by splices,
filters and folds, so most of the proof is about these: that an entry put in front, taken out
or exchanged leaves the others (`InFront`, `Without`, `Edits`), that `Normalize` leaves a
list without double ids as it is (`NormalizeShape`), that a filter keeps the order. `SessionInv`
adds that every answer on its way is a list of chats the backend had, and the answer to a call that
was alone *is* what the backend has (`CallFits`), since a call that starts beside it takes the mark
`alone` away. The backend's ids are unique at all times, the
page's are until `AddsTwice`.

`TalksInv` is that invariant for turns and calls together: without `Alone` and `gen = NoGen`,
since a turn changes the backend's chats beside a call and makes its generation the active one,
and with what a turn keeps across its awaits (`Fits`: the list it was answered is one the
backend had). The ids of a turn's messages are pairs, those of the backend and of the calls are
numbers, so no answer brings a turn's message into another chat (`Backend`, `IdsAreOwn`); what
remains are the functions by which a turn writes to the page, and of each it is shown that it
writes to the turn's own chat and makes no second chat of an id (`Tells`, `Grows`). With
`TalksInv` `StaysUnique` and `ShortensTheNamed` hold with turns too. `ViewFollows` and
`CatchesUp` are of the chats by themselves: a turn may change the backend's chats while a call
is alone among the calls.

`NoStuckRow` is about rows, which every redraw throws away or recovers, and is far from
inductive: it speaks of turns that are done. `RowsInv` says for every stage what waits. A page
is `Tidy`: the rows bear names of turns that have started, rows of one name wait together, and
the generation's row is its turn's and named apart from those made before (`Numbered`, `Upto`,
`Counts`). Of a submitted turn that is alone (`Lone`, `Settled`): while its reply is to come
and it was not stopped, only the generation's row waits, and what the turn holds is that row or
none (`Held`); stopped, no row waits, or only the one it holds if another model was tried
before; when the reply is stored, or the turn is done, none waits and none is recovered waiting
(`Quiet`, which is why it speaks of the text of the generation as well as of the rows). Each
function of the page has a lemma that says what becomes of the rows: `Quiets` (nothing new
waits), `Wakes` (only the row named does), `Rests` and `Spares` (other turns' rows are left as
they are); and each step of a turn has one that puts them together (`SubmitRows`,
`PartialRows`, `DoneRows`, `EndRows`...). The rows of a turn that was not alone are only
counted (`Crowded`): two turns may share a row.

AppStart's `StartInv` says of the health that was read and not yet acted on that it is still
what the backend at that port says, or was read while nothing answered there or a model was
loading (`PingFits`): only these two change, so neither `ready` nor `error` can be out of date when
the client acts on it. Of the launcher's snapshot nothing is claimed: a client that is sent to a
port by it, or not, fails only because of what it read there.

The invariants were checked by TLC on a run before they were proved. `context_guard` has one
task; before its proof, the same properties were checked with two (five million states).

Only model-checked are the liveness properties (`WaiterServed`, `StartupEnds`, `StreamsEnd`,
`WorkersEnd`, `TurnEnds`, `BannerClears`, `RefreshesEnd`, `StartEnds`), which are out of the
prover's reach. Every other property of the passing runs is proved.

## Disagreements found

1. `chat_continue`: a continued reply is overwritten by its continuation.
2. `launcher_orphan`: the comment at `store_child` says that shutdown handlers can always
   terminate the child. The startup thread is never told that the shell is closing: a
   spawn after the last `stop()`, or one before it whose process is not stored yet, leaves
   a backend behind when the shell exits. `NoLostBackend` says that this is the only way:
   a process that has been stored is always found by the next `stop()`.
3. `chat_stop`: a turn that was stopped stores a reply. The plain request that replaces a
   broken stream has no signal (`assistantRuntime.js:787`); the fallback to another model
   goes on after an abort; and an abort is recognised by the name `AbortError`
   (`backendClient.js:616`), while `abort` was given a reason (`:506`), with which `fetch` may
   reject instead. `StopHolds` says that these are the only ways.

Three more properties are stated in the modules and do not hold; `loader_live` and
`generation` say what holds in spite of them.

- `QueuedLoadHasLoader` (`ModelLoader`): the `finally` of `_load_model` calls
  `start_background_load` for a queued load from the loader thread, which `is_alive()`
  still reports as alive. The load is queued again and nobody runs it. This is one of the
  ways into the second alternative of `WaiterServed` (`SettledElsewhere`).
- `UnloadedLoadsOnRequest` (`ModelLoader`): an unload between a load's publication of its id
  and its "ready" leaves "ready" and a loaded id with no weights, and the next chat fails,
  against the message of `unload_model`.
- `StoppedByUser` (`Generation`): the cleanup of every stream sets the one stop event, so a
  generation of another chat may be cancelled and reported as stopped by the user.

## Observations

What the client's code does that the properties name as exceptions. Each is in the models
and can be seen by dropping the exception.

| Where | What | Exception in |
|---|---|---|
| `sessionEventBindings.js:510` | the clear button's fallback clears the chat that is active when the call fails | `ShortensTheNamed` |
| `sessionStoreActions.js` | the fallbacks of clear, edit and delete on another chat than the active one leave the rows as they were | `ViewFollows` (`AmendsElsewhere`) |
| `storeCoordinator.js:132`, `sessionEventBindings.js:561` | the id counter may go down, and the fallback of "new" adds a chat under an id that came meanwhile | `StaysUnique` (`AddsTwice`) |
| `backendStoreSync.js:100` | snapshots have no number: of two overlapping ones the older may be applied last | `CatchesUp` (`alone`) |
| `composerGeneration.js:1000` | the active generation is set after the awaits, so two turns may stream; the earlier one cannot be stopped | `NoStuckRow` (`alone`) |
| `composerGeneration.js:262` | a tool with nothing said after it may leave a row that waits | `NoStuckRow` (`Ended`) |
| `composerGeneration.js:702` | a continuation does not look at the row a redraw made for it | `NoStuckRow` (`kind`) |
| `historyAndPersistence.js:73` | a reply whose chat is gone is stored in the chat that is shown | `ReplyInItsChat` |
| `contextGuard.js:1217` | the history is that of the chat shown after the awaits | `HistoryOfItsChat` (`moved`) |
| `contextGuard.js:1020` | the usage is taken from every answer, the late ones and those of tasks too, so the usage kept may be of another history than its signature says | `CachedUsageFits` (`late`) |
| `contextGuard.js:1435` | a compression made by hand is sent although messages came since | `KeepsTheNewest` (`manual`) |
| `plugins/index.js:578` | a reload is dropped while one runs | `PluginsPageIsTrue` (`behind`) |
| `plugins/uiExtensions.js` | a script whose plugin was switched off while it loaded still registers its renderer | `PluginsPageIsTrue` (`late`) |
| `models/index.js:238` | an older list undoes a choice until the next list | `SelectedIsServed` (`late`) |
| `models/index.js:253` | one failed silent poll ends the polling | `BannerClears` (`failed`) |
| `settings/eventBindings.js:72` | the end of a connection test takes back what a login or a save set in the client meanwhile; of two overlapping tests the second remembers what the first had set, and leaves the client with the configuration of the form although no test is under way and nothing was saved | `SettingsAgree` (`crossed`) |
| `settings/runtimeController.js:849` | the rules of the server set the form's box for registrations and not the save button, which stays off although the form differs, or on although it does not | `SaveButtonFits` says nothing of the box |
| `settings/runtimeController.js:777` | an audit question that fails empties the list without a look at its revision: newer events are replaced by an error | `NewerAuditStays` (0) |
| `app/backendStartup.js:246` | until the launcher has picked a port its snapshot names the default one: a client that asks there and meets another service fails at once, with time left and the launcher still at work; one that asks elsewhere is sent to the default port, whatever answers there | `FailsForCause` (third case) |
| `backend/routes.py:568` | an unload after a chat's load and before its next look leaves the chat polling "idle" until its 240 s are over | `WaiterServed` (idle) |
| `models/paramsModal.js:129`, `engine_model_storage.py:96` | client and backend cut the tokens by different rules, the window by a blank context of zero, the backend by the one it keeps; they agree only as the window caps every keystroke | none; `SavedAsSent` holds |
| `backend/routes.py:910` | the user's message is recognised only if it is the last one of the log: a retry of a turn whose reply, or whose error, was stored stores the question a second time | none; in `Taken` |
| `backend/routes.py:1955` | a continuation that fails before it says anything replaces the reply by the error | none; in `Failed`, and see `chat_continue` |
| `settings/runtimeController.js:896` | a refresh that ends after a switch to the local mode enables the login controls again | none; `CanLogIn` follows the panel |

## Abstractions

- Loader: a model's tier is a function of the model. The status write and
  `thread.start()` at the end of `start_background_load` are one step (in between the
  thread counts as not alive just as before). The first look of a chat at the snapshot
  is atomic; a look in the wait loop is two reads, as in the code. A thread that has ended is
  as good as `None` in `_load_thread`. `visionFailed` may be true from the beginning (no
  `mlx_vlm` installed); its reset is merged with the installation of the weights.
- A chat of `ModelLoader` may generate any number of rounds; `Generation` bounds them.
- Generation: chunks are not counted; one `Generate...` action ends a generation in
  any of the ways the code can.
- ChatStream: one chat; the tool that a worker runs, its permissions and its result are
  data. The choice between the two routes is made after `Persist`, up to which they
  agree. Locals of a turn that nobody reads any more are dropped when it closes. The
  message a stream writes when the context is too long is not distinguished from a
  refusal without one.
- Launcher: `kill_child_gracefully` waits for the process under the child's mutex, so a kill
  is one step and always succeeds. `try_wait` of a child of one's own does not fail.
  A probe of a busy backend may miss its timeout, before the answer or in the
  middle of it, and then says unreachable or occupied. The 120 s of all attempts may be over
  after any attempt but not before the first. Tauri's order of events is external; the
  process exits without running `Drop`, which would be one more `stop()`.
- Client: texts are parts of what a source said, so that equal, longer and foreign texts are
  told apart; titles are old or new, and a copy has the title of its source. A route of the
  backend is one step, that may be lost before or after: what its storage calls let in between
  them is in `ChatStream` for the turns, and left out for the other routes (an update of the
  plugins' rules reads, merges and writes in several calls). An imported chat is the newest. A
  reply is stored at its end rather than with each piece.
- `ChatTurns`: rows of tools are left out, what a tool does to the reply's row is not.
  Attachments and drafts do not matter to what is modelled. A stop treats a row that a redraw threw away as
  one without an id, where the code reads the id of the detached row
  (`composerGeneration.js:382`): more is stored than in the code, never less. The
  message of the tool `context_guard.compress` (`:947-954`), which the page keeps between the user's
  message and the reply when a compression is to be shown, is left out with the other
  messages of tools. A plain reply brings no title (`:1333`); a streamed one may.
- `ContextGuard`: the plugin is on and compresses by itself, as it does by default. A request
  of a compression by hand is for the history without the draft, which the code adds
  (`contextGuard.js:1590-1599`): no property is about the draft. A refresh that shares
  the request of another is no step of its own: when that fails for want of a tokenizer, the
  code empties the usage once for each of them (`:1077-1079`, `:1149`), the model once.
- `PluginsPage`: a renderer bears the name of its plugin. One that a script registers without
  one stays when the plugin is switched off (`uiRuntime.js:118-122`), which no property sees.
- `ModelsPage`: lengths are in units. A blank field reads as zero where the window reacts to
  typing and as no value where it saves, as in the code. The sampling fields are left out.
  The backend refuses a context below what its prompt needs, as it may refuse anything.
- `ServerPanel`: a token is the user it is for. One login, logout, save or change of a user is
  under way at a time; tests and refreshes are not limited so. Of the form there is the mode, and
  the box that something else than the user can set; its other fields behave as the mode does.
- `AppStart`: a backend that answers goes on answering, and what it says of its model changes only
  while it loads. Which of the ports that are free, or have a backend, the launcher picks is
  left open. There is one spelling of this machine's address.

## What is not modelled

- Accounts, security middleware, rate limit: check-then-act over storage calls without a
  lock, and windows of time. The two races worth knowing are listed as hazards; a model would
  restate the code, and the rate limit needs a clock.
- Settings and deployment mode of the backend: validation and storage of independent keys.
- Tool registry, marketplace, permissions, plugin runtime: files, tables and a
  subprocess; `PluginsPage` takes what they keep as given, `Generation` a tool's outcome.
- Network guard: a predicate over resolved addresses.
- Catalog and compatibility of models: static data and arithmetic over memory sizes.
- Prompt building, parsing of replies and tool calls: string processing, whose outcome
  `Generation` chooses nondeterministically.
- Bundled plugins, markup, formatting and animation of the client, build scripts: no state
  shared with the parts above.
- Search over chats, export, moods, fonts, attachments of the client.
- Timing: no clock; a timeout is an action that may happen.

## Plan

Done: `ModelLoader`, `Generation` over `GenerationSlot`, `ChatStream`, `BackendLauncher`, with
their proofs; `ChatSessions`, `ChatTurns`, `HistoryCompression`, `ContextGuard`, and the parts
of `ClientParts`.

Models to come: the registry of tools (reload against lookups), and sessions of accounts with
an abstract clock. A composition of `ChatTurns` with `ChatStream`, in place of routes that
are one step, would show what a reload of the page finds after a lost stream.
