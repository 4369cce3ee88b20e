------------------------------ MODULE ModelLoader ------------------------------
(***************************************************************************)
(* The model loader of backend/engine.py (class PythonModelEngine): which   *)
(* weights are resident, what the startup snapshot says about them, and the *)
(* threads that change either one.                                          *)
(*                                                                          *)
(* A request thread serves one HTTP handler at a time: a chat (which waits  *)
(* for its model and then generates), POST /models/load, POST               *)
(* /models/select or POST /models/unload.  A loader thread runs             *)
(* _load_model.  A step is a critical section of _state_lock or of          *)
(* _generation_lock, or one access to the startup snapshot (a lock of its   *)
(* own); between two steps any other thread may run.                        *)
(***************************************************************************)
EXTENDS FiniteSets

CONSTANTS
  Models,        \* ids of the model catalog
  VisionModels,  \* those whose catalog entry says supports_vision
  Requests,      \* request threads of the HTTP server
  Loaders,       \* loader Thread objects that exist at the same time
  Routes,        \* the routes each request thread may be given to serve
  None           \* "" / Python's None

AllRoutes == {"select", "load", "chat", "unload"}

ASSUME LoaderAssumption ==
  /\ Routes \in [Requests -> SUBSET AllRoutes]
  /\ VisionModels \subseteq Models
  /\ Requests \cap Loaders = {}
  /\ None \notin Models \cup Requests \cup Loaders

VARIABLES
  selected,      \* storage setting MODEL_SELECTED_SETTING_KEY
  status,        \* ModelStartupState status
  weights,       \* the model in _model/_tokenizer/_generate_fn, or None
  kind,          \* _runtime_backend_kind: "lm" or "vlm"
  loadedId,      \* _loaded_model_id (and _loaded_tier)
  pending,       \* _pending_model_id, _pending_prefer_vision_runtime, or None
  loadThread,    \* _load_thread
  generator,     \* who holds _generation_lock across steps
  visionFailed,  \* _vision_runtime_probe_failed, or there is no mlx_vlm
  pc,            \* program counter of every thread
  target,        \* the load a thread runs, queues or starts
  child,         \* the Thread object a starter has created
  want,          \* the chat a request thread serves
  seen,          \* the loaded_model_id its last snapshot held
  raced          \* history: two writers of the runtime overlapped

engineVars  == <<selected, status, weights, kind, loadedId, pending, loadThread,
                 generator, visionFailed>>
requestVars == <<want, seen>>
vars == <<engineVars, pc, target, child, requestVars, raced>>

Threads == Requests \cup Loaders
Prefers == {"auto", "vision", "text"}   \* prefer_vision_runtime: None, True, False
Targets == [model : Models, prefer : Prefers]
Intents == [model : {None}, prefer : Prefers]   \* before the selection is read
Chats   == [model : Models, kind : {"lm", "vlm"}]

--------------------------------------------------------------------------------
(* Threads that are about to write the runtime or its status.               *)

LoadStages   == {"created", "run", "prefetch", "vision", "text", "publish", "ready"}
UnloadStages == {"unload", "forget", "report"}

Writing(t) == pc[t] \in IF t \in Loaders THEN LoadStages ELSE UnloadStages
Starting(t) == pc[t] = "boot"

Quiet == \A t \in Threads : ~Writing(t) /\ ~Starting(t)

(* is_alive() of the thread in _load_thread: started and not yet returned,   *)
(* which includes the restart it performs in its own finally block.         *)
Alive(l) == l # None /\ pc[l] \notin {"free", "created"}

--------------------------------------------------------------------------------
Init ==
  /\ selected \in Models
  /\ status = "idle"
  /\ weights = None
  /\ kind = "lm"
  /\ loadedId = None
  /\ pending = None
  /\ loadThread = None
  /\ generator = None
  /\ visionFailed \in BOOLEAN
  /\ pc = [t \in Threads |-> IF t \in Loaders THEN "free" ELSE "idle"]
  /\ target = [t \in Threads |-> None]
  /\ child = [t \in Threads |-> None]
  /\ want = [r \in Requests |-> None]
  /\ seen = [r \in Requests |-> None]
  /\ raced = FALSE

Goto(t, label) == pc' = [pc EXCEPT ![t] = label]

(* A loader thread returns.  Whether _load_thread still names it no longer    *)
(* matters: it is as good as None.                                           *)
Dies(l) == loadThread' = IF loadThread = l THEN None ELSE loadThread

(* A chat leaves the wait loop.                                              *)
LeaveWait(r, label) ==
  /\ Goto(r, label)
  /\ want' = [want EXCEPT ![r] = None]
  /\ seen' = [seen EXCEPT ![r] = None]

(* History: a new writer of the runtime starts.                             *)
NewWriter == raced' = ~Quiet

--------------------------------------------------------------------------------
(* Faulty variants of the actions below: the mistakes that the properties are *)
(* there to catch.  No specification uses them.                              *)

(* An id that is not in the catalog is stored as given.                      *)
SelectModelUnchecked(r) ==
  /\ pc[r] = "idle"
  /\ \E m \in Models \cup {None} : selected' = m
  /\ UNCHANGED <<status, weights, kind, loadedId, pending, loadThread,
                 generator, visionFailed, pc, target, child, requestVars, raced>>

(* The loaded id is taken from the selection instead of from the load.       *)
LoadPublishSelected(l) ==
  /\ pc[l] = "publish"
  /\ loadedId' = selected
  /\ Goto(l, "ready")
  /\ UNCHANGED <<selected, status, weights, kind, pending, loadThread,
                 generator, visionFailed, target, child, requestVars, raced>>

(* The weights are dropped without _generation_lock.                         *)
UnloadWeightsUnlocked(r) ==
  /\ pc[r] = "unload"
  /\ weights' = None
  /\ kind' = "lm"
  /\ Goto(r, "forget")
  /\ UNCHANGED <<selected, status, loadedId, pending, loadThread, generator,
                 visionFailed, target, child, requestVars, raced>>

(* The weights are replaced without _generation_lock.                        *)
LoadInstallUnlocked(l) ==
  /\ pc[l] \in {"vision", "text"}
  /\ weights' = target[l].model
  /\ kind' = IF pc[l] = "vision" THEN "vlm" ELSE "lm"
  /\ visionFailed' = (visionFailed /\ pc[l] = "text")
  /\ Goto(l, "publish")
  /\ UNCHANGED <<selected, status, loadedId, pending, loadThread, generator,
                 target, child, requestVars, raced>>

(* A failed load is logged and not reported.                                 *)
LoadFailSilent(l) ==
  /\ pc[l] \in {"prefetch", "text"}
  /\ Goto(l, "finish")
  /\ UNCHANGED <<engineVars, target, child, requestVars, raced>>

--------------------------------------------------------------------------------
(* start_background_load, run by request threads and by a loader's finally.  *)

Resolved(m, prefer) ==
  CASE prefer = "auto"                          -> "auto"
    [] prefer = "vision" /\ m \in VisionModels  -> "vision"
    [] OTHER                                    -> "text"

(* The model is the one selected when the start reads it, whoever asked.     *)
Intent(prefer) == [model |-> None, prefer |-> prefer]

StartRead(t) ==
  /\ pc[t] = "start"
  /\ target' = [target EXCEPT ![t] =
       [model |-> selected, prefer |-> Resolved(selected, @.prefer)]]
  /\ Goto(t, "enqueue")
  /\ UNCHANGED <<engineVars, child, requestVars, raced>>

(* Where a thread goes when start_background_load returns.                   *)
AfterStart(t) ==
  IF t \in Loaders
  THEN "free"
  ELSE IF want[t] = None THEN "idle" ELSE "look"

(* Under _state_lock: the thread in _load_thread is alive, so queue.         *)
StartQueued(t) ==
  /\ pc[t] = "enqueue"
  /\ Alive(loadThread)
  /\ pending' = target[t]
  /\ Goto(t, AfterStart(t))
  /\ IF t \in Loaders THEN Dies(t) ELSE UNCHANGED loadThread
  /\ target' = [target EXCEPT ![t] = None]
  /\ UNCHANGED <<selected, status, weights, kind, loadedId,
                 generator, visionFailed, child, requestVars, raced>>

(* Under _state_lock: nobody seems to be loading, so install a new thread.   *)
(* It is started only after the lock is released and the status is written.  *)
StartNew(t, l) ==
  /\ pc[t] = "enqueue"
  /\ ~Alive(loadThread)
  /\ pc[l] = "free"
  /\ pending' = None
  /\ loadThread' = l
  /\ child' = [child EXCEPT ![t] = l]
  /\ target' = [target EXCEPT ![l] = target[t], ![t] = None]
  /\ pc' = [pc EXCEPT ![l] = "created", ![t] = "boot"]
  /\ NewWriter
  /\ UNCHANGED <<selected, status, weights, kind, loadedId, generator,
                 visionFailed, requestVars>>

(* Report "loading", then start the thread: between the two nothing new can  *)
(* happen, the new thread counts as not alive since StartNew.                *)
StartBoot(t) ==
  /\ pc[t] = "boot"
  /\ status' = "loading"
  /\ pc' = [pc EXCEPT ![child[t]] = "run", ![t] = AfterStart(t)]
  /\ child' = [child EXCEPT ![t] = None]
  /\ IF t \in Loaders THEN Dies(t) ELSE UNCHANGED loadThread
  /\ UNCHANGED <<selected, weights, kind, loadedId, pending,
                 generator, visionFailed, target, requestVars, raced>>

--------------------------------------------------------------------------------
(* _load_model, run by a loader thread.                                      *)

(* environment_check, checking_gpu_memory and loading_model.                 *)
LoadCheck(l) ==
  /\ pc[l] = "run"
  /\ status' = "loading"
  /\ Goto(l, "prefetch")
  /\ UNCHANGED <<selected, weights, kind, loadedId, pending, loadThread,
                 generator, visionFailed, target, child, requestVars, raced>>

(* Every progress report of the download says "loading" again.               *)
LoadProgress(l) ==
  /\ pc[l] = "prefetch"
  /\ status' = "loading"
  /\ UNCHANGED <<selected, weights, kind, loadedId, pending, loadThread,
                 generator, visionFailed, pc, target, child, requestVars, raced>>

WantsVision(tgt) == tgt.model \in VisionModels /\ tgt.prefer # "text"

(* Everything is downloaded: choose mlx_vlm or mlx_lm.                       *)
LoadChoose(l) ==
  /\ pc[l] = "prefetch"
  /\ Goto(l, IF WantsVision(target[l]) /\ ~visionFailed THEN "vision" ELSE "text")
  /\ UNCHANGED <<engineVars, target, child, requestVars, raced>>

(* mlx_vlm cannot load the model: switch vision off, fall back to mlx_lm.     *)
VisionFails(l) ==
  /\ pc[l] = "vision"
  /\ visionFailed' = TRUE
  /\ Goto(l, "text")
  /\ UNCHANGED <<selected, status, weights, kind, loadedId, pending, loadThread,
                 generator, target, child, requestVars, raced>>

(* Under _generation_lock.                                                   *)
LoadInstall(l) ==
  /\ pc[l] \in {"vision", "text"}
  /\ generator = None
  /\ weights' = target[l].model
  /\ kind' = IF pc[l] = "vision" THEN "vlm" ELSE "lm"
  /\ visionFailed' = (visionFailed /\ pc[l] = "text")
  /\ Goto(l, "publish")
  /\ UNCHANGED <<selected, status, loadedId, pending, loadThread, generator,
                 target, child, requestVars, raced>>

(* Under _state_lock.                                                        *)
LoadPublish(l) ==
  /\ pc[l] = "publish"
  /\ loadedId' = target[l].model
  /\ Goto(l, "ready")
  /\ UNCHANGED <<selected, status, weights, kind, pending, loadThread,
                 generator, visionFailed, target, child, requestVars, raced>>

LoadReady(l) ==
  /\ pc[l] = "ready"
  /\ status' = "ready"
  /\ Goto(l, "finish")
  /\ UNCHANGED <<selected, weights, kind, loadedId, pending, loadThread,
                 generator, visionFailed, target, child, requestVars, raced>>

(* Environment, memory, download or mlx_lm failed: _set_error.               *)
LoadFail(l) ==
  /\ pc[l] \in {"prefetch", "text"}
  /\ status' = "error"
  /\ Goto(l, "finish")
  /\ UNCHANGED <<selected, weights, kind, loadedId, pending, loadThread,
                 generator, visionFailed, target, child, requestVars, raced>>

(* The finally block, under _state_lock: take the queued load if it differs  *)
(* from the one just run, and restart with it.                               *)
LoadFinish(l) ==
  /\ pc[l] = "finish"
  /\ IF pending \notin {None, target[l]}
     THEN /\ Goto(l, "start")
          /\ target' = [target EXCEPT ![l] = Intent(pending.prefer)]
          /\ UNCHANGED loadThread
     ELSE /\ Goto(l, "free")
          /\ target' = [target EXCEPT ![l] = None]
          /\ Dies(l)
  /\ pending' = None
  /\ UNCHANGED <<selected, status, weights, kind, loadedId,
                 generator, visionFailed, child, requestVars, raced>>

--------------------------------------------------------------------------------
(* Request handlers.                                                         *)

(* POST /models/select without load: set_selected_model.                     *)
SelectModel(r) ==
  /\ pc[r] = "idle"
  /\ \E m \in Models : selected' = m
  /\ UNCHANGED <<status, weights, kind, loadedId, pending, loadThread,
                 generator, visionFailed, pc, target, child, requestVars, raced>>

(* POST /models/load, POST /models/select with load, and eager load.         *)
LoadRoute(r) ==
  /\ pc[r] = "idle"
  /\ Goto(r, "start")
  /\ \E m \in Models : selected' = m
  /\ target' = [target EXCEPT ![r] = Intent("auto")]
  /\ UNCHANGED <<status, weights, kind, loadedId, pending, loadThread,
                 generator, visionFailed, child, requestVars, raced>>

(* A chat arrives, with or without image attachments.  It reads the          *)
(* selection once, the model and the runtime it will wait for, and generates *)
(* at once if the snapshot says that these are loaded.                       *)
ChatBegin(r) ==
  /\ pc[r] = "idle"
  /\ \E images \in BOOLEAN :
       LET required == IF images /\ selected \in VisionModels THEN "vlm" ELSE "lm"
       IN  IF status = "ready" /\ loadedId = selected /\ kind = required
           THEN Goto(r, "complete") /\ UNCHANGED <<want, target>>
           ELSE /\ Goto(r, "start")
                /\ want' = [want EXCEPT ![r] = [model |-> selected, kind |-> required]]
                /\ target' = [target EXCEPT ![r] =
                     Intent(IF required = "vlm" THEN "vision" ELSE "text")]
  /\ UNCHANGED <<engineVars, child, seen, raced>>

(* get_runtime_snapshot reads the loaded id under _state_lock ...            *)
ChatLook(r) ==
  /\ pc[r] = "look"
  /\ seen' = [seen EXCEPT ![r] = loadedId]
  /\ Goto(r, "looked")
  /\ UNCHANGED <<engineVars, target, child, want, raced>>

(* ... and the backend kind and the startup status after it.                 *)
Ready(r) ==
  /\ status = "ready"
  /\ seen[r] = want[r].model
  /\ kind = want[r].kind

(* Faulty variant: the wait loop does not see that the load has failed.      *)
ChatLookedPatient(r) ==
  /\ pc[r] = "looked"
  /\ \/ Ready(r) /\ LeaveWait(r, "complete")
     \/ /\ ~Ready(r)
        /\ Goto(r, "look")
        /\ seen' = [seen EXCEPT ![r] = None]
        /\ UNCHANGED want
  /\ UNCHANGED <<engineVars, target, child, raced>>

(* The wait loop: ready, failed, or look again after a pause.                *)
ChatLooked(r) ==
  /\ pc[r] = "looked"
  /\ \/ Ready(r) /\ LeaveWait(r, "complete")
     \/ status = "error" /\ LeaveWait(r, "idle")
     \/ /\ ~Ready(r) /\ status # "error"
        /\ Goto(r, "look")
        /\ seen' = [seen EXCEPT ![r] = None]
        /\ UNCHANGED want
  /\ UNCHANGED <<engineVars, target, child, raced>>

(* 240 seconds have passed.                                                  *)
ChatTimeout(r) ==
  /\ pc[r] = "looked"
  /\ ~Ready(r) /\ status # "error"
  /\ LeaveWait(r, "idle")
  /\ UNCHANGED <<engineVars, target, child, raced>>

(* complete / iter_complete: is_ready, else the unavailable message.  Before  *)
(* that, the context may turn out too long, or a stream's second look at the  *)
(* snapshot may find the other runtime.                                      *)
ChatComplete(r) ==
  /\ pc[r] = "complete"
  /\ \E label \in {"idle"} \cup {l \in {"acquire"} : status = "ready"} : Goto(r, label)
  /\ UNCHANGED <<engineVars, target, child, requestVars, raced>>

(* _iter_generation_chunks: take _generation_lock; no weights is an error.   *)
GenerateBegin(r) ==
  /\ pc[r] = "acquire"
  /\ generator = None
  /\ IF weights = None
     THEN Goto(r, "idle") /\ UNCHANGED generator
     ELSE Goto(r, "generating") /\ generator' = r
  /\ UNCHANGED <<selected, status, weights, kind, loadedId, pending, loadThread,
                 visionFailed, target, child, requestVars, raced>>

(* The generator ends; a tool-call round may then take the lock again.       *)
GenerateEnd(r) ==
  /\ pc[r] = "generating"
  /\ generator' = None
  /\ \E label \in {"idle", "acquire"} : Goto(r, label)
  /\ UNCHANGED <<selected, status, weights, kind, loadedId, pending, loadThread,
                 visionFailed, target, child, requestVars, raced>>

(* POST /models/unload: unload_model, in its three steps.                    *)
UnloadBegin(r) ==
  /\ pc[r] = "idle"
  /\ Goto(r, "unload")
  /\ NewWriter
  /\ UNCHANGED <<engineVars, target, child, requestVars>>

UnloadWeights(r) ==
  /\ pc[r] = "unload"
  /\ generator = None
  /\ weights' = None
  /\ kind' = "lm"
  /\ Goto(r, "forget")
  /\ UNCHANGED <<selected, status, loadedId, pending, loadThread, generator,
                 visionFailed, target, child, requestVars, raced>>

UnloadForget(r) ==
  /\ pc[r] = "forget"
  /\ loadedId' = None
  /\ pending' = None
  /\ Goto(r, "report")
  /\ UNCHANGED <<selected, status, weights, kind, loadThread, generator,
                 visionFailed, target, child, requestVars, raced>>

UnloadReport(r) ==
  /\ pc[r] = "report"
  /\ status' = "idle"
  /\ Goto(r, "idle")
  /\ UNCHANGED <<selected, weights, kind, loadedId, pending, loadThread,
                 generator, visionFailed, target, child, requestVars, raced>>

--------------------------------------------------------------------------------
Start(t) ==
  StartRead(t) \/ StartQueued(t) \/ (\E l \in Loaders : StartNew(t, l))
    \/ StartBoot(t)

Load(l) ==
  LoadCheck(l) \/ LoadProgress(l) \/ LoadChoose(l) \/ VisionFails(l) \/ LoadInstall(l)
    \/ LoadPublish(l) \/ LoadReady(l) \/ LoadFail(l) \/ LoadFinish(l)

Arrive(r) ==
  \/ "select" \in Routes[r] /\ SelectModel(r)
  \/ "load"   \in Routes[r] /\ LoadRoute(r)
  \/ "chat"   \in Routes[r] /\ ChatBegin(r)
  \/ "unload" \in Routes[r] /\ UnloadBegin(r)

Chat(r) ==
  ChatLook(r) \/ ChatLooked(r) \/ ChatComplete(r)
    \/ GenerateBegin(r) \/ GenerateEnd(r)

Unload(r) == UnloadWeights(r) \/ UnloadForget(r) \/ UnloadReport(r)

Next ==
  \/ \E t \in Threads : Start(t)
  \/ \E l \in Loaders : Load(l)
  \/ \E r \in Requests : Arrive(r) \/ Chat(r) \/ ChatTimeout(r) \/ Unload(r)

Spec == Init /\ [][Next]_vars

(* Every thread that can run does, and a blocked lock acquisition that is     *)
(* possible again and again is granted.  Clients need not send anything, and *)
(* nothing forces a timeout, a failure or more download progress.            *)
Fairness ==
  /\ \A t \in Threads : WF_vars(Start(t))
  /\ \A l \in Loaders :
       /\ WF_vars(LoadCheck(l))
       /\ WF_vars(LoadChoose(l))
       /\ SF_vars(LoadInstall(l))
       /\ WF_vars(LoadPublish(l) \/ LoadReady(l) \/ LoadFinish(l))
  /\ \A r \in Requests :
       /\ WF_vars(ChatLook(r) \/ ChatLooked(r) \/ ChatComplete(r))
       /\ SF_vars(GenerateBegin(r))
       /\ WF_vars(GenerateEnd(r))
       /\ SF_vars(UnloadWeights(r))
       /\ WF_vars(UnloadForget(r) \/ UnloadReport(r))

FairSpec == Spec /\ Fairness

--------------------------------------------------------------------------------
(* Properties.                                                               *)

StartStages   == {"start", "enqueue", "boot"}
LoaderStages  == LoadStages \cup {"free", "finish"} \cup StartStages
RequestStages == UnloadStages \cup StartStages \cup
  {"idle", "look", "looked", "complete", "acquire", "generating"}

(* Type invariant.  Every field holds a value of the kind the code gives it.  *)
TypeOK ==
  /\ selected \in Models
  /\ status \in {"idle", "loading", "ready", "error"}
  /\ weights \in Models \cup {None}
  /\ kind \in {"lm", "vlm"}
  /\ loadedId \in Models \cup {None}
  /\ pending \in Targets \cup {None}
  /\ loadThread \in Loaders \cup {None}
  /\ generator \in Requests \cup {None}
  /\ visionFailed \in BOOLEAN
  /\ pc \in [Threads -> LoaderStages \cup RequestStages]
  /\ \A l \in Loaders : pc[l] \in LoaderStages
  /\ \A r \in Requests : pc[r] \in RequestStages
  /\ target \in [Threads -> Targets \cup Intents \cup {None}]
  /\ child \in [Threads -> Loaders \cup {None}]
  /\ want \in [Requests -> Chats \cup {None}]
  /\ seen \in [Requests -> Models \cup {None}]
  /\ raced \in BOOLEAN

(* The startup snapshot tells the truth.  Once a load or an unload that       *)
(* overlapped no other one has ended, "ready" means that weights are         *)
(* resident and that _loaded_model_id names them, and "idle" means that       *)
(* nothing is resident and nothing is named: whatever earlier overlapping     *)
(* loads left behind is repaired.                                            *)
SnapshotTruthful ==
  Quiet /\ ~raced =>
    /\ status = "ready" => weights # None /\ loadedId = weights
    /\ status = "idle"  => weights = None /\ loadedId = None

(* No phantom load.  However loads and unloads overlap, the status is not     *)
(* left at "loading" once nobody is loading: each write of "loading" is       *)
(* followed by a "ready", "error" or "idle" of its own.                      *)
NoPhantomLoading == Quiet => status # "loading"

(* A generation always has a model to run: _generation_lock covers the check  *)
(* of _model as well as its use.                                             *)
GeneratorHasModel == generator # None => weights # None

(* While a generation holds _generation_lock, neither a finishing load nor an *)
(* unload replaces or removes the model under it.                            *)
NoSwapWhileGenerating == [][generator # None => UNCHANGED <<weights, kind>>]_vars

(* A chat in the wait loop of ensure_selected_model_ready or chat_stream.     *)
Waiting(r) == pc[r] \in {"look", "looked"}

(* The engine is at rest with something else: another model, the other        *)
(* runtime, or nothing that an unload in the middle of a load left named.     *)
SettledElsewhere(r) ==
  /\ status = "ready"
  /\ want[r] # None
  /\ loadedId # want[r].model \/ kind # want[r].kind

(* A waiting chat is not forgotten.  A chat stays in the wait loop for good   *)
(* only if others keep starting loads, if the engine comes to rest with       *)
(* something else, or if an unload came after its load and left the engine    *)
(* idle: nobody loads for a chat that waits already (chat_stream,             *)
(* unload_model).  Its 240 s are what ends these three.  In every other case, *)
(* loads, fallbacks, failures and generations of others included, it is       *)
(* served or told of an error without them.                                  *)
WaiterServed ==
  \A r \in Requests :
    <>[]Waiting(r) =>
      \/ []<>(\E q \in Requests \ {r} : pc[q] = "enqueue")
      \/ <>[]SettledElsewhere(r)
      \/ <>[](status = "idle")

(* What the documentation and the messages of the engine promise and the     *)
(* code does not keep: TLC finds both of the following violated.             *)

(* "Загрузка по требованию": a load that was asked for and queued because     *)
(* another one was running has a thread that will get to it.                 *)
QueuedLoadHasLoader ==
  pending # None => \E l \in Loaders : pc[l] \in LoadStages \cup {"finish"}

(* "Модель выгружена. Загрузится при следующем запросе.": with no weights     *)
(* resident, the next text chat finds a reason to load and does not take the *)
(* model for ready.                                                          *)
UnloadedLoadsOnRequest ==
  Quiet /\ weights = None => ~(status = "ready" /\ loadedId = selected /\ kind = "lm")

--------------------------------------------------------------------------------
(* The inductive invariant behind the theorems of ModelLoader_proofs.        *)

(* What a thread holds at each of its stages.                                *)
HoldsOK ==
  /\ \A t \in Threads : pc[t] = "start" => target[t] \in Intents
  /\ \A t \in Threads : pc[t] = "enqueue" => target[t] \in Targets
  /\ \A l \in Loaders : pc[l] \in LoadStages \cup {"finish"} => target[l] \in Targets
  /\ \A t \in Threads : pc[t] = "boot" => child[t] \in Loaders /\ pc[child[t]] = "created"
  /\ \A t, u \in Threads :
       pc[t] = "boot" /\ pc[u] = "boot" /\ child[t] = child[u] => t = u

(* "loading" is somebody's: a loader that will still write the status.       *)
LoadingIsOwned == status = "loading" => \E l \in Loaders : pc[l] \in LoadStages

(* A writer that is alone knows what it has written so far.                  *)
LoneWriter ==
  /\ \A t, u \in Threads : Writing(t) /\ Writing(u) => t = u
  /\ \A l \in Loaders :
       /\ pc[l] \in {"publish", "ready"} => weights = target[l].model
       /\ pc[l] = "ready" => loadedId = target[l].model
  /\ \A r \in Requests :
       /\ pc[r] \in {"forget", "report"} => weights = None
       /\ pc[r] = "report" => loadedId = None

SnapshotInv ==
  ~raced =>
    /\ LoneWriter
    /\ (\A t \in Threads : ~Writing(t)) =>
         /\ status = "ready" => weights # None /\ loadedId = weights
         /\ status = "idle"  => weights = None /\ loadedId = None

IInv ==
  /\ TypeOK
  /\ HoldsOK
  /\ LoadingIsOwned
  /\ GeneratorHasModel
  /\ SnapshotInv
================================================================================
