------------------------------ MODULE Generation ------------------------------
(***************************************************************************)
(* How requests share the model: _generation_lock, the one                  *)
(* _generation_stop_event, the rounds of tool calls between generations     *)
(* (backend/engine.py), and the SSE stream that consumes a worker thread's   *)
(* queue and always asks for a stop when it ends (backend/routes.py).       *)
(*                                                                          *)
(* A call is a POST /chat/stream, with a worker thread of its own, a POST    *)
(* /chat, or a "title": one plain generation for suggest_chat_title or       *)
(* summarize_history_segment.                                               *)
(***************************************************************************)
EXTENDS Integers

CONSTANTS
  Calls,      \* requests that generate
  Kind,       \* [Calls -> Kinds]
  MaxRounds,  \* MAX_TOOL_CALL_ROUNDS
  MaxCalls,   \* MAX_TOOL_CALLS_PER_ROUND
  None

Kinds == {"stream", "chat", "title"}

ASSUME GenerationAssumption ==
  /\ Kind \in [Calls -> Kinds]
  /\ MaxRounds \in Nat \ {0}
  /\ MaxCalls \in Nat \ {0}
  /\ None \notin Calls

VARIABLES
  lock,      \* the call holding _generation_lock, or None
  stop,      \* _generation_stop_event
  worker,    \* what the thread that resolves the call does
  round,     \* round_index
  allowed,   \* tools_are_allowed
  calls,     \* tool calls of this round that are still to run
  outcome,   \* "open", then how the call ended: the last packet of its queue
  consumer,  \* the SSE generator of a stream
  left,      \* history: the client closed the stream, or storing it failed
  ran,       \* history: tools run so far for the call
  askers     \* history: who asked for a stop since the lock was last taken

workerVars == <<worker, round, allowed, calls, outcome, ran>>
streamVars == <<consumer, left>>
vars == <<lock, stop, workerVars, streamVars, askers>>

User == "user"   \* POST /chat/stop, which names no chat

Streams == {c \in Calls : Kind[c] = "stream"}

Init ==
  /\ lock = None
  /\ stop = FALSE
  /\ worker = [c \in Calls |-> "off"]
  /\ round = [c \in Calls |-> 0]
  /\ allowed = [c \in Calls |-> FALSE]
  /\ calls = [c \in Calls |-> 0]
  /\ outcome = [c \in Calls |-> "open"]
  /\ consumer = [c \in Calls |-> "off"]
  /\ left = [c \in Calls |-> FALSE]
  /\ ran = [c \in Calls |-> 0]
  /\ askers = {}

Goto(c, label) == worker' = [worker EXCEPT ![c] = label]

Finish(c, how) ==
  /\ Goto(c, "finished")
  /\ outcome' = [outcome EXCEPT ![c] = how]

(* request_stop_generation.                                                  *)
RequestStop(who) ==
  /\ stop' = TRUE
  /\ askers' = askers \cup {who}

--------------------------------------------------------------------------------
(* Faulty variants of the actions below: the mistakes that the properties are *)
(* there to catch.  No specification uses them.                              *)

(* The stop event is not cleared when a generation begins.                   *)
GenerateBeginKeepsStop(c) ==
  /\ worker[c] = "queued"
  /\ lock = None
  /\ lock' = c
  /\ askers' = {}
  /\ Goto(c, "generating")
  /\ UNCHANGED <<stop, round, allowed, calls, outcome, ran, streamVars>>

(* The round is not counted.                                                 *)
RunToolSameRound(c) ==
  /\ worker[c] = "tools"
  /\ calls' = [calls EXCEPT ![c] = @ - 1]
  /\ ran' = [ran EXCEPT ![c] = @ + 1]
  /\ Goto(c, IF calls[c] > 1 THEN "tools" ELSE "queued")
  /\ UNCHANGED <<lock, stop, round, allowed, outcome, streamVars, askers>>

(* Calls beyond MaxCalls are run too.                                        *)
GenerateToolCallsAll(c) ==
  /\ worker[c] = "generating"
  /\ allowed[c]
  /\ lock' = None
  /\ \E n \in 1..(MaxCalls + 1) : calls' = [calls EXCEPT ![c] = n]
  /\ Goto(c, "tools")
  /\ UNCHANGED <<stop, round, allowed, outcome, ran, streamVars, askers>>

(* A stopped worker ends without a last packet.                              *)
GenerateStoppedQuietly(c) ==
  /\ worker[c] = "generating"
  /\ stop
  /\ lock' = None
  /\ Goto(c, "finished")
  /\ UNCHANGED <<stop, round, allowed, calls, outcome, ran, streamVars, askers>>

(* A stopped generation keeps the lock.                                      *)
GenerateStoppedLocked(c) ==
  /\ worker[c] = "generating"
  /\ stop
  /\ Finish(c, "stopped")
  /\ UNCHANGED <<lock, stop, round, allowed, calls, ran, streamVars, askers>>

--------------------------------------------------------------------------------
(* A call begins.                                                            *)

(* POST /chat with its model ready, and helper generations.                  *)
CallStart(c) ==
  /\ Kind[c] # "stream"
  /\ worker[c] = "off"
  /\ \E b \in BOOLEAN :
       allowed' = [allowed EXCEPT ![c] = b /\ Kind[c] = "chat"]
  /\ Goto(c, "queued")
  /\ UNCHANGED <<lock, stop, round, calls, outcome, ran, streamVars, askers>>

(* POST /chat/stream: the response starts and waits for the model.           *)
StreamOpen(c) ==
  /\ Kind[c] = "stream"
  /\ consumer[c] = "off"
  /\ consumer' = [consumer EXCEPT ![c] = "waiting"]
  /\ UNCHANGED <<lock, stop, workerVars, left, askers>>

(* The model is ready: start the worker thread.                              *)
StreamStart(c) ==
  /\ consumer[c] = "waiting"
  /\ consumer' = [consumer EXCEPT ![c] = "open"]
  /\ \E b \in BOOLEAN : allowed' = [allowed EXCEPT ![c] = b]
  /\ Goto(c, "queued")
  /\ UNCHANGED <<lock, stop, round, calls, outcome, ran, left, askers>>

(* The load failed or took too long, or the context is too small.            *)
StreamRefused(c) ==
  /\ consumer[c] = "waiting"
  /\ consumer' = [consumer EXCEPT ![c] = "cleanup"]
  /\ UNCHANGED <<lock, stop, workerVars, left, askers>>

--------------------------------------------------------------------------------
(* The thread that resolves the call: _iter_model_tool_resolution.           *)

(* _iter_generation_chunks: take the lock, then clear the event.             *)
GenerateBegin(c) ==
  /\ worker[c] = "queued"
  /\ lock = None
  /\ lock' = c
  /\ stop' = FALSE
  /\ askers' = {}
  /\ Goto(c, "generating")
  /\ UNCHANGED <<round, allowed, calls, outcome, ran, streamVars>>

(* The stop event is seen before a chunk or around a non-stream fallback.    *)
GenerateStopped(c) ==
  /\ worker[c] = "generating"
  /\ stop
  /\ lock' = None
  /\ Finish(c, "stopped")
  /\ UNCHANGED <<stop, round, allowed, calls, ran, streamVars, askers>>

(* No model, a model error or an empty reply.                                *)
GenerateFailed(c) ==
  /\ worker[c] = "generating"
  /\ lock' = None
  /\ Finish(c, "failed")
  /\ UNCHANGED <<stop, round, allowed, calls, ran, streamVars, askers>>

(* The reply is the answer: it calls no tool, or tools are not allowed.      *)
GenerateAnswer(c) ==
  /\ worker[c] = "generating"
  /\ lock' = None
  /\ Finish(c, "done")
  /\ UNCHANGED <<stop, round, allowed, calls, ran, streamVars, askers>>

(* The reply calls n tools; those beyond MaxCalls are ignored.               *)
GenerateToolCalls(c) ==
  /\ worker[c] = "generating"
  /\ allowed[c]
  /\ lock' = None
  /\ \E n \in 1..MaxCalls : calls' = [calls EXCEPT ![c] = n]
  /\ Goto(c, "tools")
  /\ UNCHANGED <<stop, round, allowed, outcome, ran, streamVars, askers>>

(* The reply calls none, but a plugin's trigger matches the user's text.     *)
GenerateAutoInvoke(c) ==
  /\ worker[c] = "generating"
  /\ allowed[c]
  /\ lock' = None
  /\ calls' = [calls EXCEPT ![c] = 1]
  /\ allowed' = [allowed EXCEPT ![c] = FALSE]
  /\ Goto(c, "tools")
  /\ UNCHANGED <<stop, round, outcome, ran, streamVars, askers>>

(* Run a tool, ok or not; after the last one of the round, generate again or *)
(* give up.                                                                  *)
RunTool(c) ==
  /\ worker[c] = "tools"
  /\ calls' = [calls EXCEPT ![c] = @ - 1]
  /\ ran' = [ran EXCEPT ![c] = @ + 1]
  /\ IF calls[c] > 1
     THEN UNCHANGED <<worker, round, outcome>>
     ELSE /\ round' = [round EXCEPT ![c] = @ + 1]
          /\ IF round[c] + 1 < MaxRounds
             THEN Goto(c, "queued") /\ UNCHANGED outcome
             ELSE Finish(c, "done")
  /\ UNCHANGED <<lock, stop, allowed, streamVars, askers>>

(* The engine is not ready when asked, the prompt cannot be built, or the     *)
(* user asks about an image that the loaded model cannot see: no generation.  *)
PrepareEnds(c) ==
  /\ worker[c] = "queued"
  /\ \E how \in {"failed", "done"} :
       /\ how = "done" => round[c] = 0 /\ Kind[c] # "title"
       /\ Finish(c, how)
  /\ UNCHANGED <<lock, stop, round, allowed, calls, ran, streamVars, askers>>

--------------------------------------------------------------------------------
(* The SSE generator of a stream.                                            *)

(* The worker's last packet is read: store the reply, send "done" or "error". *)
StreamEnd(c) ==
  /\ consumer[c] = "open"
  /\ outcome[c] # "open"
  /\ consumer' = [consumer EXCEPT ![c] = "cleanup"]
  /\ UNCHANGED <<lock, stop, workerVars, left, askers>>

(* The client disconnects, or a message cannot be stored: the worker goes on. *)
StreamLeft(c) ==
  /\ consumer[c] \in {"waiting", "open"}
  /\ consumer' = [consumer EXCEPT ![c] = "cleanup"]
  /\ left' = [left EXCEPT ![c] = TRUE]
  /\ UNCHANGED <<lock, stop, workerVars, askers>>

(* stream_events_with_cleanup: finally, ask for a stop.                      *)
StreamCleanup(c) ==
  /\ consumer[c] = "cleanup"
  /\ consumer' = [consumer EXCEPT ![c] = "closed"]
  /\ RequestStop(c)
  /\ UNCHANGED <<lock, workerVars, left>>

(* POST /chat/stop.                                                          *)
UserStop ==
  /\ RequestStop(User)
  /\ UNCHANGED <<lock, workerVars, streamVars>>

--------------------------------------------------------------------------------
Generate(c) ==
  GenerateStopped(c) \/ GenerateFailed(c) \/ GenerateAnswer(c)
    \/ GenerateToolCalls(c) \/ GenerateAutoInvoke(c)

Stream(c) ==
  StreamOpen(c) \/ StreamStart(c) \/ StreamRefused(c) \/ StreamEnd(c)
    \/ StreamLeft(c) \/ StreamCleanup(c)

Next ==
  \/ UserStop
  \/ \E c \in Calls :
       CallStart(c) \/ GenerateBegin(c) \/ Generate(c) \/ RunTool(c)
         \/ PrepareEnds(c) \/ Stream(c)

Spec == Init /\ [][Next]_vars

(* Threads run, a generation ends after at most max_tokens chunks, tools have *)
(* time limits, and the wait for the model has one of 240 s.  A lock that is  *)
(* free for good is taken.  Nobody has to stop or to leave anything.         *)
Fairness ==
  \A c \in Calls :
    /\ WF_vars(GenerateBegin(c))
    /\ WF_vars(Generate(c))
    /\ WF_vars(RunTool(c))
    /\ WF_vars(StreamStart(c) \/ StreamRefused(c))
    /\ WF_vars(StreamEnd(c) \/ StreamCleanup(c))

FairSpec == Spec /\ Fairness

--------------------------------------------------------------------------------
(* Properties.                                                               *)

(* Type invariant.  Every field holds a value of the kind the code gives it.  *)
TypeOK ==
  /\ lock \in Calls \cup {None}
  /\ stop \in BOOLEAN
  /\ worker \in [Calls -> {"off", "queued", "generating", "tools", "finished"}]
  /\ round \in [Calls -> 0..MaxRounds]
  /\ allowed \in [Calls -> BOOLEAN]
  /\ calls \in [Calls -> 0..MaxCalls]
  /\ outcome \in [Calls -> {"open", "done", "stopped", "failed"}]
  /\ consumer \in [Calls -> {"off", "waiting", "open", "cleanup", "closed"}]
  /\ left \in [Calls -> BOOLEAN]
  /\ ran \in [Calls -> Nat]
  /\ askers \subseteq Calls \cup {User}

(* Stops do not leak from one generation into the next, though one event      *)
(* serves all of them and every stream sets it as it closes: a call is        *)
(* stopped only if the stop came during its own generation, a stop that came  *)
(* in time is not erased by others that start, turns do not overlap, and no   *)
(* outcome is revised.                                                       *)
Slot == INSTANCE GenerationSlot WITH
  holder <- lock, asked <- stop /\ lock # None

ImplementsSlot == Slot!Spec

(* Tool calls are bounded.  Whatever the model replies, a call runs at most   *)
(* MAX_TOOL_CALLS_PER_ROUND tools in each of MAX_TOOL_CALL_ROUNDS rounds, one  *)
(* that is invoked automatically included.                                   *)
ToolsBounded == \A c \in Calls : ran[c] <= MaxRounds * MaxCalls

(* Every stream ends.  The client gets "done" or "error" or has left, and the *)
(* cleanup has run, whatever other calls, stops and disconnects do to the     *)
(* shared lock and event.                                                    *)
StreamsEnd ==
  \A c \in Streams : consumer[c] # "off" ~> consumer[c] = "closed"

(* An abandoned worker ends too.  A worker that nobody listens to any more    *)
(* gives the model back for good, even if its stop was lost.                 *)
WorkersEnd ==
  \A c \in Calls : worker[c] # "off" ~> worker[c] = "finished"

(* "Генерация остановлена пользователем.": a generation is stopped because    *)
(* the user asked for it or closed the stream himself.  The code does not     *)
(* keep this: the cleanup of every stream sets the one stop event.           *)
StoppedByUser ==
  [][\A c \in Calls :
       outcome[c] = "open" /\ outcome'[c] = "stopped" =>
         User \in askers \/ c \in askers]_vars

--------------------------------------------------------------------------------
(* The inductive invariant behind the theorems of Generation_proofs.         *)

(* The lock is held by the call that generates, and by nobody else.          *)
LockInv == \A c \in Calls : worker[c] = "generating" <=> lock = c

(* A worker puts its last packet when it finishes.                           *)
OutcomeInv == \A c \in Calls : worker[c] = "finished" <=> outcome[c] # "open"

(* A stream starts its worker once.                                          *)
ConsumerInv ==
  \A c \in Calls :
    /\ consumer[c] = "waiting" => Kind[c] = "stream"
    /\ Kind[c] = "stream" /\ consumer[c] \in {"off", "waiting"} => worker[c] = "off"

(* The tools that have run belong to the rounds that have passed, and those   *)
(* still to run to the present one.                                          *)
BudgetInv ==
  \A c \in Calls :
    /\ worker[c] # "finished" => round[c] < MaxRounds
    /\ IF worker[c] = "tools"
       THEN calls[c] >= 1 /\ ran[c] + calls[c] <= (round[c] + 1) * MaxCalls
       ELSE ran[c] <= round[c] * MaxCalls

IInv == TypeOK /\ LockInv /\ OutcomeInv /\ ConsumerInv /\ BudgetInv
================================================================================
