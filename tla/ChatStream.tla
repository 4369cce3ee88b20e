------------------------------ MODULE ChatStream ------------------------------
(***************************************************************************)
(* What one chat's message log holds while its turns run and its user edits  *)
(* it: prepare_chat_turn, POST /chat/stream and POST /chat (backend/         *)
(* routes.py), the message routes (backend/routes_chat_store.py), and the    *)
(* rows below them (backend/storage.py).                                    *)
(*                                                                          *)
(* Every storage call is a transaction of its own under AppStorage's lock,   *)
(* so between two calls of a turn any other turn or route may run.  The      *)
(* packets of a stream come from its worker thread (module Generation).      *)
(***************************************************************************)
EXTENDS Integers

CONSTANTS
  Turns,      \* chat requests, each served once
  RequestId,  \* [Turns -> _]: context.request_id, the same when a client retries
  MaxTools,   \* tool calls in one turn
  MaxEdits,   \* bound: how often the user deletes, clears or edits
  None

ASSUME ChatAssumption ==
  /\ MaxTools \in Nat
  /\ MaxEdits \in Nat
  /\ None \notin Nat

Editor == "editor"   \* the user, when he edits a message

ASSUME EditorAssumption == Editor \notin Turns

VARIABLES
  exists,   \* the chat has a row in chats
  msgs,     \* messages: [id -> [role, of, words, state]]
  nextId,   \* messages.id is AUTOINCREMENT
  edits,    \* how often the user has changed the log so far
  pc,       \* the stage of a turn
  dup,      \* the id of the user message it found to be its own, or None
  aid,      \* assistant_message_id, or None
  text,     \* assistant_stream_text: "empty", "blank" (no words) or "words"
  tool,     \* the message of the tool call that is running, or None
  tools,    \* tool calls so far
  cont,     \* the turn continues an assistant message
  base,     \* history: the words of that message when the turn began
  ended     \* history: how the turn ended

logVars  == <<exists, msgs, nextId>>
sayVars  == <<aid, text, tool>>
turnVars == <<dup, sayVars, tools, cont, base>>
vars     == <<logVars, edits, pc, turnVars, ended>>

Init ==
  /\ exists = FALSE
  /\ msgs = << >>
  /\ nextId = 1
  /\ edits = 0
  /\ pc = [t \in Turns |-> "idle"]
  /\ dup = [t \in Turns |-> None]
  /\ aid = [t \in Turns |-> None]
  /\ text = [t \in Turns |-> "empty"]
  /\ tool = [t \in Turns |-> None]
  /\ tools = [t \in Turns |-> 0]
  /\ cont = [t \in Turns |-> FALSE]
  /\ base = [t \in Turns |-> {}]
  /\ ended = [t \in Turns |-> "no"]

Goto(t, label) == pc' = [pc EXCEPT ![t] = label]

(* A turn ends; its locals that nobody looks at any more are dropped.        *)
Close(t, how) ==
  /\ Goto(t, "closed")
  /\ tools' = [tools EXCEPT ![t] = 0]
  /\ ended' = [ended EXCEPT ![t] = how]

--------------------------------------------------------------------------------
(* Rows.  A message is whose turn's words it holds and what its meta says.   *)

Message(role, t, words, state) ==
  [role |-> role, of |-> t, words |-> words, state |-> state]

WithRow(log, new, m) ==
  [id \in DOMAIN log \cup {new} |-> IF id = new THEN m ELSE log[id]]

(* No row, no change, and nobody looks at the result.                        *)
ChangedRow(log, id, words, state) ==
  IF id \in DOMAIN log
  THEN [log EXCEPT ![id] = Message(@.role, @.of, words, state)]
  ELSE log

(* Faulty variant: a plain rowid, which is reused when the last rows go.     *)
FreshIdReused == CHOOSE n \in 1..nextId :
  /\ \A id \in DOMAIN msgs : id < n
  /\ n = 1 \/ n - 1 \in DOMAIN msgs

FreshId == nextId

(* Faulty variant: the foreign key is not enforced.                          *)
AppendUnchecked(m) ==
  /\ msgs' = WithRow(msgs, FreshId, m)
  /\ nextId' = nextId + 1
  /\ UNCHANGED exists

(* append_message.  Its foreign key refuses a chat that is gone.             *)
Append(m) ==
  /\ exists
  /\ msgs' = WithRow(msgs, FreshId, m)
  /\ nextId' = nextId + 1
  /\ UNCHANGED exists

(* update_message.                                                           *)
Update(id, words, state) ==
  /\ msgs' = ChangedRow(msgs, id, words, state)
  /\ UNCHANGED <<exists, nextId>>

(* upsert_assistant_message.                                                 *)
Upsert(t, words, state) ==
  IF aid[t] = None
  THEN Append(Message("assistant", t, words, state)) /\ aid' = [aid EXCEPT ![t] = FreshId]
  ELSE Update(aid[t], words, state) /\ UNCHANGED aid

Spoken(t) == IF text[t] = "words" THEN {t} ELSE {}

--------------------------------------------------------------------------------
(* prepare_chat_turn.                                                        *)

LastId == CHOOSE id \in DOMAIN msgs : \A other \in DOMAIN msgs : other <= id

(* Look at the last message: is it the user message of an earlier attempt,   *)
(* or the answer to continue?  A title may be generated after this.          *)
Look(t) ==
  /\ pc[t] = "idle"
  /\ Goto(t, "looked")
  /\ \/ /\ dup' = [dup EXCEPT ![t] =
             IF /\ DOMAIN msgs # {}
                /\ msgs[LastId].role = "user"
                /\ RequestId[msgs[LastId].of] = RequestId[t]
                /\ msgs[LastId].words # {Editor}
             THEN LastId ELSE None]
        /\ UNCHANGED <<aid, cont, base>>
     \/ /\ DOMAIN msgs # {}
        /\ msgs[LastId].role = "assistant"
        /\ cont' = [cont EXCEPT ![t] = TRUE]
        /\ base' = [base EXCEPT ![t] = msgs[LastId].words]
        /\ aid' = [aid EXCEPT ![t] = LastId]
        /\ UNCHANGED dup
  /\ UNCHANGED <<logVars, text, tool, tools, ended>>

(* ensure_chat.                                                              *)
Ensure(t) ==
  /\ pc[t] = "looked"
  /\ exists' = TRUE
  /\ Goto(t, "ensured")
  /\ UNCHANGED <<msgs, nextId, turnVars, ended>>

(* Store the user's message, unless it is there or the turn continues.  From *)
(* here on the two routes differ; /chat never changes a message.             *)
Persist(t) ==
  /\ pc[t] = "ensured"
  /\ IF dup[t] # None \/ cont[t]
     THEN UNCHANGED logVars
     ELSE Append(Message("user", t, {t}, "sent"))
  /\ dup' = [dup EXCEPT ![t] = None]
  /\ \/ Goto(t, "stream") /\ UNCHANGED aid
     \/ Goto(t, "plain") /\ aid' = [aid EXCEPT ![t] = None]
  /\ UNCHANGED <<text, tool, tools, cont, base, ended>>

Open(t) == pc[t] \in {"stream", "plain"}

(* The model may not be used, is not ready or has failed before anything of  *)
(* an answer was stored; a stream reports a too long context the same way.   *)
Refuse(t) ==
  /\ Open(t)
  /\ text[t] = "empty" /\ tools[t] = 0
  /\ Close(t, "refused")
  /\ UNCHANGED <<logVars, dup, sayVars, cont, base>>

(* A message cannot be appended because the chat was deleted meanwhile: the  *)
(* integrity error ends the turn.                                            *)
Crash(t) ==
  /\ \/ pc[t] = "ensured" /\ dup[t] = None /\ ~cont[t]
     \/ Open(t) /\ tool[t] = None
  /\ ~exists
  /\ Close(t, "crashed")
  /\ UNCHANGED <<logVars, dup, sayVars, cont, base>>

--------------------------------------------------------------------------------
(* POST /chat/stream: one action for each kind of packet.                    *)

Streaming(t) == pc[t] = "stream"

(* Between tool_start and tool_result the worker is busy with the tool.      *)
Talking(t) == Streaming(t) /\ tool[t] = None

(* Faulty variants: a reply without deltas is not stored; a cancelled reply   *)
(* is only shown; tool calls are not bounded.                                *)
DoneUnstored(t) ==
  /\ Talking(t)
  /\ IF aid[t] = None
     THEN UNCHANGED <<logVars, aid>>
     ELSE Upsert(t, {t}, "final")
  /\ Close(t, "done")
  /\ UNCHANGED <<dup, text, tool, cont, base>>

CancelledUnstored(t) ==
  /\ Talking(t)
  /\ Close(t, "cancelled")
  /\ UNCHANGED <<logVars, dup, sayVars, cont, base>>

PlainToolUnbounded(t) ==
  /\ pc[t] = "plain"
  /\ tools' = [tools EXCEPT ![t] = @ + 1]
  /\ Append(Message("tool", t, {t}, "result"))
  /\ UNCHANGED <<pc, dup, aid, text, tool, cont, base, ended>>

(* A piece of text, perhaps only white space.                                *)
Delta(t) ==
  /\ Talking(t)
  /\ \E piece \in {"blank", "words"} :
       /\ text' = [text EXCEPT ![t] = IF @ = "words" THEN @ ELSE piece]
       /\ Upsert(t, IF "words" \in {text[t], piece} THEN {t} ELSE {}, "streaming")
  /\ UNCHANGED <<pc, dup, tool, tools, cont, base, ended>>

(* tool_start: close_assistant_segment, then append the tool's message.      *)
ToolStart(t) ==
  /\ Talking(t)
  /\ tools[t] < MaxTools
  /\ exists
  /\ tools' = [tools EXCEPT ![t] = @ + 1]
  /\ tool' = [tool EXCEPT ![t] = FreshId]
  /\ LET log == IF text[t] = "words"
                THEN ChangedRow(msgs, aid[t], {t}, "final") ELSE msgs
     IN  msgs' = WithRow(log, FreshId, Message("tool", t, {t}, "running"))
  /\ nextId' = nextId + 1
  /\ UNCHANGED <<exists, pc, dup, aid, text, cont, base, ended>>

ToolResult(t) ==
  /\ Streaming(t)
  /\ tool[t] # None
  /\ Update(tool[t], {t}, "result")
  /\ tool' = [tool EXCEPT ![t] = None]
  /\ UNCHANGED <<pc, dup, aid, text, tools, cont, base, ended>>

(* The reply is what was streamed or, without words, the model's result.     *)
Done(t) ==
  /\ Talking(t)
  /\ Upsert(t, {t}, "final")
  /\ Close(t, "done")
  /\ UNCHANGED <<dup, text, tool, cont, base>>

(* The generation was stopped: keep what was said.                           *)
Cancelled(t) ==
  /\ Talking(t)
  /\ IF aid[t] # None /\ text[t] = "words"
     THEN Update(aid[t], {t}, "cancelled")
     ELSE UNCHANGED logVars
  /\ Close(t, "cancelled")
  /\ UNCHANGED <<dup, sayVars, cont, base>>

(* An error: its message takes the reply's place if nothing was streamed.    *)
Failed(t) ==
  /\ Talking(t)
  /\ Upsert(t, IF text[t] = "empty" THEN {t} ELSE Spoken(t), "error")
  /\ Close(t, "error")
  /\ UNCHANGED <<dup, text, tool, cont, base>>

(* The client disconnects: "stop generation quietly".                        *)
Leave(t) ==
  /\ Streaming(t)
  /\ Close(t, "left")
  /\ UNCHANGED <<logVars, dup, sayVars, cont, base>>

--------------------------------------------------------------------------------
(* POST /chat: the tools have run, their messages and the reply are appended *)
(* one by one (build_chat_response).                                         *)

PlainTool(t) ==
  /\ pc[t] = "plain"
  /\ tools[t] < MaxTools
  /\ tools' = [tools EXCEPT ![t] = @ + 1]
  /\ Append(Message("tool", t, {t}, "result"))
  /\ UNCHANGED <<pc, dup, aid, text, tool, cont, base, ended>>

PlainDone(t) ==
  /\ pc[t] = "plain"
  /\ Upsert(t, {t}, "final")
  /\ Close(t, "done")
  /\ UNCHANGED <<dup, text, tool, cont, base>>

--------------------------------------------------------------------------------
(* The user's own routes.                                                    *)

DeleteChat ==
  /\ exists' = FALSE
  /\ msgs' = << >>

ClearMessages ==
  /\ msgs' = << >>
  /\ UNCHANGED exists

DeleteMessage(id) ==
  /\ msgs' = [other \in DOMAIN msgs \ {id} |-> msgs[other]]
  /\ UNCHANGED exists

(* edit_message changes the text and keeps the meta.                         *)
EditMessage(id) ==
  /\ msgs' = [msgs EXCEPT ![id].words = {Editor}]
  /\ UNCHANGED exists

Edit ==
  /\ exists
  /\ edits < MaxEdits
  /\ edits' = edits + 1
  /\ \/ DeleteChat
     \/ ClearMessages
     \/ \E id \in DOMAIN msgs : DeleteMessage(id) \/ EditMessage(id)
  /\ UNCHANGED <<nextId, pc, turnVars, ended>>

--------------------------------------------------------------------------------
Prepare(t) == Look(t) \/ Ensure(t) \/ Persist(t)

Packet(t) ==
  Delta(t) \/ ToolStart(t) \/ ToolResult(t) \/ Done(t) \/ Cancelled(t)
    \/ Failed(t) \/ Leave(t)

Next ==
  \/ \E t \in Turns :
       /\ \/ Prepare(t) \/ Refuse(t) \/ Crash(t) \/ Packet(t)
          \/ PlainTool(t) \/ PlainDone(t)
       /\ UNCHANGED edits
  \/ Edit

Spec == Init /\ [][Next]_vars

--------------------------------------------------------------------------------
(* Properties.                                                               *)

Messages ==
  [role : {"user", "assistant", "tool"}, of : Turns, words : SUBSET (Turns \cup {Editor}),
   state : {"sent", "streaming", "final", "cancelled", "error", "running", "result"}]

(* Type invariant.  Every field holds a value of the kind the code gives it,  *)
(* and the ids in use were given out.                                        *)
TypeOK ==
  /\ exists \in BOOLEAN
  /\ nextId \in Nat \ {0}
  /\ edits \in 0..MaxEdits
  /\ DOMAIN msgs \subseteq 1..(nextId - 1)
  /\ \A id \in DOMAIN msgs : msgs[id] \in Messages
  /\ pc \in [Turns -> {"idle", "looked", "ensured", "stream", "plain", "closed"}]
  /\ dup \in [Turns -> Nat \cup {None}]
  /\ aid \in [Turns -> Nat \cup {None}]
  /\ text \in [Turns -> {"empty", "blank", "words"}]
  /\ tool \in [Turns -> Nat \cup {None}]
  /\ tools \in [Turns -> 0..MaxTools]
  /\ cont \in [Turns -> BOOLEAN]
  /\ base \in [Turns -> SUBSET (Turns \cup {Editor})]
  /\ ended \in [Turns ->
       {"no", "refused", "crashed", "done", "cancelled", "error", "left"}]

(* No orphans: the log holds no message of a chat that does not exist.       *)
NoOrphans == ~exists => DOMAIN msgs = {}

(* A turn writes its own messages only.  The ids it keeps between packets,    *)
(* while the user deletes messages and other turns append some, name its own  *)
(* reply (or the one it continues), its own tool call, or nothing any more.  *)
OwnMessages ==
  \A t \in Turns :
    /\ aid[t] \in DOMAIN msgs =>
         msgs[aid[t]].role = "assistant" /\ (cont[t] \/ msgs[aid[t]].of = t)
    /\ tool[t] \in DOMAIN msgs =>
         msgs[tool[t]].role = "tool" /\ msgs[tool[t]].of = t

(* A finished reply is in the log.  When a client was told "done", the reply  *)
(* is stored under the turn's id, unless the user deleted or edited it or the *)
(* message is shared with another turn, one that continues it.               *)
DoneIsStored ==
  \A t \in Turns : ended[t] = "done" =>
    /\ aid[t] \in 1..(nextId - 1)
    /\ aid[t] \in DOMAIN msgs =>
         \/ msgs[aid[t]].words \in {{t}, {Editor}}
         \/ \E u \in Turns \ {t} : aid[u] = aid[t]

(* No spinner for ever.  A message is marked as being streamed, or a tool as  *)
(* running, only while its turn is open; otherwise the client has left, the   *)
(* chat was deleted under the turn, or the turn was stopped before it had     *)
(* said a word.                                                              *)
NoStaleSpinner ==
  \A id \in DOMAIN msgs : msgs[id].state \in {"streaming", "running"} =>
    \E t \in Turns :
      /\ id \in {aid[t], tool[t]}
      /\ \/ Open(t)
         \/ ended[t] \in {"left", "crashed"}
         \/ ended[t] = "cancelled" /\ text[t] = "blank"

(* "В режиме продолжения text — это полный текст (existing + delta)": a reply *)
(* that was continued to its end still has the words it had before.          *)
ContinueKeepsText ==
  [][\A t \in Turns :
       /\ ended[t] = "no" /\ ended'[t] = "done"
       /\ cont[t] /\ aid'[t] \in DOMAIN msgs'
       => base[t] \subseteq msgs'[aid'[t]].words]_vars

--------------------------------------------------------------------------------
(* The inductive invariant behind the theorems of ChatStream_proofs.         *)

(* The ids that a turn keeps were given out before.                          *)
RefsInv ==
  \A t \in Turns :
    /\ aid[t] \in 1..(nextId - 1) \cup {None}
    /\ tool[t] \in 1..(nextId - 1) \cup {None}

(* What a turn has done by each of its stages.                               *)
StageInv ==
  \A t \in Turns :
    /\ ended[t] = "no" <=> pc[t] # "closed"
    /\ pc[t] \in {"idle", "looked", "ensured"} => tools[t] = 0
    /\ pc[t] \in {"idle", "looked", "ensured", "plain"} => text[t] = "empty"
    /\ tool[t] # None => pc[t] \in {"stream", "closed"} /\ (pc[t] = "stream" => tools[t] > 0)
    /\ pc[t] \in {"idle", "plain"} => aid[t] = None
    /\ pc[t] \in {"looked", "ensured"} => aid[t] = None \/ cont[t]

(* DoneIsStored: the turn that shares a message has got past prepare_chat_turn *)
(* before it writes, so the reply was intact until then.                      *)
DoneInv ==
  \A t \in Turns : ended[t] = "done" =>
    /\ aid[t] \in 1..(nextId - 1)
    /\ aid[t] \in DOMAIN msgs =>
         \/ msgs[aid[t]].words \in {{t}, {Editor}}
         \/ \E u \in Turns \ {t} : aid[u] = aid[t] /\ pc[u] \in {"stream", "closed"}

(* NoStaleSpinner: the turn to blame for the mark has made it.               *)
SpinnerInv ==
  \A id \in DOMAIN msgs : msgs[id].state \in {"streaming", "running"} =>
    \E t \in Turns :
      /\ id = tool[t] \/ (id = aid[t] /\ text[t] # "empty")
      /\ \/ Open(t)
         \/ ended[t] \in {"left", "crashed"}
         \/ ended[t] = "cancelled" /\ text[t] = "blank"

IInv ==
  /\ TypeOK
  /\ NoOrphans
  /\ RefsInv
  /\ StageInv
  /\ OwnMessages
  /\ DoneInv
  /\ SpinnerInv
================================================================================
