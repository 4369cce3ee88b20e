------------------------------- MODULE ChatTurns -------------------------------
(***************************************************************************)
(* Turns of a chat in the web client: the composer (composerGeneration.js) *)
(* and the request of a reply (assistantRuntime.js, backendClient.js), over *)
(* the chats of ChatSessions.  A turn is a submitted message, which is     *)
(* stored, planned, allowed and then streamed into a row that waits, or a  *)
(* continuation of a reply that is shown.                                  *)
(*                                                                         *)
(* One action is the code between two awaits, or one event of the stream.  *)
(* What a turn says is counted in pieces.  The rows of tools are left out: *)
(* what a tool does to the reply's rows is not.  The backend stores a      *)
(* request that arrives, and what it said at the end of the stream or      *)
(* never; it may fall silent at any time.                                  *)
(***************************************************************************)
EXTENDS ChatSessions

CONSTANTS Turns,      \* turns the user may start, in this order
          Scripts     \* what may happen in a behaviour: see Script

\* A script bounds a behaviour: the turns it has, those that use a tool or whose
\* reply repeats itself, whether replies bring titles, the pieces of a reply, the
\* models the automatic fallback tries, whether the backend may fail, and so
\* store an error or nothing, and whether the user makes other calls.
Script == [turns : SUBSET Turns, tooled : SUBSET Turns, looping : SUBSET Turns,
           titles : SUBSET BOOLEAN, said : Nat \ {0}, models : Nat,
           fails : BOOLEAN, calls : BOOLEAN]

ASSUME TurnsAssumption == /\ IsFiniteSet(Turns) /\ Turns \subseteq Nat \ {0}
                          /\ Scripts \subseteq Script

VARIABLES
  turn,     \* the turns
  reasoned, \* does an aborted fetch reject with the reason given to abort, as
            \* the standard says, or always with an AbortError
  script    \* what may happen

turnVars == <<sessionVars, turn, reasoned, script>>

Unused == [pc |-> "idle", kind |-> "send", chat |-> None, mid |-> None,
           said |-> 0, frozen |-> 0, attempt |-> 0, models |-> 0,
           row |-> <<None, None>>, made |-> 0, stopped |-> FALSE,
           retried |-> FALSE, taken |-> FALSE, snap |-> <<>>, alone |-> TRUE]

\* Awaits of a turn whose reply was requested.
Waiting == {"profile", "stream", "plain", "fallback"}
Running == Waiting \cup {"sync", "listed"}
UnderWay == Running \cup {"prepare", "grants"}

Source(r) == 10 * r + turn[r].attempt
Said(r, lo, hi) == IF lo >= hi THEN Blank ELSE Text(Source(r), lo, hi)
Sorry(r) == Text(10 * r + 9, 0, 1)      \* an error, or a reply that was not streamed
StoppedLabel == Text(9, 0, 1)           \* what a stopped empty reply says

UserId(r) == -(10 * r + 1)    \* ids the page gives to a turn's messages
ReplyId(r) == -(10 * r + 2)
StopId(r) == -(10 * r + 3)
ServedId(r, n) == 100 * r + 10 * turn[r].attempt + n    \* and those the backend gives

OfTurn(r, m) == m.text.src \in (10 * r)..(10 * r + 9)

\* All that is kept of a turn that has ended: whether it was alone, and whether
\* the last of its rows came to show something.
Ended(t) ==
  [Unused EXCEPT !.pc = "done", !.kind = t.kind, !.chat = t.chat,
                 !.alone = t.alone /\ (t.frozen = 0 \/ t.frozen < t.said)]

-----------------------------------------------------------------------------
(* Rows.                                                                   *)

\* updateMessageRowContent of the row named key.
Show(p, key, text, wait) ==
  [p EXCEPT !.rows = [i \in DOMAIN @ |-> IF @[i].key # key THEN @[i]
                                         ELSE [@[i] EXCEPT !.text = text, !.wait = wait]],
            !.gen.shown = IF p.gen # NoGen /\ p.gen.row = key /\ Attached(p.rows, key)
                          THEN text ELSE @]

Named0(p, key, id) ==
  [p EXCEPT !.rows = [i \in DOMAIN @ |-> IF @[i].key # key THEN @[i]
                                         ELSE [@[i] EXCEPT !.id = id]]]

\* appendMessage: the row goes to the stream whichever chat is shown.
Add(p, key, chat, m, wait) ==
  [p EXCEPT !.rows = Append(@, Row(key, chat, m, wait))]

PrunedFor(p, c) == [p EXCEPT !.rows = Prune(@, c)]

\* resolveAssistantRow: the row of the active generation, whosever it is, or
\* else the turn's own; <<None, None>> if neither is in the stream.
Resolved(p, r) ==
  IF p.gen # NoGen /\ Attached(p.rows, p.gen.row) THEN p.gen.row
  ELSE IF Attached(p.rows, turn[r].row) THEN turn[r].row ELSE <<None, None>>

\* The page on which the turn looks for its row: a continuation never looks
\* for the active generation's.
Looked(p, r) == IF turn[r].kind = "send" THEN Recover(p) ELSE p

RowOf(p, r) ==
  IF turn[r].kind = "send" THEN Resolved(p, r)
  ELSE IF Attached(p.rows, turn[r].row) THEN turn[r].row ELSE <<None, None>>

Owns(p, r) == p.gen.req = r

-----------------------------------------------------------------------------
(* Stopping.                                                               *)

(* Faulty variant: the row is left as it is. *)
StoppedAsItIs(p) == [p EXCEPT !.gen = NoGen]

\* stopActiveGeneration: what the row shows decides; an empty row goes, a text
\* is stored unless the row has an id.
Stopped(p) ==
  LET g == p.gen
      text == IF g.text = Blank THEN StoppedLabel ELSE g.text
      mine == SelectSeq(p.rows, LAMBDA x : x.key = g.row)
      named == mine # <<>> /\ Head(mine).id # None
      off == [p EXCEPT !.gen = NoGen]
      kept == Named0(Persist(Show(off, g.row, text, FALSE), g.chat,
                             Msg(StopId(g.req), "assistant", text)),
                     g.row, StopId(g.req))
      gone == [off EXCEPT !.rows = Removed(@, {i \in DOMAIN @ : @[i].key = g.row})]
  IN PrunedFor(IF g.shown = Blank THEN gone
               ELSE IF named THEN Show(off, g.row, text, FALSE) ELSE kept, g.chat)

Halted(t) == IF gen = NoGen THEN t ELSE [t EXCEPT ![gen.req].stopped = TRUE]

\* handleSubmit with an empty composer while the generation's chat is shown.
StopClick ==
  /\ ~DialogOpen
  /\ gen # NoGen /\ gen.chat = active
  /\ Become(Stopped(Page))
  /\ turn' = Halted(turn)
  /\ UNCHANGED <<server, fresh, call, ops, reasoned, script>>

-----------------------------------------------------------------------------
(* Sending.                                                                *)

\* ensureSessionForOutgoingMessage.
Ensured(p) ==
  IF p.active # None THEN p
  ELSE Activate([p EXCEPT !.store = <<Chat(p.seq + 1, "old", <<>>)>> \o @,
                          !.seq = @ + 1], p.seq + 1, TRUE)

InTurn(r) == r \in script.turns /\ turn[r].pc = "idle" /\ \A q \in Turns : q < r => turn[q].pc # "idle"

Sole(r) == \A q \in Turns \ {r} : turn[q].pc \notin UnderWay
Crowd(t, r) == [q \in Turns |-> IF q = r \/ Sole(r) THEN t[q] ELSE [t[q] EXCEPT !.alone = FALSE]]

\* handleSubmit up to prepareRequest: an active generation is stopped, in
\* whichever chat it is; the message is stored and shown.
Submit(r) ==
  LET p == Ensured(IF gen = NoGen THEN Page ELSE Stopped(Page))
      m == Msg(UserId(r), "user", Plain(UserId(r), 1))
  IN /\ InTurn(r) /\ ~DialogOpen
     /\ Become(Recover(Add(Persist(p, p.active, m), <<None, m.id>>, p.active, m, FALSE)))
     /\ turn' = Crowd([Halted(turn) EXCEPT
                        ![r] = [Unused EXCEPT !.pc = "prepare", !.chat = p.active,
                                              !.alone = Sole(r)]], r)
     /\ UNCHANGED <<server, fresh, call, ops, reasoned, script>>

\* triggerGenerationAction: "regenerate" sends the source text again.
Regenerate(r, i) ==
  /\ i \in DOMAIN rows /\ rows[i].role = "assistant" /\ rows[i].id # None
  /\ rows[i].id \in Ids(History(store, rows[i].chat))
  /\ Submit(r)

\* prepareRequest returned a plan.
Planned(r) ==
  /\ turn[r].pc = "prepare"
  /\ turn' = [turn EXCEPT ![r].pc = "grants"]
  /\ UNCHANGED <<sessionVars, reasoned, script>>

\* The context does not fit whatever is done: the turn ends with a notice.
Refuse(r) ==
  LET m == Msg(ReplyId(r), "assistant", Sorry(r))
  IN /\ turn[r].pc = "prepare"
     /\ Become(Recover(Add(Persist(Page, turn[r].chat, m), <<None, m.id>>,
                           turn[r].chat, m, FALSE)))
     /\ turn' = [turn EXCEPT ![r] = Ended(@)]
     /\ UNCHANGED <<server, fresh, call, ops, reasoned, script>>

Generation(r, chat, row) ==
  [NoGen EXCEPT !.req = r, !.chat = chat, !.row = row]

\* resolvePermissionGrantsForTurn returned: the row that waits is added and
\* the turn becomes the active generation, whatever was.
Allowed(r) ==
  LET c == turn[r].chat
      p == [Add(Page, <<r, 1>>, c, Msg(None, "assistant", Blank), TRUE)
              EXCEPT !.gen = Generation(r, c, <<r, 1>>)]
  IN /\ turn[r].pc = "grants"
     /\ Become(p)
     /\ turn' = [turn EXCEPT ![r].pc = "profile", ![r].row = <<r, 1>>, ![r].made = 1]
     /\ UNCHANGED <<server, fresh, call, ops, reasoned, script>>

\* handleContinueAction: the row of the reply is taken over and emptied.
Continue(r, i) ==
  LET old == rows[i]
      q == [Page EXCEPT
              !.rows = Rekey(@, old.key, <<r, 1>>),
              !.gen = Generation(r, old.chat, <<r, 1>>)]
  IN /\ InTurn(r) /\ ~DialogOpen
     /\ i \in DOMAIN rows /\ old.role = "assistant" /\ old.id # None
     /\ old.id \in Ids(History(store, old.chat))
     /\ Become(Recover(Show(q, <<r, 1>>, Blank, TRUE)))
     /\ turn' = Crowd([turn EXCEPT
                        ![r] = [Unused EXCEPT !.pc = "profile", !.kind = "continue",
                                              !.chat = old.chat, !.mid = old.id,
                                              !.row = <<r, 1>>, !.made = 1,
                                              !.alone = Sole(r)]], r)
     /\ UNCHANGED <<server, fresh, call, ops, reasoned, script>>

-----------------------------------------------------------------------------
(* The backend.                                                            *)

\* A message is added to a chat, which is made if there is none.
Told(s, c, m) ==
  IF c \in Ids(s) THEN WithMsgs(s, c, Append(History(s, c), m))
  ELSE <<Chat(c, "old", <<m>>)>> \o s

LastOf(s, c) == IF History(s, c) = <<>> THEN Msg(None, "none", Blank) ELSE Last(History(s, c))

\* prepare_chat_turn: only the last reply of a chat may be continued.
Accepts(r) ==
  turn[r].kind = "continue" =>
    LET m == LastOf(server, turn[r].chat) IN m.id = turn[r].mid /\ m.role = "assistant"

\* The id of the user's message, if the request that arrives now stores it.
NextUserId(r) == ServedId(r, CASE turn[r].pc = "profile" -> 1
                               [] turn[r].pc = "plain" -> 2
                               [] OTHER -> 3)

\* A request that arrives stores the user's message, unless that is the last one:
\* a retry whose first attempt was stored in part stores it a second time.
Taken(r) ==
  LET c == turn[r].chat
      m == Msg(NextUserId(r), "user", Plain(UserId(r), 1))
      last == LastOf(server, c)
  IN IF ~Accepts(r) THEN server
     ELSE IF turn[r].kind = "continue" \/ (last.role = "user" /\ last.text = m.text)
     THEN WithMsgs(server, c, History(server, c))
     ELSE Told(server, c, m)

\* A plain request stores its reply as a message of its own, also for a continuation.
Answered(r) ==
  IF Accepts(r) THEN Told(Taken(r), turn[r].chat,
                          Msg(ServedId(r, 4), "assistant", Sorry(r)))
  ELSE server

\* upsert_assistant_message: a reply of its own, or in place of the one continued.
Voiced(r, text) ==
  LET c == turn[r].chat
      told == History(server, c)
  IN IF turn[r].kind = "send"
     THEN Told(server, c, Msg(ServedId(r, 5), "assistant", text))
     ELSE IF c \notin Ids(server) THEN server
     ELSE WithMsgs(server, c, [n \in DOMAIN told |->
            IF told[n].id # turn[r].mid THEN told[n]
            ELSE [told[n] EXCEPT !.text = text]])

\* The reply ended for the backend too, which stores all it said.
Kept(r) == IF turn[r].said = 0 THEN server ELSE Voiced(r, Said(r, 0, turn[r].said))

\* The backend failed before it said anything: the error is stored as the reply.
Failed(r) == IF turn[r].taken /\ script.fails THEN Voiced(r, Sorry(r)) ELSE server

\* At the end of a request the backend has stored its reply, or never does.
Stores(chats) == server' = chats \/ (script.fails /\ server' = server)

-----------------------------------------------------------------------------
(* Ends of a turn.                                                         *)

(* Faulty variant: only the leftovers go. *)
FinalPrunes(p, r) ==
  IF p.gen # NoGen /\ ~Owns(p, r) THEN p ELSE PrunedFor(p, turn[r].chat)

\* The finally block: the turn's own generation goes, and leftovers with it.
Final(p, r) ==
  IF p.gen # NoGen /\ ~Owns(p, r) THEN p
  ELSE PrunedFor([p EXCEPT !.gen = NoGen], turn[r].chat)

\* A reply, or what stands in for one, came: the generation and the row take
\* its text, and the chat its title if it has one.
Spoken(p, r, text, title) ==
  LET c == turn[r].chat
      p1 == IF Owns(p, r) THEN [p EXCEPT !.gen.text = text] ELSE p
      p2 == IF title /\ c \in Ids(p1.store) THEN Renamed(p1, c) ELSE p1
      p3 == Looked(p2, r)
  IN Show(p3, RowOf(p3, r), text, FALSE)

\* A continuation puts its text in place of the one it continued, if the chat
\* still has that message.
Continued(p, r, text) ==
  LET retold(c) == [c EXCEPT !.msgs = [n \in DOMAIN @ |->
                      IF @[n].id = turn[r].mid THEN [@[n] EXCEPT !.text = text] ELSE @[n]]]
  IN [p EXCEPT !.store = [j \in DOMAIN @ |->
                            IF @[j].id = turn[r].chat THEN retold(@[j]) ELSE @[j]]]

\* Any other reply is stored and its row takes the id.
Replied(p, r, text) ==
  LET c == turn[r].chat
      kept == IF text = Blank \/ p.store = <<>> THEN p
              ELSE Named0(Persist(p, c, Msg(ReplyId(r), "assistant", text)),
                          RowOf(p, r), ReplyId(r))
  IN PrunedFor(kept, c)

Finish(r, text, title) ==
  /\ LET p == Spoken(Page, r, text, title)
     IN Become(IF turn[r].kind = "continue" THEN Continued(p, r, text)
               ELSE Replied(p, r, text))
  /\ turn' = [turn EXCEPT ![r].pc = "sync"]
  /\ UNCHANGED <<fresh, call, ops, reasoned, script>>

\* What was frozen before a tool is cut off.
Reply1(r) == Said(r, turn[r].frozen, turn[r].said)
Error1(r) == IF turn[r].frozen > 0 THEN Blank ELSE Sorry(r)

(* Faulty variant: a cancelled turn is taken for one that failed. *)
CancelSpeaks(r) == Finish(r, Error1(r), FALSE)

\* A cancelled turn asks for the chats; a cancelled continuation just ends.
Cancel(r) ==
  /\ Become(IF turn[r].kind = "send" THEN Page ELSE Final(Recover(Page), r))
  /\ turn' = [turn EXCEPT ![r] = IF @.kind = "send" THEN [@ EXCEPT !.pc = "sync"]
                                                   ELSE Ended(@)]
  /\ UNCHANGED <<fresh, call, ops, reasoned, script>>

-----------------------------------------------------------------------------
(* The reply.                                                              *)

\* ensureModelScenarioProfileApplied returned: the stream is asked for, unless
\* the turn was stopped meanwhile.
Profiled(r) ==
  /\ turn[r].pc = "profile"
  /\ IF turn[r].stopped THEN Cancel(r) /\ UNCHANGED server
     ELSE /\ \E arrives \in {FALSE, Accepts(r)} :
               /\ turn' = [turn EXCEPT ![r].pc = "stream", ![r].taken = arrives]
               /\ server' = IF arrives THEN Taken(r) ELSE server
          /\ UNCHANGED <<store, active, seq, rows, due, gen, fresh, call, ops, reasoned, script>>

Streaming(r) == turn[r].pc = "stream" /\ ~turn[r].stopped

\* onPartial.
Heard(p, r, said) ==
  LET text == Said(r, turn[r].frozen, said)
      p1 == Looked(IF Owns(p, r) THEN [p EXCEPT !.gen.text = text] ELSE p, r)
  IN Show(p1, RowOf(p1, r), text, text = Blank)

Partial(r) ==
  /\ Streaming(r) /\ turn[r].taken /\ turn[r].said < script.said
  /\ Become(Heard(Page, r, turn[r].said + 1))
  /\ turn' = [turn EXCEPT ![r].said = @ + 1, ![r].row = RowOf(Looked(Page, r), r)]
  /\ UNCHANGED <<server, fresh, call, ops, reasoned, script>>

\* snapshotAssistantTextBeforeTool: what was said so far stays in its row, and a
\* new row waits for the rest.
Frozen(p, r, key) ==
  LET p1 == Add(Show(p, Resolved(p, r), Reply1(r), FALSE), key, turn[r].chat,
                Msg(None, "assistant", Blank), TRUE)
  IN IF ~Owns(p1, r) THEN p1
     ELSE [p1 EXCEPT !.gen.row = key, !.gen.text = Blank, !.gen.shown = Blank]

\* onToolEvent: a tool starts.
ToolStart(r) ==
  LET t == turn[r]
      p == Recover(Page)
      key == <<r, t.made + 1>>
  IN /\ Streaming(r) /\ t.kind = "send" /\ t.chat = active /\ r \in script.tooled
     /\ Reply1(r) # Blank /\ Resolved(p, r) # <<None, None>>
     /\ Become(Frozen(p, r, key))
     /\ turn' = [turn EXCEPT ![r].frozen = t.said, ![r].row = key, ![r].made = @ + 1]
     /\ UNCHANGED <<server, fresh, call, ops, reasoned, script>>

(* Faulty variant: the retry is not remembered. *)
AgainAndAgain(t) == [t EXCEPT !.pc = "profile", !.said = 0, !.frozen = 0]

Again(t) == [t EXCEPT !.pc = "profile", !.said = 0, !.frozen = 0,
                      !.attempt = @ + 1, !.retried = TRUE]

\* hasRunawayRepetition, of a reply that has come to its end.
Repeats(r) == r \in script.looping /\ turn[r].said = script.said

\* The text repeats itself: the stream is aborted.  If the abort is recognised
\* the reply is asked for once more, else what was said is the reply.
AntiLoop(r) ==
  LET p == Recover(Page)
  IN /\ Streaming(r) /\ turn[r].kind = "send" /\ ~turn[r].retried
     /\ Repeats(r)
     /\ Stores(Kept(r))
     /\ IF reasoned THEN Finish(r, Reply1(r), FALSE)
        ELSE /\ Become(Show(p, Resolved(p, r), Blank, TRUE))
             /\ turn' = [turn EXCEPT ![r] = Again(@)]
             /\ UNCHANGED <<fresh, call, ops, reasoned, script>>

\* The stream's "done".
Done(r, title) ==
  /\ Streaming(r) /\ turn[r].said > 0
  /\ server' = Kept(r)
  /\ Finish(r, Reply1(r), title)

\* buildModelFallbackCandidates: the profile still has a model to offer.
ModelLeft(r) == turn[r].models < script.models

\* The stream ends in an error, in silence or by its own timeout: what was said
\* is the reply; with nothing said, a plain request or another model is tried.
Interrupted(r) ==
  /\ Streaming(r)
  /\ \/ /\ turn[r].said > 0 /\ Stores(Kept(r))
        /\ Finish(r, Reply1(r), FALSE)
     \/ /\ turn[r].said = 0 /\ server' \in {server, Failed(r)}
        /\ \/ /\ \E next \in {"plain"} \cup (IF ModelLeft(r) THEN {"fallback"} ELSE {}) :
                  turn' = [turn EXCEPT ![r].pc = next]
              /\ UNCHANGED <<store, active, seq, rows, due, gen, fresh, call, ops, reasoned, script>>
           \/ Finish(r, Error1(r), FALSE)

\* The user's stop reached the stream.  Under the automatic fallback an abort
\* counts as one more model that failed.
Aborted(r) ==
  /\ turn[r].pc = "stream" /\ turn[r].stopped
  /\ Stores(Kept(r))
  /\ IF ~reasoned /\ turn[r].models = 0 THEN Cancel(r)
     ELSE Finish(r, IF reasoned /\ turn[r].said > 0 THEN Reply1(r) ELSE Error1(r), FALSE)

\* sendMessage, which has no signal, was answered, or failed: another model may
\* be tried then.
Plainly(r) ==
  /\ turn[r].pc = "plain"
  /\ Stores(Answered(r))
  /\ \/ Finish(r, Sorry(r), FALSE)
     \/ /\ ModelLeft(r) /\ turn' = [turn EXCEPT ![r].pc = "fallback"]
        /\ UNCHANGED <<store, active, seq, rows, due, gen, fresh, call, ops, reasoned, script>>

\* tryModelFallback selected another model; sendMessageStream refuses to ask it
\* once the turn was stopped.
OtherModel(r) ==
  /\ turn[r].pc = "fallback"
  /\ Become(Heard(Page, r, turn[r].frozen))
  /\ \E arrives \in {FALSE, Accepts(r) /\ ~turn[r].stopped} :
       /\ turn' = [turn EXCEPT ![r].pc = "stream", ![r].models = @ + 1,
                               ![r].attempt = @ + 1, ![r].taken = arrives]
       /\ server' = IF arrives THEN Taken(r) ELSE server
  /\ UNCHANGED <<fresh, call, ops, reasoned, script>>

\* No model is left to try, or none could be selected.
NoModel(r) ==
  turn[r].pc = "fallback" /\ UNCHANGED server /\ Finish(r, Error1(r), FALSE)

-----------------------------------------------------------------------------
(* After the reply.                                                        *)

SyncAnswered(r) ==
  /\ turn[r].pc = "sync"
  /\ turn' = [turn EXCEPT ![r].pc = "listed", ![r].snap = server]
  /\ UNCHANGED <<sessionVars, reasoned, script>>

\* syncChatStoreFromBackend, which prefers the turn's chat; then the end.
Listed(r) ==
  /\ turn[r].pc = "listed"
  /\ Become(Final(Snapshot(Page, turn[r].snap, TRUE, turn[r].chat), r))
  /\ turn' = [turn EXCEPT ![r] = Ended(@)]
  /\ UNCHANGED <<server, fresh, call, ops, reasoned, script>>

SyncFailed(r) ==
  /\ turn[r].pc \in {"sync", "listed"}
  /\ Become(Final(Recover(Page), r))
  /\ turn' = [turn EXCEPT ![r] = Ended(@)]
  /\ UNCHANGED <<server, fresh, call, ops, reasoned, script>>

-----------------------------------------------------------------------------
TurnsInit ==
  /\ SessionInit
  /\ turn = [r \in Turns |-> Unused]
  /\ reasoned \in BOOLEAN
  /\ script \in Scripts

Ask(r) ==
  \/ Submit(r)
  \/ \E i \in DOMAIN rows : Regenerate(r, i) \/ Continue(r, i)

\* Steps of the turn itself, which timers and answers bring about.
Advance(r) ==
  \/ Planned(r) \/ Refuse(r) \/ Profiled(r)
  \/ Partial(r) \/ ToolStart(r) \/ AntiLoop(r)
  \/ \E title \in script.titles : Done(r, title)
  \/ Interrupted(r) \/ Aborted(r) \/ Plainly(r) \/ OtherModel(r) \/ NoModel(r)
  \/ SyncAnswered(r) \/ Listed(r) \/ SyncFailed(r)

TurnsNext ==
  \/ /\ SessionNext
     /\ script.calls \/ UNCHANGED call
     /\ UNCHANGED <<turn, reasoned, script>>
  \/ StopClick
  \/ \E r \in Turns : Ask(r) \/ Allowed(r) \/ Advance(r)

\* Only an Advance of a turn whose reply is under way takes it on: other steps
\* mark it as stopped or no longer alone.
TakenOn(r) == \/ turn'[r].pc # turn[r].pc
              \/ turn'[r].said # turn[r].said \/ turn'[r].frozen # turn[r].frozen

\* Weak fairness of the steps of a turn: the client's timers end every await of
\* it (Advance is enabled at each of them), but the user need not answer the dialog
\* about permissions.  It is spelled out, for WF would have TLC work out again
\* and again whether a step is enabled.
Progress(r) ==
  []<>(turn[r].pc \notin UnderWay \ {"grants"}) \/ []<><<TakenOn(r)>>_turnVars

TurnsSpec == TurnsInit /\ [][TurnsNext]_turnVars /\ \A r \in Turns : Progress(r)

-----------------------------------------------------------------------------
TurnsTypeOK ==
  /\ active \in IF store = <<>> THEN {None} ELSE Ids(store)
  /\ gen.req \in Turns \cup {None}
  /\ \A r \in Turns : turn[r].pc \in UnderWay \cup {"idle", "done"}

\* The active generation is that of a turn under way that was not stopped, and
\* is about its chat: the composer's button stops something that runs.
GenerationRuns ==
  gen # NoGen => /\ turn[gen.req].pc \in Running
                 /\ ~turn[gen.req].stopped
                 /\ turn[gen.req].chat = gen.chat

\* What a turn says is stored in its chat only, or, as persistChatMessage has
\* it, in another if its own is gone.  Where two chats have one id, a delete may
\* uncover the second of them.
ReplyInItsChat ==
  [][UniqueIds => \A r \in Turns, c \in Ids(store') :
       c # turn[r].chat /\ turn[r].chat \in Ids(store)
         => \A m \in {UserId(r), ReplyId(r), StopId(r)} :
              m \in Ids(History(store', c)) => m \in Ids(History(store, c))]_turnVars

\* A turn the user stopped adds nothing to the chats by itself.  It does if it
\* is past its signal (a plain request), if a model was replaced, or if the
\* abort is not recognised.
StopHolds ==
  [][\A r \in Turns :
       turn[r].stopped /\ turn[r].pc \in Waiting /\ turn'[r].pc \notin Waiting
         => \/ store' = store
            \/ turn[r].pc = "plain" \/ turn[r].pc = "fallback"
            \/ turn[r].models > 0 \/ reasoned]_turnVars

\* The same without exceptions.
StopIsFinal ==
  [][\A r \in Turns :
       turn[r].stopped /\ turn[r].pc \in Waiting /\ turn'[r].pc \notin Waiting
         => store' = store]_turnVars

\* No row waits for a submitted turn that has ended, if it was alone at all
\* times and said something after its last tool.  Else one may, for ever: the
\* redraw after the reply makes a row for an active generation without text, and
\* a continuation does not look at the row that a redraw made for it.
NoStuckRow ==
  \A r \in Turns :
    turn[r].pc = "done" /\ turn[r].kind = "send" /\ turn[r].alone
      => \A i \in DOMAIN rows : rows[i].key[1] = r => ~rows[i].wait

\* Every turn whose reply was requested ends.
TurnEnds == \A r \in Turns : turn[r].pc = "profile" ~> turn[r].pc = "done"
=============================================================================
