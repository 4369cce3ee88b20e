------------------------------ MODULE ChatSessions ------------------------------
(***************************************************************************)
(* The chat store of the web client (src/src/chats): the copy of the       *)
(* backend's chats that the page keeps, the rows drawn from it, and the    *)
(* calls that change both sides.  The client always runs in "backend" mode *)
(* (runtimeConfig.js:320), so the store is never saved by the client: it   *)
(* is replaced by the snapshot every mutating route answers with, and      *)
(* patched locally when such a call fails.                                 *)
(*                                                                         *)
(* One action is one stretch of code between two awaits.  A call may fail  *)
(* before the server has seen it or after, and calls overlap: answers may  *)
(* be applied in another order than the server gave them.                  *)
(*                                                                         *)
(* Texts are abstract: [src, lo, hi] is the part lo..hi of what source src *)
(* said; Blank is the empty text.  A title is "old" or "new".  The id of a *)
(* chat is n for the "chat-n" that a client gives and a negative number    *)
(* for the "chat-<hex>" that the server makes up.                          *)
(***************************************************************************)
EXTENDS Integers, FiniteSets, SequencesExt, FiniteSetsExt

CONSTANTS Named,    \* ids the server makes up
          Calls,    \* calls of the user that can be in progress at once
          Kinds,    \* the kinds of calls the user may make
          Motion,   \* are transitions animated
          MaxOps    \* bound on the calls and switches of a behaviour

ASSUME IdsAssumption == \A x \in Named : x \in Int /\ x < 0

VARIABLES
  store,   \* chatStore.sessions
  active,  \* activeChatSessionId (= chatStore.activeSessionId), None if no chat
  seq,     \* chatSessionIdSeq, from which "chat-n" ids are made
  rows,    \* the rows of the chat stream
  due,     \* a delayed commitRender of the latest transitionToken is pending
  gen,     \* the composer's activeGeneration: its request, chat, row and text,
           \* what its row shows and how many rows were made for it anew
  server,  \* the backend's chats, newest first
  fresh,   \* number of message ids given so far
  call,    \* the calls in progress
  ops      \* calls and switches so far

sessionVars == <<store, active, seq, rows, due, gen, server, fresh, call, ops>>

None == 0
Text(src, lo, hi) == [src |-> src, lo |-> lo, hi |-> hi]
Blank == Text(None, 0, 0)
NoGen == [req |-> None, chat |-> None, row |-> <<None, None>>,
          text |-> Blank, shown |-> Blank, made |-> 0]
\* What was typed long ago, in its first version or in its second: never Blank.
Plain(id, version) == Text(None, id, version)
Msg(id, role, text) == [id |-> id, role |-> role, text |-> text]
Chat(id, title, msgs) == [id |-> id, title |-> title, msgs |-> msgs]

Ids(s) == {s[i].id : i \in DOMAIN s}
At(s, x) == Min({i \in DOMAIN s : s[i].id = x})
History(s, c) == IF c \in Ids(s) THEN s[At(s, c)].msgs ELSE <<>>
Title(s, c) == IF c \in Ids(s) THEN s[At(s, c)].title ELSE "old"

\* moveChatSessionToFront, after the session became chat.
ToFront(s, chat) == <<chat>> \o RemoveAt(s, At(s, chat.id))

WithMsgs(s, c, msgs) == ToFront(s, Chat(c, Title(s, c), msgs))

EditMsg(msgs, m) ==
  [i \in DOMAIN msgs |-> IF msgs[i].id = m
                         THEN [msgs[i] EXCEPT !.text = Plain(m, 2)] ELSE msgs[i]]

DropMsg(msgs, m) == RemoveAt(msgs, At(msgs, m))

\* normalizeChatStore: the first session of every id is kept.
Normalize(s) ==
  FoldLeft(LAMBDA kept, chat : IF chat.id \in Ids(kept) THEN kept
                               ELSE Append(kept, chat), <<>>, s)

-----------------------------------------------------------------------------
(* The rows of the chat stream.  A row drawn from the store has the        *)
(* message's id; a transient row, made by request r as its n-th, has none. *)

Row(key, chat, m, wait) ==
  [key |-> key, chat |-> chat, id |-> m.id, role |-> m.role, text |-> m.text,
   wait |-> wait]

Drawn(s, c) ==
  [i \in DOMAIN History(s, c) |->
     Row(<<None, History(s, c)[i].id>>, c, History(s, c)[i], FALSE)]

Attached(rs, key) == \E i \in DOMAIN rs : rs[i].key = key

ReplyRow(row, c) == row.role = "assistant" /\ row.chat = c

SaysTheSame(a, b) == a.src = b.src /\ a.lo = b.lo

\* The rows that are left when those at some places are taken off the page.
Removed(rs, at) ==
  FoldLeftDomain(LAMBDA kept, i : IF i \in at THEN kept ELSE Append(kept, rs[i]),
                 <<>>, rs)

\* pruneTransientAssistantDuplicates.
Prune(rs, c) ==
  LET told(i) == ReplyRow(rs[i], c) /\ ~rs[i].wait /\ rs[i].text # Blank
      extra(i) == /\ told(i) /\ rs[i].id = None
                  /\ \E j \in DOMAIN rs :
                       /\ told(j) /\ rs[j].text = rs[i].text
                       /\ rs[j].id # None \/ j > i
  IN Removed(rs, {i \in DOMAIN rs : extra(i)})

\* findRecoverableAssistantRow: the last row of the chat that still waits, or
\* that shows the beginning or a continuation of the text.
Recoverable(rs, c, text) ==
  {i \in DOMAIN rs :
     /\ ReplyRow(rs[i], c)
     /\ IF text = Blank THEN rs[i].wait
        ELSE ~rs[i].wait /\ rs[i].text # Blank /\ SaysTheSame(rs[i].text, text)}

-----------------------------------------------------------------------------
(* What the page is, and what the functions of the code make of a page.    *)

Page == [store |-> store, active |-> active, seq |-> seq, rows |-> rows,
         due |-> due, gen |-> gen]

Become(p) ==
  /\ store' = p.store /\ active' = p.active /\ seq' = p.seq
  /\ rows' = p.rows /\ due' = p.due /\ gen' = p.gen

\* The key only names a row: it is renamed when a request takes the row over.
Rekey(rs, old, new) ==
  [i \in DOMAIN rs |-> IF rs[i].key = old THEN [rs[i] EXCEPT !.key = new] ELSE rs[i]]

\* recoverAssistantRowForActiveGeneration, which syncState calls: a row that is
\* gone is replaced if the chat of the generation is shown.
Recover(p) ==
  LET g == p.gen
      key == <<g.req, -(g.made + 1)>>
      found == Recoverable(p.rows, g.chat, g.text)
      taken == p.rows[Max(found)]
      new == Row(key, g.chat, Msg(None, "assistant", g.text), g.text = Blank)
  IN IF g = NoGen \/ Attached(p.rows, g.row) \/ g.chat # p.active THEN p
     ELSE [p EXCEPT
             !.gen.row = key, !.gen.made = @ + 1,
             !.gen.shown = IF found # {} THEN taken.text ELSE g.text,
             !.rows = Prune(IF found # {} THEN Rekey(p.rows, taken.key, key)
                            ELSE Append(p.rows, new), g.chat)]

\* rebuildChatSessionCounters and ensureChatSessionIdentity.
Counted(s, sq) == Max({sq} \cup {x \in Ids(s) : x > 0})

\* setActiveChatSession: a button that is not in the list means the first one.
\* Messages are drawn if render says so, later when the user watches the chat
\* change.
Activate(p, target, render) ==
  LET s == p.store
      a == IF target \in Ids(s) THEN target
           ELSE IF s = <<>> THEN None ELSE Head(s).id
      later == render /\ Motion /\ p.active # None /\ a # None /\ p.active # a
  IN Recover([p EXCEPT !.active = a,
                       !.seq = Counted(s, @),
                       !.due = IF render THEN later ELSE @,
                       !.rows = IF render /\ ~later THEN Drawn(s, a) ELSE @])

\* renderActiveChatMessages' delayed commitRender.
CommitRender ==
  /\ due
  /\ rows' = Drawn(store, active)
  /\ due' = FALSE
  /\ UNCHANGED <<store, active, seq, gen, server, fresh, call, ops>>

(* Faulty variant: the message goes to the chat that is shown. *)
PersistShown(p, c, m) ==
  IF p.active \notin Ids(p.store) \/ m.text = Blank THEN p
  ELSE Activate([p EXCEPT !.store = WithMsgs(@, p.active,
                   Append(History(@, p.active), m))], p.active, FALSE)

(* persistChatMessage of m for chat c: the chat that is active now stands   *)
(* in for one that is gone.  Nothing is kept of an empty text.             *)
Persist(p, c, m) ==
  LET t == IF c \in Ids(p.store) THEN c ELSE p.active
      q == [p EXCEPT !.store = WithMsgs(@, t, Append(History(@, t), m))]
  IN IF t \notin Ids(p.store) \/ m.text = Blank THEN p
     ELSE IF t = p.active THEN Activate(q, t, FALSE) ELSE q

(* Faulty variants, for the runs that show what the properties can tell: a  *)
(* snapshot that leaves the view as it is, and one that is merged.         *)
SnapshotKeepsActive(p, snap, preserve, prefer) == [p EXCEPT !.store = Normalize(snap)]

SnapshotMerges(p, snap, preserve, prefer) ==
  Activate([p EXCEPT !.store = Normalize(snap \o @), !.seq = 0], p.active, TRUE)

(* applyChatStoreSnapshot.  The wanted chat is made active before it is     *)
(* shown, so that the change is not animated.                              *)
Snapshot(p, snap, preserve, prefer) ==
  LET s == Normalize(snap)
      wanted == SelectSeq(<<prefer, IF preserve THEN p.active ELSE None, Head(s).id>>,
                          LAMBDA c : c \in Ids(s))
  IN IF snap = <<>>
     THEN [p EXCEPT !.store = <<>>, !.active = None, !.rows = <<>>, !.due = FALSE]
     ELSE Activate([p EXCEPT !.store = s, !.seq = 0, !.active = Head(wanted)],
                   Head(wanted), TRUE)

-----------------------------------------------------------------------------
(* The calls.  Destructive ones of the menu ask first; the dialog is modal. *)
(* Calls of the public API neither ask nor patch the store on failure.     *)

Idle == [kind |-> "none", api |-> FALSE, chat |-> None, msg |-> None,
         phase |-> "idle", snap |-> <<>>, made |-> None, alone |-> TRUE]

DialogOpen == \E k \in Calls : call[k].phase = "ask"

Asking == {"rename", "clear", "delete", "edit", "remove"}
Pointed == Asking \cup {"duplicate"}

\* canEditMessageInUI.
Editable(chat, msg) ==
  \E i \in DOMAIN History(store, chat) :
    History(store, chat)[i].id = msg /\ History(store, chat)[i].role = "user"

\* What the user can point at: a session of the list, or a row with an id.
Targets(kind) ==
  IF kind \notin {"edit", "remove"} THEN Ids(store) \X {None}
  ELSE {t \in {<<rows[i].chat, rows[i].id>> : i \in DOMAIN rows} :
          t[2] # None /\ (kind = "edit" => Editable(t[1], t[2]))}

\* Call k begins; alone says that no other was in progress at any time of it.
Start(k, kind, api, chat, msg, phase) ==
  /\ call[k].phase = "idle" /\ ops < MaxOps /\ kind \in Kinds
  /\ ops' = ops + 1
  /\ call' = [j \in Calls |->
       IF j # k THEN [call[j] EXCEPT !.alone = FALSE]
       ELSE [Idle EXCEPT !.kind = kind, !.api = api, !.chat = chat, !.msg = msg,
                         !.phase = phase,
                         !.alone = \A i \in Calls : call[i].phase = "idle"]]
  /\ UNCHANGED <<store, active, rows, due, gen, server, fresh>>

\* executeContextMenuAction.
MenuCall(k, kind, target) ==
  /\ ~DialogOpen
  /\ kind \in Pointed /\ target \in Targets(kind)
  /\ Start(k, kind, FALSE, target[1], target[2],
           IF kind \in Asking THEN "ask" ELSE "sent")
  /\ UNCHANGED seq

\* publicApi's calls on a chat or on a message of it.
ApiCall(k, kind, target) ==
  /\ kind \in Pointed /\ target \in Targets(kind)
  /\ Start(k, kind, TRUE, target[1], target[2], "sent")
  /\ UNCHANGED seq

ApiImport(k) ==
  Start(k, "import", TRUE, None, None, "sent") /\ UNCHANGED seq

\* A file was chosen, and it could be read as an export.
ImportCall(k) ==
  /\ ~DialogOpen
  /\ Start(k, "import", FALSE, None, None, "ask")
  /\ UNCHANGED seq

\* The clear button asks about the chat that is active now.
WipeCall(k) ==
  /\ ~DialogOpen
  /\ active # None
  /\ Start(k, "wipe", FALSE, active, None, "ask")
  /\ UNCHANGED seq

\* The new-session button makes the record, with its id, before the call.
CreateCall(k) ==
  /\ ~DialogOpen
  /\ Start(k, "create", FALSE, seq + 1, None, "sent")
  /\ seq' = seq + 1

Answer(k, yes) ==
  /\ call[k].phase = "ask"
  /\ call' = [call EXCEPT ![k] = IF yes THEN [@ EXCEPT !.phase = "sent"] ELSE Idle]
  /\ UNCHANGED <<store, active, seq, rows, due, gen, server, fresh, ops>>

\* A click on a chat of the list, the menu's "open" and a search result.
Switch(c) ==
  /\ ops < MaxOps /\ ~DialogOpen
  /\ c \in Ids(store) \ {active}
  /\ Become(Activate(Page, c, TRUE))
  /\ ops' = ops + 1
  /\ UNCHANGED <<server, fresh, call>>

-----------------------------------------------------------------------------
(* The backend does a call, or refuses one whose chat or message it does   *)
(* not know, and answers with all chats.  An imported chat is the newest.  *)

Copies(msgs) == [i \in DOMAIN msgs |-> [msgs[i] EXCEPT !.id = fresh + i]]

Refused(q) ==
  \/ q.kind = "create" /\ q.chat \in Ids(server)
  \/ q.kind \notin {"create", "import", "sync"} /\ q.chat \notin Ids(server)
  \/ q.kind \in {"edit", "remove"} /\ q.msg \notin Ids(History(server, q.chat))

\* The server's chats after the call, new being an id it may make up.
Served(q, new) ==
  LET old == History(server, q.chat)
      rest == RemoveAt(server, At(server, q.chat))
  IN CASE q.kind = "rename" -> ToFront(server, Chat(q.chat, "new", old))
       [] q.kind \in {"clear", "wipe"} -> WithMsgs(server, q.chat, <<>>)
       [] q.kind = "edit" -> WithMsgs(server, q.chat, EditMsg(old, q.msg))
       [] q.kind = "remove" -> WithMsgs(server, q.chat, DropMsg(old, q.msg))
       [] q.kind = "delete" -> IF Len(server) > 1 THEN rest
                               ELSE <<Chat(new, "old", <<>>)>>
       [] q.kind = "create" -> <<Chat(q.chat, "old", <<>>)>> \o server
       [] q.kind = "duplicate" ->
            <<Chat(new, Title(server, q.chat), Copies(old))>> \o server
       [] q.kind = "import" ->
            <<Chat(new, "new", <<Msg(fresh + 1, "user", Plain(fresh + 1, 1))>>)>>
              \o server
       [] OTHER -> server

Serve(k) ==
  /\ call[k].phase = "sent"
  /\ \/ /\ Refused(call[k])
        /\ call' = [call EXCEPT ![k].phase = "failed"]
        /\ UNCHANGED <<server, fresh>>
     \/ /\ ~Refused(call[k])
        /\ \E new \in Named \ Ids(server) :
             /\ new = Min(Named \ Ids(server))
             /\ server' = Served(call[k], new)
             /\ call' = [call EXCEPT ![k].phase = "served", ![k].snap = server',
                                     ![k].made = new]
             /\ fresh' = Max({fresh} \cup UNION {Ids(server'[i].msgs) :
                                                   i \in DOMAIN server'})
  /\ UNCHANGED <<store, active, seq, rows, due, gen, ops>>

\* request: the call times out or the connection breaks, before the server has
\* done it or after.
Break(k) ==
  /\ call[k].phase \in {"sent", "served"}
  /\ call' = [call EXCEPT ![k].phase = "failed"]
  /\ UNCHANGED <<store, active, seq, rows, due, gen, server, fresh, ops>>

-----------------------------------------------------------------------------
(* Back in the client.                                                     *)

Prefers(q) ==
  CASE q.kind \in {"rename", "clear", "wipe", "edit", "remove", "create"} -> q.chat
    [] q.kind = "duplicate" -> q.made
    [] q.kind = "import" -> Head(q.snap).id
    [] OTHER -> None

Preserves(q) == q.kind \notin {"delete", "duplicate", "create", "import"}

\* runBackendChatMutation, tryApplyChatStoreFromMutation and
\* syncChatStoreFromBackend: the answer is applied.  The import handler then
\* asks for the whole list once more.
ApplyAnswer(k) ==
  /\ call[k].phase = "served"
  /\ Become(Snapshot(Page, call[k].snap, Preserves(call[k]), Prefers(call[k])))
  /\ call' = [call EXCEPT ![k] = IF @.kind = "import" /\ ~@.api
                                 THEN [Idle EXCEPT !.kind = "sync", !.phase = "sent",
                                    !.alone = \A j \in Calls \ {k} :
                                                call[j].phase = "idle"]
                                 ELSE Idle]
  /\ UNCHANGED <<server, fresh, ops>>

Changed(s) == [Page EXCEPT !.store = s]

\* Faulty variants: the chat is amended without a redraw, another one is cleared,
\* a copy gets an id that is in use.
AmendUndrawn(c, msgs) == Activate(Changed(WithMsgs(store, c, msgs)), c, FALSE)

ClearActive(c) == Activate(Changed(WithMsgs(store, active, <<>>)), active, TRUE)

DuplicateReusesId(c) ==
  Activate(Changed(<<Chat(seq, Title(store, c), <<>>)>> \o store), seq, TRUE)

\* clearChatMessagesById, editMessageById, deleteMessageById: the chat comes to
\* the front and becomes the active one; it is drawn if it was already.
AmendLocally(c, msgs) ==
  Activate(Changed(WithMsgs(store, c, msgs)), c, c = active)

ClearLocally(c) == AmendLocally(c, <<>>)

EditLocally(c, m) == AmendLocally(c, EditMsg(History(store, c), m))

RemoveLocally(c, m) == AmendLocally(c, DropMsg(History(store, c), m))

Renamed(p, c) ==
  Activate([p EXCEPT !.store = ToFront(@, Chat(c, "new", History(@, c)))], c, TRUE)

\* The last chat to go is replaced by a new one.
DeleteLocally(c) ==
  LET rest == RemoveAt(store, At(store, c))
      left == IF rest = <<>> THEN <<Chat(seq + 1, "old", <<>>)>> ELSE rest
      next == IF active = c THEN Head(left).id ELSE active
  IN Activate([Changed(left) EXCEPT !.active = next], next, TRUE)

\* A copy made here has messages of its own.
DuplicateLocally(c) ==
  LET copy == [i \in DOMAIN History(store, c) |->
                 [History(store, c)[i] EXCEPT !.id = i]]
  IN Activate([Changed(<<Chat(seq + 1, Title(store, c), copy)>> \o store)
                 EXCEPT !.seq = @ + 1], seq + 1, TRUE)

\* The new-session button when the server could not create the chat: the chat
\* is made locally and greets the user.
CreateLocally(c) ==
  LET hello == Msg(fresh + 1, "assistant", Plain(fresh + 1, 1))
      made == Activate(Changed(<<Chat(c, "old", <<>>)>> \o store), c, TRUE)
      said == Persist(made, c, hello)
  IN [said EXCEPT !.rows = Append(@, Row(<<None, hello.id>>, c, hello, FALSE))]

\* The clear button's fallback clears the chat that is active by now.
WipeLocally ==
  [Changed([store EXCEPT ![At(store, active)].msgs = <<>>])
     EXCEPT !.rows = <<>>, !.due = FALSE]

\* What the handlers of the menu and the buttons do when call q failed; those of
\* the public API do nothing.
Amended(q) ==
  LET known == q.chat \in Ids(store)
      has == known /\ q.msg \in Ids(History(store, q.chat))
  IN CASE q.api -> Page
       [] q.kind = "rename" /\ known -> Renamed(Page, q.chat)
       [] q.kind = "clear" /\ known -> ClearLocally(q.chat)
       [] q.kind = "delete" /\ known -> DeleteLocally(q.chat)
       [] q.kind = "duplicate" /\ known -> DuplicateLocally(q.chat)
       [] q.kind = "edit" /\ has -> EditLocally(q.chat, q.msg)
       [] q.kind = "remove" /\ has -> RemoveLocally(q.chat, q.msg)
       [] q.kind = "wipe" /\ active # None -> WipeLocally
       [] q.kind = "create" -> CreateLocally(q.chat)
       [] OTHER -> Page

Fallback(k) ==
  /\ call[k].phase = "failed"
  /\ Become(Amended(call[k]))
  /\ fresh' = IF call[k].kind = "create" THEN fresh + 1 ELSE fresh
  /\ call' = [call EXCEPT ![k] = Idle]
  /\ UNCHANGED <<server, ops>>

-----------------------------------------------------------------------------
Mine == Msg(1, "user", Plain(1, 1))
Reply == Msg(2, "assistant", Plain(2, 1))
Other == Msg(3, "user", Plain(3, 1))

\* The page after its first synchronisation, with two chats.
SessionInit ==
  /\ server = <<Chat(1, "old", <<Mine, Reply>>), Chat(2, "old", <<Other>>)>>
  /\ store = server /\ active = 1 /\ seq = 2
  /\ rows = Drawn(store, active) /\ due = FALSE
  /\ gen = NoGen
  /\ fresh = 3 /\ ops = 0
  /\ call = [k \in Calls |-> Idle]

UserStep ==
  \/ \E c \in Ids(store) : Switch(c)
  \/ \E k \in Calls :
       \/ \E kind \in Kinds : \E target \in Targets(kind) :
            MenuCall(k, kind, target) \/ ApiCall(k, kind, target)
       \/ ApiImport(k) \/ ImportCall(k) \/ WipeCall(k) \/ CreateCall(k)
       \/ \E yes \in BOOLEAN : Answer(k, yes)

CallStep(k) == Serve(k) \/ Break(k) \/ ApplyAnswer(k) \/ Fallback(k)

SessionNext == UserStep \/ CommitRender \/ \E k \in Calls : CallStep(k)

Spec == SessionInit /\ [][SessionNext]_sessionVars

-----------------------------------------------------------------------------
\* Every id is one the program or the server can give, and some chat is active
\* unless there is none.
TypeOK ==
  /\ Ids(store) \cup Ids(server) \subseteq (Nat \ {0}) \cup Named
  /\ seq \in Nat
  /\ active \in IF store = <<>> THEN {None} ELSE Ids(store)
  /\ \A k \in Calls : call[k].phase \in {"idle", "ask", "sent", "served", "failed"}

\* setActiveChatSession and renderActiveChatMessages: with no redraw due, the
\* rows are those of the active chat, unless an amendment of another chat was
\* made locally: that one makes its chat the active one and draws nothing.
ViewIsActive == ~due => rows = Drawn(store, active)

AmendsElsewhere ==
  \E k \in Calls : /\ call[k].phase = "failed"
                   /\ call[k].kind \in {"clear", "edit", "remove"}
                   /\ call[k].chat # active

ViewFollows == [][ViewIsActive => ViewIsActive' \/ AmendsElsewhere]_sessionVars

\* No two sessions share an id, unless the fallback of the new-session button
\* adds a chat that an answer, or another creation, has brought in meanwhile.
UniqueIds == Cardinality(Ids(store)) = Len(store)

AddsTwice ==
  \E k \in Calls : /\ call[k].phase = "failed" /\ call[k].kind = "create"
                   /\ call[k].chat \in Ids(store)

StaysUnique == [][UniqueIds => UniqueIds' \/ AddsTwice]_sessionVars

\* An answer to a call during which no other was in progress leaves the page
\* with the backend's chats, whatever failed before (applyChatStoreSnapshot);
\* answers of calls that overlap may be applied in the wrong order.
CatchesUp ==
  [][\A k \in Calls :
       call[k].phase = "served" /\ call[k].alone /\ call'[k].phase \in {"idle", "sent"}
         => store' = server]_sessionVars

\* A failed call shortens the chat it is about and no other, but for the clear
\* button: its fallback clears the chat that is active when the call fails.
ShortensTheNamed ==
  [][\A c \in Ids(store) \cap Ids(store') :
       (\E k \in Calls : call[k].phase = "failed" /\ call'[k].phase = "idle")
       /\ Len(History(store', c)) < Len(History(store, c))
         => \E k \in Calls : /\ call[k].phase = "failed"
                             /\ \/ call[k].chat = c
                                \/ call[k].kind = "wipe" /\ active = c
    ]_sessionVars
=============================================================================
