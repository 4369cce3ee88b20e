-------------------------- MODULE ChatStream_proofs --------------------------
(***************************************************************************)
(* Theorems of ChatStream for every set of turns, every assignment of        *)
(* request ids, and every number of tool calls and of edits.                *)
(***************************************************************************)
EXTENDS ChatStream, WellFoundedInduction, TLAPS

(* The steps of Next, flattened for the case distinctions below.             *)
LEMMA NextCases ==
  ASSUME [Next]_vars
  PROVE  \/ \E t \in Turns : Look(t) /\ UNCHANGED edits
         \/ \E t \in Turns : Ensure(t) /\ UNCHANGED edits
         \/ \E t \in Turns : Persist(t) /\ UNCHANGED edits
         \/ \E t \in Turns : Refuse(t) /\ UNCHANGED edits
         \/ \E t \in Turns : Crash(t) /\ UNCHANGED edits
         \/ \E t \in Turns : Delta(t) /\ UNCHANGED edits
         \/ \E t \in Turns : ToolStart(t) /\ UNCHANGED edits
         \/ \E t \in Turns : ToolResult(t) /\ UNCHANGED edits
         \/ \E t \in Turns : Done(t) /\ UNCHANGED edits
         \/ \E t \in Turns : Cancelled(t) /\ UNCHANGED edits
         \/ \E t \in Turns : Failed(t) /\ UNCHANGED edits
         \/ \E t \in Turns : Leave(t) /\ UNCHANGED edits
         \/ \E t \in Turns : PlainTool(t) /\ UNCHANGED edits
         \/ \E t \in Turns : PlainDone(t) /\ UNCHANGED edits
         \/ Edit
         \/ UNCHANGED vars
  BY DEF Next, Prepare, Packet

--------------------------------------------------------------------------------
(* The last message.                                                         *)

(* A log that is not empty has a last message.                               *)
LEMMA LastIdInLog ==
  ASSUME TypeOK, DOMAIN msgs # {}
  PROVE  LastId \in DOMAIN msgs
  <1> DEFINE Ages == {nextId - id : id \in DOMAIN msgs}
  <1>1. Ages \subseteq Nat /\ Ages # {}
    BY DEF TypeOK
  <1>2. PICK a \in Ages : \A b \in Ages : <<b, a>> \notin OpToRel(<, Nat)
    BY <1>1, NatLessThanWellFounded, WFMin
  <1>3. \A b \in Ages : ~(b < a)
    BY <1>1, <1>2 DEF OpToRel
  <1>4. PICK id \in DOMAIN msgs : a = nextId - id
    OBVIOUS
  <1>5. \A other \in DOMAIN msgs : other <= id
    <2> TAKE other \in DOMAIN msgs
    <2>1. ~(nextId - other < nextId - id)
      BY <1>3, <1>4
    <2> QED
      BY <2>1 DEF TypeOK
  <1> QED
    BY <1>5 DEF LastId

--------------------------------------------------------------------------------
(* What the storage calls do to the log.                                     *)

Words  == SUBSET (Turns \cup {Editor})
States == {"sent", "streaming", "final", "cancelled", "error", "running", "result"}

(* append_message adds one row, under a new id.                              *)
LEMMA AppendAdds ==
  ASSUME TypeOK, NEW m \in Messages, Append(m)
  PROVE  /\ exists /\ UNCHANGED exists
         /\ nextId' = nextId + 1
         /\ nextId \notin DOMAIN msgs
         /\ DOMAIN msgs' = DOMAIN msgs \cup {nextId}
         /\ msgs'[nextId] = m
         /\ \A id \in DOMAIN msgs : msgs'[id] = msgs[id]
  BY DEF TypeOK, Append, FreshId, WithRow

(* update_message changes words and state of one row, if it is there.        *)
LEMMA UpdateChanges ==
  ASSUME TypeOK, NEW i, NEW w \in Words, NEW s \in States, Update(i, w, s)
  PROVE  /\ UNCHANGED <<exists, nextId>>
         /\ DOMAIN msgs' = DOMAIN msgs
         /\ \A id \in DOMAIN msgs : msgs'[id] =
              IF id = i THEN Message(msgs[i].role, msgs[i].of, w, s) ELSE msgs[id]
  BY DEF Update, ChangedRow

(* upsert_assistant_message adds the reply, or changes the row it has.        *)
LEMMA UpsertWrites ==
  ASSUME TypeOK, RefsInv, NEW t \in Turns, NEW w \in Words, NEW s \in States,
         Upsert(t, w, s)
  PROVE  \/ /\ aid[t] = None
            /\ exists /\ UNCHANGED exists
            /\ nextId' = nextId + 1
            /\ nextId \notin DOMAIN msgs
            /\ DOMAIN msgs' = DOMAIN msgs \cup {nextId}
            /\ msgs'[nextId] = Message("assistant", t, w, s)
            /\ \A id \in DOMAIN msgs : msgs'[id] = msgs[id]
            /\ aid' = [aid EXCEPT ![t] = nextId]
         \/ /\ aid[t] \in 1..(nextId - 1)
            /\ UNCHANGED <<exists, nextId, aid>>
            /\ DOMAIN msgs' = DOMAIN msgs
            /\ \A id \in DOMAIN msgs : msgs'[id] =
                 IF id = aid[t] THEN Message(msgs[id].role, msgs[id].of, w, s)
                 ELSE msgs[id]
  <1>1. CASE aid[t] = None
    <2>1. Message("assistant", t, w, s) \in Messages
      BY DEF Messages, Message, Words, States
    <2>2. Append(Message("assistant", t, w, s)) /\ aid' = [aid EXCEPT ![t] = nextId]
      BY <1>1 DEF Upsert, FreshId
    <2> QED
      BY <1>1, <2>1, <2>2, AppendAdds
  <1>2. CASE aid[t] # None
    <2>1. Update(aid[t], w, s) /\ aid' = aid
      BY <1>2 DEF Upsert
    <2>2. aid[t] \in 1..(nextId - 1)
      BY <1>2 DEF RefsInv
    <2> QED
      BY <2>1, <2>2, UpdateChanges
  <1> QED
    BY <1>1, <1>2

(* A row keeps its kind when its words and its state change.                 *)
LEMMA ChangedMessage ==
  ASSUME NEW m \in Messages, NEW w \in Words, NEW s \in States
  PROVE  Message(m.role, m.of, w, s) \in Messages
  BY DEF Messages, Message, Words, States

LEMMA SpokenWords ==
  ASSUME NEW t \in Turns
  PROVE  Spoken(t) \in Words /\ {t} \in Words /\ {} \in Words /\ {Editor} \in Words
  BY DEF Spoken, Words

--------------------------------------------------------------------------------
(* Types.                                                                    *)

(* The conjuncts of TypeOK about the log, and the others.                    *)
LogType ==
  /\ exists \in BOOLEAN
  /\ nextId \in Nat \ {0}
  /\ DOMAIN msgs \subseteq 1..(nextId - 1)
  /\ \A id \in DOMAIN msgs : msgs[id] \in Messages

TurnType ==
  /\ pc \in [Turns -> {"idle", "looked", "ensured", "stream", "plain", "closed"}]
  /\ dup \in [Turns -> Nat \cup {None}]
  /\ aid \in [Turns -> Nat \cup {None}]
  /\ text \in [Turns -> {"empty", "blank", "words"}]
  /\ tool \in [Turns -> Nat \cup {None}]
  /\ tools \in [Turns -> 0..MaxTools]
  /\ cont \in [Turns -> BOOLEAN]
  /\ base \in [Turns -> SUBSET (Turns \cup {Editor})]
  /\ ended \in [Turns ->
       {"no", "refused", "crashed", "done", "cancelled", "error", "left"}]

LEMMA TypeParts == TypeOK <=> LogType /\ TurnType /\ edits \in 0..MaxEdits
  BY DEF TypeOK, LogType, TurnType

LEMMA AppendType ==
  ASSUME TypeOK, NEW m \in Messages, Append(m)
  PROVE  LogType'
  BY AppendAdds DEF TypeOK, LogType

LEMMA UpdateType ==
  ASSUME TypeOK, NEW i, NEW w \in Words, NEW s \in States, Update(i, w, s)
  PROVE  LogType'
  <1>1. \A id \in DOMAIN msgs : msgs[id] \in Messages
    BY DEF TypeOK
  <1>2. \A id \in DOMAIN msgs : msgs'[id] \in Messages
    BY <1>1, UpdateChanges, ChangedMessage
  <1> QED
    BY <1>2, UpdateChanges DEF TypeOK, LogType

LEMMA UpsertType ==
  ASSUME TypeOK, RefsInv, NEW t \in Turns, NEW w \in Words, NEW s \in States,
         Upsert(t, w, s)
  PROVE  LogType' /\ aid' \in [Turns -> Nat \cup {None}]
  <1>1. CASE aid[t] = None
    <2>1. Message("assistant", t, w, s) \in Messages
      BY DEF Messages, Message, Words, States
    <2>2. Append(Message("assistant", t, w, s)) /\ aid' = [aid EXCEPT ![t] = nextId]
      BY <1>1 DEF Upsert, FreshId
    <2> QED
      BY <2>1, <2>2, AppendType DEF TypeOK
  <1>2. CASE aid[t] # None
    <2>1. Update(aid[t], w, s) /\ aid' = aid
      BY <1>2 DEF Upsert
    <2> QED
      BY <2>1, UpdateType DEF TypeOK
  <1> QED
    BY <1>1, <1>2

(* The end of a turn.                                                        *)
LEMMA CloseType ==
  ASSUME TurnType, NEW t \in Turns,
         NEW how \in {"refused", "crashed", "done", "cancelled", "error", "left"},
         Close(t, how), aid' \in [Turns -> Nat \cup {None}],
         UNCHANGED <<dup, text, tool, cont, base>>
  PROVE  TurnType'
  <1>1. pc' \in [Turns -> {"idle", "looked", "ensured", "stream", "plain", "closed"}]
    BY DEF TurnType, Close, Goto
  <1>2. tools' \in [Turns -> 0..MaxTools]
    BY ChatAssumption DEF TurnType, Close
  <1>3. ended' \in [Turns ->
          {"no", "refused", "crashed", "done", "cancelled", "error", "left"}]
    BY DEF TurnType, Close
  <1> QED
    BY <1>1, <1>2, <1>3 DEF TurnType

(* Types are kept by every step.                                             *)
LEMMA TypeStep ==
  ASSUME IInv, [Next]_vars
  PROVE  TypeOK'
  <1> SUFFICES LogType' /\ TurnType' /\ edits' \in 0..MaxEdits
    BY DEF LogType, TurnType, TypeOK
  <1>0. TypeOK /\ LogType /\ RefsInv
    BY TypeParts DEF IInv
  <1>t. TurnType
    BY TypeParts DEF IInv
  <1>e. edits \in 0..MaxEdits
    BY TypeParts DEF IInv
  <1>1. ASSUME NEW t \in Turns, Look(t), UNCHANGED edits
        PROVE  LogType' /\ TurnType'
    <2>1. LogType'
      BY <1>0, <1>1 DEF Look, LogType, logVars
    <2>2. DOMAIN msgs # {} => LastId \in DOMAIN msgs /\ LastId \in Nat
      BY <1>0, LastIdInLog DEF LogType
    <2>3. dup' \in [Turns -> Nat \cup {None}] /\ aid' \in [Turns -> Nat \cup {None}]
      BY <1>t, <1>1, <2>2 DEF Look, TurnType
    <2>4. DOMAIN msgs # {} => msgs[LastId].words \in SUBSET (Turns \cup {Editor})
      BY <1>0, <2>2 DEF LogType, Messages
    <2>5. base' \in [Turns -> SUBSET (Turns \cup {Editor})] /\ cont' \in [Turns -> BOOLEAN]
      BY <1>t, <1>1, <2>4 DEF Look, TurnType
    <2> QED
      BY <1>t, <1>1, <2>1, <2>3, <2>5 DEF Look, Goto, TurnType
  <1>2. ASSUME NEW t \in Turns, Ensure(t), UNCHANGED edits
        PROVE  LogType' /\ TurnType'
    <2>1. LogType'
      BY <1>0, <1>2 DEF Ensure, LogType
    <2> QED
      BY <1>t, <1>2, <2>1, ChatAssumption DEF TurnType, Ensure, Goto, turnVars, sayVars
  <1>3. ASSUME NEW t \in Turns, Persist(t), UNCHANGED edits
        PROVE  LogType' /\ TurnType'
    <2>1. Message("user", t, {t}, "sent") \in Messages
      BY DEF Message, Messages
    <2>2. LogType'
      BY <1>0, <1>3, <2>1, AppendType DEF Persist, LogType, logVars
    <2> QED
      BY <1>t, <1>3, <2>2 DEF Persist, Goto, TurnType
  <1>4. ASSUME NEW t \in Turns, Refuse(t), UNCHANGED edits
        PROVE  LogType' /\ TurnType'
    <2>1. LogType'
      BY <1>0, <1>4 DEF Refuse, LogType, logVars
    <2>2. Close(t, "refused") /\ UNCHANGED <<dup, text, tool, cont, base>> /\ aid' = aid
      BY <1>4 DEF Refuse, sayVars
    <2>3. aid' \in [Turns -> Nat \cup {None}]
      BY <1>t, <2>1, <2>2 DEF TurnType
    <2> QED
      BY <1>t, <2>1, <2>2, <2>3, CloseType
  <1>5. ASSUME NEW t \in Turns, Crash(t), UNCHANGED edits
        PROVE  LogType' /\ TurnType'
    <2>1. LogType'
      BY <1>0, <1>5 DEF Crash, LogType, logVars
    <2>2. Close(t, "crashed") /\ UNCHANGED <<dup, text, tool, cont, base>> /\ aid' = aid
      BY <1>5 DEF Crash, sayVars
    <2>3. aid' \in [Turns -> Nat \cup {None}]
      BY <1>t, <2>1, <2>2 DEF TurnType
    <2> QED
      BY <1>t, <2>1, <2>2, <2>3, CloseType
  <1>6. ASSUME NEW t \in Turns, Delta(t), UNCHANGED edits
        PROVE  LogType' /\ TurnType'
    <2>1. PICK w \in {{}, {t}} : Upsert(t, w, "streaming")
      BY <1>6 DEF Delta
    <2>2. LogType' /\ aid' \in [Turns -> Nat \cup {None}]
      BY <1>0, <2>1, SpokenWords, UpsertType DEF States
    <2>3. /\ text' \in [Turns -> {"empty", "blank", "words"}]
          /\ UNCHANGED <<pc, dup, tool, tools, cont, base, ended>>
      BY <1>t, <1>6 DEF Delta, TurnType
    <2> QED
      BY <1>t, <2>2, <2>3 DEF TurnType
  <1>7. ASSUME NEW t \in Turns, ToolStart(t), UNCHANGED edits
        PROVE  LogType' /\ TurnType'
    <2>1. Message("tool", t, {t}, "running") \in Messages
      BY DEF Message, Messages
    <2>2. PICK log \in {msgs, ChangedRow(msgs, aid[t], {t}, "final")} :
            msgs' = WithRow(log, nextId, Message("tool", t, {t}, "running"))
      BY <1>7 DEF ToolStart, FreshId
    <2>m. \A id \in DOMAIN msgs : Message(msgs[id].role, msgs[id].of, {t}, "final") \in Messages
      BY <1>0, ChangedMessage, SpokenWords DEF LogType, States
    <2>3. DOMAIN log = DOMAIN msgs /\ \A id \in DOMAIN msgs : log[id] \in Messages
      BY <1>0, <2>2, <2>m DEF ChangedRow, LogType
    <2>4. DOMAIN msgs' = DOMAIN msgs \cup {nextId} /\ \A id \in DOMAIN msgs' : msgs'[id] \in Messages
      BY <2>1, <2>2, <2>3 DEF WithRow
    <2>5. exists' = exists /\ nextId' = nextId + 1
      BY <1>7 DEF ToolStart
    <2>8. LogType'
      BY <1>0, <2>4, <2>5 DEF LogType
    <2>6. tools' \in [Turns -> 0..MaxTools]
      BY <1>t, <1>7, ChatAssumption DEF ToolStart, TurnType
    <2>7. tool' \in [Turns -> Nat \cup {None}]
      BY <1>0, <1>t, <1>7 DEF ToolStart, FreshId, TurnType, LogType
    <2> QED
      BY <1>t, <1>7, <2>8, <2>6, <2>7 DEF ToolStart, TurnType
  <1>8. ASSUME NEW t \in Turns, ToolResult(t), UNCHANGED edits
        PROVE  LogType' /\ TurnType'
    <2>1. LogType'
      BY <1>0, <1>8, SpokenWords, UpdateType DEF ToolResult, States
    <2> QED
      BY <1>t, <1>8, <2>1, ChatAssumption DEF TurnType, ToolResult
  <1>9. ASSUME NEW t \in Turns, Done(t), UNCHANGED edits
        PROVE  LogType' /\ TurnType'
    <2>1. LogType' /\ aid' \in [Turns -> Nat \cup {None}]
      BY <1>0, <1>9, SpokenWords, UpsertType DEF Done, States
    <2>2. Close(t, "done") /\ UNCHANGED <<dup, text, tool, cont, base>>
      BY <1>9 DEF Done
    <2>3. aid' \in [Turns -> Nat \cup {None}]
      BY <1>t, <2>1, <2>2 DEF TurnType
    <2> QED
      BY <1>t, <2>1, <2>2, <2>3, CloseType
  <1>10. ASSUME NEW t \in Turns, Cancelled(t), UNCHANGED edits
        PROVE  LogType' /\ TurnType'
    <2>1. LogType'
      <3>1. Update(aid[t], {t}, "cancelled") \/ UNCHANGED logVars
        BY <1>10 DEF Cancelled
      <3> QED
        BY <1>0, <3>1, SpokenWords, UpdateType DEF States, LogType, logVars
    <2>2. Close(t, "cancelled") /\ UNCHANGED <<dup, text, tool, cont, base>> /\ aid' = aid
      BY <1>10 DEF Cancelled, sayVars
    <2>3. aid' \in [Turns -> Nat \cup {None}]
      BY <1>t, <2>1, <2>2 DEF TurnType
    <2> QED
      BY <1>t, <2>1, <2>2, <2>3, CloseType
  <1>11. ASSUME NEW t \in Turns, Failed(t), UNCHANGED edits
        PROVE  LogType' /\ TurnType'
    <2>1. LogType' /\ aid' \in [Turns -> Nat \cup {None}]
      <3> DEFINE w == IF text[t] = "empty" THEN {t} ELSE Spoken(t)
      <3>1. w \in Words /\ Upsert(t, w, "error")
        BY <1>11, SpokenWords DEF Failed
      <3> HIDE DEF w
      <3> QED
        BY <1>0, <3>1, UpsertType DEF States
    <2>2. Close(t, "error") /\ UNCHANGED <<dup, text, tool, cont, base>>
      BY <1>11 DEF Failed
    <2>3. aid' \in [Turns -> Nat \cup {None}]
      BY <1>t, <2>1, <2>2 DEF TurnType
    <2> QED
      BY <1>t, <2>1, <2>2, <2>3, CloseType
  <1>12. ASSUME NEW t \in Turns, Leave(t), UNCHANGED edits
        PROVE  LogType' /\ TurnType'
    <2>1. LogType'
      BY <1>0, <1>12 DEF Leave, LogType, logVars
    <2>2. Close(t, "left") /\ UNCHANGED <<dup, text, tool, cont, base>> /\ aid' = aid
      BY <1>12 DEF Leave, sayVars
    <2>3. aid' \in [Turns -> Nat \cup {None}]
      BY <1>t, <2>1, <2>2 DEF TurnType
    <2> QED
      BY <1>t, <2>1, <2>2, <2>3, CloseType
  <1>13. ASSUME NEW t \in Turns, PlainTool(t), UNCHANGED edits
        PROVE  LogType' /\ TurnType'
    <2>1. Message("tool", t, {t}, "result") \in Messages
      BY DEF Message, Messages
    <2>2. LogType'
      BY <1>0, <1>13, <2>1, AppendType DEF PlainTool
    <2>3. tools' \in [Turns -> 0..MaxTools]
      BY <1>t, <1>13, ChatAssumption DEF PlainTool, TurnType
    <2> QED
      BY <1>t, <1>13, <2>2, <2>3 DEF PlainTool, TurnType
  <1>14. ASSUME NEW t \in Turns, PlainDone(t), UNCHANGED edits
        PROVE  LogType' /\ TurnType'
    <2>1. LogType' /\ aid' \in [Turns -> Nat \cup {None}]
      BY <1>0, <1>14, SpokenWords, UpsertType DEF PlainDone, States
    <2>2. Close(t, "done") /\ UNCHANGED <<dup, text, tool, cont, base>>
      BY <1>14 DEF PlainDone
    <2>3. aid' \in [Turns -> Nat \cup {None}]
      BY <1>t, <2>1, <2>2 DEF TurnType
    <2> QED
      BY <1>t, <2>1, <2>2, <2>3, CloseType
  <1>15. ASSUME Edit
         PROVE  LogType' /\ TurnType' /\ edits' \in 0..MaxEdits
    <2>1. \A id \in DOMAIN msgs : [msgs[id] EXCEPT !.words = {Editor}] \in Messages
      BY <1>0 DEF LogType, Messages
    <2>2. ASSUME DeleteChat \/ ClearMessages
          PROVE  LogType'
      <3>1. DOMAIN msgs' = {}
        <4>1. msgs' = << >>
          BY <2>2 DEF DeleteChat, ClearMessages
        <4> QED
          BY <4>1
      <3>4. exists' \in BOOLEAN /\ nextId' = nextId
        BY <1>0, <1>15, <2>2 DEF Edit, DeleteChat, ClearMessages, LogType
      <3>2. DOMAIN msgs' \subseteq 1..(nextId' - 1)
        BY <3>1
      <3>3. \A id \in DOMAIN msgs' : msgs'[id] \in Messages
        BY <3>1
      <3> QED
        BY <1>0, <3>2, <3>3, <3>4 DEF LogType
    <2>3. ASSUME NEW id \in DOMAIN msgs, DeleteMessage(id) \/ EditMessage(id)
          PROVE  LogType'
      <3>1. DOMAIN msgs' \subseteq DOMAIN msgs /\ exists' = exists /\ nextId' = nextId
        BY <1>15, <2>3 DEF Edit, DeleteMessage, EditMessage
      <3>2. \A i \in DOMAIN msgs' : msgs'[i] \in {msgs[i], [msgs[i] EXCEPT !.words = {Editor}]}
        BY <2>3 DEF DeleteMessage, EditMessage
      <3> QED
        BY <1>0, <2>1, <3>1, <3>2 DEF LogType
    <2>4. LogType'
      BY <1>15, <2>2, <2>3 DEF Edit
    <2> QED
      BY <1>t, <1>e, <1>15, <2>4, ChatAssumption DEF Edit, TurnType, turnVars, sayVars
  <1>16. CASE UNCHANGED vars
    BY <1>0, <1>t, <1>e, <1>16 DEF vars, logVars, turnVars, sayVars, LogType, TurnType
  <1> QED
    BY <1>e, NextCases, <1>1, <1>2, <1>3, <1>4, <1>5, <1>6, <1>7, <1>8, <1>9, <1>10, <1>11, <1>12, <1>13, <1>14, <1>15, <1>16

--------------------------------------------------------------------------------
(* Rows and the ids that turns keep.                                         *)

(* What every step does to the log: a row keeps its author and its kind, a    *)
(* new row has a new id, and a chat that is gone takes its rows with it.      *)
RowsKept ==
  /\ nextId \in Nat /\ nextId' \in Nat /\ nextId' >= nextId
  /\ \A id \in DOMAIN msgs' :
       \/ /\ id \in DOMAIN msgs
          /\ msgs'[id].role = msgs[id].role
          /\ msgs'[id].of = msgs[id].of
       \/ id = nextId /\ nextId' > nextId
  /\ NoOrphans'

LEMMA AppendKeeps ==
  ASSUME TypeOK, NEW m \in Messages, Append(m)
  PROVE  RowsKept
  <1>1. /\ nextId \in Nat /\ nextId' \in Nat /\ nextId' > nextId
        /\ DOMAIN msgs' = DOMAIN msgs \cup {nextId}
        /\ \A id \in DOMAIN msgs : msgs'[id] = msgs[id]
        /\ exists'
    BY AppendAdds DEF TypeOK
  <1> QED
    BY <1>1 DEF RowsKept, NoOrphans

LEMMA UpdateKeeps ==
  ASSUME TypeOK, NoOrphans, NEW i, NEW w \in Words, NEW s \in States, Update(i, w, s)
  PROVE  RowsKept
  <1>1. /\ nextId \in Nat /\ nextId' = nextId /\ exists' = exists
        /\ DOMAIN msgs' = DOMAIN msgs
    BY UpdateChanges DEF TypeOK
  <1>2. ASSUME NEW id \in DOMAIN msgs
        PROVE  msgs'[id].role = msgs[id].role /\ msgs'[id].of = msgs[id].of
    <2>1. msgs'[id] = IF id = i THEN Message(msgs[i].role, msgs[i].of, w, s) ELSE msgs[id]
      BY UpdateChanges
    <2>2. msgs'[id] = msgs[id] \/ (id = i /\ msgs'[id] = Message(msgs[i].role, msgs[i].of, w, s))
      BY <2>1
    <2> QED
      BY <2>2 DEF Message
  <1> QED
    BY <1>1, <1>2 DEF RowsKept, NoOrphans

LEMMA UpsertKeeps ==
  ASSUME TypeOK, NoOrphans, NEW t \in Turns, NEW w \in Words, NEW s \in States,
         Upsert(t, w, s)
  PROVE  RowsKept
  <1>1. CASE aid[t] = None
    <2>1. Message("assistant", t, w, s) \in Messages
      BY DEF Messages, Message, Words, States
    <2>2. Append(Message("assistant", t, w, s))
      BY <1>1 DEF Upsert
    <2> QED
      BY <2>1, <2>2, AppendKeeps
  <1>2. CASE aid[t] # None
    <2>1. Update(aid[t], w, s)
      BY <1>2 DEF Upsert
    <2> QED
      BY <2>1, UpdateKeeps
  <1> QED
    BY <1>1, <1>2

LEMMA NothingKeeps ==
  ASSUME TypeOK, NoOrphans, UNCHANGED logVars
  PROVE  RowsKept
  <1>1. nextId \in Nat /\ nextId' = nextId /\ msgs' = msgs /\ exists' = exists
    BY DEF TypeOK, logVars
  <1> QED
    BY <1>1 DEF RowsKept, NoOrphans

(* The log that a tool's start leaves.                                       *)
LEMMA ToolStartRows ==
  ASSUME TypeOK, NEW t \in Turns, ToolStart(t)
  PROVE  /\ exists /\ UNCHANGED exists
         /\ nextId' = nextId + 1
         /\ nextId \notin DOMAIN msgs
         /\ DOMAIN msgs' = DOMAIN msgs \cup {nextId}
         /\ msgs'[nextId] = Message("tool", t, {t}, "running")
         /\ \A id \in DOMAIN msgs : msgs'[id] =
              IF id = aid[t] /\ text[t] = "words"
              THEN Message(msgs[id].role, msgs[id].of, {t}, "final")
              ELSE msgs[id]
  <1> DEFINE log == IF text[t] = "words"
                    THEN ChangedRow(msgs, aid[t], {t}, "final") ELSE msgs
  <1>1. msgs' = WithRow(log, nextId, Message("tool", t, {t}, "running"))
    BY DEF ToolStart, FreshId
  <1>2. nextId \notin DOMAIN msgs
    BY DEF TypeOK
  <1>3. DOMAIN log = DOMAIN msgs
    BY DEF ChangedRow
  <1>4. \A id \in DOMAIN msgs : log[id] =
          IF id = aid[t] /\ text[t] = "words"
          THEN Message(msgs[id].role, msgs[id].of, {t}, "final") ELSE msgs[id]
    BY DEF ChangedRow
  <1> HIDE DEF log
  <1>5. /\ DOMAIN msgs' = DOMAIN msgs \cup {nextId}
        /\ msgs'[nextId] = Message("tool", t, {t}, "running")
        /\ \A id \in DOMAIN msgs : msgs'[id] = log[id]
    BY <1>1, <1>2, <1>3 DEF WithRow
  <1> QED
    BY <1>2, <1>4, <1>5 DEF ToolStart

(* Every step keeps the rows.                                                *)
LEMMA RowsStep ==
  ASSUME IInv, [Next]_vars
  PROVE  RowsKept
  <1>0. TypeOK /\ NoOrphans
    BY DEF IInv
  <1>1. ASSUME NEW t \in Turns, Look(t) \/ Refuse(t) \/ Crash(t) \/ Leave(t)
        PROVE  RowsKept
    BY <1>0, <1>1, NothingKeeps DEF Look, Refuse, Crash, Leave
  <1>2. ASSUME NEW t \in Turns, Ensure(t)
        PROVE  RowsKept
    <2>1. nextId \in Nat /\ nextId' = nextId /\ msgs' = msgs /\ exists'
      BY <1>0, <1>2 DEF Ensure, TypeOK
    <2> QED
      BY <2>1 DEF RowsKept, NoOrphans
  <1>3. ASSUME NEW t \in Turns, Persist(t)
        PROVE  RowsKept
    <2>1. Message("user", t, {t}, "sent") \in Messages
      BY DEF Message, Messages
    <2>2. UNCHANGED logVars \/ Append(Message("user", t, {t}, "sent"))
      BY <1>3 DEF Persist
    <2> QED
      BY <1>0, <2>1, <2>2, AppendKeeps, NothingKeeps
  <1>4. ASSUME NEW t \in Turns, Delta(t)
        PROVE  RowsKept
    <2>1. PICK w \in {{}, {t}} : Upsert(t, w, "streaming")
      BY <1>4 DEF Delta
    <2> QED
      BY <1>0, <2>1, SpokenWords, UpsertKeeps DEF States
  <1>5. ASSUME NEW t \in Turns, ToolStart(t)
        PROVE  RowsKept
    <2>4. nextId' = nextId + 1 /\ exists /\ exists' = exists
      BY <1>5 DEF ToolStart
    <2>1. nextId \in Nat /\ nextId' \in Nat /\ nextId' > nextId /\ exists'
      BY <1>0, <2>4 DEF TypeOK
    <2>2. DOMAIN msgs' = DOMAIN msgs \cup {nextId}
      BY <1>0, <1>5, ToolStartRows
    <2>3. ASSUME NEW id \in DOMAIN msgs
          PROVE  msgs'[id].role = msgs[id].role /\ msgs'[id].of = msgs[id].of
      <3>1. \/ msgs'[id] = msgs[id]
            \/ msgs'[id] = Message(msgs[id].role, msgs[id].of, {t}, "final")
        BY <1>0, <1>5, ToolStartRows
      <3> QED
        BY <3>1 DEF Message
    <2> QED
      BY <2>1, <2>2, <2>3 DEF RowsKept, NoOrphans
  <1>6. ASSUME NEW t \in Turns, ToolResult(t)
        PROVE  RowsKept
    BY <1>0, <1>6, SpokenWords, UpdateKeeps DEF ToolResult, States
  <1>7. ASSUME NEW t \in Turns, Done(t) \/ PlainDone(t)
        PROVE  RowsKept
    BY <1>0, <1>7, SpokenWords, UpsertKeeps DEF Done, PlainDone, States
  <1>8. ASSUME NEW t \in Turns, Cancelled(t)
        PROVE  RowsKept
    <2>1. Update(aid[t], {t}, "cancelled") \/ UNCHANGED logVars
      BY <1>8 DEF Cancelled
    <2> QED
      BY <1>0, <2>1, SpokenWords, UpdateKeeps, NothingKeeps DEF States
  <1>9. ASSUME NEW t \in Turns, Failed(t)
        PROVE  RowsKept
    <2> DEFINE w == IF text[t] = "empty" THEN {t} ELSE Spoken(t)
    <2>1. w \in Words /\ Upsert(t, w, "error")
      BY <1>9, SpokenWords DEF Failed
    <2> HIDE DEF w
    <2> QED
      BY <1>0, <2>1, UpsertKeeps DEF States
  <1>10. ASSUME NEW t \in Turns, PlainTool(t)
         PROVE  RowsKept
    <2>1. Message("tool", t, {t}, "result") \in Messages
      BY DEF Message, Messages
    <2> QED
      BY <1>0, <1>10, <2>1, AppendKeeps DEF PlainTool
  <1>11. ASSUME Edit
         PROVE  RowsKept
    <2>1. nextId \in Nat /\ nextId' = nextId
      BY <1>0, <1>11 DEF Edit, TypeOK
    <2>2. ASSUME DeleteChat \/ ClearMessages
          PROVE  RowsKept
      <3>1. msgs' = << >>
        BY <2>2 DEF DeleteChat, ClearMessages
      <3>2. DOMAIN msgs' = {}
        BY <3>1
      <3> QED
        BY <2>1, <3>2 DEF RowsKept, NoOrphans
    <2>3. ASSUME NEW id \in DOMAIN msgs, DeleteMessage(id) \/ EditMessage(id)
          PROVE  RowsKept
      <3>1. exists /\ exists' = exists
        BY <1>11, <2>3 DEF Edit, DeleteMessage, EditMessage
      <3>2. \A i \in DOMAIN msgs : msgs[i] \in Messages
        BY <1>0 DEF TypeOK
      <3>3. \A i \in DOMAIN msgs' : i \in DOMAIN msgs /\
              msgs'[i] \in {msgs[i], [msgs[i] EXCEPT !.words = {Editor}]}
        BY <2>3 DEF DeleteMessage, EditMessage
      <3>4. \A i \in DOMAIN msgs' : i \in DOMAIN msgs /\
              msgs'[i].role = msgs[i].role /\ msgs'[i].of = msgs[i].of
        BY <3>2, <3>3 DEF Messages
      <3> QED
        BY <2>1, <3>1, <3>4 DEF RowsKept, NoOrphans
    <2> QED
      BY <1>11, <2>2, <2>3 DEF Edit
  <1>12. CASE UNCHANGED vars
    BY <1>0, <1>12, NothingKeeps DEF vars
  <1> QED
    BY NextCases, <1>1, <1>2, <1>3, <1>4, <1>5, <1>6, <1>7, <1>8, <1>9, <1>10, <1>11, <1>12

(* Where the ids that a turn keeps may come from.                            *)
ReplyFrom(u) ==
  \/ aid'[u] = aid[u] /\ cont'[u] = cont[u]
  \/ aid'[u] = None
  \/ /\ UNCHANGED <<msgs, nextId>>
     /\ aid'[u] \in DOMAIN msgs
     /\ msgs[aid'[u]].role = "assistant"
     /\ cont'[u]
  \/ /\ aid'[u] = nextId /\ nextId' = nextId + 1
     /\ msgs'[nextId].role = "assistant" /\ msgs'[nextId].of = u

ToolFrom(u) ==
  \/ tool'[u] = tool[u]
  \/ tool'[u] = None
  \/ /\ tool'[u] = nextId /\ nextId' = nextId + 1
     /\ msgs'[nextId].role = "tool" /\ msgs'[nextId].of = u

LEMMA UpsertReply ==
  ASSUME TypeOK, RefsInv, NEW t \in Turns, NEW w \in Words, NEW s \in States,
         Upsert(t, w, s), cont' = cont, NEW u \in Turns
  PROVE  ReplyFrom(u)
  <1>1. CASE /\ nextId' = nextId + 1
             /\ msgs'[nextId] = Message("assistant", t, w, s)
             /\ aid' = [aid EXCEPT ![t] = nextId]
    BY <1>1 DEF ReplyFrom, TypeOK, Message
  <1>2. CASE aid' = aid
    BY <1>2 DEF ReplyFrom
  <1> QED
    BY <1>1, <1>2, UpsertWrites

LEMMA RefsFrom ==
  ASSUME IInv, [Next]_vars, NEW u \in Turns
  PROVE  ReplyFrom(u) /\ ToolFrom(u)
  <1>0. TypeOK /\ RefsInv
    BY DEF IInv
  <1>1. ASSUME NEW t \in Turns, Look(t)
        PROVE  ReplyFrom(u) /\ ToolFrom(u)
    <2>1. DOMAIN msgs # {} => LastId \in DOMAIN msgs
      BY <1>0, LastIdInLog
    <2>2. UNCHANGED <<msgs, nextId, tool>>
      BY <1>1 DEF Look, logVars
    <2>3. CASE UNCHANGED <<aid, cont>>
      BY <2>2, <2>3 DEF ReplyFrom, ToolFrom
    <2>4. CASE /\ DOMAIN msgs # {}
               /\ msgs[LastId].role = "assistant"
               /\ cont' = [cont EXCEPT ![t] = TRUE]
               /\ aid' = [aid EXCEPT ![t] = LastId]
      <3>1. CASE u = t
        BY <1>0, <2>1, <2>2, <2>4, <3>1 DEF ReplyFrom, ToolFrom, TypeOK
      <3>2. CASE u # t
        BY <1>0, <2>2, <2>4, <3>2 DEF ReplyFrom, ToolFrom, TypeOK
      <3> QED
        BY <3>1, <3>2
    <2> QED
      BY <1>1, <2>3, <2>4 DEF Look
  <1>2. ASSUME NEW t \in Turns, Ensure(t) \/ Refuse(t) \/ Crash(t) \/ Leave(t)
                                  \/ Cancelled(t) \/ PlainTool(t)
        PROVE  ReplyFrom(u) /\ ToolFrom(u)
    <2>1. UNCHANGED <<aid, cont, tool>>
      BY <1>2 DEF Ensure, Refuse, Crash, Leave, Cancelled, PlainTool, turnVars, sayVars
    <2> QED
      BY <2>1 DEF ReplyFrom, ToolFrom
  <1>3. ASSUME NEW t \in Turns, Persist(t)
        PROVE  ReplyFrom(u) /\ ToolFrom(u)
    <2>1. UNCHANGED <<cont, tool>> /\ (aid' = aid \/ aid' = [aid EXCEPT ![t] = None])
      BY <1>3 DEF Persist
    <2> QED
      BY <1>0, <2>1 DEF ReplyFrom, ToolFrom, TypeOK
  <1>4. ASSUME NEW t \in Turns, Delta(t)
        PROVE  ReplyFrom(u) /\ ToolFrom(u)
    <2>1. PICK w \in {{}, {t}} : Upsert(t, w, "streaming")
      BY <1>4 DEF Delta
    <2>2. cont' = cont /\ tool' = tool
      BY <1>4 DEF Delta
    <2> QED
      BY <1>0, <2>1, <2>2, SpokenWords, UpsertReply DEF States, ToolFrom
  <1>5. ASSUME NEW t \in Turns, ToolStart(t)
        PROVE  ReplyFrom(u) /\ ToolFrom(u)
    <2>1. /\ UNCHANGED <<aid, cont>>
          /\ tool' = [tool EXCEPT ![t] = nextId] /\ nextId' = nextId + 1
      BY <1>5 DEF ToolStart, FreshId
    <2>2. msgs'[nextId].role = "tool" /\ msgs'[nextId].of = t
      <3>1. msgs'[nextId] = Message("tool", t, {t}, "running")
        BY <1>0, <1>5, ToolStartRows
      <3> QED
        BY <3>1 DEF Message
    <2> QED
      BY <1>0, <2>1, <2>2 DEF ReplyFrom, ToolFrom, TypeOK
  <1>6. ASSUME NEW t \in Turns, ToolResult(t)
        PROVE  ReplyFrom(u) /\ ToolFrom(u)
    BY <1>0, <1>6 DEF ToolResult, ReplyFrom, ToolFrom, TypeOK
  <1>7. ASSUME NEW t \in Turns, Done(t) \/ PlainDone(t)
        PROVE  ReplyFrom(u) /\ ToolFrom(u)
    <2>1. Upsert(t, {t}, "final") /\ cont' = cont /\ tool' = tool
      BY <1>7 DEF Done, PlainDone
    <2> QED
      BY <1>0, <2>1, SpokenWords, UpsertReply DEF States, ToolFrom
  <1>8. ASSUME NEW t \in Turns, Failed(t)
        PROVE  ReplyFrom(u) /\ ToolFrom(u)
    <2> DEFINE w == IF text[t] = "empty" THEN {t} ELSE Spoken(t)
    <2>1. w \in Words /\ Upsert(t, w, "error") /\ cont' = cont /\ tool' = tool
      BY <1>8, SpokenWords DEF Failed
    <2> HIDE DEF w
    <2> QED
      BY <1>0, <2>1, UpsertReply DEF States, ToolFrom
  <1>9. CASE Edit \/ UNCHANGED vars
    <2>1. UNCHANGED <<aid, cont, tool>>
      BY <1>9 DEF Edit, vars, turnVars, sayVars
    <2> QED
      BY <2>1 DEF ReplyFrom, ToolFrom
  <1> QED
    BY NextCases, <1>1, <1>2, <1>3, <1>4, <1>5, <1>6, <1>7, <1>8, <1>9

(* Ids are given out once, so the ids that turns keep stay theirs.           *)
LEMMA RefsStep ==
  ASSUME IInv, [Next]_vars
  PROVE  RefsInv' /\ OwnMessages'
  <1>0. /\ TypeOK /\ RefsInv /\ OwnMessages /\ RowsKept
        /\ nextId \in Nat \ {0} /\ nextId' \in Nat /\ nextId' >= nextId
    BY RowsStep DEF IInv, RowsKept, TypeOK
  <1>1. DOMAIN msgs \subseteq 1..(nextId - 1)
    BY <1>0 DEF TypeOK
  <1>2. ASSUME NEW u \in Turns
        PROVE  aid'[u] \in 1..(nextId' - 1) \cup {None} /\ tool'[u] \in 1..(nextId' - 1) \cup {None}
    <2>1. ReplyFrom(u) /\ ToolFrom(u)
      BY RefsFrom
    <2>2. aid[u] \in 1..(nextId - 1) \cup {None} /\ tool[u] \in 1..(nextId - 1) \cup {None}
      BY <1>0 DEF RefsInv
    <2>3. aid'[u] \in 1..(nextId' - 1) \cup {None}
      BY <1>0, <1>1, <2>1, <2>2 DEF ReplyFrom
    <2>4. tool'[u] \in 1..(nextId' - 1) \cup {None}
      BY <1>0, <2>1, <2>2 DEF ToolFrom
    <2> QED
      BY <2>3, <2>4
  <1>3. ASSUME NEW u \in Turns, aid'[u] \in DOMAIN msgs'
        PROVE  msgs'[aid'[u]].role = "assistant" /\ (cont'[u] \/ msgs'[aid'[u]].of = u)
    <2>1. ReplyFrom(u)
      BY RefsFrom
    <2>2. aid'[u] # None
      BY <1>3, <1>0, RowsStep, ChatAssumption DEF RowsKept, TypeOK
    <2>3. CASE aid'[u] = aid[u] /\ cont'[u] = cont[u]
      <3>1. aid[u] \in DOMAIN msgs'
        BY <1>3, <2>3
      <3>2. aid[u] \in 1..(nextId - 1)
        BY <1>0, <2>2, <2>3 DEF RefsInv
      <3>3. /\ aid[u] \in DOMAIN msgs
            /\ msgs'[aid[u]].role = msgs[aid[u]].role
            /\ msgs'[aid[u]].of = msgs[aid[u]].of
        BY <1>0, <3>1, <3>2 DEF RowsKept
      <3> QED
        BY <1>0, <2>3, <3>3 DEF OwnMessages
    <2> QED
      BY <2>1, <2>2, <2>3 DEF ReplyFrom
  <1>4. ASSUME NEW u \in Turns, tool'[u] \in DOMAIN msgs'
        PROVE  msgs'[tool'[u]].role = "tool" /\ msgs'[tool'[u]].of = u
    <2>1. ToolFrom(u)
      BY RefsFrom
    <2>2. tool'[u] # None
      BY <1>4, <1>0, RowsStep, ChatAssumption DEF RowsKept, TypeOK
    <2>3. CASE tool'[u] = tool[u]
      <3>1. tool[u] \in DOMAIN msgs'
        BY <1>4, <2>3
      <3>2. tool[u] \in 1..(nextId - 1)
        BY <1>0, <2>2, <2>3 DEF RefsInv
      <3>3. /\ tool[u] \in DOMAIN msgs
            /\ msgs'[tool[u]].role = msgs[tool[u]].role
            /\ msgs'[tool[u]].of = msgs[tool[u]].of
        BY <1>0, <3>1, <3>2 DEF RowsKept
      <3> QED
        BY <1>0, <2>3, <3>3 DEF OwnMessages
    <2> QED
      BY <2>1, <2>2, <2>3 DEF ToolFrom
  <1>5. RefsInv'
    BY <1>2 DEF RefsInv
  <1>6. OwnMessages'
    BY <1>3, <1>4 DEF OwnMessages
  <1> QED
    BY <1>5, <1>6

--------------------------------------------------------------------------------
(* Stages.                                                                   *)

(* A reply that is written changes nobody else's id.                         *)
LEMMA UpsertOthers ==
  ASSUME TypeOK, RefsInv, NEW t \in Turns, NEW w \in Words, NEW s \in States,
         Upsert(t, w, s), NEW u \in Turns, u # t \/ aid[u] # None
  PROVE  aid'[u] = aid[u]
  <1>1. aid' = aid \/ (aid[t] = None /\ aid' = [aid EXCEPT ![t] = nextId])
    BY UpsertWrites
  <1> QED
    BY <1>1 DEF TypeOK

(* Each turn goes through its stages in order.                               *)
LEMMA StageStep ==
  ASSUME IInv, [Next]_vars
  PROVE  StageInv'
  <1> DEFINE Stage(u) ==
        /\ ended[u] = "no" <=> pc[u] # "closed"
        /\ pc[u] \in {"idle", "looked", "ensured"} => tools[u] = 0
        /\ pc[u] \in {"idle", "looked", "ensured", "plain"} => text[u] = "empty"
        /\ tool[u] # None => pc[u] \in {"stream", "closed"} /\ (pc[u] = "stream" => tools[u] > 0)
        /\ pc[u] \in {"idle", "plain"} => aid[u] = None
        /\ pc[u] \in {"looked", "ensured"} => aid[u] = None \/ cont[u]
  <1>0. TypeOK /\ RefsInv /\ \A u \in Turns : Stage(u)
    BY DEF IInv, StageInv
  <1> SUFFICES ASSUME NEW u \in Turns PROVE Stage(u)'
    BY DEF StageInv
  <1>w. TurnType
    BY <1>0, TypeParts
  <1>1. ASSUME NEW t \in Turns, Look(t)
        PROVE  Stage(u)'
    BY <1>0, <1>w, <1>1 DEF Look, Goto, TurnType
  <1>2. ASSUME NEW t \in Turns, Ensure(t)
        PROVE  Stage(u)'
    BY <1>0, <1>w, <1>2 DEF Ensure, Goto, turnVars, sayVars, TurnType
  <1>3. ASSUME NEW t \in Turns, Persist(t)
        PROVE  Stage(u)'
    BY <1>0, <1>w, <1>3 DEF Persist, Goto, TurnType
  <1>4. ASSUME NEW t \in Turns, UNCHANGED <<text, tool, cont>>,
               pc[t] \in {"stream", "plain"} \/ (pc[t] = "ensured" /\ aid' = aid),
               pc' = [pc EXCEPT ![t] = "closed"],
               tools' = [tools EXCEPT ![t] = 0],
               \E how \in {"refused", "crashed", "done", "cancelled", "error", "left"} :
                 ended' = [ended EXCEPT ![t] = how],
               u # t => aid'[u] = aid[u]
        PROVE  Stage(u)'
    <2>1. CASE u = t
      BY <1>0, <1>w, <1>4, <2>1 DEF TurnType
    <2>2. CASE u # t
      BY <1>0, <1>w, <1>4, <2>2 DEF TurnType
    <2> QED
      BY <2>1, <2>2
  <1>5. ASSUME NEW t \in Turns, Refuse(t) \/ Crash(t) \/ Leave(t) \/ Cancelled(t)
        PROVE  Stage(u)'
    <2>1. /\ UNCHANGED <<aid, text, tool, cont>>
          /\ pc[t] \in {"stream", "plain", "ensured"}
          /\ \E how \in {"refused", "crashed", "cancelled", "left"} : Close(t, how)
      BY <1>5 DEF Refuse, Crash, Leave, Cancelled, Open, Streaming, Talking, sayVars
    <2> QED
      BY <2>1, <1>4 DEF Close, Goto
  <1>6. ASSUME NEW t \in Turns, Done(t) \/ PlainDone(t) \/ Failed(t)
        PROVE  Stage(u)'
    <2>1. PICK w \in Words, s \in States : Upsert(t, w, s)
      BY <1>6, SpokenWords DEF Done, PlainDone, Failed, States
    <2>2. u # t => aid'[u] = aid[u]
      BY <1>0, <2>1, UpsertOthers
    <2>3. /\ UNCHANGED <<text, tool, cont>>
          /\ pc[t] \in {"stream", "plain"}
          /\ \E how \in {"done", "error"} : Close(t, how)
      BY <1>6 DEF Done, PlainDone, Failed, Streaming, Talking
    <2> QED
      BY <2>2, <2>3, <1>4 DEF Close, Goto
  <1>7. ASSUME NEW t \in Turns, Delta(t)
        PROVE  Stage(u)'
    <2>1. PICK w \in {{}, {t}} : Upsert(t, w, "streaming")
      BY <1>7 DEF Delta
    <2>2. u # t => aid'[u] = aid[u]
      BY <1>0, <2>1, UpsertOthers, SpokenWords DEF States
    <2>3. /\ UNCHANGED <<pc, tool, tools, cont, ended>>
          /\ pc[t] = "stream"
          /\ u # t => text'[u] = text[u]
      BY <1>w, <1>7 DEF Delta, Talking, Streaming, TurnType
    <2>4. CASE u = t
      BY <1>0, <2>3, <2>4
    <2>5. CASE u # t
      BY <1>0, <2>2, <2>3, <2>5
    <2> QED
      BY <2>4, <2>5
  <1>8. ASSUME NEW t \in Turns, ToolStart(t)
        PROVE  Stage(u)'
    <2>1. /\ UNCHANGED <<pc, aid, text, cont, ended>> /\ pc[t] = "stream"
          /\ tools' = [tools EXCEPT ![t] = @ + 1]
          /\ tool' = [tool EXCEPT ![t] = nextId]
      BY <1>8 DEF ToolStart, Talking, Streaming, FreshId
    <2>2. tools[t] + 1 > 0
      BY <1>w, ChatAssumption DEF TurnType
    <2>3. CASE u = t
      BY <1>0, <1>w, <2>1, <2>2, <2>3 DEF TurnType
    <2>4. CASE u # t
      BY <1>0, <1>w, <2>1, <2>4 DEF TurnType
    <2> QED
      BY <2>3, <2>4
  <1>9. ASSUME NEW t \in Turns, ToolResult(t)
        PROVE  Stage(u)'
    BY <1>0, <1>w, <1>9 DEF ToolResult, TurnType
  <1>10. ASSUME NEW t \in Turns, PlainTool(t)
         PROVE  Stage(u)'
    BY <1>0, <1>w, <1>10 DEF PlainTool, TurnType
  <1>11. CASE Edit \/ UNCHANGED vars
    BY <1>0, <1>11 DEF Edit, vars, turnVars, sayVars
  <1> QED
    BY NextCases, <1>1, <1>2, <1>3, <1>5, <1>6, <1>7, <1>8, <1>9, <1>10, <1>11

--------------------------------------------------------------------------------
(* What finished turns leave.                                                *)

(* A turn that streams or has ended keeps its reply; one that has ended       *)
(* changes no more.                                                          *)
LEMMA ReplyStays ==
  ASSUME IInv, [Next]_vars, NEW u \in Turns, pc[u] \in {"stream", "closed"}
  PROVE  /\ pc'[u] \in {"stream", "closed"}
         /\ aid[u] # None => aid'[u] = aid[u]
         /\ pc[u] = "closed" => aid'[u] = aid[u] /\ ended'[u] = ended[u]
  <1> DEFINE Kept == /\ pc'[u] \in {"stream", "closed"}
                     /\ aid[u] # None => aid'[u] = aid[u]
                     /\ pc[u] = "closed" => aid'[u] = aid[u] /\ ended'[u] = ended[u]
  <1>0. TypeOK /\ RefsInv /\ TurnType
    BY TypeParts DEF IInv
  <1>1. ASSUME NEW t \in Turns, Look(t) \/ Ensure(t) \/ Persist(t)
        PROVE  Kept
    <2>1. pc[t] \notin {"stream", "closed"} /\ ended' = ended
      BY <1>1 DEF Look, Ensure, Persist
    <2>2. u # t
      BY <2>1
    <2>3. pc' \in {[pc EXCEPT ![t] = l] : l \in {"looked", "ensured", "stream", "plain"}}
      BY <1>1 DEF Look, Ensure, Persist, Goto
    <2>4. aid' = aid \/ (\E i : aid' = [aid EXCEPT ![t] = i])
      BY <1>1 DEF Look, Ensure, Persist, turnVars, sayVars
    <2> QED
      BY <1>0, <2>1, <2>2, <2>3, <2>4 DEF TurnType
  <1>2. ASSUME NEW t \in Turns, Refuse(t) \/ Crash(t) \/ Leave(t) \/ Cancelled(t)
        PROVE  Kept
    <2>1. pc[t] # "closed" /\ aid' = aid
      BY <1>2 DEF Refuse, Crash, Leave, Cancelled, Open, Streaming, Talking, sayVars
    <2>2. /\ pc' = [pc EXCEPT ![t] = "closed"]
          /\ \E how : ended' = [ended EXCEPT ![t] = how]
      BY <1>2 DEF Refuse, Crash, Leave, Cancelled, Close, Goto
    <2> QED
      BY <1>0, <2>1, <2>2 DEF TurnType
  <1>3. ASSUME NEW t \in Turns, Done(t) \/ PlainDone(t) \/ Failed(t)
        PROVE  Kept
    <2>1. PICK w \in Words, s \in States : Upsert(t, w, s)
      BY <1>3, SpokenWords DEF Done, PlainDone, Failed, States
    <2>2. u # t \/ aid[u] # None => aid'[u] = aid[u]
      BY <1>0, <2>1, UpsertOthers
    <2>3. /\ pc[t] # "closed"
          /\ pc' = [pc EXCEPT ![t] = "closed"]
          /\ \E how : ended' = [ended EXCEPT ![t] = how]
      BY <1>3 DEF Done, PlainDone, Failed, Streaming, Talking, Close, Goto
    <2> QED
      BY <1>0, <2>2, <2>3 DEF TurnType
  <1>4. ASSUME NEW t \in Turns, Delta(t)
        PROVE  Kept
    <2>1. PICK w \in {{}, {t}} : Upsert(t, w, "streaming")
      BY <1>4 DEF Delta
    <2>2. u # t \/ aid[u] # None => aid'[u] = aid[u]
      BY <1>0, <2>1, UpsertOthers, SpokenWords DEF States
    <2>3. pc[t] = "stream" /\ UNCHANGED <<pc, ended>>
      BY <1>4 DEF Delta, Talking, Streaming
    <2> QED
      BY <2>2, <2>3
  <1>5. ASSUME NEW t \in Turns, ToolStart(t) \/ ToolResult(t) \/ PlainTool(t)
        PROVE  Kept
    BY <1>5 DEF ToolStart, ToolResult, PlainTool
  <1>6. CASE Edit \/ UNCHANGED vars
    BY <1>6 DEF Edit, vars, turnVars, sayVars
  <1> QED
    BY NextCases, <1>1, <1>2, <1>3, <1>4, <1>5, <1>6

(* Who may change the words of a reply.                                      *)
LEMMA WordsFrom ==
  ASSUME IInv, [Next]_vars, NEW id \in DOMAIN msgs, id \in DOMAIN msgs',
         msgs[id].role = "assistant"
  PROVE  \/ msgs'[id].words = msgs[id].words
         \/ msgs'[id].words = {Editor}
         \/ \E u \in Turns : aid[u] = id /\ pc[u] = "stream"
  <1> DEFINE Kept == \/ msgs'[id].words = msgs[id].words
                     \/ msgs'[id].words = {Editor}
                     \/ \E u \in Turns : aid[u] = id /\ pc[u] = "stream"
  <1>0. TypeOK /\ RefsInv /\ OwnMessages /\ StageInv
    BY DEF IInv
  <1>1. ASSUME NEW t \in Turns, Look(t) \/ Ensure(t) \/ Refuse(t) \/ Crash(t) \/ Leave(t)
        PROVE  Kept
    BY <1>1 DEF Look, Ensure, Refuse, Crash, Leave, logVars
  <1>2. ASSUME NEW m \in Messages, Append(m)
        PROVE  Kept
    BY <1>0, <1>2, AppendAdds
  <1>3. ASSUME NEW t \in Turns, Persist(t)
        PROVE  Kept
    <2>1. Message("user", t, {t}, "sent") \in Messages
      BY DEF Message, Messages
    <2>2. UNCHANGED logVars \/ Append(Message("user", t, {t}, "sent"))
      BY <1>3 DEF Persist
    <2> QED
      BY <2>1, <2>2, <1>2 DEF logVars
  <1>4. ASSUME NEW t \in Turns, NEW w \in Words, NEW s \in States, Upsert(t, w, s),
               pc[t] \in {"stream", "plain"}
        PROVE  Kept
    <2>1. CASE aid[t] = id
      <3>1. id # None
        BY <1>0, ChatAssumption DEF TypeOK
      <3>2. pc[t] = "stream"
        BY <1>0, <1>4, <2>1, <3>1 DEF StageInv
      <3> QED
        BY <2>1, <3>2
    <2>2. CASE aid[t] # id
      BY <1>0, <1>4, <2>2, UpsertWrites
    <2> QED
      BY <2>1, <2>2
  <1>5. ASSUME NEW t \in Turns, Done(t) \/ PlainDone(t) \/ Failed(t) \/ Delta(t)
        PROVE  Kept
    <2>1. PICK w \in Words, s \in States : Upsert(t, w, s)
      BY <1>5, SpokenWords DEF Done, PlainDone, Failed, Delta, States
    <2>2. pc[t] \in {"stream", "plain"}
      BY <1>5 DEF Done, PlainDone, Failed, Delta, Talking, Streaming
    <2> QED
      BY <2>1, <2>2, <1>4
  <1>6. ASSUME NEW t \in Turns, ToolStart(t)
        PROVE  Kept
    <2>1. pc[t] = "stream"
      BY <1>6 DEF ToolStart, Talking, Streaming
    <2>2. id # aid[t] => msgs'[id] = msgs[id]
      BY <1>0, <1>6, ToolStartRows
    <2> QED
      BY <2>1, <2>2
  <1>7. ASSUME NEW t \in Turns, ToolResult(t)
        PROVE  Kept
    <2>1. Update(tool[t], {t}, "result")
      BY <1>7 DEF ToolResult
    <2>2. id # tool[t]
      BY <1>0 DEF OwnMessages
    <2> QED
      BY <1>0, <2>1, <2>2, UpdateChanges, SpokenWords DEF States
  <1>8. ASSUME NEW t \in Turns, Cancelled(t)
        PROVE  Kept
    <2>1. pc[t] = "stream" /\ (Update(aid[t], {t}, "cancelled") \/ UNCHANGED logVars)
      BY <1>8 DEF Cancelled, Talking, Streaming
    <2>2. id # aid[t] => msgs'[id] = msgs[id]
      BY <1>0, <2>1, UpdateChanges, SpokenWords DEF States, logVars
    <2> QED
      BY <2>1, <2>2
  <1>9. ASSUME NEW t \in Turns, PlainTool(t)
        PROVE  Kept
    <2>1. Message("tool", t, {t}, "result") \in Messages
      BY DEF Message, Messages
    <2> QED
      BY <2>1, <1>2, <1>9 DEF PlainTool
  <1>10. ASSUME Edit
         PROVE  Kept
    <2>1. ASSUME DeleteChat \/ ClearMessages
          PROVE  FALSE
      <3>1. msgs' = << >>
        BY <2>1 DEF DeleteChat, ClearMessages
      <3> QED
        BY <3>1
    <2>2. ASSUME NEW i \in DOMAIN msgs, DeleteMessage(i)
          PROVE  Kept
      BY <2>2 DEF DeleteMessage
    <2>3. ASSUME NEW i \in DOMAIN msgs, EditMessage(i)
          PROVE  Kept
      <3>1. msgs[id] \in Messages
        BY <1>0 DEF TypeOK
      <3>2. msgs'[id] \in {msgs[id], [msgs[id] EXCEPT !.words = {Editor}]}
        BY <2>3 DEF EditMessage
      <3> QED
        BY <3>1, <3>2 DEF Messages
    <2> QED
      BY <1>10, <2>1, <2>2, <2>3 DEF Edit
  <1>11. CASE UNCHANGED vars
    BY <1>11 DEF vars, logVars
  <1> QED
    BY NextCases, <1>1, <1>3, <1>5, <1>6, <1>7, <1>8, <1>9, <1>10, <1>11

(* The turn that ends as done has written its reply.                         *)
LEMMA DoneWrites ==
  ASSUME IInv, [Next]_vars, NEW t \in Turns, ended[t] # "done", ended'[t] = "done"
  PROVE  /\ aid'[t] \in 1..(nextId' - 1)
         /\ aid'[t] \in DOMAIN msgs' => msgs'[aid'[t]].words = {t}
  <1>0. TypeOK /\ RefsInv /\ TurnType
    BY TypeParts DEF IInv
  <1>1. ASSUME NEW u \in Turns, Done(u) \/ PlainDone(u)
        PROVE  u = t /\ Upsert(t, {t}, "final")
    <2>1. ended' = [ended EXCEPT ![u] = "done"] /\ Upsert(u, {u}, "final")
      BY <1>1 DEF Done, PlainDone, Close
    <2>2. u = t
      BY <1>0, <2>1 DEF TurnType
    <2> QED
      BY <2>1, <2>2
  <1>2. ASSUME NEW u \in Turns, Refuse(u) \/ Crash(u) \/ Leave(u) \/ Cancelled(u) \/ Failed(u)
        PROVE  FALSE
    <2>1. \E how \in {"refused", "crashed", "left", "cancelled", "error"} :
            ended' = [ended EXCEPT ![u] = how]
      BY <1>2 DEF Refuse, Crash, Leave, Cancelled, Failed, Close
    <2> QED
      BY <1>0, <2>1 DEF TurnType
  <1>3. ASSUME NEW u \in Turns, Look(u) \/ Ensure(u) \/ Persist(u) \/ Delta(u)
                                  \/ ToolStart(u) \/ ToolResult(u) \/ PlainTool(u)
        PROVE  FALSE
    BY <1>3 DEF Look, Ensure, Persist, Delta, ToolStart, ToolResult, PlainTool
  <1>4. ASSUME Edit \/ UNCHANGED vars
        PROVE  FALSE
    BY <1>4 DEF Edit, vars
  <1>5. Upsert(t, {t}, "final")
    BY NextCases, <1>1, <1>2, <1>3, <1>4
  <1>6. nextId \in Nat \ {0} /\ aid \in [Turns -> Nat \cup {None}]
    BY <1>0 DEF TypeOK
  <1>7. CASE /\ nextId' = nextId + 1
             /\ msgs'[nextId] = Message("assistant", t, {t}, "final")
             /\ aid' = [aid EXCEPT ![t] = nextId]
    BY <1>6, <1>7 DEF Message
  <1>8. CASE /\ aid[t] \in 1..(nextId - 1)
             /\ UNCHANGED <<nextId, aid>>
             /\ DOMAIN msgs' = DOMAIN msgs
             /\ \A id \in DOMAIN msgs : msgs'[id] =
                  IF id = aid[t] THEN Message(msgs[id].role, msgs[id].of, {t}, "final")
                  ELSE msgs[id]
    <2>1. aid[t] \in DOMAIN msgs =>
            msgs'[aid[t]] = Message(msgs[aid[t]].role, msgs[aid[t]].of, {t}, "final")
      BY <1>8
    <2> QED
      BY <1>8, <2>1 DEF Message
  <1>9. {t} \in Words /\ "final" \in States
    BY SpokenWords DEF States
  <1> QED
    BY <1>0, <1>5, <1>7, <1>8, <1>9, UpsertWrites

(* A finished reply stays as it was written, but for the named exceptions.   *)
LEMMA DoneStep ==
  ASSUME IInv, [Next]_vars
  PROVE  DoneInv'
  <1> DEFINE Stored(t) ==
        /\ aid'[t] \in 1..(nextId' - 1)
        /\ aid'[t] \in DOMAIN msgs' =>
             \/ msgs'[aid'[t]].words \in {{t}, {Editor}}
             \/ \E u \in Turns \ {t} : aid'[u] = aid'[t] /\ pc'[u] \in {"stream", "closed"}
  <1> SUFFICES ASSUME NEW t \in Turns, ended'[t] = "done" PROVE Stored(t)
    BY DEF DoneInv
  <1>0. /\ TypeOK /\ RefsInv /\ OwnMessages /\ StageInv /\ DoneInv /\ RowsKept
        /\ nextId \in Nat
    BY RowsStep DEF IInv, RowsKept
  <1>1. CASE ended[t] # "done"
    BY <1>1, DoneWrites
  <1>2. CASE ended[t] = "done"
    <2>1. pc[t] = "closed"
      BY <1>0, <1>2 DEF StageInv
    <2>2. aid'[t] = aid[t]
      BY <2>1, ReplyStays
    <2>3. /\ aid[t] \in 1..(nextId - 1)
          /\ aid[t] \in DOMAIN msgs =>
               \/ msgs[aid[t]].words \in {{t}, {Editor}}
               \/ \E u \in Turns \ {t} : aid[u] = aid[t] /\ pc[u] \in {"stream", "closed"}
      BY <1>0, <1>2 DEF DoneInv
    <2>4. aid'[t] \in 1..(nextId' - 1)
      BY <1>0, <2>2, <2>3 DEF RowsKept
    <2>5. aid[t] # None
      BY <2>3, ChatAssumption
    <2>6. ASSUME NEW u \in Turns \ {t}, aid[u] = aid[t], pc[u] \in {"stream", "closed"}
          PROVE  Stored(t)
      <3>1. aid'[u] = aid[u] /\ pc'[u] \in {"stream", "closed"}
        BY <2>5, <2>6, ReplyStays
      <3> QED
        BY <2>2, <2>4, <2>6, <3>1
    <2>7. ASSUME aid[t] \in DOMAIN msgs'
          PROVE  Stored(t)
      <3>1. aid[t] \in DOMAIN msgs
        BY <1>0, <2>3, <2>7 DEF RowsKept
      <3>2. msgs[aid[t]].role = "assistant"
        BY <1>0, <3>1 DEF OwnMessages
      <3>3. CASE msgs'[aid[t]].words \in {msgs[aid[t]].words, {Editor}}
        BY <2>2, <2>3, <2>4, <2>6, <3>1, <3>3
      <3>4. ASSUME NEW u \in Turns, aid[u] = aid[t], pc[u] = "stream"
            PROVE  Stored(t)
        BY <2>1, <2>6, <3>4
      <3> QED
        BY <2>7, <3>1, <3>2, <3>3, <3>4, WordsFrom
    <2> QED
      BY <2>2, <2>4, <2>7
  <1> QED
    BY <1>1, <1>2

--------------------------------------------------------------------------------
(* Who is to blame for an unfinished message.                                *)

Unfinished == {"streaming", "running"}

(* The turn t has marked the message id and has not ended, or has ended in    *)
(* one of the ways that leave the mark.                                      *)
Blamed(t, id) ==
  /\ id = tool[t] \/ (id = aid[t] /\ text[t] # "empty")
  /\ \/ Open(t)
     \/ ended[t] \in {"left", "crashed"}
     \/ ended[t] = "cancelled" /\ text[t] = "blank"

(* A step makes a message unfinished only as it streams or starts a tool.     *)
LEMMA MarkFrom ==
  ASSUME IInv, [Next]_vars, NEW id \in DOMAIN msgs', msgs'[id].state \in Unfinished
  PROVE  \/ id \in DOMAIN msgs /\ msgs[id].state \in Unfinished
         \/ \E t \in Turns : Blamed(t, id)'
  <1> DEFINE Goal == \/ id \in DOMAIN msgs /\ msgs[id].state \in Unfinished
                     \/ \E t \in Turns : Blamed(t, id)'
  <1>0. TypeOK /\ RefsInv /\ TurnType /\ nextId \in Nat
    BY TypeParts DEF IInv, TypeOK
  <1>1. ASSUME UNCHANGED msgs
        PROVE  Goal
    BY <1>1
  <1>2. ASSUME NEW m \in Messages, Append(m), m.state \notin Unfinished
        PROVE  Goal
    <2>1. /\ DOMAIN msgs' = DOMAIN msgs \cup {nextId}
          /\ msgs'[nextId] = m
          /\ \A i \in DOMAIN msgs : msgs'[i] = msgs[i]
      BY <1>0, <1>2, AppendAdds
    <2> QED
      BY <1>2, <2>1
  <1>3. ASSUME NEW i, NEW w \in Words, NEW s \in States \ Unfinished, Update(i, w, s)
        PROVE  Goal
    <2>1. /\ id \in DOMAIN msgs
          /\ \/ msgs'[id] = msgs[id]
             \/ msgs'[id] = Message(msgs[i].role, msgs[i].of, w, s)
      BY <1>0, <1>3, UpdateChanges
    <2>2. msgs'[id] # Message(msgs[i].role, msgs[i].of, w, s)
      BY <1>3 DEF Message
    <2> QED
      BY <2>1, <2>2
  <1>4. ASSUME NEW t \in Turns, NEW w \in Words, NEW s \in States \ Unfinished,
               Upsert(t, w, s)
        PROVE  Goal
    <2>1. CASE aid[t] = None
      <3>1. Append(Message("assistant", t, w, s))
        BY <1>4, <2>1 DEF Upsert
      <3>2. Message("assistant", t, w, s) \in Messages
        BY DEF Message, Messages, Words, States
      <3>3. Message("assistant", t, w, s).state \notin Unfinished
        BY <1>4 DEF Message
      <3> QED
        BY <3>1, <3>2, <3>3, <1>2
    <2>2. CASE aid[t] # None
      <3>1. Update(aid[t], w, s)
        BY <1>4, <2>2 DEF Upsert
      <3> QED
        BY <3>1, <1>3
    <2> QED
      BY <2>1, <2>2
  <1>5. ASSUME NEW t \in Turns, Look(t) \/ Ensure(t) \/ Refuse(t) \/ Crash(t) \/ Leave(t)
        PROVE  Goal
    BY <1>5, <1>1 DEF Look, Ensure, Refuse, Crash, Leave, logVars
  <1>6. ASSUME NEW t \in Turns, Persist(t)
        PROVE  Goal
    <2>1. Message("user", t, {t}, "sent") \in Messages
      BY DEF Message, Messages
    <2>2. Message("user", t, {t}, "sent").state \notin Unfinished
      BY DEF Message, Unfinished
    <2>3. UNCHANGED logVars \/ Append(Message("user", t, {t}, "sent"))
      BY <1>6 DEF Persist
    <2> QED
      BY <2>1, <2>2, <2>3, <1>1, <1>2 DEF logVars
  <1>7. ASSUME NEW t \in Turns, Done(t) \/ PlainDone(t) \/ Failed(t)
        PROVE  Goal
    <2>1. PICK w \in Words, s \in {"final", "error"} : Upsert(t, w, s)
      BY <1>7, SpokenWords DEF Done, PlainDone, Failed
    <2>2. s \in States \ Unfinished
      BY DEF States, Unfinished
    <2> QED
      BY <2>1, <2>2, <1>4
  <1>8. ASSUME NEW t \in Turns, Delta(t)
        PROVE  Goal
    <2>1. PICK w \in {{}, {t}} : Upsert(t, w, "streaming")
      BY <1>8 DEF Delta
    <2>2. w \in Words /\ "streaming" \in States
      BY SpokenWords DEF States
    <2>3. /\ pc' = pc /\ pc[t] = "stream" /\ text'[t] # "empty"
      BY <1>0, <1>8 DEF Delta, Talking, Streaming, TurnType
    <2>4. id = aid'[t] \/ (id \in DOMAIN msgs /\ msgs'[id] = msgs[id])
      BY <1>0, <2>1, <2>2, UpsertWrites DEF TypeOK
    <2>5. CASE id = aid'[t]
      BY <2>3, <2>5 DEF Blamed, Open
    <2> QED
      BY <2>4, <2>5
  <1>9. ASSUME NEW t \in Turns, ToolStart(t)
        PROVE  Goal
    <2>1. pc' = pc /\ pc[t] = "stream" /\ tool'[t] = nextId
      BY <1>0, <1>9 DEF ToolStart, Talking, Streaming, FreshId, TurnType
    <2>2. CASE id = nextId
      BY <2>1, <2>2 DEF Blamed, Open
    <2>3. CASE id # nextId
      <3>1. /\ id \in DOMAIN msgs
            /\ \/ msgs'[id] = msgs[id]
               \/ msgs'[id] = Message(msgs[id].role, msgs[id].of, {t}, "final")
        BY <1>0, <1>9, <2>3, ToolStartRows
      <3>2. msgs'[id] # Message(msgs[id].role, msgs[id].of, {t}, "final")
        BY DEF Message, Unfinished
      <3> QED
        BY <3>1, <3>2
    <2> QED
      BY <2>2, <2>3
  <1>10. ASSUME NEW t \in Turns, ToolResult(t)
         PROVE  Goal
    <2>1. Update(tool[t], {t}, "result") /\ {t} \in Words /\ "result" \in States \ Unfinished
      BY <1>10, SpokenWords DEF ToolResult, States, Unfinished
    <2> QED
      BY <2>1, <1>3
  <1>11. ASSUME NEW t \in Turns, Cancelled(t)
         PROVE  Goal
    <2>1. Update(aid[t], {t}, "cancelled") \/ UNCHANGED msgs
      BY <1>11 DEF Cancelled, logVars
    <2>2. {t} \in Words /\ "cancelled" \in States \ Unfinished
      BY SpokenWords DEF States, Unfinished
    <2> QED
      BY <2>1, <2>2, <1>1, <1>3
  <1>12. ASSUME NEW t \in Turns, PlainTool(t)
         PROVE  Goal
    <2>1. Message("tool", t, {t}, "result") \in Messages
      BY DEF Message, Messages
    <2>2. Message("tool", t, {t}, "result").state \notin Unfinished
      BY DEF Message, Unfinished
    <2> QED
      BY <1>12, <2>1, <2>2, <1>2 DEF PlainTool
  <1>13. ASSUME Edit
         PROVE  Goal
    <2>1. ASSUME DeleteChat \/ ClearMessages
          PROVE  FALSE
      <3>1. msgs' = << >>
        BY <2>1 DEF DeleteChat, ClearMessages
      <3> QED
        BY <3>1
    <2>2. ASSUME NEW i \in DOMAIN msgs, DeleteMessage(i)
          PROVE  Goal
      BY <2>2 DEF DeleteMessage
    <2>3. ASSUME NEW i \in DOMAIN msgs, EditMessage(i)
          PROVE  Goal
      <3>1. id \in DOMAIN msgs
        BY <2>3 DEF EditMessage
      <3>2. msgs[id] \in Messages
        BY <1>0, <3>1 DEF TypeOK
      <3>3. msgs'[id] \in {msgs[id], [msgs[id] EXCEPT !.words = {Editor}]}
        BY <2>3 DEF EditMessage
      <3>4. msgs'[id].state = msgs[id].state
        BY <3>2, <3>3 DEF Messages
      <3> QED
        BY <3>1, <3>4
    <2> QED
      BY <1>13, <2>1, <2>2, <2>3 DEF Edit
  <1>14. CASE UNCHANGED vars
    BY <1>14, <1>1 DEF vars, logVars
  <1> QED
    BY NextCases, <1>5, <1>6, <1>7, <1>8, <1>9, <1>10, <1>11, <1>12, <1>13, <1>14

(* A turn stays to blame unless it removes the mark.                         *)
LEMMA BlameStays ==
  ASSUME IInv, [Next]_vars, NEW u \in Turns, NEW id \in DOMAIN msgs, id \in DOMAIN msgs',
         Blamed(u, id)
  PROVE  Blamed(u, id)' \/ msgs'[id].state \notin Unfinished
  <1> DEFINE Goal == Blamed(u, id)' \/ msgs'[id].state \notin Unfinished
  <1>0. TypeOK /\ RefsInv /\ StageInv /\ TurnType /\ id # None
    BY TypeParts, ChatAssumption DEF IInv, TypeOK
  <1>1. ASSUME UNCHANGED <<pc[u], aid[u], tool[u], text[u], ended[u]>>
        PROVE  Goal
    BY <1>1 DEF Blamed, Open
  <1>2. ASSUME NEW t \in Turns, Look(t) \/ Ensure(t) \/ Persist(t)
        PROVE  Goal
    <2>1. CASE u = t
      <3>1. pc[u] \in {"idle", "looked", "ensured"}
        BY <1>2, <2>1 DEF Look, Ensure, Persist
      <3>2. tool[u] = None /\ text[u] = "empty"
        BY <1>0, <3>1 DEF StageInv
      <3> QED
        BY <1>0, <3>2 DEF Blamed
    <2>2. CASE u # t
      <3>1. /\ pc' \in {[pc EXCEPT ![t] = l] : l \in {"looked", "ensured", "stream", "plain"}}
            /\ aid' = aid \/ (\E i : aid' = [aid EXCEPT ![t] = i])
            /\ UNCHANGED <<tool, text, ended>>
        BY <1>2 DEF Look, Ensure, Persist, Goto, turnVars, sayVars
      <3> QED
        BY <1>0, <1>1, <2>2, <3>1 DEF TurnType
    <2> QED
      BY <2>1, <2>2
  <1>3. ASSUME NEW t \in Turns, NEW how, Close(t, how), UNCHANGED <<aid[u], text, tool>>,
               u # t
        PROVE  Goal
    BY <1>0, <1>1, <1>3 DEF Close, Goto, TurnType
  <1>4. ASSUME NEW t \in Turns, Refuse(t) \/ Crash(t) \/ Leave(t) \/ Cancelled(t)
        PROVE  Goal
    <2>1. PICK how : Close(t, how) /\ UNCHANGED <<aid, text, tool>>
      BY <1>4 DEF Refuse, Crash, Leave, Cancelled, sayVars
    <2>2. CASE u = t
      <3>1. CASE Refuse(t)
        <4>1. text[u] = "empty" /\ tools[u] = 0 /\ pc[u] \in {"stream", "plain"}
          BY <2>2, <3>1 DEF Refuse, Open
        <4>2. tool[u] = None
          BY <1>0, <4>1 DEF StageInv
        <4> QED
          BY <1>0, <4>1, <4>2 DEF Blamed
      <3>2. CASE Crash(t) \/ Leave(t)
        <4>1. ended'[u] \in {"left", "crashed"} /\ UNCHANGED <<aid, text, tool>>
          BY <1>0, <2>2, <3>2 DEF Crash, Leave, Close, sayVars, TurnType
        <4> QED
          BY <4>1 DEF Blamed
      <3>3. CASE Cancelled(t)
        <4>1. tool[u] = None /\ ended'[u] = "cancelled" /\ UNCHANGED <<aid, text, tool>>
          BY <1>0, <2>2, <3>3 DEF Cancelled, Talking, Close, sayVars, TurnType
        <4>2. id = aid[u] /\ text[u] \in {"blank", "words"}
          BY <1>0, <4>1 DEF Blamed, TurnType
        <4>3. CASE text[u] = "blank"
          BY <4>1, <4>2, <4>3 DEF Blamed
        <4>4. CASE text[u] = "words"
          <5>1. Update(id, {t}, "cancelled")
            BY <1>0, <2>2, <3>3, <4>2, <4>4 DEF Cancelled
          <5>2. msgs'[id] = Message(msgs[id].role, msgs[id].of, {t}, "cancelled")
            BY <1>0, <5>1, UpdateChanges, SpokenWords DEF States
          <5> QED
            BY <5>2 DEF Message, Unfinished
        <4> QED
          BY <4>2, <4>3, <4>4
      <3> QED
        BY <1>4, <3>1, <3>2, <3>3
    <2> QED
      BY <2>1, <2>2, <1>3
  <1>5. ASSUME NEW t \in Turns, Done(t) \/ PlainDone(t) \/ Failed(t)
        PROVE  Goal
    <2>1. PICK w \in Words, s \in {"final", "error"} : Upsert(t, w, s)
      BY <1>5, SpokenWords DEF Done, PlainDone, Failed
    <2>2. s \in States /\ s \notin Unfinished
      BY DEF States, Unfinished
    <2>3. PICK how : Close(t, how) /\ UNCHANGED <<text, tool>>
      BY <1>5 DEF Done, PlainDone, Failed
    <2>4. CASE u = t
      <3>1. tool[u] = None
        BY <1>0, <1>5, <2>4 DEF Done, PlainDone, Failed, Talking, StageInv
      <3>2. id = aid[t]
        BY <1>0, <2>4, <3>1 DEF Blamed
      <3>3. msgs'[id] = Message(msgs[id].role, msgs[id].of, w, s)
        BY <1>0, <2>1, <2>2, <3>2, UpsertWrites
      <3> QED
        BY <2>2, <3>3 DEF Message
    <2>5. CASE u # t
      BY <1>0, <2>1, <2>2, <2>3, <2>5, <1>3, UpsertOthers
    <2> QED
      BY <2>4, <2>5
  <1>6. ASSUME NEW t \in Turns, Delta(t)
        PROVE  Goal
    <2>1. PICK w \in {{}, {t}} : Upsert(t, w, "streaming")
      BY <1>6 DEF Delta
    <2>2. /\ UNCHANGED <<pc, tool, ended>> /\ pc[t] = "stream" /\ tool[t] = None
          /\ text'[t] # "empty" /\ (u # t => text'[u] = text[u])
      BY <1>0, <1>6 DEF Delta, Talking, Streaming, TurnType
    <2>3. u # t \/ aid[u] # None => aid'[u] = aid[u]
      BY <1>0, <2>1, UpsertOthers, SpokenWords DEF States
    <2>4. CASE u = t
      <3>1. id = aid[t]
        BY <1>0, <2>2, <2>4 DEF Blamed
      <3> QED
        BY <1>0, <2>2, <2>3, <2>4, <3>1 DEF Blamed, Open
    <2>5. CASE u # t
      BY <1>1, <2>2, <2>3, <2>5
    <2> QED
      BY <2>4, <2>5
  <1>7. ASSUME NEW t \in Turns, ToolStart(t)
        PROVE  Goal
    <2>1. /\ UNCHANGED <<pc, aid, text, ended>> /\ tool[t] = None
          /\ tool' = [tool EXCEPT ![t] = nextId]
      BY <1>7 DEF ToolStart, Talking, FreshId
    <2>2. CASE u = t
      <3>1. id = aid[u] /\ text[u] # "empty"
        BY <1>0, <2>1, <2>2 DEF Blamed
      <3> QED
        BY <2>1, <3>1 DEF Blamed, Open
    <2>3. CASE u # t
      BY <1>0, <1>1, <2>1, <2>3 DEF TurnType
    <2> QED
      BY <2>2, <2>3
  <1>8. ASSUME NEW t \in Turns, ToolResult(t)
        PROVE  Goal
    <2>1. UNCHANGED <<pc, aid, text, ended>> /\ tool' = [tool EXCEPT ![t] = None]
      BY <1>8 DEF ToolResult
    <2>2. CASE u = t /\ id = tool[t]
      <3>1. msgs'[id] = Message(msgs[id].role, msgs[id].of, {t}, "result")
        BY <1>0, <1>8, <2>2, UpdateChanges, SpokenWords DEF ToolResult, States
      <3> QED
        BY <3>1 DEF Message, Unfinished
    <2>3. CASE u = t /\ id # tool[t]
      BY <2>1, <2>3 DEF Blamed, Open
    <2>4. CASE u # t
      BY <1>0, <1>1, <2>1, <2>4 DEF TurnType
    <2> QED
      BY <2>2, <2>3, <2>4
  <1>9. ASSUME NEW t \in Turns, PlainTool(t)
        PROVE  Goal
    BY <1>1, <1>9 DEF PlainTool
  <1>10. CASE Edit \/ UNCHANGED vars
    BY <1>1, <1>10 DEF Edit, vars, turnVars, sayVars
  <1> QED
    BY NextCases, <1>2, <1>4, <1>5, <1>6, <1>7, <1>8, <1>9, <1>10

LEMMA SpinnerStep ==
  ASSUME IInv, [Next]_vars
  PROVE  SpinnerInv'
  <1>1. ASSUME NEW id \in DOMAIN msgs', msgs'[id].state \in Unfinished
        PROVE  \E t \in Turns : Blamed(t, id)'
    <2>1. CASE id \in DOMAIN msgs /\ msgs[id].state \in Unfinished
      <3>1. PICK t \in Turns : Blamed(t, id)
        BY <2>1 DEF IInv, SpinnerInv, Blamed, Unfinished
      <3> QED
        BY <1>1, <2>1, <3>1, BlameStays
    <2> QED
      BY <1>1, <2>1, MarkFrom
  <1> QED
    BY <1>1 DEF SpinnerInv, Blamed, Open, Unfinished

--------------------------------------------------------------------------------
(* Theorems.                                                                 *)

LEMMA InitIInv == Init => IInv
  <1> SUFFICES ASSUME Init PROVE IInv
    OBVIOUS
  <1>1. msgs = << >> /\ DOMAIN msgs = {}
    BY DEF Init
  <1>2. LogType
    <2>1. exists = FALSE /\ nextId = 1 /\ DOMAIN msgs = {}
      BY <1>1 DEF Init
    <2>0. exists \in BOOLEAN
      BY Zenon DEF Init
    <2>2. nextId \in Nat \ {0}
      BY <2>1
    <2>3. DOMAIN msgs \subseteq 1..(nextId - 1)
      BY <2>1
    <2>4. \A id \in DOMAIN msgs : msgs[id] \in Messages
      BY <2>1
    <2> QED
      BY <2>0, <2>2, <2>3, <2>4 DEF LogType
  <1>5. 0 \in 0..MaxTools /\ edits \in 0..MaxEdits
    BY ChatAssumption DEF Init
  <1>6. TurnType
    BY <1>5 DEF Init, TurnType
  <1>3. TypeOK
    BY <1>2, <1>5, <1>6, TypeParts
  <1>4. NoOrphans /\ RefsInv /\ StageInv /\ OwnMessages /\ DoneInv /\ SpinnerInv
    BY <1>1 DEF Init, NoOrphans, RefsInv, StageInv, OwnMessages, DoneInv, SpinnerInv
  <1> QED
    BY <1>3, <1>4 DEF IInv

LEMMA IInvStep == IInv /\ [Next]_vars => IInv'
  <1> SUFFICES ASSUME IInv, [Next]_vars PROVE IInv'
    OBVIOUS
  <1>1. TypeOK'
    BY TypeStep
  <1>2. NoOrphans'
    BY RowsStep DEF RowsKept
  <1>3. RefsInv' /\ OwnMessages'
    BY RefsStep
  <1>4. StageInv'
    BY StageStep
  <1>5. DoneInv'
    BY DoneStep
  <1>6. SpinnerInv'
    BY SpinnerStep
  <1> QED
    BY <1>1, <1>2, <1>3, <1>4, <1>5, <1>6 DEF IInv

LEMMA Invariance == Spec => []IInv
  BY InitIInv, IInvStep, PTL DEF Spec

(* Type invariant of the chat log and of its turns.                          *)
THEOREM TypeCorrect == Spec => []TypeOK
  <1>1. IInv => TypeOK
    BY DEF IInv
  <1> QED
    BY <1>1, Invariance, PTL

(* The foreign key and the cascade of delete_chat (storage.py) leave no       *)
(* message of a chat that does not exist, whatever turns go on.              *)
THEOREM NoOrphanMessages == Spec => []NoOrphans
  <1>1. IInv => NoOrphans
    BY DEF IInv
  <1> QED
    BY <1>1, Invariance, PTL

(* The ids that chat_stream keeps between packets name messages of its own    *)
(* turn, or of none, however the user edits the log meanwhile.               *)
THEOREM TurnsOwnTheirMessages == Spec => []OwnMessages
  <1>1. IInv => OwnMessages
    BY DEF IInv
  <1> QED
    BY <1>1, Invariance, PTL

(* A reply that chat_stream or build_chat_response reported as done is stored *)
(* under the turn's id, or the user has deleted or edited it, or another turn *)
(* continues it.                                                             *)
THEOREM DoneRepliesAreStored == Spec => []DoneIsStored
  <1>1. IInv => DoneIsStored
    BY DEF IInv, DoneInv, DoneIsStored
  <1> QED
    BY <1>1, Invariance, PTL

(* A message stays marked as being streamed only while its turn is open, or   *)
(* in the three named cases.                                                 *)
THEOREM SpinnersEnd == Spec => []NoStaleSpinner
  <1>1. IInv => NoStaleSpinner
    BY DEF IInv, SpinnerInv, NoStaleSpinner
  <1> QED
    BY <1>1, Invariance, PTL
================================================================================
