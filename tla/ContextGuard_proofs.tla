--------------------------- MODULE ContextGuard_proofs --------------------------
(***************************************************************************)
(* Proofs about ContextGuard: the indicator is busy only while something   *)
(* is under way, a remembered usage is that of what is shown, and what is  *)
(* sent is of its chat and has the message it is sent for.                 *)
(***************************************************************************)
EXTENDS ContextGuard, HistoryCompression_proofs

Phases == {"idle", "limits", "limited", "counted", "model", "done"} \cup Waiting

\* The histories, and what they may be compressed to.
Kept == Seq(Entries) \cup UNION {Shapes(h) : h \in Seq(Entries)}

Sigs == [history : Kept, draft : BOOLEAN, variants : BOOLEAN]
Usages == [exact : BOOLEAN, sig : Sigs]
Requests == [seq : Nat, sig : Sigs, apply : BOOLEAN, task : Tasks \cup {None}]
TaskStates ==
  [kind : {"none", "prepare", "compress"}, pc : Phases, chat : Chats \cup {None},
   message : Nat, mode : Range(Modes), base : Usages, history : Kept, offer : Nat,
   plan : Kept, moved : BOOLEAN, manual : BOOLEAN]

ChatTypes ==
  /\ shown \in Chats /\ said \in [Chats -> Seq(Entries)] /\ draft \in BOOLEAN
  /\ mode \in [Chats -> Range(Modes)]
  /\ override \in [Chats -> [history : Kept, moved : BOOLEAN]]

UsageTypes ==
  /\ fetching \in BOOLEAN /\ loading \in [limits : BOOLEAN, usage : BOOLEAN]
  /\ usage \in Usages /\ seq \in Nat /\ asked \subseteq Requests
  /\ shared \in [seq : Nat, sig : Sigs] /\ lastSig \in Sigs /\ late \in BOOLEAN

TaskTypes == task \in [Tasks -> TaskStates]

--------------------------------------------------------------------------------
(* Numbers and histories.                                                      *)

LEMMA NumberType ==
  ASSUME NEW c \in Chats, NEW n \in Nat
  PROVE  Number(c, n) \in Nat /\ (n # 0 => Number(c, n) # None)
<1> DEFINE base == c * (MaxSaid + 1)
<1>1. c \in Nat /\ MaxSaid + 1 \in Nat
  BY GuardAssumption
<1>2. base \in Nat
  BY <1>1
<1> HIDE DEF base
<1>3. base + n \in Nat /\ (n # 0 => base + n # 0)
  BY <1>2
<1> QED
  BY <1>3 DEF Number, base, None

LEMMA NumberOnce ==
  ASSUME NEW c \in Chats, NEW m \in Nat, NEW n \in Nat, Number(c, m) = Number(c, n)
  PROVE  m = n
<1> DEFINE base == c * (MaxSaid + 1)
<1>1. c \in Nat /\ MaxSaid + 1 \in Nat
  BY GuardAssumption
<1>2. base \in Nat
  BY <1>1
<1>3. base + m = base + n
  BY DEF Number
<1> HIDE DEF base
<1> QED
  BY <1>2, <1>3

LEMMA EntryType ==
  ASSUME NEW c \in Chats, NEW n \in Nat, NEW role \in Roles
  PROVE  Entry(Number(c, n), role) \in Entries /\ Entry(Number(c, n), role).id = Number(c, n)
BY NumberType DEF Entry, Entries

LEMMA HistoryIsKept ==
  ASSUME NEW h, h \in Seq(Entries)
  PROVE  h \in Kept
BY DEF Kept

LEMMA ShapeIsKept ==
  ASSUME NEW h, h \in Seq(Entries), NEW c, c \in Shapes(h)
  PROVE  c \in Kept
BY DEF Kept

LEMMA NothingIsKept == <<>> \in Kept
BY DEF Kept

\* The best of what there is to choose, if it helps.
LEMMA BestIsShape ==
  ASSUME NEW h, h \in Seq(Entries), NEW k, k \in Offers(h), NEW used,
         NEW p, p = Compressed(Count, h, k, used), p # <<>>
  PROVE  p \in Shapes(h)
<1>1. Count \in Quotes
  BY GuardAssumption DEF Quotes
<1> QED
  BY <1>1, CompressedIsBest

LEMMA ShapeIsOwn ==
  ASSUME NEW h, h \in Seq(Entries), NEW c, ~Foreign(h, c), NEW p, p \in Shapes(h)
  PROVE  ~Foreign(p, c)
<1>1. IdsOf(p) \subseteq IdsOf(h) \cup {None}
  BY ShapeIds
<1>2. \A i \in DOMAIN p : p[i].id \in IdsOf(h) \cup {None}
  BY <1>1 DEF IdsOf
<1>3. \A x \in IdsOf(h) : x # None => x \in Numbers(c)
  BY DEF IdsOf, Foreign
<1> QED
  BY <1>2, <1>3 DEF Foreign

LEMMA NothingIsOwn ==
  ASSUME NEW c
  PROVE  ~Foreign(<<>>, c)
BY DEF Foreign

--------------------------------------------------------------------------------
(* Types.                                                                      *)

Types == ChatTypes /\ UsageTypes /\ TaskTypes

LEMMA CurrentType == ChatTypes => Current \in Sigs
BY HistoryIsKept DEF ChatTypes, Current, Sig, Sigs

LEMMA NoSigType == NoSig \in Sigs /\ Empty \in Usages
BY NothingIsKept DEF NoSig, Sig, Sigs, Empty, Usages

LEMMA ExactType ==
  ASSUME NEW sig \in Sigs
  PROVE  Exact(sig) \in Usages
BY DEF Exact, Usages

LEMMA RestingType == Resting \in TaskStates
<1>1. Empty \in Usages /\ <<>> \in Kept
  BY NoSigType, NothingIsKept
<1>2. "auto" \in Range(Modes)
  <2>1. Modes[1] = "auto" /\ 1 \in DOMAIN Modes
    BY DEF Modes
  <2> QED
    BY <2>1 DEF Range
<1> QED
  BY <1>1, <1>2 DEF Resting, TaskStates, None, Phases

LEMMA RequestTypes ==
  ASSUME UsageTypes, NEW sig \in Sigs, NEW apply \in BOOLEAN, NEW t \in Tasks \cup {None},
         Request(sig, apply, t), UNCHANGED fetching
  PROVE  UsageTypes'
<1> DEFINE q == [seq |-> seq + 1, sig |-> sig, apply |-> apply, task |-> t]
<1>1. q \in Requests
  BY DEF Requests, UsageTypes
<1>2. asked' \subseteq Requests
  BY <1>1 DEF Request, UsageTypes
<1>3. shared' \in [seq : Nat, sig : Sigs]
  BY DEF Request, UsageTypes
<1>4. seq' \in Nat
  BY DEF Request, UsageTypes
<1>6. loading' \in [limits : BOOLEAN, usage : BOOLEAN]
  <2>1. loading' = [loading EXCEPT !.usage = TRUE]
    BY DEF Request
  <2> QED
    BY <2>1 DEF UsageTypes
<1>5. UNCHANGED <<usage, lastSig, late, fetching>>
  BY DEF Request
<1> QED
  BY <1>2, <1>3, <1>4, <1>5, <1>6 DEF UsageTypes

LEMMA SettleTypes ==
  ASSUME UsageTypes, NEW q \in asked, NEW how, NEW left \in Usages,
         Settle(q, how, left), UNCHANGED fetching
  PROVE  UsageTypes'
<1>1. q \in Requests
  BY DEF UsageTypes
<1>2. shared' \in [seq : Nat, sig : Sigs]
  BY <1>1 DEF Settle, UsageTypes, None, Requests
<1>3. lastSig' \in Sigs
  BY <1>1 DEF Settle, UsageTypes, Remembered, Requests
<1>4. late' \in BOOLEAN
  BY <1>1 DEF Settle, UsageTypes, Requests
<1>5. loading' \in [limits : BOOLEAN, usage : BOOLEAN]
  BY DEF Settle, UsageTypes, IdleAfter
<1> QED
  BY <1>2, <1>3, <1>4, <1>5 DEF Settle, UsageTypes

LEMMA KeptUsageType ==
  ASSUME UsageTypes, NEW q \in asked, NEW how \in Answers
  PROVE  KeptUsage(q, how) \in Usages /\ Got(q, how) \in Usages
<1>1. q \in Requests /\ q.sig \in Sigs
  BY DEF UsageTypes, Requests
<1>2. Got(q, how) \in Usages
  BY <1>1, ExactType, NoSigType DEF Got, UsageTypes
<1>3. CASE how = "ok"
  BY <1>1, <1>2, <1>3, ExactType DEF KeptUsage, UsageTypes
<1>4. CASE how = "failed"
  BY <1>1, <1>2, <1>4, ExactType DEF KeptUsage, UsageTypes
<1>5. CASE how = "unknown"
  BY <1>1, <1>2, <1>5, NoSigType DEF KeptUsage, UsageTypes
<1> QED
  BY <1>2, <1>3, <1>4, <1>5 DEF Answers

LEMMA LimitsTypes ==
  ASSUME Types, NEW t \in Tasks, NEW kind \in {"prepare", "compress"}, NEW message \in Nat,
         NEW due \in BOOLEAN, Limits(t, kind, message, due), UNCHANGED usageVars
  PROVE  UsageTypes' /\ TaskTypes'
<1>1. UsageTypes'
  BY DEF Limits, Types, UsageTypes, usageVars
<1>2. mode[shown] \in Range(Modes) /\ shown \in Chats
  BY DEF Types, ChatTypes
<1>3. [Resting EXCEPT !.kind = kind, !.chat = shown, !.message = message,
                      !.mode = mode[shown], !.pc = IF due THEN "limits" ELSE "limited"]
        \in TaskStates
  BY <1>2, RestingType DEF TaskStates, Phases
<1> QED
  BY <1>1, <1>3 DEF Limits, Types, TaskTypes

LEMMA PlannedType ==
  ASSUME TaskTypes, NEW t \in Tasks, NEW plan \in Kept
  PROVE  Planned(t, plan) \in [Tasks -> TaskStates]
<1>1. task[t] \in TaskStates
  BY DEF TaskTypes
<1>2. [task[t] EXCEPT !.pc = "done", !.plan = plan] \in TaskStates
  BY <1>1 DEF TaskStates, Phases
<1>3. Planned(t, plan) = [task EXCEPT ![t] = [task[t] EXCEPT !.pc = "done", !.plan = plan]]
  BY DEF Planned, TaskTypes
<1> QED
  BY <1>2, <1>3 DEF TaskTypes

LEMMA CompressType ==
  ASSUME Types, NEW t \in Tasks
  PROVE  Compress(t) \in [Tasks -> TaskStates]
<1>1. said[shown] \in Kept
  BY HistoryIsKept DEF Types, ChatTypes
<1>2. Planned(t, <<>>) \in [Tasks -> TaskStates]
  BY PlannedType, NothingIsKept DEF Types
<1>3. [task EXCEPT ![t].pc = "model", ![t].history = said[shown]] \in [Tasks -> TaskStates]
  <2>1. task[t] \in TaskStates
    BY DEF Types, TaskTypes
  <2>2. [task[t] EXCEPT !.pc = "model", !.history = said[shown]] \in TaskStates
    BY <1>1, <2>1 DEF TaskStates, Phases
  <2>3. [task EXCEPT ![t].pc = "model", ![t].history = said[shown]]
          = [task EXCEPT ![t] = [task[t] EXCEPT !.pc = "model", !.history = said[shown]]]
    BY DEF Types, TaskTypes
  <2> QED
    BY <2>2, <2>3 DEF Types, TaskTypes
<1> QED
  BY <1>2, <1>3 DEF Compress

LEMMA SetTaskType ==
  ASSUME TaskTypes, NEW t \in Tasks, NEW state \in TaskStates
  PROVE  [task EXCEPT ![t] = state] \in [Tasks -> TaskStates]
BY DEF TaskTypes

LEMMA AskedType ==
  ASSUME UsageTypes, NEW q \in asked
  PROVE  q \in Requests /\ q.sig \in Sigs /\ q.task \in Tasks \cup {None} /\ q.seq \in Nat
BY DEF UsageTypes, Requests

LEMMA SwitchTypes ==
  ASSUME Types, NEW c \in Chats, Switch(c)
  PROVE  Types'
<1>1. ChatTypes' /\ UsageTypes'
  BY DEF Types, ChatTypes, UsageTypes, Switch, usageVars
<1>2. ASSUME NEW t \in Tasks PROVE [task[t] EXCEPT !.moved = TRUE] \in TaskStates
  BY DEF Types, TaskTypes, TaskStates
<1>3. TaskTypes'
  BY <1>2 DEF Switch, TaskTypes
<1> QED
  BY <1>1, <1>3 DEF Types

LEMMA CycleTypes ==
  ASSUME Types, CycleMode
  PROVE  Types'
<1>1. DOMAIN Modes = 1..3 /\ Range(Modes) = {Modes[1], Modes[2], Modes[3]}
  BY DEF Modes, Range
<1>2. PICK i \in 1..3 : mode[shown] = Modes[i]
  BY <1>1 DEF Types, ChatTypes
<1> DEFINE j == CHOOSE n \in DOMAIN Modes : Modes[n] = mode[shown]
<1>3. j \in 1..3
  BY <1>1, <1>2
<1> HIDE DEF j
<1>4. (j % 3) + 1 \in 1..3
  BY <1>3
<1>5. Len(Modes) = 3
  BY DEF Modes
<1>6. Modes[(j % Len(Modes)) + 1] \in Range(Modes)
  BY <1>1, <1>4, <1>5
<1>7. mode' = [mode EXCEPT ![shown] = Modes[(j % Len(Modes)) + 1]]
  BY DEF CycleMode, j
<1>8. mode' \in [Chats -> Range(Modes)]
  BY <1>6, <1>7 DEF Types, ChatTypes
<1> QED
  BY <1>8 DEF CycleMode, Types, ChatTypes, UsageTypes, TaskTypes, usageVars

LEMMA ResetTypes ==
  ASSUME Types, ResetLayers
  PROVE  Types'
<1>1. "auto" \in Range(Modes)
  <2>1. Modes[1] = "auto" /\ 1 \in DOMAIN Modes
    BY DEF Modes
  <2> QED
    BY <2>1 DEF Range
<1>2. NoOverride \in [history : Kept, moved : BOOLEAN]
  BY NothingIsKept DEF NoOverride
<1>3. mode' \in [Chats -> Range(Modes)] /\ override' \in [Chats -> [history : Kept, moved : BOOLEAN]]
  BY <1>1, <1>2 DEF ResetLayers, Types, ChatTypes
<1> QED
  BY <1>3 DEF ResetLayers, Types, ChatTypes, UsageTypes, TaskTypes, usageVars

LEMMA PrepareTypes ==
  ASSUME Types, NEW t \in Tasks, NEW due \in BOOLEAN, Prepare(t, due)
  PROVE  Types'
<1> DEFINE n == Len(said[shown]) + 1
           message == Number(shown, n)
<1>1. shown \in Chats /\ said[shown] \in Seq(Entries) /\ n \in Nat
  BY DEF Types, ChatTypes
<1>2. Entry(message, "user") \in Entries /\ message \in Nat
  BY <1>1, EntryType, NumberType DEF Roles
<1>3. Append(said[shown], Entry(message, "user")) \in Seq(Entries)
  BY <1>1, <1>2
<1>4. said' = [said EXCEPT ![shown] = Append(said[shown], Entry(message, "user"))]
      /\ Limits(t, "prepare", message, due)
  BY DEF Prepare
<1> HIDE DEF message
<1>5. said' \in [Chats -> Seq(Entries)]
  BY <1>3, <1>4 DEF Types, ChatTypes
<1>6. ChatTypes'
  BY <1>5 DEF Prepare, Types, ChatTypes
<1>7. UsageTypes' /\ TaskTypes'
  BY <1>2, <1>4, LimitsTypes DEF Prepare
<1> QED
  BY <1>6, <1>7 DEF Types

LEMMA CompressNowTypes ==
  ASSUME Types, NEW t \in Tasks, CompressNow(t)
  PROVE  Types'
<1>1. UsageTypes' /\ TaskTypes'
  BY LimitsTypes DEF CompressNow, None
<1> QED
  BY <1>1 DEF CompressNow, Types, ChatTypes, chatVars

LEMMA FetchedTypes ==
  ASSUME Types, Fetched
  PROVE  Types'
<1>1. ASSUME NEW t \in Tasks
      PROVE  task[t] \in TaskStates /\ [task[t] EXCEPT !.pc = "limited"] \in TaskStates
  BY DEF Types, TaskTypes, TaskStates, Phases
<1>2. TaskTypes'
  BY <1>1 DEF Fetched, TaskTypes
<1>3. loading' \in [limits : BOOLEAN, usage : BOOLEAN]
  <2>1. loading' = [loading EXCEPT !.limits = FALSE]
    BY DEF Fetched
  <2> QED
    BY <2>1 DEF Types, UsageTypes
<1>4. UsageTypes' /\ ChatTypes'
  BY <1>3 DEF Fetched, Types, UsageTypes, ChatTypes, chatVars, usageVars
<1> QED
  BY <1>2, <1>4 DEF Types

LEMMA AskUsageTypes ==
  ASSUME Types, NEW t \in Tasks, AskUsage(t)
  PROVE  Types'
<1>1. Sig(said[shown], FALSE, FALSE) \in Sigs
  BY HistoryIsKept DEF Types, ChatTypes, Sig, Sigs
<1>2. UsageTypes'
  BY <1>1, RequestTypes DEF AskUsage, Types
<1>3. [task[t] EXCEPT !.pc = "usage"] \in TaskStates
  BY DEF Types, TaskTypes, TaskStates, Phases, Waiting
<1>4. TaskTypes'
  BY <1>3 DEF Types, TaskTypes, AskUsage
<1> QED
  BY <1>2, <1>4 DEF Types, ChatTypes, AskUsage, chatVars

LEMMA RefreshTypes ==
  ASSUME Types, NEW force \in BOOLEAN, Refresh(force)
  PROVE  Types'
<1>1. UsageTypes'
  BY CurrentType, RequestTypes DEF Refresh, Types
<1> QED
  BY <1>1 DEF Types, ChatTypes, TaskTypes, Refresh, chatVars

LEMMA AnswerTypes ==
  ASSUME Types, NEW q \in asked, NEW how \in Answers, Answer(q, how)
  PROVE  Types'
<1>1. UsageTypes'
  BY KeptUsageType, SettleTypes DEF Answer, Types
<1> QED
  BY <1>1 DEF Types, ChatTypes, TaskTypes, Answer, chatVars

LEMMA CountedTypes ==
  ASSUME Types, NEW q \in asked, NEW how \in Answers, Counted(q, how)
  PROVE  Types'
<1>1. UsageTypes'
  BY KeptUsageType, SettleTypes DEF Counted, Types
<1> DEFINE t == q.task
           base == IF how = "unknown" THEN usage ELSE Got(q, how)
<1>2. t \in Tasks
  BY AskedType DEF Types, Counted
<1>3. base \in Usages
  BY KeptUsageType DEF Types, UsageTypes
<1>4. task' = [task EXCEPT ![t].pc = "counted", ![t].base = base]
  BY DEF Counted
<1> HIDE DEF t, base
<1>5. [task[t] EXCEPT !.pc = "counted", !.base = base] \in TaskStates
  BY <1>2, <1>3 DEF Types, TaskTypes, TaskStates, Phases
<1>6. task' = [task EXCEPT ![t] = [task[t] EXCEPT !.pc = "counted", !.base = base]]
  BY <1>2, <1>4 DEF Types, TaskTypes
<1>7. TaskTypes'
  BY <1>2, <1>5, <1>6 DEF Types, TaskTypes
<1> QED
  BY <1>1, <1>7 DEF Types, ChatTypes, Counted, chatVars

LEMMA DecideTypes ==
  ASSUME Types, NEW t \in Tasks, task[t].chat \in Chats, Decide(t)
  PROVE  Types'
<1> DEFINE forced == OverrideFor(t)
<1>1. forced.history \in Kept /\ forced.moved \in BOOLEAN
  BY DEF OverrideFor, Types, ChatTypes
<1>2. CASE UNCHANGED <<loading, usageVars>> /\ task' \in [Tasks -> TaskStates]
  BY <1>2 DEF Types, ChatTypes, UsageTypes, TaskTypes, Decide, chatVars, usageVars
<1>3. CASE /\ Request(Sig(forced.history, FALSE, FALSE), FALSE, t)
           /\ task' = [task EXCEPT ![t].pc = "forced", ![t].history = forced.history,
                                   ![t].moved = @ \/ forced.moved]
  <2>1. Sig(forced.history, FALSE, FALSE) \in Sigs
    BY <1>1 DEF Sig, Sigs
  <2>2. UsageTypes'
    BY <1>3, <2>1, RequestTypes DEF Types, Decide
  <2> HIDE DEF forced
  <2>3. task[t] \in TaskStates /\ task[t].moved \in BOOLEAN
    BY DEF Types, TaskTypes, TaskStates
  <2> DEFINE state == [task[t] EXCEPT !.pc = "forced", !.history = forced.history,
                                      !.moved = task[t].moved \/ forced.moved]
  <2>4. state \in TaskStates
    BY <1>1, <2>3 DEF TaskStates, Phases, Waiting
  <2>5. task' = [task EXCEPT ![t] = state]
    BY <1>3, <2>3 DEF Types, TaskTypes, TaskStates
  <2> HIDE DEF state
  <2>6. TaskTypes'
    BY <2>4, <2>5 DEF Types, TaskTypes
  <2> QED
    BY <2>2, <2>6 DEF Types, ChatTypes, Decide, chatVars
<1>4. Planned(t, <<>>) \in [Tasks -> TaskStates] /\ Compress(t) \in [Tasks -> TaskStates]
  BY PlannedType, NothingIsKept, CompressType DEF Types
<1> QED
  BY <1>2, <1>3, <1>4 DEF Decide

LEMMA ForcedTypes ==
  ASSUME Types, NEW q \in asked, NEW how \in Answers, Forced(q, how)
  PROVE  Types'
<1> DEFINE t == q.task
           less == how = "ok" /\ Tokens(Exact(q.sig)) < Tokens(task[t].base)
           left == IF less THEN Exact(q.sig) ELSE usage
<1>1. t \in Tasks /\ q.sig \in Sigs /\ q.sig.history \in Kept
  BY AskedType DEF Types, Forced, Sigs
<1>2. left \in Usages
  BY <1>1, ExactType DEF Types, UsageTypes
<1>3. Settle(q, how, left) /\ UNCHANGED fetching
  BY DEF Forced
<1>4. UsageTypes'
  <2> HIDE DEF left
  <2> QED
    BY <1>2, <1>3, SettleTypes DEF Types
<1>5. override' \in [Chats -> [history : Kept, moved : BOOLEAN]]
  <2>1. NoOverride \in [history : Kept, moved : BOOLEAN]
    BY NothingIsKept DEF NoOverride
  <2>2. override' = [override EXCEPT ![task[t].chat] = NoOverride]
    BY DEF Forced
  <2> QED
    BY <2>1, <2>2 DEF Types, ChatTypes
<1>6. ChatTypes'
  BY <1>5 DEF Forced, Types, ChatTypes, chatVars
<1>7. [Planned(t, q.sig.history) EXCEPT ![t].manual = TRUE] \in [Tasks -> TaskStates]
  <2> DEFINE planned == Planned(t, q.sig.history)
  <2>1. planned \in [Tasks -> TaskStates]
    BY <1>1, PlannedType DEF Types
  <2> HIDE DEF planned
  <2>2. [planned[t] EXCEPT !.manual = TRUE] \in TaskStates
    BY <1>1, <2>1 DEF TaskStates
  <2>3. [planned EXCEPT ![t].manual = TRUE] = [planned EXCEPT ![t] = [planned[t] EXCEPT !.manual = TRUE]]
    BY <1>1, <2>1
  <2> QED
    BY <1>1, <2>1, <2>2, <2>3 DEF planned
<1>8. Compress(t) \in [Tasks -> TaskStates]
  BY <1>1, CompressType
<1>9. task' = IF less THEN [Planned(t, q.sig.history) EXCEPT ![t].manual = TRUE] ELSE Compress(t)
  BY DEF Forced
<1> HIDE DEF less
<1>10. TaskTypes'
  BY <1>7, <1>8, <1>9 DEF TaskTypes
<1> QED
  BY <1>4, <1>6, <1>10 DEF Types

LEMMA ModelledTypes ==
  ASSUME Types, NEW t \in Tasks, NEW k \in Nat, Modelled(t, k)
  PROVE  Types'
<1>1. ChatTypes'
  BY DEF Modelled, Types, ChatTypes, chatVars
<1>2. CASE task' = Planned(t, <<>>) /\ UNCHANGED <<loading, usageVars>>
  <2>1. TaskTypes'
    BY <1>2, PlannedType, NothingIsKept DEF Types, TaskTypes
  <2> QED
    BY <1>1, <1>2, <2>1 DEF Modelled, Types, UsageTypes, usageVars
<1>3. CASE /\ Request(Sig(task[t].history, FALSE, TRUE), FALSE, t)
           /\ task' = [task EXCEPT ![t].pc = "variants", ![t].offer = k]
  <2>1. Sig(task[t].history, FALSE, TRUE) \in Sigs
    BY DEF Types, TaskTypes, TaskStates, Sig, Sigs
  <2>2. UsageTypes'
    BY <1>3, <2>1, RequestTypes DEF Types, Modelled
  <2>3. [task[t] EXCEPT !.pc = "variants", !.offer = k] \in TaskStates
    BY DEF Types, TaskTypes, TaskStates, Phases, Waiting
  <2>4. task' = [task EXCEPT ![t] = [task[t] EXCEPT !.pc = "variants", !.offer = k]]
    BY <1>3 DEF Types, TaskTypes
  <2>5. TaskTypes'
    BY <2>3, <2>4 DEF Types, TaskTypes
  <2> QED
    BY <1>1, <2>2, <2>5 DEF Types
<1> QED
  BY <1>2, <1>3 DEF Modelled

\* What Compared makes the best.
BestFor(t, how) ==
  IF how = "ok" THEN Compressed(Count, task[t].history, task[t].offer, Tokens(task[t].base))
  ELSE <<>>

LEMMA BestForShape ==
  ASSUME NEW t \in Tasks, NEW how, task[t].history \in Seq(Entries),
         task[t].offer \in Offers(task[t].history)
  PROVE  BestFor(t, how) = <<>> \/ BestFor(t, how) \in Shapes(task[t].history)
<1> DEFINE h == task[t].history
           k == task[t].offer
           used == Tokens(task[t].base)
           p == Compressed(Count, h, k, used)
<1>1. h \in Seq(Entries) /\ k \in Offers(h)
  OBVIOUS
<1>2. p = Compressed(Count, h, k, used)
  OBVIOUS
<1>3. BestFor(t, how) \in {p, <<>>}
  BY DEF BestFor
<1> HIDE DEF h, k, used, p
<1>4. p # <<>> => p \in Shapes(h)
  BY <1>1, <1>2, BestIsShape
<1> QED
  BY <1>3, <1>4 DEF h

LEMMA ComparedTypes ==
  ASSUME Types, NEW q \in asked, NEW how \in Answers, Compared(q, how),
         task[q.task].history \in Seq(Entries),
         task[q.task].offer \in Offers(task[q.task].history)
  PROVE  Types'
<1> DEFINE t == q.task
           best == BestFor(t, how)
           left == IF best = <<>> THEN usage ELSE Exact(Sig(best, FALSE, FALSE))
<1>1. t \in Tasks
  BY AskedType DEF Types, Compared
<1>2. best \in Kept
  BY <1>1, BestForShape, ShapeIsKept, NothingIsKept
<1>3. /\ Settle(q, how, left) /\ UNCHANGED <<chatVars, fetching>>
      /\ \/ task' = Planned(t, best) /\ UNCHANGED override
         \/ /\ task' = [task EXCEPT ![t] = Resting]
            /\ override' = IF best = <<>> THEN override
                           ELSE [override EXCEPT ![task[t].chat] =
                                   [history |-> best, moved |-> task[t].moved]]
  BY DEF Compared, BestFor
<1> HIDE DEF best
<1>4. left \in Usages
  <2>1. Sig(best, FALSE, FALSE) \in Sigs
    BY <1>2 DEF Sig, Sigs
  <2> QED
    BY <2>1, ExactType DEF Types, UsageTypes
<1> HIDE DEF left
<1>5. UsageTypes'
  BY <1>3, <1>4, SettleTypes DEF Types
<1>6. [history |-> best, moved |-> task[t].moved] \in [history : Kept, moved : BOOLEAN]
  BY <1>1, <1>2 DEF Types, TaskTypes, TaskStates
<1> HIDE DEF t
<1>7. override' \in [Chats -> [history : Kept, moved : BOOLEAN]]
  BY <1>3, <1>6 DEF Types, ChatTypes
<1>8. ChatTypes'
  BY <1>3, <1>7 DEF Types, ChatTypes, chatVars
<1>9. TaskTypes'
  BY <1>1, <1>2, <1>3, PlannedType, RestingType DEF Types, TaskTypes
<1> QED
  BY <1>5, <1>8, <1>9 DEF Types

LEMMA SentTypes ==
  ASSUME Types, NEW t \in Tasks, task[t].chat \in Chats, Sent(t)
  PROVE  Types'
<1> DEFINE c == task[t].chat
           e == Entry(Number(c, Len(said[c]) + 1), "assistant")
<1>1. said[c] \in Seq(Entries) /\ Len(said[c]) + 1 \in Nat
  BY DEF Types, ChatTypes
<1>2. e \in Entries
  BY <1>1, EntryType DEF Roles
<1>3. said' = said \/ said' = [said EXCEPT ![c] = Append(said[c], e)]
  BY DEF Sent
<1> HIDE DEF e
<1>4. Append(said[c], e) \in Seq(Entries)
  BY <1>1, <1>2
<1> HIDE DEF c
<1>5. said' \in [Chats -> Seq(Entries)]
  BY <1>3, <1>4 DEF Types, ChatTypes
<1>6. TaskTypes'
  BY RestingType DEF Sent, Types, TaskTypes
<1> QED
  BY <1>5, <1>6 DEF Sent, Types, ChatTypes, UsageTypes, usageVars

LEMMA TypesStart == GuardInit => Types
<1> SUFFICES ASSUME GuardInit PROVE Types
  OBVIOUS
<1>1. "auto" \in Range(Modes)
  <2>1. Modes[1] = "auto" /\ 1 \in DOMAIN Modes
    BY DEF Modes
  <2> QED
    BY <2>1 DEF Range
<1>2. NoOverride \in [history : Kept, moved : BOOLEAN]
  BY NothingIsKept DEF NoOverride
<1>3. ChatTypes
  BY <1>1, <1>2, GuardAssumption DEF GuardInit, ChatTypes
<1>4. UsageTypes
  BY NoSigType DEF GuardInit, UsageTypes, None
<1>5. TaskTypes
  BY RestingType DEF GuardInit, TaskTypes
<1> QED
  BY <1>3, <1>4, <1>5 DEF Types

--------------------------------------------------------------------------------
(* The indicator, and the usage that is kept.                                  *)

LEMMA BusyAsked ==
  ASSUME LoadingMeansWaiting, UsageTypes, NEW sig, NEW apply, NEW t,
         Request(sig, apply, t), UNCHANGED fetching
  PROVE  LoadingMeansWaiting'
<1> DEFINE q == [seq |-> seq + 1, sig |-> sig, apply |-> apply, task |-> t]
<1>1. q \in asked' /\ q.seq = seq'
  BY DEF Request
<1>2. loading'.limits = loading.limits
  BY DEF Request, UsageTypes
<1> QED
  BY <1>1, <1>2 DEF LoadingMeansWaiting

LEMMA BusySettled ==
  ASSUME LoadingMeansWaiting, UsageTypes, NEW q \in asked, NEW how, NEW left,
         Settle(q, how, left), UNCHANGED fetching
  PROVE  LoadingMeansWaiting'
<1>1. CASE q.seq = seq
  <2>1. loading' = [loading EXCEPT !.usage = FALSE]
    BY <1>1 DEF Settle, IdleAfter
  <2>2. loading'.limits = loading.limits /\ loading'.usage = FALSE
    BY <2>1 DEF UsageTypes
  <2> QED
    BY <2>2 DEF LoadingMeansWaiting
<1>2. CASE q.seq # seq
  <2>1. loading' = loading /\ seq' = seq /\ asked' = asked \ {q}
    BY <1>2 DEF Settle, IdleAfter
  <2> QED
    BY <1>2, <2>1 DEF LoadingMeansWaiting
<1> QED
  BY <1>1, <1>2

\* The usage is that of what was asked last, unless the last answer was a late one or
\* one for a task.
LastIsKept == usage.exact /\ ~late => usage.sig = lastSig

\* Requests have numbers of their own, and the one that others may wait for is under way.
SharedInv ==
  /\ \A q \in asked : q.seq <= seq
  /\ \A q, r \in asked : q.seq = r.seq => q = r
  /\ shared.seq # None /\ ~shared.sig.variants =>
       \E q \in asked : q.seq = shared.seq /\ q.sig = shared.sig

\* What the callers of requestExactUsage leave after an answer to the latest request
\* that was the indicator's own, and after a failure.
Leaves(q, how, left) ==
  /\ how = "ok" /\ q.apply => left = Exact(q.sig)
  /\ how # "ok" => left = usage \/ ~left.exact

LEMMA KeptUsageLeaves ==
  ASSUME UsageTypes, NEW q \in asked, NEW how \in Answers
  PROVE  Leaves(q, how, KeptUsage(q, how))
<1>1. CASE how = "ok"
  BY <1>1 DEF Leaves, KeptUsage
<1>2. CASE how = "failed"
  BY <1>2 DEF Leaves, KeptUsage, Got, Empty
<1>3. CASE how = "unknown"
  BY <1>3 DEF Leaves, KeptUsage, Empty
<1> QED
  BY <1>1, <1>2, <1>3 DEF Answers

LEMMA KeptSettled ==
  ASSUME LastIsKept, UsageTypes, NEW q \in asked, NEW how, NEW left \in Usages,
         Settle(q, how, left), Leaves(q, how, left)
  PROVE  LastIsKept'
<1>1. usage' = left
  BY DEF Settle
<1>2. CASE how = "ok"
  <2>1. late' = (q.seq # seq \/ ~q.apply)
    BY <1>2 DEF Settle
  <2>2. q.seq = seq => lastSig' = q.sig
    BY <1>2 DEF Settle, Remembered
  <2>3. Exact(q.sig).sig = q.sig
    BY DEF Exact
  <2> QED
    BY <1>1, <1>2, <2>1, <2>2, <2>3 DEF LastIsKept, Leaves
<1>3. CASE how # "ok"
  <2>1. lastSig' = lastSig /\ late' = late
    BY <1>3 DEF Settle, Remembered
  <2> QED
    BY <1>1, <1>3, <2>1 DEF LastIsKept, Leaves
<1> QED
  BY <1>2, <1>3

LEMMA SharedAsked ==
  ASSUME SharedInv, UsageTypes, NEW sig \in Sigs, NEW apply, NEW t, Request(sig, apply, t)
  PROVE  SharedInv'
<1> DEFINE new == [seq |-> seq + 1, sig |-> sig, apply |-> apply, task |-> t]
<1>1. asked' = asked \cup {new} /\ seq' = seq + 1 /\ new.seq = seq + 1 /\ new.sig = sig
  BY DEF Request
<1>2. shared' = [seq |-> IF sig.variants THEN shared.seq ELSE seq + 1, sig |-> sig]
  BY DEF Request
<1> HIDE DEF new
<1>3. seq \in Nat /\ \A q \in asked : q.seq \in Nat /\ q.seq <= seq
  BY DEF SharedInv, UsageTypes, Requests
<1>4. \A q \in asked' : q.seq <= seq'
  BY <1>1, <1>3
<1>5. \A q, r \in asked' : q.seq = r.seq => q = r
  BY <1>1, <1>3 DEF SharedInv
<1>6. ~shared'.sig.variants => shared'.seq = new.seq /\ shared'.sig = new.sig
  BY <1>1, <1>2
<1> QED
  BY <1>1, <1>4, <1>5, <1>6 DEF SharedInv

LEMMA SharedSettled ==
  ASSUME SharedInv, UsageTypes, NEW q \in asked, NEW how, NEW left, Settle(q, how, left)
  PROVE  SharedInv'
<1>1. asked' = asked \ {q} /\ seq' = seq
  BY DEF Settle
<1>2. shared' = [shared EXCEPT !.seq = IF @ = q.seq /\ ~q.sig.variants THEN None ELSE @]
  BY DEF Settle
<1>3. /\ shared'.sig = shared.sig
      /\ shared'.seq # None => shared'.seq = shared.seq
                               /\ ~(shared.seq = q.seq /\ ~q.sig.variants)
  BY <1>2 DEF UsageTypes, None
<1>4. ASSUME shared'.seq # None, ~shared'.sig.variants
      PROVE  \E r \in asked' : r.seq = shared'.seq /\ r.sig = shared'.sig
  <2>1. PICK r \in asked : r.seq = shared.seq /\ r.sig = shared.sig
    BY <1>3, <1>4 DEF SharedInv
  <2>2. r # q
    BY <1>3, <1>4, <2>1
  <2> QED
    BY <1>1, <1>3, <1>4, <2>1, <2>2
<1> QED
  BY <1>1, <1>4 DEF SharedInv

LEMMA KeptFits == LastIsKept /\ SharedInv => CachedUsageFits
<1> SUFFICES ASSUME LastIsKept, SharedInv PROVE CachedUsageFits
  OBVIOUS
<1>1. Current.variants = FALSE
  BY DEF Current, Sig
<1>2. lastSig = Current /\ usage.exact /\ ~late => usage.sig = Current
  BY DEF LastIsKept
<1>3. shared.seq # None /\ shared.sig = Current =>
        \E q \in asked : q.seq = shared.seq /\ q.sig = Current
  BY <1>1 DEF SharedInv
<1> QED
  BY <1>2, <1>3 DEF CachedUsageFits

IndicatorInv == LoadingMeansWaiting /\ LastIsKept /\ SharedInv

LEMMA IndicatorAsked ==
  ASSUME IndicatorInv, UsageTypes, NEW sig \in Sigs, NEW apply, NEW t,
         Request(sig, apply, t), UNCHANGED fetching
  PROVE  IndicatorInv'
<1>1. LoadingMeansWaiting'
  BY BusyAsked DEF IndicatorInv
<1>2. SharedInv'
  BY SharedAsked DEF IndicatorInv
<1> QED
  BY <1>1, <1>2 DEF IndicatorInv, LastIsKept, Request

LEMMA IndicatorSettled ==
  ASSUME IndicatorInv, UsageTypes, NEW q \in asked, NEW how, NEW left \in Usages,
         Settle(q, how, left), Leaves(q, how, left), UNCHANGED fetching
  PROVE  IndicatorInv'
BY BusySettled, KeptSettled, SharedSettled DEF IndicatorInv

LEMMA IndicatorAside ==
  ASSUME IndicatorInv, UNCHANGED <<fetching, loading, usageVars>>
  PROVE  IndicatorInv'
BY DEF IndicatorInv, LoadingMeansWaiting, LastIsKept, SharedInv, usageVars

LEMMA IndicatorLimits ==
  ASSUME IndicatorInv, UsageTypes, NEW t, NEW kind, NEW message, NEW due,
         Limits(t, kind, message, due), UNCHANGED usageVars
  PROVE  IndicatorInv'
<1>1. loading'.limits = due /\ loading'.usage = loading.usage
  BY DEF Limits, UsageTypes
<1> QED
  BY <1>1 DEF Limits, IndicatorInv, LoadingMeansWaiting, LastIsKept, SharedInv, usageVars

LEMMA IndicatorFetched ==
  ASSUME IndicatorInv, UsageTypes, Fetched
  PROVE  IndicatorInv'
<1>1. loading'.limits = FALSE /\ loading'.usage = loading.usage
  BY DEF Fetched, UsageTypes
<1> QED
  BY <1>1 DEF Fetched, IndicatorInv, LoadingMeansWaiting, LastIsKept, SharedInv, usageVars

--------------------------------------------------------------------------------
(* Requests and the tasks that wait for them.                                  *)

\* A request of a compressed history is not the indicator's own, and one of the history
\* that the user had compressed is for what the task has.
Serves(q, p) ==
  /\ p.pc = "forced" => q.sig.history = p.history
  /\ p.pc \in {"forced", "variants"} => ~q.apply

Matched ==
  /\ GuardTypeOK
  /\ \A q \in asked : q.task # None => Serves(q, task[q.task])

\* Nothing that Matched says of a task changes.
WaitsAsBefore(t) ==
  /\ task'[t].pc \in Waiting <=> task[t].pc \in Waiting
  /\ task[t].pc \in Waiting =>
       task'[t].pc = task[t].pc /\ task'[t].history = task[t].history

LEMMA ServesStill ==
  ASSUME NEW q, NEW t, Serves(q, task[t]), WaitsAsBefore(t)
  PROVE  Serves(q, task'[t])
BY DEF Serves, WaitsAsBefore, Waiting

LEMMA MatchedAside ==
  ASSUME Matched, \A t \in Tasks : WaitsAsBefore(t), UNCHANGED <<asked, seq>>
  PROVE  Matched'
<1>1. GuardTypeOK'
  BY DEF Matched, GuardTypeOK, WaitsAsBefore
<1>2. ASSUME NEW q \in asked', q.task # None
      PROVE  Serves(q, task'[q.task])
  <2>1. q \in asked /\ q.task \in Tasks
    BY <1>2 DEF Matched, GuardTypeOK
  <2>2. Serves(q, task[q.task]) /\ WaitsAsBefore(q.task)
    BY <1>2, <2>1 DEF Matched
  <2> QED
    BY <2>2, ServesStill
<1> QED
  BY <1>1, <1>2 DEF Matched

LEMMA MatchedAsked ==
  ASSUME Matched, Types, NEW sig, NEW apply, NEW t \in Tasks \cup {None}, Request(sig, apply, t),
         \A u \in Tasks : u # t => WaitsAsBefore(u),
         t # None => /\ task[t].pc \notin Waiting /\ task'[t].pc \in Waiting
                     /\ task'[t].pc = "forced" => task'[t].history = sig.history
                     /\ task'[t].pc \in {"forced", "variants"} => ~apply
  PROVE  Matched'
<1> DEFINE new == [seq |-> seq + 1, sig |-> sig, apply |-> apply, task |-> t]
<1>1. asked' = asked \cup {new} /\ seq' = seq + 1 /\ seq \in Nat
  BY DEF Request, Types, UsageTypes
<1>2. new.seq = seq + 1 /\ new.task = t /\ new.sig = sig /\ new.apply = apply
  OBVIOUS
<1> HIDE DEF new
<1>3. None \notin Tasks
  BY GuardAssumption
<1>4. \A q \in asked : q.seq \in 1..seq /\ q.task \in Tasks \cup {None}
  BY DEF Matched, GuardTypeOK
<1>5. \A q \in asked : q.task = t => t = None
  BY <1>3, <1>4 DEF Matched, GuardTypeOK
<1>6. \A q \in asked' : q.seq \in 1..seq' /\ q.task \in Tasks \cup {None}
  BY <1>1, <1>2, <1>4
<1>7. \A u \in Tasks : task'[u].pc \in Waiting <=> \E q \in asked' : q.task = u
  <2> TAKE u \in Tasks
  <2>1. CASE u = t
    BY <1>1, <1>2, <1>3, <2>1
  <2>2. CASE u # t
    <3>1. task[u].pc \in Waiting <=> \E q \in asked : q.task = u
      BY DEF Matched, GuardTypeOK
    <3>2. task'[u].pc \in Waiting <=> task[u].pc \in Waiting
      BY <2>2 DEF WaitsAsBefore
    <3> QED
      BY <1>1, <1>2, <2>2, <3>1, <3>2
  <2> QED
    BY <2>1, <2>2
<1>8. \A q, r \in asked' : q.task = r.task /\ q.task # None => q = r
  <2>1. \A q, r \in asked : q.task = r.task /\ q.task # None => q = r
    BY DEF Matched, GuardTypeOK
  <2> QED
    BY <1>1, <1>2, <1>5, <2>1
<1>9. ASSUME NEW q \in asked', q.task # None
      PROVE  Serves(q, task'[q.task])
  <2>1. CASE q = new
    BY <1>2, <1>9, <2>1 DEF Serves
  <2>2. CASE q \in asked
    <3>1. q.task \in Tasks /\ q.task # t
      BY <1>4, <1>5, <1>9, <2>2
    <3>2. Serves(q, task[q.task]) /\ WaitsAsBefore(q.task)
      BY <1>9, <2>2, <3>1 DEF Matched
    <3> QED
      BY <3>2, ServesStill
  <2> QED
    BY <1>1, <2>1, <2>2
<1> QED
  BY <1>6, <1>7, <1>8, <1>9 DEF Matched, GuardTypeOK

LEMMA MatchedSettled ==
  ASSUME Matched, NEW q \in asked, NEW how, NEW left, Settle(q, how, left),
         \A u \in Tasks : u # q.task => WaitsAsBefore(u),
         q.task # None => task'[q.task].pc \notin Waiting
  PROVE  Matched'
<1>1. asked' = asked \ {q} /\ seq' = seq
  BY DEF Settle
<1>2. None \notin Tasks
  BY GuardAssumption
<1>3. \A r \in asked' : r.seq \in 1..seq' /\ r.task \in Tasks \cup {None}
  BY <1>1 DEF Matched, GuardTypeOK
<1>4. \A r \in asked' : r.task = q.task => r.task = None
  BY <1>1 DEF Matched, GuardTypeOK
<1>5. \A u \in Tasks : task'[u].pc \in Waiting <=> \E r \in asked' : r.task = u
  <2> TAKE u \in Tasks
  <2>1. CASE u = q.task
    BY <1>2, <1>4, <2>1
  <2>2. CASE u # q.task
    <3>1. task[u].pc \in Waiting <=> \E r \in asked : r.task = u
      BY DEF Matched, GuardTypeOK
    <3>2. task'[u].pc \in Waiting <=> task[u].pc \in Waiting
      BY <2>2 DEF WaitsAsBefore
    <3> QED
      BY <1>1, <2>2, <3>1, <3>2
  <2> QED
    BY <2>1, <2>2
<1>6. \A r, s \in asked' : r.task = s.task /\ r.task # None => r = s
  BY <1>1 DEF Matched, GuardTypeOK
<1>7. ASSUME NEW r \in asked', r.task # None
      PROVE  Serves(r, task'[r.task])
  <2>1. r \in asked /\ r.task \in Tasks /\ r.task # q.task
    BY <1>1, <1>3, <1>4, <1>7
  <2>2. Serves(r, task[r.task]) /\ WaitsAsBefore(r.task)
    BY <1>7, <2>1 DEF Matched
  <2> QED
    BY <2>2, ServesStill
<1> QED
  BY <1>3, <1>5, <1>6, <1>7 DEF Matched, GuardTypeOK

--------------------------------------------------------------------------------
(* What the tasks hold.                                                        *)

\* The messages of a chat bear its numbers, in order.
Numbered ==
  \A c \in Chats : /\ Len(said[c]) <= MaxSaid
                   /\ \A i \in DOMAIN said[c] : said[c][i].id = Number(c, i)

OverridesOwn == \A c \in Chats : ~override[c].moved => ~Foreign(override[c].history, c)

\* A task reads the chat that is shown, which is its own unless it is moved.
Reads(t) ==
  /\ task[t].pc # "idle" => /\ task[t].chat \in Chats
                            /\ task[t].moved \/ task[t].chat = shown
  /\ task[t].pc \in {"model", "variants"} => task[t].history \in Seq(Entries)
  /\ task[t].pc = "variants" => task[t].offer \in Offers(task[t].history)
  /\ ~task[t].moved => /\ ~Foreign(task[t].history, task[t].chat)
                       /\ ~Foreign(task[t].plan, task[t].chat)

\* Nothing was said in the chat of a task after its message.
Quiet(t) == Last(said[task[t].chat]).id = task[t].message

\* The message of a task is in its chat.  While it is the last one there, the history
\* that the task read ends in it, and the plan has it.
Follows(t) ==
  /\ task[t].pc = "forced" => task[t].kind = "prepare"
  /\ task[t].plan # <<>> => task[t].pc = "done" /\ task[t].kind = "prepare"
  /\ task[t].pc # "idle" /\ task[t].kind = "prepare" =>
       \E n \in DOMAIN said[task[t].chat] :
         said[task[t].chat][n] = Entry(task[t].message, "user")
  /\ /\ task[t].pc \in {"model", "variants"} /\ task[t].kind = "prepare"
     /\ ~task[t].moved /\ Quiet(t)
     => task[t].history # <<>> /\ Last(task[t].history) = Entry(task[t].message, "user")
  /\ task[t].plan # <<>> /\ ~task[t].moved /\ ~task[t].manual /\ Quiet(t)
     => task[t].message \in IdsOf(task[t].plan)

Holds(t) == Reads(t) /\ Follows(t)

GuardInv ==
  /\ Types /\ IndicatorInv /\ Matched /\ Numbered /\ OverridesOwn
  /\ \A t \in Tasks : Holds(t)

\* What was said in a chat is its own.
LEMMA SaidIsOwn ==
  ASSUME Types, Numbered, NEW c \in Chats
  PROVE  ~Foreign(said[c], c)
<1>1. ASSUME NEW i \in DOMAIN said[c] PROVE said[c][i].id \in Numbers(c)
  <2>1. said[c] \in Seq(Entries) /\ Len(said[c]) <= MaxSaid /\ MaxSaid \in Nat
    BY GuardAssumption DEF Types, ChatTypes, Numbered
  <2>2. i \in 1..MaxSaid
    BY <2>1
  <2>3. said[c][i].id = Number(c, i)
    BY DEF Numbered
  <2> QED
    BY <2>2, <2>3 DEF Numbers
<1> QED
  BY <1>1 DEF Foreign

\* While nothing was said after the message of a task, the chat ends in it.
LEMMA QuietEnds ==
  ASSUME Types, Numbered, NEW t \in Tasks, Holds(t), task[t].pc # "idle",
         task[t].kind = "prepare", Quiet(t)
  PROVE  /\ said[task[t].chat] # <<>>
         /\ Last(said[task[t].chat]) = Entry(task[t].message, "user")
<1> DEFINE c == task[t].chat
           h == said[c]
           m == task[t].message
<1>1. c \in Chats /\ h \in Seq(Entries)
  BY DEF Holds, Reads, Types, ChatTypes
<1>2. PICK n \in DOMAIN h : h[n] = Entry(m, "user")
  BY DEF Holds, Follows
<1>3. \A i \in DOMAIN h : h[i].id = Number(c, i)
  BY <1>1 DEF Numbered
<1>4. Last(h).id = m
  BY DEF Quiet
<1> HIDE DEF c, h, m
<1>5. n \in 1..Len(h) /\ Len(h) \in 1..Len(h) /\ Len(h) \in Nat /\ n \in Nat /\ DOMAIN h = 1..Len(h)
  BY <1>1, <1>2
<1>6. Entry(m, "user").id = m
  BY DEF Entry
<1>7. Number(c, Len(h)) = Number(c, n)
  BY <1>2, <1>3, <1>4, <1>5, <1>6 DEF Last
<1>8. n = Len(h)
  BY <1>1, <1>5, <1>7, NumberOnce
<1>9. h # <<>> /\ Last(h) = Entry(m, "user")
  BY <1>1, <1>2, <1>5, <1>8 DEF Last
<1> QED
  BY <1>9 DEF c, h, m

\* One more is said in a chat.
SaysMore(c, role) ==
  /\ c \in Chats /\ Len(said[c]) < MaxSaid /\ role \in Roles
  /\ said' = [said EXCEPT ![c] = Append(said[c], Entry(Number(c, Len(said[c]) + 1), role))]

LEMMA SaysMoreAt ==
  ASSUME Types, NEW c \in Chats, NEW role, SaysMore(c, role)
  PROVE  /\ said'[c] \in Seq(Entries) /\ Len(said'[c]) = Len(said[c]) + 1
         /\ DOMAIN said[c] = 1..Len(said[c]) /\ DOMAIN said'[c] = 1..(Len(said[c]) + 1)
         /\ Len(said[c]) \in Nat
         /\ \A i \in 1..Len(said[c]) : said'[c][i] = said[c][i]
         /\ said'[c][Len(said[c]) + 1] = Entry(Number(c, Len(said[c]) + 1), role)
         /\ \A d \in Chats : d # c => said'[d] = said[d]
<1> DEFINE h == said[c]
           e == Entry(Number(c, Len(h) + 1), role)
<1>1. h \in Seq(Entries) /\ Len(h) + 1 \in Nat /\ Len(h) \in Nat
  BY DEF Types, ChatTypes
<1>2. e \in Entries
  BY <1>1, EntryType DEF SaysMore
<1>3. said' = [said EXCEPT ![c] = Append(h, e)]
  BY DEF SaysMore
<1>4. said'[c] = Append(h, e) /\ \A d \in Chats : d # c => said'[d] = said[d]
  BY <1>3 DEF Types, ChatTypes
<1> HIDE DEF e, h
<1>5. /\ Append(h, e) \in Seq(Entries) /\ Len(Append(h, e)) = Len(h) + 1
      /\ DOMAIN h = 1..Len(h) /\ DOMAIN Append(h, e) = 1..(Len(h) + 1)
      /\ \A i \in 1..Len(h) : Append(h, e)[i] = h[i]
      /\ Append(h, e)[Len(h) + 1] = e
  BY <1>1, <1>2
<1> QED
  BY <1>1, <1>4, <1>5 DEF h, e

LEMMA SaysMoreNumbered ==
  ASSUME Types, Numbered, NEW c \in Chats, NEW role, SaysMore(c, role)
  PROVE  Numbered'
<1> SUFFICES ASSUME NEW d \in Chats
             PROVE  /\ Len(said'[d]) <= MaxSaid
                    /\ \A i \in DOMAIN said'[d] : said'[d][i].id = Number(d, i)
  BY DEF Numbered
<1>1. CASE d # c
  <2>1. said'[d] = said[d]
    BY <1>1, SaysMoreAt
  <2> QED
    BY <2>1 DEF Numbered
<1>2. CASE d = c
  <2>1. MaxSaid \in Nat /\ Len(said[c]) < MaxSaid
    BY GuardAssumption DEF SaysMore
  <2>2. /\ Len(said'[c]) = Len(said[c]) + 1 /\ Len(said[c]) \in Nat
        /\ DOMAIN said[c] = 1..Len(said[c]) /\ DOMAIN said'[c] = 1..(Len(said[c]) + 1)
        /\ \A i \in 1..Len(said[c]) : said'[c][i] = said[c][i]
        /\ said'[c][Len(said[c]) + 1] = Entry(Number(c, Len(said[c]) + 1), role)
    BY SaysMoreAt
  <2>3. \A i \in 1..Len(said[c]) : said[c][i].id = Number(c, i)
    BY <2>2 DEF Numbered
  <2>4. said'[c][Len(said[c]) + 1].id = Number(c, Len(said[c]) + 1)
    BY <2>2 DEF Entry
  <2>5. \A i \in DOMAIN said'[c] : i \in 1..Len(said[c]) \/ i = Len(said[c]) + 1
    BY <2>2
  <2>6. \A i \in DOMAIN said'[c] : said'[c][i].id = Number(c, i)
    BY <2>2, <2>3, <2>4, <2>5
  <2>7. Len(said'[c]) <= MaxSaid
    BY <2>1, <2>2
  <2> QED
    BY <1>2, <2>6, <2>7
<1> QED
  BY <1>1, <1>2

LEMMA HoldsStill ==
  ASSUME NEW t \in Tasks, Holds(t), task'[t] = task[t], UNCHANGED <<shown, said>>
  PROVE  Holds(t)'
BY DEF Holds, Reads, Follows, Quiet

\* What others say keeps what a task holds: its message is not the last one then.
LEMMA HoldsWhileOthersSay ==
  ASSUME Types, Numbered, NEW t \in Tasks, Holds(t), task'[t] = task[t], shown' = shown,
         NEW c \in Chats, NEW role, SaysMore(c, role)
  PROVE  Holds(t)'
<1>1. CASE task[t].chat = c /\ task[t].pc # "idle" /\ task[t].kind = "prepare"
  <2> DEFINE h == said[c]
             m == task[t].message
  <2>1. PICK n \in DOMAIN h : h[n] = Entry(m, "user")
    BY <1>1 DEF Holds, Follows
  <2>2. /\ Len(said'[c]) = Len(h) + 1 /\ Len(h) \in Nat
        /\ DOMAIN h = 1..Len(h) /\ DOMAIN said'[c] = 1..(Len(h) + 1)
        /\ \A i \in 1..Len(h) : said'[c][i] = h[i]
        /\ said'[c][Len(h) + 1] = Entry(Number(c, Len(h) + 1), role)
    BY SaysMoreAt
  <2>3. m = Number(c, n)
    BY <2>1 DEF Numbered, Entry
  <2>4. n \in Nat /\ Len(h) + 1 \in Nat /\ n # Len(h) + 1
    BY <2>1, <2>2
  <2>5. Last(said'[c]).id = Number(c, Len(h) + 1)
    BY <2>2 DEF Last, Entry
  <2>6. Last(said'[c]).id # m
    BY <2>3, <2>4, <2>5, NumberOnce
  <2>7. n \in DOMAIN said'[c] /\ said'[c][n] = Entry(m, "user")
    BY <2>1, <2>2
  <2> HIDE DEF h
  <2>8. ~Quiet(t)'
    BY <1>1, <2>6 DEF Quiet
  <2>9. Reads(t)'
    BY DEF Holds, Reads
  <2>10. Follows(t)'
    BY <1>1, <2>7, <2>8 DEF Holds, Follows
  <2> QED
    BY <2>9, <2>10 DEF Holds
<1>2. CASE task[t].chat # c /\ task[t].pc # "idle"
  <2>1. task[t].chat \in Chats
    BY <1>2 DEF Holds, Reads
  <2>2. said'[task[t].chat] = said[task[t].chat]
    BY <1>2, <2>1, SaysMoreAt
  <2> QED
    BY <2>2 DEF Holds, Reads, Follows, Quiet
<1>3. CASE task[t].pc = "idle" \/ task[t].kind # "prepare"
  <2>1. task[t].plan = <<>>
    BY <1>3 DEF Holds, Follows
  <2> QED
    BY <1>3, <2>1 DEF Holds, Reads, Follows
<1> QED
  BY <1>1, <1>2, <1>3

LEMMA HoldsResting ==
  ASSUME NEW t \in Tasks, task'[t] = Resting
  PROVE  Holds(t)'
BY NothingIsOwn DEF Resting, Holds, Reads, Follows

\* A task that only waits for something else.
Early == {"limits", "limited", "usage", "counted"}
SameTask(a, b) ==
  /\ a.kind = b.kind /\ a.chat = b.chat /\ a.message = b.message /\ a.history = b.history
  /\ a.plan = b.plan /\ a.moved = b.moved /\ a.manual = b.manual

LEMMA HoldsEarly ==
  ASSUME NEW t \in Tasks, Holds(t), SameTask(task'[t], task[t]), UNCHANGED <<shown, said>>,
         task[t].pc \in Early, task'[t].pc \in Early
  PROVE  Holds(t)'
<1>1. task[t].plan = <<>>
  BY DEF Holds, Follows, Early
<1>2. task'[t].plan = <<>>
  BY <1>1 DEF SameTask
<1>3. Reads(t)'
  BY DEF Holds, Reads, SameTask, Early
<1>4. Follows(t)'
  BY <1>2 DEF Holds, Follows, SameTask, Early
<1> QED
  BY <1>3, <1>4 DEF Holds

LEMMA HoldsMoved ==
  ASSUME Types, NEW t \in Tasks, Holds(t), task'[t] = [task[t] EXCEPT !.moved = TRUE], said' = said
  PROVE  Holds(t)'
<1>1. /\ task'[t].moved = TRUE /\ task'[t].pc = task[t].pc /\ task'[t].chat = task[t].chat
      /\ task'[t].kind = task[t].kind /\ task'[t].message = task[t].message
      /\ task'[t].history = task[t].history /\ task'[t].plan = task[t].plan
      /\ task'[t].offer = task[t].offer
  BY DEF Types, TaskTypes, TaskStates
<1> QED
  BY <1>1 DEF Holds, Reads, Follows

\* No plan: the chat's history is sent.
LEMMA HoldsPlanless ==
  ASSUME Types, NEW t \in Tasks, Holds(t), task' = Planned(t, <<>>), task[t].pc # "idle",
         UNCHANGED <<shown, said>>
  PROVE  Holds(t)'
<1>1. /\ task'[t].pc = "done" /\ task'[t].plan = <<>> /\ task'[t].chat = task[t].chat
      /\ task'[t].kind = task[t].kind /\ task'[t].message = task[t].message
      /\ task'[t].history = task[t].history /\ task'[t].moved = task[t].moved
  BY DEF Types, TaskTypes, TaskStates, Planned
<1> QED
  BY <1>1, NothingIsOwn DEF Holds, Reads, Follows

LEMMA PlannedOthers ==
  ASSUME NEW t, NEW plan, NEW u \in Tasks, u # t, TaskTypes
  PROVE  Planned(t, plan)[u] = task[u]
BY DEF Planned, TaskTypes

\* The history is read.
LEMMA HoldsReading ==
  ASSUME Types, Numbered, NEW t \in Tasks, Holds(t), task[t].pc \in {"counted", "forced"},
         task' = [task EXCEPT ![t].pc = "model", ![t].history = said[shown]],
         UNCHANGED <<shown, said>>
  PROVE  Holds(t)'
<1>1. /\ task'[t].pc = "model" /\ task'[t].plan = task[t].plan /\ task'[t].chat = task[t].chat
      /\ task'[t].kind = task[t].kind /\ task'[t].message = task[t].message
      /\ task'[t].history = said[shown] /\ task'[t].moved = task[t].moved
  BY DEF Types, TaskTypes, TaskStates
<1>2. task[t].plan = <<>>
  BY DEF Holds, Follows
<1>3. task[t].chat \in Chats /\ (task[t].moved \/ task[t].chat = shown)
  BY DEF Holds, Reads
<1>4. ~task[t].moved => ~Foreign(said[shown], task[t].chat)
  BY <1>3, SaidIsOwn
<1>5. said[shown] \in Seq(Entries)
  BY DEF Types, ChatTypes
<1>6. Reads(t)'
  BY <1>1, <1>2, <1>3, <1>4, <1>5, NothingIsOwn DEF Reads
<1>7. task[t].kind = "prepare" /\ ~task[t].moved /\ Quiet(t)
        => said[shown] # <<>> /\ Last(said[shown]) = Entry(task[t].message, "user")
  BY <1>3, QuietEnds
<1>8. Quiet(t)' <=> Quiet(t)
  BY <1>1 DEF Quiet
<1>9. Follows(t)'
  BY <1>1, <1>2, <1>7, <1>8 DEF Follows, Holds
<1> QED
  BY <1>6, <1>9 DEF Holds

LEMMA HoldsCompress ==
  ASSUME Types, Numbered, \A t \in Tasks : Holds(t), NEW t \in Tasks,
         task[t].pc \in {"counted", "forced"}, task' = Compress(t), UNCHANGED <<shown, said>>
  PROVE  /\ \A u \in Tasks : Holds(u)'
         /\ \A u \in Tasks : u # t => task'[u] = task[u]
         /\ task'[t].pc \notin Waiting
<1>1. CASE task' = [task EXCEPT ![t].pc = "model", ![t].history = said[shown]]
  <2>1. Holds(t)'
    BY <1>1, HoldsReading
  <2>2. \A u \in Tasks : u # t => task'[u] = task[u]
    BY <1>1 DEF Types, TaskTypes
  <2>3. task'[t].pc = "model"
    BY <1>1 DEF Types, TaskTypes, TaskStates
  <2> QED
    BY <2>1, <2>2, <2>3, HoldsStill DEF Waiting
<1>2. CASE task' = Planned(t, <<>>)
  <2>1. Holds(t)'
    BY <1>2, HoldsPlanless
  <2>2. \A u \in Tasks : u # t => task'[u] = task[u]
    BY <1>2, PlannedOthers DEF Types
  <2>3. task'[t].pc = "done"
    BY <1>2 DEF Types, TaskTypes, TaskStates, Planned
  <2> QED
    BY <2>1, <2>2, <2>3, HoldsStill DEF Waiting
<1> QED
  BY <1>1, <1>2 DEF Compress

--------------------------------------------------------------------------------
(* What the user does.                                                         *)

LEMMA SyncKeeps ==
  ASSUME GuardInv, Sync
  PROVE  GuardInv'
<1>1. Types'
  BY DEF GuardInv, Types, ChatTypes, UsageTypes, TaskTypes, Sync, usageVars
<1>2. UNCHANGED <<shown, said, override, task, fetching, loading, usageVars>>
  BY DEF Sync
<1>3. Matched' /\ Numbered' /\ OverridesOwn'
  BY <1>2 DEF GuardInv, Matched, GuardTypeOK, Numbered, OverridesOwn, usageVars
<1>4. \A t \in Tasks : Holds(t)'
  BY <1>2, HoldsStill DEF GuardInv
<1> QED
  BY <1>1, <1>2, <1>3, <1>4, IndicatorAside DEF GuardInv

LEMMA CycleKeeps ==
  ASSUME GuardInv, CycleMode
  PROVE  GuardInv'
<1>1. Types'
  BY CycleTypes DEF GuardInv
<1>2. UNCHANGED <<shown, said, override, task, fetching, loading, usageVars>>
  BY DEF CycleMode
<1>3. Matched' /\ Numbered' /\ OverridesOwn'
  BY <1>2 DEF GuardInv, Matched, GuardTypeOK, Numbered, OverridesOwn, usageVars
<1>4. \A t \in Tasks : Holds(t)'
  BY <1>2, HoldsStill DEF GuardInv
<1> QED
  BY <1>1, <1>2, <1>3, <1>4, IndicatorAside DEF GuardInv

LEMMA ForgottenOwn ==
  ASSUME Types, OverridesOwn, NEW c, override' = [override EXCEPT ![c] = NoOverride]
  PROVE  OverridesOwn'
BY NothingIsOwn DEF OverridesOwn, NoOverride, Types, ChatTypes

LEMMA ResetKeeps ==
  ASSUME GuardInv, ResetLayers
  PROVE  GuardInv'
<1>1. Types'
  BY ResetTypes DEF GuardInv
<1>2. UNCHANGED <<shown, said, task, fetching, loading, usageVars>>
  BY DEF ResetLayers
<1>3. Matched' /\ Numbered'
  BY <1>2 DEF GuardInv, Matched, GuardTypeOK, Numbered, usageVars
<1>4. OverridesOwn'
  BY ForgottenOwn DEF GuardInv, ResetLayers
<1>5. \A t \in Tasks : Holds(t)'
  BY <1>2, HoldsStill DEF GuardInv
<1> QED
  BY <1>1, <1>2, <1>3, <1>4, <1>5, IndicatorAside DEF GuardInv

LEMMA SwitchKeeps ==
  ASSUME GuardInv, NEW c \in Chats, Switch(c)
  PROVE  GuardInv'
<1>1. Types'
  BY SwitchTypes DEF GuardInv
<1>2. UNCHANGED <<said, override, fetching, loading, usageVars>>
  BY DEF Switch
<1>3. \A t \in Tasks : task'[t] = [task[t] EXCEPT !.moved = TRUE]
  BY DEF Switch
<1>4. \A t \in Tasks : WaitsAsBefore(t)
  BY <1>3 DEF WaitsAsBefore, GuardInv, Types, TaskTypes, TaskStates
<1>5. Matched'
  BY <1>2, <1>4, MatchedAside DEF GuardInv, usageVars
<1>6. Numbered' /\ OverridesOwn'
  BY <1>2 DEF GuardInv, Numbered, OverridesOwn
<1>7. \A t \in Tasks : Holds(t)'
  BY <1>2, <1>3, HoldsMoved DEF GuardInv
<1> QED
  BY <1>1, <1>2, <1>5, <1>6, <1>7, IndicatorAside DEF GuardInv

--------------------------------------------------------------------------------
(* Tasks begin.                                                                *)

LEMMA LimitsEffect ==
  ASSUME TaskTypes, NEW t \in Tasks, NEW kind, NEW message, NEW due \in BOOLEAN,
         Limits(t, kind, message, due)
  PROVE  /\ task'[t].kind = kind /\ task'[t].chat = shown /\ task'[t].message = message
         /\ task'[t].pc \in {"limits", "limited"} /\ task'[t].plan = <<>>
         /\ task'[t].history = <<>> /\ task'[t].moved = FALSE
         /\ \A u \in Tasks : u # t => task'[u] = task[u]
         /\ \A u \in Tasks : WaitsAsBefore(u)
<1> DEFINE state == [Resting EXCEPT !.kind = kind, !.chat = shown, !.message = message,
                       !.mode = mode[shown], !.pc = IF due THEN "limits" ELSE "limited"]
<1>1. task' = [task EXCEPT ![t] = state] /\ task[t].pc = "idle"
  BY DEF Limits
<1>2. /\ state.kind = kind /\ state.chat = shown /\ state.message = message
      /\ state.pc \in {"limits", "limited"} /\ state.plan = <<>>
      /\ state.history = <<>> /\ state.moved = FALSE
  BY DEF Resting
<1> HIDE DEF state
<1>3. task'[t] = state /\ \A u \in Tasks : u # t => task'[u] = task[u]
  BY <1>1 DEF TaskTypes
<1>4. \A u \in Tasks : WaitsAsBefore(u)
  BY <1>1, <1>2, <1>3 DEF WaitsAsBefore, Waiting
<1> QED
  BY <1>2, <1>3, <1>4

LEMMA PrepareKeeps ==
  ASSUME GuardInv, NEW t \in Tasks, NEW due \in BOOLEAN, Prepare(t, due)
  PROVE  GuardInv'
<1> DEFINE n == Len(said[shown]) + 1
           message == Number(shown, n)
<1>1. Types'
  BY PrepareTypes DEF GuardInv
<1>2. SaysMore(shown, "user") /\ shown \in Chats
  BY DEF Prepare, SaysMore, Roles, GuardInv, Types, ChatTypes
<1>3. Limits(t, "prepare", message, due) /\ UNCHANGED <<shown, override, usageVars>>
  BY DEF Prepare
<1>4. /\ task'[t].kind = "prepare" /\ task'[t].chat = shown /\ task'[t].message = message
      /\ task'[t].pc \in {"limits", "limited"} /\ task'[t].plan = <<>>
      /\ task'[t].history = <<>> /\ task'[t].moved = FALSE
      /\ \A u \in Tasks : u # t => task'[u] = task[u]
      /\ \A u \in Tasks : WaitsAsBefore(u)
  <2> HIDE DEF message
  <2> QED
    BY <1>3, LimitsEffect DEF GuardInv, Types
<1>5. said'[shown][n] = Entry(message, "user") /\ n \in DOMAIN said'[shown]
  <2>1. Len(said[shown]) \in Nat /\ DOMAIN said'[shown] = 1..(Len(said[shown]) + 1)
        /\ said'[shown][Len(said[shown]) + 1] = Entry(Number(shown, Len(said[shown]) + 1), "user")
    BY <1>2, SaysMoreAt DEF GuardInv
  <2> QED
    BY <2>1
<1> HIDE DEF message, n
<1>6. Matched'
  BY <1>3, <1>4, MatchedAside DEF GuardInv, usageVars
<1>7. Numbered' /\ OverridesOwn'
  <2>1. Numbered'
    BY <1>2, SaysMoreNumbered DEF GuardInv
  <2> QED
    BY <1>3, <2>1 DEF GuardInv, OverridesOwn
<1>8. IndicatorInv'
  BY <1>3, IndicatorLimits DEF GuardInv, Types
<1>9. Holds(t)'
  BY <1>2, <1>3, <1>4, <1>5, NothingIsOwn DEF Holds, Reads, Follows
<1>10. ASSUME NEW u \in Tasks, u # t PROVE Holds(u)'
  BY <1>2, <1>3, <1>4, <1>10, HoldsWhileOthersSay DEF GuardInv
<1> QED
  BY <1>1, <1>6, <1>7, <1>8, <1>9, <1>10 DEF GuardInv

LEMMA CompressNowKeeps ==
  ASSUME GuardInv, NEW t \in Tasks, CompressNow(t)
  PROVE  GuardInv'
<1>1. Types'
  BY CompressNowTypes DEF GuardInv
<1>2. Limits(t, "compress", None, TRUE) /\ UNCHANGED <<shown, said, override, usageVars>>
  BY DEF CompressNow, chatVars
<1>3. /\ task'[t].kind = "compress" /\ task'[t].chat = shown
      /\ task'[t].pc \in {"limits", "limited"} /\ task'[t].plan = <<>>
      /\ task'[t].history = <<>> /\ task'[t].moved = FALSE
      /\ \A u \in Tasks : u # t => task'[u] = task[u]
      /\ \A u \in Tasks : WaitsAsBefore(u)
  BY <1>2, LimitsEffect DEF GuardInv, Types
<1>4. Matched'
  BY <1>2, <1>3, MatchedAside DEF GuardInv, usageVars
<1>5. Numbered' /\ OverridesOwn'
  BY <1>2 DEF GuardInv, Numbered, OverridesOwn
<1>6. IndicatorInv'
  BY <1>2, IndicatorLimits DEF GuardInv, Types
<1>7. Holds(t)'
  BY <1>2, <1>3, NothingIsOwn DEF Holds, Reads, Follows, GuardInv, Types, ChatTypes
<1>8. ASSUME NEW u \in Tasks, u # t PROVE Holds(u)'
  BY <1>2, <1>3, <1>8, HoldsStill DEF GuardInv
<1> QED
  BY <1>1, <1>4, <1>5, <1>6, <1>7, <1>8 DEF GuardInv

LEMMA FetchedKeeps ==
  ASSUME GuardInv, Fetched
  PROVE  GuardInv'
<1>1. Types'
  BY FetchedTypes DEF GuardInv
<1>2. UNCHANGED <<shown, said, override, usageVars>>
  BY DEF Fetched, chatVars
<1>3. ASSUME NEW t \in Tasks
      PROVE  task'[t] = task[t] \/ (/\ task[t].pc = "limits" /\ task'[t].pc = "limited"
                                    /\ SameTask(task'[t], task[t]))
  <2>1. task'[t] = IF task[t].pc # "limits" THEN task[t] ELSE [task[t] EXCEPT !.pc = "limited"]
    BY DEF Fetched
  <2>2. task[t] \in TaskStates
    BY DEF GuardInv, Types, TaskTypes
  <2> QED
    BY <2>1, <2>2 DEF SameTask, TaskStates
<1>4. \A t \in Tasks : WaitsAsBefore(t)
  BY <1>3 DEF WaitsAsBefore, Waiting
<1>5. Matched'
  BY <1>2, <1>4, MatchedAside DEF GuardInv, usageVars
<1>6. Numbered' /\ OverridesOwn'
  BY <1>2 DEF GuardInv, Numbered, OverridesOwn
<1>7. \A t \in Tasks : Holds(t)'
  BY <1>2, <1>3, HoldsStill, HoldsEarly DEF GuardInv, Early
<1> QED
  BY <1>1, <1>2, <1>5, <1>6, <1>7, IndicatorFetched DEF GuardInv, Types

--------------------------------------------------------------------------------
(* Usage is asked for and answered.                                            *)

LEMMA StillWaits ==
  ASSUME NEW t, task'[t] = task[t]
  PROVE  WaitsAsBefore(t)
BY DEF WaitsAsBefore

LEMMA RefreshKeeps ==
  ASSUME GuardInv, NEW force \in BOOLEAN, Refresh(force)
  PROVE  GuardInv'
<1>1. Types'
  BY RefreshTypes DEF GuardInv
<1>2. Request(Current, TRUE, None) /\ UNCHANGED <<shown, said, override, fetching, task>>
  BY DEF Refresh, chatVars
<1>3. Matched'
  BY <1>2, MatchedAsked, StillWaits DEF GuardInv
<1>4. Numbered' /\ OverridesOwn' /\ \A t \in Tasks : Holds(t)'
  BY <1>2, HoldsStill DEF GuardInv, Numbered, OverridesOwn
<1>5. IndicatorInv'
  BY <1>2, CurrentType, IndicatorAsked DEF GuardInv, Types
<1> QED
  BY <1>1, <1>3, <1>4, <1>5 DEF GuardInv

LEMMA AskUsageKeeps ==
  ASSUME GuardInv, NEW t \in Tasks, AskUsage(t)
  PROVE  GuardInv'
<1>1. Types'
  BY AskUsageTypes DEF GuardInv
<1>2. /\ Request(Sig(said[shown], FALSE, FALSE), TRUE, t)
      /\ UNCHANGED <<shown, said, override, fetching>>
      /\ task[t].pc = "limited" /\ task' = [task EXCEPT ![t].pc = "usage"]
  BY DEF AskUsage, chatVars
<1>3. \A u \in Tasks : u # t => task'[u] = task[u]
  BY <1>2 DEF GuardInv, Types, TaskTypes
<1>4. task'[t].pc = "usage" /\ SameTask(task'[t], task[t])
  BY <1>2 DEF GuardInv, Types, TaskTypes, TaskStates, SameTask
<1>5. Matched'
  BY <1>2, <1>3, <1>4, MatchedAsked, StillWaits DEF GuardInv, Waiting
<1>6. Numbered' /\ OverridesOwn'
  BY <1>2 DEF GuardInv, Numbered, OverridesOwn
<1>7. Holds(t)'
  BY <1>2, <1>4, HoldsEarly DEF GuardInv, Early
<1>8. \A u \in Tasks : Holds(u)'
  BY <1>2, <1>3, <1>7, HoldsStill DEF GuardInv
<1>9. IndicatorInv'
  <2>1. Sig(said[shown], FALSE, FALSE) \in Sigs
    BY HistoryIsKept DEF GuardInv, Types, ChatTypes, Sig, Sigs
  <2> QED
    BY <1>2, <2>1, IndicatorAsked DEF GuardInv, Types
<1> QED
  BY <1>1, <1>5, <1>6, <1>8, <1>9 DEF GuardInv

LEMMA AnswerKeeps ==
  ASSUME GuardInv, NEW q \in asked, NEW how \in Answers, Answer(q, how)
  PROVE  GuardInv'
<1>1. Types'
  BY AnswerTypes DEF GuardInv
<1>2. /\ Settle(q, how, KeptUsage(q, how)) /\ q.task = None
      /\ UNCHANGED <<shown, said, override, fetching, task>>
  BY DEF Answer, chatVars
<1>3. KeptUsage(q, how) \in Usages
  BY KeptUsageType DEF GuardInv, Types
<1>4. Matched'
  BY <1>2, MatchedSettled, StillWaits DEF GuardInv
<1>5. Numbered' /\ OverridesOwn' /\ \A t \in Tasks : Holds(t)'
  BY <1>2, HoldsStill DEF GuardInv, Numbered, OverridesOwn
<1>6. IndicatorInv'
  BY <1>2, <1>3, KeptUsageLeaves, IndicatorSettled DEF GuardInv, Types
<1> QED
  BY <1>1, <1>4, <1>5, <1>6 DEF GuardInv

LEMMA CountedKeeps ==
  ASSUME GuardInv, NEW q \in asked, NEW how \in Answers, Counted(q, how)
  PROVE  GuardInv'
<1> DEFINE t == q.task
<1>1. Types'
  BY CountedTypes DEF GuardInv
<1>2. PICK base : task' = [task EXCEPT ![t].pc = "counted", ![t].base = base]
  BY DEF Counted
<1>3. /\ Settle(q, how, KeptUsage(q, how)) /\ t \in Tasks /\ task[t].pc = "usage"
      /\ UNCHANGED <<shown, said, override, fetching>>
  BY AskedType DEF Counted, chatVars, GuardInv, Types
<1>4. KeptUsage(q, how) \in Usages
  BY KeptUsageType DEF GuardInv, Types
<1>5. \A u \in Tasks : u # t => task'[u] = task[u]
  BY <1>2 DEF GuardInv, Types, TaskTypes
<1>6. task'[t].pc = "counted" /\ SameTask(task'[t], task[t])
  BY <1>2, <1>3 DEF GuardInv, Types, TaskTypes, TaskStates, SameTask
<1>7. Matched'
  BY <1>3, <1>5, <1>6, MatchedSettled, StillWaits DEF GuardInv, Waiting
<1>8. Numbered' /\ OverridesOwn'
  BY <1>3 DEF GuardInv, Numbered, OverridesOwn
<1>9. Holds(t)'
  BY <1>3, <1>6, HoldsEarly DEF GuardInv, Early
<1>10. \A u \in Tasks : Holds(u)'
  BY <1>3, <1>5, <1>9, HoldsStill DEF GuardInv
<1>11. IndicatorInv'
  BY <1>3, <1>4, KeptUsageLeaves, IndicatorSettled DEF GuardInv, Types
<1> QED
  BY <1>1, <1>7, <1>8, <1>10, <1>11 DEF GuardInv

--------------------------------------------------------------------------------
(* Tasks decide.                                                               *)

LEMMA DecideKeeps ==
  ASSUME GuardInv, NEW t \in Tasks, Decide(t)
  PROVE  GuardInv'
<1>1. task[t].pc = "counted" /\ UNCHANGED <<shown, said, override, fetching>>
  BY DEF Decide, chatVars
<1>2. task[t].chat \in Chats
  BY <1>1 DEF GuardInv, Holds, Reads
<1>3. Types'
  BY <1>2, DecideTypes DEF GuardInv
<1>4. Numbered' /\ OverridesOwn'
  BY <1>1 DEF GuardInv, Numbered, OverridesOwn
<1>5. CASE UNCHANGED <<loading, usageVars>> /\ task' = Planned(t, <<>>)
  <2>1. \A u \in Tasks : u # t => task'[u] = task[u]
    BY <1>5, PlannedOthers DEF GuardInv, Types
  <2>2. task'[t].pc = "done"
    BY <1>5 DEF GuardInv, Types, TaskTypes, TaskStates, Planned
  <2>3. \A u \in Tasks : WaitsAsBefore(u)
    BY <1>1, <2>1, <2>2 DEF WaitsAsBefore, Waiting
  <2>4. Matched'
    BY <1>5, <2>3, MatchedAside DEF GuardInv, usageVars
  <2>5. Holds(t)'
    BY <1>1, <1>5, HoldsPlanless DEF GuardInv
  <2> QED
    BY <1>1, <1>3, <1>4, <1>5, <2>1, <2>4, <2>5, HoldsStill, IndicatorAside DEF GuardInv
<1>6. CASE UNCHANGED <<loading, usageVars>> /\ task' = Compress(t)
  <2>1. /\ \A u \in Tasks : Holds(u)'
        /\ \A u \in Tasks : u # t => task'[u] = task[u]
        /\ task'[t].pc \notin Waiting
    BY <1>1, <1>6, HoldsCompress DEF GuardInv
  <2>2. \A u \in Tasks : WaitsAsBefore(u)
    BY <1>1, <2>1 DEF WaitsAsBefore, Waiting
  <2>3. Matched'
    BY <1>6, <2>2, MatchedAside DEF GuardInv, usageVars
  <2> QED
    BY <1>1, <1>3, <1>4, <1>6, <2>1, <2>3, IndicatorAside DEF GuardInv
<1>7. CASE /\ task[t].kind = "prepare"
           /\ Request(Sig(OverrideFor(t).history, FALSE, FALSE), FALSE, t)
           /\ task' = [task EXCEPT ![t].pc = "forced", ![t].history = OverrideFor(t).history,
                                   ![t].moved = @ \/ OverrideFor(t).moved]
  <2> DEFINE o == OverrideFor(t)
             sig == Sig(o.history, FALSE, FALSE)
  <2>1. sig.history = o.history /\ sig \in Sigs
    <3>1. o.history \in Kept
      BY <1>1 DEF GuardInv, Types, ChatTypes, OverrideFor, Holds, Reads
    <3> QED
      BY <3>1 DEF Sig, Sigs
  <2>2. ~o.moved => ~Foreign(o.history, task[t].chat)
    BY <1>2 DEF GuardInv, OverridesOwn, OverrideFor
  <2>3. Request(sig, FALSE, t) /\ task' = [task EXCEPT ![t].pc = "forced", ![t].history = o.history,
                                             ![t].moved = @ \/ o.moved]
    BY <1>7
  <2> HIDE DEF o, sig
  <2>4. \A u \in Tasks : u # t => task'[u] = task[u]
    BY <2>3 DEF GuardInv, Types, TaskTypes
  <2>5. /\ task'[t].pc = "forced" /\ task'[t].history = o.history
        /\ task'[t].moved = (task[t].moved \/ o.moved) /\ task'[t].chat = task[t].chat
        /\ task'[t].plan = task[t].plan /\ task'[t].kind = task[t].kind
        /\ task'[t].message = task[t].message
    BY <2>3 DEF GuardInv, Types, TaskTypes, TaskStates
  <2>6. Matched'
    BY <1>1, <2>1, <2>3, <2>4, <2>5, MatchedAsked, StillWaits DEF GuardInv, Waiting
  <2>7. task[t].plan = <<>>
    BY <1>1 DEF GuardInv, Holds, Follows
  <2>8. Reads(t)'
    BY <1>1, <2>2, <2>5, <2>7, NothingIsOwn DEF GuardInv, Holds, Reads
  <2>9. Follows(t)'
    BY <1>1, <1>7, <2>5, <2>7 DEF GuardInv, Holds, Follows
  <2>10. \A u \in Tasks : Holds(u)'
    BY <1>1, <2>4, <2>8, <2>9, HoldsStill DEF GuardInv, Holds
  <2>11. IndicatorInv'
    BY <1>1, <2>1, <2>3, IndicatorAsked DEF GuardInv, Types
  <2> QED
    BY <1>3, <1>4, <2>6, <2>10, <2>11 DEF GuardInv
<1> QED
  BY <1>5, <1>6, <1>7 DEF Decide

LEMMA ForcedKeeps ==
  ASSUME GuardInv, NEW q \in asked, NEW how \in Answers, Forced(q, how)
  PROVE  GuardInv'
<1> DEFINE t == q.task
           less == how = "ok" /\ Tokens(Exact(q.sig)) < Tokens(task[t].base)
           left == IF less THEN Exact(q.sig) ELSE usage
<1>1. Types'
  BY ForcedTypes DEF GuardInv
<1>2. /\ Settle(q, how, left) /\ t \in Tasks /\ task[t].pc = "forced"
      /\ UNCHANGED <<shown, said, fetching>>
      /\ override' = [override EXCEPT ![task[t].chat] = NoOverride]
      /\ task' = IF less THEN [Planned(t, q.sig.history) EXCEPT ![t].manual = TRUE]
                 ELSE Compress(t)
  BY AskedType DEF Forced, chatVars, GuardInv, Types
<1>3. left \in Usages
  BY AskedType, ExactType DEF GuardInv, Types, UsageTypes
<1>4. q.sig.history = task[t].history /\ t # None /\ ~q.apply
  BY <1>2, GuardAssumption DEF GuardInv, Matched, Serves
<1>9. Leaves(q, how, left)
  BY <1>4 DEF Leaves
<1> HIDE DEF less, left
<1>5. /\ \A u \in Tasks : u # t => task'[u] = task[u]
      /\ task'[t].pc \notin Waiting /\ \A u \in Tasks : Holds(u)'
  <2>1. CASE task' = Compress(t)
    BY <1>2, <2>1, HoldsCompress DEF GuardInv
  <2>2. CASE task' = [Planned(t, q.sig.history) EXCEPT ![t].manual = TRUE]
    <3>1. \A u \in Tasks : u # t => task'[u] = task[u]
      BY <1>2, <2>2 DEF GuardInv, Types, TaskTypes, Planned
    <3>2. /\ task'[t].pc = "done" /\ task'[t].plan = q.sig.history /\ task'[t].manual = TRUE
          /\ task'[t].chat = task[t].chat /\ task'[t].kind = task[t].kind
          /\ task'[t].message = task[t].message /\ task'[t].moved = task[t].moved
          /\ task'[t].history = task[t].history
      BY <1>2, <2>2 DEF GuardInv, Types, TaskTypes, TaskStates, Planned
    <3>3. Reads(t)'
      BY <1>2, <1>4, <3>2 DEF GuardInv, Holds, Reads
    <3>4. task[t].kind = "prepare"
      BY <1>2 DEF GuardInv, Holds, Follows
    <3>6. \E n \in DOMAIN said[task[t].chat] :
            said[task[t].chat][n] = Entry(task[t].message, "user")
      BY <1>2, <3>4 DEF GuardInv, Holds, Follows
    <3>5. Follows(t)'
      BY <1>2, <3>2, <3>4, <3>6 DEF Follows
    <3> QED
      BY <1>2, <3>1, <3>2, <3>3, <3>5, HoldsStill DEF Waiting, GuardInv, Holds
  <2> QED
    BY <1>2, <2>1, <2>2
<1>6. Matched'
  BY <1>2, <1>5, MatchedSettled, StillWaits DEF GuardInv
<1>7. Numbered' /\ OverridesOwn'
  BY <1>2, ForgottenOwn DEF GuardInv, Numbered
<1>8. IndicatorInv'
  BY <1>2, <1>3, <1>9, IndicatorSettled DEF GuardInv, Types
<1> QED
  BY <1>1, <1>5, <1>6, <1>7, <1>8 DEF GuardInv

LEMMA ModelledKeeps ==
  ASSUME GuardInv, NEW t \in Tasks, NEW k \in Nat, Modelled(t, k)
  PROVE  GuardInv'
<1>1. /\ task[t].pc = "model" /\ k \in Offers(task[t].history)
      /\ UNCHANGED <<shown, said, override, fetching>>
  BY DEF Modelled, chatVars
<1>2. Types'
  BY ModelledTypes DEF GuardInv
<1>3. Numbered' /\ OverridesOwn'
  BY <1>1 DEF GuardInv, Numbered, OverridesOwn
<1>4. CASE UNCHANGED <<loading, usageVars>> /\ task' = Planned(t, <<>>)
  <2>1. \A u \in Tasks : u # t => task'[u] = task[u]
    BY <1>4, PlannedOthers DEF GuardInv, Types
  <2>2. task'[t].pc = "done"
    BY <1>4 DEF GuardInv, Types, TaskTypes, TaskStates, Planned
  <2>3. \A u \in Tasks : WaitsAsBefore(u)
    BY <1>1, <2>1, <2>2 DEF WaitsAsBefore, Waiting
  <2>4. Matched'
    BY <1>4, <2>3, MatchedAside DEF GuardInv, usageVars
  <2>5. Holds(t)'
    BY <1>1, <1>4, HoldsPlanless DEF GuardInv
  <2> QED
    BY <1>1, <1>2, <1>3, <1>4, <2>1, <2>4, <2>5, HoldsStill, IndicatorAside DEF GuardInv
<1>5. CASE /\ Request(Sig(task[t].history, FALSE, TRUE), FALSE, t)
           /\ task' = [task EXCEPT ![t].pc = "variants", ![t].offer = k]
  <2>1. \A u \in Tasks : u # t => task'[u] = task[u]
    BY <1>5 DEF GuardInv, Types, TaskTypes
  <2>2. /\ task'[t].pc = "variants" /\ task'[t].offer = k /\ task'[t].history = task[t].history
        /\ task'[t].moved = task[t].moved /\ task'[t].chat = task[t].chat
        /\ task'[t].plan = task[t].plan /\ task'[t].kind = task[t].kind
        /\ task'[t].message = task[t].message
    BY <1>5 DEF GuardInv, Types, TaskTypes, TaskStates
  <2>3. Matched'
    BY <1>1, <1>5, <2>1, <2>2, MatchedAsked, StillWaits DEF GuardInv, Waiting
  <2>4. Reads(t)'
    BY <1>1, <2>2 DEF GuardInv, Holds, Reads
  <2>5. Quiet(t)' <=> Quiet(t)
    BY <1>1, <2>2 DEF Quiet
  <2>6. Follows(t)'
    BY <1>1, <2>2, <2>5 DEF GuardInv, Holds, Follows
  <2>7. \A u \in Tasks : Holds(u)'
    BY <1>1, <2>1, <2>4, <2>6, HoldsStill DEF GuardInv, Holds
  <2>8. IndicatorInv'
    <3>1. task[t].history \in Kept
      BY DEF GuardInv, Types, TaskTypes, TaskStates
    <3>2. Sig(task[t].history, FALSE, TRUE) \in Sigs
      BY <3>1 DEF Sig, Sigs
    <3> QED
      BY <1>1, <1>5, <3>2, IndicatorAsked DEF GuardInv, Types
  <2> QED
    BY <1>2, <1>3, <2>3, <2>7, <2>8 DEF GuardInv
<1> QED
  BY <1>4, <1>5 DEF Modelled

\* The best candidate is of the chat, and has the message.
LEMMA BestHolds ==
  ASSUME Types, NEW t \in Tasks, Holds(t), task[t].pc = "variants", NEW how
  PROVE  /\ ~task[t].moved => ~Foreign(BestFor(t, how), task[t].chat)
         /\ /\ task[t].kind = "prepare" /\ ~task[t].moved /\ Quiet(t)
            /\ BestFor(t, how) # <<>>
            => task[t].message \in IdsOf(BestFor(t, how))
<1> DEFINE h == task[t].history
           c == task[t].chat
           p == BestFor(t, how)
<1>1. p = <<>> \/ p \in Shapes(h)
  BY BestForShape DEF Holds, Reads
<1>2. h \in Seq(Entries) /\ (~task[t].moved => ~Foreign(h, c))
  BY DEF Holds, Reads
<1>3. task[t].kind = "prepare" /\ ~task[t].moved /\ Quiet(t)
        => h # <<>> /\ Last(h) = Entry(task[t].message, "user")
  BY DEF Holds, Follows
<1> HIDE DEF h, c, p
<1>4. ~task[t].moved => ~Foreign(p, c)
  BY <1>1, <1>2, ShapeIsOwn, NothingIsOwn
<1>5. ASSUME task[t].kind = "prepare", ~task[t].moved, Quiet(t), p # <<>>
      PROVE  task[t].message \in IdsOf(p)
  <2>1. h # <<>> /\ Last(h) = Entry(task[t].message, "user") /\ p \in Shapes(h)
    BY <1>1, <1>3, <1>5
  <2>2. Last(h).role = "user" /\ Last(h).id = task[t].message
    BY <2>1 DEF Entry
  <2>3. Last(h).id \in IdsOf(p)
    BY <1>2, <2>1, <2>2, ShapeNewest
  <2> QED
    BY <2>2, <2>3
<1> QED
  BY <1>4, <1>5 DEF c, p

LEMMA ComparedKeeps ==
  ASSUME GuardInv, NEW q \in asked, NEW how \in Answers, Compared(q, how)
  PROVE  GuardInv'
<1> DEFINE t == q.task
           best == BestFor(t, how)
           left == IF best = <<>> THEN usage ELSE Exact(Sig(best, FALSE, FALSE))
<1>1. t \in Tasks /\ task[t].pc = "variants"
  BY AskedType DEF GuardInv, Types, Compared
<1>2. task[t].history \in Seq(Entries) /\ task[t].offer \in Offers(task[t].history)
  BY <1>1 DEF GuardInv, Holds, Reads
<1>3. Types'
  BY <1>2, ComparedTypes DEF GuardInv
<1>4. /\ Settle(q, how, left) /\ UNCHANGED <<shown, said, fetching>>
      /\ \/ task[t].kind = "prepare" /\ task' = Planned(t, best) /\ UNCHANGED override
         \/ /\ task' = [task EXCEPT ![t] = Resting]
            /\ override' = IF best = <<>> THEN override
                           ELSE [override EXCEPT ![task[t].chat] =
                                   [history |-> best, moved |-> task[t].moved]]
  BY DEF Compared, BestFor, chatVars
<1>5. best \in Kept
  BY <1>1, <1>2, BestForShape, ShapeIsKept, NothingIsKept
<1>6. /\ ~task[t].moved => ~Foreign(best, task[t].chat)
      /\ task[t].kind = "prepare" /\ ~task[t].moved /\ Quiet(t) /\ best # <<>>
         => task[t].message \in IdsOf(best)
  BY <1>1, BestHolds DEF GuardInv
<1> HIDE DEF best
<1>7. left \in Usages
  <2>1. Sig(best, FALSE, FALSE) \in Sigs
    BY <1>5 DEF Sig, Sigs
  <2> QED
    BY <2>1, ExactType DEF GuardInv, Types, UsageTypes
<1>12. Leaves(q, how, left)
  <2>1. ~q.apply
    BY <1>1, GuardAssumption DEF GuardInv, Matched, Serves
  <2>2. how # "ok" => best = <<>>
    BY DEF best, BestFor
  <2> QED
    BY <2>1, <2>2 DEF Leaves
<1> HIDE DEF left, t
<1>8. /\ \A u \in Tasks : u # t => task'[u] = task[u]
      /\ task'[t].pc \notin Waiting /\ Holds(t)' /\ OverridesOwn'
  <2>1. CASE task[t].kind = "prepare" /\ task' = Planned(t, best) /\ UNCHANGED override
    <3>1. /\ task'[t].pc = "done" /\ task'[t].plan = best
          /\ task'[t].chat = task[t].chat /\ task'[t].kind = task[t].kind
          /\ task'[t].message = task[t].message /\ task'[t].moved = task[t].moved
          /\ task'[t].history = task[t].history
      BY <1>1, <2>1 DEF GuardInv, Types, TaskTypes, TaskStates, Planned
    <3>2. Quiet(t)' <=> Quiet(t)
      BY <1>4, <3>1 DEF Quiet
    <3>3. Reads(t)'
      BY <1>1, <1>4, <1>6, <3>1 DEF GuardInv, Holds, Reads
    <3>4. Follows(t)'
      BY <1>1, <1>4, <1>6, <2>1, <3>1, <3>2 DEF GuardInv, Holds, Follows
    <3>5. OverridesOwn'
      BY <2>1 DEF GuardInv, OverridesOwn
    <3> QED
      BY <2>1, <3>1, <3>3, <3>4, <3>5, PlannedOthers DEF GuardInv, Types, Holds, Waiting
  <2>2. CASE /\ task' = [task EXCEPT ![t] = Resting]
             /\ override' = IF best = <<>> THEN override
                            ELSE [override EXCEPT ![task[t].chat] =
                                    [history |-> best, moved |-> task[t].moved]]
    <3>1. task'[t] = Resting /\ \A u \in Tasks : u # t => task'[u] = task[u]
      BY <1>1, <2>2 DEF GuardInv, Types, TaskTypes
    <3>2. Holds(t)'
      BY <1>1, <3>1, HoldsResting
    <3>3. Resting.pc \notin Waiting
      BY DEF Resting, Waiting
    <3>4. OverridesOwn'
      BY <1>6, <2>2 DEF GuardInv, OverridesOwn, Types, ChatTypes
    <3> QED
      BY <3>1, <3>2, <3>3, <3>4
  <2> QED
    BY <1>4, <2>1, <2>2
<1>9. Matched'
  BY <1>4, <1>8, MatchedSettled, StillWaits DEF GuardInv, t
<1>10. Numbered' /\ \A u \in Tasks : Holds(u)'
  BY <1>4, <1>8, HoldsStill DEF GuardInv, Numbered
<1>11. IndicatorInv'
  BY <1>4, <1>7, <1>12, IndicatorSettled DEF GuardInv, Types
<1> QED
  BY <1>3, <1>8, <1>9, <1>10, <1>11 DEF GuardInv

LEMMA SentKeeps ==
  ASSUME GuardInv, NEW t \in Tasks, Sent(t)
  PROVE  GuardInv'
<1> DEFINE c == task[t].chat
<1>1. /\ task[t].pc = "done" /\ task' = [task EXCEPT ![t] = Resting]
      /\ UNCHANGED <<shown, override, fetching, loading, usageVars>>
  BY DEF Sent
<1>2. c \in Chats
  BY <1>1 DEF GuardInv, Holds, Reads
<1>3. Types'
  BY <1>2, SentTypes DEF GuardInv
<1>4. said' = said \/ SaysMore(c, "assistant")
  <2>1. Len(said[c]) \in Nat /\ MaxSaid \in Nat
    BY <1>2, GuardAssumption DEF GuardInv, Types, ChatTypes
  <2> QED
    BY <1>2, <2>1 DEF Sent, SaysMore, Roles
<1> HIDE DEF c
<1>5. task'[t] = Resting /\ \A u \in Tasks : u # t => task'[u] = task[u]
  BY <1>1 DEF GuardInv, Types, TaskTypes
<1>6. Holds(t)'
  BY <1>5, HoldsResting
<1>7. ASSUME NEW u \in Tasks, u # t PROVE Holds(u)'
  BY <1>1, <1>2, <1>4, <1>5, <1>7, HoldsStill, HoldsWhileOthersSay DEF GuardInv
<1>8. Numbered' /\ OverridesOwn'
  <2>1. Numbered'
    <3>1. said' = said => Numbered'
      BY DEF GuardInv, Numbered
    <3> QED
      BY <1>2, <1>4, <3>1, SaysMoreNumbered DEF GuardInv
  <2> QED
    BY <1>1, <2>1 DEF GuardInv, OverridesOwn
<1>9. Matched'
  <2>1. \A u \in Tasks : WaitsAsBefore(u)
    BY <1>1, <1>5 DEF WaitsAsBefore, Waiting, Resting
  <2> QED
    BY <1>1, <2>1, MatchedAside DEF GuardInv, usageVars
<1> QED
  BY <1>1, <1>3, <1>6, <1>7, <1>8, <1>9, IndicatorAside DEF GuardInv

--------------------------------------------------------------------------------
(* The theorems.                                                               *)

LEMMA GuardStart == GuardInit => GuardInv
<1> SUFFICES ASSUME GuardInit PROVE GuardInv
  OBVIOUS
<1>1. Types
  BY TypesStart
<1>2. IndicatorInv
  BY DEF GuardInit, IndicatorInv, LoadingMeansWaiting, LastIsKept, SharedInv, Empty
<1>3. Matched
  BY DEF GuardInit, Matched, GuardTypeOK, Resting, Waiting
<1>4. Numbered
  BY GuardAssumption DEF GuardInit, Numbered
<1>5. OverridesOwn
  BY NothingIsOwn DEF GuardInit, OverridesOwn, NoOverride
<1>6. \A t \in Tasks : Holds(t)
  BY NothingIsOwn DEF GuardInit, Holds, Reads, Follows, Resting
<1> QED
  BY <1>1, <1>2, <1>3, <1>4, <1>5, <1>6 DEF GuardInv

LEMMA GuardStep == GuardInv /\ [GuardNext]_guardVars => GuardInv'
<1> SUFFICES ASSUME GuardInv, [GuardNext]_guardVars PROVE GuardInv'
  OBVIOUS
<1>1. CASE User
  BY <1>1, SyncKeeps, CycleKeeps, ResetKeeps, SwitchKeeps, CompressNowKeeps, PrepareKeeps
     DEF User
<1>2. CASE Advance
  <2>1. \A k \in {None} \cup Range(AI_TAILS) : k \in Nat
    BY DEF None, AI_TAILS, Range
  <2> QED
    BY <1>2, <2>1, FetchedKeeps, AnswerKeeps, CountedKeeps, ForcedKeeps, ComparedKeeps,
       AskUsageKeeps, DecideKeeps, SentKeeps, ModelledKeeps DEF Advance
<1>3. CASE \E force \in BOOLEAN : Refresh(force)
  BY <1>3, RefreshKeeps
<1>4. CASE UNCHANGED guardVars
  <2>1. UNCHANGED <<shown, said, draft, mode, override, fetching, loading, usageVars, task>>
    BY <1>4 DEF guardVars, usageVars
  <2>2. Types'
    BY <2>1 DEF GuardInv, Types, ChatTypes, UsageTypes, TaskTypes, usageVars
  <2>3. Matched' /\ Numbered' /\ OverridesOwn'
    BY <2>1 DEF GuardInv, Matched, GuardTypeOK, Numbered, OverridesOwn, usageVars
  <2>4. \A t \in Tasks : Holds(t)'
    BY <2>1, HoldsStill DEF GuardInv
  <2> QED
    BY <2>1, <2>2, <2>3, <2>4, IndicatorAside DEF GuardInv
<1> QED
  BY <1>1, <1>2, <1>3, <1>4 DEF GuardNext

LEMMA GuardInvariant == GuardSpec => []GuardInv
BY GuardStart, GuardStep, PTL DEF GuardSpec

\* Every request has a number of its own time, and is a timer's or the only one of
\* the task that waits for it (requestExactUsage).
THEOREM RequestsMatchTasks == GuardSpec => []GuardTypeOK
<1>1. GuardInv => GuardTypeOK
  BY DEF GuardInv, Matched
<1> QED
  BY <1>1, GuardInvariant, PTL

\* The indicator is busy only while the latest request or the fetch of the limits is
\* under way (setLoadingState).
THEOREM BusyMeansWaiting == GuardSpec => []LoadingMeansWaiting
<1>1. GuardInv => LoadingMeansWaiting
  BY DEF GuardInv, IndicatorInv
<1> QED
  BY <1>1, GuardInvariant, PTL

\* A refresh that asks nothing is right to (requestExactUsage): the usage it takes is of
\* what is shown unless the last answer was a late one or one for a task, and the request
\* that it waits for is under way and asks for what is shown.
THEOREM CachedUsageIsTrue == GuardSpec => []CachedUsageFits
<1>1. GuardInv => CachedUsageFits
  BY KeptFits DEF GuardInv, IndicatorInv
<1> QED
  BY <1>1, GuardInvariant, PTL

\* No message is sent with the history of another chat, unless another chat was shown
\* while it was prepared (prepareRequest, compressNow).
THEOREM HistoriesAreOwn == GuardSpec => []HistoryOfItsChat
<1>1. GuardInv => HistoryOfItsChat
  BY DEF GuardInv, HistoryOfItsChat, OverridesOwn, Holds, Reads
<1> QED
  BY <1>1, GuardInvariant, PTL

\* A message is in the history that was compressed for it (compressHistory), whichever
\* candidate was taken, while nothing was said in its chat after it and no other chat was
\* shown meanwhile.  Of a history that the user had compressed before, nothing is said.
THEOREM NewestIsKept == GuardSpec => []KeepsTheNewest
<1>1. GuardInv => KeepsTheNewest
  BY DEF GuardInv, KeepsTheNewest, Holds, Follows, Quiet
<1> QED
  BY <1>1, GuardInvariant, PTL
================================================================================
