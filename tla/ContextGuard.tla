----------------------------- MODULE ContextGuard ------------------------------
(***************************************************************************)
(* The context guard of the web client (contextGuard.js): it keeps an      *)
(* indicator of how much of the model's window the chat that is shown      *)
(* takes, and prepares the history of each message that is sent.           *)
(*                                                                         *)
(* Requests of usage overlap: those of timers and those of tasks, which    *)
(* are the preparation of a message and the "compress now" of the user.    *)
(* Tasks read the history of the chat that is shown after their awaits.    *)
(* The plugin is on and compresses by itself (its defaults).               *)
(***************************************************************************)
EXTENDS HistoryCompression

CONSTANTS Chats,     \* chats, by number
          First,     \* the history of each chat at first
          Count,     \* how the backend counts tokens: see Used
          Tasks,     \* tasks that can be in progress at once
          MaxSaid,   \* bound on the messages of a chat
          MaxAsked,  \* bound on the requests of usage
          MaxActs    \* bound on what the user does

\* The messages of a chat are numbered by its number and their place in it.
Number(c, n) == c * (MaxSaid + 1) + n
Numbers(c) == {Number(c, n) : n \in 1..MaxSaid}

ASSUME GuardAssumption ==
  /\ Chats \subseteq Nat /\ None \notin Tasks /\ MaxSaid \in Nat
  /\ First \in [Chats -> Seq(Entries)]
  /\ \A c \in Chats : /\ Len(First[c]) <= MaxSaid
                      /\ \A i \in DOMAIN First[c] : First[c][i].id = Number(c, i)
  /\ Count \in [window : Nat, entry : Nat, summary : Nat]

VARIABLES
  shown,     \* the chat that is shown
  said,      \* the history of each chat
  draft,     \* is there a draft, or a pending reply
  mode,      \* nextReplyModeByChat
  override,  \* forcedHistoryOverrideByChat
  fetching,  \* is fetchPromise pending
  loading,   \* loadingLimits and loadingUsage
  usage,     \* latestUsage: is it exact, and what it is the usage of
  seq,       \* usageRequestSeq
  asked,     \* requests of usage that are not answered
  shared,    \* usageFetchPromise, by its number, and usageFetchSignature
  lastSig,   \* lastUsageSignature
  late,      \* was the last answer to an older request, or not to the indicator's own
  task,      \* the tasks
  acts       \* what the user did so far

guardVars == <<shown, said, draft, mode, override, fetching, loading, usage, seq,
               asked, shared, lastSig, late, task, acts>>

chatVars == <<shown, said, draft, mode>>
usageVars == <<usage, seq, asked, shared, lastSig, late>>

Modes == <<"auto", "compressed", "full">>

Sig(h, d, variants) == [history |-> h, draft |-> d, variants |-> variants]
NoSig == Sig(<<>>, FALSE, FALSE)
Exact(sig) == [exact |-> TRUE, sig |-> sig]
Empty == [exact |-> FALSE, sig |-> NoSig]      \* createEmptyUsage
Tokens(u) == IF u.exact THEN Used(Count, u.sig.history) + (IF u.sig.draft THEN 1 ELSE 0)
             ELSE 0
Over(u) == u.exact /\ Tokens(u) > Count.window

NoOverride == [history |-> <<>>, moved |-> FALSE]

\* A task: its chat, message and mode, the usage it started from, the history it
\* compresses and the tail for the model's summary; moved says that another chat was
\* shown meanwhile, manual that the plan is one the user asked for before.
Resting == [kind |-> "none", pc |-> "idle", chat |-> None, message |-> None,
            mode |-> "auto", base |-> Empty, history |-> <<>>, offer |-> None, plan |-> <<>>,
            moved |-> FALSE, manual |-> FALSE]

\* What buildUsageRequestPayload makes of the chat that is shown.
Current == Sig(said[shown], draft, FALSE)

-----------------------------------------------------------------------------
(* Requests of usage.                                                      *)

\* requestExactUsage, when it does ask: t is the task that waits, or None.
Request(sig, apply, t) ==
  /\ seq' = seq + 1
  /\ asked' = asked \cup {[seq |-> seq + 1, sig |-> sig, apply |-> apply, task |-> t]}
  /\ shared' = [seq |-> IF sig.variants THEN shared.seq ELSE seq + 1, sig |-> sig]
  /\ loading' = [loading EXCEPT !.usage = TRUE]
  /\ UNCHANGED <<usage, lastSig, late>>

\* refreshUsage, which a timer calls after every change: nothing is asked if the
\* answer is there or under way.
Refresh(force) ==
  /\ seq < MaxAsked
  /\ ~force => /\ ~(Current = lastSig /\ usage.exact)
               /\ ~(shared.seq # None /\ shared.sig = Current)
  /\ Request(Current, TRUE, None)
  /\ UNCHANGED <<chatVars, override, fetching, task, acts>>

\* What the caller gets: an answer, or when there is none the latest usage.
Got(q, how) ==
  IF how = "ok" THEN Exact(q.sig)
  ELSE IF q.apply /\ usage.exact THEN usage ELSE Empty

\* The usage kept after the answer: parseUsageResponse applies one that is late
\* too.  Without a tokenizer the indicator's own refresh forgets what it knew, and
\* a task goes on with what is there.
KeptUsage(q, how) ==
  CASE how = "ok" -> IF q.apply THEN Exact(q.sig) ELSE usage
    [] how = "failed" -> IF q.apply THEN Got(q, how) ELSE usage
    [] how = "unknown" -> IF q.task = None THEN Empty ELSE usage

(* Faulty variants: a failed request stays busy, or is remembered as answered. *)
IdleIfAnswered(q, how) ==
  IF q.seq = seq /\ how = "ok" THEN [loading EXCEPT !.usage = FALSE] ELSE loading

RememberedAnyhow(q, how) == IF q.seq = seq THEN q.sig ELSE lastSig

\* Only the latest request says what was asked last, and ends the loading.
Remembered(q, how) == IF q.seq = seq /\ how = "ok" THEN q.sig ELSE lastSig

IdleAfter(q, how) ==
  IF q.seq = seq THEN [loading EXCEPT !.usage = FALSE] ELSE loading

\* The end of requestExactUsage, after which the usage is what its caller leaves.
Settle(q, how, left) ==
  /\ asked' = asked \ {q}
  /\ usage' = left
  /\ shared' = [shared EXCEPT !.seq = IF @ = q.seq /\ ~q.sig.variants THEN None ELSE @]
  /\ lastSig' = Remembered(q, how)
  /\ loading' = IdleAfter(q, how)
  /\ late' = IF how = "ok" THEN q.seq # seq \/ ~q.apply ELSE late
  /\ UNCHANGED seq

\* The answer to a timer's request.
Answer(q, how) ==
  /\ q.task = None
  /\ Settle(q, how, KeptUsage(q, how))
  /\ UNCHANGED <<chatVars, override, fetching, task, acts>>

-----------------------------------------------------------------------------
(* What the user does.                                                     *)

\* sync: the draft changed, or a reply goes on.
Sync ==
  /\ draft' = ~draft
  /\ UNCHANGED <<shown, said, mode, override, fetching, loading, usageVars, task>>

Switch(c) ==
  /\ c # shown
  /\ shown' = c
  /\ task' = [t \in Tasks |-> [task[t] EXCEPT !.moved = TRUE]]
  /\ UNCHANGED <<said, draft, mode, override, fetching, loading, usageVars>>

\* cycleNextReplyMode.
CycleMode ==
  /\ mode' = [mode EXCEPT ![shown] =
                Modes[((CHOOSE i \in DOMAIN Modes : Modes[i] = @) % Len(Modes)) + 1]]
  /\ UNCHANGED <<shown, said, draft, override, fetching, loading, usageVars, task>>

\* clearCompressionLayers.
ResetLayers ==
  /\ override[shown] # NoOverride \/ mode[shown] # "auto"
  /\ override' = [override EXCEPT ![shown] = NoOverride]
  /\ mode' = [mode EXCEPT ![shown] = "auto"]
  /\ UNCHANGED <<shown, said, draft, fetching, loading, usageVars, task>>

-----------------------------------------------------------------------------
(* Tasks.                                                                  *)

\* refreshLimits at the start of a task: a fetch that is under way is joined, one
\* that is not due is not made.
Limits(t, kind, message, due) ==
  /\ task[t].pc = "idle"
  /\ task' = [task EXCEPT ![t] = [Resting EXCEPT
                !.kind = kind, !.chat = shown, !.message = message, !.mode = mode[shown],
                !.pc = IF due THEN "limits" ELSE "limited"]]
  /\ fetching' = (fetching \/ due)
  /\ loading' = [loading EXCEPT !.limits = due]

\* The message is stored, then prepareRequest starts.
Prepare(t, due) ==
  /\ Len(said[shown]) < MaxSaid
  /\ LET message == Number(shown, Len(said[shown]) + 1)
     IN /\ said' = [said EXCEPT ![shown] = Append(@, Entry(message, "user"))]
        /\ Limits(t, "prepare", message, due)
  /\ draft' = FALSE
  /\ UNCHANGED <<shown, mode, override, usageVars>>

\* compressNow, whose limits are always fetched.
CompressNow(t) ==
  /\ Limits(t, "compress", None, TRUE)
  /\ UNCHANGED <<chatVars, override, usageVars>>

\* The fetch of the limits ends, well or not.
Fetched ==
  /\ fetching
  /\ fetching' = FALSE
  /\ loading' = [loading EXCEPT !.limits = FALSE]
  /\ task' = [t \in Tasks |-> IF task[t].pc # "limits" THEN task[t]
                              ELSE [task[t] EXCEPT !.pc = "limited"]]
  /\ UNCHANGED <<chatVars, override, usageVars, acts>>

AskUsage(t) ==
  /\ task[t].pc = "limited" /\ seq < MaxAsked
  /\ Request(Sig(said[shown], FALSE, FALSE), TRUE, t)
  /\ task' = [task EXCEPT ![t].pc = "usage"]
  /\ UNCHANGED <<chatVars, override, fetching, acts>>

\* refreshNow stands in for a usage that could not be had.
Counted(q, how) ==
  LET t == q.task
  IN /\ t # None /\ task[t].pc = "usage"
     /\ Settle(q, how, KeptUsage(q, how))
     /\ task' = [task EXCEPT ![t].pc = "counted",
                             ![t].base = IF how = "unknown" THEN usage ELSE Got(q, how)]
     /\ UNCHANGED <<chatVars, override, fetching, acts>>

Planned(t, plan) == [task EXCEPT ![t].pc = "done", ![t].plan = plan]

\* prepareRequest without a history that the user had compressed, and compressNow:
\* the history to compress is read.
Compress(t) ==
  IF \/ task[t].kind = "compress"
     \/ Over(task[t].base) \/ task[t].mode = "compressed"
  THEN [task EXCEPT ![t].pc = "model", ![t].history = said[shown]]
  ELSE Planned(t, <<>>)

(* Faulty variant: one override for all chats. *)
OverrideOfAny(t) ==
  override[IF \E c \in Chats : override[c] # NoOverride
           THEN CHOOSE c \in Chats : override[c] # NoOverride ELSE shown]

OverrideFor(t) == override[task[t].chat]

Decide(t) ==
  /\ task[t].pc = "counted"
  /\ IF task[t].kind = "prepare" /\ task[t].mode = "full"
     THEN task' = Planned(t, <<>>) /\ UNCHANGED <<loading, usageVars>>
     ELSE IF task[t].kind = "prepare" /\ OverrideFor(t) # NoOverride
     THEN /\ seq < MaxAsked
          /\ Request(Sig(OverrideFor(t).history, FALSE, FALSE), FALSE, t)
          /\ task' = [task EXCEPT ![t].pc = "forced",
                                  ![t].history = OverrideFor(t).history,
                                  ![t].moved = @ \/ OverrideFor(t).moved]
     ELSE task' = Compress(t) /\ UNCHANGED <<loading, usageVars>>
  /\ UNCHANGED <<chatVars, override, fetching, acts>>

\* The history that the user had compressed is sent if it takes less than the
\* chat's; it is forgotten in any case.
Forced(q, how) ==
  LET t == q.task
      less == how = "ok" /\ Tokens(Exact(q.sig)) < Tokens(task[t].base)
  IN /\ t # None /\ task[t].pc = "forced"
     /\ Settle(q, how, IF less THEN Exact(q.sig) ELSE usage)
     /\ override' = [override EXCEPT ![task[t].chat] = NoOverride]
     /\ task' = IF less
                THEN [Planned(t, q.sig.history) EXCEPT ![t].manual = TRUE]
                ELSE Compress(t)
     /\ UNCHANGED <<chatVars, fetching, acts>>

\* summarizeHistory answered, or did not: the candidates are counted.
Modelled(t, k) ==
  /\ task[t].pc = "model" /\ seq < MaxAsked
  /\ k \in Offers(task[t].history)
  /\ IF Candidates(task[t].history, k) = <<>>
     THEN task' = Planned(t, <<>>) /\ UNCHANGED <<loading, usageVars>>
     ELSE /\ Request(Sig(task[t].history, FALSE, TRUE), FALSE, t)
          /\ task' = [task EXCEPT ![t].pc = "variants", ![t].offer = k]
  /\ UNCHANGED <<chatVars, override, fetching, acts>>

\* The best candidate is the plan, or what the next message of the chat is sent
\* with.
Compared(q, how) ==
  LET t == q.task
      best == IF how = "ok" THEN Compressed(Count, task[t].history, task[t].offer,
                                            Tokens(task[t].base))
              ELSE <<>>
  IN /\ t # None /\ task[t].pc = "variants"
     /\ Settle(q, how, IF best = <<>> THEN usage ELSE Exact(Sig(best, FALSE, FALSE)))
     /\ IF task[t].kind = "prepare"
        THEN task' = Planned(t, best) /\ UNCHANGED override
        ELSE /\ task' = [task EXCEPT ![t] = Resting]
             /\ override' = IF best = <<>> THEN override
                            ELSE [override EXCEPT ![task[t].chat] =
                                    [history |-> best, moved |-> task[t].moved]]
     /\ UNCHANGED <<chatVars, fetching, acts>>

\* The message was sent with the plan, and answered.
Sent(t) ==
  LET c == task[t].chat
  IN /\ task[t].pc = "done"
     /\ task' = [task EXCEPT ![t] = Resting]
     /\ said' = IF task[t].kind = "compress" \/ Len(said[c]) >= MaxSaid THEN said
                ELSE [said EXCEPT ![c] =
                        Append(@, Entry(Number(c, Len(@) + 1), "assistant"))]
     /\ UNCHANGED <<shown, draft, mode, override, fetching, loading, usageVars, acts>>

-----------------------------------------------------------------------------
GuardInit ==
  /\ shown \in Chats
  /\ said = First
  /\ draft = FALSE
  /\ mode = [c \in Chats |-> "auto"]
  /\ override = [c \in Chats |-> NoOverride]
  /\ fetching = FALSE
  /\ loading = [limits |-> FALSE, usage |-> FALSE]
  /\ usage = Empty /\ seq = 0 /\ asked = {}
  /\ shared = [seq |-> None, sig |-> NoSig]
  /\ lastSig = NoSig /\ late = FALSE
  /\ task = [t \in Tasks |-> Resting]
  /\ acts = 0

User ==
  /\ acts < MaxActs /\ acts' = acts + 1
  /\ \/ Sync \/ CycleMode \/ ResetLayers
     \/ \E c \in Chats : Switch(c)
     \/ \E t \in Tasks : CompressNow(t) \/ \E due \in BOOLEAN : Prepare(t, due)

Answers == {"ok", "failed", "unknown"}

Advance ==
  \/ Fetched
  \/ \E q \in asked, how \in Answers :
       Answer(q, how) \/ Counted(q, how) \/ Forced(q, how) \/ Compared(q, how)
  \/ \E t \in Tasks : \/ AskUsage(t) \/ Decide(t) \/ Sent(t)
                      \/ \E k \in {None} \cup Range(AI_TAILS) : Modelled(t, k)

GuardNext == User \/ Advance \/ \E force \in BOOLEAN : Refresh(force)

GuardSpec == GuardInit /\ [][GuardNext]_guardVars

-----------------------------------------------------------------------------
Waiting == {"usage", "forced", "variants"}

\* Requests are numbered, and each is a timer's or the only one of a task that
\* waits for it.
GuardTypeOK ==
  /\ \A q \in asked : q.seq \in 1..seq /\ q.task \in Tasks \cup {None}
  /\ \A t \in Tasks : task[t].pc \in Waiting <=> \E q \in asked : q.task = t
  /\ \A q, r \in asked : q.task = r.task /\ q.task # None => q = r

\* The indicator says that it is busy only while something is under way that
\* will end that (setLoadingState): the latest request, or the fetch.
LoadingMeansWaiting ==
  /\ loading.limits => fetching
  /\ loading.usage => \E q \in asked : q.seq = seq

\* A refresh that asks nothing is right to (requestExactUsage).  If it takes the usage
\* that is kept, that is of what is shown, however requests overlapped, were shared or
\* failed, unless the last answer was a late one, which parseUsageResponse applies all
\* the same, or one for a task, which counts other histories.  If it waits for a
\* request that another caller made, that is under way and asks for what is shown.
CachedUsageFits ==
  /\ lastSig = Current /\ usage.exact /\ ~late => usage.sig = Current
  /\ shared.seq # None /\ shared.sig = Current =>
       \E q \in asked : q.seq = shared.seq /\ q.sig = Current

Foreign(h, c) == \E i \in DOMAIN h : h[i].id # None /\ h[i].id \notin Numbers(c)

\* A message is sent with the history of its own chat, and what the user had
\* compressed for a chat is of that chat, unless another chat was shown while it
\* was made: the history is read after the awaits (prepareRequest, compressNow).
HistoryOfItsChat ==
  /\ \A c \in Chats : ~override[c].moved => ~Foreign(override[c].history, c)
  /\ \A t \in Tasks : ~task[t].moved => ~Foreign(task[t].plan, task[t].chat)

\* A message whose history was compressed for it is in that history, if nothing
\* else was said in its chat.  One sent with what the user had compressed before
\* need not have what was said since.
KeepsTheNewest ==
  \A t \in Tasks :
    LET c == task[t].chat
    IN /\ task[t].plan # <<>> /\ ~task[t].moved /\ ~task[t].manual
       /\ Last(said[c]).id = task[t].message
       => task[t].message \in IdsOf(task[t].plan)
=============================================================================
