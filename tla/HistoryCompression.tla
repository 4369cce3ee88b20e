-------------------------- MODULE HistoryCompression --------------------------
(***************************************************************************)
(* How the context guard of the web client shortens a history that does    *)
(* not fit the model's window (contextGuard.js, compressHistory): it makes *)
(* candidates, from gentle to harsh, has the backend count their tokens    *)
(* and takes one of them.                                                  *)
(*                                                                         *)
(* A history is a sequence of entries; what an entry says is left out, so  *)
(* all entries say different things.  A summary is an entry that names the *)
(* entries it quotes, or nothing if the model wrote it.  How many quoted   *)
(* lines a budget of characters leaves is a constant.                      *)
(***************************************************************************)
EXTENDS Integers, FiniteSets, SequencesExt, FiniteSetsExt

CONSTANT Lines  \* lines that fit each of SUMMARY_BUDGETS, decreasing

ASSUME LinesAssumption == Lines \in Seq(Nat)

KEEP_TAIL_OPTIONS == <<6, 5, 4, 3, 2>>
AI_TAILS == <<6, 5, 4>>
LAST_TAILS == <<3, 2, 1>>
MAX_SUMMARY_ITEMS == 9

None == 0
Roles == {"system", "user", "assistant"}

\* The entries of chats, and the summaries.
Entries == [id : Nat, role : Roles, of : {<<>>}]
Entry(id, role) == [id |-> id, role |-> role, of |-> <<>>]
Summary(of) == [id |-> None, role |-> "assistant", of |-> of]

\* The entries of h with one of the roles, in their order.
OfRoles(h, roles) ==
  FoldLeft(LAMBDA s, e : IF e.role \in roles THEN Append(s, e) ELSE s, <<>>, h)

OfRole(h, role) == OfRoles(h, {role})
Dialog(h) == OfRoles(h, {"user", "assistant"})
IdsOf(h) == {h[i].id : i \in DOMAIN h}

\* The elements of s, each where it comes first.
Once(s) == FoldLeft(LAMBDA t, e : IF e \in Range(t) THEN t ELSE Append(t, e), <<>>, s)

\* resolveTailStartIndex: where the last k entries of the dialogue begin.
TailStart(h, k) ==
  LET starts == {i \in DOMAIN h : h[i].role # "system" /\ Len(Dialog(SubSeq(h, i, Len(h)))) >= k}
  IN IF starts = {} THEN 1 ELSE Max(starts)

\* A tail that is not the whole history, after some dialogue.
Splits(h, k) == TailStart(h, k) > 1
Head0(h, k) == Dialog(SubSeq(h, 1, TailStart(h, k) - 1))

-----------------------------------------------------------------------------
(* Summaries.                                                              *)

\* scoreSummaryEntry of the i-th of n, times n: recent entries and the user's
\* weigh more.
Score(e, i, n) == 32 * (i - 1) + n * (IF e.role = "user" THEN 28 ELSE 14)

Ranked(h) ==
  LET before(i, j) == \/ Score(h[i], i, Len(h)) > Score(h[j], j, Len(h))
                      \/ Score(h[i], i, Len(h)) = Score(h[j], j, Len(h)) /\ i < j
  IN [n \in DOMAIN h |-> h[SetToSortSeq(DOMAIN h, before)[n]]]

FirstOf(h) == IF h = <<>> THEN <<>> ELSE <<Head(h)>>
LastOf(h) == IF h = <<>> THEN <<>> ELSE <<Last(h)>>

\* buildExtractiveSummary: the first and the last of the user, the last of the
\* assistant, then the rest by rank; the last ones go until the budget is met.
Quoted(h) ==
  LET wanted == FirstOf(OfRole(h, "user")) \o LastOf(OfRole(h, "user"))
                  \o LastOf(OfRole(h, "assistant")) \o Ranked(h)
      once == Once([i \in DOMAIN wanted |-> wanted[i].id])
  IN SubSeq(once, 1, Min({MAX_SUMMARY_ITEMS, Len(once)}))

Extract(h, lines) == Summary(SubSeq(Quoted(h), 1, Min({lines, Len(Quoted(h))})))

-----------------------------------------------------------------------------
(* Candidates.                                                             *)

(* Faulty variant: the tail ends one entry early. *)
ShortenedMore(h, k, summary) ==
  OfRole(SubSeq(h, 1, TailStart(h, k) - 1), "system") \o summary
    \o SubSeq(h, TailStart(h, k), Len(h) - 1)

\* buildHistoryCandidate: the system's entries, the summary if there is one, and
\* the tail.
Shortened(h, k, summary) ==
  OfRole(SubSeq(h, 1, TailStart(h, k) - 1), "system") \o summary
    \o SubSeq(h, TailStart(h, k), Len(h))

\* The tail with which the model's summary can come: the first one with anything
\* before it, or one after it if the summary was too short.
Offers(h) == {None} \cup {k \in Range(AI_TAILS) : Splits(h, k) /\ Head0(h, k) # <<>>}

ByModel(h, k) == IF k = None THEN <<>> ELSE <<Shortened(h, k, <<Summary(<<>>)>>)>>

Extractive(h) ==
  FlattenSeq([n \in DOMAIN KEEP_TAIL_OPTIONS |->
    LET k == KEEP_TAIL_OPTIONS[n]
    IN IF ~Splits(h, k) \/ Head0(h, k) = <<>> THEN <<>>
       ELSE [l \in DOMAIN Lines |-> Shortened(h, k, <<Extract(Head0(h, k), Lines[l])>>)]])

TailOnly(h) ==
  FlattenSeq([n \in DOMAIN LAST_TAILS |->
    IF Splits(h, LAST_TAILS[n]) THEN <<Shortened(h, LAST_TAILS[n], <<>>)>> ELSE <<>>])

(* Faulty variant: the system's entries are forgotten. *)
EmergencyAlone(h) ==
  IF OfRole(h, "user") = <<>> THEN <<>> ELSE <<LastOf(OfRole(h, "user"))>>

Emergency(h) ==
  IF OfRole(h, "user") = <<>> THEN <<>>
  ELSE <<OfRole(h, "system") \o LastOf(OfRole(h, "user"))>>

\* appendCandidate leaves out what is there already.
Candidates(h, k) ==
  IF Len(h) < 2 THEN <<>>
  ELSE Once(ByModel(h, k) \o Extractive(h) \o TailOnly(h) \o Emergency(h))

-----------------------------------------------------------------------------
(* The choice.                                                             *)

\* What the backend counts for each variant it is sent: an entry and a line of a
\* summary have their weights.
Weight(c, e) == IF e.id # None THEN c.entry ELSE c.summary + Len(e.of)
Used(c, h) == FoldLeft(LAMBDA n, e : n + Weight(c, e), 0, h)
Fits(c, h) == Used(c, h) <= c.window

(* Faulty variant: the harshest candidate that helps is taken. *)
ScanOn(c, cands) ==
  FoldLeft(LAMBDA best, x :
    IF best = <<>> \/ Used(c, x) < Used(c, best) THEN x ELSE best,
    <<>>, cands)

\* The loop over the candidates: the least so far is kept, and the first that fits
\* ends it.
Scan(c, cands) ==
  FoldLeft(LAMBDA best, x :
    IF best # <<>> /\ Fits(c, best) THEN best
    ELSE IF best = <<>> \/ Used(c, x) < Used(c, best) THEN x ELSE best,
    <<>>, cands)

\* compressHistory: <<>> if no candidate takes less than the history did.
Compressed(c, h, k, used) ==
  LET best == Scan(c, Candidates(h, k))
  IN IF Used(c, best) >= used THEN <<>> ELSE best
=============================================================================
