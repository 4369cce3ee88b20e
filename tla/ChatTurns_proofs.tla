---------------------------- MODULE ChatTurns_proofs ----------------------------
(******************************************************************************)
(* Proofs about the client's chats and turns.  Of the turns: what is called   *)
(* the active generation runs, a stop holds, what a turn says stays in its    *)
(* chat, and no row waits for ever.  Of the chats, with turns and without:    *)
(* some chat is active, no two chats get one id, and what is done in place    *)
(* of a failed call shortens the chat the call was about; without turns,      *)
(* the page goes on showing the active chat, and the answer to a call         *)
(* brings the page up to date.                                                *)
(******************************************************************************)
EXTENDS ChatTurns, FiniteSetTheorems, WellFoundedInduction, TLAPS

Folding == INSTANCE HistoryCompression_proofs WITH Lines <- <<>>

--------------------------------------------------------------------------------
(* What the functions of a page keep.                                      *)

\* A page with all its parts.
Whole(p) ==
  /\ p \in [store : {p.store}, active : {p.active}, seq : {p.seq}, rows : {p.rows},
            due : {p.due}, gen : {p.gen}]
  /\ p.gen \in [req : {p.gen.req}, chat : {p.gen.chat}, row : {p.gen.row},
                text : {p.gen.text}, shown : {p.gen.shown}, made : {p.gen.made}]

\* Page q has the generation of page p, if that has one, and about the same chat.
KeepsGen(p, q) ==
  /\ Whole(q)
  /\ q.gen.req = p.gen.req /\ q.gen.chat = p.gen.chat
  /\ p.gen = NoGen => q.gen = NoGen

LEMMA KeptTwice ==
  ASSUME NEW o, NEW p, NEW q, KeepsGen(o, p), KeepsGen(p, q)
  PROVE  KeepsGen(o, q)
BY DEF KeepsGen

LEMMA KeptSame == ASSUME NEW p, Whole(p) PROVE KeepsGen(p, p)
BY DEF KeepsGen

LEMMA KeptByRecover ==
  ASSUME NEW p, Whole(p)
  PROVE  KeepsGen(p, Recover(p))
<1> DEFINE q == Recover(p)
<1>1. CASE q = p
  BY <1>1, KeptSame
<1>2. CASE q # p
  <2>1. p.gen # NoGen
    BY <1>2 DEF Recover
  <2>2. PICK row, made, shown, rs :
          q = [p EXCEPT !.gen.row = row, !.gen.made = made, !.gen.shown = shown, !.rows = rs]
    BY <1>2 DEF Recover
  <2> HIDE DEF q
  <2>3. Whole(q)
    BY <2>2 DEF Whole
  <2>4. q.gen.req = p.gen.req /\ q.gen.chat = p.gen.chat
    BY <2>2 DEF Whole
  <2>5. KeepsGen(p, q)
    BY <2>1, <2>3, <2>4 DEF KeepsGen
  <2> QED
    BY <2>5 DEF q
<1> QED
  BY <1>1, <1>2

LEMMA KeptByActivate ==
  ASSUME NEW p, Whole(p), NEW target, NEW render
  PROVE  KeepsGen(p, Activate(p, target, render))
<1>1. PICK a, sq, d, rs :
        Activate(p, target, render) =
          Recover([p EXCEPT !.active = a, !.seq = sq, !.due = d, !.rows = rs])
  BY DEF Activate
<1> DEFINE q == [p EXCEPT !.active = a, !.seq = sq, !.due = d, !.rows = rs]
<1>2. Whole(q) /\ KeepsGen(p, q)
  BY DEF Whole, KeepsGen
<1>3. KeepsGen(q, Recover(q))
  BY <1>2, KeptByRecover
<1> QED
  BY <1>1, <1>2, <1>3, KeptTwice

LEMMA KeptByPersist ==
  ASSUME NEW p, Whole(p), NEW c, NEW m
  PROVE  KeepsGen(p, Persist(p, c, m))
<1>1. PICK t, s :
        \/ Persist(p, c, m) = p
        \/ Persist(p, c, m) = [p EXCEPT !.store = s]
        \/ Persist(p, c, m) = Activate([p EXCEPT !.store = s], t, FALSE)
  BY DEF Persist
<1> DEFINE q == [p EXCEPT !.store = s]
<1>2. Whole(q) /\ KeepsGen(p, q)
  BY DEF Whole, KeepsGen
<1>3. KeepsGen(q, Activate(q, t, FALSE))
  BY <1>2, KeptByActivate
<1> HIDE DEF q
<1>4. KeepsGen(p, Activate(q, t, FALSE))
  BY <1>2, <1>3, KeptTwice
<1>5. KeepsGen(p, p)
  BY KeptSame
<1> QED
  BY <1>1, <1>2, <1>4, <1>5 DEF q

LEMMA KeptByRenamed ==
  ASSUME NEW p, Whole(p), NEW c
  PROVE  KeepsGen(p, Renamed(p, c))
<1> DEFINE q == [p EXCEPT !.store = ToFront(@, Chat(c, "new", History(@, c)))]
<1>1. Whole(q) /\ KeepsGen(p, q)
  BY DEF Whole, KeepsGen
<1>2. KeepsGen(q, Activate(q, c, TRUE))
  BY <1>1, KeptByActivate
<1> HIDE DEF q
<1>3. KeepsGen(p, Activate(q, c, TRUE))
  BY <1>1, <1>2, KeptTwice
<1> QED
  BY <1>3 DEF Renamed, q

LEMMA KeptBySnapshot ==
  ASSUME NEW p, Whole(p), NEW snap, NEW preserve, NEW prefer
  PROVE  KeepsGen(p, Snapshot(p, snap, preserve, prefer))
<1>1. PICK s, a, t :
        \/ Snapshot(p, snap, preserve, prefer)
             = [p EXCEPT !.store = <<>>, !.active = None, !.rows = <<>>, !.due = FALSE]
        \/ Snapshot(p, snap, preserve, prefer)
             = Activate([p EXCEPT !.store = s, !.seq = 0, !.active = a], t, TRUE)
  BY DEF Snapshot
<1> DEFINE q == [p EXCEPT !.store = s, !.seq = 0, !.active = a]
           o == [p EXCEPT !.store = <<>>, !.active = None, !.rows = <<>>, !.due = FALSE]
<1>2. Whole(q) /\ KeepsGen(p, q)
  BY DEF Whole, KeepsGen
<1>3. KeepsGen(q, Activate(q, t, TRUE))
  BY <1>2, KeptByActivate
<1>4. KeepsGen(p, o)
  BY DEF Whole, KeepsGen
<1> HIDE DEF q, o
<1>5. KeepsGen(p, Activate(q, t, TRUE))
  BY <1>2, <1>3, KeptTwice
<1> QED
  BY <1>1, <1>4, <1>5 DEF q, o

LEMMA KeptByShow ==
  ASSUME NEW p, Whole(p), NEW key, NEW text, NEW wait
  PROVE  KeepsGen(p, Show(p, key, text, wait))
<1> DEFINE q == Show(p, key, text, wait)
<1>1. PICK rs, shown : /\ q = [p EXCEPT !.rows = rs, !.gen.shown = shown]
                       /\ p.gen = NoGen => shown = p.gen.shown
  BY DEF Show
<1>2. Whole(q)
  BY <1>1 DEF Whole
<1>3. q.gen.req = p.gen.req /\ q.gen.chat = p.gen.chat
  BY <1>1 DEF Whole
<1>4. p.gen = NoGen => q.gen = NoGen
  BY <1>1 DEF Whole
<1> QED
  BY <1>2, <1>3, <1>4 DEF KeepsGen

LEMMA KeptByRows ==
  ASSUME NEW p, Whole(p), NEW rs
  PROVE  KeepsGen(p, [p EXCEPT !.rows = rs])
BY DEF Whole, KeepsGen

LEMMA KeptByNamed0 ==
  ASSUME NEW p, Whole(p), NEW key, NEW id
  PROVE  KeepsGen(p, Named0(p, key, id))
BY DEF Whole, KeepsGen, Named0

LEMMA KeptByAdd ==
  ASSUME NEW p, Whole(p), NEW key, NEW chat, NEW m, NEW wait
  PROVE  KeepsGen(p, Add(p, key, chat, m, wait))
BY DEF Whole, KeepsGen, Add

LEMMA KeptByPrunedFor ==
  ASSUME NEW p, Whole(p), NEW c
  PROVE  KeepsGen(p, PrunedFor(p, c))
BY DEF Whole, KeepsGen, PrunedFor

LEMMA KeptByLooked ==
  ASSUME NEW p, Whole(p), NEW r
  PROVE  KeepsGen(p, Looked(p, r))
BY KeptByRecover, KeptSame DEF Looked

--------------------------------------------------------------------------------
(* What the steps of a turn make of the page.                              *)

\* A generation that is the turn's own takes its text.
LEMMA KeptWithText ==
  ASSUME NEW p, Whole(p), NEW r, r # None, NEW text
  PROVE  LET q == IF Owns(p, r) THEN [p EXCEPT !.gen.text = text] ELSE p
         IN  Whole(q) /\ KeepsGen(p, q)
<1> DEFINE q == [p EXCEPT !.gen.text = text]
<1>1. ASSUME Owns(p, r) PROVE p.gen # NoGen
  BY <1>1 DEF Owns, NoGen
<1>2. Whole(q) /\ q.gen.req = p.gen.req /\ q.gen.chat = p.gen.chat
  BY DEF Whole
<1> HIDE DEF q
<1>3. Owns(p, r) => KeepsGen(p, q)
  BY <1>1, <1>2 DEF KeepsGen
<1>4. KeepsGen(p, p)
  BY KeptSame
<1> QED
  BY <1>2, <1>3, <1>4 DEF q

LEMMA KeptBySpoken ==
  ASSUME NEW p, Whole(p), NEW r, r # None, NEW text, NEW title
  PROVE  KeepsGen(p, Spoken(p, r, text, title))
<1> DEFINE c == turn[r].chat
           p1 == IF Owns(p, r) THEN [p EXCEPT !.gen.text = text] ELSE p
           p2 == IF title /\ c \in Ids(p1.store) THEN Renamed(p1, c) ELSE p1
           p3 == Looked(p2, r)
<1>1. Whole(p1) /\ KeepsGen(p, p1)
  BY KeptWithText
<1> HIDE DEF p1
<1>2. Whole(p2) /\ KeepsGen(p1, p2)
  BY <1>1, KeptByRenamed, KeptSame DEF KeepsGen
<1> HIDE DEF p2
<1>3. Whole(p3) /\ KeepsGen(p2, p3)
  BY <1>2, KeptByLooked DEF KeepsGen
<1> HIDE DEF p3
<1>4. KeepsGen(p3, Show(p3, RowOf(p3, r), text, FALSE))
  BY <1>3, KeptByShow
<1>5. KeepsGen(p, Show(p3, RowOf(p3, r), text, FALSE))
  BY <1>1, <1>2, <1>3, <1>4, KeptTwice
<1> QED
  BY <1>5 DEF Spoken, p1, p2, p3, c

LEMMA KeptByContinued ==
  ASSUME NEW p, Whole(p), NEW r, NEW text
  PROVE  KeepsGen(p, Continued(p, r, text))
<1>1. PICK s : Continued(p, r, text) = [p EXCEPT !.store = s]
  BY DEF Continued
<1> QED
  BY <1>1 DEF Whole, KeepsGen

LEMMA KeptByReplied ==
  ASSUME NEW p, Whole(p), NEW r, NEW text
  PROVE  KeepsGen(p, Replied(p, r, text))
<1> DEFINE m == Msg(ReplyId(r), "assistant", text)
           o == Persist(p, turn[r].chat, m)
           q == Named0(o, RowOf(p, r), ReplyId(r))
           kept == IF text = Blank \/ p.store = <<>> THEN p ELSE q
<1>1. KeepsGen(p, o) /\ Whole(o)
  BY KeptByPersist DEF KeepsGen
<1> HIDE DEF o
<1>2. KeepsGen(o, q)
  BY <1>1, KeptByNamed0
<1> HIDE DEF q
<1>3. KeepsGen(p, kept) /\ Whole(kept)
  <2>1. KeepsGen(p, p) /\ KeepsGen(p, q)
    BY <1>1, <1>2, KeptSame, KeptTwice
  <2> QED
    BY <2>1 DEF KeepsGen
<1> HIDE DEF kept
<1>4. KeepsGen(kept, PrunedFor(kept, turn[r].chat))
  BY <1>3, KeptByPrunedFor
<1>5. KeepsGen(p, PrunedFor(kept, turn[r].chat))
  BY <1>3, <1>4, KeptTwice
<1> QED
  BY <1>5 DEF Replied, kept, q, o, m

LEMMA KeptByHeard ==
  ASSUME NEW p, Whole(p), NEW r, r # None, NEW said
  PROVE  KeepsGen(p, Heard(p, r, said))
<1> DEFINE text == Said(r, turn[r].frozen, said)
           o == IF Owns(p, r) THEN [p EXCEPT !.gen.text = text] ELSE p
           q == Looked(o, r)
<1>1. Whole(o) /\ KeepsGen(p, o)
  BY KeptWithText
<1> HIDE DEF o
<1>2. Whole(q) /\ KeepsGen(o, q)
  BY <1>1, KeptByLooked DEF KeepsGen
<1> HIDE DEF q
<1>3. KeepsGen(q, Show(q, RowOf(q, r), text, text = Blank))
  BY <1>2, KeptByShow
<1>4. KeepsGen(p, Show(q, RowOf(q, r), text, text = Blank))
  BY <1>1, <1>2, <1>3, KeptTwice
<1> QED
  BY <1>4 DEF Heard, q, o, text

LEMMA KeptByFrozen ==
  ASSUME NEW p, Whole(p), NEW r, r # None, NEW key
  PROVE  KeepsGen(p, Frozen(p, r, key))
<1> DEFINE o == Show(p, Resolved(p, r), Reply1(r), FALSE)
           q == Add(o, key, turn[r].chat, Msg(None, "assistant", Blank), TRUE)
           z == [q EXCEPT !.gen.row = key, !.gen.text = Blank, !.gen.shown = Blank]
<1>1. KeepsGen(p, o)
  BY KeptByShow
<1> HIDE DEF o
<1>2. Whole(o)
  BY <1>1 DEF KeepsGen
<1>3. KeepsGen(o, q)
  BY <1>2, KeptByAdd
<1> HIDE DEF q
<1>4. Whole(q)
  BY <1>3 DEF KeepsGen
<1>5. Owns(q, r) => KeepsGen(q, z)
  <2>1. Owns(q, r) => q.gen # NoGen
    BY DEF Owns, NoGen
  <2>2. Whole(z)
    BY <1>4 DEF Whole
  <2>3. z.gen.req = q.gen.req /\ z.gen.chat = q.gen.chat
    BY <1>4 DEF Whole
  <2> HIDE DEF z
  <2> QED
    BY <2>1, <2>2, <2>3 DEF KeepsGen
<1> HIDE DEF z
<1>6. KeepsGen(p, q) /\ (Owns(q, r) => KeepsGen(p, z))
  BY <1>1, <1>3, <1>5, KeptTwice
<1>7. Frozen(p, r, key) = IF ~Owns(q, r) THEN q ELSE z
  BY DEF Frozen, z, q, o
<1> QED
  BY <1>6, <1>7

LEMMA StoppedIsOver ==
  ASSUME NEW p, Whole(p)
  PROVE  Whole(Stopped(p)) /\ Stopped(p).gen = NoGen
<1> DEFINE off == [p EXCEPT !.gen = NoGen]
           Over(q) == Whole(q) /\ q.gen = NoGen
<1>1. Over(off)
  BY DEF Whole, NoGen
<1>2. ASSUME NEW o, NEW q, Over(o), KeepsGen(o, q) PROVE Over(q)
  BY <1>2 DEF KeepsGen
<1> HIDE DEF off
<1> DEFINE g == p.gen
           text == IF g.text = Blank THEN StoppedLabel ELSE g.text
           m == Msg(StopId(g.req), "assistant", text)
           shown == Show(off, g.row, text, FALSE)
           stored == Persist(shown, g.chat, m)
           kept == Named0(stored, g.row, StopId(g.req))
           gone == [off EXCEPT !.rows = Removed(@, {i \in DOMAIN @ : @[i].key = g.row})]
<1> HIDE DEF Over
<1>3. Over(shown)
  <2>1. Whole(off)
    BY <1>1 DEF Over
  <2>2. KeepsGen(off, shown)
    BY <2>1, KeptByShow
  <2> QED
    BY <1>1, <1>2, <2>2
<1> HIDE DEF shown
<1>4. Over(stored)
  BY <1>2, <1>3, KeptByPersist DEF Over
<1> HIDE DEF stored
<1>5. Over(kept)
  BY <1>2, <1>4, KeptByNamed0 DEF Over
<1> HIDE DEF kept
<1>6. Over(gone)
  BY <1>1, <1>2, KeptByRows DEF Over
<1> HIDE DEF gone
<1>7. PICK q \in {shown, kept, gone} : Stopped(p) = PrunedFor(q, g.chat)
  BY DEF Stopped, shown, kept, gone, stored, off
<1>8. Over(q)
  BY <1>3, <1>5, <1>6, <1>7
<1>9. Over(PrunedFor(q, g.chat))
  BY <1>2, <1>8, KeptByPrunedFor DEF Over
<1> QED
  BY <1>7, <1>9 DEF Over

\* The generation goes at the end of its turn.
LEMMA FinalEndsOwn ==
  ASSUME NEW p, Whole(p), NEW r, NEW q, q = Final(p, r)
  PROVE  /\ Whole(q)
         /\ \/ q.gen = NoGen
            \/ KeepsGen(p, q) /\ p.gen # NoGen /\ p.gen.req # r
<1> DEFINE o == [p EXCEPT !.gen = NoGen]
<1>1. Whole(o) /\ o.gen = NoGen
  BY DEF Whole, NoGen
<1>2. KeepsGen(o, PrunedFor(o, turn[r].chat))
  BY <1>1, KeptByPrunedFor
<1> HIDE DEF o
<1>3. \/ q = p /\ p.gen # NoGen /\ ~Owns(p, r)
      \/ q = PrunedFor(o, turn[r].chat)
  BY DEF Final, o
<1>4. CASE q = p /\ p.gen # NoGen /\ ~Owns(p, r)
  BY <1>4, KeptSame DEF Owns
<1>5. CASE q = PrunedFor(o, turn[r].chat)
  BY <1>1, <1>2, <1>5 DEF KeepsGen
<1> QED
  BY <1>3, <1>4, <1>5

--------------------------------------------------------------------------------
(* The invariant of the turns.                                             *)

Stages == UnderWay \cup {"idle", "done"}

TurnRecord(t) ==
  t \in [pc : Stages, kind : {"send", "continue"}, chat : {t.chat}, mid : {t.mid},
         said : {t.said}, frozen : {t.frozen}, attempt : {t.attempt}, models : Nat,
         row : {t.row}, made : {t.made}, stopped : BOOLEAN, retried : {t.retried},
         taken : {t.taken}, snap : {t.snap}, alone : {t.alone}]

TurnsShape == turn = [r \in Turns |-> turn[r]] /\ \A r \in Turns : TurnRecord(turn[r])

Runs(t, c) == t.pc \in Running /\ ~t.stopped /\ t.chat = c

GenRuns == gen # NoGen => gen.req \in Turns /\ Runs(turn[gen.req], gen.chat)

\* A turn cannot be stopped before it has a generation.
Asked == \A r \in Turns : turn[r].pc \in {"prepare", "grants"} => ~turn[r].stopped

TurnsInv == TurnsShape /\ Whole(Page) /\ GenRuns /\ Asked

LEMMA TurnsAreNamed == None \notin Turns
BY TurnsAssumption DEF None

LEMMA PageBecomes ==
  ASSUME NEW q, Whole(q), Become(q)
  PROVE  Page' = q /\ Whole(Page)'
BY DEF Become, Page, Whole

\* A step of turn r which leaves it running, if it was, and the generation as it is.
LEMMA TurnGoesOn ==
  ASSUME TurnsInv, NEW r \in Turns, NEW q, KeepsGen(Page, q), Become(q), NEW t,
         turn' = [turn EXCEPT ![r] = t], TurnRecord(t),
         turn[r].pc \in Running =>
           t.pc \in Running /\ t.stopped = turn[r].stopped /\ t.chat = turn[r].chat,
         t.pc \in {"prepare", "grants"} => ~t.stopped
  PROVE  TurnsInv'
<1>1. turn'[r] = t /\ \A o \in Turns \ {r} : turn'[o] = turn[o]
  BY DEF TurnsInv, TurnsShape
<1>2. TurnsShape'
  BY <1>1 DEF TurnsInv, TurnsShape
<1>3. Whole(Page)'
  BY PageBecomes DEF KeepsGen
<1>4. Asked'
  BY <1>1 DEF TurnsInv, Asked
<1>5. gen' = q.gen /\ gen = Page.gen
  BY DEF Become, Page
<1>6. GenRuns'
  <2>1. CASE gen = NoGen
    <3>1. gen' = NoGen
      BY <1>5, <2>1 DEF KeepsGen
    <3> QED
      BY <3>1 DEF GenRuns
  <2>2. CASE gen # NoGen
    <3>1. gen.req \in Turns /\ Runs(turn[gen.req], gen.chat)
      BY <2>2 DEF TurnsInv, GenRuns
    <3>2. Runs(turn'[gen.req], gen.chat)
      BY <1>1, <3>1 DEF Runs
    <3>3. gen'.req = gen.req /\ gen'.chat = gen.chat
      BY <1>5 DEF KeepsGen
    <3> QED
      BY <3>1, <3>2, <3>3 DEF GenRuns, Runs
  <2> QED
    BY <2>1, <2>2
<1> QED
  BY <1>2, <1>3, <1>4, <1>6 DEF TurnsInv

\* The end of turn r, with its generation.
LEMMA TurnIsOver ==
  ASSUME TurnsInv, NEW r \in Turns, NEW p, KeepsGen(Page, p), Become(Final(p, r)),
         turn' = [turn EXCEPT ![r] = Ended(@)]
  PROVE  TurnsInv'
<1> DEFINE q == Final(p, r)
<1>1. turn'[r] = Ended(turn[r]) /\ \A o \in Turns \ {r} : turn'[o] = turn[o]
  BY DEF TurnsInv, TurnsShape
<1>2. TurnRecord(Ended(turn[r])) /\ Ended(turn[r]).pc = "done"
  BY DEF TurnsInv, TurnsShape, TurnRecord, Ended, Unused, Stages
<1>3. TurnsShape'
  BY <1>1, <1>2 DEF TurnsInv, TurnsShape
<1>4. /\ Whole(q)
      /\ \/ q.gen = NoGen
         \/ KeepsGen(p, q) /\ p.gen # NoGen /\ p.gen.req # r
  <2>1. Whole(p)
    BY DEF KeepsGen
  <2> QED
    BY <2>1, FinalEndsOwn
<1> HIDE DEF q
<1>5. Whole(Page)' /\ gen' = q.gen /\ gen = Page.gen
  BY <1>4, PageBecomes DEF Become, Page, q
<1>6. Asked'
  BY <1>1, <1>2 DEF TurnsInv, Asked
<1>7. GenRuns'
  <2>1. CASE q.gen = NoGen
    BY <1>5, <2>1 DEF GenRuns
  <2>2. CASE KeepsGen(p, q) /\ p.gen # NoGen /\ p.gen.req # r
    <3>1. gen # NoGen /\ gen'.req = gen.req /\ gen'.chat = gen.chat /\ gen.req # r
      BY <1>5, <2>2 DEF KeepsGen
    <3> QED
      BY <1>1, <3>1 DEF TurnsInv, GenRuns
  <2> QED
    BY <1>4, <2>1, <2>2
<1> QED
  BY <1>3, <1>5, <1>6, <1>7 DEF TurnsInv

--------------------------------------------------------------------------------
(* The steps of a turn keep the invariant.                                 *)

LEMMA PageStays ==
  ASSUME TurnsInv
  PROVE  /\ KeepsGen(Page, Page)
         /\ UNCHANGED <<store, active, seq, rows, due, gen>> => Become(Page)
BY KeptSame DEF TurnsInv, Become, Page

\* Turn r goes on at another stage.
LEMMA StageRecord ==
  ASSUME TurnsInv, NEW r \in Turns, NEW pc \in Stages, NEW t,
         t = [turn[r] EXCEPT !.pc = pc]
  PROVE  /\ TurnRecord(t)
         /\ t.pc = pc /\ t.stopped = turn[r].stopped /\ t.chat = turn[r].chat
BY DEF TurnsInv, TurnsShape, TurnRecord

LEMMA EndedRecord ==
  ASSUME TurnsInv, NEW r \in Turns
  PROVE  TurnRecord(Ended(turn[r])) /\ Ended(turn[r]).pc = "done"
BY DEF TurnsInv, TurnsShape, TurnRecord, Ended, Unused, Stages

LEMMA FinishKeeps ==
  ASSUME TurnsInv, NEW r \in Turns, NEW text, NEW title, Finish(r, text, title)
  PROVE  TurnsInv'
<1> DEFINE p == Spoken(Page, r, text, title)
           q == IF turn[r].kind = "continue" THEN Continued(p, r, text)
                ELSE Replied(p, r, text)
           t == [turn[r] EXCEPT !.pc = "sync"]
<1>1. r # None /\ Whole(Page)
  BY TurnsAreNamed DEF TurnsInv
<1>2. KeepsGen(Page, p)
  BY <1>1, KeptBySpoken
<1>3. Become(q) /\ turn' = [turn EXCEPT ![r] = t]
  BY DEF Finish
<1> HIDE DEF p
<1>4. Whole(p)
  BY <1>2 DEF KeepsGen
<1>5. KeepsGen(p, Continued(p, r, text)) /\ KeepsGen(p, Replied(p, r, text))
  BY <1>4, KeptByContinued, KeptByReplied
<1>6. KeepsGen(Page, q)
  BY <1>2, <1>5, KeptTwice
<1> HIDE DEF q
<1>7. "sync" \in Stages /\ "sync" \in Running /\ "sync" \notin {"prepare", "grants"}
  BY DEF Stages, UnderWay, Running
<1>8. TurnRecord(t) /\ t.pc = "sync" /\ t.stopped = turn[r].stopped /\ t.chat = turn[r].chat
  BY <1>7, StageRecord
<1> HIDE DEF t
<1> QED
  BY <1>3, <1>6, <1>7, <1>8, TurnGoesOn

\* Turn r goes on at another stage, on the page as it is.
LEMMA StageKeeps ==
  ASSUME TurnsInv, NEW r \in Turns, NEW pc \in Running,
         turn' = [turn EXCEPT ![r].pc = pc],
         UNCHANGED <<store, active, seq, rows, due, gen>>
  PROVE  TurnsInv'
<1> DEFINE t == [turn[r] EXCEPT !.pc = pc]
<1>1. pc \in Stages /\ pc \notin {"prepare", "grants"}
  BY DEF Stages, UnderWay, Running, Waiting
<1>2. TurnRecord(t) /\ t.pc = pc /\ t.stopped = turn[r].stopped /\ t.chat = turn[r].chat
  BY <1>1, StageRecord
<1>3. turn' = [turn EXCEPT ![r] = t]
  OBVIOUS
<1> HIDE DEF t
<1>4. KeepsGen(Page, Page) /\ Become(Page)
  BY PageStays
<1> QED
  BY <1>1, <1>2, <1>3, <1>4, TurnGoesOn

LEMMA CancelKeeps ==
  ASSUME TurnsInv, NEW r \in Turns, Cancel(r)
  PROVE  TurnsInv'
<1>1. CASE turn[r].kind = "send"
  <2>1. turn' = [turn EXCEPT ![r].pc = "sync"]
    BY <1>1 DEF Cancel
  <2>2. UNCHANGED <<store, active, seq, rows, due, gen>>
    BY <1>1 DEF Cancel, Become, Page
  <2>3. "sync" \in Running
    BY DEF Running
  <2> QED
    BY <2>1, <2>2, <2>3, StageKeeps
<1>2. CASE turn[r].kind # "send"
  <2>1. Become(Final(Recover(Page), r)) /\ turn' = [turn EXCEPT ![r] = Ended(@)]
    BY <1>2 DEF Cancel
  <2>2. KeepsGen(Page, Recover(Page))
    BY KeptByRecover DEF TurnsInv
  <2> QED
    BY <2>1, <2>2, TurnIsOver
<1> QED
  BY <1>1, <1>2

LEMMA PlannedKeeps ==
  ASSUME TurnsInv, NEW r \in Turns, Planned(r)
  PROVE  TurnsInv'
<1> DEFINE t == [turn[r] EXCEPT !.pc = "grants"]
<1>1. "grants" \in Stages /\ "prepare" \notin Running
  BY DEF Stages, UnderWay, Running, Waiting
<1>2. TurnRecord(t) /\ t.pc = "grants" /\ t.stopped = turn[r].stopped /\ t.chat = turn[r].chat
  BY <1>1, StageRecord
<1>3. turn' = [turn EXCEPT ![r] = t] /\ turn[r].pc = "prepare" /\ ~turn[r].stopped
  BY DEF Planned, TurnsInv, Asked
<1> HIDE DEF t
<1>4. KeepsGen(Page, Page) /\ Become(Page)
  BY PageStays DEF Planned, sessionVars
<1> QED
  BY <1>1, <1>2, <1>3, <1>4, TurnGoesOn

LEMMA RefuseKeeps ==
  ASSUME TurnsInv, NEW r \in Turns, Refuse(r)
  PROVE  TurnsInv'
<1> DEFINE m == Msg(ReplyId(r), "assistant", Sorry(r))
           o == Persist(Page, turn[r].chat, m)
           q == Add(o, <<None, m.id>>, turn[r].chat, m, FALSE)
           t == Ended(turn[r])
<1>1. turn[r].pc = "prepare" /\ Become(Recover(q)) /\ turn' = [turn EXCEPT ![r] = t]
  BY DEF Refuse
<1>2. KeepsGen(Page, o)
  BY KeptByPersist DEF TurnsInv
<1> HIDE DEF o
<1>3. Whole(o)
  BY <1>2 DEF KeepsGen
<1>4. KeepsGen(o, q)
  BY <1>3, KeptByAdd
<1> HIDE DEF q
<1>5. Whole(q)
  BY <1>4 DEF KeepsGen
<1>6. KeepsGen(q, Recover(q))
  BY <1>5, KeptByRecover
<1>7. KeepsGen(Page, Recover(q))
  BY <1>2, <1>4, <1>6, KeptTwice
<1>8. "prepare" \notin Running
  BY DEF Running, Waiting
<1>9. TurnRecord(t) /\ t.pc = "done"
  BY EndedRecord
<1> HIDE DEF t
<1> QED
  BY <1>1, <1>7, <1>8, <1>9, TurnGoesOn

LEMMA ProfiledKeeps ==
  ASSUME TurnsInv, NEW r \in Turns, Profiled(r)
  PROVE  TurnsInv'
<1>1. CASE turn[r].stopped
  BY <1>1, CancelKeeps DEF Profiled
<1>2. CASE ~turn[r].stopped
  <2>1. PICK arrives : turn' = [turn EXCEPT ![r].pc = "stream", ![r].taken = arrives]
    BY <1>2 DEF Profiled
  <2> DEFINE t == [turn[r] EXCEPT !.pc = "stream", !.taken = arrives]
  <2>2. turn' = [turn EXCEPT ![r] = t]
    BY <2>1 DEF TurnsInv, TurnsShape
  <2>3. /\ TurnRecord(t)
        /\ t.pc = "stream" /\ t.stopped = turn[r].stopped /\ t.chat = turn[r].chat
    BY DEF TurnsInv, TurnsShape, TurnRecord, Stages, UnderWay, Running, Waiting
  <2> HIDE DEF t
  <2>4. KeepsGen(Page, Page) /\ Become(Page)
    BY <1>2, PageStays DEF Profiled
  <2>5. "stream" \in Running
    BY DEF Running, Waiting
  <2> QED
    BY <2>2, <2>3, <2>4, <2>5, TurnGoesOn
<1> QED
  BY <1>1, <1>2

LEMMA PartialKeeps ==
  ASSUME TurnsInv, NEW r \in Turns, Partial(r)
  PROVE  TurnsInv'
<1> DEFINE q == Heard(Page, r, turn[r].said + 1)
           row == RowOf(Looked(Page, r), r)
           t == [turn[r] EXCEPT !.said = @ + 1, !.row = row]
<1>1. KeepsGen(Page, q)
  BY TurnsAreNamed, KeptByHeard DEF TurnsInv
<1>2. Become(q) /\ turn[r].pc = "stream"
  BY DEF Partial, Streaming
<1> HIDE DEF q
<1>3. turn' = [turn EXCEPT ![r] = t]
  BY DEF Partial, TurnsInv, TurnsShape
<1> HIDE DEF row
<1>4. TurnRecord(t) /\ t.pc = turn[r].pc /\ t.stopped = turn[r].stopped /\ t.chat = turn[r].chat
  BY DEF TurnsInv, TurnsShape, TurnRecord
<1> HIDE DEF t
<1> QED
  BY <1>1, <1>2, <1>3, <1>4, TurnGoesOn

LEMMA ToolStartKeeps ==
  ASSUME TurnsInv, NEW r \in Turns, ToolStart(r)
  PROVE  TurnsInv'
<1> DEFINE key == <<r, turn[r].made + 1>>
           p == Recover(Page)
           q == Frozen(p, r, key)
           t == [turn[r] EXCEPT !.frozen = turn[r].said, !.row = key, !.made = @ + 1]
<1>1. KeepsGen(Page, p)
  BY KeptByRecover DEF TurnsInv
<1>2. Become(q) /\ turn[r].pc = "stream"
  BY DEF ToolStart, Streaming
<1>3. turn' = [turn EXCEPT ![r] = t]
  BY DEF ToolStart, TurnsInv, TurnsShape
<1> HIDE DEF p, key
<1>4. KeepsGen(p, q)
  BY <1>1, TurnsAreNamed, KeptByFrozen DEF KeepsGen
<1> HIDE DEF q
<1>5. KeepsGen(Page, q)
  BY <1>1, <1>4, KeptTwice
<1>6. TurnRecord(t) /\ t.pc = turn[r].pc /\ t.stopped = turn[r].stopped /\ t.chat = turn[r].chat
  BY DEF TurnsInv, TurnsShape, TurnRecord
<1> HIDE DEF t
<1> QED
  BY <1>2, <1>3, <1>5, <1>6, TurnGoesOn

LEMMA AntiLoopKeeps ==
  ASSUME TurnsInv, NEW r \in Turns, AntiLoop(r)
  PROVE  TurnsInv'
<1>1. CASE reasoned
  BY <1>1, FinishKeeps DEF AntiLoop
<1>2. CASE ~reasoned
  <2> DEFINE p == Recover(Page)
             q == Show(p, Resolved(p, r), Blank, TRUE)
             t == Again(turn[r])
  <2>1. KeepsGen(Page, p)
    BY KeptByRecover DEF TurnsInv
  <2>2. Become(q) /\ turn' = [turn EXCEPT ![r] = t] /\ turn[r].pc = "stream"
    BY <1>2 DEF AntiLoop, Streaming
  <2> HIDE DEF p
  <2>3. KeepsGen(p, q)
    BY <2>1, KeptByShow DEF KeepsGen
  <2> HIDE DEF q
  <2>4. KeepsGen(Page, q)
    BY <2>1, <2>3, KeptTwice
  <2>5. "profile" \in Running /\ "profile" \in Stages
    BY DEF Running, Waiting, Stages, UnderWay
  <2>6. TurnRecord(t) /\ t.pc = "profile" /\ t.stopped = turn[r].stopped /\ t.chat = turn[r].chat
    BY <2>5 DEF TurnsInv, TurnsShape, TurnRecord, Again
  <2> HIDE DEF t
  <2> QED
    BY <2>2, <2>4, <2>5, <2>6, TurnGoesOn
<1> QED
  BY <1>1, <1>2

LEMMA InterruptedKeeps ==
  ASSUME TurnsInv, NEW r \in Turns, Interrupted(r)
  PROVE  TurnsInv'
<1>1. CASE \E text : Finish(r, text, FALSE)
  BY <1>1, FinishKeeps
<1>2. CASE ~ \E text : Finish(r, text, FALSE)
  <2>1. PICK next \in {"plain", "fallback"} :
          /\ turn' = [turn EXCEPT ![r].pc = next]
          /\ UNCHANGED <<store, active, seq, rows, due, gen>>
    BY <1>2 DEF Interrupted
  <2>2. next \in Running
    BY DEF Running, Waiting
  <2> QED
    BY <2>1, <2>2, StageKeeps
<1> QED
  BY <1>1, <1>2

LEMMA PlainlyKeeps ==
  ASSUME TurnsInv, NEW r \in Turns, Plainly(r)
  PROVE  TurnsInv'
<1>1. CASE Finish(r, Sorry(r), FALSE)
  BY <1>1, FinishKeeps
<1>2. CASE ~Finish(r, Sorry(r), FALSE)
  <2>1. /\ turn' = [turn EXCEPT ![r].pc = "fallback"]
        /\ UNCHANGED <<store, active, seq, rows, due, gen>>
    BY <1>2 DEF Plainly
  <2>2. "fallback" \in Running
    BY DEF Running, Waiting
  <2> QED
    BY <2>1, <2>2, StageKeeps
<1> QED
  BY <1>1, <1>2

LEMMA AbortedKeeps ==
  ASSUME TurnsInv, NEW r \in Turns, Aborted(r)
  PROVE  TurnsInv'
BY FinishKeeps, CancelKeeps DEF Aborted

LEMMA OtherModelKeeps ==
  ASSUME TurnsInv, NEW r \in Turns, OtherModel(r)
  PROVE  TurnsInv'
<1> DEFINE q == Heard(Page, r, turn[r].frozen)
<1>1. KeepsGen(Page, q)
  BY TurnsAreNamed, KeptByHeard DEF TurnsInv
<1>2. Become(q)
  BY DEF OtherModel
<1> HIDE DEF q
<1>3. PICK arrives :
        turn' = [turn EXCEPT ![r].pc = "stream", ![r].models = @ + 1,
                             ![r].attempt = @ + 1, ![r].taken = arrives]
  BY DEF OtherModel
<1> DEFINE t == [turn[r] EXCEPT !.pc = "stream", !.models = @ + 1,
                                !.attempt = @ + 1, !.taken = arrives]
<1>4. turn' = [turn EXCEPT ![r] = t]
  BY <1>3 DEF TurnsInv, TurnsShape
<1>5. "stream" \in Running /\ "stream" \in Stages
  BY DEF Running, Waiting, Stages, UnderWay
<1>6. TurnRecord(turn[r]) /\ turn[r].models + 1 \in Nat
  BY DEF TurnsInv, TurnsShape, TurnRecord
<1>7. TurnRecord(t) /\ t.pc = "stream" /\ t.stopped = turn[r].stopped /\ t.chat = turn[r].chat
  BY <1>5, <1>6 DEF TurnRecord
<1> HIDE DEF t
<1> QED
  BY <1>1, <1>2, <1>4, <1>5, <1>7, TurnGoesOn

LEMMA SyncAnsweredKeeps ==
  ASSUME TurnsInv, NEW r \in Turns, SyncAnswered(r)
  PROVE  TurnsInv'
<1> DEFINE t == [turn[r] EXCEPT !.pc = "listed", !.snap = server]
<1>1. turn' = [turn EXCEPT ![r] = t]
  BY DEF SyncAnswered, TurnsInv, TurnsShape
<1>2. "listed" \in Running /\ "listed" \in Stages
  BY DEF Running, Waiting, Stages, UnderWay
<1>3. TurnRecord(t) /\ t.pc = "listed" /\ t.stopped = turn[r].stopped /\ t.chat = turn[r].chat
  BY <1>2 DEF TurnsInv, TurnsShape, TurnRecord
<1>4. KeepsGen(Page, Page) /\ Become(Page)
  BY PageStays DEF SyncAnswered, sessionVars
<1> HIDE DEF t
<1> QED
  BY <1>1, <1>2, <1>3, <1>4, TurnGoesOn

LEMMA ListedKeeps ==
  ASSUME TurnsInv, NEW r \in Turns, Listed(r)
  PROVE  TurnsInv'
<1> DEFINE p == Snapshot(Page, turn[r].snap, TRUE, turn[r].chat)
<1>1. Become(Final(p, r)) /\ turn' = [turn EXCEPT ![r] = Ended(@)]
  BY DEF Listed
<1>2. KeepsGen(Page, p)
  BY KeptBySnapshot DEF TurnsInv
<1> HIDE DEF p
<1> QED
  BY <1>1, <1>2, TurnIsOver

LEMMA SyncFailedKeeps ==
  ASSUME TurnsInv, NEW r \in Turns, SyncFailed(r)
  PROVE  TurnsInv'
<1> DEFINE p == Recover(Page)
<1>1. Become(Final(p, r)) /\ turn' = [turn EXCEPT ![r] = Ended(@)]
  BY DEF SyncFailed
<1>2. KeepsGen(Page, p)
  BY KeptByRecover DEF TurnsInv
<1> HIDE DEF p
<1> QED
  BY <1>1, <1>2, TurnIsOver

LEMMA AdvanceKeeps ==
  ASSUME TurnsInv, NEW r \in Turns, Advance(r)
  PROVE  TurnsInv'
<1>1. CASE \E text, title : Finish(r, text, title)
  BY <1>1, FinishKeeps
<1>2. CASE ~ \E text, title : Finish(r, text, title)
  <2>1. \A title : ~Done(r, title)
    BY <1>2 DEF Done
  <2>2. ~NoModel(r)
    BY <1>2 DEF NoModel
  <2> QED
    BY <2>1, <2>2, PlannedKeeps, RefuseKeeps, ProfiledKeeps, PartialKeeps, ToolStartKeeps,
       AntiLoopKeeps, InterruptedKeeps, AbortedKeeps, PlainlyKeeps, OtherModelKeeps,
       SyncAnsweredKeeps, ListedKeeps, SyncFailedKeeps DEF Advance
<1> QED
  BY <1>1, <1>2

--------------------------------------------------------------------------------
(* The steps of the user keep the invariant.                               *)

\* Turns of which none asks and is stopped.
Legal(t) ==
  /\ t = [r \in Turns |-> t[r]]
  /\ \A r \in Turns : /\ TurnRecord(t[r])
                      /\ t[r].pc \in {"prepare", "grants"} => ~t[r].stopped

LEMMA TurnsLegal == TurnsInv <=> Legal(turn) /\ Whole(Page) /\ GenRuns
BY DEF TurnsInv, TurnsShape, Asked, Legal

LEMMA HaltedLegal ==
  ASSUME TurnsInv
  PROVE  Legal(Halted(turn)) /\ DOMAIN Halted(turn) = Turns
<1>1. CASE gen = NoGen
  <2>1. Halted(turn) = turn
    BY <1>1 DEF Halted
  <2> QED
    BY <2>1, TurnsLegal DEF Legal
<1>2. CASE gen # NoGen
  <2> DEFINE r == gen.req
             t == [turn[r] EXCEPT !.stopped = TRUE]
             h == [turn EXCEPT ![r] = t]
  <2>1. r \in Turns /\ turn[r].pc \in Running
    BY <1>2 DEF TurnsInv, GenRuns, Runs
  <2>2. Halted(turn) = h
    BY <1>2 DEF Halted
  <2>3. turn = [q \in Turns |-> turn[q]] /\ \A q \in Turns : TurnRecord(turn[q])
    BY DEF TurnsInv, TurnsShape
  <2>4. TurnRecord(t) /\ t.pc = turn[r].pc
    <3>1. TurnRecord(turn[r])
      BY <2>1, <2>3
    <3> HIDE DEF r
    <3> QED
      BY <3>1 DEF TurnRecord
  <2>5. t.pc \notin {"prepare", "grants"}
    BY <2>1, <2>4 DEF Running, Waiting
  <2> HIDE DEF t, r
  <2>6. h = [q \in Turns |-> h[q]] /\ DOMAIN h = Turns
    BY <2>1, <2>3
  <2>7. h[r] = t /\ \A q \in Turns \ {r} : h[q] = turn[q]
    BY <2>1, <2>3
  <2> HIDE DEF h
  <2> QED
    BY <2>2, <2>3, <2>4, <2>5, <2>6, <2>7 DEF Legal, TurnsInv, Asked
<1> QED
  BY <1>1, <1>2

LEMMA CrowdLegal ==
  ASSUME NEW t, NEW r \in Turns, Legal(t)
  PROVE  Legal(Crowd(t, r)) /\ Crowd(t, r)[r] = t[r]
<1> DEFINE u == Crowd(t, r)
<1>1. \A q \in Turns : u[q] = t[q] \/ u[q] = [t[q] EXCEPT !.alone = FALSE]
  BY DEF Crowd
<1>2. u = [q \in Turns |-> u[q]] /\ u[r] = t[r]
  BY DEF Crowd
<1> HIDE DEF u
<1>3. ASSUME NEW q \in Turns
      PROVE  TurnRecord(u[q]) /\ u[q].pc = t[q].pc /\ u[q].stopped = t[q].stopped
  <2>1. TurnRecord(t[q])
    BY <1>3 DEF Legal
  <2>2. CASE u[q] = t[q]
    BY <2>1, <2>2
  <2>3. CASE u[q] = [t[q] EXCEPT !.alone = FALSE]
    BY <2>1, <2>3 DEF TurnRecord
  <2> QED
    BY <1>1, <2>2, <2>3
<1>4. Legal(u)
  BY <1>2, <1>3 DEF Legal
<1> QED
  BY <1>2, <1>4 DEF u

LEMMA SubmitKeeps ==
  ASSUME TurnsInv, NEW r \in Turns, Submit(r)
  PROVE  TurnsInv'
<1> DEFINE Over(q) == Whole(q) /\ q.gen = NoGen
           p0 == IF gen = NoGen THEN Page ELSE Stopped(Page)
           p1 == Ensured(p0)
           m == Msg(UserId(r), "user", Plain(UserId(r), 1))
           p2 == Persist(p1, p1.active, m)
           p3 == Add(p2, <<None, m.id>>, p1.active, m, FALSE)
           p4 == Recover(p3)
           t0 == [Unused EXCEPT !.pc = "prepare", !.chat = p1.active, !.alone = Sole(r)]
           t == [Halted(turn) EXCEPT ![r] = t0]
<1>1. Become(p4) /\ turn' = Crowd(t, r)
  BY DEF Submit
<1>2. ASSUME NEW o, NEW q, Over(o), KeepsGen(o, q) PROVE Over(q)
  BY <1>2 DEF KeepsGen
<1>3. Over(p0)
  BY StoppedIsOver DEF TurnsInv, Page
<1> HIDE DEF Over, p0
<1>4. Over(p1)
  <2> DEFINE o == [p0 EXCEPT !.store = <<Chat(p0.seq + 1, "old", <<>>)>> \o @, !.seq = @ + 1]
             q == Activate(o, p0.seq + 1, TRUE)
  <2>1. Over(o)
    BY <1>3 DEF Over, Whole
  <2> HIDE DEF o
  <2>2. KeepsGen(o, q)
    BY <2>1, KeptByActivate DEF Over
  <2>3. Over(q)
    BY <1>2, <2>1, <2>2
  <2>4. p1 = p0 \/ p1 = q
    BY DEF Ensured, o
  <2> QED
    BY <1>3, <2>3, <2>4
<1> HIDE DEF p1
<1>5. Over(p2)
  BY <1>2, <1>4, KeptByPersist DEF Over
<1> HIDE DEF p2
<1>6. Over(p3)
  <2> HIDE DEF m
  <2>1. Whole(p2)
    BY <1>5 DEF Over
  <2>2. KeepsGen(p2, p3)
    BY <2>1, KeptByAdd
  <2> QED
    BY <1>2, <1>5, <2>2
<1> HIDE DEF p3
<1>7. Over(p4)
  BY <1>2, <1>6, KeptByRecover DEF Over
<1> HIDE DEF p4
<1>8. Whole(Page)' /\ gen' = NoGen
  BY <1>1, <1>7, PageBecomes DEF Over, Become
<1>9. TurnRecord(t0) /\ ~t0.stopped
  BY DEF TurnRecord, Unused, Stages, UnderWay
<1> HIDE DEF t0
<1>10. Legal(t)
  BY <1>9, HaltedLegal DEF Legal
<1> HIDE DEF t
<1>11. Legal(turn')
  BY <1>1, <1>10, CrowdLegal
<1> QED
  BY <1>8, <1>11 DEF TurnsInv, TurnsShape, Asked, Legal, GenRuns

LEMMA StopClickKeeps ==
  ASSUME TurnsInv, StopClick
  PROVE  TurnsInv'
<1> DEFINE p == Stopped(Page)
<1>1. Become(p) /\ turn' = Halted(turn)
  BY DEF StopClick
<1>2. Whole(p) /\ p.gen = NoGen
  BY StoppedIsOver DEF TurnsInv
<1> HIDE DEF p
<1>3. Whole(Page)' /\ gen' = NoGen
  BY <1>1, <1>2, PageBecomes DEF Become
<1>4. Legal(turn')
  BY <1>1, HaltedLegal
<1> QED
  BY <1>3, <1>4 DEF TurnsInv, TurnsShape, Asked, Legal, GenRuns

LEMMA GenerationRecord ==
  ASSUME NEW r, NEW c, NEW row, NEW p, Whole(p)
  PROVE  LET g == Generation(r, c, row)
             q == [p EXCEPT !.gen = g]
         IN  Whole(q) /\ q.gen.req = r /\ q.gen.chat = c
BY DEF Generation, NoGen, Whole

LEMMA AllowedKeeps ==
  ASSUME TurnsInv, NEW r \in Turns, Allowed(r)
  PROVE  TurnsInv'
<1> DEFINE c == turn[r].chat
           o == Add(Page, <<r, 1>>, c, Msg(None, "assistant", Blank), TRUE)
           p == [o EXCEPT !.gen = Generation(r, c, <<r, 1>>)]
           t == [turn[r] EXCEPT !.pc = "profile", !.row = <<r, 1>>, !.made = 1]
<1>1. Become(p) /\ turn[r].pc = "grants"
  BY DEF Allowed
<1>2. turn' = [turn EXCEPT ![r] = t]
  BY DEF Allowed, TurnsInv, TurnsShape
<1>3. Whole(o)
  BY KeptByAdd DEF TurnsInv, KeepsGen
<1> HIDE DEF o
<1>4. Whole(p) /\ p.gen.req = r /\ p.gen.chat = c
  BY <1>3, GenerationRecord
<1> HIDE DEF p
<1>5. Whole(Page)' /\ gen'.req = r /\ gen'.chat = c
  BY <1>1, <1>4, PageBecomes DEF Become
<1>6. ~turn[r].stopped
  BY <1>1 DEF TurnsInv, Asked
<1>7. "profile" \in Running /\ "profile" \in Stages
  BY DEF Running, Waiting, Stages, UnderWay
<1>8. TurnRecord(t) /\ t.pc = "profile" /\ ~t.stopped /\ t.chat = c
  BY <1>6, <1>7 DEF TurnsInv, TurnsShape, TurnRecord
<1> HIDE DEF t
<1>9. turn'[r] = t /\ Legal(turn')
  BY <1>2, <1>8, TurnsLegal DEF Legal
<1>10. GenRuns'
  BY <1>5, <1>7, <1>8, <1>9 DEF GenRuns, Runs
<1> QED
  BY <1>5, <1>9, <1>10 DEF TurnsInv, TurnsShape, Asked, Legal

LEMMA ContinueKeeps ==
  ASSUME TurnsInv, NEW r \in Turns, NEW i, Continue(r, i)
  PROVE  TurnsInv'
<1> DEFINE old == rows[i]
           o == [Page EXCEPT !.rows = Rekey(@, old.key, <<r, 1>>)]
           q == [o EXCEPT !.gen = Generation(r, old.chat, <<r, 1>>)]
           s == Show(q, <<r, 1>>, Blank, TRUE)
           p == Recover(s)
           t0 == [Unused EXCEPT !.pc = "profile", !.kind = "continue", !.chat = old.chat,
                                !.mid = old.id, !.row = <<r, 1>>, !.made = 1,
                                !.alone = Sole(r)]
           t == [turn EXCEPT ![r] = t0]
<1>1. Become(p) /\ turn' = Crowd(t, r)
  BY DEF Continue, Page
<1>2. Whole(o)
  BY DEF TurnsInv, Whole
<1> HIDE DEF o
<1>3. Whole(q) /\ q.gen.req = r /\ q.gen.chat = old.chat
  BY <1>2, GenerationRecord
<1> HIDE DEF q
<1>4. KeepsGen(q, s)
  BY <1>3, KeptByShow
<1> HIDE DEF s
<1>5. KeepsGen(s, p)
  BY <1>4, KeptByRecover DEF KeepsGen
<1> HIDE DEF p
<1>6. KeepsGen(q, p)
  BY <1>4, <1>5, KeptTwice
<1>7. Whole(p) /\ p.gen.req = r /\ p.gen.chat = old.chat
  BY <1>3, <1>6 DEF KeepsGen
<1>8. Whole(Page)' /\ gen'.req = r /\ gen'.chat = old.chat
  BY <1>1, <1>7, PageBecomes DEF Become
<1>9. "profile" \in Running /\ "profile" \in Stages
  BY DEF Running, Waiting, Stages, UnderWay
<1>10. TurnRecord(t0) /\ t0.pc = "profile" /\ ~t0.stopped /\ t0.chat = old.chat
  BY <1>9 DEF TurnRecord, Unused
<1> HIDE DEF t0
<1>11. t[r] = t0 /\ Legal(t)
  BY <1>10, TurnsLegal DEF Legal
<1> HIDE DEF t
<1>12. Legal(turn') /\ turn'[r] = t0
  BY <1>1, <1>11, CrowdLegal
<1>13. GenRuns'
  BY <1>8, <1>9, <1>10, <1>12 DEF GenRuns, Runs
<1> QED
  BY <1>8, <1>12, <1>13 DEF TurnsInv, TurnsShape, Asked, Legal

--------------------------------------------------------------------------------
(* The steps of the store keep the invariant.                              *)

\* The page of another store, and perhaps another active chat or counter.
LEMMA KeptByChanged ==
  ASSUME Whole(Page), NEW s, NEW a
  PROVE  /\ KeepsGen(Page, Changed(s))
         /\ KeepsGen(Page, [Changed(s) EXCEPT !.active = a])
         /\ KeepsGen(Page, [Changed(s) EXCEPT !.seq = a])
         /\ KeepsGen(Page, [Changed(s) EXCEPT !.rows = a, !.due = FALSE])
BY DEF Changed, Whole, KeepsGen

LEMMA ThenActivated ==
  ASSUME NEW p, KeepsGen(Page, p), NEW c, NEW render
  PROVE  KeepsGen(Page, Activate(p, c, render))
<1>1. Whole(p)
  BY DEF KeepsGen
<1>2. KeepsGen(p, Activate(p, c, render))
  BY <1>1, KeptByActivate
<1> QED
  BY <1>2, KeptTwice

LEMMA KeptByAmended ==
  ASSUME Whole(Page), NEW q
  PROVE  KeepsGen(Page, Amended(q))
<1> DEFINE K(p) == KeepsGen(Page, p)
           c == q.chat
           n == q.msg
<1>1. K(Page) /\ K(Renamed(Page, c))
  BY KeptSame, KeptByRenamed
<1>2. ASSUME NEW s, NEW a PROVE K(AmendLocally(a, s))
  <2> DEFINE s1 == WithMsgs(store, a, s)
             p == Changed(s1)
  <2>1. K(p)
    BY KeptByChanged
  <2> HIDE DEF p
  <2>2. K(Activate(p, a, a = active))
    BY <2>1, ThenActivated
  <2> QED
    BY <2>2 DEF AmendLocally, p, s1
<1>3. K(ClearLocally(c))
  <2> HIDE DEF K
  <2> QED
    BY <1>2 DEF ClearLocally
<1>4. K(EditLocally(c, n))
  <2> HIDE DEF K
  <2> QED
    BY <1>2 DEF EditLocally
<1>5. K(RemoveLocally(c, n))
  <2> HIDE DEF K
  <2> QED
    BY <1>2 DEF RemoveLocally
<1>6. K(DeleteLocally(c))
  <2> DEFINE rest == RemoveAt(store, At(store, c))
             left == IF rest = <<>> THEN <<Chat(seq + 1, "old", <<>>)>> ELSE rest
             next == IF active = c THEN Head(left).id ELSE active
             p == [Changed(left) EXCEPT !.active = next]
  <2> HIDE DEF left, next
  <2>1. K(p)
    BY KeptByChanged
  <2> HIDE DEF p
  <2>2. K(Activate(p, next, TRUE))
    BY <2>1, ThenActivated
  <2> QED
    BY <2>2 DEF DeleteLocally, p, left, next
<1>7. K(DuplicateLocally(c))
  <2> DEFINE copy == [i \in DOMAIN History(store, c) |->
                        [History(store, c)[i] EXCEPT !.id = i]]
             s == <<Chat(seq + 1, Title(store, c), copy)>> \o store
             n1 == seq + 1
             p == [Changed(s) EXCEPT !.seq = n1]
             o == [Changed(s) EXCEPT !.seq = @ + 1]
  <2> HIDE DEF s, n1
  <2>1. K(p)
    BY KeptByChanged
  <2>2. p = o
    BY DEF Changed, Page, n1
  <2> HIDE DEF p, o
  <2>3. K(Activate(o, n1, TRUE))
    BY <2>1, <2>2, ThenActivated
  <2> QED
    BY <2>3 DEF DuplicateLocally, o, s, n1
<1>8. K(CreateLocally(c))
  <2> DEFINE hello == Msg(fresh + 1, "assistant", Plain(fresh + 1, 1))
             s == <<Chat(c, "old", <<>>)>> \o store
             made == Activate(Changed(s), c, TRUE)
             said == Persist(made, c, hello)
             p == [said EXCEPT !.rows = Append(@, Row(<<None, hello.id>>, c, hello, FALSE))]
  <2> HIDE DEF s, hello
  <2>1. K(Changed(s))
    BY KeptByChanged
  <2>2. K(made)
    BY <2>1, ThenActivated
  <2> HIDE DEF made
  <2>3. Whole(made)
    BY <2>2 DEF KeepsGen
  <2>4. KeepsGen(made, said)
    BY <2>3, KeptByPersist
  <2> HIDE DEF said
  <2>5. K(said) /\ Whole(said)
    BY <2>2, <2>4, KeptTwice DEF KeepsGen
  <2>6. KeepsGen(said, p)
    BY <2>5, KeptByRows
  <2> HIDE DEF p
  <2>7. K(p)
    BY <2>5, <2>6, KeptTwice
  <2> QED
    BY <2>7 DEF CreateLocally, p, said, made, s, hello
<1>9. K(WipeLocally)
  <2> DEFINE s == [store EXCEPT ![At(store, active)].msgs = <<>>]
  <2> HIDE DEF s
  <2>1. K([Changed(s) EXCEPT !.rows = <<>>, !.due = FALSE])
    BY KeptByChanged
  <2> QED
    BY <2>1 DEF WipeLocally, s
<1>10. \/ Amended(q) = Page \/ Amended(q) = Renamed(Page, c)
       \/ Amended(q) = ClearLocally(c) \/ Amended(q) = DeleteLocally(c)
       \/ Amended(q) = DuplicateLocally(c) \/ Amended(q) = EditLocally(c, n)
       \/ Amended(q) = RemoveLocally(c, n) \/ Amended(q) = WipeLocally
       \/ Amended(q) = CreateLocally(c)
  <2> DEFINE known == q.chat \in Ids(store)
             has == known /\ q.msg \in Ids(History(store, q.chat))
  <2>1. Amended(q) =
          CASE q.api -> Page
            [] q.kind = "rename" /\ known -> Renamed(Page, q.chat)
            [] q.kind = "clear" /\ known -> ClearLocally(q.chat)
            [] q.kind = "delete" /\ known -> DeleteLocally(q.chat)
            [] q.kind = "duplicate" /\ known -> DuplicateLocally(q.chat)
            [] q.kind = "edit" /\ has -> EditLocally(q.chat, q.msg)
            [] q.kind = "remove" /\ has -> RemoveLocally(q.chat, q.msg)
            [] q.kind = "wipe" /\ active # None -> WipeLocally
            [] q.kind = "create" -> CreateLocally(q.chat)
            [] OTHER -> Page
    BY DEF Amended
  <2> HIDE DEF known, has
  <2> QED
    BY <2>1
<1> HIDE DEF K
<1>11. K(Amended(q))
  BY <1>1, <1>3, <1>4, <1>5, <1>6, <1>7, <1>8, <1>9, <1>10
<1> QED
  BY <1>11 DEF K

LEMMA SessionKeeps ==
  ASSUME TurnsInv, SessionNext, UNCHANGED turn
  PROVE  TurnsInv'
<1>1. ASSUME NEW q, KeepsGen(Page, q), Become(q) PROVE Whole(Page)' /\ GenRuns'
  <2>1. Whole(Page)' /\ gen' = q.gen /\ gen = Page.gen
    BY <1>1, PageBecomes DEF KeepsGen, Become, Page
  <2>2. gen = NoGen => gen' = NoGen
    BY <1>1, <2>1 DEF KeepsGen
  <2>3. gen'.req = gen.req /\ gen'.chat = gen.chat
    BY <1>1, <2>1 DEF KeepsGen
  <2> QED
    BY <2>1, <2>2, <2>3 DEF TurnsInv, GenRuns, Runs
<1>2. ASSUME gen' = gen PROVE Whole(Page)' /\ GenRuns'
  BY <1>2 DEF TurnsInv, Whole, Page, GenRuns, Runs
<1>3. \/ gen' = gen
      \/ \E c : Become(Activate(Page, c, TRUE))
      \/ \E snap, preserve, prefer : Become(Snapshot(Page, snap, preserve, prefer))
      \/ \E q : Become(Amended(q))
  <2>1. CASE UserStep
    BY <2>1 DEF UserStep, Switch, MenuCall, ApiCall, ApiImport, ImportCall, WipeCall,
       CreateCall, Answer, Start
  <2>2. CASE CommitRender
    BY <2>2 DEF CommitRender
  <2>3. ASSUME NEW k \in Calls, CallStep(k)
        PROVE  \/ gen' = gen
               \/ \E snap, preserve, prefer : Become(Snapshot(Page, snap, preserve, prefer))
               \/ \E q : Become(Amended(q))
    BY <2>3 DEF CallStep, Serve, Break, ApplyAnswer, Fallback
  <2> QED
    BY <2>1, <2>2, <2>3 DEF SessionNext
<1>4. Whole(Page)' /\ GenRuns'
  <2>1. Whole(Page)
    BY DEF TurnsInv
  <2>2. CASE \E c : Become(Activate(Page, c, TRUE))
    BY <1>1, <2>1, <2>2, KeptByActivate
  <2>3. CASE \E snap, preserve, prefer : Become(Snapshot(Page, snap, preserve, prefer))
    BY <1>1, <2>1, <2>3, KeptBySnapshot
  <2>4. CASE \E q : Become(Amended(q))
    BY <1>1, <2>1, <2>4, KeptByAmended
  <2> QED
    BY <1>2, <1>3, <2>2, <2>3, <2>4
<1> QED
  BY <1>4 DEF TurnsInv, TurnsShape, Asked

--------------------------------------------------------------------------------
(* What holds of the turns.                                                *)

\* The invariant of the turns holds at all times.
THEOREM TurnsKept == TurnsSpec => []TurnsInv
<1>1. TurnsInit => TurnsInv
  <2> SUFFICES ASSUME TurnsInit PROVE TurnsInv
    OBVIOUS
  <2>1. gen = NoGen /\ turn = [r \in Turns |-> Unused]
    BY DEF TurnsInit, SessionInit
  <2>2. Whole(Page)
    BY <2>1 DEF Whole, Page, NoGen
  <2>3. TurnRecord(Unused) /\ ~Unused.stopped
    BY DEF TurnRecord, Unused, Stages
  <2> QED
    BY <2>1, <2>2, <2>3 DEF TurnsInv, TurnsShape, GenRuns, Asked
<1>2. TurnsInv /\ [TurnsNext]_turnVars => TurnsInv'
  <2> SUFFICES ASSUME TurnsInv, [TurnsNext]_turnVars PROVE TurnsInv'
    OBVIOUS
  <2>1. CASE SessionNext /\ UNCHANGED <<turn, reasoned, script>>
    BY <2>1, SessionKeeps
  <2>2. CASE StopClick
    BY <2>2, StopClickKeeps
  <2>3. ASSUME NEW r \in Turns, Ask(r) PROVE TurnsInv'
    BY <2>3, SubmitKeeps, ContinueKeeps DEF Ask, Regenerate
  <2>4. ASSUME NEW r \in Turns, Allowed(r) \/ Advance(r) PROVE TurnsInv'
    BY <2>4, AllowedKeeps, AdvanceKeeps
  <2>5. CASE UNCHANGED turnVars
    BY <2>5 DEF turnVars, sessionVars, TurnsInv, TurnsShape, Whole, Page, GenRuns, Runs, Asked
  <2> QED
    BY <2>1, <2>2, <2>3, <2>4, <2>5 DEF TurnsNext
<1> QED
  BY <1>1, <1>2, PTL DEF TurnsSpec

\* What the composer can stop runs: the active generation is that of a turn under
\* way that was not stopped, about its chat (composerGeneration.js).
THEOREM StopsWhatRuns == TurnsSpec => []GenerationRuns
<1>1. TurnsInv => GenerationRuns
  BY DEF TurnsInv, GenRuns, Runs, GenerationRuns
<1> QED
  BY <1>1, TurnsKept, PTL

LEMMA StoreKeptByRecover ==
  ASSUME NEW p, Whole(p)
  PROVE  Recover(p).store = p.store /\ Recover(p).active = p.active
<1>1. CASE Recover(p) = p
  BY <1>1
<1>2. CASE Recover(p) # p
  <2>1. PICK row, made, shown, rs :
          Recover(p) = [p EXCEPT !.gen.row = row, !.gen.made = made,
                                 !.gen.shown = shown, !.rows = rs]
    BY <1>2 DEF Recover
  <2> QED
    BY <2>1 DEF Whole
<1> QED
  BY <1>1, <1>2

LEMMA StoreKeptByFinal ==
  ASSUME NEW p, Whole(p), NEW r
  PROVE  Final(p, r).store = p.store /\ Final(p, r).active = p.active
<1> DEFINE o == [p EXCEPT !.gen = NoGen]
<1>1. Whole(o) /\ o.store = p.store /\ o.active = p.active
  BY DEF Whole, NoGen
<1> HIDE DEF o
<1>2. PrunedFor(o, turn[r].chat).store = o.store /\ PrunedFor(o, turn[r].chat).active = o.active
  BY <1>1 DEF PrunedFor, Whole
<1>3. Final(p, r) = p \/ Final(p, r) = PrunedFor(o, turn[r].chat)
  BY DEF Final, o
<1> QED
  BY <1>1, <1>2, <1>3

LEMMA StoreKeptByCancel ==
  ASSUME TurnsInv, NEW r \in Turns, Cancel(r)
  PROVE  store' = store
<1> DEFINE p == Recover(Page)
           q == Final(p, r)
<1>1. Whole(p) /\ p.store = store
  BY KeptByRecover, StoreKeptByRecover DEF TurnsInv, KeepsGen, Page
<1> HIDE DEF p
<1>2. q.store = store
  BY <1>1, StoreKeptByFinal
<1>3. store' = Page.store \/ store' = q.store
  BY DEF Cancel, Become, q, p
<1> QED
  BY <1>2, <1>3 DEF Page

\* A step of a turn, or of the user, does not take another turn further.
LEMMA OthersStay ==
  ASSUME TurnsInv, NEW q \in Turns, NEW r \in Turns, q # r,
         Ask(q) \/ Allowed(q) \/ Advance(q)
  PROVE  turn'[r].pc = turn[r].pc
<1> USE DEF TurnsInv, TurnsShape
<1>1. CASE Submit(q) \/ \E i \in DOMAIN rows : Regenerate(q, i)
  <2> DEFINE h == Halted(turn)
  <2>1. h[r].pc = turn[r].pc /\ DOMAIN h = Turns
    BY DEF Halted, TurnRecord
  <2>2. PICK t0 : turn' = Crowd([h EXCEPT ![q] = t0], q)
    BY <1>1 DEF Submit, Regenerate
  <2> DEFINE t == [h EXCEPT ![q] = t0]
  <2>3. t[r] = h[r]
    BY <2>1
  <2>4. t[r] = turn[r] \/ t[r] = [turn[r] EXCEPT !.stopped = TRUE]
    BY <2>3 DEF Halted
  <2> HIDE DEF t, h
  <2>5. turn'[r] = t[r] \/ turn'[r] = [t[r] EXCEPT !.alone = FALSE]
    BY <2>2 DEF Crowd, t
  <2> QED
    BY <2>4, <2>5 DEF TurnRecord
<1>2. CASE \E i \in DOMAIN rows : Continue(q, i)
  <2>1. PICK t0 : turn' = Crowd([turn EXCEPT ![q] = t0], q)
    BY <1>2 DEF Continue
  <2>2. turn'[r] = turn[r] \/ turn'[r] = [turn[r] EXCEPT !.alone = FALSE]
    BY <2>1 DEF Crowd
  <2> QED
    BY <2>2 DEF TurnRecord
<1>3. ASSUME NEW text, NEW title, Finish(q, text, title) PROVE turn'[r] = turn[r]
  BY <1>3 DEF Finish
<1>4. ASSUME Cancel(q) PROVE turn'[r] = turn[r]
  BY <1>4 DEF Cancel
<1>5. CASE Allowed(q)
  BY <1>5 DEF Allowed
<1>6. CASE Advance(q)
  <2>1. \A title : Done(q, title) => turn'[r] = turn[r]
    BY <1>3 DEF Done
  <2>2. AntiLoop(q) \/ Interrupted(q) \/ Aborted(q) \/ Plainly(q) \/ NoModel(q) \/ Profiled(q)
          => turn'[r] = turn[r]
    BY <1>3, <1>4 DEF AntiLoop, Interrupted, Aborted, Plainly, NoModel, Profiled
  <2>3. Planned(q) \/ Refuse(q) \/ Partial(q) \/ ToolStart(q) \/ OtherModel(q)
          \/ SyncAnswered(q) \/ Listed(q) \/ SyncFailed(q) => turn'[r] = turn[r]
    BY DEF Planned, Refuse, Partial, ToolStart, OtherModel, SyncAnswered, Listed, SyncFailed
  <2> QED
    BY <1>6, <2>1, <2>2, <2>3 DEF Advance
<1> QED
  BY <1>1, <1>2, <1>5, <1>6 DEF Ask

\* A turn the user stopped adds nothing to the chats by itself, but for the cases
\* the property names (composerGeneration.js, assistantRuntime.js).
THEOREM StopIsHeld == TurnsSpec => StopHolds
<1>1. ASSUME TurnsInv, [TurnsNext]_turnVars, NEW r \in Turns,
             turn[r].stopped, turn[r].pc \in Waiting, turn'[r].pc \notin Waiting,
             turn[r].pc # "plain", turn[r].pc # "fallback", ~(turn[r].models > 0), ~reasoned
      PROVE  store' = store
  <2> USE <1>1
  <2>1. turn[r].pc \in {"profile", "stream"} /\ turn[r].models = 0
    BY DEF Waiting, TurnsInv, TurnsShape, TurnRecord
  <2>2. CASE UNCHANGED turn
    BY <2>2
  <2>3. CASE StopClick
    <3>1. turn'[r] = turn[r] \/ turn'[r] = [turn[r] EXCEPT !.stopped = TRUE]
      BY <2>3 DEF StopClick, Halted, TurnsInv, TurnsShape
    <3>2. turn'[r].pc = turn[r].pc
      BY <3>1 DEF TurnsInv, TurnsShape, TurnRecord
    <3> QED
      BY <3>2
  <2>4. ASSUME NEW q \in Turns, q # r, Ask(q) \/ Allowed(q) \/ Advance(q) PROVE FALSE
    BY <2>4, OthersStay
  <2>5. ~Ask(r) /\ ~Allowed(r)
    BY <2>1 DEF Ask, Regenerate, Submit, Continue, InTurn, Allowed
  <2>6. CASE Advance(r)
    <3>1. Profiled(r) \/ Aborted(r)
      BY <2>1, <2>6 DEF Advance, Planned, Refuse, Partial, ToolStart, AntiLoop, Done, Interrupted,
         Streaming, Plainly, OtherModel, NoModel, SyncAnswered, Listed, SyncFailed
    <3>2. Cancel(r)
      BY <2>1, <3>1 DEF Profiled, Aborted
    <3> QED
      BY <3>2, StoreKeptByCancel
  <2> QED
    BY <2>2, <2>3, <2>4, <2>5, <2>6 DEF TurnsNext, turnVars
<1>2. TurnsInv /\ [TurnsNext]_turnVars
        => [\A r \in Turns :
              turn[r].stopped /\ turn[r].pc \in Waiting /\ turn'[r].pc \notin Waiting
                => \/ store' = store
                   \/ turn[r].pc = "plain" \/ turn[r].pc = "fallback"
                   \/ turn[r].models > 0 \/ reasoned]_turnVars
  BY <1>1
<1> QED
  BY <1>2, TurnsKept, PTL DEF TurnsSpec, StopHolds

--------------------------------------------------------------------------------
(* Lists of chats.                                                         *)

ChatIds == (Nat \ {0}) \cup Named

Elements(s) == {s[i] : i \in DOMAIN s}

IsList(s) == s \in Seq(Elements(s))

MsgRecord(m) == m \in [id : Int \ {0}, role : {m.role}, text : {m.text}]

\* A list of messages.
Talk(msgs) == IsList(msgs) /\ \A i \in DOMAIN msgs : MsgRecord(msgs[i])

ChatRecord(x) ==
  x \in [id : ChatIds, title : {x.title}, msgs : {x.msgs}] /\ Talk(x.msgs)

Listing(s) == IsList(s) /\ \A i \in DOMAIN s : ChatRecord(s[i])

LEMMA IdsAreInts == ChatIds \subseteq Int \ {0}
BY IdsAssumption DEF ChatIds

LEMMA ListingShape ==
  ASSUME NEW s, Listing(s)
  PROVE  /\ Len(s) \in Nat /\ DOMAIN s = 1..Len(s)
         /\ s \in Seq(Elements(s))
         /\ \A i \in 1..Len(s) : ChatRecord(s[i]) /\ s[i] \in Elements(s)
         /\ s = <<>> <=> Len(s) = 0
         /\ s = [i \in 1..Len(s) |-> s[i]]
<1>1. s \in Seq(Elements(s))
  BY DEF Listing, IsList
<1>2. Len(s) \in Nat /\ DOMAIN s = 1..Len(s) /\ (s = <<>> <=> Len(s) = 0)
  BY <1>1
<1>3. s = [i \in 1..Len(s) |-> s[i]]
  BY <1>1
<1> QED
  BY <1>1, <1>2, <1>3 DEF Listing, Elements

LEMMA ListingMade ==
  ASSUME NEW s, NEW n \in Nat, s = [i \in 1..n |-> s[i]], \A i \in 1..n : ChatRecord(s[i])
  PROVE  Listing(s) /\ Len(s) = n /\ DOMAIN s = 1..n
<1>1. s \in Seq(Elements(s))
  BY DEF Elements
<1> QED
  BY <1>1 DEF Listing, IsList

LEMMA EmptyListing == Listing(<<>>) /\ Ids(<<>>) = {}
<1>1. <<>> = [i \in 1..0 |-> <<>>[i]] /\ 0 \in Nat
  OBVIOUS
<1>2. Listing(<<>>)
  BY <1>1 DEF Listing, IsList, Elements
<1> QED
  BY <1>2 DEF Ids

LEMMA IdsType ==
  ASSUME NEW s, Listing(s)
  PROVE  Ids(s) \subseteq ChatIds /\ IsFiniteSet(Ids(s))
<1>1. Ids(s) \subseteq ChatIds
  BY ListingShape DEF Ids, ChatRecord
<1>2. Ids(s) = {s[i].id : i \in 1..Len(s)} /\ IsFiniteSet(1..Len(s))
  <2>1. Len(s) \in Int /\ 1 \in Int
    BY ListingShape
  <2>2. IsFiniteSet(1..Len(s))
    BY <2>1, FS_Interval
  <2> QED
    BY <2>2, ListingShape DEF Ids
<1>3. IsFiniteSet({s[i].id : i \in 1..Len(s)})
  <2> DEFINE f == [i \in 1..Len(s) |-> s[i].id]
  <2>1. f \in Surjection(1..Len(s), {s[i].id : i \in 1..Len(s)})
    BY DEF Surjection
  <2> QED
    BY <1>2, <2>1, FS_Surjection
<1> QED
  BY <1>1, <1>2, <1>3

\* Induction up to n, for the set of the numbers of which something is true.
LEMMA UpTo ==
  ASSUME NEW n \in Nat, NEW T, 0 \in T, \A i \in 0..(n - 1) : i \in T => i + 1 \in T
  PROVE  n \in T
<1>1. 0..n \subseteq T
  BY Folding!Induct
<1> QED
  BY <1>1

\* The largest of finitely many numbers.
LEMMA LargestOf ==
  ASSUME NEW n \in Nat, NEW f \in [1..n -> Int], NEW b \in Int
  PROVE  \E m \in {b} \cup {f[i] : i \in 1..n} : \A x \in {b} \cup {f[i] : i \in 1..n} : x <= m
<1> DEFINE Upto(k) == {b} \cup {f[i] : i \in 1..k}
           T == {k \in 0..n : \E m \in Upto(k) : \A x \in Upto(k) : x <= m}
<1>1. 0 \in T
  <2>1. Upto(0) = {b} /\ b <= b
    OBVIOUS
  <2> QED
    BY <2>1
<1>2. ASSUME NEW k \in 0..(n - 1), k \in T PROVE k + 1 \in T
  <2>1. k + 1 \in 1..n /\ k + 1 \in 0..n
    OBVIOUS
  <2>2. Upto(k + 1) = Upto(k) \cup {f[k + 1]} /\ f[k + 1] \in Int
    BY <2>1
  <2>3. PICK m \in Upto(k) : \A x \in Upto(k) : x <= m
    BY <1>2
  <2>4. Upto(k) \subseteq Int
    BY <2>1
  <2> HIDE DEF Upto
  <2>5. CASE f[k + 1] <= m
    BY <2>1, <2>2, <2>3, <2>4, <2>5
  <2>6. CASE ~(f[k + 1] <= m)
    <3>1. \A x \in Upto(k + 1) : x <= f[k + 1]
      BY <2>2, <2>3, <2>4, <2>6
    <3> QED
      BY <2>1, <2>2, <3>1
  <2> QED
    BY <2>5, <2>6
<1>3. n \in T
  <2> HIDE DEF T, Upto
  <2>1. \A k \in 0..(n - 1) : k \in T => k + 1 \in T
    BY <1>2
  <2> QED
    BY <1>1, <2>1, UpTo
<1> QED
  BY <1>3

LEMMA CountedIsAbove ==
  ASSUME NEW s, Listing(s), NEW sq \in Nat
  PROVE  /\ Counted(s, sq) \in Nat /\ sq <= Counted(s, sq)
         /\ \A x \in Ids(s) : x <= Counted(s, sq)
<1> DEFINE n == Len(s)
           f == [i \in 1..n |-> IF s[i].id > 0 THEN s[i].id ELSE sq]
           S == {sq} \cup {x \in Ids(s) : x > 0}
<1>1. n \in Nat /\ DOMAIN s = 1..n
  BY ListingShape
<1>2. \A i \in 1..n : s[i].id \in Int
  BY ListingShape, IdsAreInts DEF ChatRecord
<1>3. Ids(s) = {s[i].id : i \in 1..n}
  BY <1>1 DEF Ids
<1> HIDE DEF n
<1>4. f \in [1..n -> Int]
  BY <1>2
<1>5. S = {sq} \cup {f[i] : i \in 1..n}
  BY <1>2, <1>3
<1> HIDE DEF f
<1>6. PICK m \in S : \A x \in S : x <= m
  <2>1. sq \in Int
    OBVIOUS
  <2> QED
    BY <1>1, <1>4, <1>5, <2>1, LargestOf
<1>7. S \subseteq Nat
  BY <1>2, <1>3
<1>8. Max(S) \in S /\ \A x \in S : Max(S) >= x
  <2>1. \A x \in S : m >= x
    BY <1>6, <1>7
  <2> QED
    BY <2>1 DEF Max
<1>9. Counted(s, sq) = Max(S)
  BY DEF Counted
<1>10. \A x \in Ids(s) : x \in Int /\ (x > 0 => x \in S)
  BY <1>2, <1>3
<1>11. sq \in S
  OBVIOUS
<1> HIDE DEF S
<1>12. Max(S) \in Nat /\ sq <= Max(S)
  BY <1>7, <1>8, <1>11
<1>13. ASSUME NEW x \in Ids(s) PROVE x <= Max(S)
  <2>1. CASE x > 0
    BY <1>7, <1>8, <1>10, <2>1
  <2>2. CASE ~(x > 0)
    BY <1>10, <1>12, <2>2
  <2> QED
    BY <2>1, <2>2
<1> QED
  BY <1>9, <1>12, <1>13

LEMMA FirstOf ==
  ASSUME NEW s, IsList(s), NEW c \in Ids(s)
  PROVE  /\ At(s, c) \in 1..Len(s) /\ s[At(s, c)].id = c
         /\ \A j \in 1..Len(s) : s[j].id = c => At(s, c) <= j
<1> DEFINE S == {i \in DOMAIN s : s[i].id = c}
<1>1. S \subseteq Nat /\ S # {} /\ S = {i \in 1..Len(s) : s[i].id = c}
  <2>1. Len(s) \in Nat /\ DOMAIN s = 1..Len(s)
    BY DEF IsList
  <2> QED
    BY <2>1 DEF Ids
<1>2. PICK i \in S : \A j \in S : <<j, i>> \notin OpToRel(<, Nat)
  <2> HIDE DEF S
  <2> QED
    BY <1>1, NatLessThanWellFounded, WFMin
<1>3. ASSUME NEW j \in S PROVE i <= j
  <2>1. i \in Nat /\ j \in Nat
    BY <1>1
  <2>2. ~(j < i)
    BY <1>2, <2>1 DEF OpToRel
  <2> QED
    BY <2>1, <2>2
<1>4. Min(S) \in S /\ \A j \in S : Min(S) <= j
  BY <1>2, <1>3 DEF Min
<1>5. At(s, c) = Min(S)
  BY DEF At
<1> HIDE DEF S
<1> QED
  BY <1>1, <1>4, <1>5

LEMMA AtIsFirst ==
  ASSUME NEW s, Listing(s), NEW c \in Ids(s)
  PROVE  /\ At(s, c) \in 1..Len(s) /\ s[At(s, c)].id = c
         /\ \A j \in 1..Len(s) : s[j].id = c => At(s, c) <= j
BY FirstOf DEF Listing

LEMMA FirstIsAt ==
  ASSUME NEW s, Listing(s), NEW i \in 1..Len(s), \A j \in 1..(i - 1) : s[j].id # s[i].id
  PROVE  s[i].id \in Ids(s) /\ At(s, s[i].id) = i
<1>1. s[i].id \in Ids(s) /\ Len(s) \in Nat
  BY ListingShape DEF Ids
<1>2. /\ At(s, s[i].id) \in 1..Len(s) /\ s[At(s, s[i].id)].id = s[i].id
      /\ At(s, s[i].id) <= i
  BY <1>1, AtIsFirst
<1>3. ~(At(s, s[i].id) < i)
  BY <1>1, <1>2
<1> QED
  BY <1>1, <1>2, <1>3

\* A chat in front of a list.
InFront(s, x, t) ==
  /\ Listing(s) /\ Len(s) = Len(t) + 1 /\ s[1] = x
  /\ \A i \in 1..Len(t) : s[i + 1] = t[i]

LEMMA FrontShape ==
  ASSUME NEW t, Listing(t), NEW x, ChatRecord(x)
  PROVE  InFront(<<x>> \o t, x, t)
<1> DEFINE s == <<x>> \o t
           E == Elements(t) \cup {x}
           n == Len(t)
<1>1. t \in Seq(E) /\ <<x>> \in Seq(E) /\ n \in Nat
  <2>1. t \in Seq(Elements(t))
    BY ListingShape
  <2> QED
    BY <2>1
<1>2. s \in Seq(E) /\ Len(s) = n + 1 /\ s[1] = x /\ \A i \in 1..n : s[i + 1] = t[i]
  <2> HIDE DEF E
  <2>1. Len(<<x>>) = 1 /\ <<x>>[1] = x
    OBVIOUS
  <2>2. s \in Seq(E) /\ Len(s) = n + 1 /\ s[1] = x
    BY <1>1, <2>1
  <2>3. \A i \in 1..n : s[i + 1] = t[i]
    BY <1>1, <2>1
  <2> QED
    BY <2>2, <2>3
<1>3. s = [i \in 1..(n + 1) |-> s[i]] /\ n + 1 \in Nat
  BY <1>1, <1>2
<1>4. \A i \in 1..(n + 1) : ChatRecord(s[i])
  <2> TAKE i \in 1..(n + 1)
  <2>1. CASE i = 1
    BY <1>2, <2>1
  <2>2. CASE i # 1
    <3>1. i - 1 \in 1..n /\ (i - 1) + 1 = i
      BY <1>1, <2>2
    <3>2. s[i] = t[i - 1]
      BY <1>2, <3>1
    <3> QED
      BY <3>1, <3>2, ListingShape
  <2> QED
    BY <2>1, <2>2
<1> HIDE DEF s
<1>5. Listing(s)
  BY <1>3, <1>4, ListingMade
<1> QED
  BY <1>2, <1>5 DEF InFront, s

LEMMA FrontIds ==
  ASSUME NEW s, NEW x, NEW t, Listing(t), InFront(s, x, t)
  PROVE  /\ Ids(s) = {x.id} \cup Ids(t) /\ s # <<>>
         /\ At(s, x.id) = 1
         /\ \A c \in Ids(t) : c # x.id => At(s, c) = At(t, c) + 1
<1> DEFINE n == Len(t)
<1>1. n \in Nat /\ DOMAIN t = 1..n /\ Len(s) = n + 1 /\ DOMAIN s = 1..(n + 1)
  BY ListingShape DEF InFront
<1>2. s[1] = x /\ \A i \in 1..n : s[i + 1] = t[i]
  BY DEF InFront
<1>3. \A i \in 1..(n + 1) : i = 1 \/ (i - 1 \in 1..n /\ s[i] = t[i - 1])
  <2> TAKE i \in 1..(n + 1)
  <2>1. CASE i # 1
    <3>1. i - 1 \in 1..n /\ (i - 1) + 1 = i
      BY <1>1, <2>1
    <3> QED
      BY <1>2, <3>1
  <2> QED
    BY <2>1
<1>4. Ids(s) = {x.id} \cup Ids(t)
  <2>1. \A i \in 1..n : i + 1 \in 1..(n + 1)
    BY <1>1
  <2>2. 1 \in 1..(n + 1)
    BY <1>1
  <2>3. \A i \in 1..(n + 1) : s[i].id \in {x.id} \cup {t[j].id : j \in 1..n}
    BY <1>2, <1>3
  <2>4. \A j \in 1..n : t[j].id \in {s[i].id : i \in 1..(n + 1)}
    BY <1>2, <2>1
  <2>5. x.id \in {s[i].id : i \in 1..(n + 1)}
    BY <1>2, <2>2
  <2>6. Ids(s) = {s[i].id : i \in 1..(n + 1)} /\ Ids(t) = {t[j].id : j \in 1..n}
    BY <1>1 DEF Ids
  <2> QED
    BY <2>3, <2>4, <2>5, <2>6
<1>5. At(s, x.id) = 1
  <2>1. 1 \in 1..Len(s) /\ \A j \in 1..(1 - 1) : s[j].id # s[1].id
    BY <1>1
  <2>2. Listing(s)
    BY DEF InFront
  <2>3. At(s, s[1].id) = 1
    BY <2>1, <2>2, FirstIsAt
  <2> QED
    BY <1>2, <2>3
<1>6. ASSUME NEW c \in Ids(t), c # x.id PROVE At(s, c) = At(t, c) + 1
  <2> DEFINE i == At(t, c)
  <2>1. i \in 1..n /\ t[i].id = c /\ \A j \in 1..n : t[j].id = c => i <= j
    BY AtIsFirst
  <2> HIDE DEF i
  <2>2. i + 1 \in 1..Len(s) /\ s[i + 1] = t[i]
    BY <1>1, <1>2, <2>1
  <2>3. ASSUME NEW j \in 1..((i + 1) - 1) PROVE s[j].id # s[i + 1].id
    <3>1. j \in 1..(n + 1) /\ j <= i
      BY <1>1, <2>1
    <3>2. CASE j = 1
      BY <1>2, <1>6, <2>1, <2>2, <3>2
    <3>3. CASE j # 1
      <4>1. j - 1 \in 1..n /\ s[j] = t[j - 1]
        BY <1>3, <3>1, <3>3
      <4>2. ~(i <= j - 1)
        BY <1>1, <2>1, <3>1
      <4> QED
        BY <2>1, <2>2, <4>1, <4>2
    <3> QED
      BY <3>2, <3>3
  <2>4. Listing(s)
    BY DEF InFront
  <2>5. At(s, s[i + 1].id) = i + 1
    <3>1. \A j \in 1..((i + 1) - 1) : s[j].id # s[i + 1].id
      BY <2>3
    <3> QED
      BY <2>2, <2>4, <3>1, FirstIsAt
  <2> QED
    BY <2>1, <2>2, <2>5 DEF i
<1>7. s # <<>>
  BY <1>1
<1> QED
  BY <1>4, <1>5, <1>6, <1>7

LEMMA FrontHistory ==
  ASSUME NEW s, NEW x, NEW t, Listing(t), InFront(s, x, t)
  PROVE  /\ History(s, x.id) = x.msgs
         /\ \A c : c # x.id => History(s, c) = History(t, c)
<1>1. /\ Ids(s) = {x.id} \cup Ids(t)
      /\ At(s, x.id) = 1
      /\ \A c \in Ids(t) : c # x.id => At(s, c) = At(t, c) + 1
  BY FrontIds
<1>2. History(s, x.id) = x.msgs
  BY <1>1 DEF History, InFront
<1>3. ASSUME NEW c, c # x.id PROVE History(s, c) = History(t, c)
  <2>1. CASE c \in Ids(t)
    <3>1. At(t, c) \in 1..Len(t)
      BY <2>1, AtIsFirst
    <3>2. s[At(t, c) + 1] = t[At(t, c)]
      BY <3>1 DEF InFront
    <3> QED
      BY <1>1, <1>3, <2>1, <3>2 DEF History
  <2>2. CASE c \notin Ids(t)
    BY <1>1, <1>3, <2>2 DEF History
  <2> QED
    BY <2>1, <2>2
<1> QED
  BY <1>2, <1>3

\* A list without its i-th chat.
Without(t, s, i) ==
  /\ Listing(t) /\ Len(t) = Len(s) - 1
  /\ \A j \in 1..Len(t) : t[j] = IF j < i THEN s[j] ELSE s[j + 1]

LEMMA RemovedShape ==
  ASSUME NEW s, Listing(s), NEW i \in 1..Len(s)
  PROVE  Without(RemoveAt(s, i), s, i)
<1> DEFINE E == Elements(s)
           n == Len(s)
           a == SubSeq(s, 1, i - 1)
           b == SubSeq(s, i + 1, n)
           t == RemoveAt(s, i)
<1>1. s \in Seq(E) /\ n \in Nat /\ i \in 1..n
  BY ListingShape
<1>2. \A j \in 1..n : ChatRecord(s[j])
  BY ListingShape
<1> HIDE DEF E
<1>3. a \in Seq(E) /\ Len(a) = i - 1 /\ \A j \in 1..(i - 1) : a[j] = s[j]
  BY <1>1
<1>4. b \in Seq(E) /\ Len(b) = n - i /\ \A j \in 1..(n - i) : b[j] = s[i + j]
  BY <1>1
<1>5. t = a \o b
  BY DEF RemoveAt
<1> HIDE DEF a, b, t, n
<1>6. Len(t) = n - 1 /\ t \in Seq(E)
  <2>1. a \in Seq(E) /\ b \in Seq(E)
    BY <1>3, <1>4
  <2>2. a \o b \in Seq(E) /\ Len(a \o b) = Len(a) + Len(b)
    BY <2>1
  <2>3. Len(a) + Len(b) = n - 1
    BY <1>1, <1>3, <1>4
  <2> QED
    BY <1>5, <2>2, <2>3
<1>7. ASSUME NEW j \in 1..(n - 1) PROVE t[j] = IF j < i THEN s[j] ELSE s[j + 1]
  <2>1. CASE j < i
    <3>1. t[j] = a[j] /\ j \in 1..(i - 1)
      BY <1>1, <1>3, <1>4, <1>5, <2>1
    <3> QED
      BY <1>3, <2>1, <3>1
  <2>2. CASE ~(j < i)
    <3>1. j - (i - 1) \in 1..(n - i) /\ i + (j - (i - 1)) = j + 1
      BY <1>1, <2>2
    <3>2. t[j] = b[j - (i - 1)]
      BY <1>1, <1>3, <1>4, <1>5, <2>2
    <3> QED
      BY <1>4, <2>2, <3>1, <3>2
  <2> QED
    BY <2>1, <2>2
<1>8. t = [j \in 1..(n - 1) |-> t[j]] /\ n - 1 \in Nat
  BY <1>1, <1>6
<1>9. \A j \in 1..(n - 1) : ChatRecord(t[j])
  <2> TAKE j \in 1..(n - 1)
  <2>1. j \in 1..n /\ j + 1 \in 1..n
    BY <1>1
  <2> QED
    BY <1>2, <1>7, <2>1
<1>10. Listing(t)
  BY <1>8, <1>9, ListingMade
<1>11. n = Len(s)
  BY DEF n
<1> QED
  BY <1>6, <1>7, <1>10, <1>11 DEF Without, t

Distinct(s) == \A i, j \in 1..Len(s) : s[i].id = s[j].id => i = j

LEMMA RemovedIds ==
  ASSUME NEW s, Listing(s), NEW x \in Ids(s), NEW t, Without(t, s, At(s, x))
  PROVE  /\ Ids(t) \subseteq Ids(s)
         /\ \A c \in Ids(s) : c # x => c \in Ids(t) /\ History(t, c) = History(s, c)
<1> DEFINE n == Len(s)
           i == At(s, x)
<1>1. n \in Nat /\ i \in 1..n /\ s[i].id = x /\ DOMAIN s = 1..n
  BY ListingShape, AtIsFirst
<1> HIDE DEF i
<1>2. Listing(t) /\ Len(t) = n - 1 /\ DOMAIN t = 1..(n - 1)
  BY ListingShape DEF Without
<1>3. \A j \in 1..(n - 1) : t[j] = IF j < i THEN s[j] ELSE s[j + 1]
  BY <1>2 DEF Without, i
<1>4. \A j \in 1..(n - 1) : j \in 1..n /\ j + 1 \in 1..n
  BY <1>1
<1>5. Ids(t) \subseteq Ids(s)
  BY <1>1, <1>2, <1>3, <1>4 DEF Ids
<1>6. ASSUME NEW c \in Ids(s), c # x PROVE c \in Ids(t) /\ History(t, c) = History(s, c)
  <2> DEFINE k == At(s, c)
  <2>1. k \in 1..n /\ s[k].id = c /\ \A j \in 1..n : s[j].id = c => k <= j
    BY AtIsFirst
  <2> HIDE DEF k
  <2>2. k # i
    BY <1>1, <1>6, <2>1
  <2>3. PICK m \in 1..(n - 1) : t[m] = s[k] /\ \A j \in 1..(m - 1) : t[j].id # c
    <3>1. CASE k < i
      <4>1. k \in 1..(n - 1) /\ t[k] = s[k]
        BY <1>1, <1>3, <2>1, <3>1
      <4>2. ASSUME NEW j \in 1..(k - 1) PROVE t[j].id # c
        <5>1. j \in 1..(n - 1) /\ j \in 1..n /\ j < i /\ ~(k <= j)
          BY <1>1, <2>1, <3>1
        <5> QED
          BY <1>3, <2>1, <5>1
      <4> QED
        BY <4>1, <4>2
    <3>2. CASE ~(k < i)
      <4>1. k - 1 \in 1..(n - 1) /\ (k - 1) + 1 = k /\ ~(k - 1 < i)
        BY <1>1, <2>1, <2>2, <3>2
      <4>2. t[k - 1] = s[k]
        BY <1>3, <4>1
      <4>3. ASSUME NEW j \in 1..((k - 1) - 1) PROVE t[j].id # c
        <5>1. j \in 1..(n - 1) /\ j \in 1..n /\ j + 1 \in 1..n /\ ~(k <= j) /\ ~(k <= j + 1)
          BY <1>1, <2>1, <3>2
        <5> QED
          BY <1>3, <2>1, <5>1
      <4> QED
        BY <4>1, <4>2, <4>3
    <3> QED
      BY <3>1, <3>2
  <2>4. t[m].id = c /\ m \in 1..Len(t)
    BY <1>2, <2>1, <2>3
  <2>5. \A j \in 1..(m - 1) : t[j].id # t[m].id
    BY <2>3, <2>4
  <2>6. c \in Ids(t) /\ At(t, c) = m
    BY <1>2, <2>4, <2>5, FirstIsAt
  <2> QED
    BY <2>3, <2>6 DEF History, k
<1> QED
  BY <1>5, <1>6

LEMMA RemovedDistinct ==
  ASSUME NEW s, Listing(s), Distinct(s), NEW x \in Ids(s), NEW t, Without(t, s, At(s, x))
  PROVE  x \notin Ids(t) /\ Distinct(t)
<1> DEFINE n == Len(s)
           i == At(s, x)
<1>1. n \in Nat /\ i \in 1..n /\ s[i].id = x
  BY ListingShape, AtIsFirst
<1> HIDE DEF i
<1>2. Len(t) = n - 1 /\ DOMAIN t = 1..(n - 1)
  BY ListingShape DEF Without
<1> DEFINE Was(j) == IF j < i THEN j ELSE j + 1
<1>3. \A j \in 1..(n - 1) : Was(j) \in 1..n /\ Was(j) # i /\ t[j] = s[Was(j)]
  <2>1. \A j \in 1..(n - 1) : t[j] = IF j < i THEN s[j] ELSE s[j + 1]
    BY <1>2 DEF Without, i
  <2>2. \A j \in 1..(n - 1) : Was(j) \in 1..n /\ Was(j) # i
    BY <1>1
  <2>3. \A j \in 1..(n - 1) : t[j] = s[Was(j)]
    BY <2>1
  <2> QED
    BY <2>2, <2>3
<1>4. \A j, k \in 1..(n - 1) : Was(j) = Was(k) => j = k
  BY <1>1
<1> HIDE DEF Was
<1>5. x \notin Ids(t)
  <2>1. \A j \in 1..(n - 1) : t[j].id # x
    BY <1>1, <1>3 DEF Distinct
  <2> QED
    BY <1>2, <2>1 DEF Ids
<1>6. Distinct(t)
  BY <1>2, <1>3, <1>4 DEF Distinct
<1> QED
  BY <1>5, <1>6

\* A list in which a chat went to the front.
LEMMA FrontedShape ==
  ASSUME NEW s, Listing(s), NEW x, ChatRecord(x), x.id \in Ids(s)
  PROVE  LET t == ToFront(s, x)
         IN  /\ Listing(t) /\ t # <<>> /\ Len(t) = Len(s) /\ Ids(t) = Ids(s)
             /\ History(t, x.id) = x.msgs
             /\ \A c : c # x.id => History(t, c) = History(s, c)
<1> DEFINE rest == RemoveAt(s, At(s, x.id))
           t == <<x>> \o rest
<1>1. Without(rest, s, At(s, x.id))
  BY AtIsFirst, RemovedShape
<1> HIDE DEF rest
<1>2. /\ Ids(rest) \subseteq Ids(s)
      /\ \A c \in Ids(s) : c # x.id => c \in Ids(rest) /\ History(rest, c) = History(s, c)
  BY <1>1, RemovedIds
<1>3. Listing(rest) /\ Len(rest) = Len(s) - 1 /\ Len(s) \in Nat
  BY <1>1, ListingShape DEF Without
<1>4. InFront(t, x, rest)
  BY <1>3, FrontShape
<1> HIDE DEF t
<1>5. /\ Ids(t) = {x.id} \cup Ids(rest) /\ t # <<>>
      /\ History(t, x.id) = x.msgs
      /\ \A c : c # x.id => History(t, c) = History(rest, c)
  BY <1>3, <1>4, FrontIds, FrontHistory
<1>6. Ids(t) = Ids(s)
  BY <1>2, <1>5
<1>7. ASSUME NEW c, c # x.id PROVE History(t, c) = History(s, c)
  <2>1. CASE c \in Ids(s)
    BY <1>2, <1>5, <1>7, <2>1
  <2>2. CASE c \notin Ids(s)
    BY <1>2, <1>5, <1>7, <2>2 DEF History
  <2> QED
    BY <2>1, <2>2
<1>8. Listing(t) /\ Len(t) = Len(s)
  BY <1>3, <1>4 DEF InFront
<1>9. ToFront(s, x) = t
  BY DEF ToFront, t, rest
<1> QED
  BY <1>5, <1>6, <1>7, <1>8, <1>9

LEMMA FrontDistinct ==
  ASSUME NEW s, NEW x, NEW t, Listing(t), Distinct(t), InFront(s, x, t), x.id \notin Ids(t)
  PROVE  Distinct(s)
<1> DEFINE n == Len(t)
<1>1. n \in Nat /\ DOMAIN t = 1..n /\ Len(s) = n + 1
  BY ListingShape DEF InFront
<1>2. s[1] = x /\ \A i \in 1..n : s[i + 1] = t[i]
  BY DEF InFront
<1>3. \A i \in 1..(n + 1) : i = 1 \/ (i - 1 \in 1..n /\ s[i] = t[i - 1])
  <2> TAKE i \in 1..(n + 1)
  <2>1. CASE i # 1
    <3>1. i - 1 \in 1..n /\ (i - 1) + 1 = i
      BY <1>1, <2>1
    <3> QED
      BY <1>2, <3>1
  <2> QED
    BY <2>1
<1>4. \A i \in 1..n : t[i].id # x.id
  BY <1>1 DEF Ids
<1>5. ASSUME NEW i \in 1..(n + 1), NEW j \in 1..(n + 1), s[i].id = s[j].id PROVE i = j
  <2>1. CASE i = 1 /\ j # 1
    BY <1>2, <1>3, <1>4, <1>5, <2>1
  <2>2. CASE i # 1 /\ j = 1
    BY <1>2, <1>3, <1>4, <1>5, <2>2
  <2>3. CASE i # 1 /\ j # 1
    <3>1. i - 1 \in 1..n /\ j - 1 \in 1..n /\ t[i - 1].id = t[j - 1].id
      BY <1>3, <1>5, <2>3
    <3>2. i - 1 = j - 1
      BY <3>1 DEF Distinct
    <3> QED
      BY <1>1, <3>2
  <2> QED
    BY <2>1, <2>2, <2>3
<1> QED
  BY <1>1, <1>5 DEF Distinct

LEMMA FrontedDistinct ==
  ASSUME NEW s, Listing(s), Distinct(s), NEW x, ChatRecord(x), x.id \in Ids(s)
  PROVE  Distinct(ToFront(s, x))
<1> DEFINE rest == RemoveAt(s, At(s, x.id))
<1>1. Without(rest, s, At(s, x.id))
  BY AtIsFirst, RemovedShape
<1> HIDE DEF rest
<1>2. Listing(rest) /\ Distinct(rest) /\ x.id \notin Ids(rest)
  BY <1>1, RemovedDistinct DEF Without
<1>3. InFront(<<x>> \o rest, x, rest)
  BY <1>2, FrontShape
<1>4. Distinct(<<x>> \o rest)
  BY <1>2, <1>3, FrontDistinct
<1> QED
  BY <1>4 DEF ToFront, rest

LEMMA DistinctIsUnique ==
  ASSUME NEW s, Listing(s)
  PROVE  Cardinality(Ids(s)) = Len(s) <=> Distinct(s)
<1> DEFINE n == Len(s)
           f == [i \in 1..n |-> s[i].id]
<1>1. n \in Nat /\ DOMAIN s = 1..n
  BY ListingShape
<1> HIDE DEF n
<1>2. IsFiniteSet(1..n) /\ Cardinality(1..n) = n
  <2>1. 1 \in Int /\ n \in Int
    BY <1>1
  <2>2. IsFiniteSet(1..n) /\ Cardinality(1..n) = IF 1 > n THEN 0 ELSE n - 1 + 1
    BY <2>1, FS_Interval
  <2> QED
    BY <1>1, <2>2
<1>3. f \in Surjection(1..n, Ids(s))
  BY <1>1 DEF Surjection, Ids
<1>4. Cardinality(Ids(s)) = Cardinality(1..n) <=> f \in Injection(1..n, Ids(s))
  <2> HIDE DEF f
  <2> QED
    BY <1>2, <1>3, FS_Surjection
<1>5. f \in Injection(1..n, Ids(s)) <=> \A i, j \in 1..n : s[i].id = s[j].id => i = j
  BY <1>1 DEF Injection, IsInjective, Ids
<1> QED
  BY <1>2, <1>4, <1>5 DEF Distinct, n

\* What is known of folds, here.
LEMMA MaxIsIn ==
  ASSUME NEW n \in Nat, NEW s \in SUBSET (1..n), s # {}
  PROVE  Max(s) \in 1..n /\ Max(s) = Folding!Max(s)
<1>1. Folding!Max(s) \in s /\ \A i \in s : i <= Folding!Max(s)
  BY Folding!MaxIsMember
<1>2. Max(s) = Folding!Max(s)
  BY DEF Max, Folding!Max
<1> QED
  BY <1>1, <1>2

LEMMA TopOfRange ==
  ASSUME NEW i \in Nat \ {0}
  PROVE  Max(1..i) = i /\ (1..i) \ {i} = 1..(i - 1)
<1>1. Folding!Max(1..i) = i /\ (1..i) \ {i} = 1..(i - 1)
  BY Folding!MaxOfRange
<1>2. Max(1..i) = Folding!Max(1..i)
  BY DEF Max, Folding!Max
<1> QED
  BY <1>1, <1>2

LEMMA FoldsExist ==
  ASSUME NEW n \in Nat, NEW V, NEW base \in V, NEW step \in [1..n -> [V -> V]]
  PROVE  \E it \in [SUBSET (1..n) -> V] : Folding!Folds(it, n, base, step)
<1>1. Folding!CanFold(n, V, base, step)
  BY Folding!FoldIsThere
<1> QED
  BY <1>1 DEF Folding!CanFold

LEMMA FoldsRun ==
  ASSUME NEW n \in Nat, NEW V, NEW base \in V, NEW step \in [1..n -> [V -> V]], NEW it,
         Folding!Unfolds(it, n, V, base, step)
  PROVE  \E g \in [0..n -> V] : Folding!Runs(g, n, base, step) /\ g[n] = it[1..n]
BY Folding!FoldRuns

\* The values that Normalize takes on its way.
Normalizes(g, s) ==
  /\ g[0] = <<>> /\ g[Len(s)] = Normalize(s)
  /\ \A i \in 1..Len(s) :
       g[i] = IF s[i].id \in Ids(g[i - 1]) THEN g[i - 1] ELSE Append(g[i - 1], s[i])

LEMMA NormalizeRuns ==
  ASSUME NEW s0, Listing(s0)
  PROVE  \E g \in [0..Len(s0) -> Seq(Elements(s0))] : Normalizes(g, s0)
<1> DEFINE n == Len(s0)
           V == Seq(Elements(s0))
           base == <<>>
           more(v, i) == IF s0[i].id \in Ids(v) THEN v ELSE Append(v, s0[i])
           Body(it) == [s \in SUBSET (1..n) |->
                          IF s = {} THEN base ELSE more(it[s \ {Max(s)}], Max(s))]
           iter == CHOOSE it : it = Body(it)
           step == [i \in 1..n |-> [v \in V |-> more(v, i)]]
<1>0. n \in Nat /\ DOMAIN s0 = 1..n /\ \A i \in 1..n : s0[i] \in Elements(s0)
  BY ListingShape
<1>1. Normalize(s0) = iter[1..n]
  BY <1>0 DEF Normalize, FoldLeft, MapThenFoldSet
<1>2. base \in V /\ \A i \in 1..n, v \in V : more(v, i) \in V
  BY <1>0
<1> HIDE DEF V, base, more, n
<1>3. step \in [1..n -> [V -> V]] /\ \A i \in 1..n, v \in V : step[i][v] = more(v, i)
  BY <1>2
<1> HIDE DEF step
<1>13. \A s \in SUBSET (1..n) : s # {} => Max(s) \in 1..n /\ Max(s) = Folding!Max(s)
  BY <1>0, MaxIsIn
<1>4. \E it : it = Body(it)
  <2>1. PICK it \in [SUBSET (1..n) -> V] : Folding!Folds(it, n, base, step)
    <3> HIDE DEF Body, iter
    <3> QED
      BY <1>0, <1>2, <1>3, FoldsExist
  <2>2. ASSUME NEW s \in SUBSET (1..n), s # {}
        PROVE  it[s] = more(it[s \ {Max(s)}], Max(s))
    <3>1. Max(s) \in 1..n /\ s \ {Max(s)} \in SUBSET (1..n) /\ Max(s) = Folding!Max(s)
      BY <1>13, <2>2
    <3>2. it[s \ {Max(s)}] \in V
      BY <3>1
    <3>3. it[s] = step[Max(s)][it[s \ {Max(s)}]]
      BY <2>1, <2>2, <3>1 DEF Folding!Folds
    <3> QED
      BY <1>3, <3>1, <3>2, <3>3
  <2>3. it = [s \in SUBSET (1..n) |-> it[s]] /\ it[{}] = base
    BY <2>1 DEF Folding!Folds
  <2> QED
    BY <2>2, <2>3
<1>5. iter = Body(iter)
  <2> HIDE DEF Body
  <2> QED
    BY <1>4
<1> HIDE DEF iter
<1>6. iter[{}] = base
  BY <1>5
<1>7. ASSUME NEW i \in 1..n, iter[1..(i - 1)] \in V
      PROVE  iter[1..i] = step[i][iter[1..(i - 1)]]
  <2>1. i \in Nat \ {0} /\ 1..i # {} /\ 1..i \in SUBSET (1..n)
    <3>1. n \in Nat
      BY <1>0
    <3> QED
      BY <3>1
  <2>2. Max(1..i) = i /\ (1..i) \ {i} = 1..(i - 1)
    BY <2>1, TopOfRange
  <2>3. iter[1..i] = more(iter[1..(i - 1)], i)
    BY <1>5, <2>1, <2>2
  <2> QED
    BY <1>3, <1>7, <2>3
<1> HIDE DEF Body
<1>8. Folding!Unfolds(iter, n, V, base, step)
  BY <1>6, <1>7 DEF Folding!Unfolds
<1>9. PICK g \in [0..n -> V] : Folding!Runs(g, n, base, step) /\ g[n] = iter[1..n]
  BY <1>0, <1>2, <1>3, <1>8, FoldsRun
<1>10. ASSUME NEW i \in 1..n PROVE g[i] = more(g[i - 1], i)
  <2>1. i - 1 \in 0..n
    BY <1>0
  <2>2. g[i - 1] \in V /\ g[i] = step[i][g[i - 1]]
    BY <1>9, <2>1 DEF Folding!Runs
  <2> QED
    BY <1>3, <2>2
<1>11. g[0] = base
  BY <1>9 DEF Folding!Runs
<1>12. Normalizes(g, s0)
  BY <1>1, <1>9, <1>10, <1>11 DEF base, more, n, Normalizes
<1> QED
  BY <1>9, <1>12 DEF V, n

LEMMA SeqShape ==
  ASSUME NEW E, NEW t, t \in Seq(E)
  PROVE  DOMAIN t = 1..Len(t) /\ t = [j \in 1..Len(t) |-> t[j]]
OBVIOUS

\* A chat at the end of a list.
AtEnd(t, v, x) ==
  /\ Listing(t) /\ Len(t) = Len(v) + 1 /\ t[Len(v) + 1] = x
  /\ \A j \in 1..Len(v) : t[j] = v[j]
  /\ Ids(t) = Ids(v) \cup {x.id}

LEMMA AppendedShape ==
  ASSUME NEW v, Listing(v), NEW x, ChatRecord(x), NEW t, t = Append(v, x)
  PROVE  AtEnd(t, v, x)
<1> DEFINE n == Len(v)
           E == Elements(v) \cup {x}
<1>1. n \in Nat /\ DOMAIN v = 1..n /\ v \in Seq(E) /\ x \in E
  <2>1. v \in Seq(Elements(v)) /\ n \in Nat /\ DOMAIN v = 1..n
    BY ListingShape
  <2> QED
    BY <2>1
<1>2. /\ t \in Seq(E) /\ Len(t) = n + 1 /\ t[n + 1] = x
      /\ \A j \in 1..n : t[j] = v[j]
  <2> HIDE DEF E, n
  <2>1. n = Len(v)
    BY DEF n
  <2> QED
    BY <1>1, <2>1
<1> HIDE DEF E, n
<1>3. t = [j \in 1..(n + 1) |-> t[j]] /\ n + 1 \in Nat /\ DOMAIN t = 1..(n + 1)
  <2>1. t \in Seq(E) /\ Len(t) = n + 1 /\ n + 1 \in Nat
    BY <1>1, <1>2
  <2>2. DOMAIN t = 1..Len(t) /\ t = [j \in 1..Len(t) |-> t[j]]
    BY <2>1, SeqShape
  <2> QED
    BY <2>1, <2>2
<1>4. \A j \in 1..(n + 1) : j \in 1..n \/ j = n + 1
  BY <1>1
<1>5. \A j \in 1..n : ChatRecord(v[j])
  BY ListingShape DEF n
<1>6. \A j \in 1..(n + 1) : ChatRecord(t[j])
  BY <1>2, <1>4, <1>5
<1>7. Listing(t)
  BY <1>3, <1>6, ListingMade
<1>8. Ids(t) = {t[j].id : j \in 1..(n + 1)} /\ Ids(v) = {v[j].id : j \in 1..n}
  BY <1>1, <1>3 DEF Ids
<1>9. n + 1 \in 1..(n + 1) /\ \A j \in 1..n : j \in 1..(n + 1)
  BY <1>1
<1>10. Ids(t) = Ids(v) \cup {x.id}
  <2>1. \A j \in 1..(n + 1) : t[j].id \in Ids(v) \cup {x.id}
    BY <1>2, <1>4, <1>8
  <2>2. x.id \in Ids(t) /\ \A j \in 1..n : v[j].id \in Ids(t)
    BY <1>2, <1>8, <1>9
  <2> QED
    BY <1>8, <2>1, <2>2
<1> QED
  BY <1>2, <1>7, <1>10 DEF n, AtEnd

\* What Normalize has of the first i chats of s.
NormalTo(v, s, i) ==
  /\ Listing(v) /\ Distinct(v) /\ Ids(v) = {s[j].id : j \in 1..i}
  /\ Distinct(s) => Len(v) = i /\ \A j \in 1..i : v[j] = s[j]

LEMMA NormalNext ==
  ASSUME NEW s, Listing(s), NEW i \in 1..Len(s), NEW v, NormalTo(v, s, i - 1), NEW t,
         t = IF s[i].id \in Ids(v) THEN v ELSE Append(v, s[i])
  PROVE  NormalTo(t, s, i)
<1> DEFINE n == Len(s)
           x == s[i]
<1>1. n \in Nat /\ ChatRecord(x)
  BY ListingShape
<1>2. 1..i = (1..(i - 1)) \cup {i}
  BY <1>1
<1>3. {s[j].id : j \in 1..i} = {s[j].id : j \in 1..(i - 1)} \cup {x.id}
  BY <1>2
<1>4. CASE x.id \in Ids(v)
  <2>1. t = v /\ Ids(t) = {s[j].id : j \in 1..i}
    BY <1>3, <1>4 DEF NormalTo
  <2>2. ~Distinct(s)
    <3>1. PICK j \in 1..(i - 1) : s[j].id = x.id
      BY <1>4 DEF NormalTo
    <3>2. j \in 1..n /\ i \in 1..n /\ j # i
      BY <1>1
    <3> QED
      BY <3>1, <3>2 DEF Distinct
  <2> QED
    BY <2>1, <2>2 DEF NormalTo
<1>5. CASE x.id \notin Ids(v)
  <2>1. t = Append(v, x) /\ Listing(v)
    BY <1>5 DEF NormalTo
  <2> HIDE DEF x
  <2>2. /\ Listing(t) /\ Len(t) = Len(v) + 1 /\ t[Len(v) + 1] = x
        /\ \A j \in 1..Len(v) : t[j] = v[j]
        /\ Ids(t) = Ids(v) \cup {x.id}
    <3>1. AtEnd(t, v, x)
      BY <1>1, <2>1, AppendedShape
    <3> QED
      BY <3>1 DEF AtEnd
  <2>3. Len(v) \in Nat /\ DOMAIN v = 1..Len(v)
    BY <2>1, ListingShape
  <2>4. Distinct(t)
    <3> DEFINE m == Len(v)
    <3>1. \A j \in 1..(m + 1) : j \in 1..m \/ j = m + 1
      BY <2>3
    <3>2. \A j \in 1..m : t[j].id # x.id
      BY <1>5, <2>2, <2>3 DEF Ids
    <3>3. \A j, k \in 1..m : t[j].id = t[k].id => j = k
      BY <2>2 DEF NormalTo, Distinct
    <3> QED
      BY <2>2, <3>1, <3>2, <3>3 DEF Distinct
  <2>5. Ids(t) = {s[j].id : j \in 1..i}
    BY <1>3, <2>2 DEF NormalTo, x
  <2>6. Distinct(s) => Len(t) = i /\ \A j \in 1..i : t[j] = s[j]
    <3>1. SUFFICES ASSUME Distinct(s) PROVE Len(t) = i /\ \A j \in 1..i : t[j] = s[j]
      OBVIOUS
    <3>2. Len(v) = i - 1 /\ \A j \in 1..(i - 1) : v[j] = s[j]
      BY <3>1 DEF NormalTo
    <3>3. Len(t) = i /\ t[i] = x /\ \A j \in 1..(i - 1) : t[j] = s[j]
      BY <1>1, <2>2, <3>2
    <3> QED
      BY <1>2, <3>3 DEF x
  <2> QED
    BY <2>2, <2>4, <2>5, <2>6 DEF NormalTo
<1> QED
  BY <1>4, <1>5

LEMMA NormalizeShape ==
  ASSUME NEW s, Listing(s)
  PROVE  LET t == Normalize(s)
         IN  /\ Listing(t) /\ Distinct(t) /\ Ids(t) = Ids(s)
             /\ Distinct(s) => t = s
<1> DEFINE n == Len(s)
           t == Normalize(s)
<1>1. n \in Nat /\ DOMAIN s = 1..n
  BY ListingShape
<1>2. PICK g \in [0..n -> Seq(Elements(s))] : Normalizes(g, s)
  BY NormalizeRuns
<1> DEFINE T == {i \in 0..n : NormalTo(g[i], s, i)}
<1>3. 0 \in T
  <2>1. g[0] = <<>> /\ 1..0 = {} /\ Len(<<>>) = 0 /\ 0 \in 0..n
    BY <1>1, <1>2 DEF Normalizes
  <2>2. Distinct(<<>>)
    BY DEF Distinct
  <2>3. NormalTo(<<>>, s, 0)
    BY <2>1, <2>2, EmptyListing DEF NormalTo
  <2> QED
    BY <2>1, <2>3
<1>4. ASSUME NEW i \in 0..(n - 1), i \in T PROVE i + 1 \in T
  <2>1. i + 1 \in 1..n /\ (i + 1) - 1 = i /\ i + 1 \in 0..n
    BY <1>1
  <2>2. g[i + 1] = IF s[i + 1].id \in Ids(g[i]) THEN g[i] ELSE Append(g[i], s[i + 1])
    BY <1>2, <2>1 DEF Normalizes
  <2>3. NormalTo(g[i], s, (i + 1) - 1)
    BY <1>4, <2>1
  <2>4. NormalTo(g[i + 1], s, i + 1)
    <3> HIDE DEF T, n
    <3>1. i + 1 \in 1..Len(s)
      BY <2>1 DEF n
    <3> QED
      BY <2>2, <2>3, <3>1, NormalNext
  <2> QED
    BY <2>1, <2>4
<1>5. n \in T
  <2> HIDE DEF T, n
  <2>1. \A i \in 0..(n - 1) : i \in T => i + 1 \in T
    BY <1>4
  <2> QED
    BY <1>1, <1>3, <2>1, UpTo
<1>6. NormalTo(t, s, n)
  BY <1>2, <1>5 DEF Normalizes
<1>7. Ids(s) = {s[j].id : j \in 1..n}
  BY <1>1 DEF Ids
<1> HIDE DEF t
<1>8. Distinct(s) => t = s
  <2>1. SUFFICES ASSUME Distinct(s) PROVE t = s
    OBVIOUS
  <2>2. Len(t) = n /\ \A j \in 1..n : t[j] = s[j]
    BY <1>6, <2>1 DEF NormalTo
  <2>3. t = [j \in 1..Len(t) |-> t[j]] /\ s = [j \in 1..n |-> s[j]]
    BY <1>6, ListingShape DEF NormalTo
  <2> QED
    BY <2>2, <2>3
<1> QED
  BY <1>6, <1>7, <1>8 DEF NormalTo, t

--------------------------------------------------------------------------------
(* What the functions of a page make of its chats.                         *)

\* List t is list s but for chat c.
Edits(s, t, c) ==
  /\ Listing(t)
  /\ \A x \in Ids(s) \cap Ids(t) : x # c => History(t, x) = History(s, x)
  /\ Distinct(s) => Distinct(t)

LEMMA ListMade ==
  ASSUME NEW s, NEW n \in Nat, s = [i \in 1..n |-> s[i]]
  PROVE  IsList(s)
BY DEF IsList, Elements

LEMMA ListShape ==
  ASSUME NEW s, IsList(s)
  PROVE  /\ Len(s) \in Nat /\ DOMAIN s = 1..Len(s) /\ s \in Seq(Elements(s))
         /\ s = [i \in 1..Len(s) |-> s[i]]
<1>1. s \in Seq(Elements(s))
  BY DEF IsList
<1> QED
  BY <1>1

LEMMA ListOf == ASSUME NEW E, NEW s \in Seq(E) PROVE IsList(s)
<1>1. s = [i \in 1..Len(s) |-> s[i]] /\ Len(s) \in Nat
  OBVIOUS
<1> QED
  BY <1>1, ListMade

LEMMA EmptyTalk == Talk(<<>>) /\ Ids(<<>>) = {}
<1>1. IsList(<<>>) /\ Ids(<<>>) = {}
  BY EmptyListing DEF Listing
<1>2. DOMAIN <<>> = {}
  OBVIOUS
<1> QED
  BY <1>1, <1>2 DEF Talk

LEMMA TalkMade ==
  ASSUME NEW s, NEW n \in Nat, s = [i \in 1..n |-> s[i]], \A i \in 1..n : MsgRecord(s[i])
  PROVE  Talk(s) /\ Len(s) = n /\ Ids(s) = {s[i].id : i \in 1..n}
<1>1. IsList(s)
  BY ListMade
<1>2. DOMAIN s = 1..n /\ Len(s) = n
  OBVIOUS
<1> QED
  BY <1>1, <1>2 DEF Talk, Ids

LEMMA TalkShape ==
  ASSUME NEW s, Talk(s)
  PROVE  /\ Len(s) \in Nat /\ DOMAIN s = 1..Len(s) /\ IsList(s)
         /\ s = [i \in 1..Len(s) |-> s[i]]
         /\ \A i \in 1..Len(s) : MsgRecord(s[i])
         /\ Ids(s) = {s[i].id : i \in 1..Len(s)}
<1>1. IsList(s)
  BY DEF Talk
<1>2. Len(s) \in Nat /\ DOMAIN s = 1..Len(s) /\ s = [i \in 1..Len(s) |-> s[i]]
  BY <1>1, ListShape
<1> QED
  BY <1>1, <1>2 DEF Talk, Ids

LEMMA LongerTalk ==
  ASSUME NEW s, Talk(s), NEW x, MsgRecord(x)
  PROVE  Talk(Append(s, x)) /\ Ids(Append(s, x)) = Ids(s) \cup {x.id}
<1> DEFINE n == Len(s)
           E == Elements(s) \cup {x}
           t == Append(s, x)
<1>1. /\ n \in Nat /\ \A i \in 1..n : MsgRecord(s[i])
      /\ Ids(s) = {s[i].id : i \in 1..n} /\ IsList(s)
  BY TalkShape
<1>2. s \in Seq(E) /\ x \in E
  <2>1. \A i \in DOMAIN s : s[i] \in E
    BY DEF Elements
  <2> HIDE DEF E
  <2>2. s \in Seq(E)
    BY <1>1, <2>1, ListShape
  <2> QED
    BY <2>2 DEF E
<1> HIDE DEF E
<1>3. /\ t = [i \in 1..(n + 1) |-> t[i]]
      /\ \A i \in 1..n : t[i] = s[i]
      /\ t[n + 1] = x
  <2>1. t \in Seq(E) /\ Len(t) = n + 1
    BY <1>2
  <2>2. (\A i \in 1..n : t[i] = s[i]) /\ t[n + 1] = x
    BY <1>2
  <2> HIDE DEF t, n
  <2>3. t = [i \in 1..Len(t) |-> t[i]]
    BY <2>1, SeqShape
  <2> QED
    BY <2>1, <2>2, <2>3
<1> HIDE DEF t, n
<1>4. \A i \in 1..(n + 1) : i \in 1..n \/ i = n + 1
  BY <1>1
<1>5. \A i \in 1..(n + 1) : MsgRecord(t[i])
  BY <1>1, <1>3, <1>4
<1>6. Talk(t) /\ Ids(t) = {t[i].id : i \in 1..(n + 1)}
  <2>1. n + 1 \in Nat
    BY <1>1
  <2> QED
    BY <1>3, <1>5, <2>1, TalkMade
<1>7. Ids(t) = Ids(s) \cup {x.id}
  <2>1. \A i \in 1..n : i \in 1..(n + 1)
    BY <1>1
  <2>2. n + 1 \in 1..(n + 1)
    BY <1>1
  <2>3. Ids(t) \subseteq Ids(s) \cup {x.id}
    BY <1>1, <1>3, <1>4, <1>6
  <2>4. Ids(s) \subseteq Ids(t)
    BY <1>1, <1>3, <1>6, <2>1
  <2>5. x.id \in Ids(t)
    BY <1>3, <1>6, <2>2
  <2> QED
    BY <2>3, <2>4, <2>5
<1> QED
  BY <1>6, <1>7 DEF t

LEMMA ToldTalk ==
  ASSUME NEW s, Listing(s), NEW c
  PROVE  Talk(History(s, c))
<1>1. CASE c \in Ids(s)
  BY <1>1, AtIsFirst, ListingShape DEF History, ChatRecord
<1>2. CASE c \notin Ids(s)
  BY <1>2, EmptyTalk DEF History
<1> QED
  BY <1>1, <1>2

LEMMA EditedTalk ==
  ASSUME NEW msgs, Talk(msgs), NEW m
  PROVE  Talk(EditMsg(msgs, m)) /\ Ids(EditMsg(msgs, m)) = Ids(msgs)
<1> DEFINE New(i) == IF msgs[i].id = m THEN [msgs[i] EXCEPT !.text = Plain(m, 2)] ELSE msgs[i]
           n == Len(msgs)
           t == EditMsg(msgs, m)
<1>1. /\ n \in Nat /\ t = [i \in 1..n |-> New(i)]
      /\ Ids(msgs) = {msgs[i].id : i \in 1..n}
  BY TalkShape DEF EditMsg
<1>2. \A i \in 1..n : MsgRecord(New(i)) /\ New(i).id = msgs[i].id
  BY TalkShape DEF MsgRecord
<1> HIDE DEF New, n, t
<1>3. t = [i \in 1..n |-> t[i]] /\ \A i \in 1..n : MsgRecord(t[i]) /\ t[i].id = msgs[i].id
  BY <1>1, <1>2
<1>4. Talk(t) /\ Ids(t) = {t[i].id : i \in 1..n}
  BY <1>1, <1>3, TalkMade
<1>5. Ids(t) = Ids(msgs)
  BY <1>1, <1>3, <1>4
<1> QED
  BY <1>4, <1>5 DEF t

LEMMA DroppedTalk ==
  ASSUME NEW msgs, Talk(msgs), NEW m \in Ids(msgs)
  PROVE  Talk(DropMsg(msgs, m)) /\ Ids(DropMsg(msgs, m)) \subseteq Ids(msgs)
<1> DEFINE E == Elements(msgs)
           i == At(msgs, m)
           a == SubSeq(msgs, 1, i - 1)
           b == SubSeq(msgs, i + 1, Len(msgs))
           t == DropMsg(msgs, m)
<1>1. Len(msgs) \in Nat /\ msgs \in Seq(E) /\ i \in 1..Len(msgs)
  BY TalkShape, ListShape, FirstOf
<1>2. t = a \o b
  BY DEF DropMsg, RemoveAt
<1>3. \A e \in E : MsgRecord(e) /\ e.id \in Ids(msgs)
  BY DEF Elements, Talk, Ids
<1> HIDE DEF E, i, t
<1>4. a \in Seq(E) /\ b \in Seq(E)
  BY <1>1
<1>5. t \in Seq(E)
  BY <1>2, <1>4
<1>6. Len(t) \in Nat /\ t = [j \in 1..Len(t) |-> t[j]] /\ \A j \in 1..Len(t) : t[j] \in E
  BY <1>5
<1>7. Talk(t) /\ Ids(t) = {t[j].id : j \in 1..Len(t)}
  BY <1>3, <1>6, TalkMade
<1>8. Ids(t) \subseteq Ids(msgs)
  BY <1>3, <1>6, <1>7
<1> QED
  BY <1>7, <1>8 DEF t

LEMMA OneTalk ==
  ASSUME NEW x, MsgRecord(x)
  PROVE  Talk(<<x>>) /\ Ids(<<x>>) = {x.id}
<1>1. <<x>> = Append(<<>>, x)
  OBVIOUS
<1> QED
  BY <1>1, EmptyTalk, LongerTalk

LEMMA MsgMade ==
  ASSUME NEW i \in Int \ {0}, NEW role, NEW text
  PROVE  /\ MsgRecord(Msg(i, role, text)) /\ Msg(i, role, text).id = i
         /\ Msg(i, role, text).text = text /\ Msg(i, role, text).role = role
BY DEF MsgRecord, Msg

LEMMA ChatMade ==
  ASSUME NEW c \in ChatIds, NEW title, NEW msgs, Talk(msgs)
  PROVE  /\ ChatRecord(Chat(c, title, msgs))
         /\ Chat(c, title, msgs).id = c /\ Chat(c, title, msgs).msgs = msgs
BY DEF ChatRecord, Chat

LEMMA FrontedEdits ==
  ASSUME NEW s, Listing(s), NEW c \in Ids(s), NEW title, NEW msgs, Talk(msgs)
  PROVE  LET t == ToFront(s, Chat(c, title, msgs))
         IN  Edits(s, t, c) /\ Ids(t) = Ids(s) /\ t # <<>> /\ History(t, c) = msgs
<1> DEFINE x == Chat(c, title, msgs)
           t == ToFront(s, x)
<1>1. ChatRecord(x) /\ x.id = c /\ x.msgs = msgs
  BY ChatMade, IdsType
<1> HIDE DEF x
<1>2. /\ Listing(t) /\ t # <<>> /\ Ids(t) = Ids(s) /\ History(t, c) = msgs
      /\ \A o : o # c => History(t, o) = History(s, o)
  BY <1>1, FrontedShape
<1>3. Distinct(s) => Distinct(t)
  BY <1>1, FrontedDistinct
<1> QED
  BY <1>2, <1>3 DEF Edits, x

LEMMA ToldEdits ==
  ASSUME NEW s, Listing(s), NEW c \in Ids(s), NEW msgs, Talk(msgs)
  PROVE  LET t == WithMsgs(s, c, msgs)
         IN  Edits(s, t, c) /\ Ids(t) = Ids(s) /\ t # <<>> /\ History(t, c) = msgs
BY FrontedEdits DEF WithMsgs

LEMMA AddedShape ==
  ASSUME NEW s, Listing(s), NEW c \in ChatIds, NEW title, NEW msgs, Talk(msgs)
  PROVE  LET t == <<Chat(c, title, msgs)>> \o s
         IN  /\ Listing(t) /\ Ids(t) = {c} \cup Ids(s) /\ t # <<>> /\ History(t, c) = msgs
             /\ \A x : x # c => History(t, x) = History(s, x)
             /\ Distinct(s) /\ c \notin Ids(s) => Distinct(t)
<1> DEFINE x == Chat(c, title, msgs)
           t == <<x>> \o s
<1>1. ChatRecord(x) /\ x.id = c /\ x.msgs = msgs
  BY ChatMade
<1> HIDE DEF x
<1>2. InFront(t, x, s)
  BY <1>1, FrontShape
<1> HIDE DEF t
<1>3. Listing(t) /\ Ids(t) = {c} \cup Ids(s) /\ t # <<>>
  BY <1>1, <1>2, FrontIds DEF InFront
<1>4. History(t, c) = msgs /\ \A o : o # c => History(t, o) = History(s, o)
  BY <1>1, <1>2, FrontHistory
<1>5. Distinct(s) /\ c \notin Ids(s) => Distinct(t)
  BY <1>1, <1>2, FrontDistinct
<1> QED
  BY <1>3, <1>4, <1>5 DEF t, x

\* The page has chats, one of which is active if there is one, and a counter that
\* is not behind the ids.
Sound(p) ==
  /\ Whole(p) /\ Listing(p.store)
  /\ p.active \in IF p.store = <<>> THEN {None} ELSE Ids(p.store)
  /\ p.seq \in Nat /\ \A x \in Ids(p.store) : x <= p.seq

\* The page shows its active chat, or is about to.
Shows(p) == p.due \/ p.rows = Drawn(p.store, p.active)

LEMMA RecoverShape ==
  ASSUME NEW p, Whole(p)
  PROVE  /\ Recover(p).store = p.store /\ Recover(p).active = p.active
         /\ Recover(p).seq = p.seq
         /\ p.gen = NoGen => Recover(p) = p
<1>1. CASE Recover(p) = p
  BY <1>1
<1>2. CASE Recover(p) # p
  <2>1. PICK row, made, shown, rs :
          Recover(p) = [p EXCEPT !.gen.row = row, !.gen.made = made,
                                 !.gen.shown = shown, !.rows = rs]
    BY <1>2 DEF Recover
  <2>2. p.gen # NoGen
    BY <1>2 DEF Recover
  <2> QED
    BY <2>1, <2>2 DEF Whole
<1> QED
  BY <1>1, <1>2

\* Page q is page p after chat c was asked for.
Activated(q, p, c, render) ==
  /\ Sound(q) /\ q.store = p.store
  /\ c \in Ids(p.store) => q.active = c
  /\ p.gen = NoGen => /\ q.gen = NoGen
                      /\ render => Shows(q)
                      /\ ~render => q.rows = p.rows /\ q.due = p.due

LEMMA ActivateShape ==
  ASSUME NEW p, Whole(p), Listing(p.store), p.seq \in Nat, NEW c, NEW render, NEW q,
         q = Activate(p, c, render)
  PROVE  Activated(q, p, c, render)
<1> DEFINE s == p.store
           a == IF c \in Ids(s) THEN c ELSE IF s = <<>> THEN None ELSE Head(s).id
           later == render /\ Motion /\ p.active # None /\ a # None /\ p.active # a
           sq == Counted(s, p.seq)
           d == IF render THEN later ELSE p.due
           rs == IF render /\ ~later THEN Drawn(s, a) ELSE p.rows
           o == [p EXCEPT !.active = a, !.seq = sq, !.due = d, !.rows = rs]
<1>1. a \in IF s = <<>> THEN {None} ELSE Ids(s)
  <2>1. CASE s = <<>>
    BY <2>1, EmptyListing
  <2>2. CASE s # <<>>
    <3>1. Len(s) \in Nat /\ Len(s) # 0 /\ DOMAIN s = 1..Len(s)
      BY <2>2, ListingShape
    <3>2. 1 \in DOMAIN s /\ Head(s) = s[1]
      BY <3>1
    <3> QED
      BY <2>2, <3>2 DEF Ids
  <2> QED
    BY <2>1, <2>2
<1>2. c \in Ids(s) => a = c
  OBVIOUS
<1>3. sq \in Nat /\ \A x \in Ids(s) : x <= sq
  BY CountedIsAbove
<1>4. /\ render => d \/ rs = Drawn(s, a)
      /\ ~render => rs = p.rows /\ d = p.due
  OBVIOUS
<1>5. q = Recover(o)
  BY DEF Activate
<1> HIDE DEF a, sq, d, rs
<1>6. /\ Whole(o) /\ o.store = s /\ o.active = a /\ o.seq = sq /\ o.due = d
      /\ o.rows = rs /\ o.gen = p.gen
  BY DEF Whole
<1> HIDE DEF o
<1>7. /\ Whole(q) /\ q.store = s /\ q.active = a /\ q.seq = sq
      /\ p.gen = NoGen => q = o
  BY <1>5, <1>6, RecoverShape, KeptByRecover DEF KeepsGen
<1>8. Sound(q)
  BY <1>1, <1>3, <1>7 DEF Sound
<1>9. p.gen = NoGen /\ render => Shows(q)
  BY <1>4, <1>6, <1>7 DEF Shows
<1> QED
  BY <1>2, <1>4, <1>6, <1>7, <1>8, <1>9 DEF Activated

\* Page q is page p after message m was kept for chat c.
Persisted(q, p, c, m) ==
  /\ Sound(q) /\ Ids(q.store) = Ids(p.store)
  /\ p.gen = NoGen => q.gen = NoGen /\ q.rows = p.rows /\ q.due = p.due
  /\ Distinct(p.store) => Distinct(q.store)
  /\ \A x : Ids(History(q.store, x)) \subseteq Ids(History(p.store, x)) \cup {m.id}
  /\ c \in Ids(p.store) =>
       /\ q.active = p.active /\ Edits(p.store, q.store, c)
       /\ m.text # Blank => History(q.store, c) = Append(History(p.store, c), m)

LEMMA PersistShape ==
  ASSUME NEW p, Sound(p), NEW c, NEW m, MsgRecord(m), NEW q, q = Persist(p, c, m)
  PROVE  Persisted(q, p, c, m)
<1> DEFINE t == IF c \in Ids(p.store) THEN c ELSE p.active
           msgs == Append(History(p.store, t), m)
           s == WithMsgs(p.store, t, msgs)
           o == [p EXCEPT !.store = s]
<1>1. CASE t \notin Ids(p.store) \/ m.text = Blank
  <2>1. q = p
    BY <1>1 DEF Persist
  <2> QED
    BY <1>1, <2>1 DEF Sound, Edits, Persisted
<1>2. CASE t \in Ids(p.store) /\ m.text # Blank
  <2>1. q = IF t = p.active THEN Activate(o, t, FALSE) ELSE o
    BY <1>2 DEF Persist
  <2>2. c \in Ids(p.store) => t = c /\ msgs = Append(History(p.store, c), m)
    OBVIOUS
  <2>3. /\ Edits(p.store, s, t) /\ Ids(s) = Ids(p.store) /\ s # <<>> /\ History(s, t) = msgs
        /\ Ids(msgs) = Ids(History(p.store, t)) \cup {m.id}
    <3>1. /\ Listing(p.store) /\ Talk(msgs)
          /\ Ids(msgs) = Ids(History(p.store, t)) \cup {m.id}
      BY ToldTalk, LongerTalk DEF Sound
    <3> HIDE DEF msgs
    <3> QED
      BY <1>2, <3>1, ToldEdits
  <2> HIDE DEF s, t, msgs
  <2>4. /\ Whole(o) /\ o.store = s /\ o.active = p.active /\ o.seq = p.seq
        /\ o.rows = p.rows /\ o.due = p.due /\ o.gen = p.gen
    BY DEF Sound, Whole
  <2> HIDE DEF o
  <2>5. p.store # <<>>
    BY <1>2, EmptyListing
  <2>6. Listing(s) /\ p.seq \in Nat /\ (Distinct(p.store) => Distinct(s))
    BY <2>3 DEF Edits, Sound
  <2>7. /\ Sound(q) /\ q.store = s /\ q.active = p.active
        /\ p.gen = NoGen => q.gen = NoGen /\ q.rows = p.rows /\ q.due = p.due
    <3>1. CASE t = p.active
      <4>1. q = Activate(o, t, FALSE)
        BY <2>1, <3>1
      <4>2. Whole(o) /\ Listing(o.store) /\ o.seq \in Nat
        BY <2>4, <2>6
      <4>3. Activated(q, o, t, FALSE)
        BY <4>1, <4>2, ActivateShape
      <4>4. /\ Sound(q) /\ q.store = o.store
            /\ t \in Ids(o.store) => q.active = t
            /\ o.gen = NoGen => q.gen = NoGen /\ q.rows = o.rows /\ q.due = o.due
        BY <4>3 DEF Activated
      <4> QED
        BY <1>2, <2>3, <2>4, <3>1, <4>4
    <3>2. CASE t # p.active
      <4>1. q = o
        BY <2>1, <3>2
      <4> QED
        BY <2>3, <2>4, <2>5, <2>6, <4>1 DEF Sound
    <3> QED
      BY <3>1, <3>2
  <2>8. \A x : History(s, x) = History(p.store, x) \/ x = t
    BY <2>3 DEF Edits, History
  <2> QED
    BY <2>2, <2>3, <2>6, <2>7, <2>8 DEF Persisted
<1> QED
  BY <1>1, <1>2

\* Page q is page p after the snapshot snap.
Snapped(q, p, snap) ==
  /\ Sound(q) /\ q.store = Normalize(snap) /\ Distinct(q.store)
  /\ p.gen = NoGen => q.gen = NoGen /\ Shows(q)

LEMMA DrawnNone ==
  ASSUME NEW s, NEW c, History(s, c) = <<>>
  PROVE  Drawn(s, c) = <<>>
<1> DEFINE told == History(s, c)
           Drew(i) == Row(<<None, told[i].id>>, c, told[i], FALSE)
           E == DOMAIN told
<1>1. E = 1..0
  OBVIOUS
<1>2. Drawn(s, c) = [i \in E |-> Drew(i)]
  BY DEF Drawn
<1> HIDE DEF Drew, E
<1>3. [i \in 1..0 |-> Drew(i)] = <<>>
  OBVIOUS
<1> QED
  BY <1>1, <1>2, <1>3

LEMMA DrawnEmpty == Drawn(<<>>, None) = <<>>
<1>1. History(<<>>, None) = <<>>
  BY EmptyListing DEF History
<1> QED
  BY <1>1, DrawnNone

LEMMA SnapshotShape ==
  ASSUME NEW p, Whole(p), p.seq \in Nat, NEW snap, Listing(snap), NEW preserve, NEW prefer,
         NEW q, q = Snapshot(p, snap, preserve, prefer)
  PROVE  Snapped(q, p, snap)
<1> DEFINE s == Normalize(snap)
<1>1. Listing(s) /\ Distinct(s) /\ (Distinct(snap) => s = snap)
  BY NormalizeShape
<1>2. CASE snap = <<>>
  <2> DEFINE o == [p EXCEPT !.store = <<>>, !.active = None, !.rows = <<>>, !.due = FALSE]
  <2>1. q = o
    BY <1>2 DEF Snapshot
  <2>2. /\ Whole(o) /\ o.store = <<>> /\ o.active = None /\ o.rows = <<>> /\ o.due = FALSE
        /\ o.seq = p.seq /\ o.gen = p.gen
    BY DEF Whole
  <2> HIDE DEF o
  <2>3. s = <<>>
    <3>1. Len(snap) = 0
      BY <1>2
    <3>2. Distinct(snap)
      BY <3>1 DEF Distinct
    <3> QED
      BY <1>1, <1>2, <3>2
  <2>4. Sound(q) /\ q.store = s
    BY <2>1, <2>2, <2>3, EmptyListing DEF Sound
  <2>5. Shows(q)
    BY <2>1, <2>2, DrawnEmpty DEF Shows
  <2>6. p.gen = NoGen => q.gen = NoGen
    BY <2>1, <2>2
  <2> QED
    BY <1>1, <2>4, <2>5, <2>6 DEF Snapped
<1>3. CASE snap # <<>>
  <2>1. PICK a : q = Activate([p EXCEPT !.store = s, !.seq = 0, !.active = a], a, TRUE)
    BY <1>3 DEF Snapshot
  <2> HIDE DEF s
  <2> DEFINE o == [p EXCEPT !.store = s, !.seq = 0, !.active = a]
  <2>2. Whole(o) /\ o.store = s /\ o.seq = 0 /\ o.gen = p.gen
    BY DEF Whole
  <2> HIDE DEF o
  <2>3. q = Activate(o, a, TRUE)
    BY <2>1 DEF o
  <2>4. Whole(o) /\ Listing(o.store) /\ o.seq \in Nat
    BY <1>1, <2>2
  <2>5. Activated(q, o, a, TRUE)
    BY <2>3, <2>4, ActivateShape
  <2>6. Sound(q) /\ q.store = s /\ (p.gen = NoGen => q.gen = NoGen /\ Shows(q))
    BY <2>2, <2>5 DEF Activated
  <2> QED
    BY <1>1, <2>6 DEF Snapped, s
<1> QED
  BY <1>2, <1>3

\* The chats of t have the messages of s and others, which have no id of a turn's.
Foreign(s, t) == \A x : Ids(History(t, x)) \subseteq Ids(History(s, x)) \cup (Nat \ {0})

\* Page r is what a handler makes of the page after call q failed.
AmendedFor(r, q) ==
  /\ Sound(r)
  /\ \A x \in Ids(store) \cap Ids(r.store) :
       x # q.chat /\ ~(q.kind = "wipe" /\ x = active) => History(r.store, x) = History(store, x)
  /\ Distinct(store) /\ ~(q.kind = "create" /\ q.chat \in Ids(store)) => Distinct(r.store)
  /\ Distinct(store) => Foreign(store, r.store)
  /\ gen = NoGen =>
       /\ r.gen = NoGen
       /\ Shows(Page) /\ ~(q.kind \in {"clear", "edit", "remove"} /\ q.chat # active) => Shows(r)

LEMMA EditsForeign ==
  ASSUME NEW s, NEW t, NEW c, Edits(s, t, c), Ids(t) = Ids(s),
         Ids(History(t, c)) \subseteq Ids(History(s, c)) \cup (Nat \ {0})
  PROVE  Foreign(s, t)
<1> SUFFICES ASSUME NEW x PROVE Ids(History(t, x)) \subseteq Ids(History(s, x)) \cup (Nat \ {0})
  BY DEF Foreign
<1>1. CASE x = c
  BY <1>1
<1>2. CASE x # c /\ x \in Ids(s)
  BY <1>2 DEF Edits
<1>3. CASE x \notin Ids(s)
  <2>1. History(t, x) = History(s, x)
    BY <1>3 DEF History
  <2> QED
    BY <2>1
<1> QED
  BY <1>1, <1>2, <1>3

LEMMA SoundPage ==
  ASSUME Sound(Page)
  PROVE  /\ Whole(Page) /\ Listing(store) /\ seq \in Nat /\ \A x \in Ids(store) : x <= seq
         /\ active \in IF store = <<>> THEN {None} ELSE Ids(store)
BY DEF Sound, Page

\* A page with another list of chats, and with one more id given.
LEMMA AnotherList ==
  ASSUME Sound(Page), NEW t
  PROVE  /\ Whole(Changed(t)) /\ Changed(t).store = t /\ Changed(t).seq = seq
         /\ Changed(t).gen = gen
BY DEF Sound, Whole, Changed, Page

LEMMA AnotherId ==
  ASSUME Sound(Page), NEW t, NEW o, o = [Changed(t) EXCEPT !.seq = @ + 1]
  PROVE  Whole(o) /\ o.store = t /\ o.seq = seq + 1 /\ o.gen = gen
BY DEF Sound, Whole, Changed, Page

LEMMA RenamedShape ==
  ASSUME Sound(Page), NEW q, q.chat \in Ids(store), q.kind = "rename"
  PROVE  AmendedFor(Renamed(Page, q.chat), q)
<1> DEFINE c == q.chat
           t == ToFront(store, Chat(c, "new", History(store, c)))
           o == Changed(t)
           r == Renamed(Page, c)
<1>1. Edits(store, t, c) /\ Foreign(store, t)
  <2>1. Talk(History(store, c))
    BY SoundPage, ToldTalk
  <2>2. Edits(store, t, c) /\ Ids(t) = Ids(store) /\ History(t, c) = History(store, c)
    BY <2>1, SoundPage, FrontedEdits
  <2> HIDE DEF t
  <2> QED
    BY <2>2, EditsForeign
<1>2. Whole(o) /\ o.store = t /\ o.seq \in Nat /\ o.gen = gen
  <2> HIDE DEF t
  <2> QED
    BY SoundPage, AnotherList
<1>3. r = Activate(o, c, TRUE)
  BY DEF Renamed, Changed, Page
<1> HIDE DEF t, o, r
<1>4. Listing(o.store)
  BY <1>1, <1>2 DEF Edits
<1>5. Activated(r, o, c, TRUE)
  BY <1>2, <1>3, <1>4, ActivateShape
<1>6. Sound(r) /\ r.store = t /\ (gen = NoGen => r.gen = NoGen /\ Shows(r))
  BY <1>2, <1>5 DEF Activated
<1>7. AmendedFor(r, q)
  BY <1>1, <1>6 DEF AmendedFor, Edits
<1> QED
  BY <1>7 DEF r

LEMMA AmendShape ==
  ASSUME Sound(Page), NEW q, q.chat \in Ids(store),
         q.kind \in {"clear", "edit", "remove"}, NEW msgs, Talk(msgs),
         Ids(msgs) \subseteq Ids(History(store, q.chat))
  PROVE  AmendedFor(AmendLocally(q.chat, msgs), q)
<1> DEFINE c == q.chat
           t == WithMsgs(store, c, msgs)
           o == Changed(t)
           r == AmendLocally(c, msgs)
           render == c = active
<1>1. Edits(store, t, c) /\ Foreign(store, t)
  <2>1. Edits(store, t, c) /\ Ids(t) = Ids(store) /\ History(t, c) = msgs
    BY SoundPage, ToldEdits
  <2> HIDE DEF t
  <2> QED
    BY <2>1, EditsForeign
<1>2. Whole(o) /\ o.store = t /\ o.seq \in Nat /\ o.gen = gen
  <2> HIDE DEF t
  <2> QED
    BY SoundPage, AnotherList
<1>3. r = Activate(o, c, render)
  BY DEF AmendLocally
<1>4. render <=> c = active
  OBVIOUS
<1> HIDE DEF t, o, r, render
<1>5. Listing(o.store)
  BY <1>1, <1>2 DEF Edits
<1>6. Activated(r, o, c, render)
  BY <1>2, <1>3, <1>5, ActivateShape
<1>7. Sound(r) /\ r.store = t /\ (gen = NoGen => r.gen = NoGen /\ (c = active => Shows(r)))
  BY <1>2, <1>4, <1>6 DEF Activated
<1>8. AmendedFor(r, q)
  BY <1>1, <1>7 DEF AmendedFor, Edits
<1> QED
  BY <1>8 DEF r

LEMMA DuplicatedShape ==
  ASSUME Sound(Page), NEW q, q.chat \in Ids(store), q.kind = "duplicate"
  PROVE  AmendedFor(DuplicateLocally(q.chat), q)
<1> DEFINE c == q.chat
           n == seq + 1
           copy == [i \in DOMAIN History(store, c) |-> [History(store, c)[i] EXCEPT !.id = i]]
           t == <<Chat(n, Title(store, c), copy)>> \o store
           o == [Changed(t) EXCEPT !.seq = @ + 1]
           r == DuplicateLocally(c)
<1>1. n \in ChatIds /\ n \notin Ids(store) /\ Listing(store)
  <2>1. seq \in Nat /\ Listing(store) /\ \A x \in Ids(store) : x <= seq
    BY SoundPage
  <2> QED
    BY <2>1 DEF ChatIds
<1>2. r = Activate(o, n, TRUE)
  BY DEF DuplicateLocally
<1>3. /\ Listing(t) /\ Ids(t) = {n} \cup Ids(store)
      /\ \A x : x # n => History(t, x) = History(store, x)
      /\ Distinct(store) => Distinct(t)
      /\ Ids(History(t, n)) \subseteq Nat \ {0}
  <2>1. Talk(copy) /\ Ids(copy) \subseteq Nat \ {0}
    <3> DEFINE New(i) == [History(store, c)[i] EXCEPT !.id = i]
               m == Len(History(store, c))
    <3>1. m \in Nat /\ copy = [i \in 1..m |-> New(i)]
      BY <1>1, ToldTalk, TalkShape
    <3>2. \A i \in 1..m : MsgRecord(New(i)) /\ New(i).id = i
      <4>1. \A i \in 1..m : MsgRecord(History(store, c)[i])
        BY <1>1, ToldTalk, TalkShape
      <4> QED
        BY <4>1 DEF MsgRecord
    <3> HIDE DEF New, m, copy
    <3>3. copy = [i \in 1..m |-> copy[i]] /\ \A i \in 1..m : MsgRecord(copy[i]) /\ copy[i].id = i
      BY <3>1, <3>2
    <3>4. Talk(copy) /\ Ids(copy) = {copy[i].id : i \in 1..m}
      BY <3>1, <3>3, TalkMade
    <3> QED
      BY <3>3, <3>4
  <2> HIDE DEF n, copy
  <2> QED
    BY <1>1, <2>1, AddedShape
<1>4. Whole(o) /\ o.store = t /\ o.seq \in Nat /\ o.gen = gen
  <2> HIDE DEF t
  <2>1. Whole(o) /\ o.store = t /\ o.seq = seq + 1 /\ o.gen = gen
    BY AnotherId
  <2> QED
    BY <2>1, SoundPage
<1> HIDE DEF n, t, o, r
<1>5. Activated(r, o, n, TRUE)
  <2>1. Listing(o.store)
    BY <1>3, <1>4
  <2> QED
    BY <1>2, <1>4, <2>1, ActivateShape
<1>6. Sound(r) /\ r.store = t /\ (gen = NoGen => r.gen = NoGen /\ Shows(r))
  BY <1>4, <1>5 DEF Activated
<1>7. Foreign(store, t)
  BY <1>3 DEF Foreign
<1>8. AmendedFor(r, q)
  BY <1>1, <1>3, <1>6, <1>7 DEF AmendedFor
<1> QED
  BY <1>8 DEF r

\* A list of one chat, without messages.
LEMMA LoneChat ==
  ASSUME NEW c \in ChatIds, NEW title
  PROVE  LET t == <<Chat(c, title, <<>>)>>
         IN  /\ Listing(t) /\ Distinct(t) /\ Ids(t) = {c}
             /\ \A x : History(t, x) = <<>>
<1>1. PICK e : e = <<>>
  OBVIOUS
<1>2. Listing(e) /\ Ids(e) = {} /\ Talk(e)
  BY <1>1, EmptyListing, EmptyTalk
<1>3. Distinct(e)
  <2>1. Len(e) = 0
    BY <1>1
  <2> QED
    BY <2>1 DEF Distinct
<1> DEFINE t == <<Chat(c, title, e)>> \o e
<1>4. /\ Listing(t) /\ Distinct(t) /\ Ids(t) = {c} \cup Ids(e) /\ History(t, c) = e
      /\ \A x : x # c => History(t, x) = History(e, x)
  BY <1>2, <1>3, AddedShape
<1>5. t = <<Chat(c, title, <<>>)>>
  BY <1>1
<1> HIDE DEF t
<1>6. \A x : History(t, x) = <<>>
  BY <1>1, <1>2, <1>4 DEF History
<1> QED
  BY <1>2, <1>4, <1>5, <1>6

LEMMA WithoutLast ==
  ASSUME NEW s, Listing(s), NEW x \in Ids(s), NEW n \in ChatIds, n \notin Ids(s), NEW t,
         t = LET rest == RemoveAt(s, At(s, x))
             IN  IF rest = <<>> THEN <<Chat(n, "old", <<>>)>> ELSE rest
  PROVE  Edits(s, t, x) /\ (Distinct(s) => Foreign(s, t))
<1> DEFINE rest == RemoveAt(s, At(s, x))
           new == <<Chat(n, "old", <<>>)>>
<1>1. Without(rest, s, At(s, x))
  BY AtIsFirst, RemovedShape
<1>2. CASE rest = <<>>
  <2>1. t = new
    BY <1>2
  <2>2. Listing(new) /\ Distinct(new) /\ Ids(new) = {n} /\ \A o : History(new, o) = <<>>
    BY LoneChat
  <2> HIDE DEF new
  <2>3. Foreign(s, new)
    BY <2>2, EmptyTalk DEF Foreign
  <2> QED
    BY <2>1, <2>2, <2>3 DEF Edits
<1>3. CASE rest # <<>>
  <2>1. t = rest
    BY <1>3
  <2> HIDE DEF rest
  <2>2. Listing(rest)
    BY <1>1 DEF Without
  <2>3. \A o \in Ids(s) : o # x => History(rest, o) = History(s, o)
    BY <1>1, RemovedIds
  <2>4. Distinct(s) => Distinct(rest) /\ x \notin Ids(rest)
    BY <1>1, RemovedDistinct
  <2>5. Distinct(s) => Foreign(s, rest)
    <3> SUFFICES ASSUME Distinct(s), NEW o
                 PROVE  Ids(History(rest, o)) \subseteq Ids(History(s, o)) \cup (Nat \ {0})
      BY DEF Foreign
    <3>1. CASE o \in Ids(s) /\ o # x
      BY <2>3, <3>1
    <3>2. CASE o \notin Ids(s) \/ o = x
      <4>1. o \notin Ids(rest)
        BY <1>1, <2>4, <3>2, RemovedIds
      <4> QED
        BY <4>1, EmptyTalk DEF History
    <3> QED
      BY <3>1, <3>2
  <2> QED
    BY <2>1, <2>2, <2>3, <2>4, <2>5 DEF Edits
<1> QED
  BY <1>2, <1>3

LEMMA DeletedShape ==
  ASSUME Sound(Page), NEW q, q.chat \in Ids(store), q.kind = "delete"
  PROVE  AmendedFor(DeleteLocally(q.chat), q)
<1> DEFINE c == q.chat
           n == seq + 1
           rest == RemoveAt(store, At(store, c))
           t == IF rest = <<>> THEN <<Chat(n, "old", <<>>)>> ELSE rest
           a == IF active = c THEN Head(t).id ELSE active
           o == [Changed(t) EXCEPT !.active = a]
           r == DeleteLocally(c)
<1>1. n \in ChatIds /\ n \notin Ids(store) /\ Listing(store)
  <2>1. seq \in Nat /\ Listing(store) /\ \A x \in Ids(store) : x <= seq
    BY SoundPage
  <2> QED
    BY <2>1 DEF ChatIds
<1>2. r = Activate(o, a, TRUE)
  BY DEF DeleteLocally
<1>3. Edits(store, t, c) /\ (Distinct(store) => Foreign(store, t))
  <2> HIDE DEF n
  <2> QED
    BY <1>1, WithoutLast
<1>4. Whole(o) /\ o.store = t /\ o.seq \in Nat /\ o.gen = gen
  <2> HIDE DEF t, a
  <2>1. Whole(o) /\ o.store = t /\ o.seq = seq /\ o.gen = gen
    <3> DEFINE p == Changed(t)
    <3>1. Whole(p) /\ p.store = t /\ p.seq = seq /\ p.gen = gen
      BY AnotherList
    <3>2. o = [p EXCEPT !.active = a]
      OBVIOUS
    <3> HIDE DEF p, o
    <3> QED
      BY <3>1, <3>2 DEF Whole
  <2> QED
    BY <2>1, SoundPage
<1> HIDE DEF n, t, o, r, a
<1>5. Activated(r, o, a, TRUE)
  <2>1. Listing(o.store)
    BY <1>3, <1>4 DEF Edits
  <2> QED
    BY <1>2, <1>4, <2>1, ActivateShape
<1>6. Sound(r) /\ r.store = t /\ (gen = NoGen => r.gen = NoGen /\ Shows(r))
  BY <1>4, <1>5 DEF Activated
<1>7. AmendedFor(r, q)
  BY <1>3, <1>6 DEF AmendedFor, Edits
<1> QED
  BY <1>7 DEF r

\* A list in which a chat lost its messages.
LEMMA EmptiedShape ==
  ASSUME NEW s, Listing(s), NEW c \in Ids(s), NEW t,
         t = [s EXCEPT ![At(s, c)].msgs = <<>>]
  PROVE  Edits(s, t, c) /\ Ids(t) = Ids(s) /\ History(t, c) = <<>>
<1> DEFINE n == Len(s)
           i == At(s, c)
<1>1. n \in Nat /\ DOMAIN s = 1..n /\ i \in 1..n /\ s[i].id = c
  BY ListingShape, AtIsFirst
<1>2. \A j \in 1..n : ChatRecord(s[j])
  BY ListingShape
<1> HIDE DEF n, i
<1>3. t = [s EXCEPT ![i] = [s[i] EXCEPT !.msgs = <<>>]]
  BY DEF i
<1>4. s = [j \in 1..n |-> s[j]]
  BY ListingShape DEF n
<1> DEFINE x == [s[i] EXCEPT !.msgs = <<>>]
<1>5. ChatRecord(x) /\ x.id = s[i].id /\ x.msgs = <<>>
  BY <1>1, <1>2, EmptyTalk DEF ChatRecord
<1> HIDE DEF x
<1>6. t = [j \in 1..n |-> IF j = i THEN x ELSE s[j]]
  BY <1>1, <1>3, <1>4 DEF x
<1>7. t = [j \in 1..n |-> t[j]] /\ \A j \in 1..n : ChatRecord(t[j]) /\ t[j].id = s[j].id
  BY <1>2, <1>5, <1>6
<1>8. Listing(t) /\ Len(t) = n /\ DOMAIN t = 1..n
  <2> DEFINE u == t
  <2>1. u = [j \in 1..n |-> u[j]] /\ \A j \in 1..n : ChatRecord(u[j])
    BY <1>7
  <2> HIDE DEF u
  <2>2. Listing(u) /\ Len(u) = n /\ DOMAIN u = 1..n
    BY <1>1, <2>1, ListingMade
  <2> QED
    BY <2>2 DEF u
<1>9. Ids(t) = Ids(s)
  BY <1>1, <1>7, <1>8 DEF Ids
<1>10. ASSUME NEW y PROVE At(t, y) = At(s, y)
  <2>1. {j \in DOMAIN t : t[j].id = y} = {j \in DOMAIN s : s[j].id = y}
    BY <1>1, <1>7, <1>8
  <2> QED
    BY <2>1 DEF At
<1>11. History(t, c) = <<>>
  BY <1>1, <1>5, <1>6, <1>9, <1>10 DEF History, i
<1>12. ASSUME NEW y \in Ids(s), y # c PROVE History(t, y) = History(s, y)
  <2>1. At(s, y) \in 1..n /\ s[At(s, y)].id = y
    BY AtIsFirst DEF n
  <2>2. At(s, y) # i
    BY <1>1, <1>12, <2>1
  <2>3. t[At(s, y)] = s[At(s, y)]
    BY <1>6, <2>1, <2>2
  <2>4. History(t, y) = t[At(t, y)].msgs /\ History(s, y) = s[At(s, y)].msgs
    BY <1>9, <1>12 DEF History
  <2> QED
    BY <1>10, <2>3, <2>4
<1>13. Distinct(s) => Distinct(t)
  BY <1>7, <1>8 DEF Distinct, n
<1> QED
  BY <1>8, <1>9, <1>11, <1>12, <1>13 DEF Edits

LEMMA WipedShape ==
  ASSUME Sound(Page), NEW q, active # None, q.kind = "wipe"
  PROVE  AmendedFor(WipeLocally, q)
<1> DEFINE t == [store EXCEPT ![At(store, active)].msgs = <<>>]
           o == Changed(t)
           r == WipeLocally
<1>1. Listing(store) /\ active \in Ids(store) /\ seq \in Nat /\ \A x \in Ids(store) : x <= seq
  BY SoundPage
<1>2. Edits(store, t, active) /\ Ids(t) = Ids(store) /\ History(t, active) = <<>>
  BY <1>1, EmptiedShape
<1>3. r = [o EXCEPT !.rows = <<>>, !.due = FALSE]
  BY DEF WipeLocally
<1> HIDE DEF t
<1>4. Whole(o) /\ o.store = t /\ o.seq = seq /\ o.gen = gen /\ o.active = active
  BY AnotherList DEF Changed, Page
<1> HIDE DEF o, r
<1>5. /\ Whole(r) /\ r.store = t /\ r.seq = seq /\ r.gen = gen /\ r.active = active
      /\ r.rows = <<>>
  BY <1>3, <1>4 DEF Whole
<1>6. t # <<>>
  BY <1>1, <1>2, EmptyListing
<1>7. Sound(r)
  BY <1>1, <1>2, <1>5, <1>6 DEF Sound, Edits
<1>8. Shows(r)
  BY <1>2, <1>5, DrawnNone DEF Shows
<1>9. Foreign(store, t)
  BY <1>2, EditsForeign, EmptyTalk
<1>10. AmendedFor(r, q)
  BY <1>2, <1>5, <1>7, <1>8, <1>9 DEF AmendedFor, Edits
<1> QED
  BY <1>10 DEF r

LEMMA DrawnOne ==
  ASSUME NEW s, NEW c, NEW m, History(s, c) = <<m>>
  PROVE  Drawn(s, c) = <<Row(<<None, m.id>>, c, m, FALSE)>>
<1> DEFINE told == History(s, c)
           Drew(i) == Row(<<None, told[i].id>>, c, told[i], FALSE)
           E == DOMAIN told
<1>1. E = 1..1 /\ told[1] = m
  OBVIOUS
<1>2. Drawn(s, c) = [i \in E |-> Drew(i)]
  BY DEF Drawn
<1>3. Drew(1) = Row(<<None, m.id>>, c, m, FALSE)
  BY <1>1
<1> HIDE DEF Drew, E
<1>4. [i \in 1..1 |-> Drew(i)] = <<Drew(1)>>
  OBVIOUS
<1> QED
  BY <1>1, <1>2, <1>3, <1>4

LEMMA CreatedShape ==
  ASSUME Sound(Page), fresh \in Nat, NEW q, q.chat \in Nat \ {0}, q.kind = "create"
  PROVE  AmendedFor(CreateLocally(q.chat), q)
<1> DEFINE c == q.chat
           hello == Msg(fresh + 1, "assistant", Plain(fresh + 1, 1))
           t == <<Chat(c, "old", <<>>)>> \o store
           o == Changed(t)
           made == Activate(o, c, TRUE)
           said == Persist(made, c, hello)
           row == Row(<<None, hello.id>>, c, hello, FALSE)
           r == CreateLocally(c)
<1>1. c \in ChatIds /\ Listing(store)
  BY SoundPage DEF ChatIds
<1>2. r = [said EXCEPT !.rows = Append(said.rows, row)]
  BY DEF CreateLocally
<1>3. hello.text # Blank /\ MsgRecord(hello) /\ hello.id \in Nat \ {0}
  <2>1. hello.text # Blank
    BY DEF Msg, Plain, Text, Blank
  <2>2. fresh + 1 \in Nat \ {0} /\ fresh + 1 \in Int \ {0}
    OBVIOUS
  <2> QED
    BY <2>1, <2>2, MsgMade
<1> HIDE DEF c, hello
<1>4. /\ Listing(t) /\ c \in Ids(t) /\ History(t, c) = <<>>
      /\ \A x : x # c => History(t, x) = History(store, x)
      /\ \A x \in Ids(store) : x \in Ids(t)
      /\ Distinct(store) /\ c \notin Ids(store) => Distinct(t)
  BY <1>1, EmptyTalk, AddedShape
<1> HIDE DEF t
<1>5. Whole(o) /\ o.store = t /\ o.seq \in Nat /\ o.gen = gen
  BY SoundPage, AnotherList
<1> HIDE DEF o
<1>6. Activated(made, o, c, TRUE)
  <2>1. Listing(o.store)
    BY <1>4, <1>5
  <2> HIDE DEF made
  <2>2. made = Activate(o, c, TRUE)
    BY DEF made
  <2> QED
    BY <1>5, <2>1, <2>2, ActivateShape
<1> HIDE DEF made
<1>7. /\ Sound(made) /\ made.store = t /\ made.active = c
      /\ gen = NoGen => made.gen = NoGen /\ Shows(made)
  BY <1>4, <1>5, <1>6 DEF Activated
<1>8. /\ Sound(said) /\ Ids(said.store) = Ids(t) /\ said.active = c
      /\ gen = NoGen => said.gen = NoGen /\ said.rows = made.rows /\ said.due = made.due
      /\ Distinct(t) => Distinct(said.store)
      /\ Edits(t, said.store, c) /\ History(said.store, c) = Append(<<>>, hello)
  <2>1. said = Persist(made, c, hello) /\ c \in Ids(made.store) /\ MsgRecord(hello)
    BY <1>3, <1>4, <1>7
  <2> HIDE DEF said
  <2>2. Persisted(said, made, c, hello)
    BY <1>7, <2>1, PersistShape
  <2> QED
    BY <1>3, <1>4, <1>7, <2>1, <2>2 DEF Persisted
<1> HIDE DEF said
<1>9. Whole(said)
  BY <1>8 DEF Sound
<1> HIDE DEF r, row
<1>10. /\ Whole(r) /\ r.store = said.store /\ r.active = c /\ r.seq = said.seq
       /\ gen = NoGen =>
            r.gen = NoGen /\ r.due = made.due /\ r.rows = Append(made.rows, row)
  BY <1>2, <1>8, <1>9 DEF Whole
<1>11. Sound(r)
  BY <1>8, <1>10 DEF Sound
<1>12. gen = NoGen => Shows(r)
  <2> SUFFICES ASSUME gen = NoGen PROVE Shows(r)
    OBVIOUS
  <2>1. CASE made.due
    BY <1>10, <2>1 DEF Shows
  <2>2. CASE ~made.due
    <3>1. made.rows = <<>>
      BY <1>4, <1>7, <2>2, DrawnNone DEF Shows
    <3>2. r.rows = <<row>>
      BY <1>10, <3>1
    <3>3. History(said.store, c) = <<hello>>
      BY <1>8
    <3>4. Drawn(said.store, c) = <<row>>
      BY <3>3, DrawnOne DEF row
    <3> QED
      BY <1>10, <3>2, <3>4 DEF Shows
  <2> QED
    BY <2>1, <2>2
<1>13. ASSUME NEW x \in Ids(store) \cap Ids(r.store), x # c
       PROVE  History(r.store, x) = History(store, x)
  <2>1. x \in Ids(t) \cap Ids(said.store)
    BY <1>4, <1>10
  <2> QED
    BY <1>4, <1>8, <1>10, <1>13, <2>1 DEF Edits
<1>14. Distinct(store) /\ c \notin Ids(store) => Distinct(r.store)
  BY <1>4, <1>8, <1>10
<1>15. Foreign(store, r.store)
  <2> SUFFICES ASSUME NEW x
               PROVE  Ids(History(r.store, x)) \subseteq Ids(History(store, x)) \cup (Nat \ {0})
    BY DEF Foreign
  <2>1. CASE x = c
    <3>1. History(r.store, x) = <<hello>>
      BY <1>8, <1>10, <2>1
    <3>2. Ids(<<hello>>) = {hello.id}
      BY <1>3, OneTalk
    <3> QED
      BY <1>3, <3>1, <3>2
  <2>2. CASE x # c /\ x \in Ids(t)
    <3>1. History(r.store, x) = History(store, x)
      BY <1>4, <1>8, <1>10, <2>2 DEF Edits
    <3> QED
      BY <3>1
  <2>3. CASE x \notin Ids(t)
    <3>1. History(r.store, x) = <<>>
      BY <1>8, <1>10, <2>3 DEF History
    <3> QED
      BY <3>1, EmptyTalk
  <2> QED
    BY <2>1, <2>2, <2>3
<1>16. AmendedFor(r, q)
  BY <1>10, <1>11, <1>12, <1>13, <1>14, <1>15 DEF AmendedFor, c
<1> QED
  BY <1>16 DEF r, c

LEMMA AmendedShape ==
  ASSUME Sound(Page), fresh \in Nat, NEW q, q.kind = "create" => q.chat \in Nat \ {0}
  PROVE  AmendedFor(Amended(q), q)
<1> DEFINE known == q.chat \in Ids(store)
           has == known /\ q.msg \in Ids(History(store, q.chat))
<1>1. CASE Amended(q) = Page
  <2>1. Page.store = store /\ Page.gen = gen
    BY DEF Page
  <2> QED
    BY <1>1, <2>1 DEF AmendedFor, Foreign
<1>2. CASE Amended(q) = Renamed(Page, q.chat) /\ q.kind = "rename" /\ known
  BY <1>2, RenamedShape
<1>3. CASE Amended(q) = ClearLocally(q.chat) /\ q.kind = "clear" /\ known
  BY <1>3, EmptyTalk, AmendShape DEF ClearLocally
<1>4. CASE Amended(q) = DeleteLocally(q.chat) /\ q.kind = "delete" /\ known
  BY <1>4, DeletedShape
<1>5. CASE Amended(q) = DuplicateLocally(q.chat) /\ q.kind = "duplicate" /\ known
  BY <1>5, DuplicatedShape
<1>6. CASE Amended(q) = EditLocally(q.chat, q.msg) /\ q.kind = "edit" /\ known
  <2>1. /\ Talk(EditMsg(History(store, q.chat), q.msg))
        /\ Ids(EditMsg(History(store, q.chat), q.msg)) = Ids(History(store, q.chat))
    BY SoundPage, ToldTalk, EditedTalk
  <2> QED
    BY <1>6, <2>1, AmendShape DEF EditLocally
<1>7. CASE Amended(q) = RemoveLocally(q.chat, q.msg) /\ q.kind = "remove" /\ has
  <2>1. /\ Talk(DropMsg(History(store, q.chat), q.msg))
        /\ Ids(DropMsg(History(store, q.chat), q.msg)) \subseteq Ids(History(store, q.chat))
    BY <1>7, SoundPage, ToldTalk, DroppedTalk
  <2> QED
    BY <1>7, <2>1, AmendShape DEF RemoveLocally
<1>8. CASE Amended(q) = WipeLocally /\ q.kind = "wipe" /\ active # None
  BY <1>8, WipedShape
<1>9. CASE Amended(q) = CreateLocally(q.chat) /\ q.kind = "create"
  BY <1>9, CreatedShape
<1> QED
  BY <1>1, <1>2, <1>3, <1>4, <1>5, <1>6, <1>7, <1>8, <1>9 DEF Amended

--------------------------------------------------------------------------------
(* What holds of a session.                                                *)

\* The backend's chats have ids of their own, and none of their messages has an id
\* that the page gives to a turn's.
Backend(s) ==
  Listing(s) /\ Distinct(s) /\ \A x : Ids(History(s, x)) \subseteq Nat \ {0}

LEMMA EmptyBackend == Backend(<<>>)
<1>1. Len(<<>>) = 0 /\ Listing(<<>>) /\ Ids(<<>>) = {}
  BY EmptyListing
<1>2. Distinct(<<>>)
  BY <1>1 DEF Distinct
<1>3. \A x : History(<<>>, x) = <<>>
  BY <1>1 DEF History
<1> QED
  BY <1>1, <1>2, <1>3 DEF Backend

LEMMA BackendFronted ==
  ASSUME NEW s, Backend(s), NEW c \in Ids(s), NEW title, NEW msgs, Talk(msgs),
         Ids(msgs) \subseteq Nat \ {0}
  PROVE  Backend(ToFront(s, Chat(c, title, msgs)))
<1> DEFINE t == ToFront(s, Chat(c, title, msgs))
<1>1. Edits(s, t, c) /\ Ids(t) = Ids(s) /\ History(t, c) = msgs
  BY FrontedEdits DEF Backend
<1> HIDE DEF t
<1>2. ASSUME NEW x PROVE Ids(History(t, x)) \subseteq Nat \ {0}
  <2>1. History(t, x) = msgs \/ History(t, x) = History(s, x)
    BY <1>1 DEF Edits, History
  <2> QED
    BY <2>1 DEF Backend
<1> QED
  BY <1>1, <1>2 DEF Edits, Backend, t

LEMMA BackendAdded ==
  ASSUME NEW s, Backend(s), NEW c \in ChatIds, c \notin Ids(s), NEW title, NEW msgs,
         Talk(msgs), Ids(msgs) \subseteq Nat \ {0}
  PROVE  Backend(<<Chat(c, title, msgs)>> \o s)
<1> DEFINE t == <<Chat(c, title, msgs)>> \o s
<1>1. /\ Listing(t) /\ Distinct(t) /\ History(t, c) = msgs
      /\ \A x : x # c => History(t, x) = History(s, x)
  BY AddedShape DEF Backend
<1> HIDE DEF t
<1>2. \A x : Ids(History(t, x)) \subseteq Nat \ {0}
  BY <1>1 DEF Backend
<1> QED
  BY <1>1, <1>2 DEF Backend, t

LEMMA BackendLess ==
  ASSUME NEW s, Backend(s), NEW c \in Ids(s)
  PROVE  Backend(RemoveAt(s, At(s, c)))
<1> DEFINE t == RemoveAt(s, At(s, c))
<1>1. Without(t, s, At(s, c))
  BY AtIsFirst, RemovedShape DEF Backend
<1> HIDE DEF t
<1>2. Listing(t) /\ Distinct(t) /\ c \notin Ids(t) /\ Ids(t) \subseteq Ids(s)
  BY <1>1, RemovedDistinct, RemovedIds DEF Without, Backend
<1>3. ASSUME NEW x PROVE Ids(History(t, x)) \subseteq Nat \ {0}
  <2>1. CASE x \in Ids(t)
    <3>1. History(t, x) = History(s, x)
      BY <1>1, <1>2, <2>1, RemovedIds DEF Backend
    <3> QED
      BY <3>1 DEF Backend
  <2>2. CASE x \notin Ids(t)
    BY <2>2, EmptyTalk DEF History
  <2> QED
    BY <2>1, <2>2
<1> QED
  BY <1>2, <1>3 DEF Backend, t

CallRecord(x) ==
  x \in [kind : {x.kind}, api : {x.api}, chat : {x.chat}, msg : {x.msg},
         phase : {"idle", "ask", "sent", "served", "failed"}, snap : {x.snap},
         made : {x.made}, alone : BOOLEAN]

\* A call to create brings its id, and an answer is what the backend may have.
CallFits(k) ==
  /\ CallRecord(call[k])
  /\ call[k].kind = "create" => call[k].chat \in Nat \ {0}
  /\ call[k].phase = "served" => Backend(call[k].snap)

CallsFit == call = [k \in Calls |-> call[k]] /\ \A k \in Calls : CallFits(k)

\* While a call is alone the others are idle, and what it was answered is what the
\* server has.
AloneFits(k) ==
  call[k].alone /\ call[k].phase # "idle" =>
    /\ \A j \in Calls \ {k} : call[j].phase = "idle"
    /\ call[k].phase = "served" => call[k].snap = server

Alone == \A k \in Calls : AloneFits(k)

\* What holds with turns and without.
ChatsInv == Sound(Page) /\ Backend(server) /\ fresh \in Nat /\ CallsFit

SessionInv == ChatsInv /\ Alone /\ gen = NoGen

LEMMA BecomesSound ==
  ASSUME NEW q, Sound(q), Become(q)
  PROVE  /\ Sound(Page)' /\ store' = q.store /\ gen' = q.gen
         /\ Shows(q) => ViewIsActive'
<1>1. Page' = q
  BY PageBecomes DEF Sound
<1> QED
  BY <1>1 DEF Sound, Shows, Become, ViewIsActive

\* Call k becomes x, which was not answered.
LEMMA CallGoesOn ==
  ASSUME CallsFit, NEW k \in Calls, call[k].phase # "idle", NEW x,
         call' = [call EXCEPT ![k] = x], server' = server, CallRecord(x),
         x.kind = "create" => x.chat \in Nat \ {0}, x.phase # "served",
         Alone /\ x.alone /\ x.phase # "idle" => \A j \in Calls \ {k} : call[j].phase = "idle"
  PROVE  CallsFit' /\ (Alone => Alone')
<1>1. call = [j \in Calls |-> call[j]] /\ \A j \in Calls : CallFits(j)
  BY DEF CallsFit
<1>2. /\ call' = [j \in Calls |-> call'[j]] /\ call'[k] = x
      /\ \A j \in Calls \ {k} : call'[j] = call[j]
  BY <1>1
<1>3. CallFits(k)' /\ (Alone => AloneFits(k)')
  BY <1>2 DEF CallFits, AloneFits
<1>4. ASSUME NEW j \in Calls \ {k} PROVE CallFits(j)' /\ (Alone => AloneFits(j)')
  <2>1. CallFits(j) /\ call'[j] = call[j] /\ k \in Calls \ {j}
    BY <1>1, <1>2
  <2>2. Alone => ~(call[j].alone /\ call[j].phase # "idle")
    BY <2>1 DEF Alone, AloneFits
  <2> QED
    BY <2>1, <2>2 DEF CallFits, AloneFits
<1> QED
  BY <1>2, <1>3, <1>4 DEF CallsFit, Alone

LEMMA CallBegins ==
  ASSUME CallsFit, NEW k \in Calls, NEW kind, NEW api, NEW chat, NEW msg,
         NEW phase \in {"ask", "sent"}, Start(k, kind, api, chat, msg, phase),
         kind = "create" => chat \in Nat \ {0}
  PROVE  CallsFit' /\ Alone' /\ server' = server /\ fresh' = fresh
<1> DEFINE x == [Idle EXCEPT !.kind = kind, !.api = api, !.chat = chat, !.msg = msg,
                   !.phase = phase, !.alone = \A i \in Calls : call[i].phase = "idle"]
<1>1. call = [j \in Calls |-> call[j]] /\ \A j \in Calls : CallFits(j)
  BY DEF CallsFit
<1>2. call' = [j \in Calls |-> IF j # k THEN [call[j] EXCEPT !.alone = FALSE] ELSE x]
      /\ call[k].phase = "idle"
  BY DEF Start
<1>3. /\ CallRecord(x) /\ x.kind = kind /\ x.chat = chat /\ x.phase = phase
      /\ x.alone <=> \A i \in Calls : call[i].phase = "idle"
  BY DEF Idle, CallRecord
<1> HIDE DEF x
<1>4. CallFits(k)' /\ AloneFits(k)'
  <2>1. call'[k] = x
    BY <1>2
  <2>2. x.alone => \A j \in Calls \ {k} : call'[j].phase = "idle"
    <3> SUFFICES ASSUME x.alone, NEW j \in Calls \ {k} PROVE call'[j].phase = "idle"
      OBVIOUS
    <3>1. call'[j] = [call[j] EXCEPT !.alone = FALSE] /\ call[j].phase = "idle"
      BY <1>2, <1>3
    <3>2. CallRecord(call[j])
      BY <1>1 DEF CallFits
    <3> QED
      BY <3>1, <3>2 DEF CallRecord
  <2>3. x.phase # "served"
    BY <1>3
  <2> QED
    BY <1>3, <2>1, <2>2, <2>3 DEF CallFits, AloneFits
<1>5. ASSUME NEW j \in Calls \ {k} PROVE CallFits(j)' /\ AloneFits(j)'
  <2>1. call'[j] = [call[j] EXCEPT !.alone = FALSE] /\ CallFits(j)
    BY <1>1, <1>2
  <2>2. /\ CallRecord(call'[j]) /\ ~call'[j].alone /\ call'[j].kind = call[j].kind
        /\ call'[j].chat = call[j].chat /\ call'[j].phase = call[j].phase
        /\ call'[j].snap = call[j].snap
    BY <2>1 DEF CallFits, CallRecord
  <2> QED
    BY <2>1, <2>2 DEF CallFits, AloneFits
<1>6. call' = [j \in Calls |-> call'[j]] /\ server' = server /\ fresh' = fresh
  BY <1>2 DEF Start
<1> QED
  BY <1>4, <1>5, <1>6 DEF CallsFit, Alone

LEMMA CopiedTalk ==
  ASSUME fresh \in Nat, NEW msgs, Talk(msgs)
  PROVE  Talk(Copies(msgs)) /\ Ids(Copies(msgs)) \subseteq Nat \ {0}
<1> DEFINE New(i) == [msgs[i] EXCEPT !.id = fresh + i]
           n == Len(msgs)
           t == Copies(msgs)
<1>1. n \in Nat /\ t = [i \in 1..n |-> New(i)]
  BY TalkShape DEF Copies
<1>2. \A i \in 1..n : MsgRecord(New(i)) /\ New(i).id = fresh + i
  <2>1. \A i \in 1..n : MsgRecord(msgs[i]) /\ fresh + i \in Int \ {0}
    BY <1>1, TalkShape
  <2> QED
    BY <2>1 DEF MsgRecord
<1>3. \A i \in 1..n : fresh + i \in Nat \ {0}
  BY <1>1
<1> HIDE DEF New, n, t
<1>4. /\ t = [i \in 1..n |-> t[i]]
      /\ \A i \in 1..n : MsgRecord(t[i]) /\ t[i].id = fresh + i
  BY <1>1, <1>2
<1>5. Talk(t) /\ Ids(t) = {t[i].id : i \in 1..n}
  BY <1>1, <1>4, TalkMade
<1>6. Ids(t) \subseteq Nat \ {0}
  BY <1>3, <1>4, <1>5
<1> QED
  BY <1>5, <1>6 DEF t

\* The server's chats stay chats with ids of their own.
LEMMA ServedShape ==
  ASSUME Backend(server), fresh \in Nat, NEW q, ~Refused(q),
         q.kind = "create" => q.chat \in Nat \ {0}, NEW new \in Named \ Ids(server)
  PROVE  Backend(Served(q, new))
<1> DEFINE c == q.chat
           old == History(server, c)
           rest == RemoveAt(server, At(server, c))
           known == c \in Ids(server)
           Fine(msgs) == Talk(msgs) /\ Ids(msgs) \subseteq Nat \ {0}
           hello == <<Msg(fresh + 1, "user", Plain(fresh + 1, 1))>>
           less == IF Len(server) > 1 THEN rest ELSE <<Chat(new, "old", <<>>)>>
<1>1. new \in ChatIds /\ new \notin Ids(server)
  BY DEF ChatIds
<1>2. Fine(old) /\ Fine(<<>>)
  BY ToldTalk, EmptyTalk DEF Backend
<1>3. /\ q.kind = "create" => c \in ChatIds /\ ~known
      /\ q.kind \notin {"create", "import", "sync"} => known
      /\ q.kind = "remove" => q.msg \in Ids(old)
  BY DEF Refused, ChatIds
<1>4. Fine(EditMsg(old, q.msg)) /\ Fine(Copies(old))
  <2> HIDE DEF old
  <2> QED
    BY <1>2, EditedTalk, CopiedTalk
<1>5. q.kind = "remove" => Fine(DropMsg(old, q.msg))
  <2> HIDE DEF old
  <2> QED
    BY <1>2, <1>3, DroppedTalk
<1>6. Fine(hello)
  <2>1. fresh + 1 \in Int \ {0} /\ fresh + 1 \in Nat \ {0}
    OBVIOUS
  <2> QED
    BY <2>1, OneTalk, MsgMade
<1>7. ASSUME NEW title, NEW msgs, known, Fine(msgs)
      PROVE  Backend(ToFront(server, Chat(c, title, msgs))) /\ Backend(WithMsgs(server, c, msgs))
  <2>1. \A tt : Backend(ToFront(server, Chat(c, tt, msgs)))
    BY <1>7, BackendFronted
  <2> QED
    BY <2>1 DEF WithMsgs
<1>8. ASSUME NEW x \in ChatIds, NEW title, NEW msgs, x \notin Ids(server), Fine(msgs)
      PROVE  Backend(<<Chat(x, title, msgs)>> \o server)
  BY <1>8, BackendAdded
<1>9. known => Backend(less)
  <2>1. known => Backend(rest)
    BY BackendLess
  <2>2. Backend(<<Chat(new, "old", <<>>)>>)
    <3> DEFINE x == <<Chat(new, "old", <<>>)>>
    <3>1. x = x \o <<>>
      OBVIOUS
    <3>2. Backend(x \o <<>>)
      BY <1>1, <1>2, EmptyBackend, EmptyListing, BackendAdded
    <3> HIDE DEF x
    <3>3. Backend(x)
      BY <3>1, <3>2
    <3> QED
      BY <3>3 DEF x
  <2> HIDE DEF rest
  <2> QED
    BY <2>1, <2>2
<1>10. Served(q, new) =
        CASE q.kind = "rename" -> ToFront(server, Chat(c, "new", old))
          [] q.kind \in {"clear", "wipe"} -> WithMsgs(server, c, <<>>)
          [] q.kind = "edit" -> WithMsgs(server, c, EditMsg(old, q.msg))
          [] q.kind = "remove" -> WithMsgs(server, c, DropMsg(old, q.msg))
          [] q.kind = "delete" -> less
          [] q.kind = "create" -> <<Chat(c, "old", <<>>)>> \o server
          [] q.kind = "duplicate" -> <<Chat(new, Title(server, c), Copies(old))>> \o server
          [] q.kind = "import" -> <<Chat(new, "new", hello)>> \o server
          [] OTHER -> server
  BY DEF Served
<1> HIDE DEF old, rest, hello, less, Fine
<1>11. CASE q.kind = "rename"
  BY <1>2, <1>3, <1>7, <1>10, <1>11
<1>12. CASE q.kind \in {"clear", "wipe", "edit", "remove"}
  BY <1>2, <1>3, <1>4, <1>5, <1>7, <1>10, <1>12
<1>13. CASE q.kind = "delete"
  BY <1>3, <1>9, <1>10, <1>13
<1>14. CASE q.kind \in {"create", "duplicate", "import"}
  BY <1>1, <1>2, <1>3, <1>4, <1>6, <1>8, <1>10, <1>14
<1>15. CASE q.kind \notin {"rename", "clear", "wipe", "edit", "remove", "delete",
                           "create", "duplicate", "import"}
  BY <1>10, <1>15
<1> QED
  BY <1>11, <1>12, <1>13, <1>14, <1>15

\* The largest of some numbers.
LEMMA LargestIn ==
  ASSUME NEW S, S \subseteq Int, IsFiniteSet(S), NEW b \in Nat
  PROVE  Max({b} \cup S) \in Nat
<1>1. PICK n \in Nat : \E f : f \in Bijection(1..n, S)
  BY FS_NatBijection DEF ExistsBijection
<1>2. PICK f : f \in Bijection(1..n, S)
  BY <1>1
<1>3. f \in [1..n -> Int] /\ S = {f[i] : i \in 1..n}
  BY <1>2 DEF Bijection, Injection, Surjection
<1> DEFINE T == {b} \cup S
<1>4. PICK m \in T : \A x \in T : x <= m
  <2>1. b \in Int
    OBVIOUS
  <2> QED
    BY <1>3, <2>1, LargestOf
<1>5. T \subseteq Int /\ b \in T
  OBVIOUS
<1> HIDE DEF T
<1> DEFINE y == Max(T)
<1>6. y \in T /\ \A x \in T : y >= x
  <2>1. \A x \in T : m >= x
    BY <1>4, <1>5
  <2> QED
    BY <2>1 DEF Max
<1> HIDE DEF y
<1>7. y \in Int /\ y >= b /\ b \in Nat
  BY <1>5, <1>6
<1>8. y \in Nat
  BY <1>7
<1> QED
  BY <1>8 DEF T, y

\* The ids of the messages of some chats.
LEMMA GivenIds ==
  ASSUME NEW s, Listing(s), NEW b \in Nat
  PROVE  Max({b} \cup UNION {Ids(s[i].msgs) : i \in DOMAIN s}) \in Nat
<1> DEFINE n == Len(s)
           F == {Ids(s[i].msgs) : i \in 1..n}
<1>1. n \in Nat /\ DOMAIN s = 1..n /\ \A i \in 1..n : Talk(s[i].msgs)
  BY ListingShape DEF ChatRecord
<1>2. IsFiniteSet(1..n)
  <2>1. n \in Int /\ 1 \in Int
    BY <1>1
  <2> QED
    BY <2>1, FS_Interval
<1>3. ASSUME NEW msgs, Talk(msgs) PROVE Ids(msgs) \subseteq Int /\ IsFiniteSet(Ids(msgs))
  <2> DEFINE k == Len(msgs)
             f == [i \in 1..k |-> msgs[i].id]
  <2>1. /\ k \in Nat /\ Ids(msgs) = {msgs[i].id : i \in 1..k}
        /\ \A i \in 1..k : msgs[i].id \in Int
    BY <1>3, TalkShape DEF MsgRecord
  <2> HIDE DEF k
  <2>2. IsFiniteSet(1..k)
    <3>1. k \in Int /\ 1 \in Int
      BY <2>1
    <3> QED
      BY <3>1, FS_Interval
  <2>3. f \in Surjection(1..k, Ids(msgs))
    BY <2>1 DEF Surjection
  <2> HIDE DEF f
  <2> QED
    BY <2>1, <2>2, <2>3, FS_Surjection
<1> HIDE DEF n
<1>4. IsFiniteSet(F)
  <2> DEFINE f == [i \in 1..n |-> Ids(s[i].msgs)]
  <2>1. f \in Surjection(1..n, F)
    BY DEF Surjection
  <2> HIDE DEF f, F
  <2> QED
    BY <1>2, <2>1, FS_Surjection
<1>5. \A x \in F : x \subseteq Int /\ IsFiniteSet(x)
  BY <1>1, <1>3
<1> HIDE DEF F
<1>6. IsFiniteSet(UNION F)
  BY <1>4, <1>5, FS_UNION
<1>7. UNION F \subseteq Int
  BY <1>5
<1>8. Max({b} \cup UNION F) \in Nat
  BY <1>6, <1>7, LargestIn
<1> QED
  BY <1>1, <1>8 DEF F

LEMMA ServeFits ==
  ASSUME ChatsInv, NEW k \in Calls, Serve(k)
  PROVE  Backend(server') /\ fresh' \in Nat /\ CallsFit' /\ (Alone => Alone')
<1>1. /\ call = [j \in Calls |-> call[j]] /\ \A j \in Calls : CallFits(j)
      /\ Backend(server) /\ fresh \in Nat /\ call[k].phase = "sent"
  BY DEF ChatsInv, CallsFit, Serve
<1>2. CASE Refused(call[k])
  <2> DEFINE x == [call[k] EXCEPT !.phase = "failed"]
  <2>1. call' = [call EXCEPT ![k] = x] /\ server' = server /\ fresh' = fresh
    BY <1>2 DEF Serve
  <2>2. CallRecord(x) /\ x.kind = call[k].kind /\ x.chat = call[k].chat
        /\ x.phase = "failed" /\ x.alone = call[k].alone
    BY <1>1 DEF CallFits, CallRecord
  <2> HIDE DEF x
  <2>3. Alone /\ x.alone /\ x.phase # "idle" => \A j \in Calls \ {k} : call[j].phase = "idle"
    BY <1>1, <2>2 DEF Alone, AloneFits
  <2>4. x.kind = "create" => x.chat \in Nat \ {0}
    BY <1>1, <2>2 DEF CallFits
  <2>5. CallsFit' /\ (Alone => Alone')
    BY <1>1, <2>1, <2>2, <2>3, <2>4, CallGoesOn DEF ChatsInv
  <2> QED
    BY <1>1, <2>1, <2>5
<1>3. CASE ~Refused(call[k])
  <2>1. PICK new \in Named \ Ids(server) :
          /\ server' = Served(call[k], new)
          /\ call' = [call EXCEPT ![k].phase = "served", ![k].snap = server', ![k].made = new]
          /\ fresh' = Max({fresh} \cup UNION {Ids(server'[i].msgs) : i \in DOMAIN server'})
    BY <1>3 DEF Serve
  <2>2. Backend(server')
    BY <1>1, <1>3, <2>1, ServedShape DEF CallFits
  <2>3. fresh' \in Nat
    <3> DEFINE t == server'
    <3>1. Listing(t)
      BY <2>2 DEF Backend
    <3> HIDE DEF t
    <3>2. Max({fresh} \cup UNION {Ids(t[i].msgs) : i \in DOMAIN t}) \in Nat
      BY <1>1, <3>1, GivenIds
    <3> QED
      BY <2>1, <3>2 DEF t
  <2> DEFINE x == [call[k] EXCEPT !.phase = "served", !.snap = server', !.made = new]
  <2>4. /\ call' = [j \in Calls |-> call'[j]] /\ call'[k] = x
        /\ \A j \in Calls \ {k} : call'[j] = call[j]
    BY <1>1, <2>1
  <2>5. /\ CallRecord(x) /\ x.kind = call[k].kind /\ x.chat = call[k].chat
        /\ x.phase = "served" /\ x.alone = call[k].alone /\ x.snap = server'
    BY <1>1 DEF CallFits, CallRecord
  <2> HIDE DEF x
  <2>6. CallFits(k)' /\ (Alone => AloneFits(k)')
    BY <1>1, <2>2, <2>4, <2>5 DEF CallFits, Alone, AloneFits
  <2>7. ASSUME NEW j \in Calls \ {k} PROVE CallFits(j)' /\ (Alone => AloneFits(j)')
    <3>1. CallFits(j) /\ call'[j] = call[j] /\ k \in Calls \ {j}
      BY <1>1, <2>4
    <3>2. Alone => ~(call[j].alone /\ call[j].phase # "idle")
      BY <1>1, <3>1 DEF Alone, AloneFits
    <3> QED
      BY <3>1, <3>2 DEF CallFits, AloneFits
  <2>8. CallsFit' /\ (Alone => Alone')
    BY <2>4, <2>6, <2>7 DEF CallsFit, Alone
  <2> QED
    BY <2>2, <2>3, <2>8
<1> QED
  BY <1>2, <1>3

LEMMA IdleCall == CallRecord(Idle) /\ Idle.phase = "idle" /\ Idle.kind = "none"
BY DEF CallRecord, Idle

LEMMA ApplyFits ==
  ASSUME CallsFit, NEW k \in Calls, ApplyAnswer(k)
  PROVE  CallsFit' /\ (Alone => Alone')
<1> DEFINE x == [Idle EXCEPT !.kind = "sync", !.phase = "sent",
                             !.alone = \A j \in Calls \ {k} : call[j].phase = "idle"]
           y == IF call[k].kind = "import" /\ ~call[k].api THEN x ELSE Idle
<1>1. call[k].phase # "idle" /\ server' = server
  BY DEF ApplyAnswer
<1>2. call' = [call EXCEPT ![k] = y]
  BY DEF ApplyAnswer
<1>3. /\ CallRecord(x) /\ x.kind = "sync" /\ x.phase = "sent"
      /\ x.alone <=> \A j \in Calls \ {k} : call[j].phase = "idle"
  BY DEF Idle, CallRecord
<1> HIDE DEF x
<1>4. /\ CallRecord(y) /\ y.kind # "create" /\ y.phase # "served"
      /\ y.alone /\ y.phase # "idle" => \A j \in Calls \ {k} : call[j].phase = "idle"
  BY <1>3, IdleCall
<1> HIDE DEF y
<1> QED
  BY <1>1, <1>2, <1>4, CallGoesOn

LEMMA CallsFollow ==
  ASSUME ChatsInv, SessionNext
  PROVE  Backend(server') /\ fresh' \in Nat /\ CallsFit' /\ (Alone => Alone')
<1> DEFINE Follows == CallsFit' /\ server' = server /\ (Alone => Alone')
           Given == fresh' = fresh \/ fresh' = fresh + 1
<1>1. ASSUME server' = server, Given PROVE Backend(server') /\ fresh' \in Nat
  BY <1>1 DEF ChatsInv
<1>2. ASSUME call' = call, server' = server PROVE Follows
  <2>1. CallsFit
    BY DEF ChatsInv
  <2> QED
    BY <1>2, <2>1 DEF CallsFit, CallFits, Alone, AloneFits
<1>3. CASE \E c \in Ids(store) : Switch(c)
  BY <1>1, <1>2, <1>3 DEF Switch
<1>4. CASE CommitRender
  BY <1>1, <1>2, <1>4 DEF CommitRender
<1>5. ASSUME NEW k \in Calls, NEW kind, NEW target, MenuCall(k, kind, target) \/ ApiCall(k, kind, target)
      PROVE  Follows /\ Given
  <2>1. kind # "create"
    BY <1>5 DEF MenuCall, ApiCall, Pointed, Asking
  <2>2. CASE MenuCall(k, kind, target)
    <3> DEFINE phase == IF kind \in Asking THEN "ask" ELSE "sent"
    <3>1. Start(k, kind, FALSE, target[1], target[2], phase) /\ phase \in {"ask", "sent"}
      BY <2>2 DEF MenuCall
    <3> HIDE DEF phase
    <3> QED
      BY <2>1, <3>1, CallBegins DEF ChatsInv
  <2>3. CASE ApiCall(k, kind, target)
    <3>1. Start(k, kind, TRUE, target[1], target[2], "sent")
      BY <2>3 DEF ApiCall
    <3> QED
      BY <2>1, <3>1, CallBegins DEF ChatsInv
  <2> QED
    BY <1>5, <2>2, <2>3
<1>6. ASSUME NEW k \in Calls, ApiImport(k) \/ ImportCall(k) \/ WipeCall(k)
      PROVE  Follows /\ Given
  <2>1. CASE ApiImport(k)
    BY <2>1, CallBegins DEF ChatsInv, ApiImport
  <2>2. CASE ImportCall(k)
    BY <2>2, CallBegins DEF ChatsInv, ImportCall
  <2>3. CASE WipeCall(k)
    BY <2>3, CallBegins DEF ChatsInv, WipeCall
  <2> QED
    BY <1>6, <2>1, <2>2, <2>3
<1>7. ASSUME NEW k \in Calls, CreateCall(k) PROVE Follows /\ Given
  <2>1. Start(k, "create", FALSE, seq + 1, None, "sent")
    BY <1>7 DEF CreateCall
  <2>2. seq + 1 \in Nat \ {0}
    BY SoundPage DEF ChatsInv
  <2> QED
    BY <2>1, <2>2, CallBegins DEF ChatsInv
<1>8. ASSUME NEW k \in Calls, NEW yes \in BOOLEAN, Answer(k, yes)
      PROVE  Follows /\ Given
  <2> DEFINE x == IF yes THEN [call[k] EXCEPT !.phase = "sent"] ELSE Idle
  <2>1. CallFits(k) /\ call[k].phase # "idle" /\ server' = server /\ fresh' = fresh
    BY <1>8 DEF ChatsInv, CallsFit, Answer
  <2>2. call' = [call EXCEPT ![k] = x]
    BY <1>8 DEF Answer
  <2>3. /\ CallRecord(x) /\ (x.kind = "create" => x.chat \in Nat \ {0}) /\ x.phase # "served"
        /\ Alone /\ x.alone /\ x.phase # "idle" => \A j \in Calls \ {k} : call[j].phase = "idle"
    <3>1. CASE yes
      BY <2>1, <3>1 DEF CallFits, CallRecord, Alone, AloneFits
    <3>2. CASE ~yes
      BY <3>2, IdleCall
    <3> QED
      BY <3>1, <3>2
  <2> HIDE DEF x
  <2> QED
    BY <2>1, <2>2, <2>3, CallGoesOn DEF ChatsInv
<1>9. ASSUME NEW k \in Calls, Break(k) PROVE Follows /\ Given
  <2> DEFINE x == [call[k] EXCEPT !.phase = "failed"]
  <2>1. CallFits(k) /\ call[k].phase # "idle" /\ server' = server /\ fresh' = fresh
    BY <1>9 DEF ChatsInv, CallsFit, Break
  <2>2. call' = [call EXCEPT ![k] = x]
    BY <1>9 DEF Break
  <2>3. /\ CallRecord(x) /\ (x.kind = "create" => x.chat \in Nat \ {0}) /\ x.phase # "served"
        /\ Alone /\ x.alone /\ x.phase # "idle" => \A j \in Calls \ {k} : call[j].phase = "idle"
    BY <2>1 DEF CallFits, CallRecord, Alone, AloneFits
  <2> HIDE DEF x
  <2> QED
    BY <2>1, <2>2, <2>3, CallGoesOn DEF ChatsInv
<1>10. ASSUME NEW k \in Calls, Fallback(k) PROVE Follows /\ Given
  <2>1. /\ call[k].phase # "idle" /\ server' = server /\ call' = [call EXCEPT ![k] = Idle] /\ Given
    BY <1>10 DEF Fallback
  <2> QED
    BY <2>1, CallGoesOn, IdleCall DEF ChatsInv
<1>11. ASSUME NEW k \in Calls, ApplyAnswer(k) PROVE Follows /\ Given
  BY <1>11, ApplyFits DEF ApplyAnswer, ChatsInv
<1>12. CASE UserStep
  <2>1. ASSUME NEW k \in Calls,
               \/ \E kind \in Kinds : \E target \in Targets(kind) :
                    MenuCall(k, kind, target) \/ ApiCall(k, kind, target)
               \/ ApiImport(k) \/ ImportCall(k) \/ WipeCall(k) \/ CreateCall(k)
               \/ \E yes \in BOOLEAN : Answer(k, yes)
        PROVE  Follows /\ Given
    BY <1>5, <1>6, <1>7, <1>8, <2>1
  <2> QED
    BY <1>1, <1>3, <1>12, <2>1 DEF UserStep
<1>13. ASSUME NEW k \in Calls, CallStep(k) 
      PROVE  Backend(server') /\ fresh' \in Nat /\ CallsFit' /\ (Alone => Alone')
  BY <1>1, <1>9, <1>10, <1>11, <1>13, ServeFits DEF CallStep
<1> QED
  BY <1>4, <1>12, <1>13 DEF SessionNext

\* A step with the page as it is, but for another id given away.
LEMMA PageRemains ==
  ASSUME ChatsInv, store' = store, active' = active, rows' = rows, due' = due, gen' = gen,
         seq' \in {seq, seq + 1}
  PROVE  /\ Sound(Page)'
         /\ ViewIsActive => ViewIsActive'
<1>1. /\ Whole(Page) /\ Listing(store) /\ seq \in Nat /\ \A x \in Ids(store) : x <= seq
      /\ active \in IF store = <<>> THEN {None} ELSE Ids(store)
  BY SoundPage DEF ChatsInv
<1>2. seq' \in Nat /\ seq <= seq'
  BY <1>1
<1>3. \A x \in Ids(store) : x <= seq'
  <2>1. Ids(store) \subseteq Int
    BY <1>1, IdsType, IdsAreInts
  <2> QED
    BY <1>1, <1>2, <2>1
<1> DEFINE q == [Page EXCEPT !.seq = seq']
<1>4. /\ Whole(q) /\ q.store = store /\ q.active = active /\ q.seq = seq' /\ q.rows = rows
      /\ q.due = due /\ q.gen = gen
  BY <1>1 DEF Whole, Page
<1> HIDE DEF q
<1>5. Sound(q) /\ Become(q)
  BY <1>1, <1>2, <1>3, <1>4 DEF Sound, Become
<1>6. ViewIsActive => Shows(q)
  BY <1>4 DEF Shows, Page, ViewIsActive
<1>7. PICK p : Sound(p) /\ Become(p) /\ (ViewIsActive => Shows(p))
  BY <1>5, <1>6
<1>8. Sound(Page)' /\ (Shows(p) => ViewIsActive')
  BY <1>7, BecomesSound
<1> QED
  BY <1>7, <1>8

LEMMA PageFollows ==
  ASSUME ChatsInv, SessionNext
  PROVE  /\ Sound(Page)'
         /\ gen = NoGen => /\ gen' = NoGen
                           /\ ViewIsActive => ViewIsActive' \/ AmendsElsewhere
         /\ Distinct(store) => Distinct(store)' \/ AddsTwice
         /\ Distinct(store) => Foreign(store, store')
<1>1. Whole(Page) /\ Listing(store) /\ seq \in Nat /\ Sound(Page) /\ fresh \in Nat
  BY SoundPage DEF ChatsInv
<1>2. Page.store = store /\ Page.seq = seq /\ Page.gen = gen
  BY DEF Page
<1>3. ASSUME NEW c, c \in Ids(store), Switch(c)
      PROVE  Sound(Page)' /\ (gen = NoGen => gen' = NoGen /\ ViewIsActive') /\ store' = store
  <2> DEFINE q == Activate(Page, c, TRUE)
  <2>1. Become(q)
    BY <1>3 DEF Switch
  <2>2. q = Activate(Page, c, TRUE)
    OBVIOUS
  <2> HIDE DEF q
  <2>3. Activated(q, Page, c, TRUE)
    BY <1>1, <1>2, <2>2, ActivateShape
  <2>4. Sound(q) /\ q.store = store /\ (gen = NoGen => Shows(q) /\ q.gen = NoGen)
    BY <1>1, <1>2, <2>3 DEF Activated
  <2> QED
    BY <2>1, <2>4, BecomesSound
<1>4. CASE CommitRender
  <2>1. /\ store' = store /\ active' = active /\ seq' = seq /\ gen' = gen
        /\ rows' = Drawn(store, active)
    BY <1>4 DEF CommitRender
  <2>2. Whole(Page)'
    BY <1>1, <2>1 DEF Whole, Page
  <2>3. Sound(Page)'
    BY <1>1, <2>1, <2>2 DEF Sound, Page, Listing, IsList, Elements, Ids
  <2>4. ViewIsActive'
    BY <2>1 DEF Shows, Page, ViewIsActive
  <2> QED
    BY <1>1, <2>1, <2>3, <2>4 DEF Distinct, Foreign
<1>5. ASSUME store' = store, active' = active, rows' = rows, due' = due, gen' = gen,
             seq' \in {seq, seq + 1}
      PROVE  /\ Sound(Page)'
             /\ ViewIsActive => ViewIsActive'
             /\ Distinct(store) => Distinct(store)' /\ Foreign(store, store')
  <2>1. /\ Sound(Page)'
        /\ ViewIsActive => ViewIsActive'
    BY <1>5, PageRemains
  <2> QED
    BY <1>1, <1>5, <2>1 DEF Distinct, Foreign
<1>6. ASSUME NEW k \in Calls, ApplyAnswer(k)
      PROVE  /\ Sound(Page)' /\ (gen = NoGen => gen' = NoGen /\ ViewIsActive')
             /\ Distinct(store') /\ Foreign(store, store')
  <2> DEFINE snap == call[k].snap
             preserve == Preserves(call[k])
             prefer == Prefers(call[k])
             q == Snapshot(Page, snap, preserve, prefer)
  <2>1. Become(q) /\ Backend(snap) /\ Listing(snap)
    BY <1>6 DEF ApplyAnswer, ChatsInv, CallsFit, CallFits, Backend
  <2>2. q = Snapshot(Page, snap, preserve, prefer)
    OBVIOUS
  <2> HIDE DEF q, snap, preserve, prefer
  <2>3. Snapped(q, Page, snap)
    BY <1>1, <1>2, <2>1, <2>2, SnapshotShape
  <2>4. /\ Sound(q) /\ (gen = NoGen => Shows(q) /\ q.gen = NoGen)
        /\ q.store = Normalize(snap)
    BY <1>1, <1>2, <2>3 DEF Snapped
  <2>5. q.store = snap
    BY <2>1, <2>4, NormalizeShape DEF Backend
  <2>6. Foreign(store, snap)
    BY <2>1 DEF Foreign, Backend
  <2> QED
    BY <2>1, <2>4, <2>5, <2>6, BecomesSound DEF Backend
<1>7. ASSUME NEW k \in Calls, Fallback(k)
      PROVE  /\ Sound(Page)'
             /\ gen = NoGen => /\ gen' = NoGen
                               /\ ViewIsActive => ViewIsActive' \/ AmendsElsewhere
             /\ Distinct(store) => Distinct(store)' \/ AddsTwice
             /\ Distinct(store) => Foreign(store, store')
  <2> DEFINE q == Amended(call[k])
  <2>1. Become(q) /\ call[k].phase = "failed"
    BY <1>7 DEF Fallback
  <2>2. call[k].kind = "create" => call[k].chat \in Nat \ {0}
    BY DEF ChatsInv, CallsFit, CallFits
  <2>3. AmendedFor(q, call[k])
    BY <1>1, <2>2, AmendedShape
  <2> HIDE DEF q
  <2>4. /\ Sound(q)
        /\ Distinct(store) => Distinct(q.store) \/ AddsTwice
        /\ Distinct(store) => Foreign(store, q.store)
        /\ gen = NoGen => /\ q.gen = NoGen
                          /\ ViewIsActive => Shows(q) \/ AmendsElsewhere
    <3>1. Shows(Page) <=> ViewIsActive
      BY DEF Shows, Page, ViewIsActive
    <3> QED
      BY <2>1, <2>3, <3>1 DEF AmendedFor, AddsTwice, AmendsElsewhere
  <2> QED
    BY <2>1, <2>4, BecomesSound DEF Distinct
<1>8. CASE UserStep
  <2>1. ASSUME NEW k \in Calls,
               \/ \E kind \in Kinds : \E target \in Targets(kind) :
                    MenuCall(k, kind, target) \/ ApiCall(k, kind, target)
               \/ ApiImport(k) \/ ImportCall(k) \/ WipeCall(k) \/ CreateCall(k)
               \/ \E yes \in BOOLEAN : Answer(k, yes)
        PROVE  /\ store' = store /\ active' = active /\ rows' = rows /\ due' = due
               /\ gen' = gen /\ seq' \in {seq, seq + 1}
    BY <2>1 DEF MenuCall, ApiCall, ApiImport, ImportCall, WipeCall, CreateCall, Answer, Start
  <2> QED
    BY <1>3, <1>5, <1>8, <2>1 DEF UserStep, Distinct, Foreign
<1>9. ASSUME NEW k \in Calls, CallStep(k)
      PROVE  /\ Sound(Page)'
             /\ gen = NoGen => /\ gen' = NoGen
                               /\ ViewIsActive => ViewIsActive' \/ AmendsElsewhere
             /\ Distinct(store) => Distinct(store)' \/ AddsTwice
             /\ Distinct(store) => Foreign(store, store')
  <2>1. CASE Serve(k) \/ Break(k)
    BY <1>5, <2>1 DEF Serve, Break
  <2> QED
    BY <1>6, <1>7, <1>9, <2>1 DEF CallStep
<1> QED
  BY <1>4, <1>8, <1>9 DEF SessionNext, Foreign

\* A call that was answered, or that failed, changes only by what is made of it.
LEMMA CallEnds ==
  ASSUME CallsFit, [SessionNext]_sessionVars, NEW k \in Calls,
         call[k].phase \in {"served", "failed"}, call'[k].phase # call[k].phase
  PROVE  Break(k) \/ ApplyAnswer(k) \/ Fallback(k)
<1>1. call = [j \in Calls |-> call[j]] /\ CallRecord(call[k])
  BY DEF CallsFit, CallFits
<1>2. call' # call
  OBVIOUS
<1>3. ASSUME NEW j \in Calls, NEW kind, NEW api, NEW chat, NEW msg, NEW phase,
             Start(j, kind, api, chat, msg, phase)
      PROVE  FALSE
  <2>1. j # k
    BY <1>3 DEF Start
  <2>2. call'[k] = [call[k] EXCEPT !.alone = FALSE]
    BY <1>3, <2>1 DEF Start
  <2> QED
    BY <1>1, <2>2 DEF CallRecord
<1>4. ASSUME NEW j \in Calls, NEW x, call' = [call EXCEPT ![j] = x], j # k
      PROVE  FALSE
  BY <1>1, <1>4
<1>5. ASSUME NEW j \in Calls, NEW yes, Answer(j, yes) PROVE FALSE
  BY <1>4, <1>5 DEF Answer
<1>6. ASSUME NEW j \in Calls, CallStep(j)
      PROVE  Break(k) \/ ApplyAnswer(k) \/ Fallback(k)
  <2>1. CASE j = k
    BY <1>6, <2>1 DEF CallStep, Serve
  <2>2. CASE j # k
    <3>1. CASE Serve(j)
      <4>1. call'[k] = call[k]
        BY <1>1, <2>2, <3>1 DEF Serve
      <4> QED
        BY <4>1
    <3>2. CASE Break(j)
      <4>1. call'[k] = call[k]
        BY <1>1, <2>2, <3>2 DEF Break
      <4> QED
        BY <4>1
    <3>3. CASE ApplyAnswer(j) \/ Fallback(j)
      BY <1>4, <2>2, <3>3 DEF ApplyAnswer, Fallback
    <3> QED
      BY <1>6, <3>1, <3>2, <3>3 DEF CallStep
  <2> QED
    BY <2>1, <2>2
<1>7. ASSUME UserStep PROVE FALSE
  <2>1. ASSUME NEW c, Switch(c) PROVE FALSE
    BY <1>2, <2>1 DEF Switch
  <2>2. ASSUME NEW j \in Calls, NEW kind, NEW target,
               MenuCall(j, kind, target) \/ ApiCall(j, kind, target)
        PROVE  FALSE
    BY <1>3, <2>2 DEF MenuCall, ApiCall
  <2>3. ASSUME NEW j \in Calls, ApiImport(j) \/ ImportCall(j) \/ WipeCall(j) \/ CreateCall(j)
        PROVE  FALSE
    BY <1>3, <2>3 DEF ApiImport, ImportCall, WipeCall, CreateCall
  <2> QED
    BY <1>5, <1>7, <2>1, <2>2, <2>3 DEF UserStep
<1>8. CASE CommitRender
  BY <1>2, <1>8 DEF CommitRender
<1>9. CASE UNCHANGED sessionVars
  BY <1>2, <1>9 DEF sessionVars
<1> QED
  BY <1>6, <1>7, <1>8, <1>9 DEF SessionNext

LEMMA SessionBegins == SessionInit => SessionInv
<1> SUFFICES ASSUME SessionInit PROVE SessionInv
  OBVIOUS
<1> DEFINE a == Chat(1, "old", <<Mine, Reply>>)
           b == Chat(2, "old", <<Other>>)
           s == <<a, b>>
<1>1. /\ Talk(<<Mine, Reply>>) /\ Ids(<<Mine, Reply>>) \subseteq Nat \ {0}
      /\ Talk(<<Other>>) /\ Ids(<<Other>>) \subseteq Nat \ {0}
  <2>1. /\ MsgRecord(Mine) /\ MsgRecord(Reply) /\ MsgRecord(Other)
        /\ Mine.id = 1 /\ Reply.id = 2 /\ Other.id = 3
    BY MsgMade DEF Mine, Reply, Other
  <2>2. <<Mine, Reply>> = Append(<<Mine>>, Reply)
    OBVIOUS
  <2>3. Talk(<<Mine>>) /\ Ids(<<Mine>>) = {1} /\ Talk(<<Other>>) /\ Ids(<<Other>>) = {3}
    BY <2>1, OneTalk
  <2>4. Talk(<<Mine, Reply>>) /\ Ids(<<Mine, Reply>>) = {1} \cup {2}
    BY <2>1, <2>2, <2>3, LongerTalk
  <2> QED
    BY <2>3, <2>4
<1>2. /\ ChatRecord(a) /\ a.id = 1 /\ a.msgs = <<Mine, Reply>>
      /\ ChatRecord(b) /\ b.id = 2 /\ b.msgs = <<Other>>
  BY <1>1, ChatMade DEF ChatIds
<1>3. store = s /\ server = s /\ active = 1 /\ seq = 2 /\ gen = NoGen
  BY DEF SessionInit
<1> HIDE DEF a, b
<1>4. s \in Seq({a, b}) /\ DOMAIN s = 1..2 /\ Len(s) = 2 /\ s[1] = a /\ s[2] = b
  OBVIOUS
<1>5. Listing(s) /\ Distinct(s) /\ Ids(s) = {1, 2} /\ s # <<>>
  <2>1. IsList(s)
    BY <1>4, ListOf
  <2> HIDE DEF s
  <2>2. \A i \in 1..2 : i = 1 \/ i = 2
    OBVIOUS
  <2>3. Listing(s)
    BY <1>2, <1>4, <2>1, <2>2 DEF Listing
  <2>4. Distinct(s)
    BY <1>2, <1>4, <2>2 DEF Distinct
  <2>5. Ids(s) = {1, 2}
    BY <1>2, <1>4, <2>2 DEF Ids
  <2> QED
    BY <2>3, <2>4, <2>5, EmptyListing
<1> HIDE DEF s
<1>10. Backend(s)
  <2>1. ASSUME NEW x \in Ids(s) PROVE Ids(History(s, x)) \subseteq Nat \ {0}
    <3>1. At(s, x) \in 1..2
      BY <1>5, <1>4, AtIsFirst DEF s
    <3>2. History(s, x) \in {a.msgs, b.msgs}
      BY <1>4, <2>1, <3>1 DEF History, s
    <3> QED
      BY <1>1, <1>2, <3>2
  <2>2. \A x : x \notin Ids(s) => Ids(History(s, x)) = {}
    BY EmptyTalk DEF History
  <2>3. \A x : Ids(History(s, x)) \subseteq Nat \ {0}
    BY <2>1, <2>2
  <2> QED
    BY <1>5, <2>3 DEF Backend
<1>6. Whole(Page)
  BY <1>3 DEF Whole, Page, NoGen
<1>7. Sound(Page)
  BY <1>3, <1>5, <1>6 DEF Sound, Page
<1>8. CallsFit /\ Alone
  <2>1. call = [k \in Calls |-> Idle]
    BY DEF SessionInit
  <2> QED
    BY <2>1, IdleCall DEF CallsFit, CallFits, Alone, AloneFits
<1>9. Backend(server) /\ fresh \in Nat
  BY <1>3, <1>10 DEF SessionInit
<1> QED
  BY <1>3, <1>7, <1>8, <1>9 DEF SessionInv, ChatsInv

\* The invariant of the chats holds at all times.
THEOREM SessionKept == Spec => []SessionInv
<1>1. SessionInv /\ [SessionNext]_sessionVars => SessionInv'
  <2> SUFFICES ASSUME SessionInv, [SessionNext]_sessionVars PROVE SessionInv'
    OBVIOUS
  <2>1. CASE SessionNext
    BY <2>1, CallsFollow, PageFollows DEF SessionInv, ChatsInv
  <2>2. CASE UNCHANGED sessionVars
    <3>1. Sound(Page)' /\ gen' = NoGen
      BY <2>2, PageRemains DEF SessionInv, sessionVars
    <3>2. Backend(server') /\ fresh' \in Nat
      BY <2>2 DEF SessionInv, ChatsInv, sessionVars
    <3>3. CallsFit' /\ Alone'
      BY <2>2 DEF SessionInv, ChatsInv, sessionVars, CallsFit, CallFits, Alone, AloneFits
    <3> QED
      BY <3>1, <3>2, <3>3 DEF SessionInv, ChatsInv
  <2> QED
    BY <2>1, <2>2
<1> QED
  BY <1>1, SessionBegins, PTL DEF Spec

\* The ids of the chats, the active chat and the calls are what the code can make
\* of them: in particular some chat is active unless there is none, whatever was
\* deleted or answered (chatSessionsRuntime.js).
THEOREM SomeChatIsActive == Spec => []TypeOK
<1>1. SessionInv => TypeOK
  <2> SUFFICES ASSUME SessionInv PROVE TypeOK
    OBVIOUS
  <2>1. Ids(store) \subseteq ChatIds /\ Ids(server) \subseteq ChatIds
    BY SoundPage, IdsType DEF SessionInv, ChatsInv, Backend
  <2>2. \A k \in Calls : call[k].phase \in {"idle", "ask", "sent", "served", "failed"}
    BY DEF SessionInv, ChatsInv, CallsFit, CallFits, CallRecord
  <2> QED
    BY <2>1, <2>2, SoundPage DEF SessionInv, ChatsInv, TypeOK, ChatIds
<1> QED
  BY <1>1, SessionKept, PTL

\* A page that shows its active chat goes on showing it, but for amendments made
\* locally of another chat (setActiveChatSession).
THEOREM ShowsTheActive == Spec => ViewFollows
<1>1. SessionInv /\ [SessionNext]_sessionVars
        => [ViewIsActive => ViewIsActive' \/ AmendsElsewhere]_sessionVars
  BY PageFollows DEF SessionInv
<1> QED
  BY <1>1, SessionKept, PTL DEF Spec, ViewFollows

\* No two chats of the page get the same id, but by the fallback of the new-session
\* button (createChatSession).
THEOREM IdsStayUnique == Spec => StaysUnique
<1>1. SessionInv /\ [SessionNext]_sessionVars
        => [UniqueIds => UniqueIds' \/ AddsTwice]_sessionVars
  <2> SUFFICES ASSUME SessionInv, SessionNext, UniqueIds PROVE UniqueIds' \/ AddsTwice
    OBVIOUS
  <2>1. Distinct(store)
    BY SoundPage, DistinctIsUnique DEF SessionInv, ChatsInv, UniqueIds
  <2>2. CASE Distinct(store)'
    <3>1. Listing(store') /\ Distinct(store')
      BY <2>2, PageFollows DEF SessionInv, Sound, Page, Distinct
    <3> QED
      BY <3>1, DistinctIsUnique DEF UniqueIds
  <2> QED
    BY <2>1, <2>2, PageFollows DEF SessionInv
<1> QED
  BY <1>1, SessionKept, PTL DEF Spec, StaysUnique

\* The answer to a call that was alone leaves the page with the backend's chats
\* (applyChatStoreSnapshot).
THEOREM AnswersCatchUp == Spec => CatchesUp
<1>1. SessionInv /\ [SessionNext]_sessionVars
        => [\A k \in Calls :
              call[k].phase = "served" /\ call[k].alone /\ call'[k].phase \in {"idle", "sent"}
                => store' = server]_sessionVars
  <2> SUFFICES ASSUME SessionInv, [SessionNext]_sessionVars, NEW k \in Calls,
                      call[k].phase = "served", call[k].alone,
                      call'[k].phase \in {"idle", "sent"}
               PROVE  store' = server
    OBVIOUS
  <2>1. /\ CallFits(k) /\ AloneFits(k) /\ CallRecord(call[k])
        /\ call = [j \in Calls |-> call[j]]
    BY DEF SessionInv, ChatsInv, CallsFit, CallFits, Alone
  <2>2. Listing(call[k].snap) /\ Distinct(call[k].snap) /\ call[k].snap = server
    BY <2>1 DEF CallFits, AloneFits, Backend
  <2>3. ~Break(k)
    <3> SUFFICES ASSUME Break(k) PROVE FALSE
      OBVIOUS
    <3>1. call'[k] = [call[k] EXCEPT !.phase = "failed"]
      BY <2>1 DEF Break
    <3>2. call'[k].phase = "failed"
      BY <2>1, <3>1 DEF CallRecord
    <3> QED
      BY <3>2
  <2>4. ApplyAnswer(k)
    BY <2>3, CallEnds DEF Fallback, SessionInv, ChatsInv
  <2> DEFINE snap == call[k].snap
             preserve == Preserves(call[k])
             prefer == Prefers(call[k])
             q == Snapshot(Page, snap, preserve, prefer)
  <2>5. Become(q) /\ q = Snapshot(Page, snap, preserve, prefer)
    BY <2>4 DEF ApplyAnswer
  <2> HIDE DEF q, preserve, prefer
  <2>6. Whole(Page) /\ Page.seq \in Nat
    BY SoundPage DEF SessionInv, ChatsInv, Page
  <2>7. Snapped(q, Page, snap)
    BY <2>2, <2>5, <2>6, SnapshotShape
  <2>8. store' = Normalize(snap)
    BY <2>5, <2>7 DEF Become, Snapped
  <2> QED
    BY <2>2, <2>8, NormalizeShape
<1> QED
  BY <1>1, SessionKept, PTL DEF Spec, CatchesUp

\* What the client does when a call failed shortens the chat the call is about and
\* no other, but for the clear button (sessionStoreActions.js).
THEOREM FallbacksShorten == Spec => ShortensTheNamed
<1>1. SessionInv /\ [SessionNext]_sessionVars
        => [\A c \in Ids(store) \cap Ids(store') :
              (\E k \in Calls : call[k].phase = "failed" /\ call'[k].phase = "idle")
              /\ Len(History(store', c)) < Len(History(store, c))
                => \E k \in Calls : /\ call[k].phase = "failed"
                                    /\ \/ call[k].chat = c
                                       \/ call[k].kind = "wipe" /\ active = c]_sessionVars
  <2> SUFFICES ASSUME SessionInv, [SessionNext]_sessionVars,
                      NEW c \in Ids(store) \cap Ids(store'), NEW k \in Calls,
                      call[k].phase = "failed", call'[k].phase = "idle",
                      Len(History(store', c)) < Len(History(store, c))
               PROVE  call[k].chat = c \/ (call[k].kind = "wipe" /\ active = c)
    OBVIOUS
  <2>1. Fallback(k)
    BY CallEnds DEF Break, ApplyAnswer, SessionInv, ChatsInv
  <2> DEFINE q == Amended(call[k])
  <2>2. AmendedFor(q, call[k])
    BY AmendedShape DEF SessionInv, ChatsInv, CallsFit, CallFits
  <2>3. store' = q.store
    BY <2>1 DEF Fallback, Become
  <2> HIDE DEF q
  <2>4. Len(History(store, c)) \in Nat
    BY SoundPage, ToldTalk, TalkShape DEF SessionInv, ChatsInv
  <2>5. History(store', c) # History(store, c)
    BY <2>4
  <2> QED
    BY <2>2, <2>3, <2>5 DEF AmendedFor
<1> QED
  BY <1>1, SessionKept, PTL DEF Spec, ShortensTheNamed

--------------------------------------------------------------------------------
(* What the turns say.                                                     *)

\* The messages a turn may add have ids of its own, none of which the backend or
\* another turn gives.
OwnIds(r) == {UserId(r), ReplyId(r), StopId(r)}

LEMMA IdsAreOwn ==
  ASSUME NEW r \in Turns
  PROVE  /\ OwnIds(r) \subseteq Int \ {0} /\ OwnIds(r) \cap Nat = {}
         /\ \A q \in Turns \ {r} : OwnIds(q) \cap OwnIds(r) = {}
<1>1. r \in Nat \ {0} /\ Turns \subseteq Nat \ {0}
  BY TurnsAssumption
<1> QED
  BY <1>1 DEF OwnIds, UserId, ReplyId, StopId

\* A turn whose chat is among s says nothing more in another chat of t.
Apart(s, t) ==
  \A r \in Turns : turn[r].chat \in Ids(s) =>
    \A x : x # turn[r].chat => OwnIds(r) \cap Ids(History(t, x)) \subseteq Ids(History(s, x))

\* And no two chats of t have one id, unless two of s had.
Grows(s, t) == Apart(s, t) /\ (Distinct(s) => Distinct(t))

\* Page q is page p with more chats or messages, each turn's in its chat.
Tells(p, q) == Sound(q) /\ Ids(p.store) \subseteq Ids(q.store) /\ Grows(p.store, q.store)

\* Page q has the chats of page p.
Alike(p, q) == Whole(q) /\ q.store = p.store /\ q.active = p.active /\ q.seq = p.seq

LEMMA TellsTwice ==
  ASSUME NEW o, NEW p, NEW q, Tells(o, p), Tells(p, q)
  PROVE  Tells(o, q)
BY DEF Tells, Grows, Apart

LEMMA TellsNothing ==
  ASSUME NEW p, Sound(p), NEW q, Alike(p, q)
  PROVE  Tells(p, q) /\ Sound(q)
BY DEF Alike, Tells, Grows, Apart, Sound

LEMMA AlikeTwice ==
  ASSUME NEW o, NEW p, NEW q, Alike(o, p), Alike(p, q)
  PROVE  Alike(o, q)
BY DEF Alike

LEMMA AlikeItself == ASSUME NEW p, Whole(p) PROVE Alike(p, p)
BY DEF Alike

\* No message of a turn's is new.
LEMMA TellsOthers ==
  ASSUME NEW p, Sound(p), NEW q, Sound(q), Ids(p.store) \subseteq Ids(q.store),
         Distinct(p.store) => Distinct(q.store),
         \A x : Ids(History(q.store, x)) \subseteq Ids(History(p.store, x))
  PROVE  Tells(p, q)
BY DEF Tells, Grows, Apart

LEMMA AlikeShow ==
  ASSUME NEW p, Whole(p), NEW key, NEW text, NEW wait
  PROVE  Alike(p, Show(p, key, text, wait))
<1>1. PICK rs, shown : Show(p, key, text, wait) = [p EXCEPT !.rows = rs, !.gen.shown = shown]
  BY DEF Show
<1> QED
  BY <1>1, KeptByShow DEF Alike, KeepsGen, Whole

LEMMA AlikeRows ==
  ASSUME NEW p, Whole(p), NEW rs
  PROVE  Alike(p, [p EXCEPT !.rows = rs])
BY DEF Alike, Whole

LEMMA AlikeNamed0 ==
  ASSUME NEW p, Whole(p), NEW key, NEW id
  PROVE  Alike(p, Named0(p, key, id))
BY DEF Alike, Whole, Named0

LEMMA AlikeAdd ==
  ASSUME NEW p, Whole(p), NEW key, NEW chat, NEW m, NEW wait
  PROVE  Alike(p, Add(p, key, chat, m, wait))
BY DEF Alike, Whole, Add

LEMMA AlikePrunedFor ==
  ASSUME NEW p, Whole(p), NEW c
  PROVE  Alike(p, PrunedFor(p, c))
BY DEF Alike, Whole, PrunedFor

LEMMA AlikeRecover ==
  ASSUME NEW p, Whole(p)
  PROVE  Alike(p, Recover(p))
BY RecoverShape, KeptByRecover DEF Alike, KeepsGen

LEMMA AlikeLooked ==
  ASSUME NEW p, Whole(p), NEW r
  PROVE  Alike(p, Looked(p, r))
BY AlikeRecover, AlikeItself DEF Looked

LEMMA AlikeOver ==
  ASSUME NEW p, Whole(p)
  PROVE  Alike(p, [p EXCEPT !.gen = NoGen])
BY DEF Alike, Whole, NoGen

LEMMA AlikeWithText ==
  ASSUME NEW p, Whole(p), NEW r, NEW text
  PROVE  Alike(p, IF Owns(p, r) THEN [p EXCEPT !.gen.text = text] ELSE p)
<1>1. Alike(p, [p EXCEPT !.gen.text = text])
  BY DEF Alike, Whole
<1> QED
  BY <1>1, AlikeItself

LEMMA AlikeFinal ==
  ASSUME NEW p, Whole(p), NEW r
  PROVE  Alike(p, Final(p, r))
<1> DEFINE o == [p EXCEPT !.gen = NoGen]
<1>1. Alike(p, o)
  BY AlikeOver
<1> HIDE DEF o
<1>2. Alike(p, PrunedFor(o, turn[r].chat))
  BY <1>1, AlikePrunedFor, AlikeTwice DEF Alike
<1> QED
  BY <1>2, AlikeItself DEF Final, o

LEMMA AlikeHeard ==
  ASSUME NEW p, Whole(p), NEW r, NEW said
  PROVE  Alike(p, Heard(p, r, said))
<1> DEFINE text == Said(r, turn[r].frozen, said)
           o == IF Owns(p, r) THEN [p EXCEPT !.gen.text = text] ELSE p
           q == Looked(o, r)
<1>1. Alike(p, o)
  BY AlikeWithText
<1> HIDE DEF o
<1>2. Alike(o, q)
  BY <1>1, AlikeLooked DEF Alike
<1> HIDE DEF q
<1>3. Alike(q, Show(q, RowOf(q, r), text, text = Blank))
  BY <1>2, AlikeShow DEF Alike
<1>4. Alike(p, Show(q, RowOf(q, r), text, text = Blank))
  BY <1>1, <1>2, <1>3, AlikeTwice
<1> QED
  BY <1>4 DEF Heard, q, o, text

LEMMA AlikeFrozen ==
  ASSUME NEW p, Whole(p), NEW r, NEW key
  PROVE  Alike(p, Frozen(p, r, key))
<1> DEFINE o == Show(p, Resolved(p, r), Reply1(r), FALSE)
           q == Add(o, key, turn[r].chat, Msg(None, "assistant", Blank), TRUE)
           z == [q EXCEPT !.gen.row = key, !.gen.text = Blank, !.gen.shown = Blank]
<1>1. Alike(p, o)
  BY AlikeShow
<1> HIDE DEF o
<1>2. Alike(p, q)
  <2>1. Whole(o)
    BY <1>1 DEF Alike
  <2>2. Alike(o, q)
    BY <2>1, AlikeAdd
  <2> HIDE DEF q
  <2> QED
    BY <1>1, <2>2, AlikeTwice
<1> HIDE DEF q
<1>3. Alike(q, z)
  BY <1>2 DEF Alike, Whole
<1>4. Alike(p, z)
  BY <1>2, <1>3, AlikeTwice
<1> HIDE DEF z
<1>5. Frozen(p, r, key) = IF ~Owns(q, r) THEN q ELSE z
  BY DEF Frozen, z, q, o
<1> QED
  BY <1>2, <1>4, <1>5

LEMMA PersistTells ==
  ASSUME NEW p, Sound(p), NEW r \in Turns, NEW c, NEW m, MsgRecord(m), m.id \in OwnIds(r),
         turn[r].chat \in Ids(p.store) => c = turn[r].chat
  PROVE  Tells(p, Persist(p, c, m))
<1> DEFINE q == Persist(p, c, m)
<1>1. Persisted(q, p, c, m)
  BY PersistShape
<1> HIDE DEF q
<1>2. Sound(q) /\ Ids(q.store) = Ids(p.store)
  BY <1>1 DEF Persisted
<1>3. ASSUME NEW o \in Turns, turn[o].chat \in Ids(p.store), NEW x, x # turn[o].chat
      PROVE  OwnIds(o) \cap Ids(History(q.store, x)) \subseteq Ids(History(p.store, x))
  <2>1. CASE o = r
    <3>1. c \in Ids(p.store) /\ x # c
      BY <1>3, <2>1
    <3>2. Edits(p.store, q.store, c)
      BY <1>1, <3>1 DEF Persisted
    <3>3. History(q.store, x) = History(p.store, x)
      BY <1>2, <3>1, <3>2 DEF Edits, History
    <3> QED
      BY <3>3
  <2>2. CASE o # r
    <3>1. m.id \notin OwnIds(o)
      BY <2>2, IdsAreOwn
    <3>2. Ids(History(q.store, x)) \subseteq Ids(History(p.store, x)) \cup {m.id}
      BY <1>1 DEF Persisted
    <3> QED
      BY <3>1, <3>2
  <2> QED
    BY <2>1, <2>2
<1>4. Apart(p.store, q.store)
  BY <1>3 DEF Apart
<1>5. Distinct(p.store) => Distinct(q.store)
  BY <1>1 DEF Persisted
<1> QED
  BY <1>2, <1>4, <1>5 DEF Tells, Grows, q

LEMMA RenamedTells ==
  ASSUME NEW p, Sound(p), NEW c \in Ids(p.store)
  PROVE  Tells(p, Renamed(p, c))
<1> DEFINE t == ToFront(p.store, Chat(c, "new", History(p.store, c)))
           o == [p EXCEPT !.store = t]
           q == Renamed(p, c)
<1>1. Edits(p.store, t, c) /\ Ids(t) = Ids(p.store) /\ History(t, c) = History(p.store, c)
  <2>1. Listing(p.store) /\ Talk(History(p.store, c))
    BY ToldTalk DEF Sound
  <2> QED
    BY <2>1, FrontedEdits
<1> HIDE DEF t
<1>2. Whole(o) /\ o.store = t /\ o.seq \in Nat
  BY DEF Sound, Whole
<1>3. q = Activate(o, c, TRUE)
  BY DEF Renamed, t
<1> HIDE DEF o, q
<1>4. Activated(q, o, c, TRUE)
  BY <1>1, <1>2, <1>3, ActivateShape DEF Edits
<1>5. Sound(q) /\ q.store = t
  BY <1>2, <1>4 DEF Activated
<1>6. \A x : History(t, x) = History(p.store, x)
  BY <1>1 DEF Edits, History
<1>7. Tells(p, q)
  BY <1>1, <1>5, <1>6, TellsOthers DEF Edits
<1> QED
  BY <1>7 DEF q

\* A list of chats made chat by chat, with the ids of their messages.
LEMMA ChatByChat ==
  ASSUME NEW s, Listing(s), NEW t, t = [j \in DOMAIN s |-> t[j]],
         \A j \in DOMAIN s : /\ ChatRecord(t[j]) /\ t[j].id = s[j].id
                            /\ Ids(t[j].msgs) = Ids(s[j].msgs)
  PROVE  /\ Listing(t) /\ Len(t) = Len(s) /\ Ids(t) = Ids(s)
         /\ \A x : Ids(History(t, x)) = Ids(History(s, x))
<1> DEFINE n == Len(s)
<1>1. n \in Nat /\ DOMAIN s = 1..n
  BY ListingShape
<1> HIDE DEF n
<1>2. Listing(t) /\ Len(t) = n /\ DOMAIN t = 1..n
  <2>1. t = [j \in 1..n |-> t[j]] /\ \A j \in 1..n : ChatRecord(t[j])
    BY <1>1
  <2> QED
    BY <1>1, <2>1, ListingMade
<1>3. Ids(t) = Ids(s)
  BY <1>1, <1>2 DEF Ids
<1>4. ASSUME NEW x PROVE Ids(History(t, x)) = Ids(History(s, x))
  <2>1. {j \in DOMAIN t : t[j].id = x} = {j \in DOMAIN s : s[j].id = x}
    BY <1>1, <1>2
  <2>2. At(t, x) = At(s, x)
    BY <2>1 DEF At
  <2>3. CASE x \in Ids(s)
    <3>1. At(s, x) \in DOMAIN s
      BY <1>1, <2>3, AtIsFirst DEF n
    <3>2. History(t, x) = t[At(s, x)].msgs /\ History(s, x) = s[At(s, x)].msgs
      BY <1>3, <2>2, <2>3 DEF History
    <3> QED
      BY <3>1, <3>2
  <2>4. CASE x \notin Ids(s)
    BY <1>3, <2>4 DEF History
  <2> QED
    BY <2>3, <2>4
<1> QED
  BY <1>2, <1>3, <1>4 DEF n

\* Messages some of which got another text.
LEMMA RetoldTalk ==
  ASSUME NEW s, Talk(s), NEW text, NEW t, t = [i \in DOMAIN s |-> t[i]],
         \A i \in DOMAIN s : t[i] = s[i] \/ t[i] = [s[i] EXCEPT !.text = text]
  PROVE  Talk(t) /\ Ids(t) = Ids(s)
<1> DEFINE n == Len(s)
<1>1. /\ n \in Nat /\ DOMAIN s = 1..n /\ Ids(s) = {s[i].id : i \in 1..n}
      /\ \A i \in 1..n : MsgRecord(s[i])
  BY TalkShape
<1> HIDE DEF n
<1>2. \A i \in 1..n : MsgRecord(t[i]) /\ t[i].id = s[i].id
  BY <1>1 DEF MsgRecord
<1>3. t = [i \in 1..n |-> t[i]] /\ \A i \in 1..n : MsgRecord(t[i])
  BY <1>1, <1>2
<1>4. Talk(t) /\ Ids(t) = {t[i].id : i \in 1..n}
  BY <1>1, <1>3, TalkMade
<1> QED
  BY <1>1, <1>2, <1>4

LEMMA ContinuedTells ==
  ASSUME NEW p, Sound(p), NEW r, NEW text
  PROVE  Tells(p, Continued(p, r, text))
<1> DEFINE mid == turn[r].mid
           New(c) == [n \in DOMAIN c.msgs |-> IF c.msgs[n].id = mid
                                             THEN [c.msgs[n] EXCEPT !.text = text]
                                             ELSE c.msgs[n]]
           retold(c) == [c EXCEPT !.msgs = New(c)]
           s == p.store
           t == [j \in DOMAIN s |-> IF s[j].id = turn[r].chat THEN retold(s[j]) ELSE s[j]]
           q == Continued(p, r, text)
<1>1. Listing(s) /\ Whole(p)
  BY DEF Sound
<1>2. q = [p EXCEPT !.store = t]
  BY DEF Continued
<1>3. ASSUME NEW j \in DOMAIN s
      PROVE  /\ ChatRecord(retold(s[j])) /\ retold(s[j]).id = s[j].id
             /\ Ids(retold(s[j]).msgs) = Ids(s[j].msgs)
  <2>1. ChatRecord(s[j]) /\ Talk(s[j].msgs)
    BY <1>1, <1>3 DEF Listing, ChatRecord
  <2> DEFINE u == New(s[j])
             v == s[j].msgs
  <2>2. Talk(u) /\ Ids(u) = Ids(v)
    <3>1. u = [i \in DOMAIN v |-> u[i]]
      OBVIOUS
    <3>2. \A i \in DOMAIN v : u[i] = v[i] \/ u[i] = [v[i] EXCEPT !.text = text]
      OBVIOUS
    <3> HIDE DEF u, v, New
    <3>3. Talk(v)
      BY <2>1 DEF v
    <3> QED
      BY <3>1, <3>2, <3>3, RetoldTalk
  <2> HIDE DEF u
  <2>3. retold(s[j]) = [s[j] EXCEPT !.msgs = u]
    BY DEF u
  <2> HIDE DEF New
  <2> QED
    BY <2>1, <2>2, <2>3 DEF ChatRecord
<1> HIDE DEF New, retold
<1>4. ASSUME NEW j \in DOMAIN s
      PROVE  /\ ChatRecord(t[j]) /\ t[j].id = s[j].id
             /\ Ids(t[j].msgs) = Ids(s[j].msgs)
  <2>1. CASE s[j].id = turn[r].chat
    BY <1>3, <2>1
  <2>2. CASE s[j].id # turn[r].chat
    BY <1>1, <2>2 DEF Listing
  <2> QED
    BY <2>1, <2>2
<1>5. t = [j \in DOMAIN s |-> t[j]]
  OBVIOUS
<1> HIDE DEF t
<1> HIDE DEF s
<1>6. /\ Listing(t) /\ Len(t) = Len(s) /\ Ids(t) = Ids(s)
      /\ \A x : Ids(History(t, x)) = Ids(History(s, x))
  BY <1>1, <1>4, <1>5, ChatByChat
<1>7. t = <<>> <=> s = <<>>
  BY <1>1, <1>6, ListingShape
<1> HIDE DEF q
<1>8. /\ Whole(q) /\ q.store = t /\ q.active = p.active /\ q.seq = p.seq
  BY <1>1, <1>2 DEF Whole
<1> USE DEF s
<1>9. Sound(q)
  BY <1>6, <1>7, <1>8 DEF Sound
<1>10. Distinct(s) => Distinct(t)
  <2>1. \A j \in 1..Len(s) : t[j].id = s[j].id
    BY <1>1, <1>4, ListingShape
  <2> QED
    BY <1>6, <2>1 DEF Distinct
<1>11. Tells(p, q)
  BY <1>6, <1>8, <1>9, <1>10, TellsOthers
<1> QED
  BY <1>11 DEF q

LEMMA EnsuredTells ==
  ASSUME NEW p, Sound(p)
  PROVE  Tells(p, Ensured(p)) /\ Ensured(p).active \in Ids(Ensured(p).store)
<1>1. CASE p.active # None
  <2>1. Ensured(p) = p /\ p.active \in Ids(p.store)
    BY <1>1 DEF Ensured, Sound
  <2> QED
    BY <2>1, TellsNothing, AlikeItself DEF Sound
<1>2. CASE p.active = None
  <2> DEFINE c == p.seq + 1
             t == <<Chat(c, "old", <<>>)>> \o p.store
             o == [p EXCEPT !.store = t, !.seq = c]
             q == Ensured(p)
  <2>1. q = Activate([p EXCEPT !.store = <<Chat(p.seq + 1, "old", <<>>)>> \o @,
                               !.seq = @ + 1], p.seq + 1, TRUE)
    BY <1>2 DEF Ensured
  <2>2. q = Activate(o, c, TRUE)
    BY <2>1
  <2> HIDE DEF q
  <2>3. c \in ChatIds /\ c \in Nat
    BY DEF Sound, ChatIds
  <2>4. Talk(<<>>) /\ Listing(p.store)
    BY EmptyTalk DEF Sound
  <2>5. /\ Listing(t) /\ Ids(t) = {c} \cup Ids(p.store) /\ History(t, c) = <<>>
        /\ \A x : x # c => History(t, x) = History(p.store, x)
        /\ Distinct(p.store) => Distinct(t)
    <3>1. c \notin Ids(p.store)
      BY DEF Sound
    <3> HIDE DEF c
    <3> QED
      BY <2>3, <2>4, <3>1, AddedShape
  <2> HIDE DEF c, t
  <2>6. Whole(o) /\ o.store = t /\ o.seq = c
    BY DEF Sound, Whole
  <2> HIDE DEF o
  <2>7. Activated(q, o, c, TRUE)
    BY <2>2, <2>3, <2>5, <2>6, ActivateShape
  <2>8. Sound(q) /\ q.store = t /\ q.active = c
    BY <2>5, <2>6, <2>7 DEF Activated
  <2>9. \A x : Ids(History(t, x)) \subseteq Ids(History(p.store, x))
    BY <2>5, EmptyTalk
  <2>10. Tells(p, q)
    BY <2>5, <2>8, <2>9, TellsOthers
  <2> QED
    BY <2>5, <2>8, <2>10 DEF q
<1> QED
  BY <1>1, <1>2

LEMMA StoppedTells ==
  ASSUME NEW p, Sound(p), p.gen.req \in Turns, turn[p.gen.req].chat = p.gen.chat
  PROVE  Tells(p, Stopped(p))
<1> DEFINE g == p.gen
           text == IF g.text = Blank THEN StoppedLabel ELSE g.text
           m == Msg(StopId(g.req), "assistant", text)
           off == [p EXCEPT !.gen = NoGen]
           shown == Show(off, g.row, text, FALSE)
           stored == Persist(shown, g.chat, m)
           kept == Named0(stored, g.row, StopId(g.req))
           gone == [off EXCEPT !.rows = Removed(@, {i \in DOMAIN @ : @[i].key = g.row})]
<1>1. MsgRecord(m) /\ m.id \in OwnIds(g.req)
  <2>1. StopId(g.req) \in OwnIds(g.req) /\ StopId(g.req) \in Int \ {0}
    BY IdsAreOwn DEF OwnIds
  <2> QED
    BY <2>1, MsgMade
<1> HIDE DEF m
<1>2. Tells(p, off) /\ Sound(off)
  BY AlikeOver, TellsNothing DEF Sound
<1> HIDE DEF off
<1>3. Tells(off, shown) /\ Sound(shown)
  <2>1. Alike(off, shown)
    BY <1>2, AlikeShow DEF Sound
  <2> HIDE DEF shown
  <2> QED
    BY <1>2, <2>1, TellsNothing
<1> HIDE DEF shown
<1>4. Tells(shown, stored) /\ Sound(stored)
  BY <1>1, <1>3, PersistTells DEF Tells
<1> HIDE DEF stored
<1>5. Tells(stored, kept)
  BY <1>4, AlikeNamed0, TellsNothing DEF Sound
<1> HIDE DEF kept
<1>6. Tells(off, gone)
  BY <1>2, AlikeRows, TellsNothing DEF Sound
<1> HIDE DEF gone
<1>7. \A q \in {shown, kept, gone} : Tells(p, q)
  <2>1. Tells(p, shown) /\ Tells(p, gone)
    BY <1>2, <1>3, <1>6, TellsTwice
  <2>2. Tells(p, kept)
    BY <2>1, <1>4, <1>5, TellsTwice
  <2> QED
    BY <2>1, <2>2
<1>8. PICK q \in {shown, kept, gone} : Stopped(p) = PrunedFor(q, g.chat)
  BY DEF Stopped, shown, kept, gone, stored, off, m
<1>9. Tells(p, q) /\ Sound(q)
  BY <1>7 DEF Tells
<1>10. Tells(q, PrunedFor(q, g.chat))
  BY <1>9, AlikePrunedFor, TellsNothing DEF Sound
<1> QED
  BY <1>8, <1>9, <1>10, TellsTwice

LEMMA SpokenTells ==
  ASSUME NEW p, Sound(p), NEW r, NEW text, NEW title
  PROVE  Tells(p, Spoken(p, r, text, title))
<1> DEFINE c == turn[r].chat
           p1 == IF Owns(p, r) THEN [p EXCEPT !.gen.text = text] ELSE p
           p2 == IF title /\ c \in Ids(p1.store) THEN Renamed(p1, c) ELSE p1
           p3 == Looked(p2, r)
<1>1. Tells(p, p1) /\ Sound(p1)
  <2>1. Alike(p, p1)
    BY AlikeWithText DEF Sound
  <2> HIDE DEF p1
  <2> QED
    BY <2>1, TellsNothing
<1> HIDE DEF p1
<1>2. Tells(p1, p2) /\ Sound(p2)
  BY <1>1, RenamedTells, AlikeItself, TellsNothing DEF Sound, Tells
<1> HIDE DEF p2
<1>3. Tells(p2, p3) /\ Sound(p3)
  BY <1>2, AlikeLooked, TellsNothing DEF Sound
<1> HIDE DEF p3
<1>4. Tells(p3, Show(p3, RowOf(p3, r), text, FALSE))
  BY <1>3, AlikeShow, TellsNothing DEF Sound
<1>5. Tells(p, Show(p3, RowOf(p3, r), text, FALSE))
  BY <1>1, <1>2, <1>3, <1>4, TellsTwice
<1> QED
  BY <1>5 DEF Spoken, p1, p2, p3, c

LEMMA RepliedTells ==
  ASSUME NEW p, Sound(p), NEW r \in Turns, NEW text
  PROVE  Tells(p, Replied(p, r, text))
<1> DEFINE m == Msg(ReplyId(r), "assistant", text)
           o == Persist(p, turn[r].chat, m)
           q == Named0(o, RowOf(p, r), ReplyId(r))
           kept == IF text = Blank \/ p.store = <<>> THEN p ELSE q
<1>1. MsgRecord(m) /\ m.id \in OwnIds(r)
  <2>1. ReplyId(r) \in OwnIds(r) /\ ReplyId(r) \in Int \ {0}
    BY IdsAreOwn DEF OwnIds
  <2> QED
    BY <2>1, MsgMade
<1> HIDE DEF m
<1>2. Tells(p, o) /\ Sound(o)
  BY <1>1, PersistTells DEF Tells
<1> HIDE DEF o
<1>3. Tells(o, q)
  BY <1>2, AlikeNamed0, TellsNothing DEF Sound
<1> HIDE DEF q
<1>4. Tells(p, kept) /\ Sound(kept)
  <2>1. Tells(p, p) /\ Tells(p, q)
    BY <1>2, <1>3, TellsTwice, TellsNothing, AlikeItself DEF Sound
  <2> QED
    BY <2>1 DEF Tells
<1> HIDE DEF kept
<1>5. Tells(kept, PrunedFor(kept, turn[r].chat))
  BY <1>4, AlikePrunedFor, TellsNothing DEF Sound
<1>6. Tells(p, PrunedFor(kept, turn[r].chat))
  BY <1>4, <1>5, TellsTwice
<1> QED
  BY <1>6 DEF Replied, kept, q, o, m

--------------------------------------------------------------------------------
(* The steps of a turn, and what they tell.                                *)

\* What is kept of a turn, as far as the chats depend on it.
Fits(t) ==
  /\ t.attempt \in Nat
  /\ IF t.pc = "idle" THEN t.chat = None ELSE t.chat \in ChatIds
  /\ t.pc = "listed" => Backend(t.snap)

TalksInv == TurnsInv /\ ChatsInv /\ \A r \in Turns : Fits(turn[r])

LEMMA PageTold ==
  ASSUME NEW q, Tells(Page, q), Become(q)
  PROVE  Sound(Page)' /\ Grows(store, store')
<1>1. Sound(q) /\ Grows(Page.store, q.store)
  BY DEF Tells
<1>2. Page.store = store /\ store' = q.store
  BY DEF Page, Become
<1>3. Sound(Page)'
  BY <1>1, BecomesSound
<1> QED
  BY <1>1, <1>2, <1>3

LEMMA PageKept ==
  ASSUME Sound(Page), UNCHANGED <<store, active, seq, rows, due, gen>>
  PROVE  Sound(Page)' /\ Grows(store, store')
<1>1. Become(Page)
  BY DEF Become, Page
<1>2. Tells(Page, Page)
  BY AlikeItself, TellsNothing DEF Sound
<1> QED
  BY <1>1, <1>2, PageTold

LEMMA FinishTells ==
  ASSUME Sound(Page), NEW r \in Turns, NEW text, NEW title, Finish(r, text, title)
  PROVE  Sound(Page)' /\ Grows(store, store')
<1> DEFINE p == Spoken(Page, r, text, title)
           q == IF turn[r].kind = "continue" THEN Continued(p, r, text)
                ELSE Replied(p, r, text)
<1>1. Tells(Page, p) /\ Sound(p)
  BY SpokenTells DEF Tells
<1>2. Become(q)
  BY DEF Finish
<1> HIDE DEF p
<1>3. Tells(p, q)
  BY <1>1, ContinuedTells, RepliedTells
<1> HIDE DEF q
<1>4. Tells(Page, q)
  BY <1>1, <1>3, TellsTwice
<1> QED
  BY <1>2, <1>4, PageTold

\* A page without more chats.
LEMMA AlikeTold ==
  ASSUME Sound(Page), NEW q, Alike(Page, q), Become(q)
  PROVE  Sound(Page)' /\ Grows(store, store')
BY TellsNothing, PageTold

LEMMA CancelTells ==
  ASSUME Sound(Page), NEW r \in Turns, Cancel(r)
  PROVE  Sound(Page)' /\ Grows(store, store')
<1> DEFINE p == Recover(Page)
           q == Final(p, r)
           z == IF turn[r].kind = "send" THEN Page ELSE q
<1>1. Become(z)
  BY DEF Cancel
<1>2. Alike(Page, p) /\ Alike(Page, Page)
  BY AlikeRecover, AlikeItself DEF Sound
<1> HIDE DEF p
<1>3. Alike(Page, q)
  BY <1>2, AlikeFinal, AlikeTwice DEF Alike
<1> HIDE DEF q
<1>4. Alike(Page, z)
  BY <1>2, <1>3
<1> HIDE DEF z
<1> QED
  BY <1>1, <1>4, AlikeTold

LEMMA RefuseTells ==
  ASSUME Sound(Page), NEW r \in Turns, Refuse(r)
  PROVE  Sound(Page)' /\ Grows(store, store')
<1> DEFINE c == turn[r].chat
           m == Msg(ReplyId(r), "assistant", Sorry(r))
           p == Persist(Page, c, m)
           o == Add(p, <<None, m.id>>, c, m, FALSE)
           q == Recover(o)
<1>1. Become(q)
  BY DEF Refuse
<1>2. MsgRecord(m) /\ m.id \in OwnIds(r)
  <2>1. ReplyId(r) \in OwnIds(r) /\ ReplyId(r) \in Int \ {0}
    BY IdsAreOwn DEF OwnIds
  <2> QED
    BY <2>1, MsgMade
<1> HIDE DEF m
<1>3. Tells(Page, p) /\ Sound(p)
  BY <1>2, PersistTells DEF Tells
<1> HIDE DEF p
<1>4. Tells(p, o) /\ Sound(o)
  <2>1. Alike(p, o)
    BY <1>3, AlikeAdd DEF Sound
  <2> HIDE DEF o
  <2> QED
    BY <1>3, <2>1, TellsNothing
<1> HIDE DEF o
<1>5. Tells(o, q)
  BY <1>4, AlikeRecover, TellsNothing DEF Sound
<1> HIDE DEF q
<1>6. Tells(Page, q)
  BY <1>3, <1>4, <1>5, TellsTwice
<1> QED
  BY <1>1, <1>6, PageTold

LEMMA HeardTells ==
  ASSUME Sound(Page), NEW r \in Turns, Partial(r) \/ OtherModel(r)
  PROVE  Sound(Page)' /\ Grows(store, store')
<1>1. PICK n : Become(Heard(Page, r, n))
  BY DEF Partial, OtherModel
<1> DEFINE q == Heard(Page, r, n)
<1>2. Alike(Page, q) /\ Become(q)
  BY <1>1, AlikeHeard DEF Sound
<1> HIDE DEF q
<1> QED
  BY <1>2, AlikeTold

LEMMA ToolStartTells ==
  ASSUME Sound(Page), NEW r \in Turns, ToolStart(r)
  PROVE  Sound(Page)' /\ Grows(store, store')
<1> DEFINE p == Recover(Page)
           key == <<r, turn[r].made + 1>>
           q == Frozen(p, r, key)
<1>1. Become(q)
  BY DEF ToolStart
<1>2. Alike(Page, p)
  BY AlikeRecover DEF Sound
<1> HIDE DEF p, key
<1>3. Alike(p, q)
  BY <1>2, AlikeFrozen DEF Alike
<1> HIDE DEF q
<1>4. Alike(Page, q)
  BY <1>2, <1>3, AlikeTwice
<1> QED
  BY <1>1, <1>4, AlikeTold

LEMMA AntiLoopTells ==
  ASSUME Sound(Page), NEW r \in Turns, AntiLoop(r)
  PROVE  Sound(Page)' /\ Grows(store, store')
<1> DEFINE p == Recover(Page)
           q == Show(p, Resolved(p, r), Blank, TRUE)
<1>1. Finish(r, Reply1(r), FALSE) \/ Become(q)
  BY DEF AntiLoop
<1>2. Alike(Page, p)
  BY AlikeRecover DEF Sound
<1> HIDE DEF p
<1>3. Alike(p, q)
  <2>1. Whole(p)
    BY <1>2 DEF Alike
  <2> QED
    BY <2>1, AlikeShow
<1> HIDE DEF q
<1>4. Alike(Page, q)
  BY <1>2, <1>3, AlikeTwice
<1> QED
  BY <1>1, <1>4, AlikeTold, FinishTells

LEMMA SyncFailedTells ==
  ASSUME Sound(Page), NEW r \in Turns, SyncFailed(r)
  PROVE  Sound(Page)' /\ Grows(store, store')
<1> DEFINE p == Recover(Page)
           q == Final(p, r)
<1>1. Become(q)
  BY DEF SyncFailed
<1>2. Alike(Page, p)
  BY AlikeRecover DEF Sound
<1> HIDE DEF p
<1>3. Alike(p, q)
  BY <1>2, AlikeFinal DEF Alike
<1> HIDE DEF q
<1>4. Alike(Page, q)
  BY <1>2, <1>3, AlikeTwice
<1> QED
  BY <1>1, <1>4, AlikeTold

\* The backend's chats have no message of a turn's.
LEMMA ListedTells ==
  ASSUME Sound(Page), NEW r \in Turns, Listed(r), Backend(turn[r].snap)
  PROVE  Sound(Page)' /\ Grows(store, store')
<1> DEFINE s == turn[r].snap
           p == Snapshot(Page, s, TRUE, turn[r].chat)
           q == Final(p, r)
<1>1. Become(q)
  BY DEF Listed
<1>2. Listing(s) /\ Distinct(s)
  BY DEF Backend
<1> HIDE DEF q
<1>3. Snapped(p, Page, s)
  <2>1. Whole(Page) /\ Page.seq \in Nat
    BY DEF Sound
  <2> HIDE DEF s
  <2> QED
    BY <1>2, <2>1, SnapshotShape
<1> HIDE DEF p
<1>4. Sound(p) /\ p.store = s
  BY <1>2, <1>3, NormalizeShape DEF Snapped
<1>5. Alike(p, q)
  BY <1>4, AlikeFinal DEF Sound, q
<1>6. Sound(q) /\ q.store = s
  BY <1>4, <1>5, TellsNothing DEF Alike
<1>7. Sound(Page)' /\ store' = s
  BY <1>1, <1>6, BecomesSound
<1>8. Apart(store, s)
  <2>1. \A o \in Turns : \A x : OwnIds(o) \cap Ids(History(s, x)) = {}
    BY IdsAreOwn DEF Backend
  <2> QED
    BY <2>1 DEF Apart
<1>9. Grows(store, s)
  BY <1>2, <1>8 DEF Grows
<1> QED
  BY <1>7, <1>9

LEMMA AllowedTells ==
  ASSUME Sound(Page), NEW r \in Turns, Allowed(r)
  PROVE  Sound(Page)' /\ Grows(store, store')
<1> DEFINE c == turn[r].chat
           g == Generation(r, c, <<r, 1>>)
           p == Add(Page, <<r, 1>>, c, Msg(None, "assistant", Blank), TRUE)
           q == [p EXCEPT !.gen = g]
<1>1. Become(q)
  BY DEF Allowed
<1>2. Alike(Page, p)
  BY AlikeAdd DEF Sound
<1>3. g \in [req : {g.req}, chat : {g.chat}, row : {g.row},
             text : {g.text}, shown : {g.shown}, made : {g.made}]
  BY DEF Generation, NoGen
<1> HIDE DEF p, g
<1>4. Alike(p, q)
  BY <1>2, <1>3 DEF Alike, Whole
<1> HIDE DEF q
<1>5. Alike(Page, q)
  BY <1>2, <1>4, AlikeTwice
<1> QED
  BY <1>1, <1>5, AlikeTold

LEMMA AdvanceTells ==
  ASSUME Sound(Page), NEW r \in Turns, Advance(r),
         turn[r].pc = "listed" => Backend(turn[r].snap)
  PROVE  Sound(Page)' /\ Grows(store, store')
<1>1. \A text, title : Finish(r, text, title) => Sound(Page)' /\ Grows(store, store')
  BY FinishTells
<1>2. UNCHANGED <<store, active, seq, rows, due, gen>> => Sound(Page)' /\ Grows(store, store')
  BY PageKept
<1>3. CASE Planned(r) \/ SyncAnswered(r)
  BY <1>2, <1>3 DEF Planned, SyncAnswered, sessionVars
<1>4. CASE Refuse(r) \/ Partial(r) \/ OtherModel(r) \/ ToolStart(r) \/ AntiLoop(r)
             \/ SyncFailed(r)
  BY <1>4, RefuseTells, HeardTells, ToolStartTells, AntiLoopTells, SyncFailedTells
<1>5. CASE Listed(r)
  <2>1. turn[r].pc = "listed"
    BY <1>5 DEF Listed
  <2> QED
    BY <1>5, <2>1, ListedTells
<1>6. CASE Profiled(r)
  BY <1>2, <1>6, CancelTells DEF Profiled
<1>7. CASE \E title \in script.titles : Done(r, title)
  BY <1>1, <1>7 DEF Done
<1>8. CASE Interrupted(r)
  BY <1>1, <1>2, <1>8 DEF Interrupted
<1>9. CASE Aborted(r)
  BY <1>1, <1>9, CancelTells DEF Aborted
<1>10. CASE Plainly(r) \/ NoModel(r)
  BY <1>1, <1>2, <1>10 DEF Plainly, NoModel
<1> QED
  BY <1>3, <1>4, <1>5, <1>6, <1>7, <1>8, <1>9, <1>10 DEF Advance

LEMMA StopClickTells ==
  ASSUME TalksInv, StopClick
  PROVE  Sound(Page)' /\ Grows(store, store')
<1> DEFINE q == Stopped(Page)
<1>1. Page.gen = gen /\ gen # NoGen /\ Become(q)
  BY DEF StopClick, Page
<1>2. gen.req \in Turns /\ turn[gen.req].chat = gen.chat
  BY <1>1 DEF TalksInv, TurnsInv, GenRuns, Runs
<1>3. Tells(Page, q)
  BY <1>1, <1>2, StoppedTells DEF TalksInv, ChatsInv
<1> HIDE DEF q
<1> QED
  BY <1>1, <1>3, PageTold

\* The page a turn begins on.
Readied == Ensured(IF gen = NoGen THEN Page ELSE Stopped(Page))

LEMMA ReadiedTells ==
  ASSUME TalksInv
  PROVE  /\ Tells(Page, Readied) /\ Sound(Readied)
         /\ Readied.active \in Ids(Readied.store) /\ Readied.active \in ChatIds
<1> DEFINE p == IF gen = NoGen THEN Page ELSE Stopped(Page)
           q == Ensured(p)
<1>1. Page.gen = gen /\ Sound(Page)
  BY DEF Page, TalksInv, ChatsInv
<1>2. gen # NoGen => gen.req \in Turns /\ turn[gen.req].chat = gen.chat
  BY DEF TalksInv, TurnsInv, GenRuns, Runs
<1>3. Tells(Page, p)
  BY <1>1, <1>2, StoppedTells, AlikeItself, TellsNothing DEF Sound
<1> HIDE DEF p
<1>4. Sound(p)
  BY <1>3 DEF Tells
<1>5. Tells(p, q) /\ q.active \in Ids(q.store)
  BY <1>4, EnsuredTells
<1> HIDE DEF q
<1>6. Tells(Page, q) /\ Sound(q)
  BY <1>3, <1>5, TellsTwice DEF Tells
<1>7. q.active \in ChatIds
  BY <1>5, <1>6, IdsType DEF Sound
<1> QED
  BY <1>5, <1>6, <1>7 DEF Readied, q, p

LEMMA SubmitTells ==
  ASSUME TalksInv, NEW r \in Turns, Submit(r)
  PROVE  Sound(Page)' /\ Grows(store, store')
<1> DEFINE p == Readied
           c == p.active
           m == Msg(UserId(r), "user", Plain(UserId(r), 1))
           o == Persist(p, c, m)
           z == Add(o, <<None, m.id>>, c, m, FALSE)
           q == Recover(z)
<1>1. Become(q)
  BY DEF Submit, Readied
<1>2. MsgRecord(m) /\ m.id \in OwnIds(r)
  <2>1. UserId(r) \in OwnIds(r) /\ UserId(r) \in Int \ {0}
    BY IdsAreOwn DEF OwnIds
  <2> QED
    BY <2>1, MsgMade
<1> HIDE DEF m
<1>3. Tells(Page, p) /\ Sound(p)
  BY ReadiedTells
<1>4. turn[r].chat \notin Ids(p.store)
  <2>1. turn[r].chat = None
    BY DEF Submit, InTurn, TalksInv, Fits
  <2>2. Ids(p.store) \subseteq ChatIds
    BY <1>3, IdsType DEF Sound
  <2> QED
    BY <2>1, <2>2, IdsAreInts DEF None
<1> HIDE DEF p, c
<1>5. Tells(p, o) /\ Sound(o)
  BY <1>2, <1>3, <1>4, PersistTells DEF Tells
<1> HIDE DEF o
<1>6. Tells(o, z) /\ Sound(z)
  <2>1. Alike(o, z)
    BY <1>5, AlikeAdd DEF Sound
  <2> HIDE DEF z
  <2> QED
    BY <1>5, <2>1, TellsNothing
<1> HIDE DEF z
<1>7. Tells(z, q)
  BY <1>6, AlikeRecover, TellsNothing DEF Sound
<1> HIDE DEF q
<1>8. Tells(Page, q)
  BY <1>3, <1>5, <1>6, <1>7, TellsTwice
<1> QED
  BY <1>1, <1>8, PageTold

LEMMA ContinueTells ==
  ASSUME TalksInv, NEW r \in Turns, NEW i \in DOMAIN rows, Continue(r, i)
  PROVE  Sound(Page)' /\ Grows(store, store')
<1> DEFINE old == rows[i]
           g == Generation(r, old.chat, <<r, 1>>)
           p == [Page EXCEPT !.rows = Rekey(@, old.key, <<r, 1>>), !.gen = g]
           o == Show(p, <<r, 1>>, Blank, TRUE)
           q == Recover(o)
<1>1. Become(q)
  BY DEF Continue
<1>2. Sound(Page)
  BY DEF TalksInv, ChatsInv
<1>3. g \in [req : {g.req}, chat : {g.chat}, row : {g.row},
             text : {g.text}, shown : {g.shown}, made : {g.made}]
  BY DEF Generation, NoGen
<1> HIDE DEF g
<1>4. Alike(Page, p)
  BY <1>2, <1>3 DEF Alike, Whole, Sound
<1> HIDE DEF p
<1>5. Alike(p, o)
  <2>1. Whole(p)
    BY <1>4 DEF Alike
  <2> QED
    BY <2>1, AlikeShow
<1> HIDE DEF o
<1>6. Alike(o, q)
  BY <1>5, AlikeRecover DEF Alike
<1> HIDE DEF q
<1>7. Alike(Page, q)
  BY <1>4, <1>5, <1>6, AlikeTwice
<1> QED
  BY <1>1, <1>2, <1>7, AlikeTold

--------------------------------------------------------------------------------
(* The backend.                                                            *)

LEMMA ToldKept ==
  ASSUME NEW s, Backend(s), NEW c \in ChatIds, NEW m, MsgRecord(m), m.id \in Nat \ {0}
  PROVE  Backend(Told(s, c, m))
<1>1. Listing(s) /\ Talk(History(s, c)) /\ Ids(History(s, c)) \subseteq Nat \ {0}
  BY ToldTalk DEF Backend
<1> DEFINE t == Append(History(s, c), m)
<1>2. Talk(t) /\ Ids(t) \subseteq Nat \ {0}
  BY <1>1, LongerTalk
<1>3. Talk(<<m>>) /\ Ids(<<m>>) \subseteq Nat \ {0}
  BY OneTalk
<1> HIDE DEF t
<1>4. CASE c \in Ids(s)
  <2>1. Backend(WithMsgs(s, c, t))
    BY <1>2, <1>4, BackendFronted DEF WithMsgs
  <2> QED
    BY <1>4, <2>1 DEF Told, t
<1>5. CASE c \notin Ids(s)
  BY <1>3, <1>5, BackendAdded DEF Told
<1> QED
  BY <1>4, <1>5

LEMMA RetoldKept ==
  ASSUME NEW s, Backend(s), NEW c \in Ids(s), NEW msgs, Talk(msgs),
         Ids(msgs) = Ids(History(s, c))
  PROVE  Backend(WithMsgs(s, c, msgs))
BY BackendFronted DEF WithMsgs, Backend

LEMMA ServedIdIsGiven ==
  ASSUME NEW r \in Turns, turn[r].attempt \in Nat, NEW n \in 1..5
  PROVE  ServedId(r, n) \in Nat \ {0}
<1>1. r \in Nat
  BY TurnsAssumption
<1> QED
  BY <1>1 DEF ServedId

\* A chat whose last message has one of these roles is there.
LEMMA LastIsThere ==
  ASSUME NEW s, NEW c, LastOf(s, c).role \in {"user", "assistant"}
  PROVE  c \in Ids(s)
BY DEF LastOf, History, Msg

LEMMA TakenKept ==
  ASSUME TalksInv, NEW r \in Turns, turn[r].pc # "idle"
  PROVE  Backend(Taken(r))
<1> DEFINE c == turn[r].chat
           m == Msg(NextUserId(r), "user", Plain(UserId(r), 1))
           last == LastOf(server, c)
<1>1. Backend(server) /\ c \in ChatIds /\ turn[r].attempt \in Nat
  BY DEF TalksInv, ChatsInv, Fits
<1>2. MsgRecord(m) /\ m.id \in Nat \ {0}
  <2>1. PICK n \in 1..5 : NextUserId(r) = ServedId(r, n)
    BY DEF NextUserId
  <2>2. NextUserId(r) \in Nat \ {0}
    BY <1>1, <2>1, ServedIdIsGiven
  <2> QED
    BY <2>2, MsgMade
<1>3. CASE ~Accepts(r)
  BY <1>1, <1>3 DEF Taken
<1>4. CASE Accepts(r) /\ (turn[r].kind = "continue" \/ (last.role = "user" /\ last.text = m.text))
  <2>1. last.role \in {"user", "assistant"}
    BY <1>4 DEF Accepts
  <2>2. c \in Ids(server)
    BY <2>1, LastIsThere
  <2>3. Talk(History(server, c))
    BY <1>1, ToldTalk DEF Backend
  <2>4. Backend(WithMsgs(server, c, History(server, c)))
    BY <1>1, <2>2, <2>3, RetoldKept
  <2> QED
    BY <1>4, <2>4 DEF Taken
<1>5. CASE Accepts(r) /\ ~(turn[r].kind = "continue" \/ (last.role = "user" /\ last.text = m.text))
  <2>1. Taken(r) = Told(server, c, m)
    BY <1>5 DEF Taken
  <2> HIDE DEF m
  <2> QED
    BY <1>1, <1>2, <2>1, ToldKept
<1> QED
  BY <1>3, <1>4, <1>5

LEMMA AnsweredKept ==
  ASSUME TalksInv, NEW r \in Turns, turn[r].pc # "idle"
  PROVE  Backend(Answered(r))
<1> DEFINE m == Msg(ServedId(r, 4), "assistant", Sorry(r))
<1>1. Backend(server) /\ turn[r].chat \in ChatIds /\ turn[r].attempt \in Nat
  BY DEF TalksInv, ChatsInv, Fits
<1>2. MsgRecord(m) /\ m.id \in Nat \ {0}
  <2>1. ServedId(r, 4) \in Nat \ {0}
    BY <1>1, ServedIdIsGiven
  <2> QED
    BY <2>1, MsgMade
<1> HIDE DEF m
<1>3. Backend(Told(Taken(r), turn[r].chat, m))
  BY <1>1, <1>2, TakenKept, ToldKept
<1> QED
  BY <1>1, <1>3 DEF Answered, m

LEMMA VoicedKept ==
  ASSUME TalksInv, NEW r \in Turns, turn[r].pc # "idle", NEW text
  PROVE  Backend(Voiced(r, text))
<1> DEFINE c == turn[r].chat
           m == Msg(ServedId(r, 5), "assistant", text)
           s == History(server, c)
           t == [n \in DOMAIN s |-> IF s[n].id # turn[r].mid THEN s[n]
                                    ELSE [s[n] EXCEPT !.text = text]]
<1>1. Backend(server) /\ c \in ChatIds /\ turn[r].attempt \in Nat
  BY DEF TalksInv, ChatsInv, Fits
<1>2. Backend(Told(server, c, m))
  <2>1. ServedId(r, 5) \in Nat \ {0}
    BY <1>1, ServedIdIsGiven
  <2>2. MsgRecord(m) /\ m.id \in Nat \ {0}
    BY <2>1, MsgMade
  <2> HIDE DEF m
  <2> QED
    BY <1>1, <2>2, ToldKept
<1>3. c \in Ids(server) => Backend(WithMsgs(server, c, t))
  <2>1. Talk(s)
    BY <1>1, ToldTalk DEF Backend
  <2>2. t = [n \in DOMAIN s |-> t[n]]
    OBVIOUS
  <2>3. \A n \in DOMAIN s : t[n] = s[n] \/ t[n] = [s[n] EXCEPT !.text = text]
    OBVIOUS
  <2>4. Talk(t) /\ Ids(t) = Ids(s)
    <3> HIDE DEF t, s
    <3> QED
      BY <2>1, <2>2, <2>3, RetoldTalk
  <2> HIDE DEF t
  <2> QED
    BY <1>1, <2>4, RetoldKept
<1> HIDE DEF m
<1> QED
  BY <1>1, <1>2, <1>3 DEF Voiced, m

\* Whatever the backend stores at the end of a request.
LEMMA StoresKept ==
  ASSUME TalksInv, NEW r \in Turns, turn[r].pc # "idle"
  PROVE  Backend(server) /\ Backend(Kept(r)) /\ Backend(Failed(r))
<1>1. Backend(server)
  BY DEF TalksInv, ChatsInv
<1> QED
  BY <1>1, VoicedKept DEF Kept, Failed

LEMMA ServerFollows ==
  ASSUME TalksInv, NEW r \in Turns, Ask(r) \/ Allowed(r) \/ Advance(r)
  PROVE  Backend(server') /\ UNCHANGED <<fresh, call>>
<1>1. Backend(server)
  BY DEF TalksInv, ChatsInv
<1>2. CASE Ask(r) \/ Allowed(r)
  BY <1>1, <1>2 DEF Ask, Regenerate, Submit, Continue, Allowed
<1>3. CASE Planned(r) \/ SyncAnswered(r)
  BY <1>1, <1>3 DEF Planned, SyncAnswered, sessionVars
<1>4. CASE Refuse(r) \/ Partial(r) \/ ToolStart(r) \/ Listed(r) \/ SyncFailed(r)
  BY <1>1, <1>4 DEF Refuse, Partial, ToolStart, Listed, SyncFailed
<1>5. CASE NoModel(r)
  BY <1>1, <1>5 DEF NoModel, Finish
<1>6. CASE Profiled(r) \/ OtherModel(r)
  <2>1. turn[r].pc # "idle"
    BY <1>6 DEF Profiled, OtherModel
  <2>2. Backend(Taken(r))
    BY <2>1, TakenKept
  <2> QED
    BY <1>1, <1>6, <2>2 DEF Profiled, OtherModel, Cancel
<1>7. CASE AntiLoop(r) \/ (\E title \in script.titles : Done(r, title)) \/ Interrupted(r)
             \/ Aborted(r)
  <2>1. turn[r].pc # "idle"
    BY <1>7 DEF AntiLoop, Done, Interrupted, Aborted, Streaming
  <2>2. Backend(Kept(r)) /\ Backend(Failed(r))
    BY <2>1, StoresKept
  <2>3. server' \in {server, Kept(r), Failed(r)}
    BY <1>7 DEF AntiLoop, Done, Interrupted, Aborted, Stores
  <2>4. UNCHANGED <<fresh, call>>
    BY <1>7 DEF AntiLoop, Done, Interrupted, Aborted, Finish, Cancel
  <2> QED
    BY <1>1, <2>2, <2>3, <2>4
<1>8. CASE Plainly(r)
  <2>1. turn[r].pc # "idle"
    BY <1>8 DEF Plainly
  <2>2. Backend(Answered(r))
    BY <2>1, AnsweredKept
  <2> QED
    BY <1>1, <1>8, <2>2 DEF Plainly, Stores, Finish
<1> QED
  BY <1>2, <1>3, <1>4, <1>5, <1>6, <1>7, <1>8 DEF Advance

--------------------------------------------------------------------------------
(* The turns, as far as the chats depend on them.                          *)

\* A turn goes on in its chat.
LEMMA FitsOn ==
  ASSUME NEW t, Fits(t), t.pc # "idle", NEW u, u.chat = t.chat, u.pc \notin {"idle", "listed"},
         u.attempt \in {t.attempt, t.attempt + 1}
  PROVE  Fits(u)
BY DEF Fits

LEMMA EndedFits ==
  ASSUME NEW t, Fits(t), t.pc # "idle"
  PROVE  Fits(Ended(t))
<1>1. Ended(t).pc = "done" /\ Ended(t).chat = t.chat /\ Ended(t).attempt = 0
  BY DEF Ended, Unused
<1> QED
  BY <1>1 DEF Fits

\* Only turn r changes.
Alters(r) == Fits(turn'[r]) /\ \A q \in Turns \ {r} : turn'[q] = turn[q]

LEMMA AltersTo ==
  ASSUME TalksInv, NEW r \in Turns, NEW u, turn' = [turn EXCEPT ![r] = u], Fits(u)
  PROVE  Alters(r)
BY DEF TalksInv, TurnsInv, TurnsShape, Alters

LEMMA FinishAlters ==
  ASSUME TalksInv, NEW r \in Turns, turn[r].pc # "idle", NEW text, NEW title,
         Finish(r, text, title)
  PROVE  Alters(r)
<1> DEFINE u == [turn[r] EXCEPT !.pc = "sync"]
<1>1. TurnRecord(turn[r]) /\ Fits(turn[r])
  BY DEF TalksInv, TurnsInv, TurnsShape
<1>2. u.pc = "sync" /\ u.chat = turn[r].chat /\ u.attempt = turn[r].attempt
  BY <1>1 DEF TurnRecord
<1>3. turn' = [turn EXCEPT ![r] = u]
  BY DEF Finish
<1> HIDE DEF u
<1> QED
  BY <1>1, <1>2, <1>3, FitsOn, AltersTo

LEMMA CancelAlters ==
  ASSUME TalksInv, NEW r \in Turns, turn[r].pc # "idle", Cancel(r)
  PROVE  Alters(r)
<1> DEFINE u == [turn[r] EXCEPT !.pc = "sync"]
           z == IF turn[r].kind = "send" THEN u ELSE Ended(turn[r])
<1>1. TurnRecord(turn[r]) /\ Fits(turn[r])
  BY DEF TalksInv, TurnsInv, TurnsShape
<1>2. u.pc = "sync" /\ u.chat = turn[r].chat /\ u.attempt = turn[r].attempt
  BY <1>1 DEF TurnRecord
<1>3. turn' = [turn EXCEPT ![r] = z]
  BY DEF Cancel
<1> HIDE DEF u
<1>4. Fits(u) /\ Fits(Ended(turn[r]))
  BY <1>1, <1>2, FitsOn, EndedFits
<1>5. Fits(z)
  BY <1>4
<1> HIDE DEF z
<1> QED
  BY <1>3, <1>5, AltersTo

\* Turn r goes on in its chat.
GoesOn(r) ==
  /\ turn'[r].chat = turn[r].chat /\ turn'[r].pc \notin {"idle", "listed"}
  /\ turn'[r].attempt \in {turn[r].attempt, turn[r].attempt + 1}
  /\ \A q \in Turns \ {r} : turn'[q] = turn[q]

LEMMA GoesOnAlters ==
  ASSUME TalksInv, NEW r \in Turns, turn[r].pc # "idle", GoesOn(r)
  PROVE  Alters(r)
BY FitsOn DEF TalksInv, GoesOn, Alters

LEMMA AdvanceAlters ==
  ASSUME TalksInv, NEW r \in Turns, Allowed(r) \/ Advance(r)
  PROVE  Alters(r)
<1>1. TurnRecord(turn[r]) /\ Fits(turn[r]) /\ turn = [q \in Turns |-> turn[q]]
  BY DEF TalksInv, TurnsInv, TurnsShape
<1>2. turn[r].pc # "idle"
  BY DEF Allowed, Advance, Planned, Refuse, Profiled, Partial, ToolStart, AntiLoop, Done,
     Interrupted, Aborted, Streaming, Plainly, OtherModel, NoModel, SyncAnswered, Listed,
     SyncFailed
<1>3. \A text, title : Finish(r, text, title) => Alters(r)
  BY <1>2, FinishAlters
<1>4. Cancel(r) => Alters(r)
  BY <1>2, CancelAlters
<1>5. CASE Planned(r) \/ Allowed(r)
  <2>1. GoesOn(r)
    BY <1>1, <1>5 DEF Planned, Allowed, GoesOn, TurnRecord
  <2> QED
    BY <1>2, <2>1, GoesOnAlters
<1>6. CASE Refuse(r) \/ Listed(r) \/ SyncFailed(r)
  <2>1. turn' = [turn EXCEPT ![r] = Ended(turn[r])]
    BY <1>6 DEF Refuse, Listed, SyncFailed
  <2> QED
    BY <1>1, <1>2, <2>1, EndedFits, AltersTo
<1>7. CASE Profiled(r)
  <2>1. CASE ~Cancel(r)
    <3>1. PICK a : turn' = [turn EXCEPT ![r].pc = "stream", ![r].taken = a]
      BY <1>7, <2>1 DEF Profiled
    <3>2. GoesOn(r)
      BY <1>1, <3>1 DEF GoesOn, TurnRecord
    <3> QED
      BY <1>2, <3>2, GoesOnAlters
  <2> QED
    BY <1>4, <2>1
<1>8. CASE Partial(r) \/ ToolStart(r)
  <2>1. turn[r].pc = "stream"
    BY <1>8 DEF Partial, ToolStart, Streaming
  <2>2. PICK said, frozen, row, made :
          turn' = [turn EXCEPT ![r] = [turn[r] EXCEPT !.said = said, !.frozen = frozen,
                                                      !.row = row, !.made = made]]
    <3>1. CASE Partial(r)
      <4>1. turn' = [turn EXCEPT ![r] = [turn[r] EXCEPT !.said = turn[r].said + 1,
                        !.frozen = turn[r].frozen, !.row = RowOf(Looked(Page, r), r),
                        !.made = turn[r].made]]
        BY <1>1, <3>1 DEF Partial, TurnRecord
      <4> QED
        BY <4>1
    <3>2. CASE ToolStart(r)
      <4>1. turn' = [turn EXCEPT ![r] = [turn[r] EXCEPT !.said = turn[r].said,
                        !.frozen = turn[r].said, !.row = <<r, turn[r].made + 1>>,
                        !.made = turn[r].made + 1]]
        BY <1>1, <3>2 DEF ToolStart, TurnRecord
      <4> QED
        BY <4>1
    <3> QED
      BY <1>8, <3>1, <3>2
  <2>3. GoesOn(r)
    BY <1>1, <2>1, <2>2 DEF GoesOn, TurnRecord
  <2> QED
    BY <1>2, <2>3, GoesOnAlters
<1>9. CASE AntiLoop(r)
  <2>1. CASE turn' = [turn EXCEPT ![r] = Again(@)]
    <3>1. GoesOn(r)
      BY <1>1, <2>1 DEF GoesOn, TurnRecord, Again
    <3> QED
      BY <1>2, <3>1, GoesOnAlters
  <2> QED
    BY <1>3, <1>9, <2>1 DEF AntiLoop
<1>10. CASE Interrupted(r) \/ Plainly(r)
  <2>1. ASSUME NEW pc \in {"plain", "fallback"}, turn' = [turn EXCEPT ![r].pc = pc]
        PROVE  Alters(r)
    <3>1. GoesOn(r)
      BY <1>1, <2>1 DEF GoesOn, TurnRecord
    <3> QED
      BY <1>2, <3>1, GoesOnAlters
  <2> QED
    BY <1>3, <1>10, <2>1 DEF Interrupted, Plainly
<1>11. CASE OtherModel(r)
  <2>1. PICK a : turn' = [turn EXCEPT ![r].pc = "stream", ![r].models = @ + 1,
                                      ![r].attempt = @ + 1, ![r].taken = a]
    BY <1>11 DEF OtherModel
  <2>2. GoesOn(r)
    BY <1>1, <2>1 DEF GoesOn, TurnRecord
  <2> QED
    BY <1>2, <2>2, GoesOnAlters
<1>12. CASE SyncAnswered(r)
  <2> DEFINE u == [turn[r] EXCEPT !.pc = "listed", !.snap = server]
  <2>1. turn' = [turn EXCEPT ![r] = u]
    BY <1>12 DEF SyncAnswered
  <2>2. /\ u.pc = "listed" /\ u.snap = server /\ u.chat = turn[r].chat
        /\ u.attempt = turn[r].attempt
    BY <1>1 DEF TurnRecord
  <2> HIDE DEF u
  <2>3. Fits(u)
    BY <1>1, <1>2, <2>2 DEF TalksInv, ChatsInv, Fits
  <2> QED
    BY <2>1, <2>3, AltersTo
<1>13. CASE Aborted(r) \/ NoModel(r) \/ \E title \in script.titles : Done(r, title)
  BY <1>3, <1>4, <1>13 DEF Aborted, NoModel, Done
<1> QED
  BY <1>5, <1>6, <1>7, <1>8, <1>9, <1>10, <1>11, <1>12, <1>13 DEF Advance

\* A stop, and the beginning of another turn.
LEMMA MarkedFits ==
  ASSUME NEW t, TurnRecord(t), Fits(t),
         NEW u, \/ u = t \/ u = [t EXCEPT !.stopped = TRUE] \/ u = [t EXCEPT !.alone = FALSE]
                \/ u = [[t EXCEPT !.stopped = TRUE] EXCEPT !.alone = FALSE]
  PROVE  Fits(u)
<1>1. u.pc = t.pc /\ u.chat = t.chat /\ u.attempt = t.attempt /\ u.snap = t.snap
  BY DEF TurnRecord
<1> QED
  BY <1>1 DEF Fits

LEMMA HaltedFits ==
  ASSUME TalksInv, NEW r \in Turns
  PROVE  Halted(turn)[r] = turn[r] \/ Halted(turn)[r] = [turn[r] EXCEPT !.stopped = TRUE]
BY DEF Halted, TalksInv, TurnsInv, TurnsShape

LEMMA CrowdFits ==
  ASSUME TalksInv, NEW r \in Turns, NEW h, h = turn \/ h = Halted(turn),
         NEW t, Fits(t), turn' = Crowd([h EXCEPT ![r] = t], r)
  PROVE  \A q \in Turns : Fits(turn'[q])
<1>1. DOMAIN h = Turns
  BY DEF Halted, TalksInv, TurnsInv, TurnsShape
<1>2. turn'[r] = t
  BY <1>1 DEF Crowd
<1>3. ASSUME NEW q \in Turns, q # r PROVE Fits(turn'[q])
  <2>1. TurnRecord(turn[q]) /\ Fits(turn[q])
    BY DEF TalksInv, TurnsInv, TurnsShape
  <2>2. h[q] = turn[q] \/ h[q] = [turn[q] EXCEPT !.stopped = TRUE]
    BY HaltedFits
  <2>3. turn'[q] = h[q] \/ turn'[q] = [h[q] EXCEPT !.alone = FALSE]
    BY <1>1, <1>3 DEF Crowd
  <2> QED
    BY <2>1, <2>2, <2>3, MarkedFits
<1> QED
  BY <1>2, <1>3

LEMMA AskFits ==
  ASSUME TalksInv, NEW r \in Turns, Ask(r)
  PROVE  \A q \in Turns : Fits(turn'[q])
<1>1. CASE Submit(r) \/ \E i \in DOMAIN rows : Regenerate(r, i)
  <2> DEFINE h == Halted(turn)
             t == [Unused EXCEPT !.pc = "prepare", !.chat = Readied.active, !.alone = Sole(r)]
  <2>1. turn' = Crowd([h EXCEPT ![r] = t], r)
    BY <1>1 DEF Submit, Regenerate, Readied
  <2>2. Readied.active \in ChatIds
    BY ReadiedTells
  <2>3. t.pc = "prepare" /\ t.chat = Readied.active /\ t.attempt = 0
    BY DEF Unused
  <2> HIDE DEF t
  <2>4. Fits(t)
    BY <2>2, <2>3 DEF Fits
  <2> QED
    BY <2>1, <2>4, CrowdFits
<1>2. ASSUME NEW i \in DOMAIN rows, Continue(r, i) PROVE \A q \in Turns : Fits(turn'[q])
  <2> DEFINE old == rows[i]
             t == [Unused EXCEPT !.pc = "profile", !.kind = "continue",
                                 !.chat = old.chat, !.mid = old.id,
                                 !.row = <<r, 1>>, !.made = 1, !.alone = Sole(r)]
  <2>1. turn' = Crowd([turn EXCEPT ![r] = t], r)
    BY <1>2 DEF Continue
  <2>2. old.chat \in ChatIds
    <3>1. old.id \in Ids(History(store, old.chat))
      BY <1>2 DEF Continue
    <3>2. old.chat \in Ids(store)
      BY <3>1, EmptyTalk DEF History
    <3>3. Listing(store)
      BY SoundPage DEF TalksInv, ChatsInv
    <3> QED
      BY <3>2, <3>3, IdsType
  <2>3. t.pc = "profile" /\ t.chat = old.chat /\ t.attempt = 0
    BY DEF Unused
  <2> HIDE DEF t
  <2>4. Fits(t)
    BY <2>2, <2>3 DEF Fits
  <2> QED
    BY <2>1, <2>4, CrowdFits
<1> QED
  BY <1>1, <1>2 DEF Ask

LEMMA StopClickFits ==
  ASSUME TalksInv, StopClick
  PROVE  \A q \in Turns : Fits(turn'[q])
<1> SUFFICES ASSUME NEW q \in Turns PROVE Fits(turn'[q])
  OBVIOUS
<1>1. TurnRecord(turn[q]) /\ Fits(turn[q])
  BY DEF TalksInv, TurnsInv, TurnsShape
<1>2. turn'[q] = turn[q] \/ turn'[q] = [turn[q] EXCEPT !.stopped = TRUE]
  BY HaltedFits DEF StopClick
<1> QED
  BY <1>1, <1>2, MarkedFits

--------------------------------------------------------------------------------
(* What holds of the turns and the chats together.                         *)

LEMMA CallsStay == ASSUME ChatsInv, UNCHANGED call, server' = server \/ Backend(server')
                   PROVE  CallsFit'
BY DEF ChatsInv, CallsFit, CallFits

LEMMA TalksFollow ==
  ASSUME TalksInv, TurnsNext, TurnsInv'
  PROVE  /\ TalksInv'
         /\ Distinct(store) => Apart(store, store') /\ (Distinct(store)' \/ AddsTwice)
<1>1. ChatsInv /\ Sound(Page) /\ Backend(server) /\ fresh \in Nat
      /\ \A r \in Turns : Fits(turn[r])
  BY DEF TalksInv, ChatsInv
<1>2. CASE SessionNext /\ UNCHANGED <<turn, reasoned, script>>
  <2>1. /\ ChatsInv' /\ (Distinct(store) => Foreign(store, store'))
        /\ Distinct(store) => Distinct(store)' \/ AddsTwice
    BY <1>1, <1>2, CallsFollow, PageFollows DEF ChatsInv
  <2>2. Distinct(store) => Apart(store, store')
    BY <2>1, IdsAreOwn DEF Foreign, Apart
  <2>3. \A r \in Turns : Fits(turn'[r])
    BY <1>1, <1>2
  <2> QED
    BY <2>1, <2>2, <2>3 DEF TalksInv
<1>3. CASE StopClick
  <2>1. Sound(Page)' /\ Grows(store, store')
    BY <1>3, StopClickTells
  <2>2. Backend(server') /\ fresh' \in Nat /\ CallsFit'
    BY <1>1, <1>3, CallsStay DEF StopClick
  <2>3. \A r \in Turns : Fits(turn'[r])
    BY <1>3, StopClickFits
  <2>4. TalksInv'
    BY <2>1, <2>2, <2>3 DEF TalksInv, ChatsInv
  <2> QED
    BY <2>1, <2>4 DEF Grows, Distinct
<1>4. CASE \E r \in Turns : Ask(r) \/ Allowed(r) \/ Advance(r)
  <2> PICK r \in Turns : Ask(r) \/ Allowed(r) \/ Advance(r)
    BY <1>4
  <2>1. Sound(Page)' /\ Grows(store, store')
    <3>1. CASE Ask(r)
      BY <3>1, SubmitTells, ContinueTells DEF Ask, Regenerate
    <3>2. CASE Allowed(r)
      BY <1>1, <3>2, AllowedTells
    <3>3. CASE Advance(r)
      BY <1>1, <3>3, AdvanceTells DEF Fits
    <3> QED
      BY <3>1, <3>2, <3>3
  <2>2. Backend(server') /\ UNCHANGED <<fresh, call>>
    BY ServerFollows
  <2>3. CallsFit'
    BY <1>1, <2>2, CallsStay
  <2>4. \A q \in Turns : Fits(turn'[q])
    BY <1>1, AskFits, AdvanceAlters DEF Alters
  <2>5. TalksInv'
    BY <1>1, <2>1, <2>2, <2>3, <2>4 DEF TalksInv, ChatsInv
  <2> QED
    BY <2>1, <2>5 DEF Grows, Distinct
<1> QED
  BY <1>2, <1>3, <1>4 DEF TurnsNext

\* The invariant of the turns and of the chats they talk in holds at all times.
THEOREM TalksKept == TurnsSpec => []TalksInv
<1>1. TurnsInit => (TurnsInv => TalksInv)
  <2> SUFFICES ASSUME TurnsInit, TurnsInv PROVE TalksInv
    OBVIOUS
  <2>1. ChatsInv
    BY SessionBegins DEF TurnsInit, SessionInv
  <2>2. Fits(Unused)
    BY DEF Fits, Unused
  <2>3. \A r \in Turns : turn[r] = Unused
    BY DEF TurnsInit
  <2> QED
    BY <2>1, <2>2, <2>3 DEF TalksInv
<1>2. TalksInv /\ TurnsInv' /\ [TurnsNext]_turnVars => TalksInv'
  <2> SUFFICES ASSUME TalksInv, TurnsInv', [TurnsNext]_turnVars PROVE TalksInv'
    OBVIOUS
  <2>1. CASE TurnsNext
    BY <2>1, TalksFollow
  <2>2. CASE UNCHANGED turnVars
    <3>1. ChatsInv /\ Sound(Page) /\ UNCHANGED <<store, active, seq, rows, due, gen>>
      BY <2>2 DEF TalksInv, ChatsInv, turnVars, sessionVars
    <3>2. Sound(Page)'
      BY <3>1, PageKept
    <3>3. Backend(server') /\ fresh' \in Nat /\ CallsFit'
      BY <2>2, <3>1, CallsStay DEF ChatsInv, turnVars, sessionVars
    <3>4. \A r \in Turns : Fits(turn'[r])
      BY <2>2 DEF TalksInv, turnVars
    <3> QED
      BY <3>2, <3>3, <3>4 DEF TalksInv, ChatsInv
  <2> QED
    BY <2>1, <2>2
<1> QED
  BY <1>1, <1>2, TurnsKept, PTL DEF TurnsSpec

\* Some chat is active unless there is none, and the active generation, if there is
\* one, is a turn's: whatever turns and calls did (chatSessionsRuntime.js,
\* composerGeneration.js).
THEOREM TurnsAreTyped == TurnsSpec => []TurnsTypeOK
<1>1. TalksInv => TurnsTypeOK
  <2> SUFFICES ASSUME TalksInv PROVE TurnsTypeOK
    OBVIOUS
  <2>1. active \in IF store = <<>> THEN {None} ELSE Ids(store)
    BY SoundPage DEF TalksInv, ChatsInv
  <2>2. gen.req \in Turns \cup {None}
    BY DEF TalksInv, TurnsInv, GenRuns, NoGen
  <2>3. \A r \in Turns : turn[r].pc \in UnderWay \cup {"idle", "done"}
    BY DEF TalksInv, TurnsInv, TurnsShape, TurnRecord, Stages
  <2> QED
    BY <2>1, <2>2, <2>3 DEF TurnsTypeOK
<1> QED
  BY <1>1, TalksKept, PTL

\* What a turn says is stored in its own chat as long as the page has that chat
\* (persistChatMessage, continueAssistantMessage, applyChatStoreSnapshot).
THEOREM RepliesStay == TurnsSpec => ReplyInItsChat
<1>1. ASSUME TalksInv, TurnsInv', [TurnsNext]_turnVars, UniqueIds,
             NEW r \in Turns, NEW c \in Ids(store'), c # turn[r].chat,
             turn[r].chat \in Ids(store), NEW m \in {UserId(r), ReplyId(r), StopId(r)},
             m \in Ids(History(store', c))
      PROVE  m \in Ids(History(store, c))
  <2>1. CASE TurnsNext
    <3>1. Distinct(store)
      BY <1>1, SoundPage, DistinctIsUnique DEF TalksInv, ChatsInv, UniqueIds
    <3>2. Apart(store, store')
      BY <1>1, <2>1, <3>1, TalksFollow
    <3> QED
      BY <1>1, <3>2 DEF Apart, OwnIds
  <2>2. CASE UNCHANGED turnVars
    BY <1>1, <2>2 DEF turnVars, sessionVars
  <2> QED
    BY <1>1, <2>1, <2>2
<1>2. TalksInv /\ TurnsInv' /\ [TurnsNext]_turnVars
        => [UniqueIds => \A r \in Turns, c \in Ids(store') :
              c # turn[r].chat /\ turn[r].chat \in Ids(store)
                => \A m \in {UserId(r), ReplyId(r), StopId(r)} :
                     m \in Ids(History(store', c)) => m \in Ids(History(store, c))]_turnVars
  BY <1>1
<1> QED
  BY <1>2, TalksKept, TurnsKept, PTL DEF TurnsSpec, ReplyInItsChat

\* Nor do two chats get the same id when turns talk meanwhile, but by the fallback of
\* the new-session button (createChatSession, ensureWritableChatSession).
THEOREM TurnsStayUnique == TurnsSpec => StaysUnique
<1>1. TalksInv /\ TurnsInv' /\ [TurnsNext]_turnVars
        => [UniqueIds => UniqueIds' \/ AddsTwice]_sessionVars
  <2> SUFFICES ASSUME TalksInv, TurnsInv', TurnsNext, UniqueIds PROVE UniqueIds' \/ AddsTwice
    BY DEF turnVars, sessionVars, UniqueIds
  <2>1. Listing(store) /\ Distinct(store)
    BY SoundPage, DistinctIsUnique DEF TalksInv, ChatsInv, UniqueIds
  <2>2. CASE Distinct(store)'
    <3>1. Listing(store') /\ Distinct(store')
      BY <2>2, TalksFollow DEF TalksInv, ChatsInv, Sound, Page, Distinct
    <3> QED
      BY <3>1, DistinctIsUnique DEF UniqueIds
  <2> QED
    BY <2>1, <2>2, TalksFollow
<1> QED
  BY <1>1, TalksKept, TurnsKept, PTL DEF TurnsSpec, StaysUnique

LEMMA TurnsCallEnds ==
  ASSUME TalksInv, [TurnsNext]_turnVars, NEW k \in Calls,
         call[k].phase = "failed", call'[k].phase = "idle"
  PROVE  Fallback(k)
<1>1. CallsFit
  BY DEF TalksInv, ChatsInv
<1>2. call' # call
  OBVIOUS
<1>3. SessionNext
  <2>1. CASE StopClick
    BY <1>2, <2>1 DEF StopClick
  <2>2. ASSUME NEW r \in Turns, Ask(r) \/ Allowed(r) \/ Advance(r) PROVE FALSE
    BY <1>2, <2>2, ServerFollows
  <2> QED
    BY <1>2, <2>1, <2>2 DEF TurnsNext, turnVars, sessionVars
<1> QED
  BY <1>1, <1>3, CallEnds DEF Break, ApplyAnswer

\* What the client does when a call failed shortens the chat the call is about and
\* no other, but for the clear button, also while turns talk in these chats.
THEOREM TurnsFallbacksShorten == TurnsSpec => ShortensTheNamed
<1>1. TalksInv /\ [TurnsNext]_turnVars
        => [\A c \in Ids(store) \cap Ids(store') :
              (\E k \in Calls : call[k].phase = "failed" /\ call'[k].phase = "idle")
              /\ Len(History(store', c)) < Len(History(store, c))
                => \E k \in Calls : /\ call[k].phase = "failed"
                                    /\ \/ call[k].chat = c
                                       \/ call[k].kind = "wipe" /\ active = c]_sessionVars
  <2> SUFFICES ASSUME TalksInv, [TurnsNext]_turnVars,
                      NEW c \in Ids(store) \cap Ids(store'), NEW k \in Calls,
                      call[k].phase = "failed", call'[k].phase = "idle",
                      Len(History(store', c)) < Len(History(store, c))
               PROVE  call[k].chat = c \/ (call[k].kind = "wipe" /\ active = c)
    OBVIOUS
  <2>1. Fallback(k)
    BY TurnsCallEnds
  <2> DEFINE q == Amended(call[k])
  <2>2. AmendedFor(q, call[k])
    BY AmendedShape DEF TalksInv, ChatsInv, CallsFit, CallFits
  <2>3. store' = q.store
    BY <2>1 DEF Fallback, Become
  <2> HIDE DEF q
  <2>4. Len(History(store, c)) \in Nat
    BY SoundPage, ToldTalk, TalkShape DEF TalksInv, ChatsInv
  <2>5. History(store', c) # History(store, c)
    BY <2>4
  <2> QED
    BY <2>2, <2>3, <2>5 DEF AmendedFor
<1> QED
  BY <1>1, TalksKept, PTL DEF TurnsSpec, ShortensTheNamed

--------------------------------------------------------------------------------
(* Lists of rows.                                                          *)

LEMMA MappedList ==
  ASSUME NEW s, IsList(s), NEW t, DOMAIN t = DOMAIN s, t = [i \in DOMAIN s |-> t[i]]
  PROVE  IsList(t)
<1>1. Len(s) \in Nat /\ DOMAIN s = 1..Len(s)
  BY ListShape
<1> QED
  BY <1>1, ListMade

LEMMA AppendedList ==
  ASSUME NEW s, IsList(s), NEW x, NEW t, t = Append(s, x)
  PROVE  IsList(t) /\ Elements(t) = Elements(s) \cup {x}
<1> DEFINE n == Len(s)
           E == Elements(s) \cup {x}
<1>1. n \in Nat /\ DOMAIN s = 1..n /\ s \in Seq(Elements(s)) /\ s = [i \in 1..n |-> s[i]]
  BY ListShape
<1>2. s \in Seq(E) /\ x \in E
  BY <1>1
<1> HIDE DEF E
<1>3. t \in Seq(E) /\ Len(t) = n + 1
  BY <1>2
<1>4. (\A i \in 1..n : t[i] = s[i]) /\ t[n + 1] = x
  BY <1>2
<1>5. IsList(t)
  BY <1>3, ListOf
<1>6. DOMAIN t = 1..(n + 1)
  BY <1>3, SeqShape
<1> HIDE DEF n
<1>7. (\A i \in 1..(n + 1) : i \in 1..n \/ i = n + 1) /\ n + 1 \in 1..(n + 1)
      /\ \A i \in 1..n : i \in 1..(n + 1)
  BY <1>1
<1>8. Elements(t) = Elements(s) \cup {x}
  <2>1. \A y \in Elements(t) : y \in Elements(s) \cup {x}
    BY <1>1, <1>4, <1>6, <1>7 DEF Elements
  <2>2. x \in Elements(t)
    BY <1>4, <1>6, <1>7 DEF Elements
  <2>3. \A y \in Elements(s) : y \in Elements(t)
    BY <1>1, <1>4, <1>6, <1>7 DEF Elements
  <2> QED
    BY <2>1, <2>2, <2>3
<1> QED
  BY <1>5, <1>8

\* The values that Removed takes on its way.
Removes(g, rs, at) ==
  /\ g[0] = <<>> /\ g[Len(rs)] = Removed(rs, at)
  /\ \A i \in 1..Len(rs) : g[i] = IF i \in at THEN g[i - 1] ELSE Append(g[i - 1], rs[i])

LEMMA RemovedRuns ==
  ASSUME NEW rs, IsList(rs), NEW at
  PROVE  \E g \in [0..Len(rs) -> Seq(Elements(rs))] : Removes(g, rs, at)
<1> DEFINE n == Len(rs)
           V == Seq(Elements(rs))
           base == <<>>
           idx == [i \in DOMAIN rs |-> i]
           more(v, i) == IF idx[i] \in at THEN v ELSE Append(v, rs[idx[i]])
           Body(it) == [s \in SUBSET (1..n) |->
                          IF s = {} THEN base ELSE more(it[s \ {Max(s)}], Max(s))]
           iter == CHOOSE it : it = Body(it)
           step == [i \in 1..n |-> [v \in V |-> more(v, i)]]
<1>0. n \in Nat /\ DOMAIN rs = 1..n /\ \A i \in 1..n : rs[i] \in Elements(rs)
  BY ListShape DEF Elements
<1>1. Removed(rs, at) = iter[1..n]
  BY <1>0 DEF Removed, FoldLeftDomain, FoldLeft, MapThenFoldSet
<1>2. base \in V /\ \A i \in 1..n, v \in V : more(v, i) \in V
  BY <1>0
<1>20. \A v, i : i \in 1..n => more(v, i) = IF i \in at THEN v ELSE Append(v, rs[i])
  BY <1>0
<1> HIDE DEF V, base, more, n
<1>3. step \in [1..n -> [V -> V]] /\ \A i \in 1..n, v \in V : step[i][v] = more(v, i)
  BY <1>2
<1> HIDE DEF step
<1>13. \A s \in SUBSET (1..n) : s # {} => Max(s) \in 1..n /\ Max(s) = Folding!Max(s)
  BY <1>0, MaxIsIn
<1>4. \E it : it = Body(it)
  <2>1. PICK it \in [SUBSET (1..n) -> V] : Folding!Folds(it, n, base, step)
    <3> HIDE DEF Body, iter
    <3> QED
      BY <1>0, <1>2, <1>3, FoldsExist
  <2>2. ASSUME NEW s \in SUBSET (1..n), s # {}
        PROVE  it[s] = more(it[s \ {Max(s)}], Max(s))
    <3>1. Max(s) \in 1..n /\ s \ {Max(s)} \in SUBSET (1..n) /\ Max(s) = Folding!Max(s)
      BY <1>13, <2>2
    <3>2. it[s \ {Max(s)}] \in V
      BY <3>1
    <3>3. it[s] = step[Max(s)][it[s \ {Max(s)}]]
      BY <2>1, <2>2, <3>1 DEF Folding!Folds
    <3> QED
      BY <1>3, <3>1, <3>2, <3>3
  <2>3. it = [s \in SUBSET (1..n) |-> it[s]] /\ it[{}] = base
    BY <2>1 DEF Folding!Folds
  <2> QED
    BY <2>2, <2>3
<1>5. iter = Body(iter)
  <2> HIDE DEF Body
  <2> QED
    BY <1>4
<1> HIDE DEF iter
<1>6. iter[{}] = base
  BY <1>5
<1>7. ASSUME NEW i \in 1..n, iter[1..(i - 1)] \in V
      PROVE  iter[1..i] = step[i][iter[1..(i - 1)]]
  <2>1. i \in Nat \ {0} /\ 1..i # {} /\ 1..i \in SUBSET (1..n)
    <3>1. n \in Nat
      BY <1>0
    <3> QED
      BY <3>1
  <2>2. Max(1..i) = i /\ (1..i) \ {i} = 1..(i - 1)
    BY <2>1, TopOfRange
  <2>3. iter[1..i] = more(iter[1..(i - 1)], i)
    BY <1>5, <2>1, <2>2
  <2> QED
    BY <1>3, <1>7, <2>3
<1> HIDE DEF Body
<1>8. Folding!Unfolds(iter, n, V, base, step)
  BY <1>6, <1>7 DEF Folding!Unfolds
<1>9. PICK g \in [0..n -> V] : Folding!Runs(g, n, base, step) /\ g[n] = iter[1..n]
  BY <1>0, <1>2, <1>3, <1>8, FoldsRun
<1>10. ASSUME NEW i \in 1..n
       PROVE  g[i] = IF i \in at THEN g[i - 1] ELSE Append(g[i - 1], rs[i])
  <2>1. i - 1 \in 0..n
    BY <1>0
  <2>2. g[i - 1] \in V /\ g[i] = step[i][g[i - 1]]
    BY <1>9, <2>1 DEF Folding!Runs
  <2>3. g[i] = more(g[i - 1], i)
    BY <1>3, <2>2
  <2> QED
    BY <1>20, <2>3
<1>11. g[0] = base
  BY <1>9 DEF Folding!Runs
<1>12. Removes(g, rs, at)
  BY <1>1, <1>9, <1>10, <1>11 DEF base, n, Removes
<1> QED
  BY <1>9, <1>12 DEF V, n

LEMMA RowsLeft ==
  ASSUME NEW rs, IsList(rs), NEW at
  PROVE  /\ IsList(Removed(rs, at))
         /\ Elements(Removed(rs, at)) \subseteq {rs[i] : i \in DOMAIN rs \ at}
<1> DEFINE n == Len(rs)
           Left == {rs[i] : i \in DOMAIN rs \ at}
<1>1. n \in Nat /\ DOMAIN rs = 1..n
  BY ListShape
<1>2. PICK g \in [0..n -> Seq(Elements(rs))] : Removes(g, rs, at)
  BY RemovedRuns
<1> DEFINE T == {i \in 0..n : IsList(g[i]) /\ Elements(g[i]) \subseteq Left}
<1>3. 0 \in T
  <2>1. g[0] = <<>> /\ 0 \in 0..n
    BY <1>1, <1>2 DEF Removes
  <2>2. IsList(<<>>) /\ Elements(<<>>) = {}
    BY EmptyTalk DEF Talk, Elements
  <2> QED
    BY <2>1, <2>2
<1>4. ASSUME NEW i \in 0..(n - 1), i \in T PROVE i + 1 \in T
  <2>1. i + 1 \in 1..n /\ (i + 1) - 1 = i /\ i + 1 \in 0..n
    BY <1>1
  <2>2. g[i + 1] = IF i + 1 \in at THEN g[i] ELSE Append(g[i], rs[i + 1])
    BY <1>2, <2>1 DEF Removes
  <2>3. CASE i + 1 \in at
    BY <1>4, <2>1, <2>2, <2>3
  <2>4. CASE i + 1 \notin at
    <3>1. rs[i + 1] \in Left
      BY <1>1, <2>1, <2>4
    <3>2. IsList(g[i]) /\ Elements(g[i]) \subseteq Left
      BY <1>4
    <3>3. IsList(g[i + 1]) /\ Elements(g[i + 1]) = Elements(g[i]) \cup {rs[i + 1]}
      BY <2>2, <2>4, <3>2, AppendedList
    <3> QED
      BY <2>1, <3>1, <3>2, <3>3
  <2> QED
    BY <2>3, <2>4
<1>5. n \in T
  <2> HIDE DEF T, n
  <2>1. \A i \in 0..(n - 1) : i \in T => i + 1 \in T
    BY <1>4
  <2> QED
    BY <1>1, <1>3, <2>1, UpTo
<1>6. g[n] = Removed(rs, at)
  BY <1>2 DEF Removes
<1> QED
  BY <1>5, <1>6

--------------------------------------------------------------------------------
(* The rows of a page, and those that wait.                                *)

RowRecord(x) ==
  x \in [key : Int \X Int, chat : {x.chat}, id : {x.id}, role : {x.role}, text : {x.text},
         wait : BOOLEAN]

NoRow == <<None, None>>

\* A row drawn from the store: such a row never waits.
DrawnRow(x) == RowRecord(x) /\ x.key[1] = None /\ x.key # NoRow /\ ~x.wait

\* The rows of a page on which only the turns of R have made some.
Rowed(p, R) ==
  /\ IsList(p.rows)
  /\ \A x \in Elements(p.rows) :
       /\ RowRecord(x) /\ x.key[1] \in R \cup {None}
       /\ x.key[1] = None => DrawnRow(x)
       /\ \A y \in Elements(p.rows) : x.key = y.key => x.wait = y.wait

\* Every row that is made for a generation anew has a name that was not used.
Numbered(p, R) ==
  p.gen # NoGen =>
    /\ p.gen.req \in R /\ p.gen.row \in {p.gen.req} \X Int /\ p.gen.made \in Nat
    /\ \A x \in Elements(p.rows) : x.key[1] = p.gen.req => x.key[2] >= -p.gen.made

Tidy(p, R) == Whole(p) /\ R \subseteq Turns /\ Rowed(p, R) /\ Numbered(p, R)

\* No row of turn r waits, or only the one named k; and none will when its row is
\* recovered.
Calm(p, r) == \A x \in Elements(p.rows) : x.key[1] = r => ~x.wait
Only(p, r, k) == \A x \in Elements(p.rows) : x.key[1] = r /\ x.wait => x.key = k
Quiet(p, r) == Calm(p, r) /\ (p.gen.req = r => p.gen.text # Blank)

\* Of the rows of the active generation's turn, only the generation's waits; and
\* only that one is named k, if any is.
Hers(p) == Only(p, p.gen.req, p.gen.row)
Sits(p, k) == (\E x \in Elements(p.rows) : x.key = k) => k = p.gen.row

\* The names of the rows of turn r go up to n.
Upto(p, r, n) == \A x \in Elements(p.rows) : x.key[1] = r => x.key[2] <= n

\* Page q is page p with rows that wait only where they did, or where a reply is
\* still to come.
Quiets(p, q, R) ==
  /\ Tidy(q, R)
  /\ q.gen.req = p.gen.req /\ q.gen.text = p.gen.text
  /\ p.gen = NoGen <=> q.gen = NoGen
  /\ \A r \in Turns :
       /\ Quiet(p, r) => Quiet(q, r)
       /\ \A n \in Nat : Upto(p, r, n) => Upto(q, r, n)
       /\ \A k : p.gen = NoGen /\ Only(p, r, k) => Only(q, r, k)
  /\ Hers(p) => Hers(q)
  /\ p.gen # NoGen => \A k \in {p.gen.req} \X Int : Sits(p, k) => Sits(q, k)

LEMMA QuietsTwice ==
  ASSUME NEW R, NEW o, NEW p, NEW q, Quiets(o, p, R), Quiets(p, q, R)
  PROVE  Quiets(o, q, R)
BY DEF Quiets

LEMMA QuietsItself ==
  ASSUME NEW R, NEW p, Tidy(p, R)
  PROVE  Quiets(p, p, R)
BY DEF Quiets

\* Row x has the name of row y, and waits if that does and its name is not in K.
Replaces(x, y, K) == RowRecord(x) /\ x.key = y.key /\ x.wait = (y.wait /\ y.key \notin K)

\* The rows of q are drawn, or replace rows of p.
Comes(p, q, K) ==
  /\ Whole(q) /\ IsList(q.rows)
  /\ \A x \in Elements(q.rows) : DrawnRow(x) \/ \E y \in Elements(p.rows) : Replaces(x, y, K)

SameGen(g, h) ==
  /\ h.req = g.req /\ h.text = g.text /\ h.row = g.row /\ h.made = g.made
  /\ g = NoGen => h = NoGen

LEMMA OwnersAreTurns ==
  ASSUME NEW R, NEW p, Tidy(p, R)
  PROVE  /\ p.gen # NoGen => p.gen.req \in Turns /\ p.gen.req # None
         /\ p.gen = NoGen => p.gen.req = None
         /\ \A x \in Elements(p.rows) : /\ RowRecord(x) /\ (x.key[1] = None \/ x.key[1] \in R)
                                        /\ x.key[1] = None => ~x.wait
BY TurnsAreNamed DEF Tidy, Rowed, Numbered, DrawnRow, NoGen

LEMMA ComesRowed ==
  ASSUME NEW R, NEW p, Tidy(p, R), NEW q, NEW K, Comes(p, q, K)
  PROVE  Rowed(q, R)
<1>1. ASSUME NEW x \in Elements(q.rows)
      PROVE  RowRecord(x) /\ x.key[1] \in R \cup {None} /\ (x.key[1] = None => DrawnRow(x))
  <2>1. CASE DrawnRow(x)
    BY <2>1 DEF DrawnRow
  <2>2. ASSUME NEW y \in Elements(p.rows), Replaces(x, y, K)
        PROVE  RowRecord(x) /\ x.key[1] \in R \cup {None} /\ (x.key[1] = None => DrawnRow(x))
    <3>1. RowRecord(y) /\ y.key[1] \in R \cup {None} /\ (y.key[1] = None => DrawnRow(y))
      BY DEF Tidy, Rowed
    <3> QED
      BY <2>2, <3>1 DEF Replaces, DrawnRow
  <2> QED
    BY <2>1, <2>2 DEF Comes
<1>2. ASSUME NEW x \in Elements(q.rows), NEW z \in Elements(q.rows), x.key = z.key
      PROVE  x.wait = z.wait
  <2>1. CASE x.key[1] = None
    <3>1. DrawnRow(x) /\ DrawnRow(z)
      BY <1>1, <1>2, <2>1
    <3> QED
      BY <3>1 DEF DrawnRow, RowRecord
  <2>2. CASE x.key[1] # None
    <3>1. PICK y \in Elements(p.rows) : Replaces(x, y, K)
      BY <2>2 DEF Comes, DrawnRow
    <3>2. PICK u \in Elements(p.rows) : Replaces(z, u, K)
      BY <1>2, <2>2 DEF Comes, DrawnRow
    <3>3. y.key = u.key
      BY <1>2, <3>1, <3>2 DEF Replaces
    <3>4. y.wait = u.wait
      BY <3>3 DEF Tidy, Rowed
    <3> QED
      BY <3>1, <3>2, <3>3, <3>4 DEF Replaces
  <2> QED
    BY <2>1, <2>2
<1> QED
  BY <1>1, <1>2 DEF Rowed, Comes

LEMMA ComesFrom ==
  ASSUME NEW R, NEW p, Tidy(p, R), NEW q, NEW K, Comes(p, q, K), NEW x \in Elements(q.rows),
         x.key[1] # None
  PROVE  \E y \in Elements(p.rows) : x.key = y.key /\ (x.wait => y.wait /\ y.key \notin K)
BY DEF Comes, DrawnRow, Replaces

LEMMA ComesQuietly ==
  ASSUME NEW R, NEW p, Tidy(p, R), NEW q, NEW K, Comes(p, q, K), SameGen(p.gen, q.gen)
  PROVE  Quiets(p, q, R)
<1>1. \A x \in Elements(q.rows) : x.key[1] # None =>
        \E y \in Elements(p.rows) : x.key = y.key /\ (x.wait => y.wait /\ y.key \notin K)
  BY ComesFrom
<1>2. /\ p.gen # NoGen => p.gen.req \in Turns /\ p.gen.req # None
      /\ p.gen = NoGen => p.gen.req = None
  BY OwnersAreTurns
<1>3. p.gen = NoGen <=> q.gen = NoGen
  BY <1>2 DEF SameGen, NoGen
<1>4. Tidy(q, R)
  <2>1. Rowed(q, R)
    BY ComesRowed
  <2>2. Numbered(q, R)
    BY <1>1, <1>2, <1>3 DEF Tidy, Numbered, SameGen
  <2> QED
    BY <2>1, <2>2 DEF Tidy, Comes
<1>5. \A x \in Elements(q.rows) : x.key[1] = None => ~x.wait
  BY <1>4, OwnersAreTurns
<1>6. \A r \in Turns : r # None
  BY TurnsAreNamed
<1>7. ASSUME NEW r \in Turns
      PROVE  /\ Quiet(p, r) => Quiet(q, r)
             /\ \A n \in Nat : Upto(p, r, n) => Upto(q, r, n)
             /\ \A k : Only(p, r, k) => Only(q, r, k)
  <2>1. Calm(p, r) => Calm(q, r)
    BY <1>1, <1>6 DEF Calm
  <2>2. \A n \in Nat : Upto(p, r, n) => Upto(q, r, n)
    BY <1>1, <1>6 DEF Upto
  <2>3. \A k : Only(p, r, k) => Only(q, r, k)
    BY <1>1, <1>6 DEF Only
  <2> QED
    BY <2>1, <2>2, <2>3 DEF Quiet, SameGen
<1>8. Hers(p) => Hers(q)
  <2>1. CASE p.gen = NoGen
    BY <1>2, <1>5, <2>1 DEF Hers, Only, SameGen
  <2>2. CASE p.gen # NoGen
    BY <1>2, <1>7, <2>2 DEF Hers, SameGen
  <2> QED
    BY <2>1, <2>2
<1>9. p.gen # NoGen => \A k \in {p.gen.req} \X Int : Sits(p, k) => Sits(q, k)
  BY <1>1, <1>2 DEF Sits, SameGen
<1> QED
  BY <1>3, <1>4, <1>7, <1>8, <1>9 DEF Quiets, SameGen

LEMMA MaxIsOne ==
  ASSUME NEW n \in Nat, NEW s \in SUBSET (1..n), s # {}
  PROVE  Max(s) \in s
<1>1. Folding!Max(s) \in s /\ \A i \in s : i <= Folding!Max(s)
  BY Folding!MaxIsMember
<1> QED
  BY <1>1, MaxIsIn

LEMMA TurnsAreNumbers == Turns \subseteq Int
BY TurnsAssumption

LEMMA RekeyedRows ==
  ASSUME NEW rs, IsList(rs), \A x \in Elements(rs) : RowRecord(x),
         NEW old, NEW k \in Int \X Int, NEW t, t = Rekey(rs, old, k)
  PROVE  /\ IsList(t)
         /\ \A x \in Elements(t) : \E y \in Elements(rs) :
              RowRecord(x) /\ x.wait = y.wait /\ x.key = IF y.key = old THEN k ELSE y.key
<1>1. DOMAIN t = DOMAIN rs
  BY DEF Rekey
<1>2. t = [i \in DOMAIN rs |-> t[i]]
  BY DEF Rekey
<1>3. IsList(t)
  BY <1>1, <1>2, MappedList
<1>4. ASSUME NEW i \in DOMAIN rs
      PROVE  LET x == t[i]
                 y == rs[i]
             IN RowRecord(x) /\ x.wait = y.wait /\ x.key = IF y.key = old THEN k ELSE y.key
  <2>1. RowRecord(rs[i])
    BY DEF Elements
  <2>2. t[i] = IF rs[i].key = old THEN [rs[i] EXCEPT !.key = k] ELSE rs[i]
    BY DEF Rekey
  <2> QED
    BY <2>1, <2>2 DEF RowRecord
<1> QED
  BY <1>1, <1>3, <1>4 DEF Elements

LEMMA PrunedRows ==
  ASSUME NEW rs, IsList(rs), NEW c
  PROVE  IsList(Prune(rs, c)) /\ Elements(Prune(rs, c)) \subseteq Elements(rs)
<1>1. PICK at : Prune(rs, c) = Removed(rs, at)
  BY DEF Prune
<1> QED
  BY <1>1, RowsLeft DEF Elements

\* Row x is the one that is made anew for generation g, or has the name of a row
\* of page p and waits if that does.
Recovered(x, p, k) ==
  /\ RowRecord(x)
  /\ \/ x.key = k /\ x.wait = (p.gen.text = Blank)
     \/ \E y \in Elements(p.rows) : x.key = y.key /\ x.wait = y.wait

\* Page q is page p with the generation's row made anew, and named k.
Remade(p, q, k) ==
  /\ p.gen # NoGen /\ (\A y \in Elements(p.rows) : y.key # p.gen.row)
  /\ k = <<p.gen.req, -(p.gen.made + 1)>>
  /\ q.gen.req = p.gen.req /\ q.gen.text = p.gen.text /\ q.gen.row = k
  /\ q.gen.made = p.gen.made + 1
  /\ Whole(q) /\ IsList(q.rows)
  /\ \A x \in Elements(q.rows) : Recovered(x, p, k)

LEMMA RecoverRemakes ==
  ASSUME NEW R, NEW p, Tidy(p, R), Recover(p) # p
  PROVE  Remade(p, Recover(p), <<p.gen.req, -(p.gen.made + 1)>>)
<1> DEFINE g == p.gen
           key == <<g.req, -(g.made + 1)>>
           found == Recoverable(p.rows, g.chat, g.text)
           taken == p.rows[Max(found)]
           new == Row(key, g.chat, Msg(None, "assistant", g.text), g.text = Blank)
           shown == IF found # {} THEN taken.text ELSE g.text
           rs == IF found # {} THEN Rekey(p.rows, taken.key, key) ELSE Append(p.rows, new)
           q == Recover(p)
<1>1. /\ g # NoGen /\ ~Attached(p.rows, g.row)
      /\ q = [p EXCEPT !.gen.row = key, !.gen.made = @ + 1, !.gen.shown = shown,
                       !.rows = Prune(rs, g.chat)]
  BY DEF Recover
<1>2. IsList(p.rows) /\ \A x \in Elements(p.rows) : RowRecord(x)
  BY DEF Tidy, Rowed
<1>3. key \in Int \X Int
  BY <1>1, TurnsAssumption DEF Tidy, Numbered
<1> HIDE DEF key
<1>4. IsList(rs) /\ \A x \in Elements(rs) : Recovered(x, p, key)
  <2>1. CASE found = {}
    <3>0. rs = Append(p.rows, new)
      BY <2>1
    <3>2. RowRecord(new) /\ new.key = key /\ new.wait = (g.text = Blank)
      BY <1>3 DEF RowRecord, Row, Msg
    <3> HIDE DEF new, rs
    <3>1. IsList(rs) /\ Elements(rs) = Elements(p.rows) \cup {new}
      BY <1>2, <3>0, AppendedList
    <3> QED
      BY <1>2, <3>1, <3>2 DEF Recovered
  <2>2. CASE found # {}
    <3>1. Len(p.rows) \in Nat /\ DOMAIN p.rows = 1..Len(p.rows)
      BY <1>2, ListShape
    <3>2. found \in SUBSET (1..Len(p.rows))
      BY <3>1 DEF Recoverable
    <3>3. Max(found) \in found
      <4> HIDE DEF found
      <4> QED
        BY <2>2, <3>1, <3>2, MaxIsOne
    <3>4. taken \in Elements(p.rows)
      BY <3>1, <3>2, <3>3 DEF Elements
    <3>5. taken.wait = (g.text = Blank)
      <4>1. taken.wait \in BOOLEAN
        BY <1>2, <3>4 DEF RowRecord
      <4>2. IF g.text = Blank THEN taken.wait ELSE ~taken.wait
        BY <3>3 DEF Recoverable
      <4> QED
        BY <4>1, <4>2
    <3>6. rs = Rekey(p.rows, taken.key, key)
      BY <2>2
    <3> HIDE DEF taken, rs
    <3>7. /\ IsList(rs)
          /\ \A x \in Elements(rs) : \E y \in Elements(p.rows) :
               /\ RowRecord(x) /\ x.wait = y.wait
               /\ x.key = IF y.key = taken.key THEN key ELSE y.key
      BY <1>2, <1>3, <3>6, RekeyedRows
    <3>8. \A y \in Elements(p.rows) : y.key = taken.key => y.wait = taken.wait
      BY <3>4 DEF Tidy, Rowed
    <3> QED
      BY <3>5, <3>7, <3>8 DEF Recovered
  <2> QED
    BY <2>1, <2>2
<1> HIDE DEF rs, shown, new, found
<1>5. /\ IsList(Prune(rs, g.chat))
      /\ \A x \in Elements(Prune(rs, g.chat)) : Recovered(x, p, key)
  BY <1>4, PrunedRows
<1>6. /\ q.rows = Prune(rs, g.chat) /\ q.gen.row = key /\ q.gen.made = g.made + 1
      /\ q.gen.req = g.req /\ q.gen.text = g.text
  <2> DEFINE made == g.made + 1
             left == Prune(rs, g.chat)
  <2>1. q = [p EXCEPT !.gen.row = key, !.gen.made = made, !.gen.shown = shown, !.rows = left]
    BY <1>1
  <2>2. Whole(p)
    BY DEF Tidy
  <2> HIDE DEF made, left, q
  <2>3. /\ q.rows = left /\ q.gen.row = key /\ q.gen.made = made
        /\ q.gen.req = g.req /\ q.gen.text = g.text
    BY <2>1, <2>2 DEF Whole
  <2> QED
    BY <2>3 DEF made, left
<1>7. Whole(q)
  BY KeptByRecover DEF Tidy, KeepsGen
<1>8. \A y \in Elements(p.rows) : y.key # p.gen.row
  BY <1>1 DEF Attached, Elements
<1> QED
  BY <1>1, <1>5, <1>6, <1>7, <1>8 DEF Remade, key

LEMMA RemadeTidy ==
  ASSUME NEW R, NEW p, Tidy(p, R), NEW q, NEW k, Remade(p, q, k)
  PROVE  Tidy(q, R)
<1>1. p.gen.req \in R /\ p.gen.made \in Nat /\ R \subseteq Turns /\ p.gen.req # None
  BY TurnsAreNamed DEF Tidy, Numbered, Remade
<1>2. k \in Int \X Int /\ k[1] = p.gen.req /\ k[2] = -(p.gen.made + 1)
  <2>1. p.gen.req \in Int
    BY <1>1, TurnsAreNumbers
  <2>2. -(p.gen.made + 1) \in Int
    BY <1>1
  <2> QED
    BY <2>1, <2>2 DEF Remade
<1>3. \A y \in Elements(p.rows) : y.key # k
  BY <1>1, <1>2 DEF Tidy, Numbered, Remade
<1>4. ASSUME NEW x \in Elements(q.rows)
      PROVE  RowRecord(x) /\ x.key[1] \in R \cup {None} /\ (x.key[1] = None => DrawnRow(x))
  <2>1. Recovered(x, p, k)
    BY DEF Remade
  <2>2. CASE x.key = k
    BY <1>1, <1>2, <2>1, <2>2 DEF Recovered
  <2>3. ASSUME NEW y \in Elements(p.rows), x.key = y.key /\ x.wait = y.wait
        PROVE  RowRecord(x) /\ x.key[1] \in R \cup {None} /\ (x.key[1] = None => DrawnRow(x))
    BY <2>1, <2>3 DEF Recovered, Tidy, Rowed, DrawnRow
  <2> QED
    BY <2>1, <2>2, <2>3 DEF Recovered
<1>5. ASSUME NEW x \in Elements(q.rows), NEW z \in Elements(q.rows), x.key = z.key
      PROVE  x.wait = z.wait
  <2>1. Recovered(x, p, k) /\ Recovered(z, p, k)
    BY DEF Remade
  <2>2. CASE x.key = k
    BY <1>3, <1>5, <2>1, <2>2 DEF Recovered
  <2>3. CASE x.key # k
    <3>1. PICK y \in Elements(p.rows) : x.key = y.key /\ x.wait = y.wait
      BY <2>1, <2>3 DEF Recovered
    <3>2. PICK u \in Elements(p.rows) : z.key = u.key /\ z.wait = u.wait
      BY <1>5, <2>1, <2>3 DEF Recovered
    <3> QED
      BY <1>5, <3>1, <3>2 DEF Tidy, Rowed
  <2> QED
    BY <2>2, <2>3
<1>6. Rowed(q, R)
  BY <1>4, <1>5 DEF Rowed, Remade
<1>7. ASSUME NEW x \in Elements(q.rows), x.key[1] = q.gen.req
      PROVE  x.key[2] >= -q.gen.made
  <2>1. Recovered(x, p, k) /\ q.gen.req = p.gen.req /\ q.gen.made = p.gen.made + 1
    BY DEF Remade
  <2>2. CASE x.key = k
    BY <1>1, <1>2, <2>1, <2>2
  <2>3. ASSUME NEW y \in Elements(p.rows), x.key = y.key
        PROVE  x.key[2] >= -q.gen.made
    <3>1. y.key[2] \in Int /\ y.key[2] >= -p.gen.made
      BY <1>7, <2>1, <2>3 DEF Tidy, Numbered, Remade, Rowed, RowRecord
    <3> QED
      BY <1>1, <2>1, <2>3, <3>1
  <2> QED
    BY <2>1, <2>2, <2>3 DEF Recovered
<1>8. Numbered(q, R)
  <2>1. /\ q.gen.req = p.gen.req /\ q.gen.made = p.gen.made + 1 /\ q.gen.row = k
    BY DEF Remade
  <2>2. q.gen.row \in {q.gen.req} \X Int
    BY <1>1, <2>1 DEF Remade
  <2> QED
    BY <1>1, <1>7, <2>1, <2>2 DEF Numbered
<1> QED
  BY <1>1, <1>6, <1>8 DEF Tidy, Remade

LEMMA RemadeQuietly ==
  ASSUME NEW R, NEW p, Tidy(p, R), NEW q, NEW k, Remade(p, q, k)
  PROVE  Quiets(p, q, R)
<1>1. p.gen # NoGen /\ p.gen.req \in R /\ p.gen.made \in Nat /\ p.gen.req # None
  BY TurnsAreNamed DEF Tidy, Numbered, Remade
<1>2. k[1] = p.gen.req /\ k[2] = -(p.gen.made + 1)
  BY DEF Remade
<1>3. Tidy(q, R)
  BY RemadeTidy
<1>4. /\ q.gen.req = p.gen.req /\ q.gen.text = p.gen.text /\ q.gen.row = k
      /\ q.gen # NoGen
  BY <1>1 DEF Remade, NoGen
<1>5. \A x \in Elements(q.rows) :
        \/ x.key = k /\ (x.wait => p.gen.text = Blank)
        \/ \E y \in Elements(p.rows) :
             x.key = y.key /\ (x.wait => y.wait) /\ y.key # p.gen.row
  BY DEF Remade, Recovered
<1>6. ASSUME NEW r \in Turns
      PROVE  /\ Quiet(p, r) => Quiet(q, r)
             /\ \A n \in Nat : Upto(p, r, n) => Upto(q, r, n)
  <2>1. Quiet(p, r) => Quiet(q, r)
    BY <1>2, <1>4, <1>5 DEF Quiet, Calm
  <2>2. \A n \in Nat : k[2] <= n
    BY <1>1, <1>2
  <2>3. \A n \in Nat : Upto(p, r, n) => Upto(q, r, n)
    BY <1>5, <2>2 DEF Upto
  <2> QED
    BY <2>1, <2>3
<1>7. Hers(p) => Hers(q)
  BY <1>4, <1>5 DEF Hers, Only
<1>8. \A kk \in {p.gen.req} \X Int : Sits(p, kk) => Sits(q, kk)
  BY <1>4, <1>5 DEF Sits
<1> QED
  BY <1>1, <1>3, <1>4, <1>6, <1>7, <1>8 DEF Quiets

LEMMA RecoverQuiets ==
  ASSUME NEW R, NEW p, Tidy(p, R)
  PROVE  Quiets(p, Recover(p), R)
<1>1. CASE Recover(p) = p
  BY <1>1, QuietsItself
<1>2. CASE Recover(p) # p
  BY <1>2, RecoverRemakes, RemadeQuietly
<1> QED
  BY <1>1, <1>2

\* Pages with the same rows, fewer, or others that are drawn.
LEMMA RedrawnQuiets ==
  ASSUME NEW R, NEW p, Tidy(p, R), NEW q, Whole(q), q.gen = p.gen, IsList(q.rows),
         \A x \in Elements(q.rows) : DrawnRow(x) \/ x \in Elements(p.rows)
  PROVE  Quiets(p, q, R)
<1>1. \A y \in Elements(p.rows) : Replaces(y, y, {})
  BY DEF Tidy, Rowed, RowRecord, Replaces
<1>2. Comes(p, q, {})
  BY <1>1 DEF Comes
<1>3. SameGen(p.gen, q.gen)
  BY DEF SameGen
<1> QED
  BY <1>2, <1>3, ComesQuietly

LEMMA SameRowsQuiets ==
  ASSUME NEW R, NEW p, Tidy(p, R), NEW q, Whole(q), q.gen = p.gen, q.rows = p.rows
  PROVE  Quiets(p, q, R)
<1>1. IsList(q.rows)
  BY DEF Tidy, Rowed
<1> QED
  BY <1>1, RedrawnQuiets

LEMMA DrawnRows ==
  ASSUME NEW s, Listing(s), NEW c
  PROVE  IsList(Drawn(s, c)) /\ \A x \in Elements(Drawn(s, c)) : DrawnRow(x)
<1> DEFINE h == History(s, c)
           t == Drawn(s, c)
<1>1. Talk(h)
  BY ToldTalk
<1>2. IsList(h) /\ DOMAIN h = 1..Len(h) /\ \A i \in DOMAIN h : MsgRecord(h[i])
  BY <1>1, TalkShape
<1>3. /\ DOMAIN t = DOMAIN h /\ t = [i \in DOMAIN h |-> t[i]]
      /\ \A i \in DOMAIN h : t[i] = Row(<<None, h[i].id>>, c, h[i], FALSE)
  BY DEF Drawn
<1> HIDE DEF h, t
<1>4. IsList(t)
  BY <1>2, <1>3, MappedList
<1>5. ASSUME NEW i \in DOMAIN h PROVE DrawnRow(t[i])
  <2>1. MsgRecord(h[i]) /\ h[i].id \in Int \ {0}
    BY <1>2 DEF MsgRecord
  <2>2. t[i] = Row(<<None, h[i].id>>, c, h[i], FALSE)
    BY <1>3
  <2> QED
    BY <2>1, <2>2 DEF DrawnRow, RowRecord, Row, None, NoRow
<1>6. \A x \in Elements(t) : DrawnRow(x)
  BY <1>3, <1>5 DEF Elements
<1> QED
  BY <1>4, <1>6 DEF t

LEMMA ActivateQuiets ==
  ASSUME NEW R, NEW p, Tidy(p, R), Listing(p.store), NEW target, NEW render
  PROVE  Quiets(p, Activate(p, target, render), R)
<1>1. PICK a, sq, d, rs :
        /\ Activate(p, target, render) =
             Recover([p EXCEPT !.active = a, !.seq = sq, !.due = d, !.rows = rs])
        /\ rs = p.rows \/ rs = Drawn(p.store, a)
  BY DEF Activate
<1> DEFINE o == [p EXCEPT !.active = a, !.seq = sq, !.due = d, !.rows = rs]
<1>2. Whole(o) /\ o.rows = rs /\ o.gen = p.gen
  BY DEF Tidy, Whole
<1>3. IsList(rs) /\ \A x \in Elements(rs) : DrawnRow(x) \/ x \in Elements(p.rows)
  BY <1>1, DrawnRows DEF Tidy, Rowed
<1> HIDE DEF o
<1>4. Quiets(p, o, R)
  BY <1>2, <1>3, RedrawnQuiets
<1>5. Quiets(o, Recover(o), R)
  BY <1>4, RecoverQuiets DEF Quiets
<1>6. Quiets(p, Recover(o), R)
  BY <1>4, <1>5, QuietsTwice
<1> QED
  BY <1>1, <1>6 DEF o

LEMMA StoreKeptByActivate ==
  ASSUME NEW p, Whole(p), NEW target, NEW render
  PROVE  Activate(p, target, render).store = p.store
<1>1. PICK a, sq, d, rs :
        Activate(p, target, render) =
          Recover([p EXCEPT !.active = a, !.seq = sq, !.due = d, !.rows = rs])
  BY DEF Activate
<1> DEFINE o == [p EXCEPT !.active = a, !.seq = sq, !.due = d, !.rows = rs]
<1>2. Whole(o) /\ o.store = p.store
  BY DEF Whole
<1> HIDE DEF o
<1>3. Recover(o).store = o.store
  BY <1>2, RecoverShape
<1> QED
  BY <1>1, <1>2, <1>3 DEF o

\* A chat is activated after the chats were changed.
LEMMA ChangedQuiets ==
  ASSUME NEW R, NEW p, Tidy(p, R), NEW o, Whole(o), o.gen = p.gen, o.rows = p.rows,
         NEW target, NEW render, NEW q, q = Activate(o, target, render), Listing(q.store)
  PROVE  Quiets(p, q, R)
<1>1. Quiets(p, o, R)
  BY SameRowsQuiets
<1>2. Tidy(o, R)
  BY <1>1 DEF Quiets
<1>3. Listing(o.store)
  BY StoreKeptByActivate
<1>4. Quiets(o, q, R)
  BY <1>2, <1>3, ActivateQuiets
<1> QED
  BY <1>1, <1>4, QuietsTwice

LEMMA PersistQuiets ==
  ASSUME NEW R, NEW p, Tidy(p, R), Sound(p), NEW c, NEW m, MsgRecord(m)
  PROVE  Quiets(p, Persist(p, c, m), R)
<1> DEFINE q == Persist(p, c, m)
<1>1. PICK t, s : q = p \/ q = [p EXCEPT !.store = s]
                    \/ q = Activate([p EXCEPT !.store = s], t, FALSE)
  BY DEF Persist
<1>2. Persisted(q, p, c, m)
  BY PersistShape
<1> HIDE DEF q
<1>3. Listing(q.store)
  BY <1>2 DEF Persisted, Sound
<1> DEFINE o == [p EXCEPT !.store = s]
<1>4. Whole(o) /\ o.gen = p.gen /\ o.rows = p.rows
  BY DEF Tidy, Whole
<1>5. q = p \/ q = o \/ q = Activate(o, t, FALSE)
  BY <1>1
<1> HIDE DEF o
<1>6. Quiets(p, q, R)
  BY <1>3, <1>4, <1>5, ChangedQuiets, SameRowsQuiets, QuietsItself
<1> QED
  BY <1>6 DEF q

LEMMA RenamedQuiets ==
  ASSUME NEW R, NEW p, Tidy(p, R), NEW c, Listing(Renamed(p, c).store)
  PROVE  Quiets(p, Renamed(p, c), R)
<1> DEFINE o == [p EXCEPT !.store = ToFront(@, Chat(c, "new", History(@, c)))]
           q == Renamed(p, c)
<1>1. Whole(o) /\ o.gen = p.gen /\ o.rows = p.rows
  BY DEF Tidy, Whole
<1>2. q = Activate(o, c, TRUE) /\ Listing(q.store)
  BY DEF Renamed
<1> HIDE DEF o, q
<1>3. Quiets(p, q, R)
  BY <1>1, <1>2, ChangedQuiets
<1> QED
  BY <1>3 DEF q

LEMMA EmptyRows == IsList(<<>>) /\ Elements(<<>>) = {}
BY EmptyTalk DEF Talk, Elements

LEMMA SnapshotQuiets ==
  ASSUME NEW R, NEW p, Tidy(p, R), NEW snap, NEW preserve, NEW prefer,
         Listing(Snapshot(p, snap, preserve, prefer).store)
  PROVE  Quiets(p, Snapshot(p, snap, preserve, prefer), R)
<1> DEFINE q == Snapshot(p, snap, preserve, prefer)
<1>1. PICK s, a :
        \/ q = [p EXCEPT !.store = <<>>, !.active = None, !.rows = <<>>, !.due = FALSE]
        \/ q = Activate([p EXCEPT !.store = s, !.seq = 0, !.active = a], a, TRUE)
  BY DEF Snapshot
<1>2. Listing(q.store)
  OBVIOUS
<1> HIDE DEF q
<1> DEFINE o == [p EXCEPT !.store = s, !.seq = 0, !.active = a]
           e == [p EXCEPT !.store = <<>>, !.active = None, !.rows = <<>>, !.due = FALSE]
<1>3. Whole(o) /\ o.gen = p.gen /\ o.rows = p.rows
  BY DEF Tidy, Whole
<1>4. Whole(e) /\ e.gen = p.gen /\ e.rows = <<>>
  BY DEF Tidy, Whole
<1>5. q = e \/ q = Activate(o, a, TRUE)
  BY <1>1
<1> HIDE DEF o, e
<1>6. Quiets(p, e, R)
  BY <1>4, EmptyRows, RedrawnQuiets
<1>7. Quiets(p, q, R)
  BY <1>2, <1>3, <1>5, <1>6, ChangedQuiets
<1> QED
  BY <1>7 DEF q

LEMMA PrunedForQuiets ==
  ASSUME NEW R, NEW p, Tidy(p, R), NEW c
  PROVE  Quiets(p, PrunedFor(p, c), R)
<1> DEFINE q == PrunedFor(p, c)
<1>1. Whole(q) /\ q.gen = p.gen /\ q.rows = Prune(p.rows, c)
  BY DEF Tidy, Whole, PrunedFor
<1> HIDE DEF q
<1>2. IsList(q.rows) /\ Elements(q.rows) \subseteq Elements(p.rows)
  BY <1>1, PrunedRows DEF Tidy, Rowed
<1>3. Quiets(p, q, R)
  BY <1>1, <1>2, RedrawnQuiets
<1> QED
  BY <1>3 DEF q

LEMMA Named0Quiets ==
  ASSUME NEW R, NEW p, Tidy(p, R), NEW key, NEW id
  PROVE  Quiets(p, Named0(p, key, id), R)
<1> DEFINE q == Named0(p, key, id)
           rs == [i \in DOMAIN p.rows |-> IF p.rows[i].key # key THEN p.rows[i]
                                          ELSE [p.rows[i] EXCEPT !.id = id]]
<1>1. Whole(q) /\ q.gen = p.gen /\ q.rows = rs
  BY DEF Tidy, Whole, Named0
<1>2. IsList(p.rows) /\ \A i \in DOMAIN p.rows : RowRecord(p.rows[i])
  BY DEF Tidy, Rowed, Elements
<1>3. IsList(rs)
  BY <1>2, MappedList
<1>4. \A i \in DOMAIN p.rows : Replaces(rs[i], p.rows[i], {})
  BY <1>2 DEF Replaces, RowRecord
<1>5. DOMAIN rs = DOMAIN p.rows
  OBVIOUS
<1> HIDE DEF q, rs
<1>6. Comes(p, q, {})
  BY <1>1, <1>3, <1>4, <1>5 DEF Comes, Elements
<1>7. SameGen(p.gen, q.gen)
  BY <1>1 DEF SameGen
<1>8. Quiets(p, q, R)
  BY <1>6, <1>7, ComesQuietly
<1> QED
  BY <1>8 DEF q

\* A message's own row goes to the end of the page.
LEMMA AddQuiets ==
  ASSUME NEW R, NEW p, Tidy(p, R), NEW chat, NEW m, MsgRecord(m)
  PROVE  Quiets(p, Add(p, <<None, m.id>>, chat, m, FALSE), R)
<1> DEFINE x == Row(<<None, m.id>>, chat, m, FALSE)
           q == Add(p, <<None, m.id>>, chat, m, FALSE)
<1>1. Whole(q) /\ q.gen = p.gen /\ q.rows = Append(p.rows, x)
  BY DEF Tidy, Whole, Add
<1>2. DrawnRow(x)
  BY DEF DrawnRow, RowRecord, Row, MsgRecord, None, NoRow
<1> HIDE DEF x, q
<1>3. IsList(q.rows) /\ Elements(q.rows) = Elements(p.rows) \cup {x}
  BY <1>1, AppendedList DEF Tidy, Rowed
<1>4. Quiets(p, q, R)
  BY <1>1, <1>2, <1>3, RedrawnQuiets
<1> QED
  BY <1>4 DEF q

\* Page q is page p, but that the rows named k wait if w.
Shown(p, q, k, w) ==
  /\ Whole(q) /\ IsList(q.rows) /\ SameGen(p.gen, q.gen)
  /\ \A x \in Elements(q.rows) : \E y \in Elements(p.rows) :
       RowRecord(x) /\ x.key = y.key /\ x.wait = IF y.key = k THEN w ELSE y.wait

LEMMA ShowShows ==
  ASSUME NEW R, NEW p, Tidy(p, R), NEW key, NEW text, NEW w \in BOOLEAN
  PROVE  Shown(p, Show(p, key, text, w), key, w)
<1> DEFINE q == Show(p, key, text, w)
           rs == [i \in DOMAIN p.rows |-> IF p.rows[i].key # key THEN p.rows[i]
                                          ELSE [p.rows[i] EXCEPT !.text = text, !.wait = w]]
           shown == IF p.gen # NoGen /\ p.gen.row = key /\ Attached(p.rows, key)
                    THEN text ELSE p.gen.shown
<1>1. q = [p EXCEPT !.rows = rs, !.gen.shown = shown]
  BY DEF Show
<1>2. IsList(p.rows) /\ \A i \in DOMAIN p.rows : RowRecord(p.rows[i])
  BY DEF Tidy, Rowed, Elements
<1>3. IsList(rs)
  BY <1>2, MappedList
<1>4. ASSUME NEW i \in DOMAIN p.rows
      PROVE  /\ RowRecord(rs[i]) /\ rs[i].key = p.rows[i].key
             /\ rs[i].wait = IF p.rows[i].key = key THEN w ELSE p.rows[i].wait
  <2>1. RowRecord(p.rows[i])
    BY <1>2
  <2>2. rs[i] = IF p.rows[i].key # key THEN p.rows[i]
                ELSE [p.rows[i] EXCEPT !.text = text, !.wait = w]
    OBVIOUS
  <2> HIDE DEF rs
  <2> QED
    BY <2>1, <2>2 DEF RowRecord
<1>5. DOMAIN rs = DOMAIN p.rows
  OBVIOUS
<1>6. p.gen = NoGen => shown = p.gen.shown
  OBVIOUS
<1> HIDE DEF q, rs, shown
<1>7. Whole(q) /\ q.rows = rs /\ SameGen(p.gen, q.gen)
  BY <1>1, <1>6 DEF Tidy, Whole, SameGen
<1>8. Shown(p, q, key, w)
  BY <1>3, <1>4, <1>5, <1>7 DEF Shown, Elements
<1> QED
  BY <1>8 DEF q

\* A row that shows something waits no more.
LEMMA ShowQuiets ==
  ASSUME NEW R, NEW p, Tidy(p, R), NEW key, NEW text
  PROVE  LET q == Show(p, key, text, FALSE)
         IN  /\ Quiets(p, q, R)
             /\ \A r : Only(p, r, key) => Calm(q, r)
<1> DEFINE q == Show(p, key, text, FALSE)
<1>1. Shown(p, q, key, FALSE)
  BY ShowShows
<1> HIDE DEF q
<1>2. ASSUME NEW x \in Elements(q.rows)
      PROVE  \E y \in Elements(p.rows) : Replaces(x, y, {key}) /\ (x.wait => y.key # key /\ y.wait)
  <2>1. PICK y \in Elements(p.rows) :
          RowRecord(x) /\ x.key = y.key /\ x.wait = IF y.key = key THEN FALSE ELSE y.wait
    BY <1>1 DEF Shown
  <2>2. y.wait \in BOOLEAN /\ x.wait \in BOOLEAN
    BY <2>1 DEF Tidy, Rowed, RowRecord
  <2>3. x.wait = (y.wait /\ y.key \notin {key})
    BY <2>1, <2>2
  <2> QED
    BY <2>1, <2>2, <2>3 DEF Replaces
<1>3. Comes(p, q, {key}) /\ SameGen(p.gen, q.gen)
  BY <1>1, <1>2 DEF Shown, Comes
<1>4. Quiets(p, q, R)
  BY <1>3, ComesQuietly
<1>5. \A r : Only(p, r, key) => Calm(q, r)
  <2>1. \A x \in Elements(q.rows) : \E y \in Elements(p.rows) :
          x.key = y.key /\ (x.wait => y.key # key /\ y.wait)
    BY <1>2 DEF Replaces
  <2> QED
    BY <2>1 DEF Only, Calm
<1> QED
  BY <1>4, <1>5 DEF q

\* Page q is page p, but for the rows named k, which may wait by now.
Wakes(p, q, k, R) ==
  /\ Tidy(q, R) /\ SameGen(p.gen, q.gen)
  /\ \A r \in Turns :
       /\ k[1] # r /\ Quiet(p, r) => Quiet(q, r)
       /\ \A n \in Nat : Upto(p, r, n) => Upto(q, r, n)
       /\ Only(p, r, k) => Only(q, r, k)
  /\ k \in {NoRow, p.gen.row} /\ Hers(p) => Hers(q)
  /\ \A j : Sits(p, j) => Sits(q, j)

LEMMA ShowWakes ==
  ASSUME NEW R, NEW p, Tidy(p, R), NEW k, NEW text, NEW w \in BOOLEAN, k[1] # None \/ k = NoRow
  PROVE  Wakes(p, Show(p, k, text, w), k, R)
<1> DEFINE q == Show(p, k, text, w)
<1>1. Shown(p, q, k, w)
  BY ShowShows
<1> HIDE DEF q
<1>2. ASSUME NEW x \in Elements(q.rows)
      PROVE  RowRecord(x) /\ x.key[1] \in R \cup {None} /\ (x.key[1] = None => DrawnRow(x))
  <2>1. PICK y \in Elements(p.rows) :
          RowRecord(x) /\ x.key = y.key /\ x.wait = IF y.key = k THEN w ELSE y.wait
    BY <1>1 DEF Shown
  <2>2. y.key[1] \in R \cup {None} /\ (y.key[1] = None => DrawnRow(y))
    BY DEF Tidy, Rowed
  <2>3. x.key[1] = None => x.wait = y.wait
    BY <2>1, <2>2 DEF DrawnRow
  <2> QED
    BY <2>1, <2>2, <2>3 DEF DrawnRow
<1>3. ASSUME NEW x \in Elements(q.rows), NEW z \in Elements(q.rows), x.key = z.key
      PROVE  x.wait = z.wait
  <2>1. PICK y \in Elements(p.rows) :
          RowRecord(x) /\ x.key = y.key /\ x.wait = IF y.key = k THEN w ELSE y.wait
    BY <1>1 DEF Shown
  <2>2. PICK u \in Elements(p.rows) :
          RowRecord(z) /\ z.key = u.key /\ z.wait = IF u.key = k THEN w ELSE u.wait
    BY <1>1 DEF Shown
  <2>3. y.wait = u.wait
    BY <1>3, <2>1, <2>2 DEF Tidy, Rowed
  <2> QED
    BY <1>3, <2>1, <2>2, <2>3
<1>4. Rowed(q, R)
  BY <1>1, <1>2, <1>3 DEF Rowed, Shown
<1>5. /\ p.gen # NoGen => p.gen.req # None
      /\ p.gen = NoGen => p.gen.req = None
  BY OwnersAreTurns
<1>6. p.gen = NoGen <=> q.gen = NoGen
  BY <1>1, <1>5 DEF Shown, SameGen, NoGen
<1>7. \A x \in Elements(q.rows) : \E y \in Elements(p.rows) :
        x.key = y.key /\ (x.wait => y.key = k \/ y.wait)
  BY <1>1 DEF Shown
<1>8. Numbered(q, R)
  BY <1>1, <1>6, <1>7 DEF Shown, SameGen, Tidy, Numbered
<1>9. Tidy(q, R) /\ SameGen(p.gen, q.gen)
  BY <1>1, <1>4, <1>8 DEF Tidy, Shown
<1>10. ASSUME NEW r \in Turns
       PROVE  /\ k[1] # r /\ Quiet(p, r) => Quiet(q, r)
              /\ \A n \in Nat : Upto(p, r, n) => Upto(q, r, n)
              /\ Only(p, r, k) => Only(q, r, k)
  <2>1. k[1] # r /\ Quiet(p, r) => Quiet(q, r)
    BY <1>7, <1>9 DEF Quiet, Calm, SameGen
  <2>2. \A n \in Nat : Upto(p, r, n) => Upto(q, r, n)
    BY <1>7 DEF Upto
  <2>3. Only(p, r, k) => Only(q, r, k)
    BY <1>7 DEF Only
  <2> QED
    BY <2>1, <2>2, <2>3
<1>11. k \in {NoRow, p.gen.row} /\ Hers(p) => Hers(q)
  <2>1. \A x \in Elements(q.rows) : x.key # NoRow
    <3>1. \A x \in Elements(q.rows) : x.key[1] = None => x.key # NoRow
      BY <1>2 DEF DrawnRow
    <3> QED
      BY <3>1 DEF NoRow
  <2> QED
    BY <1>7, <1>9, <2>1 DEF Hers, Only, SameGen
<1>12. \A j : Sits(p, j) => Sits(q, j)
  BY <1>7, <1>9 DEF Sits, SameGen
<1>13. Wakes(p, q, k, R)
  BY <1>9, <1>10, <1>11, <1>12 DEF Wakes
<1> QED
  BY <1>13 DEF q

\* Whatever is done to the generation: rows wait only where they did.
Rests(p, q, R) ==
  /\ Tidy(q, R)
  /\ \A r \in Turns : /\ Quiet(p, r) => Quiet(q, r)
                      /\ \A n \in Nat : Upto(p, r, n) => Upto(q, r, n)

LEMMA QuietsRests ==
  ASSUME NEW R, NEW p, NEW q, Quiets(p, q, R)
  PROVE  Rests(p, q, R)
BY DEF Quiets, Rests

LEMMA RestsTwice ==
  ASSUME NEW R, NEW o, NEW p, NEW q, Rests(o, p, R), Rests(p, q, R)
  PROVE  Rests(o, q, R)
BY DEF Rests

LEMMA OverRests ==
  ASSUME NEW R, NEW p, Tidy(p, R)
  PROVE  LET q == [p EXCEPT !.gen = NoGen]
         IN  Rests(p, q, R) /\ q.gen = NoGen /\ q.rows = p.rows
<1> DEFINE q == [p EXCEPT !.gen = NoGen]
<1>1. Whole(q) /\ q.gen = NoGen /\ q.rows = p.rows
  BY DEF Tidy, Whole, NoGen
<1> HIDE DEF q
<1>2. Tidy(q, R)
  BY <1>1 DEF Tidy, Rowed, Numbered
<1>3. \A r \in Turns : r # q.gen.req
  BY <1>1, TurnsAreNamed DEF NoGen
<1>4. Rests(p, q, R)
  BY <1>1, <1>2, <1>3 DEF Rests, Quiet, Calm, Upto
<1> QED
  BY <1>1, <1>4 DEF q

LEMMA FinalRests ==
  ASSUME NEW R, NEW p, Tidy(p, R), NEW r
  PROVE  Rests(p, Final(p, r), R)
<1> DEFINE o == [p EXCEPT !.gen = NoGen]
           q == PrunedFor(o, turn[r].chat)
<1>1. Rests(p, o, R)
  BY OverRests
<1> HIDE DEF o
<1>2. Rests(p, q, R)
  BY <1>1, PrunedForQuiets, QuietsRests, RestsTwice DEF Rests
<1> HIDE DEF q
<1>3. Rests(p, p, R)
  BY DEF Rests
<1> QED
  BY <1>2, <1>3 DEF Final, q, o

LEMMA StoppedRests ==
  ASSUME NEW R, NEW p, Tidy(p, R), Sound(p), p.gen # NoGen
  PROVE  LET q == Stopped(p)
         IN  Rests(p, q, R) /\ q.gen = NoGen /\ (Hers(p) => Quiet(q, p.gen.req))
<1> DEFINE off == [p EXCEPT !.gen = NoGen]
           g == p.gen
           text == IF g.text = Blank THEN StoppedLabel ELSE g.text
           mine == SelectSeq(p.rows, LAMBDA x : x.key = g.row)
           named == mine # <<>> /\ Head(mine).id # None
           m == Msg(StopId(g.req), "assistant", text)
           shown == Show(off, g.row, text, FALSE)
           stored == Persist(shown, g.chat, m)
           kept == Named0(stored, g.row, StopId(g.req))
           at == {i \in DOMAIN off.rows : off.rows[i].key = g.row}
           left == Removed(off.rows, at)
           gone == [off EXCEPT !.rows = left]
           q == IF g.shown = Blank THEN gone
                ELSE IF named THEN shown ELSE kept
<1>1. Rests(p, off, R) /\ off.gen = NoGen /\ off.rows = p.rows
  BY OverRests
<1>2. Sound(off)
  BY AlikeOver, TellsNothing DEF Sound
<1>3. g.req \in Turns
  BY DEF Tidy, Numbered
<1>4. MsgRecord(m)
  BY <1>3, IdsAreOwn, MsgMade DEF OwnIds
<1>5. Stopped(p) = PrunedFor(q, g.chat)
  BY DEF Stopped
\* What is left when the row goes, or shows what it showed.
<1> DEFINE Ends(o) == Quiets(off, o, R) /\ (Hers(p) => Calm(o, g.req))
<1> HIDE DEF off, text, m, named
<1>6. Tidy(off, R)
  BY <1>1 DEF Rests
<1>7. Hers(p) => Only(off, g.req, g.row)
  BY <1>1 DEF Hers, Only
<1>8. Ends(gone)
  <2>1. Whole(gone) /\ gone.gen = off.gen /\ gone.rows = left
    BY <1>6 DEF Tidy, Whole
  <2>2. IsList(off.rows)
    BY <1>6 DEF Tidy, Rowed
  <2>3. IsList(left) /\ Elements(left) \subseteq {off.rows[i] : i \in DOMAIN off.rows \ at}
    <3> HIDE DEF at
    <3> QED
      BY <2>2, RowsLeft
  <2>4. \A x \in Elements(left) : x \in Elements(off.rows) /\ x.key # g.row
    BY <2>3 DEF Elements
  <2> HIDE DEF gone, left
  <2>5. Quiets(off, gone, R)
    BY <1>6, <2>1, <2>3, <2>4, RedrawnQuiets
  <2>6. Hers(p) => Calm(gone, g.req)
    BY <1>7, <2>1, <2>4 DEF Only, Calm
  <2> QED
    BY <2>5, <2>6
<1>9. Ends(shown)
  BY <1>6, <1>7, ShowQuiets
<1>10. Sound(shown)
  BY <1>2, AlikeShow, TellsNothing DEF Sound
<1> HIDE DEF gone, left, at
<1>11. ASSUME NEW a, NEW b, Ends(a), Quiets(a, b, R) PROVE Ends(b)
  <2>1. Quiets(off, b, R)
    BY <1>11, QuietsTwice
  <2>2. a.gen = NoGen
    BY <1>1, <1>11 DEF Quiets
  <2>3. a.gen.req # g.req
    BY <1>3, <2>2, TurnsAreNamed DEF NoGen
  <2>4. Calm(a, g.req) => Calm(b, g.req)
    BY <1>3, <1>11, <2>3 DEF Quiets, Quiet
  <2> QED
    BY <1>11, <2>1, <2>4
<1> HIDE DEF shown
<1>12. Ends(stored)
  BY <1>4, <1>9, <1>10, <1>11, PersistQuiets DEF Quiets
<1> HIDE DEF stored
<1>13. Ends(kept)
  BY <1>11, <1>12, Named0Quiets DEF Quiets
<1> HIDE DEF kept
<1>14. Ends(q)
  BY <1>8, <1>9, <1>13
<1> HIDE DEF q
<1>15. Ends(Stopped(p))
  BY <1>5, <1>11, <1>14, PrunedForQuiets DEF Quiets
<1> HIDE DEF g
<1>16. Rests(p, Stopped(p), R)
  BY <1>1, <1>15, QuietsRests, RestsTwice
<1>17. Stopped(p).gen = NoGen
  BY <1>1, <1>15 DEF Quiets
<1>18. Hers(p) => Quiet(Stopped(p), g.req)
  BY <1>3, <1>15, <1>17, TurnsAreNamed DEF Quiet, NoGen
<1> QED
  BY <1>16, <1>17, <1>18 DEF g

--------------------------------------------------------------------------------
(* What the steps of a turn make of the rows.                              *)

\* Page q is page p, but for the rows of the turns of S: those of U are numbered on.
Spares(p, q, S, U, R) ==
  /\ Tidy(q, R)
  /\ \A o \in Turns \ S : Quiet(p, o) => Quiet(q, o)
  /\ \A o \in Turns \ U : \A n \in Nat : Upto(p, o, n) => Upto(q, o, n)

LEMMA SparesTwice ==
  ASSUME NEW S, NEW U, NEW R, NEW o, NEW p, NEW q, Spares(o, p, S, U, R), Spares(p, q, S, U, R)
  PROVE  Spares(o, q, S, U, R)
BY DEF Spares

LEMMA RestsSpares ==
  ASSUME NEW S, NEW U, NEW R, NEW p, NEW q, Rests(p, q, R)
  PROVE  Spares(p, q, S, U, R)
BY DEF Spares, Rests

LEMMA QuietsSpares ==
  ASSUME NEW S, NEW U, NEW R, NEW p, NEW q, Quiets(p, q, R)
  PROVE  Spares(p, q, S, U, R)
BY QuietsRests, RestsSpares

LEMMA WakesSpares ==
  ASSUME NEW S, NEW U, NEW R, NEW p, NEW q, NEW k, Wakes(p, q, k, R), k[1] \in S \cup {None}
  PROVE  Spares(p, q, S, U, R)
BY TurnsAreNamed DEF Spares, Wakes

\* The rows of submitted turn r wait as they should: only the generation's, which
\* is the turn's, may.
Held(p, r, row) ==
  /\ p.gen.req = r /\ Hers(p)
  /\ row = NoRow \/ (row \in {r} \X Int /\ Sits(p, row))

LEMMA QuietsHold ==
  ASSUME NEW R, NEW p, NEW q, Quiets(p, q, R), NEW r \in Turns, NEW row, Held(p, r, row)
  PROVE  Held(q, r, row)
<1>1. p.gen # NoGen
  BY TurnsAreNamed DEF Held, NoGen
<1> QED
  BY <1>1 DEF Held, Quiets

\* The generation takes a text, if it is the turn's own.
LEMMA TextSpares ==
  ASSUME NEW R, NEW p, Tidy(p, R), NEW r \in Turns, NEW text, NEW S, r \in S, NEW U
  PROVE  LET q == IF Owns(p, r) THEN [p EXCEPT !.gen.text = text] ELSE p
         IN  /\ Spares(p, q, S, U, R) /\ q.rows = p.rows /\ q.store = p.store
             /\ q.gen.req = p.gen.req /\ q.gen.row = p.gen.row
             /\ p.gen.req = r => q.gen.text = text
             /\ p.gen = NoGen => q = p
             /\ \A row : Held(p, r, row) => Held(q, r, row)
<1> DEFINE z == [p EXCEPT !.gen.text = text]
           q == IF Owns(p, r) THEN z ELSE p
<1>1. /\ Whole(z) /\ z.rows = p.rows /\ z.store = p.store
      /\ z.gen.req = p.gen.req /\ z.gen.row = p.gen.row /\ z.gen.made = p.gen.made
      /\ z.gen.text = text
  BY DEF Tidy, Whole
<1> HIDE DEF z
<1>2. r # None
  BY TurnsAreNamed
<1>3. p.gen = NoGen => p.gen.req # r
  BY <1>2 DEF NoGen
<1>4. Owns(p, r) <=> p.gen.req = r
  BY DEF Owns
<1>5. /\ Whole(q) /\ q.rows = p.rows /\ q.store = p.store
      /\ q.gen.req = p.gen.req /\ q.gen.row = p.gen.row /\ q.gen.made = p.gen.made
      /\ p.gen.req = r => q.gen.text = text
      /\ p.gen.req # r => q = p
  BY <1>1, <1>4 DEF Tidy
<1> HIDE DEF q
<1>6. p.gen = NoGen => q = p
  BY <1>3, <1>5
<1>7. Tidy(q, R)
  BY <1>2, <1>5, <1>6 DEF Tidy, Rowed, Numbered
<1>8. \A o \in Turns \ S : Quiet(p, o) => Quiet(q, o)
  BY <1>5 DEF Quiet, Calm
<1>9. \A o \in Turns : \A n \in Nat : Upto(p, o, n) => Upto(q, o, n)
  BY <1>5 DEF Upto
<1>10. \A row : Held(p, r, row) => Held(q, r, row)
  BY <1>5 DEF Held, Hers, Only, Sits
<1> QED
  BY <1>5, <1>6, <1>7, <1>8, <1>9, <1>10 DEF Spares, q, z

LEMMA LookedQuiets ==
  ASSUME NEW R, NEW p, Tidy(p, R), NEW r
  PROVE  Quiets(p, Looked(p, r), R)
BY RecoverQuiets, QuietsItself DEF Looked

\* The turns that may find a row of theirs, or of another's, where they look.
Seated(t, S) == t.row = NoRow \/ t.row \in S \X Int

LEMMA RowIsSeated ==
  ASSUME NEW R, NEW p, Tidy(p, R), NEW r \in Turns, NEW S \in SUBSET Turns,
         p.gen # NoGen => p.gen.req \in S, Seated(turn[r], S)
  PROVE  RowOf(p, r) = NoRow \/ RowOf(p, r) \in S \X Int
<1>1. p.gen # NoGen => p.gen.row \in S \X Int
  BY DEF Tidy, Numbered
<1> QED
  BY <1>1 DEF RowOf, Resolved, Seated, NoRow

LEMMA SeatedIsNamed ==
  ASSUME NEW S \in SUBSET Turns, NEW k, k = NoRow \/ k \in S \X Int
  PROVE  (k[1] # None \/ k = NoRow) /\ k[1] \in S \cup {None}
BY TurnsAreNamed DEF NoRow

\* A submitted turn looks for the row of its generation.
LEMMA HeldResolves ==
  ASSUME NEW p, NEW r \in Turns, Held(p, r, turn[r].row)
  PROVE  /\ Resolved(p, r) \in {NoRow, p.gen.row}
         /\ Only(p, r, Resolved(p, r))
<1>1. p.gen # NoGen /\ p.gen.req = r
  BY TurnsAreNamed DEF Held, NoGen
<1>2. \A k : Attached(p.rows, k) <=> \E x \in Elements(p.rows) : x.key = k
  BY DEF Attached, Elements
<1>3. CASE Attached(p.rows, p.gen.row)
  <2>1. Resolved(p, r) = p.gen.row
    BY <1>1, <1>3 DEF Resolved
  <2> QED
    BY <1>1, <2>1 DEF Held, Hers
<1>4. CASE ~Attached(p.rows, p.gen.row)
  <2>1. Resolved(p, r) = IF Attached(p.rows, turn[r].row) THEN turn[r].row ELSE NoRow
    BY <1>4 DEF Resolved, NoRow
  <2>2. Attached(p.rows, turn[r].row) => turn[r].row = NoRow
    BY <1>2, <1>4 DEF Held, Sits
  <2>3. \A x \in Elements(p.rows) : x.key # p.gen.row
    BY <1>2, <1>4
  <2> QED
    BY <1>1, <2>1, <2>2, <2>3 DEF Held, Hers, Only
<1> QED
  BY <1>3, <1>4

\* Without a generation it looks for its own.
LEMMA LeftResolves ==
  ASSUME NEW p, NEW r \in Turns, p.gen = NoGen, Only(p, r, turn[r].row)
  PROVE  Only(p, r, Resolved(p, r))
<1>1. Attached(p.rows, turn[r].row) <=> \E x \in Elements(p.rows) : x.key = turn[r].row
  BY DEF Attached, Elements
<1>2. Resolved(p, r) = IF Attached(p.rows, turn[r].row) THEN turn[r].row ELSE NoRow
  BY DEF Resolved, NoRow
<1> QED
  BY <1>1, <1>2 DEF Only

LEMMA CalmIsOnly ==
  ASSUME NEW p, NEW r, NEW k
  PROVE  Calm(p, r) => Only(p, r, k)
BY DEF Calm, Only

\* A reply came: no row of the turn waits.
SpeaksFor(p, r, text) ==
  \/ Held(p, r, turn[r].row) /\ text # Blank
  \/ p.gen = NoGen /\ Only(p, r, turn[r].row)

LEMMA SpokenSpares ==
  ASSUME NEW R, NEW p, Tidy(p, R), Sound(p), NEW r \in Turns, NEW text, NEW title,
         NEW S, r \in S, NEW U
  PROVE  LET q == Spoken(p, r, text, title)
         IN  /\ Spares(p, q, S, U, R)
             /\ turn[r].kind = "send" /\ SpeaksFor(p, r, text) => Quiet(q, r)
<1> DEFINE c == turn[r].chat
           p1 == IF Owns(p, r) THEN [p EXCEPT !.gen.text = text] ELSE p
           p2 == IF title /\ c \in Ids(p1.store) THEN Renamed(p1, c) ELSE p1
           p3 == Looked(p2, r)
           q == Show(p3, RowOf(p3, r), text, FALSE)
<1>1. /\ Spares(p, p1, S, U, R) /\ p1.rows = p.rows
      /\ p.gen.req = r => p1.gen.text = text
      /\ p.gen = NoGen => p1 = p
      /\ \A row : Held(p, r, row) => Held(p1, r, row)
  BY TextSpares
<1>2. Alike(p, p1)
  BY AlikeWithText DEF Sound
<1>3. Sound(p1) /\ Tidy(p1, R)
  BY <1>1, <1>2, TellsNothing DEF Spares
<1> HIDE DEF p1
<1>4. Quiets(p1, p2, R)
  <2>1. c \in Ids(p1.store) => Tells(p1, Renamed(p1, c))
    BY <1>3, RenamedTells
  <2>2. c \in Ids(p1.store) => Listing(Renamed(p1, c).store)
    BY <2>1 DEF Tells, Sound
  <2> QED
    BY <1>3, <2>2, RenamedQuiets, QuietsItself
<1> HIDE DEF p2
<1>5. Quiets(p2, p3, R)
  BY <1>4, LookedQuiets DEF Quiets
<1> HIDE DEF p3
<1>6. Tidy(p3, R)
  BY <1>5 DEF Quiets
<1>7. /\ Quiets(p3, q, R)
      /\ \A o : Only(p3, o, RowOf(p3, r)) => Calm(q, o)
  BY <1>6, ShowQuiets
<1> HIDE DEF q
<1>8. Quiets(p1, p3, R) /\ Quiets(p1, q, R)
  BY <1>4, <1>5, <1>7, QuietsTwice
<1>9. Spares(p, q, S, U, R)
  BY <1>1, <1>8, QuietsSpares, SparesTwice
<1>10. ASSUME turn[r].kind = "send", SpeaksFor(p, r, text) PROVE Quiet(q, r)
  <2>1. RowOf(p3, r) = Resolved(p3, r)
    BY <1>10 DEF RowOf
  <2>2. CASE Held(p, r, turn[r].row) /\ text # Blank
    <3>1. Held(p1, r, turn[r].row) /\ p1.gen.text = text
      BY <1>1, <2>2 DEF Held
    <3>2. Held(p3, r, turn[r].row)
      BY <1>8, <3>1, QuietsHold
    <3>3. Calm(q, r)
      BY <1>7, <2>1, <3>2, HeldResolves
    <3>4. q.gen.text = text
      BY <1>8, <3>1 DEF Quiets
    <3> QED
      BY <2>2, <3>3, <3>4 DEF Quiet
  <2>3. CASE p.gen = NoGen /\ Only(p, r, turn[r].row)
    <3>1. p1.gen = NoGen /\ Only(p1, r, turn[r].row)
      BY <1>1, <2>3 DEF Only
    <3>2. p3.gen = NoGen /\ Only(p3, r, turn[r].row) /\ q.gen = NoGen
      BY <1>8, <3>1 DEF Quiets
    <3>3. Calm(q, r)
      BY <1>7, <2>1, <3>2, LeftResolves
    <3> QED
      BY <3>2, <3>3, TurnsAreNamed DEF Quiet, NoGen
  <2> QED
    BY <1>10, <2>2, <2>3 DEF SpeaksFor
<1> QED
  BY <1>9, <1>10 DEF Spoken, q, p3, p2, p1

LEMMA ContinuedQuiets ==
  ASSUME NEW R, NEW p, Tidy(p, R), NEW r, NEW text
  PROVE  Quiets(p, Continued(p, r, text), R)
<1>1. PICK s : Continued(p, r, text) = [p EXCEPT !.store = s]
  BY DEF Continued
<1> DEFINE q == [p EXCEPT !.store = s]
<1>2. Whole(q) /\ q.gen = p.gen /\ q.rows = p.rows
  BY DEF Tidy, Whole
<1> HIDE DEF q
<1>3. Quiets(p, q, R)
  BY <1>2, SameRowsQuiets
<1> QED
  BY <1>1, <1>3 DEF q

LEMMA RepliedQuiets ==
  ASSUME NEW R, NEW p, Tidy(p, R), Sound(p), NEW r \in Turns, NEW text
  PROVE  Quiets(p, Replied(p, r, text), R)
<1> DEFINE c == turn[r].chat
           m == Msg(ReplyId(r), "assistant", text)
           o == Persist(p, c, m)
           z == Named0(o, RowOf(p, r), ReplyId(r))
           kept == IF text = Blank \/ p.store = <<>> THEN p ELSE z
<1>1. MsgRecord(m)
  BY IdsAreOwn, MsgMade DEF OwnIds
<1> HIDE DEF m
<1>2. Quiets(p, o, R)
  BY <1>1, PersistQuiets
<1> HIDE DEF o
<1>3. Quiets(o, z, R)
  BY <1>2, Named0Quiets DEF Quiets
<1> HIDE DEF z
<1>4. Quiets(p, kept, R)
  BY <1>2, <1>3, QuietsTwice, QuietsItself
<1> HIDE DEF kept
<1>5. Quiets(kept, PrunedFor(kept, c), R)
  BY <1>4, PrunedForQuiets DEF Quiets
<1>6. Quiets(p, PrunedFor(kept, c), R)
  BY <1>4, <1>5, QuietsTwice
<1> QED
  BY <1>6 DEF Replied, kept, z, o, m, c

\* The name of the generation's row after it was recovered does not depend on the
\* texts.
LEMMA RecoverNames ==
  ASSUME NEW p, Whole(p)
  PROVE  Recover(p).gen.row =
           IF p.gen = NoGen \/ Attached(p.rows, p.gen.row) \/ p.gen.chat # p.active
           THEN p.gen.row ELSE <<p.gen.req, -(p.gen.made + 1)>>
<1> DEFINE there == p.gen = NoGen \/ Attached(p.rows, p.gen.row) \/ p.gen.chat # p.active
           key == <<p.gen.req, -(p.gen.made + 1)>>
           q == Recover(p)
<1>1. CASE there
  BY <1>1 DEF Recover
<1>2. CASE ~there
  <2>1. PICK shown, made, rs :
          q = [p EXCEPT !.gen.row = key, !.gen.made = made, !.gen.shown = shown, !.rows = rs]
    BY <1>2 DEF Recover
  <2> HIDE DEF key, q
  <2>2. q.gen.row = key
    BY <2>1 DEF Whole
  <2> QED
    BY <1>2, <2>2 DEF key, q
<1> QED
  BY <1>1, <1>2

LEMMA RecoverNamesAlike ==
  ASSUME NEW R, NEW p, Tidy(p, R), NEW r \in Turns, NEW text
  PROVE  LET q == IF Owns(p, r) THEN [p EXCEPT !.gen.text = text] ELSE p
         IN  Recover(q).gen.row = Recover(p).gen.row
<1> DEFINE z == [p EXCEPT !.gen.text = text]
<1>1. CASE ~Owns(p, r)
  BY <1>1
<1>2. CASE Owns(p, r)
  <2>1. /\ Whole(p) /\ Whole(z) /\ z.rows = p.rows /\ z.active = p.active
        /\ z.gen.req = p.gen.req /\ z.gen.chat = p.gen.chat /\ z.gen.row = p.gen.row
        /\ z.gen.made = p.gen.made
    BY DEF Tidy, Whole
  <2> HIDE DEF z
  <2>2. p.gen # NoGen /\ z.gen # NoGen
    BY <1>2, <2>1, TurnsAreNamed DEF Owns, NoGen
  <2>3. Recover(z).gen.row = Recover(p).gen.row
    BY <2>1, <2>2, RecoverNames
  <2> QED
    BY <1>2, <2>3 DEF z
<1> QED
  BY <1>1, <1>2

\* What a row of turn r shows or waits for.
LEMMA HeldWakes ==
  ASSUME NEW R, NEW p, NEW q, NEW r \in Turns, NEW row, Held(p, r, row),
         NEW k, k \in {NoRow, p.gen.row}, Wakes(p, q, k, R)
  PROVE  Held(q, r, row) /\ q.gen.row = p.gen.row
BY DEF Wakes, Held, SameGen

\* Of the row that turn r found.
LEMMA FoundIsHeld ==
  ASSUME NEW R, NEW p, Tidy(p, R), NEW r \in Turns, NEW row, Held(p, r, row),
         NEW k \in {NoRow, p.gen.row}
  PROVE  Held(p, r, k)
<1>1. p.gen # NoGen
  BY TurnsAreNamed DEF Held, NoGen
<1>2. p.gen.row \in {r} \X Int
  BY <1>1 DEF Held, Tidy, Numbered
<1> QED
  BY <1>2 DEF Held, Sits

LEMMA HeardSpares ==
  ASSUME NEW R, NEW p, Tidy(p, R), NEW r \in Turns, NEW said, NEW S \in SUBSET Turns, r \in S,
         p.gen # NoGen => p.gen.req \in S, Seated(turn[r], S), NEW U
  PROVE  LET q == Heard(p, r, said)
             u == RowOf(Looked(p, r), r)
         IN  /\ Spares(p, q, S, U, R)
             /\ u = NoRow \/ u \in S \X Int
             /\ turn[r].kind = "send" /\ Held(p, r, turn[r].row)
                  => Held(q, r, turn[r].row) /\ Held(q, r, u)
             /\ turn[r].kind = "send" /\ p.gen = NoGen /\ Quiet(p, r)
                  => Only(q, r, turn[r].row)
<1> DEFINE text == Said(r, turn[r].frozen, said)
           o == IF Owns(p, r) THEN [p EXCEPT !.gen.text = text] ELSE p
           p1 == Looked(o, r)
           k == RowOf(p1, r)
           q == Show(p1, k, text, text = Blank)
           u == RowOf(Looked(p, r), r)
<1>1. /\ Spares(p, o, S, U, R) /\ o.gen.req = p.gen.req
      /\ p.gen = NoGen => o = p
      /\ \A row : Held(p, r, row) => Held(o, r, row)
  BY TextSpares
<1>2. Recover(o).gen.row = Recover(p).gen.row
  BY RecoverNamesAlike
<1> HIDE DEF text, o
<1>3. Tidy(o, R) /\ Quiets(o, p1, R) /\ Quiets(p, Looked(p, r), R)
  BY <1>1, LookedQuiets DEF Spares
<1>4. Tidy(p1, R) /\ Tidy(Looked(p, r), R)
  BY <1>3 DEF Quiets
<1>5. /\ p1.gen # NoGen => p1.gen.req \in S
      /\ Looked(p, r).gen # NoGen => Looked(p, r).gen.req \in S
  <2>1. \A x : x \in S => x # None
    BY TurnsAreNamed
  <2>2. p.gen = NoGen => o.gen = NoGen
    BY <1>1
  <2> QED
    BY <1>1, <1>3, <2>2 DEF Quiets
<1>6. k = NoRow \/ k \in S \X Int
  BY <1>4, <1>5, RowIsSeated
<1>7. u = NoRow \/ u \in S \X Int
  BY <1>4, <1>5, RowIsSeated
<1>8. (k[1] # None \/ k = NoRow) /\ k[1] \in S \cup {None}
  <2> HIDE DEF k
  <2> QED
    BY <1>6, SeatedIsNamed
<1>9. Wakes(p1, q, k, R)
  <2> HIDE DEF k, p1
  <2> QED
    BY <1>4, <1>8, ShowWakes
<1>10. Spares(p, q, S, U, R)
  <2>1. Spares(o, p1, S, U, R)
    BY <1>3, QuietsSpares
  <2>2. Spares(p1, q, S, U, R)
    <3> HIDE DEF k, p1, q
    <3> QED
      BY <1>8, <1>9, WakesSpares
  <2> HIDE DEF q, p1
  <2> QED
    BY <1>1, <2>1, <2>2, SparesTwice
<1>11. ASSUME turn[r].kind = "send", Held(p, r, turn[r].row)
       PROVE  Held(q, r, turn[r].row) /\ Held(q, r, u)
  <2>1. Held(p1, r, turn[r].row) /\ Held(Looked(p, r), r, turn[r].row)
    BY <1>1, <1>3, <1>11, QuietsHold
  <2>2. k \in {NoRow, p1.gen.row}
    BY <1>11, <2>1, HeldResolves DEF RowOf
  <2>3. Held(q, r, turn[r].row) /\ q.gen.row = p1.gen.row
    <3> HIDE DEF k, p1, q
    <3> QED
      BY <1>9, <2>1, <2>2, HeldWakes
  <2>4. u \in {NoRow, Looked(p, r).gen.row}
    BY <1>11, <2>1, HeldResolves DEF RowOf
  <2>5. Looked(p, r).gen.row = p1.gen.row
    BY <1>2, <1>11 DEF Looked
  <2>6. Tidy(q, R)
    BY <1>10 DEF Spares
  <2> HIDE DEF k, p1, q, u
  <2>7. Held(q, r, u)
    BY <2>3, <2>4, <2>5, <2>6, FoundIsHeld
  <2> QED
    BY <2>3, <2>7
<1>12. ASSUME turn[r].kind = "send", p.gen = NoGen, Quiet(p, r)
       PROVE  Only(q, r, turn[r].row)
  <2>1. Quiet(p1, r) /\ p1.gen = NoGen
    BY <1>1, <1>3, <1>12 DEF Quiets
  <2>2. k \in {NoRow, turn[r].row}
    BY <1>12, <2>1 DEF RowOf, Resolved, NoRow
  <2> HIDE DEF k, p1, q
  <2>3. CASE k = turn[r].row
    <3>1. Only(p1, r, k)
      BY <2>1, CalmIsOnly DEF Quiet
    <3> QED
      BY <1>9, <2>3, <3>1 DEF Wakes
  <2>4. CASE k = NoRow
    <3>1. k[1] # r
      BY <2>4, TurnsAreNamed DEF NoRow
    <3>2. Quiet(q, r)
      BY <1>9, <2>1, <3>1 DEF Wakes
    <3> QED
      BY <3>2, CalmIsOnly DEF Quiet
  <2> QED
    BY <2>2, <2>3, <2>4
<1> QED
  BY <1>7, <1>10, <1>11, <1>12 DEF Heard, q, k, p1, o, text, u

\* The reply is asked for once more: its row is emptied.
LEMMA EmptiedSpares ==
  ASSUME NEW R, NEW o, Tidy(o, R), NEW r \in Turns, turn[r].kind = "send",
         NEW S \in SUBSET Turns, r \in S,
         o.gen # NoGen => o.gen.req \in S, Seated(turn[r], S), NEW U
  PROVE  LET p == Recover(o)
             q == Show(p, Resolved(p, r), Blank, TRUE)
         IN  /\ Spares(o, q, S, U, R)
             /\ Held(o, r, turn[r].row) => Held(q, r, turn[r].row)
<1> DEFINE p == Recover(o)
           k == Resolved(p, r)
           q == Show(p, k, Blank, TRUE)
<1>1. Quiets(o, p, R)
  BY RecoverQuiets
<1>2. Tidy(p, R) /\ (p.gen # NoGen => p.gen.req \in S)
  BY <1>1 DEF Quiets
<1>3. k = NoRow \/ k \in S \X Int
  BY <1>2, RowIsSeated DEF RowOf
<1>4. (k[1] # None \/ k = NoRow) /\ k[1] \in S \cup {None}
  <2> HIDE DEF k
  <2> QED
    BY <1>3, SeatedIsNamed
<1>5. Wakes(p, q, k, R)
  <2> HIDE DEF k, p
  <2> QED
    BY <1>2, <1>4, ShowWakes
<1>6. Held(o, r, turn[r].row) => Held(p, r, turn[r].row)
  BY <1>1, QuietsHold
<1> HIDE DEF p, q
<1>7. Held(p, r, turn[r].row) => k \in {NoRow, p.gen.row}
  BY HeldResolves
<1> HIDE DEF k
<1>8. Held(p, r, turn[r].row) => Held(q, r, turn[r].row)
  BY <1>5, <1>7, HeldWakes
<1>9. Spares(o, q, S, U, R)
  BY <1>1, <1>4, <1>5, QuietsSpares, WakesSpares, SparesTwice
<1> QED
  BY <1>6, <1>8, <1>9 DEF p, q, k

LEMMA TidyMore ==
  ASSUME NEW R, NEW p, Tidy(p, R), NEW T \in SUBSET Turns, R \subseteq T
  PROVE  Tidy(p, T)
BY DEF Tidy, Rowed, Numbered

\* Page q is page p with a row named k at its end, which waits.
Longer(p, q, k) ==
  /\ Whole(q) /\ IsList(q.rows)
  /\ \E x : /\ RowRecord(x) /\ x.key = k
            /\ Elements(q.rows) = Elements(p.rows) \cup {x}

LEMMA AddLengthens ==
  ASSUME NEW R, NEW p, Tidy(p, R), NEW k \in Int \X Int, NEW chat, NEW m
  PROVE  LET q == Add(p, k, chat, m, TRUE)
         IN  Longer(p, q, k) /\ q.gen = p.gen
<1> DEFINE q == Add(p, k, chat, m, TRUE)
           x == Row(k, chat, m, TRUE)
<1>1. Whole(q) /\ q.gen = p.gen /\ q.rows = Append(p.rows, x)
  BY DEF Tidy, Whole, Add
<1>2. RowRecord(x) /\ x.key = k
  BY DEF RowRecord, Row
<1> HIDE DEF q, x
<1>3. IsList(q.rows) /\ Elements(q.rows) = Elements(p.rows) \cup {x}
  BY <1>1, AppendedList DEF Tidy, Rowed
<1>4. Longer(p, q, k)
  BY <1>1, <1>2, <1>3 DEF Longer
<1> QED
  BY <1>1, <1>4 DEF q

\* A row whose name is new is added for a turn.
LEMMA LongerRowed ==
  ASSUME NEW R, NEW p, Tidy(p, R), NEW r \in R, NEW k, k[1] = r,
         \A y \in Elements(p.rows) : y.key # k, NEW q, Longer(p, q, k)
  PROVE  Rowed(q, R)
<1>1. PICK x : RowRecord(x) /\ x.key = k /\ Elements(q.rows) = Elements(p.rows) \cup {x}
  BY DEF Longer
<1>2. r # None
  BY TurnsAreNamed DEF Tidy
<1>3. ASSUME NEW y \in Elements(q.rows), NEW z \in Elements(q.rows), y.key = z.key
      PROVE  y.wait = z.wait
  BY <1>1, <1>3 DEF Tidy, Rowed
<1>4. ASSUME NEW y \in Elements(q.rows)
      PROVE  RowRecord(y) /\ y.key[1] \in R \cup {None} /\ (y.key[1] = None => DrawnRow(y))
  <2>1. CASE y = x
    BY <1>1, <1>2, <2>1
  <2>2. CASE y \in Elements(p.rows)
    BY <2>2 DEF Tidy, Rowed
  <2> QED
    BY <1>1, <2>1, <2>2
<1> QED
  BY <1>3, <1>4 DEF Rowed, Longer

LEMMA FrozenSpares ==
  ASSUME NEW R, NEW p, Tidy(p, R), NEW r \in Turns, r \in R, NEW n \in Nat, Upto(p, r, n),
         NEW S, r \in S
  PROVE  LET key == <<r, n + 1>>
             q == Frozen(p, r, key)
         IN  /\ Spares(p, q, S, {r}, R) /\ Upto(q, r, n + 1)
             /\ Held(p, r, turn[r].row) => Held(q, r, key)
<1> DEFINE key == <<r, n + 1>>
           m == Msg(None, "assistant", Blank)
           a == Show(p, Resolved(p, r), Reply1(r), FALSE)
           b == Add(a, key, turn[r].chat, m, TRUE)
           c == [b EXCEPT !.gen.row = key, !.gen.text = Blank, !.gen.shown = Blank]
           q == IF ~Owns(b, r) THEN b ELSE c
<1>1. r # None /\ r \in Int
  BY TurnsAreNamed, TurnsAreNumbers
<1>2. key \in Int \X Int /\ key[1] = r /\ key[2] = n + 1 /\ key \in {r} \X Int
  BY <1>1
<1>3. Quiets(p, a, R) /\ \A o : Only(p, o, Resolved(p, r)) => Calm(a, o)
  BY ShowQuiets
<1> HIDE DEF a, key
<1>4. Tidy(a, R) /\ Upto(a, r, n)
  BY <1>3 DEF Quiets
<1>5. Longer(a, b, key) /\ b.gen = a.gen
  BY <1>2, <1>4, AddLengthens
<1> HIDE DEF b
<1>6. \A y \in Elements(a.rows) : y.key # key
  BY <1>2, <1>4 DEF Upto
<1>7. Rowed(b, R)
  BY <1>2, <1>4, <1>5, <1>6, LongerRowed
<1>8. PICK x : x.key = key /\ Elements(b.rows) = Elements(a.rows) \cup {x}
  BY <1>5 DEF Longer
<1>9. Tidy(b, R)
  <2>1. Numbered(b, R)
    <3> SUFFICES ASSUME b.gen # NoGen
                 PROVE  \A y \in Elements(b.rows) : y.key[1] = b.gen.req => y.key[2] >= -b.gen.made
      BY <1>4, <1>5 DEF Numbered, Tidy
    <3>1. b.gen.made \in Nat
      BY <1>4, <1>5 DEF Tidy, Numbered
    <3>2. ASSUME NEW y \in Elements(b.rows), y.key[1] = b.gen.req PROVE y.key[2] >= -b.gen.made
      <4>1. CASE y = x
        BY <1>2, <1>8, <3>1, <4>1
      <4>2. CASE y \in Elements(a.rows)
        BY <1>4, <1>5, <3>2, <4>2 DEF Tidy, Numbered
      <4> QED
        BY <1>8, <4>1, <4>2
    <3> QED
      BY <3>2
  <2> QED
    BY <1>4, <1>5, <1>7, <2>1 DEF Tidy, Longer
\* Of the page whose generation is moved to the new row.
<1>10. /\ Whole(c) /\ c.rows = b.rows /\ c.gen.req = b.gen.req /\ c.gen.made = b.gen.made
       /\ c.gen.row = key
  BY <1>9 DEF Tidy, Whole
<1> HIDE DEF c
<1>11. Owns(b, r) => b.gen # NoGen
  BY <1>1 DEF Owns, NoGen
<1>12. Tidy(q, R) /\ q.rows = b.rows /\ q.gen.req = a.gen.req
  <2>1. CASE ~Owns(b, r)
    BY <1>5, <1>9, <2>1
  <2>2. CASE Owns(b, r)
    <3>1. Rowed(c, R)
      BY <1>7, <1>10 DEF Rowed
    <3>2. Numbered(c, R)
      BY <1>2, <1>9, <1>10, <1>11, <2>2 DEF Numbered, Tidy, Owns
    <3> QED
      BY <1>4, <1>5, <1>10, <2>2, <3>1, <3>2 DEF Tidy
  <2> QED
    BY <2>1, <2>2
<1>13. \A o \in Turns : o # r /\ Quiet(a, o) => Quiet(q, o)
  <2>1. ASSUME NEW o \in Turns, o # r, Quiet(a, o) PROVE Quiet(q, o)
    <3>1. q.gen.req = o => q.gen.text = a.gen.text
      BY <1>5, <1>10, <2>1 DEF Owns
    <3>2. Calm(q, o)
      BY <1>2, <1>8, <1>12, <2>1 DEF Quiet, Calm
    <3> QED
      BY <1>12, <2>1, <3>1, <3>2 DEF Quiet
  <2> QED
    BY <2>1
<1>14. \A o \in Turns : o # r => \A i \in Nat : Upto(a, o, i) => Upto(q, o, i)
  BY <1>2, <1>8, <1>12 DEF Upto
<1>15. Upto(q, r, n + 1)
  <2>1. \A y \in Elements(a.rows) : y.key[1] = r => y.key[2] \in Int
    BY <1>4 DEF Tidy, Rowed, RowRecord
  <2>2. \A y \in Elements(a.rows) : y.key[1] = r => y.key[2] <= n + 1
    BY <1>4, <2>1 DEF Upto
  <2> QED
    BY <1>2, <1>8, <1>12, <2>2 DEF Upto
<1>16. ASSUME Held(p, r, turn[r].row) PROVE Held(q, r, key)
  <2>1. Only(p, r, Resolved(p, r))
    BY <1>16, HeldResolves
  <2>2. Calm(a, r)
    BY <1>3, <2>1
  <2>3. a.gen.req = r
    BY <1>3, <1>16 DEF Held, Quiets
  <2>4. q = c
    BY <1>5, <2>3 DEF Owns
  <2>5. \A y \in Elements(q.rows) : y.key[1] = r /\ y.wait => y.key = key
    BY <1>8, <1>12, <2>2 DEF Calm
  <2> HIDE DEF q
  <2> QED
    BY <1>2, <1>10, <1>12, <2>3, <2>4, <2>5 DEF Held, Hers, Only, Sits
<1>17. Spares(p, q, S, {r}, R)
  <2> HIDE DEF q
  <2> QED
    BY <1>3, <1>12, <1>13, <1>14 DEF Quiets, Spares
<1>18. q = Frozen(p, r, key)
  BY DEF Frozen, a, b, c
<1> HIDE DEF q
<1> QED
  BY <1>15, <1>16, <1>17, <1>18 DEF key

\* A turn of which no row is on the page.
Absent(p, r) == /\ p.gen.req # r
                /\ \A x \in Elements(p.rows) : x.key[1] # r

LEMMA AbsentIsQuiet ==
  ASSUME NEW p, NEW r, Absent(p, r)
  PROVE  Quiet(p, r) /\ \A n : Upto(p, r, n)
BY DEF Absent, Quiet, Calm, Upto

LEMMA AllowedSpares ==
  ASSUME NEW R, NEW p, Tidy(p, R), NEW r \in Turns, Absent(p, r), NEW c
  PROVE  LET q == [Add(p, <<r, 1>>, c, Msg(None, "assistant", Blank), TRUE)
                     EXCEPT !.gen = Generation(r, c, <<r, 1>>)]
         IN  Spares(p, q, {r}, {r}, R \cup {r}) /\ Upto(q, r, 1) /\ Held(q, r, <<r, 1>>)
<1> DEFINE key == <<r, 1>>
           m == Msg(None, "assistant", Blank)
           g == Generation(r, c, key)
           b == Add(p, key, c, m, TRUE)
           q == [b EXCEPT !.gen = g]
           T == R \cup {r}
<1>1. r # None /\ r \in Int
  BY TurnsAreNamed, TurnsAreNumbers
<1>2. key \in Int \X Int /\ key[1] = r /\ key[2] = 1 /\ key \in {r} \X Int
  BY <1>1
<1> HIDE DEF key, m
<1>3. Longer(p, b, key)
  BY <1>2, AddLengthens
<1>4. /\ g.req = r /\ g.row = key /\ g.made = 0
      /\ g \in [req : {g.req}, chat : {g.chat}, row : {g.row}, text : {g.text},
                shown : {g.shown}, made : {g.made}]
  BY DEF Generation, NoGen
<1> HIDE DEF b, g
<1>5. Whole(q) /\ q.gen = g /\ q.rows = b.rows
  BY <1>3, <1>4 DEF Longer, Whole
<1> HIDE DEF q
<1>6. Tidy(p, T) /\ T \subseteq Turns
  BY TidyMore DEF Tidy
<1>7. Rowed(b, T)
  <2>1. \A y \in Elements(p.rows) : y.key # key
    BY <1>2 DEF Absent
  <2> HIDE DEF T
  <2>2. r \in T
    BY DEF T
  <2> QED
    BY <1>2, <1>3, <1>6, <2>1, <2>2, LongerRowed
<1>8. PICK x : x.key = key /\ Elements(b.rows) = Elements(p.rows) \cup {x}
  BY <1>3 DEF Longer
<1>9. \A y \in Elements(q.rows) : y.key[1] = r => y.key = key
  BY <1>5, <1>8 DEF Absent
<1>10. Numbered(q, T)
  <2>1. q.gen.req = r /\ q.gen.made = 0 /\ q.gen.row = key
    BY <1>4, <1>5
  <2> QED
    BY <1>2, <1>9, <2>1 DEF Numbered
<1>11. Tidy(q, T)
  BY <1>5, <1>6, <1>7, <1>10 DEF Tidy, Rowed
<1>12. Spares(p, q, {r}, {r}, T)
  <2>1. ASSUME NEW o \in Turns, o # r
        PROVE  /\ Quiet(p, o) => Quiet(q, o)
               /\ \A n \in Nat : Upto(p, o, n) => Upto(q, o, n)
    <3>1. \A y \in Elements(q.rows) : y.key[1] = o => y \in Elements(p.rows)
      BY <1>2, <1>5, <1>8, <2>1
    <3>2. q.gen.req # o
      BY <1>4, <1>5, <2>1
    <3> QED
      BY <3>1, <3>2 DEF Quiet, Calm, Upto
  <2> QED
    BY <1>11, <2>1 DEF Spares
<1>13. Upto(q, r, 1)
  BY <1>2, <1>9 DEF Upto
<1>14. Held(q, r, key)
  BY <1>2, <1>4, <1>5, <1>9 DEF Held, Hers, Only, Sits
<1> QED
  BY <1>12, <1>13, <1>14 DEF q, b, g, m, key, T

\* A continuation takes a row over, and empties it.
LEMMA TakenOverSpares ==
  ASSUME NEW R, NEW p, Tidy(p, R), NEW r \in Turns, Absent(p, r), NEW c, NEW old
  PROVE  LET key == <<r, 1>>
             o == [p EXCEPT !.rows = Rekey(@, old, key), !.gen = Generation(r, c, key)]
             q == Recover(Show(o, key, Blank, TRUE))
         IN  Spares(p, q, {r}, {r}, R \cup {r}) /\ Upto(q, r, 1)
<1> DEFINE key == <<r, 1>>
           g == Generation(r, c, key)
           rs == Rekey(p.rows, old, key)
           o == [p EXCEPT !.rows = rs, !.gen = g]
           z == Show(o, key, Blank, TRUE)
           q == Recover(z)
           T == R \cup {r}
<1>1. r # None /\ r \in Int
  BY TurnsAreNamed, TurnsAreNumbers
<1>2. key \in Int \X Int /\ key[1] = r /\ key[2] = 1 /\ key \in {r} \X Int
  BY <1>1
<1> HIDE DEF key
<1>3. /\ IsList(rs)
      /\ \A x \in Elements(rs) : \E y \in Elements(p.rows) :
           RowRecord(x) /\ x.wait = y.wait /\ x.key = IF y.key = old THEN key ELSE y.key
  <2>1. IsList(p.rows) /\ \A x \in Elements(p.rows) : RowRecord(x)
    BY DEF Tidy, Rowed
  <2> QED
    BY <1>2, <2>1, RekeyedRows
<1>4. /\ g.req = r /\ g.row = key /\ g.made = 0
      /\ g \in [req : {g.req}, chat : {g.chat}, row : {g.row}, text : {g.text},
                shown : {g.shown}, made : {g.made}]
  BY DEF Generation, NoGen
<1> HIDE DEF g, rs
<1>5. Whole(o) /\ o.gen = g /\ o.rows = rs
  BY <1>4 DEF Tidy, Whole
<1> HIDE DEF o
<1>6. Tidy(p, T) /\ T \subseteq Turns
  BY TidyMore DEF Tidy
<1>7. \A y \in Elements(p.rows) : y.key # key
  BY <1>2 DEF Absent
<1>8. ASSUME NEW x \in Elements(o.rows)
      PROVE  RowRecord(x) /\ x.key[1] \in T \cup {None} /\ (x.key[1] = None => DrawnRow(x))
  <2>1. PICK y \in Elements(p.rows) :
          RowRecord(x) /\ x.wait = y.wait /\ x.key = IF y.key = old THEN key ELSE y.key
    BY <1>3, <1>5
  <2>2. y.key[1] \in T \cup {None} /\ (y.key[1] = None => DrawnRow(y))
    BY <1>6 DEF Tidy, Rowed
  <2>3. CASE x.key = key
    BY <1>1, <1>2, <2>1, <2>3
  <2>4. CASE x.key = y.key
    BY <2>1, <2>2, <2>4 DEF DrawnRow
  <2> QED
    BY <2>1, <2>3, <2>4
<1>9. ASSUME NEW x \in Elements(o.rows), NEW u \in Elements(o.rows), x.key = u.key
      PROVE  x.wait = u.wait
  <2>1. PICK y \in Elements(p.rows) : x.wait = y.wait /\ x.key = IF y.key = old THEN key ELSE y.key
    BY <1>3, <1>5
  <2>2. PICK v \in Elements(p.rows) : u.wait = v.wait /\ u.key = IF v.key = old THEN key ELSE v.key
    BY <1>3, <1>5
  <2>3. y.key = v.key
    BY <1>7, <1>9, <2>1, <2>2
  <2> QED
    BY <2>1, <2>2, <2>3 DEF Tidy, Rowed
<1>10. \A x \in Elements(o.rows) : x.key[1] = r => x.key = key
  BY <1>3, <1>5 DEF Absent
<1>11. Numbered(o, T)
  <2>1. o.gen.req = r /\ o.gen.made = 0 /\ o.gen.row = key
    BY <1>4, <1>5
  <2> QED
    BY <1>2, <1>10, <2>1 DEF Numbered
<1>12. Tidy(o, T)
  BY <1>3, <1>5, <1>6, <1>8, <1>9, <1>11 DEF Tidy, Rowed
<1>13. Spares(p, o, {r}, {r}, T)
  <2>1. ASSUME NEW i \in Turns, i # r
        PROVE  /\ Quiet(p, i) => Quiet(o, i)
               /\ \A n \in Nat : Upto(p, i, n) => Upto(o, i, n)
    <3>1. \A x \in Elements(o.rows) : x.key[1] = i =>
            \E y \in Elements(p.rows) : x.key = y.key /\ x.wait = y.wait
      BY <1>2, <1>3, <1>5, <2>1
    <3>2. o.gen.req # i
      BY <1>4, <1>5, <2>1
    <3> QED
      BY <3>1, <3>2 DEF Quiet, Calm, Upto
  <2> QED
    BY <1>12, <2>1 DEF Spares
<1>14. Upto(o, r, 1)
  BY <1>2, <1>10 DEF Upto
<1>15. Wakes(o, z, key, T)
  BY <1>1, <1>2, <1>12, ShowWakes
<1> HIDE DEF z
<1>16. Tidy(z, T) /\ Quiets(z, q, T)
  BY <1>15, RecoverQuiets DEF Wakes
<1> HIDE DEF q, T
<1>17. Spares(p, q, {r}, {r}, T)
  BY <1>2, <1>13, <1>15, <1>16, WakesSpares, QuietsSpares, SparesTwice
<1>18. Upto(q, r, 1)
  <2>1. 1 \in Nat
    OBVIOUS
  <2> QED
    BY <1>14, <1>15, <1>16, <2>1 DEF Wakes, Quiets
<1> QED
  BY <1>17, <1>18 DEF q, z, o, rs, g, key, T

\* The page on which a turn begins.
LEMMA EnsuredRests ==
  ASSUME NEW R, NEW p, Tidy(p, R), Sound(p)
  PROVE  Rests(p, Ensured(p), R)
<1>1. CASE p.active # None
  BY <1>1, QuietsItself, QuietsRests DEF Ensured
<1>2. CASE p.active = None
  <2> DEFINE o == [p EXCEPT !.store = <<Chat(p.seq + 1, "old", <<>>)>> \o @, !.seq = @ + 1]
             q == Activate(o, p.seq + 1, TRUE)
  <2>1. Ensured(p) = q
    BY <1>2 DEF Ensured
  <2>2. Whole(o) /\ o.gen = p.gen /\ o.rows = p.rows
    BY DEF Tidy, Whole
  <2>3. Listing(q.store)
    BY <2>1, EnsuredTells DEF Tells, Sound
  <2> HIDE DEF o
  <2>4. Quiets(p, q, R)
    BY <2>2, <2>3, ChangedQuiets
  <2> QED
    BY <2>1, <2>4, QuietsRests
<1> QED
  BY <1>1, <1>2

\* A message of a turn's is stored and shown.
Posted(p, c, m) == Recover(Add(Persist(p, c, m), <<None, m.id>>, c, m, FALSE))

LEMMA PostedRests ==
  ASSUME NEW R, NEW p, Tidy(p, R), Sound(p), NEW c, NEW m, MsgRecord(m)
  PROVE  Quiets(p, Posted(p, c, m), R)
<1> DEFINE o == Persist(p, c, m)
           z == Add(o, <<None, m.id>>, c, m, FALSE)
           q == Recover(z)
<1>1. Quiets(p, o, R)
  BY PersistQuiets
<1> HIDE DEF o
<1>2. Quiets(o, z, R)
  BY <1>1, AddQuiets DEF Quiets
<1> HIDE DEF z
<1>3. Quiets(z, q, R)
  BY <1>2, RecoverQuiets DEF Quiets
<1> HIDE DEF q
<1>4. Quiets(p, q, R)
  BY <1>1, <1>2, <1>3, QuietsTwice
<1> QED
  BY <1>4 DEF Posted, q, z, o

LEMMA ReadiedRests ==
  ASSUME TalksInv, NEW R, Tidy(Page, R)
  PROVE  Rests(Page, Readied, R) /\ Sound(Readied)
<1> DEFINE p == IF gen = NoGen THEN Page ELSE Stopped(Page)
           q == Ensured(p)
<1>1. Page.gen = gen /\ Sound(Page)
  BY DEF Page, TalksInv, ChatsInv
<1>2. gen # NoGen => gen.req \in Turns /\ turn[gen.req].chat = gen.chat
  BY DEF TalksInv, TurnsInv, GenRuns, Runs
<1>3. Sound(p)
  BY <1>1, <1>2, StoppedTells DEF Tells
<1>4. Rests(Page, p, R)
  <2>1. CASE gen = NoGen
    BY <2>1, QuietsItself, QuietsRests
  <2>2. CASE gen # NoGen
    <3>1. Rests(Page, Stopped(Page), R)
      BY <1>1, <2>2, StoppedRests
    <3> QED
      BY <2>2, <3>1
  <2> QED
    BY <2>1, <2>2
<1> HIDE DEF p
<1>5. Rests(p, q, R)
  BY <1>3, <1>4, EnsuredRests DEF Rests
<1> HIDE DEF q
<1>6. Rests(Page, q, R)
  BY <1>4, <1>5, RestsTwice
<1> QED
  BY <1>6, ReadiedTells DEF Readied, p, q

--------------------------------------------------------------------------------
(* The rows of all turns.                                                  *)

\* Turns that may have rows, and those of them that were not always alone.
Started(a) == {r \in Turns : a[r].pc \in Running \cup {"done"}}
Crowded(a) == {r \in Started(a) : ~a[r].alone}

Lone(a) == \A r, q \in Turns :
  a[r].alone /\ a[r].pc \in UnderWay /\ a[q].pc \in UnderWay => q = r

Counts(t) ==
  /\ t.said \in Nat /\ t.frozen \in 0..t.said /\ t.made \in Nat
  /\ t.pc \in {"plain", "fallback"} => t.said = 0

\* The turn says something after its last tool, or used none.
SaysOn(t) == t.frozen = 0 \/ t.frozen < t.said

\* The rows of a submitted turn that is alone: only the generation's waits.  When
\* the turn was stopped none does, but for the one that the next model empties,
\* and when it ends none does if it said something.
Settled(p, t, r) ==
  t.kind = "send" /\ t.alone =>
    /\ t.pc \in Waiting /\ ~t.stopped => Held(p, r, t.row)
    /\ t.pc \in Waiting /\ t.stopped =>
         IF t.pc = "stream" /\ t.models > 0 THEN Only(p, r, t.row) ELSE Quiet(p, r)
    /\ t.pc \in {"sync", "listed"} /\ SaysOn(t) => Quiet(p, r)
    /\ t.pc = "done" => Quiet(p, r)

\* Turn r, of which t is kept, and its rows; those of the turns in S may be taken
\* for its own.
RowFits(p, t, r, S) ==
  /\ Counts(t) /\ Seated(t, S)
  /\ t.pc \in Running => Upto(p, r, t.made)
  /\ Settled(p, t, r)

RowsFit(p, a) ==
  /\ Tidy(p, Started(a)) /\ Lone(a)
  /\ \A r \in Turns : RowFits(p, a[r], r, Crowded(a) \cup {r})

RowsInv == RowsFit(Page, turn)

\* A turn goes on.
Proceeds(t, u) ==
  /\ t.pc \in UnderWay /\ u.pc \in UnderWay \cup {"done"}
  /\ t.pc \in Running => u.pc \in Running \cup {"done"}
  /\ u.alone => t.alone

LEMMA SeatedMore ==
  ASSUME NEW S, NEW T, S \subseteq T, NEW t, Seated(t, S)
  PROVE  Seated(t, T)
BY DEF Seated

\* Nobody else is under way while a turn that is alone is.
LEMMA OthersSettle ==
  ASSUME NEW p, NEW q, NEW r \in Turns, NEW o \in Turns, o # r, NEW a, Lone(a),
         a[r].pc \in UnderWay, Settled(p, a[o], o), NEW S, NEW U, NEW R,
         S \subseteq Crowded(a) \cup {r}, Spares(p, q, S, U, R)
  PROVE  Settled(q, a[o], o)
<1> SUFFICES ASSUME a[o].kind = "send", a[o].alone
             PROVE  /\ a[o].pc \notin Running
                    /\ a[o].pc = "done" => Quiet(q, o)
  BY DEF Settled, Running
<1>1. a[o].pc \notin Running
  BY DEF Lone, UnderWay
<1>2. ASSUME a[o].pc = "done" PROVE Quiet(q, o)
  <2>1. Quiet(p, o)
    BY <1>2 DEF Settled
  <2>2. o \notin S
    BY DEF Crowded
  <2> QED
    BY <2>1, <2>2 DEF Spares
<1> QED
  BY <1>1, <1>2

LEMMA RowsStep ==
  ASSUME NEW p, NEW a, RowsFit(p, a), NEW r \in Turns, NEW b, Proceeds(a[r], b[r]),
         \A o \in Turns \ {r} : b[o] = a[o],
         NEW q, Spares(p, q, Crowded(a) \cup {r}, {r}, Started(b)),
         RowFits(q, b[r], r, Crowded(a) \cup {r})
  PROVE  RowsFit(q, b)
<1>1. Lone(a) /\ \A o \in Turns : RowFits(p, a[o], o, Crowded(a) \cup {o})
  BY DEF RowsFit
<1>2. a[r].pc \in UnderWay /\ (b[r].alone => a[r].alone)
  BY DEF Proceeds
<1>3. \A o \in Turns : o # r => b[o] = a[o]
  OBVIOUS
<1>4. Lone(b)
  <2> SUFFICES ASSUME NEW i \in Turns, NEW j \in Turns,
                      b[i].alone, b[i].pc \in UnderWay, b[j].pc \in UnderWay
               PROVE  j = i
    BY DEF Lone
  <2>1. a[i].alone /\ a[i].pc \in UnderWay
    BY <1>2, <1>3
  <2>2. a[j].pc \in UnderWay
    BY <1>2, <1>3
  <2> QED
    BY <1>1, <2>1, <2>2 DEF Lone
<1>5. Crowded(a) \subseteq Crowded(b)
  <2> SUFFICES ASSUME NEW o \in Crowded(a) PROVE o \in Crowded(b)
    OBVIOUS
  <2>1. o \in Turns /\ a[o].pc \in Running \cup {"done"} /\ ~a[o].alone
    BY DEF Crowded, Started
  <2>2. CASE o = r
    <3>1. "done" \notin UnderWay
      BY DEF UnderWay, Running, Waiting
    <3>2. b[r].pc \in Running \cup {"done"}
      BY <2>1, <2>2, <3>1 DEF Proceeds
    <3> QED
      BY <1>2, <2>1, <2>2, <3>2 DEF Crowded, Started
  <2>3. CASE o # r
    BY <1>3, <2>1, <2>3 DEF Crowded, Started
  <2> QED
    BY <2>2, <2>3
<1>6. ASSUME NEW o \in Turns PROVE RowFits(q, b[o], o, Crowded(b) \cup {o})
  <2>1. CASE o = r
    <3>1. Seated(b[r], Crowded(b) \cup {r})
      BY <1>5, SeatedMore DEF RowFits
    <3> QED
      BY <2>1, <3>1 DEF RowFits
  <2>2. CASE o # r
    <3>1. Counts(a[o]) /\ Seated(a[o], Crowded(b) \cup {o})
      BY <1>1, <1>5, SeatedMore DEF RowFits
    <3>2. a[o].pc \in Running => Upto(q, o, a[o].made)
      BY <1>1, <2>2, <3>1 DEF RowFits, Counts, Spares
    <3>3. Settled(q, a[o], o)
      BY <1>1, <1>2, <2>2, OthersSettle DEF RowFits
    <3> QED
      BY <1>3, <2>2, <3>1, <3>2, <3>3 DEF RowFits
  <2> QED
    BY <2>1, <2>2
<1> QED
  BY <1>4, <1>6 DEF RowsFit, Spares

\* What is known of a turn under way.
LEMMA TurnIsKnown ==
  ASSUME TalksInv, RowsInv, NEW r \in Turns, turn[r].pc \in UnderWay
  PROVE  /\ TurnRecord(turn[r]) /\ turn = [o \in Turns |-> turn[o]]
         /\ RowFits(Page, turn[r], r, Crowded(turn) \cup {r})
         /\ Crowded(turn) \cup {r} \in SUBSET Turns
         /\ Tidy(Page, Started(turn)) /\ Sound(Page) /\ Page.gen = gen
         /\ gen # NoGen => gen.req \in Crowded(turn) \cup {r}
         /\ turn[r].alone /\ turn[r].stopped => gen = NoGen
<1>1. TurnRecord(turn[r]) /\ turn = [o \in Turns |-> turn[o]] /\ Sound(Page)
  BY DEF TalksInv, TurnsInv, TurnsShape, ChatsInv
<1>2. Tidy(Page, Started(turn)) /\ RowFits(Page, turn[r], r, Crowded(turn) \cup {r}) /\ Lone(turn)
  BY DEF RowsInv, RowsFit
<1>3. gen # NoGen => gen.req \in Turns /\ turn[gen.req].pc \in Running /\ ~turn[gen.req].stopped
  BY DEF TalksInv, TurnsInv, GenRuns, Runs
<1>4. gen # NoGen /\ gen.req # r => ~turn[gen.req].alone /\ ~turn[r].alone
  BY <1>2, <1>3 DEF Lone, UnderWay
<1>5. gen # NoGen => gen.req \in Crowded(turn) \cup {r}
  BY <1>3, <1>4 DEF Crowded, Started
<1>6. turn[r].alone /\ turn[r].stopped => gen = NoGen
  BY <1>3, <1>4
<1>7. Crowded(turn) \cup {r} \in SUBSET Turns
  BY DEF Crowded, Started
<1>8. Page.gen = gen
  BY DEF Page
<1> QED
  BY <1>1, <1>2, <1>5, <1>6, <1>7, <1>8

\* A step of turn r, after which t is kept of it and the page is q.
LEMMA RowsGoOn ==
  ASSUME TalksInv, RowsInv, NEW r \in Turns, NEW t, turn' = [turn EXCEPT ![r] = t],
         Proceeds(turn[r], t), NEW q, Become(q),
         NEW R \in SUBSET Turns, R = Started(turn) \cup (IF t.pc \in Running \cup {"done"} THEN {r} ELSE {}),
         Spares(Page, q, Crowded(turn) \cup {r}, {r}, R),
         RowFits(q, t, r, Crowded(turn) \cup {r})
  PROVE  RowsInv'
<1> DEFINE b == [turn EXCEPT ![r] = t]
<1>1. turn = [o \in Turns |-> turn[o]]
  BY DEF TalksInv, TurnsInv, TurnsShape
<1>2. b[r] = t /\ \A o \in Turns \ {r} : b[o] = turn[o]
  BY <1>1
<1> HIDE DEF b
<1>3. R = Started(b)
  <2>1. turn[r].pc \in Running \cup {"done"} => t.pc \in Running \cup {"done"}
    BY DEF Proceeds, UnderWay, Running, Waiting
  <2>2. Started(b) = {o \in Turns : b[o].pc \in Running \cup {"done"}}
    BY DEF Started
  <2>3. Started(turn) = {o \in Turns : turn[o].pc \in Running \cup {"done"}}
    BY DEF Started
  <2> QED
    BY <1>2, <2>1, <2>2, <2>3
<1>4. RowsFit(Page, turn)
  BY DEF RowsInv
<1>5. RowsFit(q, b)
  <2>1. Proceeds(turn[r], b[r]) /\ RowFits(q, b[r], r, Crowded(turn) \cup {r})
    BY <1>2
  <2>2. Spares(Page, q, Crowded(turn) \cup {r}, {r}, Started(b))
    BY <1>3
  <2> QED
    BY <1>2, <1>4, <2>1, <2>2, RowsStep
<1>6. Page' = q
  BY PageBecomes DEF Spares, Tidy
<1>7. turn' = b
  BY DEF b
<1> QED
  BY <1>5, <1>6, <1>7 DEF RowsInv

\* The same, of a turn whose reply was requested.
LEMMA RowsRunOn ==
  ASSUME TalksInv, RowsInv, NEW r \in Turns, turn[r].pc \in Running,
         NEW t, turn' = [turn EXCEPT ![r] = t],
         t.pc \in Running \cup {"done"}, t.alone => turn[r].alone, NEW q, Become(q),
         Spares(Page, q, Crowded(turn) \cup {r}, {r}, Started(turn)),
         RowFits(q, t, r, Crowded(turn) \cup {r})
  PROVE  RowsInv'
<1>1. Proceeds(turn[r], t)
  BY DEF Proceeds, UnderWay
<1>2. r \in Started(turn) /\ Started(turn) \in SUBSET Turns
  BY DEF Started
<1>3. Started(turn) = Started(turn) \cup (IF t.pc \in Running \cup {"done"} THEN {r} ELSE {})
  BY <1>2
<1> QED
  BY <1>1, <1>2, <1>3, RowsGoOn

\* The page stays as it is.
LEMMA PageSpares ==
  ASSUME NEW R, Tidy(Page, R), NEW S, NEW U
  PROVE  Spares(Page, Page, S, U, R)
BY QuietsItself, QuietsSpares

LEMMA TextsShow ==
  ASSUME NEW r \in Turns, Counts(turn[r])
  PROVE  /\ turn[r].frozen < turn[r].said => Reply1(r) # Blank
         /\ turn[r].frozen = 0 => Error1(r) # Blank
         /\ Sorry(r) # Blank
         /\ Said(r, 0, 0) = Blank
<1>1. turn[r].said \in Nat /\ turn[r].frozen \in Nat
  BY DEF Counts
<1>2. Sorry(r) # Blank
  BY DEF Sorry, Text, Blank
<1>3. turn[r].frozen < turn[r].said => Reply1(r) # Blank
  BY <1>1 DEF Reply1, Said, Text, Blank
<1>4. turn[r].frozen = 0 => Error1(r) # Blank
  BY <1>2 DEF Error1
<1> QED
  BY <1>2, <1>3, <1>4 DEF Said

\* A turn before its reply is requested has no rows.
LEMMA EarlyIsAbsent ==
  ASSUME TalksInv, RowsInv, NEW r \in Turns, turn[r].pc \notin Running \cup {"done"}
  PROVE  Absent(Page, r)
<1>1. Tidy(Page, Started(turn)) /\ r \notin Started(turn) /\ r # None
  BY TurnsAreNamed DEF RowsInv, RowsFit, Started
<1>2. gen # NoGen => turn[gen.req].pc \in Running
  BY DEF TalksInv, TurnsInv, GenRuns, Runs
<1>3. gen.req # r
  BY <1>1, <1>2 DEF NoGen
<1>4. Page.gen = gen
  BY DEF Page
<1> QED
  BY <1>1, <1>3, <1>4, OwnersAreTurns DEF Absent

LEMMA PlannedRows ==
  ASSUME TalksInv, RowsInv, NEW r \in Turns, Planned(r)
  PROVE  RowsInv'
<1> DEFINE t == [turn[r] EXCEPT !.pc = "grants"]
<1>1. turn[r].pc = "prepare" /\ turn' = [turn EXCEPT ![r] = t]
  BY DEF Planned
<1>2. turn[r].pc \in UnderWay
  BY <1>1 DEF UnderWay
<1>3. TurnRecord(turn[r]) /\ RowFits(Page, turn[r], r, Crowded(turn) \cup {r})
      /\ Tidy(Page, Started(turn))
  BY <1>2, TurnIsKnown
<1>4. /\ t.pc = "grants" /\ t.kind = turn[r].kind /\ t.alone = turn[r].alone
      /\ t.said = turn[r].said /\ t.frozen = turn[r].frozen /\ t.made = turn[r].made
      /\ t.row = turn[r].row
  BY <1>3 DEF TurnRecord
<1> HIDE DEF t
<1>5. Proceeds(turn[r], t)
  BY <1>1, <1>2, <1>4 DEF Proceeds, UnderWay, Running, Waiting
<1>6. RowFits(Page, t, r, Crowded(turn) \cup {r})
  BY <1>3, <1>4 DEF RowFits, Counts, Seated, Settled, Running, Waiting
<1>7. Become(Page)
  BY DEF Planned, sessionVars, Become, Page
<1>8. /\ Started(turn) \in SUBSET Turns
      /\ Started(turn) = Started(turn) \cup (IF t.pc \in Running \cup {"done"} THEN {r} ELSE {})
  BY <1>4 DEF Started, Running, Waiting
<1> QED
  BY <1>1, <1>3, <1>5, <1>6, <1>7, <1>8, PageSpares, RowsGoOn

LEMMA EndedShape ==
  ASSUME NEW t
  PROVE  /\ Ended(t).pc = "done" /\ Ended(t).kind = t.kind /\ Ended(t).row = NoRow
         /\ Ended(t).said = 0 /\ Ended(t).frozen = 0 /\ Ended(t).made = 0
         /\ Ended(t).alone = (t.alone /\ (t.frozen = 0 \/ t.frozen < t.said))
BY DEF Ended, Unused, NoRow

\* A turn that ends keeps the rows of its last page.
LEMMA EndedRows ==
  ASSUME NEW q, NEW t, NEW r, t.kind = "send" /\ t.alone /\ SaysOn(t) => Quiet(q, r), NEW S
  PROVE  RowFits(q, Ended(t), r, S) /\ (Ended(t).alone => t.alone)
<1> DEFINE u == Ended(t)
<1>1. /\ u.pc = "done" /\ u.kind = t.kind /\ u.row = NoRow
      /\ u.said = 0 /\ u.frozen = 0 /\ u.made = 0
  BY EndedShape
<1>2. u.alone = (t.alone /\ (t.frozen = 0 \/ t.frozen < t.said))
  BY EndedShape
<1> HIDE DEF u
<1>3. u.alone => t.alone /\ SaysOn(t)
  BY <1>2, Zenon DEF SaysOn
<1>4. Counts(u) /\ Seated(u, S) /\ u.pc \notin Running /\ u.pc \notin Waiting
  BY <1>1 DEF Counts, Seated, Running, Waiting
<1>5. Settled(q, u, r)
  BY <1>1, <1>3, <1>4 DEF Settled
<1>6. RowFits(q, u, r, S)
  BY <1>4, <1>5 DEF RowFits
<1> QED
  BY <1>3, <1>6 DEF u

LEMMA RefuseRows ==
  ASSUME TalksInv, RowsInv, NEW r \in Turns, Refuse(r)
  PROVE  RowsInv'
<1> DEFINE t == Ended(turn[r])
           m == Msg(ReplyId(r), "assistant", Sorry(r))
           q == Posted(Page, turn[r].chat, m)
           R == Started(turn) \cup {r}
<1>1. turn[r].pc = "prepare" /\ turn' = [turn EXCEPT ![r] = t] /\ Become(q)
  BY DEF Refuse, Posted
<1>2. turn[r].pc \in UnderWay /\ turn[r].pc \notin Running \cup {"done"}
  BY <1>1 DEF UnderWay, Running, Waiting
<1>3. Tidy(Page, Started(turn)) /\ Sound(Page)
  BY <1>2, TurnIsKnown
<1>4. R \in SUBSET Turns /\ Tidy(Page, R)
  BY <1>3, TidyMore DEF Started
<1>5. MsgRecord(m)
  BY IdsAreOwn, MsgMade DEF OwnIds
<1> HIDE DEF m, t
<1>6. Quiets(Page, q, R)
  BY <1>3, <1>4, <1>5, PostedRests
<1>7. Quiet(Page, r)
  BY <1>2, EarlyIsAbsent, AbsentIsQuiet
<1> HIDE DEF q
<1>8. Quiet(q, r)
  BY <1>6, <1>7 DEF Quiets
<1>9. RowFits(q, t, r, Crowded(turn) \cup {r}) /\ (t.alone => turn[r].alone) /\ t.pc = "done"
  BY <1>8, EndedRows, EndedShape DEF t
<1>10. Proceeds(turn[r], t)
  BY <1>2, <1>9 DEF Proceeds
<1>11. Spares(Page, q, Crowded(turn) \cup {r}, {r}, R)
  BY <1>6, QuietsSpares
<1>12. R = Started(turn) \cup (IF t.pc \in Running \cup {"done"} THEN {r} ELSE {})
  BY <1>9
<1> QED
  BY <1>1, <1>4, <1>9, <1>10, <1>11, <1>12, RowsGoOn

LEMMA AllowedRows ==
  ASSUME TalksInv, RowsInv, NEW r \in Turns, Allowed(r)
  PROVE  RowsInv'
<1> DEFINE c == turn[r].chat
           key == <<r, 1>>
           t == [turn[r] EXCEPT !.pc = "profile", !.row = key, !.made = 1]
           q == [Add(Page, key, c, Msg(None, "assistant", Blank), TRUE)
                   EXCEPT !.gen = Generation(r, c, key)]
           R == Started(turn) \cup {r}
<1>1. turn[r].pc = "grants" /\ Become(q)
  BY DEF Allowed
<1>2. turn[r].pc \in UnderWay /\ turn[r].pc \notin Running \cup {"done"}
  BY <1>1 DEF UnderWay, Running, Waiting
<1>3. /\ Tidy(Page, Started(turn)) /\ TurnRecord(turn[r]) /\ turn = [o \in Turns |-> turn[o]]
      /\ RowFits(Page, turn[r], r, Crowded(turn) \cup {r})
  BY <1>2, TurnIsKnown
<1>4. turn' = [turn EXCEPT ![r] = t]
  BY <1>3 DEF Allowed, TurnRecord
<1>5. Absent(Page, r)
  BY <1>2, EarlyIsAbsent
<1>6. Spares(Page, q, {r}, {r}, R) /\ Upto(q, r, 1) /\ Held(q, r, key)
  <2> HIDE DEF c
  <2> QED
    BY <1>3, <1>5, AllowedSpares
<1>7. /\ t.pc = "profile" /\ t.row = key /\ t.made = 1 /\ t.kind = turn[r].kind
      /\ t.alone = turn[r].alone /\ t.stopped = turn[r].stopped
      /\ t.said = turn[r].said /\ t.frozen = turn[r].frozen
  BY <1>3 DEF TurnRecord
<1>8. ~turn[r].stopped
  BY <1>1 DEF TalksInv, TurnsInv, Asked
<1>9. key \in {r} \X Int
  BY TurnsAreNumbers
<1> HIDE DEF t, q, key
<1>10. RowFits(q, t, r, Crowded(turn) \cup {r})
  <2>1. Counts(t)
    BY <1>3, <1>7 DEF RowFits, Counts
  <2>2. Seated(t, Crowded(turn) \cup {r})
    BY <1>7, <1>9 DEF Seated
  <2>3. Settled(q, t, r)
    BY <1>6, <1>7, <1>8 DEF Settled
  <2> QED
    BY <1>6, <1>7, <2>1, <2>2, <2>3 DEF RowFits
<1>11. Proceeds(turn[r], t)
  BY <1>2, <1>7 DEF Proceeds, UnderWay, Running, Waiting
<1>12. Spares(Page, q, Crowded(turn) \cup {r}, {r}, R)
  BY <1>6 DEF Spares
<1>13. R = Started(turn) \cup (IF t.pc \in Running \cup {"done"} THEN {r} ELSE {})
  BY <1>7 DEF Running, Waiting
<1>14. R \in SUBSET Turns
  BY DEF Started
<1> QED
  BY <1>1, <1>4, <1>10, <1>11, <1>12, <1>13, <1>14, RowsGoOn

\* The page becomes q, turn r changes only in what t does, and goes on running.
LEMMA RunningRows ==
  ASSUME TalksInv, RowsInv, NEW r \in Turns, turn[r].pc \in Running,
         NEW t, turn' = [turn EXCEPT ![r] = t], t.pc \in Running, t.alone => turn[r].alone,
         Counts(t), NEW q, Become(q),
         Spares(Page, q, Crowded(turn) \cup {r}, {r}, Started(turn)),
         Seated(t, Crowded(turn) \cup {r}), Upto(q, r, t.made), Settled(q, t, r)
  PROVE  RowsInv'
<1>1. RowFits(q, t, r, Crowded(turn) \cup {r})
  BY DEF RowFits
<1> QED
  BY <1>1, RowsRunOn

\* The rows of a turn whose names stay.
LEMMA SparesUpto ==
  ASSUME NEW R, NEW p, NEW q, NEW S, NEW r \in Turns, Spares(p, q, S, {}, R)
  PROVE  /\ Spares(p, q, S, {r}, R)
         /\ \A n \in Nat : Upto(p, r, n) => Upto(q, r, n)
BY DEF Spares

\* What a stop or its lack means for a turn that waits for its reply.
LEMMA WaitsHow ==
  ASSUME TalksInv, RowsInv, NEW r \in Turns, turn[r].pc \in Waiting,
         turn[r].kind = "send", turn[r].alone
  PROVE  \/ ~turn[r].stopped /\ Held(Page, r, turn[r].row)
         \/ /\ turn[r].stopped /\ Page.gen = NoGen
            /\ IF turn[r].pc = "stream" /\ turn[r].models > 0 THEN Only(Page, r, turn[r].row)
                                                             ELSE Quiet(Page, r)
<1>1. turn[r].pc \in UnderWay
  BY DEF UnderWay, Running
<1>2. Settled(Page, turn[r], r) /\ (turn[r].stopped => Page.gen = NoGen)
  BY <1>1, TurnIsKnown DEF RowFits
<1> QED
  BY <1>2 DEF Settled

LEMMA FinishRows ==
  ASSUME TalksInv, RowsInv, NEW r \in Turns, turn[r].pc \in Waiting, NEW text, NEW title,
         Finish(r, text, title),
         SaysOn(turn[r]) /\ ~turn[r].stopped => text # Blank
  PROVE  RowsInv'
<1> DEFINE p == Spoken(Page, r, text, title)
           q == IF turn[r].kind = "continue" THEN Continued(p, r, text) ELSE Replied(p, r, text)
           t == [turn[r] EXCEPT !.pc = "sync"]
           S == Crowded(turn) \cup {r}
<1>1. Become(q) /\ turn' = [turn EXCEPT ![r] = t]
  BY DEF Finish
<1>2. turn[r].pc \in UnderWay /\ turn[r].pc \in Running
  BY DEF UnderWay, Running
<1>3. /\ TurnRecord(turn[r]) /\ RowFits(Page, turn[r], r, S) /\ Tidy(Page, Started(turn))
      /\ Sound(Page) /\ S \in SUBSET Turns /\ r \in S
  BY <1>2, TurnIsKnown
<1>4. /\ t.pc = "sync" /\ t.kind = turn[r].kind /\ t.alone = turn[r].alone
      /\ t.said = turn[r].said /\ t.frozen = turn[r].frozen /\ t.made = turn[r].made
      /\ t.row = turn[r].row
  BY <1>3 DEF TurnRecord
<1> HIDE DEF t
<1>5. /\ Spares(Page, p, S, {}, Started(turn))
      /\ turn[r].kind = "send" /\ SpeaksFor(Page, r, text) => Quiet(p, r)
  <2> HIDE DEF S
  <2> QED
    BY <1>3, SpokenSpares
<1>6. Sound(p)
  BY <1>3, SpokenTells DEF Tells
<1> HIDE DEF p
<1>7. Tidy(p, Started(turn))
  BY <1>5 DEF Spares
<1>8. Quiets(p, q, Started(turn))
  BY <1>6, <1>7, ContinuedQuiets, RepliedQuiets
<1> HIDE DEF q
<1>9. Spares(Page, q, S, {}, Started(turn))
  BY <1>5, <1>8, QuietsSpares, SparesTwice
<1>10. Spares(Page, q, S, {r}, Started(turn))
       /\ \A n \in Nat : Upto(Page, r, n) => Upto(q, r, n)
  BY <1>9, SparesUpto
<1>11. Settled(q, t, r)
  <2>1. ASSUME t.kind = "send", t.alone, SaysOn(t) PROVE Quiet(q, r)
    <3>1. SpeaksFor(Page, r, text)
      <4>1. turn[r].kind = "send" /\ turn[r].alone /\ SaysOn(turn[r])
        BY <1>4, <2>1 DEF SaysOn
      <4> QED
        BY <4>1, WaitsHow, CalmIsOnly DEF SpeaksFor, Quiet
    <3>2. Quiet(p, r)
      BY <1>4, <1>5, <2>1, <3>1
    <3> QED
      BY <1>8, <3>2 DEF Quiets
  <2> QED
    BY <1>4, <2>1 DEF Settled, Waiting
<1>12. Counts(t) /\ Seated(t, S) /\ t.pc \in Running
  BY <1>3, <1>4 DEF RowFits, Counts, Seated, Running
<1>13. Upto(q, r, t.made)
  BY <1>2, <1>3, <1>4, <1>10, <1>12 DEF RowFits, Counts
<1> QED
  BY <1>1, <1>2, <1>4, <1>10, <1>11, <1>12, <1>13, RunningRows

\* Nothing happens to the page.
LEMMA StillRows ==
  ASSUME TalksInv, RowsInv, NEW r \in Turns, turn[r].pc \in Running,
         Become(Page), NEW t, turn' = [turn EXCEPT ![r] = t], t.pc \in Running,
         t.alone = turn[r].alone, t.row = turn[r].row, t.made = turn[r].made,
         Counts(t), Settled(Page, t, r)
  PROVE  RowsInv'
<1>1. turn[r].pc \in UnderWay
  BY DEF UnderWay
<1>2. RowFits(Page, turn[r], r, Crowded(turn) \cup {r}) /\ Tidy(Page, Started(turn))
  BY <1>1, TurnIsKnown
<1>3. Spares(Page, Page, Crowded(turn) \cup {r}, {r}, Started(turn))
  BY <1>2, PageSpares
<1>4. Seated(t, Crowded(turn) \cup {r}) /\ Upto(Page, r, t.made)
  BY <1>2 DEF RowFits, Seated
<1> QED
  BY <1>3, <1>4, RunningRows

LEMMA CancelRows ==
  ASSUME TalksInv, RowsInv, NEW r \in Turns, turn[r].pc \in Waiting, turn[r].stopped,
         ~(turn[r].pc = "stream" /\ turn[r].models > 0), Cancel(r)
  PROVE  RowsInv'
<1>1. turn[r].pc \in UnderWay /\ turn[r].pc \in Running
  BY DEF UnderWay, Running
<1>2. TurnRecord(turn[r]) /\ RowFits(Page, turn[r], r, Crowded(turn) \cup {r})
      /\ Tidy(Page, Started(turn)) /\ turn = [o \in Turns |-> turn[o]]
  BY <1>1, TurnIsKnown
<1>3. CASE turn[r].kind = "send"
  <2> DEFINE t == [turn[r] EXCEPT !.pc = "sync"]
  <2>1. Become(Page) /\ turn' = [turn EXCEPT ![r] = t]
    BY <1>2, <1>3 DEF Cancel
  <2>2. /\ t.pc = "sync" /\ t.kind = turn[r].kind /\ t.alone = turn[r].alone
        /\ t.said = turn[r].said /\ t.frozen = turn[r].frozen /\ t.made = turn[r].made
        /\ t.row = turn[r].row
    BY <1>2 DEF TurnRecord
  <2> HIDE DEF t
  <2>3. Settled(Page, t, r)
    <3>1. turn[r].alone => Quiet(Page, r)
      BY <1>3, WaitsHow
    <3> QED
      BY <2>2, <3>1 DEF Settled, Waiting
  <2>4. Counts(t) /\ t.pc \in Running
    BY <1>2, <2>2 DEF RowFits, Counts, Running
  <2> QED
    BY <1>1, <2>1, <2>2, <2>3, <2>4, StillRows
<1>4. CASE turn[r].kind # "send"
  <2> DEFINE t == Ended(turn[r])
             p == Recover(Page)
             q == Final(p, r)
  <2>1. Become(q) /\ turn' = [turn EXCEPT ![r] = t]
    BY <1>2, <1>4 DEF Cancel
  <2>2. Rests(Page, p, Started(turn))
    BY <1>2, RecoverQuiets, QuietsRests
  <2> HIDE DEF p
  <2>3. Rests(Page, q, Started(turn))
    BY <2>2, FinalRests, RestsTwice DEF Rests
  <2> HIDE DEF q, t
  <2>4. RowFits(q, t, r, Crowded(turn) \cup {r}) /\ (t.alone => turn[r].alone)
    BY <1>4, EndedRows DEF t
  <2>5. t.pc = "done"
    BY EndedShape DEF t
  <2>6. Spares(Page, q, Crowded(turn) \cup {r}, {r}, Started(turn))
    BY <2>3, RestsSpares
  <2> QED
    BY <1>1, <2>1, <2>4, <2>5, <2>6, RowsRunOn
<1> QED
  BY <1>3, <1>4

LEMMA ProfiledRows ==
  ASSUME TalksInv, RowsInv, NEW r \in Turns, Profiled(r)
  PROVE  RowsInv'
<1>1. turn[r].pc = "profile" /\ turn[r].pc \in Waiting /\ turn[r].pc \in Running
      /\ turn[r].pc \in UnderWay
  BY DEF Profiled, Waiting, Running, UnderWay
<1>2. TurnRecord(turn[r]) /\ RowFits(Page, turn[r], r, Crowded(turn) \cup {r})
      /\ turn = [o \in Turns |-> turn[o]]
  BY <1>1, TurnIsKnown
<1>3. CASE turn[r].stopped
  BY <1>1, <1>3, CancelRows DEF Profiled
<1>4. CASE ~turn[r].stopped
  <2>1. PICK arrives : turn' = [turn EXCEPT ![r].pc = "stream", ![r].taken = arrives]
    BY <1>4 DEF Profiled
  <2> DEFINE t == [turn[r] EXCEPT !.pc = "stream", !.taken = arrives]
  <2>2. turn' = [turn EXCEPT ![r] = t]
    BY <1>2, <2>1 DEF TurnRecord
  <2>3. Become(Page)
    BY <1>4 DEF Profiled, Become, Page
  <2>4. /\ t.pc = "stream" /\ t.kind = turn[r].kind /\ t.alone = turn[r].alone
        /\ t.said = turn[r].said /\ t.frozen = turn[r].frozen /\ t.made = turn[r].made
        /\ t.row = turn[r].row /\ t.stopped = turn[r].stopped
    BY <1>2 DEF TurnRecord
  <2> HIDE DEF t
  <2>5. Settled(Page, t, r)
    BY <1>1, <1>2, <1>4, <2>4 DEF RowFits, Settled
  <2>6. Counts(t) /\ t.pc \in Running
    BY <1>2, <2>4 DEF RowFits, Counts, Running, Waiting
  <2> QED
    BY <1>1, <2>2, <2>3, <2>4, <2>5, <2>6, StillRows
<1> QED
  BY <1>3, <1>4

LEMMA PartialRows ==
  ASSUME TalksInv, RowsInv, NEW r \in Turns, Partial(r)
  PROVE  RowsInv'
<1> DEFINE u == RowOf(Looked(Page, r), r)
           n == turn[r].said + 1
           t == [turn[r] EXCEPT !.said = n, !.row = u]
           q == Heard(Page, r, n)
           S == Crowded(turn) \cup {r}
<1>1. /\ turn[r].pc = "stream" /\ turn[r].pc \in Waiting /\ turn[r].pc \in Running
      /\ turn[r].pc \in UnderWay /\ ~turn[r].stopped /\ Become(q)
  BY DEF Partial, Streaming, Waiting, Running, UnderWay
<1>2. /\ TurnRecord(turn[r]) /\ RowFits(Page, turn[r], r, S) /\ Tidy(Page, Started(turn))
      /\ S \in SUBSET Turns /\ r \in S /\ turn = [o \in Turns |-> turn[o]]
      /\ Page.gen # NoGen => Page.gen.req \in S
  BY <1>1, TurnIsKnown
<1>3. turn' = [turn EXCEPT ![r] = t]
  BY <1>2 DEF Partial, TurnRecord
<1>4. /\ t.pc = "stream" /\ t.kind = turn[r].kind /\ t.alone = turn[r].alone
      /\ t.said = n /\ t.frozen = turn[r].frozen /\ t.made = turn[r].made
      /\ t.row = u /\ t.stopped = turn[r].stopped
  BY <1>1, <1>2 DEF TurnRecord
<1>5. /\ Spares(Page, q, S, {}, Started(turn)) /\ (u = NoRow \/ u \in S \X Int)
      /\ turn[r].kind = "send" /\ Held(Page, r, turn[r].row) => Held(q, r, u)
  <2>1. Seated(turn[r], S)
    BY <1>2 DEF RowFits
  <2> HIDE DEF S
  <2> QED
    BY <1>2, <2>1, HeardSpares
<1> HIDE DEF t, q, u
<1>6. Spares(Page, q, S, {r}, Started(turn))
      /\ \A i \in Nat : Upto(Page, r, i) => Upto(q, r, i)
  BY <1>5, SparesUpto
<1>7. Settled(q, t, r)
  BY <1>1, <1>4, <1>5, WaitsHow DEF Settled, Waiting
<1>8. Counts(t)
  BY <1>2, <1>4 DEF RowFits, Counts
<1>9. Seated(t, S) /\ Upto(q, r, t.made) /\ t.pc \in Running
  BY <1>1, <1>2, <1>4, <1>5, <1>6 DEF RowFits, Counts, Seated
<1> QED
  BY <1>1, <1>3, <1>4, <1>6, <1>7, <1>8, <1>9, RunningRows

LEMMA ToolStartRows ==
  ASSUME TalksInv, RowsInv, NEW r \in Turns, ToolStart(r)
  PROVE  RowsInv'
<1> DEFINE n == turn[r].made
           key == <<r, n + 1>>
           p == Recover(Page)
           t == [turn[r] EXCEPT !.frozen = turn[r].said, !.row = key, !.made = n + 1]
           q == Frozen(p, r, key)
           S == Crowded(turn) \cup {r}
<1>1. /\ turn[r].pc = "stream" /\ turn[r].pc \in Waiting /\ turn[r].pc \in Running
      /\ turn[r].pc \in UnderWay /\ ~turn[r].stopped /\ Become(q) /\ turn[r].kind = "send"
  BY DEF ToolStart, Streaming, Waiting, Running, UnderWay
<1>2. /\ TurnRecord(turn[r]) /\ RowFits(Page, turn[r], r, S) /\ Tidy(Page, Started(turn))
      /\ r \in S /\ turn = [o \in Turns |-> turn[o]]
  BY <1>1, TurnIsKnown
<1>3. turn' = [turn EXCEPT ![r] = t]
  BY <1>2 DEF ToolStart, TurnRecord
<1>4. /\ t.pc = "stream" /\ t.kind = turn[r].kind /\ t.alone = turn[r].alone
      /\ t.said = turn[r].said /\ t.frozen = turn[r].said /\ t.made = n + 1
      /\ t.row = key /\ t.stopped = turn[r].stopped
  BY <1>1, <1>2 DEF TurnRecord
<1>5. n \in Nat /\ Upto(Page, r, n) /\ turn[r].said \in Nat
  BY <1>1, <1>2 DEF RowFits, Counts
<1>6. Quiets(Page, p, Started(turn))
  BY <1>2, RecoverQuiets
<1>7. r \in Started(turn)
  BY <1>1 DEF Started
<1>8. key \in {r} \X Int
  BY <1>5, TurnsAreNumbers
<1> HIDE DEF p, n, t, S
<1>9. Tidy(p, Started(turn)) /\ Upto(p, r, n)
  BY <1>5, <1>6 DEF Quiets
<1>10. /\ Spares(p, q, S, {r}, Started(turn)) /\ Upto(q, r, n + 1)
       /\ Held(p, r, turn[r].row) => Held(q, r, key)
  BY <1>2, <1>5, <1>7, <1>9, FrozenSpares
<1> HIDE DEF q, key
<1>11. Spares(Page, q, S, {r}, Started(turn))
  BY <1>6, <1>10, QuietsSpares, SparesTwice
<1>12. Held(Page, r, turn[r].row) => Held(q, r, key)
  BY <1>6, <1>10, QuietsHold
<1>13. Settled(q, t, r)
  BY <1>1, <1>4, <1>12, WaitsHow DEF Settled, Waiting
<1>14. Counts(t) /\ Seated(t, S) /\ t.pc \in Running /\ Upto(q, r, t.made)
  BY <1>1, <1>2, <1>4, <1>5, <1>8, <1>10 DEF Counts, Seated
<1> QED
  BY <1>1, <1>3, <1>4, <1>11, <1>13, <1>14, RunningRows DEF S

LEMMA AntiLoopRows ==
  ASSUME TalksInv, RowsInv, NEW r \in Turns, AntiLoop(r), script \in Script
  PROVE  RowsInv'
<1> DEFINE p == Recover(Page)
           t == Again(turn[r])
           q == Show(p, Resolved(p, r), Blank, TRUE)
           S == Crowded(turn) \cup {r}
<1>1. /\ turn[r].pc = "stream" /\ turn[r].pc \in Waiting /\ turn[r].pc \in Running
      /\ turn[r].pc \in UnderWay /\ ~turn[r].stopped /\ turn[r].kind = "send"
      /\ turn[r].said = script.said
  BY DEF AntiLoop, Streaming, Waiting, Running, UnderWay, Repeats
<1>2. /\ TurnRecord(turn[r]) /\ RowFits(Page, turn[r], r, S) /\ Tidy(Page, Started(turn))
      /\ S \in SUBSET Turns /\ r \in S /\ turn = [o \in Turns |-> turn[o]]
      /\ Page.gen # NoGen => Page.gen.req \in S
  BY <1>1, TurnIsKnown
<1>3. CASE reasoned
  <2>1. Finish(r, Reply1(r), FALSE)
    BY <1>3 DEF AntiLoop
  <2>2. turn[r].said > 0 /\ turn[r].frozen \in 0..turn[r].said
    BY <1>1, <1>2 DEF Script, RowFits, Counts
  <2>3. Counts(turn[r])
    BY <1>2 DEF RowFits
  <2>4. SaysOn(turn[r]) => Reply1(r) # Blank
    BY <2>2, <2>3, TextsShow DEF SaysOn
  <2> QED
    BY <1>1, <2>1, <2>4, FinishRows
<1>4. CASE ~reasoned
  <2>1. Become(q) /\ turn' = [turn EXCEPT ![r] = t]
    BY <1>4 DEF AntiLoop
  <2>2. /\ t.pc = "profile" /\ t.kind = turn[r].kind /\ t.alone = turn[r].alone
        /\ t.said = 0 /\ t.frozen = 0 /\ t.made = turn[r].made
        /\ t.row = turn[r].row /\ t.stopped = turn[r].stopped
    BY <1>2 DEF TurnRecord, Again
  <2>3. /\ Spares(Page, q, S, {}, Started(turn))
        /\ Held(Page, r, turn[r].row) => Held(q, r, turn[r].row)
    <3>1. Seated(turn[r], S)
      BY <1>2 DEF RowFits
    <3> HIDE DEF S
    <3> QED
      BY <1>1, <1>2, <3>1, EmptiedSpares
  <2> HIDE DEF q, t, p
  <2>4. Spares(Page, q, S, {r}, Started(turn))
        /\ \A i \in Nat : Upto(Page, r, i) => Upto(q, r, i)
    BY <2>3, SparesUpto
  <2>5. Settled(q, t, r)
    BY <1>1, <2>2, <2>3, WaitsHow DEF Settled, Waiting
  <2>6. Counts(t)
    BY <1>2, <2>2 DEF RowFits, Counts
  <2>7. Seated(t, S) /\ t.pc \in Running /\ Upto(q, r, t.made)
    BY <1>1, <1>2, <2>2, <2>4 DEF RowFits, Counts, Seated, Running, Waiting
  <2> QED
    BY <1>1, <2>1, <2>2, <2>4, <2>5, <2>6, <2>7, RunningRows
<1> QED
  BY <1>3, <1>4

\* The ways in which a reply comes, or something else in its place.
LEMMA DoneRows ==
  ASSUME TalksInv, RowsInv, NEW r \in Turns,
         \/ \E title \in script.titles : Done(r, title)
         \/ Plainly(r) \/ NoModel(r)
  PROVE  RowsInv'
<1>1. turn[r].pc \in Waiting /\ turn[r].pc \in Running /\ turn[r].pc \in UnderWay
  BY DEF Done, Streaming, Plainly, NoModel, Waiting, Running, UnderWay
<1>2. TurnRecord(turn[r]) /\ RowFits(Page, turn[r], r, Crowded(turn) \cup {r})
      /\ turn = [o \in Turns |-> turn[o]]
  BY <1>1, TurnIsKnown
<1>3. Counts(turn[r])
  BY <1>2 DEF RowFits
<1>4. ASSUME NEW title, Done(r, title) PROVE RowsInv'
  <2>1. turn[r].said > 0 /\ Finish(r, Reply1(r), title)
    BY <1>4 DEF Done
  <2>2. SaysOn(turn[r]) => Reply1(r) # Blank
    BY <1>3, <2>1, TextsShow DEF SaysOn
  <2> QED
    BY <1>1, <2>1, <2>2, FinishRows
<1>5. CASE Plainly(r)
  <2>1. CASE Finish(r, Sorry(r), FALSE)
    BY <1>1, <1>3, <2>1, TextsShow, FinishRows
  <2>2. CASE ~Finish(r, Sorry(r), FALSE)
    <3> DEFINE t == [turn[r] EXCEPT !.pc = "fallback"]
    <3>1. turn[r].pc = "plain" /\ turn' = [turn EXCEPT ![r] = t]
      BY <1>5, <2>2 DEF Plainly
    <3>2. Become(Page)
      BY <1>5, <2>2 DEF Plainly, Become, Page
    <3>3. /\ t.pc = "fallback" /\ t.kind = turn[r].kind /\ t.alone = turn[r].alone
          /\ t.said = turn[r].said /\ t.frozen = turn[r].frozen /\ t.made = turn[r].made
          /\ t.row = turn[r].row /\ t.stopped = turn[r].stopped
      BY <1>2 DEF TurnRecord
    <3> HIDE DEF t
    <3>4. Settled(Page, t, r)
      BY <1>1, <1>2, <3>1, <3>3 DEF RowFits, Settled
    <3>5. Counts(t) /\ t.pc \in Running
      BY <1>3, <3>1, <3>3 DEF Counts, Running, Waiting
    <3> QED
      BY <1>1, <3>1, <3>2, <3>3, <3>4, <3>5, StillRows
  <2> QED
    BY <2>1, <2>2
<1>6. CASE NoModel(r)
  <2>1. turn[r].pc = "fallback" /\ Finish(r, Error1(r), FALSE)
    BY <1>6 DEF NoModel
  <2>2. turn[r].frozen = 0
    BY <1>3, <2>1 DEF Counts
  <2> QED
    BY <1>1, <1>3, <2>1, <2>2, TextsShow, FinishRows
<1> QED
  BY <1>4, <1>5, <1>6

LEMMA InterruptedRows ==
  ASSUME TalksInv, RowsInv, NEW r \in Turns, Interrupted(r)
  PROVE  RowsInv'
<1>1. /\ turn[r].pc = "stream" /\ turn[r].pc \in Waiting /\ turn[r].pc \in Running
      /\ turn[r].pc \in UnderWay /\ ~turn[r].stopped
  BY DEF Interrupted, Streaming, Waiting, Running, UnderWay
<1>2. TurnRecord(turn[r]) /\ RowFits(Page, turn[r], r, Crowded(turn) \cup {r})
      /\ turn = [o \in Turns |-> turn[o]]
  BY <1>1, TurnIsKnown
<1>3. Counts(turn[r])
  BY <1>2 DEF RowFits
<1>4. CASE turn[r].said > 0 /\ Finish(r, Reply1(r), FALSE)
  <2>1. SaysOn(turn[r]) => Reply1(r) # Blank
    BY <1>3, <1>4, TextsShow DEF SaysOn
  <2> QED
    BY <1>1, <1>4, <2>1, FinishRows
<1>5. CASE turn[r].said = 0 /\ Finish(r, Error1(r), FALSE)
  <2>1. turn[r].frozen = 0
    BY <1>3, <1>5 DEF Counts
  <2> QED
    BY <1>1, <1>3, <1>5, <2>1, TextsShow, FinishRows
<1>6. ASSUME turn[r].said = 0, NEW next \in {"plain", "fallback"},
             turn' = [turn EXCEPT ![r].pc = next],
             UNCHANGED <<store, active, seq, rows, due, gen>>
      PROVE  RowsInv'
  <2> DEFINE t == [turn[r] EXCEPT !.pc = next]
  <2>1. turn' = [turn EXCEPT ![r] = t]
    BY <1>6
  <2>2. Become(Page)
    BY <1>6 DEF Become, Page
  <2>3. /\ t.pc = next /\ t.kind = turn[r].kind /\ t.alone = turn[r].alone
        /\ t.said = turn[r].said /\ t.frozen = turn[r].frozen /\ t.made = turn[r].made
        /\ t.row = turn[r].row /\ t.stopped = turn[r].stopped
    BY <1>2 DEF TurnRecord
  <2> HIDE DEF t
  <2>4. Settled(Page, t, r)
    BY <1>1, <1>2, <1>6, <2>3 DEF RowFits, Settled
  <2>5. Counts(t) /\ t.pc \in Running
    BY <1>3, <1>6, <2>3 DEF Counts, Running, Waiting
  <2> QED
    BY <1>1, <2>1, <2>2, <2>3, <2>4, <2>5, StillRows
<1> QED
  BY <1>4, <1>5, <1>6 DEF Interrupted

LEMMA AbortedRows ==
  ASSUME TalksInv, RowsInv, NEW r \in Turns, Aborted(r)
  PROVE  RowsInv'
<1>1. turn[r].pc = "stream" /\ turn[r].stopped /\ turn[r].pc \in Waiting
  BY DEF Aborted, Waiting
<1>2. CASE ~reasoned /\ turn[r].models = 0
  BY <1>1, <1>2, CancelRows DEF Aborted
<1>3. CASE ~(~reasoned /\ turn[r].models = 0)
  <2>1. PICK text : Finish(r, text, FALSE)
    BY <1>3 DEF Aborted
  <2> QED
    BY <1>1, <2>1, FinishRows
<1> QED
  BY <1>2, <1>3

LEMMA OtherModelRows ==
  ASSUME TalksInv, RowsInv, NEW r \in Turns, OtherModel(r)
  PROVE  RowsInv'
<1> DEFINE n == turn[r].frozen
           q == Heard(Page, r, n)
           S == Crowded(turn) \cup {r}
<1>1. /\ turn[r].pc = "fallback" /\ turn[r].pc \in Waiting /\ turn[r].pc \in Running
      /\ turn[r].pc \in UnderWay /\ Become(q)
  BY DEF OtherModel, Waiting, Running, UnderWay
<1>2. /\ TurnRecord(turn[r]) /\ RowFits(Page, turn[r], r, S) /\ Tidy(Page, Started(turn))
      /\ S \in SUBSET Turns /\ r \in S /\ turn = [o \in Turns |-> turn[o]]
      /\ Page.gen # NoGen => Page.gen.req \in S
  BY <1>1, TurnIsKnown
<1>3. PICK a : turn' = [turn EXCEPT ![r].pc = "stream", ![r].models = @ + 1,
                                    ![r].attempt = @ + 1, ![r].taken = a]
  BY DEF OtherModel
<1> DEFINE t == [turn[r] EXCEPT !.pc = "stream", !.models = turn[r].models + 1,
                                !.attempt = turn[r].attempt + 1, !.taken = a]
<1>4. turn' = [turn EXCEPT ![r] = t]
  BY <1>2, <1>3 DEF TurnRecord
<1>5. /\ t.pc = "stream" /\ t.kind = turn[r].kind /\ t.alone = turn[r].alone
      /\ t.said = turn[r].said /\ t.frozen = turn[r].frozen /\ t.made = turn[r].made
      /\ t.row = turn[r].row /\ t.stopped = turn[r].stopped
      /\ t.models = turn[r].models + 1
  BY <1>1, <1>2 DEF TurnRecord
<1>6. t.models > 0
  BY <1>2, <1>5 DEF TurnRecord
<1>7. /\ Spares(Page, q, S, {}, Started(turn))
      /\ turn[r].kind = "send" /\ Held(Page, r, turn[r].row) => Held(q, r, turn[r].row)
      /\ turn[r].kind = "send" /\ Page.gen = NoGen /\ Quiet(Page, r)
           => Only(q, r, turn[r].row)
  <2>1. Seated(turn[r], S)
    BY <1>2 DEF RowFits
  <2> HIDE DEF S, n
  <2> QED
    BY <1>2, <2>1, HeardSpares
<1> HIDE DEF t, q
<1>8. Spares(Page, q, S, {r}, Started(turn))
      /\ \A i \in Nat : Upto(Page, r, i) => Upto(q, r, i)
  BY <1>7, SparesUpto
<1>9. Settled(q, t, r)
  BY <1>1, <1>5, <1>6, <1>7, WaitsHow DEF Settled, Waiting
<1>10. Counts(t)
  BY <1>2, <1>5 DEF RowFits, Counts
<1>11. Seated(t, S) /\ Upto(q, r, t.made) /\ t.pc \in Running
  BY <1>1, <1>2, <1>5, <1>8 DEF RowFits, Counts, Seated, Running, Waiting
<1> QED
  BY <1>1, <1>4, <1>5, <1>8, <1>9, <1>10, <1>11, RunningRows

LEMMA SyncAnsweredRows ==
  ASSUME TalksInv, RowsInv, NEW r \in Turns, SyncAnswered(r)
  PROVE  RowsInv'
<1> DEFINE t == [turn[r] EXCEPT !.pc = "listed", !.snap = server]
<1>1. turn[r].pc = "sync" /\ turn[r].pc \in Running /\ turn[r].pc \in UnderWay
  BY DEF SyncAnswered, Running, UnderWay
<1>2. TurnRecord(turn[r]) /\ RowFits(Page, turn[r], r, Crowded(turn) \cup {r})
      /\ turn = [o \in Turns |-> turn[o]]
  BY <1>1, TurnIsKnown
<1>3. turn' = [turn EXCEPT ![r] = t]
  BY <1>2 DEF SyncAnswered, TurnRecord
<1>4. Become(Page)
  BY DEF SyncAnswered, sessionVars, Become, Page
<1>5. /\ t.pc = "listed" /\ t.kind = turn[r].kind /\ t.alone = turn[r].alone
      /\ t.said = turn[r].said /\ t.frozen = turn[r].frozen /\ t.made = turn[r].made
      /\ t.row = turn[r].row
  BY <1>2 DEF TurnRecord
<1> HIDE DEF t
<1>6. Settled(Page, t, r)
  BY <1>1, <1>2, <1>5 DEF RowFits, Settled, SaysOn, Waiting
<1>7. Counts(t) /\ t.pc \in Running
  BY <1>2, <1>5 DEF RowFits, Counts, Running
<1> QED
  BY <1>1, <1>3, <1>4, <1>5, <1>6, <1>7, StillRows

LEMMA EndRows ==
  ASSUME TalksInv, RowsInv, TalksInv', NEW r \in Turns, Listed(r) \/ SyncFailed(r)
  PROVE  RowsInv'
<1> DEFINE t == Ended(turn[r])
           a == Snapshot(Page, turn[r].snap, TRUE, turn[r].chat)
           R == Started(turn)
<1>1. /\ turn[r].pc \in {"sync", "listed"} /\ turn[r].pc \in Running
      /\ turn[r].pc \in UnderWay
  BY DEF Listed, SyncFailed, Running, UnderWay
<1>2. /\ RowFits(Page, turn[r], r, Crowded(turn) \cup {r}) /\ Tidy(Page, R)
      /\ turn = [o \in Turns |-> turn[o]]
  BY <1>1, TurnIsKnown
<1>3. turn' = [turn EXCEPT ![r] = t]
  BY <1>2 DEF Listed, SyncFailed
<1>4. PICK p : Become(Final(p, r)) /\ (p = a \/ p = Recover(Page))
  BY DEF Listed, SyncFailed
<1>5. Rests(Page, p, R)
  <2>1. CASE p = Recover(Page)
    BY <1>2, <2>1, RecoverQuiets, QuietsRests
  <2>2. CASE p = a
    <3>1. Whole(a)
      BY <1>2, KeptBySnapshot DEF Tidy, KeepsGen
    <3> HIDE DEF a
    <3>2. Final(a, r).store = a.store
      BY <3>1, AlikeFinal DEF Alike
    <3>3. store' = a.store
      BY <1>4, <2>2, <3>2 DEF Become
    <3>4. Listing(store')
      BY SoundPage DEF TalksInv, ChatsInv, Sound, Page
    <3>5. Quiets(Page, a, R)
      BY <1>2, <3>3, <3>4, SnapshotQuiets DEF a
    <3> QED
      BY <2>2, <3>5, QuietsRests
  <2> QED
    BY <1>4, <2>1, <2>2
<1> DEFINE q == Final(p, r)
<1>6. Rests(Page, q, R)
  BY <1>5, FinalRests, RestsTwice DEF Rests
<1>7. turn[r].kind = "send" /\ turn[r].alone /\ SaysOn(turn[r]) => Quiet(Page, r)
  BY <1>1, <1>2 DEF RowFits, Settled
<1> HIDE DEF q, t, a
<1>8. Become(q)
  BY <1>4 DEF q
<1>9. turn[r].kind = "send" /\ turn[r].alone /\ SaysOn(turn[r]) => Quiet(q, r)
  BY <1>6, <1>7 DEF Rests
<1>10. RowFits(q, t, r, Crowded(turn) \cup {r}) /\ (t.alone => turn[r].alone)
  BY <1>9, EndedRows DEF t
<1>11. t.pc = "done"
  BY EndedShape DEF t
<1>12. Spares(Page, q, Crowded(turn) \cup {r}, {r}, R)
  BY <1>6, RestsSpares
<1> QED
  BY <1>1, <1>3, <1>8, <1>10, <1>11, <1>12, RowsRunOn

--------------------------------------------------------------------------------
(* The other steps.                                                        *)

LEMMA StopClickRows ==
  ASSUME TalksInv, RowsInv, StopClick
  PROVE  RowsInv'
<1> DEFINE r == gen.req
           t == [turn[r] EXCEPT !.stopped = TRUE]
           q == Stopped(Page)
           S == Crowded(turn) \cup {r}
<1>1. gen # NoGen /\ Become(q) /\ turn' = Halted(turn)
  BY DEF StopClick
<1>2. r \in Turns /\ turn[r].pc \in Running /\ ~turn[r].stopped
  BY <1>1 DEF TalksInv, TurnsInv, GenRuns, Runs
<1> HIDE DEF r
<1>3. /\ TurnRecord(turn[r]) /\ RowFits(Page, turn[r], r, S) /\ Tidy(Page, Started(turn))
      /\ turn = [o \in Turns |-> turn[o]] /\ Sound(Page) /\ Page.gen = gen
  <2>1. turn[r].pc \in UnderWay
    BY <1>2 DEF UnderWay
  <2> QED
    BY <1>2, <2>1, TurnIsKnown
<1>4. turn' = [turn EXCEPT ![r] = t]
  BY <1>1, <1>3 DEF Halted, TurnRecord, r
<1>5. /\ t.pc = turn[r].pc /\ t.kind = turn[r].kind /\ t.alone = turn[r].alone
      /\ t.said = turn[r].said /\ t.frozen = turn[r].frozen /\ t.made = turn[r].made
      /\ t.row = turn[r].row /\ t.stopped = TRUE
  BY <1>3 DEF TurnRecord
<1>6. Rests(Page, q, Started(turn)) /\ (Hers(Page) => Quiet(q, r))
  <2>1. Page.gen # NoGen
    BY <1>1, <1>3
  <2> QED
    BY <1>3, <2>1, StoppedRests DEF r
<1> HIDE DEF q, t
<1>7. Settled(q, t, r)
  <2>1. ASSUME turn[r].kind = "send", turn[r].alone, turn[r].pc \in Waiting PROVE Quiet(q, r)
    <3>1. Held(Page, r, turn[r].row)
      BY <1>2, <1>3, <2>1 DEF RowFits, Settled
    <3> QED
      BY <1>6, <3>1 DEF Held
  <2>2. ASSUME turn[r].kind = "send", turn[r].alone,
               \/ turn[r].pc \in {"sync", "listed"} /\ SaysOn(turn[r])
               \/ turn[r].pc = "done"
        PROVE  Quiet(q, r)
    <3>1. Quiet(Page, r)
      BY <1>3, <2>2 DEF RowFits, Settled
    <3> QED
      BY <1>2, <1>6, <3>1 DEF Rests
  <2>3. Quiet(q, r) => Only(q, r, t.row)
    BY CalmIsOnly DEF Quiet
  <2>4. SaysOn(t) => SaysOn(turn[r])
    BY <1>5 DEF SaysOn
  <2> QED
    BY <1>5, <2>1, <2>2, <2>3, <2>4 DEF Settled
<1>8. Counts(t) /\ Seated(t, S)
  BY <1>3, <1>5 DEF RowFits, Counts, Seated
<1>9. Upto(q, r, t.made)
  BY <1>2, <1>3, <1>5, <1>6 DEF RowFits, Counts, Rests
<1>10. Spares(Page, q, S, {r}, Started(turn))
  BY <1>6, RestsSpares
<1> QED
  BY <1>1, <1>2, <1>4, <1>5, <1>7, <1>8, <1>9, <1>10, RunningRows

\* Turn u is turn t, stopped or not, and not alone unless it and the others are.
Marked(t, u, sole) ==
  /\ u.pc = t.pc /\ u.kind = t.kind /\ u.said = t.said /\ u.frozen = t.frozen
  /\ u.made = t.made /\ u.row = t.row
  /\ u.alone => t.alone /\ sole

LEMMA CrowdMarks ==
  ASSUME TalksInv, NEW r \in Turns, NEW o \in Turns, o # r, NEW h, h = turn \/ h = Halted(turn),
         NEW t, NEW b, b = Crowd([h EXCEPT ![r] = t], r)
  PROVE  Marked(turn[o], b[o], Sole(r))
<1>1. TurnRecord(turn[o])
  BY DEF TalksInv, TurnsInv, TurnsShape
<1>2. h[o] = turn[o] \/ h[o] = [turn[o] EXCEPT !.stopped = TRUE]
  BY HaltedFits
<1>3. DOMAIN h = Turns
  BY DEF Halted, TalksInv, TurnsInv, TurnsShape
<1>4. b[o] = IF Sole(r) THEN h[o] ELSE [h[o] EXCEPT !.alone = FALSE]
  BY <1>3 DEF Crowd
<1>5. TurnRecord(h[o]) /\ Marked(turn[o], h[o], TRUE)
  BY <1>1, <1>2 DEF TurnRecord, Marked
<1>6. CASE Sole(r)
  BY <1>4, <1>5, <1>6 DEF Marked
<1>7. CASE ~Sole(r)
  <2> DEFINE u == [h[o] EXCEPT !.alone = FALSE]
  <2>1. /\ u.pc = h[o].pc /\ u.kind = h[o].kind /\ u.said = h[o].said
        /\ u.frozen = h[o].frozen /\ u.made = h[o].made /\ u.row = h[o].row
        /\ ~u.alone
    BY <1>5 DEF TurnRecord
  <2> HIDE DEF u
  <2>2. b[o] = u
    BY <1>4, <1>7 DEF u
  <2> QED
    BY <1>5, <2>1, <2>2 DEF Marked
<1> QED
  BY <1>6, <1>7

\* A turn begins, alone or not.
LEMMA CrowdRows ==
  ASSUME NEW p, NEW a, RowsFit(p, a), NEW r \in Turns, a[r].pc = "idle",
         NEW sole \in BOOLEAN,
         sole => \A o \in Turns \ {r} : a[o].pc \notin UnderWay,
         NEW b, \A o \in Turns \ {r} : Marked(a[o], b[o], sole),
         b[r].pc \in UnderWay, b[r].alone => sole,
         NEW q, Spares(p, q, {r}, {r}, Started(b)), RowFits(q, b[r], r, {r})
  PROVE  RowsFit(q, b)
<1>1. \A o \in Turns : RowFits(p, a[o], o, Crowded(a) \cup {o})
  BY DEF RowsFit
<1>2. Lone(b)
  <2> SUFFICES ASSUME NEW i \in Turns, NEW j \in Turns,
                      b[i].alone, b[i].pc \in UnderWay, b[j].pc \in UnderWay
               PROVE  j = i
    BY DEF Lone
  <2>1. sole
    BY DEF Marked
  <2>2. \A o \in Turns : o # r => b[o].pc \notin UnderWay
    BY <2>1 DEF Marked
  <2> QED
    BY <2>2
<1>3. Crowded(a) \subseteq Crowded(b)
  <2> SUFFICES ASSUME NEW o \in Crowded(a) PROVE o \in Crowded(b)
    OBVIOUS
  <2>1. o \in Turns /\ a[o].pc \in Running \cup {"done"} /\ ~a[o].alone
    BY DEF Crowded, Started
  <2>2. o # r
    BY <2>1 DEF Running, Waiting
  <2>3. Marked(a[o], b[o], sole)
    BY <2>1, <2>2
  <2> QED
    BY <2>1, <2>3 DEF Crowded, Started, Marked
<1>4. ASSUME NEW o \in Turns PROVE RowFits(q, b[o], o, Crowded(b) \cup {o})
  <2>1. CASE o = r
    <3>1. Seated(b[r], Crowded(b) \cup {r})
      BY SeatedMore DEF RowFits
    <3> QED
      BY <2>1, <3>1 DEF RowFits
  <2>2. CASE o # r
    <3>1. Marked(a[o], b[o], sole) /\ RowFits(p, a[o], o, Crowded(a) \cup {o})
      BY <1>1, <2>2
    <3>2. Counts(b[o])
      BY <3>1 DEF Marked, RowFits, Counts
    <3>3. Seated(b[o], Crowded(b) \cup {o})
      <4>1. Seated(a[o], Crowded(b) \cup {o})
        BY <1>3, <3>1, SeatedMore DEF RowFits
      <4> QED
        BY <3>1, <4>1 DEF Marked, Seated
    <3>4. b[o].pc \in Running => Upto(q, o, b[o].made)
      BY <2>2, <3>1, <3>2 DEF Marked, RowFits, Counts, Spares
    <3>5. Settled(q, b[o], o)
      <4> SUFFICES ASSUME b[o].kind = "send", b[o].alone
                   PROVE  /\ b[o].pc \notin Running
                          /\ b[o].pc = "done" => Quiet(q, o)
        BY DEF Settled, Running
      <4>1. sole /\ a[o].alone /\ a[o].pc \notin UnderWay
        BY <2>2, <3>1 DEF Marked
      <4>2. b[o].pc \notin Running
        BY <3>1, <4>1 DEF Marked, UnderWay
      <4>3. ASSUME b[o].pc = "done" PROVE Quiet(q, o)
        <5>1. Quiet(p, o)
          BY <3>1, <4>1, <4>3 DEF Marked, RowFits, Settled, SaysOn
        <5> QED
          BY <2>2, <5>1 DEF Spares
      <4> QED
        BY <4>2, <4>3
    <3> QED
      BY <3>2, <3>3, <3>4, <3>5 DEF RowFits
  <2> QED
    BY <2>1, <2>2
<1> QED
  BY <1>2, <1>4 DEF RowsFit, Spares

\* Turn r becomes t, and the page q.
LEMMA RowsBegin ==
  ASSUME TalksInv, RowsInv, NEW r \in Turns, turn[r].pc = "idle",
         NEW h, h = turn \/ h = Halted(turn), NEW t, turn' = Crowd([h EXCEPT ![r] = t], r),
         t.pc \in UnderWay, t.alone => Sole(r), NEW q, Become(q),
         NEW R, R = Started(turn) \cup (IF t.pc \in Running THEN {r} ELSE {}),
         Spares(Page, q, {r}, {r}, R), RowFits(q, t, r, {r})
  PROVE  RowsInv'
<1> DEFINE b == Crowd([h EXCEPT ![r] = t], r)
           sole == Sole(r)
<1>1. DOMAIN h = Turns
  BY DEF Halted, TalksInv, TurnsInv, TurnsShape
<1>2. b[r] = t
  BY <1>1 DEF Crowd
<1>3. \A o \in Turns \ {r} : Marked(turn[o], b[o], sole)
  <2> HIDE DEF b
  <2> SUFFICES ASSUME NEW o \in Turns, o # r PROVE Marked(turn[o], b[o], sole)
    OBVIOUS
  <2> QED
    BY CrowdMarks DEF b
<1> HIDE DEF b
<1>4. sole \in BOOLEAN /\ (sole => \A o \in Turns \ {r} : turn[o].pc \notin UnderWay)
  BY DEF Sole
<1> HIDE DEF sole
<1>5. R = Started(b)
  <2>1. \A o \in Turns : o # r => b[o].pc = turn[o].pc
    BY <1>3 DEF Marked
  <2>2. t.pc # "done" /\ turn[r].pc \notin Running \cup {"done"}
    BY DEF UnderWay, Running, Waiting
  <2>3. Started(b) = {o \in Turns : b[o].pc \in Running \cup {"done"}}
    BY DEF Started
  <2>4. Started(turn) = {o \in Turns : turn[o].pc \in Running \cup {"done"}}
    BY DEF Started
  <2> QED
    BY <1>2, <2>1, <2>2, <2>3, <2>4
<1>6. RowsFit(q, b)
  <2>1. RowsFit(Page, turn)
    BY DEF RowsInv
  <2>2. Spares(Page, q, {r}, {r}, Started(b))
    BY <1>5
  <2>3. RowFits(q, b[r], r, {r}) /\ b[r].pc \in UnderWay /\ (b[r].alone => sole)
    BY <1>2 DEF sole
  <2> QED
    BY <1>3, <1>4, <2>1, <2>2, <2>3, CrowdRows
<1>7. Page' = q
  BY PageBecomes DEF Spares, Tidy
<1>8. turn' = b
  BY DEF b
<1> QED
  BY <1>6, <1>7, <1>8 DEF RowsInv

LEMMA SubmitRows ==
  ASSUME TalksInv, RowsInv, NEW r \in Turns, Submit(r)
  PROVE  RowsInv'
<1> DEFINE c == Readied.active
           m == Msg(UserId(r), "user", Plain(UserId(r), 1))
           t == [Unused EXCEPT !.pc = "prepare", !.chat = c, !.alone = Sole(r)]
           q == Posted(Readied, c, m)
           h == Halted(turn)
           R == Started(turn)
<1>1. turn[r].pc = "idle" /\ Become(q) /\ turn' = Crowd([h EXCEPT ![r] = t], r)
  BY DEF Submit, InTurn, Readied, Posted
<1>2. /\ t.pc = "prepare" /\ t.said = 0 /\ t.frozen = 0 /\ t.made = 0 /\ t.row = NoRow
      /\ t.alone = Sole(r)
  BY DEF Unused, NoRow
<1>3. MsgRecord(m)
  BY IdsAreOwn, MsgMade DEF OwnIds
<1>4. Tidy(Page, R)
  BY DEF RowsInv, RowsFit
<1> HIDE DEF m, t, c, h
<1>5. Rests(Page, Readied, R) /\ Sound(Readied)
  BY <1>4, ReadiedRests
<1>6. Rests(Readied, q, R)
  BY <1>3, <1>5, PostedRests, QuietsRests DEF Rests
<1> HIDE DEF q
<1>7. Spares(Page, q, {r}, {r}, R)
  BY <1>5, <1>6, RestsTwice, RestsSpares
<1>8. RowFits(q, t, r, {r})
  BY <1>2 DEF RowFits, Counts, Seated, Settled, Running, Waiting
<1>9. R = Started(turn) \cup (IF t.pc \in Running THEN {r} ELSE {}) /\ t.pc \in UnderWay
  BY <1>2 DEF Running, Waiting, UnderWay
<1>10. h = turn \/ h = Halted(turn)
  BY DEF h
<1> HIDE DEF R
<1> QED
  BY <1>1, <1>2, <1>7, <1>8, <1>9, <1>10, RowsBegin

LEMMA ContinueRows ==
  ASSUME TalksInv, RowsInv, NEW r \in Turns, NEW i \in DOMAIN rows, Continue(r, i)
  PROVE  RowsInv'
<1> DEFINE old == rows[i]
           key == <<r, 1>>
           t == [Unused EXCEPT !.pc = "profile", !.kind = "continue",
                               !.chat = old.chat, !.mid = old.id,
                               !.row = key, !.made = 1, !.alone = Sole(r)]
           o == [Page EXCEPT !.rows = Rekey(@, old.key, key), !.gen = Generation(r, old.chat, key)]
           q == Recover(Show(o, key, Blank, TRUE))
           R == Started(turn) \cup {r}
<1>1. turn[r].pc = "idle" /\ Become(q) /\ turn' = Crowd([turn EXCEPT ![r] = t], r)
  BY DEF Continue, InTurn
<1>2. /\ t.pc = "profile" /\ t.said = 0 /\ t.frozen = 0 /\ t.made = 1 /\ t.row = key
      /\ t.kind = "continue" /\ t.alone = Sole(r)
  BY DEF Unused
<1>3. Tidy(Page, Started(turn))
  BY DEF RowsInv, RowsFit
<1>4. Absent(Page, r)
  BY <1>1, EarlyIsAbsent DEF Running, Waiting
<1>5. Spares(Page, q, {r}, {r}, R) /\ Upto(q, r, 1)
  <2> HIDE DEF old
  <2> QED
    BY <1>3, <1>4, TakenOverSpares
<1>6. key \in {r} \X Int
  BY TurnsAreNumbers
<1> HIDE DEF t, q, key, old
<1>7. RowFits(q, t, r, {r})
  <2>1. Counts(t) /\ Seated(t, {r})
    BY <1>2, <1>6 DEF Counts, Seated
  <2> QED
    BY <1>2, <1>5, <2>1 DEF RowFits, Settled
<1>8. R = Started(turn) \cup (IF t.pc \in Running THEN {r} ELSE {}) /\ t.pc \in UnderWay
  BY <1>2 DEF Running, Waiting, UnderWay
<1> HIDE DEF R
<1> QED
  BY <1>1, <1>2, <1>5, <1>7, <1>8, RowsBegin

--------------------------------------------------------------------------------
(* The steps of the calls, and all steps.                                  *)

\* No turn goes on, and rows wait only where they did.
LEMMA RowsStay ==
  ASSUME TalksInv, RowsInv, NEW q, Quiets(Page, q, Started(turn)), Become(q), turn' = turn
  PROVE  RowsInv'
<1> DEFINE R == Started(turn)
<1>1. Tidy(q, R) /\ Lone(turn)
  BY DEF Quiets, RowsInv, RowsFit
<1>2. ASSUME NEW r \in Turns PROVE RowFits(q, turn[r], r, Crowded(turn) \cup {r})
  <2>1. RowFits(Page, turn[r], r, Crowded(turn) \cup {r})
    BY DEF RowsInv, RowsFit
  <2>2. turn[r].pc \in Running => Upto(q, r, turn[r].made)
    BY <2>1 DEF RowFits, Counts, Quiets
  <2>3. Quiet(Page, r) => Quiet(q, r)
    BY DEF Quiets
  <2>4. Settled(q, turn[r], r)
    <3> SUFFICES ASSUME turn[r].kind = "send", turn[r].alone PROVE Settled(q, turn[r], r)
      BY DEF Settled
    <3>1. turn[r].pc \in Waiting /\ ~turn[r].stopped => Held(q, r, turn[r].row)
      BY <2>1, QuietsHold DEF RowFits, Settled
    <3>2. ASSUME turn[r].pc \in Waiting, turn[r].stopped
          PROVE  IF turn[r].pc = "stream" /\ turn[r].models > 0 THEN Only(q, r, turn[r].row)
                                                                ELSE Quiet(q, r)
      <4>1. /\ Page.gen = NoGen
            /\ IF turn[r].pc = "stream" /\ turn[r].models > 0 THEN Only(Page, r, turn[r].row)
                                                              ELSE Quiet(Page, r)
        BY <3>2, WaitsHow
      <4>2. Only(Page, r, turn[r].row) => Only(q, r, turn[r].row)
        BY <4>1 DEF Quiets
      <4> QED
        BY <2>3, <4>1, <4>2
    <3> QED
      BY <2>1, <2>3, <3>1, <3>2 DEF RowFits, Settled
  <2> QED
    BY <2>1, <2>2, <2>4 DEF RowFits
<1>3. RowsFit(q, turn)
  BY <1>1, <1>2 DEF RowsFit
<1>4. Page' = q
  BY <1>1, PageBecomes DEF Tidy
<1> QED
  BY <1>3, <1>4 DEF RowsInv

LEMMA CreatedQuiets ==
  ASSUME Sound(Page), fresh \in Nat, NEW R, Tidy(Page, R), NEW c \in Nat \ {0}
  PROVE  Quiets(Page, CreateLocally(c), R)
<1> DEFINE hello == Msg(fresh + 1, "assistant", Plain(fresh + 1, 1))
           t == <<Chat(c, "old", <<>>)>> \o store
           o == Changed(t)
           made == Activate(o, c, TRUE)
           said == Persist(made, c, hello)
<1>1. CreateLocally(c) = Add(said, <<None, hello.id>>, c, hello, FALSE)
  BY DEF CreateLocally, Add
<1>2. MsgRecord(hello)
  <2>1. fresh + 1 \in Int \ {0}
    OBVIOUS
  <2> QED
    BY <2>1, MsgMade
<1> HIDE DEF hello
<1>3. Listing(t)
  BY SoundPage, EmptyTalk, AddedShape DEF ChatIds
<1> HIDE DEF t
<1>4. Whole(o) /\ o.store = t /\ o.seq \in Nat /\ o.gen = Page.gen /\ o.rows = Page.rows
  <2>1. o.gen = Page.gen /\ o.rows = Page.rows
    BY DEF Changed, Page
  <2> QED
    BY <2>1, SoundPage, AnotherList
<1> HIDE DEF o
<1>5. Sound(made)
  <2> HIDE DEF made
  <2>1. made = Activate(o, c, TRUE)
    BY DEF made
  <2> QED
    BY <1>3, <1>4, <2>1, ActivateShape DEF Activated
<1>6. Quiets(Page, made, R)
  <2> HIDE DEF made
  <2>1. made = Activate(o, c, TRUE) /\ Listing(made.store)
    BY <1>5 DEF made, Sound
  <2> QED
    BY <1>4, <2>1, ChangedQuiets
<1> HIDE DEF made
<1>7. Quiets(made, said, R)
  BY <1>2, <1>5, <1>6, PersistQuiets DEF Quiets
<1> HIDE DEF said
<1>8. Quiets(said, Add(said, <<None, hello.id>>, c, hello, FALSE), R)
  BY <1>2, <1>7, AddQuiets DEF Quiets
<1> QED
  BY <1>1, <1>6, <1>7, <1>8, QuietsTwice

\* What a handler makes of the page when its call failed.
LEMMA AmendedQuiets ==
  ASSUME Sound(Page), fresh \in Nat, NEW R, Tidy(Page, R),
         NEW c, c.kind = "create" => c.chat \in Nat \ {0}
  PROVE  Quiets(Page, Amended(c), R)
<1> DEFINE q == Amended(c)
<1>1. Listing(q.store) /\ Whole(q)
  BY AmendedShape DEF AmendedFor, Sound
<1>2. ASSUME NEW o, Whole(o), o.gen = Page.gen, o.rows = Page.rows, NEW target, NEW render,
             q = Activate(o, target, render)
      PROVE  Quiets(Page, q, R)
  <2> HIDE DEF q
  <2> QED
    BY <1>1, <1>2, ChangedQuiets
<1>3. CASE q = Page
  BY <1>3, QuietsItself
<1>4. CASE q = Renamed(Page, c.chat)
  BY <1>1, <1>4, RenamedQuiets
<1>5. ASSUME NEW msgs, q = AmendLocally(c.chat, msgs) PROVE Quiets(Page, q, R)
  <2> DEFINE o == Changed(WithMsgs(store, c.chat, msgs))
  <2>1. Whole(o) /\ o.gen = Page.gen /\ o.rows = Page.rows
    BY DEF Changed, Page, Tidy, Whole
  <2>2. q = Activate(o, c.chat, c.chat = active)
    BY <1>5 DEF AmendLocally
  <2> HIDE DEF o, q
  <2> QED
    BY <1>2, <2>1, <2>2
<1>6. ASSUME q = DeleteLocally(c.chat) PROVE Quiets(Page, q, R)
  <2>1. PICK s, a : q = Activate([Changed(s) EXCEPT !.active = a], a, TRUE)
    BY <1>6 DEF DeleteLocally
  <2> DEFINE o == [Changed(s) EXCEPT !.active = a]
  <2>2. Whole(o) /\ o.gen = Page.gen /\ o.rows = Page.rows
    BY DEF Changed, Page, Tidy, Whole
  <2>3. q = Activate(o, a, TRUE)
    BY <2>1
  <2> HIDE DEF o, q
  <2> QED
    BY <1>2, <2>2, <2>3
<1>7. ASSUME q = DuplicateLocally(c.chat) PROVE Quiets(Page, q, R)
  <2>1. PICK s : q = Activate([Changed(s) EXCEPT !.seq = @ + 1], seq + 1, TRUE)
    BY <1>7 DEF DuplicateLocally
  <2> DEFINE o == [Changed(s) EXCEPT !.seq = @ + 1]
  <2>2. Whole(o) /\ o.gen = Page.gen /\ o.rows = Page.rows
    BY DEF Changed, Page, Tidy, Whole
  <2>3. q = Activate(o, seq + 1, TRUE)
    BY <2>1
  <2> HIDE DEF o, q
  <2> QED
    BY <1>2, <2>2, <2>3
<1>8. ASSUME q = WipeLocally PROVE Quiets(Page, q, R)
  <2>1. q.gen = Page.gen /\ q.rows = <<>>
    BY <1>8 DEF WipeLocally, Changed, Page
  <2>2. IsList(q.rows) /\ \A x \in Elements(q.rows) : DrawnRow(x) \/ x \in Elements(Page.rows)
    BY <2>1, EmptyRows
  <2> HIDE DEF q
  <2> QED
    BY <1>1, <2>1, <2>2, RedrawnQuiets
<1>9. CASE q = CreateLocally(c.chat) /\ c.kind = "create"
  BY <1>9, CreatedQuiets
<1>10. CASE q = ClearLocally(c.chat)
  BY <1>5, <1>10 DEF ClearLocally
<1>11. CASE q = EditLocally(c.chat, c.msg)
  BY <1>5, <1>11 DEF EditLocally
<1>12. CASE q = RemoveLocally(c.chat, c.msg)
  BY <1>5, <1>12 DEF RemoveLocally
<1> QED
  BY <1>3, <1>4, <1>6, <1>7, <1>8, <1>9, <1>10, <1>11, <1>12 DEF Amended

\* A step of the chats, on which the turns do nothing.
LEMMA SessionRows ==
  ASSUME TalksInv, TalksInv', RowsInv, SessionNext, turn' = turn
  PROVE  RowsInv'
<1> DEFINE R == Started(turn)
<1>1. Tidy(Page, R) /\ Sound(Page) /\ fresh \in Nat
  BY DEF RowsInv, RowsFit, TalksInv, ChatsInv
<1>2. Page.store = store /\ Page.gen = gen /\ Page.rows = rows /\ Listing(store)
  BY <1>1, SoundPage DEF Page
<1>3. Listing(store')
  BY DEF TalksInv, ChatsInv, Sound, Page
<1>4. ASSUME NEW c, Switch(c) PROVE RowsInv'
  <2>1. Become(Activate(Page, c, TRUE))
    BY <1>4 DEF Switch
  <2>2. Quiets(Page, Activate(Page, c, TRUE), R)
    BY <1>1, <1>2, ActivateQuiets
  <2> QED
    BY <2>1, <2>2, RowsStay
<1>5. CASE CommitRender
  <2> DEFINE q == [Page EXCEPT !.rows = Drawn(store, active), !.due = FALSE]
  <2>1. Become(q)
    BY <1>5 DEF CommitRender, Become, Page
  <2>2. Whole(q) /\ q.gen = Page.gen /\ q.rows = Drawn(store, active)
    BY <1>1 DEF Page, Whole, Tidy
  <2> HIDE DEF q
  <2>3. Quiets(Page, q, R)
    BY <1>1, <1>2, <2>2, DrawnRows, RedrawnQuiets
  <2> QED
    BY <2>1, <2>3, RowsStay
<1>6. ASSUME UNCHANGED <<store, active, rows, due, gen>> PROVE RowsInv'
  <2> DEFINE q == [Page EXCEPT !.seq = seq']
  <2>1. Become(q)
    BY <1>6 DEF Become, Page
  <2>2. Whole(q) /\ q.gen = Page.gen /\ q.rows = Page.rows
    BY <1>1 DEF Page, Whole, Tidy
  <2>3. PICK p : p = q
    OBVIOUS
  <2> HIDE DEF q
  <2>4. Whole(p) /\ p.gen = Page.gen /\ p.rows = Page.rows /\ Become(p)
    BY <2>1, <2>2, <2>3
  <2>5. Quiets(Page, p, R)
    BY <1>1, <2>4, SameRowsQuiets
  <2> QED
    BY <2>4, <2>5, RowsStay
<1>7. ASSUME NEW k \in Calls, ApplyAnswer(k) PROVE RowsInv'
  <2> DEFINE q == Snapshot(Page, call[k].snap, Preserves(call[k]), Prefers(call[k]))
  <2>1. Become(q)
    BY <1>7 DEF ApplyAnswer
  <2>2. Listing(q.store)
    BY <1>3, <2>1 DEF Become
  <2>3. Quiets(Page, q, R)
    BY <1>1, <2>2, SnapshotQuiets
  <2> HIDE DEF q
  <2> QED
    BY <2>1, <2>3, RowsStay
<1>8. ASSUME NEW k \in Calls, Fallback(k) PROVE RowsInv'
  <2> DEFINE q == Amended(call[k])
  <2>1. Become(q)
    BY <1>8 DEF Fallback
  <2>2. call[k].kind = "create" => call[k].chat \in Nat \ {0}
    BY DEF TalksInv, ChatsInv, CallsFit, CallFits
  <2>3. Quiets(Page, q, R)
    BY <1>1, <2>2, AmendedQuiets
  <2> HIDE DEF q
  <2> QED
    BY <2>1, <2>3, RowsStay
<1>9. CASE UserStep
  <2>1. ASSUME NEW k \in Calls,
               \/ \E kind \in Kinds : \E target \in Targets(kind) :
                    MenuCall(k, kind, target) \/ ApiCall(k, kind, target)
               \/ ApiImport(k) \/ ImportCall(k) \/ WipeCall(k) \/ CreateCall(k)
               \/ \E yes \in BOOLEAN : Answer(k, yes)
        PROVE  UNCHANGED <<store, active, rows, due, gen>>
    BY <2>1 DEF MenuCall, ApiCall, ApiImport, ImportCall, WipeCall, CreateCall, Answer, Start
  <2> QED
    BY <1>4, <1>6, <1>9, <2>1 DEF UserStep
<1>10. ASSUME NEW k \in Calls, CallStep(k) PROVE RowsInv'
  <2>1. CASE Serve(k) \/ Break(k)
    BY <1>6, <2>1 DEF Serve, Break
  <2> QED
    BY <1>7, <1>8, <1>10, <2>1 DEF CallStep
<1> QED
  BY <1>5, <1>9, <1>10 DEF SessionNext

LEMMA RegeneratesBySubmit ==
  ASSUME NEW r, NEW i, Regenerate(r, i)
  PROVE  Submit(r)
BY DEF Regenerate

LEMMA TurnRows ==
  ASSUME TalksInv, TalksInv', RowsInv, script \in Script,
         NEW r \in Turns, Ask(r) \/ Allowed(r) \/ Advance(r)
  PROVE  RowsInv'
<1>1. CASE Ask(r)
  BY <1>1, RegeneratesBySubmit, SubmitRows, ContinueRows DEF Ask
<1>2. CASE Allowed(r)
  BY <1>2, AllowedRows
<1>3. CASE Advance(r)
  <2>1. CASE Planned(r) \/ Refuse(r) \/ Profiled(r)
    BY <2>1, PlannedRows, RefuseRows, ProfiledRows
  <2>2. CASE Partial(r) \/ ToolStart(r) \/ AntiLoop(r)
    BY <2>2, PartialRows, ToolStartRows, AntiLoopRows
  <2>3. CASE (\E title \in script.titles : Done(r, title)) \/ Plainly(r) \/ NoModel(r)
    BY <2>3, DoneRows
  <2>4. CASE Interrupted(r) \/ Aborted(r) \/ OtherModel(r)
    BY <2>4, InterruptedRows, AbortedRows, OtherModelRows
  <2>5. CASE SyncAnswered(r) \/ Listed(r) \/ SyncFailed(r)
    BY <2>5, SyncAnsweredRows, EndRows
  <2> QED
    BY <1>3, <2>1, <2>2, <2>3, <2>4, <2>5 DEF Advance
<1> QED
  BY <1>1, <1>2, <1>3

LEMMA RowsBeginQuiet == ASSUME TalksInv, TurnsInit PROVE RowsInv
<1>1. /\ \A r \in Turns : turn[r] = Unused
      /\ gen = NoGen /\ rows = Drawn(store, active)
  BY DEF TurnsInit, SessionInit
<1>2. Started(turn) = {}
  BY <1>1 DEF Started, Unused, Running, Waiting
<1>3. Tidy(Page, {})
  <2>1. Whole(Page) /\ Listing(store)
    BY SoundPage DEF TalksInv, ChatsInv
  <2>2. Page.rows = Drawn(store, active) /\ Page.gen = NoGen
    BY <1>1 DEF Page
  <2>3. IsList(Page.rows) /\ \A x \in Elements(Page.rows) : DrawnRow(x)
    BY <2>1, <2>2, DrawnRows
  <2>4. Rowed(Page, {})
    <3>1. \A x \in Elements(Page.rows) : RowRecord(x) /\ x.key[1] = None /\ x.wait = FALSE
      BY <2>3 DEF DrawnRow, RowRecord
    <3> QED
      BY <2>3, <3>1 DEF Rowed
  <2> QED
    BY <2>1, <2>2, <2>4 DEF Tidy, Numbered
<1>4. Lone(turn)
  BY <1>1 DEF Lone, Unused, UnderWay, Running, Waiting
<1>5. ASSUME NEW r \in Turns PROVE RowFits(Page, turn[r], r, Crowded(turn) \cup {r})
  <2>1. /\ turn[r].pc = "idle" /\ turn[r].said = 0 /\ turn[r].frozen = 0 /\ turn[r].made = 0
        /\ turn[r].row = NoRow
    BY <1>1 DEF Unused, NoRow
  <2> QED
    BY <2>1 DEF RowFits, Counts, Seated, Settled, Running, Waiting
<1> QED
  BY <1>2, <1>3, <1>4, <1>5 DEF RowsInv, RowsFit

\* The script of a behaviour stays one of those given.
LEMMA ScriptStays == [TurnsNext]_turnVars => UNCHANGED script
<1> SUFFICES ASSUME [TurnsNext]_turnVars PROVE UNCHANGED script
  OBVIOUS
<1>1. ASSUME NEW r, NEW text, NEW title, Finish(r, text, title) PROVE UNCHANGED script
  BY <1>1 DEF Finish
<1>2. ASSUME NEW r, Cancel(r) PROVE UNCHANGED script
  BY <1>2 DEF Cancel
<1>3. ASSUME NEW r \in Turns, Ask(r) PROVE UNCHANGED script
  BY <1>3 DEF Ask, Regenerate, Submit, Continue
<1>4. ASSUME NEW r \in Turns, Advance(r) PROVE UNCHANGED script
  <2>1. CASE Planned(r) \/ Refuse(r) \/ Partial(r) \/ ToolStart(r) \/ OtherModel(r)
             \/ SyncAnswered(r) \/ Listed(r) \/ SyncFailed(r)
    BY <2>1 DEF Planned, Refuse, Partial, ToolStart, OtherModel, SyncAnswered, Listed,
                SyncFailed
  <2>2. CASE Profiled(r) \/ AntiLoop(r) \/ Interrupted(r) \/ Aborted(r) \/ Plainly(r)
             \/ NoModel(r) \/ \E title \in script.titles : Done(r, title)
    BY <1>1, <1>2, <2>2 DEF Profiled, AntiLoop, Interrupted, Aborted, Plainly, NoModel, Done
  <2> QED
    BY <1>4, <2>1, <2>2 DEF Advance
<1>5. CASE TurnsNext
  BY <1>3, <1>4, <1>5 DEF TurnsNext, StopClick, Allowed
<1> QED
  BY <1>5 DEF turnVars

\* A script of the constant is followed at all times.
ScriptGiven == script \in Script

\* The rows that wait are those of turns whose reply is still to come, or whose
\* turn was not alone.
THEOREM RowsKept == TurnsSpec => []RowsInv
<1>1. TurnsInit => ScriptGiven /\ (TalksInv => RowsInv)
  BY TurnsAssumption, RowsBeginQuiet DEF TurnsInit, ScriptGiven
<1>2. ScriptGiven /\ [TurnsNext]_turnVars => ScriptGiven'
  BY ScriptStays DEF ScriptGiven
<1>3. RowsInv /\ ScriptGiven /\ TalksInv /\ TalksInv' /\ [TurnsNext]_turnVars => RowsInv'
  <2> SUFFICES ASSUME RowsInv, ScriptGiven, TalksInv, TalksInv', [TurnsNext]_turnVars
               PROVE  RowsInv'
    OBVIOUS
  <2>1. CASE TurnsNext
    BY <2>1, SessionRows, StopClickRows, TurnRows DEF TurnsNext, ScriptGiven
  <2>2. CASE UNCHANGED turnVars
    BY <2>2 DEF turnVars, sessionVars, RowsInv, Page
  <2> QED
    BY <2>1, <2>2
<1> QED
  BY <1>1, <1>2, <1>3, TalksKept, PTL DEF TurnsSpec

\* No row of the page waits for a submitted turn that has ended, if it was alone and
\* said something after its last tool, whatever was redrawn, answered, stopped or
\* retried meanwhile (syncState, updateMessageRowContent, stopActiveGeneration).
THEOREM NoRowIsStuck == TurnsSpec => []NoStuckRow
<1>1. RowsInv => NoStuckRow
  <2> SUFFICES ASSUME RowsInv, NEW r \in Turns, turn[r].pc = "done", turn[r].kind = "send",
                      turn[r].alone, NEW i \in DOMAIN rows, rows[i].key[1] = r
               PROVE  ~rows[i].wait
    BY DEF NoStuckRow
  <2>1. Quiet(Page, r)
    BY DEF RowsInv, RowsFit, RowFits, Settled
  <2>2. rows[i] \in Elements(Page.rows)
    BY DEF Elements, Page
  <2> QED
    BY <2>1, <2>2 DEF Quiet, Calm
<1> QED
  BY <1>1, RowsKept, PTL
================================================================================
