------------------------ MODULE HistoryCompression_proofs -----------------------
(***************************************************************************)
(* Facts about the operators of HistoryCompression, for every history: the *)
(* folds it is built from, the shapes that a candidate can have, and which *)
(* candidate is taken.                                                     *)
(***************************************************************************)
EXTENDS HistoryCompression, WellFoundedInduction, TLAPS

\* Induction up to n, for the set of the numbers of which something is true.
LEMMA Induct ==
  ASSUME NEW n \in Nat, NEW T, 0 \in T, \A i \in 0..(n - 1) : i \in T => i + 1 \in T
  PROVE  0..n \subseteq T
<1> DEFINE Rest == (0..n) \ T
<1>1. SUFFICES ASSUME Rest # {} PROVE FALSE
  OBVIOUS
<1>2. Rest \subseteq Nat
  OBVIOUS
<1>3. PICK i \in Rest : \A j \in Rest : <<j, i>> \notin OpToRel(<, Nat)
  <2> HIDE DEF Rest
  <2> QED
    BY <1>1, <1>2, NatLessThanWellFounded, WFMin
<1>4. \A j \in Rest : ~(j < i)
  BY <1>2, <1>3 DEF OpToRel
<1>5. i \in 0..n /\ i \notin T /\ i # 0
  OBVIOUS
<1>6. i - 1 \in 0..(n - 1) /\ i - 1 < i
  BY <1>5
<1>7. i - 1 \in T
  BY <1>4, <1>6
<1>8. (i - 1) + 1 \in T
  BY <1>6, <1>7
<1> QED
  BY <1>5, <1>8

LEMMA MaxIsMember ==
  ASSUME NEW n \in Nat, NEW s \in SUBSET (1..n), s # {}
  PROVE  Max(s) \in s /\ \A i \in s : i <= Max(s)
<1> DEFINE Ages == {n - i : i \in s}
<1>1. Ages \subseteq Nat
  <2> SUFFICES ASSUME NEW i \in s PROVE n - i \in Nat
    OBVIOUS
  <2>1. i \in 1..n
    OBVIOUS
  <2> QED
    BY <2>1
<1>2. PICK a \in Ages : \A b \in Ages : <<b, a>> \notin OpToRel(<, Nat)
  <2>1. Ages # {}
    OBVIOUS
  <2> HIDE DEF Ages
  <2> QED
    BY <1>1, <2>1, NatLessThanWellFounded, WFMin
<1>3. PICK x \in s : a = n - x
  OBVIOUS
<1>4. \A y \in s : x >= y
  <2> TAKE y \in s
  <2>1. n - y \in Ages /\ ~(n - y < n - x)
    BY <1>1, <1>2, <1>3 DEF OpToRel
  <2>2. x \in 1..n /\ y \in 1..n
    OBVIOUS
  <2> QED
    BY <2>1, <2>2
<1>5. Max(s) \in s /\ \A y \in s : Max(s) >= y
  BY <1>4 DEF Max
<1>6. \A y \in s : y \in Int
  OBVIOUS
<1> QED
  BY <1>5, <1>6

LEMMA MaxOfRange ==
  ASSUME NEW i \in Nat \ {0}
  PROVE  Max(1..i) = i /\ (1..i) \ {i} = 1..(i - 1)
<1>1. 1..i \in SUBSET (1..i) /\ i \in 1..i
  OBVIOUS
<1>2. Max(1..i) \in 1..i /\ \A j \in 1..i : j <= Max(1..i)
  BY <1>1, MaxIsMember
<1> QED
  BY <1>1, <1>2

\* A fold over the subsets of 1..n, as the community modules define it.
Folds(it, n, base, step) ==
  \A s \in SUBSET (1..n) :
    it[s] = IF s = {} THEN base ELSE step[Max(s)][it[s \ {Max(s)}]]

\* The values that a fold takes on its way.
Runs(g, n, base, step) == g[0] = base /\ \A i \in 1..n : g[i] = step[i][g[i - 1]]

\* What a fold has of it is the last of those values, as long as they stay in V.
Unfolds(it, n, V, base, step) ==
  /\ it[{}] = base
  /\ \A i \in 1..n : it[1..(i - 1)] \in V => it[1..i] = step[i][it[1..(i - 1)]]

\* A fold with a step for each index exists.
LEMMA FoldExists ==
  ASSUME NEW n \in Nat, NEW V, NEW base \in V, NEW step \in [1..n -> [V -> V]]
  PROVE  \E it \in [SUBSET (1..n) -> V] : Folds(it, n, base, step)
<1> DEFINE Good(k, it) == Folds(it, k, base, step)
           T == {k \in 0..n : \E it \in [SUBSET (1..k) -> V] : Good(k, it)}
<1>1. 0 \in T
  <2> DEFINE it0 == [s \in SUBSET (1..0) |-> base]
  <2>1. it0 \in [SUBSET (1..0) -> V]
    OBVIOUS
  <2>2. \A s \in SUBSET (1..0) : s = {}
    OBVIOUS
  <2>3. Good(0, it0)
    BY <2>2 DEF Folds
  <2>4. 0 \in 0..n
    OBVIOUS
  <2> HIDE DEF Good, it0
  <2> QED
    BY <2>1, <2>3, <2>4
<1>2. ASSUME NEW k \in 0..(n - 1), k \in T PROVE k + 1 \in T
  <2>1. PICK it \in [SUBSET (1..k) -> V] : Good(k, it)
    BY <1>2
  <2> DEFINE more == [s \in SUBSET (1..(k + 1)) |->
                        IF k + 1 \in s THEN step[k + 1][it[s \ {k + 1}]] ELSE it[s]]
  <2> HIDE DEF Good
  <2>0. k \in Nat /\ k + 1 \in 1..n /\ k + 1 \in Nat
    OBVIOUS
  <2>2. \A s \in SUBSET (1..(k + 1)) : k + 1 \notin s => s \in SUBSET (1..k)
    OBVIOUS
  <2>3. \A s \in SUBSET (1..(k + 1)) : s \ {k + 1} \in SUBSET (1..k)
    OBVIOUS
  <2>4. more \in [SUBSET (1..(k + 1)) -> V]
    <3> SUFFICES ASSUME NEW s \in SUBSET (1..(k + 1))
                 PROVE  (IF k + 1 \in s THEN step[k + 1][it[s \ {k + 1}]] ELSE it[s]) \in V
      OBVIOUS
    <3>1. CASE k + 1 \in s
      <4>1. it[s \ {k + 1}] \in V /\ step[k + 1] \in [V -> V]
        BY <2>0, <2>3
      <4> QED
        BY <3>1, <4>1
    <3>2. CASE k + 1 \notin s
      BY <2>2, <3>2
    <3> QED
      BY <3>1, <3>2
  <2>5. ASSUME NEW s \in SUBSET (1..(k + 1))
        PROVE  more[s] = IF s = {} THEN base ELSE step[Max(s)][more[s \ {Max(s)}]]
    <3>1. CASE k + 1 \in s
      <4>1. Max(s) = k + 1
        <5>1. Max(s) \in s /\ k + 1 <= Max(s)
          BY <2>0, <3>1, MaxIsMember
        <5>2. Max(s) \in 1..(k + 1)
          BY <5>1
        <5> QED
          BY <2>0, <5>1, <5>2
      <4>2. more[s \ {k + 1}] = it[s \ {k + 1}]
        OBVIOUS
      <4> QED
        BY <3>1, <4>1, <4>2
    <3>2. CASE k + 1 \notin s
      <4>1. s \in SUBSET (1..k) /\ s \ {Max(s)} \in SUBSET (1..k)
        BY <2>2, <3>2
      <4>2. more[s] = it[s] /\ more[s \ {Max(s)}] = it[s \ {Max(s)}]
        BY <3>2, <4>1
      <4>3. it[s] = IF s = {} THEN base ELSE step[Max(s)][it[s \ {Max(s)}]]
        BY <2>1, <4>1 DEF Good, Folds
      <4> QED
        BY <4>2, <4>3
    <3> QED
      BY <3>1, <3>2
  <2>6. Good(k + 1, more)
    BY <2>5 DEF Good, Folds
  <2>7. k + 1 \in 0..n
    BY <2>0
  <2> HIDE DEF more
  <2> QED
    BY <2>4, <2>6, <2>7
<1>3. n \in T
  <2> HIDE DEF T
  <2>1. \A k \in 0..(n - 1) : k \in T => k + 1 \in T
    BY <1>2
  <2>2. 0..n \subseteq T
    BY <1>1, <2>1, Induct
  <2> QED
    BY <2>2
<1> QED
  BY <1>3

\* The same, named.
CanFold(n, V, base, step) == \E it \in [SUBSET (1..n) -> V] : Folds(it, n, base, step)

LEMMA FoldIsThere ==
  ASSUME NEW n \in Nat, NEW V, NEW base \in V, NEW step \in [1..n -> [V -> V]]
  PROVE  CanFold(n, V, base, step)
BY FoldExists DEF CanFold

\* What a fold over 1..n comes to is what its steps come to, one after the other.
LEMMA FoldRuns ==
  ASSUME NEW n \in Nat, NEW V, NEW base \in V, NEW step \in [1..n -> [V -> V]], NEW it,
         Unfolds(it, n, V, base, step)
  PROVE  \E g \in [0..n -> V] : Runs(g, n, base, step) /\ g[n] = it[1..n]
<1> DEFINE g == [i \in 0..n |-> it[1..i]]
           T == {i \in 0..n : g[i] \in V}
<1>1. g[0] = base
  <2>1. 1..0 = {} /\ 0 \in 0..n
    OBVIOUS
  <2> QED
    BY <2>1 DEF Unfolds
<1>2. ASSUME NEW i \in 1..n, g[i - 1] \in V PROVE g[i] = step[i][g[i - 1]] /\ g[i] \in V
  <2>1. i \in 0..n /\ i - 1 \in 0..n
    OBVIOUS
  <2>2. g[i] = it[1..i] /\ g[i - 1] = it[1..(i - 1)]
    BY <2>1
  <2>3. step[i] \in [V -> V]
    OBVIOUS
  <2> HIDE DEF g
  <2> QED
    BY <1>2, <2>2, <2>3 DEF Unfolds
<1>3. \A i \in 0..n : g[i] \in V
  <2>1. 0 \in T
    BY <1>1
  <2>2. ASSUME NEW i \in 0..(n - 1), i \in T PROVE i + 1 \in T
    <3>1. i + 1 \in 1..n /\ (i + 1) - 1 = i /\ i + 1 \in 0..n
      OBVIOUS
    <3> HIDE DEF g
    <3>2. g[(i + 1) - 1] \in V
      BY <2>2, <3>1
    <3> QED
      BY <1>2, <3>1, <3>2
  <2> HIDE DEF T
  <2>3. 0..n \subseteq T
    BY <2>1, <2>2, Induct
  <2> HIDE DEF g
  <2> QED
    BY <2>3 DEF T
<1>4. g \in [0..n -> V]
  BY <1>3
<1>5. \A i \in 1..n : g[i] = step[i][g[i - 1]]
  <2> TAKE i \in 1..n
  <2>1. i - 1 \in 0..n
    OBVIOUS
  <2> HIDE DEF g
  <2> QED
    BY <1>2, <1>3, <2>1
<1>6. g[n] = it[1..n]
  OBVIOUS
<1> HIDE DEF g
<1> QED
  BY <1>1, <1>4, <1>5, <1>6 DEF Runs


LEMMA UsedType ==
  ASSUME NEW h, NEW n \in Nat, DOMAIN h = 1..n, NEW c, \A i \in 1..n : Weight(c, h[i]) \in Nat
  PROVE  Used(c, h) \in Nat
<1> DEFINE V == Nat
           base == 0
           more(v, i) == v + Weight(c, h[i])
           Body(it) == [s \in SUBSET (1..n) |->
                          IF s = {} THEN base ELSE more(it[s \ {Max(s)}], Max(s))]
           iter == CHOOSE it : it = Body(it)
           step == [i \in 1..n |-> [v \in V |-> more(v, i)]]
<1>1. Used(c, h) = iter[1..n]
  BY DEF Used, FoldLeft, MapThenFoldSet
<1>2. base \in V /\ \A i \in 1..n, v \in V : more(v, i) \in V
  OBVIOUS
<1> HIDE DEF V, base, more
<1>3. step \in [1..n -> [V -> V]] /\ \A i \in 1..n, v \in V : step[i][v] = more(v, i)
  BY <1>2
<1> HIDE DEF step
<1>4. \E it : it = Body(it)
  <2>1. PICK it \in [SUBSET (1..n) -> V] : Folds(it, n, base, step)
    <3> HIDE DEF Body, iter
    <3> QED
      BY <1>2, <1>3, FoldExists
  <2>2. ASSUME NEW s \in SUBSET (1..n), s # {}
        PROVE  it[s] = more(it[s \ {Max(s)}], Max(s))
    <3>1. Max(s) \in 1..n /\ s \ {Max(s)} \in SUBSET (1..n)
      BY <2>2, MaxIsMember
    <3>2. it[s \ {Max(s)}] \in V
      BY <3>1
    <3> QED
      BY <1>3, <2>1, <2>2, <3>1, <3>2 DEF Folds
  <2>3. it = [s \in SUBSET (1..n) |-> it[s]]
    OBVIOUS
  <2> QED
    BY <2>1, <2>2, <2>3 DEF Folds
<1>5. iter = Body(iter)
  <2> HIDE DEF Body
  <2> QED
    BY <1>4
<1> HIDE DEF iter
<1>6. iter[{}] = base
  BY <1>5
<1>7. ASSUME NEW i \in 1..n, iter[1..(i - 1)] \in V
      PROVE  iter[1..i] = step[i][iter[1..(i - 1)]]
  <2>1. Max(1..i) = i /\ (1..i) \ {i} = 1..(i - 1) /\ 1..i # {} /\ 1..i \in SUBSET (1..n)
    BY MaxOfRange
  <2>2. iter[1..i] = more(iter[1..(i - 1)], i)
    BY <1>5, <2>1
  <2> QED
    BY <1>3, <1>7, <2>2
<1> HIDE DEF Body
<1>8. Unfolds(iter, n, V, base, step)
  BY <1>6, <1>7 DEF Unfolds
<1>9. PICK g \in [0..n -> V] : Runs(g, n, base, step) /\ g[n] = iter[1..n]
  BY <1>2, <1>3, <1>8, FoldRuns
<1>10. ASSUME NEW i \in 1..n PROVE g[i] = more(g[i - 1], i)
  <2>1. g[i - 1] \in V /\ g[i] = step[i][g[i - 1]]
    BY <1>9 DEF Runs
  <2> QED
    BY <1>3, <2>1
<1>11. g[0] = base
  BY <1>9 DEF Runs
<1>12. g[n] \in V
  OBVIOUS
<1> QED
  BY <1>1, <1>9, <1>10, <1>11, <1>12 DEF V, base, more

Longer(s, e, roles) == IF e.role \in roles THEN Append(s, e) ELSE s

Filters(g, h, n, roles) ==
  /\ g[0] = <<>> /\ g[n] = OfRoles(h, roles)
  /\ \A i \in 1..n : g[i] = Longer(g[i - 1], h[i], roles)

LEMMA OfRolesRuns ==
  ASSUME NEW E, NEW h, NEW n \in Nat, DOMAIN h = 1..n, \A i \in 1..n : h[i] \in E, NEW roles
  PROVE  \E g \in [0..n -> Seq(E)] : Filters(g, h, n, roles)
<1> DEFINE V == Seq(E)
           base == <<>>
           more(v, i) == IF h[i].role \in roles THEN Append(v, h[i]) ELSE v
           Body(it) == [s \in SUBSET (1..n) |->
                          IF s = {} THEN base ELSE more(it[s \ {Max(s)}], Max(s))]
           iter == CHOOSE it : it = Body(it)
           step == [i \in 1..n |-> [v \in V |-> more(v, i)]]
<1>1. OfRoles(h, roles) = iter[1..n]
  BY DEF OfRoles, FoldLeft, MapThenFoldSet
<1>2. base \in V /\ \A i \in 1..n, v \in V : more(v, i) \in V
  OBVIOUS
<1> HIDE DEF V, base, more
<1>3. step \in [1..n -> [V -> V]] /\ \A i \in 1..n, v \in V : step[i][v] = more(v, i)
  BY <1>2
<1> HIDE DEF step
<1>4. \E it : it = Body(it)
  <2>1. PICK it \in [SUBSET (1..n) -> V] : Folds(it, n, base, step)
    <3> HIDE DEF Body, iter
    <3> QED
      BY <1>2, <1>3, FoldExists
  <2>2. ASSUME NEW s \in SUBSET (1..n), s # {}
        PROVE  it[s] = more(it[s \ {Max(s)}], Max(s))
    <3>1. Max(s) \in 1..n /\ s \ {Max(s)} \in SUBSET (1..n)
      BY <2>2, MaxIsMember
    <3>2. it[s \ {Max(s)}] \in V
      BY <3>1
    <3> QED
      BY <1>3, <2>1, <2>2, <3>1, <3>2 DEF Folds
  <2>3. it = [s \in SUBSET (1..n) |-> it[s]]
    OBVIOUS
  <2> QED
    BY <2>1, <2>2, <2>3 DEF Folds
<1>5. iter = Body(iter)
  <2> HIDE DEF Body
  <2> QED
    BY <1>4
<1> HIDE DEF iter
<1>6. iter[{}] = base
  BY <1>5
<1>7. ASSUME NEW i \in 1..n, iter[1..(i - 1)] \in V
      PROVE  iter[1..i] = step[i][iter[1..(i - 1)]]
  <2>1. Max(1..i) = i /\ (1..i) \ {i} = 1..(i - 1) /\ 1..i # {} /\ 1..i \in SUBSET (1..n)
    BY MaxOfRange
  <2>2. iter[1..i] = more(iter[1..(i - 1)], i)
    BY <1>5, <2>1
  <2> QED
    BY <1>3, <1>7, <2>2
<1> HIDE DEF Body
<1>8. Unfolds(iter, n, V, base, step)
  BY <1>6, <1>7 DEF Unfolds
<1>9. PICK g \in [0..n -> V] : Runs(g, n, base, step) /\ g[n] = iter[1..n]
  BY <1>2, <1>3, <1>8, FoldRuns
<1>10. ASSUME NEW i \in 1..n PROVE g[i] = more(g[i - 1], i)
  <2>1. g[i - 1] \in V /\ g[i] = step[i][g[i - 1]]
    BY <1>9 DEF Runs
  <2> QED
    BY <1>3, <2>1
<1>11. g[0] = base
  BY <1>9 DEF Runs
<1>12. g[n] \in V
  OBVIOUS
<1> QED
  BY <1>1, <1>9, <1>10, <1>11, <1>12 DEF V, base, more, Filters, Longer

LEMMA OnceType ==
  ASSUME NEW E, NEW s0, NEW n \in Nat, DOMAIN s0 = 1..n, \A i \in 1..n : s0[i] \in E
  PROVE  Once(s0) \in Seq(E)
<1> DEFINE V == Seq(E)
           base == <<>>
           more(v, i) == IF s0[i] \in Range(v) THEN v ELSE Append(v, s0[i])
           Body(it) == [s \in SUBSET (1..n) |->
                          IF s = {} THEN base ELSE more(it[s \ {Max(s)}], Max(s))]
           iter == CHOOSE it : it = Body(it)
           step == [i \in 1..n |-> [v \in V |-> more(v, i)]]
<1>1. Once(s0) = iter[1..n]
  BY DEF Once, FoldLeft, MapThenFoldSet
<1>2. base \in V /\ \A i \in 1..n, v \in V : more(v, i) \in V
  OBVIOUS
<1> HIDE DEF V, base, more
<1>3. step \in [1..n -> [V -> V]] /\ \A i \in 1..n, v \in V : step[i][v] = more(v, i)
  BY <1>2
<1> HIDE DEF step
<1>4. \E it : it = Body(it)
  <2>1. PICK it \in [SUBSET (1..n) -> V] : Folds(it, n, base, step)
    <3> HIDE DEF Body, iter
    <3> QED
      BY <1>2, <1>3, FoldExists
  <2>2. ASSUME NEW s \in SUBSET (1..n), s # {}
        PROVE  it[s] = more(it[s \ {Max(s)}], Max(s))
    <3>1. Max(s) \in 1..n /\ s \ {Max(s)} \in SUBSET (1..n)
      BY <2>2, MaxIsMember
    <3>2. it[s \ {Max(s)}] \in V
      BY <3>1
    <3> QED
      BY <1>3, <2>1, <2>2, <3>1, <3>2 DEF Folds
  <2>3. it = [s \in SUBSET (1..n) |-> it[s]]
    OBVIOUS
  <2> QED
    BY <2>1, <2>2, <2>3 DEF Folds
<1>5. iter = Body(iter)
  <2> HIDE DEF Body
  <2> QED
    BY <1>4
<1> HIDE DEF iter
<1>6. iter[{}] = base
  BY <1>5
<1>7. ASSUME NEW i \in 1..n, iter[1..(i - 1)] \in V
      PROVE  iter[1..i] = step[i][iter[1..(i - 1)]]
  <2>1. Max(1..i) = i /\ (1..i) \ {i} = 1..(i - 1) /\ 1..i # {} /\ 1..i \in SUBSET (1..n)
    BY MaxOfRange
  <2>2. iter[1..i] = more(iter[1..(i - 1)], i)
    BY <1>5, <2>1
  <2> QED
    BY <1>3, <1>7, <2>2
<1> HIDE DEF Body
<1>8. Unfolds(iter, n, V, base, step)
  BY <1>6, <1>7 DEF Unfolds
<1>9. PICK g \in [0..n -> V] : Runs(g, n, base, step) /\ g[n] = iter[1..n]
  BY <1>2, <1>3, <1>8, FoldRuns
<1>10. ASSUME NEW i \in 1..n PROVE g[i] = more(g[i - 1], i)
  <2>1. g[i - 1] \in V /\ g[i] = step[i][g[i - 1]]
    BY <1>9 DEF Runs
  <2> QED
    BY <1>3, <2>1
<1>11. g[0] = base
  BY <1>9 DEF Runs
<1>12. g[n] \in V
  OBVIOUS
<1> QED
  BY <1>1, <1>9, <1>10, <1>11, <1>12 DEF V, base, more

Chooses(g, c, cands, n) ==
  /\ g[0] = <<>> /\ g[n] = Scan(c, cands)
  /\ \A i \in 1..n :
       g[i] = IF g[i - 1] # <<>> /\ Fits(c, g[i - 1]) THEN g[i - 1]
              ELSE IF g[i - 1] = <<>> \/ Used(c, cands[i]) < Used(c, g[i - 1])
                   THEN cands[i] ELSE g[i - 1]

LEMMA ScanRuns ==
  ASSUME NEW E, NEW cands, NEW n \in Nat, DOMAIN cands = 1..n, \A i \in 1..n : cands[i] \in E, NEW c
  PROVE  \E g \in [0..n -> E \cup {<<>>}] : Chooses(g, c, cands, n)
<1> DEFINE V == E \cup {<<>>}
           base == <<>>
           more(v, i) == IF v # <<>> /\ Fits(c, v) THEN v
                         ELSE IF v = <<>> \/ Used(c, cands[i]) < Used(c, v)
                              THEN cands[i] ELSE v
           Body(it) == [s \in SUBSET (1..n) |->
                          IF s = {} THEN base ELSE more(it[s \ {Max(s)}], Max(s))]
           iter == CHOOSE it : it = Body(it)
           step == [i \in 1..n |-> [v \in V |-> more(v, i)]]
<1>1. Scan(c, cands) = iter[1..n]
  BY DEF Scan, FoldLeft, MapThenFoldSet
<1>2. base \in V /\ \A i \in 1..n, v \in V : more(v, i) \in V
  OBVIOUS
<1> HIDE DEF V, base, more
<1>3. step \in [1..n -> [V -> V]] /\ \A i \in 1..n, v \in V : step[i][v] = more(v, i)
  BY <1>2
<1> HIDE DEF step
<1>4. \E it : it = Body(it)
  <2>1. PICK it \in [SUBSET (1..n) -> V] : Folds(it, n, base, step)
    <3> HIDE DEF Body, iter
    <3> QED
      BY <1>2, <1>3, FoldExists
  <2>2. ASSUME NEW s \in SUBSET (1..n), s # {}
        PROVE  it[s] = more(it[s \ {Max(s)}], Max(s))
    <3>1. Max(s) \in 1..n /\ s \ {Max(s)} \in SUBSET (1..n)
      BY <2>2, MaxIsMember
    <3>2. it[s \ {Max(s)}] \in V
      BY <3>1
    <3> QED
      BY <1>3, <2>1, <2>2, <3>1, <3>2 DEF Folds
  <2>3. it = [s \in SUBSET (1..n) |-> it[s]]
    OBVIOUS
  <2> QED
    BY <2>1, <2>2, <2>3 DEF Folds
<1>5. iter = Body(iter)
  <2> HIDE DEF Body
  <2> QED
    BY <1>4
<1> HIDE DEF iter
<1>6. iter[{}] = base
  BY <1>5
<1>7. ASSUME NEW i \in 1..n, iter[1..(i - 1)] \in V
      PROVE  iter[1..i] = step[i][iter[1..(i - 1)]]
  <2>1. Max(1..i) = i /\ (1..i) \ {i} = 1..(i - 1) /\ 1..i # {} /\ 1..i \in SUBSET (1..n)
    BY MaxOfRange
  <2>2. iter[1..i] = more(iter[1..(i - 1)], i)
    BY <1>5, <2>1
  <2> QED
    BY <1>3, <1>7, <2>2
<1> HIDE DEF Body
<1>8. Unfolds(iter, n, V, base, step)
  BY <1>6, <1>7 DEF Unfolds
<1>9. PICK g \in [0..n -> V] : Runs(g, n, base, step) /\ g[n] = iter[1..n]
  BY <1>2, <1>3, <1>8, FoldRuns
<1>10. ASSUME NEW i \in 1..n PROVE g[i] = more(g[i - 1], i)
  <2>1. g[i - 1] \in V /\ g[i] = step[i][g[i - 1]]
    BY <1>9 DEF Runs
  <2> QED
    BY <1>3, <2>1
<1>11. g[0] = base
  BY <1>9 DEF Runs
<1>12. g[n] \in V
  OBVIOUS
<1> QED
  BY <1>1, <1>9, <1>10, <1>11, <1>12 DEF V, base, more, Chooses

--------------------------------------------------------------------------------
(* The entries of a history with given roles. *)

LEMMA OfRolesEmpty ==
  ASSUME NEW roles PROVE OfRoles(<<>>, roles) = <<>>
<1>1. DOMAIN <<>> = 1..0 /\ 0 \in Nat /\ \A i \in 1..0 : <<>>[i] \in {}
  OBVIOUS
<1>2. PICK n : n = 0
  OBVIOUS
<1>3. n \in Nat /\ DOMAIN <<>> = 1..n /\ \A i \in 1..n : <<>>[i] \in {}
  BY <1>1, <1>2
<1>4. PICK g \in [0..n -> Seq({})] : Filters(g, <<>>, n, roles)
  BY <1>3, OfRolesRuns
<1> QED
  BY <1>2, <1>4 DEF Filters

\* Two operators of Sequences under names that no prover expands by itself.
With(s, e) == Append(s, e)
Joined(s, t) == s \o t

LEMMA WithJoined ==
  ASSUME NEW E, NEW s, s \in Seq(E), NEW t, t \in Seq(E), NEW e, e \in E
  PROVE  With(Joined(s, t), e) = Joined(s, With(t, e))
BY DEF With, Joined

LEMMA OfRolesAppend ==
  ASSUME NEW E, NEW h \in Seq(E), NEW e \in E, NEW roles
  PROVE  /\ OfRoles(h, roles) \in Seq(E)
         /\ OfRoles(Append(h, e), roles) =
              Longer(OfRoles(h, roles), e, roles)
<1> DEFINE n == Len(h)
           h1 == Append(h, e)
<1>1. /\ n \in Nat /\ DOMAIN h = 1..n /\ n + 1 \in Nat /\ DOMAIN h1 = 1..(n + 1)
      /\ \A i \in 1..n : h[i] \in E /\ h1[i] = h[i]
      /\ h1[n + 1] = e
  OBVIOUS
<1>2. \A i \in 1..(n + 1) : h1[i] \in E
  BY <1>1
<1> HIDE DEF n, h1
<1>3. PICK g \in [0..n -> Seq(E)] : Filters(g, h, n, roles)
  BY <1>1, OfRolesRuns
<1>4. PICK g1 \in [0..(n + 1) -> Seq(E)] : Filters(g1, h1, n + 1, roles)
  BY <1>1, <1>2, OfRolesRuns
<1> DEFINE T == {i \in 0..n : g1[i] = g[i]}
<1>5. 0 \in T
  BY <1>1, <1>3, <1>4 DEF Filters
<1>6. ASSUME NEW i \in 0..(n - 1), i \in T PROVE i + 1 \in T
  <2>1. i + 1 \in 1..n /\ i + 1 \in 1..(n + 1) /\ (i + 1) - 1 = i
    BY <1>1
  <2>2. g1[i] = g[i] /\ h1[i + 1] = h[i + 1] /\ i + 1 \in 0..n
    BY <1>1, <1>6, <2>1
  <2>3. g[i + 1] = Longer(g[i], h[i + 1], roles)
    BY <1>3, <2>1 DEF Filters
  <2>4. g1[i + 1] = Longer(g1[i], h1[i + 1], roles)
    BY <1>4, <2>1 DEF Filters
  <2>5. g1[i + 1] = g[i + 1]
    BY <2>2, <2>3, <2>4
  <2> QED
    BY <2>2, <2>5
<1> HIDE DEF T
<1>7. 0..n \subseteq T
  BY <1>1, <1>5, <1>6, Induct
<1>8. g1[n] = g[n] /\ n + 1 \in 1..(n + 1) /\ (n + 1) - 1 = n /\ n \in 0..n
  BY <1>1, <1>7 DEF T
<1> QED
  BY <1>1, <1>3, <1>4, <1>8 DEF h1, Filters

LEMMA OfRolesNext ==
  ASSUME NEW E, NEW h, h \in Seq(E), NEW e, e \in E, NEW roles, NEW h1, h1 = Append(h, e)
  PROVE  OfRoles(h1, roles) = Longer(OfRoles(h, roles), e, roles)
BY OfRolesAppend

LEMMA OfRolesType ==
  ASSUME NEW E, NEW h \in Seq(E), NEW roles
  PROVE  OfRoles(h, roles) \in Seq(E)
<1>1. CASE E = {}
  <2>1. h = <<>>
    BY <1>1
  <2> QED
    BY <2>1, OfRolesEmpty
<1>2. CASE E # {}
  BY <1>2, OfRolesAppend
<1> QED
  BY <1>1, <1>2

LEMMA NextPrefix ==
  ASSUME NEW E, NEW s \in Seq(E), NEW i \in 0..(Len(s) - 1)
  PROVE  /\ SubSeq(s, 1, i) \in Seq(E) /\ i + 1 \in 1..Len(s) /\ s[i + 1] \in E
         /\ SubSeq(s, 1, i + 1) = Append(SubSeq(s, 1, i), s[i + 1])
OBVIOUS

LEMMA WholePrefix ==
  ASSUME NEW E, NEW s \in Seq(E)
  PROVE  SubSeq(s, 1, 0) = <<>> /\ SubSeq(s, 1, Len(s)) = s /\ Len(s) \in Nat
OBVIOUS

LEMMA OfRolesConcat ==
  ASSUME NEW E, NEW a \in Seq(E), NEW b \in Seq(E), NEW roles
  PROVE  OfRoles(a \o b, roles) = OfRoles(a, roles) \o OfRoles(b, roles)
<1> DEFINE B(i) == SubSeq(b, 1, i)
           T == {i \in 0..Len(b) : OfRoles(a \o B(i), roles) = OfRoles(a, roles) \o OfRoles(B(i), roles)}
<1>1. 0 \in T
  <2>1. a \o B(0) = a /\ B(0) = <<>>
    OBVIOUS
  <2>2. OfRoles(a, roles) \o <<>> = OfRoles(a, roles)
    BY OfRolesType
  <2>3. OfRoles(B(0), roles) = <<>>
    BY <2>1, OfRolesEmpty
  <2>4. 0 \in 0..Len(b)
    OBVIOUS
  <2> HIDE DEF B
  <2> QED
    BY <2>1, <2>2, <2>3, <2>4
<1>2. ASSUME NEW i \in 0..(Len(b) - 1), i \in T PROVE i + 1 \in T
  <2> DEFINE e == b[i + 1]
             X(k) == a \o B(k)
             ra == OfRoles(a, roles)
             rb == OfRoles(B(i), roles)
  <2>1. B(i) \in Seq(E) /\ e \in E /\ B(i + 1) = Append(B(i), e) /\ i + 1 \in 0..Len(b)
    BY NextPrefix
  <2>2. X(i) \in Seq(E) /\ X(i + 1) = Append(X(i), e)
    BY <2>1
  <2>3. OfRoles(X(i), roles) = ra \o rb
    BY <1>2
  <2>4. ra \in Seq(E) /\ rb \in Seq(E)
    BY <2>1, OfRolesType
  <2> HIDE DEF B, e, T
  <2>5. OfRoles(B(i + 1), roles) = Longer(rb, e, roles)
    BY <2>1, OfRolesNext
  <2> HIDE DEF X
  <2>6. OfRoles(X(i + 1), roles) = Longer(OfRoles(X(i), roles), e, roles)
    BY <2>1, <2>2, OfRolesNext
  <2> HIDE DEF ra, rb
  <2>7. With(Joined(ra, rb), e) = Joined(ra, With(rb, e))
    BY <2>1, <2>4, WithJoined
  <2>8. OfRoles(X(i + 1), roles) = ra \o OfRoles(B(i + 1), roles)
    BY <2>3, <2>5, <2>6, <2>7 DEF Longer, With, Joined
  <2> QED
    BY <2>1, <2>8 DEF T, X, ra
<1> HIDE DEF T
<1>3. 0..Len(b) \subseteq T
  BY <1>1, <1>2, WholePrefix, Induct
<1>4. B(Len(b)) = b /\ Len(b) \in 0..Len(b)
  OBVIOUS
<1> QED
  BY <1>3, <1>4 DEF T

\* What is not of these roles is left out; what is stays.
LEMMA OfRolesSame ==
  ASSUME NEW E, NEW h \in Seq(E), NEW roles
  PROVE  /\ (\A i \in 1..Len(h) : h[i].role \in roles) => OfRoles(h, roles) = h
         /\ (\A i \in 1..Len(h) : h[i].role \notin roles) => OfRoles(h, roles) = <<>>
<1> DEFINE P(i) == SubSeq(h, 1, i)
           All == \A i \in 1..Len(h) : h[i].role \in roles
           Nothing == \A i \in 1..Len(h) : h[i].role \notin roles
           T == {i \in 0..Len(h) : /\ All => OfRoles(P(i), roles) = P(i)
                                   /\ Nothing => OfRoles(P(i), roles) = <<>>}
<1>1. 0 \in T
  <2>1. P(0) = <<>> /\ 0 \in 0..Len(h)
    OBVIOUS
  <2>2. OfRoles(P(0), roles) = <<>>
    BY <2>1, OfRolesEmpty
  <2> HIDE DEF P
  <2> QED
    BY <2>1, <2>2
<1>2. ASSUME NEW i \in 0..(Len(h) - 1), i \in T PROVE i + 1 \in T
  <2> DEFINE e == h[i + 1]
  <2>1. /\ P(i) \in Seq(E) /\ i + 1 \in 1..Len(h) /\ e \in E
        /\ P(i + 1) = Append(P(i), e) /\ i + 1 \in 0..Len(h)
    BY NextPrefix
  <2>3. /\ All => e.role \in roles
        /\ Nothing => e.role \notin roles
    BY <2>1
  <2> HIDE DEF P, e, All, Nothing, T
  <2>2. OfRoles(P(i + 1), roles) = Longer(OfRoles(P(i), roles), e, roles)
    BY <2>1, OfRolesNext
  <2> QED
    BY <1>2, <2>1, <2>2, <2>3 DEF Longer, T
<1> HIDE DEF T
<1>3. 0..Len(h) \subseteq T
  BY <1>1, <1>2, WholePrefix, Induct
<1>4. P(Len(h)) = h /\ Len(h) \in 0..Len(h)
  OBVIOUS
<1> HIDE DEF P
<1> QED
  BY <1>3, <1>4 DEF T

\* All that is kept is of the history, and of these roles.
LEMMA OfRolesMembers ==
  ASSUME NEW E, NEW h \in Seq(E), NEW roles
  PROVE  OfRoles(h, roles) \in Seq({h[i] : i \in {j \in 1..Len(h) : h[j].role \in roles}})
<1> DEFINE P(i) == SubSeq(h, 1, i)
           K == {h[i] : i \in {j \in 1..Len(h) : h[j].role \in roles}}
           T == {i \in 0..Len(h) : OfRoles(P(i), roles) \in Seq(K)}
<1>1. 0 \in T
  <2>1. P(0) = <<>> /\ 0 \in 0..Len(h)
    OBVIOUS
  <2>2. OfRoles(P(0), roles) = <<>>
    BY <2>1, OfRolesEmpty
  <2>3. <<>> \in Seq(K)
    OBVIOUS
  <2> HIDE DEF P, K
  <2> QED
    BY <2>1, <2>2, <2>3
<1>2. ASSUME NEW i \in 0..(Len(h) - 1), i \in T PROVE i + 1 \in T
  <2> DEFINE e == h[i + 1]
  <2>1. /\ P(i) \in Seq(E) /\ i + 1 \in 1..Len(h) /\ e \in E
        /\ P(i + 1) = Append(P(i), e) /\ i + 1 \in 0..Len(h)
    BY NextPrefix
  <2>2. e.role \in roles => e \in K
    BY <2>1
  <2> HIDE DEF P, K, e, T
  <2>3. OfRoles(P(i + 1), roles) = Longer(OfRoles(P(i), roles), e, roles)
    BY <2>1, OfRolesNext
  <2>4. OfRoles(P(i), roles) \in Seq(K)
    BY <1>2 DEF T
  <2>5. e \in K => Append(OfRoles(P(i), roles), e) \in Seq(K)
    BY <2>4
  <2>6. OfRoles(P(i + 1), roles) \in Seq(K)
    BY <2>2, <2>3, <2>4, <2>5 DEF Longer
  <2> QED
    BY <2>1, <2>6 DEF T
<1> HIDE DEF T
<1>3. 0..Len(h) \subseteq T
  BY <1>1, <1>2, WholePrefix, Induct
<1>4. P(Len(h)) = h /\ Len(h) \in 0..Len(h)
  OBVIOUS
<1> HIDE DEF P, K
<1>5. OfRoles(h, roles) \in Seq(K)
  BY <1>3, <1>4 DEF T
<1> QED
  BY <1>5 DEF K

--------------------------------------------------------------------------------
(* What a candidate looks like. *)

LEMMA MaxOfPrefix ==
  ASSUME NEW n \in Nat, NEW i \in 1..n
  PROVE  Max(1..i) = i /\ (1..i) \ {i} = 1..(i - 1) /\ 1..i # {} /\ 1..i \in SUBSET (1..n)
BY MaxOfRange

LEMMA StepsRun ==
  ASSUME NEW n \in Nat, NEW V, NEW base \in V, NEW step \in [1..n -> [V -> V]]
  PROVE  \E g \in [0..n -> V] : Runs(g, n, base, step)
<1>1. PICK it \in [SUBSET (1..n) -> V] : Folds(it, n, base, step)
  BY FoldExists
<1>2. it[{}] = base
  BY <1>1 DEF Folds
<1>3. ASSUME NEW i \in 1..n PROVE it[1..i] = step[i][it[1..(i - 1)]]
  <2>1. Max(1..i) = i /\ (1..i) \ {i} = 1..(i - 1) /\ 1..i # {} /\ 1..i \in SUBSET (1..n)
    BY MaxOfPrefix
  <2>2. ASSUME NEW s \in SUBSET (1..n), s # {} PROVE it[s] = step[Max(s)][it[s \ {Max(s)}]]
    BY <1>1, <2>2 DEF Folds
  <2>3. it[1..i] = step[Max(1..i)][it[(1..i) \ {Max(1..i)}]]
    BY <2>1, <2>2
  <2> QED
    BY <2>1, <2>3
<1>4. Unfolds(it, n, V, base, step)
  BY <1>2, <1>3 DEF Unfolds
<1> QED
  BY <1>4, FoldRuns

LEMMA FlattenType ==
  ASSUME NEW V, NEW seqs, seqs \in Seq(Seq(V))
  PROVE  FlattenSeq(seqs) \in Seq(V)
<1> SUFFICES ASSUME NEW n \in Nat, n = Len(seqs) PROVE FlattenSeq(seqs) \in Seq(V)
  OBVIOUS
<1> DEFINE W == Seq(V)
           base == <<>>
           more(v, i) == IF i = 1 THEN seqs[i] ELSE v \o seqs[i]
           step == [i \in 1..n |-> [v \in W |-> more(v, i)]]
           Body(f) == [i \in 1..n |-> IF i = 1 THEN seqs[i] ELSE f[i - 1] \o seqs[i]]
           flatten == CHOOSE f : f = Body(f)
<1>1. CASE n = 0
  <2>1. Len(seqs) = 0 /\ seqs = <<>>
    <3>1. seqs \in Seq(W) /\ Len(seqs) = 0
      BY <1>1
    <3> HIDE DEF W
    <3> QED
      BY <3>1
  <2>2. FlattenSeq(seqs) = <<>>
    BY <2>1 DEF FlattenSeq
  <2> QED
    BY <2>2
<1>2. CASE n # 0
  <2>1. FlattenSeq(seqs) = flatten[n]
    BY <1>2 DEF FlattenSeq
  <2>0. n \in Nat
    OBVIOUS
  <2>2. n \in 1..n /\ \A i \in 1..n : seqs[i] \in W
    BY <1>2
  <2>3. base \in W /\ \A i \in 1..n, v \in W : more(v, i) \in W
    BY <2>2
  <2>4. \A i \in 1..n, v \in W : Body([j \in 1..n |-> v])[i] = more(v, i)
    OBVIOUS
  <2> HIDE DEF W, base
  <2>5. step \in [1..n -> [W -> W]] /\ \A i \in 1..n, v \in W : step[i][v] = more(v, i)
    BY <2>3
  <2> HIDE DEF more, step, Body, flatten
  <2>8. PICK g \in [0..n -> W] : Runs(g, n, base, step)
    BY <2>0, <2>3, <2>5, StepsRun
  <2>9. ASSUME NEW i \in 1..n PROVE g[i] = more(g[i - 1], i) /\ g[i] \in W
    <3>1. g[i - 1] \in W /\ g[i] = step[i][g[i - 1]] /\ g[i] \in W
      BY <2>0, <2>8 DEF Runs
    <3> QED
      BY <2>5, <3>1
  <2>10. \E f : f = Body(f)
    <3> DEFINE f == [i \in 1..n |-> g[i]]
    <3>1. ASSUME NEW i \in 1..n
          PROVE  f[i] = IF i = 1 THEN seqs[i] ELSE f[i - 1] \o seqs[i]
      <4>1. i # 1 => i - 1 \in 1..n
        BY <2>0
      <4> QED
        BY <2>9, <4>1 DEF more
    <3>2. f = Body(f)
      BY <3>1 DEF Body
    <3> QED
      BY <3>2
  <2>11. flatten = Body(flatten)
    BY <2>10 DEF flatten
  <2> DEFINE T == {i \in 0..n : i = 0 \/ flatten[i] \in W}
  <2>12. 0 \in T
    BY <2>0
  <2>13. ASSUME NEW i \in 0..(n - 1), i \in T PROVE i + 1 \in T
    <3>1. i + 1 \in 1..n /\ i + 1 \in 0..n /\ (i + 1) - 1 = i /\ (i + 1 = 1 <=> i = 0)
      BY <2>0
    <3>2. flatten[i + 1] = IF i = 0 THEN seqs[i + 1] ELSE flatten[i] \o seqs[i + 1]
      BY <2>11, <3>1 DEF Body
    <3>3. seqs[i + 1] \in W
      BY <2>2, <3>1
    <3>4. i # 0 => flatten[i] \in W
      BY <2>13
    <3>5. \A v \in W : v \o seqs[i + 1] \in W
      BY <3>3 DEF W
    <3>6. flatten[i + 1] \in W
      BY <3>2, <3>3, <3>4, <3>5
    <3> QED
      BY <3>1, <3>6
  <2> HIDE DEF T
  <2>14. 0..n \subseteq T
    BY <2>0, <2>12, <2>13, Induct
  <2>15. flatten[n] \in W
    BY <1>2, <2>2, <2>14 DEF T
  <2> QED
    BY <2>1, <2>15 DEF W
<1> QED
  BY <1>1, <1>2

\* A tail begins at the first entry or somewhere in the history.
LEMMA StartBounds ==
  ASSUME NEW E, NEW h, h \in Seq(E), NEW k
  PROVE  TailStart(h, k) = 1 \/ TailStart(h, k) \in 1..Len(h)
<1> DEFINE starts == {i \in DOMAIN h : h[i].role # "system" /\ Len(Dialog(SubSeq(h, i, Len(h)))) >= k}
<1>1. TailStart(h, k) = (IF starts = {} THEN 1 ELSE Max(starts))
  BY DEF TailStart
<1>2. Len(h) \in Nat /\ starts \in SUBSET (1..Len(h))
  OBVIOUS
<1> HIDE DEF starts
<1>3. starts # {} => Max(starts) \in starts
  BY <1>2, MaxIsMember
<1>4. starts # {} => Max(starts) \in 1..Len(h)
  BY <1>2, <1>3
<1> QED
  BY <1>1, <1>4

LEMMA SplitBounds ==
  ASSUME NEW E, NEW h, h \in Seq(E), NEW k, Splits(h, k)
  PROVE  TailStart(h, k) \in 2..Len(h)
<1>1. TailStart(h, k) = 1 \/ TailStart(h, k) \in 1..Len(h)
  BY StartBounds
<1>2. Len(h) \in Nat
  OBVIOUS
<1> QED
  BY <1>1, <1>2 DEF Splits

Framed(h, t, summary) ==
  OfRole(SubSeq(h, 1, t - 1), "system") \o summary \o SubSeq(h, t, Len(h))

\* The summaries of h, and what may be made of it with them.
Written(h) == {Summary(<<>>)} \cup
              {Extract(Head0(h, k), n) : k \in Range(KEEP_TAIL_OPTIONS), n \in Range(Lines)}

LastWords(h) == OfRole(h, "system") \o LastOf(OfRole(h, "user"))

Shapes(h) ==
  {Framed(h, t, s) : t \in 2..Len(h), s \in {<<>>} \cup {<<e>> : e \in Written(h)}}
    \cup {c \in {LastWords(h)} : OfRole(h, "user") # <<>>}

LEMMA ShortenedShape ==
  ASSUME NEW E, NEW h, h \in Seq(E), NEW k, Splits(h, k),
         NEW s, s = <<>> \/ \E e \in Written(h) : s = <<e>>
  PROVE  Shortened(h, k, s) \in Shapes(h)
<1>1. TailStart(h, k) \in 2..Len(h)
  BY SplitBounds
<1>2. Shortened(h, k, s) = Framed(h, TailStart(h, k), s)
  BY DEF Shortened, Framed
<1> QED
  BY <1>1, <1>2 DEF Shapes

LEMMA CandidatesShape ==
  ASSUME NEW E, NEW h, h \in Seq(E), NEW k, k \in Offers(h)
  PROVE  Candidates(h, k) \in Seq(Shapes(h))
<1> DEFINE C == Shapes(h)
<1>1. ByModel(h, k) \in Seq(C)
  <2>1. k # None => Splits(h, k)
    BY DEF Offers
  <2>2. Summary(<<>>) \in Written(h)
    BY DEF Written
  <2>3. k # None => Shortened(h, k, <<Summary(<<>>)>>) \in C
    BY <2>1, <2>2, ShortenedShape
  <2> HIDE DEF C
  <2> QED
    BY <2>3 DEF ByModel
<1>2. Extractive(h) \in Seq(C)
  <2> DEFINE Of(n) == IF ~Splits(h, KEEP_TAIL_OPTIONS[n]) \/ Head0(h, KEEP_TAIL_OPTIONS[n]) = <<>>
                      THEN <<>>
                      ELSE [l \in DOMAIN Lines |->
                              Shortened(h, KEEP_TAIL_OPTIONS[n],
                                        <<Extract(Head0(h, KEEP_TAIL_OPTIONS[n]), Lines[l])>>)]
  <2>1. ASSUME NEW n \in DOMAIN KEEP_TAIL_OPTIONS PROVE Of(n) \in Seq(C)
    <3> DEFINE tail == KEEP_TAIL_OPTIONS[n]
    <3>1. ASSUME Splits(h, tail), NEW l \in DOMAIN Lines
          PROVE  Shortened(h, tail, <<Extract(Head0(h, tail), Lines[l])>>) \in C
      <4>1. tail \in Range(KEEP_TAIL_OPTIONS) /\ Lines[l] \in Range(Lines)
        BY DEF Range
      <4> DEFINE e == Extract(Head0(h, tail), Lines[l])
      <4>2. e \in Written(h)
        BY <4>1 DEF Written
      <4> HIDE DEF e, tail, C
      <4> QED
        BY <3>1, <4>2, ShortenedShape DEF e, C
    <3>2. DOMAIN Lines = 1..Len(Lines) /\ Len(Lines) \in Nat
      BY LinesAssumption
    <3> HIDE DEF C
    <3> QED
      BY <3>1, <3>2
  <2>2. Extractive(h) = FlattenSeq([n \in DOMAIN KEEP_TAIL_OPTIONS |-> Of(n)])
    BY DEF Extractive
  <2>3. DOMAIN KEEP_TAIL_OPTIONS = 1..5
    BY DEF KEEP_TAIL_OPTIONS
  <2> HIDE DEF C, Of
  <2>4. [n \in DOMAIN KEEP_TAIL_OPTIONS |-> Of(n)] \in Seq(Seq(C))
    BY <2>1, <2>3
  <2> QED
    BY <2>2, <2>4, FlattenType
<1>3. TailOnly(h) \in Seq(C)
  <2> DEFINE Of(n) == IF Splits(h, LAST_TAILS[n]) THEN <<Shortened(h, LAST_TAILS[n], <<>>)>> ELSE <<>>
  <2>1. ASSUME NEW n \in DOMAIN LAST_TAILS PROVE Of(n) \in Seq(C)
    <3>1. Splits(h, LAST_TAILS[n]) => Shortened(h, LAST_TAILS[n], <<>>) \in C
      BY ShortenedShape
    <3> HIDE DEF C
    <3> QED
      BY <3>1
  <2>2. TailOnly(h) = FlattenSeq([n \in DOMAIN LAST_TAILS |-> Of(n)])
    BY DEF TailOnly
  <2>3. DOMAIN LAST_TAILS = 1..3
    BY DEF LAST_TAILS
  <2> HIDE DEF C, Of
  <2>4. [n \in DOMAIN LAST_TAILS |-> Of(n)] \in Seq(Seq(C))
    BY <2>1, <2>3
  <2> QED
    BY <2>2, <2>4, FlattenType
<1>4. Emergency(h) \in Seq(C)
  <2>1. OfRole(h, "user") # <<>> => LastWords(h) \in C
    BY DEF Shapes
  <2> HIDE DEF C
  <2> QED
    BY <2>1 DEF Emergency, LastWords
<1> DEFINE all == ByModel(h, k) \o Extractive(h) \o TailOnly(h) \o Emergency(h)
<1> HIDE DEF C
<1>5. all \in Seq(C)
  BY <1>1, <1>2, <1>3, <1>4
<1> HIDE DEF all
<1>6. Once(all) \in Seq(C)
  <2>1. PICK n \in Nat : DOMAIN all = 1..n /\ \A i \in 1..n : all[i] \in C
    BY <1>5
  <2> QED
    BY <2>1, OnceType
<1> QED
  BY <1>6 DEF Candidates, all, C

--------------------------------------------------------------------------------
(* Candidates are made of the entries of the history and of one summary. *)

Quotes == [window : Nat, entry : Nat, summary : Nat]

LEMMA MinOfTwo ==
  ASSUME NEW a \in Nat, NEW b \in Nat
  PROVE  Min({a, b}) \in Nat /\ Min({a, b}) <= b
<1>1. Min({a, b}) \in {a, b} /\ \A y \in {a, b} : Min({a, b}) <= y
  <2>1. CASE a <= b
    BY <2>1 DEF Min
  <2>2. CASE b <= a
    BY <2>2 DEF Min
  <2> QED
    BY <2>1, <2>2
<1> QED
  BY <1>1

LEMMA EndsType ==
  ASSUME NEW E, NEW h, h \in Seq(E)
  PROVE  FirstOf(h) \in Seq(E) /\ LastOf(h) \in Seq(E)
BY DEF FirstOf, LastOf, Last

\* A beginning of a sequence, as short as is asked.
LEMMA CutType ==
  ASSUME NEW E, NEW s, s \in Seq(E), NEW n \in Nat
  PROVE  SubSeq(s, 1, Min({n, Len(s)})) \in Seq(E)
<1> DEFINE m == Min({n, Len(s)})
<1>0. Len(s) \in Nat
  OBVIOUS
<1>1. m \in Nat /\ m <= Len(s)
  BY <1>0, MinOfTwo
<1> HIDE DEF m
<1>2. SubSeq(s, 1, m) \in Seq(E)
  BY <1>1
<1> QED
  BY <1>2 DEF m

LEMMA QuotedType ==
  ASSUME NEW E, NEW h, h \in Seq(E)
  PROVE  \E I : Quoted(h) \in Seq(I)
<1> DEFINE ranked == Ranked(h)
           Y == E \cup {ranked[i] : i \in 1..Len(h)}
           wanted == FirstOf(OfRole(h, "user")) \o LastOf(OfRole(h, "user"))
                       \o LastOf(OfRole(h, "assistant")) \o ranked
           ids == [i \in DOMAIN wanted |-> wanted[i].id]
           I == {ids[i] : i \in DOMAIN wanted}
<1>1. ranked \in Seq(Y)
  <2>1. DOMAIN ranked = 1..Len(h) /\ ranked = [n \in 1..Len(h) |-> ranked[n]]
    BY DEF Ranked
  <2>2. Len(h) \in Nat
    OBVIOUS
  <2> HIDE DEF ranked
  <2> QED
    BY <2>1, <2>2
<1>2. OfRole(h, "user") \in Seq(Y) /\ OfRole(h, "assistant") \in Seq(Y)
  <2>1. h \in Seq(Y)
    OBVIOUS
  <2> HIDE DEF Y
  <2> QED
    BY <2>1, OfRolesType DEF OfRole
<1> HIDE DEF Y, ranked
<1>3. /\ FirstOf(OfRole(h, "user")) \in Seq(Y) /\ LastOf(OfRole(h, "user")) \in Seq(Y)
      /\ LastOf(OfRole(h, "assistant")) \in Seq(Y)
  BY <1>2, EndsType
<1>4. wanted \in Seq(Y)
  BY <1>1, <1>3
<1> HIDE DEF wanted
<1>5. PICK n \in Nat : DOMAIN wanted = 1..n
  BY <1>4
<1>6. DOMAIN ids = 1..n /\ \A i \in 1..n : ids[i] \in I
  BY <1>5
<1> HIDE DEF ids, I
<1>7. Once(ids) \in Seq(I)
  BY <1>6, OnceType
<1>8. SubSeq(Once(ids), 1, Min({MAX_SUMMARY_ITEMS, Len(Once(ids))})) \in Seq(I)
  BY <1>7, CutType DEF MAX_SUMMARY_ITEMS
<1> QED
  BY <1>8 DEF Quoted, ids, wanted, ranked

LEMMA WrittenType ==
  ASSUME NEW h, h \in Seq(Entries), NEW e, e \in Written(h)
  PROVE  e.id = None /\ e.role = "assistant" /\ Len(e.of) \in Nat
<1>1. CASE e = Summary(<<>>)
  BY <1>1 DEF Summary
<1>2. ASSUME NEW k, NEW n, n \in Range(Lines), e = Extract(Head0(h, k), n)
      PROVE  e.id = None /\ e.role = "assistant" /\ Len(e.of) \in Nat
  <2>1. \E E : Head0(h, k) \in Seq(E)
    <3> DEFINE pre == SubSeq(h, 1, TailStart(h, k) - 1)
    <3>1. TailStart(h, k) = 1 \/ TailStart(h, k) \in 1..Len(h)
      BY StartBounds
    <3>2. pre \in Seq(Entries)
      BY <3>1
    <3> HIDE DEF pre
    <3>3. OfRoles(pre, {"user", "assistant"}) \in Seq(Entries)
      BY <3>2, OfRolesType
    <3> QED
      BY <3>3 DEF Head0, Dialog, pre
  <2>2. PICK E : Head0(h, k) \in Seq(E)
    BY <2>1
  <2>3. PICK I : Quoted(Head0(h, k)) \in Seq(I)
    BY <2>2, QuotedType
  <2>4. n \in Nat
    BY <1>2, LinesAssumption DEF Range
  <2>5. SubSeq(Quoted(Head0(h, k)), 1, Min({n, Len(Quoted(Head0(h, k)))})) \in Seq(I)
    BY <2>3, <2>4, CutType
  <2> QED
    BY <1>2, <2>5 DEF Extract, Summary
<1> QED
  BY <1>1, <1>2 DEF Written

Members(h) == {h[i] : i \in 1..Len(h)}
Lean(h) == Members(h) \cup Written(h)

LEMMA OwnType ==
  ASSUME NEW E, NEW h, h \in Seq(E)
  PROVE  h \in Seq(Members(h)) /\ Members(h) \subseteq E
<1>1. Members(h) \subseteq E
  BY DEF Members
<1>2. \A i \in 1..Len(h) : h[i] \in Members(h)
  BY DEF Members
<1> QED
  BY <1>1, <1>2

LEMMA SeqWiden ==
  ASSUME NEW E, NEW F, E \subseteq F, NEW s, s \in Seq(E)
  PROVE  s \in Seq(F)
OBVIOUS

LEMMA SingleType ==
  ASSUME NEW E, NEW s, s = <<>> \/ \E e \in E : s = <<e>>
  PROVE  s \in Seq(E)
<1>1. <<>> \in Seq(E)
  OBVIOUS
<1>2. ASSUME NEW e \in E PROVE <<e>> \in Seq(E)
  OBVIOUS
<1> QED
  BY <1>1, <1>2

LEMMA LastOfWith ==
  ASSUME NEW E, NEW s, s \in Seq(E), NEW e, e \in E
  PROVE  LastOf(With(s, e)) = <<e>>
BY DEF LastOf, Last, With

LEMMA SplitsInTwo ==
  ASSUME NEW E, NEW h, h \in Seq(E), NEW t, t \in 2..Len(h)
  PROVE  /\ SubSeq(h, 1, t - 1) \in Seq(E) /\ SubSeq(h, t, Len(h)) \in Seq(E)
         /\ h = SubSeq(h, 1, t - 1) \o SubSeq(h, t, Len(h))
         /\ Len(SubSeq(h, t, Len(h))) > 0
         /\ Last(SubSeq(h, t, Len(h))) = Last(h)
BY DEF Last

LEMMA LastOfJoined ==
  ASSUME NEW E, NEW a, a \in Seq(E), NEW b, b \in Seq(E), Len(b) > 0
  PROVE  Last(a \o b) = Last(b) /\ a \o b # <<>>
BY DEF Last

\* The system's entries of a part, taken once more.
LEMMA SystemTwice ==
  ASSUME NEW E, NEW h, h \in Seq(E), NEW role
  PROVE  OfRole(OfRole(h, role), role) = OfRole(h, role)
<1> DEFINE K == {h[i] : i \in {j \in 1..Len(h) : h[j].role \in {role}}}
           x == OfRoles(h, {role})
<1>1. x \in Seq(K)
  BY OfRolesMembers
<1>2. \A e \in K : e.role \in {role}
  OBVIOUS
<1> HIDE DEF K, x
<1>3. \A i \in 1..Len(x) : x[i].role \in {role}
  BY <1>1, <1>2
<1>4. OfRoles(x, {role}) = x
  BY <1>1, <1>3, OfRolesSame
<1> QED
  BY <1>4 DEF OfRole, x

LEMMA OfRolesJoined ==
  ASSUME NEW E, NEW a, a \in Seq(E), NEW b, b \in Seq(E), NEW roles, NEW x, x = Joined(a, b)
  PROVE  OfRoles(x, roles) = Joined(OfRoles(a, roles), OfRoles(b, roles))
BY OfRolesConcat DEF Joined

LEMMA ConcatOfRole ==
  ASSUME NEW E, NEW a, a \in Seq(E), NEW b, b \in Seq(E), NEW role, NEW x, x = Joined(a, b)
  PROVE  OfRole(x, role) = Joined(OfRole(a, role), OfRole(b, role))
BY OfRolesJoined DEF OfRole

LEMMA FramedKeeps ==
  ASSUME NEW h, h \in Seq(Entries), NEW t, t \in 2..Len(h),
         NEW s, s = <<>> \/ \E e \in Written(h) : s = <<e>>
  PROVE  /\ Framed(h, t, s) \in Seq(Lean(h)) /\ Framed(h, t, s) # <<>>
         /\ OfRole(Framed(h, t, s), "system") = OfRole(h, "system")
         /\ Last(Framed(h, t, s)) = Last(h)
<1> DEFINE E == Lean(h)
           pre == SubSeq(h, 1, t - 1)
           tail == SubSeq(h, t, Len(h))
           sys == OfRole(pre, "system")
           front == sys \o s
<1>1. h \in Seq(E)
  <2>1. Members(h) \subseteq E
    BY DEF Lean
  <2>2. h \in Seq(Members(h))
    BY OwnType
  <2> HIDE DEF E
  <2> QED
    BY <2>1, <2>2, SeqWiden
<1>2. s \in Seq(E)
  <2>1. Written(h) \subseteq E
    BY DEF Lean
  <2> HIDE DEF E
  <2> QED
    BY <2>1, SingleType
<1>3. OfRole(s, "system") = <<>>
  <2>1. \A i \in 1..Len(s) : s[i].role \notin {"system"}
    BY WrittenType
  <2> HIDE DEF E
  <2> QED
    BY <1>2, <2>1, OfRolesSame DEF OfRole
<1> HIDE DEF E
<1>4. /\ pre \in Seq(E) /\ tail \in Seq(E) /\ h = Joined(pre, tail)
      /\ Len(tail) > 0 /\ Last(tail) = Last(h)
  BY <1>1, SplitsInTwo DEF Joined
<1> HIDE DEF pre, tail
<1>5. sys \in Seq(E)
  BY <1>4, OfRolesType DEF OfRole
<1>6. OfRole(sys, "system") = sys
  BY <1>4, SystemTwice
<1>7. OfRole(h, "system") = Joined(sys, OfRole(tail, "system"))
  BY <1>4, ConcatOfRole
<1> HIDE DEF sys
<1>8. front \in Seq(E) /\ OfRole(front, "system") = sys
  <2>1. front \in Seq(E)
    BY <1>2, <1>5
  <2>4. front = Joined(sys, s)
    BY DEF Joined
  <2> HIDE DEF front
  <2>2. OfRole(front, "system") = Joined(sys, <<>>)
    BY <2>4, <1>2, <1>3, <1>5, <1>6, ConcatOfRole
  <2>3. Joined(sys, <<>>) = sys
    BY <1>5 DEF Joined
  <2> QED
    BY <2>1, <2>2, <2>3
<1> DEFINE x == front \o tail
<1> HIDE DEF front
<1>9. x \in Seq(E) /\ x # <<>> /\ Last(x) = Last(tail)
  <2>1. x \in Seq(E)
    BY <1>4, <1>8
  <2>2. x # <<>> /\ Last(x) = Last(tail)
    BY <1>4, <1>8, LastOfJoined
  <2> QED
    BY <2>1, <2>2
<1>12. x = Joined(front, tail)
  BY DEF Joined
<1> HIDE DEF x
<1>10. OfRole(x, "system") = Joined(sys, OfRole(tail, "system"))
  BY <1>4, <1>8, <1>12, ConcatOfRole
<1>11. Framed(h, t, s) = x
  BY DEF Framed, x, front, sys, pre, tail
<1> QED
  BY <1>4, <1>7, <1>9, <1>10, <1>11 DEF E

LEMMA OfRolesWith ==
  ASSUME NEW E, NEW h, h \in Seq(E), NEW e, e \in E, NEW roles, NEW h1, h1 = With(h, e)
  PROVE  OfRoles(h1, roles) = Longer(OfRoles(h, roles), e, roles)
BY OfRolesAppend DEF With

\* The last entry of a history that is of the user is the last of the user's.
LEMMA LastOfUser ==
  ASSUME NEW E, NEW h, h \in Seq(E), h # <<>>, Last(h).role = "user"
  PROVE  LastOf(OfRole(h, "user")) = <<Last(h)>>
<1> DEFINE front == SubSeq(h, 1, Len(h) - 1)
           e == h[Len(h)]
           roles == {"user"}
<1>1. front \in Seq(E) /\ e \in E /\ h = With(front, e) /\ e = Last(h)
  BY DEF Last, With
<1> HIDE DEF front, e, roles
<1>2. OfRoles(h, roles) = Longer(OfRoles(front, roles), e, roles)
  BY <1>1, OfRolesWith
<1>3. OfRoles(front, roles) \in Seq(E)
  BY <1>1, OfRolesType
<1>4. OfRole(h, "user") = With(OfRoles(front, roles), e)
  BY <1>1, <1>2 DEF Longer, OfRole, roles, With
<1>5. LastOf(With(OfRoles(front, roles), e)) = <<e>>
  BY <1>1, <1>3, LastOfWith
<1> QED
  BY <1>1, <1>4, <1>5

LEMMA LastWordsKeep ==
  ASSUME NEW h, h \in Seq(Entries), OfRole(h, "user") # <<>>
  PROVE  /\ LastWords(h) \in Seq(Members(h)) /\ LastWords(h) # <<>>
         /\ OfRole(LastWords(h), "system") = OfRole(h, "system")
         /\ Dialog(LastWords(h)) = LastOf(OfRole(h, "user"))
<1> DEFINE E == Members(h)
           U == {h[i] : i \in {j \in 1..Len(h) : h[j].role \in {"user"}}}
           S == {h[i] : i \in {j \in 1..Len(h) : h[j].role \in {"system"}}}
           users == OfRole(h, "user")
           sys == OfRole(h, "system")
           last == LastOf(users)
           both == {"user", "assistant"}
<1>1. users \in Seq(U) /\ sys \in Seq(S)
  BY OfRolesMembers DEF OfRole
<1>2. users \in Seq(E) /\ sys \in Seq(E)
  BY OwnType, OfRolesType DEF OfRole
<1>3. /\ \A e \in U : e.role \notin {"system"} /\ e.role \in both
      /\ \A e \in S : e.role \notin both
  OBVIOUS
<1>4. OfRole(sys, "system") = sys
  BY SystemTwice
<1> HIDE DEF E, U, S, users, sys, both
<1>5. last \in Seq(U) /\ last \in Seq(E) /\ Len(last) > 0
  BY <1>1, <1>2 DEF LastOf, Last, users
<1> HIDE DEF last
<1>6. OfRole(last, "system") = <<>> /\ OfRoles(last, both) = last
  <2>1. \A i \in 1..Len(last) : last[i].role \notin {"system"} /\ last[i].role \in both
    BY <1>3, <1>5
  <2> QED
    BY <1>5, <2>1, OfRolesSame DEF OfRole
<1>7. OfRoles(sys, both) = <<>>
  <2>1. \A i \in 1..Len(sys) : sys[i].role \notin both
    BY <1>1, <1>3
  <2> QED
    BY <1>1, <2>1, OfRolesSame
<1>8. LastWords(h) = Joined(sys, last)
  BY DEF LastWords, sys, last, users, Joined
<1>9. OfRole(LastWords(h), "system") = Joined(sys, <<>>)
  BY <1>2, <1>4, <1>5, <1>6, <1>8, ConcatOfRole
<1>10. OfRoles(LastWords(h), both) = Joined(<<>>, last)
  BY <1>2, <1>5, <1>6, <1>7, <1>8, OfRolesJoined
<1>11. Joined(sys, <<>>) = sys /\ Joined(<<>>, last) = last
  BY <1>2, <1>5 DEF Joined
<1>12. sys \o last \in Seq(E) /\ sys \o last # <<>>
  BY <1>2, <1>5
<1> QED
  BY <1>8, <1>9, <1>10, <1>11, <1>12 DEF Joined, E, sys, last, users, both, Dialog

LEMMA ShapeFrame ==
  ASSUME NEW h, h \in Seq(Entries), NEW c, c \in Shapes(h)
  PROVE  /\ c \in Seq(Lean(h)) /\ c # <<>>
         /\ OfRole(c, "system") = OfRole(h, "system")
         /\ Last(c) = Last(h) \/ Dialog(c) = LastOf(OfRole(h, "user"))
<1>1. CASE \E t \in 2..Len(h), s \in {<<>>} \cup {<<e>> : e \in Written(h)} : c = Framed(h, t, s)
  <2>1. PICK t \in 2..Len(h), s \in {<<>>} \cup {<<e>> : e \in Written(h)} : c = Framed(h, t, s)
    BY <1>1
  <2>2. s = <<>> \/ \E e \in Written(h) : s = <<e>>
    OBVIOUS
  <2> QED
    BY <2>1, <2>2, FramedKeeps
<1>2. CASE c = LastWords(h) /\ OfRole(h, "user") # <<>>
  <2>1. LastWords(h) \in Seq(Members(h)) /\ Members(h) \subseteq Lean(h)
    BY <1>2, LastWordsKeep DEF Lean
  <2>2. LastWords(h) \in Seq(Lean(h))
    BY <2>1, SeqWiden
  <2> QED
    BY <1>2, <2>2, LastWordsKeep
<1> QED
  BY <1>1, <1>2 DEF Shapes

LEMMA ShapeIds ==
  ASSUME NEW h, h \in Seq(Entries), NEW c, c \in Shapes(h)
  PROVE  IdsOf(c) \subseteq IdsOf(h) \cup {None}
<1>1. c \in Seq(Lean(h))
  BY ShapeFrame
<1>2. \A e \in Lean(h) : e.id \in IdsOf(h) \cup {None}
  BY WrittenType DEF Lean, Members, IdsOf
<1> DEFINE L == Lean(h)
<1> HIDE DEF L
<1>3. \A i \in DOMAIN c : c[i] \in L
  BY <1>1 DEF L
<1> QED
  BY <1>2, <1>3 DEF IdsOf, L

\* The last entry of the history is in what is made of it, if it is the user's.
LEMMA ShapeNewest ==
  ASSUME NEW h, h \in Seq(Entries), h # <<>>, Last(h).role = "user", NEW c, c \in Shapes(h)
  PROVE  Last(h).id \in IdsOf(c)
<1>1. c \in Seq(Lean(h)) /\ c # <<>>
  BY ShapeFrame
<1>2. Last(c) = Last(h)
  <2>1. CASE \E t \in 2..Len(h), s \in {<<>>} \cup {<<e>> : e \in Written(h)} : c = Framed(h, t, s)
    <3>1. PICK t \in 2..Len(h), s \in {<<>>} \cup {<<e>> : e \in Written(h)} : c = Framed(h, t, s)
      BY <2>1
    <3>2. s = <<>> \/ \E e \in Written(h) : s = <<e>>
      OBVIOUS
    <3> QED
      BY <3>1, <3>2, FramedKeeps
  <2>2. CASE c = LastWords(h)
    <3> DEFINE sys == OfRole(h, "system")
               e == Last(h)
    <3>1. c = sys \o <<e>>
      BY <2>2, LastOfUser DEF LastWords
    <3>2. sys \in Seq(Entries)
      BY OfRolesType DEF OfRole
    <3>3. e \in Entries
      BY DEF Last
    <3> HIDE DEF sys, e
    <3>4. Last(sys \o <<e>>) = e
      BY <3>2, <3>3 DEF Last
    <3> QED
      BY <3>1, <3>4 DEF e
  <2> QED
    BY <2>1, <2>2 DEF Shapes
<1> DEFINE L == Lean(h)
<1> HIDE DEF L
<1>3. Len(c) \in DOMAIN c
  BY <1>1 DEF L
<1>4. c[Len(c)] = Last(h)
  BY <1>2 DEF Last
<1> QED
  BY <1>3, <1>4 DEF IdsOf

LEMMA LeanUsed ==
  ASSUME NEW q, q \in Quotes, NEW h, h \in Seq(Entries), NEW c, c \in Seq(Lean(h))
  PROVE  Used(q, c) \in Nat
<1>1. ASSUME NEW e \in Lean(h) PROVE Weight(q, e) \in Nat
  <2>1. q.entry \in Nat /\ q.summary \in Nat
    BY DEF Quotes
  <2>2. Len(e.of) \in Nat
    <3>1. CASE e \in Members(h)
      <4>0. e \in Entries
        BY <3>1, OwnType
      <4>1. e.of = <<>>
        BY <4>0 DEF Entries
      <4> QED
        BY <4>1
    <3>2. CASE e \in Written(h)
      BY <3>2, WrittenType
    <3> QED
      BY <3>1, <3>2 DEF Lean
  <2> QED
    BY <2>1, <2>2 DEF Weight
<1> DEFINE L == Lean(h)
<1> HIDE DEF L
<1>2. PICK n \in Nat : DOMAIN c = 1..n /\ \A i \in 1..n : c[i] \in L
  BY DEF L
<1>3. \A i \in 1..n : Weight(q, c[i]) \in Nat
  BY <1>1, <1>2 DEF L
<1> QED
  BY <1>2, <1>3, UsedType

\* A history takes some number of tokens too.
LEMMA HistoryUsed ==
  ASSUME NEW q, q \in Quotes, NEW h, h \in Seq(Entries)
  PROVE  Used(q, h) \in Nat
<1>1. h \in Seq(Members(h)) /\ Members(h) \subseteq Lean(h)
  BY OwnType DEF Lean
<1>2. h \in Seq(Lean(h))
  BY <1>1, SeqWiden
<1> QED
  BY <1>2, LeanUsed

--------------------------------------------------------------------------------
(* The choice among the candidates. *)

\* Of the first i candidates, m is the first that fits; or none does, and it is the
\* first of those that take least.
Best(q, cands, i, m) ==
  \/ Fits(q, cands[m]) /\ \A j \in 1..(m - 1) : ~Fits(q, cands[j])
  \/ /\ \A j \in 1..i : ~Fits(q, cands[j]) /\ Used(q, cands[m]) <= Used(q, cands[j])
     /\ \A j \in 1..(m - 1) : Used(q, cands[m]) < Used(q, cands[j])

LEMMA BestOfOneMore ==
  ASSUME NEW q, NEW cands, NEW i \in Nat, NEW m \in 1..i, Best(q, cands, i, m), q.window \in Nat,
         \A j \in 1..(i + 1) : Used(q, cands[j]) \in Nat
  PROVE  \/ Fits(q, cands[m]) /\ Best(q, cands, i + 1, m)
         \/ /\ ~Fits(q, cands[m])
            /\ IF Used(q, cands[i + 1]) < Used(q, cands[m])
               THEN Best(q, cands, i + 1, i + 1) ELSE Best(q, cands, i + 1, m)
<1>1. CASE Fits(q, cands[m])
  BY <1>1 DEF Best
<1>2. CASE ~Fits(q, cands[m])
  <2>1. /\ \A j \in 1..i : ~Fits(q, cands[j]) /\ Used(q, cands[m]) <= Used(q, cands[j])
        /\ \A j \in 1..(m - 1) : Used(q, cands[m]) < Used(q, cands[j])
    BY <1>2 DEF Best
  <2>2. CASE Used(q, cands[i + 1]) < Used(q, cands[m])
    <3>1. ASSUME NEW j \in 1..i
          PROVE  Used(q, cands[i + 1]) < Used(q, cands[j]) /\ ~Fits(q, cands[j])
      <4>1. /\ Used(q, cands[i + 1]) \in Nat /\ Used(q, cands[m]) \in Nat
            /\ Used(q, cands[j]) \in Nat
        OBVIOUS
      <4> QED
        BY <2>1, <2>2, <4>1
    <3>2. (i + 1) - 1 = i
      OBVIOUS
    <3>3. CASE Fits(q, cands[i + 1])
      BY <3>1, <3>2, <3>3 DEF Best
    <3>4. CASE ~Fits(q, cands[i + 1])
      <4>1. ASSUME NEW j \in 1..(i + 1)
            PROVE  ~Fits(q, cands[j]) /\ Used(q, cands[i + 1]) <= Used(q, cands[j])
        <5>1. j \in 1..i \/ j = i + 1
          OBVIOUS
        <5>2. Used(q, cands[i + 1]) \in Nat /\ Used(q, cands[j]) \in Nat
          OBVIOUS
        <5> QED
          BY <3>1, <3>4, <5>1, <5>2
      <4> QED
        BY <3>1, <3>2, <4>1 DEF Best
    <3> QED
      BY <2>2, <1>2, <3>3, <3>4
  <2>3. CASE ~(Used(q, cands[i + 1]) < Used(q, cands[m]))
    <3>1. ASSUME NEW j \in 1..(i + 1)
          PROVE  ~Fits(q, cands[j]) /\ Used(q, cands[m]) <= Used(q, cands[j])
      <4>1. Used(q, cands[i + 1]) \in Nat /\ Used(q, cands[m]) \in Nat
        OBVIOUS
      <4>2. CASE j \in 1..i
        BY <2>1, <4>2
      <4>3. CASE j = i + 1
        BY <1>2, <2>3, <4>1, <4>3 DEF Fits
      <4> QED
        BY <4>2, <4>3
    <3> QED
      BY <1>2, <2>1, <2>3, <3>1 DEF Best
  <2> QED
    BY <2>2, <2>3
<1> QED
  BY <1>1, <1>2

LEMMA ScanIsBest ==
  ASSUME NEW q, q.window \in Nat, NEW C, NEW cands, cands \in Seq(C),
         \A c \in C : c # <<>> /\ Used(q, c) \in Nat
  PROVE  \/ Len(cands) = 0 /\ Scan(q, cands) = <<>>
         \/ \E m \in 1..Len(cands) :
              Scan(q, cands) = cands[m] /\ Best(q, cands, Len(cands), m)
<1>1. PICK n \in Nat : n = Len(cands) /\ DOMAIN cands = 1..n /\ \A i \in 1..n : cands[i] \in C
  OBVIOUS
<1>2. PICK g \in [0..n -> C \cup {<<>>}] : Chooses(g, q, cands, n)
  BY <1>1, ScanRuns
<1>3. \A i \in 1..n : cands[i] # <<>> /\ Used(q, cands[i]) \in Nat
  BY <1>1
<1> DEFINE Good(i) == \E m \in 1..i : g[i] = cands[m] /\ Best(q, cands, i, m)
           T == {i \in 0..n : i = 0 \/ Good(i)}
<1>4. 0 \in T
  OBVIOUS
<1>5. ASSUME NEW i \in 0..(n - 1), i \in T PROVE i + 1 \in T
  <2>1. i + 1 \in 1..n /\ (i + 1) - 1 = i /\ i + 1 \in 0..n /\ i \in Nat
    OBVIOUS
  <2>2. g[i + 1] = IF g[i] # <<>> /\ Fits(q, g[i]) THEN g[i]
                   ELSE IF g[i] = <<>> \/ Used(q, cands[i + 1]) < Used(q, g[i])
                        THEN cands[i + 1] ELSE g[i]
    BY <1>2, <2>1 DEF Chooses
  <2>3. CASE i = 0
    <3>1. g[0] = <<>>
      BY <1>2 DEF Chooses
    <3>2. g[i + 1] = cands[i + 1]
      BY <2>2, <2>3, <3>1
    <3>3. Used(q, cands[1]) \in Nat
      BY <1>3, <2>1, <2>3
    <3>4. Best(q, cands, 1, 1)
      <4>1. \A j \in 1..1 : j = 1
        OBVIOUS
      <4>2. \A j \in 1..(1 - 1) : FALSE
        OBVIOUS
      <4> QED
        BY <3>3, <4>1, <4>2 DEF Best
    <3>5. Good(1)
      BY <2>3, <3>2, <3>4
    <3> QED
      BY <2>1, <2>3, <3>5
  <2>4. CASE i # 0
    <3>1. PICK m \in 1..i : g[i] = cands[m] /\ Best(q, cands, i, m)
      BY <1>5, <2>4
    <3>2. cands[m] # <<>>
      BY <1>3, <2>1
    <3>3. \A j \in 1..(i + 1) : Used(q, cands[j]) \in Nat
      BY <1>3, <2>1
    <3>4. \/ Fits(q, cands[m]) /\ Best(q, cands, i + 1, m)
          \/ /\ ~Fits(q, cands[m])
             /\ IF Used(q, cands[i + 1]) < Used(q, cands[m])
                THEN Best(q, cands, i + 1, i + 1) ELSE Best(q, cands, i + 1, m)
      BY <2>1, <3>1, <3>3, BestOfOneMore
    <3>5. m \in 1..(i + 1) /\ i + 1 \in 1..(i + 1)
      BY <2>1
    <3>6. Good(i + 1)
      BY <2>2, <3>1, <3>2, <3>4, <3>5
    <3> HIDE DEF Good
    <3> QED
      BY <2>1, <3>6
  <2> QED
    BY <2>3, <2>4
<1> HIDE DEF T, Good
<1>6. 0..n \subseteq T
  BY <1>4, <1>5, Induct
<1>7. n = 0 \/ Good(n)
  BY <1>6 DEF T
<1>8. g[n] = Scan(q, cands) /\ g[0] = <<>>
  BY <1>2 DEF Chooses
<1>9. CASE n = 0
  BY <1>1, <1>8, <1>9
<1>10. CASE Good(n)
  <2>1. PICK m \in 1..n : g[n] = cands[m] /\ Best(q, cands, n, m)
    BY <1>10 DEF Good
  <2> QED
    BY <1>1, <1>8, <2>1
<1> QED
  BY <1>7, <1>9, <1>10

LEMMA CompressedIsBest ==
  ASSUME NEW q, q \in Quotes, NEW h, h \in Seq(Entries), NEW k, k \in Offers(h), NEW used,
         NEW p, p = Compressed(q, h, k, used), p # <<>>
  PROVE  /\ p \in Shapes(h) /\ ~(Used(q, p) >= used)
         /\ \E m \in 1..Len(Candidates(h, k)) :
              p = Candidates(h, k)[m] /\ Best(q, Candidates(h, k), Len(Candidates(h, k)), m)
<1> DEFINE C == Shapes(h)
           cands == Candidates(h, k)
<1>1. cands \in Seq(C)
  BY CandidatesShape
<1>2. \A c \in C : c # <<>> /\ Used(q, c) \in Nat
  BY ShapeFrame, LeanUsed
<1>3. q.window \in Nat
  BY DEF Quotes
<1>4. p = Scan(q, cands) /\ ~(Used(q, p) >= used)
  BY DEF Compressed
<1> HIDE DEF C, cands
<1>5. \/ Len(cands) = 0 /\ Scan(q, cands) = <<>>
      \/ \E m \in 1..Len(cands) : Scan(q, cands) = cands[m] /\ Best(q, cands, Len(cands), m)
  BY <1>1, <1>2, <1>3, ScanIsBest
<1>6. PICK m \in 1..Len(cands) : p = cands[m] /\ Best(q, cands, Len(cands), m)
  BY <1>4, <1>5
<1>7. cands[m] \in C
  BY <1>1
<1> QED
  BY <1>4, <1>6, <1>7 DEF C, cands

LEMMA FirstIsMin ==
  ASSUME NEW n \in Nat, NEW s, s \subseteq 1..n, NEW m, m \in s, \A j \in 1..(m - 1) : j \notin s
  PROVE  Min(s) = m
<1>1. \A j \in s : m <= j
  <2> TAKE j \in s
  <2>1. j \in 1..n /\ m \in 1..n
    OBVIOUS
  <2>2. ~(j \in 1..(m - 1))
    OBVIOUS
  <2> QED
    BY <2>1, <2>2
<1>2. Min(s) \in s /\ \A j \in s : Min(s) <= j
  BY <1>1 DEF Min
<1>3. Min(s) <= m /\ m <= Min(s) /\ Min(s) \in 1..n /\ m \in 1..n
  BY <1>1, <1>2
<1> QED
  BY <1>3
================================================================================
