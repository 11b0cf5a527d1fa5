--------------------------- MODULE ScoreStatsProofs ---------------------------
(***************************************************************************)
(* Proofs about ScoreStats for any number of plays, handlers and weights,  *)
(* about BeatmapCache for any requests, and about Backups for any number   *)
(* of files kept.                                                          *)
(*                                                                         *)
(* ScoreStats.  Counting once is inductive with where every handler is: a  *)
(* play that was inserted and not yet counted belongs to one handler alone *)
(* (PlaysApart).  That a profile claims no more than its scores are worth  *)
(* rests on one fact about the arithmetic, ProfileGrows: more scores, or   *)
(* scores whose pp has become known, are never worth less.  It needs that  *)
(* the i-th best map of more is no worse than the i-th best of fewer       *)
(* (RankByRank), for maps listed in any order of descending pp.            *)
(*                                                                         *)
(* BeatmapCache.  No write takes a title away, or what comes with it       *)
(* (SavedMore), so a map with a title is answered from the cache           *)
(* (RequestOK).  Of the id that holds as long as nobody is under way who   *)
(* has made one up (Calm): whoever begins while the map has both is        *)
(* answered both.                                                          *)
(*                                                                         *)
(* Backups.  Files are named for the second they were begun in, and one is *)
(* finished before the next is begun (Dated): of two that are kept one is  *)
(* older than the last that succeeded (NewestKept).                        *)
(***************************************************************************)
EXTENDS ScoreStats, BeatmapCache, Backups, Sums, SequenceTheorems

(* plays that came with a submission *)
New == Played \ Legacy

HandlerStates ==
    {Idle}
        \cup [step : {"insert", "ensure", "before"}, play : New]
        \cup [step : {"best"}, play : New, before : 0 .. PpCap]
        \cup [step : {"update", "answered"}, play : New, before : 0 .. PpCap, after : 0 .. PpCap]

RecalcStates ==
    {Off}
        \cup [step : {"price"}, todo : SUBSET Legacy]
        \cup [step : {"rows"}, todo : SUBSET (0 .. 6)]
        \cup [step : {"write"}, todo : SUBSET (0 .. 6), row : 0 .. 6, pp : 0 .. PpCap]

Typed ==
    /\ IsFiniteSet(scores) /\ scores \subseteq Played
    /\ unpriced \subseteq scores \cap Legacy
    /\ DOMAIN stats \subseteq 0 .. 6 /\ stats \in [DOMAIN stats -> Entry]
    /\ submission \in [Handlers -> HandlerStates]
    /\ recalc \in RecalcStates
    /\ counted \subseteq scores
    /\ undisturbed \in BOOLEAN

(* The handler has inserted its play. *)
Saved(s)     == s.step \notin {"idle", "insert"}
(* The handler has inserted its play and is still to count it. *)
Uncounted(s) == s.step \in {"ensure", "before", "best", "update"}

(* A play that was inserted belongs to one handler until it is counted,    *)
(* and a play is counted in a row that is there.                           *)
PlaysApart ==
    /\ \A h \in Handlers : Saved(submission[h]) => submission[h].play \in scores
    /\ \A h \in Handlers : Uncounted(submission[h]) => submission[h].play \notin counted
    /\ \A g, h \in Handlers :
        Uncounted(submission[g]) /\ Uncounted(submission[h]) /\ g # h =>
            submission[g].play # submission[h].play
    /\ \A p \in counted : RowOf(p) \in DOMAIN stats

(* The recalculation visits rows of stats, each once. *)
RowsListed ==
    /\ recalc.step \in {"rows", "write"} => recalc.todo \subseteq DOMAIN stats
    /\ recalc.step = "write" => recalc.row \in DOMAIN stats \ recalc.todo

(* what a row counts of the plays C *)
Tally(s, C) == s.plays = Cardinality(C) /\ s.total = MapThenSumSet(LAMBDA p : p.score, C)

Tallied == \A r \in DOMAIN stats : Tally(stats[r], In(counted, r))

(* what counting rests on *)
Core == Typed /\ RowsListed /\ PlaysApart /\ Tallied

(* pp, the best of every map and the profile of S while the plays of U are *)
(* unpriced                                                                *)
PpIn(U, p)  == IF p \in U THEN 0 ELSE p.pp
BestIn(U, S) == [m \in {p.map : p \in S} |-> Max({PpIn(U, p) : p \in {q \in S : q.map = m}})]
ProfileIn(U, S) == Min({WeightedPp(Top(BestIn(U, S))), PpCap})

(* what the scores of a row are worth now *)
Worth(r) == ProfileIn(unpriced, In(scores, r))

(* A row claims no more than w, and its ranked score lies between low and  *)
(* top.                                                                    *)
Bounds(s, w, top, low) == s.pp <= w /\ low <= s.ranked /\ s.ranked <= top

Within ==
    \A r \in DOMAIN stats : Own(r) =>
        Bounds(stats[r], Worth(r), BestScore(In(scores, r)), BestScore(In(counted, r)))

(* What a handler has read is no more than w, and in order. *)
AnswerOK(s, w) ==
    /\ s.step = "best" => s.before <= w
    /\ s.step \in {"update", "answered"} => s.before <= s.after /\ s.after <= w

AnswersBounded ==
    \A h \in Handlers : Own(RowOf(submission[h].play)) =>
        AnswerOK(submission[h], Worth(RowOf(submission[h].play)))

(* What the recalculation is about to write is no more than its row is     *)
(* worth.                                                                  *)
RecalcBounded == recalc.step = "write" /\ Own(recalc.row) => recalc.pp <= Worth(recalc.row)

Bounded == Within /\ AnswersBounded /\ RecalcBounded

UpToDate(r) == Own(r) => /\ stats[r].pp = Worth(r)
                         /\ stats[r].ranked = BestScore(In(scores, r))

(* Since an undisturbed start the rows the recalculation is done with are  *)
(* worth exactly what their scores are.                                    *)
Repairing ==
    undisturbed =>
        /\ \A h \in Handlers : submission[h] = Idle
        /\ recalc.step = "off" => \A r \in DOMAIN stats : UpToDate(r)
        /\ recalc.step = "rows" => \A r \in DOMAIN stats \ recalc.todo : UpToDate(r)
        /\ recalc.step = "write" =>
              /\ \A r \in DOMAIN stats \ (recalc.todo \cup {recalc.row}) : UpToDate(r)
              /\ Own(recalc.row) => recalc.pp = Worth(recalc.row)

ScoresInv == Core /\ Bounded /\ Repairing

-----------------------------------------------------------------------------
(* The scores of a map, the best maps and what they are worth together *)

(* The sum of scores in the model is a sum in the sense of Sums. *)
LEMMA ScoreTotal ==
    ASSUME NEW S, IsFiniteSet(S), NEW w, w = [p \in S |-> p.score]
    PROVE  MapThenSumSet(LAMBDA p : p.score, S) = Total(w, S)
<1> DEFINE IsSum(g) == g = [s \in SUBSET S |-> IF s = {} THEN 0
                                ELSE Chosen(s).score + g[s \ {Chosen(s)}]]
<1>1. MapThenSumSet(LAMBDA p : p.score, S) = (CHOOSE g : IsSum(g))[S]
  BY Zenon DEF MapThenSumSet, MapThenFoldSet, Chosen
<1>2. \A g : IsSum(g) <=> IsFold(w, S, g)
  <2>1. \A s \in SUBSET S : s # {} => w[Chosen(s)] = Chosen(s).score
    BY ChosenIn
  <2> QED
    BY <2>1 DEF IsFold
<1>3. PICK g : IsSum(g) /\ MapThenSumSet(LAMBDA p : p.score, S) = g[S]
  <2> HIDE DEF IsSum
  <2> QED
    BY <1>1, <1>2, FoldExists
<1>4. IsFold(w, S, g)
  BY <1>2, <1>3
<1> QED
  BY <1>3, <1>4, FoldIsTotal

(* finitely many values by name *)
Values(b) == IsFiniteSet(DOMAIN b) /\ \A m \in DOMAIN b : b[m] \in Nat

(* q lists S by descending b. *)
Ranks(b, S, q) ==
    /\ q \in SetToSeqs(S)
    /\ \A i, j \in DOMAIN q : i < j => b[q[i]] >= b[q[j]]

(* A list of a finite set has each of its elements at one place. *)
LEMMA Listed ==
    ASSUME NEW S, IsFiniteSet(S), NEW q \in SetToSeqs(S)
    PROVE  /\ Cardinality(S) \in Nat
           /\ q \in [1 .. Cardinality(S) -> S]
           /\ \A i, j \in 1 .. Cardinality(S) : i # j => q[i] # q[j]
           /\ \A x \in S : \E i \in 1 .. Cardinality(S) : q[i] = x
           /\ Len(q) = Cardinality(S)
<1> DEFINE D == 1 .. Cardinality(S)
<1>1. Cardinality(S) \in Nat
  BY FS_CardinalityType
<1>2. q \in [D -> S] /\ \A i, j \in D : i # j => q[i] # q[j]
  BY DEF SetToSeqs
<1>3. Cardinality(D) = Cardinality(S)
  BY <1>1, FS_Interval
<1>4. q \in Injection(D, S)
  BY <1>2 DEF Injection, IsInjective
<1>5. q \in Surjection(D, S)
  BY <1>3, <1>4, FS_Injection
<1>6. Len(q) = Cardinality(S)
  BY <1>1, <1>2, LenProperties
<1> QED
  BY <1>1, <1>2, <1>5, <1>6 DEF Surjection

(* Whatever the ties, names can be listed by descending value. *)
LEMMA RankingExists ==
    ASSUME NEW b, Values(b)
    PROVE  \E q : Ranks(b, DOMAIN b, q)
<1> DEFINE S == DOMAIN b
           B == {s \in SUBSET S : ~ \E q : Ranks(b, s, q)}
<1>1. SUFFICES ASSUME B # {} PROVE FALSE
  OBVIOUS
<1>2. PICK s \in B : \A r \in B : r \subseteq s => r = s
  <2>1. B \in SUBSET SUBSET S
    OBVIOUS
  <2> HIDE DEF B
  <2> QED
    BY <1>1, <2>1, MinimalSet DEF Values
<1>3. s \subseteq S /\ IsFiniteSet(s) /\ ~ \E q : Ranks(b, s, q)
  BY <1>2, FS_Subset DEF Values
<1>4. s # {}
  <2> SUFFICES ASSUME s = {} PROVE FALSE
    OBVIOUS
  <2>1. Cardinality(s) = 0
    BY FS_EmptySet
  <2>2. << >> \in SetToSeqs(s)
    BY <2>1 DEF SetToSeqs
  <2> QED
    BY <1>3, <2>2 DEF Ranks
<1>5. PICK a \in s : \A y \in s : b[a] <= b[y]
  <2>1. \A x \in s : b[x] \in Nat
    BY <1>3 DEF Values
  <2> QED
    BY <1>3, <1>4, <2>1, Extremes
<1> DEFINE r == s \ {a}
<1>6. r \subseteq s /\ r # s /\ IsFiniteSet(r)
  BY <1>3, <1>5, FS_Subset
<1>7. PICK q : Ranks(b, r, q)
  BY <1>2, <1>3, <1>6
<1>14. r \cup {a} = s /\ a \notin r
  BY <1>5
<1> HIDE DEF r, B, S
<1>12. PICK n : n = Cardinality(r)
  OBVIOUS
<1>8. /\ n \in Nat /\ q \in [1 .. n -> r] /\ DOMAIN q = 1 .. n
      /\ \A i, j \in 1 .. n : i # j => q[i] # q[j]
  <2>1. q \in SetToSeqs(r)
    BY <1>7 DEF Ranks
  <2> QED
    BY <1>6, <1>12, <2>1, Listed
<1>9. Cardinality(s) = n + 1
  BY <1>6, <1>12, <1>14, FS_AddElement
<1> DEFINE t == [i \in 1 .. n + 1 |-> IF i = n + 1 THEN a ELSE q[i]]
<1>10. t \in SetToSeqs(s)
  <2>1. t \in [1 .. n + 1 -> s]
    BY <1>5, <1>6, <1>8
  <2>2. \A i, j \in 1 .. n + 1 : i # j => t[i] # t[j]
    BY <1>8, <1>14
  <2> QED
    BY <1>9, <2>1, <2>2 DEF SetToSeqs
<1>11. \A i, j \in DOMAIN t : i < j => b[t[i]] >= b[t[j]]
  <2> SUFFICES ASSUME NEW i \in 1 .. n + 1, NEW j \in 1 .. n + 1, i < j
               PROVE  b[t[i]] >= b[t[j]]
    OBVIOUS
  <2>1. i \in 1 .. n /\ t[i] = q[i] /\ q[i] \in s
    BY <1>6, <1>8
  <2>2. CASE j = n + 1
    <3>1. b[a] <= b[q[i]] /\ b[a] \in Nat /\ b[q[i]] \in Nat
      BY <1>3, <1>5, <2>1 DEF Values, S
    <3> QED
      BY <2>1, <2>2, <3>1
  <2>3. CASE j \in 1 .. n
    BY <1>7, <1>8, <2>1, <2>3 DEF Ranks
  <2> QED
    BY <1>8, <2>2, <2>3
<1> HIDE DEF t
<1> QED
  BY <1>3, <1>10, <1>11 DEF Ranks

(* The i-th best of more is no less than the i-th best of fewer. *)
LEMMA RankByRank ==
    ASSUME NEW b, Values(b), NEW c, Values(c), DOMAIN b \subseteq DOMAIN c,
           \A m \in DOMAIN b : b[m] <= c[m],
           NEW q, Ranks(b, DOMAIN b, q), NEW r, Ranks(c, DOMAIN c, r)
    PROVE  /\ Len(q) \in Nat /\ Len(r) \in Nat /\ Len(q) <= Len(r)
           /\ \A i \in 1 .. Len(q) : /\ b[q[i]] \in Nat /\ c[r[i]] \in Nat
                                     /\ b[q[i]] <= c[r[i]]
<1>1. IsFiniteSet(DOMAIN b) /\ IsFiniteSet(DOMAIN c)
  BY DEF Values
<1> DEFINE n == Len(q)
           m == Len(r)
<1>2. /\ n \in Nat /\ q \in [1 .. n -> DOMAIN b] /\ n = Cardinality(DOMAIN b)
      /\ \A i, j \in 1 .. n : i # j => q[i] # q[j]
  BY <1>1, Listed DEF Ranks
<1>3. /\ m \in Nat /\ r \in [1 .. m -> DOMAIN c] /\ m = Cardinality(DOMAIN c)
      /\ \A x \in DOMAIN c : \E i \in 1 .. m : r[i] = x
  BY <1>1, Listed DEF Ranks
<1>4. n <= m
  BY <1>1, <1>2, <1>3, FS_Subset
<1>5. ASSUME NEW i \in 1 .. n
      PROVE  b[q[i]] \in Nat /\ c[r[i]] \in Nat /\ b[q[i]] <= c[r[i]]
  <2>0. i \in 1 .. m /\ q[i] \in DOMAIN b /\ r[i] \in DOMAIN c
    BY <1>2, <1>3, <1>4
  <2>1. b[q[i]] \in Nat /\ c[r[i]] \in Nat
    BY <2>0 DEF Values
  <2> SUFFICES ASSUME b[q[i]] > c[r[i]] PROVE FALSE
    BY <2>1
  <2>2. ASSUME NEW j \in 1 .. i
        PROVE  \E k \in 1 .. i - 1 : r[k] = q[j]
    <3>1. j \in 1 .. n /\ q[j] \in DOMAIN b /\ q[j] \in DOMAIN c
      BY <1>2
    <3>2. b[q[j]] \in Nat /\ c[q[j]] \in Nat /\ b[q[j]] <= c[q[j]]
      BY <3>1 DEF Values
    <3>3. b[q[j]] >= b[q[i]]
      BY <1>2, <2>1, <3>1 DEF Ranks
    <3>4. PICK k \in 1 .. m : r[k] = q[j]
      BY <1>3, <3>1
    <3>5. c[r[k]] > c[r[i]]
      BY <2>1, <3>2, <3>3, <3>4
    <3>6. k # i /\ ~ (i < k)
      <4>1. i < k => c[r[i]] >= c[r[k]]
        BY <1>3, <2>0, <3>4 DEF Ranks
      <4> QED
        BY <2>1, <3>2, <3>4, <3>5, <4>1
    <3>7. k \in 1 .. i - 1
      BY <2>0, <3>6
    <3> QED
      BY <3>4, <3>7
  <2> DEFINE f == [j \in 1 .. i |-> CHOOSE k \in 1 .. i - 1 : r[k] = q[j]]
  <2>3. \A j \in 1 .. i : f[j] \in 1 .. i - 1 /\ r[f[j]] = q[j]
    BY <2>2
  <2>4. f \in [1 .. i -> 1 .. i - 1]
    BY <2>3
  <2> HIDE DEF f
  <2>5. /\ IsFiniteSet(1 .. i) /\ IsFiniteSet(1 .. i - 1)
        /\ Cardinality(1 .. i - 1) < Cardinality(1 .. i)
    <3>1. i \in Int /\ i >= 1
      BY <1>2
    <3>2. Cardinality(1 .. i - 1) = i - 1 /\ Cardinality(1 .. i) = i
      BY <3>1, FS_Interval
    <3> QED
      BY <3>1, <3>2, FS_Interval
  <2>6. PICK x, y \in 1 .. i : x # y /\ f[x] = f[y]
    BY <2>4, <2>5, FS_PigeonHole
  <2>7. q[x] = q[y] /\ x \in 1 .. n /\ y \in 1 .. n
    BY <2>3, <2>6
  <2> QED
    BY <1>2, <2>6, <2>7
<1> QED
  BY <1>2, <1>3, <1>4, <1>5

(* So is the weighted sum of pp. *)
LEMMA WeightedTotal ==
    ASSUME NEW n \in Nat, NEW pps, DOMAIN pps = 1 .. n, Len(pps) = n,
           NEW w, w = [i \in 1 .. n |-> Weight[i] * pps[i]]
    PROVE  WeightedPp(pps) = Bonus[n] + Total(w, 1 .. n)
<1> DEFINE S == 1 .. n
           IsSum(g) == g = [s \in SUBSET S |-> IF s = {} THEN 0
                                ELSE Weight[Chosen(s)] * pps[Chosen(s)] + g[s \ {Chosen(s)}]]
           Sum == MapThenSumSet(LAMBDA i : Weight[i] * pps[i], S)
<1>1. Sum = (CHOOSE g : IsSum(g))[S]
  BY Zenon DEF MapThenSumSet, MapThenFoldSet, Chosen
<1>2. \A g : IsSum(g) <=> IsFold(w, S, g)
  <2>1. \A s \in SUBSET S : s # {} => w[Chosen(s)] = Weight[Chosen(s)] * pps[Chosen(s)]
    BY ChosenIn
  <2> QED
    BY <2>1 DEF IsFold
<1>3. IsFiniteSet(S)
  BY FS_Interval
<1>4. PICK g : IsSum(g) /\ Sum = g[S]
  <2> HIDE DEF IsSum, S, Sum
  <2> QED
    BY <1>1, <1>2, <1>3, FoldExists
<1>5. Sum = Total(w, S)
  <2>1. IsFold(w, S, g)
    BY <1>2, <1>4
  <2> HIDE DEF IsSum, S, Sum
  <2> QED
    BY <1>3, <1>4, <2>1, FoldIsTotal
<1> QED
  BY <1>5, Zenon DEF WeightedPp

(* More maps, each worth no less, weigh no less together. *)
LEMMA WeightedGrows ==
    ASSUME NEW m \in Nat, NEW n \in Nat, m <= n, n <= Len(Weight),
           NEW pps \in [1 .. m -> Nat], NEW qps \in [1 .. n -> Nat],
           \A i \in 1 .. m : pps[i] <= qps[i]
    PROVE  /\ WeightedPp(pps) \in Nat /\ WeightedPp(qps) \in Nat
           /\ WeightedPp(pps) <= WeightedPp(qps)
<1>1. PICK v, w : /\ v = [i \in 1 .. m |-> Weight[i] * pps[i]]
                  /\ w = [i \in 1 .. n |-> Weight[i] * qps[i]]
  OBVIOUS
<1>2. \A i \in 1 .. n : Weight[i] \in Nat
  BY ScoreAssumption
<1>3. (\A i \in 1 .. m : v[i] \in Nat) /\ \A i \in 1 .. n : w[i] \in Nat
  BY <1>1, <1>2
<1>4. \A i \in 1 .. m : v[i] <= w[i]
  <2> TAKE i \in 1 .. m
  <2>1. Weight[i] \in Nat /\ pps[i] \in Nat /\ qps[i] \in Nat /\ pps[i] <= qps[i]
    BY <1>2
  <2>2. \A a, b, c \in Nat : b <= c => a * b <= a * c
    OBVIOUS
  <2>3. Weight[i] * pps[i] <= Weight[i] * qps[i]
    BY <2>1, <2>2
  <2> QED
    BY <1>1, <2>3
<1>5. IsFiniteSet(1 .. m) /\ IsFiniteSet(1 .. n) /\ 1 .. m \in SUBSET (1 .. n)
  BY FS_Interval
<1>6. /\ Total(v, 1 .. m) \in Nat /\ Total(w, 1 .. n) \in Nat
      /\ Total(v, 1 .. m) <= Total(w, 1 .. n)
  BY <1>3, <1>4, <1>5, TotalNat, TotalGrows
<1>7. Bonus[m] \in Nat /\ Bonus[n] \in Nat /\ Bonus[m] <= Bonus[n]
  BY ScoreAssumption
<1>8. /\ WeightedPp(pps) = Bonus[m] + Total(v, 1 .. m)
      /\ WeightedPp(qps) = Bonus[n] + Total(w, 1 .. n)
  <2>1. DOMAIN pps = 1 .. m /\ Len(pps) = m /\ DOMAIN qps = 1 .. n /\ Len(qps) = n
    BY LenProperties
  <2> QED
    BY <1>1, <2>1, WeightedTotal
<1> QED
  BY <1>6, <1>7, <1>8

(* The top is the front of such a list. *)
LEMMA TopOf ==
    ASSUME NEW b, Values(b)
    PROVE  \E q, n : /\ Ranks(b, DOMAIN b, q) /\ n \in Nat
                     /\ n = IF Len(q) <= TopLimit THEN Len(q) ELSE TopLimit
                     /\ Top(b) = [i \in 1 .. n |-> b[q[i]]]
<1>1. PICK q : q = BestFirst(b)
  OBVIOUS
<1>2. Ranks(b, DOMAIN b, q)
  BY <1>1, RankingExists DEF BestFirst, Ranks
<1>3. Len(q) \in Nat
  BY <1>2, Listed DEF Ranks, Values
<1>4. TopLimit \in Nat
  BY ScoreAssumption DEF TopLimit
<1>5. Min({Len(q), TopLimit}) = IF Len(q) <= TopLimit THEN Len(q) ELSE TopLimit
  BY <1>3, <1>4, MinOfTwo
<1>6. Top(b) = [i \in 1 .. Min({Len(q), TopLimit}) |-> b[q[i]]]
  BY <1>1 DEF Top
<1> QED
  BY <1>2, <1>3, <1>4, <1>5, <1>6

(* More maps, each worth no less, have a top that weighs no less. *)
LEMMA TopGrows ==
    ASSUME NEW b, Values(b), NEW c, Values(c), DOMAIN b \subseteq DOMAIN c,
           \A m \in DOMAIN b : b[m] <= c[m]
    PROVE  /\ WeightedPp(Top(b)) \in Nat /\ WeightedPp(Top(c)) \in Nat
           /\ WeightedPp(Top(b)) <= WeightedPp(Top(c))
<1>1. PICK q, m : /\ Ranks(b, DOMAIN b, q) /\ m \in Nat
                  /\ m = IF Len(q) <= TopLimit THEN Len(q) ELSE TopLimit
                  /\ Top(b) = [i \in 1 .. m |-> b[q[i]]]
  BY TopOf
<1>2. PICK r, n : /\ Ranks(c, DOMAIN c, r) /\ n \in Nat
                  /\ n = IF Len(r) <= TopLimit THEN Len(r) ELSE TopLimit
                  /\ Top(c) = [i \in 1 .. n |-> c[r[i]]]
  BY TopOf
<1>3. /\ Len(q) \in Nat /\ Len(r) \in Nat /\ Len(q) <= Len(r)
      /\ \A i \in 1 .. Len(q) : /\ b[q[i]] \in Nat /\ c[r[i]] \in Nat
                                /\ b[q[i]] <= c[r[i]]
  BY <1>1, <1>2, RankByRank
<1>4. \A i \in 1 .. Len(r) : c[r[i]] \in Nat
  <2>1. r \in [1 .. Len(r) -> DOMAIN c]
    BY <1>2, Listed DEF Ranks, Values
  <2> QED
    BY <2>1 DEF Values
<1>5. TopLimit \in Nat /\ TopLimit = Len(Weight)
  BY ScoreAssumption DEF TopLimit
<1>6. m <= n /\ n <= Len(Weight) /\ m <= Len(q) /\ n <= Len(r)
  BY <1>1, <1>2, <1>3, <1>5
<1>7. /\ Top(b) \in [1 .. m -> Nat] /\ Top(c) \in [1 .. n -> Nat]
      /\ \A i \in 1 .. m : Top(b)[i] <= Top(c)[i]
  BY <1>1, <1>2, <1>3, <1>4, <1>6
<1> QED
  BY <1>1, <1>2, <1>6, <1>7, WeightedGrows

(* The profile of the model is this one, for the plays unpriced now. *)
LEMMA ProfileNow == \A S : Profile(S) = ProfileIn(unpriced, S)
BY Zenon DEF Profile, ProfileIn, Best, BestIn, BestOn, PpOf, PpIn

(* More scores, or fewer of them unpriced, have a best no less on each     *)
(* map.                                                                    *)
LEMMA BestGrows ==
    ASSUME NEW S, IsFiniteSet(S), \A p \in S : p.pp \in Nat, NEW T \in SUBSET S,
           NEW U, NEW V \in SUBSET U
    PROVE  /\ Values(BestIn(U, T)) /\ DOMAIN BestIn(U, T) \subseteq DOMAIN BestIn(V, S)
           /\ \A m \in DOMAIN BestIn(U, T) : BestIn(U, T)[m] <= BestIn(V, S)[m]
<1> DEFINE Pps(X, R, m) == {PpIn(X, p) : p \in {q \in R : q.map = m}}
<1>1. ASSUME NEW X, NEW R \in SUBSET S
      PROVE  /\ DOMAIN BestIn(X, R) = {p.map : p \in R}
             /\ IsFiniteSet({p.map : p \in R})
             /\ \A m \in {p.map : p \in R} :
                  /\ BestIn(X, R)[m] \in Nat
                  /\ BestIn(X, R)[m] \in Pps(X, R, m)
                  /\ \A x \in Pps(X, R, m) : BestIn(X, R)[m] >= x
  <2>1. IsFiniteSet(R)
    BY FS_Subset
  <2>2. IsFiniteSet({p.map : p \in R})
    <3> DEFINE f == [p \in R |-> p.map]
    <3>1. IsFiniteSet({f[p] : p \in R})
      BY <2>1, ImageFinite
    <3>2. {f[p] : p \in R} = {p.map : p \in R}
      OBVIOUS
    <3> QED
      BY <3>1, <3>2
  <2>3. DOMAIN BestIn(X, R) = {p.map : p \in R}
    BY DEF BestIn
  <2>4. ASSUME NEW m \in {p.map : p \in R}
        PROVE  /\ BestIn(X, R)[m] \in Nat
               /\ BestIn(X, R)[m] \in Pps(X, R, m)
               /\ \A x \in Pps(X, R, m) : BestIn(X, R)[m] >= x
    <3>1. BestIn(X, R)[m] = Max(Pps(X, R, m))
      BY DEF BestIn
    <3>2. IsFiniteSet({q \in R : q.map = m})
      BY <2>1, FS_Subset
    <3>3. IsFiniteSet(Pps(X, R, m))
      <4> DEFINE Q == {q \in R : q.map = m}
                 f == [p \in Q |-> PpIn(X, p)]
      <4>1. IsFiniteSet({f[p] : p \in Q})
        BY <3>2, ImageFinite
      <4>2. {f[p] : p \in Q} = Pps(X, R, m)
        OBVIOUS
      <4> QED
        BY <4>1, <4>2
    <3>4. Pps(X, R, m) \in SUBSET Nat /\ Pps(X, R, m) # {}
      BY DEF PpIn
    <3> HIDE DEF Pps
    <3> QED
      BY <3>1, <3>3, <3>4, MaxIs
  <2> QED
    BY <2>2, <2>3, <2>4
<1>2. \A R \in SUBSET S : \A X : Values(BestIn(X, R))
  BY <1>1 DEF Values
<1>3. ASSUME NEW m \in {p.map : p \in T}
      PROVE  BestIn(U, T)[m] <= BestIn(V, S)[m]
  <2>0. BestIn(U, T)[m] \in Pps(U, T, m)
    <3> HIDE DEF Pps
    <3> QED
      BY <1>1
  <2>1. PICK p \in T : p.map = m /\ BestIn(U, T)[m] = PpIn(U, p)
    BY <2>0
  <2>2. PpIn(V, p) \in Pps(V, S, m) /\ m \in {q.map : q \in S}
    BY <2>1
  <2>3. BestIn(V, S)[m] \in Nat /\ BestIn(V, S)[m] >= PpIn(V, p)
    BY <1>1, <2>2
  <2>4. PpIn(U, p) \in Nat /\ PpIn(V, p) \in Nat /\ PpIn(U, p) <= PpIn(V, p)
    BY <2>1 DEF PpIn
  <2> QED
    BY <2>1, <2>3, <2>4
<1>4. DOMAIN BestIn(U, T) = {p.map : p \in T} /\ DOMAIN BestIn(V, S) = {p.map : p \in S}
  BY <1>1
<1>5. {p.map : p \in T} \subseteq {p.map : p \in S}
  OBVIOUS
<1> QED
  BY <1>2, <1>3, <1>4, <1>5

(* More scores, or fewer of them unpriced, are never worth less. *)
LEMMA ProfileGrows ==
    ASSUME NEW S, IsFiniteSet(S), \A p \in S : p.pp \in Nat, NEW T \in SUBSET S,
           NEW U, NEW V \in SUBSET U
    PROVE  /\ ProfileIn(U, T) \in 0 .. PpCap /\ ProfileIn(V, S) \in 0 .. PpCap
           /\ ProfileIn(U, T) <= ProfileIn(V, S)
<1>1. Values(BestIn(U, T)) /\ Values(BestIn(V, S))
  BY BestGrows
<1>2. /\ WeightedPp(Top(BestIn(U, T))) \in Nat /\ WeightedPp(Top(BestIn(V, S))) \in Nat
      /\ WeightedPp(Top(BestIn(U, T))) <= WeightedPp(Top(BestIn(V, S)))
  BY <1>1, BestGrows, TopGrows
<1>3. PpCap \in Nat
  BY ScoreAssumption
<1> QED
  BY <1>2, <1>3, MinOfTwo DEF ProfileIn

(* Nor is the best of more scores less than that of fewer. *)
LEMMA BestScoreGrows ==
    ASSUME NEW S, IsFiniteSet(S), \A p \in S : p.score \in Nat, NEW T \in SUBSET S
    PROVE  BestScore(T) \in Nat /\ BestScore(S) \in Nat /\ BestScore(T) <= BestScore(S)
<1> DEFINE Of(R) == {p.score : p \in R}
<1>1. ASSUME NEW R \in SUBSET S, R # {}
      PROVE  BestScore(R) \in Nat /\ BestScore(R) \in Of(R) /\ \A x \in Of(R) : BestScore(R) >= x
  <2>1. IsFiniteSet(R)
    BY FS_Subset
  <2>2. IsFiniteSet(Of(R))
    <3> DEFINE f == [p \in R |-> p.score]
    <3>1. IsFiniteSet({f[p] : p \in R})
      BY <2>1, ImageFinite
    <3>2. {f[p] : p \in R} = Of(R)
      OBVIOUS
    <3> QED
      BY <3>1, <3>2
  <2>4. Of(R) \in SUBSET Nat /\ Of(R) # {}
    BY <1>1
  <2>3. BestScore(R) = Max(Of(R))
    BY <1>1 DEF BestScore
  <2> HIDE DEF Of
  <2> QED
    BY <2>2, <2>3, <2>4, MaxIs
<1>2. BestScore({}) = 0
  BY DEF BestScore
<1>3. CASE T = {}
  BY <1>1, <1>2, <1>3
<1>4. CASE T # {}
  <2>1. BestScore(T) \in Of(S) /\ S # {}
    BY <1>1, <1>4
  <2> QED
    BY <1>1, <1>4, <2>1
<1> QED
  BY <1>3, <1>4

-----------------------------------------------------------------------------
(* Rows, and the states of handlers and of the recalculation *)

(* Plays are what the assumption says of them, whatever becomes of their   *)
(* relax, and a play to submit is never one of the legacy ones.            *)
LEMMA PlayedShape ==
    /\ \A p \in Played : /\ p.mode \in 0 .. 3 /\ p.relax \in BOOLEAN
                         /\ p.score \in Nat /\ p.pp \in Nat /\ RowOf(p) \in 0 .. 6
    /\ \A p \in Plays, b \in BOOLEAN : [p EXCEPT !.relax = p.relax \/ b] \in New
<1> DEFINE With(p, b) == [p EXCEPT !.relax = p.relax \/ b]
<1>1. ASSUME NEW p \in Plays, NEW b \in BOOLEAN
      PROVE  /\ With(p, b).mode = p.mode /\ With(p, b).relax \in BOOLEAN
             /\ With(p, b).score = p.score /\ With(p, b).pp = p.pp
             /\ With(p, b).checksum = p.checksum
  BY ScoreAssumption
<1>2. \A p \in Played : /\ p.mode \in 0 .. 3 /\ p.relax \in BOOLEAN
                        /\ p.score \in Nat /\ p.pp \in Nat
  BY <1>1, ScoreAssumption DEF Played
<1>3. \A p \in Played : RowOf(p) \in 0 .. 6
  BY <1>2 DEF RowOf
<1>4. \A p \in Plays, b \in BOOLEAN : With(p, b) \in New
  <2> TAKE p \in Plays, b \in BOOLEAN
  <2>1. With(p, b) \in Played
    BY DEF Played
  <2>2. With(p, b) \notin Legacy
    BY <1>1, ScoreAssumption
  <2> QED
    BY <2>1, <2>2 DEF New
<1> QED
  BY <1>2, <1>3, <1>4

(* save_score selects scores of the row it writes, and all of them where   *)
(* the row is the mode's own.                                              *)
LEMMA RowIsClass ==
    ASSUME NEW S \in SUBSET Played, NEW p \in Played
    PROVE  /\ Class(S, p.mode, p.relax) \subseteq In(S, RowOf(p))
           /\ Own(RowOf(p)) => Class(S, p.mode, p.relax) = In(S, RowOf(p))
<1>1. \A q \in Played : q.mode \in 0 .. 3 /\ q.relax \in BOOLEAN
  BY PlayedShape
<1>2. Class(S, p.mode, p.relax) \subseteq In(S, RowOf(p))
  BY DEF Class, In, RowOf
<1>3. ASSUME Own(RowOf(p)), NEW q \in S, RowOf(q) = RowOf(p)
      PROVE  q.mode = p.mode /\ q.relax = p.relax
  <2>1. q.relax = (RowOf(p) >= 4) /\ p.relax = (RowOf(p) >= 4)
    BY <1>3 DEF Own
  <2> QED
    BY <1>1, <1>3, <2>1 DEF RowOf
<1> QED
  BY <1>2, <1>3 DEF Class, In

(* So does the recalculation. *)
LEMMA RowIsRecalculated ==
    ASSUME NEW S \in SUBSET Played, NEW r \in 0 .. 6
    PROVE  /\ RecalculatedFrom(S, r) \subseteq S
           /\ Own(r) => RecalculatedFrom(S, r) = In(S, r)
<1>1. \A q \in Played : q.mode \in 0 .. 3 /\ q.relax \in BOOLEAN
  BY PlayedShape
<1>2. RecalculatedFrom(S, r) \subseteq S
  BY DEF RecalculatedFrom, Class
<1>3. ASSUME Own(r), NEW q \in S
      PROVE  q \in RecalculatedFrom(S, r) <=> RowOf(q) = r
  <2>1. RowOf(q) = r => q.relax = (r >= 4)
    BY <1>3 DEF Own
  <2>2. CASE r >= 4
    BY <1>1, <2>1, <2>2 DEF RowOf, RecalculatedFrom, Class
  <2>3. CASE r < 4
    BY <1>1, <2>1, <2>3 DEF RowOf, RecalculatedFrom, Class
  <2> QED
    BY <2>2, <2>3
<1> QED
  BY <1>2, <1>3 DEF In

(* what a handler holds at each step *)
LEMMA HandlerShapes ==
    \A s \in HandlerStates :
        /\ s.step \in {"idle", "insert", "ensure", "before", "best", "update", "answered"}
        /\ s.step = "idle" => s = Idle
        /\ s.step # "idle" => s.play \in New
        /\ s.step \in {"best", "update", "answered"} => s.before \in 0 .. PpCap
        /\ s.step \in {"update", "answered"} => s.after \in 0 .. PpCap
BY DEF HandlerStates, Idle

(* what the recalculation holds at each step *)
LEMMA RecalcShapes ==
    \A s \in RecalcStates :
        /\ s.step \in {"off", "price", "rows", "write"}
        /\ s.step = "price" => s.todo \subseteq Legacy
        /\ s.step \in {"rows", "write"} => s.todo \subseteq 0 .. 6
        /\ s.step = "write" => s.row \in 0 .. 6 /\ s.pp \in 0 .. PpCap
BY DEF RecalcStates, Off

(* the states handlers go to *)
LEMMA Nexts ==
    /\ Idle \in HandlerStates
    /\ \A p \in New : [step |-> "insert", play |-> p] \in HandlerStates
    /\ \A s \in HandlerStates :
        /\ s.step = "insert" => [s EXCEPT !.step = "ensure"] = [step |-> "ensure", play |-> s.play]
        /\ s.step = "ensure" => [s EXCEPT !.step = "before"] = [step |-> "before", play |-> s.play]
        /\ s.step = "update" => [s EXCEPT !.step = "answered"] =
              [step |-> "answered", play |-> s.play, before |-> s.before, after |-> s.after]
    /\ \A p \in New : /\ [step |-> "ensure", play |-> p] \in HandlerStates
                      /\ [step |-> "before", play |-> p] \in HandlerStates
    /\ \A p \in New, m \in 0 .. PpCap : 
            [step |-> "best", play |-> p, before |-> m] \in HandlerStates
    /\ \A p \in New, m, n \in 0 .. PpCap : 
          /\ [step |-> "update", play |-> p, before |-> m, after |-> n] \in HandlerStates
          /\ [step |-> "answered", play |-> p, before |-> m, after |-> n] \in HandlerStates
BY DEF HandlerStates, Idle

-----------------------------------------------------------------------------
(* Every step leaves each play counted once, in its row *)

(* Tallied says what CountedOnce says. *)
LEMMA TalliedOnce == Tallied => CountedOnce
BY Zenon DEF Tallied, Tally, CountedOnce

(* A new row counts no play. *)
LEMMA TallyNone == Tally(EmptyRow, {})
<1>1. IsFiniteSet({}) /\ Cardinality({}) = 0
  BY FS_EmptySet
<1>2. MapThenSumSet(LAMBDA p : p.score, {}) = 0
  <2>1. PICK w : w = [x \in {} |-> x.score]
    OBVIOUS
  <2>2. MapThenSumSet(LAMBDA p : p.score, {}) = Total(w, {})
    BY <1>1, <2>1, ScoreTotal
  <2> QED
    BY <1>1, <2>2, TotalStep
<1>3. EmptyRow.plays = 0 /\ EmptyRow.total = 0
  BY DEF EmptyRow
<1> QED
  BY <1>1, <1>2, <1>3, Zenon DEF Tally

(* A step of a handler changes its own state only. *)
LEMMA GoesStep ==
    ASSUME Typed, NEW h \in Handlers, NEW s \in HandlerStates, Goes(h, s)
    PROVE  /\ submission' \in [Handlers -> HandlerStates] /\ submission'[h] = s
           /\ \A g \in Handlers \ {h} : submission'[g] = submission[g]
BY DEF Typed, Goes

(* A handler that leaves the tables alone keeps Core, if it pretends to no *)
(* play it has not inserted.                                               *)
LEMMA AsideStep ==
    ASSUME Core, NEW h \in Handlers, NEW s \in HandlerStates, Goes(h, s),
           UNCHANGED <<scores, unpriced, stats, recalc, counted>>, undisturbed' \in BOOLEAN,
           Saved(s) => Saved(submission[h]) /\ s.play = submission[h].play,
           Uncounted(s) => Uncounted(submission[h])
    PROVE  Core'
<1>1. /\ submission' \in [Handlers -> HandlerStates] /\ submission'[h] = s
      /\ \A g \in Handlers \ {h} : submission'[g] = submission[g]
  BY GoesStep DEF Core
<1>2. Typed'
  BY <1>1 DEF Core, Typed
<1>3. RowsListed' /\ Tallied'
  BY DEF Core, RowsListed, Tallied
<1>4. PlaysApart'
  <2>1. \A g \in Handlers : 
          /\ Saved(submission'[g]) => /\ Saved(submission[g])
                                      /\ submission'[g].play = submission[g].play
          /\ Uncounted(submission'[g]) => Uncounted(submission[g])
    BY <1>1
  <2>2. \A g \in Handlers : Uncounted(submission'[g]) => Saved(submission'[g])
    BY DEF Saved, Uncounted
  <2> QED
    BY <2>1, <2>2 DEF Core, PlaysApart
<1> QED
  BY <1>2, <1>3, <1>4 DEF Core

(* The index keeps a play that is inserted apart from all others. *)
LEMMA InsertStep ==
    ASSUME Core, NEW h \in Handlers, Insert(h)
    PROVE  Core' /\ scores \subseteq scores'
<1> DEFINE p == submission[h].play
<1>0. submission[h] \in HandlerStates /\ submission[h].step = "insert" /\ p \in New
  BY HandlerShapes DEF Core, Typed, Insert, Busy
<1>1. CASE \E q \in scores : q.checksum = p.checksum
  <2>1. Goes(h, Idle) /\ UNCHANGED <<scores, unpriced, stats, recalc, counted, undisturbed>>
    BY <1>1 DEF Insert, history
  <2>2. ~Saved(Idle) /\ ~Uncounted(Idle)
    BY DEF Saved, Uncounted, Idle
  <2>3. undisturbed' \in BOOLEAN
    BY <2>1 DEF Core, Typed
  <2> QED
    BY <2>1, <2>2, <2>3, Nexts, AsideStep
<1>2. CASE ~ \E q \in scores : q.checksum = p.checksum
  <2> DEFINE s == [step |-> "ensure", play |-> p]
  <2>1. Goes(h, s) /\ scores' = scores \cup {p}
        /\ UNCHANGED <<unpriced, stats, recalc, counted, undisturbed>>
    BY <1>0, <1>2, Nexts DEF Insert, history
  <2>2. s \in HandlerStates
    BY <1>0, Nexts
  <2>3. /\ submission' \in [Handlers -> HandlerStates] /\ submission'[h] = s
        /\ \A g \in Handlers \ {h} : submission'[g] = submission[g]
    BY <2>1, <2>2, GoesStep DEF Core
  <2>4. p \notin scores
    BY <1>2
  <2>5. IsFiniteSet(scores') /\ scores' \subseteq Played
    BY <1>0, <2>1, FS_AddElement DEF Core, Typed, New
  <2>6. Typed'
    BY <2>1, <2>3, <2>5 DEF Core, Typed
  <2>7. RowsListed' /\ Tallied'
    BY <2>1 DEF Core, RowsListed, Tallied
  <2>8. PlaysApart'
    <3> USE DEF PlaysApart
    <3>1. \A g \in Handlers : Saved(submission'[g]) => submission'[g].play \in scores'
      BY <2>1, <2>3 DEF Core
    <3>2. \A g \in Handlers \ {h} : Uncounted(submission'[g]) =>
              /\ submission'[g].play \in scores /\ submission'[g].play \notin counted
      BY <2>3 DEF Core, Uncounted, Saved
    <3>3. submission'[h].play = p /\ p \notin counted
      BY <2>3, <2>4 DEF Core, Typed
    <3>4. \A f, g \in Handlers :
            Uncounted(submission'[f]) /\ Uncounted(submission'[g]) /\ f # g =>
                submission'[f].play # submission'[g].play
      BY <2>3, <2>4, <3>2, <3>3 DEF Core
    <3>5. \A g \in Handlers : Uncounted(submission'[g]) => submission'[g].play \notin counted'
      BY <2>1, <3>2, <3>3
    <3>6. \A q \in counted' : RowOf(q) \in DOMAIN stats'
      BY <2>1 DEF Core
    <3> QED
      BY <3>1, <3>4, <3>5, <3>6
  <2> QED
    BY <2>1, <2>6, <2>7, <2>8 DEF Core
<1> QED
  BY <1>1, <1>2 DEF Insert

(* No play is counted for a row that is not there. *)
LEMMA EmptyIn ==
    \A r : r \notin DOMAIN stats /\ PlaysApart => In(counted, r) = {}
BY DEF In, PlaysApart

(* INSERT OR IGNORE adds a row that counts nothing, or leaves all as it    *)
(* was.                                                                    *)
LEMMA EnsureStep ==
    ASSUME Core, NEW h \in Handlers, EnsureRow(h)
    PROVE  /\ Core'
           /\ \A r \in DOMAIN stats : r \in DOMAIN stats' /\ stats'[r] = stats[r]
           /\ \A r \in DOMAIN stats' \ DOMAIN stats : 
                stats'[r] = EmptyRow /\ In(counted, r) = {}
<1> DEFINE p == submission[h].play
           s == [step |-> "before", play |-> p]
           r == RowOf(p)
<1>0. submission[h] \in HandlerStates /\ submission[h].step = "ensure" /\ p \in New
  BY HandlerShapes DEF Core, Typed, EnsureRow, Busy
<1>1. Goes(h, s) /\ s \in HandlerStates
  BY <1>0, Nexts DEF EnsureRow
<1>2. UNCHANGED <<scores, unpriced, recalc, counted, undisturbed>>
  BY DEF EnsureRow, history
<1>3. /\ submission' \in [Handlers -> HandlerStates] /\ submission'[h] = s
      /\ \A g \in Handlers \ {h} : submission'[g] = submission[g]
  BY <1>1, GoesStep DEF Core
<1>4. r \in 0 .. 6
  BY <1>0, PlayedShape DEF New
<1>5. EmptyRow \in Entry
  BY ScoreAssumption DEF EmptyRow, Entry
<1>6. \/ r \notin DOMAIN stats /\ stats' = Put(stats, r, EmptyRow)
      \/ stats' = stats
  BY DEF EnsureRow
<1>7. /\ DOMAIN stats' \subseteq 0 .. 6 /\ stats' \in [DOMAIN stats' -> Entry]
      /\ \A q \in DOMAIN stats : q \in DOMAIN stats' /\ stats'[q] = stats[q]
      /\ \A q \in DOMAIN stats' \ DOMAIN stats : stats'[q] = EmptyRow
  <2> HIDE DEF r
  <2> QED
    BY <1>4, <1>5, <1>6 DEF Put, Core, Typed
<1>8. \A q \in DOMAIN stats' \ DOMAIN stats : In(counted, q) = {}
  BY EmptyIn DEF Core
<1>9. Typed'
  BY <1>2, <1>3, <1>7 DEF Core, Typed
<1>10. RowsListed'
  BY <1>2, <1>7 DEF Core, RowsListed
<1>11. Tallied'
  <2>1. \A q \in DOMAIN stats' : Tally(stats'[q], In(counted, q))
    BY <1>7, <1>8, TallyNone DEF Core, Tallied
  <2> QED
    BY <1>2, <2>1 DEF Tallied
<1>12. PlaysApart'
  <2>1. \A g \in Handlers : 
          /\ Saved(submission'[g]) => /\ Saved(submission[g])
                                      /\ submission'[g].play = submission[g].play
          /\ Uncounted(submission'[g]) => Uncounted(submission[g])
    BY <1>0, <1>3 DEF Saved, Uncounted
  <2>2. \A g \in Handlers : Uncounted(submission'[g]) => Saved(submission'[g])
    BY DEF Saved, Uncounted
  <2> QED
    BY <1>2, <1>7, <2>1, <2>2 DEF Core, PlaysApart
<1> QED
  BY <1>7, <1>8, <1>9, <1>10, <1>11, <1>12 DEF Core

(* A row that adds a play it has not counted counts one play more. *)
LEMMA TallyOneMore ==
    ASSUME NEW C, IsFiniteSet(C), \A x \in C : x.score \in Nat,
           NEW p, p \notin C, p.score \in Nat,
           NEW s, Tally(s, C), NEW t, t.plays = s.plays + 1, t.total = s.total + p.score
    PROVE  Tally(t, C \cup {p})
<1> DEFINE D == C \cup {p}
<1>1. IsFiniteSet(D) /\ Cardinality(D) = Cardinality(C) + 1
  BY FS_AddElement
<1>2. PICK v, w : v = [x \in C |-> x.score] /\ w = [x \in D |-> x.score]
  OBVIOUS
<1>3. /\ MapThenSumSet(LAMBDA x : x.score, C) = Total(v, C)
      /\ MapThenSumSet(LAMBDA x : x.score, D) = Total(w, D)
  BY <1>1, <1>2, ScoreTotal
<1>4. /\ \A x \in D : w[x] \in Nat
      /\ \A x \in C : v[x] \in Nat /\ w[x] \in Nat /\ v[x] = w[x]
      /\ w[p] = p.score /\ p \in D
  BY <1>2
<1>5. D \ {p} = C
  OBVIOUS
<1>6. Total(w, D) = p.score + Total(w, C)
  BY <1>1, <1>4, <1>5, TotalWithout
<1>7. Total(v, C) = Total(w, C)
  BY <1>4, TotalSame
<1>8. Total(v, C) \in Nat
  BY <1>4, TotalNat
<1>9. s.plays = Cardinality(C) /\ s.total = Total(v, C)
  BY <1>3, Zenon DEF Tally
<1>10. t.plays = Cardinality(D)
  BY <1>1, <1>9
<1>11. t.total = Total(w, D)
  BY <1>4, <1>6, <1>7, <1>8, <1>9
<1> QED
  BY <1>3, <1>10, <1>11, Zenon DEF Tally

(* The UPDATE counts the play of its handler, in its row, and no other. *)
LEMMA UpdateStep ==
    ASSUME Core, NEW h \in Handlers, UpdateStats(h),
           NEW p, p = submission[h].play, NEW r, r = RowOf(p)
    PROVE  /\ Core'
           /\ p \in scores /\ r \in 0 .. 6 /\ counted \subseteq counted'
           /\ UNCHANGED <<scores, unpriced, recalc, undisturbed, DOMAIN stats>>
           /\ \A q \in DOMAIN stats \ {r} :
                stats'[q] = stats[q] /\ In(counted', q) = In(counted, q)
           /\ r \in DOMAIN stats =>
                /\ stats'[r].pp = submission[h].after
                /\ stats'[r].ranked = BestScore(Class(scores, p.mode, p.relax))
<1>0. /\ submission[h] \in HandlerStates /\ submission[h].step = "update" /\ p \in New
      /\ submission[h].before \in 0 .. PpCap /\ submission[h].after \in 0 .. PpCap
  BY HandlerShapes DEF Core, Typed, UpdateStats, Busy
<1> DEFINE s == [step |-> "answered", play |-> p,
                 before |-> submission[h].before, after |-> submission[h].after]
           t == Updated(stats[r], p, submission[h].after)
<1>1. Goes(h, s) /\ s \in HandlerStates
  BY <1>0, Nexts DEF UpdateStats
<1>2. UNCHANGED <<scores, unpriced, recalc, undisturbed>>
  BY DEF UpdateStats
<1>3. /\ submission' \in [Handlers -> HandlerStates] /\ submission'[h] = s
      /\ \A g \in Handlers \ {h} : submission'[g] = submission[g]
  BY <1>1, GoesStep DEF Core
<1>4. /\ r \in 0 .. 6 /\ p \in scores /\ p \notin counted /\ p \in Played
      /\ p.score \in Nat
  BY <1>0, PlayedShape DEF New, Core, PlaysApart, Saved, Uncounted
<1>5. IF r \in DOMAIN stats
      THEN stats' = [stats EXCEPT ![r] = t] /\ counted' = counted \cup {p}
      ELSE stats' = stats /\ counted' = counted
  BY DEF UpdateStats
<1>6. BestScore(Class(scores, p.mode, p.relax)) \in Nat
  <2>1. IsFiniteSet(scores) /\ \A q \in scores : q.score \in Nat
    BY PlayedShape DEF Core, Typed
  <2>2. Class(scores, p.mode, p.relax) \in SUBSET scores
    BY DEF Class
  <2> QED
    BY <2>1, <2>2, BestScoreGrows
<1>7. /\ t.plays = stats[r].plays + 1 /\ t.total = stats[r].total + p.score
      /\ t.ranked = BestScore(Class(scores, p.mode, p.relax))
      /\ t.pp = submission[h].after
  BY DEF Updated
<1>8. r \in DOMAIN stats => t \in Entry
  <2> SUFFICES ASSUME r \in DOMAIN stats PROVE t \in Entry
    OBVIOUS
  <2>1. stats[r].plays \in Nat /\ stats[r].total \in Nat
    BY DEF Core, Typed, Entry
  <2> QED
    BY <1>0, <1>4, <1>6, <2>1 DEF Updated, Entry
<1> HIDE DEF s, t
<1>9. /\ DOMAIN stats' = DOMAIN stats /\ stats' \in [DOMAIN stats' -> Entry]
      /\ \A q \in DOMAIN stats \ {r} : stats'[q] = stats[q]
      /\ r \in DOMAIN stats => stats'[r] = t
  BY <1>5, <1>8 DEF Core, Typed
<1>10. /\ counted \subseteq counted' /\ counted' \subseteq counted \cup {p}
       /\ \A q \in DOMAIN stats \ {r} : In(counted', q) = In(counted, q)
       /\ r \in DOMAIN stats => In(counted', r) = In(counted, r) \cup {p}
  BY <1>5 DEF In
<1>11. Typed'
  BY <1>2, <1>3, <1>4, <1>9, <1>10 DEF Core, Typed
<1>12. RowsListed'
  BY <1>2, <1>9 DEF Core, RowsListed
<1>13. Tallied'
  <2>1. ASSUME r \in DOMAIN stats
        PROVE  Tally(t, In(counted, r) \cup {p})
    <3>1. IsFiniteSet(In(counted, r)) /\ \A x \in In(counted, r) : x.score \in Nat
      <4>1. In(counted, r) \in SUBSET scores
        BY DEF In, Core, Typed
      <4> QED
        BY <4>1, FS_Subset, PlayedShape DEF Core, Typed
    <3>2. Tally(stats[r], In(counted, r)) /\ p \notin In(counted, r)
      BY <1>4, <2>1 DEF Core, Tallied, In
    <3> QED
      BY <1>4, <1>7, <3>1, <3>2, TallyOneMore
  <2>2. \A q \in DOMAIN stats' : Tally(stats'[q], In(counted', q))
    BY <1>9, <1>10, <2>1 DEF Core, Tallied
  <2> QED
    BY <2>2 DEF Tallied
<1>14. PlaysApart'
  <2>1. \A g \in Handlers : Uncounted(submission'[g]) =>
            /\ g # h /\ submission'[g] = submission[g]
    BY <1>3 DEF s, Uncounted
  <2>2. \A g \in Handlers : Saved(submission'[g]) =>
            Saved(submission[g]) /\ submission'[g].play = submission[g].play
    BY <1>0, <1>3 DEF s, Saved
  <2>3. \A g \in Handlers : Uncounted(submission'[g]) => submission[g].play # p
    BY <1>0, <2>1 DEF Core, PlaysApart, Uncounted
  <2>4. \A q \in counted' : RowOf(q) \in DOMAIN stats'
    BY <1>5, <1>9 DEF Core, PlaysApart
  <2> QED
    BY <1>2, <1>10, <2>1, <2>2, <2>3, <2>4 DEF Core, PlaysApart
<1> QED
  BY <1>2, <1>4, <1>7, <1>9, <1>10, <1>11, <1>12, <1>13, <1>14 DEF Core

-----------------------------------------------------------------------------
(* The recalculation *)

(* The recalculation touches neither counters nor handlers. *)
LEMMA RecalcCore ==
    ASSUME Core, UNCHANGED <<scores, submission, counted>>, undisturbed' \in BOOLEAN,
           unpriced' \subseteq unpriced, recalc' \in RecalcStates, RowsListed',
           DOMAIN stats' = DOMAIN stats, stats' \in [DOMAIN stats' -> Entry],
           \A r \in DOMAIN stats : /\ stats'[r].plays = stats[r].plays
                                   /\ stats'[r].total = stats[r].total
    PROVE  Core'
<1>1. Typed'
  BY DEF Core, Typed
<1>2. PlaysApart'
  BY DEF Core, PlaysApart
<1>3. Tallied'
  <2>1. \A r \in DOMAIN stats : Tally(stats'[r], In(counted, r))
    <3> TAKE r \in DOMAIN stats
    <3>1. Tally(stats[r], In(counted, r))
      BY DEF Core, Tallied
    <3> QED
      BY <3>1, Zenon DEF Tally
  <2> QED
    BY <2>1 DEF Tallied
<1> QED
  BY <1>1, <1>2, <1>3 DEF Core

(* A start begins with the scores to be priced. *)
LEMMA StartStep ==
    ASSUME Core, Start
    PROVE  /\ Core' /\ UNCHANGED <<scores, unpriced, stats, submission, counted>>
           /\ recalc'.step = "price"
           /\ undisturbed' => \A h \in Handlers : submission[h] = Idle
<1>1. recalc' \in RecalcStates /\ recalc'.step = "price"
  BY DEF Start, RecalcStates, Core, Typed
<1>2. undisturbed' \in BOOLEAN
  BY DEF Start
<1>3. RowsListed'
  BY <1>1 DEF RowsListed
<1>4. UNCHANGED <<scores, unpriced, stats, submission, counted>>
  BY DEF Start
<1>5. Core'
  BY <1>1, <1>2, <1>3, <1>4, RecalcCore DEF Core, Typed
<1>6. undisturbed' => \A h \in Handlers : submission[h] = Idle
  BY HandlerShapes DEF Start, Busy, Core, Typed
<1> QED
  BY <1>1, <1>4, <1>5, <1>6

(* Pricing takes scores off the unpriced. *)
LEMMA PriceStep ==
    ASSUME Core, NEW p, Price(p)
    PROVE  /\ Core' /\ UNCHANGED <<scores, stats, submission, counted>>
           /\ unpriced' \subseteq unpriced
           /\ recalc'.step = "price" /\ undisturbed' \in {undisturbed, FALSE}
<1>1. recalc \in RecalcStates /\ recalc.step = "price"
  BY DEF Price, Core, Typed
<1>2. recalc' \in RecalcStates /\ recalc'.step = "price"
  BY <1>1 DEF Price, RecalcStates, Off
<1>3. RowsListed'
  BY <1>2 DEF RowsListed
<1>4. UNCHANGED <<scores, stats, submission, counted>> /\ unpriced' \subseteq unpriced
  BY DEF Price
<1>5. undisturbed' \in {undisturbed, FALSE}
  BY DEF Price
<1>6. Core'
  BY <1>2, <1>3, <1>4, <1>5, RecalcCore DEF Core, Typed
<1> QED
  BY <1>2, <1>4, <1>5, <1>6

(* All rows are to be visited. *)
LEMMA ListStep ==
    ASSUME Core, ListRows
    PROVE  /\ Core' /\ UNCHANGED <<scores, unpriced, stats, submission, history>>
           /\ recalc' = [step |-> "rows", todo |-> DOMAIN stats]
<1>1. recalc' \in RecalcStates
  BY DEF ListRows, RecalcStates, Core, Typed
<1>2. RowsListed'
  BY DEF ListRows, RowsListed
<1>3. UNCHANGED <<scores, unpriced, stats, submission, history>>
  BY DEF ListRows
<1>4. Core'
  BY <1>1, <1>2, <1>3, RecalcCore DEF Core, Typed, history
<1> QED
  BY <1>3, <1>4 DEF ListRows

(* What is read for a row is what it is worth, where the row is its own. *)
LEMMA ReadRowStep ==
    ASSUME Core, NEW r \in 0 .. 6, ReadRow(r)
    PROVE  /\ Core' /\ UNCHANGED <<scores, unpriced, stats, submission, history>>
           /\ recalc.step = "rows" /\ r \in recalc.todo
           /\ recalc'.step = "write" /\ recalc'.row = r /\ recalc'.todo = recalc.todo \ {r}
           /\ recalc'.pp \in 0 .. PpCap
           /\ Own(r) => recalc'.pp = Worth(r)
<1> DEFINE pp == ProfileIn(unpriced, RecalculatedFrom(scores, r))
<1>1. /\ recalc' = [step |-> "write", todo |-> recalc.todo \ {r}, row |-> r, pp |-> pp]
      /\ recalc.step = "rows" /\ r \in recalc.todo
  BY ProfileNow DEF ReadRow
<1>2. IsFiniteSet(scores) /\ scores \subseteq Played /\ \A p \in scores : p.pp \in Nat
  BY PlayedShape DEF Core, Typed
<1>3. RecalculatedFrom(scores, r) \in SUBSET scores
  BY <1>2, RowIsRecalculated
<1>4. pp \in 0 .. PpCap
  BY <1>2, <1>3, ProfileGrows
<1>5. Own(r) => pp = Worth(r)
  BY <1>2, RowIsRecalculated DEF Worth
<1> HIDE DEF pp
<1>6. recalc.todo \subseteq 0 .. 6 /\ recalc.todo \subseteq DOMAIN stats
  BY <1>1, RecalcShapes DEF Core, Typed, RowsListed
<1>7. recalc' \in RecalcStates
  BY <1>1, <1>4, <1>6 DEF RecalcStates
<1>8. UNCHANGED <<scores, unpriced, stats, submission, history>>
  BY DEF ReadRow
<1>9. RowsListed'
  BY <1>1, <1>6, <1>8 DEF RowsListed
<1>10. Core'
  BY <1>7, <1>8, <1>9, RecalcCore DEF Core, Typed, history
<1> QED
  BY <1>1, <1>4, <1>5, <1>8, <1>10

(* The row gets what was read for it, and its ranked score. *)
LEMMA WriteRowStep ==
    ASSUME Core, NEW r \in 0 .. 6, WriteRow(r)
    PROVE  /\ Core' /\ UNCHANGED <<scores, unpriced, submission, history>>
           /\ recalc.step = "write" /\ recalc.row = r
           /\ recalc' = [step |-> "rows", todo |-> recalc.todo]
           /\ DOMAIN stats' = DOMAIN stats
           /\ \A q \in DOMAIN stats \ {r} : stats'[q] = stats[q]
           /\ r \in DOMAIN stats /\ stats'[r].pp = recalc.pp
           /\ stats'[r].ranked = BestScore(RecalculatedFrom(scores, r))
<1> DEFINE n == BestScore(RecalculatedFrom(scores, r))
<1>1. /\ recalc.step = "write" /\ recalc.row = r
      /\ stats' = [stats EXCEPT ![r].pp = recalc.pp, ![r].ranked = n]
      /\ recalc' = [step |-> "rows", todo |-> recalc.todo]
  BY DEF WriteRow
<1>2. IsFiniteSet(scores) /\ scores \subseteq Played /\ \A p \in scores : p.score \in Nat
  BY PlayedShape DEF Core, Typed
<1>3. n \in Nat
  BY <1>2, RowIsRecalculated, BestScoreGrows
<1> HIDE DEF n
<1>4. /\ r \in DOMAIN stats /\ recalc.todo \subseteq 0 .. 6 /\ recalc.pp \in 0 .. PpCap
      /\ recalc.todo \subseteq DOMAIN stats
  BY <1>1, RecalcShapes DEF Core, Typed, RowsListed
<1>5. stats \in [DOMAIN stats -> Entry]
  BY DEF Core, Typed
<1>6. /\ DOMAIN stats' = DOMAIN stats /\ stats' \in [DOMAIN stats' -> Entry]
      /\ \A q \in DOMAIN stats \ {r} : stats'[q] = stats[q]
      /\ stats'[r].pp = recalc.pp /\ stats'[r].ranked = n
      /\ \A q \in DOMAIN stats : /\ stats'[q].plays = stats[q].plays
                                 /\ stats'[q].total = stats[q].total
  <2>1. PICK t : t = [stats[r] EXCEPT !.pp = recalc.pp, !.ranked = n]
    OBVIOUS
  <2>2. stats' = [stats EXCEPT ![r] = t]
    BY <1>1, <1>4, <2>1
  <2>3. /\ t \in Entry /\ t.pp = recalc.pp /\ t.ranked = n
        /\ t.plays = stats[r].plays /\ t.total = stats[r].total
    BY <1>3, <1>4, <1>5, <2>1 DEF Entry
  <2> QED
    BY <1>4, <1>5, <2>2, <2>3
<1>7. UNCHANGED <<scores, unpriced, submission, history>>
  BY DEF WriteRow
<1>8. recalc' \in RecalcStates
  BY <1>1, <1>4 DEF RecalcStates
<1>9. RowsListed'
  BY <1>1, <1>4, <1>6 DEF RowsListed
<1>10. Core'
  BY <1>6, <1>7, <1>8, <1>9, RecalcCore DEF Core, Typed, history
<1> QED
  BY <1>1, <1>4, <1>6, <1>7, <1>10 DEF n

(* A failure leaves the row as it was, and disturbs. *)
LEMMA SkipStep ==
    ASSUME Core, SkipRow
    PROVE  /\ Core' /\ UNCHANGED <<scores, unpriced, stats, submission, counted>>
           /\ recalc'.step = "rows" /\ ~undisturbed'
<1>1. recalc.step = "write" /\ recalc' = [step |-> "rows", todo |-> recalc.todo]
  BY DEF SkipRow
<1>2. recalc.todo \subseteq 0 .. 6 /\ recalc.todo \subseteq DOMAIN stats
  BY <1>1, RecalcShapes DEF Core, Typed, RowsListed
<1>3. UNCHANGED <<scores, unpriced, stats, submission, counted>> /\ undisturbed' = FALSE
  BY DEF SkipRow
<1>4. recalc' \in RecalcStates
  BY <1>1, <1>2 DEF RecalcStates
<1>5. RowsListed'
  BY <1>1, <1>2, <1>3 DEF RowsListed
<1>6. Core'
  BY <1>3, <1>4, <1>5, RecalcCore DEF Core, Typed
<1> QED
  BY <1>1, <1>3, <1>6

(* The recalculation ends when no row is left. *)
LEMMA RecalculatedStep ==
    ASSUME Core, Recalculated
    PROVE  /\ Core' /\ UNCHANGED <<scores, unpriced, stats, submission, history>>
           /\ recalc.step = "rows" /\ recalc.todo = {} /\ recalc'.step = "off"
<1>1. recalc' = Off /\ recalc.step = "rows" /\ recalc.todo = {}
  BY DEF Recalculated
<1>2. UNCHANGED <<scores, unpriced, stats, submission, history>>
  BY DEF Recalculated
<1>3. recalc' \in RecalcStates /\ recalc'.step = "off"
  BY <1>1 DEF RecalcStates, Off
<1>4. RowsListed'
  BY <1>3 DEF RowsListed
<1>5. Core'
  BY <1>2, <1>3, <1>4, RecalcCore DEF Core, Typed, history
<1> QED
  BY <1>1, <1>2, <1>3, <1>5

-----------------------------------------------------------------------------
(* The steps of handlers that leave the tables alone *)

(* A submission starts with a play that nobody has inserted for it. *)
LEMMA SubmitStep ==
    ASSUME Core, NEW h \in Handlers, NEW p \in Plays, NEW b \in BOOLEAN, Submit(h, p, b)
    PROVE  /\ Core' /\ UNCHANGED <<scores, unpriced, stats, recalc, counted>>
           /\ \A g \in Handlers \ {h} : submission'[g] = submission[g]
           /\ submission'[h].step = "insert" /\ ~undisturbed'
<1> DEFINE s == [step |-> "insert", play |-> [p EXCEPT !.relax = p.relax \/ b]]
<1>1. s \in HandlerStates /\ Goes(h, s)
  BY PlayedShape, Nexts DEF Submit
<1>2. UNCHANGED <<scores, unpriced, stats, recalc, counted>> /\ undisturbed' = FALSE
  BY DEF Submit
<1>3. ~Saved(s) /\ ~Uncounted(s) /\ s.step = "insert"
  BY DEF Saved, Uncounted
<1> HIDE DEF s
<1>4. Core'
  BY <1>1, <1>2, <1>3, AsideStep
<1> QED
  BY <1>1, <1>2, <1>3, <1>4, GoesStep DEF Core

(* before is the pp of the row, or 0. *)
LEMMA ReadBeforeStep ==
    ASSUME Core, NEW h \in Handlers, ReadBefore(h)
    PROVE  /\ Core' /\ UNCHANGED <<scores, unpriced, stats, recalc, history>>
           /\ \A g \in Handlers \ {h} : submission'[g] = submission[g]
           /\ submission[h].step = "before" /\ submission'[h].step = "best"
           /\ submission'[h].play = submission[h].play
           /\ LET r == RowOf(submission[h].play)
              IN  submission'[h].before = IF r \in DOMAIN stats THEN stats[r].pp ELSE 0
<1> DEFINE r == RowOf(submission[h].play)
           m == IF r \in DOMAIN stats THEN stats[r].pp ELSE 0
           s == [step |-> "best", play |-> submission[h].play, before |-> m]
<1>1. submission[h] \in HandlerStates /\ submission[h].step = "before" /\ submission[h].play \in New
  BY HandlerShapes DEF Core, Typed, ReadBefore, Busy
<1>2. m \in 0 .. PpCap
  <2>1. \A q \in DOMAIN stats : stats[q].pp \in 0 .. PpCap
    BY DEF Core, Typed, Entry
  <2>2. 0 \in 0 .. PpCap
    BY ScoreAssumption
  <2> HIDE DEF r
  <2> QED
    BY <2>1, <2>2
<1>3. Goes(h, s) /\ UNCHANGED <<scores, unpriced, stats, recalc, history>>
  BY DEF ReadBefore
<1>4. s.step = "best" /\ s.play = submission[h].play /\ s.before = m
  OBVIOUS
<1>5. s \in HandlerStates
  <2> HIDE DEF m
  <2> QED
    BY <1>1, <1>2, Nexts
<1> HIDE DEF s, m
<1>6. Saved(submission[h]) /\ Uncounted(submission[h])
  BY <1>1 DEF Saved, Uncounted
<1>7. Core'
  BY <1>3, <1>4, <1>5, <1>6, AsideStep DEF history, Core, Typed
<1> QED
  BY <1>1, <1>3, <1>4, <1>5, <1>7, GoesStep DEF Core, m

(* after is what the row is worth, where the row is its own. *)
LEMMA ReadBestStep ==
    ASSUME Core, NEW h \in Handlers, ReadBest(h)
    PROVE  /\ Core' /\ UNCHANGED <<scores, unpriced, stats, recalc, history>>
           /\ \A g \in Handlers \ {h} : submission'[g] = submission[g]
           /\ submission[h].step = "best" /\ submission'[h].step = "update"
           /\ submission'[h].play = submission[h].play
           /\ submission'[h].before = submission[h].before
           /\ Own(RowOf(submission[h].play)) =>
                submission'[h].after = Worth(RowOf(submission[h].play))
<1> DEFINE p == submission[h].play
           n == ProfileIn(unpriced, Class(scores, p.mode, p.relax))
           s == [step |-> "update", play |-> p, before |-> submission[h].before, after |-> n]
<1>1. /\ submission[h] \in HandlerStates /\ submission[h].step = "best" /\ p \in New
      /\ submission[h].before \in 0 .. PpCap
  BY HandlerShapes DEF Core, Typed, ReadBest, Busy
<1>2. IsFiniteSet(scores) /\ scores \subseteq Played /\ \A q \in scores : q.pp \in Nat
  BY PlayedShape DEF Core, Typed
<1>3. p \in Played /\ Class(scores, p.mode, p.relax) \in SUBSET scores
  BY <1>1 DEF New, Class
<1>4. n \in 0 .. PpCap
  BY <1>2, <1>3, ProfileGrows
<1>5. Own(RowOf(p)) => n = Worth(RowOf(p))
  BY <1>2, <1>3, RowIsClass DEF Worth
<1>6. Goes(h, s) /\ UNCHANGED <<scores, unpriced, stats, recalc, history>>
  BY ProfileNow DEF ReadBest
<1> HIDE DEF n
<1>7. /\ s.step = "update" /\ s.play = p /\ s.before = submission[h].before /\ s.after = n
      /\ s \in HandlerStates
  BY <1>1, <1>4, Nexts
<1> HIDE DEF s
<1>8. Saved(submission[h]) /\ Uncounted(submission[h])
  BY <1>1 DEF Saved, Uncounted
<1>9. Core'
  BY <1>6, <1>7, <1>8, AsideStep DEF history, Core, Typed
<1> QED
  BY <1>1, <1>5, <1>6, <1>7, <1>9, GoesStep DEF Core

(* A handler that fails or finishes holds nothing. *)
LEMMA IdleStep ==
    ASSUME Core, NEW h \in Handlers, Fail(h) \/ Finish(h)
    PROVE  /\ Core' /\ UNCHANGED <<scores, unpriced, stats, recalc, history>>
           /\ \A g \in Handlers \ {h} : submission'[g] = submission[g]
           /\ submission[h].step # "idle" /\ submission'[h] = Idle
<1>1. Goes(h, Idle) /\ UNCHANGED <<scores, unpriced, stats, recalc, history>>
  BY DEF Fail, Finish
<1>2. ~Saved(Idle) /\ ~Uncounted(Idle) /\ Idle \in HandlerStates
  BY Nexts DEF Saved, Uncounted, Idle
<1>3. Core'
  BY <1>1, <1>2, AsideStep DEF history, Core, Typed
<1>4. submission[h].step # "idle"
  BY DEF Fail, Finish, Busy
<1> QED
  BY <1>1, <1>2, <1>3, <1>4, GoesStep DEF Core

-----------------------------------------------------------------------------
(* Every step keeps claims below what the scores are worth *)

(* What a row is worth never falls while scores are added and priced. *)
LEMMA WorthGrows ==
    ASSUME Typed, Typed', scores \subseteq scores', unpriced' \subseteq unpriced,
           NEW r
    PROVE  /\ Worth(r) \in 0 .. PpCap /\ Worth(r)' \in 0 .. PpCap /\ Worth(r) <= Worth(r)'
           /\ BestScore(In(scores, r)) \in Nat /\ BestScore(In(scores', r)) \in Nat
           /\ BestScore(In(scores, r)) <= BestScore(In(scores', r))
<1> DEFINE S == In(scores', r)
           T == In(scores, r)
<1>1. S \in SUBSET scores' /\ IsFiniteSet(scores') /\ scores' \subseteq Played
  BY DEF In, Typed
<1>2. IsFiniteSet(S) /\ \A p \in S : p.pp \in Nat /\ p.score \in Nat
  BY <1>1, FS_Subset, PlayedShape
<1>3. T \in SUBSET S
  BY DEF In
<1> HIDE DEF S, T
<1>4. /\ BestScore(T) \in Nat /\ BestScore(S) \in Nat
      /\ BestScore(T) <= BestScore(S)
  BY <1>2, <1>3, BestScoreGrows
<1>5. /\ ProfileIn(unpriced, T) \in 0 .. PpCap /\ ProfileIn(unpriced', S) \in 0 .. PpCap
      /\ ProfileIn(unpriced, T) <= ProfileIn(unpriced', S)
  BY <1>2, <1>3, ProfileGrows
<1> QED
  BY <1>4, <1>5 DEF Worth, S, T

(* The best score counted is no better than the best score saved. *)
LEMMA BestScoreBelow ==
    ASSUME NEW S \in SUBSET Played, IsFiniteSet(S), NEW C \in SUBSET S, NEW r
    PROVE  /\ BestScore(In(C, r)) \in Nat /\ BestScore(In(S, r)) \in Nat
           /\ BestScore(In(C, r)) <= BestScore(In(S, r))
<1>1. In(S, r) \in SUBSET S /\ In(C, r) \in SUBSET In(S, r)
  BY DEF In
<1>2. IsFiniteSet(In(S, r)) /\ \A p \in In(S, r) : p.score \in Nat
  BY <1>1, FS_Subset, PlayedShape
<1> QED
  BY <1>1, <1>2, BestScoreGrows

(* A step that keeps claims below what the scores were worth keeps them    *)
(* below what they are worth after it.                                     *)
LEMMA BoundedStep ==
    ASSUME Core, Core', scores \subseteq scores', unpriced' \subseteq unpriced,
           \A r \in DOMAIN stats' : Own(r) =>
              Bounds(stats'[r], Worth(r), BestScore(In(scores, r)), BestScore(In(counted', r))),
           \A h \in Handlers : LET s == submission'[h] IN
              Own(RowOf(s.play)) => AnswerOK(s, Worth(RowOf(s.play))),
           recalc'.step = "write" /\ Own(recalc'.row) => recalc'.pp <= Worth(recalc'.row)
    PROVE  Bounded'
<1>1. \A r : /\ Worth(r) \in 0 .. PpCap /\ Worth(r)' \in 0 .. PpCap /\ Worth(r) <= Worth(r)'
             /\ BestScore(In(scores, r)) \in Nat /\ BestScore(In(scores', r)) \in Nat
             /\ BestScore(In(scores, r)) <= BestScore(In(scores', r))
  BY WorthGrows DEF Core
<1>2. Within'
  <2> SUFFICES ASSUME NEW r \in DOMAIN stats', Own(r)
               PROVE  Bounds(stats'[r], Worth(r)', BestScore(In(scores', r)),
                             BestScore(In(counted', r)))
    BY Zenon DEF Within
  <2>1. Bounds(stats'[r], Worth(r), BestScore(In(scores, r)), BestScore(In(counted', r)))
    OBVIOUS
  <2>2. stats'[r].pp \in Nat /\ stats'[r].ranked \in Nat
    BY ScoreAssumption DEF Core, Typed, Entry
  <2> QED
    BY <1>1, <2>1, <2>2 DEF Bounds
<1>3. AnswersBounded'
  <2> SUFFICES ASSUME NEW h \in Handlers, NEW r, r = RowOf(submission'[h].play), Own(r)
               PROVE  AnswerOK(submission'[h], Worth(r)')
    BY Zenon DEF AnswersBounded
  <2>1. AnswerOK(submission'[h], Worth(r))
    OBVIOUS
  <2>2. /\ submission'[h].step = "best" => submission'[h].before \in Nat
        /\ submission'[h].step \in {"update", "answered"} => submission'[h].after \in Nat
    BY HandlerShapes, ScoreAssumption DEF Core, Typed
  <2> QED
    BY <1>1, <2>1, <2>2, ScoreAssumption DEF AnswerOK
<1>4. RecalcBounded'
  <2> SUFFICES ASSUME recalc'.step = "write", NEW r, r = recalc'.row, Own(r)
               PROVE  recalc'.pp <= Worth(r)'
    BY DEF RecalcBounded
  <2>1. recalc'.pp <= Worth(r) /\ recalc'.pp \in Nat
    BY RecalcShapes, ScoreAssumption DEF Core, Typed
  <2> QED
    BY <1>1, <2>1, ScoreAssumption
<1> QED
  BY <1>2, <1>3, <1>4 DEF Bounded

(* Handlers that do not move keep their bounds, *)
LEMMA AnswersStay ==
    ASSUME Bounded, NEW h \in Handlers, submission'[h] = submission[h]
    PROVE  LET s == submission'[h] IN
              Own(RowOf(s.play)) => AnswerOK(s, Worth(RowOf(s.play)))
BY DEF Bounded, AnswersBounded

(* and so do rows that are left alone. *)
LEMMA RowsStay ==
    ASSUME Bounded, NEW r \in DOMAIN stats, stats'[r] = stats[r], In(counted', r) = In(counted, r),
           Own(r)
    PROVE  Bounds(stats'[r], Worth(r), BestScore(In(scores, r)), BestScore(In(counted', r)))
BY DEF Bounded, Within

(* A step of one handler that leaves rows and recalculation alone keeps    *)
(* all bounds if it keeps its own.                                         *)
LEMMA ReadSide ==
    ASSUME ScoresInv, NEW h \in Handlers, Core', scores \subseteq scores', unpriced' \subseteq unpriced,
           UNCHANGED <<stats, recalc, counted>>,
           \A g \in Handlers \ {h} : submission'[g] = submission[g],
           LET s == submission'[h] IN
              Own(RowOf(s.play)) => AnswerOK(s, Worth(RowOf(s.play)))
    PROVE  Bounded'
<1>1. \A g \in Handlers : LET s == submission'[g] IN
              Own(RowOf(s.play)) => AnswerOK(s, Worth(RowOf(s.play)))
  BY AnswersStay DEF ScoresInv
<1>2. \A r \in DOMAIN stats' : Own(r) =>
          Bounds(stats'[r], Worth(r), BestScore(In(scores, r)), BestScore(In(counted', r)))
  BY RowsStay DEF ScoresInv
<1>3. recalc'.step = "write" /\ Own(recalc'.row) => recalc'.pp <= Worth(recalc'.row)
  BY DEF ScoresInv, Bounded, RecalcBounded
<1> QED
  BY <1>1, <1>2, <1>3, BoundedStep DEF ScoresInv

(* A handler that has read nothing yet claims nothing. *)
LEMMA SilentOK ==
    \A s, w : s.step \notin {"best", "update", "answered"} => AnswerOK(s, w)
BY DEF AnswerOK

(* While a handler is busy the start is disturbed, *)
LEMMA BusyDisturbs ==
    ASSUME ScoresInv, NEW h \in Handlers, submission[h].step # "idle"
    PROVE  ~undisturbed
BY DEF ScoresInv, Repairing, Idle

(* and then nothing is claimed of the repair. *)
LEMMA Disturbed == undisturbed' # TRUE => Repairing'
BY DEF Repairing

(* Every statement of save_score keeps the invariant. *)
LEMMA SaveSteps ==
    ASSUME ScoresInv, NEW h \in Handlers, SaveStep(h)
    PROVE  ScoresInv'
<1>0. Core /\ Bounded /\ Typed
  BY DEF ScoresInv, Core
<1>1. CASE Insert(h)
  <2>1. Core' /\ scores \subseteq scores'
    BY <1>0, <1>1, InsertStep
  <2>2. UNCHANGED <<unpriced, stats, recalc, counted, undisturbed>> /\ submission[h].step = "insert"
    BY <1>1 DEF Insert, history, Busy
  <2>3. /\ \A g \in Handlers \ {h} : submission'[g] = submission[g]
        /\ submission'[h].step \in {"idle", "ensure"}
    BY <1>0, <1>1 DEF Insert, Goes, Typed, Idle, HandlerStates
  <2>4. Bounded'
    BY <2>1, <2>2, <2>3, SilentOK, ReadSide
  <2>5. Repairing'
    BY <2>2, BusyDisturbs, Disturbed
  <2> QED
    BY <2>1, <2>4, <2>5 DEF ScoresInv
<1>2. CASE EnsureRow(h)
  <2>1. /\ Core' /\ \A r \in DOMAIN stats : r \in DOMAIN stats' /\ stats'[r] = stats[r]
        /\ \A r \in DOMAIN stats' \ DOMAIN stats : stats'[r] = EmptyRow /\ In(counted, r) = {}
    BY <1>0, <1>2, EnsureStep
  <2>2. /\ UNCHANGED <<scores, unpriced, recalc, counted, undisturbed>>
        /\ submission[h].step = "ensure"
    BY <1>2 DEF EnsureRow, history, Busy
  <2>3. /\ \A g \in Handlers \ {h} : submission'[g] = submission[g]
        /\ submission'[h].step = "before"
    BY <1>0, <1>2, <2>2 DEF EnsureRow, Goes, Typed, HandlerStates, Idle
  <2>4. \A g \in Handlers : LET s == submission'[g] IN
              Own(RowOf(s.play)) => AnswerOK(s, Worth(RowOf(s.play)))
    BY <1>0, <2>3, AnswersStay, SilentOK
  <2>5. ASSUME NEW r \in DOMAIN stats', Own(r)
        PROVE  Bounds(stats'[r], Worth(r), BestScore(In(scores, r)), BestScore(In(counted', r)))
    <3>1. CASE r \in DOMAIN stats
      BY <1>0, <2>1, <2>2, <2>5, <3>1, RowsStay
    <3>2. CASE r \notin DOMAIN stats
      <4>1. stats'[r] = EmptyRow /\ In(counted', r) = {}
        BY <2>1, <2>2, <3>2
      <4>2. BestScore({}) = 0
        BY DEF BestScore
      <4>3. Worth(r) \in 0 .. PpCap /\ BestScore(In(scores, r)) \in Nat
        BY <1>0, <2>1, <2>2, WorthGrows DEF Core
      <4> QED
        BY <4>1, <4>2, <4>3 DEF Bounds, EmptyRow
    <3> QED
      BY <3>1, <3>2
  <2>6. recalc'.step = "write" /\ Own(recalc'.row) => recalc'.pp <= Worth(recalc'.row)
    BY <1>0, <2>2 DEF Bounded, RecalcBounded
  <2>7. Bounded'
    BY <1>0, <2>1, <2>2, <2>4, <2>5, <2>6, BoundedStep
  <2>8. Repairing'
    BY <2>2, BusyDisturbs, Disturbed
  <2> QED
    BY <2>1, <2>7, <2>8 DEF ScoresInv
<1>3. CASE ReadBefore(h)
  <2> DEFINE r == RowOf(submission[h].play)
  <2>1. /\ Core' /\ UNCHANGED <<scores, unpriced, stats, recalc, history>>
        /\ \A g \in Handlers \ {h} : submission'[g] = submission[g]
        /\ submission[h].step = "before" /\ submission'[h].step = "best"
        /\ submission'[h].play = submission[h].play
        /\ submission'[h].before = IF r \in DOMAIN stats THEN stats[r].pp ELSE 0
    BY <1>0, <1>3, ReadBeforeStep
  <2>2. Own(r) => submission'[h].before <= Worth(r)
    <3>1. Worth(r) \in 0 .. PpCap
      BY <1>0, <2>1, WorthGrows DEF Core
    <3>2. Own(r) /\ r \in DOMAIN stats => stats[r].pp <= Worth(r)
      BY <1>0 DEF Bounded, Within, Bounds
    <3> HIDE DEF r
    <3> QED
      BY <2>1, <3>1, <3>2
  <2>3. LET s == submission'[h] IN
              Own(RowOf(s.play)) => AnswerOK(s, Worth(RowOf(s.play)))
    BY <2>1, <2>2 DEF AnswerOK
  <2>4. Bounded'
    BY <2>1, <2>3, ReadSide DEF history
  <2>5. Repairing'
    BY <2>1, BusyDisturbs, Disturbed DEF history
  <2> QED
    BY <2>1, <2>4, <2>5 DEF ScoresInv
<1>4. CASE ReadBest(h)
  <2> DEFINE r == RowOf(submission[h].play)
  <2>1. /\ Core' /\ UNCHANGED <<scores, unpriced, stats, recalc, history>>
        /\ \A g \in Handlers \ {h} : submission'[g] = submission[g]
        /\ submission[h].step = "best" /\ submission'[h].step = "update"
        /\ submission'[h].play = submission[h].play
        /\ submission'[h].before = submission[h].before
        /\ Own(r) => submission'[h].after = Worth(r)
    BY <1>0, <1>4, ReadBestStep
  <2>2. Own(r) => submission[h].before <= Worth(r)
    BY <1>0, <2>1 DEF Bounded, AnswersBounded, AnswerOK
  <2>3. Worth(r) \in 0 .. PpCap
    BY <1>0, <2>1, WorthGrows DEF Core
  <2>4. LET s == submission'[h] IN
              Own(RowOf(s.play)) => AnswerOK(s, Worth(RowOf(s.play)))
    BY <2>1, <2>2, <2>3 DEF AnswerOK
  <2>5. Bounded'
    BY <2>1, <2>4, ReadSide DEF history
  <2>6. Repairing'
    BY <2>1, BusyDisturbs, Disturbed DEF history
  <2> QED
    BY <2>1, <2>5, <2>6 DEF ScoresInv
<1>5. CASE UpdateStats(h)
  <2>1. PICK p, r : p = submission[h].play /\ r = RowOf(p)
    OBVIOUS
  <2>2. /\ Core' /\ p \in scores /\ counted \subseteq counted'
        /\ UNCHANGED <<scores, unpriced, recalc, undisturbed, DOMAIN stats>>
        /\ \A q \in DOMAIN stats \ {r} :
              stats'[q] = stats[q] /\ In(counted', q) = In(counted, q)
        /\ r \in DOMAIN stats =>
              /\ stats'[r].pp = submission[h].after
              /\ stats'[r].ranked = BestScore(Class(scores, p.mode, p.relax))
    BY <1>0, <1>5, <2>1, UpdateStep
  <2>3. submission[h].step = "update"
    BY <1>5 DEF UpdateStats, Busy
  <2>4. /\ \A g \in Handlers \ {h} : submission'[g] = submission[g]
        /\ submission'[h].step = "answered" /\ submission'[h].play = p
        /\ submission'[h].before = submission[h].before
        /\ submission'[h].after = submission[h].after
    <3>1. submission[h] \in HandlerStates
      BY <1>0 DEF Typed
    <3>2. [submission[h] EXCEPT !.step = "answered"] =
              [step |-> "answered", play |-> submission[h].play,
               before |-> submission[h].before, after |-> submission[h].after]
      BY <2>3, <3>1, Nexts
    <3>3. Goes(h, [submission[h] EXCEPT !.step = "answered"]) /\ submission \in [Handlers -> HandlerStates]
      BY <1>0, <1>5 DEF UpdateStats, Typed
    <3> QED
      BY <2>1, <3>2, <3>3 DEF Goes
  <2>5. Own(r) => /\ submission[h].before <= submission[h].after
                  /\ submission[h].after <= Worth(r)
    BY <1>0, <2>1, <2>3 DEF Bounded, AnswersBounded, AnswerOK
  <2>6. \A g \in Handlers : LET s == submission'[g] IN
              Own(RowOf(s.play)) => AnswerOK(s, Worth(RowOf(s.play)))
    BY <1>0, <2>1, <2>4, <2>5, AnswersStay DEF AnswerOK
  <2>7. ASSUME NEW q \in DOMAIN stats', Own(q)
        PROVE  Bounds(stats'[q], Worth(q), BestScore(In(scores, q)), BestScore(In(counted', q)))
    <3>1. CASE q # r
      BY <1>0, <2>2, <2>7, <3>1, RowsStay
    <3>2. CASE q = r
      <4>1. p \in Played /\ scores \subseteq Played
        BY <1>0, <2>2 DEF Typed
      <4>2. stats'[r].ranked = BestScore(In(scores, r)) /\ stats'[r].pp <= Worth(r)
        BY <2>1, <2>2, <2>5, <2>7, <3>2, <4>1, RowIsClass
      <4>3. /\ BestScore(In(counted', r)) \in Nat
            /\ BestScore(In(counted', r)) <= BestScore(In(scores, r))
        <5>1. scores \in SUBSET Played /\ IsFiniteSet(scores) /\ counted' \in SUBSET scores
          BY <2>2 DEF Core, Typed
        <5> QED
          BY <5>1, BestScoreBelow
      <4>4. BestScore(In(scores, r)) \in Nat
        BY <1>0, <2>2, WorthGrows DEF Core
      <4> QED
        BY <3>2, <4>2, <4>3, <4>4 DEF Bounds
    <3> QED
      BY <3>1, <3>2
  <2>8. recalc'.step = "write" /\ Own(recalc'.row) => recalc'.pp <= Worth(recalc'.row)
    BY <1>0, <2>2 DEF Bounded, RecalcBounded
  <2>9. Bounded'
    BY <1>0, <2>2, <2>6, <2>7, <2>8, BoundedStep
  <2>10. Repairing'
    BY <2>2, <2>3, BusyDisturbs, Disturbed
  <2> QED
    BY <2>2, <2>9, <2>10 DEF ScoresInv
<1> QED
  BY <1>1, <1>2, <1>3, <1>4, <1>5 DEF SaveStep

(* So do a submission, a failure and an answer. *)
LEMMA OtherSteps ==
    ASSUME ScoresInv, NEW h \in Handlers,
           \/ \E p \in Plays, b \in BOOLEAN : Submit(h, p, b)
           \/ Fail(h)
           \/ Finish(h)
    PROVE  ScoresInv'
<1>0. Core /\ Bounded
  BY DEF ScoresInv
<1>1. CASE \E p \in Plays, b \in BOOLEAN : Submit(h, p, b)
  <2>1. /\ Core' /\ UNCHANGED <<scores, unpriced, stats, recalc, counted>>
        /\ \A g \in Handlers \ {h} : submission'[g] = submission[g]
        /\ submission'[h].step = "insert" /\ ~undisturbed'
    BY <1>0, <1>1, SubmitStep
  <2>2. Bounded'
    BY <2>1, SilentOK, ReadSide
  <2> QED
    BY <2>1, <2>2, Disturbed DEF ScoresInv
<1>2. CASE Fail(h) \/ Finish(h)
  <2>1. /\ Core' /\ UNCHANGED <<scores, unpriced, stats, recalc, history>>
        /\ \A g \in Handlers \ {h} : submission'[g] = submission[g]
        /\ submission[h].step # "idle" /\ submission'[h] = Idle
    BY <1>0, <1>2, IdleStep
  <2>2. submission'[h].step = "idle"
    BY <2>1 DEF Idle
  <2>3. Bounded'
    BY <2>1, <2>2, SilentOK, ReadSide DEF history
  <2> QED
    BY <2>1, <2>3, BusyDisturbs, Disturbed DEF ScoresInv, history
<1> QED
  BY <1>1, <1>2

(* The recalculation keeps all bounds if it keeps those of rows and its    *)
(* own.                                                                    *)
LEMMA RecalcSide ==
    ASSUME ScoresInv, Core', UNCHANGED <<scores, submission, counted>>, unpriced' \subseteq unpriced,
           \A r \in DOMAIN stats' : Own(r) =>
              Bounds(stats'[r], Worth(r), BestScore(In(scores, r)), BestScore(In(counted, r))),
           recalc'.step = "write" /\ Own(recalc'.row) => recalc'.pp <= Worth(recalc'.row)
    PROVE  Bounded'
<1>1. \A g \in Handlers : LET s == submission'[g] IN
              Own(RowOf(s.play)) => AnswerOK(s, Worth(RowOf(s.play)))
  BY AnswersStay DEF ScoresInv
<1> QED
  BY <1>1, BoundedStep DEF ScoresInv

(* Rows stay within their bounds while stats does not change. *)
LEMMA StatsStay ==
    ASSUME ScoresInv, UNCHANGED stats
    PROVE  \A r \in DOMAIN stats' : Own(r) =>
              Bounds(stats'[r], Worth(r), BestScore(In(scores, r)), BestScore(In(counted, r)))
BY DEF ScoresInv, Bounded, Within

(* Rows that are up to date stay so while scores and stats do not change. *)
LEMMA StaysUpToDate ==
    ASSUME NEW r, UpToDate(r), UNCHANGED <<scores, unpriced>>, stats'[r] = stats[r]
    PROVE  UpToDate(r)'
BY DEF UpToDate, Worth

(* Every step of the recalculation keeps the invariant. *)
LEMMA RecalcSteps ==
    ASSUME ScoresInv, Start \/ RecalcStep
    PROVE  ScoresInv'
<1>0. Core /\ Bounded /\ Repairing /\ Typed
  BY DEF ScoresInv, Core
<1>1. CASE Start
  <2>1. /\ Core' /\ UNCHANGED <<scores, unpriced, stats, submission, counted>>
        /\ recalc'.step = "price"
        /\ undisturbed' => \A h \in Handlers : submission[h] = Idle
    BY <1>0, <1>1, StartStep
  <2>2. Bounded'
    BY <2>1, StatsStay, RecalcSide
  <2>3. Repairing'
    BY <2>1 DEF Repairing
  <2> QED
    BY <2>1, <2>2, <2>3 DEF ScoresInv
<1>2. CASE \E p \in Legacy : Price(p)
  <2>1. /\ Core' /\ UNCHANGED <<scores, stats, submission, counted>>
        /\ unpriced' \subseteq unpriced
        /\ recalc'.step = "price" /\ undisturbed' \in {undisturbed, FALSE}
    BY <1>0, <1>2, PriceStep
  <2>2. Bounded'
    BY <2>1, StatsStay, RecalcSide
  <2>3. Repairing'
    BY <1>0, <2>1 DEF Repairing
  <2> QED
    BY <2>1, <2>2, <2>3 DEF ScoresInv
<1>3. CASE ListRows
  <2>1. /\ Core' /\ UNCHANGED <<scores, unpriced, stats, submission, history>>
        /\ recalc' = [step |-> "rows", todo |-> DOMAIN stats]
    BY <1>0, <1>3, ListStep
  <2>2. Bounded'
    BY <2>1, StatsStay, RecalcSide DEF history
  <2>3. Repairing'
    BY <1>0, <2>1 DEF Repairing, history
  <2> QED
    BY <2>1, <2>2, <2>3 DEF ScoresInv
<1>4. ASSUME NEW r \in 0 .. 6, ReadRow(r)
      PROVE  ScoresInv'
  <2>1. /\ Core' /\ UNCHANGED <<scores, unpriced, stats, submission, history>>
        /\ recalc.step = "rows" /\ r \in recalc.todo
        /\ recalc'.step = "write" /\ recalc'.row = r /\ recalc'.todo = recalc.todo \ {r}
        /\ recalc'.pp \in 0 .. PpCap
        /\ Own(r) => recalc'.pp = Worth(r)
    BY <1>0, <1>4, ReadRowStep
  <2>2. Own(r) => recalc'.pp <= Worth(r)
    BY <2>1, ScoreAssumption
  <2>3. Bounded'
    BY <2>1, <2>2, StatsStay, RecalcSide DEF history
  <2>4. \A q : UpToDate(q) => UpToDate(q)'
    BY <2>1, StaysUpToDate
  <2>5. Worth(r)' = Worth(r)
    BY <2>1 DEF Worth
  <2>6. undisturbed' =>
          /\ \A h \in Handlers : submission'[h] = Idle
          /\ \A q \in DOMAIN stats' \ (recalc'.todo \cup {recalc'.row}) : UpToDate(q)
    BY <1>0, <2>1 DEF Repairing, history
  <2>7. Repairing'
    BY <2>1, <2>4, <2>5, <2>6 DEF Repairing
  <2> QED
    BY <2>1, <2>3, <2>7 DEF ScoresInv
<1>5. ASSUME NEW r \in 0 .. 6, WriteRow(r)
      PROVE  ScoresInv'
  <2>1. /\ Core' /\ UNCHANGED <<scores, unpriced, submission, history>>
        /\ recalc.step = "write" /\ recalc.row = r
        /\ recalc' = [step |-> "rows", todo |-> recalc.todo]
        /\ DOMAIN stats' = DOMAIN stats
        /\ \A q \in DOMAIN stats \ {r} : stats'[q] = stats[q]
        /\ r \in DOMAIN stats /\ stats'[r].pp = recalc.pp
        /\ stats'[r].ranked = BestScore(RecalculatedFrom(scores, r))
    BY <1>0, <1>5, WriteRowStep
  <2>2. recalc'.step = "rows" /\ recalc'.todo = recalc.todo
    BY <2>1
  <2>3. scores \in SUBSET Played /\ IsFiniteSet(scores) /\ counted \in SUBSET scores
    BY <1>0 DEF Typed
  <2>4. Own(r) => stats'[r].ranked = BestScore(In(scores, r))
    BY <2>1, <2>3, RowIsRecalculated
  <2>5. ASSUME NEW q \in DOMAIN stats', Own(q)
        PROVE  Bounds(stats'[q], Worth(q), BestScore(In(scores, q)), BestScore(In(counted, q)))
    <3>1. CASE q # r
      BY <1>0, <2>1, <2>5, <3>1 DEF Bounded, Within
    <3>2. CASE q = r
      <4>1. stats'[r].pp <= Worth(r)
        BY <1>0, <2>1, <2>5, <3>2 DEF Bounded, RecalcBounded
      <4>2. /\ BestScore(In(counted, r)) \in Nat /\ BestScore(In(scores, r)) \in Nat
            /\ BestScore(In(counted, r)) <= BestScore(In(scores, r))
        BY <2>3, BestScoreBelow
      <4> QED
        BY <2>4, <2>5, <3>2, <4>1, <4>2 DEF Bounds
    <3> QED
      BY <3>1, <3>2
  <2>6. Bounded'
    BY <2>1, <2>2, <2>5, RecalcSide DEF history
  <2>7. ASSUME undisturbed', NEW q \in DOMAIN stats' \ recalc'.todo
        PROVE  UpToDate(q)'
    <3>1. undisturbed
      BY <2>1, <2>7 DEF history
    <3>2. CASE q # r
      <4>1. UpToDate(q)
        BY <1>0, <2>1, <2>2, <2>7, <3>1, <3>2 DEF Repairing
      <4> QED
        BY <2>1, <2>7, <3>2, <4>1, StaysUpToDate
    <3>3. CASE q = r
      <4>1. Own(r) => stats'[r].pp = Worth(r)
        BY <1>0, <2>1, <3>1 DEF Repairing
      <4>2. Worth(r)' = Worth(r) /\ scores' = scores
        BY <2>1 DEF Worth
      <4> QED
        BY <2>4, <3>3, <4>1, <4>2 DEF UpToDate
    <3> QED
      BY <3>2, <3>3
  <2>8. Repairing'
    BY <1>0, <2>1, <2>2, <2>7 DEF Repairing, history
  <2> QED
    BY <2>1, <2>6, <2>8 DEF ScoresInv
<1>6. CASE SkipRow
  <2>1. /\ Core' /\ UNCHANGED <<scores, unpriced, stats, submission, counted>>
        /\ recalc'.step = "rows" /\ ~undisturbed'
    BY <1>0, <1>6, SkipStep
  <2>2. Bounded'
    BY <2>1, StatsStay, RecalcSide
  <2> QED
    BY <2>1, <2>2, Disturbed DEF ScoresInv
<1>7. CASE Recalculated
  <2>1. /\ Core' /\ UNCHANGED <<scores, unpriced, stats, submission, history>>
        /\ recalc.step = "rows" /\ recalc.todo = {} /\ recalc'.step = "off"
    BY <1>0, <1>7, RecalculatedStep
  <2>2. Bounded'
    BY <2>1, StatsStay, RecalcSide DEF history
  <2>3. \A q : UpToDate(q) => UpToDate(q)'
    BY <2>1, StaysUpToDate
  <2>4. undisturbed' =>
          /\ \A h \in Handlers : submission'[h] = Idle
          /\ \A q \in DOMAIN stats' : UpToDate(q)
    BY <1>0, <2>1 DEF Repairing, history
  <2>5. Repairing'
    BY <2>1, <2>3, <2>4 DEF Repairing
  <2> QED
    BY <2>1, <2>2, <2>5 DEF ScoresInv
<1> QED
  BY <1>1, <1>2, <1>3, <1>4, <1>5, <1>6, <1>7 DEF RecalcStep

(* The invariant is inductive. *)
LEMMA InvStep == ScoresInv /\ [Next]_vars => ScoresInv'
<1>1. ASSUME ScoresInv, UNCHANGED vars
      PROVE  ScoresInv'
  <2>1. UNCHANGED <<scores, unpriced, stats, submission, recalc, counted, undisturbed>>
    BY <1>1 DEF vars, history
  <2>2. Typed' /\ RowsListed' /\ PlaysApart' /\ Tallied'
    BY <1>1, <2>1 DEF ScoresInv, Core, Typed, RowsListed, PlaysApart, Tallied
  <2>3. Within' /\ AnswersBounded' /\ RecalcBounded'
    BY <1>1, <2>1 DEF ScoresInv, Bounded, Within, AnswersBounded, RecalcBounded, Worth
  <2>4. Repairing'
    BY <1>1, <2>1 DEF ScoresInv, Repairing, UpToDate, Worth
  <2> QED
    BY <2>2, <2>3, <2>4 DEF ScoresInv, Core, Bounded
<1> QED
  BY <1>1, SaveSteps, OtherSteps, RecalcSteps DEF Next

(* It holds of the database as an earlier version left it. *)
LEMMA InvInit == Init => ScoresInv
<1> SUFFICES ASSUME Init PROVE ScoresInv
  OBVIOUS
<1>1. \A p \in Legacy : p \in Played /\ RowOf(p) \in 0 .. 6 /\ p.score \in Nat
  BY PlayedShape DEF Played
<1>2. /\ scores = Legacy /\ unpriced = Legacy /\ DOMAIN stats = Accounted
      /\ counted = {p \in Legacy : RowOf(p) \in Accounted}
      /\ recalc = Off /\ undisturbed = FALSE /\ submission = [h \in Handlers |-> Idle]
  BY DEF Init
<1>3. IsFiniteSet(scores) /\ scores \in SUBSET Played /\ counted \in SUBSET scores
  BY <1>1, <1>2, ScoreAssumption
<1>4. Accounted \subseteq 0 .. 3
  BY ScoreAssumption
<1>5. \A r \in Accounted : In(counted, r) = In(Legacy, r)
  BY <1>2 DEF In
<1>6. ASSUME NEW r \in Accounted
      PROVE  /\ stats[r].plays = Cardinality(In(counted, r))
             /\ stats[r].total = MapThenSumSet(LAMBDA p : p.score, In(counted, r))
             /\ stats[r].ranked = BestScore(RecalculatedFrom(In(Legacy, r), r))
             /\ stats[r].pp = 0
             /\ stats[r] = [plays  |-> stats[r].plays, total  |-> stats[r].total,
                            ranked |-> stats[r].ranked, pp |-> stats[r].pp]
  <2> DEFINE t == [plays  |-> Cardinality(In(Legacy, r)),
                   total  |-> MapThenSumSet(LAMBDA p : p.score, In(Legacy, r)),
                   ranked |-> BestScore(RecalculatedFrom(In(Legacy, r), r)),
                   pp     |-> 0]
  <2>1. stats[r] = t
    BY Zenon DEF Init, In
  <2>2. /\ t.plays = Cardinality(In(Legacy, r)) /\ t.pp = 0
        /\ t.total = MapThenSumSet(LAMBDA p : p.score, In(Legacy, r))
        /\ t.ranked = BestScore(RecalculatedFrom(In(Legacy, r), r))
        /\ t = [plays |-> t.plays, total |-> t.total, ranked |-> t.ranked, pp |-> t.pp]
    BY Zenon
  <2> HIDE DEF t
  <2> QED
    BY <1>5, <2>1, <2>2, Zenon
<1>7. ASSUME NEW r \in Accounted
      PROVE  Tally(stats[r], In(counted, r)) /\ stats[r] \in Entry
  <2>1. Tally(stats[r], In(counted, r))
    BY <1>6, Zenon DEF Tally
  <2>2. In(counted, r) \in SUBSET scores /\ In(Legacy, r) \in SUBSET scores
    BY <1>2, <1>3 DEF In
  <2>3. IsFiniteSet(In(counted, r)) /\ IsFiniteSet(In(Legacy, r))
    BY <1>3, <2>2, FS_Subset
  <2>4. stats[r].plays \in Nat
    BY <1>6, <2>3, FS_CardinalityType
  <2>5. stats[r].total \in Nat
    <3>1. PICK w : w = [p \in In(counted, r) |-> p.score]
      OBVIOUS
    <3>2. \A p \in In(counted, r) : w[p] \in Nat
      BY <1>1, <1>2, <2>2, <3>1
    <3>3. Total(w, In(counted, r)) \in Nat
      BY <2>3, <3>2, TotalNat
    <3>4. MapThenSumSet(LAMBDA p : p.score, In(counted, r)) = Total(w, In(counted, r))
      BY <2>3, <3>1, ScoreTotal
    <3> QED
      BY <1>6, <3>3, <3>4, Zenon
  <2>6. stats[r].ranked \in Nat
    <3>1. RecalculatedFrom(In(Legacy, r), r) \in SUBSET In(Legacy, r)
      BY DEF RecalculatedFrom, Class
    <3>2. \A p \in In(Legacy, r) : p.score \in Nat
      BY <1>1 DEF In
    <3> QED
      BY <1>6, <2>3, <3>1, <3>2, BestScoreGrows
  <2>7. stats[r].pp = 0 /\ 0 \in 0 .. PpCap
    <3>1. stats[r].pp = 0
      BY <1>6, Zenon
    <3> QED
      BY <3>1, ScoreAssumption
  <2>8. PICK t : t = stats[r]
    OBVIOUS
  <2>9. t = [plays |-> t.plays, total |-> t.total, ranked |-> t.ranked, pp |-> t.pp]
    BY <1>6, <2>8, Zenon
  <2>10. t \in Entry
    BY <2>4, <2>5, <2>6, <2>7, <2>8, <2>9 DEF Entry
  <2> QED
    BY <2>1, <2>8, <2>10
<1>8. stats \in [DOMAIN stats -> Entry]
  <2>1. stats = [r \in Accounted |-> stats[r]]
    BY Zenon DEF Init
  <2> QED
    BY <1>2, <1>7, <2>1
<1>9. Typed
  <2>1. submission \in [Handlers -> HandlerStates]
    BY <1>2, Nexts
  <2>2. recalc \in RecalcStates
    BY <1>2 DEF RecalcStates
  <2>3. DOMAIN stats \subseteq 0 .. 6
    BY <1>2, <1>4
  <2>4. unpriced \subseteq scores \cap Legacy /\ undisturbed \in BOOLEAN
    BY <1>2
  <2> QED
    BY <1>3, <1>8, <2>1, <2>2, <2>3, <2>4 DEF Typed
<1>10. RowsListed
  BY <1>2 DEF RowsListed, Off
<1>11. PlaysApart
  BY <1>2 DEF PlaysApart, Saved, Uncounted, Idle
<1>12. Tallied
  BY <1>2, <1>7 DEF Tallied
<1>13. Within
  <2> SUFFICES ASSUME NEW r \in Accounted, Own(r)
               PROVE  Bounds(stats[r], Worth(r), BestScore(In(scores, r)),
                             BestScore(In(counted, r)))
    BY <1>2 DEF Within
  <2>1. In(Legacy, r) \in SUBSET Played /\ r \in 0 .. 6 /\ In(In(Legacy, r), r) = In(Legacy, r)
    BY <1>1, <1>4 DEF In
  <2>2. RecalculatedFrom(In(Legacy, r), r) = In(Legacy, r)
    BY <2>1, RowIsRecalculated
  <2>3. stats[r].ranked = BestScore(In(scores, r)) /\ stats[r].pp = 0
    BY <1>2, <1>6, <2>2
  <2>4. /\ BestScore(In(counted, r)) \in Nat /\ BestScore(In(scores, r)) \in Nat
        /\ BestScore(In(counted, r)) <= BestScore(In(scores, r))
    BY <1>3, BestScoreBelow
  <2>5. Worth(r) \in 0 .. PpCap
    <3>1. In(scores, r) \in SUBSET scores /\ \A p \in scores : p.pp \in Nat
      BY <1>3, PlayedShape DEF In
    <3>2. In(scores, r) \in SUBSET In(scores, r) /\ IsFiniteSet(In(scores, r))
      BY <1>3, <3>1, FS_Subset
    <3>3. \A p \in In(scores, r) : p.pp \in Nat
      BY <3>1
    <3>4. unpriced \in SUBSET unpriced
      OBVIOUS
    <3> QED
      BY <3>2, <3>3, <3>4, ProfileGrows DEF Worth
  <2> QED
    BY <2>3, <2>4, <2>5 DEF Bounds
<1>14. AnswersBounded /\ RecalcBounded
  BY <1>2 DEF AnswersBounded, AnswerOK, RecalcBounded, Idle, Off
<1>15. Repairing
  BY <1>2 DEF Repairing
<1> QED
  BY <1>9, <1>10, <1>11, <1>12, <1>13, <1>14, <1>15 DEF ScoresInv, Core, Bounded

(* The inductive invariant holds in every behaviour. *)
THEOREM ScoresInductive == Spec => []ScoresInv
BY InvInit, InvStep, PTL DEF Spec

(* Tables, handlers and recalculation stay in their types. *)
THEOREM ScoresTyped == Spec => []ScoreTypeOK
<1>1. ScoresInv => ScoreTypeOK
  <2>1. Typed => ScoreTypeOK
    BY HandlerShapes, RecalcShapes DEF Typed, ScoreTypeOK, New
  <2> QED
    BY <2>1 DEF ScoresInv, Core
<1> QED
  BY <1>1, ScoresInductive, PTL

(* The counters of every row count each play once, for any number of       *)
(* submissions that overlap, fail or are sent again and any number of      *)
(* starts.                                                                 *)
THEOREM EachPlayOnce == Spec => []CountedOnce
<1>1. ScoresInv => CountedOnce
  BY TalliedOnce DEF ScoresInv, Core
<1> QED
  BY <1>1, ScoresInductive, PTL

(* Profiles and ranked scores never claim more than the scores behind      *)
(* them, and no counted play is missed, however submissions and            *)
(* recalculation overlap.                                                  *)
THEOREM NoProfileOverstated == Spec => []NeverOverstated
<1>1. ScoresInv => NeverOverstated
  <2>1. Within => NeverOverstated
    BY ProfileNow, Zenon DEF Within, Bounds, Worth, NeverOverstated
  <2> QED
    BY <2>1 DEF ScoresInv, Bounded
<1> QED
  BY <1>1, ScoresInductive, PTL

(* The charts of an answer never show a loss, whatever ran in between. *)
THEOREM AnswersRise == Spec => []AnswerRises
<1>1. ScoresInv => AnswerRises
  BY DEF ScoresInv, Bounded, AnswersBounded, AnswerOK, AnswerRises
<1> QED
  BY <1>1, ScoresInductive, PTL

(* A start that recalculates undisturbed leaves every row at what its      *)
(* scores are worth.                                                       *)
THEOREM StartsAlwaysRepair == Spec => []StartsRepair
<1>1. ScoresInv => StartsRepair
  <2>1. Off.step = "off"
    BY DEF Off
  <2>2. Repairing => StartsRepair
    BY <2>1, ProfileNow DEF Repairing, UpToDate, Worth, StartsRepair, Current
  <2> QED
    BY <2>2 DEF ScoresInv
<1> QED
  BY <1>1, ScoresInductive, PTL

-----------------------------------------------------------------------------
(* What is known of a map: BeatmapCache *)

Sources == {"unknown", "file", "room", "mirror", "invented"}

Metas == {m \in [Fields -> Sources] : m["title"] # "invented" /\ m["stars"] # "invented"}

(* what is known but for the id *)
Rest(m) == Known(m) \ {"id"}

(* A title that was known when a request began stays known, so the request *)
(* finds it in the cache and answers what the row then has.                *)
RequestOK(q) ==
    /\ q.step \in {"idle", "cache", "history", "name", "again", "mirror", "store", "answered"}
    /\ q.step = "name" => matchHistory # NoRow
    /\ q.step # "idle" =>
        /\ q \in [step : {q.step}, before : Metas \cup {NoRow}, meta : Metas, alone : BOOLEAN]
        /\ Rest(q.before) \subseteq Rest(row)
        /\ "title" \in Rest(q.before) => q.step \in {"cache", "answered"}
        /\ q.step = "answered" /\ "title" \in Rest(q.before) =>
                /\ Rest(q.before) \subseteq Rest(q.meta)
                /\ q.alone /\ "id" \in Known(q.before) => "id" \in Known(q.meta)

Good(m) == "title" \in Known(m) /\ "id" \in Known(m)

(* q looks at the cache next, and nobody was there before it *)
Leads(q) == q.step = "cache" /\ q.alone /\ Good(q.before)

(* Whatever q stores takes no id away. *)
Harmless(q) ==
    \/ q.step = "idle"
    \/ q.step = "cache" /\ Good(q.before)
    \/ q.step = "answered" /\ "id" \in Known(q.meta)

Calm ==
    (\E g \in Requests : Leads(request[g])) =>
        Good(row) /\ \A s \in Requests : Harmless(request[s])

CacheTyped ==
    /\ row \in Metas \cup {NoRow} /\ matchHistory \in Metas \cup {NoRow}
    /\ DOMAIN request = Requests

CacheInv == CacheTyped /\ Calm /\ \A r \in Requests : RequestOK(request[r])

(* Fields from known sources make a row,                                   *)
LEMMA MetaTyped ==
    ASSUME NEW id \in Sources, NEW title \in Sources \ {"invented"},
           NEW stars \in Sources \ {"invented"}
    PROVE  Meta(id, title, stars) \in Metas
BY DEF Meta, Metas, Fields

(* which is not NoRow.                                                     *)
LEMMA IsRow == ASSUME NEW m \in Metas PROVE m # NoRow
BY DEF Metas, Fields, NoRow

(* A write takes nothing away that is known, except an id, and that only   *)
(* when it has made up another.                                            *)
LEMMA SavedMore ==
    ASSUME row \in Metas \cup {NoRow}, NEW new \in Metas, Save(new)
    PROVE  /\ row' \in Metas \cup {NoRow} /\ Rest(row) \subseteq Rest(row')
           /\ "id" \in Known(new) /\ "id" \in Known(row) => "id" \in Known(row')
<1>1. CASE row = NoRow
  BY <1>1 DEF Save, Rest, Known
<1>2. CASE row \in Metas
  <2>1. row # NoRow /\ new # NoRow
    BY <1>2, IsRow
  <2>2. \A f \in Fields : Merged(row, new)[f] = IF new[f] # "unknown" THEN new[f] ELSE row[f]
    BY DEF Merged
  <2>3. Merged(row, new) \in Metas
    <3>1. row \in [Fields -> Sources] /\ new \in [Fields -> Sources]
      BY <1>2 DEF Metas
    <3>2. Merged(row, new) \in [Fields -> Sources]
      BY <3>1 DEF Merged
    <3>3. "title" \in Fields /\ "stars" \in Fields
      BY DEF Fields
    <3> QED
      BY <1>2, <2>2, <3>2, <3>3 DEF Metas
  <2>4. Merged(row, new) # NoRow
    BY <2>3, IsRow
  <2>5. \A f \in {"title", "stars"} : f \in Known(row) => f \in Known(Merged(row, new))
    <3>1. new["title"] # "invented" /\ new["stars"] # "invented"
      BY DEF Metas
    <3> QED
      BY <2>1, <2>4, <2>2, <3>1 DEF Known, Fields
  <2>6. "id" \in Known(new) => "id" \in Known(Merged(row, new))
    BY <2>1, <2>4, <2>2 DEF Known, Fields
  <2>7. Rest(row) \subseteq Rest(Merged(row, new))
    BY <2>5 DEF Rest, Known, Fields
  <2> QED
    BY <1>2, <2>1, <2>3, <2>6, <2>7 DEF Save
<1> QED
  BY <1>1, <1>2

(* The others go on as they were while more is known. *)
LEMMA OneRequest ==
    ASSUME CacheInv, NEW r \in Requests, NEW q, Moves(r, q), RequestOK(q)', Calm',
           row' \in Metas \cup {NoRow}, Rest(row) \subseteq Rest(row'), UNCHANGED matchHistory
    PROVE  CacheInv'
<1>1. DOMAIN request' = Requests /\ request'[r] = q /\ \A s \in Requests : s # r => request'[s] = request[s]
  BY DEF Moves, CacheInv, CacheTyped
<1>2. ASSUME NEW s \in Requests
      PROVE  RequestOK(request[s])'
  <2>1. CASE s = r
    BY <1>1, <2>1 DEF RequestOK
  <2>2. CASE s # r
    <3>1. request'[s] = request[s] /\ RequestOK(request[s])
      BY <1>1, <2>2 DEF CacheInv
    <3> QED
      BY <3>1 DEF RequestOK
  <2> QED
    BY <2>1, <2>2
<1> QED
  BY <1>1, <1>2 DEF CacheInv, CacheTyped

(* A request goes on to anything but the cache, and stores nothing that    *)
(* takes an id away from who leads.                                        *)
LEMMA CalmAfter ==
    ASSUME CacheInv, NEW r \in Requests, NEW q, Moves(r, q), q.step # "cache",
           (\E g \in Requests : Leads(request[g])) => Good(row') /\ Harmless(q)
    PROVE  Calm'
<1>1. request'[r] = q /\ \A s \in Requests : s # r => request'[s] = request[s]
  BY DEF Moves, CacheInv, CacheTyped
<1>2. SUFFICES ASSUME NEW g \in Requests, Leads(request'[g])
               PROVE  Good(row') /\ \A s \in Requests : Harmless(request'[s])
  BY DEF Calm, Leads, Good, Harmless, Known
<1>3. g # r
  BY <1>1, <1>2 DEF Leads
<1>4. Leads(request[g])
  BY <1>1, <1>2, <1>3
<1>5. Good(row') /\ Harmless(q) /\ \A s \in Requests : Harmless(request[s])
  BY <1>4 DEF CacheInv, Calm
<1> QED
  BY <1>1, <1>5

(* Nothing is known and nobody asks.                                       *)
LEMMA CacheFirst == CacheInit => CacheInv
BY DEF CacheInit, CacheInv, CacheTyped, RequestOK, Calm, Leads

(* No step of a request, and no match that is saved, breaks it.            *)
LEMMA CacheStep == CacheInv /\ [CacheNext]_cacheVars => CacheInv'
<1> SUFFICES ASSUME CacheInv, [CacheNext]_cacheVars PROVE CacheInv'
  OBVIOUS
<1>1. row \in Metas \cup {NoRow} /\ matchHistory \in Metas \cup {NoRow}
  BY DEF CacheInv, CacheTyped
<1>2. ASSUME NEW r \in Requests, BeginLookup(r)
      PROVE  CacheInv'
  <2>1. PICK q : q = [step |-> "cache", before |-> row, meta |-> Nothing,
                      alone |-> \A p \in Requests \ {r} : At(p, "idle")]
    OBVIOUS
  <2>2. Nothing \in Metas
    BY MetaTyped DEF Nothing, Sources
  <2>3. Moves(r, q) /\ row' = row /\ matchHistory' = matchHistory
    BY <1>2, <2>1, Zenon DEF BeginLookup
  <2>4. RequestOK(q)'
    BY <1>1, <2>1, <2>2, <2>3 DEF RequestOK
  <2>5. Calm'
    <3>1. request'[r] = q /\ \A s \in Requests : s # r => request'[s] = request[s]
      BY <2>3 DEF Moves, CacheInv, CacheTyped
    <3>2. SUFFICES ASSUME NEW g \in Requests, Leads(request'[g])
                   PROVE  Good(row') /\ \A s \in Requests : Harmless(request'[s])
      BY DEF Calm, Leads, Good, Harmless, Known
    <3>3. CASE g = r
      <4>1. Good(row') /\ Harmless(q)
        BY <2>1, <2>3, <3>1, <3>2, <3>3 DEF Leads, Harmless
      <4>2. \A s \in Requests : s # r => request[s].step = "idle"
        BY <2>1, <3>1, <3>2, <3>3 DEF Leads, At
      <4> QED
        BY <3>1, <4>1, <4>2 DEF Harmless
    <3>4. CASE g # r
      <4>1. Good(row) /\ \A s \in Requests : Harmless(request[s])
        BY <3>1, <3>2, <3>4 DEF CacheInv, Calm
      <4>2. Harmless(q)
        BY <2>1, <4>1 DEF Harmless
      <4> QED
        BY <2>3, <3>1, <4>1, <4>2
    <3> QED
      BY <3>3, <3>4
  <2> QED
    BY <1>1, <2>3, <2>4, <2>5, OneRequest
<1>3. ASSUME NEW r \in Requests, CheckCache(r)
      PROVE  CacheInv'
  <2>1. /\ RequestOK(request[r]) /\ request[r].step = "cache" /\ row' = row
        /\ matchHistory' = matchHistory
    BY <1>3 DEF CacheInv, CheckCache, At
  <2>2. CASE "title" \in Known(row)
    <3>1. PICK q : q = [On(r, "answered") EXCEPT !.meta = row]
      OBVIOUS
    <3>2. row \in Metas
      BY <1>1, <2>2 DEF Known
    <3>3. q = [step |-> "answered", before |-> request[r].before, meta |-> row,
               alone |-> request[r].alone]
      BY <2>1, <3>1 DEF On, RequestOK
    <3>4. q.alone /\ "title" \in Known(q.before) /\ "id" \in Known(q.before) => "id" \in Known(row)
      <4>1. q.alone /\ "title" \in Known(q.before) /\ "id" \in Known(q.before) => Leads(request[r])
        BY <2>1, <3>3 DEF Leads, Good
      <4> QED
        BY <4>1 DEF CacheInv, Calm, Good
    <3>5. RequestOK(q)'
      BY <2>1, <3>2, <3>3, <3>4 DEF RequestOK, Rest
    <3>6. Moves(r, q)
      BY <1>3, <2>2, <3>1 DEF CheckCache, Answers
    <3>7. Calm'
      <4>1. ASSUME NEW g \in Requests, Leads(request[g])
            PROVE  Good(row') /\ Harmless(q)
        BY <2>1, <3>3, <4>1 DEF CacheInv, Calm, Good, Harmless
      <4> QED
        BY <3>3, <3>6, <4>1, CalmAfter
    <3> QED
      BY <1>1, <2>1, <3>5, <3>6, <3>7, OneRequest
  <2>3. CASE "title" \notin Known(row)
    <3>1. PICK q : q = On(r, "history")
      OBVIOUS
    <3>2. q = [step |-> "history", before |-> request[r].before, meta |-> request[r].meta,
               alone |-> request[r].alone]
      BY <2>1, <3>1 DEF On, RequestOK
    <3>3. RequestOK(q)'
      BY <2>1, <2>3, <3>2 DEF RequestOK, Rest
    <3>4. Moves(r, q)
      BY <1>3, <2>3, <3>1 DEF CheckCache
    <3>5. Calm'
      <4>1. ~ \E g \in Requests : Leads(request[g])
        BY <2>3 DEF CacheInv, Calm, Good
      <4> QED
        BY <3>2, <3>4, <4>1, CalmAfter
    <3> QED
      BY <1>1, <2>1, <3>3, <3>4, <3>5, OneRequest
  <2> QED
    BY <2>2, <2>3
<1> DEFINE Later(r, to) ==
        /\ request[r].step \in {"history", "name", "again", "mirror", "store"}
        /\ to \in {"name", "again", "mirror", "store", "answered"}
<1>4. ASSUME NEW r \in Requests, NEW to, Later(r, to), NEW meta \in Metas, NEW q,
             q = [On(r, to) EXCEPT !.meta = meta] \/ q = On(r, to), Moves(r, q),
             row' \in Metas \cup {NoRow}, Rest(row) \subseteq Rest(row'), UNCHANGED matchHistory,
             to = "name" => matchHistory # NoRow
      PROVE  CacheInv'
  <2>1. RequestOK(request[r])
    BY DEF CacheInv
  <2>2. PICK m \in Metas : q = [step |-> to, before |-> request[r].before, meta |-> m,
                                alone |-> request[r].alone]
    BY <1>4, <2>1 DEF On, RequestOK
  <2>3. RequestOK(q)'
    BY <1>4, <2>1, <2>2 DEF RequestOK
  <2>4. Calm'
    <3>1. ~Harmless(request[r])
      BY <1>4 DEF Harmless
    <3>2. ~ \E g \in Requests : Leads(request[g])
      BY <3>1 DEF CacheInv, Calm
    <3> QED
      BY <1>4, <2>2, <3>2, CalmAfter
  <2> QED
    BY <1>4, <2>3, <2>4, OneRequest
<1>5. ASSUME NEW r \in Requests, CheckHistory(r) \/ CheckAgain(r) \/ AskMirror(r)
      PROVE  CacheInv'
  <2>1. Nothing \in Metas
    BY MetaTyped DEF Nothing, Sources
  <2>2. row' = row /\ matchHistory' = matchHistory
    BY <1>5 DEF CheckHistory, CheckAgain, AskMirror
  <2>3. FromMirror \subseteq Metas
    BY MetaTyped DEF FromMirror, Sources
  <2>4. CASE CheckHistory(r)
    <3>1. PICK to : to = IF matchHistory = NoRow THEN "mirror" ELSE "name"
      OBVIOUS
    <3>2. Moves(r, On(r, to)) /\ Later(r, to) /\ (to = "name" => matchHistory # NoRow)
      BY <2>4, <3>1 DEF CheckHistory, At
    <3> QED
      BY <1>1, <1>4, <2>1, <2>2, <3>2
  <2>5. CASE CheckAgain(r)
    <3>1. CASE row # NoRow
      <4>1. row \in Metas /\ Later(r, "answered") /\ Moves(r, [On(r, "answered") EXCEPT !.meta = row])
        BY <1>1, <2>5, <3>1 DEF CheckAgain, At, Answers
      <4> QED
        BY <1>1, <1>4, <2>2, <4>1
    <3>2. CASE row = NoRow
      <4>1. Later(r, "mirror") /\ Moves(r, On(r, "mirror"))
        BY <2>5, <3>2 DEF CheckAgain, At
      <4> QED
        BY <1>1, <1>4, <2>1, <2>2, <4>1
    <3> QED
      BY <3>1, <3>2
  <2>6. CASE AskMirror(r)
    <3>1. PICK meta \in Metas, to \in {"store", "answered"} : Moves(r, [On(r, to) EXCEPT !.meta = meta])
      BY <2>1, <2>3, <2>6 DEF AskMirror, Answers
    <3>2. Later(r, to)
      BY <2>6 DEF AskMirror, At
    <3> QED
      BY <1>1, <1>4, <2>2, <3>1, <3>2
  <2> QED
    BY <1>5, <2>4, <2>5, <2>6
<1>6. ASSUME NEW r \in Requests, SaveName(r)
      PROVE  CacheInv'
  <2>1. RequestOK(request[r]) /\ request[r].step = "name" /\ Save(matchHistory)
    BY <1>6 DEF CacheInv, SaveName, At
  <2>2. matchHistory \in Metas /\ matchHistory' = matchHistory
    BY <1>1, <1>6, <2>1 DEF RequestOK, SaveName
  <2>3. row' \in Metas \cup {NoRow} /\ Rest(row) \subseteq Rest(row')
    BY <1>1, <2>1, <2>2, SavedMore
  <2>4. Later(r, "again") /\ Moves(r, On(r, "again"))
    BY <1>6, <2>1 DEF SaveName
  <2> QED
    BY <1>4, <2>2, <2>3, <2>4
<1>7. ASSUME NEW r \in Requests, Store(r)
      PROVE  CacheInv'
  <2>1. RequestOK(request[r]) /\ request[r].step = "store" /\ matchHistory' = matchHistory
    BY <1>7 DEF CacheInv, Store, At
  <2>2. PICK meta \in Metas : meta = request[r].meta
    BY <2>1 DEF RequestOK
  <2>3. row' \in Metas \cup {NoRow} /\ Rest(row) \subseteq Rest(row')
    BY <1>1, <1>7, <2>2, SavedMore DEF Store
  <2>4. Later(r, "answered") /\ Moves(r, [On(r, "answered") EXCEPT !.meta = meta])
    BY <1>7, <2>1, <2>2 DEF Store, Answers
  <2> QED
    BY <1>4, <2>1, <2>3, <2>4
<1>8. ASSUME NEW r \in Requests, GetScores(r) \/ SubmitScore(r) \/ Drop(r)
      PROVE  CacheInv'
  <2>1. PICK q : q = [step |-> "idle"]
    OBVIOUS
  <2>2. Moves(r, q) /\ matchHistory' = matchHistory
    BY <1>8, <2>1 DEF GetScores, SubmitScore, Drop
  <2>3. RequestOK(q)'
    BY <2>1 DEF RequestOK
  <2>4. row' \in Metas \cup {NoRow} /\ Rest(row) \subseteq Rest(row')
    <3>1. CASE GetScores(r)
      <4>1. RequestOK(request[r]) /\ request[r].step = "answered"
        BY <3>1 DEF CacheInv, GetScores, At
      <4>2. PICK id : id = IdOf(request[r].meta)
        OBVIOUS
      <4>3. id \in Sources
        BY <4>1, <4>2 DEF RequestOK, IdOf, Metas, Sources, Fields
      <4>4. PICK meta \in FromName(id) : Save(meta)
        BY <3>1, <4>2 DEF GetScores
      <4>5. meta \in Metas
        BY <4>3, <4>4, MetaTyped DEF FromName, Sources
      <4> QED
        BY <1>1, <4>4, <4>5, SavedMore
    <3>2. CASE SubmitScore(r) \/ Drop(r)
      BY <1>1, <3>2 DEF SubmitScore, Drop
    <3> QED
      BY <1>8, <3>1, <3>2
  <2>5. ASSUME NEW g \in Requests, Leads(request[g])
        PROVE  Good(row')
    <3>1. Good(row) /\ Harmless(request[r])
      BY <2>5 DEF CacheInv, Calm
    <3>2. CASE GetScores(r)
      <4>1. RequestOK(request[r]) /\ request[r].step = "answered"
        BY <3>2 DEF CacheInv, GetScores, At
      <4>2. PICK m \in Metas : m = request[r].meta
        BY <4>1 DEF RequestOK
      <4>3. "id" \in Known(m)
        BY <3>1, <4>1, <4>2 DEF Harmless
      <4>4. PICK id \in Sources : id = m["id"] /\ id \notin {"unknown", "invented"}
        BY <4>3 DEF Known, Metas, Fields
      <4>5. IdOf(request[r].meta) = id
        BY <4>2, <4>4 DEF IdOf
      <4>6. PICK meta \in FromName(id) : Save(meta)
        BY <3>2, <4>5 DEF GetScores
      <4>7. meta \in Metas
        BY <4>6, MetaTyped DEF FromName, Sources
      <4>8. "id" \in Known(meta)
        BY <4>4, <4>6, <4>7, IsRow DEF FromName, Meta, Known, Fields
      <4> QED
        BY <1>1, <3>1, <4>6, <4>7, <4>8, SavedMore DEF Good, Rest
    <3>3. CASE SubmitScore(r) \/ Drop(r)
      BY <3>1, <3>3 DEF SubmitScore, Drop
    <3> QED
      BY <1>8, <3>2, <3>3
  <2>6. Calm'
    <3>1. Harmless(q) /\ q.step # "cache"
      BY <2>1 DEF Harmless
    <3> QED
      BY <2>2, <2>5, <3>1, CalmAfter
  <2> QED
    BY <2>2, <2>3, <2>4, <2>6, OneRequest
<1>9. CASE MatchSaved
  <2>1. row' = row /\ request' = request
    BY <1>9 DEF MatchSaved
  <2>2. matchHistory' \in Metas
    BY <1>9, MetaTyped DEF MatchSaved, FromName, Sources
  <2>3. matchHistory' # NoRow
    BY <2>2, IsRow
  <2>4. ASSUME NEW r \in Requests
        PROVE  RequestOK(request[r])'
    <3>1. RequestOK(request[r])
      BY DEF CacheInv
    <3> QED
      BY <2>1, <2>3, <3>1 DEF RequestOK
  <2> QED
    BY <1>1, <2>1, <2>2, <2>4 DEF CacheInv, CacheTyped, Calm
<1>10. CASE UNCHANGED cacheVars
  <2>1. row' = row /\ request' = request /\ matchHistory' = matchHistory
    BY <1>10 DEF cacheVars
  <2>2. ASSUME NEW r \in Requests
        PROVE  RequestOK(request[r])'
    <3>1. RequestOK(request[r])
      BY DEF CacheInv
    <3> QED
      BY <2>1, <3>1 DEF RequestOK
  <2> QED
    BY <1>1, <2>1, <2>2 DEF CacheInv, CacheTyped, Calm
<1> QED
  BY <1>2, <1>3, <1>5, <1>6, <1>7, <1>8, <1>9, <1>10 DEF CacheNext

(* Whoever asks for a map with a title is answered all that was known of   *)
(* it when they asked, or all but its id when others were asking already.  *)
THEOREM AnswersKnown == CacheSpec => []AnswersWhatIsKnown
<1>1. CacheInv => AnswersWhatIsKnown
  BY DEF CacheInv, RequestOK, AnswersWhatIsKnown, At, Rest
<1> QED
  BY <1>1, CacheFirst, CacheStep, PTL DEF CacheSpec

-----------------------------------------------------------------------------
(* Backups *)

WorkerStates ==
    [step : {"rest", "rotate"}] \cup [step : {"vacuum"}, name : Nat]
        \cup [step : {"prune"}, old : SUBSET Nat]

(* A file is named for the second it was begun in and was last written     *)
(* before the next was begun.                                              *)
Dated ==
    /\ IsFiniteSet(DOMAIN files) /\ DOMAIN files \subseteq Nat /\ clock \in Nat
    /\ files \in [DOMAIN files -> [modified : Nat, whole : BOOLEAN]]
    /\ \A g \in DOMAIN files : g <= clock /\ files[g].modified <= clock
    /\ \A g, h \in DOMAIN files : g < h => files[g].modified <= h
    /\ \A g \in DOMAIN files : g <= files[g].modified

(* The file that is being written is the newest, and so is the last that   *)
(* succeeded while the others are pruned.                                  *)
WorkerOK ==
    /\ worker \in WorkerStates
    /\ worker.step = "vacuum" =>
            /\ worker.name \in DOMAIN files \ latest
            /\ \A g \in DOMAIN files : g <= worker.name
    /\ worker.step \in {"rotate", "prune"} =>
            \A f \in latest, g \in DOMAIN files : g <= f
    /\ worker.step = "prune" => worker.old \cap latest = {}

BackupsInv ==
    /\ setBack \in BOOLEAN
    /\ ~setBack /\ MaxKept > 1 =>
            /\ Dated /\ WorkerOK
            /\ \A f \in latest : f \in DOMAIN files /\ files[f].whole

(* Of the files that are kept two are at least as new as one that is not:  *)
(* the newest is kept.                                                     *)
LEMMA NewestKept ==
    ASSUME Dated, MaxKept > 1, NEW S, Skipped(S), NEW f \in DOMAIN files,
           \A g \in DOMAIN files : g <= f
    PROVE  f \notin S
<1> SUFFICES ASSUME f \in S PROVE FALSE
  OBVIOUS
<1> DEFINE D == DOMAIN files
           R == D \ S
<1>1. IsFiniteSet(D) /\ D \subseteq Nat /\ S \subseteq D
  BY DEF Dated, Skipped
<1>2. IsFiniteSet(R) /\ IsFiniteSet(S)
  <2>1. R \subseteq D
    OBVIOUS
  <2> HIDE DEF R, D
  <2> QED
    BY <1>1, <2>1, FS_Subset
<1>3. Cardinality(S) = Cardinality(D) - MaxKept
  <2>1. Cardinality(S) # 0
    BY <1>2, FS_EmptySet
  <2> QED
    BY <2>1 DEF Skipped
<1>4. Cardinality(R) = Cardinality(D) - Cardinality(S)
  <2>1. D \cap S = S
    BY <1>1
  <2> HIDE DEF D
  <2>2. Cardinality(D \ S) = Cardinality(D) - Cardinality(D \cap S)
    BY <1>1, FS_Difference
  <2> QED
    BY <2>1, <2>2
<1>5. Cardinality(R) > 1
  <2>1. Cardinality(D) \in Nat /\ MaxKept \in Nat
    BY <1>1, FS_CardinalityType, BackupsAssumption
  <2> QED
    BY <1>3, <1>4, <2>1
<1>6. \E g, h \in R : g < h
  <2>1. R # {} 
    BY <1>5, FS_EmptySet
  <2>2. PICK g \in R : TRUE
    BY <2>1
  <2>3. Cardinality(R \ {g}) = Cardinality(R) - 1
    BY <1>2, <2>2, FS_RemoveElement
  <2>4. R \ {g} # {}
    <3>1. Cardinality({}) = 0 /\ Cardinality(R) \in Nat
      BY <1>2, FS_EmptySet, FS_CardinalityType
    <3> HIDE DEF R
    <3> QED
      BY <1>5, <2>3, <3>1
  <2>5. PICK h \in R : h # g
    BY <2>4
  <2>6. g \in Nat /\ h \in Nat
    BY <1>1, <2>2, <2>5
  <2> QED
    BY <2>2, <2>5, <2>6
<1>7. PICK g \in R, h \in R : g < h
  BY <1>6
<1>8. /\ g \in D /\ h \in D /\ f \in D /\ h # f /\ h <= f
  BY <1>7
<1>9. files[g].modified <= h /\ f <= files[f].modified
  BY <1>7, <1>8 DEF Dated
<1>10. ~(files[f].modified > files[g].modified)
  BY <1>7 DEF Skipped, Before
<1>11. files[f].modified \in Nat /\ files[g].modified \in Nat /\ f \in Nat /\ h \in Nat
  BY <1>8 DEF Dated
<1> QED
  BY <1>8, <1>9, <1>10, <1>11

(* The directory is empty.                                                 *)
LEMMA BackupsFirst == BackupsInit => BackupsInv
<1> SUFFICES ASSUME BackupsInit PROVE BackupsInv
  OBVIOUS
<1>1. DOMAIN files = {} /\ files = << >>
  BY DEF BackupsInit
<1>2. IsFiniteSet(DOMAIN files) /\ files \in [DOMAIN files -> [modified : Nat, whole : BOOLEAN]]
  BY <1>1, FS_EmptySet
<1> QED
  BY <1>1, <1>2 DEF BackupsInit, BackupsInv, Dated, WorkerOK, WorkerStates, Resting

(* The directory keeps its dates when files go,                            *)
LEMMA FilesGo ==
    ASSUME Dated, NEW S, files' = Without(files, S), clock' = clock
    PROVE  /\ Dated' /\ DOMAIN files' = DOMAIN files \ S
           /\ \A g \in DOMAIN files' : files'[g] = files[g]
<1>1. DOMAIN files' = DOMAIN files \ S /\ files' = [g \in DOMAIN files \ S |-> files[g]]
  BY DEF Without, Restrict
<1>2. IsFiniteSet(DOMAIN files')
  BY <1>1, FS_Subset DEF Dated
<1> QED
  BY <1>1, <1>2 DEF Dated

(* and when the newest is written.                                        *)
LEMMA NewestWritten ==
    ASSUME Dated, NEW n \in Nat, NEW w \in BOOLEAN, n <= clock,
           \A g \in DOMAIN files : g <= n /\ (g # n => files[g].modified <= n),
           files' = Put(files, n, [modified |-> clock, whole |-> w]), clock' = clock
    PROVE  /\ Dated' /\ DOMAIN files' = DOMAIN files \cup {n} /\ files'[n].whole = w
           /\ \A g \in DOMAIN files : g # n => files'[g] = files[g]
<1>1. /\ DOMAIN files' = DOMAIN files \cup {n} /\ files'[n] = [modified |-> clock, whole |-> w]
      /\ \A g \in DOMAIN files : g # n => files'[g] = files[g]
      /\ files' = [g \in DOMAIN files \cup {n} |-> files'[g]]
  BY DEF Put
<1>2. IsFiniteSet(DOMAIN files')
  BY <1>1, FS_AddElement DEF Dated
<1>3. files' \in [DOMAIN files' -> [modified : Nat, whole : BOOLEAN]]
  BY <1>1 DEF Dated
<1>4. /\ \A g \in DOMAIN files' : g <= clock' /\ files'[g].modified <= clock'
      /\ \A g \in DOMAIN files' : g <= files'[g].modified
  BY <1>1 DEF Dated
<1>5. ASSUME NEW g \in DOMAIN files', NEW h \in DOMAIN files', g < h
      PROVE  files'[g].modified <= h
  BY <1>1, <1>5 DEF Dated
<1>6. DOMAIN files' \subseteq Nat /\ clock' \in Nat
  BY <1>1 DEF Dated
<1> QED
  BY <1>1, <1>2, <1>3, <1>4, <1>5, <1>6 DEF Dated

(* A step of the worker, the clock or a crash.                             *)
LEMMA BackupsStep == BackupsInv /\ [BackupsNext]_backupVars => BackupsInv'
<1> SUFFICES ASSUME BackupsInv, [BackupsNext]_backupVars PROVE BackupsInv'
  OBVIOUS
<1>1. CASE SetBack
  BY <1>1 DEF SetBack, BackupsInv
<1>2. ASSUME ~SetBack PROVE setBack' = setBack
  BY <1>2 DEF BackupsNext, BeginBackup, BackupDone, BackupFails, Rotate, Prune, Crash, Second, backupVars
<1> SUFFICES ASSUME ~SetBack, ~setBack, MaxKept > 1
             PROVE  BackupsInv'
  BY <1>1, <1>2 DEF BackupsInv
<1>3. /\ Dated /\ WorkerOK /\ setBack' = setBack
      /\ \A f \in latest : f \in DOMAIN files /\ files[f].whole
  BY <1>2 DEF BackupsInv
<1>4. CASE BeginBackup
  <2>1. CASE clock \in DOMAIN files
    BY <1>3, <1>4, <2>1 DEF BeginBackup, BackupsInv, Dated, WorkerOK
  <2>2. CASE clock \notin DOMAIN files
    <3>1. /\ files' = Put(files, clock, [modified |-> clock, whole |-> FALSE])
          /\ worker' = [step |-> "vacuum", name |-> clock] /\ UNCHANGED <<clock, latest>>
      BY <1>4, <2>2 DEF BeginBackup
    <3>2. clock \in Nat /\ \A g \in DOMAIN files : g <= clock /\ files[g].modified <= clock
      BY <1>3 DEF Dated
    <3>3. /\ Dated' /\ DOMAIN files' = DOMAIN files \cup {clock}
          /\ \A g \in DOMAIN files : g # clock => files'[g] = files[g]
      <4>1. PICK n : n = clock
        OBVIOUS
      <4>2. files' = Put(files, n, [modified |-> clock, whole |-> FALSE]) /\ clock' = clock
        BY <3>1, <4>1
      <4>3. n \in Nat /\ n <= clock /\ \A g \in DOMAIN files : g <= n /\ (g # n => files[g].modified <= n)
        BY <3>2, <4>1
      <4>4. /\ Dated' /\ DOMAIN files' = DOMAIN files \cup {n}
            /\ \A g \in DOMAIN files : g # n => files'[g] = files[g]
        BY <1>3, <4>2, <4>3, NewestWritten
      <4> QED
        BY <4>1, <4>4
    <3>4. clock \notin latest
      BY <1>3, <2>2
    <3>5. WorkerOK'
      <4>1. worker' \in WorkerStates /\ worker'.step = "vacuum" /\ worker'.name = clock
        BY <3>1, <3>2 DEF WorkerStates
      <4>2. clock \in DOMAIN files' \ latest'
        BY <3>1, <3>3, <3>4
      <4>3. \A g \in DOMAIN files' : g <= clock
        BY <3>2, <3>3
      <4> QED
        BY <4>1, <4>2, <4>3 DEF WorkerOK
    <3> QED
      BY <1>3, <2>2, <3>1, <3>3, <3>5 DEF BackupsInv
  <2> QED
    BY <2>1, <2>2
<1>5. CASE BackupDone
  <2>1. /\ files' = Put(files, worker.name, [modified |-> clock, whole |-> TRUE])
        /\ worker' \in {[step |-> "rotate"], Resting} /\ latest' = {worker.name} /\ clock' = clock
        /\ worker.step = "vacuum"
    BY <1>5 DEF BackupDone
  <2>2. PICK n : n = worker.name
    OBVIOUS
  <2>3. /\ n \in DOMAIN files /\ n \in Nat /\ n <= clock
        /\ \A g \in DOMAIN files : g <= n /\ (g # n => files[g].modified <= n)
    BY <1>3, <2>1, <2>2 DEF WorkerOK, Dated
  <2>4. Dated' /\ DOMAIN files' = DOMAIN files \cup {n} /\ files'[n].whole
    BY <1>3, <2>1, <2>2, <2>3, NewestWritten
  <2>5. WorkerOK'
    <3>1. worker' \in [step : {"rest", "rotate"}]
      BY <2>1 DEF Resting
    <3>2. \A g \in DOMAIN files' : g <= n
      BY <2>3, <2>4
    <3> QED
      BY <2>1, <2>2, <3>1, <3>2 DEF WorkerOK, WorkerStates
  <2> QED
    BY <1>3, <2>1, <2>2, <2>4, <2>5 DEF BackupsInv
<1>6. CASE BackupFails
  <2>1. /\ files' \in {files, Without(files, {worker.name})} /\ worker' = Resting
        /\ UNCHANGED <<clock, latest>> /\ worker.name \notin latest
    BY <1>3, <1>6 DEF BackupFails, WorkerOK
  <2>2. WorkerOK'
    BY <2>1 DEF WorkerOK, WorkerStates, Resting
  <2>3. CASE files' = files
    BY <1>3, <2>1, <2>2, <2>3 DEF BackupsInv, Dated
  <2>4. CASE files' = Without(files, {worker.name})
    <3>1. /\ Dated' /\ DOMAIN files' = DOMAIN files \ {worker.name}
          /\ \A g \in DOMAIN files' : files'[g] = files[g]
      BY <1>3, <2>1, <2>4, FilesGo
    <3> QED
      BY <1>3, <2>1, <2>2, <3>1 DEF BackupsInv
  <2> QED
    BY <2>1, <2>3, <2>4
<1>7. CASE Rotate
  <2>1. PICK S \in SUBSET DOMAIN files : Skipped(S) /\ worker' = [step |-> "prune", old |-> S]
    BY <1>7 DEF Rotate
  <2>2. /\ UNCHANGED <<files, clock, latest>> /\ \A f \in latest, g \in DOMAIN files : g <= f
    BY <1>3, <1>7 DEF Rotate, WorkerOK
  <2>3. S \cap latest = {}
    BY <1>3, <2>1, <2>2, NewestKept
  <2>4. WorkerOK'
    BY <1>3, <2>1, <2>2, <2>3 DEF Dated, WorkerOK, WorkerStates
  <2>5. Dated'
    BY <1>3, <2>2 DEF Dated
  <2> QED
    BY <1>3, <2>2, <2>4, <2>5 DEF BackupsInv
<1>8. CASE Prune
  <2>1. UNCHANGED <<clock, latest>> /\ worker.step = "prune" /\ worker.old \cap latest = {}
    BY <1>3, <1>8 DEF Prune, WorkerOK
  <2>2. CASE worker.old = {}
    BY <1>3, <1>8, <2>1, <2>2 DEF Prune, BackupsInv, Dated, WorkerOK, WorkerStates, Resting
  <2>3. CASE worker.old # {}
    <3>1. PICK f \in worker.old : /\ worker' = [worker EXCEPT !.old = @ \ {f}]
                                  /\ files' \in {files, Without(files, {f})}
      BY <1>8, <2>3 DEF Prune
    <3>2. f \notin latest /\ worker'.step = "prune" /\ worker'.old \cap latest = {}
          /\ worker' \in WorkerStates
      BY <1>3, <2>1, <3>1 DEF WorkerOK, WorkerStates
    <3>3. CASE files' = files
      BY <1>3, <2>1, <3>2, <3>3 DEF BackupsInv, Dated, WorkerOK
    <3>4. CASE files' = Without(files, {f})
      <4>1. /\ Dated' /\ DOMAIN files' = DOMAIN files \ {f}
            /\ \A g \in DOMAIN files' : files'[g] = files[g]
        BY <1>3, <2>1, <3>4, FilesGo
      <4> QED
        BY <1>3, <2>1, <3>2, <4>1 DEF BackupsInv, WorkerOK
    <3> QED
      BY <3>1, <3>3, <3>4
  <2> QED
    BY <2>2, <2>3
<1>9. CASE Crash
  BY <1>3, <1>9 DEF Crash, BackupsInv, Dated, WorkerOK, WorkerStates, Resting
<1>10. CASE Second
  BY <1>3, <1>10 DEF Second, BackupsInv, Dated, WorkerOK
<1>11. CASE UNCHANGED backupVars
  BY <1>3, <1>11 DEF backupVars, BackupsInv, Dated, WorkerOK
<1> QED
  BY <1>4, <1>5, <1>6, <1>7, <1>8, <1>9, <1>10, <1>11 DEF BackupsNext

(* The last backup that succeeded is there and whole, through failures,    *)
(* crashes and rotations.                                                  *)
THEOREM LastBackupStays == BackupsSpec => []LatestIsKept
<1>1. BackupsInv => LatestIsKept
  BY DEF BackupsInv, LatestIsKept
<1> QED
  BY <1>1, BackupsFirst, BackupsStep, PTL DEF BackupsSpec
==============================================================================
