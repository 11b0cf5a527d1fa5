-------------------------------- MODULE Sums --------------------------------
(***************************************************************************)
(* Sums and extremes over finite sets, for the proofs about models that    *)
(* add up: MapThenSumSet is a recursive function of the community modules, *)
(* and what it computes is shown by minimal counterexample.  Every fact    *)
(* about the subsets of a finite set that is false is false of a subset    *)
(* none of whose own subsets refute it (MinimalSet), which is induction    *)
(* without an operator for the induction hypothesis.  The same argument,   *)
(* with the least measure of an argument, gives what functions defined by  *)
(* recursion compute (MeasuredRecursion).                                  *)
(***************************************************************************)
EXTENDS Integers, FiniteSetsExt, FiniteSetTheorems, SequenceTheorems, WellFoundedInduction, TLAPS

(* A nonempty set of subsets of a finite set has a minimal one. *)
LEMMA MinimalSet ==
    ASSUME NEW S, IsFiniteSet(S), NEW B \in SUBSET SUBSET S, B # {}
    PROVE  \E T \in B : \A U \in B : U \subseteq T => U = T
<1>1. B \subseteq FiniteSubsetsOf(S)
  BY FS_Subset DEF FiniteSubsetsOf
<1>2. PICK T \in B : \A U \in B : ~ (<<U, T>> \in StrictSubsetOrdering(S))
  BY <1>1, WFMin, FS_StrictSubsetOrderingWellFounded
<1> QED
  BY <1>2 DEF StrictSubsetOrdering

(* the sum of w over S *)
Total(w, S) == MapThenSumSet(LAMBDA x : w[x], S)

(* the element MapThenSumSet takes out next *)
Chosen(s) == CHOOSE x \in s : TRUE

(* g is the function MapThenSumSet recurses by *)
IsFold(w, S, g) ==
    g = [s \in SUBSET S |-> IF s = {} THEN 0 ELSE w[Chosen(s)] + g[s \ {Chosen(s)}]]

(* It is one of them. *)
LEMMA ChosenIn == \A s : s # {} => Chosen(s) \in s
BY DEF Chosen

(* MapThenSumSet applies a recursive function, which is chosen: *)
LEMMA TotalIsFold ==
    ASSUME NEW w, NEW S
    PROVE  Total(w, S) = (CHOOSE g : IsFold(w, S, g))[S]
BY Zenon DEF Total, MapThenSumSet, MapThenFoldSet, IsFold, Chosen

(* any two of them agree on a finite set, *)
LEMMA FoldsAgree ==
    ASSUME NEW w, NEW S, NEW T, NEW g, NEW h, IsFold(w, S, g), IsFold(w, T, h),
           NEW u, IsFiniteSet(u), u \subseteq S, u \subseteq T
    PROVE  g[u] = h[u]
<1> DEFINE B == {s \in SUBSET u : g[s] # h[s]}
<1>1. SUFFICES ASSUME B # {} PROVE FALSE
  OBVIOUS
<1>2. PICK s \in B : \A r \in B : r \subseteq s => r = s
  <2>1. B \in SUBSET SUBSET u
    OBVIOUS
  <2> HIDE DEF B
  <2> QED
    BY <1>1, <2>1, MinimalSet
<1>3. /\ g[s] = IF s = {} THEN 0 ELSE w[Chosen(s)] + g[s \ {Chosen(s)}]
      /\ h[s] = IF s = {} THEN 0 ELSE w[Chosen(s)] + h[s \ {Chosen(s)}]
  BY <1>2 DEF IsFold
<1>4. s # {}
  BY <1>2, <1>3
<1>5. g[s \ {Chosen(s)}] = h[s \ {Chosen(s)}]
  BY <1>2, <1>4, ChosenIn
<1> QED
  BY <1>2, <1>3, <1>4, <1>5

(* and there is one. *)
LEMMA FoldExists ==
    ASSUME NEW w, NEW S, IsFiniteSet(S)
    PROVE  \E g : IsFold(w, S, g)
<1> DEFINE B == {s \in SUBSET S : ~ \E g : IsFold(w, s, g)}
           G(s) == (CHOOSE g : IsFold(w, s, g))[s]
<1>1. SUFFICES ASSUME B # {} PROVE FALSE
  OBVIOUS
<1>2. PICK s \in B : \A r \in B : r \subseteq s => r = s
  <2>1. B \in SUBSET SUBSET S
    OBVIOUS
  <2> HIDE DEF B
  <2> QED
    BY <1>1, <2>1, MinimalSet
<1>3. \A r : r \subseteq s /\ r # s => \E g : IsFold(w, r, g)
  BY <1>2
<1> DEFINE h == [t \in SUBSET s |-> IF t = {} THEN 0 ELSE w[Chosen(t)] + G(t \ {Chosen(t)})]
<1>4. ASSUME NEW t, t \subseteq s, t # s
      PROVE  h[t] = G(t)
  <2>1. PICK g : IsFold(w, t, g) /\ g = CHOOSE f : IsFold(w, t, f)
    BY <1>3, <1>4
  <2>2. G(t) = g[t]
    BY <2>1
  <2>3. g[t] = IF t = {} THEN 0 ELSE w[Chosen(t)] + g[t \ {Chosen(t)}]
    BY <2>1 DEF IsFold
  <2>4. CASE t = {}
    BY <2>2, <2>3, <2>4
  <2>5. CASE t # {}
    <3> DEFINE r == t \ {Chosen(t)}
    <3>1. r \subseteq t /\ r \subseteq s /\ r # s /\ IsFiniteSet(r)
      BY <1>2, <1>4, FS_Subset
    <3>2. PICK f : IsFold(w, r, f) /\ f = CHOOSE e : IsFold(w, r, e)
      BY <1>3, <3>1
    <3>3. G(r) = f[r]
      BY <3>2
    <3> HIDE DEF r, G
    <3>4. g[r] = f[r]
      BY <2>1, <3>1, <3>2, FoldsAgree
    <3> QED
      BY <1>4, <2>2, <2>3, <2>5, <3>3, <3>4 DEF r
  <2> QED
    BY <2>4, <2>5
<1>5. ASSUME NEW t \in SUBSET s, t # {}
      PROVE  h[t] = w[Chosen(t)] + h[t \ {Chosen(t)}]
  <2>1. t \ {Chosen(t)} \subseteq s /\ t \ {Chosen(t)} # s
    BY <1>5, ChosenIn
  <2>2. h[t \ {Chosen(t)}] = G(t \ {Chosen(t)})
    BY <1>4, <2>1
  <2> HIDE DEF G
  <2> QED
    BY <1>5, <2>2
<1>6. IsFold(w, s, h)
  <2>1. h[{}] = 0
    OBVIOUS
  <2>2. h = [t \in SUBSET s |-> h[t]]
    OBVIOUS
  <2> HIDE DEF h
  <2> QED
    BY <1>5, <2>1, <2>2 DEF IsFold
<1> QED
  BY <1>2, <1>6

(* So each of them gives the sum, *)
LEMMA FoldIsTotal ==
    ASSUME NEW w, NEW S, IsFiniteSet(S), NEW g, IsFold(w, S, g)
    PROVE  g[S] = Total(w, S)
<1>1. PICK f : IsFold(w, S, f) /\ Total(w, S) = f[S]
  BY FoldExists, TotalIsFold
<1> QED
  BY <1>1, FoldsAgree

(* which obeys the recursion of the model. *)
LEMMA TotalStep ==
    ASSUME NEW w, NEW S, IsFiniteSet(S)
    PROVE  /\ S = {} => Total(w, S) = 0
           /\ S # {} => Total(w, S) = w[Chosen(S)] + Total(w, S \ {Chosen(S)})
<1> DEFINE R == S \ {Chosen(S)}
<1>1. IsFiniteSet(R)
  BY FS_Subset
<1>2. PICK g : IsFold(w, S, g) /\ Total(w, S) = g[S]
  BY FoldExists, TotalIsFold
<1>3. PICK h : IsFold(w, R, h) /\ Total(w, R) = h[R]
  BY <1>1, FoldExists, TotalIsFold
<1>4. g[R] = h[R]
  BY <1>1, <1>2, <1>3, FoldsAgree
<1>5. g[S] = IF S = {} THEN 0 ELSE w[Chosen(S)] + g[R]
  BY <1>2 DEF IsFold
<1> QED
  BY <1>2, <1>3, <1>4, <1>5

(* A sum of naturals is one. *)
LEMMA TotalNat ==
    ASSUME NEW S, IsFiniteSet(S), NEW w, \A x \in S : w[x] \in Nat
    PROVE  Total(w, S) \in Nat
<1> DEFINE B == {s \in SUBSET S : Total(w, s) \notin Nat}
<1>1. SUFFICES ASSUME B # {} PROVE FALSE
  OBVIOUS
<1>2. PICK s \in B : \A r \in B : r \subseteq s => r = s
  <2>1. B \in SUBSET SUBSET S
    OBVIOUS
  <2> HIDE DEF B
  <2> QED
    BY <1>1, <2>1, MinimalSet
<1>3. IsFiniteSet(s)
  BY <1>2, FS_Subset
<1>4. s # {} /\ Total(w, s) = w[Chosen(s)] + Total(w, s \ {Chosen(s)})
  <2>1. Total(w, s) \notin Nat
    BY <1>2
  <2> HIDE DEF B
  <2> QED
    BY <1>3, <2>1, TotalStep
<1>5. w[Chosen(s)] \in Nat /\ Total(w, s \ {Chosen(s)}) \in Nat
  BY <1>2, <1>4, ChosenIn
<1> QED
  BY <1>2, <1>4, <1>5

(* A sum of integers is one. *)
LEMMA TotalInt ==
    ASSUME NEW S, IsFiniteSet(S), NEW w, \A x \in S : w[x] \in Int
    PROVE  Total(w, S) \in Int
<1> DEFINE B == {s \in SUBSET S : Total(w, s) \notin Int}
<1>1. SUFFICES ASSUME B # {} PROVE FALSE
  OBVIOUS
<1>2. PICK s \in B : \A r \in B : r \subseteq s => r = s
  <2>1. B \in SUBSET SUBSET S
    OBVIOUS
  <2> HIDE DEF B
  <2> QED
    BY <1>1, <2>1, MinimalSet
<1>3. IsFiniteSet(s)
  BY <1>2, FS_Subset
<1>4. s # {} /\ Total(w, s) = w[Chosen(s)] + Total(w, s \ {Chosen(s)})
  <2>1. Total(w, s) \notin Int
    BY <1>2
  <2> HIDE DEF B
  <2> QED
    BY <1>3, <2>1, TotalStep
<1>5. w[Chosen(s)] \in Int /\ Total(w, s \ {Chosen(s)}) \in Int
  BY <1>2, <1>4, ChosenIn
<1> QED
  BY <1>2, <1>4, <1>5

(* Any element may be taken out of a sum, not only the one CHOOSE picks. *)
LEMMA TotalWithout ==
    ASSUME NEW S, IsFiniteSet(S), NEW w, \A x \in S : w[x] \in Int, NEW y \in S
    PROVE  Total(w, S) = w[y] + Total(w, S \ {y})
<1> DEFINE B == {s \in SUBSET S : \E x \in s : Total(w, s) # w[x] + Total(w, s \ {x})}
<1>1. SUFFICES ASSUME B # {} PROVE FALSE
  OBVIOUS
<1>2. PICK s \in B : \A r \in B : r \subseteq s => r = s
  <2>1. B \in SUBSET SUBSET S
    OBVIOUS
  <2> HIDE DEF B
  <2> QED
    BY <1>1, <2>1, MinimalSet
<1>3. PICK x \in s : Total(w, s) # w[x] + Total(w, s \ {x})
  BY <1>2
<1> DEFINE a == Chosen(s)
<1>4. IsFiniteSet(s) /\ IsFiniteSet(s \ {a}) /\ IsFiniteSet(s \ {x}) /\ IsFiniteSet((s \ {a}) \ {x})
  BY <1>2, FS_Subset
<1>5. a \in s /\ Total(w, s) = w[a] + Total(w, s \ {a})
  BY <1>3, <1>4, ChosenIn, TotalStep
<1> HIDE DEF a
<1>6. x # a
  BY <1>3, <1>5
<1>7. /\ Total(w, s \ {a}) = w[x] + Total(w, (s \ {a}) \ {x})
      /\ Total(w, s \ {x}) = w[a] + Total(w, (s \ {x}) \ {a})
  BY <1>2, <1>3, <1>5, <1>6
<1>8. (s \ {a}) \ {x} = (s \ {x}) \ {a}
  OBVIOUS
<1>9. w[a] \in Int /\ w[x] \in Int /\ Total(w, (s \ {a}) \ {x}) \in Int
  BY <1>2, <1>3, <1>4, <1>5, TotalInt
<1> QED
  BY <1>3, <1>5, <1>7, <1>8, <1>9

(* A sum grows with its set and with what is added up. *)
LEMMA TotalGrows ==
    ASSUME NEW S, IsFiniteSet(S), NEW T \in SUBSET S,
           NEW v, NEW w, \A x \in T : v[x] \in Nat, \A x \in S : w[x] \in Nat,
           \A x \in T : v[x] <= w[x]
    PROVE  Total(v, T) <= Total(w, S)
<1> DEFINE B == {s \in SUBSET S : ~(Total(v, s \cap T) <= Total(w, s))}
<1>1. SUFFICES ASSUME B # {} PROVE FALSE
  <2>1. S \cap T = T
    OBVIOUS
  <2> QED
    BY <2>1
<1>2. PICK s \in B : \A r \in B : r \subseteq s => r = s
  <2>1. B \in SUBSET SUBSET S
    OBVIOUS
  <2> HIDE DEF B
  <2> QED
    BY <1>1, <2>1, MinimalSet
<1>3. IsFiniteSet(s) /\ IsFiniteSet(s \cap T)
  BY <1>2, FS_Subset
<1>0. ~(Total(v, s \cap T) <= Total(w, s)) /\ s \subseteq S
  BY <1>2
<1>4. s # {}
  <2> SUFFICES ASSUME s = {} PROVE FALSE
    OBVIOUS
  <2>1. s \cap T = {} /\ IsFiniteSet({})
    BY FS_EmptySet
  <2>2. Total(v, {}) = 0 /\ Total(w, {}) = 0
    BY <2>1, TotalStep
  <2> QED
    BY <1>0, <2>1, <2>2
<1> DEFINE a == Chosen(s)
<1>5. a \in s /\ Total(w, s) = w[a] + Total(w, s \ {a})
  BY <1>3, <1>4, ChosenIn, TotalStep
<1> HIDE DEF a
<1>6. IsFiniteSet(s \ {a}) /\ IsFiniteSet((s \ {a}) \cap T)
  BY <1>2, FS_Subset
<1>7. Total(v, (s \ {a}) \cap T) <= Total(w, s \ {a})
  BY <1>2, <1>5
<1>8. /\ Total(v, (s \ {a}) \cap T) \in Nat /\ Total(w, s \ {a}) \in Nat /\ w[a] \in Nat
      /\ a \in T => v[a] \in Nat /\ v[a] <= w[a]
  BY <1>2, <1>5, <1>6, TotalNat
<1>9. CASE a \in T
  <2>1. (s \cap T) \ {a} = (s \ {a}) \cap T
    OBVIOUS
  <2>2. Total(v, s \cap T) = v[a] + Total(v, (s \cap T) \ {a})
    BY <1>2, <1>3, <1>5, <1>9, TotalWithout
  <2>3. v[a] + Total(v, (s \ {a}) \cap T) <= w[a] + Total(w, s \ {a})
    BY <1>7, <1>8, <1>9
  <2> QED
    BY <1>0, <1>5, <2>1, <2>2, <2>3
<1>10. CASE a \notin T
  <2>1. s \cap T = (s \ {a}) \cap T
    BY <1>10
  <2>2. Total(v, (s \ {a}) \cap T) <= w[a] + Total(w, s \ {a})
    BY <1>7, <1>8
  <2> QED
    BY <1>0, <1>5, <2>1, <2>2
<1> QED
  BY <1>9, <1>10

(* A sum depends on what is added up only. *)
LEMMA TotalSame ==
    ASSUME NEW S, IsFiniteSet(S), NEW v, NEW w,
           \A x \in S : v[x] \in Nat /\ w[x] \in Nat /\ v[x] = w[x]
    PROVE  Total(v, S) = Total(w, S)
<1>1. Total(v, S) \in Nat /\ Total(w, S) \in Nat
  BY TotalNat
<1>2. Total(v, S) <= Total(w, S) /\ Total(w, S) <= Total(v, S)
  BY TotalGrows
<1> QED
  BY <1>1, <1>2

-----------------------------------------------------------------------------
(* Images, greatest and least elements *)

(* The image of a finite set is finite. *)
LEMMA ImageFinite ==
    ASSUME NEW S, IsFiniteSet(S), NEW f
    PROVE  IsFiniteSet({f[x] : x \in S})
<1> DEFINE g == [x \in S |-> f[x]]
<1>1. g \in Surjection(S, {f[x] : x \in S})
  BY DEF Surjection
<1> QED
  BY <1>1, FS_Surjection

(* A finite set of naturals by name has a greatest and a least. *)
LEMMA Extremes ==
    ASSUME NEW S, IsFiniteSet(S), S # {}, NEW w, \A x \in S : w[x] \in Nat
    PROVE  /\ \E x \in S : \A y \in S : w[x] >= w[y]
           /\ \E x \in S : \A y \in S : w[x] <= w[y]
<1> DEFINE Has(s) == /\ \E x \in s : \A y \in s : w[x] >= w[y]
                     /\ \E x \in s : \A y \in s : w[x] <= w[y]
           B == {s \in SUBSET S : s # {} /\ ~Has(s)}
<1>1. SUFFICES ASSUME B # {} PROVE FALSE
  OBVIOUS
<1>2. PICK s \in B : \A r \in B : r \subseteq s => r = s
  <2>1. B \in SUBSET SUBSET S
    OBVIOUS
  <2> HIDE DEF B
  <2> QED
    BY <1>1, <2>1, MinimalSet
<1>3. s \subseteq S /\ s # {} /\ ~Has(s)
  BY <1>2
<1>4. PICK a \in s : TRUE
  BY <1>3
<1>5. CASE s = {a}
  BY <1>3, <1>5
<1>6. CASE s # {a}
  <2> DEFINE r == s \ {a}
  <2>1. r \subseteq s /\ r # s /\ r # {} /\ r \subseteq S
    BY <1>3, <1>4, <1>6
  <2>2. Has(r)
    BY <1>2, <2>1
  <2>3. PICK x \in r, z \in r : \A y \in r : w[x] >= w[y] /\ w[z] <= w[y]
    BY <2>2
  <2>4. w[x] \in Nat /\ w[z] \in Nat /\ w[a] \in Nat /\ \A y \in s : y = a \/ y \in r
    BY <1>3, <2>1
  <2>5. \E m \in s : \A y \in s : w[m] >= w[y]
    BY <2>1, <2>3, <2>4, <1>3
  <2>6. \E m \in s : \A y \in s : w[m] <= w[y]
    BY <2>1, <2>3, <2>4, <1>3
  <2> QED
    BY <1>3, <2>5, <2>6
<1> QED
  BY <1>5, <1>6

(* What Max computes, *)
LEMMA MaxIs ==
    ASSUME NEW S \in SUBSET Nat, IsFiniteSet(S), S # {}
    PROVE  Max(S) \in S /\ \A x \in S : Max(S) >= x
<1> DEFINE w == [x \in S |-> x]
<1>1. \E x \in S : \A y \in S : w[x] >= w[y]
  <2>1. \A x \in S : w[x] \in Nat
    OBVIOUS
  <2> HIDE DEF w
  <2> QED
    BY <2>1, Extremes
<1>2. \E x \in S : \A y \in S : x >= y
  BY <1>1
<1> QED
  BY <1>2 DEF Max

(* and Min of two. *)
LEMMA MinOfTwo ==
    ASSUME NEW m \in Nat, NEW n \in Nat
    PROVE  Min({m, n}) = IF m <= n THEN m ELSE n
BY DEF Min

(* Induction over the natural numbers, by the least counterexample *)
LEMMA Least ==
    ASSUME NEW S \in SUBSET Nat, S # {}
    PROVE  \E m \in S : \A n \in S : m <= n
<1>1. PICK k \in S : TRUE
  OBVIOUS
<1>2. PICK T : T = {n \in S : n <= k}
  OBVIOUS
<1>3. IsFiniteSet(T)
  <2>1. IsFiniteSet(0 .. k)
    BY FS_Interval
  <2>2. \A n \in T : n \in Nat /\ n <= k
    BY <1>2
  <2>3. k \in Nat /\ T \subseteq 0 .. k
    BY <2>2
  <2> QED
    BY <2>1, <2>3, FS_Subset
<1>4. PICK w : w = [n \in T |-> n]
  OBVIOUS
<1>5. T # {} /\ \A n \in T : w[n] \in Nat
  BY <1>1, <1>2, <1>4
<1>6. PICK m \in T : \A n \in T : w[m] <= w[n]
  BY <1>3, <1>5, Extremes
<1> QED
  BY <1>2, <1>4, <1>6

-----------------------------------------------------------------------------
(* Functions defined by recursion *)

(* The argument gets smaller as a recursion goes on by next, until last. *)
Descends(D, m, next, last) ==
    /\ m \in [D -> Nat]
    /\ \A x \in D : x \notin last => next[x] \in D /\ m[next[x]] < m[x]

(* What is false of some argument is false of one it is not passed on by. *)
LEMMA Descent ==
    ASSUME NEW D, NEW m, NEW next, NEW last, Descends(D, m, next, last),
           NEW B \in SUBSET D, B # {}
    PROVE  \E y \in B : y \notin last => next[y] \in D /\ next[y] \notin B
<1> DEFINE M == {m[y] : y \in B}
<1>1. M \in SUBSET Nat /\ M # {}
  BY DEF Descends
<1>2. PICK k \in M : \A j \in M : k <= j
  <2> HIDE DEF M
  <2> QED
    BY <1>1, Least
<1>3. PICK y \in B : m[y] = k
  OBVIOUS
<1>4. ASSUME y \notin last PROVE next[y] \in D /\ next[y] \notin B
  <2>1. next[y] \in D /\ m[next[y]] < m[y]
    BY <1>4 DEF Descends
  <2>2. m[next[y]] \in Nat /\ m[y] \in Nat /\ (next[y] \in B => m[next[y]] \in M)
    BY <2>1 DEF Descends
  <2> HIDE DEF M
  <2> QED
    BY <1>2, <1>3, <2>1, <2>2
<1> QED
  BY <1>4

(* What a recursion carries on from the last argument holds of all. *)
Carries(D, V, next, last, g) ==
    \A x \in D : /\ x \in last => g[x] \in V
                 /\ x \notin last /\ g[next[x]] \in V => g[x] \in V

(* So what is computed stays in V. *)
LEMMA RangeByRecursion ==
    ASSUME NEW D, NEW V, NEW m, NEW next, NEW last, NEW g,
           Descends(D, m, next, last), Carries(D, V, next, last, g)
    PROVE  \A x \in D : g[x] \in V
<1> DEFINE B == {x \in D : g[x] \notin V}
<1>1. SUFFICES ASSUME B # {} PROVE FALSE
  OBVIOUS
<1>2. PICK y \in B : y \notin last => next[y] \in D /\ next[y] \notin B
  <2> HIDE DEF B
  <2>1. B \in SUBSET D
    BY DEF B
  <2> QED
    BY <1>1, <2>1, Descent
<1> QED
  BY <1>2 DEF Carries

(* A function defined by recursion on one smaller argument, *)
Obeys(g, next, last, base, comb) ==
    \A x \in DOMAIN g : g[x] = IF x \in last THEN base[x] ELSE comb[x][g[next[x]]]

(* and one on some of the arguments and all they are passed on to. *)
Partial(V, next, last, base, comb, g) ==
    /\ g \in [DOMAIN g -> V]
    /\ \A x \in DOMAIN g : x \notin last => next[x] \in DOMAIN g
    /\ Obeys(g, next, last, base, comb)

(* Two of them agree where both are defined. *)
LEMMA PartialsAgree ==
    ASSUME NEW D, NEW V, NEW m, NEW next, NEW last, NEW base, NEW comb, Descends(D, m, next, last),
           NEW g, NEW h,
           Partial(V, next, last, base, comb, g), Partial(V, next, last, base, comb, h),
           NEW x \in D, x \in DOMAIN g, x \in DOMAIN h
    PROVE  g[x] = h[x]
<1> DEFINE B == {y \in D : y \in DOMAIN g /\ y \in DOMAIN h /\ g[y] # h[y]}
<1>1. SUFFICES ASSUME B # {} PROVE FALSE
  OBVIOUS
<1>2. PICK y \in B : y \notin last => next[y] \in D /\ next[y] \notin B
  <2> HIDE DEF B
  <2>1. B \in SUBSET D
    BY DEF B
  <2> QED
    BY <1>1, <2>1, Descent
<1>3. CASE y \in last
  BY <1>2, <1>3 DEF Partial, Obeys
<1>4. CASE y \notin last
  <2>1. next[y] \in D /\ next[y] \in DOMAIN g /\ next[y] \in DOMAIN h
    BY <1>2, <1>4 DEF Partial
  <2>2. g[next[y]] # h[next[y]]
    BY <1>2, <1>4 DEF Partial, Obeys
  <2> QED
    BY <1>2, <1>4, <2>1, <2>2
<1> QED
  BY <1>3, <1>4

(* The values stay within V. *)
StaysIn(D, V, base, comb) ==
    /\ \A x \in D : base[x] \in V
    /\ \A x \in D, v \in V : comb[x][v] \in V

(* There is one for every argument, *)
LEMMA PartialAt ==
    ASSUME NEW D, NEW V, NEW m, NEW next, NEW last, NEW base, NEW comb,
           Descends(D, m, next, last), StaysIn(D, V, base, comb), NEW x \in D
    PROVE  \E g : Partial(V, next, last, base, comb, g) /\ x \in DOMAIN g
<1> DEFINE Has(y) == \E g : Partial(V, next, last, base, comb, g) /\ y \in DOMAIN g
           B == {y \in D : ~ Has(y)}
<1>1. SUFFICES ASSUME B # {} PROVE FALSE
  OBVIOUS
<1>2. PICK y \in B : y \notin last => next[y] \in D /\ next[y] \notin B
  <2> HIDE DEF B
  <2>1. B \in SUBSET D
    BY DEF B
  <2> QED
    BY <1>1, <2>1, Descent
<1>3. CASE y \in last
  <2> DEFINE g == [z \in {y} |-> base[y]]
  <2>1. Partial(V, next, last, base, comb, g)
    BY <1>3 DEF Partial, Obeys, StaysIn
  <2> QED
    BY <2>1
<1>4. CASE y \notin last
  <2>1. Has(next[y])
    BY <1>2, <1>4
  <2>2. PICK g : Partial(V, next, last, base, comb, g) /\ next[y] \in DOMAIN g
    BY <2>1
  <2> DEFINE h == [z \in DOMAIN g \cup {y} |-> IF z \in DOMAIN g THEN g[z] ELSE comb[y][g[next[y]]]]
  <2>3. y \notin DOMAIN g
    BY <2>2
  <2>4. g[next[y]] \in V
    BY <2>2 DEF Partial
  <2>5. h \in [DOMAIN h -> V]
    BY <2>2, <2>4 DEF Partial, StaysIn
  <2>6. \A z \in DOMAIN h : z \notin last => next[z] \in DOMAIN h
    BY <2>2 DEF Partial
  <2>7. Obeys(h, next, last, base, comb)
    <3> SUFFICES ASSUME NEW z \in DOMAIN h
                 PROVE  h[z] = IF z \in last THEN base[z] ELSE comb[z][h[next[z]]]
      BY DEF Obeys
    <3>1. CASE z = y
      BY <1>4, <2>2, <2>3, <3>1
    <3>2. CASE z \in DOMAIN g
      BY <2>2, <3>2 DEF Partial, Obeys
    <3> QED
      BY <3>1, <3>2
  <2>8. Partial(V, next, last, base, comb, h) /\ y \in DOMAIN h
    BY <2>5, <2>6, <2>7 DEF Partial
  <2> QED
    BY <2>8
<1> QED
  BY <1>3, <1>4

(* and all of them are one function: what is so defined is. *)
LEMMA MeasuredRecursion ==
    ASSUME NEW D, NEW V, NEW m, NEW next, NEW last, NEW base, NEW comb,
           Descends(D, m, next, last), StaysIn(D, V, base, comb)
    PROVE  \E f \in [D -> V] : Obeys(f, next, last, base, comb)
<1> DEFINE G(x) == CHOOSE g : Partial(V, next, last, base, comb, g) /\ x \in DOMAIN g
           f == [x \in D |-> G(x)[x]]
<1>1. ASSUME NEW x \in D PROVE Partial(V, next, last, base, comb, G(x)) /\ x \in DOMAIN G(x)
  <2>1. \E g : Partial(V, next, last, base, comb, g) /\ x \in DOMAIN g
    BY PartialAt
  <2> QED
    BY <2>1, Zenon
<1> HIDE DEF G
<1>2. f \in [D -> V]
  BY <1>1 DEF Partial
<1>3. ASSUME NEW x \in D
      PROVE  f[x] = IF x \in last THEN base[x] ELSE comb[x][f[next[x]]]
  <2>1. CASE x \in last
    BY <1>1, <2>1 DEF Partial, Obeys
  <2>2. CASE x \notin last
    <3>1. next[x] \in D
      BY <2>2 DEF Descends
    <3>2. next[x] \in DOMAIN G(x) /\ next[x] \in DOMAIN G(next[x])
      BY <1>1, <2>2, <3>1 DEF Partial
    <3>3. G(x)[next[x]] = G(next[x])[next[x]]
      BY <1>1, <3>1, <3>2, PartialsAgree
    <3>4. G(x)[x] = comb[x][G(x)[next[x]]]
      BY <1>1, <2>2 DEF Partial, Obeys
    <3> QED
      BY <2>2, <3>1, <3>3, <3>4
  <2> QED
    BY <2>1, <2>2
<1>4. Obeys(f, next, last, base, comb)
  <2> HIDE DEF f
  <2> QED
    BY <1>2, <1>3 DEF Obeys
<1> QED
  BY <1>2, <1>4

-----------------------------------------------------------------------------
(* Sequences one behind the other *)

(* The order in which three are put together does not matter. *)
Associates(a, b, c) == (a \o b) \o c = a \o (b \o c)

(* It never does. *)
LEMMA Associative ==
    ASSUME NEW S, NEW a \in Seq(S), NEW b \in Seq(S), NEW c \in Seq(S)
    PROVE  Associates(a, b, c)
BY ConcatAssociative DEF Associates

(* Sequences written one by one. *)
InRow(S, a, b, c, d, e, f) ==
    /\ ((a \o b) \o (c \o d)) \o e \in Seq(S)
    /\ (((a \o b) \o (c \o d)) \o e) \o f = a \o (b \o (c \o (d \o (e \o f))))

(* Put together in whatever order, they follow one another. *)
LEMMA InARow ==
    ASSUME NEW S, NEW a \in Seq(S), NEW b \in Seq(S), NEW c \in Seq(S), NEW d \in Seq(S),
           NEW e \in Seq(S), NEW f \in Seq(S)
    PROVE  InRow(S, a, b, c, d, e, f)
<1>1. PICK ab : ab = a \o b
  OBVIOUS
<1>2. PICK cd : cd = c \o d
  OBVIOUS
<1>3. PICK ef : ef = e \o f
  OBVIOUS
<1>4. PICK def : def = d \o ef
  OBVIOUS
<1>5. PICK cdef : cdef = c \o def
  OBVIOUS
<1>6. PICK abcd : abcd = ab \o cd
  OBVIOUS
<1>7. ab \in Seq(S)
  BY <1>1, ConcatProperties
<1>8. cd \in Seq(S)
  BY <1>2, ConcatProperties
<1>9. ef \in Seq(S)
  BY <1>3, ConcatProperties
<1>10. abcd \in Seq(S)
  BY <1>6, <1>7, <1>8, ConcatProperties
<1>11. def \in Seq(S)
  BY <1>4, <1>9, ConcatProperties
<1>12. cdef \in Seq(S)
  BY <1>5, <1>11, ConcatProperties
<1>13. Associates(abcd, e, f)
  BY <1>10, Associative, Zenon
<1>14. Associates(ab, cd, ef)
  BY <1>7, <1>8, <1>9, Associative, Zenon
<1>15. Associates(c, d, ef)
  BY <1>9, Associative, Zenon
<1>16. Associates(a, b, cdef)
  BY <1>12, Associative, Zenon
<1>17. abcd \o e \in Seq(S)
  BY <1>10, ConcatProperties
<1>18. (abcd \o e) \o f = ab \o cdef
  BY <1>2, <1>3, <1>4, <1>5, <1>6, <1>13, <1>14, <1>15 DEF Associates
<1> QED
  BY <1>1, <1>2, <1>3, <1>4, <1>5, <1>6, <1>16, <1>17, <1>18 DEF Associates, InRow
=============================================================================
