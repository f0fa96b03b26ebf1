--------------------------- MODULE BitVotesProofs ---------------------------
(***************************************************************************)
(* Proofs about BitVotes, for all weights, fees, votes and bounds on the   *)
(* number of operations: what is chosen has a majority, its value is the   *)
(* one reported, and what is reported as optimal is.                       *)
(***************************************************************************)
EXTENDS BitVotes, FunctionTheorems, FiniteSetTheorems, WellFoundedInduction, TLAPS

-----------------------------------------------------------------------------
(* Least elements, in place of inductions.                                 *)

\* A set of numbers has a least one.
LEMMA LeastNumber ==
    ASSUME NEW T \in SUBSET Nat, T # {}
    PROVE  \E x \in T : \A y \in T : x <= y
<1>1. PICK x \in T : \A y \in T : ~(<<y, x>> \in OpToRel(<, Nat))
  BY WFMin, NatLessThanWellFounded
<1>2. \A y \in T : ~(y < x)
  BY <1>1 DEF OpToRel
<1> QED
  BY <1>2

\* A set of subsets of a finite set has one without a smaller one.
LEMMA LeastSubset ==
    ASSUME NEW D, IsFiniteSet(D), NEW F \in SUBSET (SUBSET D), F # {}
    PROVE  \E S \in F : \A U \in SUBSET S : U \in F => U = S
<1>1. FiniteSubsetsOf(D) = SUBSET D
  BY FS_FiniteSubsetsOfFinite
<1>2. PICK S \in F : \A U \in F : ~(<<U, S>> \in StrictSubsetOrdering(D))
  BY <1>1, WFMin, FS_StrictSubsetOrderingWellFounded
<1> QED
  BY <1>2 DEF StrictSubsetOrdering

-----------------------------------------------------------------------------
(* Sums.  The fold that defines them picks the elements one by one.        *)

Pick(s) == CHOOSE x \in s : TRUE

IsFold(g, f, S) ==
    g = [s \in SUBSET S |-> IF s = {} THEN 0
                            ELSE f[Pick(s)] + g[s \ {Pick(s)}]]

\* SumOver is the value of such a fold.
LEMMA SumFold ==
    ASSUME NEW f, NEW S
    PROVE  SumOver(f, S) = (CHOOSE g : IsFold(g, f, S))[S]
BY DEF SumOver, MapThenSumSet, MapThenFoldSet, IsFold, Pick

\* Picking takes an element.
LEMMA PickIn == ASSUME NEW s, s # {} PROVE Pick(s) \in s
BY DEF Pick

\* Two folds agree where both are defined, even of two functions that agree.
LEMMA FoldsAgree ==
    ASSUME NEW D, IsFiniteSet(D), NEW u \in SUBSET D, NEW w \in SUBSET u,
           NEW e, NEW f, \A x \in w : e[x] = f[x],
           NEW g, NEW h, IsFold(g, e, u), IsFold(h, f, w)
    PROVE  g[w] = h[w]
<1> DEFINE F == {t \in SUBSET D : t \subseteq w /\ g[t] # h[t]}
<1> SUFFICES ASSUME g[w] # h[w] PROVE FALSE
  OBVIOUS
<1>0. w \in F
  OBVIOUS
<1>1. PICK t \in F : \A x \in SUBSET t : x \in F => x = t
  <2>1. F # {} /\ F \in SUBSET (SUBSET D)
    BY <1>0
  <2> HIDE DEF F
  <2> QED
    BY <2>1, LeastSubset
<1> DEFINE p == Pick(t)
<1>2. /\ g[t] = IF t = {} THEN 0 ELSE e[p] + g[t \ {p}]
      /\ h[t] = IF t = {} THEN 0 ELSE f[p] + h[t \ {p}]
  <2>1. t \in SUBSET u /\ t \in SUBSET w
    OBVIOUS
  <2> QED
    BY <2>1 DEF IsFold
<1>3. CASE t = {}
  BY <1>2, <1>3
<1>4. CASE t # {}
  <2>1. p \in t
    BY <1>4, PickIn
  <2>2. t \ {p} \notin F
    BY <1>1, <2>1
  <2>3. g[t \ {p}] = h[t \ {p}]
    BY <2>2
  <2>4. e[p] = f[p]
    BY <2>1
  <2> QED
    BY <1>2, <1>4, <2>3, <2>4
<1> QED
  BY <1>3, <1>4

\* There is a fold over every finite set.
LEMMA FoldExists ==
    ASSUME NEW D, IsFiniteSet(D), NEW S \in SUBSET D, NEW f
    PROVE  \E g : IsFold(g, f, S)
<1> DEFINE F == {t \in SUBSET D : ~\E g : IsFold(g, f, t)}
<1> SUFFICES ASSUME F # {} PROVE FALSE
  OBVIOUS
<1>1. PICK t \in F : \A x \in SUBSET t : x \in F => x = t
  <2>1. F \in SUBSET (SUBSET D)
    OBVIOUS
  <2> HIDE DEF F
  <2> QED
    BY <2>1, LeastSubset
<1>2. ASSUME NEW x \in SUBSET t, x # t
      PROVE  \E g : IsFold(g, f, x) /\ SumOver(f, x) = g[x]
  <2>1. \E g : IsFold(g, f, x)
    BY <1>1, <1>2
  <2> QED
    BY <2>1, SumFold
<1> DEFINE G == [s \in SUBSET t |-> IF s = {} THEN 0
                                   ELSE f[Pick(s)] + SumOver(f, s \ {Pick(s)})]
<1>3. ASSUME NEW s \in SUBSET t, s # {}
      PROVE  G[s \ {Pick(s)}] = SumOver(f, s \ {Pick(s)})
  <2> DEFINE u == s \ {Pick(s)}
             v == u \ {Pick(u)}
  <2>1. Pick(s) \in s
    BY <1>3, PickIn
  <2>2. u \in SUBSET t /\ u # t
    BY <2>1
  <2>3. PICK g : IsFold(g, f, u) /\ SumOver(f, u) = g[u]
    BY <1>2, <2>2
  <2>4. g[u] = IF u = {} THEN 0 ELSE f[Pick(u)] + g[v]
    <3>1. u \in SUBSET u
      OBVIOUS
    <3> QED
      BY <2>3, <3>1 DEF IsFold
  <2>5. v \in SUBSET t /\ v # t
    BY <2>2
  <2>6. PICK h : IsFold(h, f, v) /\ SumOver(f, v) = h[v]
    BY <1>2, <2>5
  <2>7. g[v] = h[v]
    <3>1. u \in SUBSET D /\ v \in SUBSET u
      BY <2>2
    <3> HIDE DEF u, v
    <3> QED
      BY <2>3, <2>6, <3>1, FoldsAgree
  <2>8. G[u] = IF u = {} THEN 0 ELSE f[Pick(u)] + SumOver(f, v)
    BY <2>2
  <2> QED
    BY <2>3, <2>4, <2>6, <2>7, <2>8
<1>4. IsFold(G, f, t)
  BY <1>3 DEF IsFold
<1> QED
  BY <1>4

\* The sum, one picked element after the other.
LEMMA SumStep ==
    ASSUME NEW D, IsFiniteSet(D), NEW S \in SUBSET D, NEW f
    PROVE  SumOver(f, S) = IF S = {} THEN 0
                           ELSE f[Pick(S)] + SumOver(f, S \ {Pick(S)})
<1> DEFINE u == S \ {Pick(S)}
<1>1. PICK g : IsFold(g, f, S) /\ SumOver(f, S) = g[S]
  BY FoldExists, SumFold
<1>2. g[S] = IF S = {} THEN 0 ELSE f[Pick(S)] + g[u]
  <2>1. S \in SUBSET S
    OBVIOUS
  <2> QED
    BY <1>1, <2>1 DEF IsFold
<1>3. u \in SUBSET D /\ u \in SUBSET S
  OBVIOUS
<1> HIDE DEF u
<1>4. PICK h : IsFold(h, f, u) /\ SumOver(f, u) = h[u]
  BY <1>3, FoldExists, SumFold
<1>5. g[u] = h[u]
  BY <1>1, <1>3, <1>4, FoldsAgree
<1> QED
  BY <1>1, <1>2, <1>4, <1>5 DEF u

\* Functions that agree have the same sum.
LEMMA SumAgree ==
    ASSUME NEW S, IsFiniteSet(S), NEW e, NEW f, \A x \in S : e[x] = f[x]
    PROVE  SumOver(e, S) = SumOver(f, S)
<1>1. S \in SUBSET S
  OBVIOUS
<1>2. PICK g : IsFold(g, e, S) /\ SumOver(e, S) = g[S]
  BY <1>1, FoldExists, SumFold
<1>3. PICK h : IsFold(h, f, S) /\ SumOver(f, S) = h[S]
  BY <1>1, FoldExists, SumFold
<1> QED
  BY <1>1, <1>2, <1>3, FoldsAgree

\* f is a natural number everywhere in the finite set D.
NatOn(f, D) == IsFiniteSet(D) /\ \A x \in D : f[x] \in Nat

\* A sum of naturals is a natural.
LEMMA SumType ==
    ASSUME NEW D, NEW f, NatOn(f, D), NEW S \in SUBSET D
    PROVE  SumOver(f, S) \in Nat
<1> DEFINE F == {t \in SUBSET D : SumOver(f, t) \notin Nat}
<1> SUFFICES ASSUME F # {} PROVE FALSE
  OBVIOUS
<1>1. PICK t \in F : \A x \in SUBSET t : x \in F => x = t
  <2>1. F \in SUBSET (SUBSET D)
    OBVIOUS
  <2> HIDE DEF F
  <2> QED
    BY <2>1, LeastSubset DEF NatOn
<1>2. CASE t = {}
  <2>1. SumOver(f, t) = 0
    BY <1>2, SumStep DEF NatOn
  <2> QED
    BY <2>1
<1>3. CASE t # {}
  <2>1. Pick(t) \in t /\ f[Pick(t)] \in Nat
    BY <1>3, PickIn DEF NatOn
  <2>2. SumOver(f, t \ {Pick(t)}) \in Nat
    BY <1>1, <2>1
  <2>3. SumOver(f, t) = f[Pick(t)] + SumOver(f, t \ {Pick(t)})
    BY <1>3, SumStep DEF NatOn
  <2> QED
    BY <2>1, <2>2, <2>3
<1> QED
  BY <1>2, <1>3

\* The order in which it is summed does not matter.
LEMMA SumRemove ==
    ASSUME NEW D, NEW f, NatOn(f, D), NEW S \in SUBSET D, NEW y \in S
    PROVE  SumOver(f, S) = SumOver(f, S \ {y}) + f[y]
<1> DEFINE F == {t \in SUBSET D : \E l \in t : SumOver(f, t) # SumOver(f, t \ {l}) + f[l]}
<1> SUFFICES ASSUME F # {} PROVE FALSE
  OBVIOUS
<1>1. PICK t \in F : \A x \in SUBSET t : x \in F => x = t
  <2>1. F \in SUBSET (SUBSET D)
    OBVIOUS
  <2> HIDE DEF F
  <2> QED
    BY <2>1, LeastSubset DEF NatOn
<1>2. PICK l \in t : SumOver(f, t) # SumOver(f, t \ {l}) + f[l]
  OBVIOUS
<1>3. PICK p \in t : SumOver(f, t) = f[p] + SumOver(f, t \ {p})
  <2>1. t # {} /\ t \in SUBSET D
    BY <1>2
  <2> QED
    BY <2>1, PickIn, SumStep DEF NatOn
<1>4. ASSUME NEW x \in SUBSET t, x # t, NEW k \in x
      PROVE  SumOver(f, x) = SumOver(f, x \ {k}) + f[k]
  BY <1>1, <1>4
<1>5. /\ f[p] \in Nat /\ f[l] \in Nat
      /\ SumOver(f, t \ {p}) \in Nat /\ SumOver(f, (t \ {p}) \ {l}) \in Nat
  <2>1. t \ {p} \in SUBSET D /\ (t \ {p}) \ {l} \in SUBSET D
    OBVIOUS
  <2> HIDE DEF F
  <2>2. SumOver(f, t \ {p}) \in Nat
    BY <2>1, SumType
  <2>3. SumOver(f, (t \ {p}) \ {l}) \in Nat
    BY <2>1, SumType
  <2> QED
    BY <2>2, <2>3 DEF F, NatOn
<1> HIDE DEF F
<1>6. l # p
  <2> SUFFICES ASSUME l = p PROVE FALSE
    OBVIOUS
  <2>1. SumOver(f, t) = f[l] + SumOver(f, t \ {l}) /\ SumOver(f, t \ {l}) \in Nat
    BY <1>3, <1>5
  <2> QED
    BY <1>2, <1>5, <2>1
<1>7. SumOver(f, t \ {p}) = SumOver(f, (t \ {p}) \ {l}) + f[l]
  BY <1>4, <1>6
<1>8. SumOver(f, t \ {l}) = SumOver(f, (t \ {l}) \ {p}) + f[p]
  BY <1>4, <1>6
<1>9. (t \ {l}) \ {p} = (t \ {p}) \ {l}
  OBVIOUS
<1> DEFINE rest == SumOver(f, (t \ {p}) \ {l})
<1>10. SumOver(f, t) = f[p] + (rest + f[l]) /\ SumOver(f, t \ {l}) = rest + f[p] /\ rest \in Nat
  BY <1>3, <1>5, <1>7, <1>8, <1>9
<1> HIDE DEF rest
<1> QED
  BY <1>2, <1>5, <1>10

\* The empty sum, and the sum over a single element.
LEMMA SumEmpty == ASSUME NEW f PROVE SumOver(f, {}) = 0
<1>1. IsFiniteSet({}) /\ {} \in SUBSET {}
  BY FS_EmptySet
<1> QED
  BY <1>1, SumStep

LEMMA SumSingle ==
    ASSUME NEW x, NEW f, f[x] \in Nat
    PROVE  SumOver(f, {x}) = f[x]
<1>1. IsFiniteSet({x}) /\ {x} \in SUBSET {x} /\ x \in {x} /\ {x} \ {x} = {}
  BY FS_Singleton
<1>2. \A y \in {x} : f[y] \in Nat
  OBVIOUS
<1>3. SumOver(f, {x}) = SumOver(f, {x} \ {x}) + f[x]
  BY <1>1, <1>2, SumRemove DEF NatOn
<1> QED
  BY <1>1, <1>3, SumEmpty

\* Sums over disjoint sets are added.
LEMMA SumUnion ==
    ASSUME NEW D, NEW f, NatOn(f, D), NEW S \in SUBSET D, NEW T \in SUBSET D,
           S \cap T = {}
    PROVE  SumOver(f, S \cup T) = SumOver(f, S) + SumOver(f, T)
<1> DEFINE F == {t \in SUBSET D : /\ t \subseteq T
                                 /\ SumOver(f, S \cup t) # SumOver(f, S) + SumOver(f, t)}
<1> SUFFICES ASSUME T \in F PROVE FALSE
  OBVIOUS
<1>1. PICK t \in F : \A x \in SUBSET t : x \in F => x = t
  <2>1. F # {} /\ F \in SUBSET (SUBSET D)
    OBVIOUS
  <2> HIDE DEF F
  <2> QED
    BY <2>1, LeastSubset DEF NatOn
<1>2. /\ SumOver(f, S) \in Nat
      /\ SumOver(f, S \cup t) # SumOver(f, S) + SumOver(f, t)
      /\ t \in SUBSET D /\ t \subseteq T
  BY SumType
<1>3. t # {}
  <2> SUFFICES ASSUME t = {} PROVE FALSE
    OBVIOUS
  <2>1. S \cup t = S /\ SumOver(f, t) = 0
    BY SumEmpty
  <2> QED
    BY <1>2, <2>1
<1>4. PICK y \in t : TRUE
  BY <1>3
<1> DEFINE u == t \ {y}
<1>5. SumOver(f, S \cup u) = SumOver(f, S) + SumOver(f, u)
  <2>1. u \notin F
    BY <1>1, <1>4
  <2> QED
    BY <2>1
<1>6. SumOver(f, t) = SumOver(f, u) + f[y]
  <2>1. t \in SUBSET D /\ y \in t
    BY <1>2, <1>4
  <2> HIDE DEF F, u
  <2>2. SumOver(f, t) = SumOver(f, t \ {y}) + f[y]
    BY <2>1, SumRemove
  <2> QED
    BY <2>2 DEF u
<1>7. SumOver(f, S \cup t) = SumOver(f, S \cup u) + f[y]
  <2>1. y \in S \cup t /\ S \cup t \in SUBSET D /\ (S \cup t) \ {y} = S \cup u
    BY <1>2, <1>4
  <2> HIDE DEF u, F
  <2>2. SumOver(f, S \cup t) = SumOver(f, (S \cup t) \ {y}) + f[y]
    BY <2>1, SumRemove
  <2> QED
    BY <2>1, <2>2
<1>8. SumOver(f, u) \in Nat /\ f[y] \in Nat
  <2>1. u \in SUBSET D
    BY <1>2
  <2> HIDE DEF u
  <2> QED
    BY <1>2, <1>4, <2>1, SumType DEF NatOn
<1> HIDE DEF F, u
<1> QED
  BY <1>2, <1>5, <1>6, <1>7, <1>8

\* A part of a sum, and the rest.
LEMMA SumDiff ==
    ASSUME NEW D, NEW f, NatOn(f, D), NEW S \in SUBSET D, NEW T \in SUBSET S
    PROVE  /\ SumOver(f, S) = SumOver(f, T) + SumOver(f, S \ T)
           /\ SumOver(f, T) \in Nat /\ SumOver(f, S \ T) \in Nat /\ SumOver(f, S) \in Nat
           /\ SumOver(f, T) <= SumOver(f, S)
<1>1. T \in SUBSET D /\ S \ T \in SUBSET D /\ T \cap (S \ T) = {} /\ T \cup (S \ T) = S
  OBVIOUS
<1>2. SumOver(f, T \cup (S \ T)) = SumOver(f, T) + SumOver(f, S \ T)
  BY <1>1, SumUnion
<1>3. SumOver(f, T) \in Nat
  BY <1>1, SumType
<1>4. SumOver(f, S \ T) \in Nat
  BY <1>1, SumType
<1> QED
  BY <1>1, <1>2, <1>3, <1>4

\* Summing over classes: h holds the sum of f over each class.
LEMMA SumClasses ==
    ASSUME NEW D, NEW f, NatOn(f, D),
           NEW K, IsFiniteSet(K), NEW P \in [K -> SUBSET D],
           \A k, l \in K : k # l => P[k] \cap P[l] = {},
           NEW h, \A k \in K : h[k] = SumOver(f, P[k]),
           NEW T \in SUBSET K
    PROVE  SumOver(h, T) = SumOver(f, UNION {P[k] : k \in T})
<1> DEFINE All(t) == UNION {P[k] : k \in t}
           F == {t \in SUBSET K : SumOver(h, t) # SumOver(f, All(t))}
<1> SUFFICES ASSUME T \in F PROVE FALSE
  OBVIOUS
<1>1. PICK t \in F : \A x \in SUBSET t : x \in F => x = t
  <2>1. F # {} /\ F \in SUBSET (SUBSET K)
    OBVIOUS
  <2> HIDE DEF F
  <2> QED
    BY <2>1, LeastSubset DEF NatOn
<1>2. \A k \in K : h[k] \in Nat
  BY SumType
<1>3. t # {}
  <2> SUFFICES ASSUME t = {} PROVE FALSE
    OBVIOUS
  <2>1. All(t) = {} /\ SumOver(h, t) = 0
    BY SumEmpty
  <2> QED
    BY <2>1, SumEmpty
<1>4. PICK y \in t : TRUE
  BY <1>3
<1> DEFINE u == t \ {y}
<1>5. SumOver(h, u) = SumOver(f, All(u))
  <2>1. u \notin F /\ u \in SUBSET K
    BY <1>1, <1>4
  <2> QED
    BY <2>1
<1>6. SumOver(h, t) = SumOver(h, u) + h[y]
  <2>1. t \in SUBSET K /\ y \in t
    BY <1>4
  <2> HIDE DEF F, u
  <2>2. SumOver(h, t) = SumOver(h, t \ {y}) + h[y]
    BY <1>2, <2>1, SumRemove DEF NatOn
  <2> QED
    BY <2>2 DEF u
<1>7. SumOver(f, All(t)) = SumOver(f, All(u)) + SumOver(f, P[y])
  <2>1. All(t) = All(u) \cup P[y]
    BY <1>4
  <2>2. All(u) \in SUBSET D /\ P[y] \in SUBSET D
    BY <1>4
  <2>3. All(u) \cap P[y] = {}
    BY <1>4
  <2> HIDE DEF All, F, u
  <2> QED
    BY <2>1, <2>2, <2>3, SumUnion
<1>8. h[y] = SumOver(f, P[y])
  BY <1>4
<1>9. SumOver(h, t) # SumOver(f, All(t))
  OBVIOUS
<1> HIDE DEF F, u, All
<1> QED
  BY <1>5, <1>6, <1>7, <1>8, <1>9

\* Summing over the places of a sequence without repetition.
LEMMA SumPlaces ==
    ASSUME NEW D, NEW f, NatOn(f, D),
           NEW I, IsFiniteSet(I), NEW q \in [I -> D], \A i, j \in I : q[i] = q[j] => i = j,
           NEW h, \A i \in I : h[i] = f[q[i]], NEW T \in SUBSET I
    PROVE  SumOver(h, T) = SumOver(f, {q[i] : i \in T})
<1> DEFINE P == [i \in I |-> {q[i]}]
<1>1. P \in [I -> SUBSET D]
  OBVIOUS
<1>2. \A k, l \in I : k # l => P[k] \cap P[l] = {}
  OBVIOUS
<1>3. \A k \in I : h[k] = SumOver(f, P[k])
  <2> TAKE k \in I
  <2>1. P[k] = {q[k]} /\ f[q[k]] \in Nat
    BY DEF NatOn
  <2> HIDE DEF P
  <2> QED
    BY <2>1, SumSingle
<1>4. UNION {P[k] : k \in T} = {q[i] : i \in T}
  <2>1. ASSUME NEW x \in UNION {P[k] : k \in T} PROVE x \in {q[i] : i \in T}
    <3>1. PICK k \in T : x \in P[k]
      BY <2>1
    <3> QED
      BY <3>1
  <2>2. ASSUME NEW i \in T PROVE q[i] \in UNION {P[k] : k \in T}
    <3>1. q[i] \in P[i]
      OBVIOUS
    <3> HIDE DEF P
    <3> QED
      BY <3>1
  <2> QED
    BY <2>1, <2>2
<1> HIDE DEF P
<1>5. SumOver(h, T) = SumOver(f, UNION {P[k] : k \in T})
  BY <1>1, <1>2, <1>3, SumClasses
<1> QED
  BY <1>4, <1>5

-----------------------------------------------------------------------------
(* Values.                                                                 *)

Values == Int \X Int

\* Values are ordered.
LEMMA ValuesOrdered ==
    ASSUME NEW u \in Values, NEW v \in Values, NEW w \in Values
    PROVE  /\ ~Greater(u, u)
           /\ Greater(u, v) /\ ~Greater(w, v) => Greater(u, w)
           /\ ~Greater(u, v) /\ ~Greater(v, w) => ~Greater(u, w)
           /\ Greater(u, v) => ~Greater(v, u)
           /\ ~Greater(u, v) /\ Greater(w, v) => Greater(w, u)
           /\ ~Greater(u, v) /\ ~Greater(v, u) => u = v
BY DEF Greater, Values

\* Products grow with their factors.
LEMMA ProductGrows ==
    ASSUME NEW a \in Nat, NEW b \in Nat, a <= b, NEW c \in Nat, NEW d \in Nat, c <= d
    PROVE  a * c <= b * d
<1>1. PICK k \in Nat : b = a + k
  <2>1. b - a \in Nat /\ b = a + (b - a)
    OBVIOUS
  <2> QED
    BY <2>1
<1>2. PICK l \in Nat : d = c + l
  <2>1. d - c \in Nat /\ d = c + (d - c)
    OBVIOUS
  <2> QED
    BY <2>1
<1>3. (a + k) * (c + l) = a * c + a * l + k * c + k * l
  OBVIOUS
<1>4. a * l \in Nat /\ k * c \in Nat /\ k * l \in Nat /\ a * c \in Nat
  OBVIOUS
<1>5. b * d = a * c + a * l + k * c + k * l
  BY <1>1, <1>2, <1>3
<1> QED
  BY <1>4, <1>5

\* A value is a pair of numbers.
LEMMA CalcType ==
    ASSUME NEW f \in Int, NEW w \in Int, NEW t \in Nat
    PROVE  CalcValue(f, w, t) \in Values
<1>1. (4 * t + 4) \div 5 \in Int
  OBVIOUS
<1> DEFINE cap == (4 * t + 4) \div 5
           m == IF w < cap THEN w ELSE cap
<1>2. m \in Int
  BY <1>1
<1>3. CalcValue(f, w, t) = <<f * m, f * w>>
  BY DEF CalcValue
<1> HIDE DEF m
<1>4. f * m \in Int /\ f * w \in Int
  BY <1>2
<1> QED
  BY <1>3, <1>4 DEF Values

\* More fees and more weight are worth more.
LEMMA CalcGrows ==
    ASSUME NEW f \in Nat, NEW g \in Nat, f <= g, NEW v \in Nat, NEW w \in Nat, v <= w,
           NEW t \in Nat
    PROVE  ~Greater(CalcValue(f, v, t), CalcValue(g, w, t))
<1> DEFINE cap == (4 * t + 4) \div 5
           m(x) == IF x < cap THEN x ELSE cap
<1>1. cap \in Nat
  OBVIOUS
<1>2. m(v) \in Nat /\ m(w) \in Nat /\ m(v) <= m(w)
  BY <1>1
<1>3. /\ CalcValue(f, v, t) = <<f * m(v), f * v>>
      /\ CalcValue(g, w, t) = <<g * m(w), g * w>>
  BY DEF CalcValue
<1> HIDE DEF m
<1>4. f * m(v) <= g * m(w)
  BY <1>2, ProductGrows
<1>5. f * v <= g * w
  BY ProductGrows
<1>6. f * m(v) \in Int /\ g * m(w) \in Int /\ f * v \in Int /\ g * w \in Int
  BY <1>2
<1> DEFINE p == f * m(v)
           q == g * m(w)
           r == f * v
           s == g * w
<1> HIDE DEF p, q, r, s
<1>7. ~Greater(<<p, r>>, <<q, s>>)
  BY <1>4, <1>5, <1>6 DEF Greater, p, q, r, s
<1> QED
  BY <1>3, <1>7 DEF p, q, r, s

\* Nothing chosen is worth nothing.
LEMMA CalcZero ==
    ASSUME NEW w \in Int, NEW t \in Nat
    PROVE  CalcValue(0, w, t) = <<0, 0>>
<1> DEFINE cap == (4 * t + 4) \div 5
           m == IF w < cap THEN w ELSE cap
<1>1. m \in Int
  OBVIOUS
<1>2. CalcValue(0, w, t) = <<0 * m, 0 * w>>
  BY DEF CalcValue
<1> HIDE DEF m
<1> QED
  BY <1>1, <1>2

-----------------------------------------------------------------------------
(* The searches are recursive functions: they exist, and have a type.      *)

Statuses == [bound : Int \X Int, ops : Nat]

Partials(info) ==
    [votes : SUBSET DOMAIN info.votes, bits : SUBSET DOMAIN info.bits, value : Int \X Int]

Results(info) == [sol : SUBSET Partials(info), st : Statuses]

\* What the searches need of a ProcessInfo.
InfoOK(info) ==
    /\ Len(info.bits) \in Nat /\ DOMAIN info.bits = 1..Len(info.bits)
    /\ Len(info.votes) \in Nat /\ DOMAIN info.votes = 1..Len(info.votes)
    /\ \A i \in DOMAIN info.bits : info.bits[i].fee \in Nat
    /\ \A j \in DOMAIN info.votes : info.votes[j].weight \in Nat
    /\ info.total \in Nat /\ info.maxOps \in Nat \ {0}
    /\ info.excludeFirst \in BOOLEAN

\* The fees and the weights of an info can be summed.
LEMMA InfoSums ==
    ASSUME NEW info, InfoOK(info)
    PROVE  /\ NatOn([i \in DOMAIN info.bits |-> info.bits[i].fee], DOMAIN info.bits)
           /\ NatOn([j \in DOMAIN info.votes |-> info.votes[j].weight], DOMAIN info.votes)
<1>1. IsFiniteSet(DOMAIN info.bits) /\ IsFiniteSet(DOMAIN info.votes)
  <2>1. 1 \in Int /\ Len(info.bits) \in Int /\ Len(info.votes) \in Int
    BY DEF InfoOK
  <2>2. IsFiniteSet(1..Len(info.bits))
    BY <2>1, FS_Interval
  <2>3. IsFiniteSet(1..Len(info.votes))
    BY <2>1, FS_Interval
  <2> QED
    BY <2>2, <2>3 DEF InfoOK
<1> QED
  BY <1>1 DEF InfoOK, NatOn

LEMMA InfoTypes ==
    ASSUME NEW info, InfoOK(info)
    PROVE  /\ \A S \in SUBSET DOMAIN info.bits : FeesOf(info, S) \in Nat
           /\ \A S \in SUBSET DOMAIN info.votes : VotesWeight(info.votes, S) \in Nat
BY InfoSums, SumType DEF FeesOf, VotesWeight

\* What Join returns is typed.
LEMMA JoinBitsType ==
    ASSUME NEW info, NEW r0 \in SUBSET Partials(info), NEW r1 \in SUBSET Partials(info),
           NEW k \in DOMAIN info.bits
    PROVE  Join(r0, r1, "bits", k) \in SUBSET Partials(info)
BY DEF Join, Partials

LEMMA JoinVotesType ==
    ASSUME NEW info, NEW r0 \in SUBSET Partials(info), NEW r1 \in SUBSET Partials(info),
           NEW k \in DOMAIN info.votes
    PROVE  Join(r0, r1, "votes", k) \in SUBSET Partials(info)
BY DEF Join, Partials

\* The search over the bits, one node of it.
BitsStep(info, search, a) ==
    LET st == Tick(a.st, 1)
        first == IF info.excludeFirst THEN search[BitExcluded(info, a, st)]
                 ELSE IfMajority(info, search, BitIncluded(info, a, st))
        second == IF info.excludeFirst
                  THEN IfMajority(info, search, BitIncluded(info, a, first.st))
                  ELSE search[BitExcluded(info, a, first.st)]
        r0 == IF info.excludeFirst THEN first.sol ELSE second.sol
        r1 == IF info.excludeFirst THEN second.sol ELSE first.sol
    IN  IF a.branch > Len(info.bits) THEN Leaf(info, st, a, a.included, {})
        ELSE IF Cut(info, st, a) THEN NoSolution(st)
        ELSE [sol |-> Join(r0, r1, "bits", a.branch), st |-> second.st]

BitsNodes(info) == Nodes(Len(info.bits), DOMAIN info.votes)

LEMMA BitsUnfold ==
    ASSUME NEW info
    PROVE  BranchBits(info) = CHOOSE g : g = [a \in BitsNodes(info) |-> BitsStep(info, g, a)]
BY DEF BranchBits, BitsStep, BitsNodes

\* A step of the clock is a status, and so are the nodes below a node.
LEMMA TickType ==
    ASSUME NEW st \in Statuses, NEW n \in Nat
    PROVE  /\ Tick(st, n) \in Statuses
           /\ Tick(st, n).bound = st.bound /\ Tick(st, n).ops = st.ops + n
BY DEF Tick, Statuses

LEMMA HalfType ==
    ASSUME NEW S, IsFiniteSet(S)
    PROVE  Cardinality(S) \in Nat /\ Cardinality(S) \div 2 \in Nat
<1>1. Cardinality(S) \in Nat
  BY FS_CardinalityType
<1> QED
  BY <1>1

\* The votes of S for the bit i, and the bits of S that the vote j is for.
Voters(info, S, i) == {j \in S : Supports(info, j, i)}
BitsOf(info, S, j) == {i \in S : Supports(info, j, i)}

\* What is lost when R remains of S.
LostWeight(info, S, R) == VotesWeight(info.votes, S \ R)
LostFees(info, S, R) == FeesOf(info, S \ R)

LEMMA BitsBranch ==
    ASSUME NEW info, InfoOK(info), NEW a \in BitsNodes(info)
    PROVE  /\ a.branch \in Nat /\ a.branch >= 1 /\ a.branch <= Len(info.bits) + 1
           /\ Len(info.bits) \in Nat
BY DEF BitsNodes, Nodes, InfoOK

LEMMA BitsChildren ==
    ASSUME NEW info, InfoOK(info), NEW a \in BitsNodes(info), a.branch <= Len(info.bits),
           NEW st \in Statuses
    PROVE  /\ BitExcluded(info, a, st) \in BitsNodes(info)
           /\ BitExcluded(info, a, st).branch = a.branch + 1
           /\ BitExcluded(info, a, st).st \in Statuses
           /\ BitExcluded(info, a, st).st.bound = st.bound
           /\ BitExcluded(info, a, st).st.ops >= st.ops
           /\ BitExcluded(info, a, st).included = a.included
           /\ BitExcluded(info, a, st).weight = a.weight
           /\ BitExcluded(info, a, st).feeSum = a.feeSum - info.bits[a.branch].fee
           /\ BitIncluded(info, a, st) \in BitsNodes(info)
           /\ BitIncluded(info, a, st).branch = a.branch + 1
           /\ BitIncluded(info, a, st).st \in Statuses
           /\ BitIncluded(info, a, st).st.bound = st.bound
           /\ BitIncluded(info, a, st).st.ops >= st.ops
           /\ BitIncluded(info, a, st).included = Voters(info, a.included, a.branch)
           /\ BitIncluded(info, a, st).weight =
                  a.weight - LostWeight(info, a.included, Voters(info, a.included, a.branch))
           /\ BitIncluded(info, a, st).feeSum = a.feeSum
<1> DEFINE yes == Voters(info, a.included, a.branch)
           n == Cardinality(a.included) \div 2
           w == VotesWeight(info.votes, a.included \ yes)
           fee == info.bits[a.branch].fee
<1>0. /\ a.branch \in 1..(Len(info.bits) + 1) /\ a.included \in SUBSET DOMAIN info.votes
      /\ a.weight \in Int /\ a.feeSum \in Int
  BY DEF BitsNodes, Nodes
<1>1. a.branch \in DOMAIN info.bits /\ fee \in Nat
      /\ a.branch + 1 \in 1..(Len(info.bits) + 1)
  BY <1>0 DEF InfoOK
<1>2. n \in Nat
  <2>1. IsFiniteSet(DOMAIN info.votes)
    BY InfoSums DEF NatOn
  <2>2. IsFiniteSet(a.included)
    BY <1>0, <2>1, FS_Subset
  <2> QED
    BY <2>2, HalfType
<1>3. w \in Nat
  <2>1. a.included \ yes \in SUBSET DOMAIN info.votes
    BY <1>0
  <2> QED
    BY <2>1, InfoTypes
<1>4. /\ Tick(st, 1) \in Statuses /\ Tick(st, 1).bound = st.bound /\ Tick(st, 1).ops >= st.ops
      /\ Tick(st, n) \in Statuses /\ Tick(st, n).bound = st.bound /\ Tick(st, n).ops >= st.ops
  <2> HIDE DEF n
  <2>1. st.ops \in Nat /\ 1 \in Nat
    BY DEF Statuses
  <2>2. /\ Tick(st, 1) \in Statuses /\ Tick(st, 1).bound = st.bound
        /\ Tick(st, 1).ops = st.ops + 1
    BY <2>1, TickType
  <2>3. /\ Tick(st, n) \in Statuses /\ Tick(st, n).bound = st.bound
        /\ Tick(st, n).ops = st.ops + n
    BY <1>2, TickType
  <2> QED
    BY <1>2, <2>1, <2>2, <2>3
<1>5. yes \in SUBSET DOMAIN info.votes
  BY <1>0 DEF Voters
<1>6. BitExcluded(info, a, st) = [a EXCEPT !.branch = a.branch + 1, !.st = Tick(st, 1),
                                          !.feeSum = a.feeSum - fee]
  BY DEF BitExcluded
<1>7. BitIncluded(info, a, st) = [a EXCEPT !.branch = a.branch + 1, !.included = yes,
                                          !.st = Tick(st, n), !.weight = a.weight - w]
  BY DEF BitIncluded, Voters
<1> HIDE DEF yes, n, w, fee
<1>8. a.feeSum - fee \in Int /\ a.weight - w \in Int
  BY <1>0, <1>1, <1>3
<1>9. /\ BitExcluded(info, a, st) \in BitsNodes(info)
      /\ BitExcluded(info, a, st).branch = a.branch + 1
      /\ BitExcluded(info, a, st).st = Tick(st, 1)
      /\ BitExcluded(info, a, st).included = a.included
      /\ BitExcluded(info, a, st).weight = a.weight
      /\ BitExcluded(info, a, st).feeSum = a.feeSum - fee
  BY <1>1, <1>4, <1>6, <1>8 DEF BitsNodes, Nodes, Statuses
<1>10. /\ BitIncluded(info, a, st) \in BitsNodes(info)
       /\ BitIncluded(info, a, st).branch = a.branch + 1
       /\ BitIncluded(info, a, st).st = Tick(st, n)
       /\ BitIncluded(info, a, st).included = yes
       /\ BitIncluded(info, a, st).weight = a.weight - w
       /\ BitIncluded(info, a, st).feeSum = a.feeSum
  BY <1>1, <1>4, <1>5, <1>7, <1>8 DEF BitsNodes, Nodes, Statuses
<1> QED
  BY <1>4, <1>9, <1>10 DEF yes, w, fee, LostWeight

\* The result of a node depends on the nodes one level below only.
BitsBelow(info, a) == {c \in BitsNodes(info) : c.branch = a.branch + 1}

LEMMA BitsChildrenBelow ==
    ASSUME NEW info, InfoOK(info), NEW a \in BitsNodes(info), a.branch <= Len(info.bits),
           NEW st \in Statuses
    PROVE  BitExcluded(info, a, st) \in BitsBelow(info, a) /\ BitIncluded(info, a, st) \in BitsBelow(info, a)
<1>1. /\ BitExcluded(info, a, st) \in BitsNodes(info)
      /\ BitExcluded(info, a, st).branch = a.branch + 1
      /\ BitIncluded(info, a, st) \in BitsNodes(info)
      /\ BitIncluded(info, a, st).branch = a.branch + 1
  BY BitsChildren
<1> QED
  BY <1>1 DEF BitsBelow

LEMMA BitsStepType ==
    ASSUME NEW info, InfoOK(info), NEW a \in BitsNodes(info), NEW g, NEW h,
           \A c \in BitsBelow(info, a) : g[c] = h[c] /\ g[c] \in Results(info)
    PROVE  BitsStep(info, g, a) = BitsStep(info, h, a) /\ BitsStep(info, g, a) \in Results(info)
<1> DEFINE st == Tick(a.st, 1)
<1>1. a.st \in Statuses /\ st \in Statuses /\ st.bound = a.st.bound
  <2>1. a.st \in Statuses /\ 1 \in Nat
    BY DEF BitsNodes, Nodes, Statuses
  <2> QED
    BY <2>1, TickType
<1>2. \A t \in Statuses : NoSolution(t) \in Results(info)
  BY DEF NoSolution, Results
<1>3. CASE a.branch > Len(info.bits)
  <2> DEFINE v == CalcValue(a.feeSum, a.weight, info.total)
  <2>1. v \in Int \X Int
    BY CalcType DEF BitsNodes, Nodes, InfoOK, Values
  <2>2. [votes |-> a.included, bits |-> {}, value |-> v] \in Partials(info)
    BY <2>1 DEF Partials, BitsNodes, Nodes
  <2>3. [st EXCEPT !.bound = v] \in Statuses
    BY <1>1, <2>1 DEF Statuses
  <2>4. Leaf(info, st, a, a.included, {}) \in Results(info)
    <3> HIDE DEF v, st
    <3> QED
      BY <1>1, <1>2, <2>2, <2>3 DEF Leaf, Results, v
  <2> QED
    BY <1>3, <2>4 DEF BitsStep
<1>4. CASE ~(a.branch > Len(info.bits)) /\ Cut(info, st, a)
  BY <1>1, <1>2, <1>4 DEF BitsStep
<1>5. CASE ~(a.branch > Len(info.bits)) /\ ~Cut(info, st, a)
  <2>0. a.branch <= Len(info.bits) /\ a.branch \in DOMAIN info.bits
    BY <1>5 DEF BitsNodes, Nodes, InfoOK
  <2> DEFINE zero(f, t) == f[BitExcluded(info, a, t)]
             one(f, t) == IfMajority(info, f, BitIncluded(info, a, t))
  <2>1. \A t \in Statuses : zero(g, t) = zero(h, t) /\ zero(g, t) \in Results(info)
    <3> TAKE t \in Statuses
    <3>1. BitExcluded(info, a, t) \in BitsBelow(info, a)
      BY <2>0, BitsChildrenBelow
    <3> QED
      BY <3>1
  <2>2. \A t \in Statuses : one(g, t) = one(h, t) /\ one(g, t) \in Results(info)
    <3> TAKE t \in Statuses
    <3> DEFINE c == BitIncluded(info, a, t)
    <3>1. c \in BitsBelow(info, a)
      BY <2>0, BitsChildrenBelow
    <3>2. c.st \in Statuses
      BY <3>1 DEF BitsBelow, BitsNodes, Nodes, Statuses
    <3> HIDE DEF c
    <3>3. IfMajority(info, g, c) = IfMajority(info, h, c) /\ IfMajority(info, g, c) \in Results(info)
      BY <1>2, <3>1, <3>2 DEF IfMajority
    <3> QED
      BY <3>3 DEF c
  <2> HIDE DEF zero, one
  <2>3. \A r \in Results(info) : r.sol \in SUBSET Partials(info) /\ r.st \in Statuses
    BY DEF Results
  <2>4. CASE info.excludeFirst
    <3> DEFINE r0 == zero(g, st)
               r1 == one(g, r0.st)
    <3>1. r0 = zero(h, st) /\ r0 \in Results(info)
      BY <1>1, <2>1
    <3>2. r0.st \in Statuses /\ r0.sol \in SUBSET Partials(info)
      BY <2>3, <3>1
    <3>3. r1 = one(h, r0.st) /\ r1.sol \in SUBSET Partials(info) /\ r1.st \in Statuses
      BY <2>2, <2>3, <3>2
    <3>4. /\ BitsStep(info, g, a) = [sol |-> Join(r0.sol, r1.sol, "bits", a.branch), st |-> r1.st]
          /\ BitsStep(info, h, a) = [sol |-> Join(r0.sol, r1.sol, "bits", a.branch), st |-> r1.st]
      BY <1>5, <2>4, <3>1, <3>3 DEF BitsStep, zero, one
    <3>5. Join(r0.sol, r1.sol, "bits", a.branch) \in SUBSET Partials(info)
      BY <2>0, <3>2, <3>3, JoinBitsType
    <3> QED
      BY <3>3, <3>4, <3>5 DEF Results
  <2>5. CASE ~info.excludeFirst
    <3> DEFINE r1 == one(g, st)
               r0 == zero(g, r1.st)
    <3>1. r1 = one(h, st) /\ r1 \in Results(info)
      BY <1>1, <2>2
    <3>2. r1.st \in Statuses /\ r1.sol \in SUBSET Partials(info)
      BY <2>3, <3>1
    <3>3. r0 = zero(h, r1.st) /\ r0.sol \in SUBSET Partials(info) /\ r0.st \in Statuses
      BY <2>1, <2>3, <3>2
    <3>4. /\ BitsStep(info, g, a) = [sol |-> Join(r0.sol, r1.sol, "bits", a.branch), st |-> r0.st]
          /\ BitsStep(info, h, a) = [sol |-> Join(r0.sol, r1.sol, "bits", a.branch), st |-> r0.st]
      BY <1>5, <2>5, <3>1, <3>3 DEF BitsStep, zero, one
    <3>5. Join(r0.sol, r1.sol, "bits", a.branch) \in SUBSET Partials(info)
      BY <2>0, <3>2, <3>3, JoinBitsType
    <3> QED
      BY <3>3, <3>4, <3>5 DEF Results
  <2> QED
    BY <2>4, <2>5
<1> QED
  BY <1>3, <1>4, <1>5

\* The search exists: it can be built from the leaves up.
BitsFrom(info, k) == {a \in BitsNodes(info) : a.branch + k >= Len(info.bits) + 1}

IsBitsSearch(info, g, D) ==
    /\ g = [a \in D |-> BitsStep(info, g, a)]
    /\ g \in [D -> Results(info)]

LEMMA BitsSearchExists ==
    ASSUME NEW info, InfoOK(info)
    PROVE  \E g : IsBitsSearch(info, g, BitsNodes(info))
<1> DEFINE N == Len(info.bits)
           T == {k \in Nat : ~\E g : IsBitsSearch(info, g, BitsFrom(info, k))}
<1>0. N \in Nat
  BY DEF InfoOK
<1>1. BitsFrom(info, N) = BitsNodes(info)
  BY <1>0, BitsBranch DEF BitsFrom
<1> SUFFICES ASSUME T # {} PROVE FALSE
  BY <1>0, <1>1
<1>2. PICK k \in T : \A l \in T : k <= l
  <2>1. T \in SUBSET Nat
    OBVIOUS
  <2> HIDE DEF T
  <2> QED
    BY <2>1, LeastNumber
<1>3. \E f : \A a \in BitsFrom(info, k) : \A c \in BitsBelow(info, a) :
          /\ c \in BitsFrom(info, k)
          /\ f[c] = BitsStep(info, f, c) /\ f[c] \in Results(info)
  <2>1. CASE k = 0
    <3>1. \A a \in BitsFrom(info, 0) : BitsBelow(info, a) = {}
      BY <1>0 DEF BitsFrom, BitsBelow, BitsNodes, Nodes
    <3> QED
      BY <2>1, <3>1
  <2>2. CASE k # 0
    <3>1. k - 1 \in Nat /\ k - 1 \notin T
      BY <1>2, <2>2
    <3>2. PICK f : IsBitsSearch(info, f, BitsFrom(info, k - 1))
      BY <3>1
    <3>3. \A a \in BitsFrom(info, k) : \A c \in BitsBelow(info, a) :
              c \in BitsFrom(info, k - 1) /\ c \in BitsFrom(info, k)
      BY <1>0, <3>1, BitsBranch DEF BitsFrom, BitsBelow
    <3>4. \A c \in BitsFrom(info, k - 1) : f[c] = BitsStep(info, f, c) /\ f[c] \in Results(info)
      BY <3>2 DEF IsBitsSearch
    <3> QED
      BY <3>3, <3>4
  <2> QED
    BY <2>1, <2>2
<1>4. PICK f : \A a \in BitsFrom(info, k) : \A c \in BitsBelow(info, a) :
          /\ c \in BitsFrom(info, k)
          /\ f[c] = BitsStep(info, f, c) /\ f[c] \in Results(info)
  BY <1>3
<1> DEFINE g == [a \in BitsFrom(info, k) |-> BitsStep(info, f, a)]
<1>5. \A a \in BitsFrom(info, k) : \A c \in BitsBelow(info, a) : f[c] = g[c] /\ f[c] \in Results(info)
  BY <1>4
<1>6. \A a \in BitsFrom(info, k) :
          BitsStep(info, f, a) = BitsStep(info, g, a) /\ BitsStep(info, f, a) \in Results(info)
  <2> TAKE a \in BitsFrom(info, k)
  <2>1. a \in BitsNodes(info) /\ \A c \in BitsBelow(info, a) : f[c] = g[c] /\ f[c] \in Results(info)
    BY <1>5 DEF BitsFrom
  <2> HIDE DEF g
  <2> QED
    BY <2>1, BitsStepType
<1>7. IsBitsSearch(info, g, BitsFrom(info, k))
  <2>1. g \in [BitsFrom(info, k) -> Results(info)]
    BY <1>6
  <2>2. g = [a \in BitsFrom(info, k) |-> BitsStep(info, g, a)]
    BY <1>6
  <2> QED
    BY <2>1, <2>2 DEF IsBitsSearch
<1> QED
  BY <1>7

\* What the search returns at a node.
LEMMA BitsSearch ==
    ASSUME NEW info, InfoOK(info), NEW a \in BitsNodes(info)
    PROVE  /\ BranchBits(info)[a] = BitsStep(info, BranchBits(info), a)
           /\ BranchBits(info)[a] \in Results(info)
<1> DEFINE g == BranchBits(info)
           IsSearch(f) == f = [c \in BitsNodes(info) |-> BitsStep(info, f, c)]
<1>1. IsSearch(g)
  <2>1. \E f : IsSearch(f)
    BY BitsSearchExists DEF IsBitsSearch
  <2>2. g = CHOOSE f : IsSearch(f)
    BY BitsUnfold
  <2> HIDE DEF g, IsSearch
  <2> QED
    BY <2>1, <2>2
<1>2. \A c \in BitsNodes(info) : g[c] = BitsStep(info, g, c)
  <2> HIDE DEF g
  <2> QED
    BY <1>1
<1> DEFINE T == {k \in Nat : \E c \in BitsFrom(info, k) : g[c] \notin Results(info)}
<1>3. T = {}
  <2> SUFFICES ASSUME T # {} PROVE FALSE
    OBVIOUS
  <2>1. PICK k \in T : \A l \in T : k <= l
    <3>1. T \in SUBSET Nat
      OBVIOUS
    <3> HIDE DEF T
    <3> QED
      BY <3>1, LeastNumber
  <2>2. PICK c \in BitsFrom(info, k) : g[c] \notin Results(info)
    OBVIOUS
  <2>3. \A d \in BitsBelow(info, c) : g[d] \in Results(info)
    <3> SUFFICES ASSUME NEW d \in BitsBelow(info, c) PROVE g[d] \in Results(info)
      OBVIOUS
    <3>1. k # 0 /\ d \in BitsFrom(info, k - 1)
      BY <2>2, BitsBranch DEF BitsFrom, BitsBelow
    <3>2. k - 1 \in Nat /\ k - 1 \notin T
      BY <2>1, <3>1
    <3> QED
      BY <3>1, <3>2
  <2>4. c \in BitsNodes(info) /\ \A d \in BitsBelow(info, c) : g[d] = g[d] /\ g[d] \in Results(info)
    BY <2>2, <2>3 DEF BitsFrom
  <2> HIDE DEF g, T
  <2>5. BitsStep(info, g, c) \in Results(info)
    BY <2>4, BitsStepType
  <2> QED
    BY <1>2, <2>2, <2>4, <2>5
<1>4. Len(info.bits) \in Nat /\ a \in BitsFrom(info, Len(info.bits))
  BY DEF BitsFrom, BitsNodes, Nodes, InfoOK
<1>5. g[a] \in Results(info)
  BY <1>3, <1>4
<1> QED
  BY <1>2, <1>5

-----------------------------------------------------------------------------
(* What a search has to achieve below a node, for both searches.  A task   *)
(* has the bits or the votes that are free to be chosen, and for every     *)
(* choice what it is worth, the weight behind it and what it leaves of the *)
(* other kind.                                                             *)

IsTask(t) ==
    /\ t.val \in [SUBSET t.free -> Values]
    /\ t.wt \in [SUBSET t.free -> Int]

\* What s has of a kind.
Part(s, kind) == s[kind]

Half(info) == info.total \div 2

\* r is a solution that beats the bound, or none.
Improves(r, bound) ==
    \/ r.sol = {} /\ r.st.bound = bound
    \/ \E s : r.sol = {s} /\ s.value = r.st.bound /\ Greater(s.value, bound)

\* A solution of t.
SolutionFor(info, t, s, kind, other) ==
    /\ Part(s, kind) \in SUBSET t.free
    /\ Part(s, other) = t.rest[Part(s, kind)]
    /\ s.value = t.val[Part(s, kind)]
    /\ t.wt[Part(s, kind)] > Half(info)

\* No choice of t is worth more than the bound.
Exhausted(info, t, bound) ==
    \A X \in SUBSET t.free : t.wt[X] > Half(info) => ~Greater(t.val[X], bound)

Solves(info, t, r, st, kind, other) ==
    /\ r \in Results(info)
    /\ r.st.ops >= st.ops
    /\ Improves(r, st.bound)
    /\ \A s \in r.sol : SolutionFor(info, t, s, kind, other)
    /\ r.st.ops < info.maxOps => Exhausted(info, t, r.st.bound)

Kinds(kind, other) ==
    \/ kind = "bits" /\ other = "votes"
    \/ kind = "votes" /\ other = "bits"

\* t0 is what is left of t without k, and t1 with it.
Splits(t, t0, t1, k) ==
    /\ t0.free \subseteq t.free /\ t1.free = t0.free
    /\ k \in t.free /\ k \notin t0.free /\ t.free = t0.free \cup {k}
    /\ \A X \in SUBSET t0.free :
          /\ t0.val[X] = t.val[X] /\ t0.wt[X] = t.wt[X] /\ t0.rest[X] = t.rest[X]
          /\ t1.val[X] = t.val[X \cup {k}] /\ t1.wt[X] = t.wt[X \cup {k}]
          /\ t1.rest[X] = t.rest[X \cup {k}]

\* The winner of a join.
LEMMA JoinSingle ==
    ASSUME NEW info, NEW r0 \in SUBSET Partials(info), NEW s1 \in Partials(info), NEW k,
           NEW kind, NEW other, Kinds(kind, other),
           \A s0 \in r0 : Greater(s1.value, s0.value)
    PROVE  \E s : /\ Join(r0, {s1}, kind, k) = {s}
                  /\ Part(s, kind) = Part(s1, kind) \cup {k}
                  /\ Part(s, other) = Part(s1, other)
                  /\ s.value = s1.value
<1> DEFINE s == [s1 EXCEPT ![kind] = @ \cup {k}]
<1>1. Join(r0, {s1}, kind, k) = {s}
  BY DEF Join
<1>2. CASE kind = "bits" /\ other = "votes"
  <2>1. Part(s, kind) = Part(s1, kind) \cup {k} /\ Part(s, other) = Part(s1, other) /\ s.value = s1.value
    BY <1>2 DEF Part, Partials
  <2> QED
    BY <1>1, <2>1
<1>3. CASE kind = "votes" /\ other = "bits"
  <2>1. Part(s, kind) = Part(s1, kind) \cup {k} /\ Part(s, other) = Part(s1, other) /\ s.value = s1.value
    BY <1>3 DEF Part, Partials
  <2> QED
    BY <1>1, <2>1
<1> QED
  BY <1>2, <1>3 DEF Kinds

LEMMA JoinLoser ==
    ASSUME NEW r0, NEW r1, NEW kind, NEW k,
           r1 = {} \/ \E s0 \in r0, s1 \in r1 : ~Greater(s1.value, s0.value)
    PROVE  Join(r0, r1, kind, k) = r0
BY DEF Join

\* The bound only rises, and what is exhausted stays so.
LEMMA ImprovesGrows ==
    ASSUME NEW info, NEW r \in Results(info), NEW b \in Values, Improves(r, b)
    PROVE  r.st.bound \in Values /\ ~Greater(b, r.st.bound)
<1>1. r.st.bound \in Values
  BY DEF Results, Statuses, Values
<1> QED
  BY <1>1, ValuesOrdered DEF Improves

LEMMA ImprovesTwice ==
    ASSUME NEW info, NEW r \in Results(info), NEW q \in Results(info), NEW b \in Values,
           Improves(r, b), Improves(q, r.st.bound), q.sol # {}
    PROVE  Greater(q.st.bound, b)
<1>1. /\ r.st.bound \in Values /\ ~Greater(b, r.st.bound)
      /\ q.st.bound \in Values
  BY ImprovesGrows DEF Results, Statuses, Values
<1>2. Greater(q.st.bound, r.st.bound)
  BY DEF Improves
<1> QED
  BY <1>1, <1>2, ValuesOrdered

LEMMA ExhaustedGrows ==
    ASSUME NEW info, NEW t, IsTask(t), NEW b \in Values, NEW c \in Values,
           Exhausted(info, t, b), ~Greater(b, c)
    PROVE  Exhausted(info, t, c)
<1> SUFFICES ASSUME NEW X \in SUBSET t.free, t.wt[X] > Half(info)
             PROVE  ~Greater(t.val[X], c)
  BY DEF Exhausted
<1>1. ~Greater(t.val[X], b) /\ t.val[X] \in Values
  BY DEF Exhausted, IsTask
<1> QED
  BY <1>1, ValuesOrdered

\* A task is exhausted when its parts are.
LEMMA ExhaustedSplit ==
    ASSUME NEW info, NEW t, NEW t0, NEW t1, NEW k, Splits(t, t0, t1, k), NEW b,
           Exhausted(info, t0, b), Exhausted(info, t1, b)
    PROVE  Exhausted(info, t, b)
<1> SUFFICES ASSUME NEW X \in SUBSET t.free, t.wt[X] > Half(info)
             PROVE  ~Greater(t.val[X], b)
  BY DEF Exhausted
<1>1. CASE k \in X
  <2> DEFINE Y == X \ {k}
  <2>1. Y \in SUBSET t0.free /\ Y \cup {k} = X
    BY <1>1 DEF Splits
  <2> HIDE DEF Y
  <2>2. t1.val[Y] = t.val[X] /\ t1.wt[Y] = t.wt[X] /\ Y \in SUBSET t1.free
    BY <2>1 DEF Splits
  <2> QED
    BY <2>2 DEF Exhausted
<1>2. CASE k \notin X
  <2>1. X \in SUBSET t0.free
    BY <1>2 DEF Splits
  <2>2. t0.val[X] = t.val[X] /\ t0.wt[X] = t.wt[X]
    BY <2>1 DEF Splits
  <2> QED
    BY <2>1, <2>2 DEF Exhausted
<1> QED
  BY <1>1, <1>2

\* A solution of a part is one of the task.
LEMMA SolutionWithout ==
    ASSUME NEW info, NEW t, NEW t0, NEW t1, NEW k, Splits(t, t0, t1, k),
           NEW kind, NEW other, NEW s, SolutionFor(info, t0, s, kind, other)
    PROVE  SolutionFor(info, t, s, kind, other)
BY DEF SolutionFor, Splits

LEMMA SolutionWith ==
    ASSUME NEW info, NEW t, NEW t0, NEW t1, NEW k, Splits(t, t0, t1, k),
           NEW kind, NEW other, NEW s1, SolutionFor(info, t1, s1, kind, other), NEW s,
           Part(s, kind) = Part(s1, kind) \cup {k}, Part(s, other) = Part(s1, other),
           s.value = s1.value
    PROVE  SolutionFor(info, t, s, kind, other)
<1>1. Part(s1, kind) \in SUBSET t0.free
  BY DEF SolutionFor, Splits
<1> QED
  BY <1>1 DEF SolutionFor, Splits

\* The two parts solved one after the other, in either order, solve the task.
LEMMA SolvesExcludeFirst ==
    ASSUME NEW info, InfoOK(info), NEW t, NEW t0, NEW t1, NEW k, Splits(t, t0, t1, k),
           IsTask(t0), IsTask(t1),
           NEW kind, NEW other, Kinds(kind, other),
           NEW st \in Statuses, NEW r0, NEW r1,
           Solves(info, t0, r0, st, kind, other),
           Solves(info, t1, r1, r0.st, kind, other),
           NEW r \in Results(info), r.sol = Join(r0.sol, r1.sol, kind, k), r.st = r1.st
    PROVE  Solves(info, t, r, st, kind, other)
<1>1. /\ r0 \in Results(info) /\ r1 \in Results(info)
      /\ r0.sol \in SUBSET Partials(info) /\ r1.sol \in SUBSET Partials(info)
      /\ st.ops \in Nat /\ r0.st.ops \in Nat /\ r1.st.ops \in Nat /\ info.maxOps \in Nat
      /\ st.bound \in Values /\ r0.st.bound \in Values /\ r1.st.bound \in Values
  BY DEF Solves, Results, Statuses, Values, InfoOK
<1>2. r.st.ops >= st.ops /\ r0.st.ops <= r1.st.ops
  BY <1>1 DEF Solves
<1>3. ~Greater(r0.st.bound, r1.st.bound)
  BY <1>1, ImprovesGrows DEF Solves
<1>4. r.st.ops < info.maxOps => Exhausted(info, t, r.st.bound)
  <2> SUFFICES ASSUME r1.st.ops < info.maxOps PROVE Exhausted(info, t, r1.st.bound)
    OBVIOUS
  <2>1. Exhausted(info, t1, r1.st.bound)
    BY DEF Solves
  <2>2. r0.st.ops < info.maxOps
    BY <1>1, <1>2
  <2>3. Exhausted(info, t0, r0.st.bound)
    BY <2>2 DEF Solves
  <2>4. Exhausted(info, t0, r1.st.bound)
    BY <1>1, <1>3, <2>3, ExhaustedGrows
  <2> QED
    BY <2>1, <2>4, ExhaustedSplit
<1>5. CASE r1.sol = {}
  <2>1. r.sol = r0.sol
    BY <1>5, JoinLoser
  <2>2. r1.st.bound = r0.st.bound
    BY <1>5 DEF Solves, Improves
  <2>3. Improves(r, st.bound)
    BY <2>1, <2>2 DEF Solves, Improves
  <2>4. \A s \in r.sol : SolutionFor(info, t, s, kind, other)
    BY <2>1, SolutionWithout DEF Solves
  <2> QED
    BY <1>2, <1>4, <2>3, <2>4 DEF Solves
<1>6. CASE r1.sol # {}
  <2>1. PICK s1 : r1.sol = {s1} /\ s1.value = r1.st.bound /\ Greater(s1.value, r0.st.bound)
    BY <1>6 DEF Solves, Improves
  <2>2. \A s0 \in r0.sol : Greater(s1.value, s0.value)
    BY <2>1 DEF Solves, Improves
  <2>3. s1 \in Partials(info) /\ SolutionFor(info, t1, s1, kind, other)
    BY <1>1, <2>1 DEF Solves
  <2>4. PICK s : /\ r.sol = {s}
                 /\ Part(s, kind) = Part(s1, kind) \cup {k}
                 /\ Part(s, other) = Part(s1, other)
                 /\ s.value = s1.value
    BY <1>1, <2>1, <2>2, <2>3, JoinSingle
  <2>5. SolutionFor(info, t, s, kind, other)
    BY <2>3, <2>4, SolutionWith
  <2>6. Greater(s.value, st.bound)
    BY <1>1, <1>6, <2>1, <2>4, ImprovesTwice DEF Solves
  <2>7. Improves(r, st.bound)
    BY <2>1, <2>4, <2>6 DEF Improves
  <2> QED
    BY <1>2, <1>4, <2>4, <2>5, <2>7 DEF Solves
<1> QED
  BY <1>5, <1>6

LEMMA SolvesIncludeFirst ==
    ASSUME NEW info, InfoOK(info), NEW t, NEW t0, NEW t1, NEW k, Splits(t, t0, t1, k),
           IsTask(t0), IsTask(t1),
           NEW kind, NEW other, Kinds(kind, other),
           NEW st \in Statuses, NEW r0, NEW r1,
           Solves(info, t1, r1, st, kind, other),
           Solves(info, t0, r0, r1.st, kind, other),
           NEW r \in Results(info), r.sol = Join(r0.sol, r1.sol, kind, k), r.st = r0.st
    PROVE  Solves(info, t, r, st, kind, other)
<1>1. /\ r0 \in Results(info) /\ r1 \in Results(info)
      /\ r0.sol \in SUBSET Partials(info) /\ r1.sol \in SUBSET Partials(info)
      /\ st.ops \in Nat /\ r0.st.ops \in Nat /\ r1.st.ops \in Nat /\ info.maxOps \in Nat
      /\ st.bound \in Values /\ r0.st.bound \in Values /\ r1.st.bound \in Values
  BY DEF Solves, Results, Statuses, Values, InfoOK
<1>2. r.st.ops >= st.ops /\ r1.st.ops <= r0.st.ops
  BY <1>1 DEF Solves
<1>3. ~Greater(r1.st.bound, r0.st.bound)
  BY <1>1, ImprovesGrows DEF Solves
<1>4. r.st.ops < info.maxOps => Exhausted(info, t, r.st.bound)
  <2> SUFFICES ASSUME r0.st.ops < info.maxOps PROVE Exhausted(info, t, r0.st.bound)
    OBVIOUS
  <2>1. Exhausted(info, t0, r0.st.bound)
    BY DEF Solves
  <2>2. r1.st.ops < info.maxOps
    BY <1>1, <1>2
  <2>3. Exhausted(info, t1, r1.st.bound)
    BY <2>2 DEF Solves
  <2>4. Exhausted(info, t1, r0.st.bound)
    BY <1>1, <1>3, <2>3, ExhaustedGrows
  <2> QED
    BY <2>1, <2>4, ExhaustedSplit
<1>5. CASE r0.sol # {}
  <2>1. PICK s0 : r0.sol = {s0} /\ s0.value = r0.st.bound /\ Greater(s0.value, r1.st.bound)
    BY <1>5 DEF Solves, Improves
  <2>2. r1.sol = {} \/ \E s \in r0.sol, s1 \in r1.sol : ~Greater(s1.value, s.value)
    <3> SUFFICES ASSUME r1.sol # {} PROVE \E s1 \in r1.sol : ~Greater(s1.value, s0.value)
      BY <2>1
    <3>1. PICK s1 : r1.sol = {s1} /\ s1.value = r1.st.bound
      BY DEF Solves, Improves
    <3>2. ~Greater(s1.value, s0.value)
      BY <1>1, <2>1, <3>1, ValuesOrdered
    <3> QED
      BY <3>1, <3>2
  <2>3. r.sol = r0.sol
    BY <2>2, JoinLoser
  <2>4. \A s \in r.sol : SolutionFor(info, t, s, kind, other)
    BY <2>3, SolutionWithout DEF Solves
  <2>5. Greater(s0.value, st.bound)
    BY <1>1, <1>5, <2>1, ImprovesTwice DEF Solves
  <2>6. Improves(r, st.bound)
    BY <2>1, <2>3, <2>5 DEF Improves
  <2> QED
    BY <1>2, <1>4, <2>4, <2>6 DEF Solves
<1>6. CASE r0.sol = {}
  <2>1. r0.st.bound = r1.st.bound
    BY <1>6 DEF Solves, Improves
  <2>2. CASE r1.sol = {}
    <3>1. r.sol = {}
      BY <1>6, <2>2, JoinLoser
    <3>2. Improves(r, st.bound)
      BY <2>1, <2>2, <3>1 DEF Solves, Improves
    <3> QED
      BY <1>2, <1>4, <3>1, <3>2 DEF Solves
  <2>3. CASE r1.sol # {}
    <3>1. PICK s1 : r1.sol = {s1} /\ s1.value = r1.st.bound /\ Greater(s1.value, st.bound)
      BY <2>3 DEF Solves, Improves
    <3>2. s1 \in Partials(info) /\ SolutionFor(info, t1, s1, kind, other)
      BY <1>1, <3>1 DEF Solves
    <3>3. \A s0 \in r0.sol : Greater(s1.value, s0.value)
      BY <1>6
    <3>4. PICK s : /\ r.sol = {s}
                   /\ Part(s, kind) = Part(s1, kind) \cup {k}
                   /\ Part(s, other) = Part(s1, other)
                   /\ s.value = s1.value
      BY <1>1, <3>1, <3>2, <3>3, JoinSingle
    <3>5. SolutionFor(info, t, s, kind, other)
      BY <3>2, <3>4, SolutionWith
    <3>6. Improves(r, st.bound)
      BY <2>1, <3>1, <3>4 DEF Improves
    <3> QED
      BY <1>2, <1>4, <3>4, <3>5, <3>6 DEF Solves
  <2> QED
    BY <2>2, <2>3
<1> QED
  BY <1>5, <1>6

\* The clock may have advanced before.
LEMMA SolvesLater ==
    ASSUME NEW info, NEW t, NEW r, NEW kind, NEW other, NEW st \in Statuses, NEW su \in Statuses,
           Solves(info, t, r, su, kind, other), su.bound = st.bound, su.ops >= st.ops
    PROVE  Solves(info, t, r, st, kind, other)
<1>1. r.st.ops \in Nat /\ su.ops \in Nat /\ st.ops \in Nat
  BY DEF Solves, Results, Statuses
<1> QED
  BY <1>1 DEF Solves

\* The node a bounds its task.
Bounds(info, a, t) ==
    \A X \in SUBSET t.free :
        /\ t.wt[X] <= a.weight
        /\ t.wt[X] > Half(info) => ~Greater(t.val[X], CalcValue(a.feeSum, a.weight, info.total))

\* A node that is not explored, because no majority is left or it is cut.
LEMMA SolvesNoMajority ==
    ASSUME NEW info, InfoOK(info), NEW a, NEW t, IsTask(t), Bounds(info, a, t), a.weight \in Int,
           NEW kind, NEW other, NEW st \in Statuses, ~(a.weight > info.total \div 2)
    PROVE  Solves(info, t, NoSolution(st), st, kind, other)
<1>1. NoSolution(st).sol = {} /\ NoSolution(st).st = st /\ NoSolution(st) \in Results(info)
  BY DEF NoSolution, Results
<1>2. Exhausted(info, t, st.bound)
  <2> SUFFICES ASSUME NEW X \in SUBSET t.free, t.wt[X] > Half(info) PROVE FALSE
    BY DEF Exhausted
  <2>1. t.wt[X] \in Int /\ info.total \div 2 \in Int /\ t.wt[X] <= a.weight
    BY DEF IsTask, Bounds, InfoOK
  <2> QED
    BY <2>1 DEF Half
<1>3. st.ops >= st.ops
  BY DEF Statuses
<1> QED
  BY <1>1, <1>2, <1>3 DEF Solves, Improves

LEMMA SolvesCut ==
    ASSUME NEW info, InfoOK(info), NEW a, NEW t, IsTask(t), Bounds(info, a, t),
           a.weight \in Int, a.feeSum \in Int,
           NEW kind, NEW other, NEW st \in Statuses, Cut(info, st, a)
    PROVE  Solves(info, t, NoSolution(st), st, kind, other)
<1>1. NoSolution(st).sol = {} /\ NoSolution(st).st = st /\ NoSolution(st) \in Results(info)
  BY DEF NoSolution, Results
<1>2. st.ops < info.maxOps => Exhausted(info, t, st.bound)
  <2> SUFFICES ASSUME st.ops < info.maxOps, NEW X \in SUBSET t.free, t.wt[X] > Half(info)
               PROVE ~Greater(t.val[X], st.bound)
    BY DEF Exhausted
  <2> DEFINE v == CalcValue(a.feeSum, a.weight, info.total)
  <2>1. st.ops \in Nat /\ info.maxOps \in Nat /\ st.bound \in Values
    BY DEF Statuses, InfoOK, Values
  <2>2. ~Greater(v, st.bound)
    BY <2>1 DEF Cut
  <2>3. ~Greater(t.val[X], v) /\ t.val[X] \in Values
    BY DEF Bounds, IsTask
  <2>4. v \in Values
    BY CalcType DEF InfoOK
  <2> HIDE DEF v
  <2> QED
    BY <2>1, <2>2, <2>3, <2>4, ValuesOrdered
<1>3. st.ops >= st.ops
  BY DEF Statuses
<1> QED
  BY <1>1, <1>2, <1>3 DEF Solves, Improves

\* A leaf.
LEMMA SolvesLeaf ==
    ASSUME NEW info, InfoOK(info), NEW a, a.weight \in Int, a.feeSum \in Int,
           NEW t, t.free = {}, t.val[{}] = CalcValue(a.feeSum, a.weight, info.total),
           t.wt[{}] > Half(info),
           NEW vs \in SUBSET DOMAIN info.votes, NEW bs \in SUBSET DOMAIN info.bits,
           NEW kind, NEW other,
           \/ kind = "bits" /\ other = "votes" /\ bs = {} /\ vs = t.rest[{}]
           \/ kind = "votes" /\ other = "bits" /\ vs = {} /\ bs = t.rest[{}],
           NEW st \in Statuses
    PROVE  Solves(info, t, Leaf(info, st, a, vs, bs), st, kind, other)
<1> DEFINE v == CalcValue(a.feeSum, a.weight, info.total)
           s == [votes |-> vs, bits |-> bs, value |-> v]
           su == [st EXCEPT !.bound = v]
<1>1. v \in Values /\ v \in Int \X Int
  BY CalcType DEF InfoOK, Values
<1>2. CASE Greater(v, st.bound)
  <2>1. Leaf(info, st, a, vs, bs) = [sol |-> {s}, st |-> su]
    BY <1>2 DEF Leaf
  <2>2. su \in Statuses /\ su.bound = v /\ su.ops = st.ops /\ su.ops >= st.ops
    <3> HIDE DEF v
    <3> QED
      BY <1>1 DEF Statuses
  <2>3. s \in Partials(info) /\ s.value = v
    <3> HIDE DEF v
    <3> QED
      BY <1>1 DEF Partials
  <2>4. SolutionFor(info, t, s, kind, other)
    <3>1. Part(s, kind) = {} /\ Part(s, other) = t.rest[{}]
      BY DEF Part
    <3> HIDE DEF s
    <3> QED
      BY <2>3, <3>1 DEF SolutionFor
  <2>5. Exhausted(info, t, v)
    <3> SUFFICES ASSUME NEW X \in SUBSET t.free PROVE ~Greater(t.val[X], v)
      BY DEF Exhausted
    <3>1. X = {} /\ t.val[X] = v
      OBVIOUS
    <3> HIDE DEF v
    <3> QED
      BY <1>1, <3>1, ValuesOrdered
  <2> DEFINE r == Leaf(info, st, a, vs, bs)
  <2> HIDE DEF s, su, v
  <2>6. r.sol = {s} /\ r.st = su /\ r \in Results(info)
    BY <2>1, <2>2, <2>3 DEF Results
  <2> HIDE DEF r
  <2>7. Improves(r, st.bound)
    BY <1>2, <2>2, <2>3, <2>6 DEF Improves
  <2>8. Solves(info, t, r, st, kind, other)
    BY <2>2, <2>4, <2>5, <2>6, <2>7 DEF Solves
  <2> QED
    BY <2>8 DEF r
<1>3. CASE ~Greater(v, st.bound)
  <2>1. Leaf(info, st, a, vs, bs) = NoSolution(st)
    BY <1>3 DEF Leaf
  <2>2. NoSolution(st).sol = {} /\ NoSolution(st).st = st /\ NoSolution(st) \in Results(info)
    BY DEF NoSolution, Results
  <2>3. Exhausted(info, t, st.bound)
    <3> SUFFICES ASSUME NEW X \in SUBSET t.free PROVE ~Greater(t.val[X], st.bound)
      BY DEF Exhausted
    <3>1. X = {} /\ t.val[X] = v
      OBVIOUS
    <3> QED
      BY <1>3, <3>1
  <2>4. st.ops >= st.ops
    BY DEF Statuses
  <2> QED
    BY <2>1, <2>2, <2>3, <2>4 DEF Solves, Improves
<1> QED
  BY <1>2, <1>3

-----------------------------------------------------------------------------
(* The search over the bits solves its task.                               *)

\* Fees and weights of disjoint sets.
LEMMA FeesAdd ==
    ASSUME NEW info, InfoOK(info), NEW S \in SUBSET DOMAIN info.bits,
           NEW T \in SUBSET DOMAIN info.bits, S \cap T = {}
    PROVE  /\ FeesOf(info, S \cup T) = FeesOf(info, S) + FeesOf(info, T)
           /\ FeesOf(info, S) \in Nat /\ FeesOf(info, T) \in Nat
<1> DEFINE f == [i \in DOMAIN info.bits |-> info.bits[i].fee]
<1>1. NatOn(f, DOMAIN info.bits)
  BY InfoSums
<1> HIDE DEF f
<1>2. SumOver(f, S \cup T) = SumOver(f, S) + SumOver(f, T)
  BY <1>1, SumUnion
<1> QED
  BY <1>2, InfoTypes DEF FeesOf, f

LEMMA WeightAdd ==
    ASSUME NEW info, InfoOK(info), NEW S \in SUBSET DOMAIN info.votes,
           NEW T \in SUBSET DOMAIN info.votes, S \cap T = {}
    PROVE  /\ VotesWeight(info.votes, S \cup T) = VotesWeight(info.votes, S) + VotesWeight(info.votes, T)
           /\ VotesWeight(info.votes, S) \in Nat /\ VotesWeight(info.votes, T) \in Nat
<1> DEFINE f == [j \in DOMAIN info.votes |-> info.votes[j].weight]
<1>1. NatOn(f, DOMAIN info.votes)
  BY InfoSums
<1> HIDE DEF f
<1>2. SumOver(f, S \cup T) = SumOver(f, S) + SumOver(f, T)
  BY <1>1, SumUnion
<1> QED
  BY <1>2, InfoTypes DEF VotesWeight, f

LEMMA FeeOfOne ==
    ASSUME NEW info, InfoOK(info), NEW i \in DOMAIN info.bits
    PROVE  FeesOf(info, {i}) = info.bits[i].fee /\ info.bits[i].fee \in Nat
<1> DEFINE f == [k \in DOMAIN info.bits |-> info.bits[k].fee]
<1>1. f[i] = info.bits[i].fee /\ f[i] \in Nat
  BY DEF InfoOK
<1> HIDE DEF f
<1>2. SumOver(f, {i}) = f[i]
  BY <1>1, SumSingle
<1> QED
  BY <1>1, <1>2 DEF FeesOf, f

LEMMA WeightOfOne ==
    ASSUME NEW info, InfoOK(info), NEW j \in DOMAIN info.votes
    PROVE  VotesWeight(info.votes, {j}) = info.votes[j].weight /\ info.votes[j].weight \in Nat
<1> DEFINE f == [k \in DOMAIN info.votes |-> info.votes[k].weight]
<1>1. f[j] = info.votes[j].weight /\ f[j] \in Nat
  BY DEF InfoOK
<1> HIDE DEF f
<1>2. SumOver(f, {j}) = f[j]
  BY <1>1, SumSingle
<1> QED
  BY <1>1, <1>2 DEF VotesWeight, f

\* The votes of S for all bits of B.
AllFor(info, S, B) == {j \in S : \A i \in B : Supports(info, j, i)}

FreeBits(info, a) == a.branch..Len(info.bits)

\* The weight and the fees that are left when the bits B are chosen.
WeightOfBits(info, a, B) ==
    a.weight - VotesWeight(info.votes, a.included \ AllFor(info, a.included, B))
FeesOfBits(info, a, B) == a.feeSum - FeesOf(info, FreeBits(info, a) \ B)

BitsTask(info, a) ==
    [free |-> FreeBits(info, a),
     wt |-> [B \in SUBSET FreeBits(info, a) |-> WeightOfBits(info, a, B)],
     val |-> [B \in SUBSET FreeBits(info, a) |->
                CalcValue(FeesOfBits(info, a, B), WeightOfBits(info, a, B), info.total)],
     rest |-> [B \in SUBSET FreeBits(info, a) |-> AllFor(info, a.included, B)]]

LEMMA BitsTaskFields ==
    ASSUME NEW info, NEW a
    PROVE  /\ BitsTask(info, a).free = FreeBits(info, a)
           /\ \A B \in SUBSET FreeBits(info, a) :
                 /\ BitsTask(info, a).wt[B] = WeightOfBits(info, a, B)
                 /\ BitsTask(info, a).val[B] =
                       CalcValue(FeesOfBits(info, a, B), WeightOfBits(info, a, B), info.total)
                 /\ BitsTask(info, a).rest[B] = AllFor(info, a.included, B)
BY DEF BitsTask

\* The fees that are counted include those of the free bits.
BitsPre(info, a) ==
    /\ a \in BitsNodes(info)
    /\ FeesOf(info, FreeBits(info, a)) <= a.feeSum

LEMMA FreeBitsType ==
    ASSUME NEW info, InfoOK(info), NEW a \in BitsNodes(info)
    PROVE  /\ FreeBits(info, a) \in SUBSET DOMAIN info.bits
           /\ a.included \in SUBSET DOMAIN info.votes
           /\ a.weight \in Int /\ a.feeSum \in Int
<1>1. a.included \in SUBSET DOMAIN info.votes /\ a.weight \in Int /\ a.feeSum \in Int
  BY DEF BitsNodes, Nodes
<1>2. FreeBits(info, a) \in SUBSET DOMAIN info.bits
  <2>1. DOMAIN info.bits = 1..Len(info.bits)
    BY DEF InfoOK
  <2>2. a.branch \in Nat /\ a.branch >= 1 /\ Len(info.bits) \in Nat
    BY BitsBranch
  <2> QED
    BY <2>1, <2>2 DEF FreeBits
<1> QED
  BY <1>1, <1>2

LEMMA BitsTaskType ==
    ASSUME NEW info, InfoOK(info), NEW a, BitsPre(info, a)
    PROVE  /\ IsTask(BitsTask(info, a)) /\ Bounds(info, a, BitsTask(info, a))
<1>0. a \in BitsNodes(info)
  BY DEF BitsPre
<1>1. ASSUME NEW B \in SUBSET FreeBits(info, a)
      PROVE  /\ WeightOfBits(info, a, B) \in Int /\ WeightOfBits(info, a, B) <= a.weight
             /\ FeesOfBits(info, a, B) \in Nat /\ FeesOfBits(info, a, B) <= a.feeSum
  <2> DEFINE no == a.included \ AllFor(info, a.included, B)
             out == FreeBits(info, a) \ B
  <2>1. no \in SUBSET DOMAIN info.votes
    BY <1>0, FreeBitsType
  <2>2. VotesWeight(info.votes, no) \in Nat /\ a.weight \in Int /\ a.feeSum \in Int
    BY <1>0, <2>1, FreeBitsType, InfoTypes
  <2>3. /\ out \in SUBSET DOMAIN info.bits /\ B \in SUBSET DOMAIN info.bits
        /\ out \cap B = {} /\ out \cup B = FreeBits(info, a)
    BY <1>0, FreeBitsType
  <2> HIDE DEF no, out
  <2>4. /\ FeesOf(info, out \cup B) = FeesOf(info, out) + FeesOf(info, B)
        /\ FeesOf(info, out) \in Nat /\ FeesOf(info, B) \in Nat
    BY <2>3, FeesAdd
  <2>5. FeesOf(info, out) + FeesOf(info, B) <= a.feeSum
    BY <2>3, <2>4 DEF BitsPre
  <2>6. a.feeSum - FeesOf(info, out) \in Nat /\ a.feeSum - FeesOf(info, out) <= a.feeSum
    BY <2>2, <2>4, <2>5
  <2>7. a.weight - VotesWeight(info.votes, no) \in Int
        /\ a.weight - VotesWeight(info.votes, no) <= a.weight
    BY <2>2
  <2> QED
    BY <2>6, <2>7 DEF WeightOfBits, FeesOfBits, no, out
<1>2. \A B \in SUBSET FreeBits(info, a) :
         CalcValue(FeesOfBits(info, a, B), WeightOfBits(info, a, B), info.total) \in Values
  BY <1>1, CalcType DEF InfoOK
<1>3. IsTask(BitsTask(info, a))
  BY <1>1, <1>2 DEF IsTask, BitsTask
<1>4. ASSUME NEW B \in SUBSET FreeBits(info, a), WeightOfBits(info, a, B) > Half(info)
      PROVE  ~Greater(CalcValue(FeesOfBits(info, a, B), WeightOfBits(info, a, B), info.total),
                      CalcValue(a.feeSum, a.weight, info.total))
  <2>1. info.total \in Nat /\ Half(info) \in Nat
    BY DEF Half, InfoOK
  <2>2. a.weight \in Int /\ a.feeSum \in Int
    BY <1>0, FreeBitsType
  <2>3. WeightOfBits(info, a, B) \in Nat /\ a.weight \in Nat /\ a.feeSum \in Nat
    BY <1>1, <1>4, <2>1, <2>2
  <2> QED
    BY <1>1, <2>1, <2>3, CalcGrows
<1>5. Bounds(info, a, BitsTask(info, a))
  BY <1>1, <1>4, BitsTaskFields DEF Bounds
<1> QED
  BY <1>3, <1>5

\* The nodes below a node have the parts of its task.
LEMMA BitsExcludedTask ==
    ASSUME NEW info, InfoOK(info), NEW a, BitsPre(info, a), a.branch <= Len(info.bits),
           NEW c \in BitsNodes(info), c.branch = a.branch + 1, c.included = a.included,
           c.weight = a.weight, c.feeSum = a.feeSum - info.bits[a.branch].fee
    PROVE  /\ FreeBits(info, a) = FreeBits(info, c) \cup {a.branch}
           /\ a.branch \notin FreeBits(info, c) /\ a.branch \in DOMAIN info.bits
           /\ BitsPre(info, c)
           /\ \A X \in SUBSET FreeBits(info, c) :
                 /\ WeightOfBits(info, c, X) = WeightOfBits(info, a, X)
                 /\ FeesOfBits(info, c, X) = FeesOfBits(info, a, X)
                 /\ AllFor(info, c.included, X) = AllFor(info, a.included, X)
<1> DEFINE k == a.branch
           fee == info.bits[k].fee
<1>0. a \in BitsNodes(info)
  BY DEF BitsPre
<1>1. FreeBits(info, a) = FreeBits(info, c) \cup {k} /\ k \notin FreeBits(info, c)
  BY <1>0, BitsBranch DEF FreeBits
<1>2. k \in DOMAIN info.bits
  <2>1. k \in Nat /\ k >= 1 /\ k <= Len(info.bits) /\ Len(info.bits) \in Nat
    BY <1>0, BitsBranch
  <2>2. DOMAIN info.bits = 1..Len(info.bits)
    BY DEF InfoOK
  <2> QED
    BY <2>1, <2>2
<1>3. FeesOf(info, {k}) = fee /\ fee \in Nat /\ {k} \in SUBSET DOMAIN info.bits
  BY <1>2, FeeOfOne
<1>4. /\ FreeBits(info, c) \in SUBSET DOMAIN info.bits
      /\ a.feeSum \in Int /\ c.feeSum = a.feeSum - fee
  BY <1>0, FreeBitsType
<1>5. ASSUME NEW X \in SUBSET FreeBits(info, c)
      PROVE  FeesOfBits(info, c, X) = FeesOfBits(info, a, X)
  <2> DEFINE out == FreeBits(info, c) \ X
  <2>1. /\ out \in SUBSET DOMAIN info.bits /\ out \cap {k} = {}
        /\ FreeBits(info, a) \ X = out \cup {k}
    BY <1>1, <1>4
  <2> HIDE DEF out, k, fee
  <2>2. /\ FeesOf(info, out \cup {k}) = FeesOf(info, out) + fee
        /\ FeesOf(info, out) \in Nat
    BY <1>3, <2>1, FeesAdd
  <2>3. /\ FeesOfBits(info, c, X) = c.feeSum - FeesOf(info, out)
        /\ FeesOfBits(info, a, X) = a.feeSum - FeesOf(info, out \cup {k})
    BY <2>1 DEF FeesOfBits, out
  <2> QED
    BY <1>3, <1>4, <2>2, <2>3
<1>6. BitsPre(info, c)
  <2> DEFINE out == FreeBits(info, c)
  <2>1. out \in SUBSET DOMAIN info.bits /\ out \cap {k} = {} /\ FreeBits(info, a) = out \cup {k}
    BY <1>1, <1>4
  <2> HIDE DEF out, k, fee
  <2>2. /\ FeesOf(info, out \cup {k}) = FeesOf(info, out) + fee
        /\ FeesOf(info, out) \in Nat
    BY <1>3, <2>1, FeesAdd
  <2>3. FeesOf(info, out) + fee <= a.feeSum
    BY <2>1, <2>2 DEF BitsPre
  <2>4. FeesOf(info, out) <= c.feeSum
    BY <1>3, <1>4, <2>2, <2>3
  <2> QED
    BY <2>4 DEF BitsPre, out
<1>7. \A X : WeightOfBits(info, c, X) = WeightOfBits(info, a, X)
  BY DEF WeightOfBits
<1> QED
  BY <1>1, <1>2, <1>5, <1>6, <1>7

LEMMA BitsIncludedTask ==
    ASSUME NEW info, InfoOK(info), NEW a, BitsPre(info, a), a.branch <= Len(info.bits),
           NEW c \in BitsNodes(info), c.branch = a.branch + 1, c.feeSum = a.feeSum,
           c.included = Voters(info, a.included, a.branch),
           c.weight = a.weight - LostWeight(info, a.included, c.included)
    PROVE  /\ FreeBits(info, a) = FreeBits(info, c) \cup {a.branch}
           /\ a.branch \notin FreeBits(info, c)
           /\ BitsPre(info, c)
           /\ \A X \in SUBSET FreeBits(info, c) :
                 /\ WeightOfBits(info, c, X) = WeightOfBits(info, a, X \cup {a.branch})
                 /\ FeesOfBits(info, c, X) = FeesOfBits(info, a, X \cup {a.branch})
                 /\ AllFor(info, c.included, X) = AllFor(info, a.included, X \cup {a.branch})
<1> DEFINE k == a.branch
<1>0. a \in BitsNodes(info)
  BY DEF BitsPre
<1>1. FreeBits(info, a) = FreeBits(info, c) \cup {k} /\ k \notin FreeBits(info, c)
  BY <1>0, BitsBranch DEF FreeBits
<1>2. /\ FreeBits(info, c) \in SUBSET DOMAIN info.bits /\ FreeBits(info, a) \in SUBSET DOMAIN info.bits
      /\ a.feeSum \in Int /\ a.weight \in Int
      /\ a.included \in SUBSET DOMAIN info.votes /\ c.included \in SUBSET a.included
  BY <1>0, FreeBitsType DEF Voters
<1>3. ASSUME NEW X \in SUBSET FreeBits(info, c)
      PROVE  AllFor(info, c.included, X) = AllFor(info, a.included, X \cup {k})
  BY DEF AllFor, Voters
<1>4. ASSUME NEW X \in SUBSET FreeBits(info, c)
      PROVE  FeesOfBits(info, c, X) = FeesOfBits(info, a, X \cup {k})
  <2>1. FreeBits(info, c) \ X = FreeBits(info, a) \ (X \cup {k})
    BY <1>1
  <2> QED
    BY <2>1 DEF FeesOfBits
<1>5. ASSUME NEW X \in SUBSET FreeBits(info, c)
      PROVE  WeightOfBits(info, c, X) = WeightOfBits(info, a, X \cup {k})
  <2> DEFINE R == AllFor(info, c.included, X)
             P == a.included \ c.included
             Q == c.included \ R
  <2>1. R \subseteq c.included
    BY DEF AllFor
  <2>2. /\ P \in SUBSET DOMAIN info.votes /\ Q \in SUBSET DOMAIN info.votes
        /\ P \cap Q = {} /\ P \cup Q = a.included \ R
    BY <1>2, <2>1
  <2> HIDE DEF P, Q, R, k
  <2>3. /\ VotesWeight(info.votes, P \cup Q) =
              VotesWeight(info.votes, P) + VotesWeight(info.votes, Q)
        /\ VotesWeight(info.votes, P) \in Nat /\ VotesWeight(info.votes, Q) \in Nat
    BY <2>2, WeightAdd
  <2>4. /\ WeightOfBits(info, c, X) = c.weight - VotesWeight(info.votes, Q)
        /\ WeightOfBits(info, a, X \cup {k}) = a.weight - VotesWeight(info.votes, P \cup Q)
        /\ c.weight = a.weight - VotesWeight(info.votes, P)
    BY <1>3, <2>2 DEF WeightOfBits, P, Q, R, LostWeight
  <2> QED
    BY <1>2, <2>3, <2>4
<1>6. BitsPre(info, c)
  <2> DEFINE S == FreeBits(info, c)
             T == FreeBits(info, a) \ S
  <2>1. /\ S \in SUBSET DOMAIN info.bits /\ T \in SUBSET DOMAIN info.bits
        /\ S \cap T = {} /\ S \cup T = FreeBits(info, a)
    BY <1>1, <1>2
  <2> HIDE DEF S, T, k
  <2>2. /\ FeesOf(info, S \cup T) = FeesOf(info, S) + FeesOf(info, T)
        /\ FeesOf(info, S) \in Nat /\ FeesOf(info, T) \in Nat
    BY <2>1, FeesAdd
  <2>3. FeesOf(info, S) + FeesOf(info, T) <= a.feeSum
    BY <2>1, <2>2 DEF BitsPre
  <2>4. FeesOf(info, S) <= c.feeSum
    BY <1>2, <2>2, <2>3
  <2> QED
    BY <2>4 DEF BitsPre, S
<1> QED
  BY <1>1, <1>3, <1>4, <1>5, <1>6

LEMMA BitsChildTasks ==
    ASSUME NEW info, InfoOK(info), NEW a \in BitsNodes(info), a.branch <= Len(info.bits),
           NEW st \in Statuses
    PROVE  /\ \E c \in BitsNodes(info) :
                 /\ c = BitExcluded(info, a, st) /\ c.branch = a.branch + 1
                 /\ c.included = a.included /\ c.weight = a.weight
                 /\ c.feeSum = a.feeSum - info.bits[a.branch].fee
           /\ \E c \in BitsNodes(info) :
                 /\ c = BitIncluded(info, a, st) /\ c.branch = a.branch + 1
                 /\ c.feeSum = a.feeSum /\ c.included = Voters(info, a.included, a.branch)
                 /\ c.weight = a.weight - LostWeight(info, a.included, c.included)
<1>1. /\ BitExcluded(info, a, st) \in BitsNodes(info)
      /\ BitExcluded(info, a, st).branch = a.branch + 1
      /\ BitExcluded(info, a, st).included = a.included
      /\ BitExcluded(info, a, st).weight = a.weight
      /\ BitExcluded(info, a, st).feeSum = a.feeSum - info.bits[a.branch].fee
  BY BitsChildren
<1>2. /\ BitIncluded(info, a, st) \in BitsNodes(info)
      /\ BitIncluded(info, a, st).branch = a.branch + 1
      /\ BitIncluded(info, a, st).included = Voters(info, a.included, a.branch)
      /\ BitIncluded(info, a, st).weight =
             a.weight - LostWeight(info, a.included, Voters(info, a.included, a.branch))
      /\ BitIncluded(info, a, st).feeSum = a.feeSum
  BY BitsChildren
<1> QED
  BY <1>1, <1>2

LEMMA BitsExcludedPart ==
    ASSUME NEW info, InfoOK(info), NEW a \in BitsNodes(info), BitsPre(info, a),
           a.branch <= Len(info.bits), NEW st \in Statuses, NEW c, c = BitExcluded(info, a, st)
    PROVE  /\ FreeBits(info, a) = FreeBits(info, c) \cup {a.branch} /\ c.branch = a.branch + 1
           /\ a.branch \notin FreeBits(info, c)
           /\ BitsPre(info, c)
           /\ \A X \in SUBSET FreeBits(info, c) :
                 /\ WeightOfBits(info, c, X) = WeightOfBits(info, a, X)
                 /\ FeesOfBits(info, c, X) = FeesOfBits(info, a, X)
                 /\ AllFor(info, c.included, X) = AllFor(info, a.included, X)
<1>1. /\ c \in BitsNodes(info) /\ c.branch = a.branch + 1 /\ c.included = a.included
      /\ c.weight = a.weight /\ c.feeSum = a.feeSum - info.bits[a.branch].fee
  BY BitsChildTasks
<1> QED
  BY <1>1, BitsExcludedTask

LEMMA BitsIncludedPart ==
    ASSUME NEW info, InfoOK(info), NEW a \in BitsNodes(info), BitsPre(info, a),
           a.branch <= Len(info.bits), NEW st \in Statuses, NEW c, c = BitIncluded(info, a, st)
    PROVE  /\ BitsPre(info, c) /\ c.branch = a.branch + 1
           /\ \A X \in SUBSET FreeBits(info, c) :
                 /\ WeightOfBits(info, c, X) = WeightOfBits(info, a, X \cup {a.branch})
                 /\ FeesOfBits(info, c, X) = FeesOfBits(info, a, X \cup {a.branch})
                 /\ AllFor(info, c.included, X) = AllFor(info, a.included, X \cup {a.branch})
<1>1. /\ c \in BitsNodes(info) /\ c.branch = a.branch + 1 /\ c.feeSum = a.feeSum
      /\ c.included = Voters(info, a.included, a.branch)
      /\ c.weight = a.weight - LostWeight(info, a.included, c.included)
  BY BitsChildTasks
<1> QED
  BY <1>1, BitsIncludedTask

LEMMA BitsSplit ==
    ASSUME NEW info, InfoOK(info), NEW a \in BitsNodes(info), BitsPre(info, a),
           a.branch <= Len(info.bits), NEW st \in Statuses, NEW su \in Statuses,
           NEW c0, c0 = BitExcluded(info, a, st), NEW c1, c1 = BitIncluded(info, a, su)
    PROVE  /\ BitsPre(info, c0) /\ BitsPre(info, c1)
           /\ Splits(BitsTask(info, a), BitsTask(info, c0), BitsTask(info, c1), a.branch)
<1> DEFINE k == a.branch
<1>3. /\ FreeBits(info, a) = FreeBits(info, c0) \cup {k} /\ c0.branch = a.branch + 1
      /\ k \notin FreeBits(info, c0)
      /\ BitsPre(info, c0)
      /\ \A X \in SUBSET FreeBits(info, c0) :
                 /\ WeightOfBits(info, c0, X) = WeightOfBits(info, a, X)
                 /\ FeesOfBits(info, c0, X) = FeesOfBits(info, a, X)
                 /\ AllFor(info, c0.included, X) = AllFor(info, a.included, X)
  BY BitsExcludedPart
<1>4. /\ BitsPre(info, c1) /\ c1.branch = a.branch + 1
      /\ \A X \in SUBSET FreeBits(info, c1) :
                 /\ WeightOfBits(info, c1, X) = WeightOfBits(info, a, X \cup {k})
                 /\ FeesOfBits(info, c1, X) = FeesOfBits(info, a, X \cup {k})
                 /\ AllFor(info, c1.included, X) = AllFor(info, a.included, X \cup {k})
  BY BitsIncludedPart
<1>5. FreeBits(info, c1) = FreeBits(info, c0)
  BY <1>3, <1>4 DEF FreeBits
<1> DEFINE t == BitsTask(info, a)
           t0 == BitsTask(info, c0)
           t1 == BitsTask(info, c1)
<1>6. t.free = FreeBits(info, a) /\ t0.free = FreeBits(info, c0) /\ t1.free = FreeBits(info, c0)
  BY <1>5, BitsTaskFields
<1>7. ASSUME NEW X \in SUBSET FreeBits(info, c0)
      PROVE  /\ t0.val[X] = t.val[X] /\ t0.wt[X] = t.wt[X] /\ t0.rest[X] = t.rest[X]
             /\ t1.val[X] = t.val[X \cup {k}] /\ t1.wt[X] = t.wt[X \cup {k}]
             /\ t1.rest[X] = t.rest[X \cup {k}]
  <2> DEFINE Y == X \cup {k}
  <2>1. X \in SUBSET FreeBits(info, a) /\ Y \in SUBSET FreeBits(info, a)
        /\ X \in SUBSET FreeBits(info, c1)
    BY <1>3, <1>5
  <2>2. /\ WeightOfBits(info, c1, X) = WeightOfBits(info, a, Y)
        /\ FeesOfBits(info, c1, X) = FeesOfBits(info, a, Y)
        /\ AllFor(info, c1.included, X) = AllFor(info, a.included, Y)
    BY <1>4, <2>1
  <2> HIDE DEF Y, k
  <2>3. t0.val[X] = t.val[X] /\ t0.wt[X] = t.wt[X] /\ t0.rest[X] = t.rest[X]
    BY <1>3, <2>1, BitsTaskFields
  <2>4. t1.val[X] = t.val[Y] /\ t1.wt[X] = t.wt[Y] /\ t1.rest[X] = t.rest[Y]
    BY <2>1, <2>2, BitsTaskFields
  <2> QED
    BY <2>3, <2>4 DEF Y
<1> HIDE DEF t, t0, t1
<1>8. Splits(t, t0, t1, k)
  BY <1>3, <1>6, <1>7 DEF Splits
<1> QED
  BY <1>3, <1>4, <1>8 DEF t, t0, t1

LEMMA BitsLeafTask ==
    ASSUME NEW info, InfoOK(info), NEW a \in BitsNodes(info), a.branch > Len(info.bits)
    PROVE  /\ BitsTask(info, a).free = {}
           /\ BitsTask(info, a).val[{}] = CalcValue(a.feeSum, a.weight, info.total)
           /\ BitsTask(info, a).wt[{}] = a.weight
           /\ BitsTask(info, a).rest[{}] = a.included
<1>1. FreeBits(info, a) = {} /\ {} \in SUBSET FreeBits(info, a)
  BY BitsBranch DEF FreeBits
<1>2. AllFor(info, a.included, {}) = a.included
  BY DEF AllFor
<1>3. a.weight \in Int /\ a.feeSum \in Int
  BY FreeBitsType
<1>4. WeightOfBits(info, a, {}) = a.weight /\ FeesOfBits(info, a, {}) = a.feeSum
  <2>1. /\ a.included \ AllFor(info, a.included, {}) = {} /\ FreeBits(info, a) \ {} = {}
    BY <1>1, <1>2
  <2>2. VotesWeight(info.votes, {}) = 0 /\ FeesOf(info, {}) = 0
    BY SumEmpty DEF VotesWeight, FeesOf
  <2>3. WeightOfBits(info, a, {}) = a.weight - 0 /\ FeesOfBits(info, a, {}) = a.feeSum - 0
    BY <2>1, <2>2 DEF WeightOfBits, FeesOfBits
  <2> QED
    BY <1>3, <2>3
<1> QED
  BY <1>1, <1>2, <1>4, BitsTaskFields

\* What the search has to do at a node it explores.
BitsSolved(info, g, a) ==
    /\ g[a] \in Results(info)
    /\ BitsPre(info, a) /\ a.weight > Half(info) =>
          Solves(info, BitsTask(info, a), g[a], a.st, "bits", "votes")

LEMMA BitsStatus ==
    ASSUME NEW info, InfoOK(info), NEW a \in BitsNodes(info), a.branch <= Len(info.bits),
           NEW st \in Statuses
    PROVE  /\ \E c \in BitsBelow(info, a) :
                 /\ c = BitExcluded(info, a, st) /\ c.weight = a.weight
                 /\ c.st \in Statuses /\ c.st.bound = st.bound /\ c.st.ops >= st.ops
           /\ \E c \in BitsBelow(info, a) :
                 /\ c = BitIncluded(info, a, st) /\ c.weight \in Int
                 /\ c.st \in Statuses /\ c.st.bound = st.bound /\ c.st.ops >= st.ops
<1>1. /\ BitExcluded(info, a, st).weight = a.weight
      /\ BitExcluded(info, a, st).st \in Statuses
      /\ BitExcluded(info, a, st).st.bound = st.bound
      /\ BitExcluded(info, a, st).st.ops >= st.ops
  BY BitsChildren
<1>2. /\ BitIncluded(info, a, st) \in BitsNodes(info)
      /\ BitIncluded(info, a, st).st \in Statuses
      /\ BitIncluded(info, a, st).st.bound = st.bound
      /\ BitIncluded(info, a, st).st.ops >= st.ops
  BY BitsChildren
<1>3. BitExcluded(info, a, st) \in BitsBelow(info, a) /\ BitIncluded(info, a, st) \in BitsBelow(info, a)
  BY BitsChildrenBelow
<1>4. BitIncluded(info, a, st).weight \in Int
  BY <1>2, FreeBitsType
<1> QED
  BY <1>1, <1>2, <1>3, <1>4

LEMMA BitsZeroSolved ==
    ASSUME NEW info, InfoOK(info), NEW a \in BitsNodes(info), BitsPre(info, a),
           a.branch <= Len(info.bits), a.weight > Half(info),
           NEW g, \A c \in BitsBelow(info, a) : BitsSolved(info, g, c),
           NEW st \in Statuses, NEW c, c = BitExcluded(info, a, st)
    PROVE  Solves(info, BitsTask(info, c), g[c], st, "bits", "votes") /\ IsTask(BitsTask(info, c))
<1>1. /\ c \in BitsBelow(info, a) /\ c.weight = a.weight
      /\ c.st \in Statuses /\ c.st.bound = st.bound /\ c.st.ops >= st.ops
  BY BitsStatus
<1>2. BitsPre(info, c)
  BY BitsExcludedPart
<1>3. Solves(info, BitsTask(info, c), g[c], c.st, "bits", "votes")
  BY <1>1, <1>2 DEF BitsSolved
<1>4. IsTask(BitsTask(info, c))
  BY <1>2, BitsTaskType
<1> QED
  BY <1>1, <1>3, <1>4, SolvesLater

LEMMA BitsOneSolved ==
    ASSUME NEW info, InfoOK(info), NEW a \in BitsNodes(info), BitsPre(info, a),
           a.branch <= Len(info.bits), a.weight > Half(info),
           NEW g, \A c \in BitsBelow(info, a) : BitsSolved(info, g, c),
           NEW st \in Statuses, NEW c, c = BitIncluded(info, a, st)
    PROVE  /\ Solves(info, BitsTask(info, c), IfMajority(info, g, c), st, "bits", "votes")
           /\ IsTask(BitsTask(info, c))
<1>1. /\ c \in BitsBelow(info, a) /\ c.weight \in Int
      /\ c.st \in Statuses /\ c.st.bound = st.bound /\ c.st.ops >= st.ops
  BY BitsStatus
<1>2. BitsPre(info, c)
  BY BitsIncludedPart
<1>3. IsTask(BitsTask(info, c)) /\ Bounds(info, c, BitsTask(info, c))
  BY <1>2, BitsTaskType
<1>4. Solves(info, BitsTask(info, c), IfMajority(info, g, c), c.st, "bits", "votes")
  <2>1. CASE c.weight > info.total \div 2
    BY <1>1, <1>2, <2>1 DEF BitsSolved, IfMajority, Half
  <2>2. CASE ~(c.weight > info.total \div 2)
    <3>1. IfMajority(info, g, c) = NoSolution(c.st)
      BY <2>2 DEF IfMajority
    <3> QED
      BY <1>1, <1>3, <2>2, <3>1, SolvesNoMajority
  <2> QED
    BY <2>1, <2>2
<1> QED
  BY <1>1, <1>3, <1>4, SolvesLater

LEMMA BitsStepSolves ==
    ASSUME NEW info, InfoOK(info), NEW a \in BitsNodes(info), BitsPre(info, a),
           a.weight > Half(info),
           NEW g, \A c \in BitsBelow(info, a) : BitsSolved(info, g, c),
           g[a] = BitsStep(info, g, a), g[a] \in Results(info)
    PROVE  Solves(info, BitsTask(info, a), g[a], a.st, "bits", "votes")
<1> DEFINE st == Tick(a.st, 1)
           t == BitsTask(info, a)
<1>0. a.weight \in Int /\ a.feeSum \in Int /\ a.included \in SUBSET DOMAIN info.votes
  BY FreeBitsType
<1>1. a.st \in Statuses /\ st \in Statuses /\ st.bound = a.st.bound /\ st.ops >= a.st.ops
  <2>1. a.st \in Statuses /\ 1 \in Nat /\ a.st.ops \in Nat
    BY DEF BitsNodes, Nodes, Statuses
  <2>2. st \in Statuses /\ st.bound = a.st.bound /\ st.ops = a.st.ops + 1
    BY <2>1, TickType
  <2> QED
    BY <2>1, <2>2
<1>2. IsTask(t) /\ Bounds(info, a, t)
  BY BitsTaskType
<1>3. Kinds("bits", "votes")
  BY DEF Kinds
<1>4. CASE a.branch > Len(info.bits)
  <2>1. g[a] = Leaf(info, st, a, a.included, {})
    BY <1>4 DEF BitsStep
  <2>2. /\ t.free = {} /\ t.val[{}] = CalcValue(a.feeSum, a.weight, info.total)
        /\ t.wt[{}] = a.weight /\ t.rest[{}] = a.included
    BY <1>4, BitsLeafTask
  <2>3. {} \in SUBSET DOMAIN info.bits
    OBVIOUS
  <2> HIDE DEF st, t
  <2>4. Solves(info, t, Leaf(info, st, a, a.included, {}), st, "bits", "votes")
    BY <1>0, <1>1, <2>2, <2>3, SolvesLeaf
  <2>5. Solves(info, t, g[a], a.st, "bits", "votes")
    BY <1>1, <2>1, <2>4, SolvesLater
  <2> QED
    BY <2>5 DEF t
<1>5. CASE ~(a.branch > Len(info.bits)) /\ Cut(info, st, a)
  <2>1. g[a] = NoSolution(st)
    BY <1>5 DEF BitsStep
  <2> HIDE DEF st, t
  <2>2. Solves(info, t, NoSolution(st), st, "bits", "votes")
    BY <1>0, <1>1, <1>2, <1>5, SolvesCut
  <2>3. Solves(info, t, g[a], a.st, "bits", "votes")
    BY <1>1, <2>1, <2>2, SolvesLater
  <2> QED
    BY <2>3 DEF t
<1>6. CASE ~(a.branch > Len(info.bits)) /\ ~Cut(info, st, a)
  <2>0. a.branch <= Len(info.bits)
    BY <1>6, BitsBranch
  <2>1. CASE info.excludeFirst
    <3> DEFINE c0 == BitExcluded(info, a, st)
               r0 == g[c0]
               c1 == BitIncluded(info, a, r0.st)
               r1 == IfMajority(info, g, c1)
    <3>1. g[a] = [sol |-> Join(r0.sol, r1.sol, "bits", a.branch), st |-> r1.st]
      BY <1>6, <2>1 DEF BitsStep
    <3>2. g[a].sol = Join(r0.sol, r1.sol, "bits", a.branch) /\ g[a].st = r1.st
      BY <3>1
    <3> HIDE DEF st, t
    <3>3. Solves(info, BitsTask(info, c0), r0, st, "bits", "votes") /\ IsTask(BitsTask(info, c0))
      BY <1>1, <2>0, BitsZeroSolved
    <3>4. r0.st \in Statuses
      <4> HIDE DEF r0
      <4> QED
        BY <3>3 DEF Solves, Results
    <3>5. Solves(info, BitsTask(info, c1), r1, r0.st, "bits", "votes") /\ IsTask(BitsTask(info, c1))
      BY <2>0, <3>4, BitsOneSolved
    <3>6. Splits(BitsTask(info, a), BitsTask(info, c0), BitsTask(info, c1), a.branch)
      BY <1>1, <2>0, <3>4, BitsSplit
    <3> HIDE DEF c0, c1, r0, r1
    <3>7. Solves(info, t, g[a], st, "bits", "votes")
      BY <1>1, <1>3, <3>2, <3>3, <3>5, <3>6, SolvesExcludeFirst DEF t
    <3>8. Solves(info, t, g[a], a.st, "bits", "votes")
      BY <1>1, <3>7, SolvesLater
    <3> QED
      BY <3>8 DEF t
  <2>2. CASE ~info.excludeFirst
    <3> DEFINE c1 == BitIncluded(info, a, st)
               r1 == IfMajority(info, g, c1)
               c0 == BitExcluded(info, a, r1.st)
               r0 == g[c0]
    <3>1. g[a] = [sol |-> Join(r0.sol, r1.sol, "bits", a.branch), st |-> r0.st]
      BY <1>6, <2>2 DEF BitsStep
    <3>2. g[a].sol = Join(r0.sol, r1.sol, "bits", a.branch) /\ g[a].st = r0.st
      BY <3>1
    <3> HIDE DEF st, t
    <3>3. Solves(info, BitsTask(info, c1), r1, st, "bits", "votes") /\ IsTask(BitsTask(info, c1))
      BY <1>1, <2>0, BitsOneSolved
    <3>4. r1.st \in Statuses
      <4> HIDE DEF r1
      <4> QED
        BY <3>3 DEF Solves, Results
    <3>5. Solves(info, BitsTask(info, c0), r0, r1.st, "bits", "votes") /\ IsTask(BitsTask(info, c0))
      BY <2>0, <3>4, BitsZeroSolved
    <3>6. Splits(BitsTask(info, a), BitsTask(info, c0), BitsTask(info, c1), a.branch)
      BY <1>1, <2>0, <3>4, BitsSplit
    <3> HIDE DEF c0, c1, r0, r1
    <3>7. Solves(info, t, g[a], st, "bits", "votes")
      BY <1>1, <1>3, <3>2, <3>3, <3>5, <3>6, SolvesIncludeFirst DEF t
    <3>8. Solves(info, t, g[a], a.st, "bits", "votes")
      BY <1>1, <3>7, SolvesLater
    <3> QED
      BY <3>8 DEF t
  <2> QED
    BY <2>1, <2>2
<1> QED
  BY <1>4, <1>5, <1>6

\* The search over the bits does so at every node.
LEMMA BitsSearchSolves ==
    ASSUME NEW info, InfoOK(info), NEW a \in BitsNodes(info)
    PROVE  BitsSolved(info, BranchBits(info), a)
<1> DEFINE g == BranchBits(info)
<1>1. \A c \in BitsNodes(info) : g[c] = BitsStep(info, g, c) /\ g[c] \in Results(info)
  BY BitsSearch
<1> HIDE DEF g
<1> DEFINE T == {k \in Nat : \E c \in BitsFrom(info, k) : ~BitsSolved(info, g, c)}
<1>2. T = {}
  <2> SUFFICES ASSUME T # {} PROVE FALSE
    OBVIOUS
  <2>1. PICK k \in T : \A l \in T : k <= l
    <3>1. T \in SUBSET Nat
      OBVIOUS
    <3> HIDE DEF T
    <3> QED
      BY <3>1, LeastNumber
  <2>2. PICK c \in BitsFrom(info, k) : ~BitsSolved(info, g, c)
    OBVIOUS
  <2>3. \A d \in BitsBelow(info, c) : BitsSolved(info, g, d)
    <3> SUFFICES ASSUME NEW d \in BitsBelow(info, c) PROVE BitsSolved(info, g, d)
      OBVIOUS
    <3>1. k # 0 /\ d \in BitsFrom(info, k - 1)
      BY <2>2, BitsBranch DEF BitsFrom, BitsBelow
    <3>2. k - 1 \in Nat /\ k - 1 \notin T
      BY <2>1, <3>1
    <3> QED
      BY <3>1, <3>2
  <2>4. c \in BitsNodes(info) /\ g[c] = BitsStep(info, g, c) /\ g[c] \in Results(info)
    BY <1>1, <2>2 DEF BitsFrom
  <2> HIDE DEF T
  <2>5. ASSUME BitsPre(info, c), c.weight > Half(info)
        PROVE  Solves(info, BitsTask(info, c), g[c], c.st, "bits", "votes")
    BY <2>3, <2>4, <2>5, BitsStepSolves
  <2> QED
    BY <2>2, <2>4, <2>5 DEF BitsSolved
<1>3. Len(info.bits) \in Nat /\ a \in BitsFrom(info, Len(info.bits))
  BY BitsBranch DEF BitsFrom
<1> QED
  BY <1>2, <1>3 DEF g

-----------------------------------------------------------------------------
(* The search over the votes: it exists, and has a type.                   *)

VotesStep(info, search, a) ==
    LET st == Tick(a.st, 1)
        first == IF info.excludeFirst
                 THEN IfMajority(info, search, VoteExcluded(info, a, st))
                 ELSE search[VoteIncluded(info, a, st)]
        second == IF info.excludeFirst
                  THEN search[VoteIncluded(info, a, first.st)]
                  ELSE IfMajority(info, search, VoteExcluded(info, a, first.st))
        r0 == IF info.excludeFirst THEN first.sol ELSE second.sol
        r1 == IF info.excludeFirst THEN second.sol ELSE first.sol
    IN  IF a.branch > Len(info.votes) THEN Leaf(info, st, a, {}, a.included)
        ELSE IF Cut(info, st, a) THEN NoSolution(st)
        ELSE [sol |-> Join(r0, r1, "votes", a.branch), st |-> second.st]

VotesNodes(info) == Nodes(Len(info.votes), DOMAIN info.bits)

LEMMA VotesUnfold ==
    ASSUME NEW info
    PROVE  BranchVotes(info) = CHOOSE g : g = [a \in VotesNodes(info) |-> VotesStep(info, g, a)]
BY DEF BranchVotes, VotesStep, VotesNodes

LEMMA VotesBranch ==
    ASSUME NEW info, InfoOK(info), NEW a \in VotesNodes(info)
    PROVE  /\ a.branch \in Nat /\ a.branch >= 1 /\ a.branch <= Len(info.votes) + 1
           /\ Len(info.votes) \in Nat
BY DEF VotesNodes, Nodes, InfoOK

\* The nodes below a node.
LEMMA VotesChildren ==
    ASSUME NEW info, InfoOK(info), NEW a \in VotesNodes(info), a.branch <= Len(info.votes),
           NEW st \in Statuses
    PROVE  /\ VoteExcluded(info, a, st) \in VotesNodes(info)
           /\ VoteExcluded(info, a, st).branch = a.branch + 1
           /\ VoteExcluded(info, a, st).st \in Statuses
           /\ VoteExcluded(info, a, st).st.bound = st.bound
           /\ VoteExcluded(info, a, st).st.ops >= st.ops
           /\ VoteExcluded(info, a, st).included = a.included
           /\ VoteExcluded(info, a, st).feeSum = a.feeSum
           /\ VoteExcluded(info, a, st).weight = a.weight - info.votes[a.branch].weight
           /\ VoteIncluded(info, a, st) \in VotesNodes(info)
           /\ VoteIncluded(info, a, st).branch = a.branch + 1
           /\ VoteIncluded(info, a, st).st \in Statuses
           /\ VoteIncluded(info, a, st).st.bound = st.bound
           /\ VoteIncluded(info, a, st).st.ops >= st.ops
           /\ VoteIncluded(info, a, st).included = BitsOf(info, a.included, a.branch)
           /\ VoteIncluded(info, a, st).feeSum =
                  a.feeSum - LostFees(info, a.included, BitsOf(info, a.included, a.branch))
           /\ VoteIncluded(info, a, st).weight = a.weight
<1> DEFINE yes == BitsOf(info, a.included, a.branch)
           n == Cardinality(a.included \ yes) + Cardinality(yes) \div 2
           f == FeesOf(info, a.included \ yes)
           w == info.votes[a.branch].weight
<1>0. /\ a.branch \in 1..(Len(info.votes) + 1) /\ a.included \in SUBSET DOMAIN info.bits
      /\ a.weight \in Int /\ a.feeSum \in Int
  BY DEF VotesNodes, Nodes
<1>1. a.branch \in DOMAIN info.votes /\ w \in Nat
      /\ a.branch + 1 \in 1..(Len(info.votes) + 1)
  BY <1>0 DEF InfoOK
<1>5. yes \in SUBSET DOMAIN info.bits /\ a.included \ yes \in SUBSET DOMAIN info.bits
  BY <1>0 DEF BitsOf
<1>2. n \in Nat
  <2>1. IsFiniteSet(DOMAIN info.bits)
    BY InfoSums DEF NatOn
  <2>2. IsFiniteSet(yes) /\ IsFiniteSet(a.included \ yes)
    BY <1>5, <2>1, FS_Subset
  <2>3. Cardinality(yes) \div 2 \in Nat /\ Cardinality(a.included \ yes) \in Nat
    BY <2>2, HalfType
  <2> QED
    BY <2>3
<1>3. f \in Nat
  BY <1>5, InfoTypes
<1>4. /\ Tick(st, n) \in Statuses /\ Tick(st, n).bound = st.bound /\ Tick(st, n).ops >= st.ops
      /\ st.ops >= st.ops
  <2> HIDE DEF n
  <2>1. st.ops \in Nat
    BY DEF Statuses
  <2>2. /\ Tick(st, n) \in Statuses /\ Tick(st, n).bound = st.bound
        /\ Tick(st, n).ops = st.ops + n
    BY <1>2, TickType
  <2> QED
    BY <1>2, <2>1, <2>2
<1>6. VoteExcluded(info, a, st) = [a EXCEPT !.branch = a.branch + 1, !.st = st,
                                           !.weight = a.weight - w]
  BY DEF VoteExcluded
<1>7. VoteIncluded(info, a, st) = [a EXCEPT !.branch = a.branch + 1, !.included = yes,
                                           !.st = Tick(st, n), !.feeSum = a.feeSum - f]
  BY DEF VoteIncluded, BitsOf
<1> HIDE DEF yes, n, w, f
<1>8. a.feeSum - f \in Int /\ a.weight - w \in Int
  BY <1>0, <1>1, <1>3
<1>9. /\ VoteExcluded(info, a, st) \in VotesNodes(info)
      /\ VoteExcluded(info, a, st).branch = a.branch + 1
      /\ VoteExcluded(info, a, st).st = st
      /\ VoteExcluded(info, a, st).included = a.included
      /\ VoteExcluded(info, a, st).feeSum = a.feeSum
      /\ VoteExcluded(info, a, st).weight = a.weight - w
  BY <1>1, <1>4, <1>6, <1>8 DEF VotesNodes, Nodes, Statuses
<1>10. /\ VoteIncluded(info, a, st) \in VotesNodes(info)
       /\ VoteIncluded(info, a, st).branch = a.branch + 1
       /\ VoteIncluded(info, a, st).st = Tick(st, n)
       /\ VoteIncluded(info, a, st).included = yes
       /\ VoteIncluded(info, a, st).feeSum = a.feeSum - f
       /\ VoteIncluded(info, a, st).weight = a.weight
  BY <1>1, <1>4, <1>5, <1>7, <1>8 DEF VotesNodes, Nodes, Statuses
<1> QED
  BY <1>4, <1>9, <1>10 DEF yes, w, f, LostFees

\* The result of a node depends on the nodes one level below only.
VotesBelow(info, a) == {c \in VotesNodes(info) : c.branch = a.branch + 1}

LEMMA VotesChildrenBelow ==
    ASSUME NEW info, InfoOK(info), NEW a \in VotesNodes(info), a.branch <= Len(info.votes),
           NEW st \in Statuses
    PROVE  VoteExcluded(info, a, st) \in VotesBelow(info, a) /\ VoteIncluded(info, a, st) \in VotesBelow(info, a)
<1>1. /\ VoteExcluded(info, a, st) \in VotesNodes(info)
      /\ VoteExcluded(info, a, st).branch = a.branch + 1
      /\ VoteIncluded(info, a, st) \in VotesNodes(info)
      /\ VoteIncluded(info, a, st).branch = a.branch + 1
  BY VotesChildren
<1> QED
  BY <1>1 DEF VotesBelow

LEMMA VotesStepType ==
    ASSUME NEW info, InfoOK(info), NEW a \in VotesNodes(info), NEW g, NEW h,
           \A c \in VotesBelow(info, a) : g[c] = h[c] /\ g[c] \in Results(info)
    PROVE  VotesStep(info, g, a) = VotesStep(info, h, a) /\ VotesStep(info, g, a) \in Results(info)
<1> DEFINE st == Tick(a.st, 1)
<1>1. a.st \in Statuses /\ st \in Statuses /\ st.bound = a.st.bound
  <2>1. a.st \in Statuses /\ 1 \in Nat
    BY DEF VotesNodes, Nodes, Statuses
  <2> QED
    BY <2>1, TickType
<1>2. \A t \in Statuses : NoSolution(t) \in Results(info)
  BY DEF NoSolution, Results
<1>3. CASE a.branch > Len(info.votes)
  <2> DEFINE v == CalcValue(a.feeSum, a.weight, info.total)
  <2>1. v \in Int \X Int
    BY CalcType DEF VotesNodes, Nodes, InfoOK, Values
  <2>2. [votes |-> {}, bits |-> a.included, value |-> v] \in Partials(info)
    BY <2>1 DEF Partials, VotesNodes, Nodes
  <2>3. [st EXCEPT !.bound = v] \in Statuses
    BY <1>1, <2>1 DEF Statuses
  <2>4. Leaf(info, st, a, {}, a.included) \in Results(info)
    <3> HIDE DEF v, st
    <3> QED
      BY <1>1, <1>2, <2>2, <2>3 DEF Leaf, Results, v
  <2> QED
    BY <1>3, <2>4 DEF VotesStep
<1>4. CASE ~(a.branch > Len(info.votes)) /\ Cut(info, st, a)
  BY <1>1, <1>2, <1>4 DEF VotesStep
<1>5. CASE ~(a.branch > Len(info.votes)) /\ ~Cut(info, st, a)
  <2>0. a.branch <= Len(info.votes) /\ a.branch \in DOMAIN info.votes
    BY <1>5 DEF VotesNodes, Nodes, InfoOK
  <2> DEFINE zero(f, t) == IfMajority(info, f, VoteExcluded(info, a, t))
             one(f, t) == f[VoteIncluded(info, a, t)]
  <2>1. \A t \in Statuses : zero(g, t) = zero(h, t) /\ zero(g, t) \in Results(info)
    <3> TAKE t \in Statuses
    <3> DEFINE c == VoteExcluded(info, a, t)
    <3>1. c \in VotesBelow(info, a)
      BY <2>0, VotesChildrenBelow
    <3>2. c.st \in Statuses
      BY <3>1 DEF VotesBelow, VotesNodes, Nodes, Statuses
    <3> HIDE DEF c
    <3>3. IfMajority(info, g, c) = IfMajority(info, h, c) /\ IfMajority(info, g, c) \in Results(info)
      BY <1>2, <3>1, <3>2 DEF IfMajority
    <3> QED
      BY <3>3 DEF c
  <2>2. \A t \in Statuses : one(g, t) = one(h, t) /\ one(g, t) \in Results(info)
    <3> TAKE t \in Statuses
    <3>1. VoteIncluded(info, a, t) \in VotesBelow(info, a)
      BY <2>0, VotesChildrenBelow
    <3> QED
      BY <3>1
  <2> HIDE DEF zero, one
  <2>3. \A r \in Results(info) : r.sol \in SUBSET Partials(info) /\ r.st \in Statuses
    BY DEF Results
  <2>4. CASE info.excludeFirst
    <3> DEFINE r0 == zero(g, st)
               r1 == one(g, r0.st)
    <3>1. r0 = zero(h, st) /\ r0 \in Results(info)
      BY <1>1, <2>1
    <3>2. r0.st \in Statuses /\ r0.sol \in SUBSET Partials(info)
      BY <2>3, <3>1
    <3>3. r1 = one(h, r0.st) /\ r1.sol \in SUBSET Partials(info) /\ r1.st \in Statuses
      BY <2>2, <2>3, <3>2
    <3>4. /\ VotesStep(info, g, a) = [sol |-> Join(r0.sol, r1.sol, "votes", a.branch), st |-> r1.st]
          /\ VotesStep(info, h, a) = [sol |-> Join(r0.sol, r1.sol, "votes", a.branch), st |-> r1.st]
      BY <1>5, <2>4, <3>1, <3>3 DEF VotesStep, zero, one
    <3>5. Join(r0.sol, r1.sol, "votes", a.branch) \in SUBSET Partials(info)
      BY <2>0, <3>2, <3>3, JoinVotesType
    <3> QED
      BY <3>3, <3>4, <3>5 DEF Results
  <2>5. CASE ~info.excludeFirst
    <3> DEFINE r1 == one(g, st)
               r0 == zero(g, r1.st)
    <3>1. r1 = one(h, st) /\ r1 \in Results(info)
      BY <1>1, <2>2
    <3>2. r1.st \in Statuses /\ r1.sol \in SUBSET Partials(info)
      BY <2>3, <3>1
    <3>3. r0 = zero(h, r1.st) /\ r0.sol \in SUBSET Partials(info) /\ r0.st \in Statuses
      BY <2>1, <2>3, <3>2
    <3>4. /\ VotesStep(info, g, a) = [sol |-> Join(r0.sol, r1.sol, "votes", a.branch), st |-> r0.st]
          /\ VotesStep(info, h, a) = [sol |-> Join(r0.sol, r1.sol, "votes", a.branch), st |-> r0.st]
      BY <1>5, <2>5, <3>1, <3>3 DEF VotesStep, zero, one
    <3>5. Join(r0.sol, r1.sol, "votes", a.branch) \in SUBSET Partials(info)
      BY <2>0, <3>2, <3>3, JoinVotesType
    <3> QED
      BY <3>3, <3>4, <3>5 DEF Results
  <2> QED
    BY <2>4, <2>5
<1> QED
  BY <1>3, <1>4, <1>5

\* The search exists: it can be built from the leaves up.
VotesFrom(info, k) == {a \in VotesNodes(info) : a.branch + k >= Len(info.votes) + 1}

IsVotesSearch(info, g, D) ==
    /\ g = [a \in D |-> VotesStep(info, g, a)]
    /\ g \in [D -> Results(info)]

LEMMA VotesSearchExists ==
    ASSUME NEW info, InfoOK(info)
    PROVE  \E g : IsVotesSearch(info, g, VotesNodes(info))
<1> DEFINE N == Len(info.votes)
           T == {k \in Nat : ~\E g : IsVotesSearch(info, g, VotesFrom(info, k))}
<1>0. N \in Nat
  BY DEF InfoOK
<1>1. VotesFrom(info, N) = VotesNodes(info)
  BY <1>0, VotesBranch DEF VotesFrom
<1> SUFFICES ASSUME T # {} PROVE FALSE
  BY <1>0, <1>1
<1>2. PICK k \in T : \A l \in T : k <= l
  <2>1. T \in SUBSET Nat
    OBVIOUS
  <2> HIDE DEF T
  <2> QED
    BY <2>1, LeastNumber
<1>3. \E f : \A a \in VotesFrom(info, k) : \A c \in VotesBelow(info, a) :
          /\ c \in VotesFrom(info, k)
          /\ f[c] = VotesStep(info, f, c) /\ f[c] \in Results(info)
  <2>1. CASE k = 0
    <3>1. \A a \in VotesFrom(info, 0) : VotesBelow(info, a) = {}
      BY <1>0 DEF VotesFrom, VotesBelow, VotesNodes, Nodes
    <3> QED
      BY <2>1, <3>1
  <2>2. CASE k # 0
    <3>1. k - 1 \in Nat /\ k - 1 \notin T
      BY <1>2, <2>2
    <3>2. PICK f : IsVotesSearch(info, f, VotesFrom(info, k - 1))
      BY <3>1
    <3>3. \A a \in VotesFrom(info, k) : \A c \in VotesBelow(info, a) :
              c \in VotesFrom(info, k - 1) /\ c \in VotesFrom(info, k)
      BY <1>0, <3>1, VotesBranch DEF VotesFrom, VotesBelow
    <3>4. \A c \in VotesFrom(info, k - 1) : f[c] = VotesStep(info, f, c) /\ f[c] \in Results(info)
      BY <3>2 DEF IsVotesSearch
    <3> QED
      BY <3>3, <3>4
  <2> QED
    BY <2>1, <2>2
<1>4. PICK f : \A a \in VotesFrom(info, k) : \A c \in VotesBelow(info, a) :
          /\ c \in VotesFrom(info, k)
          /\ f[c] = VotesStep(info, f, c) /\ f[c] \in Results(info)
  BY <1>3
<1> DEFINE g == [a \in VotesFrom(info, k) |-> VotesStep(info, f, a)]
<1>5. \A a \in VotesFrom(info, k) : \A c \in VotesBelow(info, a) : f[c] = g[c] /\ f[c] \in Results(info)
  BY <1>4
<1>6. \A a \in VotesFrom(info, k) :
          VotesStep(info, f, a) = VotesStep(info, g, a) /\ VotesStep(info, f, a) \in Results(info)
  <2> TAKE a \in VotesFrom(info, k)
  <2>1. a \in VotesNodes(info) /\ \A c \in VotesBelow(info, a) : f[c] = g[c] /\ f[c] \in Results(info)
    BY <1>5 DEF VotesFrom
  <2> HIDE DEF g
  <2> QED
    BY <2>1, VotesStepType
<1>7. IsVotesSearch(info, g, VotesFrom(info, k))
  <2>1. g \in [VotesFrom(info, k) -> Results(info)]
    BY <1>6
  <2>2. g = [a \in VotesFrom(info, k) |-> VotesStep(info, g, a)]
    BY <1>6
  <2> QED
    BY <2>1, <2>2 DEF IsVotesSearch
<1> QED
  BY <1>7

\* What the search returns at a node.
LEMMA VotesSearch ==
    ASSUME NEW info, InfoOK(info), NEW a \in VotesNodes(info)
    PROVE  /\ BranchVotes(info)[a] = VotesStep(info, BranchVotes(info), a)
           /\ BranchVotes(info)[a] \in Results(info)
<1> DEFINE g == BranchVotes(info)
           IsSearch(f) == f = [c \in VotesNodes(info) |-> VotesStep(info, f, c)]
<1>1. IsSearch(g)
  <2>1. \E f : IsSearch(f)
    BY VotesSearchExists DEF IsVotesSearch
  <2>2. g = CHOOSE f : IsSearch(f)
    BY VotesUnfold
  <2> HIDE DEF g, IsSearch
  <2> QED
    BY <2>1, <2>2
<1>2. \A c \in VotesNodes(info) : g[c] = VotesStep(info, g, c)
  <2> HIDE DEF g
  <2> QED
    BY <1>1
<1> DEFINE T == {k \in Nat : \E c \in VotesFrom(info, k) : g[c] \notin Results(info)}
<1>3. T = {}
  <2> SUFFICES ASSUME T # {} PROVE FALSE
    OBVIOUS
  <2>1. PICK k \in T : \A l \in T : k <= l
    <3>1. T \in SUBSET Nat
      OBVIOUS
    <3> HIDE DEF T
    <3> QED
      BY <3>1, LeastNumber
  <2>2. PICK c \in VotesFrom(info, k) : g[c] \notin Results(info)
    OBVIOUS
  <2>3. \A d \in VotesBelow(info, c) : g[d] \in Results(info)
    <3> SUFFICES ASSUME NEW d \in VotesBelow(info, c) PROVE g[d] \in Results(info)
      OBVIOUS
    <3>1. k # 0 /\ d \in VotesFrom(info, k - 1)
      BY <2>2, VotesBranch DEF VotesFrom, VotesBelow
    <3>2. k - 1 \in Nat /\ k - 1 \notin T
      BY <2>1, <3>1
    <3> QED
      BY <3>1, <3>2
  <2>4. c \in VotesNodes(info) /\ \A d \in VotesBelow(info, c) : g[d] = g[d] /\ g[d] \in Results(info)
    BY <2>2, <2>3 DEF VotesFrom
  <2> HIDE DEF g, T
  <2>5. VotesStep(info, g, c) \in Results(info)
    BY <2>4, VotesStepType
  <2> QED
    BY <1>2, <2>2, <2>4, <2>5
<1>4. Len(info.votes) \in Nat /\ a \in VotesFrom(info, Len(info.votes))
  BY DEF VotesFrom, VotesNodes, Nodes, InfoOK
<1>5. g[a] \in Results(info)
  BY <1>3, <1>4
<1> QED
  BY <1>2, <1>5

-----------------------------------------------------------------------------
(* The search over the votes solves its task.                              *)

\* The bits of S that all votes of A are for.
AllOf(info, S, A) == {i \in S : \A j \in A : Supports(info, j, i)}

FreeVotes(info, a) == a.branch..Len(info.votes)

\* The weight and the fees that are left when the votes A are chosen.
WeightOfVotes(info, a, A) == a.weight - VotesWeight(info.votes, FreeVotes(info, a) \ A)
FeesOfVotes(info, a, A) ==
    a.feeSum - FeesOf(info, a.included \ AllOf(info, a.included, A))

VotesTask(info, a) ==
    [free |-> FreeVotes(info, a),
     wt |-> [A \in SUBSET FreeVotes(info, a) |-> WeightOfVotes(info, a, A)],
     val |-> [A \in SUBSET FreeVotes(info, a) |->
                CalcValue(FeesOfVotes(info, a, A), WeightOfVotes(info, a, A), info.total)],
     rest |-> [A \in SUBSET FreeVotes(info, a) |-> AllOf(info, a.included, A)]]

LEMMA VotesTaskFields ==
    ASSUME NEW info, NEW a
    PROVE  /\ VotesTask(info, a).free = FreeVotes(info, a)
           /\ \A A \in SUBSET FreeVotes(info, a) :
                 /\ VotesTask(info, a).wt[A] = WeightOfVotes(info, a, A)
                 /\ VotesTask(info, a).val[A] =
                       CalcValue(FeesOfVotes(info, a, A), WeightOfVotes(info, a, A), info.total)
                 /\ VotesTask(info, a).rest[A] = AllOf(info, a.included, A)
BY DEF VotesTask

\* The fees that are counted include those of the bits that are left.
VotesPre(info, a) ==
    /\ a \in VotesNodes(info)
    /\ FeesOf(info, a.included) <= a.feeSum

LEMMA FreeVotesType ==
    ASSUME NEW info, InfoOK(info), NEW a \in VotesNodes(info)
    PROVE  /\ FreeVotes(info, a) \in SUBSET DOMAIN info.votes
           /\ a.included \in SUBSET DOMAIN info.bits
           /\ a.weight \in Int /\ a.feeSum \in Int
<1>1. a.included \in SUBSET DOMAIN info.bits /\ a.weight \in Int /\ a.feeSum \in Int
  BY DEF VotesNodes, Nodes
<1>2. FreeVotes(info, a) \in SUBSET DOMAIN info.votes
  <2>1. DOMAIN info.votes = 1..Len(info.votes)
    BY DEF InfoOK
  <2>2. a.branch \in Nat /\ a.branch >= 1 /\ Len(info.votes) \in Nat
    BY VotesBranch
  <2> QED
    BY <2>1, <2>2 DEF FreeVotes
<1> QED
  BY <1>1, <1>2

LEMMA VotesTaskType ==
    ASSUME NEW info, InfoOK(info), NEW a, VotesPre(info, a)
    PROVE  /\ IsTask(VotesTask(info, a)) /\ Bounds(info, a, VotesTask(info, a))
<1>0. a \in VotesNodes(info)
  BY DEF VotesPre
<1>1. ASSUME NEW A \in SUBSET FreeVotes(info, a)
      PROVE  /\ WeightOfVotes(info, a, A) \in Int /\ WeightOfVotes(info, a, A) <= a.weight
             /\ FeesOfVotes(info, a, A) \in Nat /\ FeesOfVotes(info, a, A) <= a.feeSum
  <2> DEFINE R == AllOf(info, a.included, A)
             no == a.included \ R
             out == FreeVotes(info, a) \ A
  <2>1. out \in SUBSET DOMAIN info.votes
    BY <1>0, FreeVotesType
  <2>2. VotesWeight(info.votes, out) \in Nat /\ a.weight \in Int /\ a.feeSum \in Int
    BY <1>0, <2>1, FreeVotesType, InfoTypes
  <2>3. /\ no \in SUBSET DOMAIN info.bits /\ R \in SUBSET DOMAIN info.bits
        /\ no \cap R = {} /\ no \cup R = a.included
    BY <1>0, FreeVotesType DEF AllOf
  <2> HIDE DEF no, out, R
  <2>4. /\ FeesOf(info, no \cup R) = FeesOf(info, no) + FeesOf(info, R)
        /\ FeesOf(info, no) \in Nat /\ FeesOf(info, R) \in Nat
    BY <2>3, FeesAdd
  <2>5. FeesOf(info, no) + FeesOf(info, R) <= a.feeSum
    BY <2>3, <2>4 DEF VotesPre
  <2>6. a.feeSum - FeesOf(info, no) \in Nat /\ a.feeSum - FeesOf(info, no) <= a.feeSum
    BY <2>2, <2>4, <2>5
  <2>7. a.weight - VotesWeight(info.votes, out) \in Int
        /\ a.weight - VotesWeight(info.votes, out) <= a.weight
    BY <2>2
  <2> QED
    BY <2>6, <2>7 DEF WeightOfVotes, FeesOfVotes, no, out, R
<1>2. \A A \in SUBSET FreeVotes(info, a) :
         CalcValue(FeesOfVotes(info, a, A), WeightOfVotes(info, a, A), info.total) \in Values
  BY <1>1, CalcType DEF InfoOK
<1>3. IsTask(VotesTask(info, a))
  BY <1>1, <1>2 DEF IsTask, VotesTask
<1>4. ASSUME NEW A \in SUBSET FreeVotes(info, a), WeightOfVotes(info, a, A) > Half(info)
      PROVE  ~Greater(CalcValue(FeesOfVotes(info, a, A), WeightOfVotes(info, a, A), info.total),
                      CalcValue(a.feeSum, a.weight, info.total))
  <2>1. info.total \in Nat /\ Half(info) \in Nat
    BY DEF Half, InfoOK
  <2>2. a.weight \in Int /\ a.feeSum \in Int
    BY <1>0, FreeVotesType
  <2>3. WeightOfVotes(info, a, A) \in Nat /\ a.weight \in Nat /\ a.feeSum \in Nat
    BY <1>1, <1>4, <2>1, <2>2
  <2> QED
    BY <1>1, <2>1, <2>3, CalcGrows
<1>5. Bounds(info, a, VotesTask(info, a))
  BY <1>1, <1>4, VotesTaskFields DEF Bounds
<1> QED
  BY <1>3, <1>5

\* The nodes below a node have the parts of its task.
LEMMA VotesExcludedTask ==
    ASSUME NEW info, InfoOK(info), NEW a, VotesPre(info, a), a.branch <= Len(info.votes),
           NEW c \in VotesNodes(info), c.branch = a.branch + 1, c.included = a.included,
           c.feeSum = a.feeSum, c.weight = a.weight - info.votes[a.branch].weight
    PROVE  /\ FreeVotes(info, a) = FreeVotes(info, c) \cup {a.branch}
           /\ a.branch \notin FreeVotes(info, c)
           /\ VotesPre(info, c)
           /\ \A X \in SUBSET FreeVotes(info, c) :
                 /\ WeightOfVotes(info, c, X) = WeightOfVotes(info, a, X)
                 /\ FeesOfVotes(info, c, X) = FeesOfVotes(info, a, X)
                 /\ AllOf(info, c.included, X) = AllOf(info, a.included, X)
<1> DEFINE k == a.branch
           w == info.votes[k].weight
<1>0. a \in VotesNodes(info)
  BY DEF VotesPre
<1>1. FreeVotes(info, a) = FreeVotes(info, c) \cup {k} /\ k \notin FreeVotes(info, c)
  BY <1>0, VotesBranch DEF FreeVotes
<1>2. k \in DOMAIN info.votes
  <2>1. k \in Nat /\ k >= 1 /\ k <= Len(info.votes) /\ Len(info.votes) \in Nat
    BY <1>0, VotesBranch
  <2>2. DOMAIN info.votes = 1..Len(info.votes)
    BY DEF InfoOK
  <2> QED
    BY <2>1, <2>2
<1>3. VotesWeight(info.votes, {k}) = w /\ w \in Nat /\ {k} \in SUBSET DOMAIN info.votes
  BY <1>2, WeightOfOne
<1>4. /\ FreeVotes(info, c) \in SUBSET DOMAIN info.votes
      /\ a.weight \in Int /\ c.weight = a.weight - w
  BY <1>0, FreeVotesType
<1>5. ASSUME NEW X \in SUBSET FreeVotes(info, c)
      PROVE  WeightOfVotes(info, c, X) = WeightOfVotes(info, a, X)
  <2> DEFINE out == FreeVotes(info, c) \ X
  <2>1. /\ out \in SUBSET DOMAIN info.votes /\ out \cap {k} = {}
        /\ FreeVotes(info, a) \ X = out \cup {k}
    BY <1>1, <1>4
  <2> HIDE DEF out, k, w
  <2>2. /\ VotesWeight(info.votes, out \cup {k}) = VotesWeight(info.votes, out) + w
        /\ VotesWeight(info.votes, out) \in Nat
    BY <1>3, <2>1, WeightAdd
  <2>3. /\ WeightOfVotes(info, c, X) = c.weight - VotesWeight(info.votes, out)
        /\ WeightOfVotes(info, a, X) = a.weight - VotesWeight(info.votes, out \cup {k})
    BY <2>1 DEF WeightOfVotes, out
  <2> QED
    BY <1>3, <1>4, <2>2, <2>3
<1>6. VotesPre(info, c)
  BY DEF VotesPre
<1>7. \A X : FeesOfVotes(info, c, X) = FeesOfVotes(info, a, X)
  BY DEF FeesOfVotes
<1> QED
  BY <1>1, <1>2, <1>5, <1>6, <1>7

LEMMA VotesIncludedTask ==
    ASSUME NEW info, InfoOK(info), NEW a, VotesPre(info, a), a.branch <= Len(info.votes),
           NEW c \in VotesNodes(info), c.branch = a.branch + 1, c.weight = a.weight,
           c.included = BitsOf(info, a.included, a.branch),
           c.feeSum = a.feeSum - LostFees(info, a.included, c.included)
    PROVE  /\ VotesPre(info, c)
           /\ \A X \in SUBSET FreeVotes(info, c) :
                 /\ WeightOfVotes(info, c, X) = WeightOfVotes(info, a, X \cup {a.branch})
                 /\ FeesOfVotes(info, c, X) = FeesOfVotes(info, a, X \cup {a.branch})
                 /\ AllOf(info, c.included, X) = AllOf(info, a.included, X \cup {a.branch})
<1> DEFINE k == a.branch
<1>0. a \in VotesNodes(info)
  BY DEF VotesPre
<1>1. FreeVotes(info, a) = FreeVotes(info, c) \cup {k} /\ k \notin FreeVotes(info, c)
  BY <1>0, VotesBranch DEF FreeVotes
<1>2. /\ a.feeSum \in Int /\ a.weight \in Int
      /\ a.included \in SUBSET DOMAIN info.bits /\ c.included \in SUBSET a.included
  BY <1>0, FreeVotesType DEF BitsOf
<1>3. ASSUME NEW X \in SUBSET FreeVotes(info, c)
      PROVE  AllOf(info, c.included, X) = AllOf(info, a.included, X \cup {k})
  BY DEF AllOf, BitsOf
<1>4. ASSUME NEW X \in SUBSET FreeVotes(info, c)
      PROVE  WeightOfVotes(info, c, X) = WeightOfVotes(info, a, X \cup {k})
  <2>1. FreeVotes(info, c) \ X = FreeVotes(info, a) \ (X \cup {k})
    BY <1>1
  <2> QED
    BY <2>1 DEF WeightOfVotes
<1>5. ASSUME NEW X \in SUBSET FreeVotes(info, c)
      PROVE  FeesOfVotes(info, c, X) = FeesOfVotes(info, a, X \cup {k})
  <2> DEFINE R == AllOf(info, c.included, X)
             P == a.included \ c.included
             Q == c.included \ R
  <2>1. R \subseteq c.included
    BY DEF AllOf
  <2>2. /\ P \in SUBSET DOMAIN info.bits /\ Q \in SUBSET DOMAIN info.bits
        /\ P \cap Q = {} /\ P \cup Q = a.included \ R
    BY <1>2, <2>1
  <2> HIDE DEF P, Q, R, k
  <2>3. /\ FeesOf(info, P \cup Q) = FeesOf(info, P) + FeesOf(info, Q)
        /\ FeesOf(info, P) \in Nat /\ FeesOf(info, Q) \in Nat
    BY <2>2, FeesAdd
  <2>4. /\ FeesOfVotes(info, c, X) = c.feeSum - FeesOf(info, Q)
        /\ FeesOfVotes(info, a, X \cup {k}) = a.feeSum - FeesOf(info, P \cup Q)
        /\ c.feeSum = a.feeSum - FeesOf(info, P)
    BY <1>3, <2>2 DEF FeesOfVotes, P, Q, R, LostFees
  <2> QED
    BY <1>2, <2>3, <2>4
<1>6. VotesPre(info, c)
  <2> DEFINE S == c.included
             T == a.included \ S
  <2>1. /\ S \in SUBSET DOMAIN info.bits /\ T \in SUBSET DOMAIN info.bits
        /\ S \cap T = {} /\ S \cup T = a.included
    BY <1>1, <1>2
  <2>0. c.feeSum = a.feeSum - FeesOf(info, T)
    BY DEF LostFees
  <2> HIDE DEF S, T, k
  <2>2. /\ FeesOf(info, S \cup T) = FeesOf(info, S) + FeesOf(info, T)
        /\ FeesOf(info, S) \in Nat /\ FeesOf(info, T) \in Nat
    BY <2>1, FeesAdd
  <2>3. FeesOf(info, S) + FeesOf(info, T) <= a.feeSum
    BY <2>1, <2>2 DEF VotesPre
  <2>4. FeesOf(info, S) <= c.feeSum
    BY <1>2, <2>0, <2>2, <2>3
  <2> QED
    BY <2>4 DEF VotesPre, S
<1> QED
  BY <1>1, <1>3, <1>4, <1>5, <1>6

LEMMA VotesChildTasks ==
    ASSUME NEW info, InfoOK(info), NEW a \in VotesNodes(info), a.branch <= Len(info.votes),
           NEW st \in Statuses
    PROVE  /\ \E c \in VotesNodes(info) :
                 /\ c = VoteExcluded(info, a, st) /\ c.branch = a.branch + 1
                 /\ c.included = a.included /\ c.feeSum = a.feeSum
                 /\ c.weight = a.weight - info.votes[a.branch].weight
           /\ \E c \in VotesNodes(info) :
                 /\ c = VoteIncluded(info, a, st) /\ c.branch = a.branch + 1
                 /\ c.weight = a.weight /\ c.included = BitsOf(info, a.included, a.branch)
                 /\ c.feeSum = a.feeSum - LostFees(info, a.included, c.included)
<1>1. /\ VoteExcluded(info, a, st) \in VotesNodes(info)
      /\ VoteExcluded(info, a, st).branch = a.branch + 1
      /\ VoteExcluded(info, a, st).included = a.included
      /\ VoteExcluded(info, a, st).feeSum = a.feeSum
      /\ VoteExcluded(info, a, st).weight = a.weight - info.votes[a.branch].weight
  BY VotesChildren
<1>2. /\ VoteIncluded(info, a, st) \in VotesNodes(info)
      /\ VoteIncluded(info, a, st).branch = a.branch + 1
      /\ VoteIncluded(info, a, st).included = BitsOf(info, a.included, a.branch)
      /\ VoteIncluded(info, a, st).feeSum =
             a.feeSum - LostFees(info, a.included, BitsOf(info, a.included, a.branch))
      /\ VoteIncluded(info, a, st).weight = a.weight
  BY VotesChildren
<1> QED
  BY <1>1, <1>2

LEMMA VotesExcludedPart ==
    ASSUME NEW info, InfoOK(info), NEW a \in VotesNodes(info), VotesPre(info, a),
           a.branch <= Len(info.votes), NEW st \in Statuses, NEW c, c = VoteExcluded(info, a, st)
    PROVE  /\ FreeVotes(info, a) = FreeVotes(info, c) \cup {a.branch} /\ c.branch = a.branch + 1
           /\ a.branch \notin FreeVotes(info, c)
           /\ VotesPre(info, c)
           /\ \A X \in SUBSET FreeVotes(info, c) :
                 /\ WeightOfVotes(info, c, X) = WeightOfVotes(info, a, X)
                 /\ FeesOfVotes(info, c, X) = FeesOfVotes(info, a, X)
                 /\ AllOf(info, c.included, X) = AllOf(info, a.included, X)
<1>1. /\ c \in VotesNodes(info) /\ c.branch = a.branch + 1 /\ c.included = a.included
      /\ c.feeSum = a.feeSum /\ c.weight = a.weight - info.votes[a.branch].weight
  BY VotesChildTasks
<1> QED
  BY <1>1, VotesExcludedTask

LEMMA VotesIncludedPart ==
    ASSUME NEW info, InfoOK(info), NEW a \in VotesNodes(info), VotesPre(info, a),
           a.branch <= Len(info.votes), NEW st \in Statuses, NEW c, c = VoteIncluded(info, a, st)
    PROVE  /\ VotesPre(info, c) /\ c.branch = a.branch + 1
           /\ \A X \in SUBSET FreeVotes(info, c) :
                 /\ WeightOfVotes(info, c, X) = WeightOfVotes(info, a, X \cup {a.branch})
                 /\ FeesOfVotes(info, c, X) = FeesOfVotes(info, a, X \cup {a.branch})
                 /\ AllOf(info, c.included, X) = AllOf(info, a.included, X \cup {a.branch})
<1>1. /\ c \in VotesNodes(info) /\ c.branch = a.branch + 1 /\ c.weight = a.weight
      /\ c.included = BitsOf(info, a.included, a.branch)
      /\ c.feeSum = a.feeSum - LostFees(info, a.included, c.included)
  BY VotesChildTasks
<1> QED
  BY <1>1, VotesIncludedTask

LEMMA VotesSplit ==
    ASSUME NEW info, InfoOK(info), NEW a \in VotesNodes(info), VotesPre(info, a),
           a.branch <= Len(info.votes), NEW st \in Statuses, NEW su \in Statuses,
           NEW c0, c0 = VoteExcluded(info, a, st), NEW c1, c1 = VoteIncluded(info, a, su)
    PROVE  /\ VotesPre(info, c0) /\ VotesPre(info, c1)
           /\ Splits(VotesTask(info, a), VotesTask(info, c0), VotesTask(info, c1), a.branch)
<1> DEFINE k == a.branch
<1>3. /\ FreeVotes(info, a) = FreeVotes(info, c0) \cup {k} /\ c0.branch = a.branch + 1
      /\ k \notin FreeVotes(info, c0)
      /\ VotesPre(info, c0)
      /\ \A X \in SUBSET FreeVotes(info, c0) :
                 /\ WeightOfVotes(info, c0, X) = WeightOfVotes(info, a, X)
                 /\ FeesOfVotes(info, c0, X) = FeesOfVotes(info, a, X)
                 /\ AllOf(info, c0.included, X) = AllOf(info, a.included, X)
  BY VotesExcludedPart
<1>4. /\ VotesPre(info, c1) /\ c1.branch = a.branch + 1
      /\ \A X \in SUBSET FreeVotes(info, c1) :
                 /\ WeightOfVotes(info, c1, X) = WeightOfVotes(info, a, X \cup {k})
                 /\ FeesOfVotes(info, c1, X) = FeesOfVotes(info, a, X \cup {k})
                 /\ AllOf(info, c1.included, X) = AllOf(info, a.included, X \cup {k})
  BY VotesIncludedPart
<1>5. FreeVotes(info, c1) = FreeVotes(info, c0)
  BY <1>3, <1>4 DEF FreeVotes
<1> DEFINE t == VotesTask(info, a)
           t0 == VotesTask(info, c0)
           t1 == VotesTask(info, c1)
<1>6. t.free = FreeVotes(info, a) /\ t0.free = FreeVotes(info, c0) /\ t1.free = FreeVotes(info, c0)
  BY <1>5, VotesTaskFields
<1>7. ASSUME NEW X \in SUBSET FreeVotes(info, c0)
      PROVE  /\ t0.val[X] = t.val[X] /\ t0.wt[X] = t.wt[X] /\ t0.rest[X] = t.rest[X]
             /\ t1.val[X] = t.val[X \cup {k}] /\ t1.wt[X] = t.wt[X \cup {k}]
             /\ t1.rest[X] = t.rest[X \cup {k}]
  <2> DEFINE Y == X \cup {k}
  <2>1. X \in SUBSET FreeVotes(info, a) /\ Y \in SUBSET FreeVotes(info, a)
        /\ X \in SUBSET FreeVotes(info, c1)
    BY <1>3, <1>5
  <2>2. /\ WeightOfVotes(info, c1, X) = WeightOfVotes(info, a, Y)
        /\ FeesOfVotes(info, c1, X) = FeesOfVotes(info, a, Y)
        /\ AllOf(info, c1.included, X) = AllOf(info, a.included, Y)
    BY <1>4, <2>1
  <2> HIDE DEF Y, k
  <2>3. t0.val[X] = t.val[X] /\ t0.wt[X] = t.wt[X] /\ t0.rest[X] = t.rest[X]
    BY <1>3, <2>1, VotesTaskFields
  <2>4. t1.val[X] = t.val[Y] /\ t1.wt[X] = t.wt[Y] /\ t1.rest[X] = t.rest[Y]
    BY <2>1, <2>2, VotesTaskFields
  <2> QED
    BY <2>3, <2>4 DEF Y
<1> HIDE DEF t, t0, t1
<1>8. Splits(t, t0, t1, k)
  BY <1>3, <1>6, <1>7 DEF Splits
<1> QED
  BY <1>3, <1>4, <1>8 DEF t, t0, t1

LEMMA VotesLeafTask ==
    ASSUME NEW info, InfoOK(info), NEW a \in VotesNodes(info), a.branch > Len(info.votes)
    PROVE  /\ VotesTask(info, a).free = {}
           /\ VotesTask(info, a).val[{}] = CalcValue(a.feeSum, a.weight, info.total)
           /\ VotesTask(info, a).wt[{}] = a.weight
           /\ VotesTask(info, a).rest[{}] = a.included
<1>1. FreeVotes(info, a) = {} /\ {} \in SUBSET FreeVotes(info, a)
  BY VotesBranch DEF FreeVotes
<1>2. AllOf(info, a.included, {}) = a.included
  BY DEF AllOf
<1>3. a.weight \in Int /\ a.feeSum \in Int
  BY FreeVotesType
<1>4. WeightOfVotes(info, a, {}) = a.weight /\ FeesOfVotes(info, a, {}) = a.feeSum
  <2>1. /\ a.included \ AllOf(info, a.included, {}) = {} /\ FreeVotes(info, a) \ {} = {}
    BY <1>1, <1>2
  <2>2. VotesWeight(info.votes, {}) = 0 /\ FeesOf(info, {}) = 0
    BY SumEmpty DEF VotesWeight, FeesOf
  <2>3. WeightOfVotes(info, a, {}) = a.weight - 0 /\ FeesOfVotes(info, a, {}) = a.feeSum - 0
    BY <2>1, <2>2 DEF WeightOfVotes, FeesOfVotes
  <2> QED
    BY <1>3, <2>3
<1> QED
  BY <1>1, <1>2, <1>4, VotesTaskFields

\* What the search has to do at a node it explores.
VotesSolved(info, g, a) ==
    /\ g[a] \in Results(info)
    /\ VotesPre(info, a) /\ a.weight > Half(info) =>
          Solves(info, VotesTask(info, a), g[a], a.st, "votes", "bits")

LEMMA VotesStatus ==
    ASSUME NEW info, InfoOK(info), NEW a \in VotesNodes(info), a.branch <= Len(info.votes),
           NEW st \in Statuses
    PROVE  /\ \E c \in VotesBelow(info, a) :
                 /\ c = VoteExcluded(info, a, st) /\ c.weight \in Int
                 /\ c.st \in Statuses /\ c.st.bound = st.bound /\ c.st.ops >= st.ops
           /\ \E c \in VotesBelow(info, a) :
                 /\ c = VoteIncluded(info, a, st) /\ c.weight = a.weight
                 /\ c.st \in Statuses /\ c.st.bound = st.bound /\ c.st.ops >= st.ops
<1>1. /\ VoteExcluded(info, a, st) \in VotesNodes(info)
      /\ VoteExcluded(info, a, st).st \in Statuses
      /\ VoteExcluded(info, a, st).st.bound = st.bound
      /\ VoteExcluded(info, a, st).st.ops >= st.ops
  BY VotesChildren
<1>2. /\ VoteIncluded(info, a, st).weight = a.weight
      /\ VoteIncluded(info, a, st).st \in Statuses
      /\ VoteIncluded(info, a, st).st.bound = st.bound
      /\ VoteIncluded(info, a, st).st.ops >= st.ops
  BY VotesChildren
<1>3. VoteExcluded(info, a, st) \in VotesBelow(info, a) /\ VoteIncluded(info, a, st) \in VotesBelow(info, a)
  BY VotesChildrenBelow
<1>4. VoteExcluded(info, a, st).weight \in Int
  BY <1>1, FreeVotesType
<1> QED
  BY <1>1, <1>2, <1>3, <1>4

LEMMA VotesZeroSolved ==
    ASSUME NEW info, InfoOK(info), NEW a \in VotesNodes(info), VotesPre(info, a),
           a.branch <= Len(info.votes), a.weight > Half(info),
           NEW g, \A c \in VotesBelow(info, a) : VotesSolved(info, g, c),
           NEW st \in Statuses, NEW c, c = VoteExcluded(info, a, st)
    PROVE  /\ Solves(info, VotesTask(info, c), IfMajority(info, g, c), st, "votes", "bits")
           /\ IsTask(VotesTask(info, c))
<1>1. /\ c \in VotesBelow(info, a) /\ c.weight \in Int
      /\ c.st \in Statuses /\ c.st.bound = st.bound /\ c.st.ops >= st.ops
  BY VotesStatus
<1>2. VotesPre(info, c)
  BY VotesExcludedPart
<1>3. IsTask(VotesTask(info, c)) /\ Bounds(info, c, VotesTask(info, c))
  BY <1>2, VotesTaskType
<1>4. Solves(info, VotesTask(info, c), IfMajority(info, g, c), c.st, "votes", "bits")
  <2>1. CASE c.weight > info.total \div 2
    BY <1>1, <1>2, <2>1 DEF VotesSolved, IfMajority, Half
  <2>2. CASE ~(c.weight > info.total \div 2)
    <3>1. IfMajority(info, g, c) = NoSolution(c.st)
      BY <2>2 DEF IfMajority
    <3> QED
      BY <1>1, <1>3, <2>2, <3>1, SolvesNoMajority
  <2> QED
    BY <2>1, <2>2
<1> QED
  BY <1>1, <1>3, <1>4, SolvesLater

LEMMA VotesOneSolved ==
    ASSUME NEW info, InfoOK(info), NEW a \in VotesNodes(info), VotesPre(info, a),
           a.branch <= Len(info.votes), a.weight > Half(info),
           NEW g, \A c \in VotesBelow(info, a) : VotesSolved(info, g, c),
           NEW st \in Statuses, NEW c, c = VoteIncluded(info, a, st)
    PROVE  Solves(info, VotesTask(info, c), g[c], st, "votes", "bits") /\ IsTask(VotesTask(info, c))
<1>1. /\ c \in VotesBelow(info, a) /\ c.weight = a.weight
      /\ c.st \in Statuses /\ c.st.bound = st.bound /\ c.st.ops >= st.ops
  BY VotesStatus
<1>2. VotesPre(info, c)
  BY VotesIncludedPart
<1>3. Solves(info, VotesTask(info, c), g[c], c.st, "votes", "bits")
  BY <1>1, <1>2 DEF VotesSolved
<1>4. IsTask(VotesTask(info, c))
  BY <1>2, VotesTaskType
<1> QED
  BY <1>1, <1>3, <1>4, SolvesLater

LEMMA VotesStepSolves ==
    ASSUME NEW info, InfoOK(info), NEW a \in VotesNodes(info), VotesPre(info, a),
           a.weight > Half(info),
           NEW g, \A c \in VotesBelow(info, a) : VotesSolved(info, g, c),
           g[a] = VotesStep(info, g, a), g[a] \in Results(info)
    PROVE  Solves(info, VotesTask(info, a), g[a], a.st, "votes", "bits")
<1> DEFINE st == Tick(a.st, 1)
           t == VotesTask(info, a)
<1>0. a.weight \in Int /\ a.feeSum \in Int /\ a.included \in SUBSET DOMAIN info.bits
  BY FreeVotesType
<1>1. a.st \in Statuses /\ st \in Statuses /\ st.bound = a.st.bound /\ st.ops >= a.st.ops
  <2>1. a.st \in Statuses /\ 1 \in Nat /\ a.st.ops \in Nat
    BY DEF VotesNodes, Nodes, Statuses
  <2>2. st \in Statuses /\ st.bound = a.st.bound /\ st.ops = a.st.ops + 1
    BY <2>1, TickType
  <2> QED
    BY <2>1, <2>2
<1>2. IsTask(t) /\ Bounds(info, a, t)
  BY VotesTaskType
<1>3. Kinds("votes", "bits")
  BY DEF Kinds
<1>4. CASE a.branch > Len(info.votes)
  <2>1. g[a] = Leaf(info, st, a, {}, a.included)
    BY <1>4 DEF VotesStep
  <2>2. /\ t.free = {} /\ t.val[{}] = CalcValue(a.feeSum, a.weight, info.total)
        /\ t.wt[{}] = a.weight /\ t.rest[{}] = a.included
    BY <1>4, VotesLeafTask
  <2>3. {} \in SUBSET DOMAIN info.votes
    OBVIOUS
  <2> HIDE DEF st, t
  <2>4. Solves(info, t, Leaf(info, st, a, {}, a.included), st, "votes", "bits")
    BY <1>0, <1>1, <2>2, <2>3, SolvesLeaf
  <2>5. Solves(info, t, g[a], a.st, "votes", "bits")
    BY <1>1, <2>1, <2>4, SolvesLater
  <2> QED
    BY <2>5 DEF t
<1>5. CASE ~(a.branch > Len(info.votes)) /\ Cut(info, st, a)
  <2>1. g[a] = NoSolution(st)
    BY <1>5 DEF VotesStep
  <2> HIDE DEF st, t
  <2>2. Solves(info, t, NoSolution(st), st, "votes", "bits")
    BY <1>0, <1>1, <1>2, <1>5, SolvesCut
  <2>3. Solves(info, t, g[a], a.st, "votes", "bits")
    BY <1>1, <2>1, <2>2, SolvesLater
  <2> QED
    BY <2>3 DEF t
<1>6. CASE ~(a.branch > Len(info.votes)) /\ ~Cut(info, st, a)
  <2>0. a.branch <= Len(info.votes)
    BY <1>6, VotesBranch
  <2>1. CASE info.excludeFirst
    <3> DEFINE c0 == VoteExcluded(info, a, st)
               r0 == IfMajority(info, g, c0)
               c1 == VoteIncluded(info, a, r0.st)
               r1 == g[c1]
    <3>1. g[a] = [sol |-> Join(r0.sol, r1.sol, "votes", a.branch), st |-> r1.st]
      BY <1>6, <2>1 DEF VotesStep
    <3>2. g[a].sol = Join(r0.sol, r1.sol, "votes", a.branch) /\ g[a].st = r1.st
      BY <3>1
    <3> HIDE DEF st, t
    <3>3. Solves(info, VotesTask(info, c0), r0, st, "votes", "bits") /\ IsTask(VotesTask(info, c0))
      BY <1>1, <2>0, VotesZeroSolved
    <3>4. r0.st \in Statuses
      <4> HIDE DEF r0
      <4> QED
        BY <3>3 DEF Solves, Results
    <3>5. Solves(info, VotesTask(info, c1), r1, r0.st, "votes", "bits") /\ IsTask(VotesTask(info, c1))
      BY <2>0, <3>4, VotesOneSolved
    <3>6. Splits(VotesTask(info, a), VotesTask(info, c0), VotesTask(info, c1), a.branch)
      BY <1>1, <2>0, <3>4, VotesSplit
    <3> HIDE DEF c0, c1, r0, r1
    <3>7. Solves(info, t, g[a], st, "votes", "bits")
      BY <1>1, <1>3, <3>2, <3>3, <3>5, <3>6, SolvesExcludeFirst DEF t
    <3>8. Solves(info, t, g[a], a.st, "votes", "bits")
      BY <1>1, <3>7, SolvesLater
    <3> QED
      BY <3>8 DEF t
  <2>2. CASE ~info.excludeFirst
    <3> DEFINE c1 == VoteIncluded(info, a, st)
               r1 == g[c1]
               c0 == VoteExcluded(info, a, r1.st)
               r0 == IfMajority(info, g, c0)
    <3>1. g[a] = [sol |-> Join(r0.sol, r1.sol, "votes", a.branch), st |-> r0.st]
      BY <1>6, <2>2 DEF VotesStep
    <3>2. g[a].sol = Join(r0.sol, r1.sol, "votes", a.branch) /\ g[a].st = r0.st
      BY <3>1
    <3> HIDE DEF st, t
    <3>3. Solves(info, VotesTask(info, c1), r1, st, "votes", "bits") /\ IsTask(VotesTask(info, c1))
      BY <1>1, <2>0, VotesOneSolved
    <3>4. r1.st \in Statuses
      <4> HIDE DEF r1
      <4> QED
        BY <3>3 DEF Solves, Results
    <3>5. Solves(info, VotesTask(info, c0), r0, r1.st, "votes", "bits") /\ IsTask(VotesTask(info, c0))
      BY <2>0, <3>4, VotesZeroSolved
    <3>6. Splits(VotesTask(info, a), VotesTask(info, c0), VotesTask(info, c1), a.branch)
      BY <1>1, <2>0, <3>4, VotesSplit
    <3> HIDE DEF c0, c1, r0, r1
    <3>7. Solves(info, t, g[a], st, "votes", "bits")
      BY <1>1, <1>3, <3>2, <3>3, <3>5, <3>6, SolvesIncludeFirst DEF t
    <3>8. Solves(info, t, g[a], a.st, "votes", "bits")
      BY <1>1, <3>7, SolvesLater
    <3> QED
      BY <3>8 DEF t
  <2> QED
    BY <2>1, <2>2
<1> QED
  BY <1>4, <1>5, <1>6

\* The search over the votes does so at every node.
LEMMA VotesSearchSolves ==
    ASSUME NEW info, InfoOK(info), NEW a \in VotesNodes(info)
    PROVE  VotesSolved(info, BranchVotes(info), a)
<1> DEFINE g == BranchVotes(info)
<1>1. \A c \in VotesNodes(info) : g[c] = VotesStep(info, g, c) /\ g[c] \in Results(info)
  BY VotesSearch
<1> HIDE DEF g
<1> DEFINE T == {k \in Nat : \E c \in VotesFrom(info, k) : ~VotesSolved(info, g, c)}
<1>2. T = {}
  <2> SUFFICES ASSUME T # {} PROVE FALSE
    OBVIOUS
  <2>1. PICK k \in T : \A l \in T : k <= l
    <3>1. T \in SUBSET Nat
      OBVIOUS
    <3> HIDE DEF T
    <3> QED
      BY <3>1, LeastNumber
  <2>2. PICK c \in VotesFrom(info, k) : ~VotesSolved(info, g, c)
    OBVIOUS
  <2>3. \A d \in VotesBelow(info, c) : VotesSolved(info, g, d)
    <3> SUFFICES ASSUME NEW d \in VotesBelow(info, c) PROVE VotesSolved(info, g, d)
      OBVIOUS
    <3>1. k # 0 /\ d \in VotesFrom(info, k - 1)
      BY <2>2, VotesBranch DEF VotesFrom, VotesBelow
    <3>2. k - 1 \in Nat /\ k - 1 \notin T
      BY <2>1, <3>1
    <3> QED
      BY <3>1, <3>2
  <2>4. c \in VotesNodes(info) /\ g[c] = VotesStep(info, g, c) /\ g[c] \in Results(info)
    BY <1>1, <2>2 DEF VotesFrom
  <2> HIDE DEF T
  <2>5. ASSUME VotesPre(info, c), c.weight > Half(info)
        PROVE  Solves(info, VotesTask(info, c), g[c], c.st, "votes", "bits")
    BY <2>3, <2>4, <2>5, VotesStepSolves
  <2> QED
    BY <2>2, <2>4, <2>5 DEF VotesSolved
<1>3. Len(info.votes) \in Nat /\ a \in VotesFrom(info, Len(info.votes))
  BY VotesBranch DEF VotesFrom
<1> QED
  BY <1>2, <1>3 DEF g

-----------------------------------------------------------------------------
(* What BranchAndBoundBits and BranchAndBoundVotes return.                 *)

InfoFull(info) ==
    /\ InfoOK(info)
    /\ info.assumedWeight \in Nat /\ info.assumedFees \in Nat
    /\ info.weightVoted = info.assumedWeight + VotesWeight(info.votes, DOMAIN info.votes)
    /\ info.weightVoted > Half(info)

\* The weight behind the bits B, their fees and what they are worth.
SuppWeight(info, B) ==
    info.assumedWeight + VotesWeight(info.votes, AllFor(info, DOMAIN info.votes, B))
SuppFees(info, B) == info.assumedFees + FeesOf(info, B)
SuppValue(info, B) == CalcValue(SuppFees(info, B), SuppWeight(info, B), info.total)

\* Nothing, or bits with a majority and their value, the best one if optimal.
IsBest(info, v) ==
    \A B \in SUBSET DOMAIN info.bits :
        SuppWeight(info, B) > Half(info) => ~Greater(SuppValue(info, B), v)

BitsSet(info, B) == {info.bits[i] : i \in B}

Answer(info, q) ==
    \/ q = [bits |-> {}, value |-> <<0, 0>>, optimal |-> FALSE]
    \/ \E B \in SUBSET DOMAIN info.bits :
          /\ q.bits = BitsSet(info, B) /\ q.value = SuppValue(info, B)
          /\ SuppWeight(info, B) > Half(info)
          /\ q.optimal \in BOOLEAN
          /\ q.optimal => IsBest(info, q.value)

\* All votes for all bits that a set of votes is for, and the other way round.
LEMMA ClosureBits ==
    ASSUME NEW info, NEW D, NEW E, NEW B \in SUBSET D, NEW A, A = AllFor(info, E, B)
    PROVE  /\ B \in SUBSET AllOf(info, D, A)
           /\ B \cup AllOf(info, D, A) \in SUBSET D
           /\ AllFor(info, E, B \cup AllOf(info, D, A)) = A
BY DEF AllFor, AllOf

LEMMA ClosureVotes ==
    ASSUME NEW info, NEW D, NEW E, NEW A \in SUBSET E, NEW B, B = AllOf(info, D, A)
    PROVE  /\ A \in SUBSET AllFor(info, E, B)
           /\ A \cup AllFor(info, E, B) = AllFor(info, E, B)
BY DEF AllFor, AllOf

LEMMA SuppTypes ==
    ASSUME NEW info, InfoFull(info), NEW B \in SUBSET DOMAIN info.bits
    PROVE  /\ SuppWeight(info, B) \in Nat /\ SuppFees(info, B) \in Nat
           /\ SuppValue(info, B) \in Values /\ info.total \in Nat
<1>1. AllFor(info, DOMAIN info.votes, B) \in SUBSET DOMAIN info.votes
  BY DEF AllFor
<1>2. /\ VotesWeight(info.votes, AllFor(info, DOMAIN info.votes, B)) \in Nat
      /\ FeesOf(info, B) \in Nat
  BY <1>1, InfoTypes DEF InfoFull
<1>3. SuppWeight(info, B) \in Nat /\ SuppFees(info, B) \in Nat /\ info.total \in Nat
  BY <1>2 DEF SuppWeight, SuppFees, InfoFull, InfoOK
<1> QED
  BY <1>3, CalcType DEF SuppValue

\* The root of a search.
LEMMA RootType ==
    ASSUME NEW info, InfoFull(info), NEW bound \in Values
    PROVE  /\ Root(info, bound, DOMAIN info.votes) \in BitsNodes(info)
           /\ Root(info, bound, DOMAIN info.bits) \in VotesNodes(info)
<1>1. /\ FeesOf(info, DOMAIN info.bits) \in Nat
      /\ VotesWeight(info.votes, DOMAIN info.votes) \in Nat
  BY InfoTypes DEF InfoFull
<1>2. /\ info.weightVoted \in Int /\ info.assumedFees + FeesOf(info, DOMAIN info.bits) \in Int
  BY <1>1 DEF InfoFull
<1>3. 1 \in 1..(Len(info.bits) + 1) /\ 1 \in 1..(Len(info.votes) + 1)
  BY DEF InfoFull, InfoOK
<1>4. [bound |-> bound, ops |-> 0] \in [bound : Int \X Int, ops : Nat]
  BY DEF Values
<1> QED
  BY <1>2, <1>3, <1>4 DEF Root, BitsNodes, VotesNodes, Nodes

\* The tasks at the roots.
LEMMA BitsRoot ==
    ASSUME NEW info, InfoFull(info), NEW bound \in Values, NEW a,
           a = Root(info, bound, DOMAIN info.votes)
    PROVE  /\ BitsPre(info, a) /\ a.weight > Half(info)
           /\ FreeBits(info, a) = DOMAIN info.bits
           /\ \A B \in SUBSET DOMAIN info.bits :
                 /\ WeightOfBits(info, a, B) = SuppWeight(info, B)
                 /\ FeesOfBits(info, a, B) = SuppFees(info, B)
           /\ a.included = DOMAIN info.votes
<1>0. InfoOK(info) /\ info.assumedWeight \in Nat /\ info.assumedFees \in Nat
  BY DEF InfoFull
<1>1. /\ a.branch = 1 /\ a.included = DOMAIN info.votes
      /\ a.weight = info.assumedWeight + VotesWeight(info.votes, DOMAIN info.votes)
      /\ a.weight > Half(info)
      /\ a.feeSum = info.assumedFees + FeesOf(info, DOMAIN info.bits)
  BY DEF Root, InfoFull
<1>2. FreeBits(info, a) = DOMAIN info.bits
  BY <1>0, <1>1 DEF FreeBits, InfoOK
<1>3. FeesOf(info, DOMAIN info.bits) \in Nat
  BY <1>0, InfoTypes
<1>4. BitsPre(info, a)
  <2>1. FeesOf(info, DOMAIN info.bits) <= a.feeSum
    BY <1>0, <1>1, <1>3
  <2>2. a \in BitsNodes(info)
    BY RootType
  <2> QED
    BY <1>2, <2>1, <2>2 DEF BitsPre
<1>5. ASSUME NEW B \in SUBSET DOMAIN info.bits
      PROVE  /\ WeightOfBits(info, a, B) = SuppWeight(info, B)
             /\ FeesOfBits(info, a, B) = SuppFees(info, B)
  <2> DEFINE E == DOMAIN info.votes
             R == AllFor(info, E, B)
             no == E \ R
             out == DOMAIN info.bits \ B
  <2>1. R \in SUBSET E /\ no \in SUBSET E /\ R \cap no = {} /\ R \cup no = E
    BY DEF AllFor
  <2>2. out \in SUBSET DOMAIN info.bits /\ B \cap out = {} /\ B \cup out = DOMAIN info.bits
    OBVIOUS
  <2>3. /\ WeightOfBits(info, a, B) = a.weight - VotesWeight(info.votes, no)
        /\ FeesOfBits(info, a, B) = a.feeSum - FeesOf(info, out)
        /\ SuppWeight(info, B) = info.assumedWeight + VotesWeight(info.votes, R)
    BY <1>1, <1>2 DEF WeightOfBits, FeesOfBits, SuppWeight
  <2> HIDE DEF R, no, out
  <2>4. /\ VotesWeight(info.votes, R \cup no) =
              VotesWeight(info.votes, R) + VotesWeight(info.votes, no)
        /\ VotesWeight(info.votes, R) \in Nat /\ VotesWeight(info.votes, no) \in Nat
    BY <1>0, <2>1, WeightAdd
  <2>5. /\ FeesOf(info, B \cup out) = FeesOf(info, B) + FeesOf(info, out)
        /\ FeesOf(info, B) \in Nat /\ FeesOf(info, out) \in Nat
    BY <1>0, <2>2, FeesAdd
  <2>6. a.weight = info.assumedWeight + (VotesWeight(info.votes, R) + VotesWeight(info.votes, no))
    BY <1>1, <2>1, <2>4
  <2>7. a.feeSum = info.assumedFees + (FeesOf(info, B) + FeesOf(info, out))
    BY <1>1, <2>2, <2>5
  <2>8. WeightOfBits(info, a, B) = SuppWeight(info, B)
    BY <1>0, <2>3, <2>4, <2>6
  <2>9. FeesOfBits(info, a, B) = SuppFees(info, B)
    BY <1>0, <2>3, <2>5, <2>7 DEF SuppFees
  <2> QED
    BY <2>8, <2>9
<1> QED
  BY <1>1, <1>2, <1>4, <1>5

LEMMA VotesRoot ==
    ASSUME NEW info, InfoFull(info), NEW bound \in Values, NEW a,
           a = Root(info, bound, DOMAIN info.bits)
    PROVE  /\ VotesPre(info, a) /\ a.weight > Half(info)
           /\ FreeVotes(info, a) = DOMAIN info.votes
           /\ \A A \in SUBSET DOMAIN info.votes :
                 /\ WeightOfVotes(info, a, A) = info.assumedWeight + VotesWeight(info.votes, A)
                 /\ FeesOfVotes(info, a, A) = SuppFees(info, AllOf(info, DOMAIN info.bits, A))
           /\ a.included = DOMAIN info.bits
<1>0. InfoOK(info) /\ info.assumedWeight \in Nat /\ info.assumedFees \in Nat
  BY DEF InfoFull
<1>1. /\ a.branch = 1 /\ a.included = DOMAIN info.bits
      /\ a.weight = info.assumedWeight + VotesWeight(info.votes, DOMAIN info.votes)
      /\ a.weight > Half(info)
      /\ a.feeSum = info.assumedFees + FeesOf(info, DOMAIN info.bits)
  BY DEF Root, InfoFull
<1>2. FreeVotes(info, a) = DOMAIN info.votes
  BY <1>0, <1>1 DEF FreeVotes, InfoOK
<1>3. FeesOf(info, DOMAIN info.bits) \in Nat
  BY <1>0, InfoTypes
<1>4. VotesPre(info, a)
  <2>1. FeesOf(info, DOMAIN info.bits) <= a.feeSum
    BY <1>0, <1>1, <1>3
  <2>2. a \in VotesNodes(info)
    BY RootType
  <2> QED
    BY <1>1, <2>1, <2>2 DEF VotesPre
<1>5. ASSUME NEW A \in SUBSET DOMAIN info.votes
      PROVE  /\ WeightOfVotes(info, a, A) = info.assumedWeight + VotesWeight(info.votes, A)
             /\ FeesOfVotes(info, a, A) = SuppFees(info, AllOf(info, DOMAIN info.bits, A))
  <2> DEFINE E == DOMAIN info.bits
             R == AllOf(info, E, A)
             no == E \ R
             out == DOMAIN info.votes \ A
  <2>1. R \in SUBSET E /\ no \in SUBSET E /\ R \cap no = {} /\ R \cup no = E
    BY DEF AllOf
  <2>2. out \in SUBSET DOMAIN info.votes /\ A \cap out = {} /\ A \cup out = DOMAIN info.votes
    OBVIOUS
  <2>3. /\ FeesOfVotes(info, a, A) = a.feeSum - FeesOf(info, no)
        /\ WeightOfVotes(info, a, A) = a.weight - VotesWeight(info.votes, out)
        /\ SuppFees(info, R) = info.assumedFees + FeesOf(info, R)
    BY <1>1, <1>2 DEF WeightOfVotes, FeesOfVotes, SuppFees
  <2> HIDE DEF R, no, out
  <2>4. /\ VotesWeight(info.votes, A \cup out) =
              VotesWeight(info.votes, A) + VotesWeight(info.votes, out)
        /\ VotesWeight(info.votes, A) \in Nat /\ VotesWeight(info.votes, out) \in Nat
    BY <1>0, <2>2, WeightAdd
  <2>5. /\ FeesOf(info, R \cup no) = FeesOf(info, R) + FeesOf(info, no)
        /\ FeesOf(info, R) \in Nat /\ FeesOf(info, no) \in Nat
    BY <1>0, <2>1, FeesAdd
  <2>6. a.weight = info.assumedWeight + (VotesWeight(info.votes, A) + VotesWeight(info.votes, out))
    BY <1>1, <2>2, <2>4
  <2>7. a.feeSum = info.assumedFees + (FeesOf(info, R) + FeesOf(info, no))
    BY <1>1, <2>1, <2>5
  <2>8. WeightOfVotes(info, a, A) = info.assumedWeight + VotesWeight(info.votes, A)
    BY <1>0, <2>3, <2>4, <2>6
  <2>9. FeesOfVotes(info, a, A) = SuppFees(info, R)
    BY <1>0, <2>3, <2>5, <2>7
  <2> QED
    BY <2>8, <2>9 DEF R
<1> QED
  BY <1>1, <1>2, <1>4, <1>5

\* What is made of the result of a search.
LEMMA SolutionNone ==
    ASSUME NEW info, NEW res, NEW maximized, res.sol = {}
    PROVE  Answer(info, Solution(info, res, maximized))
BY DEF Solution, Answer

LEMMA SolutionSome ==
    ASSUME NEW info, NEW res, NEW s, res.sol = {s}, NEW m,
           NEW s1, s1 = IF res.st.ops < info.maxOps THEN s ELSE m,
           s1.bits \in SUBSET DOMAIN info.bits, s1.value = SuppValue(info, s1.bits),
           SuppWeight(info, s1.bits) > Half(info),
           res.st.ops < info.maxOps => IsBest(info, s1.value)
    PROVE  Answer(info, Solution(info, res, {m}))
<1> DEFINE optimal == res.st.ops < info.maxOps
           q == Solution(info, res, {m})
<1>1. (CHOOSE x \in (IF optimal THEN res.sol ELSE {m}) : TRUE) = s1
  OBVIOUS
<1>2. q = [bits |-> BitsSet(info, s1.bits), value |-> s1.value, optimal |-> optimal]
  <2>1. res.sol # {}
    OBVIOUS
  <2> QED
    BY <1>1, <2>1 DEF Solution, BitsSet
<1>3. q.bits = BitsSet(info, s1.bits) /\ q.value = s1.value /\ q.optimal = optimal
  BY <1>2
<1>4. optimal \in BOOLEAN
  OBVIOUS
<1> HIDE DEF optimal, q
<1>5. optimal => IsBest(info, s1.value)
  BY DEF optimal
<1>6. Answer(info, q)
  BY <1>3, <1>4, <1>5 DEF Answer
<1> QED
  BY <1>6 DEF q

LEMMA BitsAnswer ==
    ASSUME NEW info, InfoFull(info), NEW bound \in Values
    PROVE  Answer(info, BranchAndBoundBits(info, bound))
<1> DEFINE a == Root(info, bound, DOMAIN info.votes)
           res == BranchBits(info)[a]
           D == DOMAIN info.bits
           E == DOMAIN info.votes
           maximized == {MaximizeBits(info, s) : s \in res.sol}
<1>0. InfoOK(info)
  BY DEF InfoFull
<1>1. BranchAndBoundBits(info, bound) = Solution(info, res, maximized)
  BY DEF BranchAndBoundBits
<1>2. /\ BitsPre(info, a) /\ a.weight > Half(info)
      /\ FreeBits(info, a) = D
      /\ \A B \in SUBSET D :
            /\ WeightOfBits(info, a, B) = SuppWeight(info, B)
            /\ FeesOfBits(info, a, B) = SuppFees(info, B)
      /\ a.included = E
  BY BitsRoot
<1>3. Solves(info, BitsTask(info, a), res, a.st, "bits", "votes")
  <2>1. a \in BitsNodes(info)
    BY <1>2 DEF BitsPre
  <2>2. BitsSolved(info, BranchBits(info), a)
    BY <1>0, <2>1, BitsSearchSolves
  <2> HIDE DEF a
  <2> QED
    BY <1>2, <2>2 DEF BitsSolved
<1> DEFINE t == BitsTask(info, a)
<1>4. t.free = D /\ \A B \in SUBSET D : /\ t.wt[B] = SuppWeight(info, B)
                                      /\ t.val[B] = SuppValue(info, B)
                                      /\ t.rest[B] = AllFor(info, E, B)
  <2> HIDE DEF a
  <2> QED
    BY <1>2, BitsTaskFields DEF SuppValue
<1> HIDE DEF a, res, t
<1>5. CASE res.sol = {}
  BY <1>1, <1>5, SolutionNone
<1>6. CASE res.sol # {}
  <2>1. PICK s : res.sol = {s} /\ s.value = res.st.bound
    BY <1>3, <1>6 DEF Solves, Improves
  <2>2. s \in Partials(info) /\ SolutionFor(info, t, s, "bits", "votes")
    BY <1>3, <2>1 DEF Solves, Results, t
  <2>3. /\ s.bits \in SUBSET D /\ s.votes = AllFor(info, E, s.bits)
        /\ s.value = SuppValue(info, s.bits) /\ SuppWeight(info, s.bits) > Half(info)
    <3>1. Part(s, "bits") = s.bits /\ Part(s, "votes") = s.votes
      BY <2>2 DEF Part, Partials
    <3> QED
      BY <1>4, <2>2, <3>1 DEF SolutionFor
  <2> DEFINE m == MaximizeBits(info, s)
             more == AllOf(info, D, s.votes)
             all == s.bits \cup more
  <2>4. res.st.ops < info.maxOps => IsBest(info, s.value)
    BY <1>3, <1>4, <2>1 DEF Solves, Exhausted, IsBest, t
  <2>5. /\ m.bits = all
        /\ m.value = CalcValue(info.assumedFees + FeesOf(info, all),
                               info.assumedWeight + VotesWeight(info.votes, s.votes), info.total)
    <3>1. {i \in DOMAIN info.bits : \A j \in s.votes : Supports(info, j, i)} = more
      BY DEF AllOf
    <3> HIDE DEF all, more
    <3> DEFINE max == [s EXCEPT !.bits = all]
    <3>2. m = [max EXCEPT !.value = CalcValueFromFees(info, max)]
      BY <3>1 DEF MaximizeBits, all
    <3>3. max.bits = all /\ max.votes = s.votes /\ max \in [votes : SUBSET DOMAIN info.votes, bits : {all}, value : Int \X Int]
      BY <2>2 DEF Partials
    <3>4. CalcValueFromFees(info, max) =
            CalcValue(info.assumedFees + FeesOf(info, all),
                      info.assumedWeight + VotesWeight(info.votes, s.votes), info.total)
      BY <3>3 DEF CalcValueFromFees
    <3> HIDE DEF max, m
    <3> QED
      BY <3>2, <3>3, <3>4
  <2>6. all \in SUBSET D /\ AllFor(info, E, all) = s.votes
    <3> HIDE DEF D, E
    <3> QED
      BY <2>3, ClosureBits
  <2>7. SuppWeight(info, all) = SuppWeight(info, s.bits) /\ m.value = SuppValue(info, all)
    <3> HIDE DEF all, m
    <3> QED
      BY <2>3, <2>5, <2>6 DEF SuppWeight, SuppValue, SuppFees
  <2>8. maximized = {m}
    BY <2>1
  <2> HIDE DEF m, all, maximized
  <2> DEFINE s1 == IF res.st.ops < info.maxOps THEN s ELSE m
  <2>9. /\ s1.bits \in SUBSET DOMAIN info.bits /\ s1.value = SuppValue(info, s1.bits)
        /\ SuppWeight(info, s1.bits) > Half(info)
        /\ res.st.ops < info.maxOps => IsBest(info, s1.value)
    BY <2>3, <2>4, <2>5, <2>6, <2>7
  <2>13. s1 = IF res.st.ops < info.maxOps THEN s ELSE m
    OBVIOUS
  <2> HIDE DEF s1, D, E
  <2>14. Answer(info, Solution(info, res, {m}))
    BY <2>1, <2>9, <2>13, SolutionSome
  <2> QED
    BY <1>1, <2>8, <2>14
<1> QED
  BY <1>5, <1>6

LEMMA VotesAnswer ==
    ASSUME NEW info, InfoFull(info), NEW bound \in Values
    PROVE  Answer(info, BranchAndBoundVotes(info, bound))
<1> DEFINE a == Root(info, bound, DOMAIN info.bits)
           res == BranchVotes(info)[a]
           D == DOMAIN info.bits
           E == DOMAIN info.votes
           W(A) == info.assumedWeight + VotesWeight(info.votes, A)
           maximized == {MaximizeVotes(info, s) : s \in res.sol}
<1>0. InfoOK(info)
  BY DEF InfoFull
<1>1. BranchAndBoundVotes(info, bound) = Solution(info, res, maximized)
  BY DEF BranchAndBoundVotes
<1>2. /\ VotesPre(info, a) /\ a.weight > Half(info)
      /\ FreeVotes(info, a) = E
      /\ \A A \in SUBSET E :
            /\ WeightOfVotes(info, a, A) = W(A)
            /\ FeesOfVotes(info, a, A) = SuppFees(info, AllOf(info, D, A))
      /\ a.included = D
  BY VotesRoot
<1>3. Solves(info, VotesTask(info, a), res, a.st, "votes", "bits")
  <2>1. a \in VotesNodes(info)
    BY <1>2 DEF VotesPre
  <2>2. VotesSolved(info, BranchVotes(info), a)
    BY <1>0, <2>1, VotesSearchSolves
  <2> HIDE DEF a
  <2> QED
    BY <1>2, <2>2 DEF VotesSolved
<1> DEFINE t == VotesTask(info, a)
<1> HIDE DEF W
<1>4. t.free = E /\ \A A \in SUBSET E :
          /\ t.wt[A] = W(A)
          /\ t.val[A] = CalcValue(SuppFees(info, AllOf(info, D, A)), W(A), info.total)
          /\ t.rest[A] = AllOf(info, D, A)
  <2> HIDE DEF a
  <2> QED
    BY <1>2, VotesTaskFields
<1>5. \A B : W(AllFor(info, E, B)) = SuppWeight(info, B)
  BY DEF W, SuppWeight
<1> HIDE DEF a, res, t
<1>6. \A A \in SUBSET E : W(A) \in Nat
  BY <1>0, InfoTypes DEF W, InfoFull
<1>7. ASSUME NEW A \in SUBSET E, NEW A1 \in SUBSET A PROVE W(A1) <= W(A)
  <2> DEFINE A2 == A \ A1
  <2>1. A1 \in SUBSET E /\ A2 \in SUBSET E /\ A1 \cap A2 = {} /\ A1 \cup A2 = A
    OBVIOUS
  <2> HIDE DEF A2
  <2>2. /\ VotesWeight(info.votes, A1 \cup A2) =
              VotesWeight(info.votes, A1) + VotesWeight(info.votes, A2)
        /\ VotesWeight(info.votes, A1) \in Nat /\ VotesWeight(info.votes, A2) \in Nat
    BY <1>0, <2>1, WeightAdd
  <2>3. info.assumedWeight \in Nat
    BY DEF InfoFull
  <2>4. W(A) = info.assumedWeight + (VotesWeight(info.votes, A1) + VotesWeight(info.votes, A2))
    BY <2>1, <2>2 DEF W
  <2>5. W(A1) = info.assumedWeight + VotesWeight(info.votes, A1)
    BY DEF W
  <2> QED
    BY <2>2, <2>3, <2>4, <2>5
<1>8. CASE res.sol = {}
  BY <1>1, <1>8, SolutionNone
<1>9. CASE res.sol # {}
  <2>1. PICK s : res.sol = {s} /\ s.value = res.st.bound
    BY <1>3, <1>9 DEF Solves, Improves
  <2>2. s \in Partials(info) /\ SolutionFor(info, t, s, "votes", "bits")
    BY <1>3, <2>1 DEF Solves, Results, t
  <2> DEFINE all == AllFor(info, E, s.bits)
  <2>3. /\ s.votes \in SUBSET E /\ s.bits = AllOf(info, D, s.votes)
        /\ s.value = CalcValue(SuppFees(info, s.bits), W(s.votes), info.total)
        /\ W(s.votes) > Half(info)
    <3>1. Part(s, "bits") = s.bits /\ Part(s, "votes") = s.votes
      BY <2>2 DEF Part, Partials
    <3> QED
      BY <1>4, <2>2, <3>1 DEF SolutionFor
  <2>4. /\ s.bits \in SUBSET D /\ all \in SUBSET E /\ s.votes \in SUBSET all
        /\ s.votes \cup all = all /\ AllOf(info, D, all) = s.bits
    <3>1. s.bits \in SUBSET D /\ {} \in SUBSET D /\ all \in SUBSET E
      BY <2>3 DEF AllOf, AllFor
    <3>2. s.votes \in SUBSET all /\ s.votes \cup all = all
      <4> HIDE DEF D, E
      <4> QED
        BY <2>3, ClosureVotes
    <3>3. s.bits \in SUBSET AllOf(info, D, all)
      <4>1. all = AllFor(info, E, s.bits)
        OBVIOUS
      <4> HIDE DEF D, E, all
      <4> QED
        BY <3>1, <4>1 DEF AllOf, AllFor
    <3>4. AllOf(info, D, all) \in SUBSET AllOf(info, D, s.votes)
      <4> HIDE DEF all
      <4> QED
        BY <3>2 DEF AllOf
    <3> QED
      BY <2>3, <3>1, <3>2, <3>3, <3>4
  <2>5. /\ W(s.votes) \in Nat /\ W(all) \in Nat /\ W(s.votes) <= W(all)
        /\ W(all) = SuppWeight(info, s.bits)
        /\ SuppFees(info, s.bits) \in Nat /\ info.total \in Nat /\ Half(info) \in Int
    <3>1. W(s.votes) \in Nat /\ W(all) \in Nat /\ W(s.votes) <= W(all)
      <4> HIDE DEF all
      <4> QED
        BY <1>6, <1>7, <2>3, <2>4
    <3>2. SuppFees(info, s.bits) \in Nat /\ info.total \in Nat
      BY <2>4, SuppTypes
    <3> QED
      BY <1>5, <3>1, <3>2 DEF Half
  <2>6. SuppWeight(info, s.bits) > Half(info)
    BY <2>3, <2>5
  <2>7. ASSUME res.st.ops < info.maxOps
        PROVE  \A A \in SUBSET E : W(A) > Half(info) =>
                  ~Greater(CalcValue(SuppFees(info, AllOf(info, D, A)), W(A), info.total), s.value)
    <3>1. Exhausted(info, t, s.value)
      BY <1>3, <2>1, <2>7 DEF Solves, t
    <3> QED
      BY <1>4, <3>1 DEF Exhausted
  <2>8. ASSUME res.st.ops < info.maxOps
        PROVE  s.value = SuppValue(info, s.bits)
    <3> DEFINE v == CalcValue(SuppFees(info, s.bits), W(all), info.total)
    <3> HIDE DEF all
    <3>1. ~Greater(v, s.value)
      <4>1. W(all) > Half(info)
        BY <2>5, <2>6
      <4> QED
        BY <2>4, <2>7, <2>8, <4>1
    <3>2. ~Greater(s.value, v)
      BY <2>3, <2>5, CalcGrows
    <3>3. v \in Values /\ s.value \in Values
      BY <2>3, <2>5, CalcType
    <3>4. v = SuppValue(info, s.bits)
      BY <2>5 DEF SuppValue
    <3> HIDE DEF v
    <3>5. v = s.value
      BY <3>1, <3>2, <3>3, ValuesOrdered
    <3> QED
      BY <3>4, <3>5
  <2>9. ASSUME res.st.ops < info.maxOps
        PROVE  IsBest(info, s.value)
    <3> SUFFICES ASSUME NEW B \in SUBSET D, SuppWeight(info, B) > Half(info)
                 PROVE  ~Greater(SuppValue(info, B), s.value)
      BY DEF IsBest
    <3> DEFINE A == AllFor(info, E, B)
               B1 == AllOf(info, D, A)
    <3>1. A \in SUBSET E /\ B \in SUBSET B1 /\ B1 \in SUBSET D
      <4>1. A \in SUBSET E /\ B1 \in SUBSET D
        BY DEF AllFor, AllOf
      <4>3. A = AllFor(info, E, B)
        OBVIOUS
      <4> HIDE DEF D, E, A, B1
      <4>2. B \in SUBSET AllOf(info, D, A)
        BY <4>3 DEF AllOf, AllFor
      <4> QED
        BY <4>1, <4>2 DEF B1
    <3>2. W(A) = SuppWeight(info, B) /\ W(A) \in Nat
      BY <1>5, <1>6, <3>1
    <3>3. ~Greater(CalcValue(SuppFees(info, B1), W(A), info.total), s.value)
      BY <2>7, <2>9, <3>1, <3>2
    <3>4. /\ SuppFees(info, B) \in Nat /\ SuppFees(info, B1) \in Nat
          /\ SuppFees(info, B) <= SuppFees(info, B1)
      <4> DEFINE B2 == B1 \ B
      <4>1. B2 \in SUBSET D /\ B \cap B2 = {} /\ B \cup B2 = B1
        BY <3>1
      <4> HIDE DEF B1, B2, A
      <4>2. /\ FeesOf(info, B \cup B2) = FeesOf(info, B) + FeesOf(info, B2)
            /\ FeesOf(info, B) \in Nat /\ FeesOf(info, B2) \in Nat
        BY <1>0, <4>1, FeesAdd
      <4>3. /\ SuppFees(info, B) = info.assumedFees + FeesOf(info, B)
            /\ SuppFees(info, B1) = info.assumedFees + (FeesOf(info, B) + FeesOf(info, B2))
            /\ info.assumedFees \in Nat
        BY <4>1, <4>2 DEF SuppFees, InfoFull
      <4> QED
        BY <4>2, <4>3
    <3> HIDE DEF A, B1
    <3>5. ~Greater(SuppValue(info, B), CalcValue(SuppFees(info, B1), W(A), info.total))
      <4>1. W(A) <= W(A)
        BY <3>2
      <4>2. ~Greater(CalcValue(SuppFees(info, B), W(A), info.total),
                     CalcValue(SuppFees(info, B1), W(A), info.total))
        BY <2>5, <3>2, <3>4, <4>1, CalcGrows
      <4> QED
        BY <3>2, <4>2 DEF SuppValue
    <3>6. /\ CalcValue(SuppFees(info, B1), W(A), info.total) \in Values
          /\ SuppValue(info, B) \in Values /\ s.value \in Values
      BY <2>3, <2>5, <3>2, <3>4, CalcType, SuppTypes
    <3> QED
      BY <3>3, <3>5, <3>6, ValuesOrdered
  <2> DEFINE m == MaximizeVotes(info, s)
  <2>10. m.bits = s.bits /\ m.value = SuppValue(info, s.bits)
    <3>1. {j \in DOMAIN info.votes : \A i \in s.bits : Supports(info, j, i)} = all
      BY DEF AllFor
    <3>2. s.votes \cup all = all
      BY <2>4
    <3>0. VotesWeight(info.votes, all) = VotesWeight(info.votes, AllFor(info, DOMAIN info.votes, s.bits))
      OBVIOUS
    <3> HIDE DEF all
    <3> DEFINE max == [s EXCEPT !.votes = all]
    <3>3. m = [max EXCEPT !.value = CalcValueFromFees(info, max)]
      BY <3>1, <3>2 DEF MaximizeVotes
    <3>4. max.bits = s.bits /\ max.votes = all
          /\ max \in [votes : {all}, bits : SUBSET DOMAIN info.bits, value : Int \X Int]
      BY <2>2 DEF Partials
    <3>5. CalcValueFromFees(info, max) = SuppValue(info, s.bits)
      BY <3>0, <3>4 DEF CalcValueFromFees, SuppValue, SuppFees, SuppWeight
    <3> HIDE DEF max, m
    <3> QED
      BY <3>3, <3>4, <3>5
  <2>11. maximized = {m}
    BY <2>1
  <2> HIDE DEF m, all, maximized
  <2> DEFINE s1 == IF res.st.ops < info.maxOps THEN s ELSE m
  <2>12. /\ s1.bits \in SUBSET DOMAIN info.bits /\ s1.value = SuppValue(info, s1.bits)
         /\ SuppWeight(info, s1.bits) > Half(info)
         /\ res.st.ops < info.maxOps => IsBest(info, s1.value)
    BY <2>4, <2>6, <2>8, <2>9, <2>10
  <2>13. s1 = IF res.st.ops < info.maxOps THEN s ELSE m
    OBVIOUS
  <2> HIDE DEF s1, D, E
  <2>14. Answer(info, Solution(info, res, {m}))
    BY <2>1, <2>12, <2>13, SolutionSome
  <2> QED
    BY <1>1, <2>11, <2>14
<1> QED
  BY <1>8, <1>9

-----------------------------------------------------------------------------
(* The sequences the searches work on: the aggregated votes and bits, each *)
(* once, in whatever order.                                                *)

Enumerates(q, S) ==
    /\ Len(q) \in Nat /\ DOMAIN q = 1..Len(q)
    /\ \A i \in DOMAIN q : q[i] \in S
    /\ \A i, j \in DOMAIN q : q[i] = q[j] => i = j
    /\ \A x \in S : \E i \in DOMAIN q : q[i] = x

LEMMA FunctionIsSequence ==
    ASSUME NEW S, NEW n \in Nat, NEW q \in [1..n -> S]
    PROVE  Len(q) \in Nat /\ DOMAIN q = 1..Len(q)
<1>1. q \in Seq(S)
  OBVIOUS
<1> QED
  BY <1>1

\* An injective sequence of the right length has all elements.
LEMMA InjectiveEnumerates ==
    ASSUME NEW S, IsFiniteSet(S), NEW q \in [1..Cardinality(S) -> S],
           \A i, j \in DOMAIN q : q[i] = q[j] => i = j
    PROVE  Enumerates(q, S)
<1> DEFINE n == Cardinality(S)
<1>1. n \in Nat
  BY FS_CardinalityType
<1>2. Cardinality(1..n) = n
  <2>1. 1 \in Int /\ n \in Int
    BY <1>1
  <2> HIDE DEF n
  <2>2. Cardinality(1..n) = IF 1 > n THEN 0 ELSE n - 1 + 1
    BY <2>1, FS_Interval
  <2> QED
    BY <1>1, <2>2
<1>3. q \in Injection(1..n, S)
  BY Fun_IsInj
<1>4. q \in Surjection(1..n, S)
  <2> HIDE DEF n
  <2>1. Cardinality(1..n) = Cardinality(S)
    BY <1>2 DEF n
  <2> QED
    BY <1>3, <2>1, FS_Injection
<1>5. \A x \in S : \E i \in 1..n : q[i] = x
  BY <1>4 DEF Surjection
<1>6. Len(q) \in Nat /\ DOMAIN q = 1..Len(q)
  BY <1>1, FunctionIsSequence
<1> QED
  BY <1>5, <1>6 DEF Enumerates

LEMMA SetToSeqEnumerates ==
    ASSUME NEW S, IsFiniteSet(S)
    PROVE  Enumerates(SetToSeq(S), S)
<1> DEFINE n == Cardinality(S)
           q == SetToSeq(S)
<1>1. \E f \in [1..n -> S] : IsInjective(f)
  <2>1. ExistsBijection(1..n, S)
    BY FS_CardinalityType
  <2>2. PICK f \in Bijection(1..n, S) : TRUE
    BY <2>1, Fun_ExistsBij
  <2>3. f \in Injection(1..n, S)
    BY <2>2 DEF Bijection
  <2> QED
    BY <2>3 DEF Injection
<1>2. q \in [1..n -> S] /\ IsInjective(q)
  BY <1>1 DEF SetToSeq
<1> HIDE DEF q
<1>3. \A i, j \in DOMAIN q : q[i] = q[j] => i = j
  BY <1>2 DEF IsInjective
<1>4. Enumerates(q, S)
  BY <1>2, <1>3, InjectiveEnumerates
<1> QED
  BY <1>4 DEF q

\* The rank in a strict total order R puts every element in its place.
StrictOrder(R, S) ==
    /\ \A x \in S : <<x, x>> \notin R
    /\ \A x, y \in S : x # y => <<x, y>> \in R \/ <<y, x>> \in R
    /\ \A x, y, z \in S : <<x, y>> \in R /\ <<y, z>> \in R => <<x, z>> \in R

IsRank(rank, R, S) == \A x \in S : rank[x] = Cardinality({y \in S : <<y, x>> \in R}) + 1

IsPlaced(q, rank, S) == q = [i \in 1..Cardinality(S) |-> CHOOSE x \in S : rank[x] = i]

LEMMA RankEnumerates ==
    ASSUME NEW S, IsFiniteSet(S), NEW R, StrictOrder(R, S),
           NEW rank, IsRank(rank, R, S), NEW q, IsPlaced(q, rank, S)
    PROVE  Enumerates(q, S)
<1> USE DEF IsRank, IsPlaced
<1> DEFINE n == Cardinality(S)
           Below(x) == {y \in S : <<y, x>> \in R}
<1>1. n \in Nat
  BY FS_CardinalityType
<1>2. \A x \in S : IsFiniteSet(Below(x)) /\ Cardinality(Below(x)) \in Nat
  <2> TAKE x \in S
  <2>1. Below(x) \in SUBSET S
    OBVIOUS
  <2> HIDE DEF Below
  <2>2. IsFiniteSet(Below(x))
    BY <2>1, FS_Subset
  <2> QED
    BY <2>2, FS_CardinalityType
<1>3. ASSUME NEW x \in S, NEW T \in SUBSET S, Below(x) \cup {x} \subseteq T
      PROVE  rank[x] <= Cardinality(T) /\ Cardinality(T) \in Nat
  <2>1. x \notin Below(x)
    BY DEF StrictOrder
  <2>2. IsFiniteSet(T)
    BY FS_Subset
  <2>3. rank[x] = Cardinality(Below(x)) + 1
    OBVIOUS
  <2>4. Below(x) \cup {x} \in SUBSET T
    BY <1>3
  <2> HIDE DEF Below
  <2>5. Cardinality(Below(x) \cup {x}) = Cardinality(Below(x)) + 1
    BY <1>2, <2>1, FS_AddElement
  <2>6. Cardinality(Below(x) \cup {x}) <= Cardinality(T)
    BY <2>2, <2>4, FS_Subset
  <2>7. Cardinality(T) \in Nat
    BY <2>2, FS_CardinalityType
  <2> QED
    BY <2>3, <2>5, <2>6, <2>7
<1>4. \A x \in S : rank[x] \in 1..n
  <2> TAKE x \in S
  <2>1. rank[x] <= n
    <3>1. Below(x) \cup {x} \subseteq S /\ S \in SUBSET S
      OBVIOUS
    <3> HIDE DEF Below
    <3> QED
      BY <1>3, <3>1
  <2>2. rank[x] = Cardinality(Below(x)) + 1
    OBVIOUS
  <2> HIDE DEF Below, n
  <2> QED
    BY <1>1, <1>2, <2>1, <2>2
<1>5. ASSUME NEW x \in S, NEW y \in S, <<x, y>> \in R PROVE rank[x] < rank[y]
  <2>1. Below(x) \cup {x} \subseteq Below(y) /\ Below(y) \in SUBSET S
    BY <1>5 DEF StrictOrder
  <2>2. rank[y] = Cardinality(Below(y)) + 1
    OBVIOUS
  <2> HIDE DEF Below
  <2>3. rank[x] <= Cardinality(Below(y)) /\ Cardinality(Below(y)) \in Nat
    BY <1>3, <2>1
  <2>4. rank[x] \in Nat
    BY <1>1, <1>4
  <2> QED
    BY <2>2, <2>3, <2>4
<1>6. \A x, y \in S : rank[x] = rank[y] => x = y
  <2> SUFFICES ASSUME NEW x \in S, NEW y \in S, x # y PROVE rank[x] # rank[y]
    OBVIOUS
  <2>1. rank[x] < rank[y] \/ rank[y] < rank[x]
    BY <1>5 DEF StrictOrder
  <2>2. rank[x] \in Int /\ rank[y] \in Int
    BY <1>4
  <2> QED
    BY <2>1, <2>2
<1> DEFINE f == [x \in S |-> rank[x]]
<1>7. f \in Injection(S, 1..n)
  <2>1. f \in [S -> 1..n] /\ \A x, y \in S : f[x] = f[y] => x = y
    BY <1>4, <1>6
  <2> HIDE DEF f
  <2> QED
    BY <2>1, Fun_IsInj
<1>8. f \in Surjection(S, 1..n)
  <2>1. 1 \in Int /\ n \in Int
    BY <1>1
  <2>0. n = Cardinality(S)
    OBVIOUS
  <2> HIDE DEF n, f
  <2>2. IsFiniteSet(1..n) /\ Cardinality(1..n) = IF 1 > n THEN 0 ELSE n - 1 + 1
    BY <2>1, FS_Interval
  <2>3. Cardinality(1..n) = Cardinality(S)
    BY <1>1, <2>0, <2>2
  <2> QED
    BY <1>7, <2>2, <2>3, FS_Injection
<1>9. \A i \in 1..n : \E x \in S : rank[x] = i
  BY <1>8 DEF Surjection
<1>10. \A i \in 1..n : q[i] \in S /\ rank[q[i]] = i
  <2> TAKE i \in 1..n
  <2>1. q[i] = CHOOSE x \in S : rank[x] = i
    OBVIOUS
  <2>2. \E x \in S : rank[x] = i
    BY <1>9
  <2> QED
    BY <2>1, <2>2
<1>11. q \in [1..Cardinality(S) -> S] /\ \A i, j \in DOMAIN q : q[i] = q[j] => i = j
  <2>1. DOMAIN q = 1..n /\ q = [i \in 1..n |-> q[i]]
    OBVIOUS
  <2> HIDE DEF Below, f
  <2>2. q \in [1..n -> S]
    BY <1>10, <2>1
  <2>3. \A i, j \in 1..n : q[i] = q[j] => i = j
    BY <1>10
  <2> QED
    BY <2>1, <2>2, <2>3
<1> QED
  BY <1>11, InjectiveEnumerates

\* sortFees and sortVotes order by value and, where it is equal, by the first
\* place, which no two have in common.
Sortable(S, weight) ==
    /\ IsFiniteSet(S)
    /\ \A x \in S : x.first \in Int /\ weight[x] \in Values
    /\ \A x, y \in S : x.first = y.first => x = y

LEMMA SortOrder ==
    ASSUME NEW S, NEW weight, Sortable(S, weight), NEW asc \in BOOLEAN, NEW R,
           \A x, y \in S : <<x, y>> \in R <=>
               IF weight[x] = weight[y] THEN x.first < y.first
               ELSE IF asc THEN Greater(weight[y], weight[x]) ELSE Greater(weight[x], weight[y])
    PROVE  StrictOrder(R, S)
<1> DEFINE Less(x, y) == IF asc THEN Greater(weight[y], weight[x])
                         ELSE Greater(weight[x], weight[y])
<1>1. \A x, y \in S : <<x, y>> \in R <=>
          (weight[x] = weight[y] /\ x.first < y.first) \/ (weight[x] # weight[y] /\ Less(x, y))
  OBVIOUS
<1>2. \A x, y, z \in S : /\ ~Less(x, x)
                         /\ weight[x] # weight[y] => Less(x, y) \/ Less(y, x)
                         /\ Less(x, y) /\ Less(y, z) => Less(x, z)
  <2> SUFFICES ASSUME NEW x \in S, NEW y \in S, NEW z \in S
               PROVE  /\ ~Less(x, x)
                      /\ weight[x] # weight[y] => Less(x, y) \/ Less(y, x)
                      /\ Less(x, y) /\ Less(y, z) => Less(x, z)
    OBVIOUS
  <2> DEFINE u == weight[x]
             v == weight[y]
             w == weight[z]
  <2>1. u \in Values /\ v \in Values /\ w \in Values
    BY DEF Sortable
  <2> HIDE DEF u, v, w
  <2>2. /\ ~Greater(u, u)
        /\ u # v => Greater(u, v) \/ Greater(v, u)
        /\ Greater(u, v) /\ Greater(v, w) => Greater(u, w)
        /\ Greater(w, v) /\ Greater(v, u) => Greater(w, u)
    BY <2>1, ValuesOrdered
  <2> QED
    BY <2>2 DEF u, v, w
<1>3. \A x, y \in S : x # y /\ weight[x] = weight[y] => x.first < y.first \/ y.first < x.first
  BY DEF Sortable
<1>4. \A x, y \in S : weight[x] = weight[y] =>
          \A z \in S : (Less(x, z) <=> Less(y, z)) /\ (Less(z, x) <=> Less(z, y))
  OBVIOUS
<1>5. \A x \in S : x.first \in Int
  BY DEF Sortable
<1> HIDE DEF Less
<1>6. \A x \in S : <<x, x>> \notin R
  BY <1>1, <1>5
<1>7. \A x, y \in S : x # y => <<x, y>> \in R \/ <<y, x>> \in R
  BY <1>1, <1>2, <1>3
<1>8. ASSUME NEW x \in S, NEW y \in S, NEW z \in S, <<x, y>> \in R, <<y, z>> \in R
      PROVE  <<x, z>> \in R
  <2>1. CASE weight[x] = weight[y] /\ weight[y] = weight[z]
    <3>1. x.first < y.first /\ y.first < z.first
      BY <1>1, <1>8, <2>1
    <3> QED
      BY <1>1, <1>5, <2>1, <3>1
  <2>2. CASE weight[x] = weight[y] /\ weight[y] # weight[z]
    <3>1. Less(y, z)
      BY <1>1, <1>8, <2>2
    <3>2. Less(x, z)
      BY <1>4, <2>2, <3>1
    <3> QED
      BY <1>1, <2>2, <3>2
  <2>3. CASE weight[x] # weight[y] /\ weight[y] = weight[z]
    <3>1. Less(x, y)
      BY <1>1, <1>8, <2>3
    <3>2. Less(x, z)
      BY <1>4, <2>3, <3>1
    <3> QED
      BY <1>1, <2>3, <3>2
  <2>4. CASE weight[x] # weight[y] /\ weight[y] # weight[z]
    <3>1. Less(x, y) /\ Less(y, z)
      BY <1>1, <1>8, <2>4
    <3>2. Less(x, z)
      BY <1>2, <3>1
    <3>3. weight[x] # weight[z]
      <4> SUFFICES ASSUME weight[x] = weight[z] PROVE FALSE
        OBVIOUS
      <4>1. Less(z, z)
        BY <1>4, <3>2
      <4> QED
        BY <1>2, <4>1
    <3> QED
      BY <1>1, <3>2, <3>3
  <2> QED
    BY <2>1, <2>2, <2>3, <2>4
<1> QED
  BY <1>6, <1>7, <1>8 DEF StrictOrder

LEMMA sortFeesEnumerates ==
    ASSUME NEW S, NEW t, NEW asc \in BOOLEAN,
           Sortable(S, [b \in S |-> CalcValue(b.fee, b.support, t)])
    PROVE  Enumerates(sortFees(S, t, asc), S)
<1> DEFINE val == [b \in S |-> CalcValue(b.fee, b.support, t)]
           Before(b, c) == IF val[b] = val[c] THEN b.first < c.first
                           ELSE IF asc THEN Greater(val[c], val[b]) ELSE Greater(val[b], val[c])
           place == [b \in S |-> Cardinality({c \in S : Before(c, b)}) + 1]
           R == {x \in S \X S : Before(x[1], x[2])}
           q == sortFees(S, t, asc)
<1>1. IsPlaced(q, place, S)
  BY DEF IsPlaced, sortFees
<1> HIDE DEF val
<1>2. \A x, y \in S : <<x, y>> \in R <=> Before(x, y)
  OBVIOUS
<1>3. StrictOrder(R, S)
  <2> HIDE DEF R
  <2>1. Sortable(S, val)
    BY DEF val
  <2> QED
    BY <1>2, <2>1, SortOrder
<1>4. IsRank(place, R, S)
  <2> SUFFICES ASSUME NEW x \in S
               PROVE  place[x] = Cardinality({y \in S : <<y, x>> \in R}) + 1
    BY DEF IsRank
  <2>1. {y \in S : <<y, x>> \in R} = {y \in S : Before(y, x)}
    <3> HIDE DEF R, Before
    <3> QED
      BY <1>2
  <2> HIDE DEF Before, R
  <2> QED
    BY <2>1
<1> HIDE DEF place, R, q
<1>5. Enumerates(q, S)
  <2>1. IsFiniteSet(S)
    BY DEF Sortable
  <2> QED
    BY <1>1, <1>3, <1>4, <2>1, RankEnumerates
<1> QED
  BY <1>5 DEF q

LEMMA sortVotesEnumerates ==
    ASSUME NEW S, NEW asc \in BOOLEAN, IsFiniteSet(S),
           \A x \in S : x.first \in Int /\ x.fees \in Int /\ x.weight \in Int,
           \A x, y \in S : x.first = y.first => x = y
    PROVE  Enumerates(sortVotes(S, asc), S)
<1> DEFINE val(v) == v.fees * v.weight
           Before(v, u) == IF val(v) = val(u) THEN v.first < u.first
                           ELSE IF asc THEN val(v) < val(u) ELSE val(v) > val(u)
           place == [v \in S |-> Cardinality({u \in S : Before(u, v)}) + 1]
           R == {x \in S \X S : Before(x[1], x[2])}
           weight == [v \in S |-> <<val(v), 0>>]
           q == sortVotes(S, asc)
<1>1. IsPlaced(q, place, S)
  BY DEF IsPlaced, sortVotes
<1>0. \A x \in S : val(x) \in Int
  OBVIOUS
<1> HIDE DEF val
<1>2. \A x, y \in S : <<x, y>> \in R <=> Before(x, y)
  OBVIOUS
<1>3. StrictOrder(R, S)
  <2>1. Sortable(S, weight)
    BY <1>0 DEF Sortable, Values
  <2>2. \A x, y \in S : <<x, y>> \in R <=>
               IF weight[x] = weight[y] THEN x.first < y.first
               ELSE IF asc THEN Greater(weight[y], weight[x]) ELSE Greater(weight[x], weight[y])
    <3> SUFFICES ASSUME NEW x \in S, NEW y \in S
                 PROVE  Before(x, y) <=>
                          IF weight[x] = weight[y] THEN x.first < y.first
                          ELSE IF asc THEN Greater(weight[y], weight[x]) ELSE Greater(weight[x], weight[y])
      <4> HIDE DEF R
      <4> QED
        BY <1>2
    <3>1. weight[x] = <<val(x), 0>> /\ weight[y] = <<val(y), 0>> /\ val(x) \in Int /\ val(y) \in Int
      BY <1>0
    <3>2. /\ weight[x] = weight[y] <=> val(x) = val(y)
          /\ Greater(weight[x], weight[y]) <=> val(x) > val(y)
          /\ Greater(weight[y], weight[x]) <=> val(y) > val(x)
      <4> HIDE DEF weight
      <4> QED
        BY <3>1 DEF Greater
    <3> HIDE DEF weight
    <3> QED
      BY <3>1, <3>2
  <2> HIDE DEF R, weight
  <2> QED
    BY <2>1, <2>2, SortOrder
<1>4. IsRank(place, R, S)
  <2> SUFFICES ASSUME NEW x \in S
               PROVE  place[x] = Cardinality({y \in S : <<y, x>> \in R}) + 1
    BY DEF IsRank
  <2>1. {y \in S : <<y, x>> \in R} = {y \in S : Before(y, x)}
    <3> HIDE DEF R, Before
    <3> QED
      BY <1>2
  <2> HIDE DEF Before, R
  <2> QED
    BY <2>1
<1> HIDE DEF place, R, q
<1>5. Enumerates(q, S)
  BY <1>1, <1>3, <1>4, RankEnumerates
<1> QED
  BY <1>5 DEF q

-----------------------------------------------------------------------------
(* Filtering.                                                              *)

InputOK ==
    /\ IsFiniteSet(DOMAIN votes) /\ DOMAIN votes \subseteq Nat
    /\ \A j \in DOMAIN votes : votes[j].weight \in Nat \ {0} /\ votes[j].bits \in SUBSET DOMAIN fees
    /\ IsFiniteSet(DOMAIN fees) /\ DOMAIN fees \subseteq Nat
    /\ \A i \in DOMAIN fees : fees[i] \in Nat
    /\ total \in Nat /\ maxOps \in Nat \ {0}

LEMMA InputSums ==
    ASSUME InputOK
    PROVE  /\ NatOn([j \in DOMAIN votes |-> votes[j].weight], DOMAIN votes)
           /\ NatOn(fees, DOMAIN fees)
BY DEF InputOK, NatOn

\* The weight of some of the votes.
LEMMA WeightParts ==
    ASSUME InputOK, NEW S \in SUBSET DOMAIN votes, NEW T \in SUBSET S
    PROVE  /\ VotesWeight(votes, S) = VotesWeight(votes, T) + VotesWeight(votes, S \ T)
           /\ VotesWeight(votes, S) \in Nat /\ VotesWeight(votes, T) \in Nat
           /\ VotesWeight(votes, S \ T) \in Nat
           /\ VotesWeight(votes, T) <= VotesWeight(votes, S)
<1> DEFINE f == [j \in DOMAIN votes |-> votes[j].weight]
<1>1. NatOn(f, DOMAIN votes)
  BY InputSums
<1>2. \A U : VotesWeight(votes, U) = SumOver(f, U)
  BY DEF VotesWeight
<1> HIDE DEF f
<1>3. PICK R : R = S \ T
  OBVIOUS
<1>4. /\ R \in SUBSET DOMAIN votes /\ T \in SUBSET DOMAIN votes
      /\ T \cap R = {} /\ T \cup R = S
  BY <1>3
<1>5. SumOver(f, T \cup R) = SumOver(f, T) + SumOver(f, R)
  BY <1>1, <1>4, SumUnion
<1>6. SumOver(f, S) \in Nat /\ SumOver(f, T) \in Nat /\ SumOver(f, R) \in Nat
  BY <1>1, <1>4, SumType
<1>7. /\ VotesWeight(votes, S) = VotesWeight(votes, T) + VotesWeight(votes, R)
      /\ VotesWeight(votes, S) \in Nat /\ VotesWeight(votes, T) \in Nat
      /\ VotesWeight(votes, R) \in Nat
  BY <1>2, <1>4, <1>5, <1>6
<1> QED
  BY <1>3, <1>7

LEMMA WeightAll ==
    ASSUME InputOK, NEW T \in SUBSET DOMAIN votes,
           VotesWeight(votes, T) = VotesWeight(votes, DOMAIN votes)
    PROVE  T = DOMAIN votes
<1> DEFINE f == [j \in DOMAIN votes |-> votes[j].weight]
           S == DOMAIN votes
<1> SUFFICES ASSUME NEW j \in S, j \notin T PROVE FALSE
  OBVIOUS
<1>1. NatOn(f, S) /\ f[j] \in Nat /\ f[j] # 0
  BY InputSums DEF InputOK
<1>2. \A U : VotesWeight(votes, U) = SumOver(f, U)
  BY DEF VotesWeight
<1>3. T \in SUBSET (S \ {j}) /\ S \ {j} \in SUBSET S /\ S \in SUBSET S
  OBVIOUS
<1> HIDE DEF f
<1>4. VotesWeight(votes, S) = VotesWeight(votes, S \ {j}) + f[j]
  BY <1>1, <1>2, <1>3, SumRemove
<1>5. /\ VotesWeight(votes, T) <= VotesWeight(votes, S \ {j})
      /\ VotesWeight(votes, T) \in Nat /\ VotesWeight(votes, S \ {j}) \in Nat
  BY <1>3, WeightParts
<1> QED
  BY <1>1, <1>4, <1>5

\* The votes for a bit.
VotesFor(i) == {j \in DOMAIN votes : i \in votes[j].bits}

\* What filtering leaves: the bits and votes that are in go with everything that
\* is left, the bits that are out have no majority, and the votes that are out
\* support nothing that is left.
FilterOK(fr) ==
    /\ fr.inBits \in SUBSET DOMAIN fees /\ fr.remBits \in SUBSET DOMAIN fees
    /\ fr.inBits \cap fr.remBits = {}
    /\ fr.inVotes \in SUBSET DOMAIN votes /\ fr.remVotes \in SUBSET DOMAIN votes
    /\ fr.inVotes \cap fr.remVotes = {}
    /\ \A j \in fr.inVotes : fr.inBits \cup fr.remBits \subseteq votes[j].bits
    /\ \A j \in fr.remVotes : fr.inBits \subseteq votes[j].bits
    /\ \A j \in DOMAIN votes \ (fr.inVotes \cup fr.remVotes) :
          (fr.inBits \cup fr.remBits) \cap votes[j].bits = {}
    /\ \A i \in DOMAIN fees \ (fr.inBits \cup fr.remBits) :
          VotesWeight(votes, VotesFor(i)) <= total \div 2

\* More than half of the weight is left if more than half voted.
QuorumLeft(fr) ==
    VotesWeight(votes, fr.inVotes \cup fr.remVotes) > total \div 2
        <=> VotesWeight(votes, DOMAIN votes) > total \div 2

LEMMA FilterBitsOK ==
    ASSUME InputOK, NEW fr, fr = FilterBits(votes, fees, total)
    PROVE  /\ FilterOK(fr) /\ QuorumLeft(fr)
           /\ fr.inVotes = {} /\ fr.remVotes = DOMAIN votes
           /\ \A i \in fr.remBits : VotesWeight(votes, VotesFor(i)) > total \div 2
           /\ fr = [inBits |-> fr.inBits, remBits |-> fr.remBits,
                    inVotes |-> fr.inVotes, remVotes |-> fr.remVotes]
<1> DEFINE all == DOMAIN votes
           in == {i \in DOMAIN fees : VotesWeight(votes, VotesFor(i)) = VotesWeight(votes, all)}
           out == {i \in DOMAIN fees \ in : VotesWeight(votes, VotesFor(i)) <= total \div 2}
<1>1. fr = [inBits |-> in, remBits |-> DOMAIN fees \ (in \cup out),
            inVotes |-> {}, remVotes |-> all]
  BY DEF FilterBits, VotesFor
<1>2. \A i : VotesFor(i) \in SUBSET DOMAIN votes
  BY DEF VotesFor
<1>3. \A i \in in : VotesFor(i) = DOMAIN votes
  BY <1>2, WeightAll
<1>4. \A j \in DOMAIN votes : in \subseteq votes[j].bits
  BY <1>3 DEF VotesFor
<1>5. \A i : VotesWeight(votes, VotesFor(i)) \in Nat /\ total \div 2 \in Int
  <2>1. total \div 2 \in Int
    BY DEF InputOK
  <2>2. \A i : VotesFor(i) \in SUBSET VotesFor(i)
    OBVIOUS
  <2> QED
    BY <1>2, <2>1, <2>2, WeightParts
<1>6. /\ fr.inBits = in /\ fr.remBits = DOMAIN fees \ (in \cup out)
      /\ fr.inVotes = {} /\ fr.remVotes = all
      /\ fr = [inBits |-> fr.inBits, remBits |-> fr.remBits,
               inVotes |-> fr.inVotes, remVotes |-> fr.remVotes]
  BY <1>1
<1>7. \A i \in fr.remBits : VotesWeight(votes, VotesFor(i)) > total \div 2
  BY <1>5, <1>6
<1>8. \A i \in DOMAIN fees \ (fr.inBits \cup fr.remBits) : VotesWeight(votes, VotesFor(i)) <= total \div 2
  BY <1>6
<1>9. /\ fr.inBits \in SUBSET DOMAIN fees /\ fr.remBits \in SUBSET DOMAIN fees
      /\ fr.inBits \cap fr.remBits = {}
  BY <1>6
<1> HIDE DEF in, out
<1>10. FilterOK(fr)
  BY <1>4, <1>6, <1>8, <1>9 DEF FilterOK
<1>11. QuorumLeft(fr)
  <2>1. fr.inVotes \cup fr.remVotes = DOMAIN votes
    BY <1>6
  <2> QED
    BY <2>1 DEF QuorumLeft
<1> QED
  BY <1>6, <1>7, <1>10, <1>11

LEMMA FilterVotesOK ==
    ASSUME InputOK, NEW fr, FilterOK(fr), QuorumLeft(fr),
           fr.inVotes = {}, fr.remVotes = DOMAIN votes,
           \A i \in fr.remBits : VotesWeight(votes, VotesFor(i)) > total \div 2,
           fr = [inBits |-> fr.inBits, remBits |-> fr.remBits,
                 inVotes |-> fr.inVotes, remVotes |-> fr.remVotes],
           NEW fs, fs = FilterVotes(fr, votes)
    PROVE  /\ FilterOK(fs) /\ QuorumLeft(fs)
           /\ fs = [inBits |-> fs.inBits, remBits |-> fs.remBits,
                    inVotes |-> fs.inVotes, remVotes |-> fs.remVotes]
<1> DEFINE ones == {j \in fr.remVotes : fr.remBits \subseteq votes[j].bits}
           zeros == {j \in fr.remVotes \ ones : /\ fr.inBits = {}
                                               /\ votes[j].bits \cap fr.remBits = {}}
           ib == fr.inBits
           rb == fr.remBits
<1>1. fs = [fr EXCEPT !.inVotes = fr.inVotes \cup ones, !.remVotes = fr.remVotes \ (ones \cup zeros)]
  BY DEF FilterVotes
<1>2. fs = [inBits |-> ib, remBits |-> rb, inVotes |-> ones,
            remVotes |-> DOMAIN votes \ (ones \cup zeros)]
  <2> HIDE DEF ones, zeros
  <2>1. PICK i, r : fr = [inBits |-> i, remBits |-> r, inVotes |-> {}, remVotes |-> DOMAIN votes]
                    /\ i = ib /\ r = rb
    OBVIOUS
  <2>2. fr.inVotes \cup ones = ones /\ fr.remVotes \ (ones \cup zeros) = DOMAIN votes \ (ones \cup zeros)
    OBVIOUS
  <2>3. fs = [fr EXCEPT !.inVotes = ones, !.remVotes = DOMAIN votes \ (ones \cup zeros)]
    BY <1>1, <2>2
  <2>4. fs = [[inBits |-> i, remBits |-> r, inVotes |-> {}, remVotes |-> DOMAIN votes]
                EXCEPT !.inVotes = ones, !.remVotes = DOMAIN votes \ (ones \cup zeros)]
    BY <2>1, <2>3
  <2> QED
    BY <2>1, <2>4
<1>3. /\ fs.inBits = ib /\ fs.remBits = rb /\ fs.inVotes = ones
      /\ fs.remVotes = DOMAIN votes \ (ones \cup zeros)
      /\ fs = [inBits |-> fs.inBits, remBits |-> fs.remBits,
               inVotes |-> fs.inVotes, remVotes |-> fs.remVotes]
  BY <1>2
<1>4. /\ ones \subseteq DOMAIN votes /\ zeros \subseteq DOMAIN votes /\ ones \cap zeros = {}
  OBVIOUS
<1>5. \A j \in ones : ib \cup rb \subseteq votes[j].bits
  BY DEF FilterOK
<1>6. \A j \in zeros : (ib \cup rb) \cap votes[j].bits = {}
  OBVIOUS
<1>7. FilterOK(fs)
  <2>1. /\ fs.inVotes \in SUBSET DOMAIN votes /\ fs.remVotes \in SUBSET DOMAIN votes
        /\ fs.inVotes \cap fs.remVotes = {}
    BY <1>3, <1>4
  <2>2. DOMAIN votes \ (fs.inVotes \cup fs.remVotes) = zeros
    BY <1>3, <1>4
  <2>3. \A j \in DOMAIN votes : ib \subseteq votes[j].bits
    BY DEF FilterOK
  <2> HIDE DEF ones, zeros
  <2>4. \A j \in DOMAIN votes \ (fs.inVotes \cup fs.remVotes) :
            (fs.inBits \cup fs.remBits) \cap votes[j].bits = {}
    BY <1>3, <1>6, <2>2
  <2>5. \A j \in fs.remVotes : fs.inBits \subseteq votes[j].bits
    BY <1>3, <2>3
  <2>6. \A j \in fs.inVotes : fs.inBits \cup fs.remBits \subseteq votes[j].bits
    BY <1>3, <1>5
  <2>7. \A i \in DOMAIN fees \ (fs.inBits \cup fs.remBits) :
            VotesWeight(votes, VotesFor(i)) <= total \div 2
    BY <1>3 DEF FilterOK
  <2>8. /\ fs.inBits \in SUBSET DOMAIN fees /\ fs.remBits \in SUBSET DOMAIN fees
        /\ fs.inBits \cap fs.remBits = {}
    BY <1>3 DEF FilterOK
  <2> QED
    BY <2>1, <2>4, <2>5, <2>6, <2>7, <2>8 DEF FilterOK
<1>8. QuorumLeft(fs)
  <2> DEFINE left == fs.inVotes \cup fs.remVotes
  <2>0. total \div 2 \in Int
    BY DEF InputOK
  <2>1. left = DOMAIN votes \ zeros /\ left \in SUBSET DOMAIN votes
    BY <1>3, <1>4
  <2>2. CASE zeros = {}
    <3>1. left = DOMAIN votes
      BY <2>1, <2>2
    <3> QED
      BY <3>1 DEF QuorumLeft
  <2>3. CASE zeros # {}
    <3>1. PICK i : i \in fr.remBits
      BY <2>3
    <3>2. VotesFor(i) \in SUBSET left
      BY <1>6, <2>1, <3>1 DEF VotesFor
    <3>3. VotesWeight(votes, VotesFor(i)) > total \div 2
      BY <3>1
    <3> HIDE DEF left, ones, zeros
    <3>4. /\ VotesWeight(votes, VotesFor(i)) <= VotesWeight(votes, left)
          /\ VotesWeight(votes, VotesFor(i)) \in Nat /\ VotesWeight(votes, left) \in Nat
      BY <2>1, <3>2, WeightParts
    <3>5. /\ VotesWeight(votes, left) <= VotesWeight(votes, DOMAIN votes)
          /\ VotesWeight(votes, DOMAIN votes) \in Nat
      <4>1. DOMAIN votes \in SUBSET DOMAIN votes
        OBVIOUS
      <4> QED
        BY <2>1, <4>1, WeightParts
    <3>6. VotesWeight(votes, left) > total \div 2 /\ VotesWeight(votes, DOMAIN votes) > total \div 2
      BY <2>0, <3>3, <3>4, <3>5
    <3> QED
      BY <3>6 DEF QuorumLeft, left
  <2> QED
    BY <2>2, <2>3
<1> QED
  BY <1>3, <1>7, <1>8

LEMMA FilterBitsOnesOK ==
    ASSUME NEW fr, FilterOK(fr), QuorumLeft(fr),
           fr = [inBits |-> fr.inBits, remBits |-> fr.remBits,
                 inVotes |-> fr.inVotes, remVotes |-> fr.remVotes],
           NEW fs, fs = FilterBitsOnes(fr, votes)
    PROVE  FilterOK(fs) /\ QuorumLeft(fs)
<1> DEFINE ones == {i \in fr.remBits : \A j \in fr.remVotes : i \in votes[j].bits}
<1>1. fs = [fr EXCEPT !.inBits = fr.inBits \cup ones, !.remBits = fr.remBits \ ones]
  BY DEF FilterBitsOnes
<1>2. /\ fs.inBits = fr.inBits \cup ones /\ fs.remBits = fr.remBits \ ones
      /\ fs.inVotes = fr.inVotes /\ fs.remVotes = fr.remVotes
  <2> HIDE DEF ones
  <2>1. PICK i, r, v, w : fr = [inBits |-> i, remBits |-> r, inVotes |-> v, remVotes |-> w]
    OBVIOUS
  <2>2. fs = [[inBits |-> i, remBits |-> r, inVotes |-> v, remVotes |-> w]
                 EXCEPT !.inBits = i \cup ones, !.remBits = r \ ones]
    BY <1>1, <2>1
  <2>3. fs.inBits = i \cup ones /\ fs.remBits = r \ ones /\ fs.inVotes = v /\ fs.remVotes = w
    BY <2>2
  <2> QED
    BY <2>1, <2>3
<1>3. ones \subseteq fr.remBits /\ \A j \in fr.remVotes : ones \subseteq votes[j].bits
  OBVIOUS
<1> HIDE DEF ones
<1>4. fs.inBits \cup fs.remBits = fr.inBits \cup fr.remBits
  BY <1>2, <1>3
<1>5. FilterOK(fs)
  <2>1. /\ fs.inBits \in SUBSET DOMAIN fees /\ fs.remBits \in SUBSET DOMAIN fees
        /\ fs.inBits \cap fs.remBits = {}
    BY <1>2, <1>3 DEF FilterOK
  <2>2. /\ fs.inVotes \in SUBSET DOMAIN votes /\ fs.remVotes \in SUBSET DOMAIN votes
        /\ fs.inVotes \cap fs.remVotes = {}
    BY <1>2 DEF FilterOK
  <2>3. /\ \A j \in fs.inVotes : fs.inBits \cup fs.remBits \subseteq votes[j].bits
        /\ \A j \in DOMAIN votes \ (fs.inVotes \cup fs.remVotes) :
              (fs.inBits \cup fs.remBits) \cap votes[j].bits = {}
        /\ \A i \in DOMAIN fees \ (fs.inBits \cup fs.remBits) :
              VotesWeight(votes, VotesFor(i)) <= total \div 2
    BY <1>2, <1>4 DEF FilterOK
  <2>4. \A j \in fs.remVotes : fs.inBits \subseteq votes[j].bits
    BY <1>2, <1>3 DEF FilterOK
  <2> QED
    BY <2>1, <2>2, <2>3, <2>4 DEF FilterOK
<1>6. QuorumLeft(fs)
  BY <1>2 DEF QuorumLeft
<1> QED
  BY <1>5, <1>6

LEMMA FilterResult ==
    ASSUME InputOK
    PROVE  FilterOK(Filter(votes, fees, total)) /\ QuorumLeft(Filter(votes, fees, total))
<1> DEFINE fr0 == FilterBits(votes, fees, total)
           fr1 == FilterVotes(fr0, votes)
           fr2 == FilterBitsOnes(fr1, votes)
<1>1. Filter(votes, fees, total) = fr1 \/ Filter(votes, fees, total) = fr2
  BY DEF Filter
<1>2. /\ FilterOK(fr0) /\ QuorumLeft(fr0)
      /\ fr0.inVotes = {} /\ fr0.remVotes = DOMAIN votes
      /\ \A i \in fr0.remBits : VotesWeight(votes, VotesFor(i)) > total \div 2
      /\ fr0 = [inBits |-> fr0.inBits, remBits |-> fr0.remBits,
                inVotes |-> fr0.inVotes, remVotes |-> fr0.remVotes]
  <2>1. PICK f : f = fr0
    OBVIOUS
  <2> HIDE DEF fr0
  <2>2. f = FilterBits(votes, fees, total)
    BY <2>1 DEF fr0
  <2> QED
    BY <2>1, <2>2, FilterBitsOK
<1> HIDE DEF fr0
<1>3. /\ FilterOK(fr1) /\ QuorumLeft(fr1)
      /\ fr1 = [inBits |-> fr1.inBits, remBits |-> fr1.remBits,
                inVotes |-> fr1.inVotes, remVotes |-> fr1.remVotes]
  BY <1>2, FilterVotesOK
<1> HIDE DEF fr1
<1>4. FilterOK(fr2) /\ QuorumLeft(fr2)
  BY <1>3, FilterBitsOnesOK
<1> QED
  BY <1>1, <1>3, <1>4

-----------------------------------------------------------------------------
(* Aggregating.                                                            *)

\* The remaining votes that are b on the remaining bits.
VoteGroup(fr, b) == {l \in fr.remVotes : votes[l].bits \cap fr.remBits = b}

AggVote(fr, j) ==
    LET b == votes[j].bits \cap fr.remBits
    IN  [first |-> Min(VoteGroup(fr, b)), bits |-> b,
         weight |-> VotesWeight(votes, VoteGroup(fr, b)),
         fees |-> GuaranteedFees(fr, fees) + BitsFee(fees, b)]

\* What AggregateVotes returns: one vote for each such group.
AggVotesOK(fr, V) ==
    /\ IsFiniteSet(V)
    /\ \A v \in V : /\ v.first \in VoteGroup(fr, v.bits) /\ v.bits \in SUBSET fr.remBits
                    /\ v.weight = VotesWeight(votes, VoteGroup(fr, v.bits))
                    /\ v.weight \in Nat /\ v.fees \in Nat
    /\ \A u, v \in V : u.bits = v.bits => u = v
    /\ \A l \in fr.remVotes : \E v \in V : v.bits = votes[l].bits \cap fr.remBits

\* The remaining votes for a bit, and the remaining bits with the same votes.
RemVoters(fr, i) == {j \in fr.remVotes : i \in votes[j].bits}
BitGroup(fr, i) == {k \in fr.remBits : RemVoters(fr, k) = RemVoters(fr, i)}

AggBit(fr, i) ==
    [first |-> Min(BitGroup(fr, i)), indexes |-> BitGroup(fr, i),
     fee |-> BitsFee(fees, BitGroup(fr, i)),
     support |-> GuaranteedWeight(fr, votes) + VotesWeight(votes, RemVoters(fr, i))]

\* What AggregateBits returns: one bit for each such group.
AggBitsOK(fr, U) ==
    /\ IsFiniteSet(U)
    /\ \A b \in U : /\ b.first \in b.indexes /\ b.indexes \in SUBSET fr.remBits
                    /\ b.fee = BitsFee(fees, b.indexes)
                    /\ b.fee \in Nat /\ b.support \in Nat
                    /\ \A k, l \in b.indexes : RemVoters(fr, k) = RemVoters(fr, l)
    /\ \A b, c \in U : b.indexes \cap c.indexes # {} => b = c
    /\ \A k \in fr.remBits : \E b \in U : k \in b.indexes

LEMMA MinIn ==
    ASSUME NEW S \in SUBSET Nat, S # {}
    PROVE  Min(S) \in S
BY LeastNumber DEF Min

\* The image of a finite set is finite.
LEMMA ImageFinite ==
    ASSUME NEW S, IsFiniteSet(S), NEW V, NEW g \in [S -> V], \A v \in V : \E x \in S : g[x] = v
    PROVE  IsFiniteSet(V)
BY Fun_IsSurj, FS_Surjection

LEMMA FeeType ==
    ASSUME InputOK, NEW S \in SUBSET DOMAIN fees
    PROVE  BitsFee(fees, S) \in Nat
BY InputSums, SumType DEF BitsFee

LEMMA WeightType ==
    ASSUME InputOK, NEW S \in SUBSET DOMAIN votes
    PROVE  VotesWeight(votes, S) \in Nat
<1>1. S \in SUBSET S
  OBVIOUS
<1> QED
  BY <1>1, WeightParts

LEMMA AggregateVotesOK ==
    ASSUME InputOK, NEW fr, FilterOK(fr)
    PROVE  AggVotesOK(fr, AggregateVotes(fr, votes, fees))
<1> DEFINE V == AggregateVotes(fr, votes, fees)
           R == fr.remVotes
           b(j) == votes[j].bits \cap fr.remBits
<1>1. V = {AggVote(fr, j) : j \in R}
  BY DEF AggregateVotes, AggVote, VoteGroup
<1>2. R \in SUBSET DOMAIN votes /\ R \in SUBSET Nat /\ IsFiniteSet(R)
      /\ fr.remBits \in SUBSET DOMAIN fees /\ fr.inBits \in SUBSET DOMAIN fees
  BY FS_Subset DEF InputOK, FilterOK
<1>3. \A j \in R : j \in VoteGroup(fr, b(j))
  BY DEF VoteGroup
<1>4. \A c : VoteGroup(fr, c) \in SUBSET DOMAIN votes /\ VoteGroup(fr, c) \in SUBSET Nat
  BY <1>2 DEF VoteGroup
<1>5. GuaranteedFees(fr, fees) \in Nat
  BY <1>2, FeeType DEF GuaranteedFees
<1>6. ASSUME NEW j \in R
      PROVE  /\ AggVote(fr, j).bits = b(j)
             /\ AggVote(fr, j).first \in VoteGroup(fr, b(j))
             /\ AggVote(fr, j).weight = VotesWeight(votes, VoteGroup(fr, b(j)))
             /\ AggVote(fr, j).weight \in Nat /\ AggVote(fr, j).fees \in Nat
  <2>1. VotesWeight(votes, VoteGroup(fr, b(j))) \in Nat
    BY <1>4, WeightType
  <2>2. b(j) \in SUBSET DOMAIN fees
    BY <1>2
  <2>3. BitsFee(fees, b(j)) \in Nat
    BY <2>2, FeeType
  <2>4. Min(VoteGroup(fr, b(j))) \in VoteGroup(fr, b(j))
    BY <1>3, <1>4, MinIn
  <2> QED
    BY <2>1, <2>3, <2>4, <1>5 DEF AggVote
<1>7. \A i, j \in R : b(i) = b(j) => AggVote(fr, i) = AggVote(fr, j)
  BY DEF AggVote
<1>8. IsFiniteSet(V)
  <2> DEFINE g == [j \in R |-> AggVote(fr, j)]
  <2>1. g \in [R -> V] /\ \A v \in V : \E x \in R : g[x] = v
    BY <1>1
  <2> HIDE DEF g, V, R
  <2> QED
    BY <1>2, <2>1, ImageFinite
<1> HIDE DEF V
<1>9. \A v \in V : /\ v.first \in VoteGroup(fr, v.bits) /\ v.bits \in SUBSET fr.remBits
                   /\ v.weight = VotesWeight(votes, VoteGroup(fr, v.bits))
                   /\ v.weight \in Nat /\ v.fees \in Nat
  <2> SUFFICES ASSUME NEW j \in R, NEW v, v = AggVote(fr, j)
               PROVE  /\ v.first \in VoteGroup(fr, v.bits) /\ v.bits \in SUBSET fr.remBits
                      /\ v.weight = VotesWeight(votes, VoteGroup(fr, v.bits))
                      /\ v.weight \in Nat /\ v.fees \in Nat
    BY <1>1
  <2> QED
    BY <1>6
<1>10. \A u, v \in V : u.bits = v.bits => u = v
  <2> SUFFICES ASSUME NEW i \in R, NEW j \in R, AggVote(fr, i).bits = AggVote(fr, j).bits
               PROVE  AggVote(fr, i) = AggVote(fr, j)
    BY <1>1
  <2>1. b(i) = b(j)
    BY <1>6
  <2> QED
    BY <1>7, <2>1
<1>11. \A l \in fr.remVotes : \E v \in V : v.bits = votes[l].bits \cap fr.remBits
  BY <1>1, <1>6
<1> QED
  BY <1>8, <1>9, <1>10, <1>11 DEF AggVotesOK, V

LEMMA AggregateBitsOK ==
    ASSUME InputOK, NEW fr, FilterOK(fr)
    PROVE  AggBitsOK(fr, AggregateBits(fr, votes, fees))
<1> DEFINE U == AggregateBits(fr, votes, fees)
           R == fr.remBits
<1>1. U = {AggBit(fr, i) : i \in R}
  BY DEF AggregateBits, AggBit, BitGroup, RemVoters
<1>2. R \in SUBSET DOMAIN fees /\ R \in SUBSET Nat /\ IsFiniteSet(R)
      /\ fr.remVotes \in SUBSET DOMAIN votes /\ fr.inVotes \in SUBSET DOMAIN votes
  BY FS_Subset DEF InputOK, FilterOK
<1>3. \A i \in R : i \in BitGroup(fr, i)
  BY DEF BitGroup
<1>4. \A i : /\ BitGroup(fr, i) \in SUBSET R /\ BitGroup(fr, i) \in SUBSET DOMAIN fees
             /\ BitGroup(fr, i) \in SUBSET Nat /\ RemVoters(fr, i) \in SUBSET DOMAIN votes
  BY <1>2 DEF BitGroup, RemVoters
<1>5. GuaranteedWeight(fr, votes) \in Nat
  BY <1>2, WeightType DEF GuaranteedWeight
<1>6. ASSUME NEW i \in R
      PROVE  /\ AggBit(fr, i).indexes = BitGroup(fr, i)
             /\ AggBit(fr, i).first \in BitGroup(fr, i)
             /\ AggBit(fr, i).fee = BitsFee(fees, BitGroup(fr, i))
             /\ AggBit(fr, i).fee \in Nat /\ AggBit(fr, i).support \in Nat
  <2>1. BitsFee(fees, BitGroup(fr, i)) \in Nat
    BY <1>4, FeeType
  <2>2. VotesWeight(votes, RemVoters(fr, i)) \in Nat
    BY <1>4, WeightType
  <2>3. Min(BitGroup(fr, i)) \in BitGroup(fr, i)
    BY <1>3, <1>4, MinIn
  <2> QED
    BY <2>1, <2>2, <2>3, <1>5 DEF AggBit
<1>7. \A i, k \in R : k \in BitGroup(fr, i) <=> RemVoters(fr, k) = RemVoters(fr, i)
  BY DEF BitGroup
<1>8. \A i, k \in R : RemVoters(fr, k) = RemVoters(fr, i) => BitGroup(fr, k) = BitGroup(fr, i)
  BY DEF BitGroup
<1>9. \A i, k \in R : RemVoters(fr, k) = RemVoters(fr, i) => AggBit(fr, k) = AggBit(fr, i)
  BY <1>8 DEF AggBit
<1>10. IsFiniteSet(U)
  <2> DEFINE g == [i \in R |-> AggBit(fr, i)]
  <2>1. g \in [R -> U] /\ \A v \in U : \E x \in R : g[x] = v
    BY <1>1
  <2> HIDE DEF g, U, R
  <2> QED
    BY <1>2, <2>1, ImageFinite
<1> HIDE DEF U
<1>11. \A c \in U : /\ c.first \in c.indexes /\ c.indexes \in SUBSET fr.remBits
                    /\ c.fee = BitsFee(fees, c.indexes)
                    /\ c.fee \in Nat /\ c.support \in Nat
                    /\ \A k, l \in c.indexes : RemVoters(fr, k) = RemVoters(fr, l)
  <2> SUFFICES ASSUME NEW i \in R, NEW c, c = AggBit(fr, i)
               PROVE  /\ c.first \in c.indexes /\ c.indexes \in SUBSET fr.remBits
                      /\ c.fee = BitsFee(fees, c.indexes)
                      /\ c.fee \in Nat /\ c.support \in Nat
                      /\ \A k, l \in c.indexes : RemVoters(fr, k) = RemVoters(fr, l)
    BY <1>1
  <2>1. c.indexes = BitGroup(fr, i) /\ c.indexes \in SUBSET R
    BY <1>4, <1>6
  <2>2. \A k, l \in c.indexes : RemVoters(fr, k) = RemVoters(fr, l)
    BY <1>7, <2>1
  <2> QED
    BY <1>6, <2>1, <2>2
<1>12. \A c, d \in U : c.indexes \cap d.indexes # {} => c = d
  <2> SUFFICES ASSUME NEW i \in R, NEW j \in R, NEW k,
                      k \in AggBit(fr, i).indexes, k \in AggBit(fr, j).indexes
               PROVE  AggBit(fr, i) = AggBit(fr, j)
    BY <1>1
  <2>1. k \in R /\ k \in BitGroup(fr, i) /\ k \in BitGroup(fr, j)
    BY <1>4, <1>6
  <2>2. RemVoters(fr, i) = RemVoters(fr, j)
    BY <1>7, <2>1
  <2> QED
    BY <1>9, <2>2
<1>13. \A k \in fr.remBits : \E c \in U : k \in c.indexes
  BY <1>1, <1>3, <1>6
<1> QED
  BY <1>10, <1>11, <1>12, <1>13 DEF AggBitsOK, U

-----------------------------------------------------------------------------
(* What a search is given, and what it means for the votes and the fees.   *)

Processed(info, fr) ==
    \E V, U :
        /\ AggVotesOK(fr, V) /\ Enumerates(info.votes, V)
        /\ AggBitsOK(fr, U) /\ Enumerates(info.bits, U)
        /\ info.excludeFirst \in BOOLEAN
        /\ info.assumedWeight = VotesWeight(votes, fr.inVotes)
        /\ info.assumedFees = BitsFee(fees, fr.inBits)
        /\ info.weightVoted = info.assumedWeight + SumOver([v \in V |-> v.weight], V)
        /\ info.weightVoted > total \div 2
        /\ info.total = total /\ info.maxOps = maxOps

\* The bits and the votes, by their places.
LEMMA PlacedVotes ==
    ASSUME NEW fr, NEW info, Processed(info, fr)
    PROVE  /\ Len(info.votes) \in Nat /\ DOMAIN info.votes = 1..Len(info.votes)
           /\ \A j \in DOMAIN info.votes :
                 /\ info.votes[j].bits \in SUBSET fr.remBits
                 /\ info.votes[j].weight \in Nat
                 /\ info.votes[j].weight = VotesWeight(votes, VoteGroup(fr, info.votes[j].bits))
           /\ \A j, k \in DOMAIN info.votes : info.votes[j].bits = info.votes[k].bits => j = k
           /\ \A l \in fr.remVotes : \E j \in DOMAIN info.votes :
                 info.votes[j].bits = votes[l].bits \cap fr.remBits
<1>1. PICK V : AggVotesOK(fr, V) /\ Enumerates(info.votes, V)
  BY DEF Processed
<1>2. Len(info.votes) \in Nat /\ DOMAIN info.votes = 1..Len(info.votes)
  BY <1>1 DEF Enumerates
<1>3. \A j \in DOMAIN info.votes :
         /\ info.votes[j].bits \in SUBSET fr.remBits
         /\ info.votes[j].weight \in Nat
         /\ info.votes[j].weight = VotesWeight(votes, VoteGroup(fr, info.votes[j].bits))
  BY <1>1 DEF Enumerates, AggVotesOK
<1>4. \A j, k \in DOMAIN info.votes : info.votes[j].bits = info.votes[k].bits => j = k
  BY <1>1 DEF Enumerates, AggVotesOK
<1>5. \A l \in fr.remVotes : \E j \in DOMAIN info.votes :
          info.votes[j].bits = votes[l].bits \cap fr.remBits
  BY <1>1 DEF Enumerates, AggVotesOK
<1> QED
  BY <1>2, <1>3, <1>4, <1>5

LEMMA PlacedBits ==
    ASSUME NEW fr, NEW info, Processed(info, fr)
    PROVE  /\ Len(info.bits) \in Nat /\ DOMAIN info.bits = 1..Len(info.bits)
           /\ \A i \in DOMAIN info.bits :
                 /\ info.bits[i].first \in info.bits[i].indexes
                 /\ info.bits[i].indexes \in SUBSET fr.remBits
                 /\ info.bits[i].fee \in Nat
                 /\ info.bits[i].fee = BitsFee(fees, info.bits[i].indexes)
                 /\ \A k, l \in info.bits[i].indexes : RemVoters(fr, k) = RemVoters(fr, l)
           /\ \A i, k \in DOMAIN info.bits :
                 i # k => info.bits[i].indexes \cap info.bits[k].indexes = {}
           /\ \A k \in fr.remBits : \E i \in DOMAIN info.bits : k \in info.bits[i].indexes
<1>1. PICK U : AggBitsOK(fr, U) /\ Enumerates(info.bits, U)
  BY DEF Processed
<1>2. Len(info.bits) \in Nat /\ DOMAIN info.bits = 1..Len(info.bits)
  BY <1>1 DEF Enumerates
<1>3. \A i \in DOMAIN info.bits :
         /\ info.bits[i].first \in info.bits[i].indexes
         /\ info.bits[i].indexes \in SUBSET fr.remBits
         /\ info.bits[i].fee \in Nat
         /\ info.bits[i].fee = BitsFee(fees, info.bits[i].indexes)
         /\ \A k, l \in info.bits[i].indexes : RemVoters(fr, k) = RemVoters(fr, l)
  BY <1>1 DEF Enumerates, AggBitsOK
<1>4. \A i, k \in DOMAIN info.bits :
         i # k => info.bits[i].indexes \cap info.bits[k].indexes = {}
  BY <1>1 DEF Enumerates, AggBitsOK
<1>5. \A k \in fr.remBits : \E i \in DOMAIN info.bits : k \in info.bits[i].indexes
  BY <1>1 DEF Enumerates, AggBitsOK
<1> QED
  BY <1>2, <1>3, <1>4, <1>5

LEMMA PlacedVote ==
    ASSUME NEW fr, NEW info, Processed(info, fr), NEW j \in DOMAIN info.votes
    PROVE  info.votes[j].weight = VotesWeight(votes, VoteGroup(fr, info.votes[j].bits))
<1>1. PICK V : AggVotesOK(fr, V) /\ Enumerates(info.votes, V)
  BY DEF Processed
<1> QED
  BY <1>1 DEF Enumerates, AggVotesOK

LEMMA PlacedBit ==
    ASSUME NEW fr, NEW info, Processed(info, fr), NEW i \in DOMAIN info.bits
    PROVE  info.bits[i].fee = BitsFee(fees, info.bits[i].indexes)
<1>1. PICK U : AggBitsOK(fr, U) /\ Enumerates(info.bits, U)
  BY DEF Processed
<1> QED
  BY <1>1 DEF Enumerates, AggBitsOK

\* Some of the votes together weigh what the votes they stand for do.
GroupsOf(info, fr, A) == UNION {VoteGroup(fr, info.votes[j].bits) : j \in A}

LEMMA PlacedWeight ==
    ASSUME InputOK, NEW fr, FilterOK(fr), NEW info, Processed(info, fr),
           NEW A \in SUBSET DOMAIN info.votes
    PROVE  VotesWeight(info.votes, A) = VotesWeight(votes, GroupsOf(info, fr, A))
<1> DEFINE D == DOMAIN votes
           f == [j \in DOMAIN votes |-> votes[j].weight]
           K == DOMAIN info.votes
           P == [j \in K |-> VoteGroup(fr, info.votes[j].bits)]
           h == [j \in K |-> info.votes[j].weight]
<1>1. NatOn(f, D)
  BY InputSums
<1>2. IsFiniteSet(K)
  <2>1. Len(info.votes) \in Nat /\ K = 1..Len(info.votes)
    BY PlacedVotes
  <2> HIDE DEF K
  <2> QED
    BY <2>1, FS_Interval
<1>3. \A c : VoteGroup(fr, c) \in SUBSET D
  BY DEF VoteGroup, FilterOK
<1>4. P \in [K -> SUBSET D]
  BY <1>3
<1>5. \A k, l \in K : k # l => P[k] \cap P[l] = {}
  BY PlacedVotes DEF VoteGroup
<1>6. \A k \in K : h[k] = SumOver(f, P[k])
  <2> SUFFICES ASSUME NEW k \in K PROVE h[k] = SumOver(f, P[k])
    OBVIOUS
  <2>0. k \in DOMAIN info.votes
    OBVIOUS
  <2>1. info.votes[k].weight = VotesWeight(votes, VoteGroup(fr, info.votes[k].bits))
    <3> HIDE DEF D, f, K, P, h
    <3> QED
      BY <2>0, PlacedVote
  <2>2. h[k] = info.votes[k].weight /\ P[k] = VoteGroup(fr, info.votes[k].bits)
    OBVIOUS
  <2> HIDE DEF h, P
  <2> QED
    BY <2>1, <2>2 DEF VotesWeight
<1>7. UNION {P[k] : k \in A} = GroupsOf(info, fr, A)
  BY DEF GroupsOf
<1>8. SumOver(h, A) = VotesWeight(info.votes, A)
  BY DEF VotesWeight
<1>9. SumOver(f, GroupsOf(info, fr, A)) = VotesWeight(votes, GroupsOf(info, fr, A))
  BY DEF VotesWeight
<1> HIDE DEF D, f, K, P, h
<1>10. A \in SUBSET K
  BY DEF K
<1>11. SumOver(h, A) = SumOver(f, UNION {P[k] : k \in A})
  BY <1>1, <1>2, <1>4, <1>5, <1>6, <1>10, SumClasses
<1> QED
  BY <1>7, <1>8, <1>9, <1>11

\* Some of the bits together cost what the requests they stand for do.
IndexesOf(info, B) == UNION {info.bits[i].indexes : i \in B}

LEMMA PlacedFees ==
    ASSUME InputOK, NEW fr, FilterOK(fr), NEW info, Processed(info, fr),
           NEW B \in SUBSET DOMAIN info.bits
    PROVE  FeesOf(info, B) = BitsFee(fees, IndexesOf(info, B))
<1> DEFINE D == DOMAIN fees
           K == DOMAIN info.bits
           P == [i \in K |-> info.bits[i].indexes]
           h == [i \in K |-> info.bits[i].fee]
<1>1. NatOn(fees, D)
  BY InputSums
<1>2. IsFiniteSet(K)
  <2>1. Len(info.bits) \in Nat /\ K = 1..Len(info.bits)
    BY PlacedBits
  <2> HIDE DEF K
  <2> QED
    BY <2>1, FS_Interval
<1>3. \A i \in K : info.bits[i].indexes \in SUBSET D
  BY PlacedBits DEF FilterOK
<1>4. P \in [K -> SUBSET D]
  BY <1>3
<1>5. \A k, l \in K : k # l => P[k] \cap P[l] = {}
  BY PlacedBits
<1>6. \A k \in K : h[k] = SumOver(fees, P[k])
  <2> SUFFICES ASSUME NEW k \in K PROVE h[k] = SumOver(fees, P[k])
    OBVIOUS
  <2>0. k \in DOMAIN info.bits
    OBVIOUS
  <2>1. info.bits[k].fee = BitsFee(fees, info.bits[k].indexes)
    <3> HIDE DEF D, K, P, h
    <3> QED
      BY <2>0, PlacedBit
  <2>2. h[k] = info.bits[k].fee /\ P[k] = info.bits[k].indexes
    OBVIOUS
  <2> HIDE DEF h, P
  <2> QED
    BY <2>1, <2>2 DEF BitsFee
<1>7. UNION {P[k] : k \in B} = IndexesOf(info, B)
  BY DEF IndexesOf
<1>8. SumOver(h, B) = FeesOf(info, B)
  BY DEF FeesOf
<1> HIDE DEF D, K, P, h
<1>9. B \in SUBSET K
  BY DEF K
<1>10. SumOver(h, B) = SumOver(fees, UNION {P[k] : k \in B})
  BY <1>1, <1>2, <1>4, <1>5, <1>6, <1>9, SumClasses
<1> QED
  BY <1>7, <1>8, <1>10 DEF BitsFee

LEMMA ProcessedFull ==
    ASSUME InputOK, NEW fr, FilterOK(fr), NEW info, Processed(info, fr)
    PROVE  InfoFull(info)
<1>1. PICK V : /\ AggVotesOK(fr, V) /\ Enumerates(info.votes, V)
               /\ info.weightVoted = info.assumedWeight + SumOver([v \in V |-> v.weight], V)
  BY DEF Processed
<1> DEFINE f == [v \in V |-> v.weight]
           I == DOMAIN info.votes
           q == [i \in I |-> info.votes[i]]
           h == [i \in I |-> info.votes[i].weight]
<1>2. SumOver(h, I) = SumOver(f, V)
  <2>1. NatOn(f, V)
    BY <1>1 DEF AggVotesOK, NatOn
  <2>2. IsFiniteSet(I)
    <3>1. Len(info.votes) \in Nat /\ I = 1..Len(info.votes)
      BY <1>1 DEF Enumerates
    <3> HIDE DEF I
    <3> QED
      BY <3>1, FS_Interval
  <2>3. q \in [I -> V] /\ \A i, j \in I : q[i] = q[j] => i = j
    BY <1>1 DEF Enumerates
  <2>4. \A i \in I : h[i] = f[q[i]]
    BY <1>1 DEF Enumerates
  <2>5. {q[i] : i \in I} = V
    <3>1. \A v \in V : \E i \in I : q[i] = v
      BY <1>1 DEF Enumerates
    <3> HIDE DEF q, I
    <3> QED
      BY <2>3, <3>1
  <2>6. I \in SUBSET I
    OBVIOUS
  <2> HIDE DEF f, I, q, h
  <2>7. SumOver(h, I) = SumOver(f, {q[i] : i \in I})
    BY <2>1, <2>2, <2>3, <2>4, <2>6, SumPlaces
  <2> QED
    BY <2>5, <2>7
<1>3. SumOver(h, I) = VotesWeight(info.votes, DOMAIN info.votes)
  BY DEF VotesWeight
<1>4. info.weightVoted = info.assumedWeight + VotesWeight(info.votes, DOMAIN info.votes)
  <2> HIDE DEF h, I
  <2> QED
    BY <1>1, <1>2, <1>3
<1>5. fr.inVotes \in SUBSET DOMAIN votes /\ fr.inBits \in SUBSET DOMAIN fees
  BY DEF FilterOK
<1>6. /\ info.assumedWeight = VotesWeight(votes, fr.inVotes)
      /\ info.assumedFees = BitsFee(fees, fr.inBits)
      /\ info.total = total /\ info.maxOps = maxOps /\ info.excludeFirst \in BOOLEAN
      /\ info.weightVoted > total \div 2
  BY DEF Processed
<1>7. info.assumedWeight \in Nat /\ info.assumedFees \in Nat
  BY <1>5, <1>6, WeightType, FeeType
<1>8. info.weightVoted > Half(info)
  BY <1>6 DEF Half
<1>9. InfoOK(info)
  <2>1. info.total \in Nat /\ info.maxOps \in Nat \ {0}
    BY <1>6 DEF InputOK
  <2>2. /\ Len(info.votes) \in Nat /\ DOMAIN info.votes = 1..Len(info.votes)
        /\ \A j \in DOMAIN info.votes : info.votes[j].weight \in Nat
    BY PlacedVotes
  <2>3. /\ Len(info.bits) \in Nat /\ DOMAIN info.bits = 1..Len(info.bits)
        /\ \A i \in DOMAIN info.bits : info.bits[i].fee \in Nat
    BY PlacedBits
  <2> QED
    BY <1>6, <2>1, <2>2, <2>3 DEF InfoOK
<1> QED
  BY <1>4, <1>7, <1>8, <1>9 DEF InfoFull

-----------------------------------------------------------------------------
(* The bits of a search and the requests they stand for.                   *)

Chosen(info, fr, B) == fr.inBits \cup IndexesOf(info, B)

\* The votes that filtering left and that confirm all of C.
Kept(fr, C) == {l \in fr.inVotes \cup fr.remVotes : C \subseteq votes[l].bits}

LEMMA ChosenType ==
    ASSUME NEW fr, FilterOK(fr), NEW info, Processed(info, fr),
           NEW B \in SUBSET DOMAIN info.bits
    PROVE  /\ IndexesOf(info, B) \in SUBSET fr.remBits
           /\ IndexesOf(info, B) \in SUBSET DOMAIN fees
           /\ Chosen(info, fr, B) \in SUBSET (fr.inBits \cup fr.remBits)
           /\ Chosen(info, fr, B) \in SUBSET DOMAIN fees
<1>0. \A i \in B : info.bits[i].indexes \in SUBSET fr.remBits
  BY PlacedBits
<1>1. IndexesOf(info, B) \in SUBSET fr.remBits
  BY <1>0 DEF IndexesOf
<1> QED
  BY <1>1 DEF FilterOK, Chosen

LEMMA ChosenFees ==
    ASSUME InputOK, NEW fr, FilterOK(fr), NEW info, Processed(info, fr),
           NEW B \in SUBSET DOMAIN info.bits
    PROVE  SuppFees(info, B) = BitsFee(fees, Chosen(info, fr, B))
<1> DEFINE S == fr.inBits
           T == IndexesOf(info, B)
           D == DOMAIN fees
<1>1. S \in SUBSET D /\ T \in SUBSET D /\ S \cap T = {}
  BY ChosenType DEF FilterOK
<1>2. NatOn(fees, D)
  BY InputSums
<1>3. info.assumedFees = SumOver(fees, S)
  BY DEF Processed, BitsFee
<1>4. FeesOf(info, B) = SumOver(fees, T)
  BY PlacedFees DEF BitsFee
<1>5. Chosen(info, fr, B) = S \cup T
  BY DEF Chosen
<1> HIDE DEF S, T, D
<1>6. SumOver(fees, S \cup T) = SumOver(fees, S) + SumOver(fees, T)
  BY <1>1, <1>2, SumUnion
<1> QED
  BY <1>3, <1>4, <1>5, <1>6 DEF SuppFees, BitsFee

\* The votes for all of some aggregated bits.
LEMMA ChosenVoters ==
    ASSUME NEW fr, FilterOK(fr), NEW info, Processed(info, fr),
           NEW B \in SUBSET DOMAIN info.bits, NEW l \in fr.remVotes,
           NEW j \in DOMAIN info.votes, l \in VoteGroup(fr, info.votes[j].bits)
    PROVE  (\A i \in B : Supports(info, j, i)) <=> Chosen(info, fr, B) \subseteq votes[l].bits
<1>1. fr.inBits \subseteq votes[l].bits
  BY DEF FilterOK
<1>2. votes[l].bits \cap fr.remBits = info.votes[j].bits
  BY DEF VoteGroup
<1>3. ASSUME NEW i \in B
      PROVE  Supports(info, j, i) <=> info.bits[i].indexes \subseteq votes[l].bits
  <2> DEFINE b == info.bits[i]
  <2>1. /\ b.first \in b.indexes /\ b.indexes \in SUBSET fr.remBits
        /\ \A k, m \in b.indexes : RemVoters(fr, k) = RemVoters(fr, m)
    BY PlacedBits
  <2>2. Supports(info, j, i) <=> b.first \in votes[l].bits
    BY <1>2, <2>1 DEF Supports
  <2> HIDE DEF b
  <2>3. \A k \in b.indexes : k \in votes[l].bits <=> l \in RemVoters(fr, k)
    BY DEF RemVoters
  <2>4. b.first \in votes[l].bits <=> b.indexes \subseteq votes[l].bits
    BY <2>1, <2>3
  <2> QED
    BY <2>2, <2>4 DEF b
<1>4. Chosen(info, fr, B) \subseteq votes[l].bits <=> \A i \in B : info.bits[i].indexes \subseteq votes[l].bits
  BY <1>1 DEF Chosen, IndexesOf
<1> QED
  BY <1>3, <1>4

LEMMA ChosenWeight ==
    ASSUME InputOK, NEW fr, FilterOK(fr), NEW info, Processed(info, fr),
           NEW B \in SUBSET DOMAIN info.bits
    PROVE  SuppWeight(info, B) = VotesWeight(votes, Kept(fr, Chosen(info, fr, B)))
<1> DEFINE C == Chosen(info, fr, B)
           A == AllFor(info, DOMAIN info.votes, B)
           G == GroupsOf(info, fr, A)
           S == Kept(fr, C)
           T == fr.inVotes
<1>1. \A l : l \in G <=> l \in fr.remVotes /\ C \subseteq votes[l].bits
  <2>1. ASSUME NEW l \in G PROVE l \in fr.remVotes /\ C \subseteq votes[l].bits
    <3>1. PICK j \in A : l \in VoteGroup(fr, info.votes[j].bits)
      BY DEF GroupsOf
    <3>2. l \in fr.remVotes /\ j \in DOMAIN info.votes /\ \A i \in B : Supports(info, j, i)
      BY <3>1 DEF VoteGroup, AllFor
    <3> HIDE DEF C, A, G
    <3>3. Chosen(info, fr, B) \subseteq votes[l].bits
      BY <3>1, <3>2, ChosenVoters
    <3> QED
      BY <3>2, <3>3 DEF C
  <2>2. ASSUME NEW l \in fr.remVotes, C \subseteq votes[l].bits PROVE l \in G
    <3>1. PICK j \in DOMAIN info.votes : info.votes[j].bits = votes[l].bits \cap fr.remBits
      BY PlacedVotes
    <3>2. l \in VoteGroup(fr, info.votes[j].bits)
      BY <3>1 DEF VoteGroup
    <3>3. \A i \in B : Supports(info, j, i)
      BY <2>2, <3>2, ChosenVoters
    <3>4. j \in A
      BY <3>3 DEF AllFor
    <3> QED
      BY <3>2, <3>4 DEF GroupsOf
  <2> QED
    BY <2>1, <2>2
<1>2. A \in SUBSET DOMAIN info.votes
  BY DEF AllFor
<1>3. C \in SUBSET (fr.inBits \cup fr.remBits)
  BY ChosenType
<1> HIDE DEF A, C, G
<1>4. T \in SUBSET S /\ S \in SUBSET DOMAIN votes /\ S \ T = G
  BY <1>1, <1>3 DEF FilterOK, Kept
<1> HIDE DEF S, T
<1>5. VotesWeight(votes, S) = VotesWeight(votes, T) + VotesWeight(votes, S \ T)
  BY <1>4, WeightParts
<1>6. VotesWeight(info.votes, A) = VotesWeight(votes, G)
  BY <1>2, PlacedWeight DEF G
<1>7. SuppWeight(info, B) = info.assumedWeight + VotesWeight(info.votes, A)
  BY DEF SuppWeight, A
<1>8. info.assumedWeight = VotesWeight(votes, T)
  BY DEF Processed, T
<1> QED
  BY <1>4, <1>5, <1>6, <1>7, <1>8 DEF S, C

-----------------------------------------------------------------------------
(* What a search finds is real, and nothing real is better.                *)

Supporters(C) == {j \in DOMAIN votes : C \subseteq votes[j].bits}

LEMMA SupportTypes ==
    ASSUME InputOK, NEW C \in SUBSET DOMAIN fees
    PROVE  /\ SupportOf(C) = VotesWeight(votes, Supporters(C)) /\ SupportOf(C) \in Nat
           /\ BitsFee(fees, C) \in Nat /\ ValueOf(C) \in Values
           /\ total \in Nat /\ total \div 2 \in Int
<1>1. SupportOf(C) = VotesWeight(votes, Supporters(C)) /\ Supporters(C) \in SUBSET DOMAIN votes
  BY DEF SupportOf, Supporters
<1>2. SupportOf(C) \in Nat
  BY <1>1, WeightType
<1>3. BitsFee(fees, C) \in Nat
  BY FeeType
<1>4. total \in Nat /\ total \div 2 \in Int
  BY DEF InputOK
<1>5. ValueOf(C) \in Values
  BY <1>2, <1>3, <1>4, CalcType DEF ValueOf
<1> QED
  BY <1>1, <1>2, <1>3, <1>4, <1>5

\* Nothing is worth less than choosing nothing.
LEMMA ValueOfNone ==
    ASSUME InputOK
    PROVE  /\ ValueOf({}) = <<0, 0>> /\ <<0, 0>> \in Values
           /\ \A f, w \in Nat : ~Greater(<<0, 0>>, CalcValue(f, w, total))
<1>1. BitsFee(fees, {}) = 0
  BY SumEmpty DEF BitsFee
<1>2. total \in Nat /\ SupportOf({}) \in Int /\ 0 \in Nat /\ 0 \in Int
  BY SupportTypes
<1>3. ValueOf({}) = <<0, 0>> /\ CalcValue(0, 0, total) = <<0, 0>>
  BY <1>1, <1>2, CalcZero DEF ValueOf
<1>4. \A f, w \in Nat : ~Greater(CalcValue(0, 0, total), CalcValue(f, w, total))
  BY <1>2, CalcGrows
<1>5. <<0, 0>> \in Values
  BY DEF Values
<1> QED
  BY <1>3, <1>4, <1>5

\* The votes that are out confirm nothing that is left.
LEMMA KeptAll ==
    ASSUME NEW fr, FilterOK(fr), NEW C \in SUBSET (fr.inBits \cup fr.remBits)
    PROVE  /\ Kept(fr, C) \in SUBSET Supporters(C)
           /\ C # {} => Kept(fr, C) = Supporters(C)
BY DEF FilterOK, Kept, Supporters

LEMMA ChosenReal ==
    ASSUME InputOK, NEW fr, FilterOK(fr), NEW info, Processed(info, fr),
           NEW B \in SUBSET DOMAIN info.bits
    PROVE  /\ SuppValue(info, B) = ValueOf(Chosen(info, fr, B))
           /\ SuppWeight(info, B) > Half(info) => Feasible(Chosen(info, fr, B))
<1> DEFINE C == Chosen(info, fr, B)
<1>1. C \in SUBSET DOMAIN fees /\ C \in SUBSET (fr.inBits \cup fr.remBits)
  BY ChosenType
<1>2. SuppFees(info, B) = BitsFee(fees, C) /\ SuppWeight(info, B) = VotesWeight(votes, Kept(fr, C))
  BY ChosenFees, ChosenWeight
<1>3. info.total = total
  BY DEF Processed
<1>4. InfoFull(info)
  BY ProcessedFull
<1>5. SuppWeight(info, B) \in Nat
  BY <1>4, SuppTypes
<1> HIDE DEF C
<1>6. /\ SupportOf(C) = VotesWeight(votes, Supporters(C)) /\ SupportOf(C) \in Nat
      /\ total \in Nat /\ total \div 2 \in Int
  BY <1>1, SupportTypes
<1>7. /\ Kept(fr, C) \in SUBSET Supporters(C) /\ Supporters(C) \in SUBSET DOMAIN votes
      /\ C # {} => Kept(fr, C) = Supporters(C)
  BY <1>1, KeptAll DEF Supporters
<1>8. VotesWeight(votes, Kept(fr, C)) <= VotesWeight(votes, Supporters(C))
  BY <1>7, WeightParts
<1>9. SuppWeight(info, B) > Half(info) => Feasible(C)
  BY <1>2, <1>3, <1>5, <1>6, <1>8 DEF Half, Feasible
<1>10. SuppValue(info, B) = CalcValue(BitsFee(fees, C), SuppWeight(info, B), total)
  BY <1>2, <1>3 DEF SuppValue
<1>11. CASE C = {}
  <2>1. BitsFee(fees, C) = 0
    BY <1>11, SumEmpty DEF BitsFee
  <2>2. CalcValue(0, SuppWeight(info, B), total) = <<0, 0>>
    BY <1>5, <1>6, CalcZero
  <2>3. ValueOf(C) = <<0, 0>>
    BY <1>11, ValueOfNone
  <2> QED
    BY <1>9, <1>10, <2>1, <2>2, <2>3 DEF C
<1>12. CASE C # {}
  <2>1. SuppWeight(info, B) = SupportOf(C)
    BY <1>2, <1>6, <1>7, <1>12
  <2> QED
    BY <1>9, <1>10, <2>1 DEF C, ValueOf
<1> QED
  BY <1>11, <1>12

\* What a majority confirms together, filtering left.
LEMMA FeasibleLeft ==
    ASSUME InputOK, NEW fr, FilterOK(fr), NEW C \in SUBSET DOMAIN fees, Feasible(C)
    PROVE  C \in SUBSET (fr.inBits \cup fr.remBits)
<1> SUFFICES ASSUME NEW i \in C, i \notin fr.inBits \cup fr.remBits PROVE FALSE
  OBVIOUS
<1>1. VotesWeight(votes, VotesFor(i)) <= total \div 2
  BY DEF FilterOK
<1>2. Supporters(C) \in SUBSET VotesFor(i) /\ VotesFor(i) \in SUBSET DOMAIN votes
  BY DEF Supporters, VotesFor
<1>3. /\ VotesWeight(votes, Supporters(C)) <= VotesWeight(votes, VotesFor(i))
      /\ VotesWeight(votes, VotesFor(i)) \in Nat
  BY <1>2, WeightParts
<1>4. SupportOf(C) = VotesWeight(votes, Supporters(C)) /\ SupportOf(C) \in Nat /\ total \div 2 \in Int
  BY SupportTypes
<1> QED
  BY <1>1, <1>3, <1>4 DEF Feasible

\* The aggregated bits that some of C are in.
Meeting(info, C) == {i \in DOMAIN info.bits : info.bits[i].indexes \cap C # {}}

LEMMA MeetingCovers ==
    ASSUME NEW fr, FilterOK(fr), NEW info, Processed(info, fr),
           NEW C \in SUBSET (fr.inBits \cup fr.remBits), NEW D, D = Chosen(info, fr, Meeting(info, C))
    PROVE  C \in SUBSET D /\ Kept(fr, C) \in SUBSET Kept(fr, D)
<1>1. Meeting(info, C) \in SUBSET DOMAIN info.bits
  BY DEF Meeting
<1>2. D \in SUBSET (fr.inBits \cup fr.remBits)
  BY <1>1, ChosenType
<1>3. ASSUME NEW k \in C PROVE k \in D
  <2>1. CASE k \in fr.inBits
    BY <2>1 DEF Chosen
  <2>2. CASE k \in fr.remBits
    <3>1. PICK i \in DOMAIN info.bits : k \in info.bits[i].indexes
      BY <2>2, PlacedBits
    <3>2. i \in Meeting(info, C)
      BY <3>1 DEF Meeting
    <3>3. k \in IndexesOf(info, Meeting(info, C))
      BY <3>1, <3>2 DEF IndexesOf
    <3> QED
      BY <3>3 DEF Chosen
  <2> QED
    BY <2>1, <2>2
<1>4. ASSUME NEW l \in Kept(fr, C) PROVE l \in Kept(fr, D)
  <2>1. CASE l \in fr.inVotes
    BY <1>2, <2>1 DEF Kept, FilterOK
  <2>2. CASE l \in fr.remVotes
    <3>1. fr.inBits \subseteq votes[l].bits
      BY <2>2 DEF FilterOK
    <3>2. ASSUME NEW i \in Meeting(info, C) PROVE info.bits[i].indexes \subseteq votes[l].bits
      <4>1. PICK k \in C : k \in info.bits[i].indexes
        BY DEF Meeting
      <4>2. \A n, m \in info.bits[i].indexes : RemVoters(fr, n) = RemVoters(fr, m)
        BY <1>1, PlacedBits
      <4>3. l \in RemVoters(fr, k)
        BY <2>2, <4>1 DEF Kept, RemVoters
      <4> QED
        BY <4>1, <4>2, <4>3 DEF RemVoters
    <3>3. D \subseteq votes[l].bits
      BY <3>1, <3>2 DEF Chosen, IndexesOf
    <3> QED
      BY <2>2, <3>3 DEF Kept
  <2> QED
    BY <2>1, <2>2 DEF Kept
<1> QED
  BY <1>3, <1>4

\* The weight and the fees grow with the set.
LEMMA FeesGrow ==
    ASSUME InputOK, NEW D \in SUBSET DOMAIN fees, NEW C \in SUBSET D
    PROVE  BitsFee(fees, C) <= BitsFee(fees, D)
BY InputSums, SumDiff DEF BitsFee

LEMMA NothingBetter ==
    ASSUME InputOK, NEW fr, FilterOK(fr), NEW info, Processed(info, fr),
           NEW v \in Values, IsBest(info, v),
           NEW C \in SUBSET DOMAIN fees, Feasible(C)
    PROVE  ~Greater(ValueOf(C), v)
<1>0. InfoFull(info) /\ info.total = total
  BY ProcessedFull DEF Processed
<1>1. C \in SUBSET (fr.inBits \cup fr.remBits)
  BY FeasibleLeft
<1>2. /\ ValueOf(C) \in Values /\ SupportOf(C) = VotesWeight(votes, Supporters(C))
      /\ SupportOf(C) \in Nat /\ BitsFee(fees, C) \in Nat /\ total \in Nat /\ total \div 2 \in Int
  BY SupportTypes
<1> SUFFICES ASSUME NEW B \in SUBSET DOMAIN info.bits, SuppWeight(info, B) > Half(info),
                    ~Greater(ValueOf(C), SuppValue(info, B))
             PROVE  ~Greater(ValueOf(C), v)
  <2>1. CASE C = {}
    <3>1. {} \in SUBSET DOMAIN info.bits /\ AllFor(info, DOMAIN info.votes, {}) = DOMAIN info.votes
      BY DEF AllFor
    <3>2. SuppWeight(info, {}) = info.weightVoted
      BY <1>0, <3>1 DEF SuppWeight, InfoFull
    <3>3. SuppWeight(info, {}) > Half(info)
      BY <1>0, <3>2 DEF InfoFull
    <3>4. SuppFees(info, {}) \in Nat /\ SuppWeight(info, {}) \in Nat
      BY <1>0, <3>1, SuppTypes
    <3>5. ~Greater(<<0, 0>>, SuppValue(info, {})) /\ ValueOf(C) = <<0, 0>>
      BY <1>0, <2>1, <3>4, ValueOfNone DEF SuppValue
    <3> QED
      BY <3>1, <3>3, <3>5
  <2>2. CASE C # {}
    <3> DEFINE B == Meeting(info, C)
               D == Chosen(info, fr, B)
    <3>1. B \in SUBSET DOMAIN info.bits
      BY DEF Meeting
    <3>2. C \in SUBSET D /\ Kept(fr, C) \in SUBSET Kept(fr, D)
      BY <1>1, MeetingCovers
    <3> HIDE DEF B
    <3>3. /\ D \in SUBSET DOMAIN fees /\ SuppFees(info, B) = BitsFee(fees, D)
          /\ SuppWeight(info, B) = VotesWeight(votes, Kept(fr, D))
      BY <3>1, ChosenType, ChosenFees, ChosenWeight
    <3> HIDE DEF D
    <3>4. Kept(fr, C) = Supporters(C) /\ Kept(fr, D) \in SUBSET DOMAIN votes
      BY <1>1, <2>2, KeptAll DEF Kept, FilterOK
    <3>5. /\ VotesWeight(votes, Kept(fr, C)) <= VotesWeight(votes, Kept(fr, D))
          /\ VotesWeight(votes, Kept(fr, D)) \in Nat
      BY <3>2, <3>4, WeightParts
    <3>6. BitsFee(fees, C) <= BitsFee(fees, D) /\ BitsFee(fees, D) \in Nat
      BY <3>2, <3>3, FeesGrow, FeeType
    <3>7. SupportOf(C) <= SuppWeight(info, B) /\ SuppWeight(info, B) \in Nat
      BY <1>2, <3>3, <3>4, <3>5
    <3>8. SuppWeight(info, B) > Half(info)
      BY <1>0, <1>2, <3>7 DEF Half, Feasible
    <3>9. ~Greater(CalcValue(BitsFee(fees, C), SupportOf(C), total),
                   CalcValue(BitsFee(fees, D), SuppWeight(info, B), total))
      BY <1>2, <3>6, <3>7, CalcGrows
    <3>10. ~Greater(ValueOf(C), SuppValue(info, B))
      BY <1>0, <3>3, <3>9 DEF ValueOf, SuppValue
    <3> QED
      BY <3>1, <3>8, <3>10
  <2> QED
    BY <2>1, <2>2
<1>3. ~Greater(SuppValue(info, B), v)
  BY DEF IsBest
<1>4. SuppValue(info, B) \in Values
  BY <1>0, SuppTypes
<1> QED
  BY <1>2, <1>3, <1>4, ValuesOrdered

-----------------------------------------------------------------------------
(* The invariant: every solution of a search is real, an optimal one best.  *)

\* All that has to be known of the bits C and the value v of a solution.
IsReal(C, v, optimal) ==
    /\ C \in SUBSET DOMAIN fees /\ Feasible(C) /\ v \in Values /\ optimal \in BOOLEAN
    /\ v = ValueOf(C) \/ (v = <<0, 0>> /\ ~optimal)
    /\ optimal => \A E \in SUBSET DOMAIN fees : Feasible(E) => ~Greater(ValueOf(E), v)

TheFilter == Filter(votes, fees, total)

\* The bits a ConsensusSolution stands for.
Assembled(q) == TheFilter.inBits \cup UNION {b.indexes : b \in q.bits}

SolutionOK(q) == IsReal(Assembled(q), q.value, q.optimal)

ProcessOK(p) ==
    /\ p.inBits = TheFilter.inBits
    /\ p.aggVotes = AggregateVotes(TheFilter, votes, fees)
    /\ p.aggBits = AggregateBits(TheFilter, votes, fees)
    /\ p.assumedWeight = VotesWeight(votes, TheFilter.inVotes)
    /\ p.assumedFees = BitsFee(fees, TheFilter.inBits)
    /\ p.weightVoted = p.assumedWeight + SumOver([v \in p.aggVotes |-> v.weight], p.aggVotes)
    /\ p.weightVoted > total \div 2

HasQuorum == VotesWeight(votes, DOMAIN votes) > total \div 2

ResultOK(r) ==
    \/ r.err = TRUE /\ r.optimal = FALSE /\ ~HasQuorum
    \/ r.err = FALSE /\ HasQuorum /\ IsReal(r.bits, r.value, r.optimal)

Inv ==
    /\ InputOK
    /\ DOMAIN sols = Strategies
    /\ \A p \in process : ProcessOK(p)
    /\ \A s \in Strategies : \A q \in sols[s] : SolutionOK(q)
    /\ \A q \in best : SolutionOK(q)
    /\ \A r \in result : ResultOK(r)

\* What an answer of a search stands for.
LEMMA AnswerReal ==
    ASSUME InputOK, NEW info, Processed(info, TheFilter), NEW q, Answer(info, q)
    PROVE  SolutionOK(q)
<1> DEFINE fr == TheFilter
<1>1. FilterOK(fr)
  BY FilterResult DEF TheFilter
<1> HIDE DEF fr
<1>2. Processed(info, fr)
  BY DEF fr
<1>3. InfoFull(info)
  BY <1>1, <1>2, ProcessedFull
<1>4. CASE q = [bits |-> {}, value |-> <<0, 0>>, optimal |-> FALSE]
  <2>1. q.bits = {} /\ q.value = <<0, 0>> /\ q.optimal = FALSE
    BY <1>4
  <2>2. Assembled(q) = Chosen(info, fr, {})
    BY <2>1 DEF Assembled, Chosen, IndexesOf, fr
  <2>3. {} \in SUBSET DOMAIN info.bits /\ AllFor(info, DOMAIN info.votes, {}) = DOMAIN info.votes
    BY DEF AllFor
  <2>4. SuppWeight(info, {}) = info.weightVoted /\ info.weightVoted > Half(info)
    BY <1>3, <2>3 DEF SuppWeight, InfoFull
  <2>5. Feasible(Chosen(info, fr, {}))
    BY <1>1, <1>2, <2>3, <2>4, ChosenReal
  <2>6. Chosen(info, fr, {}) \in SUBSET DOMAIN fees
    BY <1>1, <1>2, <2>3, ChosenType
  <2>7. <<0, 0>> \in Values
    BY DEF Values
  <2> QED
    BY <2>1, <2>2, <2>5, <2>6, <2>7 DEF SolutionOK, IsReal
<1>5. CASE \E B \in SUBSET DOMAIN info.bits :
              /\ q.bits = BitsSet(info, B) /\ q.value = SuppValue(info, B)
              /\ SuppWeight(info, B) > Half(info)
              /\ q.optimal \in BOOLEAN
              /\ q.optimal => IsBest(info, q.value)
  <2>1. PICK B \in SUBSET DOMAIN info.bits :
              /\ q.bits = BitsSet(info, B) /\ q.value = SuppValue(info, B)
              /\ SuppWeight(info, B) > Half(info)
              /\ q.optimal \in BOOLEAN
              /\ q.optimal => IsBest(info, q.value)
    BY <1>5
  <2>2. UNION {b.indexes : b \in BitsSet(info, B)} = IndexesOf(info, B)
    BY DEF BitsSet, IndexesOf
  <2>3. Assembled(q) = Chosen(info, fr, B)
    BY <2>1, <2>2 DEF Assembled, Chosen, fr
  <2>4. Feasible(Chosen(info, fr, B)) /\ q.value = ValueOf(Chosen(info, fr, B))
    BY <1>1, <1>2, <2>1, ChosenReal
  <2>5. Chosen(info, fr, B) \in SUBSET DOMAIN fees
    BY <1>1, <1>2, ChosenType
  <2>6. q.value \in Values
    BY <1>3, <2>1, SuppTypes
  <2>7. q.optimal => \A E \in SUBSET DOMAIN fees : Feasible(E) => ~Greater(ValueOf(E), q.value)
    BY <1>1, <1>2, <2>1, <2>6, NothingBetter
  <2> QED
    BY <2>1, <2>3, <2>4, <2>5, <2>6, <2>7 DEF SolutionOK, IsReal
<1> QED
  BY <1>4, <1>5 DEF Answer

\* Every remaining vote is in one group.
LEMMA GroupsDiffer ==
    ASSUME NEW fr
    PROVE  \A c, d : c # d => VoteGroup(fr, c) \cap VoteGroup(fr, d) = {}
BY DEF VoteGroup

\* The weight of what filtering leaves decides about the quorum.
LEMMA AggregatedWeight ==
    ASSUME InputOK, NEW fr, FilterOK(fr), NEW V, AggVotesOK(fr, V)
    PROVE  VotesWeight(votes, fr.inVotes) + SumOver([v \in V |-> v.weight], V)
              = VotesWeight(votes, fr.inVotes \cup fr.remVotes)
<1> DEFINE D == DOMAIN votes
           f == [j \in DOMAIN votes |-> votes[j].weight]
           P == [v \in V |-> VoteGroup(fr, v.bits)]
           h == [v \in V |-> v.weight]
           S == fr.inVotes \cup fr.remVotes
           T == fr.inVotes
<1>1. NatOn(f, D)
  BY InputSums
<1>2. \A c : VoteGroup(fr, c) \in SUBSET D
  BY DEF VoteGroup, FilterOK
<1>3. P \in [V -> SUBSET D] /\ IsFiniteSet(V)
  BY <1>2 DEF AggVotesOK
<1>4. \A u, v \in V : u # v => P[u] \cap P[v] = {}
  <2>1. \A u, v \in V : u # v => u.bits # v.bits
    BY DEF AggVotesOK
  <2> QED
    BY <2>1, GroupsDiffer
<1>5. \A U : VotesWeight(votes, U) = SumOver(f, U)
  BY DEF VotesWeight
<1>6. \A v \in V : h[v] = SumOver(f, P[v])
  <2> SUFFICES ASSUME NEW v \in V PROVE h[v] = SumOver(f, P[v])
    OBVIOUS
  <2>1. h[v] = VotesWeight(votes, VoteGroup(fr, v.bits)) /\ P[v] = VoteGroup(fr, v.bits)
    BY DEF AggVotesOK
  <2> HIDE DEF h, P, f
  <2> QED
    BY <1>5, <2>1
<1>7. UNION {P[v] : v \in V} = fr.remVotes
  BY DEF AggVotesOK, VoteGroup
<1>8. V \in SUBSET V
  OBVIOUS
<1>9. T \in SUBSET S /\ S \in SUBSET DOMAIN votes /\ S \ T = fr.remVotes
  BY DEF FilterOK
<1> HIDE DEF D, f, P, h, S, T
<1>10. SumOver(h, V) = SumOver(f, UNION {P[v] : v \in V})
  BY <1>1, <1>3, <1>4, <1>6, <1>8, SumClasses
<1>11. VotesWeight(votes, S) = VotesWeight(votes, T) + VotesWeight(votes, S \ T)
  BY <1>9, WeightParts
<1> QED
  BY <1>5, <1>7, <1>9, <1>10, <1>11 DEF h, S, T

\* What the two searches are given.
LEMMA GivenToBits ==
    ASSUME InputOK, NEW p, ProcessOK(p), NEW s \in Strategies
    PROVE  Processed(ProcessInfo(p, SetToSeq(p.aggVotes), sortFees(p.aggBits, total, s = "second"), s),
                     TheFilter)
<1> DEFINE fr == TheFilter
           V == p.aggVotes
           U == p.aggBits
           vs == SetToSeq(V)
           bs == sortFees(U, total, s = "second")
           info == ProcessInfo(p, vs, bs, s)
<1>1. FilterOK(fr)
  BY FilterResult DEF TheFilter
<1>2. AggVotesOK(fr, V) /\ AggBitsOK(fr, U)
  <2> HIDE DEF fr
  <2> QED
    BY <1>1, AggregateVotesOK, AggregateBitsOK DEF ProcessOK, fr
<1>3. Enumerates(vs, V)
  BY <1>2, SetToSeqEnumerates DEF AggVotesOK
<1>4. Enumerates(bs, U)
  <2>1. Sortable(U, [b \in U |-> CalcValue(b.fee, b.support, total)])
    <3>1. total \in Nat /\ fr.remBits \in SUBSET Nat
      BY <1>1 DEF InputOK, FilterOK
    <3>2. \A b \in U : b.first \in Int /\ CalcValue(b.fee, b.support, total) \in Values
      BY <1>2, <3>1, CalcType DEF AggBitsOK
    <3>3. \A b, c \in U : b.first = c.first => b = c
      BY <1>2 DEF AggBitsOK
    <3>4. IsFiniteSet(U)
      BY <1>2 DEF AggBitsOK
    <3> HIDE DEF U
    <3> QED
      BY <3>2, <3>3, <3>4 DEF Sortable
  <2>2. (s = "second") \in BOOLEAN
    OBVIOUS
  <2> HIDE DEF U
  <2> QED
    BY <2>1, <2>2, sortFeesEnumerates
<1> HIDE DEF vs, bs
<1>5. /\ info.votes = vs /\ info.bits = bs /\ info.excludeFirst \in BOOLEAN
      /\ info.assumedWeight = p.assumedWeight /\ info.assumedFees = p.assumedFees
      /\ info.weightVoted = p.weightVoted /\ info.total = total /\ info.maxOps = maxOps
  BY DEF ProcessInfo
<1> HIDE DEF info
<1>6. Processed(info, fr)
  BY <1>2, <1>3, <1>4, <1>5 DEF Processed, ProcessOK
<1> QED
  BY <1>6 DEF info, vs, bs

LEMMA GivenToVotes ==
    ASSUME InputOK, NEW p, ProcessOK(p), NEW s \in Strategies
    PROVE  Processed(ProcessInfo(p, sortVotes(p.aggVotes, s = "second"), SetToSeq(p.aggBits), s),
                     TheFilter)
<1> DEFINE fr == TheFilter
           V == p.aggVotes
           U == p.aggBits
           vs == sortVotes(V, s = "second")
           bs == SetToSeq(U)
           info == ProcessInfo(p, vs, bs, s)
<1>1. FilterOK(fr)
  BY FilterResult DEF TheFilter
<1>2. AggVotesOK(fr, V) /\ AggBitsOK(fr, U)
  <2> HIDE DEF fr
  <2> QED
    BY <1>1, AggregateVotesOK, AggregateBitsOK DEF ProcessOK, fr
<1>3. Enumerates(bs, U)
  BY <1>2, SetToSeqEnumerates DEF AggBitsOK
<1>4. Enumerates(vs, V)
  <2>1. fr.remVotes \in SUBSET Nat
    BY <1>1 DEF InputOK, FilterOK
  <2>0. \A c : VoteGroup(fr, c) \in SUBSET fr.remVotes
    BY DEF VoteGroup
  <2>5. /\ \A x \in V : x.first \in VoteGroup(fr, x.bits) /\ x.fees \in Nat /\ x.weight \in Nat
        /\ \A x, y \in V : x.bits = y.bits => x = y
    BY <1>2 DEF AggVotesOK
  <2> HIDE DEF V, fr
  <2>2. \A x \in V : x.first \in Int /\ x.fees \in Int /\ x.weight \in Int
    BY <2>0, <2>1, <2>5
  <2>3. \A x, y \in V : x.first = y.first => x = y
    BY <2>5, GroupsDiffer
  <2>4. IsFiniteSet(V) /\ (s = "second") \in BOOLEAN
    BY <1>2 DEF AggVotesOK
  <2> HIDE DEF V
  <2> QED
    BY <2>2, <2>3, <2>4, sortVotesEnumerates
<1> HIDE DEF vs, bs
<1>5. /\ info.votes = vs /\ info.bits = bs /\ info.excludeFirst \in BOOLEAN
      /\ info.assumedWeight = p.assumedWeight /\ info.assumedFees = p.assumedFees
      /\ info.weightVoted = p.weightVoted /\ info.total = total /\ info.maxOps = maxOps
  BY DEF ProcessInfo
<1> HIDE DEF info
<1>6. Processed(info, fr)
  BY <1>2, <1>3, <1>4, <1>5 DEF Processed, ProcessOK
<1> QED
  BY <1>6 DEF info, vs, bs

-----------------------------------------------------------------------------
(* The invariant holds.                                                    *)

LEMMA InitInput == Init => InputOK
<1> SUFFICES ASSUME Init PROVE InputOK
  OBVIOUS
<1>0. PICK inst \in Instances :
          /\ \E bv \in [DOMAIN inst.weights -> SUBSET DOMAIN inst.fees] :
                votes = [j \in DOMAIN bv |-> [bits |-> bv[j], weight |-> inst.weights[j]]]
          /\ fees = inst.fees /\ total = inst.total /\ maxOps = inst.maxOps
  BY DEF Init
<1>1. PICK bv \in [DOMAIN inst.weights -> SUBSET DOMAIN inst.fees] :
          /\ votes = [j \in DOMAIN bv |-> [bits |-> bv[j], weight |-> inst.weights[j]]]
          /\ fees = inst.fees /\ total = inst.total /\ maxOps = inst.maxOps
  BY <1>0
<1>2. /\ inst.weights \in Seq(Nat \ {0}) /\ inst.fees \in Seq(Nat \ {0})
      /\ inst.total \in Nat /\ inst.maxOps \in Nat \ {0}
  BY InstancesAssumption
<1>3. /\ Len(inst.weights) \in Nat /\ DOMAIN inst.weights = 1..Len(inst.weights)
      /\ Len(inst.fees) \in Nat /\ DOMAIN inst.fees = 1..Len(inst.fees)
      /\ \A j \in DOMAIN inst.weights : inst.weights[j] \in Nat \ {0}
      /\ \A i \in DOMAIN inst.fees : inst.fees[i] \in Nat
  BY <1>2
<1>4. /\ IsFiniteSet(DOMAIN inst.weights) /\ DOMAIN inst.weights \subseteq Nat
      /\ IsFiniteSet(DOMAIN inst.fees) /\ DOMAIN inst.fees \subseteq Nat
  <2>1. \A n \in Nat : IsFiniteSet(1..n) /\ 1..n \subseteq Nat
    BY FS_Interval
  <2> QED
    BY <1>3, <2>1
<1>5. /\ DOMAIN votes = DOMAIN inst.weights
      /\ \A j \in DOMAIN votes : /\ votes[j].weight = inst.weights[j]
                                 /\ votes[j].bits \in SUBSET DOMAIN fees
  BY <1>1
<1> QED
  BY <1>1, <1>2, <1>3, <1>4, <1>5 DEF InputOK

LEMMA InitInv == Init => Inv
<1> SUFFICES ASSUME Init PROVE Inv
  OBVIOUS
<1>1. InputOK
  BY InitInput
<1>2. process = {} /\ best = {} /\ sols = NotEnded /\ result = {}
  BY DEF Init
<1>3. DOMAIN sols = Strategies /\ \A s \in Strategies : sols[s] = {}
  BY <1>2 DEF NotEnded
<1> QED
  BY <1>1, <1>2, <1>3 DEF Inv

\* What is known of the input and of the solutions does not change with it.
LEMMA SameInput ==
    ASSUME UNCHANGED input
    PROVE  /\ InputOK <=> InputOK'
           /\ \A q : SolutionOK(q) <=> SolutionOK(q)'
           /\ \A p : ProcessOK(p) <=> ProcessOK(p)'
           /\ \A r : ResultOK(r) <=> ResultOK(r)'
<1>1. votes' = votes /\ fees' = fees /\ total' = total /\ maxOps' = maxOps
  BY DEF input
<1>2. InputOK <=> InputOK'
  BY <1>1 DEF InputOK
<1>3. \A C, v, o : IsReal(C, v, o) <=> IsReal(C, v, o)'
  BY <1>1 DEF IsReal, Feasible, ValueOf, SupportOf
<1>4. TheFilter' = TheFilter
  BY <1>1 DEF TheFilter
<1>5. \A q : SolutionOK(q) <=> SolutionOK(q)'
  BY <1>1, <1>3, <1>4 DEF SolutionOK, Assembled, IsReal, Feasible, ValueOf, SupportOf
<1>6. \A p : ProcessOK(p) <=> ProcessOK(p)'
  BY <1>1, <1>4 DEF ProcessOK
<1>7. \A r : ResultOK(r) <=> ResultOK(r)'
  BY <1>1, <1>3 DEF ResultOK, HasQuorum, IsReal, Feasible, ValueOf, SupportOf
<1> QED
  BY <1>2, <1>5, <1>6, <1>7

LEMMA BoundType ==
    ASSUME Inv PROVE initialBound \in Values
<1>1. <<0, 0>> \in Values
  BY DEF Values
<1>2. \A q \in best : q.value \in Values
  BY DEF Inv, SolutionOK, IsReal
<1> QED
  BY <1>1, <1>2 DEF initialBound

LEMMA ensembleInv ==
    ASSUME Inv, ensemble PROVE Inv'
<1> DEFINE fr == TheFilter
           V == AggregateVotes(fr, votes, fees)
           U == AggregateBits(fr, votes, fees)
           w == GuaranteedWeight(fr, votes) + SumOver([v \in V |-> v.weight], V)
<1>1. InputOK /\ FilterOK(fr) /\ QuorumLeft(fr)
  BY FilterResult DEF Inv, TheFilter
<1>2. w > total \div 2 <=> HasQuorum
  <2> HIDE DEF fr
  <2>1. AggVotesOK(fr, V)
    BY <1>1, AggregateVotesOK
  <2> HIDE DEF V
  <2>2. w = VotesWeight(votes, fr.inVotes \cup fr.remVotes)
    BY <1>1, <2>1, AggregatedWeight DEF GuaranteedWeight
  <2> HIDE DEF w
  <2> QED
    BY <1>1, <2>2 DEF QuorumLeft, HasQuorum
<1>3. w \in Int /\ total \div 2 \in Int
  <2> HIDE DEF fr
  <2>1. AggVotesOK(fr, V)
    BY <1>1, AggregateVotesOK
  <2> HIDE DEF V
  <2>2. w = VotesWeight(votes, fr.inVotes \cup fr.remVotes)
    BY <1>1, <2>1, AggregatedWeight DEF GuaranteedWeight
  <2>3. fr.inVotes \cup fr.remVotes \in SUBSET DOMAIN votes
    BY <1>1 DEF FilterOK
  <2>4. VotesWeight(votes, fr.inVotes \cup fr.remVotes) \in Nat
    BY <1>1, <2>3, WeightType
  <2> HIDE DEF w
  <2> QED
    BY <1>1, <2>2, <2>4 DEF InputOK
<1>4. UNCHANGED input /\ best' = best /\ sols' = sols
  BY DEF ensemble
<1>5. /\ \A q \in best' : SolutionOK(q)'
      /\ \A s \in Strategies : \A q \in sols'[s] : SolutionOK(q)'
      /\ DOMAIN sols' = Strategies /\ InputOK'
  BY <1>4, SameInput DEF Inv
<1>6. CASE /\ w <= total \div 2
           /\ result' = {[err |-> TRUE, bits |-> {}, value |-> <<0, 0>>, optimal |-> FALSE]}
           /\ process' = process
  <2>1. ~HasQuorum
    BY <1>2, <1>3, <1>6
  <2>2. \A r \in result' : ResultOK(r)
    BY <1>6, <2>1 DEF ResultOK
  <2>3. \A r \in result' : ResultOK(r)'
    BY <1>4, <2>2, SameInput
  <2>4. \A p \in process' : ProcessOK(p)'
    BY <1>4, <1>6, SameInput DEF Inv
  <2> QED
    BY <1>5, <2>3, <2>4 DEF Inv
<1>7. CASE /\ w > total \div 2
           /\ process' = {[inBits |-> fr.inBits, aggVotes |-> V, aggBits |-> U,
                           assumedWeight |-> GuaranteedWeight(fr, votes),
                           assumedFees |-> GuaranteedFees(fr, fees),
                           weightVoted |-> w]}
           /\ result' = result
  <2> DEFINE p == [inBits |-> fr.inBits, aggVotes |-> V, aggBits |-> U,
                   assumedWeight |-> GuaranteedWeight(fr, votes),
                   assumedFees |-> GuaranteedFees(fr, fees),
                   weightVoted |-> w]
  <2>1. /\ p.inBits = fr.inBits /\ p.aggVotes = V /\ p.aggBits = U /\ p.weightVoted = w
        /\ p.assumedWeight = VotesWeight(votes, fr.inVotes)
        /\ p.assumedFees = BitsFee(fees, fr.inBits)
    BY DEF GuaranteedWeight, GuaranteedFees
  <2>2. p.weightVoted = p.assumedWeight + SumOver([v \in p.aggVotes |-> v.weight], p.aggVotes)
    BY DEF GuaranteedWeight
  <2>3. process' = {p}
    BY <1>7
  <2> HIDE DEF p, w, U, V
  <2>4. ProcessOK(p)
    BY <1>7, <2>1, <2>2 DEF ProcessOK, U, V
  <2>5. \A x \in process' : ProcessOK(x)'
    BY <1>4, <2>3, <2>4, SameInput
  <2>6. \A r \in result' : ResultOK(r)'
    BY <1>4, <1>7, SameInput DEF Inv
  <2> QED
    BY <1>5, <2>5, <2>6 DEF Inv
<1> QED
  BY <1>6, <1>7 DEF ensemble, TheFilter

\* A strategy ends.
LEMMA EndedInv ==
    ASSUME Inv, NEW s \in Strategies, NEW X, \A q \in X : SolutionOK(q),
           sols' = [sols EXCEPT ![s] = X],
           UNCHANGED <<input, pc, process, methods, best, result>>
    PROVE  Inv'
<1>1. UNCHANGED input /\ process' = process /\ best' = best /\ result' = result
  OBVIOUS
<1>2. DOMAIN sols' = Strategies /\ \A t \in Strategies : \A q \in sols'[t] : SolutionOK(q)
  BY DEF Inv
<1>3. \A t \in Strategies : \A q \in sols'[t] : SolutionOK(q)'
  BY <1>1, <1>2, SameInput
<1> QED
  BY <1>1, <1>2, <1>3, SameInput DEF Inv

LEMMA BitsInv ==
    ASSUME Inv, NEW s \in Strategies, BranchAndBoundBitsDouble(s) PROVE Inv'
<1> DEFINE info(p) == ProcessInfo(p, SetToSeq(p.aggVotes), sortFees(p.aggBits, total, s = "second"), s)
           X == {BranchAndBoundBits(info(p), initialBound) : p \in process}
<1>1. sols' = [sols EXCEPT ![s] = X] /\ UNCHANGED <<input, pc, process, methods, best, result>>
  BY DEF BranchAndBoundBitsDouble
<1>2. ASSUME NEW p \in process PROVE SolutionOK(BranchAndBoundBits(info(p), initialBound))
  <2>1. InputOK /\ ProcessOK(p)
    BY DEF Inv
  <2>2. Processed(info(p), TheFilter)
    BY <2>1, GivenToBits
  <2>3. PICK i : i = info(p)
    OBVIOUS
  <2> HIDE DEF info
  <2>4. InfoFull(i)
    <3>1. FilterOK(TheFilter)
      BY <2>1, FilterResult DEF TheFilter
    <3> QED
      BY <2>1, <2>2, <2>3, <3>1, ProcessedFull
  <2>5. Answer(i, BranchAndBoundBits(i, initialBound))
    BY <2>4, BoundType, BitsAnswer
  <2> QED
    BY <2>1, <2>2, <2>3, <2>5, AnswerReal
<1>3. \A q \in X : SolutionOK(q)
  BY <1>2
<1> HIDE DEF X
<1> QED
  BY <1>1, <1>3, EndedInv

LEMMA VotesInv ==
    ASSUME Inv, NEW s \in Strategies, BranchAndBoundVotesDouble(s) PROVE Inv'
<1> DEFINE info(p) == ProcessInfo(p, sortVotes(p.aggVotes, s = "second"), SetToSeq(p.aggBits), s)
           X == {BranchAndBoundVotes(info(p), initialBound) : p \in process}
<1>1. sols' = [sols EXCEPT ![s] = X] /\ UNCHANGED <<input, pc, process, methods, best, result>>
  BY DEF BranchAndBoundVotesDouble
<1>2. ASSUME NEW p \in process PROVE SolutionOK(BranchAndBoundVotes(info(p), initialBound))
  <2>1. InputOK /\ ProcessOK(p)
    BY DEF Inv
  <2>2. Processed(info(p), TheFilter)
    BY <2>1, GivenToVotes
  <2>3. PICK i : i = info(p)
    OBVIOUS
  <2> HIDE DEF info
  <2>4. InfoFull(i)
    <3>1. FilterOK(TheFilter)
      BY <2>1, FilterResult DEF TheFilter
    <3> QED
      BY <2>1, <2>2, <2>3, <3>1, ProcessedFull
  <2>5. Answer(i, BranchAndBoundVotes(i, initialBound))
    BY <2>4, BoundType, VotesAnswer
  <2> QED
    BY <2>1, <2>2, <2>3, <2>5, AnswerReal
<1>3. \A q \in X : SolutionOK(q)
  BY <1>2
<1> HIDE DEF X
<1> QED
  BY <1>1, <1>3, EndedInv

LEMMA NextMethodInv ==
    ASSUME Inv, NextMethod PROVE Inv'
<1>1. PICK sol \in sols["first"] \cup sols["second"] : best' = {sol}
  BY DEF NextMethod
<1>2. UNCHANGED input /\ sols' = NotEnded /\ process' = process /\ result' = result
  BY DEF NextMethod
<1>3. SolutionOK(sol)
  BY <1>1 DEF Inv, Strategies
<1>4. \A q \in best' : SolutionOK(q)'
  BY <1>1, <1>2, <1>3, SameInput
<1>5. DOMAIN sols' = Strategies /\ \A s \in Strategies : sols'[s] = {}
  BY <1>2 DEF NotEnded
<1> QED
  BY <1>2, <1>4, <1>5, SameInput DEF Inv

LEMMA EnsembleInv ==
    ASSUME Inv, EnsembleConsensusBitVote PROVE Inv'
<1>0. PICK sol \in sols["first"] \cup sols["second"], p \in process :
          \E won \in best \cup {sol} :
             result' = {[err |-> FALSE,
                         bits |-> p.inBits \cup UNION {b.indexes : b \in won.bits},
                         value |-> won.value,
                         optimal |-> won.optimal]}
  BY DEF EnsembleConsensusBitVote
<1>1. PICK won \in best \cup {sol} :
          result' = {[err |-> FALSE,
                      bits |-> p.inBits \cup UNION {b.indexes : b \in won.bits},
                      value |-> won.value,
                      optimal |-> won.optimal]}
  BY <1>0
<1>2. UNCHANGED input /\ sols' = sols /\ process' = process /\ best' = best
  BY DEF EnsembleConsensusBitVote
<1>3. SolutionOK(won)
  BY <1>1 DEF Inv, Strategies
<1>4. ProcessOK(p) /\ InputOK /\ FilterOK(TheFilter) /\ QuorumLeft(TheFilter)
  BY FilterResult DEF Inv, TheFilter
<1>5. p.inBits \cup UNION {b.indexes : b \in won.bits} = Assembled(won)
  BY <1>4 DEF Assembled, ProcessOK
<1>6. HasQuorum
  <2> DEFINE fr == TheFilter
  <2> HIDE DEF fr
  <2>1. AggVotesOK(fr, p.aggVotes)
    BY <1>4, AggregateVotesOK DEF ProcessOK, fr
  <2>2. p.weightVoted = VotesWeight(votes, fr.inVotes \cup fr.remVotes)
    BY <1>4, <2>1, AggregatedWeight DEF ProcessOK, fr
  <2> QED
    BY <1>4, <2>2 DEF ProcessOK, QuorumLeft, HasQuorum, fr
<1>7. PICK r : r = [err |-> FALSE, bits |-> Assembled(won), value |-> won.value,
                    optimal |-> won.optimal]
  OBVIOUS
<1>8. r.err = FALSE /\ r.bits = Assembled(won) /\ r.value = won.value /\ r.optimal = won.optimal
  BY <1>7
<1>9. ResultOK(r)
  BY <1>3, <1>6, <1>8 DEF ResultOK, SolutionOK
<1>10. \A x \in result' : ResultOK(x)'
  BY <1>1, <1>2, <1>5, <1>7, <1>9, SameInput
<1> QED
  BY <1>2, <1>10, SameInput DEF Inv

LEMMA InvHolds == Spec => []Inv
<1>1. Init => Inv
  BY InitInv
<1>2. Inv /\ [Next]_vars => Inv'
  <2> SUFFICES ASSUME Inv, [Next]_vars PROVE Inv'
    OBVIOUS
  <2>1. CASE ensemble
    BY <2>1, ensembleInv
  <2>2. CASE \E s \in Strategies : BranchAndBoundBitsDouble(s) \/ BranchAndBoundVotesDouble(s)
    BY <2>2, BitsInv, VotesInv
  <2>3. CASE NextMethod
    BY <2>3, NextMethodInv
  <2>4. CASE EnsembleConsensusBitVote
    BY <2>4, EnsembleInv
  <2>5. CASE UNCHANGED vars
    <3>1. UNCHANGED input /\ process' = process /\ best' = best /\ result' = result /\ sols' = sols
      BY <2>5 DEF vars
    <3> QED
      BY <3>1, SameInput DEF Inv
  <2> QED
    BY <2>1, <2>2, <2>3, <2>4, <2>5 DEF Next
<1> QED
  BY <1>1, <1>2, PTL DEF Spec

\* Whatever the search did and wherever it was cut short, voters with more than
\* half of the total weight confirm all the chosen requests together, for every
\* number of voters and requests, all weights and fees and every bound on the
\* operations (FilterBits, Cut, MaximizeBits, AssembleSolution).
THEOREM MajorityConfirmsChosenHolds == Spec => []MajorityConfirmsChosen
<1>1. Inv => MajorityConfirmsChosen
  BY DEF Inv, ResultOK, IsReal, MajorityConfirmsChosen
<1> QED
  BY <1>1, InvHolds, PTL

\* The consensus fails exactly when not more than half of the weight voted: the
\* votes that FilterVotes removes never decide about it (ensemble).
THEOREM ErrorIffNoQuorumHolds == Spec => []ErrorIffNoQuorum
<1>1. Inv => ErrorIffNoQuorum
  <2> SUFFICES ASSUME Inv, NEW r \in result
               PROVE  r.err <=> VotesWeight(votes, DOMAIN votes) <= total \div 2
    BY DEF ErrorIffNoQuorum
  <2>1. ResultOK(r) /\ InputOK
    BY DEF Inv
  <2>2. DOMAIN votes \in SUBSET DOMAIN votes /\ total \div 2 \in Int
    BY <2>1 DEF InputOK
  <2>3. VotesWeight(votes, DOMAIN votes) \in Nat
    BY <2>1, <2>2, WeightType
  <2> QED
    BY <2>1, <2>2, <2>3 DEF ResultOK, HasQuorum
<1> QED
  BY <1>1, InvHolds, PTL

\* A solution that is reported as optimal has the best value any set of requests
\* with majority support has: neither the filters and the aggregation nor the
\* bounds of the searches nor the stop of the second strategy lose it
\* (BranchAndBoundBits, BranchAndBoundVotes, EnsembleConsensusBitVote).
THEOREM OptimalIsOptimalHolds == Spec => []OptimalIsOptimal
<1>1. Inv => OptimalIsOptimal
  BY DEF Inv, ResultOK, IsReal, OptimalIsOptimal
<1> QED
  BY <1>1, InvHolds, PTL

\* The second strategy never beats an optimal first one, so a Double that does not
\* wait for it returns what it would have returned after waiting
\* (BranchAndBoundBitsDouble, BranchAndBoundVotesDouble).
THEOREM FirstOptimalNeverWorseHolds == Spec => []FirstOptimalNeverWorse
<1>1. Inv => FirstOptimalNeverWorse
  <2> SUFFICES ASSUME Inv, NEW s0 \in sols["first"], NEW s1 \in sols["second"], s0.optimal
               PROVE  ~Greater(s1.value, s0.value)
    BY DEF FirstOptimalNeverWorse
  <2>1. SolutionOK(s0) /\ SolutionOK(s1) /\ InputOK
    BY DEF Inv, Strategies
  <2>2. /\ Assembled(s0) \in SUBSET DOMAIN fees /\ s0.value = ValueOf(Assembled(s0))
        /\ \A E \in SUBSET DOMAIN fees : Feasible(E) => ~Greater(ValueOf(E), s0.value)
    BY <2>1 DEF SolutionOK, IsReal
  <2>3. CASE s1.value = ValueOf(Assembled(s1))
    BY <2>1, <2>2, <2>3 DEF SolutionOK, IsReal
  <2>4. CASE s1.value = <<0, 0>>
    <3>1. SupportOf(Assembled(s0)) \in Nat /\ BitsFee(fees, Assembled(s0)) \in Nat
      BY <2>1, <2>2, SupportTypes
    <3>2. ~Greater(<<0, 0>>, ValueOf(Assembled(s0)))
      BY <2>1, <3>1, ValueOfNone DEF ValueOf
    <3> QED
      BY <2>2, <2>4, <3>2
  <2> QED
    BY <2>1, <2>3, <2>4 DEF SolutionOK, IsReal
<1> QED
  BY <1>1, InvHolds, PTL

\* The value that decides between strategies and methods is the value of the bits
\* that are returned, also after MaximizeBits and MaximizeVotes have added to them.
THEOREM ReportedValueIsRealHolds == Spec => []ReportedValueIsReal
<1>1. Inv => ReportedValueIsReal
  BY DEF Inv, ResultOK, IsReal, ReportedValueIsReal
<1> QED
  BY <1>1, InvHolds, PTL

=============================================================================
